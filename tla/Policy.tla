------------------------------- MODULE Policy -------------------------------
(***************************************************************************)
(* The device policy (policy/mod.rs): the daemon's own from its settings,  *)
(* a container's from its labels.  A glob is a record: valid, when it      *)
(* compiles, is clean and is under /dev, and names, the device names it    *)
(* matches.  A list is a set of globs; no list and an empty one are read   *)
(* alike everywhere.  What fails returns the empty set.                    *)
(***************************************************************************)

Modes == {"opt-in", "all"}

\* A refused glob matches nothing.
MatchAny(globs, name) == \E g \in globs : g.valid /\ name \in g.names

ValidateGlobs(globs) == \A g \in globs : g.valid

Global(mode, allow, deny) ==
  {p \in {[mode |-> mode, allow |-> allow, deny |-> deny]} :
     mode \in Modes /\ ValidateGlobs(allow) /\ ValidateGlobs(deny)}

\* labels: enable, "absent" or its text, and the two lists.
Container(labels) ==
  {c \in {[enable |-> labels.enable, allow |-> labels.allow,
           deny |-> labels.deny]} :
     /\ c.enable \in {"absent", "true", "false"}
     /\ ValidateGlobs(c.allow)
     /\ ValidateGlobs(c.deny)}

Enabled(global, container) ==
  /\ container.enable # "false"
  /\ global.mode = "opt-in" => container.enable = "true"

Denied(global, container, name) ==
  MatchAny(global.deny, name) \/ MatchAny(container.deny, name)

\* The labels only narrow: both lists must pass, an empty one passes all.
Authorized(global, container, name) ==
  /\ global.allow = {} \/ MatchAny(global.allow, name)
  /\ container.allow = {} \/ MatchAny(container.allow, name)
=============================================================================
