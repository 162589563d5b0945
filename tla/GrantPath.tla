----------------------------- MODULE GrantPath ------------------------------
(***************************************************************************)
(* From a container's labels and mounts to the filter the kernel runs: a   *)
(* collection (DeviceRules) gives the desired devices, and passes over the *)
(* container's cgroup put them into the attached program (FilterProgram).  *)
(* One program is attached here; CgroupV2 has the sets of them and their   *)
(* replacement.                                                            *)
(***************************************************************************)
EXTENDS DeviceRules, FilterProgram

CONSTANTS
  Programs,    \* what a runtime attaches: the kernel's dump and its metadata
  OtherRules,  \* the rules another release wraps with
  Changes,     \* what another tool changes in a slot
  Requests,    \* what containers ask for
  MaxPasses    \* bound: passes after the first

VARIABLES
  attached,  \* the dump of the attached program, <<>> before there is one
  meta,      \* what the kernel tells of its maps
  runtime,   \* history: the runtime's own program
  layers,    \* history: the rules of the wrappers around it, outermost first
  foreign,   \* history: another tool has changed the program
  passes     \* the passes so far

fvars == <<attached, meta, runtime, layers, foreign, passes>>
vars == <<rvars, fvars>>

NoMeta == [known |-> FALSE, maps |-> 0]

\* Aggregation::emit: a device is granted whole.
Rule(id) == [allow |-> TRUE, kind |-> "c", major |-> 8, minor |-> id, access |-> AllAccess]
RulesOf(devices) == [k \in 1..Cardinality(devices) |-> Rule(SetToSeq(devices)[k])]

\* A lineage keeps its nonce; each wrapper of another release has its own.
Nonce == 5
OtherNonce == 6

Init ==
  /\ RulesInit
  /\ attached = <<>> /\ meta = NoMeta /\ runtime = <<>>
  /\ layers = <<>> /\ foreign = FALSE /\ passes = 0

-----------------------------------------------------------------------------
(***************************************************************************)
(* What a pass makes of the attached program.  Anything in doubt is left   *)
(* as it is.                                                               *)
(***************************************************************************)
Restored(program, found) == IF found.is = "owned" THEN {found.original} ELSE {program}

Passed(program, known, rules) ==
  IF rules # <<>> THEN Wrapped(program, known, rules, Nonce)
  ELSE Restored(program, Classify(program, known))

Swapped(program, stack, rules, next) ==
  /\ attached' = IF next = {} THEN program ELSE CHOOSE p \in next : TRUE
  /\ layers' = IF next = {} THEN stack ELSE IF rules = <<>> THEN <<>> ELSE <<rules>>

Pass(program, known, devices, stack) ==
  Swapped(program, stack, RulesOf(devices), Passed(program, known, RulesOf(devices)))

\* The first pass, with what the collection found.
FirstPass(program) ==
  /\ step = "done"
  /\ runtime' = program.slots /\ meta' = program.meta
  /\ Pass(program.slots, program.meta, desired, <<>>)
  /\ step' = "applied"
  /\ dev' = <<>> /\ sys' = <<>> /\ changes' = 0 /\ judge' = NoJudge /\ sources' = {}
  /\ held' = {} /\ votes' = <<>> /\ broken' = FALSE /\ desired' = {}
  /\ UNCHANGED <<place, cand, foreign, passes>>

\* A later pass, with what a later collection found.
LaterPass(devices) ==
  /\ step = "applied" /\ passes < MaxPasses /\ ~ foreign
  /\ passes' = passes + 1
  /\ Pass(attached, meta, devices, layers)
  /\ UNCHANGED <<rvars, meta, runtime, foreign>>

(***************************************************************************)
(* External: a release that wraps whatever it finds, and another tool that *)
(* attaches a program that looks like a wrapper.                           *)
(***************************************************************************)
OtherRelease(rules) ==
  /\ step = "applied" /\ Len(layers) < 2 /\ ~ foreign
  /\ Gate(attached, meta)
  /\ attached' \in EmitOwned(rules, OtherNonce, attached)
  /\ layers' = <<rules>> \o layers
  /\ UNCHANGED <<rvars, meta, runtime, foreign, passes>>

OtherTool(k, change) ==
  /\ step = "applied" /\ Len(layers) = 1 /\ ~ foreign
  /\ attached' = [attached EXCEPT ![k].imm = @ + change.imm, ![k].off = @ + change.off]
  /\ foreign' = TRUE
  /\ UNCHANGED <<rvars, meta, runtime, layers, passes>>

Next ==
  \/ \E scene \in Scenes, global \in Policies, labels \in Labels, list \in MountLists :
       Begin(scene, global, labels, list) /\ UNCHANGED fvars
  \/ Collect /\ UNCHANGED fvars
  \/ Trouble /\ UNCHANGED fvars
  \/ \E program \in Programs : FirstPass(program)
  \/ \E devices \in SUBSET UNION {DOMAIN scene.sys : scene \in Scenes} : LaterPass(devices)
  \/ \E rules \in OtherRules : OtherRelease(rules)
  \/ \E k \in DOMAIN attached, change \in Changes : OtherTool(k, change)

Spec == Init /\ [][Next]_vars

-----------------------------------------------------------------------------
\* What the rules around a program say: the outermost that matches decides.
RECURSIVE Stacked(_, _, _)
Stacked(stack, program, request) ==
  IF stack = <<>> THEN Run(program, request)
  ELSE LET rules == Head(stack)
           matching == {k \in DOMAIN rules : Matches(rules[k], request)}
       IN IF matching = {} THEN Stacked(Tail(stack), program, request)
          ELSE IF rules[Max(matching)].allow THEN 1 ELSE 0

(***************************************************************************)
(* Functional correctness (append_device, layout, emit_owned): whatever    *)
(* passes, releases and revocations led to it, the attached program        *)
(* decides every request as its rules do, the last match first, and leaves *)
(* every other one to the runtime's program.                               *)
(***************************************************************************)
VerdictsAgree ==
  attached # <<>> /\ ~ foreign =>
    \A request \in Requests :
      Run(attached, request) = Stacked(layers, runtime, request)

(***************************************************************************)
(* Safety (check_wrappable, canonical_bytes, parse_owned_innermost): the   *)
(* runtime's program survives every pass slot for slot, below the wrappers *)
(* while there are any and alone once the devices are revoked.             *)
(***************************************************************************)
OriginalKept ==
  attached # <<>> /\ ~ foreign =>
    /\ SubSeq(attached, Len(attached) - Len(runtime) + 1, Len(attached)) = runtime
    /\ layers = <<>> => attached = runtime

(***************************************************************************)
(* Safety (validate_owned): the wrappers of every release are recognised,  *)
(* with the runtime's program below them all; and a program another tool   *)
(* made is taken for a wrapper only if it behaves as the wrapper it claims *)
(* to be.                                                                  *)
(***************************************************************************)
OwnershipSound ==
  attached # <<>> =>
    LET found == Classify(attached, meta)
        outer == ParseOwned(attached)
    IN /\ ~ foreign /\ layers # <<>> => found.is = "owned" /\ found.original = runtime
       /\ ~ foreign /\ layers = <<>> => found.is # "owned"
       /\ foreign /\ outer.is = "owned" =>
            \A request \in Requests :
              Run(attached, request) = Verdict(outer.rules, outer.original, request)
=============================================================================
