---------------------------- MODULE DeviceRules -----------------------------
(***************************************************************************)
(* The devices a container is granted (processor/rules.rs over             *)
(* processor/devfs.rs, called by compute_desired in reconcile.rs): every   *)
(* name under the container's /dev mounts is listed, opened, identified    *)
(* and judged, one system call after the other, while udev changes /dev    *)
(* and sysfs.                                                              *)
(*                                                                         *)
(* A name is the sequence of its components below /dev, <<>> is /dev       *)
(* itself.  A tree gives the node at each name: a directory, a file, a     *)
(* device with its number, a relative link (to is the name it leads to),   *)
(* an absolute link into /dev, one that leaves /dev, or none.              *)
(***************************************************************************)
EXTENDS Naturals, Sequences, SequencesExt, FiniteSetsExt, Policy

CONSTANTS
  Order,        \* every name below /dev, in the order a listing has them
  Scenes,       \* what /dev and sysfs start as
  Puts,         \* what udev may do: put a node at a name,
  Renames,      \* give a device number another DEVNAME
  Policies,     \* the daemon's policies
  Labels,       \* the containers' labels
  MountLists,   \* the sources of a container's device mounts
  MaxEntries,   \* MAX_MOUNT_ENTRIES
  MaxLinkHops,  \* MAX_LINK_HOPS, and the kernel's own limit
  MaxChanges    \* bound: udev's changes during one collection

VARIABLES
  dev,       \* the tree
  sys,       \* DEVNAME by device number, NoName when sysfs has none
  changes,   \* udev's changes so far
  step,      \* what the collection does next
  judge,     \* the policies it judges by
  sources,   \* history: the mounts it was asked about
  mounts,    \* the mounts still to visit
  source,    \* the mount being visited
  base,      \* the directory it resolved to, when it is one
  todo,      \* the walk's entries still to visit, below source
  entries,   \* how many it has counted
  cand,      \* the name being evaluated
  votes,     \* the decisions on each device found
  broken,    \* some name's identity is unknown
  desired,   \* the devices of the finished collection
  held       \* history: the names that led to one device all along

rvars == <<dev, sys, changes, step, judge, sources, mounts, source, base, todo,
           entries, cand, votes, broken, desired, held>>

NoName == <<"?">>

Node(is, id, to) == [is |-> is, id |-> id, to |-> to]
NoNode == Node("none", 0, <<>>)
Dir == Node("dir", 0, <<>>)

At(tree, name) ==
  IF name = <<>> THEN Dir ELSE IF name \in DOMAIN tree THEN tree[name] ELSE NoNode

(***************************************************************************)
(* External: the kernel's lookup, one atomic step.  beneath is openat2     *)
(* with RESOLVE_BENEATH; without it an absolute link is followed too.      *)
(***************************************************************************)
RECURSIVE Lookup(_, _, _, _, _)
Lookup(tree, beneath, done, rest, links) ==
  IF rest = <<>> THEN [errno |-> "ok", at |-> done]
  ELSE LET next == Append(done, Head(rest))
           node == At(tree, next)
           follows == node.is = "link" \/ (node.is = "absolute" /\ ~ beneath)
           fail(errno) == [errno |-> errno, at |-> next]
       IN IF follows
            THEN IF links = 0 THEN fail("ELOOP")
                 ELSE Lookup(tree, beneath, <<>>, node.to \o Tail(rest), links - 1)
          ELSE IF node.is = "none" THEN fail("ENOENT")
          ELSE IF node.is \in {"absolute", "outside"} THEN fail("EXDEV")
          ELSE IF Tail(rest) # <<>> /\ node.is # "dir" THEN fail("ENOTDIR")
          ELSE Lookup(tree, beneath, next, Tail(rest), links)

Open(tree, rel) == Lookup(tree, TRUE, <<>>, rel, MaxLinkHops)

\* The name of an opened node; the kernel marks one unlinked since.
Resolved(tree, at, node) == IF At(tree, at) = node THEN at ELSE Append(at, "(deleted)")

(***************************************************************************)
(* A lookup that left /dev: the length of the first prefix that does not   *)
(* open, 0 when every one does by now.                                     *)
(***************************************************************************)
Closed(tree, rel) ==
  {k \in DOMAIN rel : Open(tree, SubSeq(rel, 1, k)).errno # "ok"}

EscapePrefix(tree, rel) ==
  IF Closed(tree, rel) = {} THEN 0 ELSE Min(Closed(tree, rel))

\* read_link: the last component is not followed, the others are.
LinkAt(tree, rel) ==
  LET parent == Open(tree, Front(rel))
  IN IF parent.errno = "ok" THEN At(tree, Append(parent.at, Last(rel))) ELSE NoNode

\* An absolute target inside /dev takes the prefix's place.
Replaced(link, rel, k) == link.to \o SubSeq(rel, k + 1, Len(rel))

(***************************************************************************)
(* Policy on one candidate: a deny on any of its names, the allow lists on *)
(* the canonical and the resolved one.                                     *)
(***************************************************************************)
\* Mutant: the allow lists must pass for the alias too.
FaultyEvaluateIdentity(global, container, alias, resolved, canonical) ==
  LET names == {alias, resolved, canonical}
      denied == \E name \in names : Denied(global, container, name)
  IN [denied |-> denied,
      authorized |-> ~ denied /\ \A name \in names : Authorized(global, container, name)]

EvaluateIdentity(global, container, alias, resolved, canonical) ==
  LET denied == \E name \in {alias, resolved, canonical} :
                  Denied(global, container, name)
  IN [denied |-> denied,
      authorized |-> /\ ~ denied
                     /\ Authorized(global, container, canonical)
                     /\ Authorized(global, container, resolved)]

Granted(decision) == decision.authorized /\ ~ decision.denied

\* Mutant: the last candidate's deny vote replaces the earlier ones.
FaultyAddVote(cast, id, decision) ==
  [cast EXCEPT ![id] = [denied |-> decision.denied,
                        authorized |-> @.authorized \/ decision.authorized]]

\* Aggregation: one name's deny holds against every name of the device.
AddVote(cast, id, decision) ==
  [cast EXCEPT ![id] = [denied |-> @.denied \/ decision.denied,
                        authorized |-> @.authorized \/ decision.authorized]]

(***************************************************************************)
(* What one tree says: the device a name leads to, and the names under a   *)
(* mount.                                                                  *)
(***************************************************************************)
RECURSIVE Trail(_, _, _)
Trail(tree, rel, hops) ==
  LET k == EscapePrefix(tree, rel)
      link == LinkAt(tree, SubSeq(rel, 1, k))
  IN IF Open(tree, rel).errno = "EXDEV" /\ hops > 1 /\ link.is = "absolute"
       THEN <<rel>> \o Trail(tree, Replaced(link, rel, k), hops - 1)
       ELSE <<rel>>

\* The names a lookup by hand passes through, and where it ends.
TrailOf(tree, name) == Trail(tree, name, MaxLinkHops)
Reach(tree, name) == Open(tree, Last(TrailOf(tree, name)))

NamesBelow(tree, mount) ==
  LET top == Reach(tree, mount)
      below == {name \in ToSet(Order) : /\ IsStrictPrefix(top.at, name)
                                        /\ At(tree, name).is \notin {"none", "dir"}}
  IN IF top.errno = "ok" /\ At(tree, top.at) = Dir
       THEN {mount \o SubSeq(name, Len(top.at) + 1, Len(name)) : name \in below}
       ELSE {mount}

Names(tree, asked) == UNION {NamesBelow(tree, mount) : mount \in asked}

\* The names that lead to each device, and its canonical name.
Leads(tree, named, asked) ==
  {lead \in {[name |-> name, id |-> id, trail |-> TrailOf(tree, name)] :
               name \in Names(tree, asked), id \in DOMAIN named} :
     LET found == Reach(tree, lead.name)
     IN found.errno = "ok" /\ At(tree, found.at) = Node("device", lead.id, <<>>)}

Canonical(named) ==
  {[name |-> named[id], id |-> id, trail |-> <<>>] : id \in DOMAIN named}

NamesOf(tree, named, asked) == Leads(tree, named, asked) \cup Canonical(named)

-----------------------------------------------------------------------------
(***************************************************************************)
(* collect_container_rules, one system call a step.                        *)
(***************************************************************************)
NoCand == [alias |-> <<>>, rel |-> <<>>, hops |-> 0, top |-> TRUE,
           prefix |-> 0, at |-> <<>>, node |-> NoNode, name |-> <<>>]

Candidate(alias, top) == [NoCand EXCEPT !.alias = alias, !.rel = alias, !.top = top]

NoVotes(ids) == [id \in ids |-> [denied |-> FALSE, authorized |-> FALSE]]

NoJudge == [global |-> [mode |-> "opt-in", allow |-> {}, deny |-> {}],
            container |-> [enable |-> "absent", allow |-> {}, deny |-> {}]]

IsDeviceMount(mount) == mount.kind = "bind" /\ mount.dev

Sources(list) ==
  LET device == SelectSeq(list, IsDeviceMount)
  IN [i \in DOMAIN device |-> device[i].source]

settled == <<dev, sys, judge, sources, held, desired>>
world == <<settled, changes>>
place == <<mounts, source, base, todo, entries>>

\* The candidate is dealt with; the rest of its mount comes next.
Proceed ==
  /\ step' = IF cand.top THEN "mounts" ELSE "walk"
  /\ cand' = NoCand
  /\ UNCHANGED place

Skip == Proceed /\ UNCHANGED <<votes, broken>>
Unresolved == Proceed /\ broken' = TRUE /\ UNCHANGED votes
Vote(decision) ==
  /\ Proceed
  /\ votes' = AddVote(votes, cand.node.id, decision)
  /\ UNCHANGED broken

Goto(next, new) ==
  /\ step' = next
  /\ cand' = new
  /\ UNCHANGED <<place, votes, broken>>

\* A fault of the machine, from the same budget as udev's changes.
Fault == changes < MaxChanges /\ changes' = changes + 1

(***************************************************************************)
(* compute_desired: labels that do not parse, a container that is not      *)
(* enabled and one without /dev mounts get the empty set.                  *)
(***************************************************************************)
Begin(scene, global, labels, list) ==
  /\ step = "idle"
  /\ dev' = scene.dev /\ sys' = scene.sys
  /\ votes' = NoVotes(DOMAIN scene.sys)
  /\ IF \E c \in Container(labels) : Enabled(global, c) /\ Sources(list) # <<>>
       THEN /\ step' = "devfs"
            /\ judge' = [global |-> global, container |-> CHOOSE c \in Container(labels) : TRUE]
            /\ mounts' = Sources(list)
            /\ sources' = ToSet(Sources(list))
            /\ held' = NamesOf(scene.dev, scene.sys, sources')
       ELSE step' = "done" /\ UNCHANGED <<judge, mounts, sources, held>>
  /\ UNCHANGED <<changes, source, base, todo, entries, cand, broken, desired>>

\* /dev is opened once, for the whole collection.
OpenDev ==
  /\ step = "devfs"
  /\ step' = "mounts"
  /\ UNCHANGED <<world, place, cand, votes, broken>>

OpenDevFails ==
  /\ step = "devfs"
  /\ Fault
  /\ step' = "mounts" /\ mounts' = <<>> /\ broken' = TRUE
  /\ UNCHANGED <<settled, source, base, todo, entries, cand, votes>>

NextMount ==
  /\ step = "mounts" /\ mounts # <<>>
  /\ step' = "open"
  /\ source' = Head(mounts) /\ mounts' = Tail(mounts)
  /\ base' = <<>> /\ todo' = <<>> /\ entries' = 0
  /\ cand' = Candidate(source', TRUE)
  /\ UNCHANGED <<world, votes, broken>>

\* One identity unknown: no device is granted.
Finish ==
  /\ step = "mounts" /\ mounts = <<>>
  /\ step' = "done"
  /\ desired' = {id \in DOMAIN votes : ~ broken /\ Granted(votes[id])}
  /\ source' = <<>> /\ base' = <<>> /\ entries' = 0
  /\ UNCHANGED <<dev, sys, changes, judge, sources, held, mounts, todo, cand,
                 votes, broken>>

\* open_candidate.  Docker mounted the source, so it existed.
OpenBeneath ==
  LET found == Open(dev, cand.rel) IN
  /\ step = "open"
  /\ IF cand.hops = MaxLinkHops THEN Unresolved
     ELSE CASE found.errno = "ok" ->
                 Goto("resolve", [cand EXCEPT !.at = found.at, !.node = At(dev, found.at)])
            [] found.errno = "EXDEV" -> Goto("escape", cand)
            [] found.errno = "ENOENT" -> IF cand.top THEN Unresolved ELSE Skip
            [] OTHER -> Unresolved
  /\ UNCHANGED world

\* escape_hop
Retry(rel) == Goto("open", [cand EXCEPT !.rel = rel, !.hops = @ + 1, !.prefix = 0])

Escape ==
  LET k == EscapePrefix(dev, cand.rel) IN
  /\ step = "escape"
  /\ IF k = 0 THEN Retry(cand.rel)
     ELSE IF Open(dev, SubSeq(cand.rel, 1, k)).errno # "EXDEV" THEN Unresolved
     ELSE Goto("readlink", [cand EXCEPT !.prefix = k])
  /\ UNCHANGED world

ReadLink ==
  LET link == LinkAt(dev, SubSeq(cand.rel, 1, cand.prefix)) IN
  /\ step = "readlink"
  /\ CASE link.is = "absolute" -> Retry(Replaced(link, cand.rel, cand.prefix))
       [] link.is \in {"link", "outside"} -> Skip
       [] OTHER -> Unresolved
  /\ UNCHANGED world

\* What the descriptor is and what it is called by now.
Resolve ==
  LET name == Resolved(dev, cand.at, cand.node) IN
  /\ step = "resolve"
  /\ CASE cand.node.is = "device" -> Goto("identify", [cand EXCEPT !.name = name])
       [] cand.node.is = "dir" /\ cand.top ->
            /\ step' = "base" /\ base' = name /\ cand' = NoCand
            /\ UNCHANGED <<mounts, source, todo, entries, votes, broken>>
       [] cand.node.is = "file" /\ cand.top -> Unresolved
       [] OTHER -> Skip
  /\ UNCHANGED world

\* Without a canonical name a device its other names grant is unknown.
Unnamed ==
  LET decision == EvaluateIdentity(judge.global, judge.container,
                                   cand.alias, cand.name, cand.name)
  IN IF Granted(decision) THEN Unresolved ELSE Vote([decision EXCEPT !.authorized = FALSE])

Identify ==
  LET canonical == sys[cand.node.id] IN
  /\ step = "identify"
  /\ IF canonical = NoName THEN Unnamed
     ELSE Vote(EvaluateIdentity(judge.global, judge.container,
                                cand.alias, cand.name, canonical))
  /\ UNCHANGED world

(***************************************************************************)
(* walk_mount over walk_dir: a directory, then what it lists, by path.     *)
(***************************************************************************)
Children(path, at) ==
  LET below == SelectSeq(Order, LAMBDA name : /\ name # <<>> /\ Front(name) = at
                                              /\ At(dev, name) # NoNode)
  IN [i \in DOMAIN below |-> [path |-> Append(path, Last(below[i])),
                              dir |-> At(dev, below[i]) = Dir]]

\* read_dir follows links: the listing of whatever path leads to now.
Listed(path) == Lookup(dev, FALSE, <<>>, path, MaxLinkHops)
Lists(path) == Listed(path).errno = "ok" /\ At(dev, Listed(path).at) = Dir

ListInto(path, rest) ==
  /\ todo' = (IF Lists(path) THEN Children(path, Listed(path).at) ELSE <<>>) \o rest
  /\ broken' = (broken \/ ~ Lists(path))

\* A base that is no directory any more lists nothing and is no error.
WalkBase ==
  LET parent == Listed(IF base = <<>> THEN <<>> ELSE Front(base))
      node == IF base = <<>> THEN Dir
              ELSE IF parent.errno = "ok" THEN At(dev, Append(parent.at, Last(base)))
              ELSE NoNode
  IN /\ step = "base"
     /\ CASE node = Dir -> ListInto(base, <<>>)
          [] node = NoNode -> broken' = TRUE /\ UNCHANGED todo
          [] OTHER -> UNCHANGED <<broken, todo>>
     /\ step' = "walk"
     /\ UNCHANGED <<world, mounts, source, base, entries, cand, votes>>

Alias(path) == source \o SubSeq(path, Len(base) + 1, Len(path))

\* A walk that cannot see every name is an error, not a cutoff.
VisitEntry ==
  LET entry == Head(todo)
      full == entries = MaxEntries
  IN /\ step = "walk" /\ todo # <<>>
     /\ entries' = IF full THEN entries ELSE entries + 1
     /\ CASE full -> todo' = <<>> /\ broken' = TRUE /\ UNCHANGED <<step, cand>>
          [] ~ full /\ entry.dir -> ListInto(entry.path, Tail(todo)) /\ UNCHANGED <<step, cand>>
          [] OTHER -> /\ step' = "open"
                      /\ cand' = Candidate(Alias(entry.path), FALSE)
                      /\ todo' = Tail(todo)
                      /\ UNCHANGED broken
     /\ UNCHANGED <<world, mounts, source, base, votes>>

WalkEnds ==
  /\ step = "walk" /\ todo = <<>>
  /\ step' = "mounts"
  /\ UNCHANGED <<world, place, cand, votes, broken>>

-----------------------------------------------------------------------------
(***************************************************************************)
(* Faults, and udev at work.                                               *)
(***************************************************************************)
OpenFails == step \in {"open", "escape", "readlink", "resolve"} /\ Fault /\ Unresolved
             /\ UNCHANGED settled

UeventFails == step = "identify" /\ Fault /\ Unnamed /\ UNCHANGED settled

ReadDirFails ==
  /\ step = "walk" /\ todo # <<>> /\ Head(todo).dir
  /\ Fault
  /\ todo' = Tail(todo) /\ entries' = entries + 1 /\ broken' = TRUE
  /\ UNCHANGED <<settled, step, mounts, source, base, cand, votes>>

Changed ==
  /\ held' = held \cap NamesOf(dev', sys', sources)
  /\ UNCHANGED <<step, judge, sources, place, cand, votes, broken, desired>>

UdevPuts(name, node) ==
  /\ step \notin {"idle", "done", "applied"}
  /\ Fault
  /\ dev' = [dev EXCEPT ![name] = node] /\ UNCHANGED sys
  /\ Changed

UdevNames(id, name) ==
  /\ step \notin {"idle", "done", "applied"}
  /\ Fault
  /\ sys' = [sys EXCEPT ![id] = name] /\ UNCHANGED dev
  /\ Changed

Collect ==
  \/ OpenDev \/ NextMount \/ Finish
  \/ OpenBeneath \/ Escape \/ ReadLink \/ Resolve \/ Identify
  \/ WalkBase \/ VisitEntry \/ WalkEnds

Trouble ==
  \/ OpenDevFails \/ OpenFails \/ UeventFails \/ ReadDirFails
  \/ \E put \in Puts : UdevPuts(put.name, put.node)
  \/ \E new \in Renames : UdevNames(new.id, new.name)

RulesInit ==
  /\ dev = <<>> /\ sys = <<>> /\ changes = 0
  /\ step = "idle"
  /\ judge = NoJudge /\ sources = {} /\ held = {}
  /\ mounts = <<>> /\ source = <<>> /\ base = <<>> /\ todo = <<>> /\ entries = 0
  /\ cand = NoCand /\ votes = <<>> /\ broken = FALSE /\ desired = {}

-----------------------------------------------------------------------------
(***************************************************************************)
(* Safety (evaluate_identity, Aggregation::emit): udev may change /dev and *)
(* sysfs in the middle of a collection, but no device is granted of which  *)
(* a name that led to it all along, by the same links, is denied, and none *)
(* whose canonical name, if it kept one, the allow lists do not pass.      *)
(***************************************************************************)
DenialHolds ==
  \A id \in desired :
    /\ \A known \in held :
         known.id = id => ~ Denied(judge.global, judge.container, known.name)
    /\ Canonical(id :> sys[id]) \subseteq held =>
         Authorized(judge.global, judge.container, sys[id])

(***************************************************************************)
(* Functional correctness (collect_container_rules, compute_desired): a    *)
(* collection nothing disturbs grants exactly the devices some name        *)
(* reaches, the policy authorizes and no name denies; and it grants none   *)
(* for want of an identity only when a name is unresolvable, a source is   *)
(* no device, a canonical name is missing or the mount is too large.       *)
(***************************************************************************)
QuietExact ==
  step = "done" /\ changes = 0 /\ sources # {} =>
    LET names == Names(dev, sources)
        leads == Leads(dev, sys, sources)
        at(lead) == Reach(dev, lead.name).at
        passes(name) == Authorized(judge.global, judge.container, name)
        fails(name) == Denied(judge.global, judge.container, name)
        allowed(id) == /\ sys[id] # NoName /\ passes(sys[id])
                       /\ \E lead \in leads : lead.id = id /\ passes(at(lead))
        denied(id) == \/ fails(sys[id])
                      \/ \E lead \in leads : /\ lead.id = id
                                             /\ fails(lead.name) \/ fails(at(lead))
        cause == \/ \E name \in names : Reach(dev, name).errno # "ok"
                 \/ \E mount \in sources : At(dev, Reach(dev, mount).at).is = "file"
                 \/ \E id \in DOMAIN sys : sys[id] = NoName
                 \/ Cardinality(ToSet(Order)) > MaxEntries
    IN IF broken THEN desired = {} /\ cause
       ELSE desired = {id \in DOMAIN sys : allowed(id) /\ ~ denied(id)}
=============================================================================
