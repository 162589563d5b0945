------------------------------ MODULE CgroupV2 ------------------------------
(***************************************************************************)
(* The device filters of one cgroup v2 directory, as CgroupV2::set_rules    *)
(* rewrites them (src/src/cgroup/v2.rs, v2plan.rs, v2ops.rs).               *)
(*                                                                         *)
(* A runtime confines a container with BPF programs attached to its cgroup; *)
(* under BPF_F_ALLOW_MULTI a device is accessible when every attached       *)
(* program allows it.  The daemon grants devices by putting a wrapper in    *)
(* the place of each runtime program: the wrapper allows its rules and      *)
(* otherwise does what the original did.  A wrapper carries a nonce that    *)
(* names its lineage.  A pass queries the attached programs, plans all of   *)
(* its changes, caches the lineages, and executes the plan one kernel call  *)
(* at a time.  Any call may fail, the daemon may die between two calls, and *)
(* systemd may detach every program between two calls.  Passes on a cgroup  *)
(* are serialised by the processor's lock, so one pass runs at a time.      *)
(*                                                                         *)
(* A program is abstracted to what it allows: the identity of the runtime   *)
(* original and the set of devices of the wrapper's rules.  Two programs    *)
(* with the same nonce, original and rules are byte-identical.              *)
(*                                                                         *)
(* A definition whose name begins with Faulty is no part of the             *)
(* specification: it is the definition after it with one fault put in, and  *)
(* shows that a property notices the fault.                                 *)
(***************************************************************************)
EXTENDS Lists, FiniteSetsExt

CONSTANTS
    Devices,        \* the devices a rule can name
    Originals,      \* the distinct runtime programs (by content)
    Allows,         \* Allows[o]: the devices original o allows by itself
    RuntimeFilters, \* the lists of originals a runtime may have attached
    MaxPasses,      \* bound: calls of set_rules
    MaxFailures,    \* bound: kernel calls that fail
    MaxWipes,       \* bound: daemon-reloads that detach every program
    MaxCrashes      \* bound: restarts of the daemon

ASSUME AllowsAssumption == Allows \in [Originals -> SUBSET Devices]
ASSUME RuntimeAssumption ==
    \A f \in RuntimeFilters : f # <<>> /\ f \in Seq(Originals)
ASSUME BoundsAssumption ==
    {MaxPasses, MaxFailures, MaxWipes, MaxCrashes} \subseteq Nat

VARIABLES
    attached,   \* kernel: the attached programs, in attach order
    replaces,   \* kernel: whether BPF_F_REPLACE is supported
    cache,      \* FilterCache entry of this cgroup: lineages, rebuilding
    probe,      \* ReplaceProbe: "unknown", "supported" or "unsupported"
    pc,         \* the pass: "idle", "load", "step", "added" or "rollback"
    rules,      \* the rules of the current or last pass
    steps,      \* the plan's steps
    at,         \* the index of the next step
    rebuilds,   \* whether the pass clears cache.rebuilding when it succeeds
    nonces,     \* how many nonces new_nonce has handed out
    passes, failures, wipes, crashes,
    \* History:
    runtime,    \* the originals the runtime attached
    outcome,    \* how the last pass ended: "none", "ok" or "error"
    before,     \* what was accessible when the pass began (or was wiped)
    disturbed,  \* whether a wipe fell into the last pass or came after it
    leftovers,  \* swaps that ended with both programs attached
    intact      \* FALSE once a program was lost in a way the cache cannot tell

kernel  == <<attached, replaces>>
process == <<cache, probe, nonces>>
pass    == <<rules, steps, rebuilds>>
bounds  == <<passes, failures, wipes, crashes>>
history == <<runtime, before, disturbed, intact>>
vars    == <<kernel, process, pass, bounds, history, pc, at, outcome, leftovers>>

-----------------------------------------------------------------------------
(* Programs.  A bare program has nonce 0 and no rules; ids are the kernel's  *)
(* program objects, which tell apart two attached copies of one program.     *)

Bare(o)       == [original |-> o, nonce |-> 0, rules |-> {}]
Wrapper(o, n, r) == [original |-> o, nonce |-> n, rules |-> r]
Content(p)    == [original |-> p.original, nonce |-> p.nonce, rules |-> p.rules]
Object(p, id) == [original |-> p.original, nonce |-> p.nonce, rules |-> p.rules,
                  id |-> id]

Owned(p) == p.nonce # 0

\* The devices a container can use: those that every attached program allows,
\* all of them when none is attached.
Effective(progs) ==
    {d \in Devices : \A i \in DOMAIN progs :
        d \in progs[i].rules \cup Allows[progs[i].original]}

\* What the runtime's filters and the rules together are meant to allow.
Target(r) ==
    {d \in Devices : \A i \in DOMAIN runtime : d \in r \cup Allows[runtime[i]]}

CountOf(s, o) ==
    Cardinality(Positions(s, LAMBDA p : p.original = o))

\* A program of the runtime has no copy left, bare or wrapped.
Missing == \E i \in DOMAIN runtime : CountOf(attached, runtime[i]) = 0

-----------------------------------------------------------------------------
(* The plan of a pass (v2plan.rs).                                           *)

AttachStep(p)   == [kind |-> "attach", new |-> p]
DetachStep(id)  == [kind |-> "detach", old |-> id]
PairStep(id, p) == [kind |-> "pair", old |-> id, new |-> p]
Lineage(n, o)   == [nonce |-> n, original |-> o]
LineageOf(p)    == Lineage(p.nonce, p.original)

\* group_wrappers: the wrapper lineages in order of first appearance, and the
\* bare programs.
Firsts(progs) ==
    {i \in DOMAIN progs : /\ Owned(progs[i])
                          /\ \A j \in 1 .. i - 1 : LineageOf(progs[j]) # LineageOf(progs[i])}

Groups(progs) == Pick([i \in DOMAIN progs |-> LineageOf(progs[i])], Firsts(progs))

Members(progs, g) == Select(progs, LAMBDA p : LineageOf(p) = g)

Bares(progs) == Select(progs, LAMBDA p : ~Owned(p))

DetachAll(members) == [i \in DOMAIN members |-> DetachStep(members[i].id)]

\* Fault: the first member goes before the desired wrapper comes.
FaultyGrantSteps(members, g, r) ==
    <<DetachStep(members[1].id), AttachStep(Wrapper(g.original, g.nonce, r))>>
        \o DetachAll(Tail(members))

\* plan_grant, one lineage: keep the first member that is already as desired,
\* else put the desired wrapper in the first member's place; detach the rest.
GrantSteps(members, g, r) ==
    LET desired  == Wrapper(g.original, g.nonce, r)
        existing == Positions(members, LAMBDA p : Content(p) = desired)
        keep     == IF existing = {} THEN 1 ELSE Min(existing)
    IN  (IF existing = {} THEN <<PairStep(members[1].id, desired)>> ELSE <<>>)
            \o DetachAll(Pick(members, DOMAIN members \ {keep}))

\* plan_grant: the lineages, then every bare program under a nonce of its own.
PlanGrant(progs, r) ==
    LET groups == Groups(progs)
        bares  == Bares(progs)
        Nonce(i) == nonces + i
    IN  [steps |-> Concat([i \in DOMAIN groups |->
                       GrantSteps(Members(progs, groups[i]), groups[i], r)])
                   \o [i \in DOMAIN bares |->
                       PairStep(bares[i].id, Wrapper(bares[i].original, Nonce(i), r))],
         lineages |-> groups \o [i \in DOMAIN bares |-> Lineage(Nonce(i), bares[i].original)],
         nonces |-> nonces + Len(bares)]

\* How many of the first i elements of a list of programs or lineages have the
\* original of the i-th one.
Rank(s, i) == CountOf(SubSeq(s, 1, i), s[i].original)

\* Fault: the wrapper goes before the original comes back.
FaultyRestoreSteps(progs, groups, i) ==
    DetachAll(Members(progs, groups[i])) \o <<AttachStep(Bare(groups[i].original))>>

\* plan_restore, one lineage: one bare copy of the original satisfies one
\* lineage; without one the original takes the first wrapper's place.
RestoreSteps(progs, groups, i) ==
    LET members == Members(progs, groups[i])
    IN  IF Rank(groups, i) <= CountOf(Bares(progs), groups[i].original)
        THEN DetachAll(members)
        ELSE <<PairStep(members[1].id, Bare(groups[i].original))>>
                 \o DetachAll(Tail(members))

\* plan_restore: a bare program no lineage has used is remembered unwrapped.
PlanRestore(progs) ==
    LET groups == Groups(progs)
        bares  == Bares(progs)
        unused == Select([i \in DOMAIN bares |-> i],
                         LAMBDA i : Rank(bares, i) > CountOf(groups, bares[i].original))
    IN  [steps |-> Concat([i \in DOMAIN groups |-> RestoreSteps(progs, groups, i)]),
         lineages |-> groups \o [i \in DOMAIN unused |-> Lineage(0, bares[unused[i]].original)],
         nonces |-> nonces]

\* Fault: what a cut-short rebuild left out is taken to be gone.
FaultyMissingLineages(cached, progs) == <<>>

\* Fault: a bare copy does not show its lineage.
FaultyWrappedMissingLineages(cached, progs) ==
    Select(cached, LAMBDA l : l \notin Range(Groups(progs)))

\* missing_lineages: a cached lineage is shown by its wrapper, or by a bare copy
\* of its original that no earlier cached lineage has used.
MissingLineages(cached, progs) ==
    LET groups   == Groups(progs)
        unmatched == Select(cached, LAMBDA l : l \notin Range(groups))
        missing  == Select([i \in DOMAIN unmatched |-> i],
                       LAMBDA i : Rank(unmatched, i) > CountOf(Bares(progs), unmatched[i].original))
    IN  [i \in DOMAIN missing |-> unmatched[missing[i]]]

\* add_rebuild: attach each cached lineage again, bare for no rules, else
\* wrapped under its nonce or, when it never had one, under a new nonce.
AddRebuild(plan, cached, r) ==
    LET Fresh(i)  == Cardinality(Positions(SubSeq(cached, 1, i), LAMBDA l : l.nonce = 0))
        Nonce(i)  == IF cached[i].nonce = 0 /\ r # {} THEN plan.nonces + Fresh(i)
                     ELSE cached[i].nonce
        Prog(i)   == IF r = {} THEN Bare(cached[i].original)
                     ELSE Wrapper(cached[i].original, Nonce(i), r)
    IN  [steps    |-> plan.steps \o [i \in DOMAIN cached |-> AttachStep(Prog(i))],
         lineages |-> plan.lineages
                          \o [i \in DOMAIN cached |-> Lineage(Nonce(i), cached[i].original)],
         nonces   |-> IF r = {} THEN plan.nonces ELSE plan.nonces + Fresh(Len(cached))]

EmptyPlan == [steps |-> <<>>, lineages |-> <<>>, nonces |-> nonces]

-----------------------------------------------------------------------------
(* The kernel.                                                               *)

IsAttached(id) == \E i \in DOMAIN attached : attached[i].id = id

\* A program object that neither the cgroup nor the pass holds.
FreshId ==
    LET held == {attached[i].id : i \in DOMAIN attached}
                \cup {steps[i].old : i \in {j \in DOMAIN steps : steps[j].kind # "attach"}}
    IN  Min((1 .. Cardinality(held) + 1) \ held)

Attach(p) == attached' = Append(attached, Object(p, FreshId))

\* BPF_F_REPLACE puts the new program in the old one's position.
Replace(id, p) ==
    attached' = [i \in DOMAIN attached |->
        IF attached[i].id = id THEN Object(p, FreshId) ELSE attached[i]]

Detach(id) == attached' = Select(attached, LAMBDA p : p.id # id)

Fails == failures < MaxFailures /\ failures' = failures + 1

-----------------------------------------------------------------------------
Init ==
    /\ runtime \in RuntimeFilters
    /\ attached = [i \in DOMAIN runtime |-> Object(Bare(runtime[i]), i)]
    /\ replaces \in BOOLEAN
    /\ cache = [lineages |-> <<>>, rebuilding |-> FALSE]
    /\ probe = "unknown"
    /\ pc = "idle" /\ rules = {} /\ steps = <<>> /\ at = 1 /\ rebuilds = FALSE
    /\ nonces = 0
    /\ passes = 0 /\ failures = 0 /\ wipes = 0 /\ crashes = 0
    /\ outcome = "none" /\ before = {} /\ leftovers = 0 /\ intact = TRUE
    /\ disturbed = FALSE

Return(result) ==
    /\ pc' = "idle" /\ outcome' = result
    /\ steps' = <<>> /\ at' = 1 /\ rebuilds' = FALSE
    /\ UNCHANGED rules

\* commit: the lineages are cached before the first kernel call.
Commit(plan, r, rebuilding) ==
    /\ cache' = [lineages |-> plan.lineages, rebuilding |-> rebuilding]
    /\ nonces' = plan.nonces
    /\ steps' = plan.steps /\ at' = 1 /\ rules' = r /\ rebuilds' = rebuilding
    /\ pc' = "load" /\ outcome' = "none"
    /\ before' = Effective(attached) /\ disturbed' = FALSE

StartPass == pc = "idle" /\ passes < MaxPasses /\ passes' = passes + 1

\* set_rules on a cgroup with filters.
SetRules(r) ==
    /\ StartPass
    /\ attached # <<>>
    /\ LET plan == IF r = {} THEN PlanRestore(attached) ELSE PlanGrant(attached, r)
           lost == MissingLineages(cache.lineages, attached)
       IN  Commit(IF cache.rebuilding THEN AddRebuild(plan, lost, r) ELSE plan,
                  r, cache.rebuilding)
    /\ UNCHANGED <<kernel, probe, failures, wipes, crashes, runtime, leftovers, intact>>

\* rebuild: a cgroup without a filter gets the cached ones back.
Rebuild(r) ==
    /\ StartPass
    /\ attached = <<>>
    /\ cache.lineages # <<>>
    /\ Commit(AddRebuild(EmptyPlan, cache.lineages, r), r, TRUE)
    /\ UNCHANGED <<kernel, probe, failures, wipes, crashes, runtime, leftovers, intact>>

\* rebuild without a cached lineage: FilterMissing.
FilterMissing ==
    /\ StartPass
    /\ attached = <<>>
    /\ cache.lineages = <<>>
    /\ Return("error")
    /\ UNCHANGED <<kernel, process, failures, wipes, crashes, history, leftovers>>

\* The query, the classification, the gate or a nonce fails: nothing is changed.
Refused ==
    /\ StartPass
    /\ Fails
    /\ Return("error")
    /\ UNCHANGED <<kernel, process, wipes, crashes, history, leftovers>>

\* execute: every program is loaded before the first step.
Load ==
    /\ pc = "load"
    /\ pc' = "step"
    /\ UNCHANGED <<kernel, process, pass, bounds, history, at, outcome, leftovers>>

LoadFails ==
    /\ pc = "load"
    /\ Fails
    /\ Return("error")
    /\ UNCHANGED <<kernel, process, passes, wipes, crashes, history, leftovers>>

Step(kind) == pc = "step" /\ at <= Len(steps) /\ steps[at].kind = kind

NextStep ==
    /\ pc' = "step" /\ at' = at + 1
    /\ UNCHANGED <<replaces, cache, nonces, pass, bounds, history, outcome, leftovers>>

\* A call that fails without changing the cgroup ends the pass.
StepFails ==
    /\ Return("error")
    /\ UNCHANGED <<kernel, cache, nonces, passes, wipes, crashes, history, leftovers>>

AttachNew ==
    /\ Step("attach")
    /\ Attach(steps[at].new)
    /\ NextStep /\ UNCHANGED probe

DetachOld ==
    /\ Step("detach")
    /\ IsAttached(steps[at].old)
    /\ Detach(steps[at].old)
    /\ NextStep /\ UNCHANGED probe

\* An attach or a detach fails, a detach also because a wipe was there first.
CallFails ==
    /\ \/ Step("attach") /\ Fails
       \/ Step("detach") /\ IsAttached(steps[at].old) /\ Fails
       \/ Step("detach") /\ ~IsAttached(steps[at].old) /\ UNCHANGED failures
    /\ StepFails /\ UNCHANGED probe

-----------------------------------------------------------------------------
(* swap: a pair step.  The first replace that succeeds or fails with EINVAL  *)
(* decides the probe for the life of the process.                            *)

Usable == probe # "unsupported"

SwapReplace ==
    /\ Step("pair")
    /\ Usable /\ replaces /\ IsAttached(steps[at].old)
    /\ Replace(steps[at].old, steps[at].new)
    /\ probe' = "supported"
    /\ NextStep

\* The replace fails while it stays usable: the step fails.
SwapReplaceFails ==
    /\ Step("pair")
    /\ Usable /\ replaces
    /\ IF IsAttached(steps[at].old) THEN Fails ELSE UNCHANGED failures
    /\ StepFails /\ UNCHANGED probe

\* EINVAL before any success, from an old kernel or a stray one: the same call
\* goes on to attach and detach.
SwapUnsupported ==
    /\ Step("pair")
    /\ probe = "unknown"
    /\ IF replaces THEN Fails ELSE UNCHANGED failures
    /\ probe' = "unsupported"
    /\ UNCHANGED <<kernel, cache, nonces, pass, passes, wipes, crashes, history,
                   pc, at, outcome, leftovers>>

SwapAdd ==
    /\ Step("pair")
    /\ ~Usable
    /\ Attach(steps[at].new)
    /\ pc' = "added"
    /\ UNCHANGED <<replaces, process, pass, bounds, history, at, outcome, leftovers>>

SwapAddFails ==
    /\ Step("pair")
    /\ ~Usable
    /\ Fails
    /\ StepFails /\ UNCHANGED probe

SwapDetach ==
    /\ pc = "added"
    /\ IsAttached(steps[at].old)
    /\ Detach(steps[at].old)
    /\ NextStep /\ UNCHANGED probe

SwapDetachFails ==
    /\ pc = "added"
    /\ IF IsAttached(steps[at].old) THEN Fails ELSE UNCHANGED failures
    /\ pc' = "rollback"
    /\ UNCHANGED <<kernel, process, pass, passes, wipes, crashes, history, at, outcome,
                   leftovers>>

\* The program that was added is the last one, unless a wipe removed it.
SwapRollback ==
    /\ pc = "rollback"
    /\ attached # <<>>
    /\ Detach(attached[Len(attached)].id)
    /\ Return("error")
    /\ UNCHANGED <<replaces, process, bounds, history, leftovers>>

SwapRollbackFails ==
    /\ pc = "rollback"
    /\ IF attached # <<>>
       THEN Fails /\ leftovers' = leftovers + 1 /\ intact' = (intact /\ ~Missing)
       ELSE UNCHANGED <<failures, leftovers, intact>>
    /\ Return("error")
    /\ UNCHANGED <<kernel, process, passes, wipes, crashes, runtime, before, disturbed>>

\* The last step is done: a rebuild is complete.
Done ==
    /\ pc = "step"
    /\ at > Len(steps)
    /\ cache' = IF rebuilds THEN [cache EXCEPT !.rebuilding = FALSE] ELSE cache
    /\ Return("ok")
    /\ UNCHANGED <<kernel, probe, nonces, bounds, history, leftovers>>

-----------------------------------------------------------------------------
(* The world: systemd's daemon-reload, and a restart of the daemon.          *)

\* The next kernel call of the pass attaches a lineage again.  It succeeds even
\* if a wipe has just detached the others, and so does the pass.
AboutToAttach ==
    pc \in {"load", "step"} /\ at <= Len(steps) /\ steps[at].kind = "attach"

Wipe ==
    /\ wipes < MaxWipes
    /\ wipes' = wipes + 1
    /\ attached # <<>>
    /\ attached' = <<>>
    /\ before' = Devices /\ disturbed' = TRUE
    /\ intact' = (intact /\ ~AboutToAttach)
    /\ UNCHANGED <<replaces, process, pass, passes, failures, crashes, runtime, pc, at,
                   outcome, leftovers>>

Crash ==
    /\ crashes < MaxCrashes
    /\ crashes' = crashes + 1
    /\ cache' = [lineages |-> <<>>, rebuilding |-> FALSE]
    /\ probe' = "unknown"
    /\ Return("none")
    /\ leftovers' = IF pc \in {"added", "rollback"} THEN leftovers + 1 ELSE leftovers
    /\ intact' = (intact /\ ~(attached # <<>> /\ Missing))
    /\ UNCHANGED <<kernel, nonces, passes, failures, wipes, runtime, before, disturbed>>

Swap == \/ SwapReplace \/ SwapReplaceFails \/ SwapUnsupported
        \/ SwapAdd \/ SwapAddFails \/ SwapDetach \/ SwapDetachFails
        \/ SwapRollback \/ SwapRollbackFails

Next ==
    \/ \E r \in SUBSET Devices : SetRules(r) \/ Rebuild(r)
    \/ FilterMissing \/ Refused \/ Load \/ LoadFails
    \/ AttachNew \/ DetachOld \/ CallFails \/ Swap \/ Done
    \/ Wipe \/ Crash

Spec == Init /\ [][Next]_vars

-----------------------------------------------------------------------------
(* Properties.                                                               *)

\* Programs by content, attached programs, cached lineages and steps.
Program == [original : Originals, nonce : Nat, rules : SUBSET Devices]
Attached == [original : Originals, nonce : Nat, rules : SUBSET Devices, id : Nat]
CachedLineage == [nonce : Nat, original : Originals]
PlanStep == [kind : {"attach"}, new : Program]
            \cup [kind : {"detach"}, old : Nat]
            \cup [kind : {"pair"}, old : Nat, new : Program]

TypeOK ==
    /\ attached \in Seq(Attached) /\ replaces \in BOOLEAN
    /\ cache \in [lineages : Seq(CachedLineage), rebuilding : BOOLEAN]
    /\ probe \in {"unknown", "supported", "unsupported"}
    /\ pc \in {"idle", "load", "step", "added", "rollback"}
    /\ rules \in SUBSET Devices
    /\ steps \in Seq(PlanStep) /\ at \in 1 .. Len(steps) + 1
    /\ rebuilds \in BOOLEAN /\ nonces \in Nat
    /\ passes \in Nat /\ failures \in Nat /\ wipes \in Nat /\ crashes \in Nat
    /\ runtime \in RuntimeFilters
    /\ outcome \in {"none", "ok", "error"}
    /\ before \in SUBSET Devices /\ disturbed \in BOOLEAN
    /\ leftovers \in Nat /\ intact \in BOOLEAN

\* As long as systemd wipes nothing, every program of the runtime stays in
\* force, bare or inside a wrapper, in every state: between two kernel calls,
\* after any failed call or rollback, after a crash at any point.  (swap and
\* execute attach before they detach.)
FiltersKept == wipes = 0 => ~Missing

\* In no state of a pass is a device accessible that was neither accessible
\* before the pass nor is meant to be after it: no order of the steps, no failed
\* call and no rollback widens the container's access in between.
NeverWider ==
    pc # "idle" => Effective(attached) \subseteq before \cup Target(rules)

\* The last pass succeeded, and no filter was lost where the cache cannot tell.
Succeeded == pc = "idle" /\ outcome = "ok" /\ ~disturbed /\ intact

\* A pass that succeeds leaves exactly the access that the runtime's filters and
\* the rules give: one wrapper per lineage with these rules, or for no rules the
\* bare originals.  That holds whatever failed, was wiped or crashed before, and
\* for the rebuild of wiped filters, unless a filter was lost where the cache
\* cannot tell (see intact).
Converged ==
    Succeeded =>
        /\ Effective(attached) = Target(rules)
        /\ \A i \in DOMAIN attached :
             /\ attached[i].rules = rules
             /\ Owned(attached[i]) <=> rules # {}
             /\ \A j \in DOMAIN attached :
                  (Owned(attached[i]) /\ attached[i].nonce = attached[j].nonce) => i = j

\* Nor does it leave more programs than the runtime's own plus one for each swap
\* that was cut short with both programs attached: a rebuild attaches nothing
\* that is there already, under another nonce or bare (missing_lineages).
NoExcess == Succeeded => Len(attached) <= Len(runtime) + leftovers

\* What the comment on CacheEntry says of a wiped lineage: it is reattached "by
\* the next pass instead of being dropped from the entry".  Once the daemon has
\* seen the runtime's programs, the entry keeps every one of them.
LineagesKept ==
    cache.lineages # <<>> =>
        \A i \in DOMAIN runtime : CountOf(cache.lineages, runtime[i]) > 0

=============================================================================
