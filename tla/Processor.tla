----------------------------- MODULE Processor -----------------------------
(***************************************************************************)
(* The processor's transactions for one container                          *)
(* (src/src/processor/reconcile.rs) and the history of its runs            *)
(* (src/src/processor/lifecycle.rs), against a container that starts,      *)
(* moves between cgroups, exits and is removed at any moment.              *)
(*                                                                         *)
(* A run is named by its start time.  A cgroup is a path and an inode; a   *)
(* directory that is removed and created again has another inode.  The     *)
(* cgroup API is external here: setting a rule set on an open directory    *)
(* succeeds, finds no filter, or fails having done part of the change.     *)
(* CgroupV2 models it.                                                     *)
(*                                                                         *)
(* A definition whose name begins with Faulty is no part of the            *)
(* specification: it is the definition after it with one fault put in, and *)
(* shows that a property notices the fault.                                *)
(***************************************************************************)
EXTENDS Naturals, FiniteSets

CONSTANTS
    Devices,        \* devices the policy may allow
    MaxTime,        \* bound: starts and exits of the container
    MaxInodes,      \* bound: cgroup directories created for it
    MaxRecords,     \* MAX_RECORDS_PER_CONTAINER
    MaxFailures,    \* bound: failing calls
    MaxPublishes    \* bound: published configs

ASSUME ConstantsAssumption ==
    /\ MaxTime \in Nat /\ MaxInodes \in Nat /\ MaxRecords \in Nat
    /\ MaxFailures \in Nat /\ MaxPublishes \in Nat

VARIABLES
    \* The container and the kernel.
    now, run, place, dir, nextInode, inodeRun, removed, grants,
    \* The config in force and its dry-run mode.
    allowed, dryRun,
    \* The lifecycle history, the cgroup API's memory, and the processor lock.
    records, nextSeen, remembered, lock,
    \* The transaction of the container's hold, and the sweep.
    tx, sweepQueue,
    \* End events not yet handed to terminate(), and the bounds' counters.
    dies, failures, publishes

world == <<now, run, place, dir, nextInode, inodeRun, removed>>
memory == <<records, nextSeen, remembered>>
vars == <<world, grants, allowed, dryRun, memory, lock, tx, sweepQueue, dies, failures,
          publishes>>

----------------------------------------------------------------------------

NotRunning == 0
Unknown == 0
Paths == {"scope", "child"}
Inodes == 1 .. MaxInodes

\* The cgroup of the process that got the container's old pid: not this
\* container's, so no rule may ever be set there.
ForeignInode == MaxInodes + 1
Foreign == [path |-> "foreign", inode |-> ForeignInode]

Identity == [path : Paths, inode : Inodes]
NoIdentity == [path |-> "none", inode |-> 0]

LifecycleRecord ==
    [startedAt : 0 .. MaxTime, cgroup : Identity \cup {NoIdentity},
     state : {"provisional", "verified", "terminal"}, firstSeen : Nat,
     revoked : BOOLEAN]

HasIdentity(record) == record.cgroup # NoIdentity

Transaction ==
    [pc : {"idle", "inspected", "stopped", "failed", "computed", "pinned", "moved",
           "again", "ready", "revoking"},
     startedAt : 0 .. MaxTime, rules : SUBSET Devices,
     handle : Identity \cup {NoIdentity, Foreign}, queue : SUBSET LifecycleRecord]

NoTx == [pc |-> "idle", startedAt |-> 0, rules |-> {}, handle |-> NoIdentity,
         queue |-> {}]

Live(identity) == identity.path \in Paths /\ dir[identity.path] = identity.inode

Init ==
    /\ now = 0 /\ run = NotRunning /\ place = "scope"
    /\ dir = [p \in Paths |-> 0] /\ nextInode = 1 /\ removed = FALSE
    /\ inodeRun = [i \in Inodes |-> 0]
    /\ grants = [i \in Inodes \cup {ForeignInode} |-> {}]
    /\ allowed \in {{}, Devices} /\ dryRun \in BOOLEAN
    /\ records = {} /\ nextSeen = 1 /\ remembered = {} /\ lock = "free"
    /\ tx = NoTx /\ sweepQueue = {}
    /\ dies = {} /\ failures = 0 /\ publishes = 0

----------------------------------------------------------------------------
(* The container: Docker, the runtime and the kernel (external). *)

\* A run starts in a new directory at the container's path.
Start ==
    /\ ~removed /\ run = NotRunning
    /\ \A p \in Paths : dir[p] = 0
    /\ now < MaxTime /\ nextInode <= MaxInodes
    /\ now' = now + 1 /\ run' = now + 1 /\ place' = "scope"
    /\ dir' = [dir EXCEPT !["scope"] = nextInode]
    /\ inodeRun' = [inodeRun EXCEPT ![nextInode] = now + 1]
    /\ nextInode' = nextInode + 1
    /\ UNCHANGED <<removed, grants, allowed, dryRun, memory, lock, tx, sweepQueue, dies,
                   failures, publishes>>

\* A container running systemd moves its processes into a child cgroup, and may
\* move them back.
Move ==
    /\ run # NotRunning
    /\ \/ /\ place = "scope" /\ dir["child"] = 0 /\ nextInode <= MaxInodes
          /\ dir' = [dir EXCEPT !["child"] = nextInode]
          /\ inodeRun' = [inodeRun EXCEPT ![nextInode] = run]
          /\ nextInode' = nextInode + 1
          /\ place' = "child"
       \/ /\ place = "scope" /\ dir["child"] # 0
          /\ place' = "child" /\ UNCHANGED <<dir, inodeRun, nextInode>>
       \/ /\ place = "child"
          /\ place' = "scope" /\ UNCHANGED <<dir, inodeRun, nextInode>>
    /\ UNCHANGED <<now, run, removed, grants, allowed, dryRun, memory, lock, tx,
                   sweepQueue, dies, failures, publishes>>

\* The run ends; Docker emits die with the time of the exit.
Exit ==
    /\ run # NotRunning /\ now < MaxTime
    /\ now' = now + 1 /\ run' = NotRunning
    /\ dies' = dies \cup {now + 1}
    /\ UNCHANGED <<place, dir, nextInode, inodeRun, removed, grants, allowed, dryRun,
                   memory, lock, tx, sweepQueue, failures, publishes>>

\* The ended run's directory is removed, and with it what was attached to it.
RemoveDir(p) ==
    /\ dir[p] # 0 /\ run = NotRunning
    /\ grants' = [grants EXCEPT ![dir[p]] = {}]
    /\ dir' = [dir EXCEPT ![p] = 0]
    /\ UNCHANGED <<now, run, place, nextInode, inodeRun, removed, allowed, dryRun,
                   memory, lock, tx, sweepQueue, dies, failures, publishes>>

RemoveContainer ==
    /\ run = NotRunning /\ ~removed
    /\ removed' = TRUE
    /\ UNCHANGED <<now, run, place, dir, nextInode, inodeRun, grants, allowed, dryRun,
                   memory, lock, tx, sweepQueue, dies, failures, publishes>>

----------------------------------------------------------------------------
(* The cgroup API, as the processor sees it (external). *)

\* What set_device_rules may leave of old when it is asked for rules.
SetOutcomes(old, rules) ==
    {[result |-> "ok", left |-> rules]}
    \cup (IF old = {} THEN {[result |-> "filterMissing", left |-> {}]} ELSE {})
    \cup (IF failures < MaxFailures
          THEN {[result |-> "error", left |-> left] :
                   left \in {g \in SUBSET (old \cup rules) : old \cap rules \subseteq g}}
          ELSE {})

Failing(outcome) == IF outcome.result = "error" THEN failures + 1 ELSE failures

\* Opening or checking a recorded directory fails for another reason than its
\* absence.
CannotOpen == failures < MaxFailures /\ failures' = failures + 1

----------------------------------------------------------------------------
(* The history: src/src/processor/lifecycle.rs. *)

\* Creation times are distinct: the next one, once a record has the present one.
NextSeen(all) == IF \E r \in all : r.firstSeen = nextSeen THEN nextSeen + 1 ELSE nextSeen

\* append: over the bound the oldest record without an identity goes; the bound is
\* exceeded by one at most while there is such a record.
Append(record) ==
    LET all == records \cup {record}
        idless == {r \in all : ~HasIdentity(r)}
    IN  IF Cardinality(all) > MaxRecords /\ idless # {}
        THEN all \ {CHOOSE r \in idless : \A s \in idless : r.firstSeen <= s.firstSeen}
        ELSE all

ProvisionalRecords == {r \in records : r.state = "provisional"}

\* provisional: refreshing the time of the observation changes nothing else.
Provisional ==
    IF ProvisionalRecords # {} THEN records
    ELSE Append([startedAt |-> Unknown, cgroup |-> NoIdentity, state |-> "provisional",
                 firstSeen |-> nextSeen, revoked |-> FALSE])

\* verify: upgrades the run's record, else a provisional one, else adds one.
Verify(startedAt, identity) ==
    LET same == {r \in records : r.startedAt = startedAt}
        found == IF same # {} THEN same ELSE ProvisionalRecords
    IN  IF found = {}
        THEN Append([startedAt |-> startedAt, cgroup |-> identity, state |-> "verified",
                     firstSeen |-> nextSeen, revoked |-> FALSE])
        ELSE LET r == CHOOSE r \in found : \A s \in found : r.firstSeen <= s.firstSeen
             IN  (records \ {r}) \cup
                 {[r EXCEPT !.startedAt = startedAt, !.cgroup = identity,
                            !.revoked = FALSE,
                            !.state = IF @ = "terminal" THEN @ ELSE "verified"]}

\* Fault: an end event ends the latest run, even one that began after it.
FaultyEnded(eventTime) ==
    LET runs == {r \in records : /\ r.state # "provisional" /\ r.startedAt # Unknown
                                 /\ HasIdentity(r)}
    IN  IF runs # {}
        THEN {CHOOSE r \in runs : \A s \in runs : s.startedAt <= r.startedAt}
        ELSE ProvisionalRecords

\* terminate: the records an end event at eventTime resolves to.
Ended(eventTime) ==
    LET runs == {r \in records : /\ r.state # "provisional" /\ r.startedAt # Unknown
                                 /\ HasIdentity(r) /\ r.startedAt <= eventTime}
    IN  IF runs # {}
        THEN {CHOOSE r \in runs : \A s \in runs : s.startedAt <= r.startedAt}
        ELSE ProvisionalRecords

Terminal(record) == [record EXCEPT !.state = "terminal"]

\* mark_terminal and terminate, as the history after them.
MarkTerminal(ended) == (records \ ended) \cup {Terminal(r) : r \in ended}

\* mark_revoked: only a terminal record keeps the mark.
MarkRevoked(all, startedAt) ==
    {IF r.startedAt = startedAt /\ r.state = "terminal"
     THEN [r EXCEPT !.revoked = TRUE] ELSE r : r \in all}

\* release: records are told apart by start and creation time.
Release(all, record) ==
    {r \in all : r.startedAt # record.startedAt \/ r.firstSeen # record.firstSeen}

\* Fault: the record goes and the cgroup API still remembers the directory.
FaultyForget(identity) == remembered

\* forget: what the cgroup API remembers once a directory is forgotten.
Forget(identity) == remembered \ {identity}

----------------------------------------------------------------------------
(* revoke_at: the empty set at the cgroup a record names.  all is the history it
   starts from. *)

RevokeAt(all, record) ==
    IF ~Live(record.cgroup)
    THEN /\ \/ /\ records' = Release(all, record)
               /\ remembered' = Forget(record.cgroup)
               /\ UNCHANGED failures
            \/ CannotOpen /\ records' = all /\ UNCHANGED remembered
         /\ UNCHANGED grants
    ELSE \E outcome \in SetOutcomes(grants[record.cgroup.inode], {}) :
         /\ grants' = [grants EXCEPT ![record.cgroup.inode] = outcome.left]
         /\ failures' = Failing(outcome)
         /\ remembered' = remembered \cup {record.cgroup}
         /\ records' = IF outcome.result = "error" THEN all
                       ELSE MarkRevoked(all, record.startedAt)

----------------------------------------------------------------------------
(* reconcile(): the inspect outside the lock, the rest under it. *)

\* The inspect reports the running run.
InspectRunning ==
    /\ tx = NoTx /\ run # NotRunning
    /\ tx' = [NoTx EXCEPT !.pc = "inspected", !.startedAt = run]
    /\ UNCHANGED <<world, grants, allowed, dryRun, memory, lock, sweepQueue, dies,
                   failures, publishes>>

\* The inspect reports a container that is not running, with its last start.
InspectStopped ==
    /\ tx = NoTx /\ run = NotRunning /\ ~removed
    /\ tx' = [NoTx EXCEPT !.pc = "stopped",
                          !.startedAt = IF nextInode = 1 THEN Unknown
                                        ELSE inodeRun[nextInode - 1]]
    /\ UNCHANGED <<world, grants, allowed, dryRun, memory, lock, sweepQueue, dies,
                   failures, publishes>>

\* The inspect fails: Docker does not answer in time, or knows no such container.
\* (A cancelled inspect ends the transaction with nothing changed.)
InspectFails ==
    /\ tx = NoTx
    /\ failures < MaxFailures /\ failures' = failures + 1
    /\ tx' = [NoTx EXCEPT !.pc = "failed"]
    /\ UNCHANGED <<world, grants, allowed, dryRun, memory, lock, sweepQueue, dies,
                   publishes>>

\* Under the lock the config is loaded and the desired set computed: what the
\* policy allows, or nothing when a device does not resolve.
ComputeDesired(resolved) ==
    /\ tx.pc = "inspected" /\ lock = "free"
    /\ IF dryRun
       THEN tx' = NoTx /\ UNCHANGED lock
       ELSE /\ tx' = [tx EXCEPT !.pc = "computed",
                                !.rules = IF resolved THEN allowed ELSE {}]
            /\ lock' = "tx"
    /\ UNCHANGED <<world, grants, allowed, dryRun, memory, sweepQueue, dies, failures,
                   publishes>>

\* The pinned transaction ends, for success or for a retry.
EndTx == tx' = NoTx /\ lock' = "free"

\* pin, read_proc_cgroup and CgroupHandle::open.  The pid of a run that ended may
\* belong to a foreign process by now.
PinAndOpen ==
    /\ tx.pc = "computed"
    /\ tx' = [tx EXCEPT !.pc = "pinned",
                        !.handle = IF run = tx.startedAt
                                   THEN [path |-> place, inode |-> dir[place]]
                                   ELSE Foreign]
    /\ UNCHANGED <<world, grants, allowed, dryRun, memory, lock, sweepQueue, dies,
                   failures, publishes>>

\* Pinning, reading or opening fails, as it must when the pid is free.
PinFails ==
    /\ tx.pc = "computed"
    /\ \/ run # tx.startedAt /\ UNCHANGED failures
       \/ failures < MaxFailures /\ failures' = failures + 1
    /\ EndTx
    /\ UNCHANGED <<world, grants, allowed, dryRun, memory, sweepQueue, dies, publishes>>

\* Fault: the second inspect is left out.
FaultyVerifyPinned(needsMember) == TRUE

\* verify_pinned: the second inspect reports the same run, and the process is a
\* member of the opened cgroup where that is asked for.
VerifyPinned(needsMember) ==
    /\ run = tx.startedAt
    /\ needsMember => tx.handle.path = place /\ tx.handle.inode = dir[place]

\* Fault: a container that moved is not noticed.
FaultyMovedFrom == {}

\* The record of the same run names another cgroup.
MovedFrom ==
    {r \in records : /\ r.startedAt = tx.startedAt /\ HasIdentity(r)
                     /\ r.cgroup # tx.handle}

VerifyBefore ==
    /\ tx.pc = "pinned"
    /\ VerifyPinned(tx.rules # {})
    /\ tx' = [tx EXCEPT !.pc = IF MovedFrom # {} THEN "moved" ELSE "ready"]
    /\ UNCHANGED <<world, grants, allowed, dryRun, memory, lock, sweepQueue, dies,
                   failures, publishes>>

\* revoke_moved: the empty set at the previous cgroup, which is then forgotten;
\* an error ends the transaction with the record still naming it.
RevokeMoved ==
    /\ tx.pc = "moved"
    /\ LET previous == (CHOOSE r \in MovedFrom : TRUE).cgroup IN
       IF Live(previous)
       THEN \E outcome \in SetOutcomes(grants[previous.inode], {}) :
            /\ grants' = [grants EXCEPT ![previous.inode] = outcome.left]
            /\ failures' = Failing(outcome)
            /\ IF outcome.result = "error"
               THEN EndTx /\ UNCHANGED remembered
               ELSE /\ tx' = [tx EXCEPT !.pc = "again"]
                    /\ remembered' = Forget(previous)
                    /\ UNCHANGED lock
       ELSE /\ \/ /\ tx' = [tx EXCEPT !.pc = "again"]
                  /\ remembered' = Forget(previous)
                  /\ UNCHANGED <<failures, lock>>
               \/ CannotOpen /\ EndTx /\ UNCHANGED remembered
            /\ UNCHANGED grants
    /\ UNCHANGED <<world, allowed, dryRun, records, nextSeen, sweepQueue, dies, publishes>>

VerifyAgain ==
    /\ tx.pc = "again"
    /\ VerifyPinned(TRUE)
    /\ tx' = [tx EXCEPT !.pc = "ready"]
    /\ UNCHANGED <<world, grants, allowed, dryRun, memory, lock, sweepQueue, dies,
                   failures, publishes>>

\* Either check fails: the run ended or moved, or Docker did not answer.
VerifyFails ==
    /\ tx.pc \in {"pinned", "again"}
    /\ \/ /\ ~VerifyPinned(tx.pc = "again" \/ tx.rules # {})
          /\ UNCHANGED failures
       \/ failures < MaxFailures /\ failures' = failures + 1
    /\ EndTx
    /\ UNCHANGED <<world, grants, allowed, dryRun, memory, sweepQueue, dies, publishes>>

\* The cgroup is recorded, then mutated through the open handle; a directory
\* removed meanwhile only fails.
ApplyPinned ==
    /\ tx.pc = "ready"
    /\ records' = Verify(tx.startedAt, tx.handle)
    /\ nextSeen' = NextSeen(records')
    /\ remembered' = remembered \cup {tx.handle}
    /\ IF Live(tx.handle) \/ tx.handle = Foreign
       THEN \E outcome \in SetOutcomes(grants[tx.handle.inode], tx.rules) :
            /\ grants' = [grants EXCEPT ![tx.handle.inode] = outcome.left]
            /\ failures' = Failing(outcome)
       ELSE UNCHANGED <<grants, failures>>
    /\ EndTx
    /\ UNCHANGED <<world, allowed, dryRun, sweepQueue, dies, publishes>>

\* revoke_ended: the inspect said the run is over.
RevokeEnded ==
    /\ tx.pc = "stopped" /\ lock = "free"
    /\ LET ended == {r \in records : r.startedAt = tx.startedAt /\ HasIdentity(r)} IN
       IF dryRun \/ ended = {}
       THEN UNCHANGED <<records, remembered, grants, failures>>
       ELSE RevokeAt(MarkTerminal(ended), CHOOSE r \in ended : TRUE)
    /\ tx' = NoTx
    /\ UNCHANGED <<world, allowed, dryRun, nextSeen, lock, sweepQueue, dies, publishes>>

\* revoke_after_inspect_failure: every run with a recorded cgroup is revoked, one
\* after the other, whatever became of the others.
InspectFailed ==
    /\ tx.pc = "failed" /\ lock = "free"
    /\ IF dryRun
       THEN tx' = NoTx /\ UNCHANGED <<records, nextSeen, lock>>
       ELSE /\ records' = Provisional
            /\ nextSeen' = NextSeen(records')
            /\ tx' = [tx EXCEPT !.pc = "revoking",
                                !.queue = {r \in Provisional : HasIdentity(r)}]
            /\ lock' = "tx"
    /\ UNCHANGED <<world, grants, allowed, dryRun, remembered, sweepQueue, dies, failures,
                   publishes>>

RevokeNext(record) ==
    /\ tx.pc = "revoking" /\ record \in tx.queue
    /\ RevokeAt(records, record)
    /\ tx' = [tx EXCEPT !.queue = @ \ {record}]
    /\ UNCHANGED <<world, allowed, dryRun, nextSeen, lock, sweepQueue, dies, publishes>>

RevokedAll ==
    /\ tx.pc = "revoking" /\ tx.queue = {}
    /\ EndTx
    /\ UNCHANGED <<world, grants, allowed, dryRun, memory, sweepQueue, dies, failures,
                   publishes>>

----------------------------------------------------------------------------
(* terminate(), sweep() and publish_and_reconcile(). *)

\* The container's hold hands an end event to terminate(); events queued behind it
\* are coalesced to the latest, so an older one may never arrive.
Terminate(eventTime, coalesced) ==
    /\ tx = NoTx /\ lock = "free"
    /\ eventTime \in dies
    /\ dies' = IF coalesced THEN {t \in dies : t > eventTime} ELSE dies \ {eventTime}
    /\ LET ended == Ended(eventTime)
           named == {r \in ended : HasIdentity(r)} IN
       IF dryRun \/ named = {}
       THEN records' = MarkTerminal(ended) /\ UNCHANGED <<remembered, grants, failures>>
       ELSE RevokeAt(MarkTerminal(ended), Terminal(CHOOSE r \in named : TRUE))
    /\ UNCHANGED <<world, allowed, dryRun, nextSeen, lock, tx, sweepQueue, publishes>>

Sweep ==
    /\ lock = "free" /\ sweepQueue = {} /\ records # {}
    /\ lock' = "sweep" /\ sweepQueue' = records
    /\ UNCHANGED <<world, grants, allowed, dryRun, memory, tx, dies, failures, publishes>>

\* Fault: the sweep takes a failed revoke for done.
FaultySweepRevokes(record) == record.state = "terminal" /\ record.revoked /\ ~dryRun

\* The sweep retries the revoke of an ended run until one succeeded.
SweepRevokes(record) == record.state = "terminal" /\ ~record.revoked /\ ~dryRun

\* One record of the sweep.  A record without an identity goes once terminal or
\* stale (its age is abstract); a directory that is gone releases its record; an
\* ended run that is not revoked yet is revoked again.
SweepRecord(record) ==
    /\ lock = "sweep" /\ record \in sweepQueue
    /\ CASE ~HasIdentity(record) ->
              /\ \/ records' = Release(records, record)
                 \/ record.state # "terminal" /\ UNCHANGED records
              /\ UNCHANGED <<remembered, grants, failures>>
         [] HasIdentity(record) /\ ~Live(record.cgroup) ->
              /\ \/ /\ records' = Release(records, record)
                    /\ remembered' = Forget(record.cgroup)
                    /\ UNCHANGED failures
                 \/ CannotOpen /\ UNCHANGED <<records, remembered>>
              /\ UNCHANGED grants
         [] HasIdentity(record) /\ Live(record.cgroup) /\ SweepRevokes(record) ->
              RevokeAt(records, record)
         [] OTHER -> UNCHANGED <<records, remembered, grants, failures>>
    /\ sweepQueue' = sweepQueue \ {record}
    /\ lock' = IF sweepQueue' = {} THEN "free" ELSE "sweep"
    /\ UNCHANGED <<world, allowed, dryRun, nextSeen, tx, dies, publishes>>

\* publish_and_reconcile swaps the config under the lock.  A reload may turn dry-run
\* off, never on.
Publish(policy, dry) ==
    /\ lock = "free" /\ publishes < MaxPublishes
    /\ dry => dryRun
    /\ allowed' = policy /\ dryRun' = dry
    /\ publishes' = publishes + 1
    /\ UNCHANGED <<world, grants, memory, lock, tx, sweepQueue, dies, failures>>

\* systemd's daemon-reload wipes what was attached.
DaemonReload ==
    /\ run # NotRunning
    /\ \E p \in Paths : dir[p] # 0 /\ grants[dir[p]] # {}
    /\ grants' = [i \in DOMAIN grants |-> {}]
    /\ UNCHANGED <<world, allowed, dryRun, memory, lock, tx, sweepQueue, dies, failures,
                   publishes>>

----------------------------------------------------------------------------

ContainerStep ==
    Start \/ Move \/ Exit \/ RemoveContainer \/ (\E p \in Paths : RemoveDir(p))

Reconcile ==
    InspectRunning \/ InspectStopped \/ InspectFails

TxStep ==
    \/ \E resolved \in BOOLEAN : ComputeDesired(resolved)
    \/ PinAndOpen \/ PinFails \/ VerifyBefore \/ VerifyAgain \/ VerifyFails
    \/ RevokeMoved \/ ApplyPinned \/ RevokeEnded
    \/ InspectFailed \/ RevokedAll \/ \E record \in tx.queue : RevokeNext(record)

TerminateStep ==
    \E t \in dies, coalesced \in BOOLEAN : Terminate(t, coalesced)

SweepStep ==
    Sweep \/ \E record \in sweepQueue : SweepRecord(record)

Next ==
    \/ ContainerStep \/ DaemonReload
    \/ Reconcile \/ TxStep \/ TerminateStep \/ SweepStep
    \/ \E policy \in {{}, Devices}, dry \in BOOLEAN : Publish(policy, dry)

Spec == Init /\ [][Next]_vars

\* Transactions run to their end and the sweep, which ticks every minute, gets the
\* lock in spite of them.  Nothing is assumed of the container or of its events.
Fairness == WF_vars(TxStep) /\ SF_vars(SweepStep)

FairSpec == Spec /\ Fairness

----------------------------------------------------------------------------
(* Properties. *)

\* The types of the state.
TypeOK ==
    /\ now \in 0 .. MaxTime /\ run \in 0 .. MaxTime /\ place \in Paths
    /\ dir \in [Paths -> 0 .. MaxInodes] /\ nextInode \in 1 .. MaxInodes + 1
    /\ inodeRun \in [Inodes -> 0 .. MaxTime] /\ removed \in BOOLEAN
    /\ grants \in [Inodes \cup {ForeignInode} -> SUBSET Devices]
    /\ allowed \in SUBSET Devices /\ dryRun \in BOOLEAN
    /\ records \subseteq LifecycleRecord /\ nextSeen \in Nat
    /\ remembered \subseteq Identity
    /\ lock \in {"free", "tx", "sweep"}
    /\ tx \in Transaction
    /\ sweepQueue \subseteq LifecycleRecord
    /\ dies \subseteq 1 .. MaxTime
    /\ failures \in 0 .. MaxFailures /\ publishes \in 0 .. MaxPublishes

\* Whatever is granted in a directory that still exists is named by a record, so it
\* can be revoked later: the cgroup is recorded before it is mutated, and the
\* grants at a previous cgroup go before its record is replaced.
GrantsRecorded ==
    \A p \in Paths :
        dir[p] # 0 /\ grants[dir[p]] # {} =>
            \E r \in records : r.cgroup = [path |-> p, inode |-> dir[p]]

\* Late cleanup for an old run never reaches the new one: the record of the run
\* that is running is never terminal, so neither terminate() nor the sweep takes
\* its grants away.
RunningNotTerminal ==
    run # NotRunning =>
        \A r \in records : r.startedAt = run => r.state # "terminal"

\* The cgroup API remembers directories (v1 ledger, v2 filter cache) only while a
\* record names them, so that memory is released with the records.
RememberedRecorded ==
    \A identity \in remembered : \E r \in records : r.cgroup = identity

\* A grant is only ever added in a cgroup of the run the transaction inspected, by
\* the config in force at that moment, never in dry-run and never through a
\* recycled pid.
GrantsPinned ==
    [][\A i \in DOMAIN grants :
          grants'[i] \ grants[i] # {} =>
              /\ i \in Inodes /\ inodeRun[i] = tx.startedAt
              /\ grants'[i] \ grants[i] \subseteq allowed
              /\ ~dryRun]_vars

\* Once a run is known to have ended (its record is terminal), its grants go or its
\* directory does, however often the revoke failed before.
EndedRevoked ==
    \A i \in Inodes :
        (~dryRun /\ \E r \in records : r.state = "terminal" /\ r.cgroup.inode = i)
            ~> grants[i] = {}

=============================================================================
