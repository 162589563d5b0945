-------------------------- MODULE ProcessorProofs --------------------------
(***************************************************************************)
(* What the processor's transactions keep, for every number of runs,       *)
(* directories, records, failures and published configs.                   *)
(*                                                                         *)
(* The argument rests on four facts about what a transaction relies on     *)
(* while the container moves on under it: the start time it inspected and  *)
(* the cgroup it opened belong together for good (TxOK), because start     *)
(* times and inodes are never used again (WorldOK); the history has one    *)
(* record per run and one per creation time (Wellformed), so the record a  *)
(* queue remembers is still the one a release takes away (Queued); and     *)
(* once a move is dealt with, the cgroup the run's record still names has  *)
(* no grants and is not remembered (MovedOK), so the record may go on to   *)
(* name the new one.                                                       *)
(***************************************************************************)
EXTENDS Processor, WellFoundedInduction, TLAPS

Pinned == {"pinned", "moved", "again", "ready"}

\* Times and inodes only grow; only a directory that exists has grants; the
\* directories of a running container are of its run; an end event is older.
WorldOK ==
    /\ \A p \in Paths : dir[p] < nextInode
    /\ \A p, q \in Paths : dir[p] = dir[q] /\ dir[p] # 0 => p = q
    /\ run <= now
    /\ \A i \in Inodes : inodeRun[i] <= now
    /\ \A i \in DOMAIN grants : grants[i] # {} => \E p \in Paths : dir[p] = i
    /\ run # NotRunning =>
        /\ dir["scope"] # 0 /\ dir[place] # 0
        /\ \A p \in Paths : dir[p] # 0 => inodeRun[dir[p]] = run
    /\ \A t \in dies : t <= now /\ (run # NotRunning => t < run)

\* What a transaction has read stays true of the run it inspected.
TxOK ==
    /\ tx.startedAt <= now
    /\ tx.pc = "stopped" => run = NotRunning \/ tx.startedAt < run
    /\ tx.pc \in Pinned \cup {"inspected", "computed"} => tx.startedAt # Unknown
    /\ tx.pc \in Pinned \cup {"computed"} => tx.rules \subseteq allowed /\ ~dryRun
    /\ tx.pc \in Pinned =>
        \/ tx.handle = Foreign /\ tx.pc = "pinned" /\ run # tx.startedAt
        \/ /\ tx.handle \in Identity /\ tx.handle.inode < nextInode
           /\ inodeRun[tx.handle.inode] = tx.startedAt

LockOK ==
    /\ lock = "tx" <=> tx.pc \in Pinned \cup {"computed", "revoking"}
    /\ sweepQueue # {} => lock = "sweep"
    /\ tx.queue # {} => tx.pc = "revoking"

\* A history: one record per run and per creation time, no record from the future,
\* and a cgroup only together with a start time.
Wellformed(R, time, seen) ==
    /\ \A r, s \in R : r.firstSeen = s.firstSeen => r = s
    /\ \A r, s \in R : r.startedAt = s.startedAt /\ r.startedAt # Unknown => r = s
    /\ \A r \in R : /\ r.firstSeen < seen /\ r.startedAt <= time
                    /\ r.state = "provisional" => r.startedAt = Unknown
                    /\ HasIdentity(r) => r.startedAt # Unknown

HistoryOK == Wellformed(records, now, nextSeen)

\* Two records of the same run, that may differ in their state and mark.
Match(q, r) ==
    q.firstSeen = r.firstSeen /\ q.startedAt = r.startedAt /\ q.cgroup = r.cgroup

\* A queue of records names each run once, and the history still has them.
Queued(Q, R) ==
    /\ \A q, s \in Q : q.firstSeen = s.firstSeen => q = s
    /\ \A q \in Q : \E r \in R : Match(q, r)

QueuesOK ==
    /\ Queued(tx.queue, records) /\ Queued(sweepQueue, records)
    /\ \A q \in tx.queue : HasIdentity(q)

\* A move that was noticed is still there; once it is dealt with, the cgroup that
\* the run's record names is clean.
MovedOK ==
    /\ tx.pc = "moved" => MovedFrom # {}
    /\ tx.pc \in {"again", "ready"} =>
         \A r \in MovedFrom :
             /\ r.cgroup \notin remembered
             /\ Live(r.cgroup) => grants[r.cgroup.inode] = {}

Recorded == GrantsRecorded /\ RunningNotTerminal /\ RememberedRecorded

IInv ==
    /\ TypeOK /\ WorldOK /\ TxOK /\ LockOK
    /\ HistoryOK /\ QueuesOK /\ MovedOK /\ Recorded

-----------------------------------------------------------------------------
(* Naturals have minima, so the records that append, verify and terminate    *)
(* choose exist.                                                             *)

LEMMA Minimum ==
    ASSUME NEW T, T \subseteq Nat, T # {}
    PROVE  \E x \in T : \A y \in T : x <= y
<1> DEFINE R == OpToRel(<, Nat)
<1>1. IsWellFoundedOn(R, Nat)
    BY NatLessThanWellFounded, Zenon
<1>2. \A x, y \in Nat : <<y, x>> \in R <=> y < x
    BY Zenon DEF OpToRel
<1> HIDE DEF R
<1>3. \E x \in T : \A y \in T : ~(<<y, x>> \in R)
    BY <1>1, WFMin, Zenon
<1>4. \A x, y \in Nat : ~(<<y, x>> \in R) => x <= y
    BY <1>2
<1> QED BY <1>3, <1>4, Zenon

LEMMA Oldest ==
    ASSUME NEW R, R \subseteq LifecycleRecord, R # {}
    PROVE  \E r \in R : \A s \in R : r.firstSeen <= s.firstSeen
<1> DEFINE T == {r.firstSeen : r \in R}
<1>1. T \subseteq Nat
    BY Zenon DEF LifecycleRecord
<1>2. T # {}
    OBVIOUS
<1>3. PICK x \in T : \A y \in T : x <= y
    BY <1>1, <1>2, Minimum, Zenon
<1> QED BY <1>3, Zenon

LEMMA Latest ==
    ASSUME NEW R, R \subseteq LifecycleRecord, R # {}
    PROVE  \E r \in R : \A s \in R : s.startedAt <= r.startedAt
<1> DEFINE T == {MaxTime - r.startedAt : r \in R}
<1>1. \A r \in R : r.startedAt \in 0 .. MaxTime
    BY Zenon DEF LifecycleRecord
<1>2. T \subseteq Nat
    BY <1>1, ConstantsAssumption
<1>3. PICK x \in T : \A y \in T : x <= y
    BY <1>2, Minimum, Zenon
<1>4. PICK r \in R : x = MaxTime - r.startedAt
    BY <1>3, Zenon
<1>5. \A s \in R : MaxTime - r.startedAt <= MaxTime - s.startedAt
    BY <1>3, <1>4, Zenon
<1> QED BY <1>1, <1>5, ConstantsAssumption

-----------------------------------------------------------------------------
(* The operators of the history.                                             *)

\* Changing states and marks leaves a history well-formed.
LEMMA ImageKeeps ==
    ASSUME NEW R, NEW time, NEW seen, Wellformed(R, time, seen), NEW g,
           \A r \in R : /\ Match(g[r], r)
                        /\ g[r].state = "provisional" => r.state = "provisional"
    PROVE  Wellformed({g[r] : r \in R}, time, seen)
<1> DEFINE Q == {g[r] : r \in R}
<1>1. ASSUME NEW q \in Q, NEW s \in Q
      PROVE  /\ q.firstSeen = s.firstSeen => q = s
             /\ q.startedAt = s.startedAt /\ q.startedAt # Unknown => q = s
  <2>1. PICK x \in R : q = g[x]
    OBVIOUS
  <2>2. PICK y \in R : s = g[y]
    OBVIOUS
  <2> HIDE DEF Q
  <2>3. Match(q, x) /\ Match(s, y) /\ (x = y => q = s)
    BY <2>1, <2>2, Zenon
  <2> QED BY <2>3 DEF Wellformed, Match
<1>2. ASSUME NEW q \in Q
      PROVE  /\ q.firstSeen < seen /\ q.startedAt <= time
             /\ q.state = "provisional" => q.startedAt = Unknown
             /\ HasIdentity(q) => q.startedAt # Unknown
  <2>1. PICK x \in R : q = g[x]
    OBVIOUS
  <2> HIDE DEF Q
  <2>2. Match(q, x) /\ (q.state = "provisional" => x.state = "provisional")
    BY <2>1, Zenon
  <2> QED BY <2>2, Zenon DEF Wellformed, Match, HasIdentity
<1> QED BY <1>1, <1>2, Zenon DEF Wellformed

\* A part of a history is well-formed.
LEMMA PartKeeps ==
    ASSUME NEW R, NEW Q \in SUBSET R, NEW time, NEW seen, Wellformed(R, time, seen)
    PROVE  Wellformed(Q, time, seen)
BY Zenon DEF Wellformed

\* append keeps whatever names a cgroup.
LEMMA AppendKeeps ==
    ASSUME records \subseteq LifecycleRecord, NEW record \in LifecycleRecord
    PROVE  /\ Append(record) \subseteq records \cup {record}
           /\ \A r \in records \cup {record} : HasIdentity(r) => r \in Append(record)
<1> DEFINE all == records \cup {record}
           idless == {r \in all : ~HasIdentity(r)}
           oldest == CHOOSE r \in idless : \A s \in idless : r.firstSeen <= s.firstSeen
<1>1. CASE idless # {}
  <2>1. \E r \in idless : \A s \in idless : r.firstSeen <= s.firstSeen
    <3>1. idless \subseteq LifecycleRecord
      OBVIOUS
    <3> HIDE DEF idless
    <3> QED BY <1>1, <3>1, Oldest, Zenon
  <2>2. oldest \in idless
    BY <2>1, Zenon
  <2>3. Append(record) = all \/ Append(record) = all \ {oldest}
    BY Zenon DEF Append
  <2> HIDE DEF oldest
  <2> QED BY <2>2, <2>3, Zenon
<1>2. CASE idless = {}
  <2>1. Append(record) = all
    BY <1>2, Zenon DEF Append
  <2> QED BY <2>1, Zenon
<1> QED BY <1>1, <1>2, Zenon

LEMMA ProvisionalKeeps ==
    ASSUME records \subseteq LifecycleRecord, nextSeen \in Nat, HistoryOK, now \in Nat
    PROVE  /\ Provisional \subseteq LifecycleRecord
           /\ Wellformed(Provisional, now, NextSeen(Provisional))
           /\ NextSeen(Provisional) \in Nat
           /\ \A r \in Provisional : HasIdentity(r) => r \in records
           /\ \A r \in Provisional : r.startedAt # Unknown => r \in records
           /\ \A r \in records : HasIdentity(r) => r \in Provisional
<1> DEFINE new == [startedAt |-> Unknown, cgroup |-> NoIdentity, state |-> "provisional",
                   firstSeen |-> nextSeen, revoked |-> FALSE]
<1>n. NextSeen(Provisional) \in Nat /\ NextSeen(Provisional) >= nextSeen
    BY DEF NextSeen
<1>1. new \in LifecycleRecord /\ ~HasIdentity(new)
    BY ConstantsAssumption DEF LifecycleRecord, Unknown, HasIdentity
<1>2. Provisional = records \/ Provisional = Append(new)
    BY Zenon DEF Provisional
<1>3. Provisional \subseteq records \cup {new}
    BY <1>1, <1>2, AppendKeeps, Zenon
<1>4. \A r \in records : HasIdentity(r) => r \in Provisional
  <2>1. \A r \in records : HasIdentity(r) => r \in Append(new)
    BY <1>1, AppendKeeps, Zenon
  <2> QED BY <1>2, <2>1, Zenon
<1>f. new.firstSeen = nextSeen /\ new.startedAt = Unknown
    OBVIOUS
<1> HIDE DEF new
<1>5. \A r \in records : r.firstSeen \in Nat /\ r.firstSeen < nextSeen
    BY Zenon DEF LifecycleRecord, HistoryOK, Wellformed
<1>6. \A r, s \in Provisional : r.firstSeen = s.firstSeen => r = s
    BY <1>3, <1>5, <1>f DEF HistoryOK, Wellformed
<1>7. \A r, s \in Provisional : r.startedAt = s.startedAt /\ r.startedAt # Unknown => r = s
    BY <1>3, <1>f, Zenon DEF HistoryOK, Wellformed
<1>8. \A r \in Provisional : r.firstSeen < NextSeen(Provisional)
    BY <1>3, <1>5, <1>f, <1>n DEF NextSeen
<1>9. \A r \in Provisional : /\ r.startedAt <= now
                             /\ r.state = "provisional" => r.startedAt = Unknown
                             /\ HasIdentity(r) => r.startedAt # Unknown
    BY <1>1, <1>3, <1>f DEF HistoryOK, Wellformed, Unknown
<1>10. Wellformed(Provisional, now, NextSeen(Provisional))
    BY <1>6, <1>7, <1>8, <1>9, Zenon DEF Wellformed
<1> QED BY <1>1, <1>3, <1>4, <1>10, <1>n, <1>f, Zenon

\* verify: one record, old, goes on as new, or a new one is added.
LEMMA VerifyChanges ==
    ASSUME records \subseteq LifecycleRecord, nextSeen \in Nat, HistoryOK,
           NEW startedAt \in 0 .. MaxTime, NEW identity \in Identity
    PROVE  \E old \in SUBSET records, new \in LifecycleRecord :
             /\ new \in Verify(startedAt, identity)
             /\ new.startedAt = startedAt /\ new.cgroup = identity
             /\ new.state # "provisional"
             /\ Verify(startedAt, identity) \subseteq (records \ old) \cup {new}
             /\ \A r \in records \ old : HasIdentity(r) => r \in Verify(startedAt, identity)
             /\ \A r \in records : r.startedAt = startedAt /\ startedAt # Unknown => r \in old
             /\ \A r \in old : /\ r.startedAt = startedAt \/ r.state = "provisional"
                               /\ r.firstSeen = new.firstSeen
                               /\ new.state = "terminal" => r.state = "terminal"
             /\ old = {} => new.firstSeen = nextSeen /\ new.state # "terminal"
<1> DEFINE same == {r \in records : r.startedAt = startedAt}
           found == IF same # {} THEN same ELSE ProvisionalRecords
           added == [startedAt |-> startedAt, cgroup |-> identity, state |-> "verified",
                     firstSeen |-> nextSeen, revoked |-> FALSE]
           first == CHOOSE r \in found : \A s \in found : r.firstSeen <= s.firstSeen
           next == [first EXCEPT !.startedAt = startedAt, !.cgroup = identity,
                                 !.revoked = FALSE,
                                 !.state = IF @ = "terminal" THEN @ ELSE "verified"]
<1>1. CASE found = {}
  <2>1. Verify(startedAt, identity) = Append(added)
    BY <1>1, Zenon DEF Verify
  <2>2. added \in LifecycleRecord /\ HasIdentity(added)
    BY DEF LifecycleRecord, HasIdentity, Identity, NoIdentity, Paths
  <2>3. /\ Append(added) \subseteq records \cup {added}
        /\ \A r \in records \cup {added} : HasIdentity(r) => r \in Append(added)
    BY <2>2, AppendKeeps, Zenon
  <2>4. same = {}
    BY <1>1, Zenon
  <2>5. /\ added.startedAt = startedAt /\ added.cgroup = identity
        /\ added.state = "verified" /\ added.firstSeen = nextSeen
    OBVIOUS
  <2>6. \A r \in records : r.startedAt # startedAt
    BY <2>4, Zenon
  <2> HIDE DEF added, same, found, first, next
  <2> added \in LifecycleRecord /\ {} \in SUBSET records
    BY <2>2, Zenon
  <2> WITNESS {} \in SUBSET records, added \in LifecycleRecord
  <2> QED BY <2>1, <2>2, <2>3, <2>5, <2>6, Zenon
<1>2. CASE found # {}
  <2>1. found \subseteq records
    BY Zenon DEF ProvisionalRecords
  <2>2. first \in found
    <3> HIDE DEF found
    <3>1. \E r \in found : \A s \in found : r.firstSeen <= s.firstSeen
      BY <1>2, <2>1, Oldest, Zenon
    <3> QED BY <3>1, Zenon
  <2>3. first \in LifecycleRecord
    BY <2>1, <2>2, Zenon
  <2>4. Verify(startedAt, identity) = (records \ {first}) \cup {next}
    BY <1>2, Zenon DEF Verify
  <2>5. first.startedAt = startedAt \/ first.state = "provisional"
    BY <2>2 DEF ProvisionalRecords
  <2>6. \A r \in records : r.startedAt = startedAt /\ startedAt # Unknown => r = first
    <3> SUFFICES ASSUME NEW r \in records, r.startedAt = startedAt, startedAt # Unknown
                 PROVE  r = first
      BY Zenon
    <3>1. first \in same
      BY <2>2, Zenon
    <3> QED BY <3>1, Zenon DEF HistoryOK, Wellformed
  <2> HIDE DEF found, same, first, added
  <2>7. /\ next \in LifecycleRecord
        /\ next.startedAt = startedAt /\ next.cgroup = identity
        /\ next.firstSeen = first.firstSeen
        /\ next.state = IF first.state = "terminal" THEN "terminal" ELSE "verified"
    BY <2>3, Zenon DEF LifecycleRecord
  <2> HIDE DEF next
  <2> next \in LifecycleRecord /\ {first} \in SUBSET records
    BY <2>1, <2>2, <2>7, Zenon
  <2> WITNESS {first} \in SUBSET records, next \in LifecycleRecord
  <2> QED BY <2>4, <2>5, <2>6, <2>7, Zenon
<1> QED BY <1>1, <1>2, Zenon

\* mark_terminal ends the records it is given and keeps the runs.
LEMMA MarkTerminalKeeps ==
    ASSUME records \subseteq LifecycleRecord, HistoryOK, NEW ended \in SUBSET records
    PROVE  /\ MarkTerminal(ended) \subseteq LifecycleRecord
           /\ Wellformed(MarkTerminal(ended), now, nextSeen)
           /\ \A q \in MarkTerminal(ended) : \E r \in records :
                Match(q, r) /\ (q.state = "terminal" => r.state = "terminal" \/ r \in ended)
           /\ \A r \in records : \E q \in MarkTerminal(ended) : Match(q, r)
<1> DEFINE g == [r \in records |-> IF r \in ended THEN Terminal(r) ELSE r]
<1>1. MarkTerminal(ended) = {g[r] : r \in records}
    BY Zenon DEF MarkTerminal
<1>2. \A r \in records : /\ g[r] \in LifecycleRecord /\ Match(g[r], r)
                         /\ g[r].state = "provisional" => r.state = "provisional"
                         /\ g[r].state = "terminal" => r.state = "terminal" \/ r \in ended
    BY DEF Terminal, LifecycleRecord, Match
<1> HIDE DEF g
<1>3. Wellformed({g[r] : r \in records}, now, nextSeen)
    BY <1>2, ImageKeeps DEF HistoryOK
<1>4. {g[r] : r \in records} \subseteq LifecycleRecord
    BY <1>2, Zenon
<1>5. \A q \in {g[r] : r \in records} : \E r \in records :
        Match(q, r) /\ (q.state = "terminal" => r.state = "terminal" \/ r \in ended)
    BY <1>2, Zenon
<1>6. \A r \in records : \E q \in {g[s] : s \in records} : Match(q, r)
    BY <1>2, Zenon
<1> QED BY <1>1, <1>3, <1>4, <1>5, <1>6, Zenon

LEMMA MarkRevokedKeeps ==
    ASSUME NEW all \in SUBSET LifecycleRecord, Wellformed(all, now, nextSeen), NEW startedAt
    PROVE  /\ MarkRevoked(all, startedAt) \subseteq LifecycleRecord
           /\ Wellformed(MarkRevoked(all, startedAt), now, nextSeen)
           /\ \A q \in MarkRevoked(all, startedAt) : \E r \in all :
                Match(q, r) /\ q.state = r.state
           /\ \A r \in all : \E q \in MarkRevoked(all, startedAt) : Match(q, r)
<1> DEFINE g == [r \in all |-> IF r.startedAt = startedAt /\ r.state = "terminal"
                               THEN [r EXCEPT !.revoked = TRUE] ELSE r]
<1>1. MarkRevoked(all, startedAt) = {g[r] : r \in all}
    BY Zenon DEF MarkRevoked
<1>2. ASSUME NEW r \in all
      PROVE  g[r] \in LifecycleRecord /\ Match(g[r], r) /\ g[r].state = r.state
  <2> DEFINE marked == [r EXCEPT !.revoked = TRUE]
  <2>1. marked \in LifecycleRecord
    BY Zenon DEF LifecycleRecord
  <2>2. Match(marked, r) /\ marked.state = r.state
    BY Zenon DEF LifecycleRecord, Match
  <2>3. g[r] = marked \/ g[r] = r
    BY Zenon
  <2> HIDE DEF marked, g
  <2> QED BY <2>1, <2>2, <2>3, Zenon DEF Match
<1> HIDE DEF g
<1>3. Wellformed({g[r] : r \in all}, now, nextSeen)
    BY <1>2, ImageKeeps
<1>4. {g[r] : r \in all} \subseteq LifecycleRecord
    BY <1>2, Zenon
<1>5. \A q \in {g[r] : r \in all} : \E r \in all : Match(q, r) /\ q.state = r.state
    BY <1>2
<1>6. \A r \in all : \E q \in {g[s] : s \in all} : Match(q, r)
    BY <1>2, Zenon
<1> QED BY <1>1, <1>3, <1>4, <1>5, <1>6, Zenon

\* release takes away the run it is given, and no other.
LEMMA ReleaseDrops ==
    ASSUME NEW all, Wellformed(all, now, nextSeen), NEW record,
           \E r \in all : Match(record, r)
    PROVE  /\ Release(all, record) \in SUBSET all
           /\ Wellformed(Release(all, record), now, nextSeen)
           /\ \A r \in all : r \in Release(all, record) \/ Match(record, r)
<1>1. Release(all, record) \in SUBSET all
    BY Zenon DEF Release
<1>2. Wellformed(Release(all, record), now, nextSeen)
    BY <1>1, PartKeeps, Zenon
<1>3. ASSUME NEW r \in all, r \notin Release(all, record)
      PROVE  Match(record, r)
    BY <1>3, Zenon DEF Release, Wellformed, Match
<1> QED BY <1>1, <1>2, <1>3, Zenon

-----------------------------------------------------------------------------
(* Revocations.                                                              *)

LEMMA OnlyAskedFor ==
    ASSUME failures \in 0 .. MaxFailures,
           NEW old, NEW rules, NEW outcome \in SetOutcomes(old, rules)
    PROVE  /\ outcome.left \subseteq old \cup rules
           /\ Failing(outcome) \in 0 .. MaxFailures
BY ConstantsAssumption DEF SetOutcomes, Failing

LEMMA NothingAdded ==
    ASSUME failures \in 0 .. MaxFailures, NEW old \in SUBSET Devices,
           NEW outcome \in SetOutcomes(old, {})
    PROVE  /\ outcome.left \subseteq old
           /\ outcome.result # "error" => outcome.left = {}
           /\ Failing(outcome) \in 0 .. MaxFailures
BY ConstantsAssumption DEF SetOutcomes, Failing

\* How a revocation changes the history, the memory and the grants: runs keep
\* their records, except one whose directory is gone and forgotten.
Shrinks(all, gone) ==
    /\ records' \subseteq LifecycleRecord /\ Wellformed(records', now, nextSeen)
    /\ \A q \in records' : \E r \in all : Match(q, r) /\ q.state = r.state
    /\ \A r \in all : \/ \E q \in records' : Match(q, r)
                      \/ /\ r.cgroup \notin remembered' /\ ~Live(r.cgroup)
                         /\ r.firstSeen = gone
    /\ \A id \in remembered' : id \in remembered \/ \E q \in records' : q.cgroup = id
    /\ remembered' \subseteq Identity
    /\ grants' \in [Inodes \cup {ForeignInode} -> SUBSET Devices]
    /\ \A i \in Inodes \cup {ForeignInode} : grants'[i] \subseteq grants[i]
    /\ failures' \in 0 .. MaxFailures

LEMMA RevokeShrinks ==
    ASSUME TypeOK, NEW all \in SUBSET LifecycleRecord, Wellformed(all, now, nextSeen),
           NEW record \in LifecycleRecord, HasIdentity(record),
           \E r \in all : Match(record, r), RevokeAt(all, record)
    PROVE  Shrinks(all, record.firstSeen)
<1>t. /\ failures \in 0 .. MaxFailures /\ remembered \subseteq Identity
      /\ grants \in [Inodes \cup {ForeignInode} -> SUBSET Devices]
    BY Zenon DEF TypeOK
<1>i. record.cgroup \in Identity
    BY Zenon DEF LifecycleRecord, HasIdentity
<1>1. CASE /\ ~Live(record.cgroup) /\ records' = Release(all, record)
           /\ remembered' = Forget(record.cgroup) /\ UNCHANGED <<failures, grants>>
  <2>1. /\ records' \in SUBSET all /\ Wellformed(records', now, nextSeen)
        /\ \A r \in all : r \in records' \/ Match(record, r)
    BY <1>1, ReleaseDrops, Zenon
  <2>2. remembered' = remembered \ {record.cgroup}
    BY <1>1, Zenon DEF Forget
  <2> QED BY <1>1, <1>t, <2>1, <2>2, Zenon DEF Shrinks, Match
<1>2. CASE ~Live(record.cgroup) /\ CannotOpen /\ records' = all /\ UNCHANGED <<remembered, grants>>
  <2>1. failures' \in 0 .. MaxFailures
    BY <1>2, <1>t, ConstantsAssumption DEF CannotOpen
  <2> QED BY <1>2, <1>t, <2>1, Zenon DEF Shrinks, Match
<1>3. CASE /\ Live(record.cgroup)
           /\ \E outcome \in SetOutcomes(grants[record.cgroup.inode], {}) :
                /\ grants' = [grants EXCEPT ![record.cgroup.inode] = outcome.left]
                /\ failures' = Failing(outcome)
                /\ remembered' = remembered \cup {record.cgroup}
                /\ records' = IF outcome.result = "error" THEN all
                              ELSE MarkRevoked(all, record.startedAt)
  <2>1. record.cgroup.inode \in Inodes
    BY <1>i, Zenon DEF Identity
  <2> DEFINE inode == record.cgroup.inode
  <2>2. PICK outcome \in SetOutcomes(grants[inode], {}) :
          /\ grants' = [grants EXCEPT ![inode] = outcome.left]
          /\ failures' = Failing(outcome)
          /\ remembered' = remembered \cup {record.cgroup}
          /\ records' = IF outcome.result = "error" THEN all
                        ELSE MarkRevoked(all, record.startedAt)
    BY <1>3, Zenon
  <2>3. outcome.left \subseteq grants[inode] /\ failures' \in 0 .. MaxFailures
    BY <1>t, <2>1, <2>2, NothingAdded
  <2>4. /\ grants' \in [Inodes \cup {ForeignInode} -> SUBSET Devices]
        /\ \A i \in Inodes \cup {ForeignInode} : grants'[i] \subseteq grants[i]
    BY <1>t, <2>1, <2>2, <2>3, Zenon
  <2>5. records' = all \/ records' = MarkRevoked(all, record.startedAt)
    BY <2>2, Zenon
  <2>6. /\ records' \subseteq LifecycleRecord /\ Wellformed(records', now, nextSeen)
        /\ \A q \in records' : \E r \in all : Match(q, r) /\ q.state = r.state
        /\ \A r \in all : \E q \in records' : Match(q, r)
    <3>1. /\ MarkRevoked(all, record.startedAt) \subseteq LifecycleRecord
          /\ Wellformed(MarkRevoked(all, record.startedAt), now, nextSeen)
          /\ \A q \in MarkRevoked(all, record.startedAt) : \E r \in all :
               Match(q, r) /\ q.state = r.state
          /\ \A r \in all : \E q \in MarkRevoked(all, record.startedAt) : Match(q, r)
      BY MarkRevokedKeeps, Zenon
    <3>2. \A r \in all : Match(r, r)
      BY Zenon DEF Match
    <3> QED BY <2>5, <3>1, <3>2, Zenon
  <2>7. \E q \in records' : q.cgroup = record.cgroup
    <3>1. PICK r \in all : Match(record, r)
      OBVIOUS
    <3>2. PICK q \in records' : Match(q, r)
      BY <2>6, <3>1, Zenon
    <3> QED BY <3>1, <3>2, Zenon DEF Match
  <2>8. \A id \in remembered' : id \in remembered \/ \E q \in records' : q.cgroup = id
    BY <2>2, <2>7, Zenon
  <2>9. remembered' \subseteq Identity
    BY <1>t, <1>i, <2>2, Zenon
  <2> QED BY <2>3, <2>4, <2>6, <2>8, <2>9, Zenon DEF Shrinks
<1> QED BY <1>1, <1>2, <1>3, Zenon DEF RevokeAt

\* The same runs, whatever their states and marks.
SameRuns(R, Q) ==
    (\A q \in Q : \E r \in R : Match(q, r)) /\ (\A r \in R : \E q \in Q : Match(q, r))

LEMMA ShrinkKeeps ==
    ASSUME TypeOK, WorldOK, HistoryOK, GrantsRecorded, RememberedRecorded,
           NEW all, NEW gone, SameRuns(records, all), Shrinks(all, gone),
           UNCHANGED <<now, run, place, dir, nextInode, inodeRun, nextSeen>>,
           dies' \subseteq dies
    PROVE  /\ WorldOK' /\ HistoryOK' /\ GrantsRecorded' /\ RememberedRecorded'
           /\ \A Q : Queued(Q, records) /\ (\A q \in Q : q.firstSeen # gone)
                        => Queued(Q, records')
<1>t. /\ dir \in [Paths -> 0 .. MaxInodes]
      /\ grants \in [Inodes \cup {ForeignInode} -> SUBSET Devices]
    BY Zenon DEF TypeOK
<1>g. /\ DOMAIN grants' = DOMAIN grants
      /\ \A i \in DOMAIN grants : grants'[i] # {} => grants[i] # {}
    BY <1>t, Zenon DEF Shrinks
<1>r. ASSUME NEW r \in records
      PROVE  \/ \E q \in records' : Match(q, r)
             \/ r.cgroup \notin remembered' /\ ~Live(r.cgroup) /\ r.firstSeen = gone
  <2>1. PICK q \in all : Match(q, r)
    BY Zenon DEF SameRuns
  <2> QED BY <2>1 DEF Shrinks, Match
<1>1. WorldOK'
    BY <1>g, Zenon DEF WorldOK
<1>2. HistoryOK'
    BY Zenon DEF Shrinks, HistoryOK
<1>3. GrantsRecorded'
  <2> SUFFICES ASSUME NEW p \in Paths, dir[p] # 0, grants'[dir[p]] # {}
               PROVE  \E q \in records' : q.cgroup = [path |-> p, inode |-> dir[p]]
    BY Zenon DEF GrantsRecorded
  <2>1. dir[p] \in Inodes
    BY <1>t, ConstantsAssumption DEF Inodes
  <2>2. PICK r \in records : r.cgroup = [path |-> p, inode |-> dir[p]]
    BY <1>t, <1>g, <2>1, Zenon DEF GrantsRecorded
  <2>3. Live(r.cgroup)
    BY <2>2 DEF Live
  <2> QED BY <1>r, <2>2, <2>3, Zenon DEF Match
<1>4. RememberedRecorded'
  <2> SUFFICES ASSUME NEW id \in remembered', id \in remembered
               PROVE  \E q \in records' : q.cgroup = id
    BY Zenon DEF RememberedRecorded, Shrinks
  <2>1. PICK r \in records : r.cgroup = id
    BY Zenon DEF RememberedRecorded
  <2> QED BY <1>r, <2>1, Zenon DEF Match
<1>5. ASSUME NEW Q, Queued(Q, records), \A q \in Q : q.firstSeen # gone
      PROVE  Queued(Q, records')
  <2> SUFFICES ASSUME NEW q \in Q
               PROVE  \E s \in records' : Match(q, s)
    BY <1>5, Zenon DEF Queued
  <2>1. PICK r \in records : Match(q, r)
    BY <1>5, Zenon DEF Queued
  <2>2. PICK s \in records' : Match(s, r)
    BY <1>5, <1>r, <2>1, Zenon DEF Match
  <2> QED BY <2>1, <2>2, Zenon DEF Match
<1> QED BY <1>1, <1>2, <1>3, <1>4, <1>5, Zenon

-----------------------------------------------------------------------------
(* The initial state.                                                        *)

LEMMA NoTxType == NoTx \in Transaction
BY ConstantsAssumption DEF NoTx, Transaction

LEMMA NoTxFields ==
    /\ NoTx.pc = "idle" /\ NoTx.startedAt = 0 /\ NoTx.rules = {} /\ NoTx.queue = {}
    /\ NoTx.handle = NoIdentity
BY Zenon DEF NoTx

LEMMA InitOK == Init => IInv
<1> SUFFICES ASSUME Init PROVE IInv
    BY Zenon
<1>1. TypeOK
  <2>1. tx \in Transaction
    BY NoTxType, Zenon DEF Init
  <2>2. /\ now \in 0 .. MaxTime /\ run \in 0 .. MaxTime /\ nextInode \in 1 .. MaxInodes + 1
        /\ failures \in 0 .. MaxFailures /\ publishes \in 0 .. MaxPublishes
        /\ nextSeen \in Nat
    BY ConstantsAssumption DEF Init, NotRunning
  <2>3. 0 \in 0 .. MaxInodes /\ 0 \in 0 .. MaxTime
    BY ConstantsAssumption
  <2>4. dir \in [Paths -> 0 .. MaxInodes] /\ inodeRun \in [Inodes -> 0 .. MaxTime]
    BY <2>3, Zenon DEF Init
  <2>5. grants \in [Inodes \cup {ForeignInode} -> SUBSET Devices]
    BY Zenon DEF Init
  <2>6. /\ place \in Paths /\ removed \in BOOLEAN /\ allowed \in SUBSET Devices
        /\ dryRun \in BOOLEAN /\ records = {} /\ remembered = {} /\ lock = "free"
        /\ sweepQueue = {} /\ dies = {}
    BY Zenon DEF Init, Paths
  <2> QED BY <2>1, <2>2, <2>4, <2>5, <2>6, Zenon DEF TypeOK
<1>2. WorldOK
  <2>1. \A p \in Paths : dir[p] = 0
    BY Zenon DEF Init
  <2>2. \A i \in Inodes : inodeRun[i] = 0
    BY Zenon DEF Init
  <2>3. \A i \in DOMAIN grants : grants[i] = {}
    BY Zenon DEF Init
  <2> QED BY <2>1, <2>2, <2>3 DEF Init, WorldOK, NotRunning
<1>3. TxOK /\ LockOK /\ MovedOK
  <2>1. /\ tx.pc = "idle" /\ tx.startedAt = 0 /\ tx.queue = {}
        /\ now = 0 /\ lock = "free" /\ sweepQueue = {}
    BY NoTxFields, Zenon DEF Init
  <2> QED BY <2>1 DEF TxOK, LockOK, MovedOK, Pinned
<1>4. HistoryOK /\ QueuesOK /\ Recorded
  <2>1. records = {} /\ tx.queue = {} /\ sweepQueue = {} /\ remembered = {}
    BY NoTxFields, Zenon DEF Init
  <2>2. HistoryOK /\ QueuesOK /\ RememberedRecorded /\ RunningNotTerminal
    BY <2>1, Zenon DEF HistoryOK, Wellformed, QueuesOK, Queued, RememberedRecorded,
                       RunningNotTerminal
  <2>3. \A p \in Paths : dir[p] = 0
    BY Zenon DEF Init
  <2>4. GrantsRecorded
    BY <2>3, Zenon DEF GrantsRecorded
  <2> QED BY <2>2, <2>4, Zenon DEF Recorded
<1> QED BY <1>1, <1>2, <1>3, <1>4, Zenon DEF IInv

-----------------------------------------------------------------------------
(* The container's steps.                                                    *)

\* What a step of the world leaves to show.
LEMMA WorldStep ==
    ASSUME IInv, UNCHANGED <<allowed, dryRun, memory, lock, tx, sweepQueue, failures, publishes>>,
           now' \in 0 .. MaxTime, now' >= now,
           TypeOK', WorldOK', TxOK', GrantsRecorded', RunningNotTerminal',
           \A cgroup \in Identity : Live(cgroup)' /\ grants'[cgroup.inode] # {} =>
               Live(cgroup) /\ grants[cgroup.inode] # {}
    PROVE  IInv'
<1>1. LockOK' /\ QueuesOK' /\ RememberedRecorded'
    BY Zenon DEF IInv, memory, LockOK, QueuesOK, Recorded, RememberedRecorded
<1>2. HistoryOK'
  <2>1. \A r \in records : r.startedAt \in Nat /\ r.startedAt <= now'
    BY ConstantsAssumption DEF IInv, TypeOK, LifecycleRecord, HistoryOK, Wellformed
  <2> QED BY <2>1, Zenon DEF IInv, memory, HistoryOK, Wellformed
<1>3. MovedOK'
  <2>1. MovedFrom' = MovedFrom
    BY Zenon DEF MovedFrom, memory
  <2>2. \A r \in MovedFrom : r.cgroup \in Identity
    BY Zenon DEF IInv, TypeOK, MovedFrom, LifecycleRecord, HasIdentity
  <2> SUFFICES ASSUME tx.pc \in {"again", "ready"}, NEW r \in MovedFrom
               PROVE  /\ r.cgroup \notin remembered'
                      /\ Live(r.cgroup)' => grants'[r.cgroup.inode] = {}
    BY <2>1, Zenon DEF IInv, MovedOK
  <2>3. r.cgroup \notin remembered /\ (Live(r.cgroup) => grants[r.cgroup.inode] = {})
    BY Zenon DEF IInv, MovedOK
  <2> QED BY <2>2, <2>3, Zenon DEF memory
<1> QED BY <1>1, <1>2, <1>3, Zenon DEF IInv, Recorded

LEMMA FreshInode ==
    ASSUME TypeOK, WorldOK, nextInode <= MaxInodes
    PROVE  nextInode \in Inodes /\ grants[nextInode] = {}
<1>1. nextInode \in Inodes
    BY ConstantsAssumption DEF TypeOK, Inodes
<1>2. \A p \in Paths : dir[p] # nextInode
    BY DEF TypeOK, WorldOK
<1>3. nextInode \in DOMAIN grants
    BY <1>1, Zenon DEF TypeOK
<1> QED BY <1>1, <1>2, <1>3, Zenon DEF WorldOK

\* A directory is made at path, for a run that goes on or begins: what the other
\* paths name stays.
LEMMA MakesDir ==
    ASSUME TypeOK, WorldOK, GrantsRecorded, nextInode <= MaxInodes,
           NEW path \in Paths, dir[path] = 0, NEW time \in 0 .. MaxTime,
           dir' = [dir EXCEPT ![path] = nextInode],
           inodeRun' = [inodeRun EXCEPT ![nextInode] = time],
           nextInode' = nextInode + 1, UNCHANGED <<grants, records>>
    PROVE  /\ dir' \in [Paths -> 0 .. MaxInodes] /\ nextInode' \in 1 .. MaxInodes + 1
           /\ inodeRun' \in [Inodes -> 0 .. MaxTime]
           /\ \A p \in Paths : dir'[p] < nextInode'
           /\ \A p, q \in Paths : dir'[p] = dir'[q] /\ dir'[p] # 0 => p = q
           /\ dir'[path] = nextInode /\ inodeRun'[nextInode] = time
           /\ \A p \in Paths \ {path} : dir'[p] = dir[p]
           /\ \A i \in Inodes : i # nextInode => inodeRun'[i] = inodeRun[i]
           /\ \A i \in DOMAIN grants : grants[i] # {} => \E p \in Paths : dir'[p] = i
           /\ \A cgroup \in Identity : Live(cgroup)' /\ grants'[cgroup.inode] # {} =>
                Live(cgroup) /\ grants[cgroup.inode] # {}
           /\ GrantsRecorded'
<1>t. /\ dir \in [Paths -> 0 .. MaxInodes] /\ inodeRun \in [Inodes -> 0 .. MaxTime]
      /\ nextInode \in 1 .. MaxInodes + 1
    BY Zenon DEF TypeOK
<1>f. nextInode \in Inodes /\ grants[nextInode] = {}
    BY FreshInode, Zenon
<1>1. /\ dir'[path] = nextInode /\ inodeRun'[nextInode] = time
      /\ \A p \in Paths \ {path} : dir'[p] = dir[p]
      /\ \A i \in Inodes : i # nextInode => inodeRun'[i] = inodeRun[i]
    BY <1>t, <1>f, Zenon
<1>2. nextInode' \in 1 .. MaxInodes + 1 /\ nextInode \in 0 .. MaxInodes
    BY <1>t, <1>f, ConstantsAssumption DEF Inodes
<1>3. dir' \in [Paths -> 0 .. MaxInodes] /\ inodeRun' \in [Inodes -> 0 .. MaxTime]
    BY <1>t, <1>f, <1>2, Zenon
<1>4. \A p \in Paths : dir'[p] < nextInode'
  <2>1. \A p \in Paths : dir[p] < nextInode
    BY Zenon DEF WorldOK
  <2> QED BY <1>1, <1>t, <2>1
<1>8. \A p, q \in Paths : dir'[p] = dir'[q] /\ dir'[p] # 0 => p = q
  <2>1. \A p \in Paths : dir[p] # nextInode
    BY <1>t DEF WorldOK
  <2>2. \A p, q \in Paths : dir[p] = dir[q] /\ dir[p] # 0 => p = q
    BY Zenon DEF WorldOK
  <2> QED BY <1>1, <2>1, <2>2
<1>5. \A i \in DOMAIN grants : grants[i] # {} => \E p \in Paths : dir'[p] = i
  <2> SUFFICES ASSUME NEW i \in DOMAIN grants, grants[i] # {}
               PROVE  \E p \in Paths : dir'[p] = i
    BY Zenon
  <2>1. PICK p \in Paths : dir[p] = i
    BY Zenon DEF WorldOK
  <2>2. 0 \notin DOMAIN grants
    BY ConstantsAssumption DEF TypeOK, Inodes, ForeignInode
  <2> QED BY <1>1, <2>1, <2>2, Zenon
<1>6. \A cgroup \in Identity : Live(cgroup)' /\ grants'[cgroup.inode] # {} =>
        Live(cgroup) /\ grants[cgroup.inode] # {}
    BY <1>1, <1>f, ZenonT(40) DEF Live
<1>7. GrantsRecorded'
  <2> SUFFICES ASSUME NEW p \in Paths, dir'[p] # 0, grants'[dir'[p]] # {}
               PROVE  \E r \in records' : r.cgroup = [path |-> p, inode |-> dir'[p]]
    BY Zenon DEF GrantsRecorded
  <2>1. dir'[p] = dir[p]
    BY <1>1, <1>f, Zenon
  <2> QED BY <2>1, Zenon DEF GrantsRecorded
<1> QED BY <1>1, <1>2, <1>3, <1>4, <1>5, <1>6, <1>7, <1>8, Zenon

LEMMA StartKeeps == IInv /\ Start => IInv'
<1> SUFFICES ASSUME IInv, Start PROVE IInv'
    BY Zenon
<1>i. TypeOK /\ WorldOK /\ TxOK /\ HistoryOK /\ GrantsRecorded
    BY Zenon DEF IInv, Recorded
<1>t. now \in 0 .. MaxTime /\ now < MaxTime
    BY <1>i, Zenon DEF TypeOK, Start
<1>1. now + 1 \in 0 .. MaxTime /\ now + 1 # 0 /\ now <= now + 1
    BY <1>t, ConstantsAssumption
<1>2. /\ now' = now + 1 /\ run' = now + 1 /\ place' = "scope"
      /\ UNCHANGED <<removed, grants, allowed, dryRun, records, nextSeen, remembered, lock,
                     tx, sweepQueue, dies, failures, publishes>>
      /\ \A p \in Paths : dir[p] = 0
    BY Zenon DEF Start, memory
<1>p. "scope" \in Paths
    BY Zenon DEF Paths
<1>3. /\ dir' \in [Paths -> 0 .. MaxInodes] /\ nextInode' \in 1 .. MaxInodes + 1
      /\ inodeRun' \in [Inodes -> 0 .. MaxTime]
      /\ \A p \in Paths : dir'[p] < nextInode'
      /\ \A p, q \in Paths : dir'[p] = dir'[q] /\ dir'[p] # 0 => p = q
      /\ dir'["scope"] = nextInode /\ inodeRun'[nextInode] = now + 1
      /\ \A p \in Paths \ {"scope"} : dir'[p] = dir[p]
      /\ \A i \in Inodes : i # nextInode => inodeRun'[i] = inodeRun[i]
      /\ \A i \in DOMAIN grants : grants[i] # {} => \E p \in Paths : dir'[p] = i
      /\ \A cgroup \in Identity : Live(cgroup)' /\ grants'[cgroup.inode] # {} =>
           Live(cgroup) /\ grants[cgroup.inode] # {}
      /\ GrantsRecorded'
    BY <1>i, <1>1, <1>2, <1>p, MakesDir, Zenon DEF Start
<1>4. TypeOK'
    BY <1>i, <1>1, <1>2, <1>3, <1>p, Zenon DEF TypeOK
<1>n. nextInode' = nextInode + 1 /\ nextInode \in 1 .. MaxInodes + 1
    BY <1>i, Zenon DEF Start, TypeOK
<1>5. WorldOK'
  <2>1. \A i \in Inodes : inodeRun'[i] <= now'
    <3>1. \A i \in Inodes : inodeRun[i] \in 0 .. MaxTime /\ inodeRun[i] <= now
      BY <1>i, Zenon DEF TypeOK, WorldOK
    <3> QED BY <1>t, <1>2, <1>3, <3>1
  <2>2. \A t \in dies : t <= now' /\ t < run'
    <3>1. \A t \in dies : t \in 1 .. MaxTime /\ t <= now
      BY <1>i, Zenon DEF TypeOK, WorldOK
    <3> QED BY <1>t, <1>2, <3>1
  <2>3. run' <= now'
    BY <1>t, <1>2
  <2>4. dir'[place'] # 0 /\ dir'["scope"] # 0
    BY <1>2, <1>3, <1>n
  <2>5. \A p \in Paths : dir'[p] # 0 => inodeRun'[dir'[p]] = run'
    BY <1>2, <1>3, Zenon
  <2> QED BY <1>2, <1>3, <2>1, <2>2, <2>3, <2>4, <2>5, Zenon DEF WorldOK
<1>6. TxOK'
  <2>1. tx.startedAt \in 0 .. MaxTime /\ tx.startedAt <= now
    BY <1>i, Zenon DEF TypeOK, Transaction, TxOK
  <2>2. tx.startedAt <= now' /\ tx.startedAt < run'
    BY <1>t, <1>2, <2>1
  <2>3. run' # tx.startedAt
    BY <1>t, <1>2, <2>1
  <2>4. tx.handle \in Identity /\ tx.handle.inode < nextInode =>
          tx.handle.inode < nextInode' /\ inodeRun'[tx.handle.inode] = inodeRun[tx.handle.inode]
    BY <1>3, <1>n DEF Identity, Inodes
  <2> QED BY <1>i, <1>2, <2>2, <2>3, <2>4, Zenon DEF TxOK
<1>7. RunningNotTerminal'
  <2>1. \A r \in records : r.startedAt \in 0 .. MaxTime /\ r.startedAt <= now
    BY <1>i, Zenon DEF TypeOK, LifecycleRecord, HistoryOK, Wellformed
  <2>2. \A r \in records : r.startedAt # run'
    BY <1>t, <1>2, <2>1
  <2> QED BY <1>2, <2>2, Zenon DEF RunningNotTerminal
<1> QED BY <1>1, <1>2, <1>3, <1>4, <1>5, <1>6, <1>7, <1>t, WorldStep, Zenon DEF memory

LEMMA MoveKeeps == IInv /\ Move => IInv'
<1> SUFFICES ASSUME IInv, Move PROVE IInv'
    BY Zenon
<1>i. TypeOK /\ WorldOK /\ TxOK /\ GrantsRecorded /\ RunningNotTerminal
    BY Zenon DEF IInv, Recorded
<1>t. now \in 0 .. MaxTime /\ run \in 0 .. MaxTime /\ nextInode \in 1 .. MaxInodes + 1
    BY <1>i, Zenon DEF TypeOK
<1>p. "scope" \in Paths /\ "child" \in Paths
    BY Zenon DEF Paths
<1>1. /\ run # NotRunning
      /\ UNCHANGED <<now, run, removed, grants, allowed, dryRun, records, nextSeen, remembered,
                     lock, tx, sweepQueue, dies, failures, publishes>>
    BY Zenon DEF Move, memory
<1>2. RunningNotTerminal'
    BY <1>i, <1>1, Zenon DEF RunningNotTerminal
<1>3. now' \in 0 .. MaxTime /\ now' >= now
    BY <1>t, <1>1
<1>4. CASE /\ dir["child"] = 0 /\ nextInode <= MaxInodes
           /\ dir' = [dir EXCEPT !["child"] = nextInode]
           /\ inodeRun' = [inodeRun EXCEPT ![nextInode] = run]
           /\ nextInode' = nextInode + 1 /\ place' = "child"
  <2>1. /\ dir' \in [Paths -> 0 .. MaxInodes] /\ nextInode' \in 1 .. MaxInodes + 1
        /\ inodeRun' \in [Inodes -> 0 .. MaxTime]
        /\ \A p \in Paths : dir'[p] < nextInode'
        /\ \A p, q \in Paths : dir'[p] = dir'[q] /\ dir'[p] # 0 => p = q
        /\ dir'["child"] = nextInode /\ inodeRun'[nextInode] = run
        /\ \A p \in Paths \ {"child"} : dir'[p] = dir[p]
        /\ \A i \in Inodes : i # nextInode => inodeRun'[i] = inodeRun[i]
        /\ \A i \in DOMAIN grants : grants[i] # {} => \E p \in Paths : dir'[p] = i
        /\ \A cgroup \in Identity : Live(cgroup)' /\ grants'[cgroup.inode] # {} =>
             Live(cgroup) /\ grants[cgroup.inode] # {}
        /\ GrantsRecorded'
    BY <1>i, <1>1, <1>4, <1>p, <1>t, MakesDir, Zenon
  <2>2. TypeOK'
    BY <1>i, <1>1, <1>4, <1>p, <2>1, Zenon DEF TypeOK
  <2>3. WorldOK'
    <3>1. \A i \in Inodes : inodeRun'[i] <= now'
      BY <1>i, <1>1, <2>1, Zenon DEF WorldOK
    <3>2. dir'[place'] # 0 /\ dir'["scope"] # 0
      <4>1. nextInode # 0
        BY <1>t
      <4> QED BY <1>i, <1>1, <1>4, <1>p, <2>1, <4>1, Zenon DEF WorldOK
    <3>3. \A p \in Paths : dir'[p] # 0 => inodeRun'[dir'[p]] = run'
      <4> SUFFICES ASSUME NEW p \in Paths \ {"child"}, dir'[p] # 0
                   PROVE  inodeRun'[dir'[p]] = run'
        BY <1>1, <2>1, Zenon
      <4>1. dir'[p] = dir[p] /\ dir[p] \in 0 .. MaxInodes /\ dir[p] < nextInode /\ p \in Paths
        BY <1>i, <2>1, Zenon DEF TypeOK, WorldOK
      <4>2. dir[p] \in Inodes /\ dir[p] # nextInode
        BY <1>t, <4>1, ConstantsAssumption DEF Inodes
      <4>3. inodeRun[dir[p]] = run
        BY <1>i, <1>1, <4>1, Zenon DEF WorldOK
      <4> QED BY <1>1, <2>1, <4>1, <4>2, <4>3, Zenon
    <3> QED BY <1>i, <1>1, <2>1, <3>1, <3>2, <3>3, Zenon DEF WorldOK
  <2>4. TxOK'
    <3>1. tx.handle \in Identity /\ tx.handle.inode < nextInode =>
            tx.handle.inode < nextInode' /\ inodeRun'[tx.handle.inode] = inodeRun[tx.handle.inode]
      BY <1>4, <1>t, <2>1 DEF Identity, Inodes
    <3> QED BY <1>i, <1>1, <3>1, Zenon DEF TxOK
  <2> QED BY <1>1, <1>2, <1>3, <2>1, <2>2, <2>3, <2>4, WorldStep, Zenon DEF memory
<1>5. CASE place' \in Paths /\ dir[place'] # 0 /\ UNCHANGED <<dir, inodeRun, nextInode>>
  <2>1. TypeOK' /\ TxOK' /\ GrantsRecorded'
    BY <1>i, <1>1, <1>5, Zenon DEF TypeOK, TxOK, GrantsRecorded
  <2>2. WorldOK'
    BY <1>i, <1>1, <1>5, Zenon DEF WorldOK
  <2>3. \A cgroup \in Identity : Live(cgroup)' /\ grants'[cgroup.inode] # {} =>
             Live(cgroup) /\ grants[cgroup.inode] # {}
    BY <1>1, <1>5, Zenon DEF Live
  <2> QED BY <1>1, <1>2, <1>3, <2>1, <2>2, <2>3, WorldStep, Zenon DEF memory
<1>6. dir["scope"] # 0
    BY <1>i, <1>1, Zenon DEF WorldOK
<1> QED BY <1>4, <1>5, <1>6, <1>p, Zenon DEF Move

LEMMA ExitKeeps == IInv /\ Exit => IInv'
<1> SUFFICES ASSUME IInv, Exit PROVE IInv'
    BY Zenon
<1>i. TypeOK /\ WorldOK /\ TxOK /\ GrantsRecorded
    BY Zenon DEF IInv, Recorded
<1>t. now \in 0 .. MaxTime /\ now < MaxTime
    BY <1>i, Zenon DEF TypeOK, Exit
<1>1. now + 1 \in 0 .. MaxTime /\ now + 1 \in 1 .. MaxTime /\ now <= now + 1 /\ 0 <= now + 1
    BY <1>t, ConstantsAssumption
<1>2. /\ now' = now + 1 /\ run' = NotRunning /\ dies' = dies \cup {now + 1}
      /\ UNCHANGED <<place, dir, nextInode, inodeRun, removed, grants, allowed, dryRun, records,
                     nextSeen, remembered, lock, tx, sweepQueue, failures, publishes>>
    BY Zenon DEF Exit, memory
<1>0. NotRunning \in 0 .. MaxTime /\ NotRunning = 0
    BY ConstantsAssumption DEF NotRunning
<1>3. TypeOK'
    BY <1>i, <1>0, <1>1, <1>2, Zenon DEF TypeOK
<1>4. WorldOK'
  <2>1. \A i \in Inodes : inodeRun'[i] <= now'
    <3>1. \A i \in Inodes : inodeRun[i] \in 0 .. MaxTime /\ inodeRun[i] <= now
      BY <1>i, Zenon DEF TypeOK, WorldOK
    <3> QED BY <1>t, <1>2, <3>1
  <2>2. \A t \in dies' : t <= now'
    <3>1. \A t \in dies : t \in 1 .. MaxTime /\ t <= now
      BY <1>i, Zenon DEF TypeOK, WorldOK
    <3> QED BY <1>t, <1>2, <3>1
  <2>3. run' <= now'
    BY <1>0, <1>1, <1>2, Zenon
  <2> QED BY <1>i, <1>2, <2>1, <2>2, <2>3, Zenon DEF WorldOK
<1>5. TxOK'
  <2>1. tx.startedAt \in 0 .. MaxTime /\ tx.startedAt <= now
    BY <1>i, Zenon DEF TypeOK, Transaction, TxOK
  <2>2. tx.startedAt <= now'
    BY <1>t, <1>2, <2>1
  <2>3. tx.pc \in Pinned => run' # tx.startedAt
    BY <1>i, <1>2, Zenon DEF TxOK, Unknown, NotRunning
  <2> QED BY <1>i, <1>2, <2>2, <2>3, Zenon DEF TxOK
<1>6. GrantsRecorded' /\ RunningNotTerminal'
    BY <1>i, <1>2, Zenon DEF GrantsRecorded, RunningNotTerminal
<1>7. \A cgroup \in Identity : Live(cgroup)' /\ grants'[cgroup.inode] # {} =>
             Live(cgroup) /\ grants[cgroup.inode] # {}
    BY <1>2, Zenon DEF Live
<1>8. now' \in 0 .. MaxTime /\ now' >= now
    BY <1>t, <1>1, <1>2, Zenon
<1> QED BY <1>2, <1>3, <1>4, <1>5, <1>6, <1>7, <1>8, WorldStep, Zenon DEF memory

LEMMA RemoveDirKeeps == ASSUME IInv, NEW path \in Paths, RemoveDir(path) PROVE IInv'
<1>i. TypeOK /\ WorldOK /\ TxOK /\ GrantsRecorded /\ RunningNotTerminal
    BY Zenon DEF IInv, Recorded
<1>t. /\ now \in 0 .. MaxTime /\ dir \in [Paths -> 0 .. MaxInodes]
      /\ grants \in [Inodes \cup {ForeignInode} -> SUBSET Devices]
    BY <1>i, Zenon DEF TypeOK
<1>1. /\ run = NotRunning /\ dir[path] # 0
      /\ grants' = [grants EXCEPT ![dir[path]] = {}] /\ dir' = [dir EXCEPT ![path] = 0]
      /\ UNCHANGED <<now, run, place, nextInode, inodeRun, removed, allowed, dryRun, records,
                     nextSeen, remembered, lock, tx, sweepQueue, dies, failures, publishes>>
    BY Zenon DEF RemoveDir, memory
<1>2. dir[path] \in Inodes /\ 0 \in 0 .. MaxInodes /\ 0 \notin Inodes
    BY <1>t, <1>1, ConstantsAssumption DEF Inodes
<1>3. /\ dir'[path] = 0 /\ \A p \in Paths \ {path} : dir'[p] = dir[p]
      /\ DOMAIN grants' = DOMAIN grants
      /\ \A i \in DOMAIN grants : grants'[i] = IF i = dir[path] THEN {} ELSE grants[i]
    BY <1>t, <1>1, <1>2, Zenon
<1>4. /\ dir' \in [Paths -> 0 .. MaxInodes]
      /\ grants' \in [Inodes \cup {ForeignInode} -> SUBSET Devices]
    BY <1>t, <1>1, <1>2, Zenon
<1>5. TypeOK'
    BY <1>i, <1>1, <1>4, Zenon DEF TypeOK
<1>6. WorldOK'
  <2>1. \A p \in Paths : dir'[p] < nextInode'
    <3>1. nextInode \in 1 .. MaxInodes + 1
      BY <1>i, Zenon DEF TypeOK
    <3>2. 0 < nextInode
      BY <3>1
    <3>3. \A p \in Paths : dir[p] < nextInode
      BY <1>i, Zenon DEF WorldOK
    <3> QED BY <1>1, <1>3, <3>2, <3>3
  <2>3. \A p, q \in Paths : dir'[p] = dir'[q] /\ dir'[p] # 0 => p = q
    <3>1. \A p, q \in Paths : dir[p] = dir[q] /\ dir[p] # 0 => p = q
      BY <1>i, Zenon DEF WorldOK
    <3> QED BY <1>3, <3>1, Zenon
  <2>2. ASSUME NEW i \in DOMAIN grants', grants'[i] # {}
        PROVE  \E p \in Paths : dir'[p] = i
    <3>1. i # dir[path] /\ grants[i] # {} /\ i \in DOMAIN grants
      BY <1>3, <2>2, Zenon
    <3>2. PICK p \in Paths : dir[p] = i
      BY <1>i, <3>1, Zenon DEF WorldOK
    <3> QED BY <1>3, <3>1, <3>2, Zenon
  <2> QED BY <1>i, <1>1, <2>1, <2>2, <2>3, Zenon DEF WorldOK
<1>7. TxOK'
    BY <1>i, <1>1, Zenon DEF TxOK
<1>8. ASSUME NEW p \in Paths, dir'[p] # 0, grants'[dir'[p]] # {}
      PROVE  dir'[p] = dir[p] /\ grants[dir[p]] # {}
  <2>1. dir'[p] = dir[p]
    BY <1>3, <1>8, Zenon
  <2>2. dir[p] \in DOMAIN grants
    BY <1>8, <1>t, <2>1, ConstantsAssumption DEF Inodes
  <2> QED BY <1>3, <1>8, <2>1, <2>2, Zenon
<1>9. GrantsRecorded'
  <2> SUFFICES ASSUME NEW p \in Paths, dir'[p] # 0, grants'[dir'[p]] # {}
               PROVE  \E r \in records' : r.cgroup = [path |-> p, inode |-> dir'[p]]
    BY Zenon DEF GrantsRecorded
  <2>1. dir'[p] = dir[p] /\ grants[dir[p]] # {}
    BY <1>8, Zenon
  <2> QED BY <1>i, <1>1, <2>1, Zenon DEF GrantsRecorded
<1>10. RunningNotTerminal'
    BY <1>i, <1>1, Zenon DEF RunningNotTerminal
<1>11. ASSUME NEW cgroup \in Identity, Live(cgroup)', grants'[cgroup.inode] # {}
       PROVE  Live(cgroup) /\ grants[cgroup.inode] # {}
  <2>1. cgroup.path \in Paths /\ cgroup.inode \in Inodes /\ dir'[cgroup.path] = cgroup.inode
    BY <1>11, Zenon DEF Identity, Live
  <2>2. dir'[cgroup.path] # 0
    BY <1>2, <2>1, Zenon
  <2>3. dir[cgroup.path] = cgroup.inode /\ grants[cgroup.inode] # {}
    BY <1>8, <1>11, <2>1, <2>2
  <2> QED BY <2>1, <2>3, Zenon DEF Live
<1>12. now' \in 0 .. MaxTime /\ now' >= now
    BY <1>t, <1>1
<1> QED BY <1>1, <1>5, <1>6, <1>7, <1>9, <1>10, <1>11, <1>12, WorldStep, Zenon DEF memory

LEMMA RemoveContainerKeeps == IInv /\ RemoveContainer => IInv'
<1> SUFFICES ASSUME IInv, RemoveContainer PROVE IInv'
    BY Zenon
<1>1. /\ removed' = TRUE
      /\ UNCHANGED <<now, run, place, dir, nextInode, inodeRun, grants, allowed, dryRun, records,
                     nextSeen, remembered, lock, tx, sweepQueue, dies, failures, publishes>>
    BY Zenon DEF RemoveContainer, memory
<1>2. TypeOK'
    BY <1>1, Zenon DEF IInv, TypeOK
<1>3. WorldOK' /\ TxOK' /\ LockOK'
    BY <1>1, Zenon DEF IInv, WorldOK, TxOK, LockOK
<1>4. HistoryOK' /\ QueuesOK' /\ Recorded'
    BY <1>1, Zenon DEF IInv, HistoryOK, QueuesOK, Recorded, GrantsRecorded,
        RunningNotTerminal, RememberedRecorded
<1>5. MovedOK'
    BY <1>1, Zenon DEF IInv, MovedOK, MovedFrom, Live
<1> QED BY <1>2, <1>3, <1>4, <1>5, Zenon DEF IInv

LEMMA DaemonReloadKeeps == IInv /\ DaemonReload => IInv'
<1> SUFFICES ASSUME IInv, DaemonReload PROVE IInv'
    BY Zenon
<1>i. TypeOK /\ WorldOK /\ TxOK /\ GrantsRecorded /\ RunningNotTerminal
    BY Zenon DEF IInv, Recorded
<1>1. /\ grants' = [i \in DOMAIN grants |-> {}]
      /\ UNCHANGED <<now, run, place, dir, nextInode, inodeRun, removed, allowed, dryRun, records,
                     nextSeen, remembered, lock, tx, sweepQueue, dies, failures, publishes>>
    BY Zenon DEF DaemonReload, memory, world
<1>2. DOMAIN grants = Inodes \cup {ForeignInode}
    BY <1>i, Zenon DEF TypeOK
<1>3. /\ grants' \in [Inodes \cup {ForeignInode} -> SUBSET Devices]
      /\ \A i \in Inodes \cup {ForeignInode} : grants'[i] = {}
    BY <1>1, <1>2, Zenon
<1>4. TypeOK'
    BY <1>i, <1>1, <1>3, Zenon DEF TypeOK
<1>5. WorldOK' /\ TxOK' /\ RunningNotTerminal'
    BY <1>i, <1>1, <1>2, <1>3, Zenon DEF WorldOK, TxOK, RunningNotTerminal
<1>6. \A p \in Paths : dir[p] # 0 => dir[p] \in Inodes
    BY <1>i, ConstantsAssumption DEF TypeOK, Inodes
<1>7. GrantsRecorded'
    BY <1>1, <1>3, <1>6, Zenon DEF GrantsRecorded
<1>8. \A cgroup \in Identity : grants'[cgroup.inode] = {}
    BY <1>3, Zenon DEF Identity
<1>9. now' \in 0 .. MaxTime /\ now' >= now
    BY <1>i, <1>1 DEF TypeOK
<1> QED BY <1>1, <1>4, <1>5, <1>7, <1>8, <1>9, WorldStep, Zenon DEF memory

-----------------------------------------------------------------------------
(* The steps of a transaction that read the world and change nothing in it.  *)

\* What such a step leaves to show.
LEMMA ReadStep ==
    ASSUME IInv,
           UNCHANGED <<world, grants, allowed, dryRun, memory, sweepQueue, dies, publishes>>,
           tx' \in Transaction, lock' \in {"free", "tx", "sweep"},
           failures' \in 0 .. MaxFailures,
           tx'.queue \subseteq tx.queue, TxOK', LockOK', MovedOK'
    PROVE  IInv'
<1>1. TypeOK'
    BY Zenon DEF IInv, TypeOK, world, memory
<1>2. WorldOK' /\ HistoryOK' /\ Recorded'
    BY Zenon DEF IInv, WorldOK, HistoryOK, Recorded, GrantsRecorded, RunningNotTerminal,
        RememberedRecorded, world, memory
<1>3. QueuesOK'
    BY Zenon DEF IInv, QueuesOK, Queued, memory
<1> QED BY <1>1, <1>2, <1>3, Zenon DEF IInv

\* A transaction that is over relies on nothing.
LEMMA Ends ==
    ASSUME IInv,
           UNCHANGED <<world, grants, allowed, dryRun, memory, sweepQueue, dies, publishes>>,
           tx' = NoTx, failures' \in 0 .. MaxFailures,
           (lock' = "free" /\ lock = "tx") \/ (lock' = lock /\ lock # "tx")
    PROVE  IInv'
<1>1. /\ tx' \in Transaction /\ tx'.pc = "idle" /\ tx'.startedAt = 0 /\ tx'.queue = {}
    BY NoTxType, NoTxFields, Zenon
<1>2. now' \in 0 .. MaxTime
    BY Zenon DEF IInv, TypeOK, world
<1>3. TxOK' /\ MovedOK'
    BY <1>1, <1>2 DEF TxOK, MovedOK, Pinned
<1>4. LockOK'
  <2>1. sweepQueue # {} => lock = "sweep"
    BY Zenon DEF IInv, LockOK
  <2>2. lock' # "tx" /\ (sweepQueue' # {} => lock' = "sweep")
    BY <2>1, Zenon
  <2> QED BY <1>1, <2>2, Zenon DEF LockOK, Pinned
<1>5. lock' \in {"free", "tx", "sweep"}
    BY Zenon DEF IInv, TypeOK
<1> QED BY <1>1, <1>3, <1>4, <1>5, ReadStep, Zenon

\* The lock is the transaction's from the desired set on.
LEMMA Locked ==
    ASSUME IInv, tx.pc \in {"computed", "pinned", "moved", "again", "ready", "revoking"}
    PROVE  lock = "tx" /\ sweepQueue = {}
<1>1. lock = "tx"
    BY Zenon DEF IInv, LockOK, Pinned
<1> QED BY <1>1, Zenon DEF IInv, LockOK

LEMMA Unlocked ==
    ASSUME IInv, tx.pc \in {"idle", "inspected", "stopped", "failed"}
    PROVE  lock # "tx" /\ tx.queue = {}
BY Zenon DEF IInv, LockOK, Pinned

LEMMA Failure == ASSUME IInv, failures < MaxFailures PROVE failures + 1 \in 0 .. MaxFailures
BY ConstantsAssumption DEF IInv, TypeOK

LEMMA EndsKeep == IInv /\ (PinFails \/ VerifyFails \/ RevokedAll) => IInv'
<1> SUFFICES ASSUME IInv, PinFails \/ VerifyFails \/ RevokedAll PROVE IInv'
    BY Zenon
<1>1. tx.pc \in {"computed", "pinned", "again", "revoking"}
    BY Zenon DEF PinFails, VerifyFails, RevokedAll
<1>2. lock = "tx"
    BY <1>1, Locked, Zenon
<1>3. /\ tx' = NoTx /\ lock' = "free"
      /\ UNCHANGED <<world, grants, allowed, dryRun, memory, sweepQueue, dies, publishes>>
    BY Zenon DEF PinFails, VerifyFails, RevokedAll, EndTx
<1>4. failures' = failures \/ (failures < MaxFailures /\ failures' = failures + 1)
    BY Zenon DEF PinFails, VerifyFails, RevokedAll
<1>5. failures' \in 0 .. MaxFailures
    BY <1>4, Failure, Zenon DEF IInv, TypeOK
<1> QED BY <1>2, <1>3, <1>5, Ends, Zenon

LEMMA InspectKeeps == IInv /\ Reconcile => IInv'
<1> SUFFICES ASSUME IInv, Reconcile PROVE IInv'
    BY Zenon
<1>i. TypeOK /\ WorldOK /\ LockOK
    BY Zenon DEF IInv
<1>0. tx = NoTx
    BY Zenon DEF Reconcile, InspectRunning, InspectStopped, InspectFails
<1>1. lock # "tx"
    BY <1>0, NoTxFields, Unlocked, Zenon
<1>2. /\ UNCHANGED <<world, grants, allowed, dryRun, memory, lock, sweepQueue, dies, publishes>>
      /\ failures' = failures \/ (failures < MaxFailures /\ failures' = failures + 1)
    BY Zenon DEF Reconcile, InspectRunning, InspectStopped, InspectFails
<1>3. failures' \in 0 .. MaxFailures
    BY <1>2, Failure, Zenon DEF IInv, TypeOK
<1>4. /\ tx' \in Transaction /\ tx'.queue = {}
      /\ tx'.pc \in {"inspected", "stopped", "failed"}
      /\ tx'.startedAt <= now
      /\ tx'.pc = "stopped" => run = NotRunning
      /\ tx'.pc = "inspected" => tx'.startedAt # Unknown
  <2>1. CASE InspectRunning
    <3>1. tx' = [NoTx EXCEPT !.pc = "inspected", !.startedAt = run] /\ run # NotRunning
      BY <2>1, Zenon DEF InspectRunning
    <3>2. run \in 0 .. MaxTime /\ run <= now
      BY <1>i, Zenon DEF TypeOK, WorldOK
    <3> QED BY <3>1, <3>2, Zenon DEF NoTx, Transaction, Unknown, NotRunning
  <2>2. CASE InspectStopped
    <3> DEFINE last == IF nextInode = 1 THEN Unknown ELSE inodeRun[nextInode - 1]
    <3>1. tx' = [NoTx EXCEPT !.pc = "stopped", !.startedAt = last] /\ run = NotRunning
      BY <2>2, Zenon DEF InspectStopped
    <3>2. last \in 0 .. MaxTime /\ last <= now
      <4>1. nextInode \in 1 .. MaxInodes + 1 /\ now \in 0 .. MaxTime
        BY <1>i, Zenon DEF TypeOK
      <4>2. nextInode # 1 => nextInode - 1 \in Inodes
        BY <4>1, ConstantsAssumption DEF Inodes
      <4>3. nextInode # 1 => inodeRun[nextInode - 1] \in 0 .. MaxTime
                             /\ inodeRun[nextInode - 1] <= now
        BY <1>i, <4>2, Zenon DEF TypeOK, WorldOK
      <4> QED BY <4>1, <4>3, ConstantsAssumption DEF Unknown
    <3> HIDE DEF last
    <3> QED BY <3>1, <3>2, Zenon DEF NoTx, Transaction
  <2>3. CASE InspectFails
    <3>1. tx' = [NoTx EXCEPT !.pc = "failed"]
      BY <2>3, Zenon DEF InspectFails
    <3>2. now \in 0 .. MaxTime
      BY <1>i, Zenon DEF TypeOK
    <3> QED BY <3>1, <3>2, ConstantsAssumption DEF NoTx, Transaction
  <2> QED BY <2>1, <2>2, <2>3, Zenon DEF Reconcile
<1>5. TxOK' /\ MovedOK'
  <2>1. now' = now /\ run' = run
    BY <1>2, Zenon DEF world
  <2> QED BY <1>4, <2>1, Zenon DEF TxOK, MovedOK, Pinned
<1>6. LockOK'
  <2>1. lock' = lock /\ sweepQueue' = sweepQueue /\ (sweepQueue # {} => lock = "sweep")
    BY <1>i, <1>2, Zenon DEF LockOK
  <2> QED BY <1>1, <1>4, <2>1, Zenon DEF LockOK, Pinned
<1>7. lock' \in {"free", "tx", "sweep"}
    BY <1>i, <1>2, Zenon DEF TypeOK
<1>8. tx'.queue \subseteq tx.queue
    BY <1>4, Zenon
<1> QED BY <1>2, <1>3, <1>4, <1>5, <1>6, <1>7, <1>8, ReadStep, Zenon

LEMMA ComputeKeeps ==
    ASSUME IInv, NEW resolved \in BOOLEAN, ComputeDesired(resolved)
    PROVE  IInv'
<1>i. TypeOK /\ TxOK /\ LockOK
    BY Zenon DEF IInv
<1>1. /\ tx.pc = "inspected" /\ lock = "free"
      /\ UNCHANGED <<world, grants, allowed, dryRun, memory, sweepQueue, dies, failures, publishes>>
    BY Zenon DEF ComputeDesired
<1>2. failures' \in 0 .. MaxFailures
    BY <1>i, <1>1, Zenon DEF TypeOK
<1>3. CASE tx' = NoTx /\ UNCHANGED lock
  <2>1. lock # "tx"
    BY <1>1, Zenon
  <2> QED BY <1>1, <1>2, <1>3, <2>1, Ends, Zenon
<1>4. CASE /\ ~dryRun /\ lock' = "tx"
           /\ tx' = [tx EXCEPT !.pc = "computed", !.rules = IF resolved THEN allowed ELSE {}]
  <2> DEFINE rules == IF resolved THEN allowed ELSE {}
  <2>1. rules \in SUBSET Devices /\ rules \subseteq allowed
    BY <1>i, Zenon DEF TypeOK
  <2>2. tx \in Transaction
    BY <1>i, Zenon DEF TypeOK
  <2> HIDE DEF rules
  <2>3. /\ tx' \in Transaction /\ tx'.pc = "computed" /\ tx'.rules = rules
        /\ tx'.startedAt = tx.startedAt /\ tx'.queue = tx.queue
    BY <1>4, <2>1, <2>2, Zenon DEF Transaction, rules
  <2>4. now' = now /\ run' = run /\ allowed' = allowed /\ dryRun' = dryRun
    BY <1>1, Zenon DEF world
  <2>5. tx.startedAt <= now /\ tx.startedAt # Unknown
    BY <1>i, <1>1, Zenon DEF TxOK, Pinned
  <2>6. TxOK' /\ MovedOK'
    BY <1>4, <2>1, <2>3, <2>4, <2>5, Zenon DEF TxOK, MovedOK, Pinned
  <2>7. tx.queue = {} /\ sweepQueue = {}
    BY <1>i, <1>1, Zenon DEF LockOK
  <2>8. LockOK'
    BY <1>1, <1>4, <2>3, <2>7, Zenon DEF LockOK, Pinned
  <2> QED BY <1>1, <1>2, <1>4, <2>3, <2>6, <2>8, ReadStep, Zenon
<1> QED BY <1>3, <1>4, Zenon DEF ComputeDesired

\* A transaction that goes on under the lock.
LEMMA GoesOn ==
    ASSUME IInv, tx.pc \in Pinned \cup {"computed"}, tx'.pc \in Pinned,
           UNCHANGED <<world, grants, allowed, dryRun, memory, lock, sweepQueue, dies, failures,
                       publishes>>,
           tx' \in Transaction, tx'.startedAt = tx.startedAt, tx'.rules = tx.rules,
           tx'.queue = tx.queue,
           \/ tx'.handle = Foreign /\ tx'.pc = "pinned" /\ run # tx.startedAt
           \/ /\ tx'.handle \in Identity /\ tx'.handle.inode < nextInode
              /\ inodeRun[tx'.handle.inode] = tx.startedAt,
           MovedOK'
    PROVE  IInv'
<1>i. TypeOK /\ TxOK /\ LockOK
    BY Zenon DEF IInv
<1>1. lock = "tx"
    BY <1>i, Zenon DEF LockOK
<1>2. LockOK'
    BY <1>i, <1>1, Zenon DEF LockOK, Pinned
<1>3. /\ tx.startedAt <= now /\ tx.startedAt # Unknown
      /\ tx.rules \subseteq allowed /\ ~dryRun
    BY <1>i, Zenon DEF TxOK
<1>4. UNCHANGED <<now, run, nextInode, inodeRun>>
    BY Zenon DEF world
<1>5. TxOK'
  <2>1. tx'.pc # "stopped"
    BY Zenon DEF Pinned
  <2> QED BY <1>3, <1>4, <2>1, Zenon DEF TxOK
<1>6. lock' \in {"free", "tx", "sweep"} /\ failures' \in 0 .. MaxFailures
    BY <1>i, Zenon DEF TypeOK
<1> QED BY <1>2, <1>5, <1>6, ReadStep, Zenon

LEMMA PinKeeps == IInv /\ PinAndOpen => IInv'
<1> SUFFICES ASSUME IInv, PinAndOpen PROVE IInv'
    BY Zenon
<1>i. TypeOK /\ WorldOK /\ TxOK
    BY Zenon DEF IInv
<1> DEFINE handle == IF run = tx.startedAt THEN [path |-> place, inode |-> dir[place]]
                                           ELSE Foreign
<1>1. /\ tx.pc = "computed" /\ tx' = [tx EXCEPT !.pc = "pinned", !.handle = handle]
      /\ UNCHANGED <<world, grants, allowed, dryRun, memory, lock, sweepQueue, dies, failures,
                     publishes>>
    BY Zenon DEF PinAndOpen
<1>2. tx.startedAt # NotRunning
    BY <1>i, <1>1, Zenon DEF TxOK, Unknown, NotRunning
<1>3. \/ handle = Foreign /\ run # tx.startedAt
      \/ /\ handle \in Identity /\ handle.inode < nextInode
         /\ inodeRun[handle.inode] = tx.startedAt
  <2>1. CASE run = tx.startedAt
    <3>1. place \in Paths /\ dir[place] \in 0 .. MaxInodes
      BY <1>i, Zenon DEF TypeOK
    <3>2. dir[place] < nextInode /\ dir[place] # 0 /\ inodeRun[dir[place]] = run
      BY <1>i, <1>2, <2>1, <3>1, Zenon DEF WorldOK
    <3>3. dir[place] \in Inodes
      BY <3>1, <3>2, ConstantsAssumption DEF Inodes
    <3>4. handle = [path |-> place, inode |-> dir[place]]
      BY <2>1, Zenon
    <3> QED BY <2>1, <3>1, <3>2, <3>3, <3>4, Zenon DEF Identity
  <2>2. CASE run # tx.startedAt
    BY <2>2, Zenon
  <2> QED BY <2>1, <2>2, Zenon
<1>4. tx \in Transaction /\ handle \in Identity \cup {NoIdentity, Foreign}
    BY <1>i, <1>3, Zenon DEF TypeOK
<1> HIDE DEF handle
<1>5. /\ tx' \in Transaction /\ tx'.pc = "pinned" /\ tx'.handle = handle
      /\ tx'.startedAt = tx.startedAt /\ tx'.rules = tx.rules /\ tx'.queue = tx.queue
    BY <1>1, <1>4, Zenon DEF Transaction
<1>6. MovedOK'
    BY <1>5, Zenon DEF MovedOK
<1>7. tx.pc \in Pinned \cup {"computed"} /\ tx'.pc \in Pinned
    BY <1>1, <1>5, Zenon DEF Pinned
<1> QED BY <1>1, <1>3, <1>5, <1>6, <1>7, GoesOn, Zenon

LEMMA VerifyKeeps == IInv /\ (VerifyBefore \/ VerifyAgain) => IInv'
<1> SUFFICES ASSUME IInv, VerifyBefore \/ VerifyAgain PROVE IInv'
    BY Zenon
<1>i. TypeOK /\ TxOK /\ MovedOK
    BY Zenon DEF IInv
<1>t. tx \in Transaction
    BY <1>i, Zenon DEF TypeOK
<1> DEFINE pc == IF tx.pc = "pinned" /\ MovedFrom # {} THEN "moved" ELSE "ready"
<1>1. /\ tx.pc \in {"pinned", "again"} /\ run = tx.startedAt
      /\ tx' = [tx EXCEPT !.pc = pc]
      /\ UNCHANGED <<world, grants, allowed, dryRun, memory, lock, sweepQueue, dies, failures,
                     publishes>>
    BY Zenon DEF VerifyBefore, VerifyAgain, VerifyPinned
<1>2. pc \in {"moved", "ready"}
    OBVIOUS
<1> HIDE DEF pc
<1>3. /\ tx' \in Transaction /\ tx'.pc = pc /\ tx'.handle = tx.handle
      /\ tx'.startedAt = tx.startedAt /\ tx'.rules = tx.rules /\ tx'.queue = tx.queue
    BY <1>1, <1>2, <1>t, Zenon DEF Transaction
<1>4. MovedFrom' = MovedFrom
    BY <1>1, <1>3, Zenon DEF MovedFrom, memory
<1>5. MovedOK'
  <2> SUFFICES ASSUME tx'.pc \in {"again", "ready"}, NEW r \in MovedFrom
               PROVE  /\ r.cgroup \notin remembered'
                      /\ Live(r.cgroup)' => grants'[r.cgroup.inode] = {}
    <3>1. tx'.pc = "moved" => MovedFrom' # {}
      BY <1>3, <1>4, Zenon DEF pc
    <3> QED BY <1>4, <3>1, Zenon DEF MovedOK
  <2>1. tx.pc = "again"
    BY <1>1, <1>3 DEF pc
  <2>2. r.cgroup \notin remembered /\ (Live(r.cgroup) => grants[r.cgroup.inode] = {})
    BY <1>i, <2>1, Zenon DEF MovedOK
  <2> QED BY <1>1, <2>2, Zenon DEF Live, memory, world
<1>6. tx.pc \in Pinned \cup {"computed"} /\ tx'.pc \in Pinned
    BY <1>1, <1>2, <1>3, Zenon DEF Pinned
<1>7. /\ tx'.handle \in Identity /\ tx'.handle.inode < nextInode
      /\ inodeRun[tx'.handle.inode] = tx.startedAt
    BY <1>i, <1>1, <1>3, Zenon DEF TxOK, Pinned
<1> QED BY <1>1, <1>3, <1>5, <1>6, <1>7, GoesOn, Zenon

-----------------------------------------------------------------------------
(* The steps of a transaction that change grants.                            *)

\* The one record of the inspected run that names another cgroup.
LEMMA OneMoved ==
    ASSUME IInv, tx.pc \in Pinned
    PROVE  /\ \A r, s \in MovedFrom : r = s
           /\ \A r \in MovedFrom : r \in records /\ r.cgroup \in Identity
<1>1. tx.startedAt # Unknown
    BY Zenon DEF IInv, TxOK
<1>2. \A r \in MovedFrom : r \in records /\ HasIdentity(r) /\ r.startedAt = tx.startedAt
    BY Zenon DEF MovedFrom
<1>3. \A r, s \in MovedFrom : r = s
    BY <1>1, <1>2, Zenon DEF IInv, HistoryOK, Wellformed
<1>4. \A r \in records : HasIdentity(r) => r.cgroup \in Identity
    BY Zenon DEF IInv, TypeOK, LifecycleRecord, HasIdentity
<1> QED BY <1>2, <1>3, <1>4, Zenon

LEMMA RevokeMovedEffect ==
    ASSUME IInv, RevokeMoved
    PROVE  \E r \in MovedFrom :
             /\ r \in records /\ r.cgroup \in Identity /\ \A s \in MovedFrom : s = r
             /\ tx.pc = "moved"
             /\ UNCHANGED <<world, allowed, dryRun, records, nextSeen, sweepQueue, dies, publishes>>
             /\ \/ tx' = NoTx /\ lock' = "free" /\ remembered' = remembered
                \/ /\ tx' = [tx EXCEPT !.pc = "again"] /\ lock' = lock
                   /\ remembered' = Forget(r.cgroup)
                   /\ Live(r.cgroup) => grants'[r.cgroup.inode] = {}
             /\ failures' \in 0 .. MaxFailures
             /\ grants' \in [Inodes \cup {ForeignInode} -> SUBSET Devices]
             /\ \A i \in Inodes \cup {ForeignInode} : grants'[i] \subseteq grants[i]
<1>t. /\ failures \in 0 .. MaxFailures
      /\ grants \in [Inodes \cup {ForeignInode} -> SUBSET Devices]
    BY Zenon DEF IInv, TypeOK
<1>1. /\ tx.pc = "moved"
      /\ UNCHANGED <<world, allowed, dryRun, records, nextSeen, sweepQueue, dies, publishes>>
    BY Zenon DEF RevokeMoved
<1> DEFINE r == CHOOSE r \in MovedFrom : TRUE
<1>2. r \in MovedFrom
    BY <1>1, Zenon DEF IInv, MovedOK
<1>3. r \in records /\ r.cgroup \in Identity /\ \A s \in MovedFrom : s = r
    BY <1>1, <1>2, OneMoved, Zenon DEF Pinned
<1>4. CASE Live(r.cgroup)
  <2>1. PICK outcome \in SetOutcomes(grants[r.cgroup.inode], {}) :
          /\ grants' = [grants EXCEPT ![r.cgroup.inode] = outcome.left]
          /\ failures' = Failing(outcome)
          /\ IF outcome.result = "error"
             THEN EndTx /\ UNCHANGED remembered
             ELSE /\ tx' = [tx EXCEPT !.pc = "again"]
                  /\ remembered' = Forget(r.cgroup)
                  /\ UNCHANGED lock
    BY <1>4, Zenon DEF RevokeMoved
  <2> HIDE DEF r
  <2>2. r.cgroup.inode \in Inodes
    BY <1>3, Zenon DEF Identity
  <2>3. /\ outcome.left \subseteq grants[r.cgroup.inode]
        /\ outcome.result # "error" => outcome.left = {}
        /\ failures' \in 0 .. MaxFailures
    BY <1>t, <2>1, <2>2, NothingAdded
  <2>4. /\ grants' \in [Inodes \cup {ForeignInode} -> SUBSET Devices]
        /\ \A i \in Inodes \cup {ForeignInode} : grants'[i] \subseteq grants[i]
        /\ grants'[r.cgroup.inode] = outcome.left
    BY <1>t, <2>1, <2>2, <2>3, Zenon
  <2>5. \/ tx' = NoTx /\ lock' = "free" /\ remembered' = remembered
        \/ /\ tx' = [tx EXCEPT !.pc = "again"] /\ lock' = lock
           /\ remembered' = Forget(r.cgroup)
           /\ grants'[r.cgroup.inode] = {}
    BY <2>1, <2>3, <2>4, Zenon DEF EndTx
  <2> QED BY <1>1, <1>2, <1>3, <2>3, <2>4, <2>5, Zenon
<1>5. CASE ~Live(r.cgroup)
  <2>1. /\ \/ /\ tx' = [tx EXCEPT !.pc = "again"]
              /\ remembered' = Forget(r.cgroup)
              /\ UNCHANGED <<failures, lock>>
           \/ CannotOpen /\ EndTx /\ UNCHANGED remembered
        /\ UNCHANGED grants
    BY <1>5, Zenon DEF RevokeMoved
  <2> HIDE DEF r
  <2>2. failures' \in 0 .. MaxFailures
    BY <1>t, <2>1, ConstantsAssumption DEF CannotOpen
  <2> QED BY <1>1, <1>2, <1>3, <1>5, <1>t, <2>1, <2>2, Zenon DEF EndTx
<1> QED BY <1>4, <1>5, Zenon

\* A step that only takes grants away.
LEMMA LessGranted ==
    ASSUME IInv, UNCHANGED <<world, records, dies>>,
           grants' \in [Inodes \cup {ForeignInode} -> SUBSET Devices],
           \A i \in Inodes \cup {ForeignInode} : grants'[i] \subseteq grants[i]
    PROVE  WorldOK' /\ GrantsRecorded' /\ RunningNotTerminal'
<1>t. grants \in [Inodes \cup {ForeignInode} -> SUBSET Devices]
    BY Zenon DEF IInv, TypeOK
<1>w. UNCHANGED <<now, run, place, dir, nextInode, inodeRun>>
    BY Zenon DEF world
<1>1. \A i \in Inodes \cup {ForeignInode} : grants'[i] # {} => grants[i] # {}
    BY Zenon
<1>2. WorldOK'
  <2>1. DOMAIN grants' = DOMAIN grants /\ DOMAIN grants = Inodes \cup {ForeignInode}
    BY <1>t, Zenon
  <2> QED BY <1>1, <1>w, <2>1, Zenon DEF IInv, WorldOK
<1>3. GrantsRecorded'
  <2>1. \A p \in Paths : dir[p] # 0 => dir[p] \in Inodes
    BY ConstantsAssumption DEF IInv, TypeOK, Inodes
  <2> SUFFICES ASSUME NEW p \in Paths, dir[p] # 0, grants'[dir[p]] # {}
               PROVE  \E r \in records : r.cgroup = [path |-> p, inode |-> dir[p]]
    BY <1>w, Zenon DEF GrantsRecorded
  <2>2. grants[dir[p]] # {}
    BY <1>1, <2>1, Zenon
  <2> QED BY <2>2, Zenon DEF IInv, Recorded, GrantsRecorded
<1>4. RunningNotTerminal'
    BY <1>w, Zenon DEF IInv, Recorded, RunningNotTerminal
<1> QED BY <1>2, <1>3, <1>4, Zenon

LEMMA RevokeMovedKeeps == IInv /\ RevokeMoved => IInv'
<1> SUFFICES ASSUME IInv, RevokeMoved PROVE IInv'
    BY Zenon
<1>i. TypeOK /\ TxOK /\ LockOK /\ HistoryOK /\ QueuesOK /\ RememberedRecorded
    BY Zenon DEF IInv, Recorded
<1>t. tx \in Transaction /\ remembered \subseteq Identity /\ now \in 0 .. MaxTime
    BY <1>i, Zenon DEF TypeOK
<1>1. PICK r \in MovedFrom :
             /\ r \in records /\ r.cgroup \in Identity /\ \A s \in MovedFrom : s = r
             /\ tx.pc = "moved"
             /\ UNCHANGED <<world, allowed, dryRun, records, nextSeen, sweepQueue, dies, publishes>>
             /\ \/ tx' = NoTx /\ lock' = "free" /\ remembered' = remembered
                \/ /\ tx' = [tx EXCEPT !.pc = "again"] /\ lock' = lock
                   /\ remembered' = Forget(r.cgroup)
                   /\ Live(r.cgroup) => grants'[r.cgroup.inode] = {}
             /\ failures' \in 0 .. MaxFailures
             /\ grants' \in [Inodes \cup {ForeignInode} -> SUBSET Devices]
             /\ \A i \in Inodes \cup {ForeignInode} : grants'[i] \subseteq grants[i]
    BY RevokeMovedEffect, Zenon
<1>2. lock = "tx" /\ sweepQueue = {} /\ tx.queue = {}
    BY <1>i, <1>1, Locked, Zenon DEF LockOK
<1>3. WorldOK' /\ GrantsRecorded' /\ RunningNotTerminal'
    BY <1>1, LessGranted, Zenon
<1>4. remembered' \subseteq remembered
    BY <1>1, Zenon DEF Forget
<1>5. HistoryOK' /\ RememberedRecorded'
    BY <1>i, <1>1, <1>4, Zenon DEF HistoryOK, RememberedRecorded, world
<1>6. CASE tx' = NoTx /\ lock' = "free"
  <2>1. tx' \in Transaction /\ tx'.pc = "idle" /\ tx'.startedAt = 0 /\ tx'.queue = {}
    BY <1>6, NoTxType, NoTxFields, Zenon
  <2>2. TxOK' /\ MovedOK' /\ LockOK'
    <3>1. now' = now /\ sweepQueue' = {}
      BY <1>1, <1>2, Zenon DEF world
    <3> QED BY <1>6, <1>t, <2>1, <3>1 DEF TxOK, MovedOK, LockOK, Pinned
  <2>3. QueuesOK'
    BY <1>i, <1>1, <2>1, Zenon DEF QueuesOK, Queued
  <2>4. TypeOK'
    BY <1>i, <1>1, <1>4, <1>6, <2>1, Zenon DEF TypeOK, world
  <2> QED BY <1>3, <1>5, <2>2, <2>3, <2>4, Zenon DEF IInv, Recorded
<1>7. CASE /\ tx' = [tx EXCEPT !.pc = "again"] /\ lock' = lock
           /\ remembered' = Forget(r.cgroup) /\ (Live(r.cgroup) => grants'[r.cgroup.inode] = {})
  <2>1. /\ tx' \in Transaction /\ tx'.pc = "again" /\ tx'.handle = tx.handle
        /\ tx'.startedAt = tx.startedAt /\ tx'.rules = tx.rules /\ tx'.queue = tx.queue
    BY <1>7, <1>t, Zenon DEF Transaction
  <2>w. UNCHANGED <<now, run, dir, nextInode, inodeRun, allowed, dryRun, records, sweepQueue>>
    BY <1>1, Zenon DEF world
  <2>2. TxOK'
    <3>1. /\ tx.startedAt <= now /\ tx.startedAt # Unknown
          /\ tx.rules \subseteq allowed /\ ~dryRun
          /\ tx.handle \in Identity /\ tx.handle.inode < nextInode
          /\ inodeRun[tx.handle.inode] = tx.startedAt
      BY <1>i, <1>1, Zenon DEF TxOK, Pinned
    <3>2. tx'.pc # "stopped"
      BY <2>1, Zenon
    <3> QED BY <2>1, <2>w, <3>1, <3>2, Zenon DEF TxOK
  <2>3. LockOK'
    BY <1>2, <1>7, <2>1, <2>w, Zenon DEF LockOK, Pinned
  <2>4. MovedOK'
    <3>1. MovedFrom' = MovedFrom
      BY <2>1, <2>w, Zenon DEF MovedFrom
    <3>2. r.cgroup \notin remembered'
      BY <1>7, Zenon DEF Forget
    <3>3. Live(r.cgroup)' = Live(r.cgroup)
      BY <2>w, Zenon DEF Live
    <3>4. \A s \in MovedFrom' : s.cgroup \notin remembered'
                             /\ (Live(s.cgroup)' => grants'[s.cgroup.inode] = {})
      BY <1>1, <1>7, <3>1, <3>2, <3>3, Zenon
    <3>5. tx'.pc # "moved"
      BY <2>1, Zenon
    <3> QED BY <3>4, <3>5, Zenon DEF MovedOK
  <2>5. QueuesOK'
    BY <1>i, <2>1, <2>w, Zenon DEF QueuesOK
  <2>6. TypeOK'
    BY <1>i, <1>1, <1>4, <1>7, <2>1, Zenon DEF TypeOK, world
  <2> QED BY <1>3, <1>5, <2>2, <2>3, <2>4, <2>5, <2>6, Zenon DEF IInv, Recorded
<1> QED BY <1>1, <1>6, <1>7, Zenon

\* The transaction is over.
LEMMA TxOver ==
    ASSUME now' \in 0 .. MaxTime, tx' = NoTx, lock' # "tx", sweepQueue' # {} => lock' = "sweep"
    PROVE  tx' \in Transaction /\ tx'.queue = {} /\ TxOK' /\ LockOK' /\ MovedOK'
<1>1. tx' \in Transaction /\ tx'.pc = "idle" /\ tx'.startedAt = 0 /\ tx'.queue = {}
    BY NoTxType, NoTxFields, Zenon
<1> QED BY <1>1 DEF TxOK, LockOK, MovedOK, Pinned

LEMMA ApplyEffect ==
    ASSUME IInv, ApplyPinned
    PROVE  /\ tx.pc = "ready" /\ tx.handle \in Identity /\ tx.handle.inode \in Inodes
           /\ tx.startedAt \in 0 .. MaxTime /\ tx.startedAt # Unknown
           /\ inodeRun[tx.handle.inode] = tx.startedAt
           /\ tx.rules \subseteq allowed /\ ~dryRun
           /\ failures' \in 0 .. MaxFailures
           /\ grants' \in [Inodes \cup {ForeignInode} -> SUBSET Devices]
           /\ \A i \in Inodes \cup {ForeignInode} :
                grants'[i] # grants[i] =>
                    /\ i = tx.handle.inode /\ Live(tx.handle)
                    /\ grants'[i] \subseteq grants[i] \cup tx.rules
<1>t. /\ failures \in 0 .. MaxFailures /\ tx.startedAt \in 0 .. MaxTime
      /\ tx.rules \in SUBSET Devices
      /\ grants \in [Inodes \cup {ForeignInode} -> SUBSET Devices]
    BY Zenon DEF IInv, TypeOK, Transaction
<1>1. tx.pc = "ready"
    BY Zenon DEF ApplyPinned
<1>2. /\ tx.handle \in Identity /\ tx.startedAt # Unknown
      /\ inodeRun[tx.handle.inode] = tx.startedAt
      /\ tx.rules \subseteq allowed /\ ~dryRun
    BY <1>1, Zenon DEF IInv, TxOK, Pinned
<1>3. tx.handle.inode \in Inodes /\ tx.handle # Foreign
    BY <1>2 DEF Identity, Foreign, Paths
<1>4. CASE ~Live(tx.handle)
  <2>1. grants' = grants /\ failures' = failures
    BY <1>3, <1>4, Zenon DEF ApplyPinned
  <2> QED BY <1>1, <1>2, <1>3, <1>t, <2>1, Zenon
<1>5. CASE Live(tx.handle)
  <2>1. PICK outcome \in SetOutcomes(grants[tx.handle.inode], tx.rules) :
          /\ grants' = [grants EXCEPT ![tx.handle.inode] = outcome.left]
          /\ failures' = Failing(outcome)
    BY <1>5, Zenon DEF ApplyPinned
  <2>2. failures \in 0 .. MaxFailures
    BY <1>t, Zenon
  <2>a. /\ outcome.left \subseteq grants[tx.handle.inode] \cup tx.rules
        /\ Failing(outcome) \in 0 .. MaxFailures
    BY <2>1, <2>2, OnlyAskedFor, SMT
  <2>3. /\ outcome.left \subseteq grants[tx.handle.inode] \cup tx.rules
        /\ failures' \in 0 .. MaxFailures
    BY <2>1, <2>a, Zenon
  <2>4. outcome.left \in SUBSET Devices
    BY <1>t, <1>3, <2>3, Zenon
  <2>5. grants' \in [Inodes \cup {ForeignInode} -> SUBSET Devices]
    BY <1>t, <1>3, <2>1, <2>4, Zenon
  <2>6. \A i \in Inodes \cup {ForeignInode} :
                grants'[i] # grants[i] =>
                    /\ i = tx.handle.inode /\ Live(tx.handle)
                    /\ grants'[i] \subseteq grants[i] \cup tx.rules
    BY <1>t, <1>3, <1>5, <2>1, <2>3, Zenon
  <2> QED BY <1>1, <1>2, <1>3, <1>t, <2>3, <2>5, <2>6, Zenon
<1> QED BY <1>4, <1>5, Zenon

LEMMA ApplyKeeps == IInv /\ ApplyPinned => IInv'
<1> SUFFICES ASSUME IInv, ApplyPinned PROVE IInv'
    BY Zenon
<1>i. /\ TypeOK /\ WorldOK /\ HistoryOK /\ MovedOK
      /\ GrantsRecorded /\ RunningNotTerminal /\ RememberedRecorded
    BY Zenon DEF IInv, Recorded
<1>t. /\ records \subseteq LifecycleRecord /\ nextSeen \in Nat /\ remembered \subseteq Identity
      /\ now \in 0 .. MaxTime
    BY <1>i, Zenon DEF TypeOK
<1> DEFINE h == tx.handle
           st == tx.startedAt
<1>e. /\ tx.pc = "ready" /\ h \in Identity /\ h.inode \in Inodes
      /\ st \in 0 .. MaxTime /\ st # Unknown
      /\ failures' \in 0 .. MaxFailures
      /\ grants' \in [Inodes \cup {ForeignInode} -> SUBSET Devices]
      /\ \A i \in Inodes \cup {ForeignInode} : grants'[i] # grants[i] => i = h.inode /\ Live(h)
    BY ApplyEffect, Zenon
<1>1. /\ records' = Verify(st, h) /\ nextSeen' = NextSeen(records')
      /\ remembered' = remembered \cup {h} /\ tx' = NoTx /\ lock' = "free"
      /\ UNCHANGED <<now, run, place, dir, nextInode, inodeRun, removed, allowed, dryRun,
                     sweepQueue, dies, publishes>>
    BY Zenon DEF ApplyPinned, EndTx, world
<1>2. sweepQueue = {}
    BY <1>e, Locked, Zenon
<1>3. PICK old \in SUBSET records, new \in LifecycleRecord :
             /\ new \in records'
             /\ new.startedAt = st /\ new.cgroup = h
             /\ new.state # "provisional"
             /\ records' \subseteq (records \ old) \cup {new}
             /\ \A r \in records \ old : HasIdentity(r) => r \in records'
             /\ \A r \in records : r.startedAt = st /\ st # Unknown => r \in old
             /\ \A r \in old : /\ r.startedAt = st \/ r.state = "provisional"
                               /\ r.firstSeen = new.firstSeen
                               /\ new.state = "terminal" => r.state = "terminal"
             /\ old = {} => new.firstSeen = nextSeen /\ new.state # "terminal"
  <2>1. records' = Verify(st, h) /\ st \in 0 .. MaxTime /\ h \in Identity
    BY <1>e, <1>1, Zenon
  <2> HIDE DEF h, st
  <2> QED BY <1>i, <1>t, <2>1, VerifyChanges, SMTT(30)
<1>4. tx' \in Transaction /\ tx'.queue = {} /\ TxOK' /\ LockOK' /\ MovedOK'
  <2>1. lock' # "tx" /\ now' \in 0 .. MaxTime /\ sweepQueue' = {}
    BY <1>1, <1>2, <1>t, Zenon
  <2> QED BY <1>1, <2>1, TxOver, Zenon
<1>5. QueuesOK'
    BY <1>1, <1>2, <1>4, Zenon DEF QueuesOK, Queued
<1> HIDE DEF h, st
\* A record with an identity that verify replaces names the opened cgroup, or one
\* that is clean.
<1>6. ASSUME NEW r \in records, r.cgroup \in Identity, r.cgroup # h
      PROVE  \/ r \in records'
             \/ r.cgroup \notin remembered /\ (Live(r.cgroup) => grants[r.cgroup.inode] = {})
  <2>1. HasIdentity(r)
    BY <1>6 DEF Identity, HasIdentity, NoIdentity, Paths
  <2>2. r.state # "provisional"
    BY <1>i, <2>1, Zenon DEF HistoryOK, Wellformed
  <2>3. r \in old => r.startedAt = st
    BY <1>3, <2>2, Zenon
  <2>4. r \in old => r \in MovedFrom
    BY <1>6, <2>1, <2>3, Zenon DEF MovedFrom, h, st
  <2>5. r \in old => r.cgroup \notin remembered
                     /\ (Live(r.cgroup) => grants[r.cgroup.inode] = {})
    BY <1>i, <1>e, <2>4, Zenon DEF MovedOK
  <2> QED BY <1>3, <2>1, <2>5, Zenon
<1>7. RememberedRecorded'
  <2> SUFFICES ASSUME NEW id \in remembered, id # h
               PROVE  \E r \in records' : r.cgroup = id
    BY <1>1, <1>3, Zenon DEF RememberedRecorded
  <2>1. PICK r \in records : r.cgroup = id
    BY <1>i, Zenon DEF RememberedRecorded
  <2> QED BY <1>6, <1>t, <2>1, Zenon
<1>8. GrantsRecorded'
  <2> SUFFICES ASSUME NEW p \in Paths, dir[p] # 0, grants'[dir[p]] # {},
                      [path |-> p, inode |-> dir[p]] # h
               PROVE  \E r \in records' : r.cgroup = [path |-> p, inode |-> dir[p]]
    BY <1>1, <1>3, Zenon DEF GrantsRecorded
  <2>1. dir[p] \in Inodes
    BY <1>i, ConstantsAssumption DEF TypeOK, Inodes
  <2> DEFINE id == [path |-> p, inode |-> dir[p]]
  <2>2. id \in Identity /\ id.path = p /\ id.inode = dir[p] /\ Live(id)
    BY <2>1, Zenon DEF Identity, Live
  <2>3. ~(dir[p] = h.inode /\ Live(h))
    <3>1. SUFFICES ASSUME dir[p] = h.inode, Live(h) PROVE id = h
      BY Zenon
    <3>2. h.path = p
      BY <1>i, <3>1, Zenon DEF Live, WorldOK
    <3> QED BY <1>e, <3>1, <3>2, Zenon DEF Identity
  <2>4. grants[dir[p]] # {}
    BY <1>e, <2>1, <2>3, Zenon
  <2>5. PICK r \in records : r.cgroup = id
    BY <1>i, <2>4, Zenon DEF GrantsRecorded
  <2> HIDE DEF id
  <2> QED BY <1>6, <2>2, <2>4, <2>5, Zenon DEF id
<1>9. RunningNotTerminal'
  <2> SUFFICES ASSUME run # NotRunning, new.startedAt = run, new.state = "terminal"
               PROVE  FALSE
    BY <1>i, <1>1, <1>3, Zenon DEF RunningNotTerminal
  <2>1. PICK r \in old : r.state = "terminal" /\ r.startedAt = st
    BY <1>3, Zenon
  <2> QED BY <1>i, <1>3, <2>1, Zenon DEF RunningNotTerminal
<1>10. WorldOK'
  <2>1. ASSUME NEW i \in DOMAIN grants', grants'[i] # {}
        PROVE  \E p \in Paths : dir'[p] = i
    <3>1. i \in Inodes \cup {ForeignInode} /\ i \in DOMAIN grants
      BY <1>i, <1>e, <2>1, Zenon DEF TypeOK
    <3>2. CASE grants'[i] = grants[i]
      BY <1>i, <1>1, <2>1, <3>1, <3>2, Zenon DEF WorldOK
    <3>3. CASE grants'[i] # grants[i]
      BY <1>e, <1>1, <3>1, <3>3, Zenon DEF Live
    <3> QED BY <3>2, <3>3, Zenon
  <2> QED BY <1>i, <1>1, <2>1, Zenon DEF WorldOK
<1>11. records' \subseteq LifecycleRecord /\ nextSeen' \in Nat
    BY <1>1, <1>3, <1>t DEF NextSeen
<1>12. HistoryOK'
  <2>f. \A r \in records : r.firstSeen \in Nat /\ r.firstSeen < nextSeen
    BY <1>i, <1>t, Zenon DEF LifecycleRecord, HistoryOK, Wellformed
  <2>n. nextSeen' \in Nat /\ nextSeen' >= nextSeen
        /\ \A r \in records' : r.firstSeen = nextSeen => nextSeen' = nextSeen + 1
    BY <1>1, <1>t DEF NextSeen
  <2>1. \A r \in records \ old : r.firstSeen # new.firstSeen
    <3>1. CASE old = {}
      BY <1>3, <2>f, <3>1, <1>t
    <3>2. CASE old # {}
      BY <1>i, <1>3, <3>2, Zenon DEF HistoryOK, Wellformed
    <3> QED BY <3>1, <3>2, Zenon
  <2>2. \A r, s \in records' : r.firstSeen = s.firstSeen => r = s
    BY <1>i, <1>3, <2>1, Zenon DEF HistoryOK, Wellformed
  <2>3. \A r, s \in records' : r.startedAt = s.startedAt /\ r.startedAt # Unknown => r = s
    BY <1>i, <1>3, Zenon DEF HistoryOK, Wellformed
  <2>4. \A r \in records' : r.firstSeen < nextSeen'
    <3>1. \A r \in records : r.firstSeen < nextSeen'
      BY <2>f, <2>n, <1>t
    <3>2. new.firstSeen < nextSeen'
      <4>1. CASE old = {}
        BY <1>3, <2>n, <4>1, <1>t, SMTT(30)
      <4>2. CASE old # {}
        BY <1>3, <3>1, <4>2, Zenon
      <4> QED BY <4>1, <4>2, Zenon
    <3> QED BY <1>3, <3>1, <3>2, Zenon
  <2>5. \A r \in records' : /\ r.startedAt <= now'
                            /\ r.state = "provisional" => r.startedAt = Unknown
                            /\ HasIdentity(r) => r.startedAt # Unknown
    <3>1. st <= now
      BY Zenon DEF IInv, TxOK, st
    <3> QED BY <1>i, <1>e, <1>1, <1>3, <3>1, Zenon DEF HistoryOK, Wellformed
  <2> QED BY <2>2, <2>3, <2>4, <2>5, Zenon DEF HistoryOK, Wellformed
<1>13. TypeOK'
  <2>1. remembered' \subseteq Identity /\ lock' \in {"free", "tx", "sweep"}
    BY <1>1, <1>e, <1>t, Zenon
  <2> QED BY <1>i, <1>e, <1>1, <1>4, <1>11, <2>1, Zenon DEF TypeOK
<1> QED BY <1>4, <1>5, <1>7, <1>8, <1>9, <1>10, <1>12, <1>13, Zenon DEF IInv, Recorded

-----------------------------------------------------------------------------
(* The steps that revoke: ended are the records a step marks terminal first. *)

LEMMA RevokingStep ==
    ASSUME IInv, NEW ended \in SUBSET records, NEW gone, Shrinks(MarkTerminal(ended), gone),
           UNCHANGED <<world, allowed, dryRun, nextSeen, publishes>>, dies' \subseteq dies,
           run # NotRunning => \A r \in ended : r.startedAt # run
    PROVE  /\ WorldOK' /\ HistoryOK' /\ Recorded'
           /\ (/\ tx' \in Transaction /\ sweepQueue' \subseteq LifecycleRecord
               /\ lock' \in {"free", "tx", "sweep"}) => TypeOK'
           /\ \A Q : Queued(Q, records) /\ (\A q \in Q : q.firstSeen # gone)
                        => Queued(Q, records')
<1>i. /\ TypeOK /\ WorldOK /\ HistoryOK
      /\ GrantsRecorded /\ RunningNotTerminal /\ RememberedRecorded
    BY Zenon DEF IInv, Recorded
<1>w. UNCHANGED <<now, run, place, dir, nextInode, inodeRun, removed>>
    BY Zenon DEF world
<1>1. records \subseteq LifecycleRecord
    BY <1>i, Zenon DEF TypeOK
<1>2. /\ \A q \in MarkTerminal(ended) : \E r \in records :
           Match(q, r) /\ (q.state = "terminal" => r.state = "terminal" \/ r \in ended)
      /\ \A r \in records : \E q \in MarkTerminal(ended) : Match(q, r)
    BY <1>i, <1>1, MarkTerminalKeeps, Zenon
<1> DEFINE all == MarkTerminal(ended)
<1>3. SameRuns(records, all)
    BY <1>2, Zenon DEF SameRuns
<1>4. /\ WorldOK' /\ HistoryOK' /\ GrantsRecorded' /\ RememberedRecorded'
      /\ \A Q : Queued(Q, records) /\ (\A q \in Q : q.firstSeen # gone)
                   => Queued(Q, records')
  <2>1. Shrinks(all, gone)
    OBVIOUS
  <2> HIDE DEF all
  <2> QED BY <1>i, <1>w, <1>3, <2>1, ShrinkKeeps, Zenon
<1>5. RunningNotTerminal'
  <2> SUFFICES ASSUME run # NotRunning, NEW q \in records', q.startedAt = run,
                      q.state = "terminal"
               PROVE  FALSE
    BY <1>w, Zenon DEF RunningNotTerminal
  <2>1. PICK s \in all : Match(q, s) /\ q.state = s.state
    BY Zenon DEF Shrinks
  <2>2. PICK r \in records : Match(s, r) /\ (r.state = "terminal" \/ r \in ended)
    BY <1>2, <2>1, Zenon
  <2>3. r.startedAt = run
    BY <2>1, <2>2, Zenon DEF Match
  <2> QED BY <1>i, <2>2, <2>3, Zenon DEF RunningNotTerminal
<1>6. (/\ tx' \in Transaction /\ sweepQueue' \subseteq LifecycleRecord
       /\ lock' \in {"free", "tx", "sweep"}) => TypeOK'
    BY <1>i, <1>w, Zenon DEF TypeOK, Shrinks
<1> QED BY <1>4, <1>5, <1>6, Zenon DEF Recorded

\* No revocation is attempted.
LEMMA NothingRevoked ==
    ASSUME IInv, NEW ended \in SUBSET records, records' = MarkTerminal(ended),
           UNCHANGED <<remembered, grants, failures>>, NEW gone
    PROVE  Shrinks(MarkTerminal(ended), gone)
<1>t. /\ records \subseteq LifecycleRecord /\ failures \in 0 .. MaxFailures
      /\ remembered \subseteq Identity
      /\ grants \in [Inodes \cup {ForeignInode} -> SUBSET Devices] /\ HistoryOK
    BY Zenon DEF IInv, TypeOK
<1>1. /\ MarkTerminal(ended) \subseteq LifecycleRecord
      /\ Wellformed(MarkTerminal(ended), now, nextSeen)
    BY <1>t, MarkTerminalKeeps, Zenon
<1> QED BY <1>t, <1>1, Zenon DEF Shrinks, Match

\* A revocation of a recorded run.
LEMMA RevokedRun ==
    ASSUME IInv, NEW ended \in SUBSET records, NEW record \in LifecycleRecord,
           HasIdentity(record), \E r \in records : Match(record, r),
           RevokeAt(MarkTerminal(ended), record)
    PROVE  Shrinks(MarkTerminal(ended), record.firstSeen)
<1> DEFINE all == MarkTerminal(ended)
<1>t. TypeOK /\ records \subseteq LifecycleRecord /\ HistoryOK
    BY Zenon DEF IInv, TypeOK
<1>1. /\ all \in SUBSET LifecycleRecord
      /\ Wellformed(all, now, nextSeen)
      /\ \A r \in records : \E q \in all : Match(q, r)
    BY <1>t, MarkTerminalKeeps, Zenon
<1>2. RevokeAt(all, record)
    OBVIOUS
<1> HIDE DEF all
<1>3. \E r \in all : Match(record, r)
  <2>1. PICK r \in records : Match(record, r)
    OBVIOUS
  <2>2. PICK q \in all : Match(q, r)
    BY <1>1, Zenon
  <2> QED BY <2>1, <2>2, Zenon DEF Match
<1>4. Shrinks(all, record.firstSeen)
    BY <1>t, <1>1, <1>2, <1>3, RevokeShrinks, Zenon
<1> QED BY <1>4, Zenon DEF all

LEMMA NoneEnded == MarkTerminal({}) = records
BY Zenon DEF MarkTerminal

LEMMA RevokeEndedKeeps == IInv /\ RevokeEnded => IInv'
<1> SUFFICES ASSUME IInv, RevokeEnded PROVE IInv'
    BY Zenon
<1>i. TypeOK /\ TxOK /\ LockOK /\ QueuesOK
    BY Zenon DEF IInv
<1> DEFINE ended == {r \in records : r.startedAt = tx.startedAt /\ HasIdentity(r)}
<1>1. /\ tx.pc = "stopped" /\ lock = "free" /\ tx' = NoTx
      /\ UNCHANGED <<world, allowed, dryRun, nextSeen, lock, sweepQueue, dies, publishes>>
    BY Zenon DEF RevokeEnded
<1>2. sweepQueue = {} /\ lock # "tx"
    BY <1>i, <1>1, Zenon DEF LockOK
<1>3. CASE UNCHANGED <<records, remembered, grants, failures>>
  <2>1. failures' \in 0 .. MaxFailures
    BY <1>i, <1>3, Zenon DEF TypeOK
  <2> QED BY <1>1, <1>2, <1>3, <2>1, Ends, Zenon DEF memory
<1>4. CASE ended # {} /\ RevokeAt(MarkTerminal(ended), CHOOSE r \in ended : TRUE)
  <2>1. PICK r \in ended : RevokeAt(MarkTerminal(ended), r)
    BY <1>4, Zenon
  <2>2. r \in records /\ HasIdentity(r) /\ r \in LifecycleRecord
    BY <1>i, <2>1, Zenon DEF TypeOK
  <2>3. ended \in SUBSET records /\ \A s \in ended : s.startedAt = tx.startedAt
    BY Zenon
  <2> HIDE DEF ended
  <2>4. \E s \in records : Match(r, s)
    BY <2>2, Zenon DEF Match
  <2>5. Shrinks(MarkTerminal(ended), r.firstSeen)
    BY <2>1, <2>2, <2>3, <2>4, RevokedRun, Zenon
  <2>6. run # NotRunning => \A s \in ended : s.startedAt # run
    <3>1. tx.startedAt \in 0 .. MaxTime /\ run \in 0 .. MaxTime
      BY <1>i, Zenon DEF TypeOK, Transaction
    <3>2. run # NotRunning => tx.startedAt < run
      BY <1>i, <1>1, Zenon DEF TxOK
    <3>3. run # NotRunning => tx.startedAt # run
      BY <3>1, <3>2
    <3> QED BY <2>3, <3>3, Zenon
  <2>7. dies' \subseteq dies
    BY <1>1, Zenon
  <2>8. /\ WorldOK' /\ HistoryOK' /\ Recorded'
        /\ (/\ tx' \in Transaction /\ sweepQueue' \subseteq LifecycleRecord
            /\ lock' \in {"free", "tx", "sweep"}) => TypeOK'
    BY <1>1, <2>3, <2>5, <2>6, <2>7, RevokingStep, Zenon
  <2>9. tx' \in Transaction /\ tx'.queue = {} /\ TxOK' /\ LockOK' /\ MovedOK'
    <3>1. now' \in 0 .. MaxTime /\ lock' # "tx" /\ sweepQueue' = {}
      BY <1>i, <1>1, <1>2, Zenon DEF TypeOK, world
    <3> QED BY <1>1, <3>1, TxOver, Zenon
  <2>10. TypeOK'
    <3>1. sweepQueue' \subseteq LifecycleRecord /\ lock' \in {"free", "tx", "sweep"}
      BY <1>i, <1>1, Zenon DEF TypeOK
    <3> QED BY <2>8, <2>9, <3>1, Zenon
  <2>11. QueuesOK'
    BY <1>1, <1>2, <2>9, Zenon DEF QueuesOK, Queued
  <2> QED BY <2>8, <2>9, <2>10, <2>11, Zenon DEF IInv
<1> QED BY <1>3, <1>4, Zenon DEF RevokeEnded

LEMMA RevokeNextKeeps ==
    ASSUME IInv, NEW record \in tx.queue, RevokeNext(record)
    PROVE  IInv'
<1>i. TypeOK /\ TxOK /\ LockOK /\ QueuesOK
    BY Zenon DEF IInv
<1>t. tx \in Transaction /\ tx.queue \subseteq LifecycleRecord /\ record \in LifecycleRecord
    BY <1>i, Zenon DEF TypeOK, Transaction
<1>1. /\ tx.pc = "revoking" /\ tx' = [tx EXCEPT !.queue = @ \ {record}]
      /\ UNCHANGED <<world, allowed, dryRun, nextSeen, lock, sweepQueue, dies, publishes>>
      /\ RevokeAt(records, record)
    BY Zenon DEF RevokeNext
<1>2. lock = "tx" /\ sweepQueue = {}
    BY <1>1, Locked, Zenon
<1>3. Queued(tx.queue, records) /\ HasIdentity(record)
    BY <1>i, Zenon DEF QueuesOK
<1>4. \E r \in records : Match(record, r)
    BY <1>3, Zenon DEF Queued
<1>5. Shrinks(MarkTerminal({}), record.firstSeen)
  <2>1. RevokeAt(MarkTerminal({}), record) /\ {} \in SUBSET records
    BY <1>1, NoneEnded, Zenon
  <2> QED BY <1>t, <1>3, <1>4, <2>1, RevokedRun, Zenon
<1>6. /\ WorldOK' /\ HistoryOK' /\ Recorded'
      /\ (/\ tx' \in Transaction /\ sweepQueue' \subseteq LifecycleRecord
          /\ lock' \in {"free", "tx", "sweep"}) => TypeOK'
      /\ \A Q : Queued(Q, records) /\ (\A q \in Q : q.firstSeen # record.firstSeen)
                   => Queued(Q, records')
  <2>1. {} \in SUBSET records /\ dies' \subseteq dies
    BY <1>1, Zenon
  <2>2. UNCHANGED <<world, allowed, dryRun, nextSeen, publishes>>
    BY <1>1, Zenon
  <2> QED BY <1>5, <2>1, <2>2, RevokingStep, Zenon
<1>7. /\ tx' \in Transaction /\ tx'.pc = "revoking" /\ tx'.queue = tx.queue \ {record}
      /\ tx'.startedAt = tx.startedAt
    BY <1>1, <1>t, Zenon DEF Transaction
<1>8. TxOK' /\ LockOK' /\ MovedOK'
  <2>1. tx.startedAt <= now' /\ lock' = "tx" /\ sweepQueue' = {}
    BY <1>i, <1>1, <1>2, Zenon DEF TxOK, world
  <2> QED BY <1>7, <2>1, Zenon DEF TxOK, LockOK, MovedOK, Pinned
<1>9. QueuesOK'
  <2>1. Queued(tx.queue \ {record}, records) /\ \A q \in tx.queue \ {record} : HasIdentity(q)
    BY <1>i, Zenon DEF QueuesOK, Queued
  <2>2. \A q \in tx.queue \ {record} : q.firstSeen # record.firstSeen
    BY <1>3, Zenon DEF Queued
  <2>3. Queued(tx.queue \ {record}, records')
    BY <1>6, <2>1, <2>2, Zenon
  <2>4. Queued(sweepQueue', records')
    BY <1>1, <1>2, Zenon DEF Queued
  <2> QED BY <1>7, <2>1, <2>3, <2>4, Zenon DEF QueuesOK
<1>10. TypeOK'
  <2>1. sweepQueue' \subseteq LifecycleRecord /\ lock' \in {"free", "tx", "sweep"}
    BY <1>i, <1>1, Zenon DEF TypeOK
  <2> QED BY <1>6, <1>7, <2>1, Zenon
<1> QED BY <1>6, <1>8, <1>9, <1>10, Zenon DEF IInv

\* An end event resolves to recorded runs that began before it, or to provisional
\* records: never to the run that is running.
LEMMA EndedRuns ==
    ASSUME IInv, NEW eventTime \in dies
    PROVE  /\ Ended(eventTime) \in SUBSET records
           /\ run # NotRunning => \A r \in Ended(eventTime) : r.startedAt # run
<1>i. TypeOK /\ WorldOK /\ HistoryOK
    BY Zenon DEF IInv
<1>t. records \subseteq LifecycleRecord
    BY <1>i, Zenon DEF TypeOK
<1> DEFINE runs == {r \in records : /\ r.state # "provisional" /\ r.startedAt # Unknown
                                    /\ HasIdentity(r) /\ r.startedAt <= eventTime}
           last == CHOOSE r \in runs : \A s \in runs : s.startedAt <= r.startedAt
<1>1. CASE runs # {}
  <2>1. Ended(eventTime) = {last}
    BY <1>1, Zenon DEF Ended
  <2>2. last \in runs
    <3>1. runs \subseteq LifecycleRecord
      BY <1>t, Zenon
    <3> HIDE DEF runs
    <3>2. \E r \in runs : \A s \in runs : s.startedAt <= r.startedAt
      BY <1>1, <3>1, Latest, Zenon
    <3> QED BY <3>2, Zenon
  <2> HIDE DEF last
  <2>3. last \in records /\ last.startedAt <= eventTime
    BY <2>2, Zenon
  <2>4. run # NotRunning => last.startedAt # run
    <3>1. /\ last.startedAt \in 0 .. MaxTime /\ run \in 0 .. MaxTime
          /\ eventTime \in 1 .. MaxTime
      BY <1>i, <1>t, <2>3, Zenon DEF TypeOK, LifecycleRecord
    <3>2. run # NotRunning => eventTime < run
      BY <1>i, Zenon DEF WorldOK
    <3> QED BY <2>3, <3>1, <3>2
  <2> QED BY <2>1, <2>3, <2>4, Zenon
<1>2. CASE runs = {}
  <2>1. Ended(eventTime) = ProvisionalRecords
    BY <1>2, Zenon DEF Ended
  <2> QED BY <1>i, <2>1, Zenon DEF ProvisionalRecords, HistoryOK, Wellformed, Unknown, NotRunning
<1> QED BY <1>1, <1>2, Zenon

LEMMA TerminateKeeps ==
    ASSUME IInv, NEW eventTime \in dies, NEW coalesced \in BOOLEAN,
           Terminate(eventTime, coalesced)
    PROVE  IInv'
<1>i. TypeOK /\ LockOK /\ QueuesOK
    BY Zenon DEF IInv
<1> DEFINE ended == Ended(eventTime)
           named == {r \in ended : HasIdentity(r)}
<1>1. /\ tx = NoTx /\ lock = "free"
      /\ UNCHANGED <<world, allowed, dryRun, nextSeen, lock, tx, sweepQueue, publishes>>
      /\ dies' \subseteq dies
    BY Zenon DEF Terminate
<1>2. ended \in SUBSET records /\ (run # NotRunning => \A r \in ended : r.startedAt # run)
    BY EndedRuns, Zenon
<1>3. \E gone : Shrinks(MarkTerminal(ended), gone)
  <2>1. CASE records' = MarkTerminal(ended) /\ UNCHANGED <<remembered, grants, failures>>
    <3> HIDE DEF ended
    <3>1. Shrinks(MarkTerminal(ended), 0)
      BY <1>2, <2>1, NothingRevoked, Zenon
    <3> QED BY <3>1, Zenon
  <2>2. CASE named # {} /\ RevokeAt(MarkTerminal(ended), Terminal(CHOOSE r \in named : TRUE))
    <3>1. PICK r \in named : RevokeAt(MarkTerminal(ended), Terminal(r))
      BY <2>2, Zenon
    <3>2. r \in records /\ HasIdentity(r) /\ r \in LifecycleRecord
      BY <1>i, <1>2, <3>1, Zenon DEF TypeOK
    <3>3. Terminal(r) \in LifecycleRecord /\ Match(Terminal(r), r)
      BY <3>2, Zenon DEF Terminal, LifecycleRecord, Match
    <3>4. HasIdentity(Terminal(r))
      BY <3>2, <3>3, Zenon DEF HasIdentity, Match
    <3> HIDE DEF ended
    <3>5. Shrinks(MarkTerminal(ended), Terminal(r).firstSeen)
      BY <1>2, <3>1, <3>2, <3>3, <3>4, RevokedRun, Zenon
    <3> QED BY <3>5, Zenon
  <2> QED BY <2>1, <2>2, Zenon DEF Terminate
<1>4. PICK gone : Shrinks(MarkTerminal(ended), gone)
    BY <1>3, Zenon
<1> HIDE DEF ended
<1>5. /\ WorldOK' /\ HistoryOK' /\ Recorded'
      /\ (/\ tx' \in Transaction /\ sweepQueue' \subseteq LifecycleRecord
          /\ lock' \in {"free", "tx", "sweep"}) => TypeOK'
    BY <1>1, <1>2, <1>4, RevokingStep, Zenon
<1>6. sweepQueue = {} /\ lock' # "tx" /\ sweepQueue' = {}
    BY <1>i, <1>1, Zenon DEF LockOK
<1>7. tx' \in Transaction /\ tx'.queue = {} /\ TxOK' /\ LockOK' /\ MovedOK'
  <2>1. now' \in 0 .. MaxTime /\ tx' = NoTx
    BY <1>i, <1>1, Zenon DEF TypeOK, world
  <2> QED BY <1>6, <2>1, TxOver, Zenon
<1>8. TypeOK'
  <2>1. sweepQueue' \subseteq LifecycleRecord /\ lock' \in {"free", "tx", "sweep"}
    BY <1>i, <1>1, Zenon DEF TypeOK
  <2> QED BY <1>5, <1>7, <2>1, Zenon
<1>9. QueuesOK'
    BY <1>6, <1>7, Zenon DEF QueuesOK, Queued
<1> QED BY <1>5, <1>7, <1>8, <1>9, Zenon DEF IInv

LEMMA SweepRecordKeeps ==
    ASSUME IInv, NEW record \in sweepQueue, SweepRecord(record)
    PROVE  IInv'
<1>i. TypeOK /\ TxOK /\ LockOK /\ QueuesOK /\ HistoryOK
    BY Zenon DEF IInv
<1>t. /\ record \in LifecycleRecord /\ failures \in 0 .. MaxFailures
      /\ remembered \subseteq Identity /\ records \subseteq LifecycleRecord
      /\ grants \in [Inodes \cup {ForeignInode} -> SUBSET Devices]
    BY <1>i, Zenon DEF TypeOK
<1>1. /\ lock = "sweep" /\ sweepQueue' = sweepQueue \ {record}
      /\ lock' = IF sweepQueue' = {} THEN "free" ELSE "sweep"
      /\ UNCHANGED <<world, allowed, dryRun, nextSeen, tx, dies, publishes>>
    BY Zenon DEF SweepRecord
<1>2. Queued(sweepQueue, records)
    BY <1>i, Zenon DEF QueuesOK
<1>3. \E r \in records : Match(record, r)
    BY <1>2, Zenon DEF Queued
<1>4. Shrinks(MarkTerminal({}), record.firstSeen)
  <2>0. {} \in SUBSET records
    BY Zenon
  <2>1. CASE UNCHANGED <<records, remembered, grants, failures>>
    <3>1. records' = MarkTerminal({})
      BY <2>1, NoneEnded, Zenon
    <3> QED BY <2>0, <2>1, <3>1, NothingRevoked, Zenon
  <2>2. CASE /\ ~HasIdentity(record) /\ records' = Release(records, record)
             /\ UNCHANGED <<remembered, grants, failures>>
    <3>1. /\ records' \in SUBSET records /\ Wellformed(records', now, nextSeen)
          /\ \A r \in records : r \in records' \/ Match(record, r)
      BY <1>i, <1>3, <2>2, ReleaseDrops, Zenon DEF HistoryOK
    <3>2. record.cgroup \notin remembered' /\ ~Live(record.cgroup)
      BY <1>t, <2>2 DEF HasIdentity, NoIdentity, Identity, Live, Paths
    <3>3. Shrinks(records, record.firstSeen)
      BY <1>t, <2>2, <3>1, <3>2, Zenon DEF Shrinks, Match
    <3> QED BY <3>3, NoneEnded, Zenon
  <2>3. CASE HasIdentity(record) /\ RevokeAt(records, record)
    <3>1. RevokeAt(MarkTerminal({}), record)
      BY <2>3, NoneEnded, Zenon
    <3> QED BY <1>t, <1>3, <2>0, <2>3, <3>1, RevokedRun, Zenon
  <2>4. CASE ~HasIdentity(record)
    BY <2>1, <2>2, <2>4, Zenon DEF SweepRecord
  <2>5. CASE HasIdentity(record) /\ ~Live(record.cgroup)
    <3>1. RevokeAt(records, record)
      BY <2>5, Zenon DEF SweepRecord, RevokeAt
    <3> QED BY <2>3, <2>5, <3>1, Zenon
  <2>6. CASE HasIdentity(record) /\ Live(record.cgroup)
    BY <2>1, <2>3, <2>6, Zenon DEF SweepRecord
  <2> QED BY <2>4, <2>5, <2>6, Zenon
<1>5. /\ WorldOK' /\ HistoryOK' /\ Recorded'
      /\ (/\ tx' \in Transaction /\ sweepQueue' \subseteq LifecycleRecord
          /\ lock' \in {"free", "tx", "sweep"}) => TypeOK'
      /\ \A Q : Queued(Q, records) /\ (\A q \in Q : q.firstSeen # record.firstSeen)
                   => Queued(Q, records')
  <2>1. {} \in SUBSET records /\ dies' \subseteq dies
    BY <1>1, Zenon
  <2>2. UNCHANGED <<world, allowed, dryRun, nextSeen, publishes>>
    BY <1>1, Zenon
  <2> QED BY <1>4, <2>1, <2>2, RevokingStep, Zenon
<1>6. /\ lock' \in {"free", "tx", "sweep"} /\ lock' # "tx" /\ lock # "tx"
      /\ sweepQueue' # {} => lock' = "sweep"
    BY <1>1, Zenon
<1>7. TypeOK'
    BY <1>i, <1>1, <1>5, <1>6, Zenon DEF TypeOK
<1>8. TxOK'
    BY <1>i, <1>1, Zenon DEF TxOK, world
<1>9. tx'.pc \notin Pinned \cup {"computed", "revoking"} /\ tx'.queue = {}
    BY <1>i, <1>1, <1>6, Zenon DEF LockOK, Pinned
<1>10. LockOK' /\ MovedOK'
    BY <1>6, <1>9, Zenon DEF LockOK, MovedOK, Pinned
<1>11. QueuesOK'
  <2>1. Queued(sweepQueue', records)
    BY <1>1, <1>2, Zenon DEF Queued
  <2>2. \A q \in sweepQueue' : q.firstSeen # record.firstSeen
    BY <1>1, <1>2, Zenon DEF Queued
  <2>3. Queued(sweepQueue', records')
    BY <1>5, <2>1, <2>2, Zenon
  <2> QED BY <1>9, <2>3, Zenon DEF QueuesOK, Queued
<1> QED BY <1>5, <1>7, <1>8, <1>10, <1>11, Zenon DEF IInv

-----------------------------------------------------------------------------
(* The steps that are left: the sweep begins, a failed inspect, a publication. *)

LEMMA SweepKeeps == IInv /\ Sweep => IInv'
<1> SUFFICES ASSUME IInv, Sweep PROVE IInv'
    BY Zenon
<1>1. /\ lock = "free" /\ lock' = "sweep" /\ sweepQueue' = records
      /\ UNCHANGED <<now, run, place, dir, nextInode, inodeRun, removed, grants, allowed, dryRun,
                     records, nextSeen, remembered, tx, dies, failures, publishes>>
    BY Zenon DEF Sweep, world, memory
<1>2. TypeOK'
    BY <1>1, Zenon DEF IInv, TypeOK
<1>3. WorldOK' /\ TxOK' /\ HistoryOK'
    BY <1>1, Zenon DEF IInv, WorldOK, TxOK, HistoryOK
<1>4. MovedOK'
    BY <1>1, Zenon DEF IInv, MovedOK, MovedFrom, Live
<1>5. Recorded'
    BY <1>1, Zenon DEF IInv, Recorded, GrantsRecorded, RunningNotTerminal, RememberedRecorded
<1>6. LockOK'
    BY <1>1, Zenon DEF IInv, LockOK
<1>7. QueuesOK'
  <2>1. Queued(records, records)
    BY Zenon DEF IInv, HistoryOK, Wellformed, Queued, Match
  <2> QED BY <1>1, <2>1, Zenon DEF IInv, QueuesOK
<1> QED BY <1>2, <1>3, <1>4, <1>5, <1>6, <1>7, Zenon DEF IInv

LEMMA PublishKeeps ==
    ASSUME IInv, NEW policy \in SUBSET Devices, NEW dry \in BOOLEAN, Publish(policy, dry)
    PROVE  IInv'
<1>1. /\ lock = "free" /\ publishes < MaxPublishes /\ publishes' = publishes + 1
      /\ allowed' = policy /\ dryRun' = dry
      /\ UNCHANGED <<now, run, place, dir, nextInode, inodeRun, removed, grants, records,
                     nextSeen, remembered, lock, tx, sweepQueue, dies, failures>>
    BY Zenon DEF Publish, world, memory
<1>2. publishes' \in 0 .. MaxPublishes
    BY <1>1, ConstantsAssumption DEF IInv, TypeOK
<1>3. TypeOK'
    BY <1>1, <1>2, Zenon DEF IInv, TypeOK
<1>4. WorldOK' /\ LockOK' /\ HistoryOK' /\ QueuesOK'
    BY <1>1, Zenon DEF IInv, WorldOK, LockOK, HistoryOK, QueuesOK
<1>5. MovedOK'
    BY <1>1, Zenon DEF IInv, MovedOK, MovedFrom, Live
<1>6. Recorded'
    BY <1>1, Zenon DEF IInv, Recorded, GrantsRecorded, RunningNotTerminal, RememberedRecorded
<1>7. TxOK'
  <2>1. tx.pc \notin Pinned \cup {"computed"}
    BY <1>1, Zenon DEF IInv, LockOK, Pinned
  <2> QED BY <1>1, <2>1, Zenon DEF IInv, TxOK
<1> QED BY <1>3, <1>4, <1>5, <1>6, <1>7, Zenon DEF IInv

LEMMA InspectFailedKeeps == IInv /\ InspectFailed => IInv'
<1> SUFFICES ASSUME IInv, InspectFailed PROVE IInv'
    BY Zenon
<1>i. TypeOK /\ WorldOK /\ TxOK /\ LockOK /\ HistoryOK /\ Recorded
    BY Zenon DEF IInv
<1>t. /\ tx \in Transaction /\ records \subseteq LifecycleRecord /\ nextSeen \in Nat
      /\ now \in 0 .. MaxTime /\ now \in Nat
    BY <1>i, ConstantsAssumption DEF TypeOK
<1>1. /\ tx.pc = "failed" /\ lock = "free"
      /\ UNCHANGED <<world, grants, allowed, dryRun, remembered, sweepQueue, dies, failures,
                     publishes>>
    BY Zenon DEF InspectFailed
<1>2. CASE tx' = NoTx /\ UNCHANGED <<records, nextSeen, lock>>
  <2>1. lock # "tx" /\ failures' \in 0 .. MaxFailures
    BY <1>i, <1>1, Zenon DEF TypeOK
  <2> QED BY <1>1, <1>2, <2>1, Ends, Zenon DEF memory
<1>3. CASE /\ records' = Provisional /\ nextSeen' = NextSeen(records') /\ lock' = "tx"
           /\ tx' = [tx EXCEPT !.pc = "revoking",
                               !.queue = {r \in Provisional : HasIdentity(r)}]
  <2>1. /\ records' \subseteq LifecycleRecord
        /\ Wellformed(records', now, nextSeen')
        /\ nextSeen' \in Nat
        /\ \A r \in records' : HasIdentity(r) => r \in records
        /\ \A r \in records' : r.startedAt # Unknown => r \in records
        /\ \A r \in records : HasIdentity(r) => r \in records'
    BY <1>3, <1>i, <1>t, ProvisionalKeeps, Zenon
  <2> DEFINE queue == {r \in Provisional : HasIdentity(r)}
  <2>2. queue \subseteq records' /\ queue \subseteq LifecycleRecord
        /\ \A q \in queue : HasIdentity(q)
    BY <1>3, <2>1, Zenon
  <2> HIDE DEF queue
  <2>3. /\ tx' \in Transaction /\ tx'.pc = "revoking" /\ tx'.queue = queue
        /\ tx'.startedAt = tx.startedAt
    BY <1>3, <1>t, <2>2, Zenon DEF Transaction, queue
  <2>w. UNCHANGED <<now, run, place, dir, nextInode, inodeRun, removed>>
    BY <1>1, Zenon DEF world
  <2>4. sweepQueue' = {}
    BY <1>i, <1>1, Zenon DEF LockOK
  <2>5. TxOK' /\ LockOK' /\ MovedOK'
    <3>1. tx.startedAt <= now'
      BY <1>i, <2>w, Zenon DEF TxOK
    <3> QED BY <1>3, <2>3, <2>4, <3>1, Zenon DEF TxOK, LockOK, MovedOK, Pinned
  <2>6. HistoryOK'
    BY <2>1, <2>w, Zenon DEF HistoryOK
  <2>7. QueuesOK'
    BY <2>1, <2>2, <2>3, <2>4, Zenon DEF QueuesOK, Queued, Wellformed, Match
  <2>8. WorldOK'
    BY <1>i, <1>1, <2>w, Zenon DEF WorldOK
  <2>9. TypeOK'
    <3>1. lock' \in {"free", "tx", "sweep"}
      BY <1>3, Zenon
    <3> QED BY <1>i, <1>1, <2>w, <2>1, <2>3, <3>1, Zenon DEF TypeOK
  <2>10. \A r \in records : r.cgroup # NoIdentity => r \in records'
    BY <2>1, Zenon DEF HasIdentity
  <2>11. GrantsRecorded'
    <3>1. \A p \in Paths : [path |-> p, inode |-> dir[p]] # NoIdentity
      BY Zenon DEF NoIdentity, Paths
    <3> QED BY <1>i, <1>1, <2>w, <2>10, <3>1, Zenon DEF Recorded, GrantsRecorded
  <2>12. RememberedRecorded'
    <3>1. NoIdentity \notin remembered
      BY <1>i, Zenon DEF TypeOK, Identity, NoIdentity, Paths
    <3> QED BY <1>i, <1>1, <2>10, <3>1, Zenon DEF Recorded, RememberedRecorded
  <2>13. RunningNotTerminal'
    BY <1>i, <2>1, <2>w, Zenon DEF Recorded, RunningNotTerminal, NotRunning, Unknown
  <2> QED BY <2>5, <2>6, <2>7, <2>8, <2>9, <2>11, <2>12, <2>13, Zenon DEF IInv, Recorded
<1> QED BY <1>2, <1>3, Zenon DEF InspectFailed

-----------------------------------------------------------------------------

LEMMA StepOK == IInv /\ [Next]_vars => IInv'
<1> SUFFICES ASSUME IInv, [Next]_vars PROVE IInv'
    BY Zenon
<1>1. CASE ContainerStep \/ DaemonReload
    BY <1>1, StartKeeps, MoveKeeps, ExitKeeps, RemoveDirKeeps, RemoveContainerKeeps,
       DaemonReloadKeeps, Zenon DEF ContainerStep
<1>2. CASE Reconcile
    BY <1>2, InspectKeeps, Zenon
<1>3. CASE TxStep
    BY <1>3, ComputeKeeps, PinKeeps, EndsKeep, VerifyKeeps, RevokeMovedKeeps, ApplyKeeps,
       RevokeEndedKeeps, InspectFailedKeeps, RevokeNextKeeps, Zenon DEF TxStep
<1>4. CASE TerminateStep
    BY <1>4, TerminateKeeps, Zenon DEF TerminateStep
<1>5. CASE SweepStep
    BY <1>5, SweepKeeps, SweepRecordKeeps, Zenon DEF SweepStep
<1>6. CASE \E policy \in {{}, Devices}, dry \in BOOLEAN : Publish(policy, dry)
    BY <1>6, PublishKeeps, Zenon
<1>7. CASE UNCHANGED vars
  <2>1. UNCHANGED <<now, run, place, dir, nextInode, inodeRun, removed, grants, allowed, dryRun,
                    records, nextSeen, remembered, lock, tx, sweepQueue, dies, failures, publishes>>
    BY <1>7, Zenon DEF vars, world, memory
  <2>2. TypeOK' /\ WorldOK' /\ TxOK'
    BY <2>1, Zenon DEF IInv, TypeOK, WorldOK, TxOK
  <2>3. LockOK' /\ HistoryOK' /\ QueuesOK'
    BY <2>1, Zenon DEF IInv, LockOK, HistoryOK, QueuesOK
  <2>4. MovedOK'
    BY <2>1, Zenon DEF IInv, MovedOK, MovedFrom, Live
  <2>5. Recorded'
    BY <2>1, Zenon DEF IInv, Recorded, GrantsRecorded, RunningNotTerminal, RememberedRecorded
  <2> QED BY <2>2, <2>3, <2>4, <2>5, Zenon DEF IInv
<1> QED BY <1>1, <1>2, <1>3, <1>4, <1>5, <1>6, <1>7, Zenon DEF Next

\* What the transactions rely on holds in every state.
THEOREM Inductive == Spec => []IInv
<1> QED BY InitOK, StepOK, PTL DEF Spec

\* Every variable keeps its type: in particular what the cgroup API remembers is
\* always a directory of this container, never the one of a recycled pid.
THEOREM TypeCorrect == Spec => []TypeOK
<1>1. IInv => TypeOK
    BY Zenon DEF IInv
<1> QED BY <1>1, Inductive, PTL

\* apply_pinned records the cgroup before it mutates it, and revoke_moved empties
\* the previous one before its record is replaced: what is granted in a directory
\* that exists is always named by a record, whatever fails in between.
THEOREM GrantsAreRecorded == Spec => []GrantsRecorded
<1>1. IInv => GrantsRecorded
    BY Zenon DEF IInv, Recorded
<1> QED BY <1>1, Inductive, PTL

\* Neither a late end event in terminate() nor a stale inspect in revoke_ended
\* marks the record of the run that is running.
THEOREM LateCleanupSparesTheRun == Spec => []RunningNotTerminal
<1>1. IInv => RunningNotTerminal
    BY Zenon DEF IInv, Recorded
<1> QED BY <1>1, Inductive, PTL

\* release, revoke_moved and append drop a record only after the cgroup API has
\* forgotten its directory: nothing is remembered that no record names.
THEOREM MemoryGoesWithRecords == Spec => []RememberedRecorded
<1>1. IInv => RememberedRecorded
    BY Zenon DEF IInv, Recorded
<1> QED BY <1>1, Inductive, PTL

-----------------------------------------------------------------------------
(* Grants are only added by apply_pinned.                                    *)

NoneAdded == \A i \in DOMAIN grants : grants'[i] \subseteq grants[i]

LEMMA RevokeAddsNone ==
    ASSUME TypeOK, NEW all, NEW record, RevokeAt(all, record)
    PROVE  NoneAdded
<1>t. failures \in 0 .. MaxFailures /\ grants \in [Inodes \cup {ForeignInode} -> SUBSET Devices]
    BY Zenon DEF TypeOK
<1>1. CASE UNCHANGED grants
    BY <1>1, Zenon DEF NoneAdded
<1>2. ASSUME NEW outcome \in SetOutcomes(grants[record.cgroup.inode], {}),
             grants' = [grants EXCEPT ![record.cgroup.inode] = outcome.left]
      PROVE  NoneAdded
  <2>1. ASSUME NEW old, NEW o \in SetOutcomes(old, {}) PROVE o.left \subseteq old
    BY <1>t DEF SetOutcomes
  <2>2. outcome.left \subseteq grants[record.cgroup.inode]
    BY <2>1, Zenon
  <2> QED BY <1>t, <1>2, <2>2, Zenon DEF NoneAdded
<1> QED BY <1>1, <1>2, Zenon DEF RevokeAt

LEMMA OthersAddNone ==
    ASSUME IInv, [Next]_vars, ~ApplyPinned
    PROVE  NoneAdded
<1>t. TypeOK /\ grants \in [Inodes \cup {ForeignInode} -> SUBSET Devices]
    BY Zenon DEF IInv, TypeOK
<1>u. UNCHANGED grants => NoneAdded
    BY Zenon DEF NoneAdded
<1>1. CASE ContainerStep
  <2>1. ASSUME NEW path \in Paths, RemoveDir(path) PROVE NoneAdded
    BY <1>t, <2>1, Zenon DEF RemoveDir, NoneAdded
  <2> QED BY <1>1, <1>u, <2>1, Zenon
          DEF ContainerStep, Start, Move, Exit, RemoveContainer
<1>2. CASE DaemonReload
    BY <1>2, Zenon DEF DaemonReload, NoneAdded
<1>3. CASE Reconcile
    BY <1>3, <1>u, Zenon DEF Reconcile, InspectRunning, InspectStopped, InspectFails
<1>4. CASE TxStep
  <2>1. CASE RevokeMoved
    <3>1. \A i \in Inodes \cup {ForeignInode} : grants'[i] \subseteq grants[i]
      BY <2>1, RevokeMovedEffect, Zenon
    <3> QED BY <1>t, <3>1, Zenon DEF NoneAdded
  <2>2. CASE RevokeEnded
    BY <1>t, <1>u, <2>2, RevokeAddsNone, Zenon DEF RevokeEnded
  <2>3. ASSUME NEW record \in tx.queue, RevokeNext(record) PROVE NoneAdded
    BY <1>t, <2>3, RevokeAddsNone, Zenon DEF RevokeNext
  <2>4. ASSUME NEW resolved \in BOOLEAN, ComputeDesired(resolved) PROVE NoneAdded
    BY <1>u, <2>4, Zenon DEF ComputeDesired
  <2>5. CASE \/ PinAndOpen \/ PinFails \/ VerifyBefore \/ VerifyAgain \/ VerifyFails
             \/ InspectFailed \/ RevokedAll
    BY <1>u, <2>5, Zenon DEF PinAndOpen, PinFails, VerifyBefore, VerifyAgain, VerifyFails,
        InspectFailed, RevokedAll
  <2> QED BY <1>4, <2>1, <2>2, <2>3, <2>4, <2>5, Zenon DEF TxStep
<1>5. CASE TerminateStep
  <2>1. ASSUME NEW t \in dies, NEW coalesced \in BOOLEAN, Terminate(t, coalesced)
        PROVE  NoneAdded
    BY <1>t, <1>u, <2>1, RevokeAddsNone, Zenon DEF Terminate
  <2> QED BY <1>5, <2>1, Zenon DEF TerminateStep
<1>6. CASE SweepStep
  <2>1. ASSUME NEW record \in sweepQueue, SweepRecord(record) PROVE NoneAdded
    <3>1. UNCHANGED grants \/ RevokeAt(records, record)
      BY <2>1, Zenon DEF SweepRecord
    <3> QED BY <1>t, <1>u, <3>1, RevokeAddsNone, Zenon
  <2> QED BY <1>6, <1>u, <2>1, Zenon DEF SweepStep, Sweep
<1>7. CASE \E policy \in {{}, Devices}, dry \in BOOLEAN : Publish(policy, dry)
    BY <1>7, <1>u, Zenon DEF Publish
<1>8. CASE UNCHANGED vars
    BY <1>8, <1>u, Zenon DEF vars
<1> QED BY <1>1, <1>2, <1>3, <1>4, <1>5, <1>6, <1>7, <1>8, Zenon DEF Next

\* The two inspects around pin and open tie the opened cgroup to the inspected run
\* for good: apply_pinned adds grants only there, from the config in force, never
\* in dry-run and never in the cgroup of a recycled pid.
THEOREM GrantsArePinned == Spec => GrantsPinned
<1> DEFINE Pin == \A i \in DOMAIN grants :
                    grants'[i] \ grants[i] # {} =>
                      /\ i \in Inodes /\ inodeRun[i] = tx.startedAt
                      /\ grants'[i] \ grants[i] \subseteq allowed
                      /\ ~dryRun
<1>1. IInv /\ [Next]_vars => [Pin]_vars
  <2> SUFFICES ASSUME IInv, [Next]_vars PROVE Pin
    BY Zenon
  <2>1. CASE ApplyPinned
    <3>1. DOMAIN grants = Inodes \cup {ForeignInode}
      BY Zenon DEF IInv, TypeOK
    <3>2. /\ tx.handle.inode \in Inodes /\ inodeRun[tx.handle.inode] = tx.startedAt
          /\ tx.rules \subseteq allowed /\ ~dryRun
          /\ \A i \in Inodes \cup {ForeignInode} :
               grants'[i] # grants[i] =>
                 i = tx.handle.inode /\ grants'[i] \subseteq grants[i] \cup tx.rules
      BY <2>1, ApplyEffect, Zenon
    <3> QED BY <3>1, <3>2, Zenon
  <2>2. CASE ~ApplyPinned
    BY <2>2, OthersAddNone, Zenon DEF NoneAdded
  <2> QED BY <2>1, <2>2, Zenon
<1> HIDE DEF Pin
<1>2. Spec => [][Pin]_vars
    BY <1>1, Inductive, PTL DEF Spec
<1> QED BY <1>2, Zenon DEF GrantsPinned, Pin

=============================================================================
