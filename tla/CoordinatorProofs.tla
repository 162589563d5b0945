------------------------- MODULE CoordinatorProofs -------------------------
(***************************************************************************)
(* Theorems about the coordinator, for every set of containers and every    *)
(* value of the bounds: types, and that a container is reserved exactly     *)
(* while a hold works for it; that run() sleeps over no retry, request or   *)
(* entry to prune; that nothing runs after the shutdown; that "config       *)
(* reload complete" is announced only for completed work; that the          *)
(* coordinator keeps the promise of Obligations to the other parts of the   *)
(* daemon; and that it loses no start and no end event.                     *)
(***************************************************************************)
EXTENDS Coordinator, TLAPS

(***************************************************************************)
(* Times, keys and records.                                                 *)
(***************************************************************************)
LEMMA PositiveTime ==
    ASSUME NEW t \in Nat
    PROVE  /\ t <= t /\ NoTime <= t /\ (t > 0 => t # NoTime)
           /\ t + 1 >= t /\ t >= t /\ t + 1 \in Nat
BY DEF NoTime

LEMMA TimeOrder ==
    ASSUME NEW a \in Nat, NEW b \in Nat, NEW t \in Nat
    PROVE  /\ ~(a > b) => b >= a
           /\ a >= t /\ t > b => ~(a <= b)
           /\ a <= b <=> b >= a
           /\ a <= b /\ b <= t => a <= t
           /\ t > b /\ b >= a => t > a
           /\ a > b => a # NoTime
           /\ a <= b => ~(a > b)
BY DEF NoTime

LEMMA LaterFacts ==
    ASSUME NEW a \in Nat, NEW b \in Nat
    PROVE  /\ Later(a, b) \in Nat /\ Later(a, b) >= a /\ Later(a, b) >= b
           /\ ~(a >= b) => Later(a, b) = b
           /\ a >= b => Later(a, b) = a
BY DEF Later

LEMMA AfterLater ==
    ASSUME NEW a \in Nat, NEW b \in Nat, NEW t \in Nat, t > Later(a, b)
    PROVE  t > a /\ b # t
BY DEF Later

LEMMA LateEnd ==
    ASSUME NEW a \in Nat, NEW b \in Nat, NEW t \in Nat, a <= b, ~(b >= t)
    PROVE  Later(a, t) = t
BY DEF Later

LEMMA TimeNat == Time \subseteq Nat
BY BoundsAssumption DEF Time, NoTime

LEMMA EventTime ==
    ASSUME clock \in 1 .. MaxClock
    PROVE  /\ clock \in Nat /\ clock > 0
           /\ \A t \in 1 .. clock : t \in Nat /\ t > 0 /\ t <= clock /\ t \in Time
BY BoundsAssumption DEF Time, NoTime

LEMMA Epochs ==
    /\ NoKey \in PassKey /\ NoKey.epoch = 0
    /\ \A k \in PassKey : k.epoch \in Nat /\ k.epoch <= k.epoch /\ NoKey.epoch <= k.epoch
BY BoundsAssumption DEF NoKey, PassKey

LEMMA RequestGrows ==
    ASSUME latest \in PassKey, NEW generation \in Generations, Request(generation)
    PROVE  /\ latest'.epoch = latest.epoch + 1
           /\ \A k \in PassKey : k.epoch <= latest.epoch => k # latest' /\ k.epoch <= latest'.epoch
<1>1. latest'.epoch = latest.epoch + 1
  BY Zenon DEF Request
<1>2. latest.epoch \in Nat /\ \A k \in PassKey : k.epoch \in Nat
  BY Epochs, Zenon
<1> QED
  BY <1>1, <1>2

(***************************************************************************)
(* A container is reserved exactly while a hold works for it.               *)
(***************************************************************************)
HeldOK == \A c \in Containers : hold[c] = None <=> inFlight[c] = None

LEMMA ReserveFields ==
    /\ Reserve(FALSE).running = TRUE /\ Reserve(TRUE).running = FALSE
    /\ Reserve(FALSE).applyStart = clock /\ Reserve(TRUE).applyStart = NoTime
    /\ Reserve(FALSE).reconcile = FALSE /\ Reserve(TRUE).reconcile = FALSE
    /\ Reserve(FALSE).terminateAt = NoTime /\ Reserve(TRUE).terminateAt = NoTime
BY Zenon DEF Reserve

LEMMA UpdateType ==
    ASSUME NEW D, NEW R, NEW f \in [D -> R], NEW x \in D, NEW v \in R
    PROVE  [f EXCEPT ![x] = v] \in [D -> R]
OBVIOUS

LEMMA LaterTime ==
    ASSUME NEW a \in Time, NEW b \in Time
    PROVE  Later(a, b) \in Time
BY Zenon DEF Later

LEMMA HandlingType ==
    /\ NoTime \in Time
    /\ Idle \in Handler
    /\ \A p \in {"starting", "idle", "await", "awaitEnd", "notify", "stopped"},
          c \in Containers \cup {None} : Handling(p, c) \in Handler
BY BoundsAssumption DEF Time, NoTime, Idle, Handling, Handler

LEMMA ReserveType ==
    ASSUME TypeOK, NEW terminal \in BOOLEAN
    PROVE  Reserve(terminal) \in Reservation
BY BoundsAssumption DEF TypeOK, Reserve, Reservation, Time, NoTime

LEMMA ReserveHeldType ==
    ASSUME NEW held \in Reservation, NEW eventTime \in Time, NEW terminal \in BOOLEAN
    PROVE  ReserveHeld(held, eventTime, terminal) \in Reservation
<1>1. Later(held.terminateAt, eventTime) \in Time
  BY LaterTime, Zenon DEF Reservation
<1> QED
  BY <1>1, Zenon DEF ReserveHeld, Reservation

LEMMA NewHoldType ==
    ASSUME NEW owner \in {"run", "listener"}, NEW reconcile \in BOOLEAN,
           NEW terminateAt \in Time, NEW failed \in BOOLEAN
    PROVE  NewHold(owner, reconcile, terminateAt, failed) \in Hold
BY BoundsAssumption DEF NewHold, Hold, NoKey, PassKey, Time, NoTime

LEMMA NewHoldFields ==
    /\ NewHold("run", TRUE, NoTime, FALSE).owner = "run"
    /\ NewHold("run", TRUE, NoTime, FALSE).pc = "begin"
    /\ NewHold("run", TRUE, NoTime, FALSE).reconcile = TRUE
    /\ NewHold("run", TRUE, NoTime, FALSE).key = NoKey
    /\ NewHold("listener", TRUE, NoTime, FALSE).owner = "listener"
    /\ NewHold("listener", TRUE, NoTime, FALSE).pc = "begin"
    /\ NewHold("listener", TRUE, NoTime, FALSE).reconcile = TRUE
    /\ NewHold("listener", TRUE, NoTime, FALSE).key = NoKey
BY Zenon DEF NewHold

LEMMA NewHoldEnds ==
    ASSUME NEW t, t # NoTime
    PROVE  /\ NewHold("listener", FALSE, t, FALSE).owner = "listener"
           /\ NewHold("listener", FALSE, t, FALSE).pc = "terminate"
           /\ NewHold("listener", FALSE, t, FALSE).reconcile = FALSE
           /\ NewHold("listener", FALSE, t, FALSE).key = NoKey
BY Zenon DEF NewHold

LEMMA NewHoldParts ==
    ASSUME NEW owner, NEW reconcile, NEW terminateAt, NEW failed
    PROVE  /\ NewHold(owner, reconcile, terminateAt, failed).owner = owner
           /\ NewHold(owner, reconcile, terminateAt, failed).reconcile = reconcile
           /\ NewHold(owner, reconcile, terminateAt, failed).key = NoKey
           /\ NewHold(owner, reconcile, terminateAt, failed).pc =
                 IF terminateAt # NoTime THEN "terminate" ELSE "begin"
BY DEF NewHold

LEMMA SettleType ==
    ASSUME TypeOK, NEW entry \in PendingEntry \cup {None}, NEW key \in PassKey,
           NEW settled \in BOOLEAN
    PROVE  Settle(entry, key, settled) \in PendingEntry \cup {None}
BY Zenon DEF TypeOK, Settle, PendingEntry

LEMMA SettleParts ==
    ASSUME TypeOK, NEW entry \in PendingEntry \cup {None}, NEW key, NEW outcome
    PROVE  /\ outcome = "fail" /\ entry = None =>
                 /\ Settle(entry, key, outcome # "fail") \in PendingEntry
                 /\ Settle(entry, key, outcome # "fail").key = latest
           /\ outcome # "fail" /\ entry # None /\ entry.key # key =>
                 /\ Settle(entry, key, outcome # "fail") \in PendingEntry
                 /\ Settle(entry, key, outcome # "fail").key = entry.key
<1>1. latest \in PassKey
  BY Zenon DEF TypeOK
<1>2. CASE outcome = "fail" /\ entry = None
  <2>1. Settle(entry, key, outcome # "fail") = [key |-> latest, due |-> "later"]
    BY <1>2, Zenon DEF Settle
  <2> QED BY <1>1, <1>2, <2>1 DEF PendingEntry
<1>3. CASE outcome # "fail" /\ entry # None /\ entry.key # key
  <2>1. Settle(entry, key, outcome # "fail") = [entry EXCEPT !.due = "now"]
    BY <1>3, Zenon DEF Settle
  <2> QED BY <1>3, <2>1 DEF PendingEntry
<1> QED
  BY <1>2, <1>3, Zenon

LEMMA TypeInit == Init => TypeOK
<1> SUFFICES ASSUME Init
             PROVE  TypeOK
  OBVIOUS
<1>1. NoKey \in PassKey
  BY BoundsAssumption DEF NoKey, PassKey
<1>2. listener \in Handler
  BY HandlingType, Zenon DEF Init
<1>3. clock \in 1 .. MaxClock /\ events \in 0 .. MaxEvents /\ failures \in 0 .. MaxFailures
  BY BoundsAssumption DEF Init
<1> QED
  BY <1>1, <1>2, <1>3, HandlingType, Zenon DEF Init, TypeOK

LEMMA TypeRun ==
    ASSUME TypeOK, RunStep \/ RunPrune \/ RunSweep
    PROVE  TypeOK'
<1> USE BoundsAssumption DEF TypeOK, state, runVars, environment, history
<1>1. CASE RunStop
  BY <1>1 DEF RunStop
<1>2. CASE RunTakeRequest
  <2>1. passKey' \in PassKey /\ dirty' \in BOOLEAN
    BY <1>2, Zenon DEF RunTakeRequest
  <2>2. runPc' \in {"top", "arm", "asleep", "listing", "visiting", "retrying", "stopped"}
    BY <1>2, Zenon DEF RunTakeRequest
  <2> QED
    BY <1>2, <2>1, <2>2 DEF RunTakeRequest
<1>3. CASE RunNoRequest
  BY <1>3 DEF RunNoRequest
<1>4. CASE RunArm
  BY <1>4 DEF RunArm, NextDue, ArmPrune
<1>5. CASE RunWake
  BY <1>5, Zenon DEF RunWake
<1>6. CASE RunListRetry
  BY <1>6, Zenon DEF RunListRetry
<1>7. CASE RunRetryDue
  BY <1>7 DEF RunRetryDue, DueIds, Retriable
<1>8. CASE RunListFails
  BY <1>8 DEF RunListFails, AnnounceLocked
<1>9. CASE \E containers \in SUBSET Containers : RunList(containers)
  BY <1>9 DEF RunList
<1>10. CASE RunSuperseded
  BY <1>10 DEF RunSuperseded
<1>11. CASE RunFinishPass
  BY <1>11, Zenon DEF RunFinishPass, AnnounceLocked
<1>12. CASE RunRetryDone
  BY <1>12 DEF RunRetryDone, AnnounceLocked
<1>13. CASE \E c \in Containers : RunVisit(c) \/ RunRetry(c)
  <2>1. PICK c \in Containers : RunVisit(c) \/ RunRetry(c)
    BY <1>13, Zenon
  <2>2. /\ Reserve(FALSE) \in Reservation
        /\ NewHold("run", TRUE, NoTime, FALSE) \in Hold
        /\ inFlight[c] # None => ReserveHeld(inFlight[c], NoTime, FALSE) \in Reservation
    BY ReserveType, NewHoldType, ReserveHeldType, HandlingType, Zenon
  <2>0. /\ inFlight \in [Containers -> Reservation \cup {None}]
        /\ hold \in [Containers -> Hold \cup {None}]
        /\ queue \subseteq Containers /\ runAwait \in Containers \cup {None}
    OBVIOUS
  <2> HIDE DEF TypeOK
  <2>a. ReconcileFromRun(c)
    BY <2>1, Zenon DEF RunVisit, RunRetry
  <2>3. inFlight' \in [Containers -> Reservation \cup {None}]
    BY <2>0, <2>a, <2>2, Zenon DEF ReconcileFromRun
  <2>4. hold' \in [Containers -> Hold \cup {None}]
    BY <2>0, <2>a, <2>2, Zenon DEF ReconcileFromRun
  <2>5. queue' \subseteq Containers /\ runAwait' \in Containers \cup {None}
    BY <2>0, <2>a, Zenon DEF ReconcileFromRun
  <2> USE DEF TypeOK
  <2> QED
    BY <2>1, <2>3, <2>4, <2>5 DEF RunVisit, RunRetry
<1>14. CASE RunPrune
  BY <1>14, Zenon DEF RunPrune
<1>15. CASE RunSweep
  BY <1>15 DEF RunSweep
<1> QED
  BY <1>1, <1>2, <1>3, <1>4, <1>5, <1>6, <1>7, <1>8, <1>9, <1>10, <1>11, <1>12, <1>13,
     <1>14, <1>15, Zenon DEF RunStep

LEMMA TypeListener ==
    ASSUME TypeOK, ListenerStep \/ Event
    PROVE  TypeOK'
<1> USE BoundsAssumption DEF TypeOK, state, runVars, environment, history
<1>1. CASE ListenerStart
  BY <1>1, HandlingType DEF ListenerStart
<1>2. ASSUME NEW c \in Containers, ListenerReserve(c)
      PROVE  TypeOK'
  <2>1. listener.time \in Time
    BY Zenon DEF Handler
  <2>2. /\ Reserve(FALSE) \in Reservation
        /\ NewHold("listener", TRUE, NoTime, FALSE) \in Hold
        /\ inFlight[c] # None => ReserveHeld(inFlight[c], listener.time, FALSE) \in Reservation
    BY <2>1, ReserveType, NewHoldType, ReserveHeldType, HandlingType, Zenon
  <2>3. /\ inFlight \in [Containers -> Reservation \cup {None}]
        /\ hold \in [Containers -> Hold \cup {None}]
    OBVIOUS
  <2> HIDE DEF TypeOK
  <2>4. listener' \in Handler
    BY <1>2, HandlingType, Zenon DEF ListenerReserve
  <2>5. inFlight' \in [Containers -> Reservation \cup {None}]
    BY <1>2, <2>2, <2>3, Zenon DEF ListenerReserve
  <2>6. hold' \in [Containers -> Hold \cup {None}]
    BY <1>2, <2>2, <2>3, Zenon DEF ListenerReserve
  <2> USE DEF TypeOK
  <2> QED
    BY <1>2, <2>4, <2>5, <2>6 DEF ListenerReserve
<1>3. CASE ListenerNotify
  BY <1>3, HandlingType DEF ListenerNotify
<1>4. CASE ListenerStop
  BY <1>4, HandlingType DEF ListenerStop
<1>5. ASSUME NEW c \in Containers, NEW eventTime \in 1 .. clock, EventStart(c, eventTime)
      PROVE  TypeOK'
  <2>0. eventTime \in Time
    BY DEF Time, NoTime
  <2>1. Later(seen[c], eventTime) \in Time
    BY <2>0, LaterTime, Zenon
  <2>2. [pc |-> "reserve", container |-> c, time |-> eventTime] \in Handler
    BY <2>0, Zenon DEF Handler
  <2>3. listener' \in Handler
    BY <1>5, <2>2, HandlingType, Zenon DEF EventStart
  <2>4. seen' \in [Containers -> Time]
    BY <1>5, <2>1, Zenon DEF EventStart
  <2>5. processed' \in [Containers -> Inspected \cup {None}]
    BY <1>5, Zenon DEF EventStart
  <2>6. events' \in 0 .. MaxEvents
    BY <1>5 DEF EventStart
  <2> QED
    BY <1>5, <2>3, <2>4, <2>5, <2>6 DEF EventStart
<1>6. ASSUME NEW c \in Containers, NEW eventTime \in 1 .. clock, EventEnd(c, eventTime)
      PROVE  TypeOK'
  <2>0. eventTime \in Time
    BY DEF Time, NoTime
  <2>1. Later(died[c], eventTime) \in Time
    BY <2>0, LaterTime, Zenon
  <2>2. /\ Reserve(TRUE) \in Reservation
        /\ NewHold("listener", FALSE, eventTime, FALSE) \in Hold
        /\ inFlight[c] # None => ReserveHeld(inFlight[c], eventTime, TRUE) \in Reservation
    BY <2>0, ReserveType, NewHoldType, ReserveHeldType, Zenon
  <2>a. /\ inFlight \in [Containers -> Reservation \cup {None}]
        /\ hold \in [Containers -> Hold \cup {None}]
        /\ died \in [Containers -> Time] /\ listener \in Handler
        /\ events \in 0 .. MaxEvents
    OBVIOUS
  <2> HIDE DEF TypeOK
  <2>3. listener' \in Handler
    BY <1>6, <2>a, HandlingType, Zenon DEF EventEnd
  <2>4. died' \in [Containers -> Time]
    BY <1>6, <2>1, <2>a, Zenon DEF EventEnd
  <2>5. inFlight' \in [Containers -> Reservation \cup {None}]
    BY <1>6, <2>2, <2>a, Zenon DEF EventEnd
  <2>6. hold' \in [Containers -> Hold \cup {None}]
    BY <1>6, <2>2, <2>a, Zenon DEF EventEnd
  <2>7. events' \in 0 .. MaxEvents
    BY <1>6, <2>a DEF EventEnd
  <2> USE DEF TypeOK
  <2> QED
    BY <1>6, <2>3, <2>4, <2>5, <2>6, <2>7 DEF EventEnd
<1> QED
  BY <1>1, <1>2, <1>3, <1>4, <1>5, <1>6, Zenon DEF ListenerStep, Event

LEMMA TypeHold ==
    ASSUME TypeOK, HeldOK, NEW c \in Containers, HoldStep(c)
    PROVE  TypeOK'
<1> USE BoundsAssumption DEF TypeOK, state, runVars, environment, history
<1>1. CASE HoldTerminate(c)
  <2>1. hold[c] \in Hold
    BY <1>1, Zenon DEF HoldTerminate
  <2>2. ended' \in [Containers -> Time]
    BY <1>1, <2>1, LaterTime, Zenon DEF HoldTerminate, Hold
  <2>3. hold' \in [Containers -> Hold \cup {None}]
    BY <1>1, <2>1, HandlingType, Zenon DEF HoldTerminate, Hold
  <2> QED
    BY <1>1, <2>2, <2>3 DEF HoldTerminate
<1>2. CASE HoldBegin(c)
  <2>1. hold[c] \in Hold
    BY <1>2, Zenon DEF HoldBegin
  <2>2. clock \in Time
    BY DEF Time, NoTime
  <2>3. hold' \in [Containers -> Hold \cup {None}]
    BY <1>2, <2>1, <2>2, Zenon DEF HoldBegin, Hold
  <2> QED
    BY <1>2, <2>3 DEF HoldBegin
<1>3. CASE \E outcome \in {"ok", "gone", "fail"} : HoldSettle(c, outcome)
  <2>1. PICK outcome \in {"ok", "gone", "fail"} : HoldSettle(c, outcome)
    BY <1>3, Zenon
  <2>2. hold[c] \in Hold
    BY <2>1, Zenon DEF HoldSettle
  <2>3. Settle(pending[c], hold[c].key, outcome # "fail") \in PendingEntry \cup {None}
    BY <2>2, SettleType, Zenon DEF Hold
  <2>4. pending' \in [Containers -> PendingEntry \cup {None}]
    BY <2>1, <2>3, Zenon DEF HoldSettle
  <2>5. hold' \in [Containers -> Hold \cup {None}]
    BY <2>1, <2>2 DEF HoldSettle, Hold, NoKey, PassKey
  <2>6. settledKey' \in [Containers -> PassKey]
    BY <2>1, <2>2, Zenon DEF HoldSettle, Hold
  <2>7. inspected' \in [Containers -> Time]
    BY <2>1, <2>2, LaterTime, Zenon DEF HoldSettle, Hold
  <2>8. failures' \in 0 .. MaxFailures
    BY <2>1 DEF HoldSettle
  <2> QED
    BY <2>1, <2>4, <2>5, <2>6, <2>7, <2>8 DEF HoldSettle
<1>4. CASE HoldMarkProcessed(c)
  <2>1. hold[c] \in Hold
    BY <1>4, Zenon DEF HoldMarkProcessed
  <2>2. hold' \in [Containers -> Hold \cup {None}]
    BY <1>4, <2>1, Zenon DEF HoldMarkProcessed, Hold
  <2>3. processed' \in [Containers -> Inspected \cup {None}]
    BY <1>4, <2>1, Zenon DEF HoldMarkProcessed, Hold, Inspected
  <2> QED
    BY <1>4, <2>2, <2>3 DEF HoldMarkProcessed
<1>5. CASE HoldNextWork(c)
  <2>1. hold[c] \in Hold
    BY <1>5, Zenon DEF HoldNextWork
  <2>2. clock \in Time
    BY DEF Time, NoTime
  <2>3. inFlight[c] \in Reservation
    BY <2>1, NoneAssumption, Zenon DEF HeldOK
  <2>4. inFlight' \in [Containers -> Reservation \cup {None}]
    BY <1>5, <2>2, <2>3, HandlingType, Zenon DEF HoldNextWork, Reservation
  <2>5. /\ NewHold(hold[c].owner, inFlight[c].reconcile, inFlight[c].terminateAt,
                   hold[c].failed) \in Hold
    BY <2>1, <2>3, NewHoldType DEF Hold, Reservation
  <2>6. hold' \in [Containers -> Hold \cup {None}]
    BY <1>5, <2>5, Zenon DEF HoldNextWork
  <2>7. UNCHANGED <<latest, dirty, incomplete, announced, pending, processed, wake, firstPass,
                    queue, runAwait, runPc, passKey, listRetry, retryArm, pruneArm, listener,
                    clock, ctxDone, closed, events, failures, listed, owed, settledKey,
                    inspected, seen, died, ended>>
    BY <1>5, Zenon DEF HoldNextWork
  <2> QED
    BY <2>4, <2>6, <2>7
<1>6. CASE HoldRelease(c)
  <2>1. announced' \in PassKey
    BY <1>6, Zenon DEF HoldRelease, AnnounceLocked
  <2>2. inFlight' \in [Containers -> Reservation \cup {None}]
    BY <1>6, Zenon DEF HoldRelease
  <2>3. hold' \in [Containers -> Hold \cup {None}]
    BY <1>6, Zenon DEF HoldRelease
  <2>4. listener' \in Handler /\ runAwait' \in Containers \cup {None}
    BY <1>6, HandlingType, Zenon DEF HoldRelease
  <2>5. wake' \in BOOLEAN
    BY <1>6, Zenon DEF HoldRelease
  <2> QED
    BY <1>6, <2>1, <2>2, <2>3, <2>4, <2>5 DEF HoldRelease
<1> QED
  BY <1>1, <1>2, <1>3, <1>4, <1>5, <1>6, Zenon DEF HoldStep

LEMMA TypeRest ==
    ASSUME TypeOK,
           \/ \E generation \in Generations : Request(generation)
           \/ \E c \in Containers : BackoffElapses(c) \/ ProcessedExpires(c)
           \/ RetryTimerElapses \/ Tick \/ Cancel \/ CloseAndWait
           \/ UNCHANGED vars
    PROVE  TypeOK'
<1> USE BoundsAssumption DEF TypeOK, state, runVars, environment, history
<1>1. ASSUME NEW generation \in Generations, Request(generation)
      PROVE  TypeOK'
  <2>1. latest' \in PassKey
    BY <1>1, GenerationsAssumption DEF Request, PassKey, Later
  <2>2. pending' \in [Containers -> PendingEntry \cup {None}]
    BY <1>1, <2>1, SMTT(30) DEF Request, PendingEntry
  <2> QED
    BY <1>1, <2>1, <2>2 DEF Request
<1>2. ASSUME NEW c \in Containers, BackoffElapses(c)
      PROVE  TypeOK'
  <2>1. pending' \in [Containers -> PendingEntry \cup {None}]
    BY <1>2 DEF BackoffElapses, PendingEntry
  <2> QED
    BY <1>2, <2>1 DEF BackoffElapses
<1>3. ASSUME NEW c \in Containers, ProcessedExpires(c)
      PROVE  TypeOK'
  <2>1. processed' \in [Containers -> Inspected \cup {None}]
    BY <1>3, ZenonT(40) DEF ProcessedExpires, Inspected
  <2> QED
    BY <1>3, <2>1 DEF ProcessedExpires
<1>4. CASE RetryTimerElapses
  BY <1>4 DEF RetryTimerElapses
<1>5. CASE Tick
  BY <1>5, SMTT(30) DEF Tick
<1>6. CASE Cancel
  BY <1>6 DEF Cancel
<1>7. CASE CloseAndWait
  BY <1>7 DEF CloseAndWait
<1>8. CASE UNCHANGED vars
  BY <1>8 DEF vars
<1> QED
  BY <1>1, <1>2, <1>3, <1>4, <1>5, <1>6, <1>7, <1>8, Zenon

LEMMA NotNone ==
    /\ None \notin Containers /\ None \notin PendingEntry /\ None \notin Inspected
    /\ None \notin Reservation /\ None \notin Hold
BY NoneAssumption, Zenon

LEMMA NextWorkHeld ==
    ASSUME TypeOK, HeldOK, NEW c \in Containers, HoldNextWork(c)
    PROVE  /\ hold[c] \in Hold /\ inFlight[c] \in Reservation
           /\ hold'[c] \in Hold /\ hold'[c] # None
           /\ inFlight'[c] \in Reservation /\ inFlight'[c] # None
<1>1. hold[c] \in Hold /\ inFlight[c] \in Reservation
  BY Zenon DEF HoldNextWork, HeldOK, TypeOK
<1>2. NewHold(hold[c].owner, inFlight[c].reconcile, inFlight[c].terminateAt,
              hold[c].failed) \in Hold
  <2>1. /\ hold[c].owner \in {"run", "listener"} /\ hold[c].failed \in BOOLEAN
        /\ inFlight[c].reconcile \in BOOLEAN /\ inFlight[c].terminateAt \in Time
    BY <1>1, Zenon DEF Hold, Reservation
  <2> QED
    BY <2>1, NewHoldType, Zenon
<1>3. [applyStart |-> IF inFlight[c].reconcile THEN clock ELSE NoTime,
       running |-> inFlight[c].reconcile, reconcile |-> FALSE,
       terminateAt |-> NoTime] \in Reservation
  BY <1>1, HandlingType, BoundsAssumption DEF Reservation, TypeOK, Time, NoTime
<1>4. hold'[c] \in Hold /\ inFlight'[c] \in Reservation
  BY <1>2, <1>3, Zenon DEF HoldNextWork, TypeOK
<1> QED
  BY <1>1, <1>4, NotNone, Zenon

LEMMA HeldStep ==
    ASSUME TypeOK, HeldOK, [Next]_vars, TypeOK'
    PROVE  HeldOK'
<1> USE DEF HeldOK, state, runVars, environment, history
<1>0. /\ inFlight \in [Containers -> Reservation \cup {None}]
      /\ hold \in [Containers -> Hold \cup {None}]
      /\ inFlight' \in [Containers -> Reservation \cup {None}]
      /\ hold' \in [Containers -> Hold \cup {None}]
  BY Zenon DEF TypeOK
<1>1. CASE UNCHANGED <<inFlight, hold>>
  BY <1>1, Zenon
<1>2. ASSUME NEW c \in Containers, RunVisit(c) \/ RunRetry(c)
      PROVE  HeldOK'
  <2>1. Reserve(FALSE) \in Reservation /\ NewHold("run", TRUE, NoTime, FALSE) \in Hold
    BY ReserveType, NewHoldType, HandlingType, Zenon
  <2>2. inFlight[c] # None => ReserveHeld(inFlight[c], NoTime, FALSE) \in Reservation
    BY ReserveHeldType, HandlingType, Zenon DEF TypeOK
  <2> QED
    BY <1>0, <1>2, <2>1, <2>2, NotNone, Zenon DEF RunVisit, RunRetry, ReconcileFromRun
<1>3. ASSUME NEW c \in Containers, ListenerReserve(c)
      PROVE  HeldOK'
  <2>1. Reserve(FALSE) \in Reservation /\ NewHold("listener", TRUE, NoTime, FALSE) \in Hold
    BY ReserveType, NewHoldType, HandlingType, Zenon
  <2>2. inFlight[c] # None => ReserveHeld(inFlight[c], listener.time, FALSE) \in Reservation
    BY ReserveHeldType, Zenon DEF TypeOK, Handler
  <2>3. CASE inFlight[c] = None
    BY <1>0, <1>3, <2>1, <2>3, NotNone, Zenon DEF ListenerReserve
  <2>4. CASE inFlight[c] # None
    BY <1>0, <1>3, <2>2, <2>4, NotNone, ZenonT(40) DEF ListenerReserve
  <2> QED
    BY <2>3, <2>4, Zenon
<1>4. ASSUME NEW c \in Containers, NEW eventTime \in 1 .. clock, EventEnd(c, eventTime)
      PROVE  HeldOK'
  <2>1. eventTime \in Time
    BY BoundsAssumption DEF Time, NoTime, TypeOK
  <2>2. Reserve(TRUE) \in Reservation /\ NewHold("listener", FALSE, eventTime, FALSE) \in Hold
    BY <2>1, ReserveType, NewHoldType, Zenon
  <2>3. inFlight[c] # None => ReserveHeld(inFlight[c], eventTime, TRUE) \in Reservation
    BY <2>1, ReserveHeldType, Zenon DEF TypeOK
  <2> QED
    BY <1>0, <1>4, <2>2, <2>3, NotNone, Zenon DEF EventEnd
<1>5. ASSUME NEW c \in Containers, HoldStep(c)
      PROVE  HeldOK'
  <2>1. CASE HoldRelease(c)
    BY <2>1, Zenon DEF HoldRelease, TypeOK
  <2>2. CASE HoldNextWork(c)
    BY <1>0, <2>2, NextWorkHeld, Zenon DEF HoldNextWork
  <2>3. CASE HoldTerminate(c)
    BY <2>3, NotNone DEF HoldTerminate, TypeOK, Hold
  <2>4. CASE HoldBegin(c)
    BY <2>4, NotNone, SMTT(30) DEF HoldBegin, TypeOK, Hold
  <2>5. CASE \E outcome \in {"ok", "gone", "fail"} : HoldSettle(c, outcome)
    BY <2>5, NotNone DEF HoldSettle, TypeOK, Hold
  <2>6. CASE HoldMarkProcessed(c)
    BY <2>6, NotNone, SMTT(30) DEF HoldMarkProcessed, TypeOK, Hold
  <2> QED
    BY <1>5, <2>1, <2>2, <2>3, <2>4, <2>5, <2>6, Zenon DEF HoldStep
<1> QED
  BY <1>1, <1>2, <1>3, <1>4, <1>5, Zenon
     DEF Next, RunStep, ListenerStep, Event, vars,
         Request, RunStop, RunTakeRequest, RunNoRequest, RunArm, RunWake, RunListRetry,
         RunRetryDue, RunPrune, RunSweep, RunListFails, RunList, RunSuperseded,
         RunFinishPass, RunRetryDone, ListenerStart, ListenerNotify, ListenerStop,
         EventStart, BackoffElapses, ProcessedExpires, RetryTimerElapses, Tick, Cancel,
         CloseAndWait

LEMMA TypeHeldStep ==
    ASSUME TypeOK, HeldOK, [Next]_vars
    PROVE  TypeOK' /\ HeldOK'
<1>1. TypeOK'
  BY TypeRun, TypeListener, TypeHold, TypeRest, Zenon DEF Next
<1> QED
  BY <1>1, HeldStep, Zenon

LEMMA TypeHeld == Spec => [](TypeOK /\ HeldOK)
<1>1. Init => TypeOK /\ HeldOK
  BY TypeInit, Zenon DEF Init, HeldOK
<1>2. TypeOK /\ HeldOK /\ [Next]_vars => (TypeOK /\ HeldOK)'
  BY TypeHeldStep, Zenon
<1> QED
  BY <1>1, <1>2, PTL DEF Spec

\* The state is well typed in every reachable state, for any number of containers,
\* requests, events and failures.
THEOREM TypeCorrect == Spec => []TypeOK
BY TypeHeld, PTL


----------------------------------------------------------------------------
(* run() sleeps over no retry. *)

\* A step of a listener, a visit or a hold that does not release keeps every
\* reserved container reserved, and only hold steps change pending.
LEMMA RetryStep ==
    ASSUME TypeOK, HeldOK, RetryCovered, [Next]_vars
    PROVE  RetryCovered'
<1> USE DEF RetryCovered, Retriable, state, runVars, environment, history
<1>0. /\ pending \in [Containers -> PendingEntry \cup {None}]
      /\ hold \in [Containers -> Hold \cup {None}]
      /\ inFlight \in [Containers -> Reservation \cup {None}]
      /\ inFlight' \in [Containers -> Reservation \cup {None}]
      /\ retryArm \in {"none", "later", "now"}
      /\ HeldOK'
  BY TypeHeldStep, Zenon DEF TypeOK
<1>1. CASE UNCHANGED <<runPc, wake, pending, inFlight, retryArm>>
  BY <1>1, Zenon
<1>2. CASE runPc' # "asleep"
  BY <1>2, Zenon
<1>3. CASE RunArm
  BY <1>3, Zenon DEF RunArm, NextDue, DueIds
<1>4. CASE \E generation \in Generations : Request(generation)
  BY <1>4, Zenon DEF Request
<1>5. ASSUME NEW c \in Containers, ListenerReserve(c)
      PROVE  RetryCovered'
  BY <1>0, <1>5, Zenon DEF ListenerReserve, HeldOK
<1>6. ASSUME NEW c \in Containers, NEW eventTime \in 1 .. clock, EventEnd(c, eventTime)
      PROVE  RetryCovered'
  BY <1>0, <1>6, Zenon DEF EventEnd, HeldOK
<1>7. CASE ListenerNotify
  BY <1>7, Zenon DEF ListenerNotify
<1>8. ASSUME NEW c \in Containers, HoldNextWork(c)
      PROVE  RetryCovered'
  BY <1>0, <1>8, NextWorkHeld, Zenon DEF HoldNextWork
<1>9. ASSUME NEW c \in Containers, HoldRelease(c)
      PROVE  RetryCovered'
  BY <1>0, <1>9, Zenon DEF HoldRelease, ReleaseWakes
<1>10. ASSUME NEW c \in Containers, NEW outcome \in {"ok", "gone", "fail"},
              HoldSettle(c, outcome)
       PROVE  RetryCovered'
  BY <1>0, <1>10, Zenon DEF HoldSettle, HeldOK
<1>11. ASSUME NEW c \in Containers, BackoffElapses(c)
       PROVE  RetryCovered'
  BY <1>0, <1>11, Zenon DEF BackoffElapses
<1>12. CASE RetryTimerElapses
  BY <1>12, Zenon DEF RetryTimerElapses
<1> QED
  BY <1>1, <1>2, <1>3, <1>4, <1>5, <1>6, <1>7, <1>8, <1>9, <1>10, <1>11, <1>12, ZenonT(40)
     DEF Next, RunStep, ListenerStep, HoldStep, Event, vars,
         RunStop, RunTakeRequest, RunNoRequest, RunWake, RunListRetry,
         RunRetryDue, RunPrune, RunSweep, RunListFails, RunList, RunSuperseded, RunVisit,
         RunRetry, RunFinishPass, RunRetryDone, ListenerStart, ListenerStop,
         EventStart, HoldTerminate, HoldBegin, HoldMarkProcessed, ProcessedExpires, Tick,
         Cancel, CloseAndWait

\* run() never sleeps over a retry: whenever it waits without a wake permit, its retry
\* timer covers every pending container that no hold has.
THEOREM RetriesCovered == Spec => []RetryCovered
<1>1. Init => RetryCovered
  BY Zenon DEF Init, RetryCovered
<1>2. TypeOK /\ HeldOK /\ RetryCovered /\ [Next]_vars => RetryCovered'
  BY RetryStep, Zenon
<1> QED
  BY <1>1, <1>2, TypeHeld, PTL DEF Spec

----------------------------------------------------------------------------
(* run() sleeps over no request. *)

(***************************************************************************)
(* Where a request that is not complete is taken care of: it is untaken, or *)
(* its pass runs, or the list retry is armed, or run() is stopping.         *)
(***************************************************************************)
RequestOK ==
    /\ passKey.epoch <= latest.epoch
    /\ passKey = latest \/ dirty
    /\ dirty \/ listRetry => incomplete
    /\ runPc \in {"listing", "visiting"} => (passKey = latest <=> ~dirty)
    /\ runPc \in {"listing", "visiting"} /\ passKey = latest => incomplete
    /\ runPc \in {"arm", "asleep"} /\ dirty => wake
    /\ incomplete => \/ dirty \/ listRetry \/ runPc \in {"listing", "visiting"}
                     \/ ctxDone /\ runPc \in {"top", "stopped"}

\* What no step of a hold changes.
LEMMA HoldFrame ==
    ASSUME NEW c \in Containers, HoldStep(c)
    PROVE  /\ UNCHANGED <<latest, dirty, incomplete, firstPass, runPc, passKey, queue,
                          listRetry, retryArm, pruneArm, clock, ctxDone, closed, events,
                          listed, owed, seen, died>>
           /\ wake => wake'
<1> USE DEF state, runVars, environment, history
<1>1. CASE HoldTerminate(c)
  BY <1>1, Zenon DEF HoldTerminate
<1>2. CASE HoldBegin(c)
  BY <1>2, Zenon DEF HoldBegin
<1>3. CASE \E outcome \in {"ok", "gone", "fail"} : HoldSettle(c, outcome)
  BY <1>3 DEF HoldSettle
<1>4. CASE HoldMarkProcessed(c)
  BY <1>4, Zenon DEF HoldMarkProcessed
<1>5. CASE HoldNextWork(c)
  BY <1>5, Zenon DEF HoldNextWork
<1>6. CASE HoldRelease(c)
  BY <1>6, Zenon DEF HoldRelease
<1> QED
  BY <1>1, <1>2, <1>3, <1>4, <1>5, <1>6, Zenon DEF HoldStep

LEMMA RequestStep ==
    ASSUME TypeOK, RequestOK, [Next]_vars
    PROVE  RequestOK'
<1> USE DEF RequestOK, state, runVars, environment, history
<1>0. /\ passKey \in PassKey /\ latest \in PassKey
      /\ runPc \in {"top", "arm", "asleep", "listing", "visiting", "retrying", "stopped"}
      /\ dirty \in BOOLEAN /\ incomplete \in BOOLEAN /\ wake \in BOOLEAN
      /\ listRetry \in BOOLEAN /\ ctxDone \in BOOLEAN
  BY Zenon DEF TypeOK
<1>1. CASE UNCHANGED <<passKey, latest, dirty, listRetry, incomplete, runPc, ctxDone>>
           /\ (wake => wake')
  BY <1>1, Zenon
<1>2. ASSUME NEW generation \in Generations, Request(generation)
      PROVE  RequestOK'
  <2>1. passKey.epoch \in 0 .. MaxRequests /\ latest.epoch \in 0 .. MaxRequests
    BY <1>0, Zenon DEF PassKey
  <2>2. latest'.epoch = latest.epoch + 1
    BY <1>2, Zenon DEF Request
  <2>3. passKey' = passKey /\ passKey # latest' /\ passKey'.epoch <= latest'.epoch
    BY <1>2, <2>1, <2>2, BoundsAssumption DEF Request
  <2> QED
    BY <1>0, <1>2, <2>3, Zenon DEF Request
<1>3. CASE RunStop
  BY <1>0, <1>3, Zenon DEF RunStop
<1>4. CASE RunTakeRequest
  <2>1. latest.epoch <= latest.epoch
    BY <1>0, BoundsAssumption DEF PassKey
  <2> QED
    BY <1>0, <1>4, <2>1, Zenon DEF RunTakeRequest
<1>5. CASE RunNoRequest \/ RunArm \/ RunWake \/ RunRetryDue \/ RunPrune \/ RunSweep
  <2>1. CASE RunNoRequest
    BY <1>0, <2>1, Zenon DEF RunNoRequest
  <2>2. CASE RunArm
    BY <1>0, <2>2, Zenon DEF RunArm
  <2>3. CASE RunWake
    BY <1>0, <2>3, Zenon DEF RunWake
  <2>4. CASE RunRetryDue
    BY <1>0, <2>4, Zenon DEF RunRetryDue
  <2>5. CASE RunPrune
    BY <1>0, <2>5, Zenon DEF RunPrune
  <2>6. CASE RunSweep
    BY <1>0, <2>6, Zenon DEF RunSweep
  <2> QED
    BY <1>5, <2>1, <2>2, <2>3, <2>4, <2>5, <2>6, Zenon
<1>6. CASE RunListRetry
  BY <1>0, <1>6, Zenon DEF RunListRetry
<1>7. CASE RunListFails
  BY <1>0, <1>7, Zenon DEF RunListFails
<1>8. CASE \E containers \in SUBSET Containers : RunList(containers)
  BY <1>0, <1>8 DEF RunList
<1>9. CASE RunSuperseded
  BY <1>0, <1>9, Zenon DEF RunSuperseded
<1>10. CASE RunFinishPass
  BY <1>0, <1>10, Zenon DEF RunFinishPass
<1>11. CASE RunRetryDone
  BY <1>0, <1>11, Zenon DEF RunRetryDone
<1>12. CASE Cancel
  BY <1>0, <1>12, Zenon DEF Cancel
<1>13. CASE \E c \in Containers : RunVisit(c) \/ RunRetry(c)
  <2>1. UNCHANGED <<passKey, latest, dirty, listRetry, incomplete, runPc, ctxDone, wake>>
    BY <1>13, Zenon DEF RunVisit, RunRetry
  <2> QED
    BY <1>1, <2>1, Zenon
<1>14. CASE ListenerStep \/ Event
  <2>1. /\ UNCHANGED <<passKey, latest, dirty, listRetry, incomplete, runPc, ctxDone>>
        /\ wake => wake'
    BY <1>14, ZenonT(20) DEF ListenerStep, Event, ListenerStart, ListenerReserve,
       ListenerNotify, ListenerStop, EventStart, EventEnd
  <2> QED
    BY <1>1, <2>1, Zenon
<1>15. CASE \E c \in Containers : HoldStep(c) \/ BackoffElapses(c) \/ ProcessedExpires(c)
  <2>1. /\ UNCHANGED <<passKey, latest, dirty, listRetry, incomplete, runPc, ctxDone>>
        /\ wake => wake'
    BY <1>15, HoldFrame DEF BackoffElapses, ProcessedExpires
  <2> QED
    BY <1>1, <2>1, Zenon
<1>16. CASE RetryTimerElapses \/ Tick \/ CloseAndWait \/ UNCHANGED vars
  BY <1>1, <1>16, Zenon DEF RetryTimerElapses, Tick, CloseAndWait, vars
<1> QED
  BY <1>2, <1>3, <1>4, <1>5, <1>6, <1>7, <1>8, <1>9, <1>10, <1>11, <1>12, <1>13, <1>14,
     <1>15, <1>16, Zenon DEF Next, RunStep

LEMMA RequestInv == Spec => []RequestOK
<1>1. Init => RequestOK
  BY DEF Init, RequestOK, NoKey
<1>2. TypeOK /\ RequestOK /\ [Next]_vars => RequestOK'
  BY RequestStep, Zenon
<1> QED
  BY <1>1, <1>2, TypeCorrect, PTL DEF Spec

\* run() never sleeps over a request: when it waits without a wake permit, no request
\* is untaken, and the latest pass ended or has its list retry armed.
THEOREM RequestsCovered == Spec => []RequestCovered
<1>1. RequestOK => RequestCovered
  BY Zenon DEF RequestOK, RequestCovered
<1> QED
  BY <1>1, RequestInv, PTL

----------------------------------------------------------------------------
(* The holds. *)

(***************************************************************************)
(* A reservation says whether its hold reconciles; only a reconciling hold  *)
(* reaches the reconcile steps, and only one of run()'s marks the container *)
(* processed.  The owner of a hold waits for it.                            *)
(***************************************************************************)
OwnerWaits(c) ==
    /\ hold[c].owner = "run" => runAwait = c
    /\ hold[c].owner = "listener" => /\ listener.pc \in {"await", "awaitEnd"}
                                     /\ listener.container = c

HoldOK ==
    \A c \in Containers : hold[c] # None =>
        /\ inFlight[c].running = hold[c].reconcile
        /\ hold[c].pc \in {"begin", "processing", "mark"} => hold[c].reconcile
        /\ hold[c].pc = "mark" => hold[c].owner = "run"
        /\ OwnerWaits(c)

AwaitOK == runAwait # None => runPc \in {"visiting", "retrying"}

LEMMA HoldInvStep ==
    ASSUME TypeOK, HeldOK, HoldOK, [Next]_vars
    PROVE  HoldOK'
<1> USE DEF OwnerWaits, state, runVars, environment, history
<1>0. /\ inFlight \in [Containers -> Reservation \cup {None}]
      /\ hold \in [Containers -> Hold \cup {None}]
      /\ runAwait \in Containers \cup {None}
      /\ listener \in Handler
  BY Zenon DEF TypeOK
<1>1. CASE UNCHANGED <<inFlight, hold, runAwait, listener>>
  BY <1>1, Zenon DEF HoldOK
<1>2. ASSUME NEW c \in Containers, RunVisit(c) \/ RunRetry(c)
      PROVE  HoldOK'
  <2>1. runAwait = None /\ UNCHANGED listener
    BY <1>2, Zenon DEF RunVisit, RunRetry
  <2>2. CASE inFlight[c] = None
    <3>1. /\ inFlight' = [inFlight EXCEPT ![c] = Reserve(FALSE)]
          /\ hold' = [hold EXCEPT ![c] = NewHold("run", TRUE, NoTime, FALSE)]
          /\ runAwait' = c
      BY <1>2, <2>2, Zenon DEF RunVisit, RunRetry, ReconcileFromRun
    <3>2. \A d \in Containers : hold[d] # None => hold[d].owner = "listener"
      BY <1>0, <2>1, NotNone, Zenon DEF HoldOK, Hold
    <3>3. /\ inFlight'[c] = Reserve(FALSE)
          /\ hold'[c] = NewHold("run", TRUE, NoTime, FALSE)
          /\ \A d \in Containers \ {c} : inFlight'[d] = inFlight[d] /\ hold'[d] = hold[d]
      BY <1>0, <3>1, Zenon
    <3>4. inFlight'[c].running = TRUE
      BY <3>3, ReserveFields, Zenon
    <3>5. /\ hold'[c].reconcile = TRUE
          /\ hold'[c].pc = "begin" /\ hold'[c].owner = "run"
      BY <3>3, NewHoldFields, Zenon
    <3>6. OwnerWaits(c)' /\ inFlight'[c].running = hold'[c].reconcile
      BY <3>1, <3>4, <3>5, Zenon
    <3> HIDE DEF OwnerWaits
    <3>7. \A d \in Containers \ {c} : hold[d] # None => OwnerWaits(d)'
      BY <2>1, <3>2, <3>3 DEF HoldOK, OwnerWaits
    <3> QED
      BY <3>3, <3>5, <3>6, <3>7, Zenon DEF HoldOK
  <2>3. CASE inFlight[c] # None
    <3>1. inFlight' = [inFlight EXCEPT ![c] = ReserveHeld(@, NoTime, FALSE)]
          /\ UNCHANGED <<hold, runAwait>>
      BY <1>2, <2>3, Zenon DEF RunVisit, RunRetry, ReconcileFromRun
    <3>2. \A d \in Containers : inFlight[d] # None => inFlight'[d].running = inFlight[d].running
      BY <1>0, <3>1, Zenon DEF ReserveHeld, Reservation
    <3> QED
      BY <2>1, <3>1, <3>2, Zenon DEF HoldOK, HeldOK
  <2> QED
    BY <2>2, <2>3, Zenon
<1>3. ASSUME NEW c \in Containers, ListenerReserve(c)
      PROVE  HoldOK'
  <2>1. listener.pc = "reserve" /\ UNCHANGED runAwait
    BY <1>3, Zenon DEF ListenerReserve
  <2>2. \A d \in Containers : hold[d] # None => hold[d].owner = "run"
    BY <1>0, <2>1, Zenon DEF HoldOK, Hold
  <2>3. CASE inFlight[c] = None
    <3>1. /\ inFlight' = [inFlight EXCEPT ![c] = Reserve(FALSE)]
          /\ hold' = [hold EXCEPT ![c] = NewHold("listener", TRUE, NoTime, FALSE)]
          /\ listener' = Handling("await", c)
      BY <1>3, <2>3, Zenon DEF ListenerReserve
    <3>2. /\ inFlight'[c] = Reserve(FALSE)
          /\ hold'[c] = NewHold("listener", TRUE, NoTime, FALSE)
          /\ \A d \in Containers \ {c} : inFlight'[d] = inFlight[d] /\ hold'[d] = hold[d]
      BY <1>0, <3>1, Zenon
    <3>3. /\ inFlight'[c].running = TRUE
          /\ listener'.pc = "await" /\ listener'.container = c
      BY <3>1, <3>2, ReserveFields, Zenon DEF Handling
    <3>4. /\ hold'[c].reconcile = TRUE
          /\ hold'[c].pc = "begin" /\ hold'[c].owner = "listener"
      BY <3>2, NewHoldFields, Zenon
    <3>5. OwnerWaits(c)' /\ inFlight'[c].running = hold'[c].reconcile
      BY <3>3, <3>4, Zenon
    <3> HIDE DEF OwnerWaits
    <3>6. \A d \in Containers \ {c} : hold[d] # None => OwnerWaits(d)'
      BY <2>1, <2>2, <3>2, Zenon DEF HoldOK, OwnerWaits
    <3> QED
      BY <3>2, <3>4, <3>5, <3>6, Zenon DEF HoldOK
  <2>4. CASE inFlight[c] # None
    <3>1. inFlight' = [inFlight EXCEPT ![c] = ReserveHeld(@, listener.time, FALSE)]
          /\ UNCHANGED hold
      BY <1>3, <2>4, Zenon DEF ListenerReserve
    <3>2. \A d \in Containers : inFlight[d] # None => inFlight'[d].running = inFlight[d].running
      BY <1>0, <3>1, Zenon DEF ReserveHeld, Reservation
    <3> QED
      BY <2>1, <2>2, <3>1, <3>2, Zenon DEF HoldOK, HeldOK
  <2> QED
    BY <2>3, <2>4, Zenon
<1>4. ASSUME NEW c \in Containers, NEW eventTime \in 1 .. clock, EventEnd(c, eventTime)
      PROVE  HoldOK'
  <2>1. listener.pc = "idle" /\ UNCHANGED runAwait
    BY <1>4, Zenon DEF EventEnd
  <2>2. \A d \in Containers : hold[d] # None => hold[d].owner = "run"
    BY <1>0, <2>1, Zenon DEF HoldOK, Hold
  <2>3. CASE inFlight[c] = None
    <3>1. /\ inFlight' = [inFlight EXCEPT ![c] = Reserve(TRUE)]
          /\ hold' = [hold EXCEPT ![c] = NewHold("listener", FALSE, eventTime, FALSE)]
          /\ listener' = Handling("awaitEnd", c)
      BY <1>4, <2>3, Zenon DEF EventEnd
    <3>2. /\ inFlight'[c] = Reserve(TRUE)
          /\ hold'[c] = NewHold("listener", FALSE, eventTime, FALSE)
          /\ \A d \in Containers \ {c} : inFlight'[d] = inFlight[d] /\ hold'[d] = hold[d]
      BY <1>0, <3>1, Zenon
    <3>3. eventTime # NoTime
      BY DEF NoTime, TypeOK
    <3>4. /\ inFlight'[c].running = FALSE
          /\ listener'.pc = "awaitEnd" /\ listener'.container = c
      BY <3>1, <3>2, ReserveFields, Zenon DEF Handling
    <3>5. /\ hold'[c].reconcile = FALSE
          /\ hold'[c].pc = "terminate" /\ hold'[c].owner = "listener"
      <4>1. /\ NewHold("listener", FALSE, eventTime, FALSE).reconcile = FALSE
            /\ NewHold("listener", FALSE, eventTime, FALSE).pc = "terminate"
            /\ NewHold("listener", FALSE, eventTime, FALSE).owner = "listener"
        <5> HIDE DEF OwnerWaits
        <5> QED BY <3>3, NewHoldEnds, Zenon
      <4>2. hold'[c] = NewHold("listener", FALSE, eventTime, FALSE)
        BY <3>2, Zenon
      <4> QED BY <4>1, <4>2, Zenon
    <3>6. OwnerWaits(c)' /\ inFlight'[c].running = hold'[c].reconcile
      BY <3>4, <3>5, Zenon
    <3> HIDE DEF OwnerWaits
    <3>7. \A d \in Containers \ {c} : hold[d] # None => OwnerWaits(d)'
      BY <2>1, <2>2, <3>2, Zenon DEF HoldOK, OwnerWaits
    <3> QED
      BY <3>2, <3>5, <3>6, <3>7, Zenon DEF HoldOK
  <2>4. CASE inFlight[c] # None
    <3>1. inFlight' = [inFlight EXCEPT ![c] = ReserveHeld(@, eventTime, TRUE)]
          /\ UNCHANGED <<hold, listener>>
      BY <1>4, <2>4, Zenon DEF EventEnd
    <3>2. \A d \in Containers : inFlight[d] # None => inFlight'[d].running = inFlight[d].running
      BY <1>0, <3>1, Zenon DEF ReserveHeld, Reservation
    <3> QED
      BY <2>1, <2>2, <3>1, <3>2, Zenon DEF HoldOK, HeldOK
  <2> QED
    BY <2>3, <2>4, Zenon
<1>5. CASE listener.pc \notin {"await", "awaitEnd"} /\ UNCHANGED <<inFlight, hold, runAwait>>
  <2>1. \A d \in Containers : hold[d] # None => hold[d].owner = "run"
    BY <1>0, <1>5, Zenon DEF HoldOK, Hold
  <2> QED
    BY <1>5, <2>1, Zenon DEF HoldOK
<1>6. ASSUME NEW c \in Containers, HoldStep(c)
      PROVE  HoldOK'
  <2>1. CASE HoldTerminate(c) \/ HoldBegin(c) \/ HoldMarkProcessed(c)
             \/ \E outcome \in {"ok", "gone", "fail"} : HoldSettle(c, outcome)
    <3>1. hold[c] \in Hold /\ UNCHANGED <<inFlight, runAwait, listener>>
      BY <1>0, <2>1, Zenon DEF HoldTerminate, HoldBegin, HoldMarkProcessed, HoldSettle
    <3>2. \A d \in Containers \ {c} : hold'[d] = hold[d]
      BY <1>0, <2>1, Zenon DEF HoldTerminate, HoldBegin, HoldMarkProcessed, HoldSettle
    <3>3. hold'[c].owner = hold[c].owner /\ hold'[c].reconcile = hold[c].reconcile
      <4>1. CASE HoldTerminate(c)
        BY <1>0, <3>1, <4>1, Zenon DEF HoldTerminate, Hold
      <4>2. CASE HoldBegin(c)
        BY <1>0, <3>1, <4>2, Zenon DEF HoldBegin, Hold
      <4>3. CASE HoldMarkProcessed(c)
        BY <1>0, <3>1, <4>3, Zenon DEF HoldMarkProcessed, Hold
      <4>4. CASE \E outcome \in {"ok", "gone", "fail"} : HoldSettle(c, outcome)
        BY <1>0, <3>1, <4>4 DEF HoldSettle, Hold
      <4> QED
        BY <2>1, <4>1, <4>2, <4>3, <4>4, Zenon
    <3>4. /\ hold'[c].pc \in {"begin", "processing", "mark"} => hold[c].reconcile
          /\ hold'[c].pc = "mark" => hold[c].owner = "run"
      <4>1. CASE HoldTerminate(c)
        BY <1>0, <3>1, <4>1, Zenon DEF HoldTerminate, Hold
      <4>2. CASE HoldBegin(c)
        BY <1>0, <3>1, <4>2, Zenon DEF HoldBegin, Hold, HoldOK
      <4>3. CASE HoldMarkProcessed(c)
        BY <1>0, <3>1, <4>3, Zenon DEF HoldMarkProcessed, Hold
      <4>4. CASE \E outcome \in {"ok", "gone", "fail"} : HoldSettle(c, outcome)
        BY <1>0, <3>1, <4>4 DEF HoldSettle, Hold, HoldOK
      <4> QED
        BY <2>1, <4>1, <4>2, <4>3, <4>4, Zenon
    <3>5. hold[c] # None
      BY <3>1, NotNone, Zenon
    <3>6. \A d \in Containers : OwnerWaits(d) => OwnerWaits(d)'
      BY <3>1, <3>2, <3>3, Zenon
    <3> HIDE DEF OwnerWaits
    <3> QED
      BY <3>1, <3>2, <3>3, <3>4, <3>5, <3>6, Zenon DEF HoldOK
  <2>2. CASE HoldNextWork(c)
    <3>1. /\ hold' = [hold EXCEPT ![c] = NewHold(@.owner, inFlight[c].reconcile,
                                                 inFlight[c].terminateAt, @.failed)]
          /\ inFlight'[c].running = inFlight[c].reconcile
          /\ \A d \in Containers \ {c} : inFlight'[d] = inFlight[d]
          /\ inFlight[c].reconcile \/ inFlight[c].terminateAt # NoTime
          /\ hold[c] # None
          /\ UNCHANGED <<runAwait, listener>>
      BY <1>0, <2>2, Zenon DEF HoldNextWork
    <3>2. /\ hold'[c] = NewHold(hold[c].owner, inFlight[c].reconcile,
                                inFlight[c].terminateAt, hold[c].failed)
          /\ \A d \in Containers \ {c} : hold'[d] = hold[d]
      BY <1>0, <3>1, Zenon
    <3>3. /\ hold'[c].owner = hold[c].owner /\ hold'[c].reconcile = inFlight[c].reconcile
          /\ inFlight[c].terminateAt # NoTime => hold'[c].pc = "terminate"
          /\ inFlight[c].terminateAt = NoTime => hold'[c].pc = "begin"
      <4> HIDE DEF OwnerWaits
      <4>1. hold'[c] = NewHold(hold[c].owner, inFlight[c].reconcile,
                               inFlight[c].terminateAt, hold[c].failed)
        BY <3>2, Zenon
      <4> QED BY <4>1, NewHoldParts
    <3>4. \A d \in Containers : OwnerWaits(d) => OwnerWaits(d)'
      BY <3>1, <3>2, <3>3, Zenon
    <3> HIDE DEF OwnerWaits
    <3>5. /\ hold'[c].pc = "begin" => hold'[c].reconcile
          /\ hold'[c].pc \in {"terminate", "begin"}
          /\ inFlight'[c].running = hold'[c].reconcile
      BY <3>1, <3>3, Zenon
    <3>6. \A d \in Containers \ {c} : /\ hold'[d] = hold[d] /\ inFlight'[d] = inFlight[d]
                                      /\ OwnerWaits(d) => OwnerWaits(d)'
      BY <3>1, <3>2, <3>4, Zenon
    <3>7. OwnerWaits(c)'
      BY <3>1, <3>4, Zenon DEF HoldOK
    <3> QED
      BY <3>5, <3>6, <3>7, Zenon DEF HoldOK
  <2>3. CASE HoldRelease(c)
    <3>1. /\ hold[c] # None /\ hold'[c] = None
          /\ \A d \in Containers \ {c} : hold'[d] = hold[d] /\ inFlight'[d] = inFlight[d]
          /\ hold[c].owner = "run" => UNCHANGED listener
          /\ hold[c].owner # "run" => UNCHANGED runAwait
      BY <1>0, <2>3, Zenon DEF HoldRelease
    <3>2. hold[c].owner \in {"run", "listener"}
      BY <1>0, <3>1, Zenon DEF Hold
    <3>3. \A d \in Containers \ {c} :
             hold[d] # None => OwnerWaits(d) /\ (OwnerWaits(d) => OwnerWaits(d)')
      BY <3>1, <3>2, Zenon DEF HoldOK
    <3> HIDE DEF OwnerWaits
    <3> QED
      BY <3>1, <3>3, Zenon DEF HoldOK
  <2> QED
    BY <1>6, <2>1, <2>2, <2>3, Zenon DEF HoldStep
<1>7. CASE ListenerStart \/ ListenerNotify \/ ListenerStop
  BY <1>5, <1>7, Zenon DEF ListenerStart, ListenerNotify, ListenerStop
<1>8. ASSUME NEW c \in Containers, NEW eventTime \in 1 .. clock, EventStart(c, eventTime)
      PROVE  HoldOK'
  BY <1>5, <1>8, Zenon DEF EventStart
<1>9. CASE RunStep /\ ~\E c \in Containers : RunVisit(c) \/ RunRetry(c)
  BY <1>1, <1>9, Zenon DEF RunStep, RunStop, RunTakeRequest, RunNoRequest, RunArm, RunWake,
                    RunListRetry, RunRetryDue, RunListFails, RunList, RunSuperseded,
                    RunFinishPass, RunRetryDone
<1>10. CASE \E c \in Containers : BackoffElapses(c) \/ ProcessedExpires(c)
  BY <1>1, <1>10, Zenon DEF BackoffElapses, ProcessedExpires
<1>11. CASE \/ \E generation \in Generations : Request(generation)
            \/ RunPrune \/ RunSweep \/ RetryTimerElapses \/ Tick \/ Cancel \/ CloseAndWait
            \/ UNCHANGED vars
  BY <1>1, <1>11, Zenon DEF Request, RunPrune, RunSweep, RetryTimerElapses, Tick, Cancel,
                     CloseAndWait, vars
<1> QED
  BY <1>2, <1>3, <1>4, <1>6, <1>7, <1>8, <1>9, <1>10, <1>11, Zenon
     DEF Next, ListenerStep, Event, RunStep

LEMMA AwaitStep ==
    ASSUME TypeOK, AwaitOK, [Next]_vars
    PROVE  AwaitOK'
<1> USE DEF AwaitOK, state, runVars, environment, history
<1>1. CASE UNCHANGED <<runPc, runAwait>>
  BY <1>1, Zenon
<1>2. CASE RunStep \/ RunPrune \/ RunSweep
  <2>1. CASE \E c \in Containers : RunVisit(c) \/ RunRetry(c)
    BY <2>1, Zenon DEF RunVisit, RunRetry
  <2>2. CASE ~\E c \in Containers : RunVisit(c) \/ RunRetry(c)
    BY <1>2, <2>2, Zenon
     DEF RunStep, RunStop, RunTakeRequest, RunNoRequest, RunArm, RunWake,
           RunListRetry, RunRetryDue, RunListFails, RunList, RunSuperseded,
           RunFinishPass, RunRetryDone, RunPrune, RunSweep
  <2> QED
    BY <2>1, <2>2, Zenon
<1>3. ASSUME NEW c \in Containers, HoldStep(c)
      PROVE  AwaitOK'
  <2>1. UNCHANGED runPc
    BY <1>3, HoldFrame, Zenon
  <2>2. UNCHANGED runAwait \/ runAwait' = None
    BY <1>3, Zenon DEF HoldStep, HoldTerminate, HoldBegin, HoldSettle, HoldMarkProcessed,
                HoldNextWork, HoldRelease
  <2> QED
    BY <2>1, <2>2, Zenon
<1>4. CASE ListenerStep \/ Event
  BY <1>1, <1>4, Zenon DEF ListenerStep, Event, ListenerStart, ListenerReserve, ListenerNotify,
                    ListenerStop, EventStart, EventEnd
<1>5. CASE \E c \in Containers : BackoffElapses(c) \/ ProcessedExpires(c)
  BY <1>1, <1>5, Zenon DEF BackoffElapses, ProcessedExpires
<1>6. CASE \/ \E generation \in Generations : Request(generation)
           \/ RetryTimerElapses \/ Tick \/ Cancel \/ CloseAndWait \/ UNCHANGED vars
  BY <1>1, <1>6, Zenon DEF Request, RetryTimerElapses, Tick, Cancel, CloseAndWait, vars
<1> QED
  BY <1>2, <1>3, <1>4, <1>5, <1>6, Zenon DEF Next

LEMMA HoldInv == Spec => [](HoldOK /\ AwaitOK)
<1>1. Init => HoldOK /\ AwaitOK
  BY Zenon DEF Init, HoldOK, AwaitOK
<1>2. TypeOK /\ HeldOK /\ HoldOK /\ AwaitOK /\ [Next]_vars => (HoldOK /\ AwaitOK)'
  BY HoldInvStep, AwaitStep, Zenon
<1> QED
  BY <1>1, <1>2, TypeHeld, PTL DEF Spec

----------------------------------------------------------------------------
(* The processed map and shutdown. *)

LEMMA PruneStep ==
    ASSUME TypeOK, HoldOK, AwaitOK, PruneCovered, [Next]_vars
    PROVE  PruneCovered'
<1> USE DEF PruneCovered, state, runVars, environment, history
<1>0. processed \in [Containers -> Inspected \cup {None}]
  BY Zenon DEF TypeOK
<1>1. CASE UNCHANGED <<runPc, pruneArm, processed>>
  BY <1>1, Zenon
<1>2. CASE runPc' # "asleep"
  BY <1>2, Zenon
<1>3. CASE RunArm
  BY <1>3, Zenon DEF RunArm, ArmPrune
<1>4. CASE (RunStep /\ ~RunArm) \/ RunPrune \/ RunSweep
  BY <1>1, <1>2, <1>4, Zenon DEF RunStep, RunStop, RunTakeRequest, RunNoRequest, RunWake,
     RunListRetry, RunRetryDue, RunListFails, RunList, RunSuperseded, RunVisit, RunRetry,
     RunFinishPass, RunRetryDone, RunPrune, RunSweep
<1>5. ASSUME NEW c \in Containers, HoldStep(c)
      PROVE  PruneCovered'
  <2>1. CASE HoldMarkProcessed(c)
    <3>1. hold[c] # None /\ hold[c].pc = "mark" /\ UNCHANGED runPc
      BY <2>1, Zenon DEF HoldMarkProcessed
    <3>2. runAwait = c
      BY <3>1, Zenon DEF HoldOK, OwnerWaits
    <3> QED
      BY <1>2, <3>1, <3>2, NotNone, Zenon DEF AwaitOK
  <2>2. CASE ~HoldMarkProcessed(c)
    <3>1. UNCHANGED <<runPc, pruneArm>>
      BY <1>5, HoldFrame, Zenon
    <3>2. UNCHANGED processed
      BY <1>5, <2>2, Zenon DEF HoldStep, HoldTerminate, HoldBegin, HoldSettle, HoldNextWork,
                        HoldRelease
    <3> QED
      BY <1>1, <3>1, <3>2, Zenon
  <2> QED
    BY <2>1, <2>2, Zenon
<1>6. ASSUME NEW c \in Containers, NEW eventTime \in 1 .. clock, EventStart(c, eventTime)
      PROVE  PruneCovered'
  <2>1. /\ UNCHANGED <<runPc, pruneArm>>
        /\ processed' = [processed EXCEPT ![c] = None]
    BY <1>6, Zenon DEF EventStart
  <2> QED
    BY <1>0, <2>1, Zenon
<1>7. CASE ListenerStep \/ \E c \in Containers, eventTime \in 1 .. clock : EventEnd(c, eventTime)
  BY <1>1, <1>7, Zenon DEF ListenerStep, ListenerStart, ListenerReserve, ListenerNotify,
                    ListenerStop, EventEnd
<1>8. ASSUME NEW c \in Containers, ProcessedExpires(c)
      PROVE  PruneCovered'
  BY <1>8, Zenon DEF ProcessedExpires
<1>9. CASE \/ \E generation \in Generations : Request(generation)
           \/ \E c \in Containers : BackoffElapses(c)
           \/ RetryTimerElapses \/ Tick \/ Cancel \/ CloseAndWait \/ UNCHANGED vars
  BY <1>1, <1>9, Zenon DEF Request, BackoffElapses, RetryTimerElapses, Tick, Cancel,
                    CloseAndWait, vars
<1> QED
  BY <1>3, <1>4, <1>5, <1>6, <1>7, <1>8, <1>9, Zenon DEF Next, Event

\* The processed map is bounded in time: while run() waits, there are entries only with
\* the prune timer armed, because only run()'s own holds add entries.
THEOREM PrunesCovered == Spec => []PruneCovered
<1>1. Init => PruneCovered
  BY Zenon DEF Init, PruneCovered
<1>2. TypeOK /\ HoldOK /\ AwaitOK /\ PruneCovered /\ [Next]_vars => PruneCovered'
  BY PruneStep, Zenon
<1> QED
  BY <1>1, <1>2, TypeCorrect, HoldInv, PTL DEF Spec

\* Once closed, the two actors that start holds have returned.
ClosedOK ==
    closed => /\ listener.pc = "stopped" /\ runPc = "stopped"
              /\ \A c \in Containers : hold[c] = None

LEMMA ClosedStep ==
    ASSUME ClosedOK, [Next]_vars
    PROVE  ClosedOK'
<1> USE DEF ClosedOK, state, runVars, environment, history
<1>1. CASE UNCHANGED <<closed, listener, runPc, hold>>
  BY <1>1, Zenon
<1>3. CASE RunStep \/ RunPrune \/ RunSweep
  <2>1. runPc # "stopped"
    BY <1>3, Zenon DEF RunStep, RunStop, RunTakeRequest, RunNoRequest, RunArm, RunWake,
                RunListRetry, RunRetryDue, RunPrune, RunSweep, RunListFails, RunList,
                RunSuperseded, RunVisit, RunRetry, RunFinishPass, RunRetryDone
  <2>2. UNCHANGED closed
    BY <1>3, Zenon DEF RunStep, RunStop, RunTakeRequest, RunNoRequest, RunArm, RunWake,
                RunListRetry, RunRetryDue, RunPrune, RunSweep, RunListFails, RunList,
                RunSuperseded, RunVisit, RunRetry, RunFinishPass, RunRetryDone
  <2> QED
    BY <2>1, <2>2, Zenon
<1>4. CASE ListenerStep \/ Event
  <2>1. listener.pc # "stopped" /\ UNCHANGED closed
    BY <1>4, ZenonT(40) DEF ListenerStep, Event, ListenerStart, ListenerReserve, ListenerNotify,
                ListenerStop, EventStart, EventEnd
  <2> QED
    BY <2>1, Zenon
<1>5. ASSUME NEW c \in Containers, HoldStep(c)
      PROVE  ClosedOK'
  <2>1. hold[c] # None
    BY <1>5, Zenon DEF HoldStep, HoldTerminate, HoldBegin, HoldSettle, HoldMarkProcessed,
                HoldNextWork, HoldRelease
  <2> QED
    BY <1>5, <2>1, HoldFrame, Zenon
<1>6. CASE CloseAndWait
  BY <1>6, Zenon DEF CloseAndWait
<1>7. CASE \/ \E generation \in Generations : Request(generation)
           \/ \E c \in Containers : BackoffElapses(c) \/ ProcessedExpires(c)
           \/ RetryTimerElapses \/ Tick \/ Cancel \/ UNCHANGED vars
  BY <1>1, <1>7, Zenon DEF Request, BackoffElapses, ProcessedExpires, RetryTimerElapses, Tick,
                    Cancel, vars
<1> QED
  BY <1>3, <1>4, <1>5, <1>6, <1>7, Zenon DEF Next

\* After the daemon's shutdown no hold works on a container, and none is reserved.
THEOREM ShutdownIsQuiescent == Spec => []ShutdownQuiescent
<1>1. Init => ClosedOK
  BY Zenon DEF Init, ClosedOK
<1>2. ClosedOK /\ [Next]_vars => ClosedOK'
  BY ClosedStep, Zenon
<1>3. ClosedOK /\ HeldOK => ShutdownQuiescent
  BY Zenon DEF ClosedOK, HeldOK, ShutdownQuiescent
<1> QED
  BY <1>1, <1>2, <1>3, TypeHeld, PTL DEF Spec

-----------------------------------------------------------------------------
(***************************************************************************)
(* The announcement.  Every container that the latest pass has visited, and *)
(* every container that was due for a retry when the latest request came,   *)
(* is Done, that is settled under the latest key, pending, or about to be   *)
(* reconciled under it.  An announcement needs a complete pass, no pending  *)
(* container and no reconcile running or queued, so then Done leaves only   *)
(* "settled".                                                               *)
(***************************************************************************)

\* A hold has a reconcile under the latest key before it, or in progress.
Working(c) ==
    /\ inFlight[c] # None
    /\ \/ inFlight[c].reconcile
       \/ hold[c].pc \in {"terminate", "begin"} /\ hold[c].reconcile
       \/ hold[c].pc = "processing" /\ hold[c].key = latest

Done(c) == settledKey[c] = latest \/ pending[c] # None \/ Working(c)

(***************************************************************************)
(* Keys only grow, a pending entry always carries the latest one, and a     *)
(* reconcile that began under an older key never runs for a container that  *)
(* is settled under the latest.                                             *)
(***************************************************************************)
KeysOK ==
    /\ announced.epoch <= latest.epoch
    /\ incomplete => announced # latest
    /\ \A c \in Containers :
          /\ settledKey[c].epoch <= latest.epoch
          /\ pending[c] # None => pending[c].key = latest
          /\ hold[c] # None => hold[c].key.epoch <= latest.epoch
          /\ (hold[c] # None /\ hold[c].pc = "processing" /\ settledKey[c] = latest) =>
                hold[c].key = latest

PassOK ==
    /\ \A c \in owed : Done(c)
    /\ runPc = "visiting" /\ passKey = latest => \A c \in listed \ queue : Done(c)
    /\ ~incomplete /\ latest # NoKey => \A c \in listed : Done(c)

LEMMA AnnounceCases ==
    ASSUME NEW i \in BOOLEAN, NEW p, NEW f
    PROVE  \/ AnnounceLocked(i, p, f) = announced
           \/ /\ AnnounceLocked(i, p, f) = latest
              /\ ~i
              /\ \A c \in Containers : p[c] = None
              /\ \A c \in Containers : f[c] # None => ~f[c].reconcile /\ ~f[c].running
BY Zenon DEF AnnounceLocked

LEMMA SettleEffect ==
    ASSUME TypeOK, NEW c \in Containers, NEW outcome \in {"ok", "gone", "fail"},
           HoldSettle(c, outcome)
    PROVE  /\ hold[c] \in Hold /\ hold[c].pc = "processing"
           /\ pending'[c] # None <=>
                 outcome = "fail" \/ (pending[c] # None /\ pending[c].key # hold[c].key)
           /\ pending'[c] # None =>
                 pending'[c].key = latest \/ (pending[c] # None /\ pending'[c].key = pending[c].key)
           /\ settledKey'[c] = IF outcome = "fail" THEN settledKey[c] ELSE hold[c].key
           /\ hold'[c].key = NoKey /\ hold'[c].pc \in {"mark", "next"}
           /\ \A d \in Containers \ {c} :
                 pending'[d] = pending[d] /\ settledKey'[d] = settledKey[d] /\ hold'[d] = hold[d]
           /\ UNCHANGED inFlight
<1>0. /\ pending \in [Containers -> PendingEntry \cup {None}]
      /\ hold \in [Containers -> Hold \cup {None}]
      /\ settledKey \in [Containers -> PassKey]
  BY Zenon DEF TypeOK
<1>1. /\ hold[c] \in Hold /\ hold[c].pc = "processing"
      /\ UNCHANGED inFlight
  BY <1>0, Zenon DEF HoldSettle
<1>2. hold[c].key \in PassKey
  BY <1>1, Zenon DEF Hold
<1>3. pending' = [pending EXCEPT ![c] = Settle(@, hold[c].key, outcome # "fail")]
  BY Zenon DEF HoldSettle
<1>4. pending'[c] = Settle(pending[c], hold[c].key, outcome # "fail")
      /\ \A d \in Containers \ {c} : pending'[d] = pending[d]
  BY <1>0, <1>3, Zenon
<1>5. /\ pending'[c] # None <=>
            outcome = "fail" \/ (pending[c] # None /\ pending[c].key # hold[c].key)
      /\ pending'[c] # None =>
            pending'[c].key = latest \/ (pending[c] # None /\ pending'[c].key = pending[c].key)
  <2>1. CASE outcome = "fail" /\ pending[c] # None
    <3>1. pending'[c] = [pending[c] EXCEPT !.due = "later"]
      BY <1>4, <2>1, Zenon DEF Settle
    <3>2. pending'[c] \in PendingEntry /\ pending'[c].key = pending[c].key
      BY <1>0, <2>1, <3>1, Zenon DEF PendingEntry
    <3> QED
      BY <2>1, <3>2, NotNone, Zenon
  <2>2. CASE outcome = "fail" /\ pending[c] = None
    <3>1. pending'[c] \in PendingEntry /\ pending'[c].key = latest
      <4>1. /\ Settle(pending[c], hold[c].key, outcome # "fail") \in PendingEntry
            /\ Settle(pending[c], hold[c].key, outcome # "fail").key = latest
        BY <1>0, <2>2, SettleParts, Zenon
      <4> QED BY <1>4, <4>1, Zenon
    <3> QED
      BY <2>2, <3>1, NotNone, Zenon
  <2>3. CASE outcome # "fail" /\ (pending[c] = None \/ pending[c].key = hold[c].key)
    <3>1. pending'[c] = None
      BY <1>4, <2>3, Zenon DEF Settle
    <3> QED
      BY <2>3, <3>1, Zenon
  <2>4. CASE outcome # "fail" /\ pending[c] # None /\ pending[c].key # hold[c].key
    <3>1. pending'[c] \in PendingEntry /\ pending'[c].key = pending[c].key
      <4>1. /\ Settle(pending[c], hold[c].key, outcome # "fail") \in PendingEntry
            /\ Settle(pending[c], hold[c].key, outcome # "fail").key = pending[c].key
        BY <1>0, <2>4, SettleParts, Zenon
      <4> QED BY <1>4, <4>1, Zenon
    <3> QED
      BY <2>4, <3>1, NotNone, Zenon
  <2> QED
    BY <2>1, <2>2, <2>3, <2>4, Zenon
<1>6. /\ settledKey'[c] = IF outcome = "fail" THEN settledKey[c] ELSE hold[c].key
      /\ \A d \in Containers \ {c} : settledKey'[d] = settledKey[d]
  BY <1>0, Zenon DEF HoldSettle
<1>7. /\ hold'[c].key = NoKey /\ hold'[c].pc \in {"mark", "next"}
      /\ \A d \in Containers \ {c} : hold'[d] = hold[d]
  BY <1>0, <1>1, Zenon DEF HoldSettle, Hold
<1> QED
  BY <1>1, <1>4, <1>5, <1>6, <1>7, Zenon

\* The steps of a hold that change only its program counter, key or reading.
LEMMA MoveEffect ==
    ASSUME TypeOK, NEW c \in Containers,
           HoldTerminate(c) \/ HoldBegin(c) \/ HoldMarkProcessed(c)
    PROVE  /\ hold[c] \in Hold /\ hold[c] # None
           /\ hold'[c].reconcile = hold[c].reconcile
           /\ HoldTerminate(c) =>
                 /\ hold[c].pc = "terminate" /\ hold'[c].key = hold[c].key
                 /\ hold'[c].pc = IF hold[c].reconcile THEN "begin" ELSE "next"
           /\ HoldBegin(c) =>
                 /\ hold[c].pc = "begin" /\ hold'[c].key = latest
                 /\ hold'[c].pc = "processing"
           /\ HoldMarkProcessed(c) =>
                 /\ hold[c].pc = "mark" /\ hold'[c].key = hold[c].key
                 /\ hold'[c].pc = "next"
           /\ \A d \in Containers \ {c} : hold'[d] = hold[d]
           /\ UNCHANGED <<inFlight, pending, settledKey, announced, latest>>
<1> USE DEF state, runVars, environment, history
<1>0. hold \in [Containers -> Hold \cup {None}]
  BY Zenon DEF TypeOK
<1>1. /\ hold[c] \in Hold /\ hold[c] # None
      /\ UNCHANGED <<inFlight, pending, settledKey, announced, latest>>
  BY <1>0, Zenon DEF HoldTerminate, HoldBegin, HoldMarkProcessed
<1>2. CASE HoldTerminate(c)
  <2>1. /\ hold[c].pc = "terminate"
        /\ hold' = [hold EXCEPT ![c].terminateAt = NoTime,
                                ![c].pc = IF hold[c].reconcile THEN "begin" ELSE "next"]
    BY <1>2, Zenon DEF HoldTerminate
  <2> QED
    BY <1>0, <1>1, <2>1, Zenon DEF Hold, HoldBegin, HoldMarkProcessed
<1>3. CASE HoldBegin(c)
  <2>1. /\ hold[c].pc = "begin"
        /\ hold' = [hold EXCEPT ![c].key = latest, ![c].started = clock,
                                ![c].pc = "processing"]
    BY <1>3, Zenon DEF HoldBegin
  <2> QED
    BY <1>0, <1>1, <2>1, Zenon DEF Hold, HoldTerminate, HoldMarkProcessed
<1>4. CASE HoldMarkProcessed(c)
  <2>1. /\ hold[c].pc = "mark"
        /\ hold' = [hold EXCEPT ![c].pc = "next"]
    BY <1>4, Zenon DEF HoldMarkProcessed
  <2> QED
    BY <1>0, <1>1, <2>1, Zenon DEF Hold, HoldTerminate, HoldBegin
<1> QED
  BY <1>2, <1>3, <1>4, Zenon

LEMMA NextWorkEffect ==
    ASSUME TypeOK, HeldOK, NEW c \in Containers, HoldNextWork(c)
    PROVE  /\ hold[c].pc = "next" /\ inFlight[c] # None
           /\ hold'[c].reconcile = inFlight[c].reconcile
           /\ hold'[c].pc \in {"terminate", "begin"} /\ hold'[c].key = NoKey
           /\ inFlight'[c] # None
           /\ \A d \in Containers \ {c} : hold'[d] = hold[d] /\ inFlight'[d] = inFlight[d]
           /\ UNCHANGED <<pending, settledKey, announced, latest>>
<1>0. /\ hold \in [Containers -> Hold \cup {None}]
      /\ inFlight \in [Containers -> Reservation \cup {None}]
  BY Zenon DEF TypeOK
<1>1. inFlight'[c] # None /\ inFlight[c] # None
  BY NextWorkHeld, NotNone, Zenon
<1>2. /\ hold[c].pc = "next"
      /\ hold' = [hold EXCEPT ![c] = NewHold(@.owner, inFlight[c].reconcile,
                                             inFlight[c].terminateAt, @.failed)]
      /\ UNCHANGED <<pending, settledKey, announced, latest>>
      /\ \A d \in Containers \ {c} : inFlight'[d] = inFlight[d]
  BY <1>0, Zenon DEF HoldNextWork, history
<1>3. /\ hold'[c] = NewHold(hold[c].owner, inFlight[c].reconcile, inFlight[c].terminateAt,
                            hold[c].failed)
      /\ \A d \in Containers \ {c} : hold'[d] = hold[d]
  BY <1>0, <1>2, Zenon
<1>4. /\ hold'[c].reconcile = inFlight[c].reconcile
      /\ hold'[c].pc \in {"terminate", "begin"} /\ hold'[c].key = NoKey
  <2> DEFINE next == NewHold(hold[c].owner, inFlight[c].reconcile, inFlight[c].terminateAt,
                             hold[c].failed)
  <2>1. /\ next.reconcile = inFlight[c].reconcile /\ next.key = NoKey
        /\ next.pc = IF inFlight[c].terminateAt # NoTime THEN "terminate" ELSE "begin"
    BY NewHoldParts
  <2>2. hold'[c] = next
    BY <1>3, Zenon
  <2> HIDE DEF next
  <2> QED BY <2>1, <2>2, Zenon
<1> QED
  BY <1>1, <1>2, <1>3, <1>4, Zenon

LEMMA ReserveHeldFields ==
    ASSUME NEW held \in Reservation, NEW t
    PROVE  /\ held.reconcile = TRUE => ReserveHeld(held, t, FALSE).reconcile = TRUE
           /\ ReserveHeld(held, t, TRUE).reconcile = held.reconcile
           /\ ReserveHeld(held, NoTime, FALSE).reconcile = TRUE
BY Zenon DEF ReserveHeld, Reservation

\* What a step does that makes a reservation for c, or leaves work to its holder.
Reserves(c) ==
    /\ \A d \in Containers \ {c} : hold'[d] = hold[d] /\ inFlight'[d] = inFlight[d]
    /\ inFlight[c] = None => /\ hold'[c].key = NoKey /\ hold'[c].pc \in {"terminate", "begin"}
                             /\ inFlight'[c] # None
    /\ inFlight[c] # None => /\ hold'[c] = hold[c] /\ inFlight'[c] # None
                             /\ inFlight[c].reconcile = TRUE => inFlight'[c].reconcile = TRUE
    /\ UNCHANGED <<pending, settledKey, announced, latest>>

LEMMA VisitEffect ==
    ASSUME TypeOK, NEW c \in Containers, RunVisit(c) \/ RunRetry(c)
    PROVE  /\ Reserves(c)
           /\ inFlight[c] = None => hold'[c].reconcile = TRUE
           /\ inFlight[c] # None => inFlight'[c].reconcile = TRUE
<1> USE DEF history
<1>0. /\ hold \in [Containers -> Hold \cup {None}]
      /\ inFlight \in [Containers -> Reservation \cup {None}]
  BY Zenon DEF TypeOK
<1>1. UNCHANGED <<pending, settledKey, announced, latest>>
  BY Zenon DEF RunVisit, RunRetry
<1>2. CASE inFlight[c] = None
  <2>1. /\ inFlight' = [inFlight EXCEPT ![c] = Reserve(FALSE)]
        /\ hold' = [hold EXCEPT ![c] = NewHold("run", TRUE, NoTime, FALSE)]
    BY <1>2, Zenon DEF RunVisit, RunRetry, ReconcileFromRun
  <2>2. /\ inFlight'[c] = Reserve(FALSE)
        /\ hold'[c] = NewHold("run", TRUE, NoTime, FALSE)
        /\ \A d \in Containers \ {c} : hold'[d] = hold[d] /\ inFlight'[d] = inFlight[d]
    BY <1>0, <2>1, Zenon
  <2>3. hold'[c].key = NoKey /\ hold'[c].pc = "begin" /\ hold'[c].reconcile = TRUE
    BY <2>2, NewHoldFields, Zenon
  <2>4. inFlight'[c] # None
    BY <2>2, ReserveType, NotNone, Zenon
  <2> QED
    BY <1>1, <1>2, <2>2, <2>3, <2>4, Zenon DEF Reserves
<1>3. CASE inFlight[c] # None
  <2>1. /\ inFlight' = [inFlight EXCEPT ![c] = ReserveHeld(@, NoTime, FALSE)]
        /\ UNCHANGED hold
    BY <1>3, Zenon DEF RunVisit, RunRetry, ReconcileFromRun
  <2>2. /\ inFlight'[c] = ReserveHeld(inFlight[c], NoTime, FALSE)
        /\ \A d \in Containers \ {c} : inFlight'[d] = inFlight[d]
    BY <1>0, <2>1, Zenon
  <2>3. inFlight[c] \in Reservation
    BY <1>0, <1>3, Zenon
  <2>4. inFlight'[c] # None
    BY <2>2, <2>3, ReserveHeldType, HandlingType, NotNone, Zenon
  <2>5. inFlight'[c].reconcile = TRUE
    BY <2>2, <2>3, Zenon DEF ReserveHeld, Reservation
  <2> QED
    BY <1>1, <1>3, <2>1, <2>2, <2>4, <2>5, Zenon DEF Reserves
<1> QED
  BY <1>2, <1>3, Zenon

LEMMA EventReserves ==
    ASSUME TypeOK, NEW c \in Containers,
           ListenerReserve(c) \/ \E eventTime \in 1 .. clock : EventEnd(c, eventTime)
    PROVE  Reserves(c)
<1> USE DEF history
<1>0. /\ hold \in [Containers -> Hold \cup {None}]
      /\ inFlight \in [Containers -> Reservation \cup {None}]
      /\ listener.time \in Time
  BY Zenon DEF TypeOK, Handler
<1>1. UNCHANGED <<pending, settledKey, announced, latest>>
  BY Zenon DEF ListenerReserve, EventEnd
<1>2. CASE inFlight[c] = None
  <2>1. CASE ListenerReserve(c)
    <3>1. /\ inFlight' = [inFlight EXCEPT ![c] = Reserve(FALSE)]
          /\ hold' = [hold EXCEPT ![c] = NewHold("listener", TRUE, NoTime, FALSE)]
      BY <1>2, <2>1, Zenon DEF ListenerReserve
    <3>2. /\ inFlight'[c] = Reserve(FALSE)
          /\ hold'[c] = NewHold("listener", TRUE, NoTime, FALSE)
          /\ \A d \in Containers \ {c} : hold'[d] = hold[d] /\ inFlight'[d] = inFlight[d]
      BY <1>0, <3>1, Zenon
    <3>3. hold'[c].key = NoKey /\ hold'[c].pc = "begin"
      BY <3>2, NewHoldFields, Zenon
    <3>4. inFlight'[c] # None
      BY <3>2, ReserveType, NotNone, Zenon
    <3> QED
      BY <1>1, <1>2, <3>2, <3>3, <3>4, Zenon DEF Reserves
  <2>2. ASSUME NEW eventTime \in 1 .. clock, EventEnd(c, eventTime)
        PROVE  Reserves(c)
    <3>1. /\ inFlight' = [inFlight EXCEPT ![c] = Reserve(TRUE)]
          /\ hold' = [hold EXCEPT ![c] = NewHold("listener", FALSE, eventTime, FALSE)]
      BY <1>2, <2>2, Zenon DEF EventEnd
    <3>2. /\ inFlight'[c] = Reserve(TRUE)
          /\ hold'[c] = NewHold("listener", FALSE, eventTime, FALSE)
          /\ \A d \in Containers \ {c} : hold'[d] = hold[d] /\ inFlight'[d] = inFlight[d]
      BY <1>0, <3>1, Zenon
    <3>3. hold'[c].key = NoKey /\ hold'[c].pc \in {"terminate", "begin"}
      <4>1. eventTime # NoTime
        BY EventTime, PositiveTime, Zenon DEF TypeOK
      <4>2. /\ NewHold("listener", FALSE, eventTime, FALSE).key = NoKey
            /\ NewHold("listener", FALSE, eventTime, FALSE).pc = "terminate"
        BY <4>1, NewHoldEnds, Zenon
      <4> QED BY <3>2, <4>2, Zenon
    <3>4. inFlight'[c] # None
      BY <3>2, ReserveType, NotNone, Zenon
    <3> QED
      BY <1>1, <1>2, <3>2, <3>3, <3>4, Zenon DEF Reserves
  <2> QED
    BY <2>1, <2>2, Zenon
<1>3. CASE inFlight[c] # None
  <2>0. inFlight[c] \in Reservation
    BY <1>0, <1>3, Zenon
  <2>1. CASE ListenerReserve(c)
    <3>1. /\ inFlight' = [inFlight EXCEPT ![c] = ReserveHeld(@, listener.time, FALSE)]
          /\ UNCHANGED hold
      BY <1>3, <2>1, Zenon DEF ListenerReserve
    <3>2. /\ inFlight'[c] = ReserveHeld(inFlight[c], listener.time, FALSE)
          /\ \A d \in Containers \ {c} : inFlight'[d] = inFlight[d]
      BY <1>0, <3>1, Zenon
    <3>3. inFlight'[c] # None
      BY <1>0, <2>0, <3>2, ReserveHeldType, NotNone, Zenon
    <3>4. inFlight[c].reconcile = TRUE => inFlight'[c].reconcile = TRUE
      BY <2>0, <3>2, ReserveHeldFields, Zenon
    <3> QED
      BY <1>1, <1>3, <3>1, <3>2, <3>3, <3>4, Zenon DEF Reserves
  <2>2. ASSUME NEW eventTime \in 1 .. clock, EventEnd(c, eventTime)
        PROVE  Reserves(c)
    <3>0. eventTime \in Time
      BY EventTime, Zenon DEF TypeOK
    <3>1. /\ inFlight' = [inFlight EXCEPT ![c] = ReserveHeld(@, eventTime, TRUE)]
          /\ UNCHANGED hold
      BY <1>3, <2>2, Zenon DEF EventEnd
    <3>2. /\ inFlight'[c] = ReserveHeld(inFlight[c], eventTime, TRUE)
          /\ \A d \in Containers \ {c} : inFlight'[d] = inFlight[d]
      BY <1>0, <3>1, Zenon
    <3>3. inFlight'[c] # None
      BY <2>0, <3>0, <3>2, ReserveHeldType, NotNone, Zenon
    <3>4. inFlight'[c].reconcile = inFlight[c].reconcile
      BY <2>0, <3>2, Zenon DEF ReserveHeld, Reservation
    <3> QED
      BY <1>1, <1>3, <3>1, <3>2, <3>3, <3>4, Zenon DEF Reserves
  <2> QED
    BY <2>1, <2>2, Zenon
<1> QED
  BY <1>2, <1>3, Zenon

\* The steps that touch the state of a container, and the rest.
LEMMA StepCases ==
    ASSUME [Next]_vars
    PROVE  \/ \E generation \in Generations : Request(generation)
           \/ \E c \in Containers : RunVisit(c) \/ RunRetry(c)
           \/ \E c \in Containers :
                 ListenerReserve(c) \/ \E eventTime \in 1 .. clock : EventEnd(c, eventTime)
           \/ \E c \in Containers : HoldStep(c)
           \/ \E c \in Containers : BackoffElapses(c)
           \/ UNCHANGED <<latest, pending, inFlight, hold, settledKey, owed>>
<1> USE DEF state, runVars, environment, history
<1>1. CASE RunStep \/ RunPrune \/ RunSweep
  BY <1>1, Zenon DEF RunStep, RunStop, RunTakeRequest, RunNoRequest, RunArm, RunWake, RunListRetry,
              RunRetryDue, RunPrune, RunSweep, RunListFails, RunList, RunSuperseded,
              RunFinishPass, RunRetryDone
<1>2. CASE ListenerStep \/ Event
  BY <1>2, Zenon DEF ListenerStep, Event, ListenerStart, ListenerNotify, ListenerStop, EventStart
<1>3. CASE \/ \E c \in Containers : ProcessedExpires(c)
           \/ RetryTimerElapses \/ Tick \/ Cancel \/ CloseAndWait \/ UNCHANGED vars
  BY <1>3, Zenon DEF ProcessedExpires, RetryTimerElapses, Tick, Cancel, CloseAndWait, vars
<1> QED
  BY <1>1, <1>2, <1>3, Zenon DEF Next

LEMMA ReleaseEffect ==
    ASSUME TypeOK, NEW c \in Containers, HoldRelease(c)
    PROVE  /\ hold[c] # None /\ hold[c].pc = "next" /\ inFlight[c].reconcile # TRUE
           /\ hold'[c] = None /\ inFlight'[c] = None
           /\ \A d \in Containers \ {c} : hold'[d] = hold[d] /\ inFlight'[d] = inFlight[d]
           /\ announced' = AnnounceLocked(incomplete, pending, inFlight')
           /\ UNCHANGED <<pending, settledKey, latest>>
BY Zenon DEF HoldRelease, TypeOK, history

LEMMA BackoffEffect ==
    ASSUME TypeOK, NEW c \in Containers, BackoffElapses(c)
    PROVE  /\ pending'[c] # None /\ pending[c] # None /\ pending'[c].key = pending[c].key
           /\ \A d \in Containers \ {c} : pending'[d] = pending[d]
           /\ UNCHANGED <<latest, announced, inFlight, hold, settledKey, owed, incomplete,
                          runPc, passKey, queue, listed>>
<1>0. pending \in [Containers -> PendingEntry \cup {None}]
  BY Zenon DEF TypeOK
<1>1. /\ pending[c] \in PendingEntry
      /\ pending' = [pending EXCEPT ![c].due = "now"]
      /\ UNCHANGED <<latest, announced, inFlight, hold, settledKey, owed, incomplete,
                     runPc, passKey, queue, listed>>
  BY <1>0, Zenon DEF BackoffElapses, history
<1>2. pending'[c] \in PendingEntry /\ pending'[c].key = pending[c].key
  BY <1>0, <1>1, Zenon DEF PendingEntry
<1> QED
  BY <1>0, <1>1, <1>2, NotNone, Zenon

\* Work once Done under the latest key stays Done under it.
LEMMA DoneStep ==
    ASSUME TypeOK, HeldOK, HoldOK, KeysOK, [Next]_vars, UNCHANGED latest,
           NEW d \in Containers, Done(d)
    PROVE  Done(d)'
<1> USE DEF Done, Working
<1>0. hold \in [Containers -> Hold \cup {None}]
  BY Zenon DEF TypeOK
<1>1. ASSUME NEW c \in Containers, Reserves(c)
      PROVE  Done(d)'
  BY <1>1, Zenon DEF Reserves, HeldOK
<1>2. ASSUME NEW c \in Containers, HoldStep(c)
      PROVE  Done(d)'
  <2>1. CASE HoldTerminate(c)
    BY <2>1, MoveEffect, Zenon
  <2>2. CASE HoldBegin(c)
    BY <2>2, MoveEffect, Zenon
  <2>3. CASE HoldMarkProcessed(c)
    BY <2>3, MoveEffect, Zenon
  <2>4. CASE HoldNextWork(c)
    BY <2>4, NextWorkEffect, Zenon
  <2>5. CASE HoldRelease(c)
    BY <2>5, ReleaseEffect, Zenon
  <2>6. ASSUME NEW outcome \in {"ok", "gone", "fail"}, HoldSettle(c, outcome)
        PROVE  Done(d)'
    <3>1. CASE d # c
      BY <2>6, <3>1, SettleEffect, Zenon
    <3>2. CASE d = c /\ outcome = "fail"
      BY <2>6, <3>2, SettleEffect, Zenon
    <3>3. CASE d = c /\ outcome # "fail" /\ hold[c].key = latest
      BY <2>6, <3>3, SettleEffect, Zenon
    <3>4. CASE d = c /\ outcome # "fail" /\ hold[c].key # latest
      <4>1. hold[c] # None /\ hold[c].pc = "processing" /\ UNCHANGED inFlight
        BY <2>6, Zenon DEF HoldSettle
      <4>2. settledKey[c] # latest /\ (pending[c] # None => pending[c].key = latest)
        BY <3>4, <4>1, Zenon DEF KeysOK
      <4>3. CASE pending[c] # None
        BY <2>6, <3>4, <4>2, <4>3, SettleEffect, Zenon
      <4>4. CASE inFlight[c] # None /\ inFlight[c].reconcile
        BY <3>4, <4>1, <4>4, Zenon
      <4> QED
        BY <3>4, <4>1, <4>2, <4>3, <4>4, Zenon
    <3> QED
      BY <3>1, <3>2, <3>3, <3>4, Zenon
  <2> QED
    BY <1>2, <2>1, <2>2, <2>3, <2>4, <2>5, <2>6, Zenon DEF HoldStep
<1>3. ASSUME NEW c \in Containers, BackoffElapses(c)
      PROVE  Done(d)'
  BY <1>3, BackoffEffect, Zenon
<1>4. CASE UNCHANGED <<latest, pending, inFlight, hold, settledKey, owed>>
  BY <1>4, Zenon
<1>5. ASSUME NEW generation \in Generations, Request(generation)
      PROVE  FALSE
  BY <1>5, RequestGrows, Epochs, Zenon DEF TypeOK
<1> QED
  BY <1>1, <1>2, <1>3, <1>4, <1>5, StepCases, VisitEffect, EventReserves, Zenon

LEMMA RequestEffect ==
    ASSUME TypeOK, KeysOK, NEW generation \in Generations, Request(generation)
    PROVE  /\ latest'.epoch = latest.epoch + 1 /\ latest' # announced
           /\ incomplete' = TRUE /\ owed' = {c \in Containers : pending[c] # None}
           /\ \A c \in Containers :
                 /\ settledKey[c] # latest'
                 /\ pending[c] = None <=> pending'[c] = None
                 /\ pending'[c] # None => pending'[c].key = latest'
           /\ UNCHANGED <<announced, inFlight, hold, settledKey, listed, runPc, passKey>>
<1>0. /\ pending \in [Containers -> PendingEntry \cup {None}]
      /\ latest \in PassKey /\ announced \in PassKey
      /\ \A c \in Containers : settledKey[c] \in PassKey
      /\ latest' \in PassKey
  <2>1. TypeOK'
    BY TypeRest, Zenon
  <2> QED
    BY <2>1, Zenon DEF TypeOK
<1>1. /\ latest'.epoch = latest.epoch + 1
      /\ incomplete' = TRUE /\ owed' = {c \in Containers : pending[c] # None}
      /\ UNCHANGED <<announced, inFlight, hold, settledKey, listed, runPc, passKey>>
  BY Zenon DEF Request, runVars
<1>2. latest' # announced /\ \A c \in Containers : settledKey[c] # latest'
  BY <1>0, RequestGrows, Zenon DEF KeysOK
<1>3. ASSUME NEW c \in Containers
      PROVE  /\ pending[c] = None <=> pending'[c] = None
             /\ pending'[c] # None => pending'[c].key = latest'
  <2>1. CASE pending[c] = None
    BY <2>1, Zenon DEF Request
  <2>2. CASE pending[c] # None
    <3>1. pending'[c] = [pending[c] EXCEPT !.key = latest']
      BY <2>2, Zenon DEF Request
    <3>2. pending'[c] \in PendingEntry /\ pending'[c].key = latest'
      BY <1>0, <2>2, <3>1, Zenon DEF PendingEntry
    <3> QED
      BY <2>2, <3>2, NotNone, Zenon
  <2> QED
    BY <2>1, <2>2, Zenon
<1> QED
  BY <1>1, <1>2, <1>3, Zenon

\* The key announced is the one announced before, or the latest one of a pass that is
\* complete with nothing pending and nothing running or queued.
LEMMA AnnounceEffect ==
    ASSUME TypeOK, HeldOK, RequestOK, [Next]_vars, announced' # announced
    PROVE  /\ announced' = latest /\ latest' = latest /\ ~incomplete'
           /\ \A c \in Containers :
                 /\ pending[c] = None
                 /\ inFlight'[c] # None => inFlight'[c].reconcile # TRUE /\ inFlight'[c].running # TRUE
           /\ UNCHANGED <<listed, owed, settledKey, pending>>
           /\ \/ \E c \in Containers : HoldRelease(c)
              \/ UNCHANGED <<inFlight, hold>>
           /\ ~incomplete \/ (runPc = "visiting" /\ passKey = latest /\ queue = {})
<1> USE DEF state, runVars, environment, history
<1>0. incomplete \in BOOLEAN
  BY Zenon DEF TypeOK
<1>1. CASE RunListFails \/ RunRetryDone
  <2>1. /\ announced' = AnnounceLocked(incomplete, pending, inFlight)
        /\ UNCHANGED <<latest, incomplete, pending, inFlight, hold, listed, owed, settledKey>>
    BY <1>1, Zenon DEF RunListFails, RunRetryDone
  <2> QED
    BY <1>0, <2>1, AnnounceCases, Zenon
<1>2. CASE RunFinishPass
  <2>1. /\ announced' = AnnounceLocked(incomplete', pending, inFlight)
        /\ incomplete' = (incomplete /\ passKey # latest)
        /\ runPc = "visiting" /\ queue = {}
        /\ UNCHANGED <<latest, pending, inFlight, hold, listed, owed, settledKey>>
    BY <1>2, Zenon DEF RunFinishPass
  <2>2. incomplete' \in BOOLEAN
    BY <2>1, Zenon
  <2> QED
    BY <1>0, <2>1, <2>2, AnnounceCases, Zenon
<1>3. ASSUME NEW c \in Containers, HoldRelease(c)
      PROVE  /\ announced' = latest /\ latest' = latest /\ ~incomplete'
             /\ \A d \in Containers :
                   /\ pending[d] = None
                   /\ inFlight'[d] # None => inFlight'[d].reconcile # TRUE /\ inFlight'[d].running # TRUE
             /\ UNCHANGED <<listed, owed, settledKey, pending>>
             /\ ~incomplete
  <2>1. /\ announced' = AnnounceLocked(incomplete, pending, inFlight')
        /\ UNCHANGED <<latest, incomplete, pending, listed, owed, settledKey>>
    BY <1>3, Zenon DEF HoldRelease
  <2> QED
    BY <1>0, <2>1, AnnounceCases, Zenon
<1>4. ASSUME NEW c \in Containers, HoldStep(c), ~HoldRelease(c)
      PROVE  FALSE
  BY <1>4, Zenon DEF HoldStep, HoldTerminate, HoldBegin, HoldSettle, HoldMarkProcessed, HoldNextWork
<1>5. CASE (RunStep /\ ~(RunListFails \/ RunRetryDone \/ RunFinishPass)) \/ RunPrune \/ RunSweep
  BY <1>5, Zenon DEF RunStep, RunStop, RunTakeRequest, RunNoRequest, RunArm, RunWake, RunListRetry,
              RunRetryDue, RunPrune, RunSweep, RunList, RunSuperseded, RunVisit, RunRetry
<1>6. CASE ListenerStep \/ Event
  BY <1>6, Zenon DEF ListenerStep, Event, ListenerStart, ListenerNotify, ListenerStop,
              ListenerReserve, EventStart, EventEnd
<1>7. CASE \/ \E generation \in Generations : Request(generation)
           \/ \E c \in Containers : BackoffElapses(c) \/ ProcessedExpires(c)
           \/ RetryTimerElapses \/ Tick \/ Cancel \/ CloseAndWait \/ UNCHANGED vars
  BY <1>7, Zenon DEF Request, BackoffElapses, ProcessedExpires, RetryTimerElapses, Tick, Cancel,
              CloseAndWait, vars
<1> QED
  BY <1>1, <1>2, <1>3, <1>4, <1>5, <1>6, <1>7, Zenon DEF Next

\* Only a request changes the latest key, or makes the pass incomplete.
LEMMA LatestFrame ==
    ASSUME TypeOK, [Next]_vars, ~\E generation \in Generations : Request(generation)
    PROVE  UNCHANGED <<latest, owed>> /\ (incomplete' => incomplete)
<1> USE DEF state, runVars, environment, history
<1>1. CASE \E c \in Containers : RunVisit(c) \/ RunRetry(c)
  <2>1. UNCHANGED <<latest, owed, incomplete>>
    BY <1>1, Zenon DEF RunVisit, RunRetry
  <2> QED
    BY <2>1, Zenon
<1>2. CASE RunFinishPass
  BY <1>2, Zenon DEF RunFinishPass, TypeOK
<1>3. CASE \/ RunStop \/ RunTakeRequest \/ RunNoRequest \/ RunArm \/ RunWake \/ RunListRetry
           \/ RunRetryDue \/ RunPrune \/ RunSweep \/ RunListFails \/ RunSuperseded
           \/ RunRetryDone \/ \E containers \in SUBSET Containers : RunList(containers)
  <2>1. UNCHANGED <<latest, owed, incomplete>>
    BY <1>3, Zenon DEF RunStop, RunTakeRequest, RunNoRequest, RunArm, RunWake, RunListRetry,
                RunRetryDue, RunPrune, RunSweep, RunListFails, RunList, RunSuperseded,
                RunRetryDone
  <2> QED
    BY <2>1, Zenon
<1>4. CASE ListenerStep \/ Event
  <2>1. UNCHANGED <<latest, owed, incomplete>>
    BY <1>4, Zenon DEF ListenerStep, Event, ListenerStart, ListenerNotify, ListenerStop,
                ListenerReserve, EventStart, EventEnd
  <2> QED
    BY <2>1, Zenon
<1>5. CASE \E c \in Containers : HoldStep(c)
  <2>1. UNCHANGED <<latest, owed, incomplete>>
    BY <1>5, HoldFrame, Zenon
  <2> QED
    BY <2>1, Zenon
<1>6. CASE \/ \E c \in Containers : BackoffElapses(c) \/ ProcessedExpires(c)
           \/ RetryTimerElapses \/ Tick \/ Cancel \/ CloseAndWait \/ UNCHANGED vars
  <2>1. UNCHANGED <<latest, owed, incomplete>>
    BY <1>6, Zenon DEF BackoffElapses, ProcessedExpires, RetryTimerElapses, Tick, Cancel,
                CloseAndWait, vars
  <2> QED
    BY <2>1, Zenon
<1> QED
  BY <1>1, <1>2, <1>3, <1>4, <1>5, <1>6, Zenon DEF Next, RunStep

\* The part of KeysOK about one container.
KeyOK(c) ==
    /\ settledKey[c].epoch <= latest.epoch
    /\ pending[c] # None => pending[c].key = latest
    /\ hold[c] # None => hold[c].key.epoch <= latest.epoch
    /\ (hold[c] # None /\ hold[c].pc = "processing" /\ settledKey[c] = latest) =>
          hold[c].key = latest

LEMMA KeyStep ==
    ASSUME TypeOK, HeldOK, KeysOK, [Next]_vars, NEW d \in Containers
    PROVE  KeyOK(d)'
<1>0. /\ hold \in [Containers -> Hold \cup {None}]
      /\ KeyOK(d)
      /\ latest \in PassKey /\ settledKey[d] \in PassKey
      /\ hold[d] # None => hold[d].key \in PassKey
      /\ NoKey.epoch <= latest.epoch /\ latest.epoch <= latest.epoch
  <2>1. /\ latest \in PassKey /\ settledKey[d] \in PassKey
        /\ hold \in [Containers -> Hold \cup {None}]
    BY Zenon DEF TypeOK
  <2>2. hold[d] # None => hold[d].key \in PassKey
    BY <2>1, Zenon DEF Hold
  <2>3. KeyOK(d)
    BY Zenon DEF KeyOK, KeysOK
  <2> QED
    BY <2>1, <2>2, <2>3, Epochs, Zenon
<1>1. ASSUME NEW c \in Containers, Reserves(c)
      PROVE  KeyOK(d)'
  BY <1>0, <1>1, Zenon DEF Reserves, KeyOK
<1>2. ASSUME NEW c \in Containers, HoldStep(c)
      PROVE  KeyOK(d)'
  <2>0. latest' = latest
    BY <1>2, HoldFrame, Zenon
  <2>1. CASE HoldTerminate(c)
    BY <1>0, <2>1, MoveEffect, Zenon DEF KeyOK
  <2>2. CASE HoldBegin(c)
    <3>1. /\ hold'[c].key = latest /\ hold[c] # None
          /\ \A e \in Containers \ {c} : hold'[e] = hold[e]
          /\ UNCHANGED <<pending, settledKey, latest>>
      BY <2>2, MoveEffect, Zenon
    <3> QED
      BY <1>0, <3>1, Zenon DEF KeyOK
  <2>3. CASE HoldMarkProcessed(c)
    BY <1>0, <2>3, MoveEffect, Zenon DEF KeyOK
  <2>4. CASE HoldNextWork(c)
    BY <1>0, <2>4, NextWorkEffect, Zenon DEF KeyOK
  <2>5. CASE HoldRelease(c)
    BY <1>0, <2>5, ReleaseEffect, Zenon DEF KeyOK
  <2>6. ASSUME NEW outcome \in {"ok", "gone", "fail"}, HoldSettle(c, outcome)
        PROVE  KeyOK(d)'
    <3>1. CASE d # c
      <4>1. pending'[d] = pending[d] /\ settledKey'[d] = settledKey[d] /\ hold'[d] = hold[d]
        BY <1>0, <2>6, <3>1, SettleEffect, Zenon
      <4> QED BY <1>0, <2>0, <4>1, Zenon DEF KeyOK
    <3>2. CASE d = c
      <4>1. /\ hold'[d].key = NoKey /\ hold'[d].pc # "processing"
            /\ hold[d] # None /\ hold[d].pc = "processing"
        BY <2>6, <3>2, SettleEffect, NotNone, Zenon
      <4>2. settledKey'[d] = IF outcome = "fail" THEN settledKey[d] ELSE hold[d].key
        BY <2>6, <3>2, SettleEffect, Zenon
      <4>3. pending'[d] # None =>
              pending'[d].key = latest \/ (pending[d] # None /\ pending'[d].key = pending[d].key)
        BY <2>6, <3>2, SettleEffect, Zenon
      <4> QED BY <1>0, <2>0, <4>1, <4>2, <4>3, Zenon DEF KeyOK
    <3> QED
      BY <3>1, <3>2, Zenon
  <2> QED
    BY <1>2, <2>1, <2>2, <2>3, <2>4, <2>5, <2>6, Zenon DEF HoldStep
<1>3. ASSUME NEW c \in Containers, BackoffElapses(c)
      PROVE  KeyOK(d)'
  BY <1>0, <1>3, BackoffEffect, Zenon DEF KeyOK
<1>4. CASE UNCHANGED <<latest, pending, inFlight, hold, settledKey, owed>>
  BY <1>0, <1>4, Zenon DEF KeyOK
<1>5. ASSUME NEW generation \in Generations, Request(generation)
      PROVE  KeyOK(d)'
  <2>1. /\ latest'.epoch = latest.epoch + 1 /\ settledKey[d] # latest'
        /\ UNCHANGED <<hold, settledKey>>
        /\ pending'[d] # None => pending'[d].key = latest'
    BY <1>5, RequestEffect, Zenon
  <2>2. /\ settledKey'[d].epoch <= latest'.epoch
        /\ hold'[d] # None => hold'[d].key.epoch <= latest'.epoch
    BY <1>0, <1>5, <2>1, RequestGrows, Zenon DEF KeyOK
  <2> QED
    BY <2>1, <2>2, Zenon DEF KeyOK
<1> QED
  BY <1>1, <1>2, <1>3, <1>4, <1>5, StepCases, VisitEffect, EventReserves, Zenon

LEMMA KeysStep ==
    ASSUME TypeOK, HeldOK, RequestOK, KeysOK, [Next]_vars
    PROVE  KeysOK'
<1>0. latest \in PassKey /\ announced \in PassKey
  BY Zenon DEF TypeOK
<1>1. \A c \in Containers : KeyOK(c)'
  BY KeyStep, Zenon
<1>2. announced'.epoch <= latest'.epoch /\ (incomplete' => announced' # latest')
  <2>1. CASE announced' # announced
    <3>1. announced' = latest /\ latest' = latest /\ ~incomplete'
      BY <2>1, AnnounceEffect, Zenon
    <3> QED
      BY <1>0, <3>1, Epochs, Zenon
  <2>2. ASSUME NEW generation \in Generations, Request(generation)
        PROVE  announced'.epoch <= latest'.epoch /\ (incomplete' => announced' # latest')
    <3>1. /\ latest'.epoch = latest.epoch + 1 /\ latest' # announced
          /\ UNCHANGED announced
      BY <2>2, RequestEffect, Zenon
    <3> QED
      BY <1>0, <2>2, <3>1, RequestGrows, Zenon DEF KeysOK
  <2>3. CASE announced' = announced /\ ~\E generation \in Generations : Request(generation)
    <3>1. latest' = latest /\ (incomplete' => incomplete)
      BY <2>3, LatestFrame, Zenon
    <3> QED
      BY <1>0, <2>3, <3>1, Zenon DEF KeysOK
  <2> QED
    BY <2>1, <2>2, <2>3, Zenon
<1> QED
  BY <1>1, <1>2, Zenon DEF KeysOK, KeyOK

\* How a step that is no request moves the pass: it lists, it visits one container, it
\* finishes, it leaves the visits, or it is no step of the pass.
LEMMA PassFrame ==
    ASSUME TypeOK, RequestOK, [Next]_vars, ~\E generation \in Generations : Request(generation)
    PROVE  \/ /\ runPc' = "visiting" /\ listed' = queue' /\ incomplete' = TRUE
           \/ \E c \in Containers :
                 /\ RunVisit(c) /\ queue' = queue \ {c}
                 /\ UNCHANGED <<runPc, passKey, listed, incomplete>>
           \/ /\ runPc = "visiting" /\ queue = {} /\ runPc' = "top"
              /\ incomplete' = (incomplete /\ passKey # latest)
              /\ UNCHANGED <<passKey, listed>>
           \/ runPc' # "visiting" /\ UNCHANGED <<listed, incomplete>>
           \/ UNCHANGED <<runPc, passKey, queue, listed, incomplete>>
<1> USE DEF state, runVars, environment, history
<1>1. CASE \E c \in Containers : RunVisit(c) \/ RunRetry(c)
  BY <1>1, Zenon DEF RunVisit, RunRetry, ReconcileFromRun
<1>2. CASE RunFinishPass
  BY <1>2, Zenon DEF RunFinishPass
<1>3. ASSUME NEW containers \in SUBSET Containers, RunList(containers)
      PROVE  runPc' = "visiting" /\ listed' = queue' /\ incomplete' = TRUE
  BY <1>3, Zenon DEF RunList, RequestOK, TypeOK
<1>4. CASE \/ RunStop \/ RunTakeRequest \/ RunNoRequest \/ RunArm \/ RunWake \/ RunListRetry
           \/ RunRetryDue \/ RunPrune \/ RunSweep \/ RunListFails \/ RunSuperseded
           \/ RunRetryDone
  BY <1>4, Zenon DEF RunStop, RunTakeRequest, RunNoRequest, RunArm, RunWake, RunListRetry,
              RunRetryDue, RunPrune, RunSweep, RunListFails, RunSuperseded, RunRetryDone
<1>5. CASE ListenerStep \/ Event
  <2>1. UNCHANGED <<runPc, passKey, queue, listed, incomplete>>
    BY <1>5, Zenon DEF ListenerStep, Event, ListenerStart, ListenerNotify, ListenerStop,
                ListenerReserve, EventStart, EventEnd
  <2> QED
    BY <2>1, Zenon
<1>6. CASE \E c \in Containers : HoldStep(c)
  BY <1>6, HoldFrame, Zenon
<1>7. CASE \/ \E c \in Containers : BackoffElapses(c) \/ ProcessedExpires(c)
           \/ RetryTimerElapses \/ Tick \/ Cancel \/ CloseAndWait \/ UNCHANGED vars
  BY <1>7, Zenon DEF BackoffElapses, ProcessedExpires, RetryTimerElapses, Tick, Cancel,
              CloseAndWait, vars
<1> QED
  BY <1>1, <1>2, <1>3, <1>4, <1>5, <1>6, <1>7, Zenon DEF Next, RunStep

LEMMA PassStep ==
    ASSUME TypeOK, HeldOK, HoldOK, RequestOK, KeysOK, PassOK, [Next]_vars
    PROVE  PassOK'
<1>1. ASSUME NEW generation \in Generations, Request(generation)
      PROVE  PassOK'
  <2>1. /\ latest'.epoch = latest.epoch + 1 /\ incomplete' = TRUE /\ passKey' = passKey
        /\ \A c \in owed' : pending'[c] # None
    BY <1>1, RequestEffect, Zenon
  <2>2. passKey # latest'
    <3>1. passKey \in PassKey /\ latest \in PassKey
      BY Zenon DEF TypeOK
    <3> QED
      BY <1>1, <3>1, RequestGrows, Zenon DEF RequestOK
  <2> QED
    BY <2>1, <2>2, Zenon DEF PassOK, Done
<1>2. CASE ~\E generation \in Generations : Request(generation)
  <2>0. owed \subseteq Containers /\ listed \subseteq Containers
    BY Zenon DEF TypeOK
  <2>1. UNCHANGED <<latest, owed>>
    BY <1>2, LatestFrame, Zenon
  <2>2. \A c \in Containers : Done(c) => Done(c)'
    BY <2>1, DoneStep, Zenon
  <2>3. \A c \in owed' : Done(c)'
    BY <2>0, <2>1, <2>2, Zenon DEF PassOK
  <2>4. CASE runPc' = "visiting" /\ listed' = queue' /\ incomplete' = TRUE
    BY <2>3, <2>4, Zenon DEF PassOK
  <2>5. ASSUME NEW c \in Containers, RunVisit(c), queue' = queue \ {c},
               UNCHANGED <<runPc, passKey, listed, incomplete>>
        PROVE  PassOK'
    <3>1. Done(c)'
      <4>1. /\ Reserves(c)
            /\ inFlight[c] = None => hold'[c].reconcile = TRUE
            /\ inFlight[c] # None => inFlight'[c].reconcile = TRUE
        BY <2>5, VisitEffect, Zenon
      <4> QED
        BY <4>1, Zenon DEF Done, Working, Reserves
    <3> QED
      BY <2>0, <2>1, <2>2, <2>3, <2>5, <3>1, Zenon DEF PassOK
  <2>6. CASE /\ runPc = "visiting" /\ queue = {} /\ runPc' = "top"
             /\ incomplete' = (incomplete /\ passKey # latest)
             /\ UNCHANGED <<passKey, listed>>
    <3>1. ~incomplete' /\ latest' # NoKey => \A c \in listed : Done(c)
      BY <2>1, <2>6, Zenon DEF PassOK
    <3> QED
      BY <2>0, <2>2, <2>3, <2>6, <3>1, Zenon DEF PassOK
  <2>7. CASE runPc' # "visiting" /\ UNCHANGED <<listed, incomplete>>
    BY <2>0, <2>1, <2>2, <2>3, <2>7, Zenon DEF PassOK
  <2>8. CASE UNCHANGED <<runPc, passKey, queue, listed, incomplete>>
    BY <2>0, <2>1, <2>2, <2>3, <2>8, Zenon DEF PassOK
  <2> QED
    BY <1>2, <2>4, <2>5, <2>6, <2>7, <2>8, PassFrame, Zenon
<1> QED
  BY <1>1, <1>2, Zenon

LEMMA AnnounceStep ==
    ASSUME TypeOK, HeldOK, HoldOK, RequestOK, KeysOK, PassOK, AnnounceSound, [Next]_vars
    PROVE  AnnounceSound'
<1>0. listed \subseteq Containers /\ owed \subseteq Containers
  BY Zenon DEF TypeOK
<1>1. CASE announced' # announced
  <2>1. /\ announced' = latest /\ latest' = latest
        /\ \A c \in Containers :
              /\ pending[c] = None
              /\ inFlight'[c] # None => inFlight'[c].reconcile # TRUE /\ inFlight'[c].running # TRUE
        /\ UNCHANGED <<listed, owed, settledKey>>
        /\ ~incomplete \/ (runPc = "visiting" /\ passKey = latest /\ queue = {})
    BY <1>1, AnnounceEffect, Zenon
  <2>2. ASSUME NEW c \in listed \cup owed, latest # NoKey
        PROVE  settledKey[c] = latest
    <3>1. c \in Containers /\ Done(c)
      BY <1>0, <2>1, <2>2, Zenon DEF PassOK
    <3>2. ~Working(c)
      <4>0. inFlight[c] # None =>
               /\ inFlight[c].reconcile \in BOOLEAN /\ hold[c].reconcile \in BOOLEAN
               /\ inFlight[c].running = hold[c].reconcile
               /\ hold[c].pc = "processing" => hold[c].reconcile
        BY <3>1, Zenon DEF TypeOK, Reservation, Hold, HeldOK, HoldOK
      <4>1. CASE inFlight'[c] = inFlight[c] /\ hold'[c] = hold[c]
        BY <2>1, <3>1, <4>0, <4>1, Zenon DEF Working
      <4>2. CASE HoldRelease(c)
        BY <3>1, <4>0, <4>2, ReleaseEffect, Zenon DEF Working
      <4> QED
        BY <1>1, <3>1, <4>1, <4>2, AnnounceEffect, ReleaseEffect, Zenon
    <3> QED
      BY <2>1, <3>1, <3>2, Zenon DEF Done
  <2> QED
    BY <2>1, <2>2, Zenon DEF AnnounceSound
<1>2. ASSUME announced' = announced, NEW generation \in Generations, Request(generation)
      PROVE  AnnounceSound'
  BY <1>2, RequestEffect, Zenon DEF AnnounceSound
<1>3. CASE announced' = announced /\ ~\E generation \in Generations : Request(generation)
  <2>1. UNCHANGED <<latest, owed>> /\ (incomplete' => incomplete)
    BY <1>3, LatestFrame, Zenon
  <2>2. CASE announced # latest
    BY <1>3, <2>1, <2>2, Zenon DEF AnnounceSound
  <2>3. CASE announced = latest
    <3>1. ~incomplete
      BY <2>3, Zenon DEF KeysOK
    <3>2. UNCHANGED listed
      BY <1>3, <2>1, <3>1, PassFrame, Zenon
    <3>3. ASSUME NEW d \in Containers, settledKey[d] = latest
          PROVE  settledKey'[d] = latest
      <4>1. ASSUME NEW c \in Containers, HoldStep(c)
            PROVE  settledKey'[d] = latest
        <5>1. ASSUME NEW outcome \in {"ok", "gone", "fail"}, HoldSettle(c, outcome)
              PROVE  settledKey'[d] = latest
          <6>1. CASE d # c
            BY <3>3, <5>1, <6>1, SettleEffect, Zenon
          <6>2. CASE d = c
            <7>1. hold[c].key = latest
              BY <3>3, <5>1, <6>2, SettleEffect, Zenon DEF KeysOK, HoldSettle
            <7> QED
              BY <3>3, <5>1, <6>2, <7>1, SettleEffect, Zenon
          <6> QED
            BY <6>1, <6>2, Zenon
        <5> QED
          BY <3>3, <4>1, <5>1, MoveEffect, NextWorkEffect, ReleaseEffect, Zenon DEF HoldStep
      <4> QED
        BY <1>3, <3>3, <4>1, StepCases, VisitEffect, EventReserves, BackoffEffect, Zenon
           DEF Reserves
    <3> QED
      BY <1>0, <1>3, <2>1, <2>3, <3>2, <3>3, SMTT(20) DEF AnnounceSound
  <2> QED
    BY <2>2, <2>3, Zenon
<1> QED
  BY <1>1, <1>2, <1>3, Zenon

\* "config reload complete" is announced for the latest request only when every
\* container its pass listed, and every container that was due for a retry when the
\* request came, was reconciled (or found gone) by a reconcile that began under it.
THEOREM AnnouncesAreSound == Spec => []AnnounceSound
<1>1. Init => KeysOK /\ PassOK /\ AnnounceSound
  <2> SUFFICES ASSUME Init
               PROVE  KeysOK /\ PassOK /\ AnnounceSound
    OBVIOUS
  <2>1. NoKey.epoch <= NoKey.epoch
    BY Epochs, Zenon
  <2>2. KeysOK
    BY <2>1, Zenon DEF Init, KeysOK
  <2>3. PassOK
    BY Zenon DEF Init, PassOK
  <2>4. AnnounceSound
    BY Zenon DEF Init, AnnounceSound
  <2> QED
    BY <2>2, <2>3, <2>4, Zenon
<1>2. TypeOK /\ HeldOK /\ HoldOK /\ RequestOK /\ KeysOK /\ PassOK /\ AnnounceSound /\ [Next]_vars
         => (KeysOK /\ PassOK /\ AnnounceSound)'
  BY KeysStep, PassStep, AnnounceStep, Zenon
<1> QED
  BY <1>1, <1>2, TypeHeld, HoldInv, RequestInv, PTL DEF Spec

(***************************************************************************)
(* The promise of Obligations.  Each step is mapped by what it does to the  *)
(* three values below and to Due.  Only a request, the steps of the pass    *)
(* in progress and the announcements change Asked, ToVisit and Complete;    *)
(* only reservations and the end of a hold's work change Due.  While a      *)
(* reconcile settles, its container is still in Due, because the hold has   *)
(* it reserved as running (HoldOK).                                         *)
(***************************************************************************)
Asked == IF Enumerating THEN "listed" ELSE IF incomplete THEN "asked" ELSE "no"
ToVisit == IF Enumerating THEN queue ELSE {}
Complete == announced = latest

\* The invariant that the steps are mapped under.
Inv == TypeOK /\ HeldOK /\ HoldOK /\ RequestOK /\ KeysOK

Mapped == Promise!ObligationsNext \/ UNCHANGED <<Asked, ToVisit, Due, Complete>>

LEMMA MapRequest ==
    ASSUME Asked' = "asked", ToVisit' = {}, Complete' = FALSE, Due' = Due
    PROVE  Mapped
BY Zenon DEF Asked, ToVisit, Complete, Mapped, Promise!ObligationsNext, Promise!Request

LEMMA MapList ==
    ASSUME NEW S \in SUBSET Containers, Asked = "asked", Asked' = "listed", ToVisit' = S,
           Due' = Due, Complete' = Complete
    PROVE  Mapped
BY Zenon DEF Asked, ToVisit, Complete, Mapped, Promise!ObligationsNext, Promise!List

LEMMA MapAbandon ==
    ASSUME Asked = "listed", Asked' = "asked", ToVisit' = {}, Due' = Due, Complete' = Complete
    PROVE  Mapped
BY Zenon DEF Asked, ToVisit, Complete, Mapped, Promise!ObligationsNext, Promise!Abandon

LEMMA MapVisit ==
    ASSUME NEW c \in Containers, c \in ToVisit, ToVisit' = ToVisit \ {c}, Due' = Due \cup {c},
           Asked' = Asked, Complete' = Complete
    PROVE  Mapped
BY Zenon DEF Asked, ToVisit, Complete, Mapped, Promise!ObligationsNext, Promise!Visit

LEMMA MapFinish ==
    ASSUME Asked = "listed", ToVisit = {}, Asked' = "no", ToVisit' = {}, Due' = Due,
           Complete' = Complete \/ (Complete' = TRUE /\ Due' = {})
    PROVE  Mapped
BY Zenon DEF Asked, ToVisit, Complete, Mapped, Promise!ObligationsNext, Promise!Finish,
   Promise!MayAnnounce

LEMMA MapOwe ==
    ASSUME NEW c \in Containers, Due' = Due \cup {c}, Asked' = Asked, ToVisit' = ToVisit,
           Complete' = Complete
    PROVE  Mapped
BY Zenon DEF Asked, ToVisit, Complete, Mapped, Promise!ObligationsNext, Promise!Owe

LEMMA MapSettle ==
    ASSUME NEW c \in Containers, c \in Due, Due' = Due \ {c}, Asked' = Asked,
           ToVisit' = ToVisit,
           Complete' = Complete \/ (Complete' = TRUE /\ Asked' = "no" /\ Due' = {})
    PROVE  Mapped
BY Zenon DEF Asked, ToVisit, Complete, Mapped, Promise!ObligationsNext, Promise!Settle,
   Promise!MayAnnounce

LEMMA MapAnnounce ==
    ASSUME Asked = "no", Due = {}, Complete' = TRUE, Asked' = Asked, ToVisit' = ToVisit,
           Due' = Due
    PROVE  Mapped
BY Zenon DEF Asked, ToVisit, Complete, Mapped, Promise!ObligationsNext, Promise!Announce

----------------------------------------------------------------------------
(* What changes the mapped variables. *)

\* A container is due while a retry is pending or a hold has the reconcile.
IsDue(c) ==
    pending[c] # None \/ (inFlight[c] # None /\ (inFlight[c].reconcile \/ inFlight[c].running))

\* The pass in progress is where it was, or there is none before and after.
SamePass ==
    \/ UNCHANGED <<runPc, passKey, queue>>
    \/ runPc # "visiting" /\ runPc' # "visiting"

LEMMA DueSame ==
    ASSUME \A c \in Containers : IsDue(c)' <=> IsDue(c)
    PROVE  Due' = Due
BY Zenon DEF Due, IsDue

LEMMA DueAdded ==
    ASSUME NEW c \in Containers, IsDue(c)', \A d \in Containers \ {c} : IsDue(d)' <=> IsDue(d)
    PROVE  Due' = Due \cup {c}
BY Zenon DEF Due, IsDue

LEMMA DueRemoved ==
    ASSUME NEW c \in Containers, ~IsDue(c)', \A d \in Containers \ {c} : IsDue(d)' <=> IsDue(d)
    PROVE  Due' = Due \ {c}
BY Zenon DEF Due, IsDue

LEMMA DueMember ==
    ASSUME NEW c \in Containers PROVE c \in Due <=> IsDue(c)
BY Zenon DEF Due, IsDue

LEMMA PassSame ==
    ASSUME UNCHANGED <<latest, incomplete>>, SamePass
    PROVE  Asked' = Asked /\ ToVisit' = ToVisit
BY Zenon DEF Asked, ToVisit, Enumerating, SamePass

LEMMA Quiet ==
    ASSUME UNCHANGED <<latest, incomplete, announced, inFlight>>, SamePass,
           \A c \in Containers : pending'[c] = None <=> pending[c] = None
    PROVE  Mapped
<1>1. Due' = Due
  BY DueSame, Zenon DEF IsDue
<1>2. Complete' = Complete
  BY Zenon DEF Complete
<1> QED
  BY <1>1, <1>2, PassSame, Zenon DEF Mapped

\* announce_locked with the pass over: the announcement needs an empty Due.
LEMMA Announcing ==
    ASSUME TypeOK, UNCHANGED <<latest, incomplete>>, SamePass, Due' = Due,
           announced' = AnnounceLocked(incomplete, pending, inFlight)
    PROVE  Mapped
<1>1. Asked' = Asked /\ ToVisit' = ToVisit
  BY PassSame, Zenon
<1>2. CASE announced' = announced
  BY <1>1, <1>2, Zenon DEF Mapped, Complete
<1>3. CASE announced' # announced
  <2>0. incomplete \in BOOLEAN
    BY Zenon DEF TypeOK
  <2>1. /\ announced' = latest /\ ~incomplete
        /\ \A c \in Containers : pending[c] = None
        /\ \A c \in Containers : inFlight[c] # None => ~inFlight[c].reconcile /\ ~inFlight[c].running
    BY <1>3, <2>0, AnnounceCases, Zenon
  <2>2. Asked = "no"
    BY <2>1, Zenon DEF Asked, Enumerating
  <2>3. Due = {}
    BY <2>1, Zenon DEF Due
  <2>4. Complete' = TRUE
    BY <2>1, Zenon DEF Complete
  <2> QED
    BY <1>1, <2>2, <2>3, <2>4, MapAnnounce, Zenon
<1> QED
  BY <1>2, <1>3, Zenon

----------------------------------------------------------------------------
(* Each step. *)

LEMMA MappedRequest ==
    ASSUME Inv, NEW generation \in Generations, Request(generation)
    PROVE  Mapped
<1>1. /\ latest'.epoch = latest.epoch + 1 /\ latest' # announced /\ incomplete' = TRUE
      /\ \A c \in Containers : pending[c] = None <=> pending'[c] = None
      /\ UNCHANGED <<announced, inFlight, passKey>>
  BY RequestEffect, Zenon DEF Inv
<1>2. latest \in PassKey /\ passKey \in PassKey
  BY Zenon DEF Inv, TypeOK
<1>3. passKey # latest'
  BY <1>2, RequestGrows, Zenon DEF Inv, RequestOK
<1>4. ~Enumerating'
  BY <1>1, <1>3, Zenon DEF Enumerating
<1>5. Asked' = "asked" /\ ToVisit' = {} /\ Complete' = FALSE
  BY <1>1, <1>4, Zenon DEF Asked, ToVisit, Complete
<1>6. Due' = Due
  BY <1>1, DueSame, Zenon DEF IsDue
<1> QED
  BY <1>5, <1>6, MapRequest, Zenon

LEMMA MappedPass ==
    ASSUME Inv,
           \/ \E containers \in SUBSET Containers : RunList(containers)
           \/ RunSuperseded \/ RunFinishPass
    PROVE  Mapped
<1> USE DEF state, history
<1>0. incomplete \in BOOLEAN
  BY Zenon DEF Inv, TypeOK
<1>1. ASSUME NEW S \in SUBSET Containers, RunList(S)
      PROVE  Mapped
  <2>1. /\ runPc = "listing" /\ runPc' = "visiting" /\ queue' = S
        /\ UNCHANGED <<latest, incomplete, announced, pending, inFlight, passKey>>
    BY <1>1, Zenon DEF RunList
  <2>2. Due' = Due /\ Complete' = Complete
    BY <2>1, DueSame, Zenon DEF IsDue, Complete
  <2>3. CASE incomplete /\ passKey = latest
    <3>1. Asked = "asked" /\ Asked' = "listed" /\ ToVisit' = S
      BY <2>1, <2>3, Zenon DEF Asked, ToVisit, Enumerating
    <3> QED BY <2>2, <3>1, MapList, Zenon
  <2>4. CASE ~(incomplete /\ passKey = latest)
    <3>1. Asked' = Asked /\ ToVisit' = ToVisit
      BY <2>1, <2>4, Zenon DEF Asked, ToVisit, Enumerating
    <3> QED BY <2>2, <3>1, Zenon DEF Mapped
  <2> QED BY <2>3, <2>4, Zenon
<1>2. CASE RunSuperseded
  <2>1. /\ runPc = "visiting" /\ runPc' = "top"
        /\ UNCHANGED <<latest, incomplete, announced, pending, inFlight, passKey>>
    BY <1>2, Zenon DEF RunSuperseded
  <2>2. Due' = Due /\ Complete' = Complete
    BY <2>1, DueSame, Zenon DEF IsDue, Complete
  <2>3. ~Enumerating'
    BY <2>1, Zenon DEF Enumerating
  <2>4. CASE Enumerating
    <3>1. Asked = "listed" /\ Asked' = "asked" /\ ToVisit' = {}
      BY <2>1, <2>3, <2>4, Zenon DEF Asked, ToVisit, Enumerating
    <3> QED BY <2>2, <3>1, MapAbandon, Zenon
  <2>5. CASE ~Enumerating
    <3>1. Asked' = Asked /\ ToVisit' = ToVisit
      BY <2>1, <2>3, <2>5, Zenon DEF Asked, ToVisit
    <3> QED BY <2>2, <3>1, Zenon DEF Mapped
  <2> QED BY <2>4, <2>5, Zenon
<1>3. CASE RunFinishPass
  <2>1. /\ runPc = "visiting" /\ runPc' = "top" /\ queue = {}
        /\ incomplete' = (incomplete /\ passKey # latest)
        /\ announced' = AnnounceLocked(incomplete', pending, inFlight)
        /\ UNCHANGED <<latest, pending, inFlight, passKey>>
    BY <1>3, Zenon DEF RunFinishPass
  <2>2. Due' = Due
    BY <2>1, DueSame, Zenon DEF IsDue
  <2>3. ~Enumerating'
    BY <2>1, Zenon DEF Enumerating
  <2>4. CASE Enumerating
    <3>1. Asked = "listed" /\ ToVisit = {} /\ Asked' = "no" /\ ToVisit' = {} /\ incomplete' = FALSE
      BY <2>1, <2>3, <2>4, Zenon DEF Asked, ToVisit, Enumerating
    <3>2. CASE announced' = announced
      <4>1. Complete' = Complete
        BY <2>1, <3>2, Zenon DEF Complete
      <4> QED BY <2>2, <3>1, <4>1, MapFinish, Zenon
    <3>3. CASE announced' # announced
      <4>1. /\ announced' = latest
            /\ \A c \in Containers : pending[c] = None
            /\ \A c \in Containers :
                  inFlight[c] # None => ~inFlight[c].reconcile /\ ~inFlight[c].running
        BY <2>1, <3>1, <3>3, AnnounceCases, Zenon
      <4>2. Due = {}
        BY <4>1, Zenon DEF Due
      <4>3. Complete' = TRUE
        BY <2>1, <4>1, Zenon DEF Complete
      <4> QED BY <2>2, <3>1, <4>2, <4>3, MapFinish, Zenon
    <3> QED BY <3>2, <3>3, Zenon
  <2>5. CASE ~Enumerating
    <3>1. passKey # latest
      BY <2>1, <2>5, Zenon DEF Inv, RequestOK, Enumerating
    <3>2. incomplete' = incomplete
      BY <1>0, <2>1, <3>1, Zenon
    <3>3. Asked' = Asked /\ ToVisit' = ToVisit
      BY <2>3, <2>5, <3>2, Zenon DEF Asked, ToVisit
    <3>4. incomplete
      BY <2>1, <3>1, Zenon DEF Inv, RequestOK
    <3>5. announced' = announced
      BY <2>1, <3>2, <3>4, Zenon DEF AnnounceLocked
    <3> QED BY <2>1, <2>2, <3>3, <3>5, Zenon DEF Mapped, Complete
  <2> QED BY <2>4, <2>5, Zenon
<1> QED
  BY <1>1, <1>2, <1>3, Zenon

\* A visit of a pass or of a retry makes the container due.
LEMMA MappedVisit ==
    ASSUME Inv, NEW c \in Containers, RunVisit(c) \/ RunRetry(c)
    PROVE  Mapped
<1>0. inFlight \in [Containers -> Reservation \cup {None}]
  BY Zenon DEF Inv, TypeOK
<1>1. /\ UNCHANGED <<latest, incomplete, announced, pending, runPc, passKey>>
      /\ queue' = queue \ {c} /\ c \in queue
      /\ RunVisit(c) => runPc = "visiting" /\ latest = passKey
      /\ RunRetry(c) => runPc = "retrying"
  BY Zenon DEF RunVisit, RunRetry, ReconcileFromRun
<1>2. /\ \A d \in Containers \ {c} : inFlight'[d] = inFlight[d]
      /\ inFlight'[c] # None
      /\ inFlight[c] # None => inFlight'[c].reconcile = TRUE
  BY VisitEffect, Zenon DEF Inv, Reserves
<1>3. inFlight[c] = None => inFlight'[c].running = TRUE
  <2>1. inFlight[c] = None => inFlight' = [inFlight EXCEPT ![c] = Reserve(FALSE)]
    BY Zenon DEF RunVisit, RunRetry, ReconcileFromRun
  <2> QED BY <1>0, <2>1, ReserveFields, Zenon
<1>4. IsDue(c)' /\ \A d \in Containers \ {c} : IsDue(d)' <=> IsDue(d)
  BY <1>1, <1>2, <1>3, Zenon DEF IsDue
<1>5. Due' = Due \cup {c}
  BY <1>4, DueAdded, Zenon
<1>6. Complete' = Complete
  BY <1>1, Zenon DEF Complete
<1>7. CASE RunVisit(c)
  <2>1. Enumerating /\ Enumerating'
    BY <1>1, <1>7, Zenon DEF Inv, RequestOK, Enumerating
  <2>2. Asked' = Asked /\ c \in ToVisit /\ ToVisit' = ToVisit \ {c}
    BY <1>1, <2>1, Zenon DEF Asked, ToVisit
  <2> QED BY <1>5, <1>6, <2>2, MapVisit, Zenon
<1>8. CASE RunRetry(c)
  <2>1. SamePass
    BY <1>1, <1>8, Zenon DEF SamePass
  <2> QED BY <1>1, <1>5, <1>6, <2>1, PassSame, MapOwe, Zenon
<1> QED
  BY <1>7, <1>8, Zenon

\* A start event makes the container due unless the hold's reconcile covers it; an end
\* event does not.
LEMMA MappedEvent ==
    ASSUME Inv, NEW c \in Containers,
           ListenerReserve(c) \/ \E eventTime \in 1 .. clock : EventEnd(c, eventTime)
    PROVE  Mapped
<1>0. inFlight \in [Containers -> Reservation \cup {None}]
  BY Zenon DEF Inv, TypeOK
<1>1. UNCHANGED <<latest, incomplete, announced, pending, runPc, passKey, queue>>
  BY Zenon DEF ListenerReserve, EventEnd, runVars
<1>2. Asked' = Asked /\ ToVisit' = ToVisit /\ Complete' = Complete
  BY <1>1, PassSame, Zenon DEF SamePass, Complete
<1>3. CASE ListenerReserve(c)
  <2>1. CASE inFlight[c] = None
    <3>1. inFlight' = [inFlight EXCEPT ![c] = Reserve(FALSE)]
      BY <1>3, <2>1, Zenon DEF ListenerReserve
    <3>2. /\ inFlight'[c].running = TRUE /\ inFlight'[c] # None
          /\ \A d \in Containers \ {c} : inFlight'[d] = inFlight[d]
      <4>1. Reserve(FALSE) \in Reservation
        BY ReserveType, Zenon DEF Inv
      <4> QED BY <1>0, <3>1, <4>1, ReserveFields, NotNone, Zenon
    <3>3. IsDue(c)' /\ \A d \in Containers \ {c} : IsDue(d)' <=> IsDue(d)
      BY <1>1, <3>2, Zenon DEF IsDue
    <3> QED BY <1>2, <3>3, DueAdded, MapOwe, Zenon
  <2>2. CASE inFlight[c] # None
    <3>1. inFlight' = [inFlight EXCEPT ![c] = ReserveHeld(@, listener.time, FALSE)]
      BY <1>3, <2>2, Zenon DEF ListenerReserve
    <3>2. /\ inFlight'[c] = ReserveHeld(inFlight[c], listener.time, FALSE)
          /\ inFlight[c] \in Reservation
          /\ \A d \in Containers \ {c} : inFlight'[d] = inFlight[d]
      BY <1>0, <2>2, <3>1, Zenon
    <3>3. inFlight'[c] # None
      BY <1>3, EventReserves, Zenon DEF Inv, Reserves
    <3>4. inFlight'[c] = inFlight[c] \/ inFlight'[c].reconcile = TRUE
      BY <3>2, Zenon DEF ReserveHeld, Reservation
    <3>5. CASE inFlight'[c] = inFlight[c]
      <4>1. \A d \in Containers : IsDue(d)' <=> IsDue(d)
        BY <1>1, <3>2, <3>5, Zenon DEF IsDue
      <4> QED BY <1>2, <4>1, DueSame, Zenon DEF Mapped
    <3>6. CASE inFlight'[c].reconcile = TRUE
      <4>1. IsDue(c)' /\ \A d \in Containers \ {c} : IsDue(d)' <=> IsDue(d)
        BY <1>1, <3>2, <3>3, <3>6, Zenon DEF IsDue
      <4> QED BY <1>2, <4>1, DueAdded, MapOwe, Zenon
    <3> QED BY <3>4, <3>5, <3>6, Zenon
  <2> QED BY <2>1, <2>2, Zenon
<1>4. ASSUME NEW eventTime \in 1 .. clock, EventEnd(c, eventTime)
      PROVE  Mapped
  <2>1. CASE inFlight[c] = None
    <3>1. inFlight' = [inFlight EXCEPT ![c] = Reserve(TRUE)]
      BY <1>4, <2>1, Zenon DEF EventEnd
    <3>2. /\ inFlight'[c].running = FALSE /\ inFlight'[c].reconcile = FALSE
          /\ \A d \in Containers \ {c} : inFlight'[d] = inFlight[d]
      BY <1>0, <3>1, ReserveFields, Zenon
    <3>3. \A d \in Containers : IsDue(d)' <=> IsDue(d)
      BY <1>1, <2>1, <3>2, Zenon DEF IsDue
    <3> QED BY <1>2, <3>3, DueSame, Zenon DEF Mapped
  <2>2. CASE inFlight[c] # None
    <3>1. inFlight' = [inFlight EXCEPT ![c] = ReserveHeld(@, eventTime, TRUE)]
      BY <1>4, <2>2, Zenon DEF EventEnd
    <3>2. /\ inFlight'[c] = ReserveHeld(inFlight[c], eventTime, TRUE)
          /\ inFlight[c] \in Reservation
          /\ \A d \in Containers \ {c} : inFlight'[d] = inFlight[d]
      BY <1>0, <2>2, <3>1, Zenon
    <3>3. inFlight'[c] # None
      BY <1>4, EventReserves, Zenon DEF Inv, Reserves
    <3>4. inFlight'[c].reconcile = inFlight[c].reconcile /\ inFlight'[c].running = inFlight[c].running
      BY <3>2, Zenon DEF ReserveHeld, Reservation
    <3>5. \A d \in Containers : IsDue(d)' <=> IsDue(d)
      BY <1>1, <2>2, <3>2, <3>3, <3>4, Zenon DEF IsDue
    <3> QED BY <1>2, <3>5, DueSame, Zenon DEF Mapped
  <2> QED BY <2>1, <2>2, Zenon
<1> QED
  BY <1>3, <1>4, Zenon

\* A reconcile that settles leaves the container reserved; the obligation is settled by
\* the step that follows it.
LEMMA MappedHold ==
    ASSUME Inv, NEW c \in Containers, HoldStep(c)
    PROVE  Mapped
<1>0. inFlight \in [Containers -> Reservation \cup {None}]
  BY Zenon DEF Inv, TypeOK
<1>1. UNCHANGED <<latest, incomplete, runPc, passKey, queue>>
  BY HoldFrame, Zenon
<1>s. SamePass
  BY <1>1, Zenon DEF SamePass
<1>2. CASE HoldTerminate(c) \/ HoldBegin(c) \/ HoldMarkProcessed(c)
  <2>1. UNCHANGED <<inFlight, pending, announced>>
    BY <1>2, MoveEffect, Zenon DEF Inv
  <2> QED BY <1>1, <1>s, <2>1, Quiet, Zenon
<1>3. ASSUME NEW outcome \in {"ok", "gone", "fail"}, HoldSettle(c, outcome)
      PROVE  Mapped
  <2>1. /\ UNCHANGED <<inFlight, announced>> /\ hold[c] # None /\ hold[c].pc = "processing"
        /\ \A d \in Containers \ {c} : pending'[d] = pending[d]
    BY <1>3, SettleEffect, ZenonT(40) DEF Inv, HoldSettle
  <2>2. inFlight[c] # None /\ inFlight[c].running
    BY <2>1, Zenon DEF Inv, HoldOK, HeldOK
  <2>3. \A d \in Containers : IsDue(d)' <=> IsDue(d)
    BY <2>1, <2>2, Zenon DEF IsDue
  <2> QED BY <1>1, <1>s, <2>1, <2>3, DueSame, PassSame, Zenon DEF Mapped, Complete
<1>4. CASE HoldNextWork(c)
  <2>1. /\ UNCHANGED <<pending, announced>>
        /\ inFlight[c] # None /\ inFlight'[c] # None
        /\ \A d \in Containers \ {c} : inFlight'[d] = inFlight[d]
    BY <1>4, NextWorkEffect, Zenon DEF Inv
  <2>2. /\ inFlight'[c].running = inFlight[c].reconcile
        /\ inFlight'[c].reconcile = FALSE
    BY <1>0, <1>4, Zenon DEF HoldNextWork
  <2>3. \A d \in Containers \ {c} : IsDue(d)' <=> IsDue(d)
    BY <2>1, Zenon DEF IsDue
  <2>4. Asked' = Asked /\ ToVisit' = ToVisit /\ Complete' = Complete
    BY <1>1, <1>s, <2>1, PassSame, Zenon DEF Complete
  <2>5. IsDue(c)' => IsDue(c)
    BY <2>1, <2>2, Zenon DEF IsDue
  <2>6. CASE IsDue(c)' <=> IsDue(c)
    BY <2>3, <2>4, <2>6, DueSame, Zenon DEF Mapped
  <2>7. CASE IsDue(c) /\ ~IsDue(c)'
    BY <2>3, <2>4, <2>7, DueRemoved, DueMember, MapSettle, Zenon
  <2> QED BY <2>5, <2>6, <2>7, Zenon
<1>5. CASE HoldRelease(c)
  <2>1. /\ inFlight'[c] = None
        /\ \A d \in Containers \ {c} : inFlight'[d] = inFlight[d]
        /\ announced' = AnnounceLocked(incomplete, pending, inFlight')
        /\ UNCHANGED pending
    BY <1>5, ReleaseEffect, Zenon DEF Inv
  <2>2. \A d \in Containers \ {c} : IsDue(d)' <=> IsDue(d)
    BY <2>1, Zenon DEF IsDue
  <2>3. IsDue(c)' => IsDue(c)
    BY <2>1, Zenon DEF IsDue
  <2>4. Asked' = Asked /\ ToVisit' = ToVisit
    BY <1>1, <1>s, PassSame, Zenon
  <2>5. \/ Complete' = Complete
        \/ Complete' = TRUE /\ Asked' = "no" /\ Due' = {}
    <3>1. CASE announced' = announced
      BY <1>1, <3>1, Zenon DEF Complete
    <3>2. CASE announced' # announced
      <4>1. incomplete \in BOOLEAN
        BY Zenon DEF Inv, TypeOK
      <4>2. /\ announced' = latest /\ ~incomplete
            /\ \A d \in Containers : pending[d] = None
            /\ \A d \in Containers :
                  inFlight'[d] # None => ~inFlight'[d].reconcile /\ ~inFlight'[d].running
        BY <2>1, <3>2, Zenon DEF AnnounceLocked
      <4>3. Due' = {}
        BY <2>1, <4>2, Zenon DEF Due
      <4>4. Asked = "no"
        BY <4>2, Zenon DEF Asked, Enumerating
      <4> QED BY <1>1, <2>4, <4>2, <4>3, <4>4, Zenon DEF Complete
    <3> QED BY <3>1, <3>2, Zenon
  <2>6. CASE IsDue(c)' <=> IsDue(c)
    <3>1. Due' = Due
      BY <2>2, <2>6, DueSame, Zenon
    <3>2. CASE Complete' = Complete
      BY <2>4, <3>1, <3>2, Zenon DEF Mapped
    <3>3. CASE Complete' = TRUE /\ Asked' = "no" /\ Due' = {}
      BY <2>4, <3>1, <3>3, MapAnnounce, Zenon
    <3> QED BY <2>5, <3>2, <3>3, Zenon
  <2>7. CASE IsDue(c) /\ ~IsDue(c)'
    BY <2>2, <2>4, <2>5, <2>7, DueRemoved, DueMember, MapSettle, Zenon
  <2> QED BY <2>3, <2>6, <2>7, Zenon
<1> QED
  BY <1>2, <1>3, <1>4, <1>5, Zenon DEF HoldStep

LEMMA MappedRest ==
    ASSUME Inv,
           \/ RunStop \/ RunTakeRequest \/ RunNoRequest \/ RunArm \/ RunWake \/ RunListRetry
           \/ RunRetryDue \/ RunPrune \/ RunSweep \/ RunListFails \/ RunRetryDone
           \/ ListenerStart \/ ListenerNotify \/ ListenerStop
           \/ \E c \in Containers, eventTime \in 1 .. clock : EventStart(c, eventTime)
           \/ \E c \in Containers : BackoffElapses(c) \/ ProcessedExpires(c)
           \/ RetryTimerElapses \/ Tick \/ Cancel \/ CloseAndWait \/ UNCHANGED vars
    PROVE  Mapped
<1> USE DEF state, runVars
<1>1. CASE \/ RunStop \/ RunTakeRequest \/ RunNoRequest \/ RunArm \/ RunWake \/ RunListRetry
           \/ RunRetryDue \/ RunPrune \/ RunSweep
  <2>1. UNCHANGED <<latest, incomplete, announced, pending, inFlight>>
    BY <1>1, Zenon DEF RunStop, RunTakeRequest, RunNoRequest, RunArm, RunWake, RunListRetry,
       RunRetryDue, RunPrune, RunSweep
  <2>2. runPc # "visiting" /\ runPc' # "visiting"
    BY <1>1, Zenon DEF RunStop, RunTakeRequest, RunNoRequest, RunArm, RunWake, RunListRetry,
       RunRetryDue, RunPrune, RunSweep
  <2> QED BY <2>1, <2>2, Quiet, Zenon DEF SamePass
<1>2. CASE RunListFails \/ RunRetryDone
  <2>1. /\ UNCHANGED <<latest, incomplete, pending, inFlight>>
        /\ runPc # "visiting" /\ runPc' # "visiting"
        /\ announced' = AnnounceLocked(incomplete, pending, inFlight) \/ UNCHANGED announced
    BY <1>2, Zenon DEF RunListFails, RunRetryDone
  <2>2. CASE announced' = AnnounceLocked(incomplete, pending, inFlight)
    <3>1. Due' = Due
      BY <2>1, DueSame, Zenon DEF IsDue
    <3> QED BY <2>1, <2>2, <3>1, Announcing, Zenon DEF SamePass, Inv
  <2>3. CASE UNCHANGED announced
    BY <2>1, <2>3, Quiet, Zenon DEF SamePass
  <2> QED BY <2>1, <2>2, <2>3, Zenon
<1>3. CASE \E c \in Containers : BackoffElapses(c)
  <2>1. PICK c \in Containers : BackoffElapses(c)
    BY <1>3, Zenon
  <2>2. /\ pending'[c] # None /\ pending[c] # None
        /\ \A d \in Containers \ {c} : pending'[d] = pending[d]
        /\ UNCHANGED <<latest, incomplete, announced, inFlight, runPc, passKey, queue>>
    BY <2>1, BackoffEffect, Zenon DEF Inv
  <2> QED BY <2>2, Quiet, Zenon DEF SamePass
<1>4. CASE \/ ListenerStart \/ ListenerNotify \/ ListenerStop
           \/ \E c \in Containers, eventTime \in 1 .. clock : EventStart(c, eventTime)
           \/ \E c \in Containers : ProcessedExpires(c)
           \/ RetryTimerElapses \/ Tick \/ Cancel \/ CloseAndWait \/ UNCHANGED vars
  <2>1. UNCHANGED <<latest, incomplete, announced, pending, inFlight, runPc, passKey, queue>>
    BY <1>4, Zenon DEF ListenerStart, ListenerNotify, ListenerStop, EventStart, ProcessedExpires,
       RetryTimerElapses, Tick, Cancel, CloseAndWait, vars
  <2> QED BY <2>1, Quiet, Zenon DEF SamePass
<1> QED
  BY <1>1, <1>2, <1>3, <1>4, Zenon

LEMMA MappedStep ==
    ASSUME Inv, [Next]_vars
    PROVE  Mapped
<1>1. CASE \E generation \in Generations : Request(generation)
  BY <1>1, MappedRequest, Zenon
<1>2. CASE RunStep \/ RunPrune \/ RunSweep
  BY <1>2, MappedPass, MappedVisit, MappedRest, Zenon DEF RunStep
<1>3. CASE ListenerStep \/ Event
  BY <1>3, MappedEvent, MappedRest, Zenon DEF ListenerStep, Event
<1>4. CASE \E c \in Containers : HoldStep(c) \/ BackoffElapses(c) \/ ProcessedExpires(c)
  BY <1>4, MappedHold, MappedRest, Zenon
<1>5. CASE RetryTimerElapses \/ Tick \/ Cancel \/ CloseAndWait \/ UNCHANGED vars
  BY <1>5, MappedRest, Zenon
<1> QED
  BY <1>1, <1>2, <1>3, <1>4, <1>5, Zenon DEF Next

LEMMA KeysInv == Spec => []KeysOK
<1>1. Init => KeysOK
  BY Epochs, Zenon DEF Init, KeysOK
<1>2. TypeOK /\ HeldOK /\ RequestOK /\ KeysOK /\ [Next]_vars => KeysOK'
  BY KeysStep, Zenon
<1> QED
  BY <1>1, <1>2, TypeHeld, RequestInv, PTL DEF Spec

\* The coordinator implements Obligations: a listed container becomes due before the
\* pass ends, a due one stays due until its hold releases it reconciled, and completion
\* is announced with nothing due (visit or follow-up, settle, next, announce_locked).
THEOREM PromiseKept == Spec => Promised
<1>1. Init => Promise!ObligationsInit
  <2> SUFFICES ASSUME Init PROVE Promise!ObligationsInit
    OBVIOUS
  <2>1. ~Enumerating /\ incomplete = FALSE
    BY Zenon DEF Init, Enumerating
  <2>2. Due = {}
    BY Zenon DEF Init, Due
  <2>3. announced = latest
    BY Zenon DEF Init
  <2> QED BY <2>1, <2>2, <2>3, Zenon DEF Promise!ObligationsInit
<1>2. Inv /\ [Next]_vars => [Promise!ObligationsNext]_(Promise!obligations)
  <2>1. UNCHANGED <<Asked, ToVisit, Due, Complete>> => UNCHANGED Promise!obligations
    BY Zenon DEF Asked, ToVisit, Complete, Promise!obligations
  <2> QED BY <2>1, MappedStep, Zenon DEF Mapped
<1>3. Spec => []Inv
  BY TypeHeld, HoldInv, RequestInv, KeysInv, PTL DEF Inv
<1> QED
  BY <1>1, <1>2, <1>3, PTL DEF Spec, Promised, Promise!ObligationsSpec


(***************************************************************************)
(* The coordinator loses no start event and no end event, for every set of  *)
(* containers and every value of the bounds.                                *)
(*                                                                         *)
(* The argument, for one container: a reservation's applyStart is read      *)
(* before the reconcile inspects the container, so that a reconcile which    *)
(* succeeds has inspected it at applyStart or later (ClockOK).  A start      *)
(* event newer than the last inspect is then with the listener, queued with  *)
(* the hold, before a reconcile that began at it or later, or pending        *)
(* (StartOK).  An end event newer than the last cleanup is the work of the   *)
(* hold or queued with it (EndOK).                                           *)
(***************************************************************************)
ClockOK(c) ==
    /\ seen[c] <= clock
    /\ processed[c] # None => processed[c].at <= inspected[c]
    /\ hold[c] # None =>
         /\ inFlight[c].applyStart <= clock
         /\ inFlight[c].running <=> inFlight[c].applyStart # NoTime
         /\ hold[c].pc = "processing" => inFlight[c].applyStart <= hold[c].started
         /\ hold[c].pc = "mark" => hold[c].started <= inspected[c]
         /\ (hold[c].pc \in {"mark", "next"} /\ inFlight[c].running) =>
              pending[c] # None \/ inFlight[c].applyStart <= inspected[c]

Reserving(c) == listener.pc = "reserve" /\ listener.container = c

StartOK(c) ==
    seen[c] > inspected[c] =>
        \/ Reserving(c) /\ listener.time = seen[c]
        \/ inFlight[c] # None /\ inFlight[c].reconcile
        \/ /\ inFlight[c] # None /\ hold[c].reconcile
           /\ hold[c].pc \in {"terminate", "begin", "processing"}
           /\ inFlight[c].applyStart >= seen[c]
        \/ /\ pending[c] # None
           /\ inFlight[c] # None /\ hold[c].reconcile => hold[c].pc \in {"mark", "next"}

EndOK(c) ==
    /\ inFlight[c] # None => inFlight[c].terminateAt <= died[c]
    /\ died[c] > ended[c] =>
         /\ hold[c] # None
         /\ \/ inFlight[c].terminateAt = died[c]
            \/ hold[c].pc = "terminate" /\ hold[c].terminateAt = died[c]

EventsOK(c) == ClockOK(c) /\ StartOK(c) /\ EndOK(c)

\* The invariant of the holds that the steps are taken under.
HoldInvOK == TypeOK /\ HeldOK /\ HoldOK

LEMMA Types ==
    ASSUME TypeOK, NEW c \in Containers
    PROVE  /\ clock \in Nat /\ clock > 0
           /\ seen[c] \in Nat /\ inspected[c] \in Nat /\ died[c] \in Nat /\ ended[c] \in Nat
           /\ inFlight[c] # None =>
                /\ inFlight[c] \in Reservation
                /\ inFlight[c].applyStart \in Nat /\ inFlight[c].terminateAt \in Nat
                /\ inFlight[c].running \in BOOLEAN /\ inFlight[c].reconcile \in BOOLEAN
           /\ hold[c] # None =>
                /\ hold[c] \in Hold
                /\ hold[c].started \in Nat /\ hold[c].terminateAt \in Nat
                /\ hold[c].reconcile \in BOOLEAN
           /\ processed[c] # None => processed[c] \in Inspected /\ processed[c].at \in Nat
<1>1. Time \subseteq Nat
  BY TimeNat, Zenon
<1>2. clock \in 1 .. MaxClock
  BY Zenon DEF TypeOK
<1>3. /\ seen[c] \in Time /\ inspected[c] \in Time /\ died[c] \in Time /\ ended[c] \in Time
  BY Zenon DEF TypeOK
<1>4. inFlight[c] # None => inFlight[c] \in Reservation
  BY Zenon DEF TypeOK
<1>5. hold[c] # None => hold[c] \in Hold
  BY Zenon DEF TypeOK
<1>6. processed[c] # None => processed[c] \in Inspected
  BY Zenon DEF TypeOK
<1>7. \A r \in Reservation : /\ r.applyStart \in Time /\ r.terminateAt \in Time
                            /\ r.running \in BOOLEAN /\ r.reconcile \in BOOLEAN
  BY Zenon DEF Reservation
<1>8. \A h \in Hold : h.started \in Time /\ h.terminateAt \in Time /\ h.reconcile \in BOOLEAN
  BY Zenon DEF Hold
<1>9. \A p \in Inspected : p.at \in Time
  BY Zenon DEF Inspected
<1>10. clock \in Nat /\ clock > 0
  BY <1>2, EventTime, Zenon
<1> QED
  BY <1>1, <1>3, <1>4, <1>5, <1>6, <1>7, <1>8, <1>9, <1>10, Zenon

\* Nothing that concerns d changes but the clock and the processed entry's expiry.
Same(d) ==
    /\ hold'[d] = hold[d] /\ inFlight'[d] = inFlight[d]
    /\ pending'[d] = None <=> pending[d] = None
    /\ seen'[d] = seen[d] /\ inspected'[d] = inspected[d]
    /\ died'[d] = died[d] /\ ended'[d] = ended[d]
    /\ clock' \in {clock, clock + 1}
    /\ processed'[d] # None => processed[d] # None /\ processed'[d].at = processed[d].at
    /\ Reserving(d) => listener' = listener

LEMMA SameKeeps ==
    ASSUME TypeOK, NEW d \in Containers, EventsOK(d), Same(d), HeldOK
    PROVE  EventsOK(d)'
<1>1. clock \in Nat /\ seen[d] \in Nat
  BY Types, Zenon
<1>2. inFlight[d] # None => inFlight[d].applyStart \in Nat
  BY Types, Zenon
<1>3. clock' >= clock /\ clock' \in Nat
  BY <1>1, PositiveTime, Zenon DEF Same
<1>4. ClockOK(d)'
  <2>1. seen'[d] <= clock'
    BY <1>1, <1>3, TimeOrder, Zenon DEF EventsOK, ClockOK, Same
  <2>2. hold[d] # None => inFlight'[d].applyStart <= clock'
    BY <1>1, <1>2, <1>3, TimeOrder, Zenon DEF EventsOK, ClockOK, Same, HeldOK
  <2> QED BY <2>1, <2>2, Zenon DEF EventsOK, ClockOK, Same
<1>5. StartOK(d)'
  BY Zenon DEF EventsOK, StartOK, Reserving, Same
<1>6. EndOK(d)'
  BY Zenon DEF EventsOK, EndOK, Same
<1> QED
  BY <1>4, <1>5, <1>6, Zenon DEF EventsOK

----------------------------------------------------------------------------
(* Reservations. *)

\* A free container gets a hold that reconciles it.
Taken(c) ==
    /\ inFlight[c] = None
    /\ inFlight'[c] # None /\ inFlight'[c].reconcile = FALSE /\ inFlight'[c].running = TRUE
    /\ inFlight'[c].applyStart = clock /\ inFlight'[c].terminateAt = NoTime
    /\ hold'[c] # None /\ hold'[c].reconcile = TRUE /\ hold'[c].pc = "begin"

\* A held one has a reconcile queued, unless the event is covered.
Queued(c, eventTime) ==
    /\ inFlight[c] # None /\ inFlight'[c] # None /\ hold'[c] = hold[c]
    /\ inFlight'[c].running = inFlight[c].running
    /\ inFlight'[c].applyStart = inFlight[c].applyStart
    /\ inFlight'[c].terminateAt = inFlight[c].terminateAt
    /\ \/ inFlight'[c].reconcile = TRUE
       \/ /\ inFlight'[c].reconcile = inFlight[c].reconcile
          /\ eventTime # NoTime /\ inFlight[c].applyStart # NoTime
          /\ ~(eventTime > inFlight[c].applyStart)

LEMMA TakenFields ==
    ASSUME TypeOK, NEW c \in Containers, NEW owner \in {"run", "listener"}, inFlight[c] = None,
           inFlight' = [inFlight EXCEPT ![c] = Reserve(FALSE)],
           hold' = [hold EXCEPT ![c] = NewHold(owner, TRUE, NoTime, FALSE)]
    PROVE  /\ Taken(c)
           /\ \A d \in Containers \ {c} : hold'[d] = hold[d] /\ inFlight'[d] = inFlight[d]
<1>0. /\ inFlight \in [Containers -> Reservation \cup {None}]
      /\ hold \in [Containers -> Hold \cup {None}]
  BY Zenon DEF TypeOK
<1>1. /\ inFlight'[c] = Reserve(FALSE) /\ hold'[c] = NewHold(owner, TRUE, NoTime, FALSE)
      /\ \A d \in Containers \ {c} : hold'[d] = hold[d] /\ inFlight'[d] = inFlight[d]
  BY <1>0, Zenon
<1>2. Reserve(FALSE) \in Reservation /\ NewHold(owner, TRUE, NoTime, FALSE) \in Hold
  BY ReserveType, NewHoldType, HandlingType, Zenon
<1>3. /\ NewHold(owner, TRUE, NoTime, FALSE).reconcile = TRUE
      /\ NewHold(owner, TRUE, NoTime, FALSE).pc = "begin"
  BY Zenon DEF NewHold
<1> QED
  BY <1>1, <1>2, <1>3, ReserveFields, NotNone, Zenon DEF Taken

LEMMA ReconcileQueued ==
    ASSUME NEW held \in Reservation, NEW r, r = [held EXCEPT !.reconcile = TRUE]
    PROVE  /\ r.reconcile = TRUE /\ r.running = held.running
           /\ r.applyStart = held.applyStart /\ r.terminateAt = held.terminateAt
BY Zenon DEF Reservation

LEMMA QueuedFields ==
    ASSUME TypeOK, NEW c \in Containers, NEW t \in Time, inFlight[c] # None,
           inFlight' = [inFlight EXCEPT ![c] = ReserveHeld(@, t, FALSE)], hold' = hold
    PROVE  /\ Queued(c, t)
           /\ \A d \in Containers \ {c} : hold'[d] = hold[d] /\ inFlight'[d] = inFlight[d]
<1>0. inFlight \in [Containers -> Reservation \cup {None}]
  BY Zenon DEF TypeOK
<1>1. /\ inFlight[c] \in Reservation
      /\ inFlight'[c] = ReserveHeld(inFlight[c], t, FALSE)
      /\ \A d \in Containers \ {c} : inFlight'[d] = inFlight[d]
  BY <1>0, Zenon
<1>2. inFlight'[c] # None
  BY <1>1, ReserveHeldType, NotNone, Zenon
<1>3. CASE t = NoTime \/ inFlight[c].applyStart = NoTime \/ t > inFlight[c].applyStart
  <2>1. inFlight'[c] = [inFlight[c] EXCEPT !.reconcile = TRUE]
    BY <1>1, <1>3, Zenon DEF ReserveHeld
  <2>2. /\ inFlight'[c].reconcile = TRUE /\ inFlight'[c].running = inFlight[c].running
        /\ inFlight'[c].applyStart = inFlight[c].applyStart
        /\ inFlight'[c].terminateAt = inFlight[c].terminateAt
    BY <1>1, <2>1, ReconcileQueued, Zenon
  <2> QED BY <1>1, <1>2, <2>2, Zenon DEF Queued
<1>4. CASE ~(t = NoTime \/ inFlight[c].applyStart = NoTime \/ t > inFlight[c].applyStart)
  <2>1. inFlight'[c] = inFlight[c]
    BY <1>1, <1>4, Zenon DEF ReserveHeld
  <2> QED BY <1>1, <1>2, <1>4, <2>1, Zenon DEF Queued
<1> QED
  BY <1>3, <1>4, Zenon

LEMMA TakenKeeps ==
    ASSUME HoldInvOK, NEW c \in Containers, EventsOK(c), Taken(c),
           UNCHANGED <<pending, seen, inspected, died, ended, clock, processed>>
    PROVE  EventsOK(c)'
<1>1. /\ clock \in Nat /\ clock > 0 /\ died[c] \in Nat /\ ended[c] \in Nat /\ hold[c] = None
      /\ seen[c] \in Nat
  BY Types, Zenon DEF HoldInvOK, HeldOK, Taken
<1>2. ClockOK(c)'
  BY <1>1, PositiveTime, Zenon DEF EventsOK, ClockOK, Taken
<1>3. StartOK(c)'
  BY <1>1, Zenon DEF EventsOK, ClockOK, StartOK, Taken
<1>4. EndOK(c)'
  BY <1>1, PositiveTime, Zenon DEF EventsOK, EndOK, Taken
<1> QED
  BY <1>2, <1>3, <1>4, Zenon DEF EventsOK

LEMMA VisitEvents ==
    ASSUME HoldInvOK, NEW c \in Containers, EventsOK(c), RunVisit(c) \/ RunRetry(c)
    PROVE  EventsOK(c)' /\ \A d \in Containers \ {c} : Same(d)
<1>1. UNCHANGED <<pending, seen, inspected, died, ended, clock, processed, listener>>
  BY Zenon DEF RunVisit, RunRetry, environment, history
<1>2. CASE inFlight[c] = None
  <2>1. /\ inFlight' = [inFlight EXCEPT ![c] = Reserve(FALSE)]
        /\ hold' = [hold EXCEPT ![c] = NewHold("run", TRUE, NoTime, FALSE)]
    BY <1>2, Zenon DEF RunVisit, RunRetry, ReconcileFromRun
  <2> QED BY <1>1, <1>2, <2>1, TakenFields, TakenKeeps, Zenon DEF HoldInvOK, Same
<1>3. CASE inFlight[c] # None
  <2>1. inFlight' = [inFlight EXCEPT ![c] = ReserveHeld(@, NoTime, FALSE)] /\ hold' = hold
    BY <1>3, Zenon DEF RunVisit, RunRetry, ReconcileFromRun
  <2>2. /\ Queued(c, NoTime) /\ inFlight'[c].reconcile = TRUE
        /\ \A d \in Containers \ {c} : hold'[d] = hold[d] /\ inFlight'[d] = inFlight[d]
    BY <1>3, <2>1, QueuedFields, HandlingType, Zenon DEF HoldInvOK, Queued
  <2>3. hold[c] # None
    BY <1>3, Zenon DEF HoldInvOK, HeldOK
  <2>4. ClockOK(c)' /\ StartOK(c)' /\ EndOK(c)'
    BY <1>1, <2>2, <2>3, Zenon DEF EventsOK, ClockOK, StartOK, EndOK, Queued
  <2> QED BY <1>1, <2>2, <2>4, Zenon DEF Same, EventsOK
<1> QED
  BY <1>2, <1>3, Zenon

LEMMA ReserveEvents ==
    ASSUME HoldInvOK, NEW c \in Containers, EventsOK(c), ListenerReserve(c)
    PROVE  EventsOK(c)' /\ \A d \in Containers \ {c} : Same(d)
<1>1. /\ UNCHANGED <<pending, seen, inspected, died, ended, clock, processed>>
      /\ Reserving(c) /\ \A d \in Containers \ {c} : ~Reserving(d)
  BY Zenon DEF ListenerReserve, Reserving, environment, history
<1>2. CASE inFlight[c] = None
  <2>1. /\ inFlight' = [inFlight EXCEPT ![c] = Reserve(FALSE)]
        /\ hold' = [hold EXCEPT ![c] = NewHold("listener", TRUE, NoTime, FALSE)]
    BY <1>2, Zenon DEF ListenerReserve
  <2> QED BY <1>1, <1>2, <2>1, TakenFields, TakenKeeps, Zenon DEF HoldInvOK, Same
<1>3. CASE inFlight[c] # None
  <2>1. inFlight' = [inFlight EXCEPT ![c] = ReserveHeld(@, listener.time, FALSE)] /\ hold' = hold
    BY <1>3, Zenon DEF ListenerReserve
  <2>2. listener.time \in Time
    BY Zenon DEF HoldInvOK, TypeOK, Handler
  <2>3. /\ Queued(c, listener.time)
        /\ \A d \in Containers \ {c} : hold'[d] = hold[d] /\ inFlight'[d] = inFlight[d]
    BY <1>3, <2>1, <2>2, QueuedFields, Zenon DEF HoldInvOK
  <2>4. /\ hold[c] # None /\ inFlight[c].applyStart \in Nat /\ seen[c] \in Nat
        /\ inspected[c] \in Nat /\ hold[c] \in Hold
    BY <1>3, Types, Zenon DEF HoldInvOK, HeldOK
  <2>5. hold[c].pc \in {"terminate", "begin", "processing", "mark", "next"}
    BY <2>4, Zenon DEF Hold
  <2>6. inFlight[c].running = hold[c].reconcile
    BY <2>4, Zenon DEF HoldInvOK, HoldOK
  <2>7. ClockOK(c)' /\ EndOK(c)'
    BY <1>1, <2>3, <2>4, Zenon DEF EventsOK, ClockOK, EndOK, Queued
  <2>8. StartOK(c)'
    <3>1. CASE inFlight'[c].reconcile = TRUE
      BY <2>3, <3>1, Zenon DEF StartOK, Queued
    <3>2. CASE /\ inFlight'[c].reconcile = inFlight[c].reconcile
               /\ inFlight[c].applyStart # NoTime /\ ~(listener.time > inFlight[c].applyStart)
      <4>1. SUFFICES ASSUME seen[c] > inspected[c], listener.time = seen[c]
                     PROVE  StartOK(c)'
        BY <1>1, <2>3, <3>2, Zenon DEF EventsOK, StartOK, Queued
      <4>2. inFlight[c].applyStart >= seen[c] /\ hold[c].reconcile
        BY <2>4, <2>6, <3>2, <4>1, TimeOrder, Zenon DEF EventsOK, ClockOK
      <4>3. CASE hold[c].pc \in {"terminate", "begin", "processing"}
        BY <1>1, <2>3, <4>2, <4>3, Zenon DEF StartOK, Queued
      <4>4. CASE hold[c].pc \in {"mark", "next"}
        <5>1. pending[c] # None
          BY <2>4, <2>6, <4>1, <4>2, <4>4, TimeOrder, Zenon DEF EventsOK, ClockOK
        <5> QED BY <1>1, <2>3, <4>4, <5>1, Zenon DEF StartOK, Queued
      <4> QED BY <2>5, <4>3, <4>4, Zenon
    <3> QED BY <2>3, <3>1, <3>2, Zenon DEF Queued
  <2> QED BY <1>1, <2>3, <2>7, <2>8, Zenon DEF Same, EventsOK
<1> QED
  BY <1>2, <1>3, Zenon

----------------------------------------------------------------------------
(* Events. *)

LEMMA StartEvents ==
    ASSUME HoldInvOK, NEW c \in Containers, EventsOK(c), NEW t \in 1 .. clock, EventStart(c, t)
    PROVE  EventsOK(c)' /\ \A d \in Containers \ {c} : Same(d)
<1>1. /\ UNCHANGED <<pending, inFlight, hold, inspected, died, ended, clock>>
      /\ \A d \in Containers : ~Reserving(d)
  BY Zenon DEF EventStart, Reserving
<1>2. /\ seen \in [Containers -> Time]
      /\ processed \in [Containers -> Inspected \cup {None}]
  BY Zenon DEF HoldInvOK, TypeOK
<1>3. /\ seen' = [seen EXCEPT ![c] = Later(@, t)]
      /\ processed' = [processed EXCEPT ![c] = None]
      /\ listener' = IF SkipEvent(c, t)
                     THEN Idle ELSE [pc |-> "reserve", container |-> c, time |-> t]
  BY Zenon DEF EventStart
<1>4. /\ seen'[c] = Later(seen[c], t) /\ processed'[c] = None
      /\ \A d \in Containers \ {c} : seen'[d] = seen[d] /\ processed'[d] = processed[d]
  BY <1>2, <1>3, Zenon
<1>5. /\ clock \in Nat /\ seen[c] \in Nat /\ inspected[c] \in Nat /\ t \in Nat /\ t <= clock
      /\ processed[c] # None => processed[c].at \in Nat
  <2>1. /\ clock \in Nat /\ seen[c] \in Nat /\ inspected[c] \in Nat
        /\ processed[c] # None => processed[c].at \in Nat
    BY Types, Zenon DEF HoldInvOK
  <2> QED BY <2>1, EventTime, Zenon DEF HoldInvOK, TypeOK
<1>6. ClockOK(c)' /\ EndOK(c)'
  BY <1>1, <1>4, <1>5, Zenon DEF EventsOK, ClockOK, EndOK, Later
<1>7. StartOK(c)'
  <2>1. CASE SkipEvent(c, t)
    <3>1. t <= inspected[c]
      BY <1>5, <2>1, TimeOrder, Zenon DEF SkipEvent, EventsOK, ClockOK
    <3>2. seen'[c] > inspected[c] => seen'[c] = seen[c]
      <4>1. CASE seen[c] >= t
        BY <1>4, <1>5, <4>1, LaterFacts, Zenon
      <4>2. CASE ~(seen[c] >= t)
        <5>1. Later(seen[c], t) = t /\ ~(t > inspected[c])
          BY <1>5, <3>1, <4>2, LaterFacts, TimeOrder, Zenon
        <5> QED BY <1>4, <5>1, Zenon
      <4> QED BY <4>1, <4>2, Zenon
    <3> QED BY <1>1, <3>2, Zenon DEF EventsOK, StartOK
  <2>2. CASE ~SkipEvent(c, t)
    <3>1. Reserving(c)' /\ listener'.time = t
      BY <1>3, <2>2, Zenon DEF Reserving
    <3>2. CASE seen[c] >= t
      <4>1. seen'[c] = seen[c]
        BY <1>4, <3>2, Zenon DEF Later
      <4> QED BY <1>1, <4>1, Zenon DEF EventsOK, StartOK
    <3>3. CASE ~(seen[c] >= t)
      <4>1. seen'[c] = t
        BY <1>4, <3>3, Zenon DEF Later
      <4> QED BY <3>1, <4>1, Zenon DEF StartOK
    <3> QED BY <3>2, <3>3, Zenon
  <2> QED BY <2>1, <2>2, Zenon
<1> QED
  BY <1>1, <1>4, <1>6, <1>7, Zenon DEF EventsOK, Same

LEMMA EndEvents ==
    ASSUME HoldInvOK, NEW c \in Containers, EventsOK(c), NEW t \in 1 .. clock, EventEnd(c, t)
    PROVE  EventsOK(c)' /\ \A d \in Containers \ {c} : Same(d)
<1>1. /\ UNCHANGED <<pending, processed, inspected, seen, ended, clock>>
      /\ \A d \in Containers : ~Reserving(d)
      /\ died' = [died EXCEPT ![c] = Later(@, t)]
  BY Zenon DEF EventEnd, Reserving
<1>2. /\ inFlight \in [Containers -> Reservation \cup {None}]
      /\ hold \in [Containers -> Hold \cup {None}]
      /\ died \in [Containers -> Time]
  BY Zenon DEF HoldInvOK, TypeOK
<1>3. /\ died'[c] = Later(died[c], t)
      /\ \A d \in Containers \ {c} : died'[d] = died[d]
  BY <1>1, <1>2, Zenon
<1>4. /\ clock \in Nat /\ died[c] \in Nat /\ ended[c] \in Nat
      /\ t \in Nat /\ t > 0 /\ t <= clock /\ t \in Time
  BY Types, EventTime, Zenon DEF HoldInvOK, TypeOK
<1>5. CASE inFlight[c] = None
  <2>1. /\ inFlight' = [inFlight EXCEPT ![c] = Reserve(TRUE)]
        /\ hold' = [hold EXCEPT ![c] = NewHold("listener", FALSE, t, FALSE)]
    BY <1>5, Zenon DEF EventEnd
  <2>2. /\ inFlight'[c] = Reserve(TRUE) /\ hold'[c] = NewHold("listener", FALSE, t, FALSE)
        /\ \A d \in Containers \ {c} : hold'[d] = hold[d] /\ inFlight'[d] = inFlight[d]
    BY <1>2, <2>1, Zenon
  <2>3. Reserve(TRUE) \in Reservation /\ NewHold("listener", FALSE, t, FALSE) \in Hold
    BY <1>4, ReserveType, NewHoldType, Zenon DEF HoldInvOK
  <2>4. /\ inFlight'[c] # None /\ inFlight'[c].applyStart = NoTime
        /\ inFlight'[c].running = FALSE /\ inFlight'[c].terminateAt = NoTime
    BY <2>2, <2>3, NotNone, ReserveFields, Zenon
  <2>5. /\ hold'[c] # None /\ hold'[c].pc = "terminate" /\ hold'[c].terminateAt = t
        /\ hold'[c].reconcile = FALSE
    <3>1. t # NoTime
      BY <1>4, PositiveTime, Zenon
    <3>2. /\ NewHold("listener", FALSE, t, FALSE).pc = "terminate"
          /\ NewHold("listener", FALSE, t, FALSE).terminateAt = t
          /\ NewHold("listener", FALSE, t, FALSE).reconcile = FALSE
      BY <3>1, Zenon DEF NewHold
    <3> QED BY <2>2, <2>3, <3>2, NotNone, Zenon
  <2>6. hold[c] = None
    BY <1>5, Zenon DEF HoldInvOK, HeldOK
  <2>7. ClockOK(c)'
    BY <1>1, <1>4, <2>4, <2>5, PositiveTime, Zenon DEF EventsOK, ClockOK
  <2>8. StartOK(c)'
    BY <1>1, <1>5, <2>4, <2>5, Zenon DEF EventsOK, StartOK
  <2>9. EndOK(c)'
    <3>1. ~(died[c] > ended[c])
      BY <2>6, Zenon DEF EventsOK, EndOK
    <3>2. died'[c] \in Nat /\ (died[c] >= t => died'[c] = died[c]) /\ (~(died[c] >= t) => died'[c] = t)
      BY <1>3, <1>4, LaterFacts, Zenon
    <3>3. inFlight'[c].terminateAt <= died'[c]
      BY <2>4, <3>2, PositiveTime, Zenon
    <3> QED BY <1>1, <2>4, <2>5, <3>1, <3>2, <3>3, Zenon DEF EndOK
  <2> QED BY <1>1, <1>3, <2>2, <2>7, <2>8, <2>9, Zenon DEF EventsOK, Same
<1>6. CASE inFlight[c] # None
  <2>1. inFlight' = [inFlight EXCEPT ![c] = ReserveHeld(@, t, TRUE)] /\ hold' = hold
    BY <1>6, Zenon DEF EventEnd
  <2>2. /\ inFlight[c] \in Reservation
        /\ inFlight'[c] = [inFlight[c] EXCEPT !.terminateAt = Later(@, t)]
        /\ \A d \in Containers \ {c} : inFlight'[d] = inFlight[d]
    BY <1>2, <1>6, <2>1, Zenon DEF ReserveHeld
  <2>3. inFlight'[c] # None
    <3>1. inFlight'[c] = ReserveHeld(inFlight[c], t, TRUE)
      BY <1>2, <2>1, Zenon
    <3>2. inFlight'[c] \in Reservation
      BY <1>4, <2>2, <3>1, ReserveHeldType, Zenon
    <3> QED BY <3>2, NotNone, Zenon
  <2>4. /\ inFlight'[c].applyStart = inFlight[c].applyStart
        /\ inFlight'[c].running = inFlight[c].running
        /\ inFlight'[c].reconcile = inFlight[c].reconcile
        /\ inFlight'[c].terminateAt = Later(inFlight[c].terminateAt, t)
    BY <2>2, Zenon DEF Reservation
  <2>5. hold[c] # None /\ inFlight[c].terminateAt \in Nat
    BY <1>6, Types, Zenon DEF HoldInvOK, HeldOK
  <2>6. ClockOK(c)' /\ StartOK(c)'
    BY <1>1, <1>6, <2>1, <2>3, <2>4, Zenon DEF EventsOK, ClockOK, StartOK
  <2>7. EndOK(c)'
    <3>1. CASE died[c] >= t
      <4>1. died'[c] = died[c]
        BY <1>3, <3>1, Zenon DEF Later
      <4>2. inFlight[c].terminateAt <= died[c]
        BY <1>6, Zenon DEF EventsOK, EndOK
      <4>3. /\ inFlight'[c].terminateAt <= died[c]
            /\ inFlight[c].terminateAt = died[c] => inFlight'[c].terminateAt = died[c]
        BY <1>4, <2>4, <2>5, <3>1, <4>2, Zenon DEF Later
      <4> QED BY <1>1, <2>1, <2>5, <4>1, <4>3, Zenon DEF EventsOK, EndOK
    <3>2. CASE ~(died[c] >= t)
      <4>1. died'[c] = t
        BY <1>3, <3>2, Zenon DEF Later
      <4>2. inFlight[c].terminateAt <= died[c]
        BY <1>6, Zenon DEF EventsOK, EndOK
      <4>3. inFlight'[c].terminateAt = t
        BY <1>4, <2>4, <2>5, <3>2, <4>2, LateEnd, Zenon
      <4>4. inFlight'[c].terminateAt <= died'[c]
        BY <1>4, <4>1, <4>3, PositiveTime, Zenon
      <4> QED BY <2>1, <2>5, <4>1, <4>3, <4>4, Zenon DEF EndOK
    <3> QED BY <3>1, <3>2, Zenon
  <2> QED BY <1>1, <1>3, <2>1, <2>2, <2>6, <2>7, Zenon DEF EventsOK, Same
<1> QED
  BY <1>5, <1>6, Zenon

----------------------------------------------------------------------------
(* The steps of a hold. *)

LEMMA TerminateEvents ==
    ASSUME HoldInvOK, HeldOK', NEW c \in Containers, EventsOK(c), HoldTerminate(c)
    PROVE  EventsOK(c)' /\ \A d \in Containers \ {c} : Same(d)
<1>1. /\ UNCHANGED <<inFlight, pending, processed, listener, inspected, seen, died, clock>>
      /\ hold[c] # None /\ hold[c].pc = "terminate"
      /\ ended' = [ended EXCEPT ![c] = Later(@, hold[c].terminateAt)]
      /\ hold' = [hold EXCEPT ![c].terminateAt = NoTime,
                              ![c].pc = IF hold[c].reconcile THEN "begin" ELSE "next"]
  BY Zenon DEF HoldTerminate, state, environment
<1>2. hold \in [Containers -> Hold \cup {None}] /\ ended \in [Containers -> Time]
  BY Zenon DEF HoldInvOK, TypeOK
<1>3. /\ \A d \in Containers \ {c} : hold'[d] = hold[d] /\ ended'[d] = ended[d]
      /\ ended'[c] = Later(ended[c], hold[c].terminateAt)
      /\ hold'[c] = [hold[c] EXCEPT !.terminateAt = NoTime,
                                    !.pc = IF hold[c].reconcile THEN "begin" ELSE "next"]
  BY <1>1, <1>2, Zenon
<1>4. hold[c] \in Hold
  BY <1>1, <1>2, Zenon
<1>5. /\ hold'[c].reconcile = hold[c].reconcile
      /\ hold'[c].pc = IF hold[c].reconcile THEN "begin" ELSE "next"
  BY <1>3, <1>4, Zenon DEF Hold
<1>6. inFlight[c].running = hold[c].reconcile /\ inFlight[c] # None
  BY <1>1, Zenon DEF HoldInvOK, HoldOK, HeldOK
<1>7. ClockOK(c)'
  <2>1. UNCHANGED <<inFlight, pending, processed, inspected, seen, clock>> /\ hold[c] # None
    BY <1>1, Zenon
  <2>2. CASE hold[c].reconcile
    <3>1. hold'[c].pc = "begin"
      BY <1>5, <2>2, Zenon
    <3> QED BY <2>1, <3>1, Zenon DEF EventsOK, ClockOK
  <2>3. CASE ~hold[c].reconcile
    <3>1. hold'[c].pc = "next" /\ ~inFlight[c].running
      BY <1>5, <1>6, <2>3, Zenon
    <3> QED BY <2>1, <3>1, Zenon DEF EventsOK, ClockOK
  <2> QED BY <2>2, <2>3, Zenon
<1>8. StartOK(c)'
  BY <1>1, <1>5, <1>6, Zenon DEF EventsOK, StartOK, Reserving
<1>9. EndOK(c)'
  <2>1. died[c] \in Nat /\ ended[c] \in Nat /\ hold[c].terminateAt \in Nat
    BY <1>1, Types, Zenon DEF HoldInvOK
  <2>2. died[c] > ended'[c] => died[c] > ended[c] /\ hold[c].terminateAt # died[c]
    <3>1. ended'[c] = Later(ended[c], hold[c].terminateAt)
      BY <1>3, Zenon
    <3> QED BY <2>1, <3>1, AfterLater, Zenon
  <2>3. hold'[c] # None
    BY <1>1, <1>6, Zenon DEF HeldOK
  <2> QED BY <1>1, <1>6, <2>2, <2>3, Zenon DEF EventsOK, EndOK
<1> QED
  BY <1>1, <1>3, <1>7, <1>8, <1>9, Zenon DEF EventsOK, Same

LEMMA BeginEvents ==
    ASSUME HoldInvOK, HeldOK', NEW c \in Containers, EventsOK(c), HoldBegin(c)
    PROVE  EventsOK(c)' /\ \A d \in Containers \ {c} : Same(d)
<1>1. /\ UNCHANGED <<inFlight, pending, processed, listener, inspected, seen, died, ended,
                     clock>>
      /\ hold[c] # None /\ hold[c].pc = "begin"
      /\ hold' = [hold EXCEPT ![c].key = latest, ![c].started = clock,
                              ![c].pc = "processing"]
  BY Zenon DEF HoldBegin, state, environment, history
<1>2. hold \in [Containers -> Hold \cup {None}]
  BY Zenon DEF HoldInvOK, TypeOK
<1>3. /\ \A d \in Containers \ {c} : hold'[d] = hold[d]
      /\ hold'[c] = [hold[c] EXCEPT !.key = latest, !.started = clock, !.pc = "processing"]
  BY <1>1, <1>2, Zenon
<1>4. hold[c] \in Hold
  BY <1>1, <1>2, Zenon
<1>5. /\ hold'[c].reconcile = hold[c].reconcile /\ hold'[c].started = clock
      /\ hold'[c].pc = "processing"
  BY <1>3, <1>4, Zenon DEF Hold
<1>6. inFlight[c] # None /\ hold[c].reconcile
  BY <1>1, Zenon DEF HoldInvOK, HoldOK, HeldOK
<1>7. ClockOK(c)'
  BY <1>1, <1>5, Zenon DEF EventsOK, ClockOK
<1>8. StartOK(c)'
  BY <1>1, <1>5, <1>6, Zenon DEF EventsOK, StartOK, Reserving
<1>9. EndOK(c)'
  BY <1>1, <1>6, Zenon DEF EventsOK, EndOK, HeldOK
<1> QED
  BY <1>1, <1>3, <1>7, <1>8, <1>9, Zenon DEF EventsOK, Same


LEMMA SettleEvents ==
    ASSUME HoldInvOK, HeldOK', NEW c \in Containers, EventsOK(c),
           NEW outcome \in {"ok", "gone", "fail"}, HoldSettle(c, outcome)
    PROVE  EventsOK(c)' /\ \A d \in Containers \ {c} : Same(d)
<1>1. /\ UNCHANGED <<inFlight, processed, listener, seen, died, ended, clock>>
      /\ hold[c] # None /\ hold[c].pc = "processing"
      /\ hold' = [hold EXCEPT
                    ![c].failed = (outcome # "ok"),
                    ![c].key = NoKey,
                    ![c].pc = IF outcome = "ok" /\ hold[c].owner = "run"
                              THEN "mark" ELSE "next"]
      /\ inspected' = IF outcome = "fail" THEN inspected
                      ELSE [inspected EXCEPT ![c] = Later(@, hold[c].started)]
  BY Zenon DEF HoldSettle
<1>2. /\ hold \in [Containers -> Hold \cup {None}]
      /\ inspected \in [Containers -> Time]
  BY Zenon DEF HoldInvOK, TypeOK
<1>3. /\ hold'[c] = [hold[c] EXCEPT !.failed = (outcome # "ok"), !.key = NoKey,
                                    !.pc = IF outcome = "ok" /\ hold[c].owner = "run"
                                           THEN "mark" ELSE "next"]
      /\ inspected'[c] = IF outcome = "fail" THEN inspected[c]
                         ELSE Later(inspected[c], hold[c].started)
      /\ \A d \in Containers \ {c} : hold'[d] = hold[d] /\ inspected'[d] = inspected[d]
  BY <1>1, <1>2, Zenon
<1>4. hold[c] \in Hold
  BY <1>1, <1>2, Zenon
<1>5. /\ hold'[c].started = hold[c].started /\ hold'[c].reconcile = hold[c].reconcile
      /\ hold'[c].pc \in {"mark", "next"} /\ (hold'[c].pc = "mark" => outcome = "ok")
  BY <1>3, <1>4, Zenon DEF Hold
<1>6. /\ inFlight[c] # None /\ hold[c].reconcile /\ hold'[c] # None
      /\ inFlight[c].applyStart <= hold[c].started
  BY <1>1, Zenon DEF HoldInvOK, HoldOK, HeldOK, EventsOK, ClockOK
<1>7. /\ outcome = "fail" => pending'[c] # None
      /\ \A d \in Containers \ {c} : pending'[d] = pending[d]
  BY SettleEffect, Zenon DEF HoldInvOK
<1>8. /\ hold[c].started \in Nat /\ inspected[c] \in Nat /\ inFlight[c].applyStart \in Nat
      /\ seen[c] \in Nat /\ (processed[c] # None => processed[c].at \in Nat)
  BY <1>1, <1>6, Types, Zenon DEF HoldInvOK
<1>9. /\ inspected'[c] >= inspected[c] /\ inspected'[c] \in Nat
      /\ outcome # "fail" => /\ inspected'[c] >= hold[c].started
                             /\ inspected'[c] >= inFlight[c].applyStart
  <2>1. /\ Later(inspected[c], hold[c].started) \in Nat
        /\ Later(inspected[c], hold[c].started) >= inspected[c]
        /\ Later(inspected[c], hold[c].started) >= hold[c].started
    BY <1>8, LaterFacts, Zenon
  <2>2. CASE outcome = "fail"
    BY <1>3, <1>8, <2>2, PositiveTime, Zenon
  <2>3. CASE outcome # "fail"
    <3>1. inspected'[c] = Later(inspected[c], hold[c].started)
      BY <1>3, <2>3, Zenon
    <3>2. hold[c].started <= Later(inspected[c], hold[c].started)
      BY <1>8, <2>1, TimeOrder, Zenon
    <3>3. inFlight[c].applyStart <= Later(inspected[c], hold[c].started)
      BY <1>6, <1>8, <2>1, <3>2, TimeOrder, ZenonT(40)
    <3>4. Later(inspected[c], hold[c].started) >= inFlight[c].applyStart
      BY <1>8, <2>1, <3>3, TimeOrder, Zenon
    <3> QED BY <2>1, <3>1, <3>4, Zenon
  <2> QED BY <2>2, <2>3, Zenon
<1>10. ClockOK(c)'
  <2>1. processed'[c] # None => processed'[c].at <= inspected'[c]
    BY <1>1, <1>8, <1>9, TimeOrder, Zenon DEF EventsOK, ClockOK
  <2>2. hold'[c].pc = "mark" => hold'[c].started <= inspected'[c]
    BY <1>5, <1>8, <1>9, Zenon
  <2>3. pending'[c] # None \/ inFlight'[c].applyStart <= inspected'[c]
    BY <1>1, <1>7, <1>8, <1>9, Zenon
  <2> QED BY <1>1, <1>5, <2>1, <2>2, <2>3, Zenon DEF EventsOK, ClockOK
<1>11. StartOK(c)'
  <2>1. CASE outcome = "fail"
    BY <1>1, <1>3, <1>5, <1>7, <2>1, Zenon DEF EventsOK, StartOK
  <2>2. CASE outcome # "fail"
    <3>1. seen[c] > inspected'[c] => seen[c] > inspected[c] /\ ~(inFlight[c].applyStart >= seen[c])
      BY <1>8, <1>9, <2>2, TimeOrder, Zenon
    <3> QED BY <1>1, <1>6, <3>1, Zenon DEF EventsOK, StartOK, Reserving
  <2> QED BY <2>1, <2>2, Zenon
<1>12. EndOK(c)'
  BY <1>1, <1>6, Zenon DEF EventsOK, EndOK
<1> QED
  BY <1>1, <1>3, <1>7, <1>10, <1>11, <1>12, Zenon DEF EventsOK, Same

LEMMA MarkEvents ==
    ASSUME HoldInvOK, HeldOK', NEW c \in Containers, EventsOK(c), HoldMarkProcessed(c)
    PROVE  EventsOK(c)' /\ \A d \in Containers \ {c} : Same(d)
<1>1. /\ UNCHANGED <<inFlight, pending, listener, inspected, seen, died, ended, clock>>
      /\ hold[c] # None /\ hold[c].pc = "mark"
      /\ processed' = [processed EXCEPT ![c] = [at |-> hold[c].started, expired |-> FALSE]]
      /\ hold' = [hold EXCEPT ![c].pc = "next"]
  BY Zenon DEF HoldMarkProcessed, environment, history
<1>2. /\ hold \in [Containers -> Hold \cup {None}]
      /\ processed \in [Containers -> Inspected \cup {None}]
  BY Zenon DEF HoldInvOK, TypeOK
<1>3. /\ hold'[c] = [hold[c] EXCEPT !.pc = "next"]
      /\ processed'[c] = [at |-> hold[c].started, expired |-> FALSE]
      /\ \A d \in Containers \ {c} : hold'[d] = hold[d] /\ processed'[d] = processed[d]
  BY <1>1, <1>2, Zenon
<1>4. hold[c] \in Hold
  BY <1>1, <1>2, Zenon
<1>5. /\ hold'[c].reconcile = hold[c].reconcile /\ hold'[c].pc = "next"
      /\ processed'[c].at = hold[c].started
  BY <1>3, <1>4 DEF Hold
<1>6. inFlight[c] # None /\ hold'[c] # None
  BY <1>1, Zenon DEF HoldInvOK, HeldOK
<1>7. ClockOK(c)'
  BY <1>1, <1>5, Zenon DEF EventsOK, ClockOK
<1>8. StartOK(c)'
  BY <1>1, <1>5, Zenon DEF EventsOK, StartOK, Reserving
<1>9. EndOK(c)'
  BY <1>1, <1>6, Zenon DEF EventsOK, EndOK
<1> QED
  BY <1>1, <1>3, <1>7, <1>8, <1>9, Zenon DEF EventsOK, Same

LEMMA NextWorkEvents ==
    ASSUME HoldInvOK, NEW c \in Containers, EventsOK(c), HoldNextWork(c)
    PROVE  EventsOK(c)' /\ \A d \in Containers \ {c} : Same(d)
<1> DEFINE work == inFlight[c]
<1>1. /\ UNCHANGED <<pending, processed, listener, inspected, seen, died, ended, clock>>
      /\ hold[c] # None /\ hold[c].pc = "next"
      /\ inFlight' = [inFlight EXCEPT
                        ![c] = [applyStart |-> IF work.reconcile THEN clock ELSE NoTime,
                                running |-> work.reconcile, reconcile |-> FALSE,
                                terminateAt |-> NoTime]]
      /\ hold' = [hold EXCEPT
                    ![c] = NewHold(@.owner, work.reconcile, work.terminateAt, @.failed)]
  BY Zenon DEF HoldNextWork, environment, history
<1>2. /\ hold \in [Containers -> Hold \cup {None}]
      /\ inFlight \in [Containers -> Reservation \cup {None}]
  BY Zenon DEF HoldInvOK, TypeOK
<1>3. /\ inFlight'[c] = [applyStart |-> IF work.reconcile THEN clock ELSE NoTime,
                         running |-> work.reconcile, reconcile |-> FALSE,
                         terminateAt |-> NoTime]
      /\ hold'[c] = NewHold(hold[c].owner, work.reconcile, work.terminateAt, hold[c].failed)
      /\ \A d \in Containers \ {c} : hold'[d] = hold[d] /\ inFlight'[d] = inFlight[d]
  BY <1>1, <1>2, Zenon
<1>4. /\ hold'[c] # None /\ inFlight'[c] # None /\ inFlight[c] # None
  BY NextWorkHeld, NotNone, Zenon DEF HoldInvOK
<1>5. /\ inFlight'[c].applyStart = (IF work.reconcile THEN clock ELSE NoTime)
      /\ inFlight'[c].running = work.reconcile /\ inFlight'[c].terminateAt = NoTime
  BY <1>3, SMTT(30)
<1>6. /\ hold'[c].reconcile = work.reconcile /\ hold'[c].terminateAt = work.terminateAt
      /\ hold'[c].pc = IF work.terminateAt # NoTime THEN "terminate" ELSE "begin"
  BY <1>3 DEF NewHold
<1>7. /\ clock \in Nat /\ clock > 0 /\ seen[c] <= clock /\ seen[c] \in Nat
      /\ died[c] \in Nat /\ ended[c] \in Nat /\ work.reconcile \in BOOLEAN
  BY <1>4, Types, Zenon DEF HoldInvOK, EventsOK, ClockOK
<1>8. ClockOK(c)'
  <2>1. /\ inFlight'[c].applyStart <= clock
        /\ inFlight'[c].running <=> inFlight'[c].applyStart # NoTime
    BY <1>5, <1>7, PositiveTime, Zenon
  <2>2. hold'[c].pc \in {"terminate", "begin"}
    BY <1>6, Zenon
  <2> QED BY <1>1, <2>1, <2>2, Zenon DEF EventsOK, ClockOK
<1>9. StartOK(c)'
  <2>1. CASE work.reconcile
    BY <1>1, <1>4, <1>5, <1>6, <1>7, <2>1, Zenon DEF StartOK
  <2>2. CASE ~work.reconcile
    BY <1>1, <1>6, <2>2, Zenon DEF EventsOK, StartOK, Reserving
  <2> QED BY <2>1, <2>2, Zenon
<1>10. EndOK(c)'
  <2>1. died[c] > ended[c] => work.terminateAt = died[c] /\ died[c] # NoTime
    BY <1>1, <1>7, TimeOrder, Zenon DEF EventsOK, EndOK
  <2>2. NoTime <= died[c]
    BY <1>7, PositiveTime, Zenon
  <2> QED BY <1>1, <1>4, <1>5, <1>6, <2>1, <2>2, Zenon DEF EndOK
<1> QED
  BY <1>1, <1>3, <1>8, <1>9, <1>10, Zenon DEF EventsOK, Same

\* A listener that reserves waits for no hold.
LEMMA ReleaseEvents ==
    ASSUME HoldInvOK, NEW c \in Containers, EventsOK(c), HoldRelease(c)
    PROVE  EventsOK(c)' /\ \A d \in Containers \ {c} : Same(d)
<1>1. /\ UNCHANGED <<pending, processed, inspected, seen, died, ended, clock>>
      /\ hold[c] # None /\ hold[c].pc = "next"
      /\ ~inFlight[c].reconcile /\ inFlight[c].terminateAt = NoTime
      /\ inFlight' = [inFlight EXCEPT ![c] = None] /\ hold' = [hold EXCEPT ![c] = None]
  BY Zenon DEF HoldRelease, environment, history
<1>2. /\ hold \in [Containers -> Hold \cup {None}]
      /\ inFlight \in [Containers -> Reservation \cup {None}]
  BY Zenon DEF HoldInvOK, TypeOK
<1>3. /\ hold'[c] = None /\ inFlight'[c] = None
      /\ \A d \in Containers \ {c} : hold'[d] = hold[d] /\ inFlight'[d] = inFlight[d]
  BY <1>1, <1>2, Zenon
<1>4. hold[c].owner \in {"run", "listener"} /\ OwnerWaits(c)
  BY <1>1, <1>2, Zenon DEF HoldInvOK, HoldOK, Hold
<1>5. ASSUME NEW d \in Containers, Reserving(d)
      PROVE  listener' = listener
  <2>1. hold[c].owner = "run"
    BY <1>4, <1>5, Zenon DEF OwnerWaits, Reserving
  <2> QED BY <2>1, Zenon DEF HoldRelease
<1>6. ClockOK(c)'
  BY <1>1, <1>3, Zenon DEF EventsOK, ClockOK
<1>7. StartOK(c)'
  BY <1>1, <1>3, <1>5, Zenon DEF EventsOK, StartOK, Reserving
<1>8. EndOK(c)'
  <2>1. died[c] \in Nat /\ ended[c] \in Nat
    BY Types, Zenon DEF HoldInvOK
  <2>2. died[c] > ended[c] => NoTime = died[c]
    BY <1>1, Zenon DEF EventsOK, EndOK
  <2>3. ~(died[c] > ended[c])
    BY <2>1, <2>2, TimeOrder, Zenon
  <2> QED BY <1>1, <1>3, <2>3, Zenon DEF EndOK
<1> QED
  BY <1>1, <1>3, <1>5, <1>6, <1>7, <1>8, Zenon DEF EventsOK, Same

----------------------------------------------------------------------------
(* The steps that concern no container's events, and the induction. *)

LEMMA OtherEvents ==
    ASSUME TypeOK, [Next]_vars,
           ~(\E c \in Containers : HoldStep(c) \/ RunVisit(c) \/ RunRetry(c) \/ ListenerReserve(c)),
           ~Event
    PROVE  \A d \in Containers : Same(d)
<1>0. /\ pending \in [Containers -> PendingEntry \cup {None}]
      /\ processed \in [Containers -> Inspected \cup {None}]
      /\ clock \in Nat
  BY BoundsAssumption DEF TypeOK
<1> DEFINE Frame == UNCHANGED <<inFlight, hold, inspected, seen, died, ended>>
           NoEvents == Frame /\ UNCHANGED <<pending, processed, clock, listener>>
<1> USE DEF state, runVars, environment, history
<1>1. CASE \E generation \in Generations : Request(generation)
  <2>1. PICK generation \in Generations : Request(generation)
    BY <1>1, Zenon
  <2>2. /\ Frame /\ UNCHANGED <<processed, clock, listener>>
        /\ pending' = [c \in Containers |->
                          IF pending[c] = None THEN None
                          ELSE [pending[c] EXCEPT !.key = latest']]
    BY <2>1, Zenon DEF Request
  <2>3. latest' \in PassKey
    BY <2>1, TypeRest, Zenon DEF TypeOK
  <2>4. ASSUME NEW d \in Containers
        PROVE  pending'[d] = None <=> pending[d] = None
    <3>1. CASE pending[d] # None
      <4>1. pending[d] \in PendingEntry /\ pending'[d] = [pending[d] EXCEPT !.key = latest']
        BY <1>0, <2>2, <3>1, Zenon
      <4>2. pending'[d] \in PendingEntry
        BY <2>3, <4>1, Zenon DEF PendingEntry
      <4> QED BY <3>1, <4>2, NotNone, Zenon
    <3> QED BY <2>2, <3>1, Zenon
  <2> QED BY <2>2, <2>4, Zenon DEF Same
<1>2. CASE \E c \in Containers : BackoffElapses(c)
  <2>1. PICK c \in Containers : BackoffElapses(c)
    BY <1>2, Zenon
  <2>2. /\ Frame /\ UNCHANGED <<processed, clock, listener>>
        /\ pending[c] # None /\ pending' = [pending EXCEPT ![c].due = "now"]
    BY <2>1, Zenon DEF BackoffElapses
  <2>3. \A d \in Containers \ {c} : pending'[d] = pending[d]
    BY <1>0, <2>2, Zenon
  <2>4. pending'[c] \in PendingEntry
    BY <1>0, <2>2, Zenon DEF PendingEntry
  <2> QED BY <2>2, <2>3, <2>4, NotNone, Zenon DEF Same
<1>3. CASE RunPrune \/ \E c \in Containers : ProcessedExpires(c)
  <2>1. Frame /\ UNCHANGED <<pending, clock, listener>>
    BY <1>3, Zenon DEF RunPrune, ProcessedExpires
  <2>2. \A d \in Containers : processed'[d] # None =>
                                 processed[d] # None /\ processed'[d].at = processed[d].at
    BY <1>0, <1>3 DEF RunPrune, ProcessedExpires, Inspected
  <2> QED BY <2>1, <2>2, Zenon DEF Same
<1>4. CASE Tick
  BY <1>4, Zenon DEF Tick, Same
<1>5. CASE NoEvents
  BY <1>5, Zenon DEF Same
<1>6. CASE ListenerStart \/ ListenerNotify \/ ListenerStop
  BY <1>6, Zenon DEF ListenerStart, ListenerNotify, ListenerStop, Same, Reserving
<1>7. CASE RunStep \/ RunSweep
  <2>1. NoEvents
    BY <1>7, Zenon DEF RunStep, RunStop, RunTakeRequest, RunNoRequest, RunArm, RunWake,
         RunListRetry, RunRetryDue, RunSweep, RunListFails, RunList, RunSuperseded,
         RunFinishPass, RunRetryDone
  <2> QED BY <1>5, <2>1, Zenon
<1>8. CASE RetryTimerElapses \/ Cancel \/ CloseAndWait \/ UNCHANGED vars
  <2>1. NoEvents
    BY <1>8, Zenon DEF RetryTimerElapses, Cancel, CloseAndWait, vars
  <2> QED BY <1>5, <2>1, Zenon
<1> QED
  BY <1>1, <1>2, <1>3, <1>4, <1>6, <1>7, <1>8, Zenon DEF Next, ListenerStep

LEMMA EventsStep ==
    ASSUME HoldInvOK, \A c \in Containers : EventsOK(c), [Next]_vars
    PROVE  \A c \in Containers : EventsOK(c)'
<1>1. TypeOK /\ HeldOK /\ HeldOK'
  BY TypeHeldStep, Zenon DEF HoldInvOK
<1>2. ASSUME NEW c \in Containers, EventsOK(c)', \A d \in Containers \ {c} : Same(d)
      PROVE  \A d \in Containers : EventsOK(d)'
  BY <1>1, <1>2, SameKeeps, Zenon
<1>3. CASE \E c \in Containers : RunVisit(c) \/ RunRetry(c)
  BY <1>2, <1>3, VisitEvents, Zenon
<1>4. CASE \E c \in Containers : ListenerReserve(c)
  BY <1>2, <1>4, ReserveEvents, Zenon
<1>5. CASE Event
  BY <1>2, <1>5, StartEvents, EndEvents, Zenon DEF Event
<1>6. CASE \E c \in Containers : HoldStep(c)
  BY <1>1, <1>2, <1>6, TerminateEvents, BeginEvents, SettleEvents, MarkEvents,
     NextWorkEvents, ReleaseEvents, Zenon DEF HoldStep
<1>7. CASE \A d \in Containers : Same(d)
  BY <1>1, <1>7, SameKeeps, Zenon
<1> QED
  BY <1>1, <1>3, <1>4, <1>5, <1>6, <1>7, OtherEvents, Zenon

LEMMA EventsInv == Spec => [](HoldInvOK /\ \A c \in Containers : EventsOK(c))
<1>1. Init => \A c \in Containers : EventsOK(c)
  BY DEF Init, EventsOK, ClockOK, StartOK, EndOK, NoTime
<1>2. HoldInvOK /\ (\A c \in Containers : EventsOK(c)) /\ [Next]_vars
        => (\A c \in Containers : EventsOK(c))'
  BY EventsStep, Zenon
<1>3. Spec => []HoldInvOK
  BY TypeHeld, HoldInv, PTL DEF HoldInvOK
<1> QED
  BY <1>1, <1>2, <1>3, PTL DEF Spec

\* No start event is lost: however events, passes, retries and holds interleave, a
\* reconcile that read the clock at or after the newest start event of a container
\* has succeeded, or one is queued, running or due for retry.
THEOREM StartsAreNotLost == Spec => []StartNotLost
<1>1. HoldInvOK /\ (\A c \in Containers : EventsOK(c)) => StartNotLost
  BY Zenon DEF HoldInvOK, HoldOK, HeldOK, EventsOK, StartOK, StartNotLost, Reserving
<1> QED
  BY <1>1, EventsInv, PTL

\* No end event is lost: terminate has been called with the newest end time of a
\* container, or a hold has that time as its work or queued.
THEOREM EndsAreNotLost == Spec => []EndNotLost
<1>1. (\A c \in Containers : EventsOK(c)) => EndNotLost
  BY Zenon DEF EventsOK, EndOK, EndNotLost
<1> QED
  BY <1>1, EventsInv, PTL

=============================================================================
