---------------------------- MODULE Coordinator ----------------------------
(***************************************************************************)
(* The reconciliation coordinator of the daemon                            *)
(* (src/src/daemon/coordinator.rs): the loop that runs passes and retries, *)
(* the event handler that the stream listener calls, and the holds, the    *)
(* tasks that do the work for one container each.                          *)
(*                                                                         *)
(* Every section that the code runs under the coordinator's lock is one    *)
(* action.  The processor's transactions are external here: a reconcile    *)
(* ends "ok", "gone" (Docker no longer knows the container) or "fail", and *)
(* nothing else of it reaches the coordinator.  The monotonic clock is     *)
(* abstract (a deadline is "later" or "now"); the wall clock, which event  *)
(* times are compared with, is a number.                                   *)
(***************************************************************************)
EXTENDS Naturals, FiniteSets

CONSTANTS
    Containers,     \* container IDs
    None,           \* Rust's Option::None
    Generations,    \* config generations a request may carry
    MaxRequests,    \* bound: requests made
    MaxClock,       \* bound: wall-clock readings 1..MaxClock
    MaxEvents,      \* bound: container events delivered
    MaxFailures,    \* bound: failed lists and failed reconciles
    MayCancel       \* whether the daemon may be told to shut down

ASSUME GenerationsAssumption == Generations \subseteq Nat
ASSUME BoundsAssumption ==
    /\ MaxRequests \in Nat /\ MaxClock \in Nat /\ MaxClock > 0
    /\ MaxEvents \in Nat /\ MaxFailures \in Nat
    /\ MayCancel \in BOOLEAN

VARIABLES
    \* What the coordinator lock guards (State), and the one-permit Notify.
    latest, dirty, incomplete, announced, pending, processed, inFlight, wake,
    firstPass,
    \* The locals of run().
    runPc, passKey, queue, runAwait, listRetry, retryArm, pruneArm,
    \* The holds, one task per reserved container, and the event handler.
    hold, listener,
    \* The environment: wall clock, shutdown, remaining inputs.
    clock, ctxDone, closed, events, failures,
    \* History, read only by the properties.
    listed, owed, settledKey, inspected, seen, died, ended

state == <<latest, dirty, incomplete, announced, pending, processed, inFlight>>
runVars == <<runPc, passKey, queue, runAwait, listRetry, retryArm, pruneArm>>
environment == <<clock, ctxDone, closed, events, failures>>
history == <<listed, owed, settledKey, inspected, seen, died, ended>>
vars == <<state, wake, firstPass, runVars, hold, listener, environment, history>>

----------------------------------------------------------------------------
(* Values. *)

NoTime == 0
Time == NoTime .. MaxClock

PassKey == [generation : Generations \cup {0}, epoch : 0 .. MaxRequests]

PendingEntry == [key : PassKey, due : {"later", "now"}]

Inspected == [at : Time, expired : BOOLEAN]

Reservation ==
    [applyStart : Time, running : BOOLEAN, reconcile : BOOLEAN, terminateAt : Time]

\* A hold's task: the step it is at, its current work, and the key and the
\* wall-clock reading its reconcile began with.
Hold ==
    [pc : {"terminate", "begin", "processing", "mark", "next"},
     owner : {"run", "listener"}, reconcile : BOOLEAN, terminateAt : Time,
     key : PassKey, started : Time, failed : BOOLEAN]

Handler ==
    [pc : {"starting", "idle", "reserve", "await", "awaitEnd", "notify", "stopped"},
     container : Containers \cup {None}, time : Time]

ASSUME NoneAssumption ==
    None \notin Containers \cup PendingEntry \cup Inspected \cup Reservation \cup Hold

NoKey == [generation |-> 0, epoch |-> 0]

Later(a, b) == IF a >= b THEN a ELSE b

Handling(pc, c) == [pc |-> pc, container |-> c, time |-> NoTime]

Idle == Handling("idle", None)

\* The first work of a hold.  Only the run loop's holds are enumerations.
NewHold(owner, reconcile, terminateAt, failed) ==
    [pc |-> IF terminateAt # NoTime THEN "terminate" ELSE "begin",
     owner |-> owner, reconcile |-> reconcile, terminateAt |-> terminateAt,
     key |-> NoKey, started |-> NoTime, failed |-> failed]

Init ==
    /\ latest = NoKey /\ announced = NoKey
    /\ dirty = FALSE /\ incomplete = FALSE /\ wake = FALSE /\ firstPass = FALSE
    /\ pending = [c \in Containers |-> None]
    /\ processed = [c \in Containers |-> None]
    /\ inFlight = [c \in Containers |-> None]
    /\ runPc = "top" /\ passKey = NoKey /\ queue = {} /\ runAwait = None
    /\ listRetry = FALSE /\ retryArm = "none" /\ pruneArm = FALSE
    /\ hold = [c \in Containers |-> None]
    /\ listener = Handling("starting", None)
    /\ clock = 1 /\ ctxDone = FALSE /\ closed = FALSE
    /\ events = 0 /\ failures = 0
    /\ listed = {} /\ owed = {}
    /\ settledKey = [c \in Containers |-> NoKey]
    /\ inspected = [c \in Containers |-> NoTime]
    /\ seen = [c \in Containers |-> NoTime]
    /\ died = [c \in Containers |-> NoTime]
    /\ ended = [c \in Containers |-> NoTime]

----------------------------------------------------------------------------
(* Sections run under the lock, as what they make of the state.  Here and
   below, a definition whose name begins with Faulty is no part of the
   specification: it is the definition after it with one fault put in, and
   shows that a property notices the fault. *)

\* Fault: work in flight is not waited for.
FaultyAnnounceLocked(incompleteNow, pendingNow, inFlightNow) ==
    IF incompleteNow \/ \E c \in Containers : pendingNow[c] # None THEN announced ELSE latest

\* announce_locked: the announced key after it, for the given state.
AnnounceLocked(incompleteNow, pendingNow, inFlightNow) ==
    IF \/ incompleteNow
       \/ \E c \in Containers : pendingNow[c] # None
       \/ \E c \in Containers : /\ inFlightNow[c] # None
                                /\ inFlightNow[c].reconcile \/ inFlightNow[c].running
    THEN announced
    ELSE latest

\* reserve, on a free container: the reservation it inserts.  The clock is read
\* just before the lock; an older reading only queues more.
Reserve(terminal) ==
    [applyStart |-> IF terminal THEN NoTime ELSE clock, running |-> ~terminal,
     reconcile |-> FALSE, terminateAt |-> NoTime]

\* Fault: a hold that only cleans up is taken to cover a start event.
FaultyReserveHeldStart(held, eventTime, terminal) ==
    IF terminal
    THEN [held EXCEPT !.terminateAt = Later(@, eventTime)]
    ELSE IF eventTime = NoTime \/ (held.applyStart # NoTime /\ eventTime > held.applyStart)
         THEN [held EXCEPT !.reconcile = TRUE]
         ELSE held

\* Fault: a later end event replaces the queued time, even by an older one.
FaultyReserveHeldEnd(held, eventTime, terminal) ==
    IF terminal
    THEN [held EXCEPT !.terminateAt = eventTime]
    ELSE IF eventTime = NoTime \/ held.applyStart = NoTime \/ eventTime > held.applyStart
         THEN [held EXCEPT !.reconcile = TRUE]
         ELSE held

\* reserve, on a held container: what it leaves to the holder.
ReserveHeld(held, eventTime, terminal) ==
    IF terminal
    THEN [held EXCEPT !.terminateAt = Later(@, eventTime)]
    ELSE IF eventTime = NoTime \/ held.applyStart = NoTime \/ eventTime > held.applyStart
         THEN [held EXCEPT !.reconcile = TRUE]
         ELSE held

\* Fault: a success settles the entry whatever key it began under.
FaultySettle(entry, key, settled) ==
    CASE settled -> None
      [] entry # None /\ ~settled -> [entry EXCEPT !.due = "later"]
      [] entry = None /\ ~settled -> [key |-> latest, due |-> "later"]

\* settle: the container's pending entry after a reconcile that began under key.
Settle(entry, key, settled) ==
    CASE entry # None /\ settled /\ entry.key = key -> None
      [] entry # None /\ settled /\ entry.key # key -> [entry EXCEPT !.due = "now"]
      [] entry # None /\ ~settled -> [entry EXCEPT !.due = "later"]
      [] entry = None /\ settled -> None
      [] entry = None /\ ~settled -> [key |-> latest, due |-> "later"]

\* next_due and due_ids: the pending containers that are not reserved.
Retriable == {c \in Containers : pending[c] # None /\ inFlight[c] = None}

DueIds == {c \in Retriable : pending[c].due = "now"}

NextDue ==
    IF Retriable = {} THEN "none" ELSE IF DueIds # {} THEN "now" ELSE "later"

\* skip_event: whether an enumeration's inspect already covers the event.
SkipEvent(c, eventTime) ==
    /\ processed[c] # None
    /\ ~processed[c].expired
    /\ eventTime <= processed[c].at

----------------------------------------------------------------------------
(* Requests: startup, SIGHUP, a systemd reload, a stream re-subscription. *)

\* Fault: the request is recorded but run() is not woken.
FaultyRequest(generation) ==
    /\ latest.epoch < MaxRequests
    /\ latest' = [generation |-> Later(latest.generation, generation),
                  epoch |-> latest.epoch + 1]
    /\ dirty' = TRUE
    /\ incomplete' = TRUE
    /\ pending' = [c \in Containers |->
                      IF pending[c] = None THEN None
                      ELSE [pending[c] EXCEPT !.key = latest']]
    /\ owed' = {c \in Containers : pending[c] # None}
    /\ UNCHANGED <<announced, processed, inFlight, wake, firstPass, runVars, hold,
                   listener, environment, listed, settledKey, inspected, seen, died, ended>>

Request(generation) ==
    /\ latest.epoch < MaxRequests
    /\ latest' = [generation |-> Later(latest.generation, generation),
                  epoch |-> latest.epoch + 1]
    /\ dirty' = TRUE
    /\ incomplete' = TRUE
    /\ pending' = [c \in Containers |->
                      IF pending[c] = None THEN None
                      ELSE [pending[c] EXCEPT !.key = latest']]
    /\ wake' = TRUE
    /\ owed' = {c \in Containers : pending[c] # None}
    /\ UNCHANGED <<announced, processed, inFlight, firstPass, runVars, hold, listener,
                   environment, listed, settledKey, inspected, seen, died, ended>>

----------------------------------------------------------------------------
(* run(): the loop of passes, retries and timers. *)

RunStop ==
    /\ runPc \in {"top", "asleep"}
    /\ ctxDone
    /\ runPc' = "stopped"
    /\ retryArm' = "none"
    /\ UNCHANGED <<state, wake, firstPass, passKey, queue, runAwait, listRetry, pruneArm,
                   hold, listener, environment, history>>

RunTakeRequest ==
    /\ runPc = "top" /\ ~ctxDone
    /\ dirty
    /\ dirty' = FALSE
    /\ passKey' = latest
    /\ runPc' = "listing"
    /\ UNCHANGED <<latest, incomplete, announced, pending, processed, inFlight, wake,
                   firstPass, queue, runAwait, listRetry, retryArm, pruneArm, hold,
                   listener, environment, history>>

\* take_request found nothing; next_due and arm_prune run under later locks.
RunNoRequest ==
    /\ runPc = "top" /\ ~ctxDone
    /\ ~dirty
    /\ runPc' = "arm"
    /\ UNCHANGED <<state, wake, firstPass, passKey, queue, runAwait, listRetry, retryArm,
                   pruneArm, hold, listener, environment, history>>

\* Fault: the prune timer is armed once and never again.
FaultyArmPrune == pruneArm

\* arm_prune: armed while there are entries to prune.
ArmPrune == pruneArm \/ \E c \in Containers : processed[c] # None

RunArm ==
    /\ runPc = "arm"
    /\ retryArm' = NextDue
    /\ pruneArm' = ArmPrune
    /\ runPc' = "asleep"
    /\ UNCHANGED <<state, wake, firstPass, passKey, queue, runAwait, listRetry, hold,
                   listener, environment, history>>

\* The branches of the select: each returns to the top of the loop, except a
\* retry, which first visits the due containers.
RunWake ==
    /\ runPc = "asleep"
    /\ wake
    /\ wake' = FALSE
    /\ runPc' = "top" /\ retryArm' = "none"
    /\ UNCHANGED <<state, firstPass, passKey, queue, runAwait, listRetry, pruneArm, hold,
                   listener, environment, history>>

\* Fault: the timer fires without a redo of the pass.
FaultyRunListRetry ==
    /\ runPc = "asleep"
    /\ listRetry
    /\ listRetry' = FALSE
    /\ runPc' = "top" /\ retryArm' = "none"
    /\ UNCHANGED <<state, wake, firstPass, passKey, queue, runAwait, pruneArm, hold,
                   listener, environment, history>>

RunListRetry ==
    /\ runPc = "asleep"
    /\ listRetry
    /\ listRetry' = FALSE
    /\ dirty' = TRUE
    /\ runPc' = "top" /\ retryArm' = "none"
    /\ UNCHANGED <<latest, incomplete, announced, pending, processed, inFlight, wake,
                   firstPass, passKey, queue, runAwait, pruneArm, hold, listener,
                   environment, history>>

RunRetryDue ==
    /\ runPc = "asleep"
    /\ retryArm = "now"
    /\ queue' = DueIds
    /\ runPc' = "retrying" /\ retryArm' = "none"
    /\ UNCHANGED <<state, wake, firstPass, passKey, runAwait, listRetry, pruneArm, hold,
                   listener, environment, history>>

RunPrune ==
    /\ runPc = "asleep"
    /\ pruneArm
    /\ pruneArm' = FALSE
    /\ processed' = [c \in Containers |->
                        IF processed[c] # None /\ processed[c].expired
                        THEN None ELSE processed[c]]
    /\ runPc' = "top" /\ retryArm' = "none"
    /\ UNCHANGED <<latest, dirty, incomplete, announced, pending, inFlight, wake,
                   firstPass, passKey, queue, runAwait, listRetry, hold, listener,
                   environment, history>>

RunSweep ==
    /\ runPc = "asleep"
    /\ runPc' = "top" /\ retryArm' = "none"
    /\ UNCHANGED <<state, wake, firstPass, passKey, queue, runAwait, listRetry, pruneArm,
                   hold, listener, environment, history>>

\* The container list fails within the budget of failures, or because the
\* daemon is shutting down; report_locked then runs, and the retry is armed.
RunListFails ==
    /\ runPc = "listing"
    /\ \/ failures < MaxFailures /\ failures' = failures + 1
       \/ ctxDone /\ UNCHANGED failures
    /\ announced' = AnnounceLocked(incomplete, pending, inFlight)
    /\ listRetry' = TRUE
    /\ firstPass' = TRUE
    /\ runPc' = "top"
    /\ UNCHANGED <<latest, dirty, incomplete, pending, processed, inFlight, wake, passKey,
                   queue, runAwait, retryArm, pruneArm, hold, listener, clock, ctxDone,
                   closed, events, history>>

RunList(containers) ==
    /\ runPc = "listing"
    /\ queue' = containers
    /\ listed' = containers
    /\ runPc' = "visiting"
    /\ UNCHANGED <<state, wake, firstPass, passKey, runAwait, listRetry, retryArm,
                   pruneArm, hold, listener, environment, owed, settledKey, inspected,
                   seen, died, ended>>

RunSuperseded ==
    /\ runPc = "visiting" /\ runAwait = None /\ queue # {}
    /\ ctxDone \/ latest # passKey
    /\ queue' = {}
    /\ firstPass' = TRUE
    /\ runPc' = "top"
    /\ UNCHANGED <<state, wake, passKey, runAwait, listRetry, retryArm, pruneArm, hold,
                   listener, environment, history>>

\* reconcile_container without an event: a free container gets a hold, which the
\* loop awaits; a held one gets a follow-up reconcile queued.
ReconcileFromRun(c) ==
    /\ queue' = queue \ {c}
    /\ IF inFlight[c] = None
       THEN /\ inFlight' = [inFlight EXCEPT ![c] = Reserve(FALSE)]
            /\ hold' = [hold EXCEPT ![c] = NewHold("run", TRUE, NoTime, FALSE)]
            /\ runAwait' = c
       ELSE /\ inFlight' = [inFlight EXCEPT ![c] = ReserveHeld(@, NoTime, FALSE)]
            /\ UNCHANGED <<hold, runAwait>>

RunVisit(c) ==
    /\ runPc = "visiting" /\ runAwait = None /\ c \in queue
    /\ ~ctxDone /\ latest = passKey
    /\ ReconcileFromRun(c)
    /\ UNCHANGED <<latest, dirty, incomplete, announced, pending, processed, wake,
                   firstPass, runPc, passKey, listRetry, retryArm, pruneArm, listener,
                   environment, history>>

RunFinishPass ==
    /\ runPc = "visiting" /\ runAwait = None /\ queue = {}
    /\ incomplete' = (incomplete /\ passKey # latest)
    /\ announced' = AnnounceLocked(incomplete', pending, inFlight)
    /\ listRetry' = FALSE
    /\ firstPass' = TRUE
    /\ runPc' = "top"
    /\ UNCHANGED <<latest, dirty, pending, processed, inFlight, wake, passKey, queue,
                   runAwait, retryArm, pruneArm, hold, listener, environment, history>>

RunRetry(c) ==
    /\ runPc = "retrying" /\ runAwait = None /\ c \in queue
    /\ ~ctxDone
    /\ ReconcileFromRun(c)
    /\ UNCHANGED <<latest, dirty, incomplete, announced, pending, processed, wake,
                   firstPass, runPc, passKey, listRetry, retryArm, pruneArm, listener,
                   environment, history>>

RunRetryDone ==
    /\ runPc = "retrying" /\ runAwait = None
    /\ \/ /\ queue = {}
          /\ announced' = AnnounceLocked(incomplete, pending, inFlight)
       \/ queue # {} /\ ctxDone /\ UNCHANGED announced
    /\ queue' = {}
    /\ runPc' = "top"
    /\ UNCHANGED <<latest, dirty, incomplete, pending, processed, inFlight, wake,
                   firstPass, passKey, runAwait, listRetry, retryArm, pruneArm, hold,
                   listener, environment, history>>

----------------------------------------------------------------------------
(* handle_event(), called by the stream listener for one event at a time. *)

\* Fault: only a pass ends the wait, not a shutdown.
FaultyListenerStart ==
    /\ listener.pc = "starting"
    /\ firstPass
    /\ listener' = Idle
    /\ UNCHANGED <<state, wake, firstPass, runVars, hold, environment, history>>

\* await_first_pass: the listener reads no event before the first pass ended.
ListenerStart ==
    /\ listener.pc = "starting"
    /\ firstPass \/ ctxDone
    /\ listener' = Idle
    /\ UNCHANGED <<state, wake, firstPass, runVars, hold, environment, history>>

\* A die or destroy event: terminate_container.
EventEnd(c, eventTime) ==
    /\ listener.pc = "idle" /\ ~ctxDone /\ events < MaxEvents
    /\ events' = events + 1
    /\ died' = [died EXCEPT ![c] = Later(@, eventTime)]
    /\ IF inFlight[c] = None
       THEN /\ inFlight' = [inFlight EXCEPT ![c] = Reserve(TRUE)]
            /\ hold' = [hold EXCEPT ![c] = NewHold("listener", FALSE, eventTime, FALSE)]
            /\ listener' = Handling("awaitEnd", c)
       ELSE /\ inFlight' = [inFlight EXCEPT ![c] = ReserveHeld(@, eventTime, TRUE)]
            /\ UNCHANGED <<hold, listener>>
    /\ UNCHANGED <<latest, dirty, incomplete, announced, pending, processed, wake,
                   firstPass, runVars, clock, ctxDone, closed, failures, listed,
                   owed, settledKey, inspected, seen, ended>>

\* A start or unpause event: skip_event consumes the processed entry either way.
EventStart(c, eventTime) ==
    /\ listener.pc = "idle" /\ ~ctxDone /\ events < MaxEvents
    /\ events' = events + 1
    /\ seen' = [seen EXCEPT ![c] = Later(@, eventTime)]
    /\ processed' = [processed EXCEPT ![c] = None]
    /\ listener' = IF SkipEvent(c, eventTime)
                   THEN Idle
                   ELSE [pc |-> "reserve", container |-> c, time |-> eventTime]
    /\ UNCHANGED <<latest, dirty, incomplete, announced, pending, inFlight, wake,
                   firstPass, runVars, hold, clock, ctxDone, closed, failures, listed,
                   owed, settledKey, inspected, died, ended>>

\* reconcile_container for the event, under a later lock than skip_event's.
ListenerReserve(c) ==
    /\ listener.pc = "reserve" /\ c = listener.container
    /\ IF inFlight[c] = None
       THEN /\ inFlight' = [inFlight EXCEPT ![c] = Reserve(FALSE)]
            /\ hold' = [hold EXCEPT ![c] = NewHold("listener", TRUE, NoTime, FALSE)]
            /\ listener' = Handling("await", c)
       ELSE /\ inFlight' = [inFlight EXCEPT ![c] = ReserveHeld(@, listener.time, FALSE)]
            /\ listener' = Idle
            /\ UNCHANGED hold
    /\ UNCHANGED <<latest, dirty, incomplete, announced, pending, processed, wake,
                   firstPass, runVars, environment, history>>

\* The event's hold returned an error: wake run() to schedule the retry.
ListenerNotify ==
    /\ listener.pc = "notify"
    /\ wake' = TRUE
    /\ listener' = Idle
    /\ UNCHANGED <<state, firstPass, runVars, hold, environment, history>>

ListenerStop ==
    /\ listener.pc = "idle"
    /\ ctxDone
    /\ listener' = Handling("stopped", None)
    /\ UNCHANGED <<state, wake, firstPass, runVars, hold, environment, history>>

----------------------------------------------------------------------------
(* hold(): the task that works for one reserved container. *)

\* The cleanup comes before the reconcile; its error is only logged.
HoldTerminate(c) ==
    /\ hold[c] # None /\ hold[c].pc = "terminate"
    /\ ended' = [ended EXCEPT ![c] = Later(@, hold[c].terminateAt)]
    /\ hold' = [hold EXCEPT ![c].terminateAt = NoTime,
                            ![c].pc = IF hold[c].reconcile THEN "begin" ELSE "next"]
    /\ UNCHANGED <<state, wake, firstPass, runVars, listener, environment, listed,
                   owed, settledKey, inspected, seen, died>>

HoldBegin(c) ==
    /\ hold[c] # None /\ hold[c].pc = "begin"
    /\ hold' = [hold EXCEPT ![c].key = latest, ![c].started = clock,
                            ![c].pc = "processing"]
    /\ UNCHANGED <<state, wake, firstPass, runVars, listener, environment, history>>

\* process_one returned; settle records its outcome.
HoldSettle(c, outcome) ==
    /\ hold[c] # None /\ hold[c].pc = "processing"
    /\ IF outcome = "fail" /\ ~ctxDone
       THEN failures < MaxFailures /\ failures' = failures + 1
       ELSE UNCHANGED failures
    /\ pending' = [pending EXCEPT ![c] = Settle(@, hold[c].key, outcome # "fail")]
    /\ hold' = [hold EXCEPT
                  ![c].failed = (outcome # "ok"),
                  ![c].key = NoKey,
                  ![c].pc = IF outcome = "ok" /\ hold[c].owner = "run"
                            THEN "mark" ELSE "next"]
    /\ settledKey' = IF outcome = "fail" THEN settledKey
                     ELSE [settledKey EXCEPT ![c] = hold[c].key]
    /\ inspected' = IF outcome = "fail" THEN inspected
                    ELSE [inspected EXCEPT ![c] = Later(@, hold[c].started)]
    /\ UNCHANGED <<latest, dirty, incomplete, announced, processed, inFlight, wake,
                   firstPass, runVars, listener, clock, ctxDone, closed, events, listed,
                   owed, seen, died, ended>>

HoldMarkProcessed(c) ==
    /\ hold[c] # None /\ hold[c].pc = "mark"
    /\ processed' = [processed EXCEPT ![c] = [at |-> hold[c].started, expired |-> FALSE]]
    /\ hold' = [hold EXCEPT ![c].pc = "next"]
    /\ UNCHANGED <<latest, dirty, incomplete, announced, pending, inFlight, wake,
                   firstPass, runVars, listener, environment, history>>

\* next, with work queued: take it and go on.
HoldNextWork(c) ==
    /\ hold[c] # None /\ hold[c].pc = "next"
    /\ inFlight[c].reconcile \/ inFlight[c].terminateAt # NoTime
    /\ LET held == inFlight[c] IN
       /\ inFlight' = [inFlight EXCEPT
                         ![c] = [applyStart |-> IF held.reconcile THEN clock ELSE NoTime,
                                 running |-> held.reconcile, reconcile |-> FALSE,
                                 terminateAt |-> NoTime]]
       /\ hold' = [hold EXCEPT
                     ![c] = NewHold(@.owner, held.reconcile, held.terminateAt, @.failed)]
    /\ UNCHANGED <<latest, dirty, incomplete, announced, pending, processed, wake,
                   firstPass, runVars, listener, environment, history>>

\* Fault: run() is not told that a retry was held back.
FaultyReleaseWakes(c) == FALSE

\* A pending entry of the container was excluded from next_due while it was held.
ReleaseWakes(c) == pending[c] # None

\* next, with nothing queued: release the reservation, wake run() if a retry was
\* held back, announce, and return to the caller that awaits the hold.
HoldRelease(c) ==
    /\ hold[c] # None /\ hold[c].pc = "next"
    /\ ~inFlight[c].reconcile /\ inFlight[c].terminateAt = NoTime
    /\ inFlight' = [inFlight EXCEPT ![c] = None]
    /\ wake' = (wake \/ ReleaseWakes(c))
    /\ announced' = AnnounceLocked(incomplete, pending, inFlight')
    /\ hold' = [hold EXCEPT ![c] = None]
    /\ IF hold[c].owner = "run"
       THEN runAwait' = None /\ UNCHANGED listener
       ELSE /\ listener' = IF listener.pc = "await" /\ hold[c].failed
                           THEN Handling("notify", None) ELSE Idle
            /\ UNCHANGED runAwait
    /\ UNCHANGED <<latest, dirty, incomplete, pending, processed, firstPass, runPc,
                   passKey, queue, listRetry, retryArm, pruneArm, environment, history>>

----------------------------------------------------------------------------
(* Time and shutdown. *)

Tick ==
    /\ clock < MaxClock
    /\ clock' = clock + 1
    /\ UNCHANGED <<state, wake, firstPass, runVars, hold, listener, ctxDone, closed,
                   events, failures, history>>

\* A retry's backoff elapses; an armed timer is never later than what it was
\* armed for.
BackoffElapses(c) ==
    /\ pending[c] # None /\ pending[c].due = "later"
    /\ pending' = [pending EXCEPT ![c].due = "now"]
    /\ retryArm' = IF retryArm = "later" THEN "now" ELSE retryArm
    /\ UNCHANGED <<latest, dirty, incomplete, announced, processed, inFlight, wake,
                   firstPass, runPc, passKey, queue, runAwait, listRetry, pruneArm, hold,
                   listener, environment, history>>

\* The armed deadline passes, whatever became of the entry it was armed for.
RetryTimerElapses ==
    /\ retryArm = "later"
    /\ retryArm' = "now"
    /\ UNCHANGED <<state, wake, firstPass, runPc, passKey, queue, runAwait, listRetry,
                   pruneArm, hold, listener, environment, history>>

\* PROCESSED_TTL passes since the inspect.
ProcessedExpires(c) ==
    /\ processed[c] # None /\ ~processed[c].expired
    /\ processed' = [processed EXCEPT ![c].expired = TRUE]
    /\ UNCHANGED <<latest, dirty, incomplete, announced, pending, inFlight, wake,
                   firstPass, runVars, hold, listener, environment, history>>

Cancel ==
    /\ MayCancel /\ ~ctxDone
    /\ ctxDone' = TRUE
    /\ UNCHANGED <<state, wake, firstPass, runVars, hold, listener, clock, closed, events,
                   failures, history>>

\* Fault: the holds are waited for while run() and the listener may add some.
FaultyCloseAndWait ==
    /\ ctxDone /\ ~closed
    /\ \A c \in Containers : hold[c] = None
    /\ closed' = TRUE
    /\ UNCHANGED <<state, wake, firstPass, runVars, hold, listener, clock, ctxDone,
                   events, failures, history>>

\* The daemon's shutdown: the listener returned, then run() did, then
\* close_and_wait saw no hold left.
CloseAndWait ==
    /\ listener.pc = "stopped" /\ runPc = "stopped" /\ ~closed
    /\ \A c \in Containers : hold[c] = None
    /\ closed' = TRUE
    /\ UNCHANGED <<state, wake, firstPass, runVars, hold, listener, clock, ctxDone,
                   events, failures, history>>

----------------------------------------------------------------------------

RunStep ==
    \/ RunStop \/ RunTakeRequest \/ RunNoRequest \/ RunArm
    \/ RunWake \/ RunListRetry \/ RunRetryDue
    \/ RunListFails \/ \E containers \in SUBSET Containers : RunList(containers)
    \/ RunSuperseded \/ RunFinishPass \/ RunRetryDone
    \/ \E c \in Containers : RunVisit(c) \/ RunRetry(c)

ListenerStep ==
    \/ ListenerStart \/ ListenerNotify \/ ListenerStop
    \/ \E c \in Containers : ListenerReserve(c)

HoldStep(c) ==
    \/ HoldTerminate(c) \/ HoldBegin(c) \/ HoldMarkProcessed(c)
    \/ HoldNextWork(c) \/ HoldRelease(c)
    \/ \E outcome \in {"ok", "gone", "fail"} : HoldSettle(c, outcome)

Event ==
    \E c \in Containers, eventTime \in 1 .. clock :
        EventStart(c, eventTime) \/ EventEnd(c, eventTime)

Next ==
    \/ \E generation \in Generations : Request(generation)
    \/ RunStep \/ RunPrune \/ RunSweep
    \/ ListenerStep \/ Event
    \/ \E c \in Containers : HoldStep(c) \/ BackoffElapses(c) \/ ProcessedExpires(c)
    \/ RetryTimerElapses \/ Tick \/ Cancel \/ CloseAndWait

Spec == Init /\ [][Next]_vars

\* Tasks are scheduled, timers fire and the processor's transactions end (each is
\* bounded by the call timeout).  The loop's select polls its branches in random
\* order, so a branch that is ready again and again is taken.  Nothing is assumed
\* of the sweep, of the prune timer, of requests or of events.
Fairness ==
    /\ WF_vars(RunStep)
    /\ SF_vars(RunWake) /\ SF_vars(RunListRetry) /\ SF_vars(RunRetryDue)
    /\ WF_vars(ListenerStep)
    /\ WF_vars(RetryTimerElapses)
    /\ WF_vars(CloseAndWait)
    /\ \A c \in Containers : WF_vars(HoldStep(c)) /\ WF_vars(BackoffElapses(c))

FairSpec == Spec /\ Fairness

----------------------------------------------------------------------------
(* Properties. *)

\* The types of the state.
TypeOK ==
    /\ latest \in PassKey /\ announced \in PassKey /\ passKey \in PassKey
    /\ dirty \in BOOLEAN /\ incomplete \in BOOLEAN /\ wake \in BOOLEAN
    /\ firstPass \in BOOLEAN
    /\ pending \in [Containers -> PendingEntry \cup {None}]
    /\ processed \in [Containers -> Inspected \cup {None}]
    /\ inFlight \in [Containers -> Reservation \cup {None}]
    /\ runPc \in {"top", "arm", "asleep", "listing", "visiting", "retrying", "stopped"}
    /\ queue \subseteq Containers /\ listed \subseteq Containers
    /\ owed \subseteq Containers
    /\ runAwait \in Containers \cup {None}
    /\ listRetry \in BOOLEAN /\ pruneArm \in BOOLEAN
    /\ retryArm \in {"none", "later", "now"}
    /\ hold \in [Containers -> Hold \cup {None}]
    /\ listener \in Handler
    /\ clock \in 1 .. MaxClock /\ ctxDone \in BOOLEAN /\ closed \in BOOLEAN
    /\ events \in 0 .. MaxEvents /\ failures \in 0 .. MaxFailures
    /\ settledKey \in [Containers -> PassKey]
    /\ inspected \in [Containers -> Time] /\ seen \in [Containers -> Time]
    /\ died \in [Containers -> Time] /\ ended \in [Containers -> Time]

\* "config reload complete" is announced for the latest request only when every
\* container its pass listed, and every container that was due for a retry when
\* the request came, was reconciled (or found gone) by a reconcile that began under
\* that request: an older result, a queued follow-up or a retry still due never
\* counts (announce_locked, settle, request's re-tagging).
AnnounceSound ==
    (announced = latest /\ latest # NoKey) =>
        \A c \in listed \cup owed : settledKey[c] = latest

\* run() never sleeps over a retry: when it waits without a wake permit, its
\* retry timer covers every pending container that no hold has, and a retry that
\* is already due has the timer elapsed (next_due, next's notify_one).
RetryCovered ==
    (runPc = "asleep" /\ ~wake) =>
        \A c \in Retriable : /\ retryArm # "none"
                             /\ pending[c].due = "now" => retryArm = "now"

\* run() never sleeps over a request: when it waits without a wake permit, no
\* request is untaken, and the latest pass ended or has its list retry armed.
RequestCovered ==
    (runPc = "asleep" /\ ~wake) => ~dirty /\ (incomplete => listRetry)

\* No start event is lost: a reconcile that read the clock at or after the newest
\* start event of a container has succeeded, or one is queued, running or due for
\* retry (skip_event, reserve's coalescing, settle).
StartNotLost ==
    \A c \in Containers :
        seen[c] > inspected[c] =>
            \/ pending[c] # None
            \/ listener.pc = "reserve" /\ listener.container = c
            \/ /\ inFlight[c] # None
               /\ \/ inFlight[c].reconcile
                  \/ inFlight[c].running /\ inFlight[c].applyStart >= seen[c]

\* No end event is lost: terminate() has been called with the newest end-of-run
\* time received, or the holder has it as its work or queued.
EndNotLost ==
    \A c \in Containers :
        died[c] > ended[c] =>
            /\ hold[c] # None
            /\ \/ inFlight[c].terminateAt = died[c]
               \/ hold[c].pc = "terminate" /\ hold[c].terminateAt = died[c]

\* The processed map is bounded in time: while run() waits, entries are there only
\* with the prune timer armed (arm_prune; only run()'s own holds add entries).
PruneCovered ==
    (runPc = "asleep" /\ \E c \in Containers : processed[c] # None) => pruneArm

\* The containers that a reconcile is still owed: a retry is due, or a hold has
\* the reconcile as its work or queued.
Due ==
    {c \in Containers :
        \/ pending[c] # None
        \/ inFlight[c] # None /\ (inFlight[c].reconcile \/ inFlight[c].running)}

\* Whether the pass in progress is the latest request's.
Enumerating == incomplete /\ runPc = "visiting" /\ passKey = latest

Promise == INSTANCE Obligations WITH
    asked <- IF Enumerating THEN "listed" ELSE IF incomplete THEN "asked" ELSE "no",
    toVisit <- IF Enumerating THEN queue ELSE {},
    due <- Due,
    complete <- (announced = latest)

\* The coordinator implements Obligations: whatever is interleaved, a listed
\* container becomes due before the pass ends, a due one stays due until a hold
\* releases it reconciled, and completion is announced with nothing due (visit
\* or follow-up, settle, next, announce_locked).
Promised == Promise!ObligationsSpec

\* After the daemon's shutdown no hold works on a container any more.
ShutdownQuiescent ==
    closed => \A c \in Containers : hold[c] = None /\ inFlight[c] = None

\* Every request completes once lists and reconciles stop failing, unless the
\* daemon shuts down; the periodic sweep is not needed for it.
RequestCompletes ==
    incomplete ~> (announced = latest \/ ctxDone)

\* Every failed container is retried until it settles, unless the daemon shuts
\* down.
PendingDrains ==
    \A c \in Containers : (pending[c] # None) ~> (pending[c] = None \/ ctxDone)

\* Shutdown ends: nothing the daemon waits for waits for something else.
ShutdownEnds == ctxDone ~> closed

=============================================================================
