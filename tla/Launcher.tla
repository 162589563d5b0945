------------------------------ MODULE Launcher -----------------------------
(***************************************************************************)
(* The launcher (src/src/launcher/): a Swarm task that removes the daemon  *)
(* an earlier launcher left, creates, starts and supervises its own, and   *)
(* takes it down with itself.                                              *)
(*                                                                         *)
(* Several launchers run against one dockerd: an update starts a task      *)
(* while the old one may still be there, and a task may be restarted in    *)
(* its container.  dockerd is external.  It gives the daemon's name to one *)
(* container at a time, removes a daemon that exits (AutoRemove), and may  *)
(* still carry out a call whose caller has stopped waiting.                *)
(***************************************************************************)
EXTENDS Naturals, FiniteSets

CONSTANTS
    Launchers,      \* launcher containers
    Daemons,        \* container IDs for daemons
    None,           \* no container
    Foreign,        \* the owner label of a container that is no daemon
    Wrapper,        \* the owner label of a daemon of the sh wrapper
    MaxFaults       \* bound: lost calls and streams, crashes, signals, daemon exits

ASSUME LauncherAssumption ==
    /\ None \notin Daemons /\ Foreign \notin Launchers \cup {Wrapper}
    /\ Wrapper \notin Launchers
    /\ MaxFaults \in Nat

VARIABLES
    state,          \* dockerd: each daemon container's state
    owner,          \*   and the launcher in its label
    late,           \* calls given up by their caller that dockerd still has
    pc,             \* the step of each launcher's Runner; "off": not running
    stale,          \* the listed container that is checked or removed
    mine,           \* the container that the launcher created
    wait,           \* Session::wait: "none", "registered", "status", "unknown", "broken"
    pump,           \* Session::pump: "none", "running" or "failed"
    done,           \* whether the launcher's context is done
    outcome,        \* what the launcher's last run ended with
    faults

vars == <<state, owner, late, pc, stale, mine, wait, pump, done, outcome, faults>>
dockerd == <<state, owner, late>>
session == <<stale, mine, wait, pump>>

Fault == faults < MaxFaults /\ faults' = faults + 1

Call == [call : {"create", "start", "stop", "remove"}, by : Launchers,
         id : Daemons \cup {None}]

\* The container that has the daemon's name.
Named == {d \in Daemons : state[d] \in {"created", "running", "dead"}}

\* IDs are never used again: one that nobody remembers stands for a new one, and
\* which one does not matter.
Unused ==
    {d \in Daemons :
        /\ state[d] \in {"none", "gone"}
        /\ \A l \in Launchers : d \notin {stale[l], mine[l]}
        /\ \A request \in late : request.id # d}

FreshId == IF Unused = {} THEN {} ELSE {CHOOSE d \in Unused : TRUE}

Init ==
    /\ \E label \in {Wrapper, Foreign, None} :
          LET first == CHOOSE d \in Daemons : TRUE IN
          /\ state = [d \in Daemons |->
                        IF d = first /\ label # None THEN "running" ELSE "none"]
          /\ owner = [d \in Daemons |-> IF d = first THEN label ELSE None]
    /\ late = {} /\ faults = 0
    /\ pc = [l \in Launchers |-> "off"]
    /\ stale = [l \in Launchers |-> None] /\ mine = [l \in Launchers |-> None]
    /\ wait = [l \in Launchers |-> "none"] /\ pump = [l \in Launchers |-> "none"]
    /\ done = [l \in Launchers |-> FALSE]
    /\ outcome = [l \in Launchers |-> "none"]

----------------------------------------------------------------------------
(* dockerd. *)

\* The waits registered for d answer, when d is removed.
Answer(d) ==
    wait' = [l \in Launchers |->
                IF mine[l] = d /\ wait[l] = "registered" THEN "status" ELSE wait[l]]

Removed(d) == state' = [state EXCEPT ![d] = "gone"] /\ Answer(d)

\* A daemon exits by itself.
DaemonExits(d) ==
    /\ state[d] = "running" /\ owner[d] \in Launchers
    /\ Fault
    /\ state' = [state EXCEPT ![d] = "dead"]
    /\ UNCHANGED <<owner, late, pc, session, done, outcome>>

AutoRemove(d) ==
    /\ state[d] = "dead"
    /\ Removed(d)
    /\ UNCHANGED <<owner, late, pc, stale, mine, pump, done, outcome, faults>>

\* A call that its caller gave up takes effect after all, or never.
LateCall(request) ==
    /\ late' = late \ {request}
    /\ \/ UNCHANGED <<state, owner, wait>>
       \/ /\ request.call = "create" /\ Named = {}
          /\ \E d \in FreshId : /\ state' = [state EXCEPT ![d] = "created"]
                                /\ owner' = [owner EXCEPT ![d] = request.by]
          /\ UNCHANGED wait
       \/ /\ request.call = "start" /\ state[request.id] = "created"
          /\ state' = [state EXCEPT ![request.id] = "running"]
          /\ UNCHANGED <<owner, wait>>
       \/ /\ request.call = "stop" /\ state[request.id] = "running"
          /\ state' = [state EXCEPT ![request.id] = "dead"]
          /\ UNCHANGED <<owner, wait>>
       \/ /\ request.call = "remove" /\ request.id \in Named
          /\ Removed(request.id)
          /\ UNCHANGED owner
    /\ UNCHANGED <<pc, stale, mine, pump, done, outcome, faults>>

----------------------------------------------------------------------------
(* Steps of Runner.  A call made under the launcher's context ends early    *)
(* when that is done.                                                      *)

Goto(l, step) == pc' = [pc EXCEPT ![l] = step]

\* The run ends, the process exits and its container stops.
Exit(l, with) ==
    /\ Goto(l, "off")
    /\ outcome' = [outcome EXCEPT ![l] = with]

\* A call of l fails or times out, or ends with the launcher's context.
Lost(l) == Fault \/ (done[l] /\ UNCHANGED faults)

\* The call that l is in: dockerd may have it, whatever becomes of the caller.
CallOf(l) ==
    CASE pc[l] = "create" -> {[call |-> "create", by |-> l, id |-> None]}
      [] pc[l] \in {"start", "stop"} -> {[call |-> pc[l], by |-> l, id |-> mine[l]]}
      [] pc[l] = "abandon" -> {[call |-> "remove", by |-> l, id |-> mine[l]]}
      [] pc[l] = "removeStale" -> {[call |-> "remove", by |-> l, id |-> stale[l]]}
      [] OTHER -> {}

GiveUp(l) == late' = late \cup CallOf(l)

\* Swarm starts the task, or its container again.
TaskStarts(l) ==
    /\ pc[l] = "off"
    /\ Goto(l, "identify")
    /\ done' = [done EXCEPT ![l] = FALSE]
    /\ stale' = [stale EXCEPT ![l] = None] /\ mine' = [mine EXCEPT ![l] = None]
    /\ wait' = [wait EXCEPT ![l] = "none"] /\ pump' = [pump EXCEPT ![l] = "none"]
    /\ outcome' = [outcome EXCEPT ![l] = "none"]
    /\ UNCHANGED <<dockerd, faults>>

\* identify: the launcher inspects itself.
Identify(l) ==
    /\ pc[l] = "identify"
    /\ \/ Goto(l, "list") /\ UNCHANGED <<outcome, faults>>
       \/ Lost(l) /\ Exit(l, "setup")
    /\ UNCHANGED <<dockerd, session, done>>

\* remove_stale: the list by name.
ListDaemons(l) ==
    /\ pc[l] = "list"
    /\ \/ /\ \/ Named = {} /\ stale' = [stale EXCEPT ![l] = None] /\ Goto(l, "create")
             \/ \E d \in Named : stale' = [stale EXCEPT ![l] = d] /\ Goto(l, "check")
          /\ UNCHANGED <<outcome, faults>>
       \/ Lost(l) /\ Exit(l, "setup") /\ UNCHANGED stale
    /\ UNCHANGED <<dockerd, mine, wait, pump, done>>

\* Fault: the owner is not asked for.
FaultyMayRemove(l, d) == owner[d] # Foreign

\* Fault: the daemon of an earlier run of l is not told from another's.
FaultyMayRemoveOwn(l, d) ==
    owner[d] = Wrapper \/ (owner[d] \in Launchers /\ pc[owner[d]] = "off")

\* check_stale: a daemon of the sh wrapper, of an earlier run of l, or of a launcher
\* that an inspect does not find running.
MayRemove(l, d) ==
    \/ owner[d] \in {Wrapper, l}
    \/ owner[d] \in Launchers /\ pc[owner[d]] = "off"

CheckStale(l) ==
    /\ pc[l] = "check"
    /\ \/ MayRemove(l, stale[l]) /\ Goto(l, "removeStale") /\ UNCHANGED <<outcome, faults>>
       \/ ~MayRemove(l, stale[l]) /\ Exit(l, "setup") /\ UNCHANGED faults
       \/ owner[stale[l]] \in Launchers \ {l} /\ Lost(l) /\ Exit(l, "setup")
    /\ UNCHANGED <<dockerd, session, done>>

\* remove_by_id, under a context of its own; one already gone is fine.
RemoveById(d) ==
    IF d \in Named THEN Removed(d) ELSE UNCHANGED <<state, wait>>

RemoveStale(l) ==
    /\ pc[l] = "removeStale"
    /\ \/ /\ RemoveById(stale[l])
          /\ Goto(l, "create") /\ stale' = [stale EXCEPT ![l] = None]
          /\ UNCHANGED <<late, outcome, faults>>
       \/ /\ Fault /\ GiveUp(l) /\ Exit(l, "setup")
          /\ UNCHANGED <<state, wait, stale>>
    /\ UNCHANGED <<owner, mine, pump, done>>

\* The name is taken, and the create refused, when another launcher was faster.
CreateDaemon(l) ==
    /\ pc[l] = "create"
    /\ \/ /\ Named = {}
          /\ \E d \in FreshId : /\ state' = [state EXCEPT ![d] = "created"]
                                /\ owner' = [owner EXCEPT ![d] = l]
                                /\ mine' = [mine EXCEPT ![l] = d]
          /\ Goto(l, "attach")
          /\ UNCHANGED <<late, outcome, faults>>
       \/ /\ Named # {} /\ Exit(l, "setup")
          /\ UNCHANGED <<dockerd, mine, faults>>
       \/ /\ Lost(l) /\ GiveUp(l) /\ Exit(l, "setup")
          /\ UNCHANGED <<state, owner, mine>>
    /\ UNCHANGED <<stale, wait, pump, done>>

\* prepare, then the start.
After(step) ==
    CASE step = "attach" -> "wait" [] step = "wait" -> "start" [] step = "start" -> "supervise"

AttachOutput(l) ==
    /\ pc[l] = "attach"
    /\ \/ /\ state[mine[l]] # "gone"
          /\ pump' = [pump EXCEPT ![l] = "running"]
          /\ Goto(l, After("attach")) /\ UNCHANGED faults
       \/ (Lost(l) \/ (state[mine[l]] = "gone" /\ UNCHANGED faults))
          /\ Goto(l, "abandon") /\ UNCHANGED pump
    /\ UNCHANGED <<dockerd, stale, mine, wait, done, outcome>>

\* wait_removed: for a container that is gone the answer is an unknown status.
RegisterWait(l) ==
    /\ pc[l] = "wait"
    /\ \/ /\ wait' = [wait EXCEPT ![l] = IF state[mine[l]] = "gone" THEN "unknown"
                                         ELSE "registered"]
          /\ Goto(l, After("wait")) /\ UNCHANGED faults
       \/ Lost(l) /\ Goto(l, "abandon") /\ UNCHANGED wait
    /\ UNCHANGED <<dockerd, stale, mine, pump, done, outcome>>

StartDaemon(l) ==
    /\ pc[l] = "start"
    /\ \/ /\ state[mine[l]] = "created"
          /\ state' = [state EXCEPT ![mine[l]] = "running"]
          /\ Goto(l, After("start")) /\ UNCHANGED <<late, faults>>
       \/ /\ state[mine[l]] # "created"
          /\ Goto(l, "abandon") /\ UNCHANGED <<state, late, faults>>
       \/ Lost(l) /\ GiveUp(l) /\ Goto(l, "abandon") /\ UNCHANGED state
    /\ UNCHANGED <<owner, session, done, outcome>>

\* abandon: a failed setup leaves no daemon behind, or says so.
Abandon(l) ==
    /\ pc[l] = "abandon"
    /\ \/ RemoveById(mine[l]) /\ Exit(l, "setup") /\ UNCHANGED <<late, faults>>
       \/ Fault /\ GiveUp(l) /\ Exit(l, "abandoned") /\ UNCHANGED <<state, wait>>
    /\ UNCHANGED <<owner, stale, mine, pump, done>>

----------------------------------------------------------------------------
(* supervise and shutdown. *)

\* Fault: a signal is not waited for.
FaultyStopCause(l) == wait[l] = "broken" \/ pump[l] = "failed"

\* What makes supervise stop the daemon: a broken wait stream, a lost log stream,
\* the launcher's own stop.
StopCause(l) == wait[l] = "broken" \/ pump[l] = "failed" \/ done[l]

Supervise(l) ==
    /\ pc[l] = "supervise"
    /\ \/ wait[l] \in {"status", "unknown"} /\ Goto(l, "finish")
       \/ StopCause(l) /\ Goto(l, "stop")
    /\ UNCHANGED <<dockerd, session, done, outcome, faults>>

\* The stop, by ID, under the budget; that it failed is only logged.
StopDaemon(l) ==
    /\ pc[l] = "stop"
    /\ \/ /\ state' = [state EXCEPT ![mine[l]] = IF @ = "running" THEN "dead" ELSE @]
          /\ UNCHANGED <<late, faults>>
       \/ Fault /\ GiveUp(l) /\ UNCHANGED state
    /\ Goto(l, "answer")
    /\ UNCHANGED <<owner, session, done, outcome>>

\* The removal is reported by the wait stream, or by inspect once that is broken,
\* or the budget ends first.
AwaitAnswer(l) ==
    /\ pc[l] = "answer"
    /\ \/ wait[l] \in {"status", "unknown"} /\ Goto(l, "finish") /\ UNCHANGED outcome
       \/ wait[l] = "broken" /\ Goto(l, "poll") /\ UNCHANGED outcome
       \/ wait[l] = "registered" /\ Exit(l, "budget")
    /\ UNCHANGED <<dockerd, session, done, faults>>

\* Fault: any answer but the container's state ends the poll.
FaultyAwaitRemoval(l) ==
    /\ pc[l] = "poll"
    /\ \/ (state[mine[l]] = "gone" \/ Fault) /\ Exit(l, "waitLost")
       \/ Exit(l, "waitLostBudget") /\ UNCHANGED faults
    /\ UNCHANGED <<dockerd, session, done>>

\* await_removal, then the drain.
AwaitRemoval(l) ==
    /\ pc[l] = "poll"
    /\ \/ state[mine[l]] = "gone" /\ Exit(l, "waitLost")
       \/ Exit(l, "waitLostBudget")
    /\ UNCHANGED <<dockerd, session, done, faults>>

\* finish: the output is drained, within a time, and the status returned.
Finish(l) ==
    /\ pc[l] = "finish"
    /\ Exit(l, wait[l])
    /\ UNCHANGED <<dockerd, session, done, faults>>

----------------------------------------------------------------------------
(* What happens to a launcher. *)

Signal(l) ==
    /\ pc[l] # "off" /\ ~done[l]
    /\ Fault
    /\ done' = [done EXCEPT ![l] = TRUE]
    /\ UNCHANGED <<dockerd, pc, session, outcome>>

\* The process is killed; dockerd may have its last call.
Crash(l) ==
    /\ pc[l] # "off"
    /\ Fault
    /\ Exit(l, "killed") /\ GiveUp(l)
    /\ UNCHANGED <<state, owner, session, done>>

WaitBreaks(l) ==
    /\ wait[l] = "registered" /\ pc[l] # "off"
    /\ Fault
    /\ wait' = [wait EXCEPT ![l] = "broken"]
    /\ UNCHANGED <<dockerd, pc, stale, mine, pump, done, outcome>>

PumpFails(l) ==
    /\ pump[l] = "running" /\ pc[l] # "off"
    /\ Fault
    /\ pump' = [pump EXCEPT ![l] = "failed"]
    /\ UNCHANGED <<dockerd, pc, stale, mine, wait, done, outcome>>

----------------------------------------------------------------------------

LauncherStep(l) ==
    \/ TaskStarts(l) \/ Identify(l) \/ ListDaemons(l) \/ CheckStale(l) \/ RemoveStale(l)
    \/ CreateDaemon(l) \/ AttachOutput(l) \/ RegisterWait(l) \/ StartDaemon(l)
    \/ Abandon(l) \/ Supervise(l) \/ StopDaemon(l) \/ AwaitAnswer(l)
    \/ AwaitRemoval(l) \/ Finish(l)

Next ==
    \/ \E l \in Launchers :
          LauncherStep(l) \/ Signal(l) \/ Crash(l) \/ WaitBreaks(l) \/ PumpFails(l)
    \/ \E d \in Daemons : DaemonExits(d) \/ AutoRemove(d)
    \/ \E request \in late : LateCall(request)

Spec == Init /\ [][Next]_vars

\* Swarm restarts a task that exited, tasks are scheduled and calls are bounded by
\* timers; dockerd removes a daemon that exited and is done with every call.
Fairness ==
    /\ \A l \in Launchers : WF_vars(LauncherStep(l))
    /\ WF_vars(\E d \in Daemons : AutoRemove(d))
    /\ WF_vars(\E request \in late : LateCall(request))

FairSpec == Spec /\ Fairness

----------------------------------------------------------------------------
(* Properties. *)

\* The types of the state.
TypeOK ==
    /\ state \in [Daemons -> {"none", "created", "running", "dead", "gone"}]
    /\ owner \in [Daemons -> Launchers \cup {None, Foreign, Wrapper}]
    /\ late \subseteq Call
    /\ pc \in [Launchers -> {"off", "identify", "list", "check", "removeStale", "create",
                             "attach", "wait", "start", "abandon", "supervise", "stop",
                             "answer", "poll", "finish"}]
    /\ stale \in [Launchers -> Daemons \cup {None}]
    /\ mine \in [Launchers -> Daemons \cup {None}]
    /\ wait \in [Launchers -> {"none", "registered", "status", "unknown", "broken"}]
    /\ pump \in [Launchers -> {"none", "running", "failed"}]
    /\ done \in [Launchers -> BOOLEAN]
    /\ outcome \in [Launchers -> {"none", "setup", "abandoned", "status", "unknown",
                                  "budget", "waitLost", "waitLostBudget", "killed"}]
    /\ faults \in 0 .. MaxFaults

\* No launcher removes a container that is no daemon, or the daemon that another
\* launcher is setting up or supervises, although both list, check and remove in
\* separate calls and dockerd may carry out a removal late (check_stale,
\* remove_by_id).
LiveKept ==
    [][\A d \in Daemons :
          (state[d] \in {"created", "running"} /\ state'[d] = "gone") =>
              /\ owner[d] # Foreign
              /\ \A l \in Launchers : (mine[l] = d /\ pc[l] # "off") => pc[l] = "abandon"]_vars

\* A launcher that reports no failed removal leaves no daemon: after a status, a
\* wait stream lost with the removal confirmed, or a failed setup, the container it
\* created is gone and no call of its own brings it back (abandon, shutdown,
\* await_removal).
Truthful ==
    \A l \in Launchers :
        (outcome[l] \in {"status", "unknown", "waitLost", "setup"} /\ mine[l] # None) =>
            state[mine[l]] = "gone"

\* Once nothing fails any more, one launcher supervises a running daemon for good,
\* whatever containers and late calls earlier runs left, unless a container that is
\* no daemon has the name.
Established ==
    (\A d \in Daemons : owner[d] # Foreign) ~>
        []\E l \in Launchers : pc[l] = "supervise" /\ state[mine[l]] = "running"

\* A launcher that is told to stop does, wherever it is (supervise's select, the
\* contexts of the setup, the shutdown budget).
StopsWhenTold == \A l \in Launchers : done[l] ~> pc[l] = "off"

=============================================================================
