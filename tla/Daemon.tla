------------------------------ MODULE Daemon -------------------------------
(***************************************************************************)
(* The daemon as a whole (src/src/daemon/mod.rs, src/src/run.rs): the      *)
(* event listener, the systemd watcher and the SIGHUP reload side by side, *)
(* with the coordinator they all make requests of, from the first          *)
(* subscription to the exit.                                               *)
(***************************************************************************)
EXTENDS EventStream, SystemdWatcher, SettingsReload

vars == <<obligations, node, stream, systemd, settings>>

Init == NodeInit /\ StreamInit /\ SystemdInit /\ SettingsInit

----------------------------------------------------------------------------
(* Shutdown. *)

\* listen_events returned; run waits for its tasks.
ListenReturns ==
    /\ stage = "listen" /\ listener = "stopped"
    /\ stage' = "closing"

\* background.wait() and close_and_wait(): the coordinator's part is ShutdownEnds
\* of Coordinator.
RunReturns ==
    /\ stage = "closing" /\ watcher = "stopped"
    /\ stage' = "exited"

\* The shutdown budget is used up first.
BudgetEnds ==
    /\ cancelled
    /\ stage' = "exited"

----------------------------------------------------------------------------
(* The parts side by side, until the process exits. *)

Running == stage # "exited"

CoordinatorActs ==
    Running /\ (CoordinatorStep \/ Install \/ StartupRequest \/ AwaitFirstPass)
            /\ UNCHANGED <<stream, systemd, settings>>

RunActs(action) ==
    /\ Running /\ action
    /\ UNCHANGED <<up, applied, wiped, inspected, clock, engine, generation, cancelled,
                   inputs, obligations, stream, systemd, settings>>

ListenerActs(action) == Running /\ action /\ UNCHANGED <<systemd, settings>>
WatcherActs(action) == Running /\ action /\ UNCHANGED <<stream, settings>>
ReloaderActs(action) == Running /\ action /\ UNCHANGED <<stream, systemd>>

TaskStep ==
    \/ CoordinatorActs
    \/ RunActs(ListenReturns) \/ RunActs(RunReturns)
    \/ ListenerActs(ListenerStep)
    \/ WatcherActs(WatcherStep) \/ WatcherActs(Forward)
    \/ WatcherActs(CoalescerRun) \/ WatcherActs(CoalescerCheck)
    \/ ReloaderActs(ReloaderStep)

Next ==
    \/ TaskStep
    \/ RunActs(BudgetEnds)
    \/ Running /\ Cancel /\ UNCHANGED <<stream, systemd, settings>>
    \/ ListenerActs(EngineStep) \/ WatcherActs(SystemdStep) \/ ReloaderActs(Hangup)

Spec == Init /\ [][Next]_vars

\* dockerd, the bus and systemd come back from a stop and end what they began.
ServicesReturn ==
    \/ ListenerActs(EngineReturns)
    \/ WatcherActs(BusReturns) \/ WatcherActs(ReloadCompletes)

\* Some task that can take a step takes one (calls and pauses are bounded by
\* timers); no fairness between the tasks is needed, and none of the shutdown
\* budget.
Fairness == WF_vars(TaskStep) /\ WF_vars(ServicesReturn)

FairSpec == Spec /\ Fairness

----------------------------------------------------------------------------
(* Properties. *)

\* The coordinator has the container, or will list it.
Owed(c) == c \in due \/ c \in toVisit \/ asked = "asked"

BeforeStartup == stage \in {"subscribe", "install", "request"}

\* No start is missed: a running container that was never reconciled is owed to
\* the coordinator, or its event is still to be read, or the stream is down and a
\* request will follow its re-subscription.  A start may fall into the startup
\* pass, into a gap that dockerd does not replay, or behind a record that cannot
\* be decoded (listen_events, consume_events, run's order of subscription and
\* request).
StartsCovered ==
    ~cancelled =>
        \A c \in up : applied[c] = 0 => Owed(c) \/ ListenerOwes(c)

\* No published config is missed: a container reconciled under an older one is
\* owed to the coordinator, or the request of the publication is still to come.  A
\* publication may fall before the requester is installed
\* (publish_and_reconcile, run's order of installation and request).
ConfigCovered ==
    ~cancelled =>
        \A c \in up : applied[c] \in 1 .. generation - 1 =>
            Owed(c) \/ ReloaderOwes \/ BeforeStartup

\* No systemd reload is missed while the order of its signals is kept: a container
\* whose filter was wiped is owed to the coordinator, or the completion edge, a
\* run of the coalescer or a re-subscription is still to come (subscribe's order,
\* on_subscribed, trigger against its task).
ReloadsCovered ==
    (~cancelled /\ ~overtaken) => \A c \in wiped : Owed(c) \/ WatcherOwes

\* A container that does not run, or has the rules of the config in force.
Applied(c) == c \notin up \/ (applied[c] = generation /\ c \notin wiped)

\* Whatever the world did, in the end every running container has the rules of
\* the config in force.  A daemon that is told to stop exits instead, before its
\* budget ends and wherever each part was when it was told.
EventuallyApplied ==
    \A c \in Containers :
        (cancelled \/ ~Applied(c)) ~>
            IF cancelled THEN stage = "exited" ELSE Applied(c) \/ overtaken

=============================================================================
