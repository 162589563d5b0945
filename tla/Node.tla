------------------------------- MODULE Node --------------------------------
(***************************************************************************)
(* What the parts of the daemon share: the containers of the node, the     *)
(* config in force, the coordinator (as Obligations), and the shutdown.    *)
(***************************************************************************)
EXTENDS Obligations, Naturals, Sequences

CONSTANT MaxInputs      \* bound: what the world does to the daemon, in all

VARIABLES
    up,             \* running containers
    applied,        \* the config generation each run was reconciled under; 0: none
    wiped,          \* running containers whose filter a systemd reload took away
    inspected,      \* the time of each container's last reconcile
    clock,          \* the node's clock, which event times are taken from
    engine,         \* whether dockerd answers
    generation,     \* the generation of the published config
    stage,          \* how far daemon::run is
    cancelled,      \* the root context
    inputs

node == <<up, applied, wiped, inspected, clock, engine, generation, stage,
          cancelled, inputs>>

Later(a, b) == IF a >= b THEN a ELSE b

\* One of the bounded inputs of the world.
Input == inputs < MaxInputs /\ inputs' = inputs + 1

NodeInit ==
    /\ ObligationsInit
    /\ up \in SUBSET Containers
    /\ applied = [c \in Containers |-> 0]
    /\ wiped = {}
    /\ inspected = [c \in Containers |-> 0]
    /\ clock = 1 /\ engine = TRUE /\ generation = 1
    /\ stage = "subscribe" /\ cancelled = FALSE /\ inputs = 0

----------------------------------------------------------------------------
(* The coordinator's steps on this node. *)

\* The container list of a pass, which dockerd answers with what runs.
ListRunning ==
    /\ engine /\ ~cancelled
    /\ List(up)
    /\ UNCHANGED node

\* A reconcile that succeeded: the rules of the config in force are set on the
\* container's cgroup, or Docker no longer runs the container.
Reconcile(c) ==
    /\ engine
    /\ Settle(c)
    /\ applied' = [applied EXCEPT ![c] = IF c \in up THEN generation ELSE @]
    /\ wiped' = wiped \ {c}
    /\ inspected' = [inspected EXCEPT ![c] = clock]
    /\ UNCHANGED <<up, clock, engine, generation, stage, cancelled, inputs>>

\* Completion is announced by the step that allows it (announce_locked).
CoordinatorStep ==
    /\ \/ ListRunning
       \/ (Finish \/ \E c \in Containers : Visit(c)) /\ UNCHANGED node
       \/ \E c \in Containers : Reconcile(c)
    /\ complete' = (complete \/ (asked' = "no" /\ due' = {}))

----------------------------------------------------------------------------
(* daemon::run: the stages around the listener. *)

\* set_pass_requester: from here on a publication reaches the coordinator.
Install ==
    /\ stage = "install"
    /\ stage' = "request"
    /\ UNCHANGED <<up, applied, wiped, inspected, clock, engine, generation, cancelled, inputs>>
    /\ UNCHANGED obligations

\* Fault: the requester is installed when the first pass is over.
FaultyInstalled == stage \in {"listen", "closing"}

Installed == stage \notin {"subscribe", "install"}

\* The startup request.
StartupRequest ==
    /\ stage = "request"
    /\ Request
    /\ stage' = "firstPass"
    /\ UNCHANGED <<up, applied, wiped, inspected, clock, engine, generation, cancelled, inputs>>

\* await_first_pass: the pass ended, failed to list or was superseded, or the
\* context is done.
AwaitFirstPass ==
    /\ stage = "firstPass"
    /\ stage' = "listen"
    /\ UNCHANGED <<up, applied, wiped, inspected, clock, engine, generation, cancelled, inputs>>
    /\ UNCHANGED obligations

\* watch_shutdown: the first SIGINT or SIGTERM.
Cancel ==
    /\ ~cancelled
    /\ Input
    /\ cancelled' = TRUE
    /\ UNCHANGED <<up, applied, wiped, inspected, clock, engine, generation, stage>>
    /\ UNCHANGED obligations

=============================================================================
