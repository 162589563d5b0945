--------------------------- MODULE SystemdWatcher --------------------------
(***************************************************************************)
(* The systemd reload watcher (src/src/systemd.rs): the supervised         *)
(* subscription on the system bus, the owner of systemd's name that it     *)
(* trusts, and the coalescer that turns completed reloads into requests.   *)
(*                                                                         *)
(* systemd is external: a reload (or a re-exec, which also takes another   *)
(* bus name) has a start edge, wipes the device filters of the containers  *)
(* and has a completion edge.  A bus name is a number, 0 for none.         *)
(***************************************************************************)
EXTENDS Node

CONSTANT SignalBuffer       \* SIGNAL_CHAN_BUFFER

ASSUME SignalBufferAssumption == SignalBuffer \in Nat \ {0}

VARIABLES
    owner,          \* systemd's name on the bus
    reloading,      \* whether a reload or a re-exec of systemd is under way
    bus,            \* whether the bus takes connections
    watcher,        \* the step of Supervisor::run
    lost,           \* whether the watcher's connection is gone
    reloads,        \* the match streams: Reloading signals
    owners,         \*   and NameOwnerChanged signals
    signals,        \* the channel both are forwarded into
    trusted,        \* watch's owner
    coalescer,      \* its task: "idle", "run" (in on_reload) or "check"
    pending,        \* its pending flag
    overtaken       \* history: systemd's completion edge was dropped

systemd == <<owner, reloading, bus, watcher, lost, reloads, owners, signals, trusted,
             coalescer, pending, overtaken>>

SystemdInit ==
    /\ owner = 1 /\ reloading = FALSE /\ bus = TRUE
    /\ watcher = "opening" /\ lost = FALSE
    /\ reloads = <<>> /\ owners = <<>> /\ signals = <<>> /\ trusted = 0
    /\ coalescer = "idle" /\ pending = FALSE /\ overtaken = FALSE

Reloading(active) == [kind |-> "reloading", sender |-> owner, active |-> active]
NameOwnerChanged(name) == [kind |-> "owner", sender |-> name, active |-> FALSE]

\* The match rules are in place and the connection lives.
Subscribed == watcher \in {"resolving", "subscribed", "watching"} /\ ~lost

----------------------------------------------------------------------------
(* systemd and the bus. *)

ReloadStarts ==
    /\ ~reloading
    /\ Input
    /\ reloading' = TRUE
    /\ reloads' = IF Subscribed THEN Append(reloads, Reloading(TRUE)) ELSE reloads
    /\ UNCHANGED <<owner, bus, watcher, lost, owners, signals, trusted, coalescer,
                   pending, overtaken>>
    /\ UNCHANGED <<up, applied, wiped, inspected, clock, engine, generation, stage,
                   cancelled>>
    /\ UNCHANGED obligations

\* A re-exec: the old name goes, and systemd is back under a new one.
Reexecutes ==
    /\ ~reloading
    /\ Input
    /\ reloading' = TRUE /\ owner' = inputs' + 1
    /\ owners' = IF Subscribed
                 THEN owners \o <<NameOwnerChanged(0), NameOwnerChanged(inputs' + 1)>>
                 ELSE owners
    /\ UNCHANGED <<bus, watcher, lost, reloads, signals, trusted, coalescer, pending,
                   overtaken>>
    /\ UNCHANGED <<up, applied, wiped, inspected, clock, engine, generation, stage,
                   cancelled>>
    /\ UNCHANGED obligations

\* The filters are wiped before the completion edge.
ReloadCompletes ==
    /\ reloading
    /\ reloading' = FALSE
    /\ wiped' = up
    /\ reloads' = IF Subscribed THEN Append(reloads, Reloading(FALSE)) ELSE reloads
    /\ UNCHANGED <<owner, bus, watcher, lost, owners, signals, trusted, coalescer,
                   pending, overtaken>>
    /\ UNCHANGED <<up, applied, inspected, clock, engine, generation, stage, cancelled, inputs>>
    /\ UNCHANGED obligations

\* The bus is restarted, or is gone for a while; its connections are lost.
BusBreaks ==
    /\ bus
    /\ Input
    /\ bus' = FALSE
    /\ lost' = (watcher \in {"resolving", "subscribed", "watching"})
    /\ UNCHANGED <<owner, reloading, watcher, reloads, owners, signals, trusted, coalescer,
                   pending, overtaken>>
    /\ UNCHANGED <<up, applied, wiped, inspected, clock, engine, generation, stage,
                   cancelled>>
    /\ UNCHANGED obligations

BusReturns ==
    /\ ~bus
    /\ bus' = TRUE
    /\ UNCHANGED <<owner, reloading, watcher, lost, reloads, owners, signals, trusted,
                   coalescer, pending, overtaken>>
    /\ UNCHANGED node
    /\ UNCHANGED obligations

----------------------------------------------------------------------------
(* Supervisor::run and attempt. *)

\* open, once run has installed the pass requester and spawned the watcher: the
\* connection, and the match streams before the owner is looked up.
WatcherConnects ==
    /\ watcher = "opening" /\ bus /\ Installed
    /\ watcher' = "resolving"
    /\ UNCHANGED <<owner, reloading, bus, lost, reloads, owners, signals, trusted, coalescer,
                   pending, overtaken>>
    /\ UNCHANGED node
    /\ UNCHANGED obligations

\* GetNameOwner answers.
WatcherResolves ==
    /\ watcher = "resolving" /\ ~lost
    /\ trusted' = owner
    /\ watcher' = "subscribed"
    /\ UNCHANGED <<owner, reloading, bus, lost, reloads, owners, signals, coalescer,
                   pending, overtaken>>
    /\ UNCHANGED node
    /\ UNCHANGED obligations

\* Fault: a new subscription requests nothing.
FaultyWatcherSubscribed ==
    /\ watcher = "subscribed"
    /\ watcher' = "watching"
    /\ UNCHANGED <<owner, reloading, bus, lost, reloads, owners, signals, trusted,
                   coalescer, pending, overtaken>>
    /\ UNCHANGED node
    /\ UNCHANGED obligations

\* on_subscribed: a reload may have completed before.
WatcherSubscribed ==
    /\ watcher = "subscribed"
    /\ Request
    /\ watcher' = "watching"
    /\ UNCHANGED <<owner, reloading, bus, lost, reloads, owners, signals, trusted,
                   coalescer, pending, overtaken>>
    /\ UNCHANGED node

\* What an attempt opened is closed before the next.
Disconnect ==
    /\ reloads' = <<>> /\ owners' = <<>> /\ signals' = <<>>
    /\ lost' = FALSE /\ trusted' = 0

\* The setup fails; one that takes too long counts as a lost connection.
WatcherFails ==
    /\ \/ watcher = "opening" /\ Installed /\ ~bus
       \/ watcher = "resolving" /\ lost
    /\ watcher' = "retry"
    /\ Disconnect
    /\ UNCHANGED <<owner, reloading, bus, coalescer, pending, overtaken>>
    /\ UNCHANGED node
    /\ UNCHANGED obligations

WatcherRetries ==
    /\ watcher = "retry" /\ ~cancelled
    /\ watcher' = "opening"
    /\ UNCHANGED <<owner, reloading, bus, lost, reloads, owners, signals, trusted,
                   coalescer, pending, overtaken>>
    /\ UNCHANGED node
    /\ UNCHANGED obligations

----------------------------------------------------------------------------
(* forward, watch and the coalescer. *)

Room == Len(signals) < SignalBuffer

\* The two forwarders run on their own tasks: each keeps the order of its stream.
Forward ==
    /\ watcher \in {"resolving", "subscribed", "watching"}
    /\ Room
    /\ \/ /\ reloads # <<>>
          /\ signals' = Append(signals, Head(reloads)) /\ reloads' = Tail(reloads)
          /\ UNCHANGED owners
       \/ /\ owners # <<>>
          /\ signals' = Append(signals, Head(owners)) /\ owners' = Tail(owners)
          /\ UNCHANGED reloads
    /\ UNCHANGED <<owner, reloading, bus, watcher, lost, trusted, coalescer, pending,
                   overtaken>>
    /\ UNCHANGED node
    /\ UNCHANGED obligations

FromSystemd(signal) == trusted # 0 /\ signal.sender = trusted

IsReloadCompleted(signal) == signal.kind = "reloading" /\ ~signal.active

\* Fault: a trigger during a run is taken to be covered by that run.
FaultyTrigger == coalescer' = (IF coalescer = "idle" THEN "run" ELSE coalescer) /\ UNCHANGED pending

\* Coalescer::trigger.
Trigger ==
    IF coalescer = "idle"
    THEN coalescer' = "run" /\ UNCHANGED pending
    ELSE pending' = TRUE /\ UNCHANGED coalescer

Watch ==
    /\ watcher = "watching" /\ signals # <<>>
    /\ signals' = Tail(signals)
    /\ LET signal == Head(signals)
           heard == FromSystemd(signal) /\ IsReloadCompleted(signal) IN
       /\ trusted' = IF signal.kind = "owner" THEN signal.sender ELSE trusted
       /\ IF heard THEN Trigger ELSE UNCHANGED <<coalescer, pending>>
       /\ overtaken' = (overtaken \/ (IsReloadCompleted(signal) /\ ~heard
                                      /\ signal.sender = owner))
    /\ UNCHANGED <<owner, reloading, bus, watcher, lost, reloads, owners>>
    /\ UNCHANGED node
    /\ UNCHANGED obligations

\* The task of the coalescer: on_reload requests a pass, and the flag is read
\* under the lock afterwards.
CoalescerRun ==
    /\ coalescer = "run"
    /\ Request
    /\ coalescer' = "check"
    /\ UNCHANGED <<owner, reloading, bus, watcher, lost, reloads, owners, signals, trusted,
                   pending, overtaken>>
    /\ UNCHANGED node

CoalescerCheck ==
    /\ coalescer = "check"
    /\ coalescer' = IF pending THEN "run" ELSE "idle"
    /\ pending' = FALSE
    /\ UNCHANGED <<owner, reloading, bus, watcher, lost, reloads, owners, signals, trusted,
                   overtaken>>
    /\ UNCHANGED node
    /\ UNCHANGED obligations

\* The channel is closed and drained, or the context is done.
WatchEnds ==
    /\ watcher = "watching"
    /\ cancelled \/ (lost /\ reloads = <<>> /\ owners = <<>> /\ signals = <<>>)
    /\ watcher' = "closing"
    /\ UNCHANGED <<owner, reloading, bus, lost, reloads, owners, signals, trusted,
                   coalescer, pending, overtaken>>
    /\ UNCHANGED node
    /\ UNCHANGED obligations

\* runs.wait(), then close.
WatcherCloses ==
    /\ watcher = "closing" /\ coalescer = "idle"
    /\ watcher' = IF cancelled THEN "stopped" ELSE "retry"
    /\ Disconnect
    /\ UNCHANGED <<owner, reloading, bus, coalescer, pending, overtaken>>
    /\ UNCHANGED node
    /\ UNCHANGED obligations

WatcherStops ==
    /\ cancelled /\ Installed /\ watcher \in {"opening", "resolving", "retry"}
    /\ watcher' = "stopped"
    /\ Disconnect
    /\ UNCHANGED <<owner, reloading, bus, coalescer, pending, overtaken>>
    /\ UNCHANGED node
    /\ UNCHANGED obligations

----------------------------------------------------------------------------

WatcherStep ==
    \/ WatcherConnects \/ WatcherResolves \/ WatcherSubscribed
    \/ WatcherFails \/ WatcherRetries \/ Watch \/ WatchEnds \/ WatcherCloses
    \/ WatcherStops

SystemdStep ==
    \/ ReloadStarts \/ Reexecutes \/ ReloadCompletes
    \/ BusBreaks \/ BusReturns

\* Whether the watcher will see to what a reload wiped: systemd is not done, its
\* completion edge is on the way, a run of the coalescer is to come, or the
\* subscription is to be made, with a request.
WatcherOwes ==
    \/ reloading
    \/ watcher # "watching" \/ lost
    \/ coalescer = "run" \/ pending
    \/ \E queue \in {reloads, signals} : \E i \in 1 .. Len(queue) :
          IsReloadCompleted(queue[i]) /\ queue[i].sender = owner

=============================================================================
