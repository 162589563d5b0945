---------------------------- MODULE EventStream ----------------------------
(***************************************************************************)
(* The Docker event stream and its listener (src/src/daemon/events.rs),    *)
(* with the subscription that daemon::run makes first.                     *)
(*                                                                         *)
(* dockerd keeps a log of recent events.  A subscription gets those of the *)
(* log since a time, and every later one, until the connection breaks; a   *)
(* restarted dockerd has an empty log.  The record of a start may be one   *)
(* the daemon cannot decode.  handle_event is one step here: Coordinator   *)
(* has its interleavings.                                                  *)
(***************************************************************************)
EXTENDS Node

VARIABLES
    log,            \* dockerd's buffered events
    connection,     \* "none", "half" (dockerd accepted), "open" or "refused"
    broken,         \* whether the connection was lost
    inbox,          \* events sent on the connection and not yet read
    listener,       \* the step of listen_events
    since, last,    \* the initial since; last_event_nano
    ready,          \* the readiness flag
    readTimes       \* history: the times of the records read

stream == <<log, connection, broken, inbox, listener, since, last, ready, readTimes>>

StreamInit ==
    /\ log = <<>> /\ connection = "none" /\ broken = FALSE /\ inbox = <<>>
    /\ listener = "starting" /\ since = clock /\ last = 0 /\ ready = FALSE
    /\ readTimes = {}

----------------------------------------------------------------------------
(* dockerd and its containers. *)

\* dockerd logs an event and sends it to the subscriber.
Emit(c, kind, decodable) ==
    LET event == [container |-> c, kind |-> kind, time |-> clock + 1,
                  decodable |-> decodable] IN
    /\ clock' = clock + 1
    /\ log' = Append(log, event)
    /\ inbox' = IF connection \in {"half", "open"} /\ ~broken
                THEN Append(inbox, event) ELSE inbox

ContainerStarts(c, decodable) ==
    /\ engine /\ c \notin up
    /\ Input
    /\ up' = up \cup {c}
    /\ applied' = [applied EXCEPT ![c] = 0] /\ wiped' = wiped \ {c}
    /\ Emit(c, "start", decodable)
    /\ UNCHANGED <<inspected, engine, generation, stage, cancelled, connection, broken,
                   listener, since, last, ready, readTimes>>
    /\ UNCHANGED obligations

ContainerEnds(c) ==
    /\ engine /\ c \in up
    /\ Input
    /\ up' = up \ {c} /\ wiped' = wiped \ {c}
    /\ Emit(c, "end", TRUE)
    /\ UNCHANGED <<applied, inspected, engine, generation, stage, cancelled, connection,
                   broken, listener, since, last, ready, readTimes>>
    /\ UNCHANGED obligations

\* The connection is lost, alone or because dockerd stops (its containers run on).
ConnectionBreaks(stops) ==
    /\ engine
    /\ stops \/ (connection \in {"half", "open"} /\ ~broken)
    /\ Input
    /\ engine' = ~stops
    /\ log' = IF stops THEN <<>> ELSE log
    /\ broken' = (connection \in {"half", "open"})
    /\ UNCHANGED <<up, applied, wiped, inspected, clock, generation, stage, cancelled,
                   connection, inbox, listener, since, last, ready, readTimes>>
    /\ UNCHANGED obligations

EngineReturns ==
    /\ ~engine
    /\ engine' = TRUE
    /\ UNCHANGED <<up, applied, wiped, inspected, clock, generation, stage, cancelled, inputs>>
    /\ UNCHANGED stream
    /\ UNCHANGED obligations

----------------------------------------------------------------------------
(* subscribe: the ping, then the events call raced with a timer. *)

Subscribing == stage = "subscribe" \/ listener = "subscribing"

\* Fault: the last event itself is asked for again.
FaultyResubscribeSince == IF last = 0 THEN since ELSE last

ResubscribeSince == IF last = 0 THEN since ELSE last + 1

\* dockerd takes the call: from here on the connection carries every event, after
\* the logged ones since the time asked for (the log is in the order of the times).
EngineAccepts ==
    /\ Subscribing /\ connection = "none" /\ engine
    /\ connection' = "half" /\ broken' = FALSE
    /\ \E k \in 1 .. Len(log) + 1 :
          /\ \A i \in 1 .. Len(log) : i >= k <=> log[i].time >= ResubscribeSince
          /\ inbox' = SubSeq(log, k, Len(log))
    /\ UNCHANGED <<log, listener, since, last, ready, readTimes>>
    /\ UNCHANGED node
    /\ UNCHANGED obligations

\* Where run or the listener goes on after the attempt.
AfterSubscribe(opened) ==
    IF stage = "subscribe"
    THEN stage' = "install" /\ UNCHANGED listener
    ELSE listener' = opened /\ UNCHANGED stage

\* Fault: a re-subscription relies on the replay of dockerd.
FaultyOnOpen ==
    UNCHANGED obligations /\ IF stage = "subscribe" THEN UNCHANGED ready ELSE ready' = TRUE

\* A re-subscription requests a pass.
OnOpen ==
    IF stage = "subscribe"
    THEN UNCHANGED <<obligations, ready>>
    ELSE Request /\ ready' = TRUE

\* The headers arrive: Subscription::Open.
SubscribeOpens ==
    /\ Subscribing /\ connection = "half"
    /\ connection' = "open"
    /\ AfterSubscribe("consuming")
    /\ OnOpen
    /\ UNCHANGED <<up, applied, wiped, inspected, clock, engine, generation, cancelled,
                   inputs, log, broken, inbox, since, last, readTimes>>

\* The events call returns an error: Subscription::Refused.  It is taken for a
\* stream that fails on its first item.
SubscribeRefused ==
    /\ Subscribing /\ connection = "none"
    /\ ~engine
    /\ connection' = "refused"
    /\ AfterSubscribe("consuming")
    /\ UNCHANGED <<up, applied, wiped, inspected, clock, engine, generation, cancelled,
                   inputs, log, broken, inbox, since, last, ready, readTimes>>
    /\ UNCHANGED obligations

\* The ping fails, or the timer or the context wins and the call is dropped: a
\* connection on which the headers do not come in time counts as broken.
SubscribeFails ==
    /\ Subscribing
    /\ ~engine \/ broken \/ (cancelled /\ stage = "subscribe")
    /\ connection' = "none" /\ broken' = FALSE /\ inbox' = <<>>
    /\ AfterSubscribe("backoff")
    /\ ready' = FALSE
    /\ UNCHANGED <<up, applied, wiped, inspected, clock, engine, generation, cancelled,
                   inputs, log, since, last, readTimes>>
    /\ UNCHANGED obligations

----------------------------------------------------------------------------
(* listen_events and consume_events. *)

\* The first iteration takes the subscription that run made, if there is one.
ListenerStart ==
    /\ stage = "listen" /\ listener = "starting" /\ ~cancelled
    /\ listener' = IF connection = "none" THEN "subscribing" ELSE "consuming"
    /\ ready' = (connection = "open")
    /\ UNCHANGED <<log, connection, broken, inbox, since, last, readTimes>>
    /\ UNCHANGED node
    /\ UNCHANGED obligations

\* handle_event: an end event has nothing to reconcile; a start event is owed
\* unless an enumeration's inspect covers it (skip_event).
HandleEvent(event) ==
    \/ /\ event.kind = "start"
       /\ Owe(event.container)
    \/ /\ event.kind = "end" \/ event.time <= inspected[event.container]
       /\ UNCHANGED obligations

ReadEvent ==
    /\ listener = "consuming" /\ inbox # <<>> /\ Head(inbox).decodable
    /\ inbox' = Tail(inbox)
    /\ last' = Later(last, Head(inbox).time)
    /\ readTimes' = readTimes \cup {Head(inbox).time}
    /\ HandleEvent(Head(inbox))
    /\ UNCHANGED <<log, connection, broken, listener, since, ready>>
    /\ UNCHANGED node

\* retry_after: not ready, and a pause before the stream is opened again.
RetryAfter ==
    /\ ready' = FALSE
    /\ connection' = "none" /\ broken' = FALSE /\ inbox' = <<>>
    /\ listener' = "backoff"

\* A record that cannot be decoded: the next subscription starts from now.
ReadUndecodable ==
    /\ listener = "consuming" /\ inbox # <<>> /\ ~Head(inbox).decodable
    /\ last' = Later(last, clock)
    /\ readTimes' = readTimes \cup {Head(inbox).time}
    /\ RetryAfter
    /\ UNCHANGED <<log, since>>
    /\ UNCHANGED node
    /\ UNCHANGED obligations

\* The stream is closed or fails, perhaps before all that was sent was read, or
\* it was refused.
StreamEnds ==
    /\ listener = "consuming"
    /\ broken \/ connection = "refused"
    /\ RetryAfter
    /\ UNCHANGED <<log, since, last, readTimes>>
    /\ UNCHANGED node
    /\ UNCHANGED obligations

BackoffEnds ==
    /\ listener = "backoff" /\ ~cancelled
    /\ listener' = "subscribing"
    /\ UNCHANGED <<log, connection, broken, inbox, since, last, ready, readTimes>>
    /\ UNCHANGED node
    /\ UNCHANGED obligations

ListenerStop ==
    /\ cancelled /\ stage = "listen" /\ listener # "stopped"
    /\ listener' = "stopped"
    /\ connection' = "none" /\ inbox' = <<>>
    /\ UNCHANGED <<log, broken, since, last, ready, readTimes>>
    /\ UNCHANGED node
    /\ UNCHANGED obligations

----------------------------------------------------------------------------

ListenerStep ==
    \/ EngineAccepts \/ SubscribeOpens \/ SubscribeRefused \/ SubscribeFails
    \/ ListenerStart \/ ReadEvent \/ ReadUndecodable \/ StreamEnds \/ BackoffEnds
    \/ ListenerStop

EngineStep ==
    \/ \E c \in Containers :
          ContainerEnds(c) \/ \E decodable \in BOOLEAN : ContainerStarts(c, decodable)
    \/ \E stops \in BOOLEAN : ConnectionBreaks(stops)
    \/ EngineReturns

\* Whether the listener will see to container c: its start event is still to be
\* read, or the stream is not established and will be, with a request.
ListenerOwes(c) ==
    \/ stage \in {"subscribe", "install", "request"}
    \/ connection # "open" \/ broken
    \/ \E i \in 1 .. Len(inbox) :
          (inbox[i].container = c /\ inbox[i].kind = "start") \/ ~inbox[i].decodable

----------------------------------------------------------------------------
(* Properties. *)

\* No record of the stream is delivered twice, across any number of
\* re-subscriptions: a replayed start would apply the rules again, and a replayed
\* record that cannot be decoded would end every stream for ever
\* (resubscribe_since, consume_events).
NeverReplayed ==
    \A i \in 1 .. Len(inbox) : inbox[i].time \notin readTimes

=============================================================================
