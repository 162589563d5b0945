---------------------------- MODULE DaemonProofs ---------------------------
(***************************************************************************)
(* The daemon misses nothing, for any containers, any number of inputs and *)
(* any signal buffer: StartsCovered, ConfigCovered, ReloadsCovered,        *)
(* NeverReplayed and HangupHonoured.                                       *)
(*                                                                         *)
(* The argument.  What the coordinator owes it owes until it is done: no   *)
(* step of another part takes a container out of its hands (OwedStays).    *)
(* So each property is about its own part only: how a start, a publication *)
(* or a reload is handed on until the coordinator has it.  An event that   *)
(* is still to be read was emitted after its container was last inspected, *)
(* so that skip_event cannot drop it (StartsOK); the log and the inbox are *)
(* in the order of their times (OrderOK) and nothing that was read is      *)
(* later than last (ReadOK), so that a subscription since last + 1 repeats *)
(* nothing.                                                                *)
(***************************************************************************)
EXTENDS Daemon, TLAPS

EventRecord == [container : Containers, kind : {"start", "end"}, time : Nat,
                decodable : BOOLEAN]

SignalRecord == [kind : {"reloading", "owner"}, sender : Nat, active : BOOLEAN]

NodeOK ==
    /\ up \subseteq Containers /\ wiped \subseteq up
    /\ applied \in [Containers -> Nat] /\ inspected \in [Containers -> Nat]
    /\ clock \in Nat \ {0} /\ generation \in Nat \ {0} /\ inputs \in Nat
    /\ \A c \in Containers : inspected[c] <= clock

StreamOK ==
    /\ log \in Seq(EventRecord) /\ inbox \in Seq(EventRecord)
    /\ last \in Nat /\ since \in Nat

SignalsOK ==
    /\ reloads \in Seq(SignalRecord) /\ owners \in Seq(SignalRecord)
    /\ signals \in Seq(SignalRecord)
    /\ owner \in Nat

\* The times of queue have passed, and are in order.
InOrder(queue) ==
    /\ \A i \in 1 .. Len(queue) : queue[i].time > 0 /\ queue[i].time <= clock
    /\ \A i, j \in 1 .. Len(queue) : i < j => queue[i].time < queue[j].time

OrderOK == InOrder(log) /\ InOrder(inbox)

ReadOK ==
    /\ readTimes \subseteq Nat
    /\ \A t \in readTimes : t > 0 /\ t <= last /\ t <= clock
    /\ NeverReplayed

\* An event in the inbox that will make the coordinator owe c.
Announces(event, c) ==
    \/ ~event.decodable
    \/ /\ event.container = c /\ event.kind = "start" /\ event.time > inspected[c]

StartsOK ==
    ~cancelled =>
        \A c \in up : applied[c] = 0 =>
            \/ Owed(c) \/ BeforeStartup \/ connection # "open" \/ broken
            \/ \E i \in 1 .. Len(inbox) : Announces(inbox[i], c)

HangupOK ==
    /\ HangupHonoured
    /\ (reloader \in {"publishing", "requesting"} /\ ~hangups) => loaded = file

\* The inductive invariant.
IInv ==
    /\ NodeOK /\ StreamOK /\ SignalsOK
    /\ OrderOK /\ ReadOK /\ StartsOK
    /\ ConfigCovered /\ HangupOK /\ ReloadsCovered

----------------------------------------------------------------------------
(* Queues. *)

LEMMA Appended ==
    ASSUME NEW S, NEW q \in Seq(S), NEW x \in S
    PROVE  /\ Append(q, x) \in Seq(S) /\ Len(q) \in Nat /\ Len(Append(q, x)) = Len(q) + 1
           /\ \A i \in 1 .. Len(q) : Append(q, x)[i] = q[i]
           /\ Append(q, x)[Len(q) + 1] = x
OBVIOUS

LEMMA Taken ==
    ASSUME NEW S, NEW q \in Seq(S), q # <<>>
    PROVE  /\ Len(q) \in Nat \ {0} /\ Head(q) = q[1] /\ q[1] \in S
           /\ Tail(q) \in Seq(S) /\ Len(Tail(q)) = Len(q) - 1
           /\ \A i \in 1 .. Len(q) - 1 : Tail(q)[i] = q[i + 1]
OBVIOUS

LEMMA Suffix ==
    ASSUME NEW S, NEW q \in Seq(S), NEW k \in 1 .. Len(q) + 1
    PROVE  /\ SubSeq(q, k, Len(q)) \in Seq(S)
           /\ Len(SubSeq(q, k, Len(q))) = Len(q) - k + 1
           /\ \A i \in 1 .. Len(q) - k + 1 : SubSeq(q, k, Len(q))[i] = q[k + i - 1]
OBVIOUS

LEMMA Empty ==
    ASSUME NEW S PROVE <<>> \in Seq(S) /\ Len(<<>>) = 0
OBVIOUS

----------------------------------------------------------------------------
(* What the steps of each part do to what the parts share. *)

HandsOn == Request \/ UNCHANGED obligations

LEMMA WatcherEffect ==
    ASSUME WatcherStep \/ Forward \/ CoalescerRun \/ CoalescerCheck \/ SystemdStep
    PROVE  /\ UNCHANGED <<up, applied, inspected, clock, generation, stage, cancelled>>
           /\ wiped' \in {wiped, up} /\ inputs' \in {inputs, inputs + 1}
           /\ HandsOn
<1> USE DEF HandsOn, node, obligations, Input
<1>1. CASE WatcherStep
  BY <1>1, Zenon DEF WatcherStep, WatcherConnects, WatcherResolves, WatcherSubscribed,
     WatcherFails, WatcherRetries, Watch, WatchEnds, WatcherCloses, WatcherStops
<1>2. CASE Forward \/ CoalescerRun \/ CoalescerCheck
  BY <1>2, Zenon DEF Forward, CoalescerRun, CoalescerCheck
<1>3. CASE SystemdStep
  BY <1>3, Zenon DEF SystemdStep, ReloadStarts, Reexecutes, ReloadCompletes, BusBreaks, BusReturns
<1> QED BY <1>1, <1>2, <1>3, Zenon

LEMMA ReloaderEffect ==
    ASSUME ReloaderStep \/ Hangup
    PROVE  /\ UNCHANGED <<up, applied, wiped, inspected, clock, stage, cancelled>>
           /\ generation' \in {generation, generation + 1}
           /\ inputs' \in {inputs, inputs + 1}
           /\ HandsOn
BY Zenon DEF ReloaderStep, TakeHangup, LoadFile, Publish, RequestPass, Hangup, HandsOn, node,
   obligations, Input

\* What the engine may do to the containers.
NodeChange ==
    \/ UNCHANGED <<up, applied, wiped>>
    \/ \E c \in Containers \ up :
          /\ up' = up \cup {c} /\ applied' = [applied EXCEPT ![c] = 0]
          /\ wiped' = wiped \ {c}
    \/ \E c \in Containers :
          up' = up \ {c} /\ wiped' = wiped \ {c} /\ applied' = applied

LEMMA ListenerEffect ==
    ASSUME ListenerStep \/ EngineStep
    PROVE  /\ UNCHANGED <<inspected, generation, cancelled>>
           /\ clock' \in {clock, clock + 1} /\ inputs' \in {inputs, inputs + 1}
           /\ stage' = stage \/ (stage = "subscribe" /\ stage' = "install")
           /\ NodeChange
           /\ HandsOn \/ \E c : Owe(c)
<1> USE DEF HandsOn, NodeChange, node, obligations
<1>1. CASE ListenerStep
  BY <1>1, Zenon DEF ListenerStep, EngineAccepts, SubscribeOpens, SubscribeRefused, SubscribeFails,
     ListenerStart, ReadEvent, HandleEvent, ReadUndecodable, StreamEnds, BackoffEnds,
     ListenerStop, AfterSubscribe, OnOpen
<1>2. CASE EngineStep
  BY <1>2, Zenon DEF EngineStep, ContainerStarts, ContainerEnds, ConnectionBreaks, EngineReturns,
     Emit, Input
<1> QED BY <1>1, <1>2, Zenon

\* No other part takes a container out of the coordinator's hands.
LEMMA OwedStays ==
    ASSUME HandsOn \/ \E x : Owe(x), NEW c, Owed(c) PROVE Owed(c)'
BY Zenon DEF HandsOn, Request, Owe, obligations, Owed

----------------------------------------------------------------------------
(* The parts that a step does not belong to. *)

LEMMA WatcherActsKeep ==
    ASSUME IInv, UNCHANGED <<stream, settings>>,
           WatcherStep \/ Forward \/ CoalescerRun \/ CoalescerCheck \/ SystemdStep
    PROVE  NodeOK' /\ StreamOK' /\ OrderOK' /\ ReadOK' /\ StartsOK' /\ ConfigCovered'
           /\ HangupOK'
<1>1. /\ UNCHANGED <<up, applied, inspected, clock, generation, stage, cancelled>>
      /\ wiped' \in {wiped, up} /\ inputs' \in {inputs, inputs + 1} /\ HandsOn
  BY WatcherEffect, Zenon
<1>2. NodeOK'
  BY <1>1 DEF IInv, NodeOK
<1>3. StreamOK' /\ OrderOK' /\ ReadOK' /\ HangupOK'
  BY <1>1, Zenon DEF IInv, StreamOK, OrderOK, InOrder, ReadOK, NeverReplayed, HangupOK, HangupHonoured,
     Refused, stream, settings
<1>4. StartsOK'
  BY <1>1, OwedStays, Zenon DEF IInv, StartsOK, BeforeStartup, Announces, stream
<1>5. ConfigCovered'
  BY <1>1, OwedStays, Zenon DEF IInv, ConfigCovered, BeforeStartup, ReloaderOwes, settings
<1> QED BY <1>2, <1>3, <1>4, <1>5, Zenon

LEMMA ReloaderActsKeep ==
    ASSUME IInv, UNCHANGED <<stream, systemd>>, ReloaderStep \/ Hangup
    PROVE  NodeOK' /\ StreamOK' /\ OrderOK' /\ ReadOK' /\ StartsOK' /\ SignalsOK'
           /\ ReloadsCovered'
<1>1. /\ UNCHANGED <<up, applied, wiped, inspected, clock, stage, cancelled>>
      /\ generation' \in {generation, generation + 1}
      /\ inputs' \in {inputs, inputs + 1} /\ HandsOn
  BY ReloaderEffect, Zenon
<1>2. NodeOK'
  BY <1>1 DEF IInv, NodeOK
<1>3. StreamOK' /\ OrderOK' /\ ReadOK' /\ SignalsOK'
  BY <1>1, Zenon DEF IInv, StreamOK, OrderOK, InOrder, ReadOK, NeverReplayed, SignalsOK, stream, systemd
<1>4. StartsOK'
  BY <1>1, OwedStays, Zenon DEF IInv, StartsOK, BeforeStartup, Announces, stream
<1>5. ReloadsCovered'
  BY <1>1, OwedStays, Zenon DEF IInv, ReloadsCovered, WatcherOwes, IsReloadCompleted, systemd
<1> QED BY <1>2, <1>3, <1>4, <1>5, Zenon

LEMMA ListenerActsKeep ==
    ASSUME IInv, UNCHANGED <<systemd, settings>>, ListenerStep \/ EngineStep
    PROVE  NodeOK' /\ SignalsOK' /\ ConfigCovered' /\ HangupOK' /\ ReloadsCovered'
<1>1. /\ UNCHANGED <<inspected, generation, cancelled>>
      /\ clock' \in {clock, clock + 1} /\ inputs' \in {inputs, inputs + 1}
      /\ stage' = stage \/ (stage = "subscribe" /\ stage' = "install")
      /\ NodeChange
      /\ HandsOn \/ \E c : Owe(c)
  BY ListenerEffect, Zenon
<1>2. NodeOK'
  BY <1>1 DEF IInv, NodeOK, NodeChange
<1>3. SignalsOK' /\ HangupOK'
  BY Zenon DEF IInv, SignalsOK, HangupOK, HangupHonoured, Refused, systemd, settings
<1>4. /\ up' \subseteq Containers
      /\ \A c \in up' : applied'[c] # 0 => c \in up /\ applied'[c] = applied[c]
  BY <1>1, Zenon DEF IInv, NodeOK, NodeChange
<1>5. ConfigCovered'
  BY <1>1, <1>4, OwedStays DEF IInv, ConfigCovered, BeforeStartup, ReloaderOwes, settings
<1>6. wiped' \subseteq wiped
  BY <1>1, Zenon DEF NodeChange
<1>7. ReloadsCovered'
  BY <1>1, <1>6, OwedStays, Zenon DEF IInv, ReloadsCovered, WatcherOwes, IsReloadCompleted, systemd
<1> QED BY <1>2, <1>3, <1>5, <1>7, Zenon

LEMMA CoordinatorActsKeep ==
    ASSUME IInv, CoordinatorActs
    PROVE  IInv'
<1>1. /\ UNCHANGED <<up, clock, generation, cancelled, inputs>>
      /\ UNCHANGED <<stream, systemd, settings>>
  BY Zenon DEF CoordinatorActs, CoordinatorStep, ListRunning, Reconcile, Install, StartupRequest,
     AwaitFirstPass, node
<1>2. StreamOK' /\ OrderOK' /\ ReadOK' /\ SignalsOK' /\ HangupOK'
  BY <1>1, Zenon DEF IInv, StreamOK, OrderOK, InOrder, ReadOK, NeverReplayed, SignalsOK, HangupOK,
     HangupHonoured, Refused, stream, systemd, settings
<1>3. CASE \E c \in Containers : Reconcile(c)
  <2>1. PICK c \in Containers : Reconcile(c)
    BY <1>3, Zenon
  <2>2. /\ \A x \in Containers : x # c => /\ applied'[x] = applied[x]
                                         /\ inspected'[x] = inspected[x]
        /\ c \in up => applied'[c] = generation
        /\ inspected'[c] = clock
        /\ wiped' = wiped \ {c} /\ stage' = stage
        /\ \A x : Owed(x) /\ x # c => Owed(x)'
    BY <2>1, Zenon DEF Reconcile, Settle, IInv, NodeOK, Owed
  <2>3. NodeOK'
    BY <1>1, <2>1 DEF Reconcile, IInv, NodeOK
  <2>4. StartsOK'
    BY <1>1, <2>2 DEF IInv, NodeOK, StartsOK, BeforeStartup, Announces, stream
  <2>5. ConfigCovered'
    <3>1. \A x \in up : applied'[x] # generation => x # c /\ applied'[x] = applied[x]
      BY <2>2, Zenon DEF IInv, NodeOK
    <3>2. \A x \in up : applied'[x] \in 1 .. generation - 1 => applied'[x] # generation
      BY DEF IInv, NodeOK
    <3> QED BY <1>1, <2>2, <3>1, <3>2, Zenon DEF IInv, ConfigCovered, BeforeStartup, ReloaderOwes,
          settings
  <2>6. ReloadsCovered'
    BY <1>1, <2>2, Zenon DEF IInv, NodeOK, ReloadsCovered, WatcherOwes, IsReloadCompleted, systemd
  <2> QED BY <1>2, <2>3, <2>4, <2>5, <2>6, Zenon DEF IInv
<1>4. CASE ~\E c \in Containers : Reconcile(c)
  <2>1. UNCHANGED <<applied, wiped, inspected>>
    BY <1>4, Zenon DEF CoordinatorActs, CoordinatorStep, ListRunning, Install, StartupRequest,
       AwaitFirstPass, node
  <2>2. \A x \in up : Owed(x) => Owed(x)'
    BY <1>4, Zenon DEF CoordinatorActs, CoordinatorStep, ListRunning, List, Finish, Visit, Install,
       StartupRequest, AwaitFirstPass, Request, obligations, Owed
  <2>3. BeforeStartup => BeforeStartup' \/ \A x : Owed(x)'
    BY <1>4, Zenon DEF CoordinatorActs, CoordinatorStep, ListRunning, Install, StartupRequest,
       AwaitFirstPass, Request, BeforeStartup, Owed, node
  <2>4. NodeOK'
    BY <1>1, <2>1, Zenon DEF IInv, NodeOK
  <2>5. StartsOK'
    BY <1>1, <2>1, <2>2, <2>3, Zenon DEF IInv, StartsOK, Announces, stream
  <2>6. ConfigCovered'
    BY <1>1, <2>1, <2>2, <2>3, Zenon DEF IInv, ConfigCovered, ReloaderOwes, settings
  <2>7. ReloadsCovered'
    BY <1>1, <2>1, <2>2, Zenon DEF IInv, NodeOK, ReloadsCovered, WatcherOwes, IsReloadCompleted,
       systemd
  <2> QED BY <1>2, <2>4, <2>5, <2>6, <2>7, Zenon DEF IInv
<1> QED BY <1>3, <1>4, Zenon

LEMMA RunKeeps ==
    ASSUME IInv,
           \/ RunActs(ListenReturns) \/ RunActs(RunReturns) \/ RunActs(BudgetEnds)
           \/ Running /\ Cancel /\ UNCHANGED <<stream, systemd, settings>>
    PROVE  IInv'
<1>1. /\ UNCHANGED <<up, applied, wiped, inspected, clock, generation, obligations,
                     stream, systemd, settings>>
      /\ cancelled' = cancelled \/ cancelled' = TRUE
      /\ stage' = stage \/ ~BeforeStartup \/ cancelled
      /\ inputs' \in {inputs, inputs + 1}
  BY Zenon DEF RunActs, ListenReturns, RunReturns, BudgetEnds, Cancel, Input, BeforeStartup
<1>2. NodeOK'
  BY <1>1 DEF IInv, NodeOK
<1>3. StreamOK' /\ OrderOK' /\ ReadOK' /\ SignalsOK' /\ HangupOK'
  BY <1>1, Zenon DEF IInv, StreamOK, OrderOK, InOrder, ReadOK, NeverReplayed, SignalsOK, HangupOK,
     HangupHonoured, Refused, stream, systemd, settings
<1>o. \A c : Owed(c)' <=> Owed(c)
  BY <1>1, Zenon DEF Owed, obligations
<1>b. BeforeStartup /\ ~cancelled => BeforeStartup'
  BY <1>1, Zenon DEF BeforeStartup
<1>4. StartsOK'
  <2>1. UNCHANGED <<up, applied, inspected, connection, broken, inbox>>
    BY <1>1, Zenon DEF stream
  <2>2. cancelled => cancelled'
    BY <1>1, Zenon
  <2> QED BY <1>o, <1>b, <2>1, <2>2, Zenon DEF IInv, StartsOK, Announces
<1>5. ConfigCovered'
  BY <1>1, <1>o, <1>b DEF IInv, ConfigCovered, ReloaderOwes, settings
<1>6. ReloadsCovered'
  BY <1>1, <1>o DEF IInv, ReloadsCovered, WatcherOwes, IsReloadCompleted, systemd
<1> QED BY <1>2, <1>3, <1>4, <1>5, <1>6, Zenon DEF IInv

----------------------------------------------------------------------------
(* The settings reload. *)

LEMMA ReloaderActsOwn ==
    ASSUME IInv, UNCHANGED <<stream, systemd>>, ReloaderStep \/ Hangup
    PROVE  HangupOK' /\ ConfigCovered'
<1>1. HangupOK'
  BY Zenon DEF IInv, HangupOK, HangupHonoured, Refused, ReloaderStep, TakeHangup, LoadFile, Publish,
     RequestPass, Hangup
<1> SUFFICES ConfigCovered'
  BY <1>1, Zenon
<1>2. /\ UNCHANGED <<up, applied, stage, cancelled>>
      /\ \A c : Owed(c) => Owed(c)'
  BY ReloaderEffect, OwedStays, Zenon
<1>3. CASE Publish
  BY <1>2, <1>3, Zenon DEF Publish, Installed, ConfigCovered, ReloaderOwes, BeforeStartup
<1>4. CASE RequestPass
  BY <1>2, <1>4 DEF IInv, RequestPass, Request, Owed, ConfigCovered, ReloaderOwes,
     BeforeStartup, node
<1>5. CASE TakeHangup \/ LoadFile \/ Hangup
  BY <1>2, <1>5 DEF IInv, TakeHangup, LoadFile, Hangup, ConfigCovered, ReloaderOwes,
     BeforeStartup, node
<1> QED BY <1>3, <1>4, <1>5, Zenon DEF ReloaderStep

----------------------------------------------------------------------------
(* The systemd watcher. *)

\* The completion edge of systemd's reload is in the queue.
EdgeIn(queue) ==
    \E i \in 1 .. Len(queue) : IsReloadCompleted(queue[i]) /\ queue[i].sender = owner

LEMMA EdgeAppended ==
    ASSUME NEW q \in Seq(SignalRecord), NEW x \in SignalRecord
    PROVE  EdgeIn(Append(q, x)) <=> EdgeIn(q) \/ (IsReloadCompleted(x) /\ x.sender = owner)
<1>1. /\ Len(q) \in Nat /\ Len(Append(q, x)) = Len(q) + 1
      /\ \A i \in 1 .. Len(q) : Append(q, x)[i] = q[i]
      /\ Append(q, x)[Len(q) + 1] = x
  BY Appended
<1> DEFINE a == Append(q, x)
<1> HIDE DEF a
<1>2. /\ Len(a) = Len(q) + 1 /\ a[Len(q) + 1] = x
      /\ \A i \in 1 .. Len(q) : a[i] = q[i]
  BY <1>1, Zenon DEF a
<1>3. EdgeIn(a) <=> EdgeIn(q) \/ (IsReloadCompleted(x) /\ x.sender = owner)
  BY <1>1, <1>2 DEF EdgeIn
<1> QED BY <1>3, Zenon DEF a

LEMMA EdgeTaken ==
    ASSUME NEW q \in Seq(SignalRecord), q # <<>>
    PROVE  EdgeIn(q) <=>
               EdgeIn(Tail(q)) \/ (IsReloadCompleted(Head(q)) /\ Head(q).sender = owner)
<1> DEFINE t == Tail(q)
<1>1. /\ Len(q) \in Nat \ {0} /\ Head(q) = q[1]
      /\ Len(t) = Len(q) - 1
      /\ \A i \in 1 .. Len(q) - 1 : t[i] = q[i + 1]
  BY Taken, Zenon
<1> HIDE DEF t
<1>2. ASSUME EdgeIn(t) PROVE EdgeIn(q)
  BY <1>1, <1>2 DEF EdgeIn
<1>3. ASSUME EdgeIn(q), ~(IsReloadCompleted(q[1]) /\ q[1].sender = owner)
      PROVE  EdgeIn(t)
  <2>1. PICK i \in 1 .. Len(q) : IsReloadCompleted(q[i]) /\ q[i].sender = owner
    BY <1>3, Zenon DEF EdgeIn
  <2>2. i - 1 \in 1 .. Len(t) /\ t[i - 1] = q[i]
    BY <1>1, <1>3, <2>1
  <2> QED BY <2>1, <2>2, Zenon DEF EdgeIn
<1>4. (IsReloadCompleted(q[1]) /\ q[1].sender = owner) => EdgeIn(q)
  BY <1>1 DEF EdgeIn
<1> QED BY <1>1, <1>2, <1>3, <1>4, Zenon DEF t

LEMMA WatcherOwesEdge ==
    WatcherOwes <=> \/ reloading \/ watcher # "watching" \/ lost
                    \/ coalescer = "run" \/ pending \/ EdgeIn(reloads) \/ EdgeIn(signals)
BY Zenon DEF WatcherOwes, EdgeIn

LEMMA WatcherActsOwn ==
    ASSUME IInv, UNCHANGED <<stream, settings>>,
           WatcherStep \/ Forward \/ CoalescerRun \/ CoalescerCheck \/ SystemdStep
    PROVE  SignalsOK' /\ ReloadsCovered'
<1>1. /\ up' = up /\ cancelled' = cancelled
      /\ \A c : Owed(c) => Owed(c)'
  BY WatcherEffect, OwedStays, Zenon
<1>t. /\ reloads \in Seq(SignalRecord) /\ owners \in Seq(SignalRecord)
      /\ signals \in Seq(SignalRecord) /\ owner \in Nat /\ inputs \in Nat
  BY Zenon DEF IInv, SignalsOK, NodeOK
<1>c. (~cancelled /\ ~overtaken) => \A c \in wiped : Owed(c) \/ WatcherOwes
  BY Zenon DEF IInv, ReloadsCovered
<1>2. CASE WatcherConnects \/ WatcherResolves \/ WatcherRetries \/ WatchEnds
  BY <1>1, <1>2, <1>t, <1>c, Zenon DEF WatcherConnects, WatcherResolves, WatcherRetries, WatchEnds,
     SignalsOK, ReloadsCovered, WatcherOwes, node
<1>3. CASE WatcherSubscribed
  BY <1>1, <1>3, <1>t, Zenon DEF WatcherSubscribed, Request, Owed, SignalsOK, ReloadsCovered
<1>4. CASE WatcherFails \/ WatcherCloses \/ WatcherStops
  <2>1. SignalsOK'
    BY <1>4, <1>t, Empty, Zenon DEF WatcherFails, WatcherCloses, WatcherStops, Disconnect, SignalsOK
  <2>2. WatcherOwes'
    BY <1>4, Zenon DEF WatcherFails, WatcherCloses, WatcherStops, WatcherOwes
  <2> QED BY <2>1, <2>2, Zenon DEF ReloadsCovered
<1>5. CASE Watch
  <2>1. /\ signals # <<>> /\ signals' = Tail(signals)
        /\ UNCHANGED <<owner, reloading, watcher, lost, reloads, owners, node, obligations>>
        /\ watcher = "watching"
    BY <1>5, Zenon DEF Watch
  <2>2. SignalsOK'
    BY <1>t, <2>1, Taken, Zenon DEF SignalsOK
  <2>3. /\ WatcherOwes => \/ reloading \/ lost \/ coalescer = "run" \/ pending
                          \/ EdgeIn(reloads) \/ EdgeIn(Tail(signals))
                          \/ IsReloadCompleted(Head(signals)) /\ Head(signals).sender = owner
    BY <1>t, <2>1, WatcherOwesEdge, EdgeTaken, Zenon
  <2>4. /\ EdgeIn(reloads) => EdgeIn(reloads)'
        /\ EdgeIn(Tail(signals)) => EdgeIn(signals)'
    BY <2>1, Zenon DEF EdgeIn, IsReloadCompleted
  <2>5. /\ coalescer = "run" => coalescer' = "run"
        /\ pending => pending'
    BY <1>5, Zenon DEF Watch, Trigger
  <2>6. IsReloadCompleted(Head(signals)) /\ Head(signals).sender = owner
            => overtaken' \/ coalescer' = "run" \/ pending'
    BY <1>5, Zenon DEF Watch, Trigger
  <2>7. overtaken => overtaken'
    BY <1>5, Zenon DEF Watch
  <2>8. WatcherOwes => WatcherOwes' \/ overtaken'
    BY <2>1, <2>3, <2>4, <2>5, <2>6, WatcherOwesEdge, Zenon
       DEF WatcherOwes, EdgeIn
  <2>9. ReloadsCovered'
    BY <1>1, <1>c, <2>1, <2>7, <2>8 DEF ReloadsCovered, node
  <2> QED BY <2>2, <2>9, Zenon
<1>6. CASE Forward
  <2>1. /\ UNCHANGED <<owner, reloading, watcher, lost, coalescer, pending, overtaken, node>>
        /\ \/ /\ reloads # <<>> /\ owners' = owners
              /\ signals' = Append(signals, Head(reloads)) /\ reloads' = Tail(reloads)
           \/ /\ owners # <<>> /\ reloads' = reloads
              /\ signals' = Append(signals, Head(owners)) /\ owners' = Tail(owners)
    BY <1>6, Zenon DEF Forward
  <2>a. \A q \in Seq(SignalRecord) : q # <<>> =>
            Head(q) \in SignalRecord /\ Tail(q) \in Seq(SignalRecord)
    BY Taken
  <2>b. \A q \in Seq(SignalRecord), x \in SignalRecord : Append(q, x) \in Seq(SignalRecord)
    BY Appended, Zenon
  <2>2. SignalsOK'
    BY <1>t, <2>1, <2>a, <2>b, Zenon DEF SignalsOK
  <2>3. EdgeIn(reloads) \/ EdgeIn(signals) => EdgeIn(reloads') \/ EdgeIn(signals')
    <3>1. CASE reloads # <<>> /\ signals' = Append(signals, Head(reloads))
               /\ reloads' = Tail(reloads)
      <4>1. Head(reloads) \in SignalRecord
        BY <1>t, <2>a, <3>1, Zenon
      <4>2. EdgeIn(reloads) => EdgeIn(Tail(reloads)) \/ (IsReloadCompleted(Head(reloads))
                                                       /\ Head(reloads).sender = owner)
        BY <1>t, <3>1, EdgeTaken, Zenon
      <4>3. EdgeIn(signals) \/ (IsReloadCompleted(Head(reloads)) /\ Head(reloads).sender = owner)
                => EdgeIn(Append(signals, Head(reloads)))
        BY <1>t, <4>1, EdgeAppended, Zenon
      <4> QED BY <3>1, <4>2, <4>3, Zenon
    <3>2. CASE owners # <<>> /\ signals' = Append(signals, Head(owners)) /\ reloads' = reloads
      <4>1. Head(owners) \in SignalRecord
        BY <1>t, <2>a, <3>2, Zenon
      <4>2. EdgeIn(signals) => EdgeIn(Append(signals, Head(owners)))
        BY <1>t, <4>1, EdgeAppended, Zenon
      <4> QED BY <3>2, <4>2, Zenon
    <3> QED BY <2>1, <3>1, <3>2, Zenon
  <2>4. WatcherOwes => WatcherOwes'
    BY <2>1, <2>3, WatcherOwesEdge, Zenon DEF WatcherOwes, EdgeIn
  <2>5. ReloadsCovered'
    BY <1>1, <1>c, <2>1, <2>4 DEF ReloadsCovered, node
  <2> QED BY <2>2, <2>5, Zenon
<1>7. CASE CoalescerRun
  BY <1>1, <1>7, <1>t, Zenon DEF CoalescerRun, Request, Owed, SignalsOK, ReloadsCovered
<1>8. CASE CoalescerCheck
  <2>1. /\ UNCHANGED <<owner, reloading, watcher, lost, reloads, owners, signals, overtaken,
                       node>>
        /\ coalescer # "run" /\ (pending => coalescer' = "run")
    BY <1>8, Zenon DEF CoalescerCheck
  <2>2. SignalsOK'
    BY <1>t, <2>1, Zenon DEF SignalsOK
  <2>3. WatcherOwes => WatcherOwes'
    BY <2>1, Zenon DEF WatcherOwes
  <2>4. ReloadsCovered'
    BY <1>1, <1>c, <2>1, <2>3 DEF ReloadsCovered, node
  <2> QED BY <2>2, <2>4, Zenon
<1>9. CASE ReloadStarts \/ Reexecutes
  <2>1. Reloading(TRUE) \in SignalRecord
    BY <1>t, Zenon DEF Reloading, SignalRecord
  <2>2. \A n \in Nat : NameOwnerChanged(n) \in SignalRecord
    BY Zenon DEF NameOwnerChanged, SignalRecord
  <2>a. inputs' = inputs + 1
    BY <1>9, Zenon DEF ReloadStarts, Reexecutes, Input
  <2>3. inputs' + 1 \in Nat
    BY <1>t, <2>a
  <2>4. \A x, y \in SignalRecord : owners \o <<x, y>> \in Seq(SignalRecord)
    BY <1>t
  <2>5. SignalsOK'
    <3>1. CASE ReloadStarts
      BY <1>t, <2>1, <3>1, Appended, Zenon DEF ReloadStarts, SignalsOK
    <3>2. CASE Reexecutes
      BY <1>t, <2>2, <2>3, <2>4, <3>2, Zenon DEF Reexecutes, SignalsOK
    <3> QED BY <1>9, <3>1, <3>2, Zenon
  <2>6. WatcherOwes'
    BY <1>9, Zenon DEF ReloadStarts, Reexecutes, WatcherOwes
  <2> QED BY <2>5, <2>6, Zenon DEF ReloadsCovered
<1>10. CASE ReloadCompletes
  <2>1. Reloading(FALSE) \in SignalRecord
    BY <1>t, Zenon DEF Reloading, SignalRecord
  <2>2. SignalsOK'
    BY <1>10, <1>t, <2>1, Appended, Zenon DEF ReloadCompletes, SignalsOK
  <2>3. IsReloadCompleted(Reloading(FALSE)) /\ Reloading(FALSE).sender = owner
    BY Zenon DEF IsReloadCompleted, Reloading
  <2>4. Subscribed => EdgeIn(reloads')
    BY <1>10, <1>t, <2>1, <2>3, EdgeAppended, Zenon DEF ReloadCompletes
  <2>5. WatcherOwes'
    BY <1>10, <2>4, Zenon DEF ReloadCompletes, Subscribed, WatcherOwes, EdgeIn
  <2> QED BY <2>2, <2>5, Zenon DEF ReloadsCovered
<1>11. CASE BusBreaks \/ BusReturns
  <2>1. UNCHANGED <<owner, reloading, watcher, reloads, owners, signals, coalescer, pending,
                    overtaken, wiped>>
    BY <1>11, Zenon DEF BusBreaks, BusReturns, node
  <2>2. (watcher = "watching" /\ lost) => lost'
    <3>1. BusBreaks /\ watcher = "watching" => lost'
      <4>1. watcher = "watching" => (watcher \in {"resolving", "subscribed", "watching"}) = TRUE
        OBVIOUS
      <4>2. BusBreaks => lost' = (watcher \in {"resolving", "subscribed", "watching"})
        BY Zenon DEF BusBreaks
      <4> QED BY <4>1, <4>2, Zenon
    <3>2. BusReturns => lost' = lost
      BY Zenon DEF BusReturns
    <3> QED BY <1>11, <3>1, <3>2, Zenon
  <2> QED BY <1>1, <1>t, <1>c, <2>1, <2>2, Zenon DEF SignalsOK, ReloadsCovered, WatcherOwes
<1> QED
  BY <1>2, <1>3, <1>4, <1>5, <1>6, <1>7, <1>8, <1>9, <1>10, <1>11, Zenon DEF WatcherStep, SystemdStep

----------------------------------------------------------------------------
(* The event stream. *)

LEMMA ListenerActsOwn ==
    ASSUME IInv, UNCHANGED <<systemd, settings>>, ListenerStep \/ EngineStep
    PROVE  StreamOK' /\ OrderOK' /\ ReadOK' /\ StartsOK'
<1>1. /\ UNCHANGED <<inspected, cancelled>>
      /\ \A c : Owed(c) => Owed(c)'
  BY ListenerEffect, OwedStays, Zenon
<1>t. /\ log \in Seq(EventRecord) /\ inbox \in Seq(EventRecord)
      /\ last \in Nat /\ since \in Nat /\ clock \in Nat
      /\ Len(log) \in Nat /\ Len(inbox) \in Nat
  BY DEF IInv, StreamOK, NodeOK
<1>o. InOrder(log) /\ InOrder(inbox)
  BY Zenon DEF IInv, OrderOK
<1>r. /\ readTimes \subseteq Nat
      /\ \A t \in readTimes : t > 0 /\ t <= last /\ t <= clock
      /\ \A i \in 1 .. Len(inbox) : inbox[i].time \notin readTimes
  BY Zenon DEF IInv, ReadOK, NeverReplayed
<1>s. ~cancelled =>
          \A c \in up : applied[c] = 0 =>
              \/ Owed(c) \/ BeforeStartup \/ connection # "open" \/ broken
              \/ \E i \in 1 .. Len(inbox) : Announces(inbox[i], c)
  BY Zenon DEF IInv, StartsOK
<1>e. \A q \in Seq(EventRecord) : \A i \in 1 .. Len(q) :
          q[i] \in EventRecord /\ q[i].time \in Nat
  <2>1. \A q \in Seq(EventRecord) : \A i \in 1 .. Len(q) : q[i] \in EventRecord
    OBVIOUS
  <2>2. \A x \in EventRecord : x.time \in Nat
    BY Zenon DEF EventRecord
  <2> QED BY <2>1, <2>2, Zenon
<1>2. CASE EngineAccepts
  <2>1. PICK k \in 1 .. Len(log) + 1 :
          /\ \A i \in 1 .. Len(log) : i >= k <=> log[i].time >= ResubscribeSince
          /\ inbox' = SubSeq(log, k, Len(log))
    BY <1>2, Zenon DEF EngineAccepts
  <2>2. UNCHANGED <<log, listener, since, last, ready, readTimes, up, applied, clock, stage>>
        /\ connection' = "half"
    BY <1>2, Zenon DEF EngineAccepts, node
  <2>3. /\ inbox' \in Seq(EventRecord) /\ Len(inbox') = Len(log) - k + 1
        /\ \A i \in 1 .. Len(inbox') : /\ k + i - 1 \in 1 .. Len(log)
                                       /\ inbox'[i] = log[k + i - 1]
    BY <1>t, <2>1, Suffix
  <2>4. StreamOK'
    BY <1>t, <2>2, <2>3, Zenon DEF StreamOK
  <2>5. OrderOK'
    <3>1. InOrder(log)'
      BY <1>o, <2>2, Zenon DEF InOrder
    <3>2. \A i \in 1 .. Len(inbox') : inbox'[i].time > 0 /\ inbox'[i].time <= clock'
      BY <1>o, <2>2, <2>3, Zenon DEF InOrder
    <3>3. ASSUME NEW i \in 1 .. Len(inbox'), NEW j \in 1 .. Len(inbox'), i < j
          PROVE  inbox'[i].time < inbox'[j].time
      <4>1. k + i - 1 < k + j - 1
        BY <1>t, <2>3, <3>3
      <4> QED BY <1>o, <2>3, <4>1, Zenon DEF InOrder
    <3>4. InOrder(inbox)'
      BY <3>2, <3>3, Zenon DEF InOrder
    <3> QED BY <3>1, <3>4, Zenon DEF OrderOK
  <2>6. ReadOK'
    <3>1. ASSUME NEW i \in 1 .. Len(inbox') PROVE inbox'[i].time \notin readTimes
      <4>1. inbox'[i].time >= ResubscribeSince /\ inbox'[i].time \in Nat
        BY <1>t, <1>e, <2>1, <2>3
      <4> QED BY <1>t, <1>r, <4>1 DEF ResubscribeSince
    <3> QED BY <1>r, <2>2, <3>1, Zenon DEF ReadOK, NeverReplayed
  <2>7. StartsOK'
    BY <2>2, Zenon DEF StartsOK
  <2> QED BY <2>4, <2>5, <2>6, <2>7, Zenon
<1>3. CASE SubscribeOpens
  <2>1. UNCHANGED <<log, inbox, since, last, readTimes, clock, up, applied, broken>>
    BY <1>3, Zenon DEF SubscribeOpens
  <2>2. BeforeStartup' \/ \A c : Owed(c)'
    BY <1>3, Zenon DEF SubscribeOpens, AfterSubscribe, OnOpen, Request, Owed, BeforeStartup
  <2> QED BY <1>t, <1>o, <1>r, <2>1, <2>2, Zenon DEF StreamOK, OrderOK, InOrder, ReadOK,
        NeverReplayed, StartsOK
<1>4. CASE SubscribeRefused
  <2>1. /\ UNCHANGED <<log, inbox, since, last, readTimes, clock>> /\ connection' = "refused"
    BY <1>4, Zenon DEF SubscribeRefused
  <2> QED BY <1>t, <1>o, <1>r, <2>1, Zenon DEF StreamOK, OrderOK, InOrder, ReadOK, NeverReplayed,
        StartsOK
<1>5. CASE SubscribeFails \/ StreamEnds \/ ListenerStop
  <2>1. /\ UNCHANGED <<log, since, last, readTimes, clock>>
        /\ inbox' = <<>> /\ connection' = "none"
    BY <1>5, Zenon DEF SubscribeFails, StreamEnds, ListenerStop, RetryAfter, node
  <2>2. StreamOK'
    BY <1>t, <2>1, Empty, Zenon DEF StreamOK
  <2>3. OrderOK'
    BY <1>o, <2>1, Empty DEF OrderOK, InOrder
  <2>4. ReadOK'
    BY <1>r, <2>1, Empty DEF ReadOK, NeverReplayed
  <2>5. StartsOK'
    BY <2>1, Zenon DEF StartsOK
  <2> QED BY <2>2, <2>3, <2>4, <2>5, Zenon
<1>6. CASE ListenerStart \/ BackoffEnds
  <2>1. UNCHANGED <<log, connection, broken, inbox, since, last, readTimes, clock, up,
                    applied, stage>>
    BY <1>6, Zenon DEF ListenerStart, BackoffEnds, node
  <2> QED BY <1>1, <1>t, <1>o, <1>r, <1>s, <2>1 DEF StreamOK, OrderOK, InOrder, ReadOK,
        NeverReplayed, StartsOK, BeforeStartup, Announces
<1>7. CASE ReadEvent
  <2> DEFINE event == Head(inbox)
  <2>1. /\ inbox # <<>> /\ inbox' = Tail(inbox) /\ event.decodable
        /\ last' = Later(last, event.time) /\ readTimes' = readTimes \cup {event.time}
        /\ HandleEvent(event)
        /\ UNCHANGED <<log, connection, broken, since, up, applied, clock, stage>>
    BY <1>7, Zenon DEF ReadEvent, node
  <2>2. /\ Len(inbox) > 0 /\ event = inbox[1] /\ event.time \in Nat
        /\ inbox' \in Seq(EventRecord) /\ Len(inbox') = Len(inbox) - 1
        /\ \A i \in 1 .. Len(inbox') : inbox'[i] = inbox[i + 1]
    BY <1>t, <1>e, <2>1, Taken
  <2> HIDE DEF event
  <2>3. last' \in Nat /\ last' >= last /\ last' >= event.time
    BY <1>t, <2>1, <2>2 DEF Later
  <2>4. StreamOK'
    BY <1>t, <2>1, <2>2, <2>3, Zenon DEF StreamOK
  <2>5. OrderOK'
    <3>1. InOrder(log)'
      BY <1>o, <2>1, Zenon DEF InOrder
    <3>2. InOrder(inbox)'
      <4>1. \A i \in 1 .. Len(inbox') : i + 1 \in 1 .. Len(inbox) /\ inbox'[i] = inbox[i + 1]
        BY <1>t, <2>2
      <4>2. \A i, j \in 1 .. Len(inbox') : i < j => i + 1 < j + 1
        OBVIOUS
      <4> QED BY <1>o, <2>1, <4>1, <4>2, Zenon DEF InOrder
    <3> QED BY <3>1, <3>2, Zenon DEF OrderOK
  <2>6. ReadOK'
    <3>1. event.time > 0 /\ event.time <= clock
      BY <1>t, <1>o, <2>2 DEF InOrder
    <3>2. /\ readTimes' \subseteq Nat
          /\ \A t \in readTimes' : t > 0 /\ t <= last' /\ t <= clock'
      <4>1. \A t \in readTimes' : t \in readTimes \/ t = event.time
        BY <2>1, Zenon
      <4>2. clock' = clock
        BY <2>1, Zenon
      <4>3. \A t \in readTimes : t \in Nat /\ t > 0 /\ t <= last' /\ t <= clock
        BY <1>t, <1>r, <2>3
      <4>4. event.time \in Nat
        BY <2>2, Zenon
      <4> QED BY <2>3, <3>1, <4>1, <4>2, <4>3, <4>4, Zenon
    <3>3. ASSUME NEW i \in 1 .. Len(inbox') PROVE inbox'[i].time \notin readTimes'
      <4>1. i + 1 \in 1 .. Len(inbox) /\ inbox'[i] = inbox[i + 1] /\ 1 < i + 1
        BY <1>t, <2>2
      <4>2. inbox[1].time < inbox[i + 1].time
        BY <1>t, <1>o, <2>2, <4>1 DEF InOrder
      <4>3. inbox[i + 1].time # event.time
        BY <1>t, <1>e, <2>2, <4>1, <4>2
      <4> QED BY <1>r, <2>1, <4>1, <4>3, Zenon
    <3> QED BY <3>2, <3>3, Zenon DEF ReadOK, NeverReplayed
  <2>7. StartsOK'
    <3>1. ASSUME NEW c \in up, Announces(event, c) PROVE Owed(c)'
      <4>1. inspected[c] \in Nat
        BY Zenon DEF IInv, NodeOK
      <4>2. /\ event.container = c /\ event.kind = "start" /\ event.time > inspected[c]
        BY <2>1, <3>1, Zenon DEF Announces
      <4>3. Owe(c)
        BY <2>1, <2>2, <4>1, <4>2 DEF HandleEvent
      <4> QED BY <4>3, Zenon DEF Owe, Owed
    <3>2. ASSUME NEW c \in up, NEW i \in 1 .. Len(inbox), Announces(inbox[i], c), ~Announces(event, c)
          PROVE  \E j \in 1 .. Len(inbox') : Announces(inbox'[j], c)
      <4>1. i - 1 \in 1 .. Len(inbox') /\ inbox'[i - 1] = inbox[i]
        BY <1>t, <2>2, <3>2
      <4> QED BY <3>2, <4>1, Zenon
    <3>3. SUFFICES ASSUME ~cancelled, NEW c \in up, applied[c] = 0, ~Owed(c)', ~BeforeStartup,
                          connection = "open", ~broken
                   PROVE  \E j \in 1 .. Len(inbox') : Announces(inbox'[j], c)
      BY <1>1, <2>1 DEF StartsOK, BeforeStartup, Announces
    <3>4. PICK i \in 1 .. Len(inbox) : Announces(inbox[i], c)
      BY <1>1, <1>s, <3>3, Zenon
    <3> QED BY <3>1, <3>2, <3>3, <3>4, Zenon
  <2> QED BY <2>4, <2>5, <2>6, <2>7, Zenon
<1>8. CASE ReadUndecodable
  <2>1. /\ inbox # <<>> /\ inbox' = <<>> /\ connection' = "none"
        /\ last' = Later(last, clock) /\ readTimes' = readTimes \cup {Head(inbox).time}
        /\ UNCHANGED <<log, since, clock>>
    BY <1>8, Zenon DEF ReadUndecodable, RetryAfter, node
  <2>2. /\ Head(inbox).time \in Nat
        /\ Head(inbox).time > 0 /\ Head(inbox).time <= clock
    BY <1>t, <1>e, <1>o, <2>1, Taken DEF InOrder
  <2>3. last' \in Nat /\ last' >= last /\ last' >= clock
    BY <1>t, <2>1 DEF Later
  <2>4. \A t \in readTimes' : t \in Nat /\ t > 0 /\ t <= last' /\ t <= clock
    <3>1. \A t \in readTimes : t \in Nat /\ t > 0 /\ t <= last' /\ t <= clock
      BY <1>t, <1>r, <2>3
    <3>2. Head(inbox).time <= last'
      BY <1>t, <2>2, <2>3
    <3> QED BY <2>1, <2>2, <3>1, <3>2, Zenon
  <2>5. StreamOK'
    BY <1>t, <2>1, <2>3, Empty, Zenon DEF StreamOK
  <2>6. OrderOK'
    BY <1>o, <2>1, Empty DEF OrderOK, InOrder
  <2>7. ReadOK'
    BY <2>1, <2>4, Empty DEF ReadOK, NeverReplayed
  <2>8. StartsOK'
    BY <2>1, Zenon DEF StartsOK
  <2> QED BY <2>5, <2>6, <2>7, <2>8, Zenon
<1>9. CASE \E c \in Containers :
          ContainerEnds(c) \/ \E decodable \in BOOLEAN : ContainerStarts(c, decodable)
  <2>1. PICK c \in Containers :
          ContainerEnds(c) \/ \E decodable \in BOOLEAN : ContainerStarts(c, decodable)
    BY <1>9, Zenon
  <2>2. PICK event \in EventRecord :
          /\ event.time = clock + 1 /\ clock' = clock + 1
          /\ ContainerEnds(c) \/ (event.container = c /\ event.kind = "start")
          /\ log' = Append(log, event)
          /\ inbox' = IF connection \in {"half", "open"} /\ ~broken
                      THEN Append(inbox, event) ELSE inbox
    <3> DEFINE Event(kind, decodable) == [container |-> c, kind |-> kind, time |-> clock + 1,
                                          decodable |-> decodable]
    <3>1. \A kind \in {"start", "end"}, decodable \in BOOLEAN :
            /\ Event(kind, decodable) \in EventRecord
            /\ Event(kind, decodable).time = clock + 1
            /\ Event(kind, decodable).container = c /\ Event(kind, decodable).kind = kind
      BY <1>t, <2>1 DEF EventRecord
    <3>2. \A kind, decodable : Emit(c, kind, decodable) =>
            /\ clock' = clock + 1 /\ log' = Append(log, Event(kind, decodable))
            /\ inbox' = IF connection \in {"half", "open"} /\ ~broken
                        THEN Append(inbox, Event(kind, decodable)) ELSE inbox
      BY Zenon DEF Emit
    <3> HIDE DEF Event
    <3>3. CASE ContainerEnds(c)
      <4>1. Emit(c, "end", TRUE)
        BY <3>3, Zenon DEF ContainerEnds
      <4> QED BY <3>1, <3>2, <3>3, <4>1, Zenon
    <3>4. CASE \E decodable \in BOOLEAN : ContainerStarts(c, decodable)
      <4>1. PICK decodable \in BOOLEAN : Emit(c, "start", decodable)
        BY <3>4, Zenon DEF ContainerStarts
      <4> QED BY <3>1, <3>2, <4>1, Zenon
    <3> QED BY <2>1, <3>3, <3>4, Zenon
  <2>3. /\ UNCHANGED <<stage, connection, broken, since, last, readTimes>>
        /\ \/ up' = up \ {c} /\ applied' = applied
           \/ /\ up' = up \cup {c} /\ applied' = [applied EXCEPT ![c] = 0]
              /\ event.container = c /\ event.kind = "start"
    BY <2>1, <2>2, Zenon DEF ContainerEnds, ContainerStarts
  <2>4. ASSUME NEW q \in Seq(EventRecord), InOrder(q)
        PROVE  /\ Append(q, event) \in Seq(EventRecord)
               /\ \A i \in 1 .. Len(Append(q, event)) :
                     Append(q, event)[i].time > 0 /\ Append(q, event)[i].time <= clock'
               /\ \A i, j \in 1 .. Len(Append(q, event)) :
                     i < j => Append(q, event)[i].time < Append(q, event)[j].time
    <3> DEFINE a == Append(q, event)
    <3>1. /\ a \in Seq(EventRecord) /\ Len(q) \in Nat /\ Len(a) = Len(q) + 1
          /\ \A i \in 1 .. Len(q) : a[i] = q[i]
          /\ a[Len(q) + 1] = event
      BY <2>2, Appended
    <3> HIDE DEF a
    <3>2. \A i \in 1 .. Len(q) : q[i].time \in Nat /\ q[i].time > 0 /\ q[i].time <= clock
      BY <1>e, <2>4, Zenon DEF InOrder
    <3>3. \A i \in 1 .. Len(a) : i \in 1 .. Len(q) \/ i = Len(q) + 1
      BY <3>1
    <3>4. \A i \in 1 .. Len(a) : a[i].time > 0 /\ a[i].time <= clock'
      <4>1. event.time > 0 /\ event.time <= clock'
        BY <1>t, <2>2
      <4>2. \A i \in 1 .. Len(q) : q[i].time > 0 /\ q[i].time <= clock'
        BY <1>t, <2>2, <3>2
      <4> QED BY <3>1, <3>3, <4>1, <4>2, Zenon
    <3>5. ASSUME NEW i \in 1 .. Len(a), NEW j \in 1 .. Len(a), i < j
          PROVE  a[i].time < a[j].time
      <4>1. CASE j \in 1 .. Len(q)
        <5>1. i \in 1 .. Len(q)
          BY <3>1, <3>5, <4>1
        <5> QED BY <2>4, <3>1, <3>5, <4>1, <5>1, Zenon DEF InOrder
      <4>2. CASE j = Len(q) + 1
        <5>1. i \in 1 .. Len(q)
          BY <3>1, <3>5, <4>2
        <5>2. a[i].time \in Nat /\ a[i].time <= clock
          BY <3>1, <3>2, <5>1, Zenon
        <5>3. a[j].time = clock + 1
          BY <2>2, <3>1, <4>2, Zenon
        <5> QED BY <1>t, <5>2, <5>3
      <4> QED BY <3>3, <4>1, <4>2, Zenon
    <3> QED BY <3>1, <3>4, <3>5, Zenon DEF a
  <2>5. StreamOK'
    BY <1>t, <1>o, <2>2, <2>3, <2>4, Zenon DEF StreamOK
  <2>6. ASSUME NEW q, InOrder(q), q \in Seq(EventRecord)
        PROVE  /\ \A i \in 1 .. Len(q) : q[i].time > 0 /\ q[i].time <= clock'
               /\ \A i, j \in 1 .. Len(q) : i < j => q[i].time < q[j].time
    <3>1. \A i \in 1 .. Len(q) : q[i].time \in Nat /\ q[i].time > 0 /\ q[i].time <= clock
      BY <1>e, <2>6, Zenon DEF InOrder
    <3>2. \A n \in Nat : n <= clock => n <= clock'
      BY <1>t, <2>2
    <3>3. \A i, j \in 1 .. Len(q) : i < j => q[i].time < q[j].time
      BY <2>6, Zenon DEF InOrder
    <3> QED BY <3>1, <3>2, <3>3, Zenon
  <2>7. OrderOK'
    <3>1. InOrder(log)'
      BY <1>t, <1>o, <2>2, <2>4, Zenon DEF InOrder
    <3>2. InOrder(inbox)'
      <4>1. CASE inbox' = inbox
        BY <1>t, <1>o, <2>6, <4>1, Zenon DEF InOrder
      <4>2. CASE inbox' = Append(inbox, event)
        BY <1>t, <1>o, <2>4, <4>2, Zenon DEF InOrder
      <4> QED BY <2>2, <4>1, <4>2, Zenon
    <3> QED BY <3>1, <3>2, Zenon DEF OrderOK
  <2>8. /\ Append(inbox, event)[Len(inbox) + 1] = event
        /\ Len(Append(inbox, event)) = Len(inbox) + 1
        /\ \A i \in 1 .. Len(inbox) : Append(inbox, event)[i] = inbox[i]
    BY <1>t, <2>2, Appended
  <2>9. ReadOK'
    <3>1. event.time \notin readTimes /\ \A t \in readTimes : t <= clock'
      <4>1. \A n \in Nat : n <= clock => n <= clock' /\ n # event.time
        BY <1>t, <2>2
      <4> QED BY <1>r, <4>1, Zenon
    <3>2. ASSUME NEW i \in 1 .. Len(inbox') PROVE inbox'[i].time \notin readTimes
      BY <1>t, <1>r, <2>2, <2>8, <3>1
    <3> QED BY <1>r, <2>3, <3>1, <3>2, Zenon DEF ReadOK, NeverReplayed
  <2>10. StartsOK'
    <3>1. SUFFICES ASSUME ~cancelled, NEW x \in up', applied'[x] = 0, ~Owed(x)', ~BeforeStartup,
                          connection = "open", ~broken
                   PROVE  \E j \in 1 .. Len(inbox') : Announces(inbox'[j], x)
      BY <1>1, <2>3, Zenon DEF StartsOK, BeforeStartup, Announces
    <3>2. inbox' = Append(inbox, event)
      BY <2>2, <3>1, Zenon
    <3>3. CASE x \in up /\ applied[x] = 0
      <4>1. PICK i \in 1 .. Len(inbox) : Announces(inbox[i], x)
        BY <1>1, <1>s, <3>1, <3>3, Zenon
      <4>2. i \in 1 .. Len(inbox') /\ inbox'[i] = inbox[i]
        BY <1>t, <2>8, <3>2
      <4> QED BY <4>1, <4>2, Zenon
    <3>4. CASE event.container = x /\ event.kind = "start"
      <4>1. inspected[x] \in Nat /\ inspected[x] <= clock
        BY <2>2, <3>4, Zenon DEF IInv, NodeOK, EventRecord
      <4>2. Announces(event, x)
        BY <1>t, <2>2, <3>4, <4>1 DEF Announces
      <4> QED BY <1>t, <2>8, <3>2, <4>2
    <3> QED BY <2>3, <3>1, <3>3, <3>4, Zenon DEF IInv, NodeOK
  <2> QED BY <2>5, <2>7, <2>9, <2>10, Zenon
<1>10. CASE \E stops \in BOOLEAN : ConnectionBreaks(stops)
  <2>1. /\ UNCHANGED <<inbox, connection, since, last, readTimes, clock, up, applied, stage>>
        /\ log' = <<>> \/ log' = log
        /\ connection = "open" => broken'
    BY <1>10, Zenon DEF ConnectionBreaks
  <2>2. StreamOK' /\ OrderOK' /\ ReadOK'
    <3>1. StreamOK'
      BY <1>t, <2>1, Empty, Zenon DEF StreamOK
    <3>2. InOrder(log)'
      <4>1. CASE log' = <<>>
        BY <4>1, Empty DEF InOrder
      <4>2. CASE log' = log
        BY <1>o, <2>1, <4>2, Zenon DEF InOrder
      <4> QED BY <2>1, <4>1, <4>2, Zenon
    <3>3. InOrder(inbox)'
      BY <1>o, <2>1, Zenon DEF InOrder
    <3>4. ReadOK'
      BY <1>r, <2>1, Zenon DEF ReadOK, NeverReplayed
    <3> QED BY <3>1, <3>2, <3>3, <3>4, Zenon DEF OrderOK
  <2>3. StartsOK'
    BY <2>1, Zenon DEF StartsOK
  <2> QED BY <2>2, <2>3, Zenon
<1>11. CASE EngineReturns
  <2>1. UNCHANGED <<stream, clock, up, applied, stage>>
    BY <1>11, Zenon DEF EngineReturns
  <2> QED BY <1>1, <1>t, <1>o, <1>r, <1>s, <2>1 DEF StreamOK, OrderOK, InOrder, ReadOK,
        NeverReplayed, StartsOK, BeforeStartup, Announces, stream
<1> QED
  BY <1>2, <1>3, <1>4, <1>5, <1>6, <1>7, <1>8, <1>9, <1>10, <1>11, Zenon
     DEF ListenerStep, EngineStep

----------------------------------------------------------------------------
(* The inductive invariant. *)

LEMMA InitIInv == Init => IInv
<1> SUFFICES ASSUME Init PROVE IInv
  OBVIOUS
<1>1. NodeOK /\ ConfigCovered /\ ReloadsCovered
  BY DEF Init, NodeInit, NodeOK, ConfigCovered, ReloadsCovered
<1>2. StreamOK /\ OrderOK /\ ReadOK
  BY Empty DEF Init, NodeInit, StreamInit, StreamOK, OrderOK, InOrder, ReadOK, NeverReplayed
<1>3. StartsOK
  BY Zenon DEF Init, NodeInit, StartsOK, BeforeStartup
<1>4. SignalsOK /\ HangupOK
  BY Empty, Zenon DEF Init, SystemdInit, SettingsInit, SignalsOK, HangupOK, HangupHonoured
<1> QED BY <1>1, <1>2, <1>3, <1>4, Zenon DEF IInv

LEMMA NextIInv == IInv /\ [Next]_vars => IInv'
<1> SUFFICES ASSUME IInv, [Next]_vars PROVE IInv'
  OBVIOUS
<1>1. CASE CoordinatorActs
  BY <1>1, CoordinatorActsKeep, Zenon
<1>2. CASE \/ RunActs(ListenReturns) \/ RunActs(RunReturns) \/ RunActs(BudgetEnds)
           \/ Running /\ Cancel /\ UNCHANGED <<stream, systemd, settings>>
  BY <1>2, RunKeeps, Zenon
<1>3. CASE ListenerActs(ListenerStep) \/ ListenerActs(EngineStep)
  BY <1>3, ListenerActsKeep, ListenerActsOwn, Zenon DEF ListenerActs, IInv
<1>4. CASE \/ WatcherActs(WatcherStep) \/ WatcherActs(Forward) \/ WatcherActs(CoalescerRun)
           \/ WatcherActs(CoalescerCheck) \/ WatcherActs(SystemdStep)
  BY <1>4, WatcherActsKeep, WatcherActsOwn, Zenon DEF WatcherActs, IInv
<1>5. CASE ReloaderActs(ReloaderStep) \/ ReloaderActs(Hangup)
  BY <1>5, ReloaderActsKeep, ReloaderActsOwn, Zenon DEF ReloaderActs, IInv
<1>6. CASE UNCHANGED vars
  BY <1>6 DEF IInv, NodeOK, StreamOK, SignalsOK, OrderOK, InOrder, ReadOK, NeverReplayed,
     StartsOK, Announces, ConfigCovered, HangupOK, HangupHonoured, Refused, ReloadsCovered,
     WatcherOwes, IsReloadCompleted, ReloaderOwes, Owed, BeforeStartup, vars, obligations,
     node, stream, systemd, settings
<1> QED BY <1>1, <1>2, <1>3, <1>4, <1>5, <1>6, Zenon DEF Next, TaskStep

LEMMA Inductive == Spec => []IInv
BY InitIInv, NextIInv, PTL DEF Spec

\* No start is missed, for any containers and any number of starts, ends, breaks and
\* re-subscriptions (listen_events, consume_events, skip_event, daemon::run).
THEOREM NoStartIsMissed == Spec => []StartsCovered
<1>1. IInv => StartsCovered
  BY Zenon DEF IInv, StartsOK, StartsCovered, ListenerOwes, Announces, BeforeStartup
<1> QED BY <1>1, Inductive, PTL

\* No published config is missed, whichever step of the startup or of a pass the
\* publication falls into (publish_and_reconcile, set_pass_requester, daemon::run).
THEOREM NoPublicationIsMissed == Spec => []ConfigCovered
<1>1. IInv => ConfigCovered
  BY Zenon DEF IInv
<1> QED BY <1>1, Inductive, PTL

\* No systemd reload is missed while the order of its signals is kept, for any
\* capacity of the signal channel (Supervisor::attempt, watch, Coalescer::trigger).
THEOREM NoReloadIsMissed == Spec => []ReloadsCovered
<1>1. IInv => ReloadsCovered
  BY Zenon DEF IInv
<1> QED BY <1>1, Inductive, PTL

\* No record of the event stream is delivered twice (resubscribe_since,
\* consume_events).
THEOREM NoRecordIsReplayed == Spec => []NeverReplayed
<1>1. IInv => NeverReplayed
  BY Zenon DEF IInv, ReadOK
<1> QED BY <1>1, Inductive, PTL

\* No SIGHUP is lost (watch_sighup, Reloader::reload).
THEOREM NoHangupIsLost == Spec => []HangupHonoured
<1>1. IInv => HangupHonoured
  BY Zenon DEF IInv, HangupOK
<1> QED BY <1>1, Inductive, PTL
=============================================================================
