--------------------------- MODULE LauncherProofs --------------------------
(***************************************************************************)
(* Safety of the launcher for any number of launchers, container IDs and   *)
(* faults: LiveKept, that no live daemon is removed, and Truthful, that    *)
(* what a launcher reports is so.                                          *)
(*                                                                         *)
(* The argument.  A removal, decided or given up to dockerd, names a       *)
(* container that nobody at work has (RemoveOK): at the check its owner    *)
(* was not running, or is the checking launcher, which has created nothing *)
(* yet; and as the ID stays remembered, no later create can get it.  A     *)
(* launcher at work has only what it created itself (OwnOK).  A container  *)
(* that is gone stays gone while somebody remembers it, and a wait answers *)
(* only for one that is gone (GoneOK).                                     *)
(***************************************************************************)
EXTENDS Launcher, TLAPS

\* The steps before a launcher has created its daemon, and those after.
Early == {"identify", "list", "check", "removeStale", "create"}
Working == {"attach", "wait", "start", "abandon", "supervise", "stop", "answer", "poll",
            "finish"}

OwnOK ==
    \A l \in Launchers :
        /\ pc[l] # "off" => outcome[l] = "none"
        /\ pc[l] \in Early => mine[l] = None
        /\ pc[l] \in Working => mine[l] \in Daemons
        /\ (pc[l] # "off" /\ mine[l] # None) => owner[mine[l]] = l
        /\ mine[l] # None => state[mine[l]] # "none"
        /\ wait[l] # "none" => mine[l] # None
        /\ pc[l] = "finish" => wait[l] \in {"status", "unknown"}

\* Nobody at work has d, and d is a daemon.
Abandoned(d) ==
    /\ d \in Daemons
    /\ owner[d] # Foreign
    /\ \A l \in Launchers : mine[l] = d => pc[l] = "off"

RemoveOK ==
    /\ \A l \in Launchers : pc[l] = "check" => stale[l] \in Daemons
    /\ \A l \in Launchers : pc[l] = "removeStale" => Abandoned(stale[l])
    /\ \A request \in late : request.call = "remove" => Abandoned(request.id)

GoneOK ==
    \A l \in Launchers :
        wait[l] \in {"status", "unknown"} => state[mine[l]] = "gone"

\* The inductive invariant.
IInv == TypeOK /\ OwnOK /\ RemoveOK /\ GoneOK /\ Truthful

----------------------------------------------------------------------------

LEMMA FreshIsUnused == \A d \in FreshId : d \in Unused
BY Zenon DEF FreshId

LEMMA InitOK == Init => IInv
BY LauncherAssumption DEF Init, IInv, TypeOK, OwnOK, RemoveOK, GoneOK, Truthful,
     Abandoned, Early, Working

(* The steps of one launcher. *)

LEMMA TaskStartsKeeps ==
    ASSUME IInv, NEW l \in Launchers, TaskStarts(l)
    PROVE  IInv'
BY LauncherAssumption DEF IInv, TypeOK, OwnOK, RemoveOK, GoneOK, Truthful, Abandoned,
     Early, Working, TaskStarts, Goto, dockerd, session

LEMMA IdentifyKeeps ==
    ASSUME IInv, NEW l \in Launchers, Identify(l)
    PROVE  IInv'
BY LauncherAssumption DEF IInv, TypeOK, OwnOK, RemoveOK, GoneOK, Truthful, Abandoned,
     Early, Working, Identify, Goto, Exit, Lost, Fault, dockerd, session

LEMMA ListDaemonsKeeps ==
    ASSUME IInv, NEW l \in Launchers, ListDaemons(l)
    PROVE  IInv'
BY LauncherAssumption DEF IInv, TypeOK, OwnOK, RemoveOK, GoneOK, Truthful, Abandoned,
     Early, Working, ListDaemons, Goto, Exit, Lost, Fault, Named, dockerd, session

\* The daemon of a launcher that does not run is nobody's, and so is that of an
\* earlier run of l, which has created nothing yet.
LEMMA CheckStaleKeeps ==
    ASSUME IInv, NEW l \in Launchers, CheckStale(l)
    PROVE  IInv'
BY LauncherAssumption DEF IInv, TypeOK, OwnOK, RemoveOK, GoneOK, Truthful, Abandoned,
     Early, Working, CheckStale, Goto, Exit, Lost, Fault, MayRemove, dockerd, session

\* What is removed was nobody's at the check and is still.
LEMMA RemoveStaleKeeps ==
    ASSUME IInv, NEW l \in Launchers, RemoveStale(l)
    PROVE  IInv'
<1>0. /\ pc[l] = "removeStale" /\ stale[l] \in Daemons
      /\ UNCHANGED <<owner, mine, pump, done>>
  BY Zenon DEF RemoveStale, IInv, RemoveOK, Abandoned
<1>1. CASE /\ RemoveById(stale[l])
           /\ Goto(l, "create") /\ stale' = [stale EXCEPT ![l] = None]
           /\ UNCHANGED <<late, outcome, faults>>
  <2>1. /\ state' \in [Daemons -> {"none", "created", "running", "dead", "gone"}]
        /\ \A d \in Daemons : state'[d] \in {state[d], "gone"}
        /\ wait' \in [Launchers -> {"none", "registered", "status", "unknown", "broken"}]
        /\ \A k \in Launchers :
              \/ wait'[k] = wait[k]
              \/ wait[k] = "registered" /\ wait'[k] = "status" /\ state'[mine[k]] = "gone"
    BY <1>0, <1>1 DEF IInv, TypeOK, RemoveById, Removed, Answer
  <2>2. TypeOK'
    BY <1>0, <1>1, <2>1, Zenon DEF IInv, TypeOK, Goto
  <2>3. OwnOK'
    BY <1>0, <1>1, <2>1, LauncherAssumption DEF IInv, TypeOK, OwnOK, Early, Working, Goto
  <2>4. RemoveOK'
    BY <1>0, <1>1 DEF IInv, TypeOK, RemoveOK, Abandoned, Goto
  <2>5. GoneOK' /\ Truthful'
    BY <1>0, <1>1, <2>1, LauncherAssumption DEF IInv, TypeOK, OwnOK, GoneOK, Truthful
  <2> QED BY <2>2, <2>3, <2>4, <2>5, Zenon DEF IInv
<1>2. CASE /\ Fault /\ GiveUp(l) /\ Exit(l, "setup")
           /\ UNCHANGED <<state, wait, stale>>
  BY <1>0, <1>2, LauncherAssumption DEF IInv, TypeOK, OwnOK, RemoveOK, GoneOK, Truthful,
     Abandoned, Early, Working, Goto, Exit, Fault, GiveUp, CallOf, Call, dockerd
<1> QED BY <1>1, <1>2, Zenon DEF RemoveStale

\* The new ID is one that no launcher and no call remembers, so no removal names it.
LEMMA CreateDaemonKeeps ==
    ASSUME IInv, NEW l \in Launchers, CreateDaemon(l)
    PROVE  IInv'
<1> DEFINE Frame == UNCHANGED <<stale, wait, pump, done>>
<1>1. ASSUME NEW d \in FreshId, pc[l] = "create", Frame,
             state' = [state EXCEPT ![d] = "created"], owner' = [owner EXCEPT ![d] = l],
             mine' = [mine EXCEPT ![l] = d], Goto(l, "attach"),
             UNCHANGED <<late, outcome, faults>>
      PROVE  IInv'
  <2>1. d \in Daemons /\ (\A k \in Launchers : d # stale[k] /\ d # mine[k])
                      /\ (\A request \in late : request.id # d)
    BY <1>1, FreshIsUnused, Zenon DEF Unused
  <2>2. TypeOK' /\ OwnOK'
    BY <1>1, <2>1, LauncherAssumption DEF IInv, TypeOK, OwnOK, Early, Working, Goto
  <2>3. RemoveOK'
    BY <1>1, <2>1, LauncherAssumption
    DEF IInv, TypeOK, OwnOK, RemoveOK, Abandoned, Early, Working, Goto
  <2>4. GoneOK'
    BY <1>1, <2>1, LauncherAssumption DEF IInv, TypeOK, OwnOK, GoneOK, Early, Goto
  <2>5. Truthful'
    BY <1>1, <2>1, LauncherAssumption DEF IInv, TypeOK, OwnOK, Truthful, Early, Goto
  <2> QED BY <2>2, <2>3, <2>4, <2>5, Zenon DEF IInv
<1>2. ASSUME pc[l] = "create", Frame, Exit(l, "setup"), UNCHANGED <<state, owner, mine>>,
             late' \in {late, late \cup CallOf(l)}, faults' \in 0 .. MaxFaults
      PROVE  IInv'
  BY <1>2, LauncherAssumption DEF IInv, TypeOK, OwnOK, RemoveOK, GoneOK, Truthful,
       Abandoned, Early, Working, Exit, Goto, dockerd, CallOf, Call
<1>3. faults \in 0 .. MaxFaults /\ (Lost(l) => faults' \in 0 .. MaxFaults)
  BY LauncherAssumption DEF IInv, TypeOK, Lost, Fault
<1> QED
  BY <1>1, <1>2, <1>3, Zenon DEF CreateDaemon, GiveUp, dockerd

LEMMA AttachOutputKeeps ==
    ASSUME IInv, NEW l \in Launchers, AttachOutput(l)
    PROVE  IInv'
BY LauncherAssumption DEF IInv, TypeOK, OwnOK, RemoveOK, GoneOK, Truthful, Abandoned,
     Early, Working, AttachOutput, Goto, Lost, Fault, After, dockerd, session

LEMMA RegisterWaitKeeps ==
    ASSUME IInv, NEW l \in Launchers, RegisterWait(l)
    PROVE  IInv'
BY LauncherAssumption DEF IInv, TypeOK, OwnOK, RemoveOK, GoneOK, Truthful, Abandoned,
     Early, Working, RegisterWait, Goto, Lost, Fault, After, dockerd, session

LEMMA StartDaemonKeeps ==
    ASSUME IInv, NEW l \in Launchers, StartDaemon(l)
    PROVE  IInv'
BY LauncherAssumption DEF IInv, TypeOK, OwnOK, RemoveOK, GoneOK, Truthful, Abandoned,
     Early, Working, StartDaemon, Goto, Lost, Fault, GiveUp, CallOf, Call, After,
     dockerd, session

\* Only l has the daemon it created.
LEMMA AbandonKeeps ==
    ASSUME IInv, NEW l \in Launchers, Abandon(l)
    PROVE  IInv'
BY LauncherAssumption DEF IInv, TypeOK, OwnOK, RemoveOK, GoneOK, Truthful, Abandoned,
     Early, Working, Abandon, Goto, Exit, Fault, GiveUp, CallOf, RemoveById, Removed,
     Answer, Named, Call, dockerd, session

LEMMA SuperviseKeeps ==
    ASSUME IInv, NEW l \in Launchers, Supervise(l)
    PROVE  IInv'
BY LauncherAssumption DEF IInv, TypeOK, OwnOK, RemoveOK, GoneOK, Truthful, Abandoned,
     Early, Working, Supervise, Goto, dockerd, session

LEMMA StopDaemonKeeps ==
    ASSUME IInv, NEW l \in Launchers, StopDaemon(l)
    PROVE  IInv'
BY LauncherAssumption DEF IInv, TypeOK, OwnOK, RemoveOK, GoneOK, Truthful, Abandoned,
     Early, Working, StopDaemon, Goto, Fault, GiveUp, CallOf, Call, dockerd, session

LEMMA AwaitAnswerKeeps ==
    ASSUME IInv, NEW l \in Launchers, AwaitAnswer(l)
    PROVE  IInv'
BY LauncherAssumption DEF IInv, TypeOK, OwnOK, RemoveOK, GoneOK, Truthful, Abandoned,
     Early, Working, AwaitAnswer, Goto, Exit, dockerd, session

LEMMA AwaitRemovalKeeps ==
    ASSUME IInv, NEW l \in Launchers, AwaitRemoval(l)
    PROVE  IInv'
BY LauncherAssumption DEF IInv, TypeOK, OwnOK, RemoveOK, GoneOK, Truthful, Abandoned,
     Early, Working, AwaitRemoval, Goto, Exit, dockerd, session

LEMMA FinishKeeps ==
    ASSUME IInv, NEW l \in Launchers, Finish(l)
    PROVE  IInv'
BY LauncherAssumption DEF IInv, TypeOK, OwnOK, RemoveOK, GoneOK, Truthful, Abandoned,
     Early, Working, Finish, Goto, Exit, dockerd, session

LEMMA SignalKeeps ==
    ASSUME IInv, NEW l \in Launchers, Signal(l)
    PROVE  IInv'
BY LauncherAssumption DEF IInv, TypeOK, OwnOK, RemoveOK, GoneOK, Truthful, Abandoned,
     Early, Working, Signal, Fault, dockerd, session

LEMMA CrashKeeps ==
    ASSUME IInv, NEW l \in Launchers, Crash(l)
    PROVE  IInv'
BY LauncherAssumption DEF IInv, TypeOK, OwnOK, RemoveOK, GoneOK, Truthful, Abandoned,
     Early, Working, Crash, Goto, Exit, Fault, GiveUp, CallOf, Call, dockerd, session

LEMMA WaitBreaksKeeps ==
    ASSUME IInv, NEW l \in Launchers, WaitBreaks(l)
    PROVE  IInv'
BY LauncherAssumption DEF IInv, TypeOK, OwnOK, RemoveOK, GoneOK, Truthful, Abandoned,
     Early, Working, WaitBreaks, Fault, dockerd, session

LEMMA PumpFailsKeeps ==
    ASSUME IInv, NEW l \in Launchers, PumpFails(l)
    PROVE  IInv'
BY LauncherAssumption DEF IInv, TypeOK, OwnOK, RemoveOK, GoneOK, Truthful, Abandoned,
     Early, Working, PumpFails, Fault, dockerd, session

(* dockerd. *)

\* A late create gets an ID nobody remembers; a late removal names what is nobody's.
LEMMA LateCallKeeps ==
    ASSUME IInv, NEW request \in late, LateCall(request)
    PROVE  IInv'
BY FreshIsUnused, LauncherAssumption DEF IInv, TypeOK, OwnOK, RemoveOK, GoneOK,
     Truthful, Abandoned, Early, Working, LateCall, Removed, Answer, Named, Call, Unused

LEMMA DaemonKeeps ==
    ASSUME IInv, NEW d \in Daemons, DaemonExits(d) \/ AutoRemove(d)
    PROVE  IInv'
BY LauncherAssumption DEF IInv, TypeOK, OwnOK, RemoveOK, GoneOK, Truthful, Abandoned,
     Early, Working, DaemonExits, AutoRemove, Removed, Answer, Fault, session

----------------------------------------------------------------------------

LEMMA NextKeeps == IInv /\ [Next]_vars => IInv'
<1> SUFFICES ASSUME IInv, [Next]_vars PROVE IInv'
  OBVIOUS
<1>1. CASE UNCHANGED vars
  BY <1>1 DEF vars, IInv, TypeOK, OwnOK, RemoveOK, GoneOK, Truthful, Abandoned, Early,
       Working, Call
<1>2. ASSUME NEW l \in Launchers, LauncherStep(l) PROVE IInv'
  BY <1>2, TaskStartsKeeps, IdentifyKeeps, ListDaemonsKeeps, CheckStaleKeeps,
     RemoveStaleKeeps, CreateDaemonKeeps, AttachOutputKeeps, RegisterWaitKeeps,
     StartDaemonKeeps, AbandonKeeps, SuperviseKeeps, StopDaemonKeeps,
     AwaitAnswerKeeps, AwaitRemovalKeeps, FinishKeeps, Zenon
  DEF LauncherStep
<1>3. ASSUME NEW l \in Launchers, Signal(l) \/ Crash(l) \/ WaitBreaks(l) \/ PumpFails(l)
      PROVE  IInv'
  BY <1>3, SignalKeeps, CrashKeeps, WaitBreaksKeeps, PumpFailsKeeps, Zenon
<1> QED
  BY <1>1, <1>2, <1>3, DaemonKeeps, LateCallKeeps, Zenon DEF Next

LEMMA Invariance == Spec => []IInv
BY InitOK, NextKeeps, PTL DEF Spec

\* A launcher that reports a status, a confirmed removal or a clean failure of its
\* setup leaves no daemon, whatever calls dockerd carries out late: Truthful, for any
\* number of launchers and faults.
THEOREM ReportsAreTrue == Spec => []Truthful
<1>1. IInv => Truthful
  BY Zenon DEF IInv
<1> QED BY Invariance, <1>1, PTL

\* Which steps remove a daemon that was created or runs: a removal, and it is nobody's
\* or its own launcher abandons it.
LEMMA RemovalsAreSafe ==
    ASSUME IInv, [Next]_vars,
           NEW d \in Daemons, state[d] \in {"created", "running"}, state'[d] = "gone"
    PROVE  /\ owner[d] # Foreign
           /\ \A l \in Launchers : (mine[l] = d /\ pc[l] # "off") => pc[l] = "abandon"
<1>1. ASSUME NEW l \in Launchers, RemoveStale(l), stale[l] = d PROVE Abandoned(d)
  BY <1>1, Zenon DEF IInv, RemoveOK, RemoveStale
<1>2. ASSUME NEW l \in Launchers, Abandon(l), mine[l] = d
      PROVE  pc[l] = "abandon" /\ owner[d] = l
  BY <1>2, LauncherAssumption DEF IInv, TypeOK, OwnOK, Abandon
<1>3. ASSUME NEW request \in late, request.call = "remove", request.id = d
      PROVE  Abandoned(d)
  BY <1>3, Zenon DEF IInv, RemoveOK
<1>4. \/ \E l \in Launchers : RemoveStale(l) /\ stale[l] = d
      \/ \E l \in Launchers : Abandon(l) /\ mine[l] = d
      \/ \E request \in late : request.call = "remove" /\ request.id = d
  <2>1. CASE UNCHANGED vars
    BY <2>1, Zenon DEF vars
  <2>2. ASSUME NEW l \in Launchers, LauncherStep(l), ~RemoveStale(l), ~Abandon(l)
        PROVE  FALSE
    BY <2>2 DEF IInv, TypeOK, LauncherStep, TaskStarts, Identify, ListDaemons, CheckStale,
       CreateDaemon, AttachOutput, RegisterWait, StartDaemon, Supervise, StopDaemon,
       AwaitAnswer, AwaitRemoval, Finish, dockerd
  <2>3. ASSUME NEW l \in Launchers, Signal(l) \/ Crash(l) \/ WaitBreaks(l) \/ PumpFails(l)
        PROVE  FALSE
    BY <2>3, Zenon DEF Signal, Crash, WaitBreaks, PumpFails, dockerd
  <2>4. ASSUME NEW l \in Launchers, RemoveStale(l) PROVE stale[l] = d
    BY <2>4 DEF IInv, TypeOK, RemoveStale, RemoveById, Removed
  <2>5. ASSUME NEW l \in Launchers, Abandon(l) PROVE mine[l] = d
    BY <2>5 DEF IInv, TypeOK, Abandon, RemoveById, Removed
  <2>6. ASSUME NEW e \in Daemons, DaemonExits(e) \/ AutoRemove(e) PROVE FALSE
    BY <2>6 DEF IInv, TypeOK, DaemonExits, AutoRemove, Removed
  <2>7. ASSUME NEW request \in late, LateCall(request)
        PROVE  request.call = "remove" /\ request.id = d
    BY <2>7 DEF IInv, TypeOK, Call, LateCall, Removed
  <2> QED
    BY <2>1, <2>2, <2>3, <2>4, <2>5, <2>6, <2>7, Zenon DEF Next
<1>5. Abandoned(d) => /\ owner[d] # Foreign
                      /\ \A l \in Launchers : mine[l] = d => pc[l] = "off"
  BY Zenon DEF Abandoned
<1>6. ASSUME NEW k \in Launchers, owner[d] = k, pc[k] = "abandon",
             NEW l \in Launchers, mine[l] = d, pc[l] # "off"
      PROVE  pc[l] = "abandon"
  BY <1>6, LauncherAssumption DEF IInv, TypeOK, OwnOK
<1> QED
  BY <1>1, <1>2, <1>3, <1>4, <1>5, <1>6, LauncherAssumption

\* No launcher removes a container that is no daemon, or one that another launcher is
\* setting up or supervises: LiveKept, for any number of launchers and faults.
THEOREM LiveDaemonsAreKept == Spec => LiveKept
<1>1. IInv /\ [Next]_vars =>
        [\A d \in Daemons :
            (state[d] \in {"created", "running"} /\ state'[d] = "gone") =>
                /\ owner[d] # Foreign
                /\ \A l \in Launchers :
                      (mine[l] = d /\ pc[l] # "off") => pc[l] = "abandon"]_vars
  BY RemovalsAreSafe, Zenon
<1> QED BY <1>1, Invariance, PTL DEF Spec, LiveKept

=============================================================================
