---------------------------- MODULE Obligations ----------------------------
(***************************************************************************)
(* What the coordinator promises the rest of the daemon, without its       *)
(* tasks, keys, timers and queues: a request is answered by one            *)
(* enumeration, every container it lists becomes due, a due container      *)
(* stays due until a reconcile of it has succeeded, and completion is      *)
(* announced only when no request is open and nothing is due.              *)
(*                                                                         *)
(* Coordinator implements this module (Coordinator!Promise); EventStream,  *)
(* SystemdWatcher, SettingsReload and Daemon use its actions as their      *)
(* coordinator.                                                            *)
(***************************************************************************)
CONSTANT Containers

VARIABLES
    asked,      \* "no", "asked" (not enumerated yet) or "listed"
    toVisit,    \* listed containers the enumeration has not come to
    due,        \* containers that must be reconciled
    complete    \* whether the latest request was announced complete

obligations == <<asked, toVisit, due, complete>>

ObligationsInit == asked = "no" /\ toVisit = {} /\ due = {} /\ complete = TRUE

\* A request supersedes the enumeration in progress: it will be made again.
Request ==
    /\ asked' = "asked" /\ toVisit' = {} /\ complete' = FALSE
    /\ UNCHANGED due

List(containers) ==
    /\ asked = "asked"
    /\ asked' = "listed" /\ toVisit' = containers
    /\ UNCHANGED <<due, complete>>

\* The daemon is shutting down: the enumeration ends early and stays asked for.
Abandon ==
    /\ asked = "listed"
    /\ asked' = "asked" /\ toVisit' = {}
    /\ UNCHANGED <<due, complete>>

Visit(c) ==
    /\ c \in toVisit
    /\ toVisit' = toVisit \ {c} /\ due' = due \cup {c}
    /\ UNCHANGED <<asked, complete>>

MayAnnounce ==
    \/ complete' = complete
    \/ complete' = TRUE /\ asked' = "no" /\ due' = {}

Finish ==
    /\ asked = "listed" /\ toVisit = {}
    /\ asked' = "no"
    /\ UNCHANGED <<toVisit, due>>
    /\ MayAnnounce

\* A start event that no enumeration covers, or a retry.
Owe(c) ==
    /\ due' = due \cup {c}
    /\ UNCHANGED <<asked, toVisit, complete>>

Settle(c) ==
    /\ c \in due
    /\ due' = due \ {c}
    /\ UNCHANGED <<asked, toVisit>>
    /\ MayAnnounce

Announce ==
    /\ asked = "no" /\ due = {}
    /\ complete' = TRUE
    /\ UNCHANGED <<asked, toVisit, due>>

ObligationsNext ==
    \/ Request \/ Abandon \/ Finish \/ Announce
    \/ \E containers \in SUBSET Containers : List(containers)
    \/ \E c \in Containers : Visit(c) \/ Owe(c) \/ Settle(c)

ObligationsSpec == ObligationsInit /\ [][ObligationsNext]_obligations

=============================================================================
