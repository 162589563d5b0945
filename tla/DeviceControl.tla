--------------------------- MODULE DeviceControl ---------------------------
(***************************************************************************)
(* What a device controller promises (Interface::set_device_rules in        *)
(* src/src/cgroup/api.rs): a call makes the daemon's own grants equal to    *)
(* what it was asked for, and reports success only then.  On the way it     *)
(* first takes away everything that is not wanted any more and only then    *)
(* adds, so that a call that fails never ends with the old grants and the   *)
(* new ones together.  Nothing here says how.                               *)
(***************************************************************************)
CONSTANT Bits       \* what can be granted: one access bit of one device

VARIABLES
    base,       \* in force, and not the daemon's
    granted,    \* in force, and the daemon's
    want,       \* what the current call has to make in force
    phase,      \* "working", or how the last call ended: "none", "ok", "error"
    world       \* changes whenever someone else changes what is in force

cvars == <<base, granted, want, phase, world>>

Init ==
    /\ base \in SUBSET Bits
    /\ granted = {} /\ want = {} /\ phase = "none"

\* A call starts; what is in force without the daemon is not its business.
Begin ==
    /\ phase # "working" /\ phase' = "working"
    /\ want' \in SUBSET (Bits \ base)
    /\ UNCHANGED <<base, granted, world>>

\* Take away what is not wanted, or leave it to the runtime.
Narrow ==
    /\ phase = "working"
    /\ granted' \subseteq granted
    /\ granted \cap want \subseteq granted'
    /\ base \subseteq base' /\ base' \subseteq base \cup (granted \ granted')
    /\ UNCHANGED <<want, phase, world>>

\* Add wanted bits once nothing unwanted is left; one that came into force by
\* itself since the call began is the daemon's from then on.
Widen ==
    /\ phase = "working"
    /\ granted \subseteq want
    /\ granted \subseteq granted' /\ granted' \subseteq want
    /\ base \ granted' \subseteq base' /\ base' \subseteq base
    /\ UNCHANGED <<want, phase, world>>

\* Success: all that is wanted is in force, and nothing else by the daemon.
Succeed ==
    /\ phase = "working" /\ phase' = "ok"
    /\ granted \subseteq want /\ want \subseteq granted \cup base
    /\ UNCHANGED <<base, granted, want, world>>

Fail ==
    /\ phase' = "error"
    /\ UNCHANGED <<base, granted, want, world>>

\* The runtime changes its own grants, somebody takes grants of the daemon away
\* or puts them back, the cgroup is replaced, the daemon restarts.
Outside ==
    /\ world' # world
    /\ base' \in SUBSET Bits /\ granted' \in SUBSET Bits
    /\ phase' \in {phase, "none"}
    /\ UNCHANGED want

Next == Begin \/ Narrow \/ Widen \/ Succeed \/ Fail \/ Outside

Spec == Init /\ [][Next]_cvars

=============================================================================
