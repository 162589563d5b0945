------------------------------ MODULE CgroupV1 ------------------------------
(***************************************************************************)
(* set_device_rules on cgroup v1 (src/src/cgroup/v1set.rs, v1.rs,           *)
(* ledger.rs, handle.rs).                                                   *)
(*                                                                         *)
(* A cgroup directory shows its device exceptions in devices.list; one bit  *)
(* is added by a line written to devices.allow and taken away by one        *)
(* written to devices.deny.  The kernel merges the runtime's bits and the   *)
(* daemon's into one line per device, so only the daemon's ledger, kept in  *)
(* memory by the identity (path and inode) of the directory, tells whose    *)
(* bit is whose.  A call reads the list once, revokes, grants and verifies, *)
(* one write at a time.  Every read and write may fail.  Between any two,   *)
(* the runtime or systemd may write the same files, the directory may be    *)
(* replaced by another at its path, and the daemon may die.  The            *)
(* processor's lock lets one call run at a time.                            *)
(*                                                                         *)
(* devices.list is abstracted to two sets of bits: those of the lines that  *)
(* name one device, and those a line with a wildcard covers.  The code      *)
(* takes the bits of a set in their order; here it is any order.  That the  *)
(* rules name concrete devices is the processor's doing (rules.rs builds no *)
(* other), so the refusals of expand_rules cannot happen.                   *)
(***************************************************************************)
EXTENDS Naturals

CONSTANTS
    Bits,           \* DevBit: one access bit of one device
    MaxCalls,       \* bound: calls of set_device_rules
    MaxFailures,    \* bound: reads and writes that fail
    MaxOutside,     \* bound: writes of the runtime, of systemd, of others
    MaxDirs,        \* bound: directories at the path, one after the other
    MaxCrashes      \* bound: restarts of the daemon

ASSUME BoundsAssumption ==
    /\ {MaxCalls, MaxFailures, MaxOutside, MaxCrashes} \subseteq Nat
    /\ MaxDirs \in Nat \ {0}

VARIABLES
    dir,        \* the inode of the directory now at the path
    exact,      \* devices.list: the bits of lines naming one device
    wild,       \* devices.list: the bits covered by lines with a wildcard
    ledger,     \* Ledger::entries, by inode
    pc,         \* the call: "idle", "revoke", "grant" or "verify"
    handle,     \* the inode the call's CgroupHandle was opened on
    desired,    \* expand_rules: the bits asked for
    entries,    \* the bits the list covered when the call read it
    baseline,   \* those of them that are the runtime's
    ownedOld, ownedNew, forgotten,
    todo,       \* the bits the current loop has still to visit
    failed,     \* whether errors is not empty
    result,     \* what the last call reported: "none", "ok" or "error"
    calls, failures, outside, crashes,
    \* History:
    runtime,    \* bits of single-device lines the runtime had written for
                \* itself when neither the ledger nor a call claimed them
    ours        \* bits in the list through this daemon's writes that it has
                \* neither taken away nor left to the runtime

list    == <<dir, exact, wild>>
call    == <<handle, desired, entries, baseline, ownedOld, ownedNew>>
history == <<runtime, ours>>
bounds  == <<calls, failures, outside, crashes>>
vars    == <<list, ledger, pc, call, forgotten, todo, failed, result, bounds, history>>

-----------------------------------------------------------------------------
\* without_owned: the lines naming one device lose the owned bits; a line with
\* a wildcard is the runtime's.
WithoutOwned(owned) == (exact \ owned) \cup wild

\* covered, over the lines of the list.
Covered == exact \cup wild

\* A descriptor on a directory that was removed answers ENODEV.
Removed == handle # dir

Fails ==
    \/ Removed /\ UNCHANGED failures
    \/ failures < MaxFailures /\ failures' = failures + 1

Init ==
    /\ dir = 1
    /\ exact \in SUBSET Bits
    /\ wild \in SUBSET Bits
    /\ ledger = [i \in 1 .. MaxDirs |-> {}]
    /\ pc = "idle" /\ handle = 1
    /\ desired = {} /\ entries = {} /\ baseline = {} /\ ownedOld = {} /\ ownedNew = {}
    /\ forgotten = {} /\ todo = {} /\ failed = FALSE /\ result = "none"
    /\ calls = 0 /\ failures = 0 /\ outside = 0 /\ crashes = 0
    /\ runtime = exact
    /\ ours = {}

-----------------------------------------------------------------------------
(* The call.                                                                 *)

Return(how) ==
    /\ pc' = "idle" /\ result' = how
    /\ todo' = {} /\ forgotten' = {} /\ failed' = FALSE

StartCall == pc = "idle" /\ calls < MaxCalls /\ calls' = calls + 1

\* Fault: every desired bit becomes owned, the runtime's too.
FaultyToOwn(rules, base) == rules

\* Only bits outside the baseline become owned.
ToOwn(rules, base) == rules \ base

\* CgroupHandle::open, and set_device_rules up to its first loop: the list and
\* the ledger are read once.
Begin(rules) ==
    /\ StartCall
    /\ handle' = dir
    /\ desired' = rules
    /\ entries' = Covered
    /\ ownedOld' = ledger[dir]
    /\ baseline' = WithoutOwned(ownedOld')
    /\ ownedNew' = ToOwn(rules, baseline')
    /\ todo' = ownedOld' \ ownedNew'
    /\ pc' = "revoke" /\ result' = "none"
    /\ UNCHANGED <<list, ledger, forgotten, failed, failures, outside, crashes, history>>

\* The directory cannot be opened, or the list cannot be read or parsed.
BeginFails ==
    /\ StartCall
    /\ failures < MaxFailures /\ failures' = failures + 1
    /\ Return("error")
    /\ UNCHANGED <<list, ledger, call, outside, crashes, history>>

\* Ledger::remove and Ledger::add.
Remove(b) == ledger' = [ledger EXCEPT ![handle] = @ \ {b}]

Add(b) == ledger' = [ledger EXCEPT ![handle] = @ \cup {b}]

\* An owned bit that a wildcard of the runtime has come to cover is left to it.
Forget(b) ==
    /\ pc = "revoke" /\ b \in todo
    /\ b \in baseline
    /\ Remove(b)
    /\ forgotten' = forgotten \cup {b}
    /\ todo' = todo \ {b}
    /\ ours' = IF Removed THEN ours ELSE ours \ {b}
    /\ UNCHANGED <<list, pc, call, failed, result, bounds, runtime>>

\* A line written to devices.deny.
Revoke(b) ==
    /\ pc = "revoke" /\ b \in todo
    /\ b \notin baseline
    /\ ~Removed
    /\ exact' = exact \ {b}
    /\ ours' = ours \ {b}
    /\ Remove(b)
    /\ todo' = todo \ {b}
    /\ UNCHANGED <<dir, wild, pc, call, forgotten, failed, result, bounds, runtime>>

\* Fault: the bit is dropped from the ledger although the write failed.
FaultyForgetfulRevokeFails(b) ==
    /\ pc = "revoke" /\ b \in todo
    /\ b \notin baseline
    /\ Fails
    /\ Remove(b)
    /\ Return("error")
    /\ UNCHANGED <<list, call, calls, outside, crashes, history>>

\* Fault: the other revocations and the grants are still made.
FaultyRevokeFails(b) ==
    /\ pc = "revoke" /\ b \in todo
    /\ b \notin baseline
    /\ Fails
    /\ todo' = todo \ {b} /\ failed' = TRUE
    /\ UNCHANGED <<list, ledger, pc, call, forgotten, result, calls, outside, crashes, history>>

\* A failed revocation ends the call.
RevokeFails(b) ==
    /\ pc = "revoke" /\ b \in todo
    /\ b \notin baseline
    /\ Fails
    /\ Return("error")
    /\ UNCHANGED <<list, ledger, call, calls, outside, crashes, history>>

StartGrants ==
    /\ pc = "revoke" /\ todo = {}
    /\ pc' = "grant" /\ todo' = ownedNew
    /\ UNCHANGED <<list, ledger, call, forgotten, failed, result, bounds, history>>

\* A bit that was in force when the list was read is not written again.
Keep(b) ==
    /\ pc = "grant" /\ b \in todo
    /\ b \in entries
    /\ Add(b)
    /\ todo' = todo \ {b}
    /\ UNCHANGED <<list, pc, call, forgotten, failed, result, bounds, history>>

\* A line written to devices.allow.
Grant(b) ==
    /\ pc = "grant" /\ b \in todo
    /\ b \notin entries
    /\ ~Removed
    /\ exact' = exact \cup {b}
    /\ ours' = IF b \in exact THEN ours ELSE ours \cup {b}
    /\ Add(b)
    /\ todo' = todo \ {b}
    /\ UNCHANGED <<dir, wild, pc, call, forgotten, failed, result, bounds, runtime>>

\* A failed grant does not keep the others from being made.
GrantFails(b) ==
    /\ pc = "grant" /\ b \in todo
    /\ b \notin entries
    /\ Fails
    /\ todo' = todo \ {b} /\ failed' = TRUE
    /\ UNCHANGED <<list, ledger, pc, call, forgotten, result, calls, outside, crashes, history>>

StartVerify ==
    /\ pc = "grant" /\ todo = {}
    /\ pc' = "verify"
    /\ UNCHANGED <<list, ledger, call, forgotten, todo, failed, result, bounds, history>>

\* verify: of the bits owned before or now, exactly those owned now are in force.
Verified ==
    \A b \in (ownedOld \ forgotten) \cup ownedNew : b \in Covered <=> b \in ownedNew

\* The call reports success.
Succeed ==
    /\ pc = "verify" /\ ~Removed
    /\ ~failed /\ Verified
    /\ Return("ok")
    /\ UNCHANGED <<list, ledger, call, bounds, history>>

\* The call reports the failed grants, the drift, or that the list cannot be read.
FailVerify ==
    /\ pc = "verify"
    /\ \/ (failed \/ ~Verified) /\ UNCHANGED failures
       \/ Fails
    /\ Return("error")
    /\ UNCHANGED <<list, ledger, call, calls, outside, crashes, history>>

-----------------------------------------------------------------------------
(* The processor's other use of the ledger, and the outside world.           *)

\* Ledger::forget, once the grants are known to be gone.
ForgetDir(i) ==
    /\ pc = "idle"
    /\ ledger[i] # {}
    /\ i # dir
    /\ ledger' = [ledger EXCEPT ![i] = {}]
    /\ UNCHANGED <<list, pc, call, forgotten, todo, failed, result, bounds, history>>

OutsideWrite ==
    /\ outside < MaxOutside /\ outside' = outside + 1
    /\ UNCHANGED <<dir, ledger, pc, call, forgotten, todo, failed, result, calls, failures, crashes>>

\* Whether the daemon owns a bit of the directory or is about to.
Claimed(b) == b \in ledger[dir] \/ (pc # "idle" /\ handle = dir /\ b \in ownedNew)

\* The runtime allows a bit for itself; one already in the list stays as it is.
RuntimeAllow(b) ==
    /\ OutsideWrite
    /\ b \notin exact
    /\ exact' = exact \cup {b}
    /\ runtime' = IF Claimed(b) THEN runtime ELSE runtime \cup {b}
    /\ UNCHANGED <<wild, ours>>

\* The runtime or an outside writer denies a bit.
RuntimeDeny(b) ==
    /\ OutsideWrite
    /\ b \in exact
    /\ exact' = exact \ {b}
    /\ runtime' = runtime \ {b} /\ ours' = ours \ {b}
    /\ UNCHANGED wild

\* The runtime writes or withdraws lines with wildcards.
RuntimeWild(w) ==
    /\ OutsideWrite
    /\ w # wild
    /\ wild' = w
    /\ UNCHANGED <<exact, history>>

\* A daemon-reload makes systemd write its own list again.
Reload ==
    /\ OutsideWrite
    /\ exact # runtime
    /\ exact' = runtime /\ ours' = {}
    /\ UNCHANGED <<wild, runtime>>

\* The cgroup is removed and another one made at its path.
Recreate(e, w) ==
    /\ dir < MaxDirs /\ dir' = dir + 1
    /\ exact' = e /\ wild' = w
    /\ runtime' = e /\ ours' = {}
    /\ UNCHANGED <<ledger, pc, call, forgotten, todo, failed, result, bounds>>

\* The daemon dies; the ledger was in its memory, and what the list shows is
\* all the runtime's to its successor.
Restart ==
    /\ crashes < MaxCrashes /\ crashes' = crashes + 1
    /\ ledger' = [i \in DOMAIN ledger |-> {}]
    /\ Return("none")
    /\ ours' = {}
    /\ UNCHANGED <<list, call, calls, failures, outside, runtime>>

-----------------------------------------------------------------------------
Next ==
    \/ \E rules \in SUBSET Bits : Begin(rules)
    \/ BeginFails
    \/ \E b \in Bits : Forget(b) \/ Revoke(b) \/ RevokeFails(b)
    \/ StartGrants
    \/ \E b \in Bits : Keep(b) \/ Grant(b) \/ GrantFails(b)
    \/ StartVerify \/ Succeed \/ FailVerify
    \/ \E i \in 1 .. MaxDirs : ForgetDir(i)
    \/ \E b \in Bits : RuntimeAllow(b) \/ RuntimeDeny(b)
    \/ \E w \in SUBSET Bits : RuntimeWild(w)
    \/ Reload
    \/ \E e, w \in SUBSET Bits : Recreate(e, w)
    \/ Restart

Spec == Init /\ [][Next]_vars

-----------------------------------------------------------------------------
(* Properties.                                                               *)

\* The sets hold bits, the inodes and counters are within their bounds.
TypeOK ==
    /\ dir \in 1 .. MaxDirs /\ handle \in 1 .. MaxDirs
    /\ ledger \in [1 .. MaxDirs -> SUBSET Bits]
    /\ exact \subseteq Bits /\ wild \subseteq Bits
    /\ desired \subseteq Bits /\ entries \subseteq Bits /\ baseline \subseteq Bits
    /\ ownedOld \subseteq Bits /\ ownedNew \subseteq Bits
    /\ forgotten \subseteq Bits /\ todo \subseteq Bits
    /\ runtime \subseteq Bits /\ ours \subseteq Bits
    /\ pc \in {"idle", "revoke", "grant", "verify"}
    /\ failed \in BOOLEAN /\ result \in {"none", "ok", "error"}
    /\ calls \in 0 .. MaxCalls /\ failures \in 0 .. MaxFailures
    /\ outside \in 0 .. MaxOutside /\ crashes \in 0 .. MaxCrashes

\* What the runtime allowed for itself before the daemon owned or wanted it is
\* never denied: not when the same bit is granted and revoked, not after a
\* partial failure, not in a directory that took the place of another.
RuntimeKept == runtime \subseteq exact

\* Every bit that is in force through the daemon is in the ledger, whatever
\* writes failed: a later call can find it and take it away.
OwnedRecorded == ours \subseteq ledger[dir]

\* A call keeps the promise of a device controller: nothing is granted before
\* all that is to go is gone, and success means the list is as it should be.
Control == INSTANCE DeviceControl WITH
    base <- (exact \ ledger[dir]) \cup wild, granted <- exact \cap ledger[dir],
    want <- ownedNew, phase <- IF pc = "idle" THEN result ELSE "working",
    world <- <<dir, outside, crashes>>

Controls == Control!Spec

=============================================================================
