--------------------------- MODULE CgroupV1Proofs ---------------------------
(***************************************************************************)
(* Proofs about CgroupV1: the runtime's own bits are never denied, every    *)
(* bit in force through the daemon is in the ledger, and a call keeps the   *)
(* promise of a device controller (DeviceControl), for every set of bits    *)
(* and every bound.                                                         *)
(***************************************************************************)
EXTENDS CgroupV1, TLAPS

USE DEF list, call, history, bounds, vars

\* The record is about this directory and those before it, and names no bit the
\* runtime allowed for itself.
LedgerOK ==
    /\ handle <= dir
    /\ \A i \in 1 .. MaxDirs : i > dir => ledger[i] = {}
    /\ ledger[dir] \cap runtime = {}

\* In a call: nothing it will own is the runtime's; the record holds only what
\* is to be owned and what is still to be revoked; what need not be written is
\* recorded already.
CallOK ==
    pc # "idle" =>
        /\ handle = dir => ownedNew \cap runtime = {}
        /\ ledger[handle] \subseteq ownedNew \cup todo
        /\ ownedNew \cap entries \subseteq ledger[handle]
        /\ pc = "revoke" => todo \subseteq ledger[handle] /\ todo \cap ownedNew = {}
        /\ pc # "revoke" => todo \subseteq ownedNew

IInv == TypeOK /\ RuntimeKept /\ OwnedRecorded /\ LedgerOK /\ CallOK

-----------------------------------------------------------------------------
\* The invariant holds when the daemon starts.
LEMMA InitIInv == Init => IInv
<1>1. Init => failed \in BOOLEAN
  BY Zenon DEF Init
<1>q. QED
  BY <1>1, BoundsAssumption DEF Init, IInv, TypeOK, RuntimeKept, OwnedRecorded, LedgerOK, CallOK

\* Every step keeps the types.
LEMMA StepType == TypeOK /\ Next => TypeOK'
<1> SUFFICES ASSUME TypeOK, Next PROVE TypeOK'
  OBVIOUS
<1> USE BoundsAssumption
<1>1. ASSUME NEW rules \in SUBSET Bits, Begin(rules) PROVE TypeOK'
  BY <1>1 DEF TypeOK, Begin, StartCall, Covered, WithoutOwned, ToOwn
<1>2. ASSUME BeginFails PROVE TypeOK'
  <2>1. failed' \in BOOLEAN
    BY <1>2, Zenon DEF BeginFails, Return
  <2>q. QED
    BY <1>2, <2>1 DEF TypeOK, BeginFails, StartCall, Return
<1>3. ASSUME NEW b \in Bits, Forget(b) PROVE TypeOK'
  BY <1>3, Zenon DEF TypeOK, Forget, Remove, Removed
<1>4. ASSUME NEW b \in Bits, Revoke(b) PROVE TypeOK'
  BY <1>4, Zenon DEF TypeOK, Revoke, Remove, Removed
<1>5. ASSUME NEW b \in Bits, RevokeFails(b) PROVE TypeOK'
  <2>1. failed' \in BOOLEAN
    BY <1>5, Zenon DEF RevokeFails, Return
  <2>q. QED
    BY <1>5, <2>1 DEF TypeOK, RevokeFails, Fails, Return
<1>6. ASSUME StartGrants PROVE TypeOK'
  BY <1>6, Zenon DEF TypeOK, StartGrants
<1>7. ASSUME NEW b \in Bits, Keep(b) PROVE TypeOK'
  BY <1>7, Zenon DEF TypeOK, Keep, Add
<1>8. ASSUME NEW b \in Bits, Grant(b) PROVE TypeOK'
  BY <1>8, Zenon DEF TypeOK, Grant, Add, Removed
<1>9. ASSUME NEW b \in Bits, GrantFails(b) PROVE TypeOK'
  BY <1>9 DEF TypeOK, GrantFails, Fails
<1>10. ASSUME StartVerify PROVE TypeOK'
  BY <1>10, Zenon DEF TypeOK, StartVerify
<1>11. ASSUME Succeed PROVE TypeOK'
  BY <1>11, Zenon DEF TypeOK, Succeed, Return
<1>12. ASSUME FailVerify PROVE TypeOK'
  <2>1. failed' \in BOOLEAN
    BY <1>12, Zenon DEF FailVerify, Return
  <2>q. QED
    BY <1>12, <2>1 DEF TypeOK, FailVerify, Fails, Return
<1>13. ASSUME NEW i \in 1 .. MaxDirs, ForgetDir(i) PROVE TypeOK'
  BY <1>13, Zenon DEF TypeOK, ForgetDir
<1>14. ASSUME NEW b \in Bits, RuntimeAllow(b) PROVE TypeOK'
  BY <1>14 DEF TypeOK, RuntimeAllow, OutsideWrite, Claimed
<1>15. ASSUME NEW b \in Bits, RuntimeDeny(b) PROVE TypeOK'
  BY <1>15 DEF TypeOK, RuntimeDeny, OutsideWrite
<1>16. ASSUME NEW w \in SUBSET Bits, RuntimeWild(w) PROVE TypeOK'
  BY <1>16 DEF TypeOK, RuntimeWild, OutsideWrite
<1>17. ASSUME Reload PROVE TypeOK'
  BY <1>17 DEF TypeOK, Reload, OutsideWrite
<1>18. ASSUME NEW e \in SUBSET Bits, NEW w \in SUBSET Bits, Recreate(e, w) PROVE TypeOK'
  BY <1>18 DEF TypeOK, Recreate
<1>19. ASSUME Restart PROVE TypeOK'
  <2>1. failed' \in BOOLEAN
    BY <1>19, Zenon DEF Restart, Return
  <2>q. QED
    BY <1>19, <2>1 DEF TypeOK, Restart, Return
<1>q. QED
  BY <1>1, <1>2, <1>3, <1>4, <1>5, <1>6, <1>7, <1>8, <1>9, <1>10, <1>11, <1>12, <1>13, <1>14, <1>15, <1>16, <1>17, <1>18, <1>19, Zenon DEF Next

\* Every step keeps the rest of the invariant.
LEMMA StepRest ==
    IInv /\ TypeOK' /\ Next => RuntimeKept' /\ OwnedRecorded' /\ LedgerOK' /\ CallOK'
<1> DEFINE Rest == RuntimeKept /\ OwnedRecorded /\ LedgerOK /\ CallOK
<1> SUFFICES ASSUME TypeOK, Rest, TypeOK', Next PROVE Rest'
  BY Zenon DEF IInv
<1> USE BoundsAssumption DEF RuntimeKept, OwnedRecorded, LedgerOK, CallOK
<1>1. ASSUME NEW rules \in SUBSET Bits, Begin(rules) PROVE Rest'
  BY <1>1 DEF TypeOK, Begin, StartCall, Covered, WithoutOwned, ToOwn
<1>2. ASSUME BeginFails PROVE Rest'
  BY <1>2, Zenon DEF TypeOK, BeginFails, StartCall, Return
<1>3. ASSUME NEW b \in Bits, Forget(b) PROVE Rest'
  BY <1>3, Zenon DEF TypeOK, Forget, Remove, Removed
<1>4. ASSUME NEW b \in Bits, Revoke(b) PROVE Rest'
  BY <1>4, Zenon DEF TypeOK, Revoke, Remove, Removed
<1>5. ASSUME NEW b \in Bits, RevokeFails(b) PROVE Rest'
  BY <1>5, Zenon DEF TypeOK, RevokeFails, Fails, Return
<1>6. ASSUME StartGrants PROVE Rest'
  BY <1>6, Zenon DEF TypeOK, StartGrants
<1>7. ASSUME NEW b \in Bits, Keep(b) PROVE Rest'
  BY <1>7 DEF TypeOK, Keep, Add
<1>8. ASSUME NEW b \in Bits, Grant(b) PROVE Rest'
  BY <1>8 DEF TypeOK, Grant, Add, Removed
<1>9. ASSUME NEW b \in Bits, GrantFails(b) PROVE Rest'
  BY <1>9, Zenon DEF TypeOK, GrantFails, Fails
<1>10. ASSUME StartVerify PROVE Rest'
  BY <1>10, Zenon DEF TypeOK, StartVerify
<1>11. ASSUME Succeed PROVE Rest'
  BY <1>11, Zenon DEF TypeOK, Succeed, Return
<1>12. ASSUME FailVerify PROVE Rest'
  BY <1>12, Zenon DEF TypeOK, FailVerify, Fails, Return
<1>13. ASSUME NEW i \in 1 .. MaxDirs, ForgetDir(i) PROVE Rest'
  BY <1>13, Zenon DEF TypeOK, ForgetDir
<1>14. ASSUME NEW b \in Bits, RuntimeAllow(b) PROVE Rest'
  BY <1>14 DEF TypeOK, RuntimeAllow, OutsideWrite, Claimed
<1>15. ASSUME NEW b \in Bits, RuntimeDeny(b) PROVE Rest'
  BY <1>15, Zenon DEF TypeOK, RuntimeDeny, OutsideWrite
<1>16. ASSUME NEW w \in SUBSET Bits, RuntimeWild(w) PROVE Rest'
  BY <1>16, Zenon DEF TypeOK, RuntimeWild, OutsideWrite
<1>17. ASSUME Reload PROVE Rest'
  BY <1>17, Zenon DEF TypeOK, Reload, OutsideWrite
<1>18. ASSUME NEW e \in SUBSET Bits, NEW w \in SUBSET Bits, Recreate(e, w) PROVE Rest'
  BY <1>18 DEF TypeOK, Recreate
<1>19. ASSUME Restart PROVE Rest'
  BY <1>19, Zenon DEF TypeOK, Restart, Return
<1> HIDE DEF Rest
<1>q. QED
  BY <1>1, <1>2, <1>3, <1>4, <1>5, <1>6, <1>7, <1>8, <1>9, <1>10, <1>11, <1>12, <1>13, <1>14, <1>15, <1>16, <1>17, <1>18, <1>19, Zenon DEF Next

LEMMA Inductive == Spec => []IInv
<1>1. IInv /\ UNCHANGED vars => IInv'
  BY DEF IInv, TypeOK, RuntimeKept, OwnedRecorded, LedgerOK, CallOK
<1>2. IInv /\ [Next]_vars => IInv'
  BY <1>1, StepType, StepRest, Zenon DEF IInv
<1>q. QED
  BY InitIInv, <1>2, PTL DEF Spec

-----------------------------------------------------------------------------
\* No call ever denies a bit the runtime allowed for itself (v1set.rs: only bits
\* outside the baseline become owned, and only owned bits are denied).
THEOREM RuntimesBitsKept == Spec => []RuntimeKept
  BY Inductive, PTL DEF IInv

\* The ledger never claims less than what the daemon has in force, whichever
\* writes failed (v1set.rs updates it after every successful write).
THEOREM GrantsOwned == Spec => []OwnedRecorded
  BY Inductive, PTL DEF IInv

\* Every step of a call is one a device controller may take.
LEMMA StepControl == IInv /\ TypeOK' /\ [Next]_vars => [Control!Next]_Control!cvars
<1> SUFFICES ASSUME IInv, TypeOK', [Next]_vars PROVE [Control!Next]_Control!cvars
  OBVIOUS
<1> USE BoundsAssumption DEF IInv, LedgerOK, CallOK, Control!cvars
<1>1. ASSUME NEW rules \in SUBSET Bits, Begin(rules) PROVE Control!Begin
  BY <1>1, Zenon DEF TypeOK, Control!Begin, Begin, StartCall, Covered, WithoutOwned, ToOwn
<1>2. ASSUME BeginFails PROVE Control!Fail
  BY <1>2, Zenon DEF TypeOK, Control!Fail, BeginFails, StartCall, Return
<1>3. ASSUME NEW b \in Bits, Forget(b) PROVE Control!Narrow \/ UNCHANGED Control!cvars
  BY <1>3 DEF TypeOK, Control!Narrow, Forget, Remove, Removed
<1>4. ASSUME NEW b \in Bits, Revoke(b) PROVE Control!Narrow
  BY <1>4 DEF TypeOK, Control!Narrow, Revoke, Remove, Removed
<1>5. ASSUME NEW b \in Bits, RevokeFails(b) PROVE Control!Fail
  BY <1>5, Zenon DEF TypeOK, Control!Fail, RevokeFails, Fails, Return
<1>6. ASSUME StartGrants PROVE UNCHANGED Control!cvars
  BY <1>6, Zenon DEF TypeOK, StartGrants
<1>7. ASSUME NEW b \in Bits, Keep(b) PROVE UNCHANGED Control!cvars
  BY <1>7 DEF TypeOK, Keep, Add
<1>8. ASSUME NEW b \in Bits, Grant(b) PROVE Control!Widen
  BY <1>8 DEF TypeOK, Control!Widen, Grant, Add, Removed
<1>9. ASSUME NEW b \in Bits, GrantFails(b) PROVE UNCHANGED Control!cvars
  BY <1>9, Zenon DEF TypeOK, GrantFails, Fails
<1>10. ASSUME StartVerify PROVE UNCHANGED Control!cvars
  BY <1>10, Zenon DEF TypeOK, StartVerify
<1>11. ASSUME Succeed PROVE Control!Succeed
  BY <1>11, Zenon DEF TypeOK, Control!Succeed, Verified, Covered, Removed, Succeed, Return
<1>12. ASSUME FailVerify PROVE Control!Fail
  BY <1>12, Zenon DEF TypeOK, Control!Fail, FailVerify, Fails, Return
<1>13. ASSUME NEW i \in 1 .. MaxDirs, ForgetDir(i) PROVE UNCHANGED Control!cvars
  BY <1>13, Zenon DEF TypeOK, ForgetDir
<1>14. ASSUME NEW b \in Bits, RuntimeAllow(b) PROVE Control!Outside
  BY <1>14 DEF TypeOK, Control!Outside, RuntimeAllow, OutsideWrite, Claimed
<1>15. ASSUME NEW b \in Bits, RuntimeDeny(b) PROVE Control!Outside
  BY <1>15 DEF TypeOK, Control!Outside, RuntimeDeny, OutsideWrite
<1>16. ASSUME NEW w \in SUBSET Bits, RuntimeWild(w) PROVE Control!Outside
  BY <1>16 DEF TypeOK, Control!Outside, RuntimeWild, OutsideWrite
<1>17. ASSUME Reload PROVE Control!Outside
  BY <1>17 DEF TypeOK, Control!Outside, Reload, OutsideWrite
<1>18. ASSUME NEW e \in SUBSET Bits, NEW w \in SUBSET Bits, Recreate(e, w) PROVE Control!Outside
  BY <1>18 DEF TypeOK, Control!Outside, Recreate
<1>19. ASSUME Restart PROVE Control!Outside
  BY <1>19 DEF TypeOK, Control!Outside, Restart, Return
<1>20. CASE UNCHANGED vars
  BY <1>20, Zenon
<1>q. QED
  BY <1>1, <1>2, <1>3, <1>4, <1>5, <1>6, <1>7, <1>8, <1>9, <1>10, <1>11, <1>12, <1>13, <1>14, <1>15, <1>16, <1>17, <1>18, <1>19, <1>20, Zenon DEF Next, Control!Next

\* cgroup v1 keeps the promise of a device controller.
THEOREM ControlsDevices == Spec => Controls
<1>1. Init => Control!Init
  BY BoundsAssumption DEF Init, Control!Init
<1>2. IInv => TypeOK
  BY Zenon DEF IInv
<1>q. QED
  BY <1>1, <1>2, StepControl, Inductive, PTL DEF Spec, Controls, Control!Spec

=============================================================================
