----------------------------- MODULE MCCgroupV2 -----------------------------
(***************************************************************************)
(* Values for the constants of CgroupV2: two devices, an original that      *)
(* allows one of them and one that allows none, and four runtimes (one      *)
(* filter; two different filters, as runc and systemd attach, in either     *)
(* order; two identical ones).                                              *)
(***************************************************************************)
EXTENDS CgroupV2

CONSTANTS a, b, open, closed

MCDevices == {a, b}
MCOriginals == {open, closed}
MCAllows == [o \in MCOriginals |-> IF o = open THEN {b} ELSE {}]
MCRuntimeFilters ==
    {<<closed>>, <<open, closed>>, <<closed, open>>, <<closed, closed>>}
MCTwoFilters == {<<open, closed>>}

=============================================================================
