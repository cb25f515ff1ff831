----------------------------- MODULE MCHarness -----------------------------
(***************************************************************************)
(* Small instances of Harness.                                             *)
(***************************************************************************)
EXTENDS Harness

TwoTids == 0 .. 1
OneSucceeds == {[op_count |-> 1, succ_count |-> 1]}
TwoOps == {"read", "write"}
TwoToOne == [o \in TwoOps |-> IF o = "read" THEN 2 ELSE 1]
=============================================================================
