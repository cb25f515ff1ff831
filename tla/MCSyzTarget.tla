---------------------------- MODULE MCSyzTarget ----------------------------
(***************************************************************************)
(* A small instance of SyzTarget.  TotalsSoFar bounds what a dispatch may  *)
(* return: the totals of MaxOps dispatches of the trace.                   *)
(***************************************************************************)
EXTENDS SyzTarget

TwoTids == 0 .. 1
OneOp == {"trace"}
Always == [o \in OneOp |-> 1]
TotalsSoFar == [op_count: 0 .. 2 * ProgLength, succ_count: 0 .. 2 * ProgLength]
=============================================================================
