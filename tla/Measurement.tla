---------------------------- MODULE Measurement ----------------------------
(***************************************************************************)
(* A measurement session as a user of the benchmark sees it.  Workers get  *)
(* ready; once all of them are, each executes operations until it retires; *)
(* when all have retired, one report states the number of operations that  *)
(* were executed.                                                          *)
(***************************************************************************)
EXTENDS Integers, Functions

CONSTANT Workers

VARIABLES
  ready,      \* workers that take part
  retired,    \* workers that have stopped
  tally,      \* operations executed by each worker
  report      \* the number reported, -1 before the report

vars == <<ready, retired, tally, report>>

Init ==
  /\ ready = {}
  /\ retired = {}
  /\ tally = [w \in Workers |-> 0]
  /\ report = -1

GetReady(w) ==
  /\ w \notin ready
  /\ ready' = ready \cup {w}
  /\ UNCHANGED <<retired, tally, report>>

Execute(w) ==
  /\ ready = Workers /\ w \notin retired
  /\ tally' = [tally EXCEPT ![w] = @ + 1]
  /\ UNCHANGED <<ready, retired, report>>

Retire(w) ==
  /\ ready = Workers /\ w \notin retired
  /\ retired' = retired \cup {w}
  /\ UNCHANGED <<ready, tally, report>>

Report ==
  /\ retired = Workers /\ report = -1
  /\ report' = SumFunction(tally)
  /\ UNCHANGED <<ready, retired, tally>>

Next ==
  \/ \E w \in Workers : GetReady(w) \/ Execute(w) \/ Retire(w)
  \/ Report

Spec == Init /\ [][Next]_vars
=============================================================================
