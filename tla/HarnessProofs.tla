--------------------------- MODULE HarnessProofs ---------------------------
(***************************************************************************)
(* Proofs about Harness, for any number of threads, any target and any     *)
(* distribution.                                                           *)
(***************************************************************************)
EXTENDS Harness, SumTheorems, TLAPS

USE HarnessAssumption, StatsAssumption

-----------------------------------------------------------------------------
(* Lemmas about the barriers and the statistics records. *)

\* A barrier initialised to num_threads + 1 only opens when every worker and
\* the main thread have called wait on it.
LEMMA OpenMeansAllArrived ==
  ASSUME NEW arrived \in SUBSET Parties, Open(arrived)
  PROVE  arrived = Parties
<1>1. IsFiniteSet(Parties) /\ Cardinality(Parties) = NumThreads + 1
  BY FS_Interval DEF Parties
<1>2. Cardinality(arrived) = Cardinality(Parties)
  BY <1>1 DEF Open, BarrierCount
<1>. QED
  BY <1>1, <1>2, FS_Subset

\* The main thread is not a worker.
LEMMA PartiesSplit ==
  /\ Main \notin Tids
  /\ Parties = Tids \cup {Main}
BY DEF Main, Parties

\* A position modulo the bound is a slot of g_ops.
LEMMA SlotType == \A n \in Nat : n % DISTRIBUTION_BOUND \in Slots
BY DEF Slots

LEMMA StartPositionType == \A t \in Tids : StartPosition(t) \in Nat
BY DEF StartPosition

\* The record of an operation that never ran is a record.
LEMMA EmptyOpStatType ==
  EmptyOpStat \in OpStat /\ EmptyOpStat.max = 0
BY DEF EmptyOpStat, OpStat, Buckets

\* Adding a sample to a record gives a record whose maximum is the larger one
\* of the old maximum and the sample.
LEMMA AddSampleType ==
  ASSUME NEW stat \in OpStat, NEW res \in OpResult, NEW duration \in Nat
  PROVE  /\ AddSample(stat, res, duration) \in OpStat
         /\ AddSample(stat, res, duration).max = VMAX(stat.max, duration)
<1>1. \A b \in Buckets : stat.histogram_data[b] \in Nat
  BY DEF OpStat
<1>2. VMAX(stat.max, duration) \in Nat /\ VMIN(stat.min, duration) \in Nat
  BY DEF OpStat, VMAX, VMIN
<1>. QED
  BY <1>1, <1>2, SMTT(30) DEF AddSample, OpStat, OpResult

-----------------------------------------------------------------------------
(* The initial states. *)

LEMMA InitIInv == Init => IInv
<1> SUFFICES ASSUME Init PROVE IInv
  OBVIOUS
<1>1. TypeOK
  <2>1. \A t \in Tids : StartPosition(t) \in Nat
    BY DEF StartPosition
  <2>2. pos \in [Tids -> Nat]
    BY <2>1 DEF Init
  <2>3. result \in [Tids -> OpResult]
    BY DEF Init, OpResult
  <2>4. /\ g_ops \in {<<>>} \cup [Slots -> Ops]
        /\ g_stats \in Statistics
    BY DEF Init, Statistics
  <2>5. /\ window \in [maxStart: Nat, minStart: Nat, minStop: Nat, maxStop: Nat]
        /\ spent \in [min: Int, max: Int]
    BY DEF Init
  <2>6. /\ pc \in [Tids -> Labels]
        /\ opStart \in [Tids -> Nat] /\ opEnd \in [Tids -> Nat]
        /\ phase \in Phases /\ next \in 0 .. NumThreads
    BY DEF Init, Labels, Phases
  <2>. QED
    BY <2>2, <2>3, <2>4, <2>5, <2>6 DEF Init, TypeOK, Parties
<1>2. LifecycleInv
  BY DEF Init, LifecycleInv
<1>3. BarrierInv
  BY DEF Init, BarrierInv, Measuring, AtStop, Concluding
<1>4. ControlInv
  BY DEF Init, ControlInv, NobodyStartsEarly, ReportAfterAllWorkers, Measuring,
         AtStop, Concluding, Looping
<1>5. WindowInv
  BY DEF Init, WindowInv, WindowNested, BeforeStart, Concluding
<1>6. OpTimeInv
  BY DEF Init, OpTimeInv, LatencyFitsWindow, BeforeStart, Measuring, Concluding
<1>. QED
  BY <1>1, <1>2, <1>3, <1>4, <1>5, <1>6 DEF IInv

-----------------------------------------------------------------------------
(* Preservation, one lemma per part of the invariant. *)

LEMMA LifecycleStep == IInv /\ [Next]_vars => LifecycleInv'
<1> SUFFICES ASSUME IInv, [Next]_vars PROVE LifecycleInv'
  OBVIOUS
<1> USE DEF IInv, LifecycleInv, Goto
<1>1. CASE bm_phase_warmup
  BY <1>1, EmptyOpStatType DEF bm_phase_warmup, Fillings, bm_stat_init
<1>2. CASE CreateWorker \/ CreationDone \/ RecordMaxStart \/ MainLeaveStart
  BY <1>2 DEF CreateWorker, CreationDone, RecordMaxStart, MainLeaveStart, sharedVars
<1>3. CASE RecordMinStart \/ SignalStop \/ RecordMinStop \/ MainLeaveStop
  BY <1>3 DEF RecordMinStart, SignalStop, RecordMinStop, MainLeaveStop, sharedVars
<1>4. CASE RecordMaxStop \/ JoinWorker \/ AddSpentTime
  BY <1>4 DEF RecordMaxStop, JoinWorker, AddSpentTime, sharedVars
<1>5. CASE DestroyTarget \/ PrintStats \/ bm_phase_cooldown
  BY <1>5 DEF DestroyTarget, PrintStats, bm_phase_cooldown, sharedVars
<1>6. ASSUME NEW t \in Tids, RecordOp(t) PROVE LifecycleInv'
  <2>1. phase \notin {"warmup", "exit"}
    BY <1>6 DEF RecordOp, Move, ControlInv, ReportAfterAllWorkers, Concluding
  <2>2. g_ops \in [Slots -> Ops] /\ g_stats \in [Tids -> [Ops -> OpStat]]
    BY <2>1
  <2>3. CurrentOp(t) \in Ops
    BY <2>2, SlotType DEF CurrentOp, TypeOK
  <2>4. opEnd[t] - opStart[t] \in Nat /\ result[t] \in OpResult
    <3>1. pc[t] = "record"
      BY <1>6 DEF RecordOp, Move
    <3>2. opStart[t] <= opEnd[t]
      BY <3>1 DEF OpTimeInv
    <3>3. opStart[t] \in Nat /\ opEnd[t] \in Nat /\ result[t] \in OpResult
      BY DEF TypeOK
    <3>. QED
      BY <3>2, <3>3
  <2>5. AddSample(g_stats[t][CurrentOp(t)], result[t], opEnd[t] - opStart[t]) \in OpStat
    BY <2>2, <2>3, <2>4, AddSampleType
  <2>6. g_stats' \in [Tids -> [Ops -> OpStat]]
    BY <1>6, <2>2, <2>3, <2>5 DEF RecordOp, bm_stat_add_op, OpTime
  <2>. QED
    BY <1>6, <2>1, <2>2, <2>6 DEF RecordOp, mainVars
<1>7. ASSUME NEW t \in Tids, WorkerStep(t), ~RecordOp(t) PROVE LifecycleInv'
  BY <1>7 DEF WorkerStep, Register, LeaveStart, SeeNoStop, SeeStop, BeginOp, EndOp,
              LeaveStop, Deregister, mainVars, sharedVars
<1>8. CASE Tick \/ UNCHANGED vars
  BY <1>8 DEF Tick, vars, mainVars, sharedVars
<1>. QED
  BY <1>1, <1>2, <1>3, <1>4, <1>5, <1>6, <1>7, <1>8 DEF Next, MainStep, Exited

LEMMA TypeStep == IInv /\ [Next]_vars => TypeOK'
<1> SUFFICES ASSUME IInv, [Next]_vars PROVE TypeOK'
  OBVIOUS
<1> USE DEF IInv, TypeOK, Goto
<1>1. g_stats' \in Statistics
  <2>1. LifecycleInv'
    BY LifecycleStep
  <2>2. CASE phase' \notin {"warmup", "exit"}
    BY <2>1, <2>2 DEF LifecycleInv, Statistics
  <2>3. CASE phase' = "exit"
    BY <2>3 DEF Next, MainStep, bm_phase_warmup, CreateWorker, CreationDone,
        RecordMaxStart, MainLeaveStart, RecordMinStart, SignalStop, RecordMinStop,
        MainLeaveStop, RecordMaxStop, JoinWorker, AddSpentTime, DestroyTarget,
        PrintStats, bm_phase_cooldown, Tick, Exited, vars, mainVars, sharedVars,
        WorkerStep, Register, LeaveStart, SeeNoStop, SeeStop, BeginOp, EndOp,
        RecordOp, LeaveStop, Deregister, Statistics, ControlInv,
        ReportAfterAllWorkers, Concluding, Move
  <2>4. CASE phase' = "warmup"
    BY <2>4 DEF Next, MainStep, bm_phase_warmup, CreateWorker, CreationDone,
        RecordMaxStart, MainLeaveStart, RecordMinStart, SignalStop, RecordMinStop,
        MainLeaveStop, RecordMaxStop, JoinWorker, AddSpentTime, DestroyTarget,
        PrintStats, bm_phase_cooldown, Tick, Exited, vars, mainVars, sharedVars,
        WorkerStep, Register, LeaveStart, SeeNoStop, SeeStop, BeginOp, EndOp,
        RecordOp, LeaveStop, Deregister, Statistics, ControlInv, Move
  <2>. QED
    BY <2>2, <2>3, <2>4
<1>2. CASE bm_phase_warmup
  BY <1>1, <1>2 DEF bm_phase_warmup, Fillings, workerVars, Phases
<1>3. CASE CreateWorker
  <2>1. next' \in 0 .. NumThreads
    BY <1>3 DEF CreateWorker
  <2>2. pc' \in [Tids -> Labels]
    BY <1>3 DEF CreateWorker, Labels
  <2>. QED
    BY <1>1, <1>3, <2>1, <2>2 DEF CreateWorker, sharedVars
<1>4. CASE CreationDone
  BY <1>1, <1>4 DEF CreationDone, sharedVars, workerVars, Phases
<1>5. CASE RecordMaxStart
  <2>1. window' \in [maxStart: Nat, minStart: Nat, minStop: Nat, maxStop: Nat]
    BY <1>5 DEF RecordMaxStart
  <2>2. startArrived' \subseteq Parties
    BY <1>5 DEF RecordMaxStart, Main, Parties
  <2>. QED
    BY <1>1, <1>5, <2>1, <2>2 DEF RecordMaxStart, sharedVars, workerVars, Phases
<1>6. CASE MainLeaveStart
  BY <1>1, <1>6 DEF MainLeaveStart, sharedVars, workerVars, Phases
<1>7. CASE RecordMinStart
  BY <1>1, <1>7 DEF RecordMinStart, sharedVars, workerVars, Phases
<1>8. CASE SignalStop
  BY <1>1, <1>8 DEF SignalStop, sharedVars, workerVars, Phases
<1>9. CASE RecordMinStop
  <2>1. window' \in [maxStart: Nat, minStart: Nat, minStop: Nat, maxStop: Nat]
    BY <1>9 DEF RecordMinStop
  <2>2. stopArrived' \subseteq Parties
    BY <1>9 DEF RecordMinStop, Main, Parties
  <2>. QED
    BY <1>1, <1>9, <2>1, <2>2 DEF RecordMinStop, sharedVars, workerVars, Phases
<1>10. CASE MainLeaveStop
  BY <1>1, <1>10 DEF MainLeaveStop, sharedVars, workerVars, Phases
<1>11. CASE RecordMaxStop
  <2>1. window' \in [maxStart: Nat, minStart: Nat, minStop: Nat, maxStop: Nat]
    BY <1>11 DEF RecordMaxStop
  <2>2. next' \in 0 .. NumThreads
    BY <1>11 DEF RecordMaxStop
  <2>. QED
    BY <1>1, <1>11, <2>1, <2>2 DEF RecordMaxStop, sharedVars, workerVars, Phases
<1>12. CASE JoinWorker
  BY <1>1, <1>12, SMTT(30) DEF JoinWorker, Joined, sharedVars, workerVars, Phases
<1>13. CASE AddSpentTime
  <2>1. spent' \in [min: Int, max: Int]
    BY <1>13 DEF AddSpentTime, AllJoined, SpentTime
  <2>. QED
    BY <1>1, <1>13, <2>1 DEF AddSpentTime, AllJoined, SpentTime, workerVars, Phases
<1>14. CASE DestroyTarget
  BY <1>1, <1>14 DEF DestroyTarget, sharedVars, workerVars, Phases
<1>15. CASE PrintStats
  BY <1>1, <1>15 DEF PrintStats, sharedVars, workerVars, Phases
<1>16. CASE bm_phase_cooldown
  BY <1>1, <1>16 DEF bm_phase_cooldown, sharedVars, workerVars, Phases
<1>17. ASSUME NEW t \in Tids, WorkerStep(t) PROVE TypeOK'
  <2>1. CASE Register(t)
    <3>1. startArrived' \subseteq Parties
      BY <2>1, SMTT(30) DEF Register, Parties
    <3>2. pc' \in [Tids -> Labels]
      BY <2>1 DEF Register, Move, Labels
    <3>. QED
      BY <1>1, <2>1, <3>1, <3>2 DEF Register, mainVars, sharedVars
  <2>2. CASE LeaveStart(t)
    BY <1>1, <2>2 DEF LeaveStart, Move, mainVars, sharedVars, Labels
  <2>3. CASE SeeNoStop(t)
    BY <1>1, <2>3 DEF SeeNoStop, Move, mainVars, sharedVars, Labels
  <2>4. CASE SeeStop(t)
    <3>1. stopArrived' \subseteq Parties
      BY <2>4, SMTT(30) DEF SeeStop, Parties
    <3>2. pc' \in [Tids -> Labels]
      BY <2>4 DEF SeeStop, Move, Labels
    <3>. QED
      BY <1>1, <2>4, <3>1, <3>2 DEF SeeStop, mainVars, sharedVars
  <2>5. CASE BeginOp(t)
    BY <1>1, <2>5 DEF BeginOp, Move, mainVars, sharedVars, Labels
  <2>6. CASE EndOp(t)
    BY <1>1, <2>6 DEF EndOp, Move, mainVars, sharedVars, Labels
  <2>7. CASE RecordOp(t)
    <3>1. pos' \in [Tids -> Nat]
      <4>1. pos' = [pos EXCEPT ![t] = pos[t] + 1]
        BY <2>7 DEF RecordOp
      <4>2. pos \in [Tids -> Nat]
        OBVIOUS
      <4>3. pos[t] \in Nat
        BY <4>2
      <4>4. pos[t] + 1 \in Nat
        BY <4>3, SMTT(30)
      <4>. QED
        BY <4>1, <4>2, <4>4
    <3>2. pc' \in [Tids -> Labels]
      BY <2>7 DEF RecordOp, Move, Labels
    <3>. QED
      BY <1>1, <2>7, <3>1, <3>2 DEF RecordOp, mainVars
  <2>8. CASE LeaveStop(t)
    BY <1>1, <2>8 DEF LeaveStop, Move, mainVars, sharedVars, Labels
  <2>9. CASE Deregister(t)
    BY <1>1, <2>9 DEF Deregister, Move, mainVars, sharedVars, Labels
  <2>. QED
    BY <1>17, <2>1, <2>2, <2>3, <2>4, <2>5, <2>6, <2>7, <2>8, <2>9 DEF WorkerStep
<1>18. CASE Tick
  <2>1. clock' \in Nat
    BY <1>18 DEF Tick
  <2>. QED
    BY <1>1, <1>18, <2>1 DEF Tick, mainVars, workerVars, sharedVars
<1>19. CASE UNCHANGED vars
  BY <1>1, <1>19 DEF vars, mainVars, workerVars, sharedVars
<1>. QED
  BY <1>2, <1>3, <1>4, <1>5, <1>6, <1>7, <1>8, <1>9, <1>10, <1>11, <1>12, <1>13, <1>14, <1>15, <1>16, <1>17, <1>18, <1>19
  DEF Next, MainStep, Exited

LEMMA BarrierStep == IInv /\ [Next]_vars => BarrierInv'
<1>1. SUFFICES ASSUME IInv, [Next]_vars PROVE BarrierInv'
  OBVIOUS
<1>2. BarrierInv
  BY <1>1 DEF IInv
<1>3. pc \in [Tids -> Labels]
  BY <1>1 DEF IInv, TypeOK
<1> USE DEF Goto, Measuring, Concluding
<1>4. ASSUME UNCHANGED <<pc, startArrived, stopArrived>>,
             phase' \notin Concluding => phase \notin Concluding,
             phase \in Measuring <=> phase' \in Measuring,
             phase \in {"stopwait", "stopped", "join"} <=>
               phase' \in {"stopwait", "stopped", "join"}
      PROVE  BarrierInv'
  BY <1>2, <1>4 DEF BarrierInv
<1>5. ASSUME UNCHANGED <<phase, startArrived, stopArrived>>,
             \A t \in Tids : pc'[t] \notin {"none", "reg"} <=> pc[t] \notin {"none", "reg"},
             \A t \in Tids : pc'[t] \in AtStop <=> pc[t] \in AtStop
      PROVE  BarrierInv'
  BY <1>2, <1>5 DEF BarrierInv
<1>6. CASE bm_phase_warmup \/ CreationDone \/ MainLeaveStart \/ RecordMinStart
  BY <1>4, <1>6 DEF bm_phase_warmup, CreationDone, MainLeaveStart, RecordMinStart,
        workerVars, sharedVars
<1>7. CASE SignalStop \/ MainLeaveStop \/ RecordMaxStop \/ JoinWorker
  BY <1>4, <1>7 DEF SignalStop, MainLeaveStop, RecordMaxStop, JoinWorker,
        workerVars, sharedVars
<1>8. CASE Tick \/ UNCHANGED vars
  BY <1>4, <1>8 DEF Tick, vars, mainVars, workerVars, sharedVars
<1>9. CASE CreateWorker
  <2>1. next \in Tids /\ pc[next] = "none"
    BY <1>1, <1>9 DEF CreateWorker, IInv, TypeOK, ControlInv
  <2>2. \A t \in Tids :
           pc'[t] = pc[t] \/ (pc[t] = "none" /\ pc'[t] = "reg")
    BY <1>3, <1>9, <2>1 DEF CreateWorker
  <2>. QED
    BY <1>5, <1>9, <2>2 DEF CreateWorker, sharedVars, AtStop
<1>10. CASE RecordMaxStart
  BY <1>2, <1>10 DEF RecordMaxStart, workerVars, BarrierInv
<1>11. CASE RecordMinStop
  BY <1>2, <1>11 DEF RecordMinStop, workerVars, BarrierInv
<1>12. CASE AddSpentTime \/ DestroyTarget \/ PrintStats \/ bm_phase_cooldown
  BY <1>12 DEF AddSpentTime, AllJoined, SpentTime, DestroyTarget, PrintStats, bm_phase_cooldown, BarrierInv
<1>13. ASSUME NEW t \in Tids, WorkerStep(t) PROVE BarrierInv'
  <2>1. CASE Register(t)
    BY <1>2, <1>3, <2>1 DEF Register, Move, mainVars, BarrierInv, AtStop
  <2>2. CASE SeeStop(t)
    BY <1>2, <1>3, <2>2 DEF SeeStop, Move, mainVars, BarrierInv, AtStop
  <2>3. CASE LeaveStart(t) \/ SeeNoStop(t) \/ BeginOp(t) \/ EndOp(t)
    BY <1>3, <1>5, <2>3 DEF LeaveStart, SeeNoStop, BeginOp, EndOp, Move, mainVars,
          sharedVars, AtStop
  <2>4. CASE RecordOp(t)
    BY <1>3, <1>5, <2>4 DEF RecordOp, Move, mainVars, AtStop
  <2>5. CASE LeaveStop(t) \/ Deregister(t)
    BY <1>3, <1>5, <2>5 DEF LeaveStop, Deregister, Move, mainVars, sharedVars, AtStop
  <2>. QED
    BY <1>13, <2>1, <2>2, <2>3, <2>4, <2>5 DEF WorkerStep
<1>. QED
  BY <1>1, <1>6, <1>7, <1>8, <1>9, <1>10, <1>11, <1>12, <1>13
  DEF Next, MainStep, Exited

\* An open start barrier means that every worker is registered and the main
\* thread has taken its first reading.
LEMMA StartOpen ==
  IInv /\ phase \notin Concluding /\ Open(startArrived) =>
     phase \in Measuring /\ \A t \in Tids : pc[t] \notin {"none", "reg"}
<1>1. SUFFICES ASSUME IInv, phase \notin Concluding, Open(startArrived)
               PROVE  phase \in Measuring /\ \A t \in Tids : pc[t] \notin {"none", "reg"}
  OBVIOUS
<1>2. startArrived = Tids \cup {Main}
  BY <1>1, OpenMeansAllArrived, PartiesSplit DEF IInv, TypeOK
<1>3. startArrived = {t \in Tids : pc[t] \notin {"none", "reg"}}
                       \cup {p \in {Main} : phase \in Measuring}
  BY <1>1 DEF IInv, BarrierInv
<1>. QED
  BY <1>2, <1>3, PartiesSplit, Zenon

\* An open stop barrier means that every worker has left its loop and the main
\* thread has taken the third reading.
LEMMA StopOpen ==
  IInv /\ phase \notin Concluding /\ Open(stopArrived) =>
     phase \in {"stopwait", "stopped", "join"} /\ \A t \in Tids : pc[t] \in AtStop
<1>1. SUFFICES ASSUME IInv, phase \notin Concluding, Open(stopArrived)
               PROVE  /\ phase \in {"stopwait", "stopped", "join"}
                      /\ \A t \in Tids : pc[t] \in AtStop
  OBVIOUS
<1>2. stopArrived = Tids \cup {Main}
  BY <1>1, OpenMeansAllArrived, PartiesSplit DEF IInv, TypeOK
<1>3. stopArrived = {t \in Tids : pc[t] \in AtStop}
                      \cup {p \in {Main} : phase \in {"stopwait", "stopped", "join"}}
  BY <1>1 DEF IInv, BarrierInv
<1>. QED
  BY <1>2, <1>3, PartiesSplit, Zenon

LEMMA ControlStep == IInv /\ [Next]_vars => ControlInv'
<1>1. SUFFICES ASSUME IInv, [Next]_vars PROVE ControlInv'
  OBVIOUS
<1>2. ControlInv
  BY <1>1 DEF IInv
<1>3. /\ pc \in [Tids -> Labels]
      /\ next \in 0 .. NumThreads
  BY <1>1 DEF IInv, TypeOK
<1> USE DEF Goto, ControlInv, NobodyStartsEarly, ReportAfterAllWorkers, BeforeStart,
            Measuring, Concluding, Looping, AtStop
<1>4. CASE bm_phase_warmup
  BY <1>2, <1>4 DEF bm_phase_warmup, workerVars
<1>5. CASE CreateWorker
  <2>1. next \in Tids /\ pc[next] = "none"
    BY <1>2, <1>3, <1>5 DEF CreateWorker
  <2>2. \A t \in Tids :
           pc'[t] = pc[t] \/ (t = next /\ pc[t] = "none" /\ pc'[t] = "reg")
    BY <1>3, <1>5, <2>1 DEF CreateWorker
  <2>3. \A t \in Tids : t >= next' => pc'[t] = "none"
    BY <1>2, <1>3, <1>5, <2>1, <2>2 DEF CreateWorker
  <2>4. phase = "create" /\ phase' = "create"
    BY <1>5 DEF CreateWorker
  <2>. QED
    BY <1>2, <2>2, <2>3, <2>4
<1>6. CASE CreationDone \/ RecordMaxStart
  BY <1>2, <1>6 DEF CreationDone, RecordMaxStart, workerVars
<1>7. CASE MainLeaveStart
  <2>1. \A t \in Tids : pc[t] \notin {"none", "reg"}
    BY <1>1, <1>7, StartOpen DEF MainLeaveStart
  <2>. QED
    BY <1>2, <1>7, <2>1 DEF MainLeaveStart, workerVars
<1>8. CASE RecordMinStart \/ SignalStop \/ RecordMinStop
  BY <1>2, <1>8 DEF RecordMinStart, SignalStop, RecordMinStop, workerVars
<1>9. CASE MainLeaveStop
  <2>1. \A t \in Tids : pc[t] \in AtStop
    BY <1>1, <1>9, StopOpen DEF MainLeaveStop
  <2>. QED
    BY <1>2, <1>9, <2>1 DEF MainLeaveStop, workerVars
<1>10. CASE RecordMaxStop
  BY <1>2, <1>3, <1>10 DEF RecordMaxStop, workerVars
<1>11. CASE JoinWorker
  <2>1. next \in Tids /\ pc[next] = "done" /\ pc' = pc /\ next' = next + 1
    BY <1>3, <1>11 DEF JoinWorker, Joined, workerVars
  <2>2. \A t \in Tids : t < next' => pc'[t] = "done"
    BY <1>2, <1>3, <1>11, <2>1 DEF JoinWorker, Joined
  <2>. QED
    BY <1>2, <1>11, <2>1, <2>2 DEF JoinWorker, Joined
<1>12. CASE AddSpentTime
  <2>1. \A t \in Tids : pc[t] = "done"
    BY <1>2, <1>3, <1>12 DEF AddSpentTime, AllJoined, SpentTime
  <2>. QED
    BY <1>2, <1>12, <2>1 DEF AddSpentTime, AllJoined, SpentTime, workerVars
<1>13. CASE DestroyTarget \/ PrintStats \/ bm_phase_cooldown
  BY <1>2, <1>13 DEF DestroyTarget, PrintStats, bm_phase_cooldown, workerVars
<1>14. ASSUME NEW t \in Tids, WorkerStep(t) PROVE ControlInv'
  <2>1. CASE Register(t)
    BY <1>2, <1>3, <2>1 DEF Register, Move, mainVars
  <2>2. CASE LeaveStart(t)
    <3>1. phase \in Measuring /\ \A u \in Tids : pc[u] \notin {"none", "reg"}
      BY <1>1, <1>2, <2>2, StartOpen DEF LeaveStart, Move
    <3>. QED
      BY <1>2, <1>3, <2>2, <3>1 DEF LeaveStart, Move, mainVars
  <2>3. CASE SeeNoStop(t) \/ BeginOp(t)
    BY <1>2, <1>3, <2>3 DEF SeeNoStop, BeginOp, Move, mainVars
  <2>4. CASE EndOp(t) \/ RecordOp(t)
    BY <1>2, <1>3, <2>4 DEF EndOp, RecordOp, Move, mainVars
  <2>5. CASE SeeStop(t)
    BY <1>2, <1>3, <2>5 DEF SeeStop, Move, mainVars
  <2>6. CASE LeaveStop(t)
    <3>1. /\ phase \in {"stopwait", "stopped", "join"}
          /\ \A u \in Tids : pc[u] \in AtStop
      BY <1>1, <1>2, <2>6, StopOpen DEF LeaveStop, Move
    <3>. QED
      BY <1>2, <1>3, <2>6, <3>1 DEF LeaveStop, Move, mainVars
  <2>7. CASE Deregister(t)
    BY <1>2, <1>3, <2>7 DEF Deregister, Move, mainVars
  <2>. QED
    BY <1>14, <2>1, <2>2, <2>3, <2>4, <2>5, <2>6, <2>7 DEF WorkerStep
<1>15. CASE Tick \/ UNCHANGED vars
  BY <1>2, <1>15 DEF Tick, vars, mainVars, workerVars
<1>. QED
  BY <1>1, <1>4, <1>5, <1>6, <1>7, <1>8, <1>9, <1>10, <1>11, <1>12, <1>13, <1>14, <1>15
  DEF Next, MainStep, Exited

LEMMA WindowStep == IInv /\ [Next]_vars => WindowInv'
<1>1. SUFFICES ASSUME IInv, [Next]_vars PROVE WindowInv'
  OBVIOUS
<1>2. WindowInv
  BY <1>1 DEF IInv
<1>3. /\ clock \in Nat
      /\ window \in [maxStart: Nat, minStart: Nat, minStop: Nat, maxStop: Nat]
      /\ spent \in [min: Int, max: Int]
  BY <1>1 DEF IInv, TypeOK
<1> USE DEF Goto, WindowInv, WindowNested, BeforeStart, Concluding
<1>4. CASE bm_phase_warmup \/ CreateWorker \/ CreationDone
  BY <1>2, <1>3, <1>4 DEF bm_phase_warmup, CreateWorker, CreationDone, sharedVars
<1>5. CASE RecordMaxStart
  BY <1>2, <1>3, <1>5 DEF RecordMaxStart
<1>6. CASE MainLeaveStart
  BY <1>2, <1>3, <1>6 DEF MainLeaveStart, sharedVars
<1>7. CASE RecordMinStart
  BY <1>2, <1>3, <1>7 DEF RecordMinStart, sharedVars
<1>8. CASE SignalStop
  BY <1>2, <1>3, <1>8 DEF SignalStop
<1>9. CASE RecordMinStop
  BY <1>2, <1>3, <1>9 DEF RecordMinStop
<1>10. CASE MainLeaveStop
  BY <1>2, <1>3, <1>10 DEF MainLeaveStop, sharedVars
<1>11. CASE RecordMaxStop
  BY <1>2, <1>3, <1>11 DEF RecordMaxStop, sharedVars
<1>12. CASE JoinWorker
  BY <1>2, <1>3, <1>12 DEF JoinWorker, Joined, sharedVars
<1>13. CASE AddSpentTime
  BY <1>2, <1>3, <1>13 DEF AddSpentTime, AllJoined, SpentTime
<1>14. CASE DestroyTarget \/ PrintStats \/ bm_phase_cooldown
  BY <1>2, <1>3, <1>14 DEF DestroyTarget, PrintStats, bm_phase_cooldown, sharedVars
<1>15. ASSUME NEW t \in Tids, WorkerStep(t) PROVE WindowInv'
  <2>1. UNCHANGED <<phase, window, spent, clock>>
    BY <1>15 DEF WorkerStep, Register, LeaveStart, SeeNoStop, SeeStop, BeginOp, EndOp,
          RecordOp, LeaveStop, Deregister, mainVars, sharedVars
  <2>. QED
    BY <1>2, <2>1
<1>16. CASE Tick
  BY <1>2, <1>3, <1>16 DEF Tick, mainVars
<1>17. CASE UNCHANGED vars
  BY <1>2, <1>17 DEF vars, mainVars, sharedVars
<1>. QED
  BY <1>1, <1>4, <1>5, <1>6, <1>7, <1>8, <1>9, <1>10, <1>11, <1>12, <1>13, <1>14,
     <1>15, <1>16, <1>17
  DEF Next, MainStep, Exited

\* What the statistics of one thread and operation say of the longest latency.
LEMMA OpTimeStep == IInv /\ [Next]_vars => OpTimeInv'
<1>1. SUFFICES ASSUME IInv, [Next]_vars PROVE OpTimeInv'
  OBVIOUS
<1>2. OpTimeInv /\ WindowInv /\ ControlInv
  BY <1>1 DEF IInv
<1>3. /\ clock \in Nat
      /\ window \in [maxStart: Nat, minStart: Nat, minStop: Nat, maxStop: Nat]
      /\ opStart \in [Tids -> Nat] /\ opEnd \in [Tids -> Nat]
      /\ pc \in [Tids -> Labels]
  BY <1>1 DEF IInv, TypeOK
<1>4. phase \notin {"warmup", "exit"} =>
        \A t \in Tids, o \in Ops : g_stats[t][o].max \in Nat
  BY <1>1 DEF IInv, LifecycleInv, OpStat
<1>5. \A t \in Tids : pc[t] \in Looping => phase \in Measuring \ {"stopped", "join"}
  BY <1>1, <1>2 DEF IInv, TypeOK, ControlInv, NobodyStartsEarly, ReportAfterAllWorkers,
        Looping, Measuring, Concluding, AtStop, BeforeStart, Phases
<1> USE DEF Goto, OpTimeInv, LatencyFitsWindow, BeforeStart, Concluding, Measuring
<1>6. CASE bm_phase_warmup
  <2>1. \A t \in Tids : pc'[t] = "none"
    BY <1>2, <1>6 DEF ControlInv, bm_phase_warmup, workerVars
  <2>2. \A t \in Tids, o \in Ops : g_stats'[t][o].max = 0
    BY <1>6, EmptyOpStatType DEF bm_phase_warmup, bm_stat_init
  <2>. QED
    BY <1>6, <2>1, <2>2 DEF bm_phase_warmup
<1>7. CASE CreateWorker
  <2>1. \A t \in Tids : pc'[t] \in {"dispatch", "record"} => pc'[t] = pc[t]
    BY <1>3, <1>7 DEF CreateWorker
  <2>. QED
    BY <1>2, <1>7, <2>1 DEF CreateWorker, sharedVars
<1>8. CASE CreationDone
  BY <1>2, <1>8 DEF CreationDone, workerVars, sharedVars
<1>9. CASE RecordMaxStart
  <2>1. \A t \in Tids : pc'[t] \notin {"dispatch", "record"}
    BY <1>5, <1>9 DEF RecordMaxStart, workerVars, Looping
  <2>2. window'.maxStart = clock /\ clock' = clock /\ g_stats' = g_stats
    BY <1>3, <1>9 DEF RecordMaxStart
  <2>. QED
    BY <1>2, <1>3, <1>9, <2>1, <2>2, SMTT(30) DEF RecordMaxStart
<1>10. CASE MainLeaveStart \/ SignalStop \/ MainLeaveStop
  BY <1>2, <1>10 DEF MainLeaveStart, SignalStop, MainLeaveStop, workerVars, sharedVars
<1>11. CASE RecordMinStart
  <2>1. window'.maxStart = window.maxStart
    BY <1>3, <1>11 DEF RecordMinStart
  <2>. QED
    BY <1>2, <1>11, <2>1 DEF RecordMinStart, workerVars, sharedVars
<1>12. CASE RecordMinStop
  <2>1. window'.maxStart = window.maxStart
    BY <1>3, <1>12 DEF RecordMinStop
  <2>. QED
    BY <1>2, <1>12, <2>1 DEF RecordMinStop, workerVars
<1>13. CASE RecordMaxStop
  <2>1. window'.maxStart = window.maxStart /\ window'.maxStop = clock
    BY <1>3, <1>13 DEF RecordMaxStop
  <2>. QED
    BY <1>2, <1>13, <2>1 DEF RecordMaxStop, workerVars, sharedVars
<1>14. CASE JoinWorker
  BY <1>2, <1>14 DEF JoinWorker, Joined, workerVars, sharedVars
<1>15. CASE AddSpentTime
  BY <1>2, <1>15 DEF AddSpentTime, AllJoined, SpentTime, workerVars
<1>16. CASE DestroyTarget \/ PrintStats \/ bm_phase_cooldown
  BY <1>2, <1>16 DEF DestroyTarget, PrintStats, bm_phase_cooldown, workerVars, sharedVars
<1>17. ASSUME NEW t \in Tids, RecordOp(t) PROVE OpTimeInv'
  <2>1. phase \in Measuring \ {"stopped", "join"} /\ UNCHANGED <<phase, window, clock>>
    BY <1>5, <1>17 DEF RecordOp, Move, Looping, mainVars
  <2>2. g_ops \in [Slots -> Ops] /\ g_stats \in [Tids -> [Ops -> OpStat]]
    BY <1>1, <2>1 DEF IInv, LifecycleInv
  <2>3. CurrentOp(t) \in Ops
    BY <1>1, <2>2, SlotType DEF CurrentOp, IInv, TypeOK
  <2> DEFINE d == opEnd[t] - opStart[t]
             c == CurrentOp(t)
             s == AddSample(g_stats[t][c], result[t], d)
  <2>4. d \in Nat /\ d <= clock - window.maxStart
    BY <1>2, <1>3, <1>17 DEF RecordOp, Move
  <2>5. s.max = VMAX(g_stats[t][c].max, d)
    <3>1. result[t] \in OpResult
      BY <1>1 DEF IInv, TypeOK
    <3>. QED
      BY <2>2, <2>3, <2>4, <3>1, AddSampleType
  <2>6. g_stats' = [g_stats EXCEPT ![t] = [g_stats[t] EXCEPT ![c] = s]]
    BY <1>17 DEF RecordOp, bm_stat_add_op, OpTime
  <2> HIDE DEF d, c, s
  <2>7. ASSUME NEW u \in Tids, NEW o \in Ops
        PROVE  g_stats'[u][o].max <= clock - window.maxStart
    <3>1. g_stats[u][o].max \in Nat /\ g_stats[u][o].max <= clock - window.maxStart
      BY <1>2, <1>4, <2>1
    <3>2. CASE u = t /\ o = c
      <4>1. g_stats'[u][o] = s
        BY <2>2, <2>3, <2>6, <3>2 DEF c
      <4>. QED
        BY <1>3, <2>4, <2>5, <3>1, <3>2, <4>1 DEF VMAX
    <3>3. CASE ~(u = t /\ o = c)
      <4>1. g_stats'[u][o] = g_stats[u][o]
        BY <2>2, <2>3, <2>6, <3>3 DEF c
      <4>. QED
        BY <3>1, <4>1
    <3>. QED
      BY <3>2, <3>3
  <2>8. \A u \in Tids : pc'[u] \in {"dispatch", "record"} => pc'[u] = pc[u]
    BY <1>3, <1>17 DEF RecordOp, Move
  <2>9. UNCHANGED <<opStart, opEnd>>
    BY <1>17 DEF RecordOp
  <2>. QED
    BY <1>2, <2>1, <2>7, <2>8, <2>9
<1>18. ASSUME NEW t \in Tids, WorkerStep(t), ~RecordOp(t) PROVE OpTimeInv'
  <2>1. UNCHANGED <<phase, window, spent, clock, g_stats>>
    BY <1>18 DEF WorkerStep, Register, LeaveStart, SeeNoStop, SeeStop, BeginOp, EndOp,
          LeaveStop, Deregister, mainVars, sharedVars
  <2>2. CASE BeginOp(t)
    <3>1. window.maxStart <= clock
      BY <1>2, <1>5, <2>2 DEF BeginOp, Move, Looping, WindowInv
    <3>. QED
      BY <1>2, <1>3, <2>1, <2>2, <3>1 DEF BeginOp, Move
  <2>3. CASE EndOp(t)
    BY <1>2, <1>3, <2>1, <2>3 DEF EndOp, Move
  <2>4. CASE ~BeginOp(t) /\ ~EndOp(t)
    <3>1. /\ UNCHANGED <<opStart, opEnd>>
          /\ \A u \in Tids : pc'[u] \in {"dispatch", "record"} => pc'[u] = pc[u]
      BY <1>3, <1>18, <2>4 DEF WorkerStep, Register, LeaveStart, SeeNoStop, SeeStop,
            LeaveStop, Deregister, Move
    <3>. QED
      BY <1>2, <2>1, <3>1
  <2>. QED
    BY <2>2, <2>3, <2>4
<1>19. CASE Tick
  <2>1. clock' = clock + 1 /\ UNCHANGED <<phase, window, spent, pc, opStart, opEnd, g_stats>>
    BY <1>19 DEF Tick, mainVars, workerVars
  <2>2. \A t \in Tids, o \in Ops :
          phase \in Measuring \ {"join"} =>
            g_stats'[t][o].max <= clock' - window'.maxStart
    <3> SUFFICES ASSUME NEW t \in Tids, NEW o \in Ops, phase \in Measuring \ {"join"}
                 PROVE  g_stats'[t][o].max <= clock' - window'.maxStart
      OBVIOUS
    <3>1. g_stats[t][o].max \in Nat /\ g_stats[t][o].max <= clock - window.maxStart
      BY <1>2, <1>4
    <3>2. /\ window.maxStart \in Nat /\ window'.maxStart = window.maxStart
          /\ g_stats'[t][o].max = g_stats[t][o].max
          /\ clock \in Nat /\ clock' = clock + 1
      BY <1>3, <2>1
    <3>. QED
      BY <3>1, <3>2
  <2>3. \A t \in Tids :
          /\ pc[t] \in {"dispatch", "record"} => opStart[t] <= clock'
          /\ pc[t] = "record" => opEnd[t] <= clock'
    BY <1>2, <1>3, <2>1
  <2>. QED
    BY <1>2, <2>1, <2>2, <2>3
<1>20. CASE UNCHANGED vars
  BY <1>2, <1>20 DEF vars, mainVars, workerVars, sharedVars
<1>. QED
  BY <1>1, <1>6, <1>7, <1>8, <1>9, <1>10, <1>11, <1>12, <1>13, <1>14, <1>15, <1>16,
     <1>17, <1>18, <1>19, <1>20
  DEF Next, MainStep, Exited

-----------------------------------------------------------------------------
(* The theorems. *)

\* The inductive invariant holds in every reachable state of the benchmark.
THEOREM Invariant == Spec => []IInv
<1>1. IInv /\ [Next]_vars => IInv'
  BY TypeStep, LifecycleStep, BarrierStep, ControlStep, WindowStep, OpTimeStep DEF IInv
<1>. QED
  BY InitIInv, <1>1, PTL DEF Spec

\* The variables keep their types.
THEOREM TypeCorrect == Spec => []TypeOK
<1>1. IInv => TypeOK
  BY DEF IInv
<1>. QED
  BY <1>1, Invariant, PTL

\* The start barrier keeps every worker from measuring before all of them are
\* registered and the window is open, whatever pthread_create returned.
THEOREM StartSafe == Spec => []NobodyStartsEarly
<1>1. IInv => NobodyStartsEarly
  BY DEF IInv, ControlInv
<1>. QED
  BY <1>1, Invariant, PTL

\* The target outlives every registration with it.
THEOREM TargetSafe == Spec => []TargetLiveWhileUsed
<1>1. IInv => TargetLiveWhileUsed
  BY DEF IInv, ControlInv, LifecycleInv, ReportAfterAllWorkers, TargetLiveWhileUsed,
         Registered, Labels, Concluding
<1>. QED
  BY <1>1, Invariant, PTL

\* The report and the release of the barriers come after every worker is done.
THEOREM ReportSafe == Spec => []ReportAfterAllWorkers
<1>1. IInv => ReportAfterAllWorkers
  BY DEF IInv, ControlInv
<1>. QED
  BY <1>1, Invariant, PTL

\* The lower bound of the measured time never exceeds the upper bound.
THEOREM WindowSafe == Spec => []WindowNested
<1>1. IInv => WindowNested
  BY DEF IInv, WindowInv
<1>. QED
  BY <1>1, Invariant, PTL

\* No latency in the report is longer than the reported duration.
THEOREM LatencySafe == Spec => []LatencyFitsWindow
<1>1. IInv => LatencyFitsWindow
  BY DEF IInv, OpTimeInv
<1>. QED
  BY <1>1, Invariant, PTL

\* Nobody changes the statistics between the stop barrier and their release.
THEOREM StatsFrozen == Spec => StatsFrozenAfterStop
<1>1. IInv /\ [Next]_vars =>
        [(phase \in {"stopped", "join", "destroy", "print"}) => g_stats' = g_stats]_vars
  <2>1. SUFFICES ASSUME IInv, [Next]_vars,
                        phase \in {"stopped", "join", "destroy", "print"}
                 PROVE  g_stats' = g_stats
    OBVIOUS
  <2>2. \A t \in Tids : pc[t] # "record"
    BY <2>1 DEF IInv, ControlInv, ReportAfterAllWorkers, Concluding, AtStop
  <2>. QED
    BY <2>1, <2>2 DEF Next, MainStep, bm_phase_warmup, CreateWorker, CreationDone,
        RecordMaxStart, MainLeaveStart, RecordMinStart, SignalStop, RecordMinStop,
        MainLeaveStop, RecordMaxStop, JoinWorker, AddSpentTime, DestroyTarget,
        PrintStats, bm_phase_cooldown, Tick, Exited, vars, sharedVars, WorkerStep,
        Register, LeaveStart, SeeNoStop, SeeStop, BeginOp, EndOp, RecordOp, LeaveStop,
        Deregister, Move, Goto
<1>. QED
  BY <1>1, Invariant, PTL DEF Spec, StatsFrozenAfterStop
-----------------------------------------------------------------------------
(* What a step does to the statistics. *)

\* The search loop of bm_stat_add_op stops at one bucket, also when no upper
\* end reaches the duration.
LEMMA OneBucket ==
  ASSUME NEW d
  PROVE  \E b \in Buckets : /\ InBucket(b, d)
                            /\ \A a \in Buckets : InBucket(a, d) => a = b
<1> DEFINE T == {b \in Buckets : d <= op_time_ranges[b] \/ b = NumBuckets - 1}
<1>1. NumBuckets - 1 \in T /\ T \subseteq Nat
  BY DEF Buckets
<1>2. PICK b \in T : \A a \in T : b <= a
  <2> HIDE DEF T
  <2>. QED
    BY <1>1, LeastNumber
<1>3. \A j \in 0 .. b - 1 : ~ (d <= op_time_ranges[j])
  <2> SUFFICES ASSUME NEW j \in 0 .. b - 1, d <= op_time_ranges[j]
               PROVE  FALSE
    OBVIOUS
  <2>1. j \in T
    BY DEF Buckets
  <2>. QED
    BY <1>2, <2>1 DEF Buckets
<1>4. InBucket(b, d)
  BY <1>2, <1>3 DEF InBucket
<1>5. ASSUME NEW a \in Buckets, InBucket(a, d)
      PROVE  a = b
  <2>1. a \in T
    BY <1>5 DEF InBucket
  <2>2. b <= a
    BY <1>2, <2>1
  <2>3. CASE b < a
    <3>1. b \in 0 .. a - 1
      BY <2>3 DEF Buckets
    <3>2. ~ (d <= op_time_ranges[b])
      BY <1>5, <3>1 DEF InBucket
    <3>3. b = NumBuckets - 1
      BY <1>2, <3>2
    <3>. QED
      BY <2>3, <3>3 DEF Buckets
  <2>. QED
    BY <2>2, <2>3 DEF Buckets
<1>. QED
  BY <1>4, <1>5

\* A sample is counted in one bucket, and its duration in the sum.
LEMMA AddSampleEffect ==
  ASSUME NEW stat \in OpStat, NEW res \in OpResult, NEW d \in Nat
  PROVE  LET s == AddSample(stat, res, d) IN
         /\ s.sum = stat.sum + d
         /\ SumFunction(s.histogram_data) = SumFunction(stat.histogram_data) + 1
         /\ SumFunction(stat.histogram_data) \in Nat
<1> DEFINE s == AddSample(stat, res, d)
           old == stat.histogram_data
           new == s.histogram_data
<1>1. IsFiniteSet(Buckets)
  BY FS_Interval DEF Buckets
<1>2. PICK b \in Buckets : InBucket(b, d) /\ \A a \in Buckets : InBucket(a, d) => a = b
  BY OneBucket
<1>3. /\ DOMAIN old = Buckets /\ DOMAIN new = Buckets
      /\ \A a \in Buckets : old[a] \in Nat
      /\ \A a \in Buckets : new[a] = IF InBucket(a, d) THEN old[a] + 1 ELSE old[a]
  BY DEF OpStat, AddSample
<1>4. /\ \A a \in Buckets : old[a] \in Int /\ new[a] \in Int
      /\ \A a \in Buckets \ {b} : old[a] = new[a]
      /\ new[b] - old[b] = 1
  BY <1>2, <1>3
<1>5. s.sum = stat.sum + d
  BY DEF AddSample
<1> HIDE DEF s, old, new
<1>6. SumFunctionOnSet(new, Buckets) = SumFunctionOnSet(old, Buckets) + 1
  BY <1>1, <1>4, SumChange
<1>7. SumFunctionOnSet(old, Buckets) \in Nat
  BY <1>1, <1>3, SumNat
<1>. QED
  BY <1>3, <1>5, <1>6, <1>7 DEF SumFunction, s, old, new

\* The workers that measure do so in the measured phases.
LEMMA LoopingPhase ==
  ASSUME IInv, NEW t \in Tids, pc[t] \in Looping
  PROVE  phase \in Measuring \ {"stopped", "join"}
BY DEF IInv, TypeOK, ControlInv, NobodyStartsEarly, ReportAfterAllWorkers,
       Looping, Measuring, Concluding, AtStop, BeforeStart, Phases

\* Recording an operation changes the record of that thread and operation only.
LEMMA RecordEffect ==
  ASSUME IInv, NEW t \in Tids, RecordOp(t)
  PROVE  LET c == CurrentOp(t)
             s == AddSample(g_stats[t][c], result[t], OpTime(t))
         IN  /\ phase \in Measuring \ {"stopped", "join"}
             /\ g_ops \in [Slots -> Ops]
             /\ g_stats \in [Tids -> [Ops -> OpStat]]
             /\ c \in Ops
             /\ OpTime(t) \in Nat
             /\ s \in OpStat
             /\ g_stats' \in [Tids -> [Ops -> OpStat]]
             /\ g_stats'[t][c] = s
             /\ \A u \in Tids, o \in Ops : ~ (u = t /\ o = c) => g_stats'[u][o] = g_stats[u][o]
<1> DEFINE c == CurrentOp(t)
           s == AddSample(g_stats[t][c], result[t], OpTime(t))
<1>1. phase \in Measuring \ {"stopped", "join"} /\ pc[t] = "record"
  BY LoopingPhase DEF RecordOp, Move, Looping
<1>2. g_ops \in [Slots -> Ops] /\ g_stats \in [Tids -> [Ops -> OpStat]]
  BY <1>1 DEF IInv, LifecycleInv, Measuring
<1>3. c \in Ops
  BY <1>2, SlotType DEF CurrentOp, IInv, TypeOK
<1>4. OpTime(t) \in Nat /\ result[t] \in OpResult
  BY <1>1, SMTT(30) DEF IInv, OpTimeInv, TypeOK, OpTime
<1>5. s \in OpStat
  BY <1>2, <1>3, <1>4, AddSampleType
<1>6. g_stats' = [g_stats EXCEPT ![t] = [g_stats[t] EXCEPT ![c] = s]]
  BY DEF RecordOp, bm_stat_add_op
<1> HIDE DEF c, s
<1>7. /\ g_stats' \in [Tids -> [Ops -> OpStat]]
      /\ g_stats'[t][c] = s
      /\ \A u \in Tids, o \in Ops : ~ (u = t /\ o = c) => g_stats'[u][o] = g_stats[u][o]
  BY <1>2, <1>3, <1>5, <1>6
<1>. QED
  BY <1>1, <1>2, <1>3, <1>4, <1>5, <1>7 DEF c, s

-----------------------------------------------------------------------------
(* The time that is accounted for. *)

\* The accounted time of a worker grows with the operations it records.
LEMMA AccountedRecord ==
  ASSUME IInv, NEW t \in Tids, RecordOp(t), NEW u \in Tids
  PROVE  /\ Accounted(u) \in Nat
         /\ Accounted(u)' = Accounted(u) + IF u = t THEN OpTime(t) ELSE 0
<1> DEFINE c == CurrentOp(t)
           s == AddSample(g_stats[t][c], result[t], OpTime(t))
           f1 == [o \in Ops |-> g_stats[u][o].sum]
           f2 == [o \in Ops |-> g_stats'[u][o].sum]
<1>1. /\ g_stats \in [Tids -> [Ops -> OpStat]]
      /\ c \in Ops /\ OpTime(t) \in Nat
      /\ g_stats' \in [Tids -> [Ops -> OpStat]]
      /\ g_stats'[t][c] = s
      /\ \A v \in Tids, o \in Ops : ~ (v = t /\ o = c) => g_stats'[v][o] = g_stats[v][o]
  BY RecordEffect
<1>2. g_stats[t][c] \in OpStat /\ result[t] \in OpResult
  BY <1>1 DEF IInv, TypeOK
<1>3. s.sum = g_stats[t][c].sum + OpTime(t)
  BY <1>1, <1>2, AddSampleEffect
<1> HIDE DEF c, s
<1>4. \A o \in Ops : f1[o] \in Nat /\ f2[o] \in Nat
  BY <1>1 DEF OpStat
<1>5. \A o \in Ops \ {c} : f1[o] = f2[o]
  BY <1>1
<1>6. f2[c] - f1[c] = IF u = t THEN OpTime(t) ELSE 0
  <2>1. CASE u = t
    BY <1>1, <1>3, <1>4, <2>1
  <2>2. CASE u # t
    BY <1>1, <1>4, <2>2
  <2>. QED
    BY <2>1, <2>2
<1>7. Accounted(u) = SumFunctionOnSet(f1, Ops) /\ Accounted(u)' = SumFunctionOnSet(f2, Ops)
  BY DEF Accounted, SumFunction
<1> HIDE DEF f1, f2
<1>8. SumFunctionOnSet(f1, Ops) \in Nat
  BY <1>4, SumNat
<1>9. SumFunctionOnSet(f2, Ops) = SumFunctionOnSet(f1, Ops) + (f2[c] - f1[c])
  BY <1>1, <1>4, <1>5, SumChange
<1>. QED
  BY <1>6, <1>7, <1>8, <1>9

\* Nothing is accounted for after bm_stat_init.
LEMMA AccountedInit ==
  ASSUME bm_phase_warmup, NEW t \in Tids
  PROVE  Accounted(t)' = 0
<1> DEFINE f == [o \in Ops |-> g_stats'[t][o].sum]
<1>1. \A o \in Ops : f[o] = 0
  BY DEF bm_phase_warmup, bm_stat_init, EmptyOpStat
<1>2. Accounted(t)' = SumFunctionOnSet(f, Ops)
  BY DEF Accounted, SumFunction
<1> HIDE DEF f
<1>. QED
  BY <1>1, <1>2, SumZero

LEMMA AccountedType ==
  ASSUME IInv, phase \notin {"warmup", "exit"}, NEW t \in Tids
  PROVE  Accounted(t) \in Nat
<1> DEFINE f == [o \in Ops |-> g_stats[t][o].sum]
<1>1. \A o \in Ops : f[o] \in Nat
  BY DEF IInv, LifecycleInv, OpStat
<1>2. Accounted(t) = SumFunctionOnSet(f, Ops)
  BY DEF Accounted, SumFunction
<1> HIDE DEF f
<1>. QED
  BY <1>1, <1>2, SumNat

LEMMA AccountStep == IInv /\ AccountInv /\ [Next]_vars => AccountInv'
<1>1. SUFFICES ASSUME IInv, AccountInv, [Next]_vars PROVE AccountInv'
  OBVIOUS
<1>2. /\ clock \in Nat
      /\ window \in [maxStart: Nat, minStart: Nat, minStop: Nat, maxStop: Nat]
      /\ opStart \in [Tids -> Nat] /\ opEnd \in [Tids -> Nat]
      /\ pc \in [Tids -> Labels]
  BY <1>1 DEF IInv, TypeOK
<1>3. g_stats' = g_stats => \A t \in Tids : Accounted(t)' = Accounted(t)
  BY DEF Accounted
<1> USE DEF Goto, AccountInv, AccountedTimeFits, BeforeStart, Concluding, Measuring
<1>4. CASE bm_phase_warmup
  BY <1>4, AccountedInit DEF bm_phase_warmup
<1>5. CASE CreateWorker
  BY <1>1, <1>3, <1>5 DEF CreateWorker, sharedVars
<1>6. CASE CreationDone
  BY <1>1, <1>3, <1>6 DEF CreationDone, sharedVars
<1>7. CASE RecordMaxStart
  <2>1. \A t \in Tids : pc'[t] \notin {"dispatch", "record"}
    BY <1>1, <1>7, LoopingPhase DEF RecordMaxStart, workerVars, Looping
  <2>2. window'.maxStart = clock /\ clock' = clock /\ g_stats' = g_stats
    BY <1>2, <1>7 DEF RecordMaxStart
  <2>. QED
    BY <1>1, <1>2, <1>3, <1>7, <2>1, <2>2 DEF RecordMaxStart
<1>8. CASE MainLeaveStart \/ SignalStop \/ MainLeaveStop
  BY <1>1, <1>3, <1>8 DEF MainLeaveStart, SignalStop, MainLeaveStop, workerVars, sharedVars
<1>9. CASE RecordMinStart
  <2>1. window'.maxStart = window.maxStart
    BY <1>2, <1>9 DEF RecordMinStart
  <2>. QED
    BY <1>1, <1>3, <1>9, <2>1 DEF RecordMinStart, workerVars, sharedVars
<1>10. CASE RecordMinStop
  <2>1. window'.maxStart = window.maxStart
    BY <1>2, <1>10 DEF RecordMinStop
  <2>. QED
    BY <1>1, <1>3, <1>10, <2>1 DEF RecordMinStop, workerVars
<1>11. CASE RecordMaxStop
  <2>1. window'.maxStart = window.maxStart /\ window'.maxStop = clock
    BY <1>2, <1>11 DEF RecordMaxStop
  <2>. QED
    BY <1>1, <1>3, <1>11, <2>1 DEF RecordMaxStop, workerVars, sharedVars
<1>12. CASE JoinWorker
  BY <1>1, <1>3, <1>12 DEF JoinWorker, sharedVars
<1>13. CASE AddSpentTime
  BY <1>1, <1>3, <1>13 DEF AddSpentTime, SpentTime
<1>14. CASE DestroyTarget \/ PrintStats \/ bm_phase_cooldown
  BY <1>1, <1>3, <1>14 DEF DestroyTarget, PrintStats, bm_phase_cooldown, sharedVars
<1>15. ASSUME NEW t \in Tids, RecordOp(t) PROVE AccountInv'
  <2>1. phase \in Measuring \ {"stopped", "join"} /\ UNCHANGED <<phase, window, clock, opStart>>
    BY <1>1, <1>15, RecordEffect DEF RecordOp, mainVars
  <2>2. /\ Accounted(t) <= opStart[t] - window.maxStart
        /\ opEnd[t] <= clock /\ opStart[t] <= opEnd[t]
    BY <1>1, <1>15, <2>1 DEF RecordOp, Move, IInv, OpTimeInv
  <2>3. Accounted(t) \in Nat /\ Accounted(t)' = Accounted(t) + (opEnd[t] - opStart[t])
    BY <1>1, <1>15, AccountedRecord DEF OpTime
  <2>4. Accounted(t)' <= clock - window.maxStart
    BY <1>2, <2>2, <2>3, SMTT(30)
  <2>5. \A u \in Tids \ {t} : Accounted(u)' = Accounted(u)
    <3> SUFFICES ASSUME NEW u \in Tids \ {t} PROVE Accounted(u)' = Accounted(u)
      OBVIOUS
    <3>1. Accounted(u) \in Nat /\ Accounted(u)' = Accounted(u) + 0
      BY <1>1, <1>15, AccountedRecord
    <3>. QED
      BY <3>1
  <2>6. pc'[t] = "loop" /\ \A u \in Tids \ {t} : pc'[u] = pc[u]
    BY <1>2, <1>15 DEF RecordOp, Move
  <2>. QED
    BY <1>1, <2>1, <2>4, <2>5, <2>6
<1>16. ASSUME NEW t \in Tids, BeginOp(t) PROVE AccountInv'
  <2>1. UNCHANGED <<phase, window, clock, spent, g_stats>>
    BY <1>16 DEF BeginOp, mainVars, sharedVars
  <2>2. phase \in Measuring \ {"stopped", "join"}
    BY <1>1, <1>16, LoopingPhase DEF BeginOp, Move, Looping
  <2>3. opStart'[t] = clock /\ \A u \in Tids \ {t} : opStart'[u] = opStart[u] /\ pc'[u] = pc[u]
    BY <1>2, <1>16 DEF BeginOp, Move
  <2>. QED
    BY <1>1, <1>3, <2>1, <2>2, <2>3
<1>17. ASSUME NEW t \in Tids, WorkerStep(t), ~ RecordOp(t), ~ BeginOp(t) PROVE AccountInv'
  <2>1. UNCHANGED <<phase, window, spent, clock, g_stats, opStart>>
    BY <1>17 DEF WorkerStep, Register, LeaveStart, SeeNoStop, SeeStop, EndOp,
          LeaveStop, Deregister, mainVars, sharedVars
  <2>2. \A u \in Tids : pc'[u] \in {"dispatch", "record"} => pc[u] \in {"dispatch", "record"}
    BY <1>2, <1>17 DEF WorkerStep, Register, LeaveStart, SeeNoStop, SeeStop, EndOp,
          LeaveStop, Deregister, Move
  <2>. QED
    BY <1>1, <1>3, <2>1, <2>2
<1>18. CASE Tick
  <2>1. clock' = clock + 1 /\ UNCHANGED <<phase, window, spent, pc, opStart, g_stats>>
    BY <1>18 DEF Tick, mainVars, workerVars
  <2>2. ASSUME NEW t \in Tids, phase \in Measuring \ {"join"}
        PROVE  Accounted(t)' <= clock' - window'.maxStart
    <3>1. Accounted(t) \in Nat /\ Accounted(t) <= clock - window.maxStart
      BY <1>1, <2>2, AccountedType
    <3>2. window.maxStart \in Nat
      BY <1>2
    <3>. QED
      BY <1>2, <1>3, <2>1, <3>1, <3>2
  <2>. QED
    BY <1>1, <1>3, <2>1, <2>2
<1>19. CASE UNCHANGED vars
  BY <1>1, <1>3, <1>19 DEF vars, mainVars, workerVars, sharedVars
<1>. QED
  BY <1>1, <1>4, <1>5, <1>6, <1>7, <1>8, <1>9, <1>10, <1>11, <1>12, <1>13, <1>14, <1>15,
     <1>16, <1>17, <1>18, <1>19
  DEF Next, MainStep, Exited

\* The time that a worker accounts to its operations fits in the reported
\* max_duration_clk.
THEOREM AccountSafe == Spec => []AccountedTimeFits
<1>1. Init => AccountInv
  BY DEF Init, AccountInv, AccountedTimeFits, BeforeStart, Measuring, Concluding
<1>2. AccountInv => AccountedTimeFits
  BY DEF AccountInv
<1>. QED
  BY <1>1, <1>2, AccountStep, Invariant, PTL DEF Spec

-----------------------------------------------------------------------------
(* The mix of operations. *)

\* A remainder does not change when the divisor is added.
LEMMA ModPeriod ==
  ASSUME NEW a \in Nat, NEW D \in Nat, D > 0
  PROVE  (a + D) % D = a % D
<1> DEFINE q1 == a \div D
           q2 == (a + D) \div D
           r1 == a % D
           r2 == (a + D) % D
<1>1. q1 \in Int /\ q2 \in Int /\ r1 \in 0 .. D - 1 /\ r2 \in 0 .. D - 1
  OBVIOUS
<1>2. a = D * q1 + r1
  OBVIOUS
<1>3. a + D = D * q2 + r2
  OBVIOUS
<1> HIDE DEF q1, q2, r1, r2
<1>4. D * (q2 - q1) = D * q2 - D * q1
  BY <1>1
<1>5. D * (q2 - q1 - 1) = D * (q2 - q1) - D
  BY <1>1
<1>6. D * (q2 - q1 - 1) = r1 - r2
  BY <1>1, <1>2, <1>3, <1>4, <1>5
<1>7. q2 - q1 - 1 = 0
  <2> DEFINE e == q2 - q1 - 1
  <2>1. e \in Int /\ D * e < D /\ D * e > - D
    BY <1>1, <1>6
  <2> HIDE DEF e
  <2>2. e >= 1 => D * e >= D
    BY <2>1
  <2>3. e <= -1 => D * e <= -D
    BY <2>1
  <2>4. e = 0
    BY <2>1, <2>2, <2>3
  <2>. QED
    BY <2>4 DEF e
<1>8. r1 = r2
  BY <1>1, <1>6, <1>7
<1>. QED
  BY <1>8 DEF r1, r2

\* The positions from a on, n of them, at which g_ops holds operation o.
Hits(f, o, a, n) == {i \in a .. a + n - 1 : f[i % DISTRIBUTION_BOUND] = o}

LEMMA HitsFinite ==
  ASSUME NEW f, NEW o, NEW a \in Nat, NEW n \in Nat
  PROVE  IsFiniteSet(Hits(f, o, a, n)) /\ Cardinality(Hits(f, o, a, n)) \in Nat
<1>1. IsFiniteSet(a .. a + n - 1)
  BY FS_Interval
<1>2. Hits(f, o, a, n) \subseteq a .. a + n - 1
  BY DEF Hits
<1>. QED
  BY <1>1, <1>2, FS_Subset, FS_CardinalityType

\* A round through g_ops finds the same operations wherever it begins.
LEMMA HitsRound ==
  ASSUME NEW f, NEW o, NEW a \in Nat
  PROVE  Cardinality(Hits(f, o, a, DISTRIBUTION_BOUND))
           = Cardinality({s \in Slots : f[s] = o})
<1> DEFINE D == DISTRIBUTION_BOUND
           T == {n \in Nat : Cardinality(Hits(f, o, n, D)) = Cardinality({s \in Slots : f[s] = o})}
<1>1. 0 \in T
  <2>1. \A i \in 0 .. D - 1 : i % D = i
    OBVIOUS
  <2>2. Hits(f, o, 0, D) = {s \in Slots : f[s] = o}
    BY <2>1 DEF Hits, Slots
  <2>. QED
    BY <2>2
<1>2. ASSUME NEW n \in Nat, n \in T
      PROVE  n + 1 \in T
  <2> DEFINE X == Hits(f, o, n + 1, D - 1)
  <2> SUFFICES Cardinality(Hits(f, o, n + 1, D)) = Cardinality(Hits(f, o, n, D))
    BY <1>2
  <2>0. D \in Nat /\ D > 0 /\ D - 1 \in Nat /\ n + 1 \in Nat
    OBVIOUS
  <2>1. (n + D) % D = n % D
    BY <2>0, ModPeriod, Zenon
  <2>2. IsFiniteSet(X) /\ n \notin X /\ n + D \notin X
    <3>1. IsFiniteSet(X)
      BY <2>0, HitsFinite
    <3>. QED
      BY <3>1 DEF Hits
  <2>3. CASE f[n % D] = o
    <3>1. Hits(f, o, n, D) = X \cup {n}
      BY <2>3 DEF Hits
    <3>2. Hits(f, o, n + 1, D) = X \cup {n + D}
      BY <2>1, <2>3 DEF Hits
    <3> HIDE DEF X
    <3>3. Cardinality(X \cup {n}) = Cardinality(X \cup {n + D})
      BY <2>2, FS_AddElement
    <3>. QED
      BY <3>1, <3>2, <3>3
  <2>4. CASE f[n % D] # o
    <3>1. Hits(f, o, n, D) = X
      BY <2>4 DEF Hits
    <3>2. Hits(f, o, n + 1, D) = X
      BY <2>1, <2>4 DEF Hits
    <3>. QED
      BY <3>1, <3>2
  <2>. QED
    BY <2>3, <2>4
<1>3. Nat \subseteq T
  <2> HIDE DEF T
  <2>. QED
    BY <1>1, <1>2, SetInduction
<1>. QED
  BY <1>3

\* k rounds find k times as many.
LEMMA HitsRounds ==
  ASSUME NEW f, NEW o, NEW a \in Nat, NEW k \in Nat
  PROVE  Cardinality(Hits(f, o, a, k * DISTRIBUTION_BOUND))
           = k * Cardinality({s \in Slots : f[s] = o})
<1> DEFINE D == DISTRIBUTION_BOUND
           C == Cardinality({s \in Slots : f[s] = o})
           T == {n \in Nat : Cardinality(Hits(f, o, a, n * D)) = n * C}
<1>1. C \in Nat
  <2>1. Cardinality(Hits(f, o, 0, D)) \in Nat
    BY HitsFinite
  <2>. QED
    BY <2>1, HitsRound
<1>2. 0 \in T
  <2>1. Hits(f, o, a, 0 * D) = {}
    BY DEF Hits
  <2>2. 0 * C = 0
    BY <1>1
  <2>. QED
    BY <2>1, <2>2, FS_EmptySet
<1>3. ASSUME NEW n \in Nat, n \in T
      PROVE  n + 1 \in T
  <2> DEFINE X == Hits(f, o, a, n * D)
             Y == Hits(f, o, a + n * D, D)
  <2>1. /\ n * D \in Nat /\ (n + 1) * D = n * D + D
        /\ n * C \in Nat /\ (n + 1) * C = n * C + C
    BY <1>1
  <2>2. Hits(f, o, a, (n + 1) * D) = X \cup Y /\ X \cap Y = {}
    <3> DEFINE m == n * D
    <3>1. m \in Nat /\ (n + 1) * D = m + D
      BY <2>1
    <3> HIDE DEF m
    <3>2. /\ Hits(f, o, a, m + D) = Hits(f, o, a, m) \cup Hits(f, o, a + m, D)
          /\ Hits(f, o, a, m) \cap Hits(f, o, a + m, D) = {}
      BY <3>1 DEF Hits
    <3>. QED
      BY <3>1, <3>2 DEF m
  <2>3. IsFiniteSet(X) /\ IsFiniteSet(Y)
    BY <2>1, HitsFinite
  <2>4. Cardinality(X) = n * C /\ Cardinality(Y) = C
    BY <1>3, <2>1, HitsRound
  <2> HIDE DEF X, Y
  <2>5. Cardinality(X \cup Y) = Cardinality(X) + Cardinality(Y) - Cardinality(X \cap Y)
    BY <2>3, FS_Union
  <2>6. Cardinality(X \cap Y) = 0
    BY <2>2, FS_EmptySet
  <2> HIDE DEF C
  <2>7. Cardinality(X \cup Y) = n * C + C
    BY <1>1, <2>1, <2>4, <2>5, <2>6
  <2>8. Cardinality(Hits(f, o, a, (n + 1) * D)) = (n + 1) * C
    BY <2>1, <2>2, <2>7, Zenon
  <2>9. n + 1 \in Nat
    OBVIOUS
  <2>. QED
    BY <2>8, <2>9, Zenon
<1>4. Nat \subseteq T
  <2> HIDE DEF T
  <2>. QED
    BY <1>2, <1>3, SetInduction
<1>. QED
  BY <1>4

\* Where the statistics, g_ops and the positions change.
LEMMA StatsFrame ==
  ASSUME IInv, [Next]_vars, ~ bm_phase_warmup, ~ bm_phase_cooldown,
         \A t \in Tids : ~ RecordOp(t)
  PROVE  /\ UNCHANGED <<g_stats, g_ops, pos>>
         /\ phase' = "warmup" <=> phase = "warmup"
         /\ phase' = "exit" <=> phase = "exit"
<1>1. CASE MainStep
  BY <1>1 DEF MainStep, CreateWorker, CreationDone, RecordMaxStart, MainLeaveStart,
        RecordMinStart, SignalStop, RecordMinStop, MainLeaveStop, RecordMaxStop,
        JoinWorker, AddSpentTime, DestroyTarget, PrintStats, Goto, workerVars, sharedVars
<1>2. CASE \E t \in Tids : WorkerStep(t)
  BY <1>2 DEF WorkerStep, Register, LeaveStart, SeeNoStop, SeeStop, BeginOp, EndOp,
        LeaveStop, Deregister, mainVars, sharedVars
<1>3. CASE Tick \/ UNCHANGED vars
  BY <1>3 DEF Tick, vars, mainVars, workerVars, sharedVars
<1>. QED
  BY <1>1, <1>2, <1>3 DEF Next, Exited

\* A recorded operation is counted once, and for that operation only.
LEMMA RecordedRecord ==
  ASSUME IInv, NEW t \in Tids, RecordOp(t), NEW u \in Tids, NEW o \in Ops
  PROVE  /\ Recorded(u, o) \in Nat
         /\ Recorded(u, o)' = Recorded(u, o) + IF u = t /\ o = CurrentOp(t) THEN 1 ELSE 0
<1> DEFINE c == CurrentOp(t)
           s == AddSample(g_stats[t][c], result[t], OpTime(t))
<1>1. /\ g_stats \in [Tids -> [Ops -> OpStat]]
      /\ c \in Ops /\ OpTime(t) \in Nat
      /\ g_stats'[t][c] = s
      /\ \A v \in Tids, x \in Ops : ~ (v = t /\ x = c) => g_stats'[v][x] = g_stats[v][x]
  BY RecordEffect
<1>2. result[t] \in OpResult
  BY DEF IInv, TypeOK
<1>3. \A stat \in OpStat : SumFunction(stat.histogram_data) \in Nat
  BY <1>1, <1>2, AddSampleEffect
<1>4. g_stats[t][c] \in OpStat /\ g_stats[u][o] \in OpStat
  BY <1>1
<1>5. SumFunction(s.histogram_data) = SumFunction(g_stats[t][c].histogram_data) + 1
  BY <1>1, <1>2, <1>4, AddSampleEffect, SMTT(30)
<1> HIDE DEF c, s
<1>6. Recorded(u, o) \in Nat
  BY <1>3, <1>4 DEF Recorded
<1>7. CASE u = t /\ o = c
  <2>1. Recorded(u, o)' = Recorded(u, o) + 1
    BY <1>1, <1>5, <1>7 DEF Recorded
  <2>. QED
    BY <1>6, <1>7, <2>1 DEF c
<1>8. CASE ~ (u = t /\ o = c)
  <2>1. Recorded(u, o)' = Recorded(u, o)
    BY <1>1, <1>8 DEF Recorded
  <2>. QED
    BY <1>6, <1>8, <2>1 DEF c
<1>. QED
  BY <1>7, <1>8

\* Nothing is recorded after bm_stat_init.
LEMMA RecordedInit ==
  ASSUME bm_phase_warmup, NEW t \in Tids, NEW o \in Ops
  PROVE  Recorded(t, o)' = 0
<1> DEFINE h == g_stats'[t][o].histogram_data
<1>1. h = [b \in Buckets |-> 0]
  BY DEF bm_phase_warmup, bm_stat_init, EmptyOpStat
<1>2. IsFiniteSet(Buckets)
  BY FS_Interval DEF Buckets
<1>3. Recorded(t, o)' = SumFunction(h)
  BY DEF Recorded
<1> HIDE DEF h
<1>4. SumFunction(h) = SumFunctionOnSet(h, Buckets) /\ \A b \in Buckets : h[b] = 0
  BY <1>1 DEF SumFunction
<1>. QED
  BY <1>2, <1>3, <1>4, SumZero

LEMMA MixStep == IInv /\ MixInv /\ [Next]_vars => MixInv'
<1>1. SUFFICES ASSUME IInv, MixInv, [Next]_vars PROVE MixInv'
  OBVIOUS
<1>2. \A t \in Tids : StartPosition(t) \in Nat /\ pos[t] \in Nat
  BY <1>1, StartPositionType DEF IInv, TypeOK
<1>3. CASE bm_phase_warmup
  <2>1. phase = "warmup" /\ phase' = "create" /\ pos' = pos /\ g_ops' \in Fillings
    BY <1>3 DEF bm_phase_warmup, Goto, workerVars
  <2>2. \A t \in Tids : pos[t] = StartPosition(t)
    BY <1>1, <2>1 DEF MixInv
  <2>3. (g_ops \in Fillings)'
    BY <2>1 DEF Fillings
  <2>4. ASSUME NEW t \in Tids, NEW o \in Ops
        PROVE  Recorded(t, o)' = Cardinality(Visited(t, o))'
    <3>1. Visited(t, o)' = {}
      BY <1>2, <2>1, <2>2 DEF Visited
    <3>. QED
      BY <1>3, <3>1, RecordedInit, FS_EmptySet
  <2>. QED
    BY <1>1, <2>1, <2>3, <2>4 DEF MixInv
<1>4. CASE bm_phase_cooldown
  BY <1>1, <1>4 DEF bm_phase_cooldown, Goto, workerVars, MixInv
<1>5. ASSUME NEW t \in Tids, RecordOp(t) PROVE MixInv'
  <2>1. phase \in Measuring /\ UNCHANGED <<phase, g_ops>>
    BY <1>1, <1>5, RecordEffect DEF RecordOp, mainVars
  <2>2. pos'[t] = pos[t] + 1 /\ \A u \in Tids \ {t} : pos'[u] = pos[u]
    BY <1>1, <1>5 DEF RecordOp, IInv, TypeOK
  <2>3. \A u \in Tids : StartPosition(u) <= pos'[u]
    BY <1>1, <1>2, <2>2, SMTT(30) DEF MixInv
  <2>4. ASSUME NEW u \in Tids, NEW o \in Ops
        PROVE  Recorded(u, o)' = Cardinality(Visited(u, o))'
    <3>1. Recorded(u, o) = Cardinality(Visited(u, o))
      BY <1>1, <2>1 DEF MixInv, Measuring
    <3>2. Recorded(u, o) \in Nat
      BY <1>1, <1>5, RecordedRecord
    <3>3. CASE u = t /\ o = CurrentOp(t)
      <4>1. Visited(u, o)' = Visited(u, o) \cup {pos[u]}
        BY <1>1, <1>2, <2>1, <2>2, <3>3, SMTT(30) DEF Visited, CurrentOp, MixInv
      <4>2. pos[u] \notin Visited(u, o) /\ IsFiniteSet(Visited(u, o))
        <5>1. IsFiniteSet(StartPosition(u) .. pos[u] - 1)
          <6>1. StartPosition(u) \in Int /\ pos[u] - 1 \in Int
            BY <1>2
          <6>. QED
            BY <6>1, FS_Interval
        <5>. QED
          BY <1>2, <5>1, FS_Subset DEF Visited
      <4>3. Cardinality(Visited(u, o) \cup {pos[u]}) = Cardinality(Visited(u, o)) + 1
        BY <4>2, FS_AddElement
      <4>4. Recorded(u, o)' = Recorded(u, o) + 1
        BY <1>1, <1>5, <3>3, RecordedRecord
      <4>. QED
        BY <3>1, <4>1, <4>3, <4>4
    <3>4. CASE ~ (u = t /\ o = CurrentOp(t))
      <4>1. Visited(u, o)' = Visited(u, o)
        <5>1. CASE u = t
          BY <1>1, <1>2, <2>1, <2>2, <3>4, <5>1, SMTT(30) DEF Visited, CurrentOp, MixInv
        <5>2. CASE u # t
          BY <2>1, <2>2, <5>2 DEF Visited
        <5>. QED
          BY <5>1, <5>2
      <4>2. Recorded(u, o)' = Recorded(u, o) + 0
        BY <1>1, <1>5, <3>4, RecordedRecord
      <4>. QED
        BY <3>1, <3>2, <4>1, <4>2
    <3>. QED
      BY <3>3, <3>4
  <2>5. (g_ops \in Fillings)'
    BY <1>1, <2>1 DEF MixInv, Measuring, Fillings
  <2>. QED
    BY <2>1, <2>3, <2>4, <2>5 DEF MixInv, Measuring
<1>6. ASSUME ~ bm_phase_warmup, ~ bm_phase_cooldown, \A t \in Tids : ~ RecordOp(t)
      PROVE  MixInv'
  <2>1. /\ UNCHANGED <<g_stats, g_ops, pos>>
        /\ phase' = "warmup" <=> phase = "warmup"
        /\ phase' = "exit" <=> phase = "exit"
    BY <1>1, <1>6, StatsFrame
  <2>2. \A t \in Tids, o \in Ops : /\ Recorded(t, o)' = Recorded(t, o)
                                    /\ Visited(t, o)' = Visited(t, o)
    BY <2>1 DEF Recorded, Visited
  <2>3. (g_ops \in Fillings)' <=> g_ops \in Fillings
    BY <2>1 DEF Fillings
  <2>. QED
    BY <1>1, <2>1, <2>2, <2>3 DEF MixInv
<1>. QED
  BY <1>3, <1>4, <1>5, <1>6

\* What a worker has recorded is what it has found in g_ops.
THEOREM MixInvariant == Spec => []MixInv
<1>1. Init => MixInv
  <2> SUFFICES ASSUME Init PROVE MixInv
    OBVIOUS
  <2>. QED
    BY StartPositionType DEF Init, MixInv
<1>. QED
  BY <1>1, MixStep, Invariant, PTL DEF Spec

\* Whole rounds through g_ops record every operation as often as the
\* distribution asks for.
THEOREM MixSafe == Spec => []CycleMix
<1>1. IInv /\ MixInv => CycleMix
  <2>1. SUFFICES ASSUME IInv, MixInv, g_stats # <<>>, NEW t \in Tids, NEW o \in Ops,
                        (pos[t] - StartPosition(t)) % DISTRIBUTION_BOUND = 0
                 PROVE  Recorded(t, o) = ((pos[t] - StartPosition(t)) \div DISTRIBUTION_BOUND)
                                           * Distribution[o]
    BY DEF CycleMix
  <2> DEFINE a == StartPosition(t)
             n == pos[t] - a
             k == n \div DISTRIBUTION_BOUND
  <2>2. a \in Nat /\ pos[t] \in Nat /\ a <= pos[t]
    BY <2>1, StartPositionType DEF IInv, TypeOK, MixInv
  <2>3. n \in Nat
    BY <2>2
  <2>4. k \in Nat /\ n = k * DISTRIBUTION_BOUND
    <3> HIDE DEF n
    <3>. QED
      BY <2>1, <2>3 DEF n
  <2>5. /\ g_ops \in Fillings
        /\ Recorded(t, o) = Cardinality(Visited(t, o))
    BY <2>1 DEF MixInv
  <2>6. Visited(t, o) = Hits(g_ops, o, a, n)
    BY <2>2 DEF Visited, Hits
  <2>7. Cardinality({s \in Slots : g_ops[s] = o}) = Distribution[o]
    BY <2>5 DEF Fillings
  <2> HIDE DEF a, n, k
  <2>8. Cardinality(Hits(g_ops, o, a, k * DISTRIBUTION_BOUND)) = k * Distribution[o]
    BY <2>2, <2>4, <2>7, HitsRounds
  <2>9. Recorded(t, o) = k * Distribution[o]
    BY <2>4, <2>5, <2>6, <2>8
  <2>. QED
    BY <2>9 DEF a, n, k
<1>. QED
  BY <1>1, Invariant, MixInvariant, PTL

-----------------------------------------------------------------------------
(* The program implements Measurement. *)

LEMMA RecordedType ==
  ASSUME IInv, phase \notin {"warmup", "exit"}, NEW t \in Tids, NEW o \in Ops
  PROVE  /\ Recorded(t, o) \in Nat
         /\ Recorded(t, o) = SumFunctionOnSet(g_stats[t][o].histogram_data, Buckets)
         /\ \A b \in Buckets : g_stats[t][o].histogram_data[b] \in Nat
<1> DEFINE h == g_stats[t][o].histogram_data
<1>1. h \in [Buckets -> Nat]
  BY DEF IInv, LifecycleInv, OpStat
<1>2. IsFiniteSet(Buckets)
  BY FS_Interval DEF Buckets
<1>3. Recorded(t, o) = SumFunction(h)
  BY DEF Recorded
<1> HIDE DEF h
<1>4. SumFunction(h) = SumFunctionOnSet(h, Buckets)
  BY <1>1 DEF SumFunction
<1>5. SumFunctionOnSet(h, Buckets) \in Nat
  BY <1>1, <1>2, SumNat
<1>. QED
  BY <1>1, <1>3, <1>4, <1>5 DEF h

LEMMA TallyStep == IInv /\ MixInv /\ TallyInv /\ [Next]_vars => TallyInv'
<1>1. SUFFICES ASSUME IInv, MixInv, TallyInv, [Next]_vars PROVE TallyInv'
  OBVIOUS
<1>2. (output.printed <=> phase \in {"cooldown", "exit"})'
  <2>1. CASE PrintStats
    BY <2>1 DEF PrintStats, Goto
  <2>2. CASE ~ PrintStats /\ MainStep
    BY <1>1, <2>2 DEF TallyInv, MainStep, bm_phase_warmup, CreateWorker, CreationDone,
          RecordMaxStart, MainLeaveStart, RecordMinStart, SignalStop, RecordMinStop,
          MainLeaveStop, RecordMaxStop, JoinWorker, AddSpentTime, DestroyTarget,
          bm_phase_cooldown, Goto
  <2>3. CASE (\E t \in Tids : WorkerStep(t)) \/ Tick \/ UNCHANGED vars
    <3>1. phase' = phase /\ output' = output
      BY <2>3 DEF WorkerStep, Register, LeaveStart, SeeNoStop, SeeStop, BeginOp, EndOp,
            RecordOp, LeaveStop, Deregister, Tick, vars, mainVars
    <3>. QED
      BY <1>1, <3>1 DEF TallyInv
  <2>. QED
    BY <1>1, <2>1, <2>2, <2>3 DEF Next, Exited
<1> DEFINE Sum(t) == SumFunction([o \in Ops |-> Recorded(t, o)])
<1>3. (phase \notin {"warmup", "exit"} => \A t \in Tids : Sum(t) = pos[t] - StartPosition(t))'
  <2>1. CASE bm_phase_warmup
    <3> SUFFICES ASSUME NEW t \in Tids
                 PROVE  Sum(t)' = pos'[t] - StartPosition(t)
      BY DEF StartPosition
    <3> DEFINE f == [o \in Ops |-> Recorded(t, o)']
    <3>1. \A o \in Ops : f[o] = 0
      BY <2>1, RecordedInit
    <3>2. Sum(t)' = SumFunctionOnSet(f, Ops)
      BY DEF SumFunction
    <3> HIDE DEF f
    <3>3. SumFunctionOnSet(f, Ops) = 0
      BY <3>1, SumZero
    <3>4. pos'[t] = StartPosition(t) /\ StartPosition(t) \in Nat
      BY <1>1, <2>1, StartPositionType DEF bm_phase_warmup, workerVars, MixInv, Goto
    <3>. QED
      BY <3>2, <3>3, <3>4
  <2>2. CASE bm_phase_cooldown
    BY <2>2 DEF bm_phase_cooldown, Goto
  <2>3. ASSUME NEW u \in Tids, RecordOp(u), NEW t \in Tids
        PROVE  Sum(t)' = pos'[t] - StartPosition(t)
    <3> DEFINE f1 == [o \in Ops |-> Recorded(t, o)]
               f2 == [o \in Ops |-> Recorded(t, o)']
               c == CurrentOp(u)
               e == IF t = u THEN 1 ELSE 0
    <3>1. c \in Ops /\ phase \in Measuring
      BY <1>1, <2>3, RecordEffect
    <3>2. \A o \in Ops : /\ f1[o] \in Nat
                         /\ f2[o] = f1[o] + IF t = u /\ o = c THEN 1 ELSE 0
      BY <1>1, <2>3, RecordedRecord
    <3>3. Sum(t) = SumFunctionOnSet(f1, Ops) /\ Sum(t)' = SumFunctionOnSet(f2, Ops)
      BY DEF SumFunction
    <3>4. Sum(t) = pos[t] - StartPosition(t)
      BY <1>1, <3>1 DEF TallyInv, Measuring
    <3>5. pos[t] \in Nat /\ StartPosition(t) \in Nat /\ pos'[t] = pos[t] + e
      <4>1. pos \in [Tids -> Nat] /\ pos' = [pos EXCEPT ![u] = pos[u] + 1]
        BY <1>1, <2>3 DEF RecordOp, IInv, TypeOK
      <4>2. CASE t = u
        BY <4>1, <4>2, StartPositionType
      <4>3. CASE t # u
        BY <4>1, <4>3, StartPositionType
      <4>. QED
        BY <4>2, <4>3
    <3> HIDE DEF f1, f2, c, Sum
    <3>6. /\ \A o \in Ops : f1[o] \in Int /\ f2[o] \in Int
          /\ \A o \in Ops \ {c} : f1[o] = f2[o]
          /\ f2[c] - f1[c] = e
      BY <3>1, <3>2
    <3>7. SumFunctionOnSet(f2, Ops) = SumFunctionOnSet(f1, Ops) + (f2[c] - f1[c])
      BY <3>1, <3>6, SumChange
    <3>8. e \in Int
      OBVIOUS
    <3> HIDE DEF e
    <3>9. Sum(t)' = Sum(t) + e
      BY <3>3, <3>6, <3>7
    <3>. QED
      BY <3>4, <3>5, <3>8, <3>9
  <2>4. ASSUME ~ bm_phase_warmup, ~ bm_phase_cooldown, \A t \in Tids : ~ RecordOp(t)
        PROVE  (phase \notin {"warmup", "exit"} => \A t \in Tids : Sum(t) = pos[t] - StartPosition(t))'
    <3>1. /\ UNCHANGED <<g_stats, pos>>
          /\ phase' = "warmup" <=> phase = "warmup"
          /\ phase' = "exit" <=> phase = "exit"
      BY <1>1, <2>4, StatsFrame
    <3>2. \A t \in Tids : Sum(t)' = Sum(t)
      BY <3>1 DEF Recorded
    <3>. QED
      BY <1>1, <3>1, <3>2 DEF TallyInv, StartPosition
  <2>. QED
    BY <2>1, <2>2, <2>3, <2>4 DEF StartPosition
<1>. QED
  BY <1>2, <1>3 DEF TallyInv

\* All dispatches of a worker are recorded.
THEOREM TallyInvariant == Spec => []TallyInv
<1>1. Init => TallyInv
  BY DEF Init, TallyInv, Unprinted
<1>. QED
  BY <1>1, TallyStep, MixInvariant, Invariant, PTL DEF Spec

\* The histograms that are printed add up to the operations recorded.
LEMMA PrintedTotal ==
  ASSUME IInv, TallyInv, phase = "print"
  PROVE  /\ SumFunction([o \in Ops |->
              SumFunction(bm_print_stats(g_stats).ops[o].histogram_data)])
              = SumFunction([t \in Tids |-> pos[t] - StartPosition(t)])
         /\ SumFunction([t \in Tids |-> pos[t] - StartPosition(t)]) # -1
<1> DEFINE H(t, o) == g_stats[t][o].histogram_data
           byBucket(o) == [b \in Buckets |-> SumFunctionOnSet([t \in Tids |-> H(t, o)[b]], Tids)]
           byThread(o) == [t \in Tids |-> Recorded(t, o)]
           byOp(t) == [o \in Ops |-> Recorded(t, o)]
           tally == [t \in Tids |-> pos[t] - StartPosition(t)]
<1>1. IsFiniteSet(Tids) /\ IsFiniteSet(Buckets) /\ IsFiniteSet(Ops)
  BY FS_Interval DEF Buckets
<1>2. \A t \in Tids, o \in Ops :
        /\ Recorded(t, o) \in Nat /\ Recorded(t, o) = SumFunctionOnSet(H(t, o), Buckets)
        /\ \A b \in Buckets : H(t, o)[b] \in Nat
  BY RecordedType
<1>3. ASSUME NEW o \in Ops
      PROVE  SumFunction(bm_print_stats(g_stats).ops[o].histogram_data)
               = SumFunctionOnSet(byThread(o), Tids)
  <2>1. bm_print_stats(g_stats).ops[o].histogram_data = byBucket(o)
    BY DEF bm_print_stats, PrintedOp, MergeOp, SumFunction
  <2>2. SumFunction(byBucket(o)) = SumFunctionOnSet(byBucket(o), Buckets)
    BY DEF SumFunction
  <2>3. SumFunctionOnSet(byBucket(o), Buckets) = SumFunctionOnSet(byThread(o), Tids)
    <3> DEFINE h == [t \in Tids |-> H(t, o)]
    <3>1. \A t \in Tids, b \in Buckets : h[t][b] \in Int
      BY <1>2
    <3>2. SumFunctionOnSet([t \in Tids |-> SumFunctionOnSet(h[t], Buckets)], Tids)
            = SumFunctionOnSet([b \in Buckets |-> SumFunctionOnSet([t \in Tids |-> h[t][b]], Tids)], Buckets)
      <4> HIDE DEF h
      <4>. QED
        BY <1>1, <3>1, SumSwap
    <3>3. byThread(o) = [t \in Tids |-> SumFunctionOnSet(h[t], Buckets)]
      BY <1>2
    <3>4. byBucket(o) = [b \in Buckets |-> SumFunctionOnSet([t \in Tids |-> h[t][b]], Tids)]
      <4>1. \A b \in Buckets : [t \in Tids |-> H(t, o)[b]] = [t \in Tids |-> h[t][b]]
        OBVIOUS
      <4>. QED
        BY <4>1
    <3>. QED
      BY <3>2, <3>3, <3>4
  <2>. QED
    BY <2>1, <2>2, <2>3
<1>4. SumFunctionOnSet([o \in Ops |-> SumFunctionOnSet(byThread(o), Tids)], Ops)
        = SumFunctionOnSet([t \in Tids |-> SumFunctionOnSet(byOp(t), Ops)], Tids)
  <2> DEFINE h == [o \in Ops |-> byThread(o)]
  <2>1. \A o \in Ops : \A t \in Tids : h[o][t] \in Int
    BY <1>2
  <2>2. SumFunctionOnSet([o \in Ops |-> SumFunctionOnSet(h[o], Tids)], Ops)
          = SumFunctionOnSet([t \in Tids |-> SumFunctionOnSet([o \in Ops |-> h[o][t]], Ops)], Tids)
    <3> DEFINE A == Ops
               B == Tids
    <3>1. IsFiniteSet(A) /\ IsFiniteSet(B) /\ \A x \in A, y \in B : h[x][y] \in Int
      BY <1>1, <2>1
    <3> HIDE DEF h, A, B
    <3>2. SumFunctionOnSet([x \in A |-> SumFunctionOnSet(h[x], B)], A)
            = SumFunctionOnSet([y \in B |-> SumFunctionOnSet([x \in A |-> h[x][y]], A)], B)
      BY <3>1, SumSwap
    <3>. QED
      BY <3>2 DEF A, B
  <2>3. \A t \in Tids : [o \in Ops |-> h[o][t]] = byOp(t)
    OBVIOUS
  <2>4. [t \in Tids |-> SumFunctionOnSet([o \in Ops |-> h[o][t]], Ops)]
          = [t \in Tids |-> SumFunctionOnSet(byOp(t), Ops)]
    BY <2>3
  <2>5. [o \in Ops |-> SumFunctionOnSet(h[o], Tids)]
          = [o \in Ops |-> SumFunctionOnSet(byThread(o), Tids)]
    OBVIOUS
  <2>. QED
    BY <2>2, <2>4, <2>5
<1>5. \A t \in Tids : SumFunctionOnSet(byOp(t), Ops) = tally[t]
  BY DEF TallyInv, SumFunction
<1>6. [t \in Tids |-> SumFunctionOnSet(byOp(t), Ops)] = tally
  BY <1>5
<1>7. SumFunction(tally) = SumFunctionOnSet(tally, Tids)
  BY DEF SumFunction
<1>8. SumFunctionOnSet(tally, Tids) \in Nat
  <2>1. \A t \in Tids : SumFunctionOnSet(byOp(t), Ops) \in Nat
    <3> SUFFICES ASSUME NEW t \in Tids PROVE SumFunctionOnSet(byOp(t), Ops) \in Nat
      OBVIOUS
    <3>1. \A o \in Ops : byOp(t)[o] \in Nat
      BY <1>2
    <3> HIDE DEF byOp
    <3>. QED
      BY <1>1, <3>1, SumNat
  <2>2. \A t \in Tids : tally[t] \in Nat
    BY <1>5, <2>1
  <2> HIDE DEF tally
  <2>. QED
    BY <1>1, <2>2, SumNat
<1> DEFINE p == [o \in Ops |-> SumFunction(bm_print_stats(g_stats).ops[o].histogram_data)]
<1>9. p = [o \in Ops |-> SumFunctionOnSet(byThread(o), Tids)]
  BY <1>3
<1>10. SumFunction(p) = SumFunctionOnSet(p, Ops)
  BY DEF SumFunction
<1> HIDE DEF p, tally, byThread, byOp
<1>11. SumFunction(p) = SumFunction(tally) /\ SumFunction(tally) # -1
  BY <1>4, <1>6, <1>7, <1>8, <1>9, <1>10
<1>. QED
  BY <1>11 DEF p, tally

\* A step of the program is a step of Measurement or leaves its variables alone.
LEMMA MeasurementStep ==
  ASSUME IInv, TallyInv, [Next]_vars
  PROVE  [Contract!Next]_(Contract!vars)
<1> DEFINE Ready == {t \in Tids : pc[t] \notin {"none", "reg"}}
           Retired == {t \in Tids : pc[t] \in {"stopwait", "dereg", "done"}}
           Tally == [t \in Tids |-> pos[t] - StartPosition(t)]
<1>1. pc \in [Tids -> Labels] /\ pos \in [Tids -> Nat] /\ \A t \in Tids : StartPosition(t) \in Nat
  BY StartPositionType DEF IInv, TypeOK
<1>2. \A t \in Tids : pc[t] \in Looping => Ready = Tids /\ t \notin Retired
  BY DEF IInv, ControlInv, NobodyStartsEarly, Looping
<1>3. ASSUME UNCHANGED <<pos, output>>, Ready' = Ready, Retired' = Retired
      PROVE  UNCHANGED Contract!vars
  BY <1>3 DEF Contract!vars, StartPosition
<1>4. ASSUME NEW t \in Tids, Register(t)
      PROVE  Contract!GetReady(t)
  <2>1. /\ pc' = [pc EXCEPT ![t] = "startwait"] /\ pc[t] = "reg"
        /\ UNCHANGED <<pos, output>>
    BY <1>4 DEF Register, Move, mainVars
  <2>2. t \notin Ready /\ Ready' = Ready \cup {t} /\ Retired' = Retired
    BY <1>1, <2>1
  <2>. QED
    BY <2>1, <2>2 DEF Contract!GetReady, StartPosition
<1>5. ASSUME NEW t \in Tids, SeeStop(t)
      PROVE  Contract!Retire(t)
  <2>1. /\ pc' = [pc EXCEPT ![t] = "stopwait"] /\ pc[t] = "loop"
        /\ UNCHANGED <<pos, output>>
    BY <1>5 DEF SeeStop, Move, mainVars
  <2>2. Ready = Tids /\ t \notin Retired
    BY <1>2, <2>1 DEF Looping
  <2>3. Ready' = Ready /\ Retired' = Retired \cup {t}
    BY <1>1, <2>1
  <2>. QED
    BY <2>1, <2>2, <2>3 DEF Contract!Retire, StartPosition
<1>6. ASSUME NEW t \in Tids, RecordOp(t)
      PROVE  Contract!Execute(t)
  <2>1. /\ pc' = [pc EXCEPT ![t] = "loop"] /\ pc[t] = "record"
        /\ pos' = [pos EXCEPT ![t] = pos[t] + 1] /\ output' = output
    BY <1>6 DEF RecordOp, Move, mainVars
  <2>2. Ready = Tids /\ t \notin Retired
    BY <1>2, <2>1 DEF Looping
  <2>3. Ready' = Ready /\ Retired' = Retired
    BY <1>1, <2>1
  <2>4. Tally' = [Tally EXCEPT ![t] = Tally[t] + 1]
    <3>1. \A u \in Tids : pos'[u] = IF u = t THEN pos[u] + 1 ELSE pos[u]
      BY <1>1, <2>1
    <3>2. \A u \in Tids : pos'[u] - StartPosition(u)
                            = IF u = t THEN (pos[u] - StartPosition(u)) + 1 ELSE pos[u] - StartPosition(u)
      <4> SUFFICES ASSUME NEW u \in Tids
                   PROVE  pos'[u] - StartPosition(u)
                            = IF u = t THEN (pos[u] - StartPosition(u)) + 1 ELSE pos[u] - StartPosition(u)
        OBVIOUS
      <4>1. pos[u] \in Nat /\ StartPosition(u) \in Nat
        BY <1>1
      <4>. QED
        BY <3>1, <4>1
    <3>. QED
      BY <3>2 DEF StartPosition
  <2>. QED
    BY <2>1, <2>2, <2>3, <2>4 DEF Contract!Execute
<1>7. CASE PrintStats
  <2>1. /\ phase = "print" /\ UNCHANGED <<pc, pos>>
        /\ output' = [printed |-> TRUE, stats |-> bm_print_stats(g_stats), duration |-> spent]
    BY <1>7 DEF PrintStats, Goto, workerVars
  <2>2. Retired = Tids
    BY <2>1 DEF IInv, ControlInv, ReportAfterAllWorkers, Concluding
  <2>3. ~ output.printed
    BY <2>1 DEF TallyInv
  <2>4. /\ output'.printed
        /\ SumFunction([o \in Ops |-> SumFunction(output'.stats.ops[o].histogram_data)])
             = SumFunction(Tally)
    BY <2>1, PrintedTotal
  <2> DEFINE Rep == IF output.printed
                      THEN SumFunction([o \in Ops |-> SumFunction(output.stats.ops[o].histogram_data)])
                      ELSE -1
  <2>5. Rep = -1 /\ Rep' = SumFunction(Tally)
    BY <2>3, <2>4
  <2>6. Ready' = Ready /\ Retired' = Retired /\ Tally' = Tally
    BY <2>1 DEF StartPosition
  <2>7. Contract!SumFunction(Tally) = SumFunction(Tally)
    BY DEF SumFunction, SumFunctionOnSet, FoldFunctionOnSet, MapThenFoldSet,
           Contract!SumFunction, Contract!SumFunctionOnSet, Contract!FoldFunctionOnSet,
           Contract!MapThenFoldSet
  <2>8. Contract!Report
    BY <2>2, <2>5, <2>6, <2>7 DEF Contract!Report
  <2>. QED
    BY <2>8 DEF Contract!Next
<1>8. CASE MainStep /\ ~ PrintStats
  <2>1. CASE CreateWorker
    <3>1. next \in Tids /\ pc[next] = "none" /\ UNCHANGED <<pos, output>>
      BY <2>1 DEF CreateWorker, IInv, TypeOK, ControlInv
    <3>2. pc' = pc \/ pc' = [pc EXCEPT ![next] = "reg"]
      BY <2>1 DEF CreateWorker
    <3>3. Ready' = Ready /\ Retired' = Retired
      BY <1>1, <3>1, <3>2
    <3>. QED
      BY <1>3, <3>1, <3>3
  <2>2. CASE ~ CreateWorker
    <3>1. UNCHANGED <<pc, pos, output>>
      BY <1>8, <2>2 DEF MainStep, bm_phase_warmup, CreationDone,
            RecordMaxStart, MainLeaveStart, RecordMinStart, SignalStop, RecordMinStop,
            MainLeaveStop, RecordMaxStop, JoinWorker, AddSpentTime, DestroyTarget,
            bm_phase_cooldown, workerVars
    <3>. QED
      BY <1>3, <3>1
  <2>. QED
    BY <2>1, <2>2
<1>9. ASSUME NEW t \in Tids, WorkerStep(t), ~ Register(t), ~ SeeStop(t), ~ RecordOp(t)
      PROVE  UNCHANGED Contract!vars
  <2>1. UNCHANGED <<pos, output>>
    BY <1>9 DEF WorkerStep, LeaveStart, SeeNoStop, BeginOp, EndOp, LeaveStop, Deregister, mainVars
  <2>2. Ready' = Ready /\ Retired' = Retired
    BY <1>1, <1>9 DEF WorkerStep, LeaveStart, SeeNoStop, BeginOp, EndOp, LeaveStop, Deregister, Move
  <2>. QED
    BY <1>3, <2>1, <2>2
<1>10. CASE Tick \/ UNCHANGED vars
  BY <1>3, <1>10 DEF Tick, vars, mainVars, workerVars
<1>. QED
  BY <1>4, <1>5, <1>6, <1>7, <1>8, <1>9, <1>10 DEF Next, Exited, Contract!Next

\* The benchmark program implements Measurement: operations are counted while
\* all workers take part, and the histograms printed add up to them.
THEOREM Refinement == Spec => ImplementsMeasurement
<1>1. Init => Contract!Init
  <2> SUFFICES ASSUME Init PROVE Contract!Init
    OBVIOUS
  <2>1. \A t \in Tids : pos[t] - StartPosition(t) = 0
    BY StartPositionType DEF Init
  <2>. QED
    BY <2>1 DEF Init, Contract!Init, Unprinted
<1>2. IInv /\ TallyInv /\ [Next]_vars => [Contract!Next]_(Contract!vars)
  BY MeasurementStep
<1>. QED
  BY <1>1, <1>2, Invariant, TallyInvariant, PTL DEF Spec, ImplementsMeasurement, Contract!Spec

=============================================================================
