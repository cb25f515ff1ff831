------------------------------ MODULE Harness ------------------------------
(***************************************************************************)
(* The benchmark program, bench/benchmark.c: the main thread goes through  *)
(* the warm-up, run, conclude and cool-down phases; the num_threads        *)
(* workers it creates register with the target, meet it at the start       *)
(* barrier, dispatch operations until they see the stop flag, meet it at   *)
(* the stop barrier and deregister.                                        *)
(*                                                                         *)
(* Each thread has a program counter.  A label stands for the code up to   *)
(* the next access to something another thread or the clock can change:    *)
(* the barriers, g_stop, g_stats, the target and the time stamp counter.   *)
(***************************************************************************)
EXTENDS BmStats

CONSTANTS
  NumThreads,           \* g_params.num_threads
  DISTRIBUTION_BOUND,   \* length of g_ops, 1024 in the code
  Distribution,         \* g_params.op_dist: slots of g_ops per operation
  Results,              \* what bm_dispatch_operation may return
  CreateMayFail,        \* TRUE when pthread_create may return an error
  MaxClock,             \* bound: readings of the time stamp counter
  MaxOps                \* bound: operations a worker begins

ASSUME HarnessAssumption ==
  /\ NumThreads \in Nat \ {0}
  /\ Tids = 0 .. NumThreads - 1
  /\ DISTRIBUTION_BOUND \in Nat \ {0}
  /\ Results \subseteq OpResult
  /\ CreateMayFail \in BOOLEAN
  /\ MaxClock \in Nat
  /\ MaxOps \in Nat

Main == NumThreads              \* the main thread as a party of the barriers
Parties == 0 .. NumThreads
Slots == 0 .. DISTRIBUTION_BOUND - 1
Unprinted == [printed |-> FALSE]

VARIABLES
  phase,      \* main: what it does next
  next,       \* main: index of the creation and of the join loop
  pc,         \* worker: what it does next
  clock,      \* the time stamp counter
  g_stop,     \* the stop flag
  startArrived, stopArrived,    \* who has called wait on each barrier
  g_ops,      \* the operation of every slot of the distribution
  target,     \* "none", "live" (bm_target_init returned) or "destroyed"
  pos,        \* worker: index i of the loop, a position in g_ops
  opStart,    \* worker: op_start_time
  opEnd,      \* worker: op_end_time
  result,     \* worker: result of the last dispatch
  g_stats,    \* the statistics of every thread and operation
  window,     \* main: the four duration_*_clk readings
  spent,      \* g_stats.min_duration_clk and max_duration_clk
  output      \* what bm_phase_conclude printed

mainVars   == <<phase, next, window, spent, output>>
workerVars == <<pc, pos, opStart, opEnd, result>>
sharedVars == <<clock, g_stop, startArrived, stopArrived, g_ops, target, g_stats>>
vars == <<mainVars, workerVars, sharedVars>>

Phases ==
  {"warmup", "create", "maxstart", "startwait", "started", "sleep", "minstop",
   "stopwait", "stopped", "join", "destroy", "print", "cooldown",
   "exit"}

Labels ==
  {"none", "reg", "startwait", "loop", "begin", "dispatch", "record",
   "stopwait", "dereg", "done"}

\* Fault variant: the barriers are initialised without counting the main thread.
BarrierCountWithoutMain == NumThreads

\* pthread_barrier_init(.., num_threads + 1): the barrier opens when that many
\* calls of wait are pending.
BarrierCount == NumThreads + 1
Open(arrived) == Cardinality(arrived) = BarrierCount

\* threads start at different positions
StartPosition(t) == (DISTRIBUTION_BOUND * t) \div NumThreads

Init ==
  /\ phase = "warmup"
  /\ next = 0
  /\ pc = [t \in Tids |-> "none"]
  /\ clock = 0
  /\ g_stop = FALSE
  /\ startArrived = {} /\ stopArrived = {}
  /\ g_ops = <<>>
  /\ target = "none"
  /\ pos = [t \in Tids |-> StartPosition(t)]
  /\ opStart = [t \in Tids |-> 0]
  /\ opEnd = [t \in Tids |-> 0]
  /\ result = [t \in Tids |-> [op_count |-> 0, succ_count |-> 0]]
  /\ g_stats = <<>>
  /\ window = [maxStart |-> 0, minStart |-> 0, minStop |-> 0, maxStop |-> 0]
  /\ spent = [min |-> 0, max |-> 0]
  /\ output = Unprinted

-----------------------------------------------------------------------------
(* The main thread. *)

Goto(from, to) == phase = from /\ phase' = to

\* Every filling of g_ops with Distribution[o] slots of operation o: the loop
\* places each of them in a free slot drawn at random.
Fillings ==
  {f \in [Slots -> Ops] :
     \A o \in Ops : Cardinality({s \in Slots : f[s] = o}) = Distribution[o]}

bm_phase_warmup ==
  /\ Goto("warmup", "create")
  /\ g_stats' = bm_stat_init
  /\ target' = "live"
  /\ g_ops' \in Fillings
  /\ UNCHANGED <<next, window, spent, output, workerVars, clock, g_stop,
                 startArrived, stopArrived>>

\* The return value of pthread_create is not looked at: a worker that was not
\* created stays at "none" and the loop goes on.
CreateWorker ==
  /\ phase = "create" /\ next < NumThreads
  /\ next' = next + 1
  /\ \/ pc' = [pc EXCEPT ![next] = "reg"]
     \/ CreateMayFail /\ UNCHANGED pc
  /\ UNCHANGED <<phase, window, spent, output, pos, opStart, opEnd, result,
                 sharedVars>>

CreationDone ==
  /\ Goto("create", "maxstart")
  /\ next = NumThreads
  /\ UNCHANGED <<next, window, spent, output, workerVars, sharedVars>>

\* Reads the clock, then waits on the start barrier.
RecordMaxStart ==
  /\ Goto("maxstart", "startwait")
  /\ window' = [window EXCEPT !.maxStart = clock]
  /\ startArrived' = startArrived \cup {Main}
  /\ UNCHANGED <<next, spent, output, workerVars, clock, g_stop, stopArrived,
                 g_ops, target, g_stats>>

MainLeaveStart ==
  /\ Goto("startwait", "started")
  /\ Open(startArrived)
  /\ UNCHANGED <<next, window, spent, output, workerVars, sharedVars>>

RecordMinStart ==
  /\ Goto("started", "sleep")
  /\ window' = [window EXCEPT !.minStart = clock]
  /\ UNCHANGED <<next, spent, output, workerVars, sharedVars>>

\* Fault variant: the stop flag is never stored.
SignalStopLost ==
  /\ Goto("sleep", "minstop")
  /\ UNCHANGED <<next, window, spent, output, workerVars, sharedVars>>

SignalStop ==
  /\ Goto("sleep", "minstop")
  /\ g_stop' = TRUE
  /\ UNCHANGED <<next, window, spent, output, workerVars, clock, startArrived,
                 stopArrived, g_ops, target, g_stats>>

\* Reads the clock, then waits on the stop barrier.
RecordMinStop ==
  /\ Goto("minstop", "stopwait")
  /\ window' = [window EXCEPT !.minStop = clock]
  /\ stopArrived' = stopArrived \cup {Main}
  /\ UNCHANGED <<next, spent, output, workerVars, clock, g_stop, startArrived,
                 g_ops, target, g_stats>>

\* Fault variant: the main thread does not wait on the stop barrier.
MainSkipsStop ==
  /\ Goto("stopwait", "stopped")
  /\ UNCHANGED <<next, window, spent, output, workerVars, sharedVars>>

MainLeaveStop ==
  /\ Goto("stopwait", "stopped")
  /\ Open(stopArrived)
  /\ UNCHANGED <<next, window, spent, output, workerVars, sharedVars>>

\* Fault variant: the target is destroyed as soon as the measurement is over.
RecordMaxStopDestroys ==
  /\ Goto("stopped", "join")
  /\ window' = [window EXCEPT !.maxStop = clock]
  /\ next' = 0
  /\ target' = "destroyed"
  /\ UNCHANGED <<spent, output, workerVars, clock, g_stop, startArrived,
                 stopArrived, g_ops, g_stats>>

RecordMaxStop ==
  /\ Goto("stopped", "join")
  /\ window' = [window EXCEPT !.maxStop = clock]
  /\ next' = 0
  /\ UNCHANGED <<spent, output, workerVars, sharedVars>>

Joined(t) == pc[t] = "done"

JoinWorker ==
  /\ phase = "join" /\ next < NumThreads
  /\ Joined(next)
  /\ next' = next + 1
  /\ UNCHANGED <<phase, window, spent, output, workerVars, sharedVars>>

\* Fault variant: the last thread is not joined.
AllButOneJoined == next >= NumThreads - 1

AllJoined == next = NumThreads

\* Fault variant: the two stop readings are exchanged.
SpentTimeCrossed == [min |-> window.maxStop - window.minStart,
                     max |-> window.minStop - window.maxStart]

\* Fault variant: the upper bound ends at the reading before the stop barrier.
SpentTimeInner == [min |-> window.minStop - window.minStart,
                   max |-> window.minStop - window.maxStart]

\* The durations in clock ticks; those in milliseconds, from readings of another
\* clock next to these, are left out.
SpentTime == [min |-> window.minStop - window.minStart,
              max |-> window.maxStop - window.maxStart]

\* The barriers are destroyed and the durations handed to g_stats.
AddSpentTime ==
  /\ Goto("join", "destroy")
  /\ AllJoined
  /\ startArrived' = {} /\ stopArrived' = {}
  /\ spent' = SpentTime
  /\ UNCHANGED <<next, window, output, workerVars, clock, g_stop, g_ops,
                 target, g_stats>>

DestroyTarget ==
  /\ Goto("destroy", "print")
  /\ target' = "destroyed"
  /\ UNCHANGED <<next, window, spent, output, workerVars, clock, g_stop,
                 startArrived, stopArrived, g_ops, g_stats>>

PrintStats ==
  /\ Goto("print", "cooldown")
  /\ output' = [printed |-> TRUE, stats |-> bm_print_stats(g_stats),
                duration |-> spent]
  /\ UNCHANGED <<next, window, spent, workerVars, sharedVars>>

bm_phase_cooldown ==
  /\ Goto("cooldown", "exit")
  /\ g_stats' = <<>>
  /\ UNCHANGED <<next, window, spent, output, workerVars, clock, g_stop,
                 startArrived, stopArrived, g_ops, target>>

MainStep ==
  \/ bm_phase_warmup \/ CreateWorker \/ CreationDone
  \/ RecordMaxStart \/ MainLeaveStart \/ RecordMinStart
  \/ SignalStop \/ RecordMinStop \/ MainLeaveStop \/ RecordMaxStop
  \/ JoinWorker \/ AddSpentTime
  \/ DestroyTarget \/ PrintStats \/ bm_phase_cooldown

-----------------------------------------------------------------------------
(* A worker: the function run. *)

Move(t, from, to) == pc[t] = from /\ pc' = [pc EXCEPT ![t] = to]

\* bm_target_reg, then the wait on the start barrier.
Register(t) ==
  /\ Move(t, "reg", "startwait")
  /\ startArrived' = startArrived \cup {t}
  /\ UNCHANGED <<mainVars, pos, opStart, opEnd, result, clock, g_stop,
                 stopArrived, g_ops, target, g_stats>>

LeaveStart(t) ==
  /\ Move(t, "startwait", "loop")
  /\ Open(startArrived)
  /\ UNCHANGED <<mainVars, pos, opStart, opEnd, result, sharedVars>>

\* The flag is loaded with memory_order_relaxed: a worker may still read the
\* old value after the store.
SeeNoStop(t) ==
  /\ Move(t, "loop", "begin")
  /\ pos[t] - StartPosition(t) < MaxOps
  /\ UNCHANGED <<mainVars, pos, opStart, opEnd, result, sharedVars>>

\* Leaves the loop, then waits on the stop barrier.
SeeStop(t) ==
  /\ Move(t, "loop", "stopwait")
  /\ g_stop
  /\ stopArrived' = stopArrived \cup {t}
  /\ UNCHANGED <<mainVars, pos, opStart, opEnd, result, clock, g_stop,
                 startArrived, g_ops, target, g_stats>>

\* Fault variant: the index wraps one slot early.
CurrentOpShortCycle(t) == g_ops[pos[t] % (DISTRIBUTION_BOUND - 1)]

CurrentOp(t) == g_ops[pos[t] % DISTRIBUTION_BOUND]

\* Fault variant: the start time is read once, before the loop.
BeginOpHoisted(t) ==
  /\ Move(t, "begin", "dispatch")
  /\ opStart' = [opStart EXCEPT ![t] =
                   IF pos[t] = StartPosition(t) THEN clock ELSE @]
  /\ UNCHANGED <<mainVars, pos, opEnd, result, sharedVars>>

\* Picks the operation and reads the clock.
BeginOp(t) ==
  /\ Move(t, "begin", "dispatch")
  /\ opStart' = [opStart EXCEPT ![t] = clock]
  /\ UNCHANGED <<mainVars, pos, opEnd, result, sharedVars>>

\* bm_dispatch_operation returns and the clock is read again.
EndOp(t) ==
  /\ Move(t, "dispatch", "record")
  /\ \E r \in Results : result' = [result EXCEPT ![t] = r]
  /\ opEnd' = [opEnd EXCEPT ![t] = clock]
  /\ UNCHANGED <<mainVars, pos, opStart, sharedVars>>

\* Fault variant: the operands of the difference are exchanged.
OpTimeNegated(t) == opStart[t] - opEnd[t]

OpTime(t) == opEnd[t] - opStart[t]

\* The noise loop only burns time; skip is always false.
RecordOp(t) ==
  /\ Move(t, "record", "loop")
  /\ g_stats' = bm_stat_add_op(g_stats, t, CurrentOp(t), result[t], OpTime(t), FALSE)
  /\ pos' = [pos EXCEPT ![t] = @ + 1]
  /\ UNCHANGED <<mainVars, opStart, opEnd, result, clock, g_stop,
                 startArrived, stopArrived, g_ops, target>>

LeaveStop(t) ==
  /\ Move(t, "stopwait", "dereg")
  /\ Open(stopArrived)
  /\ UNCHANGED <<mainVars, pos, opStart, opEnd, result, sharedVars>>

Deregister(t) ==
  /\ Move(t, "dereg", "done")
  /\ UNCHANGED <<mainVars, pos, opStart, opEnd, result, sharedVars>>

WorkerStep(t) ==
  \/ Register(t) \/ LeaveStart(t) \/ SeeNoStop(t) \/ SeeStop(t)
  \/ BeginOp(t) \/ EndOp(t) \/ RecordOp(t) \/ LeaveStop(t) \/ Deregister(t)

\* Time passes; the counter is monotone and the same on every core.
Tick ==
  /\ phase # "exit" /\ clock < MaxClock
  /\ clock' = clock + 1
  /\ UNCHANGED <<mainVars, workerVars, g_stop, startArrived, stopArrived,
                 g_ops, target, g_stats>>

\* The process has exited.
Exited == phase = "exit" /\ UNCHANGED vars

Next ==
  \/ MainStep
  \/ \E t \in Tids : WorkerStep(t)
  \/ Tick
  \/ Exited

(***************************************************************************)
(* Every thread is scheduled, an operation of the target returns, and a    *)
(* relaxed store becomes visible to a worker that keeps loading the flag   *)
(* (C11 7.17.3 p16), hence the strong fairness of SeeStop.                 *)
(***************************************************************************)
Fairness ==
  /\ WF_vars(MainStep)
  /\ \A t \in Tids : WF_vars(WorkerStep(t)) /\ SF_vars(SeeStop(t))

Spec == Init /\ [][Next]_vars
FairSpec == Spec /\ Fairness

-----------------------------------------------------------------------------
(* Properties. *)

Statistics == {<<>>} \cup [Tids -> [Ops -> OpStat]]

\* The variables hold values of the C declarations; in particular nothing reads
\* g_ops or g_stats outside the time between their set-up and their release.
TypeOK ==
  /\ phase \in Phases
  /\ next \in 0 .. NumThreads
  /\ pc \in [Tids -> Labels]
  /\ clock \in Nat
  /\ g_stop \in BOOLEAN
  /\ startArrived \subseteq Parties /\ stopArrived \subseteq Parties
  /\ g_ops \in {<<>>} \cup [Slots -> Ops]
  /\ target \in {"none", "live", "destroyed"}
  /\ pos \in [Tids -> Nat]
  /\ opStart \in [Tids -> Nat] /\ opEnd \in [Tids -> Nat]
  /\ result \in [Tids -> OpResult]
  /\ g_stats \in Statistics
  /\ window \in [maxStart: Nat, minStart: Nat, minStop: Nat, maxStop: Nat]
  /\ spent \in [min: Int, max: Int]

Looping == {"loop", "begin", "dispatch", "record"}
Registered == Labels \ {"none", "reg", "done"}

BeforeStart == {"warmup", "create", "maxstart"}
Concluding == {"destroy", "print", "cooldown", "exit"}

\* No worker enters the measured loop before every worker has registered and
\* the main thread has taken the first reading of the measurement window: when
\* a pthread_create fails nobody measures anything.
NobodyStartsEarly ==
  (\E t \in Tids : pc[t] \in Looping \cup {"stopwait", "dereg", "done"}) =>
     /\ phase \notin BeforeStart
     /\ \A t \in Tids : pc[t] \notin {"none", "reg"}

\* The target is live whenever a worker is registered with it, from
\* bm_target_reg to bm_target_dereg: bm_target_destroy comes after all of them.
TargetLiveWhileUsed ==
  (\E t \in Tids : pc[t] \in Registered) => target = "live"

\* The report covers every worker: nothing is printed, and the barriers are not
\* destroyed, while a worker is still running or was never created.
ReportAfterAllWorkers ==
  phase \in Concluding => \A t \in Tids : pc[t] = "done"

\* The lower bound of the measured time in clock ticks is not above the upper
\* bound, so that throughput_min_ts <= throughput_max_ts.
WindowNested ==
  phase \in Concluding => 0 <= spent.min /\ spent.min <= spent.max

\* No recorded latency is longer than the max_duration_clk that is reported.
LatencyFitsWindow ==
  phase \in Concluding \ {"exit"} =>
     \A t \in Tids, o \in Ops : g_stats[t][o].max <= spent.max

\* The time that a worker has recorded for its operations.
Accounted(t) == SumFunction([o \in Ops |-> g_stats[t][o].sum])

\* The time a worker accounts to its operations, all of them together, fits in
\* the reported max_duration_clk: no operation is counted outside the window
\* and no two operations of a worker overlap.
AccountedTimeFits ==
  phase \in Concluding \ {"exit"} =>
     \A t \in Tids : Accounted(t) <= spent.max

\* The operations o that a worker has recorded, whatever their latency.
Recorded(t, o) == SumFunction(g_stats[t][o].histogram_data)

\* After a whole number of rounds through g_ops a worker has recorded every
\* operation exactly as often as the distribution asks for, wherever it began.
CycleMix ==
  g_stats # <<>> =>
    \A t \in Tids, o \in Ops :
      LET begun == pos[t] - StartPosition(t) IN
      begun % DISTRIBUTION_BOUND = 0 =>
        Recorded(t, o) = (begun \div DISTRIBUTION_BOUND) * Distribution[o]

\* From the moment the main thread is through the stop barrier until it frees
\* them, nobody changes the statistics it is going to print.
StatsFrozenAfterStop ==
  [][(phase \in {"stopped", "join", "destroy", "print"}) => g_stats' = g_stats]_vars

\* A benchmark whose threads could all be created ends.
Termination ==
  (phase = "maxstart" /\ \A t \in Tids : pc[t] # "none") ~> (phase = "exit")

-----------------------------------------------------------------------------
(***************************************************************************)
(* The inductive invariant behind the theorems of HarnessProofs.           *)
(***************************************************************************)
AtStop == {"stopwait", "dereg", "done"}
Measuring == {"startwait", "started", "sleep", "minstop", "stopwait", "stopped",
              "join"}

\* What exists in which phase.
LifecycleInv ==
  /\ phase # "warmup" => g_ops \in [Slots -> Ops]
  /\ phase \notin {"warmup", "exit"} => g_stats \in [Tids -> [Ops -> OpStat]]
  /\ target = IF phase = "warmup" THEN "none"
              ELSE IF phase \in {"print", "cooldown", "exit"} THEN "destroyed"
              ELSE "live"

\* Who has arrived at a barrier and has not seen it destroyed.
BarrierInv ==
  phase \notin Concluding =>
    /\ startArrived = {t \in Tids : pc[t] \notin {"none", "reg"}}
                        \cup {p \in {Main} : phase \in Measuring}
    /\ stopArrived = {t \in Tids : pc[t] \in AtStop}
                        \cup {p \in {Main} : phase \in {"stopwait", "stopped", "join"}}

\* How far the workers can be in each phase of the main thread.
ControlInv ==
  /\ phase = "warmup" => next = 0 /\ \A t \in Tids : pc[t] = "none"
  /\ phase = "create" => \A t \in Tids : t >= next => pc[t] = "none"
  /\ NobodyStartsEarly
  /\ phase \in (Measuring \ {"startwait"}) \cup Concluding =>
        \A t \in Tids : pc[t] \notin {"none", "reg"}
  /\ (\E t \in Tids : pc[t] \in {"dereg", "done"}) =>
        /\ phase \in {"stopwait", "stopped", "join"} \cup Concluding
        /\ \A t \in Tids : pc[t] \in AtStop
  /\ phase \in {"stopped", "join"} => \A t \in Tids : pc[t] \in AtStop
  /\ phase = "join" => \A t \in Tids : t < next => pc[t] = "done"
  /\ ReportAfterAllWorkers

\* The readings of the main thread are taken in the order of the window.
WindowInv ==
  /\ phase \notin BeforeStart => window.maxStart <= clock
  /\ phase \in {"sleep", "minstop", "stopwait", "stopped", "join"} =>
        window.maxStart <= window.minStart /\ window.minStart <= clock
  /\ phase \in {"stopwait", "stopped", "join"} =>
        window.minStart <= window.minStop /\ window.minStop <= clock
  /\ phase = "join" => window.minStop <= window.maxStop /\ window.maxStop <= clock
  /\ WindowNested

\* Every operation begun or recorded lies after the first reading and, once the
\* main thread is through the stop barrier, before the last.
OpTimeInv ==
  /\ \A t \in Tids :
       /\ pc[t] \in {"dispatch", "record"} =>
             window.maxStart <= opStart[t] /\ opStart[t] <= clock
       /\ pc[t] = "record" => opStart[t] <= opEnd[t] /\ opEnd[t] <= clock
  /\ \A t \in Tids, o \in Ops :
       /\ phase \in BeforeStart \ {"warmup"} => g_stats[t][o].max = 0
       /\ phase \in Measuring \ {"join"} =>
             g_stats[t][o].max <= clock - window.maxStart
       /\ phase = "join" =>
             g_stats[t][o].max <= window.maxStop - window.maxStart
  /\ LatencyFitsWindow

IInv == TypeOK /\ LifecycleInv /\ BarrierInv /\ ControlInv /\ WindowInv /\ OpTimeInv

\* The time a worker has accounted to its operations lies between the first
\* reading and the beginning of the operation it is in.
AccountInv ==
  /\ \A t \in Tids :
       /\ phase \in BeforeStart \ {"warmup"} => Accounted(t) = 0
       /\ phase \in Measuring \ {"join"} =>
             /\ Accounted(t) <= clock - window.maxStart
             /\ pc[t] \in {"dispatch", "record"} =>
                   Accounted(t) <= opStart[t] - window.maxStart
       /\ phase = "join" => Accounted(t) <= window.maxStop - window.maxStart
  /\ AccountedTimeFits

\* The positions of a worker in g_ops at which it found operation o.
Visited(t, o) ==
  {i \in StartPosition(t) .. pos[t] - 1 : g_ops[i % DISTRIBUTION_BOUND] = o}

\* What a worker has recorded is what it has found in g_ops.
MixInv ==
  /\ \A t \in Tids : StartPosition(t) <= pos[t]
  /\ phase = "warmup" => pos = [t \in Tids |-> StartPosition(t)]
  /\ phase \in {"warmup", "exit"} => g_stats = <<>>
  /\ phase \notin {"warmup", "exit"} =>
       /\ g_ops \in Fillings
       /\ \A t \in Tids, o \in Ops : Recorded(t, o) = Cardinality(Visited(t, o))

\* The dispatches of a worker are all recorded, each of them for one operation
\* and in one bucket; the report comes when the workers are done.
TallyInv ==
  /\ phase \notin {"warmup", "exit"} =>
       \A t \in Tids : SumFunction([o \in Ops |-> Recorded(t, o)]) = pos[t] - StartPosition(t)
  /\ output.printed <=> phase \in {"cooldown", "exit"}

-----------------------------------------------------------------------------
(***************************************************************************)
(* What the benchmark promises its user: module Measurement.               *)
(***************************************************************************)
Contract == INSTANCE Measurement WITH
  Workers <- Tids,
  ready   <- {t \in Tids : pc[t] \notin {"none", "reg"}},
  retired <- {t \in Tids : pc[t] \in {"stopwait", "dereg", "done"}},
  tally   <- [t \in Tids |-> pos[t] - StartPosition(t)],
  report  <- IF output.printed
               THEN SumFunction([o \in Ops |->
                      SumFunction(output.stats.ops[o].histogram_data)])
               ELSE -1

\* The benchmark program implements Measurement: operations are only counted
\* while all workers take part, and the printed histograms add up to the number
\* of operations that were executed.
ImplementsMeasurement == Contract!Spec
=============================================================================
