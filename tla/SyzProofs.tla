----------------------------- MODULE SyzProofs -----------------------------
(***************************************************************************)
(* Proofs about SyzTarget, for any trace, any number of threads and any    *)
(* length of g_ops.  What HarnessProofs shows of a step of the harness is  *)
(* carried over: a step of SyzTarget is one, until an address is refused.  *)
(***************************************************************************)
EXTENDS SyzTarget, HarnessProofs

USE HarnessAssumption, StatsAssumption, SyzAssumption

-----------------------------------------------------------------------------
(* The steps of the composition. *)

\* Nothing but the clock moves after an address was refused.
LEMMA RefusedStep ==
  ASSUME BaseInv, [SyzNext]_syzVars, phase = "refused"
  PROVE  UNCHANGED <<phase, pc, pos, result, g_stats, output, targetVars>>
<1>1. \A t \in Tids : pc[t] = "none"
  BY DEF BaseInv
<1>2. ~ MainStep
  BY DEF MainStep, bm_phase_warmup, CreateWorker, CreationDone, RecordMaxStart,
         MainLeaveStart, RecordMinStart, SignalStop, RecordMinStop, MainLeaveStop,
         RecordMaxStop, JoinWorker, AddSpentTime, DestroyTarget, PrintStats,
         bm_phase_cooldown, Goto
<1>3. \A t \in Tids : ~ SyzWorkerStep(t)
  BY <1>1 DEF SyzWorkerStep, Register, LeaveStart, SeeNoStop, SeeStop, BeginOp, EndOp,
         RecordOp, LeaveStop, Deregister, Move
<1>4. CASE Tick /\ UNCHANGED targetVars
  BY <1>4 DEF Tick, mainVars, workerVars
<1>5. CASE UNCHANGED syzVars
  BY <1>5 DEF syzVars, vars, mainVars, workerVars, sharedVars, targetVars
<1>. QED
  BY <1>2, <1>3, <1>4, <1>5
     DEF SyzNext, SyzMainStep, AddressRefused, Exited, MainStep

\* Before that, a step is a step of the harness.
LEMMA HarnessStep ==
  ASSUME [SyzNext]_syzVars, ~ AddressRefused
  PROVE  [Next]_vars
BY DEF SyzNext, SyzMainStep, SyzWorkerStep, syzVars, Next, MainStep, WorkerStep

\* A step that leaves the target alone and records nothing.
Quiet ==
  /\ UNCHANGED <<pos, result, targetVars>>
  /\ g_stats' = g_stats \/ g_stats' = <<>>
  /\ \A u \in Tids :
       /\ pc'[u] \in Registered => pc[u] \in Registered
       /\ pc'[u] = "done" => pc[u] = "done"
       /\ pc'[u] = "record" <=> pc[u] = "record"
       /\ pc'[u] \in {"none", "reg"} => pc[u] \in {"none", "reg"}

LEMMA SyzCases ==
  ASSUME SyzIInv, [SyzNext]_syzVars
  PROVE  \/ bm_phase_warmup /\ bm_target_init
         \/ \E t \in Tids : Register(t) /\ bm_target_reg(t)
         \/ \E t \in Tids : EndOp(t) /\ bm_dispatch_operation(t)
         \/ \E t \in Tids : Deregister(t) /\ bm_target_dereg(t)
         \/ \E t \in Tids : RecordOp(t) /\ UNCHANGED targetVars
         \/ Quiet
<1>1. CASE phase = "refused"
  <2>1. UNCHANGED <<phase, pc, pos, result, g_stats, output, targetVars>>
    BY <1>1, RefusedStep DEF SyzIInv
  <2>. QED
    BY <2>1 DEF Quiet
<1>2. CASE phase # "refused"
  <2>1. pc \in [Tids -> Labels]
    BY <1>2 DEF SyzIInv, BaseInv, IInv, TypeOK
  <2>2. CASE AddressRefused
    BY <2>2 DEF AddressRefused, workerVars, sharedVars, targetVars, Quiet
  <2>3. CASE phase # "warmup" /\ MainStep /\ UNCHANGED targetVars
    <3>1. CASE CreateWorker
      <4>0. IInv
        BY <1>2 DEF SyzIInv, BaseInv
      <4>1. next \in Tids /\ pc[next] = "none" /\ UNCHANGED <<pos, result, g_stats>>
        BY <3>1, <4>0 DEF IInv, CreateWorker, TypeOK, ControlInv, sharedVars
      <4>2. \A u \in Tids : pc'[u] = pc[u] \/ (pc[u] = "none" /\ pc'[u] = "reg")
        BY <2>1, <3>1, <4>1 DEF CreateWorker
      <4>. QED
        BY <2>3, <4>1, <4>2 DEF Quiet, Registered
    <3>2. CASE ~ CreateWorker
      <4>1. /\ UNCHANGED <<pc, pos, result>>
            /\ g_stats' = g_stats \/ g_stats' = <<>>
        BY <2>3, <3>2 DEF MainStep, bm_phase_warmup, CreationDone, RecordMaxStart,
           MainLeaveStart, RecordMinStart, SignalStop, RecordMinStop, MainLeaveStop,
           RecordMaxStop, JoinWorker, AddSpentTime, DestroyTarget, PrintStats,
           bm_phase_cooldown, Goto, workerVars, sharedVars
      <4>. QED
        BY <2>3, <4>1 DEF Quiet
    <3>. QED
      BY <3>1, <3>2
  <2>4. ASSUME NEW t \in Tids, UNCHANGED targetVars,
               LeaveStart(t) \/ SeeNoStop(t) \/ SeeStop(t) \/ BeginOp(t) \/ LeaveStop(t)
        PROVE  Quiet
    <3>1. UNCHANGED <<pos, result, g_stats>>
      BY <2>4 DEF LeaveStart, SeeNoStop, SeeStop, BeginOp, LeaveStop, sharedVars
    <3>2. \A u \in Tids : \/ pc'[u] = pc[u]
                          \/ /\ pc[u] \in Registered \ {"record"}
                             /\ pc'[u] \in Registered \ {"record"}
      BY <2>1, <2>4 DEF LeaveStart, SeeNoStop, SeeStop, BeginOp, LeaveStop, Move,
                        Registered, Labels
    <3>. QED
      BY <2>4, <3>1, <3>2 DEF Quiet, Registered
  <2>5. CASE (Tick \/ Exited) /\ UNCHANGED targetVars
    BY <2>5 DEF Tick, Exited, vars, mainVars, workerVars, sharedVars, Quiet
  <2>6. CASE UNCHANGED syzVars
    BY <2>6 DEF syzVars, vars, workerVars, sharedVars, targetVars, Quiet
  <2>. QED
    BY <2>2, <2>3, <2>4, <2>5, <2>6 DEF SyzNext, SyzMainStep, SyzWorkerStep
<1>. QED
  BY <1>1, <1>2

LEMMA BaseStep == SyzIInv /\ [SyzNext]_syzVars => BaseInv'
<1>1. SUFFICES ASSUME SyzIInv, [SyzNext]_syzVars PROVE BaseInv'
  OBVIOUS
<1>2. CASE phase = "refused"
  <2>1. UNCHANGED <<phase, pc, g_stats, output>>
    BY <1>1, <1>2, RefusedStep DEF SyzIInv
  <2>. QED
    BY <1>1, <1>2, <2>1 DEF SyzIInv, BaseInv
<1>3. CASE AddressRefused
  <2>1. IInv /\ MixInv /\ TallyInv /\ phase = "warmup" /\ phase' = "refused"
    BY <1>1, <1>3 DEF AddressRefused, SyzIInv, BaseInv
  <2>2. UNCHANGED <<pc, g_stats, output>>
    BY <1>3 DEF AddressRefused, workerVars, sharedVars
  <2>3. (\A t \in Tids : pc[t] = "none") /\ g_stats = <<>> /\ ~ output.printed
    BY <2>1 DEF IInv, ControlInv, MixInv, TallyInv
  <2>. QED
    BY <2>1, <2>2, <2>3 DEF BaseInv
<1>4. CASE phase # "refused" /\ ~ AddressRefused
  <2>1. IInv /\ MixInv /\ TallyInv /\ [Next]_vars
    BY <1>1, <1>4, HarnessStep DEF SyzIInv, BaseInv
  <2>2. IInv' /\ MixInv' /\ TallyInv'
    BY <2>1, TypeStep, LifecycleStep, BarrierStep, ControlStep, WindowStep, OpTimeStep,
       MixStep, TallyStep DEF IInv
  <2>3. phase' # "refused"
    BY <2>2 DEF IInv, TypeOK, Phases
  <2>. QED
    BY <2>2, <2>3 DEF BaseInv
<1>. QED
  BY <1>2, <1>3, <1>4
-----------------------------------------------------------------------------
(* The contexts of the workers. *)

\* The warm-up is taken out of the counters; a replay adds to them.
LEMMA ContextEffect ==
  ASSUME NEW c \in Context, NEW ok \in 0 .. ProgLength
  PROVE  /\ RunProgram(c, ok) \in Context
         /\ RunProgram(c, ok).ptr = c.ptr
         /\ RunProgram(c, ok).num_succeeded + RunProgram(c, ok).num_failed
              = c.num_succeeded + c.num_failed + ProgLength
         /\ AfterWarmup(c) \in Context
         /\ AfterWarmup(c).ptr = c.ptr
         /\ AfterWarmup(c).num_succeeded + AfterWarmup(c).num_failed = 0
<1>1. /\ c.num_succeeded \in Nat /\ c.num_failed \in Nat
      /\ c.ptr \in [Pointers -> {"null", "heap", "static"}]
  BY DEF Context
<1>2. ok \in Nat /\ ProgLength - ok \in Nat
  OBVIOUS
<1>. QED
  BY <1>1, <1>2 DEF Context, RunProgram, AfterWarmup

LEMMA RegisterEffect ==
  ASSUME SyzTypeOK, NEW t \in Tids, bm_target_reg(t)
  PROVE  /\ ctx' \in [Tids -> Context]
         /\ \E made \in BOOLEAN : ctx'[t].ptr = FreshPtr(made)
         /\ ctx'[t].num_succeeded + ctx'[t].num_failed = 0
         /\ \A u \in Tids \ {t} : ctx'[u] = ctx[u]
<1>1. PICK ok \in 0 .. ProgLength, made \in BOOLEAN :
        ctx' = [ctx EXCEPT ![t] = AfterWarmup(RunProgram([ctx[t] EXCEPT !.ptr = FreshPtr(made)], ok))]
  BY DEF bm_target_reg
<1> DEFINE fresh == FreshPtr(made)
           c == [ctx[t] EXCEPT !.ptr = fresh]
<1>2. fresh \in [Pointers -> {"null", "heap", "static"}]
  BY DEF FreshPtr
<1> HIDE DEF fresh
<1>3. c \in Context /\ c.ptr = fresh
  <2>1. ctx[t] \in Context
    BY DEF SyzTypeOK
  <2>2. c = [num_succeeded |-> ctx[t].num_succeeded, num_failed |-> ctx[t].num_failed,
             ptr |-> fresh]
    BY <2>1, SMTT(30) DEF Context
  <2>. QED
    BY <1>2, <2>1, <2>2 DEF Context
<1> HIDE DEF c
<1>4. RunProgram(c, ok) \in Context /\ RunProgram(c, ok).ptr = fresh
  BY <1>3, ContextEffect
<1>5. /\ AfterWarmup(RunProgram(c, ok)) \in Context
      /\ AfterWarmup(RunProgram(c, ok)).ptr = fresh
      /\ AfterWarmup(RunProgram(c, ok)).num_succeeded
           + AfterWarmup(RunProgram(c, ok)).num_failed = 0
  BY <1>4, ContextEffect
<1>6. ctx' = [ctx EXCEPT ![t] = AfterWarmup(RunProgram(c, ok))]
  BY <1>1 DEF c, fresh
<1>7. ctx'[t].ptr = FreshPtr(made)
  BY <1>5, <1>6 DEF SyzTypeOK, fresh
<1>. QED
  BY <1>5, <1>6, <1>7 DEF SyzTypeOK

LEMMA DispatchEffect ==
  ASSUME SyzTypeOK, NEW t \in Tids, bm_dispatch_operation(t)
  PROVE  /\ ctx' \in [Tids -> Context]
         /\ ctx'[t].ptr = ctx[t].ptr
         /\ ctx'[t].num_succeeded + ctx'[t].num_failed
              = ctx[t].num_succeeded + ctx[t].num_failed + ProgLength
         /\ \A u \in Tids \ {t} : ctx'[u] = ctx[u]
<1>1. PICK ok \in 0 .. ProgLength : ctx' = [ctx EXCEPT ![t] = RunProgram(ctx[t], ok)]
  BY DEF bm_dispatch_operation
<1>2. ctx[t] \in Context
  BY DEF SyzTypeOK
<1>3. /\ RunProgram(ctx[t], ok) \in Context
      /\ RunProgram(ctx[t], ok).ptr = ctx[t].ptr
      /\ RunProgram(ctx[t], ok).num_succeeded + RunProgram(ctx[t], ok).num_failed
           = ctx[t].num_succeeded + ctx[t].num_failed + ProgLength
  BY <1>2, ContextEffect
<1>. QED
  BY <1>1, <1>3 DEF SyzTypeOK

LEMMA DeregisterEffect ==
  ASSUME SyzTypeOK, NEW t \in Tids, bm_target_dereg(t)
  PROVE  /\ ctx' \in [Tids -> Context]
         /\ \A p \in Pointers : ctx'[t].ptr[p] = IF p \in Freed THEN "null" ELSE ctx[t].ptr[p]
         /\ \A u \in Tids \ {t} : ctx'[u] = ctx[u]
<1> DEFINE q == [p \in Pointers |-> IF p \in Freed THEN "null" ELSE ctx[t].ptr[p]]
<1>1. ctx[t] \in Context
  BY DEF SyzTypeOK
<1>2. ctx' = [ctx EXCEPT ![t] = [ctx[t] EXCEPT !.ptr = q]]
  BY <1>1 DEF bm_target_dereg, SyzTypeOK, Context
<1>3. q \in [Pointers -> {"null", "heap", "static"}]
  BY <1>1 DEF Context
<1>4. \A p \in Pointers : q[p] = IF p \in Freed THEN "null" ELSE ctx[t].ptr[p]
  OBVIOUS
<1> HIDE DEF q
<1>5. [ctx[t] EXCEPT !.ptr = q] = [num_succeeded |-> ctx[t].num_succeeded,
                                   num_failed |-> ctx[t].num_failed, ptr |-> q]
  BY <1>1 DEF Context
<1>6. [ctx[t] EXCEPT !.ptr = q] \in Context /\ [ctx[t] EXCEPT !.ptr = q].ptr = q
  BY <1>1, <1>3, <1>5 DEF Context
<1>. QED
  BY <1>2, <1>4, <1>6 DEF SyzTypeOK

LEMMA SyzTypeStep == SyzIInv /\ [SyzNext]_syzVars => SyzTypeOK'
<1>1. SUFFICES ASSUME SyzIInv, [SyzNext]_syzVars PROVE SyzTypeOK'
  OBVIOUS
<1>2. SyzTypeOK
  BY <1>1 DEF SyzIInv
<1>3. CASE bm_target_init
  BY <1>2, <1>3 DEF bm_target_init, SyzTypeOK
<1>4. ASSUME NEW t \in Tids, bm_target_reg(t) PROVE SyzTypeOK'
  BY <1>2, <1>4, RegisterEffect DEF bm_target_reg, SyzTypeOK
<1>5. ASSUME NEW t \in Tids, bm_dispatch_operation(t) PROVE SyzTypeOK'
  <2>1. executed' \in [Tids -> Nat]
    BY <1>2, <1>5 DEF bm_dispatch_operation, SyzTypeOK
  <2>. QED
    BY <1>2, <1>5, <2>1, DispatchEffect DEF bm_dispatch_operation, SyzTypeOK
<1>6. ASSUME NEW t \in Tids, bm_target_dereg(t) PROVE SyzTypeOK'
  BY <1>2, <1>6, DeregisterEffect DEF bm_target_dereg, SyzTypeOK
<1>7. CASE UNCHANGED targetVars
  BY <1>2, <1>7 DEF targetVars, SyzTypeOK
<1>. QED
  BY <1>1, <1>3, <1>4, <1>5, <1>6, <1>7, SyzCases DEF Quiet

LEMMA MemoryStep == SyzIInv /\ [SyzNext]_syzVars => MemoryInv'
<1>1. SUFFICES ASSUME SyzIInv, [SyzNext]_syzVars PROVE MemoryInv'
  OBVIOUS
<1>2. SyzTypeOK /\ MemoryInv
  BY <1>1 DEF SyzIInv
<1>3. \A t \in Tids, p \in Pointers :
        pc[t] \in Registered => \E made \in BOOLEAN : ctx[t].ptr[p] = FreshPtr(made)[p]
  BY <1>2 DEF MemoryInv
<1>4. phase \in Phases => pc \in [Tids -> Labels]
  BY <1>1 DEF SyzIInv, BaseInv, IInv, TypeOK, Phases
<1>5. \A t \in Tids : pc[t] # "none" => phase \in Phases
  BY <1>1 DEF SyzIInv, BaseInv, IInv, TypeOK
<1>6. CASE bm_phase_warmup /\ bm_target_init
  <2>1. /\ \A t \in Tids : pc'[t] = "none"
        /\ UNCHANGED freedStatic
    BY <1>1, <1>6 DEF SyzIInv, BaseInv, IInv, ControlInv, bm_phase_warmup, Goto, workerVars,
         bm_target_init
  <2>. QED
    BY <1>2, <2>1 DEF MemoryInv, Registered
<1>7. ASSUME NEW t \in Tids, Register(t), bm_target_reg(t)
      PROVE  MemoryInv'
  <2>1. /\ pc'[t] = "startwait" /\ \A u \in Tids \ {t} : pc'[u] = pc[u]
        /\ UNCHANGED <<addr_inited, freedStatic>>
    BY <1>4, <1>5, <1>7 DEF Register, Move, bm_target_reg
  <2>2. /\ \E made \in BOOLEAN : ctx'[t].ptr = FreshPtr(made)
        /\ \A u \in Tids \ {t} : ctx'[u] = ctx[u]
    BY <1>2, <1>7, RegisterEffect
  <2>. QED
    BY <1>2, <2>1, <2>2 DEF MemoryInv, FreshPtr
<1>8. ASSUME NEW t \in Tids, EndOp(t), bm_dispatch_operation(t)
      PROVE  MemoryInv'
  <2>1. /\ pc[t] = "dispatch" /\ pc'[t] = "record" /\ \A u \in Tids \ {t} : pc'[u] = pc[u]
        /\ UNCHANGED <<addr_inited, freedStatic>>
    BY <1>4, <1>5, <1>8 DEF EndOp, Move, bm_dispatch_operation
  <2>2. ctx'[t].ptr = ctx[t].ptr /\ \A u \in Tids \ {t} : ctx'[u] = ctx[u]
    BY <1>2, <1>8, DispatchEffect
  <2>. QED
    BY <1>2, <2>1, <2>2 DEF MemoryInv, FreshPtr, Registered, Labels
<1>9. ASSUME NEW t \in Tids, Deregister(t), bm_target_dereg(t)
      PROVE  MemoryInv'
  <2>1. /\ pc[t] = "dereg" /\ pc'[t] = "done" /\ \A u \in Tids \ {t} : pc'[u] = pc[u]
        /\ UNCHANGED addr_inited
    BY <1>4, <1>5, <1>9 DEF Deregister, Move, bm_target_dereg
  <2>2. /\ \A p \in Pointers : ctx'[t].ptr[p] = IF p \in Freed THEN "null" ELSE ctx[t].ptr[p]
        /\ \A u \in Tids \ {t} : ctx'[u] = ctx[u]
    BY <1>2, <1>9, DeregisterEffect
  <2>3. \A p \in Pointers : \E made \in BOOLEAN : ctx[t].ptr[p] = FreshPtr(made)[p]
    BY <1>3, <2>1 DEF Registered, Labels
  <2>4. \A p \in Freed : p \in Pointers /\ ctx[t].ptr[p] # "static"
    BY <2>3 DEF Freed, FreshPtr
  <2>5. \A p \in Pointers : ctx'[t].ptr[p] # "heap"
    BY <2>2, <2>3 DEF Freed, FreshPtr
  <2>6. ~ freedStatic'
    BY <1>2, <1>9, <2>4 DEF bm_target_dereg, MemoryInv
  <2>7. pc'[t] \notin Registered
    BY <2>1 DEF Registered
  <2>. QED
    BY <1>2, <2>1, <2>2, <2>5, <2>6, <2>7 DEF MemoryInv, FreshPtr
<1>10. ASSUME NEW t \in Tids, RecordOp(t), UNCHANGED targetVars
       PROVE  MemoryInv'
  <2>1. pc[t] = "record" /\ pc'[t] = "loop" /\ \A u \in Tids \ {t} : pc'[u] = pc[u]
    BY <1>4, <1>5, <1>10 DEF RecordOp, Move
  <2>. QED
    BY <1>2, <1>10, <2>1 DEF MemoryInv, FreshPtr, Registered, Labels, targetVars
<1>11. CASE Quiet
  BY <1>2, <1>11 DEF MemoryInv, FreshPtr, Quiet, targetVars
<1>. QED
  BY <1>1, <1>6, <1>7, <1>8, <1>9, <1>10, <1>11, SyzCases

-----------------------------------------------------------------------------
(* The counters. *)

\* The number of dispatches is one.
LEMMA DispatchesType ==
  ASSUME SyzIInv, NEW t \in Tids
  PROVE  Dispatches(t) \in Nat
<1>1. CASE phase = "refused"
  BY <1>1 DEF SyzIInv, BaseInv, CounterInv
<1>2. CASE phase # "refused"
  <2>1. pos[t] \in Nat /\ StartPosition(t) <= pos[t]
    BY <1>2 DEF SyzIInv, BaseInv, IInv, TypeOK, MixInv
  <2>. QED
    BY <2>1, StartPositionType DEF Dispatches
<1>. QED
  BY <1>1, <1>2

LEMMA CounterStep == SyzIInv /\ [SyzNext]_syzVars => CounterInv'
<1>1. SUFFICES ASSUME SyzIInv, [SyzNext]_syzVars PROVE CounterInv'
  OBVIOUS
<1>2. SyzTypeOK /\ CounterInv
  BY <1>1 DEF SyzIInv
<1>3. phase \in Phases => pc \in [Tids -> Labels]
  BY <1>1 DEF SyzIInv, BaseInv, IInv, TypeOK, Phases
<1>4. \A t \in Tids : pc[t] # "none" => phase \in Phases
  BY <1>1 DEF SyzIInv, BaseInv, IInv, TypeOK
<1>5. ASSUME UNCHANGED <<pos, executed>>
      PROVE  \A t \in Tids : Dispatches(t)' = Dispatches(t) /\ executed'[t] = executed[t]
  BY <1>5 DEF Dispatches, StartPosition
<1>6. CASE bm_phase_warmup /\ bm_target_init
  <2>1. UNCHANGED <<pc, pos, result, executed, ctx>>
    BY <1>6 DEF bm_phase_warmup, workerVars, bm_target_init
  <2>. QED
    BY <1>2, <1>5, <2>1 DEF CounterInv, WarmupNotCounted
<1>7. ASSUME NEW t \in Tids, Register(t), bm_target_reg(t)
      PROVE  CounterInv'
  <2>1. /\ pc[t] = "reg" /\ pc'[t] = "startwait" /\ \A u \in Tids \ {t} : pc'[u] = pc[u]
        /\ UNCHANGED <<pos, result, executed>>
    BY <1>3, <1>4, <1>7 DEF Register, Move, bm_target_reg
  <2>2. ctx'[t].num_succeeded + ctx'[t].num_failed = 0 /\ \A u \in Tids \ {t} : ctx'[u] = ctx[u]
    BY <1>2, <1>7, RegisterEffect
  <2>3. executed[t] = 0
    BY <1>2, <2>1 DEF CounterInv
  <2>4. \A u \in Tids : Dispatches(u)' = Dispatches(u) /\ executed'[u] = executed[u]
    BY <1>5, <2>1
  <2>. QED
    BY <1>2, <2>1, <2>2, <2>3, <2>4 DEF CounterInv, WarmupNotCounted
<1>8. ASSUME NEW t \in Tids, EndOp(t), bm_dispatch_operation(t)
      PROVE  CounterInv'
  <2>1. /\ pc[t] = "dispatch" /\ pc'[t] = "record" /\ \A u \in Tids \ {t} : pc'[u] = pc[u]
        /\ pos' = pos /\ \A u \in Tids \ {t} : result'[u] = result[u]
    BY <1>1, <1>3, <1>4, <1>8 DEF EndOp, Move, SyzIInv, BaseInv, IInv, TypeOK
  <2>2. /\ ctx'[t].num_succeeded + ctx'[t].num_failed
             = ctx[t].num_succeeded + ctx[t].num_failed + ProgLength
        /\ \A u \in Tids \ {t} : ctx'[u] = ctx[u]
    BY <1>2, <1>8, DispatchEffect
  <2>3. result'[t] = DispatchResult(ctx'[t])
    BY <1>8 DEF bm_dispatch_operation
  <2>4. /\ executed'[t] = executed[t] + ProgLength
        /\ \A u \in Tids \ {t} : executed'[u] = executed[u]
    BY <1>2, <1>8 DEF bm_dispatch_operation, SyzTypeOK
  <2>5. \A u \in Tids : Dispatches(u)' = Dispatches(u)
    BY <2>1 DEF Dispatches, StartPosition
  <2>6. executed'[t] = ProgLength * (Dispatches(t) + 1)
    <3> DEFINE n == Dispatches(t)
    <3>1. n \in Nat
      BY <1>1, DispatchesType
    <3>2. executed[t] = ProgLength * n
      BY <1>2, <2>1, <3>1 DEF CounterInv
    <3> HIDE DEF n
    <3>3. ProgLength * (n + 1) = ProgLength * n + ProgLength
      BY <3>1
    <3>. QED
      BY <2>4, <3>2, <3>3 DEF n
  <2>7. ctx'[t].num_succeeded + ctx'[t].num_failed = executed'[t]
    BY <1>2, <2>1, <2>2, <2>4 DEF CounterInv, WarmupNotCounted, Registered, Labels
  <2>8. (DispatchResult(ctx[t]))' = DispatchResult(ctx'[t])
    BY DEF DispatchResult
  <2>. QED
    BY <1>2, <2>1, <2>2, <2>3, <2>4, <2>5, <2>6, <2>7, <2>8
       DEF CounterInv, WarmupNotCounted, DispatchResult
<1>9. ASSUME NEW t \in Tids, Deregister(t), bm_target_dereg(t)
      PROVE  CounterInv'
  <2>1. /\ pc[t] = "dereg" /\ pc'[t] = "done" /\ \A u \in Tids \ {t} : pc'[u] = pc[u]
        /\ UNCHANGED <<pos, result, executed>>
    BY <1>3, <1>4, <1>9 DEF Deregister, Move, bm_target_dereg
  <2>2. \A u \in Tids \ {t} : ctx'[u] = ctx[u]
    BY <1>2, <1>9, DeregisterEffect
  <2>3. \A u \in Tids : Dispatches(u)' = Dispatches(u) /\ executed'[u] = executed[u]
    BY <1>5, <2>1
  <2>4. WarmupNotCounted'
    BY <1>2, <2>1, <2>2, <2>3 DEF CounterInv, WarmupNotCounted, Registered
  <2>5. executed'[t] = ProgLength * (Dispatches(t)' + IF pc'[t] = "record" THEN 1 ELSE 0)
    BY <1>2, <2>1, <2>3 DEF CounterInv
  <2>. QED
    BY <1>2, <2>1, <2>2, <2>3, <2>4, <2>5 DEF CounterInv, DispatchResult
<1>10. ASSUME NEW t \in Tids, RecordOp(t), UNCHANGED targetVars
       PROVE  CounterInv'
  <2>1. /\ pc[t] = "record" /\ pc'[t] = "loop" /\ \A u \in Tids \ {t} : pc'[u] = pc[u]
        /\ UNCHANGED <<ctx, executed, result>>
    BY <1>3, <1>4, <1>10 DEF RecordOp, Move, targetVars
  <2>2. /\ Dispatches(t)' = Dispatches(t) + 1
        /\ \A u \in Tids \ {t} : Dispatches(u)' = Dispatches(u)
    <3>1. phase # "refused"
      BY <1>4, <2>1 DEF Phases
    <3>2. pos \in [Tids -> Nat] /\ pos' = [pos EXCEPT ![t] = pos[t] + 1]
      BY <1>1, <1>10, <3>1 DEF RecordOp, SyzIInv, BaseInv, IInv, TypeOK
    <3>3. pos'[t] = pos[t] + 1 /\ pos[t] \in Nat /\ \A u \in Tids \ {t} : pos'[u] = pos[u]
      BY <3>2
    <3>4. StartPosition(t) \in Nat /\ \A u \in Tids : Dispatches(u)' = pos'[u] - StartPosition(u)
      BY StartPositionType DEF Dispatches, StartPosition
    <3>5. (pos[t] + 1) - StartPosition(t) = (pos[t] - StartPosition(t)) + 1
      BY <3>3, <3>4
    <3>. QED
      BY <3>3, <3>4, <3>5 DEF Dispatches
  <2>3. executed[t] = ProgLength * (Dispatches(t) + 1)
    BY <1>2, <2>1 DEF CounterInv
  <2>4. Dispatches(t) \in Nat
    BY <1>1, DispatchesType
  <2>5. executed'[t] = ProgLength * (Dispatches(t)' + 0)
    BY <2>1, <2>2, <2>3, <2>4
  <2>6. ctx'[t].num_succeeded + ctx'[t].num_failed = executed'[t]
    BY <1>2, <2>1 DEF CounterInv, WarmupNotCounted, Registered, Labels
  <2>. QED
    BY <1>2, <2>1, <2>2, <2>5, <2>6 DEF CounterInv, WarmupNotCounted, DispatchResult
<1>11. CASE Quiet
  <2>1. \A u \in Tids : Dispatches(u)' = Dispatches(u) /\ executed'[u] = executed[u]
    BY <1>5, <1>11 DEF Quiet, targetVars
  <2>. QED
    BY <1>2, <1>11, <2>1 DEF CounterInv, WarmupNotCounted, Quiet, targetVars, DispatchResult
<1>. QED
  BY <1>1, <1>6, <1>7, <1>8, <1>9, <1>10, <1>11, SyzCases

\* There is one operation.
LEMMA OneOperation == TheOp \in Ops /\ \A o \in Ops : o = TheOp
<1>1. \E x : Ops = {x}
  BY FS_Singleton
<1>. QED
  BY <1>1 DEF TheOp

LEMMA TotalStep == SyzIInv /\ [SyzNext]_syzVars => TotalInv'
<1>1. SUFFICES ASSUME SyzIInv, [SyzNext]_syzVars PROVE TotalInv'
  OBVIOUS
<1>2. SyzTypeOK /\ CounterInv /\ TotalInv
  BY <1>1 DEF SyzIInv
<1>3. ASSUME UNCHANGED pos, g_stats' = g_stats \/ g_stats' = <<>>
      PROVE  TotalInv'
  <2>1. \A t \in Tids : Dispatches(t)' = Dispatches(t)
    BY <1>3 DEF Dispatches, StartPosition
  <2>. QED
    BY <1>2, <1>3, <2>1 DEF TotalInv
<1>4. CASE bm_phase_warmup
  <2>1. \A t \in Tids : g_stats'[t][TheOp] = EmptyOpStat
    BY <1>4, OneOperation DEF bm_phase_warmup, bm_stat_init
  <2>2. \A t \in Tids : Dispatches(t)' = 0
    <3>1. pos' = pos /\ \A t \in Tids : pc[t] = "none"
      BY <1>1, <1>4 DEF bm_phase_warmup, workerVars, Goto, SyzIInv, BaseInv, IInv, ControlInv
    <3>2. \A t \in Tids : Dispatches(t) = 0
      BY <1>2, <3>1 DEF CounterInv
    <3>. QED
      BY <3>1, <3>2 DEF Dispatches, StartPosition
  <2>. QED
    BY <2>1, <2>2 DEF TotalInv, EmptyOpStat
<1>5. ASSUME NEW t \in Tids, RecordOp(t), UNCHANGED targetVars
      PROVE  TotalInv'
  <2>1. IInv /\ phase # "refused" /\ pc[t] = "record"
    BY <1>1, <1>5 DEF RecordOp, Move, SyzIInv, BaseInv
  <2> DEFINE old == g_stats[t][TheOp]
             new == g_stats'[t][TheOp]
             n == Dispatches(t)
  <2>2. CurrentOp(t) = TheOp /\ OpTime(t) \in Nat
    BY <1>5, <2>1, RecordEffect, OneOperation
  <2>3. /\ g_stats \in [Tids -> [Ops -> OpStat]]
        /\ new = AddSample(old, result[t], OpTime(t))
        /\ \A u \in Tids \ {t} : g_stats'[u][TheOp] = g_stats[u][TheOp]
    BY <1>5, <2>1, <2>2, RecordEffect, OneOperation
  <2>4. old.count \in Nat /\ old.succ_count \in Nat
    BY <2>3, OneOperation DEF OpStat
  <2>5. g_stats # <<>>
    <3>1. phase \notin {"warmup", "exit"}
      BY <1>5, <2>1, RecordEffect DEF Measuring
    <3>2. DOMAIN g_stats = Tids
      BY <2>3
    <3>3. DOMAIN <<>> = {}
      OBVIOUS
    <3>. QED
      BY <3>2, <3>3
  <2>6. /\ old.succ_count <= old.count
        /\ 2 * old.count = ProgLength * (n * (n + 1))
    BY <1>2, <2>5 DEF TotalInv
  <2>7. /\ result[t].op_count = ctx[t].num_succeeded + ctx[t].num_failed
        /\ result[t].succ_count = ctx[t].num_succeeded
        /\ ctx[t].num_succeeded \in Nat /\ ctx[t].num_failed \in Nat
    <3>1. result[t] = DispatchResult(ctx[t]) /\ ctx[t] \in Context
      BY <1>2, <2>1 DEF CounterInv, SyzTypeOK
    <3>. QED
      BY <3>1 DEF DispatchResult, Context
  <2>8. ctx[t].num_succeeded + ctx[t].num_failed = ProgLength * (n + 1)
    BY <1>2, <2>1 DEF CounterInv, WarmupNotCounted, Registered, Labels
  <2>9. n \in Nat
    BY <1>1, DispatchesType
  <2>10. /\ Dispatches(t)' = n + 1
         /\ \A u \in Tids \ {t} : Dispatches(u)' = Dispatches(u)
    <3>1. pos \in [Tids -> Nat] /\ pos' = [pos EXCEPT ![t] = pos[t] + 1]
      BY <1>5, <2>1 DEF RecordOp, IInv, TypeOK
    <3>2. pos'[t] = pos[t] + 1 /\ pos[t] \in Nat /\ \A u \in Tids \ {t} : pos'[u] = pos[u]
      BY <3>1
    <3>3. StartPosition(t) \in Nat /\ \A u \in Tids : Dispatches(u)' = pos'[u] - StartPosition(u)
      BY StartPositionType DEF Dispatches, StartPosition
    <3>4. (pos[t] + 1) - StartPosition(t) = (pos[t] - StartPosition(t)) + 1
      BY <3>2, <3>3
    <3>. QED
      BY <3>2, <3>3, <3>4 DEF Dispatches
  <2>11. /\ new.count = old.count + ProgLength * (n + 1)
         /\ new.succ_count = old.succ_count + ctx[t].num_succeeded
    BY <2>3, <2>7, <2>8 DEF AddSample
  <2> HIDE DEF old, new, n
  <2>12. new.succ_count <= new.count
    <3>1. new.count = old.count + (ctx[t].num_succeeded + ctx[t].num_failed)
      BY <2>8, <2>11
    <3>. QED
      BY <2>4, <2>6, <2>7, <2>11, <3>1, SMTT(30)
  <2>13. 2 * new.count = ProgLength * ((n + 1) * ((n + 1) + 1))
    <3> DEFINE m == ProgLength * (n + 1)
    <3>1. m \in Nat
      BY <2>9
    <3>2. ProgLength * (n * (n + 1)) = n * m
      BY <2>9
    <3>3. ProgLength * ((n + 1) * ((n + 1) + 1)) = n * m + 2 * m
      BY <2>9
    <3>4. 2 * new.count = 2 * old.count + 2 * m
      <4> HIDE DEF m
      <4>. QED
        BY <2>4, <2>11, <3>1 DEF m
    <3>5. n * m \in Nat
      BY <2>9, <3>1
    <3> HIDE DEF m
    <3>. QED
      BY <2>6, <3>1, <3>2, <3>3, <3>4, <3>5
  <2>. QED
    BY <1>2, <2>3, <2>5, <2>10, <2>12, <2>13 DEF TotalInv, new
<1>6. ASSUME UNCHANGED <<pos, g_stats>> PROVE TotalInv'
  BY <1>3, <1>6
<1>7. ASSUME NEW t \in Tids, Register(t) \/ EndOp(t) \/ Deregister(t) PROVE TotalInv'
  BY <1>6, <1>7 DEF Register, EndOp, Deregister, sharedVars
<1>8. CASE Quiet
  BY <1>3, <1>8 DEF Quiet
<1>. QED
  BY <1>1, <1>4, <1>5, <1>7, <1>8, SyzCases

-----------------------------------------------------------------------------
(* The theorems. *)

LEMMA SyzInitInv == SyzInit => SyzIInv
<1> SUFFICES ASSUME SyzInit PROVE SyzIInv
  OBVIOUS
<1>1. BaseInv
  <2>1. IInv
    BY InitIInv DEF SyzInit
  <2>2. MixInv
    BY StartPositionType DEF SyzInit, Init, MixInv
  <2>3. TallyInv
    BY DEF SyzInit, Init, TallyInv, Unprinted
  <2>. QED
    BY <2>1, <2>2, <2>3 DEF BaseInv, SyzInit, Init
<1>2. SyzTypeOK
  BY DEF SyzInit, SyzTypeOK, Context
<1>3. MemoryInv
  BY DEF SyzInit, Init, MemoryInv, Registered
<1>4. CounterInv
  <2>1. \A t \in Tids : Dispatches(t) = 0 /\ pc[t] = "none" /\ executed[t] = 0
    BY StartPositionType DEF Dispatches, SyzInit, Init
  <2>. QED
    BY <2>1 DEF CounterInv, WarmupNotCounted, Registered
<1>5. TotalInv
  BY DEF SyzInit, Init, TotalInv
<1>. QED
  BY <1>1, <1>2, <1>3, <1>4, <1>5 DEF SyzIInv

\* The inductive invariant of the program with a generated target.
THEOREM SyzInvariant == SyzSpec => []SyzIInv
<1>1. SyzIInv /\ [SyzNext]_syzVars => SyzIInv'
  BY BaseStep, SyzTypeStep, MemoryStep, CounterStep, TotalStep DEF SyzIInv
<1>. QED
  BY SyzInitInv, <1>1, PTL DEF SyzSpec

\* The warm-up iteration of bm_target_reg leaves no trace in the counters.
THEOREM WarmupDiscarded == SyzSpec => []WarmupNotCounted
<1>1. SyzIInv => WarmupNotCounted
  BY DEF SyzIInv, CounterInv
<1>. QED
  BY <1>1, SyzInvariant, PTL

\* Memory of a context is released exactly once, and no address of the
\* environment is freed by the threads that share it.
THEOREM MemorySafe == SyzSpec => []ContextMemory
<1>1. SyzIInv => ContextMemory
  BY DEF SyzIInv, MemoryInv, ContextMemory, FreshPtr
<1>. QED
  BY <1>1, SyzInvariant, PTL

\* What is recorded after n dispatches is n(n+1)/2 times the length of the
\* trace, and no more than that succeeded.
THEOREM RecordedSafe == SyzSpec => []RecordedCount
<1>1. SyzIInv => RecordedCount
  <2>1. SUFFICES ASSUME SyzIInv, g_stats # <<>>, NEW t \in Tids
                 PROVE  /\ g_stats[t][TheOp].succ_count <= g_stats[t][TheOp].count
                        /\ g_stats[t][TheOp].count
                             = (ProgLength * Dispatches(t) * (Dispatches(t) + 1)) \div 2
    BY DEF RecordedCount
  <2> DEFINE n == Dispatches(t)
             c == g_stats[t][TheOp].count
  <2>2. n \in Nat
    BY <2>1, DispatchesType
  <2>3. c \in Nat
    <3>1. phase # "refused" /\ phase \notin {"warmup", "exit"}
      BY <2>1 DEF SyzIInv, BaseInv, MixInv
    <3>2. g_stats \in [Tids -> [Ops -> OpStat]]
      BY <2>1, <3>1 DEF SyzIInv, BaseInv, IInv, LifecycleInv
    <3>. QED
      BY <3>2, OneOperation DEF OpStat
  <2>4. /\ g_stats[t][TheOp].succ_count <= c
        /\ 2 * c = ProgLength * (n * (n + 1))
    BY <2>1 DEF SyzIInv, TotalInv
  <2> HIDE DEF n, c
  <2>5. ProgLength * n * (n + 1) = ProgLength * (n * (n + 1))
    BY <2>2
  <2>6. (2 * c) \div 2 = c
    BY <2>3
  <2>7. c = (ProgLength * n * (n + 1)) \div 2
    BY <2>4, <2>5, <2>6
  <2>. QED
    BY <2>4, <2>7 DEF n, c
<1>. QED
  BY <1>1, SyzInvariant, PTL

\* With a generated target too, the barriers and joins order the start of the
\* measurement, the use of the target and the report.
THEOREM SyzControlSafe ==
  SyzSpec => [](NobodyStartsEarly /\ TargetLiveWhileUsed /\ ReportAfterAllWorkers)
<1>1. SyzIInv => NobodyStartsEarly /\ TargetLiveWhileUsed /\ ReportAfterAllWorkers
  <2>1. SUFFICES ASSUME SyzIInv
                 PROVE  NobodyStartsEarly /\ TargetLiveWhileUsed /\ ReportAfterAllWorkers
    OBVIOUS
  <2>2. CASE phase = "refused"
    BY <2>1, <2>2 DEF SyzIInv, BaseInv, NobodyStartsEarly, TargetLiveWhileUsed,
          ReportAfterAllWorkers, Looping, Registered, Concluding
  <2>3. CASE phase # "refused"
    <3>1. IInv
      BY <2>1, <2>3 DEF SyzIInv, BaseInv
    <3>. QED
      BY <3>1 DEF IInv, ControlInv, LifecycleInv, NobodyStartsEarly, ReportAfterAllWorkers,
            TargetLiveWhileUsed, Registered, Labels, Concluding
  <2>. QED
    BY <2>2, <2>3
<1>. QED
  BY <1>1, SyzInvariant, PTL

\* The windows are nested and hold every recorded latency with a generated
\* target too, in whose dispatches a whole trace is executed.
THEOREM SyzWindowSafe == SyzSpec => [](WindowNested /\ LatencyFitsWindow)
<1>1. SyzIInv => WindowNested /\ LatencyFitsWindow
  <2>1. SUFFICES ASSUME SyzIInv PROVE WindowNested /\ LatencyFitsWindow
    OBVIOUS
  <2>2. CASE phase = "refused"
    BY <2>2 DEF WindowNested, LatencyFitsWindow, Concluding
  <2>3. CASE phase # "refused"
    <3>1. IInv
      BY <2>1, <2>3 DEF SyzIInv, BaseInv
    <3>. QED
      BY <3>1 DEF IInv, WindowInv, OpTimeInv
  <2>. QED
    BY <2>2, <2>3
<1>. QED
  BY <1>1, SyzInvariant, PTL

\* The program with a generated target implements Measurement as well: a
\* refused address only means that the session never begins.
THEOREM SyzRefinement == SyzSpec => ImplementsMeasurement
<1>1. SyzInit => Contract!Init
  <2> SUFFICES ASSUME SyzInit PROVE Contract!Init
    OBVIOUS
  <2>1. \A t \in Tids : pos[t] - StartPosition(t) = 0
    BY StartPositionType DEF SyzInit, Init
  <2>. QED
    BY <2>1 DEF SyzInit, Init, Contract!Init, Unprinted
<1>2. SyzIInv /\ [SyzNext]_syzVars => [Contract!Next]_(Contract!vars)
  <2>1. SUFFICES ASSUME SyzIInv, [SyzNext]_syzVars
                 PROVE  [Contract!Next]_(Contract!vars)
    OBVIOUS
  <2>2. CASE phase = "refused" \/ AddressRefused
    <3>1. UNCHANGED <<pc, pos, output>>
      BY <2>1, <2>2, RefusedStep DEF SyzIInv, AddressRefused, workerVars
    <3>. QED
      BY <3>1 DEF Contract!vars, StartPosition
  <2>3. CASE phase # "refused" /\ ~ AddressRefused
    <3>1. IInv /\ TallyInv /\ [Next]_vars
      BY <2>1, <2>3, HarnessStep DEF SyzIInv, BaseInv
    <3>. QED
      BY <3>1, MeasurementStep
  <2>. QED
    BY <2>2, <2>3
<1>. QED
  BY <1>1, <1>2, SyzInvariant, PTL DEF SyzSpec, ImplementsMeasurement, Contract!Spec

=============================================================================
