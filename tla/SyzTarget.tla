----------------------------- MODULE SyzTarget -----------------------------
(***************************************************************************)
(* The benchmark program with a target made by bm-generator from a system  *)
(* call trace (bm-generator/templates/syz_single.h.in): Harness, with what *)
(* bm_target_init, bm_target_reg, bm_dispatch_operation and                *)
(* bm_target_dereg of the template do conjoined to the steps that call     *)
(* them.  A dispatch replays the trace, ProgLength system calls.           *)
(*                                                                         *)
(* Left out: the temporary directory and its files, the descriptor of that *)
(* directory and the mapping, which are never released, the contents of    *)
(* the addresses, and the name that mkdtemp was given, which is lost when  *)
(* mkdtemp fails.  The counters are `int's: fewer than 2^31 system calls   *)
(* per thread are assumed.                                                 *)
(***************************************************************************)
EXTENDS Harness

CONSTANT ProgLength     \* number of system calls of the trace

ASSUME SyzAssumption ==
  /\ ProgLength \in Nat \ {0}
  /\ Cardinality(Ops) = 1       \* NUM_SYSCALLS

\* The pointers of thread_ctx_t; two of them may be set by the environment.
FromEnv == {"connect4_arg", "bind4_arg"}
Pointers == FromEnv \cup {"tmpdir", "writeBuffer", "connect6_arg", "bind6_arg"}

VARIABLES
  addr_inited,    \* bm_connect_addr_inited, bm_bind_addr_inited
  ctx,            \* worker: num_succeeded, num_failed and the pointers
  freedStatic,    \* free was called with the address of a static variable
  executed        \* worker: system calls since the start barrier (history)

syzVars == <<vars, addr_inited, ctx, freedStatic, executed>>

SyzInit ==
  /\ Init
  /\ addr_inited = [p \in FromEnv |-> FALSE]
  /\ ctx = [t \in Tids |-> [num_succeeded |-> 0, num_failed |-> 0,
                            ptr |-> [p \in Pointers |-> "null"]]]
  /\ freedStatic = FALSE
  /\ executed = [t \in Tids |-> 0]

\* parse_net_addr: an address of the environment is stored in a static variable.
bm_target_init ==
  /\ addr_inited' \in [FromEnv -> BOOLEAN]
  /\ UNCHANGED <<ctx, freedStatic, executed>>

\* An address is not in presentation format, or its port is out of range:
\* exit(-1) in the middle of the warm-up.
AddressRefused ==
  /\ phase = "warmup" /\ phase' = "refused"
  /\ UNCHANGED <<next, window, spent, output, workerVars, sharedVars,
                 addr_inited, ctx, freedStatic, executed>>

\* The replay: every system call increments one of the counters.
RunProgram(c, ok) ==
  [num_succeeded |-> c.num_succeeded + ok,
   num_failed    |-> c.num_failed + (ProgLength - ok),
   ptr           |-> c.ptr]

\* Fault variant: the warm-up iteration stays in the counters.
AfterWarmupKept(c) == c

\* "reset statistics" after the warm-up iteration.
AfterWarmup(c) == [num_succeeded |-> 0, num_failed |-> 0, ptr |-> c.ptr]

\* The pointers of a context that is set up; mkdtemp returns NULL when it
\* fails, and the worker goes on without a directory.
FreshPtr(made) ==
  [p \in Pointers |-> IF p = "tmpdir" /\ ~ made THEN "null"
                      ELSE IF p \in FromEnv /\ addr_inited[p] THEN "static"
                      ELSE "heap"]

bm_target_reg(t) ==
  /\ \E ok \in 0 .. ProgLength, made \in BOOLEAN :
       ctx' = [ctx EXCEPT ![t] =
         AfterWarmup(RunProgram([@ EXCEPT !.ptr = FreshPtr(made)], ok))]
  /\ UNCHANGED <<addr_inited, freedStatic, executed>>

\* Fault variant: only the system calls that failed are counted.
DispatchResultFailed(c) == [op_count |-> c.num_failed, succ_count |-> c.num_succeeded]

DispatchResult(c) == [op_count   |-> c.num_succeeded + c.num_failed,
                      succ_count |-> c.num_succeeded]

bm_dispatch_operation(t) ==
  /\ \E ok \in 0 .. ProgLength :
       ctx' = [ctx EXCEPT ![t] = RunProgram(@, ok)]
  /\ result'[t] = DispatchResult(ctx'[t])
  /\ executed' = [executed EXCEPT ![t] = @ + ProgLength]
  /\ UNCHANGED <<addr_inited, freedStatic>>

\* Fault variant: the addresses are freed wherever they are from.
FreedAlways == Pointers

\* What bm_target_dereg frees.
Freed == {p \in Pointers : p \in FromEnv => ~ addr_inited[p]}

bm_target_dereg(t) ==
  /\ ctx' = [ctx EXCEPT ![t].ptr = [p \in Pointers |-> IF p \in Freed THEN "null" ELSE @[p]]]
  /\ freedStatic' = (freedStatic \/ \E p \in Freed : ctx[t].ptr[p] = "static")
  /\ UNCHANGED <<addr_inited, executed>>

targetVars == <<addr_inited, ctx, freedStatic, executed>>

SyzMainStep ==
  \/ bm_phase_warmup /\ bm_target_init
  \/ AddressRefused
  \/ phase # "warmup" /\ MainStep /\ UNCHANGED targetVars

SyzWorkerStep(t) ==
  \/ Register(t) /\ bm_target_reg(t)
  \/ EndOp(t) /\ bm_dispatch_operation(t)
  \/ Deregister(t) /\ bm_target_dereg(t)
  \/ /\ LeaveStart(t) \/ SeeNoStop(t) \/ SeeStop(t) \/ BeginOp(t)
        \/ RecordOp(t) \/ LeaveStop(t)
     /\ UNCHANGED targetVars

SyzNext ==
  \/ SyzMainStep
  \/ \E t \in Tids : SyzWorkerStep(t)
  \/ (Tick \/ Exited) /\ UNCHANGED targetVars

SyzSpec == SyzInit /\ [][SyzNext]_syzVars

\* The fairness of Harness, of the composed steps.
SyzFairSpec ==
  /\ SyzSpec
  /\ WF_syzVars(SyzMainStep)
  /\ \A t \in Tids : /\ WF_syzVars(SyzWorkerStep(t))
                     /\ SF_syzVars(SeeStop(t) /\ UNCHANGED targetVars)

-----------------------------------------------------------------------------
(* Properties. *)

TheOp == CHOOSE o \in Ops : TRUE
Dispatches(t) == pos[t] - StartPosition(t)

\* The warm-up iteration of bm_target_reg leaves no trace in what is reported:
\* the counters of a worker are the system calls it made after registering.
WarmupNotCounted ==
  \A t \in Tids : pc[t] \in Registered =>
     ctx[t].num_succeeded + ctx[t].num_failed = executed[t]

\* Every thread's context owns its memory from bm_target_reg to
\* bm_target_dereg, which frees exactly what its pointers were set to: nothing
\* stays on the heap, and a static address of the environment is never freed,
\* although all threads have pointers to it.  Only the name of the directory
\* may be missing.
ContextMemory ==
  /\ ~ freedStatic
  /\ \A t \in Tids, p \in Pointers :
       /\ pc[t] \in Registered /\ p # "tmpdir" => ctx[t].ptr[p] # "null"
       /\ pc[t] = "done" => ctx[t].ptr[p] # "heap"

\* Operations that succeeded are operations: the success percentage printed by
\* bm_print_stats is at most 100.  And what is recorded is the sum of all
\* totals so far: after n dispatches n(n+1)/2 times the length of the trace.
RecordedCount ==
  g_stats # <<>> => \A t \in Tids :
    LET n == Dispatches(t)
        stat == g_stats[t][TheOp]
    IN  /\ stat.succ_count <= stat.count
        /\ stat.count = (ProgLength * n * (n + 1)) \div 2

\* "count of operations of a certain type" (bm_stats.h:158): the number printed
\* is the number of system calls that the workers made.
CountIsExecuted ==
  output.printed =>
    output.stats.univ_count = SumFunction(executed)

-----------------------------------------------------------------------------
(***************************************************************************)
(* The inductive invariant behind the theorems of SyzProofs.               *)
(***************************************************************************)
Context ==
  [num_succeeded: Nat, num_failed: Nat, ptr: [Pointers -> {"null", "heap", "static"}]]

\* Until an address is refused the harness is as it would be with any target.
BaseInv ==
  /\ phase # "refused" => IInv /\ MixInv /\ TallyInv
  /\ phase = "refused" =>
       (\A t \in Tids : pc[t] = "none") /\ g_stats = <<>> /\ ~ output.printed

SyzTypeOK ==
  /\ addr_inited \in [FromEnv -> BOOLEAN]
  /\ ctx \in [Tids -> Context]
  /\ executed \in [Tids -> Nat]

\* Whose memory the pointers of a registered worker point to.
MemoryInv ==
  /\ ~ freedStatic
  /\ \A t \in Tids, p \in Pointers :
       /\ pc[t] \in Registered => \E made \in BOOLEAN : ctx[t].ptr[p] = FreshPtr(made)[p]
       /\ pc[t] = "done" => ctx[t].ptr[p] # "heap"

\* The counters of a worker are the system calls of all its dispatches so far.
CounterInv ==
  /\ WarmupNotCounted
  /\ \A t \in Tids :
       /\ executed[t] = ProgLength * (Dispatches(t) + IF pc[t] = "record" THEN 1 ELSE 0)
       /\ pc[t] \in {"none", "reg"} => Dispatches(t) = 0
       /\ pc[t] = "record" => result[t] = DispatchResult(ctx[t])

\* What is recorded is the sum of those totals.
TotalInv ==
  g_stats # <<>> => \A t \in Tids :
    LET stat == g_stats[t][TheOp] IN
    /\ stat.succ_count <= stat.count
    /\ 2 * stat.count = ProgLength * (Dispatches(t) * (Dispatches(t) + 1))

SyzIInv == BaseInv /\ SyzTypeOK /\ MemoryInv /\ CounterInv /\ TotalInv
=============================================================================
