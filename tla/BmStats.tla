------------------------------ MODULE BmStats ------------------------------
(***************************************************************************)
(* The statistics kept by bench/include/CSB/bm_stats.h: one record per     *)
(* thread and operation, updated by bm_stat_add_op after every dispatch,   *)
(* merged over the threads and printed once by bm_print_stats.             *)
(*                                                                         *)
(* Pure operators: the state (g_stats) is a variable of the modules that   *)
(* use them.  Counters are uint64_t in C; no run of the benchmark comes    *)
(* near 2^64, so they are naturals here.  Averages and percentages are     *)
(* quotients of merged fields and are left out, and so are the throughput  *)
(* figures.                                                                *)
(***************************************************************************)
EXTENDS Integers, FiniteSets, FiniteSetsExt, Functions

CONSTANTS
  Tids,           \* thread identifiers, 0 .. num_threads - 1 in the code
  Ops,            \* operation identifiers of the target
  NumBuckets,     \* STAT_MAX_NUM_BUCKETS, 60 in the code
  FirstMax,       \* upper end of the first bucket, 99 in the code
  UINT64_MAX      \* "no minimum yet"; larger than every duration

ASSUME StatsAssumption ==
  /\ IsFiniteSet(Ops)
  /\ NumBuckets \in Nat \ {0}
  /\ FirstMax \in Nat
  /\ UINT64_MAX \in Nat

Buckets == 0 .. NumBuckets - 1

(***************************************************************************)
(* The bounds of bucket i as the loop of bm_stat_init computes them: each  *)
(* bucket is STAT_INC_FACTOR = 1.1 times as wide as the one before it,     *)
(* truncated to an integer.                                                *)
(***************************************************************************)
TimeRange[i \in Nat] ==
  IF i = 0
    THEN [min |-> 0, max |-> FirstMax]
    ELSE LET old == TimeRange[i - 1]
         IN  [min |-> old.max + 1,
              max |-> old.max + ((old.max - old.min + 1) * 11) \div 10]

op_time_ranges == [i \in Buckets |-> TimeRange[i].max]

OpStat ==
  [succ_count: Nat, count: Nat, skipped_count: Nat, sum: Nat,
   min: Nat, max: Nat, histogram_data: [Buckets -> Nat]]

\* What a target returns from bm_dispatch_operation.
OpResult == [op_count: Nat, succ_count: Nat]

EmptyOpStat ==
  [succ_count |-> 0, count |-> 0, skipped_count |-> 0, sum |-> 0,
   min |-> UINT64_MAX, max |-> 0, histogram_data |-> [b \in Buckets |-> 0]]

bm_stat_init == [t \in Tids |-> [o \in Ops |-> EmptyOpStat]]

VMAX(a, b) == IF a > b THEN a ELSE b
VMIN(a, b) == IF a < b THEN a ELSE b

(***************************************************************************)
(* The bucket the search loop of bm_stat_add_op stops at: the first one    *)
(* whose upper end is not below the duration, the last one when there is   *)
(* none.                                                                   *)
(***************************************************************************)
InBucket(b, duration) ==
  /\ duration <= op_time_ranges[b] \/ b = NumBuckets - 1
  /\ \A j \in 0 .. b - 1 : ~ (duration <= op_time_ranges[j])

\* The record of one thread and operation after one more dispatch.
AddSample(stat, result, duration) ==
  [succ_count    |-> stat.succ_count + result.succ_count,
   count         |-> stat.count + result.op_count,
   skipped_count |-> stat.skipped_count,
   sum           |-> stat.sum + duration,
   min           |-> VMIN(stat.min, duration),
   max           |-> VMAX(stat.max, duration),
   histogram_data |->
      [b \in Buckets |-> IF InBucket(b, duration)
                           THEN stat.histogram_data[b] + 1
                           ELSE stat.histogram_data[b]]]

SkipSample(stat) == [stat EXCEPT !.skipped_count = @ + 1]

bm_stat_add_op(stats, tid, op, result, duration, skipped) ==
  [stats EXCEPT ![tid][op] =
     IF skipped THEN SkipSample(@) ELSE AddSample(@, result, duration)]

-----------------------------------------------------------------------------
(***************************************************************************)
(* bm_print_stats: the values printed for one operation, merged over the   *)
(* threads, and the universal ones, merged over the operations.            *)
(***************************************************************************)
\* The accumulation loops start from 0 and UINT64_MAX.
MaxOver(S, f(_)) == Max({f(x) : x \in S} \cup {0})
MinOver(S, f(_)) == Min({f(x) : x \in S} \cup {UINT64_MAX})

\* Fault variant: the histogram of one thread overwrites those of the others.
MergeOpOverwrites(stats, op) ==
  [succ_count    |-> SumFunction([t \in Tids |-> stats[t][op].succ_count]),
   count         |-> SumFunction([t \in Tids |-> stats[t][op].count]),
   skipped_count |-> SumFunction([t \in Tids |-> stats[t][op].skipped_count]),
   sum           |-> SumFunction([t \in Tids |-> stats[t][op].sum]),
   min           |-> MinOver(Tids, LAMBDA t : stats[t][op].min),
   max           |-> MaxOver(Tids, LAMBDA t : stats[t][op].max),
   histogram_data |-> stats[Max(Tids)][op].histogram_data]

MergeOp(stats, op) ==
  [succ_count    |-> SumFunction([t \in Tids |-> stats[t][op].succ_count]),
   count         |-> SumFunction([t \in Tids |-> stats[t][op].count]),
   skipped_count |-> SumFunction([t \in Tids |-> stats[t][op].skipped_count]),
   sum           |-> SumFunction([t \in Tids |-> stats[t][op].sum]),
   min           |-> MinOver(Tids, LAMBDA t : stats[t][op].min),
   max           |-> MaxOver(Tids, LAMBDA t : stats[t][op].max),
   histogram_data |->
      [b \in Buckets |->
         SumFunction([t \in Tids |-> stats[t][op].histogram_data[b]])]]

\* The per-operation minimum is overwritten with zero when it is the sentinel,
\* after the universal minimum has been taken from it.
PrintedOp(merged) == [merged EXCEPT !.min = IF @ = UINT64_MAX THEN 0 ELSE @]

bm_print_stats(stats) ==
  LET merged == [op \in Ops |-> MergeOp(stats, op)]
  IN  [ops |-> [op \in Ops |-> PrintedOp(merged[op])],
       univ_max           |-> MaxOver(Ops, LAMBDA op : merged[op].max),
       univ_min           |-> MinOver(Ops, LAMBDA op : merged[op].min),
       univ_sum           |-> SumFunction([op \in Ops |-> merged[op].sum]),
       univ_count         |-> SumFunction([op \in Ops |-> merged[op].count]),
       univ_succ_count    |-> SumFunction([op \in Ops |-> merged[op].succ_count]),
       univ_skipped_count |-> SumFunction([op \in Ops |-> merged[op].skipped_count])]
=============================================================================
