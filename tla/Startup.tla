------------------------------ MODULE Startup ------------------------------
(***************************************************************************)
(* From the configuration of an application to a benchmark program that is *)
(* ready to create its workers: the check of bm-runner's Application, its  *)
(* command line (get_cmd), bm_params_extract (CSB/bm_params.h) and the     *)
(* part of bm_phase_warmup that fills g_ops.                               *)
(*                                                                         *)
(* bm-runner builds the programs with CMAKE_BUILD_TYPE=Release, where      *)
(* assert is empty; built by hand they have assertions.  An argument is a  *)
(* record: the option its text matches ("x" for none), the index of an     *)
(* operation (0 in the others), and the number that strtoul reads in it (octal after a zero, *)
(* which get_cmd never writes).                                            *)
(***************************************************************************)
EXTENDS Integers, Sequences, FiniteSets, FiniteSetsExt, Functions

CONSTANTS
  NumOps,               \* bm_target_op_count()
  DISTRIBUTION_BOUND,   \* length of g_ops and Application.DISTRIBUTION_SUM
  UINT32_MAX,           \* largest value of a parameter
  OperationLists,       \* bound: values of `operations' in a configuration
  ArgLists              \* bound: values of `args', with placeholders replaced

Fixed == {"t", "n", "d", "s"}
Arguments ==
  [opt: {"op"}, idx: Nat, val: Int] \cup [opt: Fixed \cup {"x"}, idx: {0}, val: Int]

ASSUME StartupAssumption ==
  /\ UINT32_MAX \in Nat
  /\ NumOps \in 1 .. UINT32_MAX        \* op_dist_len is a uint32_t
  /\ DISTRIBUTION_BOUND \in 1 .. UINT32_MAX - 1
  /\ OperationLists \subseteq Seq(Int)
  /\ ArgLists \subseteq Seq(Arguments)

PARAM_VAL_NONE == UINT32_MAX
PARAM_FIXED_LEN == 5
OpIds == 0 .. NumOps - 1
Slots == 0 .. DISTRIBUTION_BOUND - 1

VARIABLES
  release,      \* built without assertions
  operations, args,     \* the configuration of the application
  pc,           \* what happens next, or how it ended
  argv,         \* the arguments of the program, without its name
  i,            \* index of the parsing loop, then of the filling loop
  j,            \* slots that operation i has been given
  params,       \* num_threads, max_noise, duration, init_sz by their options
  op_dist,
  g_ops

config == <<release, operations, args>>
vars == <<config, pc, argv, i, j, params, op_dist, g_ops>>

Init ==
  /\ release \in BOOLEAN
  /\ operations \in OperationLists
  /\ args \in ArgLists
  /\ pc = "config"
  /\ argv = <<>>
  /\ i = 0 /\ j = 0
  /\ params = [f \in Fixed |-> 0]
  /\ op_dist = <<>>
  /\ g_ops = <<>>

Goto(from, to) == pc = from /\ pc' = to

-----------------------------------------------------------------------------
(* bm-runner. *)

\* Fault variant: only sums that are too large are refused.
SumAcceptedShort == SumFunction(operations) <= DISTRIBUTION_BOUND

\* Application.__init__: no operations at all are not checked.
SumAccepted == operations # <<>> => SumFunction(operations) = DISTRIBUTION_BOUND

Application ==
  /\ Goto("config", IF SumAccepted THEN "command" ELSE "refused")
  /\ UNCHANGED <<config, argv, i, j, params, op_dist, g_ops>>

\* The operations in the order of their indices, then the other arguments.
Command ==
  [k \in 1 .. Len(operations) |-> [opt |-> "op", idx |-> k - 1, val |-> operations[k]]] \o args

get_cmd ==
  /\ Goto("command", "main")
  /\ argv' = Command
  /\ UNCHANGED <<config, i, j, params, op_dist, g_ops>>

-----------------------------------------------------------------------------
(* bm_params_extract. *)

CountAccepted == Len(argv) + 1 = PARAM_FIXED_LEN + NumOps

IncorrectCount ==
  /\ Goto("main", "failed")
  /\ ~ CountAccepted
  /\ UNCHANGED <<config, argv, i, j, params, op_dist, g_ops>>

\* op_dist is allocated and left as it is: _bm_params_init runs with the
\* length that g_params had before, which is 0.
InitParams ==
  /\ Goto("main", "parse")
  /\ CountAccepted
  /\ params' = [f \in Fixed |-> PARAM_VAL_NONE]
  /\ op_dist' \in [OpIds -> 0 .. UINT32_MAX]
  /\ i' = 1
  /\ UNCHANGED <<config, argv, j, g_ops>>

\* The patterns have digits after the `=', so a negative number matches none.
Matched(a) == a.opt # "x" /\ a.val >= 0

\* strtoul returns 64 bits, 32 of them are stored, of an index too.
Stored(v) == v % (UINT32_MAX + 1)

ArgIs(opts) == pc = "parse" /\ i <= Len(argv) /\ Matched(argv[i]) /\ argv[i].opt \in opts

MatchFixed ==
  /\ ArgIs(Fixed)
  /\ params' = [params EXCEPT ![argv[i].opt] = Stored(argv[i].val)]
  /\ i' = i + 1
  /\ UNCHANGED <<config, pc, argv, j, op_dist, g_ops>>

MatchOp ==
  /\ ArgIs({"op"}) /\ Stored(argv[i].idx) < NumOps
  /\ op_dist' = [op_dist EXCEPT ![Stored(argv[i].idx)] = Stored(argv[i].val)]
  /\ i' = i + 1
  /\ UNCHANGED <<config, pc, argv, j, params, g_ops>>

\* The assertion on the index fails; without it memory behind op_dist is
\* overwritten, and nothing is known of what follows.
MatchNoSuchOp ==
  /\ ArgIs({"op"}) /\ Stored(argv[i].idx) >= NumOps
  /\ pc' = IF release THEN "undefined" ELSE "aborted"
  /\ UNCHANGED <<config, argv, i, j, params, op_dist, g_ops>>

\* The result of _bm_params_match_field is not looked at.
MatchNothing ==
  /\ pc = "parse" /\ i <= Len(argv) /\ ~ Matched(argv[i])
  /\ i' = i + 1
  /\ UNCHANGED <<config, pc, argv, j, params, op_dist, g_ops>>

\* Fault variant: one parameter is not looked at.
AllButOneSet ==
  /\ \A f \in Fixed \ {"s"} : params[f] # PARAM_VAL_NONE
  /\ \A o \in OpIds : op_dist[o] # PARAM_VAL_NONE

_bm_are_params_set ==
  /\ \A f \in Fixed : params[f] # PARAM_VAL_NONE
  /\ \A o \in OpIds : op_dist[o] # PARAM_VAL_NONE

CheckParams ==
  /\ Goto("parse", IF _bm_are_params_set THEN "warmup" ELSE "failed")
  /\ i > Len(argv)
  /\ UNCHANGED <<config, argv, i, j, params, op_dist, g_ops>>

-----------------------------------------------------------------------------
(* The filling of g_ops in bm_phase_warmup. *)

Requested == SumFunction(op_dist)
EmptySlot == UINT32_MAX

\* assert(total == DISTRIBUTION_BOUND), then all slots are marked as free.
CheckTotal ==
  /\ Goto("warmup", IF release \/ Requested = DISTRIBUTION_BOUND THEN "fill" ELSE "aborted")
  /\ g_ops' = [s \in Slots |-> EmptySlot]
  /\ i' = 0
  /\ UNCHANGED <<config, argv, j, params, op_dist>>

\* Fault variant: random_next_int is called with one slot less.
DrawnShort == 0 .. DISTRIBUTION_BOUND - 2

\* random_next_int(0, DISTRIBUTION_BOUND - 1)
Drawn == Slots

\* Fault variant: the loop over j starts at 1.
OpPlacedEarly == j + 1 >= op_dist[i]

OpPlaced == j = op_dist[i]

PlaceOp ==
  /\ pc = "fill" /\ i \in OpIds /\ ~ OpPlaced
  /\ \E pos \in Drawn : /\ g_ops[pos] = EmptySlot
                        /\ g_ops' = [g_ops EXCEPT ![pos] = i]
  /\ j' = j + 1
  /\ UNCHANGED <<config, pc, argv, i, params, op_dist>>

\* The slot is taken, another one is drawn.
DrawAgain ==
  /\ pc = "fill" /\ i \in OpIds /\ ~ OpPlaced
  /\ \E pos \in Drawn : g_ops[pos] # EmptySlot
  /\ UNCHANGED vars

NextOp ==
  /\ pc = "fill" /\ i \in OpIds /\ OpPlaced
  /\ i' = i + 1 /\ j' = 0
  /\ UNCHANGED <<config, pc, argv, params, op_dist, g_ops>>

\* assert(g_ops[i] < g_params.op_dist_len) for every slot.
CheckSlots ==
  /\ Goto("fill", IF release \/ \A s \in Slots : g_ops[s] < NumOps THEN "ready" ELSE "aborted")
  /\ i = NumOps
  /\ UNCHANGED <<config, argv, i, j, params, op_dist, g_ops>>

Outcomes == {"refused", "failed", "aborted", "undefined", "ready"}
Ended == pc \in Outcomes /\ UNCHANGED vars

Step ==
  \/ Application \/ get_cmd \/ IncorrectCount \/ InitParams
  \/ MatchFixed \/ MatchOp \/ MatchNoSuchOp \/ MatchNothing \/ CheckParams
  \/ CheckTotal \/ PlaceOp \/ NextOp \/ CheckSlots

Next == Step \/ DrawAgain \/ Ended

Spec == Init /\ [][Next]_vars

\* A single thread that goes on while it can.  The numbers drawn come from
\* getrandom (random_rand in CSB/rand.h): any slot is drawn some day.
FairSpec == Spec /\ WF_vars(Step)

-----------------------------------------------------------------------------
(* Properties. *)

Accepted == {"warmup", "fill", "ready"}

\* The arguments for an option of the program, and the value of the last one.
Given(opt, idx) ==
  {k \in DOMAIN argv :
     Matched(argv[k]) /\ argv[k].opt = opt /\ (opt = "op" => Stored(argv[k].idx) = idx)}
LastGiven(opt, idx) == Stored(argv[Max(Given(opt, idx))].val)

\* What the program goes on with is what it was given: no fixed parameter is
\* missing, although only the number of arguments is checked before they are
\* parsed, and a parameter or share that is given more than once has the value
\* given last (bm_params_extract, _bm_are_params_set).
AcceptedAsGiven ==
  pc \in Accepted =>
    /\ \A f \in Fixed : Given(f, 0) # {} /\ params[f] = LastGiven(f, 0)
    /\ \A o \in OpIds : Given("op", o) # {} => op_dist[o] = LastGiven("op", o)

\* The workers find an operation in every slot, as often as its parameter
\* says; in a build without assertions, when the shares do not exceed the
\* number of slots, there may be free slots left, and when they exceed it the
\* workers are never created.
SlotsAsRequested ==
  pc = "ready" =>
    /\ \A o \in OpIds : Cardinality({s \in Slots : g_ops[s] = o}) = op_dist[o]
    /\ (\E s \in Slots : g_ops[s] = EmptySlot) => release /\ Requested < DISTRIBUTION_BOUND

\* With the default arguments the sum that Application checks is the one the
\* program relies on, and that a release build does not check again: whatever
\* the program starts with is the configured mix, in every slot.
DefaultArgs == Len(args) = Cardinality(Fixed) /\ {args[k].opt : k \in DOMAIN args} = Fixed
MixAsConfigured ==
  pc \in {"fill", "ready"} /\ DefaultArgs /\ (\A k \in DOMAIN operations : operations[k] >= 0) =>
    /\ \A o \in OpIds : op_dist[o] = operations[o + 1]
    /\ Requested = DISTRIBUTION_BOUND
    /\ pc = "ready" => \A s \in Slots : g_ops[s] \in OpIds

\* The search for free slots comes to an end when there are enough of them,
\* in every build and in whatever order the slots are drawn.
FillingEnds == (pc = "fill" /\ Requested <= DISTRIBUTION_BOUND) ~> (pc = "ready")

-----------------------------------------------------------------------------
(***************************************************************************)
(* The inductive invariant behind the theorems of StartupProofs.           *)
(***************************************************************************)

\* What has been checked on the way to each point.
ConfigInv ==
  /\ operations \in OperationLists /\ args \in ArgLists
  /\ pc \notin {"config", "refused"} => SumAccepted
  /\ pc \notin {"config", "refused", "command"} => argv = Command
  /\ pc \in {"parse"} \cup Accepted => CountAccepted

\* What the parameters are when the arguments before the n-th are parsed.
GivenBefore(opt, idx, n) == {k \in Given(opt, idx) : k < n}

ParsedUpTo(n) ==
  /\ params \in [Fixed -> 0 .. UINT32_MAX]
  /\ op_dist \in [OpIds -> 0 .. UINT32_MAX]
  /\ \A f \in Fixed :
       params[f] = IF GivenBefore(f, 0, n) = {} THEN PARAM_VAL_NONE
                   ELSE Stored(argv[Max(GivenBefore(f, 0, n))].val)
  /\ \A o \in OpIds : GivenBefore("op", o, n) # {} =>
       op_dist[o] = Stored(argv[Max(GivenBefore("op", o, n))].val)

ParseInv ==
  /\ pc = "parse" => i \in 1 .. Len(argv) + 1 /\ ParsedUpTo(i)
  /\ pc \in Accepted => op_dist \in [OpIds -> 0 .. UINT32_MAX]
  /\ AcceptedAsGiven

\* The slots that operation o has been given.
SlotsOf(o) == {s \in Slots : g_ops[s] = o}

FillInv ==
  /\ pc \notin {"fill", "ready", "aborted"} => j = 0
  /\ pc \in {"fill", "ready"} => g_ops \in [Slots -> OpIds \cup {EmptySlot}]
  /\ pc = "fill" =>
       /\ i \in 0 .. NumOps /\ j \in Nat
       /\ i = NumOps => j = 0
       /\ \A o \in OpIds :
            Cardinality(SlotsOf(o)) = IF o < i THEN op_dist[o] ELSE IF o = i THEN j ELSE 0
       /\ release \/ Requested = DISTRIBUTION_BOUND
  /\ pc = "ready" =>
       /\ \A o \in OpIds : Cardinality(SlotsOf(o)) = op_dist[o]
       /\ release \/ \A s \in Slots : g_ops[s] < NumOps

IInv == ConfigInv /\ ParseInv /\ FillInv
=============================================================================
