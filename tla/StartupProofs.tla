--------------------------- MODULE StartupProofs ---------------------------
(***************************************************************************)
(* Proofs about Startup, for any number of operations, any number of slots *)
(* and any width of a parameter, and for every configuration.              *)
(*                                                                         *)
(* The inductive invariant IInv says what has been checked on the way to   *)
(* each point (ConfigInv), what the arguments parsed so far have left in   *)
(* the parameters (ParseInv), and how many slots each operation has been   *)
(* given (FillInv).  A counting argument finishes the proofs: the slots    *)
(* add up to the shares (SumFibers).                                       *)
(***************************************************************************)
EXTENDS Startup, SumTheorems, SequenceTheorems, TLAPS

USE StartupAssumption

-----------------------------------------------------------------------------
(* The operators of the model. *)

\* A number is stored in the width of a parameter, unchanged if it fits.
LEMMA StoredRange ==
  ASSUME NEW v \in Nat
  PROVE  Stored(v) \in 0 .. UINT32_MAX /\ (v <= UINT32_MAX => Stored(v) = v)
BY DEF Stored

\* The largest of some numbers and one that is larger.
LEMMA MaxAdd ==
  ASSUME NEW S \in SUBSET Int, NEW k \in Int, \A x \in S : x < k
  PROVE  Max(S \cup {k}) = k
<1>1. \A y \in S \cup {k} : k >= y
  OBVIOUS
<1>2. \A x \in S \cup {k} : (\A y \in S \cup {k} : x >= y) => x = k
  OBVIOUS
<1>. QED
  BY <1>1, <1>2 DEF Max

\* What an argument looks like.
LEMMA ArgumentShape ==
  ASSUME NEW a \in Arguments
  PROVE  /\ a.opt \in Fixed \cup {"op", "x"} /\ a.idx \in Nat /\ a.val \in Int
         /\ a.opt # "op" => a.idx = 0
BY DEF Arguments, Fixed

\* The command line: the operations by their indices, then the arguments.
LEMMA CommandShape ==
  ASSUME operations \in OperationLists, args \in ArgLists
  PROVE  /\ Command \in Seq(Arguments)
         /\ Len(Command) = Len(operations) + Len(args)
         /\ \A k \in 1 .. Len(operations) :
              Command[k] = [opt |-> "op", idx |-> k - 1, val |-> operations[k]]
         /\ \A k \in 1 .. Len(args) : Command[Len(operations) + k] = args[k]
<1> DEFINE ops == [k \in 1 .. Len(operations) |-> [opt |-> "op", idx |-> k - 1, val |-> operations[k]]]
<1>1. operations \in Seq(Int) /\ args \in Seq(Arguments) /\ Len(operations) \in Nat
  OBVIOUS
<1>2. ASSUME NEW k \in 1 .. Len(operations)
      PROVE  [opt |-> "op", idx |-> k - 1, val |-> operations[k]] \in Arguments
  <2>1. operations[k] \in Int /\ k - 1 \in Nat
    BY <1>1
  <2>. QED
    BY <2>1 DEF Arguments
<1>3. ops \in Seq(Arguments) /\ Len(ops) = Len(operations)
  BY <1>1, <1>2
<1>4. \A k \in 1 .. Len(operations) : ops[k] = [opt |-> "op", idx |-> k - 1, val |-> operations[k]]
  OBVIOUS
<1>5. Command = ops \o args
  BY DEF Command
<1> HIDE DEF ops
<1>6. /\ ops \o args \in Seq(Arguments)
      /\ Len(ops \o args) = Len(ops) + Len(args)
      /\ \A k \in 1 .. Len(ops) + Len(args) :
           (ops \o args)[k] = IF k <= Len(ops) THEN ops[k] ELSE args[k - Len(ops)]
  BY <1>1, <1>3, ConcatProperties
<1>7. Len(args) \in Nat
  BY <1>1
<1>8. \A k \in 1 .. Len(operations) : Command[k] = ops[k]
  BY <1>1, <1>3, <1>5, <1>6, <1>7
<1>9. ASSUME NEW k \in 1 .. Len(args)
      PROVE  Command[Len(operations) + k] = args[k]
  <2>1. /\ Len(operations) + k \in 1 .. Len(ops) + Len(args)
        /\ ~ (Len(operations) + k <= Len(ops))
        /\ (Len(operations) + k) - Len(ops) = k
    BY <1>1, <1>3, <1>7
  <2>. QED
    BY <1>5, <1>6, <2>1
<1>. QED
  BY <1>3, <1>4, <1>5, <1>6, <1>8, <1>9

\* The arguments of the program, once there are any.
LEMMA ArgvShape ==
  ASSUME ConfigInv, pc \notin {"config", "refused", "command"}
  PROVE  /\ argv \in Seq(Arguments) /\ Len(argv) \in Nat
         /\ \A k \in 1 .. Len(argv) : argv[k] \in Arguments
BY CommandShape DEF ConfigInv

-----------------------------------------------------------------------------
(* The parsing of the arguments. *)

\* One argument more: what was given before it, and it if it is for the option.
LEMMA GivenNext ==
  ASSUME argv \in Seq(Arguments), NEW n \in 1 .. Len(argv), NEW opt, NEW idx
  PROVE  /\ GivenBefore(opt, idx, n) \subseteq Int
         /\ n \in Given(opt, idx) =>
              /\ GivenBefore(opt, idx, n + 1) # {}
              /\ Max(GivenBefore(opt, idx, n + 1)) = n
         /\ n \notin Given(opt, idx) => GivenBefore(opt, idx, n + 1) = GivenBefore(opt, idx, n)
<1>1. Given(opt, idx) \subseteq Int
  BY DEF Given
<1>2. GivenBefore(opt, idx, n) \subseteq Int /\ \A k \in GivenBefore(opt, idx, n) : k < n
  BY <1>1 DEF GivenBefore
<1>3. n \in Given(opt, idx) => GivenBefore(opt, idx, n + 1) = GivenBefore(opt, idx, n) \cup {n}
  BY <1>1 DEF GivenBefore
<1>4. n \notin Given(opt, idx) => GivenBefore(opt, idx, n + 1) = GivenBefore(opt, idx, n)
  BY <1>1 DEF GivenBefore
<1>5. Max(GivenBefore(opt, idx, n) \cup {n}) = n
  <2>1. n \in Int /\ GivenBefore(opt, idx, n) \in SUBSET Int
    BY <1>2
  <2>. QED
    BY <1>2, <2>1, MaxAdd
<1>. QED
  BY <1>2, <1>3, <1>4, <1>5

\* All arguments are parsed.
LEMMA GivenAll ==
  ASSUME argv \in Seq(Arguments), NEW n, n = Len(argv) + 1, NEW opt, NEW idx
  PROVE  GivenBefore(opt, idx, n) = Given(opt, idx)
BY DEF GivenBefore, Given

\* A parsing step keeps what is known of the parameters true.
LEMMA ParseStep ==
  ASSUME ConfigInv, ParseInv, pc = "parse", i <= Len(argv), pc' = "parse", i' = i + 1,
         UNCHANGED argv,
         \/ MatchFixed
         \/ MatchOp
         \/ MatchNothing
  PROVE  i' \in 1 .. Len(argv) + 1 /\ ParsedUpTo(i)'
<1>1. /\ argv \in Seq(Arguments) /\ Len(argv) \in Nat
      /\ i \in 1 .. Len(argv) /\ ParsedUpTo(i)
  BY ArgvShape DEF ParseInv
<1>2. argv[i] \in Arguments
  BY <1>1
<1>. DEFINE a == argv[i]
<1>3. /\ a.opt \in Fixed \cup {"op", "x"} /\ a.idx \in Nat /\ a.val \in Int
      /\ a.opt # "op" => a.idx = 0
  BY <1>2, ArgumentShape
<1>4. Matched(a) => Stored(a.val) \in 0 .. UINT32_MAX
  BY <1>3, StoredRange DEF Matched
<1>5. \A opt, idx : i \in Given(opt, idx) <=>
        Matched(a) /\ a.opt = opt /\ (opt = "op" => Stored(a.idx) = idx)
  BY <1>1 DEF Given
<1>6. \A opt, idx : GivenBefore(opt, idx, i)' = GivenBefore(opt, idx, i + 1)
  BY DEF GivenBefore, Given, Matched, Stored
<1>. HIDE DEF a
<1>7. params' \in [Fixed -> 0 .. UINT32_MAX] /\ op_dist' \in [OpIds -> 0 .. UINT32_MAX]
  BY <1>1, <1>3, <1>4 DEF ParsedUpTo, MatchFixed, MatchOp, MatchNothing, ArgIs, a
<1>8. ASSUME NEW f \in Fixed
      PROVE  params'[f] = IF GivenBefore(f, 0, i + 1) = {} THEN PARAM_VAL_NONE
                          ELSE Stored(argv[Max(GivenBefore(f, 0, i + 1))].val)
  <2>1. f # "op" /\ f # "x"
    BY DEF Fixed
  <2>2. CASE Matched(a) /\ a.opt = f
    <3>1. params'[f] = Stored(a.val)
      BY <1>1, <2>1, <2>2 DEF MatchFixed, MatchOp, MatchNothing, ArgIs, a, ParsedUpTo
    <3>. QED
      BY <1>1, <1>5, <2>1, <2>2, <3>1, GivenNext DEF a
  <2>3. CASE ~ (Matched(a) /\ a.opt = f)
    <3>1. params'[f] = params[f]
      BY <1>1, <2>1, <2>3 DEF MatchFixed, MatchOp, MatchNothing, ArgIs, a, ParsedUpTo
    <3>2. GivenBefore(f, 0, i + 1) = GivenBefore(f, 0, i)
      BY <1>1, <1>5, <2>3, GivenNext
    <3>. QED
      BY <1>1, <3>1, <3>2 DEF ParsedUpTo
  <2>. QED
    BY <2>2, <2>3
<1>9. ASSUME NEW o \in OpIds, GivenBefore("op", o, i + 1) # {}
      PROVE  op_dist'[o] = Stored(argv[Max(GivenBefore("op", o, i + 1))].val)
  <2>2. CASE Matched(a) /\ a.opt = "op" /\ Stored(a.idx) = o
    <3>1. op_dist'[o] = Stored(a.val)
      BY <1>1, <2>2 DEF MatchFixed, MatchOp, MatchNothing, ArgIs, a, ParsedUpTo, Fixed
    <3>. QED
      BY <1>1, <1>5, <2>2, <3>1, GivenNext, ZenonT(30) DEF a
  <2>3. CASE ~ (Matched(a) /\ a.opt = "op" /\ Stored(a.idx) = o)
    <3>1. op_dist'[o] = op_dist[o]
      BY <1>1, <2>3 DEF MatchFixed, MatchOp, MatchNothing, ArgIs, a, ParsedUpTo, Fixed
    <3>2. GivenBefore("op", o, i + 1) = GivenBefore("op", o, i)
      BY <1>1, <1>5, <2>3, GivenNext
    <3>. QED
      BY <1>1, <1>9, <3>1, <3>2 DEF ParsedUpTo
  <2>. QED
    BY <2>2, <2>3
<1>10. i' \in 1 .. Len(argv) + 1
  BY <1>1
<1>. QED
  BY <1>6, <1>7, <1>8, <1>9, <1>10 DEF ParsedUpTo, Stored

\* What the check of the parameters shows.
LEMMA CheckedIsComplete ==
  ASSUME ConfigInv, ParseInv, pc = "parse", i > Len(argv), _bm_are_params_set
  PROVE  /\ \A f \in Fixed : Given(f, 0) # {} /\ params[f] = LastGiven(f, 0)
         /\ \A o \in OpIds : Given("op", o) # {} => op_dist[o] = LastGiven("op", o)
<1>1. argv \in Seq(Arguments) /\ Len(argv) \in Nat /\ i = Len(argv) + 1 /\ ParsedUpTo(i)
  BY ArgvShape DEF ParseInv
<1>2. \A opt, idx : GivenBefore(opt, idx, i) = Given(opt, idx)
  BY <1>1, GivenAll
<1>3. \A f \in Fixed : Given(f, 0) # {} /\ params[f] = LastGiven(f, 0)
  BY <1>1, <1>2 DEF ParsedUpTo, _bm_are_params_set, LastGiven, Stored
<1>4. \A o \in OpIds : Given("op", o) # {} => op_dist[o] = LastGiven("op", o)
  BY <1>1, <1>2 DEF ParsedUpTo, LastGiven, Stored
<1>. QED
  BY <1>3, <1>4

-----------------------------------------------------------------------------
(* The inductive invariant. *)

\* A step that changes neither the arguments nor the parameters, of a program
\* that is accepted only if it was accepted before.
LEMMA AcceptedStays ==
  ASSUME AcceptedAsGiven, UNCHANGED <<argv, params, op_dist>>, pc' \in Accepted => pc \in Accepted
  PROVE  AcceptedAsGiven'
<1>1. \A opt, idx : Given(opt, idx)' = Given(opt, idx)
  BY DEF Given, Matched
<1>2. \A opt, idx : LastGiven(opt, idx)' = LastGiven(opt, idx)
  BY <1>1 DEF LastGiven
<1>. QED
  BY <1>1, <1>2 DEF AcceptedAsGiven, Matched

LEMMA InitInv == Init => IInv
BY DEF Init, IInv, ConfigInv, ParseInv, FillInv, AcceptedAsGiven, Accepted

LEMMA ConfigStep ==
  ASSUME IInv, [Next]_vars
  PROVE  ConfigInv'
<1> USE DEF IInv, ConfigInv, Accepted, SumAccepted, Command, CountAccepted, config, Goto
<1>1. CASE Application
  BY <1>1 DEF Application
<1>2. CASE get_cmd
  BY <1>2 DEF get_cmd
<1>3. CASE IncorrectCount \/ InitParams
  BY <1>3 DEF IncorrectCount, InitParams
<1>4. CASE MatchFixed \/ MatchOp \/ MatchNoSuchOp \/ MatchNothing
  BY <1>4 DEF MatchFixed, MatchOp, MatchNoSuchOp, MatchNothing, ArgIs
<1>5. CASE CheckParams \/ CheckTotal \/ PlaceOp \/ NextOp \/ CheckSlots
  BY <1>5 DEF CheckParams, CheckTotal, PlaceOp, NextOp, CheckSlots
<1>6. CASE UNCHANGED vars
  BY <1>6 DEF vars
<1>. QED
  BY <1>1, <1>2, <1>3, <1>4, <1>5, <1>6 DEF Next, Step, DrawAgain, Ended

LEMMA ParseInvStep ==
  ASSUME IInv, [Next]_vars
  PROVE  ParseInv'
<1> USE DEF IInv
<1>1. CASE Application \/ get_cmd \/ IncorrectCount
  BY <1>1 DEF Application, get_cmd, IncorrectCount, Goto, ParseInv, AcceptedAsGiven, Accepted
<1>2. CASE InitParams
  <2>1. Len(argv) \in Nat
    BY <1>2, ArgvShape DEF InitParams, Goto
  <2>2. argv' = argv /\ i' = 1 /\ DOMAIN argv \subseteq Int /\ \A k \in DOMAIN argv : ~ (k < 1)
    BY <1>2, ArgvShape DEF InitParams, Goto
  <2>3. \A opt, idx : GivenBefore(opt, idx, i)' = {}
    BY <2>2 DEF GivenBefore, Given
  <2>4. ParsedUpTo(i)'
    BY <1>2, <2>2, <2>3 DEF ParsedUpTo, InitParams, PARAM_VAL_NONE
  <2>. QED
    BY <1>2, <2>1, <2>4 DEF InitParams, Goto, ParseInv, AcceptedAsGiven, Accepted
<1>3. CASE MatchFixed \/ MatchOp \/ MatchNothing
  <2>1. /\ pc = "parse" /\ pc' = "parse" /\ i <= Len(argv) /\ i' = i + 1 /\ UNCHANGED argv
    BY <1>3 DEF MatchFixed, MatchOp, MatchNothing, ArgIs
  <2>2. i' \in 1 .. Len(argv) + 1 /\ ParsedUpTo(i)'
    BY <1>3, <2>1, ParseStep
  <2>. QED
    BY <2>1, <2>2 DEF ParseInv, AcceptedAsGiven, Accepted
<1>4. CASE MatchNoSuchOp
  BY <1>4 DEF MatchNoSuchOp, ParseInv, AcceptedAsGiven, Accepted
<1>5. CASE CheckParams
  <2>1. CASE ~ _bm_are_params_set
    BY <1>5, <2>1 DEF CheckParams, Goto, ParseInv, AcceptedAsGiven, Accepted
  <2>2. CASE _bm_are_params_set
    <3>1. pc = "parse" /\ i > Len(argv) /\ UNCHANGED <<argv, params, op_dist>> /\ pc' = "warmup"
      BY <1>5, <2>2 DEF CheckParams, Goto
    <3>2. op_dist \in [OpIds -> 0 .. UINT32_MAX]
      BY <3>1 DEF ParseInv, ParsedUpTo
    <3>3. AcceptedAsGiven'
      BY <2>2, <3>1, CheckedIsComplete, ZenonT(30) DEF AcceptedAsGiven, Given, LastGiven, Matched
    <3>. QED
      BY <3>1, <3>2, <3>3 DEF ParseInv
  <2>. QED
    BY <2>1, <2>2
<1>6. CASE CheckTotal \/ PlaceOp \/ NextOp \/ CheckSlots
  <2>1. /\ pc \in Accepted /\ UNCHANGED <<argv, params, op_dist>> /\ pc' # "parse"
    BY <1>6 DEF CheckTotal, PlaceOp, NextOp, CheckSlots, Goto, Accepted
  <2>2. AcceptedAsGiven'
    BY <2>1, AcceptedStays DEF ParseInv
  <2>. QED
    BY <2>1, <2>2 DEF ParseInv
<1>7. CASE UNCHANGED vars
  <2>1. UNCHANGED <<pc, argv, params, op_dist, i>>
    BY <1>7 DEF vars
  <2>2. AcceptedAsGiven'
    BY <2>1, AcceptedStays DEF ParseInv
  <2>3. \A opt, idx : GivenBefore(opt, idx, i)' = GivenBefore(opt, idx, i)
    BY <2>1 DEF GivenBefore, Given, Matched
  <2>4. pc = "parse" => ParsedUpTo(i)'
    BY <2>1, <2>3 DEF ParseInv, ParsedUpTo, Matched, Stored
  <2>. QED
    BY <2>1, <2>2, <2>4 DEF ParseInv, Accepted
<1>. QED
  BY <1>1, <1>2, <1>3, <1>4, <1>5, <1>6, <1>7 DEF Next, Step, DrawAgain, Ended

\* The slots of an operation are finitely many.
LEMMA SlotsFinite ==
  /\ IsFiniteSet(Slots) /\ Cardinality(Slots) = DISTRIBUTION_BOUND
  /\ \A o : IsFiniteSet(SlotsOf(o)) /\ Cardinality(SlotsOf(o)) \in Nat
<1>1. IsFiniteSet(Slots) /\ Cardinality(Slots) = DISTRIBUTION_BOUND
  BY FS_Interval DEF Slots
<1>2. \A o : SlotsOf(o) \subseteq Slots
  BY DEF SlotsOf
<1>. QED
  BY <1>1, <1>2, FS_Subset, FS_CardinalityType

LEMMA FillStep ==
  ASSUME IInv, [Next]_vars
  PROVE  FillInv'
<1> USE DEF IInv
<1>0. NumOps \in Nat /\ DISTRIBUTION_BOUND \in Nat /\ EmptySlot \in Nat /\ ~ (EmptySlot < NumOps)
  BY DEF EmptySlot
<1>1. CASE Application \/ get_cmd \/ IncorrectCount \/ InitParams
  BY <1>1 DEF Application, get_cmd, IncorrectCount, InitParams, Goto, FillInv
<1>2. CASE MatchFixed \/ MatchOp \/ MatchNoSuchOp \/ MatchNothing
  BY <1>2 DEF MatchFixed, MatchOp, MatchNoSuchOp, MatchNothing, ArgIs, FillInv
<1>3. CASE CheckParams
  BY <1>3 DEF CheckParams, Goto, FillInv
<1>4. CASE CheckTotal
  <2>1. /\ j = 0 /\ j' = 0 /\ i' = 0 /\ UNCHANGED <<release, op_dist>>
        /\ pc' \in {"fill", "aborted"}
        /\ pc' = "fill" => release \/ Requested = DISTRIBUTION_BOUND
        /\ g_ops' = [s \in Slots |-> EmptySlot]
    BY <1>4 DEF CheckTotal, Goto, FillInv, config
  <2>2. \A o \in OpIds : SlotsOf(o)' = {}
    BY <1>0, <2>1 DEF SlotsOf, OpIds
  <2>3. \A o \in OpIds : Cardinality(SlotsOf(o)') = 0
    BY <2>2, FS_EmptySet
  <2>4. \A o \in OpIds : Cardinality(SlotsOf(o)') = IF o < 0 THEN op_dist'[o] ELSE IF o = 0 THEN 0 ELSE 0
    BY <1>0, <2>3 DEF OpIds
  <2>. QED
    BY <1>0, <2>1, <2>4 DEF FillInv, Requested
<1>5. CASE PlaceOp
  <2>1. PICK pos \in Slots : g_ops[pos] = EmptySlot /\ g_ops' = [g_ops EXCEPT ![pos] = i]
    BY <1>5 DEF PlaceOp, Drawn
  <2>2. /\ pc = "fill" /\ pc' = "fill" /\ i \in OpIds /\ i' = i /\ j' = j + 1
        /\ UNCHANGED <<release, op_dist>>
        /\ g_ops \in [Slots -> OpIds \cup {EmptySlot}] /\ j \in Nat
        /\ release \/ Requested = DISTRIBUTION_BOUND
        /\ \A o \in OpIds :
             Cardinality(SlotsOf(o)) = IF o < i THEN op_dist[o] ELSE IF o = i THEN j ELSE 0
    BY <1>5 DEF PlaceOp, FillInv, config
  <2>3. i # EmptySlot /\ i # NumOps /\ i \in 0 .. NumOps
    BY <1>0, <2>2 DEF OpIds
  <2> DEFINE Now(o) == {s \in Slots : g_ops'[s] = o}
  <2>4. /\ Now(i) = SlotsOf(i) \cup {pos} /\ pos \notin SlotsOf(i)
    BY <2>1, <2>2, <2>3 DEF SlotsOf
  <2>5. \A o \in OpIds \ {i} : Now(o) = SlotsOf(o)
    BY <1>0, <2>1, <2>2 DEF SlotsOf, OpIds
  <2> HIDE DEF Now
  <2>6. Cardinality(Now(i)) = j + 1
    <3>1. Cardinality(SlotsOf(i)) = j
      BY <1>0, <2>2 DEF OpIds
    <3>2. Cardinality(SlotsOf(i) \cup {pos}) = Cardinality(SlotsOf(i)) + 1
      BY <2>4, SlotsFinite, FS_AddElement
    <3>. QED
      BY <2>4, <3>1, <3>2
  <2>7. \A o \in OpIds :
          Cardinality(Now(o)) = IF o < i THEN op_dist[o] ELSE IF o = i THEN j + 1 ELSE 0
    <3>1. ASSUME NEW o \in OpIds
          PROVE  Cardinality(Now(o)) = IF o < i THEN op_dist[o] ELSE IF o = i THEN j + 1 ELSE 0
      <4>1. CASE o = i
        <5>1. ~ (o < i)
          BY <1>0, <4>1 DEF OpIds
        <5>. QED
          BY <2>6, <4>1, <5>1
      <4>2. CASE o # i
        BY <2>2, <2>5, <4>2
      <4>. QED
        BY <4>1, <4>2
    <3>. QED
      BY <3>1
  <2>8. g_ops' \in [Slots -> OpIds \cup {EmptySlot}]
    BY <2>1, <2>2
  <2>9. \A o \in OpIds : SlotsOf(o)' = Now(o)
    BY DEF SlotsOf, Now
  <2>. QED
    BY <2>2, <2>3, <2>7, <2>8, <2>9 DEF FillInv, Requested
<1>6. CASE NextOp
  <2>1. /\ pc = "fill" /\ pc' = "fill" /\ i \in OpIds /\ i' = i + 1 /\ j' = 0 /\ j = op_dist[i]
        /\ UNCHANGED <<release, op_dist, g_ops>>
        /\ g_ops \in [Slots -> OpIds \cup {EmptySlot}]
        /\ release \/ Requested = DISTRIBUTION_BOUND
        /\ \A o \in OpIds :
             Cardinality(SlotsOf(o)) = IF o < i THEN op_dist[o] ELSE IF o = i THEN j ELSE 0
    BY <1>6 DEF NextOp, OpPlaced, FillInv, config
  <2>2. \A o \in OpIds : SlotsOf(o)' = SlotsOf(o)
    BY <2>1 DEF SlotsOf
  <2>3. \A o \in OpIds :
          Cardinality(SlotsOf(o)) = IF o < i + 1 THEN op_dist[o] ELSE IF o = i + 1 THEN 0 ELSE 0
    <3>1. ASSUME NEW o \in OpIds
          PROVE  Cardinality(SlotsOf(o)) = IF o < i + 1 THEN op_dist[o] ELSE 0
      <4>1. o < i + 1 <=> o < i \/ o = i
        BY <1>0, <2>1 DEF OpIds
      <4>. QED
        BY <2>1, <4>1
    <3>. QED
      BY <3>1
  <2>4. i + 1 \in 0 .. NumOps
    BY <1>0, <2>1 DEF OpIds
  <2>. QED
    BY <2>1, <2>2, <2>3, <2>4 DEF FillInv, Requested
<1>7. CASE CheckSlots
  <2>1. /\ pc = "fill" /\ pc' \in {"ready", "aborted"} /\ i = NumOps
        /\ pc' = "ready" => release \/ \A s \in Slots : g_ops[s] < NumOps
        /\ UNCHANGED <<release, op_dist, g_ops>>
    BY <1>7 DEF CheckSlots, Goto, config
  <2>2. \A o \in OpIds : SlotsOf(o)' = SlotsOf(o)
    BY <2>1 DEF SlotsOf
  <2>3. \A o \in OpIds : Cardinality(SlotsOf(o)) = op_dist[o]
    BY <1>0, <2>1 DEF FillInv, OpIds
  <2>. QED
    BY <2>1, <2>2, <2>3 DEF FillInv
<1>8. CASE UNCHANGED vars
  <2>1. UNCHANGED <<release, pc, i, j, op_dist, g_ops>>
    BY <1>8 DEF vars, config
  <2>2. \A o : SlotsOf(o)' = SlotsOf(o)
    BY <2>1 DEF SlotsOf
  <2>. QED
    BY <2>1, <2>2 DEF FillInv, Requested
<1>. QED
  BY <1>1, <1>2, <1>3, <1>4, <1>5, <1>6, <1>7, <1>8 DEF Next, Step, DrawAgain, Ended

\* The inductive invariant of the way from a configuration to the workers.
THEOREM StartupInvariant == Spec => []IInv
<1>1. IInv /\ [Next]_vars => IInv'
  BY ConfigStep, ParseInvStep, FillStep DEF IInv
<1>. QED
  BY <1>1, InitInv, PTL DEF Spec

\* The check of bm_params_extract: every fixed parameter of an accepted program
\* was given and has the value given last, and every share that was given has it
\* too.
THEOREM AsGivenSafe == Spec => []AcceptedAsGiven
<1>1. IInv => AcceptedAsGiven
  BY DEF IInv, ParseInv
<1>. QED
  BY <1>1, StartupInvariant, PTL

-----------------------------------------------------------------------------
(* What the workers find. *)

\* The slots that hold an operation are as many as the shares ask for.
LEMMA SlotsAddUp ==
  ASSUME IInv, pc = "ready"
  PROVE  Requested = Cardinality({s \in Slots : g_ops[s] \in OpIds})
<1>1. op_dist \in [OpIds -> 0 .. UINT32_MAX]
  BY DEF IInv, ParseInv, Accepted
<1>2. \A o \in OpIds : op_dist[o] = Cardinality(Preimage(g_ops, Slots, {o}))
  <2>1. \A o : SlotsOf(o) = Preimage(g_ops, Slots, {o})
    BY DEF SlotsOf, Preimage
  <2>. QED
    BY <2>1 DEF IInv, FillInv
<1>3. IsFiniteSet(Slots) /\ IsFiniteSet(OpIds)
  BY SlotsFinite, FS_Interval DEF OpIds
<1>4. SumFunctionOnSet(op_dist, OpIds) = Cardinality(Preimage(g_ops, Slots, OpIds))
  BY <1>2, <1>3, SumFibers
<1>. QED
  BY <1>1, <1>4 DEF Requested, SumFunction, Preimage

\* A free slot is left only when the shares are too small.
LEMMA FreeSlot ==
  ASSUME IInv, pc = "ready", NEW s \in Slots, g_ops[s] \notin OpIds
  PROVE  Requested < DISTRIBUTION_BOUND
<1> DEFINE used == {t \in Slots : g_ops[t] \in OpIds}
<1>1. used \subseteq Slots /\ used # Slots
  OBVIOUS
<1>2. Requested = Cardinality(used)
  BY SlotsAddUp
<1> HIDE DEF used
<1>3. Cardinality(used) <= Cardinality(Slots) /\ Cardinality(used) # Cardinality(Slots)
  BY <1>1, SlotsFinite, FS_Subset
<1>4. Cardinality(used) \in Nat /\ DISTRIBUTION_BOUND \in Nat
  BY <1>1, SlotsFinite, FS_Subset, FS_CardinalityType
<1>. QED
  BY <1>2, <1>3, <1>4, SlotsFinite

\* The filling of g_ops in bm_phase_warmup: every operation has as many slots
\* as its parameter says, and a free slot is left only in a build without
\* assertions and with shares that are too small.
THEOREM SlotsSafe == Spec => []SlotsAsRequested
<1>1. ASSUME IInv PROVE SlotsAsRequested
  <2>1. SUFFICES ASSUME pc = "ready"
                 PROVE  /\ \A o \in OpIds : Cardinality({s \in Slots : g_ops[s] = o}) = op_dist[o]
                        /\ (\E s \in Slots : g_ops[s] = EmptySlot)
                             => release /\ Requested < DISTRIBUTION_BOUND
    BY DEF SlotsAsRequested
  <2>2. \A o \in OpIds : Cardinality({s \in Slots : g_ops[s] = o}) = op_dist[o]
    BY <1>1, <2>1 DEF IInv, FillInv, SlotsOf
  <2>3. ASSUME NEW s \in Slots, g_ops[s] = EmptySlot
        PROVE  release /\ Requested < DISTRIBUTION_BOUND
    <3>1. EmptySlot \notin OpIds /\ ~ (EmptySlot < NumOps)
      BY DEF EmptySlot, OpIds
    <3>2. release
      BY <1>1, <2>1, <2>3, <3>1 DEF IInv, FillInv
    <3>3. Requested < DISTRIBUTION_BOUND
      BY <1>1, <2>1, <2>3, <3>1, FreeSlot
    <3>. QED
      BY <3>2, <3>3
  <2>. QED
    BY <2>2, <2>3
<1>. QED
  BY <1>1, StartupInvariant, PTL

LEMMA FixedFour == Cardinality(Fixed) = 4
<1>1. IsFiniteSet({"t"}) /\ Cardinality({"t"}) = 1
  BY FS_Singleton
<1>2. IsFiniteSet({"t"} \cup {"n"}) /\ Cardinality({"t"} \cup {"n"}) = 2
  BY <1>1, FS_AddElement
<1>3. IsFiniteSet(({"t"} \cup {"n"}) \cup {"d"}) /\ Cardinality(({"t"} \cup {"n"}) \cup {"d"}) = 3
  BY <1>2, FS_AddElement, SMTT(30)
<1>4. Cardinality((({"t"} \cup {"n"}) \cup {"d"}) \cup {"s"}) = 4
  BY <1>3, FS_AddElement, SMTT(30)
<1>5. Fixed = (({"t"} \cup {"n"}) \cup {"d"}) \cup {"s"}
  BY DEF Fixed
<1>. QED
  BY <1>4, <1>5

\* With the default arguments the operations of the configuration are the
\* operations of the program, each given once.
LEMMA SharesGiven ==
  ASSUME IInv, pc \in {"fill", "ready"}, DefaultArgs
  PROVE  /\ Len(operations) = NumOps /\ operations # <<>>
         /\ \A o \in OpIds : operations[o + 1] >= 0 =>
              Given("op", o) = {o + 1} /\ argv[o + 1].val = operations[o + 1]
<1>1. /\ operations \in Seq(Int) /\ args \in Seq(Arguments) /\ argv = Command
      /\ Len(operations) \in Nat /\ Len(args) \in Nat /\ CountAccepted
  BY DEF IInv, ConfigInv, Accepted
<1>2. /\ argv \in Seq(Arguments)
      /\ Len(argv) = Len(operations) + Len(args)
      /\ \A k \in 1 .. Len(operations) :
           argv[k] = [opt |-> "op", idx |-> k - 1, val |-> operations[k]]
      /\ \A k \in 1 .. Len(args) : argv[Len(operations) + k] = args[k]
  BY <1>1, CommandShape DEF IInv, ConfigInv
<1>3. Cardinality(Fixed) = 4
  BY FixedFour
<1>4. Len(operations) = NumOps
  <2> DEFINE n == Len(operations)
             m == Len(args)
  <2>1. (n + m) + 1 = 5 + NumOps /\ m = 4 /\ n \in Nat
    BY <1>1, <1>2, <1>3 DEF CountAccepted, PARAM_FIXED_LEN, DefaultArgs
  <2> HIDE DEF n, m
  <2>2. n = NumOps
    BY <2>1
  <2>. QED
    BY <2>2 DEF n
<1>5. operations # <<>>
  BY <1>4
<1>6. ASSUME NEW o \in OpIds, operations[o + 1] >= 0
      PROVE  Given("op", o) = {o + 1} /\ argv[o + 1].val = operations[o + 1]
  <2>1. o + 1 \in 1 .. Len(operations) /\ (o + 1) - 1 = o /\ o + 1 \in 1 .. Len(argv)
    BY <1>1, <1>2, <1>4 DEF OpIds
  <2>2. argv[o + 1] = [opt |-> "op", idx |-> o, val |-> operations[o + 1]]
    BY <1>2, <2>1
  <2>3. o + 1 \in Given("op", o)
    <3>1. Stored(o) = o
      BY StoredRange DEF OpIds
    <3>. QED
      BY <1>2, <1>6, <2>1, <2>2, <3>1 DEF Given, Matched
  <2>4. ASSUME NEW k \in Given("op", o)
        PROVE  k = o + 1
    <3>1. k \in 1 .. Len(argv) /\ argv[k].opt = "op" /\ Stored(argv[k].idx) = o
      BY <1>2 DEF Given
    <3>2. CASE k \in 1 .. Len(operations)
      <4>1. argv[k] = [opt |-> "op", idx |-> k - 1, val |-> operations[k]]
        BY <1>2, <3>2
      <4>2. k - 1 \in Nat /\ k - 1 <= UINT32_MAX
        BY <1>4, <3>2
      <4>3. k - 1 = o
        BY <3>1, <4>1, <4>2, StoredRange
      <4>. QED
        BY <3>2, <4>3 DEF OpIds
    <3>3. CASE k \notin 1 .. Len(operations)
      <4>1. k - Len(operations) \in 1 .. Len(args) /\ Len(operations) + (k - Len(operations)) = k
        BY <1>1, <1>2, <3>1, <3>3
      <4>2. argv[k] = args[k - Len(operations)]
        BY <1>2, <4>1
      <4>3. args[k - Len(operations)].opt \in Fixed
        BY <1>1, <4>1 DEF DefaultArgs
      <4>. QED
        BY <3>1, <4>2, <4>3 DEF Fixed
    <3>. QED
      BY <3>2, <3>3
  <2>. QED
    BY <2>2, <2>3, <2>4
<1>. QED
  BY <1>4, <1>5, <1>6

\* The sum that Application.__init__ checks is the sum of the shares: what
\* runs is the configured mix, in every slot and in every build.
THEOREM MixAsConfiguredSafe == Spec => []MixAsConfigured
<1>1. ASSUME IInv PROVE MixAsConfigured
  <2>1. SUFFICES ASSUME pc \in {"fill", "ready"}, DefaultArgs,
                        \A k \in DOMAIN operations : operations[k] >= 0
                 PROVE  /\ \A o \in OpIds : op_dist[o] = operations[o + 1]
                        /\ Requested = DISTRIBUTION_BOUND
                        /\ pc = "ready" => \A s \in Slots : g_ops[s] \in OpIds
    BY DEF MixAsConfigured
  <2>2. /\ Len(operations) = NumOps /\ operations # <<>> /\ operations \in Seq(Int)
        /\ DOMAIN operations = 1 .. NumOps
    BY <1>1, <2>1, SharesGiven DEF IInv, ConfigInv
  <2>3. /\ SumFunctionOnSet(operations, 1 .. NumOps) = DISTRIBUTION_BOUND
        /\ \A k \in 1 .. NumOps : operations[k] \in Nat
        /\ IsFiniteSet(1 .. NumOps)
    <3>1. SumFunction(operations) = DISTRIBUTION_BOUND
      BY <1>1, <2>1, <2>2 DEF IInv, ConfigInv, SumAccepted
    <3>2. \A k \in 1 .. NumOps : operations[k] \in Nat
      BY <2>1, <2>2
    <3>3. IsFiniteSet(1 .. NumOps)
      BY FS_Interval
    <3>. QED
      BY <2>2, <3>1, <3>2, <3>3 DEF SumFunction
  <2>4. ASSUME NEW o \in OpIds
        PROVE  op_dist[o] = operations[o + 1]
    <3>1. o + 1 \in 1 .. NumOps /\ o + 1 \in Int
      BY DEF OpIds
    <3>2. operations[o + 1] \in Nat /\ operations[o + 1] <= DISTRIBUTION_BOUND
      BY <2>3, <3>1, SumMember
    <3>3. Given("op", o) = {o + 1} /\ argv[o + 1].val = operations[o + 1]
      BY <1>1, <2>1, <3>2, SharesGiven
    <3>4. Max({o + 1}) = o + 1
      BY <3>1 DEF Max
    <3>5. op_dist[o] = LastGiven("op", o)
      BY <1>1, <2>1, <3>3 DEF IInv, ParseInv, AcceptedAsGiven, Accepted
    <3>6. LastGiven("op", o) = Stored(operations[o + 1])
      BY <3>3, <3>4 DEF LastGiven, Stored
    <3>7. operations[o + 1] <= UINT32_MAX
      BY <3>2
    <3>. QED
      BY <3>2, <3>5, <3>6, <3>7, StoredRange
  <2>5. Requested = DISTRIBUTION_BOUND
    <3>1. op_dist \in [OpIds -> 0 .. UINT32_MAX]
      BY <1>1, <2>1 DEF IInv, ParseInv, Accepted
    <3>2. \A k \in 0 .. NumOps - 1 : operations[k + 1] \in Int /\ op_dist[k] = operations[k + 1]
      BY <2>3, <2>4 DEF OpIds
    <3>3. SumFunctionOnSet(op_dist, 0 .. NumOps - 1) = SumFunctionOnSet(operations, 1 .. NumOps)
      <4>1. NumOps \in Nat
        OBVIOUS
      <4>. QED
        BY <3>2, <4>1, SumShift
    <3>. QED
      BY <2>3, <3>1, <3>3 DEF Requested, SumFunction, OpIds
  <2>6. ASSUME pc = "ready", NEW s \in Slots
        PROVE  g_ops[s] \in OpIds
    <3>1. SUFFICES ASSUME g_ops[s] \notin OpIds PROVE FALSE
      OBVIOUS
    <3>2. Requested < DISTRIBUTION_BOUND
      BY <1>1, <2>6, <3>1, FreeSlot
    <3>. QED
      BY <2>5, <3>2
  <2>. QED
    BY <2>4, <2>5, <2>6
<1>. QED
  BY <1>1, StartupInvariant, PTL

=============================================================================
