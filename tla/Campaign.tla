------------------------------ MODULE Campaign ------------------------------
(***************************************************************************)
(* A campaign of bm-runner: the lists of the configuration                 *)
(* (config/list.py, config/container.py), one single_run for every         *)
(* combination of threads, noise and number of units (benchmark.py), the   *)
(* text that collect_results puts together, and the rows that              *)
(* parse_output_to_results makes of it.  How the units of one run are      *)
(* started, awaited and stopped is the subject of Executer; here a run     *)
(* returns or is interrupted.                                              *)
(*                                                                         *)
(* Outputs are key=value pairs, each followed by `;'.  A key is a sequence *)
(* of the parts of its name, and its value is the unit that printed it.    *)
(***************************************************************************)
EXTENDS Integers, Sequences, FiniteSetsExt, SequencesExt

CONSTANTS
  AppLists,         \* bound: values of `applications'
  CountLists,       \* bound: values of `container_list', None when absent
  OffsetLists,      \* bound: values of `core_affinity_offsets', None when absent
  Threads, Noises,  \* the lists `threads' and `noise'
  CoreCount,        \* core_count, cores for each unit
  CpuCount,         \* os.cpu_count()
  None

\* An application: its name and path, the columns it prints (the same for
\* applications of the same name), whether its output ends with a newline, and
\* whether all it ever measures is 0.
Applications ==
  [name: STRING, keys: SUBSET Seq(STRING), newline: BOOLEAN, zero: BOOLEAN]

\* Every list has a value, and a run has a unit.
ASSUME CampaignAssumption ==
  /\ CoreCount \in Nat \ {0} /\ CpuCount \in Nat \ {0}
  /\ Threads \in Seq(Int) /\ Len(Threads) > 0
  /\ Noises \in Seq(Int) /\ Len(Noises) > 0
  /\ \A l \in AppLists :
       /\ l \in Seq(Applications) /\ Len(l) > 0
       /\ \A a, b \in ToSet(l) : a.name = b.name => a.keys = b.keys
  /\ \A l \in CountLists \ {None} : l \in Seq(Nat \ {0}) /\ Len(l) > 0
  /\ \A l \in OffsetLists \ {None} : l \in Seq(Nat)

VARIABLES
  applications, container_list, offsets,    \* the configuration
  pc,       \* what happens next, or why the campaign stopped
  k,        \* number of the combination that is run
  units,    \* the execution units of the run
  csv       \* the rows of the results file

config == <<applications, container_list, offsets>>
campaignVars == <<config, pc, k, units, csv>>

Init ==
  /\ applications \in AppLists
  /\ container_list \in CountLists
  /\ offsets \in OffsetLists
  /\ pc = "load" /\ k = 1
  /\ units = <<>> /\ csv = <<>>

-----------------------------------------------------------------------------
(* Configuration. *)

\* The numbers in S from the smallest to the largest: Python's sorted.
Ascending(S) ==
  CHOOSE s \in [1 .. Cardinality(S) -> S] : \A m, n \in DOMAIN s : m < n => s[m] < s[n]

\* Fault variant: the values are used in the order in which they are given.
InOrderGiven(values) == values

\* ListConfig.get_list: sorted, without duplicates.
get_list(values) == Ascending(ToSet(values))

\* Fault variant: one core is set aside for each unit, whatever core_count is.
OneCoreEach(counts) == [n \in 1 .. Last(counts) |-> n - 1]

\* As many as the last, largest, number of units.
DefaultOffsets(counts) == [n \in 1 .. Last(counts) |-> CoreCount * (n - 1)]

\* The default of container_list is a ListConfig, whose keys are not those
\* that from_dict looks for: loading such a configuration ends in a KeyError.
LoadFails ==
  /\ pc = "load" /\ container_list = None
  /\ pc' = "exited"
  /\ UNCHANGED <<config, k, units, csv>>

LoadConfig ==
  /\ pc = "load" /\ container_list # None
  /\ pc' = "run"
  /\ container_list' = get_list(container_list)
  /\ offsets' = IF offsets = None THEN DefaultOffsets(container_list')
                                  ELSE get_list(offsets)
  /\ UNCHANGED <<applications, k, units, csv>>

-----------------------------------------------------------------------------
(* single_run. *)

\* The pairs of an element of s and one of t, the latter changing faster.
Product(s, t) ==
  [m \in 1 .. Len(s) * Len(t) |-> <<s[((m - 1) \div Len(t)) + 1], t[((m - 1) % Len(t)) + 1]>>]

\* The Cartesian product in the order of its variables (v_campaign); the other
\* variables, initial_size and execution_type, have one value here.
PointsOf(counts) ==
  LET all == Product(Threads, Product(Noises, counts))
  IN  [m \in DOMAIN all |->
         [threads |-> all[m][1], noise |-> all[m][2][1], count |-> all[m][2][2]]]
Points == PointsOf(container_list)

multi_app == Len(applications) > 1
different_apps == \E a \in ToSet(applications) : a.name # applications[1].name

TooFewUnits(count) == multi_app /\ count < Len(applications) /\ different_apps

RefuseRun ==
  /\ pc = "run" /\ TooFewUnits(Points[k].count)
  /\ pc' = "exited"
  /\ UNCHANGED <<config, k, units, csv>>

\* Fewer offsets than units: an IndexError in the constructor of the executer.
NoOffset ==
  /\ pc = "run" /\ ~ TooFewUnits(Points[k].count)
  /\ Points[k].count > Len(offsets)
  /\ pc' = "raised"
  /\ UNCHANGED <<config, k, units, csv>>

get_cpu_set(start, core_cnt) ==
  {(start + c) % CpuCount : c \in 0 .. Min({core_cnt, CpuCount}) - 1}

\* Applications are assigned to the units in turn.
AppOf(u) == applications[((u - 1) % Len(applications)) + 1]
UnitsOf(count) ==
  [u \in 1 .. count |-> [app   |-> AppOf(u),
                         cores |-> get_cpu_set(offsets[u], CoreCount)]]

CreateUnits ==
  /\ pc = "run" /\ ~ TooFewUnits(Points[k].count)
  /\ Points[k].count <= Len(offsets)
  /\ pc' = "exec"
  /\ units' = UnitsOf(Points[k].count)
  /\ UNCHANGED <<config, k, csv>>

\* exec_all returns, or ends with an exception that ends the campaign.
exec_all ==
  /\ pc = "exec"
  /\ pc' \in {"parse", "interrupted"}
  /\ UNCHANGED <<config, k, units, csv>>

-----------------------------------------------------------------------------
(* collect_results and parse_output_to_results. *)

\* get_output puts two pairs in front of what the unit wrote.
OutputKeys(u) == {<<"execution_unit">>, <<"app">>} \cup units[u].app.keys

\* Fault variant: every output is stripped before they are joined.
LineEndsStripped == {Len(units)}

\* The outputs are joined with nothing in between: a unit ends a line if its
\* output does, or if it is the last one.
LineEnds == {u \in DOMAIN units : units[u].app.newline \/ u = Len(units)}

\* The dictionary of the line that ends with unit e; of two pairs with the
\* same key the later one stays.
LineDict(e) ==
  LET line == (Max({0} \cup {u \in LineEnds : u < e}) + 1) .. e
  IN  [key \in UNION {OutputKeys(u) : u \in line} |->
         Max({u \in line : key \in OutputKeys(u)})]

\* The columns that some dictionary does not have are dropped.
CommonKeys(dicts) == {key \in DOMAIN dicts[1] : \A d \in ToSet(dicts) : key \in DOMAIN d}

\* Fault variant: every dictionary is compared with the first one only.
IntersectWithFirst(dicts) ==
  [n \in DOMAIN dicts |-> [key \in DOMAIN dicts[1] \cap DOMAIN dicts[n] |-> dicts[n][key]]]

dict_intersect(dicts) ==
  [n \in DOMAIN dicts |-> [key \in CommonKeys(dicts) |-> dicts[n][key]]]

Rows ==
  LET ends  == Ascending(LineEnds)
      dicts == [n \in DOMAIN ends |-> LineDict(ends[n])]
      rows  == IF multi_app THEN dict_intersect(dicts) ELSE dicts
  IN  [n \in DOMAIN rows |-> [point |-> Points[k], val |-> rows[n]]]

parse_output_to_results ==
  /\ pc = "parse"
  /\ csv' = csv \o Rows
  /\ k' = k + 1
  /\ pc' = IF k = Len(Points) THEN "visualize" ELSE "run"
  /\ units' = <<>>
  /\ UNCHANGED config

CampaignStep ==
  \/ LoadFails \/ LoadConfig \/ RefuseRun \/ NoOffset \/ CreateUnits
  \/ exec_all \/ parse_output_to_results

Stopped == {"exited", "raised", "interrupted"}

-----------------------------------------------------------------------------
(* Properties. *)

WholeLines == \A a \in ToSet(applications) : a.newline

\* The rows of the runs before the n-th, if every unit has one.
RowsBefore(n) == SumFunctionOnSet([m \in DOMAIN Points |-> Points[m].count], 1 .. n - 1)

\* The columns that every application of the campaign prints: all of them when
\* there is one application.
CommonColumns ==
  {<<"execution_unit">>, <<"app">>}
    \cup {key \in applications[1].keys : \A a \in ToSet(applications) : key \in a.keys}

\* A row holds what unit u of a run printed in those columns: no column is
\* missing, and none has the value of another unit.
IsRowOf(row, point, u) ==
  /\ row.point = point
  /\ row.val = [key \in CommonColumns |-> u]

\* When outputs end with a newline, every unit of every finished run has one row
\* of its own with all it printed in the columns that the applications have in
\* common, in the order of the runs and of the units and with no other rows in
\* between; the other columns of a mix of applications are in no row
\* (dict_intersect).  Whatever the other outputs end with, a unit has a row if
\* its own output ends with a newline or it is the last one of its run; a unit
\* of scripts/adapters/fio-adapter.sh, whose output does not, may have none.
EveryUnitRecorded ==
  /\ WholeLines =>
       /\ Len(csv) = RowsBefore(k)
       /\ \A n \in 1 .. k - 1 : \A u \in 1 .. Points[n].count :
            IsRowOf(csv[RowsBefore(n) + u], Points[n], u)
  /\ \A n \in 1 .. k - 1 : \A u \in 1 .. Points[n].count :
       AppOf(u).newline \/ u = Points[n].count =>
         \E r \in ToSet(csv) : r.point = Points[n] /\ r.val[<<"execution_unit">>] = u

\* All rows have the same columns, in runs of any number of units: uncommon
\* columns are dropped run by run, so each run must have all applications.
ColumnsStable ==
  WholeLines => \A r, s \in ToSet(csv) : DOMAIN r.val = DOMAIN s.val

\* The runner does not discover after a run that the configuration is not good
\* for the next one: the run with the fewest units is the first.  Only a list
\* of offsets that was given may turn out to be too short later.
RefusedBeforeFirstRun ==
  /\ pc = "exited" => csv = <<>>
  /\ pc = "raised" => offsets # DefaultOffsets(container_list)

\* Without explicit offsets units do not share cores while there are enough.
CoresDisjoint ==
  pc = "exec" /\ offsets = DefaultOffsets(container_list)
    /\ CoreCount * Len(units) <= CpuCount =>
    /\ \A u, v \in DOMAIN units : u # v => units[u].cores \cap units[v].cores = {}
    /\ \A u \in DOMAIN units : Cardinality(units[u].cores) = CoreCount

-----------------------------------------------------------------------------
(***************************************************************************)
(* The parts of the inductive invariant behind the theorems of             *)
(* ReportProofs that are about the campaign.                               *)
(***************************************************************************)

\* The lists once they are loaded, and the combinations run so far: none of
\* them was refused.
Loaded ==
  /\ container_list \in Seq(Nat \ {0}) /\ Len(container_list) > 0
  /\ \A m, n \in DOMAIN container_list : m < n => container_list[m] < container_list[n]
  /\ offsets \in Seq(Int)
  /\ k \in 1 .. Len(Points) + 1
  /\ \A n \in 1 .. k - 1 : ~ TooFewUnits(Points[n].count)

CampaignInv ==
  /\ applications \in AppLists
  /\ pc = "load" => container_list \in CountLists /\ offsets \in OffsetLists /\ k = 1 /\ csv = <<>>
  /\ k = 1 \/ pc = "exited" => csv = <<>>
  /\ pc \notin {"load", "exited"} => Loaded
  /\ pc \in {"run", "exec", "parse", "raised"} => k <= Len(Points)
  /\ pc \in {"exec", "parse"} =>
       /\ ~ TooFewUnits(Points[k].count) /\ Points[k].count <= Len(offsets)
       /\ units = UnitsOf(Points[k].count)
  /\ pc = "raised" => Points[k].count > Len(offsets)
  /\ pc = "visualize" => k = Len(Points) + 1

CsvInv ==
  /\ csv \in Seq(ToSet(csv))
  /\ \A r \in ToSet(csv) :
       /\ r.point \in ToSet(Points)
       /\ <<"execution_unit">> \in DOMAIN r.val
       /\ DOMAIN r.val \subseteq {<<"execution_unit">>, <<"app">>} \cup UNION {a.keys : a \in ToSet(applications)}
  /\ WholeLines =>
       /\ \A r \in ToSet(csv) : DOMAIN r.val = CommonColumns
       /\ \A n \in 1 .. k - 1 : RowsBefore(n) + Points[n].count <= Len(csv)
  /\ EveryUnitRecorded
=============================================================================
