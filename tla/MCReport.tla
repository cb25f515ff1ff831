------------------------------ MODULE MCReport ------------------------------
(***************************************************************************)
(* Small campaigns: one or two applications with different columns, up to  *)
(* three units, two data frames, up to two plots.                          *)
(***************************************************************************)
EXTENDS Report

Thr == <<"thr">>
Lat == <<"lat">>
LatColumns == {Append(Lat, s) : s \in {"min", "max", "count", "succ_count", "histogram"}}

bench == [name |-> "bench", keys |-> {Thr} \cup LatColumns, newline |-> TRUE, zero |-> FALSE]
idle  == [bench EXCEPT !.zero = TRUE]
redis == [name |-> "redis", keys |-> {Thr, <<"rps">>}, newline |-> TRUE, zero |-> FALSE]
fio   == [name |-> "fio", keys |-> {Thr}, newline |-> FALSE, zero |-> FALSE]

SmallAppLists ==
  {<<bench>>, <<idle>>, <<fio>>, <<idle, bench>>, <<bench, redis>>, <<redis, fio>>}
SmallCountLists == {<<1>>, <<2, 1>>, <<2, 3, 2>>, None}
SmallOffsetLists == {None, <<4, 0>>}
Two == <<1, 3>>

Plot(type, y, hue) == [type |-> type, y |-> y, hue |-> hue]
ByUnit == <<"execution_unit">>
SmallPlots ==
  {Plot("normal", Thr, ByUnit), Plot("normal", Lat, ByUnit), Plot("normal", Thr, <<"rps">>),
   Plot("linearity", Thr, ByUnit), Plot("linearity", Thr, <<"execution_type">>)}
    \cup {Plot(t, Lat, ByUnit) : t \in {"min_max_avg", "success_percent", "histogram"}}
SmallPlotLists == UNION {[1 .. n -> SmallPlots] : n \in 0 .. 2}
=============================================================================
