------------------------------- MODULE Report -------------------------------
(***************************************************************************)
(* The report of a campaign (bm_visualize.py): the rows of the results     *)
(* file are split into one data frame for each noise and number of         *)
(* threads, every configured plot is drawn for every frame, and an HTML    *)
(* file is written at the end.  The plots are objects shared by all        *)
(* frames, and some kinds of plot overwrite their column `y'.              *)
(*                                                                         *)
(* Every error of pandas (a missing column, the maximum of nothing) ends   *)
(* the program before the file is written.                                 *)
(***************************************************************************)
EXTENDS Campaign

CONSTANT PlotLists      \* bound: values of `plots': sequences of type, y, hue

\* The parts of the names of columns, those that plots add among them.
Parts ==
  STRING \cup {"min", "max", "count", "succ_count", "succ_percent", "histogram", "latency", "linearity"}

Plots ==
  [type: {"normal", "min_max_avg", "success_percent", "histogram", "linearity"},
   y: Seq(Parts), hue: Seq(Parts)]

\* The names of the columns that plots make up are nobody else's.
ASSUME ReportAssumption ==
  /\ PlotLists \subseteq Seq(Plots)
  /\ \A l \in AppLists : \A a \in ToSet(l) : \A key \in a.keys :
       /\ key \notin {<<"latency", "histogram">>, <<"linearity">>}
       /\ Len(key) > 1 => key[Len(key) - 1] # "succ_percent"

VARIABLES
  plots,      \* the plots as they are now
  asked,      \* the plots as they were configured
  f, p,       \* the frame and the plot that are drawn next
  figures     \* the figures saved so far: frame and plot

reportVars == <<plots, asked, f, p, figures>>
vars == <<campaignVars, reportVars>>

ReportInit ==
  /\ Init
  /\ plots = <<>> /\ asked = <<>>
  /\ f = 1 /\ p = 1
  /\ figures = {}

\* The plots are read with the configuration, by the campaign itself or, after
\* one that ended early, by a later call with --replot.
visualize_in_html ==
  /\ pc = "visualize" \/ (pc \in Stopped /\ csv # <<>>)
  /\ pc' = "plot"
  /\ asked' \in PlotLists
  /\ plots' = asked'
  /\ UNCHANGED <<config, k, units, csv, f, p, figures>>

-----------------------------------------------------------------------------
(* Data frames. *)

\* The columns of the file: the variables of the run and what was parsed.
Columns == {<<"container_cnt">>, <<"execution_type">>} \cup DOMAIN csv[1].val

Has(y, suffixes) == \A s \in suffixes : Append(y, s) \in Columns

\* The members of S that are in a list, in the order in which they first are.
Occurring(list, S) ==
  LET first == Ascending({n \in DOMAIN list : list[n] \in S /\ \A m \in 1 .. n - 1 : list[m] # list[n]})
  IN  [n \in DOMAIN first |-> list[first[n]]]

\* split_data_frame: all combinations of the values that occur, in the order
\* in which they do.
Frames ==
  LET all == Product(Occurring(Noises, {r.point.noise : r \in ToSet(csv)}),
                     Occurring(Threads, {r.point.threads : r \in ToSet(csv)}))
  IN  [m \in DOMAIN all |-> [noise |-> all[m][1], threads |-> all[m][2]]]

FrameRows(fr) ==
  {r \in ToSet(csv) : r.point.noise = fr.noise /\ r.point.threads = fr.threads}

\* The groups of a frame, and whether each has a row of a run with one unit.
HueOf(r, hue) == IF hue = <<"execution_type">> THEN 0 ELSE r.val[hue]
HasBaseline(rows, hue) ==
  \A r \in rows : \E one \in rows :
    one.point.count = 1 /\ HueOf(one, hue) = HueOf(r, hue)

\* The result of a run with one unit, which is the first application's, is 0.
ZeroBaseline(y) == y \in applications[1].keys /\ applications[1].zero

\* No bucket of any row has counted anything.
NothingCounted(rows, y) ==
  \A r \in rows : AppOf(r.val[Append(y, "histogram")]).zero

-----------------------------------------------------------------------------
(* create_plots. *)

Drawing(type) == /\ pc = "plot" /\ f <= Len(Frames) /\ p <= Len(plots)
                 /\ plots[p].type = type
Y == plots[p].y
Hue == plots[p].hue
Nothing == FrameRows(Frames[f]) = {}

Draw ==
  /\ figures' = figures \cup {<<f, p>>}
  /\ p' = p + 1
  /\ UNCHANGED <<campaignVars, asked, f>>

\* Fault variant: a plot that cannot be drawn ends the loop over the plots.
SkipRest ==
  /\ p' = Len(plots) + 1
  /\ UNCHANGED <<campaignVars, plots, asked, f, figures>>

\* A message is logged and the next plot is drawn.
Skip ==
  /\ p' = p + 1
  /\ UNCHANGED <<campaignVars, plots, asked, f, figures>>

\* The hue column is used before plot_chart checks that it is there.
ChartFails == Hue \notin Columns \/ Nothing

NormalPlot ==
  /\ Drawing("normal") /\ Hue \in Columns
  /\ IF Y \in Columns THEN ~ Nothing /\ Draw /\ UNCHANGED plots ELSE Skip

NormalFails ==
  /\ Drawing("normal")
  /\ Hue \notin Columns \/ (Y \in Columns /\ Nothing)

\* Fault variant: the column is overwritten as the other kinds of plot do.
MinMaxAvgOverwrites ==
  /\ Drawing("min_max_avg") /\ Has(Y, {"min", "max"}) /\ ~ ChartFails
  /\ plots' = [plots EXCEPT ![p].y = Append(@, "avg")]
  /\ Draw

create_min_max_avg_plot ==
  /\ Drawing("min_max_avg") /\ Has(Y, {"min", "max"}) /\ ~ ChartFails
  /\ Draw /\ UNCHANGED plots

MinMaxAvgFails == Drawing("min_max_avg") /\ (~ Has(Y, {"min", "max"}) \/ ChartFails)

create_success_rate_plot ==
  /\ Drawing("success_percent") /\ Has(Y, {"count", "succ_count"}) /\ ~ ChartFails
  /\ plots' = [plots EXCEPT ![p].y = Append(@, "succ_percent")]
  /\ Draw

SuccessRateFails ==
  Drawing("success_percent") /\ (~ Has(Y, {"count", "succ_count"}) \/ ChartFails)

\* When all buckets of all rows are empty there is no row to select from.
HistogramReadable ==
  Has(Y, {"histogram"}) /\ ~ ChartFails /\ ~ NothingCounted(FrameRows(Frames[f]), Y)

create_histogram_plot ==
  /\ Drawing("histogram") /\ HistogramReadable
  /\ plots' = [plots EXCEPT ![p].y = <<"latency">>]
  /\ Draw

HistogramFails == Drawing("histogram") /\ ~ HistogramReadable

\* There is a result of one unit to divide by.
Comparable == HasBaseline(FrameRows(Frames[f]), Hue) /\ ~ ZeroBaseline(Y)

\* The plot stays as it is.
LinearitySkipped ==
  /\ Drawing("linearity") /\ {Y, Hue} \subseteq Columns /\ ~ Nothing
  /\ ~ Comparable
  /\ Skip

create_linearity_plot ==
  /\ Drawing("linearity") /\ {Y, Hue} \subseteq Columns /\ ~ Nothing
  /\ Comparable
  /\ plots' = [plots EXCEPT ![p].y = <<"linearity">>]
  /\ Draw

LinearityFails == Drawing("linearity") /\ (~ {Y, Hue} \subseteq Columns \/ Nothing)

ReportFails ==
  /\ NormalFails \/ MinMaxAvgFails \/ SuccessRateFails \/ HistogramFails \/ LinearityFails
  /\ pc' = "aborted"
  /\ UNCHANGED <<config, k, units, csv, reportVars>>

NextFrame ==
  /\ pc = "plot" /\ f <= Len(Frames) /\ p > Len(plots)
  /\ f' = f + 1 /\ p' = 1
  /\ UNCHANGED <<campaignVars, plots, asked, figures>>

WriteReport ==
  /\ pc = "plot" /\ f > Len(Frames)
  /\ pc' = "written"
  /\ UNCHANGED <<config, k, units, csv, reportVars>>

Over ==
  /\ pc \in {"written", "aborted"} \/ (pc \in Stopped /\ csv = <<>>)
  /\ UNCHANGED vars

Next ==
  \/ CampaignStep /\ UNCHANGED reportVars
  \/ visualize_in_html
  \/ NormalPlot \/ create_min_max_avg_plot \/ create_success_rate_plot
  \/ create_histogram_plot \/ LinearitySkipped \/ create_linearity_plot
  \/ ReportFails \/ NextFrame \/ WriteReport \/ Over

Spec == ReportInit /\ [][Next]_vars

-----------------------------------------------------------------------------
(* Properties. *)

\* A plot of a frame is drawn, or left out for a reason.
Passed(fr, q) ==
  \/ <<fr, q>> \in figures
  \/ asked[q].type = "normal" /\ asked[q].y \notin Columns
  \/ /\ asked[q].type = "linearity"
     /\ ~ HasBaseline(FrameRows(Frames[fr]), asked[q].hue) \/ ZeroBaseline(asked[q].y)

\* "For each data frame we'll generate the related graphs" (bm_visualize.py:444)
\* of a report that is written: nothing configured is missing, unless the file
\* has no such column, or a linearity has no result of one unit to be compared
\* with in that frame.
ReportComplete ==
  pc = "written" => \A fr \in DOMAIN Frames, q \in DOMAIN asked : Passed(fr, q)

\* What a plot reads from the file.
Needed(plot) ==
  {plot.hue} \cup CASE plot.type = "min_max_avg"     -> {Append(plot.y, "min"), Append(plot.y, "max")}
                    [] plot.type = "success_percent" -> {Append(plot.y, "count"), Append(plot.y, "succ_count")}
                    [] plot.type = "histogram"       -> {Append(plot.y, "histogram")}
                    [] plot.type = "linearity"       -> {plot.y}
                    [] OTHER                         -> {}

\* There is something wrong with the results: a column that the plot reads is
\* not in the file, the frame has no row because the campaign ended early, or
\* nothing was counted in a histogram.
Hopeless ==
  \/ ~ Needed(asked[p]) \subseteq Columns
  \/ Nothing /\ k <= Len(Points)
  \/ asked[p].type = "histogram" /\ NothingCounted(FrameRows(Frames[f]), asked[p].y)

\* A plot finds the columns it was configured with whatever other plots and
\* frames came before: the report is not given up at a normal or min_max_avg
\* plot, nor at one of any kind that has not been drawn yet, unless the results
\* are to blame (create_plots, split_data_frame).
ReportAborts ==
  /\ pc = "aborted"
  /\ \/ asked[p].type \in {"normal", "min_max_avg"}
     \/ \A fr \in DOMAIN Frames : <<fr, p>> \notin figures
  => Hopeless

\* "For each data frame we'll generate the related graphs" (bm_visualize.py:444):
\* the report is given up only when the results are to blame.
EveryFrameDrawn == pc = "aborted" => Hopeless

-----------------------------------------------------------------------------
(***************************************************************************)
(* The rest of the inductive invariant behind the theorems of              *)
(* ReportProofs.                                                           *)
(***************************************************************************)

\* The plots differ from those asked for in nothing but the column of the
\* kinds that overwrite it, and in that only once they were drawn.
PlotsInv ==
  /\ asked \in Seq(Plots) /\ plots \in Seq(Plots) /\ Len(plots) = Len(asked)
  /\ \A q \in DOMAIN asked :
       /\ plots[q].type = asked[q].type /\ plots[q].hue = asked[q].hue
       /\ \/ plots[q].y = asked[q].y
          \/ /\ asked[q].type \notin {"normal", "min_max_avg"}
             /\ asked[q].type = "linearity" => plots[q].y = <<"linearity">>
             /\ \E fr \in DOMAIN Frames : <<fr, q>> \in figures

\* Success rates and histograms are drawn once: their new columns do not exist.
DrawnOnce ==
  \A q \in DOMAIN asked :
    asked[q].type \in {"success_percent", "histogram"} =>
      /\ f <= 2
      /\ f = 2 => p <= q
      /\ f = 2 \/ p > q =>
           plots[q].y = IF asked[q].type = "histogram" THEN <<"latency">>
                        ELSE Append(asked[q].y, "succ_percent")

Plotting == {"plot", "written", "aborted"}
ReportInv ==
  /\ pc \notin Plotting => f = 1 /\ p = 1 /\ figures = {}
  /\ pc \in Plotting =>
       /\ csv # <<>>
       /\ f \in 1 .. Len(Frames) + 1 /\ p \in 1 .. Len(asked) + 1
       /\ \A fr \in DOMAIN Frames, q \in DOMAIN asked :
            /\ fr < f \/ (fr = f /\ q < p) => Passed(fr, q)
            /\ <<fr, q>> \in figures => fr < f \/ (fr = f /\ q < p)
       /\ PlotsInv
       /\ DrawnOnce
  /\ pc = "written" => f = Len(Frames) + 1
  /\ ReportAborts

IInv == CampaignInv /\ CsvInv /\ ReportInv
=============================================================================
