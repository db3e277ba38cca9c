----------------------------- MODULE JobCharts -----------------------------
(***************************************************************************)
(* The charts of a running job (agent/module/charts.go, job.go): during    *)
(* Collect the module adds charts, marks them removed or not created; then *)
(* runOnce tells Netdata which charts exist, drops the removed ones and    *)
(* updates the rest; Cleanup tells Netdata that the charts are obsolete.   *)
(*                                                                         *)
(* Netdata is the set of charts it was told of and not told are obsolete.  *)
(* The execution-time chart, dimensions and labels are left out.           *)
(***************************************************************************)
EXTENDS Naturals, Sequences, Functions

CONSTANTS Id,           \* chart IDs
          TooLong,      \* those whose type.id is too long for Netdata
          MaxCharts,    \* bound: charts on the list
          AddsTwice     \* the module may add a chart it has added already

VARIABLES pc,       \* idle, collecting, processing (in processMetrics) or stopped
          charts,   \* j.charts; in processMetrics, the part of it ahead of the loop
          kept,     \* ... and the part of it the loop has kept
          metrics,  \* the collection being processed has yielded metrics
          live,     \* Netdata's charts
          panic,    \* j.panicked
          wrong     \* history: a chart was updated that Netdata did not have

vars == <<pc, charts, kept, metrics, live, panic, wrong>>

Chart == [id : Id, created : BOOLEAN, remove : BOOLEAN]
NewChart(x) == [id |-> x, created |-> FALSE, remove |-> FALSE]

\* The charts the module starts with: none or one.
Init == /\ pc = "idle"
        /\ charts \in {<<>>} \cup {<<NewChart(x)>> : x \in Id}
        /\ kept = <<>> /\ metrics = FALSE
        /\ live = {} /\ panic = FALSE /\ wrong = FALSE

-----------------------------------------------------------------------------
(* Collect *)

CollectBegins ==
  /\ pc = "idle"
  /\ pc' = "collecting" /\ panic' = FALSE
  /\ UNCHANGED <<charts, kept, metrics, live, wrong>>

\* The chart Get finds: the first with this ID.
Has(x) == \E i \in DOMAIN charts : charts[i].id = x
Get(x) == charts[CHOOSE i \in DOMAIN charts :
                   charts[i].id = x /\ \A k \in 1..i - 1 : charts[k].id # x]
Unremoved(x) == {i \in DOMAIN charts : charts[i].id = x /\ ~charts[i].remove}

\* Charts.Add; with an error nothing changes.
Add(x) ==
  /\ pc = "collecting" /\ Len(charts) < MaxCharts
  /\ AddsTwice \/ Unremoved(x) = {}
  /\ Has(x) => Get(x).remove
  /\ charts' = Append(charts, NewChart(x))
  /\ UNCHANGED <<pc, kept, metrics, live, panic, wrong>>

\* MarkRemove with MarkNotCreated, the way modules use it.
MarkRemove(i) ==
  /\ pc = "collecting" /\ ~charts[i].remove
  /\ charts' = [charts EXCEPT ![i].remove = TRUE, ![i].created = FALSE]
  /\ UNCHANGED <<pc, kept, metrics, live, panic, wrong>>

\* MarkNotCreated, for a new dimension.
Recreate(i) ==
  /\ pc = "collecting" /\ charts[i].created
  /\ charts' = [charts EXCEPT ![i].created = FALSE]
  /\ UNCHANGED <<pc, kept, metrics, live, panic, wrong>>

CollectPanics ==
  /\ pc = "collecting"
  /\ pc' = "idle" /\ panic' = TRUE
  /\ UNCHANGED <<charts, kept, metrics, live, wrong>>

-----------------------------------------------------------------------------
(* processMetrics *)

\* createChart tells Netdata of the chart; MarkRemove made it obsolete.
CreateChart(view, c) ==
  IF c.id \in TooLong THEN view
  ELSE IF c.remove THEN view \ {c.id} ELSE view \cup {c.id}

\* Collect returns, with or without metrics.
CollectReturns(some) ==
  /\ pc = "collecting"
  /\ pc' = "processing" /\ metrics' = some
  /\ UNCHANGED <<charts, kept, live, panic, wrong>>

\* One turn of the loop: a chart is created if need be, dropped if removed,
\* else kept and, if there are metrics, updated.
Keep(c) == /\ kept' = Append(kept, [c EXCEPT !.created = TRUE])
           /\ wrong' = (wrong \/ (metrics /\ c.id \notin TooLong /\ c.id \notin live'))

DropsFirst ==
  /\ pc = "processing" /\ charts # <<>>
  /\ LET c == Head(charts)
     IN  IF c.remove THEN UNCHANGED <<live, kept, wrong>>
         ELSE live' = (IF c.created THEN live ELSE CreateChart(live, c)) /\ Keep(c)
  /\ charts' = Tail(charts)
  /\ UNCHANGED <<pc, metrics, panic>>
ProcessChart ==
  /\ pc = "processing" /\ charts # <<>>
  /\ LET c == Head(charts)
     IN  /\ live' = IF c.created THEN live ELSE CreateChart(live, c)
         /\ IF c.remove THEN UNCHANGED <<kept, wrong>> ELSE Keep(c)
  /\ charts' = Tail(charts)
  /\ UNCHANGED <<pc, metrics, panic>>

\* After the loop the list is cut to what was kept.
Processed ==
  /\ pc = "processing" /\ charts = <<>>
  /\ charts' = kept /\ kept' = <<>>
  /\ pc' = "idle"
  /\ UNCHANGED <<metrics, live, panic, wrong>>

-----------------------------------------------------------------------------
(* Cleanup *)

\* The charts Netdata hears of as obsolete; none when the plugin terminates
\* (DontObsoleteCharts).
Obsoleted(obsolete) ==
  IF obsolete THEN {c.id : c \in {d \in Range(charts) : d.created}} \ TooLong ELSE {}

Cleanup(obsolete) ==
  /\ pc = "idle"
  /\ live' = live \ Obsoleted(obsolete)
  /\ pc' = IF obsolete THEN "stopped" ELSE "terminated"
  /\ UNCHANGED <<charts, kept, metrics, panic, wrong>>

Terminated == pc \in {"stopped", "terminated"} /\ UNCHANGED vars

Next == \/ CollectBegins
        \/ \E x \in Id : Add(x)
        \/ \E i \in DOMAIN charts : MarkRemove(i) \/ Recreate(i)
        \/ CollectPanics
        \/ \E some \in BOOLEAN : CollectReturns(some)
        \/ ProcessChart \/ Processed
        \/ \E obsolete \in BOOLEAN : Cleanup(obsolete)
        \/ Terminated

Spec == Init /\ [][Next]_vars

-----------------------------------------------------------------------------
\* Types; between collections that end normally no removed chart is on the list.
TypeOK == /\ pc \in {"idle", "collecting", "processing", "stopped", "terminated"}
          /\ charts \in Seq(Chart) /\ kept \in Seq(Chart) /\ metrics \in BOOLEAN
          /\ Len(charts) + Len(kept) <= MaxCharts
          /\ live \subseteq Id \ TooLong /\ wrong \in BOOLEAN /\ panic \in BOOLEAN
          /\ pc = "idle" /\ ~panic => \A i \in DOMAIN charts : ~charts[i].remove

\* Netdata's view follows the list, whatever the module did to its charts in
\* collections that may have panicked half way: it is never sent data for a
\* chart it does not have; after a collection that did not panic its charts are
\* those on the list that were created and not removed; and a job stopped after
\* such a collection, while the plugin goes on, leaves none.
NetdataMatchesList ==
  /\ ~wrong
  /\ pc = "idle" /\ ~panic => live = {c.id : c \in {d \in Range(charts) : d.created}} \ TooLong
  /\ pc = "stopped" /\ ~panic => live = {}

\* TestCharts_Add_SameID: Add refuses a chart whose ID another chart, not
\* removed, has.
SameIdRefused == \A i, j \in DOMAIN charts :
  charts[i].id = charts[j].id /\ ~charts[i].remove /\ ~charts[j].remove => i = j
=============================================================================
