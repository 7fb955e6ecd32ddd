--------------------------- MODULE ProjectionQueries ---------------------------
(***************************************************************************)
(* What the operations read model (operations-read-model.ts) derives from  *)
(* the owner events it accepted, and what its readers get of it: the rows  *)
(* of the runs, their timelines and retention holds, the counters and      *)
(* gauges, and the pages of the two keyset walks.  Accepted events stay;   *)
(* the rest is kept up with them, derived again from them at every start   *)
(* and rebuild, and thinned out by retention after that.                   *)
(***************************************************************************)
EXTENDS Naturals, Sequences, FiniteSets

CONSTANTS
  Events,        \* [run, kind, by]: the owner events there may be, each once
  MaxEvents,     \* bound: events accepted
  PageSize,      \* rows of a page
  MaxRebuilds,   \* bound: rebuilds
  MaxStarts      \* bound: starts

VARIABLES
  log,           \* accepted_events, in the order of their rowid
  aged,          \* how many of them are older than the retention of details
  epoch,         \* projection_epoch
  view,          \* run_projection, timeline, activity_aggregates, retention_holds
  counters,      \* metric_values, counters: epoch -> runs that ended
  gauges,        \* metric_values of this epoch, gauges: class -> runs
  starts,
  walk,          \* a reader of the runs, or of the timeline of run 1
  retired        \* history: run -> its row when retention took it, since the last derivation

vars == <<log, aged, epoch, view, counters, gauges, starts, walk, retired>>

Runs == {e.run : e \in Events}
NoRow == [owner |-> "none", process |-> "none"]
NoAggregate == [first |-> 0, last |-> 0, count |-> 0]
NoHold == [by |-> "none", active |-> FALSE]
Empty == [row |-> [r \in Runs |-> NoRow], entries |-> [r \in Runs |-> {}],
          activity |-> [r \in Runs |-> NoAggregate], hold |-> [r \in Runs |-> NoHold]]

\* A walk: where it is, what its cursor names, what it gave, in order. (history: kept,
\* what has been there ever since it began)
Idle == [at |-> "idle", of |-> "none", epoch |-> 0, last |-> 0, given |-> <<>>, kept |-> {}]

---------------------------------------------------------------------------

Final == {"failed", "recovered", "completed"}

\* deriveRunLifecycle: a run is not over while it has a process, alive or abnormal.
Shown(row) == IF row.owner \in Final /\ row.process \in {"live", "abnormal"} THEN "cleaning" ELSE row.owner

\* projectEvent: the row, the run's lifecycle, its process, its hold; process.activity
\* goes into the aggregate of its minute, any other event into the timeline.
Row(row, e) ==
  LET old == IF row = NoRow THEN [owner |-> "unknown", process |-> "none"] ELSE row IN
  CASE e.kind \in {"active", "waiting"} \union Final -> [old EXCEPT !.owner = e.kind]
    [] e.kind \in {"live", "activity"} -> [old EXCEPT !.process = "live"]
    [] e.kind \in {"abnormal", "cleaned"} -> [old EXCEPT !.process = e.kind]
    [] OTHER -> old

\* projectRetentionHold: one row for a run and a kind, whoever acquires; only the
\* owner in it releases.
Hold(hold, e) ==
  CASE e.kind = "hold" -> [by |-> e.by, active |-> TRUE]
    [] e.kind = "release" /\ hold.by = e.by -> [hold EXCEPT !.active = FALSE]
    [] OTHER -> hold

Aggregate(old, i) == [first |-> IF old.count = 0 THEN i ELSE old.first, last |-> i, count |-> old.count + 1]

ProjectEvent(v, e, i) ==
  [row |-> [v.row EXCEPT ![e.run] = Row(@, e)],
   hold |-> [v.hold EXCEPT ![e.run] = Hold(@, e)],
   entries |-> [v.entries EXCEPT ![e.run] = IF e.kind = "activity" THEN @ ELSE @ \union {i}],
   activity |-> [v.activity EXCEPT ![e.run] = IF e.kind = "activity" THEN Aggregate(@, i) ELSE @]]

\* rebuildDerived: the events again, in the order in which they were accepted.
Replayed(events) ==
  LET after[n \in 0..Len(events)] == IF n = 0 THEN Empty ELSE ProjectEvent(after[n - 1], events[n], n)
  IN after[Len(events)]

\* projectMetrics
Ended(events) == Cardinality({i \in 1..Len(events) : events[i].kind \in Final})
Classes == {"unknown", "active", "waiting", "cleaning"} \union Final
Gauges(v) == [c \in Classes |-> Cardinality({r \in Runs : v.row[r] # NoRow /\ Shown(v.row[r]) = c})]

---------------------------------------------------------------------------

\* applyRetention: what has ended, is quiet, old and not held.
Times(v, r) == v.entries[r] \union (IF v.activity[r].count = 0 THEN {} ELSE {v.activity[r].last})

\* (mutant: the lifecycle the owner told, whatever the processes)
ExpiresEnded(v, r) ==
  v.row[r] # NoRow /\ v.row[r].owner \in Final /\ ~v.hold[r].active /\ \A i \in Times(v, r) : i <= aged

Expires(v, r) ==
  /\ v.row[r] # NoRow /\ Shown(v.row[r]) \in Final /\ v.row[r].process \notin {"live", "abnormal"}
  /\ ~v.hold[r].active /\ \A i \in Times(v, r) : i <= aged

\* The aggregates have an age of their own, which some have reached.
Expired(v) == {r \in Runs : Expires(v, r)}
Thinned(v, old) ==
  [row |-> [r \in Runs |-> IF r \in Expired(v) THEN NoRow ELSE v.row[r]],
   entries |-> [r \in Runs |-> IF r \in Expired(v) THEN {} ELSE v.entries[r]],
   hold |-> [r \in Runs |-> IF r \in Expired(v) THEN NoHold ELSE v.hold[r]],
   activity |-> [r \in Runs |-> IF r \in old THEN NoAggregate ELSE v.activity[r]]]
OldActivity(v) == {r \in Runs : v.activity[r].count > 0 /\ v.activity[r].last <= aged /\ ~v.hold[r].active}

\* What readers can still find: the runs; the lines of a run by the event they begin with.
Listed(v) == {r \in Runs : v.row[r] # NoRow}
Lines(v, r) == v.entries[r] \union (IF v.activity[r].count = 0 THEN {} ELSE {v.activity[r].first})
Keys(of, v) == IF of = "lines" THEN Lines(v, 1) ELSE Listed(v)
Walks(v) == walk' = [walk EXCEPT !.kept = @ \intersect Keys(walk.of, v)]

Derive ==
  LET v == Replayed(log) IN
  /\ \E old \in SUBSET OldActivity(v) : view' = Thinned(v, old)
  /\ gauges' = Gauges(view') /\ Walks(view')
  /\ retired' = [r \in Runs |-> IF r \in Expired(v) THEN v.row[r] ELSE NoRow]

\* The metrics of another epoch may have reached their age, unless anything is held.
KeepMetrics(all, current) ==
  \/ counters' = all
  \/ (\A r \in Runs : ~view'.hold[r].active) /\ counters' = [e \in {current} |-> all[e]]

Init ==
  /\ log = <<>> /\ aged = 0 /\ epoch = 1 /\ view = Empty /\ starts = 1
  /\ counters = [e \in {1} |-> 0] /\ gauges = Gauges(Empty)
  /\ walk = Idle /\ retired = [r \in Runs |-> NoRow]

Accepted == {log[i] : i \in 1..Len(log)}

\* ingest, of an event that is accepted.
Ingest(e) ==
  /\ e \notin Accepted /\ Len(log) < MaxEvents /\ log' = Append(log, e)
  /\ view' = ProjectEvent(view, e, Len(log) + 1) /\ Walks(view')
  /\ counters' = [counters EXCEPT ![epoch] = @ + IF e.kind \in Final THEN 1 ELSE 0]
  /\ gauges' = Gauges(view')
  /\ UNCHANGED <<aged, epoch, starts, retired>>

\* (mutant: the metrics of the epoch stay)
StartAdding ==
  /\ starts < MaxStarts /\ starts' = starts + 1 /\ Derive
  /\ KeepMetrics([counters EXCEPT ![epoch] = @ + Ended(log)], epoch)
  /\ UNCHANGED <<log, aged, epoch>>

\* start: rebuildDerived(false), under the same epoch, and retention.
Start ==
  /\ starts < MaxStarts /\ starts' = starts + 1 /\ Derive
  /\ KeepMetrics([counters EXCEPT ![epoch] = Ended(log)], epoch)
  /\ UNCHANGED <<log, aged, epoch>>

\* rebuild: a new epoch, and retention.
Rebuild ==
  /\ epoch <= MaxRebuilds /\ epoch' = epoch + 1 /\ Derive
  /\ KeepMetrics([e \in DOMAIN counters \union {epoch + 1} |-> IF e = epoch + 1 THEN Ended(log) ELSE counters[e]], epoch + 1)
  /\ UNCHANGED <<log, aged, starts>>

Age ==
  /\ aged < Len(log) /\ aged' = aged + 1
  /\ UNCHANGED <<log, epoch, view, counters, gauges, starts, walk, retired>>

---------------------------------------------------------------------------

\* (mutant: the cursor names the first row that was left out)
LastSkipping(page, rest) == IF rest = page THEN 0 ELSE CHOOSE k \in rest \ page : \A j \in rest \ page : k <= j

\* The cursor names the last row given.
Last(page, rest) == IF page = {} THEN 0 ELSE CHOOSE k \in page : \A j \in page : j <= k

Ordered(set) == CHOOSE s \in [1..Cardinality(set) -> set] : \A i, j \in DOMAIN s : i < j => s[i] < s[j]

\* One row more than the page is read, to tell whether there is another page.
Turned(w) ==
  LET rest == {k \in Keys(w.of, view) : k > w.last}
      page == {k \in rest : Cardinality({j \in rest : j < k}) < PageSize}
  IN [w EXCEPT !.at = IF rest = page THEN "done" ELSE "walking", !.last = Last(page, rest), !.given = @ \o Ordered(page)]

\* listRuns, by run id; timelinePage, by the accepted event a line begins with.
FirstPage(of) ==
  /\ walk.at # "walking"
  /\ walk' = Turned([Idle EXCEPT !.of = of, !.epoch = epoch, !.kept = Keys(of, view)])
  /\ UNCHANGED <<log, aged, epoch, view, counters, gauges, starts, retired>>

NextPage ==
  /\ walk.at = "walking" /\ walk.epoch = epoch /\ walk' = Turned(walk)
  /\ UNCHANGED <<log, aged, epoch, view, counters, gauges, starts, retired>>

\* decodeCursor: a cursor of another epoch, or one that has expired, begins again
\* (PROJECTION_CURSOR_RESYNC_REQUIRED).
Resync ==
  /\ walk.at = "walking" /\ walk' = Idle
  /\ UNCHANGED <<log, aged, epoch, view, counters, gauges, starts, retired>>

Next ==
  \/ \E e \in Events : Ingest(e)
  \/ Start \/ Rebuild \/ Age \/ NextPage \/ Resync
  \/ \E of \in {"runs", "lines"} : FirstPage(of)

Spec == Init /\ [][Next]_vars

---------------------------------------------------------------------------

TypeOK ==
  /\ aged \in 0..Len(log) /\ epoch \in 1..MaxRebuilds + 1 /\ starts \in 1..MaxStarts
  /\ epoch \in DOMAIN counters /\ DOMAIN counters \subseteq 1..epoch
  /\ \A r \in Runs : view.row[r] # NoRow => Shown(view.row[r]) \in Classes

\* The counters of the epoch count the events accepted, each once, over restarts and
\* rebuilds, and the gauges the rows there are.
MetricsAgree == counters[epoch] = Ended(log) /\ gauges = Gauges(view)

\* A run that was not retired is shown as its events say; one is retired only when it
\* has ended, and none of its processes is alive or abnormal.
RowsAreReplayed == \A r \in Runs :
  /\ retired[r] = NoRow => view.row[r] = Replayed(log).row[r]
  /\ retired[r] # NoRow => retired[r].owner \in Final /\ retired[r].process \notin {"live", "abnormal"}

\* A reader who walks the pages to the end has been given, in order and once, every
\* run, or line of a run, that was there all the time, whatever came, went, or was
\* derived again in between.
WalksAreWhole ==
  /\ \A i, j \in DOMAIN walk.given : i < j => walk.given[i] < walk.given[j]
  /\ walk.at = "done" => walk.kept \subseteq {walk.given[i] : i \in DOMAIN walk.given}

\* A row tells the replay of its run's events. Events that come after the run was
\* retired begin a row of their own, which the next start replaces: no run keeps this.
ViewIsReplay == \A r \in Listed(view) : view.row[r] = Replayed(log).row[r]

\* A hold that one owner acquired ends by that owner's release. Another owner that
\* acquires the same kind takes the row over: no run keeps this.
HoldsAreOwned == \A r \in Listed(view), i \in 1..Len(log) :
  log[i].run = r /\ log[i].kind = "hold"
    /\ (\A j \in i..Len(log) : ~(log[j].run = r /\ log[j].kind = "release" /\ log[j].by = log[i].by))
  => view.hold[r].active
=============================================================================
