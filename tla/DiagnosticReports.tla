-------------------------- MODULE DiagnosticReports --------------------------
(***************************************************************************)
(* Diagnostic reports (diagnostics-service-impl.ts) and the journal that   *)
(* owns their events (diagnostic-owner-journal.ts).  Reports run beside    *)
(* each other, one contributor after the other; a report is started in the *)
(* journal before its first check and ended there after the last, and the  *)
(* journal tells the read model everything it holds after every event and  *)
(* at every start.  The journal may be closed, or the backend die, while   *)
(* reports are under way.                                                  *)
(***************************************************************************)
EXTENDS Naturals, Sequences

CONSTANTS
  Reports,
  Contributors,   \* how many contributors are asked, in their order
  MaxEvents,      \* bound: events of the journal
  MaxStops,       \* bound: the backend ends
  MaxTicks        \* bound: milliseconds that pass

VARIABLES
  up,        \* the journal of this start: "new" not opened yet, "open", "stopped"
  events,    \* diagnostic_events: [report, kind]
  told,      \* what the read model has been told: <<number, event>>
  run,       \* of each report: [at, left, worst, stamp]
  answered,  \* history: [report, overall, stamp] given to a caller
  files,     \* support bundles: stamp -> report
  clock, stops

vars == <<up, events, told, run, answered, files, clock, stops>>

Statuses == {"pass", "warn", "fail"}
Idle == [at |-> "idle", left |-> 0, worst |-> "pass", stamp |-> 0]

\* An empty journal, created when it is first opened.
Init ==
  /\ up = "new" /\ events = <<>> /\ told = {} /\ run = [r \in Reports |-> Idle]
  /\ answered = {} /\ files = [t \in 0..MaxTicks |-> {}] /\ clock = 0 /\ stops = 0

\* publish: every event from the first on, until the read model refuses one.
Publish(all) == \E n \in 0..Len(all) : told' = told \union {<<i, all[i]>> : i \in 1..n}

\* onStart opens the journal and tells what it holds; onStop only closes it, and
\* a report that is under way goes on without it.
Open == /\ up = "new" /\ up' = "open" /\ Publish(events)
        /\ UNCHANGED <<events, run, answered, files, clock, stops>>
Stop == /\ up = "open" /\ up' = "stopped"
        /\ UNCHANGED <<events, told, run, answered, files, clock, stops>>
Die == /\ stops < MaxStops /\ stops' = stops + 1 /\ up' = "new"
       /\ run' = [r \in Reports |-> IF run[r].at = "idle" THEN run[r] ELSE [run[r] EXCEPT !.at = "gone"]]
       /\ UNCHANGED <<events, told, answered, files, clock>>
Tick == /\ clock < MaxTicks /\ clock' = clock + 1
        /\ UNCHANGED <<up, events, told, run, answered, files, stops>>

---------------------------------------------------------------------------

\* append: in a transaction, then published; refused when the journal is closed.
Append1(r, kind) ==
  /\ up = "open" /\ Len(events) < MaxEvents
  /\ events' = Append(events, [report |-> r, kind |-> kind])
  /\ Publish(events')

\* The report's identity is new; its operation is admitted and its start recorded,
\* or the run is refused.
RunStarted(r) ==
  /\ run[r].at = "idle" /\ Append1(r, "started")
  /\ run' = [run EXCEPT ![r].at = "checking", ![r].left = Contributors]
  /\ UNCHANGED <<up, answered, files, clock, stops>>

Worse(a, b) == IF "fail" \in {a, b} THEN "fail" ELSE IF "warn" \in {a, b} THEN "warn" ELSE "pass"

\* One contributor answers; one that throws counts as a failed check.
Check(r, status) ==
  /\ run[r].at = "checking" /\ run[r].left > 0
  /\ run' = [run EXCEPT ![r].left = @ - 1, ![r].worst = Worse(@, status)]
  /\ UNCHANGED <<up, events, told, answered, files, clock, stops>>

\* (mutant: a journal that cannot be written does not hold the report back)
CompletesAnyway(r) ==
  /\ run[r].at = "checking" /\ run[r].left = 0
  /\ IF up = "open" /\ Len(events) < MaxEvents THEN Append1(r, run[r].worst) ELSE UNCHANGED <<events, told>>
  /\ run' = [run EXCEPT ![r].at = "reported", ![r].stamp = clock]
  /\ answered' = answered \union {[report |-> r, overall |-> run[r].worst, stamp |-> clock]}
  /\ UNCHANGED <<up, files, clock, stops>>

\* After the last check the end is recorded, and only then is the report given.
Completes(r) ==
  /\ run[r].at = "checking" /\ run[r].left = 0
  /\ Append1(r, run[r].worst)
  /\ run' = [run EXCEPT ![r].at = "reported", ![r].stamp = clock]
  /\ answered' = answered \union {[report |-> r, overall |-> run[r].worst, stamp |-> clock]}
  /\ UNCHANGED <<up, files, clock, stops>>

\* The journal was closed meanwhile: the run is rejected with its checks.
Rejected(r) ==
  /\ run[r].at = "checking" /\ run[r].left = 0 /\ up = "stopped"
  /\ run' = [run EXCEPT ![r].at = "gone"]
  /\ UNCHANGED <<up, events, told, answered, files, clock, stops>>

\* createSupportBundle: the file is named by the time of its report.
Bundled(r) ==
  /\ run[r].at = "reported"
  /\ files' = [files EXCEPT ![run[r].stamp] = {r}]
  /\ run' = [run EXCEPT ![r].at = "bundled"]
  /\ UNCHANGED <<up, events, told, answered, clock, stops>>

Next ==
  \/ Open \/ Stop \/ Die \/ Tick
  \/ \E r \in Reports :
       \/ RunStarted(r) \/ Completes(r) \/ Rejected(r) \/ Bundled(r)
       \/ \E s \in Statuses : Check(r, s)

Spec == Init /\ [][Next]_vars

---------------------------------------------------------------------------

EventsOf(r) == SelectSeq(events, LAMBDA e : e.report = r)

TypeOK ==
  /\ up \in {"new", "open", "stopped"} /\ clock \in 0..MaxTicks
  /\ \A i \in DOMAIN events : events[i].report \in Reports /\ events[i].kind \in Statuses \union {"started"}
  /\ \A r \in Reports : run[r].at \in {"idle", "checking", "reported", "bundled", "gone"} /\ run[r].left \in 0..Contributors

\* Whatever runs beside it and however often the backend stops, a report somebody
\* has been given, or that lies in a support bundle, stands in the journal as one
\* start and one end with its own result; and what the read model was told under a
\* number is what the journal holds under it, although everything is told again at
\* every event and every start.
GivenAsRecorded ==
  /\ \A a \in answered :
       EventsOf(a.report) = << [report |-> a.report, kind |-> "started"], [report |-> a.report, kind |-> a.overall] >>
  /\ \A t \in DOMAIN files : \A r \in files[t] : \E a \in answered : a.report = r /\ a.stamp = t
  /\ \A e \in told : e[1] \in DOMAIN events /\ events[e[1]] = e[2]

=============================================================================
