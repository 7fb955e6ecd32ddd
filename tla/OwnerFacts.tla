------------------------------- MODULE OwnerFacts -------------------------------
(***************************************************************************)
(* The seven registries whose journals the operations view reads: tasks,   *)
(* projects, attempts, workflow runs, executions, verdicts and merges.     *)
(* Each keeps a chained journal of facts, brings the journals of earlier   *)
(* versions up to date when it starts, and offers the whole journal again, *)
(* mapped to owner events, after every change.  The read model takes an    *)
(* event only when it is of a kind, and carries a payload, of a closed     *)
(* set, and is the next of its owner or one it has.                        *)
(***************************************************************************)
EXTENDS Naturals, Sequences

CONSTANTS
  Owners,        \* the registries looked at, one in each behaviour
  MaxFacts,      \* bound: owner -> facts of its journal
  MaxCrashes     \* bound: deaths of the backend

VARIABLES
  owner,         \* the registry of this behaviour
  older,         \* verdicts and merges recorded before there were owner events
  journal,       \* its journal: [fact, state, prev, digest]
  current,       \* execution: the state of the allocation
  up,            \* the registry is open
  sink,          \* the read model takes its events
  held,          \* the events the read model has of it
  behind,        \* the last publication is missing, or was cut short
  crashes,
  outcome        \* history: "ok", "refused" an event, or "broken" at a start

vars == <<owner, older, journal, current, up, sink, held, behind, crashes, outcome>>

\* A digest covers the row and the digest before it.
None == <<>>
DigestOf(fact, state, prev) == Append(prev, <<fact, state>>)
Chained(rows, fact, state) ==
  LET prev == IF rows = <<>> THEN None ELSE rows[Len(rows)].digest
  IN [fact |-> fact, state |-> state, prev |-> prev, digest |-> DigestOf(fact, state, prev)]

---------------------------------------------------------------------------

\* What is journaled, as <<name, code>>; the code is "-" where the mapping ignores it.
Plain(names) == names \X {"-"}
Endings == {"attempt.cleaned", "attempt.recovered.terminal", "attempt.unverified.residual", "attempt.cleanup.failed"}
MergeStates == {"preflight-pending", "preflighting", "constructing", "cas-ready", "cas-started", "post-verifying",
                "committed", "cleaning", "completed", "refused", "failed", "recovery-required", "quarantined"}
Mutations == {"project.create", "project.update", "project.remove", "repository.add", "repository.relocate",
              "repository.remove", "execution-profile.update", "task-repository.bind", "task-repository.clear",
              "role-assignment.update", "project.switch"}
ExecutionStates == {"admitted", "allocated", "seeding", "verified", "ready", "leased", "executing", "stopping",
                    "sealed", "candidate-imported", "retained", "cleaning", "cleaned", "failed", "timed-out",
                    "cancelled", "cleanup-failed", "quarantined", "recovery-required", "reconciling"}
Advanced == ExecutionStates \ {"admitted", "allocated", "cleaning", "cleaned", "cleanup-failed"}

\* The states an execution may be in when the event is written.
StateAfter(name) == CASE
     name \in {"allocation.requested", "allocation.intent.recorded"} -> {"admitted"}
  [] name = "allocation.proof.recorded" -> {"allocated"}
  [] name = "state.advanced" -> Advanced
  [] name \in {"seal.completed", "import.requested"} -> {"sealed"}
  [] name = "import.completed" -> {"candidate-imported"}
  [] name = "retention.committed" -> {"retained"}
  [] name = "cleanup.requested" -> {"cleaning"}
  [] name = "cleanup.completed" -> {"cleaned"}
  [] name = "cleanup.failed" -> {"cleanup-failed"}
  [] name = "recovery.started" -> {"recovery-required"}
  [] name = "recovery.resource.classified" -> {"reconciling"}
  [] OTHER -> {"quarantined"}
ExecutionEvents ==
  {"allocation.requested", "allocation.intent.recorded", "allocation.proof.recorded", "state.advanced",
   "seal.completed", "import.requested", "import.completed", "retention.committed", "cleanup.requested",
   "cleanup.completed", "cleanup.failed", "recovery.started", "recovery.resource.classified",
   "allocation.quarantined", "import.quarantined", "cleanup.quarantined", "resource.quarantined"}

FactsMade(o) == CASE
     o = "task" -> Plain({"task.created", "task.archived", "specification.edited", "specification.frozen",
                          "specification.successor-created", "approval.recorded", "approval.revoked",
                          "admission.authorized"})
  [] o = "project" -> Plain(Mutations \union {"project.available", "project.unavailable",
                                              "project.switch-completed", "project.switch-cancelled"})
  [] o = "adapter" -> Plain({"attempt.requested", "attempt.admitted", "child.attached"})
                        \union (Endings \X {"AGENT_OK", "CANCELLED", "CANCEL_GRACE_EXPIRED", "RUN_TIMEOUT"})
  [] o = "workflow" -> Plain({"run.admitted", "run.completed", "run.failed", "run.recovery.quarantined"})
  [] o = "execution" -> Plain(ExecutionEvents)
  [] o = "verdict" -> {"completed"} \X {"VERDICT_OK", "VERDICT_FAIL", "VERDICT_BLOCKED", "VERDICT_STALE", "VERDICT_UNKNOWN"}
                        \union {<<"refused", "VERDICT_UNKNOWN">>}
  [] o = "merge" -> Plain(MergeStates)

\* What comes first; projects may be older than their journal.
Begins(o) == CASE o = "task" -> {"task.created"} [] o = "adapter" -> {"attempt.requested"} [] o = "workflow" -> {"run.admitted"}
  [] o = "execution" -> {"allocation.requested"} [] o = "merge" -> {"preflight-pending"} [] OTHER -> {f[1] : f \in FactsMade(o)}
Follows(rows, fact) ==
  IF rows = <<>> THEN fact[1] \in Begins(owner) ELSE owner = "execution" => fact[1] \notin Begins(owner)

---------------------------------------------------------------------------

\* Owner events: [kind, payload], the kind as <<family, name>>, the payload a set of
\* <<key, value>>. Safe codes are all of the same form.
Code == <<"safeCode", "CODE">>
Current == <<"freshness", "current">>
Event(family, name, payload) == <<[kind |-> <<family, name>>, payload |-> payload]>>

\* mapOwnerEvent of the tasks.
TaskEvent(name) == CASE
     name = "task.created" -> Event("task", "created", {<<"lifecycle", "active">>})
  [] name = "task.archived" -> Event("task", "archived", {<<"lifecycle", "archived">>})
  [] name = "specification.frozen" -> Event("specification", "frozen", {<<"lifecycle", "frozen">>})
  [] name = "specification.edited" -> Event("specification", "edited", {<<"lifecycle", "draft">>})
  [] name = "specification.successor-created" -> Event("specification", "successor-created", {<<"lifecycle", "draft">>})
  [] name = "approval.recorded" -> Event("approval", "recorded", {<<"resultClass", "passed">>})
  [] name = "approval.revoked" -> Event("approval", "revoked", {<<"resultClass", "cancelled">>})
  [] OTHER -> Event("admission", "authorized", {<<"decisionClass", "accepted">>})

\* projectEventKind and mapProjectOwnerEvent.
ProjectKind(name) == CASE
     name = "project.create" -> "created" [] name = "project.update" -> "renamed" [] name = "project.remove" -> "removed"
  [] name = "execution-profile.update" -> "profile-changed" [] name = "role-assignment.update" -> "role-changed"
  [] name \in {"task-repository.bind", "task-repository.clear"} -> "binding-changed"
  [] name = "project.switch" -> "switch-requested" [] name = "project.switch-completed" -> "switch-completed"
  [] name = "project.switch-cancelled" -> "switch-cancelled" [] name = "project.available" -> "available"
  [] OTHER -> "unavailable"
\* (mutant: the lifecycle is the name of the event)
ProjectPayloadNamed(kind) == {<<"lifecycle", kind>>}

ProjectPayload(kind) == CASE
     kind \in {"created", "available"} -> {<<"lifecycle", "available">>}
  [] kind \in {"removed", "unavailable"} -> {<<"lifecycle", "unavailable">>}
  [] kind = "switch-requested" -> {<<"lifecycle", "requested">>}
  [] kind = "switch-completed" -> {<<"lifecycle", "completed">>}
  [] kind = "switch-cancelled" -> {<<"lifecycle", "cancelled">>}
  [] OTHER -> {<<"resultClass", "passed">>}
ProjectEvent(name) ==
  IF name \in {"repository.add", "repository.relocate", "repository.remove"}
  THEN Event("repository", "changed", {<<"resultClass", "passed">>})
  ELSE Event("project", ProjectKind(name), ProjectPayload(ProjectKind(name)))

\* adapterEventKind: what is neither a beginning nor an end of an attempt is not told.
AdapterKind(name, code) == CASE
     name = "attempt.requested" -> "requested" [] name = "attempt.admitted" -> "started"
  [] name \in Endings /\ code = "AGENT_OK" -> "completed"
  [] name \in Endings /\ code \in {"CANCELLED", "CANCEL_GRACE_EXPIRED"} -> "cancelled"
  [] name \in Endings /\ code \notin {"AGENT_OK", "CANCELLED", "CANCEL_GRACE_EXPIRED"} -> "failed"
  [] OTHER -> "none"
AdapterEvent(name, code) ==
  LET kind == AdapterKind(name, code)
      ended == IF kind \in {"completed", "cancelled", "failed"} THEN {<<"terminalClass", kind>>} ELSE {}
  IN IF kind = "none" THEN <<>> ELSE Event("attempt", kind, {<<"lifecycle", kind>>, Code, Current} \union ended)

WorkflowEvent(name) == CASE
     name = "run.admitted" -> Event("run", "started", {<<"lifecycle", "active">>, Code, Current})
  [] name = "run.completed" -> Event("run", "completed", {<<"lifecycle", "completed">>, <<"terminalClass", "completed">>, Code, Current})
  [] OTHER -> Event("run", "failed", {<<"lifecycle", "failed">>, <<"terminalClass", "failed">>, Code, Current})

\* ownerEventKind, by the state of the execution after the event.
ExecutionKind(state) == CASE
     state = "quarantined" -> "quarantined"
  [] state \in {"failed", "timed-out", "cancelled", "cleanup-failed"} -> "failed"
  [] state \in {"candidate-imported", "retained", "cleaned"} -> "completed"
  [] state \in {"admitted", "requested", "refused"} -> "admitted"
  [] OTHER -> "started"
ExecutionEvent(state) ==
  LET kind == ExecutionKind(state)
      ended == IF kind \in {"completed", "failed", "quarantined"} THEN {<<"terminalClass", kind>>} ELSE {}
  IN Event("execution", kind, {<<"lifecycle", kind>>, Code, Current} \union ended)

VerdictEvent(result, code) ==
  LET decision == IF result = "completed" /\ code = "VERDICT_OK" THEN "accepted"
                  ELSE IF result = "completed" /\ code = "VERDICT_FAIL" THEN "rejected" ELSE "unknown"
  IN Event("verdict", decision, {<<"decisionClass", decision>>, Code, Current})

\* mergeOwnerOutcome and mapMergeOwnerEvent.
MergeEvent(state) ==
  LET kind == CASE state \in {"committed", "completed"} -> "committed" [] state \in {"refused", "failed"} -> "refused"
                [] state \in {"recovery-required", "quarantined"} -> "quarantined" [] OTHER -> "requested"
  IN IF kind = "requested" THEN Event("merge", kind, {<<"decisionClass", "pending">>, Code, Current})
     ELSE Event("merge", kind, {<<"decisionClass", kind>>, <<"terminalClass", kind>>, Code, Current})

\* No event, or one.
Told(row) == CASE
     owner = "task" -> TaskEvent(row.fact[1]) [] owner = "project" -> ProjectEvent(row.fact[1])
  [] owner = "adapter" -> AdapterEvent(row.fact[1], row.fact[2]) [] owner = "workflow" -> WorkflowEvent(row.fact[1])
  [] owner = "execution" -> ExecutionEvent(row.state) [] owner = "verdict" -> VerdictEvent(row.fact[1], row.fact[2])
  [] OTHER -> MergeEvent(row.fact[1])

\* (mutant: the number is the row's)
ImageByRow(rows) ==
  LET of[n \in 0..Len(rows)] ==
        IF n = 0 THEN <<>>
        ELSE of[n - 1] \o [i \in 1..Len(Told(rows[n])) |-> [n |-> n, row |-> rows[n].digest, event |-> Told(rows[n])[i]]]
  IN of[Len(rows)]

\* What the owner offers: its events in order, each with its number and the row it tells.
Image(rows) ==
  LET of[n \in 0..Len(rows)] ==
        IF n = 0 THEN <<>>
        ELSE of[n - 1] \o [i \in 1..Len(Told(rows[n])) |->
               [n |-> Len(of[n - 1]) + 1, row |-> rows[n].digest, event |-> Told(rows[n])[i]]]
  IN of[Len(rows)]

---------------------------------------------------------------------------

\* OWNER_EVENT_KINDS of these owners, payloadKeys and CLOSED_STRING_VALUES.
OwnerEventKinds == [
  task |-> {<<"task", k>> : k \in {"created", "updated", "archived", "retention-held", "retention-released"}}
    \union {<<"specification", k>> : k \in {"edited", "frozen", "successor-created"}}
    \union {<<"approval", "recorded">>, <<"approval", "revoked">>, <<"admission", "authorized">>},
  workflow |-> {<<"run", k>> : k \in {"queued", "started", "waiting", "retrying", "blocked", "cancelling", "cleaning",
    "failed", "cancelled", "recovered", "completed"}} \union {<<"node", "started">>, <<"node", "terminal">>},
  adapter |-> {<<"attempt", k>> : k \in {"requested", "started", "failed", "cancelled", "completed"}} \union {<<"usage", "observed">>},
  execution |-> {<<"execution", k>> : k \in {"admitted", "refused", "started", "failed", "completed", "quarantined"}}
    \union {<<"quarantine", "retention-released">>},
  project |-> {<<"project", k>> : k \in {"created", "renamed", "removed", "available", "unavailable", "profile-changed",
    "role-changed", "binding-changed", "switch-requested", "switch-completed", "switch-cancelled"}} \union {<<"repository", "changed">>},
  verdict |-> {<<"verdict", k>> : k \in {"requested", "accepted", "rejected", "unknown", "retention-released"}},
  merge |-> {<<"merge", k>> : k \in {"requested", "refused", "committed", "recovered", "quarantined", "retention-released"}}]

Always == {"lifecycle", "terminalClass", "safeCode", "durationMs", "freshness"}
PayloadKeys(family) == CASE
     family = "usage" -> {"knownState", "value", "unit"}
  [] family = "attempt" -> Always \union {"retryOrdinal"}
  [] family = "run" -> Always \union {"count"}
  [] family \in {"verdict", "merge"} -> Always \union {"decisionClass", "count"}
  [] OTHER -> Always \union {"resultClass", "decisionClass", "count"}

ClosedValues == [
  lifecycle |-> {"draft", "frozen", "active", "archived", "queued", "waiting", "retrying", "blocked", "failed", "stalled",
    "cancelling", "cleaning", "cancelled", "timed-out", "recovered", "completed", "unknown", "requested", "started",
    "refused", "admitted", "quarantined", "available", "unavailable"},
  terminalClass |-> {"none", "completed", "failed", "cancelled", "refused", "recovered", "committed", "quarantined", "unknown"},
  resultClass |-> {"unknown", "pending", "passed", "failed", "refused", "cancelled", "not-applicable"},
  decisionClass |-> {"unknown", "pending", "accepted", "rejected", "refused", "committed", "quarantined"},
  freshness |-> {"current", "stale", "unknown"}, safeCode |-> {"CODE"}]

\* validateEvent and validatePayload.
Valid(event) ==
  /\ event.kind \in OwnerEventKinds[owner]
  /\ \A p \in event.payload : p[1] \in PayloadKeys(event.kind[1]) /\ p[2] \in ClosedValues[p[1]]

\* ingest, of the n-th event offered: one it has, or the next.
Takes(offered, n) ==
  /\ Valid(offered[n].event)
  /\ IF offered[n].n <= Len(held) THEN offered[n] = held[offered[n].n] ELSE offered[n].n = n

\* The rows whose digests hold, one after the other.
Holds(rows, n) ==
  /\ rows[n].prev = (IF n = 1 THEN None ELSE rows[n - 1].digest)
  /\ rows[n].digest = DigestOf(rows[n].fact, rows[n].state, rows[n].prev)
Intact(rows) == \A n \in 1..Len(rows) : Holds(rows, n)
Checked(rows) ==
  IF Intact(rows) \/ owner \notin {"workflow", "execution", "verdict", "merge"} THEN rows
  ELSE SubSeq(rows, 1, (CHOOSE n \in 1..Len(rows) : ~Holds(rows, n) /\ \A k \in 1..n - 1 : Holds(rows, k)) - 1)

\* publishOwnerEvents: all of it, up to what the read model cannot store, or refuses.
Published(rows) ==
  LET offered == Image(Checked(rows)) IN \E cut \in Len(held)..Len(offered) :
    /\ behind' = (cut < Len(offered))
    /\ IF \A n \in 1..cut : Takes(offered, n)
       THEN held' = SubSeq(offered, 1, cut) /\ outcome' = outcome
       ELSE held' = held /\ outcome' = "refused"
Unpublished == behind' = TRUE /\ UNCHANGED <<held, outcome>>

---------------------------------------------------------------------------

\* A store of an earlier version: rows without digest (execution), or no owner
\* events of the verdicts and merges there are.
Bare(fact) == [fact |-> fact, state |-> "none", prev |-> None, digest |-> None]
Legacy == {<<>>} \union {<<Bare(<<"allocation.requested", "-">>), Bare(<<name, "-">>)>> : name \in ExecutionEvents \ {"allocation.requested"}}
Older == {<<>>} \union {<<f, g>> : f \in {h \in FactsMade(owner) : h[1] \in Begins(owner)}, g \in FactsMade(owner)}

Init ==
  /\ owner \in Owners /\ up = FALSE /\ sink = FALSE /\ held = <<>> /\ behind = TRUE /\ crashes = 0 /\ outcome = "ok"
  /\ older \in IF owner \in {"verdict", "merge"} THEN Older ELSE {<<>>}
  /\ journal \in IF owner = "execution" THEN Legacy ELSE {<<>>}
  /\ current \in IF journal = <<>> THEN {"none"} ELSE StateAfter(journal[2].fact[1])

\* legacyExecutionState
LegacyState(name) ==
  IF name \in {"allocation.requested", "allocation.intent.recorded", "allocation.proof.recorded", "seal.completed",
               "import.requested", "import.completed", "import.quarantined", "retention.committed", "recovery.started",
               "recovery.resource.classified", "resource.quarantined"}
  THEN CHOOSE s \in StateAfter(name) : TRUE ELSE current

\* (mutant: a start that goes on after a death begins a chain of its own)
DigestedAnew(rows, k) ==
  LET to[n \in 0..k] == IF n = 0 THEN <<>>
        ELSE IF rows[n].digest # None THEN Append(to[n - 1], rows[n])
        ELSE LET new == SelectSeq(to[n - 1], LAMBDA row : \A m \in 1..n - 1 : rows[m].digest # row.digest)
             IN Append(to[n - 1], Chained(new, rows[n].fact, LegacyState(rows[n].fact[1])))
  IN to[k] \o SubSeq(rows, k + 1, Len(rows))

\* ensureOwnerSchema: row by row, each committed by itself, as far as row k.
Digested(rows, k) ==
  LET to[n \in 0..k] == IF n = 0 THEN <<>>
        ELSE IF rows[n].digest # None THEN Append(to[n - 1], rows[n])
        ELSE Append(to[n - 1], Chained(to[n - 1], rows[n].fact, LegacyState(rows[n].fact[1])))
  IN to[k] \o SubSeq(rows, k + 1, Len(rows))

\* migrate, of verdicts and merges: one event for each, each committed by itself,
\* when there is none.
Backfilled(k) ==
  LET to[n \in 0..k] == IF n = 0 THEN <<>> ELSE Append(to[n - 1], Chained(to[n - 1], older[n], "-")) IN to[k]

Migrated(k) ==
  IF owner = "execution" THEN Digested(journal, k)
  ELSE IF owner \in {"verdict", "merge"} /\ journal = <<>> THEN Backfilled(k) ELSE journal
Steps == IF owner \in {"verdict", "merge"} THEN Len(older) ELSE Len(journal)

\* onStart: the migration, the check of the chain, and the publication.
Start ==
  /\ ~up /\ journal' = Migrated(Steps)
  /\ IF Intact(journal') THEN up' = TRUE /\ (IF sink THEN Published(journal') ELSE Unpublished)
     ELSE up' = FALSE /\ outcome' = "broken" /\ UNCHANGED <<held, behind>>
  /\ UNCHANGED <<owner, older, current, sink, crashes>>

\* The backend dies in the migration.
StartCut ==
  /\ ~up /\ crashes < MaxCrashes /\ crashes' = crashes + 1 /\ sink' = FALSE
  /\ \E k \in 0..Steps : journal' = Migrated(k)
  /\ UNCHANGED <<owner, older, current, up, held, behind, outcome>>

\* setOwnerSink
AttachSink ==
  /\ ~sink /\ sink' = TRUE /\ (IF up THEN Published(journal) ELSE UNCHANGED <<held, behind, outcome>>)
  /\ UNCHANGED <<owner, older, journal, current, up, crashes>>

\* A transaction with a fact, and the publication after it; a run is published
\* when its execution is over.
Record(fact) ==
  /\ up /\ Len(journal) < MaxFacts[owner] /\ Follows(journal, fact)
  /\ current' \in IF owner = "execution" THEN StateAfter(fact[1]) ELSE {"none"}
  /\ journal' = Append(journal, Chained(journal, fact, IF owner = "execution" THEN current' ELSE "-"))
  /\ \/ sink /\ Published(journal')
     \/ (~sink \/ owner = "workflow") /\ Unpublished
  /\ UNCHANGED <<owner, older, up, sink, crashes>>

\* The next publication, of whatever comes.
Publish ==
  /\ up /\ sink /\ behind /\ Published(journal)
  /\ UNCHANGED <<owner, older, journal, current, up, sink, crashes>>

\* onStop, or the backend dies.
Stop ==
  /\ up /\ up' = FALSE /\ sink' = FALSE
  /\ UNCHANGED <<owner, older, journal, current, held, behind, crashes, outcome>>

Next ==
  \/ Start \/ StartCut \/ AttachSink \/ Publish \/ Stop
  \/ \E fact \in FactsMade(owner) : Record(fact)

Spec == Init /\ [][Next]_vars

---------------------------------------------------------------------------

TypeOK ==
  /\ owner \in Owners /\ crashes \in 0..MaxCrashes /\ Len(held) <= Len(journal)
  /\ up \in BOOLEAN /\ sink \in BOOLEAN /\ behind \in BOOLEAN
  /\ current \in ExecutionStates \union {"none"}
  /\ \A n \in 1..Len(journal) : journal[n].fact \in FactsMade(owner)

\* Whatever a registry journals, the read model takes: no event is of a kind, or
\* carries a payload, that it refuses, and none is offered again as another one,
\* after restarts and migrations, and though attempts tell only some of their rows.
FactsAreTaken == outcome # "refused"

\* The read model has the beginning of what the owner's journal tells, and all of
\* it unless a publication is missing or was cut short.
HeldIsImage ==
  /\ held = SubSeq(Image(journal), 1, Len(held))
  /\ up /\ sink /\ ~behind => held = Image(journal)

\* A registry whose migration was cut short, anywhere, starts again: the chain it
\* then checks is one. The last row of a migrated journal has the state that the
\* execution is in.
StartsAgain ==
  /\ outcome # "broken"
  /\ up /\ owner = "execution" /\ journal # <<>> => journal[Len(journal)].state = current

\* The verdicts and merges of an earlier version are told before the others. A death
\* between two of them leaves the later ones out for ever: no run keeps this.
BackfillIsWhole == up => /\ Len(journal) >= Len(older)
                         /\ \A n \in 1..Len(older) : journal[n].fact = older[n]
=============================================================================
