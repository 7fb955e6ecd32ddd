----------------------------- MODULE OwnerStream -----------------------------
(***************************************************************************)
(* How the owners of facts publish them to the operations read model.      *)
(* An owner keeps its facts in a database of its own and, after every      *)
(* mutation and when its wiring starts, replays them all; the read model   *)
(* accepts each once, in a digest chain per owner and epoch, and projects  *)
(* it into the rows the front end shows.  The operation registry differs   *)
(* from the other owners: it prunes old facts, it renders a fact from rows *)
(* that change later, and it opens a new epoch when a replay is refused.   *)
(***************************************************************************)
EXTENDS Naturals, Sequences, SequencesExt, FiniteSets

CONSTANTS
  Registry,     \* the operation registry, as an owner
  Others,       \* the other owners (workflow, task, diagnostic, merge, ...)
  Batched,      \* those that publish a run only when it ends or pauses (workflow)
  Runs,         \* governed runs
  Ops,          \* operations of the registry, each with at most one process
  RunOf,        \* the run an operation is correlated with
  Retain,       \* prune() keeps this many finished operations (100 in the code)
  None,         \* no cursor, no publication
  MaxRecords,   \* bound on the facts recorded in one behaviour
  MaxCrashes,   \* bound on the crashes
  MaxLosses,    \* bound on the times the projection store is deleted
  MaxFailures,  \* bound on the store errors of the read model
  MaxAgings     \* bound on the times the detail retention (thirty days) passes

ASSUME StreamConstants ==
  /\ Registry \notin Others /\ Batched \subseteq Others /\ RunOf \in [Ops -> Runs] /\ Retain \in Nat \ {0}
  /\ MaxRecords \in Nat /\ MaxCrashes \in Nat /\ MaxLosses \in Nat
  /\ MaxFailures \in Nat /\ MaxAgings \in Nat

Owners == Others \cup {Registry}

\* The facts of the registry are of six classes: a process started, was active,
\* or is clean; an operation was active without a process, ended, was recovered.
\* Those of the other owners are of three: a run starts, completes, or is
\* mentioned (a check or an evidence of it, for example).
RegistryKinds == {"started", "activity", "cleaned", "beat", "ended", "recovered"}
RunKinds == {"run.started", "run.completed", "noted"}
\* "at" counts the periods of thirty days: it is all that is kept of a time.
Times == 0..MaxAgings
Facts == [subject : Ops, kind : RegistryKinds, at : Times]
           \cup [subject : Runs, kind : RunKinds, at : Times]

\* ownerEventKind: the tables of process and operation events; the activity of
\* an operation without a process is in neither and takes the default.
EventKind(kind) ==
  CASE kind = "started"            -> "process.started"
    [] kind = "activity"           -> "process.activity"
    [] kind = "cleaned"            -> "process.cleaned"
    [] kind \in {"beat", "ended"}  -> "operation.failed"
    [] kind = "recovered"          -> "operation.recovered"
    [] OTHER                       -> kind

EventKinds == {"process.started", "process.activity", "process.cleaned",
               "operation.failed", "operation.recovered"} \cup RunKinds

SafeCodes == {"none", "failure", "ok"}
Mapped == [subject : Ops \cup Runs, kind : EventKinds, code : SafeCodes, at : Times]

\* An event stands for its digest: the digest covers the previous one, so two
\* events have the same digest exactly when owner, epoch and chain agree.
Events == [owner : Owners, epoch : Nat, chain : Seq(Mapped) \ {<<>>}]
Publications == [owner : Owners, next : Nat \ {0}, retry : BOOLEAN]
ASSUME NoneIsNoRecord == None \notin Events \cup Publications
Sequence(event) == Len(event.chain)
Previous(event) == Front(event.chain)
Newest(event) == Last(event.chain)
RunOfEvent(event) ==
  LET s == Newest(event).subject IN IF s \in Ops THEN RunOf[s] ELSE s

FaultCodes == {"OWNER_SEQUENCE_CONFLICT", "OWNER_EPOCH_UNKNOWN", "OWNER_CURSOR_REWIND",
               "OWNER_CURSOR_GAP", "OWNER_PREVIOUS_DIGEST_MISMATCH"}

RunRows == [owner : {"absent", "unknown", "active", "completed"},
            shown : {"absent", "unknown", "active", "completed", "cleaning"}]

VARIABLES
  facts,       \* the durable facts of each owner, oldest first
  pruned,      \* the operations whose rows prune() deleted
  epoch,       \* the owner epoch each owner publishes under
  accepted,    \* accepted_events, by rowid
  cursor,      \* owner_cursors: the last accepted event of each owner
  faults,      \* projection_faults: [owner, epoch, code]
  configured,  \* configured_owners
  available,   \* those of them with status 'available'
  lifecycle,   \* projection_meta.lifecycle
  unmarked,    \* history: a fault was stored and no lifecycle written since
  derived,     \* the derived tables: runs, processes, activity aggregates, timeline
  up,          \* whether the backend runs
  linked,      \* the owners whose wiring has set the sink
  heard,       \* the operations whose process output reaches a handler
  publishing,  \* the publishOwnerEvents call on the stack: [owner, next, retry]
  now,         \* the present period of thirty days
  counts       \* how often each bounded event has happened

ownerVars == <<facts, pruned, epoch>>
modelVars == <<accepted, cursor, faults, configured, available, lifecycle, unmarked, derived>>
vars == <<ownerVars, modelVars, up, linked, heard, publishing, now, counts>>

Count(what, max) == counts[what] < max /\ counts' = [counts EXCEPT ![what] = @ + 1]

------------------------------------------------------------------------------
(* The projection: projectEvent and what it calls *)

EmptyTables ==
  [run      |-> [r \in Runs |-> [owner |-> "absent", shown |-> "absent"]],
   process  |-> [x \in Ops |-> "none"],
   activity |-> [r \in Runs |-> 0],
   timeline |-> {}]

\* Mutant: a terminal event is shown as it comes.
ShowsOwnerLifecycle(owner, live) == owner

\* deriveRunLifecycle: a finished run with a live process is still cleaning.
Shown(owner, live) == IF owner = "completed" /\ live THEN "cleaning" ELSE owner

\* projectProcess: an upsert.
ProjectProcess(tables, event) ==
  LET new == Newest(event)
  IN CASE new.kind \in {"process.started", "process.activity"} ->
            [tables.process EXCEPT ![new.subject] = "live"]
       [] new.kind = "process.cleaned" -> [tables.process EXCEPT ![new.subject] = "clean"]
       [] OTHER -> tables.process

OwnerLifecycle(row, kind) ==
  CASE kind = "run.started"   -> "active"
    [] kind = "run.completed" -> "completed"
    [] OTHER                  -> IF row.owner = "absent" THEN "unknown" ELSE row.owner

ProjectEvent(tables, event) ==
  LET r       == RunOfEvent(event)
      kind    == Newest(event).kind
      process == ProjectProcess(tables, event)
      owner   == OwnerLifecycle(tables.run[r], kind)
      live    == \E x \in Ops : RunOf[x] = r /\ process[x] = "live"
  IN [run      |-> [tables.run EXCEPT ![r] = [owner |-> owner, shown |-> Shown(owner, live)]],
      process  |-> process,
      activity |-> IF kind = "process.activity" THEN [tables.activity EXCEPT ![r] = @ + 1]
                   ELSE tables.activity,
      timeline |-> IF kind = "process.activity" THEN tables.timeline
                   ELSE tables.timeline \cup {event}]

\* rebuildDerived: every accepted event again, in the order of acceptance.
Rebuilt(events) ==
  LET after[n \in 0 .. Len(events)] ==
        IF n = 0 THEN EmptyTables ELSE ProjectEvent(after[n - 1], events[n])
  IN after[Len(events)]

\* applyRetention: a finished run whose last detail is older than the retention.
Expired(tables, events) ==
  {r \in Runs : /\ tables.run[r].shown = "completed"
                /\ \A i \in DOMAIN events :
                     RunOfEvent(events[i]) = r => Newest(events[i]).at < now}

WithoutExpired(tables, events) ==
  LET gone == Expired(tables, events)
  IN [tables EXCEPT
        !.run = [r \in Runs |-> IF r \in gone THEN [owner |-> "absent", shown |-> "absent"] ELSE @[r]],
        !.process = [x \in Ops |-> IF RunOf[x] \in gone THEN "none" ELSE @[x]],
        !.timeline = {event \in @ : RunOfEvent(event) \notin gone}]

------------------------------------------------------------------------------
(* The owners' stores *)

KindsOf(fs, s) == {fs[i].kind : i \in {j \in DOMAIN fs : fs[j].subject = s}}
Done(fs, x) == KindsOf(fs, x) \cap {"ended", "recovered"} # {}
Clean(fs, x) == "started" \in KindsOf(fs, x) => "cleaned" \in KindsOf(fs, x)
\* operations.updated_at, as an index: the cleanup of its process does not set it.
UpdatedAt(fs, x) ==
  LET own == {i \in DOMAIN fs : fs[i].subject = x}
      at  == {i \in own : fs[i].kind # "cleaned"}
  IN CHOOSE i \in at : \A j \in at : j =< i
\* The elements of a sequence at the indices keep, in their order.
Kept(s, keep) ==
  [n \in 1 .. Cardinality(keep) |-> s[CHOOSE i \in keep : Cardinality({j \in keep : j =< i}) = n]]

\* mapOwnerEvent: the safe code of a terminal event is read from the row of the
\* operation as it is now, not as it was.
Code(fs, f) ==
  IF f.kind \notin {"ended", "recovered"} THEN "none"
  ELSE IF "recovered" \in KindsOf(fs, f.subject) THEN "ok" ELSE "failure"
StreamOf(o) ==
  [i \in DOMAIN facts[o] |->
     LET f == facts[o][i]
     IN [subject |-> f.subject, kind |-> EventKind(f.kind), code |-> Code(facts[o], f), at |-> f.at]]
EventAt(o, n) == [owner |-> o, epoch |-> epoch[o], chain |-> SubSeq(StreamOf(o), 1, n)]

\* prune(): of the finished and clean operations all but the newest Retain go.
Finished(fs) == {x \in {fs[i].subject : i \in DOMAIN fs} : Done(fs, x) /\ Clean(fs, x)}
Old(fs) == {x \in Finished(fs) :
              Cardinality({y \in Finished(fs) : UpdatedAt(fs, y) > UpdatedAt(fs, x)}) >= Retain}
Pruned(fs) == LET old == Old(fs) IN Kept(fs, {i \in DOMAIN fs : fs[i].subject \notin old})

\* recover(): every process still to be cleaned is, then every operation that
\* has not finished or was not clean is recovered.
Recovered(fs) ==
  LET first   == {i \in DOMAIN fs : \A j \in 1 .. i - 1 : fs[j].subject # fs[i].subject}
      unclean == Kept(fs, {i \in first : ~Clean(fs, fs[i].subject)})
      open    == Kept(fs, {i \in first : ~Done(fs, fs[i].subject) \/ ~Clean(fs, fs[i].subject)})
  IN fs \o [i \in DOMAIN unclean |-> [subject |-> unclean[i].subject, kind |-> "cleaned", at |-> now]]
        \o [i \in DOMAIN open |-> [subject |-> open[i].subject, kind |-> "recovered", at |-> now]]

\* The next facts of an operation. Output of a process that comes after its
\* cleanup is still recorded: activity() looks at no state.
NextOfOp(x) ==
  LET fs   == facts[Registry]
      had  == KindsOf(fs, x)
  IN (IF Done(fs, x) THEN {} ELSE {"beat", "ended"})
       \cup (IF had = {} THEN {"started"} ELSE {})
       \cup (IF x \in heard THEN {"activity"} ELSE {})
       \cup (IF Clean(fs, x) THEN {} ELSE {"cleaned"})

\* The next facts of a run, in the store of one of the other owners.
NextOfRun(o, r) ==
  LET had == KindsOf(facts[o], r)
  IN IF "run.completed" \in had THEN {"noted"}
     ELSE IF "run.started" \in had THEN {"run.completed", "noted"} ELSE {"run.started"}

Recordable(o) ==
  IF o = Registry
  THEN {f \in Facts : f.subject \in Ops \ pruned /\ f.kind \in NextOfOp(f.subject)}
  ELSE {f \in Facts : f.subject \in Runs /\ f.kind \in NextOfRun(o, f.subject)}

------------------------------------------------------------------------------
(* What the read model answers to an event *)

Held(event) == {held \in ToSet(accepted) : /\ held.owner = event.owner
                                           /\ held.epoch = event.epoch
                                           /\ Sequence(held) = Sequence(event)}

\* Mutant: only the numbers are compared, not the digests.
NumbersOnly(event) ==
  LET last == cursor[event.owner]
  IN IF Held(event) # {} THEN "duplicate"
     ELSE IF last = None \/ last.epoch # event.epoch
     THEN IF Sequence(event) = 1 THEN "accepted" ELSE "OWNER_EPOCH_UNKNOWN"
     ELSE IF Sequence(event) = Sequence(last) + 1 THEN "accepted" ELSE "OWNER_CURSOR_GAP"

\* ingest: the verdict on an event; anything but the first two is a fault.
Verdict(event) ==
  LET last == cursor[event.owner]
  IN CASE Held(event) # {} ->
            IF event \in Held(event) THEN "duplicate" ELSE "OWNER_SEQUENCE_CONFLICT"
       [] Held(event) = {} /\ last = None ->
            IF Sequence(event) = 1 THEN "accepted" ELSE "OWNER_CURSOR_GAP"
       [] Held(event) = {} /\ last # None /\ last.epoch # event.epoch ->
            IF Sequence(event) = 1 THEN "accepted" ELSE "OWNER_EPOCH_UNKNOWN"
       [] OTHER ->
            IF Sequence(event) < Sequence(last) + 1 THEN "OWNER_CURSOR_REWIND"
            ELSE IF Sequence(event) > Sequence(last) + 1 THEN "OWNER_CURSOR_GAP"
            ELSE IF Previous(event) # last.chain THEN "OWNER_PREVIOUS_DIGEST_MISMATCH"
            ELSE "accepted"

\* Mutant: the first event of any epoch, or of none, clears the faults.
ClearsAtFirst(event) ==
  {fault \in faults : Sequence(event) # 1}

\* The faults left when an event is accepted: opening another epoch resolves
\* the faults the owner had under earlier ones.
FaultsAfter(event) ==
  IF cursor[event.owner] # None /\ cursor[event.owner].epoch # event.epoch
  THEN {fault \in faults : fault.owner = event.owner => fault.epoch = event.epoch}
  ELSE faults

\* reevaluateLifecycle
Lifecycle(faultSet, configuredSet, availableSet) ==
  IF faultSet = {} /\ configuredSet \subseteq availableSet THEN "current" ELSE "degraded"

------------------------------------------------------------------------------
(* Publication: publishOwnerEvents and replayOwnerEvents *)

\* Nothing of an owner runs while a publication is on the stack.
Idle == up /\ publishing = None
Offered == EventAt(publishing.owner, publishing.next)

Publication(o, n, retry) ==
  IF n > Len(facts'[o]) THEN None ELSE [owner |-> o, next |-> n, retry |-> retry]
\* Mutant: a mutation is published before the wiring has set the sink.
PublishesUnlinked(o, fact) == Publication(o, 1, FALSE)

\* Some mutations are not published on their own: the admission of a run waits
\* for the return of executeRun.
Unpublished(o, fact) == o \in Batched /\ fact.kind = "run.started"

\* A mutation is published when there is a sink to publish to.
Published(o, fact) ==
  IF o \in linked /\ ~Unpublished(o, fact) THEN Publication(o, 1, FALSE) ELSE None

Proceed == publishing' = Publication(publishing.owner, publishing.next + 1, publishing.retry)

\* Mutant: a refused replay is given up at once.
GivesUp == publishing' = None /\ UNCHANGED epoch

\* Mutant: the new epoch goes on where the old one stopped.
ResumesInNewEpoch ==
  IF publishing.owner = Registry /\ ~publishing.retry
  THEN /\ epoch' = [epoch EXCEPT ![Registry] = @ + 1]
       /\ publishing' = Publication(Registry, publishing.next, TRUE)
  ELSE publishing' = None /\ UNCHANGED epoch

\* The replay ends at the first event that is not taken. The registry opens a
\* new epoch and replays once more; the others wait for their next mutation.
BreakOff ==
  IF publishing.owner = Registry /\ ~publishing.retry
  THEN /\ epoch' = [epoch EXCEPT ![Registry] = @ + 1]
       /\ publishing' = Publication(Registry, 1, TRUE)
  ELSE publishing' = None /\ UNCHANGED epoch

Duplicate ==
  /\ publishing # None /\ up /\ Verdict(Offered) = "duplicate"
  /\ UNCHANGED <<ownerVars, modelVars, up, linked, heard, now, counts>>
  /\ Proceed

\* The event and what it projects to are one transaction; the lifecycle is
\* written after it, and when the store fails there, ingest throws although the
\* event is kept. A crash there leaves at most a lifecycle the next start corrects.
Accept ==
  /\ publishing # None /\ up /\ Verdict(Offered) = "accepted"
  /\ accepted' = Append(accepted, Offered)
  /\ cursor' = [cursor EXCEPT ![publishing.owner] = Offered]
  /\ faults' = FaultsAfter(Offered)
  /\ configured' = configured \cup {publishing.owner}
  /\ available' = available \cup {publishing.owner}
  /\ derived' = ProjectEvent(derived, Offered)
  /\ UNCHANGED <<facts, pruned, up, linked, heard, now>>
  /\ \/ /\ lifecycle' = Lifecycle(faults', configured', available') /\ unmarked' = FALSE
        /\ UNCHANGED <<epoch, counts>>
        /\ Proceed
     \/ /\ UNCHANGED <<lifecycle, unmarked>>
        /\ Count("failures", MaxFailures)
        /\ BreakOff

\* persistFault, first statement: the refused event leaves a fault.
StoresFault ==
  /\ publishing # None /\ up /\ Verdict(Offered) \in FaultCodes
  /\ faults' = faults \cup {[owner |-> Offered.owner, epoch |-> Offered.epoch,
                             code |-> Verdict(Offered)]}

\* Mutant: the fault is stored and the lifecycle left as it was.
QuietlyReject ==
  /\ StoresFault
  /\ UNCHANGED <<facts, pruned, accepted, cursor, configured, available, lifecycle, unmarked,
                 derived, up, linked, heard, now, counts>>
  /\ BreakOff

\* reject: the fault is stored and, by a statement of its own, the read model
\* degraded, then ingest throws; it throws as well, and leaves the lifecycle
\* unmarked, when the store fails between the two.
Reject ==
  /\ StoresFault
  /\ \/ lifecycle' = "degraded" /\ unmarked' = FALSE /\ UNCHANGED counts
     \/ UNCHANGED lifecycle /\ unmarked' = TRUE /\ Count("failures", MaxFailures)
  /\ UNCHANGED <<facts, pruned, accepted, cursor, configured, available, derived,
                 up, linked, heard, now>>
  /\ BreakOff

\* The store of the read model fails (busy, full) before anything of the event
\* is kept, be it the event or the fault: ingest throws.
StoreFails ==
  /\ publishing # None /\ up
  /\ Count("failures", MaxFailures)
  /\ UNCHANGED <<facts, pruned, modelVars, up, linked, heard, now>>
  /\ BreakOff

------------------------------------------------------------------------------
(* The owners' mutations and the backend's life *)

\* A mutation of an owner: the fact and what the end of an operation prunes are
\* committed, then everything is published again.
Record(o, fact) ==
  /\ Idle /\ fact \in Recordable(o) /\ fact.at = now
  /\ Count("records", MaxRecords)
  /\ LET grown == Append(facts[o], fact)
         kept  == IF fact.kind = "ended" THEN Pruned(grown) ELSE grown
     IN /\ facts' = [facts EXCEPT ![o] = kept]
        /\ pruned' = IF fact.kind = "ended" THEN pruned \cup Old(grown) ELSE pruned
  /\ heard' = IF fact.kind = "started" THEN heard \cup {fact.subject} ELSE heard
  /\ publishing' = Published(o, fact)
  /\ UNCHANGED <<epoch, modelVars, up, linked, now>>

\* The backend starts: the registry recovers, the read model rebuilds its
\* derived tables from what it accepted and holds every owner unverified.
Boot ==
  /\ ~up /\ up' = TRUE
  /\ facts' = [facts EXCEPT ![Registry] = Pruned(Recovered(@))]
  /\ pruned' = pruned \cup Old(Recovered(facts[Registry]))
  /\ available' = {}
  /\ derived' = WithoutExpired(Rebuilt(accepted), accepted)
  /\ lifecycle' = Lifecycle(faults, configured, {}) /\ unmarked' = FALSE
  /\ UNCHANGED <<epoch, accepted, cursor, faults, configured, linked, heard, publishing, now, counts>>

\* onStart of an owner's wiring: registerOwner, then setOwnerSink, which publishes.
Link(o) ==
  /\ Idle /\ o \notin linked
  /\ linked' = linked \cup {o}
  /\ configured' = configured \cup {o}
  /\ available' = available \cup {o}
  /\ lifecycle' = Lifecycle(faults, configured', available') /\ unmarked' = FALSE
  /\ UNCHANGED <<ownerVars, accepted, cursor, faults, derived, up, heard, now, counts>>
  /\ publishing' = Publication(o, 1, FALSE)

Ended ==
  /\ up' = FALSE /\ linked' = {} /\ heard' = {} /\ publishing' = None
  /\ Count("crashes", MaxCrashes)
  /\ UNCHANGED <<ownerVars, accepted, cursor, configured, available, derived, now>>

\* The backend dies, in the middle of a publication perhaps, and there between
\* the two statements of persistFault perhaps.
Crash ==
  /\ up /\ Ended /\ UNCHANGED lifecycle
  /\ UNCHANGED <<faults, unmarked>> \/ (StoresFault /\ unmarked' = TRUE)

\* onStop
Stop == Idle /\ Ended /\ lifecycle' = "stopped" /\ unmarked' = FALSE /\ UNCHANGED faults

\* The projection store is deleted; the owners' stores are not.
LoseProjection ==
  /\ ~up /\ Count("losses", MaxLosses)
  /\ accepted' = <<>> /\ cursor' = [o \in Owners |-> None] /\ faults' = {}
  /\ configured' = {} /\ available' = {} /\ lifecycle' = "stopped" /\ unmarked' = FALSE
  /\ derived' = EmptyTables
  /\ UNCHANGED <<ownerVars, up, linked, heard, publishing, now>>

Age ==
  /\ publishing = None /\ now < MaxAgings /\ now' = now + 1
  /\ UNCHANGED <<ownerVars, modelVars, up, linked, heard, publishing, counts>>

Init ==
  /\ facts = [o \in Owners |-> <<>>] /\ pruned = {} /\ epoch = [o \in Owners |-> 1]
  /\ accepted = <<>> /\ cursor = [o \in Owners |-> None] /\ faults = {}
  /\ configured = {} /\ available = {} /\ lifecycle = "stopped" /\ unmarked = FALSE /\ derived = EmptyTables
  /\ up = FALSE /\ linked = {} /\ heard = {} /\ publishing = None /\ now = 0
  /\ counts = [w \in {"records", "crashes", "losses", "failures"} |-> 0]

Next ==
  \/ \E o \in Owners, f \in Facts : Record(o, f)
  \/ \E o \in Owners : Link(o)
  \/ Duplicate \/ Accept \/ Reject \/ StoreFails
  \/ Boot \/ Crash \/ Stop \/ LoseProjection \/ Age

\* A synchronous publication runs on, and every wiring is started with the backend.
Fairness ==
  /\ WF_vars(Duplicate) /\ WF_vars(Accept) /\ WF_vars(Reject)
  /\ \A o \in Owners : WF_vars(Link(o))
Spec == Init /\ [][Next]_vars
FairSpec == Spec /\ Fairness

------------------------------------------------------------------------------
(* Properties *)

\* The state has the shape the tables and the code give it.
TypeOK ==
  /\ facts \in [Owners -> Seq(Facts)] /\ pruned \subseteq Ops /\ epoch \in [Owners -> Nat \ {0}]
  /\ \A i \in DOMAIN accepted : accepted[i] \in Events
  /\ cursor \in [Owners -> ToSet(accepted) \cup {None}]
  /\ faults \subseteq [owner : Owners, epoch : Nat \ {0}, code : FaultCodes]
  /\ available \subseteq configured /\ configured \subseteq Owners
  /\ lifecycle \in {"stopped", "current", "degraded"} /\ unmarked \in BOOLEAN
  /\ derived.run \in [Runs -> RunRows] /\ derived.activity \in [Runs -> Nat]
  /\ derived.process \in [Ops -> {"none", "live", "clean"}]
  /\ derived.timeline \subseteq ToSet(accepted)
  /\ up \in BOOLEAN /\ linked \subseteq Owners /\ heard \subseteq Ops /\ now \in Times
  /\ publishing = None
       \/ publishing \in [owner : linked, next : Nat \ {0}, retry : BOOLEAN]
  /\ counts.records =< MaxRecords /\ counts.crashes =< MaxCrashes
  /\ counts.losses =< MaxLosses /\ counts.failures =< MaxFailures

\* What the read model accepted of one owner and epoch is a chain from its first
\* event without a gap, and once another epoch is open nothing of an earlier one
\* is accepted.
GaplessStreams ==
  \A i \in DOMAIN accepted :
    LET event   == accepted[i]
        earlier == {j \in 1 .. i - 1 : accepted[j].owner = event.owner}
    IN \/ Sequence(event) = 1 /\ \A j \in earlier : accepted[j].epoch # event.epoch
       \/ \E j \in earlier : /\ \A k \in earlier : k =< j
                             /\ accepted[j].epoch = event.epoch /\ accepted[j].chain = Previous(event)

AtRest(o) == Idle /\ o \in linked
\* The read model holds the first n facts, and what follows is not yet published.
InSync(o) ==
  \E n \in 0..Len(facts[o]) :
    /\ cursor[o] = IF n = 0 THEN None ELSE EventAt(o, n)
    /\ \A i \in n + 1 .. Len(facts[o]) : Unpublished(o, facts[o][i])

\* As long as its store has not failed, the read model holds after every
\* publication exactly the facts their owner holds, in its order and under its
\* epoch (but for the admissions it keeps to itself): whatever prune() removed, recover() rewrote, a crash cut short or the
\* loss of the projection undid.
StreamsAgree == counts.failures = 0 => \A o \in Owners : AtRest(o) => InSync(o)

\* An owner meets no gap, rewind or broken chain and no epoch it may not open:
\* only the operation registry is ever refused, because the past it retells has
\* changed, and the faults of it are gone when the publication has ended.
OwnersOnlyDiverge ==
  /\ \A fault \in faults : fault.owner = Registry /\ fault.code = "OWNER_SEQUENCE_CONFLICT"
  /\ counts.failures = 0 /\ AtRest(Registry) /\ facts[Registry] # <<>> => faults = {}

\* A run shown as completed has no process whose last fact, in the store of the
\* operation registry, is that it runs.
CompletedHasNoProcess ==
  Idle /\ Registry \in linked /\ counts.failures = 0 =>
    \A r \in Runs : derived.run[r].shown = "completed" =>
      \A i \in DOMAIN facts[Registry] :
        LET f == facts[Registry][i]
        IN RunOf[f.subject] = r /\ f.kind \in {"started", "activity"} =>
             \E j \in i + 1 .. Len(facts[Registry]) :
               facts[Registry][j].subject = f.subject
                 /\ facts[Registry][j].kind \in {"activity", "cleaned"}

\* The read model never calls itself current while a fault is stored or an owner
\* it knows has not been verified since the start, but when the fault was stored
\* and the write of the lifecycle that follows it was lost; then the next event
\* accepted, owner registered or start corrects it, and in a running backend it
\* takes an error of the store, not a crash.
CurrentHasNoFaults ==
  /\ lifecycle = "current" /\ ~unmarked => faults = {} /\ (up => configured = available)
  /\ unmarked /\ up => counts.failures > 0

\* A stored fault disappears only when its own owner opens another epoch (or the
\* store is lost), and never a fault of another owner with it.
FaultsClearOnlyByReopening ==
  [][\A fault \in faults \ faults' :
       \/ counts'.losses > counts.losses
       \/ /\ cursor'[fault.owner] # cursor[fault.owner]
          /\ Sequence(cursor'[fault.owner]) = 1
          /\ cursor'[fault.owner].epoch > fault.epoch]_vars

\* If the backend stays up and the projection store works, the read model comes
\* to hold every fact its owners publish and to call itself current.
Converges ==
  <>[](up /\ counts.failures = 0)
    => <>[](lifecycle = "current" /\ \A o \in Owners : InSync(o))

\* Stated by the documents, and not so.

\* operations-prototype-findings.md:47-48: after the cleanup fact there is no
\* live process.
CleanedIsNotLive ==
  Idle /\ Registry \in linked => \A x \in Ops :
    "cleaned" \in KindsOf(facts[Registry], x) => derived.process[x] # "live"

\* operations.md:28-30 and 21-24: one sees which runs are active, and delayed
\* input shows as degraded.
ActiveRunIsShown ==
  Idle /\ linked = Owners /\ lifecycle = "current" =>
    \A o \in Others, r \in Runs :
      "run.started" \in KindsOf(facts[o], r) => derived.run[r].shown \notin {"absent", "unknown"}
=============================================================================
