----------------------------- MODULE ActionRouter -----------------------------
(***************************************************************************)
(* The requests of the operations view to the owners of what it shows      *)
(* (operations-action-router.ts), and the durable row of each request in   *)
(* the store of the read model (recordAction, actionReceipt).  A request   *)
(* is checked against the projection and written before its owner is asked *)
(* and again when the owner has answered; in between, other requests run,  *)
(* the store may be closed and opened again, or the backend may die.       *)
(***************************************************************************)
EXTENDS Naturals, Sequences

CONSTANTS
  Callers,      \* requests under way at one time
  Requests,     \* [id, action, run, op, seq]: what the view may ask, and ask again
  MaxSeq,       \* bound: changes of the projection
  MaxStops      \* bound: stops and deaths of the backend

VARIABLES
  up,           \* the store of the projection is open
  lifecycle, seq, known,   \* projection: lifecycle, change_sequence, the runs it has
  rows,         \* action_requests: id -> NoRow or [digest, status, code]
  calls,        \* caller -> the request whose owner is asked, or NoRequest
  stops,
  asked,        \* history: id -> the digests for which an owner was called, in order
  accepted      \* history: the ids an owner accepted

projection == <<up, lifecycle, seq, known>>
vars == <<projection, rows, calls, stops, asked, accepted>>

RequestIds == {r.id : r \in Requests}
NoRow == [digest |-> <<>>, status |-> "none", code |-> "none"]
NoRequest == [id |-> "none"]

\* The digest covers everything but the id.
Digest(r) == <<r.action, r.run, r.op, r.seq>>

Init ==
  /\ up = FALSE /\ lifecycle = "stopped" /\ seq = 0 /\ known = {} /\ stops = 0
  /\ rows = [i \in RequestIds |-> NoRow] /\ calls = [c \in Callers |-> NoRequest]
  /\ asked = [i \in RequestIds |-> <<>>] /\ accepted = {}

---------------------------------------------------------------------------

\* (mutant: the rows are not looked at)
RecoveredNot(old) == old

\* start, of a closed store: whose owner was being asked is written off, and the
\* projection is derived again from number 0.
Recovered(old) ==
  [i \in RequestIds |-> IF old[i].code = "ACTION_FORWARDING" THEN [old[i] EXCEPT !.code = "ACTION_OUTCOME_UNKNOWN"]
                 ELSE old[i]]

\* Every method of the store opens it first.
Started(old) == IF up THEN old ELSE Recovered(old)
Opened ==
  IF up THEN UNCHANGED projection
  ELSE up' = TRUE /\ lifecycle' \in {"current", "degraded"} /\ seq' \in {0, 1} /\ known' \in SUBSET known

Start ==
  /\ ~up /\ Opened /\ rows' = Started(rows) /\ UNCHANGED <<calls, stops, asked, accepted>>

\* Accepted owner events, faults and owners that come back.
Ingest ==
  /\ up /\ seq < MaxSeq /\ seq' = seq + 1 /\ known' \in {known, known \union {"r"}}
  /\ lifecycle' \in {"current", "degraded"}
  /\ UNCHANGED <<up, rows, calls, stops, asked, accepted>>

\* onStop closes the store; an owner that was asked goes on.
Stop ==
  /\ up /\ stops < MaxStops /\ up' = FALSE /\ lifecycle' = "stopped" /\ stops' = stops + 1
  /\ UNCHANGED <<seq, known, rows, calls, asked, accepted>>

\* The backend dies; so do the calls.
Crash ==
  /\ stops < MaxStops /\ up' = FALSE /\ stops' = stops + 1 /\ calls' = [c \in Callers |-> NoRequest]
  /\ UNCHANGED <<lifecycle, seq, known, rows, asked, accepted>>

---------------------------------------------------------------------------

\* What a first request is refused for.
Stale(r) == lifecycle' # "current" \/ seq' # r.seq
Mismatch(r) ==
  \/ r.run \notin known'
  \/ r.action = "cancel" /\ r.op # "own"       \* operationBelongsToRun
  \/ r.action = "diagnose" /\ r.op # "none"
Routed(r) == r.action \in {"cancel", "diagnose"}
RefusalOf(r) ==
  IF Stale(r) THEN "ACTION_PROJECTION_STALE"
  ELSE IF r.run \in known' /\ ~Routed(r) THEN "ACTION_OWNER_UNAVAILABLE"
  ELSE "ACTION_OWNER_MISMATCH"

\* recordAction: the row of the request, or a fault when the id is another's.
RecordAction(r, status, code) ==
  LET row == Started(rows)[r.id] IN
  /\ row # NoRow => row.digest = Digest(r)
  /\ rows' = [Started(rows) EXCEPT ![r.id] = [digest |-> Digest(r), status |-> status, code |-> code]]

\* A request that was seen is answered as it stands, or not at all
\* (ACTION_REQUEST_REPLAY_MISMATCH).
Replay(r) ==
  /\ rows[r.id] # NoRow /\ Opened /\ rows' = Started(rows)
  /\ UNCHANGED <<calls, stops, asked, accepted>>

Refuse(r) ==
  /\ rows[r.id] = NoRow /\ Opened /\ (Stale(r) \/ Mismatch(r) \/ ~Routed(r))
  /\ RecordAction(r, "refused", RefusalOf(r))
  /\ UNCHANGED <<calls, stops, asked, accepted>>

\* (mutant: the row is written when the owner has answered)
ForwardUnwritten(c, r) ==
  /\ calls[c] = NoRequest /\ rows[r.id] = NoRow /\ Opened /\ ~Stale(r) /\ ~Mismatch(r) /\ Routed(r)
  /\ rows' = Started(rows)
  /\ calls' = [calls EXCEPT ![c] = r] /\ asked' = [asked EXCEPT ![r.id] = Append(@, Digest(r))]
  /\ UNCHANGED <<stops, accepted>>

\* The request is written, and its owner asked.
Forward(c, r) ==
  /\ calls[c] = NoRequest /\ rows[r.id] = NoRow /\ Opened /\ ~Stale(r) /\ ~Mismatch(r) /\ Routed(r)
  /\ RecordAction(r, "unknown", "ACTION_FORWARDING")
  /\ calls' = [calls EXCEPT ![c] = r] /\ asked' = [asked EXCEPT ![r.id] = Append(@, Digest(r))]
  /\ UNCHANGED <<stops, accepted>>

\* The owner accepts; when that cannot be written, the request counts as failed.
OwnerAccepts(c) ==
  /\ calls[c] # NoRequest /\ Opened
  /\ \/ RecordAction(calls[c], "forwarded", "ACTION_OWNER_ACCEPTED")
     \/ RecordAction(calls[c], "unknown", "ACTION_OUTCOME_UNKNOWN")
  /\ accepted' = accepted \union {calls[c].id} /\ calls' = [calls EXCEPT ![c] = NoRequest]
  /\ UNCHANGED <<stops, asked>>

OwnerRejects(c) ==
  /\ calls[c] # NoRequest /\ Opened
  /\ RecordAction(calls[c], "unknown", "ACTION_OUTCOME_UNKNOWN")
  /\ calls' = [calls EXCEPT ![c] = NoRequest] /\ UNCHANGED <<stops, asked, accepted>>

Next ==
  \/ Start \/ Ingest \/ Stop \/ Crash
  \/ \E r \in Requests : Replay(r) \/ Refuse(r)
  \/ \E c \in Callers, r \in Requests : Forward(c, r)
  \/ \E c \in Callers : OwnerAccepts(c) \/ OwnerRejects(c)

Spec == Init /\ [][Next]_vars

---------------------------------------------------------------------------

\* actionDiagnostics: the requests whose outcome the operator has to find out.
Unsynchronized == {i \in RequestIds : rows[i].code = "ACTION_OUTCOME_UNKNOWN"}

TypeOK ==
  /\ up \in BOOLEAN /\ seq \in 0..MaxSeq /\ known \subseteq {"r"} /\ stops \in 0..MaxStops
  /\ \A i \in RequestIds : rows[i].status \in {"none", "forwarded", "refused", "unknown"}
  /\ calls \in [Callers -> Requests \union {NoRequest}] /\ accepted \subseteq RequestIds

\* An owner is asked at most once for a request id, whoever repeats it and whatever
\* dies meanwhile, and for what the row of the id says; a request told as refused
\* never reached an owner, and one told as forwarded was accepted.
AskedOnce == \A i \in RequestIds :
  /\ asked[i] # <<>> => rows[i] # NoRow /\ asked[i] = <<rows[i].digest>>
  /\ rows[i].status = "refused" => asked[i] = <<>>
  /\ rows[i].status = "forwarded" => i \in accepted

\* Once the store is open, a request whose owner was asked has its answer written, is
\* still under way, or is among those the diagnostics count.
NoneIsForgotten == up => \A i \in RequestIds :
  asked[i] # <<>> =>
    \/ rows[i].status = "forwarded"
    \/ \E c \in Callers : calls[c] # NoRequest /\ calls[c].id = i
    \/ i \in Unsynchronized
=============================================================================
