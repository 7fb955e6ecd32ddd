----------------------------- MODULE VerdictReads -----------------------------
(***************************************************************************)
(* How verdicts are read (verdict-merge-service.ts): a query is authorised *)
(* by the mode, looked up among the requests answered before, verified by  *)
(* the kernel and kept with its explanation and an event of the owner, in  *)
(* one transaction.  Readers overlap at every await; the events are told   *)
(* to the read model again and again, and each time the telling may stop   *)
(* at any of them.                                                         *)
(***************************************************************************)
EXTENDS Naturals, Sequences, FiniteSets

CONSTANTS
  Readers,
  Requests,     \* request ids
  Bodies,       \* what else a query says
  MaxEvents,    \* bound: requests that are stored
  MaxCrashes    \* bound: the backend dies

VARIABLES
  up, sink,     \* the store is open; the read model has asked for the events
  requests,     \* stored requests: [id, body, fact], fact = 0 when nothing was known
  events,       \* verdict_owner_events: the facts in their order
  told,         \* what the read model has: <<number, fact>>
  next,         \* the next explanation id of the kernel's reader
  call,         \* of each reader: [at, id, body]
  answers,      \* history: [id, fact] answered as completed
  crashes

vars == <<up, sink, requests, events, told, next, call, answers, crashes>>

Idle == [at |-> "idle", id |-> "none", body |-> "none"]
Unknown == 0

Init ==
  /\ up = FALSE /\ sink = FALSE /\ requests = {} /\ events = <<>> /\ told = {} /\ next = 1
  /\ call = [c \in Readers |-> Idle] /\ answers = {} /\ crashes = 0

\* publishOwnerEvents: from the first event on, as far as the read model takes them.
Published(all) ==
  IF ~sink THEN UNCHANGED told
  ELSE \E n \in 0..Len(all) : told' = told \union {<<i, all[i]>> : i \in 1..n}

---------------------------------------------------------------------------

\* Of what verifyIntegrity compares, what calls could break: one request of an id,
\* and one completed request of an explanation.
Integrity ==
  \A r, s \in requests : r.id = s.id \/ (r.fact = s.fact /\ r.fact # Unknown) => r = s

Start ==
  /\ ~up /\ Integrity /\ up' = TRUE /\ Published(events)
  /\ UNCHANGED <<sink, requests, events, next, call, answers, crashes>>

SetOwnerSink ==
  /\ ~sink /\ sink' = TRUE
  /\ \E n \in 0..Len(events) : told' = told \union {<<i, events[i]>> : i \in 1..(IF up THEN n ELSE 0)}
  /\ UNCHANGED <<up, requests, events, next, call, answers, crashes>>

Explain(c, id, body) ==
  /\ up /\ call[c] = Idle
  /\ call' = [call EXCEPT ![c] = [at |-> "mode", id |-> id, body |-> body]]
  /\ UNCHANGED <<up, sink, requests, events, told, next, answers, crashes>>

Done(c) == call' = [call EXCEPT ![c] = Idle]
Answer(c, fact) == answers' = answers \union {[id |-> call[c].id, fact |-> fact]}

\* The mode refuses, or the request was answered before: the same answer again, a
\* conflict when the query differs.
Replay(c) ==
  /\ up /\ call[c].at = "mode"
  /\ IF \E r \in requests : r.id = call[c].id
     THEN /\ Done(c)
          /\ \E r \in requests :
               /\ r.id = call[c].id
               /\ IF r.body = call[c].body /\ r.fact # Unknown THEN Answer(c, r.fact) ELSE UNCHANGED answers
     ELSE /\ UNCHANGED answers
          /\ \/ Done(c)
             \/ call' = [call EXCEPT ![c].at = "verifying"]
  /\ UNCHANGED <<up, sink, requests, events, told, next, crashes>>

Keep(c, fact) ==
  /\ requests' = requests \union {[id |-> call[c].id, body |-> call[c].body, fact |-> fact]}
  /\ events' = Append(events, fact)
  /\ Published(events')

Stored(c) == \E r \in requests : r.id = call[c].id

\* The kernel has no such verdict: that is stored, and stays the answer.
StoreUnknown(c) ==
  /\ up /\ call[c].at = "verifying" /\ ~Stored(c) /\ Len(events) < MaxEvents
  /\ Keep(c, Unknown) /\ Done(c)
  /\ UNCHANGED <<up, sink, next, answers, crashes>>

\* (mutant: the request of a reader that was faster is replaced)
StoreAnyway(c) ==
  /\ up /\ call[c].at = "verifying" /\ Len(events) < MaxEvents
  /\ next' = next + 1 /\ Keep(c, next) /\ Answer(c, next) /\ Done(c)
  /\ UNCHANGED <<up, sink, crashes>>

\* The explanation gets an identity of its own at every reading.
Store(c) ==
  /\ up /\ call[c].at = "verifying" /\ ~Stored(c) /\ Len(events) < MaxEvents
  /\ next' = next + 1 /\ Keep(c, next) /\ Answer(c, next) /\ Done(c)
  /\ UNCHANGED <<up, sink, crashes>>

\* (mutant: the event is appended outside the transaction)
FailWithEvent(c) ==
  /\ up /\ call[c].at = "verifying" /\ Done(c)
  /\ events' = IF Stored(c) /\ Len(events) < MaxEvents THEN Append(events, next) ELSE events
  /\ UNCHANGED <<up, sink, requests, told, next, answers, crashes>>

\* The verification fails, or another reader was faster and the transaction is
\* undone: an internal failure.
Fail(c) ==
  /\ up /\ call[c].at = "verifying" /\ Done(c)
  /\ UNCHANGED <<up, sink, requests, events, told, next, answers, crashes>>

\* What may be offered for a merge: every explanation with the query it answers.
Candidates == {r \in requests : r.fact # Unknown}

Crash ==
  /\ up /\ crashes < MaxCrashes /\ crashes' = crashes + 1
  /\ up' = FALSE /\ sink' = FALSE /\ call' = [c \in Readers |-> Idle]
  /\ UNCHANGED <<requests, events, told, next, answers>>

Next ==
  \/ Start \/ SetOwnerSink \/ Crash
  \/ \E c \in Readers :
       \/ \E id \in Requests, body \in Bodies : Explain(c, id, body)
       \/ Replay(c) \/ StoreUnknown(c) \/ Store(c) \/ Fail(c)

Spec == Init /\ [][Next]_vars

---------------------------------------------------------------------------

TypeOK ==
  /\ up \in BOOLEAN /\ sink \in BOOLEAN /\ next \in Nat
  /\ events \in Seq(Nat) /\ told \subseteq Nat \X Nat
  /\ \A c \in Readers : call[c].at \in {"idle", "mode", "verifying"}

\* However often and by however many readers a request is made, it is answered
\* with one explanation, and that one can be offered for a merge.
OneAnswer ==
  \A a \in answers :
    /\ \A b \in answers : a.id = b.id => a.fact = b.fact
    /\ \E r \in Candidates : r.id = a.id /\ r.fact = a.fact

\* The store the service leaves behind always opens again; it holds one event of
\* each request, and none is ever told under another number.
ToldAsStored ==
  /\ Integrity
  /\ Len(events) = Cardinality(requests)
  /\ \A e \in told : e[1] \in DOMAIN events /\ events[e[1]] = e[2]
=============================================================================
