---------------------------- MODULE OperationsFeed ----------------------------
(***************************************************************************)
(* The feed of changes of the operations read model                        *)
(* (operations-read-model.ts) and the panel that follows it                *)
(* (operations-widget.ts).  The read model numbers its changes within an   *)
(* epoch, keeps the newest of them and signals each to its clients; a      *)
(* client comes back with a cursor and gets the changes after it, or has   *)
(* to start over.  Opening the store replays the accepted events: the      *)
(* changes are deleted and their numbers start again in the same epoch.    *)
(* The panel asks for the changes and then for a snapshot, one             *)
(* synchronisation after the other, one for every signal.                  *)
(***************************************************************************)
EXTENDS Naturals, FiniteSets

CONSTANTS
  Limit,         \* STREAM_CHANGE_LIMIT
  MaxChanges,    \* bound: changes ever made
  MaxRebuilds,   \* bound: rebuilds of the projection
  MaxStarts      \* bound: starts of the backend

FeedBounds == Limit \in Nat \ {0} /\ MaxChanges \in Nat

VARIABLES
  starts, up,    \* starts of the backend so far; the store is open
  epoch, seq,    \* projection_epoch, change_sequence
  log,           \* projection_changes: [seq, id]
  version,       \* how many changes were ever made: the identity of the last
  connected,     \* the panel is among the clients
  signals,       \* signals on their way to the panel
  at, wanted,    \* where a synchronisation of the panel is; how many are scheduled
  cursor, next,  \* the persisted cursor and the one of the running synchronisation
  shown,         \* the version of the snapshot on the screen
  missed,        \* history: something was not signalled since the last snapshot
  answer         \* history: the last answer to a cursor: [state, since, given, upto, sound]

store == <<starts, up, epoch, seq, log, version>>
panel == <<at, wanted, cursor, next, shown>>
vars == <<store, connected, signals, panel, missed, answer>>

\* A cursor names an epoch and a number.  (history: the changes it covers; whether
\* it was given within the numbering of the start "of")
NoCursor == [epoch |-> 0, seq |-> 0, covers |-> 0, of |-> 0]
NoAnswer == [state |-> "none", since |-> 0, given |-> {}, upto |-> 0, sound |-> TRUE]

Init ==
  /\ starts = 0 /\ up = FALSE /\ epoch = 1 /\ seq = 0 /\ log = {} /\ version = 0
  /\ connected = FALSE /\ signals = 0
  /\ at = "idle" /\ wanted = 1 /\ cursor = NoCursor /\ next = NoCursor /\ shown = 0
  /\ missed = TRUE /\ answer = NoAnswer

---------------------------------------------------------------------------

\* appendChange, n times: the numbers go on from "from", the oldest rows give way.
AppendChanges(old, from, n) ==
  LET all == old \union {[seq |-> from + i, id |-> version + i] : i \in 1..n}
  IN  /\ version + n <= MaxChanges
      /\ log' = {c \in all : c.seq + Limit > from + n}
      /\ seq' = from + n /\ version' = version + n

\* notifyLatestChange: one signal, to the clients there are.
Notify ==
  IF connected THEN signals' = signals + 1 /\ UNCHANGED missed
  ELSE missed' = TRUE /\ UNCHANGED signals

\* start: the rows are derived again under the same epoch; retention may expire
\* some of them at once.
Open ==
  /\ ~up /\ starts < MaxStarts /\ up' = TRUE /\ starts' = starts + 1
  /\ \/ log' = {} /\ seq' = 0 /\ UNCHANGED version
     \/ AppendChanges({}, 0, 1)
  /\ missed' = TRUE
  /\ UNCHANGED <<epoch, connected, signals, panel, answer>>

\* ingest of an accepted event.
Ingest ==
  /\ up /\ AppendChanges(log, seq, 1) /\ Notify
  /\ UNCHANGED <<starts, up, epoch, connected, panel, answer>>

\* applyRetention: a change for every run that expires, one signal.
ApplyRetention ==
  /\ up /\ \E n \in 1..2 : AppendChanges(log, seq, n)
  /\ Notify
  /\ UNCHANGED <<starts, up, epoch, connected, panel, answer>>

Rebuild ==
  /\ up /\ epoch <= MaxRebuilds /\ epoch' = epoch + 1 /\ AppendChanges({}, 0, 1) /\ Notify
  /\ UNCHANGED <<starts, up, connected, panel, answer>>

\* stop, or the death of the backend: the clients are gone.
Stop ==
  /\ up /\ up' = FALSE /\ connected' = FALSE /\ signals' = 0 /\ missed' = TRUE
  /\ UNCHANGED <<starts, epoch, seq, log, version, panel, answer>>

AddClient ==
  /\ up /\ ~connected /\ connected' = TRUE
  /\ UNCHANGED <<store, signals, panel, missed, answer>>

\* A delivery fails and the client is dropped.
DropClient ==
  /\ connected /\ signals > 0 /\ connected' = FALSE /\ signals' = 0 /\ missed' = TRUE
  /\ UNCHANGED <<store, panel, answer>>

---------------------------------------------------------------------------

Cursor(s, sound) == [epoch |-> epoch, seq |-> s, covers |-> version, of |-> IF sound THEN starts ELSE 0]

\* decodeCursor: another epoch, or an expiry that has passed.
Refused(c) == c.epoch # epoch
Gap(c) == \E e \in log : e.seq > c.seq + 1 /\ \A f \in log : f.seq >= e.seq

After(c) == {e \in log : e.seq > c.seq}
MaxSeq(rows, least) == IF rows = {} THEN least ELSE CHOOSE s \in {e.seq : e \in rows} : \A e \in rows : e.seq <= s

\* The changes after the cursor, all of them or none.
Resume(c) ==
  /\ next' = Cursor(MaxSeq(After(c), c.seq), c = NoCursor \/ c.of = starts)
  /\ answer' = [state |-> "current", since |-> c.covers, given |-> {e.id : e \in After(c)},
                upto |-> version, sound |-> c # NoCursor /\ c.of = starts]

Resync ==
  /\ next' = Cursor(seq, TRUE)
  /\ answer' = [NoAnswer EXCEPT !.state = "resync-required"]

\* (mutant: the oldest row is compared with the cursor itself)
SubscribeLate ==
  /\ up /\ at = "idle" /\ wanted > 0 /\ at' = "subscribed"
  /\ IF cursor # NoCursor /\ (Refused(cursor) \/ \E e \in log : e.seq > cursor.seq + 2 /\ \A f \in log : f.seq >= e.seq)
     THEN Resync ELSE Resume(cursor)
  /\ UNCHANGED <<store, connected, signals, wanted, cursor, shown, missed>>

\* subscribe, with the persisted cursor of this window.
Subscribe ==
  /\ up /\ at = "idle" /\ wanted > 0 /\ at' = "subscribed"
  /\ \/ cursor # NoCursor /\ Resync
     \/ ~(cursor # NoCursor /\ (Refused(cursor) \/ Gap(cursor))) /\ Resume(cursor)
  /\ UNCHANGED <<store, connected, signals, wanted, cursor, shown, missed>>

ProjectionSnapshot ==
  /\ up /\ at = "subscribed" /\ at' = "loaded" /\ shown' = version /\ missed' = FALSE
  /\ UNCHANGED <<store, connected, signals, wanted, cursor, next, answer>>

\* The timeline of the selected run has come too: the cursor is kept.
Synchronized ==
  /\ at = "loaded" /\ at' = "idle" /\ wanted' = wanted - 1 /\ cursor' = next
  /\ UNCHANGED <<store, connected, signals, next, shown, missed, answer>>

\* A request fails: it is logged, and the synchronisation is over.
SyncFails ==
  /\ \/ at # "idle"
     \/ wanted > 0 /\ ~up
  /\ at' = "idle" /\ wanted' = wanted - 1 /\ missed' = TRUE
  /\ UNCHANGED <<store, connected, signals, cursor, next, shown, answer>>

\* (mutant: one synchronisation at a time, a signal that comes meanwhile is dropped)
ProjectionChangedOnce ==
  /\ signals > 0 /\ signals' = signals - 1 /\ wanted' = IF wanted = 0 THEN 1 ELSE wanted
  /\ UNCHANGED <<store, connected, at, cursor, next, shown, missed, answer>>

\* A signal schedules a synchronisation of its own.
ProjectionChanged ==
  /\ signals > 0 /\ signals' = signals - 1 /\ wanted' = wanted + 1
  /\ UNCHANGED <<store, connected, at, cursor, next, shown, missed, answer>>

Refresh ==
  /\ wanted = 0 /\ wanted' = 1
  /\ UNCHANGED <<store, connected, signals, at, cursor, next, shown, missed, answer>>

\* The window is loaded again: only the cursor is left of it.
Reload ==
  /\ up /\ at' = "idle" /\ wanted' = 1 /\ next' = NoCursor /\ shown' = 0
  /\ connected' = TRUE /\ signals' = 0 /\ missed' = TRUE
  /\ UNCHANGED <<store, cursor, answer>>

Next ==
  \/ Open \/ Ingest \/ ApplyRetention \/ Rebuild \/ Stop \/ AddClient \/ DropClient
  \/ Subscribe \/ ProjectionSnapshot \/ Synchronized \/ SyncFails
  \/ ProjectionChanged \/ Refresh \/ Reload

Spec == Init /\ [][Next]_vars

---------------------------------------------------------------------------

TypeOK ==
  /\ up \in BOOLEAN /\ connected \in BOOLEAN /\ missed \in BOOLEAN
  /\ starts \in 0..MaxStarts /\ seq \in 0..MaxChanges /\ version \in 0..MaxChanges /\ shown \in 0..version
  /\ at \in {"idle", "subscribed", "loaded"} /\ wanted \in Nat /\ signals \in Nat
  /\ Cardinality(log) <= Limit

\* A client that comes back with a cursor of this start and is told that it is
\* current has been given every change that was made since, and only those,
\* whatever the history has dropped, expired or rebuilt meanwhile.
ResumeIsWhole ==
  answer.state = "current" /\ answer.sound => answer.given = (answer.since + 1)..answer.upto

\* The same of any cursor (operations-pseudocode.md: "Expired/unknown epoch, cursor
\* ahead, history retention gap ... requires resync"). The numbers start again with
\* every start, so an old cursor may fit by accident: no run keeps this.
AnyResumeIsWhole ==
  answer.state = "current" /\ answer.since # 0 => answer.given = (answer.since + 1)..answer.upto

\* When nothing is on its way and nothing went unsignalled or failed, the panel shows
\* what the read model holds: no signal is lost between the steps of a
\* synchronisation.
QuietIsCurrent ==
  at = "idle" /\ wanted = 0 /\ signals = 0 /\ ~missed => shown = version
=============================================================================
