------------------------------ MODULE CodexHost ------------------------------
(***************************************************************************)
(* The process of one Codex attempt and the credentials reserved for it:   *)
(* the gate that lets it be registered once, its start, the cleanup that   *)
(* may overtake the start (codex-process-host.ts), and the reservation at  *)
(* the broker (codex-credential-reservation.ts).  The broker and the owner *)
(* of the confined process are external; a spawn whose deadline passed     *)
(* does not come up later, as the owner is given the deadline.             *)
(***************************************************************************)

VARIABLES
  gate,         \* "new", "armed", "registered" or "cleaned" before that
  start,        \* where start() is
  cleanup,      \* where the cleanup is
  row,          \* the state of the process lease in the operation registry
  host,         \* the process itself
  reserving, revoking,      \* the memoised promises of the reservation
  revoked, failed,
  asked,        \* calls the broker has not handled yet
  broker,       \* the reservation as the broker has it
  broke         \* what failed outside: "revoke", "end"

vars == <<gate, start, cleanup, row, host, reserving, revoking, revoked, failed, asked, broker, broke>>

Init ==
  /\ gate = "new" /\ start = "none" /\ cleanup = "none" /\ row = "none" /\ host = "none"
  /\ reserving = "none" /\ revoking = "none" /\ revoked = FALSE /\ failed = FALSE
  /\ asked = {} /\ broker = "none" /\ broke = {}

Reservation == <<reserving, revoking, revoked, failed, asked, broker, broke>>

Starting == {"prepare", "reserve", "activate", "spawn"}
Failing == {"revoke", "end", "count"}

---------------------------------------------------------------------------
(* The gate.                                                               *)

Arm ==
  /\ gate = "new" /\ gate' = "armed"
  /\ UNCHANGED <<start, cleanup, row, host, Reservation>>

Register ==
  /\ gate = "armed" /\ gate' = "registered" /\ row' = "registered"
  /\ UNCHANGED <<start, cleanup, host, Reservation>>

\* Without a host the cleanup gives the lease back: nothing was reserved yet.
CleanGate ==
  /\ gate \in {"new", "armed"} /\ gate' = "cleaned"
  /\ revoked' = TRUE
  /\ UNCHANGED <<start, cleanup, row, host, reserving, revoking, failed, asked, broker, broke>>

---------------------------------------------------------------------------
(* The reservation.                                                        *)

\* (mutant: the reservation does not look whether it was revoked)
MayReserveUnlessFailed == ~failed

MayReserve == ~revoked /\ ~failed /\ revoking = "none"

\* revoke: waits for a reserve in flight, then asks the broker, once.
BeginRevoke ==
  IF revoked \/ revoking # "none" THEN UNCHANGED <<revoking, revoked, asked>>
  ELSE CASE reserving = "pending" -> revoking' = "waiting" /\ UNCHANGED <<revoked, asked>>
         [] reserving = "done" -> revoking' = "asked" /\ asked' = asked \union {"revoke"} /\ UNCHANGED revoked
         [] OTHER -> revoking' = "done" /\ revoked' = TRUE /\ UNCHANGED asked

Revoked == revoked \/ revoking \in {"done", "failed"}

RevokeGoesOn ==
  /\ revoking = "waiting" /\ reserving # "pending"
  /\ IF reserving = "done" THEN revoking' = "asked" /\ asked' = asked \union {"revoke"}
     ELSE revoking' = "failed" /\ UNCHANGED asked
  /\ UNCHANGED <<gate, start, cleanup, row, host, reserving, revoked, failed, broker, broke>>

\* The broker answers, or refuses; a refused reserve holds nothing.
BrokerReserves ==
  /\ "reserve" \in asked /\ asked' = asked \ {"reserve"}
  /\ \/ broker' = "reserved" /\ reserving' = "done" /\ UNCHANGED <<revoked, failed>>
     \/ reserving' = "failed" /\ revoked' = TRUE /\ failed' = TRUE /\ UNCHANGED broker
  /\ UNCHANGED <<gate, start, cleanup, row, host, revoking, broke>>

BrokerRevokes ==
  /\ "revoke" \in asked /\ asked' = asked \ {"revoke"}
  /\ \/ broker' = "revoked" /\ revoking' = "done" /\ revoked' = TRUE /\ UNCHANGED <<failed, broke>>
     \/ revoking' = "failed" /\ failed' = TRUE /\ broke' = broke \union {"revoke"} /\ UNCHANGED <<broker, revoked>>
  /\ UNCHANGED <<gate, start, cleanup, row, host, reserving>>

---------------------------------------------------------------------------
(* The start.                                                              *)

RowFails == IF row = "cleaned" THEN row ELSE "failed"

FailStart == start' = "revoke" /\ row' = RowFails

Start ==
  /\ gate = "registered" /\ start = "none"
  /\ IF row = "registered" THEN start' = "prepare" /\ row' = "spawning" /\ UNCHANGED <<revoking, revoked, asked>>
     ELSE FailStart /\ BeginRevoke
  /\ UNCHANGED <<gate, cleanup, host, reserving, failed, broker, broke>>

\* The confinement is prepared: the credentials are reserved.
Prepared ==
  /\ start = "prepare"
  /\ IF MayReserve THEN
       start' = "reserve" /\ reserving' = "pending" /\ asked' = asked \union {"reserve"}
       /\ UNCHANGED <<row, revoking, revoked>>
     ELSE FailStart /\ BeginRevoke /\ UNCHANGED reserving
  /\ UNCHANGED <<gate, cleanup, host, failed, broker, broke>>

\* activate looks at revoked, not at a revoke that is under way.
Reserved ==
  /\ start = "reserve" /\ reserving # "pending"
  /\ IF reserving = "done" /\ ~revoked /\ ~failed THEN
       start' = "activate" /\ asked' = asked \union {"activate"} /\ UNCHANGED <<row, revoking, revoked, failed>>
     ELSE FailStart /\ BeginRevoke /\ failed' = TRUE
  /\ UNCHANGED <<gate, cleanup, host, reserving, broker, broke>>

\* The broker activates what is still reserved.
Activated ==
  /\ start = "activate" /\ "activate" \in asked
  /\ \/ /\ broker = "reserved" /\ broker' = "active" /\ start' = "spawn"
        /\ asked' = asked \ {"activate"} /\ UNCHANGED <<row, revoking, revoked, failed>>
     \/ /\ FailStart /\ failed' = TRUE
        /\ IF revoked \/ revoking # "none" THEN asked' = asked \ {"activate"} /\ UNCHANGED <<revoking, revoked>>
           ELSE revoking' = "asked" /\ asked' = (asked \ {"activate"}) \union {"revoke"} /\ UNCHANGED revoked
        /\ UNCHANGED broker
  /\ UNCHANGED <<gate, cleanup, host, reserving, broke>>

\* The host is up; a row that is no longer spawning refuses it.
Spawned ==
  /\ start = "spawn" /\ host' = "up"
  /\ IF row = "spawning" THEN start' = "up" /\ row' = "running" /\ UNCHANGED <<revoking, revoked, asked>>
     ELSE FailStart /\ BeginRevoke
  /\ UNCHANGED <<gate, cleanup, reserving, failed, broker, broke>>

\* Refused, or its deadline has passed.
StartFails ==
  /\ start \in {"prepare", "spawn"} /\ FailStart /\ BeginRevoke
  /\ UNCHANGED <<gate, cleanup, host, reserving, failed, broker, broke>>

HostExits ==
  /\ host = "up" /\ host' = "down"
  /\ row' = IF row = "running" THEN "exited" ELSE row
  /\ UNCHANGED <<gate, start, cleanup, Reservation>>

---------------------------------------------------------------------------
(* What ends the host: the start that failed, and the cleanup.             *)

\* (mutant: the host is ended once, by whichever asks first)
EndsHostOnce ==
  /\ host' = IF host = "up" /\ cleanup \notin {"count", "over"} THEN "down" ELSE host
  /\ UNCHANGED broke

EndsHost ==
  \/ host' = (IF host = "up" THEN "down" ELSE host) /\ UNCHANGED broke
  \/ UNCHANGED host /\ broke' = broke \union {"end"}

StartRevoked ==
  /\ start = "revoke" /\ Revoked /\ start' = "end"
  /\ UNCHANGED <<gate, cleanup, row, host, Reservation>>

StartEnded ==
  /\ start = "end" /\ start' = "count"
  /\ EndsHost
  /\ UNCHANGED <<gate, cleanup, row, reserving, revoking, revoked, failed, asked, broker>>

\* Nothing is left and the credentials are revoked: the row is cleaned.
StartCounted ==
  /\ start = "count" /\ start' = "failed"
  /\ row' = IF host = "up" \/ revoking = "failed" THEN row ELSE "cleaned"
  /\ UNCHANGED <<gate, cleanup, host, Reservation>>

\* cancel of the process lease, or the stages of the session's cleanup.
Cleanup ==
  /\ gate = "registered" /\ cleanup = "none" /\ cleanup' = "revoke"
  /\ BeginRevoke
  /\ UNCHANGED <<gate, start, row, host, reserving, failed, broker, broke>>

CleanupRevoked ==
  /\ cleanup = "revoke" /\ Revoked /\ cleanup' = "end"
  /\ UNCHANGED <<gate, start, row, host, Reservation>>

CleanupEnded ==
  /\ cleanup = "end" /\ cleanup' = "count"
  /\ EndsHost
  /\ UNCHANGED <<gate, start, row, reserving, revoking, revoked, failed, asked, broker>>

\* The row is cleaned when nothing is left, whatever became of the credentials.
CleanupCounted ==
  /\ cleanup = "count" /\ cleanup' = "over"
  /\ row' = IF host = "up" THEN row ELSE "cleaned"
  /\ UNCHANGED <<gate, start, host, Reservation>>

Next ==
  \/ Arm \/ Register \/ CleanGate
  \/ RevokeGoesOn \/ BrokerReserves \/ BrokerRevokes
  \/ Start \/ Prepared \/ Reserved \/ Activated \/ Spawned \/ StartFails \/ HostExits
  \/ StartRevoked \/ StartEnded \/ StartCounted
  \/ Cleanup \/ CleanupRevoked \/ CleanupEnded \/ CleanupCounted

Spec == Init /\ [][Next]_vars

---------------------------------------------------------------------------

TypeOK ==
  /\ gate \in {"new", "armed", "registered", "cleaned"}
  /\ start \in {"none", "up", "failed"} \union Starting \union Failing
  /\ cleanup \in {"none", "revoke", "end", "count", "over"}
  /\ row \in {"none", "registered", "spawning", "running", "exited", "failed", "cleaned"}
  /\ host \in {"none", "up", "down"}
  /\ reserving \in {"none", "pending", "done", "failed"}
  /\ revoking \in {"none", "waiting", "asked", "done", "failed"}
  /\ revoked \in BOOLEAN /\ failed \in BOOLEAN /\ broke \subseteq {"revoke", "end"}
  /\ asked \subseteq {"reserve", "activate", "revoke"}
  /\ broker \in {"none", "reserved", "active", "revoked"}

\* A row that is cleaned has no credentials at the broker, reserved or about to
\* be, unless the broker failed to revoke them (revokeOnce waits for the reserve
\* in flight, and reserve refuses after a revoke, codex-credential-reservation.ts:27).
CleanedIsRevoked ==
  row = "cleaned" /\ "revoke" \notin broke => broker \in {"none", "revoked"} /\ "reserve" \notin asked

\* A host whose row is cleaned runs only while its start is not over, which
\* then ends it, if the owner is able to (startOnce and failStart, codex-process-host.ts:66 and 87).
CleanedHostIsEnding ==
  row = "cleaned" /\ host = "up" => start \in Failing \/ "end" \in broke
=============================================================================
