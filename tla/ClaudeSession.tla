--------------------------- MODULE ClaudeSession ---------------------------
(***************************************************************************)
(* One attempt of the Claude adapter: what must be verified before a       *)
(* session may be created (claude-adapter-factory.ts and the registries it *)
(* asks), the gate of its process (claude-process-host.ts), the grant of   *)
(* its credentials (claude-credential-grant.ts), the permissions its tools *)
(* ask for (claude-permission-gate.ts), the messages of the SDK            *)
(* (claude-sdk-protocol.ts), and the lifecycle that binds them             *)
(* (lifecycleBound of claude-runtime-authority.ts).                        *)
(*                                                                         *)
(* The qualified owner of the runtime and the broker are external.  The    *)
(* owner is told spawnDeadlineMs: what it has not done by then it does not *)
(* do later; and it releases only a process it still holds.                *)
(*                                                                         *)
(* Every call of the gate writes its phase when its await is over, whether *)
(* or not a cleanup ran meanwhile.                                         *)
(***************************************************************************)
EXTENDS Naturals, Sequences

CONSTANTS
  Ids,          \* the permission requests of the SDK
  MaxCalls,     \* times the SDK asks for one of them
  MaxMessages,  \* messages of the SDK
  MaxQueued     \* CLAUDE_PROTOCOL_LIMITS.queuedMessages

SessionBounds == MaxCalls \in Nat /\ MaxMessages \in Nat /\ MaxQueued \in Nat \ {0}

VARIABLES
  verified,     \* the registries' findings: "legal", "artifact", "runtime", "attempts", "recovery"
  checked,      \* the registries whose startup is over
  session,      \* "none", "created", or "refused"
  phase,        \* phaseValue of the process gate
  at,           \* where the owner's start() is
  identity,     \* the process the owner registered is known here
  cleanup,      \* where cleanupOnce is
  wasRunning,
  row,          \* the state of the process in the operation registry
  rowCleaned,   \* and its cleanup_state
  host,         \* the process at its owner
  reserving, revoking,      \* the memoised promises of the grant
  revoked, failed,
  lease,        \* the opaque lease of the credentials
  broker,       \* the reservation as the broker has it
  pending, decided, closed, \* the permission gate
  calls, allows,            \* of each request
  protocol,     \* phaseValue of the protocol gate; "faulted" is failed, too
  queue,        \* the messages accepted and not processed
  sent, delivering, ended,  \* messages so far; contents being delivered; the result has come
  settle        \* where the first cancel, cleanup or failed start of the session is

verifying == <<verified, checked, session>>
gate == <<phase, at, identity, cleanup, wasRunning, row, rowCleaned, host>>
grant == <<reserving, revoking, revoked, failed, lease, broker>>
permissions == <<pending, decided, closed, calls, allows>>
messages == <<protocol, queue, sent, delivering, ended>>
vars == <<verifying, gate, grant, permissions, messages, settle>>

Init ==
  /\ verified \in {{}, {"attempts"}} /\ checked = {} /\ session = "none"
  /\ phase = "unreserved" /\ at = "none" /\ identity = FALSE /\ cleanup = "none" /\ wasRunning = FALSE
  /\ row = "none" /\ rowCleaned = FALSE /\ host = "none"
  /\ reserving = "none" /\ revoking = "none" /\ revoked = FALSE /\ failed = FALSE
  /\ lease = "held" /\ broker = "none"
  /\ pending = {} /\ decided = {} /\ closed = FALSE
  /\ calls = [i \in Ids |-> 0] /\ allows = [i \in Ids |-> 0]
  /\ protocol = "initializing" /\ queue = <<>> /\ sent = 0 /\ delivering = 0 /\ ended = FALSE
  /\ settle = "none"

---------------------------------------------------------------------------
(* Before a session: what the registries verify once, at the start.        *)

\* The signed approval first, then the artifact it names.
VerifyRelease ==
  /\ "release" \notin checked /\ checked' = checked \union {"release"}
  /\ \E found \in {{}, {"legal"}, {"legal", "artifact"}} : verified' = verified \union found
  /\ UNCHANGED <<session, gate, grant, permissions, messages, settle>>

\* The owner inspects the attested artifact; without one it is not asked.
Qualify ==
  /\ "release" \in checked /\ "runtime" \notin checked /\ checked' = checked \union {"runtime"}
  /\ \E found \in {{}} \union (IF "artifact" \in verified THEN {{"runtime"}} ELSE {}) :
       verified' = verified \union found
  /\ UNCHANGED <<session, gate, grant, permissions, messages, settle>>

\* Complete only with no residual, no failed cleanup and no backlog.
Reconcile ==
  /\ "recovery" \notin checked /\ checked' = checked \union {"recovery"}
  /\ \E found \in {{}, {"recovery"}} : verified' = verified \union found
  /\ UNCHANGED <<session, gate, grant, permissions, messages, settle>>

\* descriptor.enabled
Enabled == {"legal", "runtime", "attempts", "recovery"} \subseteq verified

---------------------------------------------------------------------------
(* The grant.                                                              *)

\* (mutant: a grant does not look whether it was revoked)
MayReserveUnlessFailed == ~failed

MayReserve == ~revoked /\ ~failed /\ revoking = "none"

\* revokeOnce: waits for a reserve in flight, then asks the broker, if there
\* is a reservation; the lease is disposed of in any case.
BeginRevoke ==
  IF revoked \/ revoking # "none" THEN UNCHANGED <<revoking, revoked, lease>>
  ELSE CASE reserving = "pending" -> revoking' = "waiting" /\ UNCHANGED <<revoked, lease>>
         [] reserving = "done" -> revoking' = "asked" /\ UNCHANGED <<revoked, lease>>
         [] OTHER -> revoking' = "done" /\ revoked' = TRUE /\ lease' = "disposed"

RevokeOver == (revoked /\ revoking = "none") \/ revoking \in {"done", "failed"}

\* A reserve that was refused makes the revoke that waits for it fail, too.
RevokeGoesOn ==
  /\ revoking = "waiting" /\ reserving # "pending"
  /\ IF reserving = "done" THEN revoking' = "asked" /\ UNCHANGED lease
     ELSE revoking' = "failed" /\ lease' = "disposed"
  /\ UNCHANGED <<verifying, gate, reserving, revoked, failed, broker, permissions, messages, settle>>

BrokerReserves ==
  /\ reserving = "pending"
  /\ \/ broker' = "reserved" /\ reserving' = "done" /\ UNCHANGED <<revoked, failed, lease>>
     \/ reserving' = "failed" /\ revoked' = TRUE /\ failed' = TRUE /\ lease' = "disposed" /\ UNCHANGED broker
  /\ UNCHANGED <<verifying, gate, revoking, permissions, messages, settle>>

BrokerRevokes ==
  /\ revoking = "asked" /\ lease' = "disposed"
  /\ \/ broker' = "revoked" /\ revoking' = "done" /\ revoked' = TRUE /\ UNCHANGED failed
     \/ revoking' = "failed" /\ failed' = TRUE /\ UNCHANGED <<broker, revoked>>
  /\ UNCHANGED <<verifying, gate, reserving, permissions, messages, settle>>

---------------------------------------------------------------------------
(* The gate of the process.                                                *)

\* The operation registry refuses some changes of a row; the gate ignores that.
RowFails == IF row \in {"registered", "spawning", "started"} THEN "spawn-failed" ELSE row

Fault == phase' = "faulted" /\ row' = RowFails

\* cleanup: the first call runs cleanupOnce, every later one waits for it.
BeginCleanup ==
  IF cleanup # "none" THEN UNCHANGED <<phase, cleanup, wasRunning, revoking, revoked, lease>>
  ELSE /\ cleanup' = "revoke" /\ phase' = "cleaning" /\ wasRunning' = (phase = "running")
       /\ BeginRevoke

\* failAndClean: a cleanup that had begun goes on under the phase "faulted".
FailAndClean ==
  /\ at' = "failing" /\ row' = RowFails
  /\ IF cleanup # "none" THEN phase' = "faulted" /\ UNCHANGED <<cleanup, wasRunning, revoking, revoked, lease>>
     ELSE cleanup' = "revoke" /\ phase' = "cleaning" /\ wasRunning' = FALSE /\ BeginRevoke

\* create of claude-runtime-authority.ts, by way of the factory: the attempt is
\* authorised, the grant takes the lease, the owner creates its session, and the
\* gate is armed.
Create ==
  /\ session = "none" /\ Enabled /\ session' = "created"
  /\ UNCHANGED <<verified, checked, gate, grant, permissions, messages, settle>>

\* Refused with the attempt: the lease stays with the caller.
CreateRefused ==
  /\ session = "none" /\ checked = {"release", "runtime", "recovery"} /\ session' = "refused"
  /\ UNCHANGED <<verified, checked, gate, grant, permissions, messages, settle>>

\* Refused by the owner: the gate that was not armed is cleaned.
CreateFails ==
  /\ session = "none" /\ Enabled /\ session' = "refused"
  /\ BeginCleanup
  /\ UNCHANGED <<verified, checked, at, identity, row, rowCleaned, host, reserving, failed, broker,
                 permissions, messages, settle>>

\* The owner's start: the process is registered in the operation registry, then
\* reserved at the owner.
Reserve ==
  /\ session = "created" /\ at = "none"
  /\ \/ /\ phase = "unreserved" /\ at' = "reserve" /\ row' = "registered"
        /\ UNCHANGED <<phase, revoked, lease>>
     \/ /\ phase = "unreserved" /\ at' = "failed" /\ phase' = "faulted"
        /\ revoked' = TRUE /\ lease' = "disposed" /\ UNCHANGED row
     \/ phase # "unreserved" /\ at' = "failed" /\ Fault /\ UNCHANGED <<revoked, lease>>
  /\ UNCHANGED <<verifying, identity, cleanup, wasRunning, rowCleaned, host, reserving, revoking, failed, broker,
                 permissions, messages, settle>>

Reserved ==
  /\ at = "reserve" /\ at' = "reserved" /\ phase' = "reserved"
  /\ UNCHANGED <<verifying, identity, cleanup, wasRunning, row, rowCleaned, host, grant, permissions, messages, settle>>

\* register of the gate
Register ==
  /\ at = "reserved"
  /\ IF phase = "reserved" THEN at' = "register" /\ UNCHANGED <<phase, row>> ELSE at' = "failed" /\ Fault
  /\ UNCHANGED <<verifying, identity, cleanup, wasRunning, rowCleaned, host, grant, permissions, messages, settle>>

\* The owner has the process, and holds it.
Registered ==
  /\ at = "register" /\ at' = "registered" /\ phase' = "registered" /\ identity' = TRUE /\ host' = "held"
  /\ UNCHANGED <<verifying, cleanup, wasRunning, row, rowCleaned, grant, permissions, messages, settle>>

\* release: the grant is reserved first.
Release ==
  /\ at = "registered"
  /\ \/ /\ phase = "registered" /\ row = "registered" /\ MayReserve
        /\ at' = "grant" /\ row' = "spawning" /\ reserving' = "pending"
        /\ UNCHANGED <<phase, cleanup, wasRunning, revoking, revoked, lease>>
     \/ /\ phase = "registered" /\ ~(row = "registered" /\ MayReserve)
        /\ FailAndClean /\ UNCHANGED reserving
     \/ /\ phase # "registered" /\ at' = "failed" /\ Fault
        /\ UNCHANGED <<cleanup, wasRunning, reserving, revoking, revoked, lease>>
  /\ UNCHANGED <<verifying, identity, rowCleaned, host, failed, broker, permissions, messages, settle>>

\* activate looks at revoked and failed, not at a revoke that is under way; it
\* consumes the lease.
Activate ==
  /\ at = "grant" /\ reserving # "pending"
  /\ IF reserving = "done" /\ ~revoked /\ ~failed THEN
       at' = "activate" /\ lease' = "consumed"
       /\ UNCHANGED <<phase, row, cleanup, wasRunning, revoking, revoked, failed>>
     ELSE FailAndClean /\ failed' = TRUE
  /\ UNCHANGED <<verifying, identity, rowCleaned, host, reserving, broker, permissions, messages, settle>>

\* The broker activates what is still reserved.
Activated ==
  /\ at = "activate"
  /\ \/ /\ broker = "reserved" /\ broker' = "active" /\ at' = "release"
        /\ UNCHANGED <<phase, row, cleanup, wasRunning, revoking, revoked, failed, lease>>
     \/ FailAndClean /\ failed' = TRUE /\ UNCHANGED broker
  /\ UNCHANGED <<verifying, identity, rowCleaned, host, reserving, permissions, messages, settle>>

\* What the owner still holds is released; the gate does not look again whether
\* a cleanup has begun.
Released ==
  /\ at = "release" /\ host = "held" /\ host' = "up"
  /\ IF row = "spawning" THEN
       at' = "up" /\ row' = "ready" /\ phase' = "running" /\ UNCHANGED <<cleanup, wasRunning, revoking, revoked, lease>>
     ELSE FailAndClean
  /\ UNCHANGED <<verifying, identity, rowCleaned, reserving, failed, broker, permissions, messages, settle>>

\* Refused by the owner, or its deadline has passed.
StartFails ==
  /\ at \in {"reserve", "register", "release"}
  /\ FailAndClean
  /\ UNCHANGED <<verifying, identity, rowCleaned, host, reserving, failed, broker, permissions, messages, settle>>

StartFailed ==
  /\ at = "failing" /\ cleanup \in {"cleaned", "faulted"} /\ at' = "failed"
  /\ UNCHANGED <<verifying, phase, identity, cleanup, wasRunning, row, rowCleaned, host, grant,
                 permissions, messages, settle>>

HostExits ==
  /\ host = "up" /\ host' = "gone"
  /\ UNCHANGED <<verifying, phase, at, identity, cleanup, wasRunning, row, rowCleaned, grant,
                 permissions, messages, settle>>

---------------------------------------------------------------------------
(* cleanupOnce.  A failed revoke does not keep it from ending the process. *)

Over == cleanup' = "cleaned" /\ phase' = "cleaned" /\ rowCleaned' = (row # "none")
        /\ row' = (IF wasRunning THEN "signalled" ELSE row)

OverFaulted == cleanup' = "faulted" /\ phase' = "faulted" /\ row' = RowFails /\ UNCHANGED rowCleaned

\* The operation registry may refuse the end of the row.
Finish == (revoking # "failed" /\ Over) \/ ((row # "none" \/ revoking = "failed") /\ OverFaulted)

GoOn(stage) == cleanup' = stage /\ UNCHANGED <<phase, row, rowCleaned>>

\* (mutant: only a running process is signalled)
SignalsRunning == identity /\ wasRunning

\* Whether there is a process to end is looked at when the revoke is over.
Signals == identity

Remains == host \in {"held", "up"}

CleanupRevoked ==
  /\ cleanup = "revoke" /\ RevokeOver
  /\ IF Signals THEN GoOn("terminate") ELSE Finish
  /\ UNCHANGED <<verifying, at, identity, wasRunning, host, grant, permissions, messages, settle>>

\* SIGTERM, then SIGKILL if the inventory still counts a member; the owner may
\* fail in each.
Signal ==
  /\ cleanup \in {"terminate", "kill"}
  /\ \/ GoOn(IF cleanup = "terminate" THEN "count" ELSE "recount") /\ host' \in {host, "gone"}
     \/ OverFaulted /\ UNCHANGED host
  /\ UNCHANGED <<verifying, at, identity, wasRunning, grant, permissions, messages, settle>>

Inventory ==
  /\ cleanup \in {"count", "recount"}
  /\ \/ Remains /\ cleanup = "count" /\ GoOn("kill")
     \/ ~Remains /\ Finish
     \/ OverFaulted
  /\ UNCHANGED <<verifying, at, identity, wasRunning, host, grant, permissions, messages, settle>>

\* cancel of the process lease
Cancel ==
  /\ row # "none" /\ cleanup = "none" /\ BeginCleanup
  /\ UNCHANGED <<verifying, at, identity, row, rowCleaned, host, reserving, failed, broker,
                 permissions, messages, settle>>

---------------------------------------------------------------------------
(* The permissions, while the owner's SDK runs.                            *)

\* (mutant: an id may be asked for again once it was decided)
TakenWhilePending(i) == i \in pending

Taken(i) == i \in pending \union decided

\* decide: a request that is invalid, late or repeated is refused, which
\* decides its id.
Ask(i) ==
  /\ at = "up" /\ calls[i] < MaxCalls /\ calls' = [calls EXCEPT ![i] = @ + 1]
  /\ \/ ~closed /\ ~Taken(i) /\ pending' = pending \union {i} /\ UNCHANGED decided
     \/ decided' = decided \union {i} /\ UNCHANGED pending
  /\ UNCHANGED <<verifying, gate, grant, closed, allows, messages, settle>>

\* Allowed once, or else: denied, timed out, failed or answered for another.
Decide(i) ==
  /\ i \in pending /\ pending' = pending \ {i} /\ decided' = decided \union {i}
  /\ \E n \in {0, 1} : allows' = [allows EXCEPT ![i] = @ + n]
  /\ UNCHANGED <<verifying, gate, grant, calls, closed, messages, settle>>

---------------------------------------------------------------------------
(* The messages of the SDK, one after the other.  A "wrong" one is of no   *)
(* known form, or has not the model, the tools or the version expected; a  *)
(* "huge" one exceeds the bytes of a frame or of the queue.                *)

Kinds == {"init", "assistant", "command", "result", "wrong", "huge"}

\* accept: refused at once once the gate has faulted.
Accept(m) ==
  /\ at = "up" /\ protocol # "faulted" /\ sent < MaxMessages /\ sent' = sent + 1
  /\ IF m = "huge" \/ Len(queue) + delivering >= MaxQueued THEN protocol' = "faulted" /\ UNCHANGED queue
     ELSE queue' = Append(queue, m) /\ UNCHANGED protocol
  /\ UNCHANGED <<verifying, gate, grant, permissions, delivering, ended, settle>>

Lawful(m) ==
  \/ m = "init" /\ protocol = "initializing"
  \/ m \in {"assistant", "command", "result"} /\ protocol = "running"

\* (mutant: a message does not wait for the content before it)
AtOnce == TRUE

Waited == delivering = 0

\* process
Process ==
  /\ queue # <<>> /\ Waited /\ queue' = Tail(queue)
  /\ LET m == Head(queue) IN
     /\ protocol' = (IF ~Lawful(m) THEN "faulted"
                      ELSE CASE m = "init" -> "running" [] m = "result" -> "terminal-observed" [] OTHER -> protocol)
     /\ delivering' = (IF Lawful(m) /\ m = "assistant" THEN delivering + 1 ELSE delivering)
     /\ ended' = (ended \/ (Lawful(m) /\ m = "result"))
  /\ UNCHANGED <<verifying, gate, grant, permissions, sent, settle>>

\* The consumer of the content is done, or has failed.
Deliver ==
  /\ delivering > 0 /\ delivering' = delivering - 1
  /\ protocol' \in {protocol, "faulted"}
  /\ UNCHANGED <<verifying, gate, grant, permissions, queue, sent, ended, settle>>

\* drain and end: the iterator of the SDK is over.
EndMessages ==
  /\ at = "up" /\ queue = <<>> /\ delivering = 0
  /\ protocol \notin {"terminal-observed", "cleaning", "faulted"} /\ protocol' = "faulted"
  /\ UNCHANGED <<verifying, gate, grant, permissions, queue, sent, delivering, ended, settle>>

---------------------------------------------------------------------------
(* lifecycleBound: cancel, cleanup, or a start that failed.  A later one   *)
(* repeats what the first has done.                                        *)

Settle ==
  /\ session = "created" /\ settle = "none" /\ settle' = "owner"
  /\ closed' = TRUE /\ decided' = decided \union pending /\ pending' = {}
  /\ protocol' = (IF protocol = "faulted" THEN protocol ELSE "cleaning")
  /\ UNCHANGED <<verifying, gate, grant, calls, allows, queue, sent, delivering, ended>>

\* Well or not, the owner is done: the process is cleaned.
OwnerSettles ==
  /\ settle = "owner" /\ settle' = "process" /\ BeginCleanup
  /\ UNCHANGED <<verifying, at, identity, row, rowCleaned, host, reserving, failed, broker, permissions, messages>>

Settled ==
  /\ settle = "process" /\ cleanup \in {"cleaned", "faulted"} /\ settle' = cleanup
  /\ UNCHANGED <<verifying, gate, grant, permissions, messages>>

Next ==
  \/ VerifyRelease \/ Qualify \/ Reconcile
  \/ Create \/ CreateRefused \/ CreateFails
  \/ RevokeGoesOn \/ BrokerReserves \/ BrokerRevokes
  \/ Reserve \/ Reserved \/ Register \/ Registered \/ Release \/ Activate \/ Activated \/ Released
  \/ StartFails \/ StartFailed \/ HostExits
  \/ CleanupRevoked \/ Signal \/ Inventory \/ Cancel
  \/ (\E i \in Ids : Ask(i) \/ Decide(i))
  \/ (\E m \in Kinds : Accept(m)) \/ Process \/ Deliver \/ EndMessages
  \/ Settle \/ OwnerSettles \/ Settled

Spec == Init /\ [][Next]_vars

---------------------------------------------------------------------------

TypeOK ==
  /\ verified \subseteq {"legal", "artifact", "runtime", "attempts", "recovery"}
  /\ checked \subseteq {"release", "runtime", "recovery"} /\ session \in {"none", "created", "refused"}
  /\ phase \in {"unreserved", "reserved", "registered", "running", "cleaning", "cleaned", "faulted"}
  /\ at \in {"none", "reserve", "reserved", "register", "registered", "grant", "activate", "release", "up",
             "failing", "failed"}
  /\ identity \in BOOLEAN /\ wasRunning \in BOOLEAN /\ rowCleaned \in BOOLEAN
  /\ cleanup \in {"none", "revoke", "terminate", "count", "kill", "recount", "cleaned", "faulted"}
  /\ row \in {"none", "registered", "spawning", "started", "ready", "spawn-failed", "signalled"}
  /\ host \in {"none", "held", "up", "gone"}
  /\ reserving \in {"none", "pending", "done", "failed"}
  /\ revoking \in {"none", "waiting", "asked", "done", "failed"}
  /\ revoked \in BOOLEAN /\ failed \in BOOLEAN
  /\ lease \in {"held", "consumed", "disposed"} /\ broker \in {"none", "reserved", "active", "revoked"}
  /\ pending \subseteq Ids /\ decided \subseteq Ids /\ closed \in BOOLEAN
  /\ calls \in [Ids -> 0..MaxCalls] /\ allows \in [Ids -> Nat]
  /\ protocol \in {"initializing", "running", "terminal-observed", "cleaning", "faulted"}
  /\ queue \in Seq(Kinds) /\ Len(queue) <= MaxQueued /\ sent \in 0..MaxMessages
  /\ delivering \in Nat /\ ended \in BOOLEAN
  /\ settle \in {"none", "owner", "process", "cleaned", "faulted"}

\* A process whose gate is cleaned does not run: whoever overtakes its start
\* either ends it or takes the credentials without which it is not released
\* (cleanupOnce and release, claude-process-host.ts:44 and 37).
\* (mutant: SignalsRunning)
CleanedIsNotReleased == cleanup = "cleaned" => host # "up"

\* Credentials survive no cleanup that ended well, and the lease survives none:
\* a reserve in flight is waited for, a later one refused (revokeOnce and reserve
\* of claude-credential-grant.ts:23 and 17).
\* (mutant: MayReserveUnlessFailed)
EndedIsRevoked ==
  /\ cleanup = "cleaned" => broker \in {"none", "revoked"} /\ reserving # "pending"
  /\ cleanup \in {"cleaned", "faulted"} => lease = "disposed"

\* A request is allowed once, however often the SDK asks, and waits no longer
\* once the session settles (decide and close, claude-permission-gate.ts:12 and 18).
\* (mutant: TakenWhilePending)
AllowedOnce == (\A i \in Ids : allows[i] <= 1) /\ (closed => pending = {})

\* No content is delivered any more when the result is told (tail of accept,
\* claude-sdk-protocol.ts:25).
\* (mutant: AtOnce)
ResultIsLast == ended => delivering = 0

\* A cleaned gate would leave nothing at the owner; a process that the owner
\* registers after the cleanup is held for ever (register, claude-process-host.ts:31).
CleanedHasNoProcess == cleanup = "cleaned" => ~Remains
=============================================================================
