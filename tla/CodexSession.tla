---------------------------- MODULE CodexSession ----------------------------
(***************************************************************************)
(* One Codex session: the protocol with the app server over its stdio      *)
(* (codex-protocol-core.ts, codex-protocol-client.ts), the start that      *)
(* leads to an active turn (codex-live-session.ts) and the cleanup whose   *)
(* stages each have a deadline (codex-session-cleanup.ts).  The server     *)
(* keeps to its protocol: whatever is refused was a race.                  *)
(*                                                                         *)
(* A cancelled turn that goes on writing, or that completes after its      *)
(* interrupt was answered, makes the client refuse the frame, and the      *)
(* cleanup is reported as failed though nothing is left.                   *)
(***************************************************************************)
EXTENDS Naturals, Sequences

CONSTANT MaxActivity    \* notices of activity of the server

ActivityBound == MaxActivity \in Nat

VARIABLES
  at,               \* what start() waits for
  phase,            \* phaseValue
  requests, abandoned,      \* by method: each is asked once
  fault,            \* what the client refused, or "none"
  heard,            \* turn-started has come
  toServer, toClient,       \* the frames in the pipes
  turn, noticed,    \* the turn of the server, and its activity so far
  host,             \* the server's process
  stage, interrupts,        \* where the cleanup is, and whether it interrupts
  broken            \* failed: a stage of the cleanup did not end well

vars == <<at, phase, requests, abandoned, fault, heard, toServer, toClient, turn, noticed, host,
          stage, interrupts, broken>>

Init ==
  /\ at = "none" /\ phase = "spawned" /\ requests = {} /\ abandoned = {} /\ fault = "none" /\ heard = FALSE
  /\ toServer = <<>> /\ toClient = <<>> /\ turn = "none" /\ noticed = 0 /\ host = "none"
  /\ stage = "none" /\ interrupts = FALSE /\ broken = FALSE

Protocol == <<phase, requests, abandoned, fault, heard>>
Server == <<turn, noticed, host>>
Pipes == <<toServer, toClient>>
Cleaning == <<stage, interrupts, broken>>

TurnActive == phase \in {"turn-starting", "turn-active", "interrupting"}

\* The content input is closed by the cleanup of a session with a server, and
\* by a fault.
Closed == fault # "none" \/ (stage # "none" /\ host # "none")

\* cleanup: the first call runs it, every later one waits for the same.
BeginCleanup(interrupt) ==
  IF stage # "none" THEN UNCHANGED <<stage, interrupts>>
  ELSE stage' = "revoke" /\ interrupts' = interrupt

StartFails == at' = "failed" /\ BeginCleanup(TurnActive)

Request(method) == requests' = requests \union {method} /\ toServer' = Append(toServer, method)

---------------------------------------------------------------------------

Start ==
  /\ at = "none" /\ at' = "host"
  /\ UNCHANGED <<Protocol, Pipes, Server, Cleaning>>

HostUp ==
  /\ at = "host" /\ host = "none" /\ stage = "none"
  /\ host' = "up" /\ at' = "initialize" /\ phase' = "initializing"
  /\ Request("initialize")
  /\ UNCHANGED <<abandoned, fault, heard, toClient, turn, noticed, Cleaning>>

HostFails ==
  /\ at = "host"
  /\ StartFails
  /\ UNCHANGED <<Protocol, Pipes, Server, broken>>

\* A deadline of the start, or an attestation that does not hold.
StartTimeout ==
  /\ at \in {"initialize", "thread", "activity"}
  /\ StartFails
  /\ UNCHANGED <<Protocol, Pipes, Server, broken>>

---------------------------------------------------------------------------

\* The server answers what it reads, in order. After a fault the drainer only
\* drops what it writes, so that the server is not followed any further.
Serve ==
  /\ host = "up" /\ toServer # <<>> /\ fault = "none" /\ stage # "over"
  /\ toServer' = Tail(toServer)
  /\ toClient' = Append(toClient, [kind |-> "response", of |-> Head(toServer)])
  /\ turn' = CASE Head(toServer) = "turn/start" -> "accepted"
               [] Head(toServer) = "turn/interrupt" /\ turn # "done" -> "interrupted"
               [] OTHER -> turn
  /\ UNCHANGED <<at, Protocol, noticed, host, Cleaning>>

Emit(kind, next) ==
  /\ host = "up" /\ fault = "none" /\ stage # "over"
  /\ toClient' = Append(toClient, [kind |-> kind, of |-> "turn"])
  /\ turn' = next
  /\ UNCHANGED <<at, Protocol, toServer, host, Cleaning>>

TurnStarts == turn = "accepted" /\ noticed' = noticed /\ Emit("started", "active")
Notices ==
  /\ turn = "active" /\ noticed < MaxActivity /\ noticed' = noticed + 1
  /\ Emit("activity", "active")
AsksAuthority ==
  /\ turn = "active" /\ noticed < MaxActivity /\ noticed' = noticed + 1
  /\ Emit("authority", "active")
\* The server ends, of itself or by a failure.
HostExits ==
  /\ host = "up" /\ stage # "over" /\ host' = "down"
  /\ UNCHANGED <<at, Protocol, Pipes, turn, noticed, Cleaning>>

TurnEnds == turn \in {"active", "interrupted"} /\ noticed' = noticed /\ Emit("completed", "done")

---------------------------------------------------------------------------

\* (mutant: what was asked before the cleanup is forgotten)
AnswerableNow(frame) == frame.of \in requests

Answerable(frame) == frame.of \in requests \union abandoned

\* Answers are taken while their request is outstanding, or was abandoned;
\* notices in the phase they belong to; content until its input is closed.
Expects(frame) ==
  CASE frame.kind = "response" -> Answerable(frame)
    [] frame.kind = "started" -> phase = "turn-starting"
    [] frame.kind = "activity" -> phase = "turn-active" /\ ~Closed
    [] frame.kind = "authority" -> phase \in {"turn-active", "interrupting"}
    [] frame.kind = "completed" -> phase \in {"turn-active", "interrupting"}

Fulfilled(frame) == frame.kind = "response" /\ frame.of \in requests

\* (mutant: the notice that the turn began is not a transition)
NextPhaseUnheard(frame) ==
  CASE Fulfilled(frame) /\ frame.of = "initialize" -> "thread-starting"
    [] Fulfilled(frame) /\ frame.of = "thread/start" -> "turn-starting"
    [] frame.kind = "completed" -> "turn-terminal-observed"
    [] OTHER -> phase

NextPhase(frame) ==
  CASE Fulfilled(frame) /\ frame.of = "initialize" -> "thread-starting"
    [] Fulfilled(frame) /\ frame.of = "thread/start" -> "turn-starting"
    [] frame.kind = "started" -> "turn-active"
    [] frame.kind = "completed" -> "turn-terminal-observed"
    [] OTHER -> phase

\* The start goes on with the answer it waits for: the next request of it.
Follows(frame) ==
  IF Fulfilled(frame) /\ frame.of = "initialize" /\ at = "initialize" THEN
    at' = "thread" /\ requests' = {"thread/start"} /\ toServer' = Append(toServer, "thread/start")
  ELSE IF Fulfilled(frame) /\ frame.of = "thread/start" /\ at = "thread" THEN
    at' = "turn" /\ requests' = {"turn/start"} /\ toServer' = Append(toServer, "turn/start")
  ELSE /\ requests' = IF frame.kind = "response" THEN requests \ {frame.of} ELSE requests
       /\ UNCHANGED toServer
       /\ at' = CASE at = "turn" /\ Fulfilled(frame) /\ frame.of = "turn/start" -> IF heard THEN "started" ELSE "activity"
                  [] at = "activity" /\ frame.kind = "started" -> "started"
                  [] OTHER -> at

\* A phase that the answer finds without its start is over.
Stays(frame) == frame.of \in {"initialize", "thread/start"} /\ at' = at

Accept ==
  /\ fault = "none" /\ stage # "over" /\ toClient # <<>> /\ Expects(Head(toClient)) /\ Head(toClient).kind # "authority"
  /\ LET frame == Head(toClient)
     IN /\ Follows(frame)
        /\ phase' = IF Fulfilled(frame) /\ Stays(frame)
                      THEN IF frame.of = "initialize" THEN "initialize-replied" ELSE "thread-ready"
                      ELSE NextPhase(frame)
        /\ heard' = (heard \/ frame.kind = "started")
        /\ abandoned' = IF frame.kind = "response" THEN abandoned \ {frame.of} ELSE abandoned
  /\ toClient' = Tail(toClient)
  /\ UNCHANGED <<fault, Server, Cleaning>>

\* The client fails: what it had outstanding is rejected, which ends the start
\* and the stage that wait for it, and the drainer reports the code.
FailClient(cause) ==
  /\ fault' = cause /\ phase' = "faulted"
  /\ broken' = (broken \/ (stage = "interrupting" /\ "turn/interrupt" \in requests)
                       \/ (stage = "shutdown" /\ "shutdown" \in requests))
  /\ stage' = CASE stage = "interrupting" -> "settle"
                [] stage = "shutdown" -> "terminate"
                [] stage = "none" /\ at \in {"initialize", "thread", "turn"} -> "revoke"
                [] OTHER -> stage
  /\ interrupts' = (interrupts /\ stage # "none")
  /\ at' = IF at \in {"initialize", "thread", "turn"} THEN "failed" ELSE at
  /\ requests' = {} /\ abandoned' = {} /\ toServer' = <<>> /\ toClient' = <<>>
  /\ UNCHANGED <<heard, Server>>

Refuse ==
  /\ fault = "none" /\ stage # "over" /\ toClient # <<>>
  /\ ~Expects(Head(toClient)) \/ Head(toClient).kind = "authority"
  /\ FailClient(Head(toClient).kind)

\* The server is gone and its last frame read, with a request outstanding.
TransportLost ==
  /\ fault = "none" /\ stage # "over" /\ host = "down" /\ toClient = <<>> /\ requests # {}
  /\ FailClient("end")

---------------------------------------------------------------------------

\* cancel, timeout, or the cleanup of a session that ended.
Cleanup(interrupt) ==
  /\ at # "none" /\ stage = "none"
  /\ BeginCleanup(interrupt /\ TurnActive)
  /\ UNCHANGED <<at, Protocol, Pipes, Server, broken>>

Stage(from, to) == stage = from /\ stage' = to /\ UNCHANGED interrupts

\* The credentials are revoked, or that failed.
Revoked ==
  /\ Stage("revoke", IF interrupts THEN "interrupt" ELSE "settle")
  /\ broken' \in {broken, TRUE}
  /\ UNCHANGED <<at, Protocol, Pipes, Server>>

Interrupt ==
  /\ IF host # "none" /\ TurnActive /\ fault = "none"
       THEN Stage("interrupt", "interrupting") /\ phase' = "interrupting" /\ Request("turn/interrupt")
       ELSE Stage("interrupt", "settle") /\ UNCHANGED <<phase, requests, toServer>>
  /\ UNCHANGED <<at, abandoned, fault, heard, toClient, Server, broken>>

\* Its answer, or ten seconds without one.
Interrupted ==
  /\ Stage("interrupting", "settle")
  /\ UNCHANGED <<at, Protocol, Pipes, Server, broken>>

\* beginCleanup: what is outstanding is abandoned and rejected. The shutdown
\* follows when the content was drained.
Settle ==
  /\ IF host = "none" THEN Stage("settle", "terminate") /\ UNCHANGED <<phase, requests, abandoned, toServer, at>>
     ELSE IF fault # "none" THEN Stage("settle", "terminate") /\ UNCHANGED <<phase, requests, abandoned, toServer, at>>
     ELSE /\ Stage("settle", "shutdown")
          /\ phase' = "cleaning" /\ abandoned' = abandoned \union requests
          /\ requests' = {"shutdown"} /\ toServer' = Append(toServer, "shutdown")
          /\ at' = IF at \in {"initialize", "thread", "turn"} THEN "failed" ELSE at
  /\ UNCHANGED <<fault, heard, toClient, Server, broken>>

ShutDown ==
  /\ "shutdown" \notin requests /\ Stage("shutdown", "terminate")
  /\ UNCHANGED <<at, Protocol, Pipes, Server, broken>>

\* (mutant: the stage waits for the answer)
StageAnswered ==
  /\ "shutdown" \notin requests /\ Stage("shutdown", "terminate") /\ broken' = TRUE
  /\ UNCHANGED <<at, Protocol, Pipes, Server>>

\* A stage that does not end in time is left.
StageTimeout ==
  /\ Stage("shutdown", "terminate") /\ broken' = TRUE
  /\ UNCHANGED <<at, Protocol, Pipes, Server>>

Terminated ==
  /\ Stage("terminate", "enumerate")
  /\ \/ host' = (IF host = "none" THEN "none" ELSE "down") /\ broken' = broken
     \/ host' = host /\ broken' = TRUE
  /\ UNCHANGED <<at, Protocol, Pipes, turn, noticed>>

\* The last stage waits for the drained stdio and counts what is left.
Enumerated ==
  /\ stage = "enumerate" /\ stage' = "over"
  /\ broken' = (broken \/ (host = "up"))
  /\ UNCHANGED <<at, Protocol, Pipes, Server, interrupts>>

Stages == Revoked \/ Interrupt \/ Interrupted \/ Settle \/ ShutDown \/ StageTimeout \/ Terminated \/ Enumerated

Next ==
  \/ Start \/ HostUp \/ HostFails \/ StartTimeout
  \/ Serve \/ TurnStarts \/ Notices \/ AsksAuthority \/ TurnEnds \/ HostExits
  \/ Accept \/ Refuse \/ TransportLost
  \/ \E interrupt \in BOOLEAN : Cleanup(interrupt)
  \/ Stages

Fairness == WF_vars(Stages)

Spec == Init /\ [][Next]_vars /\ Fairness

---------------------------------------------------------------------------

TypeOK ==
  /\ at \in {"none", "host", "initialize", "thread", "turn", "activity", "started", "failed"}
  /\ fault \in {"none", "response", "started", "activity", "authority", "completed", "end"}
  /\ requests \subseteq {"initialize", "thread/start", "turn/start", "turn/interrupt", "shutdown"}
  /\ turn \in {"none", "accepted", "active", "interrupted", "done"} /\ host \in {"none", "up", "down"}
  /\ stage \in {"none", "revoke", "interrupt", "interrupting", "settle", "shutdown", "terminate", "enumerate", "over"}

\* No answer is refused: each finds its request outstanding or abandoned by a
\* cleanup (abandonedRequests, codex-protocol-core.ts:53 and 79).
AnswersAreExpected == fault # "response"

\* Until its cleanup begins, a session refuses nothing of a server that keeps
\* to the protocol, but a request for authority (reduce, codex-protocol-core.ts:89).
RefusalsAreRaces == fault \in {"response", "started", "activity", "completed"} => stage # "none"

\* A cleanup that was begun ends, whatever the server does (the deadline of
\* each stage, codex-session-cleanup.ts:54).
CleanupEnds == stage # "none" ~> stage = "over"

=============================================================================
