---------------------------- MODULE KernelBridge ----------------------------
(***************************************************************************)
(* The bridge of the backend to the kernel (kernel-bridge.ts): starting    *)
(* the adapter, requests in flight, timeouts, protocol failures and exits, *)
(* with the adapter at the other end of two pipes.                         *)
(*                                                                         *)
(* terminateChild signals the process group of a child that leads none, so *)
(* it ends nothing: a start that fails after the spawn leaves its adapter  *)
(* running, and a later start spawns another one beside it.                *)
(***************************************************************************)
EXTENDS RanexJournal, Sequences

CONSTANTS
  Callers,          \* clients with at most one request in flight
  Requests,         \* what they may ask
  Journals,         \* what a backend may find in the journal when it starts
  MaxSpawns,        \* adapters spawned in a behaviour
  MaxFaults         \* adapters that die by themselves and requests given up

RequestsAreFormed == Requests \subseteq Envelope /\ Callers \intersect {"bridge", "nobody"} = {}
BoundsAreNumbers == MaxSpawns \in Nat /\ MaxFaults \in Nat

\* A pass rests, for every check, on the execution of it that passed.
Earned(facts, v) ==
  \A c \in Checks : \E f \in Of(facts, "evidence.admit") :
    /\ f.task = v.task /\ f.subject = v.subject
    /\ Facts[f.proc].check = c /\ Facts[f.proc].outcome = "pass"
    /\ Facts[f.proc].subject = v.subject
    /\ [op |-> "suite.execute", task |-> f.task, proc |-> f.proc] \in facts

\* What adapters leave behind: evidence is of the state that was checked, and a
\* verdict, earned if it is a pass, is of the facts before it.
Kept(facts) ==
  /\ facts \subseteq JournalFacts /\ IsFiniteSet(facts)
  /\ \A f \in Of(facts, "evidence.admit") : f.subject = Facts[f.proc].subject
  /\ \A v \in Of(facts, "verdict") :
       /\ v.decision = "pass" => Earned(facts, v)
       /\ v.sequence < Cardinality(facts)
       /\ Cardinality(facts) = v.sequence + 1 => v.decision = Decision(Rows(facts \ {v}, v.task, v.subject))

\* What a backend finds when it starts was left by adapters.
JournalsAreKept == \A facts \in Journals : Kept(facts)

VARIABLES
  journal,          \* the facts of the Ranex journal
  subject,          \* the state of the repository
  expired,          \* task bindings past their expiry
  state,            \* state
  opening,          \* calls of start() that wait for startOperation
  ref,              \* child: the adapter the bridge refers to, or 0
  alive,            \* the adapters that run
  killed,           \* those that were signalled, or whose stdin was ended
  inbox, outbox,    \* the frames in their pipes
  residue,          \* responseBuffer holds a part of a frame
  calls,            \* the last request of each caller and what it was told
  expected,         \* expectedExit
  faults,           \* why protocolFailure ran
  spawns, slips

vars == <<journal, subject, expired, state, opening, ref, alive, killed, inbox, outbox, residue,
          calls, expected, faults, spawns, slips>>

Kids == 1..MaxSpawns
Idle == [req |-> [op |-> "none"], told |-> "nothing"]
Handshake == [by |-> "bridge", measured |-> "none", req |-> [op |-> "kernel.handshake"]]

Waiting(c) == calls[c].told = "waiting"
\* The services answer every error of the bridge with a refusal.
Refused == [Idle EXCEPT !.told = "refused"]

\* failAll: every pending request is rejected.
FailAll == calls' = [c \in Callers |-> IF Waiting(c) THEN Refused ELSE calls[c]]

\* (mutant: an answer goes to whoever asks now)
ForgottenNone(frames, who) == frames

\* What is no longer pending is not recognised when its answer comes.
Forgotten(frames, who) == [k \in Kids |->
  [i \in DOMAIN frames[k] |->
     IF frames[k][i].by \in who THEN [frames[k][i] EXCEPT !.by = "nobody"] ELSE frames[k][i]]]

Forget(who) == inbox' = Forgotten(inbox, who) /\ outbox' = Forgotten(outbox, who)

Init ==
  /\ journal \in Journals /\ subject \in Subjects /\ expired = {}
  /\ state = "stopped" /\ opening = 0 /\ ref = 0 /\ alive = {} /\ killed = {}
  /\ inbox = [k \in Kids |-> <<>>] /\ outbox = [k \in Kids |-> <<>>] /\ residue = FALSE
  /\ calls = [c \in Callers |-> Idle] /\ expected = FALSE /\ faults = {}
  /\ spawns = 0 /\ slips = 0

World == <<subject, expired>>
Budgets == <<spawns, slips>>
Pipes == <<inbox, outbox, residue>>
Links == <<ref, alive, killed, expected>>

---------------------------------------------------------------------------

Start ==
  /\ state \in {"stopped", "failed"} /\ spawns + opening < MaxSpawns
  /\ state' = "starting" /\ opening' = opening + 1
  /\ UNCHANGED <<journal, World, Links, Pipes, calls, faults, Budgets>>

\* startOperation rejects, or spawning throws: state is left as it is.
StartFails ==
  /\ opening > 0 /\ opening' = opening - 1
  /\ UNCHANGED <<journal, World, state, Links, Pipes, calls, faults, Budgets>>

Incomplete ==
  /\ opening > 0 /\ opening' = opening - 1
  /\ state' = "failed"
  /\ UNCHANGED <<journal, World, Links, Pipes, calls, faults, Budgets>>

Spawn ==
  /\ opening > 0 /\ spawns < MaxSpawns
  /\ opening' = opening - 1 /\ spawns' = spawns + 1
  /\ ref' = spawns + 1 /\ alive' = alive \union {spawns + 1}
  /\ inbox' = [inbox EXCEPT ![spawns + 1] = <<Handshake>>]
  /\ UNCHANGED <<journal, World, state, killed, expected, outbox, residue, calls, faults, slips>>

\* The handshake times out or does not fit: the adapter is not terminated.
NotReady ==
  /\ slips < MaxFaults /\ slips' = slips + 1
  /\ \E k \in alive : \E i \in DOMAIN inbox[k] : inbox[k][i].by = "bridge"
  /\ state' = "failed" /\ Forget({"bridge"})
  /\ UNCHANGED <<journal, World, opening, Links, residue, calls, faults, spawns>>

\* A client asks. The services look at the expiry of the binding and measure
\* the repository first; a check must be as the registry attests it.
BindAsked(r) == r.op = "task.bind" /\ r.task \notin expired
EvidenceAsked(r) == r.op = "evidence.admit" /\ r.task \notin expired
GateAsked(r) == r.op = "gate.evaluate" /\ r.task \notin expired
CheckAsked(r) == r.op = "suite.execute" /\ r.proc \in Procs
Asked(r) ==
  \/ BindAsked(r) \/ EvidenceAsked(r) \/ GateAsked(r) \/ CheckAsked(r)
  \/ r.op \in {"producer.dispatch", "suite.freeze", "verdict.read", "operation.reconcile", "operation.cancel"}

Ask(c, r) ==
  /\ ~Waiting(c) /\ Asked(r)
  /\ ref # 0 /\ state = "ready"
  /\ calls' = [calls EXCEPT ![c] = [req |-> r, told |-> "waiting"]]
  /\ inbox' = IF expected THEN inbox
              ELSE [inbox EXCEPT ![ref] = Append(@, [by |-> c, measured |-> subject, req |-> r])]
  /\ UNCHANGED <<journal, World, state, opening, Links, outbox, residue, faults, Budgets>>

\* The fifteen seconds of a request are over.
TimeOut(c) ==
  /\ Waiting(c) /\ slips < MaxFaults
  /\ slips' = slips + 1
  /\ calls' = [calls EXCEPT ![c] = Refused]
  /\ Forget({c})
  /\ UNCHANGED <<journal, World, state, opening, Links, residue, faults, spawns>>

---------------------------------------------------------------------------

\* An adapter reads its next frame, serves it and writes the answer.
Serve(k) ==
  /\ k \in alive /\ inbox[k] # <<>>
  /\ LET frame == Head(inbox[k])
         done == Dispatch(journal, frame.req, frame.measured, expired)
     IN /\ journal' = done.journal
        /\ inbox' = [inbox EXCEPT ![k] = Tail(@)]
        /\ outbox' = [outbox EXCEPT ![k] = Append(@, [by |-> frame.by, req |-> frame.req, answer |-> done.answer])]
  /\ UNCHANGED <<World, state, opening, Links, residue, calls, faults, Budgets>>

\* The bridge lets a failed row outweigh a blocked one.
VerdictDecision(rows) ==
  IF \E c \in Checks : rows[c] = "fail" THEN "fail"
  ELSE IF \E c \in Checks : rows[c] = "blocked" THEN "blocked" ELSE "pass"

ValidProjection(frame) ==
  "verdict" \in DOMAIN frame.answer =>
    frame.answer.verdict.decision = VerdictDecision(frame.answer.verdict.rows)

Told(answer) ==
  IF answer.status # "ok" THEN "refused"
  ELSE IF "current" \in DOMAIN answer THEN (IF answer.current THEN "current" ELSE "stale")
  ELSE "ok"

Answered(call, answer) ==
  IF Told(answer) = "refused" THEN Refused ELSE [call EXCEPT !.told = Told(answer)]

\* A start that waits for the answer to its handshake.
Handshaking == \E k \in Kids : \E pipe \in {inbox[k], outbox[k]} :
                 \E i \in DOMAIN pipe : pipe[i].by = "bridge"

ProtocolFailure(why) ==
  /\ FailAll /\ killed' = killed \union ({ref} \ {0})
  /\ faults' = faults \union {why}
  /\ state' = IF Handshaking THEN "failed" ELSE state
  /\ inbox' = Forgotten(inbox, Callers \union {"bridge"})

\* receive and acceptResult, for the answers of any adapter.
Receive(k) ==
  /\ outbox[k] # <<>>
  /\ LET frame == Head(outbox[k])
         known == frame.by # "nobody"
     IN \/ /\ residue /\ residue' \in BOOLEAN
           /\ ProtocolFailure("frame")
           /\ outbox' = Forgotten([outbox EXCEPT ![k] = Tail(@)], Callers \union {"bridge"})
        \/ /\ ~residue /\ known /\ ~ValidProjection(frame)
           /\ ProtocolFailure("projection")
           /\ outbox' = Forgotten([outbox EXCEPT ![k] = Tail(@)], Callers \union {"bridge"})
           /\ UNCHANGED residue
        \/ /\ ~residue
           /\ known => ValidProjection(frame)
           /\ outbox' = [outbox EXCEPT ![k] = Tail(@)]
           /\ state' = IF frame.by = "bridge" THEN "ready" ELSE state
           /\ calls' = IF frame.by \in Callers THEN [calls EXCEPT ![frame.by] = Answered(@, frame.answer)]
                       ELSE calls
           /\ UNCHANGED <<residue, killed, faults, inbox>>
  /\ UNCHANGED <<journal, World, opening, ref, alive, expected, Budgets>>

\* onExit, for whichever adapter ended: the bridge lets go of the one it has.
Exit(k) ==
  /\ k \in alive
  /\ \/ k \in killed /\ (expected /\ k = ref => inbox[k] = <<>>) /\ UNCHANGED slips
     \/ k \notin killed /\ slips < MaxFaults /\ slips' = slips + 1
  /\ alive' = alive \ {k} /\ killed' = killed \ {k}
  /\ residue' \in {residue, residue \/ outbox[k] # <<>>}
  /\ inbox' = [Forgotten(inbox, Callers \union {"bridge"}) EXCEPT ![k] = <<>>]
  /\ outbox' = [Forgotten(outbox, Callers \union {"bridge"}) EXCEPT ![k] = <<>>]
  /\ ref' = 0 /\ FailAll /\ expected' = FALSE
  /\ state' = IF expected /\ ~Handshaking THEN "stopped" ELSE "failed"
  /\ UNCHANGED <<journal, World, opening, faults, spawns>>

Shutdown ==
  /\ ref # 0 /\ ~expected
  /\ expected' = TRUE /\ killed' = killed \union {ref}
  /\ UNCHANGED <<journal, World, state, opening, ref, alive, Pipes, calls, faults, Budgets>>

\* The repository moves and bindings expire.
Change ==
  \/ subject' \in Subjects \ {subject} /\ UNCHANGED expired
  \/ \E t \in Tasks \ expired : expired' = expired \union {t} /\ UNCHANGED subject

Environment ==
  /\ Change
  /\ UNCHANGED <<journal, state, opening, Links, Pipes, calls, faults, Budgets>>

Next ==
  \/ Start \/ StartFails \/ Incomplete \/ Spawn \/ NotReady \/ Shutdown \/ Environment
  \/ \E c \in Callers : (\E r \in Requests : Ask(c, r)) \/ TimeOut(c)
  \/ \E k \in Kids : Serve(k) \/ Receive(k) \/ Exit(k)

Spec == Init /\ [][Next]_vars
---------------------------------------------------------------------------

TypeOK ==
  /\ journal \subseteq JournalFacts /\ IsFiniteSet(journal)
  /\ subject \in Subjects /\ expired \subseteq Tasks
  /\ state \in {"stopped", "starting", "ready", "failed"}
  /\ ref \in Kids \union {0} /\ alive \subseteq Kids /\ killed \subseteq alive
  /\ \A c \in Callers : calls[c].req \in Envelope \union {Idle.req} /\ calls[c].told \in
       {"nothing", "waiting", "ok", "current", "stale", "refused"}
  /\ faults \subseteq {"frame", "projection"}

Verdicts == Of(journal, "verdict")

\* A pass in the journal rests, for every check, on one execution that passed
\* on the judged state of the repository, by a verifier that made nothing of
\* what was known when it ran (gate.evaluate, evidence.admit, suite.execute).
PassIsEarned ==
  \A v \in Verdicts : v.decision = "pass" => Earned(journal, v)

\* A verdict that may be shown as current is what the gate would decide now:
\* no later evidence, execution or conflict has been overlooked (verdict.read).
CurrentStillHolds ==
  \A v \in Verdicts, s \in Subjects :
    Current(journal, v, s, expired) =>
      v.decision = Decision(Rows(journal \ {v}, v.task, s))

\* What a caller was told of its own request is so: an answer that comes late,
\* from an earlier adapter or after a retry, is never taken for another one.
AnswersMatch ==
  \A c \in Callers :
    /\ calls[c].told = "ok" =>
         LET r == calls[c].req
         IN CASE r.op = "gate.evaluate" -> Given(journal, r) # {}
              [] r.op = "operation.reconcile" -> Of(journal, r.op) # {}
              [] OTHER -> r \in journal
    /\ calls[c].told \in {"current", "stale"} =>
         \E v \in Verdicts : v.id = calls[c].req.id /\ v.task = calls[c].req.task

\* No legal answer of the adapter is a protocol failure to the bridge. A verdict
\* with a failed and a blocked row is one: no run keeps this.
AnswersAreUnderstood == "projection" \notin faults
=============================================================================
