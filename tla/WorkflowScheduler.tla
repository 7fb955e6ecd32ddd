-------------------------- MODULE WorkflowScheduler --------------------------
(***************************************************************************)
(* The workflow registry (packages/kogg-workflow, workflow-registry.ts):   *)
(* one template saved and compiled, one run admitted for one task          *)
(* admission, its nodes routed and executed, its continuation approved by  *)
(* a reviewer, its trust spine executed, and the recovery of a restart.    *)
(*                                                                         *)
(* A call (admitRun or continueRun) runs synchronously between two awaits: *)
(* `busy' names the call that holds the thread.  Each transaction is one   *)
(* action, so that a crash may fall between any two of them.               *)
(***************************************************************************)
EXTENDS Naturals, Sequences, FiniteSets

CONSTANTS
  Calls,        \* RPC calls in flight
  Admits,       \* request identities of admitRun for the one task admission
  Graphs,       \* candidate graphs: [kind: [1..n -> Kinds], edges]
  Owners,       \* the anchors of the trust spine, in order, by owner
  Subjects,     \* digests of a checked repository state
  MaxReviews, MaxSends, MaxRestarts   \* bounds

VARIABLES
  graph, plan,                   \* the template version and its compiled plan
  run, att, waits, outbox, anchors, outcomes, idem,      \* the tables
  exec, busy,                    \* the calls in memory
  reviews, sends, restarts, up, replayed   \* challenges issued; history

tables == <<run, att, waits, outbox, anchors, outcomes, idem>>
history == <<reviews, sends, restarts, up, replayed>>
vars == <<graph, plan, tables, exec, busy, history>>

Ports == {"success", "failure", "finally", "true", "false"}
Nodes == DOMAIN graph.kind
Into(n) == {e \in graph.edges : e.dst = n}
From(n) == {e \in graph.edges : e.src = n}
Checks == {n \in Nodes : graph.kind[n] = "check"}
Joins == {n \in Nodes : graph.kind[n] = "join"}

-----------------------------------------------------------------------------
(* The compiler's check of a graph. *)

\* The nodes reachable from n, n included: the closure of the breadth-first
\* search after as many rounds as there are nodes.
Reach(n) ==
  LET grow[i \in 0..Cardinality(Nodes)] ==
        IF i = 0 THEN {n}
        ELSE grow[i - 1] \cup {e.dst : e \in {x \in graph.edges : x.src \in grow[i - 1]}}
  IN grow[Cardinality(Nodes)]

Forks == {n \in Nodes : \/ graph.kind[n] = "parallel"
                        \/ /\ graph.kind[n] = "condition"
                           /\ \E e \in From(n) : e.port \in {"true", "false"}}

Branches(f) ==
  {e \in From(f) : e.port \in IF graph.kind[f] = "parallel" THEN {"success"} ELSE {"true", "false"}}

\* The joins every branch of a fork reaches and no other such join precedes.
Nearest(f) ==
  LET met == {j \in Joins : \A e \in Branches(f) : j \in Reach(e.dst)}
  IN {j \in met : ~ \E k \in met \ {j} : j \in Reach(k)}

ForksJoin ==
  /\ \A f \in Forks :
       /\ Cardinality(Nearest(f)) = 1
       /\ IF graph.kind[f] = "parallel" THEN Cardinality(Branches(f)) \in 2..8
          ELSE {e.port : e \in Branches(f)} = {"true", "false"}
       /\ \A e, x \in From(f) :
            e.port = x.port /\ e # x => graph.kind[f] = "parallel" /\ e.port = "success"
  /\ \A f, g \in Forks : f # g => Nearest(f) # Nearest(g)
  /\ Joins = UNION {Nearest(f) : f \in Forks}

Valid ==
  /\ \A e \in graph.edges :
       /\ e.src # e.dst
       /\ e.port \in IF graph.kind[e.src] = "condition" THEN Ports \ {"success"}
                     ELSE {"success", "failure", "finally"}
  /\ \A n \in Nodes : /\ Cardinality(Into(n)) > 1 => graph.kind[n] \in {"join", "finally"}
                      /\ n \in Joins => Cardinality(Into(n)) >= 2
  /\ \A e \in graph.edges : e.src \notin Reach(e.dst)
  /\ ForksJoin
  /\ \E root \in Nodes : {n \in Nodes : Into(n) = {}} = {root} /\ Reach(root) = Nodes

-----------------------------------------------------------------------------
(* Routing. *)

Carries(e, outs) == outs[e.src] # "skipped" /\ (e.port = "finally" \/ outs[e.src] = e.port)

\* route: a node waits for all its predecessors and is skipped unless one of
\* its edges carries its predecessor's outcome.
RouteAny(n, outs) ==
  IF Into(n) = {} THEN "ready"
  ELSE IF \A e \in Into(n) : outs[e.src] = "none" THEN "waiting"
  ELSE IF \E e \in Into(n) : outs[e.src] # "none" /\ Carries(e, outs) THEN "ready" ELSE "skipped"

Route(n, outs) ==
  IF Into(n) = {} THEN "ready"
  ELSE IF \E e \in Into(n) : outs[e.src] = "none" THEN "waiting"
  ELSE IF \E e \in Into(n) : Carries(e, outs) THEN "ready" ELSE "skipped"

\* The first pending node, in the order of the graph, that does not wait.
Candidates(c) == {n \in exec[c].todo : Route(n, exec[c].outs) # "waiting"}
Next1(c, n) == n \in Candidates(c) /\ \A k \in Candidates(c) : n <= k

\* What a control node puts out: a condition looks at the one outcome that
\* reached it (it is refused when none did).
Transition(n, outs) ==
  IF graph.kind[n] # "condition" THEN "success"
  ELSE LET prior == {outs[e.src] : e \in {x \in Into(n) : Carries(x, outs)}}
       IN IF prior = {} THEN "none" ELSE IF "failure" \in prior THEN "true" ELSE "false"

Immediate == {"condition", "parallel", "join", "group", "finally", "continue"}
Handled(n, residual) == residual = 0 /\ \E e \in From(n) : e.port \in {"failure", "finally"}

-----------------------------------------------------------------------------
(* The state. *)

Idle == [at |-> "idle", q |-> 0, node |-> 0, slot |-> 0, todo |-> {},
         outs |-> [n \in Nodes |-> "none"], end |-> "none", left |-> 0, subject |-> "none"]

Init ==
  /\ graph \in Graphs /\ plan = "none"
  /\ run = [state |-> "absent", left |-> 0]
  /\ att = [n \in Nodes |-> [state |-> "pending", out |-> "none", skip |-> FALSE, subject |-> "none"]]
  /\ waits = [n \in Nodes |-> [phase |-> "none", by |-> 0]]
  /\ outbox = <<>> /\ anchors = <<>> /\ outcomes = <<>>
  /\ idem = [q \in Admits \cup 1..MaxReviews |-> "none"]
  /\ exec = [c \in Calls |-> Idle] /\ busy = {}
  /\ reviews = 0 /\ sends = [q \in Admits \cup 1..MaxReviews |-> 0]
  /\ restarts = 0 /\ up = TRUE /\ replayed = FALSE

Free == busy = {} /\ up
Runs(c, at) == busy = {c} /\ exec[c].at = at
Awaits(c, at) == Free /\ exec[c].at = at
Set(c, r) == exec' = [exec EXCEPT ![c] = r]
Go(c, at) == Set(c, [exec[c] EXCEPT !.at = at])
\* The call returns or throws: what it held in memory is gone.
LeaveHolding(c) == Set(c, Idle) /\ UNCHANGED busy
Leave(c) == Set(c, Idle) /\ busy' = {}

SaveVersion == Free /\ plan = "none" /\ Valid /\ plan' = "saved" /\ UNCHANGED <<graph, tables, exec, busy, history>>
Compile == Free /\ plan = "saved" /\ plan' = "compiled" /\ UNCHANGED <<graph, tables, exec, busy, history>>

-----------------------------------------------------------------------------
(* admitRun. *)

Sent(q) == sends[q] < MaxSends /\ sends' = [sends EXCEPT ![q] = @ + 1]

AdmitRun(c, q) ==
  /\ Awaits(c, "idle") /\ plan = "compiled" /\ Sent(q)
  /\ Set(c, [Idle EXCEPT !.at = "resolving", !.q = q])
  /\ UNCHANGED <<graph, plan, tables, busy, reviews, restarts, up, replayed>>

\* refuseAuthority: stored unless the request has an answer already.
RefuseAuthority(c) ==
  /\ \/ Awaits(c, "resolving")
     \/ Awaits(c, "authorizing")
  /\ idem' = [idem EXCEPT ![exec[c].q] = IF @ = "none" THEN "refused" ELSE @]
  /\ Leave(c)
  /\ UNCHANGED <<graph, plan, run, att, waits, outbox, anchors, outcomes, history>>

\* resolveAdmission resolves; mode, bindings and agent admission come next.
Resolved(c) == Awaits(c, "resolving") /\ Go(c, "authorizing") /\ UNCHANGED <<graph, plan, tables, busy, history>>

\* executeRun, from the rows: the outcomes so far and the pending nodes.
Loaded(q, rows) ==
  [Idle EXCEPT !.at = "loop", !.q = q,
     !.todo = {n \in Nodes : rows[n].state = "pending"},
     !.outs = [n \in Nodes |-> IF rows[n].skip THEN "skipped"
                               ELSE IF rows[n].state \in {"succeeded", "failed"} THEN rows[n].out ELSE "none"]]
\* schedulerOutput throws at a failed row without an outcome.
Loadable(rows) == \A n \in Nodes : rows[n].state = "failed" => rows[n].out # "none"

\* The transaction: a request without an answer creates the run, one whose
\* stored answer still says 'admitted' executes the run once more.
CreateControlRun(c) ==
  /\ Awaits(c, "authorizing") /\ idem[exec[c].q] = "none" /\ run.state = "absent"
  /\ run' = [run EXCEPT !.state = "admitted"]
  /\ idem' = [idem EXCEPT ![exec[c].q] = "open"]
  /\ Set(c, Loaded(exec[c].q, att)) /\ busy' = {c}
  /\ UNCHANGED <<graph, plan, att, waits, outbox, anchors, outcomes, history>>

AdmitAgain(c) ==
  /\ Awaits(c, "authorizing")
  /\ idem[exec[c].q] # "none" \/ run.state # "absent"
  /\ IF idem[exec[c].q] = "open" /\ Loadable(att)
     THEN Set(c, Loaded(exec[c].q, att)) /\ busy' = {c} ELSE Leave(c)
  /\ replayed' = (replayed \/ idem[exec[c].q] = "open")
  /\ UNCHANGED <<graph, plan, tables, reviews, sends, restarts, up>>

-----------------------------------------------------------------------------
(* executeRun. *)

Skip(c, n) ==
  /\ Runs(c, "loop") /\ Next1(c, n) /\ Route(n, exec[c].outs) = "skipped"
  /\ att' = IF att[n].state = "pending"
            THEN [att EXCEPT ![n].state = "cancelled", ![n].skip = TRUE] ELSE att
  /\ Set(c, [exec[c] EXCEPT !.todo = @ \ {n}, !.outs[n] = "skipped"])
  /\ UNCHANGED <<graph, plan, run, waits, outbox, anchors, outcomes, idem, busy, history>>

Receipt(n) == waits[n].phase = "approved"
Pauses(n) == graph.kind[n] = "continue" /\ ~Receipt(n)

PauseForContinuation(c, n) ==
  /\ Runs(c, "loop") /\ Next1(c, n) /\ Route(n, exec[c].outs) = "ready" /\ Pauses(n)
  /\ att' = IF att[n].state = "pending" THEN [att EXCEPT ![n].state = "ready"] ELSE att
  /\ run' = [run EXCEPT !.state = "stopping"]
  /\ waits' = IF waits[n].phase = "none" THEN [waits EXCEPT ![n].phase = "waiting"] ELSE waits
  /\ Set(c, [exec[c] EXCEPT !.at = "answer", !.end = "waiting"])
  /\ UNCHANGED <<graph, plan, outbox, anchors, outcomes, idem, busy, history>>

Row(n) == [node |-> n, phase |-> "claimed", work |-> "none"]

\* The node is marked running and its outbox row claimed, in one transaction;
\* a control or a continuation is executed before the thread is given up.
Dispatch(c, n) ==
  /\ Runs(c, "loop") /\ Next1(c, n) /\ Route(n, exec[c].outs) = "ready" /\ ~Pauses(n)
  /\ run' = IF run.state \in {"admitted", "running"} THEN [run EXCEPT !.state = "running"] ELSE run
  /\ att' = IF att[n].state = "pending" THEN [att EXCEPT ![n].state = "running"] ELSE att
  /\ outbox' = Append(outbox, Row(n))
  /\ Set(c, [exec[c] EXCEPT !.at = "working", !.node = n, !.slot = Len(outbox) + 1])
  /\ busy' = IF graph.kind[n] \in Immediate THEN {c} ELSE {}
  /\ UNCHANGED <<graph, plan, waits, anchors, outcomes, idem, history>>

Stuck(c) ==
  /\ Runs(c, "loop") /\ exec[c].todo # {} /\ Candidates(c) = {}
  /\ Set(c, [exec[c] EXCEPT !.at = "finish", !.end = "failed"])
  /\ UNCHANGED <<graph, plan, tables, busy, history>>

\* The result of a node ("none": it was refused) is committed with its row; a
\* failure an edge handles is an outcome, any other ends the run.
Result(c, out, left, subject, work) ==
  LET n == exec[c].node
      handled == out = "none" /\ Handled(n, left)
      shown == IF handled THEN "failure" ELSE out IN
  /\ outbox' = [outbox EXCEPT ![exec[c].slot].work = work,
                               ![exec[c].slot].phase = IF @ = "claimed" THEN "completed" ELSE @]
  /\ att' = IF att[n].state = "running"
            THEN [att EXCEPT ![n] = [state |-> IF out = "none" THEN "failed" ELSE "succeeded",
                                     out |-> shown, skip |-> FALSE, subject |-> subject]] ELSE att
  /\ Set(c, IF shown = "none"
            THEN [exec[c] EXCEPT !.at = "finish", !.end = "failed", !.left = left]
            ELSE [exec[c] EXCEPT !.at = "loop", !.todo = @ \ {n}, !.outs[n] = shown])
  /\ busy' = {c}
  /\ UNCHANGED <<graph, plan, run, waits, anchors, outcomes, idem, history>>

ExecuteControl(c) ==
  /\ Runs(c, "working") /\ graph.kind[exec[c].node] \in Immediate
  /\ Result(c, Transition(exec[c].node, exec[c].outs), 0, "none", "none")

ExecuteSpecificationApproval(c) ==
  /\ Awaits(c, "working") /\ graph.kind[exec[c].node] = "spec"
  /\ \E out \in {"success", "none"} : Result(c, out, 0, "none", "none")

\* The owner's answer, or the deadline and what its cancellation left.
ExecuteExternalNode(c) ==
  /\ Awaits(c, "working") /\ graph.kind[exec[c].node] \in {"check", "tool"}
  /\ \/ \E s \in Subjects : Result(c, "success", 0, s, "none")
     \/ Result(c, "none", 0, "none", "none")
     \/ Result(c, "none", 1, "none", "live")

Live(c) == outbox[exec[c].slot].work = "live"
AgentStarts(c) ==
  /\ Awaits(c, "working") /\ graph.kind[exec[c].node] = "agent"
  /\ \/ Result(c, "none", 0, "none", "none")
     \/ /\ outbox' = [outbox EXCEPT ![exec[c].slot].work = "live"]
        /\ Go(c, "watching")
        /\ UNCHANGED <<graph, plan, run, att, waits, anchors, outcomes, idem, busy, history>>

\* An attempt ends in the agent registry: cleaned with success, cleaned
\* otherwise, or with a process nobody could prove gone.
AgentEnds(i) ==
  /\ Free /\ outbox[i].work = "live" /\ outbox[i].node # 0 /\ graph.kind[outbox[i].node] = "agent"
  /\ \E w \in {"ok", "failed", "residual"} : outbox' = [outbox EXCEPT ![i].work = w]
  /\ UNCHANGED <<graph, plan, run, att, waits, anchors, outcomes, idem, exec, busy, history>>

AgentSeen(c) ==
  /\ Awaits(c, "watching") /\ ~Live(c)
  /\ LET w == outbox[exec[c].slot].work IN
     Result(c, IF w = "ok" THEN "success" ELSE "none", IF w = "residual" THEN 1 ELSE 0, "none", w)

Overdue(c) == Awaits(c, "watching") /\ Live(c) /\ Go(c, "cancelling") /\ UNCHANGED <<graph, plan, tables, busy, history>>

\* Cancelled or terminal at last: late, so refused whatever it achieved.
\* Two cancellations that end nothing leave a residual process.
CancelAttempt(c) ==
  /\ Awaits(c, "cancelling")
  /\ IF Live(c) THEN \/ Result(c, "none", 0, "none", "failed")
                     \/ Result(c, "none", 1, "none", "live")
     ELSE LET w == outbox[exec[c].slot].work IN
          Result(c, "none", IF w = "residual" THEN 1 ELSE 0, "none", w)

LoopEnds(c) ==
  /\ Runs(c, "loop") /\ exec[c].todo = {}
  /\ IF Checks = {} THEN Set(c, [exec[c] EXCEPT !.at = "finish", !.end = "completed"])
     ELSE Go(c, "spine")
  /\ UNCHANGED <<graph, plan, tables, busy, history>>

-----------------------------------------------------------------------------
(* executeTrustSpine. *)

Attested == {n \in Checks : att[n].state = "succeeded" /\ att[n].subject # "none"}
CheckedAny == Attested # {}
Checked == Attested = Checks /\ Cardinality({att[n].subject : n \in Attested}) = 1

StartSpine(c) ==
  /\ Runs(c, "spine")
  /\ \/ Checked /\ Set(c, [exec[c] EXCEPT !.at = "anchor", !.node = 1])
     \/ Set(c, [exec[c] EXCEPT !.at = "finish", !.end = "failed"])
  /\ UNCHANGED <<graph, plan, tables, busy, history>>

\* An anchor's row is unique in its run: a second execution throws at it.
AnchorThrows(c) ==
  /\ Runs(c, "anchor") /\ exec[c].node <= Len(anchors)
  /\ Leave(c) /\ UNCHANGED <<graph, plan, tables, history>>

NextAnchor(c, owner) ==
  /\ Runs(c, "anchor") /\ exec[c].node = Len(anchors) + 1
  /\ exec[c].node <= Len(Owners) /\ Owners[exec[c].node] = owner

WorkflowAnchor(c) ==
  /\ NextAnchor(c, "workflow")
  /\ anchors' = Append(anchors, "succeeded")
  /\ Set(c, [exec[c] EXCEPT !.node = @ + 1])
  /\ UNCHANGED <<graph, plan, run, att, waits, outbox, outcomes, idem, busy, history>>

ExternalAnchor(c) ==
  /\ NextAnchor(c, "external")
  /\ anchors' = Append(anchors, "running")
  /\ outbox' = Append(outbox, Row(0))
  /\ Set(c, [exec[c] EXCEPT !.at = "anchoring", !.slot = Len(outbox) + 1]) /\ busy' = {}
  /\ UNCHANGED <<graph, plan, run, att, waits, outcomes, idem, history>>

\* The authority's answer, or its deadline and what the cancellation left.
AnchorEnds(c) ==
  /\ Awaits(c, "anchoring")
  /\ \E ok \in BOOLEAN, left \in 0..1 :
       /\ ok => left = 0
       /\ anchors' = IF anchors[exec[c].node] = "running"
                     THEN [anchors EXCEPT ![exec[c].node] = IF ok THEN "succeeded" ELSE "failed"] ELSE anchors
       /\ outbox' = [outbox EXCEPT ![exec[c].slot].phase = "completed"]
       /\ Set(c, IF ok THEN [exec[c] EXCEPT !.at = "anchor", !.node = @ + 1]
                 ELSE [exec[c] EXCEPT !.at = "finish", !.end = "failed", !.left = left])
  /\ busy' = {c}
  /\ UNCHANGED <<graph, plan, run, att, waits, outcomes, idem, history>>

SpineEnds(c) ==
  /\ Runs(c, "anchor") /\ exec[c].node = Len(Owners) + 1 /\ Len(anchors) < exec[c].node
  /\ Set(c, [exec[c] EXCEPT !.at = "finish", !.end = "completed"])
  /\ UNCHANGED <<graph, plan, tables, busy, history>>

-----------------------------------------------------------------------------
(* finishControlRun, and the answer stored afterwards. *)

FinishControlRun(c) ==
  /\ Runs(c, "finish")
  /\ att' = IF exec[c].end # "failed" THEN att
            ELSE [n \in Nodes |-> IF att[n].state = "pending" THEN [att[n] EXCEPT !.state = "cancelled"] ELSE att[n]]
  /\ run' = [state |-> exec[c].end, left |-> exec[c].left]
  /\ outcomes' = Append(outcomes, exec[c].end)
  /\ Go(c, "answer")
  /\ UNCHANGED <<graph, plan, waits, outbox, anchors, idem, busy, history>>

Answer(c) ==
  /\ Runs(c, "answer")
  /\ idem' = [idem EXCEPT ![exec[c].q] = exec[c].end] /\ Leave(c)
  /\ UNCHANGED <<graph, plan, run, att, waits, outbox, anchors, outcomes, history>>

-----------------------------------------------------------------------------
(* The continuation of a paused run. *)

Reviewable(n) == waits[n].phase \in {"waiting", "reviewed"} /\ run.state = "stopping" /\ att[n].state = "ready"

\* Each review replaces the challenge before it.
BeginContinuationReview(n) ==
  /\ Free /\ reviews < MaxReviews /\ Reviewable(n)
  /\ reviews' = reviews + 1
  /\ waits' = [waits EXCEPT ![n] = [phase |-> "reviewed", by |-> reviews + 1]]
  /\ UNCHANGED <<graph, plan, run, att, outbox, anchors, outcomes, idem, exec, busy, sends, restarts, up, replayed>>

\* The challenge the session presents is that of the latest review.
PresentsAny(k, n) == waits[n].phase = "reviewed" /\ Reviewable(n) /\ k <= reviews
Presents(k, n) == waits[n].phase = "reviewed" /\ waits[n].by = k /\ Reviewable(n)

\* Refused as well when the challenge has expired.
ContinueRun(c, k) ==
  /\ Awaits(c, "idle") /\ k <= reviews /\ Sent(k)
  /\ \/ /\ idem[k] = "none"
        /\ \E n \in Nodes :
             /\ Presents(k, n)
             /\ waits' = [waits EXCEPT ![n].phase = "approved", ![n].by = k]
             /\ att' = [att EXCEPT ![n].state = "pending"]
             /\ Set(c, Loaded(k, [att EXCEPT ![n].state = "pending"]))
        /\ run' = [run EXCEPT !.state = "running"]
        /\ idem' = [idem EXCEPT ![k] = "open"] /\ busy' = {c}
        /\ UNCHANGED replayed
     \/ /\ idem[k] = "none" /\ idem' = [idem EXCEPT ![k] = "refused"]
        /\ UNCHANGED <<run, att, waits, exec, busy, replayed>>
     \/ /\ idem[k] = "open" /\ replayed' = TRUE
        /\ IF Loadable(att) THEN Set(c, Loaded(k, att)) /\ busy' = {c} ELSE Leave(c)
        /\ UNCHANGED <<run, att, waits, idem>>
  /\ UNCHANGED <<graph, plan, outbox, anchors, outcomes, reviews, restarts, up>>

-----------------------------------------------------------------------------
(* A crash or stop, and onStart. *)

AnchorsValid ==
  /\ \A i \in 2..Len(anchors) : anchors[i - 1] = "succeeded"
  /\ run.state = "completed" /\ Checks # {} =>
       Len(anchors) = Len(Owners) /\ \A i \in 1..Len(anchors) : anchors[i] = "succeeded"

SchedulerRecordsValid ==
  /\ \A n \in Nodes :
       /\ waits[n].phase \in {"waiting", "reviewed"} => Reviewable(n)
       /\ att[n].skip => att[n].state = "cancelled"
       /\ att[n].subject # "none" => att[n].state = "succeeded"
  /\ AnchorsValid

ActiveAll == run.state \in {"admitted", "running", "stopping"}
Active ==
  \/ run.state \in {"admitted", "running"}
  \/ run.state = "stopping" /\ \A n \in Nodes : waits[n].phase \notin {"waiting", "reviewed"}

RecoverScheduler ==
  IF ~Active THEN UNCHANGED <<run, att, anchors, outbox, outcomes>>
  ELSE /\ run' = [run EXCEPT !.state = "quarantined"]
       /\ att' = [n \in Nodes |-> IF att[n].state \in {"pending", "ready", "running"}
                                  THEN [att[n] EXCEPT !.state = "quarantined"] ELSE att[n]]
       /\ anchors' = [i \in DOMAIN anchors |-> IF anchors[i] = "running" THEN "quarantined" ELSE anchors[i]]
       /\ outbox' = [i \in DOMAIN outbox |-> IF outbox[i].phase = "claimed"
                                             THEN [outbox[i] EXCEPT !.phase = "quarantined"] ELSE outbox[i]]
       /\ outcomes' = Append(outcomes, "quarantined")

\* Malformed records keep the registry from starting.
Restart ==
  /\ up /\ restarts < MaxRestarts /\ restarts' = restarts + 1
  /\ exec' = [c \in Calls |-> Idle] /\ busy' = {}
  /\ up' = SchedulerRecordsValid
  /\ IF up' THEN RecoverScheduler ELSE UNCHANGED <<run, att, anchors, outbox, outcomes>>
  /\ UNCHANGED <<graph, plan, waits, idem, reviews, sends, replayed>>

CallStep(c) ==
  \/ \E q \in Admits : AdmitRun(c, q)
  \/ RefuseAuthority(c) \/ Resolved(c) \/ CreateControlRun(c) \/ AdmitAgain(c)
  \/ \E n \in Nodes : Skip(c, n) \/ PauseForContinuation(c, n) \/ Dispatch(c, n)
  \/ Stuck(c) \/ ExecuteControl(c) \/ ExecuteSpecificationApproval(c) \/ ExecuteExternalNode(c)
  \/ AgentStarts(c) \/ AgentSeen(c) \/ Overdue(c) \/ CancelAttempt(c) \/ LoopEnds(c)
  \/ StartSpine(c) \/ AnchorThrows(c) \/ WorkflowAnchor(c) \/ ExternalAnchor(c) \/ AnchorEnds(c) \/ SpineEnds(c)
  \/ FinishControlRun(c) \/ Answer(c)
  \/ \E k \in 1..MaxReviews : ContinueRun(c, k)

Next ==
  \/ SaveVersion \/ Compile
  \/ \E c \in Calls : CallStep(c)
  \/ \E i \in DOMAIN outbox : AgentEnds(i)
  \/ \E n \in Nodes : BeginContinuationReview(n)
  \/ Restart

Spec == Init /\ [][Next]_vars

-----------------------------------------------------------------------------
(* Properties. *)

\* The tables and the calls in memory have their types; the thread is held by
\* a call that has something to do with it, and a call that works on a node
\* has its outbox row.
TypeOK ==
  /\ plan \in {"none", "saved", "compiled"}
  /\ run \in [state : {"absent", "admitted", "running", "stopping", "completed", "failed", "quarantined"}, left : 0..1]
  /\ att \in [Nodes -> [state : {"pending", "ready", "running", "succeeded", "failed", "cancelled", "quarantined"},
                        out : Ports \cup {"none"}, skip : BOOLEAN, subject : Subjects \cup {"none"}]]
  /\ waits \in [Nodes -> [phase : {"none", "waiting", "reviewed", "approved"}, by : 0..MaxReviews]]
  /\ idem \in [Admits \cup 1..MaxReviews -> {"none", "open", "refused", "waiting", "completed", "failed"}]
  /\ busy \in SUBSET Calls /\ Cardinality(busy) <= 1
  /\ \A c \in Calls :
       /\ exec[c].todo \subseteq Nodes
       /\ exec[c].at \in {"working", "watching", "cancelling", "anchoring"} => exec[c].slot \in DOMAIN outbox
       /\ c \in busy => exec[c].at \in {"loop", "working", "spine", "anchor", "finish", "answer"}

\* A node is dispatched only when all its predecessors have an outcome in their
\* rows, and one of them an outcome its edge carries, also when the run was
\* resumed from its rows after a continuation and a restart.
PredecessorsFirst ==
  ~replayed => \A i \in DOMAIN outbox :
    LET n == outbox[i].node IN
    n # 0 /\ Into(n) # {} =>
      /\ \A e \in Into(n) : att[e.src].state \in {"succeeded", "failed"} \/ att[e.src].skip
      /\ \E e \in Into(n) : ~att[e.src].skip /\ (e.port = "finally" \/ att[e.src].out = e.port)

\* A continuation is executed only under an approval, and the approval is of
\* the latest review: whoever reviewed last sees what is continued.
ContinuedAsReviewed ==
  /\ [](\A i \in DOMAIN outbox :
         outbox[i].node # 0 /\ graph.kind[outbox[i].node] = "continue" => Receipt(outbox[i].node))
  /\ [][\A n \in Nodes : waits[n].phase # "approved" /\ waits'[n].phase = "approved" => waits'[n].by = waits[n].by]_vars

\* A completed run with checks has all its checks succeeded on one repository
\* state and all its anchors succeeded, however often it was executed.
CompletedIsAttested ==
  run.state = "completed" /\ Checks # {} =>
    /\ \A n \in Checks : att[n].state = "succeeded"
    /\ \E s \in Subjects : \A n \in Checks : att[n].subject = s
    /\ Len(anchors) = Len(Owners) /\ \A i \in DOMAIN anchors : anchors[i] = "succeeded"

\* Unless a request was executed again, a run has one outcome, its nodes are
\* dispatched once, the records are such that a restart accepts them, and a
\* settled run without a residual process has no work going on.
OneOutcome ==
  ~replayed =>
    /\ Len(outcomes) <= 1 /\ up /\ SchedulerRecordsValid
    /\ \A i, j \in DOMAIN outbox : i # j /\ outbox[i].node # 0 => outbox[i].node # outbox[j].node
    /\ run.state \in {"completed", "failed"} /\ run.left = 0 =>
         \A i \in DOMAIN outbox : outbox[i].work \notin {"live", "residual"} /\ outbox[i].phase = "completed"

\* An unknown outcome is never replayed: a quarantined run stays quarantined.
UnknownOutcomeStays == [][run.state = "quarantined" => run'.state = "quarantined"]_vars
=============================================================================
