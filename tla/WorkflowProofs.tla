--------------------------- MODULE WorkflowProofs ---------------------------
(***************************************************************************)
(* Theorems about the workflow registry, for any calls, requests, graphs,  *)
(* trust spines and bounds.  A call executes the run alone unless a        *)
(* request was executed again (Sole), what it holds in memory agrees with  *)
(* the rows (WorkAgrees), and rows that are settled never change.          *)
(***************************************************************************)
EXTENDS WorkflowScheduler, FiniteSetTheorems, TLAPS

\* What the graphs refer to, and the bounds.
WorkflowBounds ==
  /\ \A g \in Graphs :
       /\ DOMAIN g.kind \subseteq Nat \ {0} /\ IsFiniteSet(DOMAIN g.kind)
       /\ \A e \in g.edges : e.src \in DOMAIN g.kind /\ e.dst \in DOMAIN g.kind
  /\ MaxReviews \in Nat /\ Owners \in Seq({"workflow", "external"})

Keys == Admits \cup 1..MaxReviews
AtNode == {"working", "watching", "cancelling"}
AtSlot == AtNode \cup {"anchoring"}
Holding == {"loop", "spine", "anchor", "finish", "answer"}
Executing == Holding \cup AtSlot

CallRows == [at : Executing \cup {"idle", "resolving", "authorizing"}, q : Keys \cup {0}, node : Nat, slot : Nat,
             todo : SUBSET Nodes, outs : [Nodes -> Ports \cup {"none", "skipped"}],
             end : {"none", "waiting", "completed", "failed"}, left : 0..1, subject : {"none"}]
BoxRows == [node : Nodes \cup {0}, phase : {"claimed", "completed", "quarantined"},
            work : {"none", "live", "ok", "failed", "residual"}]
Settled == {"succeeded", "failed", "cancelled", "quarantined"}
NodeRows == [state : Settled \cup {"pending", "ready", "running"}, out : Ports \cup {"none"}, skip : BOOLEAN,
             subject : Subjects \cup {"none"}]

Drawn ==
  /\ Nodes \subseteq Nat \ {0} /\ IsFiniteSet(Nodes)
  /\ \A e \in graph.edges : e.src \in Nodes /\ e.dst \in Nodes

Typed ==
  /\ Drawn /\ plan \in {"none", "saved", "compiled"}
  /\ run \in [state : {"absent", "admitted", "running", "stopping", "completed", "failed", "quarantined"}, left : 0..1]
  /\ att \in [Nodes -> NodeRows]
  /\ waits \in [Nodes -> [phase : {"none", "waiting", "reviewed", "approved"}, by : 0..MaxReviews]]
  /\ idem \in [Keys -> {"none", "open", "refused", "waiting", "completed", "failed"}]
  /\ outbox \in Seq(BoxRows) /\ anchors \in Seq({"running", "succeeded", "failed", "quarantined"})
  /\ outcomes \in Seq({"completed", "failed", "quarantined"})
  /\ exec \in [Calls -> CallRows] /\ busy \subseteq Calls
  /\ reviews \in 0..MaxReviews /\ up \in BOOLEAN /\ replayed \in BOOLEAN

\* Where a call stands, who holds the thread, and what the call holds.
Held(c) ==
  LET x == exec[c] IN
  /\ x.at \in Holding => busy = {c}
  /\ c \in busy => busy = {c} /\ x.at \in Holding \cup {"working"}
  /\ x.at \in AtSlot => x.slot \in DOMAIN outbox
  /\ x.at \in AtNode => x.node \in Nodes /\ outbox[x.slot].node = x.node
  /\ x.at = "anchoring" => outbox[x.slot].node = 0
  /\ x.at = "finish" => x.end \in {"completed", "failed"}
  /\ x.at = "answer" => x.end # "none"
  /\ x.at # "idle" => x.q \in Keys
  /\ x.at \notin {"finish", "answer"} => x.left = 0

\* The rows by themselves.
RowsAgree ==
  /\ \A n \in Nodes : /\ att[n].skip => att[n].state = "cancelled"
                      /\ att[n].subject # "none" => att[n].state = "succeeded"
  /\ \A i \in DOMAIN outbox : outbox[i].node = 0 => outbox[i].work = "none"
  /\ \A i \in 2..Len(anchors) : anchors[i - 1] = "succeeded"
  /\ Len(anchors) <= Len(Owners)

AllChecked == Checks # {} /\ \E s \in Subjects : \A n \in Checks : att[n].state = "succeeded" /\ att[n].subject = s
AllAnchored == Len(anchors) = Len(Owners) /\ \A i \in DOMAIN anchors : anchors[i] = "succeeded"

\* Where a call stands in the trust spine, whoever else executes the run.
SpineAgrees(c) ==
  LET x == exec[c] IN
  /\ x.at = "spine" => Checks # {}
  /\ x.at \in {"anchor", "anchoring"} =>
       AllChecked /\ x.node \in 1..Len(anchors) + 1 /\ \A i \in 1..x.node - 1 : anchors[i] = "succeeded"
  /\ x.at = "anchoring" => x.node = Len(anchors) /\ anchors[x.node] = "running"
  /\ x.at = "finish" /\ x.end = "completed" /\ Checks # {} => AllChecked /\ AllAnchored

Spines ==
  /\ \A c \in Calls : SpineAgrees(c)
  /\ \A c, d \in Calls : exec[c].at = "anchoring" /\ exec[d].at = "anchoring" => c = d
  /\ run.state = "completed" /\ Checks # {} => AllChecked /\ AllAnchored

\* What a call that executes the run alone holds in memory.
WorkAgrees(c) ==
  LET x == exec[c] IN
  x.at \in Executing \ {"answer"} =>
    /\ x.at = "loop" => \A n \in x.todo : att[n].state = "pending"
    /\ x.at \in AtNode => \A n \in x.todo \ {x.node} : att[n].state = "pending"
    /\ x.at \in AtNode => att[x.node].state = "running"
    /\ x.at \in AtSlot => outbox[x.slot].phase = "claimed"
    /\ \A n \in Nodes :
         /\ x.outs[n] = "skipped" => att[n].skip
         /\ x.outs[n] \in Ports => att[n].state \in {"succeeded", "failed"} /\ att[n].out = x.outs[n]

\* Work that is not done, and who answers for it.
Loose(i) == outbox[i].work \in {"live", "residual"} \/ outbox[i].phase # "completed"
Covered(i) ==
  \/ \E c \in Calls : exec[c].at \in AtSlot /\ exec[c].slot = i
  \/ \E c \in Calls : exec[c].at = "finish" /\ exec[c].left = 1
  \/ run.state \in {"completed", "failed"} /\ run.left = 1
  \/ run.state = "quarantined"

Alone ==
  /\ \A c, d \in Calls : exec[c].at \in Executing /\ exec[d].at \in Executing => c = d
  /\ \A c \in Calls : /\ exec[c].at \in Executing \ {"answer"} => run.state \in {"admitted", "running"}
                      /\ exec[c].at = "answer" => run.state \in {"stopping", "completed", "failed"}
                      /\ WorkAgrees(c)

\* The rows of a run that was executed by one call at a time.
RunAgrees ==
  /\ up /\ Len(outcomes) <= 1
  /\ run.state \notin {"completed", "failed", "quarantined"} => outcomes = <<>>
  /\ \A n \in Nodes : waits[n].phase \in {"waiting", "reviewed"} => run.state = "stopping" /\ att[n].state = "ready"
  /\ \A n, m \in Nodes : waits[n].phase \in {"waiting", "reviewed"} /\ waits[m].phase \in {"waiting", "reviewed"} => n = m

BoxAgrees ==
  /\ \A i \in DOMAIN outbox : outbox[i].node # 0 => att[outbox[i].node].state \in {"running", "succeeded", "failed", "quarantined"}
  /\ \A i, j \in DOMAIN outbox : i # j /\ outbox[i].node # 0 => outbox[i].node # outbox[j].node
  /\ \A i \in DOMAIN outbox : Loose(i) => Covered(i)

Sole == ~replayed => Alone /\ RunAgrees /\ BoxAgrees /\ PredecessorsFirst

\* A continuation is dispatched only when it was approved.
Approved == \A i \in DOMAIN outbox :
  outbox[i].node # 0 /\ graph.kind[outbox[i].node] = "continue" => Receipt(outbox[i].node)

IInv == Typed /\ (\A c \in Calls : Held(c)) /\ RowsAgree /\ Spines /\ Sole /\ Approved

------------------------------------------------------------------------------
(* Steps of one call, and what they leave alone *)

\* What is settled stays, and so does a node that runs.
RowsStay == \A n \in Nodes : att[n].state \in Settled => att'[n] = att[n]
RunningStay == \A n \in Nodes : att[n].state = "running" => att'[n] = att[n]

\* Rows of the outbox keep their nodes.
BoxStays ==
  /\ DOMAIN outbox \subseteq DOMAIN outbox'
  /\ \A i \in DOMAIN outbox : outbox'[i].node = outbox[i].node

\* One call moves, with the thread free or its own.
Moves(c) ==
  /\ graph' = graph /\ exec' \in [Calls -> CallRows]
  /\ \A d \in Calls \ {c} : exec'[d] = exec[d]
  /\ busy \in {{}, {c}} /\ busy' \in {{}, {c}}

LEMMA Puts ==
  ASSUME Typed, NEW c \in Calls, NEW r, Set(c, r)
  PROVE  /\ exec'[c] = r /\ \A d \in Calls \ {c} : exec'[d] = exec[d]
         /\ r \in CallRows => exec' \in [Calls -> CallRows]
  BY DEF Typed, Set

LEMMA SameGraph ==
  ASSUME graph' = graph
  PROVE  /\ Nodes' = Nodes /\ Checks' = Checks /\ CallRows' = CallRows /\ BoxRows' = BoxRows
         /\ (Drawn => Drawn') /\ \A n : Into(n)' = Into(n)
  BY DEF Nodes, Checks, CallRows, BoxRows, Drawn, Into

LEMMA HeldByOthers ==
  ASSUME Typed, NEW c \in Calls, Moves(c), BoxStays, NEW d \in Calls \ {c}, Held(d)
  PROVE  Held(d)'
<1>1. exec'[d] = exec[d] /\ Nodes' = Nodes
  BY SameGraph DEF Moves
<1>2. exec[d].at \notin Holding /\ d \notin busy'
  BY DEF Held, Moves
<1>3. exec[d].at \in AtSlot => /\ exec[d].slot \in DOMAIN outbox /\ exec[d].slot \in DOMAIN outbox'
                              /\ outbox'[exec[d].slot].node = outbox[exec[d].slot].node
  BY DEF Held, BoxStays
<1> QED
  BY <1>1, <1>2, <1>3 DEF Held, AtSlot, AtNode

LEMMA CheckedStays ==
  ASSUME graph' = graph, RowsStay, AllChecked
  PROVE  AllChecked'
  BY SameGraph DEF AllChecked, RowsStay, Settled, Checks

\* The spine is as it was when no anchor changes.
LEMMA SpinesStay ==
  ASSUME Spines, NEW c \in Calls, Moves(c), RowsStay, anchors' = anchors, SpineAgrees(c)',
         exec'[c].at = "anchoring" => exec[c].at = "anchoring",
         run'.state = "completed" /\ run.state # "completed" /\ Checks # {} => AllChecked /\ AllAnchored
  PROVE  Spines'
<1>1. Checks' = Checks /\ (AllAnchored' <=> AllAnchored) /\ (AllChecked => AllChecked')
  BY SameGraph, CheckedStays DEF Moves, AllAnchored
<1>2. \A d \in Calls \ {c} : SpineAgrees(d)'
  BY <1>1 DEF Spines, SpineAgrees, Moves
<1>3. \A d, f \in Calls : exec'[d].at = "anchoring" /\ exec'[f].at = "anchoring" => d = f
  BY DEF Spines, Moves
<1>4. (run.state = "completed" /\ Checks # {} => AllChecked /\ AllAnchored)'
  BY <1>1 DEF Spines
<1> QED
  BY <1>2, <1>3, <1>4 DEF Spines

\* The predecessors of a node have their outcomes in the rows.
Preceded(n) ==
  Into(n) # {} =>
    /\ \A e \in Into(n) : att[e.src].state \in {"succeeded", "failed"} \/ att[e.src].skip
    /\ \E e \in Into(n) : ~att[e.src].skip /\ (e.port = "finally" \/ att[e.src].out = e.port)

LEMMA PrecededAll ==
  /\ PredecessorsFirst <=> (~replayed => \A i \in DOMAIN outbox : outbox[i].node # 0 => Preceded(outbox[i].node))
  /\ PredecessorsFirst' <=> (~replayed' => \A i \in DOMAIN outbox' : outbox'[i].node # 0 => Preceded(outbox[i].node)')
  BY DEF PredecessorsFirst, Preceded

LEMMA PrecededStays ==
  ASSUME Typed, RowsAgree, graph' = graph, RowsStay, NEW n, Preceded(n)
  PROVE  Preceded(n)'
<1>1. \A e \in Into(n) : e.src \in Nodes
  BY DEF Into, Typed, Drawn
<1>2. \A e \in Into(n) : att[e.src].state \in {"succeeded", "failed"} \/ att[e.src].skip => att'[e.src] = att[e.src]
  BY <1>1 DEF RowsAgree, RowsStay, Settled
<1>3. Into(n)' = Into(n)
  BY SameGraph
<1> QED
  BY <1>2, <1>3 DEF Preceded

LEMMA PredecessorsStay ==
  ASSUME Typed, RowsAgree, graph' = graph, RowsStay, PredecessorsFirst, ~replayed,
         \A i \in DOMAIN outbox' : (i \in DOMAIN outbox /\ outbox'[i].node = outbox[i].node)
                                   \/ (outbox[i].node # 0 => Preceded(outbox[i].node))'
  PROVE  PredecessorsFirst'
<1>1. \A i \in DOMAIN outbox' : outbox'[i].node # 0 => Preceded(outbox[i].node)'
  BY PrecededAll, PrecededStays
<1> QED
  BY <1>1, PrecededAll

\* Only one call executes: the others are where they were.
LEMMA AloneStays ==
  ASSUME Alone, NEW c \in Calls, Moves(c), exec[c].at \in Executing,
         exec'[c].at \in Executing \ {"answer"} => run'.state \in {"admitted", "running"},
         exec'[c].at = "answer" => run'.state \in {"stopping", "completed", "failed"},
         WorkAgrees(c)'
  PROVE  Alone' /\ \A d \in Calls \ {c} : exec'[d].at \notin Executing
<1>1. \A d \in Calls \ {c} : exec[d].at \notin Executing /\ exec'[d] = exec[d]
  BY DEF Alone, Moves
<1>2. \A d \in Calls \ {c} : WorkAgrees(d)'
  BY <1>1 DEF WorkAgrees
<1> QED
  BY <1>1, <1>2 DEF Alone, Executing, Holding

\* Every node of the outbox that is new was approved if it had to be.
LEMMA ApprovedStays ==
  ASSUME Typed, Approved, graph' = graph, \A n \in Nodes : Receipt(n) => Receipt(n)',
         \A i \in DOMAIN outbox' : (i \in DOMAIN outbox /\ outbox'[i].node = outbox[i].node)
             \/ (outbox[i].node # 0 /\ graph.kind[outbox[i].node] = "continue" => Receipt(outbox[i].node))'
  PROVE  Approved'
<1>1. \A i \in DOMAIN outbox : outbox[i].node \in Nodes \cup {0}
  <2>1. \A i \in DOMAIN outbox : outbox[i] \in BoxRows
    BY DEF Typed
  <2> QED
    BY <2>1 DEF BoxRows
<1>2. ASSUME NEW i \in DOMAIN outbox', i \in DOMAIN outbox, outbox'[i].node = outbox[i].node,
             outbox'[i].node # 0, graph'.kind[outbox'[i].node] = "continue"
      PROVE  Receipt(outbox[i].node)'
  <2>1. PICK n \in Nodes : n = outbox[i].node
    BY <1>1, <1>2
  <2>2. Receipt(n)
    BY <1>2, <2>1 DEF Approved
  <2>3. Receipt(n)'
    BY <2>2
  <2>4. n = outbox'[i].node
    BY <1>2, <2>1
  <2> QED
    BY <2>3, <2>4 DEF Receipt
<1>3. ASSUME NEW i \in DOMAIN outbox', outbox'[i].node # 0, graph'.kind[outbox'[i].node] = "continue"
      PROVE  Receipt(outbox[i].node)'
  BY <1>2, <1>3
<1> QED
  BY <1>3 DEF Approved

\* A step that only moves a call on, within its place or to where it answers for no node.
LEMMA ExecOnly ==
  ASSUME IInv, NEW c \in Calls, Moves(c), UNCHANGED <<run, att, waits, outbox, anchors, outcomes, reviews, up, replayed>>,
         idem' \in [Keys -> {"none", "open", "refused", "waiting", "completed", "failed"}],
         plan' \in {"none", "saved", "compiled"}, Held(c)', SpineAgrees(c)',
         exec'[c].at \in Executing =>
           /\ exec[c].at \in Executing \ {"answer"} /\ exec'[c].at \notin {"answer", "loop", "anchoring"}
           /\ exec'[c].outs = exec[c].outs
           /\ exec'[c].at \in AtNode => exec[c].at \in AtNode /\ exec'[c].node = exec[c].node /\ exec'[c].todo = exec[c].todo,
         exec[c].at \in AtSlot => exec'[c].at \in AtSlot /\ exec'[c].slot = exec[c].slot,
         exec'[c].at \in AtSlot => exec[c].at \in AtSlot /\ exec'[c].slot = exec[c].slot,
         exec[c].at # "finish"
  PROVE  IInv'
<1>0. graph' = graph /\ Nodes' = Nodes /\ CallRows' = CallRows /\ BoxRows' = BoxRows /\ Drawn'
  BY SameGraph DEF Moves, IInv, Typed
<1>1. Typed'
  BY <1>0 DEF IInv, Typed, Moves
<1>2. BoxStays /\ RowsStay
  BY DEF BoxStays, RowsStay
<1>3. \A d \in Calls : Held(d)'
  BY <1>2, HeldByOthers DEF IInv
<1>4. RowsAgree'
  BY <1>0 DEF IInv, RowsAgree
<1>5. Spines'
  BY <1>2, SpinesStay DEF IInv, Executing, AtSlot
<1>6. ASSUME ~replayed PROVE Alone' /\ RunAgrees' /\ BoxAgrees' /\ PredecessorsFirst'
  <2>1. Alone /\ RunAgrees /\ BoxAgrees /\ PredecessorsFirst
    BY <1>6 DEF IInv, Sole
  <2>2. WorkAgrees(c)'
    BY <1>0, <2>1 DEF Alone, WorkAgrees, AtSlot, AtNode
  <2>3. \A d \in Calls \ {c} : exec'[d] = exec[d] /\ WorkAgrees(d)'
    <3>1. ASSUME NEW d \in Calls \ {c} PROVE exec'[d] = exec[d] /\ WorkAgrees(d)'
      <4>1. exec'[d] = exec[d] /\ WorkAgrees(d)
        BY <2>1 DEF Alone, Moves
      <4> QED
        BY <1>0, <4>1 DEF WorkAgrees
    <3> QED
      BY <3>1
  <2>4. Alone'
    BY <2>1, <2>2, <2>3 DEF Alone, Executing, Holding
  <2>5. RunAgrees'
    BY <1>0, <2>1 DEF RunAgrees
  <2>6. \A i \in DOMAIN outbox : Covered(i) => Covered(i)'
    BY <2>3 DEF Covered, AtSlot, AtNode
  <2>7. BoxAgrees'
    BY <2>1, <2>6 DEF BoxAgrees, Loose
  <2> QED
    BY <1>0, <1>2, <2>1, <2>4, <2>5, <2>7, <1>6, PredecessorsStay DEF IInv
<1>7. Approved'
  BY <1>0, ApprovedStays DEF IInv, Receipt
<1> QED
  BY <1>1, <1>3, <1>4, <1>5, <1>6, <1>7 DEF IInv, Sole

LEMMA IdleRow == Idle \in CallRows /\ Idle.at = "idle" /\ Idle.left = 0 /\ Idle.q = 0 /\ Idle.end = "none"
  BY DEF Idle, CallRows

LEMMA AskKeeps ==
  ASSUME WorkflowBounds, IInv, NEW c \in Calls, (\E q \in Admits : AdmitRun(c, q)) \/ Resolved(c) \/ RefuseAuthority(c)
  PROVE  IInv'
<1>1. Typed /\ Held(c) /\ exec[c] \in CallRows
  BY DEF IInv, Typed
<1>2. ASSUME NEW q \in Admits, AdmitRun(c, q) PROVE IInv'
  <2> DEFINE r == [Idle EXCEPT !.at = "resolving", !.q = q]
  <2>1. r \in CallRows /\ r.at = "resolving" /\ r.q = q /\ r.left = 0
    BY IdleRow DEF CallRows, Keys
  <2>2. Set(c, r) /\ Free /\ exec[c].at = "idle" /\ UNCHANGED <<graph, plan, tables, busy, reviews, restarts, up, replayed>>
    BY <1>2 DEF AdmitRun, Awaits
  <2> HIDE DEF r
  <2>3. Moves(c) /\ exec'[c] = r
    BY <1>1, <2>1, <2>2, Puts DEF Moves, Free
  <2>4. Held(c)' /\ SpineAgrees(c)'
    BY <2>1, <2>2, <2>3 DEF Held, SpineAgrees, Holding, AtSlot, AtNode, Free, Keys
  <2> QED
    BY <1>1, <2>1, <2>2, <2>3, <2>4, ExecOnly DEF Executing, Holding, AtSlot, AtNode, tables, Typed
<1>3. CASE Resolved(c)
  <2> DEFINE r == [exec[c] EXCEPT !.at = "authorizing"]
  <2>1. r \in CallRows /\ r.at = "authorizing" /\ r.q = exec[c].q /\ r.left = exec[c].left
    BY <1>1 DEF CallRows
  <2>2. Set(c, r) /\ Free /\ exec[c].at = "resolving" /\ UNCHANGED <<graph, plan, tables, busy, history>>
    BY <1>3 DEF Resolved, Awaits, Go
  <2> HIDE DEF r
  <2>3. Moves(c) /\ exec'[c] = r
    BY <1>1, <2>1, <2>2, Puts DEF Moves, Free
  <2>4. Held(c)' /\ SpineAgrees(c)'
    BY <1>1, <2>1, <2>2, <2>3 DEF Held, SpineAgrees, Holding, AtSlot, AtNode, Free, Keys
  <2> QED
    BY <1>1, <2>1, <2>2, <2>3, <2>4, ExecOnly DEF Executing, Holding, AtSlot, AtNode, tables, history, Typed
<1>4. CASE RefuseAuthority(c)
  <2>1. /\ Set(c, Idle) /\ busy' = {} /\ Free /\ exec[c].at \in {"resolving", "authorizing"}
        /\ UNCHANGED <<graph, plan, run, att, waits, outbox, anchors, outcomes, history>>
    BY <1>4 DEF RefuseAuthority, Awaits, Leave
  <2>2. idem' \in [Keys -> {"none", "open", "refused", "waiting", "completed", "failed"}]
    BY <1>1, <1>4 DEF RefuseAuthority, Typed
  <2>3. Moves(c) /\ exec'[c] = Idle
    BY <1>1, <2>1, IdleRow, Puts DEF Moves, Free
  <2>4. Held(c)' /\ SpineAgrees(c)'
    BY <2>1, <2>3, IdleRow DEF Held, SpineAgrees, Holding, AtSlot, AtNode
  <2> QED
    BY <1>1, <2>1, <2>2, <2>3, <2>4, IdleRow, ExecOnly DEF Executing, Holding, AtSlot, AtNode, history, Typed
<1> QED
  BY <1>2, <1>3, <1>4

\* What a call in memory becomes.
LEMMA GoesTo ==
  ASSUME NEW x \in CallRows, NEW p \in Executing
  PROVE  LET r == [x EXCEPT !.at = p] IN
         /\ r \in CallRows /\ r.at = p /\ r.q = x.q /\ r.node = x.node /\ r.slot = x.slot
         /\ r.todo = x.todo /\ r.outs = x.outs /\ r.end = x.end /\ r.left = x.left
  BY DEF CallRows

LEMMA EndsWith ==
  ASSUME NEW x \in CallRows, NEW p \in Executing, NEW e \in {"waiting", "completed", "failed"}
  PROVE  LET r == [x EXCEPT !.at = p, !.end = e] IN
         /\ r \in CallRows /\ r.at = p /\ r.q = x.q /\ r.node = x.node /\ r.slot = x.slot
         /\ r.todo = x.todo /\ r.outs = x.outs /\ r.end = e /\ r.left = x.left
  BY DEF CallRows

LEMMA TurnsTo ==
  ASSUME NEW x \in CallRows, NEW p \in Executing, NEW n \in Nat
  PROVE  LET r == [x EXCEPT !.at = p, !.node = n] IN
         /\ r \in CallRows /\ r.at = p /\ r.q = x.q /\ r.node = n /\ r.slot = x.slot
         /\ r.todo = x.todo /\ r.outs = x.outs /\ r.end = x.end /\ r.left = x.left
  BY DEF CallRows

\* A call comes to an answer in memory.
LEMMA Thinks ==
  ASSUME IInv, NEW c \in Calls, NEW r \in CallRows, Set(c, r), busy = {c}, busy' = busy,
         exec[c].at \in Executing \ (AtSlot \cup {"finish", "answer"}), r.at \in Executing \ (AtSlot \cup {"answer", "loop"}),
         r.q = exec[c].q, r.outs = exec[c].outs, r.left = exec[c].left, r.at = "finish" => r.end \in {"completed", "failed"},
         SpineAgrees(c)', UNCHANGED <<graph, plan, tables, history>>
  PROVE  IInv'
<1>1. Typed /\ Held(c)
  BY DEF IInv
<1>2. Moves(c) /\ exec'[c] = r
  BY <1>1, Puts DEF Moves
<1>3. Held(c)'
  BY <1>1, <1>2 DEF Held, Executing, Holding, AtSlot, AtNode, tables
<1>4. idem' \in [Keys -> {"none", "open", "refused", "waiting", "completed", "failed"}] /\ plan' \in {"none", "saved", "compiled"}
  BY <1>1 DEF Typed, tables
<1>5. r.at \notin AtNode /\ r.at \notin {"answer", "loop", "anchoring"} /\ exec[c].at \notin AtSlot
  BY DEF AtSlot
<1> QED
  BY <1>2, <1>3, <1>4, <1>5, ExecOnly DEF tables, history

LEMMA ThinkKeeps ==
  ASSUME WorkflowBounds, IInv, NEW c \in Calls, Stuck(c) \/ LoopEnds(c) \/ StartSpine(c) \/ SpineEnds(c)
  PROVE  IInv'
<1>1. Typed /\ SpineAgrees(c) /\ exec[c] \in CallRows
  BY DEF IInv, Typed, Spines
<1>2. /\ busy = {c} /\ busy' = busy /\ UNCHANGED <<graph, plan, tables, history>>
      /\ exec[c].at \in {"loop", "spine", "anchor"}
  BY DEF Stuck, LoopEnds, StartSpine, SpineEnds, Runs
<1>3. Checks' = Checks /\ (AllChecked <=> AllChecked') /\ (AllAnchored <=> AllAnchored')
  BY <1>2, SameGraph DEF AllChecked, AllAnchored, tables
<1>4. CASE Stuck(c) \/ Set(c, [exec[c] EXCEPT !.at = "finish", !.end = "failed"])
  <2> DEFINE r == [exec[c] EXCEPT !.at = "finish", !.end = "failed"]
  <2>1. /\ r \in CallRows /\ r.at = "finish" /\ r.end = "failed" /\ r.q = exec[c].q /\ r.outs = exec[c].outs /\ r.left = exec[c].left
    BY <1>1 DEF CallRows, Executing, Holding
  <2>2. Set(c, r)
    BY <1>4 DEF Stuck
  <2> HIDE DEF r
  <2>3. SpineAgrees(c)'
    BY <1>1, <2>1, <2>2, Puts DEF SpineAgrees
  <2> QED
    BY <1>2, <2>1, <2>2, <2>3, Thinks DEF Executing, Holding, AtSlot, AtNode
<1>5. CASE Set(c, [exec[c] EXCEPT !.at = "finish", !.end = "completed"]) /\ (Checks # {} => AllChecked /\ AllAnchored)
  <2> DEFINE r == [exec[c] EXCEPT !.at = "finish", !.end = "completed"]
  <2>1. /\ r \in CallRows /\ r.at = "finish" /\ r.end = "completed" /\ r.q = exec[c].q /\ r.outs = exec[c].outs /\ r.left = exec[c].left
    BY <1>1 DEF CallRows, Executing, Holding
  <2>2. Set(c, r)
    BY <1>5
  <2> HIDE DEF r
  <2>3. SpineAgrees(c)'
    BY <1>1, <1>3, <1>5, <2>1, <2>2, Puts DEF SpineAgrees
  <2> QED
    BY <1>2, <2>1, <2>2, <2>3, Thinks DEF Executing, Holding, AtSlot, AtNode
<1>6. CASE LoopEnds(c)
  <2>1. CASE Checks = {}
    BY <1>5, <1>6, <2>1 DEF LoopEnds
  <2>2. CASE Checks # {}
    <3> DEFINE r == [exec[c] EXCEPT !.at = "spine"]
    <3>1. /\ r \in CallRows /\ r.at = "spine" /\ r.q = exec[c].q /\ r.outs = exec[c].outs /\ r.left = exec[c].left
      BY <1>1, GoesTo DEF Executing, Holding
    <3>2. Set(c, r)
      BY <1>6, <2>2 DEF LoopEnds, Go
    <3> HIDE DEF r
    <3>3. SpineAgrees(c)'
      BY <1>1, <1>3, <2>2, <3>1, <3>2, Puts DEF SpineAgrees
    <3> QED
      BY <1>2, <3>1, <3>2, <3>3, Thinks DEF Executing, Holding, AtSlot, AtNode
  <2> QED
    BY <2>1, <2>2
<1>7. CASE StartSpine(c)
  <2>1. CASE Set(c, [exec[c] EXCEPT !.at = "anchor", !.node = 1]) /\ Checked
    <3> DEFINE r == [exec[c] EXCEPT !.at = "anchor", !.node = 1]
    <3>1. /\ r \in CallRows /\ r.at = "anchor" /\ r.q = exec[c].q /\ r.outs = exec[c].outs /\ r.left = exec[c].left /\ r.node = 1
      BY <1>1 DEF CallRows, Executing, Holding
    <3>2. Set(c, r) /\ Checks # {}
      BY <1>1, <1>7, <2>1 DEF SpineAgrees, StartSpine, Runs
    <3>3. AllChecked
      <4>1. \A n \in Checks : att[n].state = "succeeded" /\ att[n].subject \in Subjects
        BY <1>1, <2>1 DEF Checked, Attested, Typed, NodeRows, Checks
      <4>2. PICK s : {att[n].subject : n \in Checks} = {s}
        <5> DEFINE T == {att[n].subject : n \in Checks}
                   f == [n \in Checks |-> att[n].subject]
        <5>1. Cardinality(T) = 1
          BY <2>1 DEF Checked
        <5>2. IsFiniteSet(Checks)
          BY <1>1, FS_Subset DEF Checks, Typed, Drawn
        <5>3. f \in Surjection(Checks, T)
          BY DEF Surjection
        <5>4. IsFiniteSet(T)
          BY <5>2, <5>3, FS_Surjection
        <5> QED
          BY <5>1, <5>4, FS_Singleton
      <4>3. \A n \in Checks : att[n].subject = s
        BY <4>2
      <4>4. s \in Subjects
        BY <3>2, <4>1, <4>3
      <4> QED
        BY <3>2, <4>1, <4>3, <4>4 DEF AllChecked
    <3> HIDE DEF r
    <3>4. SpineAgrees(c)'
      <4>1. Len(anchors) \in Nat /\ anchors' = anchors
        BY <1>1, <1>2 DEF Typed, tables
      <4> QED
        BY <1>1, <1>3, <3>1, <3>2, <3>3, <4>1, Puts DEF SpineAgrees
    <3> QED
      BY <1>2, <3>1, <3>2, <3>4, Thinks DEF Executing, Holding, AtSlot, AtNode
  <2> QED
    BY <1>4, <1>7, <2>1 DEF StartSpine
<1>8. CASE SpineEnds(c)
  <2>1. Len(anchors) \in Nat /\ DOMAIN anchors = 1..Len(anchors) /\ Len(Owners) \in Nat
    BY <1>1 DEF Typed, WorkflowBounds
  <2>2. /\ exec[c].at = "anchor" /\ exec[c].node = Len(Owners) + 1 /\ Len(anchors) < exec[c].node
        /\ Set(c, [exec[c] EXCEPT !.at = "finish", !.end = "completed"])
    BY <1>8 DEF SpineEnds, Runs
  <2>3. AllChecked /\ exec[c].node \in 1..Len(anchors) + 1 /\ \A i \in 1..exec[c].node - 1 : anchors[i] = "succeeded"
    BY <1>1, <2>2 DEF SpineAgrees
  <2>4. Len(anchors) = Len(Owners)
    BY <2>1, <2>2, <2>3
  <2>5. AllAnchored
    BY <2>1, <2>2, <2>3, <2>4 DEF AllAnchored
  <2> QED
    BY <1>5, <2>2, <2>3, <2>5
<1> QED
  BY <1>4, <1>6, <1>7, <1>8

LEMMA LeaveKeeps ==
  ASSUME IInv, NEW c \in Calls, Overdue(c) \/ AnchorThrows(c) \/ Answer(c)
  PROVE  IInv'
<1>1. Typed /\ Held(c) /\ SpineAgrees(c) /\ exec[c] \in CallRows
  BY DEF IInv, Typed, Spines
<1>2. CASE Overdue(c)
  <2> DEFINE r == [exec[c] EXCEPT !.at = "cancelling"]
  <2>1. /\ r \in CallRows /\ r.at = "cancelling" /\ r.q = exec[c].q /\ r.node = exec[c].node /\ r.slot = exec[c].slot
        /\ r.todo = exec[c].todo /\ r.outs = exec[c].outs /\ r.left = exec[c].left
    BY <1>1, GoesTo DEF Executing, AtSlot, AtNode
  <2>2. Set(c, r) /\ Free /\ exec[c].at = "watching" /\ UNCHANGED <<graph, plan, tables, busy, history>>
    BY <1>2 DEF Overdue, Awaits, Go
  <2> HIDE DEF r
  <2>3. Moves(c) /\ exec'[c] = r
    BY <1>1, <2>1, <2>2, Puts DEF Moves, Free
  <2>4. Held(c)' /\ SpineAgrees(c)' /\ Nodes' = Nodes
    BY <1>1, <2>1, <2>2, <2>3, SameGraph DEF Held, SpineAgrees, Holding, AtSlot, AtNode, Free, tables
  <2> QED
    BY <1>1, <2>1, <2>2, <2>3, <2>4, ExecOnly DEF Executing, Holding, AtSlot, AtNode, tables, history, Typed
<1>3. CASE AnchorThrows(c) \/ Answer(c)
  <2>1. /\ Set(c, Idle) /\ busy = {c} /\ busy' = {} /\ exec[c].at \in {"anchor", "answer"}
        /\ UNCHANGED <<graph, plan, run, att, waits, outbox, anchors, outcomes, history>>
    BY <1>3 DEF AnchorThrows, Answer, Runs, Leave, tables
  <2>2. idem' \in [Keys -> {"none", "open", "refused", "waiting", "completed", "failed"}]
    <3>1. Answer(c) => exec[c].end \in {"waiting", "completed", "failed"}
      BY <1>1 DEF Answer, Runs, Held, CallRows
    <3>2. CASE Answer(c)
      BY <1>1, <3>1, <3>2 DEF Answer, Typed
    <3>3. CASE AnchorThrows(c)
      BY <1>1, <3>3 DEF AnchorThrows, Typed, tables
    <3> QED
      BY <1>3, <3>2, <3>3
  <2>3. Moves(c) /\ exec'[c] = Idle
    BY <1>1, <2>1, IdleRow, Puts DEF Moves
  <2>4. Held(c)' /\ SpineAgrees(c)'
    BY <1>1, <2>1, <2>3, IdleRow DEF Held, SpineAgrees, Holding, AtSlot, AtNode
  <2> QED
    BY <1>1, <2>1, <2>2, <2>3, <2>4, IdleRow, ExecOnly DEF Executing, Holding, AtSlot, AtNode, history, Typed
<1> QED
  BY <1>2, <1>3

\* A request executed again: whatever else holds, the rows do.
LEMMA Replays ==
  ASSUME IInv, NEW c \in Calls, Moves(c), UNCHANGED <<run, att, waits, outbox, anchors, outcomes, reviews, up>>,
         idem' \in [Keys -> {"none", "open", "refused", "waiting", "completed", "failed"}],
         plan' \in {"none", "saved", "compiled"}, replayed', replayed' \in BOOLEAN, Held(c)', SpineAgrees(c)',
         exec'[c].at # "anchoring"
  PROVE  IInv'
<1>0. graph' = graph /\ Nodes' = Nodes /\ CallRows' = CallRows /\ BoxRows' = BoxRows /\ Drawn'
  BY SameGraph DEF Moves, IInv, Typed
<1>1. Typed'
  BY <1>0 DEF IInv, Typed, Moves
<1>2. BoxStays /\ RowsStay
  BY DEF BoxStays, RowsStay
<1>3. \A d \in Calls : Held(d)'
  BY <1>2, HeldByOthers DEF IInv
<1>4. RowsAgree'
  BY <1>0 DEF IInv, RowsAgree
<1>5. Spines'
  <2>1. Spines /\ run' = run /\ anchors' = anchors
    BY DEF IInv
  <2> QED
    BY <1>2, <2>1, SpinesStay
<1>6. Approved'
  BY <1>0, ApprovedStays DEF IInv, Receipt
<1> QED
  BY <1>1, <1>3, <1>4, <1>5, <1>6 DEF IInv, Sole

LEMMA LoadedRow ==
  ASSUME NEW q \in Keys, NEW rows \in [Nodes -> NodeRows]
  PROVE  LET r == Loaded(q, rows) IN
         /\ r \in CallRows /\ r.at = "loop" /\ r.q = q /\ r.left = 0
         /\ \A n \in r.todo : rows[n].state = "pending"
         /\ \A n \in Nodes :
              /\ r.outs[n] = "skipped" => rows[n].skip
              /\ r.outs[n] \in Ports => rows[n].state \in {"succeeded", "failed"} /\ rows[n].out = r.outs[n]
<1> DEFINE T == {n \in Nodes : rows[n].state = "pending"}
           o == [n \in Nodes |-> IF rows[n].skip THEN "skipped"
                                 ELSE IF rows[n].state \in {"succeeded", "failed"} THEN rows[n].out ELSE "none"]
           r == Loaded(q, rows)
<1>1. r = [Idle EXCEPT !.at = "loop", !.q = q, !.todo = T, !.outs = o]
  BY DEF Loaded
<1>2. \A n \in Nodes : rows[n].out \in Ports \cup {"none"} /\ rows[n].skip \in BOOLEAN
  BY DEF NodeRows
<1>3. \A n \in Nodes :
        /\ o[n] \in Ports \cup {"none", "skipped"}
        /\ o[n] = "skipped" => rows[n].skip
        /\ o[n] \in Ports => rows[n].state \in {"succeeded", "failed"} /\ rows[n].out = o[n]
  BY <1>2 DEF Ports
<1>4. o \in [Nodes -> Ports \cup {"none", "skipped"}]
  BY <1>3
<1>5. T \subseteq Nodes /\ \A n \in T : rows[n].state = "pending"
  OBVIOUS
<1> HIDE DEF o, T
<1>6. r = [at |-> "loop", q |-> q, node |-> 0, slot |-> 0, todo |-> T, outs |-> o,
           end |-> "none", left |-> 0, subject |-> "none"]
  BY <1>1 DEF Idle
<1>7. r \in CallRows /\ r.at = "loop" /\ r.q = q /\ r.left = 0 /\ r.todo = T /\ r.outs = o
  <2> HIDE DEF r
  <2> QED
    BY <1>4, <1>5, <1>6 DEF CallRows, Executing, Holding
<1> QED
  BY <1>3, <1>5, <1>7

\* A call that loads the rows while no other executes.
LEMMA LoadAlone ==
  ASSUME IInv, NEW c \in Calls, Moves(c), NEW q \in Keys, exec'[c] = Loaded(q, att'), att' \in [Nodes -> NodeRows],
         \A d \in Calls : exec[d].at \notin Executing, run'.state \in {"admitted", "running"}
  PROVE  Alone'
<1>1. Nodes' = Nodes
  BY SameGraph DEF Moves
<1>2. WorkAgrees(c)' /\ exec'[c].at = "loop"
  BY <1>1, LoadedRow DEF WorkAgrees, AtNode, AtSlot
<1>3. \A d \in Calls \ {c} : exec'[d] = exec[d]
  BY DEF Moves
<1> QED
  BY <1>2, <1>3 DEF Alone, Executing, Holding, WorkAgrees

LEMMA AdmitKeeps ==
  ASSUME WorkflowBounds, IInv, NEW c \in Calls, CreateControlRun(c) \/ AdmitAgain(c)
  PROVE  IInv'
<1>1. Typed /\ Held(c) /\ exec[c] \in CallRows /\ SpineAgrees(c) /\ Free /\ exec[c].at = "authorizing" /\ exec[c].q \in Keys
  BY DEF IInv, Typed, Spines, CreateControlRun, AdmitAgain, Awaits, Held
<1>a. att \in [Nodes -> NodeRows]
  BY <1>1 DEF Typed
<1> DEFINE r == Loaded(exec[c].q, att)
<1>2. /\ r \in CallRows /\ r.at = "loop" /\ r.q \in Keys /\ r.left = 0
  BY <1>1, <1>a, LoadedRow
<1> HIDE DEF r
<1>3. CASE CreateControlRun(c)
  <2>1. /\ Set(c, r) /\ busy' = {c} /\ run.state = "absent" /\ run' = [run EXCEPT !.state = "admitted"]
        /\ idem' = [idem EXCEPT ![exec[c].q] = "open"]
        /\ UNCHANGED <<graph, plan, att, waits, outbox, anchors, outcomes, history>>
    BY <1>3 DEF CreateControlRun, r
  <2>2. Moves(c) /\ exec'[c] = r /\ run'.state = "admitted"
    BY <1>1, <1>2, <2>1, Puts DEF Moves, Free, Typed
  <2>3. Held(c)' /\ SpineAgrees(c)' /\ graph' = graph /\ Nodes' = Nodes /\ CallRows' = CallRows /\ BoxRows' = BoxRows /\ Drawn'
    BY <1>1, <1>2, <2>1, <2>2, SameGraph DEF Held, SpineAgrees, Holding, AtSlot, AtNode, Typed
  <2>4. Typed'
    BY <1>1, <2>1, <2>2, <2>3 DEF Typed, Moves, history
  <2>5. BoxStays /\ RowsStay
    BY <2>1 DEF BoxStays, RowsStay
  <2>6. \A d \in Calls : Held(d)'
    BY <2>2, <2>3, <2>5, HeldByOthers DEF IInv
  <2>7. RowsAgree'
    BY <2>1, <2>3 DEF IInv, RowsAgree
  <2>8. Spines'
    BY <1>2, <2>1, <2>2, <2>3, <2>5, SpinesStay DEF IInv
  <2>9. Approved'
    BY <1>1, <2>1, <2>3, ApprovedStays DEF IInv, Receipt
  <2>10. ASSUME ~replayed PROVE Alone' /\ RunAgrees' /\ BoxAgrees' /\ PredecessorsFirst'
    <3>1. Alone /\ RunAgrees /\ BoxAgrees /\ PredecessorsFirst
      BY <2>10 DEF IInv, Sole
    <3>2. \A d \in Calls : exec[d].at \notin Executing
      BY <2>1, <3>1 DEF Alone
    <3>3. Alone'
      BY <1>1, <1>a, <2>1, <2>2, <3>2, LoadAlone DEF r
    <3>4. \A i \in DOMAIN outbox : ~Covered(i)
      BY <2>1, <3>2 DEF Covered, Executing, Holding
    <3>5. BoxAgrees'
      BY <2>1, <3>1, <3>4 DEF BoxAgrees, Loose
    <3>6. RunAgrees'
      <4>1. \A n \in Nodes : waits[n].phase \notin {"waiting", "reviewed"}
        BY <2>1, <3>1 DEF RunAgrees
      <4>2. outcomes = <<>> /\ Len(outcomes) <= 1 /\ up /\ up' = up /\ outcomes' = outcomes /\ waits' = waits
        BY <2>1, <3>1 DEF RunAgrees, history
      <4> QED
        BY <2>3, <4>1, <4>2 DEF RunAgrees
    <3>7. PredecessorsFirst'
      BY <1>1, <2>1, <2>3, <2>5, <3>1, <2>10, PredecessorsStay DEF IInv
    <3> QED
      BY <3>3, <3>5, <3>6, <3>7
  <2> QED
    BY <2>1, <2>4, <2>6, <2>7, <2>8, <2>9, <2>10 DEF IInv, Sole, history
<1>4. CASE AdmitAgain(c)
  <2>1. /\ UNCHANGED <<graph, plan, run, att, waits, outbox, anchors, outcomes, idem, reviews, up>>
        /\ replayed' = (replayed \/ idem[exec[c].q] = "open") /\ busy' \in {{}, {c}}
        /\ \/ Set(c, r) /\ busy' = {c} /\ idem[exec[c].q] = "open"
           \/ Set(c, Idle) /\ busy' = {}
    BY <1>4 DEF AdmitAgain, r, Leave, tables
  <2>2. /\ Moves(c) /\ replayed' \in BOOLEAN /\ plan' \in {"none", "saved", "compiled"}
        /\ idem' \in [Keys -> {"none", "open", "refused", "waiting", "completed", "failed"}]
    BY <1>1, <1>2, <2>1, IdleRow, Puts DEF Moves, Free, Typed
  <2>3. \/ exec'[c] = Idle /\ busy' = {}
        \/ exec'[c] = r /\ busy' = {c} /\ idem[exec[c].q] = "open"
    <3>1. Set(c, r) => exec'[c] = r
      BY <1>1, Puts
    <3>2. Set(c, Idle) => exec'[c] = Idle
      BY <1>1, Puts
    <3> QED
      BY <2>1, <3>1, <3>2
  <2>4. Held(c)' /\ SpineAgrees(c)'
    BY <1>1, <1>2, <2>1, <2>3, IdleRow DEF Held, SpineAgrees, Holding, AtSlot, AtNode
  <2>5. CASE idem[exec[c].q] = "open"
    BY <1>2, <2>1, <2>2, <2>3, <2>4, <2>5, IdleRow, Replays
  <2>6. CASE idem[exec[c].q] # "open"
    <3>1. exec'[c] = Idle /\ UNCHANGED <<run, att, waits, outbox, anchors, outcomes, reviews, up, replayed>>
      BY <1>1, <2>1, <2>3, <2>6 DEF Typed
    <3> QED
      BY <1>1, <2>1, <2>2, <2>4, <3>1, IdleRow, ExecOnly DEF Executing, Holding, AtSlot, AtNode
  <2> QED
    BY <2>5, <2>6
<1> QED
  BY <1>3, <1>4

LEMMA ContinueKeeps ==
  ASSUME WorkflowBounds, IInv, NEW c \in Calls, NEW k \in 1..MaxReviews, ContinueRun(c, k)
  PROVE  IInv'
<1>1. /\ Typed /\ Held(c) /\ exec[c] \in CallRows /\ SpineAgrees(c) /\ Free /\ exec[c].at = "idle" /\ k \in Keys
      /\ UNCHANGED <<graph, plan, outbox, anchors, outcomes, reviews, up>>
  BY DEF IInv, Typed, Spines, ContinueRun, Awaits, Held, Keys
<1>a. att \in [Nodes -> NodeRows] /\ \A v \in {"open", "refused"} :
        [idem EXCEPT ![k] = v] \in [Keys -> {"none", "open", "refused", "waiting", "completed", "failed"}]
  BY <1>1 DEF Typed
<1>2. ASSUME NEW n \in Nodes, Presents(k, n), idem[k] = "none",
             waits' = [waits EXCEPT ![n].phase = "approved", ![n].by = k],
             att' = [att EXCEPT ![n].state = "pending"],
             Set(c, Loaded(k, [att EXCEPT ![n].state = "pending"])),
             run' = [run EXCEPT !.state = "running"], idem' = [idem EXCEPT ![k] = "open"], busy' = {c}, replayed' = replayed
      PROVE  IInv'
  <2> DEFINE r == Loaded(k, att')
  <2>1. att[n].state = "ready" /\ run.state = "stopping" /\ waits[n].phase = "reviewed"
    BY <1>2 DEF Presents, Reviewable
  <2>2. /\ att' \in [Nodes -> NodeRows] /\ att'[n].state = "pending" /\ att'[n].skip = att[n].skip /\ att'[n].subject = att[n].subject
        /\ \A m \in Nodes \ {n} : att'[m] = att[m]
    <3>1. [att[n] EXCEPT !.state = "pending"] \in NodeRows
      BY <1>a DEF NodeRows
    <3>2. att[n] \in NodeRows
      BY <1>a
    <3> QED
      BY <1>2, <1>a, <3>1, <3>2 DEF NodeRows
  <2>3. r \in CallRows /\ r.at = "loop" /\ r.q = k /\ r.left = 0
    BY <1>1, <2>2, LoadedRow
  <2>4. Set(c, r)
    BY <1>2
  <2> HIDE DEF r
  <2>5. Moves(c) /\ exec'[c] = r /\ run' \in [state : {"running"}, left : 0..1] /\ run'.state = "running"
    BY <1>1, <1>2, <2>3, <2>4, Puts DEF Moves, Free, Typed
  <2>6. /\ waits' \in [Nodes -> [phase : {"none", "waiting", "reviewed", "approved"}, by : 0..MaxReviews]]
        /\ waits'[n].phase = "approved" /\ \A m \in Nodes \ {n} : waits'[m] = waits[m]
    <3> DEFINE w == [waits[n] EXCEPT !.phase = "approved", !.by = k]
    <3>1. waits \in [Nodes -> [phase : {"none", "waiting", "reviewed", "approved"}, by : 0..MaxReviews]]
      BY <1>1 DEF Typed
    <3>2. w \in [phase : {"none", "waiting", "reviewed", "approved"}, by : 0..MaxReviews] /\ w.phase = "approved"
      <4>1. waits[n] \in [phase : {"none", "waiting", "reviewed", "approved"}, by : 0..MaxReviews] /\ k \in 0..MaxReviews
        BY <3>1 DEF WorkflowBounds
      <4> QED
        BY <4>1
    <3>3. waits' = [waits EXCEPT ![n] = w]
      BY <1>2, <3>1
    <3> HIDE DEF w
    <3> QED
      BY <3>1, <3>2, <3>3
  <2>7. graph' = graph /\ Nodes' = Nodes /\ CallRows' = CallRows /\ BoxRows' = BoxRows /\ Drawn'
    BY <1>1, SameGraph DEF Typed
  <2>8. Held(c)' /\ SpineAgrees(c)'
    BY <1>1, <1>2, <2>3, <2>5, <2>7 DEF Held, SpineAgrees, Holding, AtSlot, AtNode
  <2>9. Typed'
    <3>1. run' \in [state : {"absent", "admitted", "running", "stopping", "completed", "failed", "quarantined"}, left : 0..1]
      BY <2>5
    <3>2. idem' \in [Keys -> {"none", "open", "refused", "waiting", "completed", "failed"}]
      BY <1>2, <1>a
    <3> QED
      BY <1>1, <1>2, <2>2, <2>5, <2>6, <2>7, <3>1, <3>2 DEF Typed, Moves
  <2>10. BoxStays /\ RowsStay
    BY <1>1, <2>1, <2>2 DEF BoxStays, RowsStay, Settled
  <2>11. \A d \in Calls : Held(d)'
    BY <2>5, <2>8, <2>10, HeldByOthers DEF IInv
  <2>12. RowsAgree'
    <3>1. RowsAgree
      BY DEF IInv
    <3>2. att[n].skip \in BOOLEAN
      BY <1>a DEF NodeRows
    <3> QED
      BY <1>1, <2>1, <2>2, <2>7, <3>1, <3>2 DEF RowsAgree
  <2>13. Spines'
    <3>1. Spines
      BY DEF IInv
    <3> QED
      BY <1>1, <2>3, <2>5, <2>8, <2>10, <3>1, SpinesStay
  <2>14. Approved'
    <3>1. \A m \in Nodes : Receipt(m) => Receipt(m)'
      BY <2>6 DEF Receipt
    <3> QED
      BY <1>1, <2>7, <3>1, ApprovedStays DEF IInv
  <2>15. ASSUME ~replayed PROVE Alone' /\ RunAgrees' /\ BoxAgrees' /\ PredecessorsFirst'
    <3>1. Alone /\ RunAgrees /\ BoxAgrees /\ PredecessorsFirst
      BY <2>15 DEF IInv, Sole
    <3>2. \A d \in Calls : exec[d].at \notin Executing
      <4>1. ASSUME NEW d \in Calls, exec[d].at \in Executing PROVE FALSE
        <5>1. exec[d].at = "answer"
          BY <2>1, <3>1, <4>1 DEF Alone
        <5>2. Held(d)
          BY DEF IInv
        <5> QED
          BY <1>1, <5>1, <5>2 DEF Held, Holding, Free
      <4> QED
        BY <4>1
    <3>3. Alone'
      BY <1>1, <2>2, <2>5, <3>2, LoadAlone DEF r
    <3>4. \A i \in DOMAIN outbox : ~Covered(i)
      BY <2>1, <3>2 DEF Covered, Executing, Holding
    <3>5. \A i \in DOMAIN outbox : outbox[i].node # n
      BY <2>1, <3>1, <1>1 DEF BoxAgrees, Typed, Drawn
    <3>6. \A i \in DOMAIN outbox : outbox[i].node \in Nodes \cup {0}
      <4>1. \A i \in DOMAIN outbox : outbox[i] \in BoxRows
        BY <1>1 DEF Typed
      <4> QED
        BY <4>1 DEF BoxRows
    <3>7. BoxAgrees'
      BY <1>1, <2>2, <3>1, <3>4, <3>5, <3>6 DEF BoxAgrees, Loose
    <3>8. RunAgrees'
      <4>1. outcomes = <<>> /\ Len(outcomes) <= 1 /\ up /\ up' = up /\ outcomes' = outcomes
        BY <1>1, <2>1, <3>1 DEF RunAgrees
      <4>2. \A m \in Nodes : waits'[m].phase \notin {"waiting", "reviewed"}
        BY <2>1, <2>6, <3>1 DEF RunAgrees
      <4> QED
        BY <2>7, <4>1, <4>2 DEF RunAgrees
    <3>9. PredecessorsFirst'
      BY <1>1, <1>2, <2>7, <2>10, <3>1, <2>15, PredecessorsStay DEF IInv
    <3> QED
      BY <3>3, <3>7, <3>8, <3>9
  <2> QED
    BY <1>2, <2>9, <2>11, <2>12, <2>13, <2>14, <2>15 DEF IInv, Sole
<1>3. CASE idem[k] = "none" /\ idem' = [idem EXCEPT ![k] = "refused"] /\ UNCHANGED <<run, att, waits, exec, busy, replayed>>
  <2>1. Moves(c) /\ Nodes' = Nodes
    BY <1>1, <1>3, SameGraph DEF Moves, Free, Typed
  <2>2. Held(c)' /\ SpineAgrees(c)'
    BY <1>1, <1>3, <2>1 DEF Held, SpineAgrees, Holding, AtSlot, AtNode
  <2> QED
    BY <1>1, <1>3, <1>a, <2>1, <2>2, ExecOnly DEF Executing, Holding, AtSlot, AtNode, Typed
<1>4. CASE /\ idem[k] = "open" /\ replayed' = TRUE /\ UNCHANGED <<run, att, waits, idem>>
           /\ IF Loadable(att) THEN Set(c, Loaded(k, att)) /\ busy' = {c} ELSE Leave(c)
  <2> DEFINE r == Loaded(k, att)
  <2>1. r \in CallRows /\ r.at = "loop" /\ r.q = k /\ r.left = 0
    BY <1>1, <1>a, LoadedRow
  <2>2. \/ Set(c, r) /\ busy' = {c}
        \/ Set(c, Idle) /\ busy' = {}
    BY <1>4 DEF Leave
  <2> HIDE DEF r
  <2>3. \/ exec'[c] = Idle /\ busy' = {}
        \/ exec'[c] = r /\ busy' = {c}
    <3>1. Set(c, r) => exec'[c] = r
      BY <1>1, Puts
    <3>2. Set(c, Idle) => exec'[c] = Idle
      BY <1>1, Puts
    <3> QED
      BY <2>2, <3>1, <3>2
  <2>4. Moves(c)
    BY <1>1, <2>1, <2>2, IdleRow, Puts DEF Moves, Free
  <2>5. Held(c)' /\ SpineAgrees(c)'
    BY <1>1, <2>1, <2>3, IdleRow DEF Held, SpineAgrees, Holding, AtSlot, AtNode
  <2>6. /\ UNCHANGED <<run, att, waits, outbox, anchors, outcomes, reviews, up>> /\ replayed' /\ replayed' \in BOOLEAN
        /\ idem' \in [Keys -> {"none", "open", "refused", "waiting", "completed", "failed"}]
        /\ plan' \in {"none", "saved", "compiled"} /\ exec'[c].at # "anchoring"
    BY <1>1, <1>4, <2>1, <2>3, IdleRow DEF Typed
  <2> QED
    BY <2>4, <2>5, <2>6, Replays
<1> QED
  BY <1>2, <1>3, <1>4 DEF ContinueRun

\* What every step of the executing call has to show.
LEMMA Assembles ==
  ASSUME IInv, NEW c \in Calls, Moves(c), BoxStays, Typed', Held(c)', RowsAgree', Spines', Approved',
         replayed' = replayed, ~replayed => Alone' /\ RunAgrees' /\ BoxAgrees' /\ PredecessorsFirst'
  PROVE  IInv'
<1>1. \A d \in Calls : Held(d)'
  BY HeldByOthers DEF IInv
<1> QED
  BY <1>1 DEF IInv, Sole

LEMMA BoxTyped ==
  ASSUME Typed
  PROVE  /\ \A i \in DOMAIN outbox : outbox[i] \in BoxRows /\ outbox[i].node \in Nodes \cup {0}
         /\ Len(outbox) \in Nat /\ DOMAIN outbox = 1..Len(outbox) /\ 0 \notin Nodes
<1>1. \A i \in DOMAIN outbox : outbox[i] \in BoxRows
  BY DEF Typed
<1> QED
  BY <1>1 DEF Typed, BoxRows, Drawn

\* The outbox is as it was, and so are the nodes in it.
LEMMA BoxUnchanged ==
  ASSUME Typed, BoxAgrees, outbox' = outbox,
         \A m \in Nodes : att[m].state \in {"running", "succeeded", "failed", "quarantined"} => att'[m] = att[m],
         \A i \in DOMAIN outbox : Covered(i) => Covered(i)'
  PROVE  BoxAgrees'
<1>1. \A i \in DOMAIN outbox' : outbox'[i].node # 0 => att'[outbox'[i].node].state \in {"running", "succeeded", "failed", "quarantined"}
  BY BoxTyped DEF BoxAgrees
<1>2. \A i \in DOMAIN outbox' : Loose(i)' => Covered(i)'
  BY DEF BoxAgrees, Loose
<1>3. \A i, j \in DOMAIN outbox' : i # j /\ outbox'[i].node # 0 => outbox'[i].node # outbox'[j].node
  BY DEF BoxAgrees
<1> QED
  BY <1>1, <1>2, <1>3 DEF BoxAgrees

LEMMA SkipKeeps ==
  ASSUME WorkflowBounds, IInv, NEW c \in Calls, NEW n \in Nodes, Skip(c, n)
  PROVE  IInv'
<1>1. /\ Typed /\ Held(c) /\ exec[c] \in CallRows /\ RowsAgree /\ Spines /\ Approved
      /\ busy = {c} /\ exec[c].at = "loop" /\ n \in exec[c].todo
      /\ UNCHANGED <<graph, plan, run, waits, outbox, anchors, outcomes, idem, busy, history>>
  BY DEF IInv, Typed, Skip, Runs, Next1, Candidates
<1> DEFINE r == [exec[c] EXCEPT !.todo = @ \ {n}, !.outs[n] = "skipped"]
           w == IF att[n].state = "pending" THEN [att[n] EXCEPT !.state = "cancelled", !.skip = TRUE] ELSE att[n]
<1>2. /\ r \in CallRows /\ r.at = "loop" /\ r.q = exec[c].q /\ r.left = exec[c].left /\ r.todo = exec[c].todo \ {n}
      /\ r.outs[n] = "skipped" /\ \A m \in Nodes \ {n} : r.outs[m] = exec[c].outs[m]
  BY <1>1 DEF CallRows
<1>3. Set(c, r)
  BY DEF Skip
<1> HIDE DEF r
<1>4. Moves(c) /\ exec'[c] = r /\ graph' = graph
  BY <1>1, <1>2, <1>3, Puts DEF Moves
<1>5. Nodes' = Nodes /\ CallRows' = CallRows /\ BoxRows' = BoxRows /\ Drawn' /\ BoxStays
  BY <1>1, <1>4, SameGraph DEF Typed, BoxStays
<1>6. att \in [Nodes -> NodeRows] /\ att[n] \in NodeRows
  BY <1>1 DEF Typed
<1>7. /\ att' = [att EXCEPT ![n] = w] /\ w \in NodeRows /\ w.subject = att[n].subject
      /\ att[n].state = "pending" => w.state = "cancelled" /\ w.skip
      /\ att[n].state # "pending" => w = att[n]
  BY <1>6 DEF Skip, NodeRows, Settled
<1> HIDE DEF w
<1>8. att' \in [Nodes -> NodeRows] /\ RowsStay /\ att'[n] = w /\ \A m \in Nodes \ {n} : att'[m] = att[m]
  BY <1>6, <1>7 DEF RowsStay, Settled
<1>9. RowsAgree'
  <2>1. \A m \in Nodes : /\ att'[m].skip => att'[m].state = "cancelled"
                         /\ att'[m].subject # "none" => att'[m].state = "succeeded"
    BY <1>1, <1>7, <1>8 DEF RowsAgree
  <2> QED
    BY <1>1, <1>5, <2>1 DEF RowsAgree
<1>10. Typed'
  BY <1>1, <1>4, <1>5, <1>8 DEF Typed, Moves, history
<1>11. Held(c)' /\ SpineAgrees(c)'
  BY <1>1, <1>2, <1>4, <1>5 DEF Held, SpineAgrees, Holding, AtSlot, AtNode
<1>12. Spines'
  BY <1>1, <1>2, <1>4, <1>8, <1>11, SpinesStay
<1>13. Approved'
  BY <1>1, <1>5, ApprovedStays DEF Receipt
<1>14. ASSUME ~replayed PROVE Alone' /\ RunAgrees' /\ BoxAgrees' /\ PredecessorsFirst'
  <2>1. Alone /\ RunAgrees /\ BoxAgrees /\ PredecessorsFirst
    BY <1>14 DEF IInv, Sole
  <2>2. WorkAgrees(c) /\ run.state \in {"admitted", "running"} /\ att[n].state = "pending"
    BY <1>1, <2>1 DEF Alone, WorkAgrees, Executing, Holding
  <2>3. WorkAgrees(c)'
    <3>1. \A m \in r.todo : att'[m].state = "pending"
      BY <1>1, <1>2, <1>8, <2>2 DEF WorkAgrees, Executing, Holding, CallRows
    <3>2. \A m \in Nodes : /\ r.outs[m] = "skipped" => att'[m].skip
                           /\ r.outs[m] \in Ports => att'[m].state \in {"succeeded", "failed"} /\ att'[m].out = r.outs[m]
      BY <1>1, <1>2, <1>7, <1>8, <2>2 DEF WorkAgrees, Executing, Holding, Ports
    <3> QED
      BY <1>2, <1>4, <1>5, <3>1, <3>2 DEF WorkAgrees, AtNode, AtSlot
  <2>4. Alone' /\ \A d \in Calls \ {c} : exec'[d].at \notin Executing
    BY <1>1, <1>2, <1>4, <2>1, <2>2, <2>3, AloneStays DEF Executing, Holding
  <2>5. RunAgrees'
    BY <1>1, <1>5, <2>1, <2>2 DEF RunAgrees, history
  <2>6. \A i \in DOMAIN outbox : Covered(i) => Covered(i)'
    BY <1>1, <1>2, <1>4 DEF Covered, AtSlot, AtNode, Moves
  <2>8. BoxAgrees'
    BY <1>1, <1>8, <2>1, <2>2, <2>6, BoxUnchanged
  <2>9. PredecessorsFirst'
    BY <1>1, <1>5, <1>8, <2>1, <1>14, PredecessorsStay
  <2> QED
    BY <2>4, <2>5, <2>8, <2>9
<1> QED
  BY <1>1, <1>4, <1>5, <1>9, <1>10, <1>11, <1>12, <1>13, <1>14, Assembles DEF history

LEMMA PauseKeeps ==
  ASSUME WorkflowBounds, IInv, NEW c \in Calls, NEW n \in Nodes, PauseForContinuation(c, n)
  PROVE  IInv'
<1>1. /\ Typed /\ Held(c) /\ exec[c] \in CallRows /\ RowsAgree /\ Spines /\ Approved
      /\ busy = {c} /\ exec[c].at = "loop" /\ n \in exec[c].todo /\ ~Receipt(n)
      /\ UNCHANGED <<graph, plan, outbox, anchors, outcomes, idem, busy, history>>
  BY DEF IInv, Typed, PauseForContinuation, Runs, Next1, Candidates, Pauses
<1> DEFINE r == [exec[c] EXCEPT !.at = "answer", !.end = "waiting"]
           w == IF att[n].state = "pending" THEN [att[n] EXCEPT !.state = "ready"] ELSE att[n]
           v == IF waits[n].phase = "none" THEN [waits[n] EXCEPT !.phase = "waiting"] ELSE waits[n]
<1>2. /\ r \in CallRows /\ r.at = "answer" /\ r.q = exec[c].q /\ r.left = exec[c].left /\ r.end = "waiting"
  <2>1. exec[c] \in CallRows
    BY <1>1
  <2> QED
    BY <2>1 DEF CallRows, Executing, Holding
<1>3. Set(c, r)
  BY DEF PauseForContinuation
<1> HIDE DEF r
<1>4. Moves(c) /\ exec'[c] = r /\ graph' = graph
  BY <1>1, <1>2, <1>3, Puts DEF Moves
<1>5. Nodes' = Nodes /\ CallRows' = CallRows /\ BoxRows' = BoxRows /\ Drawn' /\ BoxStays
  BY <1>1, <1>4, SameGraph DEF Typed, BoxStays
<1>6. /\ att \in [Nodes -> NodeRows] /\ att[n] \in NodeRows
      /\ waits \in [Nodes -> [phase : {"none", "waiting", "reviewed", "approved"}, by : 0..MaxReviews]]
      /\ waits[n] \in [phase : {"none", "waiting", "reviewed", "approved"}, by : 0..MaxReviews]
  BY <1>1 DEF Typed
<1>7. /\ att' = [att EXCEPT ![n] = w] /\ w \in NodeRows /\ w.subject = att[n].subject /\ w.skip = att[n].skip
      /\ att[n].state = "pending" => w.state = "ready"
      /\ att[n].state # "pending" => w = att[n]
  BY <1>6 DEF PauseForContinuation, NodeRows
<1>8. /\ waits' = [waits EXCEPT ![n] = v] /\ v \in [phase : {"none", "waiting", "reviewed", "approved"}, by : 0..MaxReviews]
      /\ waits[n].phase = "none" => v.phase = "waiting"
      /\ waits[n].phase # "none" => v = waits[n]
  <2>1. waits' = IF waits[n].phase = "none" THEN [waits EXCEPT ![n].phase = "waiting"] ELSE waits
    BY DEF PauseForContinuation
  <2> QED
    BY <1>6, <2>1
<1> HIDE DEF w, v
<1>9. /\ att' \in [Nodes -> NodeRows] /\ RowsStay /\ att'[n] = w /\ \A m \in Nodes \ {n} : att'[m] = att[m]
      /\ waits' \in [Nodes -> [phase : {"none", "waiting", "reviewed", "approved"}, by : 0..MaxReviews]]
      /\ waits'[n] = v /\ \A m \in Nodes \ {n} : waits'[m] = waits[m]
  BY <1>6, <1>7, <1>8 DEF RowsStay, Settled
<1>10. run' = [run EXCEPT !.state = "stopping"] /\ run'.state = "stopping"
       /\ run' \in [state : {"absent", "admitted", "running", "stopping", "completed", "failed", "quarantined"}, left : 0..1]
  BY <1>1 DEF PauseForContinuation, Typed
<1>11. RowsAgree'
  <2>1. \A m \in Nodes : /\ att'[m].skip => att'[m].state = "cancelled"
                         /\ att'[m].subject # "none" => att'[m].state = "succeeded"
    BY <1>1, <1>6, <1>7, <1>9 DEF RowsAgree
  <2> QED
    BY <1>1, <1>5, <2>1 DEF RowsAgree
<1>12. Typed'
  BY <1>1, <1>4, <1>5, <1>9, <1>10 DEF Typed, Moves, history
<1>13. Held(c)' /\ SpineAgrees(c)'
  BY <1>1, <1>2, <1>4, <1>5 DEF Held, SpineAgrees, Holding, AtSlot, AtNode
<1>14. Spines'
  BY <1>1, <1>2, <1>4, <1>9, <1>10, <1>13, SpinesStay
<1>15. Approved'
  <2>1. \A m \in Nodes : Receipt(m) => Receipt(m)'
    BY <1>1, <1>9 DEF Receipt
  <2> QED
    BY <1>1, <1>5, <2>1, ApprovedStays
<1>16. ASSUME ~replayed PROVE Alone' /\ RunAgrees' /\ BoxAgrees' /\ PredecessorsFirst'
  <2>1. Alone /\ RunAgrees /\ BoxAgrees /\ PredecessorsFirst
    BY <1>16 DEF IInv, Sole
  <2>2. WorkAgrees(c) /\ run.state \in {"admitted", "running"} /\ att[n].state = "pending"
    BY <1>1, <2>1 DEF Alone, WorkAgrees, Executing, Holding
  <2>3. WorkAgrees(c)'
    BY <1>2, <1>4 DEF WorkAgrees
  <2>4. Alone' /\ \A d \in Calls \ {c} : exec'[d].at \notin Executing
    BY <1>1, <1>2, <1>4, <1>10, <2>1, <2>2, <2>3, AloneStays DEF Executing, Holding
  <2>5. RunAgrees'
    <3>1. \A m \in Nodes : waits[m].phase \notin {"waiting", "reviewed"}
      BY <2>1, <2>2 DEF RunAgrees
    <3>2. \A m \in Nodes : waits'[m].phase \in {"waiting", "reviewed"} => m = n
      BY <1>9, <3>1
    <3>3. outcomes = <<>> /\ Len(outcomes) <= 1 /\ up /\ up' = up /\ outcomes' = outcomes
      BY <1>1, <2>1, <2>2 DEF RunAgrees, history
    <3> QED
      BY <1>5, <1>7, <1>9, <1>10, <2>2, <3>2, <3>3 DEF RunAgrees
  <2>6. \A i \in DOMAIN outbox : Covered(i) => Covered(i)'
    BY <1>1, <1>2, <1>4, <2>2 DEF Covered, AtSlot, AtNode, Moves
  <2>7. BoxAgrees'
    BY <1>1, <1>9, <2>1, <2>2, <2>6, BoxUnchanged
  <2>8. PredecessorsFirst'
    BY <1>1, <1>5, <1>9, <2>1, <1>16, PredecessorsStay
  <2> QED
    BY <2>4, <2>5, <2>7, <2>8
<1> QED
  BY <1>1, <1>4, <1>5, <1>11, <1>12, <1>13, <1>14, <1>15, <1>16, Assembles DEF history

LEMMA DispatchKeeps ==
  ASSUME WorkflowBounds, IInv, NEW c \in Calls, NEW n \in Nodes, Dispatch(c, n)
  PROVE  IInv'
<1>1. /\ Typed /\ Held(c) /\ exec[c] \in CallRows /\ RowsAgree /\ Spines /\ Approved
      /\ busy = {c} /\ busy' \in {{}, {c}} /\ exec[c].at = "loop" /\ n \in exec[c].todo /\ ~Pauses(n)
      /\ Route(n, exec[c].outs) = "ready" /\ outbox' = Append(outbox, Row(n))
      /\ UNCHANGED <<graph, plan, waits, anchors, outcomes, idem, history>>
  BY DEF IInv, Typed, Dispatch, Runs, Next1, Candidates
<1> DEFINE r == [exec[c] EXCEPT !.at = "working", !.node = n, !.slot = Len(outbox) + 1]
           w == IF att[n].state = "pending" THEN [att[n] EXCEPT !.state = "running"] ELSE att[n]
<1>2. Len(outbox) \in Nat /\ n \in Nat \ {0} /\ 0 \notin Nodes
  BY <1>1, BoxTyped DEF Typed, Drawn
<1>3. /\ r \in CallRows /\ r.at = "working" /\ r.q = exec[c].q /\ r.left = exec[c].left /\ r.node = n
      /\ r.slot = Len(outbox) + 1 /\ r.todo = exec[c].todo /\ r.outs = exec[c].outs
  <2>1. exec[c] \in CallRows
    BY <1>1
  <2> QED
    <3> DEFINE k == Len(outbox) + 1
    <3>1. k \in Nat /\ n \in Nat
      BY <1>2
    <3>2. r = [exec[c] EXCEPT !.at = "working", !.node = n, !.slot = k] /\ k = Len(outbox) + 1
      OBVIOUS
    <3> HIDE DEF k, r
    <3> QED
      BY <2>1, <3>1, <3>2 DEF CallRows, Executing, AtSlot, AtNode
<1>4. Set(c, r)
  BY DEF Dispatch
<1> HIDE DEF r
<1>5. Moves(c) /\ exec'[c] = r /\ graph' = graph
  BY <1>1, <1>3, <1>4, Puts DEF Moves
<1>6. /\ Row(n) \in BoxRows /\ Row(n).node = n /\ Row(n).phase = "claimed" /\ Row(n).work = "none"
      /\ outbox' \in Seq(BoxRows) /\ DOMAIN outbox' = 1..Len(outbox) + 1 /\ DOMAIN outbox = 1..Len(outbox)
      /\ \A i \in DOMAIN outbox : outbox'[i] = outbox[i]
      /\ outbox'[Len(outbox) + 1] = Row(n)
  <2>1. Row(n) \in BoxRows /\ Row(n).node = n /\ Row(n).phase = "claimed" /\ Row(n).work = "none"
    BY DEF Row, BoxRows
  <2>2. outbox \in Seq(BoxRows)
    BY <1>1 DEF Typed
  <2> HIDE DEF Row
  <2> QED
    BY <1>1, <2>1, <2>2
<1>7. Nodes' = Nodes /\ CallRows' = CallRows /\ BoxRows' = BoxRows /\ Drawn' /\ BoxStays
  BY <1>1, <1>2, <1>5, <1>6, SameGraph DEF Typed, BoxStays
<1>8. att \in [Nodes -> NodeRows] /\ att[n] \in NodeRows
  BY <1>1 DEF Typed
<1>9. /\ att' = [att EXCEPT ![n] = w] /\ w \in NodeRows /\ w.subject = att[n].subject /\ w.skip = att[n].skip
      /\ att[n].state = "pending" => w.state = "running"
      /\ att[n].state # "pending" => w = att[n]
  <2>1. att' = IF att[n].state = "pending" THEN [att EXCEPT ![n].state = "running"] ELSE att
    BY DEF Dispatch
  <2> QED
    BY <1>8, <2>1 DEF NodeRows
<1> HIDE DEF w
<1>10. att' \in [Nodes -> NodeRows] /\ RowsStay /\ att'[n] = w /\ \A m \in Nodes \ {n} : att'[m] = att[m]
  BY <1>8, <1>9 DEF RowsStay, Settled
<1>11. /\ run' \in [state : {"absent", "admitted", "running", "stopping", "completed", "failed", "quarantined"}, left : 0..1]
       /\ run.state \in {"admitted", "running"} => run'.state = "running"
       /\ run.state \notin {"admitted", "running"} => run' = run
  BY <1>1 DEF Dispatch, Typed
<1>12. RowsAgree'
  <2>1. \A m \in Nodes : /\ att'[m].skip => att'[m].state = "cancelled"
                         /\ att'[m].subject # "none" => att'[m].state = "succeeded"
    BY <1>1, <1>8, <1>9, <1>10 DEF RowsAgree
  <2>2. \A i \in DOMAIN outbox' : outbox'[i].node = 0 => outbox'[i].work = "none"
    BY <1>1, <1>2, <1>6 DEF RowsAgree
  <2> QED
    BY <1>1, <1>7, <2>1, <2>2 DEF RowsAgree
<1>13. Typed'
  BY <1>1, <1>5, <1>6, <1>7, <1>10, <1>11 DEF Typed, Moves, history
<1>14. Held(c)' /\ SpineAgrees(c)'
  BY <1>1, <1>2, <1>3, <1>5, <1>6, <1>7 DEF Held, SpineAgrees, Holding, AtSlot, AtNode
<1>15. Spines'
  BY <1>1, <1>3, <1>5, <1>10, <1>11, <1>14, SpinesStay
<1>16. Approved'
  <2>2. graph.kind[n] = "continue" => Receipt(n)'
    BY <1>1 DEF Pauses, Receipt
  <2>3. \A m \in Nodes : Receipt(m) => Receipt(m)'
    BY <1>1 DEF Receipt
  <2>4. ASSUME NEW i \in DOMAIN outbox'
        PROVE  (i \in DOMAIN outbox /\ outbox'[i].node = outbox[i].node)
             \/ (outbox[i].node # 0 /\ graph.kind[outbox[i].node] = "continue" => Receipt(outbox[i].node))'
    <3>1. CASE i \in DOMAIN outbox
      BY <1>6, <3>1
    <3>2. CASE i = Len(outbox) + 1
      <4>1. outbox'[i].node = n
        BY <1>6, <3>2
      <4> QED
        BY <1>5, <2>2, <4>1 DEF Receipt
    <3> QED
      BY <1>2, <1>6, <3>1, <3>2
  <2> QED
    BY <1>1, <2>3, <2>4, ApprovedStays
<1>17. ASSUME ~replayed PROVE Alone' /\ RunAgrees' /\ BoxAgrees' /\ PredecessorsFirst'
  <2>1. Alone /\ RunAgrees /\ BoxAgrees /\ PredecessorsFirst
    BY <1>17 DEF IInv, Sole
  <2>2. WorkAgrees(c) /\ run.state \in {"admitted", "running"} /\ att[n].state = "pending" /\ run'.state = "running"
    BY <1>1, <1>11, <2>1 DEF Alone, WorkAgrees, Executing, Holding
  <2>3. /\ \A m \in r.todo : att[m].state = "pending"
        /\ \A m \in Nodes : /\ r.outs[m] = "skipped" => att[m].skip
                            /\ r.outs[m] \in Ports => att[m].state \in {"succeeded", "failed"} /\ att[m].out = r.outs[m]
    BY <1>1, <1>3, <2>2 DEF WorkAgrees, Executing, Holding
  <2>4. WorkAgrees(c)'
    <3>1. \A m \in r.todo \ {n} : att'[m].state = "pending"
      BY <1>3, <1>10, <2>3 DEF CallRows
    <3>2. \A m \in Nodes : /\ r.outs[m] = "skipped" => att'[m].skip
                           /\ r.outs[m] \in Ports => att'[m].state \in {"succeeded", "failed"} /\ att'[m].out = r.outs[m]
      BY <1>9, <1>10, <2>2, <2>3
    <3>3. att'[n].state = "running" /\ outbox'[r.slot].phase = "claimed"
      BY <1>3, <1>6, <1>9, <1>10, <2>2
    <3> QED
      BY <1>3, <1>5, <1>7, <3>1, <3>2, <3>3 DEF WorkAgrees, AtNode, AtSlot
  <2>5. Alone' /\ \A d \in Calls \ {c} : exec'[d].at \notin Executing
    BY <1>1, <1>3, <1>5, <2>1, <2>2, <2>4, AloneStays DEF Executing, Holding
  <2>6. RunAgrees'
    <3>1. \A m \in Nodes : waits'[m].phase \notin {"waiting", "reviewed"}
      BY <1>1, <2>1, <2>2 DEF RunAgrees
    <3>2. outcomes = <<>> /\ Len(outcomes) <= 1 /\ up /\ up' = up /\ outcomes' = outcomes
      BY <1>1, <2>1, <2>2 DEF RunAgrees, history
    <3> QED
      BY <1>7, <3>1, <3>2 DEF RunAgrees
  <2>7. \A i \in DOMAIN outbox : Covered(i) => Covered(i)'
    BY <1>1, <1>3, <1>5, <2>2 DEF Covered, AtSlot, AtNode, Moves
  <2>8. \A i \in DOMAIN outbox : outbox[i].node # n
    BY <1>2, <2>1, <2>2 DEF BoxAgrees
  <2>9. BoxAgrees'
    <3>1. \A i \in DOMAIN outbox' : outbox'[i].node # 0 => att'[outbox'[i].node].state \in {"running", "succeeded", "failed", "quarantined"}
      <4>1. \A i \in DOMAIN outbox : outbox[i].node # 0 => att'[outbox[i].node].state \in {"running", "succeeded", "failed", "quarantined"}
        BY <1>1, <1>10, <2>1, <2>8, BoxTyped DEF BoxAgrees
      <4>2. att'[n].state = "running"
        BY <1>9, <1>10, <2>2
      <4> QED
        BY <1>2, <1>6, <4>1, <4>2
    <3>2. \A i, j \in DOMAIN outbox' : i # j /\ outbox'[i].node # 0 => outbox'[i].node # outbox'[j].node
      BY <1>2, <1>6, <2>1, <2>8 DEF BoxAgrees
    <3>3. \A i \in DOMAIN outbox' : Loose(i)' => Covered(i)'
      <4>1. ASSUME NEW i \in DOMAIN outbox', i = Len(outbox) + 1 PROVE Covered(i)'
        BY <1>3, <1>5, <4>1 DEF Covered, AtSlot, AtNode
      <4>2. \A i \in DOMAIN outbox : Loose(i)' => Loose(i)
        BY <1>6 DEF Loose
      <4>3. \A i \in DOMAIN outbox : Loose(i)' => Covered(i)'
        BY <2>1, <2>7, <4>2 DEF BoxAgrees
      <4> QED
        BY <1>2, <1>6, <4>1, <4>3
    <3> QED
      BY <3>1, <3>2, <3>3 DEF BoxAgrees
  <2>10. PredecessorsFirst'
    <3>1. Preceded(n)'
      <4>1. Into(n) # {} => /\ \A e \in Into(n) : exec[c].outs[e.src] # "none"
                            /\ \E e \in Into(n) : Carries(e, exec[c].outs)
        BY <1>1 DEF Route
      <4>2. \A e \in Into(n) : e.src \in Nodes
        BY <1>1 DEF Into, Typed, Drawn
      <4>3. \A e \in Into(n) : exec[c].outs[e.src] # "none" =>
              \/ exec[c].outs[e.src] = "skipped" /\ att[e.src].skip /\ att[e.src].state = "cancelled"
              \/ /\ exec[c].outs[e.src] \in Ports /\ att[e.src].state \in {"succeeded", "failed"}
                 /\ att[e.src].out = exec[c].outs[e.src]
        BY <1>1, <1>3, <2>3, <4>2 DEF CallRows, RowsAgree
      <4>4. \A e \in Into(n) : att[e.src].state \in Settled => att'[e.src] = att[e.src]
        BY <1>10, <4>2 DEF RowsStay
      <4>5. \A e \in Into(n) : att[e.src].state \in {"succeeded", "failed"} => ~att[e.src].skip
        BY <1>1, <4>2 DEF RowsAgree
      <4>6. \A e \in Into(n) : Carries(e, exec[c].outs) /\ exec[c].outs[e.src] # "none" =>
              ~att'[e.src].skip /\ (e.port = "finally" \/ att'[e.src].out = e.port)
        BY <4>3, <4>4, <4>5 DEF Carries, Settled
      <4>7. \A e \in Into(n) : exec[c].outs[e.src] # "none" => att'[e.src].state \in {"succeeded", "failed"} \/ att'[e.src].skip
        BY <4>3, <4>4 DEF Settled
      <4>8. Into(n)' = Into(n)
        BY <1>5, SameGraph
      <4> QED
        BY <4>1, <4>6, <4>7, <4>8 DEF Preceded
    <3>2. ASSUME NEW i \in DOMAIN outbox'
          PROVE  (i \in DOMAIN outbox /\ outbox'[i].node = outbox[i].node) \/ (outbox[i].node # 0 => Preceded(outbox[i].node))'
      <4>1. CASE i \in DOMAIN outbox
        BY <1>6, <4>1
      <4>2. CASE i = Len(outbox) + 1
        <5>1. outbox'[i].node = n
          BY <1>6, <4>2
        <5> QED
          BY <3>1, <5>1 DEF Preceded
      <4> QED
        BY <1>2, <1>6, <4>1, <4>2
    <3> QED
      BY <1>1, <1>5, <1>10, <2>1, <3>2, <1>17, PredecessorsStay
  <2> QED
    BY <2>5, <2>6, <2>9, <2>10
<1> QED
  BY <1>1, <1>5, <1>7, <1>12, <1>13, <1>14, <1>15, <1>16, <1>17, Assembles DEF history

\* The result of a node: its row is settled, and its outbox row answered for.
LEMMA ResultKeeps ==
  ASSUME WorkflowBounds, IInv, NEW c \in Calls, exec[c].at \in AtNode, busy \in {{}, {c}},
         NEW out \in Ports \cup {"none"}, NEW left \in 0..1, NEW subject \in Subjects \cup {"none"},
         NEW work \in {"none", "live", "ok", "failed", "residual"},
         work \in {"live", "residual"} => left = 1, out # "none" => left = 0, subject # "none" => out # "none",
         Result(c, out, left, subject, work)
  PROVE  IInv'
<1> DEFINE n == exec[c].node
           shown == IF out = "none" /\ Handled(n, left) THEN "failure" ELSE out
           b == [outbox[exec[c].slot] EXCEPT !.work = work,
                   !.phase = IF outbox[exec[c].slot].phase = "claimed" THEN "completed" ELSE outbox[exec[c].slot].phase]
           w == IF att[n].state = "running"
                THEN [state |-> IF out = "none" THEN "failed" ELSE "succeeded", out |-> shown, skip |-> FALSE, subject |-> subject]
                ELSE att[n]
           r == IF shown = "none" THEN [exec[c] EXCEPT !.at = "finish", !.end = "failed", !.left = left]
                ELSE [exec[c] EXCEPT !.at = "loop", !.todo = @ \ {n}, !.outs[n] = shown]
<1>1. /\ Typed /\ Held(c) /\ exec[c] \in CallRows /\ RowsAgree /\ Spines /\ Approved
      /\ n \in Nodes /\ exec[c].slot \in DOMAIN outbox /\ outbox[exec[c].slot].node = n /\ exec[c].left = 0
      /\ UNCHANGED <<graph, plan, run, waits, anchors, outcomes, idem, history>> /\ busy' = {c}
  BY DEF IInv, Typed, Held, AtSlot, AtNode, Result
<1>2. /\ outbox' = [outbox EXCEPT ![exec[c].slot] = b]
      /\ att' = IF att[n].state = "running" THEN [att EXCEPT ![n] = w] ELSE att
      /\ Set(c, r)
  <2>1. /\ outbox' = [outbox EXCEPT ![exec[c].slot].work = work,
                         ![exec[c].slot].phase = IF @ = "claimed" THEN "completed" ELSE @]
        /\ att' = IF att[n].state = "running" THEN [att EXCEPT ![n] = w] ELSE att
        /\ Set(c, r)
    BY DEF Result
  <2>2. outbox[exec[c].slot] \in BoxRows /\ outbox \in Seq(BoxRows) /\ exec[c].slot \in DOMAIN outbox
    BY <1>1, BoxTyped DEF Typed
  <2>3. outbox' = [outbox EXCEPT ![exec[c].slot] = b]
    BY <2>1, <2>2 DEF BoxRows
  <2> QED
    BY <2>1, <2>3
<1>3. shown \in Ports \cup {"none"} /\ (shown = "none" => out = "none") /\ (shown # "none" => left = 0)
  BY DEF Ports, Handled
<1> HIDE DEF shown
<1>4. /\ r \in CallRows /\ r.at \in {"loop", "finish"} /\ r.q = exec[c].q
      /\ r.at = "loop" => /\ shown # "none" /\ r.left = 0 /\ r.todo = exec[c].todo \ {n} /\ r.outs[n] = shown
                          /\ \A m \in Nodes \ {n} : r.outs[m] = exec[c].outs[m]
      /\ r.at = "finish" => shown = "none" /\ r.end = "failed" /\ r.left = left /\ r.outs = exec[c].outs
  <2>1. exec[c] \in CallRows /\ n \in Nodes
    BY <1>1
  <2>2. CASE shown = "none"
    BY <2>1, <2>2 DEF CallRows, Executing, Holding
  <2>3. CASE shown # "none"
    <3>1. exec[c].outs \in [Nodes -> Ports \cup {"none", "skipped"}] /\ exec[c].todo \subseteq Nodes /\ exec[c].left = 0
      BY <1>1, <2>1 DEF CallRows
    <3>2. [exec[c].outs EXCEPT ![n] = shown] \in [Nodes -> Ports \cup {"none", "skipped"}] /\ exec[c].todo \ {n} \subseteq Nodes
      BY <1>3, <3>1
    <3> DEFINE o == [exec[c].outs EXCEPT ![n] = shown]
               T == exec[c].todo \ {n}
    <3>3. o[n] = shown /\ \A m \in Nodes \ {n} : o[m] = exec[c].outs[m]
      BY <2>1, <3>1
    <3>4. r = [exec[c] EXCEPT !.at = "loop", !.todo = T, !.outs = o]
      BY <2>1, <2>3 DEF CallRows
    <3> HIDE DEF o, T, r
    <3>5. r \in CallRows /\ r.at = "loop" /\ r.q = exec[c].q /\ r.left = exec[c].left /\ r.todo = T /\ r.outs = o
      BY <2>1, <3>2, <3>4 DEF CallRows, Executing, Holding, o, T
    <3> QED
      BY <2>3, <3>1, <3>3, <3>5 DEF T
  <2> QED
    BY <2>2, <2>3
<1> HIDE DEF r
<1>5. Moves(c) /\ exec'[c] = r /\ graph' = graph
  BY <1>1, <1>2, <1>4, Puts DEF Moves
<1>6. /\ b \in BoxRows /\ b.node = n /\ b.work = work /\ b.phase # "claimed"
      /\ outbox[exec[c].slot].phase = "claimed" => b.phase = "completed"
  <2>1. outbox[exec[c].slot] \in BoxRows
    BY <1>1, BoxTyped
  <2> QED
    BY <1>1, <2>1 DEF BoxRows
<1> HIDE DEF b
<1>7. /\ outbox' \in Seq(BoxRows) /\ DOMAIN outbox' = DOMAIN outbox /\ outbox'[exec[c].slot] = b
      /\ \A i \in DOMAIN outbox : i # exec[c].slot => outbox'[i] = outbox[i]
  BY <1>1, <1>2, <1>6 DEF Typed
<1>8. Nodes' = Nodes /\ CallRows' = CallRows /\ BoxRows' = BoxRows /\ Drawn' /\ BoxStays
  BY <1>1, <1>5, <1>6, <1>7, SameGraph DEF Typed, BoxStays
<1>9. att \in [Nodes -> NodeRows] /\ att[n] \in NodeRows /\ n # 0
  BY <1>1, BoxTyped DEF Typed
<1>10. /\ w \in NodeRows
       /\ att[n].state = "running" =>
            /\ w.state = IF out = "none" THEN "failed" ELSE "succeeded"
            /\ w.out = shown /\ ~w.skip /\ w.subject = subject
       /\ att[n].state # "running" => w = att[n]
  BY <1>3, <1>9 DEF NodeRows, Settled
<1> HIDE DEF w
<1>11. att' \in [Nodes -> NodeRows] /\ RowsStay /\ att'[n] = w /\ \A m \in Nodes \ {n} : att'[m] = att[m]
  BY <1>1, <1>2, <1>9, <1>10 DEF RowsStay, Settled
<1>12. RowsAgree'
  <2>1. \A m \in Nodes : /\ att'[m].skip => att'[m].state = "cancelled"
                         /\ att'[m].subject # "none" => att'[m].state = "succeeded"
    BY <1>1, <1>10, <1>11 DEF RowsAgree
  <2>2. \A i \in DOMAIN outbox' : outbox'[i].node = 0 => outbox'[i].work = "none"
    BY <1>1, <1>6, <1>7, <1>9 DEF RowsAgree
  <2> QED
    BY <1>1, <1>8, <2>1, <2>2 DEF RowsAgree
<1>13. Typed'
  BY <1>1, <1>5, <1>7, <1>8, <1>11 DEF Typed, Moves, history
<1>14. Held(c)' /\ SpineAgrees(c)'
  BY <1>1, <1>4, <1>5, <1>8 DEF Held, SpineAgrees, Holding, AtSlot, AtNode
<1>15. Spines'
  <2>1. run' = run /\ anchors' = anchors /\ exec'[c].at # "anchoring"
    BY <1>1, <1>4, <1>5
  <2> QED
    BY <1>1, <1>5, <1>11, <1>14, <2>1, SpinesStay
<1>16. Approved'
  <2>1. \A m \in Nodes : Receipt(m) => Receipt(m)'
    BY <1>1 DEF Receipt
  <2>2. \A i \in DOMAIN outbox' : i \in DOMAIN outbox /\ outbox'[i].node = outbox[i].node
    BY <1>7, <1>8 DEF BoxStays
  <2> QED
    BY <1>1, <2>1, <2>2, ApprovedStays
<1>17. ASSUME ~replayed PROVE Alone' /\ RunAgrees' /\ BoxAgrees' /\ PredecessorsFirst'
  <2>1. Alone /\ RunAgrees /\ BoxAgrees /\ PredecessorsFirst
    BY <1>17 DEF IInv, Sole
  <2>2. exec[c].at \in Executing \ {"answer"}
    BY DEF Executing, AtSlot, AtNode
  <2>3. /\ WorkAgrees(c) /\ run.state \in {"admitted", "running"} /\ att[n].state = "running"
        /\ outbox[exec[c].slot].phase = "claimed"
        /\ \A m \in exec[c].todo \ {n} : att[m].state = "pending"
        /\ \A m \in Nodes : /\ exec[c].outs[m] = "skipped" => att[m].skip
                            /\ exec[c].outs[m] \in Ports => att[m].state \in {"succeeded", "failed"} /\ att[m].out = exec[c].outs[m]
    BY <2>1, <2>2 DEF Alone, WorkAgrees, AtSlot
  <2>4. WorkAgrees(c)'
    <3>1. exec[c].outs[n] # "skipped" /\ exec[c].outs[n] \notin Ports
      BY <1>1, <2>3 DEF RowsAgree
    <3>2. r.at = "loop" => \A m \in r.todo : att'[m].state = "pending"
      BY <1>1, <1>4, <1>11, <2>3 DEF CallRows
    <3>3. \A m \in Nodes : /\ r.outs[m] = "skipped" => att'[m].skip
                           /\ r.outs[m] \in Ports => att'[m].state \in {"succeeded", "failed"} /\ att'[m].out = r.outs[m]
      <4>1. ASSUME NEW m \in Nodes \ {n}
            PROVE  /\ r.outs[m] = "skipped" => att'[m].skip
                   /\ r.outs[m] \in Ports => att'[m].state \in {"succeeded", "failed"} /\ att'[m].out = r.outs[m]
        BY <1>4, <1>11, <2>3
      <4>2. shown # "skipped"
        BY <1>3 DEF Ports
      <4>3. /\ r.outs[n] = "skipped" => att'[n].skip
            /\ r.outs[n] \in Ports => att'[n].state \in {"succeeded", "failed"} /\ att'[n].out = r.outs[n]
        BY <1>1, <1>4, <1>10, <1>11, <2>3, <3>1, <4>2
      <4> QED
        BY <1>1, <4>1, <4>3
    <3> QED
      BY <1>4, <1>5, <1>8, <3>2, <3>3 DEF WorkAgrees, AtNode, AtSlot
  <2>5. Alone' /\ \A d \in Calls \ {c} : exec'[d].at \notin Executing
    BY <1>1, <1>4, <1>5, <2>1, <2>2, <2>3, <2>4, AloneStays
  <2>6. RunAgrees'
    BY <1>1, <1>8, <2>1, <2>3 DEF RunAgrees, history
  <2>7. BoxAgrees'
    <3>1. \A i \in DOMAIN outbox' : outbox'[i].node = outbox[i].node
      BY <1>7, <1>8 DEF BoxStays
    <3>2. \A i \in DOMAIN outbox' : outbox'[i].node # 0 => att'[outbox'[i].node].state \in {"running", "succeeded", "failed", "quarantined"}
      BY <1>1, <1>7, <1>10, <1>11, <2>1, <2>3, <3>1, BoxTyped DEF BoxAgrees
    <3>3. \A i, j \in DOMAIN outbox' : i # j /\ outbox'[i].node # 0 => outbox'[i].node # outbox'[j].node
      BY <1>7, <2>1, <3>1 DEF BoxAgrees
    <3>4. \A d \in Calls \ {c} : exec[d].at \notin Executing
      BY <2>1, <2>2 DEF Alone
    <3>5. ASSUME NEW i \in DOMAIN outbox', Loose(i)' PROVE Covered(i)'
      <4>1. CASE i = exec[c].slot
        <5>1. r.at = "finish" /\ r.left = 1
          BY <1>3, <1>4, <1>6, <1>7, <2>3, <3>5, <4>1 DEF Loose
        <5> QED
          BY <1>5, <5>1 DEF Covered
      <4>2. CASE i # exec[c].slot
        <5>1. Covered(i)
          BY <1>7, <2>1, <3>5, <4>2 DEF Loose, BoxAgrees
        <5> QED
          BY <1>1, <2>3, <3>4, <4>2, <5>1 DEF Covered, Executing, Holding, AtNode
      <4> QED
        BY <4>1, <4>2
    <3> QED
      BY <3>2, <3>3, <3>5 DEF BoxAgrees
  <2>8. PredecessorsFirst'
    <3>1. \A i \in DOMAIN outbox' : i \in DOMAIN outbox /\ outbox'[i].node = outbox[i].node
      BY <1>7, <1>8 DEF BoxStays
    <3> QED
      BY <1>1, <1>5, <1>11, <2>1, <3>1, <1>17, PredecessorsStay
  <2> QED
    BY <2>5, <2>6, <2>7, <2>8
<1> QED
  BY <1>1, <1>5, <1>8, <1>12, <1>13, <1>14, <1>15, <1>16, <1>17, Assembles DEF history

\* A node's work comes to its result, in whichever executor.
LEMMA NodeKeeps ==
  ASSUME WorkflowBounds, IInv, NEW c \in Calls,
         \/ ExecuteControl(c) \/ ExecuteSpecificationApproval(c) \/ ExecuteExternalNode(c)
         \/ AgentSeen(c) \/ CancelAttempt(c)
  PROVE  IInv'
<1>1. Typed /\ Held(c)
  BY DEF IInv
<1>2. Free => busy \in {{}, {c}}
  BY DEF Free
<1>3. CASE ExecuteControl(c)
  <2>1. Transition(exec[c].node, exec[c].outs) \in Ports \cup {"none"}
    BY DEF Transition, Ports
  <2>2. Result(c, Transition(exec[c].node, exec[c].outs), 0, "none", "none") /\ exec[c].at \in AtNode /\ busy = {c}
    BY <1>3 DEF ExecuteControl, Runs, AtNode
  <2> QED
    BY <2>1, <2>2, ResultKeeps
<1>4. CASE ExecuteSpecificationApproval(c)
  <2>1. exec[c].at \in AtNode /\ busy = {}
    BY <1>4 DEF ExecuteSpecificationApproval, Awaits, Free, AtNode
  <2>2. PICK out \in {"success", "none"} : Result(c, out, 0, "none", "none")
    BY <1>4 DEF ExecuteSpecificationApproval
  <2>3. out \in Ports \cup {"none"}
    BY DEF Ports
  <2> QED
    BY <2>1, <2>2, <2>3, ResultKeeps
<1>5. CASE ExecuteExternalNode(c)
  <2>1. exec[c].at \in AtNode /\ busy = {}
    BY <1>5 DEF ExecuteExternalNode, Awaits, Free, AtNode
  <2>2. \/ \E s \in Subjects : Result(c, "success", 0, s, "none")
        \/ Result(c, "none", 0, "none", "none")
        \/ Result(c, "none", 1, "none", "live")
    BY <1>5 DEF ExecuteExternalNode
  <2>3. ASSUME NEW s \in Subjects, Result(c, "success", 0, s, "none") PROVE IInv'
    <3>1. "success" \in Ports \cup {"none"}
      BY DEF Ports
    <3> QED
      BY <2>1, <2>3, <3>1, ResultKeeps
  <2>4. CASE Result(c, "none", 0, "none", "none")
    BY <2>1, <2>4, ResultKeeps
  <2>5. CASE Result(c, "none", 1, "none", "live")
    BY <2>1, <2>5, ResultKeeps
  <2> QED
    BY <2>2, <2>3, <2>4, <2>5
<1>6. CASE AgentSeen(c)
  <2> DEFINE w == outbox[exec[c].slot].work
  <2>1. exec[c].at \in AtNode /\ busy = {} /\ w # "live"
    BY <1>6 DEF AgentSeen, Awaits, Free, AtNode, Live
  <2>2. w \in {"none", "live", "ok", "failed", "residual"}
    BY <1>1, <2>1, BoxTyped DEF Held, AtSlot, BoxRows
  <2>3. Result(c, IF w = "ok" THEN "success" ELSE "none", IF w = "residual" THEN 1 ELSE 0, "none", w)
    BY <1>6 DEF AgentSeen
  <2> HIDE DEF w
  <2>4. (IF w = "ok" THEN "success" ELSE "none") \in Ports \cup {"none"}
    BY DEF Ports
  <2> QED
    BY <2>1, <2>2, <2>3, <2>4, ResultKeeps
<1>7. CASE CancelAttempt(c)
  <2> DEFINE w == outbox[exec[c].slot].work
  <2>1. exec[c].at \in AtNode /\ busy = {}
    BY <1>7 DEF CancelAttempt, Awaits, Free, AtNode
  <2>2. w \in {"none", "live", "ok", "failed", "residual"}
    BY <1>1, <2>1, BoxTyped DEF Held, AtSlot, BoxRows
  <2>3. \/ Result(c, "none", 0, "none", "failed")
        \/ Result(c, "none", 1, "none", "live")
        \/ w # "live" /\ Result(c, "none", IF w = "residual" THEN 1 ELSE 0, "none", w)
    BY <1>7 DEF CancelAttempt, Live
  <2> HIDE DEF w
  <2>4. CASE Result(c, "none", 0, "none", "failed")
    BY <2>1, <2>4, ResultKeeps
  <2>5. CASE Result(c, "none", 1, "none", "live")
    BY <2>1, <2>5, ResultKeeps
  <2>6. CASE w # "live" /\ Result(c, "none", IF w = "residual" THEN 1 ELSE 0, "none", w)
    BY <2>1, <2>2, <2>6, ResultKeeps
  <2> QED
    BY <2>3, <2>4, <2>5, <2>6
<1> QED
  BY <1>3, <1>4, <1>5, <1>6, <1>7

\* An attempt starts for the call that waits for it, or ends by itself.
LEMMA BoxWorks ==
  ASSUME IInv, NEW i \in DOMAIN outbox, NEW work \in {"live", "ok", "failed", "residual"}, busy = {}, busy' = {},
         outbox' = [outbox EXCEPT ![i].work = work], outbox[i].node # 0, exec' \in [Calls -> CallRows],
         \A d \in Calls :
           \/ exec'[d] = exec[d]
           \/ exec[d].at = "working" /\ exec[d].slot = i /\ exec'[d] = [exec[d] EXCEPT !.at = "watching"],
         outbox[i].work = "live" \/ \E d \in Calls : exec'[d].at \in AtSlot /\ exec'[d].slot = i,
         UNCHANGED <<graph, plan, run, att, waits, anchors, outcomes, idem, history>>
  PROVE  IInv'
<1>1. Typed /\ RowsAgree /\ Spines /\ Approved /\ exec \in [Calls -> CallRows] /\ outbox \in Seq(BoxRows)
  BY DEF IInv, Typed
<1>2. \A d \in Calls :
        /\ exec'[d].q = exec[d].q /\ exec'[d].node = exec[d].node /\ exec'[d].slot = exec[d].slot
        /\ exec'[d].todo = exec[d].todo /\ exec'[d].outs = exec[d].outs /\ exec'[d].end = exec[d].end
        /\ exec'[d].left = exec[d].left
        /\ exec'[d].at = exec[d].at \/ (exec[d].at = "working" /\ exec'[d].at = "watching")
  BY <1>1 DEF CallRows
<1>3. /\ outbox' \in Seq(BoxRows) /\ DOMAIN outbox' = DOMAIN outbox
      /\ \A j \in DOMAIN outbox : outbox'[j].node = outbox[j].node /\ outbox'[j].phase = outbox[j].phase
      /\ \A j \in DOMAIN outbox : j # i => outbox'[j] = outbox[j]
  <2>1. outbox[i] \in BoxRows
    BY <1>1
  <2> DEFINE b == [outbox[i] EXCEPT !.work = work]
  <2>2. b \in BoxRows /\ b.node = outbox[i].node /\ b.phase = outbox[i].phase
    BY <2>1 DEF BoxRows
  <2>3. outbox' = [outbox EXCEPT ![i] = b]
    BY <1>1
  <2> HIDE DEF b
  <2> QED
    BY <1>1, <2>2, <2>3
<1>4. graph' = graph /\ Nodes' = Nodes /\ Checks' = Checks /\ CallRows' = CallRows /\ BoxRows' = BoxRows /\ Drawn' /\ BoxStays /\ RowsStay
  BY <1>1, <1>3, SameGraph DEF Typed, BoxStays, RowsStay
<1>5. Typed'
  BY <1>1, <1>3, <1>4 DEF Typed, history
<1>6. \A d \in Calls : Held(d)'
  <2>1. ASSUME NEW d \in Calls PROVE Held(d)'
    <3>1. Held(d) /\ exec[d].at \notin Holding
      BY DEF IInv, Held
    <3>2. exec[d].at \in AtSlot => /\ exec[d].slot \in DOMAIN outbox'
                                  /\ outbox'[exec[d].slot].node = outbox[exec[d].slot].node
      BY <1>3, <3>1 DEF Held
    <3> QED
      BY <1>2, <1>4, <3>1, <3>2 DEF Held, Holding, AtSlot, AtNode
  <2> QED
    BY <2>1
<1>7. RowsAgree'
  <2>1. \A j \in DOMAIN outbox' : outbox'[j].node = 0 => outbox'[j].work = "none"
    BY <1>1, <1>3 DEF RowsAgree
  <2> QED
    BY <1>1, <1>4, <2>1 DEF RowsAgree
<1>8. Spines'
  <2>1. (AllAnchored' <=> AllAnchored) /\ (AllChecked' <=> AllChecked)
    BY <1>4 DEF AllAnchored, AllChecked
  <2>2. \A d \in Calls : SpineAgrees(d)'
    BY <1>1, <1>2, <1>4, <2>1 DEF Spines, SpineAgrees
  <2>3. \A d, f \in Calls : exec'[d].at = "anchoring" /\ exec'[f].at = "anchoring" => d = f
    BY <1>1, <1>2 DEF Spines
  <2>4. (run.state = "completed" /\ Checks # {} => AllChecked /\ AllAnchored)'
    BY <1>1, <1>4, <2>1 DEF Spines
  <2> QED
    BY <2>2, <2>3, <2>4 DEF Spines
<1>9. Approved'
  BY <1>1, <1>3, <1>4, ApprovedStays DEF Receipt
<1>10. ASSUME ~replayed PROVE Alone' /\ RunAgrees' /\ BoxAgrees' /\ PredecessorsFirst'
  <2>1. Alone /\ RunAgrees /\ BoxAgrees /\ PredecessorsFirst
    BY <1>10 DEF IInv, Sole
  <2>2. \A d \in Calls : exec'[d].at \in Executing <=> exec[d].at \in Executing
    BY <1>2 DEF Executing, AtSlot, AtNode
  <2>3. Alone'
    <3>1. \A d \in Calls : WorkAgrees(d)'
      <4>1. ASSUME NEW d \in Calls PROVE WorkAgrees(d)'
        <5>1. WorkAgrees(d) /\ Held(d)
          BY <2>1 DEF Alone, IInv
        <5>2. exec[d].at \in AtSlot => outbox'[exec[d].slot].phase = outbox[exec[d].slot].phase
          BY <1>3, <5>1 DEF Held
        <5> QED
          BY <1>2, <1>4, <2>2, <5>1, <5>2 DEF WorkAgrees, AtSlot, AtNode
      <4> QED
        BY <4>1
    <3> QED
      BY <1>2, <2>1, <2>2, <3>1 DEF Alone
  <2>4. RunAgrees'
    BY <1>4, <2>1 DEF RunAgrees, history
  <2>5. \A j \in DOMAIN outbox : Covered(j) => Covered(j)'
    BY <1>2 DEF Covered, AtSlot, AtNode
  <2>6. \A j \in DOMAIN outbox' : Loose(j)' => Covered(j)'
    <3>1. ASSUME NEW j \in DOMAIN outbox', Loose(j)' PROVE Covered(j)'
      <4>1. CASE j # i
        BY <1>3, <2>1, <2>5, <3>1, <4>1 DEF Loose, BoxAgrees
      <4>2. CASE j = i /\ outbox[i].work = "live"
        BY <2>1, <2>5, <4>2 DEF Loose, BoxAgrees
      <4>3. CASE j = i /\ outbox[i].work # "live"
        BY <4>3 DEF Covered
      <4> QED
        BY <4>1, <4>2, <4>3
    <3> QED
      BY <3>1
  <2>7. BoxAgrees'
    <3>1. \A j \in DOMAIN outbox' : outbox'[j].node # 0 => att'[outbox'[j].node].state \in {"running", "succeeded", "failed", "quarantined"}
      BY <1>3, <2>1 DEF BoxAgrees
    <3>2. \A j, k \in DOMAIN outbox' : j # k /\ outbox'[j].node # 0 => outbox'[j].node # outbox'[k].node
      BY <1>3, <2>1 DEF BoxAgrees
    <3> QED
      BY <2>6, <3>1, <3>2 DEF BoxAgrees
  <2>8. PredecessorsFirst'
    BY <1>1, <1>3, <1>4, <2>1, <1>10, PredecessorsStay
  <2> QED
    BY <2>3, <2>4, <2>7, <2>8
<1> QED
  BY <1>5, <1>6, <1>7, <1>8, <1>9, <1>10 DEF IInv, Sole, history

LEMMA AgentKeeps ==
  ASSUME WorkflowBounds, IInv, (\E c \in Calls : AgentStarts(c)) \/ (\E i \in DOMAIN outbox : AgentEnds(i))
  PROVE  IInv'
<1>1. Typed /\ exec \in [Calls -> CallRows]
  BY DEF IInv, Typed
<1>2. ASSUME NEW c \in Calls, AgentStarts(c) PROVE IInv'
  <2>1. exec[c].at = "working" /\ busy = {} /\ Held(c)
    BY <1>2 DEF AgentStarts, Awaits, Free, IInv
  <2>2. CASE Result(c, "none", 0, "none", "none")
    BY <2>1, <2>2, ResultKeeps DEF AtNode
  <2>3. CASE /\ outbox' = [outbox EXCEPT ![exec[c].slot].work = "live"] /\ Go(c, "watching")
             /\ UNCHANGED <<graph, plan, run, att, waits, anchors, outcomes, idem, busy, history>>
    <3>1. [exec[c] EXCEPT !.at = "watching"] \in CallRows /\ [exec[c] EXCEPT !.at = "watching"].at = "watching"
          /\ [exec[c] EXCEPT !.at = "watching"].slot = exec[c].slot
      BY <1>1 DEF CallRows, Executing, AtSlot, AtNode
    <3>2. /\ exec' \in [Calls -> CallRows] /\ exec'[c] = [exec[c] EXCEPT !.at = "watching"]
          /\ \A d \in Calls \ {c} : exec'[d] = exec[d]
      BY <1>1, <2>3, <3>1, Puts DEF Go
    <3>3. exec[c].slot \in DOMAIN outbox /\ outbox[exec[c].slot].node # 0
      BY <1>1, <2>1, BoxTyped DEF Held, AtSlot, AtNode
    <3>4. exec'[c].at \in AtSlot /\ exec'[c].slot = exec[c].slot
      BY <3>1, <3>2 DEF AtSlot, AtNode
    <3> QED
      BY <2>1, <2>3, <3>2, <3>3, <3>4, BoxWorks
  <2> QED
    BY <1>2, <2>2, <2>3 DEF AgentStarts
<1>3. ASSUME NEW i \in DOMAIN outbox, AgentEnds(i) PROVE IInv'
  <2>1. /\ busy = {} /\ busy' = {} /\ exec' = exec /\ outbox[i].work = "live" /\ outbox[i].node # 0
        /\ UNCHANGED <<graph, plan, run, att, waits, anchors, outcomes, idem, history>>
    BY <1>3 DEF AgentEnds, Free
  <2>2. PICK w \in {"ok", "failed", "residual"} : outbox' = [outbox EXCEPT ![i].work = w]
    BY <1>3 DEF AgentEnds
  <2> QED
    BY <1>1, <2>1, <2>2, BoxWorks
<1> QED
  BY <1>2, <1>3

\* A call in the spine that takes the next step of it is the only one there.
LEMMA SpineOthers ==
  ASSUME WorkflowBounds, IInv, NEW c \in Calls, Moves(c), graph' = graph, run' = run, att' = att, SpineAgrees(c)',
         \/ busy = {c} /\ exec[c].at = "anchor" /\ exec[c].node = Len(anchors) + 1 /\ exec[c].node <= Len(Owners)
         \/ busy = {} /\ exec[c].at = "anchoring"
  PROVE  Spines'
<1>1. Typed /\ Spines /\ SpineAgrees(c) /\ Len(anchors) \in Nat /\ Len(Owners) \in Nat /\ DOMAIN anchors = 1..Len(anchors)
  BY DEF IInv, Typed, Spines, WorkflowBounds
<1>2. exec[c].at = "anchoring" => exec[c].node = Len(anchors) /\ anchors[Len(anchors)] = "running" /\ Len(anchors) >= 1
  BY <1>1 DEF SpineAgrees
<1>3. \A d \in Calls \ {c} : exec[d].at \notin {"spine", "anchor", "finish"}
  BY DEF IInv, Held, Holding
<1>4. \A d \in Calls \ {c} : exec[d].at # "anchoring"
  <2>1. CASE exec[c].at = "anchoring"
    BY <1>1, <2>1 DEF Spines
  <2>2. CASE exec[c].at = "anchor"
    <3>1. \A i \in 1..Len(anchors) : anchors[i] = "succeeded"
      BY <1>1, <2>2 DEF SpineAgrees
    <3>2. ASSUME NEW d \in Calls \ {c}, exec[d].at = "anchoring" PROVE FALSE
      <4>1. SpineAgrees(d)
        BY <1>1 DEF Spines
      <4>2. exec[d].node = Len(anchors) /\ anchors[exec[d].node] = "running" /\ exec[d].node >= 1
        BY <1>1, <3>2, <4>1 DEF SpineAgrees
      <4> QED
        BY <1>1, <3>1, <4>2
    <3> QED
      BY <3>2
  <2> QED
    BY <2>1, <2>2
<1>5. ~(run.state = "completed" /\ Checks # {})
  BY <1>1, <1>2 DEF Spines, AllAnchored
<1>6. \A d \in Calls \ {c} : exec'[d] = exec[d] /\ SpineAgrees(d)'
  BY <1>3, <1>4 DEF Moves, SpineAgrees
<1>7. Checks' = Checks
  BY SameGraph
<1> QED
  BY <1>4, <1>5, <1>6, <1>7 DEF Spines

\* A step within the spine.
LEMMA SpineStep ==
  ASSUME IInv, NEW c \in Calls, Moves(c), exec[c].at \in {"anchor", "anchoring"},
         exec'[c].at \in {"anchor", "anchoring", "finish"}, exec'[c].outs = exec[c].outs,
         UNCHANGED <<plan, run, att, waits, outcomes, idem, history>>,
         anchors' \in Seq({"running", "succeeded", "failed", "quarantined"}), outbox' \in Seq(BoxRows), BoxStays,
         \A i \in DOMAIN outbox' :
           \/ /\ i \in DOMAIN outbox /\ outbox'[i] = outbox[i]
              /\ ~(exec[c].at = "anchoring" /\ exec[c].slot = i)
           \/ i \in DOMAIN outbox /\ outbox'[i].work = "none" /\ outbox'[i].phase = "completed"
           \/ /\ outbox'[i].node = 0 /\ exec'[c].at = "anchoring" /\ exec'[c].slot = i,
         exec'[c].at = "anchoring" => outbox'[exec'[c].slot].phase = "claimed",
         Held(c)', RowsAgree', Spines'
  PROVE  IInv'
<1>1. Typed /\ RowsAgree /\ Approved
  BY DEF IInv
<1>2. graph' = graph /\ Nodes' = Nodes /\ CallRows' = CallRows /\ BoxRows' = BoxRows /\ Drawn' /\ RowsStay
  BY <1>1, SameGraph DEF Moves, Typed, RowsStay
<1>3. Typed'
  BY <1>1, <1>2 DEF Typed, Moves, history
<1>4. \A i \in DOMAIN outbox' : (i \in DOMAIN outbox /\ outbox'[i].node = outbox[i].node) \/ outbox'[i].node = 0
  BY DEF BoxStays
<1>5. Approved'
  <2>1. \A i \in DOMAIN outbox' : (i \in DOMAIN outbox /\ outbox'[i].node = outbox[i].node)
          \/ (outbox[i].node # 0 /\ graph.kind[outbox[i].node] = "continue" => Receipt(outbox[i].node))'
    BY <1>4
  <2> QED
    BY <1>1, <1>2, <2>1, ApprovedStays DEF Receipt
<1>6. ASSUME ~replayed PROVE Alone' /\ RunAgrees' /\ BoxAgrees' /\ PredecessorsFirst'
  <2>1. Alone /\ RunAgrees /\ BoxAgrees /\ PredecessorsFirst
    BY <1>6 DEF IInv, Sole
  <2>2. exec[c].at \in Executing \ {"answer"} /\ exec'[c].at \in Executing \ {"answer"} /\ exec[c].at \notin AtNode
    BY DEF Executing, Holding, AtSlot, AtNode
  <2>3. WorkAgrees(c) /\ run'.state \in {"admitted", "running"}
    BY <2>1, <2>2 DEF Alone
  <2>4. WorkAgrees(c)'
    BY <1>2, <2>2, <2>3 DEF WorkAgrees, AtSlot, AtNode
  <2>5. Alone' /\ \A d \in Calls \ {c} : exec'[d].at \notin Executing
    BY <2>1, <2>2, <2>3, <2>4, AloneStays
  <2>6. RunAgrees'
    BY <1>2, <2>1 DEF RunAgrees, history
  <2>7. BoxAgrees'
    <3>1. \A i \in DOMAIN outbox' : outbox'[i].node # 0 => att'[outbox'[i].node].state \in {"running", "succeeded", "failed", "quarantined"}
      BY <1>4, <2>1 DEF BoxAgrees
    <3>2. \A i, j \in DOMAIN outbox' : i # j /\ outbox'[i].node # 0 => outbox'[i].node # outbox'[j].node
      BY <1>4, <2>1 DEF BoxAgrees
    <3>3. ASSUME NEW i \in DOMAIN outbox', Loose(i)' PROVE Covered(i)'
      <4>1. CASE i \in DOMAIN outbox /\ outbox'[i] = outbox[i] /\ ~(exec[c].at = "anchoring" /\ exec[c].slot = i)
        <5>1. Covered(i)
          BY <2>1, <3>3, <4>1 DEF Loose, BoxAgrees
        <5> QED
          BY <2>2, <2>3, <4>1, <5>1 DEF Covered, Moves, AtSlot
      <4>2. CASE outbox'[i].work = "none" /\ outbox'[i].phase = "completed"
        BY <3>3, <4>2 DEF Loose
      <4>3. CASE exec'[c].at = "anchoring" /\ exec'[c].slot = i
        BY <4>3 DEF Covered, AtSlot
      <4> QED
        BY <4>1, <4>2, <4>3
    <3> QED
      BY <3>1, <3>2, <3>3 DEF BoxAgrees
  <2>8. PredecessorsFirst'
    <3>1. \A i \in DOMAIN outbox' : (i \in DOMAIN outbox /\ outbox'[i].node = outbox[i].node)
                                   \/ (outbox[i].node # 0 => Preceded(outbox[i].node))'
      BY <1>4
    <3> QED
      BY <1>1, <1>2, <2>1, <3>1, <1>6, PredecessorsStay
  <2> QED
    BY <2>5, <2>6, <2>7, <2>8
<1> QED
  BY <1>3, <1>5, <1>6, Assembles DEF history

LEMMA AnchorKeeps ==
  ASSUME WorkflowBounds, IInv, NEW c \in Calls, WorkflowAnchor(c) \/ ExternalAnchor(c)
  PROVE  IInv'
<1> DEFINE L == Len(anchors)
<1>1. /\ Typed /\ Held(c) /\ exec[c] \in CallRows /\ RowsAgree /\ SpineAgrees(c)
      /\ busy = {c} /\ exec[c].at = "anchor" /\ exec[c].node = L + 1 /\ exec[c].node <= Len(Owners)
      /\ UNCHANGED <<graph, plan, run, att, waits, outcomes, idem, history>>
  BY DEF IInv, Typed, Spines, WorkflowAnchor, ExternalAnchor, NextAnchor, Runs
<1>2. L \in Nat /\ DOMAIN anchors = 1..L /\ Len(Owners) \in Nat /\ AllChecked /\ \A i \in 1..L : anchors[i] = "succeeded"
  <2>1. L \in Nat /\ DOMAIN anchors = 1..L
    BY <1>1 DEF Typed
  <2>2. Len(Owners) \in Nat
    BY DEF WorkflowBounds
  <2>3. AllChecked /\ \A i \in 1..exec[c].node - 1 : anchors[i] = "succeeded"
    BY <1>1 DEF SpineAgrees
  <2> QED
    BY <1>1, <2>1, <2>2, <2>3
<1>3. ASSUME NEW s \in {"running", "succeeded"}, anchors' = Append(anchors, s)
      PROVE  /\ anchors' \in Seq({"running", "succeeded", "failed", "quarantined"}) /\ Len(anchors') = L + 1
             /\ anchors'[L + 1] = s /\ \A i \in 1..L : anchors'[i] = "succeeded"
             /\ \A i \in 2..Len(anchors') : anchors'[i - 1] = "succeeded"
             /\ Len(anchors') <= Len(Owners) /\ AllChecked'
  <2>1. anchors \in Seq({"running", "succeeded", "failed", "quarantined"})
    BY <1>1 DEF Typed
  <2>2. AllChecked'
    BY <1>1, <1>2, CheckedStays DEF RowsStay
  <2>3. /\ anchors' \in Seq({"running", "succeeded", "failed", "quarantined"}) /\ Len(anchors') = L + 1
        /\ anchors'[L + 1] = s /\ \A i \in 1..L : anchors'[i] = "succeeded"
    BY <1>2, <1>3, <2>1
  <2> HIDE DEF L
  <2>4. \A i \in 2..L + 1 : anchors'[i - 1] = "succeeded"
    BY <1>2, <2>3
  <2> QED
    BY <1>1, <2>2, <2>3, <2>4
<1>4. CASE WorkflowAnchor(c)
  <2> DEFINE r == [exec[c] EXCEPT !.node = @ + 1]
  <2>1. r \in CallRows /\ r.at = "anchor" /\ r.node = L + 2 /\ r.q = exec[c].q /\ r.left = exec[c].left /\ r.outs = exec[c].outs
    BY <1>1, <1>2 DEF CallRows
  <2>2. Set(c, r) /\ anchors' = Append(anchors, "succeeded") /\ busy' = busy /\ outbox' = outbox
    BY <1>4 DEF WorkflowAnchor
  <2> HIDE DEF r
  <2>3. Moves(c) /\ exec'[c] = r
    BY <1>1, <2>1, <2>2, Puts DEF Moves
  <2>4. /\ anchors' \in Seq({"running", "succeeded", "failed", "quarantined"}) /\ Len(anchors') = L + 1
        /\ \A i \in 1..L + 1 : anchors'[i] = "succeeded"
        /\ \A i \in 2..Len(anchors') : anchors'[i - 1] = "succeeded"
        /\ Len(anchors') <= Len(Owners) /\ AllChecked'
    BY <1>2, <1>3, <2>2
  <2>5. SpineAgrees(c)'
    BY <1>2, <2>1, <2>3, <2>4 DEF SpineAgrees
  <2>6. Spines'
    BY <1>1, <2>3, <2>5, SpineOthers
  <2>7. Held(c)' /\ Nodes' = Nodes
    BY <1>1, <2>1, <2>2, <2>3, SameGraph DEF Held, Holding, AtSlot, AtNode
  <2>8. RowsAgree'
    BY <1>1, <2>2, <2>4, <2>7 DEF RowsAgree
  <2>9. BoxStays /\ outbox' \in Seq(BoxRows)
    BY <1>1, <2>2 DEF BoxStays, Typed
  <2> QED
    BY <1>1, <2>1, <2>2, <2>3, <2>4, <2>6, <2>7, <2>8, <2>9, SpineStep
<1>5. CASE ExternalAnchor(c)
  <2> DEFINE k == Len(outbox) + 1
             r == [exec[c] EXCEPT !.at = "anchoring", !.slot = k]
  <2>1. k \in Nat /\ outbox \in Seq(BoxRows) /\ DOMAIN outbox = 1..k - 1
    BY <1>1 DEF Typed
  <2>2. Set(c, r) /\ anchors' = Append(anchors, "running") /\ busy' = {} /\ outbox' = Append(outbox, Row(0))
    BY <1>5 DEF ExternalAnchor
  <2>3. Row(0) \in BoxRows /\ Row(0).node = 0 /\ Row(0).phase = "claimed" /\ Row(0).work = "none"
    BY DEF Row, BoxRows
  <2>4. /\ outbox' \in Seq(BoxRows) /\ DOMAIN outbox' = 1..k /\ outbox'[k] = Row(0)
        /\ \A i \in DOMAIN outbox : outbox'[i] = outbox[i]
    <3> HIDE DEF Row
    <3> QED
      BY <2>1, <2>2, <2>3
  <2> HIDE DEF k
  <2>5. r \in CallRows /\ r.at = "anchoring" /\ r.node = L + 1 /\ r.slot = k /\ r.q = exec[c].q /\ r.left = exec[c].left /\ r.outs = exec[c].outs
    BY <1>1, <1>2, <2>1 DEF CallRows, Executing, AtSlot
  <2> HIDE DEF r
  <2>6. Moves(c) /\ exec'[c] = r
    BY <1>1, <2>2, <2>5, Puts DEF Moves
  <2>7. /\ anchors' \in Seq({"running", "succeeded", "failed", "quarantined"}) /\ Len(anchors') = L + 1
        /\ anchors'[L + 1] = "running" /\ \A i \in 1..L : anchors'[i] = "succeeded"
        /\ \A i \in 2..Len(anchors') : anchors'[i - 1] = "succeeded"
        /\ Len(anchors') <= Len(Owners) /\ AllChecked'
    BY <1>3, <2>2
  <2>8. SpineAgrees(c)'
    BY <1>2, <2>5, <2>6, <2>7 DEF SpineAgrees
  <2>9. Spines'
    BY <1>1, <2>6, <2>8, SpineOthers
  <2>10. Held(c)' /\ Nodes' = Nodes
    BY <1>1, <2>1, <2>2, <2>3, <2>4, <2>5, <2>6, SameGraph DEF Held, Holding, AtSlot, AtNode
  <2>11. RowsAgree'
    <3>1. \A i \in DOMAIN outbox' : outbox'[i].node = 0 => outbox'[i].work = "none"
      BY <1>1, <2>1, <2>3, <2>4 DEF RowsAgree
    <3> QED
      BY <1>1, <2>7, <2>10, <3>1 DEF RowsAgree
  <2>12. BoxStays
    BY <2>1, <2>4 DEF BoxStays
  <2>13. \A i \in DOMAIN outbox' : i \in DOMAIN outbox \/ i = k
    BY <2>1, <2>4
  <2> QED
    BY <1>1, <2>3, <2>4, <2>5, <2>6, <2>7, <2>9, <2>10, <2>11, <2>12, <2>13, SpineStep
<1> QED
  BY <1>4, <1>5

LEMMA AnchorEndKeeps ==
  ASSUME WorkflowBounds, IInv, NEW c \in Calls, AnchorEnds(c)
  PROVE  IInv'
<1> DEFINE L == Len(anchors)
           s == exec[c].slot
<1>1. /\ Typed /\ Held(c) /\ exec[c] \in CallRows /\ RowsAgree /\ SpineAgrees(c)
      /\ busy = {} /\ busy' = {c} /\ exec[c].at = "anchoring"
      /\ UNCHANGED <<graph, plan, run, att, waits, outcomes, idem, history>>
  BY DEF IInv, Typed, Spines, AnchorEnds, Awaits, Free
<1>2. /\ L \in Nat /\ DOMAIN anchors = 1..L /\ AllChecked /\ exec[c].node = L /\ L >= 1 /\ anchors[L] = "running"
      /\ \A i \in 1..L - 1 : anchors[i] = "succeeded"
      /\ s \in DOMAIN outbox /\ outbox[s].node = 0 /\ outbox[s].work = "none" /\ outbox[s] \in BoxRows
  BY <1>1, BoxTyped DEF Typed, SpineAgrees, Held, AtSlot, RowsAgree
<1>3. PICK ok \in BOOLEAN, left \in 0..1 :
        /\ ok => left = 0
        /\ anchors' = IF anchors[exec[c].node] = "running"
                      THEN [anchors EXCEPT ![exec[c].node] = IF ok THEN "succeeded" ELSE "failed"] ELSE anchors
        /\ outbox' = [outbox EXCEPT ![exec[c].slot].phase = "completed"]
        /\ Set(c, IF ok THEN [exec[c] EXCEPT !.at = "anchor", !.node = @ + 1]
                  ELSE [exec[c] EXCEPT !.at = "finish", !.end = "failed", !.left = left])
  BY DEF AnchorEnds
<1> DEFINE r == IF ok THEN [exec[c] EXCEPT !.at = "anchor", !.node = @ + 1]
                ELSE [exec[c] EXCEPT !.at = "finish", !.end = "failed", !.left = left]
<1>4. /\ r \in CallRows /\ r.q = exec[c].q /\ r.outs = exec[c].outs
      /\ ok => r.at = "anchor" /\ r.node = L + 1 /\ r.left = exec[c].left
      /\ ~ok => r.at = "finish" /\ r.end = "failed"
  <2>1. exec[c] \in CallRows /\ exec[c].node \in Nat /\ exec[c].node = L /\ left \in 0..1
    BY <1>1, <1>2
  <2>2. CASE ok
    <3>1. r = [exec[c] EXCEPT !.at = "anchor", !.node = exec[c].node + 1] /\ exec[c].node + 1 \in Nat
      BY <2>1, <2>2
    <3> HIDE DEF r
    <3> QED
      BY <2>1, <2>2, <3>1 DEF CallRows, Executing, Holding
  <2>3. CASE ~ok
    <3>1. r = [exec[c] EXCEPT !.at = "finish", !.end = "failed", !.left = left]
      BY <2>3
    <3> HIDE DEF r
    <3> QED
      BY <2>1, <2>3, <3>1 DEF CallRows, Executing, Holding
  <2> QED
    BY <2>2, <2>3
<1>5. Set(c, r)
  BY <1>3
<1> HIDE DEF r
<1>6. Moves(c) /\ exec'[c] = r
  BY <1>1, <1>4, <1>5, Puts DEF Moves
<1>7. /\ anchors' \in Seq({"running", "succeeded", "failed", "quarantined"}) /\ Len(anchors') = L
      /\ \A i \in 1..L - 1 : anchors'[i] = "succeeded"
      /\ ok => anchors'[L] = "succeeded"
  <2> DEFINE T == {"running", "succeeded", "failed", "quarantined"}
             v == IF ok THEN "succeeded" ELSE "failed"
  <2>1. anchors \in Seq(T)
    BY <1>1 DEF Typed
  <2>2. anchors' = [anchors EXCEPT ![L] = v] /\ v \in T /\ (ok => v = "succeeded")
    BY <1>2, <1>3
  <2>3. L = Len(anchors) /\ L \in DOMAIN anchors /\ \A i \in 1..L - 1 : anchors[i] = "succeeded"
    BY <1>2
  <2> HIDE DEF v, T, L
  <2>4. Len(anchors) \in Nat /\ DOMAIN anchors = 1..Len(anchors)
    BY <2>1
  <2>5. anchors' \in Seq(T) /\ Len(anchors') = Len(anchors)
    <3>1. anchors \in [1..Len(anchors) -> T]
      BY <2>1
    <3>2. anchors' \in [1..Len(anchors) -> T]
      BY <2>2, <3>1
    <3> QED
      BY <2>4, <3>2
  <2>6. \A i \in 1..L - 1 : anchors'[i] = anchors[i]
    BY <2>2, <2>3, <2>4
  <2>7. ok => anchors'[L] = "succeeded"
    BY <2>2, <2>3
  <2> QED
    BY <2>3, <2>5, <2>6, <2>7 DEF T
<1>8. /\ outbox' \in Seq(BoxRows) /\ DOMAIN outbox' = DOMAIN outbox
      /\ outbox'[s].node = 0 /\ outbox'[s].work = "none" /\ outbox'[s].phase = "completed"
      /\ \A i \in DOMAIN outbox : i # s => outbox'[i] = outbox[i]
  <2> DEFINE b == [outbox[s] EXCEPT !.phase = "completed"]
  <2>1. b \in BoxRows /\ b.node = 0 /\ b.work = "none" /\ b.phase = "completed"
    BY <1>2 DEF BoxRows
  <2>2. outbox' = [outbox EXCEPT ![s] = b] /\ outbox \in Seq(BoxRows)
    BY <1>1, <1>2, <1>3 DEF Typed
  <2> HIDE DEF b
  <2> QED
    BY <1>2, <2>1, <2>2
<1> HIDE DEF L
<1>9. AllChecked'
  BY <1>1, <1>2, CheckedStays DEF RowsStay
<1>10. SpineAgrees(c)'
  BY <1>2, <1>4, <1>6, <1>7, <1>9 DEF SpineAgrees
<1>11. Spines'
  BY <1>1, <1>6, <1>10, SpineOthers
<1>12. Held(c)' /\ Nodes' = Nodes
  BY <1>1, <1>4, <1>6, SameGraph DEF Held, Holding, AtSlot, AtNode
<1>13. RowsAgree'
  <2>1. \A i \in DOMAIN outbox' : outbox'[i].node = 0 => outbox'[i].work = "none"
    BY <1>1, <1>8 DEF RowsAgree
  <2>2. \A i \in 2..Len(anchors') : anchors'[i - 1] = "succeeded"
    BY <1>2, <1>7
  <2>3. Len(anchors') <= Len(Owners)
    BY <1>1, <1>7 DEF RowsAgree, L
  <2> QED
    BY <1>1, <1>12, <2>1, <2>2, <2>3 DEF RowsAgree
<1>14. BoxStays
  BY <1>2, <1>8 DEF BoxStays
<1> QED
  BY <1>1, <1>2, <1>4, <1>6, <1>7, <1>8, <1>11, <1>12, <1>13, <1>14, SpineStep

LEMMA FinishKeeps ==
  ASSUME WorkflowBounds, IInv, NEW c \in Calls, FinishControlRun(c)
  PROVE  IInv'
<1> DEFINE e == exec[c].end
           r == [exec[c] EXCEPT !.at = "answer"]
<1>1. /\ Typed /\ Held(c) /\ exec[c] \in CallRows /\ RowsAgree /\ Spines /\ Approved /\ SpineAgrees(c)
      /\ busy = {c} /\ exec[c].at = "finish" /\ e \in {"completed", "failed"} /\ exec[c].left \in 0..1
      /\ run' = [state |-> e, left |-> exec[c].left] /\ outcomes' = Append(outcomes, e) /\ Set(c, r)
      /\ UNCHANGED <<graph, plan, waits, outbox, anchors, idem, busy, history>>
  BY DEF IInv, Typed, Spines, Held, FinishControlRun, Runs, Go, CallRows
<1>2. /\ r \in CallRows /\ r.at = "answer" /\ r.q = exec[c].q /\ r.left = exec[c].left /\ r.end = e
  BY <1>1, GoesTo DEF Executing, Holding
<1> HIDE DEF r
<1>3. Moves(c) /\ exec'[c] = r /\ graph' = graph
  BY <1>1, <1>2, Puts DEF Moves
<1>4. Nodes' = Nodes /\ CallRows' = CallRows /\ BoxRows' = BoxRows /\ Drawn' /\ BoxStays
  BY <1>1, <1>3, SameGraph DEF Typed, BoxStays
<1>5. att \in [Nodes -> NodeRows]
  BY <1>1 DEF Typed
<1>6. /\ att' \in [Nodes -> NodeRows] /\ \A n \in Nodes : att[n].state # "pending" => att'[n] = att[n]
      /\ \A n \in Nodes : att'[n] = att[n] \/ /\ att'[n].state = "cancelled" /\ att[n].state = "pending"
                                              /\ att'[n].subject = att[n].subject
  <2>1. att' = IF e # "failed" THEN att
               ELSE [n \in Nodes |-> IF att[n].state = "pending" THEN [att[n] EXCEPT !.state = "cancelled"] ELSE att[n]]
    BY DEF FinishControlRun
  <2>2. ASSUME NEW n \in Nodes
        PROVE  /\ [att[n] EXCEPT !.state = "cancelled"] \in NodeRows
               /\ [att[n] EXCEPT !.state = "cancelled"].state = "cancelled"
               /\ [att[n] EXCEPT !.state = "cancelled"].subject = att[n].subject
    <3>1. att[n] \in NodeRows
      BY <1>5
    <3> QED
      BY <3>1 DEF NodeRows, Settled
  <2> QED
    BY <1>5, <2>1, <2>2
<1>7. RowsStay /\ \A n \in Nodes : att[n].state \in {"running", "succeeded", "failed", "quarantined"} => att'[n] = att[n]
  BY <1>6 DEF RowsStay, Settled
<1>8. RowsAgree'
  <2>1. \A m \in Nodes : /\ att'[m].skip => att'[m].state = "cancelled"
                         /\ att'[m].subject # "none" => att'[m].state = "succeeded"
    BY <1>1, <1>6 DEF RowsAgree
  <2> QED
    BY <1>1, <1>4, <2>1 DEF RowsAgree
<1>9. Typed'
  <2>1. run' \in [state : {"absent", "admitted", "running", "stopping", "completed", "failed", "quarantined"}, left : 0..1]
    BY <1>1
  <2>2. outcomes' \in Seq({"completed", "failed", "quarantined"})
    BY <1>1 DEF Typed
  <2> QED
    BY <1>1, <1>3, <1>4, <1>6, <2>1, <2>2 DEF Typed, Moves, history
<1>10. Held(c)' /\ SpineAgrees(c)'
  BY <1>1, <1>2, <1>3, <1>4 DEF Held, SpineAgrees, Holding, AtSlot, AtNode
<1>11. Spines'
  <2>1. run'.state = "completed" /\ Checks # {} => AllChecked /\ AllAnchored
    BY <1>1 DEF SpineAgrees
  <2> QED
    BY <1>1, <1>2, <1>3, <1>7, <1>10, <2>1, SpinesStay
<1>12. Approved'
  BY <1>1, <1>4, ApprovedStays DEF Receipt
<1>13. ASSUME ~replayed PROVE Alone' /\ RunAgrees' /\ BoxAgrees' /\ PredecessorsFirst'
  <2>1. Alone /\ RunAgrees /\ BoxAgrees /\ PredecessorsFirst
    BY <1>13 DEF IInv, Sole
  <2>2. exec[c].at \in Executing \ {"answer"} /\ run.state \in {"admitted", "running"}
    BY <1>1, <2>1 DEF Alone, Executing, Holding
  <2>3. WorkAgrees(c)'
    BY <1>2, <1>3 DEF WorkAgrees
  <2>4. Alone' /\ \A d \in Calls \ {c} : exec'[d].at \notin Executing
    BY <1>1, <1>2, <1>3, <2>1, <2>2, <2>3, AloneStays
  <2>5. RunAgrees'
    <3>1. \A n \in Nodes : waits'[n].phase \notin {"waiting", "reviewed"}
      BY <1>1, <2>1, <2>2 DEF RunAgrees
    <3>2. outcomes = <<>> /\ up /\ up' = up
      BY <1>1, <2>1, <2>2 DEF RunAgrees, history
    <3>3. Len(outcomes') <= 1 /\ run'.state \in {"completed", "failed", "quarantined"}
      BY <1>1, <3>2
    <3> QED
      BY <1>4, <3>1, <3>2, <3>3 DEF RunAgrees
  <2>6. \A i \in DOMAIN outbox : Covered(i) => Covered(i)'
    BY <1>1, <2>1, <2>2 DEF Covered, Alone, Executing, Holding, AtSlot, AtNode
  <2>7. BoxAgrees'
    BY <1>1, <1>7, <2>1, <2>6, BoxUnchanged
  <2>8. PredecessorsFirst'
    BY <1>1, <1>4, <1>7, <2>1, <1>13, PredecessorsStay
  <2> QED
    BY <2>4, <2>5, <2>7, <2>8
<1> QED
  BY <1>1, <1>3, <1>4, <1>8, <1>9, <1>10, <1>11, <1>12, <1>13, Assembles DEF history

\* No call moves, and of the rows only a continuation under review.
LEMMA QuietKeeps ==
  ASSUME IInv, UNCHANGED <<graph, run, att, outbox, anchors, outcomes, idem, exec, busy, up, replayed>>,
         plan' \in {"none", "saved", "compiled"}, reviews' \in 0..MaxReviews,
         waits' \in [Nodes -> [phase : {"none", "waiting", "reviewed", "approved"}, by : 0..MaxReviews]],
         \A n \in Nodes : /\ waits[n].phase = "approved" => waits'[n].phase = "approved"
                          /\ waits'[n].phase \in {"waiting", "reviewed"} => waits[n].phase \in {"waiting", "reviewed"}
  PROVE  IInv'
<1>1. Nodes' = Nodes /\ Checks' = Checks /\ CallRows' = CallRows /\ BoxRows' = BoxRows /\ Drawn' /\ \A n : Into(n)' = Into(n)
  BY SameGraph DEF IInv, Typed
<1>2. Typed'
  BY <1>1 DEF IInv, Typed
<1>3. \A d \in Calls : Held(d)'
  BY <1>1 DEF IInv, Held
<1>4. RowsAgree'
  BY <1>1 DEF IInv, RowsAgree
<1>5. Spines'
  BY <1>1 DEF IInv, Spines, SpineAgrees, AllChecked, AllAnchored
<1>6. Approved'
  BY <1>1, ApprovedStays DEF IInv, Receipt
<1>7. ASSUME ~replayed PROVE Alone' /\ RunAgrees' /\ BoxAgrees' /\ PredecessorsFirst'
  <2>1. Alone /\ RunAgrees /\ BoxAgrees /\ PredecessorsFirst
    BY <1>7 DEF IInv, Sole
  <2>2. Alone'
    BY <1>1, <2>1 DEF Alone, WorkAgrees
  <2>3. RunAgrees'
    BY <1>1, <2>1 DEF RunAgrees
  <2>4. BoxAgrees'
    BY <2>1 DEF BoxAgrees, Loose, Covered
  <2>5. PredecessorsFirst'
    BY <1>1, <2>1 DEF PredecessorsFirst
  <2> QED
    BY <2>2, <2>3, <2>4, <2>5
<1> QED
  BY <1>2, <1>3, <1>4, <1>5, <1>6, <1>7 DEF IInv, Sole

LEMMA ReviewKeeps ==
  ASSUME WorkflowBounds, IInv,
         SaveVersion \/ Compile \/ (\E n \in Nodes : BeginContinuationReview(n)) \/ UNCHANGED vars
  PROVE  IInv'
<1>1. Typed /\ waits \in [Nodes -> [phase : {"none", "waiting", "reviewed", "approved"}, by : 0..MaxReviews]]
  BY DEF IInv, Typed
<1>2. CASE SaveVersion \/ Compile \/ UNCHANGED vars
  BY <1>1, <1>2, QuietKeeps DEF SaveVersion, Compile, vars, tables, history, Typed
<1>3. ASSUME NEW n \in Nodes, BeginContinuationReview(n) PROVE IInv'
  <2>1. /\ reviews < MaxReviews /\ waits[n].phase \in {"waiting", "reviewed"} /\ reviews' = reviews + 1
        /\ waits' = [waits EXCEPT ![n] = [phase |-> "reviewed", by |-> reviews + 1]]
        /\ UNCHANGED <<graph, plan, run, att, outbox, anchors, outcomes, idem, exec, busy, up, replayed>>
    BY <1>3 DEF BeginContinuationReview, Reviewable
  <2>2. reviews + 1 \in 0..MaxReviews
    BY <1>1, <2>1 DEF Typed, WorkflowBounds
  <2>3. /\ waits' \in [Nodes -> [phase : {"none", "waiting", "reviewed", "approved"}, by : 0..MaxReviews]]
        /\ \A m \in Nodes : /\ waits[m].phase = "approved" => waits'[m].phase = "approved"
                            /\ waits'[m].phase \in {"waiting", "reviewed"} => waits[m].phase \in {"waiting", "reviewed"}
    BY <1>1, <2>1, <2>2
  <2> QED
    BY <1>1, <2>1, <2>2, <2>3, QuietKeeps DEF Typed
<1> QED
  BY <1>2, <1>3

\* What recovery makes of the rows of an active run.
LEMMA Recovered ==
  ASSUME Typed, RowsAgree, graph' = graph,
         run' = [run EXCEPT !.state = "quarantined"],
         att' = [n \in Nodes |-> IF att[n].state \in {"pending", "ready", "running"}
                                 THEN [att[n] EXCEPT !.state = "quarantined"] ELSE att[n]],
         anchors' = [i \in DOMAIN anchors |-> IF anchors[i] = "running" THEN "quarantined" ELSE anchors[i]],
         outbox' = [i \in DOMAIN outbox |-> IF outbox[i].phase = "claimed"
                                            THEN [outbox[i] EXCEPT !.phase = "quarantined"] ELSE outbox[i]],
         outcomes' = Append(outcomes, "quarantined")
  PROVE  /\ run' \in [state : {"quarantined"}, left : 0..1] /\ run'.state = "quarantined"
         /\ att' \in [Nodes -> NodeRows] /\ RowsStay /\ BoxStays /\ DOMAIN outbox' = DOMAIN outbox
         /\ \A n \in Nodes : att[n].state = "running" => att'[n].state = "quarantined"
         /\ anchors' \in Seq({"running", "succeeded", "failed", "quarantined"}) /\ outbox' \in Seq(BoxRows)
         /\ outcomes' \in Seq({"completed", "failed", "quarantined"}) /\ Len(outcomes') = Len(outcomes) + 1
         /\ RowsAgree'
<1>1. /\ att \in [Nodes -> NodeRows] /\ outbox \in Seq(BoxRows) /\ anchors \in Seq({"running", "succeeded", "failed", "quarantined"})
      /\ DOMAIN outbox = 1..Len(outbox) /\ DOMAIN anchors = 1..Len(anchors) /\ Len(outbox) \in Nat /\ Len(anchors) \in Nat
  BY DEF Typed
<1>2. ASSUME NEW n \in Nodes
      PROVE  /\ att'[n] \in NodeRows /\ att'[n].skip = att[n].skip /\ att'[n].subject = att[n].subject
             /\ att[n].state \notin {"pending", "ready", "running"} => att'[n] = att[n]
             /\ att[n].state \in {"pending", "ready", "running"} => att'[n].state = "quarantined"
  <2>1. att[n] \in NodeRows
    BY <1>1
  <2>2. /\ [att[n] EXCEPT !.state = "quarantined"] \in NodeRows
        /\ [att[n] EXCEPT !.state = "quarantined"].skip = att[n].skip
        /\ [att[n] EXCEPT !.state = "quarantined"].subject = att[n].subject
        /\ [att[n] EXCEPT !.state = "quarantined"].state = "quarantined"
    BY <2>1 DEF NodeRows, Settled
  <2> QED
    BY <2>1, <2>2
<1>3. att' \in [Nodes -> NodeRows] /\ RowsStay /\ \A n \in Nodes : att[n].state = "running" => att'[n].state = "quarantined"
  <2>1. \A n \in Nodes : att[n].state \in Settled => att'[n] = att[n]
    BY <1>2 DEF Settled
  <2> QED
    BY <1>2, <2>1 DEF RowsStay
<1>4. ASSUME NEW i \in DOMAIN outbox
      PROVE  outbox'[i] \in BoxRows /\ outbox'[i].node = outbox[i].node /\ outbox'[i].work = outbox[i].work
  <2>1. outbox[i] \in BoxRows
    BY <1>1
  <2>2. /\ [outbox[i] EXCEPT !.phase = "quarantined"] \in BoxRows
        /\ [outbox[i] EXCEPT !.phase = "quarantined"].node = outbox[i].node
        /\ [outbox[i] EXCEPT !.phase = "quarantined"].work = outbox[i].work
    BY <2>1 DEF BoxRows
  <2> QED
    BY <2>1, <2>2
<1>5. DOMAIN outbox' = DOMAIN outbox /\ outbox' \in Seq(BoxRows) /\ BoxStays
  <2>1. DOMAIN outbox' = 1..Len(outbox)
    BY <1>1
  <2>2. outbox' \in [1..Len(outbox) -> BoxRows]
    BY <1>1, <1>4
  <2> QED
    BY <1>1, <1>4, <2>1, <2>2 DEF BoxStays
<1>6. /\ anchors' \in Seq({"running", "succeeded", "failed", "quarantined"}) /\ Len(anchors') = Len(anchors)
      /\ \A i \in 1..Len(anchors) : anchors[i] = "succeeded" => anchors'[i] = "succeeded"
  <2>1. anchors' \in [1..Len(anchors) -> {"running", "succeeded", "failed", "quarantined"}]
    BY <1>1
  <2> QED
    BY <1>1, <2>1
<1>7. run' \in [state : {"quarantined"}, left : 0..1] /\ run'.state = "quarantined"
  BY DEF Typed
<1>8. outcomes' \in Seq({"completed", "failed", "quarantined"}) /\ Len(outcomes') = Len(outcomes) + 1
  BY DEF Typed
<1>9. RowsAgree'
  <2>1. \A m \in Nodes : /\ att'[m].skip => att'[m].state = "cancelled"
                         /\ att'[m].subject # "none" => att'[m].state = "succeeded"
    BY <1>2 DEF RowsAgree
  <2>2. \A i \in DOMAIN outbox' : outbox'[i].node = 0 => outbox'[i].work = "none"
    BY <1>4, <1>5 DEF RowsAgree
  <2>3. \A i \in 2..Len(anchors) : anchors'[i - 1] = "succeeded"
    BY <1>1, <1>6 DEF RowsAgree
  <2>4. Nodes' = Nodes
    BY SameGraph
  <2> QED
    BY <1>6, <2>1, <2>2, <2>3, <2>4 DEF RowsAgree
<1> QED
  BY <1>3, <1>5, <1>6, <1>7, <1>8, <1>9

\* The rows a run leaves that was executed by one call at a time are accepted.
LEMMA Accepted ==
  ASSUME IInv, RunAgrees
  PROVE  SchedulerRecordsValid
<1>1. run.state = "completed" /\ Checks # {} => AllAnchored
  BY DEF IInv, Spines
<1>2. DOMAIN anchors = 1..Len(anchors)
  BY DEF IInv, Typed
<1>3. AnchorsValid
  BY <1>1, <1>2 DEF IInv, RowsAgree, AnchorsValid, AllAnchored
<1> QED
  BY <1>3 DEF IInv, RowsAgree, RunAgrees, SchedulerRecordsValid, Reviewable

LEMMA RestartKeeps ==
  ASSUME WorkflowBounds, IInv, Restart
  PROVE  IInv'
<1> DEFINE Same == UNCHANGED <<run, att, anchors, outbox, outcomes>>
           Fresh == /\ up' /\ Active /\ run' \in [state : {"quarantined"}, left : 0..1] /\ run'.state = "quarantined"
                    /\ DOMAIN outbox' = DOMAIN outbox /\ Len(outcomes') = Len(outcomes) + 1
                    /\ \A n \in Nodes : att[n].state = "running" => att'[n].state = "quarantined"
<1>1. /\ Typed /\ RowsAgree /\ Spines /\ Approved /\ busy' = {} /\ (up' <=> SchedulerRecordsValid) /\ up' \in BOOLEAN
      /\ exec' = [c \in Calls |-> Idle] /\ UNCHANGED <<graph, plan, waits, idem, reviews, sends, replayed>>
  BY DEF IInv, Restart, SchedulerRecordsValid, AnchorsValid
<1>2. Nodes' = Nodes /\ Checks' = Checks /\ CallRows' = CallRows /\ BoxRows' = BoxRows /\ Drawn'
  BY <1>1, SameGraph DEF Typed
<1>3. /\ (Same /\ (up' => ~Active)) \/ Fresh
      /\ RowsStay /\ BoxStays /\ RowsAgree' /\ att' \in [Nodes -> NodeRows] /\ outbox' \in Seq(BoxRows)
      /\ anchors' \in Seq({"running", "succeeded", "failed", "quarantined"})
      /\ outcomes' \in Seq({"completed", "failed", "quarantined"})
      /\ run' \in [state : {"absent", "admitted", "running", "stopping", "completed", "failed", "quarantined"}, left : 0..1]
  <2>1. CASE up' /\ Active
    <3>1. /\ run' = [run EXCEPT !.state = "quarantined"]
          /\ att' = [n \in Nodes |-> IF att[n].state \in {"pending", "ready", "running"}
                                     THEN [att[n] EXCEPT !.state = "quarantined"] ELSE att[n]]
          /\ anchors' = [i \in DOMAIN anchors |-> IF anchors[i] = "running" THEN "quarantined" ELSE anchors[i]]
          /\ outbox' = [i \in DOMAIN outbox |-> IF outbox[i].phase = "claimed"
                                                THEN [outbox[i] EXCEPT !.phase = "quarantined"] ELSE outbox[i]]
          /\ outcomes' = Append(outcomes, "quarantined")
      BY <2>1 DEF Restart, RecoverScheduler
    <3>2. /\ run' \in [state : {"quarantined"}, left : 0..1] /\ run'.state = "quarantined"
          /\ att' \in [Nodes -> NodeRows] /\ RowsStay /\ BoxStays /\ DOMAIN outbox' = DOMAIN outbox
          /\ \A n \in Nodes : att[n].state = "running" => att'[n].state = "quarantined"
          /\ anchors' \in Seq({"running", "succeeded", "failed", "quarantined"}) /\ outbox' \in Seq(BoxRows)
          /\ outcomes' \in Seq({"completed", "failed", "quarantined"}) /\ Len(outcomes') = Len(outcomes) + 1
          /\ RowsAgree'
      BY <1>1, <3>1, Recovered
    <3> QED
      BY <2>1, <3>2
  <2>2. CASE ~(up' /\ Active)
    <3>1. Same
      BY <2>2 DEF Restart, RecoverScheduler
    <3> QED
      BY <1>1, <1>2, <2>2, <3>1 DEF Typed, RowsStay, BoxStays, RowsAgree
  <2> QED
    BY <2>1, <2>2
<1>4. exec' \in [Calls -> CallRows] /\ \A c \in Calls : exec'[c] = Idle
  BY <1>1, IdleRow
<1>5. Typed'
  BY <1>1, <1>2, <1>3, <1>4 DEF Typed
<1>6. \A c \in Calls : Held(c)'
  BY <1>1, <1>4, IdleRow DEF Held, Holding, AtSlot, AtNode
<1>7. Spines'
  <2>1. \A c \in Calls : SpineAgrees(c)' /\ exec'[c].at # "anchoring"
    BY <1>4, IdleRow DEF SpineAgrees
  <2>2. run'.state = "completed" => Same
    BY <1>3
  <2>3. (run.state = "completed" /\ Checks # {} => AllChecked /\ AllAnchored)'
    BY <1>1, <1>2, <2>2 DEF Spines, AllChecked, AllAnchored
  <2> QED
    BY <2>1, <2>3 DEF Spines
<1>8. DOMAIN outbox' = DOMAIN outbox /\ \A i \in DOMAIN outbox : outbox'[i].node = outbox[i].node
  BY <1>3 DEF BoxStays
<1>9. Approved'
  BY <1>1, <1>8, ApprovedStays DEF Receipt
<1>10. ASSUME ~replayed PROVE Alone' /\ RunAgrees' /\ BoxAgrees' /\ PredecessorsFirst'
  <2>1. Alone /\ RunAgrees /\ BoxAgrees /\ PredecessorsFirst
    BY <1>10 DEF IInv, Sole
  <2>2. up'
    BY <1>1, <2>1, Accepted
  <2>3. Alone'
    BY <1>4, IdleRow DEF Alone, Executing, Holding, AtSlot, AtNode, WorkAgrees
  <2>4. Fresh => outcomes = <<>> /\ \A n \in Nodes : waits[n].phase \notin {"waiting", "reviewed"}
    BY <2>1 DEF Active, RunAgrees
  <2>5. RunAgrees'
    <3>1. CASE Fresh
      <4>1. Len(outcomes') <= 1
        BY <2>4, <3>1
      <4> QED
        BY <1>1, <1>2, <2>2, <2>4, <3>1, <4>1 DEF RunAgrees
    <3>2. CASE Same
      BY <1>1, <1>2, <2>1, <2>2, <3>2 DEF RunAgrees
    <3> QED
      BY <1>3, <3>1, <3>2
  <2>6. BoxAgrees'
    <3>1. \A i, j \in DOMAIN outbox' : i # j /\ outbox'[i].node # 0 => outbox'[i].node # outbox'[j].node
      BY <1>8, <2>1 DEF BoxAgrees
    <3>2. CASE Fresh
      <4>1. \A i \in DOMAIN outbox' : outbox'[i].node # 0 => att'[outbox'[i].node].state \in {"running", "succeeded", "failed", "quarantined"}
        BY <1>1, <1>3, <1>8, <2>1, <3>2, BoxTyped DEF BoxAgrees, RowsStay, Settled
      <4>2. \A i \in DOMAIN outbox' : Covered(i)'
        BY <3>2 DEF Covered
      <4> QED
        BY <3>1, <4>1, <4>2 DEF BoxAgrees
    <3>3. CASE Same /\ ~Active
      <4>1. \A i \in DOMAIN outbox : Covered(i) => Covered(i)'
        BY <2>1, <3>3 DEF Covered, Alone, Active, Executing, Holding, AtSlot, AtNode
      <4> QED
        BY <1>1, <2>1, <3>3, <4>1, BoxUnchanged
    <3> QED
      BY <1>3, <2>2, <3>2, <3>3
  <2>7. PredecessorsFirst'
    BY <1>1, <1>3, <1>8, <2>1, <1>10, PredecessorsStay
  <2> QED
    BY <2>3, <2>5, <2>6, <2>7
<1> QED
  BY <1>1, <1>3, <1>5, <1>6, <1>7, <1>9, <1>10 DEF IInv, Sole

LEMMA InitHolds ==
  ASSUME WorkflowBounds, Init
  PROVE  IInv
<1>1. Drawn
  BY DEF WorkflowBounds, Init, Drawn, Nodes
<1>2. \A n \in Nodes : att[n] = [state |-> "pending", out |-> "none", skip |-> FALSE, subject |-> "none"]
  BY DEF Init
<1>3. att \in [Nodes -> NodeRows]
  BY DEF Init, NodeRows, Settled
<1>4. \A c \in Calls : exec[c] = Idle /\ exec[c].at = "idle" /\ exec[c].left = 0
  BY IdleRow DEF Init
<1>5. Typed
  <2>1. waits \in [Nodes -> [phase : {"none", "waiting", "reviewed", "approved"}, by : 0..MaxReviews]]
    BY DEF Init, WorkflowBounds
  <2>2. idem \in [Keys -> {"none", "open", "refused", "waiting", "completed", "failed"}]
    BY DEF Init, Keys
  <2>3. exec \in [Calls -> CallRows] /\ busy \subseteq Calls
    BY IdleRow DEF Init
  <2>4. reviews \in 0..MaxReviews /\ up \in BOOLEAN /\ replayed \in BOOLEAN
    <3>1. reviews = 0 /\ MaxReviews \in Nat
      BY DEF Init, WorkflowBounds
    <3>2. up = TRUE /\ replayed = FALSE
      BY DEF Init
    <3>3. reviews \in 0..MaxReviews
      BY <3>1
    <3> QED
      BY <3>2, <3>3
  <2>5. /\ run \in [state : {"absent", "admitted", "running", "stopping", "completed", "failed", "quarantined"}, left : 0..1]
        /\ plan \in {"none", "saved", "compiled"}
    BY DEF Init
  <2>6. outbox = <<>> /\ anchors = <<>> /\ outcomes = <<>>
    BY DEF Init
  <2> QED
    BY <1>1, <1>3, <2>1, <2>2, <2>3, <2>4, <2>5, <2>6 DEF Typed
<1>6. \A c \in Calls : Held(c) /\ SpineAgrees(c) /\ WorkAgrees(c)
  BY <1>4 DEF Init, Held, SpineAgrees, WorkAgrees, Executing, Holding, AtSlot, AtNode
<1>7. RowsAgree /\ Spines /\ Approved
  <2>1. Len(Owners) \in Nat /\ anchors = <<>> /\ outbox = <<>> /\ run.state = "absent"
    BY DEF Init, WorkflowBounds
  <2> QED
    BY <1>2, <1>4, <1>6, <2>1 DEF RowsAgree, Spines, Approved
<1>8. Sole
  <2>1. outbox = <<>> /\ outcomes = <<>> /\ run.state = "absent" /\ up /\ \A n \in Nodes : waits[n].phase = "none"
    BY DEF Init
  <2>2. Alone
    BY <1>4, <1>6 DEF Alone, Executing, Holding, AtSlot, AtNode
  <2>3. RunAgrees
    BY <2>1 DEF RunAgrees
  <2> QED
    BY <2>1, <2>2, <2>3 DEF Sole, BoxAgrees, PredecessorsFirst
<1> QED
  BY <1>5, <1>6, <1>7, <1>8 DEF IInv

LEMMA CallKeeps ==
  ASSUME WorkflowBounds, IInv, NEW c \in Calls, CallStep(c)
  PROVE  IInv'
<1>1. CASE (\E q \in Admits : AdmitRun(c, q)) \/ RefuseAuthority(c) \/ Resolved(c)
  BY <1>1, AskKeeps
<1>2. CASE CreateControlRun(c) \/ AdmitAgain(c)
  BY <1>2, AdmitKeeps
<1>3. CASE \E n \in Nodes : Skip(c, n) \/ PauseForContinuation(c, n) \/ Dispatch(c, n)
  BY <1>3, SkipKeeps, PauseKeeps, DispatchKeeps
<1>4. CASE Stuck(c) \/ LoopEnds(c) \/ StartSpine(c) \/ SpineEnds(c)
  BY <1>4, ThinkKeeps
<1>5. CASE ExecuteControl(c) \/ ExecuteSpecificationApproval(c) \/ ExecuteExternalNode(c) \/ AgentSeen(c) \/ CancelAttempt(c)
  BY <1>5, NodeKeeps
<1>6. CASE AgentStarts(c)
  BY <1>6, AgentKeeps
<1>7. CASE Overdue(c) \/ AnchorThrows(c) \/ Answer(c)
  BY <1>7, LeaveKeeps
<1>8. CASE WorkflowAnchor(c) \/ ExternalAnchor(c) \/ AnchorEnds(c)
  BY <1>8, AnchorKeeps, AnchorEndKeeps
<1>9. CASE FinishControlRun(c)
  BY <1>9, FinishKeeps
<1>10. CASE \E k \in 1..MaxReviews : ContinueRun(c, k)
  BY <1>10, ContinueKeeps
<1> QED
  BY <1>1, <1>2, <1>3, <1>4, <1>5, <1>6, <1>7, <1>8, <1>9, <1>10 DEF CallStep

\* The invariant of the workflow: its parts are kept by every step.
THEOREM WorkflowInvariant == WorkflowBounds /\ Spec => []IInv
<1>1. WorkflowBounds /\ Init => IInv
  BY InitHolds
<1>2. WorkflowBounds /\ IInv /\ [Next]_vars => IInv'
  <2>1. ASSUME WorkflowBounds, IInv, Next PROVE IInv'
    <3>1. CASE \E c \in Calls : CallStep(c)
      BY <2>1, <3>1, CallKeeps
    <3>2. CASE \E i \in DOMAIN outbox : AgentEnds(i)
      BY <2>1, <3>2, AgentKeeps
    <3>3. CASE SaveVersion \/ Compile \/ (\E n \in Nodes : BeginContinuationReview(n))
      BY <2>1, <3>3, ReviewKeeps
    <3>4. CASE Restart
      BY <2>1, <3>4, RestartKeeps
    <3> QED
      BY <2>1, <3>1, <3>2, <3>3, <3>4 DEF Next
  <2>2. ASSUME WorkflowBounds, IInv, UNCHANGED vars PROVE IInv'
    BY <2>2, ReviewKeeps
  <2> QED
    BY <2>1, <2>2
<1>3. WorkflowBounds => WorkflowBounds'
  BY DEF WorkflowBounds
<1>4. CASE WorkflowBounds
  <2>1. Init => IInv
    BY <1>1, <1>4
  <2>2. IInv /\ [Next]_vars => IInv'
    BY <1>2, <1>4
  <2> QED
    BY <2>1, <2>2, PTL DEF Spec
<1> QED
  BY <1>4

LEMMA TypesHold ==
  ASSUME IInv
  PROVE  TypeOK
<1>1. Typed /\ \A c \in Calls : Held(c) /\ exec[c] \in CallRows
  BY DEF IInv, Typed
<1>2. \A c \in Calls :
        /\ exec[c].todo \subseteq Nodes
        /\ exec[c].at \in {"working", "watching", "cancelling", "anchoring"} => exec[c].slot \in DOMAIN outbox
        /\ c \in busy => exec[c].at \in {"loop", "working", "spine", "anchor", "finish", "answer"}
  BY <1>1 DEF Held, CallRows, Holding, AtSlot, AtNode
<1>3. Cardinality(busy) <= 1
  <2>1. CASE busy = {}
    BY <2>1, FS_EmptySet
  <2>2. CASE busy # {}
    <3>1. PICK c \in Calls : busy = {c}
      BY <1>1, <2>2 DEF Typed, Held
    <3>2. Cardinality({c}) = 1
      BY FS_Singleton, Zenon
    <3> QED
      BY <3>1, <3>2
  <2> QED
    BY <2>1, <2>2
<1>4. att \in [Nodes -> [state : {"pending", "ready", "running", "succeeded", "failed", "cancelled", "quarantined"},
                         out : Ports \cup {"none"}, skip : BOOLEAN, subject : Subjects \cup {"none"}]]
  <2>1. att \in [Nodes -> NodeRows]
    BY <1>1 DEF Typed
  <2> QED
    BY <2>1 DEF NodeRows, Settled
<1> QED
  BY <1>1, <1>2, <1>3, <1>4 DEF Typed, TypeOK, Keys

\* The tables and the calls in memory have their types, and the thread is held
\* by one call at most.
THEOREM WorkflowTypes == WorkflowBounds /\ Spec => []TypeOK
BY WorkflowInvariant, TypesHold, PTL

\* Nodes are dispatched after their predecessors, whatever the graph and
\* however calls, reviews and restarts interleave.
THEOREM WorkflowOrder == WorkflowBounds /\ Spec => []PredecessorsFirst
<1>1. IInv => PredecessorsFirst
  BY DEF IInv, Sole, PredecessorsFirst
<1> QED
  BY <1>1, WorkflowInvariant, PTL

\* A completed run is attested: all its checks succeeded on one repository
\* state and all anchors of its trust spine, even when a request was executed
\* a second time.
THEOREM WorkflowAttestation == WorkflowBounds /\ Spec => []CompletedIsAttested
<1>1. IInv => CompletedIsAttested
  BY DEF IInv, Spines, CompletedIsAttested, AllChecked, AllAnchored
<1> QED
  BY <1>1, WorkflowInvariant, PTL

\* A run that was executed by one call at a time has one outcome, dispatches
\* its nodes once, leaves records a restart accepts and no work that goes on.
THEOREM WorkflowOutcome == WorkflowBounds /\ Spec => []OneOutcome
<1>1. ASSUME IInv, ~replayed, run.state \in {"completed", "failed"}, run.left = 0
      PROVE  \A i \in DOMAIN outbox : outbox[i].work \notin {"live", "residual"} /\ outbox[i].phase = "completed"
  <2>1. Alone /\ BoxAgrees
    BY <1>1 DEF IInv, Sole
  <2>2. \A i \in DOMAIN outbox : ~Covered(i)
    BY <1>1, <2>1 DEF Covered, Alone, Executing, Holding, AtSlot, AtNode
  <2> QED
    BY <2>1, <2>2 DEF BoxAgrees, Loose
<1>2. IInv => OneOutcome
  BY <1>1, Accepted DEF IInv, Sole, RunAgrees, BoxAgrees, OneOutcome
<1> QED
  BY <1>2, WorkflowInvariant, PTL

\* A continuation is executed only under an approval, and the approval is of
\* the latest review.
THEOREM WorkflowReviews == WorkflowBounds /\ Spec => ContinuedAsReviewed
<1> DEFINE Receipts == \A i \in DOMAIN outbox :
             outbox[i].node # 0 /\ graph.kind[outbox[i].node] = "continue" => Receipt(outbox[i].node)
           Latest == \A n \in Nodes : waits[n].phase # "approved" /\ waits'[n].phase = "approved" => waits'[n].by = waits[n].by
<1>1. IInv => Receipts
  BY DEF IInv, Approved
<1>2. ASSUME IInv, [Next]_vars PROVE Latest
  <2>1. waits \in [Nodes -> [phase : {"none", "waiting", "reviewed", "approved"}, by : 0..MaxReviews]]
    BY <1>2 DEF IInv, Typed
  <2>2. CASE waits' = waits
    BY <2>2
  <2>3. ASSUME NEW c \in Calls, NEW n \in Nodes, PauseForContinuation(c, n) PROVE Latest
    BY <2>1, <2>3 DEF PauseForContinuation
  <2>4. ASSUME NEW n \in Nodes, BeginContinuationReview(n) PROVE Latest
    BY <2>1, <2>4 DEF BeginContinuationReview
  <2>5. ASSUME NEW k \in 1..MaxReviews, NEW n \in Nodes, Presents(k, n),
               waits' = [waits EXCEPT ![n].phase = "approved", ![n].by = k]
        PROVE  Latest
    BY <2>1, <2>5 DEF Presents
  <2>6. ASSUME NEW c \in Calls, NEW k \in 1..MaxReviews, ContinueRun(c, k) PROVE Latest
    BY <2>2, <2>5, <2>6 DEF ContinueRun
  <2>7. ASSUME NEW c \in Calls, CallStep(c) PROVE Latest
    BY <2>2, <2>3, <2>6, <2>7 DEF CallStep, tables, AdmitRun, RefuseAuthority, Resolved, CreateControlRun, AdmitAgain,
       Skip, Dispatch, Stuck, ExecuteControl, ExecuteSpecificationApproval, ExecuteExternalNode, Result, AgentStarts,
       AgentSeen, Overdue, CancelAttempt, LoopEnds, StartSpine, AnchorThrows, WorkflowAnchor, ExternalAnchor, AnchorEnds,
       SpineEnds, FinishControlRun, Answer
  <2>8. CASE UNCHANGED vars
    BY <2>2, <2>8 DEF vars, tables
  <2> QED
    BY <1>2, <2>2, <2>4, <2>7, <2>8 DEF Next, SaveVersion, Compile, AgentEnds, Restart, tables
<1> HIDE DEF Receipts, Latest
<1>3. WorkflowBounds /\ Spec => []Receipts /\ [][Latest]_vars
  BY <1>1, <1>2, WorkflowInvariant, PTL DEF Spec
<1> QED
  BY <1>3 DEF ContinuedAsReviewed, Receipts, Latest
=============================================================================
