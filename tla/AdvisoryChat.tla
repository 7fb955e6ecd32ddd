---------------------------- MODULE AdvisoryChat ----------------------------
(***************************************************************************)
(* A chat with a provider, from the widget that shows it                   *)
(* (provider-widget.ts) to the service that asks the provider              *)
(* (provider-service-impl.ts): the stream of a Codex account, the command  *)
(* line tool behind it, or the stream of an API.  Text is a number of      *)
(* chunks; the pushes and the answer share one connection, in order.       *)
(***************************************************************************)
EXTENDS Naturals, Sequences

CONSTANTS
  Kinds,            \* the providers asked, a subset of {"codex", "tool", "api"}
  MaxChats,         \* chats asked in a behaviour
  MaxChunks         \* chunks of one reply

ChatBounds == Kinds \subseteq {"codex", "tool", "api"} /\ MaxChats \in Nat /\ MaxChunks \in Nat \ {0}

VARIABLES
  kind,             \* the provider of the last chat
  at,               \* where its request is
  registered,       \* chats, apiChats: a stop finds it
  aborted,          \* its abort controller
  listening,        \* the abort listener of the tool's chat is attached
  produced,         \* chunks of the reply so far
  wire,             \* what the widget has not received yet
  streaming, text,  \* streaming, streamingText
  thread,           \* the turns shown
  asked

vars == <<kind, at, registered, aborted, listening, produced, wire, streaming, text, thread, asked>>

Turn(who, how) == [role |-> who, state |-> how]
Sent(events) == wire' = wire \o events
Delta(n) == [kind |-> "delta", chunks |-> n]
Ending(how) == <<[kind |-> IF how = "done" THEN "done" ELSE "error", chunks |-> 0],
                 [kind |-> "answer", chunks |-> 0, how |-> how]>>

Init ==
  /\ kind \in Kinds /\ at = "none" /\ registered = FALSE /\ aborted = FALSE /\ listening = FALSE
  /\ produced = 0 /\ wire = <<>> /\ streaming = FALSE /\ text = 0 /\ thread = <<>> /\ asked = 0

Request == <<kind, registered, aborted, listening, produced>>
Shown == <<streaming, text, thread, asked>>

\* The last event of a chat, and the answer to its request.
Settle(events, how) ==
  /\ at' = "settled" /\ registered' = FALSE
  /\ Sent(events \o Ending(how))
  /\ UNCHANGED <<kind, aborted, listening, Shown>>

---------------------------------------------------------------------------

\* The credential is not there, or no operation could be started: the request
\* is refused without an event.
Refused ==
  /\ at = "asked" /\ at' = "settled"
  /\ Sent(<<[kind |-> "answer", chunks |-> 0, how |-> "failed"]>>)
  /\ UNCHANGED <<Request, Shown>>

Begun ==
  /\ at = "asked" /\ registered' = TRUE
  /\ at' = IF kind = "codex" THEN "direct" ELSE IF kind = "api" THEN "api" ELSE "opening"
  /\ UNCHANGED <<kind, aborted, listening, produced, wire, Shown>>

\* An event of the Codex stream: every one pushes the whole text so far.
DirectEvent ==
  /\ at = "direct" /\ produced < MaxChunks
  /\ produced' = produced + 1
  /\ Sent(<<Delta(produced + 1)>>)
  /\ UNCHANGED <<kind, at, registered, aborted, listening, Shown>>

\* The event that ends the reply repeats it, or is all of it.
DirectDone ==
  /\ at = "direct"
  /\ produced' = IF produced = 0 THEN 1 ELSE produced
  /\ Settle(<<Delta(produced')>>, "done")

\* Any error but a stop falls back to the command line tool.
DirectFails ==
  /\ at = "direct" /\ at' = "opening"
  /\ UNCHANGED <<Request, wire, Shown>>

Spawned ==
  /\ at = "opening" /\ at' = "tool"
  /\ listening' = ~aborted
  /\ UNCHANGED <<kind, registered, aborted, produced, wire, Shown>>

NotOpened == at = "opening" /\ produced' = produced /\ Settle(<<>>, "failed")

ToolReplies == at = "tool" /\ produced' = 1 /\ Settle(<<>>, "done")
ToolFails ==
  /\ at = "tool" /\ produced' = produced
  /\ Settle(<<>>, IF aborted THEN "stopped" ELSE "failed")

\* (mutant: a chunk of an API is pushed as the text so far)
ApiCumulative ==
  /\ at = "api" /\ produced < MaxChunks
  /\ produced' = produced + 1
  /\ Sent(<<Delta(produced + 1)>>)
  /\ UNCHANGED <<kind, at, registered, aborted, listening, Shown>>

ApiChunk ==
  /\ at = "api" /\ produced < MaxChunks
  /\ produced' = produced + 1
  /\ Sent(<<Delta(1)>>)
  /\ UNCHANGED <<kind, at, registered, aborted, listening, Shown>>

\* The stream ends; or the endpoint answered with the whole reply at once.
ApiDone == at = "api" /\ produced > 0 /\ produced' = produced /\ Settle(<<>>, "done")
ApiWhole == at = "api" /\ produced = 0 /\ produced' = 1 /\ Settle(<<Delta(1)>>, "done")
ApiFails == at = "api" /\ produced' = produced /\ Settle(<<>>, "failed")

---------------------------------------------------------------------------

Ask ==
  /\ ~streaming /\ asked < MaxChats
  /\ asked' = asked + 1 /\ kind' \in Kinds
  /\ at' = "asked" /\ registered' = FALSE /\ aborted' = FALSE /\ listening' = FALSE /\ produced' = 0
  /\ streaming' = TRUE /\ text' = 0
  /\ thread' = thread \o <<Turn("user", "asked"), Turn("assistant", "pending")>>
  /\ UNCHANGED wire

\* The stop aborts what the request waits for: the fetch, or the tool once its
\* listener is attached. Between the two nothing waits for it.
Stop ==
  /\ streaming /\ registered /\ at # "opening" /\ (at = "tool" => listening)
  /\ aborted' = TRUE /\ at' = "settled" /\ registered' = FALSE
  /\ Sent(Ending("stopped"))
  /\ UNCHANGED <<kind, listening, produced, Shown>>

StopIsLost ==
  /\ streaming /\ registered /\ at = "opening"
  /\ aborted' = TRUE /\ registered' = FALSE
  /\ UNCHANGED <<kind, at, listening, produced, wire, Shown>>

OnChatEvent ==
  /\ wire # <<>> /\ Head(wire).kind # "answer"
  /\ wire' = Tail(wire)
  /\ text' = text + Head(wire).chunks
  /\ UNCHANGED <<Request, at, streaming, thread, asked>>

\* The answer replaces the last turn.
Answered ==
  /\ wire # <<>> /\ Head(wire).kind = "answer"
  /\ wire' = Tail(wire)
  /\ streaming' = FALSE
  /\ thread' = [thread EXCEPT ![Len(thread)] = Turn("assistant", Head(wire).how)]
  /\ UNCHANGED <<Request, at, text, asked>>

\* (mutant: a new chat may be begun while a reply streams)
NewChatAnyTime ==
  /\ thread' = <<>> /\ thread # <<>>
  /\ UNCHANGED <<Request, at, wire, streaming, text, asked>>

NewChat == ~streaming /\ NewChatAnyTime

\* Retry is offered with the error of the last chat: its two turns go.
Retry ==
  /\ ~streaming /\ thread # <<>> /\ thread[Len(thread)].state = "failed"
  /\ thread' = SubSeq(thread, 1, Len(thread) - 2)
  /\ UNCHANGED <<Request, at, wire, streaming, text, asked>>

Next ==
  \/ Ask \/ Refused \/ Begun \/ DirectEvent \/ DirectDone \/ DirectFails \/ Spawned \/ NotOpened
  \/ ToolReplies \/ ToolFails \/ ApiChunk \/ ApiDone \/ ApiWhole \/ ApiFails
  \/ Stop \/ StopIsLost \/ OnChatEvent \/ Answered \/ NewChat \/ Retry

Spec == Init /\ [][Next]_vars

---------------------------------------------------------------------------

TypeOK ==
  /\ kind \in Kinds /\ at \in {"none", "asked", "direct", "opening", "tool", "api", "settled"}
  /\ registered \in BOOLEAN /\ aborted \in BOOLEAN /\ listening \in BOOLEAN /\ streaming \in BOOLEAN
  /\ produced \in 0..MaxChunks /\ text \in Nat /\ asked \in 0..MaxChats
  /\ \A i \in DOMAIN wire : wire[i].kind \in {"delta", "done", "error", "answer"}
  /\ \A i \in DOMAIN thread : thread[i].role \in {"user", "assistant"}

\* Questions and replies alternate, only the last reply may be outstanding, and
\* it is outstanding exactly while a request is (chat and slice(0, -1),
\* provider-widget.ts:472-509, beside "New chat" and "Retry").
TurnsPaired ==
  /\ \A i \in DOMAIN thread : thread[i].role = IF i % 2 = 1 THEN "user" ELSE "assistant"
  /\ Len(thread) % 2 = 0
  /\ \A i \in DOMAIN thread : thread[i].state = "pending" <=> streaming /\ i = Len(thread)
  /\ streaming => thread # <<>>
  /\ streaming <=> at # "none" /\ (at # "settled" \/ wire # <<>>)

\* Chunks pushed and not yet received.
InFlight == LET n[i \in 0..Len(wire)] == IF i = 0 THEN 0 ELSE n[i - 1] + wire[i].chunks IN n[Len(wire)]

\* What the widget shows of an API's reply, with what is on its way, is what
\* the provider has sent: nothing is shown twice or left out (onChatEvent,
\* provider-widget.ts:103, and emit, provider-service-impl.ts:195).
StreamedIsProduced == streaming /\ kind = "api" => text + InFlight = produced

\* The same of every provider: Codex pushes the whole text with every event
\* and the widget appends it.
NothingShownTwice == streaming /\ at \in {"direct", "api"} => text + InFlight = produced
=============================================================================
