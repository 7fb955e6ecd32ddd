---------------------------- MODULE ProviderPanel ----------------------------
(***************************************************************************)
(* The provider panel of a window (provider-widget.ts) and the registry it *)
(* asks for models and connections (provider-registry.ts).  Every call     *)
(* runs beside what the user does meanwhile: the answer goes to whatever   *)
(* provider the panel shows by then.  `busy' is a flag, set by each call   *)
(* and cleared by each answer.                                             *)
(***************************************************************************)
EXTENDS Naturals, FiniteSets

CONSTANTS
  Providers,
  Accounts,     \* those of them a signed-in account configures
  MaxCalls      \* bound: calls under way at a time

PanelBounds == Accounts \subseteq Providers /\ Providers # {} /\ MaxCalls \in Nat

VARIABLES
  provider,     \* the one the panel shows
  loaded,       \* the lists have come
  stored,       \* the providers with a credential in the store
  shown,        \* credentials: the ones the panel knows of
  models,       \* whose models the panel offers, "empty" or "none"
  discovered,   \* autoDiscovered
  busy,
  calls,        \* [op, of, attempt, chain], or NoCall
  crossing,     \* the providers whose models were being asked for when the panel last changed
  mode          \* what the panel says of the interaction mode

vars == <<provider, loaded, stored, shown, models, discovered, busy, calls, crossing, mode>>

Slots == 1..MaxCalls
NoCall == [op |-> "none", of |-> "none", attempt |-> 0, chain |-> FALSE]
Call(op, p, chain) == [op |-> op, of |-> p, attempt |-> 1, chain |-> chain]
Free == {c \in Slots : calls[c] = NoCall}

Init ==
  /\ provider \in Providers /\ loaded = FALSE /\ stored \in SUBSET Providers /\ shown = {}
  /\ models = "none" /\ discovered = {} /\ busy = FALSE
  /\ calls = [c \in Slots |-> NoCall] /\ crossing = {} /\ mode = "loading"

---------------------------------------------------------------------------
(* What the user and the window do.                                        *)

Connected(p, list) == p \in Accounts /\ p \in list

Ask(op, p, chain) ==
  \E c \in Free :
    /\ calls' = [calls EXCEPT ![c] = Call(op, p, chain)] /\ busy' = TRUE

\* The models of an account are asked for by themselves, once a session.
MaybeAutoDiscover(p, list, offered) ==
  IF p \in discovered \/ ~Connected(p, list) \/ offered \notin {"none", "empty"}
  THEN UNCHANGED <<discovered, calls, busy>>
  ELSE discovered' = discovered \union {p} /\ Ask("discover", p, FALSE)

\* load: the lists come, or fail to.
Load ==
  /\ ~loaded /\ loaded' = TRUE
  /\ shown' \in {stored, {}} /\ MaybeAutoDiscover(provider, shown', models)
  /\ UNCHANGED <<provider, stored, models, crossing, mode>>

Discovering == {calls[c].of : c \in {d \in Slots : calls[d].op = "discover"}}

\* (mutant: the models of the provider before stay)
ChooseKeeps(p) ==
  /\ p # provider /\ provider' = p
  /\ MaybeAutoDiscover(p, shown, models) /\ crossing' = Discovering
  /\ UNCHANGED <<loaded, stored, shown, models, mode>>

\* capture: the select of the provider is never disabled.
Choose(p) ==
  /\ p # provider /\ provider' = p /\ models' = "none"
  /\ MaybeAutoDiscover(p, shown, "none") /\ crossing' = Discovering
  /\ UNCHANGED <<loaded, stored, shown, mode>>

Press(op) ==
  /\ loaded /\ ~busy /\ Ask(op, provider, FALSE)
  /\ UNCHANGED <<provider, loaded, stored, shown, models, discovered, crossing, mode>>

DiscoverModels == Press("discover")
TestConnection == Press("test")
SaveCredential == provider \notin Accounts /\ Press("save")
ImportAccount == provider \in Accounts /\ Press("import")

DeleteCredential(p) ==
  /\ ~busy /\ p \in shown /\ Ask("delete", p, FALSE)
  /\ UNCHANGED <<provider, loaded, stored, shown, models, discovered, crossing, mode>>

---------------------------------------------------------------------------
(* What the registry does, and what the panel makes of the answer.         *)

Ends(c) == calls' = [calls EXCEPT ![c] = NoCall] /\ busy' = FALSE
Offers(who, c) == models' = who /\ Ends(c)

\* A key or a local service: one request; without a key or an answer it fails
\* and the panel keeps what it has.
DiscoverByKey(c) ==
  /\ calls[c].op = "discover" /\ calls[c].of \notin Accounts
  /\ \/ calls[c].of \in stored /\ (Offers(calls[c].of, c) \/ Offers("empty", c))
     \/ Ends(c) /\ UNCHANGED models
  /\ UNCHANGED <<provider, loaded, stored, shown, discovered, crossing, mode>>

Attempts == 5

\* (mutant: the request is tried until it comes through)
RetryAlways(c) ==
  /\ calls[c].op = "discover" /\ calls[c].of \in Accounts
  /\ calls' = [calls EXCEPT ![c].attempt = (@ % Attempts) + 1]
  /\ UNCHANGED <<provider, loaded, stored, shown, models, discovered, busy, crossing, mode>>

\* withRetries: the request of an account fails and is tried again.
Retry(c) ==
  /\ calls[c].op = "discover" /\ calls[c].of \in Accounts /\ calls[c].attempt < Attempts
  /\ calls' = [calls EXCEPT ![c].attempt = @ + 1]
  /\ UNCHANGED <<provider, loaded, stored, shown, models, discovered, busy, crossing, mode>>

\* The account answers, or does not: refused, signed out or unreachable, its
\* fixed list of models is offered in every case.
DiscoverAccount(c) ==
  /\ calls[c].op = "discover" /\ calls[c].of \in Accounts
  /\ Offers(calls[c].of, c)
  /\ UNCHANGED <<provider, loaded, stored, shown, discovered, crossing, mode>>

\* A test only tells; after an import the models of whatever is shown are asked for.
Tested(c) ==
  /\ calls[c].op = "test"
  /\ IF calls[c].chain THEN calls' = [calls EXCEPT ![c] = Call("discover", provider, FALSE)] /\ busy' = TRUE
     ELSE Ends(c)
  /\ UNCHANGED <<provider, loaded, stored, shown, models, discovered, crossing, mode>>

\* The import may fail: the test and the discovery follow all the same.
Imported(c) ==
  /\ calls[c].op = "import"
  /\ \/ stored' = stored \union {calls[c].of} /\ shown' = stored'
     \/ UNCHANGED <<stored, shown>>
  /\ calls' = [calls EXCEPT ![c] = Call("test", provider, TRUE)] /\ busy' = TRUE
  /\ UNCHANGED <<provider, loaded, models, discovered, crossing, mode>>

Saved(c) ==
  /\ calls[c].op = "save" /\ Ends(c)
  /\ \/ stored' = stored \union {calls[c].of} /\ shown' = stored'
     \/ UNCHANGED <<stored, shown>>
  /\ UNCHANGED <<provider, loaded, models, discovered, crossing, mode>>

Deleted(c) ==
  /\ calls[c].op = "delete" /\ Ends(c)
  /\ \/ stored' = stored \ {calls[c].of} /\ shown' = stored'
     \/ UNCHANGED <<stored, shown>>
  /\ UNCHANGED <<provider, loaded, models, discovered, crossing, mode>>

\* The mode is heard of, or is 'unavailable' after four seconds.
ModeListener ==
  /\ mode' = "known"
  /\ UNCHANGED <<provider, loaded, stored, shown, models, discovered, busy, calls, crossing>>

ModeProbe ==
  /\ mode = "loading" /\ mode' = "unavailable"
  /\ UNCHANGED <<provider, loaded, stored, shown, models, discovered, busy, calls, crossing>>

Answers(c) ==
  DiscoverByKey(c) \/ Retry(c) \/ DiscoverAccount(c) \/ Tested(c) \/ Imported(c) \/ Saved(c) \/ Deleted(c)

Next ==
  \/ Load \/ DiscoverModels \/ TestConnection \/ SaveCredential \/ ImportAccount
  \/ \E p \in Providers : Choose(p) \/ DeleteCredential(p)
  \/ \E c \in Slots : Answers(c)
  \/ ModeListener \/ ModeProbe

\* Requests end, at the latest with their timeouts.
Fairness == \A c \in Slots : WF_vars(Answers(c))

Spec == Init /\ [][Next]_vars /\ Fairness

---------------------------------------------------------------------------

TypeOK ==
  /\ provider \in Providers /\ stored \subseteq Providers /\ shown \subseteq Providers
  /\ models \in Providers \union {"none", "empty"} /\ discovered \subseteq Accounts
  /\ crossing \subseteq Providers /\ mode \in {"loading", "unavailable", "known"}
  /\ \A c \in Slots : calls[c].attempt <= Attempts

\* The panel offers, and chats with, models of the provider it shows; the only
\* others are those of a discovery that was under way when the provider was
\* changed (discoverModels, provider-widget.ts:466).
ModelsFit == models \in {"none", "empty", provider} \union crossing

\* Every call the panel waits for is answered: a discovery is tried a few times
\* and then ends with the fixed list.
CallsEnd == \A c \in Slots : calls[c] # NoCall ~> calls[c] = NoCall
=============================================================================
