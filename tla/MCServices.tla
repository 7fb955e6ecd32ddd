----------------------------- MODULE MCServices -----------------------------
(***************************************************************************)
(* Components that keep, or pass on, what others rely on, side by side:    *)
(* stores, feeds and sandboxes. A behaviour moves only one of them, so     *)
(* that a single run checks each by itself.                                *)
(***************************************************************************)
EXTENDS Naturals, Sequences, TLC

CONSTANTS
  Changes, StoredKeys, KeyOf, Removes, CredentialCrashes,             \* of CredentialFile
  Packagers, Versions, MarketCrashes,                                 \* of Marketplace
  Leavings,                                                           \* of NativeHelper
  Commits, Base, Ancestors, TreeOf, Merges, Permitted, UserCommits,   \* of CandidateTransfer
  Permissions, MaxCalls, MaxMessages, MaxQueued                       \* of ClaudeSession

\* Two credentials are set, and one is removed again.
MCKeyOf == [c \in {"c1", "c2", "c3"} |-> IF c = "c2" THEN "k2" ELSE "k1"]

\* The base b of a run and, after it, a commit c, the work d on c that is not
\* given out, a merge m with a commit w of the user, and a squashed commit s;
\* u is the user's own commit on b.
MCAncestors == [c \in {"b", "u", "c", "d", "m", "w", "s"} |->
  CASE c = "b" -> {"b"} [] c = "u" -> {"b", "u"} [] c = "c" -> {"b", "c"} [] c = "d" -> {"b", "c", "d"}
    [] c = "m" -> {"b", "c", "m", "w"} [] c = "w" -> {"w"} [] c = "s" -> {"b", "s"}]
MCTreeOf == [c \in {"b", "u", "c", "d", "m", "w", "s"} |-> IF c = "s" THEN "b" ELSE c]

\* Two action requests for a run, with a cancellation of an operation that is its
\* own and of one that is not, a request for numbers, and a retry.
Action(i, a, o, n) == [id |-> i, action |-> a, run |-> "r", op |-> o, seq |-> n]
MCActions == {Action("i", "cancel", "own", 1), Action("i", "diagnose", "none", 1), Action("j", "diagnose", "none", 2),
              Action("j", "retry", "none", 1), Action("j", "cancel", "other", 1)}

\* The events of two runs: one completes, and its process is seen live, active and
\* cleaned; one fails, and is held.
Event(r, k, b) == [run |-> r, kind |-> k, by |-> b]
MCEvents == {Event(1, "completed", "w"), Event(1, "live", "o"), Event(1, "activity", "o"), Event(1, "cleaned", "o"),
             Event(2, "failed", "w"), Event(2, "hold", "k")}

Registries == {"task", "project", "adapter", "workflow", "execution", "verdict", "merge"}
FactsOf == [o \in Registries |-> IF o \in {"project", "merge", "verdict"} THEN 2 ELSE 3]

VARIABLES
  part,     \* the component that moves
  inPlace, inode, destination, temporary, credentialsAt, base, opened,
  credentialsOverlapped, credentialsCrashes,
  gate, hostStart, hostCleanup, hostRow, hostHost, hostReserving, hostRevoking,
  hostRevoked, hostFailed, hostAsked, hostBroker, broke,
  source, private, step, seen, sealed, transferOutcome,
  partial, marketKept, marketCurrent, running, job, marketBusy, marketOverlapped,
  marketCrashes,
  ownersJournal, ownersUp, ownersTold, ownersCall, ownersKept, ownersCrashes,
  dir, disk, helper, controller, helperAnswer,
  readsUp, readsSink, requests, readsEvents, readsTold, readsNext, readsCall, answers,
  readsCrashes,
  reportsUp, reportsEvents, reportsTold, reportsRun, answered, files, clock, reportsStops,
  kind, chatAt, registered, aborted, listening, produced, wire, streaming, text,
  thread, chatAsked,
  provider, loaded, stored, panelShown, models, discovered, panelBusy, panelCalls,
  crossing, mode,
  routerUp, lifecycle, routerSeq, known, rows, routerCalls, routerStops, routerAsked,
  accepted,
  queriesLog, aged, queriesEpoch, view, counters, gauges, queriesStarts, walk, retired,
  owner, older, writtenJournal, writtenCurrent, writtenUp, writtenSink, held, behind,
  writtenCrashes, writtenOutcome,
  verified, checked, session, phase, claudeAt, identity, claudeCleanup, wasRunning,
  claudeRow, rowCleaned, claudeHost, claudeReserving, claudeRevoking, claudeRevoked,
  claudeFailed, claudeLease, claudeBroker, pending, decided, closed, claudeCalls, allows,
  protocol, queue, sent, delivering, ended, claudeSettle,
  feedStarts, feedUp, feedEpoch, feedSeq, feedLog, version, connected, signals,
  feedAt, wanted, cursor, feedNext, feedShown, missed, feedAnswer

credentialsVars == <<inPlace, inode, destination, temporary, credentialsAt, base, opened,
                     credentialsOverlapped, credentialsCrashes>>
hostVars == <<gate, hostStart, hostCleanup, hostRow, hostHost, hostReserving, hostRevoking,
              hostRevoked, hostFailed, hostAsked, hostBroker, broke>>
transferVars == <<source, private, step, seen, sealed, transferOutcome>>
marketVars == <<partial, marketKept, marketCurrent, running, job, marketBusy, marketOverlapped,
                marketCrashes>>
ownersVars == <<ownersJournal, ownersUp, ownersTold, ownersCall, ownersKept, ownersCrashes>>
helperVars == <<dir, disk, helper, controller, helperAnswer>>
readsVars == <<readsUp, readsSink, requests, readsEvents, readsTold, readsNext, readsCall, answers,
               readsCrashes>>
reportsVars == <<reportsUp, reportsEvents, reportsTold, reportsRun, answered, files, clock, reportsStops>>
chatVars == <<kind, chatAt, registered, aborted, listening, produced, wire, streaming, text,
              thread, chatAsked>>
panelVars == <<provider, loaded, stored, panelShown, models, discovered, panelBusy, panelCalls,
               crossing, mode>>
routerVars == <<routerUp, lifecycle, routerSeq, known, rows, routerCalls, routerStops, routerAsked,
                accepted>>
queriesVars == <<queriesLog, aged, queriesEpoch, view, counters, gauges, queriesStarts, walk, retired>>
writtenVars == <<owner, older, writtenJournal, writtenCurrent, writtenUp, writtenSink, held, behind,
                 writtenCrashes, writtenOutcome>>
claudeVars == <<verified, checked, session, phase, claudeAt, identity, claudeCleanup, wasRunning,
                claudeRow, rowCleaned, claudeHost, claudeReserving, claudeRevoking,
                claudeRevoked, claudeFailed, claudeLease, claudeBroker, pending, decided,
                closed, claudeCalls, allows, protocol, queue, sent, delivering,
                ended, claudeSettle>>
feedVars == <<feedStarts, feedUp, feedEpoch, feedSeq, feedLog, version, connected, signals,
              feedAt, wanted, cursor, feedNext, feedShown, missed, feedAnswer>>

Credentials == INSTANCE CredentialFile
  WITH Calls <- Changes, Keys <- StoredKeys, MaxCrashes <- CredentialCrashes,
    at <- credentialsAt, overlapped <- credentialsOverlapped,
    crashes <- credentialsCrashes
Host == INSTANCE CodexHost
  WITH start <- hostStart, cleanup <- hostCleanup, row <- hostRow, host <- hostHost,
    reserving <- hostReserving, revoking <- hostRevoking, revoked <- hostRevoked,
    failed <- hostFailed, asked <- hostAsked, broker <- hostBroker
Transfer == INSTANCE CandidateTransfer
  WITH outcome <- transferOutcome
Market == INSTANCE Marketplace
  WITH Windows <- Packagers, MaxCrashes <- MarketCrashes,
    kept <- marketKept, current <- marketCurrent, busy <- marketBusy,
    overlapped <- marketOverlapped, crashes <- marketCrashes
KernelOwners == INSTANCE JournalOwners
  WITH Ids <- {"i", "j"}, MaxFacts <- 2, MaxCrashes <- 1, journal <- ownersJournal,
    up <- ownersUp, told <- ownersTold, call <- ownersCall, kept <- ownersKept,
    crashes <- ownersCrashes
Helper == INSTANCE NativeHelper
  WITH Files <- Leavings, answer <- helperAnswer
Reads == INSTANCE VerdictReads
  WITH Readers <- {"a", "b"}, Requests <- {"r", "s"}, Bodies <- {"x", "y"},
    MaxEvents <- 2, MaxCrashes <- 1, up <- readsUp, sink <- readsSink,
    events <- readsEvents, told <- readsTold, next <- readsNext, call <- readsCall,
    crashes <- readsCrashes
Reports == INSTANCE DiagnosticReports
  WITH Reports <- {"a", "b"}, Contributors <- 2, MaxEvents <- 4, MaxStops <- 1,
    MaxTicks <- 1, up <- reportsUp, events <- reportsEvents, told <- reportsTold,
    run <- reportsRun, stops <- reportsStops
Chat == INSTANCE AdvisoryChat
  WITH Kinds <- {"codex", "tool", "api"}, MaxChats <- 3, MaxChunks <- 2,
    at <- chatAt, asked <- chatAsked
Panel == INSTANCE ProviderPanel
  WITH Providers <- {"account", "key"}, Accounts <- {"account"}, MaxCalls <- 2,
    shown <- panelShown, busy <- panelBusy, calls <- panelCalls
Router == INSTANCE ActionRouter
  WITH Callers <- {"w1", "w2"}, Requests <- MCActions, MaxSeq <- 2, MaxStops <- 2,
    up <- routerUp, seq <- routerSeq, calls <- routerCalls, stops <- routerStops,
    asked <- routerAsked
Queries == INSTANCE ProjectionQueries
  WITH Events <- MCEvents, MaxEvents <- 3, PageSize <- 1, MaxRebuilds <- 1,
    MaxStarts <- 2, log <- queriesLog, epoch <- queriesEpoch,
    starts <- queriesStarts
Publishers == INSTANCE OwnerFacts
  WITH Owners <- Registries, MaxFacts <- FactsOf, MaxCrashes <- 1,
    journal <- writtenJournal, current <- writtenCurrent, up <- writtenUp,
    sink <- writtenSink, crashes <- writtenCrashes, outcome <- writtenOutcome
Claude == INSTANCE ClaudeSession
  WITH Ids <- Permissions, at <- claudeAt, cleanup <- claudeCleanup, row <- claudeRow, host <- claudeHost,
    reserving <- claudeReserving, revoking <- claudeRevoking,
    revoked <- claudeRevoked, failed <- claudeFailed, broker <- claudeBroker,
    calls <- claudeCalls, lease <- claudeLease, settle <- claudeSettle
Feed == INSTANCE OperationsFeed
  WITH Limit <- 2, MaxChanges <- 3, MaxRebuilds <- 1, MaxStarts <- 2,
    starts <- feedStarts, up <- feedUp, epoch <- feedEpoch, seq <- feedSeq,
    log <- feedLog, at <- feedAt, next <- feedNext, shown <- feedShown,
    answer <- feedAnswer

\* The bounds of the instances that have constants.
ASSUME ServiceBounds ==
  Credentials!CallsAreGiven /\ Market!MarketBounds /\ Transfer!CommitsAreGiven /\ Claude!SessionBounds

Parts == {"credentials", "host", "transfer", "market", "owners", "helper", "reads", "reports", "chat", "panel", "router", "queries", "written", "claude", "feed"}
\* Where a component has a choice of initial states, only the one that moves makes it.
AllInit ==
  /\ part \in Parts
  /\ Credentials!Init /\ Host!Init /\ Transfer!Init /\ Market!Init /\
     KernelOwners!Init /\ Helper!Init /\ Reads!Init /\ Reports!Init /\ Chat!Init /\
     Panel!Init /\ Router!Init /\ Queries!Init /\ Publishers!Init /\ Claude!Init /\
     Feed!Init
  /\ (part # "credentials" => inPlace)
  /\ (part # "transfer" => ~source.touched)
  /\ (part # "chat" => kind = "api")
  /\ (part # "panel" => provider = "key" /\ stored = {})
  /\ (part # "written" => owner = "task" /\ older = <<>> /\ writtenJournal = <<>>)
  /\ (part # "claude" => verified = {})

\* One component moves, the others keep their initial states.
AllNext ==
  /\ UNCHANGED part
  /\ IF part = "credentials" THEN Credentials!Next ELSE UNCHANGED credentialsVars
  /\ IF part = "host" THEN Host!Next ELSE UNCHANGED hostVars
  /\ IF part = "transfer" THEN Transfer!Next ELSE UNCHANGED transferVars
  /\ IF part = "market" THEN Market!Next ELSE UNCHANGED marketVars
  /\ IF part = "owners" THEN KernelOwners!Next ELSE UNCHANGED ownersVars
  /\ IF part = "helper" THEN Helper!Next ELSE UNCHANGED helperVars
  /\ IF part = "reads" THEN Reads!Next ELSE UNCHANGED readsVars
  /\ IF part = "reports" THEN Reports!Next ELSE UNCHANGED reportsVars
  /\ IF part = "chat" THEN Chat!Next ELSE UNCHANGED chatVars
  /\ IF part = "panel" THEN Panel!Next ELSE UNCHANGED panelVars
  /\ IF part = "router" THEN Router!Next ELSE UNCHANGED routerVars
  /\ IF part = "queries" THEN Queries!Next ELSE UNCHANGED queriesVars
  /\ IF part = "written" THEN Publishers!Next ELSE UNCHANGED writtenVars
  /\ IF part = "claude" THEN Claude!Next ELSE UNCHANGED claudeVars
  /\ IF part = "feed" THEN Feed!Next ELSE UNCHANGED feedVars

AllSpec == AllInit /\ [][AllNext]_<<part, credentialsVars, hostVars, transferVars, marketVars, ownersVars,
                                    helperVars, readsVars, reportsVars, chatVars,
                                    panelVars, routerVars, queriesVars, writtenVars,
                                    claudeVars, feedVars>>

-----------------------------------------------------------------------------

\* What is on the disk or at the broker is what the rows say: a credential file
\* is whole unless calls overlapped, the current version of an extension is
\* whole, a quota directory is as the helper answered, a quarantined candidate is
\* sealed, and a cleaned host has no credentials and ends, be it one of Codex or of Claude.
StoresAgree ==
  /\ part = "credentials" => Credentials!TypeOK /\ Credentials!WholeUnlessOverlapped
  /\ part = "market" => Market!TypeOK /\ Market!CurrentIsWhole
  /\ part = "helper" => Helper!TypeOK /\ Helper!AnswersAreDurable /\ Helper!FilesAreBounded
  /\ part = "transfer" => Transfer!TypeOK /\ Transfer!QuarantinedIsSealed
  /\ part = "host" => Host!TypeOK /\ Host!CleanedIsRevoked /\ Host!CleanedHostIsEnding
  /\ part = "claude" => Claude!TypeOK /\ Claude!CleanedIsNotReleased /\ Claude!EndedIsRevoked

\* What the operations view, a reader or the user of a report or a chat was told
\* is what was recorded: numbers never change, an answer was told first, a
\* request has one answer, a reply is shown once, the models offered are of the
\* provider shown; a panel of operations that resumes misses nothing of the store it
\* left, and one that waits for nothing shows what the store has; an action is asked
\* of its owner once, and no request is forgotten; the metrics, the runs and the
\* pages of the projection are those of the events it accepted; what a registry
\* publishes is what it recorded, before a restart and after; a tool is allowed once.
ToldAsKept ==
  /\ part = "owners" => KernelOwners!TypeOK /\ KernelOwners!NumbersNeverChange /\ KernelOwners!AnsweredIsTold
  /\ part = "reads" => Reads!TypeOK /\ Reads!OneAnswer /\ Reads!ToldAsStored
  /\ part = "reports" => Reports!TypeOK /\ Reports!GivenAsRecorded
  /\ part = "chat" => Chat!TypeOK /\ Chat!TurnsPaired /\ Chat!StreamedIsProduced
  /\ part = "panel" => Panel!TypeOK /\ Panel!ModelsFit
  /\ part = "router" => Router!TypeOK /\ Router!AskedOnce /\ Router!NoneIsForgotten
  /\ part = "queries" =>
       Queries!TypeOK /\ Queries!MetricsAgree /\ Queries!RowsAreReplayed /\ Queries!WalksAreWhole
  /\ part = "written" => Publishers!TypeOK /\ Publishers!FactsAreTaken /\ Publishers!HeldIsImage /\ Publishers!StartsAgain
  /\ part = "claude" => Claude!AllowedOnce /\ Claude!ResultIsLast
  /\ part = "feed" => Feed!TypeOK /\ Feed!ResumeIsWhole /\ Feed!QuietIsCurrent

\* A file changes by the entry of one call and nothing else, unless calls
\* overlapped (set and delete of the credential store).
ChangesAreExact == Credentials!ChangesAreExact
=============================================================================
