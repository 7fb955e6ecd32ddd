----------------------------- MODULE MCDeadlines ----------------------------
(***************************************************************************)
(* What must end, side by side: the operations of the registry, a sign-in, *)
(* the cleanup of a Codex session and the calls of the provider panel. A   *)
(* behaviour moves only one of them, so that a single run checks each by   *)
(* itself; the others keep their initial states, in which none of their    *)
(* fair actions is enabled.                                                *)
(***************************************************************************)
EXTENDS OperationRegistry

CONSTANTS
  o1, p1,
  MaxLogins, NeedsCode,   \* of AccountLogins
  MaxActivity             \* of CodexSession

VARIABLES
  part,     \* the component that moves
  starting, entry, last, status, loginChild, handler, loginOperation, file,
  loginStored, loginShown, polling, dropped,
  at, sessionPhase, requests, abandoned, fault, heard, toServer, toClient, turn,
  noticed, host, stage, interrupts, broken,
  provider, loaded, panelStored, panelShown, models, discovered, busy, calls,
  crossing, mode

loginVars == <<starting, entry, last, status, loginChild, handler, loginOperation, file,
               loginStored, loginShown, polling, dropped>>
sessionVars == <<at, sessionPhase, requests, abandoned, fault, heard, toServer, toClient, turn,
                 noticed, host, stage, interrupts, broken>>
panelVars == <<provider, loaded, panelStored, panelShown, models, discovered, busy, calls,
               crossing, mode>>

Login == INSTANCE AccountLogins
  WITH child <- loginChild, operation <- loginOperation,
    stored <- loginStored, shown <- loginShown
Session == INSTANCE CodexSession
  WITH phase <- sessionPhase
Panel == INSTANCE ProviderPanel
  WITH Providers <- {"account", "key"}, Accounts <- {"account"}, MaxCalls <- 1,
    stored <- panelStored, shown <- panelShown

\* The bounds of the instances.
ASSUME DeadlineBounds == Login!LoginBounds /\ Session!ActivityBound

Parts == {"registry", "login", "session", "panel"}
\* Where a component has a choice of initial states, only the one that moves makes it.
AllInit ==
  /\ part \in Parts
  /\ Init /\ Login!Init /\ Session!Init /\ Panel!Init
  /\ (part # "panel" => provider = "key" /\ panelStored = {})

\* One component moves, the others keep their initial states.
AllNext ==
  /\ UNCHANGED part
  /\ IF part = "registry" THEN Next ELSE UNCHANGED vars
  /\ IF part = "login" THEN Login!Next ELSE UNCHANGED loginVars
  /\ IF part = "session" THEN Session!Next ELSE UNCHANGED sessionVars
  /\ IF part = "panel" THEN Panel!Next ELSE UNCHANGED panelVars

AllSpec == AllInit /\ [][AllNext]_<<part, vars, loginVars, sessionVars, panelVars>>
        /\ Fairness /\ Login!Fairness /\ Session!Fairness /\ Panel!Fairness

-----------------------------------------------------------------------------

\* What a user of the provider panel waits for ends: a sign-in whose handlers are
\* attached loses its entry or has its tool signalled (10-minute operation,
\* loginCancel, exit handler of account-login-manager.ts), the widget sees the end of
\* every sign-in that ends, and every call of the panel is answered.
WaitsEnd == Login!SignInsEnd /\ Login!ShownSettles /\ Panel!CallsEnd

\* A cleanup that was begun ends, whatever the server does (codex-session-cleanup.ts:54).
CleanupEnds == Session!CleanupEnds

\* A tool that runs has the entry of its provider, an answer was asked for, the
\* client refuses a lawful server only during a cleanup.
SessionsAgree ==
  /\ part = "login" => Login!TypeOK /\ Login!SignInsAreSingle
  /\ part = "session" => Session!TypeOK /\ Session!AnswersAreExpected /\ Session!RefusalsAreRaces
=============================================================================
