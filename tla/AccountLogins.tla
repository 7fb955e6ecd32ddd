---------------------------- MODULE AccountLogins ----------------------------
(***************************************************************************)
(* Signing in to an account of one provider (account-login-manager.ts):    *)
(* the command line tool the manager spawns, the entry it keeps for it,    *)
(* the handler of its exit, the deadline of its operation, and the widget  *)
(* that polls the manager (provider-widget.ts).                            *)
(*                                                                         *)
(* A tool that cannot be spawned has no pid, and recording that it started *)
(* throws before its handlers are attached: the entry stays.  The handler  *)
(* of its error event is left out: besides the spawn only a signal that    *)
(* could not be sent raises it, and the tool runs as the user.             *)
(*                                                                         *)
(* The terminal state of a sign-in is recorded under the provider: it      *)
(* removes whatever entry is there, which is another sign-in's when the    *)
(* one that ended had been dropped before.                                 *)
(***************************************************************************)
EXTENDS Naturals, FiniteSets

CONSTANTS
  MaxLogins,        \* sign-ins started in a behaviour
  NeedsCode         \* the tool asks for a code of the browser

LoginBounds == MaxLogins \in Nat \ {0} /\ NeedsCode \in BOOLEAN

VARIABLES
  starting,         \* the sign-in whose start waits for its operation, or 0
  entry,            \* logins: the sign-in registered for the provider, or 0
  last,             \* lastStates
  status,           \* state of each sign-in
  child,            \* its process
  handler,          \* where its exit handler waits, or that it was never attached
  operation,        \* its operation in the registry
  file,             \* the sign-in whose credential the tool left in its file
  stored,           \* the one whose credential the store holds
  shown, polling,   \* loginState and loginPoll of the widget
  dropped           \* history: sign-ins whose entry a cancel or a lost code removed

vars == <<starting, entry, last, status, child, handler, operation, file, stored, shown, polling, dropped>>

Logins == 1..MaxLogins
Live == {"running", "awaiting-code"}
Ended == {"succeeded", "failed", "cancelled"}
Running(a) == child[a] \in {"running", "signalled"}
Attached(a) == handler[a] # "unattached"

\* state(): what the manager answers for the provider.
State == IF entry # 0 THEN status[entry] ELSE last

Init ==
  /\ starting = 0 /\ entry = 0 /\ last = "idle"
  /\ status = [a \in Logins |-> "none"] /\ child = [a \in Logins |-> "none"]
  /\ handler = [a \in Logins |-> "none"] /\ operation = [a \in Logins |-> "none"]
  /\ file = 0 /\ stored = 0 /\ shown = "idle" /\ polling = FALSE /\ dropped = {}

Widget == <<shown, polling>>
Store == <<file, stored>>

RecordTerminal(s) == entry' = 0 /\ last' = s

\* The widget takes an answer and polls on while the sign-in is alive.
Takes(s) == shown' = s /\ polling' = (polling \/ s \in Live)

---------------------------------------------------------------------------

\* (mutant: a second start does not see the first)
StartAnyway(a) ==
  /\ status[a] = "none" /\ \A b \in 1..(a - 1) : status[b] # "none"
  /\ starting' = a
  /\ status' = [status EXCEPT ![a] = "waiting"]
  /\ UNCHANGED <<entry, last, child, handler, operation, Store, Widget, dropped>>

\* A start that finds another start only waits and answers.
Start(a) == entry = 0 /\ starting = 0 /\ StartAnyway(a)

\* startOperation rejects.
StartFails(a) ==
  /\ status[a] = "waiting" /\ starting' = IF starting = a THEN 0 ELSE starting
  /\ status' = [status EXCEPT ![a] = "failed"]
  /\ UNCHANGED <<entry, last, child, handler, operation, Store, Widget, dropped>>

\* Its operation is there: the entry, the process and its handlers.
Launch(a) ==
  /\ status[a] = "waiting" /\ starting' = IF starting = a THEN 0 ELSE starting
  /\ entry' = a
  /\ status' = [status EXCEPT ![a] = "running"]
  /\ child' = [child EXCEPT ![a] = "running"]
  /\ operation' = [operation EXCEPT ![a] = "live"]
  /\ Takes("running")
  /\ UNCHANGED <<last, handler, Store, dropped>>

\* The tool is missing, or its row could not be written: the start is rejected
\* after the entry was registered.
LaunchThrows(a) ==
  /\ status[a] = "waiting" /\ starting' = IF starting = a THEN 0 ELSE starting
  /\ entry' = a
  /\ status' = [status EXCEPT ![a] = "running"]
  /\ \E c \in {"failed", "running"} : child' = [child EXCEPT ![a] = c]
  /\ handler' = [handler EXCEPT ![a] = "unattached"]
  /\ operation' = [operation EXCEPT ![a] = "live"]
  /\ UNCHANGED <<last, Store, Widget, dropped>>

\* The tool asks for the code, whatever became of the sign-in.
Collect(a) ==
  /\ NeedsCode /\ Running(a) /\ Attached(a)
  /\ status' = [status EXCEPT ![a] = "awaiting-code"]
  /\ UNCHANGED <<starting, entry, last, child, handler, operation, Store, Widget, dropped>>

\* The exit handler of a cancelled sign-in only closes its operation.
ExitOfCancelled(a) ==
  /\ Attached(a) /\ status[a] = "cancelled"
  /\ operation' = [operation EXCEPT ![a] = "ended"]
  /\ handler' = [handler EXCEPT ![a] = "done"]
ExitAwaits(a) ==
  /\ Attached(a) /\ status[a] # "cancelled"
  /\ handler' = [handler EXCEPT ![a] = "cleanup"]
  /\ UNCHANGED operation
ExitUnheard(a) == ~Attached(a) /\ UNCHANGED <<handler, operation>>

\* The tool ends; when it succeeds its credential is in its file.
Exit(a, code) ==
  /\ Running(a)
  /\ child' = [child EXCEPT ![a] = code]
  /\ file' = IF code = "zero" THEN a ELSE file
  /\ ExitOfCancelled(a) \/ ExitAwaits(a) \/ ExitUnheard(a)
  /\ UNCHANGED <<starting, entry, last, status, stored, Widget, dropped>>

\* The operation is cleaned, and the credential read and handed to the store.
Imports(a) ==
  /\ handler[a] = "cleanup" /\ child[a] = "zero"
  /\ handler' = [handler EXCEPT ![a] = "import"]
  /\ UNCHANGED <<starting, entry, last, status, child, operation, Store, Widget, dropped>>

\* The cleanup or the import failed, or the tool had.
Fails(a) ==
  /\ handler[a] \in {"cleanup", "import"}
  /\ handler' = [handler EXCEPT ![a] = "done"]
  /\ operation' = [operation EXCEPT ![a] = "ended"]
  /\ RecordTerminal("failed")
  /\ UNCHANGED <<starting, status, child, Store, Widget, dropped>>

Imported(a) ==
  /\ handler[a] = "import"
  /\ handler' = [handler EXCEPT ![a] = "done"]
  /\ stored' = file
  /\ operation' = [operation EXCEPT ![a] = "ended"]
  /\ RecordTerminal("succeeded")
  /\ UNCHANGED <<starting, status, child, file, Widget, dropped>>

\* (mutant: the deadline closes the operation and leaves the tool)
TimeoutNoKill(a) ==
  /\ operation[a] = "live"
  /\ operation' = [operation EXCEPT ![a] = "ended"]
  /\ UNCHANGED <<starting, entry, last, status, child, handler, Store, Widget, dropped>>

\* The ten minutes of its operation are over: loginCancel signals the tool of
\* the sign-in registered now.
Timeout(a) ==
  /\ operation[a] = "live"
  /\ operation' = [operation EXCEPT ![a] = "ended"]
  /\ child' = [b \in Logins |-> IF b = entry /\ child[b] = "running" THEN "signalled" ELSE child[b]]
  /\ UNCHANGED <<starting, entry, last, status, handler, Store, Widget, dropped>>

---------------------------------------------------------------------------

SubmitCode ==
  /\ shown = "awaiting-code" /\ entry # 0 /\ status[entry] = "awaiting-code"
  /\ status' = [status EXCEPT ![entry] = "running"]
  /\ Takes("running")
  /\ UNCHANGED <<starting, entry, last, child, handler, operation, Store, dropped>>

\* The tool no longer reads: the entry goes, the process stays as it is.
CodeLost ==
  /\ shown = "awaiting-code" /\ entry # 0 /\ status[entry] = "awaiting-code"
  /\ dropped' = dropped \union {entry}
  /\ RecordTerminal("failed")
  /\ Takes("failed")
  /\ UNCHANGED <<starting, status, child, handler, operation, Store>>

CodeStale ==
  /\ shown = "awaiting-code"
  /\ entry # 0 => status[entry] # "awaiting-code"
  /\ Takes(State)
  /\ UNCHANGED <<starting, entry, last, status, child, handler, operation, Store, dropped>>

Cancel ==
  /\ shown \in Live /\ entry # 0
  /\ child' = [child EXCEPT ![entry] = IF @ = "running" THEN "signalled" ELSE @]
  /\ status' = [status EXCEPT ![entry] = "cancelled"]
  /\ dropped' = dropped \union {entry}
  /\ RecordTerminal("cancelled")
  /\ shown' = "cancelled" /\ polling' = FALSE
  /\ UNCHANGED <<starting, handler, operation, Store>>

CancelNothing ==
  /\ shown \in Live /\ entry = 0
  /\ shown' = "idle" /\ polling' = FALSE
  /\ UNCHANGED <<starting, entry, last, status, child, handler, operation, Store, dropped>>

\* (mutant: the poll ends at its first answer)
PollOnce ==
  /\ polling /\ shown' = State /\ polling' = FALSE
  /\ UNCHANGED <<starting, entry, last, status, child, handler, operation, Store, dropped>>

\* The answer to a poll; what is over, and not idle, ends the polling.
Poll ==
  /\ polling
  /\ shown' = State
  /\ polling' = (State \notin Ended)
  /\ UNCHANGED <<starting, entry, last, status, child, handler, operation, Store, dropped>>

\* Only a sign-in that is not shown as alive may be started or imported.
Press(a) == shown \notin Live /\ Start(a)

\* A start that finds an entry answers with its state.
PressAgain ==
  /\ shown \notin Live /\ entry # 0
  /\ Takes(State)
  /\ UNCHANGED <<starting, entry, last, status, child, handler, operation, Store, dropped>>

Forget ==
  /\ stored # 0 /\ stored' = 0
  /\ UNCHANGED <<starting, entry, last, status, child, handler, operation, file, Widget, dropped>>

Next ==
  \/ \E a \in Logins : Press(a) \/ StartFails(a) \/ Launch(a) \/ LaunchThrows(a) \/ Collect(a)
                       \/ Imports(a) \/ Fails(a) \/ Imported(a) \/ Timeout(a)
                       \/ \E code \in {"zero", "nonzero"} : Exit(a, code)
  \/ SubmitCode \/ CodeLost \/ CodeStale \/ Cancel \/ CancelNothing \/ Poll \/ PressAgain \/ Forget

\* Time passes, and a start and an exit handler go on. No tool has to end.
Fairness ==
  /\ WF_vars(Poll)
  /\ \A a \in Logins :
       /\ WF_vars(Timeout(a)) /\ WF_vars(Imported(a) \/ Fails(a)) /\ WF_vars(Launch(a) \/ LaunchThrows(a) \/ StartFails(a))

Spec == Init /\ [][Next]_vars /\ Fairness

---------------------------------------------------------------------------

TypeOK ==
  /\ starting \in 0..MaxLogins /\ entry \in 0..MaxLogins
  /\ last \in {"idle"} \union Ended
  /\ status \in [Logins -> {"none", "waiting"} \union Live \union Ended]
  /\ child \in [Logins -> {"none", "running", "signalled", "zero", "nonzero", "failed"}]
  /\ handler \in [Logins -> {"none", "unattached", "cleanup", "import", "done"}]
  /\ operation \in [Logins -> {"none", "live", "ended"}]
  /\ file \in 0..MaxLogins /\ stored \in 0..MaxLogins
  /\ shown \in {"idle"} \union Live \union Ended /\ polling \in BOOLEAN
  /\ dropped \subseteq Logins

\* A tool that runs and that nobody asked to end is the one the entry of the
\* provider names, so a start finds it instead of spawning another one, unless
\* a sign-in lost its entry to a cancel or a lost code before (the comment at
\* account-login-manager.ts:92; after such a loss the code breaks it).
SignInsAreSingle ==
  \A a \in Logins : child[a] = "running" /\ entry # a => \E b \in dropped : b <= a

\* A registered sign-in whose handlers are attached is over in the end, or its
\* tool is asked to end; and the end of the tool removes the entry (10-minute
\* operation, loginCancel, exit handler). One whose handlers are not attached
\* stays until it is cancelled, and so may one whose tool ignores the signal.
SignInsEnd ==
  \A a \in Logins :
    /\ entry = a /\ Attached(a) ~> entry # a \/ child[a] = "signalled"
    /\ entry = a /\ Attached(a) /\ ~Running(a) ~> entry # a

\* The widget does not show a sign-in as alive for ever, unless it is one of
\* those: it polls until it has seen the end of any other.
ShownSettles ==
  /\ shown \in Live ~>
       \/ shown \notin Live
       \/ \E a \in Logins : entry = a /\ (~Attached(a) \/ child[a] = "signalled")
  /\ shown \in Live /\ entry = 0 ~> shown \notin Live

\* Not so, and no run keeps it: a sign-in with a tool that is missing stays
\* registered when nobody cancels it.
EverySignInEnds == \A a \in Logins : entry = a ~> entry # a
=============================================================================
