---------------------------- MODULE TaskAuthority ----------------------------
(* Tasks and interaction modes together: an edit of a task asks the mode   *)
(* registry for leave, the mode registry asks the task registry for the    *)
(* task, and both go on while the calls of other windows run.              *)
EXTENDS TaskRegistry, SequencesExt

CONSTANTS Modes, MaxTransitions

\* Plan is the first of several modes, and each has a place of its own.
ASSUME ModesAreOrdered ==
  /\ Modes \in Seq(STRING) /\ Len(Modes) > 1
  /\ \A i, j \in DOMAIN Modes : Modes[i] = Modes[j] => i = j

\* What stands for no row is not one.
ASSUME NoneIsNoRow ==
  None \notin [revision : Nat, lifecycle : {"active", "archived"}, spec : Nat, approval : Nat \cup {None}]
                \cup [selected : STRING, revision : Nat, sequence : Nat]

VARIABLES mode, transitions, confirming, cancelling, serving

INSTANCE InteractionModes

theModes == <<mode, transitions, confirming, cancelling, serving>>
vars     == <<task, frozen, approvals, admissions, challenges, binding, jobs, made,
              mode, transitions, confirming, cancelling, serving>>

Init == TaskInit /\ (ModeInit \/ (task # None /\ ModeFound(task.revision)))

Revision == task.revision

\* Calls of the task registry; those that plan are authorised by the mode of an active task first.
TaskStep(w) ==
  \/ (AskCreate(w) \/ AskPlain(w) \/ AskApprove(w) \/ AskResolve(w)) /\ UNCHANGED theModes
  \/ /\ Active
     /\ AskPlanning(w, Authorized(Revision)) \/ AskReview(w, Authorized(Revision))
     /\ serving /\ Authorize(Revision) /\ UNCHANGED <<cancelling, serving>>
  \/ Finish(w) /\ UNCHANGED theModes

\* The selector of a window reads the mode and asks for another.
SelectMode(w) == Get(Revision) \/ RequestTransition(w, Revision)

\* It confirms what it asked for.
HandlePending(w) ==
  \/ ConfirmTransition(w, Revision)
  \/ CommitTransition(w, Revision) \/ RefuseTransition(w, Revision)
  \/ ConfirmationFails(w, Revision)

\* A registry that has not started answers no call.
ModeStep(w) ==
  /\ Active /\ serving /\ UNCHANGED <<serving, taskVars>>
  /\ \/ (SelectMode(w) \/ HandlePending(w)) /\ UNCHANGED cancelling
     \/ CancelTransition \/ CancelCommit

\* resolveTask refuses a task that was archived while it, or the owners, were asked.
CallOfArchived(w) ==
  /\ ~Active
  /\ \/ /\ confirming[w] # None /\ confirming' = [confirming EXCEPT ![w] = None]
        /\ UNCHANGED cancelling
     \/ (\E i \in cancelling : cancelling' = cancelling \ {i}) /\ UNCHANGED confirming
  /\ UNCHANGED <<mode, transitions, serving, taskVars>>

Next ==
  \/ \E w \in Windows : TaskStep(w) \/ ModeStep(w) \/ CallOfArchived(w)
  \/ (BindingMoves \/ ReviewExpires) /\ UNCHANGED theModes
  \/ serving /\ Expire /\ UNCHANGED <<cancelling, serving, taskVars>>
  \/ Restart /\ ModeRestart

Spec == Init /\ [][Next]_vars

-----------------------------------------------------------------------------
TypeOK ==
  /\ TaskTypeOK
  /\ mode # None => mode.selected \in Range(Modes) /\ mode.sequence <= Len(transitions)
  /\ Cardinality(Pending) <= 1

(* What is planned was allowed: an edit, a freeze or a successor commits   *)
(* at the revision at which the mode registry gave leave for it, so leave  *)
(* that was given before somebody else's edit is never used after it.      *)
PlannedAsAllowed ==
  [][\A w \in Windows :
       jobs[w] # None /\ jobs[w].kind \in Planning /\ task' # task /\ jobs'[w] = None
         => task.revision = jobs[w].expect /\ jobs[w].row = task]_vars

(* A mode takes effect only for the task as it is at that moment, whatever *)
(* was written to it while the owners were asked.                          *)
CommittedForCurrentTask ==
  [][mode' # None /\ mode # None /\ mode'.selected # mode.selected => mode'.revision = task.revision]_vars

(* The mode in force is the one the owners qualified last, and the mode    *)
(* registry can be started again after every step, unless a cancellation   *)
(* was written over a transition that was settled while it waited.         *)
ModesRestart == RestartAccepts

(* Not so, and no run keeps it: a cancellation that looked before the      *)
(* commit of a confirmation is written over it, and the next start of the  *)
(* registry refuses the row (cancelTransition asks for the task between    *)
(* its check and its UPDATE, which names no state).                        *)
ModesAlwaysRestart == VerifyTransitions

(* A cancelled, expired or refused transition never takes effect, although *)
(* a confirmation of it may be waiting for an owner at the time, and one   *)
(* that is settled is written again only by a cancellation begun before.   *)
TransitionsStay == [][SettledTransitionsStay]_vars
=============================================================================
