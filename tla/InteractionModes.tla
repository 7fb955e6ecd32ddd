-------------------------- MODULE InteractionModes --------------------------
(* The interaction mode of one task, which says what may be done to it,    *)
(* and the transitions from mode to mode, each confirmed by an explicit    *)
(* gesture after the owners of the new mode have qualified it.  The task's *)
(* revision and whether it is active come from outside.                    *)
(* Source: packages/kogg-interaction-modes/src/node.                       *)
EXTENDS Integers, FiniteSets, SequencesExt

CONSTANTS Windows,         \* each acts in a session of its own
          Modes,           \* in order: every mode has what those before it have
          MaxTransitions,  \* bound: transitions asked for
          None

VARIABLES
  mode,         \* the row: [selected, revision, sequence], or None
  transitions,  \* the transitions asked for, in order
  confirming,   \* the transition each window is confirming, with what was read before the owners were asked
  cancelling,   \* the transitions that calls are cancelling, which were waiting when the call looked
  serving       \* the registry has accepted its own rows at the last start

Rank(m) == CHOOSE i \in DOMAIN Modes : Modes[i] = m
Plan    == Modes[1]

Direction(from, to) ==
  CASE from = to             -> "preserve"
    [] Rank(to) < Rank(from) -> "reduce"
    [] OTHER                 -> "expand"

Waiting    == {"awaiting-confirmation", "cleanup-pending"}
Pending    == {i \in DOMAIN transitions : transitions[i].state \in Waiting}
\* The transitions that changed the mode: those the owners have qualified.
Taken      == {i \in DOMAIN transitions : transitions[i].owners = "qualified"}
\* Those that are on record as having changed it.
Recorded  == {i \in DOMAIN transitions : transitions[i].state = "committed" /\ transitions[i].from # transitions[i].to}
\* The rows with a transition in a state, after an answer of the owners (its qualification_digest).
Settled(i, s, answer) == [transitions EXCEPT ![i] = [@ EXCEPT !.state = s, !.owners = answer]]

ModeInit ==
  /\ mode = None /\ transitions = <<>>
  /\ confirming = [w \in Windows |-> None]
  /\ cancelling = {} /\ serving = TRUE

\* A task found in the last mode, by a transition committed before.
ModeFound(rev) ==
  /\ mode = [selected |-> Last(Modes), revision |-> rev, sequence |-> 1]
  /\ transitions = <<[from |-> Plan, to |-> Last(Modes), expected |-> 0, by |-> None,
                     state |-> "committed", owners |-> "qualified"]>>
  /\ confirming = [w \in Windows |-> None]
  /\ cancelling = {} /\ serving = TRUE

\* resolveTask, reconcilePlan and createPlan: every question brings the row up to date first.
Reconciled(rev) ==
  IF mode = None THEN [selected |-> Plan, revision |-> rev, sequence |-> 0]
  ELSE IF mode.selected = Plan /\ Pending = {} THEN [mode EXCEPT !.revision = rev]
  ELSE mode

\* project: ready, and with the capabilities of the mode, only for the task as it is now.
Ready(m, rev) == m.revision = rev /\ Pending = {}

\* authorizeOperation, for the operations every mode allows.
Authorized(rev) == Ready(Reconciled(rev), rev)
Authorize(rev)  == mode' = Reconciled(rev) /\ UNCHANGED <<transitions, confirming>>

Get(rev) == Reconciled(rev) # mode /\ Authorize(rev)

RequestTransition(w, rev) ==
  /\ Cardinality({i \in DOMAIN transitions : transitions[i].by # None}) < MaxTransitions
  /\ Ready(Reconciled(rev), rev)
  /\ LET m == Reconciled(rev)
     IN  /\ mode' = m
         /\ \E i \in DOMAIN Modes :
              transitions' = Append(transitions,
                [from |-> m.selected, to |-> Modes[i], expected |-> m.sequence, by |-> w, owners |-> "unasked",
                 state |-> CASE Direction(m.selected, Modes[i]) = "preserve" -> "committed"
                             [] Direction(m.selected, Modes[i]) = "reduce"   -> "cleanup-pending"
                             [] OTHER                                        -> "awaiting-confirmation"])
  /\ UNCHANGED confirming

\* cancelTransition, by any window, up to the question for the task.
CancelTransition ==
  /\ \E i \in Pending : cancelling' = cancelling \cup {i}
  /\ UNCHANGED <<mode, transitions, confirming>>

\* After it the row is cancelled, whatever became of it meanwhile.
CancelCommit ==
  /\ \E i \in cancelling :
       /\ transitions' = Settled(i, "cancelled", transitions[i].owners)
       /\ cancelling' = cancelling \ {i}
  /\ UNCHANGED <<mode, confirming>>

\* expireChallenges: two minutes have passed.
Expire ==
  /\ \E i \in Pending :
       /\ transitions[i].state = "awaiting-confirmation"
       /\ transitions' = Settled(i, "expired", "unasked")
  /\ UNCHANGED <<mode, confirming>>

\* The row is as it was when the transition was asked for, and of the task as it is now.
RowFits(t, rev) == mode # None /\ mode.sequence = t.expected /\ mode.selected = t.from /\ mode.revision = rev

\* confirmTransition up to the first owner.
ConfirmTransition(w, rev) ==
  /\ confirming[w] = None
  /\ \E i \in Pending :
       /\ Direction(transitions[i].from, transitions[i].to) = "expand" => transitions[i].by = w
       /\ RowFits(transitions[i], rev)
       /\ confirming' = [confirming EXCEPT ![w] = [id |-> i, revision |-> rev]]
  /\ UNCHANGED <<mode, transitions>>

StillFitsUnasked(c, rev) == RowFits(transitions[c.id], mode.revision) /\ c.id \in Pending

\* After the owners: the task again, and in the transaction the row and the transition.
StillFits(c, rev) == c.revision = rev /\ RowFits(transitions[c.id], rev) /\ c.id \in Pending

\* qualified: every owner said yes; with a no the transition is refused or quarantined.
Decided(w, rev) ==
  /\ confirming[w] # None
  /\ StillFits(confirming[w], rev)
  /\ confirming' = [confirming EXCEPT ![w] = None]

CommitTransition(w, rev) ==
  /\ Decided(w, rev)
  /\ LET i == confirming[w].id
     IN  /\ mode' = [mode EXCEPT !.selected = transitions[i].to, !.sequence = @ + 1]
         /\ transitions' = Settled(i, "committed", "qualified")

RefuseTransition(w, rev) ==
  /\ Decided(w, rev)
  /\ \E s \in {"refused", "quarantined"} : transitions' = Settled(confirming[w].id, s, "unqualified")
  /\ UNCHANGED mode

\* The confirmation meets a conflict: nothing is written.
ConfirmationFails(w, rev) ==
  /\ confirming[w] # None
  /\ ~StillFits(confirming[w], rev)
  /\ confirming' = [confirming EXCEPT ![w] = None]
  /\ UNCHANGED <<mode, transitions>>

-----------------------------------------------------------------------------
\* The last event about a transition carries what the owners answered, if they
\* were asked; the event of a cancellation never does.
VerifyTransitions == \A i \in DOMAIN transitions : transitions[i].owners # "unasked" => transitions[i].state # "cancelled"

\* The mode is that of the last of these transitions, and as many have taken effect.
Follows(m, those) ==
  /\ m.sequence = Cardinality(those)
  /\ m.selected = IF those = {} THEN Plan ELSE transitions[Max(those)].to

VerifyModeStates == mode # None => Follows(mode, Recorded)

\* startDatabase: without both the registry does not start, and refuses every call.
ModeRestart ==
  /\ serving' = (VerifyTransitions /\ VerifyModeStates)
  /\ confirming' = [w \in Windows |-> None] /\ cancelling' = {}
  /\ UNCHANGED <<mode, transitions>>

-----------------------------------------------------------------------------
\* The mode in force is the one the owners have qualified last, and the registry
\* accepts its rows at a start unless a late cancellation is among them.
RestartAccepts ==
  /\ mode # None => Follows(mode, Taken)
  /\ VerifyTransitions => VerifyModeStates

\* A settled transition never takes effect: only a cancellation that found it
\* waiting may still write to it, and leaves what the owners answered.
SettledTransitionsStay ==
  \A i \in DOMAIN transitions : transitions[i].state \notin Waiting =>
    \/ transitions'[i] = transitions[i]
    \/ /\ i \in cancelling
       /\ transitions'[i] = [transitions[i] EXCEPT !.state = "cancelled"]
=============================================================================
