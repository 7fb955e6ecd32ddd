--------------------------- MODULE MCAgentAttempts ---------------------------
(* A root attempt and one it may have as a child.                           *)
EXTENDS AgentAttempts

CONSTANTS a1, a2
AsksUnder(a) == IF a = a2 THEN a1 ELSE NoAttempt
Tells(a) == IF a = a2 THEN {"completed_observed", "invalid"}
            ELSE {"ready", "activity"}
==============================================================================
