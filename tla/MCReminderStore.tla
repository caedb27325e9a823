-------------------------- MODULE MCReminderStore --------------------------
(* A small reminder table for TLC.                                         *)
EXTENDS ReminderStore, TLC

CONSTANTS o1, o2, k1, a1

\* "Tea" and "tea" differ but fold to the same normalized_message.
MCMessages == {"Tea", "tea"}
MCNorm == [m \in MCMessages |-> "tea"]
MCRules == {"once", "daily"}
MCPeriod == [r \in MCRules |-> IF r = "once" THEN 0 ELSE 1]
MCDueTimes == {0, 1}

OwnerSymmetry == Permutations({o1, o2})
=============================================================================
