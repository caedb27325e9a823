---------------------------- MODULE MCRecurrence ----------------------------
(* Two weeks in a zone without a change, one that springs forward (a gap)   *)
(* and one that falls back (a fold), on the first Sunday at 2.              *)
EXTENDS Recurrence

Sunday2 == 6 * Hours + 2

MCZones == {[before |-> 0, after |-> 0, change |-> 0],
            [before |-> 1, after |-> 2, change |-> Sunday2 - 1],
            [before |-> 2, after |-> 1, change |-> Sunday2 - 1]}
\* The start of the window, and every hour of the three days around the change.
MCStarts == {0} \cup (Sunday2 - 36 .. Sunday2 + 12)
MCHorizon == 11 * Hours
=============================================================================
