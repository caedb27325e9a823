------------------------ MODULE MCReminderScheduler ------------------------
(* Two programs over one small reminder table for TLC.                     *)
EXTENDS ReminderScheduler, TLC

CONSTANTS s1, s2, c1, c2, a1, m1, m2

MCNorm == [m \in Messages |-> m]
MCPeriod == [r \in Rules |-> IF r = "once" THEN 0 ELSE 1]
MCDueTimes == {0, 1}

\* c1 sits at the program whose scheduler is s1, c2 at one without scheduler.
MCHost == [c \in Clients |-> IF c = c1 THEN s1 ELSE None]
\* Nobody wakes a scheduler: the poll interval alone does.
MCNoHost == [c \in Clients |-> None]

\* Two situations, told apart by s2.  Alone: s1 alone, without faults, and two daily reminders, so
\* that a next occurrence can clash, or one and two requests, so that it can be cancelled twice.
Alone == pc[s2] = "dead"

BothOrAlone ==
    /\ NothingYet
    /\ \E there \in {{s1, s2}, {s1}} : pc = [s \in Owners |-> IF s \in there THEN "created" ELSE "dead"]

\* Both: two schedulers, faults, one reminder and one request about it.  The texts differ in
\* nothing, so those of new reminders are m1.
Bounded ==
    /\ IF Alone THEN trouble' = 0 /\ lastId' + requests' <= 3
                ELSE lastId' <= 1 /\ requests' <= 1
    /\ lastId' # lastId => rows'[lastId'].message = m1 /\ (Alone => rows'[lastId'].rule = "daily")

\* A fault never is the only way on, and nothing makes a user act: the bounds stop no step that
\* fairness asks for.
BoundedSpec ==
    /\ BothOrAlone /\ [][Next /\ Bounded]_vars
    /\ WF_vars(Advance)
    /\ \A s \in Owners : WF_vars(RunStep(s)) /\ WF_vars(PollStep(s))
=============================================================================
