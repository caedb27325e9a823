----------------------------- MODULE Recurrence -----------------------------
(***************************************************************************)
(* Recurring due times across clock changes: src/jarvis/tasks/recurrence.py *)
(* (_localize, ReminderSchedule.daily/weekly/weekdays, next_occurrence).   *)
(*                                                                         *)
(* Instants are hours of UTC, local times hours of a local calendar; both  *)
(* start on a Monday at 0.  A zone has one change of its offset, which is  *)
(* what a window of two weeks contains.  Where several instants have one   *)
(* local time (fold) or none (gap), the functions do what zoneinfo does.   *)
(***************************************************************************)
EXTENDS Integers, FiniteSetsExt

CONSTANTS
    Zones,      \* records [before, after, change]: offsets around an instant
    RuleNames,  \* subset of {"daily", "weekly", "weekdays"}
    Walls,      \* wall times (hours of the day) a user asks for
    Starts,     \* instants at which reminders are created
    Delays,     \* how late a due reminder may be triggered
    Horizon,    \* BOUND: last instant at which a reminder triggers
    GapWindow,  \* hours _localize searches beyond a missing local time
    Raises      \* the outcome of a call that raises

ASSUME RecurrenceConstants ==
    /\ \A z \in Zones : z.before \in Nat /\ z.after \in Nat /\ z.change \in Nat
    /\ RuleNames \subseteq {"daily", "weekly", "weekdays"}
    /\ Walls \subseteq 0 .. 23
    /\ Starts \subseteq Nat
    /\ Delays \subseteq Nat
    /\ Horizon \in Nat
    /\ GapWindow \in Nat
    /\ Raises \notin Int

\* Clocks are not put back by a day or more, nor forward by more than one.
ASSUME ClockChanges ==
    \A z \in Zones : z.before - z.after < 24 /\ z.after - z.before <= 24

\* BOUND: the days that are searched suffice for every delay.
ASSUME DelaysFit == \A delay \in Delays : delay <= Horizon

Hours == 24

Day(local) == local \div Hours
Wall(local) == local % Hours
Weekday(day) == day % 7

Local(z, u) == u + (IF u < z.change THEN z.before ELSE z.after)

\* The instants whose local time is n: two of them in a fold, none in a gap.
Readings(z, n) == {u \in {n - z.before, n - z.after} : Local(z, u) = n}

\* astimezone sets fold on the second reading of a repeated local time.
Fold(z, u) == IF \E v \in Readings(z, Local(z, u)) : v < u THEN 1 ELSE 0

\* _localize: the instant of a wall time on a day; a missing one advances to
\* the first local time that exists, read with fold 0.
Localize(z, day, wall, fold) ==
    LET n == day * Hours + wall
        found == {k \in 0 .. GapWindow : Readings(z, n + k) # {}}
    IN  IF found = {} THEN Raises
        ELSE IF Min(found) = 0 /\ fold = 1 THEN Max(Readings(z, n))
        ELSE Min(Readings(z, n + Min(found)))

\* Variant: Saturday is a weekday.
AllowedSaturday(rule, day) ==
    {d \in day .. day + 14 + Horizon \div Hours :
        CASE rule = "daily" -> TRUE
          [] rule = "weekly" -> (d - day) % 7 = 0
          [] rule = "weekdays" -> Weekday(d) <= 5}

\* The days a rule allows from `day` on.
Allowed(rule, day) ==
    {d \in day .. day + 14 + Horizon \div Hours :
        CASE rule = "daily" -> TRUE
          [] rule = "weekly" -> (d - day) % 7 = 0
          [] rule = "weekdays" -> Weekday(d) <= 4}

-----------------------------------------------------------------------------

\* Variant: today's time is taken even when it has passed.
FirstToday(z, rule, weekday, wall, now) ==
    LET today == Day(Local(z, now))
    IN  Localize(z, IF rule = "weekly"
                    THEN today + ((weekday - Weekday(today)) % 7)
                    ELSE Min(Allowed(rule, today)), wall, 0)

\* daily, weekly and weekdays: today or the next allowed day.  Python compares
\* candidate < local_now as local times, since both have the same tzinfo.
FirstOccurrence(z, rule, weekday, wall, now) ==
    LET today == Day(Local(z, now))
        start == IF rule = "weekly"
                 THEN today + ((weekday - Weekday(today)) % 7)
                 ELSE Min(Allowed(rule, today))
        first == Localize(z, start, wall, 0)
        second == Min(Allowed(rule, start) \ {start})
    IN  IF first # Raises /\ Local(z, first) < Local(z, now)
        THEN Localize(z, second, wall, 0)
        ELSE first

\* Variant: an occurrence at the threshold itself counts, even today's.
NextOrSame(z, rule, due, after) ==
    LET today == Day(Local(z, due))
        at(d) == Localize(z, d, Wall(Local(z, due)), Fold(z, due))
        hits == {d \in Allowed(rule, today) :
                    at(d) = Raises \/ at(d) >= after}
    IN  at(Min(hits))

\* Variant: the search starts the day after the threshold.
NextFromThreshold(z, rule, due, after) ==
    LET today == Day(Local(z, due))
        at(d) == Localize(z, d, Wall(Local(z, due)), Fold(z, due))
    IN  at(Min({d \in Allowed(rule, today) : d > Day(Local(z, after))}))

\* next_occurrence: the wall time of the stored due time on later allowed
\* days, until one lies strictly after the threshold.
NextOccurrence(z, rule, due, after) ==
    LET today == Day(Local(z, due))
        at(d) == Localize(z, d, Wall(Local(z, due)), Fold(z, due))
        hits == {d \in Allowed(rule, today) \ {today} :
                    at(d) = Raises \/ at(d) > after}
    IN  at(Min(hits))

-----------------------------------------------------------------------------
(* The life of one recurring reminder: created at some instant, triggered  *)
(* at or after each due time.                                              *)

VARIABLES
    zone, rule,
    intent,     \* the wall time the user asked for
    made,       \* the instant of creation
    due,        \* due_at
    last        \* last_triggered_at, or -1

recurrenceVars == <<zone, rule, intent, made, due, last>>

RecurrenceInit ==
    /\ zone \in Zones
    /\ rule \in RuleNames
    /\ intent \in Walls
    /\ made \in Starts
    /\ \E weekday \in {0, 6} :
          due = FirstOccurrence(zone, rule, weekday, intent, made)
    /\ due # Raises
    /\ last = -1

\* _mark_triggered with after = max(due, triggered); an exception leaves the row.
Trigger ==
    /\ due <= Horizon
    /\ \E delay \in Delays :
          LET t == IF made > due THEN made + delay ELSE due + delay
              next == NextOccurrence(zone, rule, due, t)
          IN  /\ next # Raises
              /\ due' = next
              /\ last' = t
    /\ UNCHANGED <<zone, rule, intent, made>>

RecurrenceNext == Trigger

RecurrenceSpec == RecurrenceInit /\ [][RecurrenceNext]_recurrenceVars

-----------------------------------------------------------------------------
(* Properties.                                                             *)

\* The next due time lies past the instant of the trigger, on a later local day.
MovesOn ==
    /\ due' > due
    /\ due' > last'
    /\ Day(Local(zone, due')) > Day(Local(zone, due))

\* On every allowed local day between the trigger and the new due time, the wall time had its
\* first reading before the trigger.
NothingSkipped ==
    \A u \in last' + 1 .. due' - 1 :
        LET d == Day(Local(zone, u))
        IN  (/\ d \in Allowed(rule, Day(Local(zone, due)))
             /\ d > Day(Local(zone, due))
             /\ Wall(Local(zone, u)) = Wall(Local(zone, due)))
            => Fold(zone, u) = 1

\* Never a week-end for a Monday-to-Friday reminder, always the same day for a weekly one.
RightDay ==
    /\ rule = "weekdays" => Weekday(Day(Local(zone, due'))) <= 4
    /\ rule = "weekly" => Weekday(Day(Local(zone, due'))) = Weekday(Day(Local(zone, due)))

\* A new schedule does not start before its creation, except that inside a repeated hour the
\* comparison of local times can take the earlier reading.
StartsInFuture ==
    last = -1 /\ due < made =>
        /\ Cardinality(Readings(zone, Local(zone, due))) = 2
        /\ Fold(zone, made) = 1

\* Whatever the clock change in between, and also on a day whose hour is repeated or missing,
\* a schedule starts in the future and each trigger moves it to the very next occurrence: no
\* occurrence is replayed, none is skipped, and none falls on a day the rule excludes.
OccurrencesAsIntended ==
    StartsInFuture /\ [][MovesOn /\ NothingSkipped /\ RightDay]_recurrenceVars

\* docs/scheduling.md:98: "Daily, weekly, and weekday rules retain their local
\* wall-clock intent across recurrence calculations."  Wherever the wall time
\* the user asked for exists, the reminder is due at that wall time.
KeepsWallClock ==
    Readings(zone, Day(Local(zone, due)) * Hours + intent) # {}
    => Wall(Local(zone, due)) = intent
=============================================================================
