------------------------- MODULE ReminderScheduler -------------------------
(***************************************************************************)
(* The reminder subsystem at work: Scheduler.run and Scheduler.poll        *)
(* (src/jarvis/tasks/scheduler.py) in several processes over one table,    *)
(* and the users' requests through ReminderService and the reminder        *)
(* actions (src/jarvis/tasks/service.py, actions.py).                      *)
(*                                                                         *)
(* A scheduler is identified with its lease owner.  Each await of poll is  *)
(* a step boundary: the repository call runs in a worker thread, so other  *)
(* schedulers and users act between any two steps.  A restarted process    *)
(* has a new Scheduler with a new owner, i.e. another element of Owners.   *)
(* Cancelling the poll task and killing its process are both Kill: a call  *)
(* the worker thread completes after the cancellation is a Kill just after *)
(* that call instead of during it.                                         *)
(*                                                                         *)
(* "Variant" definitions are wrong on purpose, as in ReminderStore.        *)
(***************************************************************************)
EXTENDS ReminderStore

CONSTANTS
    Clients,      \* users, each at one running program
    Host,         \* Host[c]: the scheduler of c's own process, None if it has none
    Mortal,       \* schedulers that may be stopped or killed
    MaxTrouble,   \* BOUND: stops, kills, database faults and notifier failures
    LastTrouble,  \* BOUND: the last instant at which one happens
    MaxRequests   \* BOUND: requests about existing reminders

ASSUME SchedulerConstants ==
    /\ Host \in [Clients -> Owners \cup {None}]
    /\ Mortal \subseteq Owners
    /\ MaxTrouble \in Nat
    /\ LastTrouble \in Nat
    /\ MaxRequests \in Nat

VARIABLES
    pc,         \* pc[s]: where scheduler s is in run/poll
    stamp,      \* stamp[s]: the clock value s read last: now, then started_at
    batch,      \* batch[s]: claimed reminders s has not come to yet
    job,        \* job[s]: the claimed reminder s is delivering
    wake,       \* wake[s]: _wake_event is set
    stopping,   \* stopping[s]: _stopping
    step,       \* step[c]: where client c is in a request
    view,       \* view[c]: the reminder c was shown when it decided
    trouble,    \* faults so far
    requests,   \* requests so far
    shown,      \* history: notifications shown for the current occurrence
    unseen      \* history: a change of its own process s has not polled for

schedVars == <<pc, stamp, batch, job, wake, stopping>>
clientVars == <<step, view, requests>>
historyVars == <<shown, unseen>>
vars == <<storeVars, schedVars, clientVars, trouble, historyVars>>

Places == {"created", "loop", "claiming", "choosing", "beginning", "notifying",
           "marking", "polled", "waiting", "ended", "dead"}

\* The immutable Reminder a call returns: a snapshot of the row.
Snapshots == [id : Nat, message : Messages, due : Nat]

Snapshot(i) == [id |-> i, message |-> rows[i].message, due |-> rows[i].due]

TypeOK ==
    /\ StoreTypeOK
    /\ lastId <= MaxId
    /\ pc \in [Owners -> Places]
    /\ stamp \in [Owners -> Nat]
    /\ batch \in [Owners -> SUBSET Snapshots]
    /\ job \in [Owners -> Snapshots \cup {None}]
    /\ wake \in [Owners -> BOOLEAN]
    /\ stopping \in [Owners -> BOOLEAN]
    /\ step \in [Clients -> {"idle", "deciding", "cancelling", "deleting"}]
    /\ view \in [Clients -> Snapshots \cup {None}]
    /\ trouble \in Nat
    /\ requests \in Nat
    /\ shown \in [1 .. MaxId -> Nat]
    /\ unseen \in [Owners -> BOOLEAN]

NothingYet ==
    /\ StoreInit
    /\ stamp = [s \in Owners |-> 0]
    /\ batch = [s \in Owners |-> {}]
    /\ job = [s \in Owners |-> None]
    /\ wake = [s \in Owners |-> FALSE]
    /\ stopping = [s \in Owners |-> FALSE]
    /\ step = [c \in Clients |-> "idle"]
    /\ view = [c \in Clients |-> None]
    /\ trouble = 0
    /\ requests = 0
    /\ shown = [i \in 1 .. MaxId |-> 0]
    /\ unseen = [s \in Owners |-> FALSE]

\* Every scheduler's task has been created.
Init == NothingYet /\ pc = [s \in Owners |-> "created"]

Goto(s, from, to) ==
    /\ pc[s] = from
    /\ pc' = [pc EXCEPT ![s] = to]

\* The locals of a finished turn (a claim, one reminder) are dead.
EndTurn(s) ==
    /\ job' = [job EXCEPT ![s] = None]
    /\ stamp' = [stamp EXCEPT ![s] = 0]

Fault ==
    /\ trouble < MaxTrouble
    /\ clock <= LastTrouble
    /\ trouble' = trouble + 1

-----------------------------------------------------------------------------
(* Scheduler.run                                                           *)

\* First step of the task: run() clears _stopping, whatever stop() did before.
Run(s) ==
    /\ Goto(s, "created", "loop")
    /\ stopping' = [stopping EXCEPT ![s] = FALSE]
    /\ UNCHANGED <<storeVars, stamp, batch, job, wake, clientVars, trouble, historyVars>>

\* Variant: every turn of the loop clears _stopping.
BeginPollResetting(s) ==
    /\ Goto(s, "loop", "claiming")
    /\ stopping' = [stopping EXCEPT ![s] = FALSE]
    /\ wake' = [wake EXCEPT ![s] = FALSE]
    /\ stamp' = [stamp EXCEPT ![s] = clock]
    /\ UNCHANGED <<storeVars, batch, job, clientVars, trouble, historyVars>>

\* Clear the event, enter poll and read the clock.
BeginPoll(s) ==
    /\ ~stopping[s]
    /\ Goto(s, "loop", "claiming")
    /\ wake' = [wake EXCEPT ![s] = FALSE]
    /\ stamp' = [stamp EXCEPT ![s] = clock]
    /\ UNCHANGED <<storeVars, batch, job, stopping, clientVars, trouble, historyVars>>

\* The while condition and the check after poll.
LeaveLoop(s) ==
    /\ stopping[s]
    /\ Goto(s, "loop", "ended") \/ Goto(s, "polled", "ended")
    /\ UNCHANGED <<storeVars, stamp, batch, job, wake, stopping, clientVars,
                   trouble, historyVars>>

\* Variant: the event is cleared after the poll instead of before it.
WaitClearing(s) ==
    /\ ~stopping[s]
    /\ Goto(s, "polled", "waiting")
    /\ wake' = [wake EXCEPT ![s] = FALSE]
    /\ UNCHANGED <<storeVars, stamp, batch, job, stopping, clientVars,
                   trouble, historyVars>>

Wait(s) ==
    /\ ~stopping[s]
    /\ Goto(s, "polled", "waiting")
    /\ UNCHANGED <<storeVars, stamp, batch, job, wake, stopping, clientVars,
                   trouble, historyVars>>

\* wait_for returns on the event, or after the poll interval without it.
EndWait(s) ==
    /\ Goto(s, "waiting", "loop")
    /\ UNCHANGED <<storeVars, stamp, batch, job, wake, stopping, clientVars,
                   trouble, historyVars>>

-----------------------------------------------------------------------------
(* Scheduler.poll                                                          *)

Claim(s) ==
    /\ Goto(s, "claiming", "choosing")
    /\ ClaimDue(s, stamp[s], stamp[s] + Lease)
    /\ batch' = [batch EXCEPT ![s] = {Snapshot(i) : i \in Batch(stamp[s])}]
    /\ EndTurn(s)
    /\ unseen' = [unseen EXCEPT ![s] = FALSE]
    /\ UNCHANGED <<wake, stopping, clientVars, trouble, shown>>

\* claim_due raises: the exception leaves poll and run logs it.
ClaimFault(s) ==
    /\ Fault
    /\ Goto(s, "claiming", "polled")
    /\ EndTurn(s)
    /\ unseen' = [unseen EXCEPT ![s] = FALSE]
    /\ UNCHANGED <<storeVars, batch, wake, stopping, clientVars, shown>>

\* The next claimed reminder in (due_at, id) order; started_at is read here,
\* before the worker thread runs begin_delivery.
Choose(s) ==
    /\ Goto(s, "choosing", "beginning")
    /\ \E n \in batch[s] :
          /\ \A m \in batch[s] \ {n} :
                n.due < m.due \/ (n.due = m.due /\ n.id < m.id)
          /\ job' = [job EXCEPT ![s] = n]
          /\ batch' = [batch EXCEPT ![s] = @ \ {n}]
    /\ stamp' = [stamp EXCEPT ![s] = clock]
    /\ UNCHANGED <<storeVars, wake, stopping, clientVars, trouble, historyVars>>

EndPoll(s) ==
    /\ batch[s] = {}
    /\ Goto(s, "choosing", "polled")
    /\ UNCHANGED <<storeVars, stamp, batch, job, wake, stopping, clientVars,
                   trouble, historyVars>>

Begin(s) ==
    /\ Goto(s, "beginning", "notifying")
    /\ BeginDelivery(job[s].id, s, job[s].due, stamp[s])
    /\ UNCHANGED <<stamp, batch, job, wake, stopping, clientVars, trouble, historyVars>>

\* Cancellation, expiry or another owner won: not started, go on.
SkipJob(s) ==
    /\ Goto(s, "beginning", "choosing")
    /\ ~MayBegin(job[s].id, s, job[s].due, stamp[s])
    /\ EndTurn(s)
    /\ UNCHANGED <<storeVars, batch, wake, stopping, clientVars,
                   trouble, historyVars>>

BeginFault(s) ==
    /\ Fault
    /\ Goto(s, "beginning", "choosing")
    /\ EndTurn(s)
    /\ UNCHANGED <<storeVars, batch, wake, stopping, clientVars, historyVars>>

Show(s) ==
    /\ Goto(s, "notifying", "marking")
    /\ shown' = [shown EXCEPT ![job[s].id] = @ + 1]
    /\ UNCHANGED <<storeVars, stamp, batch, job, wake, stopping, clientVars,
                   trouble, unseen>>

\* The notifier raises, before or after it has shown the reminder.  The failure
\* is recorded and the poll goes on; the claim is neither released nor retried.
NotifyFails(s) ==
    /\ Fault
    /\ Goto(s, "notifying", "choosing")
    /\ \/ shown' = [shown EXCEPT ![job[s].id] = @ + 1]
       \/ UNCHANGED shown
    /\ EndTurn(s)
    /\ UNCHANGED <<storeVars, batch, wake, stopping, clientVars, unseen>>

\* The occurrence is over; a recurring reminder is armed for the next one.
Mark(s) ==
    /\ Goto(s, "marking", "choosing")
    /\ MarkTriggered(job[s].id, s, job[s].due, stamp[s])
    /\ shown' = [shown EXCEPT ![job[s].id] =
                    IF rows'[job[s].id].status = "scheduled" THEN 0 ELSE @]
    /\ EndTurn(s)
    /\ UNCHANGED <<batch, wake, stopping, clientVars, trouble, unseen>>

\* mark_claim_triggered raises a conflict; the failure is recorded.
MarkRefused(s) ==
    /\ Goto(s, "marking", "choosing")
    /\ ~MayTrigger(job[s].id, s, job[s].due, stamp[s])
    /\ EndTurn(s)
    /\ UNCHANGED <<storeVars, batch, wake, stopping, clientVars,
                   trouble, historyVars>>

MarkFault(s) ==
    /\ Fault
    /\ Goto(s, "marking", "choosing")
    /\ EndTurn(s)
    /\ UNCHANGED <<storeVars, batch, wake, stopping, clientVars, historyVars>>

-----------------------------------------------------------------------------
(* What happens to a scheduler from outside.                               *)

Stop(s) ==
    /\ s \in Mortal
    /\ pc[s] \notin {"ended", "dead"}
    /\ Fault
    /\ stopping' = [stopping EXCEPT ![s] = TRUE]
    /\ wake' = [wake EXCEPT ![s] = TRUE]
    /\ UNCHANGED <<storeVars, pc, stamp, batch, job, clientVars, historyVars>>

Kill(s) ==
    /\ s \in Mortal
    /\ pc[s] \notin {"ended", "dead"}
    /\ Fault
    /\ pc' = [pc EXCEPT ![s] = "dead"]
    /\ batch' = [batch EXCEPT ![s] = {}]
    /\ EndTurn(s)
    /\ UNCHANGED <<storeVars, wake, stopping, clientVars, historyVars>>

-----------------------------------------------------------------------------
(* Users' requests.                                                        *)

\* ReminderService._changed: on_change is the wake of the own scheduler.
Changed(c) ==
    IF Host[c] = None
    THEN UNCHANGED <<wake, unseen>>
    ELSE /\ wake' = [wake EXCEPT ![Host[c]] = TRUE]
         /\ unseen' = [unseen EXCEPT ![Host[c]] = TRUE]

\* remind_at and the other creating calls; an identical request gets the
\* existing reminder, which also counts as a change.
CreateReminder(c) ==
    /\ step[c] = "idle"
    /\ \E m \in Messages, d \in DueTimes, r \in Rules, a \in Actions,
          k \in Keys \cup {None} :
          \/ Create(NewRow(m, d, r, a, k))
          \/ AnswersExisting(NewRow(m, d, r, a, k)) /\ UNCHANGED storeVars
    /\ Changed(c)
    /\ UNCHANGED <<pc, stamp, batch, job, stopping, clientVars, trouble, shown>>

\* The user reads a reminder and asks for a change of what was displayed.
Review(c) ==
    /\ step[c] = "idle"
    /\ requests < MaxRequests
    /\ requests' = requests + 1
    /\ \E i \in Ids : view' = [view EXCEPT ![c] = Snapshot(i)]
    /\ step' = [step EXCEPT ![c] = "deciding"]
    /\ UNCHANGED <<storeVars, schedVars, trouble, historyVars>>

Done(c) ==
    /\ step' = [step EXCEPT ![c] = "idle"]
    /\ view' = [view EXCEPT ![c] = None]
    /\ UNCHANGED requests

\* edit_reminder: one transaction that compares the displayed values.
Edit(c) ==
    /\ step[c] = "deciding"
    /\ \E m \in Messages, d \in DueTimes :
          EditScheduled(view[c].id, m, d, view[c].message, view[c].due)
    /\ Changed(c)
    /\ Done(c)
    /\ UNCHANGED <<pc, stamp, batch, job, stopping, trouble, shown>>

\* cancel_reminder and delete_reminder read the live record first (get) ...
Check(c) ==
    /\ step[c] = "deciding"
    /\ view[c].id \in Ids
    /\ rows[view[c].id].message = view[c].message
    /\ \E next \in {"cancelling", "deleting"} : step' = [step EXCEPT ![c] = next]
    /\ UNCHANGED <<storeVars, schedVars, view, requests, trouble, historyVars>>

\* ... and change it in a second transaction.
CommitCancel(c) ==
    /\ step[c] = "cancelling"
    /\ Cancel(view[c].id)
    /\ Changed(c)
    /\ Done(c)
    /\ UNCHANGED <<pc, stamp, batch, job, stopping, trouble, shown>>

CommitDelete(c) ==
    /\ step[c] = "deleting"
    /\ Delete(view[c].id)
    /\ Changed(c)
    /\ Done(c)
    /\ UNCHANGED <<pc, stamp, batch, job, stopping, trouble, shown>>

\* cancel() returns an already cancelled row, which also counts as a change.
CancelAgain(c) ==
    /\ step[c] = "cancelling"
    /\ view[c].id \in Ids
    /\ rows[view[c].id].status = "cancelled"
    /\ Changed(c)
    /\ Done(c)
    /\ UNCHANGED <<storeVars, pc, stamp, batch, job, stopping, trouble, shown>>

\* A conflict, a missing row, a changed text, a database fault, or the user
\* does not confirm: nothing changes.
Refused(c) ==
    /\ step[c] # "idle"
    /\ Done(c)
    /\ UNCHANGED <<storeVars, schedVars, trouble, historyVars>>

-----------------------------------------------------------------------------

Advance ==
    /\ Tick
    /\ UNCHANGED <<schedVars, clientVars, trouble, historyVars>>

PollStep(s) ==
    \/ Claim(s) \/ ClaimFault(s)
    \/ Choose(s) \/ EndPoll(s)
    \/ Begin(s) \/ SkipJob(s) \/ BeginFault(s)
    \/ Show(s) \/ NotifyFails(s)
    \/ Mark(s) \/ MarkRefused(s) \/ MarkFault(s)

RunStep(s) ==
    Run(s) \/ BeginPoll(s) \/ LeaveLoop(s) \/ Wait(s) \/ EndWait(s)

ClientStep(c) ==
    \/ CreateReminder(c)
    \/ Review(c)
    \/ Edit(c)
    \/ Check(c)
    \/ CommitCancel(c)
    \/ CommitDelete(c)
    \/ CancelAgain(c)
    \/ Refused(c)

Next ==
    \/ Advance
    \/ \E s \in Owners : RunStep(s) \/ PollStep(s) \/ Stop(s) \/ Kill(s)
    \/ \E c \in Clients : ClientStep(c)

Spec == Init /\ [][Next]_vars

\* The event loop and the worker threads run what is ready; the poll interval
\* elapses; the clock advances.  Nothing makes a user act.
FairSpec ==
    /\ Spec
    /\ WF_vars(Advance)
    /\ \A s \in Owners : WF_vars(RunStep(s)) /\ WF_vars(PollStep(s))

-----------------------------------------------------------------------------
(* Properties.                                                             *)

\* Where a reminder stands, in the terms of ReminderDelivery.
Stage(i) ==
    IF i > lastId THEN "absent"
    ELSE IF i \notin Ids THEN "gone"
    ELSE IF rows[i].status = "cancelled" THEN "cancelled"
    ELSE IF rows[i].status = "triggered" THEN "done"
    ELSE IF rows[i].started = None THEN "armed"
    ELSE "delivering"

Delivery == INSTANCE ReminderDelivery WITH
    Reminders <- 1 .. MaxId,
    stage <- [i \in 1 .. MaxId |-> Stage(i)],
    shown <- shown

\* The whole subsystem, with its leases, stale clock readings, crashes and
\* concurrent users, delivers as ReminderDelivery promises: an occurrence is
\* shown at most once by all schedulers together, never after a cancel, delete
\* or edit that reported success, and nothing is completed without being shown.
DeliversAsPromised == Delivery!Spec

\* A scheduler about to show a reminder, or having shown it, holds it alone:
\* the row is marked started under its own lease and is still exactly the
\* snapshot it claimed, however long ago that was and whatever the users and
\* the other schedulers did since.  Hence nobody sees an outdated text.
NoticeIsCurrent ==
    \A s \in Owners :
        pc[s] \in {"notifying", "marking"} =>
            /\ Scheduled(job[s].id)
            /\ rows[job[s].id].owner = s
            /\ rows[job[s].id].started = stamp[s]
            /\ Snapshot(job[s].id) = job[s]
            /\ job[s].due <= stamp[s]

\* No occurrence is shown twice, and only a started one has been shown.
ShownAtMostOnce ==
    \A i \in 1 .. MaxId :
        /\ shown[i] <= 1
        /\ shown[i] = 1 /\ Scheduled(i) => Started(i)

\* The event is cleared before the poll, not after it: when a scheduler goes to
\* sleep after a change made in its own process that no poll has looked at,
\* the event is set and the sleep ends at once.
WakeNotLost ==
    \A s \in Owners : pc[s] = "waiting" /\ unseen[s] => wake[s]

\* A reminder that is due is eventually taken to delivery, completed, moved or
\* withdrawn, as long as one scheduler keeps running, even when others are
\* killed while they hold its lease.
DueIsDelivered ==
    \A i \in 1 .. MaxId :
        Stage(i) = "armed" /\ rows[i].due <= clock
        ~> ~(Stage(i) = "armed" /\ rows[i].due <= clock)

\* A running scheduler loop that is asked to stop ends, from wherever it is.
\* Only the schedulers of Mortal are asked.
StopEndsLoop ==
    \A s \in Mortal :
        stopping[s] /\ pc[s] # "created" ~> pc[s] \in {"ended", "dead"}

\* docs/scheduling.md:116: "Notification failure releases its claim so a later
\* poll can retry."  So a delivery that began and showed nothing is shown by a
\* later poll, or given back, as long as no scheduler is killed.
FailedNoticeIsRetried ==
    \A i \in 1 .. MaxId :
        Stage(i) = "delivering" /\ shown[i] = 0
        ~> Stage(i) # "delivering" \/ shown[i] = 1

\* docs/scheduling.md:66-68: "Cancel/delete require both the numeric ID and
\* exact current reminder text.  The service reads the live record immediately
\* before mutation and fails closed if the text changed."
ConfirmedTextOnly ==
    [][\A c \in Clients, i \in Ids :
          /\ step[c] \in {"cancelling", "deleting"} /\ step'[c] = "idle"
          /\ view[c].id = i
          /\ i \notin Ids' \/ rows'[i].status # rows[i].status
          => rows[i].message = view[c].message]_vars
=============================================================================
