--------------------------- MODULE ReminderProofs ---------------------------
(***************************************************************************)
(* The scheduler loops and the users' requests, for every number of        *)
(* schedulers, users, reminders and instants: types, NoticeIsCurrent,      *)
(* ShownAtMostOnce, the wake-ups, and the refinement of ReminderDelivery.  *)
(*                                                                         *)
(* NoticeIsCurrent and ShownAtMostOnce are not inductive alone.  The       *)
(* invariant IInv adds that every instant a scheduler holds lies in the    *)
(* past (so what it claimed is due when it begins), that an occurrence is  *)
(* unshown while its scheduler is notifying and shown while it is marking, *)
(* and that nothing was shown for an id not given out yet.                 *)
(***************************************************************************)
EXTENDS ReminderScheduler, ReminderStoreProofs

SchedTypes ==
    /\ lastId <= MaxId
    /\ pc \in [Owners -> Places]
    /\ stamp \in [Owners -> Nat]
    /\ batch \in [Owners -> SUBSET Snapshots]
    /\ job \in [Owners -> Snapshots \cup {None}]
    /\ wake \in [Owners -> BOOLEAN]
    /\ stopping \in [Owners -> BOOLEAN]
    /\ step \in [Clients -> {"idle", "deciding", "cancelling", "deleting"}]
    /\ view \in [Clients -> Snapshots \cup {None}]
    /\ trouble \in Nat
    /\ requests \in Nat
    /\ shown \in [1 .. MaxId -> Nat]
    /\ unseen \in [Owners -> BOOLEAN]

\* The instants a scheduler works with lie in the past.
PastOnly ==
    \A s \in Owners :
        /\ stamp[s] <= clock
        /\ \A n \in batch[s] : n.due <= clock
        /\ pc[s] = "beginning" => job[s] \in Snapshots /\ job[s].due <= stamp[s]

\* While a scheduler holds the claim on a row, what it remembers of it is true:
\* begin_delivery compares the due time only, the text cannot have changed.
HeldCurrent ==
    \A s \in Owners : \A n \in Snapshots :
        /\ n \in batch[s] \/ (pc[s] = "beginning" /\ n = job[s])
        /\ n.id \in Ids
        /\ rows[n.id].owner = s
        => Snapshot(n.id) = n

\* shown tells where a delivery stands.
ShownInStep ==
    /\ \A s \in Owners :
          /\ pc[s] = "notifying" => shown[job[s].id] = 0
          /\ pc[s] = "marking" => shown[job[s].id] = 1
    /\ \A i \in 1 .. MaxId : i > lastId => shown[i] = 0

IInv ==
    /\ StoreInv
    /\ SchedTypes
    /\ PastOnly
    /\ HeldCurrent
    /\ NoticeIsCurrent
    /\ ShownAtMostOnce
    /\ ShownInStep

LEMMA InitIInv == Init => IInv
<1> SUFFICES ASSUME Init PROVE IInv
    OBVIOUS
<1>1. StoreInv
    BY StoreInitInv DEF Init, NothingYet
<1>2. SchedTypes
    BY StoreConstants, SchedulerConstants DEF Init, NothingYet, StoreInit, SchedTypes, Places
<1>3. PastOnly /\ HeldCurrent /\ NoticeIsCurrent /\ ShownAtMostOnce /\ ShownInStep
    BY DEF Init, NothingYet, StoreInit, PastOnly, HeldCurrent, NoticeIsCurrent, ShownAtMostOnce,
           ShownInStep
<1> QED
    BY <1>1, <1>2, <1>3 DEF IInv

LEMMA SnapshotType ==
    ASSUME StoreInv, NEW i \in Ids
    PROVE  Snapshot(i) \in Snapshots /\ i \in Nat \ {0} /\ i <= lastId
BY DEF StoreInv, StoreTypeOK, Row, Snapshot, Snapshots

-----------------------------------------------------------------------------
(* Steps by what they do to the table.                                     *)

\* A scheduler that delivers after the step delivered before it, unchanged.
StillBusy ==
    \A s \in Owners :
        pc'[s] \in {"notifying", "marking"} =>
            pc'[s] = pc[s] /\ job'[s] = job[s] /\ stamp'[s] = stamp[s]

\* What a scheduler remembers after the step it remembered before it.
StillHeld ==
    \A s \in Owners :
        /\ batch'[s] \subseteq batch[s]
        /\ pc'[s] = "beginning" =>
              job'[s] \in batch[s] \/ (pc[s] = "beginning" /\ job'[s] = job[s])

\* A row that is claimed after the step was so before it, with the same text
\* and due time.
OwnedKept ==
    \A i \in Ids' :
        rows'[i].owner # None =>
            /\ i \in Ids /\ rows[i].owner = rows'[i].owner
            /\ rows[i].message = rows'[i].message /\ rows[i].due = rows'[i].due

LEMMA HeldStep ==
    ASSUME HeldCurrent, StillHeld, OwnedKept
    PROVE  HeldCurrent'
<1> SUFFICES ASSUME NEW s \in Owners, NEW n \in Snapshots,
                    n \in batch'[s] \/ (pc'[s] = "beginning" /\ n = job'[s]),
                    n.id \in Ids', rows'[n.id].owner = s
             PROVE  Snapshot(n.id)' = n
    BY DEF HeldCurrent
<1>1. n \in batch[s] \/ (pc[s] = "beginning" /\ n = job[s])
    BY DEF StillHeld
<1>2. /\ n.id \in Ids /\ rows[n.id].owner = s
      /\ rows[n.id].message = rows'[n.id].message /\ rows[n.id].due = rows'[n.id].due
    BY StoreConstants DEF OwnedKept
<1> QED
    BY <1>1, <1>2 DEF HeldCurrent, Snapshot

\* Neither a delivery nor a started row is touched.
Gentle ==
    /\ StillBusy
    /\ StartedKept
    /\ ReviveNone
    /\ lastId' \in Nat /\ lastId <= lastId'
    /\ UNCHANGED shown

\* What a deliverer knows about its row survives a gentle step.
LEMMA GentleNotice ==
    ASSUME IInv, Gentle
    PROVE  NoticeIsCurrent' /\ ShownAtMostOnce' /\ ShownInStep'
<1>1. \A s \in Owners : pc[s] \in {"notifying", "marking"} =>
          LET i == job[s].id IN i \in Ids' /\ rows'[i] = rows[i]
    <2> SUFFICES ASSUME NEW s \in Owners, pc[s] \in {"notifying", "marking"}
                 PROVE  job[s].id \in Ids' /\ rows'[job[s].id] = rows[job[s].id]
        OBVIOUS
    <2>1. job[s].id \in Ids /\ rows[job[s].id].started = stamp[s] /\ stamp[s] \in Nat
        BY DEF IInv, NoticeIsCurrent, Scheduled, SchedTypes
    <2> QED
        BY <2>1, StoreConstants DEF Gentle, StartedKept
<1>2. NoticeIsCurrent'
    BY <1>1 DEF IInv, NoticeIsCurrent, Gentle, StillBusy, Scheduled, Snapshot
<1>3. ShownInStep'
    <2>1. lastId \in Nat
        BY DEF IInv, StoreInv, StoreTypeOK
    <2> QED
        BY <2>1 DEF IInv, ShownInStep, Gentle, StillBusy
<1>4. ShownAtMostOnce'
    <2> SUFFICES ASSUME NEW i \in 1 .. MaxId, shown[i] = 1, Scheduled(i)'
                 PROVE  Started(i)'
        BY DEF IInv, ShownAtMostOnce, Gentle
    <2>1. Scheduled(i)
        BY DEF IInv, ShownInStep, Gentle, ReviveNone, Scheduled
    <2>2. Started(i)
        BY <2>1 DEF IInv, ShownAtMostOnce
    <2> QED
        BY <2>2 DEF Gentle, StartedKept, Started
<1> QED
    BY <1>2, <1>3, <1>4

LEMMA GentleStep ==
    ASSUME IInv, Gentle, StoreInv', SchedTypes', PastOnly', HeldCurrent'
    PROVE  IInv'
BY GentleNotice DEF IInv

\* A step that leaves the table and the history of notifications alone.
LEMMA CalmStep ==
    ASSUME IInv, UNCHANGED <<storeVars, shown>>, StillBusy, StillHeld,
           SchedTypes', PastOnly'
    PROVE  IInv'
<1>1. StoreInv'
    BY DEF IInv, storeVars, StoreInv, StoreTypeOK, ClaimConsistent, Ids
<1>2. Gentle
    BY DEF IInv, Gentle, storeVars, StartedKept, ReviveNone, Scheduled, Ids,
           StoreInv, StoreTypeOK
<1>3. OwnedKept
    BY DEF storeVars, OwnedKept, Ids
<1> QED
    BY <1>1, <1>2, <1>3, HeldStep, GentleStep DEF IInv

-----------------------------------------------------------------------------
(* The loop.                                                               *)

LEMMA RunStepInv ==
    ASSUME IInv, NEW s \in Owners, RunStep(s)
    PROVE  IInv'
<1>0. SchedTypes /\ PastOnly /\ clock \in Nat
    BY DEF IInv, StoreInv, StoreTypeOK
<1>1. UNCHANGED <<storeVars, shown, batch, job, clientVars, trouble, unseen>>
    BY DEF RunStep, Run, BeginPoll, LeaveLoop, Wait, EndWait, historyVars
<1>2. SchedTypes'
    <2>1. pc' \in [Owners -> Places]
        BY <1>0 DEF RunStep, Run, BeginPoll, LeaveLoop, Wait, EndWait, Goto,
                    SchedTypes, Places
    <2>2. stamp' \in [Owners -> Nat]
        BY <1>0 DEF RunStep, Run, BeginPoll, LeaveLoop, Wait, EndWait, SchedTypes
    <2>3. wake' \in [Owners -> BOOLEAN] /\ stopping' \in [Owners -> BOOLEAN]
        BY <1>0 DEF RunStep, Run, BeginPoll, LeaveLoop, Wait, EndWait, SchedTypes
    <2> QED
        BY <1>0, <1>1, <2>1, <2>2, <2>3 DEF SchedTypes, storeVars, clientVars
<1>3. StillBusy /\ StillHeld
    BY <1>0, <1>1 DEF RunStep, Run, BeginPoll, LeaveLoop, Wait, EndWait, Goto,
        SchedTypes, StillBusy, StillHeld
<1>4. PastOnly'
    BY <1>0, <1>1 DEF RunStep, Run, BeginPoll, LeaveLoop, Wait, EndWait, Goto,
        SchedTypes, PastOnly, storeVars
<1> QED
    BY <1>1, <1>2, <1>3, <1>4, CalmStep

\* The steps of poll that end a turn without a change of the table.
TurnEnds(s) ==
    ClaimFault(s) \/ SkipJob(s) \/ BeginFault(s) \/ MarkRefused(s) \/ MarkFault(s)

LEMMA TurnEndsInv ==
    ASSUME IInv, NEW s \in Owners, TurnEnds(s)
    PROVE  IInv'
<1>0. SchedTypes /\ PastOnly /\ clock \in Nat
    BY DEF IInv, StoreInv, StoreTypeOK
<1>1. /\ UNCHANGED <<storeVars, shown, batch, wake, stopping, clientVars>>
      /\ EndTurn(s)
    BY DEF TurnEnds, ClaimFault, SkipJob, BeginFault, MarkRefused, MarkFault, historyVars
<1>2. pc' = [pc EXCEPT ![s] = "polled"] \/ pc' = [pc EXCEPT ![s] = "choosing"]
    BY DEF TurnEnds, ClaimFault, SkipJob, BeginFault, MarkRefused, MarkFault, Goto
<1>20. trouble' \in Nat
    BY <1>0 DEF TurnEnds, ClaimFault, SkipJob, BeginFault, MarkRefused, MarkFault,
        Fault, SchedTypes
<1>21. unseen' \in [Owners -> BOOLEAN]
    BY <1>0 DEF TurnEnds, ClaimFault, SkipJob, BeginFault, MarkRefused, MarkFault,
        historyVars, SchedTypes
<1>3. SchedTypes'
    BY <1>0, <1>1, <1>2, <1>20, <1>21 DEF SchedTypes, Places, EndTurn, storeVars, clientVars
<1>4. StillBusy /\ StillHeld
    BY <1>0, <1>1, <1>2 DEF SchedTypes, EndTurn, StillBusy, StillHeld
<1>5. PastOnly'
    BY <1>0, <1>1, <1>2 DEF SchedTypes, EndTurn, PastOnly, storeVars
<1> QED
    BY <1>1, <1>3, <1>4, <1>5, CalmStep

LEMMA ChooseInv ==
    ASSUME IInv, NEW s \in Owners, Choose(s)
    PROVE  IInv'
<1>0. SchedTypes /\ PastOnly /\ clock \in Nat
    BY DEF IInv, StoreInv, StoreTypeOK
<1>1. UNCHANGED <<storeVars, shown, wake, stopping, clientVars, trouble, unseen>>
    BY DEF Choose, historyVars
<1>2. PICK n \in batch[s] : /\ job' = [job EXCEPT ![s] = n]
                            /\ batch' = [batch EXCEPT ![s] = @ \ {n}]
    BY DEF Choose
<1>3. /\ pc' = [pc EXCEPT ![s] = "beginning"]
      /\ stamp' = [stamp EXCEPT ![s] = clock]
    BY DEF Choose, Goto
<1>4. n \in Snapshots /\ n.due <= clock
    BY <1>0 DEF SchedTypes, PastOnly
<1>5. SchedTypes'
    BY <1>0, <1>1, <1>2, <1>3, <1>4 DEF SchedTypes, Places, storeVars, clientVars
<1>6. StillBusy /\ StillHeld
    BY <1>0, <1>2, <1>3 DEF SchedTypes, StillBusy, StillHeld
<1>7. PastOnly'
    BY <1>0, <1>1, <1>2, <1>3, <1>4 DEF SchedTypes, PastOnly, storeVars
<1> QED
    BY <1>1, <1>5, <1>6, <1>7, CalmStep

LEMMA EndPollInv ==
    ASSUME IInv, NEW s \in Owners, EndPoll(s)
    PROVE  IInv'
<1>0. SchedTypes /\ PastOnly
    BY DEF IInv
<1>1. /\ UNCHANGED <<storeVars, shown, stamp, batch, job, wake, stopping, clientVars,
                     trouble, unseen>>
      /\ pc' = [pc EXCEPT ![s] = "polled"]
    BY DEF EndPoll, Goto, historyVars
<1>2. SchedTypes' /\ StillBusy /\ StillHeld /\ PastOnly'
    BY <1>0, <1>1 DEF SchedTypes, Places, StillBusy, StillHeld, PastOnly, storeVars,
        clientVars
<1> QED
    BY <1>1, <1>2, CalmStep

LEMMA OutsideInv ==
    ASSUME IInv, NEW s \in Owners, Stop(s) \/ Kill(s)
    PROVE  IInv'
<1>0. SchedTypes /\ PastOnly /\ clock \in Nat
    BY DEF IInv, StoreInv, StoreTypeOK
<1>1. UNCHANGED <<storeVars, shown, unseen, clientVars>> /\ trouble' \in Nat
    BY <1>0 DEF Stop, Kill, Fault, SchedTypes, historyVars
<1>2. CASE Stop(s)
    <2>1. SchedTypes' /\ StillBusy /\ StillHeld /\ PastOnly'
        BY <1>0, <1>1, <1>2
        DEF Stop, SchedTypes, StillBusy, StillHeld, PastOnly, storeVars, clientVars
    <2> QED
        BY <1>1, <2>1, CalmStep
<1>3. CASE Kill(s)
    <2>1. /\ pc' = [pc EXCEPT ![s] = "dead"] /\ batch' = [batch EXCEPT ![s] = {}]
          /\ EndTurn(s) /\ UNCHANGED <<wake, stopping>>
        BY <1>3 DEF Kill
    <2>2. SchedTypes'
        BY <1>0, <1>1, <2>1 DEF SchedTypes, Places, EndTurn, storeVars, clientVars
    <2>3. StillBusy /\ StillHeld /\ PastOnly'
        BY <1>0, <1>1, <2>1
        DEF SchedTypes, StillBusy, StillHeld, PastOnly, EndTurn, storeVars
    <2> QED
        BY <1>1, <2>2, <2>3, CalmStep
<1> QED
    BY <1>2, <1>3

-----------------------------------------------------------------------------
(* Claiming, the clock and the users.                                      *)

\* A step of the table as a whole is gentle when it keeps the started rows.
LEMMA TableStep ==
    ASSUME IInv, StoreNext, StartedKept, StillBusy, UNCHANGED shown,
           SchedTypes', PastOnly', HeldCurrent'
    PROVE  IInv'
<1>1. StoreInv' /\ ReviveNone
    BY StoreNextInv, NextRevivesNone DEF IInv
<1>2. lastId \in Nat /\ lastId' \in Nat
    BY <1>1 DEF IInv, StoreInv, StoreTypeOK
<1>3. lastId <= lastId'
    <2>1. CASE CreateAny
        BY <1>2, <2>1 DEF CreateAny, Create
    <2>2. CASE ~CreateAny
        <3>1. UNCHANGED lastId
            BY <2>2 DEF StoreNext, Tick, ClaimAny, ClaimDue, BeginAny, BeginDelivery,
                ReleaseAny, ReleaseClaim, MarkAny, MarkTriggered, EditAny,
                EditScheduled, CancelAny, Cancel, DeleteAny, Delete
        <3> QED
            BY <1>2, <3>1
    <2> QED
        BY <2>1, <2>2
<1> QED
    BY <1>1, <1>2, <1>3, GentleStep DEF Gentle

LEMMA ClaimStepInv ==
    ASSUME IInv, NEW s \in Owners, Claim(s)
    PROVE  IInv' /\ StoreNext
<1>0. SchedTypes /\ PastOnly /\ clock \in Nat /\ lastId \in Nat
    BY DEF IInv, StoreInv, StoreTypeOK
<1>1. ClaimDue(s, stamp[s], stamp[s] + Lease) /\ stamp[s] \in 0 .. clock
    BY <1>0 DEF Claim, SchedTypes, PastOnly
<1>2. StoreNext /\ StartedKept
    BY <1>1, ClaimKeeps DEF ClaimAny, StoreNext
<1>3. /\ UNCHANGED <<lastId, clock, shown, wake, stopping, clientVars, trouble>>
      /\ pc' = [pc EXCEPT ![s] = "choosing"]
      /\ batch' = [batch EXCEPT ![s] = {Snapshot(i) : i \in Batch(stamp[s])}]
      /\ unseen' = [unseen EXCEPT ![s] = FALSE]
      /\ EndTurn(s)
    BY DEF Claim, ClaimDue, Goto
<1>4. \A i \in Batch(stamp[s]) :
          Snapshot(i) \in Snapshots /\ Snapshot(i).due <= clock
    <2> SUFFICES ASSUME NEW i \in Batch(stamp[s])
                 PROVE  Snapshot(i) \in Snapshots /\ Snapshot(i).due <= clock
        OBVIOUS
    <2>1. i \in Ids /\ rows[i].due <= stamp[s]
        BY DEF Batch, Claimable
    <2>2. Snapshot(i) \in Snapshots /\ Snapshot(i).due = rows[i].due
        BY <2>1, SnapshotType DEF IInv, Snapshot
    <2> QED
        BY <1>0, <1>1, <2>1, <2>2 DEF Snapshots
<1>5. batch' \in [Owners -> SUBSET Snapshots]
    BY <1>0, <1>3, <1>4 DEF SchedTypes
<1>6. SchedTypes'
    BY <1>0, <1>3, <1>5 DEF SchedTypes, Places, EndTurn, clientVars
<1>7. StillBusy
    BY <1>0, <1>3 DEF SchedTypes, StillBusy, EndTurn
<1>8. PastOnly'
    BY <1>0, <1>3, <1>4 DEF SchedTypes, PastOnly, EndTurn
<1>9. HeldCurrent'
    <2> SUFFICES ASSUME NEW q \in Owners, NEW n \in Snapshots,
                        n \in batch'[q] \/ (pc'[q] = "beginning" /\ n = job'[q]),
                        n.id \in Ids', rows'[n.id].owner = q
                 PROVE  Snapshot(n.id)' = n
        BY DEF HeldCurrent
    <2>1. /\ n.id \in Ids
          /\ rows'[n.id].message = rows[n.id].message
          /\ rows'[n.id].due = rows[n.id].due
        BY <1>1 DEF ClaimDue, IInv, StoreInv, StoreTypeOK, Row, Ids
    <2>2. CASE q = s
        <3>1. PICK i \in Batch(stamp[s]) : n = Snapshot(i)
            BY <1>0, <1>3, <2>2 DEF SchedTypes
        <3> QED
            BY <2>1, <3>1 DEF Snapshot
    <2>3. CASE q # s
        <3>1. n \in batch[q] \/ (pc[q] = "beginning" /\ n = job[q])
            BY <1>0, <1>3, <2>3 DEF SchedTypes, EndTurn
        <3>2. n.id \notin Batch(stamp[s])
            BY <1>1, <2>1, <2>3 DEF ClaimDue, IInv, StoreInv, StoreTypeOK, Row
        <3>3. rows[n.id].owner = q
            BY <1>1, <2>1, <3>2, ClaimKeeps
        <3> QED
            BY <2>1, <3>1, <3>3 DEF IInv, HeldCurrent, Snapshot
    <2> QED
        BY <2>2, <2>3
<1> QED
    BY <1>2, <1>3, <1>6, <1>7, <1>8, <1>9, TableStep

LEMMA AdvanceInv ==
    ASSUME IInv, Advance
    PROVE  IInv' /\ StoreNext
<1>0. SchedTypes /\ PastOnly /\ clock \in Nat
    BY DEF IInv, StoreInv, StoreTypeOK
<1>1. /\ UNCHANGED <<schedVars, clientVars, trouble, historyVars, lastId>>
      /\ clock' = clock + 1
      /\ StoreNext /\ StartedKept
    BY TickKeeps DEF Advance, Tick, StoreNext
<1>2. SchedTypes' /\ StillBusy /\ UNCHANGED shown
    BY <1>0, <1>1 DEF SchedTypes, StillBusy, schedVars, clientVars, historyVars
<1>3. PastOnly'
    BY <1>0, <1>1 DEF SchedTypes, PastOnly, schedVars, Snapshots
<1>4. HeldCurrent'
    BY <1>1, HeldStep DEF Advance, Tick, IInv, schedVars, StillHeld, OwnedKept, Ids
<1> QED
    BY <1>1, <1>2, <1>3, <1>4, TableStep

LEMMA ClientCalmInv ==
    ASSUME IInv, NEW c \in Clients, Review(c) \/ Check(c) \/ CancelAgain(c) \/ Refused(c)
    PROVE  IInv' /\ UNCHANGED storeVars
<1>0. SchedTypes /\ PastOnly
    BY DEF IInv
<1>1. UNCHANGED <<storeVars, shown, pc, stamp, batch, job, stopping, trouble>>
    BY DEF Review, Check, CancelAgain, Refused, schedVars, historyVars
<1>2. wake' \in [Owners -> BOOLEAN] /\ unseen' \in [Owners -> BOOLEAN]
    BY <1>0, SchedulerConstants DEF Review, Check, CancelAgain, Refused, Changed,
        SchedTypes, schedVars, historyVars
<1>3. view' \in [Clients -> Snapshots \cup {None}]
    BY <1>0, SnapshotType DEF Review, Check, CancelAgain, Refused, Done, SchedTypes, IInv
<1>4. step' \in [Clients -> {"idle", "deciding", "cancelling", "deleting"}]
    BY <1>0 DEF Review, Check, CancelAgain, Refused, Done, SchedTypes
<1>5. requests' \in Nat
    BY <1>0 DEF Review, Check, CancelAgain, Refused, Done, SchedTypes
<1>6. SchedTypes' /\ StillBusy /\ StillHeld /\ PastOnly'
    BY <1>0, <1>1, <1>2, <1>3, <1>4, <1>5
    DEF SchedTypes, StillBusy, StillHeld, PastOnly, storeVars
<1> QED
    BY <1>1, <1>6, CalmStep

LEMMA CreateReminderInv ==
    ASSUME IInv, NEW c \in Clients, CreateReminder(c)
    PROVE  IInv' /\ [StoreNext]_storeVars
<1>0. SchedTypes /\ PastOnly
    BY DEF IInv
<1>1. UNCHANGED <<shown, pc, stamp, batch, job, stopping, clientVars, trouble>>
    BY DEF CreateReminder
<1>2. wake' \in [Owners -> BOOLEAN] /\ unseen' \in [Owners -> BOOLEAN]
    BY <1>0, SchedulerConstants DEF CreateReminder, Changed, SchedTypes
<1>3. StillBusy /\ StillHeld
    BY <1>1 DEF StillBusy, StillHeld
<1>4. CASE UNCHANGED storeVars
    <2>1. SchedTypes' /\ PastOnly'
        BY <1>0, <1>1, <1>2, <1>4 DEF SchedTypes, PastOnly, storeVars, clientVars
    <2> QED
        BY <1>1, <1>3, <1>4, <2>1, CalmStep
<1>5. CASE \E m \in Messages, d \in DueTimes, r \in Rules, a \in Actions,
             k \in Keys \cup {None} : Create(NewRow(m, d, r, a, k))
    <2>1. StoreNext
        BY <1>5 DEF StoreNext, CreateAny
    <2>2. lastId' <= MaxId /\ clock' = clock
        BY <1>0, <1>5, StoreConstants DEF Create, IInv, StoreInv, StoreTypeOK
    <2>3. StartedKept
        BY <1>5, CreateKeeps DEF IInv, StartedKept
    <2>4. SchedTypes' /\ PastOnly'
        BY <1>0, <1>1, <1>2, <2>2 DEF SchedTypes, PastOnly, clientVars
    <2>5. OwnedKept
        BY <1>5, CreateKeeps DEF OwnedKept, NewRow, IInv
    <2>6. HeldCurrent'
        BY <1>3, <2>5, HeldStep DEF IInv
    <2> QED
        BY <1>1, <1>3, <2>1, <2>3, <2>4, <2>6, TableStep
<1> QED
    BY <1>4, <1>5 DEF CreateReminder

\* cancel, edit_scheduled and delete take the claim from the row they change.
LEMMA UserKeepsOwned ==
    ASSUME StoreInv, NEW i,
           \/ \E m, d, expectedMessage, expectedDue :
                 EditScheduled(i, m, d, expectedMessage, expectedDue)
           \/ Cancel(i)
           \/ Delete(i)
    PROVE  OwnedKept
<1>1. CASE \E m, d, expectedMessage, expectedDue :
              EditScheduled(i, m, d, expectedMessage, expectedDue)
    <2> PICK m, d, expectedMessage, expectedDue :
            EditScheduled(i, m, d, expectedMessage, expectedDue)
        BY <1>1
    <2>1. i \in Ids /\ rows[i] \in Row
        BY DEF EditScheduled, Scheduled, StoreInv, StoreTypeOK
    <2>2. Edited(rows[i], m, d).owner = None
        BY <2>1 DEF Edited, Unclaimed, Row
    <2> QED
        BY <2>2, EditKeeps DEF OwnedKept
<1>2. CASE Cancel(i)
    <2>1. i \in Ids /\ rows[i] \in Row
        BY <1>2 DEF Cancel, Scheduled, StoreInv, StoreTypeOK
    <2>2. rows'[i].owner = None
        BY <1>2, <2>1 DEF Cancel, Unclaimed, Row, Ids
    <2> QED
        BY <1>2, <2>2, CancelKeeps DEF OwnedKept
<1>3. CASE Delete(i)
    BY <1>3, DeleteKeeps DEF OwnedKept
<1> QED
    BY <1>1, <1>2, <1>3

LEMMA ClientChangeInv ==
    ASSUME IInv, NEW c \in Clients, Edit(c) \/ CommitCancel(c) \/ CommitDelete(c)
    PROVE  IInv' /\ StoreNext
<1>0. SchedTypes /\ PastOnly
    BY DEF IInv
<1>1. /\ UNCHANGED <<shown, pc, stamp, batch, job, stopping, trouble>>
      /\ Done(c) /\ Changed(c)
    BY DEF Edit, CommitCancel, CommitDelete
<1>2. StoreNext /\ StartedKept /\ UNCHANGED <<lastId, clock>>
    <2>1. CASE Edit(c)
        <3>1. PICK m \in Messages, d \in DueTimes :
                 EditScheduled(view[c].id, m, d, view[c].message, view[c].due)
            BY <2>1 DEF Edit
        <3>2. view[c].id \in Ids /\ EditScheduled(view[c].id, m, d,
                  rows[view[c].id].message, rows[view[c].id].due)
            BY <3>1 DEF EditScheduled, Scheduled
        <3>3. StoreNext
            BY <3>2 DEF EditAny, StoreNext
        <3>4. StartedKept
            BY <3>1, EditKeeps
        <3> QED
            BY <3>1, <3>3, <3>4 DEF EditScheduled
    <2>2. CASE CommitCancel(c)
        BY <2>2, CancelKeeps DEF CommitCancel, Cancel, Scheduled, CancelAny, StoreNext
    <2>3. CASE CommitDelete(c)
        BY <2>3, DeleteKeeps DEF CommitDelete, Delete, DeleteAny, StoreNext
    <2> QED
        BY <2>1, <2>2, <2>3
<1>3. wake' \in [Owners -> BOOLEAN] /\ unseen' \in [Owners -> BOOLEAN]
    BY <1>0, <1>1, SchedulerConstants DEF Changed, SchedTypes
<1>4. SchedTypes' /\ StillBusy /\ PastOnly'
    BY <1>0, <1>1, <1>2, <1>3 DEF Done, SchedTypes, StillBusy, PastOnly
<1>5. OwnedKept
    BY UserKeepsOwned DEF IInv, Edit, CommitCancel, CommitDelete
<1>6. HeldCurrent'
    BY <1>1, <1>5, HeldStep DEF IInv, StillHeld
<1> QED
    BY <1>1, <1>2, <1>4, <1>6, TableStep

-----------------------------------------------------------------------------
(* Delivering.                                                             *)

\* Two schedulers never deliver the same reminder.
LEMMA OneDeliverer ==
    ASSUME NoticeIsCurrent, NEW s \in Owners, NEW q \in Owners, q # s,
           pc[s] \in {"notifying", "marking"}, pc[q] \in {"notifying", "marking"}
    PROVE  job[q].id # job[s].id
BY DEF NoticeIsCurrent

LEMMA DelivererId ==
    ASSUME IInv, NEW s \in Owners, pc[s] \in {"notifying", "marking"}
    PROVE  /\ job[s].id \in Ids /\ job[s].id \in 1 .. lastId
           /\ job[s].id \in 1 .. MaxId
<1>1. /\ job[s].id \in Ids /\ Ids \subseteq 1 .. lastId /\ lastId \in Nat
      /\ MaxId \in Nat /\ lastId <= MaxId
    BY StoreConstants DEF IInv, NoticeIsCurrent, Scheduled, StoreInv, StoreTypeOK, SchedTypes
<1>2. ASSUME NEW i \in Ids
      PROVE  i \in 1 .. lastId /\ i \in 1 .. MaxId
    BY <1>1
<1> QED
    BY <1>1, <1>2

LEMMA BeginStepInv ==
    ASSUME IInv, NEW s \in Owners, Begin(s)
    PROVE  IInv' /\ StoreNext
<1> DEFINE i == job[s].id
<1>0. SchedTypes /\ PastOnly /\ clock \in Nat /\ StoreInv /\ NoticeIsCurrent
    BY DEF IInv, StoreInv, StoreTypeOK
<1>1. /\ pc[s] = "beginning" /\ pc' = [pc EXCEPT ![s] = "notifying"]
      /\ BeginDelivery(i, s, job[s].due, stamp[s])
      /\ UNCHANGED <<stamp, batch, job, wake, stopping, clientVars, trouble, historyVars>>
    BY DEF Begin, Goto
<1>2. /\ job[s] \in Snapshots /\ job[s].due <= stamp[s]
      /\ stamp[s] \in 0 .. clock
    BY <1>0, <1>1 DEF PastOnly, SchedTypes
<1>3. /\ Scheduled(i) /\ rows[i] \in Row /\ rows[i].due = job[s].due
      /\ rows[i].owner = s /\ rows[i].started = None
    BY <1>0, <1>1 DEF BeginDelivery, MayBegin, Scheduled, StoreInv, StoreTypeOK
<1>4. StoreNext
    BY <1>1, <1>2, <1>3 DEF StoreNext, BeginAny, Scheduled
<1>5. Ids' = Ids /\ StartedKept /\ \A j \in Ids \ {i} : rows'[j] = rows[j]
    BY <1>1, BeginKeeps
<1>6. UNCHANGED <<lastId, clock, shown>>
    BY <1>1 DEF BeginDelivery, historyVars
<1>7. rows'[i] = [rows[i] EXCEPT !.started = stamp[s]]
    BY <1>1, <1>3 DEF BeginDelivery, Scheduled, Ids
<1>8. StoreInv'
    BY <1>0, <1>4, StoreNextInv
<1>9. SchedTypes'
    BY <1>0, <1>1, <1>6 DEF SchedTypes, Places, clientVars, historyVars
<1>10. PastOnly'
    BY <1>0, <1>1, <1>6 DEF PastOnly, SchedTypes
<1>11. OwnedKept
    BY <1>3, <1>5, <1>7 DEF OwnedKept, Row
<1>12. HeldCurrent'
    BY <1>0, <1>1, <1>11, HeldStep DEF IInv, StillHeld, SchedTypes
<1>13. NoticeIsCurrent'
    <2> SUFFICES ASSUME NEW q \in Owners, pc'[q] \in {"notifying", "marking"}
                 PROVE  LET r == rows'[job[q].id]
                        IN  /\ job[q].id \in Ids /\ r.status = "scheduled"
                            /\ r.owner = q /\ r.started = stamp[q]
                            /\ job[q] = [id |-> job[q].id, message |-> r.message,
                                        due |-> r.due]
                            /\ job[q].due <= stamp[q]
        BY <1>1, <1>5 DEF NoticeIsCurrent, Scheduled, Snapshot
    <2>1. CASE q = s
        <3>1. /\ job[s] = [id |-> i, message |-> rows[i].message, due |-> rows[i].due]
              /\ rows[i].status = "scheduled" /\ i \in Ids
            BY <1>1, <1>2, <1>3 DEF IInv, HeldCurrent, Scheduled, Snapshot
        <3>2. /\ rows'[i].status = rows[i].status /\ rows'[i].owner = rows[i].owner
              /\ rows'[i].message = rows[i].message /\ rows'[i].due = rows[i].due
              /\ rows'[i].started = stamp[s]
            BY <1>3, <1>7 DEF Row
        <3> QED
            BY <1>2, <1>3, <2>1, <3>1, <3>2
    <2>2. CASE q # s
        <3>1. pc[q] \in {"notifying", "marking"}
            BY <1>0, <1>1, <2>2 DEF SchedTypes
        <3>2. LET r == rows[job[q].id]
              IN  /\ job[q].id \in Ids /\ r.status = "scheduled"
                  /\ r.owner = q /\ r.started = stamp[q]
                  /\ job[q] = [id |-> job[q].id, message |-> r.message, due |-> r.due]
                  /\ job[q].due <= stamp[q]
            BY <1>0, <3>1 DEF NoticeIsCurrent, Scheduled, Snapshot
        <3>3. rows'[job[q].id] = rows[job[q].id]
            BY <1>3, <1>5, <2>2, <3>2
        <3> QED
            BY <3>2, <3>3
    <2> QED
        BY <2>1, <2>2
<1>14. shown[i] = 0 /\ i \in 1 .. MaxId
    <2>1. i \in 1 .. MaxId
        <3>1. i \in 1 .. lastId
            BY <1>0, <1>3 DEF Scheduled, StoreInv, StoreTypeOK
        <3>2. lastId \in Nat /\ lastId <= MaxId /\ MaxId \in Nat
            BY <1>0, StoreConstants DEF StoreInv, StoreTypeOK, SchedTypes
        <3> HIDE DEF i
        <3> QED
            BY <3>1, <3>2
    <2>2. shown[i] \in Nat /\ shown[i] <= 1 /\ shown[i] # 1
        BY <1>0, <1>3, <2>1 DEF IInv, ShownAtMostOnce, Started, SchedTypes
    <2> QED
        BY <2>1, <2>2
<1>15. ShownInStep'
    BY <1>0, <1>1, <1>6, <1>14 DEF IInv, ShownInStep, SchedTypes
<1>16. ShownAtMostOnce'
    <2> SUFFICES ASSUME NEW j \in 1 .. MaxId, shown[j] = 1, Scheduled(j)'
                 PROVE  Started(j)'
        BY <1>6 DEF IInv, ShownAtMostOnce
    <2>1. j # i
        BY <1>14
    <2>2. rows'[j] = rows[j] /\ j \in Ids
        BY <1>5, <2>1 DEF Scheduled
    <2> QED
        BY <1>5, <2>2 DEF IInv, ShownAtMostOnce, Started, Scheduled
<1> QED
    BY <1>4, <1>8, <1>9, <1>10, <1>12, <1>13, <1>15, <1>16 DEF IInv

\* Showing, whether the notifier returns or raises after or before it.
LEMMA NotifyInv ==
    ASSUME IInv, NEW s \in Owners, Show(s) \/ NotifyFails(s)
    PROVE  IInv' /\ UNCHANGED storeVars
<1> DEFINE i == job[s].id
<1>0. SchedTypes /\ PastOnly /\ StoreInv /\ NoticeIsCurrent
    BY DEF IInv
<1>1. /\ pc[s] = "notifying"
      /\ UNCHANGED <<storeVars, batch, wake, stopping, clientVars, unseen>>
      /\ shown' = [shown EXCEPT ![i] = @ + 1] \/ shown' = shown
    BY DEF Show, NotifyFails, Goto
<1>2. \/ /\ pc' = [pc EXCEPT ![s] = "marking"]
         /\ UNCHANGED <<job, stamp, trouble>>
         /\ shown' = [shown EXCEPT ![i] = @ + 1]
      \/ pc' = [pc EXCEPT ![s] = "choosing"] /\ EndTurn(s) /\ trouble' \in Nat
    BY <1>0 DEF Show, NotifyFails, Goto, Fault, SchedTypes
<1>3. /\ i \in Ids /\ i <= lastId /\ shown[i] = 0 /\ Started(i)
    <2>1. i \in Ids /\ shown[i] = 0 /\ rows[i].started = stamp[s] /\ stamp[s] \in Nat
        BY <1>0, <1>1 DEF NoticeIsCurrent, Scheduled, SchedTypes, IInv, ShownInStep
    <2> HIDE DEF i
    <2>2. i <= lastId
        BY <2>1, SnapshotType DEF IInv
    <2> QED
        BY <2>1, <2>2, StoreConstants DEF Started
<1>4. \A q \in Owners \ {s} :
          pc[q] \in {"notifying", "marking"} => job[q].id # i
    BY <1>0, <1>1, OneDeliverer
<1>5. StoreInv' /\ Ids' = Ids /\ rows' = rows /\ lastId' = lastId /\ clock' = clock
    BY <1>0, <1>1 DEF storeVars, StoreInv, StoreTypeOK, ClaimConsistent, Ids
<1>30. i \in 1 .. lastId /\ i \in 1 .. MaxId
    <2>1. /\ Ids \subseteq 1 .. lastId /\ lastId \in Nat /\ MaxId \in Nat
          /\ lastId <= MaxId
        BY <1>0, StoreConstants DEF StoreInv, StoreTypeOK, SchedTypes
    <2> HIDE DEF i
    <2> QED
        BY <1>3, <2>1
<1>6. shown' \in [1 .. MaxId -> Nat]
    BY <1>0, <1>1 DEF SchedTypes
<1>31. \A j \in 1 .. MaxId : shown'[j] = shown[j] \/ (j = i /\ shown'[j] = 1)
    <2> HIDE DEF i
    <2>1. shown \in [1 .. MaxId -> Nat] /\ shown[i] = 0
        BY <1>0, <1>3 DEF SchedTypes
    <2>2. shown' = shown \/ shown' = [shown EXCEPT ![i] = 1]
        BY <1>1, <2>1
    <2>3. ASSUME NEW j \in 1 .. MaxId, shown' = [shown EXCEPT ![i] = 1]
          PROVE  shown'[j] = IF j = i THEN 1 ELSE shown[j]
        BY <2>1, <2>3
    <2> QED
        BY <2>2, <2>3
<1>7. pc' \in [Owners -> Places] /\ job' \in [Owners -> Snapshots \cup {None}]
      /\ stamp' \in [Owners -> Nat] /\ trouble' \in Nat
    <2>1. pc' \in [Owners -> Places]
        BY <1>0, <1>2 DEF SchedTypes, Places
    <2>2. trouble' \in Nat /\ (EndTurn(s) \/ UNCHANGED <<job, stamp>>)
        BY <1>0, <1>2 DEF SchedTypes
    <2>3. job' \in [Owners -> Snapshots \cup {None}]
        BY <1>0, <2>2 DEF SchedTypes, EndTurn
    <2>4. stamp' \in [Owners -> Nat]
        BY <1>0, <2>2 DEF SchedTypes, EndTurn
    <2> QED
        BY <2>1, <2>2, <2>3, <2>4
<1>8. SchedTypes'
    BY <1>0, <1>1, <1>5, <1>6, <1>7 DEF SchedTypes, clientVars
<1>9. \A q \in Owners \ {s} : pc'[q] = pc[q] /\ job'[q] = job[q] /\ stamp'[q] = stamp[q]
    BY <1>0, <1>2 DEF SchedTypes, EndTurn
<1>10. \/ pc'[s] = "choosing" /\ stamp'[s] = 0
       \/ /\ pc'[s] = "marking" /\ job'[s] = job[s] /\ stamp'[s] = stamp[s]
          /\ shown' = [shown EXCEPT ![i] = @ + 1]
    BY <1>0, <1>2 DEF SchedTypes, EndTurn
<1>11. PastOnly'
    BY <1>0, <1>1, <1>5, <1>9, <1>10 DEF PastOnly, IInv, StoreInv, StoreTypeOK
<1>12. HeldCurrent'
    BY <1>1, <1>5, <1>9, <1>10 DEF IInv, HeldCurrent, Snapshot
<1>13. NoticeIsCurrent'
    BY <1>0, <1>1, <1>5, <1>9, <1>10 DEF NoticeIsCurrent, Scheduled, Snapshot
<1>14. ShownAtMostOnce'
    <2> SUFFICES ASSUME NEW j \in 1 .. MaxId
                 PROVE  /\ shown'[j] <= 1
                        /\ shown'[j] = 1 /\ Scheduled(j) => Started(j)
        BY <1>5 DEF ShownAtMostOnce, Scheduled, Started
    <2> HIDE DEF i
    <2> QED
        BY <1>0, <1>3, <1>31 DEF IInv, ShownAtMostOnce, SchedTypes
<1>15. ShownInStep'
    <2>1. ASSUME NEW q \in Owners
          PROVE  /\ pc'[q] = "notifying" => shown'[job'[q].id] = 0
                 /\ pc'[q] = "marking" => shown'[job'[q].id] = 1
        <3>1. CASE q = s
            <4>1. shown' = [shown EXCEPT ![i] = @ + 1] => shown'[i] = 1
                BY <1>0, <1>3, <1>30 DEF SchedTypes
            <4> QED
                BY <1>10, <3>1, <4>1
        <3>2. CASE q # s
            <4>1. pc[q] \in {"notifying", "marking"} => shown'[job[q].id] = shown[job[q].id]
                BY <1>4, <1>31, <3>2, DelivererId
            <4> QED
                BY <1>9, <3>2, <4>1 DEF IInv, ShownInStep
        <3> QED
            BY <3>1, <3>2
    <2>2. ASSUME NEW j \in 1 .. MaxId, j > lastId'
          PROVE  shown'[j] = 0
        <3>1. j # i
            <4> HIDE DEF i
            <4> QED
                BY <1>5, <1>0, <1>30, <2>2 DEF StoreInv, StoreTypeOK
        <3> QED
            BY <1>5, <1>31, <2>2, <3>1 DEF IInv, ShownInStep
    <2> QED
        BY <2>1, <2>2 DEF ShownInStep
<1> QED
    BY <1>1, <1>5, <1>8, <1>11, <1>12, <1>13, <1>14, <1>15 DEF IInv

LEMMA MarkStepInv ==
    ASSUME IInv, NEW s \in Owners, Mark(s)
    PROVE  IInv' /\ StoreNext
<1> DEFINE i == job[s].id
<1>0. SchedTypes /\ PastOnly /\ clock \in Nat /\ StoreInv /\ NoticeIsCurrent
    BY DEF IInv, StoreInv, StoreTypeOK
<1>1. /\ pc[s] = "marking" /\ pc' = [pc EXCEPT ![s] = "choosing"]
      /\ MarkTriggered(i, s, job[s].due, stamp[s])
      /\ EndTurn(s)
      /\ UNCHANGED <<batch, wake, stopping, clientVars, trouble, unseen>>
    BY DEF Mark, Goto
<1>2. i \in Ids /\ i \in 1 .. lastId /\ i \in 1 .. MaxId
    BY <1>1, DelivererId
<1>3. rows[i] \in Row /\ rows[i].due = job[s].due /\ stamp[s] \in 0 .. clock
    BY <1>0, <1>1, <1>2
    DEF NoticeIsCurrent, Snapshot, StoreInv, StoreTypeOK, SchedTypes, PastOnly
<1>4. StoreNext
    BY <1>1, <1>2, <1>3 DEF StoreNext, MarkAny
<1>5. /\ Ids' = Ids /\ rows'[i] = Advanced(rows[i], stamp[s])
      /\ \A j \in Ids \ {i} : rows'[j] = rows[j]
    BY <1>1, MarkKeeps
<1>6. UNCHANGED <<lastId, clock>>
    BY <1>1 DEF MarkTriggered
<1>7. StoreInv'
    BY <1>0, <1>4, StoreNextInv
<1>8. rows'[i].owner = None
    BY <1>3, <1>5 DEF Advanced, Unclaimed, Row
<1>9. \/ rows'[i].status = "scheduled" /\ shown' = [shown EXCEPT ![i] = 0]
      \/ rows'[i].status # "scheduled" /\ shown' = shown
    BY <1>0 DEF Mark, SchedTypes
<1>10. /\ shown' \in [1 .. MaxId -> Nat]
       /\ \A j \in 1 .. MaxId : j # i => shown'[j] = shown[j]
       /\ rows'[i].status = "scheduled" => shown'[i] = 0
       /\ shown'[i] <= 1
    <2> HIDE DEF i
    <2>1. shown \in [1 .. MaxId -> Nat] /\ shown[i] <= 1
        BY <1>0, <1>2 DEF SchedTypes, IInv, ShownAtMostOnce
    <2>2. CASE shown' = shown /\ rows'[i].status # "scheduled"
        BY <2>1, <2>2
    <2>3. CASE shown' = [shown EXCEPT ![i] = 0]
        <3>1. \A j \in 1 .. MaxId : shown'[j] = IF j = i THEN 0 ELSE shown[j]
            BY <2>1, <2>3
        <3>2. shown' \in [1 .. MaxId -> Nat]
            BY <2>1, <2>3
        <3> QED
            BY <1>2, <3>1, <3>2
    <2> QED
        BY <1>9, <2>2, <2>3
<1>11. SchedTypes'
    BY <1>0, <1>1, <1>6, <1>10 DEF SchedTypes, Places, EndTurn, clientVars
<1>12. PastOnly'
    BY <1>0, <1>1, <1>6 DEF PastOnly, SchedTypes, EndTurn
<1>13. OwnedKept
    BY <1>5, <1>8 DEF OwnedKept
<1>14. HeldCurrent'
    BY <1>0, <1>1, <1>13, HeldStep DEF IInv, StillHeld, SchedTypes, EndTurn
<1>15. \A q \in Owners : pc'[q] \in {"notifying", "marking"} =>
          /\ q # s /\ pc'[q] = pc[q] /\ job'[q] = job[q] /\ stamp'[q] = stamp[q]
          /\ job[q].id # i /\ job[q].id \in Ids /\ job[q].id \in 1 .. MaxId
    <2> SUFFICES ASSUME NEW q \in Owners, pc'[q] \in {"notifying", "marking"}
                 PROVE  /\ q # s /\ pc'[q] = pc[q]
                        /\ job'[q] = job[q] /\ stamp'[q] = stamp[q]
                        /\ job[q].id # i /\ job[q].id \in Ids /\ job[q].id \in 1 .. MaxId
        OBVIOUS
    <2>1. q # s /\ pc'[q] = pc[q] /\ job'[q] = job[q] /\ stamp'[q] = stamp[q]
        BY <1>0, <1>1 DEF SchedTypes, EndTurn
    <2> QED
        BY <1>0, <1>1, <2>1, OneDeliverer, DelivererId
<1>16. NoticeIsCurrent'
    BY <1>0, <1>5, <1>15 DEF NoticeIsCurrent, Scheduled, Snapshot
<1>17. ShownInStep'
    <2>1. \A q \in Owners : /\ pc'[q] = "notifying" => shown'[job'[q].id] = 0
                            /\ pc'[q] = "marking" => shown'[job'[q].id] = 1
        BY <1>10, <1>15 DEF IInv, ShownInStep
    <2>2. ASSUME NEW j \in 1 .. MaxId, j > lastId'
          PROVE  shown'[j] = 0
        <3>1. j # i
            <4> HIDE DEF i
            <4> QED
                BY <1>0, <1>2, <1>6, <2>2 DEF StoreInv, StoreTypeOK
        <3> QED
            BY <1>6, <1>10, <2>2, <3>1 DEF IInv, ShownInStep
    <2> QED
        BY <2>1, <2>2 DEF ShownInStep
<1>18. ShownAtMostOnce'
    <2> SUFFICES ASSUME NEW j \in 1 .. MaxId
                 PROVE  /\ shown'[j] <= 1
                        /\ shown'[j] = 1 /\ Scheduled(j)' => Started(j)'
        BY DEF ShownAtMostOnce
    <2>1. CASE j = i
        BY <1>10, <2>1 DEF Scheduled
    <2>2. CASE j # i
        BY <1>5, <1>10, <2>2 DEF IInv, ShownAtMostOnce, Scheduled, Started
    <2> QED
        BY <2>1, <2>2
<1> QED
    BY <1>4, <1>7, <1>11, <1>12, <1>14, <1>16, <1>17, <1>18 DEF IInv

-----------------------------------------------------------------------------
(* Every step, and the theorems.                                           *)

LEMMA NextInv ==
    ASSUME IInv, [Next]_vars
    PROVE  IInv' /\ [StoreNext]_storeVars
<1>1. CASE Advance
    BY <1>1, AdvanceInv
<1>2. ASSUME NEW s \in Owners, RunStep(s)
      PROVE  IInv' /\ UNCHANGED storeVars
    BY <1>2, RunStepInv DEF RunStep, Run, BeginPoll, LeaveLoop, Wait, EndWait
<1>3. ASSUME NEW s \in Owners, PollStep(s)
      PROVE  IInv' /\ [StoreNext]_storeVars
    <2>1. CASE TurnEnds(s)
        BY <2>1, TurnEndsInv
        DEF TurnEnds, ClaimFault, SkipJob, BeginFault, MarkRefused, MarkFault
    <2>2. CASE Choose(s) \/ EndPoll(s)
        BY <2>2, ChooseInv, EndPollInv DEF Choose, EndPoll
    <2> QED
        BY <1>3, <2>1, <2>2, ClaimStepInv, BeginStepInv, NotifyInv, MarkStepInv
        DEF PollStep, TurnEnds
<1>4. ASSUME NEW s \in Owners, Stop(s) \/ Kill(s)
      PROVE  IInv' /\ UNCHANGED storeVars
    BY <1>4, OutsideInv DEF Stop, Kill
<1>5. ASSUME NEW c \in Clients, ClientStep(c)
      PROVE  IInv' /\ [StoreNext]_storeVars
    BY <1>5, ClientCalmInv, CreateReminderInv, ClientChangeInv DEF ClientStep
<1>6. CASE UNCHANGED vars
    <2>1. /\ UNCHANGED <<storeVars, shown>> /\ SchedTypes' /\ PastOnly'
          /\ StillBusy /\ StillHeld
        BY <1>6 DEF vars, schedVars, clientVars, historyVars, storeVars, IInv, SchedTypes,
            PastOnly, StillBusy, StillHeld
    <2> QED
        BY <2>1, CalmStep
<1> QED
    BY <1>1, <1>2, <1>3, <1>4, <1>5, <1>6 DEF Next

LEMMA SpecInv == Spec => []IInv
<1>1. IInv /\ [Next]_vars => IInv'
    BY NextInv
<1> QED
    BY <1>1, InitIInv, PTL DEF Spec

\* All variables of the subsystem keep their types.
THEOREM TypesCorrect == Spec => []TypeOK
<1>1. IInv => TypeOK
    BY DEF IInv, StoreInv, SchedTypes, TypeOK
<1> QED
    BY <1>1, SpecInv, PTL

\* Whoever shows a reminder holds it alone and shows its current text: poll in
\* scheduler.py with the compare-and-set updates of storage.py.
THEOREM NoticesCurrent == Spec => []NoticeIsCurrent
<1>1. IInv => NoticeIsCurrent
    BY DEF IInv
<1> QED
    BY <1>1, SpecInv, PTL

\* No occurrence is shown twice, with any number of schedulers, kills, expired
\* leases and failing notifiers (begin_delivery in storage.py).
THEOREM NeverShownTwice == Spec => []ShownAtMostOnce
<1>1. IInv => ShownAtMostOnce
    BY DEF IInv
<1> QED
    BY <1>1, SpecInv, PTL

\* The schedulers and the users use the table as ReminderStore says, so what is
\* proved of the table alone holds in the running subsystem.
THEOREM TableImplemented == Spec => StoreSpec
<1>1. Init => StoreInit
    BY DEF Init, NothingYet
<1>2. IInv /\ [Next]_vars => [StoreNext]_storeVars
    BY NextInv
<1> QED
    BY <1>1, <1>2, SpecInv, PTL DEF Spec, StoreSpec
-----------------------------------------------------------------------------
(* Wake-ups.                                                               *)

\* An unseen change leaves the event set until the scheduler claims again.
WakePending ==
    /\ unseen \in [Owners -> BOOLEAN]
    /\ wake \in [Owners -> BOOLEAN]
    /\ \A s \in Owners : unseen[s] => wake[s] \/ pc[s] \in {"claiming", "dead"}

\* Requests set both, the loop clears the event only to claim.
LEMMA WakeStep ==
    ASSUME WakePending, SchedTypes, [Next]_vars
    PROVE  WakePending'
<1> USE DEF WakePending, SchedTypes
<1>1. ASSUME NEW s \in Owners, RunStep(s)
      PROVE  WakePending'
    BY <1>1 DEF RunStep, Run, BeginPoll, LeaveLoop, Wait, EndWait, Goto, historyVars
<1>2. ASSUME NEW s \in Owners, PollStep(s)
      PROVE  WakePending'
    <2>1. CASE Claim(s) \/ ClaimFault(s)
        BY <2>1 DEF Claim, ClaimFault, Goto
    <2>2. CASE ~(Claim(s) \/ ClaimFault(s))
        <3>1. /\ UNCHANGED <<wake, unseen>> /\ pc[s] # "dead" /\ pc[s] # "claiming"
              /\ \A o \in Owners \ {s} : pc'[o] = pc[o]
            BY <1>2, <2>2 DEF PollStep, Choose, EndPoll, Begin, SkipJob, BeginFault, Show,
               NotifyFails, Mark, MarkRefused, MarkFault, Goto, historyVars
        <3> QED
            BY <3>1
    <2> QED
        BY <2>1, <2>2
<1>3. ASSUME NEW s \in Owners, Stop(s) \/ Kill(s)
      PROVE  WakePending'
    BY <1>3 DEF Stop, Kill, historyVars
<1>4. ASSUME NEW c \in Clients, ClientStep(c)
      PROVE  WakePending'
    <2>1. UNCHANGED pc
        BY <1>4 DEF ClientStep, CreateReminder, Review, Edit, Check, CommitCancel,
           CommitDelete, CancelAgain, Refused, schedVars
    <2>2. Changed(c) \/ UNCHANGED <<wake, unseen>>
        BY <1>4 DEF ClientStep, CreateReminder, Review, Edit, Check, CommitCancel,
           CommitDelete, CancelAgain, Refused, schedVars, historyVars
    <2> QED
        BY <2>1, <2>2 DEF Changed
<1>5. CASE Advance \/ UNCHANGED vars
    BY <1>5 DEF Advance, vars, schedVars, historyVars
<1> QED
    BY <1>1, <1>2, <1>3, <1>4, <1>5 DEF Next

\* A change made in the scheduler's own process ends its sleep at once (run and wake in
\* scheduler.py): the event is cleared before the poll.
THEOREM WakesAreKept == Spec => []WakeNotLost
<1>1. Init => WakePending
    BY DEF Init, NothingYet, WakePending
<1>2. WakePending => WakeNotLost
    BY DEF WakePending, WakeNotLost
<1>3. IInv => SchedTypes
    BY DEF IInv
<1> QED
    BY <1>1, <1>2, <1>3, WakeStep, SpecInv, PTL DEF Spec

-----------------------------------------------------------------------------
(* ReminderScheduler implements ReminderDelivery.  A step of the subsystem *)
(* moves one reminder from a stage to another, or shows it, or leaves      *)
(* stages and notifications alone; IInv tells which of the three.          *)

stages == [i \in 1 .. MaxId |-> Stage(i)]

\* Stage, read off the table.
StageTable ==
    \A i \in 1 .. MaxId :
        /\ i > lastId => Stage(i) = "absent"
        /\ i <= lastId /\ i \notin Ids => Stage(i) = "gone"
        /\ i \in Ids =>
              /\ rows[i].status = "cancelled" => Stage(i) = "cancelled"
              /\ rows[i].status = "triggered" => Stage(i) = "done"
              /\ rows[i].status = "scheduled" /\ rows[i].started = None
                 => Stage(i) = "armed"
              /\ rows[i].status = "scheduled" /\ rows[i].started # None
                 => Stage(i) = "delivering"

LEMMA StageTableHolds == StoreInv => StageTable
<1> SUFFICES ASSUME StoreInv, NEW i \in 1 .. MaxId
             PROVE  /\ i > lastId => Stage(i) = "absent"
                    /\ i <= lastId /\ i \notin Ids => Stage(i) = "gone"
                    /\ i \in Ids =>
                          /\ rows[i].status = "cancelled" => Stage(i) = "cancelled"
                          /\ rows[i].status = "triggered" => Stage(i) = "done"
                          /\ rows[i].status = "scheduled" /\ rows[i].started = None
                             => Stage(i) = "armed"
                          /\ rows[i].status = "scheduled" /\ rows[i].started # None
                             => Stage(i) = "delivering"
    BY DEF StageTable
<1>1. lastId \in Nat /\ MaxId \in Nat /\ i \in Nat /\ (i \in Ids => i <= lastId)
    BY StoreConstants DEF StoreInv, StoreTypeOK
<1>2. CASE i > lastId
    BY <1>1, <1>2 DEF Stage
<1>3. CASE i <= lastId /\ i \notin Ids
    BY <1>1, <1>3 DEF Stage, Scheduled
<1>4. CASE i \in Ids
    BY <1>1, <1>4 DEF Stage, Scheduled
<1> QED
    BY <1>1, <1>2, <1>3, <1>4

LEMMA StageTableHoldsNext == StoreInv' => StageTable'
BY StageTableHolds, PTL

\* The table keeps, for row i, what Stage looks at.
SameStage(i) ==
    /\ i \in Ids' <=> i \in Ids
    /\ i \in Ids => /\ rows'[i].status = rows[i].status
                    /\ rows'[i].started = None <=> rows[i].started = None

LEMMA StageKept ==
    ASSUME UNCHANGED lastId, NEW i, SameStage(i)
    PROVE  Stage(i)' = Stage(i)
BY DEF SameStage, Stage, Scheduled

LEMMA NoneMoves ==
    ASSUME UNCHANGED <<lastId, shown>>, \A i \in 1 .. MaxId : SameStage(i)
    PROVE  UNCHANGED Delivery!vars
BY StageKept DEF stages, Delivery!vars

LEMMA TableUntouched ==
    ASSUME UNCHANGED <<storeVars, shown>>
    PROVE  UNCHANGED Delivery!vars
BY NoneMoves DEF storeVars, SameStage, Ids

LEMMA OneMoves ==
    ASSUME UNCHANGED lastId, NEW i \in 1 .. MaxId,
           \A j \in (1 .. MaxId) \ {i} : SameStage(j)
    PROVE  stages' = [stages EXCEPT ![i] = Stage(i)']
<1>1. \A j \in (1 .. MaxId) \ {i} : Stage(j)' = Stage(j)
    BY StageKept
<1> QED
    BY <1>1 DEF stages

\* An id in the table is one the refinement speaks of.
LEMMA KnownId ==
    ASSUME IInv, NEW i \in Ids
    PROVE  i \in 1 .. MaxId /\ i <= lastId
<1>1. /\ i \in 1 .. lastId /\ lastId \in Nat /\ MaxId \in Nat /\ lastId <= MaxId
    BY StoreConstants DEF IInv, StoreInv, StoreTypeOK, SchedTypes
<1> QED
    BY <1>1

LEMMA InitDelivers == Init => Delivery!Init
<1> SUFFICES ASSUME Init PROVE Delivery!Init
    OBVIOUS
<1>1. \A i \in 1 .. MaxId : i > lastId
    BY StoreConstants DEF Init, NothingYet, StoreInit
<1>2. \A i \in 1 .. MaxId : Stage(i) = "absent"
    BY <1>1, InitIInv, StageTableHolds DEF IInv, StageTable
<1> QED
    BY <1>2 DEF Init, NothingYet, Delivery!Init

\* Creating a reminder arms it; a repeated request changes nothing.
LEMMA CreateDelivers ==
    ASSUME IInv, IInv', NEW c \in Clients, CreateReminder(c)
    PROVE  [Delivery!Next]_(Delivery!vars)
<1>1. UNCHANGED shown
    BY DEF CreateReminder
<1>2. CASE UNCHANGED storeVars
    BY <1>1, <1>2, TableUntouched
<1>3. CASE \E m \in Messages, d \in DueTimes, r \in Rules, a \in Actions,
             k \in Keys \cup {None} : Create(NewRow(m, d, r, a, k))
    <2>0. PICK m \in Messages, d \in DueTimes, r \in Rules, a \in Actions,
             k \in Keys \cup {None} : Create(NewRow(m, d, r, a, k))
        BY <1>3
    <2>1. PICK i : i = lastId + 1
        OBVIOUS
    <2>2. /\ Ids' = Ids \cup {i} /\ i \notin Ids /\ lastId' = i
          /\ rows'[i] = NewRow(m, d, r, a, k)
          /\ \A j \in Ids : rows'[j] = rows[j]
        BY <2>0, <2>1, CreateKeeps DEF IInv, Create
    <2>3. lastId \in Nat /\ MaxId \in Nat /\ lastId' <= MaxId
        BY StoreConstants DEF IInv, StoreInv, StoreTypeOK, SchedTypes
    <2>4. i \in 1 .. MaxId /\ i > lastId
        BY <2>1, <2>2, <2>3
    <2>5. Stage(i) = "absent"
        BY <2>4, StageTableHolds DEF IInv, StageTable
    <2>6. i \in Ids' /\ rows'[i].status = "scheduled" /\ rows'[i].started = None
        BY <2>2 DEF NewRow
    <2>7. Stage(i)' = "armed"
        BY <2>4, <2>6, StageTableHoldsNext DEF IInv, StageTable
    <2>8. ASSUME NEW j \in 1 .. MaxId, j # i
          PROVE  Stage(j)' = Stage(j)
        <3>1. j \in Ids' <=> j \in Ids
            BY <2>2, <2>8
        <3>2. j > lastId' <=> j > lastId
            <4>1. CASE j > lastId
                BY <2>1, <2>2, <2>3, <2>8, <4>1
            <4>2. CASE ~(j > lastId)
                BY <2>1, <2>2, <2>3, <4>2
            <4> QED
                BY <4>1, <4>2
        <3>3. j <= lastId' <=> j <= lastId
            BY <3>2, <2>2, <2>3, <2>4
        <3> QED
            BY <2>2, <3>1, <3>2, <3>3 DEF Stage, Scheduled
    <2>9. stages' = [stages EXCEPT ![i] = "armed"] /\ stages[i] = "absent"
        BY <2>4, <2>5, <2>7, <2>8 DEF stages
    <2>10. Delivery!Arm(i)
        BY <1>1, <2>9 DEF Delivery!Arm, Delivery!Move, stages
    <2> QED
        BY <2>4, <2>10 DEF Delivery!Next
<1> QED
    BY <1>2, <1>3 DEF CreateReminder

\* Claiming writes owner and lease end only.
LEMMA ClaimDelivers ==
    ASSUME IInv, NEW s \in Owners, Claim(s)
    PROVE  UNCHANGED Delivery!vars
<1>1. UNCHANGED <<lastId, shown>> /\ ClaimDue(s, stamp[s], stamp[s] + Lease)
    BY DEF Claim, ClaimDue
<1>2. \A i \in Ids : rows[i] \in Row
    BY DEF IInv, StoreInv, StoreTypeOK
<1>3. Ids' = Ids
    BY <1>1, ClaimKeeps
<1>4. ASSUME NEW i \in Ids
      PROVE  /\ rows'[i].status = rows[i].status
             /\ rows'[i].started = rows[i].started
    BY <1>1, <1>2 DEF ClaimDue, Row
<1> QED
    BY <1>1, <1>3, <1>4, NoneMoves DEF SameStage

\* begin_delivery starts the delivery.
LEMMA BeginDelivers ==
    ASSUME IInv, IInv', NEW s \in Owners, Begin(s)
    PROVE  Delivery!Next
<1>1. PICK i : i = job[s].id
    OBVIOUS
<1>2. BeginDelivery(i, s, job[s].due, stamp[s]) /\ UNCHANGED <<lastId, shown>>
    BY <1>1 DEF Begin, BeginDelivery, historyVars
<1>3. /\ i \in Ids /\ rows[i].status = "scheduled" /\ rows[i].started = None
      /\ stamp[s] \in Nat
    BY <1>2 DEF BeginDelivery, MayBegin, Scheduled, IInv, SchedTypes
<1>4. i \in 1 .. MaxId /\ rows[i] \in Row
    BY <1>3, KnownId DEF IInv, StoreInv, StoreTypeOK
<1>5. Ids' = Ids /\ \A j \in Ids \ {i} : rows'[j] = rows[j]
    BY <1>2, BeginKeeps
<1>6. rows'[i].status = "scheduled" /\ rows'[i].started = stamp[s]
    BY <1>2, <1>3, <1>4 DEF BeginDelivery, Ids, Row
<1>7. Stage(i) = "armed"
    BY <1>3, <1>4, StageTableHolds DEF IInv, StageTable
<1>8. Stage(i)' = "delivering"
    BY <1>3, <1>4, <1>5, <1>6, StoreConstants, StageTableHoldsNext DEF IInv, StageTable
<1>9. stages' = [stages EXCEPT ![i] = "delivering"] /\ stages[i] = "armed"
    BY <1>2, <1>4, <1>5, <1>7, <1>8, OneMoves DEF SameStage, stages
<1>10. Delivery!StartDelivery(i)
    BY <1>2, <1>9 DEF Delivery!StartDelivery, Delivery!Move, stages
<1> QED
    BY <1>4, <1>10 DEF Delivery!Next

\* The notifier shows the occurrence, or raises before showing it.
LEMMA NotifyDelivers ==
    ASSUME IInv, NEW s \in Owners, Show(s) \/ NotifyFails(s)
    PROVE  [Delivery!Next]_(Delivery!vars)
<1>1. /\ pc[s] = "notifying" /\ UNCHANGED storeVars
      /\ shown' = [shown EXCEPT ![job[s].id] = @ + 1] \/ UNCHANGED shown
    BY DEF Show, NotifyFails, Goto
<1>2. CASE UNCHANGED shown
    BY <1>1, <1>2, TableUntouched
<1>3. CASE shown' = [shown EXCEPT ![job[s].id] = @ + 1]
    <2>1. PICK i : i = job[s].id
        OBVIOUS
    <2>2. i \in Ids /\ i \in 1 .. MaxId /\ shown[i] = 0
        BY <1>1, <2>1, DelivererId DEF IInv, ShownInStep
    <2>3. rows[i].status = "scheduled" /\ rows[i].started # None
        BY <1>1, <2>1, StoreConstants DEF IInv, NoticeIsCurrent, Scheduled, SchedTypes
    <2>4. Stage(i) = "delivering"
        BY <2>2, <2>3, StageTableHolds DEF IInv, StageTable
    <2>5. shown' = [shown EXCEPT ![i] = 1]
        BY <1>3, <2>1, <2>2
    <2>6. stages' = stages
        BY <1>1, StageKept DEF stages, storeVars, SameStage, Ids
    <2>7. Delivery!Show(i)
        BY <2>2, <2>4, <2>5, <2>6 DEF Delivery!Show, stages
    <2> QED
        BY <2>2, <2>7 DEF Delivery!Next
<1> QED
    BY <1>1, <1>2, <1>3

\* mark_claim_triggered completes the occurrence or arms the next one.
LEMMA MarkDelivers ==
    ASSUME IInv, IInv', NEW s \in Owners, Mark(s)
    PROVE  Delivery!Next
<1>1. PICK i : i = job[s].id
    OBVIOUS
<1>2. /\ pc[s] = "marking" /\ MarkTriggered(i, s, job[s].due, stamp[s])
      /\ UNCHANGED lastId
    BY <1>1 DEF Mark, Goto, MarkTriggered
<1>3. /\ i \in Ids /\ i \in 1 .. MaxId /\ shown[i] = 1 /\ rows[i] \in Row
    BY <1>1, <1>2, DelivererId DEF IInv, ShownInStep, StoreInv, StoreTypeOK
<1>4. rows[i].status = "scheduled" /\ rows[i].started # None
    BY <1>1, <1>2, StoreConstants DEF IInv, NoticeIsCurrent, Scheduled, SchedTypes
<1>5. /\ Ids' = Ids /\ \A j \in Ids \ {i} : rows'[j] = rows[j]
      /\ rows'[i] = Advanced(rows[i], stamp[s])
    BY <1>2, MarkKeeps
<1>6. /\ rows'[i].started = None
      /\ rows'[i].status \in {"scheduled", "triggered"}
    BY <1>3, <1>5 DEF Advanced, Unclaimed, Row
<1>7. Stage(i) = "delivering"
    BY <1>3, <1>4, StageTableHolds DEF IInv, StageTable
<1>8. stages' = [stages EXCEPT ![i] = Stage(i)'] /\ stages[i] = "delivering"
    BY <1>2, <1>3, <1>5, <1>7, OneMoves DEF SameStage, stages
<1>9. shown' = [shown EXCEPT ![i] = IF rows'[i].status = "scheduled" THEN 0 ELSE @]
    BY <1>1 DEF Mark
<1>10. CASE rows'[i].status = "scheduled"
    <2>1. Stage(i)' = "armed"
        BY <1>3, <1>5, <1>6, <1>10, StageTableHoldsNext DEF IInv, StageTable
    <2>2. Delivery!Rearm(i)
        BY <1>3, <1>8, <1>9, <1>10, <2>1 DEF Delivery!Rearm, Delivery!Move, stages
    <2> QED
        BY <1>3, <2>2 DEF Delivery!Next
<1>11. CASE rows'[i].status = "triggered"
    <2>1. Stage(i)' = "done"
        BY <1>3, <1>5, <1>11, StageTableHoldsNext DEF IInv, StageTable
    <2>2. shown' = shown
        BY <1>9, <1>11 DEF IInv, SchedTypes
    <2>3. Delivery!Complete(i)
        BY <1>3, <1>8, <2>1, <2>2 DEF Delivery!Complete, Delivery!Move, stages
    <2> QED
        BY <1>3, <2>3 DEF Delivery!Next
<1> QED
    BY <1>6, <1>10, <1>11

\* edit_scheduled leaves an armed reminder armed.
LEMMA EditDelivers ==
    ASSUME IInv, NEW c \in Clients, Edit(c)
    PROVE  UNCHANGED Delivery!vars
<1>1. PICK i, m, d : EditScheduled(i, m, d, view[c].message, view[c].due)
    BY DEF Edit
<1>2. UNCHANGED <<lastId, shown>>
    BY <1>1 DEF Edit, EditScheduled
<1>3. /\ i \in Ids /\ rows[i] \in Row
      /\ rows[i].status = "scheduled" /\ rows[i].started = None
    BY <1>1 DEF EditScheduled, Scheduled, Started, IInv, StoreInv, StoreTypeOK
<1>4. /\ Ids' = Ids /\ \A j \in Ids \ {i} : rows'[j] = rows[j]
      /\ rows'[i] = Edited(rows[i], m, d)
    BY <1>1, EditKeeps
<1>5. rows'[i].status = "scheduled" /\ rows'[i].started = None
    BY <1>3, <1>4 DEF Edited, Unclaimed, Row
<1> QED
    BY <1>2, <1>3, <1>4, <1>5, NoneMoves DEF SameStage

\* cancel withdraws an armed reminder, claimed or not.
LEMMA CancelDelivers ==
    ASSUME IInv, IInv', NEW c \in Clients, CommitCancel(c)
    PROVE  Delivery!Next
<1>1. PICK i : i = view[c].id
    OBVIOUS
<1>2. Cancel(i) /\ UNCHANGED <<lastId, shown>>
    BY <1>1 DEF CommitCancel, Cancel
<1>3. /\ i \in Ids /\ rows[i] \in Row
      /\ rows[i].status = "scheduled" /\ rows[i].started = None
    BY <1>2 DEF Cancel, Scheduled, Started, IInv, StoreInv, StoreTypeOK
<1>4. i \in 1 .. MaxId
    BY <1>3, KnownId
<1>5. Ids' = Ids /\ \A j \in Ids \ {i} : rows'[j] = rows[j]
    BY <1>2, CancelKeeps
<1>6. rows'[i].status = "cancelled"
    BY <1>2, <1>3 DEF Cancel, Unclaimed, Row, Ids
<1>7. Stage(i) = "armed"
    BY <1>3, <1>4, StageTableHolds DEF IInv, StageTable
<1>8. Stage(i)' = "cancelled"
    BY <1>3, <1>4, <1>5, <1>6, StageTableHoldsNext DEF IInv, StageTable
<1>9. stages' = [stages EXCEPT ![i] = "cancelled"] /\ stages[i] = "armed"
    BY <1>2, <1>4, <1>5, <1>7, <1>8, OneMoves DEF SameStage, stages
<1>10. Delivery!Withdraw(i)
    BY <1>2, <1>9 DEF Delivery!Withdraw, Delivery!Move, stages
<1> QED
    BY <1>4, <1>10 DEF Delivery!Next

\* delete removes a reminder that is not being delivered.
LEMMA DeleteDelivers ==
    ASSUME IInv, IInv', NEW c \in Clients, CommitDelete(c)
    PROVE  Delivery!Next
<1>1. PICK i : i = view[c].id
    OBVIOUS
<1>2. Delete(i) /\ UNCHANGED <<lastId, shown>>
    BY <1>1 DEF CommitDelete, Delete
<1>3. i \in Ids /\ rows[i] \in Row /\ rows[i].started = None
    BY <1>2 DEF Delete, Started, IInv, StoreInv, StoreTypeOK
<1>4. i \in 1 .. MaxId /\ i <= lastId
    BY <1>3, KnownId
<1>5. Ids' = Ids \ {i} /\ \A j \in Ids \ {i} : rows'[j] = rows[j]
    BY <1>2, DeleteKeeps
<1>6. Stage(i) \in {"armed", "cancelled", "done"}
    <2>1. rows[i].status \in {"scheduled", "cancelled", "triggered"}
        BY <1>3 DEF Row, Statuses
    <2> QED
        BY <1>3, <1>4, <2>1, StageTableHolds DEF IInv, StageTable
<1>7. Stage(i)' = "gone"
    BY <1>2, <1>4, <1>5, StageTableHoldsNext DEF IInv, StageTable
<1>8. stages' = [stages EXCEPT ![i] = "gone"] /\ stages[i] = Stage(i)
    BY <1>2, <1>4, <1>5, <1>7, OneMoves DEF SameStage, stages
<1>9. Delivery!Remove(i)
    BY <1>2, <1>6, <1>8 DEF Delivery!Remove, Delivery!Move, stages
<1> QED
    BY <1>4, <1>9 DEF Delivery!Next

LEMMA NextDelivers ==
    ASSUME IInv, IInv', [Next]_vars
    PROVE  [Delivery!Next]_(Delivery!vars)
<1>1. CASE UNCHANGED <<rows, lastId, shown>>
    BY <1>1, NoneMoves DEF SameStage, Ids
<1>2. CASE Advance
    BY <1>1, <1>2 DEF Advance, Tick, historyVars
<1>3. ASSUME NEW s \in Owners, RunStep(s) \/ Stop(s) \/ Kill(s)
      PROVE  [Delivery!Next]_(Delivery!vars)
    BY <1>1, <1>3 DEF RunStep, Run, BeginPoll, LeaveLoop, Wait, EndWait, Stop, Kill,
       historyVars, storeVars
<1>4. ASSUME NEW s \in Owners, PollStep(s)
      PROVE  [Delivery!Next]_(Delivery!vars)
    <2>1. CASE TurnEnds(s) \/ Choose(s) \/ EndPoll(s)
        BY <1>1, <2>1 DEF TurnEnds, ClaimFault, SkipJob, BeginFault, MarkRefused,
           MarkFault, Choose, EndPoll, historyVars, storeVars
    <2> QED
        BY <1>4, <2>1, ClaimDelivers, BeginDelivers, NotifyDelivers, MarkDelivers
        DEF PollStep, TurnEnds
<1>5. ASSUME NEW c \in Clients, ClientStep(c)
      PROVE  [Delivery!Next]_(Delivery!vars)
    <2>1. CASE Review(c) \/ Check(c) \/ CancelAgain(c) \/ Refused(c)
        BY <1>1, <2>1 DEF Review, Check, CancelAgain, Refused, historyVars, storeVars
    <2> QED
        BY <1>5, <2>1, CreateDelivers, EditDelivers, CancelDelivers, DeleteDelivers
        DEF ClientStep
<1>6. CASE UNCHANGED vars
    BY <1>1, <1>6 DEF vars, storeVars, historyVars
<1> QED
    BY <1>2, <1>3, <1>4, <1>5, <1>6 DEF Next

\* The schedulers, crashes and concurrent users of scheduler.py, service.py and
\* storage.py deliver every occurrence as ReminderDelivery promises.
THEOREM DeliveryImplemented == Spec => DeliversAsPromised
<1>1. Init => Delivery!Init
    BY InitDelivers
<1>2. IInv /\ IInv' /\ [Next]_vars => [Delivery!Next]_(Delivery!vars)
    BY NextDelivers
<1> QED
    BY <1>1, <1>2, SpecInv, PTL DEF Spec, DeliversAsPromised, Delivery!Spec
=============================================================================
