------------------------ MODULE ReminderStoreProofs ------------------------
(***************************************************************************)
(* The reminder table keeps its type and its claim columns consistent, for *)
(* every set of messages, rules, owners and due times and every lease.     *)
(* Each transaction has a lemma of its own, so that ReminderProofs can use *)
(* it for the scheduler's and the users' steps.                            *)
(*                                                                         *)
(* The second part is about the due times the table is given: for every    *)
(* zone, rule, wall time and delay, the schedules of Recurrence start in   *)
(* the future and move to their very next occurrence.                      *)
(***************************************************************************)
EXTENDS ReminderStore, Recurrence, TLAPS, FiniteSetTheorems

StoreInv == StoreTypeOK /\ ClaimConsistent

\* One row whose claim columns agree.
RowOK(row) ==
    /\ row \in Row
    /\ row.owner = None <=> row.expires = None
    /\ row.owner # None => row.status = "scheduled"
    /\ row.started # None => row.owner # None /\ row.started < row.expires

\* The invariant, row by row.
RowsOK ==
    /\ lastId \in Nat /\ clock \in Nat
    /\ Ids \subseteq 1 .. lastId
    /\ rows = [i \in Ids |-> rows[i]]
    /\ \A i \in Ids : RowOK(rows[i])

LEMMA StoreInvByRow == StoreInv <=> RowsOK
BY DEF StoreInv, StoreTypeOK, ClaimConsistent, RowOK, RowsOK

LEMMA StoreInvByRowNext == StoreInv' <=> RowsOK'
BY StoreInvByRow, PTL

\* Clearing the claim columns of a good row leaves a good row.
LEMMA UnclaimedOK ==
    ASSUME NEW row, RowOK(row)
    PROVE  /\ RowOK(Unclaimed(row))
           /\ Unclaimed(row).owner = None
           /\ Unclaimed(row).started = None
BY StoreConstants DEF RowOK, Unclaimed, Row

\* The next occurrence is an instant, strictly after the one it is asked for:
\* next_occurrence in src/jarvis/tasks/recurrence.py returns a candidate only
\* when it lies after the threshold.
LEMMA NextDueLater ==
    ASSUME NEW d \in Nat, NEW r \in Rules, NEW t \in Nat,
           Period[r] # 0, d <= t
    PROVE  NextDue(d, r, t) \in Nat /\ NextDue(d, r, t) > t
<1> DEFINE p == Period[r]
           q == (t - d) \div p
<1>1. p \in Nat \ {0}
    BY StoreConstants
<1>2. NextDue(d, r, t) = d + p * (q + 1)
    BY DEF NextDue
<1> HIDE DEF p
<1>3. q \in Int /\ t - d = p * q + ((t - d) % p) /\ (t - d) % p \in 0 .. p - 1
    BY <1>1
<1> HIDE DEF q
<1>4. p * (q + 1) = p * q + p /\ p * q \in Int
    BY <1>1, <1>3
<1> QED
    BY <1>1, <1>2, <1>3, <1>4

\* Completing an occurrence leaves a good, unclaimed row.
LEMMA AdvancedOK ==
    ASSUME NEW row, RowOK(row), NEW t \in Nat, row.due <= t
    PROVE  RowOK(Advanced(row, t))
<1>1. row.due \in Nat /\ row.rule \in Rules
    BY DEF RowOK, Row
<1>2. CASE Period[row.rule] = 0
    BY <1>2, UnclaimedOK, StoreConstants DEF Advanced, RowOK, Row, Statuses, Unclaimed
<1>3. CASE Period[row.rule] # 0
    <2>1. NextDue(row.due, row.rule, t) \in Nat
        BY <1>1, <1>3, NextDueLater
    <2> DEFINE free == Unclaimed(row)
    <2>2. Advanced(row, t) = [free EXCEPT !.status = "scheduled", !.last = t,
                                          !.due = NextDue(row.due, row.rule, t)]
        BY <1>3 DEF Advanced
    <2>3. RowOK(free) /\ free.owner = None /\ free.started = None
        BY UnclaimedOK
    <2> HIDE DEF free
    <2>4. free \in Row
        BY <2>3 DEF RowOK
    <2>5. Advanced(row, t) \in Row
        BY <2>1, <2>2, <2>4 DEF Row, Statuses
    <2>6. /\ Advanced(row, t).owner = free.owner
          /\ Advanced(row, t).expires = free.expires
          /\ Advanced(row, t).started = free.started
        BY <2>2, <2>4 DEF Row
    <2> QED
        BY <2>3, <2>5, <2>6 DEF RowOK
<1> QED
    BY <1>2, <1>3

-----------------------------------------------------------------------------
(* Every transaction preserves the invariant.                              *)

LEMMA CreateInv ==
    ASSUME StoreInv, NEW m \in Messages, NEW d \in DueTimes, NEW r \in Rules,
           NEW a \in Actions, NEW k \in Keys \cup {None},
           Create(NewRow(m, d, r, a, k))
    PROVE  StoreInv'
<1> DEFINE req == NewRow(m, d, r, a, k)
<1>1. RowOK(req)
    BY StoreConstants DEF RowOK, Row, NewRow, Statuses
<1> HIDE DEF req
<1>2. /\ lastId' = lastId + 1 /\ clock' = clock
      /\ rows' = [i \in Ids \cup {lastId + 1} |->
                     IF i = lastId + 1 THEN req ELSE rows[i]]
    BY DEF Create, req
<1>3. Ids' \subseteq 1 .. lastId'
    BY <1>2 DEF StoreInv, StoreTypeOK, Ids
<1>4. \A i \in Ids' : RowOK(rows'[i])
    BY <1>1, <1>2, StoreInvByRow DEF Ids, RowsOK
<1>5. rows' = [i \in Ids' |-> rows'[i]] /\ lastId' \in Nat /\ clock' \in Nat
    BY <1>2 DEF StoreInv, StoreTypeOK, Ids
<1> QED
    BY <1>3, <1>4, <1>5, StoreInvByRowNext DEF RowsOK

\* A step that replaces rows in place by good rows preserves the invariant.
LEMMA InPlaceInv ==
    ASSUME StoreInv, UNCHANGED lastId, clock' \in Nat,
           rows' = [i \in Ids |-> rows'[i]],
           \A i \in Ids : RowOK(rows'[i])
    PROVE  StoreInv'
<1>1. Ids' = Ids
    BY DEF Ids
<1>2. lastId' \in Nat /\ Ids' \subseteq 1 .. lastId'
    BY <1>1 DEF StoreInv, StoreTypeOK
<1> QED
    BY <1>1, <1>2, StoreInvByRowNext DEF RowsOK

\* The same for a step that replaces one row.
LEMMA OneRowInv ==
    ASSUME StoreInv, UNCHANGED <<lastId, clock>>, NEW i \in Ids, NEW row, RowOK(row),
           rows' = [rows EXCEPT ![i] = row]
    PROVE  StoreInv'
<1>1. rows' = [j \in Ids |-> rows'[j]] /\ \A j \in Ids : RowOK(rows'[j])
    BY StoreInvByRow DEF RowsOK, Ids
<1> QED
    BY <1>1, InPlaceInv DEF StoreInv, StoreTypeOK

LEMMA ClaimInv ==
    ASSUME StoreInv, NEW o \in Owners, NEW now \in Nat, ClaimDue(o, now, now + Lease)
    PROVE  StoreInv'
<1>1. \A i \in Ids : RowOK(rows'[i])
    <2> SUFFICES ASSUME NEW i \in Ids PROVE RowOK(rows'[i])
        OBVIOUS
    <2>1. RowOK(rows[i])
        BY StoreInvByRow DEF RowsOK
    <2>2. CASE i \in Batch(now)
        <3>1. Scheduled(i) /\ rows[i].started = None
            BY <2>2 DEF Batch, Claimable
        <3>2. rows'[i] = [rows[i] EXCEPT !.owner = o, !.expires = now + Lease]
            BY <2>2 DEF ClaimDue
        <3> QED
            <4>1. now + Lease \in Nat
                BY StoreConstants
            <4>2. rows[i].status = "scheduled"
                BY <3>1 DEF Scheduled
            <4>3. rows[i] \in Row
                BY <2>1 DEF RowOK
            <4>4. rows'[i] \in Row
                BY <3>2, <4>1, <4>3 DEF Row
            <4>5. /\ rows'[i].owner = o /\ rows'[i].expires = now + Lease
                  /\ rows'[i].started = None /\ rows'[i].status = "scheduled"
                BY <3>1, <3>2, <4>2, <4>3 DEF Row
            <4> QED
                BY <4>1, <4>4, <4>5, StoreConstants DEF RowOK
    <2>3. CASE i \notin Batch(now)
        BY <2>1, <2>3 DEF ClaimDue
    <2> QED
        BY <2>2, <2>3
<1> QED
    BY <1>1, InPlaceInv DEF ClaimDue, StoreInv, StoreTypeOK

LEMMA BeginInv ==
    ASSUME StoreInv, NEW i, NEW o \in Owners, NEW expected, NEW t \in Nat,
           BeginDelivery(i, o, expected, t)
    PROVE  StoreInv'
<1>1. i \in Ids /\ RowOK(rows[i])
    BY StoreInvByRow DEF RowsOK, BeginDelivery, MayBegin, Scheduled
<1>2. RowOK([rows[i] EXCEPT !.started = t])
    BY <1>1, StoreConstants DEF BeginDelivery, MayBegin, Scheduled, RowOK, Row
<1> QED
    BY <1>1, <1>2, OneRowInv DEF BeginDelivery

LEMMA ReleaseInv ==
    ASSUME StoreInv, NEW i \in Ids, NEW o, NEW expected, ReleaseClaim(i, o, expected)
    PROVE  StoreInv'
<1> DEFINE row == [rows[i] EXCEPT !.owner = None, !.expires = None]
<1>1. rows[i] \in Row /\ rows[i].started = None
    BY StoreInvByRow DEF RowsOK, ReleaseClaim, RowOK
<1>2. row \in Row
    BY <1>1 DEF Row
<1>3. row.owner = None /\ row.expires = None /\ row.started = None
    BY <1>1 DEF Row
<1>4. rows' = [rows EXCEPT ![i] = row]
    BY <1>1 DEF ReleaseClaim, Row
<1> HIDE DEF row
<1> QED
    BY <1>2, <1>3, <1>4, OneRowInv DEF ReleaseClaim, RowOK

LEMMA MarkInv ==
    ASSUME StoreInv, NEW i, NEW o, NEW expected, NEW t \in Nat,
           MarkTriggered(i, o, expected, t)
    PROVE  StoreInv'
<1>1. i \in Ids /\ RowOK(rows[i]) /\ rows[i].due <= t
    BY StoreInvByRow DEF RowsOK, MarkTriggered, MayTrigger, Scheduled, RowOK, Row
<1>2. RowOK(Advanced(rows[i], t))
    BY <1>1, AdvancedOK
<1> QED
    BY <1>1, <1>2, OneRowInv DEF MarkTriggered

LEMMA CancelInv ==
    ASSUME StoreInv, NEW i, Cancel(i)
    PROVE  StoreInv'
<1>1. i \in Ids /\ RowOK(rows[i])
    BY StoreInvByRow DEF RowsOK, Cancel, Scheduled
<1>2. RowOK([Unclaimed(rows[i]) EXCEPT !.status = "cancelled"])
    BY <1>1, StoreConstants DEF RowOK, Row, Unclaimed, Statuses
<1> QED
    BY <1>1, <1>2, OneRowInv DEF Cancel

LEMMA EditInv ==
    ASSUME StoreInv, NEW i, NEW m \in Messages, NEW d \in DueTimes,
           NEW expectedMessage, NEW expectedDue,
           EditScheduled(i, m, d, expectedMessage, expectedDue)
    PROVE  StoreInv'
<1>1. i \in Ids /\ RowOK(rows[i])
    BY StoreInvByRow DEF RowsOK, EditScheduled, Scheduled
<1>2. RowOK(Edited(rows[i], m, d))
    BY <1>1, StoreConstants DEF RowOK, Row, Unclaimed, Edited
<1> QED
    BY <1>1, <1>2, OneRowInv DEF EditScheduled

LEMMA DeleteInv ==
    ASSUME StoreInv, NEW i, Delete(i)
    PROVE  StoreInv'
BY DEF Delete, StoreInv, StoreTypeOK, ClaimConsistent, Ids

LEMMA TickInv ==
    ASSUME StoreInv, Tick
    PROVE  StoreInv'
BY StoreInvByRow, InPlaceInv DEF RowsOK, Tick, StoreInv, StoreTypeOK

-----------------------------------------------------------------------------
(* The table on its own.                                                   *)

LEMMA StoreInitInv == StoreInit => StoreInv
BY DEF StoreInit, StoreInv, StoreTypeOK, ClaimConsistent, Ids

LEMMA StoreNextInv == StoreInv /\ [StoreNext]_storeVars => StoreInv'
<1> SUFFICES ASSUME StoreInv, [StoreNext]_storeVars PROVE StoreInv'
    OBVIOUS
<1>0. clock \in Nat
    BY DEF StoreInv, StoreTypeOK
<1>1. CASE Tick
    BY <1>1, TickInv
<1>2. CASE CreateAny
    BY <1>2, CreateInv DEF CreateAny
<1>3. CASE ClaimAny
    BY <1>0, <1>3, ClaimInv DEF ClaimAny
<1>4. CASE BeginAny
    BY <1>0, <1>4, BeginInv DEF BeginAny
<1>5. CASE ReleaseAny
    BY <1>5, ReleaseInv DEF ReleaseAny
<1>6. CASE MarkAny
    BY <1>0, <1>6, MarkInv DEF MarkAny
<1>7. CASE EditAny
    BY <1>7, EditInv DEF EditAny
<1>8. CASE CancelAny
    BY <1>8, CancelInv DEF CancelAny
<1>9. CASE DeleteAny
    BY <1>9, DeleteInv DEF DeleteAny
<1>10. CASE UNCHANGED storeVars
    BY <1>10 DEF storeVars, StoreInv, StoreTypeOK, ClaimConsistent, Ids
<1> QED
    BY <1>1, <1>2, <1>3, <1>4, <1>5, <1>6, <1>7, <1>8, <1>9, <1>10 DEF StoreNext

\* The table always holds rows of the declared type.
THEOREM StoreTypeCorrect == StoreSpec => []StoreTypeOK
<1>1. StoreInv => StoreTypeOK
    BY DEF StoreInv
<1> QED
    BY <1>1, StoreInitInv, StoreNextInv, PTL DEF StoreSpec

\* Owner, lease end and start marker of a row always agree, whichever methods
\* ran in whichever order (claim_due, begin_delivery, release_claim,
\* _mark_triggered, cancel, edit_scheduled, delete).
THEOREM ClaimsConsistent == StoreSpec => []ClaimConsistent
<1>1. StoreInv => ClaimConsistent
    BY DEF StoreInv
<1> QED
    BY <1>1, StoreInitInv, StoreNextInv, PTL DEF StoreSpec

-----------------------------------------------------------------------------
(* What the transactions leave alone.                                      *)

\* Every started row is still there, unchanged.
StartedKept ==
    \A i \in Ids : rows[i].started # None => i \in Ids' /\ rows'[i] = rows[i]

LEMMA CreateKeeps ==
    ASSUME StoreInv, NEW req, Create(req)
    PROVE  /\ \A i \in Ids : i \in Ids' /\ rows'[i] = rows[i]
           /\ Ids' = Ids \cup {lastId + 1} /\ lastId + 1 \notin Ids
           /\ rows'[lastId + 1] = req
BY DEF StoreInv, StoreTypeOK, Create, Ids

LEMMA ClaimKeeps ==
    ASSUME NEW o, NEW now, NEW until, ClaimDue(o, now, until)
    PROVE  /\ Ids' = Ids
           /\ \A i \in Ids \ Batch(now) : rows'[i] = rows[i]
           /\ StartedKept
<1>1. Ids' = Ids /\ \A i \in Ids \ Batch(now) : rows'[i] = rows[i]
    BY DEF ClaimDue, Ids
<1>2. \A i \in Batch(now) : rows[i].started = None
    BY DEF Batch, Claimable
<1> QED
    BY <1>1, <1>2 DEF StartedKept

LEMMA BeginKeeps ==
    ASSUME NEW i, NEW o, NEW expected, NEW t, BeginDelivery(i, o, expected, t)
    PROVE  /\ Ids' = Ids
           /\ \A j \in Ids \ {i} : rows'[j] = rows[j]
           /\ StartedKept
BY DEF BeginDelivery, MayBegin, Ids, StartedKept

LEMMA MarkKeeps ==
    ASSUME NEW i, NEW o, NEW expected, NEW t, MarkTriggered(i, o, expected, t)
    PROVE  /\ Ids' = Ids
           /\ \A j \in Ids \ {i} : rows'[j] = rows[j]
           /\ rows'[i] = Advanced(rows[i], t)
BY DEF MarkTriggered, MayTrigger, Scheduled, Ids

LEMMA CancelKeeps ==
    ASSUME NEW i, Cancel(i)
    PROVE  /\ Ids' = Ids
           /\ \A j \in Ids \ {i} : rows'[j] = rows[j]
           /\ StartedKept
BY DEF Cancel, Scheduled, Started, Ids, StartedKept

LEMMA EditKeeps ==
    ASSUME NEW i, NEW m, NEW d, NEW expectedMessage, NEW expectedDue,
           EditScheduled(i, m, d, expectedMessage, expectedDue)
    PROVE  /\ Ids' = Ids
           /\ \A j \in Ids \ {i} : rows'[j] = rows[j]
           /\ rows'[i] = Edited(rows[i], m, d)
           /\ StartedKept
BY DEF EditScheduled, Scheduled, Started, Ids, StartedKept

LEMMA DeleteKeeps ==
    ASSUME NEW i, Delete(i)
    PROVE  /\ Ids' = Ids \ {i}
           /\ \A j \in Ids \ {i} : rows'[j] = rows[j]
           /\ StartedKept
BY DEF Delete, Started, Ids, StartedKept

LEMMA ReleaseKeeps ==
    ASSUME NEW i, NEW o, NEW expected, ReleaseClaim(i, o, expected)
    PROVE  /\ Ids' = Ids
           /\ \A j \in Ids \ {i} : rows'[j] = rows[j]
           /\ StartedKept
BY DEF ReleaseClaim, Scheduled, Ids, StartedKept

LEMMA TickKeeps ==
    ASSUME Tick
    PROVE  Ids' = Ids /\ rows' = rows /\ StartedKept
BY DEF Tick, Ids, StartedKept

-----------------------------------------------------------------------------
(* Action properties of the table on its own.                              *)

LEMMA NextFreezesStarted ==
    ASSUME StoreInv, StoreNext
    PROVE  FreezeStarted
<1>1. CASE Tick
    BY <1>1, TickKeeps DEF StartedKept, FreezeStarted
<1>2. CASE CreateAny
    BY <1>2, CreateKeeps DEF CreateAny, FreezeStarted
<1>3. CASE ClaimAny
    BY <1>3, ClaimKeeps DEF ClaimAny, StartedKept, FreezeStarted
<1>4. CASE BeginAny
    BY <1>4, BeginKeeps DEF BeginAny, StartedKept, FreezeStarted
<1>5. CASE ReleaseAny
    BY <1>5, ReleaseKeeps DEF ReleaseAny, StartedKept, FreezeStarted
<1>6. CASE MarkAny
    <2> PICK i \in Ids, o \in Owners \cup {None}, t \in 0 .. clock :
            MarkTriggered(i, o, rows[i].due, t)
        BY <1>6 DEF MarkAny
    <2>1. t >= rows[i].due
        BY DEF MarkTriggered, MayTrigger
    <2> QED
        BY <2>1, MarkKeeps DEF FreezeStarted
<1>7. CASE EditAny
    BY <1>7, EditKeeps DEF EditAny, StartedKept, FreezeStarted
<1>8. CASE CancelAny
    BY <1>8, CancelKeeps DEF CancelAny, StartedKept, FreezeStarted
<1>9. CASE DeleteAny
    BY <1>9, DeleteKeeps DEF DeleteAny, StartedKept, FreezeStarted
<1> QED
    BY <1>1, <1>2, <1>3, <1>4, <1>5, <1>6, <1>7, <1>8, <1>9 DEF StoreNext

\* No call of another party changes a started row (storage.py: the
\* delivery_started_at tests of claim_due, cancel, edit_scheduled and delete).
THEOREM StartedRowsFrozen == StoreSpec => StartedIsFrozen
<1>1. StoreInv /\ [StoreNext]_storeVars => [FreezeStarted]_storeVars
    BY NextFreezesStarted
<1> QED
    BY <1>1, StoreInitInv, StoreNextInv, PTL DEF StoreSpec, StartedIsFrozen

\* An owner changes into another owner only by claim_due.
LEMMA NextRespectsLease ==
    ASSUME StoreInv, StoreNext
    PROVE  RespectLease
<1> SUFFICES ASSUME NEW i \in Ids \cap Ids', rows[i].owner # None,
                    rows'[i].owner \notin {None, rows[i].owner}
             PROVE  rows[i].started = None /\ rows[i].expires <= clock
    BY DEF RespectLease
<1>0. RowOK(rows[i]) /\ clock \in Nat
    BY StoreInvByRow DEF RowsOK
<1>1. CASE Tick
    BY <1>1, TickKeeps
<1>2. CASE CreateAny
    BY <1>2, CreateKeeps DEF CreateAny
<1>3. CASE ClaimAny
    <2> PICK o \in Owners, now \in 0 .. clock : ClaimDue(o, now, now + Lease)
        BY <1>3 DEF ClaimAny
    <2>1. i \in Batch(now)
        BY ClaimKeeps
    <2>2. Claimable(i, now)
        BY <2>1 DEF Batch
    <2> QED
        BY <1>0, <2>2 DEF Claimable, RowOK, Row
<1>4. CASE BeginAny
    <2> PICK j \in Ids, o \in Owners, t \in 0 .. clock : BeginDelivery(j, o, rows[j].due, t)
        BY <1>4 DEF BeginAny
    <2>1. rows' = [rows EXCEPT ![j] = [rows[j] EXCEPT !.started = t]]
        BY DEF BeginDelivery
    <2> QED
        BY <1>0, <2>1 DEF RowOK, Row, Ids
<1>5. CASE ReleaseAny
    <2> PICK j \in Ids, o \in Owners : ReleaseClaim(j, o, rows[j].due)
        BY <1>5 DEF ReleaseAny
    <2>1. CASE i = j
        BY <1>0, <2>1 DEF ReleaseClaim, RowOK, Row, Ids
    <2> QED
        BY <2>1, ReleaseKeeps
<1>6. CASE MarkAny
    <2> PICK j \in Ids, o \in Owners \cup {None}, t \in 0 .. clock :
            MarkTriggered(j, o, rows[j].due, t)
        BY <1>6 DEF MarkAny
    <2>1. CASE i = j
        <3>1. rows'[i] = Advanced(rows[i], t)
            BY <2>1, MarkKeeps
        <3>2. Advanced(rows[i], t).owner = None
            BY <1>0 DEF Advanced, Unclaimed, RowOK, Row
        <3> QED
            BY <3>1, <3>2
    <2> QED
        BY <2>1, MarkKeeps
<1>7. CASE EditAny
    <2> PICK j \in Ids, m \in Messages, d \in DueTimes :
            EditScheduled(j, m, d, rows[j].message, rows[j].due)
        BY <1>7 DEF EditAny
    <2>1. CASE i = j
        <3>1. rows'[i] = Edited(rows[i], m, d)
            BY <2>1, EditKeeps
        <3>2. Edited(rows[i], m, d).owner = None
            BY <1>0 DEF Edited, Unclaimed, RowOK, Row
        <3> QED
            BY <3>1, <3>2
    <2> QED
        BY <2>1, EditKeeps
<1>8. CASE CancelAny
    <2> PICK j \in Ids : Cancel(j)
        BY <1>8 DEF CancelAny
    <2>1. CASE i = j
        BY <1>0, <2>1 DEF Cancel, Unclaimed, RowOK, Row, Ids
    <2> QED
        BY <2>1, CancelKeeps
<1>9. CASE DeleteAny
    BY <1>9, DeleteKeeps DEF DeleteAny
<1> QED
    BY <1>1, <1>2, <1>3, <1>4, <1>5, <1>6, <1>7, <1>8, <1>9 DEF StoreNext

\* A running lease is never taken over (storage.py claim_due).
THEOREM RunningLeasesRespected == StoreSpec => LeaseRespected
<1>1. StoreInv /\ [StoreNext]_storeVars => [RespectLease]_storeVars
    BY NextRespectsLease
<1> QED
    BY <1>1, StoreInitInv, StoreNextInv, PTL DEF StoreSpec, LeaseRespected

\* Every transaction that leaves a row scheduled found it scheduled.
LEMMA NextRevivesNone ==
    ASSUME StoreInv, StoreNext
    PROVE  ReviveNone
<1> SUFFICES ASSUME NEW i \in Ids', Scheduled(i)', ~Scheduled(i)
             PROVE  i > lastId
    BY DEF ReviveNone
<1>0. i \in Ids => rows'[i] # rows[i]
    BY DEF Scheduled
<1>1. CASE Tick
    BY <1>0, <1>1, TickKeeps
<1>2. CASE CreateAny
    <2>1. lastId \in Nat
        BY DEF StoreInv, StoreTypeOK
    <2> QED
        BY <1>0, <1>2, <2>1, CreateKeeps DEF CreateAny
<1>3. CASE ClaimAny
    BY <1>0, <1>3, ClaimKeeps DEF ClaimAny, Batch, Claimable
<1>4. CASE BeginAny
    BY <1>0, <1>4, BeginKeeps DEF BeginAny, BeginDelivery, MayBegin
<1>5. CASE ReleaseAny
    BY <1>0, <1>5, ReleaseKeeps DEF ReleaseAny, ReleaseClaim
<1>6. CASE MarkAny
    BY <1>0, <1>6, MarkKeeps DEF MarkAny, MarkTriggered, MayTrigger
<1>7. CASE EditAny
    BY <1>0, <1>7, EditKeeps DEF EditAny, EditScheduled
<1>8. CASE CancelAny
    BY <1>0, <1>8, CancelKeeps DEF CancelAny, Cancel
<1>9. CASE DeleteAny
    BY <1>0, <1>9, DeleteKeeps DEF DeleteAny
<1> QED
    BY <1>1, <1>2, <1>3, <1>4, <1>5, <1>6, <1>7, <1>8, <1>9 DEF StoreNext

\* No id comes back to life (storage.py: AUTOINCREMENT, the status tests of
\* every update).
THEOREM NoIdResurrected == StoreSpec => NoResurrection
<1>1. StoreInv /\ [StoreNext]_storeVars => [ReviveNone]_storeVars
    BY NextRevivesNone
<1> QED
    BY <1>1, StoreInitInv, StoreNextInv, PTL DEF StoreSpec, NoResurrection

----------------------------------------------------------------------------
(* Recurring due times.                                                    *)

\* A set of numbers that is not empty has a least element, and Min is it.
LEMMA LeastIs ==
    ASSUME NEW S, S \subseteq Nat, S # {}
    PROVE  Min(S) \in S /\ \A y \in S : Min(S) <= y
<1>1. PICK x \in S : \A y \in S : <<y, x>> \notin OpToRel(<, Nat)
  BY NatLessThanWellFounded, WFMin, Zenon
<1>2. \A y \in S : y \in Nat /\ x \in Nat /\ <<y, x>> \notin {ss \in Nat \X Nat : ss[1] < ss[2]}
  BY <1>1 DEF OpToRel
<1>3. \A y \in S : ~(y < x)
  BY <1>2
<1>4. \A y \in S : x <= y
  BY <1>2, <1>3
<1> QED BY <1>1, <1>4 DEF Min

\* The same of one or two instants, for Max as well.
LEMMA EndsOfPair ==
    ASSUME NEW a \in Int, NEW b \in Int, NEW S, S \subseteq {a, b}, S # {}
    PROVE  /\ Min(S) \in S /\ \A y \in S : Min(S) <= y
           /\ Max(S) \in S /\ \A y \in S : Max(S) >= y
<1>1. S = {a} \/ S = {b} \/ S = {a, b}
  OBVIOUS
<1>2. \E x \in S : \A y \in S : x <= y
  <2>1. CASE a <= b
    BY <1>1, <2>1
  <2>2. CASE ~(a <= b)
    BY <1>1, <2>2
  <2> QED BY <2>1, <2>2
<1>3. \E x \in S : \A y \in S : x >= y
  <2>1. CASE a <= b
    BY <1>1, <2>1
  <2>2. CASE ~(a <= b)
    BY <1>1, <2>2
  <2> QED BY <2>1, <2>2
<1> QED BY <1>2, <1>3 DEF Min, Max

\* What the assumptions say of one zone.
LEMMA ZoneIs ==
    ASSUME NEW z \in Zones
    PROVE  /\ z.before \in Nat /\ z.after \in Nat /\ z.change \in Nat
           /\ z.before - z.after < 24 /\ z.after - z.before <= 24
BY RecurrenceConstants, ClockChanges

\* An instant is a reading of its local time, and every reading is one.
LEMMA ReadingsAre ==
    ASSUME NEW z \in Zones, NEW n \in Int
    PROVE  /\ \A u \in Int : u \in Readings(z, n) <=> Local(z, u) = n
           /\ Readings(z, n) \subseteq {n - z.before, n - z.after}
           /\ Readings(z, n) \subseteq Int
           /\ Readings(z, n) # {} =>
                 /\ Min(Readings(z, n)) \in Readings(z, n)
                 /\ Max(Readings(z, n)) \in Readings(z, n)
                 /\ \A u \in Readings(z, n) :
                       Min(Readings(z, n)) <= u /\ u <= Max(Readings(z, n))
<1> USE ZoneIs
<1>1. \A u \in Int : u \in Readings(z, n) <=> Local(z, u) = n
  BY DEF Readings, Local
<1>2. Readings(z, n) \subseteq {n - z.before, n - z.after}
  BY DEF Readings
<1>3. n - z.before \in Int /\ n - z.after \in Int
  OBVIOUS
<1>4. Readings(z, n) # {} =>
         /\ Min(Readings(z, n)) \in Readings(z, n)
         /\ Max(Readings(z, n)) \in Readings(z, n)
         /\ \A u \in Readings(z, n) :
               Min(Readings(z, n)) <= u /\ u <= Max(Readings(z, n))
  BY <1>2, <1>3, EndsOfPair
<1> QED BY <1>1, <1>2, <1>3, <1>4

\* A local time is a number: the instant with one of the two offsets.
LEMMA LocalIs ==
    ASSUME NEW z \in Zones, NEW u \in Int
    PROVE  /\ Local(z, u) \in Int
           /\ Local(z, u) = u + z.before \/ Local(z, u) = u + z.after
BY ZoneIs DEF Local

\* v reads as local time n or, if there is no such time, as the first one after it.
Reaches(z, v, n) ==
    /\ v \in Int
    /\ \E k \in Nat : /\ Local(z, v) = n + k
                      /\ \A j \in Nat : j < k => Readings(z, n + j) = {}

\* What a wall time is localized to.
LEMMA LocalizeIs ==
    ASSUME NEW z \in Zones, NEW day \in Nat, NEW wall \in 0 .. 23, NEW fold \in {0, 1},
           Localize(z, day, wall, fold) # Raises
    PROVE  Reaches(z, Localize(z, day, wall, fold), day * 24 + wall)
<1> DEFINE n == day * 24 + wall
           found == {k \in 0 .. GapWindow : Readings(z, n + k) # {}}
           v == Localize(z, day, wall, fold)
<1>1. v = IF found = {} THEN Raises
          ELSE IF Min(found) = 0 /\ fold = 1 THEN Max(Readings(z, n))
          ELSE Min(Readings(z, n + Min(found)))
  BY DEF Localize, Hours
<1>2. n \in Nat /\ GapWindow \in Nat
  BY RecurrenceConstants
<1>3. found # {}
  BY <1>1
<1>4. found \subseteq Nat
  BY <1>2
<1> HIDE DEF n
<1>5. Min(found) \in found /\ \A k \in found : Min(found) <= k
  BY <1>3, <1>4, LeastIs
<1> DEFINE m == Min(found)
<1>11. m \in 0 .. GapWindow /\ Readings(z, n + m) # {}
  <2>1. \A k \in found : k \in 0 .. GapWindow /\ Readings(z, n + k) # {}
    OBVIOUS
  <2> HIDE DEF found
  <2> QED BY <1>5, <2>1
<1>6. /\ m \in Nat /\ m <= GapWindow /\ Readings(z, n + m) # {}
      /\ \A j \in Nat : j < m => Readings(z, n + j) = {}
  <2> SUFFICES ASSUME NEW j \in Nat, j < m, Readings(z, n + j) # {} PROVE FALSE
    BY <1>2, <1>11, SMTT(30)
  <2>1. j \in 0 .. GapWindow
    BY <1>2, <1>11
  <2>2. j \in found
    BY <2>1
  <2> HIDE DEF found
  <2>3. m <= j
    BY <1>5, <2>2
  <2> QED BY <1>2, <1>11, <2>3
<1>7. v = Max(Readings(z, n + m)) \/ v = Min(Readings(z, n + m))
  BY <1>1, <1>2, <1>3
<1> HIDE DEF m, found, v
<1>8. n + m \in Int
  BY <1>2, <1>6
<1>9. v \in Readings(z, n + m)
  BY <1>6, <1>7, <1>8, ReadingsAre
<1>10. v \in Int /\ Local(z, v) = n + m
  BY <1>8, <1>9, ReadingsAre
<1> QED BY <1>6, <1>10 DEF n, v, Reaches

\* Never earlier than what was asked for.
LEMMA LocalizedLater ==
    ASSUME NEW z \in Zones, NEW day \in Nat, NEW wall \in 0 .. 23, NEW fold \in {0, 1},
           Localize(z, day, wall, fold) # Raises
    PROVE  /\ Localize(z, day, wall, fold) \in Int
           /\ Local(z, Localize(z, day, wall, fold)) \in Int
           /\ Local(z, Localize(z, day, wall, fold)) >= day * 24 + wall
<1> DEFINE v == Localize(z, day, wall, fold)
           n == day * 24 + wall
<1>1. Reaches(z, v, n)
  BY LocalizeIs
<1>4. n \in Nat
  OBVIOUS
<1> HIDE DEF v, n
<1>2. v \in Int /\ \E k \in Nat : Local(z, v) = n + k
  BY <1>1 DEF Reaches
<1>3. Local(z, v) >= n /\ Local(z, v) \in Int
  BY <1>2, <1>4
<1> QED BY <1>2, <1>3 DEF v, n

\* v is the reading of u's local time that fold chooses: with 0 the earlier, else the later.
Chosen(z, u, fold, v) ==
    /\ v \in Int
    /\ Local(z, v) = Local(z, u)
    /\ fold = 0 => v <= u
    /\ fold = 1 => v >= u
    /\ Fold(z, u) = 0 => v >= u

\* A wall time that exists is localized to such a reading.
LEMMA LocalizeExists ==
    ASSUME NEW z \in Zones, NEW day \in Nat, NEW wall \in 0 .. 23, NEW fold \in {0, 1},
           NEW u \in Int, Local(z, u) = day * 24 + wall
    PROVE  Chosen(z, u, fold, Localize(z, day, wall, fold))
<1> DEFINE n == day * 24 + wall
           found == {k \in 0 .. GapWindow : Readings(z, n + k) # {}}
           v == Localize(z, day, wall, fold)
           R == Readings(z, n)
<1>1. v = IF found = {} THEN Raises
          ELSE IF Min(found) = 0 /\ fold = 1 THEN Max(Readings(z, n))
          ELSE Min(Readings(z, n + Min(found)))
  BY DEF Localize, Hours
<1>2. n \in Nat /\ GapWindow \in Nat /\ Local(z, u) = n /\ n + 0 = n
  BY RecurrenceConstants
<1> HIDE DEF n
<1>3. u \in R
  BY <1>2, ReadingsAre
<1>4. 0 \in found /\ found \subseteq Nat
  BY <1>2, <1>3
<1>5. Min(found) = 0
  <2>1. Min(found) \in found /\ Min(found) <= 0
    BY <1>4, LeastIs
  <2> QED BY <1>4, <2>1
<1>6. v = IF fold = 1 THEN Max(R) ELSE Min(R)
  BY <1>1, <1>2, <1>4, <1>5
<1> HIDE DEF v, found
<1>7. /\ R \subseteq Int /\ Min(R) \in R /\ Max(R) \in R
      /\ \A x \in R : Min(R) <= x /\ x <= Max(R)
  BY <1>2, <1>3, ReadingsAre
<1>8. v \in R
  BY <1>6, <1>7
<1>9. v \in Int /\ Local(z, v) = Local(z, u)
  BY <1>2, <1>7, <1>8, ReadingsAre
<1>10. Fold(z, u) = 0 => \A x \in R : ~(x < u)
  BY <1>2 DEF Fold
<1>11. Fold(z, u) = 0 => v >= u
  BY <1>7, <1>8, <1>9, <1>10
<1> QED BY <1>3, <1>6, <1>7, <1>9, <1>11 DEF v, Chosen

\* The days a rule allows; the searched ones contain one in every week.
LEMMA AllowedIs ==
    ASSUME NEW r \in RuleNames, NEW day \in Nat
    PROVE  /\ Allowed(r, day) \subseteq Nat
           /\ \A d \in Allowed(r, day) :
                 /\ d >= day
                 /\ r = "weekdays" => Weekday(d) <= 4
                 /\ r = "weekly" => Weekday(d) = Weekday(day)
           /\ \A e \in Nat : e >= day /\ e + 7 <= day + 14 + Horizon \div 24 =>
                 \E d \in Allowed(r, day) : e < d /\ d <= e + 7
<1>1. Horizon \in Nat /\ r \in {"daily", "weekly", "weekdays"}
  BY RecurrenceConstants
<1>2. Horizon \div 24 \in Nat
  BY <1>1
<1> DEFINE last_day == day + 14 + Horizon \div 24
<1>3. \A d : d \in Allowed(r, day) <=>
         /\ d \in day .. last_day
         /\ \/ r = "daily"
            \/ r = "weekly" /\ (d - day) % 7 = 0
            \/ r = "weekdays" /\ Weekday(d) <= 4
  BY <1>1 DEF Allowed, Hours
<1>4. last_day \in Nat
  BY <1>2
<1> HIDE DEF last_day
<1>5. \A d \in Allowed(r, day) : d \in Nat /\ d >= day /\ d <= last_day
  BY <1>3, <1>4
<1>6. ASSUME NEW d \in Allowed(r, day)
      PROVE  /\ r = "weekdays" => Weekday(d) <= 4
             /\ r = "weekly" => Weekday(d) = Weekday(day)
  <2>1. r = "weekdays" => Weekday(d) <= 4
    BY <1>3
  <2>2. r = "weekly" => (d - day) % 7 = 0
    BY <1>3
  <2>3. (d - day) % 7 = 0 => d % 7 = day % 7
    BY <1>5
  <2> QED BY <2>1, <2>2, <2>3 DEF Weekday
<1>7. ASSUME NEW e \in Nat, e >= day, e + 7 <= last_day
      PROVE  \E d \in Allowed(r, day) : e < d /\ d <= e + 7
  <2>1. CASE r = "daily"
    <3>1. e + 1 \in Allowed(r, day)
      BY <1>3, <1>4, <1>7, <2>1
    <3> QED BY <3>1
  <2>2. CASE r = "weekly"
    <3>1. PICK k \in 1 .. 7 : (e + k - day) % 7 = 0
      <4> DEFINE x == (e - day) % 7
      <4>1. x \in 0 .. 6 /\ 7 - x \in 1 .. 7
        BY <1>7
      <4>2. (e + (7 - x) - day) % 7 = 0
        BY <1>7
      <4> QED BY <4>1, <4>2
    <3>2. e + k \in Allowed(r, day)
      BY <1>3, <1>4, <1>7, <2>2, <3>1
    <3> QED BY <3>1, <3>2
  <2>3. CASE r = "weekdays"
    <3>1. PICK k \in 1 .. 7 : (e + k) % 7 <= 4
      <4>1. (e + 1) % 7 <= 4 \/ (e + 2) % 7 <= 4 \/ (e + 3) % 7 <= 4
        OBVIOUS
      <4> QED BY <4>1
    <3>2. e + k \in Allowed(r, day)
      BY <1>3, <1>4, <1>7, <2>3, <3>1 DEF Weekday
    <3> QED BY <3>1, <3>2
  <2> QED BY <1>1, <2>1, <2>2, <2>3
<1> QED BY <1>5, <1>6, <1>7 DEF last_day

\* The same wall time is reached later on a later day, also when it has to be advanced.
LEMMA LaterDay ==
    ASSUME NEW z \in Zones, NEW u \in Int, NEW v \in Int, NEW n \in Int, NEW k \in Nat,
           Local(z, u) - n >= 24, Local(z, v) = n + k,
           \A j \in Nat : j < k => Readings(z, n + j) = {}
    PROVE  v <= u
<1> USE ZoneIs
<1>1. SUFFICES ASSUME v > u PROVE FALSE
  OBVIOUS
<1>2. CASE k = 0
  BY <1>1, <1>2 DEF Local
<1>3. CASE k > 0
  <2>1. Readings(z, n) = {}
    <3>1. n + 0 = n /\ 0 \in Nat /\ 0 < k
      BY <1>3
    <3> QED BY <3>1
  <2>2. Local(z, n - z.before) # n /\ Local(z, n - z.after) # n
    BY <2>1, ReadingsAre
  <2>3. z.before < z.after
    BY <2>2 DEF Local
  <2>4. Local(z, u) < Local(z, v)
    BY <1>1, <2>3 DEF Local
  <2> DEFINE j == Local(z, u) - n
  <2>5. Local(z, u) \in Int
    BY LocalIs
  <2>6. j \in Nat /\ j < k /\ n + j = Local(z, u)
    BY <2>4, <2>5
  <2> HIDE DEF j
  <2>7. u \in Readings(z, n + j)
    BY <2>5, <2>6, ReadingsAre
  <2> QED BY <2>6, <2>7
<1> QED BY <1>2, <1>3

\* A zone's repeated hours lie within a day.
LEMMA FoldOnce ==
    ASSUME NEW z \in Zones, NEW u \in Int, NEW n \in Int, Fold(z, u) = 1,
           n - Local(z, u) >= 24, NEW x \in Readings(z, n), NEW y \in Readings(z, n)
    PROVE  x = y
<1> USE ZoneIs
<1>1. PICK w \in Readings(z, Local(z, u)) : w < u
  BY DEF Fold
<1>2. Local(z, u) \in Int
  BY LocalIs
<1>3. w \in Int /\ Local(z, w) = Local(z, u)
  BY <1>1, <1>2, ReadingsAre
<1>4. x \in Int /\ y \in Int /\ Local(z, x) = n /\ Local(z, y) = n
  BY ReadingsAre
<1> QED BY <1>1, <1>3, <1>4 DEF Local

\* fold has two values.
LEMMA FoldIs == ASSUME NEW z \in Zones, NEW u \in Int PROVE Fold(z, u) \in {0, 1}
BY DEF Fold

\* A local time is its day and its wall time.
LEMMA DayAndWall ==
    ASSUME NEW n \in Int, n >= 0
    PROVE  /\ Day(n) \in Nat /\ Wall(n) \in 0 .. 23 /\ n = Day(n) * 24 + Wall(n)
           /\ \A day \in Nat : n >= day * 24 => Day(n) >= day
BY DEF Day, Wall, Hours

\* v is the due time d0's wall time on the first allowed day on which it lies past t.
IsNext(z, r, d0, t, v) ==
    LET today == Day(Local(z, d0))
        days == Allowed(r, today) \ {today}
        at(d) == Localize(z, d, Wall(Local(z, d0)), Fold(z, d0))
    IN  /\ v \in Int /\ v > t
        /\ \E day \in days :
              /\ v = at(day)
              /\ \A d \in days : at(d) \in Int /\ at(d) > t => day <= d

\* next_occurrence returns exactly that: the searched days suffice, and an exception is told.
LEMMA NextIs ==
    ASSUME NEW z \in Zones, NEW r \in RuleNames, NEW d0 \in Int, Local(z, d0) >= 0,
           NEW t \in Int, NEW delay \in Delays, t - d0 < 24 + delay, t >= d0,
           NextOccurrence(z, r, d0, t) # Raises
    PROVE  IsNext(z, r, d0, t, NextOccurrence(z, r, d0, t))
<1> DEFINE today == Day(Local(z, d0))
           wall == Wall(Local(z, d0))
           fold == Fold(z, d0)
           at(d) == Localize(z, d, wall, fold)
           days == Allowed(r, today) \ {today}
           hits == {d \in days : at(d) = Raises \/ at(d) > t}
           next == NextOccurrence(z, r, d0, t)
<1>1. next = at(Min(hits))
  BY DEF NextOccurrence
<1>2. Local(z, d0) \in Int /\ (Local(z, d0) = d0 + z.before \/ Local(z, d0) = d0 + z.after)
  BY LocalIs
<1>3. today \in Nat /\ wall \in 0 .. 23 /\ Local(z, d0) = today * 24 + wall
  BY <1>2, DayAndWall
<1>4. fold \in {0, 1}
  BY FoldIs
<1> HIDE DEF today, wall, fold
<1>13. \A d \in Nat : at(d) # Raises =>
          at(d) \in Int /\ Local(z, at(d)) \in Int /\ Local(z, at(d)) >= d * 24 + wall
  BY <1>3, <1>4, LocalizedLater
<1>5. days \subseteq Nat /\ \A d \in days : d > today
  <2>1. today \in Nat
    BY <1>3
  <2>2. \A d \in Allowed(r, today) : d \in Nat /\ d >= today
    BY <2>1, AllowedIs
  <2> QED BY <2>1, <2>2
<1>6. hits # {}
  <2>1. delay \in Nat /\ delay <= Horizon /\ Horizon \in Nat
    BY RecurrenceConstants, DelaysFit
  <2> DEFINE e == today + 2 + delay \div 24
  <2>2. e \in Nat /\ e >= today /\ e + 7 <= today + 14 + Horizon \div 24
        /\ 24 * (e + 1 - today) >= 48 + delay
    BY <1>3, <2>1
  <2> HIDE DEF e
  <2>3. PICK d \in Allowed(r, today) : e < d
    BY <1>3, <2>2, AllowedIs
  <2>4. d \in days /\ d \in Nat
    BY <1>3, <2>2, <2>3, AllowedIs
  <2>5. ASSUME at(d) # Raises PROVE at(d) > t
    <3>1. at(d) \in Int /\ Local(z, at(d)) \in Int /\ Local(z, at(d)) >= d * 24 + wall
      BY <1>13, <2>4, <2>5
    <3> HIDE DEF at
    <3>2. Local(z, at(d)) - Local(z, d0) >= 24 * (d - today)
      BY <1>3, <2>4, <3>1
    <3>3. 24 * (d - today) >= 48 + delay
      <4>1. e \in Nat /\ 24 * (e + 1 - today) >= 48 + delay
        BY <2>2
      <4> QED BY <1>3, <2>1, <2>3, <2>4, <4>1
    <3>4. Local(z, at(d)) - Local(z, d0) >= 48 + delay
      BY <1>2, <1>3, <2>1, <2>4, <3>1, <3>2, <3>3
    <3>5. Local(z, at(d)) = at(d) + z.before \/ Local(z, at(d)) = at(d) + z.after
      BY <3>1, LocalIs
    <3>6. at(d) - d0 >= 24 + delay
      BY <1>2, <2>1, <3>1, <3>4, <3>5, ZoneIs
    <3> QED BY <2>1, <3>1, <3>6
  <2> HIDE DEF at
  <2>6. d \in hits
    BY <2>4, <2>5
  <2> QED BY <2>6
<1>7. hits \subseteq Nat
  BY <1>5
<1> HIDE DEF hits
<1>8. Min(hits) \in hits /\ \A d \in hits : Min(hits) <= d
  BY <1>6, <1>7, LeastIs
<1> DEFINE day == Min(hits)
<1>9. day \in days /\ day \in Nat /\ (at(day) = Raises \/ at(day) > t)
  BY <1>7, <1>8 DEF hits
<1>10. next = at(day) /\ next # Raises /\ at(day) > t
  BY <1>1, <1>9
<1> HIDE DEF day
<1>11. at(day) \in Int
  BY <1>9, <1>10, <1>13
<1>12. \A d \in days : at(d) \in Int /\ at(d) > t => day <= d
  BY <1>8 DEF hits, day
<1> QED BY <1>9, <1>10, <1>11, <1>12 DEF IsNext, today, wall, fold

\* A gap does not reach into another day.
GapsWithinADay ==
    \A z \in Zones :
        z.before < z.after => Day(z.change + z.before) = Day(z.change + z.after)

\* Then a wall time that is advanced stays on its day.
LEMMA SameDay ==
    ASSUME GapsWithinADay, NEW z \in Zones, NEW day \in Nat, NEW wall \in 0 .. 23,
           NEW v, Reaches(z, v, day * 24 + wall)
    PROVE  Day(Local(z, v)) = day
<1> DEFINE n == day * 24 + wall
<1>1. n \in Nat /\ Day(n) = day
  BY DEF Day, Hours
<1> HIDE DEF n
<1>2. v \in Int /\ \E k \in Nat : /\ Local(z, v) = n + k
                                  /\ \A j \in Nat : j < k => Readings(z, n + j) = {}
  BY DEF Reaches, n
<1>3. PICK k \in Nat : /\ Local(z, v) = n + k
                       /\ \A j \in Nat : j < k => Readings(z, n + j) = {}
  BY <1>2
<1>4. CASE k = 0
  BY <1>1, <1>3, <1>4
<1>5. CASE k > 0
  <2>1. /\ 0 \in Nat /\ 0 < k /\ n + 0 = n
        /\ k - 1 \in Nat /\ k - 1 < k /\ n + (k - 1) = n + k - 1
    BY <1>1, <1>5
  <2>2. Readings(z, n) = {} /\ Readings(z, n + k - 1) = {}
    BY <1>3, <2>1
  <2>3. ASSUME NEW x \in Int, Readings(z, x) = {}
        PROVE  z.change + z.before <= x /\ x < z.change + z.after
    <3>1. Local(z, x - z.before) # x /\ Local(z, x - z.after) # x
      BY <2>3, ZoneIs, ReadingsAre
    <3> QED BY <3>1, ZoneIs DEF Local
  <2>4. z.change + z.before <= n /\ n + k <= z.change + z.after
    BY <1>1, <2>1, <2>2, <2>3, ZoneIs
  <2>5. z.before < z.after
    BY <1>1, <1>5, <2>4, ZoneIs
  <2>6. Day(z.change + z.before) = Day(z.change + z.after)
    BY <2>5 DEF GapsWithinADay
  <2>7. Day(n + k) = Day(n)
    BY <1>1, <2>4, <2>6, ZoneIs DEF Day, Hours
  <2> QED BY <1>1, <1>3, <2>7
<1> QED BY <1>4, <1>5

\* A schedule begins at a local time that is not past.
LEMMA FirstIs ==
    ASSUME NEW z \in Zones, NEW r \in RuleNames, NEW weekday \in {0, 6}, NEW wall \in 0 .. 23,
           NEW now \in Nat, FirstOccurrence(z, r, weekday, wall, now) # Raises
    PROVE  /\ FirstOccurrence(z, r, weekday, wall, now) \in Int
           /\ Local(z, now) >= 0
           /\ Local(z, FirstOccurrence(z, r, weekday, wall, now)) >= Local(z, now)
<1> DEFINE today == Day(Local(z, now))
           start == IF r = "weekly" THEN today + ((weekday - Weekday(today)) % 7)
                    ELSE Min(Allowed(r, today))
           second == Min(Allowed(r, start) \ {start})
           v == FirstOccurrence(z, r, weekday, wall, now)
<1>1. v = IF /\ Localize(z, start, wall, 0) # Raises
             /\ Local(z, Localize(z, start, wall, 0)) < Local(z, now)
          THEN Localize(z, second, wall, 0) ELSE Localize(z, start, wall, 0)
  BY DEF FirstOccurrence
<1>2. Local(z, now) \in Int /\ Local(z, now) >= 0
  BY LocalIs, ZoneIs
<1>3. today \in Nat /\ Local(z, now) < (today + 1) * 24
  <2>1. /\ today \in Nat /\ Wall(Local(z, now)) \in 0 .. 23
        /\ Local(z, now) = today * 24 + Wall(Local(z, now))
    BY <1>2, DayAndWall
  <2> QED BY <1>2, <2>1
<1> HIDE DEF today
<1>4. Horizon \div 24 \in Nat
  BY RecurrenceConstants
<1>5. \A day \in Nat : \E d \in Allowed(r, day) : day < d
  <2> TAKE day \in Nat
  <2>1. day \in Nat /\ day >= day /\ day + 7 <= day + 14 + Horizon \div 24
    BY <1>4
  <2> QED BY <2>1, AllowedIs
<1>6. start \in Nat /\ start >= today
  <2>1. CASE r = "weekly"
    <3>1. (weekday - Weekday(today)) % 7 \in Nat
      BY <1>3 DEF Weekday
    <3> QED BY <1>3, <2>1, <3>1
  <2>2. CASE r # "weekly"
    <3>1. Allowed(r, today) # {} /\ Allowed(r, today) \subseteq Nat
      BY <1>3, <1>5, AllowedIs
    <3>2. Min(Allowed(r, today)) \in Allowed(r, today)
      BY <3>1, LeastIs
    <3>3. start = Min(Allowed(r, today))
      BY <2>2
    <3> HIDE DEF start
    <3> QED BY <1>3, <3>1, <3>2, <3>3, AllowedIs
  <2> QED BY <2>1, <2>2
<1> HIDE DEF start
<1>7. second \in Nat /\ second >= today + 1
  <2> DEFINE later == Allowed(r, start) \ {start}
  <2>1. \A d \in Allowed(r, start) : d \in Nat /\ d >= start
    BY <1>6, AllowedIs
  <2>2. later \subseteq Nat /\ later # {}
    BY <1>5, <1>6, <2>1
  <2>3. second \in later
    BY <2>2, LeastIs
  <2>4. \A d \in later : d \in Nat /\ d >= start + 1
    BY <1>6, <2>1
  <2> HIDE DEF later
  <2>5. second \in Nat /\ second >= start + 1
    BY <2>3, <2>4
  <2> QED BY <1>3, <1>6, <2>5
<1> HIDE DEF second, v
<1>8. 0 \in {0, 1} /\ v # Raises
  BY DEF v
<1>9. CASE v = Localize(z, second, wall, 0)
  <2>1. v \in Int /\ Local(z, v) \in Int /\ Local(z, v) >= second * 24 + wall
    BY <1>7, <1>8, <1>9, LocalizedLater
  <2>2. Local(z, v) >= Local(z, now)
    BY <1>2, <1>3, <1>7, <2>1
  <2> QED BY <1>2, <2>1, <2>2 DEF v
<1>10. CASE v = Localize(z, start, wall, 0) /\ ~(Local(z, v) < Local(z, now))
  <2>1. v \in Int /\ Local(z, v) \in Int
    BY <1>6, <1>8, <1>10, LocalizedLater
  <2>2. Local(z, v) >= Local(z, now)
    BY <1>2, <1>10, <2>1
  <2> QED BY <1>2, <2>1, <2>2 DEF v
<1> QED BY <1>1, <1>8, <1>9, <1>10

\* It begins before its creation only if the hour of the creation is the second of two.
LEMMA EarlierOnlyInFold ==
    ASSUME NEW z \in Zones, NEW v \in Int, NEW now \in Nat, v < now,
           Local(z, v) >= Local(z, now)
    PROVE  /\ Cardinality(Readings(z, Local(z, v))) = 2 /\ Fold(z, now) = 1 /\ now - v < 24
<1> USE ZoneIs
<1>1. v < z.change /\ now >= z.change /\ v + z.before >= now + z.after
  BY DEF Local
<1> DEFINE w == v + z.before - z.after
           m == now + z.after - z.before
<1>2. w \in Int /\ Local(z, w) = Local(z, v) /\ w # v
  BY <1>1 DEF Local
<1>3. m \in Int /\ Local(z, m) = Local(z, now) /\ m < now
  BY <1>1 DEF Local
<1>4. Local(z, v) = v + z.before /\ Local(z, v) \in Int /\ Local(z, now) \in Int
  BY <1>1 DEF Local
<1>5. Readings(z, Local(z, v)) = {v, w}
  <2>1. v \in Readings(z, Local(z, v)) /\ w \in Readings(z, Local(z, v))
    BY <1>2, <1>4, ReadingsAre
  <2>2. Readings(z, Local(z, v)) \subseteq {Local(z, v) - z.before, Local(z, v) - z.after}
    BY <1>4, ReadingsAre
  <2>3. Local(z, v) - z.before = v /\ Local(z, v) - z.after = w
    BY <1>4
  <2> HIDE DEF w
  <2> QED BY <2>1, <2>2, <2>3
<1>6. Cardinality({v, w}) = 2
  <2> HIDE DEF w
  <2>1. IsFiniteSet({v}) /\ Cardinality({v}) = 1
    BY FS_Singleton
  <2>2. {v, w} = {v} \cup {w} /\ w \notin {v}
    BY <1>2
  <2> DEFINE both == {v} \cup {w}
  <2>3. Cardinality(both) = Cardinality({v}) + 1
    BY <2>1, <2>2, FS_AddElement
  <2>4. {v, w} = both
    BY <2>2
  <2> HIDE DEF both
  <2>5. Cardinality(both) = 2
    BY <2>1, <2>3
  <2> QED BY <2>4, <2>5, Zenon
<1>7. m \in Readings(z, Local(z, now))
  BY <1>3, <1>4, ReadingsAre
<1>8. Fold(z, now) = 1
  BY <1>3, <1>7 DEF Fold
<1> QED BY <1>1, <1>5, <1>6, <1>8

\* A due time has a day; creation is less than a day past it, even in a fold.
RecurrenceInv ==
    /\ zone \in Zones /\ rule \in RuleNames /\ made \in Nat /\ due \in Int
    /\ Local(zone, due) >= 0
    /\ made - due < 24

\* One trigger: what NextIs says of the next due time.
LEMMA TriggerIs ==
    ASSUME RecurrenceInv, Trigger
    PROVE  /\ due' \in Int /\ last' \in Int /\ last' >= due /\ last' >= made
           /\ IsNext(zone, rule, due, last', due')
<1>1. PICK delay \in Delays :
         /\ last' = IF made > due THEN made + delay ELSE due + delay
         /\ due' = NextOccurrence(zone, rule, due, last')
         /\ NextOccurrence(zone, rule, due, last') # Raises
  <2>1. PICK delay \in Delays :
           LET t == IF made > due THEN made + delay ELSE due + delay
               next == NextOccurrence(zone, rule, due, t)
           IN  next # Raises /\ due' = next /\ last' = t
    BY DEF Trigger
  <2> QED BY <2>1
<1> DEFINE t == last'
<1>2. delay \in Nat
  BY RecurrenceConstants
<1>3. t \in Int /\ t >= due /\ t >= made /\ t - due < 24 + delay
  BY <1>1, <1>2 DEF RecurrenceInv
<1>4. zone \in Zones /\ rule \in RuleNames /\ due \in Int /\ Local(zone, due) >= 0
  BY DEF RecurrenceInv
<1>5. due' = NextOccurrence(zone, rule, due, t) /\ NextOccurrence(zone, rule, due, t) # Raises
  BY <1>1
<1> HIDE DEF t
<1>6. IsNext(zone, rule, due, t, due')
  BY <1>3, <1>4, <1>5, NextIs
<1>7. due' \in Int
  BY <1>6 DEF IsNext
<1> QED BY <1>3, <1>6, <1>7 DEF t

\* daily, weekly and weekdays establish it and start in the future.
LEMMA RecurrenceStarts ==
    ASSUME RecurrenceInit
    PROVE  RecurrenceInv /\ StartsInFuture
<1>1. /\ zone \in Zones /\ rule \in RuleNames /\ intent \in 0 .. 23 /\ made \in Nat
      /\ due # Raises
  BY RecurrenceConstants DEF RecurrenceInit
<1>2. PICK weekday \in {0, 6} : due = FirstOccurrence(zone, rule, weekday, intent, made)
  BY DEF RecurrenceInit
<1>3. due \in Int /\ Local(zone, made) >= 0 /\ Local(zone, due) >= Local(zone, made)
  BY <1>1, <1>2, FirstIs
<1>4. Local(zone, due) \in Int /\ Local(zone, made) \in Int
  BY <1>1, <1>3, LocalIs
<1>5. due < made => /\ Cardinality(Readings(zone, Local(zone, due))) = 2
                    /\ Fold(zone, made) = 1 /\ made - due < 24
  BY <1>1, <1>3, EarlierOnlyInFold
<1>6. Local(zone, due) >= 0 /\ made - due < 24
  BY <1>1, <1>3, <1>4, <1>5
<1> QED BY <1>1, <1>3, <1>5, <1>6 DEF RecurrenceInv, StartsInFuture

\* The local time of a due time, and the day and instant that a trigger takes.
LEMMA NextDay ==
    ASSUME NEW z \in Zones, NEW r \in RuleNames, NEW d0 \in Int, Local(z, d0) >= 0,
           NEW t \in Int, NEW v, IsNext(z, r, d0, t, v)
    PROVE  LET today == Day(Local(z, d0))
               wall == Wall(Local(z, d0))
               fold == Fold(z, d0)
           IN  /\ today \in Nat /\ wall \in 0 .. 23 /\ fold \in {0, 1}
               /\ v \in Int /\ v > t
               /\ \E day \in Allowed(r, today) :
                     /\ day \in Nat /\ day > today
                     /\ v = Localize(z, day, wall, fold)
                     /\ Reaches(z, v, day * 24 + wall)
                     /\ Local(z, v) \in Int /\ Local(z, v) >= day * 24 + wall
                     /\ \A d \in Allowed(r, today) :
                           /\ d > today
                           /\ Localize(z, d, wall, fold) \in Int
                           /\ Localize(z, d, wall, fold) > t
                           => day <= d
<1> DEFINE today == Day(Local(z, d0))
           wall == Wall(Local(z, d0))
           fold == Fold(z, d0)
           at(d) == Localize(z, d, wall, fold)
<1>1. today \in Nat /\ wall \in 0 .. 23 /\ fold \in {0, 1}
  BY LocalIs, DayAndWall, FoldIs
<1>2. v \in Int /\ v > t
  BY DEF IsNext
<1>3. PICK day \in Allowed(r, today) \ {today} :
         /\ v = at(day)
         /\ \A d \in Allowed(r, today) \ {today} : at(d) \in Int /\ at(d) > t => day <= d
  BY DEF IsNext
<1> HIDE DEF today, wall, fold
<1>4. \A d \in Allowed(r, today) : d \in Nat /\ d >= today
  BY <1>1, AllowedIs
<1>5. day \in Nat /\ day > today
  BY <1>1, <1>3, <1>4
<1>6. at(day) # Raises
  BY <1>2, <1>3, RecurrenceConstants
<1>7. Reaches(z, at(day), day * 24 + wall)
  BY <1>1, <1>5, <1>6, LocalizeIs
<1>8. Local(z, at(day)) \in Int /\ Local(z, at(day)) >= day * 24 + wall
  BY <1>1, <1>5, <1>6, LocalizedLater
<1>9. \A d \in Allowed(r, today) : d > today /\ at(d) \in Int /\ at(d) > t => day <= d
  BY <1>1, <1>3, <1>4
<1> HIDE DEF at
<1>10. /\ day \in Allowed(r, today) /\ day \in Nat /\ day > today /\ v = at(day)
       /\ Reaches(z, v, day * 24 + wall)
       /\ Local(z, v) \in Int /\ Local(z, v) >= day * 24 + wall
       /\ \A d \in Allowed(r, today) : d > today /\ at(d) \in Int /\ at(d) > t => day <= d
  BY <1>3, <1>5, <1>7, <1>8, <1>9
<1> QED BY <1>1, <1>2, <1>10 DEF today, wall, fold, at

\* What the order of the instants says, and an instant between two others.
LEMMA PastAll ==
    ASSUME NEW d \in Int, NEW m \in Int, NEW t \in Int, NEW v \in Int, v > t, t >= d, t >= m
    PROVE  v > d /\ m - v < 24
OBVIOUS

LEMMA Between ==
    ASSUME NEW t \in Int, NEW v \in Int, NEW u \in t + 1 .. v - 1
    PROVE  u \in Int /\ u > t /\ u < v
OBVIOUS

\* The new due time lies past the trigger and on a later day.
LEMMA TriggerMovesOn ==
    ASSUME RecurrenceInv, Trigger
    PROVE  MovesOn /\ RecurrenceInv'
<1>1. /\ zone \in Zones /\ rule \in RuleNames /\ made \in Nat
      /\ due \in Int /\ Local(zone, due) >= 0
  BY DEF RecurrenceInv
<1>2. /\ due' \in Int /\ last' \in Int /\ last' >= due /\ last' >= made
      /\ IsNext(zone, rule, due, last', due')
  BY TriggerIs
<1> DEFINE today == Day(Local(zone, due))
           wall == Wall(Local(zone, due))
<1>3. /\ due' > last' /\ today \in Nat /\ wall \in 0 .. 23
      /\ \E day \in Nat : /\ day > today /\ Local(zone, due') \in Int
                          /\ Local(zone, due') >= day * 24 + wall
  BY <1>1, <1>2, NextDay
<1>4. PICK day \in Nat : /\ day > today /\ Local(zone, due') \in Int
                         /\ Local(zone, due') >= day * 24 + wall
  BY <1>3
<1> HIDE DEF today, wall
<1>5. Local(zone, due') \in Int /\ Local(zone, due') >= 0 /\ Local(zone, due') >= day * 24
  BY <1>3, <1>4
<1>6. Day(Local(zone, due')) >= day /\ Day(Local(zone, due')) \in Nat
  BY <1>5, DayAndWall
<1>7. Day(Local(zone, due')) > today
  BY <1>3, <1>4, <1>6
<1>8. zone' = zone /\ rule' = rule /\ made' = made
  BY DEF Trigger
<1>9. due' > due /\ made - due' < 24
  <2>1. due' \in Int /\ last' \in Int /\ due \in Int /\ made \in Int
    BY <1>1, <1>2
  <2>2. due' > last' /\ last' >= due /\ last' >= made
    BY <1>2, <1>3
  <2> QED BY <2>1, <2>2, PastAll
<1>10. MovesOn
  BY <1>3, <1>7, <1>9 DEF MovesOn, today
<1> QED BY <1>1, <1>2, <1>5, <1>8, <1>9, <1>10 DEF RecurrenceInv

\* An allowed day whose wall time lies between the trigger and the next due time would have
\* been taken; what the day's wall time was localized to lies before.
LEMMA TriggerSkipsNothing ==
    ASSUME RecurrenceInv, Trigger
    PROVE  NothingSkipped
<1> DEFINE today == Day(Local(zone, due))
           wall == Wall(Local(zone, due))
           fold == Fold(zone, due)
           at(d) == Localize(zone, d, wall, fold)
<1>1. /\ zone \in Zones /\ rule \in RuleNames /\ made \in Nat
      /\ due \in Int /\ Local(zone, due) >= 0
  BY DEF RecurrenceInv
<1>2. /\ due' \in Int /\ last' \in Int /\ last' >= due
      /\ IsNext(zone, rule, due, last', due')
  BY TriggerIs
<1>3. /\ today \in Nat /\ wall \in 0 .. 23 /\ fold \in {0, 1}
      /\ \E day \in Allowed(rule, today) :
            /\ day \in Nat /\ day > today
            /\ due' = at(day)
            /\ Reaches(zone, due', day * 24 + wall)
            /\ \A d \in Allowed(rule, today) :
                  d > today /\ at(d) \in Int /\ at(d) > last' => day <= d
  BY <1>1, <1>2, NextDay
<1>4. Local(zone, due) \in Int /\ Local(zone, due) = today * 24 + wall
  BY <1>1, LocalIs, DayAndWall
<1>14. due' \in Int /\ last' \in Int
  BY <1>2
<1>15. today \in Nat /\ wall \in 0 .. 23 /\ fold \in {0, 1}
  BY <1>3
<1> SUFFICES ASSUME NEW u \in last' + 1 .. due' - 1,
                    Day(Local(zone, u)) \in Allowed(rule, today),
                    Day(Local(zone, u)) > today,
                    Wall(Local(zone, u)) = wall,
                    Fold(zone, u) # 1
             PROVE  FALSE
  BY DEF NothingSkipped
<1> DEFINE d == Day(Local(zone, u))
<1>5. u \in Int /\ u > last' /\ u < due'
  BY <1>14, Between
<1>6. Fold(zone, u) = 0
  BY <1>1, <1>5, FoldIs
<1>7. d \in Nat /\ Local(zone, u) = d * 24 + wall
  <2>1. Local(zone, u) \in Int
    BY <1>1, <1>5, LocalIs
  <2>2. d \in Nat
    BY <1>1, <1>15, AllowedIs
  <2>3. Local(zone, u) >= 0
    BY <2>1, <2>2 DEF Day, Hours
  <2>4. Local(zone, u) = Day(Local(zone, u)) * 24 + Wall(Local(zone, u))
    BY <2>1, <2>3, DayAndWall
  <2> QED BY <2>2, <2>4
<1> HIDE DEF today, wall, fold
<1>8. PICK day \in Allowed(rule, today) :
            /\ day \in Nat /\ day > today
            /\ due' = at(day)
            /\ Reaches(zone, due', day * 24 + wall)
            /\ \A e \in Allowed(rule, today) :
                  e > today /\ at(e) \in Int /\ at(e) > last' => day <= e
  BY <1>3
<1>9. d \in Allowed(rule, today) /\ d > today
  BY DEF today
<1> HIDE DEF d
<1>10. /\ at(d) \in Int /\ at(d) >= u
       /\ fold = 0 => at(d) <= u
       /\ Local(zone, at(d)) = Local(zone, u)
  <2>1. zone \in Zones /\ u \in Int
    BY <1>1, <1>5
  <2>2. Chosen(zone, u, fold, at(d))
    BY <1>7, <1>15, <2>1, LocalizeExists
  <2> HIDE DEF at
  <2> QED BY <1>6, <2>2 DEF Chosen
<1>11. day <= d
  <2> HIDE DEF at
  <2>1. at(d) > last'
    BY <1>2, <1>5, <1>10
  <2> QED BY <1>8, <1>9, <1>10, <2>1
<1>12. CASE day = d
  <2>1. fold # 0
    <3> HIDE DEF at
    <3> QED BY <1>2, <1>5, <1>8, <1>10, <1>12
  <2>2. Fold(zone, due) = 1
    BY <1>3, <2>1 DEF fold
  <2>3. Local(zone, u) \in Int /\ Local(zone, u) - Local(zone, due) >= 24
    BY <1>3, <1>4, <1>7, <1>9
  <2>4. u \in Readings(zone, Local(zone, u)) /\ at(d) \in Readings(zone, Local(zone, u))
    <3> HIDE DEF at
    <3> QED BY <1>1, <1>5, <1>10, <2>3, ReadingsAre
  <2> HIDE DEF at
  <2>5. u = at(d)
    BY <1>1, <2>2, <2>3, <2>4, FoldOnce
  <2> QED BY <1>2, <1>5, <1>8, <1>12, <2>5
<1>13. CASE day < d
  <2> DEFINE n == day * 24 + wall
  <2>1. n \in Int /\ Local(zone, u) \in Int /\ Local(zone, u) - n >= 24
    BY <1>3, <1>7, <1>8, <1>13
  <2>2. Reaches(zone, due', n)
    BY <1>8
  <2> HIDE DEF n
  <2>3. PICK k \in Nat : /\ Local(zone, due') = n + k
                         /\ \A j \in Nat : j < k => Readings(zone, n + j) = {}
    BY <2>2 DEF Reaches
  <2>4. due' <= u
    BY <1>1, <1>2, <1>5, <2>1, <2>3, LaterDay
  <2> QED BY <1>2, <1>5, <2>4
<1> QED BY <1>7, <1>8, <1>11, <1>12, <1>13

\* The day taken is allowed, and the new due time lies on it.
LEMMA TriggerOnRightDay ==
    ASSUME GapsWithinADay, RecurrenceInv, Trigger
    PROVE  RightDay
<1> DEFINE today == Day(Local(zone, due))
           wall == Wall(Local(zone, due))
<1>1. zone \in Zones /\ rule \in RuleNames /\ due \in Int /\ Local(zone, due) >= 0
  BY DEF RecurrenceInv
<1>2. due' \in Int /\ last' \in Int /\ IsNext(zone, rule, due, last', due')
  BY TriggerIs
<1>3. /\ today \in Nat /\ wall \in 0 .. 23
      /\ \E day \in Allowed(rule, today) :
            day \in Nat /\ Reaches(zone, due', day * 24 + wall)
  BY <1>1, <1>2, NextDay
<1> HIDE DEF today, wall
<1>4. PICK day \in Allowed(rule, today) :
         day \in Nat /\ Reaches(zone, due', day * 24 + wall)
  BY <1>3
<1>5. Day(Local(zone, due')) = day
  BY <1>1, <1>3, <1>4, SameDay
<1>6. /\ rule = "weekdays" => Weekday(day) <= 4
      /\ rule = "weekly" => Weekday(day) = Weekday(today)
  BY <1>1, <1>3, AllowedIs
<1> QED BY <1>5, <1>6 DEF RightDay, today

\* A schedule starts in the future, and a trigger, late as it may be, moves it to the very
\* next occurrence, which no local day between them precedes: whatever the zone's change.
THEOREM OccurrencesInOrder ==
    RecurrenceSpec => /\ StartsInFuture
                      /\ [][MovesOn /\ NothingSkipped]_recurrenceVars
<1>1. RecurrenceInit => RecurrenceInv /\ StartsInFuture
  BY RecurrenceStarts
<1>2. ASSUME RecurrenceInv, [RecurrenceNext]_recurrenceVars
      PROVE  RecurrenceInv' /\ [MovesOn /\ NothingSkipped]_recurrenceVars
  <2>1. CASE Trigger
    BY <1>2, <2>1, TriggerMovesOn, TriggerSkipsNothing
  <2>2. CASE UNCHANGED recurrenceVars
    BY <1>2, <2>2 DEF recurrenceVars, RecurrenceInv, Local
  <2> QED BY <1>2, <2>1, <2>2 DEF RecurrenceNext
<1> QED BY <1>1, <1>2, PTL DEF RecurrenceSpec

\* Where no gap reaches into another day the occurrence also falls on a day of the rule: the
\* property of the run, for every such set of zones and for every rule, time and delay.
THEOREM OccurrencesAreAsIntended ==
    ASSUME GapsWithinADay
    PROVE  RecurrenceSpec => OccurrencesAsIntended
<1>1. RecurrenceInit => RecurrenceInv /\ StartsInFuture
  BY RecurrenceStarts
<1>2. ASSUME RecurrenceInv, [RecurrenceNext]_recurrenceVars
      PROVE  RecurrenceInv' /\ [MovesOn /\ NothingSkipped /\ RightDay]_recurrenceVars
  <2>1. CASE Trigger
    BY <1>2, <2>1, TriggerMovesOn, TriggerSkipsNothing, TriggerOnRightDay
  <2>2. CASE UNCHANGED recurrenceVars
    BY <1>2, <2>2 DEF recurrenceVars, RecurrenceInv, Local
  <2> QED BY <1>2, <2>1, <2>2 DEF RecurrenceNext
<1> QED BY <1>1, <1>2, PTL DEF RecurrenceSpec, OccurrencesAsIntended
=============================================================================
