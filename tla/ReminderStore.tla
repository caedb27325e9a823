--------------------------- MODULE ReminderStore ---------------------------
(***************************************************************************)
(* The reminder table of src/jarvis/tasks/storage.py                       *)
(* (SQLiteReminderRepository).  Every mutating method runs as one          *)
(* BEGIN IMMEDIATE transaction, so every method is one atomic step here,   *)
(* whichever process or worker thread calls it.  A call that raises rolls  *)
(* its transaction back and is a stuttering step.                          *)
(*                                                                         *)
(* Data the properties do not tell apart is abstract: a message is a value *)
(* of Messages (Norm is its case-folded form), a rule stands for the pair  *)
(* (recurrence, timezone) and Period[rule] for the distance between two of *)
(* its occurrences, 0 meaning ONCE.  Instants are natural numbers.         *)
(* Columns created_at and updated_at are left out.                         *)
(*                                                                         *)
(* Definitions marked "Variant" are wrong on purpose: each is a plausible  *)
(* slip in the definition that follows it, and some property below fails   *)
(* when the definition is replaced by it.                                  *)
(***************************************************************************)
EXTENDS Integers, FiniteSets

CONSTANTS
    Messages,   \* reminder texts
    Norm,       \* Norm[m]: the normalized_message stored with m
    Rules,      \* (recurrence, timezone) pairs
    Period,     \* Period[r]: distance between occurrences of r, 0 for ONCE
    Actions,    \* scheduled-action metadata, inert
    Keys,       \* idempotency keys
    Owners,     \* lease owners: one fresh uuid per Scheduler object
    DueTimes,   \* due times a caller may ask for
    Lease,      \* lease_seconds
    BatchSize,  \* batch_size
    MaxId,      \* BOUND: reminders ever created
    MaxClock,   \* BOUND: the clock
    None        \* SQL NULL

ASSUME StoreConstants ==
    /\ Norm \in [Messages -> Messages]
    /\ Period \in [Rules -> Nat]
    /\ DueTimes \subseteq Nat
    /\ Lease \in Nat \ {0}
    /\ BatchSize \in Nat \ {0}
    /\ MaxId \in Nat
    /\ MaxClock \in Nat
    /\ None \notin Nat
    /\ None \notin Owners
    /\ None \notin Keys

VARIABLES
    rows,       \* the table: id |-> row, for the ids in it
    lastId,     \* AUTOINCREMENT: the largest id ever given out
    clock       \* the UTC wall clock the callers read

storeVars == <<rows, lastId, clock>>

Statuses == {"scheduled", "cancelled", "triggered"}

Row == [message : Messages, due : Nat, rule : Rules, action : Actions,
        key : Keys \cup {None}, status : Statuses, last : Nat \cup {None},
        owner : Owners \cup {None}, expires : Nat \cup {None},
        started : Nat \cup {None}]

Ids == DOMAIN rows

StoreTypeOK ==
    /\ lastId \in Nat
    /\ clock \in Nat
    /\ Ids \subseteq 1 .. lastId
    /\ rows \in [Ids -> Row]

StoreInit ==
    /\ rows = [i \in {} |-> None]
    /\ lastId = 0
    /\ clock = 0

-----------------------------------------------------------------------------
(* Rows and the partial unique index over the scheduled ones.              *)

NewRow(m, d, r, a, k) ==
    [message |-> m, due |-> d, rule |-> r, action |-> a, key |-> k,
     status |-> "scheduled", last |-> None,
     owner |-> None, expires |-> None, started |-> None]

Unclaimed(row) ==
    [row EXCEPT !.owner = None, !.expires = None, !.started = None]

Scheduled(i) == i \in Ids /\ rows[i].status = "scheduled"

Started(i) == i \in Ids /\ rows[i].started # None

\* What the unique index idx_reminders_active_identity compares.
Identity(row) == <<Norm[row.message], row.due, row.rule>>

\* Storing `row` under id i would violate the unique index.
Clash(i, row) ==
    \E j \in Ids \ {i} : Scheduled(j) /\ Identity(rows[j]) = Identity(row)

-----------------------------------------------------------------------------
(* create                                                                  *)

Keyed(req) == {i \in Ids : req.key # None /\ rows[i].key = req.key}

Twins(req) == {i \in Ids : Scheduled(i) /\ Identity(rows[i]) = Identity(req)}

\* The request is answered with a row that is already there.
AnswersExisting(req) ==
    IF Keyed(req) # {}
    THEN \A i \in Keyed(req) :
            /\ rows[i].message = req.message
            /\ rows[i].due = req.due
            /\ rows[i].rule = req.rule
            /\ rows[i].action = req.action
    ELSE /\ Twins(req) # {}
         /\ \A i \in Twins(req) : rows[i].action = req.action

\* Otherwise a taken key or an active twin is a conflict, and nothing is stored.
Create(req) ==
    /\ Keyed(req) = {}
    /\ Twins(req) = {}
    /\ lastId < MaxId
    /\ lastId' = lastId + 1
    /\ rows' = [i \in Ids \cup {lastId + 1} |->
                   IF i = lastId + 1 THEN req ELSE rows[i]]
    /\ UNCHANGED clock

-----------------------------------------------------------------------------
(* The lease protocol: claim_due, begin_delivery, release_claim.           *)

\* Variant: a running lease does not protect the claim.
ClaimableAlways(i, now) ==
    /\ Scheduled(i)
    /\ rows[i].due <= now
    /\ rows[i].started = None

\* Variant: an expired lease is not recovered.
ClaimableOnce(i, now) ==
    /\ Scheduled(i)
    /\ rows[i].due <= now
    /\ rows[i].started = None
    /\ rows[i].expires = None

Claimable(i, now) ==
    /\ Scheduled(i)
    /\ rows[i].due <= now
    /\ rows[i].started = None
    /\ rows[i].expires = None \/ rows[i].expires <= now

\* ORDER BY due_at, id
Before(i, j) ==
    \/ rows[i].due < rows[j].due
    \/ rows[i].due = rows[j].due /\ i < j

\* The first BatchSize claimable rows.
Batch(now) ==
    LET due == {i \in Ids : Claimable(i, now)}
    IN  {i \in due : Cardinality({j \in due : Before(j, i)}) < BatchSize}

ClaimDue(o, now, until) ==
    /\ until > now
    /\ rows' = [i \in Ids |->
                   IF i \in Batch(now)
                   THEN [rows[i] EXCEPT !.owner = o, !.expires = until]
                   ELSE rows[i]]
    /\ UNCHANGED <<lastId, clock>>

\* Variant: any lease will do, not only the caller's own.
MayBeginUnowned(i, o, expected, t) ==
    /\ Scheduled(i)
    /\ rows[i].due = expected
    /\ rows[i].expires # None
    /\ rows[i].expires > t
    /\ rows[i].started = None

MayBegin(i, o, expected, t) ==
    /\ Scheduled(i)
    /\ rows[i].due = expected
    /\ rows[i].owner = o
    /\ rows[i].expires # None
    /\ rows[i].expires > t
    /\ rows[i].started = None

BeginDelivery(i, o, expected, t) ==
    /\ MayBegin(i, o, expected, t)
    /\ rows' = [rows EXCEPT ![i].started = t]
    /\ UNCHANGED <<lastId, clock>>

ReleaseClaim(i, o, expected) ==
    /\ Scheduled(i)
    /\ rows[i].due = expected
    /\ rows[i].owner = o
    /\ rows[i].started = None
    /\ rows' = [rows EXCEPT ![i].owner = None, ![i].expires = None]
    /\ UNCHANGED <<lastId, clock>>

-----------------------------------------------------------------------------
(* _mark_triggered: complete an occurrence, advancing a recurring row.     *)

\* Variant: the difference is taken the wrong way round.
NextDueBackwards(d, r, after) == d + Period[r] * ((d - after) \div Period[r] + 1)

\* next_occurrence(due, rule, after): the first occurrence after `after`.
NextDue(d, r, after) == d + Period[r] * ((after - d) \div Period[r] + 1)

\* triggered >= due where it is used, so after = max(due, triggered) = t.
Advanced(row, t) ==
    IF Period[row.rule] = 0
    THEN [Unclaimed(row) EXCEPT !.status = "triggered", !.last = t]
    ELSE [Unclaimed(row) EXCEPT !.status = "scheduled", !.last = t,
                                !.due = NextDue(row.due, row.rule, t)]

\* Variant: the status is not looked at.
MayTriggerAnyStatus(i, o, expected, t) ==
    /\ i \in Ids
    /\ expected = None \/ rows[i].due = expected
    /\ t >= rows[i].due
    /\ rows[i].owner = o
    /\ o # None => rows[i].started # None
    /\ Period[rows[i].rule] # 0 => ~Clash(i, Advanced(rows[i], t))

\* o is None for mark_triggered, the lease owner for mark_claim_triggered;
\* expected is None when mark_triggered names no occurrence.
MayTrigger(i, o, expected, t) ==
    /\ Scheduled(i)
    /\ expected = None \/ rows[i].due = expected
    /\ t >= rows[i].due
    /\ rows[i].owner = o
    /\ o # None => rows[i].started # None
    /\ Period[rows[i].rule] # 0 => ~Clash(i, Advanced(rows[i], t))

MarkTriggered(i, o, expected, t) ==
    /\ MayTrigger(i, o, expected, t)
    /\ rows' = [rows EXCEPT ![i] = Advanced(rows[i], t)]
    /\ UNCHANGED <<lastId, clock>>

-----------------------------------------------------------------------------
(* The user's operations: cancel, edit_scheduled, delete.                  *)

\* Variant: the claim columns survive.
CancelKeepingClaim(i) ==
    /\ Scheduled(i)
    /\ ~Started(i)
    /\ rows' = [rows EXCEPT ![i].status = "cancelled"]
    /\ UNCHANGED <<lastId, clock>>

\* Variant: a started delivery is cancelled.
CancelStarted(i) ==
    /\ Scheduled(i)
    /\ rows' = [rows EXCEPT ![i] = [Unclaimed(@) EXCEPT !.status = "cancelled"]]
    /\ UNCHANGED <<lastId, clock>>

Cancel(i) ==
    /\ Scheduled(i)
    /\ ~Started(i)
    /\ rows' = [rows EXCEPT ![i] = [Unclaimed(@) EXCEPT !.status = "cancelled"]]
    /\ UNCHANGED <<lastId, clock>>

\* Variant: an edit does not ask whether the delivery has started.
EditStarted(i, m, d, expectedMessage, expectedDue) ==
    /\ Scheduled(i)
    /\ rows[i].message = expectedMessage
    /\ rows[i].due = expectedDue
    /\ LET row == [Unclaimed(rows[i]) EXCEPT !.message = m, !.due = d]
       IN  ~Clash(i, row) /\ rows' = [rows EXCEPT ![i] = row]
    /\ UNCHANGED <<lastId, clock>>

Edited(row, m, d) == [Unclaimed(row) EXCEPT !.message = m, !.due = d]

EditScheduled(i, m, d, expectedMessage, expectedDue) ==
    /\ Scheduled(i)
    /\ ~Started(i)
    /\ rows[i].message = expectedMessage
    /\ rows[i].due = expectedDue
    /\ ~Clash(i, Edited(rows[i], m, d))
    /\ rows' = [rows EXCEPT ![i] = Edited(rows[i], m, d)]
    /\ UNCHANGED <<lastId, clock>>

\* Variant: a started delivery is deleted.
DeleteStarted(i) ==
    /\ i \in Ids
    /\ rows' = [j \in Ids \ {i} |-> rows[j]]
    /\ UNCHANGED <<lastId, clock>>

Delete(i) ==
    /\ i \in Ids
    /\ ~Started(i)
    /\ rows' = [j \in Ids \ {i} |-> rows[j]]
    /\ UNCHANGED <<lastId, clock>>

-----------------------------------------------------------------------------
(* The table on its own: any caller, any method, any order.  The instants  *)
(* passed in were read off the clock earlier, so they may be stale.        *)

Tick ==
    /\ clock < MaxClock
    /\ clock' = clock + 1
    /\ UNCHANGED <<rows, lastId>>

CreateAny ==
    \E m \in Messages, d \in DueTimes, r \in Rules, a \in Actions,
       k \in Keys \cup {None} : Create(NewRow(m, d, r, a, k))

ClaimAny ==
    \E o \in Owners, now \in 0 .. clock : ClaimDue(o, now, now + Lease)

BeginAny ==
    \E i \in Ids, o \in Owners, t \in 0 .. clock :
        BeginDelivery(i, o, rows[i].due, t)

ReleaseAny ==
    \E i \in Ids, o \in Owners : ReleaseClaim(i, o, rows[i].due)

MarkAny ==
    \E i \in Ids, o \in Owners \cup {None}, t \in 0 .. clock :
        MarkTriggered(i, o, rows[i].due, t)

EditAny ==
    \E i \in Ids, m \in Messages, d \in DueTimes :
        EditScheduled(i, m, d, rows[i].message, rows[i].due)

CancelAny == \E i \in Ids : Cancel(i)

DeleteAny == \E i \in Ids : Delete(i)

StoreNext ==
    \/ Tick
    \/ CreateAny
    \/ ClaimAny
    \/ BeginAny
    \/ ReleaseAny
    \/ MarkAny
    \/ EditAny
    \/ CancelAny
    \/ DeleteAny

StoreSpec == StoreInit /\ [][StoreNext]_storeVars

-----------------------------------------------------------------------------
(* Properties.                                                             *)

\* The three claim columns move together through all the methods that write
\* them: a row has an owner exactly when it has a lease end, only a scheduled
\* row is claimed, only a claimed row is started, and it was started inside
\* its lease.  claim_due, begin_delivery and _mark_triggered each test only
\* some of these columns and rely on the rest.
ClaimConsistent ==
    \A i \in Ids :
        /\ rows[i].owner = None <=> rows[i].expires = None
        /\ rows[i].owner # None => rows[i].status = "scheduled"
        /\ rows[i].started # None =>
              /\ rows[i].owner # None
              /\ rows[i].started < rows[i].expires

\* After begin_delivery the row belongs to its lease owner: no create, edit,
\* cancel, delete, release or other claim changes it.  The only step it can
\* take is the completion of that very occurrence.
FreezeStarted ==
    \A i \in Ids :
        rows[i].started # None =>
            \/ i \in Ids' /\ rows'[i] = rows[i]
            \/ \E t \in 0 .. clock :
                  i \in Ids' /\ t >= rows[i].due /\ rows'[i] = Advanced(rows[i], t)

StartedIsFrozen == [][FreezeStarted]_storeVars

\* A claim is never taken from its owner by another scheduler while the lease
\* is running, however stale the instants the callers pass.
RespectLease ==
    \A i \in Ids \cap Ids' :
        /\ rows[i].owner # None
        /\ rows'[i].owner \notin {None, rows[i].owner}
        => rows[i].started = None /\ rows[i].expires <= clock

LeaseRespected == [][RespectLease]_storeVars

\* Ids are given out once (AUTOINCREMENT): a reminder that was deleted never
\* comes back, and a cancelled or triggered one never becomes active again,
\* so a scheduler holding an old id cannot reach a newer reminder through it.
ReviveNone == \A i \in Ids' : Scheduled(i)' => Scheduled(i) \/ i > lastId

NoResurrection == [][ReviveNone]_storeVars
=============================================================================
