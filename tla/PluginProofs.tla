---------------------------- MODULE PluginProofs ----------------------------
(***************************************************************************)
(* What the plug-in lifecycle keeps, for any plug-ins, whatever they stage *)
(* and whatever is called: the types, that nothing a plug-in has in a      *)
(* registry is forgotten, that the status is true between two calls, that  *)
(* hooks come in pairs, and that CapabilityPromise is implemented.         *)
(***************************************************************************)
EXTENDS PluginManager, SequenceTheorems, NaturalsInduction, WellFoundedInduction, TLAPS

----------------------------------------------------------------------------
(* Sequences.                                                              *)

\* Every set of numbers that is not empty has a least element.
LEMMA LeastNumber ==
  ASSUME NEW T, T \subseteq Nat, T # {}
  PROVE  \E x \in T : \A y \in T : x <= y
<1>1. PICK x \in T : \A y \in T : <<y, x>> \notin OpToRel(<, Nat)
  BY NatLessThanWellFounded, WFMin, Zenon
<1>2. \A y \in T : y \in Nat /\ x \in Nat /\ <<y, x>> \notin {ss \in Nat \X Nat : ss[1] < ss[2]}
  BY <1>1 DEF OpToRel
<1>3. \A y \in T : ~(y < x)
  BY <1>2
<1> QED  BY <1>2, <1>3

\* FirstOf chooses an element of S, if the sequence has one.
LEMMA FirstOfIn ==
  ASSUME NEW A, NEW order \in Seq(A), NEW S, S \cap Range(order) # {}
  PROVE  FirstOf(order, S) \in S
<1> DEFINE T == {i \in DOMAIN order : order[i] \in S}
           Fits(i) == order[i] \in S /\ \A j \in 1 .. (i - 1) : order[j] \notin S
<1>1. DOMAIN order = 1 .. Len(order)
  BY LenProperties
<1>2. T # {} /\ T \subseteq Nat
  BY <1>1 DEF Range
<1>3. PICK x \in T : \A y \in T : x <= y
  BY <1>2, LeastNumber
<1>4. x \in DOMAIN order /\ Fits(x)
  BY <1>1, <1>3
<1>5. \E i \in DOMAIN order : Fits(i)
  BY <1>4
<1> HIDE DEF T
<1>6. /\ (CHOOSE i \in DOMAIN order : Fits(i)) \in DOMAIN order
      /\ Fits(CHOOSE i \in DOMAIN order : Fits(i))
  BY <1>5
<1> QED  BY <1>6 DEF FirstOf

\* So does LastOf.
LEMMA LastOfIn ==
  ASSUME NEW A, NEW order \in Seq(A), NEW S, S \cap Range(order) # {}
  PROVE  LastOf(order, S) \in S
<1>1. DOMAIN order = 1 .. Len(order) /\ Len(order) \in Nat
  BY LenProperties
<1>2. \A i \in 1 .. Len(order) : order[i] \in A
  BY ElementOfSeq
<1>3. Reverse(order) \in [1 .. Len(order) -> A]
  BY <1>1, <1>2 DEF Reverse
<1>4. Reverse(order) \in Seq(A)
  BY <1>1, <1>3, IsASeq
<1>5. PICK i \in 1 .. Len(order) : order[i] \in S
  BY <1>1 DEF Range
<1>6. /\ Len(order) - i + 1 \in 1 .. Len(order)
      /\ Len(order) - (Len(order) - i + 1) + 1 = i
  BY <1>1, <1>5
<1>7. Reverse(order)[Len(order) - i + 1] = order[i]
  BY <1>1, <1>6 DEF Reverse
<1>8. DOMAIN Reverse(order) = 1 .. Len(order)
  BY <1>3
<1>9. order[i] \in Range(Reverse(order))
  BY <1>6, <1>7, <1>8 DEF Range
<1> QED  BY <1>4, <1>5, <1>9, FirstOfIn DEF LastOf

\* RemoveAt leaves the elements before and behind place i, in order.
LEMMA RemovedAt ==
  ASSUME NEW A, NEW s \in Seq(A), NEW i \in DOMAIN s
  PROVE  /\ RemoveAt(s, i) \in Seq(A)
         /\ Len(RemoveAt(s, i)) = Len(s) - 1
         /\ \A k \in 1 .. Len(s) - 1 :
               RemoveAt(s, i)[k] = IF k < i THEN s[k] ELSE s[k + 1]
<1>1. Len(s) \in Nat /\ i \in 1 .. Len(s)
  BY LenProperties
<1>2. \A k \in 1 .. Len(s) : s[k] \in A
  BY ElementOfSeq
<1> DEFINE front == SubSeq(s, 1, i - 1)
           back == SubSeq(s, i + 1, Len(s))
<1>3. /\ front \in Seq(A) /\ Len(front) = i - 1
      /\ \A k \in 1 .. i - 1 : front[k] = s[k]
  <2>1. 1 \in Int /\ i - 1 \in Int /\ \A k \in 1 .. i - 1 : s[k] \in A
    BY <1>1, <1>2
  <2> QED  BY <1>1, <2>1, SubSeqProperties
<1>4. /\ back \in Seq(A) /\ Len(back) = Len(s) - i
      /\ \A k \in 1 .. Len(s) - i : back[k] = s[i + k]
  <2>1. i + 1 \in Int /\ Len(s) \in Int /\ \A k \in i + 1 .. Len(s) : s[k] \in A
    BY <1>1, <1>2
  <2>2. /\ back \in Seq(A)
        /\ Len(back) = IF i + 1 <= Len(s) THEN Len(s) - (i + 1) + 1 ELSE 0
        /\ \A k \in 1 .. Len(s) - (i + 1) + 1 : back[k] = s[i + 1 + k - 1]
    BY <2>1, SubSeqProperties
  <2>3. Len(s) - (i + 1) + 1 = Len(s) - i
    BY <1>1
  <2>4. \A k \in 1 .. Len(s) - i : i + 1 + k - 1 = i + k
    BY <1>1
  <2> QED  BY <1>1, <2>2, <2>3, <2>4
<1> HIDE DEF front, back
<1>5. /\ front \o back \in Seq(A)
      /\ Len(front \o back) = Len(front) + Len(back)
      /\ \A k \in 1 .. Len(front) + Len(back) :
            (front \o back)[k] = IF k <= Len(front) THEN front[k] ELSE back[k - Len(front)]
  BY <1>3, <1>4, ConcatProperties
<1>6. Len(front \o back) = Len(s) - 1
  BY <1>1, <1>3, <1>4, <1>5
<1>8. ASSUME NEW k \in 1 .. Len(s) - 1
      PROVE  (front \o back)[k] = IF k < i THEN s[k] ELSE s[k + 1]
  <2>1. k \in 1 .. Len(front) + Len(back)
    BY <1>1, <1>3, <1>4
  <2>2. (front \o back)[k] = IF k <= Len(front) THEN front[k] ELSE back[k - Len(front)]
    BY <1>5, <2>1
  <2>3. CASE k < i
    <3>1. k <= Len(front) /\ k \in 1 .. i - 1
      BY <1>1, <1>3, <2>3
    <3> QED  BY <1>3, <2>2, <2>3, <3>1
  <2>4. CASE ~(k < i)
    <3> DEFINE j == k - Len(front)
    <3>1. ~(k <= Len(front)) /\ j \in 1 .. Len(s) - i /\ i + j = k + 1
      BY <1>1, <1>3, <2>4
    <3>2. back[j] = s[k + 1]
      BY <1>4, <3>1
    <3> QED  BY <2>2, <2>4, <3>1, <3>2
  <2> QED  BY <2>3, <2>4
<1>7. RemoveAt(s, i) = front \o back
  BY DEF RemoveAt, front, back
<1> QED  BY <1>5, <1>6, <1>7, <1>8

----------------------------------------------------------------------------
(* The inductive invariant.                                                *)

\* A load or a removal of p is under way.
InHand(p) ==
    /\ job # Idle
    /\ job.id = p
    /\ job.at \in {"initialize", "register", "commit", "remove", "close", "hook"}

Removing == {"remove", "close", "hook"}
Loading == {"initialize", "register", "commit"}

QueueFits ==
    \A i \in DOMAIN queue :
        queue[i].op \in {"enable", "disable"} => queue[i].id \in Plugins

\* Which call stands where, and why it removes handles.
PlaceFits ==
    job # Idle =>
        /\ job.at = "next" => job.op \in {"load_enabled", "shutdown"}
        /\ job.at # "next" => job.id \in Plugins
        /\ job.at \in Loading \cup {"emit_loaded"} =>
              /\ job.op \in {"enable", "load_enabled"}
              /\ job.why = "none"
              /\ job.op = "load_enabled" => job.id \in enabled
        /\ job.at \in Removing =>
              /\ job.why # "none"
              /\ job.op = "shutdown" <=> job.why = "shutdown"
              /\ job.why = "disable" => job.id \notin enabled
        /\ job.at = "hook" => job.why # "rollback"
        /\ job.op = "shutdown" => job.at \in Removing \cup {"next"}

\* The record of a plug-in that is being loaded, or whose load failed, or
\* whose shutdown hook runs.
LoadFits(p) ==
    job # Idle /\ job.id = p =>
        /\ job.at \in Loading => ~rec[p].loaded /\ rec[p].active /\ rec[p].pending
        /\ job.at \in Loading \/ (job.at \in Removing /\ job.why \in {"failed", "rollback"}) =>
              rec[p].inspected /\ rec[p].status \in {"discovered", "disabled"}
        /\ job.at = "emit_loaded" => rec[p].loaded
        /\ job.at = "hook" => rec[p].pending /\ ~rec[p].active
        /\ job.at \in Removing /\ job.why = "unsaved" => rec[p].status = "failed"

\* What a removal has yet to remove and what it could not is what p still has.
RemovalFits(p) ==
    job # Idle /\ job.id = p =>
        /\ job.at = "remove" => job.kept = {} /\ job.left = Held(p)
        /\ job.at = "close" =>
              /\ job.left # {}
              /\ job.left \cap job.kept = {}
              /\ job.left \cup job.kept = Held(p)
        /\ job.at = "hook" => job.kept = Held(p) /\ rec[p].handles = Held(p)
        /\ job.at \in {"close", "hook"} => Held(p) \subseteq IntegrationNames
        /\ job.at \in {"remove", "close"} =>
              IF job.why = "rollback" THEN rec[p].handles = {} ELSE Held(p) \subseteq rec[p].handles

\* A plug-in has only what it stages, and its record says what it has: of a
\* loaded one all, of any other some integrations that could not be closed.
HoldingFits(p) ==
    /\ Held(p) \subseteq StagedSet(p)
    /\ ~TakingDown(p) =>
          /\ rec[p].handles = Held(p)
          /\ rec[p].loaded => Held(p) = StagedSet(p)
          /\ ~rec[p].loaded => Held(p) \subseteq IntegrationNames

\* The record agrees with itself, and with the repository between two calls.
RecordFits(p) ==
    LET r == rec[p] IN
    /\ ~r.inspected => Untouched(r)
    /\ r.status \in {"loaded", "enabled"} => r.loaded
    /\ r.loaded => r.pending
    /\ r.loaded /\ ~TakingDown(p) => r.active
    /\ ~InHand(p) =>
          /\ r.status = "enabled" => p \in enabled
          /\ r.status = "disabled" /\ p \notin muffled => Untouched(r) /\ p \notin enabled
          /\ ~r.loaded /\ ~Untouched(r) => r.status = "failed" \/ p \in muffled

Fits(p) == LoadFits(p) /\ RemovalFits(p) /\ HoldingFits(p) /\ RecordFits(p)

HostKeepsItsNames == \A n \in Names : holder[n] = Host => n \in HostNames

ManagerInv ==
    /\ TypeOK
    /\ QueueFits
    /\ PlaceFits
    /\ HostKeepsItsNames
    /\ \A p \in Plugins : Fits(p)

\* The constants as the proofs use them.
LEMMA Constants ==
  /\ \A p \in Plugins : StagedSet(p) \subseteq Names /\ Staged[p] \in Seq(Names)
  /\ Order \in Seq(STRING) /\ Plugins = Range(Order)
  /\ \A p, q \in Plugins : p # q => StagedSet(p) \cap StagedSet(q) \cap Subscriptions = {}
  /\ None \notin Plugins /\ Host \notin Plugins /\ Host # None
  /\ Subscriptions \subseteq Names /\ IntegrationNames \subseteq Names
  /\ Subscriptions \cap IntegrationNames = {}
  /\ HostNames \cap Subscriptions = {}
  /\ \A p \in Plugins : MetaName[p] \in MetaNames
<1>1. ASSUME NEW p \in Plugins
      PROVE  StagedSet(p) \subseteq Names /\ Staged[p] \in Seq(Names)
  <2>1. Staged[p] \in Seq(Names)
    BY ManagerConstants
  <2>2. DOMAIN Staged[p] = 1 .. Len(Staged[p])
    BY <2>1, LenProperties
  <2> QED  BY <2>1, <2>2, ElementOfSeq DEF StagedSet, Range
<1>2. Plugins = Range(Order)
  BY DEF Plugins
<1> QED  BY <1>1, <1>2, ManagerConstants, RegistryConstants

\* Where nothing of a plug-in changes, what was said of it stays true.
LEMMA OthersFit ==
  ASSUME NEW p \in Plugins, Fits(p), ~InHand(p), ~InHand(p)',
         ~(job # Idle /\ job.id = p /\ job.at = "emit_loaded")',
         rec'[p] = rec[p], Held(p)' = Held(p),
         p \in muffled <=> p \in muffled', p \in enabled <=> p \in enabled'
  PROVE  Fits(p)'
  BY DEF Fits, LoadFits, RemovalFits, HoldingFits, RecordFits, InHand, TakingDown, Removing,
         Loading, Untouched

\* The owners once names are registered.
LEMMA RegisteringHolds ==
  ASSUME TypeOK, NEW q \in Plugins, NEW S \in SUBSET Names, holder' = Registering(q, S)
  PROVE  /\ holder' \in [Names -> Plugins \cup {Host, None}]
         /\ Held(q)' = Held(q) \cup S
         /\ \A p \in Plugins \ {q} : Held(p)' = Held(p) \ S
         /\ HostKeepsItsNames => HostKeepsItsNames'
  BY Constants DEF TypeOK, Registering, Held, HostKeepsItsNames

\* The owners once names are given up.
LEMMA UnregisteringHolds ==
  ASSUME TypeOK, NEW S \in SUBSET Names, holder' = Unregistering(S)
  PROVE  /\ holder' \in [Names -> Plugins \cup {Host, None}]
         /\ \A p \in Plugins : Held(p)' = Held(p) \ S
         /\ HostKeepsItsNames => HostKeepsItsNames'
  BY Constants DEF TypeOK, Unregistering, Held, HostKeepsItsNames

\* A step that concerns the plug-in q: what is left to show.
LEMMA OneConcerned ==
  ASSUME ManagerInv, NEW q \in Plugins,
         \A p \in Plugins : InHand(p) => p = q,
         (job # Idle => job.id = q \/ job.at = "next")',
         \A p \in Plugins \ {q} : rec'[p] = rec[p] /\ Held(p)' = Held(p),
         \A p \in Plugins \ {q} : p \in muffled <=> p \in muffled',
         \A p \in Plugins \ {q} : p \in enabled <=> p \in enabled',
         TypeOK', QueueFits', PlaceFits', HostKeepsItsNames', Fits(q)'
  PROVE  ManagerInv'
<1> SUFFICES ASSUME NEW p \in Plugins \ {q}
             PROVE  Fits(p)'
  BY DEF ManagerInv
<1>1. Fits(p) /\ ~InHand(p)
  BY DEF ManagerInv
<1>2. ~InHand(p)' /\ ~(job # Idle /\ job.id = p /\ job.at = "emit_loaded")'
  BY DEF InHand
<1> QED  BY <1>1, <1>2, OthersFit

\* A step that concerns no plug-in.
LEMMA NobodyConcerned ==
  ASSUME ManagerInv, \A p \in Plugins : ~InHand(p),
         (job # Idle => job.at \notin Loading \cup Removing \cup {"emit_loaded"})',
         UNCHANGED <<rec, holder, muffled, enabled>>,
         TypeOK', QueueFits', PlaceFits'
  PROVE  ManagerInv'
<1> USE DEF ManagerInv
<1>1. HostKeepsItsNames'
  BY DEF HostKeepsItsNames
<1>2. ASSUME NEW p \in Plugins
      PROVE  Fits(p)'
  <2>1. Fits(p) /\ ~InHand(p) /\ Held(p)' = Held(p)
    BY DEF Held
  <2>2. ~InHand(p)' /\ ~(job # Idle /\ job.id = p /\ job.at = "emit_loaded")'
    BY DEF InHand, Loading, Removing
  <2> QED  BY <2>1, <2>2, OthersFit
<1> QED  BY <1>1, <1>2

\* The invariant does not mention the counters and the sweep.
LEMMA Elsewhere ==
  ASSUME ManagerInv, UNCHANGED <<rec, holder, muffled, enabled, job>>, TypeOK', QueueFits'
  PROVE  ManagerInv'
<1>1. PlaceFits' /\ HostKeepsItsNames'
  BY DEF ManagerInv, PlaceFits, HostKeepsItsNames
<1>2. ASSUME NEW p \in Plugins
      PROVE  Fits(p)'
  <2>1. Fits(p)
    BY DEF ManagerInv
  <2> QED  BY <2>1 DEF Fits, LoadFits, RemovalFits, HoldingFits, RecordFits, InHand,
              TakingDown, Held, Untouched
<1> QED  BY <1>1, <1>2 DEF ManagerInv

\* Only one plug-in is in hand.
LEMMA InHandIsTheJobs ==
  /\ \A p \in Plugins : InHand(p) => p = job.id
  /\ job = Idle \/ job.at \notin Loading \cup Removing => \A p \in Plugins : ~InHand(p)
  BY DEF InHand, Loading, Removing

\* A call that holds the lock.
LEMMA JobTyped ==
  ASSUME TypeOK, job # Idle
  PROVE  job \in Job
  BY DEF TypeOK

\* What Working makes.
LEMMA WorkingTyped ==
  ASSUME NEW op \in Ops, NEW p \in Plugins \cup {None}, NEW place \in Places,
         NEW todo \in SUBSET Plugins
  PROVE  LET j == Working(op, p, place, todo) IN
         /\ j \in Job /\ j # Idle
         /\ j.op = op /\ j.id = p /\ j.at = place /\ j.todo = todo /\ j.why = "none"
         /\ ~j.cancelled
  BY DEF Working, Job, Idle, Ops, Reasons

\* What Removal makes.
LEMMA RemovalTyped ==
  ASSUME NEW j \in Job, NEW why \in Reasons, NEW S \in SUBSET Names
  PROVE  LET k == Removal(j, why, S) IN
         /\ k \in Job /\ k # Idle
         /\ k.op = j.op /\ k.id = j.id /\ k.at = "remove" /\ k.todo = j.todo /\ k.why = why
         /\ k.left = S /\ k.kept = {}
         /\ k.cancelled = j.cancelled
  BY DEF Removal, Job, Idle, Ops, Places

\* A call takes its place in the queue.
LEMMA CallKeeps ==
  ASSUME ManagerInv, NEW op \in Ops, NEW p \in Plugins, Call(op, p)
  PROVE  ManagerInv'
<1> DEFINE entry == [op |-> op, id |-> p]
           Entries == [op : Ops, id : Plugins \cup {None}]
<1>1. queue \in Seq(Entries) /\ entry \in Entries /\ Len(queue) \in Nat
  BY LenProperties DEF ManagerInv, TypeOK
<1>2. /\ queue' \in Seq(Entries) /\ Len(queue') = Len(queue) + 1
      /\ \A i \in 1 .. Len(queue) : queue'[i] = queue[i]
      /\ queue'[Len(queue) + 1] = entry
  BY <1>1, AppendProperties DEF Call
<1>3. DOMAIN queue = 1 .. Len(queue) /\ DOMAIN queue' = 1 .. Len(queue')
  BY <1>1, <1>2, LenProperties
<1>4. TypeOK'
  BY <1>2, ManagerConstants DEF ManagerInv, TypeOK, Call, registryVars
<1>5. QueueFits'
  BY <1>1, <1>2, <1>3 DEF ManagerInv, QueueFits
<1> QED  BY <1>4, <1>5, Elsewhere DEF Call, registryVars

\* A call leaves the queue.
LEMMA GiveUpKeeps ==
  ASSUME ManagerInv, NEW i \in DOMAIN queue, GiveUp(i)
  PROVE  ManagerInv'
<1> DEFINE Entries == [op : Ops, id : Plugins \cup {None}]
<1>1. queue \in Seq(Entries) /\ Len(queue) \in Nat /\ DOMAIN queue = 1 .. Len(queue)
  BY LenProperties DEF ManagerInv, TypeOK
<1>2. /\ queue' \in Seq(Entries) /\ Len(queue') = Len(queue) - 1
      /\ \A k \in 1 .. Len(queue) - 1 : queue'[k] = IF k < i THEN queue[k] ELSE queue[k + 1]
  BY <1>1, RemovedAt DEF GiveUp
<1>3. DOMAIN queue' = 1 .. Len(queue')
  BY <1>2, LenProperties
<1>4. TypeOK'
  BY <1>2 DEF ManagerInv, TypeOK, GiveUp, registryVars
<1>5. QueueFits'
  <2> SUFFICES ASSUME NEW k \in 1 .. Len(queue) - 1, queue'[k].op \in {"enable", "disable"}
               PROVE  queue'[k].id \in Plugins
    BY <1>2, <1>3 DEF QueueFits
  <2>1. k \in DOMAIN queue /\ k + 1 \in DOMAIN queue
    BY <1>1
  <2>2. queue'[k] = queue[k] \/ queue'[k] = queue[k + 1]
    BY <1>2
  <2> QED  BY <2>1, <2>2 DEF ManagerInv, QueueFits
<1> QED  BY <1>4, <1>5, Elsewhere DEF GiveUp, registryVars

\* The application begins to close.
LEMMA AcloseKeeps ==
  ASSUME ManagerInv, Aclose
  PROVE  ManagerInv'
<1> DEFINE entry == [op |-> "shutdown", id |-> None]
           Entries == [op : Ops, id : Plugins \cup {None}]
<1>1. queue \in Seq(Entries) /\ entry \in Entries /\ Len(queue) \in Nat
  BY LenProperties DEF ManagerInv, TypeOK, Ops
<1>2. /\ queue' \in Seq(Entries) /\ Len(queue') = Len(queue) + 1
      /\ \A i \in 1 .. Len(queue) : queue'[i] = queue[i]
      /\ queue'[Len(queue) + 1] = entry
  BY <1>1, AppendProperties DEF Aclose
<1>3. DOMAIN queue = 1 .. Len(queue) /\ DOMAIN queue' = 1 .. Len(queue')
  BY <1>1, <1>2, LenProperties
<1>4. sweep' \in Sweep
  BY DEF Aclose, BeginSweep, Sweep
<1>5. TypeOK'
  BY <1>2, <1>4 DEF ManagerInv, TypeOK, Aclose, BeginSweep
<1>6. QueueFits'
  BY <1>1, <1>2, <1>3 DEF ManagerInv, QueueFits
<1> QED  BY <1>5, <1>6, Elsewhere DEF Aclose, BeginSweep

\* The sweep closes integrations beside the manager.
LEMMA SweepingKeeps ==
  ASSUME ManagerInv, Sweeping
  PROVE  ManagerInv'
<1>1. sweep \in Sweep /\ closed \in BOOLEAN
  BY DEF ManagerInv, TypeOK
<1>2. sweep' \in Sweep /\ closed' \in BOOLEAN
  BY <1>1 DEF Sweeping, Visit, EndSweep, Sweep
<1>3. TypeOK'
  BY <1>2 DEF ManagerInv, TypeOK, Sweeping, Visit, EndSweep, managerVars
<1>4. QueueFits'
  BY DEF ManagerInv, QueueFits, Sweeping, managerVars
<1> QED  BY <1>3, <1>4, Elsewhere DEF Sweeping, Visit, EndSweep, managerVars

\* A cancellation is remembered.
LEMMA CancelKeeps ==
  ASSUME ManagerInv, Cancel
  PROVE  ManagerInv'
<1>1. job # Idle /\ job \in Job
  BY JobTyped DEF Cancel, At, ManagerInv
<1>2. /\ job' \in Job /\ job' # Idle
      /\ job'.op = job.op /\ job'.id = job.id /\ job'.at = job.at /\ job'.why = job.why
      /\ job'.left = job.left /\ job'.kept = job.kept
  BY <1>1 DEF Cancel, Job, Idle, Ops
<1>3. TypeOK'
  BY <1>2 DEF ManagerInv, TypeOK, Cancel, registryVars
<1>4. QueueFits' /\ HostKeepsItsNames'
  BY DEF ManagerInv, QueueFits, HostKeepsItsNames, Cancel, registryVars
<1>6. PlaceFits'
  <2>1. enabled' = enabled /\ PlaceFits
    BY DEF ManagerInv, Cancel
  <2> QED  BY <1>1, <1>2, <2>1 DEF PlaceFits
<1>5. ASSUME NEW p \in Plugins
      PROVE  Fits(p)'
  <2>1. Fits(p) /\ Held(p)' = Held(p)
    BY DEF ManagerInv, Held, Cancel, registryVars
  <2> QED  BY <1>1, <1>2, <2>1 DEF Fits, LoadFits, RemovalFits, HoldingFits, RecordFits, InHand,
              TakingDown, Cancel, Untouched, registryVars, Loading, Removing
<1> QED  BY <1>3, <1>4, <1>5, <1>6 DEF ManagerInv

----------------------------------------------------------------------------
(* Inspecting and loading.                                                 *)

\* One record is replaced.
LEMMA RecordReplaced ==
  ASSUME TypeOK, NEW q \in Plugins, NEW r \in Record, rec' = [rec EXCEPT ![q] = r]
  PROVE  /\ rec' \in [Plugins -> Record]
         /\ rec'[q] = r
         /\ \A p \in Plugins \ {q} : rec'[p] = rec[p]
  BY DEF TypeOK

\* Only the status of a record is replaced.
LEMMA StatusReplaced ==
  ASSUME NEW r \in Record, NEW s \in Statuses
  PROVE  LET n == [r EXCEPT !.status = s] IN
         /\ n \in Record
         /\ n.status = s
         /\ n.inspected = r.inspected /\ n.active = r.active /\ n.loaded = r.loaded
         /\ n.pending = r.pending /\ n.handles = r.handles
  BY DEF Record

\* r is what an inspection may make of p's record.
Inspected(p, r) ==
    /\ r \in Record
    /\ r.active = rec[p].active /\ r.loaded = rec[p].loaded
    /\ r.pending = rec[p].pending /\ r.handles = rec[p].handles
    /\ \/ r = rec[p]
       \/ /\ ~rec[p].inspected /\ rec[p].status # "failed"
          /\ r.status \in {"failed", "incompatible", "discovered", "duplicate"}

\* An inspection leaves alone what belongs to a load.
LEMMA InspectionsFit ==
  ASSUME TypeOK, NEW p \in Plugins, NEW v \in Inspections(p)
  PROVE  /\ Inspected(p, v.r)
         /\ v.o \in [MetaNames -> Plugins \cup {None}]
         /\ v.r.inspected \/ v.r.status \in {"failed", "duplicate"}
         /\ v.r = rec[p] \/ v.r.status \in Blocked \cup {"discovered"}
<1>1. rec[p] \in Record /\ owners \in [MetaNames -> Plugins \cup {None}]
  BY DEF TypeOK
<1>2. CASE rec[p].status \in {"duplicate", "failed"} \/ rec[p].inspected
  BY <1>1, <1>2 DEF Inspections, Inspected
<1>3. CASE ~(rec[p].status \in {"duplicate", "failed"} \/ rec[p].inspected)
  <2> DEFINE owner == owners[MetaName[p]]
             status == IF p \in Outdated THEN "incompatible"
                       ELSE IF owner \in {None, p} THEN "discovered" ELSE "duplicate"
             found == [rec[p] EXCEPT !.inspected = TRUE, !.status = status]
             failed == [rec[p] EXCEPT !.status = "failed"]
  <2>1. status \in {"incompatible", "discovered", "duplicate"}
    OBVIOUS
  <2> HIDE DEF status
  <2>2. /\ found \in Record /\ found.status = status /\ found.inspected
        /\ found.active = rec[p].active /\ found.loaded = rec[p].loaded
        /\ found.pending = rec[p].pending /\ found.handles = rec[p].handles
    BY <1>1, <2>1 DEF Record, Statuses
  <2>3. /\ failed \in Record /\ failed.status = "failed"
        /\ failed.active = rec[p].active /\ failed.loaded = rec[p].loaded
        /\ failed.pending = rec[p].pending /\ failed.handles = rec[p].handles
    BY <1>1, StatusReplaced DEF Statuses
  <2> DEFINE given == IF found.status = "discovered" THEN [owners EXCEPT ![MetaName[p]] = p]
                      ELSE owners
  <2>4. given \in [MetaNames -> Plugins \cup {None}]
    BY <1>1
  <2>5. v = [r |-> failed, o |-> owners] \/ v = [r |-> found, o |-> given]
    BY <1>3 DEF Inspections, status
  <2> HIDE DEF found, failed, given
  <2> QED  BY <1>1, <1>3, <2>1, <2>2, <2>3, <2>4, <2>5 DEF Inspected, Blocked
<1> QED  BY <1>2, <1>3

\* A record that is only inspected stays true to everything.
LEMMA InspectionKeepsFit ==
  ASSUME ManagerInv, NEW p \in Plugins, Inspected(p, rec'[p]),
         UNCHANGED <<holder, enabled, muffled>>,
         job' = job \/ (~InHand(p) /\ job' = Idle)
                    \/ (~InHand(p) /\ job'.at \in {"next", "emit_failed", "emit_enabled"})
  PROVE  Fits(p)'
<1>1. Fits(p) /\ Held(p)' = Held(p)
  BY DEF ManagerInv, Held
<1>2. CASE job' = job
  BY <1>1, <1>2 DEF Inspected, Fits, LoadFits, RemovalFits, HoldingFits, RecordFits, InHand,
                    TakingDown, Untouched, Loading, Removing
<1>3. CASE ~InHand(p) /\ (job' = Idle \/ job'.at \in {"next", "emit_failed", "emit_enabled"})
  <2>1. ~InHand(p)' /\ ~TakingDown(p)' /\ ~TakingDown(p)
    BY <1>3 DEF InHand, TakingDown
  <2>2. LoadFits(p)' /\ RemovalFits(p)'
    BY <1>3 DEF LoadFits, RemovalFits, Loading, Removing
  <2>3. HoldingFits(p)' /\ RecordFits(p)'
    BY <1>1, <1>3, <2>1 DEF Inspected, Fits, HoldingFits, RecordFits, Untouched
  <2> QED  BY <2>2, <2>3 DEF Fits
<1> QED  BY <1>2, <1>3

\* Inspecting takes no lock.
LEMMA InspectKeeps ==
  ASSUME ManagerInv, NEW q \in Plugins, Inspect(q)
  PROVE  ManagerInv'
<1>1. PICK v \in Inspections(q) : rec' = [rec EXCEPT ![q] = v.r] /\ owners' = v.o
  BY DEF Inspect
<1>2. /\ Inspected(q, v.r) /\ v.o \in [MetaNames -> Plugins \cup {None}]
      /\ v.r \in Record
  BY InspectionsFit DEF ManagerInv, Inspected
<1>3. /\ rec' \in [Plugins -> Record] /\ rec'[q] = v.r
      /\ \A p \in Plugins \ {q} : rec'[p] = rec[p]
  BY <1>1, <1>2, RecordReplaced DEF ManagerInv
<1>4. UNCHANGED <<holder, closed, sweep, enabled, job, queue, muffled>>
      /\ calls < MaxCalls /\ calls' = calls + 1
  BY DEF Inspect, registryVars
<1>5. TypeOK'
  BY <1>1, <1>2, <1>3, <1>4, ManagerConstants DEF ManagerInv, TypeOK
<1>6. QueueFits' /\ PlaceFits' /\ HostKeepsItsNames'
  BY <1>4 DEF ManagerInv, QueueFits, PlaceFits, HostKeepsItsNames
<1>7. Fits(q)'
  BY <1>2, <1>3, <1>4, InspectionKeepsFit
<1>8. ASSUME NEW p \in Plugins \ {q}
      PROVE  Fits(p)'
  <2>1. Fits(p) /\ Held(p)' = Held(p) /\ rec'[p] = rec[p]
    BY <1>3, <1>4 DEF ManagerInv, Held
  <2> QED  BY <1>4, <2>1 DEF Fits, LoadFits, RemovalFits, HoldingFits, RecordFits, InHand,
              TakingDown, Untouched
<1> QED  BY <1>5, <1>6, <1>7, <1>8 DEF ManagerInv

\* What a step that may load q leaves alone, and who is in hand before it.
NobodyBut(q, op) ==
    /\ \A p \in Plugins : ~InHand(p)
    /\ op \in {"enable", "load_enabled"}
    /\ op = "load_enabled" => q \in enabled
    /\ UNCHANGED <<holder, closed, sweep, calls, muffled>>
    /\ queue' \in Seq([op : Ops, id : Plugins \cup {None}])
    /\ QueueFits'

\* The callers of _load_unlocked leave everything in order.
LEMMA LoadReturnsKeeps ==
  ASSUME ManagerInv, NEW op, NEW q \in Plugins, NEW r, NEW todo \in SUBSET Plugins,
         NobodyBut(q, op), Inspected(q, r), owners' \in [MetaNames -> Plugins \cup {None}],
         LoadReturns(op, q, r, todo)
  PROVE  ManagerInv'
<1>1. r \in Record /\ op \in Ops /\ Fits(q) /\ rec[q] \in Record
  BY DEF Inspected, NobodyBut, Ops, ManagerInv, TypeOK
<1>2. UNCHANGED <<holder, closed, sweep, calls, muffled>>
  BY DEF NobodyBut
<1>3. Held(q)' = Held(q) /\ (\A p \in Plugins : Held(p)' = Held(p)) /\ HostKeepsItsNames'
  BY <1>2 DEF Held, ManagerInv, HostKeepsItsNames
<1>4. \A p \in Plugins : ~InHand(p)
  BY DEF NobodyBut
<1> DEFINE Marked(s) == [r EXCEPT !.status = s]
<1>5. ASSUME NEW s \in Statuses
      PROVE  /\ Marked(s) \in Record
             /\ Marked(s).status = s
             /\ Marked(s).inspected = r.inspected /\ Marked(s).active = r.active
             /\ Marked(s).loaded = r.loaded
             /\ Marked(s).pending = r.pending /\ Marked(s).handles = r.handles
  BY <1>1, StatusReplaced
<1>6. r.loaded => r = rec[q] /\ r.inspected
  BY <1>1 DEF Inspected, Fits, RecordFits, Untouched
<1> HIDE DEF Marked
<1>7. ASSUME NEW n \in Record, rec' = [rec EXCEPT ![q] = n],
             enabled' \in SUBSET Plugins,
             \A p \in Plugins \ {q} : p \in enabled <=> p \in enabled',
             job' \in Job \cup {Idle}, PlaceFits', Fits(q)',
             (job # Idle => job.id = q \/ job.at = "next")'
      PROVE  ManagerInv'
  <2>1. /\ rec' \in [Plugins -> Record]
        /\ \A p \in Plugins \ {q} : rec'[p] = rec[p]
    BY <1>7, RecordReplaced DEF ManagerInv
  <2>2. TypeOK' /\ QueueFits'
    BY <1>2, <1>7, <2>1 DEF ManagerInv, TypeOK, NobodyBut
  <2> QED  BY <1>2, <1>3, <1>4, <1>7, <2>1, <2>2, OneConcerned
<1>8. CASE op = "enable" /\ ~r.loaded
  <2>1. rec' = [rec EXCEPT ![q] = r] /\ job' = Idle /\ enabled' = enabled
    BY <1>8 DEF LoadReturns
  <2>2. rec'[q] = r
    BY <1>1, <2>1, RecordReplaced DEF ManagerInv
  <2>3. Fits(q)'
    BY <1>2, <1>4, <2>1, <2>2, InspectionKeepsFit
  <2>4. PlaceFits'
    BY <2>1 DEF PlaceFits
  <2> QED  BY <1>1, <1>7, <2>1, <2>3, <2>4 DEF ManagerInv, TypeOK
<1>9. CASE op = "load_enabled"
  <2> DEFINE n == IF r.loaded THEN Marked("enabled") ELSE r
  <2>1. rec' = [rec EXCEPT ![q] = n] /\ job' = Working(op, q, "next", todo) /\ enabled' = enabled
    BY <1>9 DEF LoadReturns, Marked
  <2>2. n \in Record /\ rec'[q] = n
    BY <1>1, <1>5, <2>1, RecordReplaced DEF ManagerInv, Statuses
  <2>3. /\ job' \in Job /\ job' # Idle /\ job'.at = "next" /\ job'.op = op /\ job'.id = q
    <3>1. q \in Plugins \cup {None} /\ "next" \in Places
      BY DEF Places
    <3> QED  BY <1>1, <2>1, <3>1, WorkingTyped
  <2>4. PlaceFits'
    BY <1>9, <2>3 DEF PlaceFits, Loading, Removing
  <2>5. Fits(q)'
    <3>1. CASE ~r.loaded
      BY <1>2, <2>1, <2>2, <2>3, <3>1, <1>4, InspectionKeepsFit
    <3>2. CASE r.loaded
      <4>1. LoadFits(q)' /\ RemovalFits(q)' /\ ~TakingDown(q)' /\ ~TakingDown(q)
        BY <1>4, <2>3 DEF LoadFits, RemovalFits, Loading, Removing, TakingDown, InHand
      <4>2. q \in enabled'
        BY <1>9, <2>1 DEF NobodyBut
      <4>3. HoldingFits(q)' /\ RecordFits(q)'
        BY <1>1, <1>3, <1>5, <1>6, <2>2, <3>2, <4>1, <4>2
           DEF HoldingFits, RecordFits, Fits, Untouched, Statuses
      <4> QED  BY <4>1, <4>3 DEF Fits
    <3> QED  BY <3>1, <3>2
  <2> QED  BY <1>7, <2>1, <2>2, <2>3, <2>4, <2>5 DEF ManagerInv, TypeOK
<1>10. CASE op = "enable" /\ r.loaded /\ job' = Working(op, q, "emit_enabled", todo)
  <2>1. rec' = [rec EXCEPT ![q] = Marked("enabled")] /\ enabled' = enabled \cup {q}
    <3>1. Working(op, q, "emit_enabled", todo).at # "remove"
      BY DEF Working
    <3>2. Removal(Working(op, q, "remove", todo), "unsaved", r.handles).at = "remove"
      BY DEF Working, Removal
    <3> QED  BY <1>10, <3>1, <3>2 DEF LoadReturns, Persists, Marked
  <2>2. Marked("enabled") \in Record /\ rec'[q] = Marked("enabled")
    BY <1>1, <1>5, <2>1, RecordReplaced DEF ManagerInv, Statuses
  <2>3. /\ job' \in Job /\ job' # Idle /\ job'.at = "emit_enabled" /\ job'.op = op /\ job'.id = q
    <3>1. q \in Plugins \cup {None} /\ "emit_enabled" \in Places
      BY DEF Places
    <3>2. op \in Ops /\ todo \in SUBSET Plugins
      BY <1>1
    <3> DEFINE j == Working(op, q, "emit_enabled", todo)
    <3>3. /\ j \in Job /\ j # Idle /\ j.op = op /\ j.id = q /\ j.at = "emit_enabled"
      BY <3>1, <3>2, WorkingTyped
    <3> QED  BY <1>10, <3>3
  <2>4. PlaceFits'
    BY <1>10, <2>3 DEF PlaceFits, Loading, Removing
  <2>5. LoadFits(q)' /\ RemovalFits(q)' /\ ~TakingDown(q)' /\ ~TakingDown(q)
    BY <1>4, <2>3 DEF LoadFits, RemovalFits, Loading, Removing, TakingDown, InHand
  <2>6. HoldingFits(q)' /\ RecordFits(q)'
    BY <1>1, <1>3, <1>5, <1>6, <1>10, <2>1, <2>2, <2>5, ZenonT(40)
       DEF HoldingFits, RecordFits, Fits, Untouched, Statuses
  <2>7. enabled' \in SUBSET Plugins /\ \A p \in Plugins \ {q} : p \in enabled <=> p \in enabled'
    BY <2>1 DEF ManagerInv, TypeOK
  <2> QED  BY <1>7, <2>1, <2>2, <2>3, <2>4, <2>5, <2>6, <2>7 DEF Fits
<1>11. CASE op = "enable" /\ r.loaded /\ job' # Working(op, q, "emit_enabled", todo)
  <2> DEFINE j == Working(op, q, "remove", todo)
  <2>1. /\ rec' = [rec EXCEPT ![q] = Marked("failed")] /\ enabled' = enabled
        /\ job' = Removal(j, "unsaved", r.handles)
    BY <1>11 DEF LoadReturns, Marked
  <2>2. Marked("failed") \in Record /\ rec'[q] = Marked("failed")
    BY <1>1, <1>5, <2>1, RecordReplaced DEF ManagerInv, Statuses
  <2>3. j \in Job /\ j.op = op /\ j.id = q
    <3>1. q \in Plugins \cup {None} /\ "remove" \in Places
      BY DEF Places
    <3> QED  BY <1>1, <3>1, WorkingTyped
  <2> HIDE DEF j
  <2>4. /\ job' \in Job /\ job' # Idle /\ job'.at = "remove" /\ job'.op = op /\ job'.id = q
        /\ job'.why = "unsaved" /\ job'.left = r.handles /\ job'.kept = {}
    <3>1. r.handles \in SUBSET Names
      BY <1>1 DEF Record
    <3> QED  BY <2>1, <2>3, <3>1, RemovalTyped DEF Reasons
  <2>5. PlaceFits'
    BY <1>11, <2>4 DEF PlaceFits, Loading, Removing
  <2>6. ~TakingDown(q) /\ TakingDown(q)' /\ InHand(q)'
    BY <1>4, <2>4 DEF TakingDown, InHand
  <2>7. r = rec[q] /\ r.handles = Held(q)
    BY <1>1, <1>6, <1>11, <2>6 DEF Fits, HoldingFits
  <2>8. LoadFits(q)' /\ RemovalFits(q)'
    BY <1>3, <1>5, <2>2, <2>4, <2>7 DEF LoadFits, RemovalFits, Loading, Removing, Statuses
  <2>9. HoldingFits(q)' /\ RecordFits(q)'
    BY <1>1, <1>3, <1>5, <1>6, <1>11, <2>2, <2>6
       DEF HoldingFits, RecordFits, Fits, Untouched, Statuses
  <2> QED  BY <1>7, <2>1, <2>2, <2>4, <2>5, <2>8, <2>9 DEF ManagerInv, TypeOK, Fits
<1> QED  BY <1>8, <1>9, <1>10, <1>11 DEF LoadReturns

\* A load begins, or is refused.
LEMMA LoadKeeps ==
  ASSUME ManagerInv, NEW op, NEW q \in Plugins, NEW todo \in SUBSET Plugins,
         NobodyBut(q, op), Load(op, q, todo)
  PROVE  ManagerInv'
<1>1. PICK v \in Inspections(q) :
         /\ owners' = v.o
         /\ IF v.r.loaded \/ v.r.status \in Blocked
            THEN LoadReturns(op, q, v.r, todo)
            ELSE /\ rec' = [rec EXCEPT ![q] = [v.r EXCEPT !.active = TRUE, !.pending = TRUE]]
                 /\ job' = Working(op, q, "initialize", todo)
                 /\ UNCHANGED enabled
  BY DEF Load
<1>2. /\ Inspected(q, v.r) /\ v.o \in [MetaNames -> Plugins \cup {None}]
      /\ v.r \in Record /\ (v.r.inspected \/ v.r.status \in {"failed", "duplicate"})
      /\ v.r = rec[q] \/ v.r.status \in Blocked \cup {"discovered"}
  BY InspectionsFit DEF ManagerInv, Inspected
<1>3. CASE v.r.loaded \/ v.r.status \in Blocked
  BY <1>1, <1>2, <1>3, LoadReturnsKeeps
<1>4. CASE ~(v.r.loaded \/ v.r.status \in Blocked)
  <2> DEFINE n == [v.r EXCEPT !.active = TRUE, !.pending = TRUE]
  <2>1. /\ n \in Record /\ n.active /\ n.pending
        /\ n.status = v.r.status /\ n.inspected = v.r.inspected /\ n.loaded = v.r.loaded
        /\ n.handles = v.r.handles
    BY <1>2 DEF Record
  <2>2. rec' = [rec EXCEPT ![q] = n] /\ job' = Working(op, q, "initialize", todo)
        /\ enabled' = enabled
    BY <1>1, <1>4
  <2> HIDE DEF n
  <2>3. /\ rec' \in [Plugins -> Record] /\ rec'[q] = n
        /\ \A p \in Plugins \ {q} : rec'[p] = rec[p]
    BY <2>1, <2>2, RecordReplaced DEF ManagerInv
  <2>4. /\ job' \in Job /\ job' # Idle /\ job'.at = "initialize" /\ job'.op = op /\ job'.id = q
        /\ job'.why = "none"
    BY <2>2, WorkingTyped DEF Places, NobodyBut, Ops
  <2>5. UNCHANGED <<holder, closed, sweep, calls, muffled>>
    BY DEF NobodyBut
  <2>6. TypeOK' /\ QueueFits'
    BY <1>1, <1>2, <2>2, <2>3, <2>4, <2>5 DEF ManagerInv, TypeOK, NobodyBut
  <2>7. PlaceFits'
    BY <2>2, <2>4 DEF PlaceFits, Loading, Removing, NobodyBut
  <2>8. HostKeepsItsNames' /\ (\A p \in Plugins : Held(p)' = Held(p))
    BY <2>5 DEF ManagerInv, HostKeepsItsNames, Held
  <2>9. v.r.status \in {"discovered", "disabled"} /\ v.r.inspected
    <3>1. rec[q].status \in {"loaded", "enabled"} => rec[q].loaded
      BY DEF ManagerInv, Fits, RecordFits
    <3>2. v.r.status \in Statuses
      BY <1>2 DEF Record
    <3> QED  BY <1>2, <1>4, <3>1, <3>2 DEF Inspected, Blocked, Statuses
  <2>10. InHand(q)' /\ ~TakingDown(q)' /\ ~TakingDown(q)
    BY <2>4 DEF InHand, TakingDown, NobodyBut
  <2>11. LoadFits(q)' /\ RemovalFits(q)'
    BY <1>4, <2>1, <2>3, <2>4, <2>9 DEF LoadFits, RemovalFits, Loading, Removing
  <2>12. HoldingFits(q)' /\ RecordFits(q)'
    <3>1. HoldingFits(q) /\ rec[q].handles = n.handles /\ rec[q].loaded = n.loaded
      BY <1>2, <2>1 DEF ManagerInv, Fits, Inspected
    <3> QED  BY <1>4, <2>1, <2>3, <2>8, <2>9, <2>10, <3>1 DEF HoldingFits, RecordFits
  <2> QED  BY <2>2, <2>3, <2>4, <2>5, <2>6, <2>7, <2>8, <2>11, <2>12, OneConcerned
           DEF Fits, NobodyBut
<1> QED  BY <1>3, <1>4

----------------------------------------------------------------------------
(* Removals begin.                                                         *)

\* A removal that is not a rollback begins: all that the record knows of is
\* to be removed.
LEMMA RemovalBegins ==
  ASSUME ManagerInv, NEW j \in Job, NEW why \in Reasons \ {"none", "rollback"}, NEW q \in Plugins,
         j.id = q, \A p \in Plugins : InHand(p) => p = q,
         ~TakingDown(q),
         job' = Removal(j, why, rec[q].handles),
         UNCHANGED <<holder, closed, sweep, rec, owners, calls, muffled>>,
         queue' \in Seq([op : Ops, id : Plugins \cup {None}]), QueueFits',
         j.op = "shutdown" <=> why = "shutdown",
         enabled' = enabled \/ enabled' = enabled \ {q},
         why = "disable" => q \notin enabled',
         why = "failed" => rec[q].inspected /\ rec[q].status \in {"discovered", "disabled"},
         why = "unsaved" => rec[q].status = "failed"
  PROVE  ManagerInv'
<1>1. /\ rec[q] \in Record /\ Fits(q) /\ rec[q].handles \in SUBSET Names
      /\ rec[q].handles = Held(q)
  BY DEF ManagerInv, TypeOK, Record, Fits, HoldingFits
<1>2. /\ job' \in Job /\ job' # Idle /\ job'.at = "remove" /\ job'.op = j.op /\ job'.id = q
      /\ job'.why = why /\ job'.left = rec[q].handles /\ job'.kept = {}
  BY <1>1, RemovalTyped
<1>3. TypeOK'
  BY <1>2 DEF ManagerInv, TypeOK
<1>4. PlaceFits'
  BY <1>2 DEF PlaceFits, Loading, Removing
<1>5. HostKeepsItsNames' /\ (\A p \in Plugins : Held(p)' = Held(p))
  BY DEF ManagerInv, HostKeepsItsNames, Held
<1>6. InHand(q)' /\ TakingDown(q)'
  BY <1>2 DEF InHand, TakingDown
<1>7. LoadFits(q)' /\ RemovalFits(q)'
  BY <1>1, <1>2, <1>5 DEF LoadFits, RemovalFits, Loading, Removing
<1>8. HoldingFits(q)' /\ RecordFits(q)'
  BY <1>1, <1>5, <1>6 DEF HoldingFits, RecordFits, Fits, Untouched
<1> QED  BY <1>2, <1>3, <1>4, <1>5, <1>7, <1>8, OneConcerned DEF Fits

\* A plug-in is disabled, or the repository does not say so.
LEMMA DisableKeeps ==
  ASSUME ManagerInv, job = Idle, NEW q \in Plugins, Disable(q),
         UNCHANGED <<holder, closed, sweep, calls, muffled>>,
         queue' \in Seq([op : Ops, id : Plugins \cup {None}]), QueueFits'
  PROVE  ManagerInv'
<1>1. \A p \in Plugins : ~InHand(p) /\ ~TakingDown(p)
  BY DEF InHand, TakingDown
<1>2. /\ q \in Plugins \cup {None} /\ "disable" \in Ops
      /\ {"remove", "emit_failed"} \subseteq Places /\ {} \in SUBSET Plugins
  BY DEF Ops, Places
<1>3. CASE Persists(q, FALSE) /\ UNCHANGED rec
           /\ job' = Removal(Working("disable", q, "remove", {}), "disable", rec[q].handles)
  <2> DEFINE j == Working("disable", q, "remove", {})
  <2>1. j \in Job /\ j.id = q /\ j.op = "disable"
    BY <1>2, WorkingTyped
  <2>2. enabled' = enabled \ {q} /\ job' = Removal(j, "disable", rec[q].handles) /\ owners' = owners
    BY <1>3 DEF Persists, Disable
  <2> HIDE DEF j
  <2> QED  BY <1>1, <1>3, <2>1, <2>2, RemovalBegins DEF Reasons
<1>4. CASE SetStatus(q, "failed") /\ job' = Working("disable", q, "emit_failed", {})
           /\ UNCHANGED enabled
  <2> DEFINE n == [rec[q] EXCEPT !.status = "failed"]
  <2>1. rec[q] \in Record /\ "failed" \in Statuses
    BY DEF ManagerInv, TypeOK, Statuses
  <2>2. /\ n \in Record /\ n.status = "failed"
        /\ n.inspected = rec[q].inspected /\ n.active = rec[q].active /\ n.loaded = rec[q].loaded
        /\ n.pending = rec[q].pending /\ n.handles = rec[q].handles
    BY <2>1, StatusReplaced
  <2>3. rec' = [rec EXCEPT ![q] = n]
    BY <1>4 DEF SetStatus
  <2> HIDE DEF n
  <2>4. /\ rec' \in [Plugins -> Record] /\ rec'[q] = n
        /\ \A p \in Plugins \ {q} : rec'[p] = rec[p]
    BY <2>2, <2>3, RecordReplaced DEF ManagerInv
  <2>5. job' \in Job /\ job' # Idle /\ job'.at = "emit_failed" /\ job'.op = "disable" /\ job'.id = q
    BY <1>2, <1>4, WorkingTyped
  <2>6. TypeOK'
    BY <1>4, <2>4, <2>5 DEF ManagerInv, TypeOK, Disable
  <2>7. PlaceFits'
    BY <2>5 DEF PlaceFits, Loading, Removing
  <2>8. HostKeepsItsNames' /\ (\A p \in Plugins : Held(p)' = Held(p))
    BY DEF ManagerInv, HostKeepsItsNames, Held
  <2>9. ~InHand(q)' /\ ~TakingDown(q)' /\ LoadFits(q)' /\ RemovalFits(q)'
    BY <2>5 DEF InHand, TakingDown, LoadFits, RemovalFits, Loading, Removing
  <2>10. HoldingFits(q)' /\ RecordFits(q)'
    <3>1. HoldingFits(q) /\ RecordFits(q)
      BY DEF ManagerInv, Fits
    <3> QED  BY <1>1, <2>2, <2>4, <2>8, <2>9, <3>1 DEF HoldingFits, RecordFits, Untouched
  <2> QED  BY <1>1, <1>4, <2>4, <2>5, <2>6, <2>7, <2>8, <2>9, <2>10, OneConcerned DEF Fits
<1> QED  BY <1>3, <1>4 DEF Disable

\* The first call in the queue is about a plug-in, if that matters to it.
LEMMA FirstCallFits ==
  ASSUME ManagerInv, queue # <<>>
  PROVE  /\ Head(queue) \in [op : Ops, id : Plugins \cup {None}]
         /\ Head(queue).op \in {"enable", "disable"} => Head(queue).id \in Plugins
<1> DEFINE Entries == [op : Ops, id : Plugins \cup {None}]
<1>1. queue \in Seq(Entries)
  BY DEF ManagerInv, TypeOK
<1>2. DOMAIN queue = 1 .. Len(queue) /\ Len(queue) \in Nat
  BY <1>1, LenProperties
<1>3. 1 \in DOMAIN queue /\ Head(queue) = queue[1]
  BY <1>1, <1>2, EmptySeq
<1>4. Head(queue) \in Entries
  BY <1>1, HeadTailProperties
<1> QED  BY <1>3, <1>4 DEF ManagerInv, QueueFits

\* The first call in the queue gets the lock.
LEMMA StartKeeps ==
  ASSUME ManagerInv, Start
  PROVE  ManagerInv'
<1> DEFINE Entries == [op : Ops, id : Plugins \cup {None}]
           call == Head(queue)
<1>1. queue \in Seq(Entries) /\ queue # <<>> /\ job = Idle
  BY DEF ManagerInv, TypeOK, Start
<1>2. /\ call \in Entries /\ queue' \in Seq(Entries)
      /\ Len(queue') = Len(queue) - 1
      /\ \A i \in 1 .. Len(queue') : queue'[i] = queue[i + 1]
  BY <1>1, HeadTailProperties DEF Start
<1>3. DOMAIN queue = 1 .. Len(queue) /\ DOMAIN queue' = 1 .. Len(queue') /\ Len(queue) \in Nat
  BY <1>1, <1>2, LenProperties
<1>4. QueueFits'
  BY <1>2, <1>3 DEF ManagerInv, QueueFits
<1>5. call.op \in {"enable", "disable"} => call.id \in Plugins
  BY <1>1, FirstCallFits
<1>6. \A p \in Plugins : ~InHand(p)
  BY <1>1 DEF InHand
<1>7. UNCHANGED <<holder, closed, sweep, calls, muffled>>
  BY DEF Start, registryVars
<1>8. CASE call.op = "enable" /\ Load("enable", call.id, {})
  <2>1. NobodyBut(call.id, "enable")
    BY <1>2, <1>4, <1>6, <1>7 DEF NobodyBut
  <2> QED  BY <1>5, <1>8, <2>1, LoadKeeps
<1>9. CASE call.op = "disable" /\ Disable(call.id)
  BY <1>1, <1>2, <1>4, <1>5, <1>7, <1>9, DisableKeeps
<1>10. CASE call.op \in {"load_enabled", "shutdown"} /\ UNCHANGED <<rec, owners, enabled>>
            /\ job' = Working(call.op, call.id, "next", Plugins)
  <2>1. call.op \in Ops /\ call.id \in Plugins \cup {None} /\ "next" \in Places
    BY <1>2 DEF Places
  <2>2. job' \in Job /\ job' # Idle /\ job'.at = "next" /\ job'.op = call.op
    BY <1>10, <2>1, WorkingTyped
  <2>3. TypeOK' /\ PlaceFits'
    BY <1>2, <1>7, <1>10, <2>2 DEF ManagerInv, TypeOK, PlaceFits, Loading, Removing
  <2> QED  BY <1>4, <1>6, <1>7, <1>10, <2>2, <2>3, NobodyConcerned DEF Loading, Removing
<1> QED  BY <1>8, <1>9, <1>10 DEF Start

\* A step that leaves the queue as it is.
LEMMA QueueStays ==
  ASSUME ManagerInv, queue' = queue
  PROVE  queue' \in Seq([op : Ops, id : Plugins \cup {None}]) /\ QueueFits'
  BY DEF ManagerInv, TypeOK, QueueFits

\* load_enabled goes on.
LEMMA NextToLoadKeeps ==
  ASSUME ManagerInv, NextToLoad
  PROVE  ManagerInv'
<1>1. job \in Job /\ job.at = "next" /\ job.op = "load_enabled" /\ job.todo \in SUBSET Plugins
  BY JobTyped DEF ManagerInv, NextToLoad, At, Job
<1>2. \A p \in Plugins : ~InHand(p)
  BY <1>1 DEF InHand
<1>3. UNCHANGED <<holder, closed, sweep, queue, calls, muffled>>
  BY DEF NextToLoad, registryVars
<1>4. queue' \in Seq([op : Ops, id : Plugins \cup {None}]) /\ QueueFits'
  BY <1>3, QueueStays
<1>5. CASE job' = Idle /\ UNCHANGED <<rec, owners, enabled>>
  <2>1. TypeOK' /\ PlaceFits'
    BY <1>3, <1>4, <1>5 DEF ManagerInv, TypeOK, PlaceFits
  <2> QED  BY <1>2, <1>3, <1>4, <1>5, <2>1, NobodyConcerned
<1>6. CASE job.todo # {}
  <2> DEFINE q == FirstOf(Order, job.todo)
             todo == job.todo \ {q}
  <2>1. q \in job.todo
    BY <1>1, <1>6, FirstOfIn, Constants
  <2>2. q \in Plugins /\ todo \in SUBSET Plugins
    BY <1>1, <2>1
  <2> HIDE DEF q
  <2>3. CASE q \in enabled /\ Load("load_enabled", q, todo)
    <3>1. NobodyBut(q, "load_enabled")
      BY <1>2, <1>3, <1>4, <2>3 DEF NobodyBut
    <3> QED  BY <2>2, <2>3, <3>1, LoadKeeps
  <2>4. CASE job' = Working("load_enabled", q, "next", todo) /\ UNCHANGED <<rec, owners, enabled>>
    <3>1. "load_enabled" \in Ops /\ q \in Plugins \cup {None} /\ "next" \in Places
      BY <2>2 DEF Places, Ops
    <3>2. job' \in Job /\ job' # Idle /\ job'.at = "next" /\ job'.op = "load_enabled"
      BY <2>2, <2>4, <3>1, WorkingTyped
    <3>3. TypeOK' /\ PlaceFits'
      BY <1>3, <1>4, <2>4, <3>2 DEF ManagerInv, TypeOK, PlaceFits, Loading, Removing
    <3> QED  BY <1>2, <1>3, <1>4, <2>4, <3>2, <3>3, NobodyConcerned DEF Loading, Removing
  <2> QED  BY <1>6, <2>3, <2>4 DEF NextToLoad, Readings, q
<1> QED  BY <1>5, <1>6 DEF NextToLoad

\* shutdown goes on.
LEMMA NextToUnloadKeeps ==
  ASSUME ManagerInv, NextToUnload
  PROVE  ManagerInv'
<1>1. job \in Job /\ job.at = "next" /\ job.op = "shutdown" /\ job.todo \in SUBSET Plugins
  BY JobTyped DEF ManagerInv, NextToUnload, At, Job
<1>2. \A p \in Plugins : ~InHand(p) /\ ~TakingDown(p)
  BY <1>1 DEF InHand, TakingDown
<1>3. UNCHANGED <<holder, closed, sweep, queue, calls, muffled, rec, owners, enabled>>
  BY DEF NextToUnload, registryVars
<1>4. queue' \in Seq([op : Ops, id : Plugins \cup {None}]) /\ QueueFits'
  BY <1>3, QueueStays
<1>5. CASE job.todo = {}
  <2>1. job' = Idle
    BY <1>5 DEF NextToUnload
  <2>2. TypeOK' /\ PlaceFits'
    BY <1>3, <1>4, <2>1 DEF ManagerInv, TypeOK, PlaceFits
  <2> QED  BY <1>2, <1>3, <1>4, <2>1, <2>2, NobodyConcerned
<1>6. CASE job.todo # {}
  <2> DEFINE q == LastOf(Order, job.todo)
             todo == job.todo \ {q}
  <2>1. q \in job.todo
    BY <1>1, <1>6, LastOfIn, Constants
  <2>2. q \in Plugins /\ todo \in SUBSET Plugins
    BY <1>1, <2>1
  <2>3. job' = IF Untouched(rec[q]) THEN Working("shutdown", q, "next", todo)
               ELSE Removal(Working("shutdown", q, "remove", todo), "shutdown", rec[q].handles)
    BY <1>6 DEF NextToUnload
  <2> HIDE DEF q
  <2>4. /\ "shutdown" \in Ops /\ q \in Plugins \cup {None}
        /\ "next" \in Places /\ "remove" \in Places /\ "shutdown" \in Reasons \ {"none", "rollback"}
    BY <2>2 DEF Places, Ops, Reasons
  <2>5. CASE Untouched(rec[q])
    <3>1. job' \in Job /\ job' # Idle /\ job'.at = "next" /\ job'.op = "shutdown"
      BY <2>2, <2>3, <2>4, <2>5, WorkingTyped
    <3>2. TypeOK' /\ PlaceFits'
      BY <1>3, <1>4, <3>1 DEF ManagerInv, TypeOK, PlaceFits, Loading, Removing
    <3> QED  BY <1>2, <1>3, <1>4, <3>1, <3>2, NobodyConcerned DEF Loading, Removing
  <2>6. CASE ~Untouched(rec[q])
    <3> DEFINE j == Working("shutdown", q, "remove", todo)
    <3>1. j \in Job /\ j.id = q /\ j.op = "shutdown"
      BY <2>2, <2>4, WorkingTyped
    <3>2. job' = Removal(j, "shutdown", rec[q].handles)
      BY <2>3, <2>6
    <3> HIDE DEF j
    <3> QED  BY <1>2, <1>3, <1>4, <2>2, <2>4, <3>1, <3>2, RemovalBegins
  <2> QED  BY <2>5, <2>6
<1> QED  BY <1>5, <1>6

\* A load whose hook failed, or whose announcement was cancelled, is taken back.
LEMMA LoadTakenBack ==
  ASSUME ManagerInv, job # Idle, job.at \in Loading \cup {"emit_loaded"},
         NEW why \in {"failed", "cancelled"}, why = "failed" => job.at \in Loading,
         job' = Removal(job, why, rec[job.id].handles),
         UNCHANGED <<registryVars, rec, owners, enabled, queue, calls, muffled>>
  PROVE  ManagerInv'
<1> DEFINE q == job.id
<1>1. job \in Job /\ q \in Plugins
  BY JobTyped DEF ManagerInv, PlaceFits, Loading
<1>2. (\A p \in Plugins : InHand(p) => p = q) /\ ~TakingDown(q)
  BY DEF InHand, TakingDown, Loading
<1>3. UNCHANGED <<holder, closed, sweep, rec, owners, calls, muffled>> /\ enabled' = enabled
      /\ queue' = queue
  BY DEF registryVars
<1>4. queue' \in Seq([op : Ops, id : Plugins \cup {None}]) /\ QueueFits'
  BY <1>3, QueueStays
<1>5. why \in Reasons \ {"none", "rollback"} /\ why # "shutdown" /\ why # "disable"
      /\ why # "unsaved" /\ job.op # "shutdown"
  BY DEF Reasons, ManagerInv, PlaceFits
<1>6. why = "failed" => rec[q].inspected /\ rec[q].status \in {"discovered", "disabled"}
  BY <1>1 DEF ManagerInv, Fits, LoadFits
<1> HIDE DEF q
<1>7. job.id = q /\ job' = Removal(job, why, rec[q].handles)
  BY DEF q
<1> QED  BY <1>1, <1>2, <1>3, <1>4, <1>5, <1>6, <1>7, RemovalBegins

\* A hook raises or is cancelled.
LEMMA HookFailsKeeps ==
  ASSUME ManagerInv, HookFails
  PROVE  ManagerInv'
<1>1. job # Idle /\ job.at \in Loading
  BY DEF HookFails, At, Loading
<1>2. PICK why \in {"failed", "cancelled"} : job' = Removal(job, why, rec[job.id].handles)
  BY DEF HookFails
<1> QED  BY <1>1, <1>2, LoadTakenBack DEF HookFails

\* The caller of a load is cancelled while the load is announced, or that of
\* another announcement.
LEMMA EmitCancelledKeeps ==
  ASSUME ManagerInv, EmitCancelled
  PROVE  ManagerInv'
<1>1. CASE At("emit_loaded") /\ job' = Removal(job, "cancelled", rec[job.id].handles)
  BY <1>1, LoadTakenBack DEF EmitCancelled, At
<1>2. CASE (At("emit_failed") \/ At("emit_enabled")) /\ job' = Idle
  <2>1. \A p \in Plugins : ~InHand(p)
    BY <1>2 DEF At, InHand
  <2>2. UNCHANGED <<holder, closed, sweep, rec, owners, calls, muffled, enabled, queue>>
    BY DEF EmitCancelled, registryVars
  <2>3. TypeOK' /\ PlaceFits' /\ QueueFits'
    BY <1>2, <2>2 DEF ManagerInv, TypeOK, PlaceFits, QueueFits
  <2> QED  BY <1>2, <2>1, <2>2, <2>3, NobodyConcerned
<1> QED  BY <1>1, <1>2 DEF EmitCancelled

\* A hook returns.
LEMMA HookReturnsKeeps ==
  ASSUME ManagerInv, HookReturns
  PROVE  ManagerInv'
<1>8. PICK q : q = job.id
  OBVIOUS
<1>1. /\ job \in Job /\ job # Idle /\ q \in Plugins /\ job.at \in {"initialize", "register"}
      /\ job.why = "none" /\ job.op \in {"enable", "load_enabled"}
      /\ job.op = "load_enabled" => q \in enabled
  <2>1. job # Idle /\ job.at \in {"initialize", "register"}
    BY DEF HookReturns, At
  <2> QED  BY <1>8, <2>1, JobTyped DEF ManagerInv, PlaceFits, Loading
<1>2. /\ job' \in Job /\ job' # Idle /\ job'.at \in {"register", "commit"}
      /\ job'.op = job.op /\ job'.id = q /\ job'.why = "none"
  <2>1. PICK place \in {"register", "commit"} : job' = [job EXCEPT !.at = place]
    BY DEF HookReturns, Await
  <2> QED  BY <1>1, <1>8, <2>1 DEF Job, Idle, Places, Ops
<1>3. UNCHANGED <<holder, closed, sweep, rec, owners, calls, muffled, enabled, queue>>
  BY DEF HookReturns, registryVars
<1>4. TypeOK' /\ QueueFits' /\ HostKeepsItsNames'
  BY <1>2, <1>3 DEF ManagerInv, TypeOK, QueueFits, HostKeepsItsNames
<1>5. PlaceFits'
  BY <1>1, <1>2, <1>3 DEF PlaceFits, Loading, Removing
<1>6. \A p \in Plugins : (InHand(p) => p = q) /\ Held(p)' = Held(p)
  BY <1>3, <1>8 DEF InHand, Held
<1>7. Fits(q)'
  <2>1. Fits(q) /\ InHand(q) /\ InHand(q)' /\ ~TakingDown(q) /\ ~TakingDown(q)'
    BY <1>1, <1>2, <1>8 DEF ManagerInv, InHand, TakingDown
  <2>2. LoadFits(q)' /\ RemovalFits(q)'
    BY <1>1, <1>2, <1>3, <1>8, <2>1 DEF Fits, LoadFits, RemovalFits, Loading, Removing
  <2>3. HoldingFits(q)' /\ RecordFits(q)'
    BY <1>3, <1>6, <1>1, <2>1 DEF Fits, HoldingFits, RecordFits, Untouched
  <2> QED  BY <2>2, <2>3 DEF Fits
<1> QED  BY <1>1, <1>2, <1>3, <1>4, <1>5, <1>6, <1>7, OneConcerned

\* A listener returns.
LEMMA EmitReturnsKeeps ==
  ASSUME ManagerInv, EmitReturns
  PROVE  ManagerInv'
<1>1. UNCHANGED <<holder, closed, sweep, owners, queue, calls, muffled>>
  BY DEF EmitReturns, registryVars
<1>2. queue' \in Seq([op : Ops, id : Plugins \cup {None}]) /\ QueueFits'
  BY <1>1, QueueStays
<1>3. job # Idle /\ job \in Job /\ job.todo \in SUBSET Plugins
  BY JobTyped DEF ManagerInv, EmitReturns, At, Job
<1>4. (job # Idle /\ job.at \notin Loading \cup Removing) => \A p \in Plugins : ~InHand(p)
  BY InHandIsTheJobs
<1>5. CASE At("emit_loaded") /\ LoadReturns(job.op, job.id, rec[job.id], job.todo)
  <2> DEFINE q == job.id
             op == job.op
             todo == job.todo
  <2>1. /\ q \in Plugins /\ op \in {"enable", "load_enabled"}
        /\ op = "load_enabled" => q \in enabled
    BY <1>3, <1>5 DEF ManagerInv, PlaceFits, At
  <2>2. NobodyBut(q, op)
    BY <1>1, <1>2, <1>3, <1>4, <1>5, <2>1 DEF NobodyBut, At, Loading, Removing
  <2>3. Inspected(q, rec[q]) /\ owners' \in [MetaNames -> Plugins \cup {None}]
    BY <1>1, <2>1 DEF Inspected, ManagerInv, TypeOK
  <2>4. LoadReturns(op, q, rec[q], todo) /\ todo \in SUBSET Plugins
    BY <1>3, <1>5
  <2> HIDE DEF q, op, todo
  <2> QED  BY <2>1, <2>2, <2>3, <2>4, LoadReturnsKeeps
<1>6. CASE /\ UNCHANGED <<rec, enabled>>
           /\ \/ At("emit_failed") /\ job.op = "load_enabled" /\ Await("next")
              \/ (At("emit_failed") \/ At("emit_enabled") \/ At("emit_disabled")) /\ job' = Idle
  <2>1. \A p \in Plugins : ~InHand(p)
    BY <1>4, <1>6 DEF At, InHand
  <2>2. \/ job' = Idle
        \/ /\ job' \in Job /\ job' # Idle /\ job'.at = "next" /\ job'.op = "load_enabled"
    BY <1>3, <1>6 DEF Await, Job, Idle, Places, Ops
  <2>3. TypeOK' /\ PlaceFits'
    BY <1>1, <1>2, <1>6, <2>2 DEF ManagerInv, TypeOK, PlaceFits, Loading, Removing
  <2> QED  BY <1>1, <1>2, <1>6, <2>1, <2>2, <2>3, NobodyConcerned DEF Loading, Removing
<1> QED  BY <1>5, <1>6 DEF EmitReturns

----------------------------------------------------------------------------
(* The commit.                                                             *)

\* Where nothing conflicts nothing of what a plug-in stages is registered:
\* not by itself, since its record would know, and not by another plug-in,
\* since only the names of subscriptions are not looked up, and those differ.
LEMMA NothingStagedIsRegistered ==
  ASSUME ManagerInv, At("commit"), ~Conflict(job.id)
  PROVE  /\ Held(job.id) = {} /\ rec[job.id].handles = {}
         /\ \A n \in StagedSet(job.id) : holder[n] = None
<1>1. PICK q \in Plugins : q = job.id
  BY DEF ManagerInv, PlaceFits, At
<1>2. /\ Fits(q) /\ ~TakingDown(q) /\ ~rec[q].loaded
      /\ holder \in [Names -> Plugins \cup {Host, None}]
  BY <1>1 DEF ManagerInv, TypeOK, TakingDown, At, Fits, LoadFits, Loading
<1>3. /\ rec[q].handles = Held(q) /\ Held(q) \subseteq IntegrationNames
      /\ Held(q) \subseteq StagedSet(q)
  BY <1>2 DEF Fits, HoldingFits
<1>4. \A n \in StagedSet(q) \ Subscriptions : holder[n] = None
  BY <1>1 DEF Conflict, Registered
<1>5. Held(q) = {}
  <2> SUFFICES ASSUME NEW n \in Held(q)
               PROVE  FALSE
    OBVIOUS
  <2>1. holder[n] = q /\ n \in StagedSet(q) \ Subscriptions
    BY <1>3, Constants DEF Held
  <2> QED  BY <1>4, <2>1, Constants
<1>6. ASSUME NEW n \in StagedSet(q) \cap Subscriptions, holder[n] # None
      PROVE  FALSE
  <2>1. n \in Names /\ holder[n] \in Plugins \cup {Host}
    BY <1>2, <1>6, Constants
  <2>2. holder[n] # Host
    BY <2>1, Constants DEF ManagerInv, HostKeepsItsNames
  <2>3. PICK p \in Plugins : holder[n] = p
    BY <2>1, <2>2
  <2>4. n \in Held(p)
    BY <2>1, <2>3 DEF Held
  <2>5. n \in StagedSet(p) /\ p # q
    BY <1>5, <2>4 DEF ManagerInv, Fits, HoldingFits
  <2> QED  BY <2>5, Constants
<1> QED  BY <1>1, <1>3, <1>4, <1>5, <1>6

\* What registering some of them does.
LEMMA StagedNamesTaken ==
  ASSUME ManagerInv, NEW q \in Plugins, NEW S \in SUBSET StagedSet(q),
         Held(q) = {}, \A n \in StagedSet(q) : holder[n] = None,
         holder' = Registering(q, S)
  PROVE  /\ holder' \in [Names -> Plugins \cup {Host, None}]
         /\ Held(q)' = S
         /\ \A p \in Plugins \ {q} : Held(p)' = Held(p)
         /\ HostKeepsItsNames'
<1>1. S \in SUBSET Names /\ TypeOK /\ HostKeepsItsNames
  BY Constants DEF ManagerInv
<1>2. /\ holder' \in [Names -> Plugins \cup {Host, None}]
      /\ Held(q)' = Held(q) \cup S
      /\ \A p \in Plugins \ {q} : Held(p)' = Held(p) \ S
      /\ HostKeepsItsNames'
  BY <1>1, RegisteringHolds
<1>3. \A p \in Plugins : Held(p) \cap S = {}
  BY Constants DEF Held
<1> QED  BY <1>2, <1>3

\* A commit fails its checks, breaks off half-way, or is carried out.
LEMMA CommitKeeps ==
  ASSUME ManagerInv, Commit
  PROVE  ManagerInv'
<1>1. PICK q \in Plugins : q = job.id
  BY DEF Commit, ManagerInv, PlaceFits, At
<1>2. /\ job \in Job /\ job # Idle /\ job.at = "commit" /\ job.why = "none"
      /\ job.op \in {"enable", "load_enabled"}
      /\ job.op = "load_enabled" => q \in enabled
  BY <1>1, JobTyped DEF Commit, At, ManagerInv, PlaceFits, Loading
<1>3. /\ rec[q] \in Record /\ Fits(q) /\ rec[q].active /\ rec[q].pending /\ ~rec[q].loaded
      /\ rec[q].inspected /\ rec[q].status \in {"discovered", "disabled"}
  BY <1>1, <1>2 DEF ManagerInv, TypeOK, Fits, LoadFits, Loading
<1>4. UNCHANGED <<closed, sweep, owners, enabled, queue, calls, muffled>>
  BY DEF Commit
<1>5. queue' \in Seq([op : Ops, id : Plugins \cup {None}]) /\ QueueFits'
  BY <1>4, QueueStays
<1>6. \A p \in Plugins : InHand(p) => p = q
  BY <1>1 DEF InHand
<1>7. CASE Conflict(q)
  <2>1. PICK why \in {"failed", "cancelled"} : why = AbortReason
    BY DEF AbortReason
  <2>2. job' = Removal(job, why, rec[job.id].handles) /\ holder' = holder /\ rec' = rec
    BY <1>1, <1>7, <2>1 DEF Commit
  <2> QED  BY <1>2, <1>4, <2>2, LoadTakenBack DEF Loading, registryVars
<1>8. ASSUME NEW S \in SUBSET StagedSet(q), ~Conflict(q), holder' = Registering(q, S)
      PROVE  /\ Held(q) = {} /\ rec[q].handles = {}
             /\ holder' \in [Names -> Plugins \cup {Host, None}]
             /\ Held(q)' = S /\ \A p \in Plugins \ {q} : Held(p)' = Held(p)
             /\ HostKeepsItsNames'
  <2>1. /\ Held(q) = {} /\ rec[q].handles = {}
        /\ \A n \in StagedSet(q) : holder[n] = None
    BY <1>1, <1>2, <1>8, NothingStagedIsRegistered DEF At
  <2> QED  BY <1>8, <2>1, StagedNamesTaken
<1>9. CASE ~Conflict(q) /\ BreaksOff(q)
  <2> DEFINE S == CommittedPart(q)
  <2>1. S \in SUBSET StagedSet(q)
    BY DEF CommittedPart
  <2>2. holder' = Registering(q, S) /\ job' = Removal(job, "rollback", S) /\ rec' = rec
    BY <1>1, <1>9 DEF Commit
  <2> HIDE DEF S
  <2>3. /\ Held(q) = {} /\ rec[q].handles = {}
        /\ holder' \in [Names -> Plugins \cup {Host, None}]
        /\ Held(q)' = S /\ \A p \in Plugins \ {q} : Held(p)' = Held(p)
        /\ HostKeepsItsNames'
    BY <1>8, <1>9, <2>1, <2>2
  <2>4. /\ job' \in Job /\ job' # Idle /\ job'.at = "remove" /\ job'.op = job.op /\ job'.id = q
        /\ job'.why = "rollback" /\ job'.left = S /\ job'.kept = {}
    <3>1. S \in SUBSET Names /\ "rollback" \in Reasons
      BY <2>1, Constants DEF Reasons
    <3> QED  BY <1>1, <1>2, <2>2, <3>1, RemovalTyped
  <2>5. TypeOK'
    BY <1>4, <1>5, <2>2, <2>3, <2>4 DEF ManagerInv, TypeOK
  <2>6. PlaceFits'
    BY <1>2, <2>4 DEF PlaceFits, Loading, Removing
  <2>7. InHand(q)' /\ TakingDown(q)'
    BY <2>4 DEF InHand, TakingDown
  <2>8. LoadFits(q)' /\ RemovalFits(q)'
    BY <1>3, <2>2, <2>3, <2>4 DEF LoadFits, RemovalFits, Loading, Removing
  <2>9. HoldingFits(q)' /\ RecordFits(q)'
    BY <1>3, <2>1, <2>2, <2>3, <2>7 DEF HoldingFits, RecordFits
  <2> QED  BY <1>4, <1>5, <1>6, <2>2, <2>3, <2>4, <2>5, <2>6, <2>8, <2>9, OneConcerned DEF Fits
<1>10. CASE ~Conflict(q) /\ ~BreaksOff(q)
  <2> DEFINE S == StagedSet(q)
  <2>1. S \in SUBSET Names
    BY Constants
  <2>2. /\ holder' = Registering(q, S)
        /\ \/ /\ rec' = [rec EXCEPT ![q].handles = S]
              /\ job' = Removal(job, "cancelled", S)
           \/ /\ \E wanted \in Readings(q) :
                    rec' = [rec EXCEPT ![q].handles = S, ![q].loaded = TRUE,
                                       ![q].status = IF wanted THEN "enabled" ELSE "loaded"]
              /\ job' = [job EXCEPT !.at = "emit_loaded"]
    BY <1>1, <1>10 DEF Commit, Await
  <2>3. /\ Held(q) = {} /\ rec[q].handles = {}
        /\ holder' \in [Names -> Plugins \cup {Host, None}]
        /\ Held(q)' = S /\ \A p \in Plugins \ {q} : Held(p)' = Held(p)
        /\ HostKeepsItsNames'
    BY <1>8, <1>10, <2>2
  <2> HIDE DEF S
  <2>4. CASE rec' = [rec EXCEPT ![q].handles = S] /\ job' = Removal(job, "cancelled", S)
    <3> DEFINE n == [rec[q] EXCEPT !.handles = S]
    <3>1. /\ n \in Record /\ n.handles = S /\ n.active /\ n.pending /\ ~n.loaded /\ n.inspected
          /\ n.status \in {"discovered", "disabled"}
      BY <1>3, <2>1 DEF Record
    <3>2. rec' = [rec EXCEPT ![q] = n]
      BY <2>4
    <3> HIDE DEF n
    <3>3. /\ rec' \in [Plugins -> Record] /\ rec'[q] = n
          /\ \A p \in Plugins \ {q} : rec'[p] = rec[p]
      BY <3>1, <3>2, RecordReplaced DEF ManagerInv
    <3>4. /\ job' \in Job /\ job' # Idle /\ job'.at = "remove" /\ job'.op = job.op /\ job'.id = q
          /\ job'.why = "cancelled" /\ job'.left = S /\ job'.kept = {}
      BY <1>1, <1>2, <2>1, <2>4, RemovalTyped DEF Reasons
    <3>5. TypeOK'
      BY <1>4, <1>5, <2>3, <3>3, <3>4 DEF ManagerInv, TypeOK
    <3>6. PlaceFits'
      BY <1>2, <3>4 DEF PlaceFits, Loading, Removing
    <3>7. InHand(q)' /\ TakingDown(q)'
      BY <3>4 DEF InHand, TakingDown
    <3>8. LoadFits(q)' /\ RemovalFits(q)'
      BY <2>3, <3>1, <3>3, <3>4 DEF LoadFits, RemovalFits, Loading, Removing
    <3>9. HoldingFits(q)' /\ RecordFits(q)'
      BY <2>3, <3>1, <3>3, <3>7 DEF HoldingFits, RecordFits, S
    <3> QED  BY <1>4, <1>5, <1>6, <2>3, <3>3, <3>4, <3>5, <3>6, <3>8, <3>9, OneConcerned DEF Fits
  <2>5. ASSUME NEW wanted \in Readings(q),
               rec' = [rec EXCEPT ![q].handles = S, ![q].loaded = TRUE,
                                  ![q].status = IF wanted THEN "enabled" ELSE "loaded"],
               job' = [job EXCEPT !.at = "emit_loaded"]
        PROVE  ManagerInv'
    <3> DEFINE n == [rec[q] EXCEPT !.handles = S, !.loaded = TRUE,
                                   !.status = IF wanted THEN "enabled" ELSE "loaded"]
    <3>1. /\ n \in Record /\ n.handles = S /\ n.active /\ n.pending /\ n.loaded /\ n.inspected
          /\ n.status \in {"loaded", "enabled"}
          /\ n.status = "enabled" => q \in enabled
      <4>1. wanted => q \in enabled
        BY <2>5 DEF Readings
      <4> QED  BY <1>3, <2>1, <4>1 DEF Record, Statuses
    <3>2. rec' = [rec EXCEPT ![q] = n]
      BY <2>5
    <3> HIDE DEF n
    <3>3. /\ rec' \in [Plugins -> Record] /\ rec'[q] = n
          /\ \A p \in Plugins \ {q} : rec'[p] = rec[p]
      BY <3>1, <3>2, RecordReplaced DEF ManagerInv
    <3>4. /\ job' \in Job /\ job' # Idle /\ job'.at = "emit_loaded" /\ job'.op = job.op
          /\ job'.id = q /\ job'.why = "none"
      BY <1>1, <1>2, <2>5 DEF Job, Idle, Places, Ops
    <3>5. TypeOK'
      BY <1>4, <1>5, <2>3, <3>3, <3>4 DEF ManagerInv, TypeOK
    <3>6. PlaceFits'
      BY <1>2, <1>4, <3>4 DEF PlaceFits, Loading, Removing
    <3>7. ~InHand(q)' /\ ~TakingDown(q)'
      BY <3>4 DEF InHand, TakingDown
    <3>8. LoadFits(q)' /\ RemovalFits(q)'
      BY <3>1, <3>3, <3>4 DEF LoadFits, RemovalFits, Loading, Removing
    <3>9. HoldingFits(q)' /\ RecordFits(q)'
      BY <1>4, <2>3, <3>1, <3>3, <3>7 DEF HoldingFits, RecordFits, S
    <3> QED  BY <1>4, <1>5, <1>6, <2>3, <3>3, <3>4, <3>5, <3>6, <3>8, <3>9, OneConcerned DEF Fits
  <2> QED  BY <2>2, <2>4, <2>5
<1> QED  BY <1>7, <1>9, <1>10

----------------------------------------------------------------------------
(* Removals go on and end.                                                 *)

\* The removal in hand.
LEMMA RemovalInHand ==
  ASSUME ManagerInv, job # Idle, job.at \in Removing, NEW q, q = job.id
  PROVE  /\ job \in Job /\ q \in Plugins /\ Fits(q) /\ rec[q] \in Record
         /\ InHand(q) /\ TakingDown(q)
         /\ \A p \in Plugins : InHand(p) => p = q
         /\ job.why \in Reasons \ {"none"}
         /\ (job.op = "shutdown" <=> job.why = "shutdown")
         /\ (job.why = "disable" => q \notin enabled)
<1>1. job \in Job
  BY JobTyped DEF ManagerInv
<1>2. q \in Plugins /\ job.why # "none"
      /\ (job.op = "shutdown" <=> job.why = "shutdown")
      /\ (job.why = "disable" => q \notin enabled)
  BY DEF ManagerInv, PlaceFits, Removing
<1>3. Fits(q) /\ rec[q] \in Record
  BY <1>2 DEF ManagerInv, TypeOK
<1>4. InHand(q) /\ TakingDown(q) /\ \A p \in Plugins : InHand(p) => p = q
  BY DEF InHand, TakingDown, Removing
<1> QED  BY <1>1, <1>2, <1>3, <1>4 DEF Job

\* The end of a removal enters what came of it: r is the record, without its
\* status, and says what could not be released.
LEMMA CleanedKeeps ==
  ASSUME ManagerInv, job # Idle, job.at \in Removing, job.why # "rollback",
         NEW q, q = job.id, NEW r \in Record, NEW dirty \in BOOLEAN, Cleaned(q, r, dirty),
         UNCHANGED <<closed, sweep, owners, enabled, queue, calls>>,
         holder' \in [Names -> Plugins \cup {Host, None}], HostKeepsItsNames',
         \A p \in Plugins \ {q} : Held(p)' = Held(p),
         Held(q)' \subseteq StagedSet(q), Held(q)' \subseteq IntegrationNames,
         ~r.loaded, ~r.active, r.handles = Held(q)',
         dirty <=> r.handles # {} \/ r.pending,
         r.status = rec[q].status, r.inspected = rec[q].inspected,
         ~r.inspected => Untouched(r)
  PROVE  ManagerInv'
<1>1. /\ job \in Job /\ q \in Plugins /\ Fits(q)
      /\ \A p \in Plugins : InHand(p) => p = q
      /\ job.why \in Reasons \ {"none"}
      /\ (job.op = "shutdown" <=> job.why = "shutdown")
      /\ (job.why = "disable" => q \notin enabled)
  BY RemovalInHand
<1> DEFINE silent == job.why = "failed" /\ job.cancelled
           status == IF dirty THEN "failed"
                     ELSE IF job.why = "disable" THEN "disabled" ELSE "discovered"
           n == IF silent \/ job.why = "unsaved" THEN r
                ELSE IF job.why = "failed" THEN [r EXCEPT !.status = "failed"]
                ELSE [r EXCEPT !.status = status]
<1>2. /\ rec' = [rec EXCEPT ![q] = n]
      /\ muffled' = IF silent THEN muffled \cup {q} ELSE muffled \ {q}
      /\ job' = IF job.why = "disable" THEN [job EXCEPT !.at = "emit_disabled"]
                ELSE IF job.why = "shutdown" THEN [job EXCEPT !.at = "next"]
                ELSE IF job.why = "cancelled" \/ job.cancelled THEN Idle
                ELSE [job EXCEPT !.at = "emit_failed"]
  BY DEF Cleaned
<1>3. status \in Statuses /\ "failed" \in Statuses
  BY DEF Statuses
<1>4. /\ n \in Record
      /\ n.inspected = r.inspected /\ n.active = r.active /\ n.loaded = r.loaded
      /\ n.pending = r.pending /\ n.handles = r.handles
      /\ n.status = IF silent \/ job.why = "unsaved" THEN r.status
                    ELSE IF job.why = "failed" THEN "failed" ELSE status
  <2> HIDE DEF status, silent
  <2> QED  BY <1>3, StatusReplaced
<1> HIDE DEF n
<1>5. /\ rec' \in [Plugins -> Record] /\ rec'[q] = n
      /\ \A p \in Plugins \ {q} : rec'[p] = rec[p]
  BY <1>1, <1>2, <1>4, RecordReplaced DEF ManagerInv
<1>6. \/ job' = Idle
      \/ /\ job' \in Job /\ job' # Idle /\ job'.id = q /\ job'.op = job.op
         /\ \/ job'.at = "next" /\ job.why = "shutdown"
            \/ job'.at \in {"emit_disabled", "emit_failed"} /\ job.why # "shutdown"
  BY <1>1, <1>2 DEF Job, Idle, Places, Ops
<1>7. muffled' \in SUBSET Plugins
      /\ \A p \in Plugins \ {q} : p \in muffled <=> p \in muffled'
  BY <1>1, <1>2 DEF ManagerInv, TypeOK
<1>8. queue' \in Seq([op : Ops, id : Plugins \cup {None}]) /\ QueueFits'
  BY QueueStays
<1>9. TypeOK'
  BY <1>5, <1>6, <1>7, <1>8 DEF ManagerInv, TypeOK
<1>10. PlaceFits'
  BY <1>1, <1>6 DEF PlaceFits, Loading, Removing
<1>11. ~InHand(q)' /\ ~TakingDown(q)' /\ LoadFits(q)' /\ RemovalFits(q)'
  BY <1>6 DEF InHand, TakingDown, LoadFits, RemovalFits, Loading, Removing
<1>12. HoldingFits(q)'
  BY <1>4, <1>5, <1>11 DEF HoldingFits
<1>13. /\ job.why = "failed" => r.status \in {"discovered", "disabled"}
       /\ job.why = "unsaved" => r.status = "failed"
  BY <1>1 DEF Fits, LoadFits
<1>14. RecordFits(q)'
  <2>1. /\ silent => q \in muffled'
        /\ ~silent => q \notin muffled'
    BY <1>2
  <2>2. n.status \notin {"loaded", "enabled"}
    BY <1>4, <1>13
  <2>3. n.status = "disabled" /\ ~silent => Untouched(n) /\ q \notin enabled
    BY <1>1, <1>4, <1>13 DEF Untouched
  <2>4. ~Untouched(n) => n.status = "failed" \/ silent
    BY <1>4, <1>13 DEF Untouched
  <2>5. ~n.inspected => Untouched(n)
    BY <1>4 DEF Untouched
  <2> HIDE DEF silent
  <2> QED  BY <1>4, <1>5, <1>11, <2>1, <2>2, <2>3, <2>4, <2>5 DEF RecordFits
<1> QED  BY <1>1, <1>5, <1>6, <1>7, <1>8, <1>9, <1>10, <1>11, <1>12, <1>14, OneConcerned DEF Fits

\* The removal of handles ends, with what could not be removed.
LEMMA HandlesRemovedKeeps ==
  ASSUME ManagerInv, job # Idle, job.at \in {"remove", "close"},
         NEW kept \in SUBSET IntegrationNames, HandlesRemoved(kept),
         UNCHANGED <<closed, sweep, owners, enabled, queue, calls>>,
         holder' \in [Names -> Plugins \cup {Host, None}], HostKeepsItsNames',
         \A p \in Plugins \ {job.id} : Held(p)' = Held(p),
         \A p \in {job.id} : Held(p)' = kept /\ kept \subseteq Held(p)
  PROVE  ManagerInv'
<1>1. PICK q : q = job.id
  OBVIOUS
<1>2. /\ job \in Job /\ q \in Plugins /\ Fits(q) /\ rec[q] \in Record
      /\ TakingDown(q)
      /\ \A p \in Plugins : InHand(p) => p = q
      /\ job.why \in Reasons \ {"none"}
      /\ (job.op = "shutdown" <=> job.why = "shutdown")
      /\ (job.why = "disable" => q \notin enabled)
  BY <1>1, RemovalInHand DEF Removing
<1>3. Held(q)' = kept /\ kept \subseteq Held(q) /\ kept \subseteq StagedSet(q)
      /\ kept \in SUBSET Names
  BY <1>1, <1>2, Constants DEF Fits, HoldingFits
<1>4. \A p \in Plugins \ {q} : Held(p)' = Held(p)
  BY <1>1
<1>5. queue' \in Seq([op : Ops, id : Plugins \cup {None}]) /\ QueueFits'
  BY QueueStays
<1> DEFINE n == [rec[q] EXCEPT !.handles = kept]
           r == [rec[q] EXCEPT !.handles = kept, !.active = FALSE]
           cleaned == [r EXCEPT !.loaded = FALSE]
<1>6. /\ n \in Record /\ n.handles = kept /\ n.status = rec[q].status
      /\ n.inspected = rec[q].inspected /\ n.active = rec[q].active
      /\ n.loaded = rec[q].loaded /\ n.pending = rec[q].pending
  BY <1>2, <1>3 DEF Record
<1>7. /\ r \in Record /\ r.handles = kept /\ r.status = rec[q].status
      /\ r.inspected = rec[q].inspected /\ ~r.active
      /\ r.loaded = rec[q].loaded /\ r.pending = rec[q].pending
  BY <1>2, <1>3 DEF Record
<1>8. /\ cleaned \in Record /\ cleaned.handles = kept /\ cleaned.status = rec[q].status
      /\ cleaned.inspected = rec[q].inspected /\ ~cleaned.active
      /\ ~cleaned.loaded /\ cleaned.pending = rec[q].pending
  <2> HIDE DEF r
  <2> QED  BY <1>7 DEF Record
<1>9. ~rec[q].inspected => Untouched(rec[q])
  BY <1>2 DEF Fits, RecordFits
<1>10. CASE job.why = "rollback"
  <2>1. PICK why \in {"failed", "cancelled"} : why = AbortReason
    BY DEF AbortReason
  <2>2. /\ rec' = [rec EXCEPT ![q] = n]
        /\ job' = Removal(job, why, kept)
        /\ muffled' = muffled
    BY <1>1, <1>10, <2>1 DEF HandlesRemoved
  <2> HIDE DEF n
  <2>3. /\ rec' \in [Plugins -> Record] /\ rec'[q] = n
        /\ \A p \in Plugins \ {q} : rec'[p] = rec[p]
    BY <1>2, <1>6, <2>2, RecordReplaced DEF ManagerInv
  <2>4. /\ job' \in Job /\ job' # Idle /\ job'.at = "remove" /\ job'.op = job.op /\ job'.id = q
        /\ job'.why = why /\ job'.left = kept /\ job'.kept = {}
    <3>1. why \in Reasons
      BY DEF Reasons
    <3> QED  BY <1>1, <1>2, <1>3, <2>2, <3>1, RemovalTyped
  <2>5. TypeOK'
    BY <1>5, <2>2, <2>3, <2>4 DEF ManagerInv, TypeOK
  <2>6. PlaceFits'
    BY <1>2, <1>10, <2>4 DEF PlaceFits, Loading, Removing
  <2>7. InHand(q)' /\ TakingDown(q)'
    BY <2>4 DEF InHand, TakingDown
  <2>8. rec[q].inspected /\ rec[q].status \in {"discovered", "disabled"}
    BY <1>1, <1>2, <1>10 DEF Fits, LoadFits, Removing
  <2>9. LoadFits(q)' /\ RemovalFits(q)'
    BY <1>3, <1>6, <2>3, <2>4, <2>8 DEF LoadFits, RemovalFits, Loading, Removing
  <2>10. HoldingFits(q)' /\ RecordFits(q)'
    BY <1>2, <1>3, <1>6, <2>3, <2>7, <2>8 DEF Fits, HoldingFits, RecordFits
  <2> QED  BY <1>2, <1>4, <1>5, <2>2, <2>3, <2>4, <2>5, <2>6, <2>9, <2>10, OneConcerned DEF Fits
<1>11. CASE job.why # "rollback" /\ r.pending
  <2>1. /\ rec' = [rec EXCEPT ![q] = r]
        /\ job' = [job EXCEPT !.at = "hook", !.left = {}, !.kept = kept]
        /\ muffled' = muffled
    BY <1>1, <1>11 DEF HandlesRemoved
  <2> HIDE DEF r
  <2>2. /\ rec' \in [Plugins -> Record] /\ rec'[q] = r
        /\ \A p \in Plugins \ {q} : rec'[p] = rec[p]
    BY <1>2, <1>7, <2>1, RecordReplaced DEF ManagerInv
  <2>3. /\ job' \in Job /\ job' # Idle /\ job'.at = "hook" /\ job'.op = job.op /\ job'.id = q
        /\ job'.why = job.why /\ job'.left = {} /\ job'.kept = kept
    BY <1>1, <1>2, <1>3, <2>1 DEF Job, Idle, Places, Ops
  <2>4. TypeOK'
    BY <1>5, <2>1, <2>2, <2>3 DEF ManagerInv, TypeOK
  <2>5. PlaceFits'
    BY <1>2, <1>11, <2>3 DEF PlaceFits, Loading, Removing
  <2>6. InHand(q)' /\ TakingDown(q)'
    BY <2>3 DEF InHand, TakingDown
  <2>7. LoadFits(q)' /\ RemovalFits(q)'
    <3>1. LoadFits(q)
      BY <1>2 DEF Fits
    <3> QED  BY <1>1, <1>3, <1>7, <1>11, <2>2, <2>3, <3>1
             DEF LoadFits, RemovalFits, Loading, Removing
  <2>8. HoldingFits(q)' /\ RecordFits(q)'
    BY <1>2, <1>3, <1>7, <1>9, <1>11, <2>2, <2>6 DEF Fits, HoldingFits, RecordFits, Untouched
  <2> QED  BY <1>2, <1>4, <1>5, <2>1, <2>2, <2>3, <2>4, <2>5, <2>7, <2>8, OneConcerned DEF Fits
<1>12. CASE job.why # "rollback" /\ ~r.pending
  <2>1. Cleaned(q, cleaned, kept # {})
    BY <1>1, <1>12 DEF HandlesRemoved
  <2>2. ~cleaned.inspected => Untouched(cleaned)
    <3>1. rec[q].handles = {} => kept = {}
      BY <1>1, <1>2, <1>3, <1>12 DEF Fits, RemovalFits
    <3> QED  BY <1>8, <1>9, <3>1 DEF Untouched
  <2>3. (kept # {}) <=> cleaned.handles # {} \/ cleaned.pending
    BY <1>7, <1>8, <1>12
  <2> HIDE DEF cleaned
  <2> QED  BY <1>1, <1>3, <1>4, <1>8, <1>12, <2>1, <2>2, <2>3, CleanedKeeps DEF Removing
<1> QED  BY <1>10, <1>11, <1>12

\* Listeners and actions are removed; integrations have to be closed first.
LEMMA RemoveHandlesKeeps ==
  ASSUME ManagerInv, RemoveHandles
  PROVE  ManagerInv'
<1>1. PICK q : q = job.id
  OBVIOUS
<1>2. job # Idle /\ job.at = "remove"
  BY DEF RemoveHandles, At
<1>3. /\ job \in Job /\ q \in Plugins /\ Fits(q) /\ rec[q] \in Record
      /\ TakingDown(q) /\ InHand(q)
      /\ \A p \in Plugins : InHand(p) => p = q
      /\ job.why \in Reasons \ {"none"}
      /\ (job.op = "shutdown" <=> job.why = "shutdown")
      /\ (job.why = "disable" => q \notin enabled)
  BY <1>1, <1>2, RemovalInHand DEF Removing
<1>4. job.left = Held(q) /\ job.kept = {} /\ Held(q) \subseteq StagedSet(q)
  BY <1>1, <1>2, <1>3 DEF Fits, RemovalFits, HoldingFits
<1> DEFINE ints == job.left \cap IntegrationNames
<1>5. UNCHANGED <<closed, sweep, owners, enabled, queue, calls>>
  BY DEF RemoveHandles
<1>6. holder' = Unregistering(job.left \ ints)
  BY DEF RemoveHandles
<1>7. /\ holder' \in [Names -> Plugins \cup {Host, None}]
      /\ \A p \in Plugins : Held(p)' = Held(p) \ (job.left \ ints)
      /\ HostKeepsItsNames'
  <2>1. job.left \ ints \in SUBSET Names
    BY <1>4 DEF Held
  <2> QED  BY <1>6, <2>1, UnregisteringHolds DEF ManagerInv
<1>8. Held(q)' = ints /\ ints \subseteq Held(q) /\ ints \in SUBSET IntegrationNames
      /\ \A p \in Plugins \ {q} : Held(p)' = Held(p)
  <2>1. \A p \in Plugins \ {q} : Held(p) \cap Held(q) = {}
    BY DEF Held
  <2> QED  BY <1>3, <1>4, <1>7, <2>1
<1>9. CASE ints = {} \/ closed
  <2>1. HandlesRemoved(ints)
    BY <1>9 DEF RemoveHandles
  <2> HIDE DEF ints
  <2> QED  BY <1>1, <1>2, <1>5, <1>7, <1>8, <2>1, HandlesRemovedKeeps
<1>10. CASE ~(ints = {} \/ closed)
  <2>1. job' = [job EXCEPT !.at = "close", !.left = ints] /\ UNCHANGED <<rec, muffled>>
    BY <1>10 DEF RemoveHandles
  <2>2. ints \in SUBSET Names
    BY <1>4 DEF Held
  <2> HIDE DEF ints
  <2>3. /\ job' \in Job /\ job' # Idle /\ job'.at = "close" /\ job'.op = job.op /\ job'.id = q
        /\ job'.why = job.why /\ job'.left = ints /\ job'.kept = {}
    BY <1>1, <1>3, <1>4, <2>1, <2>2 DEF Job, Idle, Places, Ops
  <2>4. queue' \in Seq([op : Ops, id : Plugins \cup {None}]) /\ QueueFits'
    BY <1>5, QueueStays
  <2>5. TypeOK'
    BY <1>5, <1>7, <2>1, <2>3, <2>4 DEF ManagerInv, TypeOK
  <2>6. PlaceFits'
    BY <1>3, <1>5, <2>3 DEF PlaceFits, Loading, Removing
  <2>7. InHand(q)' /\ TakingDown(q)'
    BY <2>3 DEF InHand, TakingDown
  <2>8. LoadFits(q)' /\ RemovalFits(q)'
    BY <1>1, <1>2, <1>3, <1>8, <1>10, <2>1, <2>3
       DEF Fits, LoadFits, RemovalFits, Loading, Removing
  <2>9. HoldingFits(q)' /\ RecordFits(q)'
    BY <1>3, <1>4, <1>8, <2>1, <2>7 DEF Fits, HoldingFits, RecordFits, Untouched
  <2> QED  BY <1>3, <1>5, <1>7, <1>8, <2>1, <2>3, <2>4, <2>5, <2>6, <2>8, <2>9, OneConcerned
           DEF Fits
<1> QED  BY <1>9, <1>10

\* An integration is closed, or could not be.
LEMMA CloseReturnsKeeps ==
  ASSUME ManagerInv, CloseReturns
  PROVE  ManagerInv'
<1>1. PICK q : q = job.id
  OBVIOUS
<1>2. job # Idle /\ job.at = "close"
  BY DEF CloseReturns, At
<1>3. /\ job \in Job /\ q \in Plugins /\ Fits(q) /\ rec[q] \in Record
      /\ TakingDown(q) /\ InHand(q)
      /\ \A p \in Plugins : InHand(p) => p = q
      /\ job.why \in Reasons \ {"none"}
      /\ (job.op = "shutdown" <=> job.why = "shutdown")
      /\ (job.why = "disable" => q \notin enabled)
  BY <1>1, <1>2, RemovalInHand DEF Removing
<1>4. /\ job.left # {} /\ job.left \cap job.kept = {} /\ job.left \cup job.kept = Held(q)
      /\ Held(q) \subseteq StagedSet(q) /\ Held(q) \subseteq IntegrationNames
  BY <1>1, <1>2, <1>3 DEF Fits, RemovalFits, HoldingFits
<1> DEFINE n == LastOf(Staged[q], job.left)
           left == job.left \ {n}
<1>5. n \in job.left
  <2>1. job.left \cap Range(Staged[q]) # {}
    BY <1>4 DEF StagedSet
  <2> QED  BY <1>3, <2>1, LastOfIn, Constants
<1>6. PICK ok \in BOOLEAN :
         LET kept == IF ok THEN job.kept ELSE job.kept \cup {n} IN
         /\ holder' = IF ok THEN Unregistering({n}) ELSE holder
         /\ IF left = {} \/ closed THEN HandlesRemoved(kept \cup left)
            ELSE /\ job' = [job EXCEPT !.left = left, !.kept = kept]
                 /\ UNCHANGED <<rec, muffled>>
  BY <1>1 DEF CloseReturns
<1> DEFINE kept == IF ok THEN job.kept ELSE job.kept \cup {n}
<1>7. UNCHANGED <<closed, sweep, owners, enabled, queue, calls>>
  BY DEF CloseReturns
<1>8. /\ holder' = IF ok THEN Unregistering({n}) ELSE holder
      /\ (left = {} \/ closed) => HandlesRemoved(kept \cup left)
      /\ ~(left = {} \/ closed) => /\ job' = [job EXCEPT !.left = left, !.kept = kept]
                                   /\ UNCHANGED <<rec, muffled>>
  BY <1>6
<1>9. /\ left \cap kept = {} /\ left \cup kept = IF ok THEN Held(q) \ {n} ELSE Held(q)
      /\ left \in SUBSET Names /\ kept \in SUBSET Names
  <2> HIDE DEF n
  <2>1. Held(q) \subseteq Names
    BY DEF Held
  <2>2. CASE ok
    BY <1>4, <1>5, <2>1, <2>2
  <2>3. CASE ~ok
    BY <1>4, <1>5, <2>1, <2>3
  <2> QED  BY <2>2, <2>3
<1> HIDE DEF n, left, kept
<1>10. /\ holder' \in [Names -> Plugins \cup {Host, None}]
       /\ Held(q)' = left \cup kept
       /\ \A p \in Plugins \ {q} : Held(p)' = Held(p)
       /\ HostKeepsItsNames'
  <2>1. CASE ok
    <3>1. {n} \in SUBSET Names /\ n \in Held(q)
      BY <1>4, <1>5 DEF Held
    <3>2. /\ holder' \in [Names -> Plugins \cup {Host, None}]
          /\ \A p \in Plugins : Held(p)' = Held(p) \ {n}
          /\ HostKeepsItsNames'
      BY <1>8, <2>1, <3>1, UnregisteringHolds DEF ManagerInv
    <3>3. \A p \in Plugins \ {q} : n \notin Held(p)
      BY <3>1 DEF Held
    <3>4. Held(q)' = left \cup kept
      <4>1. left \cup kept = Held(q) \ {n}
        BY <1>9, <2>1
      <4> QED  BY <1>3, <3>2, <4>1
    <3>5. ASSUME NEW p \in Plugins \ {q}
          PROVE  Held(p)' = Held(p)
      <4>1. Held(p)' = Held(p) \ {n} /\ n \notin Held(p)
        BY <3>2, <3>3
      <4> QED  BY <4>1
    <3> QED  BY <3>2, <3>4, <3>5
  <2>2. CASE ~ok
    <3>1. holder' = holder
      BY <1>8, <2>2
    <3> QED  BY <1>9, <2>2, <3>1 DEF Held, ManagerInv, TypeOK, HostKeepsItsNames
  <2> QED  BY <2>1, <2>2
<1>11. CASE left = {} \/ closed
  <2>1. HandlesRemoved(kept \cup left)
    BY <1>8, <1>11
  <2>2. /\ kept \cup left \in SUBSET IntegrationNames /\ Held(q)' = kept \cup left
        /\ kept \cup left \subseteq Held(q)
    BY <1>4, <1>9, <1>10
  <2> QED  BY <1>1, <1>2, <1>7, <1>10, <2>1, <2>2, HandlesRemovedKeeps
<1>12. CASE ~(left = {} \/ closed)
  <2>1. job' = [job EXCEPT !.left = left, !.kept = kept] /\ UNCHANGED <<rec, muffled>>
    BY <1>8, <1>12
  <2>2. /\ job' \in Job /\ job' # Idle /\ job'.at = "close" /\ job'.op = job.op /\ job'.id = q
        /\ job'.why = job.why /\ job'.left = left /\ job'.kept = kept
    BY <1>1, <1>2, <1>3, <1>9, <2>1 DEF Job, Idle, Ops
  <2>3. queue' \in Seq([op : Ops, id : Plugins \cup {None}]) /\ QueueFits'
    BY <1>7, QueueStays
  <2>4. TypeOK'
    BY <1>7, <1>10, <2>1, <2>2, <2>3 DEF ManagerInv, TypeOK
  <2>5. PlaceFits'
    BY <1>3, <1>7, <2>2 DEF PlaceFits, Loading, Removing
  <2>6. InHand(q)' /\ TakingDown(q)'
    BY <2>2 DEF InHand, TakingDown
  <2>7. Held(q)' \subseteq Held(q)
    BY <1>9, <1>10
  <2>8. LoadFits(q)' /\ RemovalFits(q)'
    BY <1>1, <1>2, <1>3, <1>4, <1>9, <1>10, <1>12, <2>1, <2>2, <2>7
       DEF Fits, LoadFits, RemovalFits, Loading, Removing
  <2>9. HoldingFits(q)' /\ RecordFits(q)'
    BY <1>3, <1>4, <2>1, <2>6, <2>7 DEF Fits, HoldingFits, RecordFits, Untouched
  <2> QED  BY <1>3, <1>7, <1>10, <2>1, <2>2, <2>3, <2>4, <2>5, <2>8, <2>9, OneConcerned DEF Fits
<1> QED  BY <1>11, <1>12

\* The shutdown hook ends.
LEMMA ShutdownHookKeeps ==
  ASSUME ManagerInv, ShutdownHook
  PROVE  ManagerInv'
<1>1. PICK q : q = job.id
  OBVIOUS
<1>2. job # Idle /\ job.at = "hook"
  BY DEF ShutdownHook, At
<1>3. q \in Plugins /\ Fits(q) /\ rec[q] \in Record /\ job.why # "rollback"
  BY <1>1, <1>2, RemovalInHand DEF Removing, ManagerInv, PlaceFits
<1>4. /\ job.kept = Held(q) /\ rec[q].handles = Held(q) /\ Held(q) \subseteq IntegrationNames
      /\ Held(q) \subseteq StagedSet(q)
  BY <1>1, <1>2, <1>3 DEF Fits, RemovalFits, HoldingFits
<1>5. PICK ok \in BOOLEAN :
         Cleaned(q, [rec[q] EXCEPT !.pending = ~ok, !.loaded = FALSE], job.kept # {} \/ ~ok)
  BY <1>1 DEF ShutdownHook
<1> DEFINE r == [rec[q] EXCEPT !.pending = ~ok, !.loaded = FALSE]
<1>6. /\ r \in Record /\ r.handles = Held(q) /\ r.status = rec[q].status
      /\ r.inspected = rec[q].inspected /\ ~r.active /\ ~r.loaded /\ r.pending = ~ok
      /\ rec[q].pending
  <2>1. rec[q].pending /\ ~rec[q].active
    BY <1>1, <1>2, <1>3 DEF Fits, LoadFits
  <2> QED  BY <1>3, <1>4, <2>1 DEF Record
<1>7. UNCHANGED <<holder, closed, sweep, owners, enabled, queue, calls>>
  BY DEF ShutdownHook, registryVars
<1>8. /\ holder' \in [Names -> Plugins \cup {Host, None}] /\ HostKeepsItsNames'
      /\ \A p \in Plugins : Held(p)' = Held(p)
  BY <1>7 DEF ManagerInv, TypeOK, HostKeepsItsNames, Held
<1>9. r.inspected
  BY <1>3, <1>6 DEF Fits, RecordFits, Untouched
<1>10. (job.kept # {} \/ ~ok) \in BOOLEAN
       /\ ((job.kept # {} \/ ~ok) <=> r.handles # {} \/ r.pending)
  BY <1>4, <1>6
<1> DEFINE dirty == job.kept # {} \/ ~ok
<1>11. Cleaned(q, r, dirty) /\ dirty \in BOOLEAN /\ (dirty <=> r.handles # {} \/ r.pending)
  BY <1>5, <1>10
<1>12. Held(q)' = Held(q)
  BY <1>3, <1>8
<1> HIDE DEF r, dirty
<1> QED  BY <1>1, <1>2, <1>3, <1>4, <1>6, <1>7, <1>8, <1>9, <1>11, <1>12, CleanedKeeps, ZenonT(40)
         DEF Removing

----------------------------------------------------------------------------
(* The invariant holds.                                                    *)

\* At the start nothing is loaded and load_enabled is about to begin.
LEMMA ManagerInitInv == Init => ManagerInv
<1> SUFFICES ASSUME Init PROVE ManagerInv
  OBVIOUS
<1> DEFINE Entries == [op : Ops, id : Plugins \cup {None}]
           first == [op |-> "load_enabled", id |-> None]
<1>1. first \in Entries
  BY DEF Ops
<1>2. queue = <<first>> /\ job = Idle
  BY DEF Init
<1>3. queue \in Seq(Entries) /\ DOMAIN queue = {1} /\ queue[1] = first
  BY <1>1, <1>2
<1>4. holder = [n \in Names |-> IF n \in HostNames THEN Host ELSE None]
  BY DEF Init, RegistriesInit
<1>5. sweep \in Sweep /\ closed \in BOOLEAN
  BY DEF Init, RegistriesInit, Sweep
<1>6. /\ rec \in [Plugins -> Record]
      /\ \A p \in Plugins : /\ rec[p].status \in {"discovered", "duplicate"}
                            /\ Untouched(rec[p]) /\ ~rec[p].inspected
  BY DEF Init, Record, Statuses, Untouched
<1>7. TypeOK
  BY <1>2, <1>3, <1>4, <1>5, <1>6, ManagerConstants DEF TypeOK, Init
<1>8. QueueFits /\ PlaceFits /\ HostKeepsItsNames
  BY <1>2, <1>3, <1>4, Constants DEF QueueFits, PlaceFits, HostKeepsItsNames
<1>9. ASSUME NEW p \in Plugins
      PROVE  Fits(p)
  <2>1. Held(p) = {}
    BY <1>4, Constants DEF Held
  <2>2. /\ rec[p].status \in {"discovered", "duplicate"}
        /\ Untouched(rec[p]) /\ ~rec[p].inspected
    BY <1>6
  <2> QED  BY <1>2, <2>1, <2>2
           DEF Fits, LoadFits, RemovalFits, HoldingFits, RecordFits, TakingDown, Untouched
<1> QED  BY <1>7, <1>8, <1>9 DEF ManagerInv

\* Every step keeps it.
LEMMA ManagerNextInv ==
  ASSUME ManagerInv, [Next]_vars
  PROVE  ManagerInv'
<1>1. CASE \E p \in Plugins : Inspect(p)
  BY <1>1, InspectKeeps
<1>2. CASE \E op \in Ops, p \in Plugins : Call(op, p)
  BY <1>2, CallKeeps
<1>3. CASE \E i \in DOMAIN queue : GiveUp(i)
  BY <1>3, GiveUpKeeps
<1>4. CASE Aclose
  BY <1>4, AcloseKeeps
<1>5. CASE Cancel
  BY <1>5, CancelKeeps
<1>6. CASE Proceed
  BY <1>6, StartKeeps, NextToLoadKeeps, NextToUnloadKeeps, HookReturnsKeeps, HookFailsKeeps,
     CommitKeeps, EmitReturnsKeeps, EmitCancelledKeeps, RemoveHandlesKeeps, CloseReturnsKeeps,
     ShutdownHookKeeps DEF Proceed
<1>7. CASE Sweeping
  BY <1>7, SweepingKeeps
<1>8. CASE Closed \/ UNCHANGED vars
  <2>1. UNCHANGED <<holder, closed, sweep, rec, owners, enabled, job, queue, calls, muffled>>
    BY <1>8 DEF Closed, vars, registryVars, managerVars
  <2>2. TypeOK' /\ QueueFits'
    BY <2>1 DEF ManagerInv, TypeOK, QueueFits
  <2> QED  BY <2>1, <2>2, Elsewhere
<1> QED  BY <1>1, <1>2, <1>3, <1>4, <1>5, <1>6, <1>7, <1>8 DEF Next

\* The inductive invariant holds in every reachable state.
THEOREM ManagerInvariant == Spec => []ManagerInv
  BY ManagerInitInv, ManagerNextInv, PTL DEF Spec

\* The variables of the manager and of the registries keep their types,
\* whatever plug-ins stage, raise and are called for.
THEOREM PluginTypeCorrect == Spec => []TypeOK
<1>1. ManagerInv => TypeOK
  BY DEF ManagerInv
<1> QED  BY <1>1, ManagerInvariant, PTL

\* Between two calls the status of every plug-in says how things are.
THEOREM PluginStatusIsTrue == Spec => []StatusTellsTruth
<1>1. ManagerInv => StatusTellsTruth
  <2> SUFFICES ASSUME ManagerInv, job = Idle, NEW p \in Plugins
               PROVE  LET r == rec[p] IN
                      /\ r.status \in {"loaded", "enabled"} => r.loaded
                      /\ r.loaded => r.active /\ Held(p) = StagedSet(p)
                      /\ r.status = "enabled" => p \in enabled
                      /\ r.status = "disabled" /\ p \notin muffled =>
                            Untouched(r) /\ p \notin enabled /\ Held(p) = {}
                      /\ ~r.loaded /\ ~Untouched(r) => r.status = "failed" \/ p \in muffled
    BY DEF StatusTellsTruth
  <2>1. Fits(p) /\ ~InHand(p) /\ ~TakingDown(p)
    BY DEF ManagerInv, InHand, TakingDown
  <2> QED  BY <2>1 DEF Fits, HoldingFits, RecordFits, Untouched
<1> QED  BY <1>1, ManagerInvariant, PTL

\* What a plug-in has in a registry is in its record, or in the hands of the
\* rollback of its commit.
LEMMA RecordsKnow == ManagerInv => KnownToRecord
<1> SUFFICES ASSUME ManagerInv, NEW p \in Plugins
             PROVE  Held(p) \subseteq rec[p].handles
                       \cup (IF TakingDown(p) /\ job.why = "rollback" THEN job.left \cup job.kept
                             ELSE {})
  BY DEF KnownToRecord
<1>1. Fits(p)
  BY DEF ManagerInv
<1>2. CASE ~TakingDown(p)
  BY <1>1, <1>2 DEF Fits, HoldingFits
<1>3. CASE TakingDown(p)
  <2>1. /\ job # Idle /\ job.id = p /\ job.at \in {"remove", "close", "hook"}
        /\ job.at = "hook" => job.why # "rollback"
    BY <1>3 DEF TakingDown, ManagerInv, PlaceFits
  <2>2. CASE job.why = "rollback"
    <3>1. Held(p) \subseteq job.left \cup job.kept
      BY <1>1, <2>1, <2>2 DEF Fits, RemovalFits
    <3> QED  BY <1>3, <2>2, <3>1
  <2>3. CASE job.why # "rollback"
    BY <1>1, <2>1, <2>3 DEF Fits, RemovalFits
  <2> QED  BY <2>2, <2>3
<1> QED  BY <1>2, <1>3

----------------------------------------------------------------------------
(* Hooks.                                                                  *)

\* Where a call stands that was just made, or that begins a removal.
LEMMA Stations ==
  /\ \A op, p, place, todo : Working(op, p, place, todo).at = place
  /\ \A why, S : \A j \in Job : Removal(j, why, S).at = "remove"
  /\ \A op, p, place, todo, why, S :
        Removal(Working(op, p, place, todo), why, S).at = "remove"
  /\ \A place : \A j \in Job : [j EXCEPT !.at = place].at = place
<1>1. \A op, p, place, todo : Working(op, p, place, todo).at = place
  BY DEF Working
<1>2. \A why, S : \A j \in Job : Removal(j, why, S).at = "remove"
  BY DEF Removal, Job
<1>3. \A op, p, place, todo, why, S :
         Removal(Working(op, p, place, todo), why, S).at = "remove"
  BY DEF Removal, Working
<1>4. \A place : \A j \in Job : [j EXCEPT !.at = place].at = place
  BY DEF Job
<1> QED  BY <1>1, <1>2, <1>3, <1>4

\* A load that returned stands nowhere, or behind its hooks.
LEMMA ReturnedElsewhere ==
  ASSUME NEW op, NEW q, NEW r, NEW todo, LoadReturns(op, q, r, todo)
  PROVE  job' = Idle \/ job'.at \in {"next", "emit_enabled", "remove"}
<1>1. CASE job' = Idle
  BY <1>1
<1>2. CASE job' = Working(op, q, "next", todo)
  <2>1. job'.at = "next"
    BY <1>2, Stations
  <2> QED  BY <2>1
<1>3. CASE job' = Working(op, q, "emit_enabled", todo)
  <2>1. job'.at = "emit_enabled"
    BY <1>3, Stations
  <2> QED  BY <2>1
<1>4. CASE job' = Removal(Working(op, q, "remove", todo), "unsaved", r.handles)
  <2>1. job'.at = "remove"
    BY <1>4, Stations
  <2> QED  BY <2>1
<1> QED  BY <1>1, <1>2, <1>3, <1>4 DEF LoadReturns

\* Only a load of a plug-in that nothing is left of calls its initialize hook.
LEMMA LoadIsPaired ==
  ASSUME ManagerInv, job = Idle \/ job.at = "next", NEW op, NEW q \in Plugins, NEW todo,
         Load(op, q, todo), job' # Idle, job'.at = "initialize"
  PROVE  job'.id = q /\ (~rec[q].pending \/ q \in muffled)
<1>1. PICK v \in Inspections(q) :
         IF v.r.loaded \/ v.r.status \in Blocked
         THEN LoadReturns(op, q, v.r, todo)
         ELSE job' = Working(op, q, "initialize", todo)
  BY DEF Load
<1>2. ~(v.r.loaded \/ v.r.status \in Blocked)
  <2>1. ASSUME LoadReturns(op, q, v.r, todo)
        PROVE  FALSE
    BY <2>1, ReturnedElsewhere
  <2> QED  BY <1>1, <2>1
<1>3. job'.id = q
  BY <1>1, <1>2 DEF Working
<1>4. /\ Inspected(q, v.r) /\ rec[q] \in Record
      /\ v.r = rec[q] \/ v.r.status \in Blocked \cup {"discovered"}
  BY InspectionsFit DEF ManagerInv, TypeOK
<1>5. ~InHand(q) /\ Fits(q)
  BY DEF InHand, ManagerInv
<1>6. ~rec[q].loaded /\ (rec[q].status = "failed" => v.r = rec[q])
  BY <1>2, <1>4 DEF Inspected
<1> QED  BY <1>2, <1>3, <1>5, <1>6 DEF Fits, RecordFits, Untouched, Blocked

\* Initialize is not called again before the shutdown hook of the last
\* attempt has succeeded, but for a failure nobody was told of.
THEOREM HooksComeInPairs == Spec => HooksPaired
<1> DEFINE Paired ==
      \A p \in Plugins :
          (At("initialize")' /\ job'.id = p /\ ~At("initialize")) =>
              ~rec[p].pending \/ p \in muffled
<1>1. ASSUME ManagerInv, [Next]_vars
      PROVE  [Paired]_vars
  <2> SUFFICES ASSUME Next, NEW p \in Plugins, At("initialize")', job'.id = p, ~At("initialize")
               PROVE  ~rec[p].pending \/ p \in muffled
    BY <1>1
  <2> USE <1>1
  <2>1. job' # Idle /\ job'.at = "initialize"
    BY DEF At
  <2>2. CASE Start
    <3>1. job = Idle
      BY <2>2 DEF Start
    <3> DEFINE call == Head(queue)
    <3>2. CASE call.op = "enable" /\ Load("enable", call.id, {})
      <4>1. queue # <<>>
        BY <2>2 DEF Start
      <4>2. call.id \in Plugins
        BY <3>2, <4>1, FirstCallFits
      <4> HIDE DEF call
      <4> QED  BY <2>1, <3>1, <3>2, <4>2, LoadIsPaired
    <3>3. CASE Disable(call.id)
      <4>1. CASE job' = Working("disable", call.id, "emit_failed", {})
        <5>1. job'.at = "emit_failed"
          BY <4>1, Stations
        <5> QED  BY <2>1, <5>1
      <4>2. CASE job' = Removal(Working("disable", call.id, "remove", {}), "disable",
                                rec[call.id].handles)
        <5>1. job'.at = "remove"
          BY <4>2, Stations
        <5> QED  BY <2>1, <5>1
      <4> QED  BY <3>3, <4>1, <4>2 DEF Disable
    <3>4. CASE job' = Working(call.op, call.id, "next", Plugins)
      BY <2>1, <3>4 DEF Working
    <3> QED  BY <2>2, <3>2, <3>3, <3>4 DEF Start
  <2>3. CASE NextToLoad
    <3>1. job \in Job /\ job.at = "next" /\ job.todo \in SUBSET Plugins
      BY <2>3, JobTyped DEF ManagerInv, NextToLoad, At, Job
    <3> DEFINE q == FirstOf(Order, job.todo)
               todo == job.todo \ {q}
    <3>2. CASE job.todo # {} /\ Load("load_enabled", q, todo)
      <4>1. q \in job.todo
        BY <3>1, <3>2, FirstOfIn, Constants
      <4> HIDE DEF q
      <4> QED  BY <2>1, <3>1, <3>2, <4>1, LoadIsPaired
    <3>3. CASE job' = Idle \/ job' = Working("load_enabled", q, "next", todo)
      BY <2>1, <3>3 DEF Working
    <3> QED  BY <2>3, <3>2, <3>3 DEF NextToLoad
  <2>4. CASE NextToUnload
    BY <2>1, <2>4, Stations DEF NextToUnload
  <2>5. CASE HookReturns
    <3>1. job \in Job /\ job.at \in {"initialize", "register"}
      BY <2>5, JobTyped DEF HookReturns, At, ManagerInv
    <3> QED  BY <2>1, <2>5, <3>1 DEF HookReturns, Await, Job
  <2>6. CASE HookFails
    <3>1. job \in Job
      BY <2>6, JobTyped DEF HookFails, At, ManagerInv
    <3> QED  BY <2>1, <2>6, <3>1, Stations DEF HookFails
  <2>7. CASE Commit
    <3>1. job \in Job
      BY <2>7, JobTyped DEF Commit, At, ManagerInv
    <3>2. (\E why, S : job' = Removal(job, why, S)) \/ job' = [job EXCEPT !.at = "emit_loaded"]
      BY <2>7 DEF Commit, Await
    <3>3. CASE \E why, S : job' = Removal(job, why, S)
      <4>1. PICK why, S : job' = Removal(job, why, S)
        BY <3>3
      <4>2. job'.at = "remove"
        BY <3>1, <4>1 DEF Removal, Job
      <4> QED  BY <2>1, <4>2
    <3>4. CASE job' = [job EXCEPT !.at = "emit_loaded"]
      <4>1. job'.at = "emit_loaded"
        BY <3>1, <3>4 DEF Job
      <4> QED  BY <2>1, <4>1
    <3> QED  BY <3>2, <3>3, <3>4
  <2>8. CASE EmitReturns
    <3>1. job \in Job
      BY <2>8, JobTyped DEF EmitReturns, At, ManagerInv
    <3>2. \/ LoadReturns(job.op, job.id, rec[job.id], job.todo)
          \/ job' = [job EXCEPT !.at = "next"]
          \/ job' = Idle
      BY <2>8 DEF EmitReturns, Await
    <3>3. CASE job' = [job EXCEPT !.at = "next"]
      <4>1. job'.at = "next"
        BY <3>1, <3>3, Stations
      <4> QED  BY <2>1, <4>1
    <3> QED  BY <2>1, <3>2, <3>3, ReturnedElsewhere
  <2>9. CASE EmitCancelled
    <3>1. job \in Job
      BY <2>9, JobTyped DEF EmitCancelled, At, ManagerInv
    <3> QED  BY <2>1, <2>9, <3>1, Stations DEF EmitCancelled
  <2>10. CASE Cancel
    <3>1. job \in Job /\ job # Idle
      BY <2>10, JobTyped DEF Cancel, At, ManagerInv
    <3>2. job'.at = job.at
      BY <2>10, <3>1 DEF Cancel, Job
    <3> QED  BY <2>1, <3>1, <3>2 DEF At
  <2>11. CASE RemoveHandles \/ CloseReturns \/ ShutdownHook
    <3>1. job \in Job /\ job # Idle /\ job.at \in Removing
      BY <2>11, JobTyped DEF RemoveHandles, CloseReturns, ShutdownHook, At, ManagerInv, Removing
    <3>2. ASSUME NEW r, NEW dirty, NEW x, Cleaned(x, r, dirty)
          PROVE  FALSE
      BY <2>1, <3>1, <3>2 DEF Cleaned, Job
    <3>3. ASSUME NEW kept, HandlesRemoved(kept)
          PROVE  FALSE
      BY <2>1, <3>1, <3>2, <3>3 DEF HandlesRemoved, Removal, Job
    <3>4. CASE RemoveHandles
      <4>1. PICK left : job' = [job EXCEPT !.at = "close", !.left = left]
        BY <3>3, <3>4 DEF RemoveHandles
      <4> QED  BY <2>1, <3>1, <4>1 DEF Job
    <3>5. CASE CloseReturns
      <4>1. PICK left, kept :
               HandlesRemoved(kept \cup left) \/ job' = [job EXCEPT !.left = left, !.kept = kept]
        BY <3>5 DEF CloseReturns
      <4>2. job' = [job EXCEPT !.left = left, !.kept = kept]
        BY <3>3, <4>1
      <4> QED  BY <2>1, <3>1, <4>2 DEF Job, Removing
    <3>6. CASE ShutdownHook
      BY <3>2, <3>6 DEF ShutdownHook
    <3> QED  BY <2>11, <3>4, <3>5, <3>6
  <2>12. CASE job' = job
    BY <2>1, <2>12 DEF At
  <2> QED  BY <2>2, <2>3, <2>4, <2>5, <2>6, <2>7, <2>8, <2>9, <2>10, <2>11, <2>12
           DEF Next, Proceed, Inspect, Call, GiveUp, Aclose, Sweeping, Closed, managerVars, vars
<1>2. Spec => []ManagerInv
  BY ManagerInvariant
<1> QED  BY <1>1, <1>2, PTL DEF Spec, HooksPaired

----------------------------------------------------------------------------
(* Closing the application.                                                *)

\* Nothing of p is left, or what is left is shown as a failure.
Clean(p) ==
    /\ ~rec[p].loaded /\ ~rec[p].active
    /\ Held(p) # {} => rec[p].status = "failed"

\* shutdown is the last call to get the lock; it comes to every plug-in that
\* is not clean, and leaves those it has passed clean.
SweepFits ==
    /\ sweep.phase = "none" =>
          /\ job # Idle => job.op # "shutdown"
          /\ \A i \in DOMAIN queue : queue[i].op # "shutdown"
    /\ sweep.phase # "none" /\ queue # <<>> => queue[Len(queue)].op = "shutdown"
    /\ sweep.phase # "none" /\ queue = <<>> =>
          /\ job # Idle => job.op = "shutdown"
          /\ \A p \in Plugins :
                Clean(p) \/ (job # Idle /\ (p \in job.todo \/ TakingDown(p)))

\* A plug-in nothing is done to stays clean.
LEMMA StaysClean ==
  ASSUME NEW p, Clean(p), rec'[p] = rec[p], Held(p)' \subseteq Held(p)
  PROVE  Clean(p)'
  BY DEF Clean

\* A load that returned is over, or still part of the same call.
LEMMA LoadStaysInCall ==
  ASSUME NEW op, NEW q, NEW todo, Load(op, q, todo) \/ \E r : LoadReturns(op, q, r, todo)
  PROVE  job' = Idle \/ job'.op = op
<1>1. \A place : Working(op, q, place, todo).op = op
  BY DEF Working
<1>2. \A S : Removal(Working(op, q, "remove", todo), "unsaved", S).op = op
  BY DEF Working, Removal
<1>3. ASSUME NEW r, LoadReturns(op, q, r, todo)
      PROVE  job' = Idle \/ job'.op = op
  BY <1>1, <1>2, <1>3 DEF LoadReturns
<1>4. CASE Load(op, q, todo)
  <2>1. (\E r : LoadReturns(op, q, r, todo)) \/ job' = Working(op, q, "initialize", todo)
    BY <1>4 DEF Load
  <2> QED  BY <1>1, <1>3, <2>1
<1> QED  BY <1>3, <1>4

\* What follows a removal is part of the same call and leaves its loop alone.
LEMMA RemovalStaysInCall ==
  ASSUME ManagerInv, job # Idle, RemoveHandles \/ CloseReturns \/ ShutdownHook
  PROVE  job' = Idle \/ (job'.op = job.op /\ job'.id = job.id /\ job'.todo = job.todo)
<1>1. job \in Job
  BY JobTyped DEF ManagerInv
<1>2. ASSUME NEW x, NEW r, NEW dirty, Cleaned(x, r, dirty)
      PROVE  job' = Idle \/ (job'.op = job.op /\ job'.id = job.id /\ job'.todo = job.todo)
  BY <1>1, <1>2 DEF Cleaned, Job
<1>3. ASSUME NEW kept, HandlesRemoved(kept)
      PROVE  job' = Idle \/ (job'.op = job.op /\ job'.id = job.id /\ job'.todo = job.todo)
  <2>1. \/ \E why : job' = Removal(job, why, kept)
        \/ job' = [job EXCEPT !.at = "hook", !.left = {}, !.kept = kept]
        \/ \E x, r, dirty : Cleaned(x, r, dirty)
    BY <1>3 DEF HandlesRemoved
  <2>2. CASE \E why : job' = Removal(job, why, kept)
    BY <1>1, <2>2 DEF Removal, Job
  <2>3. CASE job' = [job EXCEPT !.at = "hook", !.left = {}, !.kept = kept]
    BY <1>1, <2>3 DEF Job
  <2> QED  BY <1>2, <2>1, <2>2, <2>3
<1>4. CASE RemoveHandles
  <2>1. \/ \E kept : HandlesRemoved(kept)
        \/ \E left : job' = [job EXCEPT !.at = "close", !.left = left]
    BY <1>4 DEF RemoveHandles
  <2>2. CASE \E left : job' = [job EXCEPT !.at = "close", !.left = left]
    BY <1>1, <2>2 DEF Job
  <2> QED  BY <1>3, <2>1, <2>2
<1>5. CASE CloseReturns
  <2>1. \/ \E kept : HandlesRemoved(kept)
        \/ \E left, kept : job' = [job EXCEPT !.left = left, !.kept = kept]
    BY <1>5 DEF CloseReturns
  <2>2. CASE \E left, kept : job' = [job EXCEPT !.left = left, !.kept = kept]
    BY <1>1, <2>2 DEF Job
  <2> QED  BY <1>3, <2>1, <2>2
<1>6. CASE ShutdownHook
  BY <1>2, <1>6 DEF ShutdownHook
<1> QED  BY <1>4, <1>5, <1>6

\* A step of the call that holds the lock ends it or is part of it; no
\* other call is made or begins, and the integrations are not closed.
LEMMA CallsGoOn ==
  ASSUME ManagerInv, job # Idle, Proceed \/ Cancel
  PROVE  /\ job' = Idle \/ job'.op = job.op
         /\ queue' = queue /\ sweep' = sweep
<1>1. job \in Job
  BY JobTyped DEF ManagerInv
<1>2. queue' = queue /\ sweep' = sweep
  BY DEF Proceed, Cancel, Start, NextToLoad, NextToUnload, HookReturns, HookFails, Commit,
         EmitReturns, EmitCancelled, RemoveHandles, CloseReturns, ShutdownHook, registryVars
<1>3. \A why, S : Removal(job, why, S).op = job.op
  BY <1>1 DEF Removal, Job
<1>4. \A place : [job EXCEPT !.at = place].op = job.op
  BY <1>1 DEF Job
<1>5. CASE NextToLoad
  <2> DEFINE q == FirstOf(Order, job.todo)
             todo == job.todo \ {q}
  <2>1. \/ job' = Idle
        \/ Load("load_enabled", q, todo)
        \/ job' = Working("load_enabled", q, "next", todo)
    BY <1>5 DEF NextToLoad
  <2>2. job.op = "load_enabled"
    BY <1>5 DEF NextToLoad
  <2>3. Working("load_enabled", q, "next", todo).op = "load_enabled"
    BY DEF Working
  <2> HIDE DEF q, todo
  <2> QED  BY <1>2, <2>1, <2>2, <2>3, LoadStaysInCall
<1>6. CASE NextToUnload
  <2>1. \A q, place, todo : Working("shutdown", q, place, todo).op = "shutdown"
    BY DEF Working
  <2>2. \A q, todo, S :
           Removal(Working("shutdown", q, "remove", todo), "shutdown", S).op = "shutdown"
    BY DEF Working, Removal
  <2> QED  BY <1>2, <1>6, <2>1, <2>2 DEF NextToUnload
<1>7. CASE HookReturns \/ HookFails \/ EmitCancelled
  <2>1. \/ \E why, S : job' = Removal(job, why, S)
        \/ \E place : job' = [job EXCEPT !.at = place]
        \/ job' = Idle
    BY <1>7 DEF HookReturns, HookFails, EmitCancelled, Await
  <2>2. CASE \E why, S : job' = Removal(job, why, S)
    BY <1>2, <1>3, <2>2
  <2>3. CASE \E place : job' = [job EXCEPT !.at = place]
    BY <1>2, <1>4, <2>3
  <2> QED  BY <1>2, <2>1, <2>2, <2>3
<1>8. CASE Commit
  <2>1. (\E why, S : job' = Removal(job, why, S)) \/ job' = [job EXCEPT !.at = "emit_loaded"]
    BY <1>8 DEF Commit, Await
  <2>2. CASE \E why, S : job' = Removal(job, why, S)
    BY <1>2, <1>3, <2>2
  <2>3. CASE job' = [job EXCEPT !.at = "emit_loaded"]
    BY <1>2, <1>4, <2>3
  <2> QED  BY <2>1, <2>2, <2>3
<1>9. CASE EmitReturns
  <2>1. \/ LoadReturns(job.op, job.id, rec[job.id], job.todo)
        \/ job' = [job EXCEPT !.at = "next"]
        \/ job' = Idle
    BY <1>9 DEF EmitReturns, Await
  <2>2. CASE LoadReturns(job.op, job.id, rec[job.id], job.todo)
    BY <1>2, <2>2, LoadStaysInCall
  <2> QED  BY <1>2, <1>4, <2>1, <2>2
<1>10. CASE Cancel
  <2>1. job' = [job EXCEPT !.cancelled = TRUE]
    BY <1>10 DEF Cancel
  <2>2. job'.op = job.op
    BY <1>1, <2>1 DEF Job
  <2> QED  BY <1>2, <2>2
<1>11. CASE Start
  BY <1>11 DEF Start
<1>12. CASE RemoveHandles \/ CloseReturns \/ ShutdownHook
  BY <1>2, <1>12, RemovalStaysInCall
<1> QED  BY <1>5, <1>6, <1>7, <1>8, <1>9, <1>10, <1>11, <1>12 DEF Proceed

\* Where a removal for shutdown ends, its plug-in is clean; it goes on or
\* gives way to the next one, and touches nobody else.
LEMMA ShutdownCleans ==
  ASSUME ManagerInv, ManagerInv', job # Idle, job.op = "shutdown", NEW q, q = job.id,
         RemoveHandles \/ CloseReturns \/ ShutdownHook
  PROVE  /\ job' # Idle
         /\ Clean(q)' \/ TakingDown(q)'
         /\ \A p \in Plugins \ {q} : rec'[p] = rec[p] /\ Held(p)' \subseteq Held(p)
<1>1. job.at \in Removing
  BY DEF RemoveHandles, CloseReturns, ShutdownHook, At, Removing
<1>2. /\ job \in Job /\ q \in Plugins /\ Fits(q) /\ rec[q] \in Record
      /\ job.why = "shutdown"
  BY <1>1, RemovalInHand
<1>3. ASSUME NEW r, NEW dirty \in BOOLEAN, Cleaned(q, r, dirty), r \in Record,
             ~r.loaded, ~r.active, r.handles # {} => dirty
      PROVE  /\ job' # Idle
             /\ Clean(q)' \/ TakingDown(q)'
             /\ \A p \in Plugins \ {q} : rec'[p] = rec[p]
  <2> DEFINE s == IF dirty THEN "failed" ELSE "discovered"
             n == [r EXCEPT !.status = s]
  <2>1. /\ rec' = [rec EXCEPT ![q] = n]
        /\ job' = [job EXCEPT !.at = "next"]
    BY <1>2, <1>3 DEF Cleaned
  <2>2. /\ n \in Record /\ n.status = s /\ ~n.loaded /\ ~n.active /\ n.handles = r.handles
    <3>1. s \in Statuses
      BY DEF Statuses
    <3> HIDE DEF s
    <3> QED  BY <1>3, <3>1, StatusReplaced
  <2> HIDE DEF n
  <2>3. rec'[q] = n /\ \A p \in Plugins \ {q} : rec'[p] = rec[p]
    BY <1>2, <2>1, <2>2, RecordReplaced DEF ManagerInv
  <2>4. job' # Idle /\ job'.at = "next"
    BY <1>2, <2>1 DEF Job, Idle
  <2>5. rec'[q].handles = Held(q)'
    <3>1. HoldingFits(q)' /\ ~TakingDown(q)'
      BY <1>2, <2>4 DEF ManagerInv, Fits, TakingDown
    <3> QED  BY <3>1 DEF HoldingFits
  <2>6. Clean(q)'
    BY <1>3, <2>2, <2>3, <2>5 DEF Clean
  <2> QED  BY <2>3, <2>4, <2>6
<1>4. ASSUME NEW kept \in SUBSET Names, HandlesRemoved(kept)
      PROVE  /\ job' # Idle
             /\ Clean(q)' \/ TakingDown(q)'
             /\ \A p \in Plugins \ {q} : rec'[p] = rec[p]
  <2> DEFINE r == [rec[q] EXCEPT !.handles = kept, !.active = FALSE]
             cleaned == [r EXCEPT !.loaded = FALSE]
  <2>1. r \in Record /\ ~r.active /\ r.handles = kept
    BY <1>2 DEF Record
  <2>2. cleaned \in Record /\ ~cleaned.loaded /\ ~cleaned.active /\ cleaned.handles = kept
    <3> HIDE DEF r
    <3> QED  BY <2>1 DEF Record
  <2>3. \/ rec' = [rec EXCEPT ![q] = r] /\ job' = [job EXCEPT !.at = "hook", !.left = {},
                                                              !.kept = kept]
        \/ Cleaned(q, cleaned, kept # {})
    BY <1>2, <1>4 DEF HandlesRemoved
  <2> HIDE DEF r, cleaned
  <2>4. CASE rec' = [rec EXCEPT ![q] = r] /\ job' = [job EXCEPT !.at = "hook", !.left = {},
                                                                !.kept = kept]
    <3>1. \A p \in Plugins \ {q} : rec'[p] = rec[p]
      BY <1>2, <2>1, <2>4, RecordReplaced DEF ManagerInv
    <3>2. job' # Idle /\ job'.at = "hook" /\ job'.id = q
      BY <1>2, <2>4 DEF Job, Idle
    <3> QED  BY <3>1, <3>2 DEF TakingDown
  <2>5. CASE Cleaned(q, cleaned, kept # {})
    <3> DEFINE dirty == kept # {}
    <3>1. dirty \in BOOLEAN /\ (cleaned.handles # {} => dirty) /\ Cleaned(q, cleaned, dirty)
      BY <2>2, <2>5
    <3> HIDE DEF dirty
    <3> QED  BY <1>3, <2>2, <3>1
  <2> QED  BY <2>3, <2>4, <2>5
<1>5. ASSUME NEW S \in SUBSET Names, holder' = Unregistering(S)
      PROVE  \A p \in Plugins \ {q} : Held(p)' \subseteq Held(p)
  BY <1>5, UnregisteringHolds DEF ManagerInv
<1>6. CASE RemoveHandles
  <2> DEFINE ints == job.left \cap IntegrationNames
  <2>1. /\ holder' = Unregistering(job.left \ ints)
        /\ \/ HandlesRemoved(ints)
           \/ job' = [job EXCEPT !.at = "close", !.left = ints] /\ rec' = rec
    BY <1>6 DEF RemoveHandles
  <2>2. job.left \ ints \in SUBSET Names /\ ints \in SUBSET Names
    BY <1>2 DEF Job
  <2> HIDE DEF ints
  <2>3. CASE job' = [job EXCEPT !.at = "close", !.left = ints] /\ rec' = rec
    <3>1. job' # Idle /\ job'.at = "close" /\ job'.id = q
      BY <1>2, <2>3 DEF Job, Idle
    <3> QED  BY <1>5, <2>1, <2>2, <2>3, <3>1 DEF TakingDown
  <2> QED  BY <1>4, <1>5, <2>1, <2>2, <2>3
<1>7. CASE CloseReturns
  <2> DEFINE n == LastOf(Staged[job.id], job.left)
             left == job.left \ {n}
  <2>1. PICK ok \in BOOLEAN :
           LET kept == IF ok THEN job.kept ELSE job.kept \cup {n} IN
           /\ holder' = IF ok THEN Unregistering({n}) ELSE holder
           /\ \/ HandlesRemoved(kept \cup left)
              \/ job' = [job EXCEPT !.left = left, !.kept = kept] /\ rec' = rec
    BY <1>7 DEF CloseReturns
  <2>2. n \in job.left /\ job.left \in SUBSET Names /\ job.kept \in SUBSET Names
    <3>1. job.left # {} /\ job.left \subseteq Held(q) /\ Held(q) \subseteq StagedSet(q)
      BY <1>2, <1>7 DEF CloseReturns, At, Fits, RemovalFits, HoldingFits
    <3>2. job.left \cap Range(Staged[q]) # {}
      BY <3>1 DEF StagedSet
    <3> QED  BY <1>2, <3>2, LastOfIn, Constants DEF Job
  <2> DEFINE kept == IF ok THEN job.kept ELSE job.kept \cup {n}
  <2>3. /\ holder' = IF ok THEN Unregistering({n}) ELSE holder
        /\ \/ HandlesRemoved(kept \cup left)
           \/ job' = [job EXCEPT !.left = left, !.kept = kept] /\ rec' = rec
    BY <2>1
  <2> HIDE DEF n
  <2>4. kept \cup left \in SUBSET Names /\ {n} \in SUBSET Names
    BY <2>2
  <2> HIDE DEF kept, left
  <2>5. \A p \in Plugins \ {q} : Held(p)' \subseteq Held(p)
    <3>1. CASE ok
      BY <1>5, <2>3, <2>4, <3>1
    <3>2. CASE ~ok
      BY <2>3, <3>2 DEF Held
    <3> QED  BY <3>1, <3>2
  <2>6. CASE job' = [job EXCEPT !.left = left, !.kept = kept] /\ rec' = rec
    <3>1. job' # Idle /\ job'.at = "close" /\ job'.id = q
      BY <1>2, <1>7, <2>6 DEF Job, Idle, CloseReturns, At
    <3> QED  BY <2>5, <2>6, <3>1 DEF TakingDown
  <2>7. CASE HandlesRemoved(kept \cup left)
    BY <1>4, <2>4, <2>5, <2>7
  <2> QED  BY <2>3, <2>6, <2>7
<1>8. CASE ShutdownHook
  <2>1. PICK ok \in BOOLEAN :
           Cleaned(q, [rec[q] EXCEPT !.pending = ~ok, !.loaded = FALSE], job.kept # {} \/ ~ok)
    BY <1>8 DEF ShutdownHook
  <2> DEFINE r == [rec[q] EXCEPT !.pending = ~ok, !.loaded = FALSE]
             dirty == job.kept # {} \/ ~ok
  <2>2. job.at = "hook"
    BY <1>8 DEF ShutdownHook, At
  <2>3. rec[q].handles = job.kept /\ ~rec[q].active
    BY <1>2, <2>2 DEF Fits, RemovalFits, LoadFits
  <2>4. r \in Record /\ ~r.loaded /\ ~r.active /\ (r.handles # {} => dirty)
    BY <1>2, <2>3 DEF Record
  <2>5. Cleaned(q, r, dirty) /\ dirty \in BOOLEAN
    BY <2>1
  <2>6. \A p \in Plugins : Held(p)' = Held(p)
    BY <1>8 DEF ShutdownHook, registryVars, Held
  <2> HIDE DEF r, dirty
  <2> QED  BY <1>3, <2>4, <2>5, <2>6
<1> QED  BY <1>6, <1>7, <1>8

\* shutdown comes to the plug-ins one after the other.
LEMMA ShutdownAdvances ==
  ASSUME ManagerInv, NextToUnload
  PROVE  /\ job' # Idle => job'.op = "shutdown"
         /\ rec' = rec /\ holder' = holder
         /\ \A p \in Plugins : p \in job.todo =>
               Clean(p) \/ (job' # Idle /\ (p \in job'.todo \/ TakingDown(p)'))
<1>1. /\ job \in Job /\ job.at = "next" /\ job.todo \in SUBSET Plugins
      /\ rec' = rec /\ holder' = holder
  BY JobTyped DEF ManagerInv, NextToUnload, At, Job, registryVars
<1>2. CASE job.todo = {}
  BY <1>1, <1>2 DEF NextToUnload
<1>3. CASE job.todo # {}
  <2>7. PICK q : q = LastOf(Order, job.todo)
    OBVIOUS
  <2>8. PICK todo : todo = job.todo \ {q}
    OBVIOUS
  <2>1. q \in job.todo
    BY <1>1, <1>3, <2>7, LastOfIn, Constants
  <2>2. job' = IF Untouched(rec[q]) THEN Working("shutdown", q, "next", todo)
               ELSE Removal(Working("shutdown", q, "remove", todo), "shutdown", rec[q].handles)
    BY <1>3, <2>7, <2>8 DEF NextToUnload
  <2>3. q \in Plugins /\ todo \in SUBSET Plugins /\ job.todo = todo \cup {q}
    BY <1>1, <2>1, <2>8
  <2>4. /\ "shutdown" \in Ops /\ q \in Plugins \cup {None}
        /\ "next" \in Places /\ "remove" \in Places /\ "shutdown" \in Reasons
    BY <2>3 DEF Places, Ops, Reasons
  <2>5. CASE Untouched(rec[q])
    <3>1. job' # Idle /\ job'.op = "shutdown" /\ job'.todo = todo
      BY <2>2, <2>3, <2>4, <2>5, WorkingTyped
    <3>2. Clean(q)
      <4>1. HoldingFits(q) /\ ~TakingDown(q)
        BY <1>1, <2>3 DEF ManagerInv, Fits, TakingDown
      <4> QED  BY <2>5, <4>1 DEF HoldingFits, Clean, Untouched
    <3> QED  BY <1>1, <2>3, <3>1, <3>2
  <2>6. CASE ~Untouched(rec[q])
    <3> DEFINE j == Working("shutdown", q, "remove", todo)
    <3>1. j \in Job /\ j.id = q /\ j.op = "shutdown" /\ j.todo = todo
      BY <2>3, <2>4, WorkingTyped
    <3>2. job' = Removal(j, "shutdown", rec[q].handles)
      BY <2>2, <2>6
    <3>3. rec[q].handles \in SUBSET Names
      BY <2>3 DEF ManagerInv, TypeOK, Record
    <3> HIDE DEF j
    <3>4. job' # Idle /\ job'.op = "shutdown" /\ job'.todo = todo /\ job'.id = q
          /\ job'.at = "remove"
      BY <2>4, <3>1, <3>2, <3>3, RemovalTyped
    <3>5. TakingDown(q)'
      BY <3>4 DEF TakingDown
    <3> QED  BY <1>1, <2>3, <3>4, <3>5
  <2> QED  BY <2>5, <2>6
<1> QED  BY <1>2, <1>3

\* A step that leaves the queue and the sweep alone, and either the lock with
\* the same call or nobody, while calls other than shutdown are still made.
LEMMA SweepFitsInCall ==
  ASSUME ManagerInv, ManagerInv', SweepFits, job # Idle, Proceed \/ Cancel
  PROVE  SweepFits'
<1>1. (job' = Idle \/ job'.op = job.op) /\ queue' = queue /\ sweep' = sweep
  BY CallsGoOn
<1>2. CASE sweep.phase = "none" \/ queue # <<>>
  BY <1>1, <1>2 DEF SweepFits
<1>3. CASE sweep.phase # "none" /\ queue = <<>>
  <2>1. job.op = "shutdown"
    BY <1>3 DEF SweepFits
  <2>2. ASSUME NEW p \in Plugins
        PROVE  Clean(p) \/ p \in job.todo \/ TakingDown(p)
    BY <1>3 DEF SweepFits
  <2>3. /\ job.at \in Removing \cup {"next"}
        /\ job.at \in Removing => job.why = "shutdown"
    BY <2>1 DEF ManagerInv, PlaceFits
  <2>4. CASE NextToUnload
    <3>1. /\ job' # Idle => job'.op = "shutdown"
          /\ rec' = rec /\ holder' = holder
          /\ \A p \in Plugins : p \in job.todo =>
                Clean(p) \/ (job' # Idle /\ (p \in job'.todo \/ TakingDown(p)'))
      BY <2>4, ShutdownAdvances
    <3>2. ASSUME NEW p \in Plugins
          PROVE  (Clean(p) \/ (job # Idle /\ (p \in job.todo \/ TakingDown(p))))'
      <4>1. ~TakingDown(p)
        BY <2>4 DEF NextToUnload, At, TakingDown
      <4>2. Clean(p) => Clean(p)'
        BY <3>1 DEF Clean, Held
      <4> QED  BY <2>2, <3>1, <4>1, <4>2
    <3> QED  BY <1>1, <1>3, <3>1, <3>2 DEF SweepFits
  <2>5. CASE RemoveHandles \/ CloseReturns \/ ShutdownHook
    <3>1. PICK q : q = job.id
      OBVIOUS
    <3>2. /\ job' # Idle
          /\ Clean(q)' \/ TakingDown(q)'
          /\ \A p \in Plugins \ {q} : rec'[p] = rec[p] /\ Held(p)' \subseteq Held(p)
      BY <2>1, <2>5, <3>1, ShutdownCleans
    <3>3. job'.op = "shutdown" /\ job'.todo = job.todo
      BY <2>1, <2>5, <3>2, RemovalStaysInCall
    <3>4. ASSUME NEW p \in Plugins
          PROVE  (Clean(p) \/ (job # Idle /\ (p \in job.todo \/ TakingDown(p))))'
      <4>1. CASE p = q
        BY <3>2, <4>1
      <4>2. CASE p # q
        <5>1. ~TakingDown(p)
          BY <3>1, <4>2 DEF TakingDown
        <5>2. Clean(p) => Clean(p)'
          BY <3>2, <4>2, StaysClean
        <5> QED  BY <2>2, <3>2, <3>3, <5>1, <5>2
      <4> QED  BY <4>1, <4>2
    <3> QED  BY <1>1, <1>3, <3>3, <3>4 DEF SweepFits
  <2>6. ~(Start \/ NextToLoad \/ HookReturns \/ HookFails \/ Commit \/ EmitReturns
            \/ EmitCancelled \/ Cancel)
    BY <2>1, <2>3 DEF Start, NextToLoad, HookReturns, HookFails, Commit, EmitReturns,
       EmitCancelled, Cancel, At, Removing
  <2> QED  BY <2>4, <2>5, <2>6 DEF Proceed
<1> QED  BY <1>2, <1>3

\* When the next waiting call gets the lock, shutdown is still the last one.
LEMMA SweepFitsAtStart ==
  ASSUME ManagerInv, SweepFits, Start
  PROVE  SweepFits'
<1> DEFINE call == Head(queue)
           Entries == [op : Ops, id : Plugins \cup {None}]
<1>1. job = Idle /\ queue \in Seq(Entries) /\ queue # <<>> /\ queue' = Tail(queue)
      /\ sweep' = sweep
  BY DEF Start, ManagerInv, TypeOK, registryVars
<1>2. /\ Len(queue) \in Nat /\ Len(queue) >= 1 /\ DOMAIN queue = 1 .. Len(queue)
      /\ call = queue[1]
      /\ Len(queue') = Len(queue) - 1
      /\ \A i \in 1 .. Len(queue') : queue'[i] = queue[i + 1]
      /\ DOMAIN queue' = 1 .. Len(queue')
  <2>1. /\ Len(Tail(queue)) = Len(queue) - 1 /\ Tail(queue) \in Seq(Entries)
        /\ \A i \in 1 .. Len(queue) - 1 : Tail(queue)[i] = queue[i + 1]
    BY <1>1, HeadTailProperties
  <2>2. Len(queue) \in Nat /\ DOMAIN queue = 1 .. Len(queue)
        /\ DOMAIN queue' = 1 .. Len(queue')
    BY <1>1, <2>1, LenProperties
  <2>3. Len(queue) >= 1 /\ call = queue[1]
    BY <1>1, <2>2, EmptySeq, HeadTailProperties
  <2> QED  BY <1>1, <2>1, <2>2, <2>3
<1>3. job' = Idle \/ job'.op = call.op
  <2>1. CASE call.op = "enable" /\ Load("enable", call.id, {})
    BY <2>1, LoadStaysInCall
  <2>2. CASE call.op = "disable" /\ Disable(call.id)
    <3>1. Working("disable", call.id, "emit_failed", {}).op = "disable"
      BY DEF Working
    <3>2. \A S : Removal(Working("disable", call.id, "remove", {}), "disable", S).op = "disable"
      BY DEF Working, Removal
    <3> QED  BY <2>2, <3>1, <3>2 DEF Disable
  <2>3. CASE job' = Working(call.op, call.id, "next", Plugins)
    BY <2>3 DEF Working
  <2> QED  BY <2>1, <2>2, <2>3 DEF Start
<1>4. CASE sweep.phase = "none"
  <2>1. call.op # "shutdown"
    BY <1>2, <1>4 DEF SweepFits
  <2>2. \A i \in DOMAIN queue' : queue'[i].op # "shutdown"
    <3>1. \A i \in DOMAIN queue' : i + 1 \in DOMAIN queue
      BY <1>2
    <3> QED  BY <1>2, <1>4, <3>1 DEF SweepFits
  <2> QED  BY <1>1, <1>3, <1>4, <2>1, <2>2 DEF SweepFits
<1>5. CASE sweep.phase # "none" /\ queue' # <<>>
  <2>1. Len(queue') # 0
    BY <1>1, <1>2, <1>5, HeadTailProperties, EmptySeq
  <2>2. Len(queue') \in 1 .. Len(queue') /\ Len(queue') + 1 = Len(queue)
    BY <1>2, <2>1
  <2>3. queue'[Len(queue')] = queue[Len(queue)]
    BY <1>2, <2>2
  <2> QED  BY <1>1, <1>5, <2>3 DEF SweepFits
<1>6. CASE sweep.phase # "none" /\ queue' = <<>>
  <2>1. Len(queue) = 1
    <3>1. Len(queue') = 0
      BY <1>6
    <3>2. Len(queue') = Len(queue) - 1 /\ Len(queue) \in Nat
      BY <1>2
    <3> QED  BY <3>1, <3>2
  <2>2. call.op = "shutdown"
    BY <1>1, <1>2, <1>6, <2>1 DEF SweepFits
  <2>3. job' = Working(call.op, call.id, "next", Plugins)
    BY <2>2 DEF Start
  <2>4. job' # Idle /\ job'.op = "shutdown" /\ job'.todo = Plugins
    BY <2>2, <2>3 DEF Working, Idle
  <2> QED  BY <1>1, <1>6, <2>4 DEF SweepFits
<1> QED  BY <1>4, <1>5, <1>6

\* At the start nobody has closed anything.
LEMMA SweepInitFits == Init => SweepFits
<1> SUFFICES ASSUME Init PROVE SweepFits
  OBVIOUS
<1>1. sweep.phase = "none" /\ job = Idle
  BY DEF Init, RegistriesInit
<1>2. DOMAIN queue = {1} /\ queue[1].op = "load_enabled"
  BY DEF Init
<1> QED  BY <1>1, <1>2 DEF SweepFits

\* Every step keeps the order in which things are closed.
LEMMA SweepNextFits ==
  ASSUME ManagerInv, ManagerInv', SweepFits, [Next]_vars
  PROVE  SweepFits'
<1> DEFINE Entries == [op : Ops, id : Plugins \cup {None}]
<1>1. queue \in Seq(Entries) /\ Len(queue) \in Nat /\ DOMAIN queue = 1 .. Len(queue)
  BY LenProperties DEF ManagerInv, TypeOK
<1>2. CASE \E p \in Plugins : Inspect(p)
  <2>1. sweep.phase = "none" /\ sweep' = sweep /\ job' = job /\ queue' = queue
    BY <1>2 DEF Inspect, registryVars
  <2> QED  BY <2>1 DEF SweepFits
<1>3. CASE \E op \in Ops, p \in Plugins : Call(op, p)
  <2>1. PICK op \in Ops, p \in Plugins : Call(op, p)
    BY <1>3
  <2> DEFINE e == [op |-> op, id |-> p]
  <2>2. /\ sweep.phase = "none" /\ sweep' = sweep /\ job' = job
        /\ queue' = Append(queue, e) /\ e.op # "shutdown" /\ e \in Entries
    BY <2>1 DEF Call, registryVars
  <2> HIDE DEF e
  <2>3. \A i \in DOMAIN queue' : queue'[i] = IF i = Len(queue) + 1 THEN e ELSE queue[i]
    BY <1>1, <2>2, AppendProperties
  <2>4. \A i \in DOMAIN queue' : i = Len(queue) + 1 \/ i \in DOMAIN queue
    BY <1>1, <2>2, AppendProperties
  <2> QED  BY <2>2, <2>3, <2>4 DEF SweepFits
<1>4. CASE \E i \in DOMAIN queue : GiveUp(i)
  <2>1. PICK i \in DOMAIN queue : GiveUp(i)
    BY <1>4
  <2>2. /\ queue[i].op # "shutdown" /\ queue' = RemoveAt(queue, i)
        /\ UNCHANGED <<holder, sweep, rec, job>>
    BY <2>1 DEF GiveUp, registryVars
  <2>3. /\ queue' \in Seq(Entries) /\ Len(queue') = Len(queue) - 1
        /\ DOMAIN queue' = 1 .. Len(queue) - 1
        /\ \A k \in 1 .. Len(queue) - 1 :
              queue'[k] = IF k < i THEN queue[k] ELSE queue[k + 1]
    <3>1. /\ queue' \in Seq(Entries) /\ Len(queue') = Len(queue) - 1
          /\ \A k \in 1 .. Len(queue) - 1 :
                queue'[k] = IF k < i THEN queue[k] ELSE queue[k + 1]
      <4> HIDE DEF Entries
      <4> QED  BY <1>1, <2>2, RemovedAt
    <3>2. DOMAIN queue' = 1 .. Len(queue')
      BY <3>1, LenProperties
    <3> QED  BY <3>1, <3>2
  <2>4. CASE sweep.phase = "none"
    <3>1. \A k \in DOMAIN queue' : queue'[k].op # "shutdown"
      <4>1. \A k \in DOMAIN queue' : k \in DOMAIN queue /\ k + 1 \in DOMAIN queue
        BY <1>1, <2>3
      <4> QED  BY <2>3, <2>4, <4>1 DEF SweepFits
    <3> QED  BY <2>2, <2>4, <3>1 DEF SweepFits
  <2>5. CASE sweep.phase # "none"
    <3>1. queue # <<>> /\ queue[Len(queue)].op = "shutdown"
      BY <1>1, <2>5 DEF SweepFits
    <3>2. i < Len(queue)
      BY <1>1, <2>2, <3>1
    <3>3. Len(queue') \in 1 .. Len(queue) - 1 /\ ~(Len(queue') < i)
          /\ Len(queue') + 1 = Len(queue)
      BY <1>1, <2>3, <3>2
    <3>4. queue'[Len(queue')] = queue[Len(queue)]
      BY <2>3, <3>3
    <3>5. queue' # <<>>
      BY <3>3
    <3> QED  BY <2>2, <2>5, <3>1, <3>4, <3>5 DEF SweepFits
  <2> QED  BY <2>4, <2>5
<1>5. CASE Aclose
  <2> DEFINE e == [op |-> "shutdown", id |-> None]
  <2>1. sweep'.phase = "visiting" /\ queue' = Append(queue, e) /\ e \in Entries
    BY <1>5 DEF Aclose, BeginSweep, Ops
  <2>2. e.op = "shutdown"
    OBVIOUS
  <2> HIDE DEF e
  <2>3. queue' # <<>> /\ queue'[Len(queue')] = e
    BY <1>1, <2>1, AppendProperties
  <2> QED  BY <2>1, <2>2, <2>3 DEF SweepFits
<1>6. CASE (Proceed \/ Cancel) /\ job # Idle
  BY <1>6, SweepFitsInCall
<1>7. CASE (Proceed \/ Cancel) /\ job = Idle
  <2>1. Start
    BY <1>7 DEF Proceed, Cancel, At, NextToLoad, NextToUnload, HookReturns, HookFails, Commit,
       EmitReturns, EmitCancelled, RemoveHandles, CloseReturns, ShutdownHook
  <2> QED  BY <2>1, SweepFitsAtStart
<1>8. CASE Sweeping
  <2>1. sweep.phase # "none" /\ sweep'.phase # "none" /\ UNCHANGED <<holder, rec, job, queue>>
    <3>1. sweep \in Sweep /\ sweep.phase = "visiting"
      BY <1>8 DEF ManagerInv, TypeOK, Sweeping, Visit, EndSweep
    <3> QED  BY <1>8, <3>1 DEF Sweeping, Visit, EndSweep, Sweep, managerVars
  <2> QED  BY <2>1 DEF SweepFits, Clean, TakingDown, Held
<1>9. CASE Closed \/ UNCHANGED vars
  BY <1>9 DEF Closed, vars, registryVars, managerVars, SweepFits, Clean, TakingDown, Held
<1> QED  BY <1>2, <1>3, <1>4, <1>5, <1>6, <1>7, <1>8, <1>9 DEF Next

\* Whatever a plug-in has in a registry is known, and once the application is
\* closed no plug-in is loaded and what could not be closed is shown.
THEOREM PluginsAccounted == Spec => []Accounted
<1>1. ManagerInv /\ SweepFits => Accounted
  <2>1. ManagerInv /\ SweepFits => NothingLeft
    BY DEF SweepFits, NothingLeft, Clean
  <2> QED  BY <2>1, RecordsKnow DEF Accounted
<1>2. Spec => []ManagerInv
  BY ManagerInvariant
<1>3. ManagerInv /\ ManagerInv' /\ SweepFits /\ [Next]_vars => SweepFits'
  BY SweepNextFits
<1> QED  BY <1>1, <1>2, <1>3, SweepInitFits, PTL DEF Spec

----------------------------------------------------------------------------
(* The refinement of CapabilityPromise.                                    *)

\* How far the promise says p is.
StageAt(p) ==
    IF TakingDown(p) THEN "leaving"
    ELSE IF rec[p].loaded THEN "offered"
    ELSE IF Held(p) # {} THEN "leaving"
    ELSE "absent"

\* A step the promise allows.
PromiseStep == Promise!Next \/ (holder' = holder /\ Stage' = Stage)

LEMMA StageIs == Stage = [p \in Plugins |-> StageAt(p)]
  BY Zenon DEF Stage, StageAt

\* The mapped state, by plug-in.
LEMMA Stages ==
  /\ \A p \in Plugins : Stage[p] = StageAt(p)
  /\ \A p \in Plugins : Stage'[p] = StageAt(p)'
  /\ (\A p \in Plugins : StageAt(p)' = StageAt(p)) => Stage' = Stage
  /\ \A q \in Plugins :
        (\A p \in Plugins \ {q} : StageAt(p)' = StageAt(p)) =>
            Stage' = [Stage EXCEPT ![q] = StageAt(q)']
<1>1. Stage' = [p \in Plugins |-> StageAt(p)']
  BY Zenon DEF Stage, StageAt
<1>2. \A p \in Plugins : Stage[p] = StageAt(p)
  BY StageIs
<1>3. \A p \in Plugins : Stage'[p] = StageAt(p)'
  BY <1>1
<1>4. (\A p \in Plugins : StageAt(p)' = StageAt(p)) => Stage' = Stage
  BY <1>1, StageIs
<1>5. ASSUME NEW q \in Plugins, \A p \in Plugins \ {q} : StageAt(p)' = StageAt(p)
      PROVE  Stage' = [Stage EXCEPT ![q] = StageAt(q)']
  <2>1. Stage' = [p \in Plugins |-> IF p = q THEN StageAt(q)' ELSE StageAt(p)]
    BY <1>1, <1>5
  <2> QED  BY <2>1, StageIs
<1> QED  BY <1>2, <1>3, <1>4, <1>5

\* What p has is the same where nothing about it changes.
LEMMA StageStays ==
  ASSUME NEW p, rec'[p].loaded = rec[p].loaded, Held(p)' = Held(p),
         TakingDown(p)' <=> TakingDown(p)
  PROVE  StageAt(p)' = StageAt(p)
  BY DEF StageAt

\* A step in which nobody takes, leaves or is given up.
LEMMA QuietStep ==
  ASSUME holder' = holder,
         \A p \in Plugins : /\ rec'[p].loaded = rec[p].loaded
                            /\ TakingDown(p)' <=> TakingDown(p)
  PROVE  PromiseStep
<1>1. \A p \in Plugins : Held(p)' = Held(p)
  BY DEF Held
<1>2. \A p \in Plugins : StageAt(p)' = StageAt(p)
  BY <1>1, StageStays
<1> QED  BY <1>2, Stages DEF PromiseStep

\* The removal of what q has begins, or goes on with nothing given up.
LEMMA LeavingStep ==
  ASSUME TypeOK, NEW q \in Plugins, holder' = holder, TakingDown(q)',
         \A p \in Plugins \ {q} : /\ rec'[p].loaded = rec[p].loaded
                                  /\ TakingDown(p)' <=> TakingDown(p)
  PROVE  PromiseStep
<1>1. \A p \in Plugins : Held(p)' = Held(p)
  BY DEF Held
<1>2. \A p \in Plugins \ {q} : StageAt(p)' = StageAt(p)
  BY <1>1, StageStays
<1>3. StageAt(q)' = "leaving" /\ StageAt(q) \in {"absent", "offered", "leaving"}
  BY DEF StageAt
<1>4. Stage[q] = StageAt(q) /\ Stage' = [Stage EXCEPT ![q] = "leaving"]
  BY <1>2, <1>3, Stages
<1>5. CASE StageAt(q) = "leaving"
  <2>1. \A p \in Plugins : StageAt(p)' = StageAt(p)
    BY <1>2, <1>3, <1>5
  <2> QED  BY <2>1, Stages DEF PromiseStep
<1>6. CASE StageAt(q) = "offered"
  <2>1. Promise!Leave(q)
    BY <1>4, <1>6 DEF Promise!Leave
  <2> QED  BY <2>1 DEF PromiseStep, Promise!Next
<1>7. CASE StageAt(q) = "absent"
  <2>1. holder' = Promise!Take(q, {})
    BY DEF Promise!Take, TypeOK
  <2>2. Promise!BreakOff(q)
    BY <1>4, <1>7, <2>1 DEF Promise!BreakOff
  <2> QED  BY <2>2 DEF PromiseStep, Promise!Next
<1> QED  BY <1>3, <1>5, <1>6, <1>7

\* Names are given up.
LEMMA WithdrawalStep ==
  ASSUME TypeOK, NEW q \in Plugins, TakingDown(q), TakingDown(q)' \/ ~rec'[q].loaded,
         NEW S \in SUBSET Held(q), holder' = Unregistering(S),
         \A p \in Plugins \ {q} : /\ rec'[p].loaded = rec[p].loaded
                                  /\ TakingDown(p)' <=> TakingDown(p)
  PROVE  PromiseStep
<1>1. /\ Held(q)' = Held(q) \ S
      /\ \A p \in Plugins \ {q} : Held(p)' = Held(p)
  <2>1. S \in SUBSET Names
    BY DEF Held
  <2>2. \A p \in Plugins : Held(p)' = Held(p) \ S
    BY <2>1, UnregisteringHolds
  <2>3. \A p \in Plugins \ {q} : Held(p) \cap S = {}
    BY DEF Held
  <2> QED  BY <2>2, <2>3
<1>2. \A p \in Plugins \ {q} : StageAt(p)' = StageAt(p)
  BY <1>1, StageStays
<1>3. StageAt(q) = "leaving"
  BY DEF StageAt
<1>4. Stage[q] = "leaving" /\ Stage' = [Stage EXCEPT ![q] = StageAt(q)']
  BY <1>2, <1>3, Stages
<1>5. S \in SUBSET Promise!Held(q) /\ Promise!Held(q) = Held(q) /\ holder' = Promise!GiveBack(S)
  BY DEF Promise!Held, Held, Promise!GiveBack, Unregistering
<1>6. CASE StageAt(q)' = "leaving"
  <2>1. Stage' = Stage
    BY <1>2, <1>3, <1>6, Stages
  <2>2. Promise!Withdraw(q)
    BY <1>4, <1>5, <2>1 DEF Promise!Withdraw
  <2> QED  BY <2>2 DEF PromiseStep, Promise!Next
<1>7. CASE StageAt(q)' # "leaving"
  <2>1. Held(q)' = {} /\ StageAt(q)' = "absent"
    BY <1>7 DEF StageAt
  <2>2. S = Held(q)
    BY <1>1, <2>1
  <2>3. Promise!Withdraw(q)
    BY <1>4, <1>5, <2>1, <2>2 DEF Promise!Withdraw
  <2> QED  BY <2>3 DEF PromiseStep, Promise!Next
<1> QED  BY <1>6, <1>7

\* What a plug-in stages is registered, or a part of it on its way out.
LEMMA TakingStep ==
  ASSUME ManagerInv, NEW q \in Plugins, Held(q) = {}, ~TakingDown(q), ~rec[q].loaded,
         \A n \in StagedSet(q) : holder[n] = None,
         NEW S \in SUBSET StagedSet(q), holder' = Registering(q, S),
         TakingDown(q)' \/ (S = StagedSet(q) /\ rec'[q].loaded),
         \A p \in Plugins \ {q} : /\ rec'[p].loaded = rec[p].loaded
                                  /\ TakingDown(p)' <=> TakingDown(p)
  PROVE  PromiseStep
<1>1. \A p \in Plugins \ {q} : Held(p)' = Held(p)
  BY StagedNamesTaken
<1>2. \A p \in Plugins \ {q} : StageAt(p)' = StageAt(p)
  BY <1>1, StageStays
<1>3. StageAt(q) = "absent"
  BY DEF StageAt
<1>4. Stage[q] = "absent" /\ Stage' = [Stage EXCEPT ![q] = StageAt(q)']
  BY <1>2, <1>3, Stages
<1> DEFINE offer == [p \in Plugins |-> StagedSet(p)]
<1>5. offer[q] = StagedSet(q)
  OBVIOUS
<1>6. holder' = Promise!Take(q, S)
  BY DEF Promise!Take, Registering
<1>7. CASE TakingDown(q)'
  <2>1. StageAt(q)' = "leaving"
    BY <1>7 DEF StageAt
  <2>2. S \in SUBSET {n \in offer[q] : holder[n] = None}
    BY <1>5
  <2>3. Promise!BreakOff(q)
    BY <1>4, <1>6, <2>1, <2>2 DEF Promise!BreakOff
  <2> QED  BY <2>3 DEF PromiseStep, Promise!Next
<1>8. CASE ~TakingDown(q)'
  <2>1. StageAt(q)' = "offered" /\ S = offer[q]
    BY <1>5, <1>8 DEF StageAt
  <2>2. Promise!Register(q)
    BY <1>4, <1>5, <1>6, <2>1 DEF Promise!Register
  <2> QED  BY <2>2 DEF PromiseStep, Promise!Next
<1> QED  BY <1>7, <1>8

\* The callers of _load_unlocked.
LEMMA ReturnPromised ==
  ASSUME ManagerInv, \A p \in Plugins : ~TakingDown(p), NEW op, NEW q \in Plugins, NEW todo,
         NEW r, Inspected(q, r), holder' = holder, LoadReturns(op, q, r, todo)
  PROVE  PromiseStep
<1>1. TypeOK /\ r \in Record /\ r.loaded = rec[q].loaded
  BY DEF ManagerInv, Inspected
<1>2. \A p \in Plugins : rec'[p].loaded = rec[p].loaded
  <2>1. PICK n : rec' = [rec EXCEPT ![q] = n] /\ (n = r \/ \E s \in Statuses :
                    n = [r EXCEPT !.status = s])
    BY DEF LoadReturns, Statuses
  <2>2. n \in Record /\ n.loaded = r.loaded
    <3>1. CASE n = r
      BY <1>1, <3>1
    <3>2. CASE n # r
      <4>1. PICK s \in Statuses : n = [r EXCEPT !.status = s]
        BY <2>1, <3>2
      <4> QED  BY <1>1, <4>1, StatusReplaced
    <3> QED  BY <3>1, <3>2
  <2> QED  BY <1>1, <2>1, <2>2, RecordReplaced
<1>3. job' = Idle \/ job'.at \in {"next", "emit_enabled"} \/ (job'.at = "remove" /\ job'.id = q)
  <2>1. \A place : Working(op, q, place, todo).id = q
    BY DEF Working
  <2>2. \A S : Removal(Working(op, q, "remove", todo), "unsaved", S).id = q
    BY DEF Working, Removal
  <2>3. job' = Idle \/ job'.id = q
    BY <2>1, <2>2 DEF LoadReturns
  <2> QED  BY <2>3, ReturnedElsewhere
<1>4. CASE job' = Idle \/ job'.at \in {"next", "emit_enabled"}
  <2>1. \A p \in Plugins : ~TakingDown(p)'
    BY <1>4 DEF TakingDown
  <2> QED  BY <1>2, <2>1, QuietStep
<1>5. CASE job' # Idle /\ job'.at = "remove" /\ job'.id = q
  <2>1. TakingDown(q)' /\ \A p \in Plugins \ {q} : ~TakingDown(p)'
    BY <1>5 DEF TakingDown
  <2> QED  BY <1>1, <1>2, <2>1, LeavingStep
<1> QED  BY <1>3, <1>4, <1>5

\* A load begins, or is refused.
LEMMA LoadPromised ==
  ASSUME ManagerInv, \A p \in Plugins : ~TakingDown(p), NEW op, NEW q \in Plugins, NEW todo,
         holder' = holder, Load(op, q, todo)
  PROVE  PromiseStep
<1>1. PICK v \in Inspections(q) :
         IF v.r.loaded \/ v.r.status \in Blocked
         THEN LoadReturns(op, q, v.r, todo)
         ELSE /\ rec' = [rec EXCEPT ![q] = [v.r EXCEPT !.active = TRUE, !.pending = TRUE]]
              /\ job' = Working(op, q, "initialize", todo)
  BY DEF Load
<1>2. TypeOK /\ Inspected(q, v.r) /\ v.r \in Record /\ v.r.loaded = rec[q].loaded
  BY InspectionsFit DEF ManagerInv, Inspected
<1>3. CASE v.r.loaded \/ v.r.status \in Blocked
  BY <1>1, <1>2, <1>3, ReturnPromised
<1>4. CASE ~(v.r.loaded \/ v.r.status \in Blocked)
  <2> DEFINE n == [v.r EXCEPT !.active = TRUE, !.pending = TRUE]
  <2>1. n \in Record /\ n.loaded = rec[q].loaded
    BY <1>2 DEF Record
  <2>2. rec' = [rec EXCEPT ![q] = n] /\ job' = Working(op, q, "initialize", todo)
    BY <1>1, <1>4
  <2> HIDE DEF n
  <2>3. \A p \in Plugins : rec'[p].loaded = rec[p].loaded
    BY <1>2, <2>1, <2>2, RecordReplaced
  <2>4. \A p \in Plugins : ~TakingDown(p)'
    <3>1. job'.at = "initialize"
      BY <2>2 DEF Working
    <3> QED  BY <3>1 DEF TakingDown
  <2> QED  BY <2>3, <2>4, QuietStep
<1> QED  BY <1>3, <1>4

\* The first waiting call gets the lock.
LEMMA StartPromised ==
  ASSUME ManagerInv, Start
  PROVE  PromiseStep
<1> DEFINE call == Head(queue)
<1>1. holder' = holder /\ job = Idle /\ queue # <<>>
  BY DEF Start, registryVars
<1>2. \A p \in Plugins : ~TakingDown(p)
  BY <1>1 DEF TakingDown
<1>3. call.op \in {"enable", "disable"} => call.id \in Plugins
  BY <1>1, FirstCallFits
<1> HIDE DEF call
<1>4. CASE call.op = "enable" /\ Load("enable", call.id, {})
  BY <1>1, <1>2, <1>3, <1>4, LoadPromised
<1>5. CASE call.op = "disable" /\ Disable(call.id)
  <2>1. PICK q \in Plugins : q = call.id
    BY <1>3, <1>5
  <2>2. CASE /\ job' = Removal(Working("disable", q, "remove", {}), "disable", rec[q].handles)
             /\ rec' = rec
    <3>1. job' # Idle /\ job'.at = "remove" /\ job'.id = q
      BY <2>2 DEF Working, Removal, Idle
    <3>2. TakingDown(q)' /\ \A p \in Plugins \ {q} : ~TakingDown(p)'
      BY <3>1 DEF TakingDown
    <3> QED  BY <1>1, <1>2, <2>2, <3>2, LeavingStep DEF ManagerInv
  <2>3. CASE SetStatus(q, "failed") /\ job' = Working("disable", q, "emit_failed", {})
    <3> DEFINE n == [rec[q] EXCEPT !.status = "failed"]
    <3>1. rec[q] \in Record /\ TypeOK
      BY DEF ManagerInv, TypeOK
    <3>2. n \in Record /\ n.loaded = rec[q].loaded
      BY <3>1, StatusReplaced DEF Statuses
    <3>3. rec' = [rec EXCEPT ![q] = n]
      BY <2>3 DEF SetStatus
    <3> HIDE DEF n
    <3>4. \A p \in Plugins : rec'[p].loaded = rec[p].loaded
      BY <3>1, <3>2, <3>3, RecordReplaced
    <3>5. \A p \in Plugins : ~TakingDown(p)'
      <4>1. job'.at = "emit_failed"
        BY <2>3 DEF Working
      <4> QED  BY <4>1 DEF TakingDown
    <3> QED  BY <1>1, <1>2, <3>4, <3>5, QuietStep
  <2> QED  BY <1>5, <2>1, <2>2, <2>3 DEF Disable
<1>6. CASE job' = Working(call.op, call.id, "next", Plugins) /\ rec' = rec
  <2>1. job'.at = "next"
    BY <1>6 DEF Working
  <2>2. \A p \in Plugins : ~TakingDown(p)'
    BY <2>1 DEF TakingDown
  <2> QED  BY <1>1, <1>2, <1>6, <2>2, QuietStep
<1> QED  BY <1>4, <1>5, <1>6 DEF Start, call

\* load_enabled goes on.
LEMMA NextToLoadPromised ==
  ASSUME ManagerInv, NextToLoad
  PROVE  PromiseStep
<1>1. holder' = holder /\ job \in Job /\ job.at = "next" /\ job.todo \in SUBSET Plugins
  BY JobTyped DEF ManagerInv, NextToLoad, At, Job, registryVars
<1>2. \A p \in Plugins : ~TakingDown(p)
  BY <1>1 DEF TakingDown
<1>3. CASE job' = Idle /\ rec' = rec
  <2>1. \A p \in Plugins : ~TakingDown(p)'
    BY <1>3 DEF TakingDown
  <2> QED  BY <1>1, <1>2, <1>3, <2>1, QuietStep
<1>4. CASE job.todo # {}
  <2>1. PICK q : q = FirstOf(Order, job.todo)
    OBVIOUS
  <2>2. q \in Plugins
    BY <1>1, <1>4, <2>1, FirstOfIn, Constants
  <2>3. CASE Load("load_enabled", q, job.todo \ {q})
    BY <1>1, <1>2, <2>2, <2>3, LoadPromised
  <2>4. CASE job' = Working("load_enabled", q, "next", job.todo \ {q}) /\ rec' = rec
    <3>1. job'.at = "next"
      BY <2>4 DEF Working
    <3>2. \A p \in Plugins : ~TakingDown(p)'
      BY <3>1 DEF TakingDown
    <3> QED  BY <1>1, <1>2, <2>4, <3>2, QuietStep
  <2> QED  BY <1>4, <2>1, <2>3, <2>4 DEF NextToLoad
<1> QED  BY <1>3, <1>4 DEF NextToLoad

\* shutdown goes on.
LEMMA NextToUnloadPromised ==
  ASSUME ManagerInv, NextToUnload
  PROVE  PromiseStep
<1>1. /\ holder' = holder /\ rec' = rec /\ job \in Job /\ job.at = "next"
      /\ job.todo \in SUBSET Plugins
  BY JobTyped DEF ManagerInv, NextToUnload, At, Job, registryVars
<1>2. \A p \in Plugins : ~TakingDown(p)
  BY <1>1 DEF TakingDown
<1>3. CASE job' = Idle \/ job'.at = "next"
  <2>1. \A p \in Plugins : ~TakingDown(p)'
    BY <1>3 DEF TakingDown
  <2> QED  BY <1>1, <1>2, <2>1, QuietStep
<1>4. CASE ~(job' = Idle \/ job'.at = "next")
  <2>1. PICK q : q = LastOf(Order, job.todo)
    OBVIOUS
  <2>2. job.todo # {}
    BY <1>4 DEF NextToUnload
  <2>3. q \in Plugins
    BY <1>1, <2>1, <2>2, LastOfIn, Constants
  <2>4. \/ job' = Working("shutdown", q, "next", job.todo \ {q})
        \/ job' = Removal(Working("shutdown", q, "remove", job.todo \ {q}), "shutdown",
                          rec[q].handles)
    BY <2>1, <2>2 DEF NextToUnload
  <2>5. job' # Working("shutdown", q, "next", job.todo \ {q})
    BY <1>4 DEF Working
  <2>6. job'.at = "remove" /\ job'.id = q
    BY <2>4, <2>5 DEF Working, Removal
  <2>7. TakingDown(q)' /\ \A p \in Plugins \ {q} : ~TakingDown(p)'
    BY <1>4, <2>6 DEF TakingDown
  <2> QED  BY <1>1, <1>2, <2>3, <2>7, LeavingStep DEF ManagerInv
<1> QED  BY <1>3, <1>4

\* Hooks and listeners end, or are cancelled.
LEMMA HooksPromised ==
  ASSUME ManagerInv, HookReturns \/ HookFails \/ EmitReturns \/ EmitCancelled \/ Cancel
  PROVE  PromiseStep
<1>1. holder' = holder /\ job \in Job /\ job # Idle /\ TypeOK
  BY JobTyped DEF ManagerInv, HookReturns, HookFails, EmitReturns, EmitCancelled, Cancel, At,
     registryVars
<1>2. CASE HookReturns
  <2>1. /\ job.at \in {"initialize", "register"} /\ rec' = rec
        /\ job' = [job EXCEPT !.at = "register"] \/ job' = [job EXCEPT !.at = "commit"]
    BY <1>2 DEF HookReturns, At, Await
  <2>2. job'.at \in {"register", "commit"}
    BY <1>1, <2>1 DEF Job
  <2>3. \A p \in Plugins : ~TakingDown(p) /\ ~TakingDown(p)'
    BY <2>1, <2>2 DEF TakingDown
  <2> QED  BY <1>1, <2>1, <2>3, QuietStep
<1>3. CASE HookFails \/ (EmitCancelled /\ job' # Idle)
  <2>1. PICK q \in Plugins : q = job.id
    BY <1>1, <1>3 DEF HookFails, EmitCancelled, At, ManagerInv, PlaceFits
  <2>2. /\ job.at \in {"initialize", "register", "emit_loaded"} /\ rec' = rec
        /\ \E why : job' = Removal(job, why, rec[q].handles)
    BY <1>3, <2>1 DEF HookFails, EmitCancelled, At
  <2>3. job' # Idle /\ job'.at = "remove" /\ job'.id = q
    BY <1>1, <2>1, <2>2 DEF Removal, Job, Idle
  <2>4. TakingDown(q)' /\ \A p \in Plugins \ {q} : ~TakingDown(p)' /\ ~TakingDown(p)
    BY <2>1, <2>3 DEF TakingDown
  <2> QED  BY <1>1, <2>2, <2>4, LeavingStep
<1>4. CASE EmitCancelled /\ job' = Idle
  <2>1. job.at \in {"emit_loaded", "emit_failed", "emit_enabled"} /\ rec' = rec
    BY <1>4 DEF EmitCancelled, At
  <2>2. \A p \in Plugins : ~TakingDown(p) /\ ~TakingDown(p)'
    BY <1>4, <2>1 DEF TakingDown
  <2> QED  BY <1>1, <2>1, <2>2, QuietStep
<1>5. CASE EmitReturns
  <2>1. job.at \in {"emit_loaded", "emit_failed", "emit_enabled", "emit_disabled"}
    BY <1>5 DEF EmitReturns, At
  <2>2. \A p \in Plugins : ~TakingDown(p)
    BY <2>1 DEF TakingDown
  <2>3. CASE LoadReturns(job.op, job.id, rec[job.id], job.todo)
    <3>1. PICK q \in Plugins : q = job.id
      BY <1>1, <2>1 DEF ManagerInv, PlaceFits
    <3>2. Inspected(q, rec[q])
      BY <1>1 DEF Inspected, TypeOK
    <3> QED  BY <1>1, <2>2, <2>3, <3>1, <3>2, ReturnPromised
  <2>4. CASE (job' = [job EXCEPT !.at = "next"] \/ job' = Idle) /\ rec' = rec
    <3>1. job' = Idle \/ job'.at = "next"
      BY <1>1, <2>4 DEF Job
    <3>2. \A p \in Plugins : ~TakingDown(p)'
      BY <3>1 DEF TakingDown
    <3> QED  BY <1>1, <2>2, <2>4, <3>2, QuietStep
  <2> QED  BY <1>5, <2>3, <2>4 DEF EmitReturns, Await
<1>6. CASE Cancel
  <2>1. job' = [job EXCEPT !.cancelled = TRUE] /\ rec' = rec
    BY <1>6 DEF Cancel
  <2>2. job' # Idle /\ job'.at = job.at /\ job'.id = job.id
    BY <1>1, <2>1 DEF Job, Idle
  <2>3. \A p \in Plugins : TakingDown(p)' <=> TakingDown(p)
    BY <1>1, <2>2 DEF TakingDown
  <2> QED  BY <1>1, <2>1, <2>3, QuietStep
<1> QED  BY <1>2, <1>3, <1>4, <1>5, <1>6

\* The commit.
LEMMA CommitPromised ==
  ASSUME ManagerInv, Commit
  PROVE  PromiseStep
<1>1. PICK q \in Plugins : q = job.id
  BY DEF Commit, ManagerInv, PlaceFits, At
<1>2. /\ job \in Job /\ job # Idle /\ job.at = "commit" /\ At("commit") /\ TypeOK
      /\ ~rec[q].loaded /\ rec[q] \in Record
  BY <1>1, JobTyped DEF Commit, ManagerInv, At, Fits, LoadFits, Loading, TypeOK
<1>3. \A p \in Plugins : ~TakingDown(p)
  BY <1>2 DEF TakingDown
<1>4. \A why, S : job' = Removal(job, why, S) =>
         TakingDown(q)' /\ \A p \in Plugins \ {q} : ~TakingDown(p)'
  <2> SUFFICES ASSUME NEW why, NEW S, job' = Removal(job, why, S)
               PROVE  TakingDown(q)' /\ \A p \in Plugins \ {q} : ~TakingDown(p)'
    OBVIOUS
  <2>1. job' # Idle /\ job'.at = "remove" /\ job'.id = q
    BY <1>1, <1>2 DEF Removal, Job, Idle
  <2> QED  BY <2>1 DEF TakingDown
<1>5. ASSUME ~Conflict(q)
      PROVE  Held(q) = {} /\ \A n \in StagedSet(q) : holder[n] = None
  BY <1>1, <1>2, <1>5, NothingStagedIsRegistered
<1>6. CASE /\ Conflict(q) /\ holder' = holder /\ rec' = rec
           /\ job' = Removal(job, AbortReason, rec[q].handles)
  BY <1>2, <1>3, <1>4, <1>6, LeavingStep
<1>7. CASE /\ ~Conflict(q) /\ holder' = Registering(q, CommittedPart(q)) /\ rec' = rec
           /\ job' = Removal(job, "rollback", CommittedPart(q))
  <2>1. CommittedPart(q) \in SUBSET StagedSet(q)
    BY DEF CommittedPart
  <2>2. TakingDown(q)' /\ \A p \in Plugins \ {q} : ~TakingDown(p)'
    BY <1>4, <1>7
  <2> QED  BY <1>2, <1>3, <1>5, <1>7, <2>1, <2>2, TakingStep
<1>8. CASE /\ ~Conflict(q) /\ holder' = Registering(q, StagedSet(q))
           /\ rec' = [rec EXCEPT ![q].handles = StagedSet(q)]
           /\ job' = Removal(job, "cancelled", StagedSet(q))
  <2>1. TakingDown(q)' /\ \A p \in Plugins \ {q} : ~TakingDown(p)'
    BY <1>4, <1>8
  <2>2. \A p \in Plugins \ {q} : rec'[p].loaded = rec[p].loaded
    BY <1>2, <1>8 DEF TypeOK
  <2> QED  BY <1>2, <1>3, <1>5, <1>8, <2>1, <2>2, TakingStep
<1>9. ASSUME NEW s, ~Conflict(q), holder' = Registering(q, StagedSet(q)),
             rec' = [rec EXCEPT ![q].handles = StagedSet(q), ![q].loaded = TRUE,
                                ![q].status = s],
             job' = [job EXCEPT !.at = "emit_loaded"]
      PROVE  PromiseStep
  <2>1. \A p \in Plugins : ~TakingDown(p)'
    <3>1. job'.at = "emit_loaded"
      BY <1>2, <1>9 DEF Job
    <3> QED  BY <3>1 DEF TakingDown
  <2>2. rec'[q].loaded /\ \A p \in Plugins \ {q} : rec'[p].loaded = rec[p].loaded
    BY <1>2, <1>9 DEF TypeOK, Record
  <2> QED  BY <1>2, <1>3, <1>5, <1>9, <2>1, <2>2, TakingStep
<1>10. \/ /\ Conflict(q) /\ holder' = holder /\ rec' = rec
          /\ job' = Removal(job, AbortReason, rec[q].handles)
       \/ /\ ~Conflict(q) /\ holder' = Registering(q, CommittedPart(q)) /\ rec' = rec
          /\ job' = Removal(job, "rollback", CommittedPart(q))
       \/ /\ ~Conflict(q) /\ holder' = Registering(q, StagedSet(q))
          /\ rec' = [rec EXCEPT ![q].handles = StagedSet(q)]
          /\ job' = Removal(job, "cancelled", StagedSet(q))
       \/ /\ ~Conflict(q) /\ holder' = Registering(q, StagedSet(q))
          /\ \E s : rec' = [rec EXCEPT ![q].handles = StagedSet(q), ![q].loaded = TRUE,
                                       ![q].status = s]
          /\ job' = [job EXCEPT !.at = "emit_loaded"]
  BY <1>1 DEF Commit, Await
<1> QED  BY <1>6, <1>7, <1>8, <1>9, <1>10

\* Removals go on until nothing more can be given up.
LEMMA RemovalsPromised ==
  ASSUME ManagerInv, RemoveHandles \/ CloseReturns \/ ShutdownHook
  PROVE  PromiseStep
<1>1. PICK q : q = job.id
  OBVIOUS
<1>2. job # Idle /\ job.at \in Removing /\ TypeOK
  BY DEF RemoveHandles, CloseReturns, ShutdownHook, At, Removing, ManagerInv
<1>3. /\ job \in Job /\ q \in Plugins /\ Fits(q) /\ rec[q] \in Record /\ TakingDown(q)
  BY <1>1, <1>2, RemovalInHand
<1>4. \A p \in Plugins \ {q} : ~TakingDown(p) /\ ~TakingDown(p)'
  <2>1. job' = Idle \/ job'.id = q
    BY <1>1, <1>2, RemovalStaysInCall
  <2> QED  BY <1>1, <2>1 DEF TakingDown
<1>5. ASSUME NEW r \in Record, ~r.loaded, NEW dirty, Cleaned(q, r, dirty)
      PROVE  ~rec'[q].loaded /\ \A p \in Plugins \ {q} : rec'[p] = rec[p]
  <2>1. PICK n : rec' = [rec EXCEPT ![q] = n] /\ (n = r \/ \E s \in Statuses :
                    n = [r EXCEPT !.status = s])
    BY <1>5 DEF Cleaned, Statuses
  <2>2. n \in Record /\ ~n.loaded
    <3>1. CASE n = r
      BY <1>5, <3>1
    <3>2. CASE n # r
      <4>1. PICK s \in Statuses : n = [r EXCEPT !.status = s]
        BY <2>1, <3>2
      <4> QED  BY <1>5, <4>1, StatusReplaced
    <3> QED  BY <3>1, <3>2
  <2> QED  BY <1>2, <1>3, <2>1, <2>2, RecordReplaced
<1>6. ASSUME NEW kept \in SUBSET Names, HandlesRemoved(kept)
      PROVE  /\ TakingDown(q)' \/ ~rec'[q].loaded
             /\ \A p \in Plugins \ {q} : rec'[p] = rec[p]
  <2> DEFINE n == [rec[q] EXCEPT !.handles = kept]
             r == [rec[q] EXCEPT !.handles = kept, !.active = FALSE]
             cleaned == [r EXCEPT !.loaded = FALSE]
  <2>1. n \in Record /\ r \in Record
    BY <1>3, <1>6 DEF Record
  <2>2. cleaned \in Record /\ ~cleaned.loaded
    <3> HIDE DEF r
    <3> QED  BY <2>1 DEF Record
  <2>3. \/ /\ rec' = [rec EXCEPT ![q] = n] \/ rec' = [rec EXCEPT ![q] = r]
           /\ \/ job' = Removal(job, AbortReason, kept)
              \/ job' = [job EXCEPT !.at = "hook", !.left = {}, !.kept = kept]
        \/ Cleaned(q, cleaned, kept # {})
    BY <1>1, <1>6 DEF HandlesRemoved
  <2> HIDE DEF n, r, cleaned
  <2>4. CASE /\ rec' = [rec EXCEPT ![q] = n] \/ rec' = [rec EXCEPT ![q] = r]
             /\ \/ job' = Removal(job, AbortReason, kept)
                \/ job' = [job EXCEPT !.at = "hook", !.left = {}, !.kept = kept]
    <3>1. job' # Idle /\ job'.at \in {"remove", "hook"} /\ job'.id = q
      BY <1>1, <1>3, <2>4 DEF Removal, Job, Idle
    <3>2. \A p \in Plugins \ {q} : rec'[p] = rec[p]
      BY <1>2, <1>3, <2>1, <2>4, RecordReplaced
    <3> QED  BY <3>1, <3>2 DEF TakingDown
  <2>5. CASE Cleaned(q, cleaned, kept # {})
    BY <1>5, <2>2, <2>5
  <2> QED  BY <2>3, <2>4, <2>5
<1>7. CASE RemoveHandles
  <2>1. PICK ints : ints = job.left \cap IntegrationNames
    OBVIOUS
  <2>2. /\ holder' = Unregistering(job.left \ ints)
        /\ \/ HandlesRemoved(ints)
           \/ job' = [job EXCEPT !.at = "close", !.left = ints] /\ rec' = rec
    BY <1>7, <2>1 DEF RemoveHandles
  <2>3. job.left = Held(q) /\ ints \in SUBSET Names /\ job.left \ ints \in SUBSET Held(q)
    <3>1. job.left = Held(q)
      BY <1>1, <1>3, <1>7 DEF RemoveHandles, At, Fits, RemovalFits
    <3> QED  BY <2>1, <3>1 DEF Held
  <2>4. /\ TakingDown(q)' \/ ~rec'[q].loaded
        /\ \A p \in Plugins \ {q} : rec'[p] = rec[p]
    <3>1. CASE job' = [job EXCEPT !.at = "close", !.left = ints] /\ rec' = rec
      <4>1. job' # Idle /\ job'.at = "close" /\ job'.id = q
        BY <1>1, <1>3, <3>1 DEF Job, Idle
      <4> QED  BY <3>1, <4>1 DEF TakingDown
    <3> QED  BY <1>6, <2>2, <2>3, <3>1
  <2> QED  BY <1>2, <1>3, <1>4, <2>2, <2>3, <2>4, WithdrawalStep
<1>8. CASE CloseReturns
  <2>1. PICK n : n = LastOf(Staged[q], job.left)
    OBVIOUS
  <2>2. PICK left : left = job.left \ {n}
    OBVIOUS
  <2>7. PICK ok \in BOOLEAN :
           \E kept :
               /\ kept = IF ok THEN job.kept ELSE job.kept \cup {n}
               /\ holder' = IF ok THEN Unregistering({n}) ELSE holder
               /\ \/ HandlesRemoved(kept \cup left)
                  \/ job' = [job EXCEPT !.left = left, !.kept = kept] /\ rec' = rec
    BY <1>1, <1>8, <2>1, <2>2 DEF CloseReturns
  <2>3. PICK kept :
           /\ kept = IF ok THEN job.kept ELSE job.kept \cup {n}
           /\ holder' = IF ok THEN Unregistering({n}) ELSE holder
           /\ \/ HandlesRemoved(kept \cup left)
              \/ job' = [job EXCEPT !.left = left, !.kept = kept] /\ rec' = rec
    BY <2>7
  <2>4. /\ n \in Held(q) /\ Held(q) \in SUBSET Names
        /\ kept \cup left \in SUBSET Names
    <3>1. /\ job.left # {} /\ job.left \cup job.kept = Held(q) /\ Held(q) \subseteq StagedSet(q)
          /\ Held(q) \in SUBSET Names
      BY <1>1, <1>3, <1>8 DEF CloseReturns, At, Fits, RemovalFits, HoldingFits, Held
    <3>2. job.left \cap Range(Staged[q]) # {}
      BY <3>1 DEF StagedSet
    <3>3. n \in job.left
      BY <1>3, <2>1, <3>2, LastOfIn, Constants
    <3> QED  BY <2>2, <2>3, <3>1, <3>3
  <2>5. PICK S \in SUBSET Held(q) : holder' = Unregistering(S)
    <3>1. CASE ok
      <4>1. {n} \in SUBSET Held(q) /\ holder' = Unregistering({n})
        BY <2>3, <2>4, <3>1
      <4> QED  BY <4>1
    <3>2. CASE ~ok
      <4>1. holder' = Unregistering({})
        BY <1>2, <2>3, <3>2 DEF Unregistering, TypeOK
      <4> QED  BY <4>1
    <3> QED  BY <3>1, <3>2
  <2>6. /\ TakingDown(q)' \/ ~rec'[q].loaded
        /\ \A p \in Plugins \ {q} : rec'[p] = rec[p]
    <3>1. CASE job' = [job EXCEPT !.left = left, !.kept = kept] /\ rec' = rec
      <4>1. job' # Idle /\ job'.at = job.at /\ job'.id = q
        BY <1>1, <1>3, <3>1 DEF Job, Idle
      <4> QED  BY <1>2, <3>1, <4>1 DEF TakingDown, Removing
    <3> QED  BY <1>6, <2>3, <2>4, <3>1
  <2> QED  BY <1>2, <1>3, <1>4, <2>5, <2>6, WithdrawalStep
<1>9. CASE ShutdownHook
  <2>1. PICK ok \in BOOLEAN :
           Cleaned(q, [rec[q] EXCEPT !.pending = ~ok, !.loaded = FALSE], job.kept # {} \/ ~ok)
    BY <1>1, <1>9 DEF ShutdownHook
  <2>2. PICK r : r = [rec[q] EXCEPT !.pending = ~ok, !.loaded = FALSE]
    OBVIOUS
  <2>3. r \in Record /\ ~r.loaded
    BY <1>3, <2>2 DEF Record
  <2>4. ~rec'[q].loaded /\ \A p \in Plugins \ {q} : rec'[p] = rec[p]
    BY <1>5, <2>1, <2>2, <2>3
  <2>5. holder' = Unregistering({}) /\ {} \in SUBSET Held(q)
    BY <1>2, <1>9 DEF ShutdownHook, registryVars, Unregistering, TypeOK
  <2> QED  BY <1>2, <1>3, <1>4, <2>4, <2>5, WithdrawalStep
<1> QED  BY <1>7, <1>8, <1>9

\* Nothing else touches a registry or the lock.
LEMMA ElsewherePromised ==
  ASSUME ManagerInv,
         \/ \E p \in Plugins : Inspect(p)
         \/ UNCHANGED <<holder, rec, job>>
  PROVE  PromiseStep
<1>1. CASE UNCHANGED <<holder, rec, job>>
  BY <1>1, QuietStep DEF TakingDown
<1>2. CASE \E p \in Plugins : Inspect(p)
  <2>1. PICK q \in Plugins : Inspect(q)
    BY <1>2
  <2>2. PICK v \in Inspections(q) : rec' = [rec EXCEPT ![q] = v.r]
    BY <2>1 DEF Inspect
  <2>3. TypeOK /\ v.r \in Record /\ v.r.loaded = rec[q].loaded
    BY InspectionsFit DEF ManagerInv, Inspected
  <2>4. \A p \in Plugins : rec'[p].loaded = rec[p].loaded
    BY <2>2, <2>3, RecordReplaced
  <2>5. holder' = holder /\ job' = job
    BY <2>1 DEF Inspect, registryVars
  <2> QED  BY <2>4, <2>5, QuietStep DEF TakingDown
<1> QED  BY <1>1, <1>2

\* The lifecycle starts as the promise does.
LEMMA PromisesBegin == Init => Promise!Init
<1> SUFFICES ASSUME Init PROVE Promise!Init
  OBVIOUS
<1>1. holder = [n \in Names |-> IF n \in HostNames THEN Host ELSE None]
  BY DEF Init, RegistriesInit
<1>2. \A p \in Plugins : StageAt(p) = "absent"
  <2>1. job = Idle /\ \A p \in Plugins : ~rec[p].loaded
    BY DEF Init
  <2>2. \A p \in Plugins : Held(p) = {}
    BY <1>1, Constants DEF Held
  <2> QED  BY <2>1, <2>2 DEF StageAt, TakingDown
<1>3. Stage = [p \in Plugins |-> "absent"]
  BY <1>2, StageIs
<1> QED  BY <1>1, <1>3 DEF Promise!Init

\* The plug-in lifecycle implements CapabilityPromise: a plug-in appears with
\* everything it stages in one step, nothing of it is missing until it is on
\* its way out, and it takes no name of the host or of another plug-in.
THEOREM CapabilitiesImplemented == Spec => CapabilitiesAsPromised
<1>1. ASSUME ManagerInv, [Next]_vars
      PROVE  [Promise!Next]_(Promise!vars)
  <2>1. CASE Proceed \/ Cancel
    <3>1. PromiseStep
      BY <1>1, <2>1, StartPromised, NextToLoadPromised, NextToUnloadPromised, HooksPromised,
         CommitPromised, RemovalsPromised DEF Proceed
    <3> QED  BY <3>1 DEF PromiseStep, Promise!vars
  <2>2. CASE ~(Proceed \/ Cancel)
    <3>1. \/ \E p \in Plugins : Inspect(p)
          \/ UNCHANGED <<holder, rec, job>>
      BY <1>1, <2>2 DEF Next, Call, GiveUp, Aclose, BeginSweep, Sweeping, Visit, EndSweep, Closed,
         vars, registryVars, managerVars
    <3>2. PromiseStep
      BY <1>1, <3>1, ElsewherePromised
    <3> QED  BY <3>2 DEF PromiseStep, Promise!vars
  <2> QED  BY <2>1, <2>2
<1>2. Spec => []ManagerInv
  BY ManagerInvariant
<1> QED  BY <1>1, <1>2, PromisesBegin, PTL DEF Spec, CapabilitiesAsPromised, Promise!Spec
=============================================================================
