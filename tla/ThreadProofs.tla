----------------------------- MODULE ThreadProofs -----------------------------
(***************************************************************************)
(* What answers are worth although threads outlive their calls: those of   *)
(* remember, forget and clear, for any number of memories, requests,       *)
(* abandoned threads and restarts; those of the desktop actions, for any   *)
(* number of calls, processes and windows; and those of the mail, calendar *)
(* and repository services, for any number of calls, drafts, events and    *)
(* changes by other clients.  The three implement CallPromise.             *)
(***************************************************************************)
EXTENDS MCCalls, TLAPS

----------------------------------------------------------------------------
(* The memories.                                                           *)

RequestRecords ==
    [op : {"none", "remember", "forget", "clear", "recall"},
     keys : SUBSET Spellings, scope : SUBSET Rows,
     worker : {"none", "queued", "done", "raised", "dropped"},
     answer : {"none", "waiting", "success", "failure"}, after : SUBSET RequestNumbers]

\* A request about one memory names it by one of its spellings.
NamesItsRow(request) ==
    request.op \in {"remember", "forget"} =>
        \E s \in Spellings : request.keys = {s} /\ request.scope = {RowFor(s)}

\* An answer follows the thread's end; requests that come are not known yet.
AnsweredIsDone ==
    \A i \in RequestNumbers :
        /\ requests[i].answer = "success" => requests[i].worker = "done"
        /\ requests[i].after \subseteq AnsweredRequests
        /\ i > requested => requests[i].worker = "none" /\ requests[i].answer = "none"

\* A thread that has ended counts, whether its answer was awaited or not.
ForgottenWhenDone ==
    \A f \in RequestNumbers :
        requests[f].op \in {"forget", "clear"} /\ requests[f].worker = "done" =>
            \A m \in requests[f].scope : memories[m] \notin requests[f].after

KeptWhenDone ==
    \A r \in RequestNumbers :
        requests[r].op = "remember" /\ requests[r].worker = "done" =>
            \A m \in requests[r].scope :
                \/ memories[m] = r
                \/ \E w \in RequestNumbers \ (requests[r].after \cup {r}) :
                      m \in requests[w].scope /\ requests[w].worker = "done"

MemoryTypes ==
    /\ memories \in [Rows -> 0 .. MaxRequests]
    /\ requested \in 0 .. MaxRequests
    /\ requests \in [RequestNumbers -> RequestRecords]
    /\ \A i \in RequestNumbers : NamesItsRow(requests[i])

MemoryInv == MemoryTypes /\ AnsweredIsDone /\ ForgottenWhenDone /\ KeptWhenDone

\* At the start nothing is remembered and nothing was asked.
LEMMA MemoryInitInv == MemoryInit => MemoryInv
  BY MemoryConstants
  DEF MemoryInit, MemoryInv, MemoryTypes, RequestRecords, NamesItsRow, AnsweredIsDone,
      ForgottenWhenDone, KeptWhenDone, NotRequested, RequestNumbers, AnsweredRequests

\* A thread ends: rows change only for values that were not answered before, and for rows the
\* request speaks of.
LEMMA EndKeeps ==
  ASSUME MemoryInv, NEW i \in RequestNumbers, requests[i].worker = "queued", Done(i),
         requested' = requested, memories' \in [Rows -> 0 .. MaxRequests],
         \A m \in Rows : memories'[m] \in {0, i, memories[m]},
         \A m \in Rows : memories'[m] # memories[m] => m \in requests[i].scope,
         requests[i].op \in {"forget", "clear"} => \A m \in requests[i].scope : memories'[m] = 0,
         requests[i].op = "remember" => \A m \in requests[i].scope : memories'[m] = i
  PROVE  MemoryInv'
<1> DEFINE new == [requests[i] EXCEPT !.worker = "done"]
<1>1. /\ requests' \in [RequestNumbers -> RequestRecords]
      /\ requests'[i] = new
      /\ \A j \in RequestNumbers \ {i} : requests'[j] = requests[j]
      /\ \A j \in RequestNumbers :
            /\ requests'[j].op = requests[j].op /\ requests'[j].keys = requests[j].keys
            /\ requests'[j].scope = requests[j].scope /\ requests'[j].after = requests[j].after
            /\ requests'[j].answer = requests[j].answer
            /\ requests'[j].worker = IF j = i THEN "done" ELSE requests[j].worker
  BY DEF Done, MemoryInv, MemoryTypes, RequestRecords
<1>2. AnsweredRequests' = AnsweredRequests
  BY <1>1 DEF AnsweredRequests
<1>3. MemoryTypes'
  BY <1>1 DEF MemoryInv, MemoryTypes, NamesItsRow
<1>4. AnsweredIsDone'
  <2>1. i <= requested
    BY DEF MemoryInv, AnsweredIsDone, MemoryTypes, RequestNumbers
  <2> QED BY <1>1, <1>2, <2>1 DEF MemoryInv, MemoryTypes, AnsweredIsDone, RequestNumbers
\* The thread had not ended, so no request was made after its answer.
<1>5. \A j \in RequestNumbers : i \notin requests[j].after /\ 0 \notin requests[j].after
  BY DEF MemoryInv, MemoryTypes, AnsweredIsDone, AnsweredRequests, RequestNumbers
<1>6. ForgottenWhenDone'
  <2> SUFFICES ASSUME NEW f \in RequestNumbers,
                      requests'[f].op \in {"forget", "clear"}, requests'[f].worker = "done",
                      NEW m \in requests'[f].scope
               PROVE  memories'[m] \notin requests'[f].after
    BY DEF ForgottenWhenDone
  <2>1. m \in Rows
    BY <1>1 DEF RequestRecords
  <2>2. CASE f = i
    BY <1>1, <1>5, <2>2
  <2>3. CASE f # i
    BY <1>1, <1>5, <2>1, <2>3 DEF MemoryInv, ForgottenWhenDone
  <2> QED BY <2>2, <2>3
<1>7. KeptWhenDone'
  <2> SUFFICES ASSUME NEW r \in RequestNumbers,
                      requests'[r].op = "remember", requests'[r].worker = "done",
                      NEW m \in requests'[r].scope, memories'[m] # r
               PROVE  \E w \in RequestNumbers \ (requests'[r].after \cup {r}) :
                          m \in requests'[w].scope /\ requests'[w].worker = "done"
    BY DEF KeptWhenDone
  <2>1. m \in Rows
    BY <1>1 DEF RequestRecords
  <2>2. r # i
    BY <1>1
  <2>3. CASE memories'[m] # memories[m]
    BY <1>1, <1>5, <2>1, <2>2, <2>3
  <2>4. CASE memories'[m] = memories[m]
    BY <1>1, <2>2, <2>4 DEF MemoryInv, KeptWhenDone
  <2> QED BY <2>3, <2>4
<1> QED BY <1>3, <1>4, <1>6, <1>7 DEF MemoryInv

\* A request begins under a number of its own; nothing else changes.
LEMMA BeginsKeep ==
  ASSUME MemoryInv, NEW op \in {"remember", "forget", "clear", "recall"},
         NEW keys \in SUBSET Spellings, NEW scope \in SUBSET Rows,
         op \in {"remember", "forget"} =>
            \E s \in Spellings : keys = {s} /\ scope = {RowFor(s)},
         MemoryRequest(op, keys, scope)
  PROVE  MemoryInv'
<1> DEFINE i == requested + 1
           new == [op |-> op, keys |-> keys, scope |-> scope, worker |-> "queued",
                   answer |-> "waiting", after |-> AnsweredRequests]
<1>1. i \in RequestNumbers /\ requested' = i /\ requested' \in 0 .. MaxRequests
  BY MemoryConstants DEF MemoryRequest, MemoryInv, MemoryTypes, RequestNumbers
<1>2. requests' = [requests EXCEPT ![i] = new] /\ memories' = memories
  BY DEF MemoryRequest
<1>3. new \in RequestRecords /\ NamesItsRow(new)
  BY DEF RequestRecords, NamesItsRow, AnsweredRequests
<1> HIDE DEF i
<1>4. requests'[i] = new /\ \A j \in RequestNumbers \ {i} : requests'[j] = requests[j]
  BY <1>1, <1>2 DEF MemoryInv, MemoryTypes
<1>5. requests[i].worker = "none" /\ requests[i].answer = "none"
  BY <1>1 DEF i, MemoryInv, MemoryTypes, AnsweredIsDone, RequestNumbers
<1>6. AnsweredRequests' = AnsweredRequests
  <2>1. \A j \in RequestNumbers :
            requests'[j].answer = "success" <=> requests[j].answer = "success"
    BY <1>4, <1>5
  <2> QED BY <2>1 DEF AnsweredRequests
<1>7. MemoryTypes'
  <2>1. requests' \in [RequestNumbers -> RequestRecords]
    BY <1>1, <1>2, <1>3 DEF MemoryInv, MemoryTypes
  <2>2. \A j \in RequestNumbers : NamesItsRow(requests'[j])
    BY <1>3, <1>4 DEF MemoryInv, MemoryTypes
  <2> QED BY <1>1, <1>2, <2>1, <2>2 DEF MemoryInv, MemoryTypes
<1>8. AnsweredIsDone'
  <2>1. \A j \in RequestNumbers : requests'[j].answer = "success" => requests'[j].worker = "done"
    BY <1>4 DEF MemoryInv, AnsweredIsDone
  <2>2. \A j \in RequestNumbers : requests'[j].after \subseteq AnsweredRequests
    BY <1>4 DEF MemoryInv, AnsweredIsDone
  <2>3. \A j \in RequestNumbers :
            j > requested' => j # i /\ requests[j].worker = "none" /\ requests[j].answer = "none"
    BY <1>1 DEF i, MemoryInv, MemoryTypes, AnsweredIsDone, RequestNumbers
  <2> QED BY <1>4, <1>6, <2>1, <2>2, <2>3 DEF AnsweredIsDone
<1>9. ForgottenWhenDone'
  BY <1>2, <1>4 DEF MemoryInv, ForgottenWhenDone
<1>10. KeptWhenDone'
  <2>1. \A j \in RequestNumbers : requests[j].worker = "done" => j # i
    BY <1>5
  <2> QED BY <1>2, <1>4, <2>1 DEF MemoryInv, KeptWhenDone
<1> QED BY <1>7, <1>8, <1>9, <1>10 DEF MemoryInv

\* Answers, and threads that end without effect, change no row and no ended thread.
LEMMA OthersKeep ==
  ASSUME MemoryInv, UNCHANGED <<memories, requested>>,
         requests' \in [RequestNumbers -> RequestRecords],
         \A j \in RequestNumbers :
            /\ requests'[j].op = requests[j].op /\ requests'[j].keys = requests[j].keys
            /\ requests'[j].scope = requests[j].scope /\ requests'[j].after = requests[j].after
            /\ requests'[j].worker = "done" <=> requests[j].worker = "done"
            /\ requests[j].answer = "success" => requests'[j].answer = "success"
            /\ requests'[j].answer = "success" => requests'[j].worker = "done"
            /\ j > requested => requests'[j].worker = "none" /\ requests'[j].answer = "none"
  PROVE  MemoryInv'
<1>1. MemoryTypes'
  BY DEF MemoryInv, MemoryTypes, NamesItsRow
<1>2. AnsweredRequests \subseteq AnsweredRequests'
  BY DEF AnsweredRequests
<1>3. AnsweredIsDone'
  BY <1>2 DEF MemoryInv, AnsweredIsDone
<1>4. ForgottenWhenDone' /\ KeptWhenDone'
  BY DEF MemoryInv, ForgottenWhenDone, KeptWhenDone
<1> QED BY <1>1, <1>3, <1>4 DEF MemoryInv

\* One request's thread or answer goes on without touching a row.
LEMMA OneGoesOn ==
  ASSUME MemoryInv, NEW i \in RequestNumbers, NEW new \in RequestRecords,
         UNCHANGED <<memories, requested>>, requests' = [requests EXCEPT ![i] = new],
         i <= requested, requests[i].answer # "success",
         new.op = requests[i].op, new.keys = requests[i].keys,
         new.scope = requests[i].scope, new.after = requests[i].after,
         new.worker = "done" <=> requests[i].worker = "done",
         new.answer = "success" => new.worker = "done"
  PROVE  MemoryInv'
<1>1. requests' \in [RequestNumbers -> RequestRecords]
  BY DEF MemoryInv, MemoryTypes
<1>2. requests'[i] = new /\ \A j \in RequestNumbers \ {i} : requests'[j] = requests[j]
  BY DEF MemoryInv, MemoryTypes
<1>3. ~(i > requested)
  BY DEF MemoryInv, MemoryTypes, RequestNumbers
<1> QED BY <1>1, <1>2, <1>3, OthersKeep DEF MemoryInv, AnsweredIsDone

\* Every step of a request, a thread or the program keeps the invariant.
LEMMA MemoryStep == ASSUME MemoryInv, [MemoryNext]_memoryVars PROVE MemoryInv'
<1> USE DEF MemoryInv, MemoryTypes
<1>1. ASSUME NEW s \in Spellings, Remember(s) \/ Forget(s) PROVE MemoryInv'
  <2>1. RowFor(s) \in Rows
    BY MemoryConstants DEF RowFor
  <2> QED BY <1>1, <2>1, BeginsKeep, ZenonT(40) DEF Remember, Forget
<1>2. CASE Clear
  <2>1. \A c \in Categories : {m \in Rows : Category[m] = c} \subseteq Rows
    OBVIOUS
  <2> QED BY <1>2, <2>1, BeginsKeep DEF Clear
<1>3. CASE Recall
  BY <1>3, BeginsKeep DEF Recall
<1>4. ASSUME NEW i \in RequestNumbers, Upsert(i) PROVE MemoryInv'
  <2>1. PICK s \in Spellings : requests[i].keys = {s} /\ requests[i].scope = {RowFor(s)}
    BY <1>4 DEF Upsert, Runs, NamesItsRow
  <2>2. memories' = [memories EXCEPT ![RowFor(s)] = i]
    BY <1>4, <2>1 DEF Upsert
  <2>3. RowFor(s) \in Rows /\ i \in 0 .. MaxRequests
    BY MemoryConstants DEF RowFor, RequestNumbers
  <2>4. /\ memories' \in [Rows -> 0 .. MaxRequests]
        /\ \A m \in Rows : memories'[m] = IF m = RowFor(s) THEN i ELSE memories[m]
    BY <2>2, <2>3
  <2> QED BY <1>4, <2>1, <2>4, EndKeeps DEF Upsert, Runs
<1>5. ASSUME NEW i \in RequestNumbers, DeleteRow(i) PROVE MemoryInv'
  <2>1. PICK s \in Spellings : requests[i].keys = {s} /\ requests[i].scope = {RowFor(s)}
    BY <1>5 DEF DeleteRow, Runs, NamesItsRow
  <2>2. memories' = [memories EXCEPT ![RowFor(s)] = 0]
    BY <1>5, <2>1 DEF DeleteRow
  <2>3. 0 \in 0 .. MaxRequests
    BY MemoryConstants
  <2>4. /\ memories' \in [Rows -> 0 .. MaxRequests]
        /\ \A m \in Rows : memories'[m] = IF m = RowFor(s) THEN 0 ELSE memories[m]
    BY <2>2, <2>3
  <2>5. RowFor(s) \in Rows
    BY MemoryConstants DEF RowFor
  <2> QED BY <1>5, <2>1, <2>4, <2>5, EndKeeps DEF DeleteRow, Runs
<1>6. ASSUME NEW i \in RequestNumbers, DeleteAll(i) PROVE MemoryInv'
  <2>1. /\ memories' \in [Rows -> 0 .. MaxRequests]
        /\ \A m \in Rows : memories'[m] = IF m \in requests[i].scope THEN 0 ELSE memories[m]
    BY <1>6, MemoryConstants DEF DeleteAll
  <2>2. requests[i].scope \subseteq Rows
    BY DEF RequestRecords
  <2> QED BY <1>6, <2>1, <2>2, EndKeeps DEF DeleteAll, Runs
<1>7. ASSUME NEW i \in RequestNumbers, Select(i) PROVE MemoryInv'
  BY <1>7, EndKeeps DEF Select, Runs
<1>8. ASSUME NEW i \in RequestNumbers, RequestRaises(i) PROVE MemoryInv'
  <2> DEFINE new == [requests[i] EXCEPT !.worker = "raised"]
  <2>1. requests' = [requests EXCEPT ![i] = new] /\ requests[i] \in RequestRecords
    BY <1>8 DEF RequestRaises
  <2>2. /\ new \in RequestRecords /\ new.op = requests[i].op /\ new.keys = requests[i].keys
        /\ new.scope = requests[i].scope /\ new.after = requests[i].after
        /\ new.worker = "raised" /\ new.answer = requests[i].answer
    BY <2>1 DEF RequestRecords
  <2> HIDE DEF new
  <2>3. requests[i].worker = "queued" /\ UNCHANGED <<memories, requested>>
    BY <1>8 DEF RequestRaises
  <2>4. i <= requested /\ requests[i].answer # "success"
    BY <2>3 DEF AnsweredIsDone, RequestNumbers
  <2> QED BY <2>1, <2>2, <2>3, <2>4, OneGoesOn
<1>9. ASSUME NEW i \in RequestNumbers, RequestSucceeds(i) \/ RequestFails(i) PROVE MemoryInv'
  <2>1. /\ requests[i] \in RequestRecords /\ requests[i].answer = "waiting"
        /\ UNCHANGED <<memories, requested>>
    BY <1>9 DEF RequestSucceeds, RequestFails, Waiting
  <2>2. i <= requested
    BY <2>1 DEF AnsweredIsDone, RequestNumbers
  <2>3. CASE RequestSucceeds(i)
    <3> DEFINE new == [requests[i] EXCEPT !.answer = "success"]
    <3>1. requests' = [requests EXCEPT ![i] = new] /\ requests[i].worker = "done"
      BY <2>3 DEF RequestSucceeds
    <3>2. /\ new \in RequestRecords /\ new.op = requests[i].op /\ new.keys = requests[i].keys
          /\ new.scope = requests[i].scope /\ new.after = requests[i].after
          /\ new.worker = requests[i].worker /\ new.answer = "success"
      BY <2>1 DEF RequestRecords
    <3> HIDE DEF new
    <3> QED BY <2>1, <2>2, <3>1, <3>2, OneGoesOn
  <2>4. CASE requests' = [requests EXCEPT ![i].answer = "failure"]
    <3> DEFINE new == [requests[i] EXCEPT !.answer = "failure"]
    <3>1. requests' = [requests EXCEPT ![i] = new]
      BY <2>4
    <3>2. /\ new \in RequestRecords /\ new.op = requests[i].op /\ new.keys = requests[i].keys
          /\ new.scope = requests[i].scope /\ new.after = requests[i].after
          /\ new.worker = requests[i].worker /\ new.answer = "failure"
      BY <2>1 DEF RequestRecords
    <3> HIDE DEF new
    <3> QED BY <2>1, <2>2, <3>1, <3>2, OneGoesOn
  <2>5. CASE /\ requests[i].worker = "queued"
             /\ requests' = [requests EXCEPT ![i].answer = "failure", ![i].worker = "dropped"]
    <3> DEFINE new == [requests[i] EXCEPT !.answer = "failure", !.worker = "dropped"]
    <3>1. requests' = [requests EXCEPT ![i] = new]
      BY <2>5
    <3>2. /\ new \in RequestRecords /\ new.op = requests[i].op /\ new.keys = requests[i].keys
          /\ new.scope = requests[i].scope /\ new.after = requests[i].after
          /\ new.worker = "dropped" /\ new.answer = "failure"
      BY <2>1 DEF RequestRecords
    <3> HIDE DEF new
    <3> QED BY <2>1, <2>2, <2>5, <3>1, <3>2, OneGoesOn
  <2> QED BY <1>9, <2>3, <2>4, <2>5 DEF RequestFails
<1>10. CASE CloseStore
  BY <1>10, OthersKeep DEF CloseStore, AnsweredIsDone
<1>11. CASE Restart
  <2>1. \A j \in RequestNumbers : requests[j] \in RequestRecords
    OBVIOUS
  <2>2. \A j \in RequestNumbers :
           requests'[j] = [requests[j] EXCEPT
                             !.worker = IF @ = "queued" THEN "dropped" ELSE @,
                             !.answer = IF @ = "waiting" THEN "failure" ELSE @]
    BY <1>11 DEF Restart
  <2>3. ASSUME NEW j \in RequestNumbers
        PROVE  /\ requests'[j] \in RequestRecords
               /\ requests'[j].op = requests[j].op /\ requests'[j].keys = requests[j].keys
               /\ requests'[j].scope = requests[j].scope /\ requests'[j].after = requests[j].after
               /\ requests'[j].worker = "done" <=> requests[j].worker = "done"
               /\ requests'[j].answer = "success" <=> requests[j].answer = "success"
               /\ j > requested => requests'[j].worker = "none" /\ requests'[j].answer = "none"
    <3> DEFINE worker == IF requests[j].worker = "queued" THEN "dropped" ELSE requests[j].worker
               answer == IF requests[j].answer = "waiting" THEN "failure" ELSE requests[j].answer
    <3>1. requests'[j] = [requests[j] EXCEPT !.worker = worker, !.answer = answer]
      BY <2>2
    <3>2. /\ worker \in {"none", "queued", "done", "raised", "dropped"}
          /\ answer \in {"none", "waiting", "success", "failure"}
      BY <2>1 DEF RequestRecords
    <3>3. j > requested => worker = "none" /\ answer = "none"
      BY DEF AnsweredIsDone
    <3>4. /\ worker = "done" <=> requests[j].worker = "done"
          /\ answer = "success" <=> requests[j].answer = "success"
      OBVIOUS
    <3> HIDE DEF worker, answer
    <3>5. /\ requests'[j] \in RequestRecords
          /\ requests'[j].op = requests[j].op /\ requests'[j].keys = requests[j].keys
          /\ requests'[j].scope = requests[j].scope /\ requests'[j].after = requests[j].after
          /\ requests'[j].worker = worker /\ requests'[j].answer = answer
      BY <2>1, <3>1, <3>2 DEF RequestRecords
    <3> QED BY <3>3, <3>4, <3>5
  <2>4. requests' \in [RequestNumbers -> RequestRecords]
    BY <1>11, <2>3 DEF Restart
  <2> QED BY <1>11, <2>3, <2>4, OthersKeep DEF Restart, AnsweredIsDone
<1>12. CASE UNCHANGED memoryVars
  BY <1>12, OthersKeep DEF memoryVars, AnsweredIsDone
<1> QED
  BY <1>1, <1>2, <1>3, <1>4, <1>5, <1>6, <1>7, <1>8, <1>9, <1>10, <1>11, <1>12 DEF MemoryNext

\* An answered forget or clear holds against every value answered before it, and an answered
\* remember is lost only to a request that was not answered when it was made, through threads
\* that outlive their requests and through restarts.
THEOREM AnswersCanBeReliedOn == MemorySpec => []MemoriesAsAnswered
<1>1. MemoryInv => MemoriesAsAnswered
  BY DEF MemoryInv, AnsweredIsDone, AnsweredRequests, ForgottenWhenDone, KeptWhenDone,
         MemoriesAsAnswered, Forgotten, Kept
<1> QED BY <1>1, MemoryInitInv, MemoryStep, PTL DEF MemorySpec

\* What the program keeps besides.
ProgramTypes == storeOpen \in BOOLEAN /\ starts \in 0 .. MaxStarts

LEMMA ProgramTypesStep == ProgramTypes /\ [MemoryNext]_memoryVars => ProgramTypes'
<1> SUFFICES ASSUME ProgramTypes, [MemoryNext]_memoryVars PROVE ProgramTypes'
  OBVIOUS
<1> USE DEF ProgramTypes
<1>1. CASE CloseStore
  BY <1>1 DEF CloseStore
<1>2. CASE Restart
  <2>1. MaxStarts \in Nat
    BY MemoryConstants
  <2>2. starts < MaxStarts /\ starts' = starts + 1 /\ storeOpen' = TRUE
    BY <1>2 DEF Restart
  <2> QED BY <2>1, <2>2
<1>3. CASE UNCHANGED programVars
  BY <1>3 DEF programVars
<1> QED
  BY <1>1, <1>2, <1>3
  DEF MemoryNext, Remember, Forget, Clear, Recall, MemoryRequest, Upsert, DeleteRow, DeleteAll,
      Select, RequestRaises, RequestSucceeds, RequestFails, memoryVars, programVars

\* With them the invariant gives the types.
LEMMA MemoryTyped ==
  /\ MemoryInit => ProgramTypes
  /\ MemoryInv /\ ProgramTypes => MemoryTypeOK
<1>1. MemoryInit => ProgramTypes
  BY MemoryConstants DEF MemoryInit, ProgramTypes
<1>2. MemoryInv /\ ProgramTypes => MemoryTypeOK
  BY DEF MemoryInv, MemoryTypes, ProgramTypes, RequestRecords, MemoryTypeOK
<1> QED BY <1>1, <1>2

\* The variables of the memories keep their types, whatever threads and restarts do.
THEOREM MemoryTypeCorrect == MemorySpec => []MemoryTypeOK
  BY MemoryTyped, ProgramTypesStep, MemoryInitInv, MemoryStep, PTL DEF MemorySpec

----------------------------------------------------------------------------
(* The memories as CallPromise has them.                                   *)

\* One request's step is a step of that call only.
LEMMA RequestMapped ==
  ASSUME NEW i \in RequestNumbers, \A j \in RequestNumbers \ {i} : requests'[j] = requests[j]
  PROVE  /\ RequestMatters' = [RequestMatters EXCEPT ![i] = <<requests[i].op, requests[i].scope>>']
         /\ RequestEffects' = [RequestEffects EXCEPT ![i] = RequestEffect(requests[i])']
         /\ RequestAnswers' = [RequestAnswers EXCEPT ![i] = requests[i].answer']
<1>1. RequestMatters' = [RequestMatters EXCEPT ![i] = <<requests[i].op, requests[i].scope>>']
  BY DEF RequestMatters
<1>2. RequestEffects' = [RequestEffects EXCEPT ![i] = RequestEffect(requests[i])']
  <2>1. \A j \in RequestNumbers \ {i} : RequestEffect(requests[j])' = RequestEffect(requests[j])
    BY DEF RequestEffect
  <2> QED BY <2>1 DEF RequestEffects
<1>3. RequestAnswers' = [RequestAnswers EXCEPT ![i] = requests[i].answer']
  BY DEF RequestAnswers
<1> QED BY <1>1, <1>2, <1>3

\* A new request.
LEMMA RequestMade ==
  ASSUME MemoryInv, NEW op \in {"remember", "forget", "clear", "recall"},
         NEW keys, NEW scope \in SUBSET Rows, MemoryRequest(op, keys, scope)
  PROVE  MemoryPromise!Next
<1>0. PICK i : i = requested + 1
  OBVIOUS
<1> DEFINE new == [op |-> op, keys |-> keys, scope |-> scope, worker |-> "queued",
                   answer |-> "waiting", after |-> AnsweredRequests]
<1>1. i \in RequestNumbers
  BY <1>0, MemoryConstants DEF MemoryRequest, MemoryInv, MemoryTypes, RequestNumbers
<1>2. requests' = [requests EXCEPT ![i] = new] /\ Waiting = {}
  BY <1>0 DEF MemoryRequest
<1>3. requests[i].answer = "none"
  BY <1>0, <1>1 DEF MemoryInv, AnsweredIsDone, MemoryTypes, RequestNumbers
<1>4. requests'[i] = new /\ \A j \in RequestNumbers \ {i} : requests'[j] = requests[j]
  BY <1>1, <1>2 DEF MemoryInv, MemoryTypes
<1>5. /\ requests'[i].op = op /\ requests'[i].scope = scope
      /\ requests'[i].answer = "waiting" /\ RequestEffect(requests[i])' = "possible"
  BY <1>4 DEF RequestEffect
<1>6. /\ RequestMatters' = [RequestMatters EXCEPT ![i] = <<op, scope>>]
      /\ RequestEffects' = [RequestEffects EXCEPT ![i] = "possible"]
      /\ RequestAnswers' = [RequestAnswers EXCEPT ![i] = "waiting"]
  BY <1>1, <1>4, <1>5, RequestMapped
<1>7. RequestAnswers[i] = "none" /\ \A j \in RequestNumbers : RequestAnswers[j] # "waiting"
  BY <1>1, <1>2, <1>3 DEF RequestAnswers, Waiting
<1>8. MemoryPromise!Make(i)
  BY <1>6, <1>7 DEF MemoryPromise!Make, MemoryPromise!Made, MemoryPromise!Becomes
<1> QED BY <1>1, <1>8 DEF MemoryPromise!Next

\* A thread ends.
LEMMA RequestActs ==
  ASSUME MemoryInv, NEW i \in RequestNumbers, NEW stage \in {"done", "raised"},
         requests[i].worker = "queued", requests' = [requests EXCEPT ![i].worker = stage]
  PROVE  MemoryPromise!Next
<1>1. /\ \A j \in RequestNumbers \ {i} : requests'[j] = requests[j]
      /\ requests'[i].op = requests[i].op /\ requests'[i].scope = requests[i].scope
      /\ requests'[i].answer = requests[i].answer /\ requests'[i].worker = stage
  BY DEF MemoryInv, MemoryTypes, RequestRecords
<1>2. RequestMatters' = RequestMatters /\ RequestAnswers' = RequestAnswers
  <2>1. \A j \in RequestNumbers :
           /\ <<requests'[j].op, requests'[j].scope>> = <<requests[j].op, requests[j].scope>>
           /\ requests'[j].answer = requests[j].answer
    BY <1>1
  <2> QED BY <2>1 DEF RequestMatters, RequestAnswers
<1>3. RequestEffects[i] = "possible" /\ RequestEffect(requests[i])' \in {"done", "over"}
  BY <1>1 DEF RequestEffects, RequestEffect
<1>4. RequestEffects' = [RequestEffects EXCEPT ![i] = RequestEffect(requests[i])']
  BY <1>1, RequestMapped
<1>5. MemoryPromise!Act(i)
  BY <1>2, <1>3, <1>4 DEF MemoryPromise!Act, MemoryPromise!Goes, MemoryPromise!Becomes
<1> QED BY <1>5 DEF MemoryPromise!Next

\* An answer.
LEMMA RequestAnswered ==
  ASSUME MemoryInv, NEW i \in RequestNumbers, RequestSucceeds(i) \/ RequestFails(i)
  PROVE  MemoryPromise!Next
<1>1. requests[i].answer = "waiting" /\ memories' = memories /\ requests[i] \in RequestRecords
  BY DEF RequestSucceeds, RequestFails, Waiting, MemoryInv, MemoryTypes
<1>2. ASSUME NEW new, requests' = [requests EXCEPT ![i] = new],
             new.op = requests[i].op, new.scope = requests[i].scope
      PROVE  /\ RequestMatters' = RequestMatters
             /\ RequestAnswers' = [RequestAnswers EXCEPT ![i] = new.answer]
             /\ RequestEffects' = [RequestEffects EXCEPT ![i] = RequestEffect(new)]
  <2>1. requests'[i] = new /\ \A j \in RequestNumbers \ {i} : requests'[j] = requests[j]
    BY <1>2 DEF MemoryInv, MemoryTypes
  <2>2. \A j \in RequestNumbers :
           <<requests'[j].op, requests'[j].scope>> = <<requests[j].op, requests[j].scope>>
    BY <1>2, <2>1
  <2>3. RequestMatters' = RequestMatters
    BY <2>2 DEF RequestMatters
  <2>4. requests[i].answer' = new.answer /\ RequestEffect(requests[i])' = RequestEffect(new)
    BY <2>1 DEF RequestEffect
  <2> QED BY <2>1, <2>3, <2>4, RequestMapped
<1>3. RequestAnswers[i] = "waiting" /\ RequestEffects[i] = RequestEffect(requests[i])
  BY <1>1 DEF RequestAnswers, RequestEffects
<1>4. RequestEffects = [RequestEffects EXCEPT ![i] = RequestEffects[i]]
  BY DEF RequestEffects
<1>5. CASE RequestSucceeds(i)
  <2> DEFINE new == [requests[i] EXCEPT !.answer = "success"]
  <2>1. requests' = [requests EXCEPT ![i] = new] /\ requests[i].worker = "done"
    BY <1>5 DEF RequestSucceeds
  <2>2. /\ new.op = requests[i].op /\ new.scope = requests[i].scope /\ new.answer = "success"
        /\ RequestEffect(new) = "done" /\ RequestEffect(requests[i]) = "done"
    BY <1>1, <2>1 DEF RequestRecords, RequestEffect
  <2> HIDE DEF new
  <2>3. /\ RequestMatters' = RequestMatters
        /\ RequestAnswers' = [RequestAnswers EXCEPT ![i] = "success"]
        /\ RequestEffects' = [RequestEffects EXCEPT ![i] = RequestEffects[i]]
    <3>1. /\ RequestMatters' = RequestMatters
          /\ RequestAnswers' = [RequestAnswers EXCEPT ![i] = new.answer]
          /\ RequestEffects' = [RequestEffects EXCEPT ![i] = RequestEffect(new)]
      BY <1>2, <2>1, <2>2
    <3> QED BY <1>3, <2>2, <3>1
  <2>4. MemoryPromise!Succeed(i)
    BY <1>1, <1>3, <1>4, <2>2, <2>3
    DEF MemoryPromise!Succeed, MemoryPromise!Rests, MemoryPromise!Becomes
  <2> QED BY <2>4 DEF MemoryPromise!Next
<1>6. CASE requests' = [requests EXCEPT ![i].answer = "failure"]
  <2> DEFINE new == [requests[i] EXCEPT !.answer = "failure"]
  <2>1. requests' = [requests EXCEPT ![i] = new]
    BY <1>6
  <2>2. /\ new.op = requests[i].op /\ new.scope = requests[i].scope /\ new.answer = "failure"
        /\ RequestEffect(new) = RequestEffect(requests[i])
    BY <1>1 DEF RequestRecords, RequestEffect
  <2> HIDE DEF new
  <2>3. /\ RequestMatters' = RequestMatters
        /\ RequestAnswers' = [RequestAnswers EXCEPT ![i] = "failure"]
        /\ RequestEffects' = [RequestEffects EXCEPT ![i] = RequestEffects[i]]
    BY <1>2, <1>3, <2>1, <2>2
  <2>4. MemoryPromise!Fail(i)
    BY <1>1, <1>3, <1>4, <2>3
    DEF MemoryPromise!Fail, MemoryPromise!Rests, MemoryPromise!Becomes
  <2> QED BY <2>4 DEF MemoryPromise!Next
<1>7. CASE /\ requests[i].worker = "queued"
           /\ requests' = [requests EXCEPT ![i].answer = "failure", ![i].worker = "dropped"]
  <2> DEFINE new == [requests[i] EXCEPT !.answer = "failure", !.worker = "dropped"]
  <2>1. requests' = [requests EXCEPT ![i] = new]
    BY <1>7
  <2>2. /\ new.op = requests[i].op /\ new.scope = requests[i].scope /\ new.answer = "failure"
        /\ RequestEffect(new) = "over" /\ RequestEffect(requests[i]) = "possible"
    BY <1>1, <1>7 DEF RequestRecords, RequestEffect
  <2> HIDE DEF new
  <2>3. /\ RequestMatters' = RequestMatters
        /\ RequestAnswers' = [RequestAnswers EXCEPT ![i] = "failure"]
        /\ RequestEffects' = [RequestEffects EXCEPT ![i] = "over"]
    <3>1. /\ RequestMatters' = RequestMatters
          /\ RequestAnswers' = [RequestAnswers EXCEPT ![i] = new.answer]
          /\ RequestEffects' = [RequestEffects EXCEPT ![i] = RequestEffect(new)]
      BY <1>2, <2>1, <2>2
    <3> QED BY <2>2, <3>1
  <2>4. MemoryPromise!Fail(i)
    BY <1>1, <1>3, <2>2, <2>3
    DEF MemoryPromise!Fail, MemoryPromise!Goes, MemoryPromise!Becomes
  <2> QED BY <2>4 DEF MemoryPromise!Next
<1> QED BY <1>5, <1>6, <1>7 DEF RequestFails

\* The program ends and starts again.
LEMMA RequestsStop == ASSUME MemoryInv, Restart PROVE MemoryPromise!Stop
<1>1. /\ memories' = memories
      /\ \A j \in RequestNumbers :
            requests'[j] = [requests[j] EXCEPT
                              !.worker = IF @ = "queued" THEN "dropped" ELSE @,
                              !.answer = IF @ = "waiting" THEN "failure" ELSE @]
  BY DEF Restart
<1>2. ASSUME NEW j \in RequestNumbers
      PROVE  /\ requests'[j].op = requests[j].op /\ requests'[j].scope = requests[j].scope
             /\ requests'[j].worker = IF requests[j].worker = "queued" THEN "dropped"
                                      ELSE requests[j].worker
             /\ requests'[j].answer = IF requests[j].answer = "waiting" THEN "failure"
                                      ELSE requests[j].answer
  <2>1. requests[j] \in RequestRecords
    BY DEF MemoryInv, MemoryTypes
  <2> QED BY <1>1, <2>1 DEF RequestRecords
<1>3. RequestMatters' = RequestMatters
  BY <1>2 DEF RequestMatters
<1>4. RequestAnswers' = [j \in RequestNumbers |-> IF RequestAnswers[j] = "waiting" THEN "failure"
                                                  ELSE RequestAnswers[j]]
  BY <1>2 DEF RequestAnswers
<1>5. RequestEffects' = [j \in RequestNumbers |-> IF RequestEffects[j] = "possible" THEN "over"
                                                  ELSE RequestEffects[j]]
  <2>1. ASSUME NEW j \in RequestNumbers
        PROVE  RequestEffect(requests[j])' =
                  IF RequestEffect(requests[j]) = "possible" THEN "over"
                  ELSE RequestEffect(requests[j])
    <3>1. requests[j].worker \in {"none", "queued", "done", "raised", "dropped"}
      BY DEF MemoryInv, MemoryTypes, RequestRecords
    <3> QED BY <1>2, <3>1 DEF RequestEffect
  <2> QED BY <2>1 DEF RequestEffects
<1> QED BY <1>1, <1>3, <1>4, <1>5 DEF MemoryPromise!Stop

\* Every step of the memories is one of the promise, or none.
LEMMA RequestsStep ==
  ASSUME MemoryInv, [MemoryNext]_memoryVars
  PROVE  [MemoryPromise!Next]_(MemoryPromise!vars)
<1>1. ASSUME NEW s \in Spellings, Remember(s) \/ Forget(s) PROVE MemoryPromise!Next
  <2>1. {RowFor(s)} \in SUBSET Rows
    BY MemoryConstants DEF RowFor
  <2> QED BY <1>1, <2>1, RequestMade DEF Remember, Forget
<1>2. CASE Clear \/ Recall
  <2>1. \A c \in Categories : {m \in Rows : Category[m] = c} \in SUBSET Rows
    OBVIOUS
  <2> QED BY <1>2, <2>1, RequestMade DEF Clear, Recall
<1>3. ASSUME NEW i \in RequestNumbers,
             Upsert(i) \/ DeleteRow(i) \/ DeleteAll(i) \/ Select(i) \/ RequestRaises(i)
      PROVE  MemoryPromise!Next
  BY <1>3, RequestActs DEF Upsert, DeleteRow, DeleteAll, Select, RequestRaises, Runs, Done
<1>4. CASE Restart
  BY <1>4, RequestsStop DEF MemoryPromise!Next
<1>5. CASE CloseStore \/ UNCHANGED memoryVars
  <2>1. UNCHANGED <<memories, requests>>
    BY <1>5 DEF CloseStore, memoryVars
  <2> QED BY <2>1 DEF MemoryPromise!vars, RequestMatters, RequestEffects, RequestEffect, RequestAnswers
<1> QED BY <1>1, <1>2, <1>3, <1>4, <1>5, RequestAnswered DEF MemoryNext

\* The memory actions implement CallPromise: an answer of success follows the change, one
\* change is made for a request and never after its thread has ended or the program has
\* stopped, and what was abandoned may still happen.
THEOREM MemoryCallsImplemented == MemorySpec => MemoryCallsAsPromised
<1>1. MemoryInit => MemoryPromise!Init
  BY DEF MemoryInit, MemoryPromise!Init, RequestMatters, RequestEffects, RequestEffect,
         RequestAnswers, NotRequested
<1>2. MemoryInv /\ [MemoryNext]_memoryVars => [MemoryPromise!Next]_(MemoryPromise!vars)
  BY RequestsStep
<1> QED
  BY <1>1, <1>2, MemoryInitInv, MemoryStep, PTL
  DEF MemorySpec, MemoryCallsAsPromised, MemoryPromise!Spec

----------------------------------------------------------------------------
(* The desktop.                                                            *)

\* A call to the desktop, as DesktopTypeOK has it.
DeskCalls ==
    [op : {"none", "open", "close", "look", "focus", "capture", "analyze"},
     item : Applications \cup Captions \cup {NoWindow},
     thread : {"none", "queued", "acting", "asking", "done", "raised", "over", "killed"},
     answer : {"none", "waiting", "success", "failure"},
     todo : SUBSET (Processes \cup Handles), hit : SUBSET (Processes \cup Handles),
     meant : SUBSET (Processes \cup Handles)]

PictureStates == {"none", "begun", "png", "stuck"}

\* A close has ended, or has yet to end, only what runs the application; of what it listed
\* only what it has yet to end is alive.
CloseGood(call, procs) ==
    call.op = "close" =>
        /\ \A p \in call.todo \cup call.hit : RunsAs[p] = call.item
        /\ \A p \in call.meant :
              /\ p \in Processes /\ procs[p] # "unborn"
              /\ procs[p] = "alive" /\ call.thread \in {"acting", "done"} => p \in call.todo
        /\ call.thread = "done" => call.todo = {}

\* The windows with the title asked for are among those meant as long as the call lasts.
FocusGood(call, titles) ==
    call.op = "focus" =>
        /\ call.answer \in {"waiting", "success"} => call.hit \subseteq call.meant
        /\ call.todo \subseteq Handles
        /\ call.answer = "waiting" =>
              \A w \in Handles : titles[w] = call.item => w \in call.meant
        /\ call.thread = "done" => call.hit # {}

PictureGood(call, picture) ==
    /\ picture # "none" => call.op \in {"capture", "analyze"}
    /\ call.op = "capture" /\ call.thread = "done" => picture = "png"
    /\ call.op = "analyze" /\ picture = "png" => call.thread \in {"asking", "killed"}
    /\ picture = "begun" => call.thread \in {"acting", "raised", "killed"}
    /\ picture = "stuck" => call.thread = "over" /\ call.answer = "failure"

\* Success is answered after the thread is done; an analysis is waited for until it ends.
AnswerGood(call) ==
    /\ call.answer = "success" => call.thread = "done" \/ call.op = "analyze"
    /\ call.op = "analyze" =>
          /\ call.thread # "done"
          /\ call.thread \in {"queued", "acting", "asking"} => call.answer = "waiting"
    /\ call.op # "analyze" => call.thread # "asking"

Good(call, picture, procs, titles) ==
    /\ CloseGood(call, procs) /\ FocusGood(call, titles)
    /\ PictureGood(call, picture) /\ AnswerGood(call)

DesktopInv ==
    /\ process \in [Processes -> {"unborn", "alive", "gone"}]
    /\ title \in [Handles -> Captions \cup {NoWindow}]
    /\ pictures \in [DeskNumbers -> PictureStates]
    /\ desk \in [DeskNumbers -> DeskCalls]
    /\ tasked \in 0 .. MaxDesk
    /\ \A i \in DeskNumbers : i > tasked => desk[i] = NotAsked /\ pictures[i] = "none"
    /\ \A i \in DeskNumbers : Good(desk[i], pictures[i], process, title)

\* At the start nothing was asked for.
LEMMA DesktopInitInv == DesktopInit => DesktopInv
<1>1. NotAsked \in DeskCalls
  BY DEF NotAsked, DeskCalls
<1>2. \A procs, titles : Good(NotAsked, "none", procs, titles)
  BY DEF NotAsked, Good, CloseGood, FocusGood, PictureGood, AnswerGood
<1> QED BY <1>1, <1>2, DeskConstants DEF DesktopInit, DesktopInv, PictureStates

\* Processes start once and end for good.
MovesOn(procs, procs2) ==
    \A p \in Processes : \/ procs2[p] = procs[p] \/ procs2[p] = "gone"
                         \/ procs[p] = "unborn" /\ procs2[p] = "alive"

\* That disturbs no call.
LEMMA MovingOnKeeps ==
  ASSUME NEW call, NEW picture, NEW procs, NEW procs2, NEW titles,
         Good(call, picture, procs, titles), MovesOn(procs, procs2)
  PROVE  Good(call, picture, procs2, titles)
  BY DEF Good, CloseGood, MovesOn

\* A step of one call, which may start or end processes, and change its own picture.
LEMMA OneCallKeeps ==
  ASSUME DesktopInv, NEW i \in DeskNumbers, i <= tasked, NEW call \in DeskCalls,
         desk' = [desk EXCEPT ![i] = call],
         NEW picture \in PictureStates,
         pictures' = [pictures EXCEPT ![i] = picture],
         process' \in [Processes -> {"unborn", "alive", "gone"}],
         MovesOn(process, process'),
         title' = title, tasked' = tasked,
         Good(call, picture, process', title)
  PROVE  DesktopInv'
<1>1. /\ desk'[i] = call /\ pictures'[i] = picture
      /\ \A j \in DeskNumbers \ {i} : desk'[j] = desk[j] /\ pictures'[j] = pictures[j]
      /\ desk' \in [DeskNumbers -> DeskCalls]
      /\ pictures' \in [DeskNumbers -> PictureStates]
  BY DEF DesktopInv
<1>2. \A j \in DeskNumbers : j > tasked' => desk'[j] = NotAsked /\ pictures'[j] = "none"
  BY <1>1 DEF DesktopInv, DeskNumbers
<1>3. ASSUME NEW j \in DeskNumbers
      PROVE  Good(desk'[j], pictures'[j], process', title')
  <2>1. CASE j = i
    BY <1>1, <2>1
  <2>2. CASE j # i
    BY <1>1, <2>2, MovingOnKeeps DEF DesktopInv
  <2> QED BY <2>1, <2>2
<1> QED BY <1>1, <1>2, <1>3 DEF DesktopInv

\* A call that is made finds its number free.
LEMMA AskingKeeps ==
  ASSUME DesktopInv, NEW call \in DeskCalls, Ask(call),
         pictures' = [pictures EXCEPT ![tasked + 1] = "none"],
         Good(call, "none", process, title)
  PROVE  DesktopInv'
<1> DEFINE i == tasked + 1
<1>1. i \in DeskNumbers /\ tasked' = i /\ tasked' \in 0 .. MaxDesk
  BY DeskConstants DEF Ask, DesktopInv, DeskNumbers
<1>2. /\ desk' = [desk EXCEPT ![i] = call] /\ pictures' = [pictures EXCEPT ![i] = "none"]
      /\ process' = process /\ title' = title
  BY DEF Ask
<1>3. \A j \in DeskNumbers : j > i => j > tasked
  BY DEF DesktopInv, DeskNumbers
<1>a. /\ desk \in [DeskNumbers -> DeskCalls]
      /\ pictures \in [DeskNumbers -> PictureStates]
      /\ "none" \in PictureStates
  BY DEF DesktopInv, PictureStates
<1> HIDE DEF i
<1>4. /\ desk'[i] = call /\ pictures'[i] = "none"
      /\ \A j \in DeskNumbers \ {i} : desk'[j] = desk[j] /\ pictures'[j] = pictures[j]
      /\ desk' \in [DeskNumbers -> DeskCalls]
      /\ pictures' \in [DeskNumbers -> PictureStates]
  BY <1>1, <1>2, <1>a
<1>5. \A j \in DeskNumbers : j > tasked' => desk'[j] = NotAsked /\ pictures'[j] = "none"
  <2>1. \A j \in DeskNumbers : j > i => j # i
    BY <1>1 DEF DeskNumbers
  <2> QED BY <1>1, <1>3, <1>4, <2>1 DEF DesktopInv
<1>6. \A j \in DeskNumbers : Good(desk'[j], pictures'[j], process', title')
  BY <1>1, <1>2, <1>4 DEF DesktopInv
<1> QED BY <1>1, <1>2, <1>4, <1>5, <1>6 DEF DesktopInv

\* A call whose thread was asked for has its number.
LEMMA AskedFor ==
  ASSUME DesktopInv, NEW i \in DeskNumbers, desk[i] # NotAsked
  PROVE  /\ i <= tasked /\ desk[i] \in DeskCalls
         /\ pictures[i] \in PictureStates
         /\ Good(desk[i], pictures[i], process, title)
  BY DEF DesktopInv, DeskNumbers

\* A step of one call that changes nothing else.
LEMMA GoingOnKeeps ==
  ASSUME DesktopInv, NEW i \in DeskNumbers, desk[i] # NotAsked,
         NEW call \in DeskCalls, Goes(i, call),
         UNCHANGED <<process, title, pictures, tasked>>,
         Good(call, pictures[i], process, title)
  PROVE  DesktopInv'
<1>1. pictures' = [pictures EXCEPT ![i] = pictures[i]]
  BY DEF DesktopInv
<1>2. MovesOn(process, process') /\ process' \in [Processes -> {"unborn", "alive", "gone"}]
  BY DEF MovesOn, DesktopInv
<1>3. /\ i <= tasked /\ pictures[i] \in PictureStates
      /\ desk' = [desk EXCEPT ![i] = call] /\ title' = title /\ tasked' = tasked
      /\ process' = process
  BY AskedFor DEF Goes
<1>4. Good(call, pictures[i], process', title)
  BY <1>3
<1> QED BY <1>1, <1>2, <1>3, <1>4, OneCallKeeps

\* The steps of a close.
LEMMA CloseSteps ==
  ASSUME DesktopInv, NEW i \in DeskNumbers, ListsProcesses(i) \/ Terminates(i)
  PROVE  DesktopInv'
<1>1. CASE ListsProcesses(i)
  <2> DEFINE found == {p \in Alive : RunsAs[p] = desk[i].item}
             stage == IF found = {} THEN "done" ELSE "acting"
             call == [desk[i] EXCEPT !.todo = found, !.meant = found, !.thread = stage]
  <2>1. /\ Goes(i, call) /\ desk[i].op = "close" /\ desk[i].thread = "queued"
        /\ UNCHANGED <<process, title, pictures, tasked>>
    BY <1>1 DEF ListsProcesses, Listed, Acts
  <2>2. desk[i] # NotAsked
    BY <2>1 DEF NotAsked
  <2>3. \A p \in found : p \in Processes /\ process[p] = "alive" /\ RunsAs[p] = desk[i].item
    BY DEF Alive
  <2>6. stage \in {"done", "acting"} /\ (stage = "done" => found = {})
    OBVIOUS
  <2>7. desk[i] \in DeskCalls /\ found \in SUBSET (Processes \cup Handles)
    BY <2>2, <2>3, AskedFor
  <2> HIDE DEF found, stage
  <2>4. /\ call \in DeskCalls /\ call.op = "close" /\ call.item = desk[i].item
        /\ call.todo = found /\ call.meant = found /\ call.hit = desk[i].hit
        /\ call.answer = desk[i].answer /\ call.thread = stage
    BY <2>1, <2>6, <2>7 DEF DeskCalls
  <2> HIDE DEF call
  <2>5. Good(call, pictures[i], process, title)
    BY <2>1, <2>2, <2>3, <2>4, <2>6, AskedFor
    DEF Good, CloseGood, FocusGood, PictureGood, AnswerGood
  <2> QED BY <2>1, <2>2, <2>4, <2>5, GoingOnKeeps
<1>2. CASE Terminates(i)
  <2>1. PICK p \in desk[i].todo \cap Alive :
           /\ process' = [process EXCEPT ![p] = "gone"]
           /\ Goes(i, [desk[i] EXCEPT !.todo = @ \ {p}, !.hit = @ \cup {p},
                                      !.thread = IF desk[i].todo = {p} THEN "done" ELSE @])
    BY <1>2 DEF Terminates
  <2> DEFINE call == [desk[i] EXCEPT !.todo = @ \ {p}, !.hit = @ \cup {p},
                                     !.thread = IF desk[i].todo = {p} THEN "done" ELSE @]
  <2>2. /\ desk[i].op = "close" /\ desk[i].thread = "acting"
        /\ UNCHANGED <<title, pictures, tasked>> /\ Goes(i, call)
    BY <1>2, <2>1 DEF Terminates, Acts
  <2>3. desk[i] # NotAsked /\ p \in Processes
    BY <2>2 DEF NotAsked, Alive
  <2>4. /\ call \in DeskCalls /\ call.op = "close" /\ call.item = desk[i].item
        /\ call.todo = desk[i].todo \ {p} /\ call.hit = desk[i].hit \cup {p}
        /\ call.meant = desk[i].meant /\ call.answer = desk[i].answer
        /\ call.thread = IF desk[i].todo = {p} THEN "done" ELSE "acting"
    BY <2>2, <2>3, AskedFor, ZenonT(40) DEF DeskCalls
  <2> HIDE DEF call
  <2>5. /\ process' \in [Processes -> {"unborn", "alive", "gone"}]
        /\ process'[p] = "gone" /\ \A q \in Processes \ {p} : process'[q] = process[q]
    BY <2>1, <2>3 DEF DesktopInv
  <2>6. MovesOn(process, process')
    BY <2>5 DEF MovesOn
  <2>7. Good(call, pictures[i], process', title)
    BY <2>2, <2>3, <2>4, <2>5, AskedFor
    DEF Good, CloseGood, FocusGood, PictureGood, AnswerGood
  <2>8. pictures' = [pictures EXCEPT ![i] = pictures[i]]
    BY <2>2 DEF DesktopInv
  <2>9. /\ i <= tasked /\ pictures[i] \in PictureStates
        /\ desk' = [desk EXCEPT ![i] = call] /\ title' = title /\ tasked' = tasked
    BY <2>2, <2>3, AskedFor DEF Goes
  <2> QED BY <2>4, <2>5, <2>6, <2>7, <2>8, <2>9, OneCallKeeps
<1> QED BY <1>1, <1>2

\* The steps of a focus.
LEMMA FocusSteps ==
  ASSUME DesktopInv, NEW i \in DeskNumbers, ListsWindows(i) \/ ReadsTitle(i) \/ Focuses(i)
  PROVE  DesktopInv'
<1>1. /\ desk[i].op = "focus" /\ desk[i].thread \in {"queued", "acting"}
      /\ UNCHANGED <<process, title, pictures, tasked>>
  BY DEF ListsWindows, ReadsTitle, Focuses, Acts
<1>2. desk[i] # NotAsked
  BY <1>1 DEF NotAsked
<1>3. CASE ListsWindows(i)
  <2> DEFINE there == {w \in Handles : title[w] # NoWindow}
             call == [desk[i] EXCEPT !.todo = there, !.thread = "acting"]
  <2>1. Goes(i, call)
    BY <1>3 DEF ListsWindows
  <2>2. there \subseteq Handles
    OBVIOUS
  <2> HIDE DEF there
  <2>3. /\ call \in DeskCalls /\ call.op = "focus" /\ call.item = desk[i].item
        /\ call.meant = desk[i].meant /\ call.hit = desk[i].hit /\ call.todo = there
        /\ call.answer = desk[i].answer /\ call.thread = "acting"
    BY <1>1, <1>2, <2>2, AskedFor DEF DeskCalls
  <2> HIDE DEF call
  <2>4. Good(call, pictures[i], process, title)
    BY <1>1, <1>2, <2>2, <2>3, AskedFor DEF Good, CloseGood, FocusGood, PictureGood, AnswerGood
  <2> QED BY <1>1, <1>2, <2>1, <2>3, <2>4, GoingOnKeeps
<1>4. CASE ReadsTitle(i)
  <2>1. PICK w \in desk[i].todo :
           Goes(i, [desk[i] EXCEPT !.todo = @ \ {w},
                                   !.hit = IF title[w] = desk[i].item THEN @ \cup {w} ELSE @])
    BY <1>4 DEF ReadsTitle
  <2> DEFINE hits == IF title[w] = desk[i].item THEN desk[i].hit \cup {w} ELSE desk[i].hit
             call == [desk[i] EXCEPT !.todo = @ \ {w}, !.hit = hits]
  <2>2. Goes(i, call) /\ desk[i].thread = "acting"
    BY <1>4, <2>1 DEF ReadsTitle, Acts
  <2>3. w \in Handles
    BY <1>1, <1>2, AskedFor DEF Good, FocusGood
  <2>4. /\ hits \subseteq Processes \cup Handles
        /\ desk[i].answer = "waiting" /\ desk[i].hit \subseteq desk[i].meant
              => hits \subseteq desk[i].meant
    BY <1>1, <1>2, <2>3, AskedFor DEF Good, FocusGood, DeskCalls
  <2> HIDE DEF hits
  <2>5. /\ call \in DeskCalls /\ call.op = "focus" /\ call.item = desk[i].item
        /\ call.meant = desk[i].meant /\ call.hit = hits /\ call.todo = desk[i].todo \ {w}
        /\ call.answer = desk[i].answer /\ call.thread = "acting"
    BY <1>1, <1>2, <2>2, <2>4, AskedFor DEF DeskCalls
  <2> HIDE DEF call
  <2>6. Good(call, pictures[i], process, title)
    BY <1>1, <1>2, <2>2, <2>4, <2>5, AskedFor
    DEF Good, CloseGood, FocusGood, PictureGood, AnswerGood
  <2> QED BY <1>1, <1>2, <2>2, <2>5, <2>6, GoingOnKeeps
<1>5. CASE Focuses(i)
  <2> DEFINE call == [desk[i] EXCEPT !.thread = "done"]
  <2>1. Goes(i, call) /\ desk[i].hit # {}
    BY <1>5 DEF Focuses
  <2>2. /\ call \in DeskCalls /\ call.op = "focus" /\ call.item = desk[i].item
        /\ call.meant = desk[i].meant /\ call.hit = desk[i].hit /\ call.todo = desk[i].todo
        /\ call.answer = desk[i].answer /\ call.thread = "done"
    BY <1>1, <1>2, AskedFor DEF DeskCalls
  <2> HIDE DEF call
  <2>3. Good(call, pictures[i], process, title)
    BY <1>1, <1>2, <2>1, <2>2, AskedFor DEF Good, CloseGood, FocusGood, PictureGood, AnswerGood
  <2> QED BY <1>1, <1>2, <2>1, <2>2, <2>3, GoingOnKeeps
<1> QED BY <1>3, <1>4, <1>5

\* Opening an application, the steps of a capture, looking around, and a thread that raises.
LEMMA OtherSteps ==
  ASSUME DesktopInv, NEW i \in DeskNumbers,
         Opens(i) \/ CreatesFile(i) \/ SavesPicture(i) \/ Looks(i) \/ ThreadRaises(i)
  PROVE  DesktopInv'
<1>1. PICK stage \in {"acting", "asking", "done", "raised"}, picture \in PictureStates :
         /\ Goes(i, [desk[i] EXCEPT !.thread = stage])
         /\ pictures' = [pictures EXCEPT ![i] = picture]
         /\ desk[i].thread \in {"queued", "acting"}
         /\ \/ desk[i].op = "open" /\ stage = "done" /\ picture = pictures[i]
            \/ desk[i].op = "look" /\ stage = "done" /\ picture = pictures[i]
            \/ desk[i].op \in {"capture", "analyze"} /\ stage = "acting" /\ picture = "begun"
            \/ desk[i].op = "capture" /\ stage = "done" /\ picture = "png"
            \/ desk[i].op = "analyze" /\ stage = "asking" /\ picture = "png"
            \/ stage = "raised" /\ picture \in {"none", pictures[i]}
         /\ UNCHANGED <<title, tasked>>
  <2>1. CASE Opens(i) \/ Looks(i)
    <3>1. /\ pictures' = [pictures EXCEPT ![i] = pictures[i]]
          /\ pictures[i] \in PictureStates
      BY <2>1 DEF DesktopInv, Opens, Looks
    <3> QED BY <2>1, <3>1 DEF Opens, Looks, Acts
  <2>2. CASE CreatesFile(i) \/ SavesPicture(i)
    BY <2>2 DEF CreatesFile, SavesPicture, PictureStates
  <2>3. CASE ThreadRaises(i)
    <3>1. PICK left \in {"none", pictures[i]} : pictures' = [pictures EXCEPT ![i] = left]
      BY <2>3 DEF ThreadRaises
    <3>2. left \in PictureStates
      BY <3>1 DEF DesktopInv, PictureStates
    <3> QED BY <2>3, <3>1, <3>2 DEF ThreadRaises
  <2> QED BY <2>1, <2>2, <2>3
<1>2. MovesOn(process, process') /\ process' \in [Processes -> {"unborn", "alive", "gone"}]
  BY DEF Opens, CreatesFile, SavesPicture, Looks, ThreadRaises, MovesOn, DesktopInv
<1>3. desk[i] # NotAsked
  BY <1>1 DEF NotAsked
<1> DEFINE call == [desk[i] EXCEPT !.thread = stage]
<1>4. /\ call \in DeskCalls /\ call.op = desk[i].op /\ call.item = desk[i].item
      /\ call.todo = desk[i].todo /\ call.hit = desk[i].hit /\ call.meant = desk[i].meant
      /\ call.answer = desk[i].answer /\ call.thread = stage
  BY <1>1, <1>3, AskedFor DEF DeskCalls
<1>5. i <= tasked /\ desk' = [desk EXCEPT ![i] = call] /\ title' = title /\ tasked' = tasked
  BY <1>1, <1>3, AskedFor DEF Goes
<1> HIDE DEF call
<1>6. Good(call, picture, process, title)
  BY <1>1, <1>3, <1>4, AskedFor DEF Good, CloseGood, FocusGood, PictureGood, AnswerGood
<1>7. Good(call, picture, process', title)
  BY <1>2, <1>6, MovingOnKeeps
<1> QED BY <1>1, <1>2, <1>4, <1>5, <1>7, OneCallKeeps

\* The ends of calls.
LEMMA EndSteps ==
  ASSUME DesktopInv, NEW i \in DeskNumbers, DeskSucceeds(i) \/ DeskFails(i) \/ Analyzed(i)
  PROVE  DesktopInv'
<1>1. PICK stage \in {desk[i].thread, "over"}, answer \in {"success", "failure"},
           picture \in PictureStates :
         /\ Goes(i, [desk[i] EXCEPT !.answer = answer, !.thread = stage])
         /\ pictures' = [pictures EXCEPT ![i] = picture]
         /\ desk[i].answer = "waiting"
         /\ \/ /\ desk[i].thread = "done" /\ stage = "done" /\ picture = pictures[i]
            \/ /\ picture = pictures[i] /\ answer = "failure"
               /\ stage = "over" => desk[i].thread \in {"queued", "over"}
               /\ desk[i].op = "analyze" => stage = "raised"
            \/ /\ desk[i].thread = "asking" /\ stage = "over"
               /\ picture \in {"none", "stuck"} /\ (answer = "success" => picture = "none")
  <2>1. desk[i].answer = "waiting" /\ desk[i] \in DeskCalls
    BY DEF DeskSucceeds, DeskFails, Analyzed, Asking, DesktopInv
  <2>2. /\ pictures[i] \in PictureStates
        /\ pictures = [pictures EXCEPT ![i] = pictures[i]]
    BY DEF DesktopInv
  <2>3. \A answer : [desk[i] EXCEPT !.answer = answer]
                     = [desk[i] EXCEPT !.answer = answer, !.thread = desk[i].thread]
    BY <2>1 DEF DeskCalls
  <2>4. CASE DeskSucceeds(i)
    BY <2>1, <2>2, <2>3, <2>4 DEF DeskSucceeds
  <2>5. CASE DeskFails(i)
    BY <2>1, <2>2, <2>3, <2>5 DEF DeskFails
  <2>6. CASE Analyzed(i)
    BY <2>1, <2>6 DEF Analyzed, PictureStates
  <2> QED BY <2>4, <2>5, <2>6
<1>2. desk[i] # NotAsked /\ UNCHANGED <<process, title, tasked>>
  BY <1>1 DEF NotAsked, DeskSucceeds, DeskFails, Analyzed
<1> DEFINE call == [desk[i] EXCEPT !.answer = answer, !.thread = stage]
<1>3. /\ call \in DeskCalls /\ call.op = desk[i].op /\ call.item = desk[i].item
      /\ call.todo = desk[i].todo /\ call.hit = desk[i].hit /\ call.meant = desk[i].meant
      /\ call.answer = answer /\ call.thread = stage
  <2>1. desk[i] \in DeskCalls
    BY <1>2, AskedFor
  <2>2. /\ call.op = desk[i].op /\ call.item = desk[i].item
        /\ call.todo = desk[i].todo /\ call.hit = desk[i].hit /\ call.meant = desk[i].meant
        /\ call.answer = answer /\ call.thread = stage
    BY <2>1 DEF DeskCalls
  <2>3. stage \in {desk[i].thread, "over"} /\ answer \in {"success", "failure"}
    OBVIOUS
  <2>4. call \in DeskCalls
    BY <2>1, <2>3 DEF DeskCalls
  <2> QED BY <2>2, <2>4
<1>4. i <= tasked /\ desk' = [desk EXCEPT ![i] = call] /\ title' = title /\ tasked' = tasked
  BY <1>1, <1>2, AskedFor DEF Goes
<1> HIDE DEF call
<1>5. Good(call, picture, process, title)
  BY <1>1, <1>2, <1>3, AskedFor DEF Good, CloseGood, FocusGood, PictureGood, AnswerGood
<1>6. MovesOn(process, process') /\ process' \in [Processes -> {"unborn", "alive", "gone"}]
  BY <1>2 DEF MovesOn, DesktopInv
<1>7. Good(call, picture, process', title)
  BY <1>5, <1>6, MovingOnKeeps
<1> QED BY <1>1, <1>3, <1>4, <1>6, <1>7, OneCallKeeps

\* The calls that are made.
LEMMA AskSteps ==
  ASSUME DesktopInv,
         \/ \E a \in Applications : OpenApplication(a) \/ CloseApplication(a)
         \/ \E t \in Captions : FocusWindow(t)
         \/ TakeScreenshot \/ Look \/ AnalyzeScreen
  PROVE  DesktopInv'
<1>1. pictures = [pictures EXCEPT ![tasked + 1] = "none"] \/ tasked = MaxDesk
  BY DeskConstants DEF DesktopInv, DeskNumbers
<1>2. ASSUME NEW call \in DeskCalls, call.op # "none",
             call.todo = {}, call.hit = {}, call.answer = "waiting", call.thread = "queued",
             call.op = "focus" => \A w \in Handles : title[w] = call.item => w \in call.meant,
             call.op # "focus" => call.meant = {},
             Ask(call), pictures' = pictures
      PROVE  DesktopInv'
  <2>1. Good(call, "none", process, title)
    BY <1>2 DEF Good, CloseGood, FocusGood, PictureGood, AnswerGood
  <2>2. pictures' = [pictures EXCEPT ![tasked + 1] = "none"]
    BY <1>1, <1>2 DEF Ask, DesktopInv
  <2> QED BY <1>2, <2>1, <2>2, AskingKeeps
<1>3. ASSUME NEW op \in {"open", "close", "capture", "look", "focus", "analyze"},
             NEW item \in Applications \cup Captions \cup {NoWindow}
      PROVE  LET call == Queued(op, item)
             IN  /\ call \in DeskCalls /\ call.op = op /\ call.item = item
                 /\ call.todo = {} /\ call.hit = {} /\ call.meant = {}
                 /\ call.answer = "waiting" /\ call.thread = "queued"
  BY DEF Queued, NotAsked, DeskCalls
<1>4. CASE \E a \in Applications : OpenApplication(a) \/ CloseApplication(a)
  <2>1. PICK a \in Applications : OpenApplication(a) \/ CloseApplication(a)
    BY <1>4
  <2>2. PICK op \in {"open", "close"} : Ask(Queued(op, a)) /\ pictures' = pictures
    BY <2>1 DEF OpenApplication, CloseApplication
  <2> DEFINE call == Queued(op, a)
  <2>3. /\ call \in DeskCalls /\ call.op = op /\ call.item = a
        /\ call.todo = {} /\ call.hit = {} /\ call.meant = {}
        /\ call.answer = "waiting" /\ call.thread = "queued"
    BY <1>3
  <2>4. Ask(call)
    BY <2>2
  <2> HIDE DEF call
  <2> QED BY <1>2, <2>2, <2>3, <2>4
<1>5. CASE \E t \in Captions : FocusWindow(t)
  <2>1. PICK t \in Captions : FocusWindow(t)
    BY <1>5
  <2> DEFINE meant == Titled(t)
             call == [Queued("focus", t) EXCEPT !.meant = meant]
  <2>2. meant \subseteq Handles /\ \A w \in Handles : title[w] = t => w \in meant
    BY DEF Titled
  <2>3. Ask(call) /\ pictures' = pictures
    BY <2>1 DEF FocusWindow
  <2> HIDE DEF meant
  <2>4. /\ call \in DeskCalls /\ call.op = "focus" /\ call.item = t
        /\ call.todo = {} /\ call.hit = {} /\ call.meant = meant
        /\ call.answer = "waiting" /\ call.thread = "queued"
    BY <1>3, <2>2 DEF DeskCalls
  <2> HIDE DEF call
  <2> QED BY <1>2, <2>2, <2>3, <2>4
<1>6. CASE TakeScreenshot \/ Look \/ AnalyzeScreen
  <2>1. PICK op \in {"capture", "look", "analyze"} :
           Ask(Queued(op, NoWindow)) /\ pictures' = pictures
    BY <1>6 DEF TakeScreenshot, Look, AnalyzeScreen
  <2> DEFINE call == Queued(op, NoWindow)
  <2>2. /\ call \in DeskCalls /\ call.op = op /\ call.item = NoWindow
        /\ call.todo = {} /\ call.hit = {} /\ call.meant = {}
        /\ call.answer = "waiting" /\ call.thread = "queued"
    BY <1>3
  <2>3. Ask(call)
    BY <2>1
  <2> HIDE DEF call
  <2> QED BY <1>2, <2>1, <2>2, <2>3
<1> QED BY <1>4, <1>5, <1>6

\* What happens by itself, and the end of the program: the calls keep what they are for.
LEMMA WorldSteps ==
  ASSUME DesktopInv,
         \/ \E p \in Processes : ProcessStarts(p) \/ ProcessExits(p)
         \/ \E w \in Handles, t \in Captions \cup {NoWindow} : Retitled(w, t)
         \/ KillProgram
  PROVE  DesktopInv'
<1>1. CASE \E p \in Processes : ProcessStarts(p) \/ ProcessExits(p)
  <2>1. MovesOn(process, process') /\ process' \in [Processes -> {"unborn", "alive", "gone"}]
    BY <1>1 DEF ProcessStarts, ProcessExits, MovesOn, DesktopInv
  <2>2. UNCHANGED <<title, pictures, desk, tasked>>
    BY <1>1 DEF ProcessStarts, ProcessExits
  <2>3. \A i \in DeskNumbers : Good(desk[i], pictures[i], process', title)
    BY <2>1, MovingOnKeeps DEF DesktopInv
  <2> QED BY <2>1, <2>2, <2>3 DEF DesktopInv
<1>2. CASE \E w \in Handles, t \in Captions \cup {NoWindow} : Retitled(w, t)
  <2>1. PICK w \in Handles, t \in Captions \cup {NoWindow} : Retitled(w, t)
    BY <1>2
  <2>2. /\ title' \in [Handles -> Captions \cup {NoWindow}]
        /\ title'[w] = t /\ \A v \in Handles \ {w} : title'[v] = title[v]
        /\ UNCHANGED <<process, pictures, tasked>>
    BY <2>1 DEF Retitled, DesktopInv
  <2>3. ASSUME NEW i \in DeskNumbers
        PROVE  /\ desk'[i] \in DeskCalls
               /\ desk[i] = NotAsked => desk'[i] = NotAsked
               /\ Good(desk'[i], pictures[i], process, title')
    <3>0. desk[i] \in DeskCalls /\ Good(desk[i], pictures[i], process, title)
      BY DEF DesktopInv
    <3>1. CASE Asking(i) /\ desk[i].op = "focus" /\ desk[i].item = t
      <4> DEFINE call == [desk[i] EXCEPT !.meant = @ \cup {w}]
      <4>1. desk'[i] = call
        BY <2>1, <3>1 DEF Retitled
      <4>2. /\ call \in DeskCalls /\ call.op = "focus" /\ call.item = t
            /\ call.todo = desk[i].todo /\ call.hit = desk[i].hit
            /\ call.meant = desk[i].meant \cup {w} /\ call.answer = "waiting"
            /\ call.thread = desk[i].thread
        BY <3>0, <3>1 DEF DeskCalls, Asking
      <4> HIDE DEF call
      <4>3. Good(call, pictures[i], process, title')
        BY <2>2, <3>0, <3>1, <4>2
        DEF Good, CloseGood, FocusGood, PictureGood, AnswerGood, Asking
      <4> QED BY <3>1, <4>1, <4>2, <4>3 DEF NotAsked
    <3>2. CASE ~(Asking(i) /\ desk[i].op = "focus" /\ desk[i].item = t)
      <4>1. desk'[i] = desk[i]
        BY <2>1, <3>2 DEF Retitled
      <4>2. desk[i].answer = "waiting" /\ desk[i].op = "focus" => desk[i].item # t
        BY <3>2 DEF Asking
      <4>3. FocusGood(desk[i], title')
        BY <2>2, <3>0, <4>2 DEF Good, FocusGood
      <4> QED BY <3>0, <4>1, <4>3 DEF Good
    <3> QED BY <3>1, <3>2
  <2>4. desk' \in [DeskNumbers -> DeskCalls]
    BY <2>1, <2>3 DEF Retitled
  <2> QED BY <2>2, <2>3, <2>4 DEF DesktopInv
<1>3. CASE KillProgram
  <2>1. /\ UNCHANGED <<process, title, pictures, tasked>>
        /\ desk' = [i \in DeskNumbers |->
                      [desk[i] EXCEPT
                         !.thread = IF @ \in {"queued", "acting", "asking"} THEN "killed" ELSE @,
                         !.answer = IF @ = "waiting" THEN "failure" ELSE @]]
    BY <1>3 DEF KillProgram
  <2>2. ASSUME NEW i \in DeskNumbers
        PROVE  /\ desk'[i] \in DeskCalls
               /\ desk[i] = NotAsked => desk'[i] = NotAsked
               /\ Good(desk'[i], pictures[i], process, title)
    <3>1. desk[i] \in DeskCalls /\ Good(desk[i], pictures[i], process, title)
      BY DEF DesktopInv
    <3> DEFINE stage == IF desk[i].thread \in {"queued", "acting", "asking"}
                        THEN "killed" ELSE desk[i].thread
               answer == IF desk[i].answer = "waiting" THEN "failure" ELSE desk[i].answer
               call == [desk[i] EXCEPT !.thread = stage, !.answer = answer]
    <3>2. desk'[i] = call
      BY <2>1
    <3>3. /\ stage \in {"none", "done", "raised", "over", "killed"}
          /\ answer \in {"none", "success", "failure"}
          /\ stage # "killed" => stage = desk[i].thread
          /\ stage = "killed" =>
                desk[i].thread \in {"queued", "acting", "asking", "killed"}
          /\ answer = "success" => desk[i].answer = "success"
          /\ desk[i].answer = "failure" => answer = "failure"
      BY <3>1 DEF DeskCalls
    <3>4. desk[i] = NotAsked => stage = desk[i].thread /\ answer = desk[i].answer
      BY DEF NotAsked
    <3> HIDE DEF stage, answer
    <3>7. desk[i] = NotAsked => call = NotAsked
      <4>1. [desk[i] EXCEPT !.thread = desk[i].thread, !.answer = desk[i].answer] = desk[i]
        BY <3>1 DEF DeskCalls
      <4> QED BY <3>4, <4>1
    <3>5. /\ call \in DeskCalls /\ call.op = desk[i].op /\ call.item = desk[i].item
          /\ call.todo = desk[i].todo /\ call.hit = desk[i].hit /\ call.meant = desk[i].meant
          /\ call.thread = stage /\ call.answer = answer
      BY <3>1, <3>3, ZenonT(40) DEF DeskCalls
    <3> HIDE DEF call
    <3>6. Good(call, pictures[i], process, title)
      <4>1. CloseGood(call, process) /\ FocusGood(call, title)
        BY <3>1, <3>3, <3>5 DEF Good, CloseGood, FocusGood
      <4>2. PictureGood(call, pictures[i]) /\ AnswerGood(call)
        BY <3>1, <3>3, <3>5 DEF Good, PictureGood, AnswerGood
      <4> QED BY <4>1, <4>2 DEF Good
    <3> QED BY <3>2, <3>5, <3>6, <3>7
  <2>3. desk' \in [DeskNumbers -> DeskCalls]
    BY <2>1, <2>2
  <2> QED BY <2>1, <2>2, <2>3 DEF DesktopInv
<1> QED BY <1>1, <1>2, <1>3

\* No step breaks it.
LEMMA DesktopStep == DesktopInv /\ [DesktopNext]_desktopVars => DesktopInv'
<1> SUFFICES ASSUME DesktopInv, [DesktopNext]_desktopVars PROVE DesktopInv'
  OBVIOUS
<1>1. CASE UNCHANGED desktopVars
  BY <1>1 DEF desktopVars, DesktopInv
<1>2. CASE DesktopNext
  BY <1>2, AskSteps, CloseSteps, FocusSteps, OtherSteps, EndSteps, WorldSteps DEF DesktopNext
<1> QED BY <1>1, <1>2

\* A close that says so has ended every process of the application it listed and no other; the
\* window that got the focus had the title; pictures are where they were promised, temporary
\* ones go away unless the program was killed or the system refused to remove one of an analysis
\* that failed, and unfinished ones are left only where a thread raised or was killed; through
\* threads that outlive their calls and a desktop that changes meanwhile.
THEOREM DesktopKeepsItsWord == DesktopSpec => []DesktopAsAsked
<1>1. DesktopInv => DesktopAsAsked
  <2> SUFFICES ASSUME DesktopInv, NEW i \in DeskNumbers
               PROVE  /\ desk[i].op = "close" =>
                            /\ \A p \in desk[i].hit : RunsAs[p] = desk[i].item
                            /\ desk[i].answer = "success" => desk[i].meant \cap Alive = {}
                      /\ desk[i].op = "focus" /\ desk[i].answer = "success" =>
                            desk[i].hit # {} /\ desk[i].hit \subseteq desk[i].meant
                      /\ desk[i].op = "capture" /\ desk[i].answer = "success" =>
                            pictures[i] = "png"
                      /\ desk[i].op = "analyze" /\ pictures[i] = "png" =>
                            desk[i].answer = "waiting" \/ desk[i].thread = "killed"
                      /\ pictures[i] = "stuck" => desk[i].answer = "failure"
                      /\ pictures[i] = "begun" =>
                            desk[i].thread \in {"acting", "raised", "killed"}
    BY DEF DesktopAsAsked, ClosedAsAsked, FocusedAsAsked, PicturesAccounted
  <2>1. Good(desk[i], pictures[i], process, title)
    BY DEF DesktopInv
  <2> QED BY <2>1 DEF Good, CloseGood, FocusGood, PictureGood, AnswerGood, Alive
<1> QED BY <1>1, DesktopInitInv, DesktopStep, PTL DEF DesktopSpec

\* What is known of the desktop besides.
WorldTypes == killed \in BOOLEAN /\ turmoil \in 0 .. MaxTurmoil

LEMMA WorldTypesStep == WorldTypes /\ [DesktopNext]_desktopVars => WorldTypes'
<1> SUFFICES ASSUME WorldTypes, [DesktopNext]_desktopVars PROVE WorldTypes'
  OBVIOUS
<1> USE DEF WorldTypes
<1>1. CASE KillProgram
  BY <1>1 DEF KillProgram
<1>2. ASSUME Turmoil, killed' = killed PROVE WorldTypes'
  BY <1>2, DeskConstants DEF Turmoil
<1>3. CASE killed' = killed /\ turmoil' = turmoil
  BY <1>3
<1>4. CASE \/ \E p \in Processes : ProcessStarts(p) \/ ProcessExits(p)
           \/ \E w \in Handles, t \in Captions \cup {NoWindow} : Retitled(w, t)
  BY <1>2, <1>4 DEF ProcessStarts, ProcessExits, Retitled
<1> HIDE DEF WorldTypes
<1> QED
  BY <1>1, <1>3, <1>4
  DEF DesktopNext, OpenApplication, CloseApplication, FocusWindow, TakeScreenshot, Look,
      AnalyzeScreen, Ask, Opens, ListsProcesses, Listed, Terminates, ListsWindows, ReadsTitle,
      Focuses, CreatesFile, SavesPicture, Looks, ThreadRaises, DeskSucceeds, DeskFails,
      Analyzed, desktopVars

\* With it the invariant gives the types.
LEMMA DesktopTyped ==
  /\ DesktopInit => WorldTypes
  /\ DesktopInv /\ WorldTypes => DesktopTypeOK
<1>1. DesktopInit => WorldTypes
  <2> SUFFICES ASSUME DesktopInit PROVE WorldTypes
    OBVIOUS
  <2>1. killed = FALSE /\ turmoil = 0
    BY DEF DesktopInit
  <2>2. killed \in BOOLEAN
    BY <2>1, Zenon
  <2>3. turmoil \in 0 .. MaxTurmoil
    BY <2>1, DeskConstants
  <2> QED BY <2>2, <2>3 DEF WorldTypes
<1>2. DesktopInv /\ WorldTypes => DesktopTypeOK
  BY DEF DesktopInv, WorldTypes, DeskCalls, PictureStates, DesktopTypeOK
<1> QED BY <1>1, <1>2

\* The variables of the desktop keep their types, whatever its processes and windows do.
THEOREM DesktopTypeCorrect == DesktopSpec => []DesktopTypeOK
  BY DesktopTyped, WorldTypesStep, DesktopInitInv, DesktopStep, PTL DEF DesktopSpec

----------------------------------------------------------------------------
(* The desktop as CallPromise has it.                                      *)

\* One call's step is a step of that call only.
LEMMA DeskMapped ==
  ASSUME DesktopInv, NEW i \in DeskNumbers, NEW call, Goes(i, call)
  PROVE  /\ DeskMatters' = [DeskMatters EXCEPT ![i] = <<call.op, call.item>>]
         /\ DeskEffects' = [DeskEffects EXCEPT ![i] = DeskEffect(call)]
         /\ DeskAnswers' = [DeskAnswers EXCEPT ![i] = call.answer]
<1>1. desk'[i] = call /\ \A j \in DeskNumbers \ {i} : desk'[j] = desk[j]
  BY DEF Goes, DesktopInv
<1>2. DeskMatters' = [DeskMatters EXCEPT ![i] = <<call.op, call.item>>]
  BY <1>1 DEF DeskMatters
<1>3. DeskEffects' = [DeskEffects EXCEPT ![i] = DeskEffect(call)]
  <2>1. /\ \A j \in DeskNumbers \ {i} : DeskEffect(desk[j])' = DeskEffect(desk[j])
        /\ DeskEffect(desk[i])' = DeskEffect(call)
    BY <1>1 DEF DeskEffect
  <2> QED BY <2>1 DEF DeskEffects
<1>4. DeskAnswers' = [DeskAnswers EXCEPT ![i] = call.answer]
  BY <1>1 DEF DeskAnswers
<1> QED BY <1>2, <1>3, <1>4

\* A new call: its thread may act.
LEMMA DeskMade ==
  ASSUME DesktopInv, NEW call \in DeskCalls, Ask(call), call.op # "none",
         call.thread = "queued", call.answer = "waiting"
  PROVE  DesktopPromise!Next
<1>1. PICK i : i = tasked + 1
  OBVIOUS
<1>2. i \in DeskNumbers /\ i > tasked
  BY <1>1, DeskConstants DEF Ask, DesktopInv, DeskNumbers
<1>3. Goes(i, call) /\ \A j \in DeskNumbers : desk[j].answer # "waiting"
  BY <1>1 DEF Ask, Goes
<1>4. DeskAnswers[i] = "none" /\ \A j \in DeskNumbers : DeskAnswers[j] # "waiting"
  BY <1>2, <1>3 DEF DeskAnswers, DesktopInv, NotAsked
<1>5. /\ DeskMatters' = [DeskMatters EXCEPT ![i] = <<call.op, call.item>>]
      /\ DeskEffects' = [DeskEffects EXCEPT ![i] = DeskEffect(call)]
      /\ DeskAnswers' = [DeskAnswers EXCEPT ![i] = call.answer]
  BY <1>2, <1>3, DeskMapped
<1>6. <<call.op, call.item>> \in {"open", "close", "look", "focus", "capture", "analyze"}
                                   \X (Applications \cup Captions \cup {NoWindow})
  BY DEF DeskCalls
<1>7. DeskEffect(call) = "possible"
  BY DEF DeskEffect
<1>8. DesktopPromise!Make(i)
  BY <1>4, <1>5, <1>6, <1>7
  DEF DesktopPromise!Make, DesktopPromise!Made, DesktopPromise!Becomes
<1> QED BY <1>2, <1>8 DEF DesktopPromise!Next

\* A thread's step.
LEMMA DeskActs ==
  ASSUME DesktopInv, NEW i \in DeskNumbers, NEW call, Goes(i, call),
         desk[i].thread \in {"queued", "acting"},
         call.thread \in {"queued", "acting", "asking", "done", "raised"},
         call.op = desk[i].op, call.item = desk[i].item, call.answer = desk[i].answer
  PROVE  DesktopPromise!Next
<1>1. DeskMatters' = DeskMatters /\ DeskAnswers' = DeskAnswers
  <2>1. /\ DeskMatters' = [DeskMatters EXCEPT ![i] = <<desk[i].op, desk[i].item>>]
        /\ DeskAnswers' = [DeskAnswers EXCEPT ![i] = desk[i].answer]
    BY DeskMapped
  <2> QED BY <2>1 DEF DeskMatters, DeskAnswers
<1>2. DeskEffects' = [DeskEffects EXCEPT ![i] = DeskEffect(call)]
  BY DeskMapped
<1>3. DeskEffects[i] = "possible" /\ DeskEffect(call) \in {"possible", "done", "over"}
  BY DEF DeskEffects, DeskEffect
<1>4. DesktopPromise!Act(i)
  BY <1>1, <1>2, <1>3 DEF DesktopPromise!Act, DesktopPromise!Goes, DesktopPromise!Becomes
<1> QED BY <1>4 DEF DesktopPromise!Next

\* The threads' steps.
LEMMA DeskThreads ==
  ASSUME DesktopInv, NEW i \in DeskNumbers,
         \/ Opens(i) \/ ListsProcesses(i) \/ Terminates(i)
         \/ ListsWindows(i) \/ ReadsTitle(i) \/ Focuses(i)
         \/ CreatesFile(i) \/ SavesPicture(i) \/ Looks(i) \/ ThreadRaises(i)
  PROVE  DesktopPromise!Next
<1>1. desk[i] \in DeskCalls
  BY DEF DesktopInv
<1>2. CASE \/ Opens(i) \/ Focuses(i) \/ SavesPicture(i) \/ Looks(i)
           \/ CreatesFile(i) \/ ThreadRaises(i)
  <2>1. PICK stage \in {"acting", "asking", "done", "raised"} :
           Goes(i, [desk[i] EXCEPT !.thread = stage])
    BY <1>2 DEF Opens, Focuses, SavesPicture, Looks, CreatesFile, ThreadRaises
  <2>2. desk[i].thread \in {"queued", "acting"}
    BY <1>2 DEF Opens, Focuses, SavesPicture, Looks, CreatesFile, ThreadRaises, Acts
  <2> DEFINE call == [desk[i] EXCEPT !.thread = stage]
  <2>3. /\ call.op = desk[i].op /\ call.item = desk[i].item /\ call.answer = desk[i].answer
        /\ call.thread = stage
    BY <1>1 DEF DeskCalls
  <2> HIDE DEF call
  <2> QED BY <2>1, <2>2, <2>3, DeskActs DEF call
<1>3. CASE ListsProcesses(i)
  <2> DEFINE found == {p \in Alive : RunsAs[p] = desk[i].item}
             call == [desk[i] EXCEPT !.todo = found, !.meant = found,
                                     !.thread = IF found = {} THEN "done" ELSE "acting"]
  <2>1. Goes(i, call) /\ desk[i].thread = "queued"
    BY <1>3 DEF ListsProcesses, Listed, Acts
  <2> HIDE DEF found
  <2>2. /\ call.op = desk[i].op /\ call.item = desk[i].item /\ call.answer = desk[i].answer
        /\ call.thread \in {"acting", "done"}
    BY <1>1 DEF DeskCalls
  <2> HIDE DEF call
  <2> QED BY <2>1, <2>2, DeskActs
<1>4. CASE Terminates(i)
  <2>1. desk[i].thread = "acting"
    BY <1>4 DEF Terminates, Acts
  <2>2. PICK p \in desk[i].todo :
           Goes(i, [desk[i] EXCEPT !.todo = @ \ {p}, !.hit = @ \cup {p},
                                   !.thread = IF desk[i].todo = {p} THEN "done" ELSE @])
    BY <1>4 DEF Terminates
  <2> DEFINE call == [desk[i] EXCEPT !.todo = @ \ {p}, !.hit = @ \cup {p},
                                     !.thread = IF desk[i].todo = {p} THEN "done" ELSE @]
  <2>3. /\ call.op = desk[i].op /\ call.item = desk[i].item /\ call.answer = desk[i].answer
        /\ call.thread \in {"acting", "done"}
    BY <1>1, <2>1 DEF DeskCalls
  <2>4. Goes(i, call)
    BY <2>2
  <2> HIDE DEF call
  <2> QED BY <2>1, <2>3, <2>4, DeskActs
<1>5. CASE ListsWindows(i)
  <2> DEFINE call == [desk[i] EXCEPT !.todo = {w \in Handles : title[w] # NoWindow},
                                     !.thread = "acting"]
  <2>1. Goes(i, call) /\ desk[i].thread = "queued"
    BY <1>5 DEF ListsWindows, Acts
  <2>2. /\ call.op = desk[i].op /\ call.item = desk[i].item /\ call.answer = desk[i].answer
        /\ call.thread = "acting"
    BY <1>1 DEF DeskCalls
  <2> HIDE DEF call
  <2> QED BY <2>1, <2>2, DeskActs
<1>6. CASE ReadsTitle(i)
  <2>1. desk[i].thread = "acting"
    BY <1>6 DEF ReadsTitle, Acts
  <2>2. PICK w \in desk[i].todo :
           Goes(i, [desk[i] EXCEPT !.todo = @ \ {w},
                                   !.hit = IF title[w] = desk[i].item THEN @ \cup {w} ELSE @])
    BY <1>6 DEF ReadsTitle
  <2> DEFINE call == [desk[i] EXCEPT !.todo = @ \ {w},
                                     !.hit = IF title[w] = desk[i].item THEN @ \cup {w} ELSE @]
  <2>3. /\ call.op = desk[i].op /\ call.item = desk[i].item /\ call.answer = desk[i].answer
        /\ call.thread = "acting"
    BY <1>1, <2>1 DEF DeskCalls
  <2>4. Goes(i, call)
    BY <2>2
  <2> HIDE DEF call
  <2> QED BY <2>1, <2>3, <2>4, DeskActs
<1> QED BY <1>2, <1>3, <1>4, <1>5, <1>6

\* An answer that leaves the thread where it is.
LEMMA DeskRests ==
  ASSUME DesktopInv, NEW i \in DeskNumbers, NEW answer \in {"success", "failure"},
         desk[i].answer = "waiting", Goes(i, [desk[i] EXCEPT !.answer = answer]),
         pictures' = pictures,
         answer = "success" => desk[i].thread = "done"
  PROVE  DesktopPromise!Next
<1> DEFINE call == [desk[i] EXCEPT !.answer = answer]
<1>1. /\ call.op = desk[i].op /\ call.item = desk[i].item /\ call.answer = answer
      /\ call.thread = desk[i].thread /\ call.hit = desk[i].hit
  BY DEF DesktopInv, DeskCalls
<1>2. Goes(i, call)
  OBVIOUS
<1>3. DeskEffect(call) = DeskEffect(desk[i]) /\ (answer = "success" => DeskEffect(call) = "done")
  BY <1>1 DEF DeskEffect
<1> HIDE DEF call
<1>4. /\ DeskMatters' = [DeskMatters EXCEPT ![i] = <<call.op, call.item>>]
      /\ DeskEffects' = [DeskEffects EXCEPT ![i] = DeskEffect(call)]
      /\ DeskAnswers' = [DeskAnswers EXCEPT ![i] = call.answer]
  BY <1>2, DeskMapped
<1>5. DeskMatters' = DeskMatters
  BY <1>1, <1>4 DEF DeskMatters
<1>6. DeskEffects' = DeskEffects /\ DeskEffects'[i] = DeskEffect(call)
  BY <1>3, <1>4 DEF DeskEffects
<1>7. [j \in DeskNumbers |-> desk'[j].hit] = [j \in DeskNumbers |-> desk[j].hit]
  <2>1. \A j \in DeskNumbers : desk'[j].hit = desk[j].hit
    BY <1>1, <1>2 DEF Goes, DesktopInv
  <2> QED BY <2>1
<1>8. DeskAnswers[i] = "waiting" /\ DeskAnswers' = [DeskAnswers EXCEPT ![i] = answer]
  BY <1>1, <1>4 DEF DeskAnswers
<1>9. CASE answer = "success"
  <2>1. DesktopPromise!Succeed(i)
    BY <1>3, <1>5, <1>6, <1>7, <1>8, <1>9
    DEF DesktopPromise!Succeed, DesktopPromise!Rests, DesktopPromise!Becomes
  <2> QED BY <2>1 DEF DesktopPromise!Next
<1>10. CASE answer = "failure"
  <2>1. DesktopPromise!Fail(i)
    BY <1>5, <1>6, <1>7, <1>8, <1>10
    DEF DesktopPromise!Fail, DesktopPromise!Rests, DesktopPromise!Becomes
  <2> QED BY <2>1 DEF DesktopPromise!Next
<1> QED BY <1>9, <1>10

\* An answer with which the call is over: a thread that did not begin, or an analysis.
LEMMA DeskDropped ==
  ASSUME DesktopInv, NEW i \in DeskNumbers, NEW answer \in {"success", "failure"},
         desk[i].answer = "waiting", desk[i].thread \in {"queued", "asking"},
         Goes(i, [desk[i] EXCEPT !.answer = answer, !.thread = "over"]),
         answer = "success" => desk[i].thread = "asking"
  PROVE  DesktopPromise!Next
<1> DEFINE call == [desk[i] EXCEPT !.answer = answer, !.thread = "over"]
<1>1. desk[i] \in DeskCalls /\ (desk[i].thread = "asking" => desk[i].op = "analyze")
  BY DEF DesktopInv, Good, AnswerGood
<1>2. /\ call.op = desk[i].op /\ call.item = desk[i].item /\ call.answer = answer
      /\ call.thread = "over"
  BY <1>1 DEF DeskCalls
<1>3. Goes(i, call)
  OBVIOUS
<1>4. /\ DeskEffect(call) \in {"done", "over"} /\ (answer = "success" => DeskEffect(call) = "done")
      /\ DeskEffect(desk[i]) = "possible"
  BY <1>1, <1>2 DEF DeskEffect
<1> HIDE DEF call
<1>5. /\ DeskMatters' = [DeskMatters EXCEPT ![i] = <<call.op, call.item>>]
      /\ DeskEffects' = [DeskEffects EXCEPT ![i] = DeskEffect(call)]
      /\ DeskAnswers' = [DeskAnswers EXCEPT ![i] = call.answer]
  BY <1>3, DeskMapped
<1>6. DeskMatters' = DeskMatters
  BY <1>2, <1>5 DEF DeskMatters
<1>7. DeskEffects[i] = "possible" /\ DeskEffects'[i] = DeskEffect(call)
  BY <1>4, <1>5 DEF DeskEffects
<1>8. DeskAnswers[i] = "waiting" /\ DeskAnswers' = [DeskAnswers EXCEPT ![i] = answer]
  BY <1>2, <1>5 DEF DeskAnswers
<1>9. DesktopPromise!Goes(i)
  BY <1>4, <1>5, <1>7 DEF DesktopPromise!Goes, DesktopPromise!Becomes
<1>10. CASE answer = "success"
  <2>1. DesktopPromise!Succeed(i)
    BY <1>4, <1>6, <1>7, <1>8, <1>9, <1>10
    DEF DesktopPromise!Succeed, DesktopPromise!Becomes
  <2> QED BY <2>1 DEF DesktopPromise!Next
<1>11. CASE answer = "failure"
  <2>1. DesktopPromise!Fail(i)
    BY <1>6, <1>8, <1>9, <1>11 DEF DesktopPromise!Fail, DesktopPromise!Becomes
  <2> QED BY <2>1 DEF DesktopPromise!Next
<1> QED BY <1>10, <1>11

\* The program is killed.
LEMMA DeskStops == ASSUME DesktopInv, KillProgram PROVE DesktopPromise!Stop
<1>1. /\ pictures' = pictures
      /\ \A j \in DeskNumbers :
            desk'[j] = [desk[j] EXCEPT
                          !.thread = IF @ \in {"queued", "acting", "asking"} THEN "killed" ELSE @,
                          !.answer = IF @ = "waiting" THEN "failure" ELSE @]
  BY DEF KillProgram
<1>2. ASSUME NEW j \in DeskNumbers
      PROVE  /\ desk'[j].op = desk[j].op /\ desk'[j].item = desk[j].item
             /\ desk'[j].hit = desk[j].hit
             /\ desk'[j].thread = IF desk[j].thread \in {"queued", "acting", "asking"}
                                  THEN "killed" ELSE desk[j].thread
             /\ desk'[j].answer = IF desk[j].answer = "waiting" THEN "failure"
                                  ELSE desk[j].answer
  <2>1. desk[j] \in DeskCalls
    BY DEF DesktopInv
  <2> QED BY <1>1, <2>1 DEF DeskCalls
<1>3. DeskMatters' = DeskMatters
  BY <1>2 DEF DeskMatters
<1>4. DeskAnswers' = [j \in DeskNumbers |-> IF DeskAnswers[j] = "waiting" THEN "failure"
                                            ELSE DeskAnswers[j]]
  BY <1>2 DEF DeskAnswers
<1>5. DeskEffects' = [j \in DeskNumbers |-> IF DeskEffects[j] = "possible" THEN "over"
                                            ELSE DeskEffects[j]]
  <2>1. ASSUME NEW j \in DeskNumbers
        PROVE  DeskEffect(desk[j])' =
                  IF DeskEffect(desk[j]) = "possible" THEN "over" ELSE DeskEffect(desk[j])
    <3>1. /\ desk[j].answer = "success" => desk[j].thread = "done" \/ desk[j].op = "analyze"
          /\ desk[j].op = "analyze" /\ desk[j].thread \in {"queued", "acting", "asking"}
                => desk[j].answer = "waiting"
      BY DEF DesktopInv, Good, AnswerGood, PictureGood
    <3> QED BY <1>2, <3>1 DEF DeskEffect
  <2> QED BY <2>1 DEF DeskEffects
<1>6. [j \in DeskNumbers |-> desk'[j].hit] = [j \in DeskNumbers |-> desk[j].hit]
  BY <1>2
<1> QED BY <1>1, <1>3, <1>4, <1>5, <1>6 DEF DesktopPromise!Stop

\* What happens by itself is no step of a call.
LEMMA DeskElsewhere ==
  ASSUME DesktopInv,
         \/ \E p \in Processes : ProcessStarts(p) \/ ProcessExits(p)
         \/ \E w \in Handles, t \in Captions \cup {NoWindow} : Retitled(w, t)
         \/ UNCHANGED desktopVars
  PROVE  UNCHANGED (DesktopPromise!vars)
<1>1. /\ pictures' = pictures
      /\ \A i \in DeskNumbers :
           /\ desk'[i].op = desk[i].op /\ desk'[i].item = desk[i].item
           /\ desk'[i].thread = desk[i].thread /\ desk'[i].answer = desk[i].answer
           /\ desk'[i].hit = desk[i].hit
  <2>1. CASE UNCHANGED <<pictures, desk>>
    BY <2>1
  <2>2. CASE \E w \in Handles, t \in Captions \cup {NoWindow} : Retitled(w, t)
    <3>1. PICK w \in Handles, t \in Captions \cup {NoWindow} : Retitled(w, t)
      BY <2>2
    <3>2. ASSUME NEW i \in DeskNumbers
          PROVE  /\ desk'[i].op = desk[i].op /\ desk'[i].item = desk[i].item
                 /\ desk'[i].thread = desk[i].thread /\ desk'[i].answer = desk[i].answer
                 /\ desk'[i].hit = desk[i].hit
      <4>1. desk'[i] \in {desk[i], [desk[i] EXCEPT !.meant = @ \cup {w}]}
        BY <3>1 DEF Retitled
      <4>2. desk[i] \in DeskCalls
        BY DEF DesktopInv
      <4> QED BY <4>1, <4>2 DEF DeskCalls
    <3> QED BY <3>1, <3>2 DEF Retitled
  <2> QED BY <2>1, <2>2 DEF ProcessStarts, ProcessExits, desktopVars
<1>2. /\ DeskMatters' = DeskMatters /\ DeskAnswers' = DeskAnswers
      /\ [j \in DeskNumbers |-> desk'[j].hit] = [j \in DeskNumbers |-> desk[j].hit]
  BY <1>1 DEF DeskMatters, DeskAnswers
<1>3. DeskEffects' = DeskEffects
  <2>1. \A i \in DeskNumbers : DeskEffect(desk[i])' = DeskEffect(desk[i])
    BY <1>1 DEF DeskEffect
  <2> QED BY <2>1 DEF DeskEffects
<1> QED BY <1>1, <1>2, <1>3 DEF DesktopPromise!vars

\* Every step of the desktop is one of the promise, or none.
LEMMA DeskPromiseStep ==
  ASSUME DesktopInv, [DesktopNext]_desktopVars
  PROVE  [DesktopPromise!Next]_(DesktopPromise!vars)
<1>1. ASSUME NEW op \in {"open", "close", "look", "focus", "capture", "analyze"},
             NEW item \in Applications \cup Captions \cup {NoWindow}
      PROVE  LET call == Queued(op, item)
             IN  /\ call \in DeskCalls /\ call.op # "none" /\ call.hit = {}
                 /\ call.thread = "queued" /\ call.answer = "waiting"
  BY DEF Queued, NotAsked, DeskCalls
<1>2. ASSUME NEW op \in {"open", "close", "look", "capture", "analyze"},
             NEW item \in Applications \cup Captions \cup {NoWindow}, Ask(Queued(op, item))
      PROVE  DesktopPromise!Next
  <2> DEFINE call == Queued(op, item)
  <2>1. /\ call \in DeskCalls /\ call.op # "none"
        /\ call.thread = "queued" /\ call.answer = "waiting"
    BY <1>1
  <2>2. Ask(call)
    BY <1>2
  <2> HIDE DEF call
  <2> QED BY <2>1, <2>2, DeskMade
<1>3. ASSUME NEW t \in Captions, FocusWindow(t) PROVE DesktopPromise!Next
  <2> DEFINE meant == Titled(t)
             call == [Queued("focus", t) EXCEPT !.meant = meant]
  <2>1. meant \subseteq Handles
    BY DEF Titled
  <2>2. Ask(call)
    BY <1>3 DEF FocusWindow
  <2> HIDE DEF meant
  <2>3. /\ call \in DeskCalls /\ call.op # "none"
        /\ call.thread = "queued" /\ call.answer = "waiting"
    BY <1>1, <2>1 DEF DeskCalls
  <2> HIDE DEF call
  <2> QED BY <2>2, <2>3, DeskMade
<1>4. CASE \/ \E a \in Applications : OpenApplication(a) \/ CloseApplication(a)
           \/ TakeScreenshot \/ Look \/ AnalyzeScreen
  BY <1>2, <1>4 DEF OpenApplication, CloseApplication, TakeScreenshot, Look, AnalyzeScreen
<1>6. ASSUME NEW i \in DeskNumbers, DeskSucceeds(i) PROVE DesktopPromise!Next
  BY <1>6, DeskRests DEF DeskSucceeds, Asking
<1>7. ASSUME NEW i \in DeskNumbers, DeskFails(i) PROVE DesktopPromise!Next
  <2>1. /\ desk[i].answer = "waiting" /\ pictures' = pictures
    BY <1>7 DEF DeskFails, Asking
  <2>2. CASE Goes(i, [desk[i] EXCEPT !.answer = "failure"])
    BY <2>1, <2>2, DeskRests
  <2>3. CASE /\ desk[i].thread = "queued"
             /\ Goes(i, [desk[i] EXCEPT !.answer = "failure", !.thread = "over"])
    BY <2>1, <2>3, DeskDropped
  <2> QED BY <1>7, <2>2, <2>3 DEF DeskFails
<1>8. ASSUME NEW i \in DeskNumbers, Analyzed(i) PROVE DesktopPromise!Next
  BY <1>8, DeskDropped DEF Analyzed, Asking
<1>9. CASE KillProgram
  BY <1>9, DeskStops DEF DesktopPromise!Next
<1> QED
  BY <1>3, <1>4, <1>6, <1>7, <1>8, <1>9, DeskThreads, DeskElsewhere DEF DesktopNext

\* The desktop actions implement CallPromise: pictures appear and vanish and processes end only
\* by calls whose threads have not ended, no success is answered before that, and the end of
\* the program ends it all.
THEOREM DeskCallsImplemented == DesktopSpec => DeskCallsAsPromised
<1>1. DesktopInit => DesktopPromise!Init
  BY DEF DesktopInit, DesktopPromise!Init, DeskMatters, DeskEffects, DeskEffect, DeskAnswers,
         NotAsked
<1>2. DesktopInv /\ [DesktopNext]_desktopVars => [DesktopPromise!Next]_(DesktopPromise!vars)
  BY DeskPromiseStep
<1> QED
  BY <1>1, <1>2, DesktopInitInv, DesktopStep, PTL
  DEF DesktopSpec, DeskCallsAsPromised, DesktopPromise!Spec

----------------------------------------------------------------------------
(* The services.  An event of the calendar is changed only in a state that *)
(* was approved, and mail goes out twice only after a failure was          *)
(* reported.                                                               *)

Calls ==
    [op : Writes \cup {"none", "look"}, item : Drafts \cup Events \cup Services \cup {Absent},
     wanted : Approvals \cup {Absent}, new : Contents \cup {Absent}, thread : ThreadStages,
     answer : {"none", "waiting", "success", "failure"},
     saw : Contents \cup {Absent}, hit : BOOLEAN, agreed : BOOLEAN]

\* A change whose event was compared agreed at some moment; and one whose event would now pass
\* the comparison agreed when it was so.
Agreement(call, agenda) ==
    /\ call.thread \in {"reading", "read"} => call.op \in Changes
    /\ call.op \in Changes =>
         /\ call.item \in Events
         /\ call.thread \in {"reading", "read", "starting", "started"} => ~call.hit
         /\ call.thread = "reading" /\ Agrees(call.op, call.wanted, agenda[call.item])
              => call.agreed
         /\ call.thread = "read" /\ Agrees(call.op, call.wanted, call.saw) => call.agreed
         /\ call.thread \in {"starting", "started"} \/ call.hit => call.agreed

RemoteInv ==
    /\ began \in 0 .. MaxRemote
    /\ calendar \in [Events -> Contents \cup {Absent}]
    /\ remote \in [CallNumbers -> Calls]
    /\ \A i \in CallNumbers : Agreement(remote[i], calendar)

\* At the start nothing was called.
LEMMA RemoteInitInv == RemoteInit => RemoteInv
  BY RemoteConstants
  DEF RemoteInit, NothingCalled, NotCalled, RemoteInv, Calls, Agreement, Changes, Writes,
      ThreadStages

\* A step of one call that leaves the calendar alone.
LEMMA OneCall ==
  ASSUME RemoteInv, NEW i \in CallNumbers, NEW call \in Calls, Agreement(call, calendar),
         remote' = [remote EXCEPT ![i] = call], UNCHANGED calendar, began' \in 0 .. MaxRemote
  PROVE  RemoteInv'
<1>1. remote' \in [CallNumbers -> Calls]
  BY DEF RemoteInv
<1>2. \A j \in CallNumbers : remote'[j] = IF j = i THEN call ELSE remote[j]
  BY DEF RemoteInv
<1>3. \A j \in CallNumbers : Agreement(remote'[j], calendar)
  BY <1>2 DEF RemoteInv
<1> QED BY <1>1, <1>3 DEF RemoteInv

\* A call begins under a number of its own.
LEMMA BeginKeeps ==
  ASSUME RemoteInv, NEW call \in Calls, Begin(call), Agreement(call, calendar)
  PROVE  RemoteInv'
<1>1. began + 1 \in CallNumbers /\ began' \in 0 .. MaxRemote
  BY RemoteConstants DEF Begin, RemoteInv, CallNumbers
<1> QED BY <1>1, OneCall DEF Begin, calendarVars

\* A thread goes on to a stage that says nothing new about its event.
LEMMA StageKeeps ==
  ASSUME RemoteInv, NEW i \in CallNumbers, NEW stage \in ThreadStages, Thread(i, stage),
         UNCHANGED <<calendarVars, began>>,
         \/ stage = "started" /\ remote[i].thread = "starting"
         \/ stage \notin {"reading", "read", "starting", "started"}
  PROVE  RemoteInv'
<1> DEFINE call == [remote[i] EXCEPT !.thread = stage]
<1>1. remote' = [remote EXCEPT ![i] = call]
  BY DEF Thread, RemoteInv
<1>2. remote[i] \in Calls /\ Agreement(remote[i], calendar)
  BY DEF RemoteInv
<1>3. /\ call \in Calls /\ call.op = remote[i].op /\ call.item = remote[i].item
      /\ call.thread = stage /\ call.hit = remote[i].hit /\ call.agreed = remote[i].agreed
  BY <1>2 DEF Calls
<1>4. Agreement(call, calendar)
  BY <1>2, <1>3 DEF Agreement
<1> QED BY <1>1, <1>3, <1>4, OneCall DEF calendarVars, RemoteInv

\* A new call that is to change event e.
NewChange(e) ==
    \/ \E heading \in Titles, new \in Contents : UpdateEvent(e, heading, new)
    \/ \E wanted \in Contents : DeleteEvent(e, wanted)

\* It is a change with an approval of its own.
LEMMA ChangeBegins ==
  ASSUME NEW e \in Events, NewChange(e)
  PROVE  \E op \in Changes, wanted \in Approvals, new \in Contents \cup {Absent} :
            Change(op, e, wanted, new)
<1>1. ASSUME NEW heading \in Titles, NEW new \in Contents, UpdateEvent(e, heading, new)
      PROVE  \E wanted \in Approvals : Change("update", e, wanted, new)
  BY <1>1 DEF UpdateEvent, Approvals
<1>2. ASSUME NEW wanted \in Contents, DeleteEvent(e, wanted)
      PROVE  wanted \in Approvals /\ Change("delete", e, wanted, Absent)
  BY <1>2 DEF DeleteEvent, Approvals, Contents
<1> QED BY <1>1, <1>2 DEF NewChange, Changes

\* New calls.  A change has not read its event yet.
LEMMA NewCalls ==
  ASSUME RemoteInv,
         \/ \E d \in Drafts : SendAgain(d) \/ Send(d)
         \/ CreateEvent \/ CreateIssue \/ LookAtGitHub \/ LookAtMail \/ LookAtCalendar
         \/ \E e \in Events : NewChange(e)
  PROVE  RemoteInv'
<1> USE DEF NotCalled, Calls, Agreement, Changes, Writes, Services, ThreadStages
<1>1. ASSUME NEW d \in Drafts, SendAgain(d) PROVE RemoteInv'
  BY <1>1, BeginKeeps DEF SendAgain
<1>2. ASSUME NEW d \in Drafts, Send(d) PROVE RemoteInv'
  BY <1>2, BeginKeeps DEF Send
<1>3. CASE CreateEvent
  BY <1>3, BeginKeeps DEF CreateEvent
<1>4. CASE CreateIssue
  BY <1>4, BeginKeeps DEF CreateIssue
<1>5. ASSUME NEW s \in Services, Looking(s) PROVE RemoteInv'
  BY <1>5, BeginKeeps DEF Looking
<1>6. ASSUME NEW op \in Changes, NEW e \in Events, NEW wanted \in Approvals,
             NEW new \in Contents \cup {Absent}, Change(op, e, wanted, new)
      PROVE  RemoteInv'
  <2> DEFINE call == [NotCalled EXCEPT !.op = op, !.item = e, !.wanted = wanted, !.new = new,
                                       !.thread = "reading", !.answer = "waiting",
                                       !.agreed = Agrees(op, wanted, calendar[e])]
  <2>1. Begin(call)
    BY <1>6 DEF Change
  <2>2. call.agreed = Agrees(op, wanted, calendar[e])
    OBVIOUS
  <2>3. Agrees(op, wanted, calendar[e]) \in BOOLEAN
    BY DEF Agrees
  <2>4. call \in Calls
    BY <2>3
  <2>5. Agreement(call, calendar)
    BY <2>2
  <2> QED BY <2>1, <2>4, <2>5, BeginKeeps
<1> QED BY <1>1, <1>2, <1>3, <1>4, <1>5, <1>6, ChangeBegins
        DEF LookAtGitHub, LookAtMail, LookAtCalendar

\* Threads that change nothing but their own stage, or what they have read.
LEMMA Threads ==
  ASSUME RemoteInv, NEW i \in CallNumbers,
         \/ ThreadReads(i) \/ LogsIn(i) \/ OpensCalendar(i) \/ Requests(i)
         \/ ShowsMail(i) \/ ShowsEvents(i) \/ ShowsRepository(i)
         \/ AcceptsMail(i) \/ AddsEvent(i) \/ AddsIssue(i) \/ ThreadFails(i)
  PROVE  RemoteInv'
<1> remote[i] \in Calls /\ Agreement(remote[i], calendar) /\ began \in 0 .. MaxRemote
  BY DEF RemoteInv
<1>1. CASE ThreadReads(i)
  <2> DEFINE call == [remote[i] EXCEPT !.thread = "read", !.saw = calendar[remote[i].item]]
  <2>1. remote' = [remote EXCEPT ![i] = call] /\ UNCHANGED <<calendar, began>>
    BY <1>1 DEF ThreadReads, calendarVars, RemoteInv
  <2>2. remote[i].op \in Changes /\ calendar[remote[i].item] \in Contents \cup {Absent}
    BY <1>1 DEF ThreadReads, Agreement, RemoteInv
  <2>3. /\ call \in Calls /\ call.op = remote[i].op /\ call.item = remote[i].item
        /\ call.wanted = remote[i].wanted /\ call.saw = calendar[remote[i].item]
        /\ call.thread = "read" /\ call.hit = remote[i].hit /\ call.agreed = remote[i].agreed
    BY <2>2, ZenonT(40) DEF Calls, ThreadStages
  <2>4. Agreement(call, calendar)
    BY <1>1, <2>2, <2>3 DEF Agreement, ThreadReads
  <2> QED BY <2>1, <2>3, <2>4, OneCall
<1>2. CASE Starts(i)
  BY <1>2, StageKeeps DEF Starts, ThreadStages
<1>3. ASSUME NEW s, Shows(i, s) PROVE RemoteInv'
  BY <1>3, StageKeeps DEF Shows, ThreadStages
<1>4. ASSUME NEW op \in {"send", "create", "issue"}, Takes(i, op) PROVE RemoteInv'
  <2>1. PICK outcome \in Replies :
            remote' = [remote EXCEPT ![i] = [remote[i] EXCEPT !.hit = TRUE, !.thread = outcome]]
    BY <1>4 DEF Takes, RemoteInv
  <2> DEFINE call == [remote[i] EXCEPT !.hit = TRUE, !.thread = outcome]
  <2>2. call \in Calls /\ call.op = op
    BY <1>4 DEF Takes, Calls, Replies, ThreadStages
  <2>3. Agreement(call, calendar)
    <3>1. op \notin Changes /\ call.thread \notin {"reading", "read"}
      BY <1>4 DEF Changes, Replies, Calls
    <3> QED BY <2>2, <3>1 DEF Agreement
  <2> QED BY <1>4, <2>1, <2>2, <2>3, OneCall DEF Takes, calendarVars
<1>5. CASE ThreadFails(i)
  BY <1>5, StageKeeps DEF ThreadFails, ThreadStages
<1> QED BY <1>1, <1>2, <1>3, <1>4, <1>5
        DEF LogsIn, OpensCalendar, Requests, ShowsMail, ShowsEvents, ShowsRepository,
            AcceptsMail, AddsEvent, AddsIssue

\* The comparison, and the ends of calls.
LEMMA Answers ==
  ASSUME RemoteInv, NEW i \in CallNumbers, Confirmed(i) \/ CallSucceeds(i) \/ CallFails(i)
  PROVE  RemoteInv'
<1> remote[i] \in Calls /\ Agreement(remote[i], calendar) /\ began \in 0 .. MaxRemote
  BY DEF RemoteInv
<1>1. CASE Confirmed(i)
  <2> DEFINE call == [remote[i] EXCEPT !.thread = "starting", !.wanted = Absent, !.saw = Absent]
  <2>1. remote' = [remote EXCEPT ![i] = call] /\ UNCHANGED <<calendar, began>>
    BY <1>1 DEF Confirmed, calendarVars, RemoteInv
  <2>2. /\ call \in Calls /\ call.op = remote[i].op /\ call.item = remote[i].item
        /\ call.thread = "starting" /\ call.hit = remote[i].hit /\ call.agreed = remote[i].agreed
    BY DEF Calls, ThreadStages
  <2>3. remote[i].thread = "read" /\ Agrees(remote[i].op, remote[i].wanted, remote[i].saw)
    BY <1>1 DEF Confirmed, Matches, Agrees
  <2>4. Agreement(call, calendar)
    BY <2>2, <2>3 DEF Agreement
  <2> QED BY <2>1, <2>2, <2>4, OneCall
<1>2. ASSUME NEW result \in {"success", "failure"},
             remote' = [remote EXCEPT ![i] = [Over(@) EXCEPT !.answer = result]],
             UNCHANGED <<calendar, began>>
      PROVE  RemoteInv'
  <2> DEFINE call == [Over(remote[i]) EXCEPT !.answer = result]
  <2>1. remote' = [remote EXCEPT ![i] = call]
    BY <1>2 DEF RemoteInv
  <2>2. /\ call \in Calls /\ call.op = remote[i].op /\ call.item = remote[i].item
        /\ call.thread = "over" /\ call.hit = remote[i].hit /\ call.agreed = remote[i].agreed
    BY ZenonT(40) DEF Calls, ThreadStages, Over
  <2>3. Agreement(call, calendar)
    BY <2>2 DEF Agreement
  <2> QED BY <1>2, <2>1, <2>2, <2>3, OneCall
<1>3. CASE CallSucceeds(i)
  BY <1>2, <1>3 DEF CallSucceeds, calendarVars
<1>4. CASE CallFails(i)
  <2>1. CASE remote' = [remote EXCEPT ![i].answer = "failure"]
    <3> DEFINE call == [remote[i] EXCEPT !.answer = "failure"]
    <3>1. remote' = [remote EXCEPT ![i] = call] /\ UNCHANGED <<calendar, began>>
      BY <1>4, <2>1 DEF CallFails, calendarVars, RemoteInv
    <3>2. call \in Calls /\ Agreement(call, calendar)
      BY DEF Calls, Agreement
    <3> QED BY <3>1, <3>2, OneCall
  <2>2. CASE remote' = [remote EXCEPT ![i] = [Over(@) EXCEPT !.answer = "failure"]]
    BY <1>2, <1>4, <2>2 DEF CallFails, calendarVars
  <2> QED BY <1>4, <2>1, <2>2 DEF CallFails
<1> QED BY <1>1, <1>3, <1>4

\* A call after something was done to an event, by this call or not.
After(call, own, stage, seen) ==
    [call EXCEPT !.hit = own \/ @, !.thread = stage, !.agreed = @ \/ seen]

\* What such a call's fields are.
LEMMA AfterFields ==
  ASSUME NEW call \in Calls, NEW own \in BOOLEAN, NEW stage \in ThreadStages, NEW seen \in BOOLEAN
  PROVE  /\ After(call, own, stage, seen) \in Calls
         /\ After(call, own, stage, seen).op = call.op
         /\ After(call, own, stage, seen).item = call.item
         /\ After(call, own, stage, seen).wanted = call.wanted
         /\ After(call, own, stage, seen).saw = call.saw
         /\ After(call, own, stage, seen).thread = stage
         /\ After(call, own, stage, seen).hit <=> own \/ call.hit
         /\ After(call, own, stage, seen).agreed <=> call.agreed \/ seen
<1> DEFINE hit == own \/ call.hit
           agreed == call.agreed \/ seen
           new == [call EXCEPT !.hit = hit, !.thread = stage, !.agreed = agreed]
<1>1. After(call, own, stage, seen) = new
  BY DEF After
<1>2. hit \in BOOLEAN
  OBVIOUS
<1>3. agreed \in BOOLEAN
  OBVIOUS
<1> HIDE DEF hit, agreed
<1>4. /\ new.op = call.op /\ new.item = call.item
      /\ new.wanted = call.wanted /\ new.saw = call.saw
      /\ new.thread = stage /\ new.hit = hit /\ new.agreed = agreed
  BY DEF Calls
<1>5. new \in Calls
  BY <1>2, <1>3 DEF Calls
<1> QED BY <1>1, <1>4, <1>5 DEF hit, agreed

\* The call that changed its event had agreed with it before.
LEMMA OwnChange ==
  ASSUME NEW old \in Calls, NEW new \in Calls, NEW before, NEW agenda, Agreement(old, before),
         new.op = old.op, new.item = old.item, new.thread \in Replies,
         old.agreed, new.agreed
  PROVE  Agreement(new, agenda)
  BY DEF Agreement, Replies

\* Another call notices only whether the event agrees with it now.
LEMMA OtherClientKeeps ==
  ASSUME NEW old \in Calls, NEW new \in Calls, NEW before, NEW agenda, Agreement(old, before),
         new.op = old.op, new.item = old.item, new.wanted = old.wanted, new.saw = old.saw,
         new.thread = old.thread, new.hit <=> old.hit, old.agreed => new.agreed,
         \/ new.agreed
         \/ agenda[old.item] = before[old.item]
         \/ ~(/\ old.thread \in {"reading", "read"}
              /\ old.op \in Changes
              /\ Agrees(old.op, old.wanted, agenda[old.item]))
  PROVE  Agreement(new, agenda)
  BY DEF Agreement

\* The server's changes, which other calls may be comparing with.
LEMMA CalendarChanges ==
  ASSUME RemoteInv, NEW e \in Events, NEW c \in Contents \cup {Absent},
         NEW i, i \in CallNumbers => remote[i].agreed,
         NEW outcome \in ThreadStages, i \in CallNumbers => outcome \in Replies,
         Becomes(e, c, i, outcome), began' = began
  PROVE  RemoteInv'
<1>1. \A j \in CallNumbers : remote[j] \in Calls /\ Agreement(remote[j], calendar)
  BY DEF RemoteInv
<1>2. ASSUME NEW j \in CallNumbers
      PROVE  /\ remote'[j] \in Calls
             /\ remote'[j].op = remote[j].op /\ remote'[j].item = remote[j].item
             /\ remote'[j].wanted = remote[j].wanted /\ remote'[j].saw = remote[j].saw
             /\ remote'[j].thread = IF j = i THEN outcome ELSE remote[j].thread
             /\ remote'[j].hit <=> j = i \/ remote[j].hit
             /\ remote'[j].agreed <=> remote[j].agreed \/ (j # i /\ AgreesNow(j, e, c))
  <2> DEFINE own == j = i
             stage == IF j = i THEN outcome ELSE remote[j].thread
             seen == j # i /\ AgreesNow(j, e, c)
  <2>1. remote[j] \in Calls
    BY <1>1
  <2>2. own \in BOOLEAN /\ seen \in BOOLEAN
    BY Zenon
  <2>3. stage \in ThreadStages
    BY <2>1 DEF Calls
  <2>4. remote'[j] = After(remote[j], own, stage, seen)
    BY DEF Becomes, After
  <2> HIDE DEF own, stage, seen
  <2>5. /\ remote'[j] \in Calls
        /\ remote'[j].op = remote[j].op /\ remote'[j].item = remote[j].item
        /\ remote'[j].wanted = remote[j].wanted /\ remote'[j].saw = remote[j].saw
        /\ remote'[j].thread = stage /\ (remote'[j].hit <=> own \/ remote[j].hit)
        /\ (remote'[j].agreed <=> remote[j].agreed \/ seen)
    BY <2>1, <2>2, <2>3, <2>4, AfterFields, SMTT(30)
  <2> QED BY <2>5 DEF own, stage, seen
<1>3. calendar'[e] = c /\ \A f \in Events \ {e} : calendar'[f] = calendar[f]
  BY DEF Becomes, RemoteInv
<1>4. ASSUME NEW j \in CallNumbers PROVE Agreement(remote'[j], calendar')
  <2>1. CASE j = i
    <3>1. remote'[j].thread \in Replies /\ remote[j].agreed /\ remote'[j].agreed
      BY <1>2, <2>1
    <3> QED BY <1>1, <1>2, <3>1, OwnChange
  <2>2. CASE j # i
    <3>1. /\ remote'[j].thread = remote[j].thread /\ (remote'[j].hit <=> remote[j].hit)
          /\ (remote[j].agreed => remote'[j].agreed)
          /\ (AgreesNow(j, e, c) => remote'[j].agreed)
      BY <1>2, <2>2
    <3>2. \/ remote'[j].agreed
          \/ calendar'[remote[j].item] = calendar[remote[j].item]
          \/ ~(/\ remote[j].thread \in {"reading", "read"}
               /\ remote[j].op \in Changes
               /\ Agrees(remote[j].op, remote[j].wanted, calendar'[remote[j].item]))
      <4>1. remote[j].op \in Changes => remote[j].item \in Events
        BY <1>1 DEF Agreement
      <4> QED BY <1>3, <3>1, <4>1 DEF AgreesNow
    <3> QED BY <1>1, <1>2, <3>1, <3>2, OtherClientKeeps
  <2> QED BY <2>1, <2>2
<1>5. remote' \in [CallNumbers -> Calls]
  BY <1>2 DEF Becomes
<1>6. calendar' \in [Events -> Contents \cup {Absent}]
  BY DEF Becomes, RemoteInv
<1> QED BY <1>4, <1>5, <1>6 DEF RemoteInv

\* Connecting and disconnecting change no call.
LEMMA LinksKeep ==
  ASSUME RemoteInv,
         \/ ConnectMail \/ ConnectGitHub \/ ConnectCalendar
         \/ \E s \in Services : Verified(s) \/ NotVerified(s) \/ DisconnectLink(s) \/ CloseLink(s)
         \/ \E d \in Drafts : CreateDraft(d)
         \/ UNCHANGED remoteVars
  PROVE  RemoteInv'
<1>1. UNCHANGED <<calendar, remote, began>>
  BY DEF ConnectMail, ConnectGitHub, ConnectCalendar, Connecting, Verified, NotVerified,
         DisconnectLink, CloseLink, CreateDraft, calendarVars, remoteVars
<1> QED BY <1>1 DEF RemoteInv

\* Every step of a call, a thread, a server or another client keeps the agreement.
LEMMA RemoteStep ==
  ASSUME RemoteInv, [RemoteNext]_remoteVars
  PROVE  RemoteInv'
<1>1. ASSUME NEW i \in CallNumbers, ServerUpdates(i) PROVE RemoteInv'
  <2>1. remote[i].item \in Events /\ remote[i].agreed /\ remote[i].new \in Contents \cup {Absent}
    BY <1>1 DEF ServerUpdates, RemoteInv, Agreement, Changes, Calls
  <2> QED BY <1>1, <2>1, CalendarChanges DEF ServerUpdates, Replies, ThreadStages
<1>2. ASSUME NEW i \in CallNumbers, ServerDeletes(i) PROVE RemoteInv'
  <2>1. remote[i].item \in Events /\ remote[i].agreed
    BY <1>2 DEF ServerDeletes, RemoteInv, Agreement, Changes
  <2> QED BY <1>2, <2>1, CalendarChanges DEF ServerDeletes, Replies, ThreadStages
<1>3. ASSUME NEW e \in Events, OtherClient(e) PROVE RemoteInv'
  <2>1. 0 \notin CallNumbers /\ "none" \in ThreadStages
    BY DEF CallNumbers, ThreadStages
  <2> QED BY <1>3, <2>1, CalendarChanges DEF OtherClient
<1> QED BY <1>1, <1>2, <1>3, LinksKeep, NewCalls, Threads, Answers DEF RemoteNext, NewChange

\* update_calendar_event and delete_calendar_event change an event only if, at some moment from
\* the begin of the call to its comparison, it was as the user approved it, whatever other
\* clients and threads left behind do meanwhile.
THEOREM ApprovedChangesOnly == RemoteSpec => []ChangesWereConfirmed
<1>1. RemoteInv => ChangesWereConfirmed
  BY DEF RemoteInv, Agreement, ChangesWereConfirmed
<1> QED BY <1>1, RemoteInitInv, RemoteStep, PTL DEF RemoteSpec

\* What the integrations and the mail provider keep; a call that sends, sends a draft.
SessionTypes ==
    /\ link \in [Services -> {"disconnected", "connecting", "connected", "failed", "closed"}]
    /\ held \subseteq Services /\ drafts \subseteq Drafts /\ sentDrafts \subseteq Drafts
    /\ \A i \in CallNumbers : remote[i].op = "send" => remote[i].item \in Drafts

\* A new call that sends, sends a draft.
LEMMA BeginKeepsTypes ==
  ASSUME RemoteInv, SessionTypes, NEW call, call.op = "send" => call.item \in Drafts,
         Begin(call), UNCHANGED mailVars
  PROVE  SessionTypes'
<1>1. UNCHANGED <<link, held, drafts, sentDrafts>>
  BY DEF Begin, linkVars, mailVars
<1>2. \A i \in CallNumbers : remote'[i] = remote[i] \/ remote'[i] = call
  BY DEF Begin, RemoteInv
<1> QED BY <1>1, <1>2 DEF SessionTypes

\* A step of a thread, a server or another client leaves what a call is for.
LEMMA OthersKeepTypes ==
  ASSUME RemoteInv, SessionTypes, UNCHANGED <<link, held, drafts, sentDrafts>>,
         \A j \in CallNumbers :
            remote'[j].op = remote[j].op /\ remote'[j].item = remote[j].item
  PROVE  SessionTypes'
  BY DEF SessionTypes

\* Every step keeps these types.
LEMMA SessionTypesStep ==
  ASSUME RemoteInv, SessionTypes, [RemoteNext]_remoteVars
  PROVE  SessionTypes'
<1>1. CASE \/ ConnectMail \/ ConnectGitHub \/ ConnectCalendar
           \/ \E s \in Services : Verified(s) \/ NotVerified(s) \/ DisconnectLink(s) \/ CloseLink(s)
  <2>1. UNCHANGED <<drafts, sentDrafts, remote>>
    BY <1>1 DEF ConnectMail, ConnectGitHub, ConnectCalendar, Connecting, Verified, NotVerified,
                DisconnectLink, CloseLink, mailVars
  <2>2. link' \in [Services -> {"disconnected", "connecting", "connected", "failed", "closed"}]
    BY <1>1 DEF ConnectMail, ConnectGitHub, ConnectCalendar, Verified, NotVerified,
                DisconnectLink, CloseLink, SessionTypes
  <2>3. held' \subseteq Services
    BY <1>1 DEF ConnectMail, ConnectGitHub, ConnectCalendar, Connecting, Verified, NotVerified,
                DisconnectLink, CloseLink, SessionTypes, Services
  <2> QED BY <2>1, <2>2, <2>3 DEF SessionTypes
<1>2. ASSUME NEW d \in Drafts, CreateDraft(d) PROVE SessionTypes'
  BY <1>2 DEF CreateDraft, linkVars, SessionTypes
<1>3. ASSUME NEW d \in Drafts, SendAgain(d) \/ Send(d) PROVE SessionTypes'
  <2>1. \E call : Begin(call) /\ call.item = d /\ UNCHANGED mailVars
    BY <1>3 DEF SendAgain, Send, NotCalled
  <2> QED BY <2>1, BeginKeepsTypes
<1>4. CASE \/ CreateEvent \/ CreateIssue \/ LookAtGitHub \/ LookAtMail \/ LookAtCalendar
           \/ \E e \in Events : NewChange(e)
  <2>1. \E call : Begin(call) /\ call.op # "send" /\ UNCHANGED mailVars
    BY <1>4, ChangeBegins
       DEF CreateEvent, CreateIssue, LookAtGitHub, LookAtMail, LookAtCalendar, Looking,
           Change, Changes, NotCalled
  <2> QED BY <2>1, BeginKeepsTypes
<1>5. ASSUME NEW e, NEW c, NEW i, NEW outcome, Becomes(e, c, i, outcome),
             UNCHANGED <<linkVars, mailVars>>
      PROVE  SessionTypes'
  <2>1. \A j \in CallNumbers :
           remote'[j].op = remote[j].op /\ remote'[j].item = remote[j].item
    BY <1>5, ZenonT(40) DEF Becomes, RemoteInv, Calls
  <2> QED BY <1>5, <2>1, OthersKeepTypes DEF linkVars, mailVars
<1>6. ASSUME NEW i \in CallNumbers,
             \/ ThreadReads(i) \/ LogsIn(i) \/ OpensCalendar(i) \/ Requests(i)
             \/ ShowsMail(i) \/ ShowsEvents(i) \/ ShowsRepository(i)
             \/ AcceptsMail(i) \/ AddsEvent(i) \/ AddsIssue(i)
             \/ ThreadFails(i) \/ Confirmed(i) \/ CallFails(i)
      PROVE  SessionTypes'
  <2>1. UNCHANGED <<link, held, drafts, sentDrafts>>
    BY <1>6 DEF ThreadReads, LogsIn, OpensCalendar, Requests, Starts, ShowsMail, ShowsEvents,
                ShowsRepository, Shows, AcceptsMail, AddsEvent, AddsIssue, Takes, ThreadFails,
                Confirmed, CallFails, linkVars, mailVars
  <2>2. \A j \in CallNumbers :
           remote'[j].op = remote[j].op /\ remote'[j].item = remote[j].item
    <3> USE DEF RemoteInv, Calls
    <3>1. CASE ThreadReads(i) \/ Confirmed(i)
      BY <3>1 DEF ThreadReads, Confirmed
    <3>2. CASE \/ LogsIn(i) \/ OpensCalendar(i) \/ Requests(i) \/ ThreadFails(i)
               \/ ShowsMail(i) \/ ShowsEvents(i) \/ ShowsRepository(i)
      <4>1. \E stage : Thread(i, stage)
        BY <3>2 DEF LogsIn, OpensCalendar, Requests, Starts, ThreadFails, ShowsMail,
                    ShowsEvents, ShowsRepository, Shows
      <4> QED BY <4>1 DEF Thread
    <3>3. CASE AcceptsMail(i) \/ AddsEvent(i) \/ AddsIssue(i)
      BY <3>3 DEF AcceptsMail, AddsEvent, AddsIssue, Takes
    <3>4. CASE CallFails(i)
      <4>1. CASE remote' = [remote EXCEPT ![i].answer = "failure"]
        BY <4>1
      <4>2. CASE remote' = [remote EXCEPT ![i] = [Over(@) EXCEPT !.answer = "failure"]]
        BY <4>2 DEF Over
      <4> QED BY <3>4, <4>1, <4>2 DEF CallFails
    <3> QED BY <1>6, <3>1, <3>2, <3>3, <3>4
  <2> QED BY <2>1, <2>2, OthersKeepTypes
<1>7. ASSUME NEW i \in CallNumbers, CallSucceeds(i) PROVE SessionTypes'
  <2>1. \A j \in CallNumbers :
           remote'[j].op = remote[j].op /\ remote'[j].item = remote[j].item
    BY <1>7 DEF CallSucceeds, Over, RemoteInv, Calls
  <2>2. UNCHANGED <<link, held, drafts>> /\ sentDrafts' \subseteq Drafts
    BY <1>7 DEF CallSucceeds, linkVars, SessionTypes
  <2> QED BY <2>1, <2>2 DEF SessionTypes
<1>8. CASE UNCHANGED remoteVars
  BY <1>8 DEF remoteVars, SessionTypes
<1> QED
  BY <1>1, <1>2, <1>3, <1>4, <1>5, <1>6, <1>7, <1>8
  DEF RemoteNext, NewChange, OtherClient, ServerUpdates, ServerDeletes

\* With them the invariant gives the types.
LEMMA RemoteTyped ==
  /\ RemoteInit => SessionTypes
  /\ RemoteInv /\ SessionTypes => RemoteTypeOK
<1>1. RemoteInit => SessionTypes
  BY DEF RemoteInit, NothingCalled, NotCalled, SessionTypes
<1>2. RemoteInv /\ SessionTypes => RemoteTypeOK
  BY DEF RemoteInv, SessionTypes, Calls, RemoteTypeOK
<1> QED BY <1>1, <1>2

\* The variables of the integrations, the services and their calls keep their types.
THEOREM RemoteTypeCorrect == RemoteSpec => []RemoteTypeOK
  BY RemoteTyped, RemoteInitInv, RemoteStep, SessionTypesStep, PTL DEF RemoteSpec

----------------------------------------------------------------------------
(* Mail is sent twice only after a failure was reported.                   *)

\* The call can still make the server send the draft, or has.
MaySend(call) ==
    call.op = "send" /\ (call.hit \/ call.thread \in {"starting", "started"})

\* A success is of something done; a draft in _sent was sent; only the last call is not answered;
\* and all earlier calls for a draft that may still be sent were answered with a failure.
DoneWhenAnswered ==
    \A i \in CallNumbers :
        /\ remote[i].op \in Writes /\ remote[i].thread = "done" => remote[i].hit
        /\ remote[i].op \in Writes /\ remote[i].answer = "success" =>
              \/ remote[i].hit
              \/ /\ remote[i].op = "send"
                 /\ \E j \in 1 .. (i - 1) : Sent(j) /\ remote[j].item = remote[i].item

SentIsRecorded ==
    /\ \A d \in sentDrafts : \E j \in 1 .. began : Sent(j) /\ remote[j].item = d
    /\ \A i \in CallNumbers :
          remote[i].op = "send" /\ remote[i].answer = "success" => remote[i].item \in sentDrafts

OneAtATime ==
    \A i \in CallNumbers :
        /\ i > began => remote[i].thread = "none" /\ remote[i].answer = "none" /\ ~remote[i].hit
        /\ i < began => remote[i].answer # "waiting"
        /\ i <= began => remote[i].answer # "none" /\ remote[i].thread # "none"

RepeatsFailed ==
    \A i, k \in CallNumbers :
        k < i /\ MaySend(remote[i]) /\ remote[k].op = "send" /\ remote[k].item = remote[i].item
          => remote[k].answer = "failure"

MailInv == DoneWhenAnswered /\ SentIsRecorded /\ OneAtATime /\ RepeatsFailed

\* At the start nothing was sent.
LEMMA MailInitInv == RemoteInit => MailInv
  BY RemoteConstants
  DEF RemoteInit, NothingCalled, NotCalled, MailInv, DoneWhenAnswered, SentIsRecorded,
      OneAtATime, RepeatsFailed, MaySend, CallNumbers, Writes, Changes

\* What a step may make of a call, when `sent` are the drafts known as sent after it.
Moves(old, new, sent) ==
    /\ new.op = old.op /\ new.item = old.item
    /\ old.hit => new.hit
    /\ new.hit => old.hit \/ old.thread = "started"
    /\ new.thread = "done" => old.thread = "done" \/ new.hit \/ old.op \notin Writes
    /\ old.thread = "none" <=> new.thread = "none"
    /\ old.op = "send" /\ new.thread \in {"starting", "started"}
          => old.thread \in {"starting", "started"}
    /\ \/ new.answer = old.answer
       \/ old.answer = "waiting" /\ new.answer = "failure"
       \/ /\ old.answer = "waiting" /\ new.answer = "success" /\ old.thread = "done"
          /\ old.op = "send" => old.item \in sent

\* Such a step keeps the promise.
LEMMA MovesKeep ==
  ASSUME MailInv, began \in 0 .. MaxRemote,
         began' = began, sentDrafts \subseteq sentDrafts',
         \A d \in sentDrafts' \ sentDrafts : \E j \in CallNumbers :
            remote[j].op = "send" /\ remote[j].thread = "done" /\ remote[j].item = d,
         \A j \in CallNumbers : Moves(remote[j], remote'[j], sentDrafts')
  PROVE  MailInv'
<1>1. \A j \in CallNumbers : Sent(j) => Sent(j)' /\ remote'[j].item = remote[j].item
  BY DEF Sent, Moves
<1>2. \A i \in CallNumbers : 1 .. (i - 1) \subseteq CallNumbers
  BY RemoteConstants DEF CallNumbers
<1>3. 1 .. began \subseteq CallNumbers
  BY RemoteConstants DEF CallNumbers
<1>4. DoneWhenAnswered'
  <2> SUFFICES ASSUME NEW i \in CallNumbers, remote'[i].op \in Writes
               PROVE  /\ remote'[i].thread = "done" => remote'[i].hit
                      /\ remote'[i].answer = "success" =>
                            \/ remote'[i].hit
                            \/ /\ remote'[i].op = "send"
                               /\ \E j \in 1 .. (i - 1) :
                                     Sent(j)' /\ remote'[j].item = remote'[i].item
    BY DEF DoneWhenAnswered
  <2>1. /\ remote[i].op \in Writes /\ remote'[i].op = remote[i].op
        /\ remote'[i].item = remote[i].item /\ (remote[i].hit => remote'[i].hit)
        /\ remote'[i].thread = "done" => remote[i].thread = "done" \/ remote'[i].hit
        /\ remote'[i].answer = "success" =>
              remote[i].answer = "success" \/ remote[i].thread = "done"
    BY DEF Moves
  <2>2. remote[i].thread = "done" => remote[i].hit
    BY <2>1 DEF MailInv, DoneWhenAnswered
  <2>3. ASSUME remote[i].answer = "success", ~remote[i].hit
        PROVE  /\ remote'[i].op = "send"
               /\ \E j \in 1 .. (i - 1) : Sent(j)' /\ remote'[j].item = remote'[i].item
    <3>1. PICK j \in 1 .. (i - 1) : Sent(j) /\ remote[j].item = remote[i].item
      BY <2>1, <2>3 DEF MailInv, DoneWhenAnswered
    <3>2. remote[i].op = "send"
      BY <2>1, <2>3 DEF MailInv, DoneWhenAnswered
    <3> QED BY <1>1, <1>2, <2>1, <3>1, <3>2
  <2> QED BY <2>1, <2>2, <2>3
<1>5. SentIsRecorded'
  <2>1. ASSUME NEW d \in sentDrafts'
        PROVE  \E j \in 1 .. began' : Sent(j)' /\ remote'[j].item = d
    <3>1. CASE d \in sentDrafts
      <4>1. PICK j \in 1 .. began : Sent(j) /\ remote[j].item = d
        BY <3>1 DEF MailInv, SentIsRecorded
      <4> QED BY <1>1, <1>3, <4>1
    <3>2. CASE d \notin sentDrafts
      <4>1. PICK j \in CallNumbers :
               remote[j].op = "send" /\ remote[j].thread = "done" /\ remote[j].item = d
        BY <3>2
      <4>2. Sent(j)
        BY <4>1 DEF MailInv, DoneWhenAnswered, Sent, Writes
      <4>3. j \in 1 .. began
        BY <4>1, RemoteConstants DEF MailInv, OneAtATime, CallNumbers
      <4> QED BY <1>1, <4>1, <4>2, <4>3
    <3> QED BY <3>1, <3>2
  <2>2. ASSUME NEW i \in CallNumbers, remote'[i].op = "send", remote'[i].answer = "success"
        PROVE  remote'[i].item \in sentDrafts'
    BY <2>2 DEF MailInv, SentIsRecorded, Moves
  <2> QED BY <2>1, <2>2 DEF SentIsRecorded
<1>6. OneAtATime'
  BY DEF MailInv, OneAtATime, Moves
<1>7. RepeatsFailed'
  <2> SUFFICES ASSUME NEW i \in CallNumbers, NEW k \in CallNumbers, k < i, MaySend(remote'[i]),
                      remote'[k].op = "send", remote'[k].item = remote'[i].item
               PROVE  remote'[k].answer = "failure"
    BY DEF RepeatsFailed
  <2>1. MaySend(remote[i]) /\ remote[k].op = "send" /\ remote[k].item = remote[i].item
    BY DEF Moves, MaySend
  <2>2. remote[k].answer = "failure"
    BY <2>1 DEF MailInv, RepeatsFailed
  <2> QED BY <2>2 DEF Moves
<1> QED BY <1>4, <1>5, <1>6, <1>7 DEF MailInv

\* A call that begins: a send looks at _sent first.
LEMMA NewCallKeeps ==
  ASSUME RemoteInv, MailInv, NEW call \in Calls, Begin(call), sentDrafts' = sentDrafts,
         ~call.hit, call.thread \notin {"none", "done"},
         \/ call.answer = "waiting"
         \/ /\ call.answer = "success" /\ call.op = "send" /\ call.item \in sentDrafts
            /\ ~MaySend(call),
         call.op = "send" /\ call.answer = "waiting" => call.item \notin sentDrafts
  PROVE  MailInv'
<1> DEFINE n == began + 1
<1>1. /\ n \in CallNumbers /\ began' = n /\ began \in 0 .. MaxRemote
      /\ remote' = [remote EXCEPT ![n] = call] /\ Free
  BY RemoteConstants DEF Begin, RemoteInv, CallNumbers
<1>2. remote'[n] = call /\ \A j \in CallNumbers \ {n} : remote'[j] = remote[j]
  BY <1>1 DEF RemoteInv
<1>3. ~remote[n].hit /\ \A i \in CallNumbers : i > n => ~MaySend(remote[i])
  BY <1>1 DEF MailInv, OneAtATime, MaySend, CallNumbers
<1>4. \A j \in CallNumbers : Sent(j) => Sent(j)' /\ remote'[j].item = remote[j].item
  BY <1>2, <1>3 DEF Sent
<1>5. \A d \in sentDrafts : \E j \in 1 .. began : Sent(j)' /\ remote'[j].item = d
  <2>1. 1 .. began \subseteq CallNumbers
    BY <1>1, RemoteConstants DEF CallNumbers
  <2> QED BY <1>4, <2>1 DEF MailInv, SentIsRecorded
<1>6. DoneWhenAnswered'
  <2> SUFFICES ASSUME NEW i \in CallNumbers, remote'[i].op \in Writes
               PROVE  /\ remote'[i].thread = "done" => remote'[i].hit
                      /\ remote'[i].answer = "success" =>
                            \/ remote'[i].hit
                            \/ /\ remote'[i].op = "send"
                               /\ \E j \in 1 .. (i - 1) :
                                     Sent(j)' /\ remote'[j].item = remote'[i].item
    BY DEF DoneWhenAnswered
  <2>1. CASE i = n
    <3>1. 1 .. (n - 1) = 1 .. began
      BY <1>1
    <3> QED BY <1>2, <1>5, <2>1, <3>1
  <2>2. CASE i # n
    <3>1. remote'[i] = remote[i] /\ 1 .. (i - 1) \subseteq CallNumbers
      BY <1>2, <2>2, RemoteConstants DEF CallNumbers
    <3> QED BY <1>4, <3>1 DEF MailInv, DoneWhenAnswered
  <2> QED BY <2>1, <2>2
<1>7. SentIsRecorded'
  <2>1. 1 .. began \subseteq 1 .. n
    BY <1>1
  <2>2. \A i \in CallNumbers : remote'[i].op = "send" /\ remote'[i].answer = "success"
                                  => remote'[i].item \in sentDrafts
    BY <1>2 DEF MailInv, SentIsRecorded
  <2> QED BY <1>1, <1>5, <2>1, <2>2 DEF SentIsRecorded
<1>8. OneAtATime'
  <2>1. \A i \in CallNumbers : (i > n => i > began) /\ (i < n => i <= began)
                                /\ (i <= n => i <= began \/ i = n)
    BY <1>1 DEF CallNumbers
  <2>2. \A i \in CallNumbers : remote[i].answer # "waiting"
    BY <1>1 DEF Free
  <2>3. n \in Nat /\ \A i \in CallNumbers : i \in Nat
    BY <1>1 DEF CallNumbers
  <2> HIDE DEF n
  <2> QED BY <1>1, <1>2, <2>1, <2>2, <2>3 DEF MailInv, OneAtATime
<1>9. RepeatsFailed'
  <2> SUFFICES ASSUME NEW i \in CallNumbers, NEW k \in CallNumbers, k < i, MaySend(remote'[i]),
                      remote'[k].op = "send", remote'[k].item = remote'[i].item
               PROVE  remote'[k].answer = "failure"
    BY DEF RepeatsFailed
  <2>1. CASE i = n
    <3>1. k <= began /\ remote'[k] = remote[k] /\ remote[k] \in Calls
      BY <1>1, <1>2, <2>1 DEF CallNumbers, RemoteInv
    <3>2. remote[k].answer # "none" /\ remote[k].answer # "waiting"
      BY <1>1, <3>1 DEF MailInv, OneAtATime, Free
    <3>3. call.item \notin sentDrafts
      BY <1>2, <2>1 DEF MaySend
    <3>4. remote[k].answer # "success"
      BY <1>2, <2>1, <3>1, <3>3 DEF MailInv, SentIsRecorded
    <3> QED BY <3>1, <3>2, <3>4 DEF Calls
  <2>2. CASE i # n
    <3>1. remote'[i] = remote[i] /\ i < n
      BY <1>1, <1>2, <1>3, <2>2 DEF CallNumbers
    <3>2. remote'[k] = remote[k]
      BY <1>1, <1>2, <3>1 DEF CallNumbers
    <3> QED BY <3>1, <3>2 DEF MailInv, RepeatsFailed
  <2> QED BY <2>1, <2>2
<1> QED BY <1>6, <1>7, <1>8, <1>9 DEF MailInv

\* A step of one call's thread, or of its answer, is such a move.
LEMMA OneMoves ==
  ASSUME RemoteInv, MailInv, NEW i \in CallNumbers, NEW call \in Calls,
         remote' = [remote EXCEPT ![i] = call], began' = began,
         sentDrafts \subseteq sentDrafts',
         \A d \in sentDrafts' \ sentDrafts :
            remote[i].op = "send" /\ remote[i].thread = "done" /\ remote[i].item = d,
         Moves(remote[i], call, sentDrafts')
  PROVE  MailInv'
<1>1. remote'[i] = call /\ \A j \in CallNumbers \ {i} : remote'[j] = remote[j]
  BY DEF RemoteInv
<1>2. \A j \in CallNumbers : Moves(remote[j], remote'[j], sentDrafts')
  BY <1>1 DEF Moves
<1> QED BY <1>2, MovesKeep DEF RemoteInv

\* New calls.
LEMMA MailNewCalls ==
  ASSUME RemoteInv, MailInv,
         \/ \E d \in Drafts : SendAgain(d) \/ Send(d)
         \/ CreateEvent \/ CreateIssue \/ LookAtGitHub \/ LookAtMail \/ LookAtCalendar
         \/ \E e \in Events : NewChange(e)
  PROVE  MailInv'
<1> USE DEF NotCalled, Calls, Changes, Writes, Services, ThreadStages, mailVars
<1>1. ASSUME NEW d \in Drafts, SendAgain(d) PROVE MailInv'
  BY <1>1, NewCallKeeps DEF SendAgain, MaySend
<1>2. ASSUME NEW d \in Drafts, Send(d) PROVE MailInv'
  BY <1>2, NewCallKeeps DEF Send
<1>3. CASE CreateEvent
  BY <1>3, NewCallKeeps DEF CreateEvent
<1>4. CASE CreateIssue
  BY <1>4, NewCallKeeps DEF CreateIssue
<1>5. ASSUME NEW s \in Services, Looking(s) PROVE MailInv'
  BY <1>5, NewCallKeeps DEF Looking
<1>6. ASSUME NEW op \in Changes, NEW e \in Events, NEW wanted \in Approvals,
             NEW new \in Contents \cup {Absent}, Change(op, e, wanted, new)
      PROVE  MailInv'
  <2> DEFINE agreed == Agrees(op, wanted, calendar[e])
             call == [NotCalled EXCEPT !.op = op, !.item = e, !.wanted = wanted, !.new = new,
                                       !.thread = "reading", !.answer = "waiting",
                                       !.agreed = agreed]
  <2>1. Begin(call) /\ sentDrafts' = sentDrafts
    BY <1>6 DEF Change
  <2>2. agreed \in BOOLEAN
    BY DEF Agrees
  <2> HIDE DEF agreed
  <2>3. /\ call \in Calls /\ ~call.hit /\ call.thread = "reading" /\ call.answer = "waiting"
        /\ call.op = op
    BY <2>2
  <2> HIDE DEF call
  <2> QED BY <2>1, <2>3, NewCallKeeps
<1> QED BY <1>1, <1>2, <1>3, <1>4, <1>5, <1>6, ChangeBegins
        DEF LookAtGitHub, LookAtMail, LookAtCalendar

\* The threads.
LEMMA MailThreads ==
  ASSUME RemoteInv, MailInv, NEW i \in CallNumbers,
         \/ ThreadReads(i) \/ LogsIn(i) \/ OpensCalendar(i) \/ Requests(i)
         \/ ShowsMail(i) \/ ShowsEvents(i) \/ ShowsRepository(i)
         \/ AcceptsMail(i) \/ AddsEvent(i) \/ AddsIssue(i) \/ ThreadFails(i) \/ Confirmed(i)
  PROVE  MailInv'
<1>1. /\ remote[i] \in Calls /\ remote \in [CallNumbers -> Calls]
      /\ remote[i].thread \in {"reading", "read"} => remote[i].op \in Changes
      /\ calendar \in [Events -> Contents \cup {Absent}]
      /\ remote[i].op \in Changes => remote[i].item \in Events
  BY DEF RemoteInv, Agreement
<1>2. ASSUME NEW call \in Calls, remote' = [remote EXCEPT ![i] = call],
             UNCHANGED <<sentDrafts, began>>, Moves(remote[i], call, sentDrafts')
      PROVE  MailInv'
  BY <1>2, OneMoves
<1>4. CASE ThreadReads(i)
  <2> DEFINE call == [remote[i] EXCEPT !.thread = "read", !.saw = calendar[remote[i].item],
                                         !.hit = remote[i].hit]
  <2>1. /\ remote[i].thread = "reading" /\ remote[i].op # "send"
        /\ calendar[remote[i].item] \in Contents \cup {Absent}
    BY <1>1, <1>4 DEF ThreadReads, Changes
  <2>2. /\ call \in Calls /\ call.op = remote[i].op /\ call.item = remote[i].item
        /\ call.thread = "read" /\ call.hit = remote[i].hit /\ call.answer = remote[i].answer
    BY <1>1, <2>1 DEF Calls, ThreadStages, Replies
  <2>3. remote' = [remote EXCEPT ![i] = call] /\ UNCHANGED <<sentDrafts, began>>
    BY <1>1, <1>4 DEF ThreadReads, mailVars, Calls
  <2> HIDE DEF call
  <2>4. Moves(remote[i], call, sentDrafts')
    BY <2>1, <2>2 DEF Moves, Replies
  <2> QED BY <1>2, <2>2, <2>3, <2>4
<1>5. CASE Starts(i)
  <2> DEFINE call == [remote[i] EXCEPT !.thread = "started", !.saw = remote[i].saw,
                                         !.hit = remote[i].hit]
  <2>1. remote[i].thread = "starting"
    BY <1>5 DEF Starts
  <2>2. /\ call \in Calls /\ call.op = remote[i].op /\ call.item = remote[i].item
        /\ call.thread = "started" /\ call.hit = remote[i].hit /\ call.answer = remote[i].answer
    BY <1>1, <2>1 DEF Calls, ThreadStages, Replies
  <2>3. remote' = [remote EXCEPT ![i] = call] /\ UNCHANGED <<sentDrafts, began>>
    BY <1>1, <1>5 DEF Starts, Thread, mailVars, Calls
  <2> HIDE DEF call
  <2>4. Moves(remote[i], call, sentDrafts')
    BY <2>1, <2>2 DEF Moves, Replies
  <2> QED BY <1>2, <2>2, <2>3, <2>4
<1>6. ASSUME NEW s, Shows(i, s) PROVE MailInv'
  <2> DEFINE call == [remote[i] EXCEPT !.thread = "done", !.saw = remote[i].saw,
                                         !.hit = remote[i].hit]
  <2>1. remote[i].thread = "started" /\ remote[i].op \notin Writes
    BY <1>6 DEF Shows, Writes, Changes
  <2>2. /\ call \in Calls /\ call.op = remote[i].op /\ call.item = remote[i].item
        /\ call.thread = "done" /\ call.hit = remote[i].hit /\ call.answer = remote[i].answer
    BY <1>1, <2>1 DEF Calls, ThreadStages, Replies
  <2>3. remote' = [remote EXCEPT ![i] = call] /\ UNCHANGED <<sentDrafts, began>>
    BY <1>1, <1>6 DEF Shows, Thread, mailVars, Calls
  <2> HIDE DEF call
  <2>4. Moves(remote[i], call, sentDrafts')
    BY <2>1, <2>2 DEF Moves, Replies
  <2> QED BY <1>2, <2>2, <2>3, <2>4
<1>7. ASSUME NEW op, Takes(i, op) PROVE MailInv'
  <2>9. PICK outcome \in Replies :
            remote' = [remote EXCEPT ![i].hit = TRUE, ![i].thread = outcome]
    BY <1>7 DEF Takes
  <2> DEFINE call == [remote[i] EXCEPT !.thread = outcome, !.saw = remote[i].saw, !.hit = TRUE]
  <2>1. remote[i].thread = "started"
    BY <1>7 DEF Takes
  <2>2. /\ call \in Calls /\ call.op = remote[i].op /\ call.item = remote[i].item
        /\ call.thread = outcome /\ call.hit = TRUE /\ call.answer = remote[i].answer
    BY <1>1, <2>1 DEF Calls, ThreadStages, Replies
  <2>3. remote' = [remote EXCEPT ![i] = call] /\ UNCHANGED <<sentDrafts, began>>
    <3>1. UNCHANGED <<sentDrafts, began>>
      BY <1>7 DEF Takes, mailVars
    <3> QED BY <1>1, <2>9, <3>1 DEF Calls
  <2> HIDE DEF call
  <2>4. Moves(remote[i], call, sentDrafts')
    BY <2>1, <2>2 DEF Moves, Replies
  <2> QED BY <1>2, <2>2, <2>3, <2>4
<1>8. CASE ThreadFails(i)
  <2> DEFINE call == [remote[i] EXCEPT !.thread = "broken", !.saw = remote[i].saw,
                                         !.hit = remote[i].hit]
  <2>1. remote[i].thread \in {"reading", "starting", "started"}
    BY <1>8 DEF ThreadFails
  <2>2. /\ call \in Calls /\ call.op = remote[i].op /\ call.item = remote[i].item
        /\ call.thread = "broken" /\ call.hit = remote[i].hit /\ call.answer = remote[i].answer
    BY <1>1, <2>1 DEF Calls, ThreadStages, Replies
  <2>3. remote' = [remote EXCEPT ![i] = call] /\ UNCHANGED <<sentDrafts, began>>
    BY <1>1, <1>8 DEF ThreadFails, Thread, mailVars, Calls
  <2> HIDE DEF call
  <2>4. Moves(remote[i], call, sentDrafts')
    BY <2>1, <2>2 DEF Moves, Replies
  <2> QED BY <1>2, <2>2, <2>3, <2>4
<1>9. CASE Confirmed(i)
  <2> DEFINE call == [remote[i] EXCEPT !.thread = "starting", !.wanted = Absent, !.saw = Absent,
                                         !.hit = remote[i].hit]
  <2>1. remote[i].thread = "read" /\ remote[i].op # "send"
    BY <1>1, <1>9 DEF Confirmed, Changes
  <2>2. /\ call \in Calls /\ call.op = remote[i].op /\ call.item = remote[i].item
        /\ call.thread = "starting" /\ call.hit = remote[i].hit /\ call.answer = remote[i].answer
    BY <1>1, <2>1 DEF Calls, ThreadStages, Replies
  <2>3. remote' = [remote EXCEPT ![i] = call] /\ UNCHANGED <<sentDrafts, began>>
    BY <1>1, <1>9 DEF Confirmed, mailVars, Calls
  <2> HIDE DEF call
  <2>4. Moves(remote[i], call, sentDrafts')
    BY <2>1, <2>2 DEF Moves, Replies
  <2> QED BY <1>2, <2>2, <2>3, <2>4
<1> QED BY <1>4, <1>5, <1>6, <1>7, <1>8, <1>9
        DEF LogsIn, OpensCalendar, Requests, ShowsMail, ShowsEvents, ShowsRepository,
            AcceptsMail, AddsEvent, AddsIssue

\* The ends of calls.
LEMMA MailAnswers ==
  ASSUME RemoteInv, MailInv, NEW i \in CallNumbers, CallSucceeds(i) \/ CallFails(i)
  PROVE  MailInv'
<1>1. remote[i] \in Calls /\ remote \in [CallNumbers -> Calls]
  BY DEF RemoteInv
<1>2. ASSUME NEW answer \in {"success", "failure"},
             remote' = [remote EXCEPT ![i] = [Over(@) EXCEPT !.answer = answer]],
             remote[i].answer = "waiting", began' = began,
             sentDrafts' = IF answer = "success" /\ remote[i].op = "send"
                           THEN sentDrafts \cup {remote[i].item} ELSE sentDrafts,
             answer = "success" => remote[i].thread = "done"
      PROVE  MailInv'
  <2> DEFINE call == [Over(remote[i]) EXCEPT !.answer = answer]
  <2>1. /\ call \in Calls /\ call.op = remote[i].op /\ call.item = remote[i].item
        /\ call.thread = "over" /\ call.hit = remote[i].hit /\ call.answer = answer
    BY <1>1, ZenonT(40) DEF Calls, Over, ThreadStages
  <2>2. remote' = [remote EXCEPT ![i] = call]
    BY <1>1, <1>2
  <2>3. remote[i].thread # "none"
    BY <1>2 DEF MailInv, OneAtATime, RemoteInv, CallNumbers
  <2> HIDE DEF call
  <2>4. Moves(remote[i], call, sentDrafts')
    BY <1>2, <2>1, <2>3 DEF Moves
  <2> QED BY <1>2, <2>1, <2>2, <2>4, OneMoves
<1>3. CASE CallSucceeds(i)
  BY <1>2, <1>3 DEF CallSucceeds
<1>4. CASE CallFails(i)
  <2>1. CASE remote' = [remote EXCEPT ![i].answer = "failure"]
    <3> DEFINE call == [remote[i] EXCEPT !.answer = "failure"]
    <3>1. /\ call \in Calls /\ call.op = remote[i].op /\ call.item = remote[i].item
          /\ call.thread = remote[i].thread /\ call.hit = remote[i].hit
          /\ call.answer = "failure"
      BY <1>1 DEF Calls
    <3>2. remote' = [remote EXCEPT ![i] = call]
      BY <1>1, <2>1
    <3>3. remote[i].answer = "waiting" /\ sentDrafts' = sentDrafts /\ began' = began
      BY <1>4 DEF CallFails, mailVars
    <3> HIDE DEF call
    <3>4. Moves(remote[i], call, sentDrafts')
      BY <3>1, <3>3 DEF Moves
    <3> QED BY <3>1, <3>2, <3>3, <3>4, OneMoves
  <2>2. CASE remote' = [remote EXCEPT ![i] = [Over(@) EXCEPT !.answer = "failure"]]
    BY <1>2, <1>4, <2>2 DEF CallFails, mailVars
  <2> QED BY <1>4, <2>1, <2>2 DEF CallFails
<1> QED BY <1>3, <1>4

\* What the server or another client does to an event.
LEMMA MailCalendar ==
  ASSUME RemoteInv, MailInv, NEW e, NEW c, NEW i, NEW outcome \in ThreadStages,
         Becomes(e, c, i, outcome), UNCHANGED <<sentDrafts, began>>,
         i \in CallNumbers => /\ remote[i].thread = "started" /\ remote[i].op \in Changes
                              /\ outcome \in Replies
  PROVE  MailInv'
<1>1. ASSUME NEW j \in CallNumbers PROVE Moves(remote[j], remote'[j], sentDrafts')
  <2> DEFINE own == j = i
             stage == IF j = i THEN outcome ELSE remote[j].thread
             seen == j # i /\ AgreesNow(j, e, c)
             call == After(remote[j], own, stage, seen)
  <2>1. remote[j] \in Calls
    BY DEF RemoteInv
  <2>2. own \in BOOLEAN /\ seen \in BOOLEAN
    BY Zenon
  <2>3. stage \in ThreadStages
    BY <2>1 DEF Calls
  <2>4. remote'[j] = call
    BY DEF Becomes, After
  <2> HIDE DEF own, stage, seen
  <2>5. /\ call.op = remote[j].op /\ call.item = remote[j].item /\ call.thread = stage
        /\ (call.hit <=> own \/ remote[j].hit)
    BY <2>1, <2>2, <2>3, AfterFields
  <2>6. call.answer = remote[j].answer
    BY <2>1 DEF After, Calls
  <2> HIDE DEF call
  <2>7. CASE j = i
    <3>1. call.hit /\ stage \in Replies /\ remote[j].thread = "started" /\ remote[j].op # "send"
      BY <2>5, <2>7 DEF own, stage, Changes
    <3> QED BY <2>4, <2>5, <2>6, <3>1 DEF Moves, Replies
  <2>8. CASE j # i
    <3>1. (call.hit <=> remote[j].hit) /\ stage = remote[j].thread
      BY <2>5, <2>8 DEF own, stage
    <3> QED BY <2>4, <2>5, <2>6, <3>1 DEF Moves
  <2> QED BY <2>7, <2>8
<1> QED BY <1>1, MovesKeep DEF RemoteInv

\* Steps that change neither calls nor _sent.
LEMMA MailLinks ==
  ASSUME MailInv, UNCHANGED <<remote, began, sentDrafts>>
  PROVE  MailInv'
  BY DEF MailInv, DoneWhenAnswered, SentIsRecorded, OneAtATime, RepeatsFailed, Sent

\* Every step keeps the promise.
LEMMA MailStep ==
  ASSUME RemoteInv, MailInv, [RemoteNext]_remoteVars
  PROVE  MailInv'
<1>1. ASSUME NEW i \in CallNumbers, ServerUpdates(i) \/ ServerDeletes(i) PROVE MailInv'
  BY <1>1, MailCalendar DEF ServerUpdates, ServerDeletes, Replies, ThreadStages, Changes, mailVars
<1>2. ASSUME NEW e \in Events, OtherClient(e) PROVE MailInv'
  <2>1. 0 \notin CallNumbers /\ "none" \in ThreadStages
    BY DEF CallNumbers, ThreadStages
  <2> QED BY <1>2, <2>1, MailCalendar DEF OtherClient, mailVars
<1>3. CASE \/ ConnectMail \/ ConnectGitHub \/ ConnectCalendar
           \/ \E s \in Services : Verified(s) \/ NotVerified(s) \/ DisconnectLink(s) \/ CloseLink(s)
           \/ \E d \in Drafts : CreateDraft(d)
           \/ UNCHANGED remoteVars
  <2>1. UNCHANGED <<remote, began, sentDrafts>>
    BY <1>3 DEF ConnectMail, ConnectGitHub, ConnectCalendar, Connecting, Verified, NotVerified,
                DisconnectLink, CloseLink, CreateDraft, mailVars, remoteVars
  <2> QED BY <2>1, MailLinks
<1> QED BY <1>1, <1>2, <1>3, MailNewCalls, MailThreads, MailAnswers
        DEF RemoteNext, NewChange

\* send_email_draft claims success only of a draft that was sent, and sends one again only after
\* an earlier send of it was reported as failed; no other write is reported as done unless it is.
THEOREM RepeatsAreAnnounced == RemoteSpec => []RepeatsWereAnnounced
<1>1. MailInv => RepeatsWereAnnounced
  <2> SUFFICES ASSUME MailInv PROVE RepeatsWereAnnounced
    OBVIOUS
  <2>1. ASSUME NEW i \in CallNumbers, NEW j \in CallNumbers,
               i < j, Sent(i), Sent(j), remote[i].item = remote[j].item
        PROVE  remote[i].answer = "failure"
    BY <2>1 DEF MailInv, RepeatsFailed, MaySend, Sent
  <2> QED BY <2>1 DEF MailInv, DoneWhenAnswered, RepeatsWereAnnounced
<1> QED BY <1>1, RemoteInitInv, RemoteStep, MailInitInv, MailStep, PTL DEF RemoteSpec

----------------------------------------------------------------------------
(* The services as CallPromise has them.                                   *)

\* Nothing is done for a call until its thread has an answer, and it succeeds with its thread.
Coming == {"reading", "read", "starting", "started"}

ThreadsAct ==
    \A i \in CallNumbers :
        /\ remote[i].thread \in Coming \cup {"none"} => ~remote[i].hit
        /\ remote[i].answer = "success" => remote[i].thread = "over"

SameCall(old, new) ==
    /\ new.op = old.op /\ new.item = old.item /\ new.thread = old.thread
    /\ new.answer = old.answer /\ (new.hit <=> old.hit)

OnlyCall(i) == \A j \in CallNumbers \ {i} : SameCall(remote[j], remote'[j])

\* One call's step is a step of that call only.
LEMMA CallMapped ==
  ASSUME NEW i \in CallNumbers, OnlyCall(i)
  PROVE  /\ CallMatters' = [CallMatters EXCEPT ![i] = <<remote[i].op, remote[i].item>>']
         /\ CallEffects' = [CallEffects EXCEPT ![i] = CallEffect(remote[i])']
         /\ CallAnswers' = [CallAnswers EXCEPT ![i] = remote[i].answer']
<1>1. \A j \in CallNumbers \ {i} :
         /\ <<remote'[j].op, remote'[j].item>> = <<remote[j].op, remote[j].item>>
         /\ CallEffect(remote[j])' = CallEffect(remote[j])
         /\ remote'[j].answer = remote[j].answer
  BY DEF OnlyCall, SameCall, CallEffect
<1>2. CallMatters' = [CallMatters EXCEPT ![i] = <<remote[i].op, remote[i].item>>']
  BY <1>1 DEF CallMatters
<1>3. CallEffects' = [CallEffects EXCEPT ![i] = CallEffect(remote[i])']
  BY <1>1 DEF CallEffects
<1>4. CallAnswers' = [CallAnswers EXCEPT ![i] = remote[i].answer']
  BY <1>1 DEF CallAnswers
<1> QED BY <1>2, <1>3, <1>4

\* Where nothing is done, the servers are as they were.
LEMMA SameHits ==
  ASSUME NEW i \in CallNumbers, OnlyCall(i), remote'[i].hit <=> remote[i].hit
  PROVE  {j \in CallNumbers : remote'[j].hit} = {j \in CallNumbers : remote[j].hit}
<1>1. \A j \in CallNumbers : remote'[j].hit <=> remote[j].hit
  BY DEF OnlyCall, SameCall
<1> QED BY <1>1

\* A new call: its thread may act, or it repeats what was done.
LEMMA CallMade ==
  ASSUME RemoteInv, MailInv, ThreadsAct, NEW call \in Calls, Begin(call),
         call.op # "none", ~call.hit,
         \/ call.thread \in Coming /\ call.answer = "waiting"
         \/ /\ call.thread = "over" /\ call.answer = "success"
            /\ \E j \in CallNumbers :
                  remote[j].hit /\ remote[j].op = call.op /\ remote[j].item = call.item
  PROVE  RemotePromise!Next /\ ThreadsAct'
<1>1. PICK i : i = began + 1
  OBVIOUS
<1>2. i \in CallNumbers /\ i > began
  BY <1>1, RemoteConstants DEF Begin, RemoteInv, CallNumbers
<1>3. /\ remote'[i] = call /\ \A j \in CallNumbers \ {i} : remote'[j] = remote[j]
      /\ \A j \in CallNumbers : remote[j].answer # "waiting"
  BY <1>1, <1>2 DEF Begin, RemoteInv, Free
<1>4. remote[i].answer = "none" /\ remote[i].thread = "none" /\ ~remote[i].hit
  BY <1>2 DEF MailInv, OneAtATime
<1>5. OnlyCall(i)
  BY <1>3 DEF OnlyCall, SameCall
<1>6. CallAnswers[i] = "none" /\ \A j \in CallNumbers : CallAnswers[j] # "waiting"
  BY <1>2, <1>3, <1>4 DEF CallAnswers
<1>7. CallEffect(remote[i])' = IF call.answer = "success" THEN "done" ELSE "possible"
  BY <1>3 DEF CallEffect, Coming
<1>8. /\ CallMatters' = [CallMatters EXCEPT ![i] = <<call.op, call.item>>]
      /\ CallEffects' = [CallEffects EXCEPT
                           ![i] = IF call.answer = "success" THEN "done" ELSE "possible"]
      /\ CallAnswers' = [CallAnswers EXCEPT ![i] = call.answer]
  BY <1>2, <1>3, <1>5, <1>7, CallMapped
<1>9. <<call.op, call.item>> \in (Writes \cup {"look"})
                                   \X (Drafts \cup Events \cup Services \cup {Absent})
  BY DEF Calls
<1>10. ThreadsAct'
  BY <1>3 DEF ThreadsAct
<1>11. CASE call.thread \in Coming /\ call.answer = "waiting"
  <2>1. RemotePromise!Make(i)
    BY <1>6, <1>8, <1>9, <1>11
    DEF RemotePromise!Make, RemotePromise!Made, RemotePromise!Becomes
  <2> QED BY <1>2, <1>10, <2>1 DEF RemotePromise!Next
<1>12. CASE /\ call.thread = "over" /\ call.answer = "success"
            /\ \E j \in CallNumbers :
                  remote[j].hit /\ remote[j].op = call.op /\ remote[j].item = call.item
  <2>1. PICK j \in CallNumbers :
           remote[j].hit /\ remote[j].op = call.op /\ remote[j].item = call.item
    BY <1>12
  <2>2. CallEffects[j] = "done" /\ CallMatters[j] = <<call.op, call.item>>
    <3>1. remote[j].thread # "none"
      BY <2>1 DEF ThreadsAct
    <3> QED BY <2>1, <3>1 DEF CallEffects, CallEffect, CallMatters
  <2>3. CallMatters'[i] = <<call.op, call.item>>
    BY <1>2, <1>8 DEF CallMatters
  <2>4. {k \in CallNumbers : remote'[k].hit} = {k \in CallNumbers : remote[k].hit}
    BY <1>2, <1>3, <1>4, <1>5, SameHits
  <2>5. \E k \in CallNumbers : CallEffects[k] = "done" /\ CallMatters[k] = CallMatters'[i]
    BY <2>2, <2>3
  <2>6. CallAnswers' = [CallAnswers EXCEPT ![i] = "success"]
        /\ CallEffects' = [CallEffects EXCEPT ![i] = "done"]
    BY <1>8, <1>12
  <2>7. RemotePromise!Made(i, "done", "success")
    BY <1>6, <1>8, <1>9, <2>6 DEF RemotePromise!Made, RemotePromise!Becomes
  <2>8. RemotePromise!Repeat(i)
    BY <2>4, <2>5, <2>7 DEF RemotePromise!Repeat
  <2> QED BY <1>2, <1>10, <2>8 DEF RemotePromise!Next
<1> QED BY <1>11, <1>12

\* A thread's step.
LEMMA CallActs ==
  ASSUME ThreadsAct, NEW i \in CallNumbers, OnlyCall(i),
         remote[i].thread \in Coming, remote'[i].thread \in Coming \cup {"done", "broken"},
         remote'[i].op = remote[i].op, remote'[i].item = remote[i].item,
         remote'[i].answer = remote[i].answer,
         remote'[i].hit => remote[i].hit \/ remote'[i].thread \in Replies
  PROVE  RemotePromise!Next /\ ThreadsAct'
<1>1. ~remote[i].hit /\ remote[i].answer # "success" /\ remote[i].thread # "none"
  BY DEF ThreadsAct, Coming
<1>2. CallMatters' = CallMatters /\ CallAnswers' = CallAnswers
  <2>1. \A j \in CallNumbers :
           /\ <<remote'[j].op, remote'[j].item>> = <<remote[j].op, remote[j].item>>
           /\ remote'[j].answer = remote[j].answer
    BY DEF OnlyCall, SameCall
  <2> QED BY <2>1 DEF CallMatters, CallAnswers
<1>3. CallEffects[i] = "possible" /\ CallEffect(remote[i])' \in {"possible", "done", "over"}
  BY <1>1 DEF CallEffects, CallEffect, Coming
<1>4. CallEffects' = [CallEffects EXCEPT ![i] = CallEffect(remote[i])']
  BY CallMapped
<1>5. RemotePromise!Act(i)
  BY <1>2, <1>3, <1>4 DEF RemotePromise!Act, RemotePromise!Goes, RemotePromise!Becomes
<1>6. ThreadsAct'
  BY <1>1 DEF ThreadsAct, OnlyCall, SameCall, Coming, Replies
<1> QED BY <1>5, <1>6 DEF RemotePromise!Next

\* The threads that leave the calendar alone.
LEMMA CallThreads ==
  ASSUME RemoteInv, ThreadsAct, NEW i \in CallNumbers,
         \/ ThreadReads(i) \/ LogsIn(i) \/ OpensCalendar(i) \/ Requests(i)
         \/ ShowsMail(i) \/ ShowsEvents(i) \/ ShowsRepository(i)
         \/ AcceptsMail(i) \/ AddsEvent(i) \/ AddsIssue(i) \/ ThreadFails(i) \/ Confirmed(i)
  PROVE  RemotePromise!Next /\ ThreadsAct'
<1>1. remote[i] \in Calls /\ remote \in [CallNumbers -> Calls]
  BY DEF RemoteInv
<1>2. ASSUME NEW call, remote' = [remote EXCEPT ![i] = call],
             call.op = remote[i].op, call.item = remote[i].item, call.answer = remote[i].answer,
             remote[i].thread \in Coming, call.thread \in Coming \cup {"done", "broken"},
             (call.hit <=> remote[i].hit) \/ call.thread \in Replies
      PROVE  RemotePromise!Next /\ ThreadsAct'
  <2>1. remote'[i] = call /\ \A j \in CallNumbers \ {i} : remote'[j] = remote[j]
    BY <1>1, <1>2
  <2>2. OnlyCall(i)
    BY <2>1 DEF OnlyCall, SameCall
  <2> QED BY <1>2, <2>1, <2>2, CallActs
<1>3. CASE ThreadReads(i)
  <2> DEFINE call == [remote[i] EXCEPT !.thread = "read", !.saw = calendar[remote[i].item]]
  <2>1. remote' = [remote EXCEPT ![i] = call] /\ remote[i].thread = "reading"
    BY <1>1, <1>3 DEF ThreadReads
  <2>2. /\ call.op = remote[i].op /\ call.item = remote[i].item
        /\ call.answer = remote[i].answer /\ call.thread = "read" /\ call.hit = remote[i].hit
    BY <1>1 DEF Calls
  <2> HIDE DEF call
  <2> QED BY <1>2, <2>1, <2>2 DEF Coming
<1>4. ASSUME NEW stage \in {"started", "done", "broken"}, Thread(i, stage),
             remote[i].thread \in {"reading", "starting", "started"}
      PROVE  RemotePromise!Next /\ ThreadsAct'
  <2> DEFINE call == [remote[i] EXCEPT !.thread = stage]
  <2>1. remote' = [remote EXCEPT ![i] = call]
    BY <1>1, <1>4 DEF Thread
  <2>2. /\ call.op = remote[i].op /\ call.item = remote[i].item
        /\ call.answer = remote[i].answer /\ call.thread = stage /\ call.hit = remote[i].hit
    BY <1>1 DEF Calls
  <2> HIDE DEF call
  <2> QED BY <1>2, <1>4, <2>1, <2>2 DEF Coming
<1>5. ASSUME NEW op, Takes(i, op) PROVE RemotePromise!Next /\ ThreadsAct'
  <2>1. PICK outcome \in Replies :
           remote' = [remote EXCEPT ![i].hit = TRUE, ![i].thread = outcome]
    BY <1>5 DEF Takes
  <2> DEFINE call == [remote[i] EXCEPT !.hit = TRUE, !.thread = outcome]
  <2>2. remote' = [remote EXCEPT ![i] = call] /\ remote[i].thread = "started"
    BY <1>1, <1>5, <2>1 DEF Takes
  <2>3. /\ call.op = remote[i].op /\ call.item = remote[i].item
        /\ call.answer = remote[i].answer /\ call.thread = outcome
    BY <1>1 DEF Calls
  <2> HIDE DEF call
  <2> QED BY <1>2, <2>2, <2>3 DEF Coming, Replies
<1>6. CASE Confirmed(i)
  <2> DEFINE call == [remote[i] EXCEPT !.thread = "starting", !.wanted = Absent, !.saw = Absent]
  <2>1. remote' = [remote EXCEPT ![i] = call] /\ remote[i].thread = "read"
    BY <1>1, <1>6 DEF Confirmed
  <2>2. /\ call.op = remote[i].op /\ call.item = remote[i].item
        /\ call.answer = remote[i].answer /\ call.thread = "starting"
        /\ call.hit = remote[i].hit
    BY <1>1 DEF Calls
  <2> HIDE DEF call
  <2> QED BY <1>2, <2>1, <2>2 DEF Coming
<1> QED BY <1>3, <1>4, <1>5, <1>6
        DEF LogsIn, OpensCalendar, Requests, Starts, ShowsMail, ShowsEvents, ShowsRepository,
            Shows, AcceptsMail, AddsEvent, AddsIssue, ThreadFails

\* A change of the calendar by call i, or by another client (0), as all calls see it.
LEMMA CalendarMoves ==
  ASSUME RemoteInv, NEW e, NEW c, NEW i, NEW outcome \in ThreadStages,
         Becomes(e, c, i, outcome), NEW j \in CallNumbers
  PROVE  /\ remote'[j].op = remote[j].op /\ remote'[j].item = remote[j].item
         /\ remote'[j].answer = remote[j].answer
         /\ j # i => SameCall(remote[j], remote'[j])
         /\ j = i => remote'[j].thread = outcome
<1> DEFINE own == j = i
           stage == IF j = i THEN outcome ELSE remote[j].thread
           seen == j # i /\ AgreesNow(j, e, c)
           call == After(remote[j], own, stage, seen)
<1>1. remote[j] \in Calls
  BY DEF RemoteInv
<1>2. own \in BOOLEAN /\ seen \in BOOLEAN
  BY Zenon
<1>3. stage \in ThreadStages
  BY <1>1 DEF Calls
<1>4. remote'[j] = call
  BY DEF Becomes, After
<1> HIDE DEF own, stage, seen
<1>5. /\ call.op = remote[j].op /\ call.item = remote[j].item /\ call.thread = stage
      /\ (call.hit <=> own \/ remote[j].hit)
  BY <1>1, <1>2, <1>3, AfterFields
<1>6. call.answer = remote[j].answer
  BY <1>1 DEF After, Calls
<1> HIDE DEF call
<1> QED BY <1>4, <1>5, <1>6 DEF own, stage, SameCall

\* The answers.
LEMMA CallAnswered ==
  ASSUME RemoteInv, MailInv, ThreadsAct, NEW i \in CallNumbers, CallSucceeds(i) \/ CallFails(i)
  PROVE  RemotePromise!Next /\ ThreadsAct'
<1>1. /\ remote[i] \in Calls /\ remote \in [CallNumbers -> Calls]
      /\ remote[i].answer = "waiting" /\ remote[i].thread # "none"
  BY DEF RemoteInv, MailInv, OneAtATime, CallSucceeds, CallFails, CallNumbers
<1>2. CallAnswers[i] = "waiting" /\ CallEffects[i] = CallEffect(remote[i])
  BY <1>1 DEF CallAnswers, CallEffects
<1>3. ASSUME NEW call, remote' = [remote EXCEPT ![i] = call], call.answer \in {"success", "failure"},
             call.op = remote[i].op, call.item = remote[i].item, call.hit <=> remote[i].hit,
             call.thread \in {"over", remote[i].thread},
             call.answer = "success" => remote[i].thread = "done" /\ call.thread = "over"
      PROVE  RemotePromise!Next /\ ThreadsAct'
  <2>1. remote'[i] = call /\ \A j \in CallNumbers \ {i} : remote'[j] = remote[j]
    BY <1>1, <1>3
  <2>2. OnlyCall(i)
    BY <2>1 DEF OnlyCall, SameCall
  <2>3. /\ CallMatters' = [CallMatters EXCEPT ![i] = <<call.op, call.item>>]
        /\ CallEffects' = [CallEffects EXCEPT ![i] = CallEffect(remote[i])']
        /\ CallAnswers' = [CallAnswers EXCEPT ![i] = call.answer]
    BY <2>1, <2>2, CallMapped
  <2>4. CallMatters' = CallMatters
    BY <1>3, <2>3 DEF CallMatters
  <2>5. {j \in CallNumbers : remote'[j].hit} = {j \in CallNumbers : remote[j].hit}
    BY <1>3, <2>1, <2>2, SameHits
  <2>6. /\ \/ CallEffect(remote[i])' = CallEffect(remote[i])
           \/ CallEffect(remote[i]) = "possible" /\ CallEffect(remote[i])' \in {"done", "over"}
        /\ call.answer = "success" => CallEffect(remote[i])' = "done"
    <3>1. /\ remote'[i].thread \in {"over", remote[i].thread}
          /\ (remote'[i].hit <=> remote[i].hit) /\ remote'[i].answer = call.answer
          /\ call.answer = "success" => remote'[i].thread = "over"
      BY <1>3, <2>1
    <3>2. CallEffect(remote[i])' = CallEffect(remote'[i])
      OBVIOUS
    <3>3. CASE remote[i].hit
      BY <1>1, <3>1, <3>2, <3>3 DEF CallEffect
    <3>4. CASE ~remote[i].hit
      BY <1>1, <1>3, <3>1, <3>2, <3>4 DEF CallEffect
    <3> QED BY <3>3, <3>4
  <2>7. RemotePromise!Goes(i) \/ RemotePromise!Rests
    <3>1. CASE CallEffect(remote[i])' = CallEffect(remote[i])
      <4>1. CallEffects' = CallEffects
        BY <1>2, <2>3, <3>1 DEF CallEffects
      <4> QED BY <2>5, <4>1 DEF RemotePromise!Rests
    <3>2. CASE CallEffect(remote[i]) = "possible" /\ CallEffect(remote[i])' \in {"done", "over"}
      BY <1>2, <2>3, <3>2 DEF RemotePromise!Goes, RemotePromise!Becomes
    <3> QED BY <2>6, <3>1, <3>2
  <2>8. CASE call.answer = "success"
    <3>1. CallEffects'[i] = "done"
      BY <2>3, <2>6, <2>8 DEF CallEffects
    <3>2. RemotePromise!Succeed(i)
      BY <1>2, <2>3, <2>4, <2>7, <2>8, <3>1 DEF RemotePromise!Succeed, RemotePromise!Becomes
    <3> QED BY <1>3, <2>1, <2>8, <3>2 DEF RemotePromise!Next, ThreadsAct, Coming
  <2>9. CASE call.answer = "failure"
    <3>1. RemotePromise!Fail(i)
      BY <1>2, <2>3, <2>4, <2>7, <2>9 DEF RemotePromise!Fail, RemotePromise!Becomes
    <3>2. ThreadsAct'
      BY <1>3, <2>1, <2>9 DEF ThreadsAct, Coming
    <3> QED BY <3>1, <3>2 DEF RemotePromise!Next
  <2> QED BY <1>3, <2>8, <2>9
<1>4. ASSUME NEW answer \in {"success", "failure"},
             remote' = [remote EXCEPT ![i] = [Over(@) EXCEPT !.answer = answer]],
             answer = "success" => remote[i].thread = "done"
      PROVE  RemotePromise!Next /\ ThreadsAct'
  <2> DEFINE call == [Over(remote[i]) EXCEPT !.answer = answer]
  <2>1. /\ call.op = remote[i].op /\ call.item = remote[i].item
        /\ call.thread = "over" /\ call.hit = remote[i].hit /\ call.answer = answer
    BY <1>1, ZenonT(40) DEF Calls, Over
  <2>2. remote' = [remote EXCEPT ![i] = call]
    BY <1>1, <1>4
  <2> HIDE DEF call
  <2> QED BY <1>3, <1>4, <2>1, <2>2
<1>5. CASE CallSucceeds(i)
  BY <1>4, <1>5 DEF CallSucceeds
<1>6. CASE remote' = [remote EXCEPT ![i].answer = "failure"]
  <2> DEFINE call == [remote[i] EXCEPT !.answer = "failure"]
  <2>1. /\ call.op = remote[i].op /\ call.item = remote[i].item
        /\ call.thread = remote[i].thread /\ call.hit = remote[i].hit /\ call.answer = "failure"
    BY <1>1 DEF Calls
  <2>2. remote' = [remote EXCEPT ![i] = call]
    BY <1>1, <1>6
  <2> HIDE DEF call
  <2> QED BY <1>3, <2>1, <2>2
<1>7. CASE remote' = [remote EXCEPT ![i] = [Over(@) EXCEPT !.answer = "failure"]]
  BY <1>4, <1>7
<1> QED BY <1>5, <1>6, <1>7 DEF CallFails

\* Every step of the services is one of the promise, or none.
LEMMA RemotePromiseStep ==
  ASSUME RemoteInv, MailInv, ThreadsAct, [RemoteNext]_remoteVars
  PROVE  [RemotePromise!Next]_(RemotePromise!vars) /\ ThreadsAct'
<1> USE DEF NotCalled, Calls, Changes, Writes, Services, ThreadStages, Coming
<1>1. ASSUME NEW d \in Drafts, SendAgain(d) PROVE RemotePromise!Next /\ ThreadsAct'
  <2>1. PICK j \in 1 .. began : Sent(j) /\ remote[j].item = d
    BY <1>1 DEF SendAgain, MailInv, SentIsRecorded
  <2>2. j \in CallNumbers
    BY RemoteConstants DEF RemoteInv, CallNumbers
  <2> DEFINE call == [NotCalled EXCEPT !.op = "send", !.item = d, !.thread = "over",
                                       !.answer = "success"]
  <2>3. /\ call \in Calls /\ call.op = "send" /\ call.item = d /\ ~call.hit
        /\ call.thread = "over" /\ call.answer = "success"
    OBVIOUS
  <2>4. Begin(call)
    BY <1>1 DEF SendAgain
  <2> HIDE DEF call
  <2> QED BY <2>1, <2>2, <2>3, <2>4, CallMade DEF Sent
<1>2. ASSUME NEW op \in {"send", "create", "issue", "look"},
             NEW item \in Drafts \cup Services \cup {Absent},
             Begin([NotCalled EXCEPT !.op = op, !.item = item, !.thread = "starting",
                                     !.answer = "waiting"])
      PROVE  RemotePromise!Next /\ ThreadsAct'
  <2> DEFINE call == [NotCalled EXCEPT !.op = op, !.item = item, !.thread = "starting",
                                       !.answer = "waiting"]
  <2>1. /\ call \in Calls /\ call.op # "none" /\ ~call.hit
        /\ call.thread = "starting" /\ call.answer = "waiting"
    OBVIOUS
  <2>2. Begin(call)
    BY <1>2
  <2> HIDE DEF call
  <2> QED BY <2>1, <2>2, CallMade
<1>3. ASSUME NEW d \in Drafts, Send(d) PROVE RemotePromise!Next /\ ThreadsAct'
  BY <1>2, <1>3 DEF Send
<1>4. CASE CreateEvent \/ CreateIssue
  <2>1. PICK op \in {"create", "issue"} :
           Begin([NotCalled EXCEPT !.op = op, !.thread = "starting", !.answer = "waiting"])
    BY <1>4 DEF CreateEvent, CreateIssue
  <2> DEFINE call == [NotCalled EXCEPT !.op = op, !.thread = "starting", !.answer = "waiting"]
  <2>2. /\ call \in Calls /\ call.op # "none" /\ ~call.hit
        /\ call.thread = "starting" /\ call.answer = "waiting"
    OBVIOUS
  <2>3. Begin(call)
    BY <2>1
  <2> HIDE DEF call
  <2> QED BY <2>2, <2>3, CallMade
<1>5. CASE LookAtGitHub \/ LookAtMail \/ LookAtCalendar
  BY <1>2, <1>5 DEF LookAtGitHub, LookAtMail, LookAtCalendar, Looking
<1>6. ASSUME NEW op \in Changes, NEW e \in Events, NEW wanted \in Approvals,
             NEW new \in Contents \cup {Absent}, Change(op, e, wanted, new)
      PROVE  RemotePromise!Next /\ ThreadsAct'
  <2> DEFINE agreed == Agrees(op, wanted, calendar[e])
             call == [NotCalled EXCEPT !.op = op, !.item = e, !.wanted = wanted, !.new = new,
                                       !.thread = "reading", !.answer = "waiting",
                                       !.agreed = agreed]
  <2>1. Begin(call)
    BY <1>6 DEF Change
  <2>2. agreed \in BOOLEAN
    BY DEF Agrees
  <2> HIDE DEF agreed
  <2>3. /\ call \in Calls /\ call.op # "none" /\ ~call.hit
        /\ call.thread = "reading" /\ call.answer = "waiting"
    BY <2>2
  <2> HIDE DEF call
  <2> QED BY <2>1, <2>3, CallMade
<1>7. ASSUME NEW i \in CallNumbers, ServerUpdates(i) \/ ServerDeletes(i)
      PROVE  RemotePromise!Next /\ ThreadsAct'
  <2>1. PICK outcome \in Replies : \E c : Becomes(remote[i].item, c, i, outcome)
    BY <1>7 DEF ServerUpdates, ServerDeletes
  <2>2. remote[i].thread = "started"
    BY <1>7 DEF ServerUpdates, ServerDeletes
  <2>3. outcome \in ThreadStages
    BY DEF Replies
  <2>4. OnlyCall(i)
    BY <2>1, <2>3, CalendarMoves DEF OnlyCall
  <2>5. /\ remote'[i].op = remote[i].op /\ remote'[i].item = remote[i].item
        /\ remote'[i].answer = remote[i].answer /\ remote'[i].thread = outcome
    BY <2>1, <2>3, CalendarMoves
  <2> QED BY <2>2, <2>4, <2>5, CallActs DEF Replies
<1>8. ASSUME \A j \in CallNumbers : SameCall(remote[j], remote'[j])
      PROVE  UNCHANGED (RemotePromise!vars) /\ ThreadsAct'
  <2>1. \A j \in CallNumbers :
           /\ <<remote'[j].op, remote'[j].item>> = <<remote[j].op, remote[j].item>>
           /\ CallEffect(remote[j])' = CallEffect(remote[j])
           /\ remote'[j].answer = remote[j].answer
    BY <1>8 DEF SameCall, CallEffect
  <2>2. CallMatters' = CallMatters /\ CallEffects' = CallEffects /\ CallAnswers' = CallAnswers
    BY <2>1 DEF CallMatters, CallEffects, CallAnswers
  <2>3. {j \in CallNumbers : remote'[j].hit} = {j \in CallNumbers : remote[j].hit}
    BY <1>8 DEF SameCall
  <2>4. ThreadsAct'
    BY <1>8 DEF ThreadsAct, SameCall
  <2> QED BY <2>2, <2>3, <2>4 DEF RemotePromise!vars
<1>9. ASSUME NEW e \in Events, OtherClient(e) PROVE \A j \in CallNumbers : SameCall(remote[j], remote'[j])
  <2>1. PICK c : Becomes(e, c, 0, "none")
    BY <1>9 DEF OtherClient
  <2>2. \A j \in CallNumbers : j # 0
    BY DEF CallNumbers
  <2> QED BY <2>1, <2>2, CalendarMoves
<1>10. CASE \/ ConnectMail \/ ConnectGitHub \/ ConnectCalendar
            \/ \E s \in Services : Verified(s) \/ NotVerified(s) \/ DisconnectLink(s) \/ CloseLink(s)
            \/ \E d \in Drafts : CreateDraft(d)
            \/ UNCHANGED remoteVars
  <2>1. remote' = remote
    BY <1>10 DEF ConnectMail, ConnectGitHub, ConnectCalendar, Connecting, Verified, NotVerified,
                 DisconnectLink, CloseLink, CreateDraft, remoteVars
  <2>2. \A j \in CallNumbers : SameCall(remote[j], remote'[j])
    BY <2>1 DEF SameCall
  <2> QED BY <1>8, <2>2
<1> QED
  BY <1>1, <1>3, <1>4, <1>5, <1>6, <1>7, <1>8, <1>9, <1>10, ChangeBegins, CallThreads,
     CallAnswered
  DEF RemoteNext, NewChange

\* At the start no call was made, and no server has done anything for one.
LEMMA RemoteInitPromised == RemoteInit => RemotePromise!Init /\ ThreadsAct
  BY DEF RemoteInit, NothingCalled, NotCalled, RemotePromise!Init, CallMatters, CallEffects,
         CallEffect, CallAnswers, ThreadsAct

\* The mail, calendar and repository actions implement CallPromise: a server does a thing at
\* most once for a call and never after its thread has ended, a call that was given up may
\* still do it, and success is answered of what was done, a draft's also by an earlier call.
THEOREM RemoteCallsImplemented == RemoteSpec => RemoteCallsAsPromised
<1>1. RemoteInit => RemotePromise!Init /\ ThreadsAct
  BY RemoteInitPromised
<1>2. RemoteInv /\ MailInv /\ ThreadsAct /\ [RemoteNext]_remoteVars
        => [RemotePromise!Next]_(RemotePromise!vars) /\ ThreadsAct'
  BY RemotePromiseStep
<1> QED
  BY <1>1, <1>2, RemoteInitInv, RemoteStep, MailInitInv, MailStep, PTL
  DEF RemoteSpec, RemoteCallsAsPromised, RemotePromise!Spec

----------------------------------------------------------------------------
(* The three parts, as they are explored together.                         *)

CallsInv ==
    /\ part = "remote" => RemoteInv /\ SessionTypes /\ MailInv /\ ThreadsAct
    /\ part = "memory" => MemoryInv /\ ProgramTypes
    /\ part = "desktop" => DesktopInv /\ WorldTypes

\* The part that is explored starts as it does alone.
LEMMA CallsInitInv == CallsInit => CallsInv
<1> SUFFICES ASSUME CallsInit PROVE CallsInv
  OBVIOUS
<1>1. /\ MemoryInit
      /\ part = "remote" => RemoteInit
      /\ part = "desktop" => DesktopInit
  BY DEF CallsInit, SomeDesktop, SomeEvents
<1> QED
  BY <1>1, RemoteInitInv, RemoteTyped, MailInitInv, RemoteInitPromised, MemoryInitInv,
     MemoryTyped, DesktopInitInv, DesktopTyped
  DEF CallsInv

\* It goes on as it does alone.
LEMMA CallsPart ==
  ASSUME [CallsNext /\ UNCHANGED part]_<<part, callVars>>
  PROVE  /\ part' = part
         /\ part = "remote" => [RemoteNext]_remoteVars
         /\ part = "memory" => [MemoryNext]_memoryVars
         /\ part = "desktop" => [DesktopNext]_desktopVars
BY DEF CallsNext, callVars

LEMMA CallsStepKeeps ==
  ASSUME CallsInv, [CallsNext /\ UNCHANGED part]_<<part, callVars>>
  PROVE  CallsInv'
BY CallsPart, RemoteStep, SessionTypesStep, MailStep, RemotePromiseStep, MemoryStep,
   ProgramTypesStep, DesktopStep, WorldTypesStep
DEF CallsInv

\* Every step of it is one of the promise, or none.
LEMMA CallsPromiseStep ==
  ASSUME CallsInv, [CallsNext /\ UNCHANGED part]_<<part, callVars>>
  PROVE  /\ part = "remote" => [RemotePromise!Next]_(RemotePromise!vars)
         /\ part = "memory" => [MemoryPromise!Next]_(MemoryPromise!vars)
         /\ part = "desktop" => [DesktopPromise!Next]_(DesktopPromise!vars)
BY CallsPart, RemotePromiseStep, RequestsStep, DeskPromiseStep DEF CallsInv

\* At the start of any part no call was made.
LEMMA CallsInitPromised ==
  CallsInit \/ CallsAtRest => RemotePromise!Init /\ MemoryPromise!Init /\ DesktopPromise!Init
<1> SUFFICES ASSUME CallsInit \/ CallsAtRest
             PROVE  RemotePromise!Init /\ MemoryPromise!Init /\ DesktopPromise!Init
  OBVIOUS
<1>1. NothingCalled /\ MemoryInit /\ desk = [i \in DeskNumbers |-> NotAsked]
  BY DEF CallsInit, CallsAtRest, RemoteInit, RemoteAtRest, SomeEvents, SomeDesktop, DesktopInit,
         DesktopAtRest
<1>2. RemotePromise!Init
  BY <1>1
  DEF NothingCalled, NotCalled, RemotePromise!Init, CallMatters, CallEffects, CallEffect,
      CallAnswers
<1>3. MemoryPromise!Init
  BY <1>1
  DEF MemoryInit, MemoryPromise!Init, RequestMatters, RequestEffects, RequestEffect,
      RequestAnswers, NotRequested
<1>4. DesktopPromise!Init
  BY <1>1 DEF DesktopPromise!Init, DeskMatters, DeskEffects, DeskEffect, DeskAnswers, NotAsked
<1> QED BY <1>2, <1>3, <1>4

\* The invariants give the types.
LEMMA CallsTyped == CallsInv => CallsTypeOK
  BY RemoteTyped, MemoryTyped, DesktopTyped DEF CallsInv, CallsTypeOK
=============================================================================
