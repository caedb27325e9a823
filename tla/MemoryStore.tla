------------------------------ MODULE MemoryStore ------------------------------
(***************************************************************************)
(* What the user asked to be remembered and forgotten: the memory actions  *)
(* (src/jarvis/actions.py) and the SQLite repository under them            *)
(* (src/jarvis/memory/storage.py).  Requests are made one after the other; *)
(* each runs in a worker thread, which goes on when its request is         *)
(* cancelled or times out.  Threads take the repository's lock in any      *)
(* order.  The program may stop between any two transactions and start     *)
(* again on the same file.                                                 *)
(***************************************************************************)
EXTENDS Integers

CONSTANTS
    Spellings,      \* keys as a request may write them
    Rows,           \* rows of the unique index: category and normalised key
    RowOf,          \* the row a spelling belongs to (_prepare_key)
    Categories, Category,
    MaxRequests,    \* BOUND: requests
    MaxStarts       \* BOUND: starts of the program

ASSUME MemoryConstants ==
    /\ RowOf \in [Spellings -> Rows]
    /\ Category \in [Rows -> Categories]
    /\ MaxRequests \in Nat /\ MaxStarts \in Nat \ {0}

RequestNumbers == 1 .. MaxRequests

VARIABLES
    memories,   \* the request whose value a row has, 0 where there is no row
    storeOpen,  \* ~_closed
    starts,
    requests,   \* the requests so far and what their threads do
    requested   \* how many there are

memoryVars == <<memories, storeOpen, starts, requests, requested>>
programVars == <<storeOpen, starts>>

\* History: `after`, the requests that had been answered with success when this one was made.
NotRequested == [op |-> "none", keys |-> {}, scope |-> {}, worker |-> "none", answer |-> "none",
                 after |-> {}]

\* The row of the unique index that a spelling of a key belongs to.
RowFor(s) == RowOf[s]

AnsweredRequests == {i \in RequestNumbers : requests[i].answer = "success"}
Waiting == {i \in RequestNumbers : requests[i].answer = "waiting"}

MemoryInit ==
    /\ memories = [m \in Rows |-> 0]
    /\ storeOpen = TRUE /\ starts = 1
    /\ requests = [i \in RequestNumbers |-> NotRequested] /\ requested = 0

----------------------------------------------------------------------------
MemoryRequest(op, keys, scope) ==
    /\ Waiting = {} /\ requested < MaxRequests
    /\ requested' = requested + 1
    /\ requests' = [requests EXCEPT ![requested + 1] =
                      [op |-> op, keys |-> keys, scope |-> scope, worker |-> "queued",
                       answer |-> "waiting", after |-> AnsweredRequests]]
    /\ UNCHANGED <<memories, programVars>>

Remember(s) == MemoryRequest("remember", {s}, {RowFor(s)})
Forget(s) == MemoryRequest("forget", {s}, {RowFor(s)})
\* All memories, or those of a category.
Clear == \/ MemoryRequest("clear", {}, Rows)
         \/ \E c \in Categories : MemoryRequest("clear", {}, {m \in Rows : Category[m] = c})
\* recall_memory, list_memories, search_memories.
Recall == MemoryRequest("recall", {}, {})

----------------------------------------------------------------------------
(* The threads, one at a time and only while the repository is open.       *)

Runs(i, op) == requests[i].worker = "queued" /\ requests[i].op = op /\ storeOpen
Done(i) == requests' = [requests EXCEPT ![i].worker = "done"]

Upsert(i) ==
    /\ Runs(i, "remember")
    /\ \E s \in requests[i].keys : memories' = [memories EXCEPT ![RowFor(s)] = i]
    /\ Done(i)
    /\ UNCHANGED <<programVars, requested>>

\* Variant: the row is looked for by the key as it was written.
DeleteSpelling(i) ==
    /\ Runs(i, "forget")
    /\ memories' = [m \in Rows |->
                      IF memories[m] # 0 /\ requests[memories[m]].keys = requests[i].keys THEN 0
                      ELSE memories[m]]
    /\ Done(i)
    /\ UNCHANGED <<programVars, requested>>

DeleteRow(i) ==
    /\ Runs(i, "forget")
    /\ \E s \in requests[i].keys : memories' = [memories EXCEPT ![RowFor(s)] = 0]
    /\ Done(i)
    /\ UNCHANGED <<programVars, requested>>

DeleteAll(i) ==
    /\ Runs(i, "clear")
    /\ memories' = [m \in Rows |-> IF m \in requests[i].scope THEN 0 ELSE memories[m]]
    /\ Done(i)
    /\ UNCHANGED <<programVars, requested>>

Select(i) ==
    /\ Runs(i, "recall")
    /\ Done(i)
    /\ UNCHANGED <<memories, programVars, requested>>

\* The repository is closed, or SQLite reports an error and the transaction is undone.
RequestRaises(i) ==
    /\ requests[i].worker = "queued"
    /\ requests' = [requests EXCEPT ![i].worker = "raised"]
    /\ UNCHANGED <<memories, programVars, requested>>

----------------------------------------------------------------------------
(* The requests.                                                           *)

\* Variant: the thread is not waited for.
SucceedsEarly(i) ==
    /\ i \in Waiting /\ requests[i].worker \in {"queued", "done"}
    /\ requests' = [requests EXCEPT ![i].answer = "success"]
    /\ UNCHANGED <<memories, programVars, requested>>

\* The thread is done, and the event, if there is one, was published.
RequestSucceeds(i) ==
    /\ i \in Waiting /\ requests[i].worker = "done"
    /\ requests' = [requests EXCEPT ![i].answer = "success"]
    /\ UNCHANGED <<memories, programVars, requested>>

\* The thread raised, or the request is cancelled or times out, while it waits or publishes;
\* a thread that has not begun is then dropped or begins all the same.
RequestFails(i) ==
    /\ i \in Waiting
    /\ \/ requests' = [requests EXCEPT ![i].answer = "failure"]
       \/ /\ requests[i].worker = "queued"
          /\ requests' = [requests EXCEPT ![i].answer = "failure", ![i].worker = "dropped"]
    /\ UNCHANGED <<memories, programVars, requested>>

CloseStore ==
    /\ storeOpen
    /\ storeOpen' = FALSE
    /\ UNCHANGED <<memories, starts, requests, requested>>

\* The program ends, or is killed, and starts again: its threads and answers are gone.
Restart ==
    /\ starts < MaxStarts
    /\ starts' = starts + 1 /\ storeOpen' = TRUE
    /\ requests' = [i \in RequestNumbers |->
                      [requests[i] EXCEPT !.worker = IF @ = "queued" THEN "dropped" ELSE @,
                                          !.answer = IF @ = "waiting" THEN "failure" ELSE @]]
    /\ UNCHANGED <<memories, requested>>

----------------------------------------------------------------------------
MemoryNext ==
    \/ \E s \in Spellings : Remember(s) \/ Forget(s)
    \/ Clear \/ Recall
    \/ \E i \in RequestNumbers : \/ Upsert(i) \/ DeleteRow(i) \/ DeleteAll(i) \/ Select(i)
                                 \/ RequestRaises(i) \/ RequestSucceeds(i) \/ RequestFails(i)
    \/ CloseStore \/ Restart

MemorySpec == MemoryInit /\ [][MemoryNext]_memoryVars

----------------------------------------------------------------------------
(* Properties.                                                             *)

MemoryTypeOK ==
    /\ memories \in [Rows -> 0 .. MaxRequests]
    /\ storeOpen \in BOOLEAN /\ starts \in 0 .. MaxStarts /\ requested \in 0 .. MaxRequests
    /\ requests \in [RequestNumbers ->
          [op : {"none", "remember", "forget", "clear", "recall"},
           keys : SUBSET Spellings, scope : SUBSET Rows,
           worker : {"none", "queued", "done", "raised", "dropped"},
           answer : {"none", "waiting", "success", "failure"}, after : SUBSET RequestNumbers]]

Forgotten ==
    \A f \in AnsweredRequests : requests[f].op \in {"forget", "clear"} =>
        \A m \in requests[f].scope : memories[m] \notin requests[f].after

Kept ==
    \A r \in AnsweredRequests : requests[r].op = "remember" =>
        \A m \in requests[r].scope :
            \/ memories[m] = r
            \/ \E w \in RequestNumbers \ (requests[r].after \cup {r}) :
                  m \in requests[w].scope /\ requests[w].worker = "done"

\* Answers can be relied on, however a memory was spelt, whatever abandoned threads still do,
\* and after a restart too.  Once a forget or a clear was answered, no value whose remember had
\* been answered before it is found again.  A value whose remember was answered is lost only
\* to another request for that memory that had not been answered when it was made.
MemoriesAsAnswered == Forgotten /\ Kept

RequestEffect(request) ==
    CASE request.worker = "none" -> "none"
      [] request.worker = "queued" -> "possible"
      [] request.worker = "done" -> "done"
      [] OTHER -> "over"

RequestMatters == [i \in RequestNumbers |-> <<requests[i].op, requests[i].scope>>]
RequestEffects == [i \in RequestNumbers |-> RequestEffect(requests[i])]
RequestAnswers == [i \in RequestNumbers |-> requests[i].answer]

\* docs/permissions.md:114-116: cancellation is not rollback.  Rows change only by a request
\* whose thread has not ended, once; a success is answered after that; and no thread of an
\* earlier start of the program acts.
MemoryPromise == INSTANCE CallPromise WITH
    Calls <- RequestNumbers, Nothing <- <<NotRequested.op, NotRequested.scope>>,
    Matters <- {"remember", "forget", "clear", "recall"} \X SUBSET Rows,
    matter <- RequestMatters, effect <- RequestEffects, answer <- RequestAnswers,
    world <- memories

MemoryCallsAsPromised == MemoryPromise!Spec
=============================================================================
