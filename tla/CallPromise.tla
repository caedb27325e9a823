----------------------------- MODULE CallPromise -----------------------------
(***************************************************************************)
(* What is promised of a call that a worker thread carries out and whose   *)
(* caller may stop waiting, without threads, servers, locks or timeouts.   *)
(*                                                                         *)
(* Calls are made one after the other.  A call has an effect as long as    *)
(* its thread may act, in one step or several.  Success is answered only   *)
(* when the effect is complete; a failure promises nothing, the thread may *)
(* act after it.  What the calls do to the world is done while their       *)
(* effect is possible, by nobody else and never later.  A call that does   *)
(* nothing of its own succeeds only if an earlier one has done the same.   *)
(* MemoryStore, RemoteWrites and Desktop are shown to implement this.      *)
(***************************************************************************)
CONSTANTS
    Calls,
    Matters,    \* what a call may be about
    Nothing     \* what a call that was not made is about

VARIABLES
    matter,     \* matter[i]: what call i is about
    effect,     \* effect[i]: "none", "possible", "done" or "over" without more
    answer,     \* answer[i]: "none", "waiting", "success" or "failure"
    world       \* what the calls have done

vars == <<matter, effect, answer, world>>

Init ==
    /\ matter = [i \in Calls |-> Nothing]
    /\ effect = [i \in Calls |-> "none"]
    /\ answer = [i \in Calls |-> "none"]

Becomes(f, i, v) == f' = [f EXCEPT ![i] = v]

\* A new call, while no other is waited for.
Made(i, e, a) ==
    /\ answer[i] = "none"
    /\ \A j \in Calls : answer[j] # "waiting"
    /\ Becomes(answer, i, a) /\ Becomes(effect, i, e)
    /\ \E m \in Matters : Becomes(matter, i, m)

\* The world may change with it.
Make(i) == Made(i, "possible", "waiting")

Refuse(i) == Made(i, "over", "failure") /\ UNCHANGED world

Repeat(i) ==
    /\ Made(i, "done", "success")
    /\ \E j \in Calls : effect[j] = "done" /\ matter[j] = matter'[i]
    /\ UNCHANGED world

\* The thread acts, or ends: the world may change with it.
Goes(i) == effect[i] = "possible" /\ \E e \in {"possible", "done", "over"} : Becomes(effect, i, e)
Rests == UNCHANGED <<effect, world>>

Act(i) == Goes(i) /\ UNCHANGED <<matter, answer>>

Succeed(i) ==
    /\ answer[i] = "waiting" /\ Becomes(answer, i, "success")
    /\ Goes(i) \/ Rests
    /\ effect'[i] = "done"
    /\ UNCHANGED matter

\* The call could not be carried out, was cancelled or timed out.
Fail(i) ==
    /\ answer[i] = "waiting" /\ Becomes(answer, i, "failure")
    /\ Goes(i) \/ Rests
    /\ UNCHANGED matter

\* The program ends, and its threads with it.
Stop ==
    /\ effect' = [i \in Calls |-> IF effect[i] = "possible" THEN "over" ELSE effect[i]]
    /\ answer' = [i \in Calls |-> IF answer[i] = "waiting" THEN "failure" ELSE answer[i]]
    /\ UNCHANGED <<matter, world>>

Next ==
    \/ \E i \in Calls : \/ Make(i) \/ Refuse(i) \/ Repeat(i)
                        \/ Act(i) \/ Succeed(i) \/ Fail(i)
    \/ Stop

Spec == Init /\ [][Next]_vars
=============================================================================
