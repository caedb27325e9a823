-------------------------- MODULE PermissionBroker --------------------------
(***************************************************************************)
(* The pending permission prompts of GuiPermissionBroker                   *)
(* (src/jarvis/gui/permissions.py).                                        *)
(*                                                                         *)
(* confirm() registers a prompt and waits for its future with a timeout.   *)
(* resolve() schedules a decision, which a callback of the event loop      *)
(* applies to the future later; confirm() resumes later still.  Between    *)
(* these steps the timer can fire, the turn can be cancelled and the       *)
(* broker can be closed.                                                   *)
(*                                                                         *)
(* "Variant" definitions are wrong on purpose, as in ReminderStore.        *)
(***************************************************************************)
EXTENDS Naturals

CONSTANT
    KeepsAnswer   \* asyncio.wait_for returns a result that is there although
                  \* the timer fired or the task was cancelled (Python 3.11;
                  \* from 3.12 on the timeout and the cancellation win)

ASSUME BrokerConstants == KeepsAnswer \in BOOLEAN

VARIABLES
    prompts,       \* _pending: prompt id |-> state of its decision
    brokerClosed   \* _closed

brokerVars == <<prompts, brokerClosed>>

Decision == [scheduled : {"none", "allow", "deny"},   \* what resolve() was told
             done : BOOLEAN,                          \* it reached the future
             expired : BOOLEAN]                       \* the timer has fired

Pending == DOMAIN prompts

BrokerInit ==
    /\ prompts = [p \in {} |-> FALSE]
    /\ brokerClosed = FALSE

\* confirm: up to the await.
Open(p) ==
    /\ ~brokerClosed
    /\ prompts' = [q \in Pending \cup {p} |->
                      IF q = p
                      THEN [scheduled |-> "none", done |-> FALSE, expired |-> FALSE]
                      ELSE prompts[q]]
    /\ UNCHANGED brokerClosed

\* confirm: the finally block, whichever way the wait ended.
Withdraw(p) ==
    /\ prompts' = [q \in Pending \ {p} |-> prompts[q]]
    /\ UNCHANGED brokerClosed

\* A second decision, or one about an unknown prompt, does nothing.
Resolvable(p) == p \in Pending /\ prompts[p].scheduled = "none"

Resolve(p, verdict) ==
    /\ Resolvable(p)
    /\ prompts' = [prompts EXCEPT ![p].scheduled = verdict]
    /\ UNCHANGED brokerClosed

\* _set_decision, in the loop's thread.  After the timer it is too late.
SetDecision(p) ==
    /\ prompts[p].scheduled # "none"
    /\ ~prompts[p].done
    /\ ~prompts[p].expired
    /\ prompts' = [prompts EXCEPT ![p].done = TRUE]
    /\ UNCHANGED brokerClosed

TimeOut(p) ==
    /\ ~prompts[p].expired
    /\ prompts' = [prompts EXCEPT ![p].expired = TRUE]
    /\ UNCHANGED brokerClosed

\* close: deny_all() resolves what is still undecided.
CloseBroker ==
    /\ brokerClosed' = TRUE
    /\ prompts' = [q \in Pending |->
                      IF Resolvable(q)
                      THEN [prompts[q] EXCEPT !.scheduled = "deny"]
                      ELSE prompts[q]]

\* Variant: the timeout does not end the wait.
AnsweredByUser(p) == prompts[p].done

\* The wait of confirm() is over, not counting a cancellation.
Answered(p) == prompts[p].done \/ prompts[p].expired

\* What confirm() returns then.
Approved(p) ==
    /\ prompts[p].done
    /\ prompts[p].scheduled = "allow"
    /\ prompts[p].expired => KeepsAnswer
=============================================================================
