---------------------------- MODULE TurnPromise ----------------------------
(***************************************************************************)
(* What a turn of the assistant promises its user, without prompts,        *)
(* timers, event loops or windows.                                         *)
(*                                                                         *)
(* A turn carries out a plan of actions in order.  An action begins only   *)
(* if the policy lets it run freely, or does not deny it and the user      *)
(* consented to this very item; only after all earlier items of the plan   *)
(* succeeded; at most once; and never once the turn was cancelled or is    *)
(* over.  GuiSession is shown to implement this.                           *)
(***************************************************************************)
EXTENDS Naturals, Sequences

CONSTANTS
    Turns,
    Plans,    \* the plans a turn may get: sequences of actions
    Free,     \* actions that need no consent
    Denied    \* actions that no consent allows

VARIABLES
    life,       \* life[t]: "new", "live" or "over"
    plan,       \* plan[t]: the actions to carry out
    consent,    \* pairs <<t, i>>: the user allowed item i of turn t
    begun,      \* begun[t]: how many items of the plan have begun
    succeeded   \* succeeded[t]: how many of them succeeded

vars == <<life, plan, consent, begun, succeeded>>

Init ==
    /\ life = [t \in Turns |-> "new"]
    /\ plan = [t \in Turns |-> <<>>]
    /\ consent = {}
    /\ begun = [t \in Turns |-> 0]
    /\ succeeded = [t \in Turns |-> 0]

Accept(t) ==
    /\ life[t] = "new"
    /\ life' = [life EXCEPT ![t] = "live"]
    /\ UNCHANGED <<plan, consent, begun, succeeded>>

Plan(t) ==
    /\ life[t] = "live"
    /\ plan[t] = <<>>
    /\ \E p \in Plans : plan' = [plan EXCEPT ![t] = p]
    /\ UNCHANGED <<life, consent, begun, succeeded>>

\* The item after those that succeeded.
Item(t) == succeeded[t] + 1

Consent(t) ==
    /\ begun[t] = succeeded[t]
    /\ Item(t) \in DOMAIN plan[t]
    /\ consent' = consent \cup {<<t, Item(t)>>}
    /\ UNCHANGED <<life, plan, begun, succeeded>>

Begin(t) ==
    /\ life[t] = "live"
    /\ begun[t] = succeeded[t]
    /\ Item(t) \in DOMAIN plan[t]
    /\ plan[t][Item(t)] \in Free \/ <<t, Item(t)>> \in consent
    /\ plan[t][Item(t)] \notin Denied
    /\ begun' = [begun EXCEPT ![t] = @ + 1]
    /\ UNCHANGED <<life, plan, consent, succeeded>>

Succeed(t) ==
    /\ succeeded[t] < begun[t]
    /\ succeeded' = [succeeded EXCEPT ![t] = @ + 1]
    /\ UNCHANGED <<life, plan, consent, begun>>

\* Cancelled, failed, refused or done.
End(t) ==
    /\ life[t] = "live"
    /\ life' = [life EXCEPT ![t] = "over"]
    /\ UNCHANGED <<plan, consent, begun, succeeded>>

\* A turn that is over is forgotten, never resumed.
Forget(t) ==
    /\ life[t] = "over"
    /\ plan' = [plan EXCEPT ![t] = <<>>]
    /\ consent' = {x \in consent : x[1] # t}
    /\ begun' = [begun EXCEPT ![t] = 0]
    /\ succeeded' = [succeeded EXCEPT ![t] = 0]
    /\ UNCHANGED life

Next ==
    \E t \in Turns :
        \/ Accept(t)
        \/ Plan(t)
        \/ Consent(t)
        \/ Begin(t)
        \/ Succeed(t)
        \/ End(t)
        \/ Forget(t)

Spec == Init /\ [][Next]_vars
=============================================================================
