-------------------------- MODULE ReminderDelivery --------------------------
(***************************************************************************)
(* What the reminder subsystem promises about the delivery of a reminder,  *)
(* without leases, polls or processes.                                     *)
(*                                                                         *)
(* An occurrence is armed, its delivery starts at most once, it is shown   *)
(* at most once, and only an occurrence that was shown is completed (or    *)
(* re-armed for its next occurrence).  The user may withdraw or remove it  *)
(* until its delivery starts, and never while it is being delivered.       *)
(* ReminderScheduler is shown to implement this.                           *)
(***************************************************************************)
EXTENDS Naturals

CONSTANT Reminders

VARIABLES
    stage,   \* stage[i]: where reminder i stands
    shown    \* shown[i]: notifications shown for its current occurrence

vars == <<stage, shown>>

Stages == {"absent", "armed", "delivering", "done", "cancelled", "gone"}

Init ==
    /\ stage = [i \in Reminders |-> "absent"]
    /\ shown = [i \in Reminders |-> 0]

Move(i, from, to) ==
    /\ stage[i] \in from
    /\ stage' = [stage EXCEPT ![i] = to]

Arm(i) == Move(i, {"absent"}, "armed") /\ UNCHANGED shown

Withdraw(i) == Move(i, {"armed"}, "cancelled") /\ UNCHANGED shown

Remove(i) == Move(i, {"armed", "cancelled", "done"}, "gone") /\ UNCHANGED shown

StartDelivery(i) == Move(i, {"armed"}, "delivering") /\ UNCHANGED shown

Show(i) ==
    /\ stage[i] = "delivering"
    /\ shown[i] = 0
    /\ shown' = [shown EXCEPT ![i] = 1]
    /\ UNCHANGED stage

Complete(i) ==
    /\ shown[i] = 1
    /\ Move(i, {"delivering"}, "done")
    /\ UNCHANGED shown

Rearm(i) ==
    /\ shown[i] = 1
    /\ Move(i, {"delivering"}, "armed")
    /\ shown' = [shown EXCEPT ![i] = 0]

Next ==
    \E i \in Reminders :
        \/ Arm(i)
        \/ Withdraw(i)
        \/ Remove(i)
        \/ StartDelivery(i)
        \/ Show(i)
        \/ Complete(i)
        \/ Rearm(i)

Spec == Init /\ [][Next]_vars
=============================================================================
