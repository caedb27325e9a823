------------------------- MODULE CapabilityPromise -------------------------
(***************************************************************************)
(* What the plug-in lifecycle promises the host, without hooks, rollback,  *)
(* locks or cancellation.                                                  *)
(*                                                                         *)
(* A plug-in is absent, offered or leaving.  It becomes offered only       *)
(* together with everything it stages, in one step, and while it is        *)
(* offered nothing of that is missing.  Anything less belongs to a plug-in *)
(* that is leaving, which only gives names back.  The host's own names are *)
(* never taken, and no name has two owners.  PluginManager implements      *)
(* this.                                                                   *)
(***************************************************************************)
CONSTANTS
    Plugins,
    Offer,     \* Offer[p]: the names plug-in p stages
    Host,      \* the owner of the names the host registered
    HostNames,
    Names,
    None

VARIABLES
    holder,    \* holder[n]: a plug-in, Host or None
    stage      \* stage[p]: "absent", "offered" or "leaving"

vars == <<holder, stage>>

Held(p) == {n \in Names : holder[n] = p}

Take(p, S) == [n \in Names |-> IF n \in S THEN p ELSE holder[n]]
GiveBack(S) == [n \in Names |-> IF n \in S THEN None ELSE holder[n]]

Init ==
    /\ holder = [n \in Names |-> IF n \in HostNames THEN Host ELSE None]
    /\ stage = [p \in Plugins |-> "absent"]

\* Everything at once; leaving at once if the load was given up meanwhile.
Register(p) ==
    /\ stage[p] = "absent"
    /\ \A n \in Offer[p] : holder[n] = None
    /\ holder' = Take(p, Offer[p])
    /\ \E s \in {"offered", "leaving"} : stage' = [stage EXCEPT ![p] = s]

\* A registration that broke off: what it took is already on its way out.
BreakOff(p) ==
    /\ stage[p] = "absent"
    /\ \E S \in SUBSET {n \in Offer[p] : holder[n] = None} : holder' = Take(p, S)
    /\ stage' = [stage EXCEPT ![p] = "leaving"]

Leave(p) ==
    /\ stage[p] = "offered"
    /\ stage' = [stage EXCEPT ![p] = "leaving"]
    /\ UNCHANGED holder

\* Names are given back; with the last one the plug-in may be gone.
Withdraw(p) ==
    /\ stage[p] = "leaving"
    /\ \E S \in SUBSET Held(p) :
          /\ holder' = GiveBack(S)
          /\ \/ UNCHANGED stage
             \/ S = Held(p) /\ stage' = [stage EXCEPT ![p] = "absent"]

Next ==
    \E p \in Plugins :
        \/ Register(p)
        \/ BreakOff(p)
        \/ Leave(p)
        \/ Withdraw(p)

Spec == Init /\ [][Next]_vars
=============================================================================
