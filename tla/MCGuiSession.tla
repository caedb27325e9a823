---------------------------- MODULE MCGuiSession ----------------------------
(* Four actions: one of a plug-in that may run freely, one that types into  *)
(* the active window and one that destroys, which keep their confirmation   *)
(* although the policy allows them, and one that is denied.                 *)
EXTENDS GuiSession

MCRisk == [a \in Actions |->
             CASE a = "look" -> "READ" [] a = "type" -> "ACTION"
               [] a = "wipe" -> "DESTRUCTIVE" [] a = "mail" -> "SENSITIVE"]
MCPolicy == [r \in {"READ", "ACTION", "SENSITIVE", "DESTRUCTIVE"} |->
               IF r = "SENSITIVE" THEN "deny" ELSE "allow"]
\* What the guard and the limit refuse; all but a few plans of two actions.
MCRefusedPlans ==
    {<<"mail">>} \cup
    ((Actions \X Actions)
        \ {<<"type", "wipe">>, <<"look", "mail">>})
=============================================================================
