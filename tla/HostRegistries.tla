--------------------------- MODULE HostRegistries ---------------------------
(***************************************************************************)
(* The registries plug-ins contribute to: the actions                      *)
(* (src/jarvis/core/actions.py), the event bus (src/jarvis/core/events.py) *)
(* and the integrations (src/jarvis/integrations/registry.py), with the    *)
(* sweep that closes all integrations when the application ends.           *)
(*                                                                         *)
(* Actions and listeners are removed at once.  An integration is closed    *)
(* first, which is awaited and may fail; it then stays registered.         *)
(***************************************************************************)
EXTENDS SequencesExt

CONSTANTS
    Names,          \* of actions, integrations and subscriptions
    Integrations,   \* the names of integrations, as sorted
    Subscriptions,  \* the names of event subscriptions, one per listener
    Unusable,       \* subscriptions to an event name the bus rejects
    HostNames,      \* names registered by the host itself
    Host, None

IntegrationNames == Range(Integrations)

ASSUME RegistryConstants ==
    /\ IntegrationNames \subseteq Names
    /\ Subscriptions \subseteq Names \ IntegrationNames
    /\ Unusable \subseteq Subscriptions
    /\ HostNames \subseteq Names \ Subscriptions
    /\ Host # None

VARIABLES
    holder,     \* holder[n]: who registered n, None when it is not registered
    closed,     \* IntegrationRegistry._closed
    sweep       \* IntegrationRegistry.close(): whether it began or ended, the
                \* names it has yet to visit and whether a visit failed

registryVars == <<holder, closed, sweep>>

Sweep == [phase : {"none", "visiting", "done"}, left : SUBSET IntegrationNames, failed : BOOLEAN]

RegistriesInit ==
    /\ holder = [n \in Names |-> IF n \in HostNames THEN Host ELSE None]
    /\ closed = FALSE
    /\ sweep = [phase |-> "none", left |-> {}, failed |-> FALSE]

Registered(n) == holder[n] # None

Registering(p, S) == [n \in Names |-> IF n \in S THEN p ELSE holder[n]]
Unregistering(S) == [n \in Names |-> IF n \in S THEN None ELSE holder[n]]

\* IntegrationRegistry.close: the names are sorted and read once.
BeginSweep ==
    /\ sweep.phase = "none"
    /\ sweep' = [phase |-> "visiting",
                 left |-> {n \in IntegrationNames : Registered(n)}, failed |-> FALSE]
    /\ UNCHANGED <<holder, closed>>

\* The element of S that comes first, or last, in the sequence order.
FirstOf(order, S) == order[CHOOSE i \in DOMAIN order :
                              order[i] \in S /\ \A j \in 1..(i - 1) : order[j] \notin S]
LastOf(order, S) == FirstOf(Reverse(order), S)

\* The next integration was closed or could not be; one that was
\* unregistered meanwhile cannot be found and counts as a failure.
Visit ==
    /\ sweep.phase = "visiting"
    /\ sweep.left # {}
    /\ LET name == FirstOf(Integrations, sweep.left) IN
       \E fails \in BOOLEAN :
          /\ ~Registered(name) => fails
          /\ sweep' = [sweep EXCEPT !.left = @ \ {name}, !.failed = @ \/ fails]
    /\ UNCHANGED <<holder, closed>>

\* The registry counts as closed only if no visit failed.
EndSweep ==
    /\ sweep.phase = "visiting"
    /\ sweep.left = {}
    /\ closed' = ~sweep.failed
    /\ sweep' = [sweep EXCEPT !.phase = "done"]
    /\ UNCHANGED holder
=============================================================================
