------------------------------ MODULE MCParts ------------------------------
(* Parts of the program that share no variable, each explored by itself:    *)
(* interleaving them would add states and no behaviour of any of them.      *)
EXTENDS MCReminderStore, MCRecurrence, MCConversation, Application

VARIABLE part

partsVars == <<part, storeVars, recurrenceVars, conversationVars, appVars>>

RecurrenceAtRest ==
    /\ zone = CHOOSE z \in Zones : TRUE
    /\ rule = "daily" /\ intent = 0 /\ made = 0 /\ due = 0 /\ last = -1

ApplicationAtRest ==
    /\ interface = "window"
    /\ ApplicationInit

PartsInit ==
    /\ StoreInit /\ ConversationInit
    /\ \/ part \in {"store", "conversation"} /\ RecurrenceAtRest /\ ApplicationAtRest
       \/ part = "recurrence" /\ RecurrenceInit /\ ApplicationAtRest
       \/ part = "application" /\ RecurrenceAtRest /\ ApplicationInit

PartsNext ==
    /\ UNCHANGED part
    /\ \/ /\ part = "store" /\ StoreNext
          /\ UNCHANGED <<recurrenceVars, conversationVars, appVars>>
       \/ /\ part = "recurrence" /\ RecurrenceNext
          /\ UNCHANGED <<storeVars, conversationVars, appVars>>
       \/ /\ part = "conversation" /\ ConversationNext
          /\ UNCHANGED <<storeVars, recurrenceVars, appVars>>
       \/ /\ part = "application" /\ ApplicationNext
          /\ UNCHANGED <<storeVars, recurrenceVars, conversationVars>>

PartsSpec == PartsInit /\ [][PartsNext]_partsVars
=============================================================================
