------------------------------ MODULE MCHost ------------------------------
(* What the program does outside itself: the browser, its processes and its *)
(* proxy, a page of the window, and the calls with worker threads.  The     *)
(* parts share no variable and are explored one by one.                     *)
EXTENDS MCCalls, BrowserSession, BrowserResources, EgressProxy, GuiPages

CONSTANTS h1, c1, c2, c3

hostVars == <<browserVars, resourceVars, egressVars, pageVars>>

\* Names, texts, titles, captions and spellings are any two.
HostSymmetry == Permutations({w1, w2})

MCMaxChanges == "memory" :> 1 @@ "tasks" :> 2 @@ "plugins" :> 1

BrowserAtRest == label = [p \in Pages |-> Nothing] /\ NoBrowserYet

PageAtRest == page = "memory" /\ records = [r \in RecordIds |-> NoRecord] /\ NothingClicked

\* The first records differ; changes can make them alike.
DifferentRecords == \A r, s \in RecordIds : r # s => records[r] # records[s]

HostInit ==
    /\ ResourcesInit /\ EgressInit
    /\ \/ CallsInit /\ BrowserAtRest /\ PageAtRest
       \/ /\ CallsAtRest
          /\ \/ part = "browser" /\ BrowserInit /\ PageAtRest
             \/ part = "page" /\ BrowserAtRest /\ PagesInit /\ DifferentRecords
             \/ part \in {"resources", "egress"} /\ BrowserAtRest /\ PageAtRest

\* Connections differ in nothing: c1 comes first and c3 last.
InOrder == (at[c2] # "none" => at[c1] # "none") /\ (at[c3] # "none" => at[c2] # "none")

HostNext ==
    \/ CallsNext /\ UNCHANGED hostVars
    \/ /\ UNCHANGED callVars
       /\ \/ /\ part = "browser" /\ BrowserNext
             /\ UNCHANGED <<resourceVars, egressVars, pageVars>>
          \/ /\ part = "resources" /\ ResourcesNext
             /\ UNCHANGED <<browserVars, egressVars, pageVars>>
          \/ /\ part = "egress" /\ EgressNext /\ InOrder'
             /\ UNCHANGED <<browserVars, resourceVars, pageVars>>
          \/ /\ part = "page" /\ PagesNext
             /\ UNCHANGED <<browserVars, resourceVars, egressVars>>

HostSpec == HostInit /\ [][HostNext /\ UNCHANGED part]_<<part, callVars, hostVars>>

\* Every variable of the part that is explored keeps its type; the others do not change.
HostTypeOK ==
    /\ CallsTypeOK
    /\ part = "browser" => BrowserTypeOK
    /\ part = "resources" => ResourcesTypeOK
    /\ part = "egress" => EgressTypeOK
    /\ part = "page" => PagesTypeOK
=============================================================================
