----------------------------- MODULE BrowserProofs -----------------------------
(***************************************************************************)
(* What holds of the browser for any number of sessions, connections, tabs *)
(* and hosts: no process is left without an owner (BrowserResources), no   *)
(* host is reached outside the addresses it was pinned to (EgressProxy),   *)
(* no page of a session is beyond the host's reach, what is clicked is     *)
(* what was shown (BrowserSession), and the window's pages change what was *)
(* seen (GuiPages).  Last, the parts and the calls together (MCHost).      *)
(***************************************************************************)
EXTENDS MCHost, ThreadProofs, SequenceTheorems

----------------------------------------------------------------------------
(* The browser's resources.                                                *)

\* Stages in which the session's number was not given out yet.
Unnumbered == {"runtime", "launch", "stop", "proxy", "context"}

\* Numbers are given out once, so a new session finds nothing under its number.
NumbersFresh ==
    /\ \A s \in table \cup batch : s < next
    /\ turnAt \in Unnumbered => hand = next
    /\ turnAt \in {"initialize", "undo context"} => hand < next
    /\ turnAt \in Unnumbered \cup {"undo proxy", "close proxy"} => hand \notin contexts
    /\ turnAt \in {"runtime", "launch", "stop", "proxy"} => hand \notin proxies

\* After shutdown() has taken its share, nothing is made any more.
ShutdownAgrees ==
    /\ dead <=> endAt # "no"
    /\ dead => turnAt \notin Making /\ ~kept /\ table = {}
    /\ ~dead => ~taken /\ batch = {}
    /\ browser => kept \/ taken
    /\ dead /\ runtime => taken
    /\ endAt \in {"runtime", "done"} => batch = {} /\ ~browser
    /\ endAt = "done" => ~runtime

ResourceFlags ==
    /\ runtime \in BOOLEAN /\ browser \in BOOLEAN /\ kept \in BOOLEAN
    /\ dead \in BOOLEAN /\ taken \in BOOLEAN

ResourceSets ==
    /\ proxies \subseteq Numbers /\ contexts \subseteq Numbers
    /\ table \subseteq Numbers /\ batch \subseteq Numbers
    /\ next \in 1 .. (MaxMade + 1)
    /\ serving \in 0 .. MaxMade /\ hand \in 0 .. MaxMade

ResourceStages ==
    /\ turnAt \in {"idle"} \cup Making \cup Closing
    /\ endAt \in {"no", "sessions", "runtime", "done"}
    /\ turnAt \in Making \cup Closing => hand \in Numbers

ResourceTypes == ResourceFlags /\ ResourceSets /\ ResourceStages

ResourcesInv == ResourceTypes /\ NumbersFresh /\ ShutdownAgrees /\ NothingOrphaned

\* Session numbers are natural numbers up to the bound; 0 stands for no session.
LEMMA NumbersInRange == Numbers \subseteq 0 .. MaxMade /\ 0 \in 0 .. MaxMade
  BY ResourceConstants DEF Numbers

\* At the start no process runs, no number is given out and shutdown() was not called.
LEMMA ResourcesInitInv == ResourcesInit => ResourcesInv
<1> SUFFICES ASSUME ResourcesInit PROVE ResourcesInv
  OBVIOUS
<1> USE DEF ResourcesInit
<1>1. ResourceFlags
  BY DEF ResourceFlags
<1>2. ResourceSets
  BY ResourceConstants DEF ResourceSets, Numbers
<1>3. ResourceStages /\ NumbersFresh
  BY DEF ResourceStages, NumbersFresh, Making, Closing, Unnumbered
<1>4. ShutdownAgrees /\ NothingOrphaned
  BY DEF ShutdownAgrees, NothingOrphaned, Owned, ProcessesOwned, Making, Closing
<1> QED BY <1>1, <1>2, <1>3, <1>4 DEF ResourcesInv, ResourceTypes

\* No step of a turn or of shutdown() leaves a process that nobody owns.
LEMMA ResourcesStep ==
  ASSUME ResourcesInv, [ResourcesNext]_resourceVars
  PROVE  ResourcesInv'
<1>1. CASE BeginSession
  <2> USE <1>1, ResourceConstants
      DEF BeginSession, ResourcesInv, ResourceTypes, processVars, endVars
  <2>1. ResourceFlags'
    BY DEF ResourceFlags
  <2>2. ResourceSets' /\ ResourceStages'
    BY DEF ResourceSets, ResourceStages, Numbers, Making
  <2>3. NumbersFresh'
    BY DEF NumbersFresh, Numbers, Making, Closing, NothingOrphaned, Owned
  <2>4. ShutdownAgrees'
    BY DEF ShutdownAgrees
  <2>5. NothingOrphaned'
    BY DEF NothingOrphaned, Owned, ProcessesOwned, Making, Closing
  <2> QED BY <2>1, <2>2, <2>3, <2>4, <2>5
<1>2. CASE RuntimeStarts
  <2> USE <1>2, ResourceConstants
      DEF RuntimeStarts, ResourcesInv, ResourceTypes, processVars, endVars
  <2>1. ResourceFlags'
    BY DEF ResourceFlags
  <2>2. ResourceSets' /\ ResourceStages'
    BY DEF ResourceSets, ResourceStages, Making
  <2>3. NumbersFresh'
    BY DEF NumbersFresh, Unnumbered
  <2>4. ShutdownAgrees'
    BY DEF ShutdownAgrees, Closing, ResourceStages
  <2>5. NothingOrphaned'
    BY DEF NothingOrphaned, Owned, ProcessesOwned, Making
  <2> QED BY <2>1, <2>2, <2>3, <2>4, <2>5
<1>3. CASE Launches
  <2> USE <1>3, ResourceConstants
      DEF Launches, ResourcesInv, ResourceTypes, processVars, endVars
  <2>1. ResourceFlags'
    BY DEF ResourceFlags
  <2>2. ResourceSets' /\ ResourceStages'
    BY DEF ResourceSets, ResourceStages, Making
  <2>3. NumbersFresh'
    BY DEF NumbersFresh, Unnumbered
  <2>4. ShutdownAgrees'
    BY DEF ShutdownAgrees, Closing, ResourceStages
  <2>5. NothingOrphaned'
    BY DEF NothingOrphaned, Owned, ProcessesOwned, Making
  <2> QED BY <2>1, <2>2, <2>3, <2>4, <2>5
<1>4. CASE NoBrowser
  <2> USE <1>4, ResourceConstants
      DEF NoBrowser, ResourcesInv, ResourceTypes, processVars, endVars
  <2>1. ResourceFlags'
    BY DEF ResourceFlags
  <2>2. ResourceSets' /\ ResourceStages'
    BY DEF ResourceSets, ResourceStages, Making
  <2>3. NumbersFresh'
    BY DEF NumbersFresh, Unnumbered
  <2>4. ShutdownAgrees'
    BY DEF ShutdownAgrees, Closing, ResourceStages
  <2>5. NothingOrphaned'
    BY DEF NothingOrphaned, Owned, ProcessesOwned, NumbersFresh, ShutdownAgrees, Unnumbered
  <2> QED BY <2>1, <2>2, <2>3, <2>4, <2>5
<1>5. CASE RuntimeStops
  <2> USE <1>5, ResourceConstants
      DEF RuntimeStops, ResourcesInv, ResourceTypes, processVars, endVars
  <2>1. ResourceFlags'
    BY DEF ResourceFlags
  <2>2. ResourceSets' /\ ResourceStages'
    BY DEF ResourceSets, ResourceStages
  <2>3. NumbersFresh'
    BY DEF NumbersFresh, Unnumbered
  <2>4. ShutdownAgrees'
    BY DEF ShutdownAgrees, Closing, ResourceStages
  <2>5. NothingOrphaned'
    BY DEF NothingOrphaned, Owned, ProcessesOwned, NumbersFresh, ShutdownAgrees, Unnumbered
  <2> QED BY <2>1, <2>2, <2>3, <2>4, <2>5
<1>6. CASE ProxyStarts
  <2> USE <1>6, ResourceConstants
      DEF ProxyStarts, ResourcesInv, ResourceTypes, processVars, endVars
  <2>1. ResourceFlags'
    BY DEF ResourceFlags
  <2>2. ResourceSets' /\ ResourceStages'
    BY DEF ResourceSets, ResourceStages, Making
  <2>3. NumbersFresh'
    BY DEF NumbersFresh, Unnumbered
  <2>4. ShutdownAgrees'
    BY DEF ShutdownAgrees, Closing, ResourceStages
  <2>5. NothingOrphaned'
    BY DEF NothingOrphaned, Owned, ProcessesOwned, Making
  <2> QED BY <2>1, <2>2, <2>3, <2>4, <2>5
<1>7. CASE ContextOpens
  <2> USE <1>7, ResourceConstants
      DEF ContextOpens, ResourcesInv, ResourceTypes, processVars, endVars
  <2>1. ResourceFlags'
    BY DEF ResourceFlags
  <2>2. ResourceSets' /\ ResourceStages'
    BY DEF ResourceSets, ResourceStages, NumbersFresh, Unnumbered, Making
  <2>3. NumbersFresh'
    BY DEF NumbersFresh, ResourceSets, Numbers, Unnumbered
  <2>4. ShutdownAgrees'
    BY DEF ShutdownAgrees, Closing, ResourceStages
  <2>5. NothingOrphaned'
    BY DEF NothingOrphaned, Owned, ProcessesOwned, Making
  <2> QED BY <2>1, <2>2, <2>3, <2>4, <2>5
<1>8. CASE Initialized
  <2> USE <1>8, ResourceConstants
      DEF Initialized, ResourcesInv, ResourceTypes, processVars, endVars
  <2>1. ResourceFlags'
    BY DEF ResourceFlags
  <2>2. ResourceSets' /\ ResourceStages'
    BY DEF ResourceSets, ResourceStages
  <2>3. NumbersFresh'
    BY DEF NumbersFresh, Unnumbered
  <2>4. ShutdownAgrees'
    BY DEF ShutdownAgrees, Closing, ResourceStages
  <2>5. NothingOrphaned'
    BY DEF NothingOrphaned, Owned, ProcessesOwned, ShutdownAgrees, Closing
  <2> QED BY <2>1, <2>2, <2>3, <2>4, <2>5
<1>9. CASE NoSession
  <2> USE <1>9, ResourceConstants
      DEF NoSession, ResourcesInv, ResourceTypes, processVars, endVars
  <2>1. ResourceFlags'
    BY DEF ResourceFlags
  <2>2. ResourceSets' /\ ResourceStages'
    BY DEF ResourceSets, ResourceStages, Making
  <2>3. NumbersFresh'
    BY DEF NumbersFresh, Unnumbered
  <2>4. ShutdownAgrees'
    BY DEF ShutdownAgrees, Closing, ResourceStages
  <2>5. NothingOrphaned'
    BY DEF NothingOrphaned, Owned, ProcessesOwned, Making
  <2> QED BY <2>1, <2>2, <2>3, <2>4, <2>5
<1>10. CASE ContextCloses
  <2> USE <1>10, ResourceConstants
      DEF ContextCloses, ResourcesInv, ResourceTypes, processVars, endVars
  <2>1. ResourceFlags'
    BY DEF ResourceFlags
  <2>2. ResourceSets' /\ ResourceStages'
    BY DEF ResourceSets, ResourceStages, Making, Closing
  <2>3. NumbersFresh'
    BY DEF NumbersFresh, Unnumbered
  <2>4. ShutdownAgrees'
    BY DEF ShutdownAgrees, Making
  <2>5. NothingOrphaned'
    BY DEF NothingOrphaned, Owned, ProcessesOwned, Making, Closing
  <2> QED BY <2>1, <2>2, <2>3, <2>4, <2>5
<1>11. CASE ProxyCloses
  <2> USE <1>11, ResourceConstants
      DEF ProxyCloses, ResourcesInv, ResourceTypes, processVars, endVars
  <2>1. ResourceFlags'
    BY DEF ResourceFlags
  <2>2. ResourceSets' /\ ResourceStages'
    BY DEF ResourceSets, ResourceStages
  <2>3. NumbersFresh'
    BY DEF NumbersFresh, Unnumbered
  <2>4. ShutdownAgrees'
    BY DEF ShutdownAgrees, Making
  <2>5. NothingOrphaned'
    BY DEF NothingOrphaned, Owned, ProcessesOwned, NumbersFresh, ShutdownAgrees
  <2> QED BY <2>1, <2>2, <2>3, <2>4, <2>5
<1>12. CASE CloseSession
  <2> USE <1>12, ResourceConstants
      DEF CloseSession, ResourcesInv, ResourceTypes, processVars, endVars
  <2>1. ResourceFlags'
    BY DEF ResourceFlags
  <2>2. ResourceSets' /\ ResourceStages'
    <3>1. \/ hand' \in Numbers /\ turnAt' = "close context"
          \/ UNCHANGED <<hand, turnAt>>
      BY DEF ResourceSets
    <3>2. table' \subseteq Numbers /\ serving' = 0
      BY DEF ResourceSets
    <3>3. UNCHANGED <<proxies, contexts, batch, next, endAt>>
      OBVIOUS
    <3>4. hand' \in 0 .. MaxMade /\ serving' \in 0 .. MaxMade
      BY <3>1, <3>2, NumbersInRange DEF ResourceSets
    <3>5. ResourceSets'
      BY <3>2, <3>3, <3>4 DEF ResourceSets
    <3>6. ResourceStages'
      BY <3>1, <3>3 DEF ResourceStages, Making, Closing
    <3> QED BY <3>5, <3>6
  <2>3. NumbersFresh'
    BY DEF NumbersFresh, Unnumbered
  <2>4. ShutdownAgrees'
    BY DEF ShutdownAgrees
  <2>5. NothingOrphaned'
    BY DEF NothingOrphaned, Owned, ProcessesOwned, Making, Closing
  <2> QED BY <2>1, <2>2, <2>3, <2>4, <2>5
<1>13. CASE ShutdownTakes
  <2> USE <1>13, ResourceConstants
      DEF ShutdownTakes, ResourcesInv, ResourceTypes, processVars, endVars
  <2>1. ResourceFlags'
    <3>1. UNCHANGED <<runtime, browser>> /\ taken' = kept
      OBVIOUS
    <3>2. dead' \in BOOLEAN /\ kept' \in BOOLEAN
      OBVIOUS
    <3> QED BY <3>1, <3>2, Zenon DEF ResourceFlags
  <2>2. ResourceSets' /\ ResourceStages'
    <3>1. batch' = table /\ table' = {} /\ serving' = 0 /\ endAt' = "sessions"
      OBVIOUS
    <3>2. UNCHANGED <<proxies, contexts, next, turnAt, hand>>
      OBVIOUS
    <3>3. serving' \in 0 .. MaxMade
      BY <3>1
    <3>4. ResourceSets'
      BY <3>1, <3>2, <3>3 DEF ResourceSets
    <3> QED BY <3>1, <3>2, <3>4 DEF ResourceStages
  <2>3. NumbersFresh'
    BY DEF NumbersFresh
  <2>4. ShutdownAgrees'
    BY DEF ShutdownAgrees, Closing, ResourceStages, NothingOrphaned, ProcessesOwned
  <2>5. NothingOrphaned'
    BY DEF NothingOrphaned, Owned, ProcessesOwned, ShutdownAgrees
  <2> QED BY <2>1, <2>2, <2>3, <2>4, <2>5
<1>14. CASE EndContext
  <2> USE <1>14, ResourceConstants
      DEF EndContext, ResourcesInv, ResourceTypes, processVars, endVars
  <2>1. ResourceFlags'
    BY DEF ResourceFlags
  <2>2. ResourceSets' /\ ResourceStages'
    BY DEF ResourceSets, ResourceStages
  <2>3. NumbersFresh'
    BY DEF NumbersFresh
  <2>4. ShutdownAgrees'
    BY DEF ShutdownAgrees
  <2>5. NothingOrphaned'
    BY DEF NothingOrphaned, Owned, ProcessesOwned
  <2> QED BY <2>1, <2>2, <2>3, <2>4, <2>5
<1>15. CASE EndBrowser
  <2> USE <1>15, ResourceConstants
      DEF EndBrowser, ResourcesInv, ResourceTypes, processVars, endVars
  <2>1. ResourceFlags'
    BY DEF ResourceFlags
  <2>2. ResourceSets' /\ ResourceStages'
    BY DEF ResourceSets, ResourceStages
  <2>3. NumbersFresh'
    BY DEF NumbersFresh
  <2>4. ShutdownAgrees'
    BY DEF ShutdownAgrees
  <2>5. NothingOrphaned'
    BY DEF NothingOrphaned, Owned, ProcessesOwned
  <2> QED BY <2>1, <2>2, <2>3, <2>4, <2>5
<1>16. CASE EndRuntime
  <2> USE <1>16, ResourceConstants
      DEF EndRuntime, ResourcesInv, ResourceTypes, processVars, endVars
  <2>1. ResourceFlags'
    BY DEF ResourceFlags
  <2>2. ResourceSets' /\ ResourceStages'
    BY DEF ResourceSets, ResourceStages
  <2>3. NumbersFresh'
    BY DEF NumbersFresh
  <2>4. ShutdownAgrees'
    BY DEF ShutdownAgrees
  <2>5. NothingOrphaned'
    BY DEF NothingOrphaned, Owned, ShutdownAgrees, Closing
  <2> QED BY <2>1, <2>2, <2>3, <2>4, <2>5
<1>17. CASE UNCHANGED resourceVars
  BY <1>17, ZenonT(40) DEF resourceVars, ResourcesInv, ResourceTypes, ResourceFlags, ResourceSets,
               ResourceStages, NumbersFresh, ShutdownAgrees, NothingOrphaned, Owned, ProcessesOwned
<1> QED
  BY <1>1, <1>2, <1>3, <1>4, <1>5, <1>6, <1>7, <1>8, <1>9, <1>10, <1>11, <1>12, <1>13, <1>14,
     <1>15, <1>16, <1>17
  DEF ResourcesNext

\* The invariant holds the types.
LEMMA ResourcesInvTyped == ResourcesInv => ResourcesTypeOK
  BY DEF ResourcesInv, ResourceTypes, ResourceFlags, ResourceSets, ResourceStages,
         ResourcesTypeOK

\* The variables of the browser's resources keep their types, for any number of sessions.
THEOREM ResourcesTypeCorrect == ResourcesSpec => []ResourcesTypeOK
  BY ResourcesInvTyped, ResourcesInitInv, ResourcesStep, PTL DEF ResourcesSpec

\* No Chromium process, context or proxy is left behind without an owner who still closes it,
\* whatever fails to start or is cancelled and whenever shutdown() comes between.
THEOREM NothingIsOrphaned == ResourcesSpec => []NothingOrphaned
<1>1. ResourcesInv => NothingOrphaned
  BY DEF ResourcesInv
<1> QED BY <1>1, ResourcesInitInv, ResourcesStep, PTL DEF ResourcesSpec

----------------------------------------------------------------------------
(* The proxy's pins.                                                       *)

\* A connection's addresses come from the answer that was pinned when it was looked up.
LeftArePinned ==
    \A c \in Clients :
        /\ at[c] \in {"queueing", "asking"} => host[c] \in Hosts
        /\ at[c] = "connecting" /\ host[c] \in Hosts => left[c] \subseteq pins[host[c]]

\* While the page's own request is looked up, the host it named is one.
PageNamesHost == asking = "page" => lookup \in Hosts

EgressInv == EgressTypeOK /\ LeftArePinned /\ PageNamesHost /\ OnePinPerHost

\* At the start nothing is pinned and nobody is connected.
LEMMA EgressInitInv == EgressInit => EgressInv
  BY EgressConstants
  DEF EgressInit, EgressInv, EgressTypeOK, ClientStages, LeftArePinned, PageNamesHost,
      OnePinPerHost

\* An admitted answer is public and leaves nothing outside what was pinned.
LEMMA AdmittedAnswer ==
  ASSUME OnePinPerHost, NEW h \in Hosts, NEW answer \in SUBSET Addresses, Admitted(h, answer),
         pins \in [Hosts -> SUBSET Addresses],
         pins' = [pins EXCEPT ![h] = answer], reached' = reached
  PROVE  /\ OnePinPerHost' /\ \A k \in Hosts : pins[k] \subseteq pins'[k]
         /\ pins' \in [Hosts -> SUBSET Addresses]
  BY DEF OnePinPerHost, Admitted

\* No step of the policy, a connection or the server reaches an address outside the pin.
LEMMA EgressStep == ASSUME EgressInv, [EgressNext]_egressVars PROVE EgressInv'
<1>1. CASE PageResolved
  <2>1. PICK answer \in SUBSET Addresses :
            Admitted(lookup, answer) /\ pins' = [pins EXCEPT ![lookup] = answer]
    BY <1>1 DEF PageResolved
  <2>2. /\ OnePinPerHost' /\ \A k \in Hosts : pins[k] \subseteq pins'[k]
        /\ pins' \in [Hosts -> SUBSET Addresses]
    BY <1>1, <2>1, AdmittedAnswer DEF PageResolved, EgressInv, EgressTypeOK, PageNamesHost
  <2> QED
    BY <1>1, <2>2, EgressConstants
    DEF PageResolved, EgressInv, EgressTypeOK, LeftArePinned, PageNamesHost
<1>2. ASSUME NEW c \in Clients, Resolved(c) PROVE EgressInv'
  <2>1. PICK answer \in SUBSET Addresses :
            /\ Admitted(host[c], answer)
            /\ pins' = [pins EXCEPT ![host[c]] = answer] /\ left' = [left EXCEPT ![c] = answer]
    BY <1>2 DEF Resolved
  <2>2. host[c] \in Hosts
    BY <1>2 DEF Resolved, EgressInv, LeftArePinned
  <2>3. /\ OnePinPerHost' /\ \A k \in Hosts : pins[k] \subseteq pins'[k]
        /\ pins' \in [Hosts -> SUBSET Addresses]
    BY <1>2, <2>1, <2>2, AdmittedAnswer DEF Resolved, EgressInv, EgressTypeOK
  <2>4. EgressTypeOK' /\ PageNamesHost'
    BY <1>2, <2>1, <2>3, EgressConstants
    DEF Resolved, EgressInv, EgressTypeOK, ClientStages, PageNamesHost
  <2>5. LeftArePinned'
    BY <1>2, <2>1, <2>2, <2>3 DEF Resolved, EgressInv, EgressTypeOK, LeftArePinned
  <2> QED BY <2>3, <2>4, <2>5 DEF EgressInv
<1>3. ASSUME NEW c \in Clients, Connects(c) PROVE EgressInv'
  <2>1. PICK a \in Addresses :
            /\ Foremost(a, c) /\ up' = [up EXCEPT ![c] = a]
            /\ reached' = IF host[c] \in Hosts THEN [reached EXCEPT ![host[c]] = @ \cup {a}]
                                               ELSE reached
    BY <1>3 DEF Connects
  <2>2. EgressTypeOK' /\ PageNamesHost' /\ LeftArePinned'
    BY <1>3, <2>1
    DEF Connects, policyVars, EgressInv, EgressTypeOK, ClientStages, PageNamesHost, LeftArePinned
  <2>3. host[c] \in Hosts => a \in pins[host[c]]
    BY <1>3, <2>1 DEF Connects, Foremost, EgressInv, LeftArePinned
  <2>4. OnePinPerHost'
    BY <1>3, <2>1, <2>3 DEF Connects, policyVars, EgressInv, EgressTypeOK, OnePinPerHost
  <2> QED BY <2>2, <2>4 DEF EgressInv
\* The other steps leave the pins and the addresses that were reached alone.
<1> USE EgressConstants
    DEF EgressInv, EgressTypeOK, ClientStages, LeftArePinned, PageNamesHost, OnePinPerHost,
        policyVars, AnswerGiven
<1>4. CASE StartServer
  BY <1>4 DEF StartServer
<1>5. CASE CloseServer
  BY <1>5 DEF CloseServer
<1>6. CASE CancelTasks
  BY <1>6 DEF CancelTasks
<1>7. CASE ServerClosed
  BY <1>7 DEF ServerClosed
<1>8. CASE PageAsks
  BY <1>8 DEF PageAsks
<1>9. CASE PageNotResolved
  BY <1>9 DEF PageNotResolved
<1>10. ASSUME NEW c \in Clients, Accept(c) PROVE EgressInv'
  BY <1>10 DEF Accept
<1>11. ASSUME NEW c \in Clients, RequestName(c) PROVE EgressInv'
  BY <1>11 DEF RequestName
<1>12. ASSUME NEW c \in Clients, RequestLiteral(c) PROVE EgressInv'
  BY <1>12 DEF RequestLiteral
<1>13. ASSUME NEW c \in Clients, RequestRefused(c) PROVE EgressInv'
  BY <1>13 DEF RequestRefused
<1>14. ASSUME NEW c \in Clients, LookUp(c) PROVE EgressInv'
  BY <1>14 DEF LookUp
<1>15. ASSUME NEW c \in Clients, NotResolved(c) PROVE EgressInv'
  BY <1>15 DEF NotResolved
<1>16. ASSUME NEW c \in Clients, ConnectFails(c) PROVE EgressInv'
  BY <1>16 DEF ConnectFails, Foremost
<1>17. ASSUME NEW c \in Clients, Relayed(c) PROVE EgressInv'
  BY <1>17 DEF Relayed
<1>18. ASSUME NEW c \in Clients, Gone(c) PROVE EgressInv'
  BY <1>18 DEF Gone
<1>19. ASSUME NEW c \in Clients, Cancelled(c) PROVE EgressInv'
  BY <1>19 DEF Cancelled, Tasks
<1>20. CASE UNCHANGED egressVars
  BY <1>20 DEF egressVars
<1> HIDE DEF EgressInv
<1> QED
  BY <1>1, <1>2, <1>3, <1>4, <1>5, <1>6, <1>7, <1>8, <1>9, <1>10, <1>11, <1>12, <1>13, <1>14,
     <1>15, <1>16, <1>17, <1>18, <1>19, <1>20
  DEF EgressNext

\* The variables of the proxy keep their types, for any number of connections and hosts.
THEOREM EgressTypeCorrect == EgressSpec => []EgressTypeOK
<1>1. EgressInv => EgressTypeOK
  BY DEF EgressInv
<1> QED BY <1>1, EgressInitInv, EgressStep, PTL DEF EgressSpec

\* A host is only ever reached at the public addresses it was first resolved to, through the
\* page's requests and the proxy's connections alike, for any number of them.
THEOREM HostsArePinned == EgressSpec => []OnePinPerHost
<1>1. EgressInv => OnePinPerHost
  BY DEF EgressInv
<1> QED BY <1>1, EgressInitInv, EgressStep, PTL DEF EgressSpec

----------------------------------------------------------------------------
(* The session: tabs, and the snapshot that is acted on.                   *)

\* Stages of a browser action.
Where == {"opening", "opened", "closing", "going", "landed", "text", "elements", "found",
          "verified", "touched"}

\* What a browser action that waits may rely on.
CallFits ==
    /\ DOMAIN call = DOMAIN NoCall
    /\ Idle \/ call.at \in Where
    /\ ~Idle => ~closed
    /\ call.at = "opening" => Len(tabs) < MaxTabs
    /\ call.at = "opened" =>
          call.page \in Pages \ Range(tabs) /\ Len(tabs) < MaxTabs /\ doc[call.page] # 0
    /\ call.at = "closing" => call.page \in Range(tabs) /\ Len(tabs) > 1
    /\ call.at \in {"going", "landed", "text", "elements"} => call.page \in Pages
    /\ call.at = "elements" => generation # 0

\* An open session has a number and its tabs are pages that exist; a closed one has nothing.
SessionFits ==
    /\ label \in [Pages -> Labels]
    /\ ~closed => session # 0 /\ \A p \in Range(tabs) \cup adopting : doc[p] # 0
    /\ closed => open = {} /\ adopting = {} /\ elements = {}

\* The elements of the session and the snapshot of the service are of one moment.
SnapshotFits ==
    \A e \in elements :
        /\ ~spent
        /\ shown # Nothing =>
              shown = [session |-> session, id |-> e.id, page |-> e.page, doc |-> e.doc,
                       label |-> e.label]

\* An interaction holds an element of the snapshot it was approved for.
InteractFits ==
    call.at \in {"found", "verified"} =>
        /\ call.basis.session = session /\ call.basis.label = call.label
        /\ call.handle.page = call.basis.page /\ call.handle.doc = call.basis.doc
        /\ call.handle.label = call.basis.label
        /\ current = call.basis.page /\ ~spent

BrowserInv ==
    /\ BrowserTypeOK /\ CallFits /\ SessionFits /\ SnapshotFits /\ InteractFits
    /\ PagesAccounted

\* A tab at the end of the dictionary: the others stay where they are.
LEMMA TabAdded ==
  ASSUME NEW A, NEW s \in Seq(A), NEW p \in A
  PROVE  /\ Append(s, p) \in Seq(A) /\ Len(Append(s, p)) = Len(s) + 1
         /\ Range(Append(s, p)) = Range(s) \cup {p}
         /\ IsInjective(s) /\ p \notin Range(s) => IsInjective(Append(s, p))
<1>1. /\ Append(s, p) \in Seq(A) /\ Len(Append(s, p)) = Len(s) + 1
      /\ \A i \in 1 .. Len(s) : Append(s, p)[i] = s[i]
      /\ Append(s, p)[Len(s) + 1] = p
      /\ Len(s) \in Nat /\ DOMAIN s = 1 .. Len(s)
  BY AppendProperties, LenProperties
<1> DEFINE t == Append(s, p)
<1>2. DOMAIN t = 1 .. Len(s) + 1
  BY <1>1, LenProperties
<1> HIDE DEF t
<1>3. Range(t) = Range(s) \cup {p}
  <2>1. ASSUME NEW x \in Range(t) PROVE x \in Range(s) \cup {p}
    BY <1>1, <1>2 DEF Range, t
  <2>2. ASSUME NEW x \in Range(s) PROVE x \in Range(t)
    <3>1. PICK i \in DOMAIN s : s[i] = x
      BY DEF Range
    <3>2. i \in DOMAIN t /\ t[i] = x
      BY <1>1, <1>2, <3>1 DEF t
    <3> QED  BY <3>2 DEF Range
  <2>3. p \in Range(t)
    <3>1. Len(s) + 1 \in DOMAIN t /\ t[Len(s) + 1] = p
      BY <1>1, <1>2 DEF t
    <3> QED  BY <3>1 DEF Range
  <2> QED  BY <2>1, <2>2, <2>3
<1>4. ASSUME IsInjective(s), p \notin Range(s) PROVE IsInjective(t)
  <2> SUFFICES ASSUME NEW i \in DOMAIN t, NEW j \in DOMAIN t, t[i] = t[j] PROVE i = j
    BY DEF IsInjective
  <2>1. \A k \in DOMAIN s : s[k] # p
    BY <1>4 DEF Range
  <2>2. CASE i \in DOMAIN s /\ j \in DOMAIN s
    <3>1. t[i] = s[i] /\ t[j] = s[j]
      BY <1>1, <2>2 DEF t
    <3> QED  BY <1>4, <2>2, <3>1 DEF IsInjective
  <2>3. CASE ~(i \in DOMAIN s /\ j \in DOMAIN s)
    BY <1>1, <1>2, <2>1, <2>3 DEF t
  <2> QED  BY <2>2, <2>3
<1> QED  BY <1>1, <1>3, <1>4 DEF t

\* What is left of a sequence when one place is taken out.
LEMMA PlaceRemoved ==
  ASSUME NEW A, NEW s \in Seq(A), NEW i \in DOMAIN s
  PROVE  /\ RemoveAt(s, i) \in Seq(A)
         /\ Len(RemoveAt(s, i)) = Len(s) - 1
         /\ \A k \in 1 .. Len(s) - 1 :
               RemoveAt(s, i)[k] = IF k < i THEN s[k] ELSE s[k + 1]
<1>1. Len(s) \in Nat /\ i \in 1 .. Len(s)
  BY LenProperties
<1>2. \A k \in 1 .. Len(s) : s[k] \in A
  BY ElementOfSeq
<1> DEFINE front == SubSeq(s, 1, i - 1)
           back == SubSeq(s, i + 1, Len(s))
<1>3. /\ front \in Seq(A) /\ Len(front) = i - 1
      /\ \A k \in 1 .. i - 1 : front[k] = s[k]
  <2>1. 1 \in Int /\ i - 1 \in Int /\ \A k \in 1 .. i - 1 : s[k] \in A
    BY <1>1, <1>2
  <2> QED  BY <1>1, <2>1, SubSeqProperties
<1>4. /\ back \in Seq(A) /\ Len(back) = Len(s) - i
      /\ \A k \in 1 .. Len(s) - i : back[k] = s[i + k]
  <2>1. i + 1 \in Int /\ Len(s) \in Int /\ \A k \in i + 1 .. Len(s) : s[k] \in A
    BY <1>1, <1>2
  <2>2. /\ back \in Seq(A)
        /\ Len(back) = IF i + 1 <= Len(s) THEN Len(s) - (i + 1) + 1 ELSE 0
        /\ \A k \in 1 .. Len(s) - (i + 1) + 1 : back[k] = s[i + 1 + k - 1]
    BY <2>1, SubSeqProperties
  <2>3. Len(s) - (i + 1) + 1 = Len(s) - i
    BY <1>1
  <2>4. \A k \in 1 .. Len(s) - i : i + 1 + k - 1 = i + k
    BY <1>1
  <2> QED  BY <1>1, <2>2, <2>3, <2>4
<1> HIDE DEF front, back
<1>5. /\ front \o back \in Seq(A)
      /\ Len(front \o back) = Len(front) + Len(back)
      /\ \A k \in 1 .. Len(front) + Len(back) :
            (front \o back)[k] = IF k <= Len(front) THEN front[k] ELSE back[k - Len(front)]
  BY <1>3, <1>4, ConcatProperties
<1>6. Len(front \o back) = Len(s) - 1
  BY <1>1, <1>3, <1>4, <1>5
<1>8. ASSUME NEW k \in 1 .. Len(s) - 1
      PROVE  (front \o back)[k] = IF k < i THEN s[k] ELSE s[k + 1]
  <2>1. k \in 1 .. Len(front) + Len(back)
    BY <1>1, <1>3, <1>4
  <2>2. (front \o back)[k] = IF k <= Len(front) THEN front[k] ELSE back[k - Len(front)]
    BY <1>5, <2>1
  <2>3. CASE k < i
    <3>1. k <= Len(front) /\ k \in 1 .. i - 1
      BY <1>1, <1>3, <2>3
    <3> QED  BY <1>3, <2>2, <2>3, <3>1
  <2>4. CASE ~(k < i)
    <3> DEFINE j == k - Len(front)
    <3>1. ~(k <= Len(front)) /\ j \in 1 .. Len(s) - i /\ i + j = k + 1
      BY <1>1, <1>3, <2>4
    <3>2. back[j] = s[k + 1]
      BY <1>4, <3>1
    <3> QED  BY <2>2, <2>4, <3>1, <3>2
  <2> QED  BY <2>3, <2>4
<1>7. RemoveAt(s, i) = front \o back
  BY DEF RemoveAt, front, back
<1> QED  BY <1>5, <1>6, <1>7, <1>8

\* A tab leaves the dictionary: the others stay, in their order.
LEMMA TabRemoved ==
  ASSUME NEW A, NEW s \in Seq(A), NEW i \in DOMAIN s, IsInjective(s)
  PROVE  /\ RemoveAt(s, i) \in Seq(A) /\ Len(RemoveAt(s, i)) = Len(s) - 1
         /\ Range(RemoveAt(s, i)) = Range(s) \ {s[i]}
         /\ IsInjective(RemoveAt(s, i))
<1> DEFINE t == RemoveAt(s, i)
<1>1. /\ t \in Seq(A) /\ Len(t) = Len(s) - 1
      /\ \A k \in 1 .. Len(s) - 1 : t[k] = IF k < i THEN s[k] ELSE s[k + 1]
  BY PlaceRemoved
<1>2. /\ Len(s) \in Nat /\ DOMAIN s = 1 .. Len(s) /\ DOMAIN t = 1 .. Len(s) - 1
  BY <1>1, LenProperties
<1> HIDE DEF t
<1>3. \A k \in DOMAIN t : \E m \in DOMAIN s : t[k] = s[m] /\ m # i
  <2> SUFFICES ASSUME NEW k \in DOMAIN t
               PROVE  \E m \in DOMAIN s : t[k] = s[m] /\ m # i
    OBVIOUS
  <2>1. CASE k < i
    <3>1. k \in DOMAIN s /\ t[k] = s[k] /\ k # i
      BY <1>1, <1>2, <2>1
    <3> QED  BY <3>1
  <2>2. CASE ~(k < i)
    <3>1. k + 1 \in DOMAIN s /\ t[k] = s[k + 1] /\ k + 1 # i
      BY <1>1, <1>2, <2>2
    <3> QED  BY <3>1
  <2> QED  BY <2>1, <2>2
<1>4. ASSUME NEW m \in DOMAIN s, m # i PROVE \E k \in DOMAIN t : t[k] = s[m]
  <2>1. CASE m < i
    <3>1. m \in DOMAIN t /\ t[m] = s[m]
      BY <1>1, <1>2, <2>1
    <3> QED  BY <3>1
  <2>2. CASE ~(m < i)
    <3>1. m - 1 \in DOMAIN t /\ ~(m - 1 < i) /\ m - 1 + 1 = m
      BY <1>2, <1>4, <2>2
    <3>2. t[m - 1] = s[m]
      BY <1>1, <1>2, <3>1
    <3> QED  BY <3>1, <3>2
  <2> QED  BY <2>1, <2>2
<1>5. Range(t) = Range(s) \ {s[i]}
  <2>1. \A k \in DOMAIN t : t[k] \in Range(s) \ {s[i]}
    BY <1>3 DEF Range, IsInjective
  <2>2. ASSUME NEW x \in Range(s), x # s[i] PROVE x \in Range(t)
    <3>1. PICK m \in DOMAIN s : s[m] = x
      BY DEF Range
    <3>2. PICK k \in DOMAIN t : t[k] = s[m]
      BY <1>4, <2>2, <3>1
    <3> QED  BY <3>1, <3>2 DEF Range
  <2>3. \A x \in Range(t) : x \in Range(s) \ {s[i]}
    BY <2>1 DEF Range
  <2> QED  BY <2>2, <2>3
<1>6. IsInjective(t)
  <2> SUFFICES ASSUME NEW j \in DOMAIN t, NEW k \in DOMAIN t, t[j] = t[k] PROVE j = k
    BY DEF IsInjective
  <2> DEFINE From(n) == IF n < i THEN n ELSE n + 1
  <2>1. \A n \in DOMAIN t : From(n) \in DOMAIN s /\ t[n] = s[From(n)]
    BY <1>1, <1>2
  <2>2. From(j) = From(k)
    BY <2>1 DEF IsInjective
  <2> QED  BY <1>2, <2>2
<1> QED  BY <1>1, <1>5, <1>6 DEF t

\* At the start no browser was started.
LEMMA BrowserInitInv == BrowserInit => BrowserInv
<1> SUFFICES ASSUME BrowserInit PROVE BrowserInv
  OBVIOUS
<1> USE BrowserConstants DEF BrowserInit, NoBrowserYet, NoCall
<1>1. PICK n \in Labels : label = [p \in Pages |-> n]
  OBVIOUS
<1>2. BrowserTypeOK
  <2>1. tabs \in Seq(Pages) /\ current \in Pages \cup {Nothing}
    OBVIOUS
  <2>2. doc \in [Pages -> 0 .. MaxDocuments] /\ label \in [Pages -> Labels \cup {Nothing}]
    BY <1>1
  <2>3. session \in 0 .. MaxSessions /\ generation \in 0 .. MaxSnapshots
    OBVIOUS
  <2>4. /\ active \in BOOLEAN /\ closed \in BOOLEAN /\ serviceStopped \in BOOLEAN
        /\ spent \in BOOLEAN
    BY Zenon
  <2> QED  BY <2>1, <2>2, <2>3, <2>4 DEF BrowserTypeOK
<1>3. CallFits
  BY DEF CallFits, Idle
<1>4. SessionFits
  BY <1>1 DEF SessionFits
<1>5. SnapshotFits /\ InteractFits /\ PagesAccounted
  BY DEF SnapshotFits, InteractFits, PagesAccounted
<1> QED  BY <1>2, <1>3, <1>4, <1>5 DEF BrowserInv

\* A tuple of one page is a sequence without repetition.
LEMMA OneTab ==
  ASSUME NEW p \in Pages
  PROVE  <<p>> \in Seq(Pages) /\ Len(<<p>>) = 1 /\ Range(<<p>>) = {p} /\ IsInjective(<<p>>)
  BY DEF Range, IsInjective

\* A new session has one page, which is a tab and has a task.
LEMMA StartSessionKeeps ==
  ASSUME BrowserInv, StartSession
  PROVE  BrowserInv'
<1> USE BrowserConstants DEF BrowserInv, StartSession, Pages
<1>1. 1 \in Pages /\ call' = call /\ call = NoCall
  BY DEF Idle
<1>2. tabs' \in Seq(Pages) /\ Len(tabs') = 1 /\ Range(tabs') = {1} /\ IsInjective(tabs')
  BY <1>1, OneTab
<1>3. BrowserTypeOK'
  <2>1. doc' \in [Pages -> 0 .. MaxDocuments]
    OBVIOUS
  <2>2. session' \in 0 .. MaxSessions /\ generation' \in 0 .. MaxSnapshots
    BY DEF BrowserTypeOK
  <2>3. current' \in Pages \cup {Nothing} /\ open' \subseteq Pages /\ adopting' \subseteq Pages
    BY <1>1
  <2>4. active' \in BOOLEAN /\ closed' \in BOOLEAN /\ spent' \in BOOLEAN
    OBVIOUS
  <2> QED  BY <1>2, <2>1, <2>2, <2>3, <2>4 DEF BrowserTypeOK
<1>4. CallFits'
  BY <1>1 DEF CallFits, Idle, NoCall
<1>5. SessionFits'
  <2>1. doc'[1] = 1 /\ session' # 0
    BY <1>1 DEF BrowserTypeOK
  <2> QED  BY <1>1, <1>2, <2>1 DEF SessionFits
<1>6. SnapshotFits' /\ InteractFits'
  BY <1>1 DEF SnapshotFits, InteractFits, NoCall
<1>7. PagesAccounted'
  BY <1>2 DEF PagesAccounted
<1> QED  BY <1>3, <1>4, <1>5, <1>6, <1>7

\* A session closes when no action runs, and leaves nothing.
LEMMA ClosingKeeps ==
  ASSUME BrowserInv, ServiceClose \/ ShutdownCloses
  PROVE  BrowserInv'
<1> USE BrowserConstants DEF BrowserInv, ServiceClose, ShutdownCloses, SessionCloses, Usable
<1>1. /\ call' = NoCall /\ closed' = TRUE /\ tabs' = <<>> /\ elements' = {}
      /\ UNCHANGED <<session, serviceStopped, current, label, generation, spent, moves>>
      /\ open' = {} /\ adopting' = {} /\ asked' = {} /\ doc' = [p \in Pages |-> 0]
      /\ active' \in {FALSE, active} /\ shown' \in {Nothing, shown}
  BY DEF Idle, serviceVars
<1>2. BrowserTypeOK'
  <2>1. tabs' \in Seq(Pages) /\ doc' \in [Pages -> 0 .. MaxDocuments]
    BY <1>1
  <2>2. active' \in BOOLEAN /\ closed' \in BOOLEAN /\ shown' \in Snapshots \cup {Nothing}
    BY <1>1 DEF BrowserTypeOK
  <2> QED  BY <1>1, <2>1, <2>2 DEF BrowserTypeOK
<1>3. CallFits'
  BY <1>1 DEF CallFits, Idle, NoCall
<1>4. SessionFits'
  BY <1>1 DEF SessionFits
<1>5. SnapshotFits' /\ InteractFits' /\ PagesAccounted'
  BY <1>1 DEF SnapshotFits, InteractFits, PagesAccounted, NoCall
<1> QED  BY <1>2, <1>3, <1>4, <1>5

\* The service forgets its session, which stays open until its lock is free.
LEMMA ServiceShutdownKeeps ==
  ASSUME BrowserInv, ServiceShutdown
  PROVE  BrowserInv'
<1> USE DEF BrowserInv, ServiceShutdown, contentVars
<1>1. BrowserTypeOK'
  BY DEF BrowserTypeOK
<1>2. CallFits' /\ SessionFits'
  BY DEF CallFits, SessionFits, Idle
<1>3. SnapshotFits' /\ InteractFits' /\ PagesAccounted'
  BY DEF SnapshotFits, InteractFits, PagesAccounted
<1> QED  BY <1>1, <1>2, <1>3

\* A page appears: it was nowhere, and a task will decide about it.
LEMMA PopUpKeeps ==
  ASSUME BrowserInv, NEW p \in Pages, PopUp(p)
  PROVE  BrowserInv'
<1> USE BrowserConstants DEF BrowserInv, PopUp, serviceVars, snapshotVars, Fresh
<1>1. BrowserTypeOK'
  BY DEF BrowserTypeOK
<1>2. \A q \in Pages : doc[q] # 0 => doc'[q] # 0
  BY DEF BrowserTypeOK
<1>3. Range(tabs) \subseteq Pages /\ adopting \subseteq Pages
  BY ElementOfSeq, LenProperties DEF BrowserTypeOK, Range
<1>4. CallFits'
  BY <1>2 DEF CallFits, Idle
<1>5. SessionFits'
  <2>1. doc'[p] = 1
    BY DEF BrowserTypeOK
  <2>2. \A q \in Range(tabs') \cup adopting' : q = p \/ (q \in Pages /\ doc[q] # 0)
    BY <1>3 DEF SessionFits
  <2>3. \A q \in Range(tabs') \cup adopting' : doc'[q] # 0
    BY <1>2, <2>1, <2>2
  <2> QED  BY <2>3 DEF SessionFits
<1>6. SnapshotFits' /\ InteractFits' /\ PagesAccounted'
  BY DEF SnapshotFits, InteractFits, PagesAccounted
<1> QED  BY <1>1, <1>4, <1>5, <1>6

\* A task that finds a tab, or refuses a page, and a page that goes away.
LEMMA DecidingKeeps ==
  ASSUME BrowserInv, NEW p \in Pages, AdoptKnown(p) \/ AdoptRefused(p) \/ PageGone(p)
  PROVE  BrowserInv'
<1> USE DEF BrowserInv, AdoptKnown, AdoptRefused, PageGone, serviceVars, snapshotVars,
            contentVars
<1>1. /\ UNCHANGED <<session, active, serviceStopped, closed, tabs, current, doc, label, generation,
                     elements, shown, spent, call, moves>>
      /\ open' \subseteq open /\ adopting' \subseteq adopting /\ asked' \subseteq asked \cup {p}
  OBVIOUS
<1>2. BrowserTypeOK'
  BY <1>1 DEF BrowserTypeOK
<1>3. CallFits' /\ SessionFits'
  BY <1>1 DEF CallFits, SessionFits, Idle
<1>4. SnapshotFits' /\ InteractFits'
  BY <1>1 DEF SnapshotFits, InteractFits
<1>5. PagesAccounted'
  BY DEF PagesAccounted, Known
<1> QED  BY <1>2, <1>3, <1>4, <1>5

\* A page becomes the last tab and the current one.
LEMMA AdoptKeeps ==
  ASSUME BrowserInv, NEW p \in Pages, Adopt(p)
  PROVE  BrowserInv'
<1> USE BrowserConstants DEF BrowserInv, Adopt, Invalidate, serviceVars, contentVars, Idle
<1>1. /\ tabs' \in Seq(Pages) /\ Len(tabs') = Len(tabs) + 1 /\ Range(tabs') = Range(tabs) \cup {p}
      /\ IsInjective(tabs) => IsInjective(tabs')
      /\ Len(tabs) \in Nat
  BY TabAdded, LenProperties DEF BrowserTypeOK, Known
<1>2. BrowserTypeOK'
  BY <1>1 DEF BrowserTypeOK
<1>3. CallFits'
  BY DEF CallFits, NoCall
<1>5. SnapshotFits' /\ InteractFits'
  BY DEF SnapshotFits, InteractFits, NoCall
<1>6. PagesAccounted'
  BY <1>1 DEF PagesAccounted, BrowserTypeOK
<1>4. SessionFits'
  BY <1>1 DEF SessionFits
<1> QED  BY <1>2, <1>3, <1>4, <1>5, <1>6

\* The page itself moves: it goes, its element is renamed, or its document changes.
LEMMA PageMovesKeeps ==
  ASSUME BrowserInv, NEW p \in Pages, PageMoves(p)
  PROVE  BrowserInv'
<1> USE BrowserConstants DEF BrowserInv, PageMoves, serviceVars, snapshotVars, contentVars
<1>1. /\ UNCHANGED <<session, active, serviceStopped, closed, adopting, asked, tabs, current,
                     generation, elements, shown, spent, call>>
      /\ open' \subseteq open
  OBVIOUS
<1>2. /\ doc' \in [Pages -> 0 .. MaxDocuments] /\ label' \in [Pages -> Labels]
      /\ \A q \in Pages : doc[q] # 0 => doc'[q] # 0
  <2>1. doc \in [Pages -> 0 .. MaxDocuments] /\ label \in [Pages -> Labels]
    BY DEF BrowserTypeOK, SessionFits
  <2>2. doc' = doc \/ (doc[p] < MaxDocuments /\ doc' = [doc EXCEPT ![p] = @ + 1])
    OBVIOUS
  <2>3. label' = label \/ \E n \in Labels : label' = [label EXCEPT ![p] = n]
    OBVIOUS
  <2>4. label' \in [Pages -> Labels]
    BY <2>1, <2>3
  <2> QED  BY <2>1, <2>2, <2>4
<1>3. Range(tabs) \subseteq Pages /\ adopting \subseteq Pages
  BY ElementOfSeq, LenProperties DEF BrowserTypeOK, Range
<1>4. BrowserTypeOK'
  BY <1>1, <1>2 DEF BrowserTypeOK
<1>5. CallFits'
  BY <1>1, <1>2 DEF CallFits, Idle
<1>6. SessionFits'
  BY <1>1, <1>2, <1>3 DEF SessionFits
<1>7. SnapshotFits' /\ InteractFits' /\ PagesAccounted'
  BY <1>1 DEF SnapshotFits, InteractFits, PagesAccounted
<1> QED  BY <1>4, <1>5, <1>6, <1>7

\* What a step that only moves a call must show.
LEMMA CallingKeeps ==
  ASSUME BrowserInv, CallOnly, CallFits', InteractFits'
  PROVE  BrowserInv'
<1> USE DEF BrowserInv, CallOnly, serviceVars, snapshotVars, contentVars
<1>1. BrowserTypeOK' /\ SessionFits'
  BY DEF BrowserTypeOK, SessionFits
<1>2. SnapshotFits' /\ PagesAccounted'
  BY DEF SnapshotFits, PagesAccounted
<1> QED  BY <1>1, <1>2

\* A new call has the fields of a call, and says where it is.
LEMMA CallingFields ==
  ASSUME NEW kind, NEW stage, NEW p
  PROVE  /\ DOMAIN Calling(kind, stage, p) = DOMAIN NoCall
         /\ Calling(kind, stage, p).at = stage /\ Calling(kind, stage, p).page = p
  BY DEF Calling, NoCall

\* A new tab, a navigation or a read begins when no other action runs.
LEMMA BeginningKeeps ==
  ASSUME BrowserInv, NewTab \/ Navigate \/ History \/ Read
  PROVE  BrowserInv'
<1> USE BrowserConstants DEF BrowserInv
<1>1. CallOnly /\ Usable
  BY DEF NewTab, Navigate, History, Read
<1>2. /\ Len(tabs) \in Nat /\ current \in Range(tabs) /\ Range(tabs) \subseteq Pages
      /\ Len(tabs) # 0
  <2>1. current \in Range(tabs)
    BY <1>1 DEF PagesAccounted, Usable
  <2>2. Len(tabs) \in Nat /\ DOMAIN tabs = 1 .. Len(tabs) /\ Range(tabs) \subseteq Pages
    BY ElementOfSeq, LenProperties DEF BrowserTypeOK, Range
  <2> QED  BY <2>1, <2>2 DEF Range
<1>3. \/ NewTab
      \/ \E k \in {"navigate", "history"} : call' = Calling(k, "going", current)
      \/ call' = Calling("read", "text", current)
  BY DEF Navigate, History, Read
<1>4. UNCHANGED <<closed, tabs, doc, generation>>
  BY <1>1 DEF CallOnly, snapshotVars, contentVars
<1>5. CallFits' /\ InteractFits'
  <2> USE DEF Calling, NoCall, CallFits, InteractFits, Idle, Usable, Where
  <2>1. CASE NewTab
    BY <1>1, <1>4, <2>1 DEF NewTab
  <2>2. CASE \E k \in {"navigate", "history"} : call' = Calling(k, "going", current)
    BY <1>1, <1>2, <1>4, <2>2
  <2>3. CASE call' = Calling("read", "text", current)
    BY <1>1, <1>2, <1>4, <2>3
  <2> QED  BY <1>3, <2>1, <2>2, <2>3
<1> QED  BY <1>1, <1>5, CallingKeeps

\* close_tab() begins on a tab that is not the only one.
LEMMA CloseTabKeeps ==
  ASSUME BrowserInv, NEW p \in Pages, CloseTab(p)
  PROVE  BrowserInv'
<1> USE DEF BrowserInv
<1>1. CallOnly /\ Usable /\ Known(p) /\ Len(tabs) # 1 /\ call' = Calling("tab", "closing", p)
  BY DEF CloseTab
<1>2. DOMAIN call' = DOMAIN NoCall /\ call'.at = "closing" /\ call'.page = p
  BY <1>1, CallingFields
<1>3. p \in Range(tabs) /\ Len(tabs) > 1
  <2>1. Len(tabs) \in Nat /\ DOMAIN tabs = 1 .. Len(tabs)
    BY LenProperties DEF BrowserTypeOK
  <2> QED  BY <1>1, <2>1 DEF Known, Range
<1>4. UNCHANGED <<closed, tabs>>
  BY <1>1 DEF CallOnly
<1>5. CallFits'
  BY <1>1, <1>2, <1>3, <1>4 DEF CallFits, Usable, Where
<1>6. InteractFits'
  BY <1>2 DEF InteractFits
<1> QED  BY <1>1, <1>5, <1>6, CallingKeeps

\* An approved interaction holds an element of the service's latest snapshot.
LEMMA InteractKeeps ==
  ASSUME BrowserInv, NEW id \in 1 .. MaxSnapshots, NEW n \in Labels, Interact(id, n)
  PROVE  BrowserInv'
<1> USE DEF BrowserInv
<1>1. PICK e \in elements :
         /\ e.id = id /\ Resolves(e)
         /\ call' = [Calling("interact", "found", e.page) EXCEPT !.label = n, !.handle = e,
                                                                 !.basis = shown]
  BY DEF Interact
<1>2. /\ CallOnly /\ Usable /\ shown # Nothing /\ shown.label = n
  BY DEF Interact, Targets
<1>3. UNCHANGED <<session, current, closed, tabs, doc, generation, spent>>
  BY <1>2 DEF CallOnly, snapshotVars, contentVars, serviceVars
<1>4. /\ call'.at = "found" /\ call'.label = n /\ call'.handle = e /\ call'.basis = shown
      /\ DOMAIN call' = DOMAIN NoCall
  BY <1>1 DEF Calling, NoCall
<1>5. ~spent /\ shown = [session |-> session, id |-> e.id, page |-> e.page, doc |-> e.doc,
                         label |-> e.label]
  BY <1>2 DEF SnapshotFits
<1>6. CallFits'
  BY <1>2, <1>3, <1>4 DEF CallFits, Idle, Where, Usable
<1>7. InteractFits'
  BY <1>1, <1>2, <1>3, <1>4, <1>5 DEF InteractFits, Resolves
<1> QED  BY <1>2, <1>6, <1>7, CallingKeeps

\* An action goes on to use what it holds, or ends.
LEMMA UsingKeeps ==
  ASSUME BrowserInv, Verify \/ Touch \/ CallEnds
  PROVE  BrowserInv'
<1> USE DEF BrowserInv
<1>1. CallOnly
  BY DEF Verify, Touch, CallEnds
<1>2. UNCHANGED <<session, current, closed, tabs, doc, generation, spent>>
  BY <1>1 DEF CallOnly, snapshotVars, contentVars, serviceVars
<1>3. CallFits' /\ InteractFits'
  <2>1. CASE CallEnds
    BY <1>2, <2>1 DEF CallEnds, CallFits, InteractFits, NoCall, Idle
  <2>2. CASE Verify \/ Touch
    <3>1. /\ call.at \in {"found", "verified"} /\ ~closed
          /\ call' = [call EXCEPT !.at = IF call.at = "found" THEN "verified" ELSE "touched"]
      BY <2>2 DEF Verify, Touch, CallFits, NoCall, Idle
    <3>2. /\ DOMAIN call' = DOMAIN NoCall
          /\ call'.at = IF call.at = "found" THEN "verified" ELSE "touched"
          /\ call'.label = call.label /\ call'.handle = call.handle
          /\ call'.basis = call.basis
      BY <3>1 DEF CallFits, NoCall
    <3>3. CallFits'
      BY <1>2, <3>1, <3>2 DEF CallFits, Idle, Where, NoCall
    <3>4. InteractFits'
      BY <1>2, <3>1, <3>2 DEF InteractFits
    <3> QED  BY <3>3, <3>4
  <2> QED  BY <2>1, <2>2
<1> QED  BY <1>1, <1>3, CallingKeeps

\* new_page() made a page: it is not a tab yet.
LEMMA TabAppearsKeeps ==
  ASSUME BrowserInv, NEW p \in Pages, TabAppears(p)
  PROVE  BrowserInv'
<1> USE BrowserConstants DEF BrowserInv, TabAppears, serviceVars, snapshotVars, Fresh
<1>1. BrowserTypeOK'
  BY DEF BrowserTypeOK
<1>2. /\ doc'[p] = 1 /\ doc[p] = 0 /\ \A q \in Pages : doc[q] # 0 => doc'[q] # 0
  BY DEF BrowserTypeOK
<1>3. Range(tabs) \subseteq Pages /\ adopting \subseteq Pages
  BY ElementOfSeq, LenProperties DEF BrowserTypeOK, Range
<1>4. /\ ~closed /\ DOMAIN call' = DOMAIN NoCall /\ call'.at = "opened" /\ call'.page = p
  BY DEF CallFits, Idle, NoCall
<1>5. CallFits'
  <2>1. p \notin Range(tabs)
    BY <1>2, <1>4 DEF SessionFits
  <2>2. call' # NoCall
    BY <1>4 DEF NoCall
  <2> QED  BY <1>2, <1>4, <2>1, <2>2 DEF CallFits, Idle, Where
<1>6. SessionFits'
  <2>1. \A q \in Range(tabs') \cup adopting' : q = p \/ (q \in Pages /\ doc[q] # 0)
    BY <1>3, <1>4 DEF SessionFits
  <2>2. \A q \in Range(tabs') \cup adopting' : doc'[q] # 0
    BY <1>2, <2>1
  <2> QED  BY <1>4, <2>2 DEF SessionFits
<1>7. InteractFits'
  BY <1>4 DEF InteractFits
<1>8. SnapshotFits' /\ PagesAccounted'
  BY DEF SnapshotFits, PagesAccounted
<1> QED  BY <1>1, <1>5, <1>6, <1>7, <1>8

\* new_tab() puts the page into the dictionary, and goes to its address if it has one.
LEMMA TabOpenedKeeps ==
  ASSUME BrowserInv, TabOpened
  PROVE  BrowserInv'
<1> USE BrowserConstants DEF BrowserInv, TabOpened, serviceVars, snapshotVars, contentVars
<1>1. /\ call.page \in Pages \ Range(tabs) /\ Len(tabs) < MaxTabs /\ doc[call.page] # 0
      /\ ~closed /\ tabs \in Seq(Pages) /\ Len(tabs) \in Nat
  BY LenProperties DEF CallFits, Idle, NoCall, BrowserTypeOK
<1>2. /\ tabs' \in Seq(Pages) /\ Len(tabs') = Len(tabs) + 1
      /\ Range(tabs') = Range(tabs) \cup {call.page}
      /\ IsInjective(tabs) => IsInjective(tabs')
  BY <1>1, TabAdded
<1>3. BrowserTypeOK'
  BY <1>1, <1>2 DEF BrowserTypeOK
<1>4. CallFits' /\ InteractFits'
  <2>1. CASE call' = NoCall
    BY <2>1 DEF CallFits, InteractFits, Idle, NoCall
  <2>2. CASE call' = [call EXCEPT !.at = "going"]
    <3>1. DOMAIN call' = DOMAIN NoCall /\ call'.at = "going" /\ call'.page = call.page
      BY <2>2 DEF CallFits, NoCall
    <3> QED  BY <1>1, <3>1 DEF CallFits, InteractFits, Where
  <2> QED  BY <2>1, <2>2
<1>5. SessionFits' /\ SnapshotFits'
  BY <1>1, <1>2 DEF SessionFits, SnapshotFits
<1>6. PagesAccounted'
  BY <1>1, <1>2 DEF PagesAccounted, BrowserTypeOK
<1> QED  BY <1>3, <1>4, <1>5, <1>6

\* close_tab() takes the tab out; there is another one, and one of them becomes current.
LEMMA TabClosedKeeps ==
  ASSUME BrowserInv, TabClosed
  PROVE  BrowserInv'
<1> USE BrowserConstants DEF BrowserInv, TabClosed, Invalidate, serviceVars, contentVars
<1>1. /\ call.page \in Range(tabs) /\ Len(tabs) > 1 /\ ~closed
      /\ tabs \in Seq(Pages) /\ Len(tabs) \in Nat /\ IsInjective(tabs)
  BY LenProperties DEF CallFits, Idle, NoCall, BrowserTypeOK, PagesAccounted
<1>2. TabPlace(call.page) \in DOMAIN tabs /\ tabs[TabPlace(call.page)] = call.page
  BY <1>1 DEF TabPlace, Range
<1>3. /\ tabs' \in Seq(Pages) /\ Len(tabs') = Len(tabs) - 1
      /\ Range(tabs') = Range(tabs) \ {call.page} /\ IsInjective(tabs')
  BY <1>1, <1>2, TabRemoved
<1>4. Head(tabs') \in Range(tabs') /\ Range(tabs') \subseteq Pages
  <2>1. tabs' # <<>>
    BY <1>1, <1>3, EmptySeq
  <2>2. Head(tabs') = tabs'[1] /\ 1 \in DOMAIN tabs'
    BY <1>1, <1>3, <2>1, HeadTailProperties, LenProperties
  <2>3. Range(tabs') \subseteq Pages
    BY <1>3, ElementOfSeq, LenProperties DEF Range
  <2> QED  BY <2>2, <2>3 DEF Range
<1>5. current' \in Range(tabs')
  BY <1>1, <1>3, <1>4 DEF PagesAccounted
<1>6. BrowserTypeOK'
  BY <1>3, <1>4, <1>5 DEF BrowserTypeOK
<1>7. CallFits' /\ InteractFits'
  BY DEF CallFits, InteractFits, Idle, NoCall
<1>8. SessionFits' /\ SnapshotFits'
  BY <1>1, <1>3 DEF SessionFits, SnapshotFits
<1>9. PagesAccounted'
  BY <1>1, <1>3, <1>5 DEF PagesAccounted, BrowserTypeOK
<1> QED  BY <1>6, <1>7, <1>8, <1>9

\* What a step must show that ends what was read and leaves the tabs alone.
LEMMA EndingKeeps ==
  ASSUME BrowserInv, elements' = {}, call' = NoCall, spent' = TRUE, shown' \in {shown, Nothing},
         UNCHANGED <<serviceVars, closed, open, adopting, asked, tabs, label, generation>>,
         doc' \in [Pages -> 0 .. MaxDocuments],
         \A q \in Pages : doc[q] # 0 => doc'[q] # 0,
         current' = current \/ current' \in Range(tabs)
  PROVE  BrowserInv'
<1> USE DEF BrowserInv, serviceVars
<1>1. Range(tabs) \subseteq Pages /\ adopting \subseteq Pages
  BY ElementOfSeq, LenProperties DEF BrowserTypeOK, Range
<1>2. BrowserTypeOK'
  <2>1. shown' \in Snapshots \cup {Nothing} /\ current' \in Pages \cup {Nothing}
    BY <1>1 DEF BrowserTypeOK
  <2> QED  BY <2>1 DEF BrowserTypeOK
<1>3. CallFits' /\ InteractFits'
  BY DEF CallFits, InteractFits, Idle, NoCall
<1>4. SessionFits' /\ SnapshotFits'
  BY <1>1 DEF SessionFits, SnapshotFits
<1>5. PagesAccounted'
  BY DEF PagesAccounted
<1> QED  BY <1>2, <1>3, <1>4, <1>5

\* A changed tab, a landing, a scroll, a finished interaction: nothing that was read survives.
LEMMA InvalidatingKeeps ==
  ASSUME BrowserInv,
         Lands \/ LandsUnsafe \/ Scroll \/ Touched \/ (\E p \in Pages : SwitchTab(p))
  PROVE  BrowserInv'
<1> USE DEF BrowserInv, Lands, LandsUnsafe, Scroll, Touched, SwitchTab, Invalidate, serviceVars,
            contentVars
<1>1. /\ elements' = {} /\ spent' = TRUE /\ shown' \in {shown, Nothing}
      /\ UNCHANGED <<serviceVars, closed, open, adopting, asked, tabs, label, generation>>
  OBVIOUS
<1>2. call' = NoCall
  BY DEF Usable, Idle
<1>3. current' = current \/ current' \in Range(tabs)
  BY DEF Known
<1>4. doc' \in [Pages -> 0 .. MaxDocuments] /\ \A q \in Pages : doc[q] # 0 => doc'[q] # 0
  <2>1. doc \in [Pages -> 0 .. MaxDocuments]
    BY DEF BrowserTypeOK
  <2>2. CASE doc' = doc
    BY <2>1, <2>2
  <2>3. CASE doc' # doc
    <3>1. /\ doc[call.page] < MaxDocuments /\ call.page \in open /\ open \subseteq Pages
          /\ doc' = [doc EXCEPT ![call.page] = @ + 1]
      BY <2>3 DEF BrowserTypeOK
    <3> QED  BY BrowserConstants, <2>1, <3>1
  <2> QED  BY <2>2, <2>3
<1> QED  BY <1>1, <1>2, <1>3, <1>4, EndingKeeps

\* A navigation reaches its page.
LEMMA LoadsKeeps ==
  ASSUME BrowserInv, Loads
  PROVE  BrowserInv'
<1> USE BrowserConstants DEF BrowserInv, Loads, serviceVars, snapshotVars
<1>1. /\ ~closed /\ DOMAIN call' = DOMAIN NoCall /\ call'.at = "landed"
      /\ call'.page = call.page /\ call.page \in Pages
  BY DEF CallFits, Idle, NoCall
<1>2. doc' \in [Pages -> 0 .. MaxDocuments] /\ \A q \in Pages : doc[q] # 0 => doc'[q] # 0
  <2>1. doc \in [Pages -> 0 .. MaxDocuments]
    BY DEF BrowserTypeOK
  <2> QED  BY <1>1, <2>1
<1>3. Range(tabs) \subseteq Pages /\ adopting \subseteq Pages
  BY ElementOfSeq, LenProperties DEF BrowserTypeOK, Range
<1>4. BrowserTypeOK'
  BY <1>2 DEF BrowserTypeOK
<1>5. CallFits' /\ InteractFits'
  BY <1>1 DEF CallFits, InteractFits, Where
<1>6. SessionFits' /\ SnapshotFits'
  BY <1>2, <1>3 DEF SessionFits, SnapshotFits
<1>7. PagesAccounted'
  BY DEF PagesAccounted
<1> QED  BY <1>4, <1>5, <1>6, <1>7

\* snapshot() gives out a number, at most one after another in one session.
LEMMA NumberSnapshotKeeps ==
  ASSUME BrowserInv, NumberSnapshot
  PROVE  BrowserInv'
<1> USE BrowserConstants DEF BrowserInv, NumberSnapshot, serviceVars, contentVars
<1>1. /\ ~closed /\ DOMAIN call' = DOMAIN NoCall /\ call'.at = "elements"
      /\ call'.page = call.page /\ call.page \in Pages
  BY DEF CallFits, Idle, NoCall
<1>2. generation' \in 1 .. MaxSnapshots
  BY <1>1 DEF BrowserTypeOK, SessionFits
<1>3. BrowserTypeOK'
  BY <1>2 DEF BrowserTypeOK
<1>4. CallFits' /\ InteractFits'
  BY <1>1, <1>2 DEF CallFits, InteractFits, Where
<1>5. SessionFits' /\ SnapshotFits' /\ PagesAccounted'
  BY DEF SessionFits, SnapshotFits, PagesAccounted
<1> QED  BY <1>3, <1>4, <1>5

\* snapshot() ends: the session's element and the service's snapshot are what is there now.
LEMMA SnapshotTakenKeeps ==
  ASSUME BrowserInv, SnapshotTaken
  PROVE  BrowserInv'
<1> USE BrowserConstants DEF BrowserInv, SnapshotTaken, serviceVars, contentVars
<1> DEFINE p == call.page
           e == [id |-> generation, page |-> p, doc |-> doc[p], label |-> label[p]]
           s == [session |-> session, id |-> generation, page |-> p, doc |-> doc[p],
                 label |-> label[p]]
<1>1. /\ ~closed /\ p \in Pages /\ generation # 0 /\ session # 0 /\ call' = NoCall
      /\ label[p] \in Labels /\ doc[p] \in Nat
  BY DEF CallFits, Idle, NoCall, SessionFits, BrowserTypeOK
<1>2. e \in Bound /\ s \in Snapshots
  <2>1. generation \in 1 .. MaxSnapshots /\ session \in 1 .. MaxSessions
    BY <1>1 DEF BrowserTypeOK
  <2> QED  BY <1>1, <2>1 DEF Bound, Snapshots
<1>3. (elements' = {e} /\ shown' = s) \/ (elements' = {} /\ shown' = Nothing)
  OBVIOUS
<1>4. BrowserTypeOK'
  BY <1>2, <1>3 DEF BrowserTypeOK
<1>5. CallFits' /\ InteractFits'
  BY DEF CallFits, InteractFits, Idle, NoCall
<1>6. SnapshotFits'
  BY <1>3 DEF SnapshotFits
<1>7. SessionFits' /\ PagesAccounted'
  BY <1>1 DEF SessionFits, PagesAccounted
<1> QED  BY <1>4, <1>5, <1>6, <1>7

\* Nothing the invariant names changes in a step that stutters.
LEMMA BrowserStutters == BrowserInv /\ UNCHANGED browserVars => BrowserInv'
  BY DEF browserVars, BrowserInv, BrowserTypeOK, CallFits, Idle, SessionFits, SnapshotFits,
         InteractFits, PagesAccounted

\* Every step keeps the invariant.
LEMMA BrowserStepKeeps == BrowserInv /\ [BrowserNext]_browserVars => BrowserInv'
<1> SUFFICES ASSUME BrowserInv, BrowserNext PROVE BrowserInv'
  BY BrowserStutters
<1>1. CASE StartSession
  BY <1>1, StartSessionKeeps
<1>2. CASE ServiceClose \/ ShutdownCloses
  BY <1>2, ClosingKeeps
<1>3. CASE ServiceShutdown
  BY <1>3, ServiceShutdownKeeps
<1>4. ASSUME NEW p \in Pages, PopUp(p) PROVE BrowserInv'
  BY <1>4, PopUpKeeps
<1>5. ASSUME NEW p \in Pages, AdoptKnown(p) \/ AdoptRefused(p) \/ PageGone(p) PROVE BrowserInv'
  BY <1>5, DecidingKeeps
<1>6. ASSUME NEW p \in Pages, Adopt(p) PROVE BrowserInv'
  BY <1>6, AdoptKeeps
<1>7. ASSUME NEW p \in Pages, PageMoves(p) PROVE BrowserInv'
  BY <1>7, PageMovesKeeps
<1>8. ASSUME NEW p \in Pages, TabAppears(p) PROVE BrowserInv'
  BY <1>8, TabAppearsKeeps
<1>9. CASE NewTab \/ Navigate \/ History \/ Read
  BY <1>9, BeginningKeeps
<1>10. CASE Lands \/ LandsUnsafe \/ Scroll \/ Touched \/ (\E p \in Pages : SwitchTab(p))
  BY <1>10, InvalidatingKeeps
<1>11. CASE TabOpened
  BY <1>11, TabOpenedKeeps
<1>12. CASE TabClosed
  BY <1>12, TabClosedKeeps
<1>13. CASE Loads
  BY <1>13, LoadsKeeps
<1>14. CASE NumberSnapshot
  BY <1>14, NumberSnapshotKeeps
<1>15. CASE SnapshotTaken
  BY <1>15, SnapshotTakenKeeps
<1>16. ASSUME NEW id \in 1 .. MaxSnapshots, NEW n \in Labels, Interact(id, n) PROVE BrowserInv'
  BY <1>16, InteractKeeps
<1>17. CASE Verify \/ Touch \/ CallEnds
  BY <1>17, UsingKeeps
<1>18. ASSUME NEW p \in Pages, CloseTab(p) PROVE BrowserInv'
  BY <1>18, CloseTabKeeps
<1> QED  BY <1>1, <1>2, <1>3, <1>4, <1>5, <1>6, <1>7, <1>8, <1>9, <1>10, <1>11, <1>12, <1>13, <1>14,
            <1>15, <1>16, <1>17, <1>18 DEF BrowserNext

\* The invariant holds of every state of every behaviour.
LEMMA BrowserAlways == BrowserSpec => []BrowserInv
  BY BrowserInitInv, BrowserStepKeeps, PTL DEF BrowserSpec

\* The variables of the session and of its service have their types: a snapshot's number is
\* within its bound, a tab is a page, an element is one of the snapshot's.
THEOREM BrowserTypeCorrect == BrowserSpec => []BrowserTypeOK
<1>1. BrowserInv => BrowserTypeOK
  BY DEF BrowserInv
<1> QED  BY <1>1, BrowserAlways, PTL

\* No page of an open session is beyond the host's reach, the cap on tabs holds and the current
\* tab is one of them, however new_tab, close_tab, the page event and its task overlap or end
\* early.
THEOREM PagesAreAccounted == BrowserSpec => []PagesAccounted
<1>1. BrowserInv => PagesAccounted
  BY DEF BrowserInv
<1> QED  BY <1>1, BrowserAlways, PTL

\* Only _verify_current lets an interaction pass, and only the use of its handle touches.
LEMMA OnlyVerifyPasses ==
  ASSUME BrowserNext, ~Verify, ~Touch
  PROVE  ~(call.at = "found" /\ call'.at = "verified")
         /\ ~(call.at = "verified" /\ call'.at = "touched")
<1> SUFFICES ASSUME call.at \in {"found", "verified"}
             PROVE  call' = call \/ call'.at \notin {"verified", "touched"}
  OBVIOUS
<1>1. call # NoCall
  BY DEF NoCall
<1>2. NoCall.at = "none"
  BY DEF NoCall
<1>3. ~Idle /\ ~Usable
  BY <1>1 DEF Idle, Usable
<1>4. \/ ServiceShutdown \/ Touched \/ CallEnds
      \/ \E p \in Pages : PopUp(p) \/ PageGone(p) \/ PageMoves(p)
  BY <1>3 DEF BrowserNext, StartSession, ServiceClose, ShutdownCloses, AdoptKnown, AdoptRefused,
              Adopt, TabAppears, CloseTab, SwitchTab, NewTab, TabOpened, TabClosed, Navigate,
              History, Loads, Lands, LandsUnsafe, Scroll, Read, NumberSnapshot, SnapshotTaken,
              Interact
<1> QED  BY <1>2, <1>4 DEF ServiceShutdown, Touched, CallEnds, PopUp, PageGone, PageMoves

\* An approved click, text or key reaches the node of the snapshot it was approved for, on the
\* current tab of the same session, with nothing else done to the page by the host since.
THEOREM ActsAreOnWhatWasShown == BrowserSpec => ActsOnWhatWasShown
<1> DEFINE TouchesIt ==
      /\ call.at = "found" /\ call'.at = "verified"
            => label[call.basis.page] = call.label
      /\ call.at = "verified" /\ call'.at = "touched"
            => /\ ~spent
               /\ call.basis.session = session /\ call.basis.label = call.label
               /\ current = call.basis.page /\ call.basis.page \in open
               /\ doc[call.basis.page] = call.basis.doc
<1>1. ASSUME BrowserInv, BrowserNext PROVE TouchesIt
  <2>1. CASE Verify
    <3>1. call.at = "found" /\ label[call.handle.page] = call.handle.label
      BY <2>1 DEF Verify, Unchanged
    <3> QED  BY <1>1, <3>1 DEF BrowserInv, InteractFits
  <2>2. CASE Touch
    <3>1. /\ call.at = "verified" /\ call.handle.page \in open
          /\ doc[call.handle.page] = call.handle.doc
      BY <2>2 DEF Touch, StillThere
    <3> QED  BY <1>1, <3>1 DEF BrowserInv, InteractFits
  <2>3. CASE ~Verify /\ ~Touch
    BY <1>1, <2>3, OnlyVerifyPasses
  <2> QED  BY <2>1, <2>2, <2>3
<1>2. BrowserInv /\ [BrowserNext]_browserVars => [TouchesIt]_browserVars
  BY <1>1
<1>3. ActsOnWhatWasShown <=> [][TouchesIt]_browserVars
  BY DEF ActsOnWhatWasShown
<1> HIDE DEF TouchesIt
<1> QED  BY <1>2, <1>3, BrowserAlways, PTL DEF BrowserSpec

----------------------------------------------------------------------------
(* The pages of the window.                                                *)

\* How far a task of the window has got.
Stages == {"none", "scheduled", "running", "checked", "read", "done"}

\* A task of the window; a change is about the very row the user saw.
ClickFits(click) ==
    /\ DOMAIN click = DOMAIN NoClick /\ click.at \in Stages /\ click.age \in Nat
    /\ click.kind = "change" /\ click.at \in {"scheduled", "running", "checked"}
          => click.row = click.seen

\* It has a result, which nobody has been told yet.
HasResult(click) == click.at \in {"read", "done"} /\ click.got # NoRecord

\* On a page whose tasks take turns, results come in the order of their age: one task is
\* underway at a time, one result waits to be told, and the next is not older.
ResultsInOrder ==
    page # "plugins" =>
        /\ told <= age
        /\ \A j, k \in Underway : j = k
        /\ \A k \in Slots : HasResult(clicks[k]) => told <= clicks[k].age /\ clicks[k].age <= age
        /\ \A j, k \in Slots :
              HasResult(clicks[j]) /\ clicks[j].at = "done" /\ HasResult(clicks[k]) =>
                  j = k \/ (clicks[k].at = "read" /\ clicks[j].age <= clicks[k].age)

PagesInv ==
    /\ DOMAIN records = RecordIds /\ DOMAIN clicks = Slots
    /\ age \in Nat /\ told \in Nat
    /\ \A k \in Slots : ClickFits(clicks[k])
    /\ ResultsInOrder

\* A free place for a task has the fields of a task and is nowhere.
LEMMA NoClickFits == ClickFits(NoClick) /\ NoClick.at = "none" /\ ~HasResult(NoClick)
  BY DEF ClickFits, NoClick, Stages, HasResult

\* At the start nothing was clicked.
LEMMA PagesInitInv == PagesInit => PagesInv
<1> SUFFICES ASSUME PagesInit PROVE PagesInv
  OBVIOUS
<1> USE DEF PagesInit, NothingClicked
<1>1. \A k \in Slots : clicks[k] = NoClick
  OBVIOUS
<1>2. ResultsInOrder
  BY <1>1, NoClickFits DEF ResultsInOrder, Underway
<1> QED  BY <1>1, <1>2, NoClickFits DEF PagesInv

\* What a step of one task must show: it begins only when it may, its result is as old as the
\* records it read, and it waits to be told only when no other does.
LEMMA OneClickKeeps ==
  ASSUME PagesInv, NEW k \in Slots, NEW c,
         clicks' = [clicks EXCEPT ![k] = c], ClickFits(c), page' = page,
         DOMAIN records' = RecordIds, age' \in Nat, age' >= age,
         \/ told' = told
         \/ HasResult(clicks[k]) /\ clicks[k].at = "done" /\ told' = clicks[k].age /\ ~HasResult(c),
         page # "plugins" /\ c.at \in {"running", "checked", "read"}
            => k \in Underway \/ ~ControllerBusy,
         HasResult(c) => \/ c.at = "read" /\ c.age = age'
                         \/ /\ c.at = "done" /\ HasResult(clicks[k]) /\ clicks[k].at = "read"
                            /\ c.age = clicks[k].age,
         page # "plugins" /\ HasResult(c) /\ c.at = "done" => \A j \in Slots : clicks[j].at # "done"
  PROVE  PagesInv'
<1> USE DEF PagesInv
<1>1. /\ DOMAIN clicks' = Slots /\ clicks'[k] = c
      /\ \A j \in Slots : j # k => clicks'[j] = clicks[j]
  OBVIOUS
<1>2. \A j \in Slots : ClickFits(clicks'[j])
  BY <1>1
<1>3. told' \in Nat
  BY DEF ClickFits
<1>4. ASSUME page # "plugins" PROVE ResultsInOrder'
  <2> DEFINE Waits(j) == HasResult(clicks[j])
  <2>1. /\ told <= age
        /\ \A i, j \in Underway : i = j
        /\ \A j \in Slots : Waits(j) => told <= clicks[j].age /\ clicks[j].age <= age
        /\ \A i, j \in Slots :
              Waits(i) /\ clicks[i].at = "done" /\ Waits(j) =>
                  i = j \/ (clicks[j].at = "read" /\ clicks[i].age <= clicks[j].age)
    BY <1>4 DEF ResultsInOrder
  <2>2. \A j \in Slots : clicks[j].age \in Nat
    BY DEF ClickFits
  <2> HIDE DEF Waits
  <2>3. \A j \in Slots : HasResult(clicks'[j]) => IF j = k THEN HasResult(c) ELSE Waits(j)
    BY <1>1 DEF Waits
  <2>4. told <= told' /\ told' <= age'
    BY <1>3, <2>1, <2>2 DEF Waits
  <2>5. \A i, j \in Underway' : i = j
    <3>1. Underway' = {j \in Slots : clicks'[j].at \in {"running", "checked", "read"}}
      BY DEF Underway
    <3>2. \A j \in Underway' : j = k \/ j \in Underway
      BY <1>1, <3>1 DEF Underway
    <3>3. k \in Underway' => k \in Underway \/ Underway = {}
      <4>1. k \in Underway' => c.at \in {"running", "checked", "read"}
        BY <1>1, <3>1
      <4>2. ~ControllerBusy => Underway = {}
        BY <1>4 DEF ControllerBusy, ThroughRuntime
      <4> QED  BY <1>4, <4>1, <4>2
    <3> QED  BY <2>1, <3>2, <3>3
  <2>6. ASSUME NEW j \in Slots, HasResult(clicks'[j])
        PROVE  told' <= clicks'[j].age /\ clicks'[j].age <= age'
    <3>1. CASE j = k
      <4>1. HasResult(c) /\ told' = told
        BY <1>1, <2>6, <3>1
      <4>2. c.age = age' \/ (c.age = clicks[k].age /\ Waits(k))
        BY <4>1 DEF Waits
      <4> QED  BY <1>1, <1>3, <2>1, <2>2, <2>4, <3>1, <4>1, <4>2
    <3>2. CASE j # k
      <4>1. Waits(j) /\ clicks'[j] = clicks[j]
        BY <1>1, <2>3, <2>6, <3>2
      <4>2. told' = told \/ (Waits(k) /\ clicks[k].at = "done" /\ told' = clicks[k].age)
        BY DEF Waits
      <4>3. told' <= clicks[j].age
        BY <2>1, <3>2, <4>1, <4>2
      <4> QED  BY <2>1, <2>2, <4>1, <4>3
    <3> QED  BY <3>1, <3>2
  <2>7. ASSUME NEW i \in Slots, NEW j \in Slots, i # j,
               HasResult(clicks'[i]), clicks'[i].at = "done", HasResult(clicks'[j])
        PROVE  clicks'[j].at = "read" /\ clicks'[i].age <= clicks'[j].age
    <3>1. CASE i # k /\ j # k
      <4>1. clicks'[i] = clicks[i] /\ clicks'[j] = clicks[j] /\ Waits(i) /\ Waits(j)
        BY <1>1, <2>3, <2>7, <3>1
      <4> QED  BY <2>1, <2>7, <4>1
    <3>2. CASE i = k
      <4>1. /\ HasResult(c) /\ c.at = "done" /\ clicks[k].at = "read" /\ Waits(j)
            /\ clicks'[j] = clicks[j]
        BY <1>1, <2>3, <2>7, <3>2 DEF Waits
      <4>2. clicks[j].at = "read"
        BY <1>4, <4>1 DEF Waits, HasResult
      <4> QED  BY <2>1, <2>7, <3>2, <4>1, <4>2 DEF Underway
    <3>3. CASE j = k
      <4>1. /\ HasResult(c) /\ Waits(i) /\ clicks'[i] = clicks[i] /\ clicks[i].at = "done"
            /\ clicks'[j] = c
        BY <1>1, <2>3, <2>7, <3>3
      <4>2. c.at = "read" /\ c.age = age'
        BY <1>4, <4>1
      <4> QED  BY <2>1, <2>2, <4>1, <4>2
    <3> QED  BY <3>1, <3>2, <3>3
  <2> QED  BY <2>4, <2>5, <2>6, <2>7 DEF ResultsInOrder
<1>5. ResultsInOrder'
  BY <1>4 DEF ResultsInOrder
<1> QED  BY <1>1, <1>2, <1>3, <1>5

\* What a step must show that leaves the tasks alone.
LEMMA NoClickMoves ==
  ASSUME PagesInv, UNCHANGED <<clicks, page, told>>, DOMAIN records' = RecordIds,
         age' \in Nat, age' >= age
  PROVE  PagesInv'
<1> USE DEF PagesInv
<1>1. \A k \in Slots : clicks[k].age \in Nat
  BY DEF ClickFits
<1>2. ResultsInOrder'
  BY <1>1 DEF ResultsInOrder, Underway
<1> QED  BY <1>2

\* Every change of the source makes it one older and leaves its records in their places.
LEMMA SourceAges ==
  ASSUME PagesInv
  PROVE  /\ \A click : Effect(click) => DOMAIN records' = RecordIds /\ age' = age + 1
         /\ UNCHANGED sourceVars => DOMAIN records' = RecordIds /\ age' = age
  BY DEF PagesInv, Effect, sourceVars

\* A click of the user, or another turn, takes a free place and is not underway yet, or takes
\* it when nothing is.
LEMMA SchedulingKeeps ==
  ASSUME PagesInv, NEW click, ClickFits(click), click.at \in {"scheduled", "running"},
         click.at = "running" => ~ControllerBusy, Schedule(click)
  PROVE  PagesInv'
<1>1. PICK k \in Slots : clicks' = [clicks EXCEPT ![k] = click]
  BY DEF Schedule
<1>2. ~HasResult(click)
  BY DEF HasResult
<1>3. page' = page /\ told' = told /\ records' = records /\ age' = age
  BY DEF Schedule, sourceVars
<1>9. DOMAIN records' = RecordIds /\ age' \in Nat /\ age' >= age
  BY <1>1, <1>2, <1>3 DEF PagesInv
<1> QED  BY <1>1, <1>2, <1>3, <1>9, OneClickKeeps

\* What the page's buttons schedule.
LEMMA ButtonsFit ==
  /\ ClickFits([NoClick EXCEPT !.kind = "load", !.at = "scheduled"])
  /\ ClickFits([NoClick EXCEPT !.kind = "other", !.at = "running"])
  /\ \A row : ClickFits([NoClick EXCEPT !.kind = "search", !.at = "scheduled", !.row = row])
  /\ \A op, row, new : ClickFits([NoClick EXCEPT !.kind = "change", !.at = "scheduled", !.op = op,
                                                 !.row = row, !.new = new, !.seen = row])
  BY DEF ClickFits, NoClick, Stages

\* Buttons, rows and dialogs only schedule tasks, whose change is of the row that was shown.
LEMMA UserKeeps ==
  ASSUME PagesInv, UserNext \/ OtherTurnBegins
  PROVE  PagesInv'
<1>1. CASE (\E n \in RecordIds : SelectRow(n)) \/ EditReminder \/ DismissEdit
  <2>1. UNCHANGED <<clicks, page, told>> /\ records' = records /\ age' = age
    BY <1>1 DEF SelectRow, EditReminder, DismissEdit, sourceVars
  <2> QED  BY <2>1, NoClickMoves DEF PagesInv
<1>2. CASE LoadPage \/ (\E n \in RecordIds : SearchMemories(n))
  <2>1. \E click : ClickFits(click) /\ click.at = "scheduled" /\ Schedule(click)
    <3>1. CASE LoadPage
      <4> DEFINE click == [NoClick EXCEPT !.kind = "load", !.at = "scheduled"]
      <4>1. ClickFits(click) /\ click.at = "scheduled" /\ Schedule(click)
        BY <3>1, ButtonsFit DEF LoadPage, NoClick
      <4> QED  BY <4>1
    <3>2. ASSUME NEW n \in RecordIds, SearchMemories(n)
          PROVE  \E click : ClickFits(click) /\ click.at = "scheduled" /\ Schedule(click)
      <4> DEFINE click == [NoClick EXCEPT !.kind = "search", !.at = "scheduled",
                                          !.row = [id |-> n, text |-> NoRecord]]
      <4>1. ClickFits(click) /\ click.at = "scheduled" /\ Schedule(click)
        BY <3>2, ButtonsFit DEF SearchMemories, NoClick
      <4> QED  BY <4>1
    <3> QED  BY <1>2, <3>1, <3>2
  <2> QED  BY <2>1, SchedulingKeeps
<1>3. CASE \/ DeleteMemory \/ RemoveReminder
           \/ \E text \in RecordTexts :
                 CreateReminder(text) \/ SwitchPlugin(text) \/ AcceptEdit(text)
  <2>1. PICK op, row, new : ScheduleChange(op, row, new, row)
    BY <1>3 DEF DeleteMemory, RemoveReminder, CreateReminder, SwitchPlugin, AcceptEdit
  <2> DEFINE click == [NoClick EXCEPT !.kind = "change", !.at = "scheduled", !.op = op,
                                      !.row = row, !.new = new, !.seen = row]
  <2>2. ClickFits(click) /\ click.at = "scheduled" /\ Schedule(click)
    BY <2>1, ButtonsFit DEF ScheduleChange, NoClick
  <2> HIDE DEF click
  <2> QED  BY <2>2, SchedulingKeeps
<1>4. CASE OtherTurnBegins
  <2> DEFINE click == [NoClick EXCEPT !.kind = "other", !.at = "running"]
  <2>1. ClickFits(click) /\ click.at = "running" /\ Schedule(click) /\ ~ControllerBusy
    BY <1>4, ButtonsFit DEF OtherTurnBegins, NoClick
  <2> HIDE DEF click
  <2> QED  BY <2>1, SchedulingKeeps
<1> QED  BY <1>1, <1>2, <1>3, <1>4 DEF UserNext

\* A task gives its place back.
LEMMA FreeingKeeps ==
  ASSUME PagesInv, NEW k \in Slots, Frees(k), page' = page, records' = records, age' = age,
         \/ told' = told
         \/ HasResult(clicks[k]) /\ clicks[k].at = "done" /\ told' = clicks[k].age
  PROVE  PagesInv'
<1>1. clicks' = [clicks EXCEPT ![k] = NoClick]
  BY DEF Frees
<1>9. DOMAIN records' = RecordIds /\ age' \in Nat /\ age' >= age
  BY <1>1 DEF PagesInv
<1> QED  BY <1>1, NoClickFits, <1>9, OneClickKeeps

\* A task moves on and keeps what it holds.
LEMMA Moved ==
  ASSUME PagesInv, NEW k \in Slots, NEW stage \in Stages, Move(k, stage)
  PROVE  /\ clicks' = [clicks EXCEPT ![k] = [clicks[k] EXCEPT !.at = stage]]
         /\ [clicks[k] EXCEPT !.at = stage].at = stage
         /\ [clicks[k] EXCEPT !.at = stage].age = clicks[k].age
         /\ [clicks[k] EXCEPT !.at = stage].got = clicks[k].got
         /\ \/ stage \notin {"scheduled", "running", "checked"}
            \/ clicks[k].at \in {"scheduled", "running", "checked"}
            => ClickFits([clicks[k] EXCEPT !.at = stage])
<1>1. ClickFits(clicks[k])
  BY DEF PagesInv
<1>2. clicks' = [clicks EXCEPT ![k] = [clicks[k] EXCEPT !.at = stage]]
  BY DEF Move, PagesInv
<1> DEFINE c == [clicks[k] EXCEPT !.at = stage]
<1>3. /\ DOMAIN c = DOMAIN NoClick /\ c.at = stage /\ c.age = clicks[k].age
      /\ c.got = clicks[k].got /\ c.kind = clicks[k].kind /\ c.row = clicks[k].row
      /\ c.seen = clicks[k].seen
  BY <1>1 DEF ClickFits, NoClick
<1> HIDE DEF c
<1>4. \/ stage \notin {"scheduled", "running", "checked"}
      \/ clicks[k].at \in {"scheduled", "running", "checked"}
      => ClickFits(c)
  BY <1>1, <1>3 DEF ClickFits
<1> QED  BY <1>2, <1>3, <1>4 DEF c

\* A task begins only when no other of its kind is underway.
LEMMA BeginsKeeps ==
  ASSUME PagesInv, NEW k \in Slots, Begins(k)
  PROVE  PagesInv'
<1> DEFINE c == [clicks[k] EXCEPT !.at = "running"]
<1>1. "running" \in Stages /\ Move(k, "running") /\ clicks[k].at = "scheduled"
  BY DEF Stages, Begins
<1>2. clicks' = [clicks EXCEPT ![k] = c] /\ c.at = "running" /\ ClickFits(c)
  BY <1>1, Moved
<1> HIDE DEF c
<1>3. page' = page /\ told' = told /\ records' = records /\ age' = age
  BY DEF Begins, sourceVars
<1>4. page # "plugins" => ~ControllerBusy
  BY DEF Begins, ThroughRuntime
<1>5. ~HasResult(c)
  BY <1>2 DEF HasResult
<1>9. DOMAIN records' = RecordIds /\ age' \in Nat /\ age' >= age
  BY <1>2, <1>3, <1>4, <1>5 DEF PagesInv
<1> QED  BY <1>2, <1>3, <1>4, <1>5, <1>9, OneClickKeeps

\* A reminder is compared by a task that is underway.
LEMMA ChecksKeeps ==
  ASSUME PagesInv, NEW k \in Slots, Checks(k)
  PROVE  PagesInv'
<1> DEFINE c == [clicks[k] EXCEPT !.at = "checked"]
<1>1. "checked" \in Stages /\ Move(k, "checked") /\ clicks[k].at = "running"
  BY DEF Stages, Checks
<1>2. clicks' = [clicks EXCEPT ![k] = c] /\ c.at = "checked" /\ ClickFits(c)
  BY <1>1, Moved
<1> HIDE DEF c
<1>3. page' = page /\ told' = told /\ records' = records /\ age' = age
  BY DEF Checks, sourceVars
<1>4. k \in Underway
  BY <1>1 DEF Underway
<1>5. ~HasResult(c)
  BY <1>2 DEF HasResult
<1>6. DOMAIN records' = RecordIds /\ age' \in Nat /\ age' >= age
  BY <1>3 DEF PagesInv
<1> QED  BY <1>2, <1>3, <1>4, <1>5, <1>6, OneClickKeeps

\* A result waits to be told only when no other does.
LEMMA ArrivesKeeps ==
  ASSUME PagesInv, NEW k \in Slots, Arrives(k)
  PROVE  PagesInv'
<1> DEFINE c == [clicks[k] EXCEPT !.at = "done"]
<1>1. "done" \in Stages /\ Move(k, "done") /\ clicks[k].at = "read"
  BY DEF Stages, Arrives
<1>2. /\ clicks' = [clicks EXCEPT ![k] = c] /\ c.at = "done" /\ ClickFits(c)
      /\ c.age = clicks[k].age /\ c.got = clicks[k].got
  BY <1>1, Moved
<1> HIDE DEF c
<1>3. page' = page /\ told' = told /\ records' = records /\ age' = age
  BY DEF Arrives, sourceVars
<1>4. page # "plugins" => \A j \in Slots : clicks[j].at # "done"
  BY DEF Arrives, ThroughRuntime
<1>5. HasResult(c) => HasResult(clicks[k])
  BY <1>1, <1>2 DEF HasResult
<1>9. DOMAIN records' = RecordIds /\ age' \in Nat /\ age' >= age
  BY <1>1, <1>2, <1>3, <1>4, <1>5 DEF PagesInv
<1> QED  BY <1>1, <1>2, <1>3, <1>4, <1>5, <1>9, OneClickKeeps

\* The answer to a task is as old as the records.
LEMMA AnswerFits ==
  ASSUME NEW click, NEW what, NEW n \in Nat
  PROVE  /\ ClickFits(Answer(click, what, n)) /\ Answer(click, what, n).at = "read"
         /\ Answer(click, what, n).age = n
  BY DEF ClickFits, Answer, NoClick, Stages

\* Records are read, and changed, by a task that is underway.
LEMMA AnsweringKeeps ==
  ASSUME PagesInv, NEW k \in Slots, NEW what, k \in Underway,
         clicks' = [clicks EXCEPT ![k] = Answer(clicks[k], what, age')],
         page' = page, told' = told, DOMAIN records' = RecordIds, age' \in Nat, age' >= age
  PROVE  PagesInv'
<1>1. PICK c : c = Answer(clicks[k], what, age')
  OBVIOUS
<1>2. ClickFits(c) /\ c.at = "read" /\ c.age = age'
  BY <1>1, AnswerFits
<1>3. clicks' = [clicks EXCEPT ![k] = c]
  BY <1>1
<1>4. HasResult(c) => c.at = "read" /\ c.age = age'
  BY <1>2
<1>5. c.at # "done"
  BY <1>2
<1> QED  BY <1>2, <1>3, <1>4, <1>5, OneClickKeeps

\* A list is read.
LEMMA ReadsRecordsKeeps ==
  ASSUME PagesInv, NEW k \in Slots, ReadsRecords(k)
  PROVE  PagesInv'
<1>1. page' = page /\ told' = told /\ records' = records /\ age' = age
  BY DEF ReadsRecords, sourceVars
<1>2. PICK what : clicks' = [clicks EXCEPT ![k] = Answer(clicks[k], what, age')]
  BY <1>1 DEF ReadsRecords
<1>3. k \in Underway /\ age' \in Nat /\ age' >= age /\ DOMAIN records' = RecordIds
  BY <1>1 DEF ReadsRecords, Underway, PagesInv
<1> QED  BY <1>1, <1>2, <1>3, AnsweringKeeps

\* A change is made.
LEMMA MakesChangeKeeps ==
  ASSUME PagesInv, NEW k \in Slots, MakesChange(k)
  PROVE  PagesInv'
<1>1. /\ k \in Underway /\ page' = page /\ told' = told
      /\ clicks' = [clicks EXCEPT ![k] = Answer(clicks[k], <<>>, age')]
  BY DEF MakesChange, Underway
<1>2. Effect(clicks[k]) \/ UNCHANGED sourceVars
  BY DEF MakesChange
<1>3. DOMAIN records' = RecordIds /\ age' \in {age, age + 1}
  BY <1>2, SourceAges
<1>4. age' \in Nat /\ age' >= age
  BY <1>3 DEF PagesInv
<1> QED  BY <1>1, <1>3, <1>4, AnsweringKeeps

\* An action that failed has no result.
LEMMA GoesWrongKeeps ==
  ASSUME PagesInv, NEW k \in Slots, GoesWrong(k)
  PROVE  PagesInv'
<1> DEFINE c == [NoClick EXCEPT !.kind = clicks[k].kind, !.at = "done"]
<1>1. ClickFits(c) /\ c.at = "done" /\ c.got = NoRecord
  BY DEF ClickFits, NoClick, Stages
<1>2. /\ clicks' = [clicks EXCEPT ![k] = c]
      /\ page' = page /\ told' = told /\ records' = records /\ age' = age
  BY DEF GoesWrong, sourceVars
<1> HIDE DEF c
<1>3. ~HasResult(c)
  BY <1>1 DEF HasResult
<1>9. DOMAIN records' = RecordIds /\ age' \in Nat /\ age' >= age
  BY <1>1, <1>2, <1>3 DEF PagesInv
<1> QED  BY <1>1, <1>2, <1>3, <1>9, OneClickKeeps

\* A task that was turned away, or whose result is told, gives its place back.
LEMMA TellingKeeps ==
  ASSUME PagesInv, NEW k \in Slots,
         TurnedAway(k) \/ RendersPage(k) \/ OtherTurnEnds(k) \/ TellsResult(k)
  PROVE  PagesInv'
<1> USE DEF sourceVars
<1>1. CASE TurnedAway(k) \/ OtherTurnEnds(k)
  <2>1. Frees(k) /\ page' = page /\ records' = records /\ age' = age /\ told' = told
    BY <1>1 DEF TurnedAway, OtherTurnEnds
  <2> QED  BY <2>1, FreeingKeeps
<1>2. CASE RendersPage(k)
  <2>1. /\ Frees(k) /\ page' = page /\ records' = records /\ age' = age
        /\ \/ told' = told
           \/ clicks[k].at = "done" /\ clicks[k].got # NoRecord /\ told' = clicks[k].age
    BY <1>2 DEF RendersPage
  <2> QED  BY <2>1, FreeingKeeps DEF HasResult
<1>3. CASE TellsResult(k) /\ clicks[k].got = NoRecord
  <2>1. Frees(k) /\ page' = page /\ records' = records /\ age' = age /\ told' = told
    BY <1>3 DEF TellsResult
  <2> QED  BY <2>1, FreeingKeeps
<1>4. CASE TellsResult(k) /\ clicks[k].got # NoRecord
  <2> DEFINE c == [NoClick EXCEPT !.kind = "load", !.at = "scheduled"]
  <2>1. ClickFits(c) /\ c.at = "scheduled"
    BY ButtonsFit DEF NoClick
  <2>2. /\ clicks' = [clicks EXCEPT ![k] = c] /\ clicks[k].at = "done" /\ told' = clicks[k].age
        /\ page' = page /\ records' = records /\ age' = age
    BY <1>4 DEF TellsResult
  <2> HIDE DEF c
  <2>3. HasResult(clicks[k]) /\ ~HasResult(c)
    BY <1>4, <2>1, <2>2 DEF HasResult
  <2>9. DOMAIN records' = RecordIds /\ age' \in Nat /\ age' >= age
    BY <2>1, <2>2, <2>3 DEF PagesInv
  <2> QED  BY <2>1, <2>2, <2>3, <2>9, OneClickKeeps
<1> QED  BY <1>1, <1>2, <1>3, <1>4

\* The source changes by itself, or a change arrives whose task was cancelled.
LEMMA ElsewhereKeeps ==
  ASSUME PagesInv,
         \/ \E click \in late : LateChange(click)
         \/ \E r \in RecordIds, text \in RecordTexts \cup {NoRecord} : OthersChange(r, text)
  PROVE  PagesInv'
<1>1. UNCHANGED <<clicks, page, told>>
  BY DEF LateChange, OthersChange
<1>2. DOMAIN records' = RecordIds /\ age' \in {age, age + 1}
  <2>1. ASSUME NEW click, LateChange(click)
        PROVE  DOMAIN records' = RecordIds /\ age' \in {age, age + 1}
    BY <2>1, SourceAges DEF LateChange
  <2>2. ASSUME NEW r, NEW text, OthersChange(r, text)
        PROVE  DOMAIN records' = RecordIds /\ age' \in {age, age + 1}
    BY <2>2 DEF OthersChange, PagesInv
  <2> QED  BY <2>1, <2>2
<1>3. age' \in Nat /\ age' >= age
  BY <1>2 DEF PagesInv
<1> QED  BY <1>1, <1>2, <1>3, NoClickMoves

\* The window closes: its tasks are gone.
LEMMA CloseWindowKeeps ==
  ASSUME PagesInv, CloseWindow
  PROVE  PagesInv'
<1>1. /\ clicks' = [k \in Slots |-> NoClick]
      /\ page' = page /\ records' = records /\ age' = age /\ told' = told
  BY DEF CloseWindow, sourceVars
<1>2. DOMAIN clicks' = Slots /\ \A k \in Slots : clicks'[k] = NoClick
  BY <1>1
<1>3. \A k \in Slots : ClickFits(clicks'[k]) /\ ~HasResult(clicks'[k]) /\ k \notin Underway'
  BY <1>2, NoClickFits DEF Underway
<1>4. Underway' = {}
  BY <1>3 DEF Underway
<1>5. ResultsInOrder'
  BY <1>1, <1>3, <1>4 DEF ResultsInOrder, PagesInv
<1> QED  BY <1>1, <1>2, <1>3, <1>5 DEF PagesInv

\* Every step keeps the invariant.
LEMMA PagesStepKeeps == PagesInv /\ [PagesNext]_pageVars => PagesInv'
<1> SUFFICES ASSUME PagesInv, [PagesNext]_pageVars PROVE PagesInv'
  OBVIOUS
<1>1. CASE UNCHANGED pageVars
  <2>1. UNCHANGED <<clicks, page, told>> /\ records' = records /\ age' = age
    BY <1>1 DEF pageVars
  <2> QED  BY <2>1, NoClickMoves DEF PagesInv
<1>2. CASE PagesNext
  <2>1. ASSUME NEW k \in Slots, \/ Begins(k) \/ ReadsRecords(k) \/ Checks(k) \/ MakesChange(k)
                                \/ GoesWrong(k)
        PROVE  PagesInv'
    BY <2>1, BeginsKeeps, ReadsRecordsKeeps, ChecksKeeps, MakesChangeKeeps, GoesWrongKeeps
  <2>2. ASSUME NEW k \in Slots, \/ Arrives(k) \/ TurnedAway(k) \/ RendersPage(k) \/ TellsResult(k)
                                \/ OtherTurnEnds(k)
        PROVE  PagesInv'
    BY <2>2, ArrivesKeeps, TellingKeeps
  <2> QED  BY <1>2, <2>1, <2>2, UserKeeps, ElsewhereKeeps, CloseWindowKeeps DEF PagesNext
<1> QED  BY <1>1, <1>2

\* The invariant holds of every state of every behaviour.
LEMMA PagesAlways == PagesSpec => []PagesInv
  BY PagesInitInv, PagesStepKeeps, PTL DEF PagesSpec

\* Only comparing, reading and changing the records brings a task this far.
LEMMA GetsThisFar ==
  ASSUME PagesInv, PagesNext, NEW k \in Slots,
         clicks'[k].at # clicks[k].at, clicks'[k].at \in {"checked", "read"}
  PROVE  Checks(k) \/ ReadsRecords(k) \/ MakesChange(k)
<1>1. DOMAIN clicks = Slots /\ clicks' # clicks /\ NoClick.at = "none"
  BY DEF PagesInv, NoClick
<1>2. ASSUME NEW click, Schedule(click), click.at \in {"scheduled", "running"}
      PROVE  FALSE
  <2>1. PICK j \in Slots : clicks[j] = NoClick /\ clicks' = [clicks EXCEPT ![j] = click]
    BY <1>2 DEF Schedule
  <2> QED  BY <1>1, <1>2, <2>1
<1>3. ASSUME NEW op, NEW row, NEW new, NEW seen, ScheduleChange(op, row, new, seen)
      PROVE  FALSE
  <2> DEFINE click == [NoClick EXCEPT !.kind = "change", !.at = "scheduled", !.op = op,
                                      !.row = row, !.new = new, !.seen = seen]
  <2>1. Schedule(click) /\ click.at = "scheduled"
    BY <1>3 DEF ScheduleChange, NoClick
  <2> HIDE DEF click
  <2> QED  BY <1>2, <2>1
<1>4. ASSUME NEW n, SelectRow(n) \/ SearchMemories(n) PROVE FALSE
  <2>1. SearchMemories(n)
    BY <1>1, <1>4 DEF SelectRow
  <2> DEFINE click == [NoClick EXCEPT !.kind = "search", !.at = "scheduled",
                                      !.row = [id |-> n, text |-> NoRecord]]
  <2>2. Schedule(click) /\ click.at = "scheduled"
    BY <2>1 DEF SearchMemories, NoClick
  <2> HIDE DEF click
  <2> QED  BY <1>2, <2>2
<1>5. ~LoadPage
  <2> DEFINE click == [NoClick EXCEPT !.kind = "load", !.at = "scheduled"]
  <2>1. click.at = "scheduled" /\ (LoadPage => Schedule(click))
    BY DEF LoadPage, NoClick
  <2> HIDE DEF click
  <2> QED  BY <1>2, <2>1
<1>6. ~OtherTurnBegins
  <2> DEFINE click == [NoClick EXCEPT !.kind = "other", !.at = "running"]
  <2>1. click.at = "running" /\ (OtherTurnBegins => Schedule(click))
    BY DEF OtherTurnBegins, NoClick
  <2> HIDE DEF click
  <2> QED  BY <1>2, <2>1
<1>7. /\ ~DeleteMemory /\ ~RemoveReminder
      /\ \A text : ~CreateReminder(text) /\ ~SwitchPlugin(text) /\ ~AcceptEdit(text)
  BY <1>3 DEF DeleteMemory, RemoveReminder, CreateReminder, SwitchPlugin, AcceptEdit
<1>8. /\ ~EditReminder /\ ~DismissEdit
      /\ \A click : ~LateChange(click)
      /\ \A r, text : ~OthersChange(r, text)
  BY <1>1 DEF EditReminder, DismissEdit, LateChange, OthersChange
<1>9. ~CloseWindow
  BY <1>1 DEF CloseWindow
<1>10. ASSUME NEW j \in Slots, \/ Begins(j) \/ TurnedAway(j) \/ GoesWrong(j) \/ Arrives(j)
                               \/ RendersPage(j) \/ TellsResult(j) \/ OtherTurnEnds(j)
       PROVE  FALSE
  <2>1. \E c : clicks' = [clicks EXCEPT ![j] = c] /\ c.at \notin {"checked", "read"}
    <3>1. CASE Begins(j) \/ Arrives(j)
      <4>1. PICK stage \in {"running", "done"} : Move(j, stage)
        BY <3>1 DEF Begins, Arrives
      <4>2. stage \in Stages /\ stage \notin {"checked", "read"}
        BY DEF Stages
      <4>3. /\ clicks' = [clicks EXCEPT ![j] = [clicks[j] EXCEPT !.at = stage]]
            /\ [clicks[j] EXCEPT !.at = stage].at = stage
        BY <4>1, <4>2, Moved
      <4> QED  BY <4>2, <4>3
    <3>2. CASE Frees(j)
      BY <1>1, <3>2 DEF Frees
    <3>3. CASE GoesWrong(j)
      BY <3>3 DEF GoesWrong, NoClick
    <3>4. CASE TellsResult(j) /\ ~Frees(j)
      <4> DEFINE c == [NoClick EXCEPT !.kind = "load", !.at = "scheduled"]
      <4>1. c.at = "scheduled"
        BY DEF NoClick
      <4>2. clicks' = [clicks EXCEPT ![j] = c]
        BY <3>4 DEF TellsResult
      <4> HIDE DEF c
      <4> QED  BY <4>1, <4>2
    <3>5. \/ Begins(j) \/ Arrives(j) \/ Frees(j) \/ GoesWrong(j)
          \/ TellsResult(j) /\ ~Frees(j)
      BY <1>10 DEF TurnedAway, RendersPage, OtherTurnEnds
    <3> QED  BY <3>1, <3>2, <3>3, <3>4, <3>5
  <2>2. PICK c : clicks' = [clicks EXCEPT ![j] = c] /\ c.at \notin {"checked", "read"}
    BY <2>1
  <2> QED  BY <1>1, <2>2
<1>11. ASSUME NEW j \in Slots, Checks(j) \/ ReadsRecords(j) \/ MakesChange(j)
       PROVE  Checks(k) \/ ReadsRecords(k) \/ MakesChange(k)
  <2>1. PICK c : clicks' = [clicks EXCEPT ![j] = c]
    BY <1>11 DEF Checks, Move, ReadsRecords, MakesChange
  <2>2. j = k
    BY <1>1, <2>1
  <2> QED  BY <1>11, <2>2
<1> QED  BY <1>4, <1>5, <1>6, <1>7, <1>8, <1>9, <1>10, <1>11 DEF PagesNext, UserNext

\* Only Checks finds that a reminder still reads as it was shown.
LEMMA OnlyChecks ==
  ASSUME PagesInv, PagesNext, NEW k \in Slots, Checking(k)
  PROVE  Checks(k)
<1>1. Checks(k) \/ ReadsRecords(k) \/ MakesChange(k)
  BY GetsThisFar DEF Checking
<1>2. ASSUME ReadsRecords(k) \/ MakesChange(k) PROVE clicks'[k].at = "read"
  <2>1. PICK what : clicks' = [clicks EXCEPT ![k] = Answer(clicks[k], what, age')]
    BY <1>2 DEF ReadsRecords, MakesChange, sourceVars
  <2> QED  BY <2>1 DEF PagesInv, Answer, NoClick
<1> QED  BY <1>1, <1>2 DEF Checking

\* Only MakesChange gives a change its result.
LEMMA OnlyMakesChange ==
  ASSUME PagesInv, PagesNext, NEW k \in Slots, Changing(k)
  PROVE  MakesChange(k)
<1>1. Checks(k) \/ ReadsRecords(k) \/ MakesChange(k)
  BY GetsThisFar DEF Changing
<1>2. ASSUME Checks(k) PROVE clicks'[k].at = "checked"
  <2> DEFINE c == [clicks[k] EXCEPT !.at = "checked"]
  <2>1. "checked" \in Stages /\ Move(k, "checked")
    BY <1>2 DEF Stages, Checks
  <2>2. clicks' = [clicks EXCEPT ![k] = c] /\ c.at = "checked"
    BY <2>1, Moved
  <2> HIDE DEF c
  <2> QED  BY <2>2 DEF PagesInv
<1> QED  BY <1>1, <1>2 DEF Changing, ReadsRecords

\* What was compared is what the user saw.
LEMMA ComparesWhatWasSeen ==
  ASSUME PagesInv, NEW k \in Slots, Checks(k)
  PROVE  records[clicks[k].seen.id] = clicks[k].seen.text
<1>1. clicks[k].row = clicks[k].seen
  BY DEF PagesInv, ClickFits, Checks
<1> QED  BY <1>1 DEF Checks, Meets, TwoTransactions

\* What a change does to the records.
LEMMA ChangesWhatWasSeen ==
  ASSUME PagesInv, NEW k \in Slots, MakesChange(k), NEW r \in RecordIds, records'[r] # records[r]
  PROVE  \/ clicks[k].op = "create" /\ records[r] = NoRecord
         \/ /\ r = clicks[k].seen.id
            /\ page = "tasks" => IF clicks[k].op = "remove" THEN clicks[k].at = "checked"
                                 ELSE records[r] = clicks[k].seen.text
<1>1. DOMAIN records = RecordIds /\ clicks[k].row = clicks[k].seen
  BY DEF PagesInv, ClickFits, MakesChange
<1>2. Effect(clicks[k])
  BY DEF MakesChange, sourceVars
<1>3. CASE clicks[k].op = "create"
  <2>1. PICK q \in RecordIds : /\ records[q] = NoRecord
                               /\ records' = [records EXCEPT ![q] = clicks[k].new]
    BY <1>2, <1>3 DEF Effect
  <2> QED  BY <1>1, <1>3, <2>1
<1>4. CASE clicks[k].op # "create"
  <2>1. records' = [records EXCEPT ![clicks[k].row.id] = clicks[k].new]
    BY <1>2, <1>4 DEF Effect
  <2>2. r = clicks[k].seen.id
    BY <1>1, <2>1
  <2>3. CASE clicks[k].op = "remove"
    BY <2>2, <2>3 DEF MakesChange, TwoTransactions
  <2>4. CASE clicks[k].op # "remove"
    <3>1. page = "tasks" => records[clicks[k].row.id] = clicks[k].row.text
      BY <1>2, <1>4, <2>4 DEF Effect, TwoTransactions, Meets
    <3> QED  BY <1>1, <2>2, <2>4, <3>1
  <2> QED  BY <2>3, <2>4
<1> QED  BY <1>3, <1>4

\* What the user is told is never older than what they were told before.
LEMMA ToldInOrder ==
  ASSUME PagesInv, PagesNext
  PROVE  NeverOlder
<1> SUFFICES ASSUME page # "plugins", told' # told PROVE told' >= told
  BY DEF NeverOlder, PagesInv
<1>1. PICK k \in Slots : RendersPage(k) \/ TellsResult(k)
  BY DEF PagesNext, SelectRow, SearchMemories, LoadPage, DeleteMemory, RemoveReminder,
         EditReminder, DismissEdit, CreateReminder, SwitchPlugin, AcceptEdit, UserNext, Begins,
         TurnedAway, ReadsRecords, Checks, MakesChange, GoesWrong, Arrives, OtherTurnEnds,
         LateChange, OtherTurnBegins, CloseWindow, OthersChange, Schedule, ScheduleChange
<1>2. HasResult(clicks[k]) /\ told' = clicks[k].age
  BY <1>1 DEF RendersPage, TellsResult, HasResult
<1> QED  BY <1>2 DEF PagesInv, ResultsInOrder, ClickFits

\* A button changes only the record its user saw; a reminder is edited only as they saw it, and
\* cancelled or deleted only after a transaction found it so; and the Memory and Tasks tables
\* never show an older state after a newer one, for any number of records and of tasks that
\* overlap.
THEOREM PagesTellAndDoRight == PagesSpec => PagesTellAndDo
<1>1. ASSUME PagesInv, PagesNext PROVE OnlyWhatWasSeen /\ NeverOlder
  BY <1>1, OnlyChecks, ComparesWhatWasSeen, OnlyMakesChange, ChangesWhatWasSeen, ToldInOrder
  DEF OnlyWhatWasSeen
<1>2. PagesInv /\ [PagesNext]_pageVars => [OnlyWhatWasSeen /\ NeverOlder]_pageVars
  BY <1>1
<1> QED  BY <1>2, PagesAlways, PTL DEF PagesSpec, PagesTellAndDo

----------------------------------------------------------------------------
(* The types of the pages, and of the parts together.                      *)

\* What a task holds: what it writes, the rows it has read and the age they were read at.
ClickTyped(click) ==
    /\ click.new \in RecordTexts \cup {NoRecord}
    /\ click.got \in Seq(TableRows) \cup {NoRecord}
    /\ click.age \in 0 .. age

PagesTyped ==
    /\ page \in PageKinds
    /\ PagesTypeOK
    /\ DOMAIN clicks = Slots
    /\ \A k \in Slots : ClickTyped(clicks[k])
    /\ \A click \in late : click.new \in RecordTexts \cup {NoRecord}

\* The tables are sequences of rows.
LEMMA TablesAreSeqs == Tables \subseteq Seq(TableRows) /\ <<>> \in Seq(TableRows)
  BY PageConstants DEF Tables

\* A row of the table that is selected can be taken from it.
LEMMA RowSelected == PagesTypeOK /\ selected # 0 => SelectedRow \in TableRows
<1> SUFFICES ASSUME PagesTypeOK, selected # 0 PROVE view[selected] \in TableRows
  BY DEF SelectedRow
<1>1. view \in Seq(TableRows) /\ selected \in 1 .. Len(view)
  BY DEF PagesTypeOK
<1> QED  BY <1>1, ElementOfSeq

\* What is shown has its current row in it, or none.
LEMMA ShowTyped ==
  ASSUME NEW rows \in Seq(TableRows), selected \in 0 .. Len(view), view \in Seq(TableRows), Show(rows)
  PROVE  view' \in Seq(TableRows) /\ selected' \in 0 .. Len(view')
<1>1. Len(rows) \in Nat
  BY LenProperties
<1>2. view' = rows /\ selected' \in {selected, Len(rows)} /\ selected' <= Len(rows)
  BY <1>1, LenProperties DEF Show
<1> QED  BY <1>1, <1>2, LenProperties

\* At the start nothing was clicked.
LEMMA PagesInitTyped == PagesInit => PagesTyped
<1> SUFFICES ASSUME PagesInit PROVE PagesTyped
  OBVIOUS
<1> USE DEF PagesInit, NothingClicked
<1>1. MaxChanges[page] \in Nat
  BY PageConstants
<1>2. PagesTypeOK
  BY <1>1, TablesAreSeqs DEF PagesTypeOK, NoClick
<1>3. ClickTyped(NoClick)
  BY DEF ClickTyped, NoClick
<1> QED  BY <1>2, <1>3 DEF PagesTyped

\* A task that is scheduled, moves on or is over leaves the others as they are.
LEMMA OneClickTyped ==
  ASSUME PagesTyped, NEW k \in Slots, NEW c, clicks' = [clicks EXCEPT ![k] = c],
         c.at \in Stages, age' \in Nat, age' >= age, ClickTyped(c)'
  PROVE  /\ DOMAIN clicks' = Slots
         /\ \A j \in Slots : ClickTyped(clicks[j])' /\ clicks'[j].at \in Stages
<1>1. /\ DOMAIN clicks' = Slots /\ clicks'[k] = c
      /\ \A j \in Slots : j # k => clicks'[j] = clicks[j]
  BY DEF PagesTyped
<1>2. \A j \in Slots : ClickTyped(clicks[j]) /\ clicks[j].at \in Stages
  BY DEF PagesTyped, PagesTypeOK, Stages
<1>3. age \in Nat
  BY PageConstants DEF PagesTyped, PagesTypeOK
<1> QED  BY <1>1, <1>2, <1>3 DEF ClickTyped

\* What a step of one task must show.
LEMMA TaskTyped ==
  ASSUME PagesTyped, NEW k \in Slots, NEW c, clicks' = [clicks EXCEPT ![k] = c],
         c.at \in Stages, ClickTyped(c)', page' = page,
         records' \in [RecordIds -> RecordTexts \cup {NoRecord}], age' \in age .. MaxChanges[page],
         told' \in 0 .. age', view' \in Seq(TableRows), selected' \in 0 .. Len(view'),
         editing' \in TableRows \cup {NoRecord},
         \A click \in late' : click.new \in RecordTexts \cup {NoRecord}
  PROVE  PagesTyped'
<1>1. age \in Nat /\ MaxChanges[page] \in Nat
  BY PageConstants DEF PagesTyped, PagesTypeOK
<1>2. age' \in Nat /\ age' >= age /\ age' \in 0 .. MaxChanges'[page']
  BY <1>1
<1>3. DOMAIN clicks' = Slots /\ \A j \in Slots : ClickTyped(clicks[j])' /\ clicks'[j].at \in Stages
  BY <1>2, OneClickTyped
<1>4. PagesTypeOK'
  BY <1>2, <1>3 DEF PagesTypeOK, Stages
<1>5. page' \in PageKinds
  BY DEF PagesTyped
<1> QED  BY <1>3, <1>4, <1>5 DEF PagesTyped

\* What holds of the variables a step leaves alone.
LEMMA PagesRest ==
  ASSUME PagesTyped
  PROVE  /\ age \in Nat /\ age \in age .. MaxChanges[page] /\ told \in 0 .. age
         /\ records \in [RecordIds -> RecordTexts \cup {NoRecord}]
         /\ view \in Seq(TableRows) /\ selected \in 0 .. Len(view)
         /\ editing \in TableRows \cup {NoRecord}
         /\ \A click \in late : click.new \in RecordTexts \cup {NoRecord}
         /\ \A k \in Slots : ClickTyped(clicks[k]) /\ clicks[k].at \in Stages
  BY PageConstants DEF PagesTyped, PagesTypeOK, Stages

\* A task that is scheduled holds a text at most.
LEMMA ScheduleTyped ==
  ASSUME PagesTyped, NEW click, ClickTyped(click), click.at \in Stages, Schedule(click),
         editing' \in TableRows \cup {NoRecord}
  PROVE  PagesTyped'
<1>1. PICK k \in Slots : clicks' = [clicks EXCEPT ![k] = click]
  BY DEF Schedule
<1>2. UNCHANGED <<page, records, age, told, view, selected, late>>
  BY DEF Schedule, sourceVars, tableVars
<1>3. ClickTyped(click)'
  BY <1>2 DEF ClickTyped
<1>4. /\ records' \in [RecordIds -> RecordTexts \cup {NoRecord}] /\ age' \in age .. MaxChanges[page]
      /\ told' \in 0 .. age' /\ view' \in Seq(TableRows) /\ selected' \in 0 .. Len(view')
      /\ \A c \in late' : c.new \in RecordTexts \cup {NoRecord}
  BY <1>2, PagesRest
<1> QED  BY <1>1, <1>2, <1>3, <1>4, TaskTyped

\* What the buttons schedule has its types.
LEMMA ButtonsTyped ==
  ASSUME PagesTyped
  PROVE  /\ ClickTyped(NoClick)
         /\ ClickTyped([NoClick EXCEPT !.kind = "load", !.at = "scheduled"])
         /\ ClickTyped([NoClick EXCEPT !.kind = "other", !.at = "running"])
         /\ \A row : ClickTyped([NoClick EXCEPT !.kind = "search", !.at = "scheduled", !.row = row])
         /\ \A op, row, seen : \A new \in RecordTexts \cup {NoRecord} :
               ClickTyped([NoClick EXCEPT !.kind = "change", !.at = "scheduled", !.op = op,
                                          !.row = row, !.new = new, !.seen = seen])
  BY PagesRest DEF ClickTyped, NoClick

\* What a step must show that leaves the tasks alone.
LEMMA NoClickTyped ==
  ASSUME PagesTyped, UNCHANGED <<clicks, page, told, view>>,
         records' \in [RecordIds -> RecordTexts \cup {NoRecord}], age' \in age .. MaxChanges[page],
         selected' \in 0 .. Len(view), editing' \in TableRows \cup {NoRecord},
         \A click \in late' : click.new \in RecordTexts \cup {NoRecord}
  PROVE  PagesTyped'
<1>1. age \in Nat /\ age' \in Nat /\ age' >= age /\ age' \in 0 .. MaxChanges'[page']
  BY PagesRest
<1>2. told' \in 0 .. age'
  BY <1>1, PagesRest
<1>3. \A k \in Slots : ClickTyped(clicks[k])'
  BY <1>1, PagesRest DEF ClickTyped
<1>4. PagesTypeOK'
  BY <1>1, <1>2, PagesRest DEF PagesTypeOK, Stages
<1> QED  BY <1>3, <1>4 DEF PagesTyped

\* A change that is made writes a text in a record and makes the source one older.
LEMMA SourceTyped ==
  ASSUME PagesTyped
  PROVE  /\ \A click : Effect(click) /\ click.new \in RecordTexts \cup {NoRecord} =>
               /\ records' \in [RecordIds -> RecordTexts \cup {NoRecord}]
               /\ age' \in age .. MaxChanges[page]
         /\ UNCHANGED sourceVars =>
               /\ records' \in [RecordIds -> RecordTexts \cup {NoRecord}]
               /\ age' \in age .. MaxChanges[page]
<1>1. ASSUME NEW click, Effect(click), click.new \in RecordTexts \cup {NoRecord}
      PROVE  /\ records' \in [RecordIds -> RecordTexts \cup {NoRecord}]
             /\ age' \in age .. MaxChanges[page]
  <2>1. age' = age + 1 /\ age < MaxChanges[page]
    BY <1>1 DEF Effect
  <2>2. MaxChanges[page] \in Nat
    BY PageConstants DEF PagesTyped
  <2>3. \E r : records' = [records EXCEPT ![r] = click.new]
    <3>1. CASE click.op = "create"
      <4>1. PICK r \in RecordIds : records' = [records EXCEPT ![r] = click.new]
        BY <1>1, <3>1 DEF Effect
      <4> QED  BY <4>1
    <3>2. CASE click.op # "create"
      <4>1. records' = [records EXCEPT ![click.row.id] = click.new]
        BY <1>1, <3>2 DEF Effect
      <4> QED  BY <4>1
    <3> QED  BY <3>1, <3>2
  <2>4. records' \in [RecordIds -> RecordTexts \cup {NoRecord}]
    <3>1. PICK r : records' = [records EXCEPT ![r] = click.new]
      BY <2>3
    <3> QED  BY <1>1, <3>1, PagesRest
  <2>5. age' \in age .. MaxChanges[page]
    BY <2>1, <2>2, PagesRest
  <2> QED  BY <2>4, <2>5
<1> QED  BY <1>1, PagesRest DEF sourceVars

\* Buttons, rows and dialogs hold rows of the table that is shown.
LEMMA UserTyped ==
  ASSUME PagesTyped, UserNext \/ OtherTurnBegins
  PROVE  PagesTyped'
<1>1. CASE (\E n \in RecordIds : SelectRow(n)) \/ EditReminder \/ DismissEdit
  <2>1. /\ UNCHANGED <<clicks, page, told, view, late>> /\ records' = records /\ age' = age
        /\ selected' = selected \/ selected' \in DOMAIN view
        /\ editing' \in {editing, NoRecord} \/ (selected # 0 /\ editing' = SelectedRow)
    BY <1>1 DEF SelectRow, EditReminder, DismissEdit, sourceVars, tableVars
  <2>2. selected' \in 0 .. Len(view) /\ editing' \in TableRows \cup {NoRecord}
    BY <2>1, PagesRest, RowSelected, LenProperties DEF PagesTyped
  <2> QED  BY <2>1, <2>2, PagesRest, NoClickTyped
<1>2. ASSUME NEW click, ClickTyped(click), click.at \in Stages, Schedule(click),
             editing' = editing \/ editing' = NoRecord
      PROVE  PagesTyped'
  BY <1>2, PagesRest, ScheduleTyped
<1>3. CASE LoadPage
  <2> DEFINE click == [NoClick EXCEPT !.kind = "load", !.at = "scheduled"]
  <2>1. ClickTyped(click) /\ click.at \in Stages /\ Schedule(click) /\ editing' = editing
    BY <1>3, ButtonsTyped DEF LoadPage, NoClick, Stages
  <2> HIDE DEF click
  <2> QED  BY <2>1, <1>2
<1>4. ASSUME NEW n \in RecordIds, SearchMemories(n) PROVE PagesTyped'
  <2> DEFINE click == [NoClick EXCEPT !.kind = "search", !.at = "scheduled",
                                      !.row = [id |-> n, text |-> NoRecord]]
  <2>1. ClickTyped(click) /\ click.at \in Stages /\ Schedule(click) /\ editing' = editing
    BY <1>4, ButtonsTyped DEF SearchMemories, NoClick, Stages
  <2> HIDE DEF click
  <2> QED  BY <2>1, <1>2
<1>5. CASE \/ DeleteMemory \/ RemoveReminder
           \/ \E text \in RecordTexts :
                 CreateReminder(text) \/ SwitchPlugin(text) \/ AcceptEdit(text)
  <2>1. PICK op, row, seen : \E new \in RecordTexts \cup {NoRecord} :
           ScheduleChange(op, row, new, seen) /\ (editing' = editing \/ editing' = NoRecord)
    BY <1>5 DEF DeleteMemory, RemoveReminder, CreateReminder, SwitchPlugin, AcceptEdit
  <2>2. PICK new \in RecordTexts \cup {NoRecord} :
           ScheduleChange(op, row, new, seen) /\ (editing' = editing \/ editing' = NoRecord)
    BY <2>1
  <2> DEFINE click == [NoClick EXCEPT !.kind = "change", !.at = "scheduled", !.op = op,
                                      !.row = row, !.new = new, !.seen = seen]
  <2>3. ClickTyped(click) /\ click.at \in Stages /\ Schedule(click)
    BY <2>2, ButtonsTyped DEF ScheduleChange, NoClick, Stages
  <2> HIDE DEF click
  <2> QED  BY <2>2, <2>3, <1>2
<1>6. CASE OtherTurnBegins
  <2> DEFINE click == [NoClick EXCEPT !.kind = "other", !.at = "running"]
  <2>1. ClickTyped(click) /\ click.at \in Stages /\ Schedule(click) /\ editing' = editing
    BY <1>6, ButtonsTyped DEF OtherTurnBegins, NoClick, Stages
  <2> HIDE DEF click
  <2> QED  BY <2>1, <1>2
<1> QED  BY <1>1, <1>3, <1>4, <1>5, <1>6 DEF UserNext

\* A task begins, compares or arrives with what it holds.
LEMMA MovingTyped ==
  ASSUME PagesTyped, PagesInv, NEW k \in Slots, Begins(k) \/ Checks(k) \/ Arrives(k)
  PROVE  PagesTyped'
<1>1. PICK stage \in {"running", "checked", "done"} : Move(k, stage)
  BY DEF Begins, Checks, Arrives
<1>2. stage \in Stages
  BY DEF Stages
<1>3. PICK c : c = [clicks[k] EXCEPT !.at = stage]
  OBVIOUS
<1>4. /\ clicks' = [clicks EXCEPT ![k] = c] /\ c.at = stage /\ c.age = clicks[k].age
      /\ c.got = clicks[k].got
  BY <1>1, <1>2, <1>3, Moved
<1>5. c.new = clicks[k].new
  BY <1>3 DEF PagesInv, ClickFits, NoClick
<1>6. UNCHANGED <<page, records, age, told, view, selected, editing, late>>
  BY DEF Begins, Checks, Arrives, sourceVars, tableVars
<1>7. ClickTyped(c)'
  BY <1>4, <1>5, <1>6, PagesRest DEF ClickTyped
<1>8. c.at \in Stages
  BY <1>2, <1>4
<1>9. /\ records' \in [RecordIds -> RecordTexts \cup {NoRecord}] /\ age' \in age .. MaxChanges[page]
      /\ told' \in 0 .. age' /\ view' \in Seq(TableRows) /\ selected' \in 0 .. Len(view')
      /\ editing' \in TableRows \cup {NoRecord}
      /\ \A click \in late' : click.new \in RecordTexts \cup {NoRecord}
  BY <1>6, PagesRest
<1> QED  BY <1>4, <1>6, <1>7, <1>8, <1>9, TaskTyped

\* An answer holds rows, or none after a change, and is not older than the records.
LEMMA AnswersTyped ==
  ASSUME PagesTyped, NEW k \in Slots, ReadsRecords(k) \/ MakesChange(k)
  PROVE  PagesTyped'
<1>1. PICK rows \in Seq(TableRows) : clicks' = [clicks EXCEPT ![k] = Answer(clicks[k], rows, age')]
  <2>1. CASE ReadsRecords(k)
    <3>1. PICK rows \in Tables : clicks' = [clicks EXCEPT ![k] = Answer(clicks[k], rows, age)]
      BY <2>1 DEF ReadsRecords
    <3>2. age' = age
      BY <2>1 DEF ReadsRecords, sourceVars
    <3> QED  BY <3>1, <3>2, TablesAreSeqs
  <2>2. CASE MakesChange(k)
    BY <2>2, TablesAreSeqs DEF MakesChange
  <2> QED  BY <2>1, <2>2
<1>2. UNCHANGED <<page, told, view, selected, editing, late>>
  BY DEF ReadsRecords, MakesChange, tableVars
<1>3. /\ records' \in [RecordIds -> RecordTexts \cup {NoRecord}]
      /\ age' \in age .. MaxChanges[page]
  <2>1. Effect(clicks[k]) \/ UNCHANGED sourceVars
    BY DEF ReadsRecords, MakesChange
  <2>2. clicks[k].new \in RecordTexts \cup {NoRecord}
    BY PagesRest DEF ClickTyped
  <2> QED  BY <2>1, <2>2, SourceTyped
<1>4. age \in Nat /\ MaxChanges[page] \in Nat
  BY PageConstants, PagesRest DEF PagesTyped
<1>5. PICK c : c = Answer(clicks[k], rows, age')
  OBVIOUS
<1>6. c.at \in Stages /\ c.new = NoRecord /\ c.got = rows /\ c.age = age'
  BY <1>5 DEF Answer, NoClick, Stages
<1>7. ClickTyped(c)'
  BY <1>3, <1>4, <1>6 DEF ClickTyped
<1>8. /\ clicks' = [clicks EXCEPT ![k] = c] /\ told' \in 0 .. age'
      /\ view' \in Seq(TableRows) /\ selected' \in 0 .. Len(view')
      /\ editing' \in TableRows \cup {NoRecord}
      /\ \A click \in late' : click.new \in RecordTexts \cup {NoRecord}
  BY <1>1, <1>2, <1>3, <1>4, <1>5, PagesRest
<1>9. c.at \in Stages
  BY <1>6
<1> QED  BY <1>2, <1>3, <1>7, <1>8, <1>9, TaskTyped

\* A task that failed has no result; its change may be left behind.
LEMMA GoesWrongTyped ==
  ASSUME PagesTyped, NEW k \in Slots, GoesWrong(k)
  PROVE  PagesTyped'
<1>1. PICK c : c = [NoClick EXCEPT !.kind = clicks[k].kind, !.at = "done"]
  OBVIOUS
<1>2. /\ clicks' = [clicks EXCEPT ![k] = c]
      /\ UNCHANGED <<page, records, age, told, view, selected, editing>>
  BY <1>1 DEF GoesWrong, sourceVars, tableVars
<1>3. c.at \in Stages /\ c.new = NoRecord /\ c.got = NoRecord /\ c.age = 0
  BY <1>1 DEF NoClick, Stages
<1>4. ClickTyped(c)'
  BY <1>2, <1>3, PagesRest DEF ClickTyped
<1>5. \A click \in late' : click.new \in RecordTexts \cup {NoRecord}
  <2>1. late' \subseteq late \cup {clicks[j] : j \in Slots}
    BY DEF GoesWrong, GoingOn
  <2> QED  BY <2>1, PagesRest DEF ClickTyped
<1>6. /\ records' \in [RecordIds -> RecordTexts \cup {NoRecord}] /\ age' \in age .. MaxChanges[page]
      /\ told' \in 0 .. age' /\ view' \in Seq(TableRows) /\ selected' \in 0 .. Len(view')
      /\ editing' \in TableRows \cup {NoRecord}
  BY <1>2, PagesRest
<1>7. c.at \in Stages
  BY <1>3
<1> QED  BY <1>2, <1>4, <1>5, <1>6, <1>7, TaskTyped

\* A task that ends shows the rows it has, or none, and tells an age there was.
LEMMA TellingTyped ==
  ASSUME PagesTyped, NEW k \in Slots,
         TurnedAway(k) \/ RendersPage(k) \/ OtherTurnEnds(k) \/ TellsResult(k)
  PROVE  PagesTyped'
<1>1. /\ UNCHANGED <<page, records, age, editing, late>>
      /\ \/ UNCHANGED tableVars
         \/ Show(<<>>)
         \/ clicks[k].got # NoRecord /\ Show(clicks[k].got)
      /\ told' = told \/ told' = clicks[k].age
  BY DEF TurnedAway, RendersPage, OtherTurnEnds, TellsResult, sourceVars, tableVars
<1>2. PICK c \in {NoClick, [NoClick EXCEPT !.kind = "load", !.at = "scheduled"]} :
         clicks' = [clicks EXCEPT ![k] = c]
  BY DEF TurnedAway, RendersPage, OtherTurnEnds, TellsResult, Frees
<1>3. c.at \in Stages /\ c.new = NoRecord /\ c.got = NoRecord /\ c.age = 0
  <2>1. CASE c = NoClick
    BY <2>1 DEF NoClick, Stages
  <2>2. CASE c = [NoClick EXCEPT !.kind = "load", !.at = "scheduled"]
    BY <2>2 DEF NoClick, Stages
  <2> QED  BY <1>2, <2>1, <2>2
<1>4. ClickTyped(c)'
  BY <1>1, <1>3, PagesRest DEF ClickTyped
<1>5. view' \in Seq(TableRows) /\ selected' \in 0 .. Len(view')
  <2>1. view \in Seq(TableRows) /\ selected \in 0 .. Len(view) /\ <<>> \in Seq(TableRows)
    BY PagesRest, TablesAreSeqs
  <2>2. clicks[k].got # NoRecord => clicks[k].got \in Seq(TableRows)
    BY PagesRest DEF ClickTyped
  <2>3. CASE UNCHANGED tableVars
    BY <2>1, <2>3 DEF tableVars
  <2>4. CASE Show(<<>>)
    BY <2>1, <2>4, ShowTyped
  <2>5. CASE clicks[k].got # NoRecord /\ Show(clicks[k].got)
    BY <2>1, <2>2, <2>5, ShowTyped
  <2> QED  BY <1>1, <2>3, <2>4, <2>5
<1>6. told' \in 0 .. age'
  <2>1. clicks[k].age \in 0 .. age /\ told \in 0 .. age
    BY PagesRest DEF ClickTyped
  <2> QED  BY <1>1, <2>1
<1>7. /\ records' \in [RecordIds -> RecordTexts \cup {NoRecord}] /\ age' \in age .. MaxChanges[page]
      /\ editing' \in TableRows \cup {NoRecord}
      /\ \A click \in late' : click.new \in RecordTexts \cup {NoRecord}
  BY <1>1, PagesRest
<1>8. c.at \in Stages
  BY <1>3
<1>9. page' = page
  BY <1>1
<1> QED  BY <1>2, <1>4, <1>5, <1>6, <1>7, <1>8, <1>9, TaskTyped

\* The source changes by itself, or by a change that was left behind.
LEMMA ElsewhereTyped ==
  ASSUME PagesTyped,
         \/ \E click \in late : LateChange(click)
         \/ \E r \in RecordIds, text \in RecordTexts \cup {NoRecord} : OthersChange(r, text)
  PROVE  PagesTyped'
<1>1. ASSUME NEW click \in late, LateChange(click) PROVE PagesTyped'
  <2>1. /\ UNCHANGED <<clicks, page, told, view, selected, editing>> /\ late' \subseteq late
        /\ Effect(click) \/ UNCHANGED sourceVars
    BY <1>1 DEF LateChange, tableVars
  <2>2. click.new \in RecordTexts \cup {NoRecord}
    BY PagesRest
  <2>3. /\ records' \in [RecordIds -> RecordTexts \cup {NoRecord}]
        /\ age' \in age .. MaxChanges[page]
    BY <2>1, <2>2, SourceTyped
  <2> QED  BY <2>1, <2>3, PagesRest, NoClickTyped
<1>2. ASSUME NEW r \in RecordIds, NEW text \in RecordTexts \cup {NoRecord}, OthersChange(r, text)
      PROVE  PagesTyped'
  <2>1. /\ UNCHANGED <<clicks, page, told, view, selected, editing, late>>
        /\ age' = age + 1 /\ age < MaxChanges[page] /\ records' = [records EXCEPT ![r] = text]
    BY <1>2 DEF OthersChange, tableVars
  <2>2. MaxChanges[page] \in Nat
    BY PageConstants DEF PagesTyped
  <2>3. age' \in age .. MaxChanges[page]
    BY <2>1, <2>2, PagesRest
  <2>4. records' \in [RecordIds -> RecordTexts \cup {NoRecord}]
    BY <2>1, PagesRest
  <2> QED  BY <2>1, <2>3, <2>4, PagesRest, NoClickTyped
<1> QED  BY <1>1, <1>2

\* The window closes: its tasks are gone, and changes may be left behind.
LEMMA CloseWindowTyped ==
  ASSUME PagesTyped, CloseWindow
  PROVE  PagesTyped'
<1>1. /\ UNCHANGED <<page, records, age, told>> /\ editing' = NoRecord /\ Show(<<>>)
      /\ clicks' = [k \in Slots |-> NoClick]
  BY DEF CloseWindow, sourceVars
<1>2. view' \in Seq(TableRows) /\ selected' \in 0 .. Len(view')
  BY <1>1, PagesRest, TablesAreSeqs, ShowTyped
<1>3. late' \subseteq late \cup {clicks[j] : j \in Slots}
  BY DEF CloseWindow, GoingOn
<1>4. \A click \in late' : click.new \in RecordTexts \cup {NoRecord}
  BY <1>3, PagesRest DEF ClickTyped
<1>5. PICK c : c = NoClick
  OBVIOUS
<1>6. c.at \in Stages /\ c.new = NoRecord /\ c.got = NoRecord /\ c.age = 0
  BY <1>5 DEF NoClick, Stages
<1>7. DOMAIN clicks' = Slots /\ \A k \in Slots : clicks'[k] = c
  BY <1>1, <1>5
<1>8. \A k \in Slots : ClickTyped(clicks[k])' /\ clicks'[k].at \in Stages
  BY <1>1, <1>6, <1>7, PagesRest DEF ClickTyped
<1>9. age' \in 0 .. MaxChanges'[page'] /\ page' \in PageKinds
  BY <1>1 DEF PagesTyped, PagesTypeOK
<1>10. PagesTypeOK'
  BY <1>1, <1>2, <1>8, <1>9, PagesRest DEF PagesTypeOK, Stages
<1> QED  BY <1>4, <1>7, <1>8, <1>9, <1>10 DEF PagesTyped

\* Every step keeps the types; PagesInv gives a task its fields.
LEMMA PagesStepTyped == PagesInv /\ PagesTyped /\ [PagesNext]_pageVars => PagesTyped'
<1> SUFFICES ASSUME PagesInv, PagesTyped, [PagesNext]_pageVars PROVE PagesTyped'
  OBVIOUS
<1>1. CASE UNCHANGED pageVars
  <2>1. UNCHANGED <<clicks, page, told, view, selected, editing, late>>
    BY <1>1 DEF pageVars
  <2>2. records' = records /\ age' = age
    BY <1>1 DEF pageVars
  <2> QED  BY <2>1, <2>2, PagesRest, NoClickTyped
<1>2. CASE PagesNext
  <2>1. ASSUME NEW k \in Slots, \/ Begins(k) \/ Checks(k) \/ Arrives(k) \/ ReadsRecords(k)
                                \/ MakesChange(k) \/ GoesWrong(k)
        PROVE  PagesTyped'
    BY <2>1, MovingTyped, AnswersTyped, GoesWrongTyped
  <2>2. ASSUME NEW k \in Slots, \/ TurnedAway(k) \/ RendersPage(k) \/ TellsResult(k)
                                \/ OtherTurnEnds(k)
        PROVE  PagesTyped'
    BY <2>2, TellingTyped
  <2> QED  BY <1>2, <2>1, <2>2, UserTyped, ElsewhereTyped, CloseWindowTyped DEF PagesNext
<1> QED  BY <1>1, <1>2

\* Every variable of a page keeps its type, for any number of records, tasks and changes; in
\* particular the current row is one of the table, and no age that is told lies in the future.
THEOREM PagesTypeCorrect == PagesSpec => []PagesTypeOK
<1>1. PagesTyped => PagesTypeOK
  BY DEF PagesTyped
<1> QED  BY <1>1, PagesAlways, PagesInitTyped, PagesStepTyped, PTL DEF PagesSpec

\* What each part keeps while it is explored.
HostInv ==
    /\ CallsInv
    /\ part = "browser" => BrowserInv
    /\ part = "resources" => ResourcesInv
    /\ part = "egress" => EgressInv
    /\ part = "page" => PagesInv /\ PagesTyped

LEMMA HostInitInv == HostInit => HostInv
<1> SUFFICES ASSUME HostInit PROVE HostInv
  OBVIOUS
<1>1. /\ ResourcesInit /\ EgressInit
      /\ part = "browser" => BrowserInit
      /\ part = "page" => PagesInit
  BY DEF HostInit, CallsInit
<1>2. CallsInv
  <2>1. CallsInit \/ part \in {"browser", "page", "resources", "egress"}
    BY DEF HostInit
  <2> QED  BY <2>1, CallsInitInv DEF CallsInv
<1> QED
  BY <1>1, <1>2, BrowserInitInv, ResourcesInitInv, EgressInitInv, PagesInitInv, PagesInitTyped
  DEF HostInv

\* A step of the composition is one of the part that is explored.
LEMMA HostPart ==
  ASSUME [HostNext /\ UNCHANGED part]_<<part, callVars, hostVars>>
  PROVE  /\ [CallsNext /\ UNCHANGED part]_<<part, callVars>>
         /\ part' = part
         /\ part = "browser" => [BrowserNext]_browserVars
         /\ part = "resources" => [ResourcesNext]_resourceVars
         /\ part = "egress" => [EgressNext]_egressVars
         /\ part = "page" => [PagesNext]_pageVars
BY DEF HostNext, CallsNext, hostVars

LEMMA HostStepKeeps ==
  HostInv /\ [HostNext /\ UNCHANGED part]_<<part, callVars, hostVars>> => HostInv'
<1> SUFFICES ASSUME HostInv, [HostNext /\ UNCHANGED part]_<<part, callVars, hostVars>>
             PROVE  HostInv'
  OBVIOUS
<1>1. CallsInv'
  BY HostPart, CallsStepKeeps DEF HostInv
<1> QED
  BY <1>1, HostPart, BrowserStepKeeps, ResourcesStep, EgressStep, PagesStepKeeps, PagesStepTyped
  DEF HostInv

\* The variables of each part keep their types while it is explored.
THEOREM HostTypeCorrect == HostSpec => []HostTypeOK
<1>1. HostInv => HostTypeOK
  <2>1. BrowserInv => BrowserTypeOK
    BY DEF BrowserInv
  <2>2. ResourcesInv => ResourcesTypeOK
    BY ResourcesInvTyped
  <2>3. EgressInv => EgressTypeOK
    BY DEF EgressInv
  <2>4. PagesTyped => PagesTypeOK
    BY DEF PagesTyped
  <2> QED  BY <2>1, <2>2, <2>3, <2>4, CallsTyped DEF HostInv, HostTypeOK
<1> QED  BY <1>1, HostInitInv, HostStepKeeps, PTL DEF HostSpec

\* The services, the memories and the desktop, as they are explored, implement CallPromise.
THEOREM CallsImplemented == HostSpec => CallsAsPromised
<1>1. HostInit => RemotePromise!Init /\ MemoryPromise!Init /\ DesktopPromise!Init
  BY CallsInitPromised DEF HostInit
<1>2. HostInv /\ [HostNext /\ UNCHANGED part]_<<part, callVars, hostVars>> =>
        [/\ part = "remote" => [RemotePromise!Next]_(RemotePromise!vars)
         /\ part = "memory" => [MemoryPromise!Next]_(MemoryPromise!vars)
         /\ part = "desktop" => [DesktopPromise!Next]_(DesktopPromise!vars)]_<<part, callVars>>
  BY HostPart, CallsPromiseStep DEF HostInv
<1> QED  BY <1>1, <1>2, HostInitInv, HostStepKeeps, PTL DEF HostSpec, CallsAsPromised
=============================================================================
