------------------------------ MODULE MCCalls ------------------------------
(* What calls with worker threads do to the world outside: the servers      *)
(* behind the integrations, the memories on disk and the desktop.  The      *)
(* parts share no variable; MCHost explores them one by one.                *)
EXTENDS RemoteWrites, MemoryStore, Desktop, TLC

CONSTANTS w1, w2

VARIABLE part

callVars == <<remoteVars, memoryVars, desktopVars>>

MCSetups == {{s} : s \in Services}
\* Two spellings of one key.
MCRowOf == w1 :> "drink" @@ w2 :> "drink"
MCCategory == "drink" :> "facts"

MCRunsAs == "p1" :> "editor" @@ "p2" :> "editor" @@ "p3" :> "viewer"
MCImageName == "editor" :> "code" @@ "viewer" :> "code"

RemoteAtRest ==
    registered = {"mail"} /\ calendar = [e \in Events |-> Absent] /\ NothingCalled

\* The desktop starts with an editor and a viewer running and a window, maybe with a second editor
\* and its window.
SomeDesktop ==
    /\ DesktopInit
    /\ process["p1"] = "alive" /\ process["p3"] = "alive" /\ title["x1"] # NoWindow
    /\ process["p2"] = "alive" <=> title["x2"] # NoWindow

\* Times are compared for equality alone, so the first events have any one of them.
SomeEvents == RemoteInit /\ \A e \in Events : calendar[e].start = 1

CallsAtRest == RemoteAtRest /\ MemoryInit /\ DesktopAtRest

CallsInit ==
    /\ MemoryInit
    /\ \/ part = "remote" /\ SomeEvents /\ DesktopAtRest
       \/ part = "memory" /\ RemoteAtRest /\ DesktopAtRest
       \/ part = "desktop" /\ RemoteAtRest /\ SomeDesktop

CallsNext ==
    \/ part = "remote" /\ RemoteNext /\ UNCHANGED <<memoryVars, desktopVars>>
    \/ part = "memory" /\ MemoryNext /\ UNCHANGED <<remoteVars, desktopVars>>
    \/ part = "desktop" /\ DesktopNext /\ UNCHANGED <<remoteVars, memoryVars>>

CallsTypeOK ==
    /\ part = "remote" => RemoteTypeOK
    /\ part = "memory" => MemoryTypeOK
    /\ part = "desktop" => DesktopTypeOK

\* docs/permissions.md:114-116: cancellation is not rollback.  The part that is explored
\* implements CallPromise: what a call does to the world it does at most once, maybe after it
\* was reported as failed, never after its thread has ended; a success is answered after that.
CallsAsPromised ==
    /\ RemotePromise!Init /\ MemoryPromise!Init /\ DesktopPromise!Init
    /\ [][/\ part = "remote" => [RemotePromise!Next]_(RemotePromise!vars)
          /\ part = "memory" => [MemoryPromise!Next]_(MemoryPromise!vars)
          /\ part = "desktop" => [DesktopPromise!Next]_(DesktopPromise!vars)]_<<part, callVars>>
=============================================================================
