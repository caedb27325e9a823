--------------------------- MODULE BrowserResources ---------------------------
(***************************************************************************)
(* What the browser costs: the Playwright runtime and browser process, and *)
(* for each session its egress proxy and browser context.  They are made   *)
(* by PlaywrightBrowserController (src/jarvis/browser/playwright.py) for   *)
(* BrowserActionService (src/jarvis/browser/actions.py); every step of the *)
(* making can fail, time out or be cancelled, and the application can shut *)
(* the browser down while a session closes.                                *)
(*                                                                         *)
(* A resource whose close was called and has ended, with or without an     *)
(* error, counts as released.                                              *)
(***************************************************************************)
EXTENDS Integers, FiniteSets

CONSTANTS
    MaxOpen,        \* limits.max_sessions
    MaxMade         \* BOUND: session numbers given out

ASSUME ResourceConstants == MaxOpen \in Nat \ {0} /\ MaxMade \in Nat

Numbers == 1 .. MaxMade

VARIABLES
    runtime,    \* a Playwright runtime runs
    browser,    \* a browser process runs
    kept,       \* _browser and _runtime are set
    proxies,    \* session numbers whose egress proxy listens
    contexts,   \* session numbers whose browser context exists
    table,      \* _sessions
    dead,       \* _closed
    next,       \* _next_session
    serving,    \* the service's _active, 0 for None
    turnAt,     \* the await at which a browser action is suspended
    hand,       \* the session number it works on
    endAt,      \* the await at which shutdown() is suspended
    batch,      \* sessions shutdown() has taken out of the table
    taken       \* shutdown() has taken the browser and the runtime

resourceVars == <<runtime, browser, kept, proxies, contexts, table, dead, next, serving, turnAt,
                  hand, endAt, batch, taken>>

processVars == <<runtime, browser>>
endVars == <<dead, endAt, batch, taken>>

\* Inside create_session(), under the service's lock and the controller's.
Making == {"runtime", "launch", "stop", "proxy", "context", "initialize", "undo context",
           "undo proxy"}
Closing == {"close context", "close proxy"}

ResourcesInit ==
    /\ runtime = FALSE /\ browser = FALSE /\ kept = FALSE
    /\ proxies = {} /\ contexts = {} /\ table = {}
    /\ dead = FALSE /\ next = 1 /\ serving = 0
    /\ turnAt = "idle" /\ hand = 0
    /\ endAt = "no" /\ batch = {} /\ taken = FALSE

----------------------------------------------------------------------------
(* start().                                                                *)

BeginSession ==
    /\ turnAt = "idle" /\ serving = 0
    /\ ~dead /\ Cardinality(table) < MaxOpen
    /\ next \in Numbers
    /\ hand' = next
    /\ turnAt' = IF kept THEN "proxy" ELSE "runtime"
    /\ UNCHANGED <<processVars, kept, proxies, contexts, table, next, serving, endVars>>

\* _ensure_browser.
RuntimeStarts ==
    /\ turnAt = "runtime"
    /\ runtime' = TRUE
    /\ turnAt' = "launch"
    /\ UNCHANGED <<browser, kept, proxies, contexts, table, next, serving, hand, endVars>>

Launches ==
    /\ turnAt = "launch"
    /\ browser' = TRUE /\ kept' = TRUE
    /\ turnAt' = "proxy"
    /\ UNCHANGED <<runtime, proxies, contexts, table, next, serving, hand, endVars>>

NoBrowser ==
    /\ \/ turnAt = "runtime" /\ turnAt' = "idle"
       \/ turnAt = "launch" /\ turnAt' = "stop"
    /\ UNCHANGED <<processVars, kept, proxies, contexts, table, next, serving, hand, endVars>>

RuntimeStops ==
    /\ turnAt = "stop"
    /\ runtime' = FALSE
    /\ turnAt' = "idle"
    /\ UNCHANGED <<browser, kept, proxies, contexts, table, next, serving, hand, endVars>>

ProxyStarts ==
    /\ turnAt = "proxy"
    /\ proxies' = proxies \cup {hand}
    /\ turnAt' = "context"
    /\ UNCHANGED <<processVars, kept, contexts, table, next, serving, hand, endVars>>

ContextOpens ==
    /\ turnAt = "context" /\ browser
    /\ contexts' = contexts \cup {hand}
    /\ next' = next + 1
    /\ turnAt' = "initialize"
    /\ UNCHANGED <<processVars, kept, proxies, table, serving, hand, endVars>>

\* initialize() has ended; nothing is awaited up to _active.
Initialized ==
    /\ turnAt = "initialize"
    /\ table' = table \cup {hand} /\ serving' = hand
    /\ turnAt' = "idle"
    /\ UNCHANGED <<processVars, kept, proxies, contexts, next, hand, endVars>>

\* Variant: when initialize() fails only the proxy is closed.
ForgetsContext ==
    /\ turnAt \in {"proxy", "context", "initialize"} /\ turnAt' = "undo proxy"
    /\ UNCHANGED <<processVars, kept, proxies, contexts, table, next, serving, hand, endVars>>

\* An error, a time-out or a cancellation; the clean-up runs to its end.
NoSession ==
    /\ \/ turnAt \in {"proxy", "context"} /\ turnAt' = "undo proxy"
       \/ turnAt = "initialize" /\ turnAt' = "undo context"
    /\ UNCHANGED <<processVars, kept, proxies, contexts, table, next, serving, hand, endVars>>

ContextCloses ==
    /\ \/ turnAt = "undo context" /\ turnAt' = "undo proxy"
       \/ turnAt = "close context" /\ turnAt' = "close proxy"
    /\ contexts' = contexts \ {hand}
    /\ UNCHANGED <<processVars, kept, proxies, table, next, serving, hand, endVars>>

ProxyCloses ==
    /\ turnAt \in {"undo proxy", "close proxy"}
    /\ proxies' = proxies \ {hand}
    /\ turnAt' = "idle"
    /\ UNCHANGED <<processVars, kept, contexts, table, next, serving, hand, endVars>>

----------------------------------------------------------------------------
(* close(), and shutdown(), which waits for a start() but not for a close().*)

CloseSession ==
    /\ turnAt = "idle" /\ serving # 0
    /\ serving' = 0
    /\ table' = table \ {serving}
    /\ IF serving \in table
       THEN turnAt' = "close context" /\ hand' = serving
       ELSE UNCHANGED <<turnAt, hand>>
    /\ UNCHANGED <<processVars, kept, proxies, contexts, next, endVars>>

ShutdownTakes ==
    /\ endAt = "no" /\ turnAt \notin Making
    /\ dead' = TRUE /\ serving' = 0
    /\ batch' = table /\ table' = {}
    /\ taken' = kept /\ kept' = FALSE
    /\ endAt' = "sessions"
    /\ UNCHANGED <<processVars, proxies, contexts, next, turnAt, hand>>

\* session.close() of the next session; errors are passed over.
EndContext ==
    /\ endAt = "sessions"
    /\ \E s \in batch : contexts' = contexts \ {s} /\ proxies' = proxies \ {s}
                        /\ batch' = batch \ {s}
    /\ UNCHANGED <<processVars, kept, table, dead, next, serving, turnAt, hand, endAt, taken>>

EndBrowser ==
    /\ endAt = "sessions" /\ batch = {}
    /\ browser' = (browser /\ ~taken)
    /\ endAt' = "runtime"
    /\ UNCHANGED <<runtime, kept, proxies, contexts, table, dead, next, serving, turnAt, hand,
                   batch, taken>>

EndRuntime ==
    /\ endAt = "runtime"
    /\ runtime' = (runtime /\ ~taken)
    /\ taken' = FALSE
    /\ endAt' = "done"
    /\ UNCHANGED <<browser, kept, proxies, contexts, table, dead, next, serving, turnAt, hand,
                   batch>>

----------------------------------------------------------------------------
ResourcesNext ==
    \/ BeginSession \/ RuntimeStarts \/ Launches \/ NoBrowser \/ RuntimeStops
    \/ ProxyStarts \/ ContextOpens \/ Initialized \/ NoSession \/ ContextCloses \/ ProxyCloses
    \/ CloseSession \/ ShutdownTakes \/ EndContext \/ EndBrowser \/ EndRuntime

ResourcesSpec == ResourcesInit /\ [][ResourcesNext]_resourceVars

----------------------------------------------------------------------------
(* Properties.                                                             *)

ResourcesTypeOK ==
    /\ runtime \in BOOLEAN /\ browser \in BOOLEAN /\ kept \in BOOLEAN
    /\ dead \in BOOLEAN /\ taken \in BOOLEAN
    /\ proxies \subseteq Numbers /\ contexts \subseteq Numbers
    /\ table \subseteq Numbers /\ batch \subseteq Numbers
    /\ next \in 1 .. (MaxMade + 1)
    /\ serving \in 0 .. MaxMade /\ hand \in 0 .. MaxMade
    /\ turnAt \in {"idle"} \cup Making \cup Closing
    /\ endAt \in {"no", "sessions", "runtime", "done"}

\* The sessions and processes somebody still has to release: the controller's, those a
\* browser action is making or closing, those shutdown() is closing.
Owned == table \cup batch \cup (IF turnAt \in Making \cup Closing THEN {hand} ELSE {})
ProcessesOwned == kept \/ taken \/ turnAt \in {"launch", "stop"}

\* Nothing is orphaned, whatever fails, times out or is cancelled: every proxy, context,
\* browser process and runtime that is there has an owner that will release it, and when
\* shutdown() has ended and no action works on a session, nothing is left at all.
NothingOrphaned ==
    /\ proxies \cup contexts \subseteq Owned
    /\ runtime \/ browser => ProcessesOwned
    /\ endAt = "done" /\ turnAt = "idle"
         => proxies = {} /\ contexts = {} /\ ~runtime /\ ~browser
=============================================================================
