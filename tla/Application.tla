---------------------------- MODULE Application ----------------------------
(***************************************************************************)
(* The life cycle of one application (JarvisApplication.start and aclose in *)
(* src/jarvis/bootstrap.py) with what it starts and closes: integrations   *)
(* (src/jarvis/integrations/base.py, registry.py), the plug-in manager as  *)
(* far as its lock goes, the scheduler's loop, and the stores.             *)
(*                                                                         *)
(* The terminal (cli.py) closes after start() has ended.  The window       *)
(* (gui/pyside.py) is on the screen while start() runs; closing it stops   *)
(* the loop, and aclose() runs in the same loop as what start() still does.*)
(***************************************************************************)
EXTENDS Integers, FiniteSets

CONSTANTS
    Connections,    \* registered integrations, numbered as their names sort
    AutoLoad,       \* config.plugins.auto_load
    Unplugs         \* BOUND: whether disconnecting may fail

ASSUME ApplicationConstants ==
    /\ Connections \in Nat
    /\ AutoLoad \in BOOLEAN
    /\ Unplugs \in BOOLEAN

Names == 1 .. Connections
ConnectionStatuses == {"disconnected", "connecting", "connected", "failed", "closed"}

VARIABLES
    interface,  \* "terminal" or "window"
    startAt,    \* the await at which start() is suspended
    name,       \* the integration start() is at
    status,     \* Integration.status
    holder,     \* who is inside an integration's lifecycle lock
    sweep,      \* the integration IntegrationRegistry.close() is at, 0 before it
    clean,      \* every integration it met was closed
    sealed,     \* IntegrationRegistry._closed
    loadedBy,   \* what holds the plug-in manager's lock
    plugged,    \* plug-ins are loaded
    loop,       \* the scheduler's task
    stopping,   \* Scheduler._stopping
    awaited,    \* the operations aclose() waits for
    closeAt,    \* "no", "waiting", "closed"
    stores,     \* the repositories are open
    disturbed,  \* aclose() was cancelled
    overtaken   \* history: aclose() began before start() ended

appVars ==
    <<interface, startAt, name, status, holder, sweep, clean, sealed, loadedBy, plugged, loop,
      stopping, awaited, closeAt, stores, disturbed, overtaken>>

startVars == <<startAt, name>>
connectionVars == <<status, holder>>
pluginVars == <<loadedBy, plugged>>
loopVars == <<loop, stopping>>
closeVars == <<awaited, closeAt, stores, disturbed, overtaken>>
sweepVars == <<sweep, clean, sealed>>

\* Where start() is suspended: before and inside an integration's connect, at the
\* event about it, at the plug-in manager's lock, inside load_enabled.
Suspended == {"queueing", "connecting", "telling", "locking", "loading"}

\* Before aclose() nobody else takes these locks, and no listener of the program awaits: start()
\* goes through without being suspended.
Passing == closeAt = "no" /\ startAt \in {"queueing", "telling", "locking"}

\* The loop runs until aclose() has returned.
Running == closeAt # "closed"

ApplicationInit ==
    /\ interface \in {"terminal", "window"}
    /\ startAt = "new" /\ name = 1
    /\ status = [n \in Names |-> "disconnected"]
    /\ holder = [n \in Names |-> "none"]
    /\ sweep = 0 /\ clean = TRUE /\ sealed = FALSE
    /\ loadedBy = "none" /\ plugged = FALSE
    /\ loop = "none" /\ stopping = FALSE
    /\ awaited = {} /\ closeAt = "no" /\ stores = TRUE
    /\ disturbed = FALSE /\ overtaken = FALSE

----------------------------------------------------------------------------
(* start().                                                                *)

\* The next integration, or the plug-ins, or the end: what start() does without
\* being suspended.
FinishStart ==
    /\ startAt' = "done"
    /\ loop' = "created"

GoOn(n) ==
    /\ name' = n
    /\ IF n \in Names
       THEN startAt' = "queueing" /\ UNCHANGED loop
       ELSE IF AutoLoad
       THEN startAt' = "locking" /\ UNCHANGED loop
       ELSE FinishStart

Start ==
    /\ startAt = "new"
    /\ closeAt = "no"
    /\ GoOn(1)
    /\ UNCHANGED <<interface, connectionVars, sweepVars, pluginVars, stopping, closeVars>>

\* The registry is closed, or the integration is: connect raises.
ConnectRefused ==
    /\ Running
    /\ startAt = "queueing"
    /\ \/ sealed
       \/ holder[name] = "none" /\ status[name] = "closed"
    /\ startAt' = "telling"
    /\ UNCHANGED <<interface, name, connectionVars, sweepVars, pluginVars, loopVars, closeVars>>

\* Variant: a closed integration can be connected.
ConnectAnyway ==
    /\ Running
    /\ startAt = "queueing"
    /\ ~sealed
    /\ holder[name] = "none"
    /\ holder' = [holder EXCEPT ![name] = "start"]
    /\ status' = [status EXCEPT ![name] = "connecting"]
    /\ startAt' = "connecting"
    /\ UNCHANGED <<interface, name, sweepVars, pluginVars, loopVars, closeVars>>

\* Integration.connect has its lock.
Connect ==
    /\ Running
    /\ startAt = "queueing"
    /\ ~sealed
    /\ holder[name] = "none"
    /\ status[name] # "closed"
    /\ holder' = [holder EXCEPT ![name] = "start"]
    /\ status' = [status EXCEPT ![name] = "connecting"]
    /\ startAt' = "connecting"
    /\ UNCHANGED <<interface, name, sweepVars, pluginVars, loopVars, closeVars>>

Connected ==
    /\ Running
    /\ startAt = "connecting"
    /\ \E s \in {"connected", "failed"} : status' = [status EXCEPT ![name] = s]
    /\ holder' = [holder EXCEPT ![name] = "none"]
    /\ startAt' = "telling"
    /\ UNCHANGED <<interface, name, sweepVars, pluginVars, loopVars, closeVars>>

\* integration.connected or integration.failed is published.
Told ==
    /\ Running
    /\ startAt = "telling"
    /\ GoOn(name + 1)
    /\ UNCHANGED <<interface, connectionVars, sweepVars, pluginVars, stopping, closeVars>>

LoadPlugins ==
    /\ Running
    /\ startAt = "locking"
    /\ loadedBy = "none"
    /\ loadedBy' = "start"
    /\ startAt' = "loading"
    /\ UNCHANGED <<interface, name, connectionVars, sweepVars, plugged, loopVars, closeVars>>

\* load_enabled returns, with whatever could be loaded.
PluginsLoaded ==
    /\ Running
    /\ startAt = "loading"
    /\ plugged' \in BOOLEAN
    /\ loadedBy' = "none"
    /\ FinishStart
    /\ UNCHANGED <<interface, name, connectionVars, sweepVars, stopping, closeVars>>

\* The terminal's main task is cancelled (Ctrl-C).
CancelStart ==
    /\ interface = "terminal"
    /\ startAt \in Suspended /\ ~Passing
    /\ startAt' = "cancelled"
    /\ IF startAt = "connecting"
       THEN /\ holder' = [holder EXCEPT ![name] = "none"]
            /\ status' = [status EXCEPT ![name] = "failed"]
       ELSE UNCHANGED connectionVars
    /\ IF startAt = "loading"
       THEN loadedBy' = "none" /\ plugged' \in BOOLEAN
       ELSE UNCHANGED pluginVars
    /\ UNCHANGED <<interface, name, sweepVars, loopVars, closeVars>>

----------------------------------------------------------------------------
(* The scheduler's task: run() as far as starting and stopping goes.       *)

RunLoop ==
    /\ Running
    /\ loop = "created"
    /\ stopping' = FALSE
    /\ loop' = "polling"
    /\ UNCHANGED <<interface, startVars, connectionVars, sweepVars, pluginVars, closeVars>>

PollEnds ==
    /\ Running
    /\ loop = "polling"
    /\ loop' = IF stopping THEN "ended" ELSE "waiting"
    /\ UNCHANGED <<interface, startVars, connectionVars, sweepVars, pluginVars, stopping,
                   closeVars>>

\* asyncio.run cancels what is left when the terminal's main task has ended.
LoopDropped ==
    /\ interface = "terminal"
    /\ closeAt = "no"
    /\ loop \in {"created", "polling", "waiting"}
    /\ loop' = "ended"
    /\ UNCHANGED <<interface, startVars, connectionVars, sweepVars, pluginVars, stopping,
                   closeVars>>

\* A wake or the poll interval ends the wait.
WaitEnds ==
    /\ Running
    /\ loop = "waiting"
    /\ loop' = IF stopping THEN "ended" ELSE "polling"
    /\ UNCHANGED <<interface, startVars, connectionVars, sweepVars, pluginVars, stopping,
                   closeVars>>

----------------------------------------------------------------------------
(* aclose().                                                               *)

\* The scheduler is told to stop, and every operation becomes a task.
BeginClose ==
    /\ closeAt = "no"
    /\ interface = "terminal" => startAt \in {"new", "cancelled", "done"}
    /\ interface = "window" => startAt # "new" /\ loop # "created" /\ ~Passing
    /\ stopping' = TRUE
    /\ awaited' = {"plugins", "integrations"} \cup (IF loop = "none" THEN {} ELSE {"scheduler"})
    /\ closeAt' = "waiting"
    /\ overtaken' = (startAt \in Suspended)
    /\ UNCHANGED <<interface, startVars, connectionVars, sweepVars, pluginVars, loop, stores,
                   disturbed>>

\* PluginManager.shutdown has the lock.
Shutdown ==
    /\ closeAt = "waiting"
    /\ "plugins" \in awaited
    /\ loadedBy = "none"
    /\ loadedBy' = "shutdown"
    /\ UNCHANGED <<interface, startVars, connectionVars, sweepVars, plugged, loopVars, closeVars>>

ShutdownEnds ==
    /\ closeAt = "waiting"
    /\ loadedBy = "shutdown"
    /\ loadedBy' = "none"
    /\ plugged' = FALSE
    /\ awaited' = awaited \ {"plugins"}
    /\ UNCHANGED <<interface, startVars, connectionVars, sweepVars, loopVars, closeAt, stores,
                   disturbed, overtaken>>

\* IntegrationRegistry.close goes on to n, or ends.
SweepTo(n, allClosed) ==
    /\ sweep' = n
    /\ clean' = allClosed
    /\ IF n \in Names
       THEN UNCHANGED <<sealed, awaited>>
       ELSE sealed' = allClosed /\ awaited' = awaited \ {"integrations"}

\* Its first step, or an integration that is closed already.
SweepOn ==
    /\ closeAt = "waiting"
    /\ "integrations" \in awaited
    /\ \/ sweep = 0
       \/ sweep \in Names /\ holder[sweep] = "none" /\ status[sweep] = "closed"
    /\ SweepTo(sweep + 1, clean)
    /\ UNCHANGED <<interface, startVars, connectionVars, pluginVars, loopVars, closeAt, stores,
                   disturbed, overtaken>>

\* Integration.close has its lock.
Disconnect ==
    /\ closeAt = "waiting"
    /\ sweep \in Names
    /\ holder[sweep] = "none"
    /\ status[sweep] # "closed"
    /\ holder' = [holder EXCEPT ![sweep] = "close"]
    /\ UNCHANGED <<interface, startVars, status, sweepVars, pluginVars, loopVars, closeVars>>

Disconnected ==
    /\ closeAt = "waiting"
    /\ sweep \in Names
    /\ holder[sweep] = "close"
    /\ holder' = [holder EXCEPT ![sweep] = "none"]
    /\ \/ /\ status' = [status EXCEPT ![sweep] = "closed"]
          /\ SweepTo(sweep + 1, clean)
       \/ /\ Unplugs
          /\ status' = [status EXCEPT ![sweep] = "failed"]
          /\ SweepTo(sweep + 1, FALSE)
    /\ UNCHANGED <<interface, startVars, pluginVars, loopVars, closeAt, stores, disturbed,
                   overtaken>>

\* Variant: a cancellation ends the waiting.
GiveUp ==
    /\ interface = "terminal"
    /\ closeAt = "waiting"
    /\ closeAt' = "closed"
    /\ stores' = FALSE
    /\ disturbed' = TRUE
    /\ UNCHANGED <<interface, startVars, connectionVars, sweepVars, pluginVars, loopVars,
                   awaited, overtaken>>

\* Cancelling aclose() is remembered until everything is done.
CancelClose ==
    /\ interface = "terminal"
    /\ closeAt = "waiting"
    /\ ~disturbed
    /\ disturbed' = TRUE
    /\ UNCHANGED <<interface, startVars, connectionVars, sweepVars, pluginVars, loopVars,
                   awaited, closeAt, stores, overtaken>>

\* Every operation is done: the stores are closed and aclose() returns.
EndClose ==
    /\ closeAt = "waiting"
    /\ awaited \subseteq {"scheduler"}
    /\ awaited = {"scheduler"} => loop = "ended"
    /\ stores' = FALSE
    /\ closeAt' = "closed"
    /\ UNCHANGED <<interface, startVars, connectionVars, sweepVars, pluginVars, loopVars,
                   awaited, disturbed, overtaken>>

StartStep ==
    \/ Start \/ ConnectRefused \/ Connect \/ Connected \/ Told \/ LoadPlugins
    \/ PluginsLoaded \/ CancelStart
LoopStep == RunLoop \/ PollEnds \/ WaitEnds \/ LoopDropped
CloseStep ==
    \/ BeginClose \/ Shutdown \/ ShutdownEnds \/ SweepOn \/ Disconnect \/ Disconnected
    \/ CancelClose \/ EndClose

ApplicationNext == StartStep \/ LoopStep \/ CloseStep

ApplicationSpec == ApplicationInit /\ [][ApplicationNext]_appVars

----------------------------------------------------------------------------
(* Properties.                                                             *)

ApplicationTypeOK ==
    /\ interface \in {"terminal", "window"}
    /\ startAt \in Suspended \cup {"new", "done", "cancelled"}
    /\ name \in 1 .. Connections + 1
    /\ status \in [Names -> ConnectionStatuses]
    /\ holder \in [Names -> {"none", "start", "close"}]
    /\ sweep \in 0 .. Connections + 1
    /\ clean \in BOOLEAN /\ sealed \in BOOLEAN
    /\ loadedBy \in {"none", "start", "shutdown"} /\ plugged \in BOOLEAN
    /\ loop \in {"none", "created", "polling", "waiting", "ended"} /\ stopping \in BOOLEAN
    /\ awaited \subseteq {"scheduler", "plugins", "integrations"}
    /\ closeAt \in {"no", "waiting", "closed"}
    /\ stores \in BOOLEAN /\ disturbed \in BOOLEAN /\ overtaken \in BOOLEAN

Quiet ==
    /\ loop \in {"none", "ended"}
    /\ ~plugged
    /\ \A n \in Names : status[n] \in {"closed", "failed"} /\ holder[n] = "none"

\* When aclose() returns nothing of the application runs: the scheduler's loop has
\* ended, no plug-in is loaded, and every integration is closed or failed to close.
\* This holds however aclose() is cancelled, whatever integrations do, and at
\* whatever await start() was cancelled; but not when start() goes on meanwhile.
QuietAfterClose == closeAt = "closed" /\ ~overtaken => Quiet

\* Connecting and closing meet at any await, and still a closed integration is never
\* connected again, and once plug-ins were shut down none is loaded, unless start()
\* goes on while aclose() runs.
StayClosed ==
    /\ \A n \in Names : status[n] = "closed" => status'[n] = "closed"
    /\ closeAt = "waiting" /\ "plugins" \notin awaited /\ ~overtaken => ~plugged'
ClosedForGood == [][StayClosed]_appVars

\* docs/architecture.md:171: aclose() "stops or closes each optional service".
ClosedIsQuiet == closeAt = "closed" => Quiet
=============================================================================
