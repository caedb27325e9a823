------------------------- MODULE ApplicationProofs -------------------------
(***************************************************************************)
(* Proofs about Application, for any number of integrations: its types,    *)
(* that nothing runs when aclose() has returned (QuietAfterClose), and that *)
(* nothing closed is used again (ClosedForGood).                           *)
(***************************************************************************)
EXTENDS Application, TLAPS

\* Who is inside what: the locks agree with the awaits.
LocksAgree ==
    /\ \A n \in Names : holder[n] = "start" <=> startAt = "connecting" /\ n = name
    /\ \A n \in Names :
          holder[n] = "close" =>
             n = sweep /\ closeAt = "waiting" /\ "integrations" \in awaited /\ status[n] # "closed"
    /\ startAt \in {"queueing", "connecting", "telling"} => name \in Names
    /\ startAt = "connecting" => status[name] = "connecting"
    /\ loadedBy = "start" <=> startAt = "loading"
    /\ loadedBy = "shutdown" => "plugins" \in awaited
    /\ loop # "none" <=> startAt = "done"

\* Unless it is overtaken, nothing of start() is left when aclose() begins, and
\* everything start() has made is waited for.
Settled ==
    closeAt # "no" /\ ~overtaken =>
       /\ startAt \notin Suspended
       /\ loop # "none" => "scheduler" \in awaited
       /\ "plugins" \notin awaited => ~plugged
       /\ \A n \in Names :
             n < sweep => status[n] \in {"closed", "failed"} /\ holder[n] = "none"

\* The sweep: where it is tells whether it is over.
SweepAgrees ==
    /\ closeAt = "no" => sweep = 0
    /\ closeAt # "no" /\ "integrations" \notin awaited => sweep = Connections + 1

\* The flags, and the rest of the types.
Flags ==
    /\ clean \in BOOLEAN /\ sealed \in BOOLEAN /\ plugged \in BOOLEAN
    /\ stopping \in BOOLEAN
    /\ stores \in BOOLEAN /\ disturbed \in BOOLEAN /\ overtaken \in BOOLEAN

Places ==
    /\ interface \in {"terminal", "window"}
    /\ startAt \in Suspended \cup {"new", "done", "cancelled"}
    /\ name \in 1 .. Connections + 1
    /\ status \in [Names -> ConnectionStatuses]
    /\ holder \in [Names -> {"none", "start", "close"}]
    /\ sweep \in 0 .. Connections + 1
    /\ loadedBy \in {"none", "start", "shutdown"}
    /\ loop \in {"none", "created", "polling", "waiting", "ended"}
    /\ awaited \subseteq {"scheduler", "plugins", "integrations"}
    /\ closeAt \in {"no", "waiting", "closed"}

AppInv ==
    /\ ApplicationTypeOK
    /\ LocksAgree
    /\ Settled
    /\ SweepAgrees
    /\ QuietAfterClose

----------------------------------------------------------------------------
(* One step at a time. ConnectionStatuses and Suspended are sets of names.  *)

USE ApplicationConstants DEF Names, ConnectionStatuses, Suspended, Running

LEMMA InitEstablishes ==
    ApplicationInit => AppInv
<1> SUFFICES ASSUME ApplicationInit PROVE AppInv
  OBVIOUS
<1>1. Places
  BY DEF ApplicationInit, Places
<1>2. Flags
  BY Zenon DEF ApplicationInit, Flags
<1>3. LocksAgree /\ Settled /\ SweepAgrees /\ QuietAfterClose
  BY DEF ApplicationInit, LocksAgree, Settled, SweepAgrees, QuietAfterClose
<1> QED BY <1>1, <1>2, <1>3 DEF AppInv, ApplicationTypeOK, Places, Flags

\* start() keeps the invariant.
LEMMA StartKeeps ==
    ASSUME AppInv, StartStep
    PROVE  AppInv'
<1> USE DEF AppInv, ApplicationTypeOK
<1>1. CASE Start
  BY <1>1 DEF Start, LocksAgree, Settled, SweepAgrees, QuietAfterClose, Quiet,
     startVars, connectionVars, pluginVars, loopVars, sweepVars, closeVars, GoOn, FinishStart
<1>2. CASE ConnectRefused
  BY <1>2 DEF ConnectRefused, LocksAgree, Settled, SweepAgrees, QuietAfterClose, Quiet,
     startVars, connectionVars, pluginVars, loopVars, sweepVars, closeVars, GoOn, FinishStart
<1>3. CASE Connect
  BY <1>3 DEF Connect, LocksAgree, Settled, SweepAgrees, QuietAfterClose, Quiet,
     startVars, connectionVars, pluginVars, loopVars, sweepVars, closeVars, GoOn, FinishStart
<1>4. CASE Connected
  BY <1>4 DEF Connected, LocksAgree, Settled, SweepAgrees, QuietAfterClose, Quiet,
     startVars, connectionVars, pluginVars, loopVars, sweepVars, closeVars, GoOn, FinishStart
<1>5. CASE Told
  BY <1>5 DEF Told, LocksAgree, Settled, SweepAgrees, QuietAfterClose, Quiet,
     startVars, connectionVars, pluginVars, loopVars, sweepVars, closeVars, GoOn, FinishStart
<1>6. CASE LoadPlugins
  BY <1>6 DEF LoadPlugins, LocksAgree, Settled, SweepAgrees, QuietAfterClose, Quiet,
     startVars, connectionVars, pluginVars, loopVars, sweepVars, closeVars, GoOn, FinishStart
<1>7. CASE PluginsLoaded
  BY <1>7 DEF PluginsLoaded, LocksAgree, Settled, SweepAgrees, QuietAfterClose, Quiet,
     startVars, connectionVars, pluginVars, loopVars, sweepVars, closeVars, GoOn, FinishStart
<1>8. CASE CancelStart
  BY <1>8 DEF CancelStart, LocksAgree, Settled, SweepAgrees, QuietAfterClose, Quiet,
     startVars, connectionVars, pluginVars, loopVars, sweepVars, closeVars, GoOn, FinishStart
<1> QED BY <1>1, <1>2, <1>3, <1>4, <1>5, <1>6, <1>7, <1>8 DEF StartStep

\* The scheduler's task keeps the invariant.
LEMMA LoopKeeps ==
    ASSUME AppInv, LoopStep
    PROVE  AppInv'
<1> USE DEF AppInv, ApplicationTypeOK
<1>1. CASE RunLoop
  <2> USE <1>1 DEF RunLoop, startVars, connectionVars, pluginVars,
      sweepVars, closeVars
  <2>1. ApplicationTypeOK'
    <3>1. Places'
      BY DEF Places
    <3>2. Flags'
      BY Zenon DEF Flags
    <3> QED BY <3>1, <3>2 DEF Places, Flags
  <2>2. LocksAgree'
    BY DEF LocksAgree
  <2>3. Settled'
    BY DEF Settled, LocksAgree, SweepAgrees
  <2>4. SweepAgrees'
    BY DEF SweepAgrees, LocksAgree
  <2>5. QuietAfterClose'
    BY DEF QuietAfterClose, Quiet
  <2> QED BY <2>1, <2>2, <2>3, <2>4, <2>5
<1>2. CASE PollEnds
  BY <1>2 DEF PollEnds, LocksAgree, Settled, SweepAgrees, QuietAfterClose, Quiet,
     startVars, connectionVars, pluginVars, loopVars, sweepVars, closeVars
<1>3. CASE WaitEnds
  BY <1>3 DEF WaitEnds, LocksAgree, Settled, SweepAgrees, QuietAfterClose, Quiet,
     startVars, connectionVars, pluginVars, loopVars, sweepVars, closeVars
<1>4. CASE LoopDropped
  BY <1>4 DEF LoopDropped, LocksAgree, Settled, SweepAgrees, QuietAfterClose, Quiet,
     startVars, connectionVars, pluginVars, loopVars, sweepVars, closeVars
<1> QED BY <1>1, <1>2, <1>3, <1>4 DEF LoopStep

\* aclose() keeps the invariant.
LEMMA CloseKeeps ==
    ASSUME AppInv, CloseStep
    PROVE  AppInv'
<1> USE DEF AppInv, ApplicationTypeOK
<1>1. CASE BeginClose
  <2> USE <1>1 DEF BeginClose, startVars, connectionVars, pluginVars,
      sweepVars
  <2>1. ApplicationTypeOK'
    <3>1. Places'
      BY DEF Places
    <3>2. Flags'
      <4>1. clean \in BOOLEAN /\ sealed \in BOOLEAN /\ plugged \in BOOLEAN /\ stores \in BOOLEAN
            /\ disturbed \in BOOLEAN
        OBVIOUS
      <4>2. overtaken' \in BOOLEAN
        <5>1. overtaken' = (startAt \in Suspended)
          BY Zenon
        <5> QED BY <5>1
      <4> QED BY <4>1, <4>2, Zenon DEF Flags
    <3> QED BY <3>1, <3>2 DEF Places, Flags
  <2>2. LocksAgree'
    BY DEF LocksAgree
  <2>3. Settled'
    <3>1. CASE startAt \in Suspended
      BY <3>1 DEF Settled
    <3>2. CASE startAt \notin Suspended
      <4>1. \A n \in Names : ~(n < sweep')
        BY DEF SweepAgrees
      <4>2. startAt' \notin Suspended
        BY <3>2
      <4>3. loop' # "none" => "scheduler" \in awaited'
        OBVIOUS
      <4> QED BY <4>1, <4>2, <4>3 DEF Settled
    <3> QED BY <3>1, <3>2
  <2>4. SweepAgrees'
    BY DEF SweepAgrees, LocksAgree
  <2>5. QuietAfterClose'
    BY DEF QuietAfterClose, Quiet
  <2> QED BY <2>1, <2>2, <2>3, <2>4, <2>5
<1>2. CASE Shutdown
  BY <1>2 DEF Shutdown, LocksAgree, Settled, SweepAgrees, QuietAfterClose, Quiet,
     startVars, connectionVars, pluginVars, loopVars, sweepVars, closeVars, SweepTo
<1>3. CASE ShutdownEnds
  <2> USE <1>3 DEF ShutdownEnds, startVars, connectionVars,
      sweepVars, loopVars
  <2>1. ApplicationTypeOK'
    <3>1. Places'
      <4>1. awaited' \subseteq {"scheduler", "plugins", "integrations"}
        OBVIOUS
      <4> QED BY <4>1 DEF Places
    <3>2. Flags'
      BY Zenon DEF Flags
    <3> QED BY <3>1, <3>2 DEF Places, Flags
  <2>2. LocksAgree'
    BY DEF LocksAgree
  <2>3. Settled'
    BY DEF Settled, LocksAgree, SweepAgrees
  <2>4. SweepAgrees'
    BY DEF SweepAgrees, LocksAgree
  <2>5. QuietAfterClose'
    BY DEF QuietAfterClose, Quiet
  <2> QED BY <2>1, <2>2, <2>3, <2>4, <2>5
<1>4. CASE SweepOn
  <2> USE <1>4 DEF SweepOn, SweepTo, startVars, connectionVars,
      pluginVars, loopVars
  <2>1. ApplicationTypeOK'
    <3>1. Places'
      <4>1. awaited' \subseteq {"scheduler", "plugins", "integrations"}
        OBVIOUS
      <4>2. sweep' \in 0 .. Connections + 1
        OBVIOUS
      <4> QED BY <4>1, <4>2 DEF Places
    <3>2. Flags'
      BY Zenon DEF Flags
    <3> QED BY <3>1, <3>2 DEF Places, Flags
  <2>2. LocksAgree'
    BY DEF LocksAgree
  <2>3. Settled'
    BY DEF Settled, LocksAgree, SweepAgrees
  <2>4. SweepAgrees'
    BY DEF SweepAgrees, LocksAgree
  <2>5. QuietAfterClose'
    BY DEF QuietAfterClose, Quiet
  <2> QED BY <2>1, <2>2, <2>3, <2>4, <2>5
<1>5. CASE Disconnect
  BY <1>5 DEF Disconnect, LocksAgree, Settled, SweepAgrees, QuietAfterClose, Quiet,
     startVars, connectionVars, pluginVars, loopVars, sweepVars, closeVars, SweepTo
<1>6. CASE Disconnected
  <2> USE <1>6 DEF Disconnected, SweepTo, startVars, pluginVars, loopVars
  <2>1. ApplicationTypeOK'
    <3>1. Places'
      <4>1. awaited' \subseteq {"scheduler", "plugins", "integrations"}
        OBVIOUS
      <4>2. sweep' \in 0 .. Connections + 1
        OBVIOUS
      <4> QED BY <4>1, <4>2 DEF Places
    <3>2. Flags'
      BY Zenon DEF Flags
    <3> QED BY <3>1, <3>2 DEF Places, Flags
  <2>2. LocksAgree'
    BY DEF LocksAgree
  <2>3. Settled'
    BY DEF Settled, LocksAgree, SweepAgrees
  <2>4. SweepAgrees'
    BY DEF SweepAgrees, LocksAgree
  <2>5. QuietAfterClose'
    BY DEF QuietAfterClose, Quiet
  <2> QED BY <2>1, <2>2, <2>3, <2>4, <2>5
<1>7. CASE CancelClose
  BY <1>7 DEF CancelClose, LocksAgree, Settled, SweepAgrees, QuietAfterClose, Quiet,
     startVars, connectionVars, pluginVars, loopVars, sweepVars, closeVars, SweepTo
<1>8. CASE EndClose
  <2>1. QuietAfterClose'
    <3>1. SUFFICES ASSUME ~overtaken PROVE Quiet'
      BY <1>8 DEF EndClose, QuietAfterClose
    <3>2. "plugins" \notin awaited /\ "integrations" \notin awaited
      BY <1>8 DEF EndClose
    <3>3. closeAt = "waiting" /\ startAt \notin Suspended /\ ~plugged
      BY <1>8, <3>1, <3>2 DEF EndClose, Settled
    <3>4. loop \in {"none", "ended"}
      BY <1>8, <3>1, <3>2 DEF EndClose, Settled
    <3>5. \A n \in Names : status[n] \in {"closed", "failed"} /\ holder[n] = "none"
      BY <3>1, <3>2, <3>3 DEF Settled, SweepAgrees
    <3> QED BY <1>8, <3>3, <3>4, <3>5 DEF EndClose, Quiet, connectionVars, pluginVars, loopVars
  <2>2. LocksAgree' /\ SweepAgrees' /\ Settled'
    BY <1>8 DEF EndClose, LocksAgree, Settled, SweepAgrees, startVars, connectionVars,
       pluginVars, loopVars, sweepVars
  <2>3. ApplicationTypeOK'
    <3>1. Places'
      BY <1>8 DEF EndClose, Places, startVars, connectionVars, pluginVars, loopVars, sweepVars
    <3>2. Flags'
      BY <1>8, Zenon DEF EndClose, Flags, pluginVars, loopVars, sweepVars
    <3> QED BY <3>1, <3>2 DEF Places, Flags
  <2> QED BY <2>1, <2>2, <2>3
<1> QED BY <1>1, <1>2, <1>3, <1>4, <1>5, <1>6, <1>7, <1>8 DEF CloseStep

LEMMA StutterKeeps ==
    ASSUME AppInv, UNCHANGED appVars
    PROVE  AppInv'
BY DEF appVars, AppInv, ApplicationTypeOK, LocksAgree, Settled, SweepAgrees, QuietAfterClose, Quiet

\* The invariant holds in every reachable state.
LEMMA AppInvHolds == ApplicationSpec => []AppInv
<1>1. AppInv /\ [ApplicationNext]_appVars => AppInv'
  BY StartKeeps, LoopKeeps, CloseKeeps, StutterKeeps DEF ApplicationNext
<1> QED BY InitEstablishes, <1>1, PTL DEF ApplicationSpec

----------------------------------------------------------------------------
(* The theorems.                                                           *)

\* Every variable of start() and aclose() keeps its type.
THEOREM ApplicationTypeCorrect == ApplicationSpec => []ApplicationTypeOK
<1>1. AppInv => ApplicationTypeOK
  BY DEF AppInv
<1> QED BY <1>1, AppInvHolds, PTL

\* When aclose() has returned, nothing that start() started runs, unless start() went
\* on beside it: however many integrations there are, fail, or were being connected.
THEOREM ClosedApplicationIsQuiet == ApplicationSpec => []QuietAfterClose
<1>1. AppInv => QuietAfterClose
  BY DEF AppInv
<1> QED BY <1>1, AppInvHolds, PTL

\* No step connects a closed integration or, when plug-ins were shut down, loads one.
LEMMA StepsStayClosed ==
    ASSUME AppInv, [ApplicationNext]_appVars
    PROVE  StayClosed
<1> USE DEF AppInv, ApplicationTypeOK
<1>1. \A n \in Names : status[n] = "closed" => status'[n] = "closed"
  <2>1. CASE Connect \/ Connected \/ CancelStart
    BY <2>1 DEF Connect, Connected, CancelStart, LocksAgree, connectionVars
  <2>2. CASE Disconnected
    BY <2>2 DEF Disconnected, LocksAgree
  <2>3. ASSUME ~(Connect \/ Connected \/ CancelStart \/ Disconnected)
        PROVE  UNCHANGED status
    BY <2>3 DEF ApplicationNext, StartStep, LoopStep, CloseStep, appVars, connectionVars,
       Start, ConnectRefused, Told, LoadPlugins, PluginsLoaded, RunLoop, PollEnds, WaitEnds,
       LoopDropped, BeginClose, Shutdown, ShutdownEnds, SweepOn, Disconnect, CancelClose,
       EndClose
  <2> QED BY <2>1, <2>2, <2>3
<1>2. closeAt = "waiting" /\ "plugins" \notin awaited /\ ~overtaken => ~plugged'
  <2> SUFFICES ASSUME closeAt = "waiting", "plugins" \notin awaited, ~overtaken
               PROVE  ~plugged'
    OBVIOUS
  <2>1. ~plugged /\ startAt \notin Suspended /\ startAt # "loading"
    BY DEF Settled
  <2>2. CASE ShutdownEnds
    BY <2>2 DEF ShutdownEnds
  <2>3. ASSUME ~ShutdownEnds PROVE UNCHANGED plugged
    BY <2>1, <2>3 DEF ApplicationNext, StartStep, LoopStep, CloseStep, appVars, pluginVars,
       Start, ConnectRefused, Connect, Connected, Told, LoadPlugins, PluginsLoaded, CancelStart,
       RunLoop, PollEnds, WaitEnds, LoopDropped, BeginClose, Shutdown, SweepOn, Disconnect,
       Disconnected, CancelClose, EndClose
  <2> QED BY <2>1, <2>2, <2>3
<1> QED BY <1>1, <1>2 DEF StayClosed

\* Nothing that was closed or shut down comes back, at whatever awaits connecting and
\* closing meet.
THEOREM NothingReopens == ApplicationSpec => ClosedForGood
<1>1. AppInv /\ [ApplicationNext]_appVars => [StayClosed]_appVars
  BY StepsStayClosed
<1> QED BY <1>1, AppInvHolds, PTL DEF ApplicationSpec, ClosedForGood
=============================================================================
