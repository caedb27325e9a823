----------------------------- MODULE GuiSession -----------------------------
(***************************************************************************)
(* The desktop session: GuiController (src/jarvis/gui/controller.py) and   *)
(* the permission dialog of the PySide window (src/jarvis/gui/pyside.py)   *)
(* around the turns of ActionPipeline.                                     *)
(*                                                                         *)
(* send_message and execute_action start the turn as a task of its own and *)
(* wait for it.  Between the end of that task and the resumption of the    *)
(* waiting one the event loop runs other callbacks, and the controller no  *)
(* longer counts as busy.                                                  *)
(*                                                                         *)
(* When the waiting task returns, the turn's record and cards are reset:   *)
(* nothing reads them again.                                               *)
(***************************************************************************)
EXTENDS ActionPipeline

VARIABLES
    outer,     \* outer[t]: send_message or execute_action of turn t
    card,      \* card[t][i]: the activity shown for item i
    status,    \* StatusView.state
    closed,    \* GuiController._closed
    voice,     \* capture_voice waits for speech; BOUND: one at a time
    dialog,    \* the prompt of the open dialog, pending or not
    consent    \* history: prompts of waited-for turns allowed by a click

guiVars == <<outer, card, status, closed, voice, dialog, consent>>
vars == <<pipelineVars, brokerVars, guiVars>>

NoPrompt == <<>>
PromptIds == Turns \X (1 .. MaxPlan)
NoCards == [i \in 1 .. MaxPlan |-> "none"]

\* How the task that waits for the turn ended.
Told == {"answered", "cancelled", "unknown"}

\* One invariant of the types.
TypeOK ==
    /\ turn \in [Turns -> Turn]
    /\ window \in Windows
    /\ registry \subseteq Actions
    /\ Pending \subseteq PromptIds
    /\ prompts \in [Pending -> Decision]
    /\ brokerClosed \in BOOLEAN
    /\ outer \in [Turns -> {"none", "waiting", "interrupted"} \cup Told]
    /\ card \in [Turns -> [1 .. MaxPlan ->
                    {"none", "REQUESTED", "RUNNING", "COMPLETED", "FAILED"}]]
    /\ status \in {"idle", "working", "awaiting", "cancelling", "error", "stopped"}
    /\ closed \in BOOLEAN
    /\ voice \in BOOLEAN
    /\ dialog \in PromptIds \cup {NoPrompt}
    /\ consent \subseteq PromptIds

Init ==
    /\ PipelineInit
    /\ BrokerInit
    /\ outer = [t \in Turns |-> "none"]
    /\ card = [t \in Turns |-> NoCards]
    /\ status = "idle"
    /\ closed = FALSE
    /\ voice = FALSE
    /\ dialog = NoPrompt
    /\ consent = {}

WaitedFor(t) == outer[t] \in {"waiting", "interrupted"}

\* _active_task is this turn's and not done.
Active(t) == outer[t] = "waiting" /\ ~Done(t)
Busy == \E t \in Turns : Active(t)

----------------------------------------------------------------------------
(* A turn's steps as the interface sees them.                              *)

\* _on_runtime_event, until close() unsubscribes it.
ShowCard(t, s) ==
    /\ card' = IF closed THEN card ELSE [card EXCEPT ![t][turn[t].pos] = s]
    /\ UNCHANGED <<outer, status, closed, voice, dialog, consent>>

\* Variant: only a new prompt changes the status.
PromptsAdded ==
    /\ status' = IF ~closed /\ DOMAIN prompts' # {} THEN "awaiting" ELSE status
    /\ UNCHANGED <<outer, card, closed, voice, dialog, consent>>

\* _on_permission_change: the turn whose prompt it is keeps the controller busy.
PromptsChanged ==
    /\ status' = IF closed THEN status
                 ELSE IF DOMAIN prompts' # {} THEN "awaiting" ELSE "working"
    /\ UNCHANGED <<outer, card, closed, voice, dialog, consent>>

\* Callbacks run in the order they were scheduled: the tasks waiting for
\* earlier turns resume before a new turn starts.
InOrder(t) ==
    turn[t].at = "created" => \A s \in 1 .. t - 1 : ~WaitedFor(s)

SilentStep(t) ==
    /\ \/ Hear(t)
       \/ LookUp(t)
       \/ LookUpFails(t)
       \/ Prepare(t)
       \/ PrepareFails(t)
       \/ Permit(t)
       \/ Forbid(t)
       \/ Allow(t)
       \/ Verify(t)
       \/ VerifyFails(t)
       \/ Invoke(t)
       \/ InvokeFails(t)
       \/ Respond(t)
    /\ UNCHANGED guiVars

CardStep(t) ==
    \/ Request(t) /\ ShowCard(t, "REQUESTED")
    \/ Announce(t) /\ ShowCard(t, "RUNNING")
    \/ Report(t) /\ ShowCard(t, "COMPLETED")
    \/ Fail(t) /\ ShowCard(t, "FAILED")

PromptStep(t) ==
    \/ Ask(t) /\ PromptsChanged
    \/ Confirmed(t) /\ PromptsChanged
    \/ Unconfirmed(t) /\ PromptsChanged
    \/ /\ Interrupt(t)
       /\ IF turn[t].at = "confirming" THEN PromptsChanged ELSE UNCHANGED guiVars

\* What the event loop does by itself.
LoopStep(t) ==
    /\ InOrder(t)
    /\ SilentStep(t) \/ CardStep(t) \/ PromptStep(t)

\* What a provider or a handler does in its own time.
ExternalStep(t) ==
    /\ InOrder(t)
    /\ \/ ChoosePlan(t)
       \/ Refuse(t)
       \/ Talk(t)
       \/ Crash(t)
       \/ Return(t)
       \/ Raise(t)
    /\ UNCHANGED guiVars

----------------------------------------------------------------------------
(* The controller's operations.                                            *)

\* send_message and execute_action, up to the await.
Accept(t, kind) ==
    /\ ~closed
    /\ ~Busy
    /\ outer[t] = "none"
    /\ \A s \in 1 .. t - 1 : outer[s] # "none"
    /\ turn' = [turn EXCEPT ![t].kind = kind, ![t].at = "created"]
    /\ outer' = [outer EXCEPT ![t] = "waiting"]
    /\ status' = "working"
    /\ UNCHANGED <<window, registry, brokerVars, card, closed, dialog, consent>>

Send(t, kind) == Accept(t, kind) /\ UNCHANGED voice

\* capture_voice, which does not look whether the controller is closed.
Listen ==
    /\ ~voice
    /\ ~Busy
    /\ voice' = TRUE
    /\ status' = "working"
    /\ UNCHANGED <<pipelineVars, brokerVars, outer, card, closed, dialog, consent>>

Heard(t) ==
    /\ voice
    /\ voice' = FALSE
    /\ Accept(t, "chat")

\* Nothing was said, or send_message refuses: the status stays.
HeardInVain ==
    /\ voice
    /\ voice' = FALSE
    /\ UNCHANGED <<pipelineVars, brokerVars, outer, card, status, closed, dialog, consent>>

ListenFails ==
    /\ voice
    /\ voice' = FALSE
    /\ status' = "error"
    /\ UNCHANGED <<pipelineVars, brokerVars, outer, card, closed, dialog, consent>>

\* cancel_current
CancelCurrent(t) ==
    /\ Active(t)
    /\ turn' = Cancelling(t)
    /\ status' = "cancelling"
    /\ UNCHANGED <<window, registry, brokerVars, outer, card, closed, voice, dialog, consent>>

\* close; closing the window also cancels the tasks that wait for turns, and
\* those whose turn is done see it themselves.
Close(byWindow) ==
    /\ ~closed
    /\ closed' = TRUE
    /\ CloseBroker
    /\ turn' = [t \in Turns |-> IF Active(t) THEN Cancelling(t)[t] ELSE turn[t]]
    /\ outer' = [t \in Turns |-> IF byWindow /\ outer[t] = "waiting" /\ Done(t)
                                 THEN "interrupted" ELSE outer[t]]
    /\ voice' = (voice /\ ~byWindow)
    /\ dialog' = IF byWindow THEN NoPrompt ELSE dialog
    /\ status' = "stopped"
    /\ UNCHANGED <<window, registry, card, consent>>

\* Variant: the two kinds of open cards are mixed up.
RequestedIsUnknown(t) == \E i \in 1 .. MaxPlan : card[t][i] = "REQUESTED"

\* _resolve_cancelled_activities: some card is still running.
OutcomeUnknown(t) == \E i \in 1 .. MaxPlan : card[t][i] = "RUNNING"

WasCancelled(t) == outer[t] = "interrupted" \/ turn[t].at = "cancelled"

StatusAfter(t) ==
    IF turn[t].kind = "action"
    THEN IF turn[t].result = "ok" /\ ~WasCancelled(t) THEN "idle" ELSE "error"
    ELSE IF WasCancelled(t) THEN IF closed THEN "stopped" ELSE "idle"
    ELSE IF turn[t].result = "crash" THEN "error"
    ELSE IF turn[t].result = "exit" THEN "stopped"
    ELSE IF Pending # {} THEN "awaiting"
    ELSE "idle"

\* send_message and execute_action, after the await.
OuterReturn(t) ==
    /\ WaitedFor(t)
    /\ Done(t)
    /\ outer' = [outer EXCEPT ![t] = IF ~WasCancelled(t) THEN "answered"
                                     ELSE IF OutcomeUnknown(t) THEN "unknown"
                                     ELSE "cancelled"]
    /\ status' = StatusAfter(t)
    /\ turn' = [turn EXCEPT ![t] = NewTurn]
    /\ card' = [card EXCEPT ![t] = NoCards]
    /\ consent' = {p \in consent : p[1] # t}
    /\ UNCHANGED <<window, registry, brokerVars, closed, voice, dialog>>

----------------------------------------------------------------------------
(* The permission dialog, and the prompt's timer and callback.             *)

\* _show_next_permission
ShowDialog(p) ==
    /\ ~closed
    /\ dialog = NoPrompt
    /\ dialog' = p
    /\ UNCHANGED <<pipelineVars, brokerVars, outer, card, status, closed, voice, consent>>

\* Variant: the click goes to whatever prompt is pending.
ClickPending(verdict) ==
    /\ dialog # NoPrompt
    /\ dialog' = NoPrompt
    /\ IF \E p \in Pending : Resolvable(p)
       THEN /\ Resolve(CHOOSE p \in Pending : Resolvable(p), verdict)
            /\ consent' = IF verdict = "allow" THEN consent \cup {dialog} ELSE consent
       ELSE UNCHANGED <<brokerVars, consent>>
    /\ UNCHANGED <<pipelineVars, outer, card, status, closed, voice>>

\* The dialog is finished.  Its prompt may be gone.
Click(verdict) ==
    /\ dialog # NoPrompt
    /\ dialog' = NoPrompt
    /\ IF Resolvable(dialog)
       THEN /\ Resolve(dialog, verdict)
            /\ consent' = IF verdict = "allow" THEN consent \cup {dialog} ELSE consent
       ELSE UNCHANGED <<brokerVars, consent>>
    /\ UNCHANGED <<pipelineVars, outer, card, status, closed, voice>>

PromptTimer ==
    /\ \E p \in Pending : TimeOut(p)
    /\ UNCHANGED <<pipelineVars, guiVars>>

PromptCallback ==
    /\ \E p \in Pending : SetDecision(p)
    /\ UNCHANGED <<pipelineVars, guiVars>>

\* Everything that is the event loop's own to do.
LoopWork ==
    \/ \E t \in Turns : LoopStep(t) \/ OuterReturn(t)
    \/ PromptTimer
    \/ PromptCallback

Next ==
    \/ LoopWork
    \/ \E t \in Turns :
          \/ ExternalStep(t)
          \/ \E kind \in {"chat", "action"} : Send(t, kind)
          \/ Heard(t)
          \/ CancelCurrent(t)
    \/ Listen
    \/ HeardInVain
    \/ ListenFails
    \/ \E byWindow \in BOOLEAN : Close(byWindow)
    \/ \E p \in Pending : ShowDialog(p)
    \/ \E verdict \in {"allow", "deny"} : Click(verdict)
    \/ PluginChange /\ UNCHANGED guiVars
    \/ \E w \in Windows : Activate(w) /\ UNCHANGED guiVars

\* The event loop does some of its work as long as there is any.  Users,
\* providers and handlers owe nothing.
Spec == Init /\ [][Next]_vars /\ WF_vars(LoopWork)

----------------------------------------------------------------------------
(* Properties.                                                             *)

Life(t) ==
    IF outer[t] = "none" THEN "new"
    ELSE IF outer[t] \in Told \/ Done(t) \/ turn[t].cancelling # "no" THEN "over"
    ELSE "live"

Promise == INSTANCE TurnPromise WITH
    Free <- {a \in Actions : Policy[Risk[a]] = "allow" /\ Risk[a] # "DESTRUCTIVE"}
               \ AlwaysConfirm,
    Denied <- {a \in Actions : Policy[Risk[a]] = "deny"},
    life <- [t \in Turns |-> Life(t)],
    plan <- [t \in Turns |-> turn[t].plan],
    begun <- [t \in Turns |-> turn[t].ran],
    succeeded <- [t \in Turns |-> turn[t].finished]

\* The runtime, the broker and the interface together keep the promise of
\* TurnPromise: nothing runs without the user's consent to that very item,
\* out of order, twice, after a failure or after a cancellation.
TurnsAsPromised == Promise!Spec

\* A turn reported as cancelled left no action of unknown outcome behind:
\* whatever it started, its cards show as completed or failed
\* (_resolve_cancelled_activities).
HonestCancel ==
    [][\A t \in Turns :
          outer[t] # "cancelled" /\ outer'[t] = "cancelled" =>
             \A i \in 1 .. turn[t].ran : card[t][i] \in {"COMPLETED", "FAILED"}]_vars

\* Keyboard input never sets out while a terminal is the active window,
\* whatever became active while the user was asked (prepare and verify).  The
\* window may still change after that.
NoKeysToTerminal ==
    [][\A t \in Turns :
          turn[t].at # "starting" /\ turn'[t].at = "starting"
             /\ Item(t) \in Keyboard => window \notin Terminals]_vars

\* The pending prompts are those of the turns that wait for them: none is left
\* behind by a timeout, a cancellation or a close, and none is missing (confirm).
NoOrphanPrompt ==
    Pending = {Prompt(t) : t \in {u \in Turns : turn[u].at = "confirming"}}

\* The window asks for a decision exactly when a turn waits for it, and while the
\* session is open its status line neither asks for a decision nobody waits for nor
\* promises a cancellation that is not under way (_on_permission_change,
\* cancel_current).
StatusTellsTruth ==
    /\ NoOrphanPrompt
    /\ ~closed =>
          /\ status = "awaiting" => Pending # {}
          /\ status = "cancelling" =>
                \E t \in Turns : WaitedFor(t) /\ turn[t].cancelling # "no"

\* Cancellations do not hang: again and again every cancelled turn has ended
\* and the task that waited for it has returned (OuterReturn forgets it).
CancelEnds ==
    (\E t \in Turns : turn[t].cancelling # "no")
       ~> (\A t \in Turns : turn[t].cancelling = "no")

\* No prompt waits for a decision forever, whatever the user does (the timeout
\* of confirm()).  Prompts never overlap, so the set becomes empty.
PromptEnds == (Pending # {}) ~> (Pending = {})

\* docs/gui.md: cancelling the waiting request denies the pending action, and
\* the cancel button denies pending dialogs.
CancelDenies ==
    [][\A t \in Turns :
          turn[t].cancelling # "no" /\ turn[t].at = "confirming" =>
             turn'[t].at # "allowing"]_vars
=============================================================================
