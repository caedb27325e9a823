--------------------------- MODULE ActionPipeline ---------------------------
(***************************************************************************)
(* AgentRuntime (src/jarvis/core/runtime.py) carrying out turns: a chat    *)
(* message that may become a plan of actions, or one action started by a   *)
(* control of the interface.  Every action of a plan is requested, looked  *)
(* up, bound to a window, allowed by policy or prompt, verified, announced *)
(* and invoked, and the plan stops at its first failure.                   *)
(*                                                                         *)
(* A turn is one asyncio task.  at[t] is where it can be suspended; what   *)
(* runs between two suspensions is one action here.  Publishing an event   *)
(* may suspend, because a plug-in's listener may await.                    *)
(***************************************************************************)
EXTENDS PermissionBroker, Sequences

CONSTANTS
    Actions, PluginActions,   \* the latter come and go with their plug-in
    Risk, Policy,             \* of an action; of a risk
    AlwaysConfirm,            \* ALWAYS_CONFIRM_ACTIONS
    Keyboard, Pointer,        \* actions that go to the active window
    Windows, Terminals,
    RefusedPlans,             \* plans validate_sequence or the limit refuses
    MaxTurns,                 \* BOUND on the turns of a session
    MaxPlan,                  \* actions of the longest plan
    None                      \* no window

ASSUME PipelineConstants ==
    /\ Risk \in [Actions -> {"READ", "ACTION", "SENSITIVE", "DESTRUCTIVE"}]
    /\ Policy \in [{"READ", "ACTION", "SENSITIVE", "DESTRUCTIVE"} ->
                      {"allow", "ask", "deny"}]
    /\ PluginActions \cup AlwaysConfirm \cup Keyboard \cup Pointer \subseteq Actions
    /\ Terminals \subseteq Windows
    /\ MaxTurns \in Nat /\ MaxPlan \in Nat \ {0}
    /\ None \notin Windows

VARIABLES
    turn,       \* the state of each turn, a record
    window,     \* the active window
    registry    \* ActionRegistry._actions

pipelineVars == <<turn, window, registry>>

Turns == 1 .. MaxTurns
Plans == UNION {[1 .. n -> Actions] : n \in 1 .. MaxPlan}

\* Where a turn may be suspended; "ended" and "cancelled" are a done task.
Places ==
    {"unborn", "created", "thinking",             \* no plan yet
     "requesting", "looking", "preparing", "asking", "confirming", "allowing",
     "verifying", "starting", "invoking", "running", "reporting", "failing",
     "responding", "ended", "cancelled"}

NewTurn ==
    [kind |-> "chat", at |-> "unborn", plan |-> <<>>, pos |-> 1, bound |-> None,
     cancelling |-> "no", result |-> "none", ran |-> 0, finished |-> 0]

Turn == [kind : {"chat", "action"}, at : Places, plan : Plans \cup {<<>>},
         pos : 1 .. MaxPlan,            \* the item being carried out
         bound : Windows \cup {None},   \* GuardContext.window_handle
         cancelling : {"no", "due", "lost"},   \* task.cancel() was called, and
                                        \* will be raised or will be swallowed
         result : {"none", "ok", "failure", "exit", "crash"},
         ran : 0 .. MaxPlan,            \* history: items whose handler was called
         finished : 0 .. MaxPlan]       \* history: items that succeeded

PipelineInit ==
    /\ turn = [t \in Turns |-> NewTurn]
    /\ window \in Windows
    /\ registry = Actions

Done(t) == turn[t].at \in {"ended", "cancelled"}
Item(t) == turn[t].plan[turn[t].pos]
Prompt(t) == <<t, turn[t].pos>>
GoesToWindow(a) == a \in Keyboard \cup Pointer

\* The cancellation is raised when the task resumes.
Cancelled(t) == turn[t].cancelling = "due"

----------------------------------------------------------------------------
(* PermissionManager.check: what the policies say of an action.            *)

\* Variant: the confirmation floor is forgotten.
ConfiguredOnly(a) == Policy[Risk[a]]

Effective(a) ==
    IF /\ Policy[Risk[a]] = "allow"
       /\ Risk[a] = "DESTRUCTIVE" \/ a \in AlwaysConfirm
    THEN "ask"
    ELSE Policy[Risk[a]]

----------------------------------------------------------------------------
(* The steps of a turn.                                                    *)

Go(t, from, to) ==
    /\ turn[t].at = from
    /\ ~Cancelled(t)
    /\ turn' = [turn EXCEPT ![t].at = to]

Step(t, from, to) ==
    /\ Go(t, from, to)
    /\ UNCHANGED <<window, registry, brokerVars>>

\* process: USER_MESSAGE is published.
Hear(t) ==
    /\ turn[t].kind = "chat"
    /\ Step(t, "created", "thinking")

CanPlan(t) ==
    \/ turn[t].kind = "chat" /\ turn[t].at = "thinking"
    \/ turn[t].kind = "action" /\ turn[t].at = "created"

AfterPlan(t) == IF turn[t].kind = "chat" THEN "responding" ELSE "ended"

\* The planner, the language model or the control gives a plan.
ChoosePlan(t) ==
    /\ CanPlan(t)
    /\ ~Cancelled(t)
    /\ \E p \in Plans \ RefusedPlans :
          /\ turn[t].kind = "action" => Len(p) = 1
          /\ turn' = [turn EXCEPT ![t].plan = p, ![t].at = "requesting"]
    /\ UNCHANGED <<window, registry, brokerVars>>

\* execute_requests refuses the whole plan.
Refuse(t) ==
    /\ CanPlan(t)
    /\ ~Cancelled(t)
    /\ \E p \in RefusedPlans :
          turn[t].kind = "action" => Len(p) = 1
    /\ turn' = [turn EXCEPT ![t].result = "failure", ![t].at = AfterPlan(t)]
    /\ UNCHANGED <<window, registry, brokerVars>>

\* An answer without a plan.
Talk(t) ==
    /\ turn[t].at = "thinking"
    /\ ~Cancelled(t)
    /\ \E r \in {"ok", "exit"} :
          turn' = [turn EXCEPT ![t].result = r, ![t].at = "responding"]
    /\ UNCHANGED <<window, registry, brokerVars>>

\* The model's provider raises what process does not expect, while a plan is
\* asked for or the results are summarised.
Crash(t) ==
    /\ turn[t].kind = "chat"
    /\ turn[t].at \in {"thinking", "responding"}
    /\ ~Cancelled(t)
    /\ turn' = [turn EXCEPT ![t].result = "crash", ![t].at = "ended"]
    /\ UNCHANGED <<window, registry, brokerVars>>

\* ACTION_REQUESTED reaches the interface.
Request(t) == Step(t, "requesting", "looking")

LookUp(t) ==
    /\ turn[t].at = "looking"
    /\ Item(t) \in registry
    /\ Step(t, "looking", IF GoesToWindow(Item(t)) THEN "preparing" ELSE "asking")

\* An unknown action, or arguments its schema refuses.
LookUpFails(t) == Step(t, "looking", "failing")

\* DesktopExecutionGuard.prepare binds the active window.
Prepare(t) ==
    /\ turn[t].at = "preparing"
    /\ Item(t) \in Keyboard => window \notin Terminals
    /\ ~Cancelled(t)
    /\ turn' = [turn EXCEPT ![t].bound = window, ![t].at = "asking"]
    /\ UNCHANGED <<window, registry, brokerVars>>

\* A terminal, no window, or not the window expected in time.
PrepareFails(t) == Step(t, "preparing", "failing")

Permit(t) ==
    /\ turn[t].at = "asking"
    /\ Effective(Item(t)) = "allow"
    /\ Step(t, "asking", "allowing")

Forbid(t) ==
    /\ turn[t].at = "asking"
    /\ \/ Effective(Item(t)) = "deny"
       \/ Effective(Item(t)) = "ask" /\ brokerClosed
    /\ Step(t, "asking", "failing")

Ask(t) ==
    /\ Go(t, "asking", "confirming")
    /\ Effective(Item(t)) = "ask"
    /\ Open(Prompt(t))
    /\ UNCHANGED <<window, registry>>

\* confirm() returns.  A swallowed cancellation is gone.
Decided(t, to) ==
    /\ turn[t].at = "confirming"
    /\ Answered(Prompt(t))
    /\ ~Cancelled(t)
    /\ turn' = [turn EXCEPT ![t].at = to, ![t].cancelling = "no"]
    /\ Withdraw(Prompt(t))
    /\ UNCHANGED <<window, registry>>

Confirmed(t) == Decided(t, "allowing") /\ Approved(Prompt(t))
Unconfirmed(t) == Decided(t, "failing") /\ ~Approved(Prompt(t))

\* PERMISSION_ALLOWED is published; only a bound window needs verification.
Allow(t) ==
    Step(t, "allowing", IF turn[t].bound # None THEN "verifying" ELSE "starting")

\* Variant: the binding is not compared.
VerifyNothing(t) ==
    /\ turn[t].at = "verifying"
    /\ ~Cancelled(t)
    /\ turn' = [turn EXCEPT ![t].bound = None, ![t].at = "starting"]
    /\ UNCHANGED <<window, registry, brokerVars>>

\* DesktopExecutionGuard.verify.
Verify(t) ==
    /\ turn[t].at = "verifying"
    /\ window = turn[t].bound
    /\ ~Cancelled(t)
    /\ turn' = [turn EXCEPT ![t].bound = None, ![t].at = "starting"]
    /\ UNCHANGED <<window, registry, brokerVars>>

VerifyFails(t) ==
    /\ Step(t, "verifying", "failing")
    /\ window # turn[t].bound

\* ACTION_STARTED reaches the interface.
Announce(t) == Step(t, "starting", "invoking")

\* ActionRegistry.invoke: up to the handler's first suspension.
Invoke(t) ==
    /\ turn[t].at = "invoking"
    /\ Item(t) \in registry
    /\ ~Cancelled(t)
    /\ turn' = [turn EXCEPT ![t].ran = @ + 1, ![t].at = "running"]
    /\ UNCHANGED <<window, registry, brokerVars>>

\* The action's plug-in was disabled in the meantime.
InvokeFails(t) ==
    /\ Step(t, "invoking", "failing")
    /\ Item(t) \notin registry

\* The handler is done; or it raised, or returned a failure.
Return(t) ==
    /\ turn[t].at = "running"
    /\ ~Cancelled(t)
    /\ turn' = [turn EXCEPT ![t].finished = @ + 1, ![t].at = "reporting"]
    /\ UNCHANGED <<window, registry, brokerVars>>

Raise(t) == Step(t, "running", "failing")

\* Variant: the loop repeats the item.
ReportAndRepeat(t) ==
    /\ turn[t].at = "reporting"
    /\ ~Cancelled(t)
    /\ turn' = [turn EXCEPT ![t].at = "requesting"]
    /\ UNCHANGED <<window, registry, brokerVars>>

\* ACTION_COMPLETED reaches the interface, and the loop goes on.
Report(t) ==
    /\ turn[t].at = "reporting"
    /\ ~Cancelled(t)
    /\ turn' = IF turn[t].pos < Len(turn[t].plan)
               THEN [turn EXCEPT ![t].pos = @ + 1, ![t].at = "requesting"]
               ELSE [turn EXCEPT ![t].result = "ok", ![t].at = AfterPlan(t)]
    /\ UNCHANGED <<window, registry, brokerVars>>

\* ACTION_FAILED reaches the interface, and the loop is left.
Fail(t) ==
    /\ turn[t].at = "failing"
    /\ ~Cancelled(t)
    /\ turn' = [turn EXCEPT ![t].result = "failure", ![t].at = AfterPlan(t)]
    /\ UNCHANGED <<window, registry, brokerVars>>

\* The model's summary and ASSISTANT_MESSAGE; then the task returns.
Respond(t) == Step(t, "responding", "ended")

\* Variant: a cancelled turn leaves its prompt behind.
InterruptOnly(t) ==
    /\ Cancelled(t)
    /\ turn[t].at \notin {"unborn", "ended", "cancelled"}
    /\ turn' = [turn EXCEPT ![t].at = "cancelled"]
    /\ UNCHANGED <<window, registry, brokerVars>>

\* Variant: the wait of confirm() is shielded from the cancellation.
InterruptUnlessAsked(t) ==
    /\ Cancelled(t)
    /\ turn[t].at \notin {"unborn", "confirming", "ended", "cancelled"}
    /\ turn' = [turn EXCEPT ![t].at = "cancelled"]
    /\ UNCHANGED <<window, registry, brokerVars>>

\* CancelledError leaves the task, through confirm()'s finally.
Interrupt(t) ==
    /\ Cancelled(t)
    /\ turn[t].at \notin {"unborn", "ended", "cancelled"}
    /\ turn' = [turn EXCEPT ![t].at = "cancelled"]
    /\ IF turn[t].at = "confirming" THEN Withdraw(Prompt(t)) ELSE UNCHANGED brokerVars
    /\ UNCHANGED <<window, registry>>

----------------------------------------------------------------------------
(* Around the turns.                                                       *)

\* task.cancel() on a task that is not done.  wait_for swallows it if it
\* prefers the answer it already has.
Cancelling(t) ==
    LET swallowed == /\ KeepsAnswer
                     /\ turn[t].at = "confirming"
                     /\ prompts[Prompt(t)].done
    IN [turn EXCEPT ![t].cancelling = IF swallowed THEN "lost" ELSE "due"]

\* A plug-in is disabled or enabled.
PluginChange ==
    /\ PluginActions # {}
    /\ registry' = IF PluginActions \subseteq registry
                   THEN registry \ PluginActions
                   ELSE registry \cup PluginActions
    /\ UNCHANGED <<turn, window, brokerVars>>

\* The user, or the action just run, activates a window.
Activate(w) ==
    /\ w # window
    /\ window' = w
    /\ UNCHANGED <<turn, registry, brokerVars>>
=============================================================================
