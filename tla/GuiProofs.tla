----------------------------- MODULE GuiProofs -----------------------------
(***************************************************************************)
(* The desktop session keeps its promises for any number of turns, plans,  *)
(* windows and prompts: its types, the status line, keyboard input, the    *)
(* report of a cancellation, and the refinement of TurnPromise.            *)
(*                                                                         *)
(* None of these is inductive alone.  SessionInv adds what the record of a *)
(* turn holds at each place (PlaceFits, WindowFits, PolicyFits), that a    *)
(* turn is there as long as somebody waits for it (WaiterFits), that what  *)
(* a prompt let through was allowed by a click (ConsentFits), and that one *)
(* turn is carried out at a time (OneActive).  CardInv adds, where         *)
(* wait_for drops an answer for a cancellation, that a closed session      *)
(* begins nothing any more and that what has begun shows as such.          *)
(***************************************************************************)
EXTENDS GuiSession, TLAPS

\* Before its action is invoked; where a permission is in force; where a window is bound.
Unrun == {"requesting", "looking", "preparing", "asking", "confirming", "allowing",
          "verifying", "starting", "invoking"}
Permitted == {"allowing", "verifying", "starting", "invoking"}
Bound == {"asking", "confirming", "allowing", "verifying"}

Current(r) == r.plan[r.pos]

\* What has run and succeeded is what the place in the plan says.
PlaceFits(r) ==
    /\ r.at \in {"unborn", "created", "thinking"} =>
          r.plan = <<>> /\ r.pos = 1 /\ r.ran = 0 /\ r.finished = 0 /\ r.bound = None
    /\ r.at \in Unrun \cup {"running", "reporting", "failing"} =>
          r.plan \in Plans /\ r.pos \in DOMAIN r.plan
    /\ r.at \in Unrun => r.ran = r.pos - 1 /\ r.finished = r.pos - 1
    /\ r.at = "running" => r.ran = r.pos /\ r.finished = r.pos - 1
    /\ r.at = "reporting" => r.ran = r.pos /\ r.finished = r.pos

\* Keyboard input is bound to a window that is no terminal.
WindowFits(r) ==
    r.at \in Bound /\ Current(r) \in Keyboard => r.bound \in Windows \ Terminals

\* The policy asked for the prompt, and does not deny what was let through.
PolicyFits(r) ==
    /\ r.at = "confirming" => Effective(Current(r)) = "ask"
    /\ r.at \in Permitted => Effective(Current(r)) # "deny"

RecordOK(r) == r \in Turn /\ PlaceFits(r) /\ WindowFits(r) /\ PolicyFits(r)

\* A turn that nobody waits for is not there.
WaiterFits(t) ==
    /\ turn[t].at = "unborn" <=> ~WaitedFor(t)
    /\ turn[t].at = "unborn" => turn[t].cancelling = "no"
    /\ outer[t] = "interrupted" => Done(t)

\* What was let through by a prompt has the user's consent, and only a click allows.
ConsentFits ==
    /\ \A t \in Turns :
          turn[t].at \in Permitted /\ Effective(Current(turn[t])) = "ask" => Prompt(t) \in consent
    /\ \A p \in Pending : prompts[p].scheduled = "allow" => p \in consent

OneActive == \A s, t \in Turns : Active(s) /\ Active(t) => s = t

SessionInv ==
    /\ TypeOK
    /\ \A t \in Turns : RecordOK(turn[t]) /\ WaiterFits(t)
    /\ ConsentFits
    /\ OneActive
    /\ StatusTellsTruth

\* Where wait_for drops an answer it has, a closed session runs no turn any further, and what
\* has run has its card.
ClosedFits == closed => \A t \in Turns : Active(t) => Cancelled(t)

NoneLost == \A t \in Turns : turn[t].cancelling # "lost"

CardFits(t) ==
    /\ \A i \in 1 .. turn[t].ran : card[t][i] \in {"RUNNING", "COMPLETED", "FAILED"}
    /\ turn[t].at = "invoking" /\ ~closed => card[t][turn[t].pos] = "RUNNING"

CardInv == ClosedFits /\ NoneLost /\ \A t \in Turns : CardFits(t)

-----------------------------------------------------------------------------
(* Records of turns.                                                       *)

\* A plan is a non-empty sequence of actions, no longer than MaxPlan.
LEMMA PlanShape ==
    ASSUME NEW p \in Plans
    PROVE  /\ Len(p) \in 1 .. MaxPlan /\ DOMAIN p = 1 .. Len(p)
           /\ p # <<>> /\ \A i \in DOMAIN p : p[i] \in Actions
<1>1. PICK n \in 1 .. MaxPlan : p \in [1 .. n -> Actions]
    BY DEF Plans
<1>2. n \in Nat /\ p \in Seq(Actions)
    BY <1>1, PipelineConstants
<1>3. Len(p) = n /\ DOMAIN p = 1 .. n
    BY <1>1, <1>2
<1>4. p # <<>>
    BY <1>1, <1>3
<1> QED
    BY <1>1, <1>3, <1>4

\* A turn that goes on to another place.
LEMMA PlaceKeeps ==
    ASSUME NEW r, RecordOK(r), NEW to,
           \/ r.at = "created" /\ to = "thinking"
           \/ r.at = "requesting" /\ to = "looking"
           \/ r.at = "looking" /\ to \in {"preparing", "failing"}
           \/ r.at = "looking" /\ to = "asking" /\ Current(r) \notin Keyboard
           \/ r.at \in {"preparing", "asking", "verifying", "invoking", "running"} /\ to = "failing"
           \/ r.at = "asking" /\ to = "allowing" /\ Effective(Current(r)) = "allow"
           \/ r.at = "asking" /\ to = "confirming" /\ Effective(Current(r)) = "ask"
           \/ r.at = "allowing" /\ to \in {"verifying", "starting"}
           \/ r.at = "starting" /\ to = "invoking"
           \/ r.at \notin {"unborn", "ended"} /\ to \in {"ended", "cancelled"}
    PROVE  /\ RecordOK([r EXCEPT !.at = to])
           /\ [r EXCEPT !.at = to].at = to
           /\ [r EXCEPT !.at = to].plan = r.plan
           /\ [r EXCEPT !.at = to].pos = r.pos
           /\ [r EXCEPT !.at = to].cancelling = r.cancelling
<1> DEFINE s == [r EXCEPT !.at = to]
<1>1. to \in Places
    BY DEF Places
<1>2. /\ s \in Turn /\ s.at = to /\ s.plan = r.plan /\ s.pos = r.pos /\ s.ran = r.ran
      /\ s.finished = r.finished /\ s.bound = r.bound /\ s.cancelling = r.cancelling
    BY <1>1 DEF RecordOK, Turn
<1> HIDE DEF s
<1>3. Current(s) = Current(r)
    BY <1>2 DEF Current
<1>4. PlaceFits(s)
    BY <1>2 DEF RecordOK, PlaceFits, Unrun
<1>5. WindowFits(s)
    BY <1>2, <1>3 DEF RecordOK, WindowFits, Bound
<1>6. PolicyFits(s)
    BY <1>2, <1>3 DEF RecordOK, PolicyFits, Permitted
<1> QED
    BY <1>2, <1>4, <1>5, <1>6 DEF RecordOK, s

\* A record fits whatever its kind, result and cancellation mark are, and at the end nothing
\* else counts.
LEMMA OtherFields ==
    ASSUME NEW r, RecordOK(r), NEW s \in Turn,
           \/ /\ s.at = r.at /\ s.plan = r.plan /\ s.pos = r.pos /\ s.ran = r.ran
              /\ s.finished = r.finished /\ s.bound = r.bound
           \/ s.at \in {"responding", "ended", "cancelled"}
    PROVE  RecordOK(s)
BY DEF RecordOK, PlaceFits, WindowFits, PolicyFits, Current, Unrun, Bound, Permitted

-----------------------------------------------------------------------------
(* Steps of one turn.                                                      *)

\* Nobody else moves, no prompt opens or closes, and nothing is let through.
Calm(t) ==
    /\ turn' \in [Turns -> Turn]
    /\ \A u \in Turns \ {t} : turn'[u] = turn[u]
    /\ RecordOK(turn'[t])
    /\ turn[t].at \notin {"unborn", "confirming", "ended", "cancelled"}
    /\ turn'[t].at \notin {"unborn", "confirming"}
    /\ turn'[t].cancelling = turn[t].cancelling
    /\ turn'[t].at \in Permitted /\ Effective(Current(turn'[t])) = "ask" =>
          /\ turn[t].at \in Permitted
          /\ turn'[t].plan = turn[t].plan /\ turn'[t].pos = turn[t].pos
    /\ UNCHANGED <<window, registry, brokerVars>>

SameWork(t) ==
    \A u \in Turns :
        /\ turn'[u].plan = turn[u].plan
        /\ turn'[u].ran = turn[u].ran
        /\ turn'[u].finished = turn[u].finished

\* Steps that only change the place.
LEMMA PlaceSteps ==
    ASSUME SessionInv, NEW t \in Turns, NEW to,
           turn' = [turn EXCEPT ![t].at = to],
           UNCHANGED <<window, registry, brokerVars>>,
           \/ turn[t].at = "created" /\ to = "thinking"
           \/ turn[t].at = "requesting" /\ to = "looking"
           \/ turn[t].at = "looking" /\ to \in {"preparing", "failing"}
           \/ turn[t].at = "looking" /\ to = "asking" /\ Current(turn[t]) \notin Keyboard
           \/ turn[t].at \in {"preparing", "asking", "verifying", "invoking", "running"}
                 /\ to = "failing"
           \/ turn[t].at = "asking" /\ to = "allowing" /\ Effective(Current(turn[t])) = "allow"
           \/ turn[t].at = "allowing" /\ to \in {"verifying", "starting"}
           \/ turn[t].at = "starting" /\ to = "invoking"
           \/ turn[t].at = "responding" /\ to = "ended"
           \/ turn[t].at \notin {"unborn", "confirming", "ended", "cancelled"}
                 /\ to = "cancelled"
    PROVE  Calm(t) /\ SameWork(t)
<1> DEFINE r == turn[t]
           s == [r EXCEPT !.at = to]
<1>1. turn \in [Turns -> Turn] /\ RecordOK(r)
    BY DEF SessionInv, TypeOK
<1>2. turn' = [turn EXCEPT ![t] = s]
    BY <1>1
<1>3. /\ turn'[t] = s
      /\ \A u \in Turns \ {t} : turn'[u] = turn[u]
    BY <1>1, <1>2
<1>4. /\ RecordOK(s) /\ s.at = to
      /\ s.plan = r.plan /\ s.pos = r.pos /\ s.cancelling = r.cancelling
    <2> HIDE DEF r
    <2> QED
        BY <1>1, PlaceKeeps DEF r
<1>5. s.ran = r.ran /\ s.finished = r.finished
    BY <1>1 DEF RecordOK, Turn
<1>6. turn' \in [Turns -> Turn]
    BY <1>1, <1>2, <1>4 DEF RecordOK
<1>7. Current(s) = Current(r)
    BY <1>4 DEF Current
<1>8. s.at \in Permitted /\ Effective(Current(s)) = "ask" => r.at \in Permitted
    BY <1>4, <1>7 DEF Permitted
<1>9. r.at \notin {"unborn", "confirming", "ended", "cancelled"}
    OBVIOUS
<1>10. s.at \notin {"unborn", "confirming"}
    BY <1>4
<1> HIDE DEF r, s
<1>11. SameWork(t)
    BY <1>3, <1>4, <1>5 DEF SameWork, r
<1> QED
    BY <1>3, <1>4, <1>6, <1>8, <1>9, <1>10, <1>11 DEF Calm, r

\* Steps to a record that is given.
LEMMA RecordSteps ==
    ASSUME SessionInv, NEW t \in Turns, NEW s,
           turn' = [turn EXCEPT ![t] = s], RecordOK(s),
           turn[t].at \notin {"unborn", "confirming", "ended", "cancelled"},
           s.at \notin {"unborn", "confirming"},
           s.cancelling = turn[t].cancelling,
           s.at \in Permitted => /\ turn[t].at \in Permitted
                                 /\ s.plan = turn[t].plan /\ s.pos = turn[t].pos,
           UNCHANGED <<window, registry, brokerVars>>
    PROVE  Calm(t)
<1>1. turn \in [Turns -> Turn] /\ s \in Turn
    BY DEF SessionInv, TypeOK, RecordOK
<1> QED
    BY <1>1 DEF Calm

\* Every step of a turn outside its prompt that calls no handler, gets no plan and
\* returns no result.
LEMMA PlainSteps ==
    ASSUME SessionInv, NEW t \in Turns,
           \/ Hear(t) \/ LookUp(t) \/ LookUpFails(t) \/ Prepare(t) \/ PrepareFails(t)
           \/ Permit(t) \/ Forbid(t) \/ Allow(t) \/ Verify(t) \/ VerifyFails(t)
           \/ InvokeFails(t) \/ Respond(t) \/ Request(t) \/ Announce(t) \/ Report(t)
           \/ Fail(t) \/ Refuse(t) \/ Talk(t) \/ Crash(t) \/ Raise(t)
           \/ Interrupt(t) /\ turn[t].at # "confirming"
    PROVE  Calm(t) /\ SameWork(t)
<1> DEFINE r == turn[t]
<1>0. /\ turn \in [Turns -> Turn] /\ RecordOK(r) /\ window \in Windows
      /\ Item(t) = Current(r)
    BY DEF SessionInv, TypeOK, Item, Current
<1>1. CASE \/ Hear(t) \/ LookUpFails(t) \/ PrepareFails(t) \/ Permit(t) \/ Forbid(t)
           \/ Allow(t) \/ VerifyFails(t) \/ InvokeFails(t) \/ Respond(t) \/ Request(t)
           \/ Announce(t) \/ Raise(t)
    <2>1. \/ Step(t, "created", "thinking") \/ Step(t, "looking", "failing")
          \/ Step(t, "preparing", "failing")
          \/ Step(t, "asking", "allowing") /\ Effective(Current(r)) = "allow"
          \/ Step(t, "asking", "failing")
          \/ Step(t, "allowing", "verifying") \/ Step(t, "allowing", "starting")
          \/ Step(t, "verifying", "failing") \/ Step(t, "invoking", "failing")
          \/ Step(t, "responding", "ended") \/ Step(t, "requesting", "looking")
          \/ Step(t, "starting", "invoking") \/ Step(t, "running", "failing")
        BY <1>0, <1>1 DEF Hear, LookUpFails, PrepareFails, Permit, Forbid, Allow, VerifyFails,
            InvokeFails, Respond, Request, Announce, Raise
    <2> QED
        BY <2>1, PlaceSteps DEF Step, Go
<1>2. CASE LookUp(t)
    <2>1. Current(r) \in Keyboard => GoesToWindow(Item(t))
        BY <1>0 DEF GoesToWindow
    <2>2. \/ Step(t, "looking", "preparing")
          \/ Step(t, "looking", "asking") /\ Current(r) \notin Keyboard
        BY <1>2, <2>1 DEF LookUp
    <2> QED
        BY <2>2, PlaceSteps DEF Step, Go
<1>3. CASE Interrupt(t) /\ turn[t].at # "confirming"
    BY <1>3, PlaceSteps DEF Interrupt
<1>4. CASE Prepare(t)
    <2> DEFINE s == [r EXCEPT !.bound = window, !.at = "asking"]
    <2>1. /\ r.at = "preparing" /\ turn' = [turn EXCEPT ![t] = s]
          /\ Current(r) \in Keyboard => window \notin Terminals
          /\ UNCHANGED <<window, registry, brokerVars>>
        BY <1>0, <1>4 DEF Prepare
    <2>2. /\ s \in Turn /\ s.at = "asking" /\ s.plan = r.plan /\ s.pos = r.pos /\ s.ran = r.ran
          /\ s.finished = r.finished /\ s.bound = window /\ s.cancelling = r.cancelling
        BY <1>0 DEF RecordOK, Turn, Places
    <2> HIDE DEF s
    <2>3. Current(s) = Current(r)
        BY <2>2 DEF Current
    <2>4. RecordOK(s)
        BY <1>0, <2>1, <2>2, <2>3
        DEF RecordOK, PlaceFits, WindowFits, PolicyFits, Unrun, Bound, Permitted
    <2>5. Calm(t)
        BY <2>1, <2>2, <2>4, RecordSteps DEF Permitted
    <2> QED
        BY <1>0, <2>1, <2>2, <2>5 DEF SameWork
<1>5. CASE Verify(t)
    <2> DEFINE s == [r EXCEPT !.bound = None, !.at = "starting"]
    <2>1. /\ r.at = "verifying" /\ turn' = [turn EXCEPT ![t] = s]
          /\ UNCHANGED <<window, registry, brokerVars>>
        BY <1>0, <1>5 DEF Verify
    <2>2. /\ s \in Turn /\ s.at = "starting" /\ s.plan = r.plan /\ s.pos = r.pos
          /\ s.ran = r.ran /\ s.finished = r.finished /\ s.cancelling = r.cancelling
        BY <1>0 DEF RecordOK, Turn, Places
    <2> HIDE DEF s
    <2>3. Current(s) = Current(r)
        BY <2>2 DEF Current
    <2>4. RecordOK(s)
        BY <1>0, <2>1, <2>2, <2>3
        DEF RecordOK, PlaceFits, WindowFits, PolicyFits, Unrun, Bound, Permitted
    <2>5. Calm(t)
        BY <2>1, <2>2, <2>4, RecordSteps DEF Permitted
    <2> QED
        BY <1>0, <2>1, <2>2, <2>5 DEF SameWork
<1>6. CASE Report(t) /\ r.pos < Len(r.plan)
    <2> DEFINE s == [r EXCEPT !.pos = @ + 1, !.at = "requesting"]
    <2>1. /\ r.at = "reporting" /\ turn' = [turn EXCEPT ![t] = s]
          /\ UNCHANGED <<window, registry, brokerVars>>
        BY <1>0, <1>6 DEF Report
    <2>2. r.plan \in Plans /\ r.ran = r.pos /\ r.finished = r.pos
        BY <1>0, <2>1 DEF RecordOK, PlaceFits
    <2>3. Len(r.plan) \in 1 .. MaxPlan /\ DOMAIN r.plan = 1 .. Len(r.plan)
        BY <2>2, PlanShape
    <2>4. r.pos \in Nat /\ r.pos >= 1 /\ r.pos + 1 \in 1 .. MaxPlan /\ r.pos + 1 \in DOMAIN r.plan
        BY <1>0, <1>6, <2>3, PipelineConstants DEF RecordOK, Turn
    <2>5. /\ s \in Turn /\ s.at = "requesting" /\ s.plan = r.plan /\ s.pos = r.pos + 1
          /\ s.ran = r.ran /\ s.finished = r.finished /\ s.cancelling = r.cancelling
        BY <1>0, <2>4 DEF RecordOK, Turn, Places
    <2> HIDE DEF s
    <2>6. PlaceFits(s)
        BY <2>2, <2>4, <2>5 DEF PlaceFits, Unrun
    <2>7. RecordOK(s)
        BY <2>5, <2>6 DEF RecordOK, WindowFits, PolicyFits, Bound, Permitted
    <2>8. Calm(t)
        BY <2>1, <2>5, <2>7, RecordSteps DEF Permitted
    <2> QED
        BY <1>0, <2>1, <2>5, <2>8 DEF SameWork
<1>7. CASE \/ Report(t) /\ ~(r.pos < Len(r.plan))
           \/ Fail(t) \/ Refuse(t) \/ Talk(t) \/ Crash(t)
    <2>1. PICK x \in {"ok", "failure", "exit", "crash"}, to \in {"responding", "ended"} :
             turn' = [turn EXCEPT ![t].result = x, ![t].at = to]
        BY <1>7 DEF Report, Fail, Refuse, Talk, Crash, AfterPlan
    <2> DEFINE s == [r EXCEPT !.result = x, !.at = to]
    <2>2. /\ r.at \in {"reporting", "failing", "created", "thinking", "responding"}
          /\ UNCHANGED <<window, registry, brokerVars>>
        BY <1>7 DEF Report, Fail, Refuse, Talk, Crash, CanPlan
    <2>3. turn' = [turn EXCEPT ![t] = s]
        BY <1>0, <2>1
    <2>4. /\ s \in Turn /\ s.at = to /\ s.plan = r.plan
          /\ s.ran = r.ran /\ s.finished = r.finished /\ s.cancelling = r.cancelling
        BY <1>0, ZenonT(40) DEF RecordOK, Turn, Places
    <2> HIDE DEF s
    <2>5. RecordOK(s)
        BY <1>0, <2>4, OtherFields
    <2>6. Calm(t)
        BY <2>2, <2>3, <2>4, <2>5, RecordSteps DEF Permitted
    <2> QED
        BY <1>0, <2>3, <2>4, <2>6 DEF SameWork
<1> QED
    BY <1>1, <1>2, <1>3, <1>4, <1>5, <1>6, <1>7

\* A turn gets its plan.
LEMMA PlanStep ==
    ASSUME SessionInv, NEW t \in Turns, ChoosePlan(t)
    PROVE  /\ Calm(t)
           /\ turn'[t].at = "requesting" /\ turn[t].plan = <<>> /\ turn'[t].plan \in Plans
           /\ turn'[t].ran = turn[t].ran /\ turn'[t].finished = turn[t].finished
<1> DEFINE r == turn[t]
<1>0. turn \in [Turns -> Turn] /\ RecordOK(r) /\ r.at \in {"created", "thinking"}
    BY DEF SessionInv, TypeOK, ChoosePlan, CanPlan
<1>1. PICK p \in Plans : turn' = [turn EXCEPT ![t].plan = p, ![t].at = "requesting"]
    BY DEF ChoosePlan
<1> DEFINE s == [r EXCEPT !.plan = p, !.at = "requesting"]
<1>2. turn' = [turn EXCEPT ![t] = s] /\ turn'[t] = s
    BY <1>0, <1>1
<1>3. UNCHANGED <<window, registry, brokerVars>>
    BY DEF ChoosePlan
<1>4. /\ s \in Turn /\ s.at = "requesting" /\ s.plan = p /\ s.pos = r.pos
      /\ s.ran = r.ran /\ s.finished = r.finished /\ s.cancelling = r.cancelling
    BY <1>0 DEF RecordOK, Turn, Places
<1> HIDE DEF s
<1>5. r.pos = 1 /\ r.ran = 0 /\ r.finished = 0 /\ r.plan = <<>>
    BY <1>0 DEF RecordOK, PlaceFits
<1>6. 1 \in DOMAIN p
    BY PlanShape
<1>7. PlaceFits(s)
    BY <1>4, <1>5, <1>6 DEF PlaceFits, Unrun
<1>8. RecordOK(s)
    BY <1>4, <1>7 DEF RecordOK, WindowFits, PolicyFits, Bound, Permitted
<1>9. Calm(t)
    BY <1>0, <1>2, <1>3, <1>4, <1>8, RecordSteps DEF Permitted
<1> QED
    BY <1>2, <1>4, <1>5, <1>9

\* The handler of the item after those that succeeded is called.
LEMMA InvokeStep ==
    ASSUME SessionInv, NEW t \in Turns, Invoke(t)
    PROVE  /\ Calm(t)
           /\ turn[t].at = "invoking" /\ turn'[t].at = "running" /\ ~Cancelled(t)
           /\ turn[t].plan \in Plans /\ turn[t].pos \in DOMAIN turn[t].plan
           /\ turn[t].ran = turn[t].pos - 1 /\ turn[t].finished = turn[t].pos - 1
           /\ turn'[t].plan = turn[t].plan /\ turn'[t].pos = turn[t].pos
           /\ turn'[t].ran = turn[t].pos /\ turn'[t].finished = turn[t].finished
<1> DEFINE r == turn[t]
           s == [r EXCEPT !.ran = @ + 1, !.at = "running"]
<1>0. /\ turn \in [Turns -> Turn] /\ RecordOK(r) /\ r.at = "invoking" /\ ~Cancelled(t)
      /\ UNCHANGED <<window, registry, brokerVars>>
    BY DEF SessionInv, TypeOK, Invoke
<1>1. turn' = [turn EXCEPT ![t] = s] /\ turn'[t] = s
    BY <1>0 DEF Invoke
<1>2. r.plan \in Plans /\ r.pos \in DOMAIN r.plan /\ r.ran = r.pos - 1 /\ r.finished = r.pos - 1
    BY <1>0 DEF RecordOK, PlaceFits, Unrun
<1>3. r.pos \in 1 .. MaxPlan /\ r.ran + 1 = r.pos /\ r.pos \in 0 .. MaxPlan
    BY <1>0, <1>2, PipelineConstants DEF RecordOK, Turn
<1>4. /\ s \in Turn /\ s.at = "running" /\ s.plan = r.plan /\ s.pos = r.pos
      /\ s.ran = r.pos /\ s.finished = r.finished /\ s.cancelling = r.cancelling
    BY <1>0, <1>3 DEF RecordOK, Turn, Places
<1> HIDE DEF s
<1>5. PlaceFits(s)
    BY <1>2, <1>4 DEF PlaceFits, Unrun
<1>6. RecordOK(s)
    BY <1>4, <1>5 DEF RecordOK, WindowFits, PolicyFits, Bound, Permitted
<1>7. Calm(t)
    BY <1>0, <1>1, <1>4, <1>6, RecordSteps DEF Permitted
<1> QED
    BY <1>0, <1>1, <1>2, <1>4, <1>7

\* The handler returns.
LEMMA ReturnStep ==
    ASSUME SessionInv, NEW t \in Turns, Return(t)
    PROVE  /\ Calm(t)
           /\ turn[t].at = "running" /\ turn'[t].at = "reporting" /\ ~Cancelled(t)
           /\ turn[t].ran = turn[t].pos /\ turn[t].finished = turn[t].pos - 1
           /\ turn'[t].plan = turn[t].plan /\ turn'[t].pos = turn[t].pos
           /\ turn'[t].ran = turn[t].ran /\ turn'[t].finished = turn[t].pos
<1> DEFINE r == turn[t]
           s == [r EXCEPT !.finished = @ + 1, !.at = "reporting"]
<1>0. /\ turn \in [Turns -> Turn] /\ RecordOK(r) /\ r.at = "running" /\ ~Cancelled(t)
      /\ UNCHANGED <<window, registry, brokerVars>>
    BY DEF SessionInv, TypeOK, Return
<1>1. turn' = [turn EXCEPT ![t] = s] /\ turn'[t] = s
    BY <1>0 DEF Return
<1>2. r.plan \in Plans /\ r.pos \in DOMAIN r.plan /\ r.ran = r.pos /\ r.finished = r.pos - 1
    BY <1>0 DEF RecordOK, PlaceFits, Unrun
<1>3. r.pos \in 1 .. MaxPlan /\ r.finished + 1 = r.pos /\ r.pos \in 0 .. MaxPlan
    BY <1>0, <1>2, PipelineConstants DEF RecordOK, Turn
<1>4. /\ s \in Turn /\ s.at = "reporting" /\ s.plan = r.plan /\ s.pos = r.pos
      /\ s.ran = r.pos /\ s.finished = r.pos /\ s.cancelling = r.cancelling
    BY <1>0, <1>2, <1>3 DEF RecordOK, Turn, Places
<1> HIDE DEF s
<1>5. PlaceFits(s)
    BY <1>2, <1>4 DEF PlaceFits, Unrun
<1>6. RecordOK(s)
    BY <1>4, <1>5 DEF RecordOK, WindowFits, PolicyFits, Bound, Permitted
<1>7. Calm(t)
    BY <1>0, <1>1, <1>4, <1>6, RecordSteps DEF Permitted
<1> QED
    BY <1>0, <1>1, <1>2, <1>4, <1>7

\* All of them.
LEMMA TurnSteps ==
    ASSUME SessionInv, NEW t \in Turns,
           SilentStep(t) \/ ExternalStep(t) \/ CardStep(t)
              \/ (Interrupt(t) /\ turn[t].at # "confirming")
    PROVE  Calm(t)
BY PlainSteps, PlanStep, InvokeStep, ReturnStep DEF SilentStep, ExternalStep, CardStep

-----------------------------------------------------------------------------
(* The invariant.                                                          *)

\* Two prompts of one turn are two items of its plan; two turns share none.
LEMMA PromptIs ==
    ASSUME NEW t \in Turns
    PROVE  /\ Prompt(t) = <<t, turn[t].pos>>
           /\ Prompt(t)' = <<t, turn'[t].pos>>
BY DEF Prompt

\* A calm step keeps the invariant while the rest of the interface stands still.
LEMMA CalmKeeps ==
    ASSUME SessionInv, NEW t \in Turns, Calm(t),
           UNCHANGED <<outer, status, closed, voice, dialog, consent>>,
           card' \in [Turns -> [1 .. MaxPlan ->
                         {"none", "REQUESTED", "RUNNING", "COMPLETED", "FAILED"}]]
    PROVE  SessionInv'
<1>1. TypeOK'
    BY DEF SessionInv, TypeOK, Calm, brokerVars, Pending
<1>2. ASSUME NEW u \in Turns
      PROVE  RecordOK(turn'[u]) /\ WaiterFits(u)'
    <2>1. CASE u = t
        BY <2>1 DEF SessionInv, Calm, WaiterFits, WaitedFor, Done
    <2>2. CASE u # t
        <3>1. turn'[u] = turn[u]
            BY <2>2 DEF Calm
        <3> QED
            BY <3>1 DEF SessionInv, WaiterFits, WaitedFor, Done
    <2> QED
        BY <2>1, <2>2
<1>3. ASSUME NEW u \in Turns, turn'[u].at \in Permitted, Effective(Current(turn'[u])) = "ask"
      PROVE  Prompt(u)' \in consent'
    <2>1. /\ turn[u].at \in Permitted /\ turn'[u].plan = turn[u].plan
          /\ turn'[u].pos = turn[u].pos
        BY <1>3 DEF Calm
    <2>2. Current(turn'[u]) = Current(turn[u])
        BY <2>1 DEF Current
    <2> QED
        BY <1>3, <2>1, <2>2 DEF SessionInv, ConsentFits, Prompt
<1>4. ConsentFits'
    <2>1. \A p \in Pending : prompts[p].scheduled = "allow" => p \in consent
        BY DEF SessionInv, ConsentFits
    <2>2. (\A p \in Pending : prompts[p].scheduled = "allow" => p \in consent)'
        BY <2>1 DEF Calm, brokerVars, Pending
    <2>3. \A u \in Turns : /\ turn'[u].at \in Permitted
                           /\ Effective(Current(turn'[u])) = "ask"
                           => Prompt(u)' \in consent'
        BY <1>3
    <2> QED
        BY <2>2, <2>3 DEF ConsentFits
<1>5. \A u \in Turns : Active(u)' => Active(u)
    BY DEF Calm, Active, Done
<1>6. OneActive'
    BY <1>5 DEF SessionInv, OneActive
<1>7. \A u \in Turns : turn'[u].at = "confirming" <=> turn[u].at = "confirming"
    BY DEF Calm
<1>8. \A u \in Turns : turn[u].at = "confirming" => Prompt(u)' = Prompt(u)
    BY DEF Calm, Prompt
<1>9. NoOrphanPrompt'
    <2>1. Pending' = Pending
        BY DEF Calm, brokerVars, Pending
    <2> QED
        BY <1>7, <1>8, <2>1 DEF SessionInv, StatusTellsTruth, NoOrphanPrompt
<1>10. \A u \in Turns : turn'[u].cancelling = turn[u].cancelling
    BY DEF Calm
<1>11. StatusTellsTruth'
    BY <1>9, <1>10 DEF SessionInv, StatusTellsTruth, Calm, brokerVars, Pending, WaitedFor
<1> QED
    BY <1>1, <1>2, <1>4, <1>6, <1>11 DEF SessionInv

\* A step that leaves every turn and its waiter alone, and opens or closes no prompt.
LEMMA AsideKeeps ==
    ASSUME SessionInv, TypeOK', UNCHANGED <<turn, outer>>, Pending' = Pending,
           consent \subseteq consent',
           \A p \in Pending : prompts'[p].scheduled = "allow" => p \in consent',
           \/ status' = status /\ closed' = closed
           \/ status' \in {"working", "error"}
    PROVE  SessionInv'
<1>1. \A t \in Turns : RecordOK(turn'[t]) /\ WaiterFits(t)'
    BY DEF SessionInv, WaiterFits, WaitedFor, Done
<1>2. ConsentFits'
    BY DEF SessionInv, ConsentFits, Prompt
<1>3. OneActive'
    BY DEF SessionInv, OneActive, Active, Done
<1>4. NoOrphanPrompt'
    BY DEF SessionInv, StatusTellsTruth, NoOrphanPrompt, Prompt
<1>5. StatusTellsTruth'
    BY <1>4 DEF SessionInv, StatusTellsTruth, WaitedFor
<1> QED
    BY <1>1, <1>2, <1>3, <1>5 DEF SessionInv

\* Clicks, timers, callbacks, the microphone, plug-ins and windows.
LEMMA AsideSteps ==
    ASSUME SessionInv,
           \/ Listen \/ HeardInVain \/ ListenFails \/ PromptTimer \/ PromptCallback
           \/ \E p \in Pending : ShowDialog(p)
           \/ \E verdict \in {"allow", "deny"} : Click(verdict)
           \/ PluginChange /\ UNCHANGED guiVars
           \/ \E w \in Windows : Activate(w) /\ UNCHANGED guiVars
    PROVE  SessionInv'
<1>0. /\ TypeOK /\ prompts \in [Pending -> Decision]
      /\ \A p \in Pending : prompts[p].scheduled = "allow" => p \in consent
    BY DEF SessionInv, TypeOK, ConsentFits
<1>1. CASE Listen \/ HeardInVain \/ ListenFails
    <2>1. TypeOK'
        BY <1>0, <1>1 DEF Listen, HeardInVain, ListenFails, TypeOK, pipelineVars, brokerVars,
            Pending
    <2> QED
        BY <1>0, <1>1, <2>1, AsideKeeps DEF Listen, HeardInVain, ListenFails, pipelineVars,
            brokerVars, Pending
<1>2. CASE PromptTimer \/ PromptCallback
    <2>1. PICK p \in Pending : TimeOut(p) \/ SetDecision(p)
        BY <1>2 DEF PromptTimer, PromptCallback
    <2>2. UNCHANGED <<pipelineVars, guiVars, brokerClosed>>
        BY <1>2, <2>1 DEF PromptTimer, PromptCallback, TimeOut, SetDecision
    <2>3. /\ Pending' = Pending /\ prompts' \in [Pending -> Decision]
          /\ \A q \in Pending : prompts'[q].scheduled = prompts[q].scheduled
        <3>1. PICK d \in Decision : /\ d.scheduled = prompts[p].scheduled
                                   /\ prompts' = [prompts EXCEPT ![p] = d]
            <4>1. prompts[p] \in Decision
                BY <1>0
            <4>2. /\ [prompts[p] EXCEPT !.expired = TRUE] \in Decision
                  /\ [prompts[p] EXCEPT !.done = TRUE] \in Decision
                  /\ [prompts[p] EXCEPT !.expired = TRUE].scheduled = prompts[p].scheduled
                  /\ [prompts[p] EXCEPT !.done = TRUE].scheduled = prompts[p].scheduled
                BY <4>1 DEF Decision
            <4>3. CASE TimeOut(p)
                BY <4>2, <4>3 DEF TimeOut
            <4>4. CASE SetDecision(p)
                BY <4>2, <4>4 DEF SetDecision
            <4> QED
                BY <2>1, <4>3, <4>4
        <3>2. prompts' \in [Pending -> Decision]
            BY <1>0, <3>1
        <3> QED
            BY <1>0, <3>1, <3>2 DEF Pending
    <2>4. TypeOK'
        BY <1>0, <2>2, <2>3 DEF TypeOK, pipelineVars, guiVars
    <2> QED
        BY <1>0, <2>2, <2>3, <2>4, AsideKeeps DEF pipelineVars, guiVars
<1>3. ASSUME NEW p \in Pending, ShowDialog(p) PROVE SessionInv'
    <2>1. TypeOK'
        BY <1>0, <1>3 DEF ShowDialog, TypeOK, pipelineVars, brokerVars, Pending
    <2> QED
        BY <1>0, <1>3, <2>1, AsideKeeps DEF ShowDialog, pipelineVars, brokerVars, Pending
<1>4. ASSUME NEW verdict \in {"allow", "deny"}, Click(verdict) PROVE SessionInv'
    <2>1. /\ UNCHANGED <<turn, window, registry, outer, card, status, closed, voice, brokerClosed>>
          /\ dialog' = NoPrompt /\ dialog \in PromptIds
        BY <1>0, <1>4 DEF Click, TypeOK, pipelineVars, brokerVars, Resolve
    <2>2. CASE Resolvable(dialog)
        <3>1. /\ prompts' = [prompts EXCEPT ![dialog].scheduled = verdict]
              /\ consent' = IF verdict = "allow" THEN consent \cup {dialog} ELSE consent
              /\ dialog \in Pending
            BY <1>4, <2>2 DEF Click, Resolve, Resolvable
        <3>2. Pending' = Pending /\ prompts' \in [Pending -> Decision]
            BY <1>0, <3>1 DEF Pending, Decision
        <3>3. \A p \in Pending : prompts'[p].scheduled = "allow" => p \in consent'
            BY <1>0, <3>1 DEF Decision, Pending
        <3>4. TypeOK'
            BY <1>0, <2>1, <3>1, <3>2 DEF TypeOK
        <3> QED
            BY <2>1, <3>1, <3>2, <3>3, <3>4, AsideKeeps
    <2>3. CASE ~Resolvable(dialog)
        <3>1. UNCHANGED <<prompts, consent>>
            BY <1>4, <2>3 DEF Click, brokerVars
        <3>2. TypeOK'
            BY <1>0, <2>1, <3>1 DEF TypeOK, Pending
        <3> QED
            BY <1>0, <2>1, <3>1, <3>2, AsideKeeps DEF Pending
    <2> QED
        BY <2>2, <2>3
<1>5. CASE PluginChange /\ UNCHANGED guiVars
    <2>1. UNCHANGED <<turn, window, prompts, brokerClosed, guiVars>> /\ registry' \subseteq Actions
        BY <1>0, <1>5, PipelineConstants DEF PluginChange, brokerVars, TypeOK
    <2>2. TypeOK'
        BY <1>0, <2>1 DEF TypeOK, guiVars, Pending
    <2> QED
        BY <1>0, <2>1, <2>2, AsideKeeps DEF guiVars, Pending
<1>6. ASSUME NEW w \in Windows, Activate(w), UNCHANGED guiVars PROVE SessionInv'
    <2>1. UNCHANGED <<turn, registry, prompts, brokerClosed, guiVars>> /\ window' \in Windows
        BY <1>6 DEF Activate, brokerVars
    <2>2. TypeOK'
        BY <1>0, <2>1 DEF TypeOK, guiVars, Pending
    <2> QED
        BY <1>0, <2>1, <2>2, AsideKeeps DEF guiVars, Pending
<1> QED
    BY <1>1, <1>2, <1>3, <1>4, <1>5, <1>6

\* confirm() registers its prompt.
LEMMA AskKeeps ==
    ASSUME SessionInv, NEW t \in Turns, Ask(t), PromptsChanged
    PROVE  SessionInv'
<1> DEFINE r == turn[t]
           s == [r EXCEPT !.at = "confirming"]
<1>0. /\ TypeOK /\ turn \in [Turns -> Turn] /\ RecordOK(r) /\ r.at = "asking"
      /\ Effective(Current(r)) = "ask" /\ Item(t) = Current(r)
    BY DEF SessionInv, TypeOK, Ask, Go, Item, Current
<1>1. /\ turn' = [turn EXCEPT ![t] = s] /\ UNCHANGED <<window, registry, brokerClosed>>
    BY <1>0 DEF Ask, Go, Open
<1>2. UNCHANGED <<outer, card, closed, voice, dialog, consent>>
    BY DEF PromptsChanged
<1>3. RecordOK(s) /\ s.at = "confirming" /\ s.pos = r.pos /\ s.cancelling = r.cancelling
    <2> HIDE DEF r
    <2> QED
        BY <1>0, PlaceKeeps
<1>4. /\ turn' \in [Turns -> Turn] /\ turn'[t] = s
      /\ \A u \in Turns \ {t} : turn'[u] = turn[u]
    BY <1>0, <1>1, <1>3 DEF RecordOK
<1> HIDE DEF s
<1>5. Prompt(t) \in PromptIds /\ Prompt(t)' = Prompt(t)
    BY <1>0, <1>3, <1>4 DEF Prompt, PromptIds, RecordOK, Turn
<1>6. /\ Pending' = Pending \cup {Prompt(t)} /\ prompts' \in [Pending' -> Decision]
      /\ prompts'[Prompt(t)].scheduled = "none"
      /\ \A q \in Pending \ {Prompt(t)} : prompts'[q] = prompts[q]
    <2> DEFINE new == [scheduled |-> "none", done |-> FALSE, expired |-> FALSE]
               all == Pending \cup {Prompt(t)}
    <2>1. prompts' = [q \in all |-> IF q = Prompt(t) THEN new ELSE prompts[q]]
        BY DEF Ask, Open
    <2>2. new \in Decision /\ prompts \in [Pending -> Decision]
        BY <1>0 DEF Decision, TypeOK
    <2>3. Pending' = all
        BY <2>1 DEF Pending
    <2> HIDE DEF new, all
    <2>4. prompts' \in [all -> Decision]
        BY <2>1, <2>2 DEF all
    <2> QED
        BY <2>1, <2>3, <2>4 DEF all, new
<1>7. status' = IF closed THEN status ELSE "awaiting"
    BY <1>6 DEF PromptsChanged, Pending
<1>8. TypeOK'
    BY <1>0, <1>1, <1>2, <1>4, <1>5, <1>6, <1>7 DEF TypeOK
<1>9. ASSUME NEW u \in Turns PROVE RecordOK(turn'[u]) /\ WaiterFits(u)'
    <2>1. RecordOK(turn'[u])
        BY <1>3, <1>4 DEF SessionInv
    <2>2. WaiterFits(u)'
        BY <1>0, <1>2, <1>3, <1>4 DEF SessionInv, WaiterFits, WaitedFor, Done
    <2> QED
        BY <2>1, <2>2
<1>10. ConsentFits'
    <2>1. \A u \in Turns : turn'[u].at \in Permitted => u # t
        BY <1>3, <1>4 DEF Permitted
    <2>2. \A u \in Turns : u # t => Prompt(u)' = Prompt(u)
        BY <1>4 DEF Prompt
    <2> QED
        BY <1>2, <1>4, <1>6, <2>1, <2>2 DEF SessionInv, ConsentFits
<1>11. OneActive'
    <2>1. \A u \in Turns : Active(u)' => Active(u)
        BY <1>0, <1>2, <1>4 DEF Active, Done
    <2> QED
        BY <2>1 DEF SessionInv, OneActive
<1>12. NoOrphanPrompt'
    <2>1. \A u \in Turns : turn'[u].at = "confirming" <=> (u = t \/ turn[u].at = "confirming")
        BY <1>3, <1>4
    <2>2. \A u \in Turns : Prompt(u)' = Prompt(u)
        BY <1>4, <1>5 DEF Prompt
    <2> QED
        BY <1>6, <2>1, <2>2 DEF SessionInv, StatusTellsTruth, NoOrphanPrompt
<1>13. StatusTellsTruth'
    BY <1>2, <1>6, <1>7, <1>12 DEF StatusTellsTruth
<1> QED
    BY <1>8, <1>9, <1>10, <1>11, <1>13 DEF SessionInv

\* confirm() is left, one way or another.
LEMMA WithdrawKeeps ==
    ASSUME SessionInv, NEW t \in Turns, turn[t].at = "confirming", NEW s,
           turn' = [turn EXCEPT ![t] = s], RecordOK(s), s.at \notin {"unborn", "confirming"},
           s.pos = turn[t].pos,
           s.at \in Permitted => Prompt(t) \in consent,
           Withdraw(Prompt(t)), PromptsChanged, UNCHANGED <<window, registry>>
    PROVE  SessionInv'
<1>0. /\ TypeOK /\ turn \in [Turns -> Turn]
      /\ UNCHANGED <<outer, card, closed, voice, dialog, consent, brokerClosed>>
    BY DEF SessionInv, TypeOK, PromptsChanged, Withdraw
<1>1. /\ turn' \in [Turns -> Turn] /\ turn'[t] = s
      /\ \A u \in Turns \ {t} : turn'[u] = turn[u]
    BY <1>0 DEF RecordOK
<1>2. \A u \in Turns : Prompt(u)' = Prompt(u)
    BY <1>1 DEF Prompt
<1>3. /\ Pending' = Pending \ {Prompt(t)} /\ prompts' \in [Pending' -> Decision]
      /\ \A q \in Pending' : prompts'[q] = prompts[q]
    BY <1>0 DEF Withdraw, Pending, TypeOK
<1>4. status' = IF closed THEN status ELSE IF Pending' # {} THEN "awaiting" ELSE "working"
    BY DEF PromptsChanged, Pending
<1>5. TypeOK'
    BY <1>0, <1>1, <1>3, <1>4 DEF TypeOK
<1>6. ASSUME NEW u \in Turns PROVE RecordOK(turn'[u]) /\ WaiterFits(u)'
    <2>1. RecordOK(turn'[u])
        BY <1>1 DEF SessionInv
    <2>2. WaiterFits(u)'
        BY <1>0, <1>1 DEF SessionInv, WaiterFits, WaitedFor, Done
    <2> QED
        BY <2>1, <2>2
<1>7. ConsentFits'
    BY <1>0, <1>1, <1>2, <1>3 DEF SessionInv, ConsentFits
<1>8. OneActive'
    <2>1. \A u \in Turns : Active(u)' => Active(u)
        BY <1>0, <1>1 DEF Active, Done
    <2> QED
        BY <2>1 DEF SessionInv, OneActive
<1>9. NoOrphanPrompt'
    <2>1. \A u \in Turns : turn'[u].at = "confirming" <=> (u # t /\ turn[u].at = "confirming")
        BY <1>1
    <2>2. \A u \in Turns : Prompt(u) = Prompt(t) => u = t
        BY DEF Prompt
    <2>3. Pending = {Prompt(u) : u \in {v \in Turns : turn[v].at = "confirming"}}
        BY DEF SessionInv, StatusTellsTruth, NoOrphanPrompt
    <2>4. Pending' = {Prompt(u) : u \in {v \in Turns : turn'[v].at = "confirming"}}
        BY <1>3, <2>1, <2>2, <2>3
    <2>5. Pending' = {Prompt(u)' : u \in {v \in Turns : turn'[v].at = "confirming"}}
        BY <1>2, <2>4
    <2> QED
        BY <2>5 DEF NoOrphanPrompt
<1>10. StatusTellsTruth'
    BY <1>0, <1>4, <1>9 DEF StatusTellsTruth
<1> QED
    BY <1>5, <1>6, <1>7, <1>8, <1>10 DEF SessionInv

\* The prompt of a turn is opened, decided or given up.
LEMMA PromptSteps ==
    ASSUME SessionInv, NEW t \in Turns, PromptStep(t)
    PROVE  SessionInv'
<1> DEFINE r == turn[t]
<1>0. /\ turn \in [Turns -> Turn] /\ RecordOK(r)
      /\ card \in [Turns -> [1 .. MaxPlan ->
                      {"none", "REQUESTED", "RUNNING", "COMPLETED", "FAILED"}]]
    BY DEF SessionInv, TypeOK
<1>1. CASE Ask(t) /\ PromptsChanged
    BY <1>1, AskKeeps
<1>2. ASSUME NEW to \in {"allowing", "failing"}, Decided(t, to), PromptsChanged,
             to = "allowing" => Approved(Prompt(t))
      PROVE  SessionInv'
    <2> DEFINE s == [r EXCEPT !.at = to, !.cancelling = "no"]
    <2>1. /\ r.at = "confirming" /\ Withdraw(Prompt(t)) /\ UNCHANGED <<window, registry>>
          /\ turn' = [turn EXCEPT ![t] = s]
        BY <1>0, <1>2 DEF Decided
    <2>2. /\ s \in Turn /\ s.at = to /\ s.plan = r.plan /\ s.pos = r.pos
          /\ s.ran = r.ran /\ s.finished = r.finished /\ s.bound = r.bound
        BY <1>0 DEF RecordOK, Turn, Places
    <2> HIDE DEF s
    <2>3. Current(s) = Current(r)
        BY <2>2 DEF Current
    <2>4. RecordOK(s)
        BY <1>0, <2>1, <2>2, <2>3
        DEF RecordOK, PlaceFits, WindowFits, PolicyFits, Unrun, Bound, Permitted
    <2>5. Prompt(t) \in Pending
        BY <2>1 DEF SessionInv, StatusTellsTruth, NoOrphanPrompt
    <2>6. s.at \in Permitted => Prompt(t) \in consent
        BY <1>2, <2>2, <2>5 DEF Permitted, Approved, SessionInv, ConsentFits
    <2> QED
        BY <1>2, <2>1, <2>2, <2>4, <2>6, WithdrawKeeps
<1>3. CASE (Confirmed(t) \/ Unconfirmed(t)) /\ PromptsChanged
    BY <1>2, <1>3 DEF Confirmed, Unconfirmed
<1>4. CASE Interrupt(t) /\ r.at = "confirming" /\ PromptsChanged
    <2> DEFINE s == [r EXCEPT !.at = "cancelled"]
    <2>1. /\ Withdraw(Prompt(t)) /\ UNCHANGED <<window, registry>>
          /\ turn' = [turn EXCEPT ![t] = s]
        BY <1>0, <1>4 DEF Interrupt
    <2>2. RecordOK(s) /\ s.at = "cancelled" /\ s.pos = r.pos
        <3> HIDE DEF r
        <3> QED
            BY <1>0, <1>4, PlaceKeeps
    <2> HIDE DEF s
    <2> QED
        BY <1>4, <2>1, <2>2, WithdrawKeeps DEF Permitted
<1>5. CASE Interrupt(t) /\ r.at # "confirming" /\ UNCHANGED guiVars
    BY <1>0, <1>5, TurnSteps, CalmKeeps DEF guiVars
<1> QED
    BY <1>1, <1>3, <1>4, <1>5 DEF PromptStep

\* The steps of a turn outside its prompt.
LEMMA CalmSteps ==
    ASSUME SessionInv, NEW t \in Turns,
           \/ SilentStep(t) \/ CardStep(t) \/ ExternalStep(t)
    PROVE  SessionInv'
<1>0. card \in [Turns -> [1 .. MaxPlan ->
                   {"none", "REQUESTED", "RUNNING", "COMPLETED", "FAILED"}]]
    BY DEF SessionInv, TypeOK
<1>1. CASE SilentStep(t) \/ ExternalStep(t)
    BY <1>0, <1>1, TurnSteps, CalmKeeps DEF SilentStep, ExternalStep, guiVars
<1>2. CASE CardStep(t)
    <2>1. PICK c \in {"REQUESTED", "RUNNING", "COMPLETED", "FAILED"} : ShowCard(t, c)
        BY <1>2 DEF CardStep
    <2>2. turn[t].pos \in 1 .. MaxPlan
        BY DEF SessionInv, RecordOK, Turn
    <2>3. card' \in [Turns -> [1 .. MaxPlan ->
                        {"none", "REQUESTED", "RUNNING", "COMPLETED", "FAILED"}]]
        BY <1>0, <2>1, <2>2 DEF ShowCard
    <2> QED
        BY <1>2, <2>1, <2>3, TurnSteps, CalmKeeps DEF ShowCard
<1> QED
    BY <1>1, <1>2

\* Only the cancellation of turns changes.
SameButCancelling(u) ==
    /\ turn'[u] \in Turn
    /\ turn'[u].at = turn[u].at /\ turn'[u].plan = turn[u].plan /\ turn'[u].pos = turn[u].pos
    /\ turn'[u].ran = turn[u].ran /\ turn'[u].finished = turn[u].finished
    /\ turn'[u].bound = turn[u].bound

\* cancel() of one task.
LEMMA CancellingIs ==
    ASSUME SessionInv, NEW t \in Turns
    PROVE  /\ Cancelling(t) \in [Turns -> Turn]
           /\ \A u \in Turns \ {t} : Cancelling(t)[u] = turn[u]
           /\ \E c \in {"due", "lost"} :
                 /\ Cancelling(t)[t] = [turn[t] EXCEPT !.cancelling = c]
                 /\ ~KeepsAnswer => c = "due"
           /\ Cancelling(t)[t].cancelling \in {"due", "lost"}
           /\ Cancelling(t)[t].at = turn[t].at /\ Cancelling(t)[t].plan = turn[t].plan
           /\ Cancelling(t)[t].pos = turn[t].pos /\ Cancelling(t)[t].ran = turn[t].ran
           /\ Cancelling(t)[t].finished = turn[t].finished
           /\ Cancelling(t)[t].bound = turn[t].bound
<1>0. turn \in [Turns -> Turn] /\ turn[t] \in Turn
    BY DEF SessionInv, TypeOK
<1>1. PICK c \in {"due", "lost"} :
         Cancelling(t) = [turn EXCEPT ![t].cancelling = c] /\ (~KeepsAnswer => c = "due")
    BY BrokerConstants DEF Cancelling
<1> DEFINE s == [turn[t] EXCEPT !.cancelling = c]
<1>2. Cancelling(t) = [turn EXCEPT ![t] = s]
    BY <1>0, <1>1
<1>3. /\ s \in Turn /\ s.cancelling = c /\ s.at = turn[t].at /\ s.plan = turn[t].plan
      /\ s.pos = turn[t].pos /\ s.ran = turn[t].ran /\ s.finished = turn[t].finished
      /\ s.bound = turn[t].bound
    BY <1>0 DEF Turn
<1>4. /\ Cancelling(t) \in [Turns -> Turn] /\ Cancelling(t)[t] = s
      /\ \A u \in Turns \ {t} : Cancelling(t)[u] = turn[u]
    <2> HIDE DEF s
    <2> QED
        BY <1>0, <1>2, <1>3
<1> QED
    BY <1>1, <1>3, <1>4

\* Cancellations alone disturb nothing but the status line.
LEMMA CancellingKeeps ==
    ASSUME SessionInv, TypeOK', \A u \in Turns : SameButCancelling(u),
           \A u \in Turns : turn'[u].cancelling # turn[u].cancelling => turn[u].at # "unborn",
           \A u \in Turns : \/ outer'[u] = outer[u]
                            \/ outer[u] = "waiting" /\ Done(u) /\ outer'[u] = "interrupted",
           Pending' = Pending, consent' = consent,
           \A p \in Pending : prompts'[p].scheduled = "allow" => prompts[p].scheduled = "allow",
           \/ closed'
           \/ /\ status' = "cancelling"
              /\ \E u \in Turns : WaitedFor(u)' /\ turn'[u].cancelling # "no"
    PROVE  SessionInv'
<1>1. ASSUME NEW u \in Turns PROVE RecordOK(turn'[u]) /\ WaiterFits(u)'
    <2>1. RecordOK(turn'[u])
        BY OtherFields DEF SessionInv, SameButCancelling
    <2>2. WaiterFits(u)'
        BY DEF SessionInv, WaiterFits, WaitedFor, Done, SameButCancelling
    <2> QED
        BY <2>1, <2>2
<1>2. \A u \in Turns : /\ Current(turn'[u]) = Current(turn[u]) /\ Prompt(u)' = Prompt(u)
                       /\ turn'[u].at = turn[u].at
    BY DEF Current, Prompt, SameButCancelling
<1>3. ConsentFits'
    BY <1>2 DEF SessionInv, ConsentFits
<1>4. \A u \in Turns : Active(u)' => Active(u)
    BY <1>2 DEF Active, Done
<1>5. OneActive'
    BY <1>4 DEF SessionInv, OneActive
<1>6. NoOrphanPrompt'
    BY <1>2 DEF SessionInv, StatusTellsTruth, NoOrphanPrompt
<1>7. StatusTellsTruth'
    BY <1>6 DEF StatusTellsTruth
<1> QED
    BY <1>1, <1>3, <1>5, <1>7 DEF SessionInv

\* The user cancels the turn, or closes the session.
LEMMA CancelSteps ==
    ASSUME SessionInv,
           \/ \E t \in Turns : CancelCurrent(t)
           \/ \E byWindow \in BOOLEAN : Close(byWindow)
    PROVE  SessionInv'
<1>0. TypeOK /\ turn \in [Turns -> Turn]
    BY DEF SessionInv, TypeOK
<1>1. ASSUME NEW t \in Turns, CancelCurrent(t) PROVE SessionInv'
    <2>1. /\ UNCHANGED <<window, registry, prompts, brokerClosed, outer, card, closed, voice,
                         dialog, consent>>
          /\ turn' = Cancelling(t) /\ status' = "cancelling" /\ Active(t)
        BY <1>1 DEF CancelCurrent, brokerVars
    <2>2. TypeOK'
        BY <1>0, <2>1, CancellingIs DEF TypeOK, Pending
    <2>3. ASSUME NEW u \in Turns PROVE SameButCancelling(u)
        <3>1. CASE u = t
            BY <1>0, <2>1, <3>1, CancellingIs DEF SameButCancelling
        <3>2. CASE u # t
            BY <1>0, <2>1, <3>2, CancellingIs DEF SameButCancelling
        <3> QED
            BY <3>1, <3>2
    <2>4. WaitedFor(t)' /\ turn'[t].cancelling # "no" /\ turn[t].at # "unborn"
        BY <2>1, CancellingIs DEF WaitedFor, Active, SessionInv, WaiterFits
    <2>5. \A u \in Turns : turn'[u].cancelling # turn[u].cancelling => turn[u].at # "unborn"
        BY <2>1, <2>4, CancellingIs
    <2> QED
        BY <2>1, <2>2, <2>3, <2>4, <2>5, CancellingKeeps DEF Pending
<1>2. ASSUME NEW byWindow \in BOOLEAN, Close(byWindow) PROVE SessionInv'
    <2>1. /\ UNCHANGED <<window, registry, card, consent>> /\ closed' = TRUE
          /\ brokerClosed' = TRUE /\ status' = "stopped" /\ voice' \in BOOLEAN
          /\ dialog' \in {NoPrompt, dialog}
          /\ turn' = [t \in Turns |-> IF Active(t) THEN Cancelling(t)[t] ELSE turn[t]]
          /\ outer' = [t \in Turns |-> IF byWindow /\ outer[t] = "waiting" /\ Done(t)
                                       THEN "interrupted" ELSE outer[t]]
        BY <1>0, <1>2 DEF Close, CloseBroker, TypeOK
    <2>2. \A u \in Turns : SameButCancelling(u)
        BY <1>0, <2>1, CancellingIs DEF SameButCancelling
    <2>3. \A u \in Turns : turn'[u].cancelling # turn[u].cancelling => turn[u].at # "unborn"
        BY <2>1 DEF Active, SessionInv, WaiterFits, WaitedFor
    <2>4. prompts' = [q \in Pending |-> IF Resolvable(q)
                                        THEN [prompts[q] EXCEPT !.scheduled = "deny"]
                                        ELSE prompts[q]]
        BY <1>2 DEF Close, CloseBroker
    <2>5. Pending' = Pending
        BY <2>4 DEF Pending
    <2>6. ASSUME NEW q \in Pending
          PROVE  /\ prompts'[q] \in Decision
                 /\ prompts'[q].scheduled = "allow" => prompts[q].scheduled = "allow"
        <3>1. prompts[q] \in Decision
            BY <1>0 DEF TypeOK
        <3>2. /\ [prompts[q] EXCEPT !.scheduled = "deny"] \in Decision
              /\ [prompts[q] EXCEPT !.scheduled = "deny"].scheduled = "deny"
            BY <3>1 DEF Decision
        <3>3. prompts'[q] \in {[prompts[q] EXCEPT !.scheduled = "deny"], prompts[q]}
            BY <2>4
        <3> QED
            BY <3>1, <3>2, <3>3
    <2>7. prompts' \in [Pending -> Decision]
        BY <2>4, <2>5, <2>6 DEF Pending
    <2>8. turn' \in [Turns -> Turn]
        BY <2>1, <2>2 DEF SameButCancelling
    <2>9. outer' \in [Turns -> {"none", "waiting", "interrupted"} \cup Told]
        BY <1>0, <2>1 DEF TypeOK
    <2>10. TypeOK'
        BY <1>0, <2>1, <2>5, <2>7, <2>8, <2>9 DEF TypeOK
    <2>11. \A u \in Turns :
              \/ outer'[u] = outer[u]
              \/ outer[u] = "waiting" /\ Done(u) /\ outer'[u] = "interrupted"
        BY <2>1
    <2> QED
        BY <2>1, <2>2, <2>3, <2>5, <2>6, <2>10, <2>11, CancellingKeeps
<1> QED
    BY <1>1, <1>2

\* send_message and execute_action start a turn.
LEMMA AcceptKeeps ==
    ASSUME SessionInv, NEW t \in Turns, NEW kind \in {"chat", "action"}, Accept(t, kind),
           voice' \in BOOLEAN
    PROVE  SessionInv'
<1> DEFINE r == turn[t]
           s == [r EXCEPT !.kind = kind, !.at = "created"]
<1>0. /\ TypeOK /\ turn \in [Turns -> Turn] /\ RecordOK(r) /\ r.at = "unborn"
      /\ UNCHANGED <<window, registry, prompts, brokerClosed, card, closed, dialog, consent>>
      /\ outer' = [outer EXCEPT ![t] = "waiting"] /\ status' = "working" /\ ~Busy
    BY DEF SessionInv, TypeOK, Accept, brokerVars, WaiterFits, WaitedFor
<1>1. turn' = [turn EXCEPT ![t] = s]
    BY <1>0 DEF Accept
<1>2. /\ s \in Turn /\ s.at = "created" /\ s.plan = r.plan /\ s.pos = r.pos /\ s.ran = r.ran
      /\ s.finished = r.finished /\ s.bound = r.bound /\ s.cancelling = r.cancelling
    BY <1>0 DEF RecordOK, Turn, Places
<1> HIDE DEF s
<1>3. /\ turn' \in [Turns -> Turn] /\ turn'[t] = s
      /\ \A u \in Turns \ {t} : turn'[u] = turn[u]
    BY <1>0, <1>1, <1>2
<1>4. RecordOK(s)
    BY <1>0, <1>2 DEF RecordOK, PlaceFits, WindowFits, PolicyFits, Unrun, Bound, Permitted
<1>5. /\ outer' \in [Turns -> {"none", "waiting", "interrupted"} \cup Told]
      /\ outer'[t] = "waiting" /\ \A u \in Turns \ {t} : outer'[u] = outer[u]
    BY <1>0 DEF TypeOK
<1>6. TypeOK'
    BY <1>0, <1>3, <1>5 DEF TypeOK, Pending
<1>7. ASSUME NEW u \in Turns PROVE RecordOK(turn'[u]) /\ WaiterFits(u)'
    <2>1. RecordOK(turn'[u])
        BY <1>3, <1>4 DEF SessionInv
    <2>2. WaiterFits(u)'
        BY <1>2, <1>3, <1>5 DEF SessionInv, WaiterFits, WaitedFor, Done
    <2> QED
        BY <2>1, <2>2
<1>8. \A u \in Turns : Prompt(u)' = Prompt(u)
    BY <1>2, <1>3 DEF Prompt
<1>9. ConsentFits'
    <2>1. \A u \in Turns : turn'[u].at \in Permitted => turn'[u] = turn[u]
        BY <1>2, <1>3 DEF Permitted
    <2> QED
        BY <1>0, <1>8, <2>1 DEF SessionInv, ConsentFits, Pending
<1>10. OneActive'
    <2>1. \A u \in Turns : Active(u)' => u = t
        BY <1>0, <1>3, <1>5 DEF Active, Busy, Done
    <2> QED
        BY <2>1 DEF OneActive
<1>11. NoOrphanPrompt'
    <2>1. \A u \in Turns : turn'[u].at = "confirming" <=> turn[u].at = "confirming"
        BY <1>0, <1>2, <1>3
    <2> QED
        BY <1>0, <1>8, <2>1 DEF SessionInv, StatusTellsTruth, NoOrphanPrompt, Pending
<1>12. StatusTellsTruth'
    BY <1>0, <1>11 DEF StatusTellsTruth
<1> QED
    BY <1>6, <1>7, <1>9, <1>10, <1>12 DEF SessionInv

\* send_message and execute_action return.
LEMMA ReturnKeeps ==
    ASSUME SessionInv, NEW t \in Turns, OuterReturn(t)
    PROVE  SessionInv'
<1>0. /\ TypeOK /\ turn \in [Turns -> Turn] /\ Done(t) /\ WaitedFor(t)
      /\ UNCHANGED <<window, registry, prompts, brokerClosed, closed, voice, dialog>>
      /\ turn' = [turn EXCEPT ![t] = NewTurn] /\ status' = StatusAfter(t)
      /\ card' = [card EXCEPT ![t] = NoCards]
      /\ consent' = {p \in consent : p[1] # t}
    BY DEF SessionInv, TypeOK, OuterReturn, brokerVars
<1>1. PICK said \in Told : outer' = [outer EXCEPT ![t] = said]
    BY DEF OuterReturn, Told
<1>2. /\ NewTurn \in Turn /\ NewTurn.at = "unborn" /\ NewTurn.cancelling = "no"
      /\ RecordOK(NewTurn)
    <2>1. 1 \in 1 .. MaxPlan /\ 0 \in 0 .. MaxPlan
        BY PipelineConstants
    <2>2. NewTurn \in Turn
        BY <2>1 DEF NewTurn, Turn, Places
    <2> QED
        BY <2>2 DEF NewTurn, RecordOK, PlaceFits, WindowFits, PolicyFits, Unrun, Bound, Permitted
<1>3. /\ turn' \in [Turns -> Turn] /\ turn'[t] = NewTurn
      /\ \A u \in Turns \ {t} : turn'[u] = turn[u]
    BY <1>0, <1>2
<1>4. /\ outer' \in [Turns -> {"none", "waiting", "interrupted"} \cup Told]
      /\ outer'[t] = said /\ \A u \in Turns \ {t} : outer'[u] = outer[u]
    BY <1>0, <1>1 DEF TypeOK
<1>5. /\ status' \in {"idle", "error", "stopped", "awaiting"}
      /\ status' = "awaiting" => Pending # {}
    BY <1>0 DEF StatusAfter
<1>6. card' \in [Turns -> [1 .. MaxPlan ->
                    {"none", "REQUESTED", "RUNNING", "COMPLETED", "FAILED"}]]
    BY <1>0 DEF TypeOK, NoCards
<1>7. TypeOK'
    BY <1>0, <1>3, <1>4, <1>5, <1>6 DEF TypeOK, Pending
<1>8. ASSUME NEW u \in Turns PROVE RecordOK(turn'[u]) /\ WaiterFits(u)'
    <2>1. RecordOK(turn'[u])
        BY <1>2, <1>3 DEF SessionInv
    <2>2. WaiterFits(u)'
        BY <1>2, <1>3, <1>4 DEF SessionInv, WaiterFits, WaitedFor, Done, Told
    <2> QED
        BY <2>1, <2>2
<1>9. \A u \in Turns \ {t} : Prompt(u)' = Prompt(u) /\ Prompt(u)[1] = u
    BY <1>3 DEF Prompt
<1>10. \A u \in Turns : turn'[u].at = "confirming" <=> turn[u].at = "confirming"
    BY <1>0, <1>2, <1>3 DEF Done
<1>11. \A p \in Pending : p[1] # t
    BY <1>0, <1>9 DEF SessionInv, StatusTellsTruth, NoOrphanPrompt, Done
<1>12. ConsentFits'
    <2>1. ASSUME NEW u \in Turns, turn'[u].at \in Permitted, Effective(Current(turn'[u])) = "ask"
          PROVE  Prompt(u)' \in consent'
        <3>1. u # t /\ turn'[u] = turn[u]
            BY <1>2, <1>3, <2>1 DEF Permitted
        <3> QED
            BY <1>0, <1>9, <2>1, <3>1 DEF SessionInv, ConsentFits
    <2>2. \A p \in Pending : prompts[p].scheduled = "allow" => p \in consent'
        BY <1>0, <1>11 DEF SessionInv, ConsentFits
    <2> QED
        BY <1>0, <2>1, <2>2 DEF ConsentFits, Pending
<1>13. OneActive'
    <2>1. \A u \in Turns : Active(u)' => Active(u)
        BY <1>3, <1>4 DEF Active, Done, Told
    <2> QED
        BY <2>1 DEF SessionInv, OneActive
<1>14. NoOrphanPrompt'
    <2>1. \A u \in Turns : turn[u].at = "confirming" => u # t
        BY <1>0 DEF Done
    <2> QED
        BY <1>0, <1>9, <1>10, <2>1 DEF SessionInv, StatusTellsTruth, NoOrphanPrompt, Pending
<1>15. StatusTellsTruth'
    BY <1>0, <1>5, <1>14 DEF StatusTellsTruth, Pending
<1> QED
    BY <1>7, <1>8, <1>12, <1>13, <1>15 DEF SessionInv

LEMMA SessionStarts == Init => SessionInv
<1> SUFFICES ASSUME Init PROVE SessionInv
    OBVIOUS
<1>1. /\ turn = [t \in Turns |-> NewTurn] /\ window \in Windows /\ registry = Actions
      /\ prompts = [p \in {} |-> FALSE] /\ brokerClosed = FALSE
      /\ outer = [t \in Turns |-> "none"] /\ card = [t \in Turns |-> NoCards]
      /\ status = "idle" /\ closed = FALSE /\ voice = FALSE /\ dialog = NoPrompt
      /\ consent = {}
    BY DEF Init, PipelineInit, BrokerInit
<1>2. 1 \in 1 .. MaxPlan /\ 0 \in 0 .. MaxPlan
    BY PipelineConstants
<1>3. NewTurn \in Turn
    BY <1>2 DEF NewTurn, Turn, Places
<1>4. RecordOK(NewTurn) /\ NewTurn.at = "unborn" /\ NewTurn.cancelling = "no"
    BY <1>3 DEF NewTurn, RecordOK, PlaceFits, WindowFits, PolicyFits, Unrun, Bound, Permitted
<1>5. Pending = {}
    BY <1>1 DEF Pending
<1>6. TypeOK
    BY <1>1, <1>3, <1>5 DEF TypeOK, NoCards
<1>7. \A t \in Turns : RecordOK(turn[t]) /\ WaiterFits(t)
    BY <1>1, <1>4 DEF WaiterFits, WaitedFor
<1>8. ConsentFits /\ OneActive
    BY <1>1, <1>4, <1>5 DEF ConsentFits, OneActive, Active, Permitted
<1>9. StatusTellsTruth
    BY <1>1, <1>4, <1>5 DEF StatusTellsTruth, NoOrphanPrompt
<1> QED
    BY <1>6, <1>7, <1>8, <1>9 DEF SessionInv

LEMMA SessionStutters == SessionInv /\ UNCHANGED vars => SessionInv'
<1> SUFFICES ASSUME SessionInv, UNCHANGED vars PROVE SessionInv'
    OBVIOUS
<1>1. /\ UNCHANGED <<turn, window, registry, prompts, brokerClosed, outer, card, status, closed,
                     voice, dialog, consent>>
      /\ Pending' = Pending
    BY DEF vars, pipelineVars, brokerVars, guiVars, Pending
<1>2. TypeOK'
    BY <1>1 DEF SessionInv, TypeOK
<1> QED
    BY <1>1, <1>2, AsideKeeps DEF SessionInv, ConsentFits

LEMMA SessionStep == SessionInv /\ [Next]_vars => SessionInv'
<1> SUFFICES ASSUME SessionInv, [Next]_vars PROVE SessionInv'
    OBVIOUS
<1>1. CASE UNCHANGED vars
    BY <1>1, SessionStutters
<1>2. ASSUME NEW t \in Turns, LoopStep(t) PROVE SessionInv'
    BY <1>2, CalmSteps, PromptSteps DEF LoopStep
<1>3. ASSUME NEW t \in Turns, OuterReturn(t) PROVE SessionInv'
    BY <1>3, ReturnKeeps
<1>4. ASSUME NEW t \in Turns, ExternalStep(t) PROVE SessionInv'
    BY <1>4, CalmSteps
<1>5. ASSUME NEW t \in Turns, NEW kind \in {"chat", "action"}, Send(t, kind) PROVE SessionInv'
    BY <1>5, AcceptKeeps DEF Send, SessionInv, TypeOK
<1>6. ASSUME NEW t \in Turns, Heard(t) PROVE SessionInv'
    BY <1>6, AcceptKeeps DEF Heard
<1>7. ASSUME NEW t \in Turns, CancelCurrent(t) PROVE SessionInv'
    BY <1>7, CancelSteps
<1>8. ASSUME NEW byWindow \in BOOLEAN, Close(byWindow) PROVE SessionInv'
    BY <1>8, CancelSteps
<1>9. CASE \/ Listen \/ HeardInVain \/ ListenFails \/ PromptTimer \/ PromptCallback
           \/ \E p \in Pending : ShowDialog(p)
           \/ \E verdict \in {"allow", "deny"} : Click(verdict)
           \/ PluginChange /\ UNCHANGED guiVars
           \/ \E w \in Windows : Activate(w) /\ UNCHANGED guiVars
    BY <1>9, AsideSteps
<1> QED
    BY <1>1, <1>2, <1>3, <1>4, <1>5, <1>6, <1>7, <1>8, <1>9 DEF Next, LoopWork

LEMMA SessionInvariant == Spec => []SessionInv
<1>1. SessionInv /\ [Next]_vars => SessionInv'
    BY SessionStep
<1> QED
    BY SessionStarts, <1>1, PTL DEF Spec

\* Every variable of the desktop session keeps its type (controller.py, permissions.py,
\* runtime.py).
THEOREM SessionTypeCorrect == Spec => []TypeOK
BY SessionInvariant, PTL DEF SessionInv

\* The pending prompts are exactly those of the turns that wait in confirm(), and while the
\* session is open the status line asks for a decision or promises a cancellation only when
\* there is one (_on_permission_change, cancel_current).
THEOREM StatusIsTrue == Spec => []StatusTellsTruth
BY SessionInvariant, PTL DEF SessionInv

-----------------------------------------------------------------------------
(* Keyboard input.                                                         *)

\* A turn changes its place by a step of its own.
LEMMA WhoMoves ==
    ASSUME SessionInv, [Next]_vars, NEW t \in Turns, turn'[t].at # turn[t].at
    PROVE  \/ SilentStep(t) \/ CardStep(t) \/ PromptStep(t) \/ ExternalStep(t)
           \/ OuterReturn(t) \/ \E kind \in {"chat", "action"} : Accept(t, kind)
<1>0. turn \in [Turns -> Turn] /\ turn' # turn
    BY DEF SessionInv, TypeOK
<1>1. ASSUME NEW u \in Turns, SilentStep(u) \/ CardStep(u) \/ ExternalStep(u) PROVE u = t
    BY <1>1, TurnSteps DEF Calm
<1>2. ASSUME NEW u \in Turns, PromptStep(u) PROVE u = t
    BY <1>0, <1>2 DEF PromptStep, Ask, Go, Confirmed, Unconfirmed, Decided, Interrupt
<1>3. ASSUME NEW u \in Turns, OuterReturn(u) PROVE u = t
    BY <1>0, <1>3 DEF OuterReturn
<1>4. ASSUME NEW u \in Turns, NEW kind \in {"chat", "action"}, Accept(u, kind) PROVE u = t
    BY <1>0, <1>4 DEF Accept
<1>5. ASSUME NEW u \in Turns, CancelCurrent(u) PROVE FALSE
    BY <1>0, <1>5, CancellingIs, ZenonT(40) DEF CancelCurrent
<1>6. ASSUME NEW byWindow \in BOOLEAN, Close(byWindow) PROVE FALSE
    BY <1>0, <1>6, CancellingIs DEF Close
<1>7. CASE \/ UNCHANGED vars \/ Listen \/ HeardInVain \/ ListenFails
           \/ PromptTimer \/ PromptCallback
           \/ \E p \in Pending : ShowDialog(p)
           \/ \E verdict \in {"allow", "deny"} : Click(verdict)
           \/ PluginChange /\ UNCHANGED guiVars
           \/ \E w \in Windows : Activate(w) /\ UNCHANGED guiVars
    BY <1>0, <1>7 DEF vars, pipelineVars, Listen, HeardInVain, ListenFails, PromptTimer,
        PromptCallback, ShowDialog, Click, PluginChange, Activate
<1> QED
    BY <1>1, <1>2, <1>3, <1>4, <1>5, <1>6, <1>7 DEF Next, LoopWork, LoopStep, Send, Heard

\* An action sets out from its permission if it has no window, and from its verification if
\* it has one.
LEMMA SetsOut ==
    ASSUME SessionInv, [Next]_vars, NEW t \in Turns,
           turn[t].at # "starting", turn'[t].at = "starting"
    PROVE  \/ turn[t].at = "allowing" /\ turn[t].bound = None
           \/ turn[t].at = "verifying" /\ window = turn[t].bound
<1>0. turn \in [Turns -> Turn] /\ turn[t] \in Turn
    BY DEF SessionInv, TypeOK
<1>1. CASE \/ Hear(t) \/ LookUp(t) \/ LookUpFails(t) \/ PrepareFails(t)
           \/ Permit(t) \/ Forbid(t) \/ Allow(t) \/ VerifyFails(t)
           \/ InvokeFails(t) \/ Respond(t) \/ Request(t) \/ Announce(t) \/ Raise(t) \/ Ask(t)
           \/ Interrupt(t)
    <2>1. PICK to \in Places :
             /\ turn' = [turn EXCEPT ![t].at = to]
             /\ \/ to # "starting"
                \/ turn[t].at = "allowing" /\ turn[t].bound = None
        BY <1>1 DEF Hear, LookUp, LookUpFails, PrepareFails, Permit, Forbid, Allow, VerifyFails,
            InvokeFails, Respond, Request, Announce, Raise, Ask, Interrupt, Step, Go, Places
    <2>2. turn'[t].at = to
        BY <1>0, <2>1 DEF Turn
    <2> QED
        BY <2>1, <2>2
<1>2. CASE Prepare(t) \/ Invoke(t) \/ Return(t) \/ ChoosePlan(t)
    BY <1>0, <1>2, ZenonT(40) DEF Prepare, Invoke, Return, ChoosePlan, Turn
<1>3. CASE Report(t) \/ Fail(t) \/ Refuse(t) \/ Talk(t) \/ Crash(t)
    BY <1>0, <1>3 DEF Report, Fail, Refuse, Talk, Crash, AfterPlan, Turn
<1>4. CASE Confirmed(t) \/ Unconfirmed(t)
    BY <1>0, <1>4 DEF Confirmed, Unconfirmed, Decided, Turn
<1>5. CASE Verify(t)
    BY <1>5 DEF Verify
<1>6. CASE OuterReturn(t)
    BY <1>0, <1>6 DEF OuterReturn, NewTurn
<1>7. ASSUME NEW kind \in {"chat", "action"}, Accept(t, kind) PROVE FALSE
    BY <1>0, <1>7 DEF Accept
<1> QED
    BY WhoMoves, <1>1, <1>2, <1>3, <1>4, <1>5, <1>6, <1>7
    DEF SilentStep, CardStep, PromptStep, ExternalStep

\* Keyboard input never sets out while a terminal is the active window: the window was bound
\* when none was active, and is found active again (DesktopExecutionGuard.prepare, verify).
THEOREM KeysAvoidTerminals == Spec => NoKeysToTerminal
<1>1. ASSUME SessionInv, [Next]_vars, NEW t \in Turns,
             turn[t].at # "starting", turn'[t].at = "starting", Item(t) \in Keyboard
      PROVE  window \notin Terminals
    <2>1. \/ turn[t].at = "allowing" /\ turn[t].bound = None
          \/ turn[t].at = "verifying" /\ window = turn[t].bound
        BY <1>1, SetsOut
    <2>2. turn[t].bound \in Windows \ Terminals
        BY <1>1, <2>1 DEF SessionInv, RecordOK, WindowFits, Bound, Item, Current
    <2> QED
        BY <2>1, <2>2, PipelineConstants
<1>2. SessionInv /\ [Next]_vars =>
         [\A t \in Turns :
             turn[t].at # "starting" /\ turn'[t].at = "starting" /\ Item(t) \in Keyboard =>
                window \notin Terminals]_vars
    BY <1>1
<1> QED
    BY SessionInvariant, <1>2, PTL DEF Spec, NoKeysToTerminal

-----------------------------------------------------------------------------
(* The report of a cancellation, where wait_for drops an answer it has.    *)

\* A turn whose work, cards and place stand still keeps its cards right.
LEMMA CardFrame ==
    ASSUME NEW t \in Turns, CardFits(t), card'[t] = card[t], turn'[t].ran = turn[t].ran,
           turn'[t].at = "invoking" =>
              turn[t].at = "invoking" /\ turn'[t].pos = turn[t].pos,
           closed => closed'
    PROVE  CardFits(t)'
BY DEF CardFits

\* A step that changes no card.
LEMMA CardsStand ==
    ASSUME CardInv, UNCHANGED card, \A u \in Turns : turn'[u].ran = turn[u].ran,
           \A u \in Turns : turn'[u].at = "invoking" =>
              turn[u].at = "invoking" /\ turn'[u].pos = turn[u].pos,
           closed => closed'
    PROVE  \A u \in Turns : CardFits(u)'
<1> QED
    BY CardFrame DEF CardInv

\* The cancellations of the other turns and the end of a session stay as they are.
LEMMA ClosedFrame ==
    ASSUME CardInv, closed' = closed,
           \A u \in Turns : turn'[u].cancelling \in {turn[u].cancelling, "due"},
           \A u \in Turns : Active(u)' => Active(u) \/ ~closed
    PROVE  ClosedFits' /\ NoneLost'
BY DEF CardInv, ClosedFits, NoneLost, Cancelled

\* In a closed session a turn that is not done is about to be cancelled.
LEMMA ClosedCancels ==
    ASSUME SessionInv, CardInv, closed, NEW t \in Turns,
           turn[t].at \notin {"unborn", "ended", "cancelled"}
    PROVE  Cancelled(t)
BY DEF SessionInv, CardInv, WaiterFits, WaitedFor, ClosedFits, Active, Done

\* Where the steps of a turn lead to an invocation.
LEMMA InvokingFrom ==
    ASSUME SessionInv, NEW t \in Turns,
           turn[t].at # "invoking", turn'[t].at = "invoking",
           SilentStep(t) \/ CardStep(t) \/ PromptStep(t) \/ ExternalStep(t)
    PROVE  Announce(t)
<1>0. turn \in [Turns -> Turn] /\ turn[t] \in Turn
    BY DEF SessionInv, TypeOK
<1>1. CASE \/ Hear(t) \/ LookUp(t) \/ LookUpFails(t) \/ PrepareFails(t)
           \/ Permit(t) \/ Forbid(t) \/ Allow(t) \/ VerifyFails(t)
           \/ InvokeFails(t) \/ Respond(t) \/ Request(t) \/ Raise(t) \/ Ask(t)
           \/ Interrupt(t)
    <2>1. PICK to \in Places : turn' = [turn EXCEPT ![t].at = to] /\ to # "invoking"
        BY <1>1 DEF Hear, LookUp, LookUpFails, PrepareFails, Permit, Forbid, Allow, VerifyFails,
            InvokeFails, Respond, Request, Raise, Ask, Interrupt, Step, Go, Places
    <2>2. turn'[t].at = to
        BY <1>0, <2>1 DEF Turn
    <2> QED
        BY <2>1, <2>2
<1>2. CASE Prepare(t) \/ Verify(t) \/ Invoke(t) \/ Return(t) \/ ChoosePlan(t)
    BY <1>0, <1>2, ZenonT(40) DEF Prepare, Verify, Invoke, Return, ChoosePlan, Turn
<1>3. CASE Report(t) \/ Fail(t) \/ Refuse(t) \/ Talk(t) \/ Crash(t)
    BY <1>0, <1>3 DEF Report, Fail, Refuse, Talk, Crash, AfterPlan, Turn
<1>4. CASE Confirmed(t) \/ Unconfirmed(t)
    BY <1>0, <1>4 DEF Confirmed, Unconfirmed, Decided, Turn
<1> QED
    BY <1>1, <1>2, <1>3, <1>4 DEF SilentStep, CardStep, PromptStep, ExternalStep

\* A calm step leaves the cancellations, and what the other turns show, alone.
LEMMA CalmCards ==
    ASSUME SessionInv, CardInv, NEW t \in Turns, Calm(t), UNCHANGED <<outer, closed>>,
           \A u \in Turns \ {t} : card'[u] = card[u],
           CardFits(t)'
    PROVE  CardInv'
<1>1. ClosedFits' /\ NoneLost'
    <2>1. \A u \in Turns : Active(u)' => Active(u)
        BY DEF Calm, Active, Done
    <2> QED
        BY <2>1, ClosedFrame DEF Calm
<1>2. \A u \in Turns \ {t} : CardFits(u)'
    BY CardFrame DEF CardInv, Calm
<1> QED
    BY <1>1, <1>2 DEF CardInv

\* The steps of a turn outside its prompt.
LEMMA CalmCardSteps ==
    ASSUME SessionInv, CardInv, NEW t \in Turns,
           SilentStep(t) \/ CardStep(t) \/ ExternalStep(t)
    PROVE  CardInv'
<1>0. /\ Calm(t) /\ RecordOK(turn[t]) /\ turn[t].at \notin {"unborn", "ended", "cancelled"}
      /\ card \in [Turns -> [1 .. MaxPlan ->
                      {"none", "REQUESTED", "RUNNING", "COMPLETED", "FAILED"}]]
      /\ turn[t].pos \in 1 .. MaxPlan /\ turn[t].ran \in 0 .. MaxPlan
    BY TurnSteps DEF SessionInv, TypeOK, RecordOK, Turn, Calm
<1>00. \A i \in 1 .. turn[t].ran : i \in 1 .. MaxPlan /\ i \in Nat
    BY <1>0, PipelineConstants
<1>1. CASE (SilentStep(t) \/ ExternalStep(t)) /\ ~Invoke(t)
    <2>1. UNCHANGED guiVars /\ turn'[t].ran = turn[t].ran
        BY <1>1, PlainSteps, PlanStep, ReturnStep DEF SilentStep, ExternalStep, SameWork
    <2>2. turn[t].at = "invoking" => turn'[t].at # "invoking"
        <3>1. ASSUME turn[t].at = "invoking", turn'[t].at = "invoking" PROVE FALSE
            <4>1. InvokeFails(t)
                BY <1>1, <3>1 DEF SilentStep, ExternalStep, Hear, LookUp, LookUpFails, Prepare,
                    PrepareFails, Permit, Forbid, Allow, Verify, VerifyFails, Respond, ChoosePlan,
                    Refuse, Talk, Crash, Return, Raise, CanPlan, Step, Go
            <4>2. turn'[t].at = "failing"
                BY <4>1 DEF InvokeFails, Step, Go, SessionInv, TypeOK, Turn
            <4> QED
                BY <3>1, <4>2
        <3> QED
            BY <3>1
    <2>3. ASSUME turn'[t].at = "invoking" PROVE FALSE
        BY <1>1, <2>2, <2>3, InvokingFrom DEF Announce, Step, Go, SilentStep, ExternalStep, Hear,
            LookUp, LookUpFails, Prepare, PrepareFails, Permit, Forbid, Allow, Verify, VerifyFails,
            Respond, ChoosePlan, Refuse, Talk, Crash, Return, Raise, CanPlan, InvokeFails
    <2>4. CardFits(t)'
        BY <2>1, <2>3, CardFrame DEF CardInv, guiVars
    <2> QED
        BY <1>0, <2>1, <2>4, CalmCards DEF guiVars
<1>2. CASE Invoke(t) /\ UNCHANGED guiVars
    <2>1. /\ turn'[t].at = "running" /\ ~Cancelled(t) /\ turn[t].at = "invoking"
          /\ turn[t].ran = turn[t].pos - 1 /\ turn'[t].ran = turn[t].pos
        BY <1>2, InvokeStep
    <2>2. ~closed
        BY <1>0, <2>1, ClosedCancels
    <2>3. card[t][turn[t].pos] = "RUNNING"
        BY <2>1, <2>2 DEF CardInv, CardFits
    <2>4. \A i \in 1 .. turn'[t].ran : i = turn[t].pos \/ i \in 1 .. turn[t].ran
        BY <1>0, <2>1
    <2>5. CardFits(t)'
        BY <1>2, <2>1, <2>3, <2>4 DEF CardInv, CardFits, guiVars
    <2> QED
        BY <1>0, <1>2, <2>5, CalmCards DEF guiVars
<1>3. CASE CardStep(t)
    <2>1. /\ UNCHANGED <<outer, closed>> /\ turn'[t].ran = turn[t].ran
          /\ \A u \in Turns \ {t} : card'[u] = card[u]
        BY <1>0, <1>3, PlainSteps DEF CardStep, ShowCard, SameWork
    <2>2. CASE Request(t) /\ ShowCard(t, "REQUESTED")
        <3>1. turn[t].at = "requesting" /\ turn'[t].at = "looking"
            BY <2>2 DEF Request, Step, Go, SessionInv, TypeOK, Turn
        <3>2. turn[t].ran = turn[t].pos - 1
            BY <1>0, <3>1 DEF RecordOK, PlaceFits, Unrun
        <3>3. \A i \in 1 .. turn[t].ran : i # turn[t].pos
            BY <1>0, <3>2
        <3>4. CardFits(t)'
            BY <1>0, <1>00, <2>1, <2>2, <3>1, <3>3 DEF CardInv, CardFits, ShowCard
        <3> QED
            BY <1>0, <2>1, <3>4, CalmCards
    <2>3. CASE Announce(t) /\ ShowCard(t, "RUNNING")
        <3>1. turn'[t].pos = turn[t].pos
            BY <2>3 DEF Announce, Step, Go, SessionInv, TypeOK, Turn
        <3>2. card'[t] = IF closed THEN card[t] ELSE [card[t] EXCEPT ![turn[t].pos] = "RUNNING"]
            BY <1>0, <2>3 DEF ShowCard
        <3>3. \A i \in 1 .. turn[t].ran : card'[t][i] \in {"RUNNING", "COMPLETED", "FAILED"}
            BY <1>0, <1>00, <3>2 DEF CardInv, CardFits
        <3>4. ~closed => card'[t][turn[t].pos] = "RUNNING"
            BY <1>0, <3>2
        <3>5. CardFits(t)'
            BY <2>1, <3>1, <3>3, <3>4 DEF CardFits
        <3> QED
            BY <1>0, <2>1, <3>5, CalmCards
    <2>4. CASE \E c \in {"COMPLETED", "FAILED"} : (Report(t) \/ Fail(t)) /\ ShowCard(t, c)
        <3>1. turn'[t].at # "invoking"
            BY <2>4 DEF Report, Fail, AfterPlan, SessionInv, TypeOK, Turn
        <3>2. CardFits(t)'
            BY <1>0, <1>00, <2>1, <2>4, <3>1 DEF CardInv, CardFits, ShowCard
        <3> QED
            BY <1>0, <2>1, <3>2, CalmCards
    <2> QED
        BY <1>3, <2>2, <2>3, <2>4 DEF CardStep
<1> QED
    BY <1>1, <1>2, <1>3 DEF SilentStep, ExternalStep

\* The step of a prompt.
LEMMA PromptCards ==
    ASSUME SessionInv, CardInv, NEW t \in Turns, PromptStep(t)
    PROVE  CardInv'
<1>0. turn \in [Turns -> Turn] /\ turn[t] \in Turn
    BY DEF SessionInv, TypeOK
<1>1. CASE Interrupt(t) /\ turn[t].at # "confirming" /\ UNCHANGED guiVars
    <2>1. Calm(t) /\ SameWork(t) /\ turn'[t].at # "invoking"
        BY <1>0, <1>1, PlainSteps DEF Interrupt, Turn
    <2>2. CardFits(t)'
        BY <1>1, <2>1, CardFrame DEF CardInv, guiVars, SameWork
    <2> QED
        BY <1>1, <2>1, <2>2, CalmCards DEF guiVars
<1>2. CASE /\ PromptsChanged
           /\ Ask(t) \/ Confirmed(t) \/ Unconfirmed(t)
                 \/ (Interrupt(t) /\ turn[t].at = "confirming")
    <2>1. UNCHANGED <<outer, card, closed>>
        BY <1>2 DEF PromptsChanged
    <2>2. PICK to \in {"confirming", "allowing", "failing", "cancelled"} :
             \/ turn' = [turn EXCEPT ![t].at = to]
             \/ turn' = [turn EXCEPT ![t].at = to, ![t].cancelling = "no"] /\ ~Cancelled(t)
        BY <1>2 DEF Ask, Go, Confirmed, Unconfirmed, Decided, Interrupt
    <2>3. turn[t].at \in {"asking", "confirming"}
        BY <1>2 DEF Ask, Go, Confirmed, Unconfirmed, Decided, Interrupt
    <2>4. /\ turn'[t].at = to /\ turn'[t].ran = turn[t].ran
          /\ turn'[t].cancelling = turn[t].cancelling
                \/ (turn'[t].cancelling = "no" /\ ~Cancelled(t))
          /\ \A u \in Turns \ {t} : turn'[u] = turn[u]
        BY <1>0, <2>2 DEF Turn
    <2>5. \A u \in Turns : CardFits(u)'
        BY <2>1, <2>4, CardsStand
    <2>6. \A u \in Turns : Active(u)' => Active(u)
        BY <2>1, <2>3, <2>4 DEF Active, Done
    <2>7. closed => Cancelled(t)
        BY <2>3, ClosedCancels
    <2>8. ClosedFits' /\ NoneLost'
        BY <2>1, <2>4, <2>6, <2>7 DEF CardInv, ClosedFits, NoneLost, Cancelled
    <2> QED
        BY <2>5, <2>8 DEF CardInv
<1> QED
    BY <1>1, <1>2 DEF PromptStep

\* Everything else.
LEMMA OtherCards ==
    ASSUME ~KeepsAnswer, SessionInv, CardInv, [Next]_vars,
           \A t \in Turns : ~(SilentStep(t) \/ CardStep(t) \/ ExternalStep(t) \/ PromptStep(t))
    PROVE  CardInv'
<1>0. turn \in [Turns -> Turn] /\ \A t \in Turns : turn[t] \in Turn
    BY DEF SessionInv, TypeOK
<1>1. ASSUME NEW t \in Turns, OuterReturn(t) PROVE CardInv'
    <2>1. /\ turn' = [turn EXCEPT ![t] = NewTurn] /\ card' = [card EXCEPT ![t] = NoCards]
          /\ closed' = closed /\ Done(t)
        BY <1>1 DEF OuterReturn
    <2>2. PICK said \in Told : outer' = [outer EXCEPT ![t] = said]
        BY <1>1 DEF OuterReturn, Told
    <2>3. /\ turn'[t].at = "unborn" /\ turn'[t].ran = 0 /\ turn'[t].cancelling = "no"
          /\ \A u \in Turns \ {t} : turn'[u] = turn[u] /\ card'[u] = card[u]
        BY <1>0, <2>1 DEF NewTurn, SessionInv, TypeOK
    <2>4. \A u \in Turns : Active(u)' => Active(u) /\ u # t
        BY <2>2, <2>3 DEF Active, Done, Told, SessionInv, TypeOK
    <2>5. ClosedFits' /\ NoneLost'
        BY <2>1, <2>3, <2>4 DEF CardInv, ClosedFits, NoneLost, Cancelled
    <2>6. CardFits(t)'
        BY <2>3 DEF CardFits
    <2>7. \A u \in Turns \ {t} : CardFits(u)'
        BY <2>1, <2>3, CardFrame DEF CardInv
    <2> QED
        BY <2>5, <2>6, <2>7 DEF CardInv
<1>2. ASSUME NEW t \in Turns, NEW kind \in {"chat", "action"}, Accept(t, kind) PROVE CardInv'
    <2>1. /\ turn' = [turn EXCEPT ![t].kind = kind, ![t].at = "created"]
          /\ card' = card /\ closed' = closed /\ ~closed
        BY <1>2 DEF Accept
    <2>2. /\ turn'[t].at = "created" /\ turn'[t].ran = turn[t].ran
          /\ turn'[t].cancelling = turn[t].cancelling
          /\ \A u \in Turns \ {t} : turn'[u] = turn[u]
        BY <1>0, <2>1 DEF Turn
    <2>3. \A u \in Turns : CardFits(u)'
        BY <2>1, <2>2, CardsStand
    <2>4. ClosedFits' /\ NoneLost'
        BY <2>1, <2>2, ClosedFrame
    <2> QED
        BY <2>3, <2>4 DEF CardInv
<1>3. ASSUME NEW t \in Turns, CancelCurrent(t) PROVE CardInv'
    <2>1. turn' = Cancelling(t) /\ UNCHANGED <<outer, card, closed>>
        BY <1>3 DEF CancelCurrent
    <2>2. /\ turn'[t] = [turn[t] EXCEPT !.cancelling = "due"]
          /\ \A u \in Turns \ {t} : turn'[u] = turn[u]
        BY <2>1, CancellingIs
    <2>3. /\ turn'[t].cancelling = "due" /\ turn'[t].at = turn[t].at
          /\ turn'[t].ran = turn[t].ran /\ turn'[t].pos = turn[t].pos
        BY <1>0, <2>2 DEF Turn
    <2>4. \A u \in Turns : CardFits(u)'
        BY <2>1, <2>2, <2>3, CardsStand
    <2>5. \A u \in Turns : Active(u)' => Active(u)
        BY <2>1, <2>2, <2>3 DEF Active, Done
    <2>6. ClosedFits' /\ NoneLost'
        BY <2>1, <2>2, <2>3, <2>5, ClosedFrame
    <2> QED
        BY <2>4, <2>6 DEF CardInv
<1>4. ASSUME NEW byWindow \in BOOLEAN, Close(byWindow) PROVE CardInv'
    <2>1. /\ turn' = [t \in Turns |-> IF Active(t) THEN Cancelling(t)[t] ELSE turn[t]]
          /\ outer' = [t \in Turns |-> IF byWindow /\ outer[t] = "waiting" /\ Done(t)
                                       THEN "interrupted" ELSE outer[t]]
          /\ card' = card /\ closed'
        BY <1>4 DEF Close
    <2>2. ASSUME NEW u \in Turns
          PROVE  /\ turn'[u].at = turn[u].at /\ turn'[u].ran = turn[u].ran
                 /\ turn'[u].pos = turn[u].pos
                 /\ turn'[u].cancelling \in {turn[u].cancelling, "due"}
                 /\ Active(u) => turn'[u].cancelling = "due"
        <3>1. CASE Active(u)
            <4>1. turn'[u] = [turn[u] EXCEPT !.cancelling = "due"]
                BY <2>1, <3>1, CancellingIs
            <4> QED
                BY <1>0, <4>1 DEF Turn
        <3>2. CASE ~Active(u)
            BY <2>1, <3>2
        <3> QED
            BY <3>1, <3>2
    <2>3. \A u \in Turns : CardFits(u)'
        BY <2>1, <2>2, CardsStand
    <2>4. \A u \in Turns : Active(u)' => Active(u)
        BY <2>1, <2>2 DEF Active, Done
    <2>5. ClosedFits'
        BY <2>2, <2>4 DEF ClosedFits, Cancelled
    <2>6. NoneLost'
        BY <2>2 DEF CardInv, NoneLost
    <2> QED
        BY <2>3, <2>5, <2>6 DEF CardInv
<1>5. CASE \/ UNCHANGED vars \/ Listen \/ HeardInVain \/ ListenFails
           \/ PromptTimer \/ PromptCallback
           \/ \E p \in Pending : ShowDialog(p)
           \/ \E verdict \in {"allow", "deny"} : Click(verdict)
           \/ PluginChange /\ UNCHANGED guiVars
           \/ \E w \in Windows : Activate(w) /\ UNCHANGED guiVars
    <2>1. UNCHANGED <<turn, outer, card, closed>>
        BY <1>5 DEF vars, pipelineVars, guiVars, Listen, HeardInVain, ListenFails, PromptTimer,
            PromptCallback, ShowDialog, Click, PluginChange, Activate
    <2>2. \A u \in Turns : CardFits(u)'
        BY <2>1, CardsStand
    <2>3. ClosedFits' /\ NoneLost'
        BY <2>1, ClosedFrame DEF Active, Done
    <2> QED
        BY <2>2, <2>3 DEF CardInv
<1> QED
    BY <1>1, <1>2, <1>3, <1>4, <1>5 DEF Next, LoopWork, LoopStep, Send, Heard

LEMMA CardInvariant ==
    ASSUME ~KeepsAnswer
    PROVE  Spec => [](SessionInv /\ CardInv)
<1>1. Init => SessionInv /\ CardInv
    <2> SUFFICES ASSUME Init PROVE SessionInv /\ CardInv
        OBVIOUS
    <2>1. /\ closed = FALSE
          /\ \A t \in Turns : turn[t].at = "unborn" /\ turn[t].ran = 0 /\ turn[t].cancelling = "no"
        BY DEF Init, PipelineInit, NewTurn
    <2> QED
        BY <2>1, SessionStarts DEF CardInv, ClosedFits, NoneLost, CardFits
<1>2. SessionInv /\ CardInv /\ [Next]_vars => (SessionInv /\ CardInv)'
    <2> SUFFICES ASSUME SessionInv, CardInv, [Next]_vars PROVE CardInv'
        BY SessionStep
    <2>1. CASE \E t \in Turns : SilentStep(t) \/ CardStep(t) \/ ExternalStep(t) \/ PromptStep(t)
        BY <2>1, CalmCardSteps, PromptCards
    <2> QED
        BY <2>1, OtherCards
<1> QED
    BY <1>1, <1>2, PTL DEF Spec

\* Where wait_for lets a cancellation win over an answer it has (Python 3.12 on), a turn
\* reported as cancelled has only completed and failed actions behind it
\* (_resolve_cancelled_activities).
THEOREM CancellationsHonest ==
    ASSUME ~KeepsAnswer
    PROVE  Spec => HonestCancel
<1>1. SessionInv /\ CardInv /\ [Next]_vars =>
         [\A t \in Turns :
             outer[t] # "cancelled" /\ outer'[t] = "cancelled" =>
                \A i \in 1 .. turn[t].ran : card[t][i] \in {"COMPLETED", "FAILED"}]_vars
    <2> SUFFICES ASSUME SessionInv, CardInv, [Next]_vars, NEW t \in Turns,
                        outer[t] # "cancelled", outer'[t] = "cancelled",
                        NEW i \in 1 .. turn[t].ran
                 PROVE  card[t][i] \in {"COMPLETED", "FAILED"}
        OBVIOUS
    <2>1. PICK u \in Turns : OuterReturn(u)
        BY DEF SessionInv, TypeOK, Next, LoopWork, LoopStep, SilentStep, CardStep, PromptStep,
            ExternalStep, guiVars, vars, ShowCard, PromptsChanged, Send, Heard, Accept, Listen,
            HeardInVain, ListenFails, CancelCurrent, Close, PromptTimer, PromptCallback,
            ShowDialog, Click
    <2>2. u = t /\ ~OutcomeUnknown(t)
        BY <2>1 DEF OuterReturn, SessionInv, TypeOK
    <2>3. i \in 1 .. MaxPlan
        BY PipelineConstants DEF SessionInv, RecordOK, Turn
    <2>4. card[t][i] \in {"RUNNING", "COMPLETED", "FAILED"} /\ card[t][i] # "RUNNING"
        BY <2>2, <2>3 DEF CardInv, CardFits, OutcomeUnknown
    <2> QED
        BY <2>4
<1> QED
    BY CardInvariant, <1>1, PTL DEF Spec, HonestCancel

-----------------------------------------------------------------------------
(* The refinement of TurnPromise, where wait_for drops an answer it has.   *)

lives == [t \in Turns |-> Life(t)]
plans == [t \in Turns |-> turn[t].plan]
rans == [t \in Turns |-> turn[t].ran]
ends == [t \in Turns |-> turn[t].finished]

\* Nothing a turn promises is touched.
LEMMA NothingPromised ==
    ASSUME NEW t \in Turns, SameWork(t), UNCHANGED consent, \A u \in Turns : Life(u)' = Life(u)
    PROVE  UNCHANGED Promise!vars
<1>1. lives' = lives /\ plans' = plans /\ rans' = rans /\ ends' = ends
    BY DEF lives, plans, rans, ends, SameWork
<1> QED
    BY <1>1 DEF lives, plans, rans, ends, Promise!vars

\* At most the life of one turn ends.
LEMMA EndsAtMost ==
    ASSUME NEW t \in Turns, SameWork(t), UNCHANGED consent,
           \A u \in Turns \ {t} : Life(u)' = Life(u),
           Life(t)' = Life(t) \/ (Life(t) = "live" /\ Life(t)' = "over")
    PROVE  [Promise!Next]_(Promise!vars)
<1>1. CASE Life(t)' = Life(t)
    <2>1. \A u \in Turns : Life(u)' = Life(u)
        BY <1>1
    <2> QED
        BY <2>1, NothingPromised
<1>2. CASE Life(t) = "live" /\ Life(t)' = "over"
    <2>1. lives' = [lives EXCEPT ![t] = "over"] /\ lives[t] = "live"
        BY <1>2 DEF lives
    <2>2. plans' = plans /\ rans' = rans /\ ends' = ends
        BY DEF plans, rans, ends, SameWork
    <2>3. Promise!End(t)
        BY <2>1, <2>2 DEF lives, plans, rans, ends, Promise!End
    <2> QED
        BY <2>3 DEF Promise!Next
<1> QED
    BY <1>1, <1>2

\* Life, read off the state of a turn.
LifeTable ==
    \A t \in Turns :
        /\ turn[t].at = "unborn" /\ outer[t] = "none" => Life(t) = "new"
        /\ turn[t].at = "unborn" /\ outer[t] # "none" => Life(t) = "over"
        /\ turn[t].at # "unborn" =>
              Life(t) = IF Done(t) \/ turn[t].cancelling # "no" THEN "over" ELSE "live"

LEMMA LifeTableHolds == SessionInv => LifeTable
BY DEF SessionInv, TypeOK, WaiterFits, WaitedFor, Life, Told, Done, LifeTable

LEMMA LifeTableHoldsNext == SessionInv' => LifeTable'
BY LifeTableHolds, PTL

\* What a calm step does to the lives.
LEMMA CalmLives ==
    ASSUME SessionInv, SessionInv', NEW t \in Turns, Calm(t), UNCHANGED outer
    PROVE  /\ \A u \in Turns \ {t} : Life(u)' = Life(u)
           /\ Life(t)' = Life(t) \/ (Life(t) = "live" /\ Life(t)' = "over")
           /\ turn'[t].at \notin {"ended", "cancelled"} => Life(t)' = Life(t)
<1>1. \A u \in Turns \ {t} : Life(u)' = Life(u)
    BY DEF Calm, Life, Done
<1>2. /\ turn[t].at # "unborn" /\ turn'[t].at # "unborn" /\ ~Done(t)
      /\ turn'[t].cancelling = turn[t].cancelling
      /\ turn'[t].at \notin {"ended", "cancelled"} => ~Done(t)'
    BY DEF Calm, Done
<1> QED
    BY <1>1, <1>2, LifeTableHolds, LifeTableHoldsNext DEF LifeTable

\* The policy, as the promise sees it.
LEMMA PolicyPromise ==
    ASSUME NEW a \in Actions
    PROVE  /\ Effective(a) \in {"allow", "ask", "deny"}
           /\ Effective(a) = "allow" =>
                 a \in {b \in Actions : Policy[Risk[b]] = "allow" /\ Risk[b] # "DESTRUCTIVE"}
                          \ AlwaysConfirm
           /\ Effective(a) # "deny" => a \notin {b \in Actions : Policy[Risk[b]] = "deny"}
<1>1. Policy[Risk[a]] \in {"allow", "ask", "deny"}
    BY PipelineConstants
<1> QED
    BY <1>1 DEF Effective

LEMMA PromiseStarts == Init => Promise!Init
<1> SUFFICES ASSUME Init PROVE Promise!Init
    OBVIOUS
<1>1. /\ turn = [t \in Turns |-> NewTurn] /\ outer = [t \in Turns |-> "none"] /\ consent = {}
    BY DEF Init, PipelineInit
<1>2. \A t \in Turns : Life(t) = "new"
    BY <1>1 DEF Life
<1> QED
    BY <1>1, <1>2 DEF Promise!Init, NewTurn

\* The steps of a turn outside its prompt.
LEMMA CalmPromises ==
    ASSUME SessionInv, SessionInv', CardInv, NEW t \in Turns,
           \/ SilentStep(t) \/ CardStep(t) \/ ExternalStep(t)
           \/ Interrupt(t) /\ turn[t].at # "confirming" /\ UNCHANGED guiVars
    PROVE  [Promise!Next]_(Promise!vars)
<1>0. Calm(t) /\ UNCHANGED <<outer, consent>>
    BY TurnSteps DEF SilentStep, CardStep, ExternalStep, guiVars, ShowCard
<1>1. CASE ~(Invoke(t) \/ Return(t) \/ ChoosePlan(t))
    <2>1. SameWork(t)
        BY <1>1, PlainSteps DEF SilentStep, CardStep, ExternalStep
    <2> QED
        BY <1>0, <2>1, CalmLives, EndsAtMost
<1>2. CASE ChoosePlan(t)
    <2>1. /\ turn'[t].at = "requesting" /\ turn[t].plan = <<>> /\ turn'[t].plan \in Plans
          /\ turn'[t].ran = turn[t].ran /\ turn'[t].finished = turn[t].finished
        BY <1>2, PlanStep
    <2>2. Life(t) = "live"
        BY <1>0, <1>2, LifeTableHolds
        DEF LifeTable, ChoosePlan, Cancelled, CardInv, NoneLost, Calm, Done, SessionInv, RecordOK,
            Turn
    <2>3. lives' = lives /\ lives[t] = "live" /\ plans[t] = <<>>
        BY <1>0, <2>1, <2>2, CalmLives DEF lives, plans
    <2>4. plans' = [plans EXCEPT ![t] = turn'[t].plan]
        BY <1>0 DEF plans, Calm
    <2>5. rans' = rans /\ ends' = ends
        BY <1>0, <2>1 DEF rans, ends, Calm
    <2>6. Promise!Plan(t)
        BY <1>0, <2>1, <2>3, <2>4, <2>5 DEF lives, plans, rans, ends, Promise!Plan
    <2> QED
        BY <2>6 DEF Promise!Next
<1>3. CASE Invoke(t)
    <2>1. /\ turn[t].at = "invoking" /\ turn'[t].at = "running" /\ ~Cancelled(t)
          /\ turn[t].plan \in Plans /\ turn[t].pos \in DOMAIN turn[t].plan
          /\ turn[t].ran = turn[t].pos - 1 /\ turn[t].finished = turn[t].pos - 1
          /\ turn'[t].plan = turn[t].plan
          /\ turn'[t].ran = turn[t].pos /\ turn'[t].finished = turn[t].finished
          /\ turn[t].pos \in Nat
        BY <1>3, InvokeStep DEF SessionInv, RecordOK, Turn
    <2>2. Life(t) = "live"
        BY <1>0, <2>1, LifeTableHolds
        DEF LifeTable, Cancelled, CardInv, NoneLost, Done, SessionInv, RecordOK, Turn
    <2>3. lives' = lives /\ lives[t] = "live"
        BY <1>0, <2>1, <2>2, CalmLives DEF lives
    <2>4. plans' = plans /\ ends' = ends
        BY <1>0, <2>1 DEF plans, ends, Calm
    <2>5. rans' = [rans EXCEPT ![t] = rans[t] + 1] /\ rans[t] = ends[t]
        <3>1. rans[t] = turn[t].pos - 1 /\ ends[t] = turn[t].pos - 1
            BY <2>1 DEF rans, ends
        <3>2. rans' = [rans EXCEPT ![t] = turn[t].pos]
            BY <1>0, <2>1 DEF rans, Calm
        <3>3. rans[t] + 1 = turn[t].pos
            BY <2>1, <3>1
        <3> QED
            BY <3>1, <3>2, <3>3
    <2>6. Promise!Item(t) = turn[t].pos
        BY <2>1 DEF Promise!Item
    <2> DEFINE a == turn[t].plan[turn[t].pos]
    <2>7. a \in Actions
        BY <2>1, PlanShape
    <2>8. /\ Effective(a) # "deny"
          /\ Effective(a) = "ask" => <<t, turn[t].pos>> \in consent
        BY <2>1 DEF SessionInv, RecordOK, PolicyFits, ConsentFits, Permitted, Current, Prompt
    <2>9. /\ \/ a \in {b \in Actions : Policy[Risk[b]] = "allow" /\ Risk[b] # "DESTRUCTIVE"}
                         \ AlwaysConfirm
             \/ <<t, turn[t].pos>> \in consent
          /\ a \notin {b \in Actions : Policy[Risk[b]] = "deny"}
        BY <2>7, <2>8, PolicyPromise
    <2>10. Promise!Begin(t)
        BY <1>0, <2>1, <2>3, <2>4, <2>5, <2>6, <2>9 DEF lives, plans, rans, ends, Promise!Begin
    <2> QED
        BY <2>10 DEF Promise!Next
<1>4. CASE Return(t)
    <2>1. /\ turn[t].at = "running" /\ turn'[t].at = "reporting"
          /\ turn[t].ran = turn[t].pos /\ turn[t].finished = turn[t].pos - 1
          /\ turn'[t].plan = turn[t].plan
          /\ turn'[t].ran = turn[t].ran /\ turn'[t].finished = turn[t].pos
          /\ turn[t].pos \in Nat
        BY <1>4, ReturnStep DEF SessionInv, RecordOK, Turn
    <2>2. lives' = lives
        BY <1>0, <2>1, CalmLives DEF lives
    <2>3. plans' = plans /\ rans' = rans
        BY <1>0, <2>1 DEF plans, rans, Calm
    <2>4. ends' = [ends EXCEPT ![t] = ends[t] + 1] /\ ends[t] < rans[t]
        <3>1. rans[t] = turn[t].pos /\ ends[t] = turn[t].pos - 1
            BY <2>1 DEF rans, ends
        <3>2. ends' = [ends EXCEPT ![t] = turn[t].pos]
            BY <1>0, <2>1 DEF ends, Calm
        <3>3. ends[t] + 1 = turn[t].pos /\ ends[t] < rans[t]
            BY <2>1, <3>1
        <3> QED
            BY <3>2, <3>3
    <2>5. Promise!Succeed(t)
        BY <1>0, <2>2, <2>3, <2>4 DEF lives, plans, rans, ends, Promise!Succeed
    <2> QED
        BY <2>5 DEF Promise!Next
<1> QED
    BY <1>1, <1>2, <1>3, <1>4

\* The prompt of a turn opens, is decided or is given up: nothing is promised or kept.
LEMMA PromptPromises ==
    ASSUME SessionInv, SessionInv', CardInv, NEW t \in Turns, PromptsChanged,
           \/ Ask(t) \/ Confirmed(t) \/ Unconfirmed(t)
           \/ Interrupt(t) /\ turn[t].at = "confirming"
    PROVE  [Promise!Next]_(Promise!vars)
<1>0. turn \in [Turns -> Turn] /\ turn[t] \in Turn /\ UNCHANGED <<outer, consent>>
    BY DEF SessionInv, TypeOK, PromptsChanged
<1>1. PICK to \in {"confirming", "allowing", "failing", "cancelled"} :
         /\ \/ turn' = [turn EXCEPT ![t].at = to]
            \/ turn' = [turn EXCEPT ![t].at = to, ![t].cancelling = "no"] /\ ~Cancelled(t)
         /\ to = "cancelled" => Cancelled(t)
    BY DEF Ask, Go, Confirmed, Unconfirmed, Decided, Interrupt
<1>2. turn[t].at \in {"asking", "confirming"}
    BY DEF Ask, Go, Confirmed, Unconfirmed, Decided, Interrupt
<1>3. turn[t].cancelling \in {"no", "due"}
    BY <1>0 DEF CardInv, NoneLost, Turn
<1>4. /\ turn'[t].at = to /\ turn'[t].ran = turn[t].ran /\ turn'[t].plan = turn[t].plan
      /\ turn'[t].finished = turn[t].finished /\ turn'[t].cancelling = turn[t].cancelling
      /\ \A u \in Turns \ {t} : turn'[u] = turn[u]
    BY <1>0, <1>1, <1>3 DEF Turn, Cancelled
<1>5. SameWork(t)
    BY <1>4 DEF SameWork
<1>6. \A u \in Turns \ {t} : Life(u)' = Life(u)
    BY <1>0, <1>4 DEF Life, Done
<1>7. Life(t)' = Life(t)
    <2>1. turn[t].at # "unborn" /\ turn'[t].at # "unborn" /\ ~Done(t)
          /\ (Done(t)' => turn[t].cancelling # "no")
        BY <1>1, <1>2, <1>4 DEF Done, Cancelled
    <2> QED
        BY <1>4, <2>1, LifeTableHolds, LifeTableHoldsNext DEF LifeTable
<1> QED
    BY <1>0, <1>5, <1>6, <1>7, EndsAtMost

\* A turn is accepted.
LEMMA AcceptPromises ==
    ASSUME SessionInv, SessionInv', NEW t \in Turns, NEW kind \in {"chat", "action"},
           Accept(t, kind)
    PROVE  Promise!Accept(t)
<1>0. /\ turn \in [Turns -> Turn] /\ turn[t] \in Turn /\ UNCHANGED consent
      /\ turn' = [turn EXCEPT ![t].kind = kind, ![t].at = "created"]
      /\ outer' = [outer EXCEPT ![t] = "waiting"] /\ outer[t] = "none"
      /\ turn[t].at = "unborn" /\ turn[t].cancelling = "no"
    BY DEF SessionInv, TypeOK, Accept, WaiterFits, WaitedFor
<1>1. /\ turn'[t].at = "created" /\ turn'[t].ran = turn[t].ran /\ turn'[t].plan = turn[t].plan
      /\ turn'[t].finished = turn[t].finished /\ turn'[t].cancelling = "no"
      /\ \A u \in Turns \ {t} : turn'[u] = turn[u] /\ outer'[u] = outer[u]
    BY <1>0 DEF Turn, SessionInv, TypeOK
<1>2. Life(t) = "new" /\ Life(t)' = "live"
    BY <1>0, <1>1, LifeTableHolds, LifeTableHoldsNext DEF LifeTable, Done
<1>3. \A u \in Turns \ {t} : Life(u)' = Life(u)
    BY <1>1 DEF Life, Done
<1>4. lives' = [lives EXCEPT ![t] = "live"] /\ lives[t] = "new"
    BY <1>2, <1>3 DEF lives
<1>5. plans' = plans /\ rans' = rans /\ ends' = ends
    BY <1>1 DEF plans, rans, ends
<1> QED
    BY <1>0, <1>4, <1>5 DEF lives, plans, rans, ends, Promise!Accept

\* The task that waited returns, and the turn is forgotten.
LEMMA ReturnPromises ==
    ASSUME SessionInv, SessionInv', NEW t \in Turns, OuterReturn(t)
    PROVE  Promise!Forget(t)
<1>0. /\ turn \in [Turns -> Turn] /\ turn' = [turn EXCEPT ![t] = NewTurn] /\ Done(t)
      /\ consent' = {p \in consent : p[1] # t}
    BY DEF SessionInv, TypeOK, OuterReturn
<1>1. PICK said \in Told : outer' = [outer EXCEPT ![t] = said]
    BY DEF OuterReturn, Told
<1>2. /\ turn'[t].at = "unborn" /\ turn'[t].ran = 0 /\ turn'[t].plan = <<>>
      /\ turn'[t].finished = 0 /\ outer'[t] = said
      /\ \A u \in Turns \ {t} : turn'[u] = turn[u] /\ outer'[u] = outer[u]
    BY <1>0, <1>1 DEF NewTurn, SessionInv, TypeOK
<1>3. Life(t) = "over" /\ Life(t)' = "over"
    BY <1>0, <1>2, LifeTableHolds, LifeTableHoldsNext DEF LifeTable, Done, Told
<1>4. \A u \in Turns \ {t} : Life(u)' = Life(u)
    BY <1>2 DEF Life, Done
<1>5. lives' = lives /\ lives[t] = "over"
    BY <1>3, <1>4 DEF lives
<1>6. /\ plans' = [plans EXCEPT ![t] = <<>>] /\ rans' = [rans EXCEPT ![t] = 0]
      /\ ends' = [ends EXCEPT ![t] = 0]
    BY <1>2 DEF plans, rans, ends
<1> QED
    BY <1>0, <1>5, <1>6 DEF lives, plans, rans, ends, Promise!Forget

\* A click that allows is the user's consent to the item after those that succeeded.
LEMMA ClickPromises ==
    ASSUME SessionInv, NEW verdict \in {"allow", "deny"}, Click(verdict)
    PROVE  [Promise!Next]_(Promise!vars)
<1>0. UNCHANGED <<turn, outer>>
    BY DEF Click, pipelineVars
<1>1. lives' = lives /\ plans' = plans /\ rans' = rans /\ ends' = ends
    BY <1>0 DEF lives, plans, rans, ends, Life, Done
<1>2. CASE UNCHANGED consent
    BY <1>1, <1>2 DEF lives, plans, rans, ends, Promise!vars
<1>3. CASE ~UNCHANGED consent
    <2>1. dialog \in Pending /\ consent' = consent \cup {dialog}
        BY <1>3 DEF Click, Resolvable
    <2>2. PICK t \in Turns : turn[t].at = "confirming" /\ dialog = Prompt(t)
        BY <2>1 DEF SessionInv, StatusTellsTruth, NoOrphanPrompt
    <2>3. /\ turn[t].plan \in Plans /\ turn[t].pos \in DOMAIN turn[t].plan
          /\ turn[t].ran = turn[t].pos - 1 /\ turn[t].finished = turn[t].pos - 1
          /\ turn[t].pos \in Nat
        BY <2>2 DEF SessionInv, RecordOK, PlaceFits, Unrun, Turn
    <2>4. Promise!Item(t) = turn[t].pos
        BY <2>3 DEF Promise!Item
    <2>5. dialog = <<t, turn[t].pos>>
        BY <2>2 DEF Prompt
    <2>6. Promise!Consent(t)
        BY <1>1, <2>1, <2>3, <2>4, <2>5 DEF lives, plans, rans, ends, Promise!Consent
    <2> QED
        BY <2>6 DEF Promise!Next
<1> QED
    BY <1>2, <1>3

\* A cancellation ends the life of the one turn that runs.
LEMMA CancelPromises ==
    ASSUME SessionInv, SessionInv',
           \/ \E t \in Turns : CancelCurrent(t)
           \/ \E byWindow \in BOOLEAN : Close(byWindow)
    PROVE  [Promise!Next]_(Promise!vars)
<1>0. turn \in [Turns -> Turn]
    BY DEF SessionInv, TypeOK
<1>1. ASSUME NEW t \in Turns, CancelCurrent(t) PROVE [Promise!Next]_(Promise!vars)
    <2>1. turn' = Cancelling(t) /\ UNCHANGED <<outer, consent>> /\ Active(t)
        BY <1>1 DEF CancelCurrent
    <2>2. /\ turn'[t].cancelling # "no" /\ turn'[t].at = turn[t].at
          /\ turn'[t].ran = turn[t].ran /\ turn'[t].plan = turn[t].plan
          /\ turn'[t].finished = turn[t].finished
          /\ \A u \in Turns \ {t} : turn'[u] = turn[u]
        BY <2>1, CancellingIs
    <2>3. SameWork(t)
        BY <2>2 DEF SameWork
    <2>4. \A u \in Turns \ {t} : Life(u)' = Life(u)
        BY <2>1, <2>2 DEF Life, Done
    <2>5. Life(t) \in {"live", "over"} /\ Life(t)' = "over"
        BY <2>1, <2>2 DEF Life, Active, Done, Told
    <2> QED
        BY <2>1, <2>3, <2>4, <2>5, EndsAtMost
<1>2. ASSUME NEW byWindow \in BOOLEAN, Close(byWindow) PROVE [Promise!Next]_(Promise!vars)
    <2>1. /\ turn' = [t \in Turns |-> IF Active(t) THEN Cancelling(t)[t] ELSE turn[t]]
          /\ outer' = [t \in Turns |-> IF byWindow /\ outer[t] = "waiting" /\ Done(t)
                                       THEN "interrupted" ELSE outer[t]]
          /\ UNCHANGED consent
        BY <1>2 DEF Close
    <2>2. ASSUME NEW u \in Turns
          PROVE  /\ turn'[u].at = turn[u].at /\ turn'[u].ran = turn[u].ran
                 /\ turn'[u].plan = turn[u].plan /\ turn'[u].finished = turn[u].finished
                 /\ ~Active(u) => Life(u)' = Life(u)
                 /\ Active(u) => Life(u) \in {"live", "over"} /\ Life(u)' = "over"
        <3>1. CASE Active(u)
            <4>1. /\ turn'[u] = Cancelling(u)[u] /\ outer'[u] = outer[u]
                BY <2>1, <3>1 DEF Active
            <4>2. turn'[u].cancelling # "no" /\ turn'[u].at = turn[u].at
                BY <4>1, CancellingIs
            <4>3. Life(u) \in {"live", "over"} /\ Life(u)' = "over"
                BY <3>1, <4>1, <4>2 DEF Life, Active, Done, Told
            <4> QED
                BY <3>1, <4>1, <4>3, CancellingIs
        <3>2. CASE ~Active(u)
            <4>1. /\ turn'[u] = turn[u]
                  /\ \/ outer'[u] = outer[u]
                     \/ Done(u) /\ outer[u] = "waiting" /\ outer'[u] = "interrupted"
                BY <2>1, <3>2
            <4>2. Life(u)' = Life(u)
                BY <4>1 DEF Life, Done, Told
            <4> QED
                BY <3>2, <4>1, <4>2
        <3> QED
            BY <3>1, <3>2
    <2>3. \A u \in Turns : SameWork(u)
        BY <2>2 DEF SameWork
    <2>4. CASE \E t \in Turns : Active(t)
        <3>1. PICK t \in Turns : Active(t)
            BY <2>4
        <3>2. \A u \in Turns \ {t} : ~Active(u)
            BY <3>1 DEF SessionInv, OneActive
        <3> QED
            BY <2>1, <2>2, <2>3, <3>1, <3>2, EndsAtMost
    <2>5. CASE \A t \in Turns : ~Active(t)
        <3>1. \A u \in Turns : Life(u)' = Life(u)
            BY <2>2, <2>5
        <3>2. lives' = lives /\ plans' = plans /\ rans' = rans /\ ends' = ends
            BY <2>2, <3>1 DEF lives, plans, rans, ends
        <3> QED
            BY <2>1, <3>2 DEF lives, plans, rans, ends, Promise!vars
    <2> QED
        BY <2>4, <2>5
<1> QED
    BY <1>1, <1>2

\* Timers, callbacks, the microphone, dialogs, plug-ins and windows promise nothing.
LEMMA AsidePromises ==
    ASSUME \/ UNCHANGED vars \/ Listen \/ HeardInVain \/ ListenFails
           \/ PromptTimer \/ PromptCallback
           \/ \E p \in Pending : ShowDialog(p)
           \/ PluginChange /\ UNCHANGED guiVars
           \/ \E w \in Windows : Activate(w) /\ UNCHANGED guiVars
    PROVE  UNCHANGED Promise!vars
<1>1. UNCHANGED <<turn, outer, consent>>
    BY DEF vars, pipelineVars, guiVars, Listen, HeardInVain, ListenFails, PromptTimer,
        PromptCallback, ShowDialog, PluginChange, Activate
<1>2. lives' = lives /\ plans' = plans /\ rans' = rans /\ ends' = ends
    BY <1>1 DEF lives, plans, rans, ends, Life, Done
<1> QED
    BY <1>1, <1>2 DEF lives, plans, rans, ends, Promise!vars

\* Where wait_for lets a cancellation win over an answer it has (Python 3.12 on), runtime,
\* broker and interface together keep the promise: nothing runs without the user's consent to
\* that very item, out of order, twice, after a failure or after a cancellation.
THEOREM TurnsImplemented ==
    ASSUME ~KeepsAnswer
    PROVE  Spec => TurnsAsPromised
<1>1. SessionInv /\ SessionInv' /\ CardInv /\ [Next]_vars => [Promise!Next]_(Promise!vars)
    <2> SUFFICES ASSUME SessionInv, SessionInv', CardInv, [Next]_vars
                 PROVE  [Promise!Next]_(Promise!vars)
        OBVIOUS
    <2>1. ASSUME NEW t \in Turns, SilentStep(t) \/ CardStep(t) \/ ExternalStep(t) \/ PromptStep(t)
          PROVE  [Promise!Next]_(Promise!vars)
        BY <2>1, CalmPromises, PromptPromises DEF PromptStep
    <2>2. ASSUME NEW t \in Turns, OuterReturn(t) PROVE [Promise!Next]_(Promise!vars)
        BY <2>2, ReturnPromises DEF Promise!Next
    <2>3. ASSUME NEW t \in Turns, NEW kind \in {"chat", "action"}, Accept(t, kind)
          PROVE  [Promise!Next]_(Promise!vars)
        BY <2>3, AcceptPromises DEF Promise!Next
    <2>4. ASSUME NEW t \in Turns, CancelCurrent(t) PROVE [Promise!Next]_(Promise!vars)
        BY <2>4, CancelPromises
    <2>5. ASSUME NEW byWindow \in BOOLEAN, Close(byWindow) PROVE [Promise!Next]_(Promise!vars)
        BY <2>5, CancelPromises
    <2>6. ASSUME NEW verdict \in {"allow", "deny"}, Click(verdict)
          PROVE  [Promise!Next]_(Promise!vars)
        BY <2>6, ClickPromises
    <2>7. CASE \/ UNCHANGED vars \/ Listen \/ HeardInVain \/ ListenFails
               \/ PromptTimer \/ PromptCallback
               \/ \E p \in Pending : ShowDialog(p)
               \/ PluginChange /\ UNCHANGED guiVars
               \/ \E w \in Windows : Activate(w) /\ UNCHANGED guiVars
        BY <2>7, AsidePromises
    <2> QED
        BY <2>1, <2>2, <2>3, <2>4, <2>5, <2>6, <2>7 DEF Next, LoopWork, LoopStep, Send, Heard
<1> QED
    BY CardInvariant, PromiseStarts, <1>1, PTL DEF Spec, TurnsAsPromised, Promise!Spec
=============================================================================
