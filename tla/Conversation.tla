---------------------------- MODULE Conversation ----------------------------
(***************************************************************************)
(* The history a language model is shown (src/jarvis/ai/models.py) and the *)
(* turns that write it (JarvisRuntime._process_with_ai in                  *)
(* src/jarvis/core/runtime.py).  A turn asks the model with the tools, may *)
(* carry out the calls it answers with, and then asks it, without tools,   *)
(* to sum up.  The list of messages is bounded in number, and what is sent *)
(* of it in characters; both cut it between groups, a group being an       *)
(* assistant's calls with the results that follow them.                    *)
(*                                                                         *)
(* The list is a set of numbered messages: numbers give the order, and a   *)
(* message that is removed leaves the others as they are.                  *)
(***************************************************************************)
EXTENDS Integers, Sequences, FiniteSetsExt

CONSTANTS
    CallIds,        \* the ids a model gives its calls, again and again
    MaxMessages,    \* Conversation.max_messages
    Room,           \* characters the system prompt leaves of max_characters
    MaxActions,     \* JarvisRuntime.max_actions_per_turn
    MaxCommand,     \* _MAX_USER_COMMAND_CHARACTERS
    MaxResult, MaxResults, MinResult,   \* characters of a result, of a turn's
                                        \* results, and those any result may have
    Skipped,        \* characters of a result that says "skipped"
    Answers,        \* BOUND: the sequences of calls a model answers with
    Lengths,        \* BOUND: the lengths of messages
    MaxTurns,       \* BOUND: turns of a session
    NoId

ASSUME ConversationConstants ==
    /\ MaxMessages \in Nat /\ Room \in Nat /\ MaxActions \in Nat
    /\ MaxCommand \in Nat /\ MaxResult \in Nat /\ MaxResults \in Nat
    /\ MinResult \in Nat /\ Skipped \in Nat
    /\ MaxActions < MaxMessages         \* 8 and 40
    /\ MaxCommand <= Room               \* 16 000 of about 127 000
    /\ Skipped <= MinResult
    /\ Answers \subseteq Seq(CallIds)
    /\ Lengths \subseteq Nat \ {0}
    /\ MaxTurns \in Nat
    /\ NoId \notin CallIds

VARIABLES
    history,    \* Conversation._messages
    fresh,      \* the number of the next message
    turn,       \* how many turns were asked of the model; the last one is current
    stage,      \* the await at which the current turn is suspended
    calls,      \* the calls of the model's answer
    wordy,      \* the length of that answer
    sent,       \* the last request to the model
    interrupted \* history: turns cancelled while their calls were carried out

conversationVars ==
    <<history, fresh, turn, stage, calls, wordy, sent, interrupted>>

Turns == 1 .. MaxTurns
Stages == {"idle", "selecting", "answered", "acting", "following"}

Message ==
    [no : Nat, role : {"user", "assistant", "tool"}, turn : Turns, length : Nat,
     calls : SUBSET CallIds,            \* of an assistant's message
     id : CallIds \cup {NoId}]          \* of a result, the call it answers

Said(n, role, t, length) ==
    [no |-> n, role |-> role, turn |-> t, length |-> length, calls |-> {}, id |-> NoId]

Request == [tools : BOOLEAN, messages : SUBSET Message]

IsCall(m) == m.calls # {}
IsResult(m) == m.role = "tool"

----------------------------------------------------------------------------
(* Groups and the two bounds.                                              *)

\* c is a message with calls, and everything from c to m is a result of one.
Owns(h, c, m) ==
    /\ IsCall(c)
    /\ c.no < m.no
    /\ \A k \in h : c.no < k.no /\ k.no <= m.no => IsResult(k) /\ k.id \in c.calls

\* _message_groups: the messages that begin a group.
Heads(h) == {m \in h : \A c \in h : ~Owns(h, c, m)}

From(h, m) == {k \in h : k.no >= m.no}

\* The ends of the list that consist of whole groups.
Ends(h) == {From(h, m) : m \in Heads(h)}

Characters(h) == MapThenSumSet(LAMBDA m : m.length, h)

\* append and extend: first groups go while there are too many messages.  The
\* ends are nested, so their union is the longest of them.  A group has at most
\* 1 + MaxActions messages, so the group that is being written stays.
Trimmed(h) == UNION {e \in Ends(h) : Cardinality(e) <= MaxMessages}

\* Variant: what is sent is cut at the bound, wherever that is.
CutAnywhere(h) == UNION {e \in {From(h, m) : m \in h} : Characters(e) <= Room}

\* Conversation.messages: the last groups that fit in the characters.
Window(h) == UNION {e \in Ends(h) : Characters(e) <= Room}

\* Variant: the results go, the calls stay.
DiscardedResults(h, ids) == {m \in h : ~(IsResult(m) /\ m.id \in ids)}

\* discard_tool_exchange
Discarded(h, ids) ==
    {m \in h : /\ ~(IsResult(m) /\ m.id \in ids)
               /\ ~(m.role = "assistant" /\ m.calls \cap ids # {})}

----------------------------------------------------------------------------
(* _process_with_ai.                                                       *)

ConversationInit ==
    /\ history = {}
    /\ fresh = 0
    /\ turn = 0
    /\ stage = "idle"
    /\ calls = <<>>
    /\ wordy = 0
    /\ sent = [tools |-> FALSE, messages |-> {}]
    /\ interrupted = {}

\* The command is appended, and the model asked with the tools.
Ask ==
    /\ stage = "idle"
    /\ turn < MaxTurns
    /\ \E length \in Lengths :
          /\ length <= MaxCommand
          /\ history' = Trimmed(history \cup {Said(fresh, "user", turn + 1, length)})
    /\ fresh' = fresh + 1
    /\ turn' = turn + 1
    /\ stage' = "selecting"
    /\ sent' = [tools |-> TRUE, messages |-> Window(history')]
    /\ UNCHANGED <<calls, wordy, interrupted>>

\* LLMProviderError: the runtime goes on without the model.
NoAnswer ==
    /\ stage = "selecting"
    /\ stage' = "idle"
    /\ UNCHANGED <<history, fresh, turn, calls, wordy, sent, interrupted>>

\* The answer, checked by _parse_response; AI_RESPONSE is published.
Answer ==
    /\ stage = "selecting"
    /\ calls' \in Answers
    /\ wordy' \in Lengths
    /\ stage' = "answered"
    /\ UNCHANGED <<history, fresh, turn, sent, interrupted>>

Feasible(plan) == plan # <<>> /\ Len(plan) <= MaxActions

\* No calls, or too many of them: the turn ends with what it says.
Conclude ==
    /\ stage = "answered"
    /\ ~Feasible(calls)
    /\ \E length \in Lengths :
          /\ calls = <<>> => length = wordy
          /\ history' = Trimmed(history \cup {Said(fresh, "assistant", turn, length)})
    /\ fresh' = fresh + 1
    /\ stage' = "idle"
    /\ UNCHANGED <<turn, calls, wordy, sent, interrupted>>

\* The calls are appended and execute_requests begins.
Act ==
    /\ stage = "answered"
    /\ Feasible(calls)
    /\ history' = Trimmed(history \cup
          {[Said(fresh, "assistant", turn, wordy) EXCEPT !.calls = Range(calls)]})
    /\ fresh' = fresh + 1
    /\ stage' = "acting"
    /\ UNCHANGED <<turn, calls, wordy, sent, interrupted>>

\* _tool_message_content: what a result may have of the turn's budget.
WithinBudget(lengths, i) ==
    LET spent == MapThenSumSet(LAMBDA j : lengths[j], 1 .. i - 1)
    IN  lengths[i] <= Min({MaxResult, Max({MinResult, MaxResults - spent})})

\* Variant: calls that were not reached get no result.
ResultsOf(n, lengths) ==
    {[Said(fresh + i - 1, "tool", turn, lengths[i]) EXCEPT !.id = calls[i]] : i \in 1 .. n}

\* A result for every call: those of the n actions that ran, and "skipped".
Results(n, lengths) ==
    {[Said(fresh + i - 1, "tool", turn, IF i <= n THEN lengths[i] ELSE Skipped)
        EXCEPT !.id = calls[i]] : i \in 1 .. Len(calls)}

\* execute_requests returns: all the results are appended, and the model is
\* asked, without tools, to sum up.
Report ==
    /\ stage = "acting"
    /\ \E n \in 1 .. Len(calls) : \E lengths \in [1 .. n -> Lengths] :
          /\ \A i \in 1 .. n : WithinBudget(lengths, i)
          /\ history' = Trimmed(history \cup Results(n, lengths))
    /\ fresh' = fresh + Len(calls)
    /\ stage' = "following"
    /\ sent' = [tools |-> FALSE, messages |-> Window(history')]
    /\ UNCHANGED <<turn, calls, wordy, interrupted>>

\* The summary arrives, or LLMProviderError does: the exchange is discarded and
\* the message to the user appended.
Summarise ==
    /\ stage = "following"
    /\ \E length \in Lengths :
          history' = Trimmed(Discarded(history, Range(calls))
                                \cup {Said(fresh, "assistant", turn, length)})
    /\ fresh' = fresh + 1
    /\ stage' = "idle"
    /\ UNCHANGED <<turn, calls, wordy, sent, interrupted>>

\* Variant: a turn that is cancelled leaves everything as it is.
BreakOff ==
    /\ stage # "idle"
    /\ stage' = "idle"
    /\ interrupted' = IF stage = "acting" THEN interrupted \cup {turn} ELSE interrupted
    /\ UNCHANGED <<history, fresh, turn, calls, wordy, sent>>

\* The turn is cancelled, or ends with an exception that is not caught; only the
\* summary has a finally block.
Interrupt ==
    /\ stage # "idle"
    /\ stage' = "idle"
    /\ history' = IF stage = "following" THEN Discarded(history, Range(calls)) ELSE history
    /\ interrupted' = IF stage = "acting" THEN interrupted \cup {turn} ELSE interrupted
    /\ UNCHANGED <<fresh, turn, calls, wordy, sent>>

ConversationNext ==
    Ask \/ NoAnswer \/ Answer \/ Conclude \/ Act \/ Report \/ Summarise \/ Interrupt

ConversationSpec == ConversationInit /\ [][ConversationNext]_conversationVars

----------------------------------------------------------------------------
(* Properties.                                                             *)

ConversationTypeOK ==
    /\ history \subseteq Message
    /\ fresh \in Nat
    /\ turn \in 0 .. MaxTurns
    /\ stage \in Stages
    /\ calls \in Answers \cup {<<>>}
    /\ wordy \in Nat
    /\ sent \in Request
    /\ interrupted \subseteq Turns

\* What a tool returned is gone when the model is next asked to choose tools:
\* neither the results nor the calls of an earlier turn are in that request,
\* whatever happened to that turn, except the calls of a turn that was cancelled
\* while it carried them out.  (The comment at core/runtime.py:387-389.)
ExchangesForgotten ==
    sent.tools => \A m \in sent.messages :
                     /\ ~IsResult(m)
                     /\ IsCall(m) => m.turn \in interrupted

ResultsHaveCalls ==
    \A m \in sent.messages :
       IsResult(m) => \E c \in sent.messages : Owns(sent.messages, c, m)

CommandIsLast ==
    stage = "selecting" =>
       \E m \in sent.messages :
          m.role = "user" /\ m.turn = turn /\ \A k \in sent.messages : k.no <= m.no

CallsAreAnswered ==
    stage = "following" /\ wordy + MaxResults + Len(calls) * MinResult <= Room =>
       \E c \in sent.messages :
          /\ c.turn = turn /\ c.calls = Range(calls)
          /\ \A id \in c.calls : \E m \in sent.messages :
                m.id = id /\ Owns(sent.messages, c, m)

\* Every request can be answered.  Bounding the history never separates a result
\* from its call; the command is the last message of the request that chooses
\* tools; and in the request for a summary each call has its result, also when the
\* plan stopped half way, unless the calls themselves leave no room for them.
RequestsComplete == ResultsHaveCalls /\ CommandIsLast /\ CallsAreAnswered

\* ai/models.py:113: an assistant's calls are grouped "with every required tool
\* response", so a request shows calls only together with a response to each (the
\* "complete tool-call envelope" of core/runtime.py:376).
EnvelopesComplete ==
    \A c \in sent.messages : \A id \in c.calls : \E m \in sent.messages :
       m.id = id /\ Owns(sent.messages, c, m)
=============================================================================
