----------------------------- MODULE RemoteWrites -----------------------------
(***************************************************************************)
(* What approved actions do to a mail server, a calendar and GitHub        *)
(* (src/jarvis/integrations).  The action of a turn                        *)
(* (integrations/actions.py) waits for a worker thread that talks to the   *)
(* server (smtp_provider.py, caldav_provider.py, transport.py).  A turn    *)
(* that is cancelled or times out stops waiting, the thread goes on; a     *)
(* server may do what it was asked and its answer be lost; another client  *)
(* changes the calendar at any time; an integration disconnects at any     *)
(* time (base.py).                                                         *)
(*                                                                         *)
(* Calls are made one after the other.  A call that is refused before it   *)
(* reaches a thread changes nothing and is left out.                       *)
(***************************************************************************)
EXTENDS Integers, FiniteSets

CONSTANTS
    Drafts,         \* ids of e-mail drafts
    Events,         \* ids of calendar events
    Titles, Times,  \* of an event
    Absent,
    Setups,         \* which integrations may be registered together
    MaxRemote,      \* BOUND: calls
    MaxOthers,      \* BOUND: changes by other clients
    MaxLinks        \* BOUND: connects, disconnects and closes

Services == {"mail", "calendar", "github"}
Contents == [title : Titles, start : Times]
Approvals == [title : Titles, start : Times \cup {Absent}]
Changes == {"update", "delete"}
Writes == {"send", "create", "issue"} \cup Changes
CallNumbers == 1 .. MaxRemote

ASSUME RemoteConstants == MaxRemote \in Nat

VARIABLES
    registered, \* integrations of the registry
    link,       \* IntegrationStatus of each integration
    held,       \* integrations that have _password, _calendar or _client
    links,
    drafts,     \* _drafts of the mail provider; a draft's contents never change
    sentDrafts, \* _sent
    calendar,   \* what the calendar server has
    others,
    remote,     \* the calls so far and what their threads do
    began       \* how many there are

remoteVars == <<registered, link, held, links, drafts, sentDrafts, calendar, others, remote, began>>
linkVars == <<registered, link, held, links>>
mailVars == <<drafts, sentDrafts>>
calendarVars == <<calendar, others>>

\* `wanted` and `new` are what was approved, `saw` what the call's first thread has read.
\* History: `hit`, the server has done it, or found it done; `agreed`, the event was the
\* approved one at some moment from the begin of the call to its comparison.
NotCalled == [op |-> "none", item |-> Absent, wanted |-> Absent, new |-> Absent,
              thread |-> "none", answer |-> "none", saw |-> Absent, hit |-> FALSE, agreed |-> FALSE]

Free == \A i \in CallNumbers : remote[i].answer # "waiting"
Service(call) == IF call.op = "look" THEN call.item
                 ELSE IF call.op = "send" THEN "mail"
                 ELSE IF call.op = "issue" THEN "github" ELSE "calendar"

NothingCalled ==
    /\ registered \in Setups
    /\ link = [s \in Services |-> "disconnected"] /\ held = {} /\ links = 0
    /\ drafts = {} /\ sentDrafts = {}
    /\ others = 0
    /\ remote = [i \in CallNumbers |-> NotCalled] /\ began = 0

RemoteInit == NothingCalled /\ calendar \in [Events -> Contents]

----------------------------------------------------------------------------
(* StatefulIntegration: connect, disconnect and close take turns.          *)

Connecting(s) ==
    /\ s \in registered
    /\ link[s] \in {"disconnected", "failed"} /\ links < MaxLinks
    /\ links' = links + 1
    /\ UNCHANGED <<registered, mailVars, calendarVars, remote, began>>

\* The password is kept before the servers are asked whether they accept it.
ConnectMail ==
    /\ Connecting("mail")
    /\ \/ link' = [link EXCEPT !["mail"] = "connecting"] /\ held' = held \cup {"mail"}
       \/ link' = [link EXCEPT !["mail"] = "failed"] /\ UNCHANGED held

ConnectGitHub ==
    /\ Connecting("github")
    /\ link' \in {[link EXCEPT !["github"] = to] : to \in {"connecting", "failed"}}
    /\ UNCHANGED held

\* The calendar connects without an await.
ConnectCalendar ==
    /\ Connecting("calendar")
    /\ \/ link' = [link EXCEPT !["calendar"] = "connected"] /\ held' = held \cup {"calendar"}
       \/ link' = [link EXCEPT !["calendar"] = "failed"] /\ UNCHANGED held

\* IMAP, then SMTP logged in; or GitHub told whose token it is.
Verified(s) ==
    /\ link[s] = "connecting"
    /\ link' = [link EXCEPT ![s] = "connected"]
    /\ held' = held \cup {s}
    /\ UNCHANGED <<registered, links, mailVars, calendarVars, remote, began>>

\* What the attempt has kept stays.
NotVerified(s) ==
    /\ link[s] = "connecting"
    /\ link' = [link EXCEPT ![s] = "failed"]
    /\ UNCHANGED <<registered, held, links, mailVars, calendarVars, remote, began>>

DisconnectLink(s) ==
    /\ link[s] \in {"connected", "failed"} /\ links < MaxLinks
    /\ links' = links + 1
    /\ link' = [link EXCEPT ![s] = "disconnected"]
    /\ held' = held \ {s}
    /\ UNCHANGED <<registered, mailVars, calendarVars, remote, began>>

\* IntegrationRegistry.close closes one after the other; a connect that runs is waited for.
CloseLink(s) ==
    /\ s \in registered
    /\ link[s] \in {"connected", "failed", "disconnected"} /\ links < MaxLinks
    /\ links' = links + 1
    /\ link' = [link EXCEPT ![s] = "closed"]
    /\ held' = held \ {s}
    /\ UNCHANGED <<registered, mailVars, calendarVars, remote, began>>

----------------------------------------------------------------------------
(* The actions, up to their first thread.                                  *)

Begin(call) ==
    /\ Free /\ began < MaxRemote
    /\ began' = began + 1
    /\ remote' = [remote EXCEPT ![began + 1] = call]
    /\ UNCHANGED <<linkVars, calendarVars>>

\* Nothing is awaited; an id is new (uuid4).
CreateDraft(d) ==
    /\ Free /\ link["mail"] = "connected"
    /\ d \notin drafts
    /\ drafts' = drafts \cup {d}
    /\ UNCHANGED <<linkVars, sentDrafts, calendarVars, remote, began>>

\* A draft that was sent is not sent again.
SendAgain(d) ==
    /\ link["mail"] = "connected"
    /\ d \in drafts \cap sentDrafts
    /\ Begin([NotCalled EXCEPT !.op = "send", !.item = d, !.thread = "over",
                               !.answer = "success"])
    /\ UNCHANGED mailVars

\* Variant: _sent is not looked at.
SendBlindly(d) ==
    /\ link["mail"] = "connected"
    /\ d \in drafts
    /\ Begin([NotCalled EXCEPT !.op = "send", !.item = d, !.thread = "starting",
                               !.answer = "waiting"])
    /\ UNCHANGED mailVars

\* The draft is the confirmed one and was not sent.
Send(d) ==
    /\ link["mail"] = "connected"
    /\ d \in drafts \ sentDrafts
    /\ Begin([NotCalled EXCEPT !.op = "send", !.item = d, !.thread = "starting",
                               !.answer = "waiting"])
    /\ UNCHANGED mailVars

CreateEvent ==
    /\ link["calendar"] = "connected"
    /\ Begin([NotCalled EXCEPT !.op = "create", !.thread = "starting", !.answer = "waiting"])
    /\ UNCHANGED mailVars

CreateIssue ==
    /\ "github" \in held
    /\ Begin([NotCalled EXCEPT !.op = "issue", !.thread = "starting", !.answer = "waiting"])
    /\ UNCHANGED mailVars

Looking(s) ==
    /\ Begin([NotCalled EXCEPT !.op = "look", !.item = s, !.thread = "starting",
                               !.answer = "waiting"])
    /\ UNCHANGED mailVars

\* Lists, searches and reads.  GitHub's actions ask for the client, not for the status.
LookAtGitHub == "github" \in held /\ Looking("github")
LookAtMail == link["mail"] = "connected" /\ Looking("mail")
LookAtCalendar == link["calendar"] = "connected" /\ Looking("calendar")

Agrees(op, wanted, c) ==
    c # Absent /\ c.title = wanted.title /\ (op = "delete" => c.start = wanted.start)

\* Approved for an event with these contents; the event is read first.
Change(op, e, wanted, new) ==
    /\ link["calendar"] = "connected"
    /\ Begin([NotCalled EXCEPT !.op = op, !.item = e, !.wanted = wanted, !.new = new,
                               !.thread = "reading", !.answer = "waiting",
                               !.agreed = Agrees(op, wanted, calendar[e])])
    /\ UNCHANGED mailVars

UpdateEvent(e, title, new) == Change("update", e, [title |-> title, start |-> Absent], new)
DeleteEvent(e, wanted) == Change("delete", e, wanted, Absent)

----------------------------------------------------------------------------
(* The threads, which read their session (_secret, _connected_calendar)    *)
(* when they get there.                                                    *)

Thread(i, stage) == remote' = [remote EXCEPT ![i].thread = stage]
Over(call) == [call EXCEPT !.thread = "over", !.wanted = Absent, !.new = Absent, !.saw = Absent]

ThreadReads(i) ==
    /\ remote[i].thread = "reading"
    /\ "calendar" \in held /\ calendar[remote[i].item] # Absent
    /\ remote' = [remote EXCEPT ![i].thread = "read", ![i].saw = calendar[remote[i].item]]
    /\ UNCHANGED <<linkVars, mailVars, calendarVars, began>>

Starts(i) ==
    /\ remote[i].thread = "starting"
    /\ Thread(i, "started")
    /\ UNCHANGED <<linkVars, mailVars, calendarVars, began>>

\* A new connection has logged in with the password.
LogsIn(i) ==
    /\ Service(remote[i]) = "mail" /\ "mail" \in held
    /\ Starts(i)

\* The calendar is there; a change has loaded its event once more.
OpensCalendar(i) ==
    /\ Service(remote[i]) = "calendar" /\ "calendar" \in held
    /\ remote[i].op \in Changes => calendar[remote[i].item] # Absent
    /\ Starts(i)

\* The request carries its token.
Requests(i) ==
    /\ Service(remote[i]) = "github"
    /\ Starts(i)

\* The event of call j, whose comparison is still to come, becomes c.
AgreesNow(j, e, c) ==
    /\ remote[j].item = e /\ remote[j].op \in Changes
    /\ remote[j].thread \in {"reading", "read"}
    /\ Agrees(remote[j].op, remote[j].wanted, c)

\* The server has done it; its answer arrives, or is lost, too long or not understood.
Replies == {"done", "broken"}

\* Event e becomes c by call i, or by another client (0).
Becomes(e, c, i, outcome) ==
    /\ calendar' = [calendar EXCEPT ![e] = c]
    /\ remote' = [j \in CallNumbers |->
                   [remote[j] EXCEPT
                       !.hit = (j = i) \/ @,
                       !.thread = IF j = i THEN outcome ELSE @,
                       !.agreed = @ \/ (j # i /\ AgreesNow(j, e, c))]]

Shows(i, s) ==
    /\ remote[i].thread = "started" /\ remote[i].op = "look" /\ remote[i].item = s
    /\ Thread(i, "done")
    /\ UNCHANGED <<linkVars, mailVars, calendarVars, began>>

ShowsMail(i) == Shows(i, "mail")
ShowsEvents(i) == Shows(i, "calendar")
ShowsRepository(i) == Shows(i, "github")

Takes(i, op) ==
    /\ remote[i].thread = "started" /\ remote[i].op = op
    /\ \E outcome \in Replies :
          remote' = [remote EXCEPT ![i].hit = TRUE, ![i].thread = outcome]
    /\ UNCHANGED <<linkVars, mailVars, calendarVars, began>>

AcceptsMail(i) == Takes(i, "send")
AddsEvent(i) == Takes(i, "create")
AddsIssue(i) == Takes(i, "issue")

\* An event that has gone meanwhile may be put back.
ServerUpdates(i) ==
    /\ remote[i].thread = "started" /\ remote[i].op = "update"
    /\ \E outcome \in Replies : Becomes(remote[i].item, remote[i].new, i, outcome)
    /\ UNCHANGED <<linkVars, mailVars, others, began>>

\* The library takes it for a success, too, when the server no longer knows the event (404).
ServerDeletes(i) ==
    /\ remote[i].thread = "started" /\ remote[i].op = "delete"
    /\ \E outcome \in Replies : Becomes(remote[i].item, Absent, i, outcome)
    /\ UNCHANGED <<linkVars, mailVars, others, began>>

\* No session, no event, no connection, refused: nothing was done.
ThreadFails(i) ==
    /\ remote[i].thread \in {"reading", "starting", "started"}
    /\ Thread(i, "broken")
    /\ UNCHANGED <<linkVars, mailVars, calendarVars, began>>

OtherClient(e) ==
    /\ others < MaxOthers
    /\ others' = others + 1
    /\ \E c \in Contents \cup {Absent} :
          /\ c # calendar[e]
          /\ Becomes(e, c, 0, "none")
    /\ UNCHANGED <<linkVars, mailVars, began>>

----------------------------------------------------------------------------
(* The actions, from their threads' results on.                            *)

\* Variant: the event is only looked up.
MatchesAny(op, wanted, c) == c # Absent

\* What was read is what was approved: a delete compares title and start, an update the title.
Matches(op, wanted, c) ==
    /\ c # Absent
    /\ c.title = wanted.title
    /\ op = "delete" => c.start = wanted.start

Confirmed(i) ==
    /\ remote[i].answer = "waiting" /\ remote[i].thread = "read"
    /\ Matches(remote[i].op, remote[i].wanted, remote[i].saw)
    /\ link["calendar"] = "connected"
    /\ remote' = [remote EXCEPT ![i].thread = "starting", ![i].wanted = Absent, ![i].saw = Absent]
    /\ UNCHANGED <<linkVars, mailVars, calendarVars, began>>

\* Variant: an answer that is lost counts as one.
SucceedsUnheard(i) ==
    /\ remote[i].answer = "waiting" /\ remote[i].thread \in {"done", "broken"}
    /\ remote' = [remote EXCEPT ![i] = [Over(@) EXCEPT !.answer = "success"]]
    /\ sentDrafts' = IF remote[i].op = "send" THEN sentDrafts \cup {remote[i].item} ELSE sentDrafts
    /\ UNCHANGED <<linkVars, drafts, calendarVars, began>>

CallSucceeds(i) ==
    /\ remote[i].answer = "waiting" /\ remote[i].thread = "done"
    /\ remote' = [remote EXCEPT ![i] = [Over(@) EXCEPT !.answer = "success"]]
    /\ sentDrafts' = IF remote[i].op = "send" THEN sentDrafts \cup {remote[i].item} ELSE sentDrafts
    /\ UNCHANGED <<linkVars, drafts, calendarVars, began>>

\* The thread raised, what it read does not match, or the turn was cancelled or timed out:
\* then the thread goes on unless it has not begun.  Nobody takes what a thread left behind
\* reads before a comparison: that one is over.
CallFails(i) ==
    /\ remote[i].answer = "waiting"
    /\ \/ /\ remote[i].thread \in {"starting", "started"}
          /\ remote' = [remote EXCEPT ![i].answer = "failure"]
       \/ /\ remote[i].thread # "started"
          /\ remote' = [remote EXCEPT ![i] = [Over(@) EXCEPT !.answer = "failure"]]
    /\ UNCHANGED <<linkVars, mailVars, calendarVars, began>>

----------------------------------------------------------------------------
RemoteNext ==
    \/ ConnectMail \/ ConnectGitHub \/ ConnectCalendar
    \/ \E s \in Services : Verified(s) \/ NotVerified(s) \/ DisconnectLink(s) \/ CloseLink(s)
    \/ \E d \in Drafts : CreateDraft(d) \/ SendAgain(d) \/ Send(d)
    \/ CreateEvent \/ CreateIssue \/ LookAtGitHub \/ LookAtMail \/ LookAtCalendar
    \/ \E e \in Events : \/ \E title \in Titles, new \in Contents : UpdateEvent(e, title, new)
                         \/ \E wanted \in Contents : DeleteEvent(e, wanted)
                         \/ OtherClient(e)
    \/ \E i \in CallNumbers :
          \/ ThreadReads(i) \/ LogsIn(i) \/ OpensCalendar(i) \/ Requests(i)
          \/ ShowsMail(i) \/ ShowsEvents(i) \/ ShowsRepository(i)
          \/ AcceptsMail(i) \/ AddsEvent(i) \/ AddsIssue(i)
          \/ ServerUpdates(i) \/ ServerDeletes(i) \/ ThreadFails(i)
          \/ Confirmed(i) \/ CallSucceeds(i) \/ CallFails(i)

RemoteSpec == RemoteInit /\ [][RemoteNext]_remoteVars

----------------------------------------------------------------------------
(* Properties.                                                             *)

ThreadStages == {"none", "reading", "read", "starting", "started", "done", "broken", "over"}

RemoteTypeOK ==
    /\ link \in [Services -> {"disconnected", "connecting", "connected", "failed", "closed"}]
    /\ held \subseteq Services /\ drafts \subseteq Drafts /\ sentDrafts \subseteq Drafts
    /\ calendar \in [Events -> Contents \cup {Absent}]
    /\ began \in 0 .. MaxRemote
    /\ remote \in [CallNumbers ->
           [op : Writes \cup {"none", "look"}, item : Drafts \cup Events \cup Services \cup {Absent},
            wanted : Approvals \cup {Absent}, new : Contents \cup {Absent}, thread : ThreadStages,
            answer : {"none", "waiting", "success", "failure"},
            saw : Contents \cup {Absent}, hit : BOOLEAN, agreed : BOOLEAN]]

Sent(i) == remote[i].op = "send" /\ remote[i].hit

\* Success is never claimed of what the server has not done or found done, and the server does a thing at
\* most once for an approval; a draft goes out a second time only after a send of it was
\* reported as failed, although that one's thread may still be on its way.
RepeatsWereAnnounced ==
    /\ \A i \in CallNumbers :
          remote[i].answer = "success" /\ remote[i].op \in Writes
            => \/ remote[i].hit
               \/ /\ remote[i].op = "send"
                  /\ \E j \in 1 .. (i - 1) : Sent(j) /\ remote[j].item = remote[i].item
    /\ \A i, j \in CallNumbers :
          i < j /\ Sent(i) /\ Sent(j) /\ remote[i].item = remote[j].item
            => remote[i].answer = "failure"

\* An event is deleted or updated only if, at some moment from the begin of the call that does
\* it to its comparison, it was the event the user approved; whatever other clients and threads left behind did meanwhile.
ChangesWereConfirmed ==
    \A i \in CallNumbers :
        remote[i].op \in Changes /\ remote[i].hit
          => remote[i].agreed

\* A read has no effect of its own: it is done when it is answered.
CallEffect(call) ==
    IF call.thread = "none" THEN "none"
    ELSE IF call.hit \/ call.answer = "success" THEN "done"
    ELSE IF call.thread \in {"broken", "over"} THEN "over"
    ELSE "possible"

CallMatters == [i \in CallNumbers |-> <<remote[i].op, remote[i].item>>]
CallEffects == [i \in CallNumbers |-> CallEffect(remote[i])]
CallAnswers == [i \in CallNumbers |-> remote[i].answer]

\* docs/permissions.md:114-116: cancellation is not rollback.  The server does a thing at most
\* once for each call, maybe after the call was reported as failed, never after that of a call
\* whose thread has ended; success is answered of what was done, by this call or, for a draft
\* that was sent, by an earlier one.
RemotePromise == INSTANCE CallPromise WITH
    Calls <- CallNumbers, Nothing <- <<NotCalled.op, NotCalled.item>>,
    Matters <- (Writes \cup {"look"}) \X (Drafts \cup Events \cup Services \cup {Absent}),
    matter <- CallMatters, effect <- CallEffects, answer <- CallAnswers,
    world <- {i \in CallNumbers : remote[i].hit}

RemoteCallsAsPromised == RemotePromise!Spec
=============================================================================
