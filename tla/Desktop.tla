-------------------------------- MODULE Desktop --------------------------------
(***************************************************************************)
(* What the program does to the desktop: applications, windows and         *)
(* pictures of the screen (src/jarvis/actions.py over computer/ and        *)
(* vision/).  Calls are made one after the other.  Each runs in a worker   *)
(* thread, which goes on when its call is cancelled or times out; an       *)
(* analysis of the screen takes its picture in the event loop, where       *)
(* nothing cuts it off, and waits for the provider.  Meanwhile the user    *)
(* starts and ends processes and windows change their titles, and the      *)
(* program may be killed at any moment.                                    *)
(***************************************************************************)
EXTENDS Naturals

CONSTANTS
    Applications,   \* the trusted catalogue
    Processes,      \* processes that may exist; an identifier given out again is another one
    RunsAs,         \* the application whose executable a process runs
    ImageName,      \* what a process of an application is called
    Handles,        \* windows
    Captions,       \* titles windows may have
    NoWindow,       \* instead of a title: the window is not there, hidden or untitled
    MaxDesk,        \* BOUND: calls
    MaxTurmoil      \* BOUND: processes that start or end by themselves and titles that change

ASSUME DeskConstants == MaxDesk \in Nat /\ MaxTurmoil \in Nat

DeskNumbers == 1 .. MaxDesk

VARIABLES
    process,        \* "unborn", "alive" or "gone"
    title,          \* of each window
    pictures,       \* the file a call has made: "none", "begun", "png", or "stuck"
    desk,           \* the calls so far and what their threads do
    tasked,          \* how many there are
    killed,         \* whether the program was killed
    turmoil         \* what happened to processes and windows by itself

desktopVars == <<process, title, pictures, desk, tasked, killed, turmoil>>

\* A file that is begun is empty, or has a part or all of its picture; one that is stuck could
\* not be removed.
\* todo: the processes still to be ended, or the windows whose titles are still to be read.
\* hit: those ended, or those that matched.  History: `meant`, the processes of the
\* application when they were listed, or the windows that had the title during the call.
NotAsked == [op |-> "none", item |-> NoWindow, thread |-> "none", answer |-> "none",
             todo |-> {}, hit |-> {}, meant |-> {}]

Alive == {p \in Processes : process[p] = "alive"}
Titled(t) == {w \in Handles : title[w] = t}

DesktopAtRest ==
    /\ process = [p \in Processes |-> "unborn"] /\ title = [w \in Handles |-> NoWindow]
    /\ pictures = [i \in DeskNumbers |-> "none"]
    /\ desk = [i \in DeskNumbers |-> NotAsked] /\ tasked = 0 /\ killed = FALSE /\ turmoil = 0

DesktopInit ==
    /\ process \in [Processes -> {"unborn", "alive"}]
    /\ title \in [Handles -> Captions \cup {NoWindow}]
    /\ pictures = [i \in DeskNumbers |-> "none"]
    /\ desk = [i \in DeskNumbers |-> NotAsked] /\ tasked = 0 /\ killed = FALSE /\ turmoil = 0

----------------------------------------------------------------------------
(* The calls.                                                              *)

Ask(call) ==
    /\ tasked < MaxDesk /\ ~killed
    /\ \A i \in DeskNumbers : desk[i].answer # "waiting"
    /\ tasked' = tasked + 1
    /\ desk' = [desk EXCEPT ![tasked + 1] = call]
    /\ UNCHANGED <<process, title, killed, turmoil>>

Queued(op, item) == [NotAsked EXCEPT !.op = op, !.item = item, !.thread = "queued",
                                     !.answer = "waiting"]

OpenApplication(a) == Ask(Queued("open", a)) /\ UNCHANGED pictures
CloseApplication(a) == Ask(Queued("close", a)) /\ UNCHANGED pictures
FocusWindow(t) == Ask([Queued("focus", t) EXCEPT !.meant = Titled(t)]) /\ UNCHANGED pictures
\* take_screenshot, capture_active_window.
TakeScreenshot == Ask(Queued("capture", NoWindow)) /\ UNCHANGED pictures
\* find_running_application, list_running_applications, get_active_window, list_visible_windows.
Look == Ask(Queued("look", NoWindow)) /\ UNCHANGED pictures

AnalyzeScreen == Ask(Queued("analyze", NoWindow)) /\ UNCHANGED pictures

----------------------------------------------------------------------------
(* The threads.                                                            *)

Acts(i, op, stage) == desk[i].op = op /\ desk[i].thread = stage
Goes(i, fields) == desk' = [desk EXCEPT ![i] = fields]

Opens(i) ==
    /\ Acts(i, "open", "queued")
    /\ \E p \in Processes :
          /\ process[p] = "unborn" /\ RunsAs[p] = desk[i].item
          /\ process' = [process EXCEPT ![p] = "alive"]
    /\ Goes(i, [desk[i] EXCEPT !.thread = "done"])
    /\ UNCHANGED <<title, pictures, tasked, killed, turmoil>>

\* close(): the processes are listed once, then ended one by one.
Listed(i, found) ==
    /\ Acts(i, "close", "queued")
    /\ Goes(i, [desk[i] EXCEPT !.todo = found,
                               !.meant = {p \in Alive : RunsAs[p] = desk[i].item},
                               !.thread = IF found = {} THEN "done" ELSE "acting"])
    /\ UNCHANGED <<process, title, pictures, tasked, killed, turmoil>>

\* Variant: processes are matched by their names, not by their executables.
ListsByName(i) ==
    Listed(i, {p \in Alive : ImageName[RunsAs[p]] = ImageName[desk[i].item]})

ListsProcesses(i) == Listed(i, {p \in Alive : RunsAs[p] = desk[i].item})

\* terminate() and wait(): a process that is gone, refuses or does not end in time fails the
\* call (ThreadRaises).
Terminates(i) ==
    /\ Acts(i, "close", "acting")
    /\ \E p \in desk[i].todo \cap Alive :
          /\ process' = [process EXCEPT ![p] = "gone"]
          /\ Goes(i, [desk[i] EXCEPT !.todo = @ \ {p}, !.hit = @ \cup {p},
                                     !.thread = IF desk[i].todo = {p} THEN "done" ELSE @])
    /\ UNCHANGED <<title, pictures, tasked, killed, turmoil>>

ListsWindows(i) ==
    /\ Acts(i, "focus", "queued")
    /\ Goes(i, [desk[i] EXCEPT !.todo = {w \in Handles : title[w] # NoWindow},
                               !.thread = "acting"])
    /\ UNCHANGED <<process, title, pictures, tasked, killed, turmoil>>

ReadsTitle(i) ==
    /\ Acts(i, "focus", "acting")
    /\ \E w \in desk[i].todo :
          Goes(i, [desk[i] EXCEPT !.todo = @ \ {w},
                                  !.hit = IF title[w] = desk[i].item THEN @ \cup {w} ELSE @])
    /\ UNCHANGED <<process, title, pictures, tasked, killed, turmoil>>

\* Only when one window matched, whatever its title is now; the system may refuse it.
Focuses(i) ==
    /\ Acts(i, "focus", "acting") /\ desk[i].todo = {}
    /\ \E w \in Handles : desk[i].hit = {w}
    /\ Goes(i, [desk[i] EXCEPT !.thread = "done"])
    /\ UNCHANGED <<process, title, pictures, tasked, killed, turmoil>>

\* save() reserves the file's name first.
CreatesFile(i) ==
    /\ desk[i].op \in {"capture", "analyze"} /\ desk[i].thread = "queued"
    /\ pictures' = [pictures EXCEPT ![i] = "begun"]
    /\ Goes(i, [desk[i] EXCEPT !.thread = "acting"])
    /\ UNCHANGED <<process, title, tasked, killed, turmoil>>

\* An analysis sends its picture to the provider.
SavesPicture(i) ==
    /\ desk[i].op \in {"capture", "analyze"} /\ desk[i].thread = "acting"
    /\ pictures' = [pictures EXCEPT ![i] = "png"]
    /\ Goes(i, [desk[i] EXCEPT !.thread = IF desk[i].op = "analyze" THEN "asking" ELSE "done"])
    /\ UNCHANGED <<process, title, tasked, killed, turmoil>>

Looks(i) ==
    /\ Acts(i, "look", "queued")
    /\ Goes(i, [desk[i] EXCEPT !.thread = "done"])
    /\ UNCHANGED <<process, title, pictures, tasked, killed, turmoil>>

\* Variant: the file is also removed when the thread was done and its event failed.
RaisesLate(i) ==
    /\ desk[i].thread \in {"queued", "acting", "done"}
    /\ pictures' = [pictures EXCEPT ![i] = "none"]
    /\ Goes(i, [desk[i] EXCEPT !.thread = "raised"])
    /\ UNCHANGED <<process, title, tasked, killed, turmoil>>

\* The thread cannot do it.  save() removes its file when the error is one it expects and the
\* system lets it.
ThreadRaises(i) ==
    /\ desk[i].thread \in {"queued", "acting"}
    /\ \E left \in {"none", pictures[i]} : pictures' = [pictures EXCEPT ![i] = left]
    /\ Goes(i, [desk[i] EXCEPT !.thread = "raised"])
    /\ UNCHANGED <<process, title, tasked, killed, turmoil>>

----------------------------------------------------------------------------
(* The ends of calls.                                                      *)

Asking(i) == desk[i].answer = "waiting"

\* The thread is done, and the event about a picture was published.
DeskSucceeds(i) ==
    /\ Asking(i) /\ desk[i].thread = "done"
    /\ Goes(i, [desk[i] EXCEPT !.answer = "success"])
    /\ UNCHANGED <<process, title, pictures, tasked, killed, turmoil>>

\* The thread raised, or the call is cancelled or times out; a thread that has not begun is
\* then dropped or begins all the same.
DeskFails(i) ==
    /\ Asking(i)
    /\ desk[i].op = "analyze" => desk[i].thread = "raised"
    /\ \/ Goes(i, [desk[i] EXCEPT !.answer = "failure"])
       \/ /\ desk[i].thread = "queued"
          /\ Goes(i, [desk[i] EXCEPT !.answer = "failure", !.thread = "over"])
    /\ UNCHANGED <<process, title, pictures, tasked, killed, turmoil>>

\* However the analysis ends, its picture is removed in the same step.  Where the system
\* refuses that, the analysis fails.
Analyzed(i) ==
    /\ Asking(i) /\ desk[i].thread = "asking"
    /\ \E answer \in {"success", "failure"}, left \in {"none", "stuck"} :
          /\ answer = "success" => left = "none"
          /\ pictures' = [pictures EXCEPT ![i] = left]
          /\ Goes(i, [desk[i] EXCEPT !.answer = answer, !.thread = "over"])
    /\ UNCHANGED <<process, title, tasked, killed, turmoil>>

----------------------------------------------------------------------------
(* The desktop, and the end of the program.                                *)

Turmoil == turmoil < MaxTurmoil /\ turmoil' = turmoil + 1

ProcessStarts(p) ==
    /\ Turmoil /\ process[p] = "unborn"
    /\ process' = [process EXCEPT ![p] = "alive"]
    /\ UNCHANGED <<title, pictures, desk, tasked, killed>>

ProcessExits(p) ==
    /\ Turmoil /\ process[p] = "alive"
    /\ process' = [process EXCEPT ![p] = "gone"]
    /\ UNCHANGED <<title, pictures, desk, tasked, killed>>

\* A window comes or goes, or has another title.
Retitled(w, t) ==
    /\ Turmoil /\ title[w] # t
    /\ title' = [title EXCEPT ![w] = t]
    /\ desk' = [i \in DeskNumbers |->
                  IF Asking(i) /\ desk[i].op = "focus" /\ desk[i].item = t
                  THEN [desk[i] EXCEPT !.meant = @ \cup {w}] ELSE desk[i]]
    /\ UNCHANGED <<process, pictures, tasked, killed>>

KillProgram ==
    /\ ~killed /\ killed' = TRUE
    /\ desk' = [i \in DeskNumbers |->
                  [desk[i] EXCEPT
                      !.thread = IF @ \in {"queued", "acting", "asking"} THEN "killed" ELSE @,
                      !.answer = IF @ = "waiting" THEN "failure" ELSE @]]
    /\ UNCHANGED <<process, title, pictures, tasked, turmoil>>

DesktopNext ==
    \/ \E a \in Applications : OpenApplication(a) \/ CloseApplication(a)
    \/ \E t \in Captions : FocusWindow(t)
    \/ TakeScreenshot \/ Look \/ AnalyzeScreen
    \/ \E i \in DeskNumbers : \/ Opens(i) \/ ListsProcesses(i) \/ Terminates(i)
                              \/ ListsWindows(i) \/ ReadsTitle(i) \/ Focuses(i)
                              \/ CreatesFile(i) \/ SavesPicture(i) \/ Looks(i)
                              \/ ThreadRaises(i)
                              \/ DeskSucceeds(i) \/ DeskFails(i) \/ Analyzed(i)
    \/ \E p \in Processes : ProcessStarts(p) \/ ProcessExits(p)
    \/ \E w \in Handles, t \in Captions \cup {NoWindow} : Retitled(w, t)
    \/ KillProgram

DesktopSpec == DesktopInit /\ [][DesktopNext]_desktopVars

----------------------------------------------------------------------------
(* Properties.                                                             *)

DesktopTypeOK ==
    /\ process \in [Processes -> {"unborn", "alive", "gone"}]
    /\ title \in [Handles -> Captions \cup {NoWindow}]
    /\ pictures \in [DeskNumbers -> {"none", "begun", "png", "stuck"}]
    /\ tasked \in 0 .. MaxDesk /\ killed \in BOOLEAN
    /\ turmoil \in 0 .. MaxTurmoil
    /\ desk \in [DeskNumbers ->
          [op : {"none", "open", "close", "look", "focus", "capture", "analyze"},
           item : Applications \cup Captions \cup {NoWindow},
           thread : {"none", "queued", "acting", "asking", "done", "raised", "over", "killed"},
           answer : {"none", "waiting", "success", "failure"},
           todo : SUBSET (Processes \cup Handles), hit : SUBSET (Processes \cup Handles),
           meant : SUBSET (Processes \cup Handles)]]

\* Only processes of the application are ended, and a close that says so has ended all it listed.
ClosedAsAsked ==
    \A i \in DeskNumbers : desk[i].op = "close" =>
        /\ \A p \in desk[i].hit : RunsAs[p] = desk[i].item
        /\ desk[i].answer = "success" => desk[i].meant \cap Alive = {}

\* The window that got the focus had that title at some moment of the call.
FocusedAsAsked ==
    \A i \in DeskNumbers : desk[i].op = "focus" /\ desk[i].answer = "success" =>
        desk[i].hit # {} /\ desk[i].hit \subseteq desk[i].meant

\* A picture that was promised is there.  A temporary one is there only while its analysis
\* lasts, or when the program was killed during it, or when its analysis was reported as failed
\* because it could not be removed.  An unfinished one is left only by a thread that raised or
\* was killed.
PicturesAccounted ==
    \A i \in DeskNumbers :
        /\ desk[i].op = "capture" /\ desk[i].answer = "success" => pictures[i] = "png"
        /\ desk[i].op = "analyze" /\ pictures[i] = "png" =>
              desk[i].answer = "waiting" \/ desk[i].thread = "killed"
        /\ pictures[i] = "stuck" => desk[i].answer = "failure"
        /\ pictures[i] = "begun" => desk[i].thread \in {"acting", "raised", "killed"}

\* What the desktop actions leave behind is what was tasked for, in spite of threads that go on
\* after their calls, processes and windows that come and go, and a program that is killed.
DesktopAsAsked == ClosedAsAsked /\ FocusedAsAsked /\ PicturesAccounted

\* An analysis has no thread of its own: it is over when it is answered.
DeskEffect(task) ==
    CASE task.thread = "none" -> "none"
      [] task.thread \in {"queued", "acting", "asking"} -> "possible"
      [] task.thread = "done" -> "done"
      [] OTHER -> IF task.op = "analyze" /\ task.answer = "success" THEN "done" ELSE "over"

DeskMatters == [i \in DeskNumbers |-> <<desk[i].op, desk[i].item>>]
DeskEffects == [i \in DeskNumbers |-> DeskEffect(desk[i])]
DeskAnswers == [i \in DeskNumbers |-> desk[i].answer]

\* docs/permissions.md:114-116: cancellation is not rollback.  Pictures are made and removed,
\* and processes ended, only by a call whose thread has not ended, and never after a success
\* was answered or the program was killed.
DesktopPromise == INSTANCE CallPromise WITH
    Calls <- DeskNumbers, Nothing <- <<NotAsked.op, NotAsked.item>>,
    Matters <- {"open", "close", "look", "focus", "capture", "analyze"}
                 \X (Applications \cup Captions \cup {NoWindow}),
    matter <- DeskMatters, effect <- DeskEffects, answer <- DeskAnswers,
    world <- <<pictures, [i \in DeskNumbers |-> desk[i].hit]>>

DeskCallsAsPromised == DesktopPromise!Spec
=============================================================================
