------------------------------- MODULE GuiPages -------------------------------
(***************************************************************************)
(* A page of records in the window (_load_page, _run_page_action and what  *)
(* their buttons call in src/jarvis/gui/pyside.py) and the operations of   *)
(* GuiController under it (src/jarvis/gui/controller.py): the Memory or    *)
(* Tasks page, whose lists and changes are actions of the runtime and take *)
(* turns with the chat, or the Plugins page, which is read directly        *)
(* (src/jarvis/gui/data.py).                                               *)
(*                                                                         *)
(* Each click schedules a task.  Tasks, the user, a dialog that stays open *)
(* and whatever else changes the records run in any order.  A message box  *)
(* is taken to be dismissed at once.                                       *)
(***************************************************************************)
EXTENDS Integers, Sequences

CONSTANTS
    MaxRows,        \* BOUND: records of the page's source, MAX_ROWS in the code
    RecordTexts,    \* what a record reads: a message, a value, a status
    NoRecord,
    MaxClicks,      \* BOUND: tasks of the window at a time
    MaxChanges      \* BOUND: changes of the source, for each page

PageKinds == {"memory", "tasks", "plugins"}

ASSUME PageConstants ==
    /\ MaxRows \in Nat /\ MaxClicks \in Nat
    /\ MaxChanges \in [PageKinds -> Nat]

RecordIds == 1 .. MaxRows
Slots == 1 .. MaxClicks

VARIABLES
    page,       \* the page
    records,    \* what the memories, the reminders or the plug-ins are
    age,        \* history: how often they have changed
    view,       \* the rows of the page's table
    selected,   \* its current row, 0 for none
    editing,    \* the row whose edit dialogs are open
    clicks,     \* the window's tasks for this page; or a chat turn, or another page's action
    late,       \* changes that were cancelled and go on; BOUND: one at a time
    windowOpen,
    told        \* history: the age of the state the user knows of

pageVars == <<page, records, age, view, selected, editing, clicks, late, windowOpen, told>>
sourceVars == <<records, age>>
tableVars == <<view, selected>>

\* `row` is the record a task is about; history: `seen`, what the table showed of it when the
\* user asked for the change.
NoClick == [kind |-> "none", at |-> "none", op |-> "none", row |-> NoRecord, new |-> NoRecord,
            got |-> NoRecord, age |-> 0, seen |-> NoRecord]

\* Lists and changes of memories and reminders, and changes of plug-ins, are runtime actions.
ThroughRuntime(click) == page # "plugins" \/ click.kind \in {"change", "other"}
Underway == {k \in Slots : clicks[k].at \in {"running", "checked", "read"}}
ControllerBusy == \E k \in Underway : ThroughRuntime(clicks[k])

TableRows == [id : RecordIds, text : RecordTexts]
Tables == UNION {[1 .. n -> TableRows] : n \in 0 .. MaxRows}

\* The table shows the records in the order of their ids.
Lists(rows, ids) ==
    /\ \A m, n \in DOMAIN rows : m < n => rows[m].id < rows[n].id
    /\ {rows[n] : n \in DOMAIN rows}
         = {[id |-> r, text |-> records[r]] : r \in {q \in ids : records[q] # NoRecord}}

NothingClicked ==
    /\ age = 0
    /\ view = <<>> /\ selected = 0
    /\ editing = NoRecord
    /\ clicks = [k \in Slots |-> NoClick] /\ late = {}
    /\ windowOpen = TRUE /\ told = 0

PagesInit ==
    /\ page \in PageKinds
    /\ records \in [RecordIds -> RecordTexts]
    /\ NothingClicked

----------------------------------------------------------------------------
(* The user.  A dialog that is open takes all clicks.                      *)

Clickable == windowOpen /\ editing = NoRecord

Schedule(click) ==
    /\ \E k \in Slots :
          /\ clicks[k] = NoClick /\ \A j \in 1 .. (k - 1) : clicks[j] # NoClick
          /\ clicks' = [clicks EXCEPT ![k] = click]
    /\ UNCHANGED <<page, sourceVars, tableVars, late, windowOpen, told>>

ScheduleChange(op, row, new, seen) ==
    Schedule([NoClick EXCEPT !.kind = "change", !.at = "scheduled", !.op = op, !.row = row,
                             !.new = new, !.seen = seen])

SelectedRow == view[selected]

SelectRow(n) ==
    /\ Clickable
    /\ n \in DOMAIN view
    /\ selected' = n
    /\ UNCHANGED <<page, sourceVars, view, editing, clicks, late, windowOpen, told>>

\* The page is opened, or its Refresh button pressed.
LoadPage ==
    /\ Clickable
    /\ Schedule([NoClick EXCEPT !.kind = "load", !.at = "scheduled"])
    /\ UNCHANGED editing

\* The text a query finds is that of any one record.
SearchMemories(r) ==
    /\ Clickable /\ page = "memory"
    /\ Schedule([NoClick EXCEPT !.kind = "search", !.at = "scheduled",
                                !.row = [id |-> r, text |-> NoRecord]])
    /\ UNCHANGED editing

DeleteMemory ==
    /\ Clickable /\ page = "memory" /\ selected # 0
    /\ ScheduleChange("remove", SelectedRow, NoRecord, SelectedRow)
    /\ UNCHANGED editing

\* Cancel selected, Delete selected: the message shown goes with the id.
RemoveReminder ==
    /\ Clickable /\ page = "tasks" /\ selected # 0
    /\ ScheduleChange("remove", SelectedRow, NoRecord, SelectedRow)
    /\ UNCHANGED editing

CreateReminder(text) ==
    /\ Clickable /\ page = "tasks"
    /\ ScheduleChange("create", NoRecord, text, NoRecord)
    /\ UNCHANGED editing

SwitchPlugin(text) ==
    /\ Clickable /\ page = "plugins" /\ selected # 0
    /\ ScheduleChange("set", SelectedRow, text, SelectedRow)
    /\ UNCHANGED editing

\* _edit_reminder reads the row, then asks for the message and the time.
EditReminder ==
    /\ Clickable /\ page = "tasks" /\ selected # 0
    /\ editing' = SelectedRow
    /\ UNCHANGED <<page, sourceVars, tableVars, clicks, late, windowOpen, told>>

AcceptEdit(text) ==
    /\ editing # NoRecord
    /\ ScheduleChange("set", editing, text, editing)
    /\ editing' = NoRecord

DismissEdit ==
    /\ editing # NoRecord
    /\ editing' = NoRecord
    /\ UNCHANGED <<page, sourceVars, tableVars, clicks, late, windowOpen, told>>

----------------------------------------------------------------------------
(* The window's tasks.                                                     *)

Move(k, stage) == clicks' = [clicks EXCEPT ![k].at = stage]
Frees(k) == clicks' = [clicks EXCEPT ![k] = NoClick]

\* setRowCount drops rows at the end; the current row stays where it is.
Show(rows) ==
    /\ view' = rows
    /\ selected' = IF selected <= Len(rows) THEN selected ELSE Len(rows)

\* Variant: nobody asks whether another action runs.
BeginsAnyway(k) ==
    /\ clicks[k].at = "scheduled"
    /\ Move(k, "running")
    /\ UNCHANGED <<page, sourceVars, tableVars, editing, late, windowOpen, told>>

Begins(k) ==
    /\ clicks[k].at = "scheduled"
    /\ ThroughRuntime(clicks[k]) => ~ControllerBusy
    /\ Move(k, "running")
    /\ UNCHANGED <<page, sourceVars, tableVars, editing, late, windowOpen, told>>

\* GuiBusyError makes load_page return an empty page; a search or a change ends with it.
TurnedAway(k) ==
    /\ clicks[k].at = "scheduled"
    /\ ThroughRuntime(clicks[k]) /\ ControllerBusy
    /\ Frees(k)
    /\ IF clicks[k].kind = "load" THEN Show(<<>>) ELSE UNCHANGED tableVars
    /\ UNCHANGED <<page, sourceVars, editing, late, windowOpen, told>>

Answer(click, what, itsAge) ==
    [NoClick EXCEPT !.kind = click.kind, !.at = "read", !.got = what, !.age = itsAge]

\* list_memories, search_memories, list_reminders, or the provider, has read the records.
ReadsRecords(k) ==
    /\ clicks[k].at = "running" /\ clicks[k].kind \in {"load", "search"}
    /\ LET ids == IF clicks[k].kind = "search" THEN {clicks[k].row.id} ELSE RecordIds
       IN  \E rows \in Tables :
               /\ Lists(rows, ids)
               /\ clicks' = [clicks EXCEPT ![k] = Answer(clicks[k], rows, age)]
    /\ UNCHANGED <<page, sourceVars, tableVars, editing, late, windowOpen, told>>

\* There is such a record, or room for a new one.
Finds(click) ==
    IF click.op = "create" THEN \E r \in RecordIds : records[r] = NoRecord
                           ELSE records[click.row.id] # NoRecord

\* Variant: a reminder goes by its id.
MeetsById(click) == Finds(click)

\* A reminder must still read as it was shown; a memory or a plug-in goes by its key.
Meets(click) ==
    /\ Finds(click)
    /\ page = "tasks" /\ click.op # "create" => records[click.row.id] = click.row.text

\* cancel_reminder and delete_reminder read the reminder and compare, and then cancel or
\* delete it by its id, in another transaction; edit_reminder is one.
TwoTransactions(click) == page = "tasks" /\ click.op = "remove"

Checks(k) ==
    /\ clicks[k].at = "running" /\ clicks[k].kind = "change"
    /\ TwoTransactions(clicks[k]) /\ Meets(clicks[k])
    /\ Move(k, "checked")
    /\ UNCHANGED <<page, sourceVars, tableVars, editing, late, windowOpen, told>>

Effect(click) ==
    /\ IF TwoTransactions(click) THEN Finds(click) ELSE Meets(click)
    /\ age < MaxChanges[page]
    /\ age' = age + 1
    /\ IF click.op = "create"
       THEN \E r \in RecordIds : /\ records[r] = NoRecord
                                 /\ records' = [records EXCEPT ![r] = click.new]
       ELSE records' = [records EXCEPT ![click.row.id] = click.new]

\* There may be no such memory: that is a success too.
MakesChange(k) ==
    /\ clicks[k].kind = "change"
    /\ clicks[k].at = IF TwoTransactions(clicks[k]) THEN "checked" ELSE "running"
    /\ \/ Effect(clicks[k])
       \/ page = "memory" /\ ~Meets(clicks[k]) /\ UNCHANGED sourceVars
    /\ clicks' = [clicks EXCEPT ![k] = Answer(clicks[k], <<>>, age')]
    /\ UNCHANGED <<page, tableVars, editing, late, windowOpen, told>>

\* Changes whose thread goes on when its task is cancelled.
GoingOn == {k \in Slots : /\ page # "tasks" /\ clicks[k].kind = "change"
                          /\ clicks[k].at = "running" /\ late = {}}

\* Denied, cancelled or failed.
GoesWrong(k) ==
    /\ k \in Underway /\ clicks[k].kind # "other"
    /\ clicks' = [clicks EXCEPT ![k] = [NoClick EXCEPT !.kind = clicks[k].kind, !.at = "done"]]
    /\ late' = late \cup {clicks[j] : j \in {k} \cap GoingOn}
    /\ UNCHANGED <<page, sourceVars, tableVars, editing, windowOpen, told>>

LateChange(click) ==
    /\ click \in late
    /\ late' = late \ {click}
    /\ \/ Effect(click)
       \/ UNCHANGED sourceVars
    /\ UNCHANGED <<page, tableVars, editing, clicks, windowOpen, told>>

\* The result is there.  From here the controller is not busy: a task that was already
\* scheduled may begin before the one that waits for the result has resumed, but not get
\* as far.
Arrives(k) ==
    /\ clicks[k].at = "read"
    /\ ThroughRuntime(clicks[k])
         => \A j \in Slots : clicks[j].at = "done" => ~ThroughRuntime(clicks[j])
    /\ Move(k, "done")
    /\ UNCHANGED <<page, sourceVars, tableVars, editing, late, windowOpen, told>>

\* load_page and search_memories return, and _render_page fills the table.
RendersPage(k) ==
    /\ clicks[k].at = "done" /\ clicks[k].kind \in {"load", "search"}
    /\ Frees(k)
    /\ IF clicks[k].got = NoRecord
       THEN Show(<<>>) /\ UNCHANGED told
       ELSE Show(clicks[k].got) /\ told' = clicks[k].age
    /\ UNCHANGED <<page, sourceVars, editing, late, windowOpen>>

\* _run_page_action tells the user, and loads the page again when it went well.
TellsResult(k) ==
    /\ clicks[k].at = "done" /\ clicks[k].kind = "change"
    /\ IF clicks[k].got = NoRecord
       THEN Frees(k) /\ UNCHANGED told
       ELSE /\ told' = clicks[k].age
            /\ clicks' = [clicks EXCEPT ![k] = [NoClick EXCEPT !.kind = "load", !.at = "scheduled"]]
    /\ UNCHANGED <<page, sourceVars, tableVars, editing, late, windowOpen>>

----------------------------------------------------------------------------
(* Everything else.                                                        *)

OtherTurnBegins ==
    /\ windowOpen /\ ~ControllerBusy
    /\ Schedule([NoClick EXCEPT !.kind = "other", !.at = "running"])
    /\ UNCHANGED editing

OtherTurnEnds(k) ==
    /\ clicks[k].kind = "other"
    /\ Frees(k)
    /\ UNCHANGED <<page, sourceVars, tableVars, editing, late, windowOpen, told>>

\* An action of the chat, the scheduler, a plug-in, another process.  Plug-ins stay in the list.
OthersChange(r, text) ==
    /\ page = "plugins" => text # NoRecord
    /\ age < MaxChanges[page] /\ records[r] # text
    /\ records' = [records EXCEPT ![r] = text] /\ age' = age + 1
    /\ UNCHANGED <<page, tableVars, editing, clicks, late, windowOpen, told>>

\* closeEvent cancels the window's tasks, and the controller its active one.
CloseWindow ==
    /\ windowOpen
    /\ windowOpen' = FALSE /\ editing' = NoRecord
    /\ clicks' = [k \in Slots |-> NoClick]
    /\ late' = late \cup {clicks[k] : k \in GoingOn}
    /\ Show(<<>>)
    /\ UNCHANGED <<page, sourceVars, told>>

----------------------------------------------------------------------------
UserNext ==
    \/ \E n \in RecordIds : SelectRow(n) \/ SearchMemories(n)
    \/ LoadPage \/ DeleteMemory \/ RemoveReminder \/ EditReminder \/ DismissEdit
    \/ \E text \in RecordTexts : CreateReminder(text) \/ SwitchPlugin(text) \/ AcceptEdit(text)

\* Nothing awaits between the two transactions: only other processes come between them.
BetweenTransactions == \E k \in Slots : clicks[k].at = "checked"

PagesNext ==
    \/ ~BetweenTransactions /\ UserNext
    \/ \E k \in Slots : /\ BetweenTransactions => clicks[k].at = "checked"
                        /\ \/ Begins(k) \/ TurnedAway(k) \/ ReadsRecords(k) \/ Checks(k)
                           \/ MakesChange(k) \/ GoesWrong(k) \/ Arrives(k) \/ RendersPage(k)
                           \/ TellsResult(k) \/ OtherTurnEnds(k)
    \/ \E click \in late : LateChange(click)
    \/ ~BetweenTransactions /\ (OtherTurnBegins \/ CloseWindow)
    \/ \E r \in RecordIds, text \in RecordTexts \cup {NoRecord} : OthersChange(r, text)

PagesSpec == PagesInit /\ [][PagesNext]_pageVars

----------------------------------------------------------------------------
(* Properties.                                                             *)

PagesTypeOK ==
    /\ records \in [RecordIds -> RecordTexts \cup {NoRecord}]
    /\ age \in 0 .. MaxChanges[page] /\ told \in 0 .. age
    /\ view \in Seq(TableRows)
    /\ selected \in 0 .. Len(view)
    /\ editing \in TableRows \cup {NoRecord}
    /\ \A k \in Slots : clicks[k].at \in {"none", "scheduled", "running", "checked", "read", "done"}

Checking(k) == clicks[k].at = "running" /\ clicks'[k].at = "checked"
Changing(k) ==
    clicks[k].kind = "change" /\ clicks[k].at \in {"running", "checked"} /\ clicks'[k].at = "read"

\* What a change may alter: a new record, or the one the user saw.  A reminder is edited as it
\* was seen, and cancelled or deleted after it was found to read as it was seen.
OnlyWhatWasSeen ==
    \A k \in Slots :
        /\ Checking(k) => records[clicks[k].seen.id] = clicks[k].seen.text
        /\ Changing(k) => \A r \in RecordIds : records'[r] # records[r] =>
              \/ clicks[k].op = "create" /\ records[r] = NoRecord
              \/ /\ r = clicks[k].seen.id
                 /\ page = "tasks" => IF clicks[k].op = "remove"
                                      THEN clicks[k].at = "checked"
                                      ELSE records[r] = clicks[k].seen.text

\* Plug-ins are listed without taking turns: an earlier list may arrive later.
NeverOlder == page # "plugins" => told' >= told

\* A button changes only the record its user saw when they asked, although the table is filled
\* anew under the selection and under an open dialog.  A reminder is edited only while it still
\* reads as they saw it; it is cancelled or deleted only after it read so in a transaction
\* before (what another process writes between the two goes with it).  And the Memory and Tasks tables never show an older state after a newer one
\* nor one from before a change that was reported as done, however loads, searches and changes
\* overlap.
PagesTellAndDo == [][OnlyWhatWasSeen /\ NeverOlder]_pageVars
=============================================================================
