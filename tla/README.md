# A TLA+ model of JARVIS

JARVIS (`src/src/jarvis`, Python, asyncio) is a desktop assistant. A message or a
click becomes a plan of *actions*; each action is authorised by policy or by the
user, bound to a window when it types or clicks, and invoked. Reminders, plug-ins,
integrations, a browser, memory and a desktop window live around that core.

This directory models the parts whose correctness depends on interleavings, faults and
bounds: the reminders, the session of turns, prompts and cancellations, the plug-ins,
the history a language model is shown, how the application starts and ends, and what the
program does outside itself: the browser, servers, memories, the desktop, and the pages of
its window.

## 1. Inventory

| Component (source) | State | Operations | Interacts with | Hard behaviour |
|---|---|---|---|---|
| Reminder repository (`tasks/storage.py`) | SQLite table of reminders: due, status, claim owner and lease end, delivery start, idempotency key | create, claim_due, begin_delivery, release_claim, mark_(claim_)triggered, cancel, edit_scheduled, delete; each one transaction | schedulers and users of several processes | stale clock readings, leases that run out, calls that arrive after the row moved on |
| Scheduler (`tasks/scheduler.py`) | stop flag, wake event, one poll in flight, its lease owner | run, poll, wake, stop | repository, notifier, service | kill or cancel at any await, database faults, a wake during a poll |
| Reminder service and actions (`tasks/service.py`, `actions.py`) | none of its own | create, edit, cancel, delete, list | repository, scheduler's wake | check in one transaction, change in another |
| Recurrence (`tasks/recurrence.py`) | none | first occurrence, next occurrence | repository | spring gap, autumn fold, week-ends |
| Notifiers (`tasks/notifiers.py`) | none | notify | scheduler | may fail after showing |
| Action runtime (`core/runtime.py`, `core/actions.py`, `core/safety.py`) | the turn's task, its plan, the registry | process, execute_requests, get, invoke, prepare, verify | permissions, events, model, handlers, plug-ins | cancellation at every await; window or plug-in changes while the user is asked |
| Permissions (`core/permissions.py`) | none | check | broker, runtime | confirmation floor |
| Event bus (`core/events.py`) | listeners | publish, subscribe | everyone | listeners that await suspend the publisher |
| Permission broker (`gui/permissions.py`) | pending prompts, closed flag | confirm, resolve, deny_all, close | runtime, dialog | answer against timeout, cancellation and close |
| GUI controller (`gui/controller.py`) | active task, activity cards, status, closed flag | send_message, execute_action, capture_voice, cancel_current, close | runtime, broker, events | the gap between the end of a task and the resumption of its waiter; one status with many writers |
| Qt window (`gui/pyside.py`, `gui/data.py`) | the open dialog, each page's table and selection | show prompt, click, load and search a page, its buttons, close | controller | a dialog that outlives its prompt; a table filled anew under the selection |
| Conversation and model client (`ai/`) | history | append, trim, discard tool exchange | runtime | a cancelled turn between tool calls and tool results |
| Plug-ins (`plugins/`) | records, handles, tasks | load, enable, disable, unload, shutdown | registry, events, integrations | failure or cancellation half way |
| Application (`bootstrap.py`) | scheduler task, open resources | start, aclose | all | start racing close |
| Integrations (`integrations/base.py`, `registry.py`) | registered connections, the status of each | connect, disconnect, close | providers, plug-ins | close during unregister or connect |
| Mail, calendar and GitHub (`integrations/`) | drafts, sent drafts; the servers' own state | create and send a draft, create, update and delete an event, write to GitHub | runtime, servers, other clients | a thread that outlives its call; a server that acts without answering |
| Browser session (`browser/playwright.py`, `actions.py`) | tabs, snapshot, its elements, adoption tasks | snapshot, click, fill, press, navigate, tabs, close | runtime, web pages | pages that act by themselves, time limits and cancellation at every await |
| Browser resources (`browser/playwright.py`, `proxy.py`, `validation.py`) | runtime, browser process, a proxy and a context per session; pinned addresses | create and close a session, shutdown; accept, resolve, connect | browser session, name servers | shutdown beside a session that is made; answers that change |
| Memory (`memory/`, `actions.py`) | SQLite table | remember, recall, forget, clear | worker threads | an abandoned thread writes after a later request was answered |
| Computer control and vision (`computer/`, `vision/analyzer.py`) | pictures; the desktop's own state | open, list and close applications, focus a window, captures, analysis | the desktop, a vision model | processes and windows that come and go during a call; temporary pictures |
| Planner, router, skills, CLI, voice devices, utilities | none or devices | | | text matching and I/O |

What makes them correct, beyond types:

* repository: claim columns consistent; a started row is frozen; a running lease is
  respected; no id comes back to life;
* scheduler: at most one notification per occurrence, of the current text; a wake is
  not lost; due reminders get delivered; stop ends the loop;
* recurrence: strictly forward, nothing skipped, allowed days only;
* turns: nothing runs without consent to that very item, out of order, twice, after a
  failure or after a cancellation; a cancellation ends and is reported honestly;
* prompts: none left behind, none waiting forever; the status line is true;
* plug-ins: all of a plug-in's capabilities are there or it is on its way out; nothing
  registered is forgotten; hooks come in pairs; the status is true; the lock is given back;
* conversation: a request never shows a result without its call, nor what an earlier turn's
  tools returned; every call has a result when the model sums up;
* browser: an approved interaction touches the node that was shown; no page is out of reach;
  no proxy, context or process is orphaned; a host is reached at one checked answer only;
* servers: nothing is done twice for one approval or claimed without being done; what is
  changed was compared with what was approved;
* memory: an answered remember or forget holds;
* pages: a button changes the record that was seen, after it was found to read so; tables do
  not go back;
* desktop: only the application's own processes are ended, the window that was named gets
  the focus, a promised picture is there, and others stay only where a call failed;
* application: when it is closed nothing runs, is loaded or connected, and nothing becomes
  so again; the stores are closed last.

`PROJECT.json` lists every component with its status and every hazard at its line.

## 2. Modules

| Module | What it is |
|---|---|
| `ReminderStore` | the table; one action per mutating method, one transaction each |
| `ReminderScheduler` | EXTENDS the table: run/poll of several schedulers, one action per await, and the users' requests |
| `ReminderDelivery` | abstract: what delivery of a reminder promises |
| `Recurrence` | next occurrences over zones with one clock change, in whole hours |
| `PermissionBroker` | the pending prompts: open, resolve, apply, time out, withdraw, close |
| `ActionPipeline` | EXTENDS the broker: a turn from request to invocation, one action per suspension |
| `GuiSession` | EXTENDS the pipeline: controller, cards, status, dialog, voice, close |
| `TurnPromise` | abstract: what a turn promises its user |
| `HostRegistries` | actions, subscriptions and integrations by owner, and the sweep that closes the integrations |
| `PluginManager` | EXTENDS the registries: enable, disable, load_enabled, inspect and shutdown, one action per await |
| `CapabilityPromise` | abstract: what the host may see of a plug-in |
| `Conversation` | the history and its bounds, and the turns that ask the model and write it |
| `Application` | start and aclose of the application, one action per await, with what they start and stop |
| `BrowserSession` | tabs, pop-ups, the snapshot and the interactions approved on it |
| `BrowserResources` | how the browser process, proxies and contexts are made and released |
| `EgressProxy` | connections of a session's proxy and the pinned answers they share with the page checks |
| `RemoteWrites` | mail, calendar and GitHub writes, one action per step of a call's thread |
| `MemoryStore` | the memory table, requests and their threads |
| `GuiPages` | a page of records: the window's tasks, the controller under them, dialogs |
| `Desktop` | applications, windows and captures, calls and their threads |
| `CallPromise` | abstract: what is promised of a call whose thread may outlive it; `RemoteWrites`, `MemoryStore` and `Desktop` implement it |
| `ReminderStoreProofs`, `ReminderProofs`, `GuiProofs`, `PluginProofs`, `ConversationProofs`, `ApplicationProofs`, `BrowserProofs`, `ThreadProofs` | theorems |
| `MC*` | values of the constants for TLC; `MCParts` and `MCHost` explore parts that share nothing in one run; `MCCalls` is the share of `MCHost` that speaks of calls with threads, as `ThreadProofs` needs it |

Definitions whose comment starts with "Variant" are not part of the system. Each is a
plausible slip in the definition that follows it, kept to show that a property notices.

### Reminders and the code

`rows`, `lastId` and `clock` are the table, its AUTOINCREMENT sequence and the wall
clock. Every repository method is BEGIN IMMEDIATE to COMMIT, hence one step; a call
that raises rolls back and is a stutter. `pc[s]` is the await at which scheduler `s`
stands: `claiming`, `choosing`, `beginning`, `notifying`, `marking` inside `poll`, and
`created`, `loop`, `polled`, `waiting`, `ended` inside `run`. The snapshots it carries
across awaits (`batch`, `job`, `stamp`) are variables of their own, because that they
are stale is the point. `Kill` covers a killed process and a cancelled task. Users act
through `Edit`, `Check`, `CommitCancel`, `CommitDelete`, the last three split where the
code uses two transactions. A text is a value with a case-folded form; recurrence is a
period; `created_at` and `updated_at` are left out. The clock does not go back.

### Sessions and the code

A turn is the asyncio task of `JarvisRuntime.process` (kind `chat`) or of
`execute_requests` (kind `action`). `at` names the await where it can be suspended:
every `events.publish` is one, since a plug-in's listener may await, and the place tells
whether the controller's own listener has run. Everything between two places is one
action. A cancellation is a mark that the task's next resumption raises (`Interrupt`),
which runs `confirm()`'s finally block when it meets the turn there. `outer[t]` is
`send_message` or `execute_action` waiting for the task; it resumes in a step of its own
(`OuterReturn`), so the controller can be not busy, and accept another request, while
the first waiter has not returned. Callbacks of the loop run in order, so the second
turn does not start before (`InOrder`). A click resolves the dialog's own prompt; the
decision is applied by a later callback (`PromptCallback`).

`KeepsAnswer` is the version of `asyncio.wait_for`: until Python 3.11 a result that is
there wins over a cancellation or timeout, from 3.12 on it loses. The project admits
both. A cancellation swallowed that way is marked `lost`.

A turn's record and cards are reset when its waiter returns: nothing reads them again.
Arguments, results, texts and the conversation are abstract; a schema violation is the
failure branch of `LookUp`, a handler's failure that of `Return`.

### Plug-ins and the code

`job` is the call that holds `_lifecycle_lock`, `queue` the calls that wait for it. `at`
names the await at which the call, or the clean-up task it waits for, is suspended;
`why` says what a removal of handles is part of. A cancellation acts where the code lets
it through (hooks, emits) and is remembered in `cancelled` where a shield holds it back
(the commit, the clean-up of a failure); where the clean-up ends the same way in any
case (`disable`, `shutdown`, a cancelled load) it is left out. The heads of the two
loops over plug-ins are steps of their own; nothing awaits there and the lock is held.

`holder` joins the three registries: a name is an action, an integration or one
listener's subscription. With the project's own registries a commit suspends only while
a broken-off one is rolled back, so `Commit` is one step; what makes it break off is a
subscription the bus rejects (`subscribe_event` takes any non-blank name, the bus does
not) or a closed integration registry. Handles are a set: `Staged` lists integrations,
then listeners, then actions, as `_commit` registers them, and removal goes backwards, so
only the order of the integrations matters. `_owned_integrations` always agrees with the
registry and is left out. `load()` is called by tests only and is a prefix of `enable()`;
the same holds for `discover(refresh=True)`. `aclose` runs the manager's shutdown and the
registry's `close()` at once (`Aclose`, `Visit`, `EndSweep`).

`muffled` is a history variable: a load that fails and whose caller is cancelled during
the clean-up raises before it enters the failure in the record
(`plugins/manager.py:407`). The record then keeps its old status although an integration
may still be registered or the shutdown hook may have failed. `StatusTellsTruth` and
`HooksPaired` hold but for these plug-ins.

### The conversation and the code

`history` is `Conversation._messages`, as a set of messages with numbers: the numbers
give the order, and removing a message leaves the others as they are. A message keeps
its role, its length, the ids of its calls or the id it answers, and the turn that wrote
it. `stage` is the await of `_process_with_ai` at which the turn is suspended: the first
request (`selecting`), the event `ai.response` (`answered`), `execute_requests`
(`acting`) and the second request (`following`). `execute_requests` is one step here
(`Report`), which may return any number of results from 1 on, as it does in
`ActionPipeline`. `Interrupt` is a cancellation, or an exception nobody catches, at any
of these awaits; only at the last one does a `finally` block run.

Groups are maximal runs of an assistant's calls and the results that follow them (`Owns`,
`Heads`); both bounds keep the longest end of the list that consists of whole groups
(`Ends`). The code trims after each appended message, the model after all results of a
turn, which is the same since a group never exceeds 1 + `MaxActions` < `MaxMessages`
messages. Ids are the model's choice and return in later turns. `clear()` is called by
tests only and left out. `sent` is the last request; `interrupted`, a history variable,
are the turns that ended between their calls and the results.

A single answer of the model has no limit of its own below the response size, so an
exchange can exceed what fits in a request. Then the summary is asked for without it.
`CallsAreAnswered` says when that cannot happen.

### The application and the code

`startAt` is the await at which `start()` is suspended: before an integration's lock
(`queueing`), in its `_connect` (`connecting`), at the event about it (`telling`), at the
plug-in manager's lock (`locking`), in `load_enabled` (`loading`). `aclose()` makes tasks
for the manager's shutdown and the registry's `close()`, which is at integration `sweep`,
and waits for them and for the scheduler (`awaited`); it may then be cancelled, which it
remembers (`disturbed`). `loop` is the scheduler's task as far as starting and stopping
goes. `run()` resets the stop flag when its first step executes (`RunLoop`): a stop that
comes before it is lost, and `aclose()` then waits for ever. Plug-ins are one flag here,
`PluginManager` has their details.
The browser's shutdown, one more operation that `aclose()` waits for, is left out.

The two interfaces differ in when they close. The terminal calls `aclose()` after
`start()` has ended or was cancelled, in the last case in a new event loop, when
`asyncio.run` has cancelled what was left of the first (`LoopDropped`). The window is
shown before `start()` runs (`gui/pyside.py:688-694`). Closing it stops the loop, and
`aclose()` is run in the same loop, where `start()` is still suspended and goes on.
`overtaken`, a history variable, says that this happened. It can happen only at an await that
suspends: one at a lock that is free, or at an event that nobody delays, is passed at once,
and while nobody closes all of them are (`Passing`). `controller.aclose()` runs
before, so that a scheduler's task that exists has made its first step.

### The browser and the code

`BrowserSession` joins the session and the action service, whose lock lets one browser
action run at a time. `call.at` is the await of that action; `found` is the moment between
the look-up of a snapshot's element and the end of the permission prompt, `verified` the
element's second check, `touched` the interaction. `adopting` are the tasks of
`_register_page`, one for each page the browser reports. An action may end early at every
await, with or without the page having acted. A page has one interactive element; loading
a document or a script changes it (`PageMoves`). Snapshots carry their session, since a
new session numbers its snapshots alike. `spent` and `asked` are history variables.

`BrowserResources` names the await in `create_session` or `close` by `turnAt` and that of
`shutdown` by `endAt`. Whatever is made can fail, time out or be cancelled; what is then
undone is a step of its own. `next` counts, so a number never returns. A close that raised
counts as released, as in the code, which forgets the resource.

In `EgressProxy` each accepted connection is a task. `asking` is who is inside the
policy's lock, where the name server is asked; a navigation check of the page ("page")
competes for it. A look-up returns any answer; `Admitted` keeps the first public one and
compares the later ones. Addresses are tried in their order. Reading requests and relaying
bytes are stages without content. `reached` is history.

### Servers, memories, the desktop and the code

The calls of `RemoteWrites`, `MemoryStore` and `Desktop` are made one after the other:
turns are, and a turn carries out its items in order. Each runs in a thread of
`asyncio.to_thread`, which goes on when the call is cancelled or times out; a call that
comes later can therefore overlap it. A thread that has not begun when its call ends may
be dropped.

`RemoteWrites`: `saw` is the event a call's first thread has read and the approval, `wanted`,
is compared with (`Matches`): an update's title, a delete's title and start. The second thread
loads the event once more and changes it as it then is. The server may act while its answer
is lost (`thread = "broken"`), and a delete of an event that another client removed after it
was loaded is a success, since the library accepts the server's 404 (`ServerDeletes`). What a
thread reads that nobody waits for is dropped (`CallFails`), and what is not needed any more
is forgotten (`Over`, `Confirmed`). `_sent` is read before the thread is asked for and
written after. The GitHub writes are one action, as they only differ in their request.
`agreed` and `hit` are history.

`MemoryStore`: a row holds the number of the request that wrote it. `RowOf` is
`_prepare_key`: several spellings, one row. Threads take the store's lock in any order,
and each transaction is one step. The program may stop and start again; `after`, history,
are the requests answered before one was made.

`Desktop`: `todo` are the processes a close has yet to end or the windows whose titles a
focus has yet to read. `psutil` recognises a process by identifier and start time, so an
identifier given out again is another process. `meant`, history, are the processes of the
application when they were listed, or the windows that had the title during the call. An
analysis captures before its first await and removes the picture when it ends. A picture is
"begun" once `save` has reserved its name. If the thread then raises, `save` removes the file
on the errors it expects (`screen.py:116-121`) and unless the system refuses; otherwise it
stays (`ThreadRaises`). A temporary one whose removal is refused is "stuck", and the analysis
fails (`Analyzed`).

`CallPromise` is what the three have in common: `matter` is the operation and what it is
about, `effect` says whether the call may still do something, `answer` what its caller was
told, `world` what the calls have done. A thread that is queued or at work is an effect that
is possible; how it ends makes it done or over. For the services `world` is the set of
calls that the server has carried out (`hit`), since the calendar itself is changed by other
clients too; a draft found in `_sent` is a call that repeats an earlier one (`Repeat`). For
the memories it is the table. For the desktop it is the pictures and the processes each
call has ended: windows and processes come and go by themselves. An analysis has its effect,
the picture, between its capture and its end, in the calling task and not in a thread.

### The window's pages and the code

`clicks` are tasks the window has scheduled: loads, changes, or something else that keeps
the controller busy. A task begins (`Begins`), reads or changes the records in the runtime,
returns (`Arrives`), and renders or tells the result, each in a step of its own. Cancelling
and deleting a reminder take two transactions, `Checks` and `MakesChange`; nothing is awaited
between them, so only other processes come in between (`BetweenTransactions`). Editing
compares in the transaction that writes. Only the
Memory and Tasks pages take turns with the chat; the Plugins page is read directly. A
row's texts, selection and an open edit dialog are kept as the window keeps them: the
selection is a row number, and the dialog works on the record it was opened for. `late` is
a change that was cancelled and goes on in its thread. `told` and `age` are history.
`Lists(rows, ids)` says that `rows` is the table of these records, in the order of their ids.

## 3. Runs

| Run | Result | What it shows |
|---|---|---|
| `reminder_delivery` | pass | two schedulers and a user, a fault at any step, and one scheduler with clashing series: `NoticeIsCurrent`, `ShownAtMostOnce`, `WakeNotLost`; implements `ReminderDelivery`; a surviving scheduler delivers what is due although the other died with its lease (`DueIsDelivered`); a stopped loop ends (`StopEndsLoop`) |
| `parts` | pass | any order of repository calls by two owners with stale clocks: `ClaimConsistent`, `StartedIsFrozen`, `LeaseRespected`, `NoResurrection`; daily, weekly and weekday rules over three zones: `OccurrencesAsIntended` (in the future, forward, nothing skipped, on allowed days); four turns of a conversation: `ExchangesForgotten`, `RequestsComplete`; start and end of an application: `QuietAfterClose`, `ClosedForGood` |
| `gui_session` | pass | two turns with prompts, cancels, timeouts, plug-in and window changes, voice and close: implements `TurnPromise`; `HonestCancel`, `NoKeysToTerminal`, `StatusTellsTruth` (with `NoOrphanPrompt`), `CancelEnds`, `PromptEnds` |
| `plugin_manager` | pass | automatic loading, two calls and the end of the application, with failing hooks, integrations and repository and callers cancelled anywhere: implements `CapabilityPromise`; `Accounted` (with `NothingLeft`), `StatusTellsTruth`, `HooksPaired`, `CallsEnd` |
| `host` | pass | browser, its resources, proxy, servers, memories, a page of the window and the desktop, each with calls cut off anywhere and a world that changes by itself: `ActsOnWhatWasShown`, `PagesAccounted`, `NothingOrphaned`, `OnePinPerHost`, `RepeatsWereAnnounced`, `ChangesWereConfirmed`, `MemoriesAsAnswered`, `PagesTellAndDo`, `DesktopAsAsked`; servers, memories and desktop each implement `CallPromise` (`CallsAsPromised`) |
| `failed_notice` | violation | docs/scheduling.md:116 promises that a failed notification releases its claim for a later poll; the row stays started for ever while both schedulers go on polling |
| `cancel_consent` | violation | docs/scheduling.md:66-68 promises that cancel and delete fail when the text changed; an edit between check and change is missed |
| `wall_clock` | violation | docs/scheduling.md:98 promises wall-clock intent; one occurrence in a spring gap shifts all later ones |
| `cancel_denies` | violation | gui/permissions.py:29-31 and docs/gui.md promise that cancelling denies; on Python 3.11 a cancel just after the approval is lost and the action runs |
| `incompatible` | violation | docs/plugins.md:142 promises that a plug-in for another API version is not registered; disabling it overwrites the mark, and enabling it then loads it |
| `unanswered_calls` | violation | ai/models.py:113 and core/runtime.py:376 promise that calls come with every required response; a turn cancelled while it acts leaves its calls in the history, and later requests show them without responses |
| `overtaken_start` | violation | docs/architecture.md:171 promises that `aclose()` stops each service; a window closed while `start()` runs leaves the scheduler's task running |

Bounds, and why they are enough to make the cases happen:

* `parts`: the four parts share no variable, so a run that explores them one at a time
  shows as much as one for each.
  Store: 2 ids, clock to 2, lease 1. Two ids are what a clash of identities, a deletion
  with reuse and a batch smaller than the due set need. With lease 1 and clock 2 a lease
  can be running, end exactly, and have ended, and a reading can be two instants old. The
  owners are symmetric: nothing orders them and every property quantifies over all.
  Recurrence: the start of the window and every hour of the days around the change, delays
  of 0, 1 and 25 hours, 11 days.
  Conversation: 4 turns, 2 ids that every answer may use again, plans of 0 to 3 calls with
  a limit of 2, at most 4 messages and 8 characters with lengths 1 and 4. An exchange takes
  3 of the 4 messages, so the next turn already pushes messages out, and from 3 to 9 of the
  8 characters, so it may fit or not. Four turns let an interrupted turn's calls meet a
  later turn with the same id and leave again.
  Application: 2 integrations, so that one can be connecting while the other is closed, and
  a registry that is not closed since one of them failed; plug-ins are loaded
  automatically. More integrations only repeat the steps of these two.
* `reminder_delivery`: two schedulers, one reminder, two texts, clock to 2, one fault up to
  instant 1, one request; and, apart from it (`Alone`), one scheduler without faults with two
  daily reminders and a request, or one reminder and two requests. The second situation is
  there for what the first cannot do: the next occurrence of a series that clashes with
  another reminder, and a reminder that is cancelled twice. With lease 1 a scheduler can die
  with its lease and the other take it over when it has ended. The bounds of `BoundedSpec`
  stop users and faults alone, never a step that fairness asks for. Staleness over more than one lease and more reminders are covered by the
  store's part of `parts` and, for safety, by the proofs. Host gives the user a scheduler in
  its own process, so wakes matter.
* `failed_notice`: one reminder that recurs, nobody is killed and no user interferes, so
  that the notifier's failure is the only trouble.
* `gui_session`: two turns (`MaxTurns`), two items per plan (`MaxPlan`), one voice
  capture at a time. Two turns are needed for a stale dialog and for the request
  accepted before the first waiter returns; two items for consent that must not carry
  over. The four actions are one for each way `check` can answer, one of them a
  plug-in's, one going to the keyboard. `MCRefusedPlans` refuses most pairs, to keep
  the instance small; the guard and the action limit refuse plans anyway.

* `plugin_manager`: `load_enabled`, two calls (`MaxCalls`, inspections included) and
  `shutdown`, so four calls can queue. One plug-in stages all three kinds; one has the
  same metadata name, an action of the same name and a subscription the bus rejects, so
  it is a duplicate, conflicts, or breaks off, depending on what was loaded, inspected
  or disabled before; one is for another API version. `Wanted` are those an earlier
  session may have left enabled. Hooks, integrations, imports and the repository can
  fail every time.

* `host`: the parts share no variable. Browser: a cap of 2 tabs and 3 pages, so that
  `new_tab` and one pop-up compete for the cap; 2 sessions, 2 snapshots in the first, 2
  documents per page, one thing a page does by itself (`MaxMoves`: a document, a name, a
  pop-up or a closing). One such thing is what each of the comparisons before a click has
  to notice. Resources: 3 session numbers, at most 2 open. Proxy: 3 connections of which 2
  fit, one host, 2 public addresses and another; the connections differ in nothing, so c1 is the first and
  c3 the last. Pages: 2 rows that differ at the start, 2
  tasks at a time, two changes on the Tasks page and one on each other one; a reminder that
  changes under a click takes one for the change and one for what the click does.
  Servers: 2 calls and one change by another client, so that a call left behind meets a
  later one; one draft and one event with 2 titles and 2 starts, so that each comparison can
  fail. Memory: 3 requests, 2 spellings of one
  key, its category and another, one restart; with 3 an abandoned thread can act after
  two later requests were answered. Desktop: 2 calls, 3 processes of two applications with
  the same image name, 2 windows of which the second comes with the second editor, one thing
  that happens by itself (`MaxTurmoil`). Names, texts, titles, captions and spellings are
  only compared, hence symmetric.

Deadlock is checked in the scheduler, session and plug-in runs. The parts of
`parts` and `host` stop at their bounds, and a closed application stops (`CHECK_DEADLOCK FALSE`).

Fairness. Plug-ins: `WF` of the step the lock's holder is at, and of the sweep. This
assumes that hooks, listeners and `close()` return, since the code puts no time limit on
them; cancellations are never obliged. Scheduler: `WF` of each scheduler's `RunStep` and
`PollStep` (the event loop and the worker threads run what is ready, the poll interval elapses) and of the clock.
Session: one `WF` of `LoopWork`, i.e. the event loop does some of its work as long as
there is any; this includes the prompt's timer, which exists unless the broker is built
with `timeout_seconds=None` (the default is 300 seconds). Users, notifier failures,
kills, model providers and action handlers are never obliged to do anything, so
`CancelEnds` holds even for a handler that would never return by itself.

## 4. Proofs

All theorems hold for every value of the constants that the named assumptions of the
modules admit: any number of schedulers, users, reminders, texts and instants. Three say
one thing more in their hypotheses: `KeepsAnswer` for two of the session, `GapsWithinADay` for
one of the recurrence.

| Theorem | Statement |
|---|---|
| `StoreTypeCorrect`, `ClaimsConsistent` | types, and agreement of owner, lease end, start and status |
| `StartedRowsFrozen`, `RunningLeasesRespected`, `NoIdResurrected` | the table's action properties |
| `TypesCorrect`, `NoticesCurrent`, `NeverShownTwice` | the scheduler's invariants |
| `WakesAreKept` | `WakeNotLost`, for any number of schedulers and users |
| `TableImplemented` | the subsystem uses the table as `ReminderStore` specifies, so the table's theorems hold in it |
| `DeliveryImplemented` | the subsystem implements `ReminderDelivery` |
| `SessionTypeCorrect`, `StatusIsTrue`, `KeysAvoidTerminals` | types, `StatusTellsTruth` (with `NoOrphanPrompt`) and `NoKeysToTerminal`, for any number of turns, items, actions and windows and both versions of `wait_for` |
| `CancellationsHonest`, `TurnsImplemented` | `HonestCancel`, and the session implements `TurnPromise`, where `wait_for` lets a cancellation win |
| `PluginTypeCorrect`, `PluginStatusIsTrue`, `HooksComeInPairs` | types, `StatusTellsTruth` and `HooksPaired`, for any plug-ins, whatever they stage and however often the manager is called |
| `PluginsAccounted` | `Accounted`: nothing registered is forgotten, and nothing is left after the end that is not shown |
| `CapabilitiesImplemented` | the plug-in lifecycle implements `CapabilityPromise` |
| `ConversationTypeCorrect`, `ExchangesAreForgotten` | types, and `ExchangesForgotten` |
| `RequestsAreComplete` | `RequestsComplete`, for any bounds and lengths of messages; `ResultsKeepTheirCalls` is its first part |
| `OccurrencesInOrder` | schedules start in the future, move forward and skip nothing, for any zones, rules, times and delays |
| `OccurrencesAreAsIntended` | `OccurrencesAsIntended`, where no gap of a zone reaches into another day |
| `BrowserTypeCorrect`, `PagesAreAccounted` | types, and `PagesAccounted`, for any cap on tabs, pages, pop-ups and sessions |
| `ActsAreOnWhatWasShown` | `ActsOnWhatWasShown`, whatever the pages do by themselves |
| `PagesTypeCorrect`, `PagesTellAndDoRight` | types, and `PagesTellAndDo`, for any number of records and overlapping tasks |
| `HostTypeCorrect` | the types of the parts of `host`, as they are explored together |
| `CallsImplemented` | `CallsAsPromised`: the three refinements of `CallPromise` above, in the composition that `host` explores |
| `ApplicationTypeCorrect`, `ClosedApplicationIsQuiet`, `NothingReopens` | types, `QuietAfterClose` and `ClosedForGood`, for any number of integrations |
| `ResourcesTypeCorrect`, `NothingIsOrphaned` | types, and `NothingOrphaned`, for any number of sessions |
| `EgressTypeCorrect`, `HostsArePinned` | types, and `OnePinPerHost`, for any hosts, addresses and connections |
| `RemoteTypeCorrect`, `MemoryTypeCorrect`, `DesktopTypeCorrect` | types |
| `ApprovedChangesOnly` | `ChangesWereConfirmed`, for any number of calls and other clients |
| `RepeatsAreAnnounced` | `RepeatsWereAnnounced`, for any number of drafts and calls |
| `AnswersCanBeReliedOn` | `MemoriesAsAnswered`, for any memories, requests, abandoned threads and restarts |
| `DesktopKeepsItsWord` | `DesktopAsAsked`, for any number of calls, processes and windows |
| `RemoteCallsImplemented`, `MemoryCallsImplemented`, `DeskCallsImplemented` | the services, the memories and the desktop implement `CallPromise`, whatever fails, times out or is cancelled |

The table. `StoreInv` (types and `ClaimConsistent`) is inductive. It is a statement
about each row, so most methods touch one row and share `OneRowInv`. The action
properties follow from one lemma per method.

The schedulers. `NoticeIsCurrent` and `ShownAtMostOnce` are not inductive. `IInv` adds:

* `PastOnly`: the instants a scheduler carries lie in the past, so a row whose claim it
  still owns was due when it claimed it;
* `HeldCurrent`: as long as a scheduler owns the claim, its snapshot of the row is
  current. `begin_delivery` compares only the due time, so without this an edited text
  could be shown;
* `ShownInStep`: an occurrence is unshown while its scheduler is notifying and shown
  while it is marking, and nothing was shown for an id not given out.

Users and other schedulers preserve it because every change of a claimed row clears or
replaces the owner (`HeldStep`, `UserKeepsOwned`), and at most one scheduler is past
`begin_delivery` for a row (`OneDeliverer`).

The refinement maps a row to its stage (`StageTable`); one lemma per action shows the
abstract step or stutter.

`WakeNotLost` speaks of a scheduler that waits; `WakePending` says of every scheduler that a
change it has not seen leaves its event set until it claims again, wherever it stands. It is
inductive because requests set both and the loop clears the event only to claim.

The recurrence. The invariant is small (`RecurrenceInv`: a due time has a local day, and
creation is less than a day past it); the work is in what the functions compute. `NextIs`
says that `NextOccurrence` returns the wall time on the first allowed day on which it lies
past the trigger, and for that that one of the searched days does. `LocalizeIs` and
`LocalizeExists` say which instant a wall time becomes, in a gap and in a fold. For
`NothingSkipped`, an instant in between with the same wall time on an allowed day is the first
reading of its local time; then that day's own instant was past the trigger, so an earlier or
the same day was taken, and its instant is no later (`LaterDay`, or `FoldOnce` if the due time
lay in a fold itself). Assumed are `ClockChanges` (a clock is put back by less than a day, and
forward by a day at most), which is true of all zones since 1900, and the bound `DelaysFit`.

`RightDay` needs `GapsWithinADay`. Where the clock goes from 23:00 to midnight, as it did in
Greenland on 30 March 2024, a reminder for that hour is advanced to the next day and stays
there: a Saturday's becomes a Sunday's. This is the disagreement of run `wall_clock`, in a
zone the runs do not have; `OccurrencesInOrder` holds there too.

The session. `SessionInv` is inductive. Besides the types it says what the record of a turn
holds at each place: how far in its plan it is and what of it has run (`PlaceFits`), that
keyboard input is bound to a window that was no terminal (`WindowFits`), and what the policy
said (`PolicyFits`). A turn is there exactly as long as somebody waits for it (`WaiterFits`),
what a prompt let through was allowed by a click on that very prompt (`ConsentFits`), and
one turn is carried out at a time (`OneActive`). `StatusTellsTruth` is then kept by every
step. `NoKeysToTerminal` and the refinement follow step by step. The items a turn still has to
do and those it has done are read from its place in the plan, so that each mapped step
is one of the promise's or a stutter.

Two results assume `~KeepsAnswer` (Python 3.12). With `KeepsAnswer` a cancellation that
`close()` makes while the answer is there is swallowed; the action runs although the cards are
no longer updated, and a later cancellation is reported over a card that says
REQUESTED, which TLC shows to violate `HonestCancel`; and a turn of which a cancellation was
lost goes on after the promise says it is over. This is the disagreement of run
`cancel_denies`, not one of the proof. `CardInv` is what the assumption gives: in a
closed session every turn under way is cancelled (`ClosedFits`), no cancellation is lost
(`NoneLost`), and what has run has a card that says so (`CardFits`).

The plug-ins. None of the properties is inductive: they speak of the time between two
calls, or of names without saying who will remove them. `ManagerInv` says for each plug-in
what holds at the place the lock's holder is at. `HoldingFits`: it has only names it stages,
and as long as nobody takes it down its record lists exactly what it has, everything if it is
loaded, otherwise some integrations that could not be closed. `RemovalFits`: during a removal
what is left to remove and what could not be removed is what it has; of a rollback the
record knows nothing. `LoadFits` and `RecordFits` say what its record reads during
a load and a removal, and when neither is under way. `PlaceFits` says which call stands where and
why. That a commit disturbs no other plug-in (`NothingStagedIsRegistered`) needs `_preflight` for
the names that are looked up and that subscriptions differ for the rest.

`SweepFits` adds the order in which things are closed: once `aclose()` has begun `shutdown` is
the last call in the queue; when it has the lock, every plug-in it has passed is clean, and
the others are still in its loop. The refinement maps a plug-in to "leaving" from the
moment its removal begins. Five lemmas say what a step may look like (`QuietStep`,
`LeavingStep`, `WithdrawalStep`, `TakingStep` and the stutter of `ElsewherePromised`) and which
step of the promise that is; each action is then shown to be of one of these forms.

The conversation. `ExchangesForgotten` speaks of one request; the invariant `HistoryInv`
says what the list may hold at each stage. Messages are numbered below `fresh`; results
exist only while a summary is awaited and answer the current turn's calls
(`ResultsAreCurrent`); calls belong to the current turn or an interrupted one
(`CallsAreCurrent`) and, while they are carried out, are the last message
(`CallsAreLast`); and every result follows its call within one group (`Closed`).
`EndsAreClosed` is the point about the bounds: of a closed list, every union of ends that
begin with a group's head is closed, since a call in front of such an end whose result
lies in it would own the head.

`RequestsComplete` speaks of what fits. The longest end that fits contains every other, so
it suffices that the command alone, and the end of the list from the calls on, are ends of
whole groups that fit (`CommandIsSent`, `EndIsSent`). For their lengths, `SumsAgree`, `SumsExist`
and the lemmas after them take a sum apart element by element, by the smallest set for which
it fails: the library's induction cannot be used. The results of a turn fit because each of
them is granted what the budget has left when those still to come have their least
(`BudgetHolds`, `ResultsFit`), and their number because `MaxActions < MaxMessages`.

The application. `QuietAfterClose` says nothing before the end. `AppInv` adds what leads
to it: the locks agree with the awaits of `start()` and of the sweep (`LocksAgree`); when
`aclose()` begins, `start()` is over unless it is overtaken, the scheduler's task is among
what is waited for, and behind the sweep every integration is closed or failed
(`Settled`); and the registry's close is done only when the sweep has passed the last one
(`SweepAgrees`). `ClosedForGood` needs of it that an integration's lock keeps connecting
and closing apart.

The browser's resources. `NothingOrphaned` is not inductive: a step that adds a proxy under
the session number in hand needs that nothing was made under that number before, and the
end of `shutdown` that nothing is made after it. `ResourcesInv` adds `NumbersFresh` (numbers
in use are below `next`, and which of its resources a session in the making has) and
`ShutdownAgrees` (once `_closed` is set nobody is making anything and the table is empty;
what the awaits of `shutdown` have already released).

The proxy. `EgressInv` adds `LeftArePinned`: the addresses a connection has yet to try lie
in the answer pinned for its host, so that what it connects to does; and a client that
waits for the policy asks for a host. A pin, once set, does not change.

The browser session. `CallFits` says what an action that waits may rely on: that a page made
by `new_tab` is not a tab yet and there is room for it, that one which closes is not the only
tab. `SessionFits`: tabs and adoptions are of pages that exist, and a closed session has
none. `PagesAccounted` then survives pop-ups, pages that close and actions that end early.
For the interactions, `SnapshotFits` says that the provider's elements and the service's
snapshot are of the same moment, and `InteractFits` that an interaction between look-up and
touch holds the element of the snapshot it was approved for, on the current tab, with no
other completed since. That the page itself has not moved is what the second check
establishes, so only `Verify` and `Touch` need it.

The window's pages. `ClickFits`: a change that has not been made is about the row its user
saw, before and after its comparison. That only `Checks` and `MakesChange` bring a task this
far (`GetsThisFar`) leaves two steps to look at. `ResultsInOrder`: on the pages that take turns one task is underway and one result waits
to be told, no older than what was told; the next is no older than that one. The
Plugins page is excluded, its lists do not take turns.

The calendar. `Agreement`, for each call: a change whose event was compared agreed at some
moment before, and one whose event, or what it has read of it, would now pass the comparison
agreed when it became so. The other clients' steps preserve it because they mark the calls
that have not compared yet.

The mail. The second part of `RepeatsWereAnnounced` speaks of sends that have happened; to
keep it, an invariant must speak of those that may still happen. `RepeatsFailed`: all earlier
calls for a draft that may yet go out were answered with a failure. That a new send keeps it
needs `SentIsRecorded` (a success is in `_sent`, and `_sent` holds only what was sent) and
`OneAtATime` (all earlier calls are answered when one begins); `DoneWhenAnswered` is the first
part of the property and what a thread's end means for it. `Moves` says once what any step may
do to a call, and `MovesKeep` that a step of that form preserves the four.

The memories. The property speaks of answered requests only; the invariant speaks of every
thread that has ended (`ForgottenWhenDone`, `KeptWhenDone`), awaited or not, and
`AnsweredIsDone` says that an answer with success implies it and that `after` only holds
answered requests.

The desktop. `Good` says of each call what its thread has made sure of so far: of the
processes a close has listed only those it has yet to end are alive (an ended process
does not come back), all it ends run the application, and every window that now has the
title is among those meant as long as the call lasts. `MovingOnKeeps` is the step of the
others: processes that start and end disturb no call.

The refinements of `CallPromise`. One call's step changes that call's matter, effect and
answer only (`RequestMapped`, `DeskMapped`, `CallMapped`); then one lemma per kind of step shows which
step of the promise it is: a call is made, its thread acts, it is answered. The memories and
the desktop need only the invariants above: a success is answered when the thread is done,
and nothing that is waited for was given up. The services need `ThreadsAct` also: the server
has done nothing for a call whose thread has yet to ask it, and a success is answered with
the end of the thread. That a draft found in `_sent` repeats what was done is `SentIsRecorded`. Other
clients, links and, on the desktop, processes and windows are stutters: they change nothing
that calls have done.

The types. For the pages, `PagesTyped` adds to them what a task holds between its steps: the rows
it has read, what it writes, and an age that is not in the future; that the current row lies
in the table is what `Show` keeps. `HostInv`, with `CallsInv` for the calls, states for the
part under exploration the invariant that was proved of it; the others rest. `HostTypeCorrect` and
`CallsImplemented` follow from it.

Only model-checked, and why: all liveness (`DueIsDelivered`, `StopEndsLoop`, `CancelEnds`, `PromptEnds`,
`CallsEnd`), which is out of the prover's reach. Every other property of a passing run is
a theorem, within these limits: with `KeepsAnswer`, `HonestCancel` and the refinement of
`TurnPromise` do not hold in general, and the run's instance has `KeepsAnswer = FALSE`;
`RightDay` does not hold in zones outside `GapsWithinADay`. The violations are
counterexamples. That `WF` conditions carry over to an abstract specification is not claimed:
the four promises state safety.

## 5. Not modelled, and why

Text matching (planner, router), argument schemas and formatting have no state. Of the
devices and protocols only what they leave behind is modelled: requests and their parsing,
speech, system readings, keyboard and mouse are handlers that return, fail or never end.
The resolution of catalogue names and the extraction of a page's text are data.
The plug-in registry is a set of
names: that a reloaded plug-in may put another action under an authorised name is listed
as a hazard. The wall clock's steps back are refused by the code in several places;
`MarkRefused` and `SkipJob` model the refusals, the clock itself only advances.

After `close()` the controller's status can leave STOPPED again, and between the end of
a turn and the return of its waiter the status can read idle while another turn runs.
The model has both; `StatusTellsTruth` claims only what the code keeps. The window can
still change between `verify` and the input; `NoKeysToTerminal` ends at `verify`.

A notification that fails after delivery began leaves its row started for ever: `poll` notes
the failure and goes on (`scheduler.py:161-165`), and nothing takes a started row up again.
The comment there and `tests/test_tasks.py` want it so, and `ShownAtMostOnce` depends on it.
docs/scheduling.md:116 promises a retry, which run `failed_notice` refutes; the retry after
lease expiry that docs/scheduling.md:129-131 and the comment at `scheduler.py:182` speak of
does not happen either.

A calendar event is compared in one request and changed in another. `ChangesWereConfirmed`
ends at the comparison: what another client makes of the event between the two is changed or
deleted unseen, and the model has it. docs/integrations.md:158-160 ("re-reads the live event
before mutation and refuses stale targets") can be read as promising more than the code keeps.
The same gap in the reminders is run `cancel_consent`.

Further simplifications. The window's message boxes run a nested event loop; they are
taken to be dismissed at once. Deliveries of events to listeners that are removed meanwhile
are not modelled. A browser process that dies by itself, which
the controller goes on using, is not modelled either. A load that finds the controller busy
blanks its table (`TurnedAway`), and `delete_memory` has no expected value: the model has
both, `PagesTellAndDo` does not speak of them.

What the code does and no property forbids. A click that times out after the page has acted
leaves the snapshot valid (docs/browser.md:72 says that interactions invalidate it).
`ActsOnWhatWasShown` holds nevertheless, as the page is compared with the snapshot before it
is touched. A close
whose call was cancelled before its thread began can end a process that a later open has
started. The bounds of `capture_active_window` may be old when the picture is taken. A capture
cut off by the end of the program leaves an empty file, one that fails with an error `save`
does not expect may, too, and a killed program leaves its temporary picture; that these are
the only ways is part of `DesktopAsAsked` (`PicturesAccounted`).

## 6. Plan

Done: reminders, recurrence, turns and prompts, plug-ins, conversation, application, the
browser, the servers' writes, memory, the window's pages and the desktop, with the abstract
specifications `ReminderDelivery`, `TurnPromise`, `CapabilityPromise` and `CallPromise`, and a
theorem for every safety property that a passing run checks.

Next: deliveries of the event bus to listeners that are removed meanwhile, over the plug-ins;
steps back of the wall clock.
