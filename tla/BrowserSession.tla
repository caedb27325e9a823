---------------------------- MODULE BrowserSession ----------------------------
(***************************************************************************)
(* One browser session (PlaywrightBrowserSession in                        *)
(* src/jarvis/browser/playwright.py) and the action service in front of it *)
(* (BrowserActionService in src/jarvis/browser/actions.py): tabs, pop-ups, *)
(* the snapshot a user sees and the elements an approved action may touch. *)
(*                                                                         *)
(* Browser actions run one after the other.  Pages act by themselves at    *)
(* any time, pop-ups are adopted by tasks, an action ends early at any     *)
(* await (time-out, error, cancelled turn) and the application closes the  *)
(* browser.  A page has one interactive element; its document and the      *)
(* element's role and name are what the properties tell apart.             *)
(***************************************************************************)
EXTENDS Integers, Sequences, SequencesExt, FiniteSets

CONSTANTS
    MaxTabs,        \* limits.max_tabs_per_session
    Labels,         \* role and accessible name of an element
    Nothing,
    MaxSessions,    \* BOUND: sessions started
    MaxPages,       \* BOUND: pages of a session
    MaxSnapshots,   \* BOUND: snapshots of the first session; one fewer in each later one
    MaxDocuments,   \* BOUND: documents a page loads
    MaxMoves        \* BOUND: what pages do by themselves, pop-ups included

ASSUME BrowserConstants ==
    /\ MaxTabs \in Nat \ {0} /\ MaxPages \in Nat \ {0} /\ MaxDocuments \in Nat \ {0}
    /\ MaxSessions \in Nat /\ MaxSnapshots \in Nat /\ MaxMoves \in Nat
    /\ Nothing \notin Nat

\* Page objects, numbered in the order in which they appear.
Pages == 1 .. MaxPages

VARIABLES
    session,    \* sessions started so far; the last one is modelled
    active,     \* BrowserActionService._active is that session
    closed,     \* _closed
    serviceStopped, \* BrowserActionService.shutdown has been called
    open,       \* pages that exist in the browser
    adopting,   \* pages with a task in _page_tasks
    asked,      \* pages whose close() was called and not waited for here
    tabs,       \* _tabs, in the order of the dictionary
    current,    \* _active_tab_id
    doc,        \* the document a page shows; 0 before the page exists
    label,      \* role and name of the page's element
    generation, \* _snapshot_generation
    elements,   \* _elements
    shown,      \* BrowserActionService._snapshot
    call,       \* the browser action that runs and holds _lock
    spent,      \* history: an interaction, navigation or tab change has ended since `shown`
    moves

browserVars ==
    <<session, active, closed, serviceStopped, open, adopting, asked, tabs, current, doc, label,
      generation, elements, shown, call, spent, moves>>

serviceVars == <<session, active, serviceStopped>>
contentVars == <<doc, label>>
snapshotVars == <<generation, elements, shown, spent>>

\* An element of the snapshot as _BoundElement keeps it.
Bound == [id : 1 .. MaxSnapshots, page : Pages, doc : Nat, label : Labels]
Snapshots == [session : 1 .. MaxSessions, id : 1 .. MaxSnapshots, page : Pages, doc : Nat,
              label : Labels]

NoCall == [kind |-> "none", at |-> "none", page |-> Nothing, label |-> Nothing,
           handle |-> Nothing, basis |-> Nothing]
Idle == call = NoCall
Calling(kind, at, p) == [NoCall EXCEPT !.kind = kind, !.at = at, !.page = p]

\* The service has an active session and the session is open (session(), _ensure_open).  The
\* lock is given in the order in which it was asked for: tasks of earlier pages come first.
Usable == Idle /\ active /\ ~closed /\ adopting = {}

NoBrowserYet ==
    /\ session = 0 /\ active = FALSE /\ closed = TRUE /\ serviceStopped = FALSE
    /\ open = {} /\ adopting = {} /\ asked = {} /\ tabs = <<>> /\ current = Nothing
    /\ doc = [p \in Pages |-> 0]
    /\ generation = 0 /\ elements = {} /\ shown = Nothing
    /\ call = NoCall /\ spent = FALSE /\ moves = 0

BrowserInit == NoBrowserYet /\ label \in {[p \in Pages |-> n] : n \in Labels}

\* Variant: the elements survive.
KeepElements ==
    /\ UNCHANGED elements
    /\ spent' = TRUE

\* _invalidate_snapshot, at the end of something that may have changed the page.
Invalidate ==
    /\ elements' = {}
    /\ spent' = TRUE

----------------------------------------------------------------------------
(* Sessions.                                                               *)

\* start(): a new context with one page, whose "page" event also starts a task.
StartSession ==
    /\ Idle /\ ~active /\ closed /\ ~serviceStopped
    /\ session < MaxSessions
    /\ session' = session + 1
    /\ active' = TRUE /\ closed' = FALSE
    /\ open' = {1} /\ adopting' = {1} /\ tabs' = <<1>> /\ current' = 1
    /\ doc' = [p \in Pages |-> IF p = 1 THEN 1 ELSE 0]
    /\ asked' = {}
    /\ generation' = 0 /\ elements' = {} /\ shown' = Nothing /\ spent' = FALSE
    /\ UNCHANGED <<serviceStopped, label, call, moves>>

\* PlaywrightBrowserSession.close; the pages go with their context (BrowserResources).
SessionCloses ==
    /\ closed' = TRUE
    /\ tabs' = <<>> /\ adopting' = {}
    /\ elements' = {}
    /\ open' = {} /\ asked' = {} /\ doc' = [p \in Pages |-> 0]

ServiceClose ==
    /\ Usable
    /\ active' = FALSE /\ shown' = Nothing
    /\ SessionCloses
    /\ UNCHANGED <<session, serviceStopped, current, label, generation, call, spent, moves>>

\* shutdown() forgets the session; the controller closes it when its lock is free.
ServiceShutdown ==
    /\ ~serviceStopped
    /\ serviceStopped' = TRUE /\ active' = FALSE /\ shown' = Nothing
    /\ UNCHANGED <<session, closed, open, adopting, asked, tabs, current, contentVars, generation,
                   elements, call, spent, moves>>

ShutdownCloses ==
    /\ serviceStopped /\ ~closed /\ Idle
    /\ SessionCloses
    /\ UNCHANGED <<serviceVars, current, label, generation, shown, call, spent, moves>>

----------------------------------------------------------------------------
(* Pages.                                                                  *)

\* The next page to appear.
Fresh == {p \in Pages : doc[p] = 0 /\ \A q \in 1 .. (p - 1) : doc[q] # 0}
Known(p) == p \in Range(tabs)

\* A script opens a page; _on_context_page starts a task for it.
PopUp(p) ==
    /\ ~closed /\ open # {}
    /\ p \in Fresh /\ moves < MaxMoves
    /\ open' = open \cup {p} /\ adopting' = adopting \cup {p}
    /\ doc' = [doc EXCEPT ![p] = 1]
    /\ moves' = moves + 1
    /\ UNCHANGED <<serviceVars, closed, asked, tabs, current, label, snapshotVars, call>>

AdoptKnown(p) ==
    /\ p \in adopting /\ Idle /\ ~closed
    /\ Known(p)
    /\ adopting' = adopting \ {p}
    /\ UNCHANGED <<serviceVars, closed, open, asked, tabs, current, contentVars, snapshotVars,
                   call, moves>>

\* Variant: a page beyond the cap is forgotten.
AdoptForgets(p) ==
    /\ p \in adopting /\ Idle /\ ~closed
    /\ ~Known(p) /\ Len(tabs) >= MaxTabs
    /\ adopting' = adopting \ {p}
    /\ UNCHANGED <<serviceVars, closed, open, asked, tabs, current, contentVars, snapshotVars,
                   call, moves>>

AdoptRefused(p) ==
    /\ p \in adopting /\ Idle /\ ~closed
    /\ ~Known(p) /\ Len(tabs) >= MaxTabs
    /\ adopting' = adopting \ {p}
    /\ asked' = asked \cup {p}
    /\ UNCHANGED <<serviceVars, closed, open, tabs, current, contentVars, snapshotVars, call, moves>>

Adopt(p) ==
    /\ p \in adopting /\ Idle /\ ~closed
    /\ ~Known(p) /\ Len(tabs) < MaxTabs
    /\ adopting' = adopting \ {p}
    /\ tabs' = Append(tabs, p) /\ current' = p
    /\ Invalidate
    /\ UNCHANGED <<serviceVars, closed, open, asked, contentVars, generation, shown, call, moves>>

\* close() of a page takes effect.
PageGone(p) ==
    /\ p \in asked \cap open
    /\ open' = open \ {p} /\ asked' = asked \ {p}
    /\ UNCHANGED <<serviceVars, closed, adopting, tabs, current, contentVars, snapshotVars, call,
                   moves>>

\* A page closes itself, renames its element or loads another document.
PageMoves(p) ==
    /\ p \in open /\ moves < MaxMoves
    /\ moves' = moves + 1
    /\ \/ open' = open \ {p} /\ UNCHANGED contentVars
       \/ \E n \in Labels : label' = [label EXCEPT ![p] = n] /\ UNCHANGED <<open, doc>>
       \/ /\ doc[p] < MaxDocuments
          /\ doc' = [doc EXCEPT ![p] = @ + 1]
          /\ UNCHANGED <<open, label>>
    /\ UNCHANGED <<serviceVars, closed, adopting, asked, tabs, current, snapshotVars, call>>

----------------------------------------------------------------------------
(* Tabs.                                                                   *)

CallOnly == UNCHANGED <<serviceVars, closed, open, adopting, asked, tabs, current, contentVars,
                        snapshotVars, moves>>

NewTab ==
    /\ Usable
    /\ Len(tabs) < MaxTabs
    /\ call' = Calling("tab", "opening", Nothing)
    /\ CallOnly

\* context.new_page(): the page is there, and its event, before the call has returned.
TabAppears(p) ==
    /\ call.at = "opening"
    /\ p \in Fresh
    /\ open' = open \cup {p} /\ adopting' = adopting \cup {p}
    /\ doc' = [doc EXCEPT ![p] = 1]
    /\ call' = [call EXCEPT !.at = "opened", !.page = p]
    /\ UNCHANGED <<serviceVars, closed, asked, tabs, current, label, snapshotVars, moves>>

TabOpened ==
    /\ call.at = "opened"
    /\ tabs' = Append(tabs, call.page) /\ current' = call.page
    /\ \/ call' = NoCall
       \/ call' = [call EXCEPT !.at = "going"]
    /\ UNCHANGED <<serviceVars, closed, open, adopting, asked, contentVars, snapshotVars, moves>>

CloseTab(p) ==
    /\ Usable
    /\ Known(p) /\ Len(tabs) # 1
    /\ call' = Calling("tab", "closing", p)
    /\ CallOnly

\* Where a tab is in the dictionary.
TabPlace(p) == CHOOSE i \in DOMAIN tabs : tabs[i] = p

TabClosed ==
    /\ call.at = "closing"
    /\ open' = open \ {call.page}
    /\ tabs' = RemoveAt(tabs, TabPlace(call.page))
    /\ current' = IF current = call.page THEN Head(tabs') ELSE current
    /\ Invalidate
    /\ call' = NoCall
    /\ UNCHANGED <<serviceVars, closed, adopting, asked, contentVars, generation, shown, moves>>

SwitchTab(p) ==
    /\ Usable
    /\ Known(p) /\ p \in open
    /\ current' = p
    /\ Invalidate
    /\ UNCHANGED <<serviceVars, closed, open, adopting, asked, tabs, contentVars, generation, shown,
                   call, moves>>

----------------------------------------------------------------------------
(* Navigation.                                                             *)

Navigate ==
    /\ Usable
    /\ call' = Calling("navigate", "going", current)
    /\ CallOnly

History ==
    /\ Usable
    /\ call' = Calling("history", "going", current)
    /\ CallOnly

\* goto, go_back, go_forward or reload reaches the page.
Loads ==
    /\ call.at = "going" /\ call.page \in open
    /\ \/ /\ doc[call.page] < MaxDocuments
          /\ doc' = [doc EXCEPT ![call.page] = @ + 1]
       \/ /\ call.kind = "history"      \* there is nothing to go back to
          /\ UNCHANGED doc
    /\ call' = [call EXCEPT !.at = "landed"]
    /\ UNCHANGED <<serviceVars, closed, open, adopting, asked, tabs, current, label, snapshotVars,
                   moves>>

\* The target is safe: the snapshot ends, in the session and for navigate, back, forward
\* and reload also in the service.
Lands ==
    /\ call.at = "landed"
    /\ Invalidate
    /\ shown' = IF call.kind = "tab" THEN shown ELSE Nothing
    /\ call' = NoCall
    /\ UNCHANGED <<serviceVars, closed, open, adopting, asked, tabs, current, contentVars,
                   generation, moves>>

\* _navigate_page left for an unsafe target goes back; history only reports it.
LandsUnsafe ==
    /\ call.at = "landed"
    /\ Invalidate
    /\ IF call.kind # "history" /\ call.page \in open /\ doc[call.page] < MaxDocuments
       THEN doc' = [doc EXCEPT ![call.page] = @ + 1]
       ELSE UNCHANGED doc
    /\ call' = NoCall
    /\ UNCHANGED <<serviceVars, closed, open, adopting, asked, tabs, current, label, generation,
                   shown, moves>>

Scroll ==
    /\ Usable
    /\ current \in open
    /\ Invalidate
    /\ shown' = Nothing
    /\ UNCHANGED <<serviceVars, closed, open, adopting, asked, tabs, current, contentVars,
                   generation, call, moves>>

----------------------------------------------------------------------------
(* Reading, and touching what was read.                                    *)

\* title, url, visible_text and find read while they hold the lock; so does snapshot() first.
Read ==
    /\ Usable
    /\ current \in open
    /\ call' = Calling("read", "text", current)
    /\ CallOnly

\* Variant: the number is given when the snapshot is ready.
NumberLater ==
    /\ call.at = "text"
    /\ session + generation <= MaxSnapshots
    /\ call' = [call EXCEPT !.at = "elements"]
    /\ UNCHANGED <<serviceVars, closed, open, adopting, asked, tabs, current, contentVars,
                   snapshotVars, moves>>

\* snapshot() then gives the snapshot its number ...
NumberSnapshot ==
    /\ call.at = "text"
    /\ session + generation <= MaxSnapshots
    /\ generation' = generation + 1
    /\ call' = [call EXCEPT !.at = "elements"]
    /\ UNCHANGED <<serviceVars, closed, open, adopting, asked, tabs, current, contentVars, elements,
                   shown, spent, moves>>

\* ... and reads the elements; one that cannot be read is left out.
SnapshotTaken ==
    /\ call.at = "elements"
    /\ LET p == call.page
           e == [id |-> generation, page |-> p, doc |-> doc[p], label |-> label[p]]
       IN  \/ /\ p \in open
              /\ elements' = {e}
              /\ shown' = [session |-> session, id |-> generation, page |-> p, doc |-> doc[p],
                           label |-> label[p]]
           \/ elements' = {} /\ shown' = Nothing
    /\ spent' = FALSE
    /\ call' = NoCall
    /\ UNCHANGED <<serviceVars, closed, open, adopting, asked, tabs, current, contentVars,
                   generation, moves>>

\* target(): the approved id, role and name are those of the latest snapshot.
Targets(id, n) == shown # Nothing /\ shown.id = id /\ shown.label = n

\* _resolve_element: the id is known and its tab and page are still the current ones.  (It
\* also compares the page's URL, which can only refuse more.)
Resolves(e) == current = e.page

\* browser_click, browser_type or browser_press_key, approved for this id and name.
Interact(id, n) ==
    /\ Usable
    /\ Targets(id, n)
    /\ \E e \in elements :
          /\ e.id = id
          /\ Resolves(e)
          /\ call' = [Calling("interact", "found", e.page) EXCEPT !.label = n, !.handle = e,
                                                                  !.basis = shown]
    /\ CallOnly

\* The node is still in its page.
StillThere(e) == e.page \in open /\ doc[e.page] = e.doc

\* It also has the same role and name.
Unchanged(e) == e.page \in open /\ doc[e.page] = e.doc /\ label[e.page] = e.label

Verify ==
    /\ call.at = "found"
    /\ Unchanged(call.handle)
    /\ call' = [call EXCEPT !.at = "verified"]
    /\ CallOnly

\* The handle is used; it works only on a node that is still in its page.
Touch ==
    /\ call.at = "verified"
    /\ StillThere(call.handle)
    /\ call' = [call EXCEPT !.at = "touched"]
    /\ CallOnly

\* The page is safe afterwards; or there was no text to type.
Touched ==
    /\ call.at \in {"touched", "verified"}
    /\ Invalidate
    /\ shown' = Nothing
    /\ call' = NoCall
    /\ UNCHANGED <<serviceVars, closed, open, adopting, asked, tabs, current, contentVars,
                   generation, moves>>

\* Any call ends at an await: an error, a time-out, a cancelled turn, or (a read) its answer.
CallEnds ==
    /\ ~Idle
    /\ call' = NoCall
    /\ CallOnly

----------------------------------------------------------------------------
BrowserNext ==
    \/ StartSession \/ ServiceClose \/ ServiceShutdown \/ ShutdownCloses
    \/ \E p \in Pages :
          \/ PopUp(p) \/ AdoptKnown(p) \/ AdoptRefused(p) \/ Adopt(p) \/ PageGone(p)
          \/ PageMoves(p) \/ TabAppears(p) \/ CloseTab(p) \/ SwitchTab(p)
    \/ NewTab \/ TabOpened \/ TabClosed
    \/ Navigate \/ History \/ Loads \/ Lands \/ LandsUnsafe \/ Scroll
    \/ Read \/ NumberSnapshot \/ SnapshotTaken
    \/ \E id \in 1 .. MaxSnapshots, n \in Labels : Interact(id, n)
    \/ Verify \/ Touch \/ Touched \/ CallEnds

BrowserSpec == BrowserInit /\ [][BrowserNext]_browserVars

----------------------------------------------------------------------------
(* Properties.                                                             *)

BrowserTypeOK ==
    /\ session \in 0 .. MaxSessions /\ generation \in 0 .. MaxSnapshots
    /\ active \in BOOLEAN /\ closed \in BOOLEAN /\ serviceStopped \in BOOLEAN /\ spent \in BOOLEAN
    /\ open \subseteq Pages /\ adopting \subseteq Pages /\ asked \subseteq Pages
    /\ tabs \in Seq(Pages) /\ current \in Pages \cup {Nothing}
    /\ doc \in [Pages -> 0 .. MaxDocuments]
    /\ label \in [Pages -> Labels \cup {Nothing}]
    /\ elements \subseteq Bound
    /\ shown \in Snapshots \cup {Nothing}

\* An approved click, text or key reaches the very node the user was shown: the node of the
\* service's latest snapshot, in the same session and on the current tab, under the id and
\* name of the approval, found under that name again after the approval; and no other
\* interaction, navigation or change of tab was completed since the snapshot.
ActsOnWhatWasShown ==
    [][/\ call.at = "found" /\ call'.at = "verified"
            => label[call.basis.page] = call.label
       /\ call.at = "verified" /\ call'.at = "touched"
            => /\ ~spent
               /\ call.basis.session = session /\ call.basis.label = call.label
               /\ current = call.basis.page /\ call.basis.page \in open
               /\ doc[call.basis.page] = call.basis.doc]_browserVars

\* No page of an open session is beyond the host's reach: it is a tab, a task will decide
\* about it, or it was asked to close; there are never more tabs than the cap and one of
\* them is the current one.  This is what new_tab, the "page" event and its task must keep
\* together when they overlap, time out or are cancelled.
PagesAccounted ==
    ~closed =>
        /\ Len(tabs) <= MaxTabs
        /\ current \in Range(tabs)
        /\ IsInjective(tabs)
        /\ open \subseteq Range(tabs) \cup adopting \cup asked
=============================================================================
