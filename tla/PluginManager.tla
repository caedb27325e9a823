--------------------------- MODULE PluginManager ---------------------------
(***************************************************************************)
(* The plug-in lifecycle (src/jarvis/plugins/manager.py, api.py, state.py) *)
(* over the host's registries.                                             *)
(*                                                                         *)
(* enable, disable, load_enabled and shutdown run one at a time under a    *)
(* first-come lock (load, which only tests call, is enable without its entry *)
(* in the repository); inspect takes no lock.  A load runs the hooks       *)
(* initialize and register, commits what was staged and announces it; every *)
(* one of these is an await at which the caller can be cancelled.  Clean-up *)
(* runs in tasks of its own that cancellation does not reach, and removes  *)
(* what was committed before it revokes the context and calls the shutdown *)
(* hook.  One action is what runs from one await to the next.              *)
(*                                                                         *)
(* "Variant" definitions are wrong on purpose, as in ReminderStore.        *)
(***************************************************************************)
EXTENDS HostRegistries

CONSTANTS
    Order,      \* the plug-ins in discovery order: sorted identifiers
    Staged,     \* Staged[p]: what p's register hook stages, in commit order
    MetaNames,
    MetaName,   \* MetaName[p]: the name in p's metadata
    Outdated,   \* plug-ins made for another API version
    Twins,      \* identifiers that several entry points declare
    Wanted,     \* plug-ins that an earlier session may have left enabled
    MaxCalls    \* how often the manager is called in all

Plugins == Range(Order)

StagedSet(p) == Range(Staged[p])

ASSUME ManagerConstants ==
    /\ Order \in Seq(STRING)
    /\ Staged \in [Plugins -> Seq(Names)]
    /\ \A p \in Plugins : \A i, j \in DOMAIN Staged[p] :
          /\ Staged[p][i] = Staged[p][j] => i = j
          /\ Staged[p][j] \in IntegrationNames /\ i < j => Staged[p][i] \in IntegrationNames
          /\ Staged[p][j] \in Subscriptions /\ i < j =>
                Staged[p][i] \in IntegrationNames \cup Subscriptions
    /\ \A p, q \in Plugins : p # q => StagedSet(p) \cap StagedSet(q) \cap Subscriptions = {}
    /\ MetaName \in [Plugins -> MetaNames]
    /\ Outdated \subseteq Plugins
    /\ Twins \subseteq Plugins
    /\ Wanted \subseteq Plugins
    /\ None \notin Plugins
    /\ Host \notin Plugins
    /\ MaxCalls \in Nat

VARIABLES
    rec,       \* _records
    owners,    \* _metadata_owners: metadata name |-> plug-in, or None
    enabled,   \* the repository: the plug-ins that are to be enabled
    job,       \* the call that holds _lifecycle_lock, and how far it is
    queue,     \* the calls that wait for the lock, in order
    calls,     \* calls made so far
    muffled    \* history: plug-ins whose failed load was cancelled before
               \* the failure was entered in their record

managerVars == <<rec, owners, enabled, job, queue, calls, muffled>>
vars == <<registryVars, managerVars>>

Statuses == {"discovered", "loaded", "enabled", "disabled", "incompatible",
             "failed", "duplicate"}

Record == [status : Statuses,
           inspected : BOOLEAN,   \* instance and metadata are there
           active : BOOLEAN,      \* context: recorded and not revoked
           loaded : BOOLEAN,
           pending : BOOLEAN,     \* shutdown_pending
           handles : SUBSET Names]

Ops == {"enable", "disable", "load_enabled", "shutdown"}

\* Where a call awaits; "next" is the head of a loop over plug-ins.
Places == {"initialize", "register", "commit", "emit_loaded", "emit_enabled",
           "emit_failed", "emit_disabled", "remove", "close", "hook", "next"}

\* What a removal is part of, and so what follows it.
Reasons == {"none", "rollback", "cancelled", "failed", "unsaved", "disable", "shutdown"}

Idle == [op |-> "none"]

Job == [op : Ops,
        id : Plugins \cup {None},   \* None before a loop has come to a plug-in
        at : Places, why : Reasons,
        left : SUBSET Names,     \* handles still to be removed
        kept : SUBSET Names,     \* handles whose removal failed
        todo : SUBSET Plugins,   \* plug-ins a loop has yet to come to
        cancelled : BOOLEAN]     \* the caller was, while clean-up went on

TypeOK ==
    /\ holder \in [Names -> Plugins \cup {Host, None}]
    /\ closed \in BOOLEAN
    /\ sweep \in Sweep
    /\ rec \in [Plugins -> Record]
    /\ owners \in [MetaNames -> Plugins \cup {None}]
    /\ enabled \subseteq Plugins
    /\ job \in Job \cup {Idle}
    /\ queue \in Seq([op : Ops, id : Plugins \cup {None}])
    /\ calls \in 0..MaxCalls
    /\ muffled \subseteq Plugins

\* discover: an identifier declared twice keeps one record.  The application
\* starts with load_enabled, which does nothing where none is enabled.
Init ==
    /\ RegistriesInit
    /\ rec = [p \in Plugins |->
                 [status |-> IF p \in Twins THEN "duplicate" ELSE "discovered",
                  inspected |-> FALSE, active |-> FALSE, loaded |-> FALSE,
                  pending |-> FALSE, handles |-> {}]]
    /\ owners = [m \in MetaNames |-> None]
    /\ enabled \in SUBSET Wanted
    /\ job = Idle
    /\ queue = <<[op |-> "load_enabled", id |-> None]>>
    /\ calls = 0
    /\ muffled = {}
-----------------------------------------------------------------------------
At(place) == job # Idle /\ job.at = place

Working(op, p, place, todo) ==
    [op |-> op, id |-> p, at |-> place, why |-> "none", left |-> {}, kept |-> {},
     todo |-> todo, cancelled |-> FALSE]

Await(place) == job' = [job EXCEPT !.at = place]

\* The task that removes S is created; it begins to run later.
Removal(j, why, S) == [j EXCEPT !.at = "remove", !.why = why, !.left = S, !.kept = {}]

SetStatus(p, s) == rec' = [rec EXCEPT ![p].status = s]

\* _is_enabled: a repository that cannot be read says no.
Readings(p) == {FALSE, (p \in enabled)}

\* set_enabled
Persists(p, wanted) == enabled' = IF wanted THEN enabled \cup {p} ELSE enabled \ {p}

\* inspect: the records and owners that may come of it.
Inspections(p) ==
    IF rec[p].status \in {"duplicate", "failed"} \/ rec[p].inspected
    THEN {[r |-> rec[p], o |-> owners]}
    ELSE LET owner == owners[MetaName[p]]
             found == [rec[p] EXCEPT !.inspected = TRUE,
                                     !.status = IF p \in Outdated THEN "incompatible"
                                                ELSE IF owner \in {None, p} THEN "discovered"
                                                ELSE "duplicate"]
         IN {[r |-> [rec[p] EXCEPT !.status = "failed"], o |-> owners],
             [r |-> found,
              o |-> IF found.status = "discovered" THEN [owners EXCEPT ![MetaName[p]] = p]
                                                   ELSE owners]}

Inspect(p) ==
    /\ calls < MaxCalls
    /\ sweep.phase = "none"
    /\ calls' = calls + 1
    /\ \E v \in Inspections(p) :
          /\ rec' = [rec EXCEPT ![p] = v.r]
          /\ owners' = v.o
    /\ UNCHANGED <<registryVars, enabled, job, queue, muffled>>
-----------------------------------------------------------------------------
\* What the callers of _load_unlocked do when it returns, with r for p's record.
LoadReturns(op, p, r, todo) ==
    \/ /\ op = "enable" /\ ~r.loaded
       /\ rec' = [rec EXCEPT ![p] = r]
       /\ job' = Idle
       /\ UNCHANGED enabled
    \/ /\ op = "load_enabled"
       /\ rec' = [rec EXCEPT ![p] = IF r.loaded THEN [r EXCEPT !.status = "enabled"] ELSE r]
       /\ job' = Working(op, p, "next", todo)
       /\ UNCHANGED enabled
    \/ /\ op = "enable" /\ r.loaded
       /\ \/ /\ Persists(p, TRUE)
             /\ rec' = [rec EXCEPT ![p] = [r EXCEPT !.status = "enabled"]]
             /\ job' = Working(op, p, "emit_enabled", todo)
          \/ /\ rec' = [rec EXCEPT ![p] = [r EXCEPT !.status = "failed"]]
             /\ job' = Removal(Working(op, p, "remove", todo), "unsaved", r.handles)
             /\ UNCHANGED enabled

\* Variant: a plug-in that failed may be loaded again.
RefusedForGood == {"incompatible", "duplicate"}

Blocked == {"failed", "incompatible", "duplicate"}

\* _load_unlocked, up to the await of the initialize hook.
Load(op, p, todo) ==
    \E v \in Inspections(p) :
        /\ owners' = v.o
        /\ IF v.r.loaded \/ v.r.status \in Blocked
           THEN LoadReturns(op, p, v.r, todo)
           ELSE /\ rec' = [rec EXCEPT ![p] = [v.r EXCEPT !.active = TRUE, !.pending = TRUE]]
                /\ job' = Working(op, p, "initialize", todo)
                /\ UNCHANGED enabled

\* disable, up to its clean-up task or to the report that it failed.
Disable(p) ==
    /\ \/ /\ Persists(p, FALSE)
          /\ job' = Removal(Working("disable", p, "remove", {}), "disable", rec[p].handles)
          /\ UNCHANGED rec
       \/ /\ SetStatus(p, "failed")
          /\ job' = Working("disable", p, "emit_failed", {})
          /\ UNCHANGED enabled
    /\ UNCHANGED owners

Call(op, p) ==
    /\ calls < MaxCalls
    /\ sweep.phase = "none"
    /\ op \notin {"load_enabled", "shutdown"}
    /\ calls' = calls + 1
    /\ queue' = Append(queue, [op |-> op, id |-> p])
    /\ UNCHANGED <<registryVars, rec, owners, enabled, job, muffled>>

\* Variant: a call that is cancelled leaves its place in the queue behind.
GiveUpCall(i) ==
    /\ i \in DOMAIN queue
    /\ queue[i].op # "shutdown"
    /\ queue' = [queue EXCEPT ![i] = Idle]
    /\ UNCHANGED <<registryVars, rec, owners, enabled, job, calls, muffled>>

\* A call that waits for the lock is cancelled.
GiveUp(i) ==
    /\ i \in DOMAIN queue
    /\ queue[i].op # "shutdown"
    /\ queue' = RemoveAt(queue, i)
    /\ UNCHANGED <<registryVars, rec, owners, enabled, job, calls, muffled>>

\* JarvisApplication.aclose shuts the plug-ins down and closes the
\* integrations in two tasks at once.
Aclose ==
    /\ BeginSweep
    /\ queue' = Append(queue, [op |-> "shutdown", id |-> None])
    /\ UNCHANGED <<rec, owners, enabled, job, calls, muffled>>

\* The first waiting call gets the lock.
Start ==
    /\ job = Idle
    /\ queue # <<>>
    /\ queue' = Tail(queue)
    /\ LET call == Head(queue) IN
          \/ call.op = "enable" /\ Load("enable", call.id, {})
          \/ call.op = "disable" /\ Disable(call.id)
          \/ /\ call.op \in {"load_enabled", "shutdown"}
             /\ job' = Working(call.op, call.id, "next", Plugins)
             /\ UNCHANGED <<rec, owners, enabled>>
    /\ UNCHANGED <<registryVars, calls, muffled>>

\* load_enabled: the next plug-in that is to be enabled.
NextToLoad ==
    /\ At("next") /\ job.op = "load_enabled"
    /\ \/ /\ job.todo = {}
          /\ job' = Idle
          /\ UNCHANGED <<rec, owners, enabled>>
       \/ /\ job.todo # {}
          /\ LET p == FirstOf(Order, job.todo)
                 todo == job.todo \ {p}
             IN \E wanted \in Readings(p) :
                   IF wanted THEN Load("load_enabled", p, todo)
                   ELSE /\ job' = Working("load_enabled", p, "next", todo)
                        /\ UNCHANGED <<rec, owners, enabled>>
    /\ UNCHANGED <<registryVars, queue, calls, muffled>>

\* Variant: only loaded plug-ins are shut down.
NotLoaded(r) == ~r.loaded

Untouched(r) == ~r.loaded /\ ~r.pending /\ r.handles = {} /\ ~r.active

\* shutdown: the plug-ins in reverse order, those with nothing to release
\* left out.
NextToUnload ==
    /\ At("next") /\ job.op = "shutdown"
    /\ IF job.todo = {}
       THEN job' = Idle
       ELSE LET p == LastOf(Order, job.todo)
                todo == job.todo \ {p}
            IN job' = IF Untouched(rec[p]) THEN Working("shutdown", p, "next", todo)
                      ELSE Removal(Working("shutdown", p, "remove", todo), "shutdown",
                                   rec[p].handles)
    /\ UNCHANGED <<registryVars, rec, owners, enabled, queue, calls, muffled>>
-----------------------------------------------------------------------------
\* A hook returned; after register the context is sealed and the task that
\* commits is created.
HookReturns ==
    /\ \/ At("initialize") /\ Await("register")
       \/ At("register") /\ Await("commit")
    /\ UNCHANGED <<registryVars, rec, owners, enabled, queue, calls, muffled>>

\* A hook raised, or the caller was cancelled while it ran.
HookFails ==
    /\ At("initialize") \/ At("register")
    /\ \E why \in {"failed", "cancelled"} :
          job' = Removal(job, why, rec[job.id].handles)
    /\ UNCHANGED <<registryVars, rec, owners, enabled, queue, calls, muffled>>

\* _preflight
Conflict(p) == \E n \in StagedSet(p) \ Subscriptions : Registered(n)

\* A closed registry refuses integrations, the bus some subscriptions.
BreaksOff(p) ==
    \/ closed /\ StagedSet(p) \cap IntegrationNames # {}
    \/ StagedSet(p) \cap Unusable # {}

\* What is registered before the commit breaks off.
CommittedPart(p) ==
    IF closed /\ StagedSet(p) \cap IntegrationNames # {} THEN {}
    ELSE {n \in StagedSet(p) : \E i, j \in DOMAIN Staged[p] :
              i < j /\ Staged[p][i] = n /\ Staged[p][j] = FirstOf(Staged[p], Unusable)}

AbortReason == IF job.cancelled THEN "cancelled" ELSE "failed"

\* Variant: the caller's cancellation is acted upon before the handles are recorded.
CommitUntracked ==
    /\ At("commit")
    /\ LET p == job.id IN
          /\ ~Conflict(p) /\ ~BreaksOff(p)
          /\ holder' = Registering(p, StagedSet(p))
          /\ IF job.cancelled
             THEN /\ job' = Removal(job, "cancelled", {})
                  /\ UNCHANGED rec
             ELSE /\ rec' = [rec EXCEPT ![p].handles = StagedSet(p), ![p].loaded = TRUE,
                                         ![p].status = "loaded"]
                  /\ Await("emit_loaded")
    /\ UNCHANGED <<closed, sweep, owners, enabled, queue, calls, muffled>>

\* Variant: a subscription the bus rejects is passed over.
CommitLeniently ==
    /\ At("commit")
    /\ LET p == job.id IN
          /\ ~Conflict(p) /\ BreaksOff(p)
          /\ holder' = Registering(p, CommittedPart(p))
          /\ rec' = [rec EXCEPT ![p].handles = CommittedPart(p), ![p].loaded = TRUE,
                                ![p].status = "loaded"]
    /\ Await("emit_loaded")
    /\ UNCHANGED <<closed, sweep, owners, enabled, queue, calls, muffled>>

\* _commit, in a task of its own: it is carried out whether or not the caller
\* was cancelled, and only then is a cancellation acted upon.
Commit ==
    /\ At("commit")
    /\ LET p == job.id IN
          \/ /\ Conflict(p)
             /\ job' = Removal(job, AbortReason, rec[p].handles)
             /\ UNCHANGED <<holder, rec>>
          \/ /\ ~Conflict(p) /\ BreaksOff(p)
             /\ holder' = Registering(p, CommittedPart(p))
             /\ job' = Removal(job, "rollback", CommittedPart(p))
             /\ UNCHANGED rec
          \/ /\ ~Conflict(p) /\ ~BreaksOff(p)
             /\ holder' = Registering(p, StagedSet(p))
             /\ IF job.cancelled
                THEN /\ rec' = [rec EXCEPT ![p].handles = StagedSet(p)]
                     /\ job' = Removal(job, "cancelled", StagedSet(p))
                ELSE /\ \E wanted \in Readings(p) :
                           rec' = [rec EXCEPT ![p].handles = StagedSet(p), ![p].loaded = TRUE,
                                              ![p].status = IF wanted THEN "enabled" ELSE "loaded"]
                     /\ Await("emit_loaded")
    /\ UNCHANGED <<closed, sweep, owners, enabled, queue, calls, muffled>>

\* The listeners of plugin.loaded, plugin.enabled, plugin.failed or
\* plugin.disabled are through.
EmitReturns ==
    /\ \/ At("emit_loaded") /\ LoadReturns(job.op, job.id, rec[job.id], job.todo)
       \/ /\ At("emit_failed") /\ job.op = "load_enabled"
          /\ Await("next")
          /\ UNCHANGED <<rec, enabled>>
       \/ /\ (At("emit_failed") /\ job.op # "load_enabled")
                \/ At("emit_enabled") \/ At("emit_disabled")
          /\ job' = Idle
          /\ UNCHANGED <<rec, enabled>>
    /\ UNCHANGED <<registryVars, owners, queue, calls, muffled>>

\* The caller is cancelled while a listener runs: a load that was announced
\* is taken back, everything else stands.
EmitCancelled ==
    /\ \/ At("emit_loaded") /\ job' = Removal(job, "cancelled", rec[job.id].handles)
       \/ (At("emit_failed") \/ At("emit_enabled")) /\ job' = Idle
    /\ UNCHANGED <<registryVars, rec, owners, enabled, queue, calls, muffled>>

\* The caller is cancelled while a task it shields runs.  Those whose
\* clean-up ends the same way in any case are left out.
Cancel ==
    /\ \/ At("commit")
       \/ (At("remove") \/ At("close") \/ At("hook"))
              /\ job.why \in {"rollback", "failed", "unsaved"}
    /\ ~job.cancelled
    /\ job' = [job EXCEPT !.cancelled = TRUE]
    /\ UNCHANGED <<registryVars, rec, owners, enabled, queue, calls, muffled>>
-----------------------------------------------------------------------------
\* Variant: a load that was cancelled counts as taken back whatever is left of it.
CleanedAnyway(p, r, dirty) ==
    LET status == IF job.why = "disable" THEN "disabled" ELSE "discovered"
    IN /\ rec' = [rec EXCEPT ![p] = [r EXCEPT !.status = status]]
       /\ job' = IF job.why = "disable" THEN [job EXCEPT !.at = "emit_disabled"]
                 ELSE IF job.why = "shutdown" THEN [job EXCEPT !.at = "next"]
                 ELSE Idle
       /\ UNCHANGED muffled

\* What follows the removal of p's handles and its shutdown hook: r is p's
\* record, which is dirty if something could not be released.
Cleaned(p, r, dirty) ==
    LET status == IF dirty THEN "failed"
                  ELSE IF job.why = "disable" THEN "disabled" ELSE "discovered"
        silent == job.why = "failed" /\ job.cancelled
    IN /\ rec' = [rec EXCEPT ![p] =
                     IF silent \/ job.why = "unsaved" THEN r
                     ELSE IF job.why = "failed" THEN [r EXCEPT !.status = "failed"]
                     ELSE [r EXCEPT !.status = status]]
       /\ muffled' = IF silent THEN muffled \cup {p} ELSE muffled \ {p}
       /\ job' = IF job.why = "disable" THEN [job EXCEPT !.at = "emit_disabled"]
                 ELSE IF job.why = "shutdown" THEN [job EXCEPT !.at = "next"]
                 ELSE IF job.why = "cancelled" \/ job.cancelled THEN Idle
                 ELSE [job EXCEPT !.at = "emit_failed"]

\* The handles but those in kept are removed.  A rollback is followed by the
\* clean-up of the load; otherwise the context is revoked and the shutdown
\* hook called if it still has to be.
HandlesRemoved(kept) ==
    LET p == job.id
        r == [rec[p] EXCEPT !.handles = kept, !.active = FALSE]
    IN IF job.why = "rollback"
       THEN /\ rec' = [rec EXCEPT ![p].handles = kept]
            /\ job' = Removal(job, AbortReason, kept)
            /\ UNCHANGED muffled
       ELSE IF r.pending
            THEN /\ rec' = [rec EXCEPT ![p] = r]
                 /\ job' = [job EXCEPT !.at = "hook", !.left = {}, !.kept = kept]
                 /\ UNCHANGED muffled
            ELSE Cleaned(p, [r EXCEPT !.loaded = FALSE], kept # {})

\* _remove_handles begins: listeners and actions go at once; so does the
\* wish to unregister integrations, if the registry is closed.
RemoveHandles ==
    /\ At("remove")
    /\ LET integrations == job.left \cap IntegrationNames IN
          /\ holder' = Unregistering(job.left \ integrations)
          /\ IF integrations = {} \/ closed THEN HandlesRemoved(integrations)
             ELSE /\ job' = [job EXCEPT !.at = "close", !.left = integrations]
                  /\ UNCHANGED <<rec, muffled>>
    /\ UNCHANGED <<closed, sweep, owners, enabled, queue, calls>>

\* Variant: the handles that could not be removed are tried again.
CloseAgain ==
    /\ At("close")
    /\ LET n == LastOf(Staged[job.id], job.left)
           left == job.left \ {n}
       IN \E ok \in BOOLEAN :
             LET kept == IF ok THEN job.kept ELSE job.kept \cup {n} IN
             /\ holder' = IF ok THEN Unregistering({n}) ELSE holder
             /\ IF left = {} /\ kept = {} THEN HandlesRemoved({})
                ELSE /\ job' = IF left = {} THEN Removal(job, job.why, kept)
                               ELSE [job EXCEPT !.left = left, !.kept = kept]
                     /\ UNCHANGED <<rec, muffled>>
    /\ UNCHANGED <<closed, sweep, owners, enabled, queue, calls>>

\* IntegrationRegistry.unregister: close() of the last one came back.
CloseReturns ==
    /\ At("close")
    /\ LET n == LastOf(Staged[job.id], job.left)
           left == job.left \ {n}
       IN \E ok \in BOOLEAN :
             LET kept == IF ok THEN job.kept ELSE job.kept \cup {n} IN
             /\ holder' = IF ok THEN Unregistering({n}) ELSE holder
             /\ IF left = {} \/ closed THEN HandlesRemoved(kept \cup left)
                ELSE /\ job' = [job EXCEPT !.left = left, !.kept = kept]
                     /\ UNCHANGED <<rec, muffled>>
    /\ UNCHANGED <<closed, sweep, owners, enabled, queue, calls>>

\* The shutdown hook returned or raised.
ShutdownHook ==
    /\ At("hook")
    /\ \E ok \in BOOLEAN :
          Cleaned(job.id, [rec[job.id] EXCEPT !.pending = ~ok, !.loaded = FALSE],
                  job.kept # {} \/ ~ok)
    /\ UNCHANGED <<registryVars, owners, enabled, queue, calls>>
-----------------------------------------------------------------------------
Proceed ==
    \/ Start \/ NextToLoad \/ NextToUnload
    \/ HookReturns \/ HookFails \/ Commit
    \/ EmitReturns \/ EmitCancelled
    \/ RemoveHandles \/ CloseReturns \/ ShutdownHook

Sweeping == (Visit \/ EndSweep) /\ UNCHANGED managerVars

\* The application is closed and every call has returned.
Closed == sweep.phase = "done" /\ job = Idle /\ queue = <<>> /\ UNCHANGED vars

Next ==
    \/ \E p \in Plugins : Inspect(p)
    \/ \E op \in Ops, p \in Plugins : Call(op, p)
    \/ \E i \in DOMAIN queue : GiveUp(i)
    \/ Aclose
    \/ Cancel
    \/ Proceed
    \/ Sweeping
    \/ Closed

Spec == Init /\ [][Next]_vars /\ WF_vars(Proceed) /\ WF_vars(Sweeping)
-----------------------------------------------------------------------------
Held(p) == {n \in Names : holder[n] = p}

\* A task that removes handles of p, or of p's broken-off commit, runs.
TakingDown(p) == job # Idle /\ job.id = p /\ job.at \in {"remove", "close", "hook"}

KnownToRecord ==
    \A p \in Plugins :
        Held(p) \subseteq rec[p].handles
            \cup (IF TakingDown(p) /\ job.why = "rollback" THEN job.left \cup job.kept ELSE {})

\* After aclose.
NothingLeft ==
    sweep.phase = "done" /\ job = Idle /\ queue = <<>> =>
        \A p \in Plugins :
            /\ ~rec[p].loaded /\ ~rec[p].active
            /\ Held(p) # {} => rec[p].status = "failed"

\* Whatever a plug-in has in a registry is known to its record, or to the
\* rollback under way: hooks that raise, a commit that breaks off and a
\* caller that is cancelled between a registration and its entry in the
\* record leave nothing that nobody will remove
\* (_commit, _load_unlocked, _abort_load).  And once the application is
\* closed no plug-in is loaded and every integration still registered by
\* one is shown as a failure (aclose, shutdown).
Accounted == KnownToRecord /\ NothingLeft

\* Between two calls the status says how things are: loaded and enabled
\* plug-ins have everything they stage and an active context, enabled ones
\* are to be enabled, disabled ones are not and have nothing left; and what
\* could not be released is shown as a failure, unless the failed load was
\* cancelled while it cleaned up.
StatusTellsTruth ==
    job = Idle =>
        \A p \in Plugins :
            LET r == rec[p] IN
            /\ r.status \in {"loaded", "enabled"} => r.loaded
            /\ r.loaded => r.active /\ Held(p) = StagedSet(p)
            /\ r.status = "enabled" => p \in enabled
            /\ r.status = "disabled" /\ p \notin muffled =>
                  Untouched(r) /\ p \notin enabled /\ Held(p) = {}
            /\ ~r.loaded /\ ~Untouched(r) => r.status = "failed" \/ p \in muffled

\* Hooks come in pairs: initialize is not called again before the shutdown
\* hook of the last attempt has succeeded (shutdown_pending, and the failed
\* status that blocks a load), with the same exception.
HooksPaired ==
    [][\A p \in Plugins :
          (At("initialize")' /\ job'.id = p /\ ~At("initialize")) =>
              ~rec[p].pending \/ p \in muffled]_vars

\* A call that got the lock gives it up, whatever hooks and integrations
\* raise and whenever its caller is cancelled, if they do return
\* (_finish_task, _await_lifecycle_task).
CallsEnd == job # Idle ~> job = Idle

Stage == [p \in Plugins |->
             IF TakingDown(p) THEN "leaving"
             ELSE IF rec[p].loaded THEN "offered"
             ELSE IF Held(p) # {} THEN "leaving"
             ELSE "absent"]

\* The host sees of a plug-in everything it stages or, of one that is on its
\* way out, less and less; no name of the host or of another plug-in is taken
\* (_preflight, _commit and both removers).
Promise == INSTANCE CapabilityPromise WITH
    Offer <- [p \in Plugins |-> StagedSet(p)], stage <- Stage

CapabilitiesAsPromised == Promise!Spec

\* docs/plugins.md:142: a plug-in targeting another API version is marked
\* incompatible and is not registered.
IncompatibleStaysOut == \A p \in Outdated : Held(p) = {}
=============================================================================
