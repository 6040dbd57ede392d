------------------------------ MODULE Governor ------------------------------
(***************************************************************************)
(* The FaraCore server: the HTTP handlers of server/main.py (submit,      *)
(* approval, start, result), the shell executor of server/executor.py and *)
(* the SQLite action store of server/storage.py they share.               *)
(*                                                                         *)
(* Every store call (get_action, update_action, create_action,             *)
(* create_event) is one atomic step: each opens its own connection and    *)
(* commits.  A handler is a request slot that steps through its store     *)
(* calls in the order the code makes them, so other handlers and executor *)
(* threads interleave between any two of them.                            *)
(*                                                                         *)
(* submit_action and approve_action are "async def": they run on an event *)
(* loop and make their store calls without an await in between, so no     *)
(* other async handler of the same loop runs until they reach the await   *)
(* of emit_action_event.  The "def" handlers (start, result) and executor *)
(* worker threads run on threads and interleave with everything.  Loops   *)
(* is the set of event loops, one per server process.                     *)
(*                                                                         *)
(* Handlers never pass expected_version: every update_action is a blind   *)
(* write of the handler's local copy, with version = copy.version + 1.    *)
(***************************************************************************)
EXTENDS Naturals, Sequences, FiniteSets, SequencesExt

CONSTANTS
    Ids,      \* action ids (uuid4 values)
    Reqs,     \* request slots: each serves one HTTP request, then is "done"
    Loops,    \* asyncio event loops, one per server process
    Tools,    \* tool names: "shell" has an executor, any other has none
    Demo,     \* the server starts with FARACORE_DEMO=1
    NULL

ASSUME Ids # {} /\ Reqs # {} /\ Loops # {} /\ Tools # {}
ASSUME Demo \in BOOLEAN /\ (Demo => "shell" \in Tools)

VARIABLES
    store,      \* store[a]: the actions row of a, or NULL before insertion
    events,     \* events[a]: the event_type column of a's action_events rows
    req,        \* req[r]: handler state of slot r (a worker thread after spawn)
    running,    \* ActionExecutor.running: id -> worker slot, or NULL
    loopHolder, \* loopHolder[l]: async handler occupying loop l, or NULL
    launched,   \* history: subprocesses started for a
    decided,    \* history: the policy decision stored at submit
    verdicts    \* history: human verdicts committed by approve_action

vars == <<store, events, req, running, loopHolder, launched, decided,
          verdicts>>

(***************************************************************************)
(* Values (server/models.py Decision and Status)                          *)
(***************************************************************************)
Decisions == {"allow", "deny", "require_approval"}

Statuses == {"pending_decision", "allowed", "denied", "pending_approval",
             "approved", "executing", "succeeded", "failed", "timeout"}

\* The event_type strings the code writes.
EventTypes == {"created", "decision_made", "approved", "denied", "started",
               "succeeded", "failed"}

\* How a worker's subprocess ends: exit 0, non-zero exit, TimeoutExpired,
\* or an exception raised by Popen itself (no process was started).
Outcomes == {"ok", "err", "timeout", "exc"}

OutcomeStatus == "ok" :> "succeeded" @@ "err" :> "failed"
                 @@ "timeout" :> "timeout" @@ "exc" :> "failed"

\* The timeout branch of the worker writes event "failed", not "timeout".
OutcomeEvent == "ok" :> "succeeded" @@ "err" :> "failed"
                @@ "timeout" :> "failed" @@ "exc" :> "failed"

\* The place of an event type in the lifecycle of spec 4.3: creation, the
\* policy decision, the human verdict, the start, the outcome.
EventRank == "created" :> 0 @@ "decision_made" :> 1 @@ "approved" :> 2
             @@ "denied" :> 2 @@ "started" :> 3 @@ "succeeded" :> 4
             @@ "failed" :> 4

Rows == [status: Statuses, decision: Decisions, token: BOOLEAN,
         version: Nat, tool: Tools, cmd: BOOLEAN]

PCs == {"idle", "done",
        "sub_created", "sub_decided",
        "ap_write", "ap_event",
        "rs_write", "rs_event",
        "st_event", "st_exec", "st_event2", "st_run", "st_spawn",
        "st_noexec_event",
        "w_run", "w_read", "w_event", "w_write", "w_pop"}

Slots == [pc: PCs, aid: Ids \cup {NULL}, loop: Loops \cup {NULL},
          row: Rows \cup {NULL}, arg: BOOLEAN, outcome: Outcomes \cup {NULL}]

IdleSlot == [pc |-> "idle", aid |-> NULL, loop |-> NULL, row |-> NULL,
             arg |-> FALSE, outcome |-> NULL]

(***************************************************************************)
(* Store operations (server/storage.py SQLiteStore)                       *)
(***************************************************************************)
\* update_action(action) without expected_version: overwrite every column
\* with the caller's copy and version (action.version or 1) + 1.
Bumped(row) == [row EXCEPT !.version = @ + 1]

UpdateAction(a, row) == store' = [store EXCEPT ![a] = Bumped(row)]

\* create_action: INSERT the row, with version getattr(action, "version", 1).
CreateAction(a, row) == store' = [store EXCEPT ![a] = row]

\* create_event: INSERT one row; the caller ignores any failure.
CreateEvent(a, type) == events' = [events EXCEPT ![a] = Append(@, type)]

(***************************************************************************)
(* Slot helpers                                                            *)
(***************************************************************************)
Goto(r, pc) == req' = [req EXCEPT ![r].pc = pc]

Finish(r) == req' = [req EXCEPT ![r] = [IdleSlot EXCEPT !.pc = "done"]]

\* The stored status of every action, "none" before insertion.
ActionStatus == [a \in Ids |-> IF store[a] = NULL THEN "none"
                               ELSE store[a].status]

FreeLoops == {l \in Loops : loopHolder[l] = NULL}

Release(r) == loopHolder' = [loopHolder EXCEPT ![req[r].loop] = NULL]

(***************************************************************************)
(* POST /v1/actions: submit_action                                         *)
(***************************************************************************)
DecisionStatus == "allow" :> "allowed" @@ "deny" :> "denied"
                  @@ "require_approval" :> "pending_approval"

\* Action.new, policies.evaluate, the status/token assignment, and
\* create_action.  The policy's verdict (risk override included) is any
\* decision; the new uuid4 is an id not yet in the table.
SubmitCreate(r) ==
    /\ req[r].pc = "idle"
    /\ \E l \in FreeLoops, a \in Ids, d \in Decisions, t \in Tools :
       \E c \in IF t = "shell" THEN BOOLEAN ELSE {TRUE} :
         /\ store[a] = NULL
         /\ CreateAction(a, [status |-> DecisionStatus[d], decision |-> d,
                              token |-> d = "require_approval", version |-> 1,
                              tool |-> t, cmd |-> c])
         /\ decided' = [decided EXCEPT ![a] = d]
         /\ loopHolder' = [loopHolder EXCEPT ![l] = r]
         /\ req' = [req EXCEPT ![r] = [IdleSlot EXCEPT !.pc = "sub_created",
                                          !.aid = a, !.loop = l]]
    /\ UNCHANGED <<events, running, launched, verdicts>>

SubmitCreatedEvent(r) ==
    /\ req[r].pc = "sub_created"
    /\ CreateEvent(req[r].aid, "created")
    /\ Goto(r, "sub_decided")
    /\ UNCHANGED <<store, running, loopHolder, launched, decided, verdicts>>

\* The decision_made event, then "await emit_action_event" yields the loop.
SubmitDecisionEvent(r) ==
    /\ req[r].pc = "sub_decided"
    /\ CreateEvent(req[r].aid, "decision_made")
    /\ Release(r)
    /\ Finish(r)
    /\ UNCHANGED <<store, running, launched, decided, verdicts>>

(***************************************************************************)
(* POST /v1/actions/{id}/approval: approve_action                          *)
(***************************************************************************)
\* get_events: the rows of action_events for a, ORDER BY created_at.
\* create_event takes datetime.utcnow() and inserts in the same call, so
\* created_at order is the order of the CreateEvent steps.
GetEvents(a) == events[a]

\* Mutation of Approvable: the status check is left out.
ApprovableAnyStatus(a, holds) ==
    store[a] # NULL /\ store[a].token /\ holds

\* The action is pending approval and the presented token equals the
\* stored one: the stored token is set and the caller holds it.
Approvable(a, holds) ==
    ActionStatus[a] = "pending_approval" /\ store[a].token /\ holds

\* Mutation of ApprovedCopy: the decision is cleared with the token.
ApprovedCopyNoDecision(row, approve) ==
    [row EXCEPT !.status = IF approve THEN "approved" ELSE "denied",
                !.decision = NULL, !.token = FALSE]

\* The local copy after approval or denial: the token is cleared.
ApprovedCopy(row, approve) ==
    [row EXCEPT !.status = IF approve THEN "approved" ELSE "denied",
                !.decision = IF approve THEN "allow" ELSE "deny",
                !.token = FALSE]

\* get_action and the three checks.  A failed check raises (404, 400, 401)
\* and the loop is free again at once; otherwise the local copy is set to
\* approved/denied with the token cleared and the loop stays occupied.
ApproveRead(r) ==
    /\ req[r].pc = "idle"
    /\ \E l \in FreeLoops, a \in Ids, approve \in BOOLEAN, holds \in BOOLEAN :
       LET row == store[a] IN
       \/ /\ ~Approvable(a, holds)
          /\ Finish(r)
          /\ UNCHANGED loopHolder
       \/ /\ Approvable(a, holds)
          /\ loopHolder' = [loopHolder EXCEPT ![l] = r]
          /\ req' = [req EXCEPT ![r] =
                [IdleSlot EXCEPT !.pc = "ap_write", !.aid = a, !.loop = l,
                   !.arg = approve, !.row = ApprovedCopy(row, approve)]]
    /\ UNCHANGED <<store, events, running, launched, decided, verdicts>>

ApproveWrite(r) ==
    /\ req[r].pc = "ap_write"
    /\ UpdateAction(req[r].aid, req[r].row)
    /\ verdicts' = [verdicts EXCEPT ![req[r].aid] = @ \cup {req[r].row.status}]
    /\ Goto(r, "ap_event")
    /\ UNCHANGED <<events, running, loopHolder, launched, decided>>

ApproveEvent(r) ==
    /\ req[r].pc = "ap_event"
    /\ CreateEvent(req[r].aid, IF req[r].arg THEN "approved" ELSE "denied")
    /\ Release(r)
    /\ Finish(r)
    /\ UNCHANGED <<store, running, launched, decided, verdicts>>

(***************************************************************************)
(* POST /v1/actions/{id}/result: record_action_result                      *)
(***************************************************************************)
\* The statuses record_action_result accepts.
ResultFrom == {"executing", "allowed", "approved", "pending_approval"}

\* get_action, the status check, and the new status on the local copy
\* (the copy keeps its decision and approval token).
ResultRead(r) ==
    /\ req[r].pc = "idle"
    /\ \E a \in Ids, success \in BOOLEAN :
       LET row == store[a] IN
       \/ /\ ActionStatus[a] \notin ResultFrom
          /\ Finish(r)
       \/ /\ ActionStatus[a] \in ResultFrom
          /\ req' = [req EXCEPT ![r] =
                [IdleSlot EXCEPT !.pc = "rs_write", !.aid = a, !.arg = success,
                   !.row = [row EXCEPT !.status = IF success THEN "succeeded"
                                                 ELSE "failed"]]]
    /\ UNCHANGED <<store, events, running, loopHolder, launched, decided,
                   verdicts>>

ResultWrite(r) ==
    /\ req[r].pc = "rs_write"
    /\ UpdateAction(req[r].aid, req[r].row)
    /\ Goto(r, "rs_event")
    /\ UNCHANGED <<events, running, loopHolder, launched, decided, verdicts>>

ResultEvent(r) ==
    /\ req[r].pc = "rs_event"
    /\ CreateEvent(req[r].aid, IF req[r].arg THEN "succeeded" ELSE "failed")
    /\ Finish(r)
    /\ UNCHANGED <<store, running, loopHolder, launched, decided, verdicts>>

(***************************************************************************)
(* POST /v1/actions/{id}/start: start_execution, then                      *)
(* ActionExecutor.try_execute(skip_policy_check=True) and run_shell        *)
(***************************************************************************)
\* Mutation of StartFrom: pending_approval may be started too.
StartFromWithPending == {"allowed", "approved", "pending_approval"}

\* The statuses start_execution accepts.
StartFrom == {"allowed", "approved"}

StartRead(r) ==
    /\ req[r].pc = "idle"
    /\ \E a \in Ids :
       LET row == store[a] IN
       \/ /\ ActionStatus[a] \notin StartFrom
          /\ Finish(r)
       \/ /\ ActionStatus[a] \in StartFrom
          /\ req' = [req EXCEPT ![r] =
                [IdleSlot EXCEPT !.pc = "st_event", !.aid = a, !.row = row]]
    /\ UNCHANGED <<store, events, running, loopHolder, launched, decided,
                   verdicts>>

StartEvent(r) ==
    /\ req[r].pc = "st_event"
    /\ CreateEvent(req[r].aid, "started")
    /\ Goto(r, "st_exec")
    /\ UNCHANGED <<store, running, loopHolder, launched, decided, verdicts>>

\* try_execute, tool "shell": status EXECUTING written from the copy.
TryExecuteShell(r) ==
    LET new == [req[r].row EXCEPT !.status = "executing"] IN
    /\ req[r].pc = "st_exec"
    /\ req[r].row.tool = "shell"
    /\ UpdateAction(req[r].aid, new)
    /\ req' = [req EXCEPT ![r].pc = "st_event2", ![r].row = Bumped(new)]
    /\ UNCHANGED <<events, running, loopHolder, launched, decided, verdicts>>

\* try_execute, any other tool: "No executor", status SUCCEEDED.
TryExecuteNoExecutor(r) ==
    LET new == [req[r].row EXCEPT !.status = "succeeded"] IN
    /\ req[r].pc = "st_exec"
    /\ req[r].row.tool # "shell"
    /\ UpdateAction(req[r].aid, new)
    /\ req' = [req EXCEPT ![r].pc = "st_noexec_event", ![r].row = Bumped(new)]
    /\ UNCHANGED <<events, running, loopHolder, launched, decided, verdicts>>

NoExecutorEvent(r) ==
    /\ req[r].pc = "st_noexec_event"
    /\ CreateEvent(req[r].aid, "succeeded")
    /\ Finish(r)
    /\ UNCHANGED <<store, running, loopHolder, launched, decided, verdicts>>

\* try_execute's own "started" event, written after the EXECUTING update.
StartEventAgain(r) ==
    /\ req[r].pc = "st_event2"
    /\ CreateEvent(req[r].aid, "started")
    /\ Goto(r, "st_run")
    /\ UNCHANGED <<store, running, loopHolder, launched, decided, verdicts>>

\* run_shell up to the thread creation: return if a worker is registered
\* for the id; FAILED "Missing cmd" (no event) if there is no command.
RunShellCheck(r) ==
    LET a == req[r].aid IN
    /\ req[r].pc = "st_run"
    /\ \/ /\ running[a] # NULL
          /\ Finish(r)
          /\ UNCHANGED store
       \/ /\ running[a] = NULL
          /\ ~req[r].row.cmd
          /\ UpdateAction(a, [req[r].row EXCEPT !.status = "failed"])
          /\ Finish(r)
       \/ /\ running[a] = NULL
          /\ req[r].row.cmd
          /\ Goto(r, "st_spawn")
          /\ UNCHANGED store
    /\ UNCHANGED <<events, running, loopHolder, launched, decided, verdicts>>

\* self.running[action.id] = th; th.start().  The slot goes on as the
\* worker thread; the handler's closing get_action changes nothing.
RunShellSpawn(r) ==
    /\ req[r].pc = "st_spawn"
    /\ running' = [running EXCEPT ![req[r].aid] = r]
    /\ Goto(r, "w_run")
    /\ UNCHANGED <<store, events, loopHolder, launched, decided, verdicts>>

(***************************************************************************)
(* The worker thread of run_shell                                          *)
(***************************************************************************)
\* Popen and communicate(timeout): the subprocess runs and ends somehow.
WorkerRun(r) ==
    /\ req[r].pc = "w_run"
    /\ \E o \in Outcomes :
         /\ launched' = [launched EXCEPT ![req[r].aid] =
                           IF o = "exc" THEN @ ELSE @ + 1]
         /\ req' = [req EXCEPT ![r].pc = "w_read", ![r].outcome = o]
    /\ UNCHANGED <<store, events, running, loopHolder, decided, verdicts>>

\* fresh = self.store.get_action(action.id); fresh.status = ...
\* get_action swallows sqlite3.Error (e.g. "database is locked") and
\* returns None; every branch then skips its event and update.
WorkerRead(r) ==
    /\ req[r].pc = "w_read"
    /\ \/ req' = [req EXCEPT ![r].pc = "w_event",
                    ![r].row = [store[req[r].aid] EXCEPT
                                  !.status = OutcomeStatus[req[r].outcome]]]
       \/ Goto(r, "w_pop")
    /\ UNCHANGED <<store, events, running, loopHolder, launched, decided,
                   verdicts>>

\* Every branch writes its event before update_action(fresh).
WorkerEvent(r) ==
    /\ req[r].pc = "w_event"
    /\ CreateEvent(req[r].aid, OutcomeEvent[req[r].outcome])
    /\ Goto(r, "w_write")
    /\ UNCHANGED <<store, running, loopHolder, launched, decided, verdicts>>

WorkerWrite(r) ==
    /\ req[r].pc = "w_write"
    /\ UpdateAction(req[r].aid, req[r].row)
    /\ Goto(r, "w_pop")
    /\ UNCHANGED <<events, running, loopHolder, launched, decided, verdicts>>

\* finally: self.running.pop(action.id), whichever thread is registered.
WorkerPop(r) ==
    /\ req[r].pc = "w_pop"
    /\ running' = [running EXCEPT ![req[r].aid] = NULL]
    /\ Finish(r)
    /\ UNCHANGED <<store, events, loopHolder, launched, decided, verdicts>>

(***************************************************************************)
(* Specification                                                           *)
(***************************************************************************)
\* The five rows _seed_demo_actions builds: a denied http delete, an
\* allowed http get, a pending shell "rm" with a token, an approved shell
\* echo whose decision is allow, and a succeeded http post.  The other
\* tool of the model stands for http.
SeedRows ==
    LET http == CHOOSE t \in Tools : t # "shell" \/ Tools = {"shell"}
        Row(s, d, tk, t) == [status |-> s, decision |-> d, token |-> tk,
                             version |-> 1, tool |-> t, cmd |-> t = "shell"]
    IN {Row("denied", "deny", FALSE, http), Row("allowed", "allow", FALSE, http),
        Row("pending_approval", "require_approval", TRUE, "shell"),
        Row("approved", "allow", FALSE, "shell"),
        Row("succeeded", "allow", FALSE, http)}

\* At import, with FARACORE_DEMO=1 and count_actions() = 0,
\* seed_demo_actions calls create_action once per row: each action is one
\* of the seeded rows (each row at most once), or an id still unused.
SeededStores ==
    {f \in [Ids -> SeedRows \cup {NULL}] :
        \A a, b \in Ids : a # b /\ f[a] # NULL => f[a] # f[b]}

\* The table is empty (_init_db), then seeded in demo mode.
Init ==
    /\ store \in IF Demo THEN SeededStores ELSE {[a \in Ids |-> NULL]}
    /\ events = [a \in Ids |-> <<>>]
    /\ req = [r \in Reqs |-> IdleSlot]
    /\ running = [a \in Ids |-> NULL]
    /\ loopHolder = [l \in Loops |-> NULL]
    /\ launched = [a \in Ids |-> 0]
    /\ decided = [a \in Ids |-> IF store[a] = NULL THEN NULL
                                ELSE store[a].decision]
    /\ verdicts = [a \in Ids |-> {}]

\* A client sends a new request.
Arrive(r) ==
    \/ SubmitCreate(r) \/ ApproveRead(r) \/ ResultRead(r) \/ StartRead(r)

\* A request in progress (or a worker thread) takes its next step.
Progress(r) ==
    \/ SubmitCreatedEvent(r) \/ SubmitDecisionEvent(r)
    \/ ApproveWrite(r) \/ ApproveEvent(r)
    \/ ResultWrite(r) \/ ResultEvent(r)
    \/ StartEvent(r) \/ TryExecuteShell(r) \/ TryExecuteNoExecutor(r)
    \/ NoExecutorEvent(r) \/ StartEventAgain(r)
    \/ RunShellCheck(r) \/ RunShellSpawn(r)
    \/ WorkerRun(r) \/ WorkerRead(r) \/ WorkerEvent(r) \/ WorkerWrite(r)
    \/ WorkerPop(r)

\* Every slot has served its request: the model stops here.
AllServed ==
    /\ \A r \in Reqs : req[r].pc = "done"
    /\ UNCHANGED vars

Next == (\E r \in Reqs : Arrive(r) \/ Progress(r)) \/ AllServed

Spec == Init /\ [][Next]_vars

\* Server threads and the event loop never stop a request they have begun;
\* clients need not send any.
FairSpec == Spec /\ \A r \in Reqs : WF_vars(Progress(r))

(***************************************************************************)
(* Properties                                                              *)
(***************************************************************************)
TypeOK ==
    /\ store \in [Ids -> Rows \cup {NULL}]
    /\ events \in [Ids -> Seq(EventTypes)]
    /\ req \in [Reqs -> Slots]
    /\ running \in [Ids -> Reqs \cup {NULL}]
    /\ loopHolder \in [Loops -> Reqs \cup {NULL}]
    /\ launched \in [Ids -> Nat]
    /\ decided \in [Ids -> Decisions \cup {NULL}]
    /\ verdicts \in [Ids -> SUBSET {"approved", "denied"}]

\* An approval token is single-use (spec 4.6): approve_action commits at
\* most one human verdict per action, however approvals, deny calls,
\* result reports and start calls interleave with it.
ApprovalSingleUse ==
    \A a \in Ids :
      Cardinality({i \in DOMAIN events[a] :
                     events[a][i] \in {"approved", "denied"}}) <= 1

\* start_execution runs an action (the started event, a subprocess) only if
\* the policy allowed it or a human approved it, and never one a human or
\* the policy denied, whatever stale copies other handlers write back.
NoUnapprovedExecution ==
    \A a \in Ids :
      (launched[a] > 0 \/ Contains(events[a], "started"))
        => (decided[a] = "allow" \/ verdicts[a] = {"approved"})

\* A shell action's command runs at most once, however many start calls
\* race through start_execution and run_shell.
AtMostOnceExecution == \A a \in Ids : launched[a] <= 1

\* An action that is executing eventually leaves executing: the worker
\* thread that run_shell spawns writes its outcome.
ExecutingEventuallyEnds ==
    \A a \in Ids :
      ActionStatus[a] = "executing" ~> ActionStatus[a] # "executing"

\* GET /v1/actions/{id}/events lists the human verdict on an action before
\* its start, as spec 8 expects for an approved action: created,
\* decision_made, approved, started, succeeded.  An action can only be
\* started once it is approved, so no "started" event may precede the
\* "approved" one, however the approval and a start call interleave.
EventsInLifecycleOrder ==
    \A a \in Ids :
      LET h == GetEvents(a) IN
      \A i, j \in 1..Len(h) :
        i < j /\ h[j] = "approved" => EventRank[h[i]] <= EventRank["approved"]

L == INSTANCE Lifecycle WITH status <- ActionStatus

\* The stored status only moves along the state machine of spec 4.3.
LifecycleRefinement == L!Spec

=============================================================================
