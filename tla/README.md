# TLA+ models of the faramesh governor

These modules model the action lifecycle of the faramesh/faracore governor. They cover the HTTP handlers that submit, approve, start and record results, the shell executor and its worker thread, and the store calls they make. TLC checks them under every interleaving the server's scheduling allows.

## The system

| Part | Source | What it does |
|---|---|---|
| Coordinator | `src/src/faracore/server/main.py` | FastAPI handlers. `submit_action` and `approve_action` are `async def`. `record_action_result` and `start_execution` are plain `def`, so FastAPI runs them on threadpool threads. |
| Executor | `src/src/faracore/server/executor.py` | `try_execute` writes EXECUTING and calls `run_shell` for tool `shell`. Any other tool gets SUCCEEDED "No executor". `run_shell` registers a worker thread in `self.running`. The worker runs the command, writes the outcome, and pops the entry in `finally`. |
| Store | `src/src/faramesh/server/storage.py` | `SQLiteStore`. Every call opens its own connection and commits, so each call is atomic and nothing spans two calls. `update_action` without `expected_version` overwrites the whole row with the caller's copy and writes `version = (copy.version or 1) + 1`. `create_event` swallows errors. `get_action` returns `None` on a database error. |
| Action | `src/src/faracore/server/models.py` | `Decision`, `Status`, and the `Action` record. |
| Policy engine, event bus | `policy_engine.py`, `events.py` (not in this repository) | `policies.evaluate` decides submit's verdict, and `playground_eval` answers what it would decide. `emit_action_event` fans events out over SSE. |
| SDK client | `src/src/faracore/sdk/client.py` | `_make_request` with retries, plus the blocking helpers that poll `get_action`. |
| Auth | `src/src/faracore/server/auth.py` | `AuthMiddleware`, added in `main.py` when `FARACORE_TOKEN` or `FARA_AUTH_TOKEN` is set. It answers 401 unless the path is public or the bearer token is in the comma-separated list. |
| Settings, metrics, errors | `src/src/faracore/server/*.py` | Stateless per request. |

How they interact:
- A client submits an action. The handler stores it with the status the policy chose and appends `created` and `decision_made`.
- A human approves or denies a `pending_approval` action with its token.
- `/start` dispatches an allowed or approved action to the executor. The worker, or a client calling `/result`, stores the outcome.

No handler passes `expected_version`. Every update is therefore a blind write of a copy read one or more steps earlier, and this is where most of the hazards come from.

## Modules

**`Lifecycle.tla`** is the abstract specification: the state machine table of spec section 4.3 over one `status` per action, with `"none"` before submission. It is written from the spec, not from code, and is what `Governor` should refine.

**`Governor.tla`** models the coordinator, executor and store together.

State:
- `store`: the actions rows. A row is a record of status, decision, token present, version, tool, and cmd present.
- `events`: each action's event types, in append order. `GetEvents` reads it as `get_events` does: `create_event` takes `utcnow()` and inserts in one call, so append order is `created_at` order.
- `req`: one slot per HTTP request, with a program counter, the handler's local copy, and its arguments. A `/start` slot continues as its worker thread after the spawn.
- `running`: `ActionExecutor.running`.
- `loopHolder`: which async handler holds each event loop.
- History variables:
  - `launched`: subprocesses started.
  - `decided`: the policy verdict at submit.
  - `verdicts`: human verdicts committed.

Each store call is one action, because each store call is one transaction:

| Handler | Actions |
|---|---|
| submit | `SubmitCreate`, `SubmitCreatedEvent`, `SubmitDecisionEvent` |
| approve | `ApproveRead`, `ApproveWrite`, `ApproveEvent` |
| result | `ResultRead`, `ResultWrite`, `ResultEvent` |
| start, then `try_execute` and `run_shell` | `StartRead`, `StartEvent`, `TryExecuteShell` or `TryExecuteNoExecutor` (then `NoExecutorEvent`), `StartEventAgain`, `RunShellCheck`, `RunShellSpawn` |
| worker | `WorkerRun` (how the subprocess ends: exit 0, non-zero, timeout, or Popen raising), `WorkerRead` (including `get_action` returning None), `WorkerEvent`, `WorkerWrite`, `WorkerPop` |

Every read step carries the handler's check and early return as a disjunct. The async handlers take a free event loop at their read and keep it until the `await emit_action_event`, because their store calls are blocking. A second async handler on the same loop therefore cannot interleave with them. The threadpool handlers and the worker can interleave with anything.

Data is abstracted:
- The policy's verdict is any `Decision`.
- The token is present or absent, and a request holds the right token or not.
- The command is present or missing.
- Tools are `shell` and one tool without an executor.

**`Client.tla`** models the SDK (`faracore/sdk/client.py`) with two callers. An agent makes one call of `submit_and_wait(require_approval, auto_start)`. A human makes one call of `approve_action` or `deny_action` with `token=None`, which first looks the token up with `get_action`.

- `Submit` (with `SubmitAction`, the SDK's POST, and `PolicyDenied`, `_make_request`'s denial check), `BlockPoll`/`BlockDeadline` (`block_until_approved`), `Start` (`start_action`) and `WaitPoll` (`wait_for_completion`) are the client's steps.
- Each step is one attempt of `_make_request`. The attempt is answered, lost before reaching the server (connection error), answered 5xx before any write, or processed with its response lost (read timeout).
- `RetryOrRaise` is the retry loop: up to `max_retries` more attempts, then the matching exception.
- The human's steps are `HumanBegin`, `HumanLookup` and `HumanPost`.
- The server side is the handlers taken whole (`ServerSubmit`, `ServerStart`, `ServerApproval`), plus the executor's `Worker`.

This is sound for the client's questions because each caller is sequential. How handlers interleave with each other is `Governor`'s question. `MCClient.tla` gives sets of ids with one id per attempt of `_make_request`, so every attempt can mint one (`max_retries + 1` ids).

The constant `Demo` stands for `FARACORE_DEMO=1`. With it, `Governor`'s `Init` starts from the rows `_seed_demo_actions` inserts into an empty table at import (`SeedRows`, `SeededStores`), each seeded row keeping its stored decision. Without it, the table starts empty. The `gate` run uses the demo start; the violation runs start empty, so their traces begin with a submit.

**`Listing.tla`** models offset pagination of `GET /v1/actions`.
- A caller pages through `sdk list_actions(limit, offset, status)`, adding `limit` to the offset until a page is shorter than `limit`. This loop is the caller's and is written from spec 4.1.
- Each page is one request taken whole: `ListPage` is the handler plus one query of `SQLiteStore.list_actions`, with `Matches` as the WHERE clause, `Ordered` as ORDER BY `created_at` DESC, and `StoreList` as LIMIT/OFFSET.
- `ListPageStoreError` is the store's `except` that returns `[]`. `ListPageRaised` is the SDK's `_make_request` giving up.
- Between pages, `Submit` inserts rows and `Approve` moves `pending_approval` rows on. A new row takes any unused `created_at`, because `Action.new` stamps it before `create_action` commits and several processes may commit out of order.
- The Postgres store runs the same query, with the same error branch.

**`Policy.tla`** models the policy decision. The engine's source is absent, so the module follows spec 4.2 for it:
- `MatchesInput` applies the `*` glob to tool and op and tests a params substring.
- `RiskLevel` (recursive) takes the highest level of the matching risk rules, default `low`.
- `FirstMatch` (recursive) finds the first matching rule, with default `deny`.
- `Evaluate` promotes an allow at high risk to `require_approval`.

The code side is `StatusOf`, the decision-to-status mapping of `submit_action` (main.py 789-795) and `playground_eval`, plus the two handlers as `SubmitAction` and `PlaygroundEval`. `Init` picks any policy of up to `MaxRules` rules and `MaxRiskRules` risk rules, because `PolicyEngine` loads once at import.

Both routes sit behind `AuthMiddleware`. `authToken` is the configured value, split on commas and stripped. `<<>>` means unset, which turns auth off, and `BLANK` stands for an entry that was only whitespace. `Headers` are the tokens `dispatch` extracts from the header, where `"missing"` means no `Bearer ` prefix. `Authorized` is `dispatch`'s check and `Unauthorized` its 401. Neither route is a public path, so the public-path branch is not modelled.

No property checks the engine. Its code is absent, so a check would only compare one reading of spec 4.2 with another. `StatusOf` is a three-case mapping that a property could only restate. What `Policy` checks is the gate: the `blank_token` run.

**`MCGovernor.tla`** gives the model values and the small sets that the `.cfg` files substitute.

The row's `version` is modelled as the store reads it. The `faramesh` models module, which `storage.py` imports, is not in this repository. The `faracore` `Action` has no `version` field.

## Properties

| Property | What it says | Kind |
|---|---|---|
| `TypeOK` | Type invariant. | invariant |
| `NoUnapprovedExecution` | A subprocess is launched, or a `started` event written, only for an action whose stored policy decision was allow or that a human approved, and never denied. | invariant |
| `ApprovalSingleUse` | At most one `approved` or `denied` event per action: the token is single-use (spec 4.6 and section 8). | invariant |
| `AtMostOnceExecution` | A shell command runs at most once per action. | invariant |
| `ExecutingEventuallyEnds` | Under fairness, an executing action eventually leaves executing. | liveness |
| `SubmitCreatesOne` (Client) | One `submit_and_wait` creates at most one action. | invariant |
| `RaisedMeansNoEffect` (Client) | When `start_action` or `approve_action`/`deny_action` raises `FaraCoreError` for a rejected request, no attempt of it took effect. | action property |
| `CallsReturn` (Client) | Under fairness for a caller that has begun a call, every `submit_and_wait`, `approve_action` and `deny_action` returns or raises, even when the action never finishes. | liveness |
| `LifecycleRefinement` | `Governor` implements `Lifecycle` under the mapping `status <- ActionStatus`. No write may leave a terminal status or skip an edge. | refinement |
| `EventsInLifecycleOrder` | `get_events` lists the human verdict before the start: no `started` event, and no event of a later stage, comes before `approved`. | invariant |
| `AuthGate` (Policy) | A request reaches `submit_action` or `playground_eval` only when auth is off or it bears a configured token. Checked where the configured list has an empty entry (`blank_token`). | invariant |
| `ScanComplete` (Listing) | A scan that ended on a short page with no failed query saw every action that matched its filter when it began and still does. | invariant |

## Runs

All runs use one action: actions share no state except the process, so one action shows every race on a row. A slot serves one request. Three slots are the submit plus two concurrent handlers, or a handler and a worker. Every run finishes in a few minutes at most.

| Run | Expect | Bounds | What it shows |
|---|---|---|---|
| `gate` | pass | 3 slots, 1 loop, both tools, demo seed | The policy and approval gates hold under every interleaving. Nothing executes without allow or approval, and with one server process an approval token is redeemed at most once. Fires every action and every branch. |
| `approval_race` | violation | 3 slots, 2 loops | With two server processes, approve and deny both commit. |
| `lifecycle` | violation | 3 slots | The shortest trace is one `/result` on an allowed action, which moves allowed straight to failed. The same over-wide check moves `pending_approval` to `succeeded`. The property also forbids a terminal status being overwritten by racing `/result` calls, start and the worker. TLC stops at the shortest counterexample, so those routes are not what this run reports. |
| `event_order` | violation | 3 slots, demo seed | An approve commits `approved`, a `/start` on a threadpool thread reads it and writes `started`, and only then does `approve_action` write its `approved` event. The timeline reads started before approved. |
| `double_exec` | violation | 3 slots | Two `/start` calls both pass the `running` check and launch the command twice. |
| `stuck_executing` | violation | 3 slots, `FairSpec`, no symmetry | With one start, the worker's re-read `get_action` fails and returns None. The worker returns without an outcome, and the action stays executing forever. A late EXECUTING write from a second start, landing after the worker's outcome and before its pop, ends the same way. |

The violation runs of the client use the default `max_retries = 3` with four ids and symmetry. All client runs use `MaxPolls = 2` (timeout / poll_interval), both tools, and both values of each keyword argument:

| Run | Expect | What it shows |
|---|---|---|
| `client` | pass | Every SDK call ends: `CallsReturn` holds under `FairSpec`, whatever is lost, answered 5xx or timed out, and whether or not the action ever finishes. This run uses `max_retries = 2` and three ids, without symmetry, because symmetry is unsound for liveness. |
| `dup_submit` | violation | A submit whose response times out is retried and creates a second action. |
| `raised_no_effect` | violation | After a lost `/start` or `/approval` response, the retries get 400 and the SDK raises `FaraCoreError` although the first attempt took effect. |

Symmetry over request slots is used in the safety runs only. The liveness run does without it.

Bounds: four slots with both tools take several minutes, and five exceed what TLC can finish. Each violation above needs at most three concurrent requests, and the passing properties are checked with as many as stay within a few seconds.

The listing runs use four actions and `limit = 2`, so a scan takes up to three pages with rows arriving or leaving between them:

| Run | Expect | What it shows |
|---|---|---|
| `listing` | pass | Without a filter no action is skipped, whatever submits commit between the pages and at whatever `created_at`. Inserts only push rows back, so they repeat rows rather than skip them. No row can leave an unfiltered listing, so the skip comes only with a filter. |
| `pending_scan` | violation | With `status=pending_approval`, an approval between two pages moves the later rows up one place, and an action that stays pending is never listed. |

The `blank_token` run uses one rule of `shell` or `*` as tool and `*` as op, which may require the substring `rm -rf`. Clients present `t1`, `t2`, a blank token, or no `Bearer ` header, and `FARACORE_TOKEN` is `t1,`:

| Run | Expect | What it shows |
|---|---|---|
| `blank_token` | violation | With `FARACORE_TOKEN="t1,"`, a request whose bearer token `strip()` empties reaches `submit_action`. The empty entry the trailing comma leaves is a valid token after `strip()`. The HTTP parser already drops trailing spaces and tabs from a header value, so a bare `Bearer ` arrives as `Bearer` and gets 401. A token part that is a `0xA0` byte survives parsing. Starlette decodes it as latin-1, and `str.strip()` then removes it. |

## Fairness

In `Client`, `FairSpec` assumes weak fairness for the agent's steps and for the human's steps once a call has begun (`HumanLookup`, `HumanPost`). Each call is a plain loop in the caller's thread. Nothing obliges the human to start a call, or the worker to finish an action.

In `Governor`, `FairSpec` assumes weak fairness only on `Progress(r)`, the next step of a request or worker already in flight. A started handler or thread runs to completion: store calls return, and the event loop is released at the await. Nothing obliges a client to send a request, so `Arrive` has no fairness.

## Findings

Each finding comes from a violation run:
- `/result` skips the state machine.
- A double `/start` runs the command twice.
- A worker whose re-read fails, or a late start, leaves an action executing forever.
- Approvals are single-use only within one server process.
- Paging through pending approvals skips actions when approvals happen between pages.
- The event timeline can list `started` before `approved`, because `approve_action` commits the status before it writes the event.
- A token list with a trailing or doubled comma lets a bearer token that `strip()` empties authenticate.

Blind read-modify-write updates can also overwrite a terminal status. `LifecycleRefinement` forbids this, but the `lifecycle` run reports the shorter `/result` trace, so these routes are listed as hazards. A run dropped from the project showed versions repeating, against spec invariant 4.

`PROJECT.json` lists the findings and hazards with their source lines.

## Not modelled

- **Policy engine, rest.** Key and numeric predicates (`amount_gt`), loading and version hashing are not modelled. `playground_eval` sets `context["agent_id"]` before it evaluates. `submit_action` uses the caller's context as sent, and the SDK sends `{}` when it has no context. Spec 4.2 makes context key predicates equality tests. So a rule that tests `agent_id` matches in the playground and never in a real SDK submit, and the playground can predict the wrong status. A unit test that sends one request to both routes shows this directly, so it is listed as a hazard and has no run of its own.
- **`wait_for_completion` and `timeout`.** It returns only on succeeded, failed or denied. An action that ended in `timeout`, which spec 4.3 makes terminal, is therefore waited on until the client deadline. A unit test reaches this directly; `CallsReturn` checks that the deadline bounds the wait.
- **SDK client, rest.** `submit_actions`, `submit_actions_bulk`, `replay_action`, `apply`, `stream_events` and `ExecutionGovernorClient`. `ExecutionGovernorClient` only delegates to the module functions. `apply` parses a file and submits once. `stream_events` is one sequential loop over the SSE stream of the absent `events.py`. A lost GET response is treated like a connection error; only its exception kind differs. `submit_actions` and `submit_actions_bulk` are loops of `submit_action`, each an independent request, so the retry hazards they expose are those `dup_submit` shows for one. `replay_action` reads a status and then submits afresh through the policy, so its stale read gates nothing. The Postgres stores are left out as described below.
- **Event timestamps.** `GetEvents` is the event list in `CreateEvent` order. `create_event` reads `utcnow()` and inserts in the same call, so that is `created_at` order. Ties within a microsecond are left out. Run with the whole lifecycle order, `event_order` finds a shorter but less likely trace: a `/start` on a row whose id was learned from the listing lands before the submit's `created` event. The property is therefore stated for the `approved` event, whose race lies on `submit_and_wait`'s own path.
- **Store errors in listings.** `list_actions` returns `[]` on a database error, so a caller takes it for the last page. The model has the branch, but `ScanComplete` leaves such scans out, because the caller cannot tell them apart.
- **Demo rows in listings.** The five seeded rows share one `created_at`, and SQL leaves the order of ties open. `Listing` gives every row its own timestamp.
- **Postgres backends.** `faramesh/server/storage_postgres.py` makes the same calls with the same atomicity and error branches, so the models cover it without separate definitions. `faracore/server/storage_postgres.py` has no version column, and nothing in `faracore` imports it.
- **Event loss.** `create_event` swallows database errors, so a committed transition can have no event. A failure branch would make any "the timeline records it" property fail on the first event write, and a unit test with a failing connection shows the same. The model keeps every event.
- **Auth, public paths.** `dispatch` lets through `/` and every path that starts with a public prefix. No API route starts with one, so the branch is left out.
- **Approval with four requests.** `ApprovalSingleUse` is checked with three request slots in `gate`. Four slots with both tools take several minutes.
- **Settings, metrics, errors, migrations.** Stateless or one-shot; not worth a model.
