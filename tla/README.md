# API-HUB: a TLA+ verification project

API-HUB takes products from suppliers, keeps them in a catalog, and pushes them to the OPS storefronts of
customers. This directory models the parts in which most can go wrong and least can be tested:

- the **push**: a client asks for a push, the request becomes a row of `product_push_log`, a worker claims and
  executes it against a storefront that has no transactions, and crashes, retries, replays, dry runs and other
  pushes of the same product come in between;
- the **import** beside it: jobs that bring supplier data into the catalog, the schedulers that start them, the
  selections they mark stale, the checkers that report their failures;
- the **clients** of both: the admin interface's push dialogs and pages, and the portal's and the administration's
  pages, whose requests are answered late, out of order or not at all;
- the **n8n node** through which workflows read from and write to OPS.

Paths below are under `src/backend/`, unless they start with `docs/`, `frontend/` (`src/frontend/src/`) or
`n8n-nodes-onprintshop/`.

## The system

| Component | State it keeps | Operations | What is hard | What makes it correct |
|---|---|---|---|---|
| **Admission** `modules/ops_push/gateway.py` (`prepare_push_intent`), `modules/integrations/routes.py` | rows of `product_push_log`: status, idempotency key, `pushed_at` | receive, replay, reap old rows, in-flight guard, preflight, insert, enqueue, admin retry | four transactions per request, every read may be stale at the next write | one row per key; one active push per (customer, product) slot |
| **Queue and workers** `modules/ops_push/queue.py`, `task_runner.py`, `worker.py` | arq jobs `push:{id}` with a try counter, or in-process tasks | enqueue, take, retry, finalise | suppressed jobs, exceptions that end a job, redelivery, lost workers | an accepted row is executed, by one worker at a time, and settles in the end |
| **Execution** `gateway.py` (`execute_push`) | claim in the row, session state | claim, select client, run plan, persist, call back, fire webhooks, raise | claims that conflict or come late, exceptions after the result was committed | results stand, callbacks are not repeated |
| **Plan execution** `gateway.py`, `payload_builder.py`, `modules/ops_client` | `push_mappings`, `step_results`; the products and children in OPS | dedup lookup, clear children, skip or send steps, retry, recreate, record mapping | the storefront keeps what a crash rolls back here; replies get lost; products are deleted there | one product per slot, children replaced and not appended |
| **Auto-category** `gateway.py` (`_resolve_ops_category`) | `ops_category_mappings` | look up, create in OPS, persist on its own | two first users of a category | the mapping stays single |
| **Import jobs** `modules/import_jobs/service.py`, `routes.py` | `sync_jobs`, `last_synced`, selections' staleness | trigger, run, hydrate with retries, finalise | check-then-act trigger, jobs that stay `running`, staleness against pushes | one import per supplier and mode; a selection whose product changed after the push is stale |
| **Schedulers** `modules/import_jobs/scheduler.py` | Redis lock, heartbeat | tick, acquire, run, release | the lock expires during a run and is released without a token | one instance imports |
| **Alerting** `modules/alerting/checker.py` | `notifications`, `alerted` flags | check pushes, jobs, heartbeat | several checkers; retried rows | each failure is notified once |
| **Webhooks** `modules/webhooks/service.py` | `failure_count`, `is_active` | fire, count, disable | concurrent fan-outs over one counter | ten failures in a row disable an endpoint |
| **Rate limit** `modules/integrations/auth.py`, `limiter.py` | Redis window, token buckets | check | count and record are two steps | at most the limit per window |
| **Pricing** `modules/pricing`, `modules/markup/engine.py` | none (pure) | resolve, mark up, round | rounding and precedence | agrees with a reference |
| **Catalog** `modules/catalog` | products, variants, images | ingest, upsert, archive | upserts within one transaction | keyed upserts |
| **Adapters** `modules/promostandards`, `rest_connector`, `ops_inbound`, `modules/ops_client/client.py` | tokens | fetch, normalise | I/O | - |
| **n8n node** `n8n-nodes-onprintshop/nodes/OnPrintShop.node.ts`, `OnPrintShop/execute/` | none beyond an execution: token, item, pages read | 99 operations; token, item loop, page loops, retries | answers that carry errors and data, pages of a table that changes, an item that fails after a write | complete lists, every failure and every write reported, no write sent twice |
| **Push clients** `frontend/lib/use-push-preview.ts`, `push-row-action.tsx`, `batch-push-modal.tsx`, the push page, the detail page | React state of each, requests on their way, timers | dry run, push, batch, poll | late and overlapping answers, lost requests, a customer changed meanwhile | what they say of a push is true, and they come to an end |
| **Pages** `frontend/app/(admin)`, `(portal)`, `storefront/vg`, panels | React state of each | load, select, save, poll a job | overtaken answers, failed loads, saves of what belongs to another selection | the screen shows the selection, a save overwrites nothing else |
| **Administration** (backend) auth, portal, customers, suppliers, images, decorations, master options, audit log, analytics, n8n proxy | CRUD tables | routes | - | - |

How they meet: admission writes a row and enqueues its id; a worker calls `execute_push` with the id; the row is the
only thing they share, and the partial unique index `uq_push_log_in_flight` (one row in `processing` per slot) the
only lock. An execution reads and writes the slot's mapping and the step results of earlier rows, and the
storefront. It ends with a callback, webhooks and a selection marked `pushed`, which a later import marks `stale`.
Alerting reads failed rows. The frontend polls rows and jobs over HTTP. The n8n node shares nothing with the
backend but OPS.

`PROJECT.json` lists every component with its status, and under `hazards` what is hard to test, line by line, with
the properties that cover it or the reason why none does.

## What is modelled

| Module | What it is |
|---|---|
| `PushSlot` | Abstract: what the gateway promises about live pushes - wait, be active alone in the slot, settle, be retried; an execution that was given up keeps the slot closed until it is written off. |
| `PushLifecycle` | Admission, queue, workers and execution as the push log sees them; refines `PushSlot`. |
| `OpsPush` | What the executions of one slot do to the storefront. |
| `Imports` | Import jobs of one supplier, scheduler loops and their lock, selections of one storefront, pushes as far as they meet these, alert checkers. |
| `OpsNode` | One execution of the n8n node; every handler is a record of the decisions it takes. |
| `PushClients` | The four clients of the push API beside an abstract gateway. |
| `AdminPages` | 44 pages, dialogs and panels that load, show, save and poll; each is a record that the actions interpret. |
| `MCPushLifecycle`, `MCOpsPush`, `MCOpsNode` | Instances for TLC: request bodies, plans, items, symmetry. `Imports`, `PushClients` and `AdminPages` are checked as they are. |
| `PushSlot_proofs`, `PushLifecycle_proofs`, `OpsPush_proofs`, `OpsNode_proofs`, `Imports_proofs`, `PushClients_proofs`, `AdminPages_proofs` | Theorems about the module of the same name, checked by TLAPS. |
| `PushRefinement_proofs` | The theorem that `PushLifecycle` implements `PushSlot`. |

The backend modules are cut where the code itself has a narrow interface: `PushLifecycle` decides who executes which
row, `OpsPush` what one execution after the other does to the storefront (it takes from `PushLifecycle` that they do
not overlap), `Imports` has a push only as "read the data, send it, write the selection". `PushClients` has the
gateway as a component of its own, with the statuses the routes answer.

Operators named `M_...` are the code with a plausible bug; each is put in the place of the operator after it to see
that a run notices. No specification uses them.

### PushLifecycle and the code

One action per database transaction (or per piece of code between two awaits that another actor can see).

| State | In the code |
|---|---|
| `status`, `call`, `callback` | columns of `ProductPushLog`; `call` stands for the request body with its key (`payload_hash`, `idempotency_key`, product and customer) |
| `old` | the open rows for which `now() - pushed_at > 300` holds |
| `jobs`, `tries` | waiting arq jobs of a row (or background tasks) and the try counter |
| `kept` | rows whose job has ended, and whose result arq may still keep under the job's id |
| `exec[w]`, `w \in Workers` | a running `run_push_job` / `run_push_task`: its place, row, `job_try`, the status its session has read (`seen`), the callback it still owes (`owes`) |
| `exec[s]`, `s \in Servers` | a request handler; for a dry run it executes the push inline |
| `posted`, `retried`, `faults` | history, for properties and bounds |

| Actions | In the code |
|---|---|
| `ReceiveFirst`, `ReceiveReplay` | idempotency lookup of `prepare_push_intent` and the replay branch of `create_push_request` |
| `Reap`, `Guard`, `PreflightFails`, `Insert` | the four steps of admission after it; reaping is a commit of its own |
| `Enqueue` | `enqueue_push`: arq gives no job for an id it still knows (waiting, in progress, or with a kept result), and that is taken for success |
| `RetryRead`, `RetryReset` | `admin_retry_push`: check, then write |
| `TakeJob`, `Load`, `Claim`, `ClaimConflict`, `ClaimRefused` | start of `execute_push`: read, `UPDATE ... WHERE status = 'accepted'`, the unique index, the refusal |
| `NoClient`, `Finish`, `Notify`, `Record`, `Publish`, `Raise` | the rest of `execute_push`; `Finish` chooses any result |
| `JobFails`, `FinalizeRead`, `FinalizeMark`, `InlineError` | who catches the exception: before the last try `run_push_job` raises it again, which ends the job; on the last try, or in process, the row is finalised; a dry run answers 500 |
| `Age`, `WorkerLost`, `ServerLost` | the environment |

Details that matter: `Finish` writes the result over whatever the row holds - except when the session has the same
value already, for SQLAlchemy then writes nothing (`SetStatus`); `seen` is what a session read at `Load`, so that
`ClaimRefused` and `SetStatus` work on values that may be stale, as the code does. `WorkerLost` has two outcomes:
arq delivers the job again, with one try more behind it (the worker died or was shut down), or the job ends without a word
(it was cancelled at `job_timeout`: `CancelledError` is no `Exception` and passes the handlers by).

arq is a library that is not in the repository. What the model takes from it is what its documentation says: a job that raises is
run again only for `Retry`, `RetryJob` and `CancelledError`; any other exception ends it, so that the `raise` of `worker.py` 95
does not bring the second try its comment announces (disagreement 8). The result of a job that ended is kept under its id for an
hour, since `WorkerSettings` (`worker.py` 182-195) does not set `keep_result`; as long as it is there no new job gets the id. The
hour may have gone by or not: for a row of `kept`, `Enqueue` may go either way. The status
`queued`, which the reaper and the routes know, is written nowhere and has no counterpart.

Three constants describe deployments rather than sizes:

- `Durable`: the arq queue (`REDIS_URL` set), or `BackgroundTasks`;
- `Timely`: rows grow old only when nobody executes them. This is what the comment at `gateway.py` 755-759 takes for
  granted; the code does not ensure it (run `reaper`);
- `SoloRetry`: two administrators do not retry the same row at the same instant.

### OpsPush and the code

| State | In the code |
|---|---|
| `shop`, `kids` | products with the slot's SKU in OPS, and the copies of each child (size, option, price, gallery) they have; a copy is known by its id |
| `mapping` | `PushMapping.target_ops_product_id` as committed; `exec.map` is what the session has flushed and may roll back |
| `status`, `results`, `pushedAt` | columns of the slot's rows; a result holds whether the step is `ok`, the request it was sent with (product id, ids of children), the id it gave and the copy it made |
| `exec` | `execute_push` in progress: `base` (the id the plan was built with), `pid` (`ops_product_id`), position, attempt, `prior` (the steps that may be taken over), `got` (the ids of the children it knows), `reused` (the steps it has taken over) |

| Actions | In the code |
|---|---|
| `Accept`, `Retry`, `Claim` | insert, admin retry (which forgets the row's steps), claim |
| `Dedup`, `Clear` | lookup by SKU if there is no mapping; deleting the children, as far as that works |
| `Skip` | step resumption: an `ok` step of the newest failed row with an equal request is not sent; the ids it gave then, children's too, stand in for new ones |
| `CreateProduct`, `CreateLost`, `UpdateProduct`, `RefuseProduct`, `Recover` | setProduct and its outcomes: null id with lookup, lost reply with another attempt, refusal, stale-mapping recovery |
| `AddChild`, `AddLost`, `RefuseChild`, `Unacceptable` | the other steps: added, reply lost, refused, and refused because OPS does not have the product or a child they name; a gallery is emptied first and never ends the push |
| `Finish`, `Crash` | commit of results and mapping; rollback, and the row `failed` |
| `Delete` | a product is deleted in OPS |

Abstractions: executions of a slot do not overlap (that is `OneActivePushPerSlot`, checked and proved in
`PushLifecycle`), and OPS deletes products only between executions; the catalog product does not change, so a
fingerprint depends on the ids resolved in the step; a slot has at most six rows, so the `limit(5)` of step resumption sees all others
(`ConstantsAssumption`); clearing and crash are each one step - a crash between the two halves of clearing is
`Clear` with its fault followed by `Crash`.

Steps depend on one another through `$stepN...` placeholders: a price sends the `size_id` of its size, an attribute the
`prod_add_opt_id` of its option. `Needs` says of each step which earlier ones it takes ids from, and `Key` gives its `source_key`, by which
a step finds its result in an earlier row; the size and the price of a variant share one (`prior_ok_by_source_key`). Of OPS, which is
external, it is assumed that it refuses a step which names a child it does not have, and deletes with a child what depends on it.

Left out are: stock steps and the SKU matrix (advisory, like a gallery), `setAssignOptions` (adds assignments to what is cleared with the
options), responses whose child id is null, images uploaded again under another name (which change a fingerprint and so only
lessen reuse), and the page limit of the search by SKU, past which a product is taken not to be there.

### Imports and the code

| State | In the code |
|---|---|
| `source`, `version`, `shop` | which version of a product's data the supplier has, the catalog has, and was last sent to the storefront |
| `selection` | `CustomerProductSelection.status` |
| `push` | an execution of a push: the data it has read, the selection row in its session |
| `jobs` | a row of `sync_jobs` and the coroutine that runs it: products still to do (`todo`), data fetched and not persisted (`held`), errors, whether somebody was alerted; `fresh` is `last_synced >= job.started_at`, which any job may cause |
| `lock`, `sched` | the Redis key, and where each process's scheduler loop is |
| `asked` | a trigger between its query and its insert |
| `seen` | failed rows a checker has read and not yet marked |
| `missed` | history: products whose old data no import under way will report |

| Actions | In the code |
|---|---|
| `Trigger`, `TriggerCreates` | `trigger_import`: look for a job under way; create one |
| `Unasked` | jobs created without looking: the inventory loop, `sync_before_push` |
| `Start`, `Fetch`, `Persist`, `Count`, `Err`, `Finalize`, `Refuse` | `run_existing_import_job`, `_run_inventory_only`, `_finalize_job`; products are hydrated concurrently, so their steps interleave |
| `Abandon` | an exception nobody catches, or `wait_for` cancelling the job of `sync_before_push`: the row stays `running` |
| `Acquire`, `Import`, `Release`, `LockExpires` | `start_scheduler` with `SET nx ex` and the unconditional `DEL` |
| `Select`, `Remove` | the storefront's catalog routes |
| `PushReads`, `PushSends`, `PushCommits`, `PushFails` | `execute_push`, as far as it meets the catalog and the selection |
| `CheckerReads`, `CheckerNotifies` | `_check_sync_failures`: read the oldest `MAX_ALERTS_PER_TICK`, notify and mark in one commit |
| `Halt`, `Change` | a process stops, dies and starts again; the supplier changes a product |

Abstractions: one supplier and one storefront (jobs and selections name theirs and meet no others); a deployment with
Redis; what `discover` returns is chosen at `Start`; a transient error that is retried leaves no trace. Finalisation
is one step: a push that commits between its `now` and its `UPDATE` leaves what one that commits just afterwards
leaves. A product is pushed by one execution at a time, which `PushLifecycle` shows. `Unasked` does not tie the job of
`sync_before_push` or of the inventory loop to its caller, so it may come at any time - a superset. Inventory counts
are not part of a product's "data": staleness does not look at them in the code either. A push that ended
`partial_failure` marks the selection `pushed` like one that succeeded and counts as sent.

Two constants describe deployments: `Prompt`, that a scheduled run ends before its lock expires, and `Modes`, what
administrators trigger.

Left as they are, since no text of the repository promises otherwise: two jobs that overlap may write older data over
newer (`Fetch` of one before, `Persist` after the other's); a push that ran during an import with current data is
marked stale for nothing.

### OpsNode and the code

| State | In the code |
|---|---|
| `job` | per item: the handler, "Fetch All Pages", Safe Mode, whether its parameters are well formed |
| `goOn` | `continueOnFail` |
| `phase`, `tries` | token (with its fallbacks), items, done, thrown |
| `item`, `scan` | the loop index; the page loop's offset, count and rows |
| `table` | the OPS table that is listed |
| `out`, `applied`, `met` | rows returned per item; history: writes OPS applied, and what an item met |

A handler is a record: its `kind`; whether parameters are checked before the request; what it does with an answer that
has neither data nor errors (`odd`), with a lookup that finds nothing (`none`), with a null list (`null`); which of the
three page loops it has; after which HTTP failures it asks again; Safe Mode; whether it tests errors before data
(`strict`). The 99 records are read off the handlers (those of
`execute/product.ts` and `execute/masterOption.ts`, which are alike, have one for reads and one for writes), and one set of actions interprets them: an answer is proper,
carries errors, is odd, null, empty, or an HTTP failure. An answer with data but without the operation's own field makes a `strict` handler
throw or return a row without content, as n8n's version has it: both are modelled, and `FailureReported` does not ask
for the second. Which fields are asked for and returned is left out: a row is the
id of its record.

### PushClients and the code

One of the four is open in a behaviour (`view`); the push page leads to the detail page. `net` is the set of requests
that are sent and not yet taken in, answered or not, in no order; `log` is the gateway's push log. Each dialog's record
holds its `useState`s and refs; an action is a click, a timer, or the continuation after an `await`. The gateway accepts
or refuses each storefront of a POST on its own, works on its rows, and any request may be lost before or after it was
applied. The admission's rules are not repeated here (that is `PushLifecycle`): refusing is a free choice. A settled row is final here: an administrator's retry, or a late execution
that overwrites a result, while a dialog is open belongs to `PushLifecycle`.

### AdminPages and the code

One page is open in a behaviour. `Load_x` says when it asks (does an effect depend on a selection; is there a cleanup that
voids late answers; is the question debounced, repeated by hand or by a timer), which flags it sets and what a failure
does. `View_x` gives for each panel the conditions under which the source renders it, and the handlers offered there.
`Save_x` gives for each handler whether its button is disabled meanwhile, whether it sends a change or all that is shown,
and what it does with the acknowledgement (reload, patch, leave the page, reload later) and with a failure. What is shown is
abstract: of which selection (`shown.of`), with which of the user's changes (`shown.has`), and whether it was overtaken by a
later question (`shown.old`). A page's id, filters and storefront are one key; on pages that open with nothing selected (`unset`) it
is `NoKey` at first. Most load flags start true; where the source starts one with `false` and sets it when a question is sent, the page
`spins` "late", and its empty panel can be seen before anything was asked.

## Runs

| Run | Instance | Shows |
|---|---|---|
| `durable` | 2 rows, 1 slot, 2 workers, 1 handler, 2 request bodies (plain; keyed with a callback), 2 tries, 2 faults of any kind, 1 retry per row | all safety properties, the action properties and `ImplementsPushSlot` |
| `live` | 2 rows, 1 worker, 1 handler, plain requests, a fault of any kind, a retry, rows that may grow old while they run | `SettledOnDemand` |
| `inprocess` | `Durable = FALSE`, 2 workers, callback, replayed request and dry run, no fault | `AcceptedPushSettles` |
| `replace` | 3 rows, a plan of size, gallery and the size's price, 4 executions, 3 faults out of six kinds, 4 ids | all safety properties of `OpsPush` |
| `imports` | 2 processes, 2 jobs, 1 product, triggers of a full import, checkers that take 1 failure at a time, 2 stops or crashes | the scheduler's lock, alerting and its liveness |
| `stale` | 1 process, 2 jobs, 2 products, 1 of them selected, 1 change, 1 push, 1 stop | `StaleIsNoticed` |
| `node` | 2 items, the first with every handler and setting, tables of 0, 3 or 5 records, pages of 2, at most 3, 2 improper answers, 2 changes | all properties of `OpsNode` |
| `clients` | 2 storefronts, 2 rows, 3 requests on their way, 2 ticks, 2 failures | all properties of `PushClients` |
| `pages` | 44 pages, 2 keys, 2 requests on their way, 2 changes (1 on a page with a selection), 2 failing polls | all properties of `AdminPages` |
| `reaper`, `retry` | `PushLifecycle` | disagreements, below |
| `resume` | `OpsPush` | disagreement, below |

Further configurations are kept to be run by hand. TLC finds the property of each of these violated:
`PushLifecycle_dryrun.cfg`, `PushLifecycle_idempotency.cfg` and `PushLifecycle_raise.cfg` (with `MCPushLifecycle`),
`OpsPush_duplicate.cfg`, `OpsPush_recreate.cfg`, `OpsPush_stale.cfg` and `OpsPush_incomplete.cfg` (`MCOpsPush`),
`OpsNode_fetchall.cfg` (`MCOpsNode`), `Imports_slow.cfg` (`Imports`), `AdminPages_markup.cfg` (`AdminPages`). These pass:
`OpsPush_options.cfg` and `OpsPush_sizes.cfg`, the properties of `replace` on a plan with an option and on one with two sizes
and shared source keys; `OpsNode_pages.cfg` (`PagesInv`, below).

The properties:

- `OneActivePushPerSlot`, `SettledUntilRetried`, `ImplementsPushSlot` - exclusion and finality, what the row is for;
- `OneJobPerRow` (in `IndInv`) - replays and retries do not double the work;
- `StrandedByFailureOnly` - before its first retry, a row is left open with nobody to go on with it only by a fault, or by the
  job that ended with an exception before its last try (disagreement 8); not by replays, suppressed enqueueing, claims that are
  refused, or an execution that ends;
- `SettledOnDemand` - whatever left a row open, a later request for its slot gets it settled; `AcceptedPushSettles` - in
  process, no later request is needed;
- `CalledBackOncePerRun` - at most one POST for each time a row was put up;
- `OneProductPerSlot` - no duplicate in OPS, as long as OPS answers and nobody deletes there;
- `PushReplacesChildren` - a push that runs every step leaves each child exactly once;
- `PushedProductExists` - `pushed` never names a product that is not there;
- `CleanPushFailsOnReuseOnly` - failures leave nothing behind that makes a later, fault-free push fail, except the steps it
  takes over: it fails only at a step that needs a child whose step was skipped (disagreement 9);
- `OneScheduledRun` - the schedulers of all processes run one import at a time, wherever one stops or dies;
- `StaleIsNoticed` - a selection that says `pushed` has the catalog's data, or an import under way will mark it, or one of
  two named losses has happened: the import that brought the data failed or died, or a push was crossed by its
  finalisation;
- `NotifiedOncePerChecker`, `FailureNotified` - a failed job is reported, and not more often than there are processes;
- `FailureReported`, `AppliedWriteReported`, `WrittenAtMostOnce` - an execution of the node hides no failure and no write;
- `WholeListReturned`, `DriftIsOneSided`, `RunEnds` - "Fetch All Pages" returns every record once if nothing changes, errs to
  one side if records are only added or only removed, and ends;
- `OnePushOnItsWay`, `ControlsAreForSelected`, `RowTellsTheTruth`, `DoneMeansSettled` - no second POST from one dialog, no
  confirming on another customer's dry run, no result that the gateway does not have;
- `RowComesToAnEnd`, `BatchComesToAnEnd`, `DetailShowsResult` - the clients stop waiting;
- `EmptyMeansEmpty` - three pages (`Candid`) say "none" only when the backend has said so of what is selected now;
- `ShowsTheSelected`, `OwnChangeShown`, `NothingOverwritten` - a page shows what is selected, shows what was saved, and saves
  nothing over something else;
- `SpinnerEnds`, `WatchingEnds` - no page loads or polls for ever.

The pages break these in many places. Each property of `AdminPages` therefore names, as a set beside it, the pages it
does not hold for (or, for `EmptyMeansEmpty`, the few it holds for); what happens there is told under *Pages* in the disagreements. A page that is repaired moves out of its set.

**Bounds.** Two rows are enough for every conflict over a slot: the index, the guard and the reaper look at one
other row. Two workers let a second execution run beside the first; a third would only repeat it. Slots do not
interact (each guard names one slot), so one is enough for TLC, and the proofs have any number. Two tries reach both
sides of `job_try < max_tries`: the last try is one that follows a lost worker, and raises there. Two faults let
a second one hit what the first left (a redelivered job, an enqueueing that never came), with one retry each; the proofs have no
such bound. `live` has one of each, since its trace ends in requests that go on without end. In `OpsPush`, a size, its price and the gallery
between them have a step that needs another one, one that nothing needs and one that is never resumed; three rows allow a row to resume from a failed row that is older
than a pushed one; four executions and three faults allow failure, success, deletion and recovery in one history;
each product beyond the first costs a fault of its own, so that four ids are never used up. `MaxTasks` bounds the
in-process tasks of a row.

In `Imports`, two processes have every conflict over the lock and over a failed row (one reads or acquires while the
other is between its steps), and two jobs overlap in every way: `last_synced` is written by one while the other runs.
The lock and the selections share only `jobs`, so the two runs divide them: `imports` has no selections, `stale` one
process and no checkers; each fires what the other leaves out. Two products make a job's list partly done, partly failed. One
push against one change reads before or after the change and commits before, during or after each job. The proofs
have no bounds. In `OpsNode`, two items let one fail after the other's write; items are otherwise independent. Tables of
0, 3 and 5 records with pages of 2 are empty, end within a page, and, after one is added or removed, end on a page's
boundary or fill the last page allowed. Two improper answers are a failure and the failure of its retry. In `PushClients`,
two storefronts are one that is selected and one that was; three requests on their way let two polls overlap beside a
POST; the ceilings of 150 ticks and 5 failures are 2, which reaches both sides of each. In `AdminPages`, every conflict is
between the selection and one other key and between two requests; a page with a selection has one change, since a second
would be sent to a key as the first was.

Deadlock is not checked where all rows are used up by the bounds (`OpsPush`) and where users may stop
clicking (`PushClients`, `AdminPages`).

**Fairness** (`FairSpec`): a waiting job is taken when a worker is free (arq polls the queue, the semaphore admits
waiting tasks), and started code runs on (weak fairness of each executor's and handler's own steps; every await in
it has a timeout or an answer). Fairness of `TakeJob` is per row,
because arq orders its queue by time: no job is passed over for ever. Nothing is assumed of clients, of `Age` or of faults, except in
`live` (`DemandSpec`): there time passes, and a live push of the slot without a key is requested again and again. That is no promise of the
code but the condition under which it settles what a fault left, for the reaper runs only when somebody asks for the slot. `live`
does not assume that a lost job comes again, nor that a running row stays young.

In `Imports` only the checkers are fair, each as long as its process runs (`run_checker` is an endless loop of sleep and
check); nothing is assumed of jobs, users, schedulers or suppliers. In `OpsNode`, OPS sooner or later gives a proper
answer (`WF(Answer)`); the loops that wait out a 429 or a 502 have no limit of their own, so nothing less would end them.
In `PushClients` and `AdminPages`, requests end (the browser gives up on them at the latest), timers run, and what has arrived is
taken in: that is the event loop. A push that is being processed gets its result, from its worker
or from the reaper of a later request: `DetailShowsResult` needs that assumption (`WF(End)`), and `SettledOnDemand` tells when it holds. That a
row is taken into processing is not assumed, nor that anybody clicks. Polls of an import succeed sooner or later.

## Disagreements with the documentation and comments

Told in full, with lines and quotes, in `PROJECT.json` under `findings`. A name in parentheses is the run, or the
configuration, that shows it.

*Push.*

1. (`reaper`) A push that has waited or run for 300 s is failed while it runs, and a second push of the slot starts.
2. (`PushLifecycle_dryrun.cfg`) Dry runs, which "should never block live pushes", hold the same unique index; the conflict ends the live
   push's job.
3. (`retry`) A retry is suppressed while the failed execution's job still calls back, or while arq keeps its result, and never executed.
4. (`PushLifecycle_idempotency.cfg`) Two concurrent requests with one key make two rows; the design has a unique index.
5. (`resume`) Children are cleared and the steps to add them again are skipped: the push ends, and its product lacks the size. After a
   cleanup that failed halfway it may even end as `pushed` (`OpsPush_incomplete.cfg`).
6. (`OpsPush_duplicate.cfg`) A crash after stale-mapping recovery brings the old mapping back; the next push creates a
   second product.
7. (`OpsPush_recreate.cfg`) A push resumes with the id of a deleted product and fails where it should have recreated it.
8. (`PushLifecycle_raise.cfg`) `run_push_job` raises an exception again "so arq reschedules" (`worker.py` 69-70, 95). arq does
   not: the job has failed. Without any fault, a claim that conflicts leaves its row `accepted`, and an exception in the run leaves it
   `processing` with the slot closed, both without a job, until a later request of the slot reaps them. Finalisation is reached only
   after lost workers have used up the tries before.
9. (`OpsPush_stale.cfg`) A resumed step takes over the id of a size or option that this very push has deleted; the price or attribute
   that sends it is refused. A push fails because an earlier one failed, and the next one does, too.
10. A product that a storefront adds to or removes from its catalog while its push ends makes the push's last commit
   fail: the result is lost with it.

*Imports and alerts.*

11. (`Imports_slow.cfg`) "Only ONE instance" - the lock expires, and is deleted by whoever ends, so that a slow run has another beside
   it: acquire, import, lock expires, acquire, import.
12. "Never more than one notification": one per API process that reads before another has marked.
13. A job that ends `failed` marks no selection stale, though the products it wrote stay written; a push that commits just
    after a finalisation overwrites its mark. These are the two exceptions of `StaleIsNoticed`.
14. Two `scheduler_down` notifications at once, and the heartbeat check raises until one is read.
15. Notifications of failed imports quote a column the import never fills.

*n8n node.*

16. (`OpsNode_fetchall.cfg`) "Fetch All Pages" is not read by three handlers, and three loops stop silently at page 100.
17. Two loops raise at page 100 even if the list ended there.
18. Safe Mode drops nested groups after GraphQL errors, not "when server returns 5xx".

*Push clients.*

19. The detail page does not poll while the row is `accepted`, and shows "not found" after one failed poll.
20. The batch dialog's "guard" against concurrent polls guards nothing; after giving up, the banner says "All N pushes succeeded" of
    rows in flight.
21. The idempotency key holds milliseconds; no two clicks share one.

*Pages.* The exceptions of `AdminPages`, by property:

22. `EmptyMeansEmpty` (all but `Candid`): a failed load ends in the panel of an empty list, as in "No storefronts found"
    (`customers/page.tsx`); in the settings, sign-up is shown "Closed". Pages whose flag starts with `false` show that panel before
    they have asked: markup says "No pricing rules yet" (`markup/page.tsx` 252) before a storefront is selected, and of a storefront
    just selected while its rules are on their way (`AdminPages_markup.cfg`, `NoRulesMeansNoRules`).
23. `ShowsTheSelected`: pages outside `Guarded` show whichever answer comes last, so the property is asked of them only when none was overtaken.
    `Belated` pages do it even then: notifications, setup and markup reload, after a save, with the selection of the
    click; "Load More" appends rows of the filter that was selected when it was pressed.
24. `OwnChangeShown` (`Patched`): these pages put a change on the screen while an older load is on its way, whose
    answer then takes it away again until the next visit.
25. `NothingOverwritten` (`Sweeping`): "Save All" of the product setup, branding and decoration send what is shown - product A's
    options, if A's answer came after B's - to the selected product; the connection form, blank until or unless its load
    succeeds, is saved over what is stored; the SanMar fields are sent by two unordered PUTs.
26. `SpinnerEnds` (`Waiting`): the mapping page says "Loading..." for ever after a failed load.
27. `WatchingEnds`: the 4Over panel waits for `completed`, and imports end as `success` or `partial_success`.
28. A failed toggle of a supplier restores the form as it was at the click, and with it loses edits made since.

Noticed beside the models: a late list of storefronts resets the choice in the row's dialog
(`push-row-action.tsx` 103), and its delayed close (154) may close the dialog after it was opened again; saving
credentials reloads the supplier over unsaved edits; the product page keeps the previous storefront's branding panel while
the next loads.

## What is proved

By TLAPS, for every number of rows, slots, workers, handlers, retries, pages' keys, faults and so on:

| Module | Theorem | Property | Hypotheses |
|---|---|---|---|
| `PushSlot_proofs` | `SlotTyping`, `SlotExclusion` | the abstract slot's types; one active push | - |
| `PushLifecycle_proofs` | `TypeCorrect` | `TypeOK` | - |
| | `StrandedByFailure` | `StrandedByFailureOnly` | - |
| | `OneJobAlways` | `OneJobPerRow` | `Durable` |
| | `CalledBackOnce` | `CalledBackOncePerRun` | `Durable` |
| | `Invariance`, `OneActivePush`, `SettledFinal` | `IndInv`, `OneActivePushPerSlot`, `SettledUntilRetried` | `Durable`, `Timely`, `SoloRetry` |
| `PushRefinement_proofs` | `ImplementsSlot` | `ImplementsPushSlot` | `Durable`, `Timely`, `SoloRetry` |
| `OpsPush_proofs` | `TypeCorrect`, `Invariance` | `TypeOK`, `IndInv` | - |
| | `OneProduct`, `ProductExists` | `OneProductPerSlot`, `PushedProductExists` | - |
| | `ReplacesChildren`, `CleanFailsOnReuse` | `PushReplacesChildren`, `CleanPushFailsOnReuseOnly` | - |
| `Imports_proofs` | `TypeCorrect`, `ReportedOncePerChecker`, `StaleNoticed` | `TypeOK`, `NotifiedOncePerChecker`, `StaleIsNoticed` | - |
| | `OneRun` | `OneScheduledRun` | `Prompt` |
| `OpsNode_proofs` | `TypeCorrect`, `WriteOnce`, `FailuresReported`, `WritesReported` | `TypeOK`, `WrittenAtMostOnce`, `FailureReported`, `AppliedWriteReported` | - |
| | `WholeLists`, `OneSidedDrift` | `WholeListReturned`, `DriftIsOneSided` | - |
| `PushClients_proofs` | `Invariance`, `OnePush`, `JudgedBeforeOffered` | `IndInv`, `OnePushOnItsWay`, `ControlsAreForSelected` | - |
| | `RowTruth`, `DoneSettled` | `RowTellsTheTruth`, `DoneMeansSettled` | - |
| `AdminPages_proofs` | `Invariance`, `TypeCorrect`, `NothingOnlyIfTold` | `IndInv`, `TypeOK`, `EmptyMeansEmpty` | - |
| | `SelectedIsShown`, `ChangeIsShown`, `StoredStays` | `ShowsTheSelected`, `OwnChangeShown`, `NothingOverwritten` | - |

Every safety and action property of the passing runs is among them. The
hypotheses are constants of a deployment, told under *PushLifecycle* and *Imports*; the run `reaper` and
`Imports_slow.cfg` show what happens without `Timely` and `Prompt`. Beside them the proofs rest on the named
`ASSUME`s of the modules, which TLC evaluates in every run. Finiteness of the constants is not assumed in
`PushLifecycle`. `OpsPush` assumes of a plan that no step occurs twice and that a step is critical: `execute_push` is
reached only with at least one variant (preflight's `check_required_fields`, `preflight.py` 832-848, refuses a product
without), for which the payload builder makes a `setProductSize`. For an empty plan `PushedProductExists` is false.

*Why two pushes of a slot are never active.* That no two are active is not inductive: an execution may be running
while its row has another status. `IndInv` adds that a live row in execution is `processing` (`RunProcessing`), that
`processing` is unique in a slot (`IndexUnique`, which `Claim` keeps because it checks it), and that one row is held by one
worker (`OneJobPerRow`). Keeping `RunProcessing` is the work: four kinds of step write the status of a row that
somebody else may be executing. The reaper takes only rows of `old`, and those are not executed (`OldIsStuck`, where
`Timely` enters); a retry writes over a row that was settled when it was read and still is (`ResetIsSettled`, where
`SoloRetry` enters); finalisation marks rows that have no result (`MarkIsUnsettled`); and `Finish` belongs to the one
holder.

*Why the lifecycle implements the slot.* The mapping gives a row the phase of its live push: waiting, active while a
worker is between claim and result, abandoned when it is `processing` and nobody executes it, or settled. A claim needs the slot open,
which is `IndexUnique` read through the mapping; a row that is reaped or finalised is, by `OldIsStuck` and `MarkIsUnsettled`,
never an active one, so that the write is the abstract write-off; a lost worker abandons; a retry puts up. Every other step -
replays, refused claims, callbacks, dry runs - leaves all phases as they are. There is one lemma per kind of step.

*Why a row is left behind by a failure only.* `StrandedByFailureOnly` holds in every deployment, also where executions overlap: it speaks of
rows that were never retried. A row that has a job, a worker or a handler about to enqueue it loses the last of them in one of a few
steps. An enqueueing that is suppressed leaves the job that was there. An execution that ends has written its result:
`FirstRunWrites` says that the session of a row that was never retried has read what makes `Finish` write it, and that a claim
refused to a session which read a settled row finds it settled. The last try finalises. What remains is a lost worker or
server, and `JobFails`.

*Why there is one callback for each time a row is put up.* `CallbackCredit` counts: the callbacks posted for a row, the one a
worker still owes, and one more if the row can be claimed again, are together no more than one plus its retries. A claim turns the last
into the second, `Notify` the second into the first; a crash loses credit and never makes any; a retry adds one.

*What a push leaves in the storefront.* In `OpsPush`, as long as OPS answers (`Reliable`), every id that is on record
anywhere - in the mapping, the session, the results of any row, the steps to be taken over - names the product
(`IdsKnown`), and an execution that is about to create one has looked and found none (`CreatesFirst`). A crash loses the
mapping but not the product; the lookup then finds it. That gives one product. That a push which succeeds has its product holds without
`Reliable`, by another argument: the last critical step of a plan is never taken over (`NeverResumed`: had it
been `ok`, the row that holds it would not have failed), so each push that succeeds has sent that step itself, and OPS has
answered for a product that exists. Children are exact because clearing and adding are both the push's own as long as no fault hits it
(`CleanUnlessHit`), whatever it found. And a push that no fault hits does not fail (`FailsByFault`) unless a lookup failed or a
product was deleted (`Found`), or a step needs a child whose step was reused: the product id it resumes with is then still the product's,
and the ids of children that the push created itself are good (`OwnKids`) - clearing comes before them, and a gallery, which is
emptied later, is nothing that others need.

*Why scheduled imports exclude each other.* That there is one is not inductive: a second process could acquire the lock
while the first one's job runs on. `IndInv` adds that a loop that is not asleep holds the lock (`LockHeld`), that there is one such
loop (`OneHolder`, which `Acquire` keeps because of `nx`), and that a scheduled job has its scheduler waiting for it
(`AwaitedByItsScheduler`). `Release` would break the first if another loop held the lock, which `OneHolder` excludes; a
lock that expires would break it too: that is where `Prompt` enters. `Halt` ends the loop and its jobs together.

*Why a failure is notified at most once per checker.* The notifications of a job and the checkers that have read it and not yet
marked it are together no more than the processes (`ReportsBounded`): a checker moves from the second count to the first. A job
nobody was alerted of has no notification, and after the first mark nobody reads it any more. The induction is over
`Cardinality(Readers)`, with lemmas for adding and removing a checker.

*Why old data do not stay unnoticed.* `StaleIsNoticed` is inductive with the types. `Persist` may make a storefront's data old and
puts the product among the `fresh` ones of the job itself, so its finalisation marks it; it is put there for every other job under way,
so that a later finalisation marks it again. `Finalize` ends that and marks; if it does not mark (`failed`), or the job ends otherwise,
the product goes to `missed`. A push that sends or marks old data either leaves a job under way with the product fresh, or goes to `missed`.

*Why the node reports.* The invariants speak of the end of an execution; `IndInv` says of every moment that items not yet reached
are untouched and finished ones are settled (`Settled`: each error and each write has its row), unless the
execution has failed. The lemmas `FinishKeeps`, `ThrowKeeps` and `ContinueKeeps` show that for each way in which a handler
can leave its item, for any handler record, and `HandlersSound` that each of the 99 records is one. `applied <= 1` holds because loops that ask
again belong to handlers that only read, which is a fact about the 99 records.

*Why the page loops return what they should.* The properties speak of the step that ends an item; `PagesInv` says of each moment in
between what the rows read so far are (`ReadSoFar`), by the item's history: nothing changed - the first records of the table, up to the offset
(`Whole`); records only added - each old record up to the offset is among them (`NoneHidden`); only removed - none of them occurs twice, nor is one
still stored at or after the offset (`NoneTwice`). Each change of the table keeps what its history still promises: a record put first
moves the others down, to positions that are read again or still to come; a removed one moves them up, to positions that were read. The
inductive step needs three more parts: items to come have no history and no rows (`Fresh`), the records of a table differ and
new ones get new ids (`Distinct`, against the number of changes), and the offset is the count of the records read (`Counts`), which
is where a page loop that counts answers and one that counts pages come together. A loop that ended with nothing amiss has read its last page
(`LastPage`, `LoopEnds`): a page shorter than asked for, under the cap, ends where the table ends. `PagesInv` is checked by
TLC on the instance of the run `node`, by hand with `OpsNode_pages.cfg`: the run lists the properties that rest on it.

*Why the clients tell the truth.* Their properties speak of a dialog and the push log, but what a dialog will show is in an answer on its
way. `IndInv` says of each request what its answer can be: it names the row it was asked about; a result in it is the log's, and
stays so, since a settled row does not change; a list of rows in an answer to a POST is of the storefronts that were sent. It says of each
window how many requests of each kind it has open and which of them may still write (a closed window none, a
cancelled dry run none), and of the batch dialog that each row it takes for settled is settled in the log. Then each continuation only copies.

*Why pages show what they should.* The 44 records are examined once, page by page (`PagesSound` and the lemmas before it): which handlers a
panel offers and under which flags, that a save which sends all is disabled until the page has loaded, and so on; from there on
the proofs speak of any page. Loads are overtaken in the order in which they were sent (`InOrder`), therefore the last one sent is the last that can be
shown unmarked. That load is one for the selection (`LoadsTheSelected`: whatever changes the selection asks again, at once or when the timer fires) and
brings each change the user was told is saved (`BringsChanges` with `Stored`: it was sent after the acknowledgement, and the backend had stored
the change before). Pages in `Lone` load once and offer nothing before (`LoadsOnce`), so that what `Entire` ones show and send back has all that is
stored (`ShowsAll`); hence a save of theirs undoes nothing.

**Model-checked only:** liveness - `SettledOnDemand`, `AcceptedPushSettles`, `FailureNotified`, `RunEnds`, `RowComesToAnEnd`, `BatchComesToAnEnd`,
`DetailShowsResult`, `SpinnerEnds`, `WatchingEnds` (leads-to under fairness and ENABLED are beyond the prover).

## Not modelled

- `POST /api/push-log`, with which an administrator writes a row of any status, and the batch push route, which
  repeats admission.
- The dead-letter list (written, never read by the code) and preflight (a nondeterministic verdict).
- Stock steps, the SKU matrix and `setAssignOptions`, null ids of children, images that change between two pushes, and the page
  limit of the search by SKU (see *OpsPush and the code*).
- `push_product` without `BackgroundTasks`: no route calls it so.
- The scheduler's heartbeat and the check of it (a comparison of clocks), a deployment without Redis (every
  instance then runs the imports, as the docstring of the lock says), and failed pushes in alerting, which run
  through the same code as failed jobs.
- Webhooks' failure counter and the rate limit's window: each is a read and a write without a lock, so the only thing a model could say
  is that the limit does not hold under concurrency; the hazards say it.
- Pricing and markup: pure, decimal. Their values are beyond TLC's integers, and what is left without them is a lookup order.
- Auto-category, preflight, payload builder, adapters: sequential translations whose outcome the models choose freely.
- In the frontend: forms that only create, navigation, the header's storefront picker and bell, fixtures of the demo
  mode, filters over what is loaded. In the node: parameter descriptions and GraphQL texts.
- The components listed in `PROJECT.json` as `not_modelled`.

## Plan

What would come next, in this order:

1. **CategoryMap**: creation on first use, the mapping single (`_persist_category_mapping`).
2. **AdminPages**: as pages are repaired, the exception sets shrink; the aim is that they are empty.
