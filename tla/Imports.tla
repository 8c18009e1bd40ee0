------------------------------ MODULE Imports ------------------------------
(***************************************************************************)
(* Import jobs of one supplier in the API processes of a deployment with   *)
(* Redis (import_jobs/service.py, routes.py, scheduler.py), the catalog    *)
(* selections of one storefront that imports mark stale and pushes mark    *)
(* pushed (gateway.py, customer_catalog/routes.py), and the alert checkers *)
(* that report failed jobs (alerting/checker.py).                          *)
(***************************************************************************)
EXTENDS Integers, FiniteSets

CONSTANTS
    Procs,          \* API processes
    Products,       \* products of the supplier
    Picked,         \* those the storefront may select
    Modes,          \* discovery modes an administrator triggers
    Prompt,         \* a scheduled run ends before its lock expires
    MaxAlerts,      \* MAX_ALERTS_PER_TICK; 0: no checkers
    MaxJobs,        \* bound: jobs
    MaxVersion,     \* bound: versions of the supplier's data, from 1
    MaxPushes,      \* bound: executions of pushes
    MaxHalts        \* bound: stops and crashes of processes

ASSUME ImportsAssumption ==
    /\ IsFiniteSet(Procs) /\ IsFiniteSet(Products)
    /\ Picked \subseteq Products
    /\ Modes \subseteq {"full", "delta", "inventory"}
    /\ Prompt \in BOOLEAN
    /\ MaxAlerts \in Nat
    /\ MaxJobs \in Nat /\ MaxVersion \in Nat \ {0}
    /\ MaxPushes \in Nat /\ MaxHalts \in Nat

VARIABLES
    source,     \* version of each product's data at the supplier
    version,    \* version of it in the catalog
    shop,       \* version of it that was last sent to the storefront, 0: none
    selection,  \* status of each product's CustomerProductSelection
    push,       \* the execution of a push of each product
    jobs,       \* the rows of sync_jobs, with the coroutine that runs them
    lock,       \* the key scheduler:running is set
    sched,      \* where the scheduler loop of each process is
    asked,      \* the mode a trigger request found free, per process
    seen,       \* the failed jobs each checker has read
    missed,     \* history: products whose new data no import will report
    changes, pushes, halts    \* counters

vars == <<source, version, shop, selection, push, jobs, lock, sched, asked, seen,
          missed, changes, pushes, halts>>

None == "none"
Jobs == 1..MaxJobs
Statuses == {None, "pending", "running", "success", "partial_success", "failed"}
SelectionStatuses == {None, "selected", "pushed", "stale"}

\* SyncJob, and what run_existing_import_job keeps beside it.  "fresh" are the
\* products with last_synced >= started_at, which any job may cause.
Job == [proc : Procs \cup {None}, mode : {None, "full", "delta", "inventory", "explicit"},
        scheduled : BOOLEAN, status : Statuses, alive : BOOLEAN,
        todo : SUBSET Products, held : [Products -> 0..MaxVersion], fresh : SUBSET Products,
        wrote : BOOLEAN, erred : BOOLEAN, fatal : BOOLEAN, alerted : BOOLEAN, notes : Nat]

Nothing == [p \in Products |-> 0]
NoJob == [proc |-> None, mode |-> None, scheduled |-> FALSE, status |-> None,
          alive |-> FALSE, todo |-> {}, held |-> Nothing, fresh |-> {}, wrote |-> FALSE,
          erred |-> FALSE, fatal |-> FALSE, alerted |-> FALSE, notes |-> 0]

\* What an execution of a push has read: the data, and the selection.
NoPush == [read |-> 0, row |-> "unread"]
RowsRead == {"unread", "gone"} \cup SelectionStatuses

Init ==
    /\ source = [p \in Products |-> 1]
    /\ version = [p \in Products |-> 1]
    /\ selection \in [Picked -> {None, "pushed"}]
    /\ shop = [p \in Picked |-> IF selection[p] = None THEN 0 ELSE 1]
    /\ push = [p \in Picked |-> NoPush]
    /\ jobs = [j \in Jobs |-> NoJob]
    /\ lock = FALSE
    /\ sched = [i \in Procs |-> "asleep"]
    /\ asked = [i \in Procs |-> None]
    /\ seen = [i \in Procs |-> {}]
    /\ missed = {}
    /\ changes = 0 /\ pushes = 0 /\ halts = 0

-----------------------------------------------------------------------------
(* Jobs *)

\* create_pending_import_job, by a task of process i.
Create(i, mode, scheduled) ==
    \E j \in Jobs :
        /\ jobs[j].status = None /\ \A k \in 1..(j - 1) : jobs[k].status # None
        /\ jobs' = [jobs EXCEPT ![j] = [NoJob EXCEPT
                        !.proc = i, !.mode = mode, !.scheduled = scheduled,
                        !.status = "pending", !.alive = TRUE]]

UnchangedExceptJobs ==
    UNCHANGED <<source, version, shop, selection, push, lock, sched, asked, seen, missed,
                changes, pushes, halts>>

\* trigger_import: the query for a job under way, and its refusal.
Trigger(i, mode) ==
    /\ asked[i] = None
    /\ ~ \E j \in Jobs : jobs[j].mode = mode /\ jobs[j].status \in {"pending", "running"}
    /\ asked' = [asked EXCEPT ![i] = mode]
    /\ UNCHANGED <<source, version, shop, selection, push, jobs, lock, sched, seen, missed,
                   changes, pushes, halts>>

\* ... the job, and the background task that runs it.
TriggerCreates(i) ==
    /\ asked[i] # None
    /\ Create(i, asked[i], FALSE)
    /\ asked' = [asked EXCEPT ![i] = None]
    /\ UNCHANGED <<source, version, shop, selection, push, lock, sched, seen, missed,
                   changes, pushes, halts>>

\* sync_before_push and the loop of start_inventory_scheduler look for nothing.
Unasked(i) ==
    /\ \E mode \in {"explicit", "inventory"} : Create(i, mode, FALSE)
    /\ UNCHANGED <<source, version, shop, selection, push, lock, sched, asked, seen, missed,
                   changes, pushes, halts>>

\* What discover returns: the supplier and a limit decide, but for the two
\* modes whose products are known.
Discovered(mode) ==
    CASE mode = "inventory" -> {Products}
      [] mode = "explicit"  -> {{p} : p \in Products}
      [] OTHER              -> SUBSET Products

\* started_at and the list of products.
Start(j) ==
    /\ jobs[j].alive /\ jobs[j].status = "pending"
    /\ \E found \in Discovered(jobs[j].mode) :
         jobs' = [jobs EXCEPT ![j].status = "running", ![j].todo = found]
    /\ UnchangedExceptJobs

Running(j) == jobs[j].alive /\ jobs[j].status = "running"

\* hydrate_product; a transient error is asked again (2 retries), which leaves
\* no trace until the last one.
Fetch(j, p) ==
    /\ Running(j) /\ p \in jobs[j].todo /\ jobs[j].held[p] = 0
    /\ jobs[j].mode # "inventory"
    /\ jobs' = [jobs EXCEPT ![j].held[p] = source[p]]
    /\ UnchangedExceptJobs

Touched(job, p) ==
    IF job.alive /\ job.status = "running" THEN [job EXCEPT !.fresh = @ \cup {p}] ELSE job

Persisted(job, p) ==
    [job EXCEPT !.todo = @ \ {p}, !.held = [@ EXCEPT ![p] = 0], !.wrote = TRUE]

\* persist_product in a session of its own: last_synced is set for every job.
Persist(j, p) ==
    /\ Running(j) /\ jobs[j].held[p] # 0
    /\ version' = [version EXCEPT ![p] = jobs[j].held[p]]
    /\ jobs' = [k \in Jobs |-> IF k = j THEN Persisted(Touched(jobs[k], p), p)
                               ELSE Touched(jobs[k], p)]
    /\ UNCHANGED <<source, shop, selection, push, lock, sched, asked, seen, missed,
                   changes, pushes, halts>>

\* _fetch_inv: counts of variants, neither last_synced nor the product.
Count(j, p) ==
    /\ Running(j) /\ p \in jobs[j].todo /\ jobs[j].mode = "inventory"
    /\ jobs' = [jobs EXCEPT ![j].todo = @ \ {p}, ![j].wrote = TRUE]
    /\ UnchangedExceptJobs

Erred(job, p, fatal) ==
    [job EXCEPT !.todo = @ \ {p}, !.held = [@ EXCEPT ![p] = 0], !.erred = TRUE, !.fatal = fatal]

\* A product ends with an error; only hydrating knows the fatal one.
Err(j, p) ==
    /\ Running(j) /\ p \in jobs[j].todo
    /\ \E fatal \in BOOLEAN :
         /\ jobs[j].fatal => fatal
         /\ jobs[j].mode = "inventory" => ~fatal
         /\ jobs' = [jobs EXCEPT ![j] = Erred(@, p, fatal)]
    /\ UnchangedExceptJobs

\* The data p has in the storefront are not those of the catalog.
Differs(p) == p \in Picked /\ shop[p] # version[p]

\* A row is settled, or left by its coroutine: what only that used is dropped.
Ended(job, status) ==
    [NoJob EXCEPT !.mode = job.mode, !.status = status,
                  !.alerted = job.alerted, !.notes = job.notes]

\* Mutant: a job that went well has the status the 4Over panel waits for.
M_Completed(job) ==
    CASE job.fatal    -> "failed"
      [] ~job.erred   -> "completed"
      [] job.wrote    -> "partial_success"
      [] OTHER        -> "failed"

Outcome(job) ==
    CASE job.fatal    -> "failed"
      [] ~job.erred   -> "success"
      [] job.wrote    -> "partial_success"
      [] OTHER        -> "failed"

\* Mutant: a job with one failed product leaves the selections alone.
M_MarksIfClean(status) == status = "success"

MarksStale(status) == status \in {"success", "partial_success"}

\* _finalize_job.  A push that commits between its "now" and its UPDATE leaves
\* what one that commits just afterwards leaves, so this is one step.
Finalize(j) ==
    /\ Running(j) /\ jobs[j].todo = {}
    /\ LET status == Outcome(jobs[j])
       IN  /\ jobs' = [jobs EXCEPT ![j] = Ended(@, status)]
           /\ selection' = [p \in Picked |->
                  IF MarksStale(status) /\ p \in jobs[j].fresh /\ selection[p] = "pushed"
                  THEN "stale" ELSE selection[p]]
           /\ missed' = IF status = "failed"
                        THEN missed \cup {p \in jobs[j].fresh : Differs(p)}
                        ELSE missed \ jobs[j].fresh
    /\ UNCHANGED <<source, version, shop, push, lock, sched, asked, seen,
                   changes, pushes, halts>>

\* No adapter, or discover fails with one of the errors that are caught.
Refuse(j) ==
    /\ jobs[j].alive /\ jobs[j].status = "pending"
    /\ jobs' = [jobs EXCEPT ![j] = Ended(@, "failed")]
    /\ UnchangedExceptJobs

\* Another exception, or the timeout of sync_before_push: the row stays as it is.
Abandon(j) ==
    /\ jobs[j].alive
    /\ jobs' = [jobs EXCEPT ![j] = Ended(@, @.status)]
    /\ missed' = missed \cup {p \in jobs[j].fresh : Differs(p)}
    /\ UNCHANGED <<source, version, shop, selection, push, lock, sched, asked, seen,
                   changes, pushes, halts>>

-----------------------------------------------------------------------------
(* start_scheduler *)

UnchangedExceptScheduler ==
    UNCHANGED <<source, version, shop, selection, push, asked, seen, missed,
                changes, pushes, halts>>

\* Mutant: SET without nx.
M_AcquireAnyway(i) ==
    /\ sched[i] = "asleep"
    /\ lock' = TRUE
    /\ sched' = [sched EXCEPT ![i] = "holding"]
    /\ UNCHANGED jobs /\ UnchangedExceptScheduler

\* _try_acquire_scheduler_lock: SET with nx.
Acquire(i) ==
    /\ sched[i] = "asleep" /\ ~lock
    /\ lock' = TRUE
    /\ sched' = [sched EXCEPT ![i] = "holding"]
    /\ UNCHANGED jobs /\ UnchangedExceptScheduler

\* run_all_active_imports: run_import of the supplier.
Import(i) ==
    /\ sched[i] = "holding"
    /\ Create(i, "delta", TRUE)
    /\ sched' = [sched EXCEPT ![i] = "importing"]
    /\ UNCHANGED lock /\ UnchangedExceptScheduler

Scheduled(j) == jobs[j].alive /\ jobs[j].scheduled

\* run_import is over, or no job came about: _release_scheduler_lock deletes the key.
Release(i) ==
    /\ sched[i] # "asleep"
    /\ ~ \E j \in Jobs : Scheduled(j) /\ jobs[j].proc = i
    /\ lock' = FALSE
    /\ sched' = [sched EXCEPT ![i] = "asleep"]
    /\ UNCHANGED jobs /\ UnchangedExceptScheduler

\* ex: 0.9 of the interval are over.
LockExpires ==
    /\ lock
    /\ Prompt => \A i \in Procs : sched[i] = "asleep"
    /\ lock' = FALSE
    /\ UNCHANGED <<jobs, sched>> /\ UnchangedExceptScheduler

-----------------------------------------------------------------------------
(* The catalog of the storefront, and pushes (one at a time per product) *)

UnchangedExceptPush ==
    UNCHANGED <<source, version, jobs, lock, sched, asked, seen, changes, halts>>

\* add_selection, bulk_add_selections
Select(p) ==
    /\ selection[p] = None
    /\ selection' = [selection EXCEPT ![p] = "selected"]
    /\ UNCHANGED <<shop, push, missed, pushes>> /\ UnchangedExceptPush

\* remove_selection deletes the row, also one a push has in its session.
Remove(p) ==
    /\ selection[p] # None
    /\ selection' = [selection EXCEPT ![p] = None]
    /\ push' = [push EXCEPT ![p].row = IF @ \in {"unread", None} THEN @ ELSE "gone"]
    /\ UNCHANGED <<shop, missed, pushes>> /\ UnchangedExceptPush

\* execute_push builds the payload from the catalog.
PushReads(p) ==
    /\ push[p] = NoPush /\ pushes < MaxPushes
    /\ pushes' = pushes + 1
    /\ push' = [push EXCEPT ![p].read = version[p]]
    /\ UNCHANGED <<shop, selection, missed>> /\ UnchangedExceptPush

\* p is sent or marked with old data and no import under way will notice.
Overlooked(p, sent) ==
    sent # version[p] /\ ~ \E j \in Jobs : Running(j) /\ p \in jobs[j].fresh

Overlooking(p, sent) == IF Overlooked(p, sent) THEN missed \cup {p} ELSE missed \ {p}

\* The mutations are applied (at least some); the selection is read.
PushSends(p) ==
    /\ push[p].read # 0 /\ push[p].row = "unread"
    /\ shop' = [shop EXCEPT ![p] = push[p].read]
    /\ push' = [push EXCEPT ![p].row = selection[p]]
    /\ missed' = Overlooking(p, push[p].read)
    /\ UNCHANGED <<selection, pushes>> /\ UnchangedExceptPush

\* What the flush leaves in the row: an attribute that was "pushed" is not written.
Flushed(row, current) == IF row = "pushed" THEN current ELSE "pushed"

\* The commit; it fails when the row read is gone, or one was added meanwhile.
PushCommits(p) ==
    /\ push[p].row # "unread"
    /\ push' = [push EXCEPT ![p] = NoPush]
    /\ IF push[p].row = "gone" \/ (push[p].row = None /\ selection[p] # None)
       THEN UNCHANGED <<selection, missed>>
       ELSE /\ selection' = [selection EXCEPT ![p] = Flushed(push[p].row, @)]
            /\ missed' = Overlooking(p, shop[p])
    /\ UNCHANGED <<shop, pushes>> /\ UnchangedExceptPush

\* The push fails, or its worker dies, before it comes to the selection.
PushFails(p) ==
    /\ push[p] # NoPush
    /\ push' = [push EXCEPT ![p] = NoPush]
    /\ UNCHANGED <<shop, selection, missed, pushes>> /\ UnchangedExceptPush

-----------------------------------------------------------------------------
(* Alerting, and processes *)

Unreported == {j \in Jobs : jobs[j].status = "failed" /\ ~jobs[j].alerted}

\* _check_sync_failures: the oldest failed jobs nobody was alerted of.
CheckerReads(i) ==
    /\ seen[i] = {} /\ Unreported # {} /\ MaxAlerts > 0
    /\ seen' = [seen EXCEPT ![i] =
                  {j \in Unreported : Cardinality({k \in Unreported : k < j}) < MaxAlerts}]
    /\ UNCHANGED <<source, version, shop, selection, push, jobs, lock, sched, asked, missed,
                   changes, pushes, halts>>

\* Mutant: the rows are not marked.
M_NotifiesUnmarked(i) ==
    /\ seen[i] # {}
    /\ jobs' = [j \in Jobs |-> IF j \in seen[i] THEN [jobs[j] EXCEPT !.notes = @ + 1]
                               ELSE jobs[j]]
    /\ seen' = [seen EXCEPT ![i] = {}]
    /\ UNCHANGED <<source, version, shop, selection, push, lock, sched, asked, missed,
                   changes, pushes, halts>>

\* Mutant: one UPDATE marks every failed job, also those beyond the limit.
M_MarksAll(i) ==
    /\ seen[i] # {}
    /\ jobs' = [j \in Jobs |-> IF j \in seen[i] \cup Unreported
                               THEN [jobs[j] EXCEPT !.alerted = TRUE,
                                                    !.notes = @ + IF j \in seen[i] THEN 1 ELSE 0]
                               ELSE jobs[j]]
    /\ seen' = [seen EXCEPT ![i] = {}]
    /\ UNCHANGED <<source, version, shop, selection, push, lock, sched, asked, missed,
                   changes, pushes, halts>>

\* ... their notifications and marks, in one commit.
CheckerNotifies(i) ==
    /\ seen[i] # {}
    /\ jobs' = [j \in Jobs |-> IF j \in seen[i]
                               THEN [jobs[j] EXCEPT !.alerted = TRUE, !.notes = @ + 1]
                               ELSE jobs[j]]
    /\ seen' = [seen EXCEPT ![i] = {}]
    /\ UNCHANGED <<source, version, shop, selection, push, lock, sched, asked, missed,
                   changes, pushes, halts>>

\* Process i is killed, or stopped (main.py cancels the loops, whose finally
\* clauses run), and starts again.  Nobody looks after the jobs it ran.
Halt(i) ==
    /\ halts < MaxHalts
    /\ halts' = halts + 1
    /\ LET mine == {j \in Jobs : jobs[j].alive /\ jobs[j].proc = i}
       IN  /\ jobs' = [j \in Jobs |-> IF j \in mine THEN Ended(jobs[j], jobs[j].status)
                                      ELSE jobs[j]]
           /\ missed' = missed \cup {p \in UNION {jobs[j].fresh : j \in mine} : Differs(p)}
    /\ \/ UNCHANGED lock
       \/ sched[i] # "asleep" /\ lock' = FALSE
    /\ sched' = [sched EXCEPT ![i] = "asleep"]
    /\ asked' = [asked EXCEPT ![i] = None]
    /\ seen' = [seen EXCEPT ![i] = {}]
    /\ UNCHANGED <<source, version, shop, selection, push, changes, pushes>>

\* The supplier changes a product.
Change(p) ==
    /\ source[p] < MaxVersion /\ changes < MaxVersion - 1
    /\ source' = [source EXCEPT ![p] = @ + 1]
    /\ changes' = changes + 1
    /\ UNCHANGED <<version, shop, selection, push, jobs, lock, sched, asked, seen, missed,
                   pushes, halts>>

-----------------------------------------------------------------------------
JobStep(j) ==
    \/ Start(j) \/ Finalize(j) \/ Refuse(j) \/ Abandon(j)
    \/ \E p \in Products : Fetch(j, p) \/ Persist(j, p) \/ Count(j, p) \/ Err(j, p)

ProcStep(i) ==
    \/ \E mode \in Modes : Trigger(i, mode)
    \/ TriggerCreates(i) \/ Unasked(i)
    \/ Acquire(i) \/ Import(i) \/ Release(i) \/ Halt(i)
    \/ CheckerReads(i) \/ CheckerNotifies(i)

PushStep(p) ==
    \/ Select(p) \/ Remove(p)
    \/ PushReads(p) \/ PushSends(p) \/ PushCommits(p) \/ PushFails(p)

Next ==
    \/ \E j \in Jobs : JobStep(j)
    \/ \E i \in Procs : ProcStep(i)
    \/ \E p \in Picked : PushStep(p)
    \/ \E p \in Products : Change(p)
    \/ LockExpires

Spec == Init /\ [][Next]_vars

\* The checker of a process runs every five minutes as long as the process does.
Fairness == \A i \in Procs : WF_vars(CheckerReads(i) \/ CheckerNotifies(i))

FairSpec == Spec /\ Fairness

-----------------------------------------------------------------------------
(* Properties *)

\* Types: rows, selections and the places of the loops keep to their vocabularies.
TypeOK ==
    /\ source \in [Products -> 1..MaxVersion]
    /\ version \in [Products -> 1..MaxVersion]
    /\ shop \in [Picked -> 0..MaxVersion]
    /\ selection \in [Picked -> SelectionStatuses]
    /\ push \in [Picked -> [read : 0..MaxVersion, row : RowsRead]]
    /\ jobs \in [Jobs -> Job]
    /\ lock \in BOOLEAN
    /\ sched \in [Procs -> {"asleep", "holding", "importing"}]
    /\ asked \in [Procs -> Modes \cup {None}]
    /\ seen \in [Procs -> SUBSET Jobs]
    /\ missed \subseteq Picked
    /\ changes \in Nat /\ pushes \in Nat /\ halts \in Nat

\* "Only ONE instance runs the scheduled import" (start_scheduler): never two
\* jobs of the schedulers at a time, whichever processes die with the lock, stop,
\* or wake to find it taken.  It needs Prompt: the lock is deleted by whoever ends.
OneScheduledRun ==
    \A j, k \in Jobs : Scheduled(j) /\ Scheduled(k) => j = k

\* A storefront product shown as 'pushed' has the catalog's data, or an import
\* under way will mark it, or the one that brought the data failed or died, or a
\* push was crossed by its finalisation (_finalize_job, execute_push): jobs that
\* overlap, partial success, removal and re-selection lose nothing else.
StaleIsNoticed ==
    \A p \in Picked :
        selection[p] = "pushed" /\ Differs(p) =>
            \/ \E j \in Jobs : Running(j) /\ p \in jobs[j].fresh
            \/ p \in missed

\* However the checkers of the processes interleave, a failed job is reported at
\* most once by each (_check_sync_failures; its docstring promises once).
NotifiedOncePerChecker ==
    \A j \in Jobs : jobs[j].notes <= Cardinality(Procs)

\* Every failed job is reported at last, although a checker takes only the
\* oldest at a time and its process may be stopped (MAX_ALERTS_PER_TICK).
FailureNotified ==
    \A j \in Jobs : jobs[j].status = "failed" ~> jobs[j].notes > 0

=============================================================================
