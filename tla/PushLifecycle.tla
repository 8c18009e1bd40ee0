---------------------------- MODULE PushLifecycle ----------------------------
(***************************************************************************)
(* The life of a product_push_log row: the integration gateway accepts a   *)
(* push request, a worker (or, for a dry run, the request itself) claims   *)
(* the row and executes it, an execution that raises ends its job or, on   *)
(* the last try, finalises the row, an administrator retries a failed row, *)
(* and the next request for the same (customer, product) slot reaps rows   *)
(* that look dead.                                                         *)
(*                                                                         *)
(* Translated from backend/modules/ops_push/{gateway,queue,task_runner}.py,*)
(* backend/worker.py, backend/modules/integrations/routes.py and the table *)
(* in backend/modules/push_log/models.py. What an execution does to the    *)
(* OPS storefront is abstracted here to its outcome. The queue itself is   *)
(* arq, a library: of it the model has that a job id is refused while a    *)
(* job or a kept result has it, that a job is run again when its worker is *)
(* lost, and that any other exception ends it.                             *)
(***************************************************************************)
EXTENDS Naturals, FiniteSets

CONSTANTS
    Rows,        \* ids of product_push_log rows
    Slots,       \* (customer_id, product_id) pairs
    Workers,     \* concurrent job executors (max_jobs, or the semaphore)
    Servers,     \* concurrent API request handlers
    Keys,        \* Idempotency-Key header values, per integration key
    NoKey,       \* the header is absent
    Calls,       \* the request bodies (with their key) clients may send
    NoRow, NoCall, NoSlot,
    Durable,     \* TRUE: the arq queue; FALSE: FastAPI BackgroundTasks
    Timely,      \* TRUE: only rows without a running execution get old
    SoloRetry,   \* TRUE: two retries of one row are never in progress at once
    Faults,      \* the faults that may happen, a subset of FaultKinds
    MaxTries,    \* WorkerSettings.max_tries
    MaxFaults, MaxRetries, MaxTasks   \* bounds of the model

FaultKinds == {"redelivered", "dropped", "server"}

\* The request body as far as admission tells bodies apart.
CallType == [key: Keys \cup {NoKey}, slot: Slots, dry: BOOLEAN, callback: BOOLEAN]

ASSUME ConstantsAssumption ==
    /\ Calls \subseteq CallType
    /\ NoKey \notin Keys
    /\ NoRow \notin Rows
    /\ NoCall \notin CallType
    /\ NoSlot \notin Slots
    /\ Workers \cap Servers = {}
    /\ Faults \subseteq FaultKinds
    /\ MaxTries \in Nat \ {0}
    /\ MaxFaults \in Nat /\ MaxRetries \in Nat /\ MaxTasks \in Nat
    /\ {Durable, Timely, SoloRetry} \subseteq BOOLEAN

VARIABLES
    status,    \* product_push_log.status; "absent" before the insert
    call,      \* the request a row was inserted for
    old,       \* open rows whose pushed_at lies more than 300 s back
    callback,  \* product_push_log.callback_status
    jobs,      \* waiting executions of a row in the queue
    tries,     \* tries the row's waiting job has behind it
    kept,      \* rows whose job has ended: arq may still keep its result
    exec,      \* local state of every worker and request handler
    posted,    \* callbacks POSTed for a row
    retried,   \* admin retries of a row
    faults     \* faults so far

dbVars  == <<status, call, old, callback>>
queueVars == <<jobs, tries>>
jobVars == <<queueVars, kept>>
ghostVars == <<posted, retried>>
vars == <<dbVars, jobVars, exec, ghostVars, faults>>

Terminal  == {"pushed", "failed", "partial_failure", "dry_run_pushed"}
Open      == {"accepted", "processing"}
Statuses  == {"absent"} \cup Open \cup Terminal
Executors == Workers \cup Servers

-----------------------------------------------------------------------------
(* Executors: a worker runs load .. release for a job, a request handler    *)
(* runs reap .. enqueue, and for a dry run goes on to load .. release.      *)

Working == {"load", "claim", "run", "notify", "record", "publish", "raised", "mark"}
Serving == {"reap", "guard", "insert", "enqueue", "reset"}

ExecState ==
    [pc: {"idle"} \cup Working \cup Serving, row: Rows \cup {NoRow},
     call: Calls \cup {NoCall}, try: Nat, seen: Statuses, owes: BOOLEAN]

Idle == [pc |-> "idle", row |-> NoRow, call |-> NoCall,
         try |-> 0, seen |-> "absent", owes |-> FALSE]

Become(e, st) == exec' = [exec EXCEPT ![e] = st]
GoTo(e, pc)   == Become(e, [exec[e] EXCEPT !.pc = pc])
Leave(e, pc)  == Become(e, [exec[e] EXCEPT !.pc = pc, !.seen = "absent"])
Release(e)    == Become(e, Idle)

\* (Mutants, operators named M_..., are the code with a plausible bug; the
\* runs must notice them. Nothing else uses them.)

\* Rows of one slot, and the row that holds the partial unique index
\* uq_push_log_in_flight (status = 'processing', dry runs included).
RowsOf(s)     == {r \in Rows : status[r] # "absent" /\ call[r].slot = s}
M_NoUniqueIndex(s) == FALSE
SlotBusy(s)   == \E r \in RowsOf(s) : status[r] = "processing"
SlotBusyLive(s) == \E r \in RowsOf(s) : status[r] = "processing" /\ ~call[r].dry

\* The workers a job of row r occupies: arq keeps the job's id until it ends
\* and then, for an hour (keep_result is not set), with the job's result.
Holders(r)  == {w \in Workers : exec[w].row = r}
JobKnown(r) == jobs[r] > 0 \/ Holders(r) # {}
Running(e)  == exec[e].pc = "run"

\* e has done with its row. For a worker of the queue this ends the job.
EndJob(e) ==
    /\ Release(e)
    /\ kept' = IF Durable /\ e \in Workers THEN kept \cup {exec[e].row} ELSE kept
    /\ UNCHANGED queueVars

Init ==
    /\ status = [r \in Rows |-> "absent"]
    /\ call = [r \in Rows |-> NoCall]
    /\ old = {}
    /\ callback = [r \in Rows |-> "not_requested"]
    /\ jobs = [r \in Rows |-> 0]
    /\ tries = [r \in Rows |-> 0]
    /\ kept = {}
    /\ exec = [e \in Executors |-> Idle]
    /\ posted = [r \in Rows |-> 0]
    /\ retried = [r \in Rows |-> 0]
    /\ faults = 0

-----------------------------------------------------------------------------
(* prepare_push_intent and the routes that call it.                        *)

Ledger(c) == {r \in Rows : /\ status[r] # "absent"
                           /\ c.key # NoKey
                           /\ call[r].key = c.key}

\* The idempotency check finds nothing: admission goes on.
ReceiveFirst(s, c) ==
    /\ exec[s] = Idle
    /\ Ledger(c) = {}
    /\ Become(s, [Idle EXCEPT !.pc = "reap", !.call = c])
    /\ UNCHANGED <<dbVars, jobVars, ghostVars, faults>>

\* A replay of a request whose row is still 'accepted' is executed or
\* enqueued again. (A replay of a settled row, another body under the same
\* key and a key found on two rows are answered without changing any state.)
ReceiveReplay(s, c) ==
    /\ exec[s] = Idle
    /\ \E r \in Rows :
        /\ Ledger(c) = {r}
        /\ call[r] = c
        /\ status[r] = "accepted"
        /\ Become(s, [Idle EXCEPT !.pc = IF c.dry THEN "load" ELSE "enqueue",
                                  !.call = c, !.row = r])
    /\ UNCHANGED <<dbVars, jobVars, ghostVars, faults>>

M_OrphansProcessing(s) == {r \in RowsOf(s) : status[r] = "processing" /\ r \in old}

\* "Auto-recover orphaned rows": every open row of the slot older than 300 s.
M_OrphansOfAnyAge(s) == {r \in RowsOf(s) : status[r] \in Open}
Orphans(s) == {r \in RowsOf(s) : status[r] \in Open /\ r \in old}

Reap(s) ==
    /\ exec[s].pc = "reap"
    /\ status' = [r \in Rows |->
                    IF r \in Orphans(exec[s].call.slot) THEN "failed" ELSE status[r]]
    /\ old' = old \ Orphans(exec[s].call.slot)
    /\ GoTo(s, IF exec[s].call.dry THEN "insert" ELSE "guard")
    /\ UNCHANGED <<call, callback, jobVars, ghostVars, faults>>

\* The in-flight guard of live pushes: 409 IN_FLIGHT or go on.
Guard(s) ==
    /\ exec[s].pc = "guard"
    /\ IF SlotBusyLive(exec[s].call.slot) THEN Release(s) ELSE GoTo(s, "insert")
    /\ UNCHANGED <<dbVars, jobVars, ghostVars, faults>>

\* Preflight passes and the row is inserted.
Insert(s) ==
    LET c == exec[s].call IN
    /\ exec[s].pc = "insert"
    /\ \E r \in Rows :
        /\ status[r] = "absent"
        /\ status' = [status EXCEPT ![r] = "accepted"]
        /\ call' = [call EXCEPT ![r] = c]
        /\ callback' = [callback EXCEPT ![r] = IF c.callback THEN "pending" ELSE "not_requested"]
        /\ Become(s, [exec[s] EXCEPT !.pc = IF c.dry THEN "load" ELSE "enqueue", !.row = r])
    /\ UNCHANGED <<old, jobVars, ghostVars, faults>>

\* Preflight finds a blocker: 422, no row.
PreflightFails(s) ==
    /\ exec[s].pc = "insert"
    /\ Release(s)
    /\ UNCHANGED <<dbVars, jobVars, ghostVars, faults>>

\* enqueue_push: arq suppresses a job whose id a job or a kept result has, and
\* the suppression is taken for success; BackgroundTasks adds a task every time.
Enqueue(s) ==
    LET r == exec[s].row IN
    /\ exec[s].pc = "enqueue"
    /\ \/ Durable /\ (JobKnown(r) \/ r \in kept) /\ UNCHANGED jobs
       \/ Durable /\ ~JobKnown(r) /\ jobs' = [jobs EXCEPT ![r] = 1]
       \/ ~Durable /\ jobs[r] < MaxTasks /\ jobs' = [jobs EXCEPT ![r] = @ + 1]
    /\ Release(s)
    /\ UNCHANGED <<dbVars, tries, kept, ghostVars, faults>>

M_RetryReadAnyStatus(s, r) ==
    /\ exec[s] = Idle
    /\ status[r] # "absent"
    /\ retried[r] < MaxRetries
    /\ SoloRetry => \A t \in Servers : exec[t].pc = "reset" => exec[t].row # r
    /\ Become(s, [Idle EXCEPT !.pc = "reset", !.row = r])
    /\ UNCHANGED <<dbVars, jobVars, ghostVars, faults>>

\* admin_retry_push reads the row and refuses all but failed ones ...
RetryRead(s, r) ==
    /\ exec[s] = Idle
    /\ status[r] \in {"partial_failure", "failed"}
    /\ retried[r] < MaxRetries
    /\ SoloRetry => \A t \in Servers : exec[t].pc = "reset" => exec[t].row # r
    /\ Become(s, [Idle EXCEPT !.pc = "reset", !.row = r])
    /\ UNCHANGED <<dbVars, jobVars, ghostVars, faults>>

\* ... then writes 'accepted' whatever the row holds by now, and enqueues.
RetryReset(s) ==
    LET r == exec[s].row IN
    /\ exec[s].pc = "reset"
    /\ status' = [status EXCEPT ![r] = "accepted"]
    /\ old' = old \ {r}
    /\ retried' = [retried EXCEPT ![r] = @ + 1]
    /\ GoTo(s, "enqueue")
    /\ UNCHANGED <<call, callback, jobVars, posted, faults>>

-----------------------------------------------------------------------------
(* The job: arq's run_push_job or the in-process run_push_task.            *)

TakeJob(w, r) ==
    /\ exec[w] = Idle
    /\ jobs[r] > 0
    /\ jobs' = [jobs EXCEPT ![r] = @ - 1]
    /\ tries' = [tries EXCEPT ![r] = 0]
    /\ Become(w, [Idle EXCEPT !.pc = "load", !.row = r, !.try = tries[r] + 1])
    /\ UNCHANGED <<dbVars, kept, ghostVars, faults>>

\* execute_push reads the row; its session keeps what it read.
Load(e) ==
    LET r == exec[e].row IN
    /\ exec[e].pc = "load"
    /\ Become(e, [exec[e] EXCEPT !.pc = "claim", !.seen = status[r],
                                 !.owes = callback[r] = "pending"])
    /\ UNCHANGED <<dbVars, jobVars, ghostVars, faults>>

M_ClaimAgain(e) ==
    LET r == exec[e].row IN
    /\ exec[e].pc = "claim"
    /\ status[r] # "processing"
    /\ ~SlotBusy(call[r].slot)
    /\ status' = [status EXCEPT ![r] = "processing"]
    /\ Become(e, [exec[e] EXCEPT !.pc = "run", !.seen = "processing"])
    /\ UNCHANGED <<call, old, callback, jobVars, ghostVars, faults>>

\* accepted -> processing, if the unique index has room in the slot. A session
\* that read the row before it was put up for retry keeps the status it read.
Claim(e) ==
    LET r == exec[e].row IN
    /\ exec[e].pc = "claim"
    /\ status[r] = "accepted"
    /\ ~SlotBusy(call[r].slot)
    /\ status' = [status EXCEPT ![r] = "processing"]
    /\ Become(e, [exec[e] EXCEPT !.pc = "run",
                                 !.seen = IF @ \in Terminal THEN @ ELSE "processing"])
    /\ UNCHANGED <<call, old, callback, jobVars, ghostVars, faults>>

\* The claim violates the index: IntegrityError.
ClaimConflict(e) ==
    LET r == exec[e].row IN
    /\ exec[e].pc = "claim"
    /\ status[r] = "accepted"
    /\ SlotBusy(call[r].slot)
    /\ Leave(e, "raised")
    /\ UNCHANGED <<dbVars, jobVars, ghostVars, faults>>

M_ClaimRefusedIsDone(e) ==
    /\ exec[e].pc = "claim"
    /\ status[exec[e].row] # "accepted"
    /\ EndJob(e)
    /\ UNCHANGED <<dbVars, ghostVars, faults>>

\* The row was not 'accepted': done if it was read settled, else RuntimeError.
ClaimRefused(e) ==
    /\ exec[e].pc = "claim"
    /\ status[exec[e].row] # "accepted"
    /\ \/ exec[e].seen \in Terminal /\ EndJob(e)
       \/ exec[e].seen \notin Terminal /\ Leave(e, "raised") /\ UNCHANGED jobVars
    /\ UNCHANGED <<dbVars, ghostVars, faults>>

\* The session writes the column when the value differs from the one it holds.
SetStatus(e, out) ==
    status' = [status EXCEPT ![exec[e].row] = IF out = exec[e].seen THEN @ ELSE out]

\* The customer is gone or has no credentials: 'failed', and an early return.
NoClient(e) ==
    /\ Running(e)
    /\ ~call[exec[e].row].dry
    /\ SetStatus(e, "failed")
    /\ EndJob(e)
    /\ UNCHANGED <<call, old, callback, ghostVars, faults>>

Outcomes(r) == {IF call[r].dry THEN "dry_run_pushed" ELSE "pushed",
                "partial_failure", "failed"}

\* The plan has run; its result is written over whatever status the row has.
Finish(e) ==
    /\ Running(e)
    /\ \E out \in Outcomes(exec[e].row) : SetStatus(e, out)
    /\ Leave(e, IF exec[e].owes THEN "notify" ELSE "publish")
    /\ UNCHANGED <<call, old, callback, jobVars, ghostVars, faults>>

\* The callback is POSTed ...
Notify(e) ==
    /\ exec[e].pc = "notify"
    /\ posted' = [posted EXCEPT ![exec[e].row] = @ + 1]
    /\ GoTo(e, "record")
    /\ UNCHANGED <<dbVars, jobVars, retried, faults>>

\* ... and the answer is recorded.
Record(e) ==
    /\ exec[e].pc = "record"
    /\ \E res \in {"sent", "failed"} : callback' = [callback EXCEPT ![exec[e].row] = res]
    /\ GoTo(e, "publish")
    /\ UNCHANGED <<status, call, old, jobVars, ghostVars, faults>>

\* Webhooks are fired and execute_push returns.
Publish(e) ==
    /\ exec[e].pc = "publish"
    /\ EndJob(e)
    /\ UNCHANGED <<dbVars, ghostVars, faults>>

\* The plan cannot be built, the database fails, ...
Raise(e) ==
    /\ exec[e].pc \in {"load", "claim", "run", "record"}
    /\ Leave(e, "raised")
    /\ UNCHANGED <<dbVars, jobVars, ghostVars, faults>>

\* Tries are left: run_push_job re-raises "so arq reschedules". But arq runs a
\* job again only for Retry, RetryJob and CancelledError; this ends it, failed.
JobFails(w) ==
    /\ w \in Workers
    /\ exec[w].pc = "raised"
    /\ Durable /\ exec[w].try < MaxTries
    /\ EndJob(w)
    /\ UNCHANGED <<dbVars, ghostVars, faults>>

M_FinalizeNothing(w) ==
    /\ w \in Workers
    /\ exec[w].pc = "raised"
    /\ ~Durable \/ exec[w].try >= MaxTries
    /\ EndJob(w)
    /\ UNCHANGED <<dbVars, ghostVars, faults>>

\* The last try (or in process): read the row, leave it if it is settled ...
FinalizeRead(w) ==
    LET r == exec[w].row IN
    /\ w \in Workers
    /\ exec[w].pc = "raised"
    /\ ~Durable \/ exec[w].try >= MaxTries
    /\ \/ status[r] \in Terminal /\ EndJob(w)
       \/ status[r] \notin Terminal /\ GoTo(w, "mark") /\ UNCHANGED jobVars
    /\ UNCHANGED <<dbVars, ghostVars, faults>>

\* ... else mark it failed.
FinalizeMark(w) ==
    LET r == exec[w].row IN
    /\ exec[w].pc = "mark"
    /\ status' = [status EXCEPT ![r] = "failed"]
    /\ old' = old \ {r}
    /\ EndJob(w)
    /\ UNCHANGED <<call, callback, ghostVars, faults>>

\* An exception of an inline dry run reaches the client as a 500.
InlineError(s) ==
    /\ s \in Servers
    /\ exec[s].pc = "raised"
    /\ Release(s)
    /\ UNCHANGED <<dbVars, jobVars, ghostVars, faults>>

-----------------------------------------------------------------------------
(* The environment.                                                        *)

\* 300 s have gone by since pushed_at.
Age(r) ==
    /\ status[r] \in Open
    /\ r \notin old
    /\ Timely => /\ status[r] = "processing"
                 /\ \A e \in Executors : exec[e].row = r => ~Running(e)
    /\ old' = old \cup {r}
    /\ UNCHANGED <<status, call, callback, jobVars, exec, ghostVars, faults>>

\* arq puts the job of w back into the queue, counting the try.
Redeliver(w) ==
    LET r == exec[w].row IN
    /\ jobs' = [jobs EXCEPT ![r] = @ + 1]
    /\ tries' = [tries EXCEPT ![r] = exec[w].try]
    /\ Release(w)
    /\ UNCHANGED kept

\* A worker dies or is shut down, and arq delivers the job again; or the job
\* is cancelled at job_timeout, which ends it. In neither case does the except
\* clause of run_push_job run.
WorkerLost(w) ==
    /\ exec[w].pc \in Working
    /\ faults < MaxFaults
    /\ faults' = faults + 1
    /\ \/ "redelivered" \in Faults /\ Durable /\ exec[w].try < MaxTries /\ Redeliver(w)
       \/ "dropped" \in Faults /\ EndJob(w)
    /\ UNCHANGED <<dbVars, ghostVars>>

\* An API process dies, or enqueueing raises because Redis is away.
ServerLost(s) ==
    /\ exec[s] # Idle
    /\ "server" \in Faults
    /\ faults < MaxFaults
    /\ faults' = faults + 1
    /\ Release(s)
    /\ UNCHANGED <<dbVars, jobVars, ghostVars>>

Serve(s) ==
    \/ \E c \in Calls : ReceiveFirst(s, c) \/ ReceiveReplay(s, c)
    \/ Reap(s) \/ Guard(s) \/ Insert(s) \/ PreflightFails(s) \/ Enqueue(s)
    \/ \E r \in Rows : RetryRead(s, r)
    \/ RetryReset(s)

Execute(e) ==
    \/ Load(e)
    \/ Claim(e) \/ ClaimConflict(e) \/ ClaimRefused(e)
    \/ NoClient(e) \/ Finish(e) \/ Notify(e) \/ Record(e) \/ Publish(e) \/ Raise(e)

Work(w) ==
    \/ \E r \in Rows : TakeJob(w, r)
    \/ JobFails(w) \/ FinalizeRead(w) \/ FinalizeMark(w)

Environment ==
    \/ \E r \in Rows : Age(r)
    \/ \E w \in Workers : WorkerLost(w)
    \/ \E s \in Servers : ServerLost(s)

Next ==
    \/ \E s \in Servers : Serve(s) \/ InlineError(s)
    \/ \E w \in Workers : Work(w)
    \/ \E e \in Executors : Execute(e)
    \/ Environment

Spec == Init /\ [][Next]_vars
-----------------------------------------------------------------------------
(* Fairness: arq starts waiting jobs while a worker is free, and code that  *)
(* has been started is run on. Nothing is assumed of clients and faults.    *)

Fairness ==
    /\ \A r \in Rows : WF_vars(\E w \in Workers : TakeJob(w, r))
    /\ \A w \in Workers : WF_vars(JobFails(w) \/ FinalizeRead(w) \/ FinalizeMark(w))
    /\ \A e \in Executors : WF_vars(Execute(e))
    /\ \A s \in Servers :
         WF_vars(\/ Reap(s) \/ Guard(s) \/ Insert(s) \/ PreflightFails(s)
                 \/ Enqueue(s) \/ RetryReset(s) \/ InlineError(s))

FairSpec == Spec /\ Fairness

\* Demand for a slot, an assumption on clients: a live push of it without an
\* idempotency key is requested again and again, and open rows get old.
KeylessPushes(s) == {c \in Calls : c.key = NoKey /\ ~c.dry /\ c.slot = s}
Demand ==
    /\ \A r \in Rows : WF_vars(Age(r))
    /\ \A s \in Slots :
         SF_vars(\E a \in Servers, c \in KeylessPushes(s) : ReceiveFirst(a, c))

DemandSpec == FairSpec /\ Demand

-----------------------------------------------------------------------------
TypeOK ==
    /\ status \in [Rows -> Statuses]
    /\ call \in [Rows -> Calls \cup {NoCall}]
    /\ old \subseteq Rows
    /\ callback \in [Rows -> {"not_requested", "pending", "sent", "failed"}]
    /\ jobs \in [Rows -> Nat]
    /\ tries \in [Rows -> Nat]
    /\ kept \subseteq Rows
    /\ exec \in [Executors -> ExecState]
    /\ posted \in [Rows -> Nat]
    /\ retried \in [Rows -> Nat]
    /\ faults \in Nat

IsLive(r)  == status[r] # "absent" /\ ~call[r].dry
Pushing(e) == Running(e) /\ IsLive(exec[e].row)

\* At most one live push of a (customer, product) is being executed against
\* OPS at any time, whatever retries, replays, lost workers and reaped rows
\* there are (push_log/models.py: "one active push per (customer, product)").
OneActivePushPerSlot ==
    \A e, f \in Executors :
        /\ Pushing(e) /\ Pushing(f)
        /\ call[exec[e].row].slot = call[exec[f].row].slot
        => e = f

\* A live row is queued or executed at most once at a time: a replayed
\* request or a retry never adds a second execution of the same row.
OneJobPerRow ==
    \A r \in Rows :
        /\ jobs[r] <= 1
        /\ jobs[r] = 1 => Holders(r) = {}
        /\ \A v, w \in Holders(r) : v = w

\* The result of a push is final: a settled live row changes only when an
\* administrator retries it, so no late execution overwrites a result.
SettledUntilRetried ==
    [][\A r \in Rows :
         IsLive(r) /\ status[r] \in Terminal
         => status'[r] = status[r] \/ status'[r] = "accepted"]_vars

\* The orchestrator is called back at most once for every time its row was
\* put up for execution, also when the worker dies after the POST.
CalledBackOncePerRun ==
    \A r \in Rows : IsLive(r) => posted[r] <= 1 + retried[r]

\* An open live row with nobody to go on with it: no job waits, no worker has
\* it in hand, and no handler is about to enqueue it, or arq may refuse that.
Stranded(r) ==
    /\ IsLive(r) /\ status[r] \in Open
    /\ jobs[r] = 0 /\ Holders(r) = {}
    /\ r \notin kept => \A s \in Servers : exec[s].pc = "enqueue" => exec[s].row # r

\* Before its first retry a live row is stranded by a fault, or by a job that
\* ended with an exception before its last try, and by nothing else: an
\* execution that ends normally has settled it, the last try finalises it and
\* a suppressed enqueueing leaves the job that was there. (After a retry the
\* stale session of Claim may keep the result unwritten.)
StrandedByFailureOnly ==
    [][\A r \in Rows :
         retried'[r] = 0 /\ ~Stranded(r) /\ Stranded(r)'
         => \/ faults' # faults
            \/ \E w \in Workers :
                 /\ exec[w].row = r /\ exec[w].pc = "raised"
                 /\ Durable /\ exec[w].try < MaxTries]_vars

\* Whatever fault or exception strands an open live row, it gets a terminal
\* status in the end, as long as its slot is asked for again: a worker settles
\* it, or the reaper of a later request does.
SettledOnDemand ==
    \A r \in Rows : (IsLive(r) /\ status[r] \in Open) ~> status[r] \in Terminal

\* Every accepted live push comes to a result without another request. In
\* process it does: run_push_task finalises on the first exception. With the
\* queue it should too (worker.py: "re-raise so arq reschedules", gateway.py:
\* "subsequent retries keep raising until the budget is exhausted").
AcceptedPushSettles ==
    \A r \in Rows : (IsLive(r) /\ status[r] = "accepted") ~> status[r] \in Terminal

\* queue.py takes a suppressed job for success, "the prior job is what we want
\* to run": a row put up for retry is then picked up by that job.
RetriedPushIsExecuted ==
    \A r \in Rows : (retried[r] > 0 /\ status[r] = "accepted") ~> status[r] # "accepted"

\* gateway.py: dry runs "should never block live pushes": whenever the claim of
\* a live row hits the unique index, a live row holds it.
DryRunsNeverBlockLive ==
    [][\A w \in Workers :
         /\ exec[w].pc = "claim" /\ exec'[w].pc = "raised"
         /\ status[exec[w].row] = "accepted" /\ IsLive(exec[w].row)
         /\ SlotBusy(call[exec[w].row].slot)
         => SlotBusyLive(call[exec[w].row].slot)]_vars

\* Integration gateway design: a key that was seen before is answered with the
\* row it made; (key_id, idempotency_key) is unique.
IdempotencyKeyNamesOneRow ==
    \A c \in Calls : Cardinality(Ledger(c)) <= 1

-----------------------------------------------------------------------------
(* Why the safety properties hold: the inductive invariant the proofs use.  *)

\* What an executor has in hand exists, and what has been inserted is known.
RowInHand ==
    \A e \in Executors :
        exec[e].pc \in Working \cup {"enqueue", "reset"}
        => exec[e].row \in Rows /\ status[exec[e].row] # "absent"
CallInHand ==
    \A s \in Servers : exec[s].pc \in {"reap", "guard", "insert"} => exec[s].call \in Calls
Recorded ==
    \A r \in Rows :
        /\ status[r] # "absent" => call[r] \in Calls
        /\ jobs[r] > 0 \/ r \in kept => status[r] # "absent"

\* Request handlers execute dry runs only.
ServersPreview == \A s \in Servers : exec[s].pc \in Working => call[exec[s].row].dry

\* The partial unique index.
IndexUnique ==
    \A q, r \in Rows :
        status[q] = "processing" /\ status[r] = "processing" /\ call[q].slot = call[r].slot
        => q = r

\* A live row in execution is 'processing': nobody takes it away meanwhile.
RunProcessing ==
    \A w \in Workers :
        exec[w].pc = "run" /\ ~call[exec[w].row].dry => status[exec[w].row] = "processing"

\* A row that is old enough to be reaped is not about to be executed.
OldIsStuck ==
    \A r \in old :
        /\ status[r] \notin {"absent", "accepted"}
        /\ \A e \in Executors : Running(e) => exec[e].row # r

\* Between the read and the write of a retry the row stays settled.
ResetIsSettled ==
    \A s \in Servers :
        exec[s].pc = "reset" =>
            /\ status[exec[s].row] \in Terminal
            /\ \A t \in Servers : exec[t].pc = "reset" /\ exec[t].row = exec[s].row => t = s

\* A row about to be marked failed has not got another result meanwhile.
MarkIsUnsettled ==
    \A w \in Workers :
        exec[w].pc = "mark" /\ ~call[exec[w].row].dry
        => status[exec[w].row] \in Open \cup {"failed"}

\* A live row is called back on credit: its insert and every retry are good for
\* one callback, which a claim takes up and the POST spends.
Owing(r) == \E w \in Workers : exec[w].row = r /\ exec[w].pc \in {"run", "notify"}
CallbackCredit ==
    \A r \in Rows :
        /\ status[r] = "absent" => posted[r] = 0
        /\ IsLive(r) => posted[r] + (IF status[r] = "accepted" THEN 1 ELSE 0)
                                 + (IF Owing(r) THEN 1 ELSE 0) <= 1 + retried[r]

\* Before the first retry no session holds a result its row no longer has, so
\* what an execution ends with is written.
FirstRunWrites ==
    \A w \in Workers, r \in Rows :
        exec[w].row = r /\ IsLive(r) /\ retried[r] = 0 =>
            /\ exec[w].pc = "claim" /\ exec[w].seen \in Terminal => status[r] \in Terminal
            /\ exec[w].pc = "run" => exec[w].seen = "processing"
            /\ exec[w].pc \in {"notify", "record", "publish"} => status[r] \in Terminal

\* Everything above together: what holds of every reachable state of a
\* deployment with the arq queue in which no running push is reaped.
IndInv ==
    /\ TypeOK
    /\ RowInHand /\ CallInHand /\ Recorded /\ ServersPreview
    /\ OneJobPerRow /\ IndexUnique /\ RunProcessing /\ OldIsStuck
    /\ ResetIsSettled /\ MarkIsUnsettled
    /\ CallbackCredit /\ FirstRunWrites

-----------------------------------------------------------------------------
(* The gateway implements PushSlot: a live row is active while some worker  *)
(* executes it, and abandoned when it is 'processing' and none does.        *)

Executed(r) == \E e \in Executors : Running(e) /\ exec[e].row = r

PhaseOf(r) ==
    CASE ~IsLive(r) -> "absent"
      [] IsLive(r) /\ status[r] = "accepted" -> "waiting"
      [] IsLive(r) /\ status[r] = "processing" ->
            IF Executed(r) THEN "active" ELSE "abandoned"
      [] OTHER -> "settled"

Slot == INSTANCE PushSlot WITH
    phase <- [r \in Rows |-> PhaseOf(r)],
    home  <- [r \in Rows |-> IF IsLive(r) THEN call[r].slot ELSE NoSlot]

\* No queue, retry, replay, lost worker or reaped row shows through: live
\* pushes behave as PushSlot says.
ImplementsPushSlot == Slot!Spec

=============================================================================
