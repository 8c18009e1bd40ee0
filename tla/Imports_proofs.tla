--------------------------- MODULE Imports_proofs ---------------------------
(***************************************************************************)
(* Proofs about Imports: its types, and that at most one job of the        *)
(* schedulers runs at a time when no run outlasts its lock.                *)
(***************************************************************************)
EXTENDS Imports, FiniteSetTheorems, TLAPS

\* Whoever is in a cycle has the lock, and nobody else is in one.
LockHeld == \A i \in Procs : sched[i] # "asleep" => lock
OneHolder == \A i, k \in Procs : sched[i] # "asleep" /\ sched[k] # "asleep" => i = k

\* A job of a scheduler runs in a process whose scheduler waits for it.
AwaitedByItsScheduler ==
    \A j \in Jobs : Scheduled(j) => jobs[j].proc \in Procs /\ sched[jobs[j].proc] = "importing"

SchedInv == LockHeld /\ OneHolder /\ AwaitedByItsScheduler /\ OneScheduledRun

IndInv == TypeOK /\ SchedInv

-----------------------------------------------------------------------------
(* Types *)

LEMMA NothingTyped == Nothing \in [Products -> 0..MaxVersion]
  BY ImportsAssumption DEF ImportsAssumption, Nothing

LEMMA NoJobTyped == NoJob \in Job
  BY NothingTyped DEF Job, NoJob, Statuses, None

LEMMA InitTyped == Init => TypeOK
  <1> SUFFICES ASSUME Init PROVE TypeOK
    OBVIOUS
  <1> USE ImportsAssumption DEF ImportsAssumption
  <1>1. source \in [Products -> 1..MaxVersion] /\ version \in [Products -> 1..MaxVersion]
    BY DEF Init
  <1>2. selection \in [Picked -> SelectionStatuses] /\ shop \in [Picked -> 0..MaxVersion]
    BY DEF Init, SelectionStatuses, None
  <1>3. push \in [Picked -> [read : 0..MaxVersion, row : RowsRead]]
    BY DEF Init, NoPush, RowsRead
  <1>4. jobs \in [Jobs -> Job]
    BY NoJobTyped DEF Init
  <1>5. asked \in [Procs -> Modes \cup {None}] /\ seen \in [Procs -> SUBSET Jobs]
    BY DEF Init
  <1>6. changes \in Nat /\ pushes \in Nat /\ halts \in Nat
    BY DEF Init
  <1> QED
    BY <1>1, <1>2, <1>3, <1>4, <1>5, <1>6 DEF Init, TypeOK

\* What a coroutine leaves of its row.
LEMMA EndedTyped ==
  ASSUME NEW job \in Job, NEW status \in Statuses
  PROVE  Ended(job, status) \in Job
  <1>1. job.mode \in {None, "full", "delta", "inventory", "explicit"}
        /\ job.alerted \in BOOLEAN /\ job.notes \in Nat
    BY DEF Job
  <1>2. [NoJob EXCEPT !.mode = job.mode, !.status = status, !.alerted = job.alerted,
                      !.notes = job.notes] \in Job
    BY <1>1, NoJobTyped DEF Job
  <1> QED
    BY <1>2 DEF Ended

LEMMA OutcomeTyped ==
  ASSUME NEW job
  PROVE  Outcome(job) \in Statuses
  BY DEF Outcome, Statuses

\* What persisting and failing make of a row.
LEMMA RowChangesTyped ==
  ASSUME NEW job \in Job, NEW p \in Products, NEW fatal \in BOOLEAN
  PROVE  Touched(job, p) \in Job /\ Persisted(job, p) \in Job /\ Erred(job, p, fatal) \in Job
  <1>1. Touched(job, p) \in Job
    BY DEF Touched, Job
  <1> DEFINE left == [job.held EXCEPT ![p] = 0]
  <1>2. left \in [Products -> 0..MaxVersion]
    BY ImportsAssumption DEF ImportsAssumption, Job
  <1> HIDE DEF left
  <1>3. [job EXCEPT !.todo = @ \ {p}, !.held = left, !.wrote = TRUE] \in Job
    BY <1>2 DEF Job
  <1>4. [job EXCEPT !.todo = @ \ {p}, !.held = left, !.erred = TRUE, !.fatal = fatal] \in Job
    BY <1>2 DEF Job
  <1> QED
    BY <1>1, <1>3, <1>4 DEF Persisted, Erred, left

LEMMA CreateTyped ==
  ASSUME TypeOK, NEW i \in Procs, NEW mode \in Modes \cup {"delta", "explicit", "inventory"},
         NEW scheduled \in BOOLEAN, Create(i, mode, scheduled)
  PROVE  jobs' \in [Jobs -> Job]
  <1> DEFINE new == [NoJob EXCEPT !.proc = i, !.mode = mode, !.scheduled = scheduled,
                                  !.status = "pending", !.alive = TRUE]
  <1>1. new \in Job
    BY NoJobTyped, ImportsAssumption DEF ImportsAssumption, Job, Statuses
  <1> HIDE DEF new
  <1>2. \E j \in Jobs : jobs' = [jobs EXCEPT ![j] = new]
    BY DEF Create, new
  <1> QED
    BY <1>1, <1>2 DEF TypeOK

\* Steps of a job: every kind changes the rows, and some the catalog.
LEMMA JobTyped ==
  ASSUME TypeOK, NEW j \in Jobs, JobStep(j)
  PROVE  TypeOK'
  <1> USE DEF TypeOK
  <1> jobs[j] \in Job
    OBVIOUS
  <1>1. CASE Start(j)
    <2> PICK found \in Discovered(jobs[j].mode) :
            jobs' = [jobs EXCEPT ![j].status = "running", ![j].todo = found]
      BY <1>1 DEF Start
    <2> found \subseteq Products
      BY DEF Discovered
    <2> [jobs[j] EXCEPT !.status = "running", !.todo = found] \in Job
      BY DEF Job, Statuses
    <2> QED
      BY <1>1 DEF Start, UnchangedExceptJobs
  <1>2. CASE Finalize(j)
    <2> Ended(jobs[j], Outcome(jobs[j])) \in Job
      BY EndedTyped, OutcomeTyped
    <2>1. jobs' \in [Jobs -> Job]
      BY <1>2 DEF Finalize
    <2>2. selection' \in [Picked -> SelectionStatuses]
      BY <1>2 DEF Finalize, SelectionStatuses
    <2>3. missed' \subseteq Picked
      BY <1>2 DEF Finalize, Differs
    <2> QED
      BY <1>2, <2>1, <2>2, <2>3 DEF Finalize
  <1>3. CASE Refuse(j)
    <2> Ended(jobs[j], "failed") \in Job
      BY EndedTyped DEF Statuses
    <2> QED
      BY <1>3 DEF Refuse, UnchangedExceptJobs
  <1>4. CASE Abandon(j)
    <2> Ended(jobs[j], jobs[j].status) \in Job
      BY EndedTyped DEF Job
    <2> missed' \subseteq Picked
      BY <1>4 DEF Abandon, Differs
    <2> QED
      BY <1>4 DEF Abandon
  <1>5. ASSUME NEW p \in Products, Fetch(j, p) PROVE TypeOK'
    <2> DEFINE got == [jobs[j].held EXCEPT ![p] = source[p]]
    <2>1. source[p] \in 0..MaxVersion
      BY ImportsAssumption DEF ImportsAssumption
    <2>2. got \in [Products -> 0..MaxVersion]
      BY <2>1 DEF Job
    <2> HIDE DEF got
    <2>3. [jobs[j] EXCEPT !.held = got] \in Job
      BY <2>2 DEF Job
    <2>4. jobs' = [jobs EXCEPT ![j] = [@ EXCEPT !.held = got]]
      BY <1>5 DEF Fetch, got
    <2> QED
      BY <1>5, <2>3, <2>4 DEF Fetch, UnchangedExceptJobs
  <1>6. ASSUME NEW p \in Products, Persist(j, p) PROVE TypeOK'
    <2>1. \A job \in Job : Touched(job, p) \in Job /\ Persisted(job, p) \in Job
      BY RowChangesTyped
    <2>2. Persisted(Touched(jobs[j], p), p) \in Job
      BY <2>1
    <2>4. jobs' \in [Jobs -> Job]
      BY <1>6, <2>1, <2>2 DEF Persist
    <2>3. jobs[j].held[p] \in 0..MaxVersion /\ jobs[j].held[p] # 0
      BY <1>6 DEF Persist, Job
    <2>5. jobs[j].held[p] \in 1..MaxVersion
      BY <2>3, ImportsAssumption DEF ImportsAssumption
    <2>6. version' \in [Products -> 1..MaxVersion]
      BY <1>6, <2>5 DEF Persist
    <2> QED
      BY <1>6, <2>4, <2>6 DEF Persist
  <1>7. ASSUME NEW p \in Products, Count(j, p) PROVE TypeOK'
    <2> [jobs[j] EXCEPT !.todo = @ \ {p}, !.wrote = TRUE] \in Job
      BY DEF Job
    <2> QED
      BY <1>7 DEF Count, UnchangedExceptJobs
  <1>8. ASSUME NEW p \in Products, Err(j, p) PROVE TypeOK'
    <2> PICK fatal \in BOOLEAN : jobs' = [jobs EXCEPT ![j] = Erred(@, p, fatal)]
      BY <1>8 DEF Err
    <2> Erred(jobs[j], p, fatal) \in Job
      BY RowChangesTyped
    <2> QED
      BY <1>8 DEF Err, UnchangedExceptJobs
  <1> QED
    BY <1>1, <1>2, <1>3, <1>4, <1>5, <1>6, <1>7, <1>8 DEF JobStep

\* Steps of a process: the rows it makes, leaves or marks, and its loops.
LEMMA ProcTyped ==
  ASSUME TypeOK, NEW i \in Procs, ProcStep(i)
  PROVE  TypeOK'
  <1>1. ASSUME NEW mode \in Modes, Trigger(i, mode) PROVE TypeOK'
    BY <1>1 DEF Trigger, TypeOK
  <1>2. CASE TriggerCreates(i)
    <2>1. asked[i] \in Modes /\ Create(i, asked[i], FALSE)
      BY <1>2 DEF TriggerCreates, TypeOK
    <2>2. jobs' \in [Jobs -> Job]
      BY <2>1, CreateTyped
    <2> QED
      BY <1>2, <2>2 DEF TriggerCreates, TypeOK
  <1>3. CASE Unasked(i)
    <2>1. jobs' \in [Jobs -> Job]
      BY <1>3, CreateTyped DEF Unasked
    <2> QED
      BY <1>3, <2>1 DEF Unasked, TypeOK
  <1>4. CASE Acquire(i)
    BY <1>4 DEF Acquire, UnchangedExceptScheduler, TypeOK
  <1>5. CASE Import(i)
    <2>1. jobs' \in [Jobs -> Job]
      BY <1>5, CreateTyped DEF Import
    <2> QED
      BY <1>5, <2>1 DEF Import, UnchangedExceptScheduler, TypeOK
  <1>6. CASE Release(i)
    BY <1>6 DEF Release, UnchangedExceptScheduler, TypeOK
  <1>7. CASE Halt(i)
    <2>1. \A j \in Jobs : jobs[j] \in Job /\ Ended(jobs[j], jobs[j].status) \in Job
      BY EndedTyped DEF TypeOK, Job
    <2>2. jobs' \in [Jobs -> Job]
      BY <1>7, <2>1 DEF Halt
    <2>3. missed' \subseteq Picked
      BY <1>7 DEF Halt, Differs, TypeOK
    <2>4. lock' \in BOOLEAN
      BY <1>7 DEF Halt, TypeOK
    <2>5. halts' = halts + 1 /\ halts \in Nat
      BY <1>7 DEF Halt, TypeOK
    <2>6. halts' \in Nat
      BY <2>5
    <2> QED
      BY <1>7, <2>2, <2>3, <2>4, <2>6 DEF Halt, TypeOK
  <1>8. CASE CheckerReads(i)
    BY <1>8 DEF CheckerReads, Unreported, TypeOK
  <1>9. CASE CheckerNotifies(i)
    <2>1. ASSUME NEW j \in Jobs
          PROVE  [jobs[j] EXCEPT !.alerted = TRUE, !.notes = @ + 1] \in Job
      <3>1. jobs[j] \in Job
        BY DEF TypeOK
      <3> DEFINE more == jobs[j].notes + 1
      <3>2. more \in Nat
        BY <3>1 DEF Job
      <3> HIDE DEF more
      <3>3. [jobs[j] EXCEPT !.alerted = TRUE, !.notes = more] \in Job
        BY <3>1, <3>2 DEF Job
      <3> QED
        BY <3>3 DEF more
    <2>2. jobs' \in [Jobs -> Job]
      BY <1>9, <2>1 DEF CheckerNotifies, TypeOK
    <2> QED
      BY <1>9, <2>2 DEF CheckerNotifies, TypeOK
  <1> QED
    BY <1>1, <1>2, <1>3, <1>4, <1>5, <1>6, <1>7, <1>8, <1>9 DEF ProcStep

\* Steps of a product: selections and pushes.
LEMMA PushTyped ==
  ASSUME TypeOK, NEW p \in Picked, PushStep(p)
  PROVE  TypeOK'
  <1> USE DEF UnchangedExceptPush
  <1>0. /\ push[p].read \in 0..MaxVersion /\ push[p].row \in RowsRead
        /\ version[p] \in 0..MaxVersion /\ selection[p] \in SelectionStatuses
        /\ NoPush \in [read : 0..MaxVersion, row : RowsRead]
    BY ImportsAssumption DEF ImportsAssumption, TypeOK, NoPush, RowsRead
  <1>1. CASE Select(p)
    BY <1>1 DEF Select, TypeOK, SelectionStatuses
  <1>2. CASE Remove(p)
    <2>1. push' \in [Picked -> [read : 0..MaxVersion, row : RowsRead]]
      BY <1>0, <1>2 DEF Remove, TypeOK, RowsRead
    <2> QED
      BY <1>2, <2>1 DEF Remove, TypeOK, SelectionStatuses
  <1>3. CASE PushReads(p)
    <2>1. push' \in [Picked -> [read : 0..MaxVersion, row : RowsRead]]
      BY <1>0, <1>3 DEF PushReads, TypeOK
    <2> QED
      BY <1>3, <2>1 DEF PushReads, TypeOK
  <1>4. CASE PushSends(p)
    <2>1. push' \in [Picked -> [read : 0..MaxVersion, row : RowsRead]]
      BY <1>0, <1>4 DEF PushSends, TypeOK, RowsRead
    <2>2. missed' \subseteq Picked
      BY <1>4 DEF PushSends, Overlooking, TypeOK
    <2> QED
      BY <1>0, <1>4, <2>1, <2>2 DEF PushSends, TypeOK
  <1>5. CASE PushCommits(p)
    <2>1. push' \in [Picked -> [read : 0..MaxVersion, row : RowsRead]]
      BY <1>0, <1>5 DEF PushCommits, TypeOK
    <2>2. missed' \subseteq Picked
      BY <1>5 DEF PushCommits, Overlooking, TypeOK
    <2>3. selection' \in [Picked -> SelectionStatuses]
      BY <1>5 DEF PushCommits, Flushed, TypeOK, SelectionStatuses
    <2> QED
      BY <1>5, <2>1, <2>2, <2>3 DEF PushCommits, TypeOK
  <1>6. CASE PushFails(p)
    <2>1. push' \in [Picked -> [read : 0..MaxVersion, row : RowsRead]]
      BY <1>0, <1>6 DEF PushFails, TypeOK
    <2> QED
      BY <1>6, <2>1 DEF PushFails, TypeOK
  <1> QED
    BY <1>1, <1>2, <1>3, <1>4, <1>5, <1>6 DEF PushStep

LEMMA StepTyped == TypeOK /\ [Next]_vars => TypeOK'
  <1> SUFFICES ASSUME TypeOK, [Next]_vars PROVE TypeOK'
    OBVIOUS
  <1>1. CASE \E p \in Products : Change(p)
    BY <1>1, ImportsAssumption DEF ImportsAssumption, Change, TypeOK
  <1>2. CASE LockExpires
    BY <1>2 DEF LockExpires, UnchangedExceptScheduler, TypeOK
  <1>3. CASE UNCHANGED vars
    BY <1>3 DEF vars, TypeOK
  <1> QED
    BY <1>1, <1>2, <1>3, JobTyped, ProcTyped, PushTyped DEF Next

\* Whatever the modes, bounds and faults, every reachable state is well typed.
THEOREM TypeCorrect == Spec => []TypeOK
  BY InitTyped, StepTyped, PTL DEF Spec

-----------------------------------------------------------------------------
(* One scheduled run *)

\* Steps that leave the lock and the loops alone and start no scheduled job.
LEMMA QuietKeeps ==
  ASSUME SchedInv, UNCHANGED <<lock, sched>>,
         \A j \in Jobs : Scheduled(j)' => Scheduled(j) /\ jobs'[j].proc = jobs[j].proc
  PROVE  SchedInv'
  BY DEF SchedInv, LockHeld, OneHolder, AwaitedByItsScheduler, OneScheduledRun

\* A row its coroutine leaves is no scheduled job that runs.
LEMMA EndedIsOver ==
  ASSUME NEW job, NEW status
  PROVE  ~Ended(job, status).alive
  BY DEF Ended, NoJob

\* Rows whose coroutine goes on as before.
SameRun(old, new) ==
    new.alive = old.alive /\ new.scheduled = old.scheduled /\ new.proc = old.proc

LEMMA RowChangesKeep ==
  ASSUME NEW job \in Job, NEW p \in Products, NEW fatal \in BOOLEAN
  PROVE  /\ SameRun(job, Touched(job, p))
         /\ SameRun(job, Persisted(job, p))
         /\ SameRun(job, Erred(job, p, fatal))
  <1>1. SameRun(job, Touched(job, p))
    BY DEF SameRun, Touched, Job
  <1> DEFINE left == [job.held EXCEPT ![p] = 0]
  <1> HIDE DEF left
  <1>2. SameRun(job, [job EXCEPT !.todo = @ \ {p}, !.held = left, !.wrote = TRUE])
    BY DEF SameRun, Job
  <1>3. SameRun(job, [job EXCEPT !.todo = @ \ {p}, !.held = left, !.erred = TRUE, !.fatal = fatal])
    BY DEF SameRun, Job
  <1> QED
    BY <1>1, <1>2, <1>3 DEF Persisted, Erred, left

LEMMA CreatedIsNew ==
  ASSUME TypeOK, NEW i, NEW mode, NEW scheduled \in BOOLEAN, Create(i, mode, scheduled)
  PROVE  \E new \in Jobs : \A j \in Jobs : Scheduled(j)' =>
            \/ Scheduled(j) /\ jobs'[j].proc = jobs[j].proc
            \/ scheduled /\ j = new /\ jobs'[j].proc = i
  BY DEF Create, Scheduled, NoJob, TypeOK

LEMMA JobKeeps ==
  ASSUME TypeOK, SchedInv, NEW j \in Jobs, JobStep(j)
  PROVE  SchedInv'
  <1>1. UNCHANGED <<lock, sched>>
    BY DEF JobStep, Start, Finalize, Refuse, Abandon, Fetch, Persist, Count, Err,
           UnchangedExceptJobs
  <1>2. ASSUME NEW k \in Jobs, Scheduled(k)'
        PROVE  Scheduled(k) /\ jobs'[k].proc = jobs[k].proc
    <2>0. jobs \in [Jobs -> Job] /\ jobs[k] \in Job /\ jobs[j] \in Job
      BY DEF TypeOK
    <2>1. CASE Start(j)
      BY <1>2, <2>0, <2>1 DEF Start, Scheduled, Job
    <2>2. ASSUME NEW p \in Products, Fetch(j, p)
          PROVE  Scheduled(k) /\ jobs'[k].proc = jobs[k].proc
      BY <1>2, <2>0, <2>2 DEF Fetch, Scheduled, Job
    <2>4. ASSUME NEW p \in Products, Count(j, p)
          PROVE  Scheduled(k) /\ jobs'[k].proc = jobs[k].proc
      BY <1>2, <2>0, <2>4 DEF Count, Scheduled, Job
    <2>5. ASSUME NEW p \in Products, Err(j, p)
          PROVE  Scheduled(k) /\ jobs'[k].proc = jobs[k].proc
      <3>1. PICK fatal \in BOOLEAN : jobs' = [jobs EXCEPT ![j] = Erred(@, p, fatal)]
        BY <2>5 DEF Err
      <3>2. SameRun(jobs[j], Erred(jobs[j], p, fatal))
        BY <2>0, RowChangesKeep
      <3> QED
        BY <1>2, <2>0, <3>1, <3>2 DEF SameRun, Scheduled
    <2>6. ASSUME NEW p \in Products, Persist(j, p)
          PROVE  Scheduled(k) /\ jobs'[k].proc = jobs[k].proc
      <3>1. SameRun(jobs[k], Touched(jobs[k], p))
            /\ SameRun(Touched(jobs[k], p), Persisted(Touched(jobs[k], p), p))
        BY <2>0, RowChangesKeep, RowChangesTyped
      <3>2. jobs'[k] = IF k = j THEN Persisted(Touched(jobs[k], p), p) ELSE Touched(jobs[k], p)
        BY <2>6 DEF Persist
      <3> QED
        BY <1>2, <3>1, <3>2 DEF SameRun, Scheduled
    <2>3. CASE Finalize(j) \/ Refuse(j) \/ Abandon(j)
      BY <1>2, <2>0, <2>3, EndedIsOver DEF Finalize, Refuse, Abandon, Scheduled
    <2> QED
      BY <2>1, <2>2, <2>3, <2>4, <2>5, <2>6 DEF JobStep
  <1> QED
    BY <1>1, <1>2, QuietKeeps

LEMMA ProcKeeps ==
  ASSUME TypeOK, SchedInv, NEW i \in Procs, ProcStep(i)
  PROVE  SchedInv'
  <1> USE DEF SchedInv, LockHeld, OneHolder, AwaitedByItsScheduler, OneScheduledRun
  <1>1. CASE (\E mode \in Modes : Trigger(i, mode)) \/ CheckerReads(i)
    BY <1>1, QuietKeeps DEF Trigger, CheckerReads, Scheduled
  <1>2. CASE TriggerCreates(i) \/ Unasked(i)
    BY <1>2, QuietKeeps, CreatedIsNew DEF TriggerCreates, Unasked
  <1>3. CASE Acquire(i)
    <2>1. \A k \in Procs : sched[k] = "asleep"
      BY <1>3 DEF Acquire
    <2>2. \A j \in Jobs : ~Scheduled(j) /\ ~Scheduled(j)'
      BY <1>3, <2>1 DEF Acquire, Scheduled
    <2> QED
      BY <1>3, <2>1, <2>2 DEF Acquire, TypeOK
  <1>4. CASE Import(i)
    <2>1. \A k \in Procs : sched[k] # "asleep" => k = i
      BY <1>4 DEF Import
    <2>2. \A j \in Jobs : ~Scheduled(j)
      BY <1>4, <2>1 DEF Import
    <2>8. Create(i, "delta", TRUE)
      BY <1>4 DEF Import
    <2>9. \E new \in Jobs : \A j \in Jobs : Scheduled(j)' =>
             Scheduled(j) \/ (j = new /\ jobs'[j].proc = i)
      BY <2>8 DEF Create, Scheduled, NoJob, TypeOK
    <2>3. PICK new \in Jobs : \A j \in Jobs : Scheduled(j)' => j = new /\ jobs'[j].proc = i
      BY <2>2, <2>9
    <2>4. sched' = [sched EXCEPT ![i] = "importing"] /\ lock' = lock
      BY <1>4 DEF Import
    <2>5. sched \in [Procs -> {"asleep", "holding", "importing"}]
      BY DEF TypeOK
    <2>6. LockHeld' /\ OneHolder'
      BY <1>4, <2>1, <2>4, <2>5 DEF Import
    <2>7. AwaitedByItsScheduler' /\ OneScheduledRun'
      BY <2>3, <2>4, <2>5
    <2> QED
      BY <2>6, <2>7
  <1>5. CASE Release(i)
    <2>1. \A k \in Procs : sched'[k] = "asleep"
      BY <1>5 DEF Release, TypeOK
    <2>2. \A j \in Jobs : ~Scheduled(j) /\ ~Scheduled(j)'
      BY <1>5 DEF Release, Scheduled
    <2> QED
      BY <2>1, <2>2
  <1>6. CASE Halt(i)
    <2>1. \A k \in Procs : sched'[k] = IF k = i THEN "asleep" ELSE sched[k]
      BY <1>6 DEF Halt, TypeOK
    <2>2. ASSUME NEW j \in Jobs, Scheduled(j)'
          PROVE  Scheduled(j) /\ jobs'[j].proc = jobs[j].proc /\ jobs[j].proc # i
      BY <1>6, <2>2, EndedIsOver DEF Halt, Scheduled
    <2>3. LockHeld'
      BY <1>6, <2>1 DEF Halt
    <2>4. OneHolder'
      BY <2>1
    <2> QED
      BY <2>1, <2>2, <2>3, <2>4
  <1>7. CASE CheckerNotifies(i)
    <2>1. \A j \in Jobs : Scheduled(j)' => Scheduled(j) /\ jobs'[j].proc = jobs[j].proc
      <3> SUFFICES ASSUME NEW j \in Jobs
                   PROVE  SameRun(jobs[j], jobs'[j])
        BY DEF SameRun, Scheduled
      <3>1. jobs[j] \in Job
        BY DEF TypeOK
      <3> DEFINE more == jobs[j].notes + 1
      <3>2. jobs'[j] = IF j \in seen[i] THEN [jobs[j] EXCEPT !.alerted = TRUE, !.notes = more]
                       ELSE jobs[j]
        BY <1>7 DEF CheckerNotifies
      <3> HIDE DEF more
      <3> QED
        BY <3>1, <3>2 DEF SameRun, Job
    <2> QED
      BY <1>7, <2>1, QuietKeeps DEF CheckerNotifies
  <1> QED
    BY <1>1, <1>2, <1>3, <1>4, <1>5, <1>6, <1>7 DEF ProcStep

LEMMA StepKeeps == Prompt /\ IndInv /\ [Next]_vars => IndInv'
  <1> SUFFICES ASSUME Prompt, TypeOK, SchedInv, [Next]_vars PROVE SchedInv'
    BY StepTyped DEF IndInv
  <1>1. CASE \E p \in Picked : PushStep(p)
    BY <1>1, QuietKeeps
    DEF PushStep, Select, Remove, PushReads, PushSends, PushCommits, PushFails,
        UnchangedExceptPush, Scheduled
  <1>2. CASE \E p \in Products : Change(p)
    BY <1>2, QuietKeeps DEF Change, Scheduled
  <1>3. CASE LockExpires
    <2>1. UNCHANGED <<jobs, sched>> /\ \A i \in Procs : sched[i] = "asleep"
      BY <1>3 DEF LockExpires
    <2> QED
      BY <2>1 DEF SchedInv, LockHeld, OneHolder, AwaitedByItsScheduler, OneScheduledRun, Scheduled
  <1>4. CASE UNCHANGED vars
    BY <1>4, QuietKeeps DEF vars, Scheduled
  <1> QED
    BY <1>1, <1>2, <1>3, <1>4, JobKeeps, ProcKeeps DEF Next

LEMMA InitSched == Init => SchedInv
  BY DEF Init, SchedInv, LockHeld, OneHolder, AwaitedByItsScheduler, OneScheduledRun, Scheduled,
         NoJob

\* With a lock that outlasts every run, the schedulers of any number of processes,
\* with any crashes and restarts between two steps, never run two jobs at a time,
\* although the lock is deleted without a look at its owner.
THEOREM OneRun == Prompt /\ Spec => []OneScheduledRun
  <1> SUFFICES ASSUME Prompt PROVE Spec => []OneScheduledRun
    OBVIOUS
  <1>1. Init => IndInv
    BY InitTyped, InitSched DEF IndInv
  <1>2. IndInv => OneScheduledRun
    BY DEF IndInv, SchedInv
  <1>3. IndInv /\ [Next]_vars => IndInv'
    BY StepKeeps
  <1> QED
    BY <1>1, <1>2, <1>3, PTL DEF Spec

-----------------------------------------------------------------------------
(* Notifications *)

\* Checkers that have read job j as failed and will report it.
Readers(j) == {i \in Procs : j \in seen[i]}

\* Nobody reports a job for the first time later than it is marked.
ReportsBounded ==
    \A j \in Jobs :
        /\ ~jobs[j].alerted => jobs[j].notes = 0
        /\ jobs[j].notes + Cardinality(Readers(j)) <= Cardinality(Procs)

LEMMA ReadersCount ==
  ASSUME NEW S \in SUBSET Procs
  PROVE  IsFiniteSet(S) /\ Cardinality(S) \in Nat /\ Cardinality(S) <= Cardinality(Procs)
         /\ Cardinality(Procs) \in Nat
  BY FS_Subset, FS_CardinalityType, ImportsAssumption DEF ImportsAssumption

\* Rows whose reports stay as they are.
SameReports(old, new) == new.alerted = old.alerted /\ new.notes = old.notes

\* Steps that report nothing and read no failed job.
LEMMA SilentKeeps ==
  ASSUME TypeOK, TypeOK', ReportsBounded,
         \A i \in Procs : seen'[i] \subseteq seen[i],
         \A j \in Jobs : SameReports(jobs[j], jobs'[j])
                         \/ (~jobs'[j].alerted /\ jobs'[j].notes = 0)
  PROVE  ReportsBounded'
  <1> SUFFICES ASSUME NEW j \in Jobs
               PROVE  /\ ~jobs'[j].alerted => jobs'[j].notes = 0
                      /\ jobs'[j].notes + Cardinality(Readers(j)') <= Cardinality(Procs)
    BY DEF ReportsBounded
  <1>1. Readers(j)' \subseteq Readers(j) /\ Readers(j) \in SUBSET Procs
    BY DEF Readers
  <1>2. Cardinality(Readers(j)') <= Cardinality(Readers(j))
        /\ Cardinality(Readers(j)') \in Nat /\ Cardinality(Readers(j)) \in Nat
        /\ Cardinality(Procs) \in Nat /\ Cardinality(Readers(j)') <= Cardinality(Procs)
    <2>1. IsFiniteSet(Readers(j))
      BY <1>1, ReadersCount
    <2>2. Cardinality(Readers(j)') <= Cardinality(Readers(j))
      BY <1>1, <2>1, FS_Subset
    <2>3. Readers(j)' \in SUBSET Procs
      BY <1>1
    <2> QED
      BY <1>1, <2>2, <2>3, ReadersCount
  <1>3. jobs[j].notes \in Nat /\ jobs[j].alerted \in BOOLEAN
    BY DEF TypeOK, Job
  <1>4. CASE SameReports(jobs[j], jobs'[j])
    BY <1>2, <1>3, <1>4 DEF SameReports, ReportsBounded
  <1>5. CASE ~jobs'[j].alerted /\ jobs'[j].notes = 0
    BY <1>2, <1>5
  <1> QED
    BY <1>4, <1>5

LEMMA RowChangesSilent ==
  ASSUME NEW job \in Job, NEW p \in Products, NEW fatal \in BOOLEAN, NEW status
  PROVE  /\ SameReports(job, Touched(job, p))
         /\ SameReports(job, Persisted(job, p))
         /\ SameReports(job, Erred(job, p, fatal))
         /\ SameReports(job, Ended(job, status))
  <1>1. SameReports(job, Touched(job, p))
    BY DEF SameReports, Touched, Job
  <1> DEFINE left == [job.held EXCEPT ![p] = 0]
  <1> HIDE DEF left
  <1>2. SameReports(job, [job EXCEPT !.todo = @ \ {p}, !.held = left, !.wrote = TRUE])
    BY DEF SameReports, Job
  <1>3. SameReports(job, [job EXCEPT !.todo = @ \ {p}, !.held = left, !.erred = TRUE,
                                     !.fatal = fatal])
    BY DEF SameReports, Job
  <1>4. SameReports(job, Ended(job, status))
    BY DEF SameReports, Ended, NoJob
  <1> QED
    BY <1>1, <1>2, <1>3, <1>4 DEF Persisted, Erred, left

LEMMA JobSilent ==
  ASSUME TypeOK, ReportsBounded, NEW j \in Jobs, JobStep(j)
  PROVE  ReportsBounded'
  <1>0. TypeOK'
    BY JobTyped
  <1>1. UNCHANGED seen
    BY DEF JobStep, Start, Finalize, Refuse, Abandon, Fetch, Persist, Count, Err,
           UnchangedExceptJobs
  <1>2. ASSUME NEW k \in Jobs PROVE SameReports(jobs[k], jobs'[k])
    <2>0. jobs \in [Jobs -> Job] /\ jobs[k] \in Job /\ jobs[j] \in Job
      BY DEF TypeOK
    <2>1. CASE Start(j)
      BY <2>0, <2>1 DEF Start, SameReports, Job
    <2>2. ASSUME NEW p \in Products, Fetch(j, p) PROVE SameReports(jobs[k], jobs'[k])
      BY <2>0, <2>2 DEF Fetch, SameReports, Job
    <2>3. ASSUME NEW p \in Products, Count(j, p) PROVE SameReports(jobs[k], jobs'[k])
      BY <2>0, <2>3 DEF Count, SameReports, Job
    <2>4. ASSUME NEW p \in Products, Err(j, p) PROVE SameReports(jobs[k], jobs'[k])
      <3>1. PICK fatal \in BOOLEAN : jobs' = [jobs EXCEPT ![j] = Erred(@, p, fatal)]
        BY <2>4 DEF Err
      <3>2. SameReports(jobs[j], Erred(jobs[j], p, fatal))
        BY <2>0, RowChangesSilent
      <3> QED
        BY <2>0, <3>1, <3>2 DEF SameReports
    <2>5. ASSUME NEW p \in Products, Persist(j, p) PROVE SameReports(jobs[k], jobs'[k])
      <3>1. SameReports(jobs[k], Touched(jobs[k], p))
            /\ SameReports(Touched(jobs[k], p), Persisted(Touched(jobs[k], p), p))
        BY <2>0, RowChangesSilent, RowChangesTyped
      <3>2. jobs'[k] = IF k = j THEN Persisted(Touched(jobs[k], p), p) ELSE Touched(jobs[k], p)
        BY <2>5 DEF Persist
      <3> QED
        BY <3>1, <3>2 DEF SameReports
    <2>6. CASE Finalize(j) \/ Refuse(j) \/ Abandon(j)
      <3>1. PICK status : jobs' = [jobs EXCEPT ![j] = Ended(@, status)]
        BY <2>6 DEF Finalize, Refuse, Abandon
      <3>2. SameReports(jobs[j], Ended(jobs[j], status))
        BY DEF SameReports, Ended, NoJob
      <3> QED
        BY <2>0, <3>1, <3>2 DEF SameReports
    <2> QED
      BY <2>1, <2>2, <2>3, <2>4, <2>5, <2>6 DEF JobStep
  <1> QED
    BY <1>0, <1>1, <1>2, SilentKeeps

LEMMA ProcReports ==
  ASSUME TypeOK, ReportsBounded, NEW i \in Procs, ProcStep(i)
  PROVE  ReportsBounded'
  <1>0. TypeOK'
    BY ProcTyped
  <1>1. CASE (\E mode \in Modes : Trigger(i, mode)) \/ Acquire(i) \/ Release(i)
    BY <1>0, <1>1, SilentKeeps
    DEF Trigger, Acquire, Release, UnchangedExceptScheduler, SameReports
  <1>2. CASE TriggerCreates(i) \/ Unasked(i) \/ Import(i)
    <2>1. UNCHANGED seen
      BY <1>2 DEF TriggerCreates, Unasked, Import, UnchangedExceptScheduler
    <2>2. PICK mode, scheduled : Create(i, mode, scheduled)
      BY <1>2 DEF TriggerCreates, Unasked, Import
    <2>3. ASSUME NEW j \in Jobs
          PROVE  SameReports(jobs[j], jobs'[j]) \/ (~jobs'[j].alerted /\ jobs'[j].notes = 0)
      <3> DEFINE row == [NoJob EXCEPT !.proc = i, !.mode = mode, !.scheduled = scheduled,
                                      !.status = "pending", !.alive = TRUE]
      <3>1. row.alerted = FALSE /\ row.notes = 0
        BY DEF NoJob
      <3> HIDE DEF row
      <3>2. \E n \in Jobs : jobs' = [jobs EXCEPT ![n] = row]
        BY <2>2 DEF Create, row
      <3> QED
        BY <3>1, <3>2 DEF SameReports, TypeOK
    <2> QED
      BY <1>0, <2>1, <2>3, SilentKeeps
  <1>3. CASE Halt(i)
    <2>1. \A k \in Procs : seen'[k] \subseteq seen[k]
      BY <1>3 DEF Halt, TypeOK
    <2>2. ASSUME NEW j \in Jobs PROVE SameReports(jobs[j], jobs'[j])
      BY <1>3 DEF Halt, SameReports, Ended, NoJob
    <2> QED
      BY <1>0, <2>1, <2>2, SilentKeeps
  <1>4. CASE CheckerReads(i)
    <2> SUFFICES ASSUME NEW j \in Jobs
                 PROVE  /\ ~jobs[j].alerted => jobs[j].notes = 0
                        /\ jobs[j].notes + Cardinality(Readers(j)') <= Cardinality(Procs)
      BY <1>4 DEF ReportsBounded, CheckerReads
    <2>1. Cardinality(Readers(j)') \in Nat /\ Cardinality(Readers(j)') <= Cardinality(Procs)
      <3>1. Readers(j)' \in SUBSET Procs
        BY DEF Readers
      <3> QED
        BY <3>1, ReadersCount
    <2>2. CASE j \in Unreported
      BY <2>1, <2>2 DEF Unreported, ReportsBounded
    <2>3. CASE j \notin Unreported
      <3>1. Readers(j)' = Readers(j)
        BY <1>4, <2>3 DEF CheckerReads, Readers, TypeOK
      <3> QED
        BY <3>1 DEF ReportsBounded
    <2> QED
      BY <2>2, <2>3
  <1>5. CASE CheckerNotifies(i)
    <2> SUFFICES ASSUME NEW j \in Jobs
                 PROVE  /\ ~jobs'[j].alerted => jobs'[j].notes = 0
                        /\ jobs'[j].notes + Cardinality(Readers(j)') <= Cardinality(Procs)
      BY DEF ReportsBounded
    <2>0. jobs[j] \in Job /\ jobs[j].notes \in Nat
      BY DEF TypeOK, Job
    <2>1. Readers(j)' = Readers(j) \ {i}
      BY <1>5 DEF CheckerNotifies, Readers, TypeOK
    <2>2. CASE j \in seen[i]
      <3>1. i \in Readers(j) /\ Readers(j) \in SUBSET Procs
        BY <2>2 DEF Readers
      <3>2. Cardinality(Readers(j)') = Cardinality(Readers(j)) - 1
            /\ Cardinality(Readers(j)) \in Nat /\ Cardinality(Procs) \in Nat
        <4>1. IsFiniteSet(Readers(j))
          BY <3>1, ReadersCount
        <4> QED
          BY <2>1, <3>1, <4>1, FS_RemoveElement, ReadersCount
      <3> DEFINE more == jobs[j].notes + 1
      <3>3. jobs'[j] = [jobs[j] EXCEPT !.alerted = TRUE, !.notes = more]
        BY <1>5, <2>2 DEF CheckerNotifies
      <3> HIDE DEF more
      <3>4. jobs'[j].alerted = TRUE /\ jobs'[j].notes = more
        BY <2>0, <3>3 DEF Job
      <3>5. more = jobs[j].notes + 1
        BY DEF more
      <3> QED
        BY <2>0, <3>2, <3>4, <3>5 DEF ReportsBounded
    <2>3. CASE j \notin seen[i]
      <3>1. Readers(j)' = Readers(j)
        BY <2>1, <2>3 DEF Readers
      <3>2. jobs'[j] = jobs[j]
        BY <1>5, <2>3 DEF CheckerNotifies
      <3> QED
        BY <3>1, <3>2 DEF ReportsBounded
    <2> QED
      BY <2>2, <2>3
  <1> QED
    BY <1>1, <1>2, <1>3, <1>4, <1>5 DEF ProcStep

LEMMA StepReports == TypeOK /\ ReportsBounded /\ [Next]_vars => ReportsBounded'
  <1> SUFFICES ASSUME TypeOK, ReportsBounded, [Next]_vars PROVE ReportsBounded'
    OBVIOUS
  <1>0. TypeOK'
    BY StepTyped
  <1>1. CASE (\E p \in Picked : PushStep(p)) \/ (\E p \in Products : Change(p))
             \/ LockExpires \/ UNCHANGED vars
    <2>1. UNCHANGED <<jobs, seen>>
      BY <1>1 DEF PushStep, Select, Remove, PushReads, PushSends, PushCommits, PushFails,
                  UnchangedExceptPush, Change, LockExpires, UnchangedExceptScheduler, vars
    <2> QED
      BY <1>0, <2>1, SilentKeeps DEF SameReports
  <1> QED
    BY <1>1, JobSilent, ProcReports DEF Next

LEMMA InitReports == Init => ReportsBounded
  <1> SUFFICES ASSUME Init, NEW j \in Jobs
               PROVE  /\ jobs[j].notes = 0
                      /\ jobs[j].notes + Cardinality(Readers(j)) <= Cardinality(Procs)
    BY DEF ReportsBounded
  <1>1. jobs[j].notes = 0
    BY DEF Init, NoJob
  <1>2. Readers(j) \in SUBSET Procs
    BY DEF Readers
  <1> QED
    BY <1>1, <1>2, ReadersCount

\* However many processes check, read and restart, each failed job is reported
\* at most once by each process.
THEOREM ReportedOncePerChecker == Spec => []NotifiedOncePerChecker
  <1>1. TypeOK /\ ReportsBounded => NotifiedOncePerChecker
    <2> SUFFICES ASSUME TypeOK, ReportsBounded, NEW j \in Jobs
                 PROVE  jobs[j].notes <= Cardinality(Procs)
      BY DEF NotifiedOncePerChecker
    <2>1. jobs[j].notes \in Nat
      BY DEF TypeOK, Job
    <2>2. Readers(j) \in SUBSET Procs
      BY DEF Readers
    <2>3. jobs[j].notes + Cardinality(Readers(j)) <= Cardinality(Procs)
      BY DEF ReportsBounded
    <2> QED
      BY <2>1, <2>2, <2>3, ReadersCount
  <1> QED
    BY <1>1, InitTyped, InitReports, StepTyped, StepReports, PTL DEF Spec

-----------------------------------------------------------------------------
(* Staleness *)

\* An import under way has touched p and will look at its selection.
Pending(p) == \E j \in Jobs : Running(j) /\ p \in jobs[j].fresh

\* Steps that leave catalog, storefront and selections, and what will be noticed.
LEMMA NoticedKeeps ==
  ASSUME StaleIsNoticed, UNCHANGED <<version, shop, selection>>,
         \A p \in Picked : p \in missed => p \in missed',
         \A p \in Picked : Pending(p) => Pending(p)' \/ p \in missed' \/ ~Differs(p)
  PROVE  StaleIsNoticed'
  BY DEF StaleIsNoticed, Pending, Differs

\* Jobs go on with what they have touched.
LEMMA PendingKept ==
  ASSUME NEW p, Pending(p),
         \A j \in Jobs : Running(j) => jobs'[j].alive /\ jobs'[j].status = "running"
                                       /\ jobs[j].fresh \subseteq jobs'[j].fresh
  PROVE  Pending(p)'
  BY DEF Pending, Running

LEMMA RowChangesGoOn ==
  ASSUME NEW job \in Job, NEW p \in Products, NEW fatal \in BOOLEAN
  PROVE  \A new \in {Touched(job, p), Persisted(job, p), Erred(job, p, fatal)} :
            new.alive = job.alive /\ new.status = job.status /\ job.fresh \subseteq new.fresh
  <1>1. Touched(job, p).alive = job.alive /\ Touched(job, p).status = job.status
        /\ job.fresh \subseteq Touched(job, p).fresh
    BY DEF Touched, Job
  <1> DEFINE left == [job.held EXCEPT ![p] = 0]
             new1 == [job EXCEPT !.todo = @ \ {p}, !.held = left, !.wrote = TRUE]
             new2 == [job EXCEPT !.todo = @ \ {p}, !.held = left, !.erred = TRUE, !.fatal = fatal]
  <1> HIDE DEF left
  <1>2. new1.alive = job.alive /\ new1.status = job.status /\ new1.fresh = job.fresh
    BY DEF Job
  <1>3. new2.alive = job.alive /\ new2.status = job.status /\ new2.fresh = job.fresh
    BY DEF Job
  <1>4. Persisted(job, p) = new1 /\ Erred(job, p, fatal) = new2
    BY DEF Persisted, Erred, left
  <1> QED
    BY <1>1, <1>2, <1>3, <1>4

LEMMA JobNotices ==
  ASSUME TypeOK, StaleIsNoticed, NEW j \in Jobs, JobStep(j)
  PROVE  StaleIsNoticed'
  <1> DEFINE Goes(k) == Running(k) => /\ jobs'[k].alive /\ jobs'[k].status = "running"
                                      /\ jobs[k].fresh \subseteq jobs'[k].fresh
  <1>0. jobs \in [Jobs -> Job] /\ jobs[j] \in Job
    BY DEF TypeOK
  <1>1. CASE Start(j)
    <2>1. \A k \in Jobs : Goes(k)
      BY <1>0, <1>1 DEF Start, Running, Job
    <2> QED
      BY <1>1, <2>1, NoticedKeeps, PendingKept DEF Start, UnchangedExceptJobs
  <1>2. ASSUME NEW p \in Products, Fetch(j, p) PROVE StaleIsNoticed'
    <2>1. \A k \in Jobs : Goes(k)
      BY <1>0, <1>2 DEF Fetch, Running, Job
    <2> QED
      BY <1>2, <2>1, NoticedKeeps, PendingKept DEF Fetch, UnchangedExceptJobs
  <1>3. ASSUME NEW p \in Products, Count(j, p) PROVE StaleIsNoticed'
    <2>1. \A k \in Jobs : Goes(k)
      BY <1>0, <1>3 DEF Count, Running, Job
    <2> QED
      BY <1>3, <2>1, NoticedKeeps, PendingKept DEF Count, UnchangedExceptJobs
  <1>4. ASSUME NEW p \in Products, Err(j, p) PROVE StaleIsNoticed'
    <2>1. PICK fatal \in BOOLEAN : jobs' = [jobs EXCEPT ![j] = Erred(@, p, fatal)]
      BY <1>4 DEF Err
    <2>2. \A k \in Jobs : Goes(k)
      BY <1>0, <2>1, RowChangesGoOn DEF Running
    <2> QED
      BY <1>4, <2>2, NoticedKeeps, PendingKept DEF Err, UnchangedExceptJobs
  <1>5. ASSUME NEW p \in Products, Persist(j, p) PROVE StaleIsNoticed'
    <2>1. ASSUME NEW k \in Jobs PROVE Goes(k)
      <3>1. jobs[k] \in Job /\ Touched(jobs[k], p) \in Job
        BY <1>0, RowChangesTyped
      <3>2. jobs'[k] = IF k = j THEN Persisted(Touched(jobs[k], p), p) ELSE Touched(jobs[k], p)
        BY <1>5 DEF Persist
      <3> DEFINE touched == Touched(jobs[k], p)
                 done == Persisted(touched, p)
      <3>3. touched.alive = jobs[k].alive /\ touched.status = jobs[k].status
            /\ jobs[k].fresh \subseteq touched.fresh
        BY <3>1, RowChangesGoOn
      <3>4. done.alive = touched.alive /\ done.status = touched.status
            /\ touched.fresh \subseteq done.fresh
        BY <3>1, RowChangesGoOn
      <3>5. jobs'[k] = done \/ jobs'[k] = touched
        BY <3>2
      <3> HIDE DEF touched, done
      <3> QED
        BY <3>3, <3>4, <3>5 DEF Running
    <2>2. p \in jobs'[j].fresh /\ Running(j)'
      <3>1. jobs[j].alive /\ jobs[j].status = "running"
        BY <1>5 DEF Persist, Running
      <3>2. Touched(jobs[j], p) \in Job /\ p \in Touched(jobs[j], p).fresh
        BY <1>0, <3>1, RowChangesTyped DEF Touched, Job
      <3>3. jobs'[j] = Persisted(Touched(jobs[j], p), p)
        BY <1>5 DEF Persist
      <3> QED
        BY <2>1, <1>5, <3>2, <3>3, RowChangesGoOn DEF Persist, Running
    <2>3. ASSUME NEW r \in Picked, selection'[r] = "pushed", Differs(r)'
          PROVE  Pending(r)' \/ r \in missed'
      <3>1. CASE r = p
        BY <2>2, <3>1 DEF Pending
      <3>2. CASE r # p
        <4>1. selection[r] = "pushed" /\ Differs(r) /\ missed' = missed
          BY <1>5, <2>3, <3>2 DEF Persist, Differs, TypeOK
        <4>2. Pending(r) \/ r \in missed
          BY <4>1 DEF StaleIsNoticed, Pending
        <4> QED
          BY <2>1, <4>1, <4>2, PendingKept
      <3> QED
        BY <3>1, <3>2
    <2> QED
      BY <2>3 DEF StaleIsNoticed, Pending
  <1>6. CASE Finalize(j)
    <2>1. \A k \in Jobs \ {j} : jobs'[k] = jobs[k]
      BY <1>6 DEF Finalize
    <2> SUFFICES ASSUME NEW r \in Picked, selection'[r] = "pushed", Differs(r)'
                 PROVE  Pending(r)' \/ r \in missed'
      BY DEF StaleIsNoticed, Pending
    <2>2. selection[r] = "pushed" /\ Differs(r)
      BY <1>6 DEF Finalize, Differs
    <2>3. Pending(r) \/ r \in missed
      BY <2>2 DEF StaleIsNoticed, Pending
    <2>4. CASE r \in jobs[j].fresh
      <3>1. ~MarksStale(Outcome(jobs[j]))
        BY <1>6, <2>2, <2>4 DEF Finalize
      <3>2. Outcome(jobs[j]) = "failed"
        BY <3>1 DEF Outcome, MarksStale
      <3> QED
        BY <1>6, <2>2, <2>4, <3>2 DEF Finalize
    <2>5. CASE r \notin jobs[j].fresh
      <3>1. r \in missed => r \in missed'
        BY <1>6, <2>5 DEF Finalize
      <3>2. Pending(r) => Pending(r)'
        BY <2>1, <2>5 DEF Pending, Running
      <3> QED
        BY <2>3, <3>1, <3>2
    <2> QED
      BY <2>4, <2>5
  <1>7. CASE Refuse(j)
    <2>1. \A k \in Jobs : Goes(k)
      BY <1>0, <1>7 DEF Refuse, Running
    <2> QED
      BY <1>7, <2>1, NoticedKeeps, PendingKept DEF Refuse, UnchangedExceptJobs
  <1>8. CASE Abandon(j)
    <2>1. \A k \in Jobs \ {j} : jobs'[k] = jobs[k]
      BY <1>8 DEF Abandon
    <2>2. ASSUME NEW r \in Picked, Pending(r) PROVE Pending(r)' \/ r \in missed' \/ ~Differs(r)
      BY <1>8, <2>1, <2>2 DEF Pending, Running, Abandon
    <2> QED
      BY <1>8, <2>2, NoticedKeeps DEF Abandon
  <1> QED
    BY <1>1, <1>2, <1>3, <1>4, <1>5, <1>6, <1>7, <1>8 DEF JobStep

LEMMA ProcNotices ==
  ASSUME TypeOK, StaleIsNoticed, NEW i \in Procs, ProcStep(i)
  PROVE  StaleIsNoticed'
  <1>1. CASE (\E mode \in Modes : Trigger(i, mode)) \/ Acquire(i) \/ Release(i)
             \/ CheckerReads(i)
    <2>1. UNCHANGED <<version, shop, selection, jobs, missed>>
      BY <1>1 DEF Trigger, Acquire, Release, CheckerReads, UnchangedExceptScheduler
    <2> QED
      BY <2>1, NoticedKeeps, PendingKept DEF Running
  <1>2. CASE TriggerCreates(i) \/ Unasked(i) \/ Import(i)
    <2>1. UNCHANGED <<version, shop, selection, missed>>
      BY <1>2 DEF TriggerCreates, Unasked, Import, UnchangedExceptScheduler
    <2>2. PICK mode, scheduled : Create(i, mode, scheduled)
      BY <1>2 DEF TriggerCreates, Unasked, Import
    <2>3. \A j \in Jobs : Running(j) => jobs'[j] = jobs[j]
      BY <2>2 DEF Create, Running, TypeOK, None
    <2> QED
      BY <2>1, <2>3, NoticedKeeps, PendingKept DEF Running
  <1>3. CASE Halt(i)
    <2>1. ASSUME NEW r \in Picked, Pending(r) PROVE Pending(r)' \/ r \in missed' \/ ~Differs(r)
      <3>1. PICK j \in Jobs : Running(j) /\ r \in jobs[j].fresh
        BY <2>1 DEF Pending
      <3>2. CASE jobs[j].proc = i
        BY <1>3, <3>1, <3>2 DEF Halt, Running
      <3>3. CASE jobs[j].proc # i
        <4>1. jobs'[j] = jobs[j]
          BY <1>3, <3>3 DEF Halt
        <4> QED
          BY <3>1, <4>1 DEF Pending, Running
      <3> QED
        BY <3>2, <3>3
    <2> QED
      BY <1>3, <2>1, NoticedKeeps DEF Halt
  <1>4. CASE CheckerNotifies(i)
    <2>1. ASSUME NEW j \in Jobs
          PROVE  Running(j) => jobs'[j].alive /\ jobs'[j].status = "running"
                               /\ jobs[j].fresh \subseteq jobs'[j].fresh
      <3>1. jobs[j] \in Job
        BY DEF TypeOK
      <3> DEFINE more == jobs[j].notes + 1
      <3>2. jobs'[j] = IF j \in seen[i] THEN [jobs[j] EXCEPT !.alerted = TRUE, !.notes = more]
                       ELSE jobs[j]
        BY <1>4 DEF CheckerNotifies
      <3> HIDE DEF more
      <3> QED
        BY <3>1, <3>2 DEF Running, Job
    <2> QED
      BY <1>4, <2>1, NoticedKeeps, PendingKept DEF CheckerNotifies
  <1> QED
    BY <1>1, <1>2, <1>3, <1>4 DEF ProcStep

LEMMA PushNotices ==
  ASSUME TypeOK, StaleIsNoticed, NEW p \in Picked, PushStep(p)
  PROVE  StaleIsNoticed'
  <1> USE DEF UnchangedExceptPush
  <1>0. UNCHANGED <<jobs, version>> /\ \A r : Pending(r) => Pending(r)'
    BY DEF PushStep, Select, Remove, PushReads, PushSends, PushCommits, PushFails,
           Pending, Running
  <1>1. CASE Select(p) \/ Remove(p) \/ PushReads(p) \/ PushFails(p)
    <2>1. ASSUME NEW r \in Picked, selection'[r] = "pushed" PROVE selection[r] = "pushed"
      BY <1>1, <2>1 DEF Select, Remove, PushReads, PushFails, TypeOK, None
    <2>2. UNCHANGED <<shop, missed>>
      BY <1>1 DEF Select, Remove, PushReads, PushFails
    <2> QED
      BY <1>0, <2>1, <2>2 DEF StaleIsNoticed, Pending, Differs
  <1> SUFFICES ASSUME PushSends(p) \/ PushCommits(p),
                      NEW r \in Picked, selection'[r] = "pushed", Differs(r)'
               PROVE  Pending(r)' \/ r \in missed'
    BY <1>1 DEF PushStep, StaleIsNoticed, Pending
  <1>2. CASE r # p
    <2>1. selection[r] = "pushed" /\ shop'[r] = shop[r] /\ (r \in missed => r \in missed')
      BY <1>2 DEF PushSends, PushCommits, Overlooking, TypeOK
    <2> QED
      BY <1>0, <2>1 DEF StaleIsNoticed, Pending, Differs
  <1>3. CASE r = p /\ PushSends(p)
    <2>1. shop'[p] = push[p].read /\ missed' = Overlooking(p, push[p].read)
      BY <1>3 DEF PushSends, TypeOK
    <2>2. push[p].read # version[p]
      BY <1>0, <1>3, <2>1 DEF Differs
    <2> QED
      BY <1>0, <1>3, <2>1, <2>2 DEF Overlooking, Overlooked, Pending
  <1>4. CASE r = p /\ PushCommits(p)
    <2>1. shop' = shop
      BY <1>4 DEF PushCommits
    <2>2. CASE missed' = Overlooking(p, shop[p])
      BY <1>0, <1>4, <2>1, <2>2 DEF Overlooking, Overlooked, Pending, Differs
    <2>3. CASE UNCHANGED <<selection, missed>>
      BY <1>0, <1>4, <2>1, <2>3 DEF StaleIsNoticed, Pending, Differs
    <2> QED
      BY <1>4, <2>2, <2>3 DEF PushCommits
  <1> QED
    BY <1>2, <1>3, <1>4

\* Whatever jobs overlap, end in part, fail or die, and whatever pushes and
\* selections come between, old data shown as pushed are noticed or in "missed".
THEOREM StaleNoticed == Spec => []StaleIsNoticed
  <1>1. Init => StaleIsNoticed
    <2> SUFFICES ASSUME Init, NEW p \in Picked, selection[p] = "pushed" PROVE ~Differs(p)
      BY DEF StaleIsNoticed
    <2>1. shop[p] = 1
      BY DEF Init, None
    <2>2. version[p] = 1
      BY ImportsAssumption DEF ImportsAssumption, Init
    <2> QED
      BY <2>1, <2>2 DEF Differs
  <1>2. TypeOK /\ StaleIsNoticed /\ [Next]_vars => StaleIsNoticed'
    <2> SUFFICES ASSUME TypeOK, StaleIsNoticed, [Next]_vars PROVE StaleIsNoticed'
      OBVIOUS
    <2>1. CASE (\E p \in Products : Change(p)) \/ LockExpires \/ UNCHANGED vars
      <3>1. UNCHANGED <<version, shop, selection, jobs, missed>>
        BY <2>1 DEF Change, LockExpires, UnchangedExceptScheduler, vars
      <3> QED
        BY <3>1, NoticedKeeps, PendingKept DEF Running
    <2> QED
      BY <2>1, JobNotices, ProcNotices, PushNotices DEF Next
  <1> QED
    BY <1>1, <1>2, InitTyped, StepTyped, PTL DEF Spec

=============================================================================
