------------------------- MODULE PushLifecycle_proofs -------------------------
(***************************************************************************)
(* Proofs about PushLifecycle, for any number of rows, slots, workers and  *)
(* handlers: typing, what a step does to rows and executors, then the      *)
(* inductive invariant and what follows from it.                           *)
(***************************************************************************)
EXTENDS PushLifecycle, TLAPS

Pcs == {"idle"} \cup Working \cup Serving
ExecOK == exec \in [Executors -> ExecState]

\* The ways an executor moves on leave every executor's state well-formed.
LEMMA MovesTyped ==
    ASSUME ExecOK, NEW e \in Executors
    PROVE  /\ \A st \in ExecState : Become(e, st) => ExecOK'
           /\ \A pc \in Pcs : GoTo(e, pc) \/ Leave(e, pc) => ExecOK'
           /\ Release(e) \/ EndJob(e) => ExecOK'
PROOF
<1>1. ASSUME NEW st \in ExecState, Become(e, st) PROVE ExecOK'
  BY <1>1 DEF Become, ExecOK
<1>2. ASSUME NEW pc \in Pcs
      PROVE  /\ [exec[e] EXCEPT !.pc = pc] \in ExecState
             /\ [exec[e] EXCEPT !.pc = pc, !.seen = "absent"] \in ExecState
  BY DEF ExecOK, ExecState, Pcs, Statuses
<1>3. Idle \in ExecState
  BY DEF Idle, ExecState, Statuses
<1> QED BY <1>1, <1>2, <1>3 DEF GoTo, Leave, Release, EndJob

\* A job that ends leaves the queue as it is, and its row is one whose result
\* may be kept.
LEMMA EndKept ==
    ASSUME kept \subseteq Rows, NEW e \in Executors, EndJob(e), exec[e].row \in Rows
    PROVE  kept' \subseteq Rows /\ jobs' = jobs /\ tries' = tries
PROOF BY DEF EndJob, queueVars

\* Counting up and writing entries keep a function's type.
LEMMA CountedUp ==
    ASSUME NEW f \in [Rows -> Nat], NEW r, NEW g, g = [f EXCEPT ![r] = @ + 1]
    PROVE  g \in [Rows -> Nat]
PROOF
<1>1. CASE r \in Rows
  <2>1. f[r] + 1 \in Nat
    BY <1>1
  <2> QED BY <2>1
<1>2. CASE r \notin Rows
  <2>1. \A y \in Rows : g[y] = f[y]
    BY <1>2
  <2> QED BY <2>1
<1> QED BY <1>1, <1>2

\* Every step keeps the types, given that executors hold rows that exist.
LEMMA Typing ==
    ASSUME TypeOK, RowInHand, [Next]_vars
    PROVE  TypeOK'
PROOF
<1> USE ConstantsAssumption
<1> DEFINE Ledgers ==
      /\ status \in [Rows -> Statuses]
      /\ call \in [Rows -> Calls \cup {NoCall}]
      /\ old \subseteq Rows
      /\ callback \in [Rows -> {"not_requested", "pending", "sent", "failed"}]
      /\ jobs \in [Rows -> Nat]
      /\ tries \in [Rows -> Nat]
      /\ kept \subseteq Rows
      /\ posted \in [Rows -> Nat]
      /\ retried \in [Rows -> Nat]
      /\ faults \in Nat
<1>ok. Ledgers /\ ExecOK
  BY DEF TypeOK, ExecOK
<1>pc. \A x \in Working \cup Serving : x \in Pcs
  BY DEF Pcs
<1> SUFFICES Ledgers' /\ ExecOK'
  BY DEF TypeOK, ExecOK
<1> USE <1>ok
<1>s. \A e \in Executors : exec[e] \in ExecState
  BY DEF ExecOK
<1>w. ASSUME NEW e \in Executors, NEW out \in Terminal, SetStatus(e, out)
      PROVE  status' \in [Rows -> Statuses]
  <2>1. out \in Statuses
    BY DEF Statuses
  <2> QED BY <1>w, <2>1 DEF SetStatus
<1>k. ASSUME NEW e \in Executors, exec[e].pc \in Working, EndJob(e)
      PROVE  kept' \subseteq Rows /\ jobs' = jobs /\ tries' = tries
  BY <1>k, EndKept DEF RowInHand
<1> USE DEF dbVars, queueVars, jobVars, ghostVars
<1>1. ASSUME NEW s \in Servers, Serve(s) PROVE Ledgers' /\ ExecOK'
  <2>e. s \in Executors
    BY DEF Executors
  <2>1. ASSUME NEW c \in Calls, ReceiveFirst(s, c) PROVE Ledgers' /\ ExecOK'
    <3>1. [Idle EXCEPT !.pc = "reap", !.call = c] \in ExecState
      BY DEF Idle, ExecState, Serving, Statuses
    <3> QED BY <2>1, <2>e, <3>1, MovesTyped DEF ReceiveFirst
  <2>2. ASSUME NEW c \in Calls, ReceiveReplay(s, c) PROVE Ledgers' /\ ExecOK'
    <3>1. ASSUME NEW r \in Rows, NEW pc \in Pcs
          PROVE  [Idle EXCEPT !.pc = pc, !.call = c, !.row = r] \in ExecState
      BY DEF Idle, ExecState, Pcs, Statuses
    <3> QED BY <2>2, <2>e, <3>1, MovesTyped DEF ReceiveReplay, Pcs, Serving, Working
  <2>3. CASE Reap(s)
    <3>1. Ledgers'
      BY <2>3 DEF Reap, Statuses, Terminal
    <3>2. ExecOK'
      BY <2>3, <2>e, MovesTyped DEF Reap, Pcs, Serving
    <3> QED BY <3>1, <3>2
  <2>4. CASE Guard(s)
    <3>1. Ledgers'
      BY <2>4 DEF Guard
    <3>2. ExecOK'
      BY <2>4, <2>e, MovesTyped DEF Guard, Pcs, Serving
    <3> QED BY <3>1, <3>2
  <2>5. CASE Insert(s)
    <3>1. Ledgers'
      BY <2>5, <2>e, <1>s DEF Insert, Statuses, Open, ExecState
    <3>2. ExecOK'
      <4>1. ASSUME NEW r \in Rows, NEW pc \in Pcs
            PROVE  [exec[s] EXCEPT !.pc = pc, !.row = r] \in ExecState
        BY <2>e, <1>s DEF ExecState, Pcs
      <4> QED BY <2>5, <2>e, <4>1, MovesTyped DEF Insert, Pcs, Serving, Working
    <3> QED BY <3>1, <3>2
  <2>6. CASE PreflightFails(s)
    BY <2>6, <2>e, MovesTyped DEF PreflightFails, Pcs
  <2>7. CASE Enqueue(s)
    <3>1. Ledgers'
      BY <2>7 DEF Enqueue
    <3>2. ExecOK'
      BY <2>7, <2>e, MovesTyped DEF Enqueue, Pcs
    <3> QED BY <3>1, <3>2
  <2>8. ASSUME NEW r \in Rows, RetryRead(s, r) PROVE Ledgers' /\ ExecOK'
    <3>1. [Idle EXCEPT !.pc = "reset", !.row = r] \in ExecState
      BY DEF Idle, ExecState, Serving, Statuses
    <3> QED BY <2>8, <2>e, <3>1, MovesTyped DEF RetryRead
  <2>9. CASE RetryReset(s)
    <3>1. Ledgers'
      <4>1. "accepted" \in Statuses
        BY DEF Statuses, Open
      <4> QED BY <2>9, <4>1, CountedUp DEF RetryReset
    <3>2. ExecOK'
      BY <2>9, <2>e, MovesTyped DEF RetryReset, Pcs, Serving
    <3> QED BY <3>1, <3>2
  <2> QED BY <1>1, <2>1, <2>2, <2>3, <2>4, <2>5, <2>6, <2>7, <2>8, <2>9 DEF Serve
<1>2. ASSUME NEW w \in Workers, Work(w) PROVE Ledgers' /\ ExecOK'
  <2>e. w \in Executors
    BY DEF Executors
  <2>1. ASSUME NEW r \in Rows, TakeJob(w, r) PROVE Ledgers' /\ ExecOK'
    <3>1. Ledgers'
      BY <2>1 DEF TakeJob
    <3>2. ExecOK'
      <4>0. tries[r] + 1 \in Nat
        OBVIOUS
      <4>1. [Idle EXCEPT !.pc = "load", !.row = r, !.try = tries[r] + 1] \in ExecState
        BY <4>0 DEF Idle, ExecState, Working, Statuses
      <4> QED BY <2>1, <2>e, <4>1, MovesTyped DEF TakeJob
    <3> QED BY <3>1, <3>2
  <2>2. CASE JobFails(w)
    <3>1. Ledgers'
      BY <2>2, <2>e, <1>k DEF JobFails, Working
    <3>2. ExecOK'
      BY <2>2, <2>e, MovesTyped DEF JobFails, Pcs
    <3> QED BY <3>1, <3>2
  <2>3. CASE FinalizeRead(w)
    <3>1. Ledgers'
      BY <2>3, <2>e, <1>k DEF FinalizeRead, Working
    <3>2. ExecOK'
      BY <2>3, <2>e, MovesTyped DEF FinalizeRead, Pcs, Working
    <3> QED BY <3>1, <3>2
  <2>4. CASE FinalizeMark(w)
    <3>1. Ledgers'
      BY <2>4, <2>e, <1>k DEF FinalizeMark, Statuses, Terminal, Working
    <3>2. ExecOK'
      BY <2>4, <2>e, MovesTyped DEF FinalizeMark, Pcs
    <3> QED BY <3>1, <3>2
  <2> QED BY <1>2, <2>1, <2>2, <2>3, <2>4 DEF Work
<1>3. ASSUME NEW e \in Executors, Execute(e) PROVE Ledgers' /\ ExecOK'
  <2>1. CASE Load(e)
    <3>1. Ledgers'
      BY <2>1 DEF Load
    <3>2. ExecOK'
      <4>1. ASSUME NEW x \in Statuses, NEW b \in BOOLEAN
            PROVE  [exec[e] EXCEPT !.pc = "claim", !.seen = x, !.owes = b] \in ExecState
        BY <1>s DEF ExecState, Working
      <4>2. Load(e) => exec[e].row \in Rows
        BY DEF Load, RowInHand, Working
      <4>3. Load(e) => status[exec[e].row] \in Statuses
        BY <4>2
      <4> QED BY <2>1, <4>1, <4>3, MovesTyped DEF Load
    <3> QED BY <3>1, <3>2
  <2>2. CASE Claim(e)
    <3>1. Ledgers'
      BY <2>2 DEF Claim, Statuses, Open
    <3>2. ExecOK'
      <4>1. ASSUME NEW x \in Statuses
            PROVE  [exec[e] EXCEPT !.pc = "run", !.seen = x] \in ExecState
        BY <1>s DEF ExecState, Working
      <4>2. exec[e].seen \in Statuses /\ "processing" \in Statuses
        BY <1>s DEF ExecState, Statuses, Open
      <4>3. (IF exec[e].seen \in Terminal THEN exec[e].seen ELSE "processing") \in Statuses
        BY <4>2
      <4> QED BY <2>2, <4>1, <4>3, MovesTyped DEF Claim
    <3> QED BY <3>1, <3>2
  <2>3. CASE ClaimConflict(e)
    <3>1. Ledgers'
      BY <2>3 DEF ClaimConflict
    <3>2. ExecOK'
      BY <2>3, MovesTyped DEF ClaimConflict, Pcs, Working
    <3> QED BY <3>1, <3>2
  <2>4. CASE ClaimRefused(e)
    <3>1. Ledgers'
      BY <2>4, <1>k DEF ClaimRefused, Working
    <3>2. ExecOK'
      BY <2>4, MovesTyped DEF ClaimRefused, Pcs, Working
    <3> QED BY <3>1, <3>2
  <2>5. CASE NoClient(e)
    <3>1. Ledgers'
      BY <2>5, <1>w, <1>k DEF NoClient, Terminal, Running, Working
    <3>2. ExecOK'
      BY <2>5, MovesTyped DEF NoClient, Pcs
    <3> QED BY <3>1, <3>2
  <2>6. CASE Finish(e)
    <3>1. Ledgers'
      BY <2>6, <1>w DEF Finish, Outcomes, Terminal
    <3>2. ExecOK'
      BY <2>6, MovesTyped DEF Finish, Pcs, Working
    <3> QED BY <3>1, <3>2
  <2>7. CASE Notify(e)
    <3>1. Ledgers'
      BY <2>7, CountedUp DEF Notify
    <3>2. ExecOK'
      BY <2>7, MovesTyped DEF Notify, Pcs, Working
    <3> QED BY <3>1, <3>2
  <2>8. CASE Record(e)
    <3>1. Ledgers'
      BY <2>8 DEF Record
    <3>2. ExecOK'
      BY <2>8, MovesTyped DEF Record, Pcs, Working
    <3> QED BY <3>1, <3>2
  <2>9. CASE Publish(e) \/ Raise(e)
    BY <2>9, <1>k, MovesTyped DEF Publish, Raise, Pcs, Working
  <2> QED BY <1>3, <2>1, <2>2, <2>3, <2>4, <2>5, <2>6, <2>7, <2>8, <2>9 DEF Execute
<1>4. ASSUME NEW s \in Servers, InlineError(s) PROVE Ledgers' /\ ExecOK'
  BY <1>4, MovesTyped DEF InlineError, Pcs, Executors
<1>5. CASE Environment
  <2>1. ASSUME NEW r \in Rows, Age(r) PROVE Ledgers' /\ ExecOK'
    BY <2>1 DEF Age, ExecOK
  <2>2. ASSUME NEW w \in Workers, WorkerLost(w) PROVE Ledgers' /\ ExecOK'
    <3>e. w \in Executors
      BY DEF Executors
    <3>1. jobs' \in [Rows -> Nat] /\ tries' \in [Rows -> Nat] /\ kept' \subseteq Rows
      <4>1. CASE Redeliver(w)
        <5>1. exec[w].try \in Nat
          BY <3>e, <1>s DEF ExecState
        <5> QED BY <4>1, <5>1, CountedUp DEF Redeliver
      <4> QED BY <2>2, <3>e, <1>k, <4>1 DEF WorkerLost
    <3>2. ExecOK'
      BY <2>2, <3>e, MovesTyped DEF WorkerLost, Redeliver
    <3> QED BY <2>2, <3>1, <3>2 DEF WorkerLost
  <2>3. ASSUME NEW s \in Servers, ServerLost(s) PROVE Ledgers' /\ ExecOK'
    <3>1. Ledgers'
      BY <2>3 DEF ServerLost
    <3>2. ExecOK'
      BY <2>3, MovesTyped DEF ServerLost, Pcs, Executors
    <3> QED BY <3>1, <3>2
  <2> QED BY <1>5, <2>1, <2>2, <2>3 DEF Environment
<1>6. CASE UNCHANGED vars
  BY <1>6 DEF vars, ExecOK
<1> QED BY <1>1, <1>2, <1>3, <1>4, <1>5, <1>6 DEF Next

-----------------------------------------------------------------------------
(* What a step can do to a row, and to an executor.                         *)

\* Only these steps write a status or insert a row.
LEMMA StatusSteps ==
    ASSUME [Next]_vars
    PROVE  \/ status' = status /\ call' = call
           \/ \E s \in Servers : Reap(s) \/ Insert(s) \/ RetryReset(s)
           \/ \E w \in Workers : FinalizeMark(w)
           \/ \E e \in Executors : Claim(e) \/ NoClient(e) \/ Finish(e)
PROOF
<1> USE DEF dbVars
<1>1. ASSUME NEW s \in Servers, Serve(s) \/ InlineError(s)
      PROVE  (status' = status /\ call' = call) \/ Reap(s) \/ Insert(s) \/ RetryReset(s)
  BY <1>1 DEF Serve, InlineError, ReceiveFirst, ReceiveReplay, Guard, PreflightFails,
              Enqueue, RetryRead
<1>2. ASSUME NEW w \in Workers, Work(w)
      PROVE  (status' = status /\ call' = call) \/ FinalizeMark(w)
  BY <1>2 DEF Work, TakeJob, JobFails, FinalizeRead
<1>3. ASSUME NEW e \in Executors, Execute(e)
      PROVE  (status' = status /\ call' = call) \/ Claim(e) \/ NoClient(e) \/ Finish(e)
  BY <1>3 DEF Execute, Load, ClaimConflict, ClaimRefused, Notify, Record, Publish, Raise
<1>4. CASE Environment
  BY <1>4 DEF Environment, Age, WorkerLost, ServerLost
<1>5. CASE UNCHANGED vars
  BY <1>5 DEF vars
<1> QED BY <1>1, <1>2, <1>3, <1>4, <1>5 DEF Next

\* A row stays, and stays the row of the request it was inserted for.
LEMMA RowsStay ==
    ASSUME TypeOK, [Next]_vars, NEW r \in Rows, status[r] # "absent"
    PROVE  status'[r] # "absent" /\ call'[r] = call[r]
PROOF
<1> USE DEF TypeOK
<1>1. CASE \E s \in Servers : Reap(s)
  BY <1>1 DEF Reap
<1>2. CASE \E s \in Servers : Insert(s)
  BY <1>2 DEF Insert
<1>3. CASE \E s \in Servers : RetryReset(s)
  BY <1>3 DEF RetryReset
<1>4. CASE \E w \in Workers : FinalizeMark(w)
  BY <1>4 DEF FinalizeMark
<1>5. CASE \E e \in Executors : Claim(e)
  BY <1>5 DEF Claim
<1>6. CASE \E e \in Executors : NoClient(e)
  BY <1>6 DEF NoClient, SetStatus
<1>7. CASE \E e \in Executors : Finish(e)
  BY <1>7 DEF Finish, SetStatus, Outcomes
<1> QED BY <1>1, <1>2, <1>3, <1>4, <1>5, <1>6, <1>7, StatusSteps

\* What a move makes of the executor, and of the others.
LEMMA Moves ==
    ASSUME TypeOK, NEW e \in Executors
    PROVE  /\ \A st : Become(e, st) => /\ exec'[e] = st
                                       /\ \A f \in Executors \ {e} : exec'[f] = exec[f]
           /\ \A pc : GoTo(e, pc) \/ Leave(e, pc) =>
                /\ exec'[e].pc = pc
                /\ exec'[e].row = exec[e].row /\ exec'[e].call = exec[e].call
                /\ \A f \in Executors \ {e} : exec'[f] = exec[f]
           /\ Release(e) \/ EndJob(e) \/ Redeliver(e) =>
                /\ exec'[e].pc = "idle" /\ exec'[e].row = NoRow
                /\ \A f \in Executors \ {e} : exec'[f] = exec[f]
           /\ EndJob(e) => jobs' = jobs /\ tries' = tries
PROOF
<1>1. ASSUME NEW st, Become(e, st)
      PROVE  exec'[e] = st /\ \A f \in Executors \ {e} : exec'[f] = exec[f]
  BY <1>1 DEF Become, TypeOK
<1>2. ASSUME NEW pc, GoTo(e, pc)
      PROVE  /\ exec'[e].pc = pc
             /\ exec'[e].row = exec[e].row /\ exec'[e].call = exec[e].call
             /\ \A f \in Executors \ {e} : exec'[f] = exec[f]
  <2>1. exec'[e] = [exec[e] EXCEPT !.pc = pc] /\ \A f \in Executors \ {e} : exec'[f] = exec[f]
    BY <1>1, <1>2 DEF GoTo
  <2>2. exec[e] \in ExecState
    BY DEF TypeOK
  <2> QED BY <2>1, <2>2 DEF ExecState
<1>3. ASSUME NEW pc, Leave(e, pc)
      PROVE  /\ exec'[e].pc = pc
             /\ exec'[e].row = exec[e].row /\ exec'[e].call = exec[e].call
             /\ \A f \in Executors \ {e} : exec'[f] = exec[f]
  <2>1. /\ exec'[e] = [exec[e] EXCEPT !.pc = pc, !.seen = "absent"]
        /\ \A f \in Executors \ {e} : exec'[f] = exec[f]
    BY <1>1, <1>3 DEF Leave
  <2>2. exec[e] \in ExecState
    BY DEF TypeOK
  <2> QED BY <2>1, <2>2 DEF ExecState
<1>4. Release(e) => /\ exec'[e].pc = "idle" /\ exec'[e].row = NoRow
                    /\ \A f \in Executors \ {e} : exec'[f] = exec[f]
  BY <1>1 DEF Release, Idle
<1>5. /\ EndJob(e) => Release(e) /\ jobs' = jobs /\ tries' = tries
      /\ Redeliver(e) => Release(e)
  BY DEF EndJob, Redeliver, queueVars
<1> QED BY <1>1, <1>2, <1>3, <1>4, <1>5

\* The moves of an executor, as far as the invariants tell them apart: it does
\* not move, it is done, it goes on with what it has, or it takes up something.
GoesOn(e) ==
    /\ exec'[e].row = exec[e].row /\ exec'[e].call = exec[e].call
    /\ \/ exec[e].pc \in Working /\ exec'[e].pc \in Working \ {"load", "run", "mark"}
       \/ Claim(e) /\ exec'[e].pc = "run"
       \/ e \in Workers /\ FinalizeRead(e) /\ exec'[e].pc = "mark"
                        /\ status[exec[e].row] \notin Terminal
       \/ /\ e \in Servers /\ exec[e].pc \in {"reap", "guard"}
          /\ exec'[e].pc \in {"guard", "insert"}
       \/ e \in Servers /\ RetryReset(e) /\ exec'[e].pc = "enqueue"

TakesUp(e) ==
    \/ /\ e \in Servers /\ exec[e] = Idle /\ exec'[e].pc = "reap"
       /\ exec'[e].call \in Calls /\ exec'[e].row = NoRow
    \/ /\ e \in Servers
       /\ \E r \in Rows :
            /\ exec'[e].row = r
            /\ \/ /\ status[r] = "accepted" /\ status' = status /\ call' = call
                  /\ exec'[e].pc = IF call[r].dry THEN "load" ELSE "enqueue"
               \/ /\ Insert(e) /\ status'[r] = "accepted"
                  /\ exec'[e].pc = IF call'[r].dry THEN "load" ELSE "enqueue"
               \/ RetryRead(e, r) /\ exec'[e].pc = "reset"
    \/ /\ e \in Workers
       /\ \E r \in Rows : TakeJob(e, r) /\ exec'[e].row = r /\ exec'[e].pc = "load"

Moved(e) ==
    \/ exec'[e] = exec[e]
    \/ exec'[e].pc = "idle" /\ exec'[e].row = NoRow
    \/ GoesOn(e)
    \/ TakesUp(e)

\* Every step moves at most one executor, in one of four ways.
LEMMA EveryMove ==
    ASSUME TypeOK, [Next]_vars, NEW f \in Executors
    PROVE  Moved(f)
PROOF
<1> USE DEF Moved
<1>s. Servers \subseteq Executors /\ Workers \subseteq Executors
  BY DEF Executors
<1>1. ASSUME NEW s \in Servers, Serve(s) PROVE Moved(f)
  <2>1. ASSUME NEW c \in Calls, ReceiveFirst(s, c) PROVE Moved(f)
    <3>1. /\ exec'[s] = [Idle EXCEPT !.pc = "reap", !.call = c]
          /\ \A x \in Executors \ {s} : exec'[x] = exec[x]
      BY <2>1, <1>s, Moves DEF ReceiveFirst
    <3>2. exec'[s].pc = "reap" /\ exec'[s].call = c /\ exec'[s].row = NoRow
      BY <3>1 DEF Idle
    <3> QED BY <2>1, <3>1, <3>2 DEF TakesUp, ReceiveFirst
  <2>2. ASSUME NEW c \in Calls, ReceiveReplay(s, c) PROVE Moved(f)
    <3>1. PICK r \in Rows :
            /\ call[r] = c /\ status[r] = "accepted"
            /\ Become(s, [Idle EXCEPT !.pc = IF c.dry THEN "load" ELSE "enqueue",
                                      !.call = c, !.row = r])
      BY <2>2 DEF ReceiveReplay
    <3>2. /\ exec'[s] = [Idle EXCEPT !.pc = IF c.dry THEN "load" ELSE "enqueue",
                                     !.call = c, !.row = r]
          /\ \A x \in Executors \ {s} : exec'[x] = exec[x]
      BY <3>1, <1>s, Moves
    <3>3. exec'[s].pc = (IF call[r].dry THEN "load" ELSE "enqueue") /\ exec'[s].row = r
      BY <3>1, <3>2 DEF Idle
    <3>4. status' = status /\ call' = call
      BY <2>2 DEF ReceiveReplay, dbVars
    <3> QED BY <3>1, <3>2, <3>3, <3>4 DEF TakesUp
  <2>3. CASE Reap(s)
    BY <2>3, <1>s, Moves DEF Reap, GoesOn
  <2>4. CASE Guard(s)
    BY <2>4, <1>s, Moves DEF Guard, GoesOn
  <2>5. CASE Insert(s)
    <3>1. PICK r \in Rows :
            /\ status[r] = "absent" /\ status' = [status EXCEPT ![r] = "accepted"]
            /\ call' = [call EXCEPT ![r] = exec[s].call]
            /\ Become(s, [exec[s] EXCEPT !.pc = IF exec[s].call.dry THEN "load" ELSE "enqueue",
                                         !.row = r])
      BY <2>5 DEF Insert
    <3>2. status'[r] = "accepted" /\ call'[r] = exec[s].call
      BY <3>1 DEF TypeOK
    <3>3. /\ exec'[s] = [exec[s] EXCEPT !.pc = IF exec[s].call.dry THEN "load" ELSE "enqueue",
                                        !.row = r]
          /\ \A x \in Executors \ {s} : exec'[x] = exec[x]
      BY <3>1, <1>s, Moves
    <3>4. exec[s] \in ExecState
      BY <1>s DEF TypeOK
    <3>5. exec'[s].pc = (IF call'[r].dry THEN "load" ELSE "enqueue") /\ exec'[s].row = r
      BY <3>2, <3>3, <3>4 DEF ExecState
    <3> QED BY <2>5, <3>2, <3>3, <3>5 DEF TakesUp
  <2>6. CASE PreflightFails(s) \/ Enqueue(s)
    BY <2>6, <1>s, Moves DEF PreflightFails, Enqueue
  <2>7. ASSUME NEW r \in Rows, RetryRead(s, r) PROVE Moved(f)
    <3>1. /\ exec'[s] = [Idle EXCEPT !.pc = "reset", !.row = r]
          /\ \A x \in Executors \ {s} : exec'[x] = exec[x]
      BY <2>7, <1>s, Moves DEF RetryRead
    <3>2. exec'[s].pc = "reset" /\ exec'[s].row = r
      BY <3>1 DEF Idle
    <3> QED BY <2>7, <3>1, <3>2 DEF TakesUp
  <2>8. CASE RetryReset(s)
    BY <2>8, <1>s, Moves DEF RetryReset, GoesOn
  <2> QED BY <1>1, <2>1, <2>2, <2>3, <2>4, <2>5, <2>6, <2>7, <2>8 DEF Serve
<1>2. ASSUME NEW w \in Workers, Work(w) PROVE Moved(f)
  <2>1. ASSUME NEW r \in Rows, TakeJob(w, r) PROVE Moved(f)
    <3>1. /\ exec'[w] = [Idle EXCEPT !.pc = "load", !.row = r, !.try = tries[r] + 1]
          /\ \A x \in Executors \ {w} : exec'[x] = exec[x]
      BY <2>1, <1>s, Moves DEF TakeJob
    <3>2. exec'[w].pc = "load" /\ exec'[w].row = r
      BY <3>1 DEF Idle
    <3> QED BY <2>1, <3>1, <3>2 DEF TakesUp
  <2>2. CASE JobFails(w) \/ FinalizeMark(w)
    BY <2>2, <1>s, Moves DEF JobFails, FinalizeMark
  <2>3. CASE FinalizeRead(w)
    BY <2>3, <1>s, Moves DEF FinalizeRead, GoesOn
  <2> QED BY <1>2, <2>1, <2>2, <2>3 DEF Work
<1>3. ASSUME NEW e \in Executors, Execute(e) PROVE Moved(f)
  <2>1. CASE Load(e)
    <3>1. /\ exec'[e] = [exec[e] EXCEPT !.pc = "claim", !.seen = status[exec[e].row],
                                        !.owes = callback[exec[e].row] = "pending"]
          /\ \A x \in Executors \ {e} : exec'[x] = exec[x]
      BY <2>1, Moves DEF Load
    <3>2. exec[e] \in ExecState
      BY DEF TypeOK
    <3>3. exec'[e].pc = "claim" /\ exec'[e].row = exec[e].row /\ exec'[e].call = exec[e].call
      BY <3>1, <3>2 DEF ExecState
    <3> QED BY <2>1, <3>1, <3>3 DEF Load, GoesOn, Working
  <2>2. CASE Claim(e)
    <3>1. /\ exec'[e] = [exec[e] EXCEPT !.pc = "run",
                            !.seen = IF @ \in Terminal THEN @ ELSE "processing"]
          /\ \A x \in Executors \ {e} : exec'[x] = exec[x]
      BY <2>2, Moves DEF Claim
    <3>2. exec[e] \in ExecState
      BY DEF TypeOK
    <3>3. exec'[e].pc = "run" /\ exec'[e].row = exec[e].row /\ exec'[e].call = exec[e].call
      BY <3>1, <3>2 DEF ExecState
    <3> QED BY <2>2, <3>1, <3>3 DEF GoesOn
  <2>3. CASE ClaimConflict(e) \/ ClaimRefused(e)
    BY <2>3, Moves DEF ClaimConflict, ClaimRefused, GoesOn, Working
  <2>4. CASE NoClient(e) \/ Publish(e)
    BY <2>4, Moves DEF NoClient, Publish
  <2>5. CASE Finish(e)
    BY <2>5, Moves DEF Finish, Running, GoesOn, Working
  <2>6. CASE Notify(e) \/ Record(e) \/ Raise(e)
    BY <2>6, Moves DEF Notify, Record, Raise, GoesOn, Working
  <2> QED BY <1>3, <2>1, <2>2, <2>3, <2>4, <2>5, <2>6 DEF Execute
<1>4. ASSUME NEW s \in Servers, InlineError(s) \/ ServerLost(s) PROVE Moved(f)
  BY <1>4, <1>s, Moves DEF InlineError, ServerLost
<1>5. ASSUME NEW w \in Workers, WorkerLost(w) PROVE Moved(f)
  BY <1>5, <1>s, Moves DEF WorkerLost
<1>6. CASE \E r \in Rows : Age(r)
  BY <1>6 DEF Age
<1>7. CASE UNCHANGED vars
  BY <1>7 DEF vars
<1> QED BY <1>1, <1>2, <1>3, <1>4, <1>5, <1>6, <1>7 DEF Next, Environment

-----------------------------------------------------------------------------
(* What holds in every deployment, whatever the queue and the timing.       *)

Sound == TypeOK /\ RowInHand /\ CallInHand /\ Recorded /\ ServersPreview /\ IndexUnique

\* Only these steps touch the queue.
LEMMA JobSteps ==
    ASSUME [Next]_vars
    PROVE  \/ jobs' = jobs
           \/ \E s \in Servers : Enqueue(s)
           \/ \E w \in Workers, r \in Rows : TakeJob(w, r)
           \/ \E w \in Workers : exec[w].pc \in Working /\ Redeliver(w) /\ Release(w)
PROOF
<1> USE DEF queueVars, jobVars
<1>1. ASSUME NEW s \in Servers, Serve(s) \/ InlineError(s)
      PROVE  jobs' = jobs \/ Enqueue(s)
  BY <1>1 DEF Serve, InlineError, ReceiveFirst, ReceiveReplay, Reap, Guard, Insert,
              PreflightFails, RetryRead, RetryReset
<1>2. ASSUME NEW w \in Workers, Work(w)
      PROVE  \/ jobs' = jobs \/ \E r \in Rows : TakeJob(w, r)
             \/ exec[w].pc \in Working /\ Redeliver(w) /\ Release(w)
  BY <1>2 DEF Work, JobFails, FinalizeRead, FinalizeMark, EndJob
<1>3. ASSUME NEW e \in Executors, Execute(e) PROVE jobs' = jobs
  BY <1>3 DEF Execute, Load, Claim, ClaimConflict, ClaimRefused, NoClient, Finish,
              Notify, Record, Publish, Raise, EndJob
<1>4. CASE Environment
  BY <1>4 DEF Environment, Age, WorkerLost, ServerLost, EndJob, Redeliver
<1>5. CASE UNCHANGED vars
  BY <1>5 DEF vars
<1> QED BY <1>1, <1>2, <1>3, <1>4, <1>5 DEF Next

\* Only the job of a row puts it among those whose result is kept, and an
\* insert does not.
LEMMA KeptSteps ==
    ASSUME [Next]_vars
    PROVE  \/ kept' = kept
           \/ \E w \in Workers : exec[w].pc \in Working /\ kept' = kept \cup {exec[w].row}
PROOF
<1> USE DEF jobVars
<1>k. ASSUME NEW e \in Executors, EndJob(e)
      PROVE  kept' = kept \/ (e \in Workers /\ kept' = kept \cup {exec[e].row})
  BY <1>k DEF EndJob
<1>s. Workers \subseteq Executors
  BY DEF Executors
<1>1. ASSUME NEW s \in Servers, Serve(s) \/ InlineError(s) PROVE kept' = kept
  BY <1>1 DEF Serve, InlineError, ReceiveFirst, ReceiveReplay, Reap, Guard, Insert,
              PreflightFails, Enqueue, RetryRead, RetryReset
<1>2. ASSUME NEW w \in Workers, Work(w)
      PROVE  kept' = kept \/ (exec[w].pc \in Working /\ kept' = kept \cup {exec[w].row})
  BY <1>k, <1>s, <1>2 DEF Work, TakeJob, JobFails, FinalizeRead, FinalizeMark, Working
<1>3. ASSUME NEW e \in Executors, Execute(e)
      PROVE  \/ kept' = kept
             \/ e \in Workers /\ exec[e].pc \in Working /\ kept' = kept \cup {exec[e].row}
  BY <1>k, <1>3 DEF Execute, Load, Claim, ClaimConflict, ClaimRefused, NoClient, Finish,
                    Notify, Record, Publish, Raise, Running, Working
<1>4. CASE Environment
  BY <1>k, <1>s, <1>4 DEF Environment, Age, WorkerLost, ServerLost, Redeliver
<1>5. CASE UNCHANGED vars
  BY <1>5 DEF vars
<1> QED BY <1>1, <1>2, <1>3, <1>4, <1>5 DEF Next

\* What an executor has in hand was read from the table or just inserted.
LEMMA RowInHandStep ==
    ASSUME Sound, [Next]_vars
    PROVE  RowInHand'
PROOF
<1> SUFFICES ASSUME NEW e \in Executors, exec'[e].pc \in Working \cup {"enqueue", "reset"}
             PROVE  exec'[e].row \in Rows /\ status'[exec'[e].row] # "absent"
  BY DEF RowInHand
<1> USE DEF Sound
<1>1. Moved(e)
  BY EveryMove
<1> DEFINE SameRow == exec'[e].row = exec[e].row /\ exec[e].pc \in Working \cup {"enqueue", "reset"}
<1>2. CASE SameRow
  BY <1>2, RowsStay DEF RowInHand
<1>3. exec'[e] = exec[e] \/ GoesOn(e) => SameRow
  BY DEF GoesOn, Claim, FinalizeRead, RetryReset, Working
<1>4. CASE TakesUp(e)
  <2>1. CASE \E r \in Rows : TakeJob(e, r) /\ exec'[e].row = r
    BY <2>1, RowsStay DEF TakeJob, Recorded
  <2>2. CASE \E r \in Rows : RetryRead(e, r) /\ exec'[e].row = r
    BY <2>2, RowsStay DEF RetryRead
  <2> QED BY <1>4, <2>1, <2>2 DEF TakesUp, Working
<1> QED BY <1>1, <1>2, <1>3, <1>4 DEF Moved, Working

\* A request handler before the insert has a request in hand.
LEMMA CallInHandStep ==
    ASSUME Sound, [Next]_vars
    PROVE  CallInHand'
PROOF
<1> SUFFICES ASSUME NEW s \in Servers, exec'[s].pc \in {"reap", "guard", "insert"}
             PROVE  exec'[s].call \in Calls
  BY DEF CallInHand
<1>1. Moved(s)
  BY EveryMove DEF Sound, Executors
<1> QED BY <1>1 DEF Moved, GoesOn, TakesUp, CallInHand, Sound, Working

\* Only rows that were inserted are known and queued.
LEMMA RecordedStep ==
    ASSUME Sound, [Next]_vars
    PROVE  Recorded'
PROOF
<1> USE DEF Sound
<1>1. ASSUME NEW r \in Rows, status'[r] # "absent" PROVE call'[r] \in Calls
  <2>1. CASE status[r] # "absent"
    BY <2>1, RowsStay DEF Recorded
  <2>2. CASE \E s \in Servers : Insert(s)
    <3>1. PICK s \in Servers : Insert(s)
      BY <2>2
    <3>2. exec[s].call \in Calls
      BY <3>1 DEF Insert, CallInHand
    <3> QED BY <1>1, <2>1, <3>1, <3>2 DEF Insert, TypeOK
  <2>3. CASE status[r] = "absent" /\ ~(\E s \in Servers : Insert(s))
    <3>1. CASE status' = status /\ call' = call
      BY <1>1, <2>3, <3>1
    <3>2. CASE \E s \in Servers : Reap(s)
      BY <1>1, <2>3, <3>2 DEF Reap, Orphans, Open, TypeOK
    <3>3. CASE \E s \in Servers : RetryReset(s)
      <4>1. PICK s \in Servers : RetryReset(s)
        BY <3>3
      <4>2. exec[s].row # r
        BY <2>3, <4>1 DEF RetryReset, RowInHand, Executors
      <4> QED BY <1>1, <2>3, <4>1, <4>2 DEF RetryReset, TypeOK
    <3>4. CASE \E w \in Workers : FinalizeMark(w)
      <4>1. PICK w \in Workers : FinalizeMark(w)
        BY <3>4
      <4>2. exec[w].row # r
        BY <2>3, <4>1 DEF FinalizeMark, RowInHand, Executors, Working
      <4> QED BY <1>1, <2>3, <4>1, <4>2 DEF FinalizeMark, TypeOK
    <3>5. CASE \E e \in Executors : Claim(e) \/ NoClient(e) \/ Finish(e)
      <4>1. PICK e \in Executors : Claim(e) \/ NoClient(e) \/ Finish(e)
        BY <3>5
      <4>2. exec[e].row # r
        BY <2>3, <4>1 DEF Claim, NoClient, Finish, Running, RowInHand, Working
      <4> QED BY <1>1, <2>3, <4>1, <4>2 DEF Claim, NoClient, Finish, SetStatus, TypeOK
    <3> QED BY <2>3, <3>1, <3>2, <3>3, <3>4, <3>5, StatusSteps
  <2> QED BY <2>1, <2>2, <2>3
<1>2. ASSUME NEW r \in Rows, jobs'[r] > 0 PROVE status'[r] # "absent"
  <2>1. CASE jobs[r] > 0
    BY <2>1, RowsStay DEF Recorded
  <2>2. CASE \E s \in Servers : Enqueue(s) /\ exec[s].row = r
    BY <2>2, RowsStay DEF Enqueue, RowInHand, Executors
  <2>3. CASE \E w \in Workers : exec[w].pc \in Working /\ exec[w].row = r
    BY <2>3, RowsStay DEF RowInHand, Executors
  <2>4. CASE \E s \in Servers : Enqueue(s) /\ exec[s].row # r
    BY <1>2, <2>1, <2>4 DEF Enqueue, TypeOK
  <2>5. CASE \E w \in Workers, q \in Rows : TakeJob(w, q)
    BY <1>2, <2>1, <2>5 DEF TakeJob, TypeOK
  <2>6. CASE \E w \in Workers : Redeliver(w) /\ exec[w].row # r
    BY <1>2, <2>1, <2>6 DEF Redeliver, TypeOK
  <2> QED BY <1>2, <2>1, <2>2, <2>3, <2>4, <2>5, <2>6, JobSteps
<1>3. ASSUME NEW r \in Rows, r \in kept' PROVE status'[r] # "absent"
  BY <1>3, KeptSteps, RowsStay DEF Recorded, RowInHand, Executors
<1> QED BY <1>1, <1>2, <1>3 DEF Recorded

\* A request handler goes on to execute dry runs only.
LEMMA ServersPreviewStep ==
    ASSUME Sound, [Next]_vars
    PROVE  ServersPreview'
PROOF
<1> SUFFICES ASSUME NEW s \in Servers, exec'[s].pc \in Working
             PROVE  call'[exec'[s].row].dry
  BY DEF ServersPreview
<1> USE DEF Sound
<1>1. Moved(s) /\ s \in Executors /\ s \notin Workers
  BY EveryMove, ConstantsAssumption DEF Executors
<1> DEFINE SameRow == exec[s].pc \in Working /\ exec'[s].row = exec[s].row
<1>2. CASE SameRow
  BY <1>1, <1>2, RowsStay DEF RowInHand, ServersPreview
<1>3. exec'[s] = exec[s] \/ GoesOn(s) => SameRow
  BY <1>1 DEF GoesOn, Claim, Working
<1>4. CASE TakesUp(s)
  BY <1>1, <1>4 DEF TakesUp, Working
<1> QED BY <1>1, <1>2, <1>3, <1>4 DEF Moved, Working

\* The unique index: a claim is the only way into 'processing'.
LEMMA IndexUniqueStep ==
    ASSUME Sound, [Next]_vars
    PROVE  IndexUnique'
PROOF
<1> USE DEF Sound
<1>1. CASE \E e \in Executors : Claim(e)
  <2>1. PICK e \in Executors : Claim(e)
    BY <1>1
  <2>2. exec[e].row \in Rows /\ call' = call
    BY <2>1 DEF Claim, RowInHand, Working
  <2>3. \A q \in Rows : status[q] = "processing" => call[q].slot # call[exec[e].row].slot
    BY <2>1 DEF Claim, SlotBusy, RowsOf
  <2>4. status' = [status EXCEPT ![exec[e].row] = "processing"]
    BY <2>1 DEF Claim
  <2> QED BY <2>2, <2>3, <2>4 DEF IndexUnique, TypeOK
<1>2. ASSUME NEW r \in Rows, status'[r] = "processing", ~(\E e \in Executors : Claim(e))
      PROVE  status[r] = "processing"
  <2>1. CASE status' = status
    BY <1>2, <2>1
  <2>2. CASE \E s \in Servers : Reap(s) \/ Insert(s) \/ RetryReset(s)
    BY <1>2, <2>2 DEF Reap, Insert, RetryReset, TypeOK
  <2>3. CASE \E w \in Workers : FinalizeMark(w)
    BY <1>2, <2>3 DEF FinalizeMark, TypeOK
  <2>4. CASE \E e \in Executors : NoClient(e) \/ Finish(e)
    BY <1>2, <2>4 DEF NoClient, Finish, SetStatus, Outcomes, TypeOK
  <2> QED BY <1>2, <2>1, <2>2, <2>3, <2>4, StatusSteps
<1>3. CASE ~(\E e \in Executors : Claim(e))
  <2>1. \A r \in Rows : status'[r] = "processing" => status[r] = "processing" /\ call'[r] = call[r]
    BY <1>2, <1>3, RowsStay
  <2> QED BY <2>1 DEF IndexUnique
<1> QED BY <1>1, <1>3

\* The initial state has no rows, jobs or busy executors.
LEMMA SoundInit == Init => Sound
PROOF
<1> SUFFICES ASSUME Init PROVE Sound
  OBVIOUS
<1> USE DEF Init
<1>1. TypeOK
  BY DEF TypeOK, Statuses, ExecState, Idle
<1>2. \A e \in Executors : exec[e].pc = "idle"
  BY DEF Idle
<1>3. RowInHand /\ CallInHand /\ ServersPreview
  BY <1>2 DEF RowInHand, CallInHand, ServersPreview, Working, Executors
<1>4. Recorded /\ IndexUnique
  BY DEF Recorded, IndexUnique
<1> QED BY <1>1, <1>3, <1>4 DEF Sound

\* The parts of Sound together are inductive.
LEMMA SoundStep == Sound /\ [Next]_vars => Sound'
PROOF
<1> SUFFICES ASSUME Sound, [Next]_vars PROVE Sound'
  OBVIOUS
<1>1. TypeOK'
  BY Typing DEF Sound
<1> QED BY <1>1, RowInHandStep, CallInHandStep, RecordedStep, ServersPreviewStep,
           IndexUniqueStep DEF Sound

\* What is true of every deployment: rows, jobs and executors agree with each
\* other, and at most one row of a slot is 'processing'.
THEOREM SoundAlways == Spec => []Sound
BY SoundInit, SoundStep, PTL DEF Spec

\* The variables keep their types.
THEOREM TypeCorrect == Spec => []TypeOK
PROOF
<1>1. Sound => TypeOK
  BY DEF Sound
<1> QED BY <1>1, SoundAlways, PTL

-----------------------------------------------------------------------------
(* What a row's first run leaves behind, in every deployment.               *)

\* Only its own steps move an executor.
LEMMA OwnSteps ==
    ASSUME TypeOK, [Next]_vars, NEW f \in Executors
    PROVE  \/ exec'[f] = exec[f]
           \/ Execute(f)
           \/ f \in Workers /\ (Work(f) \/ WorkerLost(f))
           \/ f \in Servers /\ (Serve(f) \/ InlineError(f) \/ ServerLost(f))
PROOF
<1>s. Servers \subseteq Executors /\ Workers \subseteq Executors
  BY DEF Executors
<1>1. ASSUME NEW s \in Servers, Serve(s) \/ InlineError(s) \/ ServerLost(s), f # s
      PROVE  exec'[f] = exec[f]
  BY <1>s, <1>1, Moves DEF Serve, ReceiveFirst, ReceiveReplay, Reap, Guard, Insert,
     PreflightFails, Enqueue, RetryRead, RetryReset, InlineError, ServerLost
<1>2. ASSUME NEW w \in Workers, Work(w) \/ WorkerLost(w), f # w
      PROVE  exec'[f] = exec[f]
  BY <1>s, <1>2, Moves DEF Work, TakeJob, JobFails, FinalizeRead, FinalizeMark, WorkerLost
<1>3. ASSUME NEW e \in Executors, Execute(e), f # e
      PROVE  exec'[f] = exec[f]
  BY <1>3, Moves DEF Execute, Load, Claim, ClaimConflict, ClaimRefused, NoClient, Finish,
     Notify, Record, Publish, Raise
<1>4. CASE (\E r \in Rows : Age(r)) \/ UNCHANGED vars
  BY <1>4 DEF Age, vars
<1> QED BY <1>1, <1>2, <1>3, <1>4 DEF Next, Environment

\* How the status of one row changes.
LEMMA StatusMoves ==
    ASSUME TypeOK, [Next]_vars, NEW r \in Rows
    PROVE  \/ status'[r] = status[r]
           \/ status'[r] = "failed"
           \/ /\ status[r] = "absent"
              /\ \E s \in Servers : Insert(s) /\ exec'[s].row = r
                                    /\ exec'[s].pc = IF call'[r].dry THEN "load" ELSE "enqueue"
           \/ \E s \in Servers : RetryReset(s) /\ exec[s].row = r
           \/ \E e \in Executors : Claim(e) /\ exec[e].row = r
           \/ status'[r] \in Terminal
              /\ \E e \in Executors : Finish(e) /\ exec[e].row = r
PROOF
<1> USE DEF TypeOK
<1>1. CASE \E s \in Servers : Reap(s)
  BY <1>1 DEF Reap
<1>2. ASSUME NEW s \in Servers, Insert(s)
      PROVE  \/ status'[r] = status[r]
             \/ /\ status[r] = "absent" /\ exec'[s].row = r
                /\ exec'[s].pc = IF call'[r].dry THEN "load" ELSE "enqueue"
  <2>1. PICK q \in Rows :
          /\ status[q] = "absent" /\ status' = [status EXCEPT ![q] = "accepted"]
          /\ call' = [call EXCEPT ![q] = exec[s].call]
          /\ Become(s, [exec[s] EXCEPT !.pc = IF exec[s].call.dry THEN "load" ELSE "enqueue",
                                       !.row = q])
    BY <1>2 DEF Insert
  <2>2. s \in Executors /\ exec[s] \in ExecState
    BY DEF Executors
  <2>3. exec'[s] = [exec[s] EXCEPT !.pc = IF exec[s].call.dry THEN "load" ELSE "enqueue",
                                   !.row = q]
    BY <2>1, <2>2, Moves
  <2>4. exec'[s].row = q /\ exec'[s].pc = IF exec[s].call.dry THEN "load" ELSE "enqueue"
    BY <2>2, <2>3 DEF ExecState
  <2> QED BY <2>1, <2>4
<1>3. ASSUME NEW s \in Servers, RetryReset(s)
      PROVE  status'[r] = status[r] \/ exec[s].row = r
  BY <1>3 DEF RetryReset
<1>4. CASE \E w \in Workers : FinalizeMark(w)
  BY <1>4 DEF FinalizeMark
<1>5. ASSUME NEW e \in Executors, Claim(e)
      PROVE  status'[r] = status[r] \/ exec[e].row = r
  BY <1>5 DEF Claim
<1>6. CASE \E e \in Executors : NoClient(e)
  BY <1>6 DEF NoClient, SetStatus
<1>7. ASSUME NEW e \in Executors, Finish(e)
      PROVE  status'[r] = status[r] \/ (exec[e].row = r /\ status'[r] \in Terminal)
  BY <1>7 DEF Finish, SetStatus, Outcomes, Terminal
<1> QED BY <1>1, <1>2, <1>3, <1>4, <1>5, <1>6, <1>7, StatusSteps

\* Only the writing half of an administrator's retry counts as one, and
\* faults are counted up.
LEMMA RetriesCount ==
    ASSUME TypeOK, [Next]_vars
    PROVE  /\ faults' \in Nat /\ faults <= faults'
           /\ \/ retried' = retried
              \/ \E s \in Servers : RetryReset(s)
PROOF
<1> USE DEF ghostVars
<1>1. ASSUME NEW s \in Servers, Serve(s) \/ InlineError(s)
      PROVE  faults' = faults /\ (retried' = retried \/ RetryReset(s))
  BY <1>1 DEF Serve, InlineError, ReceiveFirst, ReceiveReplay, Reap, Guard, Insert,
              PreflightFails, Enqueue, RetryRead, RetryReset
<1>2. ASSUME NEW w \in Workers, Work(w)
      PROVE  faults' = faults /\ retried' = retried
  BY <1>2 DEF Work, TakeJob, JobFails, FinalizeRead, FinalizeMark
<1>3. ASSUME NEW e \in Executors, Execute(e)
      PROVE  faults' = faults /\ retried' = retried
  BY <1>3 DEF Execute, Load, Claim, ClaimConflict, ClaimRefused, NoClient, Finish,
              Notify, Record, Publish, Raise
<1>4. CASE Environment
  BY <1>4 DEF Environment, Age, WorkerLost, ServerLost, TypeOK
<1>5. CASE UNCHANGED vars
  BY <1>5 DEF vars, TypeOK
<1>6. faults \in Nat
  BY DEF TypeOK
<1> QED BY <1>1, <1>2, <1>3, <1>4, <1>5, <1>6 DEF Next

\* A row that has not been retried was not retried before.
LEMMA NotRetried ==
    ASSUME TypeOK, [Next]_vars, NEW r \in Rows, retried'[r] = 0
    PROVE  /\ retried[r] = 0
           /\ \A s \in Servers : RetryReset(s) => exec[s].row # r
PROOF
<1>1. ASSUME NEW s \in Servers, RetryReset(s) PROVE retried[r] = 0 /\ exec[s].row # r
  BY <1>1 DEF RetryReset, TypeOK
<1> QED BY <1>1, RetriesCount

\* A result stays until a retry.
LEMMA TerminalStays ==
    ASSUME TypeOK, [Next]_vars, NEW r \in Rows, retried'[r] = 0, status[r] \in Terminal
    PROVE  status'[r] \in Terminal
BY StatusMoves, NotRetried DEF Claim, Terminal

\* What the first execution of a live row ends with is written.
LEMMA FirstRunWritesStep ==
    ASSUME Sound, FirstRunWrites, [Next]_vars
    PROVE  FirstRunWrites'
PROOF
<1> USE DEF Sound
<1> SUFFICES ASSUME NEW w \in Workers, NEW r \in Rows,
                    exec'[w].row = r, IsLive(r)', retried'[r] = 0,
                    exec'[w].pc \in {"claim", "run", "notify", "record", "publish"}
             PROVE  /\ exec'[w].pc = "claim" /\ exec'[w].seen \in Terminal => status'[r] \in Terminal
                    /\ exec'[w].pc = "run" => exec'[w].seen = "processing"
                    /\ exec'[w].pc \in {"notify", "record", "publish"} => status'[r] \in Terminal
  BY DEF FirstRunWrites
<1>e. w \in Executors /\ w \notin Servers /\ exec[w] \in ExecState
  BY ConstantsAssumption DEF Executors, TypeOK
<1>r. retried[r] = 0
  BY NotRetried
<1>b. ASSUME exec[w].row = r, exec[w].pc \in Working
      PROVE  /\ IsLive(r)
             /\ exec[w].pc = "claim" /\ exec[w].seen \in Terminal => status[r] \in Terminal
             /\ exec[w].pc = "run" => exec[w].seen = "processing"
             /\ exec[w].pc \in {"notify", "record", "publish"} => status[r] \in Terminal
  <2>1. IsLive(r)
    BY <1>b, <1>e, RowsStay DEF RowInHand, IsLive
  <2> QED BY <1>b, <1>r, <2>1 DEF FirstRunWrites
<1>1. CASE exec'[w] = exec[w]
  BY <1>1, <1>b, TerminalStays DEF Working
<1>2. CASE Work(w) \/ WorkerLost(w)
  <2>1. ASSUME NEW q \in Rows, TakeJob(w, q) PROVE FALSE
    <3>1. exec'[w] = [Idle EXCEPT !.pc = "load", !.row = q, !.try = tries[q] + 1]
      BY <1>e, <2>1, Moves DEF TakeJob
    <3> QED BY <3>1 DEF Idle
  <2> QED BY <1>2, <1>e, <2>1, Moves DEF Work, JobFails, FinalizeRead, FinalizeMark, WorkerLost
<1>3. CASE Execute(w)
  <2>1. CASE Load(w)
    <3>1. exec'[w] = [exec[w] EXCEPT !.pc = "claim", !.seen = status[exec[w].row],
                                     !.owes = callback[exec[w].row] = "pending"]
      BY <1>e, <2>1, Moves DEF Load
    <3>2. exec'[w].pc = "claim" /\ exec'[w].row = exec[w].row /\ exec'[w].seen = status[exec[w].row]
      BY <1>e, <3>1 DEF ExecState
    <3> QED BY <2>1, <3>2 DEF Load, dbVars
  <2>2. CASE Claim(w)
    <3>1. exec'[w] = [exec[w] EXCEPT !.pc = "run",
                          !.seen = IF exec[w].seen \in Terminal THEN exec[w].seen ELSE "processing"]
      BY <1>e, <2>2, Moves DEF Claim
    <3>2. /\ exec'[w].pc = "run" /\ exec'[w].row = exec[w].row
          /\ exec'[w].seen = IF exec[w].seen \in Terminal THEN exec[w].seen ELSE "processing"
      BY <1>e, <3>1 DEF ExecState
    <3>3. exec[w].seen \notin Terminal
      BY <1>b, <2>2, <3>2 DEF Claim, Working, Terminal
    <3> QED BY <3>2, <3>3
  <2>3. CASE ClaimConflict(w) \/ ClaimRefused(w) \/ NoClient(w) \/ Publish(w) \/ Raise(w)
    BY <1>e, <2>3, Moves DEF ClaimConflict, ClaimRefused, NoClient, Publish, Raise
  <2>4. CASE Finish(w)
    <3>1. /\ exec[w].pc = "run" /\ exec'[w].row = exec[w].row
          /\ exec'[w].pc \in {"notify", "publish"}
      BY <1>e, <2>4, Moves DEF Finish, Running
    <3>2. exec[w].seen = "processing"
      BY <1>b, <3>1 DEF Working
    <3>3. status'[r] \in Terminal
      BY <2>4, <3>1, <3>2 DEF Finish, SetStatus, Outcomes, Terminal, TypeOK
    <3> QED BY <3>1, <3>3
  <2>5. CASE Notify(w) \/ Record(w)
    <3>1. /\ exec[w].pc \in {"notify", "record"} /\ exec'[w].row = exec[w].row
          /\ exec'[w].pc \in {"record", "publish"} /\ status' = status
      BY <1>e, <2>5, Moves DEF Notify, Record, dbVars
    <3> QED BY <1>b, <3>1 DEF Working
  <2> QED BY <1>3, <2>1, <2>2, <2>3, <2>4, <2>5 DEF Execute
<1> QED BY <1>e, <1>1, <1>2, <1>3, OwnSteps

\* The queue has a job for row r or a worker has it in hand.
HasJob(r) == jobs[r] > 0 \/ Holders(r) # {}

\* The job of row r is about to end with an exception before its last try.
GivenUp(r) ==
    \E w \in Workers :
        exec[w].row = r /\ exec[w].pc = "raised" /\ Durable /\ exec[w].try < MaxTries

\* Nothing but a fault or such an exception makes queue and workers drop an
\* open row that has not been retried.
LEMMA JobStays ==
    ASSUME Sound, FirstRunWrites, [Next]_vars, NEW r \in Rows, IsLive(r), HasJob(r),
           status'[r] \in Open, retried'[r] = 0, faults' = faults, ~GivenUp(r)
    PROVE  HasJob(r)'
PROOF
<1> USE DEF Sound
<1>s. Workers \subseteq Executors /\ Workers \cap Servers = {} /\ NoRow \notin Rows
  BY ConstantsAssumption DEF Executors
<1>o. status'[r] \notin Terminal /\ status[r] \notin Terminal /\ status'[r] # "failed"
  BY TerminalStays DEF Open, Terminal
<1>f. faults \in Nat
  BY DEF TypeOK
<1>h. ASSUME NEW w \in Workers, exec'[w].row = r PROVE HasJob(r)'
  BY <1>h DEF HasJob, Holders
<1>1. CASE \E w \in Workers, q \in Rows : TakeJob(w, q) /\ jobs[r] > 0
  <2>1. PICK w \in Workers, q \in Rows : TakeJob(w, q) /\ jobs[r] > 0
    BY <1>1
  <2>2. exec'[w] = [Idle EXCEPT !.pc = "load", !.row = q, !.try = tries[q] + 1]
    BY <1>s, <2>1, Moves DEF TakeJob
  <2>3. exec'[w].row = q
    BY <2>2 DEF Idle
  <2>4. q # r => jobs'[r] = jobs[r]
    BY <2>1 DEF TakeJob, TypeOK
  <2> QED BY <1>h, <2>1, <2>3, <2>4 DEF HasJob
<1>2. CASE jobs[r] > 0 /\ ~\E w \in Workers, q \in Rows : TakeJob(w, q)
  <2>1. ASSUME NEW s \in Servers, Enqueue(s) PROVE jobs'[r] > 0
    BY <1>2, <2>1 DEF Enqueue, TypeOK
  <2>2. ASSUME NEW w \in Workers, Redeliver(w) PROVE jobs'[r] > 0
    BY <1>2, <2>2 DEF Redeliver, TypeOK
  <2> QED BY <1>2, <2>1, <2>2, JobSteps DEF HasJob
<1>3. CASE \E w \in Workers : exec[w].row = r
  <2>1. PICK w \in Workers : exec[w].row = r
    BY <1>3
  <2>b. exec[w].pc \in {"claim", "run", "notify", "record", "publish"} =>
          /\ exec[w].pc = "claim" /\ exec[w].seen \in Terminal => status[r] \in Terminal
          /\ exec[w].pc = "run" => exec[w].seen = "processing"
          /\ exec[w].pc \in {"notify", "record", "publish"} => status[r] \in Terminal
    BY <2>1, NotRetried DEF FirstRunWrites
  <2>2. CASE exec'[w] = exec[w]
    BY <1>h, <2>1, <2>2
  <2>3. CASE Work(w) \/ WorkerLost(w)
    <3>1. ASSUME NEW q \in Rows, TakeJob(w, q) PROVE FALSE
      BY <1>s, <2>1, <3>1 DEF TakeJob, Idle
    <3>2. CASE JobFails(w)
      BY <2>1, <3>2 DEF JobFails, GivenUp
    <3>3. CASE FinalizeRead(w)
      BY <1>h, <1>o, <1>s, <2>1, <3>3, Moves DEF FinalizeRead
    <3>4. CASE FinalizeMark(w)
      BY <1>o, <2>1, <3>4 DEF FinalizeMark, TypeOK
    <3>5. CASE WorkerLost(w)
      BY <1>f, <3>5 DEF WorkerLost
    <3> QED BY <2>3, <3>1, <3>2, <3>3, <3>4, <3>5 DEF Work
  <2>4. CASE Execute(w)
    <3>1. CASE Load(w)
      <4>1. exec'[w] = [exec[w] EXCEPT !.pc = "claim", !.seen = status[exec[w].row],
                                       !.owes = callback[exec[w].row] = "pending"]
        BY <1>s, <3>1, Moves DEF Load
      <4>2. exec'[w].row = exec[w].row
        BY <1>s, <4>1 DEF TypeOK, ExecState
      <4> QED BY <1>h, <2>1, <4>2
    <3>2. CASE Claim(w)
      <4>1. exec'[w] = [exec[w] EXCEPT !.pc = "run",
                          !.seen = IF exec[w].seen \in Terminal THEN exec[w].seen ELSE "processing"]
        BY <1>s, <3>2, Moves DEF Claim
      <4>2. exec'[w].row = exec[w].row
        BY <1>s, <4>1 DEF TypeOK, ExecState
      <4> QED BY <1>h, <2>1, <4>2
    <3>3. CASE ClaimRefused(w)
      BY <1>h, <1>o, <1>s, <2>1, <2>b, <3>3, Moves DEF ClaimRefused
    <3>4. CASE NoClient(w)
      <4>1. exec[w].seen = "processing"
        BY <2>b, <3>4 DEF NoClient, Running
      <4>2. status'[r] = "failed"
        BY <2>1, <3>4, <4>1 DEF NoClient, SetStatus, TypeOK
      <4> QED BY <1>o, <4>2
    <3>5. CASE Publish(w)
      BY <1>o, <2>b, <3>5 DEF Publish
    <3>6. CASE ClaimConflict(w) \/ Finish(w) \/ Notify(w) \/ Record(w) \/ Raise(w)
      BY <1>h, <1>s, <2>1, <3>6, Moves DEF ClaimConflict, Finish, Notify, Record, Raise
    <3> QED BY <2>4, <3>1, <3>2, <3>3, <3>4, <3>5, <3>6 DEF Execute
  <2> QED BY <1>s, <2>2, <2>3, <2>4, OwnSteps
<1> QED BY <1>1, <1>2, <1>3 DEF HasJob, Holders

\* A handler that is about to enqueue a row stays so until it has enqueued it.
LEMMA EnqueuesNext ==
    ASSUME TypeOK, [Next]_vars, faults' = faults,
           NEW s \in Servers, exec[s].pc = "enqueue"
    PROVE  exec'[s] = exec[s] \/ Enqueue(s)
PROOF
<1>s. s \in Executors /\ s \notin Workers /\ faults \in Nat
  BY ConstantsAssumption DEF Executors, TypeOK
<1>1. ~Execute(s)
  BY DEF Execute, Load, Claim, ClaimConflict, ClaimRefused, NoClient, Finish,
         Notify, Record, Publish, Raise, Running
<1>2. ~ServerLost(s)
  BY <1>s DEF ServerLost
<1>3. Serve(s) => Enqueue(s)
  <2>1. exec[s] # Idle
    BY DEF Idle
  <2> QED BY <2>1 DEF Serve, ReceiveFirst, ReceiveReplay, Reap, Guard, Insert,
                      PreflightFails, RetryRead, RetryReset
<1>4. ~InlineError(s)
  BY DEF InlineError
<1> QED BY <1>s, <1>1, <1>2, <1>3, <1>4, OwnSteps

\* A row without a job or a kept result gets a job when it is enqueued.
LEMMA EnqueueAdds ==
    ASSUME TypeOK, NEW r \in Rows, NEW s \in Servers, Enqueue(s), exec[s].row = r,
           ~HasJob(r), r \notin kept
    PROVE  jobs'[r] > 0
PROOF
<1>1. jobs[r] \in Nat /\ jobs \in [Rows -> Nat] /\ ~JobKnown(r)
  BY DEF TypeOK, HasJob, JobKnown
<1>2. \/ jobs' = [jobs EXCEPT ![r] = 1]
      \/ jobs' = [jobs EXCEPT ![r] = @ + 1]
  BY <1>1 DEF Enqueue
<1> QED BY <1>1, <1>2

\* A row is stranded as StrandedByFailureOnly says.
LEMMA StrandedStep ==
    ASSUME Sound, FirstRunWrites, [Next]_vars, NEW r \in Rows,
           retried'[r] = 0, ~Stranded(r), Stranded(r)'
    PROVE  faults' # faults \/ GivenUp(r)
PROOF
<1> USE DEF Sound
<1> SUFFICES ASSUME faults' = faults, ~GivenUp(r) PROVE FALSE
  OBVIOUS
<1>s. Servers \subseteq Executors /\ Workers \subseteq Executors
  BY DEF Executors
<1>g. /\ IsLive(r)' /\ status'[r] \in Open /\ ~HasJob(r)'
      /\ r \notin kept' => \A s \in Servers : exec'[s].pc = "enqueue" => exec'[s].row # r
  BY DEF Stranded, HasJob, TypeOK
<1>n. retried[r] = 0 /\ \A s \in Servers : RetryReset(s) => exec[s].row # r
  BY NotRetried
<1>1. CASE status[r] = "absent"
  <2>1. r \notin kept'
    BY <1>1, KeptSteps DEF Recorded, RowInHand, Executors
  <2>2. PICK s \in Servers :
          exec'[s].row = r /\ exec'[s].pc = IF call'[r].dry THEN "load" ELSE "enqueue"
    BY <1>1, <1>g, <1>n, StatusMoves DEF Claim, Open, Terminal
  <2> QED BY <1>g, <2>1, <2>2 DEF IsLive
<1>2. CASE status[r] \in Terminal
  BY <1>2, <1>g, TerminalStays DEF Open, Terminal
<1>3. CASE status[r] \in Open
  <2>1. IsLive(r)
    BY <1>3, <1>g, RowsStay DEF IsLive, Open
  <2>2. ~HasJob(r)
    BY <1>g, <2>1, JobStays
  <2>3. r \notin kept /\ \E s \in Servers : exec[s].pc = "enqueue" /\ exec[s].row = r
    BY <1>3, <2>1, <2>2 DEF Stranded, HasJob, TypeOK
  <2>4. r \notin kept'
    BY <2>2, <2>3, KeptSteps DEF HasJob, Holders
  <2>5. PICK s \in Servers : exec[s].pc = "enqueue" /\ exec[s].row = r
    BY <2>3
  <2>6. CASE exec'[s] = exec[s]
    BY <1>g, <2>4, <2>5, <2>6
  <2>7. CASE Enqueue(s)
    BY <1>g, <2>2, <2>3, <2>5, <2>7, EnqueueAdds DEF HasJob
  <2> QED BY <2>5, <2>6, <2>7, EnqueuesNext
<1> QED BY <1>1, <1>2, <1>3 DEF TypeOK, Statuses

\* Before the first run there is nothing to hold against a row.
LEMMA FirstRunInit == Init => FirstRunWrites
BY DEF Init, IsLive, FirstRunWrites

\* What a row's first run ends with is written, in every deployment.
THEOREM FirstRunAlways == Spec => []FirstRunWrites
PROOF
<1>1. Sound /\ FirstRunWrites /\ [Next]_vars => FirstRunWrites'
  BY FirstRunWritesStep
<1> QED BY <1>1, FirstRunInit, SoundAlways, PTL DEF Spec

\* In every deployment, with the arq queue or in process, whatever is reaped,
\* replayed and retried: a live row that was never retried is left open and
\* without a job only by a fault, or by a job that arq ends on an exception.
THEOREM StrandedByFailure == Spec => StrandedByFailureOnly
PROOF
<1> DEFINE ByFailure ==
      \A r \in Rows :
         retried'[r] = 0 /\ ~Stranded(r) /\ Stranded(r)'
         => \/ faults' # faults
            \/ \E w \in Workers :
                 /\ exec[w].row = r /\ exec[w].pc = "raised"
                 /\ Durable /\ exec[w].try < MaxTries
<1>1. Sound /\ FirstRunWrites /\ [Next]_vars => [ByFailure]_vars
  BY StrandedStep DEF GivenUp
<1> QED BY <1>1, SoundAlways, FirstRunAlways, PTL DEF Spec, StrandedByFailureOnly

-----------------------------------------------------------------------------
(* With the arq queue, a row has one job at a time.                         *)

\* With the arq queue, enqueueing, taking and redelivering keep one job per row.
LEMMA OneJobStep ==
    ASSUME Durable, Sound, OneJobPerRow, [Next]_vars
    PROVE  OneJobPerRow'
PROOF
<1> USE DEF Sound
<1> DEFINE Held(w, r)    == exec[w].row = r
           HeldNew(w, r) == exec'[w].row = r
<1>d. Workers \subseteq Executors /\ Workers \cap Servers = {}
  BY ConstantsAssumption DEF Executors
<1>n. \A r \in Rows : r # NoRow
  BY ConstantsAssumption
<1>h. \A r \in Rows : /\ jobs[r] \in {0, 1}
                      /\ \A w \in Workers : Held(w, r) => jobs[r] = 0
                      /\ \A v, w \in Workers : Held(v, r) /\ Held(w, r) => v = w
  BY DEF OneJobPerRow, Holders, TypeOK
<1> SUFFICES ASSUME NEW r \in Rows
             PROVE  /\ jobs'[r] \in {0, 1}
                    /\ \A w \in Workers : HeldNew(w, r) => jobs'[r] = 0
                    /\ \A v, w \in Workers : HeldNew(v, r) /\ HeldNew(w, r) => v = w
  BY DEF OneJobPerRow, Holders
<1>m. ASSUME NEW w \in Workers, HeldNew(w, r)
      PROVE  Held(w, r) \/ TakeJob(w, r)
  <2>1. Moved(w)
    BY EveryMove, <1>d
  <2> QED BY <1>m, <1>d, <1>n, <2>1 DEF Moved, GoesOn, TakesUp
<1>1. CASE jobs' = jobs
  <2>1. \A w \in Workers : ~TakeJob(w, r)
    BY <1>1, <1>h DEF TakeJob, TypeOK
  <2> QED BY <1>1, <1>h, <1>m, <2>1
<1>2. CASE \E s \in Servers : Enqueue(s)
  <2>1. PICK s \in Servers : Enqueue(s)
    BY <1>2
  <2>2. exec[s].row \in Rows
    BY <2>1 DEF Enqueue, RowInHand, Executors
  <2>3. \A w \in Workers : HeldNew(w, r) => Held(w, r)
    BY <2>1, <1>d, Moves DEF Enqueue, Executors
  <2>4. jobs'[r] = jobs[r] \/ (jobs'[r] = 1 /\ ~JobKnown(r))
    BY <2>1, <2>2 DEF Enqueue, TypeOK
  <2>5. \A w \in Workers : Held(w, r) => JobKnown(r)
    BY DEF JobKnown, Holders
  <2> QED BY <1>h, <2>3, <2>4, <2>5
<1>3. CASE \E w \in Workers, q \in Rows : TakeJob(w, q)
  <2>1. PICK w \in Workers, q \in Rows : TakeJob(w, q)
    BY <1>3
  <2>2. jobs' = [jobs EXCEPT ![q] = @ - 1] /\ jobs[q] > 0
    BY <2>1 DEF TakeJob
  <2>3. \A v \in Workers \ {w} : HeldNew(v, r) => Held(v, r)
    BY <2>1, <1>d, Moves DEF TakeJob
  <2>4. exec'[w].row = q
    <3>1. exec'[w] = [Idle EXCEPT !.pc = "load", !.row = q, !.try = tries[q] + 1]
      BY <2>1, <1>d, Moves DEF TakeJob
    <3> QED BY <3>1 DEF Idle
  <2>5. CASE q = r
    <3>1. jobs[r] = 1 /\ jobs'[r] = 0
      BY <1>h, <2>2, <2>5 DEF TypeOK
    <3> QED BY <1>h, <2>3, <3>1
  <2>6. CASE q # r
    <3>1. jobs'[r] = jobs[r]
      BY <2>2, <2>6 DEF TypeOK
    <3> QED BY <1>h, <2>3, <2>4, <2>6, <3>1
  <2> QED BY <2>5, <2>6
<1>4. CASE \E w \in Workers : exec[w].pc \in Working /\ Redeliver(w) /\ Release(w)
  <2>1. PICK w \in Workers : exec[w].pc \in Working /\ Redeliver(w) /\ Release(w)
    BY <1>4
  <2>2. exec[w].row \in Rows
    BY <2>1, <1>d DEF RowInHand
  <2>3. \A v \in Workers : HeldNew(v, r) => v # w /\ Held(v, r)
    BY <2>1, <1>d, <1>n, Moves
  <2>4. jobs' = [jobs EXCEPT ![exec[w].row] = @ + 1]
    BY <2>1 DEF Redeliver
  <2>5. CASE exec[w].row = r
    <3>1. jobs[r] = 0 /\ jobs'[r] = 1
      BY <1>h, <2>4, <2>5 DEF TypeOK
    <3>2. \A v \in Workers : ~HeldNew(v, r)
      BY <1>h, <2>3, <2>5
    <3> QED BY <3>1, <3>2
  <2>6. CASE exec[w].row # r
    <3>1. jobs'[r] = jobs[r]
      BY <2>2, <2>4, <2>6 DEF TypeOK
    <3> QED BY <1>h, <2>3, <3>1
  <2> QED BY <2>5, <2>6
<1> QED BY <1>1, <1>2, <1>3, <1>4, JobSteps

\* With the arq queue no row is ever queued or held by a worker twice, however
\* often the client replays the request or an administrator retries the row.
THEOREM OneJobAlways ==
    ASSUME Durable
    PROVE  Spec => []OneJobPerRow
PROOF
<1>1. Init => OneJobPerRow
  <2> SUFFICES ASSUME Init PROVE OneJobPerRow
    OBVIOUS
  <2>1. \A w \in Workers : exec[w].row = NoRow
    BY DEF Init, Idle, Executors
  <2>2. \A r \in Rows : jobs[r] = 0 /\ Holders(r) = {}
    BY <2>1, ConstantsAssumption DEF Init, Holders
  <2> QED BY <2>2 DEF OneJobPerRow
<1>2. Sound /\ OneJobPerRow /\ [Next]_vars => OneJobPerRow'
  BY OneJobStep
<1> QED BY <1>1, <1>2, SoundAlways, PTL DEF Spec

\* The ledgers a callback is counted with, and who writes them.
LEMMA CreditSteps ==
    ASSUME TypeOK, [Next]_vars
    PROVE  \/ posted' = posted /\ retried' = retried
           \/ \E s \in Servers : RetryReset(s)
           \/ \E e \in Executors : Notify(e)
PROOF
<1> USE DEF ghostVars
<1>1. ASSUME NEW s \in Servers, Serve(s) \/ InlineError(s)
      PROVE  (posted' = posted /\ retried' = retried) \/ RetryReset(s)
  BY <1>1 DEF Serve, InlineError, ReceiveFirst, ReceiveReplay, Reap, Guard, Insert,
              PreflightFails, Enqueue, RetryRead
<1>2. ASSUME NEW w \in Workers, Work(w)
      PROVE  posted' = posted /\ retried' = retried
  BY <1>2 DEF Work, TakeJob, JobFails, FinalizeRead, FinalizeMark
<1>3. ASSUME NEW e \in Executors, Execute(e)
      PROVE  (posted' = posted /\ retried' = retried) \/ Notify(e)
  BY <1>3 DEF Execute, Load, Claim, ClaimConflict, ClaimRefused, NoClient, Finish,
              Record, Publish, Raise
<1>4. CASE Environment
  BY <1>4 DEF Environment, Age, WorkerLost, ServerLost
<1>5. CASE UNCHANGED vars
  BY <1>5 DEF vars
<1> QED BY <1>1, <1>2, <1>3, <1>4, <1>5 DEF Next

\* Only a claim makes a callback owed.
LEMMA OwingStep ==
    ASSUME Sound, [Next]_vars, NEW r \in Rows, Owing(r)'
    PROVE  \/ \E e \in Workers : Claim(e) /\ exec[e].row = r
           \/ \E w \in Workers : /\ exec[w].row = r /\ exec[w].pc \in {"run", "notify"}
                                 /\ exec'[w].row = r /\ exec'[w].pc \in {"run", "notify"}
PROOF
<1> USE DEF Sound
<1>1. PICK w \in Workers : exec'[w].row = r /\ exec'[w].pc \in {"run", "notify"}
  BY DEF Owing
<1>e. w \in Executors /\ w \notin Servers
  BY ConstantsAssumption DEF Executors
<1>2. CASE Work(w) \/ WorkerLost(w)
  <2>1. ASSUME NEW q \in Rows, TakeJob(w, q) PROVE FALSE
    <3>1. exec'[w] = [Idle EXCEPT !.pc = "load", !.row = q, !.try = tries[q] + 1]
      BY <1>e, <2>1, Moves DEF TakeJob
    <3> QED BY <1>1, <3>1 DEF Idle
  <2> QED BY <1>1, <1>2, <1>e, <2>1, Moves
          DEF Work, JobFails, FinalizeRead, FinalizeMark, WorkerLost
<1>3. CASE Execute(w)
  <2>1. CASE Load(w)
    <3>1. exec'[w] = [exec[w] EXCEPT !.pc = "claim", !.seen = status[exec[w].row],
                                     !.owes = callback[exec[w].row] = "pending"]
      BY <1>e, <2>1, Moves DEF Load
    <3>2. exec'[w].pc = "claim"
      BY <1>e, <3>1 DEF TypeOK, ExecState
    <3> QED BY <1>1, <3>2
  <2>2. CASE Claim(w)
    <3>1. exec'[w] = [exec[w] EXCEPT !.pc = "run",
                          !.seen = IF exec[w].seen \in Terminal THEN exec[w].seen ELSE "processing"]
      BY <1>e, <2>2, Moves DEF Claim
    <3>2. exec'[w].row = exec[w].row
      BY <1>e, <3>1 DEF TypeOK, ExecState
    <3> QED BY <1>1, <2>2, <3>2
  <2>3. CASE Finish(w)
    BY <1>1, <1>e, <2>3, Moves DEF Finish, Running
  <2>4. CASE \/ ClaimConflict(w) \/ ClaimRefused(w) \/ NoClient(w) \/ Notify(w)
             \/ Record(w) \/ Publish(w) \/ Raise(w)
    BY <1>1, <1>e, <2>4, Moves DEF ClaimConflict, ClaimRefused, NoClient, Notify, Record,
       Publish, Raise
  <2> QED BY <1>3, <2>1, <2>2, <2>3, <2>4 DEF Execute
<1>4. CASE exec'[w] = exec[w]
  BY <1>1, <1>4
<1> QED BY <1>e, <1>2, <1>3, <1>4, OwnSteps

\* Inserts, claims, callbacks and retries keep the accounts.
LEMMA CallbackCreditStep ==
    ASSUME Sound, OneJobPerRow, CallbackCredit, [Next]_vars
    PROVE  CallbackCredit'
PROOF
<1> USE DEF Sound
<1>s. Workers \subseteq Executors /\ Workers \cap Servers = {}
  BY ConstantsAssumption DEF Executors
<1> SUFFICES ASSUME NEW r \in Rows
             PROVE  /\ status'[r] = "absent" => posted'[r] = 0
                    /\ IsLive(r)' =>
                         posted'[r] + (IF status'[r] = "accepted" THEN 1 ELSE 0)
                           + (IF Owing(r)' THEN 1 ELSE 0) <= 1 + retried'[r]
  BY DEF CallbackCredit
<1>t. /\ posted[r] \in Nat /\ retried[r] \in Nat
      /\ posted' \in [Rows -> Nat] /\ retried' \in [Rows -> Nat]
  BY Typing DEF TypeOK
<1>u. \A v, w \in Workers : exec[v].row = r /\ exec[w].row = r => v = w
  BY DEF OneJobPerRow, Holders
<1>1. CASE status[r] = "absent"
  <2>1. \A e \in Executors : exec[e].pc \in Working \cup {"enqueue", "reset"} => exec[e].row # r
    BY <1>1 DEF RowInHand
  <2>2. posted'[r] = 0
    <3>1. ASSUME NEW e \in Executors, Notify(e) PROVE posted'[r] = posted[r]
      BY <2>1, <3>1 DEF Notify, Working, TypeOK
    <3>2. ASSUME NEW s \in Servers, RetryReset(s) PROVE posted'[r] = posted[r]
      BY <3>2 DEF RetryReset
    <3> QED BY <1>1, <3>1, <3>2, CreditSteps DEF CallbackCredit
  <2>3. ~Owing(r)'
    BY <1>s, <2>1, OwingStep DEF Claim, Working
  <2> QED BY <1>t, <2>2, <2>3
<1>2. CASE status[r] # "absent"
  <2>0. status'[r] # "absent" /\ call'[r] = call[r]
    BY <1>2, RowsStay
  <2> SUFFICES ASSUME IsLive(r)
               PROVE  posted'[r] + (IF status'[r] = "accepted" THEN 1 ELSE 0)
                        + (IF Owing(r)' THEN 1 ELSE 0) <= 1 + retried'[r]
    BY <1>2, <2>0 DEF IsLive
  <2>c. posted[r] + (IF status[r] = "accepted" THEN 1 ELSE 0)
          + (IF Owing(r) THEN 1 ELSE 0) <= 1 + retried[r]
    BY DEF CallbackCredit
  <2>w. \A e \in Executors : exec[e].pc \in Working /\ exec[e].row = r => e \in Workers
    BY DEF ServersPreview, IsLive, Executors
  <2>1. CASE \E s \in Servers : RetryReset(s) /\ exec[s].row = r
    <3>1. PICK s \in Servers : RetryReset(s) /\ exec[s].row = r
      BY <2>1
    <3>2. \A w \in Workers : exec'[w] = exec[w]
      BY <1>s, <3>1, Moves DEF RetryReset, Executors
    <3>3. Owing(r)' => Owing(r)
      BY <3>2 DEF Owing
    <3>4. posted'[r] = posted[r] /\ retried'[r] = retried[r] + 1
      BY <3>1 DEF RetryReset, TypeOK
    <3> QED BY <1>t, <2>c, <3>3, <3>4
  <2>2. CASE \E e \in Executors : Claim(e) /\ exec[e].row = r
    <3>1. PICK e \in Executors : Claim(e) /\ exec[e].row = r
      BY <2>2
    <3>2. e \in Workers /\ exec[e].pc = "claim"
      BY <2>w, <3>1 DEF Claim, Working
    <3>3. ~Owing(r)
      BY <1>u, <3>1, <3>2 DEF Owing
    <3>4. status[r] = "accepted" /\ status'[r] = "processing"
          /\ posted'[r] = posted[r] /\ retried'[r] = retried[r]
      BY <3>1 DEF Claim, ghostVars, TypeOK
    <3> QED BY <1>t, <2>c, <3>3, <3>4
  <2>3. CASE \E e \in Executors : Notify(e) /\ exec[e].row = r
    <3>1. PICK e \in Executors : Notify(e) /\ exec[e].row = r
      BY <2>3
    <3>2. e \in Workers /\ exec[e].pc = "notify"
      BY <2>w, <3>1 DEF Notify, Working
    <3>3. Owing(r)
      BY <3>1, <3>2 DEF Owing
    <3>4. ~Owing(r)'
      <4>1. exec'[e].pc = "record"
        BY <1>s, <3>1, Moves DEF Notify
      <4>2. \A x \in Workers : ~Claim(x) \/ exec[x].row # r
        BY <1>u, <3>1, <3>2 DEF Claim
      <4> QED BY <1>u, <3>1, <3>2, <4>1, <4>2, OwingStep
    <3>5. status'[r] = status[r] /\ posted'[r] = posted[r] + 1 /\ retried'[r] = retried[r]
      BY <3>1 DEF Notify, dbVars, TypeOK
    <3> QED BY <1>t, <2>c, <3>3, <3>4, <3>5
  <2>4. CASE /\ ~\E s \in Servers : RetryReset(s) /\ exec[s].row = r
             /\ ~\E e \in Executors : Claim(e) /\ exec[e].row = r
             /\ ~\E e \in Executors : Notify(e) /\ exec[e].row = r
    <3>1. Owing(r)' => Owing(r)
      BY <1>s, <2>4, OwingStep DEF Owing
    <3>2. status'[r] = "accepted" => status[r] = "accepted"
      BY <1>2, <2>4, StatusMoves DEF Terminal
    <3>3. posted'[r] = posted[r] /\ retried'[r] = retried[r]
      BY <2>4, CreditSteps DEF Notify, RetryReset, TypeOK
    <3> QED BY <1>t, <2>c, <3>1, <3>2, <3>3
  <2> QED BY <2>1, <2>2, <2>3, <2>4
<1> QED BY <1>1, <1>2

\* No callback was posted and none is owed before the first insert.
LEMMA CallbackCreditInit == Init => CallbackCredit
BY DEF Init, IsLive, CallbackCredit

\* With the arq queue the orchestrator is called back at most once for every
\* time its row was put up for execution, also by a redelivered job whose worker
\* died after the POST: the job does not get past the claim a second time.
THEOREM CalledBackOnce ==
    ASSUME Durable
    PROVE  Spec => []CalledBackOncePerRun
PROOF
<1>1. Sound /\ OneJobPerRow /\ CallbackCredit /\ [Next]_vars => CallbackCredit'
  BY CallbackCreditStep
<1>2. Sound /\ CallbackCredit => CalledBackOncePerRun
  <2> SUFFICES ASSUME Sound, CallbackCredit, NEW r \in Rows, IsLive(r)
               PROVE  posted[r] <= 1 + retried[r]
    BY DEF CalledBackOncePerRun
  <2>1. posted[r] + (IF status[r] = "accepted" THEN 1 ELSE 0)
          + (IF Owing(r) THEN 1 ELSE 0) <= 1 + retried[r]
    BY DEF CallbackCredit
  <2>2. posted[r] \in Nat /\ retried[r] \in Nat
    BY DEF Sound, TypeOK
  <2> QED BY <2>1, <2>2
<1> QED BY <1>1, <1>2, CallbackCreditInit, SoundAlways, OneJobAlways, PTL DEF Spec

-----------------------------------------------------------------------------
(* With the arq queue, when no row is reaped while it is executed and no row *)
(* is retried twice at once: the whole inductive invariant.                 *)

\* A live row in a worker's hands is executed by nobody else.
LEMMA LiveRowAlone ==
    ASSUME IndInv, NEW w \in Workers, exec[w].row \in Rows, ~call[exec[w].row].dry,
           NEW e \in Executors, exec[e].row = exec[w].row, exec[e].pc \in Working
    PROVE  e = w
PROOF
<1>1. e \in Workers
  BY DEF IndInv, ServersPreview, Executors
<1> QED BY <1>1 DEF IndInv, OneJobPerRow, Holders

\* Nobody takes a running row out of 'processing'.
LEMMA RunProcessingStep ==
    ASSUME IndInv, [Next]_vars
    PROVE  RunProcessing'
PROOF
<1> SUFFICES ASSUME NEW w \in Workers, exec'[w].pc = "run", ~call'[exec'[w].row].dry
             PROVE  status'[exec'[w].row] = "processing"
  BY DEF RunProcessing
<1> USE DEF IndInv
<1>1. Moved(w) /\ w \in Executors
  BY EveryMove DEF Executors
<1>2. exec'[w] = exec[w] \/ (Claim(w) /\ exec'[w].row = exec[w].row)
  BY <1>1 DEF Moved, GoesOn, TakesUp
<1>3. CASE Claim(w) /\ exec'[w].row = exec[w].row
  BY <1>1, <1>3 DEF Claim, RowInHand, Working, TypeOK
<1>4. CASE exec'[w] = exec[w]
  <2> DEFINE r == exec[w].row
  <2>1. r \in Rows /\ status[r] # "absent"
    BY <1>1, <1>4 DEF RowInHand, Working
  <2>2. call'[r] = call[r]
    BY <2>1, RowsStay
  <2>3. status[r] = "processing" /\ exec[w].pc = "run"
    BY <1>4, <2>2 DEF RunProcessing
  <2>a. ASSUME NEW e \in Executors, exec[e].row = r, exec[e].pc \in Working PROVE e = w
    BY <1>4, <2>1, <2>2, <2>a, LiveRowAlone
  <2>4. ASSUME NEW s \in Servers, Reap(s) PROVE status'[r] = "processing"
    <3>1. r \notin old
      BY <1>1, <2>3 DEF OldIsStuck, Running
    <3> QED BY <2>1, <2>3, <2>4, <3>1 DEF Reap, Orphans
  <2>5. ASSUME NEW s \in Servers, Insert(s) PROVE status'[r] = "processing"
    BY <2>1, <2>3, <2>5 DEF Insert, TypeOK
  <2>6. ASSUME NEW s \in Servers, RetryReset(s) PROVE status'[r] = "processing"
    <3>1. exec[s].row # r
      BY <2>3, <2>6 DEF RetryReset, ResetIsSettled, Terminal
    <3> QED BY <2>1, <2>3, <2>6, <3>1 DEF RetryReset, TypeOK
  <2>7. ASSUME NEW v \in Workers, FinalizeMark(v) PROVE status'[r] = "processing"
    <3>1. exec[v].row # r
      BY <2>3, <2>7, <2>a DEF FinalizeMark, Working, Executors
    <3> QED BY <2>1, <2>3, <2>7, <3>1 DEF FinalizeMark, TypeOK
  <2>8. ASSUME NEW e \in Executors, Claim(e) PROVE status'[r] = "processing"
    BY <2>1, <2>3, <2>8 DEF Claim, TypeOK
  <2>9. ASSUME NEW e \in Executors, NoClient(e) \/ Finish(e) PROVE status'[r] = "processing"
    <3>1. exec'[e].pc # "run"
      BY <2>9, Moves DEF NoClient, Finish
    <3>2. exec[e].row # r
      BY <1>4, <2>3, <2>9, <2>a, <3>1 DEF NoClient, Finish, Running, Working
    <3> QED BY <2>1, <2>3, <2>9, <3>2 DEF NoClient, Finish, SetStatus, TypeOK
  <2> QED BY <1>4, <2>3, <2>4, <2>5, <2>6, <2>7, <2>8, <2>9, StatusSteps
<1> QED BY <1>2, <1>3, <1>4

\* A row given up after the last try gets no result before it is marked.
LEMMA MarkIsUnsettledStep ==
    ASSUME IndInv, [Next]_vars
    PROVE  MarkIsUnsettled'
PROOF
<1> SUFFICES ASSUME NEW w \in Workers, exec'[w].pc = "mark", ~call'[exec'[w].row].dry
             PROVE  status'[exec'[w].row] \in Open \cup {"failed"}
  BY DEF MarkIsUnsettled
<1> USE DEF IndInv
<1> DEFINE r == exec[w].row
<1>1. Moved(w) /\ w \in Executors
  BY EveryMove DEF Executors
<1>2. exec'[w] = exec[w] \/ (FinalizeRead(w) /\ exec'[w].row = r /\ status[r] \notin Terminal)
  <2>1. ~TakesUp(w)
    BY DEF TakesUp
  <2>2. exec'[w] = exec[w] \/ GoesOn(w)
    BY <1>1, <2>1 DEF Moved
  <2>3. GoesOn(w) => FinalizeRead(w) /\ exec'[w].row = r /\ status[r] \notin Terminal
    BY DEF GoesOn, Working
  <2> QED BY <2>2, <2>3
<1>3. exec[w].pc \in Working /\ exec'[w].row = r
  BY <1>2 DEF FinalizeRead, Working
<1>4. r \in Rows /\ status[r] # "absent"
  BY <1>1, <1>3 DEF RowInHand
<1>5. call'[r] = call[r]
  BY <1>4, RowsStay
<1>6. CASE FinalizeRead(w) /\ status[r] \notin Terminal
  <2>1. status' = status /\ status[r] \in Statuses
    BY <1>4, <1>6 DEF FinalizeRead, dbVars, TypeOK
  <2> QED BY <1>3, <1>4, <1>6, <2>1 DEF Statuses
<1>7. CASE exec'[w] = exec[w]
  <2>1. status[r] \in Open \cup {"failed"} /\ exec[w].pc = "mark"
    BY <1>5, <1>7 DEF MarkIsUnsettled
  <2>2. CASE \E s \in Servers : Reap(s) \/ Insert(s) \/ RetryReset(s)
    <3>1. ASSUME NEW s \in Servers, Reap(s) PROVE status'[r] = status[r] \/ status'[r] = "failed"
      BY <1>4, <3>1 DEF Reap
    <3>2. ASSUME NEW s \in Servers, Insert(s) PROVE status'[r] = status[r]
      BY <1>4, <3>2 DEF Insert, TypeOK
    <3>3. ASSUME NEW s \in Servers, RetryReset(s)
          PROVE status'[r] = status[r] \/ status'[r] = "accepted"
      BY <1>4, <3>3 DEF RetryReset, TypeOK
    <3> QED BY <1>3, <2>1, <2>2, <3>1, <3>2, <3>3 DEF Open
  <2>3. CASE \E v \in Workers : FinalizeMark(v)
    BY <1>3, <1>4, <2>1, <2>3 DEF FinalizeMark, TypeOK
  <2>4. CASE \E e \in Executors : Claim(e)
    BY <1>3, <1>4, <2>1, <2>4 DEF Claim, TypeOK, Open
  <2>5. ASSUME NEW e \in Executors, NoClient(e) \/ Finish(e)
        PROVE  status'[r] \in Open \cup {"failed"}
    <3>1. exec[e].row # r
      BY <1>3, <1>4, <1>5, <2>1, <2>5, LiveRowAlone DEF NoClient, Finish, Running, Working
    <3> QED BY <1>4, <2>1, <2>5, <3>1 DEF NoClient, Finish, SetStatus, TypeOK
  <2> QED BY <1>3, <2>1, <2>2, <2>3, <2>4, <2>5, StatusSteps
<1> QED BY <1>2, <1>6, <1>7

\* Old rows are not taken up again before they are reaped or retried.
LEMMA OldIsStuckStep ==
    ASSUME Timely, IndInv, [Next]_vars
    PROVE  OldIsStuck'
PROOF
<1> USE DEF IndInv
<1>1. CASE \E r \in Rows : Age(r)
  <2>1. PICK r \in Rows : Age(r)
    BY <1>1
  <2>2. /\ status' = status /\ exec' = exec /\ old' = old \cup {r}
        /\ status[r] = "processing" /\ \A e \in Executors : exec[e].row = r => ~Running(e)
    BY <2>1 DEF Age
  <2> QED BY <2>2 DEF OldIsStuck, Running
<1>2. CASE ~\E r \in Rows : Age(r)
  <2>1. old' \subseteq old
    <3> USE DEF dbVars
    <3>1. ASSUME NEW s \in Servers, Serve(s) \/ InlineError(s) PROVE old' \subseteq old
      BY <3>1 DEF Serve, InlineError, ReceiveFirst, ReceiveReplay, Reap, Guard, Insert,
                  PreflightFails, Enqueue, RetryRead, RetryReset
    <3>2. ASSUME NEW w \in Workers, Work(w) PROVE old' \subseteq old
      BY <3>2 DEF Work, TakeJob, JobFails, FinalizeRead, FinalizeMark
    <3>3. ASSUME NEW e \in Executors, Execute(e) PROVE old' \subseteq old
      BY <3>3 DEF Execute, Load, Claim, ClaimConflict, ClaimRefused, NoClient, Finish,
                  Notify, Record, Publish, Raise
    <3>4. CASE Environment
      BY <1>2, <3>4 DEF Environment, WorkerLost, ServerLost
    <3>5. CASE UNCHANGED vars
      BY <3>5 DEF vars
    <3> QED BY <3>1, <3>2, <3>3, <3>4, <3>5 DEF Next
  <2> SUFFICES ASSUME NEW r \in old'
               PROVE  /\ status'[r] \notin {"absent", "accepted"}
                      /\ \A e \in Executors : Running(e)' => exec'[e].row # r
    BY DEF OldIsStuck
  <2>2. r \in old /\ r \in Rows /\ status[r] \notin {"absent", "accepted"}
    BY <2>1 DEF OldIsStuck, TypeOK
  <2>3. status'[r] # "accepted"
    <3>1. CASE \E s \in Servers : Reap(s) \/ Insert(s) \/ RetryReset(s)
      BY <2>2, <3>1 DEF Reap, Insert, RetryReset, TypeOK
    <3>2. CASE \E w \in Workers : FinalizeMark(w)
      BY <2>2, <3>2 DEF FinalizeMark, TypeOK
    <3>3. CASE \E e \in Executors : Claim(e) \/ NoClient(e) \/ Finish(e)
      BY <2>2, <3>3 DEF Claim, NoClient, Finish, SetStatus, Outcomes, TypeOK
    <3> QED BY <2>2, <3>1, <3>2, <3>3, StatusSteps
  <2>4. ASSUME NEW e \in Executors, Running(e)' PROVE exec'[e].row # r
    <3>1. exec'[e] = exec[e] \/ (Claim(e) /\ exec'[e].row = exec[e].row)
      BY <2>4, EveryMove DEF Moved, GoesOn, TakesUp, Running
    <3> QED BY <2>2, <2>4, <3>1 DEF OldIsStuck, Claim, Running
  <2> QED BY <2>2, <2>3, <2>4, RowsStay
<1> QED BY <1>1, <1>2

\* A row stays settled between the read and the write of its retry.
LEMMA ResetIsSettledStep ==
    ASSUME SoloRetry, IndInv, [Next]_vars
    PROVE  ResetIsSettled'
PROOF
<1> USE DEF IndInv
<1>s. Servers \subseteq Executors /\ Servers \cap Workers = {}
  BY ConstantsAssumption DEF Executors
<1>m. ASSUME NEW s \in Servers, exec'[s].pc = "reset"
      PROVE  \/ exec'[s] = exec[s]
             \/ \E r \in Rows : RetryRead(s, r) /\ exec'[s].row = r
  BY <1>m, <1>s, EveryMove DEF Moved, GoesOn, TakesUp, Working
<1>1. ASSUME NEW s \in Servers, exec'[s].pc = "reset"
      PROVE  status'[exec'[s].row] \in Terminal
  <2>1. CASE \E r \in Rows : RetryRead(s, r) /\ exec'[s].row = r
    BY <2>1 DEF RetryRead, dbVars, Terminal
  <2>2. CASE exec'[s] = exec[s]
    <3> DEFINE r == exec[s].row
    <3>1. r \in Rows /\ status[r] \in Terminal
      BY <1>1, <1>s, <2>2 DEF ResetIsSettled, RowInHand
    <3>2. ASSUME NEW t \in Servers, Reap(t) \/ Insert(t) PROVE status'[r] \in Terminal
      <4>1. CASE Reap(t)
        BY <3>1, <4>1 DEF Reap, Terminal
      <4>2. CASE Insert(t)
        BY <3>1, <4>2 DEF Insert, Terminal, TypeOK
      <4> QED BY <3>2, <4>1, <4>2
    <3>3. ASSUME NEW t \in Servers, RetryReset(t) PROVE status'[r] \in Terminal
      <4>1. exec'[t].pc = "enqueue"
        BY <1>s, <3>3, Moves DEF RetryReset
      <4>2. exec[t].row # r
        BY <1>1, <2>2, <3>3, <4>1 DEF ResetIsSettled, RetryReset
      <4> QED BY <3>1, <3>3, <4>2 DEF RetryReset, TypeOK
    <3>4. CASE \E w \in Workers : FinalizeMark(w)
      BY <2>2, <3>1, <3>4 DEF FinalizeMark, Terminal, TypeOK
    <3>5. CASE \E e \in Executors : Claim(e)
      BY <2>2, <3>1, <3>5 DEF Claim, Terminal, TypeOK
    <3>6. CASE \E e \in Executors : NoClient(e) \/ Finish(e)
      BY <2>2, <3>1, <3>6 DEF NoClient, Finish, SetStatus, Outcomes, Terminal, TypeOK
    <3> QED BY <2>2, <3>1, <3>2, <3>3, <3>4, <3>5, <3>6, StatusSteps
  <2> QED BY <1>1, <1>m, <2>1, <2>2
<1>2. ASSUME NEW s \in Servers, NEW t \in Servers, exec'[s].pc = "reset",
             exec'[t].pc = "reset", exec'[t].row = exec'[s].row
      PROVE  t = s
  <2>1. ASSUME NEW a \in Servers, NEW b \in Servers, exec'[b].pc = "reset", exec'[a].pc = "reset",
               NEW r \in Rows, RetryRead(a, r), exec'[a].row = r, exec'[b].row = r
        PROVE  b = a
    <3>1. \A f \in Executors \ {a} : exec'[f] = exec[f]
      BY <1>s, <2>1, Moves DEF RetryRead
    <3>2. b # a => exec[b].pc = "reset" /\ exec[b].row = r
      BY <1>s, <2>1, <3>1
    <3> QED BY <2>1, <3>2 DEF RetryRead
  <2>2. CASE exec'[s] = exec[s] /\ exec'[t] = exec[t]
    BY <1>2, <2>2 DEF ResetIsSettled
  <2>3. CASE \E r \in Rows : RetryRead(s, r) /\ exec'[s].row = r
    BY <1>2, <2>1, <2>3
  <2>4. CASE \E r \in Rows : RetryRead(t, r) /\ exec'[t].row = r
    BY <1>2, <2>1, <2>4
  <2> QED BY <1>2, <1>m, <2>2, <2>3, <2>4
<1> QED BY <1>1, <1>2 DEF ResetIsSettled

\* IndInv is inductive.
LEMMA IndInvStep ==
    ASSUME Durable, Timely, SoloRetry
    PROVE  IndInv /\ [Next]_vars => IndInv'
PROOF
<1> SUFFICES ASSUME IndInv, [Next]_vars PROVE IndInv'
  OBVIOUS
<1>1. Sound /\ OneJobPerRow
  BY DEF IndInv, Sound
<1>2. Sound' /\ OneJobPerRow'
  BY <1>1, SoundStep, OneJobStep
<1>3. CallbackCredit' /\ FirstRunWrites'
  BY <1>1, CallbackCreditStep, FirstRunWritesStep DEF IndInv
<1> QED BY <1>2, <1>3, RunProcessingStep, MarkIsUnsettledStep, OldIsStuckStep, ResetIsSettledStep
           DEF IndInv, Sound

\* The inductive invariant of a deployment with the arq queue.
THEOREM Invariance ==
    ASSUME Durable, Timely, SoloRetry
    PROVE  Spec => []IndInv
PROOF
<1>1. Init => IndInv
  <2> SUFFICES ASSUME Init PROVE IndInv
    OBVIOUS
  <2>1. \A e \in Executors : exec[e].pc = "idle" /\ exec[e].row = NoRow
    BY DEF Init, Idle
  <2>2. OneJobPerRow
    <3>1. \A r \in Rows : jobs[r] = 0 /\ Holders(r) = {}
      BY <2>1, ConstantsAssumption DEF Init, Holders, Executors
    <3> QED BY <3>1 DEF OneJobPerRow
  <2>3. RunProcessing /\ OldIsStuck /\ ResetIsSettled /\ MarkIsUnsettled
    BY <2>1 DEF RunProcessing, OldIsStuck, ResetIsSettled, MarkIsUnsettled, Executors, Init
  <2> QED BY <2>2, <2>3, SoundInit, FirstRunInit, CallbackCreditInit DEF IndInv, Sound
<1>2. IndInv /\ [Next]_vars => IndInv'
  BY IndInvStep
<1> QED BY <1>1, <1>2, PTL DEF Spec

\* Whatever is replayed, retried, lost and reaped, at most one worker at a time
\* executes a live push of a (customer, product) slot against OPS.
THEOREM OneActivePush ==
    ASSUME Durable, Timely, SoloRetry
    PROVE  Spec => []OneActivePushPerSlot
PROOF
<1>1. IndInv => OneActivePushPerSlot
  <2> SUFFICES ASSUME IndInv, NEW e \in Executors, NEW f \in Executors, Pushing(e), Pushing(f),
                      call[exec[e].row].slot = call[exec[f].row].slot
               PROVE  e = f
    BY DEF OneActivePushPerSlot
  <2> USE DEF IndInv
  <2>1. ASSUME NEW x \in Executors, Pushing(x)
        PROVE  x \in Workers /\ exec[x].row \in Rows /\ status[exec[x].row] = "processing"
    <3>1. exec[x].pc = "run" /\ ~call[exec[x].row].dry
      BY <2>1 DEF Pushing, Running, IsLive
    <3>2. x \in Workers
      BY <3>1 DEF ServersPreview, Working, Executors
    <3> QED BY <3>1, <3>2 DEF RowInHand, RunProcessing, Working
  <2>2. exec[e].row = exec[f].row
    BY <2>1 DEF IndexUnique
  <2> QED BY <2>1, <2>2 DEF OneJobPerRow, Holders
<1> QED BY <1>1, Invariance, PTL

\* The result of a live push stands until an administrator retries it: no
\* execution that comes late, and no reaper, overwrites it.
THEOREM SettledFinal ==
    ASSUME Durable, Timely, SoloRetry
    PROVE  Spec => SettledUntilRetried
PROOF
<1>1. ASSUME IndInv, [Next]_vars, NEW r \in Rows, IsLive(r), status[r] \in Terminal
      PROVE  status'[r] = status[r] \/ status'[r] = "accepted"
  <2> USE <1>1 DEF IndInv
  <2>1. status[r] \notin Open /\ ~call[r].dry
    BY DEF IsLive, Terminal, Open
  <2>2. CASE \E s \in Servers : Reap(s) \/ Insert(s) \/ RetryReset(s)
    BY <2>1, <2>2 DEF Reap, Orphans, Insert, RetryReset, TypeOK
  <2>3. ASSUME NEW w \in Workers, FinalizeMark(w) PROVE status'[r] = status[r]
    <3>1. exec[w].row = r => status[r] = "failed"
      BY <2>1, <2>3 DEF FinalizeMark, MarkIsUnsettled
    <3> QED BY <2>3, <3>1 DEF FinalizeMark, TypeOK
  <2>4. CASE \E e \in Executors : Claim(e)
    BY <2>4 DEF Claim, Terminal, TypeOK
  <2>5. ASSUME NEW e \in Executors, NoClient(e) \/ Finish(e) PROVE status'[r] = status[r]
    <3>1. exec[e].pc = "run"
      BY <2>5 DEF NoClient, Finish, Running
    <3>2. exec[e].row # r
      BY <2>1, <3>1 DEF RunProcessing, ServersPreview, Executors, Working, Open
    <3> QED BY <2>5, <3>2 DEF NoClient, Finish, SetStatus, TypeOK
  <2> QED BY <2>2, <2>3, <2>4, <2>5, StatusSteps
<1>2. IndInv /\ [Next]_vars =>
        [\A r \in Rows : IsLive(r) /\ status[r] \in Terminal
                         => status'[r] = status[r] \/ status'[r] = "accepted"]_vars
  BY <1>1
<1> QED BY <1>2, Invariance, PTL DEF Spec, SettledUntilRetried
=============================================================================
