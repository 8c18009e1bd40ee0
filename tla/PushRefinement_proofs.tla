------------------------ MODULE PushRefinement_proofs ------------------------
(***************************************************************************)
(* The gateway implements PushSlot: every step of PushLifecycle moves live *)
(* rows the way PushSlot allows, or leaves them where they are.            *)
(***************************************************************************)
EXTENDS PushLifecycle_proofs

\* The mapping, as PushLifecycle states it for the instance Slot.
HomeOf(r) == IF IsLive(r) THEN call[r].slot ELSE NoSlot

\* Row r is where it was, seen from PushSlot.
Rests(r) == PhaseOf(r)' = PhaseOf(r) /\ HomeOf(r)' = HomeOf(r)

\* No execution starts or ends.
NoneStartsOrEnds ==
    \A e \in Executors :
        /\ exec[e].pc = "run" <=> exec'[e].pc = "run"
        /\ exec[e].pc = "run" => exec'[e].row = exec[e].row

\* What PushSlot sees of a row depends on its columns and its execution.
LEMMA SameRowRests ==
    ASSUME NEW r \in Rows, status'[r] = status[r], call'[r] = call[r],
           Executed(r)' = Executed(r)
    PROVE  Rests(r)
BY DEF Rests, PhaseOf, HomeOf, IsLive

\* Dry runs are not pushes: PushSlot never sees them.
LEMMA DryRowRests ==
    ASSUME TypeOK, [Next]_vars, NEW r \in Rows, status[r] # "absent", call[r].dry
    PROVE  Rests(r)
PROOF
<1>1. status'[r] # "absent" /\ call'[r] = call[r]
  BY RowsStay
<1>2. ~IsLive(r) /\ ~IsLive(r)'
  BY <1>1 DEF IsLive
<1> QED BY <1>2 DEF Rests, PhaseOf, HomeOf

\* A row none of whose executions starts or ends is executed as before.
LEMMA ExecutedStays ==
    ASSUME NEW r \in Rows,
           \A e \in Executors :
              (exec[e].pc = "run" /\ exec[e].row = r) <=> (exec'[e].pc = "run" /\ exec'[e].row = r)
    PROVE  Executed(r)' = Executed(r)
BY DEF Executed, Running

\* When every row rests, PushSlot stutters.
LEMMA AllRest ==
    ASSUME \A r \in Rows : Rests(r)
    PROVE  UNCHANGED Slot!vars
BY DEF Rests, HomeOf, Slot!vars

\* A step after which one row has moved and all others rest is a Move.
LEMMA OneMoves ==
    ASSUME NEW r \in Rows, NEW from, NEW to,
           PhaseOf(r) \in from, PhaseOf(r)' = to, HomeOf(r)' = HomeOf(r),
           \A q \in Rows \ {r} : Rests(q)
    PROVE  Slot!Move(r, from, to)
BY DEF Rests, HomeOf, Slot!Move

\* A step that settles a set of unexecuted rows is a WriteOff.
LEMMA ManyWrittenOff ==
    ASSUME NEW S \in SUBSET Rows,
           \A r \in S : /\ PhaseOf(r) \in {"waiting", "abandoned"} /\ PhaseOf(r)' = "settled"
                        /\ HomeOf(r)' = HomeOf(r),
           \A q \in Rows \ S : Rests(q)
    PROVE  Slot!WriteOff(S)
BY DEF Rests, HomeOf, Slot!WriteOff

-----------------------------------------------------------------------------
(* What each step does to the executions, and to the live rows.             *)

\* An executor that moves on outside an execution starts and ends none.
LEMMA MoverRests ==
    ASSUME NEW e \in Executors, exec[e].pc # "run", exec'[e].pc # "run",
           \A f \in Executors \ {e} : exec'[f] = exec[f]
    PROVE  NoneStartsOrEnds
BY DEF NoneStartsOrEnds

\* Without starts and ends rows are executed as before.
LEMMA NoneExecuted ==
    ASSUME NoneStartsOrEnds, NEW r \in Rows
    PROVE  Executed(r)' = Executed(r)
<1>1. \A e \in Executors :
        (exec[e].pc = "run" /\ exec[e].row = r) <=> (exec'[e].pc = "run" /\ exec'[e].row = r)
  BY DEF NoneStartsOrEnds
<1> QED BY <1>1, ExecutedStays

\* What an executor executes is a row that exists, and for a live row the
\* executor is a worker, the only one, and the row is 'processing'.
LEMMA ExecutedRow ==
    ASSUME IndInv, NEW e \in Executors, exec[e].pc = "run"
    PROVE  /\ exec[e].row \in Rows /\ status[exec[e].row] # "absent"
           /\ ~call[exec[e].row].dry =>
                /\ e \in Workers /\ status[exec[e].row] = "processing"
                /\ \A f \in Executors : exec[f].pc = "run" /\ exec[f].row = exec[e].row => f = e
PROOF
<1>1. exec[e].row \in Rows /\ status[exec[e].row] # "absent"
  BY DEF IndInv, RowInHand, Working
<1>2. ASSUME ~call[exec[e].row].dry
      PROVE  e \in Workers /\ status[exec[e].row] = "processing"
  BY <1>2 DEF IndInv, ServersPreview, RunProcessing, Working, Executors
<1>3. ASSUME ~call[exec[e].row].dry, NEW f \in Executors, exec[f].pc = "run",
             exec[f].row = exec[e].row
      PROVE  f = e
  BY <1>1, <1>2, <1>3, LiveRowAlone DEF Working
<1> QED BY <1>1, <1>2, <1>3

\* Steps that neither write a row nor start or end an execution.
LEMMA QuietSteps ==
    ASSUME TypeOK, [Next]_vars
    PROVE  \/ status' = status /\ call' = call /\ NoneStartsOrEnds
           \/ \E s \in Servers : Reap(s) \/ Insert(s) \/ RetryReset(s)
           \/ \E w \in Workers : FinalizeMark(w)
           \/ \E e \in Executors : Claim(e) \/ NoClient(e) \/ Finish(e)
           \/ \E e \in Executors :
                /\ exec[e].pc = "run" /\ exec'[e].pc # "run"
                /\ \A f \in Executors \ {e} : exec'[f] = exec[f]
                /\ status' = status /\ call' = call
PROOF
<1> USE DEF dbVars
<1>s. Servers \subseteq Executors /\ Workers \subseteq Executors
  BY DEF Executors
<1> DEFINE Quiet  == status' = status /\ call' = call /\ NoneStartsOrEnds
           Ends(e) == /\ exec[e].pc = "run" /\ exec'[e].pc # "run"
                      /\ \A f \in Executors \ {e} : exec'[f] = exec[f]
                      /\ status' = status /\ call' = call
<1>i. Idle.pc = "idle"
  BY DEF Idle
<1>1. ASSUME NEW s \in Servers, Serve(s)
      PROVE  Quiet \/ Reap(s) \/ Insert(s) \/ RetryReset(s)
  <2>1. ASSUME NEW c \in Calls, ReceiveFirst(s, c) PROVE Quiet
    <3>1. exec'[s] = [Idle EXCEPT !.pc = "reap", !.call = c]
      BY <1>s, <2>1, Moves DEF ReceiveFirst
    <3>2. exec'[s].pc = "reap"
      BY <3>1 DEF Idle
    <3> QED BY <1>i, <1>s, <2>1, <3>2, Moves, MoverRests DEF ReceiveFirst
  <2>2. ASSUME NEW c \in Calls, ReceiveReplay(s, c) PROVE Quiet
    <3>1. PICK r \in Rows :
            Become(s, [Idle EXCEPT !.pc = IF c.dry THEN "load" ELSE "enqueue",
                                   !.call = c, !.row = r])
      BY <2>2 DEF ReceiveReplay
    <3>2. /\ exec'[s] = [Idle EXCEPT !.pc = IF c.dry THEN "load" ELSE "enqueue",
                                     !.call = c, !.row = r]
          /\ \A f \in Executors \ {s} : exec'[f] = exec[f]
      BY <1>s, <3>1, Moves
    <3>3. exec'[s].pc \in {"load", "enqueue"}
      BY <3>2 DEF Idle
    <3> QED BY <1>i, <1>s, <2>2, <3>2, <3>3, MoverRests DEF ReceiveReplay
  <2>3. CASE Guard(s) \/ PreflightFails(s) \/ Enqueue(s)
    BY <1>s, <2>3, Moves, MoverRests DEF Guard, PreflightFails, Enqueue
  <2>4. ASSUME NEW r \in Rows, RetryRead(s, r) PROVE Quiet
    <3>1. exec'[s] = [Idle EXCEPT !.pc = "reset", !.row = r]
      BY <1>s, <2>4, Moves DEF RetryRead
    <3>2. exec'[s].pc = "reset"
      BY <3>1 DEF Idle
    <3> QED BY <1>i, <1>s, <2>4, <3>2, Moves, MoverRests DEF RetryRead
  <2> QED BY <1>1, <2>1, <2>2, <2>3, <2>4 DEF Serve
<1>2. ASSUME NEW w \in Workers, Work(w) PROVE Quiet \/ FinalizeMark(w)
  <2>1. ASSUME NEW r \in Rows, TakeJob(w, r) PROVE Quiet
    <3>1. exec'[w] = [Idle EXCEPT !.pc = "load", !.row = r, !.try = tries[r] + 1]
      BY <1>s, <2>1, Moves DEF TakeJob
    <3>2. exec'[w].pc = "load"
      BY <3>1 DEF Idle
    <3> QED BY <1>i, <1>s, <2>1, <3>2, Moves, MoverRests DEF TakeJob
  <2>2. CASE JobFails(w) \/ FinalizeRead(w)
    BY <1>s, <2>2, Moves, MoverRests DEF JobFails, FinalizeRead
  <2> QED BY <1>2, <2>1, <2>2 DEF Work
<1>3. ASSUME NEW e \in Executors, Execute(e)
      PROVE  Quiet \/ Claim(e) \/ NoClient(e) \/ Finish(e) \/ Ends(e)
  <2>1. CASE Load(e)
    <3>1. exec'[e] = [exec[e] EXCEPT !.pc = "claim", !.seen = status[exec[e].row],
                                     !.owes = callback[exec[e].row] = "pending"]
      BY <2>1, Moves DEF Load
    <3>2. exec[e] \in ExecState
      BY DEF TypeOK
    <3>3. exec'[e].pc = "claim"
      BY <3>1, <3>2 DEF ExecState
    <3> QED BY <2>1, <3>3, Moves, MoverRests DEF Load
  <2>2. CASE ClaimConflict(e) \/ ClaimRefused(e) \/ Notify(e) \/ Record(e) \/ Publish(e)
    BY <2>2, Moves, MoverRests DEF ClaimConflict, ClaimRefused, Notify, Record, Publish
  <2>3. CASE Raise(e)
    <3>1. /\ exec'[e].pc = "raised" /\ \A f \in Executors \ {e} : exec'[f] = exec[f]
          /\ status' = status /\ call' = call
      BY <2>3, Moves DEF Raise
    <3>2. exec[e].pc # "run" => NoneStartsOrEnds
      BY <3>1, MoverRests
    <3> QED BY <3>1, <3>2
  <2> QED BY <1>3, <2>1, <2>2, <2>3 DEF Execute
<1>4. ASSUME NEW e \in Executors, Release(e), status' = status, call' = call
      PROVE  Quiet \/ Ends(e)
  <2>1. exec'[e].pc = "idle" /\ \A f \in Executors \ {e} : exec'[f] = exec[f]
    BY <1>4, Moves
  <2>2. exec[e].pc # "run" => NoneStartsOrEnds
    BY <2>1, MoverRests
  <2> QED BY <1>4, <2>1, <2>2
<1>5. ASSUME NEW s \in Servers, InlineError(s) \/ ServerLost(s) PROVE Quiet \/ Ends(s)
  BY <1>s, <1>4, <1>5 DEF InlineError, ServerLost
<1>6. ASSUME NEW w \in Workers, WorkerLost(w) PROVE Quiet \/ Ends(w)
  BY <1>s, <1>4, <1>6 DEF WorkerLost, Redeliver, EndJob
<1>7. CASE (\E r \in Rows : Age(r)) \/ UNCHANGED vars
  BY <1>7 DEF Age, vars, NoneStartsOrEnds
<1> QED BY <1>s, <1>1, <1>2, <1>3, <1>5, <1>6, <1>7 DEF Next, Environment

-----------------------------------------------------------------------------
(* Step by step.                                                            *)

Maps == Slot!Next \/ UNCHANGED Slot!vars

\* Reaping writes off abandoned rows: no old row waits or is executed.
LEMMA ReapMaps ==
    ASSUME IndInv, [Next]_vars, NEW s \in Servers, Reap(s)
    PROVE  Maps
PROOF
<1> USE DEF IndInv
<1> DEFINE dead == Orphans(exec[s].call.slot)
           S == {r \in dead : ~call[r].dry}
<1>e. NoneStartsOrEnds
  <2>1. s \in Executors /\ exec[s].pc = "reap" /\ exec'[s].pc \in {"guard", "insert"}
        /\ \A f \in Executors \ {s} : exec'[f] = exec[f]
    BY Moves DEF Reap, Executors
  <2> QED BY <2>1, MoverRests
<1>w. /\ call' = call
      /\ \A r \in Rows : status'[r] = IF r \in dead THEN "failed" ELSE status[r]
  BY DEF Reap
<1>1. ASSUME NEW r \in S
      PROVE  /\ PhaseOf(r) = "abandoned" /\ PhaseOf(r)' = "settled"
             /\ HomeOf(r)' = HomeOf(r) /\ r \in Rows
  <2>1. r \in Rows /\ r \in old /\ status[r] \in Open /\ IsLive(r)
    BY DEF Orphans, RowsOf, IsLive
  <2>2. status[r] = "processing" /\ ~Executed(r)
    BY <2>1 DEF OldIsStuck, Open, Executed
  <2>3. PhaseOf(r) = "abandoned"
    BY <2>1, <2>2 DEF PhaseOf
  <2>4. IsLive(r)' /\ status'[r] = "failed"
    BY <1>w, <2>1 DEF IsLive
  <2>5. PhaseOf(r)' = "settled"
    BY <2>4 DEF PhaseOf
  <2>6. HomeOf(r)' = HomeOf(r)
    BY <1>w, <2>1, <2>4 DEF HomeOf
  <2> QED BY <2>1, <2>3, <2>5, <2>6
<1>2. ASSUME NEW q \in Rows \ S PROVE Rests(q)
  <2>1. CASE q \in dead
    <3>1. status[q] # "absent" /\ call[q].dry
      BY <2>1 DEF Orphans, RowsOf
    <3> QED BY <3>1, DryRowRests
  <2>2. CASE q \notin dead
    BY <1>e, <1>w, <2>2, NoneExecuted, SameRowRests
  <2> QED BY <2>1, <2>2
<1>3. S \in SUBSET Rows
  BY <1>1
<1>4. Slot!WriteOff(S)
  <2> HIDE DEF S
  <2> QED BY <1>1, <1>2, <1>3, ManyWrittenOff
<1> QED BY <1>3, <1>4 DEF Maps, Slot!Next

\* Inserting a live row accepts a push for its slot.
LEMMA InsertMaps ==
    ASSUME IndInv, [Next]_vars, NEW s \in Servers, Insert(s)
    PROVE  Maps
PROOF
<1> USE DEF IndInv
<1> DEFINE c == exec[s].call
<1>1. PICK r \in Rows :
        /\ status[r] = "absent"
        /\ status' = [status EXCEPT ![r] = "accepted"]
        /\ call' = [call EXCEPT ![r] = c]
        /\ Become(s, [exec[s] EXCEPT !.pc = IF c.dry THEN "load" ELSE "enqueue", !.row = r])
  BY DEF Insert
<1>2. c \in Calls /\ c.slot \in Slots
  BY ConstantsAssumption DEF Insert, CallInHand, CallType
<1>3. s \in Executors /\ exec[s] \in ExecState
  BY DEF Executors, TypeOK
<1>4. /\ exec'[s] = [exec[s] EXCEPT !.pc = IF c.dry THEN "load" ELSE "enqueue", !.row = r]
      /\ \A f \in Executors \ {s} : exec'[f] = exec[f]
  BY <1>1, <1>3, Moves
<1>5. exec'[s].pc \in {"load", "enqueue"}
  BY <1>3, <1>4 DEF ExecState
<1>e. NoneStartsOrEnds
  BY <1>3, <1>4, <1>5, MoverRests DEF Insert
<1>w. /\ status'[r] = "accepted" /\ call'[r] = c
      /\ \A q \in Rows \ {r} : status'[q] = status[q] /\ call'[q] = call[q]
  BY <1>1 DEF TypeOK
<1>6. \A q \in Rows \ {r} : Rests(q)
  BY <1>e, <1>w, NoneExecuted, SameRowRests
<1>7. ~IsLive(r) /\ PhaseOf(r) = "absent" /\ HomeOf(r) = NoSlot
  BY <1>1 DEF IsLive, PhaseOf, HomeOf
<1>8. CASE c.dry
  <2>1. ~IsLive(r)'
    BY <1>w, <1>8 DEF IsLive
  <2>2. Rests(r)
    BY <1>7, <2>1 DEF Rests, PhaseOf, HomeOf
  <2> QED BY <1>6, <2>2, AllRest DEF Maps
<1>9. CASE ~c.dry
  <2>1. IsLive(r)'
    BY <1>w, <1>9 DEF IsLive
  <2>2. PhaseOf(r)' = "waiting" /\ HomeOf(r)' = c.slot
    BY <1>w, <2>1 DEF PhaseOf, HomeOf
  <2>3. PICK x \in Slots : x = c.slot
    BY <1>2
  <2>4. Slot!Accept(r, x)
    BY <1>6, <1>7, <2>2, <2>3 DEF Rests, HomeOf, Slot!Accept
  <2>5. \E q \in Rows, y \in Slots : Slot!Accept(q, y)
    BY <2>4
  <2> QED BY <2>5 DEF Maps, Slot!Next
<1> QED BY <1>8, <1>9

\* A retry puts a settled push back to waiting.
LEMMA RetryMaps ==
    ASSUME IndInv, [Next]_vars, NEW s \in Servers, RetryReset(s)
    PROVE  Maps
PROOF
<1> USE DEF IndInv
<1>1. s \in Executors /\ exec[s].pc = "reset" /\ exec'[s].pc = "enqueue"
      /\ \A f \in Executors \ {s} : exec'[f] = exec[f]
  BY Moves DEF RetryReset, Executors
<1>e. NoneStartsOrEnds
  BY <1>1, MoverRests
<1>2. PICK r \in Rows : r = exec[s].row /\ status[r] # "absent" /\ status[r] \in Terminal
  BY <1>1 DEF RowInHand, ResetIsSettled
<1>w. /\ call' = call /\ status'[r] = "accepted"
      /\ \A q \in Rows \ {r} : status'[q] = status[q]
  BY <1>2 DEF RetryReset, TypeOK
<1>3. \A q \in Rows \ {r} : Rests(q)
  BY <1>e, <1>w, NoneExecuted, SameRowRests
<1>4. CASE call[r].dry
  BY <1>2, <1>3, <1>4, DryRowRests, AllRest DEF Maps
<1>5. CASE ~call[r].dry
  <2>1. IsLive(r) /\ IsLive(r)'
    BY <1>2, <1>5, <1>w DEF IsLive
  <2>2. PhaseOf(r) = "settled" /\ PhaseOf(r)' = "waiting"
    BY <1>2, <1>w, <2>1 DEF PhaseOf, Terminal
  <2>3. HomeOf(r)' = HomeOf(r)
    BY <1>w, <2>1 DEF HomeOf
  <2>4. Slot!Retry(r)
    BY <1>2, <1>3, <2>2, <2>3, OneMoves DEF Slot!Retry
  <2> QED BY <1>2, <2>4 DEF Maps, Slot!Next
<1> QED BY <1>4, <1>5

\* Marking a row failed writes it off: it waits or is abandoned, or is
\* failed already.
LEMMA MarkMaps ==
    ASSUME IndInv, [Next]_vars, NEW w \in Workers, FinalizeMark(w)
    PROVE  Maps
PROOF
<1> USE DEF IndInv
<1>1. w \in Executors /\ exec[w].pc = "mark" /\ exec'[w].pc = "idle"
      /\ \A f \in Executors \ {w} : exec'[f] = exec[f]
  BY Moves DEF FinalizeMark, Executors
<1>e. NoneStartsOrEnds
  BY <1>1, MoverRests
<1>2. PICK r \in Rows : r = exec[w].row /\ status[r] # "absent"
  BY <1>1 DEF RowInHand, Working
<1>w. /\ call' = call /\ status'[r] = "failed"
      /\ \A q \in Rows \ {r} : status'[q] = status[q]
  BY <1>2 DEF FinalizeMark, TypeOK
<1>3. \A q \in Rows \ {r} : Rests(q)
  BY <1>e, <1>w, NoneExecuted, SameRowRests
<1>4. CASE call[r].dry
  BY <1>2, <1>3, <1>4, DryRowRests, AllRest DEF Maps
<1>5. CASE ~call[r].dry /\ status[r] = "failed"
  <2>1. Rests(r)
    BY <1>2, <1>5, <1>e, <1>w, NoneExecuted, SameRowRests
  <2> QED BY <1>3, <2>1, AllRest DEF Maps
<1>6. CASE ~call[r].dry /\ status[r] # "failed"
  <2>1. IsLive(r) /\ IsLive(r)'
    BY <1>2, <1>6, <1>w DEF IsLive
  <2>2. status[r] \in {"accepted", "processing"}
    BY <1>1, <1>2, <1>6 DEF MarkIsUnsettled, Open
  <2>3. ~Executed(r)
    <3>1. \A e \in Executors : exec[e].pc = "run" => exec[e].row # r
      BY <1>1, <1>2, <1>6, LiveRowAlone DEF Working
    <3> QED BY <3>1 DEF Executed, Running
  <2>4. PhaseOf(r) \in {"waiting", "abandoned"}
    BY <2>1, <2>2, <2>3 DEF PhaseOf
  <2>5. PhaseOf(r)' = "settled" /\ HomeOf(r)' = HomeOf(r)
    BY <1>w, <2>1 DEF PhaseOf, HomeOf
  <2>6. {r} \in SUBSET Rows /\ Rows \ {r} = {q \in Rows : q \notin {r}}
    BY <1>2
  <2>7. Slot!WriteOff({r})
    BY <1>3, <2>4, <2>5, <2>6, ManyWrittenOff
  <2> QED BY <2>6, <2>7 DEF Maps, Slot!Next
<1> QED BY <1>4, <1>5, <1>6

\* A claim starts the push of a row that waits, and only in a slot that is
\* not closed: the partial unique index covers abandoned rows as well.
LEMMA ClaimMaps ==
    ASSUME IndInv, [Next]_vars, NEW e \in Executors, Claim(e)
    PROVE  Maps
PROOF
<1> USE DEF IndInv
<1>1. /\ exec'[e] = [exec[e] EXCEPT !.pc = "run",
                        !.seen = IF @ \in Terminal THEN @ ELSE "processing"]
      /\ \A f \in Executors \ {e} : exec'[f] = exec[f]
  BY Moves DEF Claim
<1>2. exec'[e].pc = "run" /\ exec'[e].row = exec[e].row
  <2>1. exec[e] \in ExecState
    BY DEF TypeOK
  <2> QED BY <1>1, <2>1 DEF ExecState
<1>3. PICK r \in Rows : r = exec[e].row /\ status[r] = "accepted" /\ exec[e].pc = "claim"
  BY DEF Claim, RowInHand, Working
<1>w. /\ call' = call /\ status'[r] = "processing"
      /\ \A q \in Rows \ {r} : status'[q] = status[q]
  BY <1>3 DEF Claim, TypeOK
<1>4. ASSUME NEW q \in Rows \ {r} PROVE Rests(q)
  <2>1. \A f \in Executors :
          (exec[f].pc = "run" /\ exec[f].row = q) <=> (exec'[f].pc = "run" /\ exec'[f].row = q)
    BY <1>1, <1>2, <1>3
  <2>2. Executed(q)' = Executed(q)
    BY <2>1, ExecutedStays
  <2> QED BY <1>w, <2>2, SameRowRests
<1>5. CASE call[r].dry
  <2>1. Rests(r)
    BY <1>3, <1>5, DryRowRests
  <2> QED BY <1>4, <2>1, AllRest DEF Maps
<1>6. CASE ~call[r].dry
  <2>1. IsLive(r) /\ IsLive(r)'
    BY <1>3, <1>6, <1>w DEF IsLive
  <2>2. Executed(r)'
    BY <1>2, <1>3 DEF Executed, Running
  <2>3. PhaseOf(r) = "waiting" /\ PhaseOf(r)' = "active"
    BY <1>3, <1>w, <2>1, <2>2 DEF PhaseOf
  <2>4. HomeOf(r)' = HomeOf(r) /\ HomeOf(r) = call[r].slot
    BY <1>w, <2>1 DEF HomeOf
  <2>5. ASSUME NEW q \in Rows, HomeOf(q) = HomeOf(r), PhaseOf(q) \in {"active", "abandoned"}
        PROVE  FALSE
    <3>1. IsLive(q) /\ status[q] = "processing"
      BY <2>5 DEF PhaseOf
    <3>2. q \in RowsOf(call[r].slot)
      BY <2>4, <2>5, <3>1 DEF HomeOf, RowsOf
    <3> QED BY <1>3, <3>1, <3>2 DEF Claim, SlotBusy
  <2>6. ~Slot!Closed(HomeOf(r))
    BY <2>5 DEF Slot!Closed, HomeOf
  <2>7. Slot!Move(r, {"waiting"}, "active")
    BY <1>4, <2>3, <2>4, OneMoves
  <2>8. Slot!Start(r)
    BY <2>6, <2>7 DEF Slot!Start, HomeOf
  <2> QED BY <2>8 DEF Maps, Slot!Next
<1> QED BY <1>5, <1>6

\* An execution that ends settles its push, or abandons it when no result is
\* written.
LEMMA EndMaps ==
    ASSUME IndInv, [Next]_vars, NEW e \in Executors, NEW r, exec[e].row = r,
           exec[e].pc = "run", exec'[e].pc # "run",
           \A f \in Executors \ {e} : exec'[f] = exec[f],
           call' = call, status'[r] = status[r] \/ status'[r] \in Terminal,
           \A q \in Rows \ {r} : status'[q] = status[q]
    PROVE  Maps
PROOF
<1>1. /\ r \in Rows /\ status[r] # "absent"
      /\ ~call[r].dry =>
           /\ status[r] = "processing"
           /\ \A f \in Executors : exec[f].pc = "run" /\ exec[f].row = r => f = e
  BY ExecutedRow
<1>2. ASSUME NEW q \in Rows \ {r} PROVE Rests(q)
  <2>1. \A f \in Executors :
          (exec[f].pc = "run" /\ exec[f].row = q) <=> (exec'[f].pc = "run" /\ exec'[f].row = q)
    OBVIOUS
  <2>2. Executed(q)' = Executed(q)
    BY <2>1, ExecutedStays
  <2> QED BY <2>2, SameRowRests
<1>3. CASE call[r].dry
  <2>1. Rests(r)
    BY <1>1, <1>3, DryRowRests DEF IndInv
  <2> QED BY <1>2, <2>1, AllRest DEF Maps
<1>4. CASE ~call[r].dry
  <2>1. IsLive(r) /\ IsLive(r)'
    BY <1>1, <1>4 DEF IsLive, Terminal
  <2>2. Executed(r) /\ ~Executed(r)'
    BY <1>1, <1>4 DEF Executed, Running
  <2>3. PhaseOf(r) = "active" /\ HomeOf(r)' = HomeOf(r)
    BY <1>1, <1>4, <2>1, <2>2 DEF PhaseOf, HomeOf
  <2>4. CASE status'[r] = status[r]
    <3>1. PhaseOf(r)' = "abandoned"
      BY <1>1, <1>4, <2>1, <2>2, <2>4 DEF PhaseOf
    <3>2. Slot!Abandon(r)
      BY <1>1, <1>2, <2>3, <3>1, OneMoves DEF Slot!Abandon
    <3> QED BY <1>1, <3>2 DEF Maps, Slot!Next
  <2>5. CASE status'[r] \in Terminal
    <3>1. PhaseOf(r)' = "settled"
      BY <2>1, <2>5 DEF PhaseOf, Terminal
    <3>2. Slot!Settle(r)
      BY <1>1, <1>2, <2>3, <3>1, OneMoves DEF Slot!Settle
    <3> QED BY <1>1, <3>2 DEF Maps, Slot!Next
  <2> QED BY <2>4, <2>5
<1> QED BY <1>3, <1>4

\* An execution that returns writes a result, unless its session holds that
\* very result from before a retry.
LEMMA ReturnMaps ==
    ASSUME IndInv, [Next]_vars, NEW e \in Executors, NoClient(e) \/ Finish(e)
    PROVE  Maps
PROOF
<1>1. /\ exec[e].pc = "run" /\ exec'[e].pc # "run" /\ call' = call
      /\ \A f \in Executors \ {e} : exec'[f] = exec[f]
  BY Moves DEF NoClient, Finish, Running, IndInv
<1>2. PICK r \in Rows : r = exec[e].row
  BY <1>1, ExecutedRow
<1>3. /\ status'[r] = status[r] \/ status'[r] \in Terminal
      /\ \A q \in Rows \ {r} : status'[q] = status[q]
  BY <1>2 DEF NoClient, Finish, SetStatus, Outcomes, Terminal, IndInv, TypeOK
<1> QED BY <1>1, <1>2, <1>3, EndMaps

\* Every step is a step of PushSlot or leaves every live row where it is.
LEMMA StepMaps ==
    ASSUME IndInv, [Next]_vars
    PROVE  [Slot!Next]_(Slot!vars)
PROOF
<1> SUFFICES Maps
  BY DEF Maps
<1>1. CASE status' = status /\ call' = call /\ NoneStartsOrEnds
  <2>1. \A r \in Rows : Rests(r)
    BY <1>1, NoneExecuted, SameRowRests
  <2> QED BY <2>1, AllRest DEF Maps
<1>2. ASSUME NEW e \in Executors, exec[e].pc = "run", exec'[e].pc # "run",
             \A f \in Executors \ {e} : exec'[f] = exec[f], status' = status, call' = call
      PROVE  Maps
  BY <1>2, EndMaps
<1> QED BY <1>1, <1>2, ReapMaps, InsertMaps, RetryMaps, MarkMaps, ClaimMaps, ReturnMaps,
           QuietSteps DEF IndInv

\* The gateway, its queue and its workers implement PushSlot: live pushes of a
\* slot are started one at a time, every start finds the slot open, and what
\* is retried, replayed, lost, reaped or marked failed on the way shows only as
\* a push that is abandoned, written off or put up again.
THEOREM ImplementsSlot ==
    ASSUME Durable, Timely, SoloRetry
    PROVE  Spec => ImplementsPushSlot
PROOF
<1>1. Init => Slot!Init
  BY DEF Init, Slot!Init, PhaseOf, IsLive
<1>2. IndInv /\ [Next]_vars => [Slot!Next]_(Slot!vars)
  BY StepMaps
<1> QED BY <1>1, <1>2, Invariance, PTL DEF Spec, ImplementsPushSlot, Slot!Spec
=============================================================================
