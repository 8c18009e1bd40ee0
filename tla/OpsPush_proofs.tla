---------------------------- MODULE OpsPush_proofs ----------------------------
(***************************************************************************)
(* Proofs about OpsPush, for any rows, product ids and plan.               *)
(***************************************************************************)
EXTENDS OpsPush, FiniteSetTheorems, WellFoundedInduction, TLAPS

Now == \A r \in Rows : pushedAt[r] <= now

\* Of some failed rows one is the latest, so that resumption reads a result.
LEMMA LatestExists ==
    ASSUME TypeOK, Now, NEW S \in SUBSET Rows, S # {}
    PROVE  \E q \in S : \A p \in S : pushedAt[p] <= pushedAt[q]
PROOF
<1> DEFINE T == {now - pushedAt[q] : q \in S}
<1>1. T \subseteq Nat /\ T # {}
  BY DEF TypeOK, Now
<1>2. PICK x \in T : \A y \in T : <<y, x>> \notin OpToRel(<, Nat)
  BY <1>1, NatLessThanWellFounded, WFMin
<1>3. \A y \in T : ~ (y < x)
  BY <1>1, <1>2 DEF OpToRel
<1>4. PICK q \in S : x = now - pushedAt[q]
  BY <1>2
<1>5. \A p \in S : pushedAt[p] <= pushedAt[q]
  <2> SUFFICES ASSUME NEW p \in S PROVE pushedAt[p] <= pushedAt[q]
    OBVIOUS
  <2>1. now \in Nat /\ pushedAt[p] \in Nat /\ pushedAt[q] \in Nat
    BY DEF TypeOK
  <2>2. ~ (now - pushedAt[p] < now - pushedAt[q])
    BY <1>3, <1>4
  <2> QED BY <2>1, <2>2
<1> QED BY <1>5

\* What resumption finds for a step is the result of a failed row, or nothing.
LEMMA PriorFound ==
    ASSUME TypeOK, Now, NEW r, NEW i \in Steps
    PROVE  \/ PriorResult(r, i) = NotOk
           \/ \E q \in Resumable(r) : PriorResult(r, i) = results[q][i]
PROOF
<1> DEFINE ok == {q \in Resumable(r) : \E j \in Namesakes(i) : results[q][j].ok}
<1>1. CASE ok = {}
  BY <1>1 DEF PriorResult
<1>2. CASE ok # {}
  <2>1. ok \in SUBSET Rows /\ ok \subseteq Resumable(r)
    BY DEF Resumable
  <2>2. \E q \in ok : \A p \in ok : pushedAt[p] <= pushedAt[q]
    BY <1>2, <2>1, LatestExists
  <2> HIDE DEF ok
  <2> DEFINE last == CHOOSE q \in ok : \A p \in ok : pushedAt[p] <= pushedAt[q]
  <2>3. last \in ok
    BY <2>2
  <2>4. PriorResult(r, i) = NotOk \/ PriorResult(r, i) = results[last][i]
    BY <1>2 DEF PriorResult, ok
  <2> HIDE DEF last
  <2> QED BY <2>1, <2>3, <2>4
<1> QED BY <1>1, <1>2

-----------------------------------------------------------------------------
(* Typing.                                                                  *)

Typed == TypeOK /\ Now /\ HoldsRow

\* The empty results, and an execution that has not begun, are well-formed.
LEMMA IdleTyped ==
    Idle \in ExecState /\ Nothing \in [Steps -> Result] /\ NoKids \in [Children -> SUBSET Copies]
PROOF
<1>1. NotOk \in Result
  BY DEF NotOk, Result, Requests, NoCopy, Copies
<1>2. Nothing \in [Steps -> Result]
  BY <1>1 DEF Nothing
<1>3. NoCopies \in [DOMAIN Plan -> Copies]
  BY DEF NoCopies, NoCopy, Copies
<1> QED BY <1>2, <1>3 DEF Idle, ExecState, Outcomes, NoKids

\* A request names the product and children that were got before, and the id
\* of a new child is one.
LEMMA RequestTyped ==
    ASSUME TypeOK, exec.pos \in Steps
    PROVE  Fingerprint \in Requests
PROOF
<1>1. Needs[exec.pos] \subseteq DOMAIN Plan /\ exec.got \in [DOMAIN Plan -> Copies]
  BY ConstantsAssumption DEF TypeOK, ExecState
<1>2. exec.base \in Ids \cup {NoId, BadId} /\ exec.pid \in Ids \cup {NoId, BadId}
  BY DEF TypeOK, ExecState
<1>3. {<<d, exec.got[d]>> : d \in Needs[exec.pos]} \in SUBSET ((DOMAIN Plan) \X Copies)
  BY <1>1
<1> QED BY <1>2, <1>3 DEF Fingerprint, Requests

LEMMA NewCopyTyped == ASSUME Typed, exec.pc # "idle" PROVE NewCopy \in Copies
PROOF
<1>1. exec.row \in Rows /\ exec.try \in Nat
  BY DEF Typed, HoldsRow, TypeOK, ExecState
<1>2. pushedAt[exec.row] \in Nat
  BY <1>1 DEF Typed, TypeOK
<1> QED BY <1>1, <1>2 DEF NewCopy, Copies

\* What the steps make of the execution is well-formed.
LEMMA StepsTyped ==
    ASSUME NEW x \in ExecState, NEW b \in Ids \cup {NoId}, exec \in ExecState
    PROVE  /\ Hit(x) \in ExecState
           /\ Fingerprint \in Requests => ProductDone(x, b) \in ExecState
           /\ Failed(x) \in ExecState
           /\ Again(x) \in ExecState
           /\ ChildFailed(x) \in ExecState
           /\ [x EXCEPT !.map = b] \in ExecState
PROOF
<1>1. Hit(x) \in ExecState
  BY DEF Hit, ExecState
<1>2. Failed(x) \in ExecState
  <2>1. \A o \in Outcomes : [x EXCEPT !.pc = "finish", !.outcome = o] \in ExecState
    BY DEF ExecState
  <2> QED BY <2>1 DEF Failed, Outcomes
<1>5. Again(x) \in ExecState
  BY DEF Again, ExecState
<1>6. [x EXCEPT !.map = b] \in ExecState
  BY DEF ExecState
<1>3. ASSUME Fingerprint \in Requests PROVE ProductDone(x, b) \in ExecState
  <2> DEFINE res == [ok |-> TRUE, fp |-> Fingerprint, id |-> b, copy |-> NoCopy]
  <2>1. res \in Result
    BY <1>3 DEF Result, NoCopy, Copies
  <2> HIDE DEF res
  <2>2. [x.done EXCEPT ![0] = res] \in [Steps -> Result]
    BY <2>1 DEF ExecState
  <2>3. \A d \in [Steps -> Result] : [x EXCEPT !.pos = 1, !.try = 1, !.pid = b, !.done = d] \in ExecState
    BY DEF ExecState
  <2>4. ProductDone(x, b) = [x EXCEPT !.pos = 1, !.try = 1, !.pid = b, !.done = [x.done EXCEPT ![0] = res]]
    BY DEF ProductDone, res
  <2> QED BY <2>2, <2>3, <2>4
<1>4. ChildFailed(x) \in ExecState
  <2>1. \A n, m \in Nat : [x EXCEPT !.pos = n, !.try = m] \in ExecState
    BY DEF ExecState
  <2>2. x.pos + 1 \in Nat
    BY DEF ExecState
  <2>3. [x EXCEPT !.pos = x.pos + 1, !.try = 1] \in ExecState
    BY <2>1, <2>2
  <2> QED BY <1>2, <2>3 DEF ChildFailed
<1> QED BY <1>1, <1>2, <1>3, <1>4, <1>5, <1>6

\* A fault is counted.
LEMMA StrikeTyped ==
    ASSUME TypeOK, NEW k, Strike(k)
    PROVE  /\ faults' \in [FaultKinds -> Nat]
           /\ \A j \in FaultKinds : faults[j] <= faults'[j]
           /\ k \in FaultKinds /\ faults'[k] > 0
BY ConstantsAssumption DEF Strike, TypeOK

\* Resumption finds well-formed results.
LEMMA PriorTyped == ASSUME Typed, NEW r PROVE PriorResults(r) \in [Steps -> Result]
PROOF
<1>1. ASSUME NEW i \in Steps PROVE PriorResult(r, i) \in Result
  <2>1. NotOk \in Result
    BY DEF NotOk, Result, Requests, NoCopy, Copies
  <2>2. \A q \in Rows : results[q][i] \in Result
    BY DEF Typed, TypeOK
  <2> QED BY <2>1, <2>2, PriorFound DEF Typed, Resumable
<1> QED BY <1>1 DEF PriorResults

\* Every step keeps the types of the storefront ...
LEMMA ShopTyped ==
    ASSUME Typed, [Next]_vars
    PROVE  shop' \in [Ids -> {"unused", "live", "deleted"}] /\ kids' \in [Ids -> [Children -> SUBSET Copies]]
PROOF
<1> USE DEF Typed, TypeOK
<1>1. CASE UNCHANGED opsVars
  BY <1>1 DEF opsVars
<1>2. CASE Clear
  <2>1. CASE exec.map \notin Live /\ kids' = kids
    BY <1>2, <2>1 DEF Clear
  <2>2. ASSUME exec.map \in Live, NEW k \in [Children -> SUBSET Copies], kids' = [kids EXCEPT ![exec.map] = k]
        PROVE  kids' \in [Ids -> [Children -> SUBSET Copies]]
    BY <2>2 DEF Live
  <2>3. ASSUME exec.map \in Live, NEW left \in SUBSET Children
        PROVE  [c \in Children |-> IF c \in left THEN kids[exec.map][c] ELSE {}] \in [Children -> SUBSET Copies]
    BY <2>3 DEF Live
  <2>4. \/ exec.map \notin Live /\ kids' = kids
        \/ exec.map \in Live /\ kids' = [kids EXCEPT ![exec.map] = NoKids]
        \/ /\ exec.map \in Live
           /\ \E left \in SUBSET Children :
                kids' = [kids EXCEPT ![exec.map] = [c \in Children |-> IF c \in left THEN kids[exec.map][c] ELSE {}]]
    BY <1>2 DEF Clear, Live
  <2>5. shop' = shop
    BY <1>2 DEF Clear
  <2> QED BY <2>1, <2>2, <2>3, <2>4, <2>5, IdleTyped
<1>3. ASSUME NEW i \in Ids, New(i)
      PROVE shop' \in [Ids -> {"unused", "live", "deleted"}] /\ kids' \in [Ids -> [Children -> SUBSET Copies]]
  BY <1>3 DEF New
<1>4. ASSUME NEW pos \in DOMAIN Plan, exec.pid \in Live, exec.pc = "step",
             Leave(pos, Before(pos)) \/ Leave(pos, Before(pos) \cup {NewCopy}), shop' = shop
      PROVE shop' \in [Ids -> {"unused", "live", "deleted"}] /\ kids' \in [Ids -> [Children -> SUBSET Copies]]
  <2>1. exec.pid \in Ids /\ Plan[pos] \in Children
    BY <1>4 DEF Live, Children
  <2>2. Before(pos) \in SUBSET Copies /\ NewCopy \in Copies
    BY <1>4, <2>1, NewCopyTyped DEF Before
  <2>3. \E n \in SUBSET Copies : kids' = [kids EXCEPT ![exec.pid][Plan[pos]] = n]
    BY <1>4, <2>2 DEF Leave
  <2>4. ASSUME NEW n \in SUBSET Copies, kids' = [kids EXCEPT ![exec.pid][Plan[pos]] = n]
        PROVE  kids' \in [Ids -> [Children -> SUBSET Copies]]
    <3>1. [kids[exec.pid] EXCEPT ![Plan[pos]] = n] \in [Children -> SUBSET Copies]
      BY <2>1
    <3>2. kids' = [kids EXCEPT ![exec.pid] = [kids[exec.pid] EXCEPT ![Plan[pos]] = n]]
      BY <2>4
    <3> QED BY <2>1, <3>1, <3>2
  <2> QED BY <1>4, <2>3, <2>4
<1>10. ASSUME NEW pos \in DOMAIN Plan,
              AddChild(pos) \/ AddLost(pos) \/ RefuseChild(pos) \/ Unacceptable(pos)
       PROVE  shop' \in [Ids -> {"unused", "live", "deleted"}] /\ kids' \in [Ids -> [Children -> SUBSET Copies]]
  <2>1. /\ exec.pc = "step" /\ shop' = shop
        /\ \/ exec.pid \in Live /\ (Leave(pos, Before(pos)) \/ Leave(pos, Before(pos) \cup {NewCopy}))
           \/ kids' = kids
    BY <1>10 DEF AddChild, AddLost, RefuseChild, Unacceptable, Accepts, Executing
  <2> QED BY <1>4, <2>1
<1>5. ASSUME NEW i \in Ids, Delete(i)
      PROVE shop' \in [Ids -> {"unused", "live", "deleted"}] /\ kids' \in [Ids -> [Children -> SUBSET Copies]]
  BY <1>5, IdleTyped DEF Delete
<1>6. CASE CreateProduct \/ CreateLost \/ Recover
  BY <1>1, <1>3, <1>6 DEF CreateProduct, CreateLost, Recover, Unused
<1>7. ASSUME NEW r \in Rows, Accept(r) \/ Retry(r) \/ Claim(r) PROVE UNCHANGED opsVars
  BY <1>7 DEF Accept, Retry, Claim, PutUp
<1>8. ASSUME Dedup \/ Skip \/ UpdateProduct \/ RefuseProduct \/ Finish \/ Crash
      PROVE  UNCHANGED opsVars
  BY <1>8 DEF Dedup, Skip, UpdateProduct, RefuseProduct, Finish, Crash
<1>9. UNCHANGED vars => UNCHANGED opsVars
  BY DEF vars
<1> QED BY <1>1, <1>2, <1>5, <1>6, <1>7, <1>8, <1>9, <1>10 DEF Next

\* ... of the rows and the mapping ...
LEMMA RowsTyped ==
    ASSUME Typed, [Next]_vars
    PROVE  /\ mapping' \in Ids \cup {NoId}
           /\ status' \in [Rows -> {"absent", "accepted", "processing"} \cup Outcomes]
           /\ results' \in [Rows -> [Steps -> Result]]
           /\ pushedAt' \in [Rows -> Nat] /\ now' \in Nat
           /\ Now'
PROOF
<1> DEFINE Rest == UNCHANGED <<results, pushedAt, now>>
<1> USE DEF Typed, TypeOK
<1>1. ASSUME NEW r \in Rows, Accept(r) \/ Retry(r)
      PROVE  /\ mapping' = mapping /\ now' = now + 1
             /\ status' = [status EXCEPT ![r] = "accepted"]
             /\ pushedAt' = [pushedAt EXCEPT ![r] = now + 1]
             /\ results' = results \/ results' = [results EXCEPT ![r] = Nothing]
  BY <1>1 DEF Accept, Retry, PutUp
<1>2. ASSUME NEW r \in Rows, Accept(r) \/ Retry(r)
      PROVE pushedAt' \in [Rows -> Nat] /\ now' \in Nat /\ Now'
  <2>1. now' = now + 1 /\ pushedAt' = [pushedAt EXCEPT ![r] = now + 1]
    BY <1>1, <1>2
  <2>2. pushedAt' \in [Rows -> Nat] /\ now' \in Nat
    BY <2>1
  <2>3. ASSUME NEW q \in Rows PROVE pushedAt'[q] <= now'
    BY <2>1 DEF Now
  <2> QED BY <2>2, <2>3 DEF Now
<1>3. ASSUME NEW r \in Rows, Accept(r) \/ Retry(r) PROVE results' \in [Rows -> [Steps -> Result]]
  BY <1>1, <1>3, IdleTyped
<1>4. ASSUME NEW r \in Rows, Claim(r)
      PROVE mapping' = mapping /\ Rest /\ status' = [status EXCEPT ![r] = "processing"]
  BY <1>4 DEF Claim
<1>5. CASE Finish
  <2>1. exec.outcome \in Outcomes /\ exec.done \in [Steps -> Result] /\ exec.map \in Ids \cup {NoId}
    BY DEF ExecState
  <2>2. MappingAfter(exec) \in Ids \cup {NoId}
    BY <2>1 DEF MappingAfter
  <2>3. results' \in [Rows -> [Steps -> Result]] /\ mapping' \in Ids \cup {NoId}
    BY <1>5, <2>1, <2>2 DEF Finish
  <2>4. status' \in [Rows -> {"absent", "accepted", "processing"} \cup Outcomes]
    BY <1>5, <2>1 DEF Finish
  <2>5. UNCHANGED <<pushedAt, now>>
    BY <1>5 DEF Finish
  <2> QED BY <2>3, <2>4, <2>5 DEF Now
<1>6. CASE Crash
  <2>1. mapping' = mapping /\ Rest /\ status' = [status EXCEPT ![exec.row] = "failed"]
    BY <1>6 DEF Crash
  <2>2. status' \in [Rows -> {"absent", "accepted", "processing"} \cup Outcomes]
    BY <2>1 DEF Outcomes
  <2> QED BY <2>1, <2>2 DEF Now
<1>7. CASE UNCHANGED dbVars
  BY <1>7 DEF dbVars, Now
<1>8. ASSUME \/ Dedup \/ Clear \/ Skip \/ CreateProduct \/ CreateLost \/ UpdateProduct
             \/ Recover \/ RefuseProduct
             \/ \E pos \in DOMAIN Plan : AddChild(pos) \/ AddLost(pos) \/ RefuseChild(pos) \/ Unacceptable(pos)
             \/ \E i \in Ids : Delete(i)
      PROVE  UNCHANGED dbVars
  BY <1>8 DEF Dedup, Clear, Skip, CreateProduct, CreateLost, UpdateProduct, Recover, RefuseProduct,
              AddChild, AddLost, RefuseChild, Unacceptable, Delete
<1>9. UNCHANGED vars => UNCHANGED dbVars
  BY DEF vars
<1>10. ASSUME NEW r \in Rows, Claim(r)
       PROVE status' \in [Rows -> {"absent", "accepted", "processing"} \cup Outcomes] /\ Now'
  BY <1>4, <1>10 DEF Now
<1>11. ASSUME NEW r \in Rows, Accept(r) \/ Retry(r)
       PROVE status' \in [Rows -> {"absent", "accepted", "processing"} \cup Outcomes]
  BY <1>1, <1>11
<1> QED BY <1>1, <1>2, <1>3, <1>4, <1>5, <1>6, <1>7, <1>8, <1>9, <1>10, <1>11 DEF Next

\* ... of the execution and the faults.
LEMMA ExecTyped ==
    ASSUME Typed, [Next]_vars
    PROVE  exec' \in ExecState /\ faults' \in [FaultKinds -> Nat]
PROOF
<1> USE DEF Typed, TypeOK
<1>f. faults' \in [FaultKinds -> Nat]
  <2>1. faults' = faults \/ \E k \in FaultKinds : Strike(k)
    BY DEF Next, vars, Accept, Retry, PutUp, Claim, Dedup, Clear, Skip, CreateProduct, CreateLost,
           UpdateProduct, Recover, RefuseProduct, AddChild, AddLost, RefuseChild, Unacceptable,
           Finish, Crash, Delete, FaultKinds
  <2> QED BY <2>1, StrikeTyped
<1>0. ExecState = ExecState /\ Hit(exec) \in ExecState /\ [exec EXCEPT !.map = NoId] \in ExecState
  BY StepsTyped
<1>p. \A pos : Executing(pos) /\ pos \in Steps => Fingerprint \in Requests
  BY RequestTyped DEF Executing
<1>z. 0 \in Steps
  BY ConstantsAssumption DEF Steps
<1>1. CASE UNCHANGED exec
  BY <1>f, <1>1
<1>2. ASSUME NEW r \in Rows, Claim(r) PROVE exec' \in ExecState
  <2>1. \A m \in Ids \cup {NoId} : [Idle EXCEPT !.pc = "dedup", !.row = r, !.map = m] \in ExecState
    BY IdleTyped DEF ExecState
  <2> QED BY <1>2, <2>1 DEF Claim
<1>3. CASE Dedup
  <2> DEFINE found(m) == [exec EXCEPT !.pc = "clear", !.map = m]
             next(x)  == [x EXCEPT !.pc = "clear"]
  <2>1. \A m \in Ids \cup {NoId} : found(m) \in ExecState
    BY DEF ExecState
  <2>2. \A x \in ExecState : next(x) \in ExecState
    BY DEF ExecState
  <2>3. (\E m \in Ids : exec' = found(m)) \/ exec' = next(exec) \/ exec' = next(Hit(exec))
    BY <1>3 DEF Dedup, Live
  <2> HIDE DEF found, next
  <2>4. exec' \in ExecState
    BY <1>0, <2>1, <2>2, <2>3
  <2> QED BY <1>f, <2>4
<1>4. CASE Clear
  <2>1. \A m \in Ids \cup {NoId} : \A p \in [Steps -> Result] : \A h \in BOOLEAN :
          [exec EXCEPT !.pc = "step", !.base = m, !.prior = p, !.hit = h] \in ExecState
    BY DEF ExecState
  <2>2. exec.map \in Ids \cup {NoId} /\ (exec.hit \/ faults' # faults) \in BOOLEAN
    BY DEF ExecState
  <2> QED BY <1>f, <1>4, <2>1, <2>2, PriorTyped DEF Clear
<1>5. CASE Skip
  <2> DEFINE next(q, g) == [exec EXCEPT !.pos = exec.pos + 1, !.try = 1,
                                        !.reused = exec.reused \cup {exec.pos}, !.pid = q, !.got = g]
  <2>1. /\ exec.pos \in Steps /\ exec.pos + 1 \in Nat /\ exec.reused \cup {exec.pos} \in SUBSET Steps
        /\ exec.pid \in Ids \cup {NoId, BadId} /\ exec.got \in [DOMAIN Plan -> Copies]
    BY <1>5 DEF ExecState, Skip, Reusable
  <2>2. \A q \in Ids \cup {NoId, BadId} : \A g \in [DOMAIN Plan -> Copies] : next(q, g) \in ExecState
    BY <2>1 DEF ExecState
  <2>3. exec.prior[exec.pos] \in Result /\ exec.prior[0] \in Result
    BY <1>z, <2>1 DEF ExecState
  <2>4. Stored(exec.prior[0].id) \in Ids \cup {NoId, BadId}
    BY <2>3 DEF Stored, Result
  <2>5. [exec.got EXCEPT ![exec.pos] = exec.prior[exec.pos].copy] \in [DOMAIN Plan -> Copies]
    BY <2>1, <2>3 DEF Result
  <2>6. \/ exec' = next(Stored(exec.prior[0].id), exec.got)
        \/ exec' = next(exec.pid, [exec.got EXCEPT ![exec.pos] = exec.prior[exec.pos].copy])
    <3>1. \A q, g : next(q, exec.got) = [Skipped(exec) EXCEPT !.pid = q]
                    /\ next(exec.pid, g) = [Skipped(exec) EXCEPT !.got = g]
      BY DEF Skipped, ExecState
    <3>2. Skipped(exec).got = exec.got
      BY DEF Skipped, ExecState
    <3>3. \/ exec' = [Skipped(exec) EXCEPT !.pid = Stored(exec.prior[0].id)]
          \/ exec' = [Skipped(exec) EXCEPT !.got = [exec.got EXCEPT ![exec.pos] = exec.prior[exec.pos].copy]]
      BY <1>5, <3>2 DEF Skip
    <3> HIDE DEF next
    <3> QED BY <3>1, <3>3
  <2>7. exec' \in ExecState
    <3> DEFINE first == Stored(exec.prior[0].id)
               later == [exec.got EXCEPT ![exec.pos] = exec.prior[exec.pos].copy]
    <3>1. first \in Ids \cup {NoId, BadId} /\ later \in [DOMAIN Plan -> Copies]
      BY <2>4, <2>5
    <3>2. exec' = next(first, exec.got) \/ exec' = next(exec.pid, later)
      BY <2>6
    <3> HIDE DEF first, later, next
    <3> QED BY ONLY <2>1, <2>2, <3>1, <3>2
  <2> QED BY <1>f, <2>7
<1>6. CASE CreateProduct
  BY <1>f, <1>0, <1>6, <1>p, <1>z, StepsTyped DEF CreateProduct, Live, Unused
<1>7. CASE CreateLost
  BY <1>f, <1>0, <1>7, StepsTyped DEF CreateLost
<1>8. CASE UpdateProduct
  BY <1>f, <1>8, <1>p, <1>z, StepsTyped DEF UpdateProduct, Live
<1>9. CASE Recover
  <2>1. Hit([exec EXCEPT !.map = NoId]) \in ExecState
    BY <1>0, StepsTyped
  <2> QED BY <1>f, <1>0, <1>9, <1>p, <1>z, <2>1, StepsTyped DEF Recover, Unused
<1>10. CASE RefuseProduct
  BY <1>f, <1>0, <1>10, StepsTyped DEF RefuseProduct
<1>11. ASSUME NEW pos \in DOMAIN Plan, AddChild(pos) PROVE exec' \in ExecState
  <2> DEFINE res == [ok |-> TRUE, fp |-> Fingerprint, id |-> exec.pid, copy |-> NewCopy]
             y   == [exec EXCEPT !.pos = exec.pos + 1, !.try = 1]
  <2>1. \A n \in Nat : [exec EXCEPT !.pos = n, !.try = 1] \in ExecState
    BY DEF ExecState
  <2>2. /\ exec.pos + 1 \in Nat /\ exec.pid \in Ids \cup {NoId, BadId}
        /\ exec.done \in [Steps -> Result] /\ exec.got \in [DOMAIN Plan -> Copies]
    BY DEF ExecState
  <2>3. pos \in Steps /\ NewCopy \in Copies /\ Fingerprint \in Requests
    <3>1. pos \in Steps
      BY ConstantsAssumption DEF Steps
    <3> QED BY <1>11, <1>p, <3>1, NewCopyTyped DEF AddChild, Executing
  <2>4. res \in Result
    BY <2>2, <2>3 DEF Result
  <2> HIDE DEF res
  <2> DEFINE got  == [exec.got EXCEPT ![pos] = NewCopy]
             done == [exec.done EXCEPT ![pos] = res]
  <2>5. done \in [Steps -> Result] /\ got \in [DOMAIN Plan -> Copies]
    BY <2>2, <2>3, <2>4
  <2>7. y \in ExecState /\ y.done = exec.done /\ y.got = exec.got
    BY <2>1, <2>2 DEF ExecState
  <2>8. exec' = y \/ exec' = [y EXCEPT !.got = got, !.done = done]
    <3>1. exec' = y \/ exec' = [y EXCEPT !.got = [y.got EXCEPT ![pos] = NewCopy],
                                        !.done = [y.done EXCEPT ![pos] = res]]
      BY <1>11 DEF AddChild, ChildDone, res
    <3> QED BY <2>7, <3>1
  <2>9. \A x \in ExecState : \A g \in [DOMAIN Plan -> Copies] : \A d \in [Steps -> Result] :
          [x EXCEPT !.got = g, !.done = d] \in ExecState
    BY ONLY DEF ExecState
  <2> HIDE DEF y, got, done
  <2>10. [y EXCEPT !.got = got, !.done = done] \in ExecState
    BY ONLY <2>5, <2>7, <2>9, Zenon
  <2> QED BY ONLY <2>7, <2>8, <2>10, Zenon
<1>12. ASSUME NEW pos \in DOMAIN Plan, AddLost(pos) \/ RefuseChild(pos) \/ Unacceptable(pos)
       PROVE exec' \in ExecState
  BY <1>0, <1>12, StepsTyped DEF AddLost, RefuseChild, Unacceptable
<1>13. CASE Finish \/ Crash
  BY <1>f, <1>13, IdleTyped DEF Finish, Crash
<1>14. ASSUME NEW r \in Rows, Accept(r) \/ Retry(r) PROVE UNCHANGED exec
  BY <1>14 DEF Accept, Retry, PutUp
<1>15. ASSUME NEW i \in Ids, Delete(i) PROVE UNCHANGED exec
  BY <1>15 DEF Delete
<1>16. UNCHANGED vars => UNCHANGED exec
  BY DEF vars
<1> QED BY <1>f, <1>1, <1>2, <1>3, <1>4, <1>5, <1>6, <1>7, <1>8, <1>9, <1>10, <1>11, <1>12, <1>13,
           <1>14, <1>15, <1>16 DEF Next

-----------------------------------------------------------------------------
(* What a step does, by variable.                                           *)

\* Products are created, one at a time, or deleted while nothing is executed.
LEMMA ShopMoves ==
    ASSUME [Next]_vars
    PROVE  \/ shop' = shop
           \/ \E i \in Unused : New(i)
           \/ \E i \in Live : Delete(i)
PROOF
<1>1. ASSUME NEW i \in Ids, Delete(i) PROVE i \in Live
  BY <1>1 DEF Delete, Live
<1> QED BY <1>1 DEF Next, vars, opsVars, dbVars, Accept, Retry, PutUp, Claim, Dedup, Clear, Skip,
           CreateProduct,
        CreateLost, UpdateProduct, Recover, RefuseProduct, AddChild, AddLost, RefuseChild,
        Unacceptable, Finish, Crash

\* A product that is there stays while an execution goes on.
LEMMA LiveStays ==
    ASSUME TypeOK, [Next]_vars, \A i \in Ids : ~Delete(i)
    PROVE  Live \subseteq Live'
PROOF
<1>1. CASE shop' = shop
  BY <1>1 DEF Live
<1>2. ASSUME NEW i \in Unused, New(i) PROVE Live \subseteq Live'
  BY <1>2 DEF New, Live, Unused, TypeOK
<1> QED BY <1>1, <1>2, ShopMoves DEF Live

\* Faults are not forgotten.
LEMMA FaultsStay ==
    ASSUME TypeOK, [Next]_vars
    PROVE  \A k \in FaultKinds : ~Happened(k)' => ~Happened(k) /\ ~Strike(k)
PROOF
<1>1. faults' = faults \/ \E k \in FaultKinds : Strike(k)
  BY DEF Next, vars, Accept, Retry, PutUp, Claim, Dedup, Clear, Skip, CreateProduct, CreateLost,
         UpdateProduct, Recover, RefuseProduct, AddChild, AddLost, RefuseChild, Unacceptable,
         Finish, Crash, Delete, FaultKinds
<1>2. \A j \in FaultKinds : faults[j] \in Nat /\ faults'[j] \in Nat /\ faults[j] <= faults'[j]
  <2>1. CASE faults' = faults
    BY <2>1 DEF TypeOK
  <2>2. ASSUME NEW k \in FaultKinds, Strike(k)
        PROVE \A j \in FaultKinds : faults[j] \in Nat /\ faults'[j] \in Nat /\ faults[j] <= faults'[j]
    BY <2>2, StrikeTyped DEF TypeOK
  <2> QED BY <1>1, <2>1, <2>2
<1>3. ASSUME NEW k \in FaultKinds, Strike(k) PROVE Happened(k)'
  BY <1>3, StrikeTyped DEF Happened
<1> QED BY <1>2, <1>3 DEF Happened

\* The rows and the mapping change when a row is put up, claimed or finished.
LEMMA RowMoves ==
    ASSUME [Next]_vars
    PROVE  \/ UNCHANGED <<status, results, mapping>>
           \/ \E r \in Rows :
                /\ status[r] \in {"absent", "partial_failure", "failed"}
                /\ status' = [status EXCEPT ![r] = "accepted"]
                /\ results' = results \/ results' = [results EXCEPT ![r] = Nothing]
                /\ UNCHANGED <<shop, kids, exec, mapping>>
           \/ \E r \in Rows : Claim(r)
           \/ Finish \/ Crash
PROOF
<1>1. ASSUME NEW r \in Rows, Accept(r) \/ Retry(r)
      PROVE  /\ status[r] \in {"absent", "partial_failure", "failed"}
             /\ status' = [status EXCEPT ![r] = "accepted"]
             /\ results' = results \/ results' = [results EXCEPT ![r] = Nothing]
             /\ UNCHANGED <<shop, kids, exec, mapping>>
  BY <1>1 DEF Accept, Retry, PutUp, opsVars
<1>2. \/ UNCHANGED <<status, results, mapping>>
      \/ \E r \in Rows : Accept(r) \/ Retry(r)
      \/ \E r \in Rows : Claim(r)
      \/ Finish \/ Crash
  BY DEF Next, vars, dbVars, Dedup, Clear, Skip, CreateProduct,
        CreateLost, UpdateProduct, Recover, RefuseProduct, AddChild, AddLost, RefuseChild,
        Unacceptable, Delete
<1> QED BY <1>1, <1>2

\* What all steps of a plan leave alone.
KeepsBasis ==
    exec.pc = "step" /\ exec'.row = exec.row /\ exec'.base = exec.base /\ exec'.prior = exec.prior

\* setProduct is answered with the id b ...
Answered(b) ==
    /\ KeepsBasis /\ exec.pos = 0
    /\ exec'.pc = "step" /\ exec'.pos = 1 /\ exec'.pid = b
    /\ exec'.map \in {exec.map, NoId} /\ exec'.outcome = exec.outcome /\ exec'.reused = exec.reused /\ exec'.got = exec.got
    /\ exec'.done = [exec.done EXCEPT ![0] = [ok |-> TRUE, fp |-> Fingerprint, id |-> b, copy |-> NoCopy]]

\* ... a new one, that of the mapping, that of a product which the lookup
\* finds, or none.
AnsweredNew  == \E i \in Unused : New(i) /\ Answered(i) /\ exec'.hit = exec.hit
AnsweredOld  == /\ \E i \in Live : Answered(i) /\ exec.base \in {i, NoId}
                /\ UNCHANGED opsVars /\ exec'.hit = exec.hit
AnsweredNone == /\ Answered(NoId)
                /\ UNCHANGED opsVars
                /\ \/ Strike("lookup") /\ exec'.hit
                   \/ exec.base \notin Known /\ exec'.hit = exec.hit

\* The push fails at setProduct or at a child that it cannot do without.
Fails ==
    /\ KeepsBasis /\ exec.pos \in CriticalSteps \cup {0}
    /\ exec'.pc = "finish" /\ exec'.outcome # "pushed"
    /\ exec'.pos = exec.pos /\ exec'.pid = exec.pid /\ exec'.map \in {exec.map, NoId}
    /\ exec'.done = exec.done /\ exec'.reused = exec.reused /\ exec'.got = exec.got
    /\ \/ exec'.hit
       \/ exec.pos # 0 /\ ~Accepts(exec.pos) /\ exec'.hit = exec.hit

\* The step is sent again, or it is a gallery that is passed over.
Repeats ==
    /\ KeepsBasis /\ (exec.pos = 0 \/ UNCHANGED shop)
    /\ exec'.pc = "step" /\ exec'.pos = exec.pos /\ exec'.pid = exec.pid /\ exec'.map = exec.map
    /\ exec'.done = exec.done /\ exec'.reused = exec.reused /\ exec'.got = exec.got /\ exec'.outcome = exec.outcome
    /\ exec'.hit
PassesOver ==
    /\ KeepsBasis /\ exec.pos \in DOMAIN Plan \ CriticalSteps /\ UNCHANGED shop
    /\ exec'.pc = "step" /\ exec'.pos = exec.pos + 1 /\ exec'.pid = exec.pid /\ exec'.map = exec.map
    /\ exec'.done = exec.done /\ exec'.reused = exec.reused /\ exec'.got = exec.got /\ exec'.outcome = exec.outcome
    /\ exec'.hit \/ (~Accepts(exec.pos) /\ exec'.hit = exec.hit)

\* The fields after the helpers of a step.
LEMMA HitFields ==
    ASSUME NEW x \in ExecState
    PROVE  /\ Hit(x) \in ExecState /\ Hit(x).hit
           /\ Hit(x).pc = x.pc /\ Hit(x).row = x.row /\ Hit(x).map = x.map /\ Hit(x).base = x.base
           /\ Hit(x).pid = x.pid /\ Hit(x).pos = x.pos /\ Hit(x).outcome = x.outcome
           /\ Hit(x).done = x.done /\ Hit(x).prior = x.prior /\ Hit(x).reused = x.reused /\ Hit(x).got = x.got
BY DEF Hit, ExecState

LEMMA UnmapFields ==
    ASSUME NEW x \in ExecState
    PROVE  LET y == [x EXCEPT !.map = NoId] IN
           /\ y \in ExecState /\ y.map = NoId
           /\ y.pc = x.pc /\ y.row = x.row /\ y.base = x.base /\ y.hit = x.hit
           /\ y.pid = x.pid /\ y.pos = x.pos /\ y.outcome = x.outcome
           /\ y.done = x.done /\ y.prior = x.prior /\ y.reused = x.reused /\ y.got = x.got
BY DEF ExecState

LEMMA FailedFields ==
    ASSUME NEW x \in ExecState
    PROVE  /\ Failed(x).pc = "finish" /\ Failed(x).outcome # "pushed" /\ Failed(x).hit = x.hit
           /\ Failed(x).row = x.row /\ Failed(x).map = x.map /\ Failed(x).base = x.base
           /\ Failed(x).pid = x.pid /\ Failed(x).pos = x.pos
           /\ Failed(x).done = x.done /\ Failed(x).prior = x.prior /\ Failed(x).reused = x.reused /\ Failed(x).got = x.got
BY DEF Failed, ExecState

LEMMA AgainFields ==
    ASSUME NEW x \in ExecState
    PROVE  /\ Again(x).hit = x.hit /\ Again(x).outcome = x.outcome /\ Again(x).pc = x.pc
           /\ Again(x).row = x.row /\ Again(x).map = x.map /\ Again(x).base = x.base
           /\ Again(x).pid = x.pid /\ Again(x).pos = x.pos
           /\ Again(x).done = x.done /\ Again(x).prior = x.prior /\ Again(x).reused = x.reused /\ Again(x).got = x.got
BY DEF Again, ExecState

LEMMA NextFields ==
    ASSUME NEW x \in ExecState
    PROVE  LET y == [x EXCEPT !.pos = x.pos + 1, !.try = 1] IN
           /\ y.hit = x.hit /\ y.outcome = x.outcome /\ y.pc = x.pc
           /\ y.row = x.row /\ y.map = x.map /\ y.base = x.base
           /\ y.pid = x.pid /\ y.pos = x.pos + 1
           /\ y.done = x.done /\ y.prior = x.prior /\ y.reused = x.reused /\ y.got = x.got
BY DEF ExecState

LEMMA DoneFields ==
    ASSUME NEW x \in ExecState, NEW b
    PROVE  LET y == ProductDone(x, b) IN
           /\ y.hit = x.hit /\ y.outcome = x.outcome /\ y.pc = x.pc
           /\ y.row = x.row /\ y.map = x.map /\ y.base = x.base
           /\ y.pid = b /\ y.pos = 1
           /\ y.done = [x.done EXCEPT ![0] = [ok |-> TRUE, fp |-> Fingerprint, id |-> b, copy |-> NoCopy]]
           /\ y.prior = x.prior /\ y.reused = x.reused /\ y.got = x.got
BY DEF ProductDone, ExecState

\* A failing child ends the push, or it is a gallery and passed over.
LEMMA ChildFailedMoves ==
    ASSUME TypeOK, NEW pos \in DOMAIN Plan, exec.pc = "step", exec.pos = pos, UNCHANGED shop,
           \/ exec' = ChildFailed(Hit(exec))
           \/ exec' = ChildFailed(exec) /\ ~Accepts(pos)
    PROVE  Fails \/ PassesOver
PROOF
<1>1. exec \in ExecState /\ Hit(exec) \in ExecState
  BY HitFields DEF TypeOK
<1>2. pos # 0 /\ (pos \in CriticalSteps <=> Plan[pos] \notin Gallery)
  BY ConstantsAssumption DEF CriticalSteps, Critical, Children
<1>3. CASE Plan[pos] \in Gallery
  <2>1. \/ exec' = [Hit(exec) EXCEPT !.pos = Hit(exec).pos + 1, !.try = 1]
        \/ exec' = [exec EXCEPT !.pos = exec.pos + 1, !.try = 1] /\ ~Accepts(pos)
    BY <1>1, <1>3, HitFields DEF ChildFailed
  <2>2. ASSUME NEW x \in {exec, Hit(exec)}, exec' = [x EXCEPT !.pos = x.pos + 1, !.try = 1],
               x.hit \/ (~Accepts(pos) /\ x = exec)
        PROVE  PassesOver
    <3>1. /\ x \in ExecState /\ x.pc = "step" /\ x.pos = pos /\ x.row = exec.row /\ x.map = exec.map
          /\ x.base = exec.base /\ x.pid = exec.pid /\ x.outcome = exec.outcome
          /\ x.done = exec.done /\ x.prior = exec.prior /\ x.reused = exec.reused /\ x.got = exec.got
      BY <1>1, HitFields
    <3>2. /\ exec'.hit = x.hit /\ exec'.outcome = x.outcome /\ exec'.pc = x.pc
          /\ exec'.row = x.row /\ exec'.map = x.map /\ exec'.base = x.base
          /\ exec'.pid = x.pid /\ exec'.pos = x.pos + 1
          /\ exec'.done = x.done /\ exec'.prior = x.prior /\ exec'.reused = x.reused /\ exec'.got = x.got
      BY <2>2, <3>1, NextFields
    <3> QED BY <1>2, <1>3, <2>2, <3>1, <3>2 DEF PassesOver, KeepsBasis
  <2> QED BY <1>1, <2>1, <2>2, HitFields
<1>4. CASE Plan[pos] \notin Gallery
  <2>1. exec' = Failed(Hit(exec)) \/ (exec' = Failed(exec) /\ ~Accepts(pos))
    BY <1>1, <1>4, HitFields DEF ChildFailed
  <2> QED BY <1>1, <1>2, <1>4, <2>1, HitFields, FailedFields DEF Fails, KeepsBasis
<1> QED BY <1>3, <1>4

LEMMA AgainMoves ==
    ASSUME TypeOK, exec.pc = "step", exec' = Again(Hit(exec)), exec.pos = 0 \/ UNCHANGED shop
    PROVE  Repeats
BY HitFields, AgainFields DEF Repeats, KeepsBasis, TypeOK

\* What the steps of setProduct make of the execution.
LEMMA ProductMoves ==
    ASSUME TypeOK, CreateProduct \/ CreateLost \/ UpdateProduct \/ Recover \/ RefuseProduct
    PROVE  AnsweredNew \/ AnsweredOld \/ AnsweredNone \/ Fails \/ Repeats
PROOF
<1> DEFINE y == [exec EXCEPT !.map = NoId]
<1>1. /\ exec \in ExecState /\ y \in ExecState /\ Hit(exec) \in ExecState
      /\ exec.pc = "step" /\ exec.pos = 0
  BY HitFields, UnmapFields DEF TypeOK, CreateProduct, CreateLost, UpdateProduct, Recover,
     RefuseProduct, Executing
<1>2. ASSUME NEW b, NEW x \in {exec, y, Hit(exec)}, exec' = ProductDone(x, b)
      PROVE  Answered(b) /\ exec'.hit = x.hit
  <2>1. x \in ExecState
    BY <1>1
  <2>2. /\ x.pc = "step" /\ x.map \in {exec.map, NoId} /\ x.row = exec.row
        /\ x.base = exec.base /\ x.outcome = exec.outcome
        /\ x.done = exec.done /\ x.prior = exec.prior /\ x.reused = exec.reused /\ x.got = exec.got
    <3>1. CASE x = exec
      BY <1>1, <3>1
    <3>2. CASE x = Hit(exec)
      BY <1>1, <3>2, HitFields
    <3>3. CASE x = y
      BY <1>1, <3>3, UnmapFields
    <3> QED BY <3>1, <3>2, <3>3
  <2> HIDE DEF y
  <2>3. /\ exec'.hit = x.hit /\ exec'.outcome = x.outcome /\ exec'.pc = x.pc
        /\ exec'.row = x.row /\ exec'.map = x.map /\ exec'.base = x.base
        /\ exec'.pid = b /\ exec'.pos = 1
        /\ exec'.done = [x.done EXCEPT ![0] = [ok |-> TRUE, fp |-> Fingerprint, id |-> b, copy |-> NoCopy]]
        /\ exec'.prior = x.prior /\ exec'.reused = x.reused /\ exec'.got = x.got
    BY <1>2, <2>1, DoneFields
  <2> QED BY <1>1, <2>2, <2>3 DEF Answered, KeepsBasis
<1>3. ASSUME NEW x \in {Hit(exec), Hit(y)}, exec' = Failed(x) PROVE Fails
  <2>1. /\ x \in ExecState /\ x.hit /\ x.pc = "step" /\ x.pos = 0 /\ x.map \in {exec.map, NoId}
        /\ x.row = exec.row /\ x.base = exec.base /\ x.outcome = exec.outcome /\ x.pid = exec.pid
        /\ x.done = exec.done /\ x.prior = exec.prior /\ x.reused = exec.reused /\ x.got = exec.got
    <3>1. CASE x = Hit(exec)
      BY <1>1, <3>1, HitFields
    <3>2. CASE x = Hit(y)
      <4>1. /\ y.pc = "step" /\ y.pos = 0 /\ y.map = NoId
            /\ y.row = exec.row /\ y.base = exec.base /\ y.outcome = exec.outcome /\ y.pid = exec.pid
            /\ y.done = exec.done /\ y.prior = exec.prior /\ y.reused = exec.reused /\ y.got = exec.got
        BY <1>1, UnmapFields
      <4> HIDE DEF y
      <4> QED BY <1>1, <3>2, <4>1, HitFields
    <3> QED BY <3>1, <3>2
  <2> HIDE DEF y
  <2> QED BY <1>1, <1>3, <2>1, FailedFields DEF Fails, KeepsBasis
<1>4. y.hit = exec.hit /\ Hit(exec).hit
  BY <1>1, UnmapFields, HitFields
<1>5. ASSUME CreateProduct PROVE AnsweredNew \/ AnsweredOld \/ AnsweredNone
  <2>1. exec.base = NoId /\ NoId \notin Live
    BY <1>5, ConstantsAssumption DEF CreateProduct, Live
  <2>2. ASSUME NEW i \in Unused, New(i), exec' = ProductDone(exec, i) PROVE AnsweredNew
    BY <1>2, <2>2 DEF AnsweredNew
  <2>3. ASSUME NEW i \in Live, exec' = ProductDone(exec, i), UNCHANGED opsVars PROVE AnsweredOld
    BY <1>2, <2>1, <2>3 DEF AnsweredOld
  <2>4. ASSUME Strike("lookup"), exec' = ProductDone(Hit(exec), NoId), UNCHANGED opsVars
        PROVE AnsweredNone
    BY <1>2, <1>4, <2>4 DEF AnsweredNone
  <2> QED BY <1>5, <2>2, <2>3, <2>4 DEF CreateProduct
<1>6. ASSUME UpdateProduct PROVE AnsweredOld
  <2>1. exec.base \in Live /\ exec' = ProductDone(exec, exec.base) /\ UNCHANGED opsVars
    BY <1>6 DEF UpdateProduct
  <2> QED BY <1>2, <2>1 DEF AnsweredOld
<1>7. ASSUME Recover PROVE AnsweredNew \/ AnsweredNone \/ Fails
  <2>1. exec.base \notin Known
    BY <1>7 DEF Recover, Known
  <2>2. ASSUME NEW i \in Unused, New(i), exec' = ProductDone(y, i) PROVE AnsweredNew
    BY <1>2, <1>4, <2>2 DEF AnsweredNew
  <2>3. ASSUME exec' = ProductDone(y, NoId), UNCHANGED opsVars PROVE AnsweredNone
    BY <1>2, <1>4, <2>1, <2>3 DEF AnsweredNone
  <2> QED BY <1>3, <1>7, <2>2, <2>3 DEF Recover
<1>8. ASSUME CreateLost PROVE Fails \/ Repeats
  BY <1>1, <1>3, <1>8, AgainMoves DEF CreateLost
<1>9. ASSUME RefuseProduct PROVE Fails
  BY <1>3, <1>9 DEF RefuseProduct
<1> QED BY <1>5, <1>6, <1>7, <1>8, <1>9

\* What any step makes of the execution.
LEMMA ExecMoves ==
    ASSUME TypeOK, [Next]_vars
    PROVE  \/ exec' = exec /\ (exec = Idle \/ UNCHANGED opsVars)
           \/ \E r \in Rows : Claim(r)
           \/ Dedup \/ Clear \/ Skip
           \/ AnsweredNew \/ AnsweredOld \/ AnsweredNone
           \/ Fails \/ Repeats \/ PassesOver
           \/ \E pos \in DOMAIN Plan : AddChild(pos)
           \/ Finish \/ Crash
PROOF
<1>1. ASSUME NEW r \in Rows, Accept(r) \/ Retry(r) PROVE exec' = exec /\ UNCHANGED opsVars
  BY <1>1 DEF Accept, Retry, PutUp
<1>2. ASSUME NEW pos \in DOMAIN Plan, AddLost(pos) \/ RefuseChild(pos) \/ Unacceptable(pos)
      PROVE  Fails \/ Repeats \/ PassesOver
  <2>1. exec.pc = "step" /\ exec.pos = pos /\ UNCHANGED shop
    BY <1>2 DEF AddLost, RefuseChild, Unacceptable, Executing, opsVars
  <2>2. \/ exec' = Again(Hit(exec))
        \/ exec' = ChildFailed(Hit(exec))
        \/ exec' = ChildFailed(exec) /\ ~Accepts(pos)
    BY <1>2 DEF AddLost, RefuseChild, Unacceptable
  <2> QED BY <2>1, <2>2, AgainMoves, ChildFailedMoves
<1>3. ASSUME NEW i \in Ids, Delete(i) PROVE exec' = exec /\ exec = Idle
  BY <1>3 DEF Delete
<1>4. UNCHANGED vars => exec' = exec /\ UNCHANGED opsVars
  BY DEF vars
<1> QED BY <1>1, <1>2, <1>3, <1>4, ProductMoves DEF Next

\* The fields after a step that prepares the execution ...
LEMMA ClaimFields ==
    ASSUME NEW r \in Rows, Claim(r)
    PROVE  /\ exec.pc = "idle" /\ exec'.pc = "dedup" /\ exec'.row = r /\ exec'.map = mapping
           /\ exec'.base = NoId /\ exec'.pid = NoId /\ exec'.pos = 0 /\ exec'.outcome = "pushed"
           /\ exec'.done = Nothing /\ exec'.prior = Nothing /\ exec'.reused = {} /\ ~exec'.hit
           /\ UNCHANGED <<opsVars, mapping, results>>
           /\ status' = [status EXCEPT ![r] = "processing"]
BY DEF Claim, Idle

LEMMA DedupFields ==
    ASSUME TypeOK, Dedup
    PROVE  /\ exec.pc = "dedup" /\ exec'.pc = "clear" /\ exec'.row = exec.row
           /\ exec'.base = exec.base /\ exec'.pid = exec.pid /\ exec'.pos = exec.pos
           /\ exec'.outcome = exec.outcome /\ exec'.done = exec.done /\ exec'.prior = exec.prior
           /\ exec'.reused = exec.reused /\ exec'.got = exec.got
           /\ \/ exec'.map \in Live /\ exec'.hit = exec.hit
              \/ exec'.map = exec.map /\ (exec.map # NoId \/ Live = {}) /\ exec'.hit = exec.hit
              \/ exec'.map = exec.map /\ Strike("lookup") /\ exec'.hit
           /\ UNCHANGED <<opsVars, dbVars>>
PROOF
<1> DEFINE Looked(y) == /\ y.pc = "clear" /\ y.row = exec.row /\ y.base = exec.base /\ y.pid = exec.pid
                        /\ y.pos = exec.pos /\ y.outcome = exec.outcome /\ y.done = exec.done
                        /\ y.prior = exec.prior /\ y.reused = exec.reused /\ y.got = exec.got
<1>1. exec \in ExecState /\ exec.pc = "dedup" /\ UNCHANGED <<opsVars, dbVars>>
  BY DEF Dedup, TypeOK
<1>2. ASSUME NEW i, exec' = [exec EXCEPT !.pc = "clear", !.map = i]
      PROVE  Looked(exec') /\ exec'.map = i /\ exec'.hit = exec.hit
  BY <1>1, <1>2 DEF ExecState
<1>3. ASSUME exec' = [exec EXCEPT !.pc = "clear"]
      PROVE  Looked(exec') /\ exec'.map = exec.map /\ exec'.hit = exec.hit
  BY <1>1, <1>3 DEF ExecState
<1>4. ASSUME exec' = [Hit(exec) EXCEPT !.pc = "clear"]
      PROVE  Looked(exec') /\ exec'.map = exec.map /\ exec'.hit
  <2> DEFINE x == Hit(exec)
  <2>1. /\ x \in ExecState /\ x.hit /\ x.row = exec.row /\ x.map = exec.map /\ x.base = exec.base
        /\ x.pid = exec.pid /\ x.pos = exec.pos /\ x.outcome = exec.outcome
        /\ x.done = exec.done /\ x.prior = exec.prior /\ x.reused = exec.reused /\ x.got = exec.got
    BY <1>1, HitFields
  <2>2. exec' = [x EXCEPT !.pc = "clear"]
    BY <1>4
  <2> HIDE DEF x
  <2> QED BY <2>1, <2>2 DEF ExecState
<1> QED BY <1>1, <1>2, <1>3, <1>4 DEF Dedup

LEMMA ClearFields ==
    ASSUME TypeOK, Clear
    PROVE  /\ exec.pc = "clear" /\ exec'.pc = "step" /\ exec'.row = exec.row
           /\ exec'.base = exec.map /\ exec'.map = exec.map /\ exec'.pid = exec.pid
           /\ exec'.pos = exec.pos /\ exec'.outcome = exec.outcome /\ exec'.done = exec.done
           /\ exec'.prior = PriorResults(exec.row) /\ exec'.reused = exec.reused /\ exec'.got = exec.got
           /\ \/ exec'.hit
              \/ /\ exec'.hit = exec.hit
                 /\ kids' = IF exec.map \in Live THEN [kids EXCEPT ![exec.map] = NoKids] ELSE kids
           /\ \A i \in Ids \ Live : kids'[i] = kids[i]
           /\ UNCHANGED <<shop, dbVars>>
PROOF
<1> USE DEF TypeOK
<1>1. /\ exec.pc = "clear" /\ UNCHANGED <<shop, dbVars>>
      /\ exec' = [exec EXCEPT !.pc = "step", !.base = exec.map, !.prior = PriorResults(exec.row),
                              !.hit = @ \/ faults' # faults]
  BY DEF Clear
<1>2. /\ exec'.pc = "step" /\ exec'.row = exec.row /\ exec'.base = exec.map /\ exec'.map = exec.map
      /\ exec'.pid = exec.pid /\ exec'.pos = exec.pos /\ exec'.outcome = exec.outcome
      /\ exec'.done = exec.done /\ exec'.prior = PriorResults(exec.row)
      /\ exec'.reused = exec.reused /\ exec'.got = exec.got /\ exec'.hit = (exec.hit \/ faults' # faults)
  BY <1>1 DEF ExecState
<1>3. Strike("clear") => faults' # faults
  <2> SUFFICES ASSUME Strike("clear") PROVE faults' # faults
    OBVIOUS
  <2>1. faults' = [faults EXCEPT !["clear"] = faults["clear"] + 1] /\ "clear" \in FaultKinds
    BY DEF Strike, FaultKinds
  <2>2. faults["clear"] \in Nat /\ faults'["clear"] = faults["clear"] + 1
    BY <2>1
  <2> QED BY <2>2
<1>4. \/ /\ exec'.hit = exec.hit
         /\ kids' = IF exec.map \in Live THEN [kids EXCEPT ![exec.map] = NoKids] ELSE kids
      \/ exec'.hit
  <2>1. exec.hit \in BOOLEAN
    BY DEF ExecState
  <2> QED BY <1>2, <1>3, <2>1 DEF Clear
<1>5. \/ kids' = kids
      \/ exec.map \in Live /\ \E k : kids' = [kids EXCEPT ![exec.map] = k]
  BY DEF Clear
<1>6. \A i \in Ids \ Live : kids'[i] = kids[i]
  BY <1>5 DEF Live
<1> QED BY <1>1, <1>2, <1>4, <1>6

\* ... and after the steps of the plan that need no answer, or get one.
LEMMA SkipFields ==
    ASSUME TypeOK, Skip
    PROVE  /\ KeepsBasis /\ exec.pos \in Steps /\ exec.prior[exec.pos].ok
           /\ exec'.pc = "step" /\ exec'.pos = exec.pos + 1 /\ exec'.reused = exec.reused \cup {exec.pos}
           /\ exec'.map = exec.map /\ exec'.done = exec.done /\ exec'.outcome = exec.outcome
           /\ exec'.hit = exec.hit
           /\ exec'.pid = IF exec.pos = 0 THEN Stored(exec.prior[0].id) ELSE exec.pid
           /\ \A i \in DOMAIN Plan : i # exec.pos => exec'.got[i] = exec.got[i]
           /\ UNCHANGED opsVars
PROOF
<1> DEFINE x == Skipped(exec)
<1>1. /\ exec.pc = "step" /\ exec.pos \in Steps /\ exec.prior[exec.pos].ok /\ UNCHANGED opsVars
      /\ exec' = IF exec.pos = 0 THEN [x EXCEPT !.pid = Stored(exec.prior[exec.pos].id)]
                 ELSE [x EXCEPT !.got = [x.got EXCEPT ![exec.pos] = exec.prior[exec.pos].copy]]
  BY DEF Skip, Reusable
<1>2. /\ x.pc = exec.pc /\ x.pos = exec.pos + 1 /\ x.reused = exec.reused \cup {exec.pos}
      /\ x.pid = exec.pid /\ x.got = exec.got
      /\ x.map = exec.map /\ x.done = exec.done /\ x.outcome = exec.outcome
      /\ x.hit = exec.hit /\ x.row = exec.row /\ x.base = exec.base /\ x.prior = exec.prior
      /\ DOMAIN x = DOMAIN exec
  BY <1>1 DEF Skipped, TypeOK, ExecState
<1>3. exec.got \in [DOMAIN Plan -> Copies] /\ "pid" \in DOMAIN exec /\ "got" \in DOMAIN exec
  BY DEF TypeOK, ExecState
<1> HIDE DEF x
<1>4. CASE exec.pos = 0
  <2>1. exec' = [x EXCEPT !.pid = Stored(exec.prior[0].id)]
    BY <1>1, <1>4
  <2> QED BY <1>1, <1>2, <1>3, <1>4, <2>1 DEF KeepsBasis
<1>5. CASE exec.pos # 0
  <2>1. exec' = [x EXCEPT !.got = [x.got EXCEPT ![exec.pos] = exec.prior[exec.pos].copy]]
    BY <1>1, <1>5
  <2>2. \A i \in DOMAIN Plan : i # exec.pos => exec'.got[i] = exec.got[i]
    BY <1>2, <1>3, <2>1
  <2> QED BY <1>1, <1>2, <1>3, <1>5, <2>1, <2>2 DEF KeepsBasis
<1> QED BY <1>4, <1>5

LEMMA AddChildFields ==
    ASSUME TypeOK, NEW pos \in DOMAIN Plan, AddChild(pos)
    PROVE  /\ KeepsBasis /\ exec.pos = pos /\ exec.pid \in Live
           /\ exec'.pc = "step" /\ exec'.pos = exec.pos + 1 /\ exec'.reused = exec.reused
           /\ exec'.map = exec.map /\ exec'.outcome = exec.outcome /\ exec'.hit = exec.hit
           /\ exec'.pid = exec.pid
           /\ exec'.done = IF Plan[pos] \in Gallery THEN exec.done
                           ELSE [exec.done EXCEPT ![pos] = [ok |-> TRUE, fp |-> Fingerprint,
                                                            id |-> exec.pid, copy |-> NewCopy]]
           /\ exec'.got = IF Plan[pos] \in Gallery THEN exec.got
                          ELSE [exec.got EXCEPT ![pos] = NewCopy]
           /\ kids' = [kids EXCEPT ![exec.pid][Plan[pos]] = Before(pos) \cup {NewCopy}]
           /\ UNCHANGED shop
PROOF
<1> DEFINE y == [exec EXCEPT !.pos = exec.pos + 1, !.try = 1]
<1>1. /\ exec.pc = "step" /\ exec.pos = pos /\ exec.pid \in Live /\ UNCHANGED shop
      /\ kids' = [kids EXCEPT ![exec.pid][Plan[pos]] = Before(pos) \cup {NewCopy}]
      /\ exec' = ChildDone(exec, pos)
  BY DEF AddChild, Accepts, Leave, Executing
<1>2. /\ y.pc = exec.pc /\ y.pos = exec.pos + 1 /\ y.reused = exec.reused
      /\ y.pid = exec.pid /\ y.got = exec.got
      /\ y.map = exec.map /\ y.done = exec.done /\ y.outcome = exec.outcome
      /\ y.hit = exec.hit /\ y.row = exec.row /\ y.base = exec.base /\ y.prior = exec.prior
      /\ "got" \in DOMAIN y /\ "done" \in DOMAIN y
  BY DEF TypeOK, ExecState
<1>3. exec' = IF Plan[pos] \in Gallery THEN y
              ELSE [y EXCEPT !.got = [y.got EXCEPT ![pos] = NewCopy],
                             !.done = [y.done EXCEPT ![pos] = [ok |-> TRUE, fp |-> Fingerprint,
                                                              id |-> exec.pid, copy |-> NewCopy]]]
  BY <1>1 DEF ChildDone
<1> HIDE DEF y
<1>4. CASE Plan[pos] \in Gallery
  BY <1>1, <1>2, <1>3, <1>4 DEF KeepsBasis
<1>5. CASE Plan[pos] \notin Gallery
  <2>1. exec' = [y EXCEPT !.got = [y.got EXCEPT ![pos] = NewCopy],
                          !.done = [y.done EXCEPT ![pos] = [ok |-> TRUE, fp |-> Fingerprint,
                                                           id |-> exec.pid, copy |-> NewCopy]]]
    BY <1>3, <1>5
  <2>2. /\ exec'.pc = exec.pc /\ exec'.pos = exec.pos + 1 /\ exec'.reused = exec.reused
        /\ exec'.pid = exec.pid /\ exec'.map = exec.map /\ exec'.outcome = exec.outcome
        /\ exec'.hit = exec.hit /\ exec'.row = exec.row /\ exec'.base = exec.base /\ exec'.prior = exec.prior
        /\ exec'.got = [exec.got EXCEPT ![pos] = NewCopy]
        /\ exec'.done = [exec.done EXCEPT ![pos] = [ok |-> TRUE, fp |-> Fingerprint,
                                                    id |-> exec.pid, copy |-> NewCopy]]
    BY <1>2, <2>1
  <2> QED BY <1>1, <1>5, <2>2 DEF KeepsBasis
<1> QED BY <1>4, <1>5

\* The children of products change by clearing, by deleting their product, and
\* by the step that is under way.
LEMMA KidsMoves ==
    ASSUME TypeOK, [Next]_vars
    PROVE  \/ kids' = kids \/ Clear
           \/ \E i \in Ids : Delete(i)
           \/ /\ exec.pc = "step" /\ exec.pos \in DOMAIN Plan /\ exec.pid \in Live
              /\ \E s : kids' = [kids EXCEPT ![exec.pid][Plan[exec.pos]] = s]
PROOF
<1>1. ASSUME NEW pos \in DOMAIN Plan,
             AddChild(pos) \/ AddLost(pos) \/ RefuseChild(pos) \/ Unacceptable(pos)
      PROVE  \/ kids' = kids
             \/ /\ exec.pc = "step" /\ exec.pos = pos /\ exec.pid \in Live
                /\ \E s : kids' = [kids EXCEPT ![exec.pid][Plan[pos]] = s]
  BY <1>1 DEF AddChild, AddLost, RefuseChild, Unacceptable, Accepts, Executing, Leave
<1>2. \/ kids' = kids \/ Clear
      \/ \E pos \in DOMAIN Plan : AddChild(pos) \/ AddLost(pos) \/ RefuseChild(pos) \/ Unacceptable(pos)
      \/ \E j \in Ids : Delete(j)
  BY DEF Next, vars, opsVars, Accept, Retry, PutUp, Claim, Dedup, Skip, CreateProduct, New,
         CreateLost, UpdateProduct, Recover, RefuseProduct, Finish, Crash
<1> QED BY <1>1, <1>2

\* So the critical children of earlier steps stay as they are.
LEMMA EarlierStay ==
    ASSUME TypeOK, [Next]_vars, exec.pc = "step", NEW i \in CriticalSteps, i < exec.pos
    PROVE  kids'[exec.pid][Plan[i]] = kids[exec.pid][Plan[i]]
PROOF
<1>1. ~Clear /\ \A j \in Ids : ~Delete(j)
  BY DEF Clear, Delete, Idle
<1>2. i \in DOMAIN Plan /\ i \in Nat
  BY ConstantsAssumption DEF CriticalSteps
<1>3. ASSUME exec.pos \in DOMAIN Plan, exec.pid \in Live,
             NEW s, kids' = [kids EXCEPT ![exec.pid][Plan[exec.pos]] = s]
      PROVE  kids'[exec.pid][Plan[i]] = kids[exec.pid][Plan[i]]
  <2>1. Plan[i] # Plan[exec.pos]
    <3>1. i # exec.pos
      BY <1>2
    <3> QED BY <1>2, <1>3, <3>1, ConstantsAssumption
  <2>2. /\ exec.pid \in Ids /\ kids \in [Ids -> [Children -> SUBSET Copies]]
        /\ Plan[i] \in Children /\ Plan[exec.pos] \in Children
    BY <1>2, <1>3 DEF Live, TypeOK, Children
  <2>3. kids' = [kids EXCEPT ![exec.pid] = [kids[exec.pid] EXCEPT ![Plan[exec.pos]] = s]]
    BY <1>3
  <2>4. kids'[exec.pid] = [kids[exec.pid] EXCEPT ![Plan[exec.pos]] = s]
    BY <2>2, <2>3
  <2> QED BY <2>1, <2>2, <2>4
<1> QED BY <1>1, <1>3, KidsMoves

\* An execution ends with its results written, or without.
LEMMA EndFields ==
    ASSUME Finish \/ Crash
    PROVE  /\ exec' = Idle /\ UNCHANGED opsVars
           /\ mapping' \in {mapping, exec.map} \/ (mapping' = exec.pid /\ exec.pid \in Ids)
           /\ \/ /\ status' = [status EXCEPT ![exec.row] = "failed"]
                 /\ results' = results
              \/ /\ exec.pc = "finish" \/ Succeeding
                 /\ status' = [status EXCEPT ![exec.row] = exec.outcome]
                 /\ results' = [results EXCEPT ![exec.row] = exec.done]
PROOF
<1>1. CASE Finish
  BY <1>1 DEF Finish, MappingAfter, Succeeding
<1>2. CASE Crash
  BY <1>2 DEF Crash
<1> QED BY <1>1, <1>2

-----------------------------------------------------------------------------
(* The conjuncts of the inductive invariant, step by step.                  *)

LEMMA HoldsRowStep == ASSUME TypeOK, HoldsRow, [Next]_vars PROVE HoldsRow'
PROOF
<1>1. CASE exec' = Idle
  BY <1>1 DEF HoldsRow, Idle
<1>2. ASSUME NEW r \in Rows, Claim(r) PROVE HoldsRow'
  BY <1>2, ClaimFields DEF HoldsRow, TypeOK
<1>3. ASSUME exec'.row = exec.row, exec.pc # "idle", exec'.pc # "idle", status' = status
      PROVE HoldsRow'
  BY <1>3 DEF HoldsRow
<1>4. ASSUME exec' = exec,
             \/ status' = status
             \/ \E r \in Rows : /\ status[r] \in {"absent", "partial_failure", "failed"}
                                /\ status' = [status EXCEPT ![r] = "accepted"]
      PROVE  HoldsRow'
  BY <1>4 DEF HoldsRow, TypeOK
<1>5. CASE UNCHANGED <<status, results, mapping>>
  <2>1. \/ exec' = exec \/ exec' = Idle \/ \E r \in Rows : Claim(r)
        \/ exec'.row = exec.row /\ exec.pc # "idle" /\ exec'.pc # "idle"
    BY ExecMoves, DedupFields, ClearFields, SkipFields, AddChildFields, EndFields
       DEF AnsweredNew, AnsweredOld, AnsweredNone, Answered, Fails, Repeats, PassesOver, KeepsBasis
  <2> QED BY <1>1, <1>2, <1>3, <1>4, <1>5, <2>1
<1> QED BY <1>1, <1>2, <1>4, <1>5, RowMoves, EndFields

\* The variables of OpsPush keep their types.
THEOREM TypeCorrect == Spec => []TypeOK
PROOF
<1>1. Init => Typed
  BY IdleTyped DEF Init, Typed, TypeOK, Now, HoldsRow, Idle
<1>2. Typed /\ [Next]_vars => Typed'
  BY ShopTyped, RowsTyped, ExecTyped, HoldsRowStep DEF Typed, TypeOK
<1> QED BY <1>1, <1>2, PTL DEF Spec, Typed

LEMMA StartsAfreshStep == ASSUME TypeOK, StartsAfresh, [Next]_vars PROVE StartsAfresh'
PROOF
<1>1. exec.pos \in Nat
  BY DEF TypeOK, ExecState
<1>2. CASE exec' = exec
  BY <1>2 DEF StartsAfresh
<1>3. CASE exec' = Idle
  BY <1>3 DEF StartsAfresh, Idle
<1>4. ASSUME NEW r \in Rows, Claim(r) PROVE StartsAfresh'
  BY <1>4, ClaimFields DEF StartsAfresh
<1>5. CASE Dedup \/ Clear
  BY <1>5, DedupFields, ClearFields DEF StartsAfresh
<1>6. CASE Skip
  BY <1>1, <1>6, SkipFields DEF StartsAfresh, KeepsBasis
<1>7. ASSUME NEW b, Answered(b) PROVE StartsAfresh'
  BY <1>7 DEF StartsAfresh, Answered, KeepsBasis
<1>8. CASE AnsweredNew \/ AnsweredOld \/ AnsweredNone
  BY <1>7, <1>8 DEF AnsweredNew, AnsweredOld, AnsweredNone
<1>9. CASE Fails \/ Repeats \/ PassesOver
  BY <1>1, <1>9 DEF StartsAfresh, Fails, Repeats, PassesOver, KeepsBasis
<1>10. ASSUME NEW pos \in DOMAIN Plan, AddChild(pos) PROVE StartsAfresh'
  <2>1. /\ exec.pc = "step" /\ exec'.pc = "step" /\ exec'.pos = exec.pos + 1
        /\ exec'.reused = exec.reused /\ exec'.outcome = exec.outcome
    BY <1>10, AddChildFields DEF KeepsBasis
  <2> QED BY <1>1, <2>1 DEF StartsAfresh
<1> QED BY <1>2, <1>3, <1>4, <1>5, <1>6, <1>8, <1>9, <1>10, ExecMoves, EndFields

\* The last critical step exists, for there is one.
LEMMA LastCriticalExists == \E i \in LastCritical : i \in Nat \ {0} /\ i <= Len(Plan)
PROOF
<1> DEFINE T == {Len(Plan) - i : i \in CriticalSteps}
<1>0. Plan \in Seq(Children) /\ Critical # {}
  BY ConstantsAssumption
<1>1. /\ Len(Plan) \in Nat /\ DOMAIN Plan = 1 .. Len(Plan)
      /\ CriticalSteps \subseteq 1 .. Len(Plan) /\ CriticalSteps # {}
  BY ONLY <1>0 DEF CriticalSteps, Critical, Children
<1>2. T \subseteq Nat /\ T # {}
  <2>1. ASSUME NEW i \in CriticalSteps PROVE Len(Plan) - i \in Nat
    BY ONLY <1>1, <2>1
  <2> QED BY ONLY <1>1, <2>1
<1>3. PICK x \in T : \A y \in T : <<y, x>> \notin OpToRel(<, Nat)
  BY <1>2, NatLessThanWellFounded, WFMin
<1>4. \A y \in T : ~ (y < x)
  BY <1>2, <1>3 DEF OpToRel
<1>5. PICK i \in CriticalSteps : x = Len(Plan) - i
  BY <1>3
<1>6. \A j \in CriticalSteps : j <= i
  <2> SUFFICES ASSUME NEW j \in CriticalSteps PROVE j <= i
    OBVIOUS
  <2>1. ~ (Len(Plan) - j < Len(Plan) - i)
    BY <1>4, <1>5
  <2>2. i \in Nat /\ j \in Nat
    BY <1>1
  <2> QED BY <1>1, <2>1, <2>2
<1>7. i \in LastCritical /\ i \in Nat \ {0} /\ i <= Len(Plan)
  BY <1>1, <1>6 DEF LastCritical
<1> QED BY <1>7

\* No row that a push may resume from has got its last critical step through.
LEMMA PriorFallsShort ==
    ASSUME Typed, NeverResumed, NEW r PROVE FallsShort(PriorResults(r))
PROOF
<1> SUFFICES ASSUME NEW i \in LastCritical PROVE ~PriorResults(r)[i].ok
  BY DEF FallsShort
<1>1. i \in Steps
  BY ConstantsAssumption DEF LastCritical, CriticalSteps, Steps
<1>2. ASSUME NEW q \in Resumable(r) PROVE ~results[q][i].ok
  BY <1>2 DEF Resumable, NeverResumed, FallsShort
<1>3. ~PriorResult(r, i).ok
  BY <1>1, <1>2, PriorFound DEF Typed, NotOk
<1> QED BY <1>1, <1>3 DEF PriorResults

\* A result that a step writes names the product the step acted on.
LEMMA ReachesWritten ==
    ASSUME NEW d \in [Steps -> Result], Reaches(d), NEW j \in Steps, NEW f, NEW k, NEW i \in Live
    PROVE  Reaches([d EXCEPT ![j] = [ok |-> TRUE, fp |-> f, id |-> i, copy |-> k]])
BY DEF Reaches

LEMMA ReachesStay ==
    ASSUME Live \subseteq Live', NEW rs, Reaches(rs) PROVE \A i \in Steps : rs[i].ok => rs[i].id \in Live'
BY DEF Reaches

\* As long as lookups find what is there and nobody deletes, every id is known
\* and the children of a push have a product: only a fault, or a reused step
\* whose child is not there, fails it.
LEMMA NotAccepted ==
    ASSUME OwnKids, Underway, exec.pos \in Steps, exec.pid \in Live, ~Accepts(exec.pos)
    PROVE  \E d \in Needs[exec.pos] : d \in exec.reused
PROOF
<1>1. PICK d \in Needs[exec.pos] : exec.got[d] \notin kids[exec.pid][Plan[d]]
  BY DEF Accepts
<1>2. d \in CriticalSteps /\ d < exec.pos
  BY ConstantsAssumption DEF CriticalSteps
<1> QED BY <1>1, <1>2 DEF OwnKids

LEMMA FoundStep ==
    ASSUME Typed, StartsAfresh, OwnKids, IdsKnown, FailsByFault, [Next]_vars, Found'
    PROVE  IdsKnown' /\ FailsByFault'
PROOF
<1> DEFINE Reached(rs) == \A i \in Steps : rs[i].ok => rs[i].id \in Live'
<1> USE DEF Typed
<1>1. /\ ~Strike("lookup") /\ ~Strike("deleted") /\ Found
  BY FaultsStay DEF Found, FaultKinds
<1>2. Live \subseteq Live' /\ Known \subseteq Known'
  BY <1>1, LiveStays DEF Delete, Known
<1>3. \A rs : Reaches(rs) => Reached(rs)
  BY <1>2, ReachesStay
<1>4. 0 \in Steps /\ NoId \notin Live /\ Live \subseteq Ids
  BY ConstantsAssumption DEF Steps, Live
<1>5. /\ exec \in ExecState /\ exec.done \in [Steps -> Result] /\ exec.pos \in Nat
      /\ results \in [Rows -> [Steps -> Result]]
  BY DEF TypeOK, ExecState
<1> DEFINE ExecKnown == /\ {exec'.map, exec'.base, exec'.pid} \subseteq Known'
                        /\ Reached(exec'.prior) /\ Reached(exec'.done)
                        /\ FailsByFault'
<1>6. ExecKnown
  <2>1. CASE exec' = exec
    BY <1>2, <1>3, <2>1 DEF IdsKnown, FailsByFault, Underway, StaleNeed
  <2>2. CASE exec' = Idle
    <3>1. /\ exec'.pc = "idle" /\ exec'.map = NoId /\ exec'.base = NoId /\ exec'.pid = NoId
          /\ exec'.prior = Nothing /\ exec'.done = Nothing
      BY <2>2 DEF Idle
    <3>2. Reached(Nothing)
      BY DEF Nothing, NotOk
    <3> QED BY <3>1, <3>2 DEF FailsByFault, Underway, Known
  <2>3. ASSUME NEW r \in Rows, Claim(r) PROVE ExecKnown
    <3>1. Reached(Nothing)
      BY DEF Nothing, NotOk
    <3> QED BY <1>2, <2>3, <3>1, ClaimFields DEF FailsByFault, Underway, IdsKnown, Known
  <2>4. CASE Dedup
    <3>1. /\ exec'.pc = "clear" /\ exec'.base = exec.base /\ exec'.pid = exec.pid
          /\ exec'.done = exec.done /\ exec'.prior = exec.prior
          /\ exec'.map \in Live \cup {exec.map}
      BY <2>4, DedupFields
    <3> QED BY <1>2, <1>3, <3>1 DEF FailsByFault, Underway, IdsKnown, Known
  <2>5. CASE Clear
    <3>1. /\ exec'.pc = "step" /\ exec'.base = exec.map /\ exec'.pid = exec.pid /\ exec'.map = exec.map
          /\ exec'.done = exec.done /\ exec'.prior = PriorResults(exec.row) /\ exec'.pos = exec.pos
          /\ exec.pc = "clear"
      BY <2>5, ClearFields
    <3>2. ASSUME NEW i \in Steps, PriorResult(exec.row, i).ok
          PROVE PriorResult(exec.row, i).id \in Live
      <4>1. PriorResult(exec.row, i) # NotOk
        BY <3>2 DEF NotOk
      <4>2. PICK q \in Resumable(exec.row) : PriorResult(exec.row, i) = results[q][i]
        BY <4>1, PriorFound
      <4> QED BY <3>2, <4>2 DEF IdsKnown, Reaches, Resumable
    <3>3. Reaches(PriorResults(exec.row))
      BY <3>2 DEF Reaches, PriorResults
    <3>4. exec.pos = 0
      BY <3>1 DEF StartsAfresh
    <3> QED BY <1>2, <1>3, <3>1, <3>3, <3>4 DEF FailsByFault, Underway, IdsKnown, Known
  <2>6. CASE Skip
    <3>1. /\ exec.pc = "step" /\ exec'.pc = "step" /\ exec'.pos = exec.pos + 1
          /\ exec'.map = exec.map /\ exec'.base = exec.base
          /\ exec'.done = exec.done /\ exec'.prior = exec.prior
          /\ exec.prior[exec.pos].ok
          /\ exec'.pid = IF exec.pos = 0 THEN Stored(exec.prior[0].id) ELSE exec.pid
      BY <2>6, SkipFields DEF KeepsBasis
    <3>2. exec.pos = 0 => exec'.pid \in Live
      BY <1>4, <3>1 DEF IdsKnown, Reaches, Stored
    <3>3. exec.pos # 0 => exec'.pid \in Live
      BY <3>1 DEF FailsByFault, Underway
    <3> QED BY <1>2, <1>3, <3>1, <3>2, <3>3 DEF FailsByFault, Underway, IdsKnown, Known
  <2>7. ASSUME NEW b, b \in Live', Answered(b) PROVE ExecKnown
    <3>1. /\ exec'.pc = "step" /\ exec'.pid = b /\ exec'.map \in {exec.map, NoId}
          /\ exec'.base = exec.base /\ exec'.prior = exec.prior
          /\ exec'.done = [exec.done EXCEPT ![0] = [ok |-> TRUE, fp |-> Fingerprint, id |-> b, copy |-> NoCopy]]
      BY <2>7 DEF Answered, KeepsBasis
    <3>2. Reached(exec'.done)
      BY <1>3, <1>5, <2>7, <3>1 DEF IdsKnown
    <3> QED BY <1>2, <1>3, <2>7, <3>1, <3>2 DEF FailsByFault, Underway, IdsKnown, Known
  <2>8. CASE AnsweredNew \/ AnsweredOld \/ AnsweredNone
    <3>1. ~AnsweredNone
      BY <1>1 DEF AnsweredNone, IdsKnown
    <3>2. ASSUME NEW i \in Unused, New(i) PROVE i \in Live'
      BY <3>2 DEF New, Live, Unused, TypeOK
    <3>3. \E b \in Live' : Answered(b)
      BY <1>2, <2>8, <3>1, <3>2 DEF AnsweredNew, AnsweredOld
    <3> QED BY <2>7, <3>3
  <2>9. CASE Fails
    <3>1. /\ exec'.pc = "finish" /\ exec'.pid = exec.pid /\ exec'.map \in {exec.map, NoId}
          /\ exec'.base = exec.base /\ exec'.prior = exec.prior /\ exec'.done = exec.done
          /\ exec'.pos = exec.pos /\ exec'.reused = exec.reused
          /\ exec.pc = "step" /\ exec.pos \in CriticalSteps \cup {0}
          /\ exec'.hit \/ (exec.pos # 0 /\ ~Accepts(exec.pos))
      BY <2>9 DEF Fails, KeepsBasis
    <3>2. exec.pos \in Steps
      BY <1>4, <3>1, ConstantsAssumption DEF CriticalSteps, Steps
    <3>3. exec'.hit \/ \E d \in Needs[exec.pos] : d \in exec.reused
      BY <3>1, <3>2, NotAccepted DEF FailsByFault, Underway
    <3>4. FailsByFault'
      BY <3>1, <3>3 DEF FailsByFault, Underway, StaleNeed
    <3> QED BY <1>2, <1>3, <3>1, <3>4 DEF IdsKnown, Known
  <2>10. ASSUME /\ exec.pc = "step" /\ exec'.pc = "step" /\ exec'.pid = exec.pid /\ exec'.map = exec.map
                /\ exec'.base = exec.base /\ exec'.prior = exec.prior
                /\ exec'.pos = exec.pos \/ exec.pos # 0,
                Reached(exec'.done)
         PROVE  ExecKnown
    BY <1>2, <1>3, <2>10 DEF FailsByFault, Underway, IdsKnown, Known
  <2>11. \A pos \in DOMAIN Plan : pos \in Steps /\ pos # 0
    BY ConstantsAssumption DEF Steps
  <2>12. CASE Repeats \/ PassesOver
    BY <1>3, <2>10, <2>11, <2>12 DEF Repeats, PassesOver, KeepsBasis, IdsKnown
  <2>13. ASSUME NEW pos \in DOMAIN Plan, AddChild(pos) PROVE ExecKnown
    <3>1. /\ exec.pc = "step" /\ exec'.pc = "step" /\ exec'.pid = exec.pid /\ exec'.map = exec.map
          /\ exec'.base = exec.base /\ exec'.prior = exec.prior /\ exec.pos = pos /\ exec.pid \in Live
      BY <2>13, AddChildFields DEF KeepsBasis
    <3>2. Reaches(exec.done) /\ pos \in Steps
      BY <2>11 DEF IdsKnown
    <3>3. \/ exec'.done = exec.done
          \/ exec'.done = [exec.done EXCEPT ![pos] = [ok |-> TRUE, fp |-> Fingerprint,
                                                      id |-> exec.pid, copy |-> NewCopy]]
      BY <2>13, AddChildFields
    <3>4. Reaches([exec.done EXCEPT ![pos] = [ok |-> TRUE, fp |-> Fingerprint,
                                              id |-> exec.pid, copy |-> NewCopy]])
      BY <1>5, <3>1, <3>2, ReachesWritten
    <3>5. Reached(exec'.done)
      BY <1>3, <3>2, <3>3, <3>4
    <3> QED BY <2>10, <2>11, <3>1, <3>5
  <2> QED BY <2>1, <2>2, <2>3, <2>4, <2>5, <2>6, <2>8, <2>9, <2>12, <2>13, ExecMoves, EndFields
<1>7. mapping' \in Known' /\ \A r \in Rows : Reached(results'[r])
  <2>1. CASE UNCHANGED <<status, results, mapping>>
    BY <1>2, <1>3, <2>1 DEF IdsKnown
  <2>2. ASSUME NEW r \in Rows, mapping' = mapping,
               results' = results \/ results' = [results EXCEPT ![r] = Nothing]
        PROVE  mapping' \in Known' /\ \A q \in Rows : Reached(results'[q])
    <3>1. Reached(Nothing)
      BY DEF Nothing, NotOk
    <3> QED BY <1>2, <1>3, <1>5, <2>2, <3>1 DEF IdsKnown
  <2>3. CASE Finish \/ Crash
    BY <1>2, <1>3, <1>5, <2>3, EndFields DEF IdsKnown
  <2> QED BY <2>1, <2>2, <2>3, RowMoves, ClaimFields
<1> QED BY <1>6, <1>7 DEF IdsKnown, Reaches

\* While replies get through, too, a product is created only where there is none.
LEMMA OneLiveStep ==
    ASSUME Typed, StartsAfresh, Found, IdsKnown, OneLive, CreatesFirst, [Next]_vars, Reliable'
    PROVE  OneLive' /\ CreatesFirst'
PROOF
<1> USE DEF Typed
<1>1. ~Strike("lookup") /\ ~Strike("lost") /\ ~Strike("deleted")
  BY FaultsStay DEF Reliable, FaultKinds
<1>2. CASE shop' = shop
  <2>1. Live' = Live
    BY <1>2 DEF Live
  <2>2. OneLive'
    BY <2>1 DEF OneLive
  <2>3. \/ exec' = exec
        \/ exec'.pc \notin {"clear", "step"}
        \/ exec.pc = "dedup" /\ exec'.pc = "clear" /\ (exec'.map \in Live \/ exec'.map # NoId \/ Live = {})
        \/ exec.pc = "clear" /\ exec'.pc = "step" /\ exec'.base = exec.map
        \/ exec.pc = "step" /\ exec'.pc = "step" /\ exec'.base = exec.base /\ exec'.pos = exec.pos
        \/ exec'.pc = "step" /\ exec'.pos # 0
    <3>1. exec.pos \in Nat /\ \A pos \in DOMAIN Plan : pos + 1 # 0
      BY ConstantsAssumption DEF TypeOK, ExecState
    <3>2. Idle.pc \notin {"clear", "step"}
      BY DEF Idle
    <3>3. CASE Dedup \/ Clear \/ Skip
      BY <1>1, <3>1, <3>3, DedupFields, ClearFields, SkipFields
    <3>4. CASE AnsweredNew \/ AnsweredOld \/ AnsweredNone
      <4>1. \A b : Answered(b) => exec'.pc = "step" /\ exec'.pos = 1
        BY DEF Answered
      <4> QED BY <3>4, <4>1 DEF AnsweredNew, AnsweredOld, AnsweredNone
    <3>5. CASE Fails \/ Repeats \/ PassesOver
      BY <3>1, <3>5 DEF Fails, Repeats, PassesOver, KeepsBasis
    <3> QED BY <3>1, <3>2, <3>3, <3>4, <3>5, ExecMoves, ClaimFields, AddChildFields, EndFields
  <2>4. NoId \notin Live
    BY ConstantsAssumption DEF Live
  <2> QED BY <2>1, <2>2, <2>3, <2>4 DEF CreatesFirst
<1>3. ASSUME NEW i \in Unused, New(i) PROVE OneLive' /\ CreatesFirst'
  <2>1. CreateProduct
    <3>1. shop' # shop
      BY <1>3 DEF New, Unused, TypeOK
    <3>2. ~UNCHANGED opsVars /\ ~UNCHANGED shop
      BY <3>1 DEF opsVars
    <3>3. ~Recover
      BY <1>1 DEF Recover, IdsKnown, Known
    <3>4. \A j \in Ids : ~Delete(j)
      BY <1>1 DEF Delete
    <3> QED BY <1>1, <3>2, <3>3, <3>4 DEF Next, vars, Accept, Retry, PutUp, Claim, Dedup, Clear,
               Skip,
          CreateLost, UpdateProduct, RefuseProduct, AddChild, AddLost, RefuseChild, Unacceptable, Finish, Crash
  <2>2. exec.pc = "step" /\ exec.pos = 0 /\ exec.base = NoId /\ exec \in ExecState
    BY <2>1 DEF CreateProduct, Executing, TypeOK
  <2>3. Live = {}
    BY <2>2 DEF CreatesFirst
  <2>4. Live' = {i}
    BY <1>3, <2>3 DEF New, Live, Unused, TypeOK
  <2>5. exec'.pc = "step" /\ exec'.pos = 1
    <3>1. PICK j \in Unused : exec' = ProductDone(exec, j)
      BY <1>1, <2>1, <2>3 DEF CreateProduct
    <3>2. ProductDone(exec, j).pc = exec.pc /\ ProductDone(exec, j).pos = 1
      BY <2>2, DoneFields
    <3> QED BY <2>2, <3>1, <3>2
  <2> QED BY <2>4, <2>5 DEF OneLive, CreatesFirst
<1>4. \A i \in Live : ~Delete(i)
  BY <1>1 DEF Delete
<1> QED BY <1>2, <1>3, <1>4, ShopMoves

\* Products that are not there have no children.
LEMMA EmptyStep == ASSUME TypeOK, EmptyUnlessLive, [Next]_vars PROVE EmptyUnlessLive'
PROOF
<1> SUFFICES ASSUME NEW i \in Ids, i \notin Live' PROVE kids'[i] = NoKids
  BY DEF EmptyUnlessLive
<1>1. ASSUME Delete(i) PROVE kids'[i] = NoKids
  BY <1>1 DEF Delete, TypeOK
<1>2. ASSUME ~Delete(i) PROVE i \notin Live
  <2>1. i \in Live => i \in Live'
    <3>1. CASE shop' = shop
      BY <3>1 DEF Live
    <3>2. ASSUME NEW j \in Unused, New(j) PROVE i \in Live => i \in Live'
      BY <3>2 DEF New, Live, Unused, TypeOK
    <3>3. ASSUME NEW j \in Live, Delete(j) PROVE i \in Live => i \in Live'
      BY <1>2, <3>3 DEF Delete, Live, TypeOK
    <3> QED BY <3>1, <3>2, <3>3, ShopMoves
  <2> QED BY <2>1
<1>3. ASSUME i \notin Live PROVE kids'[i] = kids[i]
  <2>1. CASE Clear
    BY <1>3, <2>1, ClearFields
  <2>2. ASSUME NEW c, exec.pid \in Live, NEW s, kids' = [kids EXCEPT ![exec.pid][c] = s]
        PROVE  kids'[i] = kids[i]
    BY <1>3, <2>2 DEF TypeOK
  <2>3. ASSUME NEW j \in Ids, Delete(j) PROVE kids'[i] = kids[i]
    BY <1>3, <2>3 DEF Delete, Live, TypeOK
  <2> QED BY <2>1, <2>2, <2>3, KidsMoves
<1> QED BY <1>1, <1>2, <1>3 DEF EmptyUnlessLive

\* The last critical step is done by the execution itself, on a product that is there.
LEMMA NeverResumedStep ==
    ASSUME Typed, HoldsRow, StartsAfresh, NeverResumed, [Next]_vars
    PROVE  NeverResumed'
PROOF
<1> DEFINE Itself == \A i \in LastCritical :
                       /\ exec'.pos <= i => ~exec'.done[i].ok
                       /\ exec'.pc = "step" /\ exec'.pos > i => exec'.pid \in Live'
           Ended  == exec'.pc = "finish" => FallsShort(exec'.done)
           Exec   == FallsShort(exec'.prior) /\ Ended /\ Itself
<1> USE DEF Typed
<1>1. /\ exec \in ExecState /\ exec.done \in [Steps -> Result] /\ exec.pos \in Nat
      /\ results \in [Rows -> [Steps -> Result]]
  BY DEF TypeOK, ExecState
<1>2. /\ \A i \in LastCritical : i \in Nat \ {0} /\ i \in DOMAIN Plan /\ i \in Steps /\ Plan[i] \notin Gallery
      /\ \A i \in LastCritical, j \in CriticalSteps : j \in Nat /\ j <= i
      /\ \A i, j \in LastCritical : i = j
  BY ConstantsAssumption DEF LastCritical, CriticalSteps, Critical, Steps
<1>3. FallsShort(Nothing)
  BY <1>2 DEF FallsShort, Nothing, NotOk
<1>4. exec # Idle => Live \subseteq Live'
  BY LiveStays DEF Delete
<1>5. Exec
  <2>1. CASE exec' = exec
    <3>1. exec = Idle => exec.pc # "step"
      BY DEF Idle
    <3> QED BY <1>4, <2>1, <3>1 DEF NeverResumed
  <2>2. CASE exec' = Idle
    <3>1. exec'.pc = "idle" /\ exec'.done = Nothing /\ exec'.prior = Nothing
      BY <2>2 DEF Idle
    <3> QED BY <1>3, <3>1 DEF FallsShort
  <2>3. ASSUME NEW r \in Rows, Claim(r) PROVE Exec
    <3>1. exec'.pc = "dedup" /\ exec'.done = Nothing /\ exec'.prior = Nothing
      BY <2>3, ClaimFields
    <3> QED BY <1>3, <3>1 DEF FallsShort
  <2>4. CASE Dedup
    <3>1. exec'.pc = "clear" /\ exec'.done = exec.done /\ exec'.prior = exec.prior /\ exec'.pos = exec.pos
      BY <2>4, DedupFields
    <3> QED BY <3>1 DEF NeverResumed
  <2>5. CASE Clear
    <3>1. /\ exec.pc = "clear" /\ exec'.pc = "step" /\ exec'.done = exec.done
          /\ exec'.prior = PriorResults(exec.row) /\ exec'.pos = exec.pos
      BY <2>5, ClearFields
    <3>2. exec.pos = 0
      BY <3>1 DEF StartsAfresh
    <3> QED BY <1>2, <3>1, <3>2, PriorFallsShort DEF NeverResumed
  <2>6. CASE Skip
    <3>1. /\ exec.pc = "step" /\ exec'.pc = "step" /\ exec'.pos = exec.pos + 1
          /\ exec'.done = exec.done /\ exec'.prior = exec.prior /\ exec.prior[exec.pos].ok
          /\ exec.pos # 0 => exec'.pid = exec.pid
      BY <2>6, SkipFields DEF KeepsBasis
    <3>2. \A i \in LastCritical : exec.pos # i
      BY <3>1 DEF NeverResumed, FallsShort
    <3>3. exec # Idle
      BY <3>1 DEF Idle
    <3> QED BY <1>1, <1>2, <1>4, <3>1, <3>2, <3>3 DEF NeverResumed
  <2>7. ASSUME NEW b, Answered(b) PROVE Exec
    <3>1. /\ exec'.pc = "step" /\ exec'.pos = 1 /\ exec'.prior = exec.prior /\ exec.pos = 0
          /\ exec'.done = [exec.done EXCEPT ![0] = [ok |-> TRUE, fp |-> Fingerprint, id |-> b, copy |-> NoCopy]]
      BY <2>7 DEF Answered, KeepsBasis
    <3>2. \A i \in LastCritical : ~(1 > i) /\ 0 <= i /\ exec'.done[i] = exec.done[i]
      BY <1>1, <1>2, <3>1
    <3> QED BY <3>1, <3>2 DEF NeverResumed
  <2>8. CASE AnsweredNew \/ AnsweredOld \/ AnsweredNone
    BY <2>7, <2>8 DEF AnsweredNew, AnsweredOld, AnsweredNone
  <2>9. CASE Fails
    <3>1. /\ exec'.pc = "finish" /\ exec'.prior = exec.prior /\ exec'.done = exec.done
          /\ exec'.pos = exec.pos /\ exec.pos \in CriticalSteps \cup {0}
      BY <2>9 DEF Fails, KeepsBasis
    <3>2. \A i \in LastCritical : exec.pos <= i
      BY <1>2, <3>1
    <3> QED BY <3>1, <3>2 DEF NeverResumed, FallsShort
  <2>10. CASE Repeats
    <3>1. /\ exec.pc = "step" /\ exec'.pc = "step" /\ exec'.prior = exec.prior /\ exec'.done = exec.done
          /\ exec'.pos = exec.pos /\ exec'.pid = exec.pid
      BY <2>10 DEF Repeats, KeepsBasis
    <3>2. exec # Idle
      BY <3>1 DEF Idle
    <3> QED BY <1>4, <3>1, <3>2 DEF NeverResumed
  <2>11. CASE PassesOver
    <3>1. /\ exec.pc = "step" /\ exec'.pc = "step" /\ exec'.prior = exec.prior /\ exec'.done = exec.done
          /\ exec'.pos = exec.pos + 1 /\ exec'.pid = exec.pid /\ exec.pos \notin CriticalSteps
      BY <2>11 DEF PassesOver, KeepsBasis
    <3>2. exec # Idle /\ \A i \in LastCritical : exec.pos # i
      BY <3>1 DEF Idle, LastCritical
    <3>3. ASSUME NEW i \in LastCritical
          PROVE  /\ exec'.pos <= i => exec.pos <= i
                 /\ exec'.pos > i => exec.pos > i
      BY <1>1, <1>2, <3>1, <3>2
    <3> QED BY <1>4, <3>1, <3>2, <3>3 DEF NeverResumed
  <2>12. ASSUME NEW pos \in DOMAIN Plan, AddChild(pos) PROVE Exec
    <3>1. /\ exec.pc = "step" /\ exec'.pc = "step" /\ exec'.prior = exec.prior /\ exec.pos = pos
          /\ exec'.pos = exec.pos + 1 /\ exec'.pid = exec.pid /\ exec.pid \in Live
          /\ \A i \in Steps : i # pos => exec'.done[i] = exec.done[i]
      BY <1>1, <2>12, AddChildFields DEF KeepsBasis
    <3>2. exec # Idle
      BY <3>1 DEF Idle
    <3>3. ASSUME NEW i \in LastCritical, exec.pos + 1 <= i
          PROVE exec'.done[i] = exec.done[i] /\ exec.pos <= i
      BY <1>1, <1>2, <3>1, <3>3
    <3> QED BY <1>1, <1>2, <1>4, <3>1, <3>2, <3>3 DEF NeverResumed
  <2> QED BY <2>1, <2>2, <2>3, <2>4, <2>5, <2>6, <2>8, <2>9, <2>10, <2>11, <2>12, ExecMoves,
             EndFields
<1>6. ASSUME NEW q \in Rows, status'[q] # "pushed" PROVE FallsShort(results'[q])
  <2>1. CASE UNCHANGED <<status, results, mapping>>
    BY <1>6, <2>1 DEF NeverResumed
  <2>2. ASSUME NEW r \in Rows, status[r] \in {"absent", "partial_failure", "failed"},
               status' = [status EXCEPT ![r] = "accepted"],
               results' = results \/ results' = [results EXCEPT ![r] = Nothing]
        PROVE  FallsShort(results'[q])
    <3>1. status[q] # "pushed"
      BY <1>6, <2>2 DEF TypeOK
    <3>2. results'[q] = results[q] \/ results'[q] = Nothing
      BY <1>1, <2>2
    <3> QED BY <1>3, <3>1, <3>2 DEF NeverResumed
  <2>3. ASSUME NEW r \in Rows, Claim(r) PROVE FallsShort(results'[q])
    <3>1. results' = results /\ status' = [status EXCEPT ![r] = "processing"] /\ status[r] = "accepted"
      BY <2>3 DEF Claim
    <3>2. status[q] # "pushed"
      BY <1>6, <3>1 DEF TypeOK
    <3> QED BY <3>1, <3>2 DEF NeverResumed
  <2>4. CASE Finish \/ Crash
    <3>1. exec.row \in Rows /\ status[exec.row] = "processing"
      <4>1. exec.pc # "idle"
        BY <2>4 DEF Finish, Crash, HoldsRow
      <4> QED BY <4>1 DEF HoldsRow
    <3>2. CASE q # exec.row
      <4>1. status'[q] = status[q] /\ results'[q] = results[q]
        BY <2>4, <3>2, EndFields DEF TypeOK
      <4> QED BY <1>6, <4>1 DEF NeverResumed
    <3>3. CASE q = exec.row /\ results' = results
      BY <3>1, <3>3 DEF NeverResumed
    <3>4. CASE /\ q = exec.row /\ (exec.pc = "finish" \/ Succeeding)
               /\ status' = [status EXCEPT ![exec.row] = exec.outcome]
               /\ results' = [results EXCEPT ![exec.row] = exec.done]
      <4>1. status'[q] = exec.outcome /\ results'[q] = exec.done
        BY <3>1, <3>4 DEF TypeOK
      <4>2. exec.pc = "finish"
        BY <1>6, <3>4, <4>1 DEF StartsAfresh
      <4> QED BY <4>1, <4>2 DEF NeverResumed
    <3> QED BY <2>4, <3>2, <3>3, <3>4, EndFields
  <2> QED BY <2>1, <2>2, <2>3, <2>4, RowMoves
<1>7. \A rs : FallsShort(rs) <=> \A i \in LastCritical : ~rs[i].ok
  BY DEF FallsShort
<1> QED BY <1>5, <1>6, <1>7 DEF NeverResumed, FallsShort

\* The ids of the children that an execution added itself are those of copies
\* its product has.
LEMMA OwnKidsStep == ASSUME TypeOK, HoldsRow, StartsAfresh, OwnKids, [Next]_vars PROVE OwnKids'
PROOF
<1> SUFFICES ASSUME Underway', exec'.pid \in Live', NEW i \in CriticalSteps,
                    i < exec'.pos, i \notin exec'.reused
             PROVE  exec'.got[i] \in kids'[exec'.pid][Plan[i]]
  BY DEF OwnKids
<1>1. /\ exec'.pc = "step" /\ exec'.pos # 0 /\ exec.pos \in Nat
      /\ i \in Nat \ {0} /\ i \in DOMAIN Plan /\ Plan[i] \notin Gallery
  BY ConstantsAssumption DEF Underway, TypeOK, ExecState, CriticalSteps, Critical
<1>2. ASSUME exec.pc = "step", exec.pos # 0, exec.pid \in Live, i < exec.pos, i \notin exec.reused,
             exec'.got[i] = exec.got[i], exec'.pid = exec.pid
      PROVE  exec'.got[i] \in kids'[exec'.pid][Plan[i]]
  BY <1>2, EarlierStay DEF OwnKids, Underway
<1>3. CASE exec' = exec /\ (exec = Idle \/ UNCHANGED opsVars)
  <2>1. exec # Idle
    BY <1>1, <1>3 DEF Idle
  <2>2. Live' = Live /\ kids' = kids
    BY <1>3, <2>1 DEF Live, opsVars
  <2> QED BY <1>3, <2>2 DEF OwnKids, Underway
<1>4. CASE Dedup \/ Clear \/ Fails \/ Finish \/ Crash \/ \E r \in Rows : Claim(r)
  <2>1. CASE Clear
    BY <1>1, <2>1, ClearFields DEF StartsAfresh
  <2>2. CASE Dedup \/ Fails \/ Finish \/ Crash \/ \E r \in Rows : Claim(r)
    BY <1>1, <2>2, DedupFields, EndFields, ClaimFields DEF Fails, Idle
  <2> QED BY <1>4, <2>1, <2>2
<1>5. CASE Skip
  <2>1. /\ exec.pc = "step" /\ exec'.pos = exec.pos + 1 /\ exec'.reused = exec.reused \cup {exec.pos}
        /\ exec.pos # 0 => exec'.pid = exec.pid
        /\ i # exec.pos => exec'.got[i] = exec.got[i]
        /\ UNCHANGED opsVars
    BY <1>1, <1>5, SkipFields DEF KeepsBasis
  <2>2. i # exec.pos /\ i < exec.pos /\ i \notin exec.reused /\ exec.pos # 0
    BY <1>1, <2>1
  <2>3. Live' = Live
    BY <2>1 DEF opsVars, Live
  <2> QED BY <1>2, <2>1, <2>2, <2>3
<1>6. CASE AnsweredNew \/ AnsweredOld \/ AnsweredNone
  <2>1. exec'.pos = 1
    BY <1>6 DEF AnsweredNew, AnsweredOld, AnsweredNone, Answered
  <2> QED BY <1>1, <2>1
<1>7. CASE Repeats
  <2>1. /\ exec.pc = "step" /\ exec'.pos = exec.pos /\ exec'.pid = exec.pid /\ shop' = shop
        /\ exec'.reused = exec.reused /\ exec'.got = exec.got
    BY <1>1, <1>7 DEF Repeats, KeepsBasis
  <2>2. Live' = Live
    BY <2>1 DEF Live
  <2> QED BY <1>1, <1>2, <2>1, <2>2
<1>8. CASE PassesOver
  <2>1. /\ exec.pc = "step" /\ exec'.pos = exec.pos + 1 /\ exec'.pid = exec.pid /\ shop' = shop
        /\ exec'.reused = exec.reused /\ exec'.got = exec.got /\ exec.pos \notin CriticalSteps
        /\ exec.pos \in DOMAIN Plan
    BY <1>8 DEF PassesOver, KeepsBasis
  <2>2. Live' = Live
    BY <2>1 DEF Live
  <2>3. exec.pos # 0 /\ i # exec.pos
    BY <2>1, ConstantsAssumption
  <2>4. i < exec.pos
    BY <1>1, <2>1, <2>3
  <2> QED BY <1>2, <2>1, <2>2, <2>3, <2>4
<1>9. ASSUME NEW pos \in DOMAIN Plan, AddChild(pos)
      PROVE  exec'.got[i] \in kids'[exec'.pid][Plan[i]]
  <2>1. /\ exec.pc = "step" /\ exec.pos = pos /\ exec.pid \in Live /\ exec'.pid = exec.pid
        /\ exec'.pos = exec.pos + 1 /\ exec'.reused = exec.reused
        /\ exec'.got = IF Plan[pos] \in Gallery THEN exec.got ELSE [exec.got EXCEPT ![pos] = NewCopy]
        /\ kids' = [kids EXCEPT ![exec.pid][Plan[pos]] = Before(pos) \cup {NewCopy}]
    BY <1>9, AddChildFields DEF KeepsBasis
  <2>2. exec.got \in [DOMAIN Plan -> Copies] /\ pos # 0
    BY ConstantsAssumption DEF TypeOK, ExecState
  <2>3. CASE i # pos
    <3>1. i < exec.pos
      BY <1>1, <2>1, <2>3
    <3>2. exec'.got[i] = exec.got[i]
      BY <1>1, <2>1, <2>2, <2>3
    <3> QED BY <1>2, <2>1, <2>2, <3>1, <3>2
  <2>4. CASE i = pos
    <3>1. exec'.got[i] = NewCopy
      BY <1>1, <2>1, <2>2, <2>4
    <3>2. /\ exec.pid \in Ids /\ kids \in [Ids -> [Children -> SUBSET Copies]] /\ Plan[pos] \in Children
      BY <2>1 DEF Live, TypeOK, Children
    <3>3. kids'[exec.pid][Plan[pos]] = Before(pos) \cup {NewCopy}
      BY <2>1, <3>2
    <3> QED BY <2>1, <2>4, <3>1, <3>3
  <2> QED BY <2>3, <2>4
<1> QED BY <1>3, <1>4, <1>5, <1>6, <1>7, <1>8, <1>9, ExecMoves

\* While no fault hits the execution and it skips nothing, its product has the
\* children so far, once each.
LEMMA CleanStep ==
    ASSUME TypeOK, StartsAfresh, OwnKids, EmptyUnlessLive, CleanUnlessHit, [Next]_vars
    PROVE  CleanUnlessHit'
PROOF
<1> SUFFICES ASSUME ~exec'.hit PROVE CleanUnlessHit'
  BY DEF CleanUnlessHit
<1>1. exec \in ExecState /\ exec.pos \in Nat /\ NoId \notin Live /\ NoId \notin Live'
  BY ConstantsAssumption DEF TypeOK, ExecState, Live
<1>2. \A pos \in DOMAIN Plan : pos \in Nat \ {0} /\ Plan[pos] \in Children
  BY ConstantsAssumption DEF Children
<1>3. shop' = shop => Live' = Live
  BY DEF Live
<1>4. CASE exec'.pc \in {"idle", "dedup", "finish"}
  BY <1>4 DEF CleanUnlessHit, Underway
<1>5. CASE exec' = exec /\ (exec = Idle \/ UNCHANGED opsVars)
  <2>1. Idle.pc = "idle"
    BY DEF Idle
  <2>2. CASE UNCHANGED opsVars
    BY <1>3, <1>5, <2>2 DEF CleanUnlessHit, Underway, opsVars
  <2> QED BY <1>4, <1>5, <2>1, <2>2
<1>6. CASE Dedup
  <2>1. /\ exec'.pc = "clear" /\ shop' = shop
        /\ exec'.map \in Live \/ exec'.map # NoId \/ Live = {}
    BY <1>6, DedupFields DEF opsVars
  <2> QED BY <1>1, <1>3, <2>1 DEF CleanUnlessHit, Underway
<1>7. CASE Clear
  <2>1. /\ exec.pc = "clear" /\ exec'.pc = "step" /\ exec'.pos = exec.pos /\ exec'.base = exec.map
        /\ ~exec.hit /\ shop' = shop
        /\ kids' = IF exec.map \in Live THEN [kids EXCEPT ![exec.map] = NoKids] ELSE kids
    BY <1>7, ClearFields
  <2>2. exec'.pos = 0 /\ (exec'.base = NoId => Live = {})
    BY <2>1 DEF StartsAfresh, CleanUnlessHit
  <2>3. exec'.base \in Live => kids'[exec'.base] = NoKids
    BY <2>1 DEF TypeOK, Live
  <2> QED BY <1>3, <2>1, <2>2, <2>3 DEF CleanUnlessHit, Underway
<1>8. CASE Skip
  <2>1. exec'.pc = "step" /\ exec'.pos = exec.pos + 1 /\ exec'.reused = exec.reused \cup {exec.pos}
    BY <1>8, SkipFields DEF KeepsBasis
  <2>2. exec'.pos # 0 /\ exec'.reused # {}
    BY <1>1, <2>1
  <2> QED BY <2>1, <2>2 DEF CleanUnlessHit, Underway
<1>9. ASSUME NEW i, Answered(i), kids' = kids, i \in Live' => kids[i] = NoKids PROVE CleanUnlessHit'
  <2>1. exec'.pc = "step" /\ exec'.pos = 1 /\ exec'.pid = i
    BY <1>9 DEF Answered
  <2>2. i \in Live' => \A j \in DOMAIN Plan : ~(j < 1) /\ kids'[i][Plan[j]] = {}
    BY <1>2, <1>9 DEF NoKids
  <2> QED BY <2>1, <2>2 DEF CleanUnlessHit, Underway
<1>10. CASE AnsweredNew
  <2>1. PICK i \in Unused : New(i) /\ Answered(i)
    BY <1>10 DEF AnsweredNew
  <2>2. kids' = kids /\ kids[i] = NoKids
    BY <2>1 DEF New, Unused, Live, EmptyUnlessLive
  <2> QED BY <1>9, <2>1, <2>2
<1>11. CASE AnsweredOld
  <2>1. PICK i \in Live : Answered(i) /\ exec.base \in {i, NoId}
    BY <1>11 DEF AnsweredOld
  <2>2. exec.pc = "step" /\ exec.pos = 0 /\ ~exec.hit /\ kids' = kids
    BY <1>11, <2>1 DEF AnsweredOld, Answered, KeepsBasis, opsVars
  <2>3. exec.base = i /\ kids[i] = NoKids
    BY <2>1, <2>2 DEF CleanUnlessHit
  <2> QED BY <1>9, <2>1, <2>2, <2>3
<1>12. CASE AnsweredNone
  BY <1>1, <1>9, <1>12 DEF AnsweredNone, opsVars
<1>13. CASE Repeats
  BY <1>13 DEF Repeats
<1>14. CASE PassesOver
  <2>1. /\ exec'.pc = "step" /\ exec'.pos = exec.pos + 1 /\ exec'.pid = exec.pid
        /\ exec'.reused = exec.reused /\ shop' = shop /\ ~Accepts(exec.pos)
        /\ exec.pc = "step" /\ exec.pos \in DOMAIN Plan
    BY <1>14 DEF PassesOver, KeepsBasis
  <2>2. exec.pos \in Steps /\ exec.pos # 0 /\ exec'.pos # 0
    BY <1>1, <1>2, <2>1, ConstantsAssumption DEF Steps
  <2>3. exec.pid \notin Live \/ exec.reused # {}
    BY <2>1, <2>2, NotAccepted DEF Underway
  <2> QED BY <1>3, <2>1, <2>2, <2>3 DEF CleanUnlessHit, Underway
<1>15. ASSUME NEW pos \in DOMAIN Plan, AddChild(pos) PROVE CleanUnlessHit'
  <2>1. /\ exec.pc = "step" /\ exec.pos = pos /\ exec.pid \in Live /\ ~exec.hit
        /\ exec'.pc = "step" /\ exec'.pos = pos + 1 /\ exec'.pid = exec.pid /\ exec'.reused = exec.reused
        /\ kids' = [kids EXCEPT ![exec.pid][Plan[pos]] = Before(pos) \cup {NewCopy}]
    BY <1>15, AddChildFields DEF KeepsBasis
  <2>2. ASSUME exec.reused = {}, NEW j \in DOMAIN Plan
        PROVE  IF j < pos + 1 THEN Single(kids'[exec.pid][Plan[j]]) ELSE kids'[exec.pid][Plan[j]] = {}
    <3>1. \A i \in DOMAIN Plan : IF i < pos THEN Single(kids[exec.pid][Plan[i]])
                                  ELSE kids[exec.pid][Plan[i]] = {}
      BY <1>2, <2>1, <2>2 DEF CleanUnlessHit, Underway
    <3>2. Before(pos) = {}
      BY <1>2, <3>1 DEF Before
    <3>3. exec.pid \in Ids /\ kids \in [Ids -> [Children -> SUBSET Copies]]
      BY <2>1 DEF Live, TypeOK
    <3>4. kids'[exec.pid][Plan[j]] = IF Plan[j] = Plan[pos] THEN {NewCopy} ELSE kids[exec.pid][Plan[j]]
      BY <1>2, <2>1, <3>2, <3>3
    <3>5. Plan[j] = Plan[pos] <=> j = pos
      BY ConstantsAssumption
    <3>6. CASE j = pos
      BY <1>2, <3>4, <3>6 DEF Single
    <3>7. CASE j # pos
      <4>1. kids'[exec.pid][Plan[j]] = kids[exec.pid][Plan[j]]
        BY <3>4, <3>5, <3>7
      <4>2. j < pos + 1 <=> j < pos
        BY <1>2, <3>7
      <4> QED BY <3>1, <4>1, <4>2
    <3> QED BY <3>6, <3>7
  <2>3. pos + 1 # 0
    BY <1>2
  <2> QED BY <2>1, <2>2, <2>3 DEF CleanUnlessHit, Underway
<1>16. Fails => exec'.pc = "finish"
  BY DEF Fails
<1>17. (\E r \in Rows : Claim(r)) \/ Finish \/ Crash => exec'.pc \in {"idle", "dedup"}
  BY ClaimFields, EndFields DEF Idle
<1> QED BY <1>4, <1>5, <1>6, <1>7, <1>8, <1>10, <1>11, <1>12, <1>13, <1>14, <1>15, <1>16, <1>17,
           ExecMoves

-----------------------------------------------------------------------------
(* The theorems.                                                            *)

\* The inductive invariant of OpsPush holds, whatever faults happen.
THEOREM Invariance == Spec => []IndInv
PROOF
<1> DEFINE Inv == Now /\ IndInv
<1>1. Init => Inv
  <2> SUFFICES ASSUME Init PROVE Inv
    OBVIOUS
  <2>1. Typed
    BY IdleTyped DEF Init, Typed, TypeOK, Now, HoldsRow, Idle
  <2>2. Live = {} /\ exec = Idle /\ mapping = NoId /\ results = [r \in Rows |-> Nothing]
    BY DEF Init, Live
  <2>3. /\ exec.pc = "idle" /\ exec.map = NoId /\ exec.base = NoId /\ exec.pid = NoId /\ exec.pos = 0
        /\ exec.prior = Nothing /\ exec.done = Nothing /\ exec.outcome = "pushed"
        /\ exec.reused = {} /\ ~exec.hit
    BY <2>2 DEF Idle
  <2>4. Reaches(Nothing) /\ FallsShort(Nothing)
    <3>1. \A i \in LastCritical : i \in Steps
      BY ConstantsAssumption DEF LastCritical, CriticalSteps, Steps
    <3> QED BY <3>1 DEF Reaches, FallsShort, Nothing, NotOk
  <2>5. OneLive /\ CreatesFirst /\ IdsKnown /\ FailsByFault
    BY <2>2, <2>3, <2>4 DEF OneLive, CreatesFirst, IdsKnown, Known, FailsByFault, Underway
  <2>6. HoldsRow /\ StartsAfresh /\ CleanUnlessHit /\ OwnKids
    BY <2>2, <2>3 DEF HoldsRow, StartsAfresh, CleanUnlessHit, OwnKids, Underway
  <2>7. NeverResumed
    BY <2>2, <2>3, <2>4 DEF NeverResumed, FallsShort
  <2>8. EmptyUnlessLive
    BY DEF Init, EmptyUnlessLive
  <2> QED BY <2>1, <2>5, <2>6, <2>7, <2>8 DEF Typed, IndInv
<1>2. Inv /\ [Next]_vars => Inv'
  <2> SUFFICES ASSUME Inv, [Next]_vars PROVE Inv'
    OBVIOUS
  <2> USE DEF IndInv
  <2>1. Typed /\ Typed'
    BY ShopTyped, RowsTyped, ExecTyped, HoldsRowStep DEF Typed, TypeOK
  <2>2. ASSUME Found' PROVE Found /\ IdsKnown' /\ FailsByFault'
    <3>1. Found
      BY <2>2, FaultsStay DEF Found, FaultKinds
    <3> QED BY <2>1, <2>2, <3>1, FoundStep
  <2>3. ASSUME Reliable' PROVE OneLive' /\ CreatesFirst'
    <3>1. Reliable /\ Found
      BY <2>3, FaultsStay DEF Reliable, Found, FaultKinds
    <3> QED BY <2>1, <2>3, <3>1, OneLiveStep
  <2>4. HoldsRow' /\ StartsAfresh' /\ NeverResumed' /\ EmptyUnlessLive' /\ CleanUnlessHit' /\ OwnKids'
    BY <2>1, HoldsRowStep, StartsAfreshStep, NeverResumedStep, EmptyStep, CleanStep, OwnKidsStep DEF Typed
  <2> QED BY <2>1, <2>2, <2>3, <2>4 DEF Typed
<1>3. Inv => IndInv
  OBVIOUS
<1> HIDE DEF Inv
<1> QED BY <1>1, <1>2, <1>3, PTL DEF Spec

\* Crashes, refused mutations, half-done cleanups, retried and repeated pushes
\* never put the product into the storefront twice while OPS answers.
THEOREM OneProduct == Spec => []OneProductPerSlot
PROOF
<1>1. IndInv => OneProductPerSlot
  <2> SUFFICES ASSUME IndInv, Reliable PROVE Cardinality(Live) <= 1
    BY DEF OneProductPerSlot
  <2>1. CASE Live = {}
    BY <2>1, FS_EmptySet
  <2>2. ASSUME NEW i \in Live PROVE Cardinality(Live) <= 1
    <3>1. Live = {i}
      BY <2>2 DEF IndInv, OneLive
    <3>2. Cardinality({i}) = 1
      BY FS_Singleton
    <3> QED BY <3>1, <3>2
  <2> QED BY <2>1, <2>2
<1> QED BY <1>1, Invariance, PTL

\* Whatever a push takes over from earlier ones, and however lookups, replies
\* and deletions go: it succeeds only on a product that is in the storefront.
THEOREM ProductExists == Spec => []PushedProductExists
PROOF
<1>1. IndInv => PushedProductExists
  <2> SUFFICES ASSUME IndInv, Succeeding PROVE exec.pid \in Live
    BY DEF PushedProductExists
  <2>1. PICK i \in LastCritical : i \in Nat \ {0} /\ i <= Len(Plan)
    BY LastCriticalExists
  <2>2. exec.pc = "step" /\ exec.pos > i
    <3>1. exec.pos \in Nat /\ Len(Plan) \in Nat
      BY ConstantsAssumption DEF IndInv, TypeOK, ExecState
    <3> QED BY <2>1, <3>1 DEF Succeeding
  <2> QED BY <2>2 DEF IndInv, NeverResumed
<1> QED BY <1>1, Invariance, PTL

\* A push that no fault hits and that runs every step itself leaves each child
\* on its product exactly once, whatever earlier pushes have left there.
THEOREM ReplacesChildren == Spec => []PushReplacesChildren
PROOF
<1>1. IndInv /\ PushedProductExists => PushReplacesChildren
  <2> SUFFICES ASSUME IndInv, PushedProductExists, Succeeding, exec.reused = {}, ~exec.hit, NEW c \in Children
               PROVE  exec.pid \in Live /\ Single(kids[exec.pid][c])
    BY DEF PushReplacesChildren, PushedProductExists
  <2>1. exec.pid \in Live
    BY DEF PushedProductExists
  <2>2. PICK i \in DOMAIN Plan : c = Plan[i]
    BY DEF Children
  <2>3. i < exec.pos /\ Underway
    <3>1. exec.pos \in Nat /\ Len(Plan) \in Nat /\ DOMAIN Plan = 1 .. Len(Plan)
      BY ConstantsAssumption DEF IndInv, TypeOK, ExecState
    <3> QED BY <3>1 DEF Succeeding, Underway
  <2> QED BY <2>1, <2>2, <2>3 DEF IndInv, CleanUnlessHit
<1> QED BY <1>1, Invariance, ProductExists, PTL

\* A push that meets no fault fails, unless a lookup failed or the product was
\* deleted, only at a step that needs a child whose step it has reused.
THEOREM CleanFailsOnReuse == Spec => []CleanPushFailsOnReuseOnly
PROOF
<1>1. IndInv => CleanPushFailsOnReuseOnly
  BY DEF IndInv, Found, FailsByFault, CleanPushFailsOnReuseOnly
<1> QED BY <1>1, Invariance, PTL
=============================================================================
