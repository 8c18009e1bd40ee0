------------------------------- MODULE OpsPush -------------------------------
(***************************************************************************)
(* What the executions of one (customer, product) slot do to the OPS       *)
(* storefront: find out whether the product exists there, clear what it    *)
(* has, replay the mutation plan, reuse the steps an earlier push got      *)
(* through, recreate a product that was deleted, record the mapping.       *)
(*                                                                         *)
(* Translated from execute_push and its helpers in                         *)
(* backend/modules/ops_push/gateway.py and admin_retry_push in             *)
(* backend/modules/integrations/routes.py. Live pushes only. Executions of *)
(* a slot follow one another: PushLifecycle shows when that is so. The     *)
(* catalog product does not change between pushes, so the request          *)
(* fingerprint of a step depends only on the ids resolved in it.           *)
(* OPS itself is external: it refuses a mutation that names a product or a *)
(* child it does not have, and deletes with a child what depends on it.    *)
(***************************************************************************)
EXTENDS Naturals, Sequences, FiniteSets

LOCAL INSTANCE Functions

CONSTANTS
    Rows,         \* push rows of the slot
    Ids,          \* product ids OPS may give out
    NoId,         \* no id; as the products_id of a mutation: create
    BadId,        \* the text "None", an id that names nothing
    NoRow,
    Plan,         \* what the plan adds to the product, in order
    Needs,        \* the steps whose ids ($stepN.size_id ...) a step sends
    Key,          \* the source_key of each step
    Gallery,      \* the members of the plan that are image galleries
    Faults,       \* the faults that may happen, a subset of FaultKinds
    MaxAttempts,  \* _MAX_STEP_ATTEMPTS
    MaxFaults, MaxPutUps   \* bounds of the model

\* The worker dies; OPS refuses a mutation; its reply to one that it applied
\* is lost; the lookup by SKU fails; clearing fails halfway; an administrator
\* of the storefront deletes the product.
FaultKinds == {"crash", "refused", "lost", "lookup", "clear", "deleted"}

Children == {Plan[i] : i \in DOMAIN Plan}
Critical == Children \ Gallery

\* Step 0 of the plan is setProduct, step i adds Plan[i].
Steps == 0 .. Len(Plan)

ASSUME ConstantsAssumption ==
    /\ Plan \in Seq(Children)
    /\ \A i, j \in DOMAIN Plan : Plan[i] = Plan[j] => i = j
    /\ Gallery \subseteq Children
    /\ Needs \in [Steps -> SUBSET DOMAIN Plan] /\ Needs[0] = {}
    /\ \A i \in Steps : \A d \in Needs[i] : d < i /\ Plan[d] \in Critical
    /\ DOMAIN Key = Steps
    /\ Critical # {}    \* preflight wants a variant, and a variant gives a size
    /\ {NoId, BadId} \cap Ids = {} /\ NoId # BadId
    /\ NoRow \notin Rows
    /\ Cardinality(Rows) <= 6    \* the five rows resumption looks at, and one
    /\ Faults \subseteq FaultKinds
    /\ MaxAttempts \in Nat \ {0} /\ MaxFaults \in Nat /\ MaxPutUps \in Nat

VARIABLES
    shop,     \* product ids in OPS: "unused", "live" or "deleted"
    kids,     \* the copies of each child that a product has in OPS
    mapping,  \* push_mappings.target_ops_product_id, as committed
    status,   \* product_push_log.status of the rows
    results,  \* product_push_log.step_results of the rows
    pushedAt, \* product_push_log.pushed_at of the rows
    now,      \* the time, counted in rows put up for execution
    exec,     \* the execution in progress
    faults    \* how often each fault has happened

opsVars == <<shop, kids>>
dbVars  == <<mapping, status, results, pushedAt, now>>
vars == <<opsVars, dbVars, exec, faults>>

\* The id OPS gives a child tells when its push was put up and the attempt.
Copies == Nat \X Nat
NoCopy == <<0, 0>>

\* A step sends the product's id and ids of children; the answer to a step
\* that went through is an id.
Requests == [to: Ids \cup {NoId, BadId}, uses: SUBSET ((DOMAIN Plan) \X Copies)]
Result   == [ok: BOOLEAN, fp: Requests, id: Ids \cup {NoId, BadId}, copy: Copies]
NotOk    == [ok |-> FALSE, fp |-> [to |-> NoId, uses |-> {}], id |-> NoId, copy |-> NoCopy]
Nothing  == [i \in Steps |-> NotOk]
NoCopies == [i \in DOMAIN Plan |-> NoCopy]

Outcomes == {"pushed", "partial_failure", "failed"}

ExecState ==
    [pc: {"idle", "dedup", "clear", "step", "finish"}, row: Rows \cup {NoRow},
     map: Ids \cup {NoId}, base: Ids \cup {NoId}, pid: Ids \cup {NoId, BadId},
     got: [DOMAIN Plan -> Copies], pos: Nat, try: Nat, outcome: Outcomes,
     done: [Steps -> Result], prior: [Steps -> Result], reused: SUBSET Steps, hit: BOOLEAN]

Idle == [pc |-> "idle", row |-> NoRow, map |-> NoId, base |-> NoId, pid |-> NoId,
         got |-> NoCopies, pos |-> 0, try |-> 1, outcome |-> "pushed", done |-> Nothing,
         prior |-> Nothing, reused |-> {}, hit |-> FALSE]

Live     == {i \in Ids : shop[i] = "live"}
Unused   == {i \in Ids : shop[i] = "unused"}
NoKids   == [c \in Children |-> {}]
Happened(k) == faults[k] > 0
Hit(x)      == [x EXCEPT !.hit = TRUE]

\* The fault k happens; Hit marks the execution it happens to.
FaultsSoFar == FoldFunction(LAMBDA m, n : m + n, 0, faults)
Strike(k) ==
    /\ k \in Faults
    /\ FaultsSoFar < MaxFaults
    /\ faults' = [faults EXCEPT ![k] = @ + 1]

Init ==
    /\ shop = [i \in Ids |-> "unused"]
    /\ kids = [i \in Ids |-> NoKids]
    /\ mapping = NoId
    /\ status = [r \in Rows |-> "absent"]
    /\ results = [r \in Rows |-> Nothing]
    /\ pushedAt = [r \in Rows |-> 0]
    /\ now = 0
    /\ exec = Idle
    /\ faults = [k \in FaultKinds |-> 0]

-----------------------------------------------------------------------------
(* Rows become ready for execution. (Operators named M_... are mutants: the *)
(* code with a plausible bug, which the runs must notice.)                  *)

PutUp(r) ==
    /\ now < MaxPutUps
    /\ now' = now + 1
    /\ pushedAt' = [pushedAt EXCEPT ![r] = now + 1]
    /\ status' = [status EXCEPT ![r] = "accepted"]
    /\ UNCHANGED <<opsVars, mapping, exec, faults>>

\* prepare_push_intent inserts the row.
Accept(r) ==
    /\ status[r] = "absent"
    /\ PutUp(r)
    /\ UNCHANGED results

\* admin_retry_push puts a failed row up again and forgets its steps.
Retry(r) ==
    /\ status[r] \in {"partial_failure", "failed"}
    /\ PutUp(r)
    /\ results' = [results EXCEPT ![r] = Nothing]

\* The claim: the unique index lets one row of the slot be executed.
Claim(r) ==
    /\ exec = Idle
    /\ status[r] = "accepted"
    /\ status' = [status EXCEPT ![r] = "processing"]
    /\ exec' = [Idle EXCEPT !.pc = "dedup", !.row = r, !.map = mapping]
    /\ UNCHANGED <<opsVars, mapping, results, pushedAt, now, faults>>

-----------------------------------------------------------------------------
(* Preparation: create or update, and clearing.                            *)

M_DedupFindsNothing ==
    /\ exec.pc = "dedup"
    /\ exec' = [exec EXCEPT !.pc = "clear"]
    /\ UNCHANGED <<opsVars, dbVars, faults>>

\* Without a mapping OPS is asked for a product with the SKU; an answer goes
\* into a mapping that is not committed yet. A failed lookup found nothing.
Dedup ==
    /\ exec.pc = "dedup"
    /\ \/ /\ exec.map = NoId /\ Live # {}
          /\ \E i \in Live : exec' = [exec EXCEPT !.pc = "clear", !.map = i]
          /\ UNCHANGED faults
       \/ /\ exec.map # NoId \/ Live = {}
          /\ exec' = [exec EXCEPT !.pc = "clear"]
          /\ UNCHANGED faults
       \/ /\ exec.map = NoId /\ Live # {}
          /\ Strike("lookup")
          /\ exec' = [Hit(exec) EXCEPT !.pc = "clear"]
    /\ UNCHANGED <<opsVars, dbVars>>

\* Rows whose steps may be reused by an execution of r: the failed ones.
M_ResumesPushedToo(r) == {q \in Rows \ {r} : status[q] \in Outcomes}
Resumable(r) == {q \in Rows \ {r} : status[q] \in {"partial_failure", "failed"}}

\* The latest of them with a step of i's source key that went through, the
\* first such step of it: it counts if it is step i itself, for another step
\* with the key is another mutation.
Namesakes(i) == {j \in Steps : Key[j] = Key[i]}
PriorResult(r, i) ==
    LET ok == {q \in Resumable(r) : \E j \in Namesakes(i) : results[q][j].ok}
    IN  IF ok = {} THEN NotOk
        ELSE LET q == CHOOSE q \in ok : \A p \in ok : pushedAt[p] <= pushedAt[q]
             IN  IF \E j \in Namesakes(i) : j < i /\ results[q][j].ok THEN NotOk
                 ELSE results[q][i]
PriorResults(r) == [i \in Steps |-> PriorResult(r, i)]

\* The plan is built from the mapping, and what an existing product has of it
\* is deleted, as far as that succeeds.
M_ClearNothing ==
    /\ exec.pc = "clear"
    /\ exec' = [exec EXCEPT !.pc = "step", !.base = exec.map, !.prior = PriorResults(exec.row)]
    /\ UNCHANGED <<opsVars, dbVars, faults>>

Clear ==
    /\ exec.pc = "clear"
    /\ \/ /\ kids' = IF exec.map \in Live THEN [kids EXCEPT ![exec.map] = NoKids] ELSE kids
          /\ UNCHANGED faults
       \/ /\ exec.map \in Live
          /\ Strike("clear")
          /\ \E left \in SUBSET Children :
               /\ \A i \in DOMAIN Plan : Plan[i] \in left => {Plan[d] : d \in Needs[i]} \subseteq left
               /\ kids' = [kids EXCEPT ![exec.map] = [c \in Children |-> IF c \in left THEN @[c] ELSE {}]]
    /\ exec' = [exec EXCEPT !.pc = "step", !.base = exec.map, !.prior = PriorResults(exec.row),
                            !.hit = @ \/ faults' # faults]
    /\ UNCHANGED <<shop, dbVars>>

-----------------------------------------------------------------------------
(* The plan. A step that an earlier push got through with the same         *)
(* fingerprint is skipped; else it is sent to OPS.                         *)

\* The ids in the request: products_id of setProduct (0 in create mode), the
\* resolved product id for the children, and the ids of the children it needs.
Fingerprint ==
    [to   |-> IF exec.pos = 0 THEN exec.base ELSE exec.pid,
     uses |-> {<<d, exec.got[d]>> : d \in Needs[exec.pos]}]

Reusable ==
    exec.pos \in Steps /\ exec.prior[exec.pos].ok /\ exec.prior[exec.pos].fp = Fingerprint

\* json turns the null id of a response into the text "None".
Stored(id) == IF id = NoId THEN BadId ELSE id

Skipped(x) == [x EXCEPT !.pos = @ + 1, !.try = 1, !.reused = @ \cup {x.pos}]
M_SkipForgetsIds ==
    /\ exec.pc = "step" /\ Reusable
    /\ exec' = Skipped(exec)
    /\ UNCHANGED <<opsVars, dbVars, faults>>

\* The ids of the earlier push stand in for those of the response.
Skip ==
    LET earlier == exec.prior[exec.pos] IN
    /\ exec.pc = "step" /\ Reusable
    /\ exec' = IF exec.pos = 0 THEN [Skipped(exec) EXCEPT !.pid = Stored(earlier.id)]
               ELSE [Skipped(exec) EXCEPT !.got = [@ EXCEPT ![exec.pos] = earlier.copy]]
    /\ UNCHANGED <<opsVars, dbVars, faults>>

Executing(pos) == exec.pc = "step" /\ exec.pos = pos /\ ~Reusable

\* The state of the execution after setProduct gave the id, after the step
\* failed, and when its (empty) error is answered with another attempt.
ProductDone(x, id) ==
    [x EXCEPT !.pos = 1, !.try = 1, !.pid = id,
              !.done = [@ EXCEPT ![0] = [ok |-> TRUE, fp |-> Fingerprint, id |-> id, copy |-> NoCopy]]]
Failed(x) ==
    [x EXCEPT !.pc = "finish",
              !.outcome = IF x.pid = NoId THEN "failed" ELSE "partial_failure"]
Again(x) == [x EXCEPT !.try = @ + 1]

New(i) == shop' = [shop EXCEPT ![i] = "live"] /\ UNCHANGED kids

\* setProduct in create mode. OPS may answer null when it has the product: it
\* is looked up by SKU then, and the id stays null if the lookup fails.
CreateProduct ==
    /\ Executing(0) /\ exec.base = NoId
    /\ \/ /\ \E i \in Unused : New(i) /\ exec' = ProductDone(exec, i)
          /\ UNCHANGED faults
       \/ /\ \E i \in Live : exec' = ProductDone(exec, i)
          /\ UNCHANGED <<opsVars, faults>>
       \/ /\ Live # {} /\ Strike("lookup")
          /\ exec' = ProductDone(Hit(exec), NoId)
          /\ UNCHANGED opsVars
    /\ UNCHANGED dbVars

\* The reply to a create is lost: another attempt if the error is empty.
CreateLost ==
    /\ Executing(0) /\ exec.base = NoId
    /\ Strike("lost")
    /\ \E i \in Unused : New(i)
    /\ \/ exec.try < MaxAttempts /\ exec' = Again(Hit(exec))
       \/ exec' = Failed(Hit(exec))
    /\ UNCHANGED dbVars

\* setProduct in update mode.
UpdateProduct ==
    /\ Executing(0) /\ exec.base \in Live
    /\ exec' = ProductDone(exec, exec.base)
    /\ UNCHANGED <<opsVars, dbVars, faults>>

\* OPS does not find the product: the mapping is deleted (not committed yet)
\* and setProduct tried once more as a create. A null id is not looked up
\* here; a failing create leaves the step failed, for the update cannot work.
Recover ==
    LET x == [exec EXCEPT !.map = NoId] IN
    /\ Executing(0) /\ exec.base \notin Live \cup {NoId}
    /\ \/ /\ \E i \in Unused : New(i) /\ exec' = ProductDone(x, i)
          /\ UNCHANGED faults
       \/ /\ Live # {} /\ exec' = ProductDone(x, NoId)
          /\ UNCHANGED <<opsVars, faults>>
       \/ /\ Strike("refused") /\ exec' = Failed(Hit(x))
          /\ UNCHANGED opsVars
       \/ /\ Strike("lost") /\ \E i \in Unused : New(i)
          /\ exec' = Failed(Hit(x))
    /\ UNCHANGED dbVars

\* Copies of Plan[pos] before the step is sent: a gallery is emptied first
\* (before the first attempt only).
Before(pos) == IF Plan[pos] \in Gallery /\ exec.try = 1 THEN {} ELSE kids[exec.pid][Plan[pos]]
NewCopy     == <<pushedAt[exec.row], exec.try>>
Leave(pos, copies) == kids' = [kids EXCEPT ![exec.pid][Plan[pos]] = copies]

\* OPS has the product and the children that the step names.
Accepts(pos) ==
    /\ exec.pid \in Live
    /\ \A d \in Needs[pos] : exec.got[d] \in kids[exec.pid][Plan[d]]

\* A gallery's response has no id, so that a gallery is never resumed.
ChildDone(x, pos) ==
    LET y == [x EXCEPT !.pos = @ + 1, !.try = 1] IN
    IF Plan[pos] \in Gallery THEN y
    ELSE [y EXCEPT !.got  = [@ EXCEPT ![pos] = NewCopy],
                   !.done = [@ EXCEPT ![pos] = [ok |-> TRUE, fp |-> Fingerprint,
                                                id |-> x.pid, copy |-> NewCopy]]]
AddChild(pos) ==
    /\ Executing(pos) /\ Accepts(pos)
    /\ Leave(pos, Before(pos) \cup {NewCopy})
    /\ exec' = ChildDone(exec, pos)
    /\ UNCHANGED <<shop, dbVars, faults>>

\* A failing gallery is a warning, any other failing child ends the push.
ChildFailed(x) ==
    IF Plan[x.pos] \in Gallery THEN [x EXCEPT !.pos = @ + 1, !.try = 1] ELSE Failed(x)

AddLost(pos) ==
    /\ Executing(pos) /\ Accepts(pos)
    /\ Strike("lost")
    /\ Leave(pos, Before(pos) \cup {NewCopy})
    /\ \/ exec.try < MaxAttempts /\ exec' = Again(Hit(exec))
       \/ exec' = ChildFailed(Hit(exec))
    /\ UNCHANGED <<shop, dbVars>>

\* OPS refuses the step.
RefuseProduct ==
    /\ Executing(0) /\ exec.base \in Live \cup {NoId}
    /\ Strike("refused")
    /\ exec' = Failed(Hit(exec))
    /\ UNCHANGED <<opsVars, dbVars>>

RefuseChild(pos) ==
    /\ Executing(pos) /\ Accepts(pos)
    /\ Strike("refused")
    /\ Leave(pos, Before(pos))
    /\ exec' = ChildFailed(Hit(exec))
    /\ UNCHANGED <<shop, dbVars>>

\* OPS always refuses a step that names a product or a child it does not have.
Unacceptable(pos) ==
    /\ Executing(pos) /\ ~Accepts(pos)
    /\ IF exec.pid \in Live THEN Leave(pos, Before(pos)) ELSE UNCHANGED kids
    /\ exec' = ChildFailed(exec)
    /\ UNCHANGED <<shop, dbVars, faults>>

\* push_mappings after the push: recorded on partial failures, too.
MappingAfter(x) ==
    IF x.outcome \in {"pushed", "partial_failure"} /\ x.pid \in Ids THEN x.pid ELSE x.map

\* The results are persisted and everything is committed.
Finish ==
    /\ exec.pc = "finish" \/ (exec.pc = "step" /\ exec.pos > Len(Plan))
    /\ status' = [status EXCEPT ![exec.row] = exec.outcome]
    /\ results' = [results EXCEPT ![exec.row] = exec.done]
    /\ mapping' = MappingAfter(exec)
    /\ exec' = Idle
    /\ UNCHANGED <<opsVars, pushedAt, now, faults>>

-----------------------------------------------------------------------------
(* The worker dies or an exception leaves execute_push: the transaction is  *)
(* rolled back and the row finalised (or reaped) as failed.                 *)
Crash ==
    /\ exec # Idle
    /\ Strike("crash")
    /\ status' = [status EXCEPT ![exec.row] = "failed"]
    /\ exec' = Idle
    /\ UNCHANGED <<opsVars, mapping, results, pushedAt, now>>

\* An administrator of the storefront deletes a product between two pushes.
Delete(i) ==
    /\ exec = Idle
    /\ shop[i] = "live"
    /\ Strike("deleted")
    /\ shop' = [shop EXCEPT ![i] = "deleted"]
    /\ kids' = [kids EXCEPT ![i] = NoKids]
    /\ UNCHANGED <<dbVars, exec>>

Next ==
    \/ \E r \in Rows : Accept(r) \/ Retry(r) \/ Claim(r)
    \/ Dedup \/ Clear \/ Skip
    \/ CreateProduct \/ CreateLost \/ UpdateProduct \/ Recover
    \/ RefuseProduct
    \/ \E pos \in DOMAIN Plan : AddChild(pos) \/ AddLost(pos) \/ RefuseChild(pos) \/ Unacceptable(pos)
    \/ Finish \/ Crash
    \/ \E i \in Ids : Delete(i)

Spec == Init /\ [][Next]_vars

-----------------------------------------------------------------------------
TypeOK ==
    /\ shop \in [Ids -> {"unused", "live", "deleted"}]
    /\ kids \in [Ids -> [Children -> SUBSET Copies]]
    /\ mapping \in Ids \cup {NoId}
    /\ status \in [Rows -> {"absent", "accepted", "processing"} \cup Outcomes]
    /\ results \in [Rows -> [Steps -> Result]]
    /\ pushedAt \in [Rows -> Nat] /\ now \in Nat
    /\ exec \in ExecState
    /\ faults \in [FaultKinds -> Nat]

CriticalSteps == {i \in DOMAIN Plan : Plan[i] \in Critical}

\* Every step of the plan is done or skipped: the row becomes 'pushed'.
Succeeding == exec.pc = "step" /\ exec.pos > Len(Plan)

\* OPS has answered so far, and nobody has deleted products there.
Reliable == ~ (Happened("lookup") \/ Happened("lost") \/ Happened("deleted"))

\* Crashes, refusals and half-done cleanups at any point, retried and repeated
\* pushes never put the product into the storefront twice, as long as OPS
\* answers (lookups, creates) and nobody deletes products there.
OneProductPerSlot == Reliable => Cardinality(Live) <= 1

Single(s) == \E k \in s : s = {k}

\* A push that runs every step itself leaves each child of the plan on its
\* product exactly once, whatever earlier pushes left there (gateway.py: the
\* push "REPLACES them instead of appending duplicates").
PushReplacesChildren ==
    Succeeding /\ exec.reused = {} /\ ~exec.hit
    => exec.pid \in Live /\ \A c \in Children : Single(kids[exec.pid][c])

\* No push succeeds on a product that is not in the storefront, however many
\* of its steps it took over from earlier pushes.
PushedProductExists == Succeeding => exec.pid \in Live

\* A push that meets no fault fails for one reason only, whatever state
\* earlier failures have left behind (lookups that failed and deleted products
\* aside): the step that failed needs a child whose step was reused.
StaleNeed == \E d \in Needs[exec.pos] : d \in exec.reused
CleanPushFailsOnReuseOnly ==
    exec.pc = "finish" /\ ~exec.hit => Happened("lookup") \/ Happened("deleted") \/ StaleNeed

\* gateway.py: resumption skips "steps that already succeeded in a prior
\* partial push": reusing them does not make a push without a fault fail.
CleanPushSucceeds ==
    exec.pc = "finish" /\ ~exec.hit => Happened("lookup") \/ Happened("deleted")

\* gateway.py: with the stale mapping gone "the product is recreated instead
\* of failing forever": a push that meets no fault does not fail because the
\* product was deleted some time before.
DeletedProductIsRecreated ==
    exec.pc = "finish" /\ ~exec.hit => Happened("lookup") \/ StaleNeed

\* gateway.py: the push deletes "the product's existing children first, then
\* the plan re-creates them fresh": when a push that met no fault ends, the
\* product has every critical child up to the step it ended at.
ClearedIsRecreated ==
    (Succeeding \/ exec.pc = "finish") /\ ~exec.hit /\ exec.pid \in Live =>
    \A i \in CriticalSteps : i < exec.pos => kids[exec.pid][Plan[i]] # {}

\* The same of a push that succeeds, also if its cleanup failed halfway.
PushedIsComplete ==
    Succeeding => \A c \in Critical : kids[exec.pid][c] # {}

\* gateway.py: with the lookup by SKU a retry does not create "a duplicate row
\* in OPS" when the worker died between the write to OPS and the mapping.
NoDuplicateAfterDeletion ==
    ~ (Happened("lookup") \/ Happened("lost")) => Cardinality(Live) <= 1

-----------------------------------------------------------------------------
(* Why these hold: the inductive invariant the proofs use.                  *)

Known == Live \cup {NoId}
Reaches(rs) == \A i \in Steps : rs[i].ok => rs[i].id \in Live
Underway == exec.pc = "step" /\ exec.pos # 0

\* Every id that is written down anywhere names the product ...
IdsKnown ==
    /\ {mapping, exec.map, exec.base, exec.pid} \subseteq Known
    /\ Reaches(exec.prior) /\ Reaches(exec.done)
    /\ \A r \in Rows : Reaches(results[r])

\* ... and an execution about to create one has found that there is none.
CreatesFirst ==
    \/ exec.pc = "clear" /\ exec.map = NoId
    \/ exec.pc = "step" /\ exec.pos = 0 /\ exec.base = NoId
    => Live = {}

OneLive == \A i, j \in Live : i = j

\* While lookups succeed and nobody deletes products, also when replies are
\* lost, the children go to a product that is there.
Found == ~ (Happened("lookup") \/ Happened("deleted"))
FailsByFault ==
    (Underway => exec.pid \in Live) /\ (exec.pc = "finish" => exec.hit \/ StaleNeed)

\* The ids of the children that a push created itself are good.
OwnKids ==
    Underway /\ exec.pid \in Live =>
    \A i \in CriticalSteps :
      i < exec.pos /\ i \notin exec.reused => exec.got[i] \in kids[exec.pid][Plan[i]]

\* An execution holds its row, and starts with nothing done.
HoldsRow ==
    IF exec.pc = "idle" THEN exec = Idle
    ELSE exec.row \in Rows /\ status[exec.row] = "processing"
StartsAfresh ==
    /\ exec.pc \in {"dedup", "clear"} => exec.pos = 0
    /\ exec.pos = 0 => exec.reused = {}
    /\ exec.pc = "finish" <=> exec.outcome # "pushed"

\* The last of the plan's steps that a push cannot do without: a row that got
\* it through is pushed and never resumed from, so that whoever passes this
\* step has just done it himself, on a product that exists.
LastCritical  == {i \in CriticalSteps : \A j \in CriticalSteps : j <= i}
FallsShort(rs) == \A i \in LastCritical : ~rs[i].ok
NeverResumed ==
    /\ \A r \in Rows : status[r] # "pushed" => FallsShort(results[r])
    /\ FallsShort(exec.prior)
    /\ exec.pc = "finish" => FallsShort(exec.done)
    /\ \A i \in LastCritical :
         /\ exec.pos <= i => ~exec.done[i].ok
         /\ exec.pc = "step" /\ exec.pos > i => exec.pid \in Live

\* Without faults and skipped steps the product has the children so far, once.
EmptyUnlessLive == \A i \in Ids \ Live : kids[i] = NoKids
CleanUnlessHit ==
    ~exec.hit =>
      /\ exec.pc = "clear" /\ exec.map = NoId => Live = {}
      /\ exec.pc = "step" /\ exec.pos = 0 =>
           /\ exec.base = NoId => Live = {}
           /\ exec.base \in Live => kids[exec.base] = NoKids
      /\ Underway /\ exec.reused = {} /\ exec.pid \in Live =>
           \A i \in DOMAIN Plan : IF i < exec.pos THEN Single(kids[exec.pid][Plan[i]])
                                  ELSE kids[exec.pid][Plan[i]] = {}

IndInv ==
    /\ TypeOK
    /\ Reliable => OneLive /\ CreatesFirst
    /\ Found => IdsKnown /\ FailsByFault
    /\ HoldsRow /\ StartsAfresh /\ NeverResumed
    /\ EmptyUnlessLive /\ CleanUnlessHit /\ OwnKids
=============================================================================
