-------------------------- MODULE PushClients_proofs --------------------------
(***************************************************************************)
(* Proofs about PushClients, for any storefronts and bounds.               *)
(***************************************************************************)
EXTENDS PushClients, FiniteSetTheorems, SequenceTheorems, WellFoundedInduction, TLAPS

-----------------------------------------------------------------------------
(* Questions and answers.                                                   *)

\* An answer tells what it is.
LEMMA AnswerKinds ==
    /\ Unanswered.is = "none" /\ Lost.is = "lost" /\ Lists.is = "lists"
    /\ \A s : Status(s).is = "status" /\ Status(s).status = s
    /\ \A v : Verdict(v).is = "verdict" /\ Verdict(v).verdict = v
    /\ \A f : Rows(f).is = "rows" /\ Rows(f).rows = f
BY DEF Unanswered, Lost, Lists, Status, Verdict, Rows

LEMMA AnswerForms ==
    ASSUME NEW a \in Answers
    PROVE  /\ a.is \in {"none", "lost", "lists", "status", "verdict", "rows"}
           /\ a.is = "none" <=> a = Unanswered
           /\ a.is = "status" => a.status \in Statuses
           /\ a.is = "verdict" => a.verdict \in {"fine", "blocked"}
PROOF
<1>1. CASE a \in {Unanswered, Lost, Lists}
  BY <1>1, AnswerKinds
<1>2. ASSUME NEW s \in Statuses, a = Status(s) PROVE a.is = "status" /\ a.status \in Statuses
  BY <1>2, AnswerKinds
<1>3. ASSUME NEW v \in {"fine", "blocked"}, a = Verdict(v)
      PROVE a.is = "verdict" /\ a.verdict \in {"fine", "blocked"}
  BY <1>3, AnswerKinds
<1>4. ASSUME NEW f, a = Rows(f) PROVE a.is = "rows"
  BY <1>4, AnswerKinds
<1> QED BY <1>1, <1>2, <1>3, <1>4, AnswerKinds DEF Answers

\* An unused number is left for one more question.
LEMMA Numbered ==
    ASSUME net \subseteq Question, IsFiniteSet(net), Cardinality(net) <= MaxOnWay,
           NEW what \in {"post", "status", "dry", "lists"}, NEW to \in SUBSET Storefronts, NEW id \in 0..MaxRows
    PROVE  /\ Ask(what, to, id) \in Question
           /\ Ask(what, to, id).what = what /\ Ask(what, to, id).to = to
           /\ Ask(what, to, id).row = id /\ Ask(what, to, id).reply = Unanswered
PROOF
<1> DEFINE N == 0..MaxOnWay
           free == {k \in N : \A q \in net : q.n # k}
           Lowest(k) == (\A q \in net : q.n # k) /\ \A i \in 0..(k - 1) : \E q \in net : q.n = i
<1>1. MaxOnWay \in Nat /\ N \subseteq Nat
  BY ClientsAssumption
<1>2. free # {}
  <2> SUFFICES ASSUME free = {} PROVE FALSE
    OBVIOUS
  <2> DEFINE f == [q \in net |-> q.n]
  <2>1. f \in [net -> N]
    BY DEF Question
  <2>2. \A k \in N : \E q \in net : f[q] = k
    OBVIOUS
  <2>3. f \in Surjection(net, N)
    BY <2>1, <2>2 DEF Surjection
  <2>4. Cardinality(N) <= Cardinality(net)
    BY <2>3, FS_Surjection
  <2>5. Cardinality(N) = MaxOnWay + 1
    BY <1>1, FS_Interval
  <2>6. Cardinality(net) \in Nat
    BY FS_CardinalityType
  <2> QED BY <1>1, <2>4, <2>5, <2>6
<1>3. PICK k \in free : \A y \in free : ~ (y < k)
  <2>1. PICK k \in free : \A y \in free : <<y, k>> \notin OpToRel(<, Nat)
    BY <1>1, <1>2, NatLessThanWellFounded, WFMin
  <2> QED BY <1>1, <2>1 DEF OpToRel
<1>4. Lowest(k)
  <2> SUFFICES ASSUME NEW i \in 0..(k - 1) PROVE \E q \in net : q.n = i
    OBVIOUS
  <2>1. k \in Nat /\ k <= MaxOnWay
    BY <1>1
  <2>2. i \in N /\ i < k
    BY <1>1, <2>1
  <2> QED BY <1>3, <2>2
<1>5. (CHOOSE i \in N : Lowest(i)) \in N
  <2>1. k \in N
    OBVIOUS
  <2> HIDE DEF N, Lowest
  <2> QED BY <1>4, <2>1
<1>6. Unanswered \in Answers
  BY DEF Answers
<1> QED BY <1>5, <1>6 DEF Ask, Question

\* Only the answer of an answered question is new.
LEMMA ReplyFields ==
    ASSUME NEW q \in Question, NEW a \in Answers
    PROVE  LET p == [q EXCEPT !.reply = a] IN
           /\ p \in Question /\ p.reply = a
           /\ p.n = q.n /\ p.what = q.what /\ p.to = q.to /\ p.row = q.row
BY DEF Question

-----------------------------------------------------------------------------
(* The push log.                                                            *)

\* It only grows, and a final status stays.
LEMMA LogMoves ==
    ASSUME TypeOK, [Next]_vars
    PROVE  \/ log' = log
           \/ ServePost
           \/ \E from \in InFlight, to \in Statuses : WorkOn(from, to)
BY DEF Next, vars, Serve, Arrive, Timer, User, ServeStatus, ServeDryRun, ServeLists, LoseQuestion,
       Begin, End, Refuse, InFlight, Statuses, Terminal,
       RowListsArrive, RowPosted, RowStatus, BatchListsArrive, BatchPosted, BatchStatus,
       PageDryRun, PagePosted, DetailStatus, RowWaited, BatchTick, PageMovesOn, DetailAsk,
       RowTimeout, RowOpen, RowClose, RowPick, RowRun, BatchPush, Leave, PageSelect, PageRetry,
       PageConfirm, PageCancel, PageTry, PageSubmit,
       RowKeeps, BatchKeeps, PageKeeps, DetailKeeps

Grows ==
    /\ log' \in Seq(Statuses) /\ Len(log') <= MaxRows
    /\ Len(log) \in Nat /\ Len(log') \in Nat /\ Len(log) <= Len(log')
    /\ \A k \in DOMAIN log : k \in DOMAIN log' /\ (log[k] \in Terminal => log'[k] = log[k])

LEMMA LogGrows == ASSUME TypeOK, [Next]_vars PROVE Grows
PROOF
<1>1. log \in Seq(Statuses) /\ Len(log) <= MaxRows /\ Len(log) \in Nat /\ MaxRows \in Nat
  BY ClientsAssumption DEF TypeOK
<1>2. CASE log' = log
  BY <1>1, <1>2 DEF Grows
<1>3. CASE ServePost
  <2>0. PICK q \in Pending("post") : \E taken \in SUBSET q.to :
           /\ Len(log) + Cardinality(taken) <= MaxRows
           /\ log' = log \o [k \in 1..Cardinality(taken) |-> "accepted"]
    BY <1>3 DEF ServePost
  <2>1. PICK taken \in SUBSET q.to :
           /\ Len(log) + Cardinality(taken) <= MaxRows
           /\ log' = log \o [k \in 1..Cardinality(taken) |-> "accepted"]
    BY <2>0
  <2>2. Cardinality(taken) \in Nat
    <3>1. q.to \subseteq Storefronts
      BY <2>1 DEF TypeOK, Pending, Question
    <3> QED BY <3>1, ClientsAssumption, FS_Subset, FS_CardinalityType
  <2> DEFINE new == [k \in 1..Cardinality(taken) |-> "accepted"]
  <2>3. new \in Seq(Statuses) /\ Len(new) = Cardinality(taken)
    BY <2>2 DEF Statuses, InFlight
  <2> HIDE DEF new
  <2>4. log' = log \o new
    BY <2>1 DEF new
  <2>5. /\ log' \in Seq(Statuses) /\ Len(log') = Len(log) + Len(new)
        /\ \A k \in 1..Len(log) : log'[k] = log[k]
    <3>1. /\ log \o new \in Seq(Statuses) /\ Len(log \o new) = Len(log) + Len(new)
          /\ \A i \in 1 .. Len(log) + Len(new) : (log \o new)[i] = IF i <= Len(log) THEN log[i] ELSE new[i - Len(log)]
      BY <1>1, <2>3, ConcatProperties
    <3>2. Len(new) \in Nat
      BY <2>2, <2>3
    <3>3. \A k \in 1..Len(log) : k \in 1 .. Len(log) + Len(new) /\ k <= Len(log)
      BY <1>1, <3>2
    <3> QED BY <2>4, <3>1, <3>3
  <2> QED BY <1>1, <2>1, <2>2, <2>3, <2>5 DEF Grows
<1>4. ASSUME NEW from \in InFlight, NEW to \in Statuses, WorkOn(from, to) PROVE Grows
  <2>1. PICK k \in DOMAIN log : log[k] = from /\ log' = [log EXCEPT ![k] = to]
    BY <1>4 DEF WorkOn
  <2>2. from \notin Terminal
    BY DEF InFlight, Terminal
  <2>3. log' \in Seq(Statuses) /\ Len(log') = Len(log) /\ DOMAIN log' = DOMAIN log
    BY <1>1, <2>1, ExceptSeq
  <2> QED BY <1>1, <2>1, <2>2, <2>3 DEF Grows
<1> QED BY <1>2, <1>3, <1>4, LogMoves

-----------------------------------------------------------------------------
(* The questions on their way.                                              *)

\* What fits goes on to fit.
LEMMA FitsStays ==
    ASSUME Grows, NEW q, Fits(q)
    PROVE  Fits(q)'
BY DEF Fits, Grows, Upto

\* What has come in answer to each kind of question.
LEMMA PostAnswer ==
    ASSUME TypeOK, NetFits, NEW q \in Arrived("post"), Good(q)
    PROVE  q.reply.is = "rows" /\ q.reply.rows \in [q.to -> Upto]
PROOF
<1>1. q \in net /\ Fits(q) /\ q.what = "post" /\ q.reply \in Answers /\ q.reply # Unanswered
  BY DEF Arrived, Pending, NetFits, TypeOK, Question
<1> QED BY <1>1, AnswerForms DEF Fits, Good

LEMMA StatusAnswer ==
    ASSUME TypeOK, NetFits, NEW q \in Arrived("status"), Good(q)
    PROVE  /\ q.reply.is = "status" /\ q.reply.status \in Statuses
           /\ q.row \in DOMAIN log
           /\ q.reply.status \in Terminal => log[q.row] = q.reply.status
PROOF
<1>1. q \in net /\ Fits(q) /\ q.what = "status" /\ q.reply \in Answers /\ q.reply # Unanswered
  BY DEF Arrived, Pending, NetFits, TypeOK, Question
<1> QED BY <1>1, AnswerForms DEF Fits, Good

LEMMA DryAnswer ==
    ASSUME TypeOK, NetFits, NEW q \in Arrived("dry")
    PROVE  q.reply.verdict \in {"fine", "blocked"}
PROOF
<1>1. q \in net /\ Fits(q) /\ q.what = "dry" /\ q.reply \in Answers /\ q.reply # Unanswered
  BY DEF Arrived, Pending, NetFits, TypeOK, Question
<1> QED BY <1>1, AnswerForms DEF Fits

\* Some questions stay and some come, each of which fits.
LEMMA NetStep ==
    ASSUME TypeOK, NetFits, Grows, view # "left", view' # "left",
           NEW N \in SUBSET net, NEW Q, IsFiniteSet(Q), net' = N \cup Q,
           \A q \in Q : q \in Question /\ Fits(q)',
           \A p, q \in net' : p.what = "post" /\ q.what = "post" => p = q,
           view' \in {"row", "push"} => Cardinality(net') <= MaxOnWay
    PROVE  net' \subseteq Question /\ NetFits'
PROOF
<1>1. IsFiniteSet(net')
  BY FS_Subset, FS_Union DEF NetFits
<1>2. ASSUME NEW q \in net' PROVE q \in Question /\ Fits(q)'
  <2>1. CASE q \in N
    <3>1. q \in Question /\ Fits(q)
      BY <2>1 DEF TypeOK, NetFits
    <3> QED BY <3>1, FitsStays
  <2> QED BY <2>1, <1>2
<1>3. (\A q \in net : Fits(q))'
  BY <1>2
<1>4. (\A p, q \in Pending("post") : p = q)'
  BY DEF Pending
<1> QED BY <1>1, <1>2, <1>3, <1>4 DEF NetFits

\* A question is taken from the net, or none.
LEMMA NetTakes ==
    ASSUME TypeOK, NetFits, Grows, view # "left", view' = view, net' \subseteq net
    PROVE  net' \subseteq Question /\ NetFits'
PROOF
<1>1. Cardinality(net') <= Cardinality(net) /\ Cardinality(net) \in Nat /\ Cardinality(net') \in Nat
  BY FS_Subset, FS_CardinalityType DEF NetFits
<1>2. view' \in {"row", "push"} => Cardinality(net') <= MaxOnWay
  BY <1>1, ClientsAssumption DEF NetFits
<1>3. \A p, q \in net' : p.what = "post" /\ q.what = "post" => p = q
  BY DEF NetFits, Pending
<1>4. IsFiniteSet({}) /\ net' = net' \cup {}
  BY FS_EmptySet
<1> QED BY <1>2, <1>3, <1>4, NetStep

\* One takes the place of another of its kind.
LEMMA NetSwaps ==
    ASSUME TypeOK, NetFits, Grows, view # "left", view' = view,
           NEW q \in net, NEW p \in Question, Fits(p)', p.what = q.what \/ p.what # "post",
           net' = (net \ {q}) \cup {p}
    PROVE  net' \subseteq Question /\ NetFits'
PROOF
<1>1. IsFiniteSet({p}) /\ IsFiniteSet(net \ {q}) /\ IsFiniteSet(net)
  BY FS_Singleton, FS_Subset DEF NetFits
<1>2. Cardinality(net \ {q}) = Cardinality(net) - 1
  BY <1>1, FS_RemoveElement
<1>3. Cardinality(net') <= Cardinality(net \ {q}) + 1
  <2>1. CASE p \in net \ {q}
    <3>1. net' = net \ {q}
      BY <2>1
    <3>2. Cardinality(net \ {q}) \in Nat
      BY <1>1, FS_CardinalityType
    <3>3. Cardinality(net') = Cardinality(net \ {q})
      BY <3>1, Zenon
    <3> QED BY <3>2, <3>3
  <2>2. CASE p \notin net \ {q}
    <3>1. Cardinality((net \ {q}) \cup {p}) = Cardinality(net \ {q}) + 1
      BY <2>2, <1>1, FS_AddElement
    <3>2. Cardinality(net \ {q}) \in Nat
      BY <1>1, FS_CardinalityType
    <3>3. Cardinality(net') = Cardinality((net \ {q}) \cup {p})
      BY Zenon
    <3> QED BY <3>1, <3>2, <3>3
  <2> QED BY <2>1, <2>2
<1>4. view' \in {"row", "push"} => Cardinality(net') <= MaxOnWay
  <2>1. Cardinality(net) \in Nat /\ Cardinality(net') \in Nat
    <3>1. IsFiniteSet(net')
      BY <1>1, FS_Union
    <3> QED BY <1>1, <3>1, FS_CardinalityType
  <2> QED BY <1>2, <1>3, <2>1, ClientsAssumption DEF NetFits
<1>5. \A x, y \in net' : x.what = "post" /\ y.what = "post" => x = y
  BY DEF NetFits, Pending
<1> QED BY <1>1, <1>4, <1>5, NetStep

\* A question is asked, the first POST if it is one.
LEMMA NetAsks ==
    ASSUME TypeOK, NetFits, Grows, view # "left", view' = view,
           NEW N \in SUBSET net, Cardinality(net) < MaxOnWay,
           NEW what \in {"post", "status", "dry", "lists"}, NEW to \in SUBSET Storefronts, NEW id \in 0..MaxRows,
           what = "status" => id \in DOMAIN log',
           what = "post" => Pending("post") = {},
           net' = N \cup {Ask(what, to, id)}
    PROVE  net' \subseteq Question /\ NetFits'
PROOF
<1>0. PICK p : p = Ask(what, to, id)
  OBVIOUS
<1>1. IsFiniteSet({p}) /\ IsFiniteSet(N) /\ IsFiniteSet(net) /\ IsFiniteSet(net')
  BY FS_Singleton, FS_Subset, FS_Union DEF NetFits
<1>2. Cardinality(net) \in Nat /\ Cardinality(N) \in Nat /\ Cardinality(N) <= Cardinality(net)
  BY <1>1, FS_CardinalityType, FS_Subset
<1>3. /\ p \in Question /\ p.what = what /\ p.to = to /\ p.row = id /\ p.reply = Unanswered
  <2>1. Cardinality(net) <= MaxOnWay
    BY <1>2, ClientsAssumption
  <2> QED BY <1>0, <1>1, <2>1, Numbered DEF TypeOK
<1>4. Fits(p)'
  BY <1>3, AnswerKinds DEF Fits
<1>5. Cardinality(net') <= MaxOnWay
  <2>1. CASE p \in N
    <3>1. net' = N
      BY <1>0, <2>1
    <3> QED BY <3>1, <1>2, ClientsAssumption
  <2>2. CASE p \notin N
    <3>1. Cardinality(N \cup {p}) = Cardinality(N) + 1
      BY <2>2, <1>1, FS_AddElement
    <3>2. Cardinality(net') = Cardinality(N \cup {p})
      BY <1>0, Zenon
    <3> QED BY <3>1, <3>2, <1>2, ClientsAssumption
  <2> QED BY <2>1, <2>2
<1>6. \A x, y \in net' : x.what = "post" /\ y.what = "post" => x = y
  BY <1>0, <1>3 DEF NetFits, Pending
<1>7. net' = N \cup {p}
  BY <1>0
<1>8. \A x \in {p} : x \in Question /\ Fits(x)'
  BY <1>3, <1>4
<1> QED BY <1>1, <1>5, <1>6, <1>7, <1>8, NetStep

-----------------------------------------------------------------------------
(* What a step leaves alone keeps its part of the invariant.                *)

\* States stay states as the log grows.
LEMMA StatesStay ==
    ASSUME Grows
    PROVE  /\ row \in RowState => row \in RowState'
           /\ batch \in BatchState => batch \in BatchState'
           /\ page \in PageState => page \in PageState'
           /\ detail \in DetailState => detail \in DetailState'
PROOF
<1>1. Upto \subseteq Upto'
  BY DEF Grows, Upto
<1>2. row \in RowState => row \in RowState'
  BY <1>1 DEF RowState
<1>3. batch \in BatchState => batch \in BatchState'
  BY <1>1 DEF BatchState
<1>4. page \in PageState => page \in PageState'
  BY <1>1 DEF PageState
<1>5. detail \in DetailState => detail \in DetailState'
  BY <1>1 DEF DetailState
<1> QED BY <1>2, <1>3, <1>4, <1>5

LEMMA RowStays ==
    ASSUME TypeOK, Grows, RowHolds, RowTellsTheTruth, row' = row
    PROVE  row' \in RowState' /\ RowHolds' /\ RowTellsTheTruth'
PROOF
<1>1. row' \in RowState'
  BY StatesStay DEF TypeOK
<1>2. RowHolds'
  BY DEF RowHolds, Busy, Polling
<1>3. RowTellsTheTruth'
  BY DEF RowTellsTheTruth, RowHolds, TypeOK, RowState, Upto, Grows
<1> QED BY <1>1, <1>2, <1>3

LEMMA BatchStays ==
    ASSUME TypeOK, Grows, BatchHolds, DoneMeansSettled, batch' = batch
    PROVE  batch' \in BatchState' /\ BatchHolds' /\ DoneMeansSettled'
PROOF
<1>1. batch' \in BatchState'
  BY StatesStay DEF TypeOK
<1>2. ASSUME NEW c \in Storefronts, batch.ids[c] # 0, log[batch.ids[c]] \in Terminal
      PROVE  log'[batch.ids[c]] \in Terminal
  BY <1>2 DEF TypeOK, BatchState, Upto, Grows
<1>3. BatchHolds'
  BY <1>2 DEF BatchHolds
<1>4. DoneMeansSettled'
  BY <1>2 DEF DoneMeansSettled
<1> QED BY <1>1, <1>3, <1>4

\* What holds of the clients that are not open, and of those that are.
LEMMA RowFrame ==
    ASSUME IndInv, Grows, view = "row", RowKeeps,
           row' \in RowState', RowHolds', RowTellsTheTruth', RowWaits',
           net' \subseteq Question, NetFits'
    PROVE  IndInv'
PROOF
<1>1. view' = "row" /\ batch' = batch /\ page' = page /\ detail' = detail
  BY DEF RowKeeps
<1>2. batch' \in BatchState' /\ BatchHolds' /\ DoneMeansSettled'
  BY <1>1, BatchStays DEF IndInv
<1>3. page' \in PageState' /\ detail' \in DetailState'
  BY <1>1, StatesStay DEF IndInv, TypeOK
<1>4. BatchWaits' /\ PageWaits'
  BY <1>1 DEF BatchWaits, PageWaits
<1>5. TypeOK'
  BY <1>1, <1>2, <1>3 DEF TypeOK, Grows
<1> QED BY <1>1, <1>2, <1>4, <1>5 DEF IndInv

LEMMA BatchFrame ==
    ASSUME IndInv, Grows, view = "batch", BatchKeeps,
           batch' \in BatchState', BatchHolds', DoneMeansSettled', BatchWaits',
           net' \subseteq Question, NetFits'
    PROVE  IndInv'
PROOF
<1>1. view' = "batch" /\ row' = row /\ page' = page /\ detail' = detail
  BY DEF BatchKeeps
<1>2. row' \in RowState' /\ RowHolds' /\ RowTellsTheTruth'
  BY <1>1, RowStays DEF IndInv
<1>3. page' \in PageState' /\ detail' \in DetailState'
  BY <1>1, StatesStay DEF IndInv, TypeOK
<1>4. RowWaits' /\ PageWaits'
  BY <1>1 DEF RowWaits, PageWaits
<1>5. TypeOK'
  BY <1>1, <1>2, <1>3 DEF TypeOK, Grows
<1> QED BY <1>1, <1>2, <1>4, <1>5 DEF IndInv

LEMMA OtherFrame ==
    ASSUME IndInv, Grows, view' \in {"push", "detail", "left"}, row' = row, batch' = batch,
           page' \in PageState', detail' \in DetailState',
           view' = "push" => PageWaits', view' = "detail" => detail'.id # 0,
           net' \subseteq Question, NetFits'
    PROVE  IndInv'
PROOF
<1>1. row' \in RowState' /\ RowHolds' /\ RowTellsTheTruth'
  BY RowStays DEF IndInv
<1>2. batch' \in BatchState' /\ BatchHolds' /\ DoneMeansSettled'
  BY BatchStays DEF IndInv
<1>3. RowWaits' /\ BatchWaits' /\ PageWaits'
  BY DEF RowWaits, BatchWaits, PageWaits
<1>4. TypeOK'
  BY <1>1, <1>2 DEF TypeOK, Grows
<1> QED BY <1>1, <1>2, <1>3, <1>4 DEF IndInv

-----------------------------------------------------------------------------
(* The gateway.                                                             *)

\* The clients hear nothing of what goes on at the gateway.
LEMMA ClientsWait ==
    ASSUME IndInv, Grows, UNCHANGED <<view, clients>>,
           net' \subseteq Question, NetFits', RowWaits', BatchWaits', PageWaits'
    PROVE  IndInv'
PROOF
<1>1. row' \in RowState' /\ RowHolds' /\ RowTellsTheTruth'
  BY RowStays DEF IndInv, clients
<1>2. batch' \in BatchState' /\ BatchHolds' /\ DoneMeansSettled'
  BY BatchStays DEF IndInv, clients
<1>3. page' \in PageState' /\ detail' \in DetailState'
  BY StatesStay DEF IndInv, TypeOK, clients
<1>4. TypeOK'
  BY <1>1, <1>2, <1>3 DEF IndInv, TypeOK, Grows
<1> QED BY <1>1, <1>2, <1>4 DEF IndInv, clients

LEMMA Worked ==
    ASSUME IndInv, Grows, UNCHANGED <<view, net, clients>>
    PROVE  IndInv'
PROOF
<1>1. CASE view = "left"
  <2>1. net' = {} /\ view' = "left"
    BY <1>1 DEF IndInv, NetFits
  <2>2. NetFits'
    BY <2>1, FS_EmptySet DEF NetFits, Pending
  <2> QED BY <2>1, <2>2, ClientsWait DEF RowWaits, BatchWaits, PageWaits
<1>2. CASE view # "left"
  <2>1. net' \subseteq Question /\ NetFits'
    BY <1>2, NetTakes DEF IndInv
  <2>2. RowWaits'
    BY DEF IndInv, RowWaits, Pending, Polling, Accepted, Grows, clients, TypeOK, RowState
  <2>3. BatchWaits' /\ PageWaits'
    BY DEF IndInv, BatchWaits, PageWaits, Pending, clients
  <2> QED BY <2>1, <2>2, <2>3, ClientsWait
<1> QED BY <1>1, <1>2

\* An answer is given; one that accepts a push adds its row to the log.
LEMMA Served ==
    ASSUME IndInv, Grows, UNCHANGED <<view, clients>>,
           NEW q \in net, NEW a \in Answers, Replies(q, a),
           Fits([q EXCEPT !.reply = a])',
           Accepted([q EXCEPT !.reply = a]) => Len(log) < Len(log')
    PROVE  IndInv'
PROOF
<1>0. PICK p : p = [q EXCEPT !.reply = a]
  OBVIOUS
<1>1. p \in Question /\ p.what = q.what /\ p.to = q.to /\ p.row = q.row
  BY <1>0, ReplyFields DEF IndInv, TypeOK
<1>2. net' = (net \ {q}) \cup {p} /\ Fits(p)' /\ (Accepted(p) => Len(log) < Len(log'))
  BY <1>0 DEF Replies
<1>3. view # "left"
  BY DEF IndInv, NetFits
<1>4. net' \subseteq Question /\ NetFits'
  BY <1>1, <1>2, <1>3, NetSwaps DEF IndInv
<1>5. \A x \in net' : \E y \in net : x.what = y.what /\ x.to = y.to /\ x.row = y.row /\ (x = y \/ x = p)
  BY <1>1, <1>2
<1>6. RowWaits'
  <2> SUFFICES ASSUME view = "row" PROVE RowWaits'
    BY DEF RowWaits
  <2>0. row' = row /\ Len(log) \in Nat /\ Len(log') \in Nat /\ Len(log) <= Len(log') /\ row.closers \in Nat
    BY DEF clients, Grows, IndInv, TypeOK, RowState
  <2>1. \A x \in net' : x.what = "post" => row'.stage = "posting" /\ \E c \in Storefronts : x.to = {c}
    BY <1>5, <2>0 DEF IndInv, RowWaits, Pending
  <2>2. \A x \in net' : x.what = "status" => row'.stage = "asking" /\ x.row = row'.id
    BY <1>5, <2>0 DEF IndInv, RowWaits, Pending
  <2>3. \A x, y \in net' : x.what = "status" /\ y.what = "status" => x = y
    BY <1>1, <1>2 DEF IndInv, RowWaits, Pending
  <2>4. row'.closers <= Len(log')
    BY <2>0 DEF IndInv, RowWaits
  <2>5. Polling' => row'.closers < Len(log')
    BY <2>0 DEF IndInv, RowWaits, Polling
  <2>6. ASSUME NEW x \in net', x.what = "post", Accepted(x) PROVE row'.closers < Len(log')
    <3>1. CASE x = p
      BY <3>1, <2>0, <2>6, <1>2 DEF IndInv, RowWaits
    <3>2. CASE x \in net
      BY <3>2, <2>0, <2>6 DEF IndInv, RowWaits, Pending
    <3> QED BY <3>1, <3>2, <1>2
  <2> QED BY <2>1, <2>2, <2>3, <2>4, <2>5, <2>6 DEF RowWaits, Pending, Accepted
<1>7. BatchWaits' /\ PageWaits'
  BY <1>5 DEF IndInv, BatchWaits, PageWaits, Pending, clients
<1> QED BY <1>4, <1>6, <1>7, ClientsWait

LEMMA ServesPost ==
    ASSUME IndInv, Grows, ServePost
    PROVE  IndInv'
PROOF
<1>1. PICK q \in Pending("post") : \E taken \in SUBSET q.to :
        /\ Open(q)
        /\ Len(log) + Cardinality(taken) <= MaxRows
        /\ \E rows \in [q.to -> 0..MaxRows] :
               /\ \A c \in q.to : (rows[c] = 0) = (c \notin taken)
               /\ {rows[c] : c \in taken} =
                      (Len(log) + 1)..(Len(log) + Cardinality(taken))
               /\ log' = log \o [k \in 1..Cardinality(taken) |-> "accepted"]
               /\ \E reply \in {Rows(rows), Lost} : Replies(q, reply)
  BY DEF ServePost
<1>2. PICK taken \in SUBSET q.to : \E rows \in [q.to -> 0..MaxRows] :
        /\ \A c \in q.to : (rows[c] = 0) = (c \notin taken)
        /\ {rows[c] : c \in taken} =
              (Len(log) + 1)..(Len(log) + Cardinality(taken))
        /\ log' = log \o [k \in 1..Cardinality(taken) |-> "accepted"]
        /\ \E reply \in {Rows(rows), Lost} : Replies(q, reply)
  BY <1>1
<1>3. PICK rows \in [q.to -> 0..MaxRows] :
        /\ \A c \in q.to : (rows[c] = 0) = (c \notin taken)
        /\ {rows[c] : c \in taken} =
              (Len(log) + 1)..(Len(log) + Cardinality(taken))
        /\ log' = log \o [k \in 1..Cardinality(taken) |-> "accepted"]
        /\ \E reply \in {Rows(rows), Lost} : Replies(q, reply)
  BY <1>2
<1>4. PICK a \in {Rows(rows), Lost} : Replies(q, a)
  BY <1>3
<1>5. q \in net /\ q \in Question /\ q.what = "post" /\ q.to \subseteq Storefronts
  BY DEF Pending, IndInv, TypeOK, Question
<1>6. UNCHANGED <<view, clients>>
  BY DEF ServePost
<1>7. a \in Answers
  BY <1>3, <1>5 DEF Answers
<1>8. Cardinality(taken) \in Nat /\ Len(log) \in Nat
  BY <1>5, FS_Subset, FS_CardinalityType, ClientsAssumption DEF Grows
<1>9. Len(log') = Len(log) + Cardinality(taken)
  <2> DEFINE new == [k \in 1..Cardinality(taken) |-> "accepted"]
  <2>1. new \in Seq(Statuses) /\ Len(new) = Cardinality(taken)
    BY <1>8 DEF Statuses, InFlight
  <2>2. log \in Seq(Statuses)
    BY DEF IndInv, TypeOK
  <2> HIDE DEF new
  <2>3. Len(log \o new) = Len(log) + Len(new)
    BY <2>1, <2>2, ConcatProperties
  <2>4. log' = log \o new
    BY <1>3 DEF new
  <2> QED BY <2>1, <2>3, <2>4
<1>10. ASSUME NEW c \in q.to PROVE rows[c] \in 0..Len(log') /\ (rows[c] # 0 => Len(log) < Len(log'))
  <2>1. CASE c \in taken
    <3>1. rows[c] \in (Len(log) + 1)..(Len(log) + Cardinality(taken))
      BY <1>3, <2>1
    <3> QED BY <3>1, <1>8, <1>9
  <2>2. CASE c \notin taken
    BY <1>3, <1>8, <1>9, <2>2
  <2> QED BY <2>1, <2>2
<1>11. PICK p : p = [q EXCEPT !.reply = a]
  OBVIOUS
<1>12. p.what = "post" /\ p.to = q.to /\ p.reply = a
  BY <1>5, <1>7, <1>11, ReplyFields
<1>13. a = Lost \/ a = Rows(rows)
  BY <1>4
<1>14. Fits(p)'
  <2>1. rows \in [q.to -> Upto']
    BY <1>3, <1>10 DEF Upto
  <2> QED BY <1>12, <1>13, <2>1, AnswerKinds DEF Fits
<1>15. Accepted(p) => Len(log) < Len(log')
  BY <1>10, <1>12, <1>13, AnswerKinds DEF Accepted
<1> QED BY <1>4, <1>5, <1>6, <1>7, <1>11, <1>14, <1>15, Served

\* The other answers change nothing but the question.
LEMMA ServesOther ==
    ASSUME IndInv, Grows, ServeStatus \/ ServeDryRun \/ ServeLists \/ LoseQuestion
    PROVE  IndInv'
PROOF
<1>1. PICK q \in net, a \in Answers :
        /\ Replies(q, a) /\ UNCHANGED <<view, log, clients>>
        /\ \/ q.what = "status" /\ a = Status(log[q.row])
           \/ q.what = "dry" /\ \E v \in {"fine", "blocked"} : a = Verdict(v)
           \/ q.what = "lists" /\ a = Lists
           \/ q.what # "dry" /\ a = Lost
  <2>1. CASE ServeStatus
    <3>1. PICK q \in Pending("status") : Replies(q, Status(log[q.row])) /\ UNCHANGED <<view, log, clients>>
      BY <2>1 DEF ServeStatus
    <3>2. q \in net /\ q.what = "status" /\ Fits(q) /\ log \in Seq(Statuses)
      BY DEF Pending, IndInv, NetFits, TypeOK
    <3>3. log[q.row] \in Statuses
      BY <3>2 DEF Fits
    <3>4. Status(log[q.row]) \in Answers
      BY <3>3 DEF Answers
    <3> QED BY <3>1, <3>2, <3>4
  <2>2. CASE ServeDryRun
    <3>1. PICK q \in Pending("dry"), v \in {"fine", "blocked"} : Replies(q, Verdict(v)) /\ UNCHANGED <<view, log, clients>>
      BY <2>2 DEF ServeDryRun
    <3>2. q \in net /\ q.what = "dry" /\ Verdict(v) \in Answers
      BY DEF Pending, Answers
    <3> QED BY <3>1, <3>2
  <2>3. CASE ServeLists
    <3>1. PICK q \in Pending("lists") : Replies(q, Lists) /\ UNCHANGED <<view, log, clients>>
      BY <2>3 DEF ServeLists
    <3>2. q \in net /\ q.what = "lists" /\ Lists \in Answers
      BY DEF Pending, Answers
    <3> QED BY <3>1, <3>2
  <2>4. CASE LoseQuestion
    <3>1. PICK q \in net \ Pending("dry") : Replies(q, Lost) /\ UNCHANGED <<view, log, clients>>
      BY <2>4 DEF LoseQuestion
    <3>2. q \in net /\ q.what # "dry" /\ Lost \in Answers
      BY DEF Pending, Answers
    <3> QED BY <3>1, <3>2
  <2> QED BY <2>1, <2>2, <2>3, <2>4
<1>2. q \in Question /\ Fits(q)
  BY DEF IndInv, TypeOK, NetFits
<1>3. PICK p : p = [q EXCEPT !.reply = a]
  OBVIOUS
<1>4. p.what = q.what /\ p.row = q.row /\ p.to = q.to /\ p.reply = a
  BY <1>2, <1>3, ReplyFields
<1>5. Fits(p)'
  BY <1>1, <1>2, <1>4, AnswerKinds DEF Fits, Terminal
<1>6. ~Accepted(p)
  BY <1>1, <1>4, AnswerKinds DEF Accepted
<1> QED BY <1>1, <1>3, <1>5, <1>6, Served

\* The work on a row is the log's alone.
LEMMA Works ==
    ASSUME IndInv, Grows, Begin \/ End \/ Refuse
    PROVE  IndInv'
BY Worked DEF Begin, End, Refuse, WorkOn

-----------------------------------------------------------------------------
(* The dialog of a catalog row.                                             *)

\* What the invariant says of the dialog while it is open, and of the log.
LEMMA RowFacts ==
    ASSUME IndInv, view = "row"
    PROVE  /\ row \in RowState /\ RowHolds /\ RowTellsTheTruth /\ RowWaits
           /\ TypeOK /\ NetFits /\ net \subseteq Question
           /\ Len(log) \in Nat /\ Len(log) <= MaxRows /\ MaxRows \in Nat
           /\ MaxTicks \in Nat /\ MaxTicks > 0
BY ClientsAssumption DEF IndInv, TypeOK

\* Opened, closed, picked from or closed by a timeout: only what is shown.
LEMMA RowShows ==
    ASSUME IndInv, Grows, view = "row", RowKeeps,
           row' \in RowState, row'.stage = row.stage, row'.id = row.id, row'.tries = row.tries,
           row'.closers <= row.closers, row'.tells = row.tells \/ row'.tells \notin Terminal,
           net' \subseteq Question, NetFits',
           \A q \in net' \ net : q.what = "lists"
    PROVE  IndInv'
PROOF
<1>1. row \in RowState /\ RowHolds /\ RowTellsTheTruth /\ RowWaits /\ Len(log) \in Nat
  BY RowFacts
<1>2. log' = log /\ view' = view
  BY DEF RowKeeps
<1>3. row' \in RowState'
  BY <1>2 DEF RowState, Upto
<1>4. RowHolds' /\ RowTellsTheTruth'
  BY <1>1, <1>2 DEF RowHolds, RowTellsTheTruth, Busy, Polling
<1>5. \A q \in Pending("post")' : q \in Pending("post")
  BY DEF Pending
<1>6. \A q \in Pending("status")' : q \in Pending("status")
  BY DEF Pending
<1>7. row.closers \in Nat /\ row'.closers \in Nat
  BY <1>1 DEF RowState
<1>8. RowWaits'
  BY <1>1, <1>2, <1>5, <1>6, <1>7 DEF RowWaits, Polling, Accepted
<1> QED BY <1>3, <1>4, <1>8, RowFrame

LEMMA RowUserSteps ==
    ASSUME IndInv, Grows, RowOpen \/ RowClose \/ RowPick \/ RowTimeout \/ RowListsArrive
    PROVE  IndInv'
PROOF
<1>1. view = "row" /\ RowKeeps /\ view' = view
  BY RowFacts DEF RowOpen, RowClose, RowPick, RowTimeout, RowListsArrive, RowKeeps
<1>2. row \in RowState /\ TypeOK /\ NetFits
  BY <1>1, RowFacts
<1>3. CASE RowOpen
  <2>1. row' = [row EXCEPT !.open = TRUE, !.tells = None] /\ Asks("lists", {}, 0)
    BY <1>3 DEF RowOpen
  <2>2. net' \subseteq Question /\ NetFits'
    <3>1. Cardinality(net) < MaxOnWay /\ net' = net \cup {Ask("lists", {}, 0)}
      BY <2>1 DEF Asks
    <3>2. 0 \in 0..MaxRows
      BY ClientsAssumption
    <3> QED BY <1>1, <1>2, <3>1, <3>2, NetAsks
  <2>3. \A q \in net' \ net : q.what = "lists"
    BY <2>1 DEF Asks, Ask
  <2>4. /\ row' \in RowState /\ row'.stage = row.stage /\ row'.id = row.id /\ row'.tries = row.tries
        /\ row'.closers = row.closers /\ row'.tells = None
    BY <1>2, <2>1 DEF RowState
  <2>5. row'.closers <= row.closers /\ row'.tells \notin Terminal
    BY <1>2, <2>4, ClientsAssumption DEF RowState, Terminal, None
  <2> QED BY <1>1, <2>2, <2>3, <2>4, <2>5, RowShows
<1>4. CASE RowClose \/ RowPick \/ RowTimeout
  <2>1. net' = net
    BY <1>4 DEF RowClose, RowPick, RowTimeout
  <2>2. net' \subseteq Question /\ NetFits'
    BY <1>1, <1>2, <2>1, NetTakes
  <2>3. /\ row' \in RowState /\ row'.stage = row.stage /\ row'.id = row.id /\ row'.tries = row.tries
        /\ row'.closers <= row.closers /\ row'.tells = row.tells
    <3>0. row.closers \in Nat /\ row.closers \in 0..MaxRows /\ MaxRows \in Nat
      BY <1>2, ClientsAssumption DEF RowState
    <3>1. CASE RowClose
      <4>1. row' = [row EXCEPT !.open = FALSE]
        BY <3>1 DEF RowClose
      <4>2. /\ row' \in RowState /\ row'.stage = row.stage /\ row'.id = row.id /\ row'.tries = row.tries
            /\ row'.closers = row.closers /\ row'.tells = row.tells
        BY <1>2, <4>1 DEF RowState
      <4> QED BY <3>0, <4>2
    <3>2. CASE RowPick
      BY <1>2, <3>2, ClientsAssumption DEF RowPick, RowState
    <3>3. CASE RowTimeout
      <4>1. row' = [row EXCEPT !.closers = row.closers - 1, !.open = FALSE] /\ row.closers > 0
        BY <3>3 DEF RowTimeout
      <4>2. row.closers - 1 \in 0..MaxRows /\ row.closers - 1 <= row.closers
        BY <3>0, <4>1
      <4> QED BY <1>2, <4>1, <4>2 DEF RowState
    <3> QED BY <1>4, <3>1, <3>2, <3>3
  <2> QED BY <1>1, <2>1, <2>2, <2>3, RowShows
<1>5. CASE RowListsArrive
  <2>1. net' \subseteq net
    BY <1>5 DEF RowListsArrive, Takes
  <2>2. net' \subseteq Question /\ NetFits'
    BY <1>1, <1>2, <2>1, NetTakes
  <2>3. row' = [row EXCEPT !.target = First] \/ row' = [row EXCEPT !.tells = "error"]
    BY <1>5 DEF RowListsArrive
  <2>4. /\ row' \in RowState /\ row'.stage = row.stage /\ row'.id = row.id /\ row'.tries = row.tries
        /\ row'.closers <= row.closers /\ (row'.tells = row.tells \/ row'.tells \notin Terminal)
    BY <1>2, <2>3, ClientsAssumption DEF RowState, Terminal
  <2> QED BY <1>1, <2>1, <2>2, <2>4, RowShows
<1> QED BY <1>3, <1>4, <1>5

\* A push is sent when none is under way.
LEMMA RowRuns ==
    ASSUME IndInv, Grows, RowRun
    PROVE  IndInv'
PROOF
<1>1. /\ view = "row" /\ ~Busy /\ row.target # None /\ RowKeeps /\ view' = "row" /\ log' = log
      /\ row' = [row EXCEPT !.stage = "posting", !.tells = "info", !.tries = 0]
      /\ Cardinality(net) < MaxOnWay /\ net' = net \cup {Ask("post", {row.target}, 0)}
  BY DEF RowRun, RowKeeps, Asks
<1>2. row \in RowState /\ RowWaits /\ TypeOK /\ NetFits /\ MaxTicks \in Nat /\ MaxTicks > 0 /\ MaxRows \in Nat
  BY <1>1, RowFacts
<1>3. Pending("post") = {} /\ Pending("status") = {}
  BY <1>1, <1>2 DEF RowWaits, Busy
<1>4. row.target \in Storefronts
  BY <1>1, <1>2 DEF RowState
<1>5. net' \subseteq Question /\ NetFits'
  <2>1. 0 \in 0..MaxRows /\ {row.target} \in SUBSET Storefronts
    BY <1>2, <1>4
  <2> QED BY <1>1, <1>2, <1>3, <2>1, NetAsks
<1>6. PICK p : p = Ask("post", {row.target}, 0)
  OBVIOUS
<1>7. p.what = "post" /\ p.to = {row.target} /\ p.reply = Unanswered
  BY <1>6 DEF Ask
<1>8. Pending("post")' = {p} /\ Pending("status")' = {}
  BY <1>1, <1>3, <1>6, <1>7 DEF Pending
<1>9. row' \in RowState' /\ RowHolds' /\ RowTellsTheTruth'
  <2>1. row' \in RowState'
    <3>1. 0 \in 0..MaxTicks /\ Upto' = Upto
      BY <1>1, <1>2 DEF Upto
    <3> QED BY <1>1, <1>2, <3>1 DEF RowState
  <2>2. row'.stage = "posting" /\ row'.tells = "info" /\ row'.tries = 0
    BY <1>1, <1>2 DEF RowState
  <2> QED BY <1>2, <2>1, <2>2 DEF RowHolds, RowTellsTheTruth, Busy, Polling, Terminal
<1>10. RowWaits'
  <2>1. row'.stage = "posting" /\ row'.closers = row.closers
    BY <1>1, <1>2 DEF RowState
  <2>2. ~Accepted(p)
    BY <1>7, AnswerKinds DEF Accepted
  <2> QED BY <1>1, <1>2, <1>4, <1>7, <1>8, <2>1, <2>2 DEF RowWaits, Polling, Accepted
<1> QED BY <1>1, <1>5, <1>9, <1>10, RowFrame

\* The push was refused, or has a row to be asked about.
LEMMA RowIsPosted ==
    ASSUME IndInv, Grows, RowPosted
    PROVE  IndInv'
PROOF
<1>1. PICK q \in Arrived("post") :
        IF RowRefused(q)
        THEN /\ row' = [row EXCEPT !.stage = "idle", !.tells = "error"]
             /\ Takes(q)
        ELSE \E c \in q.to :
             /\ row' = [row EXCEPT !.stage = "asking", !.id = q.reply.rows[c]]
             /\ net' = (net \ {q}) \cup {Ask("status", {}, q.reply.rows[c])}
  BY DEF RowPosted
<1>2. view = "row" /\ row.stage = "posting" /\ RowKeeps /\ view' = "row" /\ log' = log
  BY DEF RowPosted, RowKeeps
<1>3. /\ row \in RowState /\ RowWaits /\ RowHolds /\ TypeOK /\ NetFits
      /\ Len(log) \in Nat /\ Len(log) <= MaxRows /\ MaxRows \in Nat
  BY <1>2, RowFacts
<1>4. q \in net /\ q.what = "post" /\ q \in Pending("post")
  BY DEF Arrived, Pending
<1>5. Pending("status") = {} /\ (\A x \in Pending("post") : x = q)
  BY <1>2, <1>3, <1>4 DEF RowWaits, NetFits
<1>6. CASE RowRefused(q)
  <2>1. row' = [row EXCEPT !.stage = "idle", !.tells = "error"] /\ net' = net \ {q}
    BY <1>1, <1>6 DEF Takes
  <2>2. net' \subseteq Question /\ NetFits'
    BY <1>2, <1>3, <2>1, NetTakes
  <2>3. Pending("post")' = {} /\ Pending("status")' = {}
    BY <1>5, <2>1 DEF Pending
  <2>4. row' \in RowState' /\ row'.stage = "idle" /\ row'.tells = "error" /\ row'.closers = row.closers
    BY <1>2, <1>3, <2>1 DEF RowState, Upto
  <2>5. RowHolds' /\ RowTellsTheTruth'
    BY <2>4 DEF RowHolds, RowTellsTheTruth, Busy, Polling, Terminal
  <2>6. RowWaits'
    BY <1>2, <1>3, <2>3, <2>4 DEF RowWaits, Polling
  <2> QED BY <1>2, <2>2, <2>4, <2>5, <2>6, RowFrame
<1>7. CASE ~RowRefused(q)
  <2>1. PICK c \in q.to :
          /\ row' = [row EXCEPT !.stage = "asking", !.id = q.reply.rows[c]]
          /\ net' = (net \ {q}) \cup {Ask("status", {}, q.reply.rows[c])}
    BY <1>1, <1>7
  <2>2. PICK k : k = q.reply.rows[c]
    OBVIOUS
  <2>3. Good(q) /\ \E d \in q.to : q.reply.rows[d] # 0
    BY <1>7 DEF RowRefused
  <2>4. q.reply.is = "rows" /\ q.reply.rows \in [q.to -> Upto]
    BY <1>3, <2>3, PostAnswer
  <2>5. k # 0
    <3>1. PICK d \in Storefronts : q.to = {d}
      BY <1>2, <1>3, <1>4 DEF RowWaits
    <3> QED BY <2>2, <2>3, <3>1
  <2>6. k \in Upto /\ k \in DOMAIN log /\ k \in 0..MaxRows
    <3>1. log \in Seq(Statuses)
      BY <1>3 DEF TypeOK
    <3> QED BY <1>3, <2>1, <2>2, <2>4, <2>5, <3>1 DEF Upto
  <2>7. row.closers < Len(log)
    <3>1. Accepted(q)
      BY <2>3, <2>4 DEF Accepted
    <3> QED BY <1>2, <1>3, <1>4, <3>1 DEF RowWaits
  <2>8. PICK p : p = Ask("status", {}, k)
    OBVIOUS
  <2>9. p \in Question /\ p.what = "status" /\ p.row = k /\ p.reply = Unanswered
    <3>1. IsFiniteSet(net) /\ Cardinality(net) <= MaxOnWay /\ net \subseteq Question
      BY <1>2, <1>3 DEF NetFits, TypeOK
    <3> QED BY <2>6, <2>8, <3>1, Numbered
  <2>10. net' = (net \ {q}) \cup {p}
    BY <2>1, <2>2, <2>8
  <2>11. Fits(p)'
    BY <1>2, <2>6, <2>9, AnswerKinds DEF Fits
  <2>12. net' \subseteq Question /\ NetFits'
    BY <1>2, <1>3, <1>4, <2>9, <2>10, <2>11, NetSwaps
  <2>13. Pending("post")' = {} /\ Pending("status")' = {p}
    BY <1>5, <2>9, <2>10 DEF Pending
  <2>14. row' \in RowState' /\ row'.stage = "asking" /\ row'.id = k /\ row'.tells = row.tells
         /\ row'.closers = row.closers /\ row'.tries = row.tries
    BY <1>2, <1>3, <2>1, <2>2, <2>6 DEF RowState, Upto
  <2>15. row.tells \notin Terminal /\ row.tries < MaxTicks
    BY <1>2, <1>3 DEF RowHolds, Busy
  <2>16. RowHolds' /\ RowTellsTheTruth'
    BY <2>5, <2>14, <2>15 DEF RowHolds, RowTellsTheTruth, Busy, Polling
  <2>17. RowWaits'
    BY <1>2, <1>3, <2>7, <2>9, <2>13, <2>14 DEF RowWaits, Polling, RowState
  <2> QED BY <1>2, <2>12, <2>14, <2>16, <2>17, RowFrame
<1> QED BY <1>6, <1>7

\* The poll ends: with a final status, an error or the last try.
LEMMA RowEnded ==
    ASSUME IndInv, Grows, view = "row", RowKeeps, Polling,
           NEW status \in {"error", "still_running"} \cup Terminal, RowEnds(status),
           status \in Terminal => log[row.id] = status,
           net' \subseteq net, \A q \in net' : q.what # "status"
    PROVE  IndInv'
PROOF
<1>1. /\ row \in RowState /\ RowWaits /\ RowHolds /\ TypeOK /\ NetFits
      /\ Len(log) \in Nat /\ Len(log) <= MaxRows /\ MaxRows \in Nat
  BY RowFacts
<1>2. view' = "row" /\ log' = log
  BY DEF RowKeeps
<1>3. net' \subseteq Question /\ NetFits'
  BY <1>1, <1>2, NetTakes
<1>4. Pending("post")' = {} /\ Pending("status")' = {}
  <2>1. Pending("post") = {}
    BY <1>1 DEF RowWaits, Polling
  <2> QED BY <2>1 DEF Pending
<1>5. row.closers \in 0..MaxRows /\ row.closers < Len(log) /\ row.closers + 1 \in 0..MaxRows
  <2>1. row.closers \in Nat /\ row.closers < Len(log)
    BY <1>1 DEF RowState, RowWaits
  <2> QED BY <1>1, <2>1
<1>6. /\ row' \in RowState /\ row'.stage = "idle" /\ row'.tells = status /\ row'.id = row.id
      /\ row'.closers \in {row.closers, row.closers + 1}
  BY <1>1, <1>5 DEF RowEnds, RowState, Terminal
<1>7. row' \in RowState'
  BY <1>2, <1>6 DEF RowState, Upto
<1>8. RowHolds' /\ RowTellsTheTruth'
  <2>1. row.id # 0
    BY <1>1 DEF RowHolds
  <2> QED BY <1>2, <1>6, <2>1 DEF RowHolds, RowTellsTheTruth, Busy, Polling
<1>9. RowWaits'
  <2>1. row'.closers <= Len(log)
    BY <1>1, <1>5, <1>6
  <2> QED BY <1>2, <1>4, <1>6, <2>1 DEF RowWaits, Polling
<1> QED BY <1>3, <1>7, <1>8, <1>9, RowFrame

\* The status of the row is taken, or another question is due.
LEMMA RowIsAnswered ==
    ASSUME IndInv, Grows, RowStatus
    PROVE  IndInv'
PROOF
<1>1. PICK q \in Arrived("status") :
        /\ IF ~Good(q) THEN RowEnds("error")
           ELSE IF q.reply.status \in Terminal THEN RowEnds(q.reply.status)
           ELSE row' = [row EXCEPT !.stage = "waiting", !.tries = @ + 1]
        /\ Takes(q)
  BY DEF RowStatus
<1>2. view = "row" /\ row.stage = "asking" /\ RowKeeps /\ view' = "row" /\ log' = log
  BY DEF RowStatus, RowKeeps
<1>3. /\ row \in RowState /\ RowWaits /\ RowHolds /\ RowTellsTheTruth /\ TypeOK /\ NetFits
      /\ Len(log) \in Nat /\ Len(log) <= MaxRows /\ MaxRows \in Nat /\ MaxTicks \in Nat
  BY <1>2, RowFacts
<1>4. q \in Pending("status") /\ q.row = row.id /\ net' = net \ {q}
  BY <1>1, <1>2, <1>3 DEF Arrived, RowWaits, Takes
<1>5. net' \subseteq net /\ \A x \in net' : x.what # "status"
  BY <1>2, <1>3, <1>4 DEF RowWaits, Pending
<1>6. Polling
  BY <1>2 DEF Polling
<1>7. CASE ~Good(q)
  <2>1. RowEnds("error") /\ "error" \notin Terminal
    BY <1>1, <1>7 DEF Terminal
  <2> QED BY <1>2, <1>5, <1>6, <2>1, RowEnded
<1>8. CASE Good(q) /\ q.reply.status \in Terminal
  <2>1. RowEnds(q.reply.status)
    BY <1>1, <1>8
  <2>2. log[row.id] = q.reply.status
    BY <1>1, <1>3, <1>4, <1>8, StatusAnswer
  <2>3. PICK s \in Terminal : s = q.reply.status
    BY <1>8
  <2> QED BY <1>2, <1>5, <1>6, <2>1, <2>2, <2>3, RowEnded
<1>9. CASE Good(q) /\ q.reply.status \notin Terminal
  <2>1. row' = [row EXCEPT !.stage = "waiting", !.tries = row.tries + 1]
    BY <1>1, <1>9
  <2>2. row.tries + 1 \in 0..MaxTicks
    <3>1. row.tries \in Nat /\ row.tries < MaxTicks
      BY <1>2, <1>3 DEF RowState, RowHolds
    <3> QED BY <1>3, <3>1
  <2>3. /\ row' \in RowState /\ row'.stage = "waiting" /\ row'.tells = row.tells
        /\ row'.id = row.id /\ row'.closers = row.closers
    BY <1>3, <2>1, <2>2 DEF RowState
  <2>4. row' \in RowState'
    BY <1>2, <2>3 DEF RowState, Upto
  <2>5. row.tells \notin Terminal /\ row.id # 0
    BY <1>2, <1>3, <1>6 DEF RowHolds, Busy
  <2>6. RowHolds' /\ RowTellsTheTruth'
    BY <2>3, <2>5 DEF RowHolds, RowTellsTheTruth, Busy, Polling
  <2>7. net' \subseteq Question /\ NetFits'
    BY <1>2, <1>3, <1>5, NetTakes
  <2>8. Pending("post")' = {} /\ Pending("status")' = {}
    <3>1. Pending("post") = {}
      BY <1>2, <1>3 DEF RowWaits
    <3> QED BY <1>5, <3>1 DEF Pending
  <2>9. row.closers <= Len(log) /\ row.closers < Len(log)
    BY <1>2, <1>3, <1>6 DEF RowWaits
  <2>10. RowWaits'
    BY <1>2, <2>3, <2>8, <2>9 DEF RowWaits, Polling
  <2> QED BY <1>2, <2>4, <2>6, <2>7, <2>10, RowFrame
<1> QED BY <1>7, <1>8, <1>9

\* Between two questions: the next one, or no more.
LEMMA RowAsksOn ==
    ASSUME IndInv, Grows, RowWaited
    PROVE  IndInv'
PROOF
<1>1. view = "row" /\ row.stage = "waiting" /\ RowKeeps /\ view' = "row" /\ log' = log
  BY DEF RowWaited, RowKeeps
<1>2. /\ row \in RowState /\ RowWaits /\ RowHolds /\ RowTellsTheTruth /\ TypeOK /\ NetFits
      /\ Len(log) \in Nat /\ Len(log) <= MaxRows /\ MaxRows \in Nat /\ MaxTicks \in Nat
  BY <1>1, RowFacts
<1>3. Polling /\ Pending("post") = {} /\ Pending("status") = {}
  BY <1>1, <1>2 DEF RowWaits, Polling
<1>4. CASE row.tries = MaxTicks
  <2>1. RowEnds("still_running") /\ net' = net /\ "still_running" \notin Terminal
    BY <1>4 DEF RowWaited, Terminal
  <2>2. \A q \in net' : q.what # "status"
    BY <1>3, <2>1 DEF Pending
  <2> QED BY <1>1, <1>3, <2>1, <2>2, RowEnded
<1>5. CASE row.tries # MaxTicks
  <2>1. /\ row' = [row EXCEPT !.stage = "asking"]
        /\ Cardinality(net) < MaxOnWay /\ net' = net \cup {Ask("status", {}, row.id)}
    BY <1>5 DEF RowWaited, Asks
  <2>2. row.id # 0 /\ row.tells \notin Terminal
    BY <1>1, <1>2, <1>3 DEF RowHolds, Busy
  <2>3. row.id \in Upto /\ row.id \in DOMAIN log /\ row.id \in 0..MaxRows
    <3>1. log \in Seq(Statuses) /\ row.id \in 0..Len(log)
      BY <1>2 DEF TypeOK, RowState, Upto
    <3> QED BY <1>2, <2>2, <3>1 DEF Upto
  <2>4. PICK k : k = row.id
    OBVIOUS
  <2>5. net' \subseteq Question /\ NetFits'
    <3>1. net' = net \cup {Ask("status", {}, k)} /\ k \in 0..MaxRows /\ k \in DOMAIN log'
      BY <1>1, <2>1, <2>3, <2>4
    <3> QED BY <1>1, <1>2, <2>1, <3>1, NetAsks
  <2>6. PICK p : p = Ask("status", {}, k)
    OBVIOUS
  <2>7. p.what = "status" /\ p.row = k
    BY <2>6 DEF Ask
  <2>8. Pending("post")' = {} /\ Pending("status")' = {p}
    BY <1>3, <2>1, <2>4, <2>6, <2>7 DEF Pending
  <2>9. /\ row' \in RowState /\ row'.stage = "asking" /\ row'.tells = row.tells
        /\ row'.id = row.id /\ row'.closers = row.closers /\ row'.tries = row.tries
    BY <1>2, <2>1 DEF RowState
  <2>10. row' \in RowState'
    BY <1>1, <2>9 DEF RowState, Upto
  <2>11. row.tries < MaxTicks
    <3>1. row.tries \in 0..MaxTicks
      BY <1>2 DEF RowState
    <3> QED BY <1>2, <1>5, <3>1
  <2>12. RowHolds' /\ RowTellsTheTruth'
    BY <2>2, <2>9, <2>11 DEF RowHolds, RowTellsTheTruth, Busy, Polling
  <2>13. row.closers <= Len(log) /\ row.closers < Len(log)
    BY <1>1, <1>2, <1>3 DEF RowWaits
  <2>14. RowWaits'
    BY <1>1, <2>4, <2>7, <2>8, <2>9, <2>13 DEF RowWaits, Polling
  <2> QED BY <1>1, <2>5, <2>10, <2>12, <2>14, RowFrame
<1> QED BY <1>4, <1>5

-----------------------------------------------------------------------------
(* The batch dialog.                                                        *)

LEMMA BatchFacts ==
    ASSUME IndInv, view = "batch"
    PROVE  /\ batch \in BatchState /\ BatchHolds /\ BatchWaits /\ DoneMeansSettled
           /\ TypeOK /\ NetFits /\ MaxRows \in Nat /\ MaxTicks \in Nat
           /\ log \in Seq(Statuses) /\ Len(log) \in Nat /\ Len(log) <= MaxRows
BY ClientsAssumption DEF IndInv, TypeOK

\* A step that asks nothing and leaves the rows alone.
LEMMA BatchTakes ==
    ASSUME IndInv, Grows, view = "batch", BatchKeeps, net' \subseteq net,
           batch' \in BatchState, BatchHolds', DoneMeansSettled',
           Pending("post")' # {} => batch'.pushing
    PROVE  IndInv'
PROOF
<1>1. view' = "batch" /\ log' = log
  BY DEF BatchKeeps
<1>2. net' \subseteq Question /\ NetFits'
  BY <1>1, BatchFacts, NetTakes
<1>3. batch' \in BatchState'
  BY <1>1 DEF BatchState, Upto
<1>4. BatchWaits'
  BY DEF BatchWaits
<1> QED BY <1>2, <1>3, <1>4, BatchFrame

LEMMA BatchLists ==
    ASSUME IndInv, Grows, BatchListsArrive
    PROVE  IndInv'
PROOF
<1>1. PICK q \in Arrived("lists") :
        batch' = [batch EXCEPT !.known = Good(q)] /\ net' = net \ {q}
  BY DEF BatchListsArrive, Takes
<1>2. view = "batch" /\ BatchKeeps /\ log' = log
  BY DEF BatchListsArrive, BatchKeeps
<1>3. batch \in BatchState /\ BatchHolds /\ BatchWaits /\ DoneMeansSettled
  BY <1>2, BatchFacts
<1>4. Good(q) \in BOOLEAN
  BY DEF Good
<1>5. /\ batch' \in BatchState /\ batch'.pushing = batch.pushing /\ batch'.phase = batch.phase
      /\ batch'.ids = batch.ids /\ batch'.shown = batch.shown /\ batch'.gaveUp = batch.gaveUp
  BY <1>1, <1>3, <1>4 DEF BatchState
<1>6. BatchHolds' /\ DoneMeansSettled'
  BY <1>2, <1>3, <1>5 DEF BatchHolds, DoneMeansSettled
<1>7. Pending("post")' # {} => batch'.pushing
  BY <1>1, <1>2, <1>3, <1>5 DEF BatchWaits, Pending
<1> QED BY <1>1, <1>2, <1>5, <1>6, <1>7, BatchTakes

LEMMA BatchPushes ==
    ASSUME IndInv, Grows, BatchPush
    PROVE  IndInv'
PROOF
<1>1. PICK selected \in SUBSET Storefronts :
        batch' = [batch EXCEPT !.pushing = TRUE] /\ Asks("post", selected, 0)
  BY DEF BatchPush
<1>2. /\ view = "batch" /\ BatchKeeps /\ log' = log /\ view' = view
      /\ batch.phase = "select" /\ ~batch.pushing
  BY DEF BatchPush, BatchKeeps
<1>3. batch \in BatchState /\ BatchHolds /\ BatchWaits /\ DoneMeansSettled /\ TypeOK /\ NetFits /\ MaxRows \in Nat
  BY <1>2, BatchFacts
<1>4. Pending("post") = {}
  BY <1>2, <1>3 DEF BatchWaits
<1>5. net' \subseteq Question /\ NetFits'
  <2>1. 0 \in 0..MaxRows /\ net' = net \cup {Ask("post", selected, 0)} /\ Cardinality(net) < MaxOnWay
    BY <1>1, <1>3 DEF Asks
  <2> QED BY <1>2, <1>3, <1>4, <2>1, NetAsks
<1>6. /\ batch' \in BatchState /\ batch'.pushing /\ batch'.phase = "select"
      /\ batch'.ids = batch.ids /\ batch'.shown = batch.shown
  BY <1>1, <1>2, <1>3 DEF BatchState
<1>7. batch' \in BatchState'
  BY <1>2, <1>6 DEF BatchState, Upto
<1>8. BatchHolds' /\ DoneMeansSettled' /\ BatchWaits'
  BY <1>2, <1>3, <1>6 DEF BatchHolds, DoneMeansSettled, BatchWaits
<1> QED BY <1>2, <1>5, <1>7, <1>8, BatchFrame

\* The dialog knows its rows; none of them is shown to be over.
LEMMA BatchIsPosted ==
    ASSUME IndInv, Grows, BatchPosted
    PROVE  IndInv'
PROOF
<1>1. PICK q \in Arrived("post") :
        /\ batch' = IF ~Good(q) THEN [batch EXCEPT !.pushing = FALSE]
             ELSE [batch EXCEPT !.pushing = FALSE, !.phase = "running",
                 !.ids = [c \in Storefronts |->
                              IF c \in q.to THEN q.reply.rows[c] ELSE 0],
                 !.shown = [c \in Storefronts |->
                     IF c \notin q.to THEN None
                     ELSE IF q.reply.rows[c] = 0 THEN "failed" ELSE "accepted"]]
        /\ net' = net \ {q}
  BY DEF BatchPosted, Takes
<1>2. view = "batch" /\ BatchKeeps /\ log' = log
  BY DEF BatchPosted, BatchKeeps
<1>3. batch \in BatchState /\ BatchHolds /\ DoneMeansSettled /\ TypeOK /\ NetFits
  BY <1>2, BatchFacts
<1>4. Pending("post")' = {}
  BY <1>1, <1>2, <1>3 DEF NetFits, Pending, Arrived
<1>5. CASE ~Good(q)
  <2>1. batch' = [batch EXCEPT !.pushing = FALSE]
    BY <1>1, <1>5
  <2>2. /\ batch' \in BatchState /\ ~batch'.pushing /\ batch'.phase = batch.phase
        /\ batch'.ids = batch.ids /\ batch'.shown = batch.shown /\ batch'.gaveUp = batch.gaveUp
    BY <1>3, <2>1 DEF BatchState
  <2>3. BatchHolds' /\ DoneMeansSettled'
    BY <1>2, <1>3, <2>2 DEF BatchHolds, DoneMeansSettled
  <2> QED BY <1>1, <1>2, <1>4, <2>2, <2>3, BatchTakes
<1>6. CASE Good(q)
  <2>1. PICK ids : ids = [c \in Storefronts |-> IF c \in q.to THEN q.reply.rows[c] ELSE 0]
    OBVIOUS
  <2>2. PICK shown : shown = [c \in Storefronts |-> IF c \notin q.to THEN None
                                   ELSE IF q.reply.rows[c] = 0 THEN "failed" ELSE "accepted"]
    OBVIOUS
  <2>3. batch' = [batch EXCEPT !.pushing = FALSE, !.phase = "running", !.ids = ids, !.shown = shown]
    BY <1>1, <1>6, <2>1, <2>2
  <2>4. q.reply.rows \in [q.to -> Upto]
    BY <1>3, <1>6, PostAnswer
  <2>5. ids \in [Storefronts -> Upto]
    <3>1. 0 \in Upto
      BY <1>2, BatchFacts DEF Upto
    <3> QED BY <2>1, <2>4, <3>1
  <2>6. shown \in [Storefronts -> Statuses \cup {None}]
    BY <2>2 DEF Statuses, InFlight, Terminal
  <2>7. \A c \in Storefronts : ids[c] # 0 => shown[c] \notin Terminal
    BY <2>1, <2>2 DEF Terminal
  <2>8. /\ batch' \in BatchState /\ ~batch'.pushing /\ batch'.phase = "running"
        /\ batch'.ids = ids /\ batch'.shown = shown
    BY <1>3, <2>3, <2>5, <2>6 DEF BatchState
  <2>9. BatchHolds' /\ DoneMeansSettled'
    BY <2>7, <2>8 DEF BatchHolds, DoneMeansSettled
  <2> QED BY <1>1, <1>2, <1>4, <2>8, <2>9, BatchTakes
<1> QED BY <1>5, <1>6

\* The interval fires: the end, or a question for each row that is watched.
LEMMA BatchTicks ==
    ASSUME IndInv, Grows, BatchTick
    PROVE  IndInv'
PROOF
<1>1. view = "batch" /\ batch.phase = "running" /\ BatchKeeps /\ log' = log /\ view' = view
  BY DEF BatchTick, BatchKeeps
<1>2. /\ batch \in BatchState /\ BatchHolds /\ BatchWaits /\ DoneMeansSettled /\ TypeOK /\ NetFits
      /\ MaxRows \in Nat /\ MaxTicks \in Nat
      /\ log \in Seq(Statuses) /\ Len(log) \in Nat /\ Len(log) <= MaxRows
  BY <1>1, BatchFacts
<1>3. ~batch.pushing /\ Pending("post") = {}
  BY <1>1, <1>2 DEF BatchHolds, BatchWaits
<1>4. CASE batch.ticks = MaxTicks \/ Watched = {}
  <2>1. net' = net /\ (\/ batch' = [batch EXCEPT !.phase = "done", !.gaveUp = TRUE]
                       \/ Watched = {} /\ batch' = [batch EXCEPT !.phase = "done"])
    BY <1>4 DEF BatchTick
  <2>2. /\ batch' \in BatchState /\ ~batch'.pushing
        /\ batch'.ids = batch.ids /\ batch'.shown = batch.shown
        /\ batch'.gaveUp \/ Watched = {}
    BY <1>2, <1>3, <2>1 DEF BatchState
  <2>3. BatchHolds'
    BY <1>1, <1>2, <2>2 DEF BatchHolds
  <2>4. DoneMeansSettled'
    BY <1>1, <1>2, <2>2 DEF DoneMeansSettled, BatchHolds, Watched
  <2>5. Pending("post")' = {}
    BY <1>3, <2>1 DEF Pending
  <2> QED BY <1>1, <2>1, <2>2, <2>3, <2>4, <2>5, BatchTakes
<1>5. CASE batch.ticks # MaxTicks /\ Watched # {}
  <2>1. /\ Cardinality(net) + Cardinality(Watched) <= MaxOnWay
        /\ batch' = [batch EXCEPT !.ticks = batch.ticks + 1]
        /\ net' = net \cup {Ask("status", {}, batch.ids[c]) : c \in Watched}
    BY <1>5 DEF BatchTick
  <2>2. PICK Q : Q = {Ask("status", {}, batch.ids[c]) : c \in Watched}
    OBVIOUS
  <2>3. IsFiniteSet(net) /\ Cardinality(net) <= MaxOnWay /\ IsFiniteSet(Watched)
    <3>1. IsFiniteSet(net) /\ IsFiniteSet(Watched)
      BY <1>2, ClientsAssumption, FS_Subset DEF NetFits, Watched
    <3>2. Cardinality(net) \in Nat /\ Cardinality(Watched) \in Nat
      BY <3>1, FS_CardinalityType
    <3> QED BY <2>1, <3>1, <3>2, ClientsAssumption
  <2>4. IsFiniteSet(Q)
    <3> DEFINE f == [c \in Watched |-> Ask("status", {}, batch.ids[c])]
    <3>1. f \in Surjection(Watched, Q)
      BY <2>2 DEF Surjection
    <3> HIDE DEF f
    <3> QED BY <2>3, <3>1, FS_Surjection
  <2>5. ASSUME NEW q \in Q PROVE q \in Question /\ q.what = "status" /\ Fits(q)'
    <3>1. PICK c \in Watched : q = Ask("status", {}, batch.ids[c])
      BY <2>2
    <3>2. PICK k : k = batch.ids[c]
      OBVIOUS
    <3>3. k \in Upto /\ k # 0
      BY <1>2, <3>2 DEF Watched, BatchState
    <3>4. k \in DOMAIN log /\ k \in 0..MaxRows
      BY <1>2, <3>3 DEF Upto
    <3>5. q \in Question /\ q.what = "status" /\ q.row = k /\ q.reply = Unanswered
      BY <1>2, <2>3, <3>1, <3>2, <3>4, Numbered DEF TypeOK
    <3> QED BY <1>1, <3>4, <3>5, AnswerKinds DEF Fits
  <2>6. net' = net \cup Q
    BY <2>1, <2>2
  <2>7. \A x \in net' : x.what # "post"
    BY <1>3, <2>5, <2>6 DEF Pending
  <2>8. net' \subseteq Question /\ NetFits'
    BY <1>1, <1>2, <2>4, <2>5, <2>6, <2>7, NetStep
  <2>9. batch.ticks + 1 \in 0..MaxTicks
    <3>1. batch.ticks \in 0..MaxTicks
      BY <1>2 DEF BatchState
    <3> QED BY <1>2, <1>5, <3>1
  <2>10. /\ batch' \in BatchState /\ batch'.pushing = batch.pushing /\ batch'.phase = batch.phase
         /\ batch'.ids = batch.ids /\ batch'.shown = batch.shown /\ batch'.gaveUp = batch.gaveUp
    BY <1>2, <2>1, <2>9 DEF BatchState
  <2>11. batch' \in BatchState'
    BY <1>1, <2>10 DEF BatchState, Upto
  <2>12. BatchHolds' /\ DoneMeansSettled' /\ BatchWaits'
    BY <1>1, <1>2, <2>7, <2>10 DEF BatchHolds, DoneMeansSettled, BatchWaits, Pending
  <2> QED BY <1>1, <2>8, <2>11, <2>12, BatchFrame
<1> QED BY <1>4, <1>5

\* An answer is shown, or counted as one more failure.
LEMMA BatchIsAnswered ==
    ASSUME IndInv, Grows, BatchStatus
    PROVE  IndInv'
PROOF
<1>1. PICK q \in Arrived("status") :
        /\ batch' = IF Good(q)
             THEN [batch EXCEPT !.bad = 0, !.shown = [c \in Storefronts |->
                       IF batch.ids[c] = q.row THEN q.reply.status ELSE batch.shown[c]]]
             ELSE IF batch.bad + 1 >= MaxFailures /\ batch.phase = "running"
             THEN [batch EXCEPT !.bad = @ + 1, !.phase = "done", !.gaveUp = TRUE]
             ELSE [batch EXCEPT !.bad = @ + 1]
        /\ net' = net \ {q}
  BY DEF BatchStatus, Takes
<1>2. view = "batch" /\ BatchKeeps /\ log' = log
  BY DEF BatchStatus, BatchKeeps
<1>3. batch \in BatchState /\ BatchHolds /\ BatchWaits /\ DoneMeansSettled /\ TypeOK /\ NetFits
  BY <1>2, BatchFacts
<1>4. CASE Good(q)
  <2>1. PICK shown : shown = [c \in Storefronts |->
                       IF batch.ids[c] = q.row THEN q.reply.status ELSE batch.shown[c]]
    OBVIOUS
  <2>2. batch' = [batch EXCEPT !.bad = 0, !.shown = shown]
    BY <1>1, <1>4, <2>1
  <2>3. /\ q.reply.status \in Statuses
        /\ q.reply.status \in Terminal => log[q.row] = q.reply.status
    BY <1>3, <1>4, StatusAnswer
  <2>4. shown \in [Storefronts -> Statuses \cup {None}]
    BY <1>3, <2>1, <2>3 DEF BatchState
  <2>5. /\ batch' \in BatchState /\ batch'.pushing = batch.pushing /\ batch'.phase = batch.phase
        /\ batch'.ids = batch.ids /\ batch'.shown = shown /\ batch'.gaveUp = batch.gaveUp
    BY <1>3, <2>2, <2>4 DEF BatchState
  <2>6. \A c \in Storefronts : batch.ids[c] # 0 /\ shown[c] \in Terminal => log[batch.ids[c]] \in Terminal
    BY <1>3, <2>1, <2>3 DEF BatchHolds
  <2>7. BatchHolds' /\ DoneMeansSettled'
    BY <1>2, <1>3, <2>5, <2>6 DEF BatchHolds, DoneMeansSettled
  <2>8. Pending("post")' # {} => batch'.pushing
    BY <1>1, <1>2, <1>3, <2>5 DEF BatchWaits, Pending
  <2> QED BY <1>1, <1>2, <2>5, <2>7, <2>8, BatchTakes
<1>5. CASE ~Good(q)
  <2>1. batch' \in {[batch EXCEPT !.bad = batch.bad + 1],
                    [batch EXCEPT !.bad = batch.bad + 1, !.phase = "done", !.gaveUp = TRUE]}
        /\ (batch' = [batch EXCEPT !.bad = batch.bad + 1] \/ batch.phase = "running")
    BY <1>1, <1>5
  <2>2. batch.bad + 1 \in Nat
    BY <1>3 DEF BatchState
  <2>3. /\ batch' \in BatchState /\ batch'.pushing = batch.pushing
        /\ batch'.ids = batch.ids /\ batch'.shown = batch.shown
        /\ \/ batch'.phase = batch.phase /\ batch'.gaveUp = batch.gaveUp
           \/ batch.phase = "running" /\ batch'.gaveUp
    BY <1>3, <2>1, <2>2 DEF BatchState
  <2>4. BatchHolds' /\ DoneMeansSettled'
    BY <1>2, <1>3, <2>3 DEF BatchHolds, DoneMeansSettled
  <2>5. Pending("post")' # {} => batch'.pushing
    BY <1>1, <1>2, <1>3, <2>3 DEF BatchWaits, Pending
  <2> QED BY <1>1, <1>2, <2>3, <2>4, <2>5, BatchTakes
<1> QED BY <1>4, <1>5

-----------------------------------------------------------------------------
(* The push page and the detail page.                                       *)

LEMMA PageFacts ==
    ASSUME IndInv
    PROVE  /\ page \in PageState /\ detail \in DetailState /\ TypeOK /\ NetFits
           /\ view = "push" => PageWaits
           /\ MaxRows \in Nat /\ 0 \in 0..MaxRows
           /\ log \in Seq(Statuses) /\ Len(log) \in Nat /\ Len(log) <= MaxRows
BY ClientsAssumption DEF IndInv, TypeOK

\* A step on the push page.
LEMMA PageFrame ==
    ASSUME IndInv, Grows, view = "push", PageKeeps, view' = view, page' \in PageState, PageWaits',
           net' \subseteq Question, NetFits'
    PROVE  IndInv'
PROOF
<1>1. log' = log /\ row' = row /\ batch' = batch /\ detail' = detail
  BY DEF PageKeeps
<1>2. page' \in PageState' /\ detail' \in DetailState'
  BY <1>1, PageFacts DEF PageState, DetailState, Upto
<1> QED BY <1>1, <1>2, OtherFrame

\* A dry run takes the place of the one before.
LEMMA DryRuns ==
    ASSUME IndInv, Grows, PageSelect \/ PageRetry
    PROVE  IndInv'
PROOF
<1>1. view = "push" /\ PageKeeps /\ view' = view /\ log' = log
  BY DEF PageSelect, PageRetry, PageKeeps
<1>2. page \in PageState /\ TypeOK /\ NetFits /\ PageWaits /\ 0 \in 0..MaxRows
  BY <1>1, PageFacts
<1>3. PICK c \in Storefronts : DryRun(c)
  BY <1>2 DEF PageSelect, PageRetry, PageState
<1>4. PICK p : p = Ask("dry", {c}, 0)
  OBVIOUS
<1>5. p.what = "dry" /\ p.to = {c}
  BY <1>4 DEF Ask
<1>6. PICK N \in SUBSET net : N = net \ Pending("dry")
  OBVIOUS
<1>7. net' = N \cup {Ask("dry", {c}, 0)} /\ Cardinality(net) < MaxOnWay
  BY <1>3, <1>6 DEF DryRun
<1>8. net' \subseteq Question /\ NetFits'
  BY <1>1, <1>2, <1>7, NetAsks
<1>9. /\ page' \in PageState /\ page'.key = c /\ page'.loading /\ ~page'.confirm
      /\ page'.pushing = page.pushing
  BY <1>2, <1>3 DEF DryRun, PageState
<1>10. Pending("dry")' = {p} /\ Pending("post")' = Pending("post")
  BY <1>4, <1>5, <1>6, <1>7 DEF Pending
<1>11. PageWaits'
  BY <1>1, <1>2, <1>5, <1>9, <1>10 DEF PageWaits
<1> QED BY <1>1, <1>8, <1>9, <1>11, PageFrame

\* A dry run is judged for the customer that is still selected.
LEMMA DryRunIsJudged ==
    ASSUME IndInv, Grows, PageDryRun
    PROVE  IndInv'
PROOF
<1>1. view = "push" /\ PageKeeps /\ view' = view /\ log' = log
  BY DEF PageDryRun, PageKeeps
<1>2. page \in PageState /\ TypeOK /\ NetFits /\ PageWaits
  BY <1>1, PageFacts
<1>3. PICK q \in Arrived("dry") :
        /\ page' = [page EXCEPT !.loading = FALSE,
                                !.judged = [to |-> q.to, verdict |-> q.reply.verdict],
                                !.error = q.reply.verdict = "blocked"]
        /\ net' = net \ {q}
  BY DEF PageDryRun, Takes
<1>4. q.reply.verdict \in {"fine", "blocked"} /\ q.to = {page.key} /\ q.to \subseteq Storefronts
  <2>1. q \in net /\ q \in Pending("dry") /\ q \in Question
    BY <1>2 DEF Arrived, Pending, TypeOK
  <2> QED BY <1>1, <1>2, <2>1, DryAnswer DEF PageWaits, Question
<1>5. net' \subseteq Question /\ NetFits'
  BY <1>1, <1>2, <1>3, NetTakes
<1>6. PICK v \in {"fine", "blocked"} : v = q.reply.verdict
  BY <1>4
<1>7. /\ page' \in PageState /\ page'.key = page.key /\ page'.error = (v = "blocked")
      /\ page'.judged.to = {page.key} /\ page'.judged.verdict = v
      /\ page'.pushing = page.pushing /\ page'.confirm = page.confirm
  BY <1>2, <1>3, <1>4, <1>6 DEF PageState
<1>8. PageWaits'
  BY <1>1, <1>2, <1>3, <1>7 DEF PageWaits, Pending
<1> QED BY <1>1, <1>5, <1>7, <1>8, PageFrame

\* The dialog opens while no push is under way.
LEMMA PageAsksUser ==
    ASSUME IndInv, Grows, PageConfirm \/ PageCancel
    PROVE  IndInv'
PROOF
<1>1. view = "push" /\ PageKeeps /\ view' = view /\ log' = log /\ net' = net
  BY DEF PageConfirm, PageCancel, PageKeeps
<1>2. page \in PageState /\ TypeOK /\ NetFits /\ PageWaits
  BY <1>1, PageFacts
<1>3. \/ ~page.pushing /\ page' = [page EXCEPT !.confirm = TRUE]
      \/ page' = [page EXCEPT !.confirm = FALSE]
  BY DEF PageConfirm, PageCancel, Live
<1>4. /\ page' \in PageState /\ page'.key = page.key /\ page'.judged = page.judged
      /\ page'.loading = page.loading /\ page'.error = page.error /\ page'.pushing = page.pushing
      /\ ~page.pushing \/ ~page'.confirm
  BY <1>2, <1>3 DEF PageState
<1>5. net' \subseteq Question /\ NetFits'
  BY <1>1, <1>2, NetTakes
<1>6. PageWaits'
  BY <1>1, <1>2, <1>4 DEF PageWaits, Pending
<1> QED BY <1>1, <1>4, <1>5, <1>6, PageFrame

\* A push is sent, tried or confirmed, when none is under way.
LEMMA PageSends ==
    ASSUME IndInv, Grows, PageTry \/ PageSubmit
    PROVE  IndInv'
PROOF
<1>1. view = "push" /\ PageKeeps /\ view' = view /\ log' = log /\ page.key # None
  BY DEF PageTry, PageSubmit, PageKeeps, Live, Controls
<1>2. page \in PageState /\ TypeOK /\ NetFits /\ PageWaits /\ 0 \in 0..MaxRows
  BY <1>1, PageFacts
<1>3. /\ ~page.pushing /\ Asks("post", {page.key}, 0)
      /\ \/ ~page.confirm /\ page' = [page EXCEPT !.pushing = TRUE]
         \/ page' = [page EXCEPT !.confirm = FALSE, !.pushing = TRUE]
  BY <1>1, <1>2 DEF PageTry, PageSubmit, Live, PageWaits
<1>4. PICK p : p = Ask("post", {page.key}, 0)
  OBVIOUS
<1>5. p.what = "post"
  BY <1>4 DEF Ask
<1>6. Pending("post") = {}
  BY <1>1, <1>2, <1>3 DEF PageWaits
<1>7. PICK c \in Storefronts : c = page.key
  BY <1>1, <1>2 DEF PageState
<1>8. net' = net \cup {Ask("post", {c}, 0)} /\ Cardinality(net) < MaxOnWay
  BY <1>3, <1>7 DEF Asks
<1>9. net' \subseteq Question /\ NetFits'
  BY <1>1, <1>2, <1>6, <1>8, NetAsks
<1>10. /\ page' \in PageState /\ page'.key = page.key /\ page'.judged = page.judged
       /\ page'.loading = page.loading /\ page'.error = page.error
       /\ page'.pushing /\ ~page'.confirm
  BY <1>2, <1>3 DEF PageState
<1>11. \A q \in net' : q.what = "dry" => q \in net
  BY <1>4, <1>5, <1>7, <1>8
<1>12. PageWaits'
  BY <1>1, <1>2, <1>10, <1>11 DEF PageWaits, Pending
<1> QED BY <1>1, <1>9, <1>10, <1>12, PageFrame

\* The push was answered, with a row to move on to or without.
LEMMA PageIsPosted ==
    ASSUME IndInv, Grows, PagePosted
    PROVE  IndInv'
PROOF
<1>1. view = "push" /\ PageKeeps /\ view' = view /\ log' = log
  BY DEF PagePosted, PageKeeps
<1>2. page \in PageState /\ TypeOK /\ NetFits /\ PageWaits
  BY <1>1, PageFacts
<1>3. PICK q \in Arrived("post") :
        /\ page' = IF RowRefused(q)
             THEN [page EXCEPT !.pushing = FALSE]
             ELSE [page EXCEPT !.pushing = FALSE,
                               !.saves = CHOOSE n \in 1..MaxRows :
                                             \E c \in q.to : q.reply.rows[c] = n]
        /\ net' = net \ {q}
  BY DEF PagePosted, Takes
<1>4. Pending("post")' = {} /\ \A x \in Pending("dry")' : x \in Pending("dry")
  BY <1>1, <1>2, <1>3 DEF NetFits, Pending, Arrived
<1>5. net' \subseteq Question /\ NetFits'
  BY <1>1, <1>2, <1>3, NetTakes
<1>6. ASSUME ~RowRefused(q)
      PROVE  (CHOOSE n \in 1..MaxRows : \E c \in q.to : q.reply.rows[c] = n) \in Upto
  <2>1. q.reply.rows \in [q.to -> Upto] /\ \E c \in q.to : q.reply.rows[c] # 0
    BY <1>2, <1>6, PostAnswer DEF RowRefused
  <2>2. PICK c \in q.to : q.reply.rows[c] # 0
    BY <2>1
  <2>3. q.reply.rows[c] \in 1..MaxRows
    BY <2>1, <2>2, PageFacts DEF Upto
  <2> DEFINE n == CHOOSE n \in 1..MaxRows : \E d \in q.to : q.reply.rows[d] = n
  <2>4. n \in 1..MaxRows /\ \E d \in q.to : q.reply.rows[d] = n
    BY <2>2, <2>3
  <2> QED BY <2>1, <2>4
<1>7. /\ page' \in PageState /\ page'.key = page.key /\ page'.judged = page.judged
      /\ page'.loading = page.loading /\ page'.error = page.error
      /\ ~page'.pushing
  <2>1. CASE RowRefused(q)
    BY <1>2, <1>3, <2>1 DEF PageState
  <2>2. CASE ~RowRefused(q)
    <3>1. PICK n \in Upto : page' = [page EXCEPT !.pushing = FALSE, !.saves = n]
      BY <1>3, <1>6, <2>2
    <3> QED BY <1>2, <3>1 DEF PageState
  <2> QED BY <2>1, <2>2
<1>8. PageWaits'
  BY <1>1, <1>2, <1>4, <1>7 DEF PageWaits
<1> QED BY <1>1, <1>5, <1>7, <1>8, PageFrame

\* The page moves on to the row of its push.
LEMMA PageMoves ==
    ASSUME IndInv, Grows, PageMovesOn
    PROVE  IndInv'
PROOF
<1>1. /\ view = "push" /\ page.saves # 0 /\ view' = "detail"
      /\ detail' = [detail EXCEPT !.id = page.saves, !.loading = TRUE]
      /\ net' = {q \in net : q.what = "post"} \cup {Ask("status", {}, page.saves)}
      /\ log' = log /\ row' = row /\ batch' = batch /\ page' = page
  BY DEF PageMovesOn
<1>2. page \in PageState /\ detail \in DetailState /\ TypeOK /\ NetFits
      /\ MaxRows \in Nat /\ log \in Seq(Statuses) /\ Len(log) \in Nat /\ Len(log) <= MaxRows
  BY PageFacts
<1>3. PICK k : k = page.saves
  OBVIOUS
<1>4. k \in Upto /\ k # 0 /\ k \in DOMAIN log /\ k \in 0..MaxRows
  BY <1>1, <1>2, <1>3 DEF PageState, Upto
<1>5. PICK p : p = Ask("status", {}, k)
  OBVIOUS
<1>6. p \in Question /\ p.what = "status" /\ p.row = k /\ p.reply = Unanswered
  <2>1. IsFiniteSet(net) /\ Cardinality(net) <= MaxOnWay /\ net \subseteq Question
    BY <1>1, <1>2 DEF NetFits, TypeOK
  <2> QED BY <1>4, <1>5, <2>1, Numbered
<1>7. Fits(p)'
  BY <1>1, <1>4, <1>6, AnswerKinds DEF Fits
<1>8. PICK N \in SUBSET net : N = {q \in net : q.what = "post"}
  OBVIOUS
<1>9. net' = N \cup {p} /\ IsFiniteSet({p})
  BY <1>1, <1>3, <1>5, <1>8, FS_Singleton
<1>10. \A x, y \in net' : x.what = "post" /\ y.what = "post" => x = y
  BY <1>1, <1>2, <1>6, <1>8, <1>9 DEF NetFits, Pending
<1>11. \A x \in {p} : x \in Question /\ Fits(x)'
  BY <1>6, <1>7
<1>12. net' \subseteq Question /\ NetFits'
  BY <1>1, <1>2, <1>9, <1>10, <1>11, NetStep
<1>13. detail' \in DetailState /\ detail'.id = k
  BY <1>1, <1>2, <1>3, <1>4 DEF DetailState
<1>14. page' \in PageState' /\ detail' \in DetailState'
  BY <1>1, <1>2, <1>13 DEF PageState, DetailState, Upto
<1> QED BY <1>1, <1>4, <1>12, <1>13, <1>14, OtherFrame

\* The detail page asks, and shows what it is told.
LEMMA DetailSteps ==
    ASSUME IndInv, Grows, DetailAsk \/ DetailStatus
    PROVE  IndInv'
PROOF
<1>1. /\ view = "detail" /\ view' = "detail" /\ log' = log /\ row' = row /\ batch' = batch /\ page' = page
  BY DEF DetailAsk, DetailStatus, DetailKeeps
<1>2. page \in PageState /\ detail \in DetailState /\ TypeOK /\ NetFits /\ detail.id # 0
      /\ MaxRows \in Nat /\ log \in Seq(Statuses) /\ Len(log) \in Nat /\ Len(log) <= MaxRows
  BY <1>1, PageFacts DEF IndInv
<1>3. CASE DetailAsk
  <2>1. /\ detail' = [detail EXCEPT !.timer = FALSE]
        /\ Cardinality(net) < MaxOnWay /\ net' = net \cup {Ask("status", {}, detail.id)}
    BY <1>3 DEF DetailAsk, Asks
  <2>2. PICK k : k = detail.id
    OBVIOUS
  <2>3. k \in 0..MaxRows /\ k \in DOMAIN log
    BY <1>2, <2>2 DEF DetailState, Upto
  <2>4. net' \subseteq Question /\ NetFits'
    BY <1>1, <1>2, <2>1, <2>2, <2>3, NetAsks
  <2>5. detail' \in DetailState /\ detail'.id = detail.id
    BY <1>2, <2>1 DEF DetailState
  <2>6. page' \in PageState' /\ detail' \in DetailState'
    BY <1>1, <1>2, <2>5 DEF PageState, DetailState, Upto
  <2> QED BY <1>1, <1>2, <2>4, <2>5, <2>6, OtherFrame
<1>4. CASE DetailStatus
  <2>1. PICK q \in Arrived("status") :
          /\ detail' = IF Good(q)
               THEN [detail EXCEPT !.log = q.reply.status, !.loading = FALSE,
                                   !.timer = q.reply.status = "processing"]
               ELSE [detail EXCEPT !.error = TRUE, !.loading = FALSE]
          /\ net' = net \ {q}
    BY <1>4 DEF DetailStatus, Takes
  <2>2. net' \subseteq Question /\ NetFits'
    BY <1>1, <1>2, <2>1, NetTakes
  <2>3. Good(q) => q.reply.status \in Statuses
    BY <1>2, StatusAnswer
  <2>4. detail' \in DetailState /\ detail'.id = detail.id
    <3>1. CASE Good(q)
      <4>1. PICK s \in Statuses : detail' = [detail EXCEPT !.log = s, !.loading = FALSE, !.timer = s = "processing"]
        BY <2>1, <2>3, <3>1
      <4> QED BY <1>2, <4>1 DEF DetailState
    <3>2. CASE ~Good(q)
      BY <1>2, <2>1, <3>2 DEF DetailState
    <3> QED BY <3>1, <3>2
  <2>5. page' \in PageState' /\ detail' \in DetailState'
    BY <1>1, <1>2, <2>4 DEF PageState, DetailState, Upto
  <2> QED BY <1>1, <1>2, <2>2, <2>4, <2>5, OtherFrame
<1> QED BY <1>3, <1>4

LEMMA Leaves ==
    ASSUME IndInv, Grows, Leave
    PROVE  IndInv'
PROOF
<1>1. view' = "left" /\ net' = {} /\ log' = log /\ row' = row /\ batch' = batch /\ page' = page /\ detail' = detail
  BY DEF Leave, clients
<1>2. NetFits'
  BY <1>1, FS_EmptySet DEF NetFits, Pending
<1>3. page' \in PageState' /\ detail' \in DetailState'
  BY <1>1, PageFacts, StatesStay
<1> QED BY <1>1, <1>2, <1>3, OtherFrame

-----------------------------------------------------------------------------
(* The invariant.                                                           *)

LEMMA InitHolds == ASSUME Init PROVE IndInv
PROOF
<1>1. row = RowInit /\ batch = BatchInit /\ page = PageInit
  BY DEF Init
<1>2. MaxRows \in Nat /\ MaxRows > 0 /\ MaxOnWay \in Nat /\ MaxTicks \in Nat /\ MaxTicks > 0
  BY ClientsAssumption
<1>3. /\ view \in {"row", "batch", "push", "detail"}
      /\ log \in Seq(Statuses) /\ Len(log) <= MaxRows /\ Len(log) \in Nat
      /\ detail \in DetailState /\ (view = "detail" => detail.id # 0)
  <2>1. CASE log = <<>> /\ detail = DetailInit /\ view \in {"row", "push", "batch"}
    BY <1>2, <2>1 DEF DetailInit, DetailState, Upto
  <2>2. ASSUME NEW s \in Statuses, log = <<s>>, detail = [DetailInit EXCEPT !.id = 1], view = "detail"
        PROVE  /\ view \in {"row", "batch", "push", "detail"}
               /\ log \in Seq(Statuses) /\ Len(log) <= MaxRows /\ Len(log) \in Nat
               /\ detail \in DetailState /\ (view = "detail" => detail.id # 0)
    <3>1. log \in Seq(Statuses) /\ Len(log) = 1
      BY <2>2
    <3>2. 1 \in Upto
      BY <3>1 DEF Upto
    <3>3. detail \in DetailState /\ detail.id = 1
      BY <2>2, <3>2 DEF DetailInit, DetailState
    <3> QED BY <1>2, <2>2, <3>1, <3>3
  <2> QED BY <2>1, <2>2 DEF Init
<1>4. /\ row \in RowState /\ batch \in BatchState /\ page \in PageState
  <2>1. 0 \in Upto /\ 0 \in 0..MaxTicks /\ 0 \in 0..MaxRows
    BY <1>2, <1>3 DEF Upto
  <2> QED BY <1>1, <2>1 DEF RowInit, BatchInit, PageInit, RowState, BatchState, PageState
<1>5. \/ net = {}
      \/ \E q : net = {q} /\ q.what \in {"lists", "status"} /\ view \notin {"row", "push"}
                /\ q \in Question /\ Fits(q)
  <2>1. CASE net = {}
    BY <2>1
  <2>2. CASE view = "batch" /\ net = {[n |-> 0, what |-> "lists", to |-> {}, row |-> 0, reply |-> Unanswered]}
    <3>1. PICK q : q = [n |-> 0, what |-> "lists", to |-> {}, row |-> 0, reply |-> Unanswered]
      OBVIOUS
    <3>2. q.what = "lists" /\ q.reply = Unanswered
      BY <3>1
    <3>3. q \in Question
      <4>1. Unanswered \in Answers /\ 0 \in 0..MaxRows /\ 0 \in 0..MaxOnWay
        BY <1>2 DEF Answers
      <4> QED BY <3>1, <4>1 DEF Question
    <3>4. Fits(q)
      BY <3>2, AnswerKinds DEF Fits
    <3> QED BY <2>2, <3>1, <3>2, <3>3, <3>4
  <2>3. CASE /\ view = "detail" /\ Len(log) = 1
             /\ net = {[n |-> 0, what |-> "status", to |-> {}, row |-> 1, reply |-> Unanswered]}
    <3>1. PICK q : q = [n |-> 0, what |-> "status", to |-> {}, row |-> 1, reply |-> Unanswered]
      OBVIOUS
    <3>2. q.what = "status" /\ q.reply = Unanswered /\ q.row = 1
      BY <3>1
    <3>3. q \in Question
      <4>1. Unanswered \in Answers /\ 1 \in 0..MaxRows /\ 0 \in 0..MaxOnWay
        BY <1>2 DEF Answers
      <4> QED BY <3>1, <4>1 DEF Question
    <3>4. Fits(q)
      <4>1. 1 \in DOMAIN log
        BY <1>3, <2>3
      <4> QED BY <3>2, <4>1, AnswerKinds DEF Fits
    <3> QED BY <2>3, <3>1, <3>2, <3>3, <3>4
  <2> QED BY <2>1, <2>2, <2>3 DEF Init
<1>6. net \subseteq Question /\ IsFiniteSet(net) /\ \A q \in net : Fits(q)
  <2>1. CASE net = {}
    BY <2>1, FS_EmptySet
  <2>2. ASSUME NEW q, net = {q}, q \in Question, Fits(q)
        PROVE  net \subseteq Question /\ IsFiniteSet(net) /\ \A x \in net : Fits(x)
    <3>1. IsFiniteSet({q})
      BY FS_Singleton
    <3>2. IsFiniteSet(net)
      BY <2>2, <3>1, Zenon
    <3>3. \A x \in net : x \in Question /\ Fits(x)
      BY <2>2
    <3> QED BY <3>2, <3>3
  <2> QED BY <1>5, <2>1, <2>2
<1>7. Pending("post") = {} /\ (view \in {"row", "push"} => net = {})
  BY <1>5 DEF Pending
<1>8. NetFits
  <2>1. view \in {"row", "push"} => Cardinality(net) <= MaxOnWay
    BY <1>2, <1>7, FS_EmptySet
  <2> QED BY <1>3, <1>6, <1>7, <2>1 DEF NetFits
<1>9. RowHolds /\ RowTellsTheTruth /\ BatchHolds /\ DoneMeansSettled
  BY <1>1, <1>2 DEF RowInit, BatchInit, RowHolds, RowTellsTheTruth, BatchHolds, DoneMeansSettled,
                    Busy, Polling, Terminal, None
<1>10. RowWaits /\ BatchWaits /\ PageWaits
  BY <1>1, <1>3, <1>7 DEF RowInit, PageInit, RowWaits, BatchWaits, PageWaits, Polling, Pending
<1> QED BY <1>3, <1>4, <1>6, <1>8, <1>9, <1>10 DEF IndInv, TypeOK

LEMMA StepHolds == ASSUME IndInv, [Next]_vars PROVE IndInv'
PROOF
<1> USE LogGrows DEF IndInv
<1>1. CASE UNCHANGED vars
  BY <1>1, Worked DEF vars, clients
<1>2. CASE Serve
  BY <1>2, ServesPost, ServesOther DEF Serve
<1>3. CASE Begin \/ End \/ Refuse
  BY <1>3, Works
<1>4. CASE LoseQuestion
  BY <1>4, ServesOther
<1>5. CASE Arrive
  BY <1>5, RowUserSteps, RowIsPosted, RowIsAnswered, BatchLists, BatchIsPosted, BatchIsAnswered,
     DryRunIsJudged, PageIsPosted, DetailSteps DEF Arrive
<1>6. CASE Timer
  BY <1>6, RowAsksOn, BatchTicks, PageMoves, DetailSteps DEF Timer
<1>7. CASE RowTimeout
  BY <1>7, RowUserSteps
<1>8. CASE User
  BY <1>8, RowUserSteps, RowRuns, BatchPushes, Leaves, DryRuns, PageAsksUser, PageSends DEF User
<1> QED BY <1>1, <1>2, <1>3, <1>4, <1>5, <1>6, <1>7, <1>8 DEF Next

\* The inductive invariant of the clients holds: the states are of their types
\* and every answer on its way is one to its question and still true of a
\* push that is over.
THEOREM Invariance == Spec => []IndInv
PROOF
<1>1. Init => IndInv
  BY InitHolds
<1>2. IndInv /\ [Next]_vars => IndInv'
  BY StepHolds
<1> QED BY <1>1, <1>2, PTL DEF Spec

\* A window has one POST on its way at most.
THEOREM OnePush == Spec => []OnePushOnItsWay
PROOF
<1>1. IndInv => OnePushOnItsWay
  <2> SUFFICES ASSUME IndInv, view # "left" PROVE Cardinality(Pending("post")) <= 1
    BY DEF OnePushOnItsWay
  <2>1. CASE Pending("post") = {}
    BY <2>1, FS_EmptySet
  <2>2. CASE Pending("post") # {}
    <3>1. PICK q : Pending("post") = {q}
      BY <2>2 DEF IndInv, NetFits
    <3>2. Cardinality(Pending("post")) = Cardinality({q})
      BY <3>1, Zenon
    <3>3. Cardinality({q}) = 1
      BY FS_Singleton
    <3> QED BY <3>2, <3>3
  <2> QED BY <2>1, <2>2
<1> QED BY <1>1, Invariance, PTL

\* The push page offers its controls for a customer whose own dry run was
\* the last to be judged, and was not refused.
THEOREM JudgedBeforeOffered == Spec => []ControlsAreForSelected
PROOF
<1>1. IndInv => ControlsAreForSelected
  BY DEF IndInv, PageWaits, ControlsAreForSelected, Controls
<1> QED BY <1>1, Invariance, PTL

\* The catalog row's dialog tells of success and failure what the gateway does.
THEOREM RowTruth == Spec => []RowTellsTheTruth
PROOF
<1>1. IndInv => RowTellsTheTruth
  BY DEF IndInv
<1> QED BY <1>1, Invariance, PTL

\* A batch that ends with an empty list has no push left running.
THEOREM DoneSettled == Spec => []DoneMeansSettled
PROOF
<1>1. IndInv => DoneMeansSettled
  BY DEF IndInv
<1> QED BY <1>1, Invariance, PTL
=============================================================================
