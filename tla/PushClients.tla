---------------------------- MODULE PushClients ----------------------------
(***************************************************************************)
(* The four places of the admin interface from which products are pushed   *)
(* and pushes are watched, against a gateway that answers in its own time: *)
(* the dialog of a catalog row (push-row-action.tsx), the dialog that      *)
(* pushes to many storefronts (batch-push-modal.tsx), the push page with   *)
(* its automatic dry run (push/page.tsx, DryRunControls.tsx) and the       *)
(* detail page of the push log (push-log/[id]/page.tsx), with the hooks of *)
(* use-push-preview.ts in live mode.  One of them is open in a behaviour;  *)
(* the push page leads to the detail page.                                 *)
(***************************************************************************)
EXTENDS Integers, Sequences, FiniteSets

CONSTANTS
    Storefronts,    \* customers a product is pushed to
    First,          \* the first active one of the list
    MaxRows,        \* bound: push log rows
    MaxOnWay,       \* bound: questions on their way at a time
    MaxTicks,       \* MAX_POLL_ATTEMPTS, POLL_MAX_ATTEMPTS
    MaxFailures     \* MAX_CONSECUTIVE_FAILURES

ASSUME ClientsAssumption ==
    /\ First \in Storefronts
    /\ IsFiniteSet(Storefronts)
    /\ MaxRows \in Nat \ {0} /\ MaxOnWay \in Nat
    /\ MaxTicks \in Nat \ {0} /\ MaxFailures \in Nat \ {0}

VARIABLES
    view,       \* what is open: "row", "batch", "push", "detail", or "left"
    log,        \* the push log of the gateway: the status of each row
    net,        \* questions asked and not yet answered
    row,        \* the state of the catalog row's dialog
    batch,      \* the state of the batch dialog
    page,       \* the state of the push page
    detail      \* the state of the detail page

vars == <<view, log, net, row, batch, page, detail>>
clients == <<row, batch, page, detail>>

None == "none"
InFlight == {"accepted", "processing"}
Terminal == {"pushed", "failed"}    \* failed stands for every other end
Statuses == InFlight \cup Terminal

(***************************************************************************)
(* Questions: a POST of pushes to some storefronts, the GET of a row's     *)
(* status, the POST of a dry run, the lists a dialog needs.  "reply" is    *)
(* what the gateway answered, while that is still on its way.              *)
(***************************************************************************)
Unanswered == [is |-> "none"]
Lost       == [is |-> "lost"]
Status(s)  == [is |-> "status", status |-> s]
Rows(f)    == [is |-> "rows", rows |-> f]     \* row per storefront, 0: refused
Verdict(v) == [is |-> "verdict", verdict |-> v]
Lists      == [is |-> "lists"]

Ask(what, to, id) == [what |-> what, to |-> to, row |-> id, reply |-> Unanswered,
                      n |-> CHOOSE k \in 0..MaxOnWay :
                                /\ \A q \in net : q.n # k
                                /\ \A i \in 0..(k - 1) : \E q \in net : q.n = i]

Asks(what, to, id) ==
    /\ Cardinality(net) < MaxOnWay
    /\ net' = net \cup {Ask(what, to, id)}

Pending(what)  == {q \in net : q.what = what}
Arrived(what)  == {q \in Pending(what) : q.reply # Unanswered}
Good(q)        == q.reply.is # "lost"
Takes(q)       == net' = net \ {q}

-----------------------------------------------------------------------------
(***************************************************************************)
(* The gateway: it answers one question at a time and works on its rows.   *)
(***************************************************************************)
Replies(q, reply) == net' = (net \ {q}) \cup {[q EXCEPT !.reply = reply]}

Open(q) == q \in net /\ q.reply = Unanswered

\* Each storefront is accepted or refused on its own.
ServePost ==
    \E q \in Pending("post") : \E taken \in SUBSET q.to :
        /\ Open(q)
        /\ Len(log) + Cardinality(taken) <= MaxRows
        /\ \E rows \in [q.to -> 0..MaxRows] :
               /\ \A c \in q.to : (rows[c] = 0) = (c \notin taken)
               /\ {rows[c] : c \in taken} =
                      (Len(log) + 1)..(Len(log) + Cardinality(taken))
               /\ log' = log \o [k \in 1..Cardinality(taken) |-> "accepted"]
               /\ \E reply \in {Rows(rows), Lost} : Replies(q, reply)
        /\ UNCHANGED <<view, clients>>

ServeStatus ==
    \E q \in Pending("status") :
        /\ Open(q)
        /\ Replies(q, Status(log[q.row]))
        /\ UNCHANGED <<view, log, clients>>

\* A dry run is executed while its POST is answered; one that fails is
\* answered 202 like one that succeeds.  Any other answer is "blocked".
ServeDryRun ==
    \E q \in Pending("dry") : \E v \in {"fine", "blocked"} :
        /\ Open(q)
        /\ Replies(q, Verdict(v))
        /\ UNCHANGED <<view, log, clients>>

ServeLists ==
    \E q \in Pending("lists") :
        /\ Open(q)
        /\ Replies(q, Lists)
        /\ UNCHANGED <<view, log, clients>>

LoseQuestion ==
    \E q \in net \ Pending("dry") :
        /\ Open(q)
        /\ Replies(q, Lost)
        /\ UNCHANGED <<view, log, clients>>

\* The execution of a row, where somebody watches it. A settled row stays as it
\* is: the retry of an administrator and the late result of a reaped execution,
\* which PushLifecycle has, do not come while a dialog is open.
WorkOn(from, to) ==
    /\ view \in {"row", "batch", "detail"}
    /\ \E k \in DOMAIN log : log[k] = from /\ log' = [log EXCEPT ![k] = to]
    /\ UNCHANGED <<view, net, clients>>

Begin == WorkOn("accepted", "processing")
End   == WorkOn("processing", "pushed") \/ WorkOn("processing", "failed")
Refuse == WorkOn("accepted", "failed")

-----------------------------------------------------------------------------
(***************************************************************************)
(* The dialog of a catalog row.                                            *)
(*   stage   where run() is: "idle", "posting", "asking" for a status or   *)
(*           "waiting" between two questions                               *)
(*   tells   the message shown; id is the row it is about                  *)
(*   closers pending timeouts that close the dialog                        *)
(***************************************************************************)
RowInit == [open |-> FALSE, target |-> None, stage |-> "idle",
            tells |-> None, id |-> 0, tries |-> 0, closers |-> 0]

RowKeeps == UNCHANGED <<view, log, batch, page, detail>>

Busy == row.stage # "idle"

RowOpen ==
    /\ view = "row" /\ ~row.open
    /\ Pending("lists") = {}     \* bound
    /\ row' = [row EXCEPT !.open = TRUE, !.tells = None]
    /\ Asks("lists", {}, 0)
    /\ RowKeeps

RowClose ==
    /\ view = "row" /\ row.open
    /\ row' = [row EXCEPT !.open = FALSE]
    /\ UNCHANGED net /\ RowKeeps

\* Whenever the lists arrive, the first active storefront is selected.
RowListsArrive ==
    \E q \in Arrived("lists") :
        /\ view = "row"
        /\ row' = IF Good(q) THEN [row EXCEPT !.target = First]
                  ELSE [row EXCEPT !.tells = "error"]
        /\ Takes(q) /\ RowKeeps

RowPick ==
    /\ view = "row" /\ row.open /\ row.target # None
    /\ \E c \in Storefronts \ {row.target} : row' = [row EXCEPT !.target = c]
    /\ UNCHANGED net /\ RowKeeps

\* Mutant: the button is not disabled while a push is under way.
M_RowRunAnyTime ==
    /\ view = "row" /\ row.open /\ row.target # None
    /\ row' = [row EXCEPT !.stage = "posting", !.tells = "info", !.tries = 0]
    /\ Asks("post", {row.target}, 0)
    /\ RowKeeps

RowRun ==
    /\ view = "row" /\ row.open /\ row.target # None /\ ~Busy
    /\ row' = [row EXCEPT !.stage = "posting", !.tells = "info", !.tries = 0]
    /\ Asks("post", {row.target}, 0)
    /\ RowKeeps

RowRefused(q) == ~Good(q) \/ \A c \in q.to : q.reply.rows[c] = 0

RowPosted ==
    \E q \in Arrived("post") :
        /\ view = "row" /\ row.stage = "posting"
        /\ IF RowRefused(q)
           THEN /\ row' = [row EXCEPT !.stage = "idle", !.tells = "error"]
                /\ Takes(q)
           ELSE \E c \in q.to :
                /\ row' = [row EXCEPT !.stage = "asking", !.id = q.reply.rows[c]]
                /\ net' = (net \ {q}) \cup {Ask("status", {}, q.reply.rows[c])}
        /\ RowKeeps

\* What run() says of the last status, and when it has the dialog closed.
RowEnds(status) ==
    row' = [row EXCEPT !.stage = "idle", !.tells = status,
                       !.closers = IF status = "pushed" THEN @ + 1 ELSE @]

\* Mutant: the first status that comes is taken for the result.
M_RowStatusIsResult ==
    \E q \in Arrived("status") :
        /\ view = "row" /\ row.stage = "asking"
        /\ RowEnds(IF Good(q) /\ q.reply.status # "failed" THEN "pushed" ELSE "error")
        /\ Takes(q) /\ RowKeeps

\* Mutant: the poll has no ceiling.
M_RowStatusNoCeiling ==
    \E q \in Arrived("status") :
        /\ view = "row" /\ row.stage = "asking"
        /\ IF ~Good(q) THEN RowEnds("error")
           ELSE IF q.reply.status \in Terminal THEN RowEnds(q.reply.status)
           ELSE row' = [row EXCEPT !.stage = "waiting"]
        /\ Takes(q) /\ RowKeeps

RowStatus ==
    \E q \in Arrived("status") :
        /\ view = "row" /\ row.stage = "asking"
        /\ IF ~Good(q) THEN RowEnds("error")
           ELSE IF q.reply.status \in Terminal THEN RowEnds(q.reply.status)
           ELSE row' = [row EXCEPT !.stage = "waiting", !.tries = @ + 1]
        /\ Takes(q) /\ RowKeeps

\* Mutant: the ceiling is compared with ">".
M_RowWaitedOnceMore ==
    /\ view = "row" /\ row.stage = "waiting"
    /\ IF row.tries > MaxTicks
       THEN RowEnds("still_running") /\ UNCHANGED net
       ELSE /\ row' = [row EXCEPT !.stage = "asking"]
            /\ Asks("status", {}, row.id)
    /\ RowKeeps

RowWaited ==
    /\ view = "row" /\ row.stage = "waiting"
    /\ IF row.tries = MaxTicks
       THEN RowEnds("still_running") /\ UNCHANGED net
       ELSE /\ row' = [row EXCEPT !.stage = "asking"]
            /\ Asks("status", {}, row.id)
    /\ RowKeeps

\* setTimeout(() => setOpen(false), 2400), whatever was opened meanwhile.
RowTimeout ==
    /\ view = "row" /\ row.closers > 0
    /\ row' = [row EXCEPT !.closers = @ - 1, !.open = FALSE]
    /\ UNCHANGED net /\ RowKeeps

-----------------------------------------------------------------------------
(***************************************************************************)
(* The batch dialog.                                                       *)
(*   ids, shown  the row and the status shown for each storefront          *)
(*   ticks       pollAttemptsRef, bad: pollFailuresRef                     *)
(*   gaveUp      history: polling stopped without an empty list            *)
(***************************************************************************)
BatchInit == [phase |-> "select", known |-> FALSE, pushing |-> FALSE,
              ids |-> [c \in Storefronts |-> 0],
              shown |-> [c \in Storefronts |-> None],
              ticks |-> 0, bad |-> 0, gaveUp |-> FALSE]

BatchKeeps == UNCHANGED <<view, log, row, page, detail>>
Selected   == {c \in Storefronts : batch.shown[c] # None}
Watched    == {c \in Storefronts : batch.ids[c] # 0 /\ batch.shown[c] \notin Terminal}

BatchListsArrive ==
    \E q \in Arrived("lists") :
        /\ view = "batch"
        /\ batch' = [batch EXCEPT !.known = Good(q)]
        /\ Takes(q) /\ BatchKeeps

BatchPush ==
    /\ view = "batch" /\ batch.phase = "select" /\ batch.known /\ ~batch.pushing
    /\ \E selected \in SUBSET Storefronts \ {{}} :
           batch' = [batch EXCEPT !.pushing = TRUE] /\ Asks("post", selected, 0)
    /\ BatchKeeps

\* A refused storefront comes back with the terminal status "error".
BatchPosted ==
    \E q \in Arrived("post") :
        /\ view = "batch"
        /\ batch' = IF ~Good(q) THEN [batch EXCEPT !.pushing = FALSE]
             ELSE [batch EXCEPT !.pushing = FALSE, !.phase = "running",
                 !.ids = [c \in Storefronts |->
                              IF c \in q.to THEN q.reply.rows[c] ELSE 0],
                 !.shown = [c \in Storefronts |->
                     IF c \notin q.to THEN None
                     ELSE IF q.reply.rows[c] = 0 THEN "failed" ELSE "accepted"]]
        /\ Takes(q) /\ BatchKeeps

\* Mutant: the hard cap of the ticks is missing.
M_BatchTickUncapped ==
    /\ view = "batch" /\ batch.phase = "running"
    /\ IF Watched = {}
       THEN /\ batch' = [batch EXCEPT !.phase = "done"]
            /\ UNCHANGED net
       ELSE /\ Cardinality(net) + Cardinality(Watched) <= MaxOnWay
            /\ batch' = batch
            /\ net' = net \cup {Ask("status", {}, batch.ids[c]) : c \in Watched}
    /\ BatchKeeps

\* The interval fires: nothing waits for the answers of the last tick.
BatchTick ==
    /\ view = "batch" /\ batch.phase = "running"
    /\ IF batch.ticks = MaxTicks
       THEN /\ batch' = [batch EXCEPT !.phase = "done", !.gaveUp = TRUE]
            /\ UNCHANGED net
       ELSE IF Watched = {}
       THEN /\ batch' = [batch EXCEPT !.phase = "done"]
            /\ UNCHANGED net
       ELSE /\ Cardinality(net) + Cardinality(Watched) <= MaxOnWay
            /\ batch' = [batch EXCEPT !.ticks = @ + 1]
            /\ net' = net \cup {Ask("status", {}, batch.ids[c]) : c \in Watched}
    /\ BatchKeeps

\* Mutant: a failed poll marks the push as failed.
M_BatchStatusFailsRow ==
    \E q \in Arrived("status") :
        /\ view = "batch"
        /\ batch' = [batch EXCEPT !.bad = 0, !.shown = [c \in Storefronts |->
               IF batch.ids[c] = q.row
               THEN IF Good(q) THEN q.reply.status ELSE "failed" ELSE @[c]]]
        /\ Takes(q) /\ BatchKeeps

\* Answers are applied in the order they arrive, also after the last tick.
BatchStatus ==
    \E q \in Arrived("status") :
        /\ view = "batch"
        /\ batch' = IF Good(q)
             THEN [batch EXCEPT !.bad = 0, !.shown = [c \in Storefronts |->
                       IF batch.ids[c] = q.row THEN q.reply.status ELSE @[c]]]
             ELSE IF batch.bad + 1 >= MaxFailures /\ batch.phase = "running"
             THEN [batch EXCEPT !.bad = @ + 1, !.phase = "done", !.gaveUp = TRUE]
             ELSE [batch EXCEPT !.bad = @ + 1]
        /\ Takes(q) /\ BatchKeeps

\* Closed dialogs are unmounted; what is on its way finds nobody.
Leave ==
    /\ view \in {"batch", "push", "detail"}
    /\ view' = "left"
    /\ net' = {}
    /\ UNCHANGED <<log, clients>>

\* The green banner: "All N pushes succeeded".
Banner ==
    /\ batch.phase = "done" \/ (batch.phase = "running" /\ Watched = {})
    /\ \A c \in Selected : batch.shown[c] # "failed"

-----------------------------------------------------------------------------
(***************************************************************************)
(* The push page.                                                          *)
(*   key     the customer in the URL                                       *)
(*   judged  history: the customer and verdict of the last answer taken    *)
(*   saves   the row whose export is being downloaded before the page      *)
(*           moves on to it, 0 none                                        *)
(* The gateway's answer to a dry run carries no plan, so the page's        *)
(* payload and preflight stay null.                                        *)
(***************************************************************************)
PageInit == [key |-> None, loading |-> TRUE, error |-> FALSE,
             judged |-> [to |-> {}, verdict |-> None],
             confirm |-> FALSE, pushing |-> FALSE, saves |-> 0]

PageKeeps == UNCHANGED <<log, row, batch, detail>>

\* Without a customer, while loading and after an error there are no controls.
Controls == page.key # None /\ ~page.loading /\ ~page.error
Live     == Controls /\ ~page.pushing

\* Mutant: the effect has no cleanup.
M_DryRunUncancelled(c) ==
    /\ page' = [page EXCEPT !.key = c, !.loading = TRUE, !.error = FALSE,
                            !.confirm = FALSE]
    /\ Cardinality(net) < MaxOnWay
    /\ net' = net \cup {Ask("dry", {c}, 0)}

\* The effect: its cleanup sets "cancelled", so that the answer of the dry
\* run before finds nobody.
DryRun(c) ==
    /\ page' = [page EXCEPT !.key = c, !.loading = TRUE, !.error = FALSE,
                            !.confirm = FALSE]
    /\ Cardinality(net) < MaxOnWay
    /\ net' = (net \ Pending("dry")) \cup {Ask("dry", {c}, 0)}

PageSelect ==
    /\ view = "push"
    /\ \E c \in Storefronts \ {page.key} : DryRun(c)
    /\ PageKeeps /\ UNCHANGED view

\* The Retry button of the error panel.
PageRetry ==
    /\ view = "push" /\ page.key # None /\ page.error /\ ~page.loading
    /\ DryRun(page.key)
    /\ PageKeeps /\ UNCHANGED view

\* Only a refusal is an error.
PageDryRun ==
    \E q \in Arrived("dry") :
        /\ view = "push"
        /\ page' = [page EXCEPT !.loading = FALSE,
                                !.judged = [to |-> q.to, verdict |-> q.reply.verdict],
                                !.error = q.reply.verdict = "blocked"]
        /\ Takes(q)
        /\ PageKeeps /\ UNCHANGED view

PageConfirm ==
    /\ view = "push" /\ Live /\ ~page.confirm
    /\ page' = [page EXCEPT !.confirm = TRUE]
    /\ UNCHANGED <<view, net>> /\ PageKeeps

PageCancel ==
    /\ view = "push" /\ Controls /\ page.confirm
    /\ page' = [page EXCEPT !.confirm = FALSE]
    /\ UNCHANGED <<view, net>> /\ PageKeeps

\* "Send Dry-Run": sent as a live push is, without the dialog.
PageTry ==
    /\ view = "push" /\ Live /\ ~page.confirm
    /\ page' = [page EXCEPT !.pushing = TRUE]
    /\ Asks("post", {page.key}, 0)
    /\ UNCHANGED view /\ PageKeeps

\* The confirmation was typed: the dialog closes and the push is sent.
PageSubmit ==
    /\ view = "push" /\ Controls /\ page.confirm
    /\ page' = [page EXCEPT !.confirm = FALSE, !.pushing = TRUE]
    /\ Asks("post", {page.key}, 0)
    /\ UNCHANGED view /\ PageKeeps

\* The push was answered; "in flight" ends before the export is downloaded.
PagePosted ==
    \E q \in Arrived("post") :
        /\ view = "push"
        /\ page' = IF RowRefused(q)
             THEN [page EXCEPT !.pushing = FALSE]
             ELSE [page EXCEPT !.pushing = FALSE,
                               !.saves = CHOOSE n \in 1..MaxRows :
                                             \E c \in q.to : q.reply.rows[c] = n]
        /\ Takes(q)
        /\ UNCHANGED view /\ PageKeeps

\* Downloaded or not, the page moves on to the push log.
PageMovesOn ==
    /\ view = "push" /\ page.saves # 0
    /\ view' = "detail"
    /\ detail' = [detail EXCEPT !.id = page.saves, !.loading = TRUE]
    /\ net' = {q \in net : q.what = "post"} \cup {Ask("status", {}, page.saves)}
    /\ UNCHANGED <<log, row, batch, page>>

-----------------------------------------------------------------------------
(***************************************************************************)
(* The detail page: usePushStatus chains its polls, each two seconds       *)
(* after the answer of the one before.                                     *)
(***************************************************************************)
DetailInit == [id |-> 0, log |-> None, loading |-> TRUE, error |-> FALSE,
               timer |-> FALSE]

DetailKeeps == UNCHANGED <<view, log, row, batch, page>>

DetailAsk ==
    /\ view = "detail" /\ detail.timer
    /\ detail' = [detail EXCEPT !.timer = FALSE]
    /\ Asks("status", {}, detail.id)
    /\ DetailKeeps

\* Mutant: only the first answer is followed by a poll.
M_DetailAsksOnce ==
    \E q \in Arrived("status") :
        /\ view = "detail"
        /\ detail' = IF Good(q)
             THEN [detail EXCEPT !.log = q.reply.status, !.loading = FALSE]
             ELSE [detail EXCEPT !.error = TRUE, !.loading = FALSE]
        /\ Takes(q) /\ DetailKeeps

\* Only "queued" and "processing" are polled on, and the gateway says
\* "accepted"; an error ends the polling and takes the log off the page.
DetailStatus ==
    \E q \in Arrived("status") :
        /\ view = "detail"
        /\ detail' = IF Good(q)
             THEN [detail EXCEPT !.log = q.reply.status, !.loading = FALSE,
                                 !.timer = q.reply.status = "processing"]
             ELSE [detail EXCEPT !.error = TRUE, !.loading = FALSE]
        /\ Takes(q) /\ DetailKeeps

-----------------------------------------------------------------------------
Answers ==
    {Unanswered, Lost, Lists} \cup {Status(s) : s \in Statuses}
    \cup {Verdict(v) : v \in {"fine", "blocked"}}
    \cup {Rows(f) : f \in UNION {[S -> 0..MaxRows] : S \in SUBSET Storefronts}}

Question == [n: 0..MaxOnWay, what: {"post", "status", "dry", "lists"},
             to: SUBSET Storefronts, row: 0..MaxRows, reply: Answers]

Upto == 0..Len(log)    \* rows there are; 0: none

RowState ==
    [open: BOOLEAN, target: Storefronts \cup {None}, id: Upto,
     stage: {"idle", "posting", "asking", "waiting"},
     tells: {None, "info", "error", "still_running"} \cup Terminal,
     tries: 0..MaxTicks, closers: 0..MaxRows]

BatchState ==
    [phase: {"select", "running", "done"}, known: BOOLEAN, pushing: BOOLEAN,
     ids: [Storefronts -> Upto], shown: [Storefronts -> Statuses \cup {None}],
     ticks: 0..MaxTicks, bad: Nat, gaveUp: BOOLEAN]

PageState ==
    [key: Storefronts \cup {None}, loading: BOOLEAN, error: BOOLEAN,
     judged: [to: SUBSET Storefronts, verdict: {"fine", "blocked", None}],
     confirm: BOOLEAN, pushing: BOOLEAN, saves: Upto]

DetailState ==
    [id: Upto, log: Statuses \cup {None}, loading: BOOLEAN, error: BOOLEAN,
     timer: BOOLEAN]

TypeOK ==
    /\ view \in {"row", "batch", "push", "detail", "left"}
    /\ log \in Seq(Statuses) /\ Len(log) <= MaxRows
    /\ net \subseteq Question
    /\ row \in RowState /\ batch \in BatchState
    /\ page \in PageState /\ detail \in DetailState

\* The batch dialog loads its list as it opens; the detail page may be
\* opened on a row in any state; the push page may be opened without a customer.
Init ==
    /\ row = RowInit /\ batch = BatchInit /\ page = PageInit
    /\ \/ /\ view \in {"row", "push"}
          /\ log = <<>> /\ net = {} /\ detail = DetailInit
       \/ /\ view = "batch"
          /\ log = <<>> /\ detail = DetailInit
          /\ net = {[n |-> 0, what |-> "lists", to |-> {}, row |-> 0,
                     reply |-> Unanswered]}
       \/ /\ view = "detail"
          /\ \E s \in Statuses : log = <<s>>
          /\ detail = [DetailInit EXCEPT !.id = 1]
          /\ net = {[n |-> 0, what |-> "status", to |-> {}, row |-> 1,
                     reply |-> Unanswered]}

Serve == ServePost \/ ServeStatus \/ ServeDryRun \/ ServeLists

Arrive ==
    \/ RowListsArrive \/ RowPosted \/ RowStatus
    \/ BatchListsArrive \/ BatchPosted \/ BatchStatus
    \/ PageDryRun \/ PagePosted \/ DetailStatus

Timer == RowWaited \/ BatchTick \/ PageMovesOn \/ DetailAsk

User ==
    \/ RowOpen \/ RowClose \/ RowPick \/ RowRun
    \/ BatchPush \/ Leave
    \/ PageSelect \/ PageRetry \/ PageConfirm \/ PageCancel
    \/ PageTry \/ PageSubmit

Next == \/ Serve \/ Begin \/ End \/ Refuse \/ LoseQuestion
        \/ Arrive \/ Timer \/ RowTimeout \/ User

Spec == Init /\ [][Next]_vars

\* The browser runs its callbacks and timers, the gateway answers what
\* reaches it, and a push in execution gets a result, from its worker or from
\* the reaper; whether one is begun is left open.  Users and faults are free.
FairSpec ==
    /\ Spec
    /\ WF_vars(End)
    /\ WF_vars(\/ ServePost \/ ServeStatus \/ Timer
               \/ RowPosted \/ RowStatus \/ BatchPosted \/ BatchStatus
               \/ DetailStatus)

-----------------------------------------------------------------------------
(***************************************************************************)
(* Properties.                                                             *)
(***************************************************************************)
\* One window sends one push at a time: while a POST is on its way its
\* button is out of reach, in each of the three places.
OnePushOnItsWay == view # "left" => Cardinality(Pending("post")) <= 1

\* The controls of the push page are offered for a customer whose own dry
\* run was the last to be judged and was not refused: an answer that comes
\* late, for the customer selected before, changes nothing.
ControlsAreForSelected ==
    view = "push" /\ Controls =>
        page.judged.to = {page.key} /\ page.judged.verdict # "blocked"

\* When the catalog row's dialog says that its push succeeded or failed, the
\* gateway says the same of it.
RowTellsTheTruth ==
    row.tells \in Terminal => log[row.id] = row.tells

\* A batch that is over without having given up has no push left running,
\* whatever its list shows of them.
DoneMeansSettled ==
    batch.phase = "done" /\ ~batch.gaveUp =>
        \A c \in Storefronts :
            batch.ids[c] # 0 => log[batch.ids[c]] \in Terminal

\* A push that is under way in the row's dialog comes to an end there.
RowComesToAnEnd == Busy ~> ~Busy

\* The batch dialog's progress ends, at the latest with its last tick.
BatchComesToAnEnd == batch.phase = "running" ~> (batch.phase = "done" \/ view = "left")

\* Once the detail page has seen its push being processed, it shows the
\* result, unless a poll fails or the page is left.
DetailShowsResult ==
    detail.log = "processing" ~>
        (detail.log \in Terminal \/ detail.error \/ view = "left")

-----------------------------------------------------------------------------
(***************************************************************************)
(* Why the safety properties hold: the inductive invariant of the proofs.  *)
(***************************************************************************)
\* An answer is one to its question, and a final status stays what it is.
Fits(q) ==
    /\ q.what = "status" => q.row \in DOMAIN log
    /\ q.reply.is = "rows" => q.what = "post" /\ q.reply.rows \in [q.to -> Upto]
    /\ q.reply.is = "status" =>
           /\ q.what = "status"
           /\ q.reply.status \in Terminal => log[q.row] = q.reply.status
    /\ q.what = "dry" => q.reply.is \in {"none", "verdict"}
    /\ q.reply.is = "verdict" => q.what = "dry"
    /\ q.what \in {"post", "status"} => q.reply.is # "lists"

NetFits ==
    /\ IsFiniteSet(net) /\ \A q \in net : Fits(q)
    /\ view \in {"row", "push"} => Cardinality(net) <= MaxOnWay
    /\ view # "left" => \A p, q \in Pending("post") : p = q
    /\ view = "left" => net = {}

\* The row's dialog waits for one answer, to the question of its stage; each
\* timeout that closes it, and one to come, is due to a row of its own.
Accepted(q) == q.reply.is = "rows" /\ \E c \in q.to : q.reply.rows[c] # 0
Polling == row.stage \in {"asking", "waiting"}
RowHolds ==
    /\ row.tells \in Terminal => ~Busy /\ row.id # 0
    /\ row.stage \in {"posting", "asking"} => row.tries < MaxTicks
    /\ Polling => row.id # 0
RowWaits ==
    view = "row" =>
        /\ \A q \in Pending("post") :
               row.stage = "posting" /\ \E c \in Storefronts : q.to = {c}
        /\ \A q \in Pending("status") : row.stage = "asking" /\ q.row = row.id
        /\ \A p, q \in Pending("status") : p = q
        /\ row.closers <= Len(log)
        /\ Polling \/ (\E q \in Pending("post") : Accepted(q)) => row.closers < Len(log)

\* The batch dialog: a push that it shows to be over is over.
BatchHolds ==
    /\ batch.pushing => batch.phase = "select"
    /\ \A c \in Storefronts :
           batch.ids[c] # 0 /\ batch.shown[c] \in Terminal => log[batch.ids[c]] \in Terminal
BatchWaits == view = "batch" /\ Pending("post") # {} => batch.pushing

\* The push page judges the selected customer only.
PageWaits ==
    view = "push" =>
        /\ Pending("post") # {} => page.pushing
        /\ page.confirm => ~page.pushing
        /\ \A q \in Pending("dry") : q.to = {page.key}
        /\ page.key # None /\ ~page.loading /\ ~page.error =>
               page.judged.to = {page.key} /\ page.judged.verdict # "blocked"

IndInv ==
    /\ TypeOK /\ NetFits
    /\ RowHolds /\ RowWaits /\ BatchHolds /\ BatchWaits /\ PageWaits
    /\ view = "detail" => detail.id # 0
    /\ RowTellsTheTruth /\ DoneMeansSettled
=============================================================================
