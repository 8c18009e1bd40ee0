------------------------------ MODULE OpsNode ------------------------------
(***************************************************************************)
(* One execution of the n8n node "OnPrintShop" (OnPrintShop.node.ts): it   *)
(* fetches a token, then answers its input items one after the other.      *)
(* Each item names a resource and an operation; the operation's handler    *)
(* checks its parameters, asks the OPS storefront (one request, or one     *)
(* request per page) and turns the answer into output rows.  What a        *)
(* handler does is data here: a record of the decisions it takes, one      *)
(* definition per handler of the source.                                   *)
(***************************************************************************)
EXTENDS Integers, Sequences, FiniteSets

CONSTANTS
    Items,          \* number of input items
    Lengths,        \* lengths the listed OPS table may have at the start
    PageSize,       \* records per page
    MaxPages,       \* pages a capped scan reads (maxPages = 100)
    MaxChanges,     \* bound: rows added to or removed from the table
    MaxFaults       \* bound: answers of OPS that are not a proper answer

ASSUME NodeAssumption ==
    /\ Items \in Nat \ {0}
    /\ PageSize \in Nat \ {0}
    /\ MaxPages \in Nat \ {0}
    /\ Lengths \subseteq Nat
    /\ MaxChanges \in Nat
    /\ MaxFaults \in Nat

-----------------------------------------------------------------------------
(***************************************************************************)
(* Handlers.                                                               *)
(*   kind    "list" pushes every record of the answer, "one" looks a       *)
(*           record up, "write" asks OPS to change something               *)
(*   check   a parameter is validated (or parsed) before the request       *)
(*   odd     what an answer with neither the data nor errors becomes: a    *)
(*           row saying so, an exception, or nothing at all                *)
(*   none    what a lookup that finds nothing pushes                       *)
(*   null    what a null list beside the data pushes                       *)
(*   pages   "never": one request; "ignored": "Fetch All Pages" is         *)
(*           offered but the handler never reads it; "plain", "patient",   *)
(*           "counted": the three page loops of the source                 *)
(*   retries HTTP failures after which the same page is asked again        *)
(*   safe    Safe Mode is honoured                                         *)
(*   strict  errors are tested before the data, and the operation's field  *)
(*           of the data is pushed without a test (opsRequest)             *)
(***************************************************************************)
Failures == {"busy", "down", "refused"}   \* 429 or 502; 503 or 504; the rest

HandlerType ==
    [kind: {"list", "one", "write"}, check: BOOLEAN,
     odd: {"row", "throw", "nothing"}, none: {"error", "note", "nothing"},
     null: {"empty", "row", "throw"},
     pages: {"never", "ignored", "plain", "patient", "counted"},
     retries: SUBSET Failures, safe: BOOLEAN, strict: BOOLEAN]

Handler(kind, odd) ==
    [kind |-> kind, check |-> FALSE, odd |-> odd, none |-> "nothing",
     null |-> "empty", pages |-> "never", retries |-> {}, safe |-> FALSE,
     strict |-> FALSE]

Lists(odd)        == Handler("list", odd)
Finds(none)       == [Handler("one", "throw") EXCEPT !.none = none]
Writes(odd)       == Handler("write", odd)
Checked(h)        == [h EXCEPT !.check = TRUE]
PushesNull(h)     == [h EXCEPT !.null = "row"]
TripsOnNull(h)    == [h EXCEPT !.null = "throw"]
Pages(h, how)     == [h EXCEPT !.pages = how]
Patient(h, again) == [Pages(h, "patient") EXCEPT !.retries = again]
SafeMode(h)       == [h EXCEPT !.safe = TRUE]
Strict(h)         == [h EXCEPT !.strict = TRUE]

\* Orders, addresses, stocks and reference lists of the first generation
customerAddress_getAll == Lists("row")
orderDetails_getAll == Pages(Lists("row"), "plain")
orderShipment_getAll == Pages(Lists("row"), "plain")
shipToMultipleAddress_getAll == Checked(Lists("throw"))
productStocks_getAll == Checked(Pages(Lists("row"), "plain"))
status_orderStatus == Lists("nothing")
status_orderProductStatus == Lists("nothing")
batch_getAll == Lists("nothing")
quote_getAll == Lists("nothing")
quoteProduct_getAll == Lists("nothing")
store_getAll == Lists("nothing")
store_get_countries == Lists("nothing")
store_get_store_markup == Lists("nothing")
store_get_payment_term_master == Lists("nothing")
store_storeaddress == Lists("nothing")
store_storeCreditSummary == Lists("nothing")
store_accountSummary == Lists("nothing")
department_getAll == Lists("nothing")
\* Mutations: an answer of another shape leaves no trace
mutation_updateOrderStatus == Checked(Writes("nothing"))
mutation_setOrderProduct == Checked(Writes("nothing"))
mutation_setBatch == Checked(Writes("nothing"))
mutation_setProduct == Checked(Writes("nothing"))
mutation_setProductPrice == Checked(Writes("nothing"))
mutation_setProductSize == Checked(Writes("nothing"))
mutation_setProductCategory == Checked(Writes("nothing"))
mutation_setQuote == Checked(Writes("nothing"))
mutation_setProductDesign == Writes("nothing")
mutation_updateOrderProductImages == Checked(Writes("nothing"))
mutation_addProofVersion == Checked(Writes("nothing"))
mutation_updateZiflowLinkImages == Checked(Writes("nothing"))
mutation_notifyUser == Checked(Writes("nothing"))
mutation_setShipment == Checked(Writes("nothing"))
mutation_setCustomer == Checked(Writes("nothing"))
mutation_setCustomerAddressDetail == Checked(Writes("nothing"))
mutation_setProductOptionRules == Checked(Writes("nothing"))
mutation_setCustomFormula == Checked(Writes("nothing"))
mutation_setOptionGroup == Checked(Writes("nothing"))
mutation_setMasterOptionTag == Checked(Writes("nothing"))
mutation_setMasterOptionAttributes == Checked(Writes("nothing"))
mutation_setMasterOptionRange == Checked(Writes("nothing"))
mutation_setMasterOptionAttributePrice == Checked(Writes("nothing"))
mutation_setMasterOption == Checked(Writes("nothing"))
mutation_setAssignOptions == Checked(Writes("nothing"))
mutation_setProductPages == Checked(Writes("nothing"))
mutation_setProductsImageGallery == Checked(Writes("nothing"))
mutation_setStoreAddress == Checked(Writes("nothing"))
mutation_setDepartment == Checked(Writes("nothing"))
mutation_setStore == Checked(Writes("nothing"))
mutation_setStoreMarkup == Checked(Writes("nothing"))
mutation_setFaqCategory == Checked(Writes("nothing"))
mutation_setFaq == Checked(Writes("nothing"))
mutation_setOrder == Checked(Writes("nothing"))
mutation_setUserBasket == Checked(Writes("nothing"))
mutation_modifyOrderProduct == Checked(Writes("nothing"))
mutation_setAdditionalOption == Checked(Writes("nothing"))
mutation_setAdditionalOptionAttributes == Checked(Writes("nothing"))
mutation_setProductsAttributePrice == Checked(Writes("nothing"))
mutation_setQuantityBasedAttributePrice == Checked(Writes("nothing"))
mutation_updateProductStock == Checked(Writes("nothing"))
\* Customers and orders
customer_create == Writes("throw")
customer_update == Writes("throw")
customer_get == Finds("error")
customer_getAll == Patient(Lists("throw"), {"busy"})
customer_getUserBasket == Checked(Lists("throw"))
order_get == Finds("error")
order_getAll == SafeMode(Patient(Lists("throw"), {"busy", "down"}))
order_getShipments == Finds("note")
order_createShipment == Writes("throw")
\* Products
product_getSimple == Checked(Finds("error"))
product_getManySimple == Pages(Lists("throw"), "ignored")
product_getDetailed == Checked(Finds("error"))
product_getManyDetailed == Pages(Lists("throw"), "ignored")
product_getCategory == Checked(Finds("error"))
product_getManyCategories == Lists("throw")
product_getStock == Checked(Finds("error"))
product_updateStock == Checked(Writes("throw"))
product_getMasterOptions == Checked(PushesNull(Lists("throw")))
product_getManyMasterOptions == Checked(PushesNull(Lists("throw")))
product_getOptionsRules == Checked(PushesNull(Lists("throw")))
product_getManyOptionsRules == Checked(PushesNull(Lists("throw")))
product_getPrices == Checked(PushesNull(Lists("throw")))
product_getManyPrices == Checked(PushesNull(Lists("throw")))
product_getOptionPrices == Checked(PushesNull(Lists("throw")))
product_getManyOptionPrices == Checked(PushesNull(Lists("throw")))
product_getFAQs == Lists("throw")
product_getManyFAQs == Pages(Lists("throw"), "counted")
status_getStatus == Checked(TripsOnNull(Lists("throw")))
status_getManyStatus == Pages(TripsOnNull(Lists("throw")), "ignored")
product_getMasterOptionTag == Lists("throw")
product_getOptionGroup == Lists("throw")
product_getCustomFormula == Lists("throw")
product_getMasterOptionRange == Lists("throw")
product_get_faq_category == Lists("throw")
product_product_additional_options == Lists("throw")
product_products_attribute_price == Lists("throw")
\* Resources executed through opsRequest
productMgmt_reads == Strict(Lists("throw"))
productMgmt_writes == Strict(Writes("throw"))
masterOption_reads == Strict(Lists("throw"))
masterOption_writes == Strict(Writes("throw"))

Handlers ==
    {customerAddress_getAll, orderDetails_getAll,
     orderShipment_getAll, shipToMultipleAddress_getAll,
     productStocks_getAll, status_orderStatus,
     status_orderProductStatus, batch_getAll,
     quote_getAll, quoteProduct_getAll,
     store_getAll, store_get_countries,
     store_get_store_markup, store_get_payment_term_master,
     store_storeaddress, store_storeCreditSummary,
     store_accountSummary, department_getAll,
     mutation_updateOrderStatus, mutation_setOrderProduct,
     mutation_setBatch, mutation_setProduct,
     mutation_setProductPrice, mutation_setProductSize,
     mutation_setProductCategory, mutation_setQuote,
     mutation_setProductDesign, mutation_updateOrderProductImages,
     mutation_addProofVersion, mutation_updateZiflowLinkImages,
     mutation_notifyUser, mutation_setShipment,
     mutation_setCustomer, mutation_setCustomerAddressDetail,
     mutation_setProductOptionRules, mutation_setCustomFormula,
     mutation_setOptionGroup, mutation_setMasterOptionTag,
     mutation_setMasterOptionAttributes, mutation_setMasterOptionRange,
     mutation_setMasterOptionAttributePrice, mutation_setMasterOption,
     mutation_setAssignOptions, mutation_setProductPages,
     mutation_setProductsImageGallery, mutation_setStoreAddress,
     mutation_setDepartment, mutation_setStore,
     mutation_setStoreMarkup, mutation_setFaqCategory,
     mutation_setFaq, mutation_setOrder,
     mutation_setUserBasket, mutation_modifyOrderProduct,
     mutation_setAdditionalOption, mutation_setAdditionalOptionAttributes,
     mutation_setProductsAttributePrice, mutation_setQuantityBasedAttributePrice,
     mutation_updateProductStock, customer_create,
     customer_update, customer_get,
     customer_getAll, customer_getUserBasket,
     order_get, order_getAll,
     order_getShipments, order_createShipment,
     product_getSimple, product_getManySimple,
     product_getDetailed, product_getManyDetailed,
     product_getCategory, product_getManyCategories,
     product_getStock, product_updateStock,
     product_getMasterOptions, product_getManyMasterOptions,
     product_getOptionsRules, product_getManyOptionsRules,
     product_getPrices, product_getManyPrices,
     product_getOptionPrices, product_getManyOptionPrices,
     product_getFAQs, product_getManyFAQs,
     status_getStatus, status_getManyStatus,
     product_getMasterOptionTag, product_getOptionGroup,
     product_getCustomFormula, product_getMasterOptionRange,
     product_get_faq_category, product_product_additional_options,
     product_products_attribute_price, productMgmt_reads,
     productMgmt_writes, masterOption_reads,
     masterOption_writes}

-----------------------------------------------------------------------------
VARIABLES
    job,        \* the parameters of each item: handler, toggles, validity
    goOn,       \* the node's setting continueOnFail
    phase,      \* "token", "item", "done", "failed"
    tries,      \* token requests made
    item,       \* the input item being executed
    scan,       \* the page loop of the current item
    table,      \* the records OPS holds, in the order it lists them
    out,        \* output rows of each item
    applied,    \* how often OPS applied the write of each item
    met,        \* history: what went otherwise than well for each item
    changes,    \* changes made to the table so far
    faults      \* improper answers so far

vars == <<job, goOn, phase, tries, item, scan, table, out, applied, met,
          changes, faults>>

ItemSet == 1..Items

\* The parameters that matter: an option a handler does not read stays off.
Job == {j \in [h: Handlers, all: BOOLEAN, valid: BOOLEAN, safe: BOOLEAN] :
            /\ j.all => j.h.pages # "never"
            /\ ~j.valid => j.h.check
            /\ j.safe => j.h.safe /\ j.all}

Row == [is: {"row", "error", "note", "result"}, id: Int]
Rows(records) == [k \in DOMAIN records |-> [is |-> "row", id |-> records[k]]]
Mark(what)    == <<[is |-> what, id |-> 0]>>

Event == {"bad", "capped", "odd", "partial", "inserted", "removed"}

\* One page loop: minimal is TRUE while Safe Mode's reduced query is asked.
Scan == [offset: Nat, pages: Nat, fetched: Nat, got: Seq(Row), minimal: BOOLEAN]
NewScan == [offset |-> 0, pages |-> 0, fetched |-> 0, got |-> <<>>,
            minimal |-> FALSE]

TypeOK ==
    /\ job \in [ItemSet -> Job]
    /\ goOn \in BOOLEAN
    /\ phase \in {"token", "item", "done", "failed"}
    /\ tries \in 0..3 /\ (phase = "token" => tries < 3)
    /\ item \in 1..(Items + 1)
    /\ phase = "item" => item \in ItemSet
    /\ scan \in Scan
    /\ table \in Seq(Int)
    /\ out \in [ItemSet -> Seq(Row)]
    /\ applied \in [ItemSet -> Nat]
    /\ met \in [ItemSet -> SUBSET Event]
    /\ changes \in 0..MaxChanges
    /\ faults \in 0..MaxFaults

Init ==
    /\ job \in [ItemSet -> Job]
    /\ goOn \in BOOLEAN
    /\ phase = "token" /\ tries = 0 /\ item = 1
    /\ scan = NewScan
    /\ \E n \in Lengths : table = [k \in 1..n |-> k]
    /\ out = [j \in ItemSet |-> <<>>]
    /\ applied = [j \in ItemSet |-> 0]
    /\ met = [j \in ItemSet |-> {}]
    /\ changes = 0 /\ faults = 0

-----------------------------------------------------------------------------
(***************************************************************************)
(* The token: JSON body, then form, then basic authentication.             *)
(***************************************************************************)
TokenGranted ==
    /\ phase = "token"
    /\ phase' = "item"
    /\ UNCHANGED <<job, goOn, tries, item, scan, table, out, applied, met,
                   changes, faults>>

\* The third refusal rethrows the first; continueOnFail does not catch it.
TokenRefused ==
    /\ phase = "token"
    /\ tries' = tries + 1
    /\ phase' = IF tries = 2 THEN "failed" ELSE "token"
    /\ UNCHANGED <<job, goOn, item, scan, table, out, applied, met, changes,
                   faults>>

\* An answer without access_token is not a refusal: there is no fallback.
TokenMissing ==
    /\ phase = "token"
    /\ phase' = "failed"
    /\ UNCHANGED <<job, goOn, tries, item, scan, table, out, applied, met,
                   changes, faults>>

-----------------------------------------------------------------------------
(***************************************************************************)
(* The item loop.                                                          *)
(***************************************************************************)
NextItem ==
    /\ item' = item + 1
    /\ scan' = NewScan
    /\ phase' = IF item = Items THEN "done" ELSE "item"

\* The handler returns after pushing rows.
Finish(rows, events) ==
    /\ out' = [out EXCEPT ![item] = @ \o rows]
    /\ met' = [met EXCEPT ![item] = @ \cup events]
    /\ NextItem

\* Mutant: the catch block continues without pushing the error.
M_ThrowSwallowed(events) ==
    /\ met' = [met EXCEPT ![item] = @ \cup events]
    /\ IF goOn
       THEN UNCHANGED out /\ NextItem
       ELSE /\ out' = [j \in ItemSet |-> <<>>]
            /\ phase' = "failed"
            /\ UNCHANGED <<item, scan>>

\* The handler throws: an error row, or the end of the whole execution.
Throw(events) ==
    /\ met' = [met EXCEPT ![item] = @ \cup events]
    /\ IF goOn
       THEN out' = [out EXCEPT ![item] = @ \o Mark("error")] /\ NextItem
       ELSE /\ out' = [j \in ItemSet |-> <<>>]
            /\ phase' = "failed"
            /\ UNCHANGED <<item, scan>>

\* The loop asks again, for the next page or for the same one.
Continue(newScan, rows, events) ==
    /\ scan' = newScan
    /\ out' = [out EXCEPT ![item] = @ \o rows]
    /\ met' = [met EXCEPT ![item] = @ \cup events]
    /\ UNCHANGED <<phase, item>>

H == job[item].h
Scanning == job[item].all /\ H.pages \in {"plain", "patient", "counted"}
Running == phase = "item" /\ job[item].valid

\* The records OPS returns for one page at an offset.
PageAt(offset) ==
    SubSeq(table, offset + 1,
           IF offset + PageSize < Len(table) THEN offset + PageSize
                                             ELSE Len(table))

Proper   == UNCHANGED <<job, goOn, tries, table, applied, changes, faults>>
Improper == /\ faults < MaxFaults
            /\ faults' = faults + 1
            /\ UNCHANGED <<job, goOn, tries, table, changes>>

\* A write whose answer is improper may have been applied all the same.
PerhapsApplied ==
    \/ UNCHANGED applied
    \/ /\ H.kind = "write"
       /\ applied' = [applied EXCEPT ![item] = @ + 1]

RejectParameters ==
    /\ phase = "item"
    /\ ~job[item].valid
    /\ Throw({"bad"})
    /\ Proper

-----------------------------------------------------------------------------
(***************************************************************************)
(* Proper answers.                                                         *)
(***************************************************************************)
AnswerList ==
    /\ Running /\ H.kind = "list" /\ ~Scanning
    /\ Finish(Rows(PageAt(0)), {})
    /\ Proper

AnswerOne ==
    /\ Running /\ H.kind = "one"
    /\ \/ Finish(Rows(<<1>>), {})
       \/ Finish(IF H.none = "nothing" THEN <<>> ELSE Mark(H.none), {})
    /\ Proper

AnswerWrite ==
    /\ Running /\ H.kind = "write"
    /\ applied' = [applied EXCEPT ![item] = @ + 1]
    /\ Finish(Mark("result"), {})
    /\ UNCHANGED <<job, goOn, tries, table, changes, faults>>

\* The loop after a page: orderDetails, orderShipment, productStocks.
PlainPage(page) ==
    LET got == scan.got \o Rows(page) IN
    IF Len(page) = PageSize /\ scan.pages + 1 < MaxPages
    THEN Continue([scan EXCEPT !.offset = @ + PageSize, !.pages = @ + 1,
                               !.fetched = @ + Len(page), !.got = got], <<>>, {})
    ELSE Finish(got, {})

\* customer.getAll and order.getAll: the cap throws, even on the last page.
PatientPage(page) ==
    LET got == scan.got \o Rows(page) IN
    IF page = <<>> THEN Finish(got, {})
    ELSE IF scan.pages + 1 = MaxPages THEN Throw({"capped"})
    ELSE IF Len(page) = PageSize
    THEN Continue([scan EXCEPT !.offset = @ + PageSize, !.pages = @ + 1,
                               !.fetched = @ + Len(page), !.got = got,
                               !.minimal = FALSE], <<>>, {})
    ELSE Finish(got, {})

\* Mutant: a page that fills up to the total asks for one more.
M_CountedUpToTotal(page, total, events) ==
    LET fetched == scan.fetched + Len(page) IN
    IF fetched > 0 /\ fetched <= total
    THEN Continue([scan EXCEPT !.offset = IF @ > Len(table) THEN @ ELSE @ + PageSize, !.fetched = fetched],
                  Rows(page), events)
    ELSE Finish(Rows(page), events)

\* Mutant: the next page starts at the last record of this one.
M_FurtherOverlaps(offset) ==
    IF offset >= Len(table) + MaxChanges THEN offset ELSE offset + PageSize - 1

\* Bound: past the last record every offset is answered alike.
Further(offset) ==
    IF offset >= Len(table) + MaxChanges THEN offset ELSE offset + PageSize

\* getManyFAQs: rows are pushed as they come, the total decides; no cap.
CountedPage(page, total, events) ==
    LET fetched == scan.fetched + Len(page) IN
    IF fetched > 0 /\ fetched < total
    THEN Continue([scan EXCEPT !.offset = Further(@), !.fetched = fetched],
                  Rows(page), events)
    ELSE Finish(Rows(page), events)

AnswerPage ==
    /\ Running /\ Scanning /\ ~scan.minimal
    /\ LET page == PageAt(scan.offset) IN
       \/ H.pages = "plain" /\ PlainPage(page)
       \/ H.pages = "patient" /\ PatientPage(page)
       \/ H.pages = "counted" /\ CountedPage(page, Len(table), {})
    /\ Proper

\* Safe Mode's reduced query: an empty page counts as the error it retried.
AnswerMinimal ==
    /\ Running /\ Scanning /\ scan.minimal
    /\ IF PageAt(scan.offset) = <<>> THEN Throw({"bad"})
       ELSE PatientPage(PageAt(scan.offset))
    /\ Proper

-----------------------------------------------------------------------------
(***************************************************************************)
(* Improper answers.                                                       *)
(***************************************************************************)
\* GraphQL errors and no data.
AnswerErrors ==
    /\ Running
    /\ IF Scanning /\ job[item].safe /\ scan.pages = 0 /\ ~scan.minimal
       THEN Continue([scan EXCEPT !.minimal = TRUE], <<>>, {})
       ELSE Throw({"bad"})
    /\ UNCHANGED applied
    /\ Improper

\* Data whose list is null, with the errors that made it so beside it.
AnswerPartial ==
    /\ Running /\ H.kind # "write"
    /\ \/ (H.strict \/ scan.minimal \/ H.null = "throw") /\ Throw({"bad"})
       \/ /\ ~(H.strict \/ scan.minimal \/ H.null = "throw")
          /\ \/ Scanning /\ H.pages # "counted" /\ Finish(scan.got, {"partial"})
             \/ /\ Scanning /\ H.pages = "counted"
                /\ \E total \in {0, Len(table)} :
                       CountedPage(<<>>, total, {"partial"})
             \/ ~Scanning /\ Finish(IF H.null = "row" THEN Mark("note")
                                    ELSE IF H.kind = "one" /\ H.none # "nothing"
                                    THEN Mark(H.none) ELSE <<>>, {"partial"})
    /\ UNCHANGED applied
    /\ Improper

\* Mutant: no handler looks at an answer of another shape.
M_OddIsNothing ==
    /\ Running
    /\ Finish(scan.got, {"odd"})
    /\ PerhapsApplied
    /\ Improper

\* Neither the data asked for nor errors.  When only the field is missing, a
\* strict handler hands n8n an undefined value: as n8n's version has it, that
\* throws or is a row without content.
AnswerOdd ==
    /\ Running
    /\ \/ IF scan.minimal \/ (H.odd = "throw" /\ ~(Scanning /\ H.pages = "patient"))
          THEN Throw({"bad"})
          ELSE Finish(IF H.odd = "row" /\ ~Scanning THEN Mark("error")
                      ELSE scan.got, {"odd"})
       \/ H.strict /\ Finish(Mark("note"), {"odd"})
    /\ PerhapsApplied
    /\ Improper

\* Mutant: the retry that the page loops have is given to every request.
M_EveryRequestRetried ==
    /\ Running
    /\ \E failure \in Failures :
           IF failure = "busy"
           THEN Continue([scan EXCEPT !.minimal = FALSE], <<>>, {})
           ELSE Throw({"bad"})
    /\ PerhapsApplied
    /\ Improper

\* Mutant: the offset moves before the request, so the retry skips a page.
M_RetrySkipsPage ==
    /\ Running
    /\ \E failure \in Failures :
           IF Scanning /\ failure \in H.retries
           THEN Continue([scan EXCEPT !.offset = @ + PageSize], <<>>, {})
           ELSE Throw({"bad"})
    /\ PerhapsApplied
    /\ Improper

\* The request fails at the HTTP level or gets no answer.
AnswerFails ==
    /\ Running
    /\ \E failure \in Failures :
           IF Scanning /\ failure \in H.retries
           THEN Continue([scan EXCEPT !.minimal = FALSE], <<>>, {})
           ELSE Throw({"bad"})
    /\ PerhapsApplied
    /\ Improper

-----------------------------------------------------------------------------
(***************************************************************************)
(* Other users of the storefront change the table between two pages; at    *)
(* any other time a change is no different from another table to begin     *)
(* with.                                                                   *)
(***************************************************************************)
Changed(event) ==
    /\ changes < MaxChanges
    /\ phase = "item" /\ scan.fetched > 0
    /\ met' = [met EXCEPT ![item] = @ \cup {event}]
    /\ changes' = changes + 1
    /\ UNCHANGED <<job, goOn, phase, tries, item, scan, out, applied, faults>>

RowAdded ==
    /\ table' \in {<<-(changes + 1)>> \o table, Append(table, -(changes + 1))}
    /\ Changed("inserted")

RowRemoved ==
    /\ \E k \in DOMAIN table :
           table' = SubSeq(table, 1, k - 1) \o SubSeq(table, k + 1, Len(table))
    /\ Changed("removed")

-----------------------------------------------------------------------------
Ended == phase \in {"done", "failed"}

\* The output or the exception is n8n's: the node does nothing more.
Returned == Ended /\ UNCHANGED vars

Answer ==
    \/ TokenGranted \/ RejectParameters
    \/ AnswerList \/ AnswerOne \/ AnswerWrite \/ AnswerPage \/ AnswerMinimal

Trouble ==
    \/ TokenRefused \/ TokenMissing
    \/ AnswerErrors \/ AnswerPartial \/ AnswerOdd \/ AnswerFails

Next == Answer \/ Trouble \/ RowAdded \/ RowRemoved \/ Returned

Spec == Init /\ [][Next]_vars

\* n8n runs the node to its end and OPS sooner or later answers a request
\* properly; trouble is never relied upon.
FairSpec == Spec /\ WF_vars(Answer)

-----------------------------------------------------------------------------
(***************************************************************************)
(* Properties.                                                             *)
(***************************************************************************)
Ids(rows) == {rows[k].id : k \in {n \in DOMAIN rows : rows[n].is = "row"}}
HasError(j) == \E k \in DOMAIN out[j] : out[j][k].is = "error"
Stored == {table[k] : k \in DOMAIN table}
FetchedAll(j) == item = j /\ item' = j + 1 /\ Scanning
UnderCap == Len(table) < MaxPages * PageSize

\* When every answer was proper and nobody changed the table, "Fetch All
\* Pages" returns exactly the records of OPS, in its order, none twice and
\* none missing, however many pages that took.  (A table that fills the last
\* page allowed is cut off or refused, see the README.)
WholeListReturned ==
    [][\A j \in ItemSet : FetchedAll(j) /\ met'[j] = {} /\ UnderCap
           => out'[j] = Rows(table)]_vars

\* What the node's interface says of the toggle: "Automatically fetch all pages
\* until no more records are available".  Three handlers never read it, and
\* three loops stop silently at their hundredth page.
FetchAllMeansAll ==
    [][\A j \in ItemSet : item = j /\ item' = j + 1 /\ job[j].all /\ met'[j] = {}
           => out'[j] = Rows(table)]_vars

\* Offset paging under concurrent changes: rows added in the meantime may make
\* a record appear twice but never hide an old one; rows removed in the
\* meantime may hide a record but never make one appear twice.
DriftIsOneSided ==
    [][\A j \in ItemSet : FetchedAll(j) /\ UnderCap =>
        /\ met'[j] = {"inserted"} =>
               {r \in Stored : r > 0} \subseteq Ids(out'[j])
        /\ met'[j] = {"removed"} =>
               Cardinality(Ids(out'[j])) = Len(out'[j])]_vars

\* An execution that returns has an error row for every item that met errors,
\* an HTTP failure it did not recover from, or a bad parameter; so it has for
\* an answer of another shape, except from the handlers that test only for
\* errors (odd = "nothing", strict) and from page loops, which take it for the
\* end.
FailureReported ==
    phase = "done" => \A j \in ItemSet :
        /\ met[j] \cap {"bad", "capped"} # {} => HasError(j)
        /\ "odd" \in met[j] => \/ HasError(j) \/ job[j].h.odd = "nothing" \/ job[j].h.strict
                               \/ job[j].all /\ job[j].h.kind = "list"

\* A request that changes OPS is sent once: the loops that retry after a 429
\* or a 502 only ever read.
WrittenAtMostOnce == \A j \in ItemSet : applied[j] <= 1

\* When the execution returns, each change OPS applied has a row, result or
\* error, in the output; handlers that test only for errors lose it when the
\* answer has another shape.
AppliedWriteReported ==
    phase = "done" => \A j \in ItemSet :
        applied[j] > 0 => \/ out[j] # <<>>
                          \/ "odd" \in met[j] /\ job[j].h.odd = "nothing"

\* The execution ends: the page loops stop by themselves, or OPS recovers and
\* the retried page is read.  The one exception is the uncapped loop of
\* getManyFAQs after an answer with a null list, whose total is never reached.
RunEnds ==
    <>(Ended \/ (phase = "item" /\ H.pages = "counted" /\ "partial" \in met[item]))

-----------------------------------------------------------------------------
(***************************************************************************)
(* Why the page loops return what they should: the part of the inductive   *)
(* invariant that is about them.                                           *)
(***************************************************************************)
Reading == phase = "item" /\ Scanning

\* The rows of the page loop so far: pushed as they come, or kept to the end.
SoFar == IF H.pages = "counted" THEN out[item] ELSE scan.got

\* The items to come have no rows and no history.
Fresh ==
    /\ phase \in {"token", "item"} =>
           \A j \in ItemSet : j > item \/ phase = "token" => out[j] = <<>> /\ met[j] = {}
    /\ phase = "token" => scan = NewScan

\* Records differ, and the ones added later have ids of their own.
Distinct ==
    /\ \A k \in DOMAIN table : table[k] >= -changes
    /\ \A k, n \in DOMAIN table : table[k] = table[n] => k = n

\* What rows are, after the records up to the nth have been asked for: records;
\* all of them in order; each old one at least once; each at most once.
OnlyRecords(rows) == \A k \in DOMAIN rows : rows[k].is = "row"
Whole(rows, n) ==
    Len(rows) = n /\ \A k \in 1..n : rows[k] = [is |-> "row", id |-> table[k]]
NoneHidden(rows, n) ==
    \A k \in DOMAIN table :
        k <= n /\ table[k] > 0 => \E i \in DOMAIN rows : rows[i].id = table[k]
NoneTwice(rows, n) ==
    /\ \A i, k \in DOMAIN rows : rows[i].id = rows[k].id => i = k
    /\ \A i \in DOMAIN rows, k \in DOMAIN table : rows[i].id = table[k] => k <= n

\* Only a loop that keeps its rows to the end sends the reduced query. The offset
\* is that of the next page; unless records were removed, it counts the records
\* read and is not past the end.
Counts ==
    Reading =>
        /\ scan.minimal => H.pages = "patient"
        /\ H.pages # "counted" => /\ out[item] = <<>>
                                  /\ scan.offset = scan.pages * PageSize
                                  /\ scan.pages < MaxPages
        /\ met[item] \subseteq {"inserted"} =>
               scan.fetched = scan.offset /\ scan.offset <= Len(table)

ReadSoFar ==
    Reading =>
        /\ OnlyRecords(SoFar)
        /\ met[item] = {} => Whole(SoFar, scan.offset)
        /\ met[item] \subseteq {"inserted"} => NoneHidden(SoFar, scan.offset)
        /\ met[item] \subseteq {"removed"} => NoneTwice(SoFar, scan.offset)

PagesInv == Fresh /\ Distinct /\ Counts /\ ReadSoFar
=============================================================================
