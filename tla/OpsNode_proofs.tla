--------------------------- MODULE OpsNode_proofs ---------------------------
(***************************************************************************)
(* Proofs about OpsNode, for every number of items, every setting of every *)
(* handler, every table and page size.                                     *)
(***************************************************************************)
EXTENDS OpsNode, SequenceTheorems, FiniteSetTheorems, TLAPS

\* What the table of handlers guarantees: only lists are read page by page, and
\* Safe Mode is for a loop that keeps its rows to the end.
Sound(h) ==
    /\ h \in HandlerType
    /\ h.pages # "never" => h.kind = "list"
    /\ h.safe => h.pages = "patient"

LEMMA ListsSound ==
    ASSUME NEW odd \in {"row", "throw", "nothing"}
    PROVE  Sound(Lists(odd)) /\ Lists(odd).kind = "list" /\ ~Lists(odd).safe
PROOF
  BY DEF Sound, HandlerType, Lists, Handler, Failures

LEMMA WritesSound ==
    ASSUME NEW odd \in {"row", "throw", "nothing"}
    PROVE  Sound(Writes(odd))
PROOF
  BY DEF Sound, HandlerType, Writes, Handler, Failures

LEMMA FindsSound ==
    ASSUME NEW none \in {"error", "note", "nothing"}
    PROVE  Sound(Finds(none))
PROOF
  BY DEF Sound, HandlerType, Finds, Handler, Failures

LEMMA CheckedSound ==
    ASSUME NEW h \in HandlerType, Sound(h)
    PROVE  Sound(Checked(h)) /\ Checked(h).kind = h.kind /\ Checked(h).safe = h.safe
PROOF
  BY DEF Sound, HandlerType, Checked

LEMMA PushesNullSound ==
    ASSUME NEW h \in HandlerType, Sound(h)
    PROVE  Sound(PushesNull(h)) /\ PushesNull(h).kind = h.kind /\ PushesNull(h).safe = h.safe
PROOF
  BY DEF Sound, HandlerType, PushesNull

LEMMA TripsOnNullSound ==
    ASSUME NEW h \in HandlerType, Sound(h)
    PROVE  Sound(TripsOnNull(h)) /\ TripsOnNull(h).kind = h.kind /\ TripsOnNull(h).safe = h.safe
PROOF
  BY DEF Sound, HandlerType, TripsOnNull

LEMMA StrictSound ==
    ASSUME NEW h \in HandlerType, Sound(h)
    PROVE  Sound(Strict(h)) /\ Strict(h).kind = h.kind /\ Strict(h).safe = h.safe
PROOF
  BY DEF Sound, HandlerType, Strict

LEMMA SafeModeSound ==
    ASSUME NEW h \in HandlerType, Sound(h), h.pages = "patient"
    PROVE  Sound(SafeMode(h))
PROOF
  BY DEF Sound, HandlerType, SafeMode

LEMMA PagesSound ==
    ASSUME NEW h \in HandlerType, h.kind = "list", ~h.safe,
           NEW how \in {"ignored", "plain", "patient", "counted"}
    PROVE  Sound(Pages(h, how)) /\ Pages(h, how).kind = "list"
PROOF
  BY DEF Sound, HandlerType, Pages

LEMMA PatientSound ==
    ASSUME NEW h \in HandlerType, h.kind = "list", NEW again \in SUBSET Failures
    PROVE  Sound(Patient(h, again)) /\ Patient(h, again).pages = "patient"
PROOF
  BY DEF Sound, HandlerType, Patient, Pages

\* Every handler of the table is well formed, and none that changes OPS is
\* executed by a page loop: checked definition by definition.
LEMMA HandlersSound == \A h \in Handlers : Sound(h)
PROOF
<1>1. Sound(customerAddress_getAll)
  BY ListsSound DEF Sound, customerAddress_getAll
<1>2. \A h \in {orderDetails_getAll, orderShipment_getAll} : Sound(h)
  BY ListsSound, PagesSound DEF Sound, orderDetails_getAll, orderShipment_getAll
<1>3. \A h \in {shipToMultipleAddress_getAll, customer_getUserBasket} : Sound(h)
  BY ListsSound, CheckedSound DEF Sound, shipToMultipleAddress_getAll, customer_getUserBasket
<1>4. Sound(productStocks_getAll)
  BY ListsSound, CheckedSound, PagesSound DEF Sound, productStocks_getAll
<1>5. \A h \in {status_orderStatus, status_orderProductStatus, batch_getAll,
              quote_getAll, quoteProduct_getAll, store_getAll,
              store_get_countries, store_get_store_markup,
              store_get_payment_term_master,
              store_storeaddress, store_storeCreditSummary,
              store_accountSummary, department_getAll} : Sound(h)
  BY ListsSound DEF Sound, status_orderStatus, status_orderProductStatus, batch_getAll,
         quote_getAll, quoteProduct_getAll, store_getAll,
         store_get_countries, store_get_store_markup,
         store_get_payment_term_master, store_storeaddress,
         store_storeCreditSummary, store_accountSummary,
         department_getAll
<1>6. \A h \in {mutation_updateOrderStatus, mutation_setOrderProduct,
              mutation_setBatch, mutation_setProduct,
              mutation_setProductPrice,
              mutation_setProductSize,
              mutation_setProductCategory, mutation_setQuote,
              mutation_updateOrderProductImages,
              mutation_addProofVersion,
              mutation_updateZiflowLinkImages,
              mutation_notifyUser, mutation_setShipment,
              mutation_setCustomer,
              mutation_setCustomerAddressDetail,
              mutation_setProductOptionRules,
              mutation_setCustomFormula,
              mutation_setOptionGroup,
              mutation_setMasterOptionTag,
              mutation_setMasterOptionAttributes,
              mutation_setMasterOptionRange,
              mutation_setMasterOptionAttributePrice,
              mutation_setMasterOption,
              mutation_setAssignOptions,
              mutation_setProductPages,
              mutation_setProductsImageGallery,
              mutation_setStoreAddress,
              mutation_setDepartment, mutation_setStore,
              mutation_setStoreMarkup,
              mutation_setFaqCategory, mutation_setFaq,
              mutation_setOrder, mutation_setUserBasket,
              mutation_modifyOrderProduct,
              mutation_setAdditionalOption,
              mutation_setAdditionalOptionAttributes,
              mutation_setProductsAttributePrice,
              mutation_setQuantityBasedAttributePrice,
              mutation_updateProductStock} : Sound(h)
  BY WritesSound, CheckedSound DEF Sound, mutation_updateOrderStatus, mutation_setOrderProduct,
         mutation_setBatch, mutation_setProduct,
         mutation_setProductPrice, mutation_setProductSize,
         mutation_setProductCategory, mutation_setQuote,
         mutation_updateOrderProductImages, mutation_addProofVersion,
         mutation_updateZiflowLinkImages, mutation_notifyUser,
         mutation_setShipment, mutation_setCustomer,
         mutation_setCustomerAddressDetail,
         mutation_setProductOptionRules, mutation_setCustomFormula,
         mutation_setOptionGroup, mutation_setMasterOptionTag,
         mutation_setMasterOptionAttributes,
         mutation_setMasterOptionRange,
         mutation_setMasterOptionAttributePrice,
         mutation_setMasterOption, mutation_setAssignOptions,
         mutation_setProductPages, mutation_setProductsImageGallery,
         mutation_setStoreAddress, mutation_setDepartment,
         mutation_setStore, mutation_setStoreMarkup,
         mutation_setFaqCategory, mutation_setFaq, mutation_setOrder,
         mutation_setUserBasket, mutation_modifyOrderProduct,
         mutation_setAdditionalOption,
         mutation_setAdditionalOptionAttributes,
         mutation_setProductsAttributePrice,
         mutation_setQuantityBasedAttributePrice,
         mutation_updateProductStock
<1>7. Sound(mutation_setProductDesign)
  BY WritesSound DEF Sound, mutation_setProductDesign
<1>8. \A h \in {customer_create, customer_update, order_createShipment} : Sound(h)
  BY WritesSound DEF Sound, customer_create, customer_update, order_createShipment
<1>9. \A h \in {customer_get, order_get} : Sound(h)
  BY FindsSound DEF Sound, customer_get, order_get
<1>10. Sound(customer_getAll)
  BY ListsSound, PatientSound DEF customer_getAll, Sound, Failures
<1>11. Sound(order_getAll)
  BY ListsSound, PatientSound, SafeModeSound DEF order_getAll, Sound, Failures
<1>12. Sound(order_getShipments)
  BY FindsSound DEF Sound, order_getShipments
<1>13. \A h \in {product_getSimple, product_getDetailed, product_getCategory,
              product_getStock} : Sound(h)
  BY FindsSound, CheckedSound DEF Sound, product_getSimple, product_getDetailed,
     product_getCategory,
         product_getStock
<1>14. \A h \in {product_getManySimple, product_getManyDetailed} : Sound(h)
  BY ListsSound, PagesSound DEF Sound, product_getManySimple, product_getManyDetailed
<1>15. \A h \in {product_getManyCategories, product_getFAQs,
              product_getMasterOptionTag,
              product_getOptionGroup,
              product_getCustomFormula,
              product_getMasterOptionRange,
              product_get_faq_category,
              product_product_additional_options,
              product_products_attribute_price} : Sound(h)
  BY ListsSound DEF Sound, product_getManyCategories, product_getFAQs,
         product_getMasterOptionTag, product_getOptionGroup,
         product_getCustomFormula, product_getMasterOptionRange,
         product_get_faq_category, product_product_additional_options,
         product_products_attribute_price
<1>16. Sound(product_updateStock)
  BY WritesSound, CheckedSound DEF Sound, product_updateStock
<1>17. \A h \in {product_getMasterOptions, product_getManyMasterOptions,
              product_getOptionsRules,
              product_getManyOptionsRules, product_getPrices,
              product_getManyPrices, product_getOptionPrices,
              product_getManyOptionPrices} : Sound(h)
  BY ListsSound, CheckedSound, PushesNullSound DEF Sound, product_getMasterOptions,
     product_getManyMasterOptions,
         product_getOptionsRules, product_getManyOptionsRules,
         product_getPrices, product_getManyPrices,
         product_getOptionPrices, product_getManyOptionPrices
<1>18. Sound(product_getManyFAQs)
  BY ListsSound, PagesSound DEF Sound, product_getManyFAQs
<1>19. Sound(status_getStatus)
  BY ListsSound, CheckedSound, TripsOnNullSound DEF Sound, status_getStatus
<1>20. Sound(status_getManyStatus)
  BY ListsSound, TripsOnNullSound, PagesSound DEF Sound, status_getManyStatus
<1>21. \A h \in {productMgmt_reads, masterOption_reads} : Sound(h)
  BY ListsSound, StrictSound DEF Sound, productMgmt_reads, masterOption_reads
<1>22. \A h \in {productMgmt_writes, masterOption_writes} : Sound(h)
  BY WritesSound, StrictSound DEF Sound, productMgmt_writes, masterOption_writes
<1> QED BY <1>1, <1>2, <1>3, <1>4, <1>5, <1>6, <1>7, <1>8, <1>9, <1>10, <1>11, <1>12, <1>13,
           <1>14, <1>15, <1>16, <1>17, <1>18, <1>19, <1>20, <1>21, <1>22 DEF Handlers

-----------------------------------------------------------------------------
(* The invariant.                                                           *)

\* What is settled about an item that has been executed.
Settled(j) ==
    /\ met[j] \cap {"bad", "capped"} # {} => HasError(j)
    /\ "odd" \in met[j] => \/ HasError(j) \/ job[j].h.odd = "nothing" \/ job[j].h.strict
                           \/ job[j].all /\ job[j].h.kind = "list"
    /\ applied[j] > 0 => \/ out[j] # <<>>
                         \/ "odd" \in met[j] /\ job[j].h.odd = "nothing"

\* What holds of an item that is not finished: nothing lost, nothing written.
Untouched(j) ==
    applied[j] = 0 /\ met[j] \cap {"bad", "capped", "odd"} = {}

IndInv ==
    /\ TypeOK
    /\ \A j \in ItemSet : applied[j] <= 1
    /\ phase \in {"token", "item"} => \A j \in ItemSet : j >= item => Untouched(j)
    /\ phase # "failed" => \A j \in ItemSet : j < item => Settled(j)
    /\ phase = "done" => item = Items + 1
    /\ phase = "token" => item = 1

LEMMA SequenceAppend ==
    ASSUME NEW S, NEW s \in Seq(S), NEW t \in Seq(S)
    PROVE  /\ s \o t \in Seq(S)
           /\ Len(s \o t) = Len(s) + Len(t)
           /\ \A k \in DOMAIN s : k \in DOMAIN (s \o t) /\ (s \o t)[k] = s[k]
           /\ \A k \in DOMAIN t : Len(s) + k \in DOMAIN (s \o t)
                                  /\ (s \o t)[Len(s) + k] = t[k]
PROOF
  BY SMT

LEMMA RowsTyped ==
    ASSUME NEW records \in Seq(Int)
    PROVE  Rows(records) \in Seq(Row)
PROOF
<1>1. Len(records) \in Nat /\ DOMAIN records = 1..Len(records)
  OBVIOUS
<1>2. \A k \in 1..Len(records) : [is |-> "row", id |-> records[k]] \in Row
  BY DEF Row
<1>3. Rows(records) \in [1..Len(records) -> Row]
  BY <1>1, <1>2 DEF Rows
<1> QED BY <1>1, <1>3, SeqDef

LEMMA MarkTyped ==
    ASSUME NEW what \in {"error", "note", "result"}
    PROVE  /\ Mark(what) \in Seq(Row) /\ Len(Mark(what)) = 1
           /\ 1 \in DOMAIN Mark(what) /\ Mark(what)[1].is = what
           /\ Mark(what) # <<>>
PROOF
  BY DEF Mark, Row

LEMMA PageTyped ==
    ASSUME NodeAssumption, TypeOK, NEW offset \in Nat
    PROVE  PageAt(offset) \in Seq(Int)
PROOF
<1>1. PageSize \in Nat /\ table \in Seq(Int) /\ Len(table) \in Nat
  BY DEF NodeAssumption, TypeOK
<1> DEFINE last == IF offset + PageSize < Len(table) THEN offset + PageSize
                                                     ELSE Len(table)
<1>2. last \in Int /\ \A k \in offset + 1 .. last : table[k] \in Int
  BY <1>1
<1>3. SubSeq(table, offset + 1, last) \in Seq(Int)
  BY <1>2, SubSeqProperties
<1> QED BY <1>3 DEF PageAt

LEMMA HandlerHere ==
    ASSUME TypeOK, phase = "item"
    PROVE  /\ item \in ItemSet /\ job[item].h \in HandlerType
           /\ job[item].all => job[item].h.kind = "list"
           /\ job[item].all \in BOOLEAN
           /\ job[item].safe => H.pages = "patient"
PROOF
  BY HandlersSound DEF TypeOK, Job, Sound, H
-----------------------------------------------------------------------------
(* The three ways a handler goes on, each of which keeps the invariant.     *)

\* What every answer leaves alone, and what it may do to the writes.
Aside ==
    /\ UNCHANGED <<job, goOn, tries, table, changes>>
    /\ faults' \in 0..MaxFaults
    /\ \/ applied' = applied
       \/ H.kind = "write" /\ applied' = [applied EXCEPT ![item] = @ + 1]

\* The part of the invariant that rests on the bookkeeping around the items.
LEMMA AsideKeeps ==
    ASSUME NodeAssumption, IndInv, phase = "item", Aside
    PROVE  /\ applied' \in [ItemSet -> Nat]
           /\ \A j \in ItemSet : applied'[j] <= 1
           /\ \A j \in ItemSet : j # item => applied'[j] = applied[j]
           /\ applied'[item] > 0 => H.kind = "write"
           /\ job' \in [ItemSet -> Job] /\ goOn' \in BOOLEAN
           /\ tries' \in 0..3 /\ table' \in Seq(Int) /\ changes' \in 0..MaxChanges
PROOF
<1>1. item \in ItemSet /\ applied[item] = 0
  <2>1. item \in ItemSet
    BY DEF IndInv, TypeOK
  <2>2. item >= item
    BY <2>1 DEF ItemSet
  <2> QED BY <2>1, <2>2 DEF IndInv, Untouched
<1>2. /\ applied' \in [ItemSet -> Nat]
      /\ \A j \in ItemSet : applied'[j] <= 1
      /\ \A j \in ItemSet : j # item => applied'[j] = applied[j]
      /\ applied'[item] > 0 => H.kind = "write"
  <2>1. CASE applied' = applied
    BY <1>1, <2>1 DEF IndInv, TypeOK
  <2>2. CASE H.kind = "write" /\ applied' = [applied EXCEPT ![item] = @ + 1]
    BY <1>1, <2>2 DEF IndInv, TypeOK
  <2> QED BY <2>1, <2>2 DEF Aside
<1> QED BY <1>2 DEF Aside, IndInv, TypeOK

LEMMA NextItemTyped ==
    ASSUME NodeAssumption, TypeOK, phase = "item", NextItem
    PROVE  /\ phase' \in {"item", "done"} /\ item' \in 1..(Items + 1)
           /\ phase' = "item" => item' \in ItemSet
           /\ phase' = "done" => item' = Items + 1
           /\ scan' \in Scan /\ item' = item + 1
           /\ \A j \in ItemSet : j >= item' => j > item
           /\ \A j \in ItemSet : j < item' => j <= item
PROOF
<1>1. item \in 1..Items /\ Items \in Nat
  BY DEF TypeOK, ItemSet, NodeAssumption
<1>2. scan' \in Scan
  <2>1. <<>> \in Seq(Row)
    OBVIOUS
  <2> QED BY <2>1 DEF NextItem, NewScan, Scan
<1> QED BY <1>1, <1>2 DEF NextItem, ItemSet

\* Items other than the current one keep what was settled about them.
LEMMA OthersKeep ==
    ASSUME NodeAssumption, IndInv, phase = "item", Aside,
           NEW rows \in Seq(Row), NEW events \in SUBSET Event,
           out' = [out EXCEPT ![item] = @ \o rows],
           met' = [met EXCEPT ![item] = @ \cup events]
    PROVE  /\ out' \in [ItemSet -> Seq(Row)]
           /\ met' \in [ItemSet -> SUBSET Event]
           /\ \A j \in ItemSet : j < item => Settled(j)'
           /\ \A j \in ItemSet : j > item => Untouched(j)'
           /\ out'[item] = out[item] \o rows
           /\ met'[item] = met[item] \cup events
           /\ met[item] \cap {"bad", "capped", "odd"} = {}
PROOF
<1>1. item \in ItemSet /\ item \in Nat
  BY DEF IndInv, TypeOK, ItemSet
<1>2. out \in [ItemSet -> Seq(Row)] /\ met \in [ItemSet -> SUBSET Event]
  BY DEF IndInv, TypeOK
<1>3. out[item] \o rows \in Seq(Row)
  BY <1>1, <1>2, SequenceAppend
<1>4. out' \in [ItemSet -> Seq(Row)] /\ met' \in [ItemSet -> SUBSET Event]
  BY <1>1, <1>2, <1>3
<1>5. \A j \in ItemSet : j # item => out'[j] = out[j] /\ met'[j] = met[j]
  BY <1>1, <1>2
<1>6. \A j \in ItemSet : j # item => applied'[j] = applied[j]
  BY AsideKeeps
<1>7. job' = job
  BY DEF Aside
<1>8. ASSUME NEW j \in ItemSet, j < item PROVE Settled(j)'
  <2>1. Settled(j)
    BY <1>8 DEF IndInv
  <2>2. j # item
    BY <1>1, <1>8 DEF ItemSet
  <2>3. out'[j] = out[j] /\ met'[j] = met[j] /\ applied'[j] = applied[j]
    BY <2>2, <1>5, <1>6
  <2> QED BY <2>1, <2>3, <1>7 DEF Settled, HasError
<1>9. ASSUME NEW j \in ItemSet, j > item PROVE Untouched(j)'
  <2>1. Untouched(j) /\ j # item
    BY <1>1, <1>9 DEF IndInv, ItemSet
  <2>2. met'[j] = met[j] /\ applied'[j] = applied[j]
    BY <2>1, <1>5, <1>6
  <2> QED BY <2>1, <2>2 DEF Untouched
<1>10. item >= item /\ Untouched(item)
  BY <1>1 DEF IndInv
<1> QED BY <1>1, <1>2, <1>4, <1>8, <1>9, <1>10 DEF Untouched

\* A handler that returns: what it pushed must speak for the item.
LEMMA FinishKeeps ==
    ASSUME NodeAssumption, IndInv, phase = "item", Aside,
           NEW rows \in Seq(Row), NEW events \in SUBSET Event,
           Finish(rows, events),
           events \cap {"bad", "capped"} = {},
           "odd" \in events => \/ \E k \in DOMAIN rows : rows[k].is = "error"
                               \/ H.odd = "nothing" \/ H.strict
                               \/ job[item].all /\ H.kind = "list",
           H.kind = "write" => \/ rows # <<>>
                               \/ "odd" \in events /\ H.odd = "nothing"
    PROVE  IndInv'
PROOF
<1>1. TypeOK /\ item \in ItemSet /\ NextItem
  BY DEF IndInv, TypeOK, Finish
<1>2. /\ out' = [out EXCEPT ![item] = @ \o rows]
      /\ met' = [met EXCEPT ![item] = @ \cup events]
  BY DEF Finish
<1>3. out[item] \in Seq(Row)
  BY <1>1 DEF TypeOK
<1>4. job' = job
  BY DEF Aside
<1>5. ASSUME NEW j \in ItemSet, j = item PROVE Settled(j)'
  <2>1. /\ out'[item] = out[item] \o rows
        /\ met'[item] = met[item] \cup events
        /\ met[item] \cap {"bad", "capped", "odd"} = {}
    BY <1>2, OthersKeep
  <2>2. met'[item] \cap {"bad", "capped"} = {}
    BY <2>1
  <2>3. "odd" \in met'[item] => "odd" \in events
    BY <2>1
  <2>4. (\E k \in DOMAIN rows : rows[k].is = "error")
            => \E k \in DOMAIN out'[item] : out'[item][k].is = "error"
    <3> SUFFICES ASSUME NEW k \in DOMAIN rows, rows[k].is = "error"
                 PROVE  \E n \in DOMAIN out'[item] : out'[item][n].is = "error"
      OBVIOUS
    <3>1. /\ Len(out[item]) + k \in DOMAIN (out[item] \o rows)
          /\ (out[item] \o rows)[Len(out[item]) + k] = rows[k]
      BY <1>3, SequenceAppend
    <3> QED BY <2>1, <3>1
  <2>5. rows # <<>> => out'[item] # <<>>
    <3> SUFFICES ASSUME rows # <<>> PROVE out[item] \o rows # <<>>
      BY <2>1
    <3>1. Len(rows) \in Nat \ {0} /\ Len(out[item]) \in Nat
      BY <1>3, EmptySeq
    <3>2. Len(out[item] \o rows) = Len(out[item]) + Len(rows)
      BY <1>3, SequenceAppend
    <3> QED BY <3>1, <3>2, EmptySeq
  <2>6. "odd" \in events => "odd" \in met'[item]
    BY <2>1
  <2>7. applied'[item] > 0 => H.kind = "write"
    BY AsideKeeps
  <2> QED BY <2>2, <2>3, <2>4, <2>5, <2>6, <2>7, <1>4, <1>5 DEF Settled, HasError, H
<1>6. TypeOK'
  BY <1>1, <1>2, OthersKeep, AsideKeeps, NextItemTyped DEF TypeOK, Aside
<1>7. \A j \in ItemSet : j < item' => Settled(j)'
  <2>1. \A j \in ItemSet : j <= item => j < item \/ j = item
    BY <1>1 DEF ItemSet
  <2> QED BY <2>1, <1>1, <1>2, <1>5, OthersKeep, NextItemTyped
<1>8. \A j \in ItemSet : j >= item' => Untouched(j)'
  BY <1>1, <1>2, OthersKeep, NextItemTyped
<1> QED BY <1>1, <1>6, <1>7, <1>8, AsideKeeps, NextItemTyped DEF IndInv

\* A handler that throws: the catch block's row, or the end of everything.
LEMMA ThrowKeeps ==
    ASSUME NodeAssumption, IndInv, phase = "item", Aside,
           NEW events \in SUBSET Event, Throw(events)
    PROVE  IndInv'
PROOF
<1>1. TypeOK /\ item \in ItemSet
  BY DEF IndInv, TypeOK
<1>2. met' = [met EXCEPT ![item] = @ \cup events]
  BY DEF Throw
<1>3. /\ Mark("error") \in Seq(Row) /\ Len(Mark("error")) = 1
      /\ 1 \in DOMAIN Mark("error") /\ Mark("error")[1].is = "error"
  BY MarkTyped
<1>4. out[item] \in Seq(Row)
  BY <1>1 DEF TypeOK
<1>5. job' = job
  BY DEF Aside
<1>6. CASE goOn
  <2>1. out' = [out EXCEPT ![item] = @ \o Mark("error")] /\ NextItem
    BY <1>6 DEF Throw
  <2>2. ASSUME NEW j \in ItemSet, j = item PROVE HasError(j)' /\ out'[j] # <<>>
    <3>1. /\ Len(out[item]) + 1 \in DOMAIN (out[item] \o Mark("error"))
          /\ (out[item] \o Mark("error"))[Len(out[item]) + 1] = Mark("error")[1]
      BY <1>3, <1>4, SequenceAppend
    <3>2. out'[item] = out[item] \o Mark("error")
      BY <1>2, <1>3, <2>1, OthersKeep
    <3>3. DOMAIN <<>> = {}
      OBVIOUS
    <3>4. \E k \in DOMAIN out'[item] : out'[item][k].is = "error"
      BY <1>3, <3>1, <3>2
    <3>5. out'[item] # <<>>
      BY <3>3, <3>4
    <3> QED BY <2>2, <3>4, <3>5 DEF HasError
  <2>3. \A j \in ItemSet : j = item => Settled(j)'
    BY <2>2 DEF Settled
  <2>4. TypeOK'
    BY <1>1, <1>2, <1>3, <2>1, OthersKeep, AsideKeeps, NextItemTyped DEF TypeOK, Aside
  <2>5. \A j \in ItemSet : j < item' => Settled(j)'
    <3>1. \A j \in ItemSet : j <= item => j < item \/ j = item
      BY <1>1 DEF ItemSet
    <3> QED BY <3>1, <1>1, <1>2, <1>3, <2>1, <2>3, OthersKeep, NextItemTyped
  <2>6. \A j \in ItemSet : j >= item' => Untouched(j)'
    BY <1>1, <1>2, <1>3, <2>1, OthersKeep, NextItemTyped
  <2> QED BY <1>1, <2>1, <2>4, <2>5, <2>6, AsideKeeps, NextItemTyped DEF IndInv
<1>7. CASE ~goOn
  <2>1. /\ out' = [j \in ItemSet |-> <<>>] /\ phase' = "failed"
        /\ UNCHANGED <<item, scan>>
    BY <1>7 DEF Throw
  <2>2. out' \in [ItemSet -> Seq(Row)]
    <3>1. <<>> \in Seq(Row)
      OBVIOUS
    <3> QED BY <2>1, <3>1
  <2>3. met' \in [ItemSet -> SUBSET Event]
    BY <1>1, <1>2 DEF TypeOK
  <2>4. TypeOK'
    BY <1>1, <2>1, <2>2, <2>3, AsideKeeps DEF TypeOK, Aside
  <2> QED BY <2>1, <2>4, AsideKeeps DEF IndInv
<1> QED BY <1>1, <1>6, <1>7 DEF TypeOK

\* A loop that asks again.
LEMMA ContinueKeeps ==
    ASSUME NodeAssumption, IndInv, phase = "item", Aside, applied' = applied,
           NEW newScan \in Scan, NEW rows \in Seq(Row),
           NEW events \in SUBSET {"partial"},
           Continue(newScan, rows, events)
    PROVE  IndInv'
PROOF
<1>1. TypeOK /\ item \in ItemSet /\ item \in Nat
  BY DEF IndInv, TypeOK, ItemSet
<1>2. /\ out' = [out EXCEPT ![item] = @ \o rows]
      /\ met' = [met EXCEPT ![item] = @ \cup events]
      /\ scan' = newScan /\ phase' = phase /\ item' = item
  BY DEF Continue
<1>3. events \in SUBSET Event
  BY DEF Event
<1>4. TypeOK'
  BY <1>1, <1>2, <1>3, OthersKeep, AsideKeeps DEF TypeOK, Aside
<1>5. \A j \in ItemSet : j = item => Untouched(j)'
  <2>0. item >= item
    BY <1>1
  <2>1. applied[item] = 0
    BY <2>0, <1>1 DEF IndInv, Untouched
  <2>2. met'[item] \cap {"bad", "capped", "odd"} = {}
    <3>1. /\ met'[item] = met[item] \cup events
          /\ met[item] \cap {"bad", "capped", "odd"} = {}
      BY <1>2, <1>3, OthersKeep
    <3>2. events \cap {"bad", "capped", "odd"} = {}
      OBVIOUS
    <3> QED BY <3>1, <3>2
  <2> QED BY <1>1, <2>1, <2>2 DEF Untouched
<1>6. \A j \in ItemSet : j >= item' => Untouched(j)'
  <2>1. \A j \in ItemSet : j >= item => j > item \/ j = item
    BY <1>1 DEF ItemSet
  <2> QED BY <1>2, <1>3, <1>5, <2>1, OthersKeep
<1>7. \A j \in ItemSet : j < item' => Settled(j)'
  BY <1>2, <1>3, OthersKeep
<1> QED BY <1>2, <1>4, <1>6, <1>7, AsideKeeps DEF IndInv
-----------------------------------------------------------------------------
(* Each action keeps the invariant.                                         *)

LEMMA InitKeeps ==
    ASSUME NodeAssumption, Init
    PROVE  IndInv
PROOF
<1>1. NewScan \in Scan /\ <<>> \in Seq(Row)
  <2>1. <<>> \in Seq(Row)
    OBVIOUS
  <2> QED BY <2>1 DEF NewScan, Scan
<1>2. table \in Seq(Int)
  <2>1. PICK n \in Lengths : table = [k \in 1..n |-> k]
    BY DEF Init
  <2>2. n \in Nat /\ \A k \in 1..n : k \in Int
    BY DEF NodeAssumption
  <2>3. table \in [1..n -> Int]
    BY <2>1, <2>2
  <2> QED BY <2>2, <2>3, SeqDef
<1>3. TypeOK
  BY <1>1, <1>2 DEF Init, TypeOK, NodeAssumption, ItemSet
<1>4. \A j \in ItemSet : Untouched(j)
  BY DEF Init, Untouched
<1> QED BY <1>3, <1>4 DEF IndInv, Init, Untouched, ItemSet

\* The answers that go through Proper or Improper leave the rest aside.
LEMMA ProperAside ==
    ASSUME TypeOK, Proper
    PROVE  Aside /\ applied' = applied
PROOF
  BY DEF Proper, Aside, TypeOK

LEMMA ImproperAside ==
    ASSUME NodeAssumption, TypeOK, Improper,
           UNCHANGED applied \/ PerhapsApplied
    PROVE  Aside
PROOF
<1>1. faults' \in 0..MaxFaults
  BY DEF Improper, TypeOK, NodeAssumption
<1> QED BY <1>1 DEF Improper, Aside, PerhapsApplied

\* Only lists are scanned, so what a page loop does never touches a write.
LEMMA ScanningLists ==
    ASSUME TypeOK, phase = "item", Scanning
    PROVE  /\ job[item].all /\ H.kind = "list" /\ H.kind # "write"
           /\ PerhapsApplied => applied' = applied
PROOF
  BY HandlerHere DEF Scanning, H, PerhapsApplied

LEMMA ScanTyped ==
    ASSUME NodeAssumption, TypeOK, NEW page \in Seq(Int)
    PROVE  /\ scan.got \in Seq(Row) /\ scan.got \o Rows(page) \in Seq(Row)
           /\ scan.offset \in Nat /\ scan.pages \in Nat /\ scan.fetched \in Nat
           /\ scan.minimal \in BOOLEAN
           /\ scan.offset + PageSize \in Nat /\ scan.pages + 1 \in Nat
           /\ scan.fetched + Len(page) \in Nat
PROOF
<1>1. scan \in Scan
  BY DEF TypeOK
<1>2. /\ scan.got \in Seq(Row) /\ scan.offset \in Nat /\ scan.pages \in Nat
      /\ scan.fetched \in Nat /\ scan.minimal \in BOOLEAN
  BY <1>1 DEF Scan
<1>3. scan.got \o Rows(page) \in Seq(Row)
  BY <1>2, RowsTyped, SequenceAppend
<1>4. Len(page) \in Nat /\ PageSize \in Nat
  BY DEF NodeAssumption
<1> QED BY <1>2, <1>3, <1>4

LEMMA PlainPageKeeps ==
    ASSUME NodeAssumption, IndInv, phase = "item", Proper, Scanning,
           NEW page \in Seq(Int), PlainPage(page)
    PROVE  IndInv'
PROOF
<1>1. TypeOK /\ Aside /\ applied' = applied
  BY ProperAside DEF IndInv
<1>2. H.kind # "write"
  BY <1>1, ScanningLists
<1> DEFINE got  == scan.got \o Rows(page)
           next == [scan EXCEPT !.offset = @ + PageSize, !.pages = @ + 1,
                                !.fetched = @ + Len(page), !.got = got]
<1>3. got \in Seq(Row) /\ next \in Scan
  BY <1>1, ScanTyped DEF TypeOK, Scan
<1>4. CASE Continue(next, <<>>, {})
  <2>1. <<>> \in Seq(Row) /\ {} \in SUBSET {"partial"}
    OBVIOUS
  <2> QED BY <2>1, <1>1, <1>3, <1>4, ContinueKeeps
<1>5. CASE Finish(got, {})
  <2>1. {} \in SUBSET Event
    OBVIOUS
  <2> QED BY <2>1, <1>1, <1>2, <1>3, <1>5, FinishKeeps
<1> QED BY <1>4, <1>5 DEF PlainPage

LEMMA PatientPageKeeps ==
    ASSUME NodeAssumption, IndInv, phase = "item", Proper, Scanning,
           NEW page \in Seq(Int), PatientPage(page)
    PROVE  IndInv'
PROOF
<1>1. TypeOK /\ Aside /\ applied' = applied
  BY ProperAside DEF IndInv
<1>2. H.kind # "write"
  BY <1>1, ScanningLists
<1> DEFINE got  == scan.got \o Rows(page)
           next == [scan EXCEPT !.offset = @ + PageSize, !.pages = @ + 1,
                                !.fetched = @ + Len(page), !.got = got,
                                !.minimal = FALSE]
<1>3. got \in Seq(Row) /\ next \in Scan
  BY <1>1, ScanTyped DEF TypeOK, Scan
<1>4. CASE Continue(next, <<>>, {})
  <2>1. <<>> \in Seq(Row) /\ {} \in SUBSET {"partial"}
    OBVIOUS
  <2> QED BY <2>1, <1>1, <1>3, <1>4, ContinueKeeps
<1>5. CASE Finish(got, {})
  <2>1. {} \in SUBSET Event
    OBVIOUS
  <2> QED BY <2>1, <1>1, <1>2, <1>3, <1>5, FinishKeeps
<1>6. CASE Throw({"capped"})
  <2>1. {"capped"} \in SUBSET Event
    BY DEF Event
  <2> QED BY <2>1, <1>1, <1>6, ThrowKeeps
<1> QED BY <1>4, <1>5, <1>6 DEF PatientPage

LEMMA CountedPageKeeps ==
    ASSUME NodeAssumption, IndInv, phase = "item", Aside, applied' = applied,
           Scanning, NEW page \in Seq(Int), NEW total,
           NEW events \in SUBSET {"partial"}, CountedPage(page, total, events)
    PROVE  IndInv'
PROOF
<1>1. TypeOK /\ events \in SUBSET Event
  BY DEF IndInv, Event
<1>2. H.kind # "write"
  BY <1>1, ScanningLists
<1>3. Rows(page) \in Seq(Row)
  BY RowsTyped
<1> DEFINE next == [scan EXCEPT !.offset = Further(@),
                                !.fetched = scan.fetched + Len(page)]
<1>4. next \in Scan
  <2>1. Further(scan.offset) \in Nat
    BY <1>1, ScanTyped DEF Further
  <2> QED BY <2>1, <1>1, ScanTyped DEF TypeOK, Scan
<1>5. CASE Continue(next, Rows(page), events)
  BY <1>3, <1>4, <1>5, ContinueKeeps
<1>6. CASE Finish(Rows(page), events)
  BY <1>1, <1>2, <1>3, <1>6, FinishKeeps
<1> QED BY <1>5, <1>6 DEF CountedPage

\* A lookup or a list that is answered at once.
LEMMA AnsweredKeeps ==
    ASSUME NodeAssumption, IndInv, phase = "item", Aside, H.kind # "write",
           NEW rows \in Seq(Row), NEW events \in SUBSET {"partial"},
           Finish(rows, events)
    PROVE  IndInv'
PROOF
<1>1. events \in SUBSET Event
  BY DEF Event
<1> QED BY <1>1, FinishKeeps

LEMMA AnswerKeeps ==
    ASSUME NodeAssumption, IndInv, Answer
    PROVE  IndInv'
PROOF
<1>1. TypeOK /\ <<>> \in Seq(Row) /\ {} \in SUBSET {"partial"}
  BY DEF IndInv
<1>2. {"bad"} \in SUBSET Event
  BY DEF Event
<1>3. CASE TokenGranted
  <2>1. TypeOK'
    BY <1>1, <1>3 DEF TokenGranted, TypeOK, IndInv, ItemSet, NodeAssumption
  <2>2. /\ phase = "token" /\ phase' = "item"
        /\ UNCHANGED <<job, item, out, applied, met>>
    BY <1>3 DEF TokenGranted
  <2>3. \A j \in ItemSet : j >= item' => Untouched(j)'
    BY <2>2 DEF IndInv, Untouched
  <2>4. \A j \in ItemSet : j < item' => Settled(j)'
    <3>1. \A j \in ItemSet : j < item => Settled(j)
      BY <2>2 DEF IndInv
    <3> QED BY <2>2, <3>1 DEF Settled, HasError
  <2>5. \A j \in ItemSet : applied'[j] <= 1
    BY <2>2 DEF IndInv
  <2> QED BY <2>1, <2>2, <2>3, <2>4, <2>5 DEF IndInv
<1>4. CASE RejectParameters
  BY <1>1, <1>2, <1>4, ProperAside, ThrowKeeps DEF RejectParameters
<1>5. CASE AnswerList
  <2>1. Rows(PageAt(0)) \in Seq(Row)
    BY <1>1, PageTyped, RowsTyped
  <2> QED BY <2>1, <1>1, <1>5, ProperAside, AnsweredKeeps DEF AnswerList, Running
<1>6. CASE AnswerOne
  <2>1. <<1>> \in Seq(Int)
    OBVIOUS
  <2>2. Rows(<<1>>) \in Seq(Row)
    BY <2>1, RowsTyped
  <2>3. (IF H.none = "nothing" THEN <<>> ELSE Mark(H.none)) \in Seq(Row)
    <3>1. H.none \in {"error", "note", "nothing"}
      BY <1>1, <1>6, HandlerHere DEF AnswerOne, Running, H, HandlerType
    <3> QED BY <3>1, <1>1, MarkTyped
  <2> QED BY <2>2, <2>3, <1>1, <1>6, ProperAside, AnsweredKeeps
          DEF AnswerOne, Running
<1>7. CASE AnswerWrite
  <2>1. Aside /\ phase = "item"
    BY <1>1, <1>7 DEF AnswerWrite, Aside, Running, TypeOK
  <2>2. Mark("result") \in Seq(Row) /\ Mark("result") # <<>>
    BY MarkTyped
  <2>3. Finish(Mark("result"), {})
    BY <1>7 DEF AnswerWrite
  <2> QED BY <2>1, <2>2, <2>3, FinishKeeps
<1>8. CASE AnswerPage
  <2>1. phase = "item" /\ Proper /\ Scanning
    BY <1>8 DEF AnswerPage, Running
  <2>2. PageAt(scan.offset) \in Seq(Int)
    <3>1. scan.offset \in Nat
      BY <1>1 DEF TypeOK, Scan
    <3> QED BY <3>1, <1>1, PageTyped
  <2>3. CASE PlainPage(PageAt(scan.offset))
    BY <2>1, <2>2, <2>3, PlainPageKeeps
  <2>4. CASE PatientPage(PageAt(scan.offset))
    BY <2>1, <2>2, <2>4, PatientPageKeeps
  <2>5. CASE CountedPage(PageAt(scan.offset), Len(table), {})
    BY <1>1, <2>1, <2>2, <2>5, ProperAside, CountedPageKeeps
  <2> QED BY <1>8, <2>3, <2>4, <2>5 DEF AnswerPage
<1>9. CASE AnswerMinimal
  <2>1. phase = "item" /\ Proper /\ Scanning
    BY <1>9 DEF AnswerMinimal, Running
  <2>2. PageAt(scan.offset) \in Seq(Int)
    <3>1. scan.offset \in Nat
      BY <1>1 DEF TypeOK, Scan
    <3> QED BY <3>1, <1>1, PageTyped
  <2>3. CASE Throw({"bad"})
    BY <1>1, <1>2, <2>1, <2>3, ProperAside, ThrowKeeps
  <2>4. CASE PatientPage(PageAt(scan.offset))
    BY <2>1, <2>2, <2>4, PatientPageKeeps
  <2> QED BY <1>9, <2>3, <2>4 DEF AnswerMinimal
<1> QED BY <1>3, <1>4, <1>5, <1>6, <1>7, <1>8, <1>9 DEF Answer

LEMMA TroubleKeeps ==
    ASSUME NodeAssumption, IndInv, Trouble
    PROVE  IndInv'
PROOF
<1>1. TypeOK /\ <<>> \in Seq(Row) /\ {} \in SUBSET {"partial"}
  BY DEF IndInv
<1>2. {"bad"} \in SUBSET Event /\ {"odd"} \in SUBSET Event
  BY DEF Event
<1>3. CASE TokenRefused
  <2>1. tries \in 0..2
    BY <1>1, <1>3 DEF TypeOK, TokenRefused
  <2>2. TypeOK'
    BY <2>1, <1>1, <1>3 DEF TokenRefused, TypeOK
  <2> QED BY <2>2, <1>3 DEF TokenRefused, IndInv, Untouched, Settled, HasError
<1>4. CASE TokenMissing
  <2>1. TypeOK'
    BY <1>1, <1>4 DEF TokenMissing, TypeOK
  <2> QED BY <2>1, <1>4 DEF TokenMissing, IndInv
<1>5. CASE AnswerErrors
  <2>1. phase = "item" /\ Aside /\ applied' = applied
    BY <1>1, <1>5, ImproperAside DEF AnswerErrors, Running
  <2>2. CASE Continue([scan EXCEPT !.minimal = TRUE], <<>>, {})
    <3>1. [scan EXCEPT !.minimal = TRUE] \in Scan
      BY <1>1 DEF TypeOK, Scan
    <3> QED BY <3>1, <1>1, <2>1, <2>2, ContinueKeeps
  <2>3. CASE Throw({"bad"})
    BY <1>2, <2>1, <2>3, ThrowKeeps
  <2> QED BY <1>5, <2>2, <2>3 DEF AnswerErrors
<1>6. CASE AnswerPartial
  <2>1. phase = "item" /\ Aside /\ applied' = applied /\ H.kind # "write"
    BY <1>1, <1>6, ImproperAside DEF AnswerPartial, Running
  <2>2. CASE Throw({"bad"})
    BY <1>2, <2>1, <2>2, ThrowKeeps
  <2>3. CASE Finish(scan.got, {"partial"})
    <3>1. scan.got \in Seq(Row)
      BY <1>1 DEF TypeOK, Scan
    <3> QED BY <3>1, <2>1, <2>3, AnsweredKeeps
  <2>4. CASE Scanning /\ \E total \in {0, Len(table)} :
                             CountedPage(<<>>, total, {"partial"})
    <3>1. <<>> \in Seq(Int)
      OBVIOUS
    <3> QED BY <3>1, <2>1, <2>4, CountedPageKeeps
  <2>5. CASE Finish(IF H.null = "row" THEN Mark("note")
                    ELSE IF H.kind = "one" /\ H.none # "nothing"
                    THEN Mark(H.none) ELSE <<>>, {"partial"})
    <3>1. H.none \in {"error", "note", "nothing"}
      BY <1>1, <2>1, HandlerHere DEF H, HandlerType
    <3>2. (IF H.null = "row" THEN Mark("note")
           ELSE IF H.kind = "one" /\ H.none # "nothing"
           THEN Mark(H.none) ELSE <<>>) \in Seq(Row)
      BY <3>1, <1>1, MarkTyped
    <3> QED BY <3>2, <2>1, <2>5, AnsweredKeeps
  <2> QED BY <1>6, <2>2, <2>3, <2>4, <2>5 DEF AnswerPartial
<1>7. CASE AnswerOdd
  <2>1. phase = "item" /\ Aside
    BY <1>1, <1>7, ImproperAside DEF AnswerOdd, Running
  <2>2. CASE Throw({"bad"})
    BY <1>2, <2>1, <2>2, ThrowKeeps
  <2>3. CASE /\ ~(scan.minimal \/ (H.odd = "throw" /\ ~(Scanning /\ H.pages = "patient")))
             /\ Finish(IF H.odd = "row" /\ ~Scanning THEN Mark("error")
                       ELSE scan.got, {"odd"})
    <3> DEFINE rows == IF H.odd = "row" /\ ~Scanning THEN Mark("error")
                       ELSE scan.got
    <3>1. rows \in Seq(Row)
      <4>1. scan.got \in Seq(Row)
        BY <1>1 DEF TypeOK, Scan
      <4> QED BY <4>1, MarkTyped
    <3>2. H.odd \in {"row", "throw", "nothing"}
      BY <1>1, <2>1, HandlerHere DEF H, HandlerType
    <3>3. \/ \E k \in DOMAIN rows : rows[k].is = "error"
          \/ H.odd = "nothing"
          \/ job[item].all /\ H.kind = "list"
      <4>1. CASE Scanning
        BY <4>1, <1>1, <2>1, ScanningLists
      <4>2. CASE ~Scanning
        BY <4>2, <2>3, <3>2, MarkTyped
      <4> QED BY <4>1, <4>2
    <3>4. H.kind = "write" => rows # <<>> \/ H.odd = "nothing"
      <4>1. H.kind = "write" => ~Scanning
        BY <1>1, <2>1, ScanningLists
      <4> QED BY <4>1, <2>3, <3>2, MarkTyped
    <3> QED BY <3>1, <3>3, <3>4, <1>2, <2>1, <2>3, FinishKeeps
  <2>4. CASE H.strict /\ Finish(Mark("note"), {"odd"})
    <3>1. Mark("note") \in Seq(Row) /\ Mark("note") # <<>>
      BY MarkTyped
    <3> QED BY <3>1, <1>2, <2>1, <2>4, FinishKeeps
  <2> QED BY <1>7, <2>2, <2>3, <2>4 DEF AnswerOdd
<1>8. CASE AnswerFails
  <2>1. phase = "item" /\ Aside
    BY <1>1, <1>8, ImproperAside DEF AnswerFails, Running
  <2>2. CASE Scanning /\ Continue([scan EXCEPT !.minimal = FALSE], <<>>, {})
    <3>1. [scan EXCEPT !.minimal = FALSE] \in Scan
      BY <1>1 DEF TypeOK, Scan
    <3>2. applied' = applied
      BY <1>1, <1>8, <2>1, <2>2, ScanningLists DEF AnswerFails
    <3> QED BY <3>1, <3>2, <1>1, <2>1, <2>2, ContinueKeeps
  <2>3. CASE Throw({"bad"})
    BY <1>2, <2>1, <2>3, ThrowKeeps
  <2> QED BY <1>8, <2>2, <2>3 DEF AnswerFails
<1> QED BY <1>3, <1>4, <1>5, <1>6, <1>7, <1>8 DEF Trouble

\* Other users of the storefront leave everything settled as it was.
LEMMA ChangedKeeps ==
    ASSUME NodeAssumption, IndInv, NEW event \in {"inserted", "removed"},
           Changed(event), table' \in Seq(Int)
    PROVE  IndInv'
PROOF
<1>1. TypeOK /\ item \in ItemSet /\ phase = "item" /\ item \in Nat
  BY DEF IndInv, TypeOK, Changed, ItemSet
<1>2. /\ met' = [met EXCEPT ![item] = @ \cup {event}]
      /\ UNCHANGED <<job, goOn, phase, tries, item, scan, out, applied, faults>>
  BY DEF Changed
<1>3. met' \in [ItemSet -> SUBSET Event] /\ changes' \in 0..MaxChanges
  <2>1. event \in Event
    BY DEF Event
  <2>2. changes' \in 0..MaxChanges
    BY <1>1 DEF Changed, TypeOK, NodeAssumption
  <2> QED BY <2>1, <2>2, <1>1, <1>2 DEF TypeOK
<1>4. TypeOK'
  BY <1>1, <1>2, <1>3 DEF TypeOK
<1>5. \A j \in ItemSet : j # item => met'[j] = met[j]
  BY <1>1, <1>2 DEF TypeOK
<1>6. met'[item] \cap {"bad", "capped", "odd"}
          = met[item] \cap {"bad", "capped", "odd"}
  BY <1>1, <1>2 DEF TypeOK
<1>7. ASSUME NEW j \in ItemSet, j < item PROVE Settled(j)'
  <2>1. Settled(j) /\ j # item
    BY <1>1, <1>7 DEF IndInv, ItemSet
  <2> QED BY <2>1, <1>2, <1>5 DEF Settled, HasError
<1>8. ASSUME NEW j \in ItemSet, j >= item PROVE Untouched(j)'
  <2>1. Untouched(j)
    BY <1>1, <1>8 DEF IndInv
  <2> QED BY <2>1, <1>2, <1>5, <1>6 DEF Untouched
<1> QED BY <1>1, <1>2, <1>4, <1>7, <1>8 DEF IndInv

LEMMA StepKeeps ==
    ASSUME NodeAssumption, IndInv, [Next]_vars
    PROVE  IndInv'
PROOF
<1>1. CASE Answer
  BY <1>1, AnswerKeeps
<1>2. CASE Trouble
  BY <1>2, TroubleKeeps
<1>3. table \in Seq(Int) /\ changes \in Int
  BY DEF IndInv, TypeOK
<1>4. CASE RowAdded
  <2>1. table' \in Seq(Int)
    <3>1. <<-(changes + 1)>> \in Seq(Int)
      BY <1>3
    <3>2. <<-(changes + 1)>> \o table \in Seq(Int)
      BY <3>1, <1>3
    <3>3. Append(table, -(changes + 1)) \in Seq(Int)
      BY <1>3
    <3> QED BY <3>2, <3>3, <1>4 DEF RowAdded
  <2> QED BY <2>1, <1>4, ChangedKeeps DEF RowAdded
<1>5. CASE RowRemoved
  <2>1. table' \in Seq(Int)
    <3>1. PICK k \in DOMAIN table :
              table' = SubSeq(table, 1, k - 1) \o SubSeq(table, k + 1, Len(table))
      BY <1>5 DEF RowRemoved
    <3>2. Len(table) \in Nat /\ k \in 1..Len(table)
      BY <1>3
    <3>3. SubSeq(table, 1, k - 1) \in Seq(Int)
      <4>1. \A n \in 1..k - 1 : table[n] \in Int
        BY <1>3, <3>2
      <4> QED BY <4>1, <3>2, SubSeqProperties
    <3>4. SubSeq(table, k + 1, Len(table)) \in Seq(Int)
      <4>1. \A n \in k + 1..Len(table) : table[n] \in Int
        BY <1>3, <3>2
      <4> QED BY <4>1, <3>2, SubSeqProperties
    <3> QED BY <3>1, <3>3, <3>4
  <2> QED BY <2>1, <1>5, ChangedKeeps DEF RowRemoved
<1>6. CASE UNCHANGED vars
  BY <1>6 DEF vars, IndInv, TypeOK, Settled, Untouched, HasError
<1> QED BY <1>1, <1>2, <1>4, <1>5, <1>6 DEF Next, Returned

-----------------------------------------------------------------------------
(* Theorems.                                                                *)

LEMMA Invariance ==
    ASSUME NodeAssumption
    PROVE  Spec => []IndInv
PROOF
<1>1. Init => IndInv
  BY InitKeeps
<1>2. IndInv /\ [Next]_vars => IndInv'
  BY StepKeeps
<1> QED BY <1>1, <1>2, PTL DEF Spec

\* Every value the node keeps while it runs its items has its type.
THEOREM TypeCorrect == Spec => []TypeOK
PROOF
<1>1. IndInv => TypeOK
  BY DEF IndInv
<1> QED BY <1>1, NodeAssumption, Invariance, PTL

\* However OPS answers, no request that changes it is ever sent twice.
THEOREM WriteOnce == Spec => []WrittenAtMostOnce
PROOF
<1>1. IndInv => WrittenAtMostOnce
  BY DEF IndInv, WrittenAtMostOnce
<1> QED BY <1>1, NodeAssumption, Invariance, PTL

\* An execution that returns has reported each item's failure.
THEOREM FailuresReported == Spec => []FailureReported
PROOF
<1>1. IndInv => FailureReported
  <2> SUFFICES ASSUME IndInv, phase = "done", NEW j \in ItemSet PROVE Settled(j)
    BY DEF FailureReported, Settled
  <2>1. j < item
    BY NodeAssumption DEF IndInv, ItemSet, NodeAssumption
  <2> QED BY <2>1 DEF IndInv
<1> QED BY <1>1, NodeAssumption, Invariance, PTL

\* An execution that returns has a row for each change OPS applied.
THEOREM WritesReported == Spec => []AppliedWriteReported
PROOF
<1>1. IndInv => AppliedWriteReported
  <2> SUFFICES ASSUME IndInv, phase = "done", NEW j \in ItemSet PROVE Settled(j)
    BY DEF AppliedWriteReported, Settled
  <2>1. j < item
    BY NodeAssumption DEF IndInv, ItemSet, NodeAssumption
  <2> QED BY <2>1 DEF IndInv
<1> QED BY <1>1, NodeAssumption, Invariance, PTL

-----------------------------------------------------------------------------
(* What a page adds to the rows of a page loop.                             *)

\* A page has the records after its offset, as many as fit and as there are.
LEMMA PageRecords ==
    ASSUME NodeAssumption, TypeOK, NEW offset \in Nat, NEW page, page = PageAt(offset)
    PROVE  /\ page \in Seq(Int) /\ Len(page) \in Nat /\ Len(table) \in Nat
           /\ offset + PageSize <= Len(table) => Len(page) = PageSize
           /\ offset <= Len(table) /\ Len(table) < offset + PageSize
                => Len(page) = Len(table) - offset
           /\ offset >= Len(table) => Len(page) = 0
           /\ \A k \in 1..Len(page) : /\ offset + k \in 1..Len(table)
                                      /\ page[k] = table[offset + k]
PROOF
<1>1. PageSize \in Nat \ {0} /\ table \in Seq(Int) /\ Len(table) \in Nat
  BY DEF NodeAssumption, TypeOK
<1> DEFINE last == IF offset + PageSize < Len(table) THEN offset + PageSize
                                                     ELSE Len(table)
<1>2. last \in Int /\ \A k \in offset + 1 .. last : table[k] \in Int
  BY <1>1
<1>3. page = SubSeq(table, offset + 1, last)
  BY DEF PageAt
<1>4. /\ page \in Seq(Int)
      /\ Len(page) = IF offset + 1 <= last THEN last - (offset + 1) + 1 ELSE 0
      /\ \A k \in 1 .. last - (offset + 1) + 1 : page[k] = table[offset + 1 + k - 1]
  BY <1>2, <1>3, SubSeqProperties
<1>5. \A k \in 1..Len(page) : offset + k \in 1..Len(table) /\ page[k] = table[offset + k]
  BY <1>1, <1>4
<1> QED BY <1>1, <1>4, <1>5

\* Rows are made record by record.
LEMMA RowsRecords ==
    ASSUME NEW s \in Seq(Int), NEW rows, rows = Rows(s)
    PROVE  /\ rows \in Seq(Row) /\ Len(rows) = Len(s)
           /\ \A k \in 1..Len(s) : rows[k] = [is |-> "row", id |-> s[k]]
PROOF
<1>1. Len(s) \in Nat /\ DOMAIN s = 1..Len(s)
  OBVIOUS
<1>2. rows \in Seq(Row)
  BY RowsTyped
<1>3. rows = [k \in 1..Len(s) |-> [is |-> "row", id |-> s[k]]]
  BY <1>1 DEF Rows
<1>4. DOMAIN rows = 1..Len(s)
  BY <1>3
<1>5. Len(rows) = Len(s)
  BY <1>1, <1>2, <1>4
<1> QED BY <1>2, <1>3, <1>5

\* The rows of a loop and those of its next page, one after the other.
ReadsOn(rows, offset, page, more) ==
    /\ more \in Seq(Row) /\ Len(more) = Len(rows) + Len(page) /\ Len(rows) \in Nat
    /\ \A k \in 1..Len(rows) : more[k] = rows[k]
    /\ \A k \in 1..Len(page) : more[Len(rows) + k] = [is |-> "row", id |-> table[offset + k]]
    /\ \A k \in 1..Len(page) : /\ more[Len(rows) + k].is = "row"
                                /\ more[Len(rows) + k].id = table[offset + k]

LEMMA ReadOn ==
    ASSUME NodeAssumption, TypeOK, NEW rows \in Seq(Row), NEW offset \in Nat,
           NEW page, page = PageAt(offset), NEW more, more = rows \o Rows(page)
    PROVE  ReadsOn(rows, offset, page, more)
PROOF
<1>1. page \in Seq(Int) /\ Len(page) \in Nat /\ Len(rows) \in Nat
  BY PageRecords
<1>2. PICK new : new = Rows(page)
  OBVIOUS
<1>3. new \in Seq(Row) /\ Len(new) = Len(page)
  BY <1>1, <1>2, RowsRecords
<1>4. \A k \in 1..Len(page) : new[k] = [is |-> "row", id |-> page[k]]
  BY <1>1, <1>2, RowsRecords
<1>5. \A k \in 1..Len(page) : page[k] = table[offset + k]
  BY PageRecords
<1>6. more \in Seq(Row) /\ Len(more) = Len(rows) + Len(new)
  BY <1>2, <1>3, SequenceAppend
<1>7. \A k \in 1..Len(rows) : more[k] = rows[k]
  BY <1>1, <1>2, <1>3, SequenceAppend
<1>8. \A k \in 1..Len(new) : more[Len(rows) + k] = new[k]
  BY <1>1, <1>2, <1>3, SequenceAppend
<1>9. \A k \in 1..Len(page) : more[Len(rows) + k] = [is |-> "row", id |-> table[offset + k]]
  BY <1>3, <1>4, <1>5, <1>8
<1>10. \A k \in 1..Len(page) : /\ more[Len(rows) + k].is = "row"
                                /\ more[Len(rows) + k].id = table[offset + k]
  <2> TAKE k \in 1..Len(page)
  <2> DEFINE r == more[Len(rows) + k]
  <2>1. r = [is |-> "row", id |-> table[offset + k]]
    BY <1>9
  <2> HIDE DEF r
  <2>2. r.is = "row" /\ r.id = table[offset + k]
    BY <2>1
  <2> QED BY <2>2 DEF r
<1> QED BY <1>1, <1>3, <1>6, <1>7, <1>9, <1>10 DEF ReadsOn

\* Reading on keeps what the rows are.
LEMMA ReadsOnlyRecords ==
    ASSUME NodeAssumption, TypeOK, NEW rows \in Seq(Row), NEW offset \in Nat,
           OnlyRecords(rows),
           NEW page, page = PageAt(offset), NEW more, more = rows \o Rows(page)
    PROVE  OnlyRecords(more)
PROOF
<1>1. /\ more \in Seq(Row) /\ Len(more) = Len(rows) + Len(page) /\ Len(rows) \in Nat
      /\ \A k \in 1..Len(rows) : more[k] = rows[k]
      /\ \A k \in 1..Len(page) : more[Len(rows) + k].is = "row"
  <2>1. ReadsOn(rows, offset, page, more)
    BY ReadOn
  <2> QED BY <2>1 DEF ReadsOn
<1>2. Len(page) \in Nat
  BY PageRecords
<1>3. \A k \in 1..Len(page) : more[Len(rows) + k].is = "row"
  BY <1>1
<1>4. \A k \in 1..Len(rows) : rows[k].is = "row"
  BY DEF OnlyRecords
<1>5. ASSUME NEW k \in 1..Len(more) PROVE more[k].is = "row"
  <2>1. CASE k <= Len(rows)
    BY <1>1, <1>4, <2>1
  <2>2. CASE k > Len(rows)
    <3>1. k - Len(rows) \in 1..Len(page) /\ k = Len(rows) + (k - Len(rows))
      BY <1>1, <1>2, <2>2
    <3> QED BY <1>3, <3>1
  <2> QED BY <1>1, <2>1, <2>2
<1>6. DOMAIN more = 1..Len(more)
  BY <1>1
<1> QED BY <1>5, <1>6 DEF OnlyRecords

LEMMA ReadsWhole ==
    ASSUME NodeAssumption, TypeOK, NEW rows \in Seq(Row), NEW offset \in Nat,
           Whole(rows, offset),
           NEW page, page = PageAt(offset), NEW more, more = rows \o Rows(page)
    PROVE  Whole(more, offset + Len(page))
PROOF
<1>1. /\ more \in Seq(Row) /\ Len(more) = Len(rows) + Len(page) /\ Len(rows) \in Nat
      /\ \A k \in 1..Len(rows) : more[k] = rows[k]
      /\ \A k \in 1..Len(page) : more[Len(rows) + k] = [is |-> "row", id |-> table[offset + k]]
  <2>1. ReadsOn(rows, offset, page, more)
    BY ReadOn
  <2> QED BY <2>1 DEF ReadsOn
<1>2. Len(page) \in Nat
  BY PageRecords
<1>3. Len(rows) = offset /\ \A k \in 1..offset : rows[k] = [is |-> "row", id |-> table[k]]
  BY DEF Whole
<1>4. ASSUME NEW k \in 1..(offset + Len(page)) PROVE more[k] = [is |-> "row", id |-> table[k]]
  <2>1. CASE k <= offset
    BY <1>1, <1>3, <2>1
  <2>2. CASE k > offset
    <3>1. k - offset \in 1..Len(page) /\ k = offset + (k - offset)
      BY <1>2, <2>2
    <3> QED BY <1>1, <1>3, <3>1
  <2>3. k <= offset \/ k > offset
    BY <1>2
  <2> QED BY <2>1, <2>2, <2>3, Zenon
<1> QED BY <1>1, <1>3, <1>4 DEF Whole

LEMMA ReadsHideNone ==
    ASSUME NodeAssumption, TypeOK, NEW rows \in Seq(Row), NEW offset \in Nat,
           NoneHidden(rows, offset),
           NEW page, page = PageAt(offset), NEW more, more = rows \o Rows(page)
    PROVE  NoneHidden(more, offset + PageSize)
PROOF
<1>1. /\ more \in Seq(Row) /\ Len(more) = Len(rows) + Len(page) /\ Len(rows) \in Nat
      /\ \A k \in 1..Len(rows) : more[k] = rows[k]
      /\ \A k \in 1..Len(page) : more[Len(rows) + k].id = table[offset + k]
  <2>1. ReadsOn(rows, offset, page, more)
    BY ReadOn
  <2> QED BY <2>1 DEF ReadsOn
<1>2. /\ Len(page) \in Nat /\ Len(table) \in Nat /\ PageSize \in Nat /\ table \in Seq(Int)
      /\ offset + PageSize <= Len(table) => Len(page) = PageSize
      /\ offset <= Len(table) /\ Len(table) < offset + PageSize
                => Len(page) = Len(table) - offset
  BY PageRecords DEF NodeAssumption, TypeOK
<1>3. \A k \in 1..Len(page) : more[Len(rows) + k].id = table[offset + k]
  BY <1>1
<1>4. ASSUME NEW k \in 1..Len(table), k <= offset + PageSize, table[k] > 0
      PROVE  \E i \in 1..Len(more) : more[i].id = table[k]
  <2>1. CASE k <= offset
    <3>0. k \in DOMAIN table /\ DOMAIN rows = 1..Len(rows)
      BY <1>2
    <3>1. PICK i \in 1..Len(rows) : rows[i].id = table[k]
      BY <1>4, <2>1, <3>0 DEF NoneHidden
    <3>2. i \in 1..Len(more) /\ more[i].id = table[k]
      BY <1>1, <1>2, <3>1
    <3> QED BY <3>2
  <2>2. CASE k > offset
    <3>1. k - offset \in 1..Len(page) /\ k = offset + (k - offset)
      BY <1>2, <1>4, <2>2
    <3>2. Len(rows) + (k - offset) \in 1..Len(more)
      BY <1>1, <1>2, <3>1
    <3> QED BY <1>3, <3>1, <3>2
  <2> QED BY <1>2, <2>1, <2>2
<1>5. DOMAIN more = 1..Len(more) /\ DOMAIN table = 1..Len(table)
  BY <1>1, <1>2
<1> QED BY <1>4, <1>5 DEF NoneHidden

LEMMA ReadsNoneTwice ==
    ASSUME NodeAssumption, TypeOK, Distinct, NEW rows \in Seq(Row), NEW offset \in Nat,
           NoneTwice(rows, offset),
           NEW page, page = PageAt(offset), NEW more, more = rows \o Rows(page)
    PROVE  NoneTwice(more, offset + PageSize)
PROOF
<1>1. /\ more \in Seq(Row) /\ Len(more) = Len(rows) + Len(page) /\ Len(rows) \in Nat
      /\ \A k \in 1..Len(rows) : more[k] = rows[k]
      /\ \A k \in 1..Len(page) : more[Len(rows) + k].id = table[offset + k]
  <2>1. ReadsOn(rows, offset, page, more)
    BY ReadOn
  <2> QED BY <2>1 DEF ReadsOn
<1>2. /\ Len(page) \in Nat /\ Len(table) \in Nat /\ PageSize \in Nat /\ table \in Seq(Int)
      /\ \A k \in 1..Len(page) : offset + k \in 1..Len(table)
      /\ offset + PageSize <= Len(table) => Len(page) = PageSize
      /\ offset <= Len(table) /\ Len(table) < offset + PageSize
                => Len(page) = Len(table) - offset
      /\ offset >= Len(table) => Len(page) = 0
  BY PageRecords DEF NodeAssumption, TypeOK
<1>3. \A k \in 1..Len(page) : more[Len(rows) + k].id = table[offset + k]
  BY <1>1
<1>4. Len(page) <= PageSize
  BY <1>2
<1>5. DOMAIN more = 1..Len(more) /\ DOMAIN table = 1..Len(table) /\ DOMAIN rows = 1..Len(rows)
  BY <1>1, <1>2
\* A row is an old one, or that of a record of the page.
<1>6. ASSUME NEW i \in 1..Len(more)
      PROVE  \/ i \in 1..Len(rows) /\ more[i] = rows[i]
             \/ \E k \in 1..Len(page) : /\ i = Len(rows) + k /\ offset + k \in 1..Len(table)
                                        /\ more[i].id = table[offset + k]
  <2>1. CASE i <= Len(rows)
    BY <1>1, <2>1
  <2>2. CASE i > Len(rows)
    <3>1. i - Len(rows) \in 1..Len(page) /\ i = Len(rows) + (i - Len(rows))
      BY <1>1, <1>2, <2>2
    <3> QED BY <1>2, <1>3, <3>1
  <2> QED BY <1>1, <2>1, <2>2
<1>7. ASSUME NEW i \in 1..Len(rows), NEW k \in 1..Len(page)
      PROVE  rows[i].id # table[offset + k]
  <2>0. offset + k \in 1..Len(table)
    BY <1>2
  <2>1. offset + k \in DOMAIN table
    BY <1>5, <2>0
  <2>3. ~(offset + k <= offset)
    BY <1>2
  <2> QED BY <1>5, <2>1, <2>3 DEF NoneTwice
<1>8. ASSUME NEW i \in 1..Len(more), NEW j \in 1..Len(more), more[i].id = more[j].id
      PROVE  i = j
  <2>1. CASE i \in 1..Len(rows) /\ more[i] = rows[i]
    <3>1. CASE j \in 1..Len(rows) /\ more[j] = rows[j]
      BY <1>5, <1>8, <2>1, <3>1 DEF NoneTwice
    <3>2. CASE \E k \in 1..Len(page) : more[j].id = table[offset + k]
      BY <1>7, <1>8, <2>1, <3>2
    <3> QED BY <1>6, <3>1, <3>2
  <2>2. CASE \E k \in 1..Len(page) : /\ i = Len(rows) + k /\ offset + k \in 1..Len(table)
                                     /\ more[i].id = table[offset + k]
    <3>1. CASE j \in 1..Len(rows) /\ more[j] = rows[j]
      BY <1>7, <1>8, <2>2, <3>1
    <3>2. CASE \E k \in 1..Len(page) : /\ j = Len(rows) + k /\ offset + k \in 1..Len(table)
                                       /\ more[j].id = table[offset + k]
      <4>1. PICK k \in 1..Len(page) : /\ i = Len(rows) + k /\ offset + k \in 1..Len(table)
                                      /\ more[i].id = table[offset + k]
        BY <2>2
      <4>2. PICK n \in 1..Len(page) : /\ j = Len(rows) + n /\ offset + n \in 1..Len(table)
                                      /\ more[j].id = table[offset + n]
        BY <3>2
      <4>3. offset + k = offset + n
        BY <1>5, <1>8, <4>1, <4>2 DEF Distinct
      <4> QED BY <4>1, <4>2, <4>3
    <3> QED BY <1>6, <3>1, <3>2
  <2> QED BY <1>6, <2>1, <2>2
<1>9. ASSUME NEW i \in 1..Len(more), NEW n \in 1..Len(table), more[i].id = table[n]
      PROVE  n <= offset + PageSize
  <2>1. CASE i \in 1..Len(rows) /\ more[i] = rows[i]
    <3>1. n <= offset
      BY <1>5, <1>9, <2>1 DEF NoneTwice
    <3> QED BY <1>2, <3>1
  <2>2. CASE \E k \in 1..Len(page) : /\ i = Len(rows) + k /\ offset + k \in 1..Len(table)
                                     /\ more[i].id = table[offset + k]
    <3>1. PICK k \in 1..Len(page) : /\ offset + k \in 1..Len(table)
                                    /\ more[i].id = table[offset + k]
      BY <2>2
    <3>2. n = offset + k
      BY <1>5, <1>9, <3>1 DEF Distinct
    <3> QED BY <1>2, <1>4, <3>1, <3>2
  <2> QED BY <1>6, <2>1, <2>2
<1> QED BY <1>5, <1>8, <1>9 DEF NoneTwice

\* Rows that are all records, none twice, are as many as their ids.
LEMMA AsManyAsIds ==
    ASSUME NEW rows \in Seq(Row), OnlyRecords(rows), NEW n, NoneTwice(rows, n)
    PROVE  Cardinality(Ids(rows)) = Len(rows)
PROOF
<1> DEFINE f == [k \in 1..Len(rows) |-> rows[k].id]
<1>1. Len(rows) \in Nat /\ DOMAIN rows = 1..Len(rows)
  OBVIOUS
<1>2. Ids(rows) = {rows[k].id : k \in 1..Len(rows)}
  BY <1>1 DEF Ids, OnlyRecords
<1>3. f \in Surjection(1..Len(rows), Ids(rows))
  BY <1>2 DEF Surjection
<1>4. \A i, k \in 1..Len(rows) : f[i] = f[k] => i = k
  BY <1>1 DEF NoneTwice
<1>5. f \in Bijection(1..Len(rows), Ids(rows))
  BY <1>3, <1>4 DEF Bijection, Injection, IsInjective, Surjection
<1>6. IsFiniteSet(1..Len(rows)) /\ Cardinality(1..Len(rows)) = Len(rows)
  BY <1>1, FS_Interval
<1> QED BY <1>5, <1>6, FS_Bijection DEF ExistsBijection

-----------------------------------------------------------------------------
(* Each step keeps what the page loops rest on.                             *)

\* An item begins with nothing read, which is all that its offset promises.
LEMMA LoopStarts ==
    ASSUME NodeAssumption, TypeOK', scan' = NewScan,
           phase' = "item" => out'[item'] = <<>>
    PROVE  Counts' /\ ReadSoFar'
PROOF
<1>1. /\ scan'.offset = 0 /\ scan'.pages = 0 /\ scan'.fetched = 0 /\ scan'.got = <<>>
      /\ ~scan'.minimal
      /\ 0 = 0 * PageSize /\ 0 < MaxPages
  BY DEF NewScan, NodeAssumption
<1>2. table' \in Seq(Int) /\ Len(table') \in Nat /\ DOMAIN table' = 1..Len(table')
  BY DEF TypeOK
<1>3. Counts'
  BY <1>1, <1>2 DEF Counts, Reading
<1>4. DOMAIN <<>> = {} /\ Len(<<>>) = 0
  OBVIOUS
<1>5. ASSUME Reading' PROVE SoFar' = <<>>
  BY <1>1, <1>5 DEF SoFar, Reading
<1>6. ASSUME Reading' PROVE OnlyRecords(SoFar)'
  BY <1>4, <1>5, <1>6 DEF OnlyRecords
<1>7. ASSUME Reading' PROVE Whole(SoFar, scan.offset)'
  BY <1>1, <1>4, <1>5, <1>7 DEF Whole
<1>8. ASSUME Reading' PROVE NoneHidden(SoFar, scan.offset)'
  BY <1>1, <1>2 DEF NoneHidden
<1>9. ASSUME Reading' PROVE NoneTwice(SoFar, scan.offset)'
  BY <1>4, <1>5, <1>9 DEF NoneTwice
<1> QED BY <1>3, <1>6, <1>7, <1>8, <1>9 DEF ReadSoFar

\* The handler is through with its item, by returning or by an error row.
LEMMA MovesOn ==
    ASSUME NodeAssumption, TypeOK, PagesInv, TypeOK', phase = "item", NextItem,
           UNCHANGED <<job, table, changes>>,
           \A j \in ItemSet : j # item => out'[j] = out[j] /\ met'[j] = met[j]
    PROVE  PagesInv'
PROOF
<1>1. /\ item \in Nat /\ item' = item + 1 /\ scan' = NewScan /\ phase' \in {"item", "done"}
      /\ phase' = "item" => item' \in ItemSet
  BY DEF TypeOK, NextItem, ItemSet
<1>2. \A j \in ItemSet : j > item => j # item /\ out[j] = <<>> /\ met[j] = {}
  BY <1>1 DEF PagesInv, Fresh, ItemSet
<1>3. \A j \in ItemSet : j > item => out'[j] = <<>> /\ met'[j] = {}
  BY <1>2
<1>4. \A j \in ItemSet : j > item' => j > item
  BY <1>1 DEF ItemSet
<1>5. Fresh'
  BY <1>1, <1>3, <1>4 DEF Fresh
<1>6. phase' = "item" => out'[item'] = <<>>
  <2>1. item' > item
    BY <1>1
  <2> QED BY <1>1, <1>3, <2>1
<1>7. Distinct'
  BY DEF PagesInv, Distinct
<1> QED BY <1>1, <1>5, <1>6, <1>7, LoopStarts DEF PagesInv

\* The node gives up: nothing is promised of what it has read.
LEMMA GivesUp ==
    ASSUME PagesInv, phase' = "failed", UNCHANGED <<table, changes>>
    PROVE  PagesInv'
BY DEF PagesInv, Fresh, Distinct, Counts, ReadSoFar, Reading

\* What an answer adds to the rows and to the history, item by item.
LEMMA AddsTo ==
    ASSUME TypeOK, phase = "item", NEW rows \in Seq(Row), NEW events,
           out' = [out EXCEPT ![item] = @ \o rows],
           met' = [met EXCEPT ![item] = @ \cup events]
    PROVE  /\ item \in ItemSet /\ out'[item] = out[item] \o rows
           /\ met'[item] = met[item] \cup events
           /\ \A j \in ItemSet : j # item => out'[j] = out[j] /\ met'[j] = met[j]
BY DEF TypeOK

LEMMA FinishReads ==
    ASSUME NodeAssumption, TypeOK, PagesInv, TypeOK', phase = "item", NEW rows \in Seq(Row),
           NEW events, Finish(rows, events), UNCHANGED <<job, table, changes>>
    PROVE  PagesInv'
BY AddsTo, MovesOn DEF Finish

LEMMA ThrowReads ==
    ASSUME NodeAssumption, TypeOK, PagesInv, TypeOK', phase = "item",
           NEW events, Throw(events), UNCHANGED <<job, table, changes>>
    PROVE  PagesInv'
PROOF
<1>1. Mark("error") \in Seq(Row)
  BY MarkTyped
<1>2. CASE goOn
  <2>1. /\ out' = [out EXCEPT ![item] = @ \o Mark("error")] /\ NextItem
        /\ met' = [met EXCEPT ![item] = @ \cup events]
    BY <1>2 DEF Throw
  <2>2. \A j \in ItemSet : j # item => out'[j] = out[j] /\ met'[j] = met[j]
    BY <1>1, <2>1, AddsTo
  <2> QED BY <2>1, <2>2, MovesOn
<1>3. CASE ~goOn
  BY <1>3, GivesUp DEF Throw
<1> QED BY <1>2, <1>3 DEF TypeOK

\* A loop that asks again for the same page; after a null list it may go on
\* without rows, but then the history says so.
LEMMA AsksAgain ==
    ASSUME NodeAssumption, TypeOK, PagesInv, TypeOK', Reading,
           UNCHANGED <<job, phase, item, table, changes, out>>,
           NEW events, met' = [met EXCEPT ![item] = @ \cup events],
           scan'.got = scan.got, scan'.minimal => H.pages = "patient",
           \/ "partial" \in events /\ H.pages = "counted"
           \/ /\ events = {} /\ scan'.offset = scan.offset /\ scan'.pages = scan.pages
              /\ scan'.fetched = scan.fetched
    PROVE  PagesInv'
PROOF
<1>1. /\ item \in ItemSet /\ phase = "item" /\ H' = H /\ Reading' = Reading /\ SoFar' = SoFar
      /\ \A j \in ItemSet : j # item => met'[j] = met[j]
      /\ met'[item] = met[item] \cup events
  BY DEF TypeOK, Reading, Scanning, H, SoFar
<1>2. Fresh'
  <2>1. \A j \in ItemSet : j > item => j # item
    BY <1>1 DEF ItemSet
  <2> QED BY <1>1, <2>1 DEF PagesInv, Fresh
<1>3. Distinct'
  BY DEF PagesInv, Distinct
<1>4. CASE "partial" \in events /\ H.pages = "counted"
  <2>1. "partial" \in met'[item]
    BY <1>1, <1>4
  <2>2. Counts'
    BY <1>1, <1>4, <2>1 DEF Counts
  <2>3. OnlyRecords(SoFar)'
    BY <1>1 DEF PagesInv, ReadSoFar, OnlyRecords
  <2>4. ReadSoFar'
    BY <2>1, <2>3 DEF ReadSoFar
  <2> QED BY <1>2, <1>3, <2>2, <2>4 DEF PagesInv
<1>5. CASE /\ events = {} /\ scan'.offset = scan.offset /\ scan'.pages = scan.pages
           /\ scan'.fetched = scan.fetched
  <2>1. met'[item] = met[item]
    BY <1>1, <1>5
  <2>2. Counts'
    BY <1>1, <1>5, <2>1 DEF PagesInv, Counts
  <2>3. ReadSoFar'
    BY <1>1, <1>5, <2>1 DEF PagesInv, ReadSoFar, OnlyRecords, Whole, NoneHidden, NoneTwice
  <2> QED BY <1>2, <1>3, <2>2, <2>3 DEF PagesInv
<1> QED BY <1>4, <1>5

\* A loop that has read a page and asks for the next one.
LEMMA AsksForMore ==
    ASSUME NodeAssumption, TypeOK, PagesInv, TypeOK', Reading,
           UNCHANGED <<job, phase, item, table, changes>>,
           met' = [met EXCEPT ![item] = @ \cup {}],
           \A j \in ItemSet : j # item => out'[j] = out[j],
           scan'.minimal => H.pages = "patient",
           NEW page, page = PageAt(scan.offset),
           SoFar' = SoFar \o Rows(page),
           H.pages # "counted" => /\ out'[item] = <<>> /\ scan'.pages < MaxPages
                                  /\ scan'.offset = scan'.pages * PageSize,
           met[item] \subseteq {"inserted"} =>
               /\ scan'.fetched = scan'.offset /\ Len(page) = PageSize
               /\ scan'.offset = scan.offset + PageSize,
           \/ scan'.offset = scan.offset + PageSize
           \/ scan'.offset = scan.offset /\ scan.offset >= Len(table)
    PROVE  PagesInv'
PROOF
<1>1. /\ item \in ItemSet /\ phase = "item" /\ H' = H /\ Reading' = Reading
      /\ \A j \in ItemSet : j # item => met'[j] = met[j]
      /\ met'[item] = met[item]
  BY DEF TypeOK, Reading, Scanning, H
<1>2. Fresh'
  <2>1. \A j \in ItemSet : j > item => j # item
    BY <1>1 DEF ItemSet
  <2> QED BY <1>1, <2>1 DEF PagesInv, Fresh
<1>3. Distinct'
  BY DEF PagesInv, Distinct
<1>4. /\ scan.offset \in Nat /\ SoFar \in Seq(Row) /\ PageSize \in Nat \ {0}
      /\ Len(table) \in Nat /\ DOMAIN table = 1..Len(table)
  BY <1>1 DEF TypeOK, Scan, SoFar, NodeAssumption
<1>5. PICK rows : rows = SoFar
  OBVIOUS
<1>6. PICK more : more = rows \o Rows(page)
  OBVIOUS
<1>7. PICK offset : offset = scan.offset
  OBVIOUS
<1>8. rows \in Seq(Row) /\ offset \in Nat /\ page = PageAt(offset) /\ SoFar' = more
  BY <1>4, <1>5, <1>6, <1>7
<1>9. /\ OnlyRecords(rows)
      /\ met[item] = {} => Whole(rows, offset)
      /\ met[item] \subseteq {"inserted"} => NoneHidden(rows, offset)
      /\ met[item] \subseteq {"removed"} => NoneTwice(rows, offset)
  BY <1>5, <1>7 DEF PagesInv, ReadSoFar
<1>10. OnlyRecords(more)
  BY <1>6, <1>8, <1>9, ReadsOnlyRecords
<1>11. ASSUME met[item] = {} PROVE Whole(more, scan'.offset)
  <2>1. Whole(more, offset + Len(page))
    BY <1>6, <1>8, <1>9, <1>11, ReadsWhole
  <2>2. scan'.offset = offset + Len(page)
    BY <1>7, <1>11
  <2> QED BY <2>1, <2>2
<1>12. ASSUME met[item] \subseteq {"inserted"} PROVE NoneHidden(more, scan'.offset)
  <2>1. NoneHidden(more, offset + PageSize)
    BY <1>6, <1>8, <1>9, <1>12, ReadsHideNone
  <2> QED BY <1>7, <1>12, <2>1
<1>13. ASSUME met[item] \subseteq {"removed"} PROVE NoneTwice(more, scan'.offset)
  <2>1. NoneTwice(more, offset + PageSize)
    BY <1>6, <1>8, <1>9, <1>13, ReadsNoneTwice DEF PagesInv
  <2>2. CASE scan'.offset = scan.offset /\ scan.offset >= Len(table)
    <3>1. \A k \in DOMAIN table : k <= scan'.offset
      BY <1>4, <2>2
    <3> QED BY <2>1, <3>1 DEF NoneTwice
  <2> QED BY <1>7, <2>1, <2>2
<1>14. OnlyRecords(SoFar)'
  BY <1>8, <1>10 DEF OnlyRecords
<1>15. met'[item'] = {} => Whole(SoFar, scan.offset)'
  BY <1>1, <1>8, <1>11 DEF Whole
<1>16. met'[item'] \subseteq {"inserted"} => NoneHidden(SoFar, scan.offset)'
  BY <1>1, <1>8, <1>12 DEF NoneHidden
<1>17. met'[item'] \subseteq {"removed"} => NoneTwice(SoFar, scan.offset)'
  BY <1>1, <1>8, <1>13 DEF NoneTwice
<1>18. ReadSoFar'
  BY <1>14, <1>15, <1>16, <1>17 DEF ReadSoFar
<1>19. met[item] \subseteq {"inserted"} => scan'.offset <= Len(table)
  <2> SUFFICES ASSUME met[item] \subseteq {"inserted"} PROVE scan'.offset <= Len(table)
    OBVIOUS
  <2>1. scan.offset <= Len(table)
    BY DEF PagesInv, Counts
  <2>2. /\ scan.offset + PageSize <= Len(table) => Len(page) = PageSize
        /\ Len(table) < scan.offset + PageSize => Len(page) = Len(table) - scan.offset
    BY <1>4, <2>1, PageRecords
  <2> QED BY <1>4, <2>1, <2>2
<1>20. Counts'
  BY <1>1, <1>19 DEF Counts
<1> QED BY <1>2, <1>3, <1>18, <1>20 DEF PagesInv

\* Another user's change between two pages; what it does to the rows so far is
\* told where it is shown that they hide no record, and none twice.
LEMMA ChangeReads ==
    ASSUME TypeOK, PagesInv, NEW event \in {"inserted", "removed"}, Changed(event),
           Distinct',
           event = "inserted" =>
               /\ Len(table') \in Nat /\ Len(table) <= Len(table')
               /\ \A rows \in Seq(Row), n \in Nat : NoneHidden(rows, n) => NoneHidden(rows, n)',
           event = "removed" =>
               \A rows \in Seq(Row), n \in Nat : NoneTwice(rows, n) => NoneTwice(rows, n)'
    PROVE  PagesInv'
PROOF
<1>1. /\ item \in ItemSet /\ phase = "item" /\ H' = H /\ Reading' = Reading /\ SoFar' = SoFar
      /\ \A j \in ItemSet : j # item => met'[j] = met[j]
      /\ met'[item] = met[item] \cup {event}
      /\ UNCHANGED <<job, phase, item, scan, out>>
  BY DEF TypeOK, Reading, Scanning, H, SoFar, Changed
<1>2. Fresh'
  <2>1. \A j \in ItemSet : j > item => j # item
    BY <1>1 DEF ItemSet
  <2> QED BY <1>1, <2>1 DEF PagesInv, Fresh
<1>3. scan.offset \in Nat /\ SoFar \in Seq(Row) /\ Len(table) \in Nat
  BY <1>1 DEF TypeOK, Scan, SoFar
<1>4. OnlyRecords(SoFar)' <=> OnlyRecords(SoFar)
  BY <1>1 DEF OnlyRecords
<1>5. CASE event = "inserted"
  <2>1. met'[item] # {} /\ ~(met'[item] \subseteq {"removed"})
    BY <1>1, <1>5
  <2>2. met'[item] \subseteq {"inserted"} => met[item] \subseteq {"inserted"}
    BY <1>1
  <2>3. Len(table) <= Len(table') /\ Len(table') \in Nat
    BY <1>3, <1>5
  <2>4. Counts'
    BY <1>1, <1>3, <2>2, <2>3 DEF PagesInv, Counts
  <2>5. ReadSoFar'
    <3>1. PICK rows \in Seq(Row), n \in Nat : rows = SoFar /\ n = scan.offset
      BY <1>3
    <3>2. NoneHidden(SoFar, scan.offset) => NoneHidden(rows, n)'
      BY <1>5, <3>1
    <3>3. NoneHidden(rows, n)' => NoneHidden(SoFar, scan.offset)'
      BY <1>1, <3>1 DEF NoneHidden
    <3> QED BY <1>1, <1>4, <2>1, <2>2, <3>2, <3>3 DEF PagesInv, ReadSoFar
  <2> QED BY <1>2, <2>4, <2>5 DEF PagesInv
<1>6. CASE event = "removed"
  <2>1. met'[item] # {} /\ ~(met'[item] \subseteq {"inserted"})
    BY <1>1, <1>6
  <2>2. met'[item] \subseteq {"removed"} => met[item] \subseteq {"removed"}
    BY <1>1
  <2>4. Counts'
    BY <1>1, <1>3, <2>1 DEF PagesInv, Counts
  <2>5. ReadSoFar'
    <3>1. PICK rows \in Seq(Row), n \in Nat : rows = SoFar /\ n = scan.offset
      BY <1>3
    <3>2. NoneTwice(SoFar, scan.offset) => NoneTwice(rows, n)'
      BY <1>6, <3>1
    <3>3. NoneTwice(rows, n)' => NoneTwice(SoFar, scan.offset)'
      BY <1>1, <3>1 DEF NoneTwice
    <3> QED BY <1>1, <1>4, <2>1, <2>2, <3>2, <3>3 DEF PagesInv, ReadSoFar
  <2> QED BY <1>2, <2>4, <2>5 DEF PagesInv
<1> QED BY <1>5, <1>6

\* A record that is added goes in front of the others or after them.
LEMMA AddedReads ==
    ASSUME NodeAssumption, TypeOK, PagesInv, RowAdded
    PROVE  PagesInv'
PROOF
<1>1. /\ table \in Seq(Int) /\ Len(table) \in Nat /\ DOMAIN table = 1..Len(table)
      /\ changes \in Nat /\ changes' = changes + 1
  BY DEF TypeOK, RowAdded, Changed, NodeAssumption
<1>2. PICK x : x = -(changes + 1)
  OBVIOUS
<1>3. x \in Int /\ x < -changes /\ x >= -changes'
  BY <1>1, <1>2
<1>4. table' = <<x>> \o table \/ table' = Append(table, x)
  BY <1>2 DEF RowAdded
<1>5. /\ \A k \in 1..Len(table) : table[k] >= -changes /\ table[k] # x
      /\ \A k, n \in 1..Len(table) : table[k] = table[n] => k = n
  <2>1. \A k \in 1..Len(table) : table[k] >= -changes /\ table[k] \in Int
    BY <1>1 DEF PagesInv, Distinct
  <2>2. \A k \in 1..Len(table) : table[k] # x
    BY <1>1, <1>3, <2>1
  <2>3. \A k, n \in 1..Len(table) : table[k] = table[n] => k = n
    BY <1>1 DEF PagesInv, Distinct
  <2> QED BY <2>1, <2>2, <2>3
<1>6. /\ table' \in Seq(Int) /\ Len(table') = Len(table) + 1
      /\ DOMAIN table' = 1..(Len(table) + 1)
  <2>1. CASE table' = <<x>> \o table
    BY <1>1, <1>3, <2>1
  <2>2. CASE table' = Append(table, x)
    BY <1>1, <1>3, <2>2
  <2> QED BY <1>4, <2>1, <2>2
<1>7. CASE table' = <<x>> \o table
  <2>1. table'[1] = x /\ \A k \in 2..(Len(table) + 1) : table'[k] = table[k - 1]
    BY <1>1, <1>3, <1>7
  <2>2. \A k \in 1..(Len(table) + 1) : k = 1 \/ (k \in 2..(Len(table) + 1) /\ k - 1 \in 1..Len(table))
    BY <1>1
  <2>3. ASSUME NEW k \in DOMAIN table' PROVE table'[k] >= -changes'
    <3>1. k \in 1..(Len(table) + 1)
      BY <1>6
    <3>2. CASE table'[k] = x
      BY <1>3, <3>2
    <3>3. ASSUME NEW n \in 1..Len(table), table'[k] = table[n] PROVE table'[k] >= -changes'
      <4>1. table[n] \in Int /\ table[n] >= -changes
        BY <1>1, <1>5
      <4> QED BY <1>1, <3>3, <4>1
    <3> QED BY <2>1, <2>2, <3>1, <3>2, <3>3
  <2>4. ASSUME NEW k \in DOMAIN table', NEW n \in DOMAIN table', table'[k] = table'[n]
        PROVE  k = n
    <3>1. CASE k = 1 \/ n = 1
      BY <1>5, <1>6, <2>1, <2>2, <2>4, <3>1
    <3>2. CASE k # 1 /\ n # 1
      <4>1. k - 1 = n - 1
        BY <1>5, <1>6, <2>1, <2>2, <2>4, <3>2
      <4> QED BY <1>6, <4>1
    <3> QED BY <3>1, <3>2
  <2>5. Distinct'
    BY <2>3, <2>4 DEF Distinct
  <2>6. ASSUME NEW rows \in Seq(Row), NEW n \in Nat, NoneHidden(rows, n)
        PROVE  NoneHidden(rows, n)'
    <3> SUFFICES ASSUME NEW k \in DOMAIN table', k <= n, table'[k] > 0
                 PROVE  \E i \in DOMAIN rows : rows[i].id = table'[k]
      BY DEF NoneHidden
    <3>1. k \in Int /\ k # 1
      BY <1>1, <1>3, <1>6, <2>1
    <3>2. k - 1 \in DOMAIN table /\ k - 1 <= n /\ table'[k] = table[k - 1]
      BY <1>1, <1>6, <2>1, <2>2, <3>1
    <3> QED BY <2>6, <3>2 DEF NoneHidden
  <2> QED BY <1>1, <1>6, <2>5, <2>6, ChangeReads DEF RowAdded
<1>8. CASE table' = Append(table, x)
  <2>1. table'[Len(table) + 1] = x /\ \A k \in 1..Len(table) : table'[k] = table[k]
    BY <1>1, <1>3, <1>8
  <2>2. \A k \in 1..(Len(table) + 1) : k = Len(table) + 1 \/ k \in 1..Len(table)
    BY <1>1
  <2>3. ASSUME NEW k \in DOMAIN table' PROVE table'[k] >= -changes'
    <3>1. k \in 1..(Len(table) + 1)
      BY <1>6
    <3>2. CASE table'[k] = x
      BY <1>3, <3>2
    <3>3. ASSUME NEW n \in 1..Len(table), table'[k] = table[n] PROVE table'[k] >= -changes'
      <4>1. table[n] \in Int /\ table[n] >= -changes
        BY <1>1, <1>5
      <4> QED BY <1>1, <3>3, <4>1
    <3> QED BY <2>1, <2>2, <3>1, <3>2, <3>3
  <2>4. ASSUME NEW k \in DOMAIN table', NEW n \in DOMAIN table', table'[k] = table'[n]
        PROVE  k = n
    BY <1>5, <1>6, <2>1, <2>2, <2>4
  <2>5. Distinct'
    BY <2>3, <2>4 DEF Distinct
  <2>6. ASSUME NEW rows \in Seq(Row), NEW n \in Nat, NoneHidden(rows, n)
        PROVE  NoneHidden(rows, n)'
    <3> SUFFICES ASSUME NEW k \in DOMAIN table', k <= n, table'[k] > 0
                 PROVE  \E i \in DOMAIN rows : rows[i].id = table'[k]
      BY DEF NoneHidden
    <3>1. k # Len(table) + 1
      BY <1>1, <1>3, <2>1
    <3>2. k \in DOMAIN table /\ table'[k] = table[k]
      BY <1>1, <1>6, <2>1, <2>2, <3>1
    <3> QED BY <2>6, <3>2 DEF NoneHidden
  <2> QED BY <1>1, <1>6, <2>5, <2>6, ChangeReads DEF RowAdded
<1> QED BY <1>4, <1>7, <1>8

\* A part of a list of records.
LEMMA PartOf ==
    ASSUME NEW s \in Seq(Int), NEW a \in 1..(Len(s) + 1), NEW b \in 0..Len(s), a <= b + 1,
           NEW t, t = SubSeq(s, a, b)
    PROVE  /\ t \in Seq(Int) /\ Len(t) = b - a + 1
           /\ \A k \in 1..(b - a + 1) : t[k] = s[a + k - 1]
PROOF
<1>1. Len(s) \in Nat /\ a \in Int /\ b \in Int /\ \A k \in a..b : s[k] \in Int
  OBVIOUS
<1>2. t \in Seq(Int) /\ Len(t) = IF a <= b THEN b - a + 1 ELSE 0
  BY <1>1, SubSeqProperties
<1>3. \A k \in 1..(b - a + 1) : t[k] = s[a + k - 1]
  BY <1>1, SubSeqProperties
<1> QED BY <1>1, <1>2, <1>3

\* The records after one that is removed move up.
LEMMA RemovedReads ==
    ASSUME NodeAssumption, TypeOK, PagesInv, RowRemoved
    PROVE  PagesInv'
PROOF
<1>1. /\ table \in Seq(Int) /\ Len(table) \in Nat /\ DOMAIN table = 1..Len(table)
      /\ changes \in Nat /\ changes' = changes + 1
  BY DEF TypeOK, RowRemoved, Changed, NodeAssumption
<1>2. PICK m \in 1..Len(table) :
          table' = SubSeq(table, 1, m - 1) \o SubSeq(table, m + 1, Len(table))
  BY <1>1 DEF RowRemoved
<1>3. PICK front : front = SubSeq(table, 1, m - 1)
  OBVIOUS
<1>4. PICK back : back = SubSeq(table, m + 1, Len(table))
  OBVIOUS
<1>5. front \in Seq(Int) /\ Len(front) = m - 1 /\ \A k \in 1..(m - 1) : front[k] = table[k]
  <2>1. m - 1 \in 0..Len(table) /\ 1 \in 1..(Len(table) + 1) /\ 1 <= (m - 1) + 1
    BY <1>1
  <2>2. /\ front \in Seq(Int) /\ Len(front) = (m - 1) - 1 + 1
        /\ \A k \in 1..((m - 1) - 1 + 1) : front[k] = table[1 + k - 1]
    BY <1>1, <1>3, <2>1, PartOf
  <2> QED BY <2>2
<1>6. back \in Seq(Int) /\ Len(back) = Len(table) - m
      /\ \A k \in 1..(Len(table) - m) : back[k] = table[m + k]
  <2>1. PICK a, b : a = m + 1 /\ b = Len(table)
    OBVIOUS
  <2>2. a \in 1..(Len(table) + 1) /\ b \in 0..Len(table) /\ a <= b + 1
    BY <1>1, <2>1
  <2>3. back = SubSeq(table, a, b)
    BY <1>4, <2>1
  <2>4. back \in Seq(Int) /\ Len(back) = b - a + 1
    BY ONLY <1>1, <2>2, <2>3, PartOf
  <2>5. \A k \in 1..(b - a + 1) : back[k] = table[a + k - 1]
    BY ONLY <1>1, <2>2, <2>3, PartOf
  <2>6. ASSUME NEW k \in 1..(Len(table) - m) PROVE back[k] = table[m + k]
    <3>1. k \in 1..(b - a + 1) /\ a + k - 1 = m + k
      BY <1>1, <2>1
    <3>2. back[k] = table[a + k - 1]
      BY <2>5, <3>1
    <3> QED BY <3>1, <3>2
  <2>7. Len(back) = Len(table) - m
    BY <1>1, <2>1, <2>4
  <2> QED BY <2>4, <2>6, <2>7
<1>7. table' = front \o back
  BY <1>2, <1>3, <1>4
<1>8. /\ table' \in Seq(Int) /\ Len(table') = Len(table) - 1
      /\ DOMAIN table' = 1..(Len(table) - 1)
  <2>1. table' \in Seq(Int) /\ Len(table') = Len(front) + Len(back)
    <3>1. front \in Seq(Int) /\ back \in Seq(Int)
      BY <1>5, <1>6
    <3> QED BY <1>7, <3>1, SequenceAppend
  <2>2. Len(table') = Len(table) - 1
    BY <1>1, <1>5, <1>6, <2>1
  <2> QED BY <2>1, <2>2
<1>9. ASSUME NEW k \in 1..(Len(table) - 1)
      PROVE  \E n \in 1..Len(table) :
                 table'[k] = table[n] /\ n = IF k < m THEN k ELSE k + 1
  <2>1. CASE k < m
    <3>1. table'[k] = front[k] /\ front[k] = table[k] /\ k \in 1..Len(table)
      BY <1>1, <1>5, <1>6, <1>7, <2>1
    <3> QED BY <2>1, <3>1
  <2>2. CASE k >= m
    <3>1. k - (m - 1) \in 1..(Len(table) - m) /\ k = (m - 1) + (k - (m - 1))
          /\ m + (k - (m - 1)) = k + 1 /\ k + 1 \in 1..Len(table) /\ ~(k < m)
      BY <1>1, <2>2
    <3>2. table'[k] = back[k - (m - 1)]
      <4>1. PICK j \in 1..(Len(table) - m) : j = k - (m - 1)
        BY <3>1
      <4>2. j \in DOMAIN back
        BY <1>6, <4>1
      <4>3. table'[Len(front) + j] = back[j]
        <5>1. front \in Seq(Int) /\ back \in Seq(Int)
          BY <1>5, <1>6
        <5> QED BY <1>7, <4>2, <5>1, SequenceAppend
      <4>4. Len(front) + j = k
        BY <1>1, <1>5, <4>1
      <4> QED BY <4>1, <4>3, <4>4
    <3>3. back[k - (m - 1)] = table[k + 1]
      BY <1>6, <3>1
    <3> QED BY <3>1, <3>2, <3>3
  <2> QED BY <2>1, <2>2
<1>10. ASSUME NEW k \in DOMAIN table' PROVE table'[k] >= -changes'
  <2>1. PICK n \in 1..Len(table) : table'[k] = table[n]
    BY <1>8, <1>9
  <2>2. table[n] >= -changes /\ table[n] \in Int
    BY <1>1 DEF PagesInv, Distinct
  <2> QED BY <1>1, <2>1, <2>2
<1>11. ASSUME NEW k \in DOMAIN table', NEW j \in DOMAIN table', table'[k] = table'[j]
       PROVE  k = j
  <2>1. PICK n \in 1..Len(table) : table'[k] = table[n] /\ n = IF k < m THEN k ELSE k + 1
    BY <1>8, <1>9
  <2>2. PICK i \in 1..Len(table) : table'[j] = table[i] /\ i = IF j < m THEN j ELSE j + 1
    BY <1>8, <1>9
  <2>3. n = i
    BY <1>1, <1>11, <2>1, <2>2 DEF PagesInv, Distinct
  <2>4. k \in Int /\ j \in Int /\ m \in Int
    BY <1>8
  <2> QED BY <2>1, <2>2, <2>3, <2>4
<1>12. Distinct'
  BY <1>10, <1>11 DEF Distinct
<1>13. ASSUME NEW rows \in Seq(Row), NEW n \in Nat, NoneTwice(rows, n)
       PROVE  NoneTwice(rows, n)'
  <2>1. ASSUME NEW i \in DOMAIN rows, NEW k \in DOMAIN table', rows[i].id = table'[k]
        PROVE  k <= n
    <3>1. PICK j \in 1..Len(table) : table'[k] = table[j] /\ j = IF k < m THEN k ELSE k + 1
      BY <1>8, <1>9
    <3>2. j <= n
      BY <1>1, <1>13, <2>1, <3>1 DEF NoneTwice
    <3>3. k \in Int /\ m \in Int
      BY <1>8
    <3> QED BY <3>1, <3>2, <3>3
  <2>2. \A i, k \in DOMAIN rows : rows[i].id = rows[k].id => i = k
    BY <1>13 DEF NoneTwice
  <2> QED BY <2>1, <2>2 DEF NoneTwice
<1> QED BY <1>12, <1>13, ChangeReads DEF RowRemoved

\* A further page of the loops that keep their rows to the end.
LEMMA KeptPageReads ==
    ASSUME NodeAssumption, TypeOK, PagesInv, TypeOK', Reading, H.pages # "counted",
           UNCHANGED <<job, table, changes>>, NEW page, page = PageAt(scan.offset),
           NEW newScan, Continue(newScan, <<>>, {}), Len(page) = PageSize,
           newScan.offset = scan.offset + PageSize, newScan.pages = scan.pages + 1,
           newScan.pages < MaxPages, newScan.fetched = scan.fetched + Len(page),
           newScan.got = scan.got \o Rows(page), newScan.minimal => scan.minimal
    PROVE  PagesInv'
PROOF
<1>1. /\ UNCHANGED <<phase, item>> /\ scan' = newScan /\ phase = "item"
      /\ out' = [out EXCEPT ![item] = @ \o <<>>]
      /\ met' = [met EXCEPT ![item] = @ \cup {}]
  BY DEF Continue, Reading
<1>2. out[item] = <<>> /\ scan.offset = scan.pages * PageSize
  BY DEF PagesInv, Counts
<1>3. /\ item \in ItemSet /\ out'[item] = <<>>
      /\ \A j \in ItemSet : j # item => out'[j] = out[j]
  <2>1. <<>> \in Seq(Row) /\ <<>> \o <<>> = <<>>
    OBVIOUS
  <2> QED BY <1>1, <1>2, <2>1, AddsTo
<1>4. SoFar' = SoFar \o Rows(page)
  BY <1>1 DEF SoFar, H
<1>5. scan'.offset = scan'.pages * PageSize
  <2>1. scan.pages \in Nat /\ PageSize \in Nat
    BY DEF TypeOK, Scan, NodeAssumption
  <2>2. (scan.pages + 1) * PageSize = scan.pages * PageSize + PageSize
    BY <2>1
  <2> QED BY <1>1, <1>2, <2>2
<1>6. met[item] \subseteq {"inserted"} => scan'.fetched = scan'.offset
  BY <1>1 DEF PagesInv, Counts
<1>7. scan'.minimal => H.pages = "patient"
  BY <1>1 DEF PagesInv, Counts
<1> QED BY <1>1, <1>3, <1>4, <1>5, <1>6, <1>7, AsksForMore

LEMMA PlainPageReads ==
    ASSUME NodeAssumption, TypeOK, PagesInv, TypeOK', Reading, H.pages # "counted",
           UNCHANGED <<job, table, changes>>, PlainPage(PageAt(scan.offset))
    PROVE  PagesInv'
PROOF
<1>1. PICK page : page = PageAt(scan.offset)
  OBVIOUS
<1>2. scan \in Scan /\ scan.offset \in Nat /\ phase = "item"
  BY DEF TypeOK, Scan, Reading
<1>3. page \in Seq(Int)
  BY <1>1, <1>2, PageTyped
<1>4. PICK got : got = scan.got \o Rows(page)
  OBVIOUS
<1>5. got \in Seq(Row)
  BY <1>3, <1>4, ScanTyped
<1>6. CASE Finish(got, {})
  BY <1>2, <1>5, <1>6, FinishReads
<1>7. CASE /\ Len(page) = PageSize /\ scan.pages + 1 < MaxPages
           /\ Continue([scan EXCEPT !.offset = @ + PageSize, !.pages = @ + 1,
                                    !.fetched = @ + Len(page), !.got = got], <<>>, {})
  <2>1. PICK next : next = [scan EXCEPT !.offset = @ + PageSize, !.pages = @ + 1,
                                        !.fetched = @ + Len(page), !.got = got]
    OBVIOUS
  <2>2. /\ next.offset = scan.offset + PageSize /\ next.pages = scan.pages + 1
        /\ next.fetched = scan.fetched + Len(page) /\ next.got = scan.got \o Rows(page)
        /\ (next.minimal => scan.minimal)
    BY <1>2, <1>4, <2>1 DEF Scan
  <2>3. Continue(next, <<>>, {})
    BY <1>7, <2>1
  <2>4. next.pages < MaxPages
    BY <1>7, <2>2
  <2> QED BY <1>1, <1>7, <2>2, <2>3, <2>4, KeptPageReads
<1> QED BY <1>1, <1>4, <1>6, <1>7 DEF PlainPage

LEMMA PatientPageReads ==
    ASSUME NodeAssumption, TypeOK, PagesInv, TypeOK', Reading, H.pages # "counted",
           UNCHANGED <<job, table, changes>>, PatientPage(PageAt(scan.offset))
    PROVE  PagesInv'
PROOF
<1>1. PICK page : page = PageAt(scan.offset)
  OBVIOUS
<1>2. scan \in Scan /\ scan.offset \in Nat /\ phase = "item"
  BY DEF TypeOK, Scan, Reading
<1>3. page \in Seq(Int)
  BY <1>1, <1>2, PageTyped
<1>4. PICK got : got = scan.got \o Rows(page)
  OBVIOUS
<1>5. got \in Seq(Row)
  BY <1>3, <1>4, ScanTyped
<1>6. CASE Finish(got, {})
  BY <1>2, <1>5, <1>6, FinishReads
<1>7. CASE Throw({"capped"})
  BY <1>2, <1>7, ThrowReads
<1>8. CASE /\ Len(page) = PageSize /\ scan.pages + 1 # MaxPages
           /\ Continue([scan EXCEPT !.offset = @ + PageSize, !.pages = @ + 1,
                                    !.fetched = @ + Len(page), !.got = got,
                                    !.minimal = FALSE], <<>>, {})
  <2>1. PICK next : next = [scan EXCEPT !.offset = @ + PageSize, !.pages = @ + 1,
                                        !.fetched = @ + Len(page), !.got = got,
                                        !.minimal = FALSE]
    OBVIOUS
  <2>2. /\ next.offset = scan.offset + PageSize /\ next.pages = scan.pages + 1
        /\ next.fetched = scan.fetched + Len(page) /\ next.got = scan.got \o Rows(page)
        /\ (next.minimal => scan.minimal)
    BY <1>2, <1>4, <2>1 DEF Scan
  <2>3. Continue(next, <<>>, {})
    BY <1>8, <2>1
  <2>4. next.pages < MaxPages
    <3>1. scan.pages < MaxPages /\ scan.pages \in Nat /\ MaxPages \in Nat
      BY <1>2 DEF PagesInv, Counts, Scan, NodeAssumption
    <3> QED BY <1>8, <2>2, <3>1
  <2> QED BY <1>1, <1>8, <2>2, <2>3, <2>4, KeptPageReads
<1> QED BY <1>1, <1>4, <1>6, <1>7, <1>8 DEF PatientPage

\* A further page of the loop that pushes its rows as they come.
LEMMA CountedPageReads ==
    ASSUME NodeAssumption, TypeOK, PagesInv, TypeOK', Reading, H.pages = "counted",
           UNCHANGED <<job, table, changes>>,
           CountedPage(PageAt(scan.offset), Len(table), {})
    PROVE  PagesInv'
PROOF
<1>1. PICK page : page = PageAt(scan.offset)
  OBVIOUS
<1>2. /\ scan \in Scan /\ scan.offset \in Nat /\ scan.fetched \in Nat /\ phase = "item"
      /\ PageSize \in Nat \ {0} /\ MaxChanges \in Nat
  BY DEF TypeOK, Scan, Reading, NodeAssumption
<1>3. /\ page \in Seq(Int) /\ Len(page) \in Nat /\ Len(table) \in Nat
      /\ scan.offset + PageSize <= Len(table) => Len(page) = PageSize
      /\ scan.offset <= Len(table) /\ Len(table) < scan.offset + PageSize
           => Len(page) = Len(table) - scan.offset
  BY <1>1, <1>2, PageRecords
<1>4. PICK rows : rows = Rows(page)
  OBVIOUS
<1>5. rows \in Seq(Row)
  BY <1>3, <1>4, RowsTyped
<1>6. CASE Finish(rows, {})
  BY <1>2, <1>5, <1>6, FinishReads
<1>7. CASE /\ scan.fetched + Len(page) < Len(table)
           /\ Continue([scan EXCEPT !.offset = Further(@),
                                    !.fetched = scan.fetched + Len(page)], rows, {})
  <2>1. /\ scan' = [scan EXCEPT !.offset = Further(@), !.fetched = scan.fetched + Len(page)]
        /\ out' = [out EXCEPT ![item] = @ \o rows]
        /\ met' = [met EXCEPT ![item] = @ \cup {}]
        /\ UNCHANGED <<phase, item>>
    BY <1>7 DEF Continue
  <2>2. /\ scan'.offset = Further(scan.offset)
        /\ scan'.fetched = scan.fetched + Len(page)
        /\ scan'.minimal = scan.minimal
    BY <1>2, <2>1 DEF Scan
  <2>3. /\ out'[item] = out[item] \o rows
        /\ \A j \in ItemSet : j # item => out'[j] = out[j]
    BY <1>2, <1>5, <2>1, AddsTo
  <2>4. SoFar' = SoFar \o Rows(page)
    BY <1>4, <2>1, <2>3 DEF SoFar, H
  <2>5. ASSUME met[item] \subseteq {"inserted"}
        PROVE  /\ scan'.fetched = scan'.offset /\ Len(page) = PageSize
               /\ scan'.offset = scan.offset + PageSize
    <3>1. scan.fetched = scan.offset /\ scan.offset <= Len(table)
      BY <2>5 DEF PagesInv, Counts
    <3>2. Len(page) = PageSize
      BY <1>2, <1>3, <1>7, <3>1
    <3>3. scan.offset < Len(table)
      BY <1>2, <1>3, <1>7, <3>1
    <3>4. Further(scan.offset) = scan.offset + PageSize
      BY <1>2, <1>3, <3>3 DEF Further
    <3> QED BY <2>2, <3>1, <3>2, <3>4
  <2>6. \/ scan'.offset = scan.offset + PageSize
        \/ scan'.offset = scan.offset /\ scan.offset >= Len(table)
    <3>1. CASE scan.offset >= Len(table) + MaxChanges
      BY <1>2, <1>3, <2>2, <3>1 DEF Further
    <3>2. CASE ~(scan.offset >= Len(table) + MaxChanges)
      BY <2>2, <3>2 DEF Further
    <3> QED BY <3>1, <3>2
  <2>7. scan'.minimal => H.pages = "patient"
    BY <2>2 DEF PagesInv, Counts
  <2> QED BY <1>1, <2>1, <2>2, <2>3, <2>4, <2>5, <2>6, <2>7, AsksForMore
<1> QED BY <1>1, <1>4, <1>6, <1>7 DEF CountedPage

LEMMA AnswerReads ==
    ASSUME NodeAssumption, IndInv, PagesInv, IndInv', Answer
    PROVE  PagesInv'
PROOF
<1>0. TypeOK /\ TypeOK' /\ <<>> \in Seq(Row)
  BY DEF IndInv
<1>1. CASE TokenGranted
  <2>1. /\ phase = "token" /\ scan = NewScan /\ item \in ItemSet
        /\ UNCHANGED <<job, item, scan, table, out, met, changes>>
        /\ \A j \in ItemSet : out[j] = <<>> /\ met[j] = {}
    <3>1. phase = "token" /\ UNCHANGED <<job, item, scan, table, out, met, changes>>
      BY <1>1 DEF TokenGranted
    <3>2. item = 1 /\ 1 \in ItemSet
      BY <3>1, NodeAssumption DEF IndInv, ItemSet, NodeAssumption
    <3> QED BY <3>1, <3>2 DEF PagesInv, Fresh
  <2>2. phase' = "item" /\ Fresh' /\ Distinct'
    BY <1>1, <2>1 DEF TokenGranted, PagesInv, Fresh, Distinct
  <2>3. Counts' /\ ReadSoFar'
    BY <1>0, <2>1, LoopStarts
  <2> QED BY <2>2, <2>3 DEF PagesInv
<1>2. CASE RejectParameters
  BY <1>0, <1>2, ThrowReads DEF RejectParameters, Proper
<1>3. CASE AnswerList
  <2>1. Rows(PageAt(0)) \in Seq(Row)
    BY <1>0, PageTyped, RowsTyped
  <2> QED BY <1>0, <1>3, <2>1, FinishReads DEF AnswerList, Running, Proper
<1>4. CASE AnswerOne
  <2>1. Rows(<<1>>) \in Seq(Row)
    <3>1. <<1>> \in Seq(Int)
      OBVIOUS
    <3> QED BY <3>1, RowsTyped
  <2>2. (IF H.none = "nothing" THEN <<>> ELSE Mark(H.none)) \in Seq(Row)
    <3>1. H.none \in {"error", "note", "nothing"}
      BY <1>0, <1>4, HandlerHere DEF AnswerOne, Running, H, HandlerType
    <3> QED BY <3>1, <1>0, MarkTyped
  <2>3. phase = "item" /\ UNCHANGED <<job, table, changes>>
    BY <1>4 DEF AnswerOne, Running, Proper
  <2>4. CASE Finish(Rows(<<1>>), {})
    BY <1>0, <2>1, <2>3, <2>4, FinishReads
  <2>5. CASE Finish(IF H.none = "nothing" THEN <<>> ELSE Mark(H.none), {})
    BY <1>0, <2>2, <2>3, <2>5, FinishReads
  <2> QED BY <1>4, <2>4, <2>5 DEF AnswerOne
<1>5. CASE AnswerWrite
  <2>1. Mark("result") \in Seq(Row)
    BY MarkTyped
  <2> QED BY <1>0, <1>5, <2>1, FinishReads DEF AnswerWrite, Running
<1>6. CASE AnswerPage
  <2>1. Reading /\ UNCHANGED <<job, table, changes>>
    BY <1>6 DEF AnswerPage, Running, Reading, Proper
  <2>2. CASE H.pages = "plain" /\ PlainPage(PageAt(scan.offset))
    BY <1>0, <2>1, <2>2, PlainPageReads
  <2>3. CASE H.pages = "patient" /\ PatientPage(PageAt(scan.offset))
    BY <1>0, <2>1, <2>3, PatientPageReads
  <2>4. CASE H.pages = "counted" /\ CountedPage(PageAt(scan.offset), Len(table), {})
    BY <1>0, <2>1, <2>4, CountedPageReads
  <2> QED BY <1>6, <2>2, <2>3, <2>4 DEF AnswerPage
<1>7. CASE AnswerMinimal
  <2>1. Reading /\ phase = "item" /\ UNCHANGED <<job, table, changes>>
    BY <1>7 DEF AnswerMinimal, Running, Reading, Proper
  <2>2. CASE Throw({"bad"})
    BY <1>0, <2>1, <2>2, ThrowReads
  <2>3. CASE PatientPage(PageAt(scan.offset))
    <3>1. H.pages # "counted"
      BY <1>7, <2>1 DEF AnswerMinimal, PagesInv, Counts
    <3> QED BY <1>0, <2>1, <2>3, <3>1, PatientPageReads
  <2> QED BY <1>7, <2>2, <2>3 DEF AnswerMinimal
<1> QED BY <1>1, <1>2, <1>3, <1>4, <1>5, <1>6, <1>7 DEF Answer

\* A loop that asks again without rows.
LEMMA AddsNone ==
    ASSUME TypeOK, phase = "item", out' = [out EXCEPT ![item] = @ \o <<>>]
    PROVE  UNCHANGED out
PROOF
<1>1. out \in [ItemSet -> Seq(Row)] /\ item \in ItemSet
  BY DEF TypeOK
<1>2. \A rows \in Seq(Row) : rows \o <<>> = rows
  OBVIOUS
<1>3. out[item] \o <<>> = out[item]
  BY <1>1, <1>2
<1> QED BY <1>1, <1>3

LEMMA SameAgainReads ==
    ASSUME NodeAssumption, TypeOK, PagesInv, TypeOK', Reading,
           UNCHANGED <<job, table, changes>>, NEW newScan, Continue(newScan, <<>>, {}),
           newScan.got = scan.got, newScan.minimal => H.pages = "patient",
           newScan.offset = scan.offset, newScan.pages = scan.pages,
           newScan.fetched = scan.fetched
    PROVE  PagesInv'
PROOF
<1>1. /\ phase = "item" /\ UNCHANGED <<phase, item>> /\ scan' = newScan
      /\ out' = [out EXCEPT ![item] = @ \o <<>>]
      /\ met' = [met EXCEPT ![item] = @ \cup {}]
  BY DEF Continue, Reading
<1>2. UNCHANGED out
  BY <1>1, AddsNone
<1> QED BY <1>1, <1>2, AsksAgain

LEMMA PartialCountedReads ==
    ASSUME NodeAssumption, TypeOK, PagesInv, TypeOK', Reading, H.pages = "counted",
           UNCHANGED <<job, table, changes>>, NEW total,
           CountedPage(<<>>, total, {"partial"})
    PROVE  PagesInv'
PROOF
<1>1. Rows(<<>>) = <<>> /\ <<>> \in Seq(Row) /\ phase = "item" /\ scan \in Scan
  BY DEF Rows, Reading, TypeOK
<1>2. CASE Finish(<<>>, {"partial"})
  BY <1>1, <1>2, FinishReads
<1>3. CASE Continue([scan EXCEPT !.offset = Further(@), !.fetched = scan.fetched + Len(<<>>)],
                    <<>>, {"partial"})
  <2>1. /\ scan' = [scan EXCEPT !.offset = Further(@), !.fetched = scan.fetched + Len(<<>>)]
        /\ out' = [out EXCEPT ![item] = @ \o <<>>]
        /\ met' = [met EXCEPT ![item] = @ \cup {"partial"}] /\ UNCHANGED <<phase, item>>
    BY <1>3 DEF Continue
  <2>2. scan'.got = scan.got /\ scan'.minimal = scan.minimal
    BY <1>1, <2>1 DEF Scan
  <2>3. UNCHANGED out
    BY <1>1, <2>1, AddsNone
  <2>4. scan'.minimal => H.pages = "patient"
    BY <2>2 DEF PagesInv, Counts
  <2> QED BY <2>1, <2>2, <2>3, <2>4, AsksAgain
<1> QED BY <1>1, <1>2, <1>3 DEF CountedPage

LEMMA TroubleReads ==
    ASSUME NodeAssumption, IndInv, PagesInv, IndInv', Trouble
    PROVE  PagesInv'
PROOF
<1>0. TypeOK /\ TypeOK' /\ <<>> \in Seq(Row) /\ scan \in Scan
  BY DEF IndInv, TypeOK
<1>1. CASE TokenRefused
  <2>1. CASE phase' = "failed"
    BY <1>1, <2>1, GivesUp DEF TokenRefused
  <2>2. CASE phase' = phase
    BY <1>1, <2>2 DEF TokenRefused, PagesInv, Fresh, Distinct, Counts, ReadSoFar, Reading
  <2> QED BY <1>1, <2>1, <2>2 DEF TokenRefused
<1>2. CASE TokenMissing
  BY <1>2, GivesUp DEF TokenMissing
<1>3. CASE AnswerErrors
  <2>1. phase = "item" /\ UNCHANGED <<job, table, changes>>
    BY <1>3 DEF AnswerErrors, Running, Improper
  <2>2. CASE Throw({"bad"})
    BY <1>0, <2>1, <2>2, ThrowReads
  <2>3. CASE /\ Scanning /\ job[item].safe
             /\ Continue([scan EXCEPT !.minimal = TRUE], <<>>, {})
    <3>1. PICK next : next = [scan EXCEPT !.minimal = TRUE]
      OBVIOUS
    <3>2. /\ next.got = scan.got /\ next.offset = scan.offset /\ next.pages = scan.pages
          /\ next.fetched = scan.fetched
      BY <1>0, <3>1 DEF Scan
    <3>3. H.pages = "patient" /\ Reading
      BY <1>0, <2>1, <2>3, HandlerHere DEF Reading
    <3> QED BY <1>0, <2>1, <2>3, <3>1, <3>2, <3>3, SameAgainReads
  <2> QED BY <1>3, <2>2, <2>3 DEF AnswerErrors
<1>4. CASE AnswerPartial
  <2>1. phase = "item" /\ UNCHANGED <<job, table, changes>> /\ scan.got \in Seq(Row)
    BY <1>0, <1>4 DEF AnswerPartial, Running, Improper, Scan
  <2>2. CASE Throw({"bad"})
    BY <1>0, <2>1, <2>2, ThrowReads
  <2>3. CASE Finish(scan.got, {"partial"})
    BY <1>0, <2>1, <2>3, FinishReads
  <2>4. CASE /\ Scanning /\ H.pages = "counted"
             /\ \E total \in {0, Len(table)} : CountedPage(<<>>, total, {"partial"})
    <3>1. Reading
      BY <2>1, <2>4 DEF Reading
    <3> QED BY <1>0, <2>1, <2>4, <3>1, PartialCountedReads
  <2>5. CASE Finish(IF H.null = "row" THEN Mark("note")
                    ELSE IF H.kind = "one" /\ H.none # "nothing"
                    THEN Mark(H.none) ELSE <<>>, {"partial"})
    <3>1. H.none \in {"error", "note", "nothing"}
      BY <1>0, <2>1, HandlerHere DEF H, HandlerType
    <3>2. (IF H.null = "row" THEN Mark("note")
           ELSE IF H.kind = "one" /\ H.none # "nothing"
           THEN Mark(H.none) ELSE <<>>) \in Seq(Row)
      BY <1>0, <3>1, MarkTyped
    <3> QED BY <1>0, <2>1, <2>5, <3>2, FinishReads
  <2> QED BY <1>4, <2>2, <2>3, <2>4, <2>5 DEF AnswerPartial
<1>5. CASE AnswerOdd
  <2>1. phase = "item" /\ UNCHANGED <<job, table, changes>> /\ scan.got \in Seq(Row)
    BY <1>0, <1>5 DEF AnswerOdd, Running, Improper, Scan
  <2>2. CASE Throw({"bad"})
    BY <1>0, <2>1, <2>2, ThrowReads
  <2>3. CASE Finish(IF H.odd = "row" /\ ~Scanning THEN Mark("error") ELSE scan.got, {"odd"})
    <3>1. (IF H.odd = "row" /\ ~Scanning THEN Mark("error") ELSE scan.got) \in Seq(Row)
      BY <2>1, MarkTyped
    <3> QED BY <1>0, <2>1, <2>3, <3>1, FinishReads
  <2>4. CASE Finish(Mark("note"), {"odd"})
    BY <1>0, <2>1, <2>4, MarkTyped, FinishReads
  <2> QED BY <1>5, <2>2, <2>3, <2>4 DEF AnswerOdd
<1>6. CASE AnswerFails
  <2>1. phase = "item" /\ UNCHANGED <<job, table, changes>>
    BY <1>6 DEF AnswerFails, Running, Improper
  <2>2. CASE Throw({"bad"})
    BY <1>0, <2>1, <2>2, ThrowReads
  <2>3. CASE Scanning /\ Continue([scan EXCEPT !.minimal = FALSE], <<>>, {})
    <3>1. PICK next : next = [scan EXCEPT !.minimal = FALSE]
      OBVIOUS
    <3>2. /\ next.got = scan.got /\ next.offset = scan.offset /\ next.pages = scan.pages
          /\ next.fetched = scan.fetched /\ ~next.minimal
      BY <1>0, <3>1 DEF Scan
    <3>3. Reading
      BY <2>1, <2>3 DEF Reading
    <3> QED BY <1>0, <2>1, <2>3, <3>1, <3>2, <3>3, SameAgainReads
  <2> QED BY <1>6, <2>2, <2>3 DEF AnswerFails
<1> QED BY <1>1, <1>2, <1>3, <1>4, <1>5, <1>6 DEF Trouble

LEMMA StepReads ==
    ASSUME NodeAssumption, IndInv, PagesInv, IndInv', [Next]_vars
    PROVE  PagesInv'
PROOF
<1>0. TypeOK
  BY DEF IndInv
<1>1. CASE Answer
  BY <1>1, AnswerReads
<1>2. CASE Trouble
  BY <1>2, TroubleReads
<1>3. CASE RowAdded
  BY <1>0, <1>3, AddedReads
<1>4. CASE RowRemoved
  BY <1>0, <1>4, RemovedReads
<1>5. CASE UNCHANGED vars
  BY <1>5 DEF vars, PagesInv, Fresh, Distinct, Counts, ReadSoFar, Reading, Scanning, H, SoFar,
              OnlyRecords, Whole, NoneHidden, NoneTwice
<1> QED BY <1>1, <1>2, <1>3, <1>4, <1>5 DEF Next, Returned

LEMMA InitReads ==
    ASSUME NodeAssumption, Init
    PROVE  PagesInv
PROOF
<1>1. /\ phase = "token" /\ scan = NewScan /\ changes = 0 /\ item = 1
      /\ out = [j \in ItemSet |-> <<>>] /\ met = [j \in ItemSet |-> {}]
  BY DEF Init
<1>2. Fresh
  BY <1>1 DEF Fresh
<1>3. PICK n \in Lengths : table = [k \in 1..n |-> k]
  BY DEF Init
<1>4. n \in Nat
  BY DEF NodeAssumption
<1>5. DOMAIN table = 1..n /\ \A k \in 1..n : table[k] = k /\ k >= -changes
  BY <1>1, <1>3, <1>4
<1>6. Distinct
  BY <1>5 DEF Distinct
<1> QED BY <1>1, <1>2, <1>6 DEF PagesInv, Counts, ReadSoFar, Reading

LEMMA ReadsInvariance ==
    ASSUME NodeAssumption
    PROVE  Spec => [](IndInv /\ PagesInv)
PROOF
<1>1. Init => PagesInv
  BY InitReads
<1>2. IndInv /\ IndInv' /\ PagesInv /\ [Next]_vars => PagesInv'
  BY StepReads
<1> QED BY <1>1, <1>2, Invariance, PTL DEF Spec

-----------------------------------------------------------------------------
(* The end of a page loop.                                                  *)

Amiss == {"bad", "capped", "odd", "partial"}

\* A loop that ended with nothing amiss had read its last page: unless records
\* were removed, or there are more than the cap lets through, all there was.
LastPage ==
    /\ Reading /\ UNCHANGED table /\ met'[item] = met[item]
    /\ out'[item] = SoFar \o Rows(PageAt(scan.offset))
    /\ met[item] \subseteq {"inserted"} /\ UnderCap
         => scan.offset + Len(PageAt(scan.offset)) = Len(table)

\* Nothing that is amiss is kept from the history.
LEMMA TellsAmiss ==
    ASSUME TypeOK, phase = "item", NEW rows \in Seq(Row), NEW events,
           Finish(rows, events) \/ Throw(events)
    PROVE  met'[item] = met[item] \cup events
BY DEF TypeOK, Finish, Throw

\* Where the offset of a loop below its cap stands.
LEMMA BelowCap ==
    ASSUME NodeAssumption, TypeOK, PagesInv, Reading, met[item] \subseteq {"inserted"},
           NEW page, page = PageAt(scan.offset)
    PROVE  /\ scan.offset \in Nat /\ Len(table) \in Nat /\ Len(page) \in Nat
           /\ scan.fetched = scan.offset /\ scan.offset + Len(page) <= Len(table)
           /\ Len(page) # PageSize => scan.offset + Len(page) = Len(table)
           /\ Len(page) = 0 => scan.offset = Len(table)
           /\ UnderCap /\ H.pages # "counted" /\ ~(scan.pages + 1 < MaxPages)
                => scan.offset + Len(page) = Len(table)
PROOF
<1>1. /\ scan.offset \in Nat /\ scan.pages \in Nat /\ PageSize \in Nat \ {0} /\ MaxPages \in Nat
  BY DEF TypeOK, Scan, NodeAssumption
<1>2. scan.fetched = scan.offset /\ scan.offset <= Len(table)
  BY DEF PagesInv, Counts
<1>3. /\ Len(page) \in Nat /\ Len(table) \in Nat
      /\ scan.offset + PageSize <= Len(table) => Len(page) = PageSize
      /\ Len(table) < scan.offset + PageSize => Len(page) = Len(table) - scan.offset
  BY <1>1, <1>2, PageRecords
<1>4. ASSUME UnderCap, H.pages # "counted", ~(scan.pages + 1 < MaxPages)
      PROVE  Len(table) < scan.offset + PageSize
  <2>1. scan.offset = scan.pages * PageSize /\ scan.pages + 1 = MaxPages
    BY <1>1, <1>4 DEF PagesInv, Counts
  <2>2. (scan.pages + 1) * PageSize = scan.pages * PageSize + PageSize
    BY <1>1
  <2>3. Len(table) < (scan.pages + 1) * PageSize
    BY <1>4, <2>1 DEF UnderCap
  <2> QED BY <2>1, <2>2, <2>3
<1> QED BY <1>1, <1>2, <1>3, <1>4

\* What is left when a loop is done: a page that is not followed by another.
LEMMA PageEnds ==
    ASSUME NodeAssumption, TypeOK, PagesInv, Reading, UNCHANGED table, item' = item + 1,
           met'[item] \cap Amiss = {},
           NEW page, page = PageAt(scan.offset),
           \/ H.pages = "plain" /\ PlainPage(page)
           \/ H.pages = "patient" /\ PatientPage(page)
           \/ H.pages = "counted" /\ CountedPage(page, Len(table), {})
    PROVE  LastPage
PROOF
<1>1. /\ scan \in Scan /\ scan.offset \in Nat /\ phase = "item" /\ item \in ItemSet
      /\ PageSize \in Nat \ {0}
  BY DEF TypeOK, Scan, Reading, NodeAssumption
<1>2. page \in Seq(Int) /\ Rows(page) \in Seq(Row) /\ scan.got \o Rows(page) \in Seq(Row)
  BY <1>1, PageTyped, RowsTyped, ScanTyped
<1>3. ~UNCHANGED item
  BY <1>1 DEF ItemSet
<1>4. CASE H.pages # "counted"
  <2>1. PICK got : got = scan.got \o Rows(page)
    OBVIOUS
  <2>2. got \in Seq(Row) /\ out[item] = <<>> /\ SoFar = scan.got
    BY <1>2, <1>4, <2>1 DEF PagesInv, Counts, SoFar
  <2>3. /\ Finish(got, {}) \/ Throw({"capped"})
        /\ \/ Throw({"capped"})
           \/ ~(Len(page) = PageSize /\ scan.pages + 1 < MaxPages)
           \/ Len(page) # PageSize \/ page = <<>>
    BY <1>3, <1>4, <2>1 DEF PlainPage, PatientPage, Continue
  <2>4. ~Throw({"capped"})
    BY <1>1, <1>2, TellsAmiss DEF Amiss
  <2>5. /\ met'[item] = met[item] \cup {} /\ out'[item] = out[item] \o got
    BY <1>1, <2>2, <2>3, <2>4, AddsTo DEF Finish
  <2>6. <<>> \o got = got
    BY <2>2
  <2>7. met[item] \subseteq {"inserted"} /\ UnderCap => scan.offset + Len(page) = Len(table)
    <3> SUFFICES ASSUME met[item] \subseteq {"inserted"}, UnderCap
                 PROVE  scan.offset + Len(page) = Len(table)
      OBVIOUS
    <3>1. page = <<>> => Len(page) = 0
      OBVIOUS
    <3>2. Len(page) # PageSize \/ ~(scan.pages + 1 < MaxPages)
      BY <1>1, <2>3, <2>4, <3>1
    <3> QED BY <1>4, <3>2, BelowCap
  <2> QED BY <2>1, <2>2, <2>5, <2>6, <2>7 DEF LastPage
<1>5. CASE H.pages = "counted"
  <2>1. PICK rows : rows = Rows(page)
    OBVIOUS
  <2>2. rows \in Seq(Row) /\ SoFar = out[item]
    BY <1>2, <1>5, <2>1 DEF SoFar
  <2>3. /\ Finish(rows, {})
        /\ ~(scan.fetched + Len(page) > 0 /\ scan.fetched + Len(page) < Len(table))
    BY <1>3, <1>5, <2>1 DEF CountedPage, Continue
  <2>4. met'[item] = met[item] \cup {} /\ out'[item] = out[item] \o rows
    BY <1>1, <2>2, <2>3, AddsTo DEF Finish
  <2>5. met[item] \subseteq {"inserted"} => scan.offset + Len(page) = Len(table)
    <3> SUFFICES ASSUME met[item] \subseteq {"inserted"}
                 PROVE  scan.offset + Len(page) = Len(table)
      OBVIOUS
    <3>1. /\ scan.offset \in Nat /\ Len(table) \in Nat /\ Len(page) \in Nat
          /\ scan.fetched = scan.offset /\ scan.offset + Len(page) <= Len(table)
          /\ Len(page) = 0 => scan.offset = Len(table)
      BY BelowCap
    <3> QED BY <2>3, <3>1
  <2> QED BY <2>1, <2>2, <2>4, <2>5 DEF LastPage
<1> QED BY <1>4, <1>5

\* Of all steps, only the answer to a last page ends a loop with nothing amiss.
LEMMA LoopEnds ==
    ASSUME NodeAssumption, IndInv, PagesInv, [Next]_vars, item \in ItemSet,
           item' = item + 1, Scanning, met'[item] \cap Amiss = {}
    PROVE  LastPage
PROOF
<1>0. TypeOK /\ item' # item /\ scan \in Scan /\ <<>> \in Seq(Row)
  BY DEF IndInv, ItemSet, TypeOK
<1>1. \A newScan, rows, events : ~Continue(newScan, rows, events)
  BY <1>0 DEF Continue
<1>2. ASSUME phase = "item", NEW events, Throw(events), events \cap Amiss # {} PROVE FALSE
  BY <1>0, <1>2, TellsAmiss
<1>3. ASSUME phase = "item", NEW rows \in Seq(Row), NEW events, Finish(rows, events),
             events \cap Amiss # {}
      PROVE  FALSE
  BY <1>0, <1>3, TellsAmiss
<1>4. ~Throw({"bad"}) \/ phase # "item"
  BY <1>2 DEF Amiss
<1>5. CASE RejectParameters
  BY <1>4, <1>5 DEF RejectParameters
<1>6. CASE AnswerOne \/ AnswerWrite
  <2>1. H.kind = "list"
    BY <1>0, <1>6, ScanningLists DEF AnswerOne, AnswerWrite, Running
  <2> QED BY <1>6, <2>1 DEF AnswerOne, AnswerWrite
<1>7. CASE AnswerPage
  <2>1. Reading /\ UNCHANGED table
    BY <1>7 DEF AnswerPage, Running, Reading, Proper
  <2>2. PICK page : page = PageAt(scan.offset)
    OBVIOUS
  <2>3. \/ H.pages = "plain" /\ PlainPage(page)
        \/ H.pages = "patient" /\ PatientPage(page)
        \/ H.pages = "counted" /\ CountedPage(page, Len(table), {})
    BY <1>7, <2>2 DEF AnswerPage
  <2> QED BY <1>0, <2>1, <2>2, <2>3, PageEnds
<1>8. CASE AnswerMinimal
  <2>1. Reading /\ UNCHANGED table /\ scan.minimal /\ phase = "item"
    BY <1>8 DEF AnswerMinimal, Running, Reading, Proper
  <2>2. PICK page : page = PageAt(scan.offset)
    OBVIOUS
  <2>3. H.pages = "patient" /\ PatientPage(page)
    BY <1>4, <1>8, <2>1, <2>2 DEF AnswerMinimal, PagesInv, Counts
  <2> QED BY <1>0, <2>1, <2>2, <2>3, PageEnds
<1>9. CASE AnswerErrors
  BY <1>1, <1>4, <1>9 DEF AnswerErrors, Running
<1>10. CASE AnswerPartial
  <2>1. phase = "item" /\ "partial" \in {"partial"} \cap Amiss
    BY <1>10 DEF AnswerPartial, Running, Amiss
  <2>2. scan.got \in Seq(Row) /\ Rows(<<>>) \in Seq(Row)
    <3>1. <<>> \in Seq(Int)
      OBVIOUS
    <3> QED BY <1>0, <3>1, RowsTyped DEF Scan
  <2>3. ~Finish(scan.got, {"partial"})
    BY <1>3, <2>1, <2>2
  <2>4. \A total : ~CountedPage(<<>>, total, {"partial"})
    BY <1>1, <1>3, <2>1, <2>2 DEF CountedPage
  <2> QED BY <1>4, <1>10, <2>1, <2>3, <2>4 DEF AnswerPartial
<1>11. CASE AnswerOdd
  <2>1. phase = "item" /\ "odd" \in {"odd"} \cap Amiss
    BY <1>11 DEF AnswerOdd, Running, Amiss
  <2>2. scan.got \in Seq(Row)
    BY <1>0 DEF Scan
  <2>3. ~Finish(scan.got, {"odd"}) /\ ~Finish(Mark("note"), {"odd"})
    BY <1>3, <2>1, <2>2, MarkTyped
  <2> QED BY <1>4, <1>11, <2>1, <2>3 DEF AnswerOdd
<1>12. CASE AnswerFails
  BY <1>1, <1>4, <1>12 DEF AnswerFails, Running
<1>13. CASE AnswerList
  BY <1>13 DEF AnswerList
<1>14. CASE TokenGranted \/ TokenRefused \/ TokenMissing \/ RowAdded \/ RowRemoved \/ UNCHANGED vars
  BY <1>0, <1>14 DEF TokenGranted, TokenRefused, TokenMissing, RowAdded, RowRemoved, Changed, vars
<1> QED BY <1>5, <1>6, <1>7, <1>8, <1>9, <1>10, <1>11, <1>12, <1>13, <1>14
        DEF Next, Answer, Trouble, Returned

-----------------------------------------------------------------------------
(* What has been read when a loop ends.                                     *)

LEMMA EndsTyped ==
    ASSUME NodeAssumption, TypeOK, PagesInv, LastPage, NEW page, page = PageAt(scan.offset),
           NEW rows, rows = out'[item]
    PROVE  /\ SoFar \in Seq(Row) /\ scan.offset \in Nat /\ rows = SoFar \o Rows(page)
           /\ rows \in Seq(Row) /\ OnlyRecords(rows)
           /\ Len(page) \in Nat /\ Len(page) <= PageSize /\ PageSize \in Nat
           /\ Len(table) \in Nat /\ DOMAIN table = 1..Len(table)
PROOF
<1>1. item \in ItemSet /\ scan.offset \in Nat /\ SoFar \in Seq(Row)
  BY DEF TypeOK, Scan, SoFar, LastPage, Reading
<1>2. rows = SoFar \o Rows(page)
  BY DEF LastPage
<1>3. OnlyRecords(SoFar)
  BY DEF LastPage, PagesInv, ReadSoFar
<1>4. OnlyRecords(rows)
  BY <1>1, <1>2, <1>3, ReadsOnlyRecords
<1>5. /\ page \in Seq(Int) /\ Len(page) \in Nat /\ Len(table) \in Nat /\ PageSize \in Nat
      /\ scan.offset + PageSize <= Len(table) => Len(page) = PageSize
      /\ scan.offset <= Len(table) /\ Len(table) < scan.offset + PageSize
           => Len(page) = Len(table) - scan.offset
      /\ scan.offset >= Len(table) => Len(page) = 0
  BY <1>1, PageRecords DEF NodeAssumption
<1>6. Len(page) <= PageSize
  BY <1>1, <1>5
<1>7. rows \in Seq(Row)
  BY <1>1, <1>2, <1>5, RowsTyped
<1> QED BY <1>1, <1>2, <1>4, <1>5, <1>6, <1>7 DEF TypeOK

\* Nothing was changed meanwhile: the rows are those of the table.
LEMMA EndsWhole ==
    ASSUME NodeAssumption, TypeOK, PagesInv, LastPage, met[item] = {}, UnderCap
    PROVE  out'[item] = Rows(table)
PROOF
<1>1. PICK page : page = PageAt(scan.offset)
  OBVIOUS
<1>2. PICK rows : rows = out'[item]
  OBVIOUS
<1>3. /\ SoFar \in Seq(Row) /\ scan.offset \in Nat /\ rows = SoFar \o Rows(page)
      /\ rows \in Seq(Row) /\ Len(table) \in Nat /\ DOMAIN table = 1..Len(table)
  BY <1>1, <1>2, EndsTyped
<1>4. Whole(SoFar, scan.offset)
  BY DEF LastPage, PagesInv, ReadSoFar
<1>5. Whole(rows, scan.offset + Len(page))
  BY <1>1, <1>3, <1>4, ReadsWhole
<1>6. scan.offset + Len(page) = Len(table)
  BY <1>1 DEF LastPage
<1>7. Len(rows) = Len(table)
      /\ \A k \in 1..Len(table) : rows[k] = [is |-> "row", id |-> table[k]]
  BY <1>5, <1>6 DEF Whole
<1>8. rows = [k \in 1..Len(table) |-> [is |-> "row", id |-> table[k]]]
  <2>1. rows \in [1..Len(rows) -> Row]
    BY ONLY <1>3, LenProperties
  <2>2. rows = [k \in 1..Len(rows) |-> rows[k]]
    BY ONLY <2>1
  <2> QED BY ONLY <1>7, <2>2
<1> QED BY <1>2, <1>3, <1>8 DEF Rows

\* Records were added meanwhile: the old ones are all among the rows.
LEMMA EndsHidingNone ==
    ASSUME NodeAssumption, TypeOK, PagesInv, LastPage, met[item] \subseteq {"inserted"}, UnderCap
    PROVE  {r \in Stored : r > 0} \subseteq Ids(out'[item])
PROOF
<1>1. PICK page : page = PageAt(scan.offset)
  OBVIOUS
<1>2. PICK rows : rows = out'[item]
  OBVIOUS
<1>3. /\ SoFar \in Seq(Row) /\ scan.offset \in Nat /\ rows = SoFar \o Rows(page)
      /\ OnlyRecords(rows) /\ Len(table) \in Nat /\ DOMAIN table = 1..Len(table)
      /\ Len(page) \in Nat /\ Len(page) <= PageSize /\ PageSize \in Nat
  BY <1>1, <1>2, EndsTyped
<1>4. NoneHidden(SoFar, scan.offset)
  BY DEF LastPage, PagesInv, ReadSoFar
<1>5. NoneHidden(rows, scan.offset + PageSize)
  BY <1>1, <1>3, <1>4, ReadsHideNone
<1>6. scan.offset + Len(page) = Len(table)
  BY <1>1 DEF LastPage
<1>7. ASSUME NEW k \in DOMAIN table, table[k] > 0 PROVE table[k] \in Ids(rows)
  <2>1. k <= scan.offset + PageSize
    BY <1>3, <1>6
  <2>2. PICK i \in DOMAIN rows : rows[i].id = table[k]
    BY <1>5, <1>7, <2>1 DEF NoneHidden
  <2>3. rows[i].is = "row"
    BY <1>3 DEF OnlyRecords
  <2> QED BY <2>2, <2>3 DEF Ids
<1> QED BY <1>2, <1>7 DEF Stored

\* Records were removed meanwhile: no row is there twice.
LEMMA EndsNoneTwice ==
    ASSUME NodeAssumption, TypeOK, PagesInv, LastPage, met[item] \subseteq {"removed"}
    PROVE  Cardinality(Ids(out'[item])) = Len(out'[item])
PROOF
<1>1. PICK page : page = PageAt(scan.offset)
  OBVIOUS
<1>2. PICK rows : rows = out'[item]
  OBVIOUS
<1>3. /\ SoFar \in Seq(Row) /\ scan.offset \in Nat /\ rows = SoFar \o Rows(page)
      /\ rows \in Seq(Row) /\ OnlyRecords(rows)
  BY <1>1, <1>2, EndsTyped
<1>4. NoneTwice(SoFar, scan.offset) /\ Distinct
  BY DEF LastPage, PagesInv, ReadSoFar
<1>5. NoneTwice(rows, scan.offset + PageSize)
  BY <1>1, <1>3, <1>4, ReadsNoneTwice
<1> QED BY <1>2, <1>3, <1>5, AsManyAsIds, Zenon

\* "Fetch All Pages" returns the whole list when all went well: the records of
\* OPS, in its order, none twice and none missing.
THEOREM WholeLists == Spec => WholeListReturned
PROOF
<1>1. ASSUME NodeAssumption, IndInv, PagesInv, [Next]_vars
      PROVE  [\A j \in ItemSet : FetchedAll(j) /\ met'[j] = {} /\ UnderCap
                  => out'[j] = Rows(table)]_vars
  <2> SUFFICES ASSUME NEW j \in ItemSet, FetchedAll(j), met'[j] = {}, UnderCap
               PROVE  out'[j] = Rows(table)
    OBVIOUS
  <2>1. item = j /\ item' = item + 1 /\ Scanning
    BY DEF FetchedAll
  <2>2. LastPage
    BY <1>1, <2>1, LoopEnds
  <2>3. TypeOK /\ met[item] = {}
    BY <1>1, <2>1, <2>2 DEF IndInv, LastPage
  <2> QED BY <1>1, <2>1, <2>2, <2>3, EndsWhole
<1> QED BY <1>1, NodeAssumption, ReadsInvariance, PTL DEF Spec, WholeListReturned

\* Concurrent changes drift one way only: added records hide no old one, and
\* removed ones make no other appear twice.
THEOREM OneSidedDrift == Spec => DriftIsOneSided
PROOF
<1>1. ASSUME NodeAssumption, IndInv, PagesInv, [Next]_vars
      PROVE  [\A j \in ItemSet : FetchedAll(j) /\ UnderCap =>
                /\ met'[j] = {"inserted"} =>
                       {r \in Stored : r > 0} \subseteq Ids(out'[j])
                /\ met'[j] = {"removed"} =>
                       Cardinality(Ids(out'[j])) = Len(out'[j])]_vars
  <2> SUFFICES ASSUME NEW j \in ItemSet, FetchedAll(j), UnderCap
               PROVE  /\ met'[j] = {"inserted"} =>
                             {r \in Stored : r > 0} \subseteq Ids(out'[j])
                      /\ met'[j] = {"removed"} =>
                             Cardinality(Ids(out'[j])) = Len(out'[j])
    OBVIOUS
  <2>1. item = j /\ item' = item + 1 /\ Scanning
    BY DEF FetchedAll
  <2>2. ASSUME met'[j] \in {{"inserted"}, {"removed"}} PROVE TypeOK /\ LastPage /\ met[j] = met'[j]
    <3>1. LastPage
      BY <1>1, <2>1, <2>2, LoopEnds DEF Amiss
    <3> QED BY <1>1, <2>1, <3>1 DEF IndInv, LastPage
  <2>3. CASE met'[j] = {"inserted"}
    BY <1>1, <2>1, <2>2, <2>3, EndsHidingNone
  <2>4. CASE met'[j] = {"removed"}
    BY <1>1, <2>1, <2>2, <2>4, EndsNoneTwice
  <2> QED BY <2>3, <2>4
<1> QED BY <1>1, NodeAssumption, ReadsInvariance, PTL DEF Spec, DriftIsOneSided
==============================================================================
