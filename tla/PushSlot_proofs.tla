--------------------------- MODULE PushSlot_proofs ---------------------------
(* What PushSlot promises, for any number of pushes and slots.              *)
EXTENDS PushSlot, TLAPS

\* Every push stays in one of the phases, and at its home slot or none.
THEOREM SlotTyping == Spec => []TypeOK
PROOF
<1>1. Init => TypeOK
  BY DEF Init, TypeOK, Phases
<1>2. TypeOK /\ [Next]_vars => TypeOK'
  <2> SUFFICES ASSUME TypeOK, [Next]_vars PROVE TypeOK'
    OBVIOUS
  <2> USE DEF TypeOK, Phases
  <2>1. ASSUME NEW r \in Rows, NEW s \in Slots, Accept(r, s) PROVE TypeOK'
    BY <2>1 DEF Accept
  <2>2. ASSUME NEW r \in Rows, Start(r) \/ Settle(r) \/ Abandon(r) \/ Retry(r) PROVE TypeOK'
    BY <2>2 DEF Start, Settle, Abandon, Retry, Move
  <2>3. ASSUME NEW S \in SUBSET Rows, WriteOff(S) PROVE TypeOK'
    BY <2>3 DEF WriteOff
  <2>4. CASE UNCHANGED vars
    BY <2>4 DEF vars
  <2> QED BY <2>1, <2>2, <2>3, <2>4 DEF Next
<1> QED BY <1>1, <1>2, PTL DEF Spec

\* Pushes of one storefront product never run into each other: the promise
\* execute_push and the partial unique index together have to keep.
THEOREM SlotExclusion == Spec => []SlotExclusive
PROOF
<1>1. Init => SlotExclusive
  BY DEF Init, SlotExclusive
<1>2. TypeOK /\ SlotExclusive /\ [Next]_vars => SlotExclusive'
  <2> SUFFICES ASSUME TypeOK, SlotExclusive, [Next]_vars PROVE SlotExclusive'
    OBVIOUS
  <2> USE DEF TypeOK, SlotExclusive
  <2>1. ASSUME NEW r \in Rows, NEW s \in Slots, Accept(r, s) PROVE SlotExclusive'
    BY <2>1 DEF Accept
  <2>2. ASSUME NEW r \in Rows, Start(r) PROVE SlotExclusive'
    BY <2>2 DEF Start, Move, Closed
  <2>3. ASSUME NEW r \in Rows, Settle(r) \/ Abandon(r) \/ Retry(r) PROVE SlotExclusive'
    BY <2>3 DEF Settle, Abandon, Retry, Move
  <2>4. ASSUME NEW S \in SUBSET Rows, WriteOff(S) PROVE SlotExclusive'
    BY <2>4 DEF WriteOff
  <2>5. CASE UNCHANGED vars
    BY <2>5 DEF vars
  <2> QED BY <2>1, <2>2, <2>3, <2>4, <2>5 DEF Next
<1> QED BY <1>1, <1>2, SlotTyping, PTL DEF Spec
=============================================================================
