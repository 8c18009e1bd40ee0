----------------------------- MODULE MCOpsNode -----------------------------
(***************************************************************************)
(* Instance of OpsNode for TLC.  The first item takes every handler with   *)
(* every setting; the second is a write that swallows odd answers, a       *)
(* checked write that reports them, or a single-page list, which is what   *)
(* the first item can affect.                                              *)
(***************************************************************************)
EXTENDS OpsNode

MCLengths == {0, 3, 5}

Seconds == {[h |-> h, all |-> FALSE, valid |-> v, safe |-> FALSE] :
                h \in {mutation_setBatch, product_updateStock,
                       customerAddress_getAll}, v \in BOOLEAN} \cap Job

MCInit ==
    /\ Init
    /\ \A j \in ItemSet \ {1} : job[j] \in Seconds

MCSpec == MCInit /\ [][Next]_vars /\ WF_vars(Answer)
=============================================================================
