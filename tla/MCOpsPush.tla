------------------------------ MODULE MCOpsPush ------------------------------
(***************************************************************************)
(* Instances of OpsPush for TLC.                                           *)
(***************************************************************************)
EXTENDS OpsPush, TLC

\* A size and its price, the gallery between them.
SmallPlan    == <<"size", "gallery", "price">>
SmallNeeds   == (0 :> {}) @@ (1 :> {}) @@ (2 :> {}) @@ (3 :> {1})
SmallKey     == (0 :> "sku") @@ (1 :> "size") @@ (2 :> "images") @@ (3 :> "variant")

\* The same with an option the gallery refers to.
OptionPlan   == <<"size", "option", "gallery", "price">>
OptionNeeds  == (0 :> {}) @@ (1 :> {}) @@ (2 :> {}) @@ (3 :> {2}) @@ (4 :> {1})
OptionKey    == (0 :> "sku") @@ (1 :> "size") @@ (2 :> "option") @@ (3 :> "images") @@ (4 :> "variant")

\* Two sizes of a product without colours: size and price of a variant have
\* one source key.
SizesPlan    == <<"size1", "size2", "price1", "price2">>
SizesNeeds   == (0 :> {}) @@ (1 :> {}) @@ (2 :> {}) @@ (3 :> {1}) @@ (4 :> {2})
SizesKey     == (0 :> "sku") @@ (1 :> "v1") @@ (2 :> "v2") @@ (3 :> "v1") @@ (4 :> "v2")

SmallGallery == {"gallery"}

AllFaults == FaultKinds

Symmetry == Permutations(Rows) \cup Permutations(Ids)
=============================================================================
