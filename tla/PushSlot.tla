------------------------------- MODULE PushSlot -------------------------------
(***************************************************************************)
(* What the gateway promises about the live pushes of one storefront,      *)
(* whatever queue, workers and retries are underneath: a push waits, is    *)
(* executed at most once at a time and never beside another push of its    *)
(* (customer, product) slot, and ends in a result that stands until        *)
(* somebody asks for a retry. An execution that is given up keeps its slot *)
(* closed until the push is written off.                                   *)
(***************************************************************************)
EXTENDS Naturals

CONSTANTS Rows, Slots, NoSlot

VARIABLES
    phase,   \* where each push is in its life
    home     \* the slot it is for

vars == <<phase, home>>

Phases == {"absent", "waiting", "active", "abandoned", "settled"}

TypeOK == phase \in [Rows -> Phases] /\ home \in [Rows -> Slots \cup {NoSlot}]

Init ==
    /\ phase = [r \in Rows |-> "absent"]
    /\ home = [r \in Rows |-> NoSlot]

Move(r, from, to) ==
    /\ phase[r] \in from
    /\ phase' = [phase EXCEPT ![r] = to]
    /\ UNCHANGED home

Accept(r, s) ==
    /\ phase[r] = "absent"
    /\ phase' = [phase EXCEPT ![r] = "waiting"]
    /\ home' = [home EXCEPT ![r] = s]

\* The slot is closed while one of its pushes is active or abandoned.
Closed(s) == \E q \in Rows : home[q] = s /\ phase[q] \in {"active", "abandoned"}

Start(r)   == Move(r, {"waiting"}, "active") /\ ~Closed(home[r])
Settle(r)  == Move(r, {"active"}, "settled")
Abandon(r) == Move(r, {"active"}, "abandoned")
Retry(r)   == Move(r, {"settled"}, "waiting")

\* Pushes nobody is executing are written off, several at once.
WriteOff(S) ==
    /\ \A r \in S : phase[r] \in {"waiting", "abandoned"}
    /\ phase' = [r \in Rows |-> IF r \in S THEN "settled" ELSE phase[r]]
    /\ UNCHANGED home

Next ==
    \/ \E S \in SUBSET Rows : WriteOff(S)
    \/ \E r \in Rows :
        \/ \E s \in Slots : Accept(r, s)
        \/ Start(r) \/ Settle(r) \/ Abandon(r) \/ Retry(r)

Spec == Init /\ [][Next]_vars

\* Two pushes of one slot are never active together.
SlotExclusive ==
    \A q, r \in Rows :
        phase[q] = "active" /\ phase[r] = "active" /\ home[q] = home[r] => q = r
===============================================================================
