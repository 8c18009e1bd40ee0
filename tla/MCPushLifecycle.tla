--------------------------- MODULE MCPushLifecycle ---------------------------
(* Small instances of PushLifecycle for TLC.                                *)
EXTENDS PushLifecycle, TLC

CONSTANTS r1, r2, r3, w1, w2, a1, a2, s1, k1

\* Bodies for one slot: a plain live push, one with an idempotency key, one
\* that wants to be called back, and a dry run.
LivePush     == [key |-> NoKey, slot |-> s1, dry |-> FALSE, callback |-> FALSE]
KeyedPush    == [key |-> k1, slot |-> s1, dry |-> FALSE, callback |-> FALSE]
CallbackPush == [key |-> NoKey, slot |-> s1, dry |-> FALSE, callback |-> TRUE]
DryPush      == [key |-> NoKey, slot |-> s1, dry |-> TRUE, callback |-> FALSE]

LiveCalls     == {LivePush, [KeyedPush EXCEPT !.callback = TRUE]}
CallbackCalls == {CallbackPush, KeyedPush}
PreviewCalls  == {CallbackPush, DryPush}
AllCalls      == CallbackCalls \cup PreviewCalls
OneLive       == {LivePush}
OneKeyed      == {KeyedPush}

Symmetry == Permutations(Rows) \cup Permutations(Workers) \cup Permutations(Servers)
=============================================================================
