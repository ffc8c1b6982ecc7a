----------------------------- MODULE MCTwoNodes -----------------------------
(***************************************************************************)
(* Constants for the runs of TwoNodes: one wallet with three payments, of  *)
(* which the second may be dropped.  The first can be paid with the reward *)
(* of one block, the other two with those of two.                          *)
(***************************************************************************)
EXTENDS TwoNodes

P(ct, it) == [t \in Token |-> IF t = "ct" THEN ct ELSE it]

T(from, to, nonce, amount, fee, selector) ==
    [from |-> from, to |-> to, nonce |-> nonce, amount |-> amount, fee |-> fee,
     selector |-> selector, signed |-> TRUE]

Reward == P(4, 4)
Cap    == P(20, 20)

Pay     == T(1, 2, 1, P(1, 0), 1, 0)
PayTwo  == T(1, 2, 2, P(0, 3), 1, 2)
PayMore == T(1, 2, 3, P(3, 1), 0, 0)

OnePay  == {Pay}
NodeTxs == {Pay, PayTwo, PayMore}

=============================================================================
