------------------------------ MODULE MCLedger ------------------------------
(***************************************************************************)
(* Constants for the runs of Ledger: a few accounts and the transactions   *)
(* their wallets may submit.  Amounts are small and so is the modulus; the *)
(* interesting edges (supply cap, overflow, unaffordable and out-of-order  *)
(* transactions) lie within them.                                          *)
(***************************************************************************)
EXTENDS AtomicRefinement

P(ct, it) == [t \in Token |-> IF t = "ct" THEN ct ELSE it]

T(from, to, nonce, amount, fee, selector) ==
    [from |-> from, to |-> to, nonce |-> nonce, amount |-> amount, fee |-> fee,
     selector |-> selector, signed |-> TRUE]

-----------------------------------------------------------------------------
(* Supply-bounded: what wallets sign and callers deposit stays far below   *)
(* the modulus, as for any real amount of a 2 * 10^13 supply in a u64.     *)

SupplyDeposits == {P(6, 4)}
SupplyReward   == P(4, 3)
SupplyCap      == P(4, 9)
SupplyTxs ==
    { T(1, 2, 1, P(1, 0), 2, 0),     T(1, 2, 2, P(1, 1), 3, 2),
      T(1, 1, 2, P(0, 0), 1, 1),     T(1, 3, 3, P(1, 2), 0, 2),
      T(2, 1, 1, P(5, 0), 1, 2),     T(2, 1, 2, P(0, 1), 0, 0),
      [T(1, 3, 1, P(0, 0), 0, 0) EXCEPT !.signed = FALSE],
      T(1, 3, 1, P(0, 0), 0, 7) }

-----------------------------------------------------------------------------
(* Overflow: amounts and fees reach the modulus, one account is the zero   *)
(* address, and fees can exceed what a coinbase holds.                     *)

EdgeDeposits == {P(14, 2)}
EdgeReward   == P(4, 3)
EdgeCap      == P(4, 5)
EdgeTxs ==
    { T(1, 2, 1, P(0, 0), 7, 0),     T(2, 1, 1, P(2, 0), 7, 2),
      T(1, 2, 2, P(9, 1), 7, 0),     T(2, 2, 2, P(0, 1), 7, 0),
      T(1, 1, 2, P(1, 0), 0, 0),
      T(0, 1, 1, P(3, 2), 0, 1),     T(0, 2, 2, P(9, 0), 1, 0) }

-----------------------------------------------------------------------------
(* One transaction whose amount + fee is exactly the modulus.              *)

WrapTxs == {T(1, 2, 1, P(9, 0), 7, 0)}

=============================================================================
