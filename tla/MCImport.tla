------------------------------ MODULE MCImport ------------------------------
(***************************************************************************)
(* Constants for the runs of ChainImport: a few transactions, and the      *)
(* chains that other nodes mined from them.                                *)
(***************************************************************************)
EXTENDS ImportProperties

\* What the theorems about imports assume of the offers.
ASSUME MinedOffers == OffersMined

P(ct, it) == [t \in Token |-> IF t = "ct" THEN ct ELSE it]

T(from, to, nonce, amount, fee, selector) ==
    [from |-> from, to |-> to, nonce |-> nonce, amount |-> amount, fee |-> fee,
     selector |-> selector, signed |-> TRUE]

\* The block that mine_block makes for miner m at height n, below the cap.
B(m, n, txs) == [miner    |-> m,
                 coinbase |-> Plus(DecaySchedule[n], FeeTotal(txs)),
                 fees     |-> FeeTotal(txs),
                 txs      |-> txs]

-----------------------------------------------------------------------------
(* Amounts far below the modulus. *)

Reward == P(4, 4)
Cap    == P(20, 20)

Pay    == T(1, 2, 1, P(1, 0), 1, 0)
PayTwo == T(1, 2, 2, P(0, 1), 1, 2)
Back   == T(2, 1, 1, P(1, 1), 0, 0)
Late   == T(1, 1, 3, P(0, 0), 0, 0)
Big    == T(1, 2, 1, P(5, 0), 0, 0)

\* Two nodes that nobody pre-funded.
Short == <<B(1, 1, {}), B(2, 2, {Pay})>>
Long  == <<B(1, 1, {}), B(2, 2, {Pay}), B(2, 3, {PayTwo, Back})>>
\* The sender's account came from add_account, before its first coinbase or
\* with more than its coinbases.
Prefunded == <<B(2, 1, {}), B(2, 2, {Pay})>>
Overspent == <<B(1, 1, {}), B(2, 2, {Big})>>
\* Refused: the transaction with nonce 2 was dropped; a genesis block.
Gap         == <<B(1, 1, {}), B(1, 2, {Pay, Late})>>
WithGenesis == <<Genesis, B(1, 1, {})>>

ImportTxs    == {Pay, PayTwo, Back, Late, Big}
ImportOffers == {Short, Long, Prefunded, Overspent, Gap, WithGenesis}
ImportDeposits == {P(3, 2)}

-----------------------------------------------------------------------------
(* The chains of the runs that show a disagreement. *)

OnePay       == {Pay}
ShortOffer   == {Short}
LowCap       == P(5, 9)

-----------------------------------------------------------------------------
(* A node with overflow checks and peers, release builds, at the edge of the *)
(* type: account 1 began with 12 on the node that mined these chains.        *)

EdgeReward == P(4, 3)
EdgeCap    == P(11, 9)

Wrap      == T(1, 2, 1, P(9, 0), 7, 0)
Eight     == T(1, 2, 1, P(8, 0), 0, 0)
Seven     == T(1, 2, 2, P(7, 0), 0, 0)
Twelve    == T(1, 2, 1, P(12, 0), 3, 0)
FeeOne    == T(1, 1, 1, P(0, 0), 7, 0)
FeeTwo    == T(1, 1, 2, P(0, 0), 7, 0)

DebitOver    == <<B(1, 1, {}), B(2, 2, {Wrap})>>
CreditOver   == <<B(1, 1, {}), B(2, 2, {}), B(2, 3, {Eight, Seven})>>
MinerOver    == <<B(1, 1, {}), B(2, 2, {Twelve})>>
BeyondCap    == <<B(1, 1, {}), B(2, 2, {FeeOne})>>
EmissionOver == <<B(1, 1, {}), B(2, 2, {FeeOne}), B(1, 3, {FeeTwo})>>

EdgeTxs    == {Wrap, Eight, Seven, Twelve, FeeOne, FeeTwo}
EdgeOffers == {DebitOver, CreditOver, MinerOver, BeyondCap, EmissionOver}
EdgeDeposits == {P(12, 1)}

=============================================================================
