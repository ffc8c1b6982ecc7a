--------------------------- MODULE BlockValidation ---------------------------
(***************************************************************************)
(* The two validators of src/lib.rs: validate_block, which a node asks     *)
(* about a block read against its own accounts, and the test that          *)
(* is_valid_chain_rust makes of every block of an incoming chain, against  *)
(* nothing but the block.  `body` is the vector of the transactions after  *)
(* the coinbase, in block order.  The links, difficulty, hashes and proofs *)
(* of work are taken as correct: mine_block produces them and Ledger does  *)
(* not represent them.                                                     *)
(***************************************************************************)
EXTENDS Ledger

\* the transactions of sender a among the first n of body
Sent(body, a, n) == {i \in 1 .. n : body[i].from = a}

\* Mutant: the transactions of the block are not discounted.
StartAtCurrent(body, a) == accounts[a].nonce

\* `start`: the sender's current nonce less its transactions in the block
StartNonce(body, a) ==
    SatSub(accounts[a].nonce, Cardinality(Sent(body, a, Len(body))))

\* every sender's nonces count up by one from its start
NoncesRun(body) ==
    \A i \in DOMAIN body :
        body[i].from # ZERO_ADDR =>
            body[i].nonce = StartNonce(body, body[i].from)
                            + Cardinality(Sent(body, body[i].from, i))

ValidateBlock(b, body) ==
    /\ b.miner # NoMiner                       \* transactions.is_empty()
    /\ \A i \in DOMAIN body : FeeOk(body[i].selector, body[i].fee)
    /\ NoncesRun(body)
    /\ IsInjective(body)                       \* no tx.id() twice
    /\ FeeTotal(Range(body)) = b.fees          \* fee_checksum
    /\ \A t \in Token : b.coinbase[t] >= b.fees[t]

-----------------------------------------------------------------------------
(* is_valid_chain_rust *)

\* Mutant: the nonces of a sender have to increase, but may skip.
RisesFromFirst(body) ==
    \A i, j \in DOMAIN body :
        (i < j /\ body[i].from = body[j].from /\ body[i].from # ZERO_ADDR) =>
            body[i].nonce < body[j].nonce

\* every sender's nonces count up by one from its first in the block
RunsFromFirst(body) ==
    \A i \in DOMAIN body :
        body[i].from # ZERO_ADDR =>
            body[i].nonce = body[Min(Sent(body, body[i].from, i))].nonce
                            + Cardinality(Sent(body, body[i].from, i)) - 1

AcceptedByPeers(b, body) ==
    /\ b.miner # NoMiner
    /\ \A i \in DOMAIN body : body[i].from # ZERO_ADDR => verify_signed_tx(body[i])
    /\ RunsFromFirst(body)
    /\ IsInjective(body)
    /\ \A i \in DOMAIN body : FeeOk(body[i].selector, body[i].fee)
    /\ FeeTotal(Range(body)) = b.fees
    /\ \A t \in Token : b.coinbase[t] >= b.fees[t]

\* The transactions of a block that mine_block produced, in block order: the one at
\* i has i - 1 others before it.
Body(b) ==
    [i \in 1 .. Cardinality(b.txs) |->
        CHOOSE tx \in b.txs : Cardinality({q \in b.txs : Before(q, tx)}) = i - 1]

=============================================================================
