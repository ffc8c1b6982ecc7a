-------------------------- MODULE AtomicRefinement --------------------------
(***************************************************************************)
(* Ledger implements AtomicLedger.  mine_block takes effect when it pushes *)
(* the block: a ledger in the middle of the call stands for the one that   *)
(* the rest of the call will produce.  The rest is added up without order, *)
(* modulus or saturation, so that every later step of the call must leave  *)
(* the abstract ledger as it is.                                           *)
(***************************************************************************)
EXTENDS LedgerProperties

\* What the transactions still to be applied, and the coinbase, do to account a.
Outstanding(a, t) ==
    SumFunction([tx \in {x \in call.todo : x.to = a} |-> tx.amount[t]])
    - SumFunction([tx \in {x \in call.todo : x.from = a} |-> Cost(tx)[t]])
    + (IF a = call.miner THEN call.coinbase[t] ELSE 0)

SettledFunds ==
    [a \in Addr |-> [t \in Token |-> accounts[a].balance[t] + Outstanding(a, t)]]

SettledNonces ==
    [a \in Addr |-> Max({accounts[a].nonce} \cup {tx.nonce : tx \in {x \in call.todo : x.from = a}})]

SettledAccounts ==
    known \cup {tx.to : tx \in call.todo} \cup (IF Idle THEN {} ELSE {call.miner})

Atomic == INSTANCE AtomicLedger WITH
              opened    <- SettledAccounts,
              funds     <- SettledFunds,
              last      <- SettledNonces,
              minted    <- [t \in Token |-> emission[t] + call.reward[t]],
              committed <- [i \in DOMAIN chain |-> chain[i].txs]

\* Whatever was submitted, dropped and reserved, and in whatever order mine_block
\* applies them, the ledger commits whole blocks: the sender of each transaction
\* had the money before the block, pays exactly amount and fee, and the miner
\* gets the fees and a reward within the cap.
ImplementsAtomicLedger == Atomic!AtomicSpec

=============================================================================
