---------------------------- MODULE AtomicLedger ----------------------------
(***************************************************************************)
(* What the ledger promises (CONSENSUS.md: "All debits apply to the        *)
(* sender's unreserved balances and credit the recipient and miner         *)
(* atomically"), without saying how: a block is committed in one step, the *)
(* order of its transactions does not matter, no amount wraps and no debit *)
(* is cut short.  There is no mempool, no reservation and no sort.         *)
(***************************************************************************)
EXTENDS FeeRouting

CONSTANTS Addr, TxSpace, Deposits, Miners, MAX_SUPPLY

VARIABLES
    opened,     \* the addresses that have an account
    funds,      \* balances; zero without an account
    last,       \* the nonce last committed for each sender
    minted,     \* what miners were given beyond fees
    committed   \* the sets of transactions committed, one for each block

atomicVars == <<opened, funds, last, minted, committed>>

AtomicInit ==
    /\ opened = {}
    /\ funds = [a \in Addr |-> Zero]
    /\ last = [a \in Addr |-> 0]
    /\ minted = Zero
    /\ committed = << >>

-----------------------------------------------------------------------------

FeeIn(txs, t)  == SumFunction([tx \in txs |-> FeeSplit(tx.selector, tx.fee)[t]])
PaidIn(txs, t) == SumFunction([tx \in txs |-> tx.amount[t]])

\* What the senders among txs give, and what the receivers get.
Spent(txs, a, t) ==
    LET mine == {tx \in txs : tx.from = a} IN PaidIn(mine, t) + FeeIn(mine, t)
Received(txs, a, t) == PaidIn({tx \in txs : tx.to = a}, t)

NewNonce(txs, a) == Max({last[a]} \cup {tx.nonce : tx \in {x \in txs : x.from = a}})

\* The balances after a block of txs whose miner m gets its fees and what the
\* block mints.
FundsAfter(m, txs) ==
    [a \in Addr |-> [t \in Token |->
        funds[a][t] - Spent(txs, a, t) + Received(txs, a, t)
        + (IF a = m THEN minted'[t] - minted[t] + FeeIn(txs, t) ELSE 0)]]

-----------------------------------------------------------------------------

\* An account is opened once, with its money.
OpenAccount(a, start) ==
    /\ a \notin opened
    /\ opened' = opened \cup {a}
    /\ funds' = [funds EXCEPT ![a] = start]
    /\ UNCHANGED <<last, minted, committed>>

\* Every sender can pay all it sends from what it had before the block, and
\* signs with nonces it has not used before; what is minted stays below the cap.
Commit(txs) ==
    /\ committed' = Append(committed, txs)
    /\ \A tx \in txs :
           /\ tx.from \in opened
           /\ tx.nonce > last[tx.from]
           /\ \A t \in Token : Spent(txs, tx.from, t) <= funds[tx.from][t]
           /\ \A q \in txs : (q.from = tx.from /\ q.nonce = tx.nonce) => q = tx
    /\ \A t \in Token : minted'[t] \in minted[t] .. MAX_SUPPLY[t]
    /\ last' = [a \in Addr |-> NewNonce(txs, a)]
    /\ \E m \in Miners :
           /\ opened' = opened \cup {m} \cup {tx.to : tx \in txs}
           /\ funds' = FundsAfter(m, txs)

\* A block that carries nothing and pays nobody.
CommitGenesis ==
    /\ committed = << >>
    /\ committed' = << {} >>
    /\ UNCHANGED <<opened, funds, last, minted>>

AtomicNext ==
    \/ \E a \in Addr, start \in Deposits : OpenAccount(a, start)
    \/ \E txs \in SUBSET TxSpace : Commit(txs)
    \/ CommitGenesis

AtomicSpec == AtomicInit /\ [][AtomicNext]_atomicVars

=============================================================================
