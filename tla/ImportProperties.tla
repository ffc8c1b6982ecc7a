-------------------------- MODULE ImportProperties --------------------------
(***************************************************************************)
(* What import_chain must make of a chain.  The reference is the chain     *)
(* read as a list of payments: an account is worth its coinbases and what  *)
(* it received, less what it paid.                                         *)
(***************************************************************************)
EXTENDS ChainImport, LedgerProperties

\* The chain being imported: the blocks replayed and the rest.
Whole == chain \o replay.blocks

Payments(c) == UNION {{<<i, tx>> : tx \in c[i].txs} : i \in DOMAIN c}

Precedes(p, q) == p[1] < q[1] \/ (p[1] = q[1] /\ Before(p[2], q[2]))

\* The payments of Whole that have been replayed.
Done == {p \in Payments(Whole) : p[1] <= Len(chain)
                                 \/ (p[1] = Len(chain) + 1 /\ p[2] \notin replay.todo)}

\* Worth of account a after the coinbases of n blocks of c and the payments ps.
Worth(c, n, ps, a, t) ==
    SumFunction([i \in {j \in 1 .. n : c[j].miner = a} |-> c[i].coinbase[t]])
    + SumFunction([p \in {q \in ps : q[2].to = a} |-> p[2].amount[t]])
    - SumFunction([p \in {q \in ps : q[2].from = a} |-> Debit(p[2])[t]])

\* Every sender has been paid on the chain, and enough, before it pays: what a
\* node mines as long as no account started with a balance and none is the zero
\* address.
Funded(c) ==
    \A p \in Payments(c) :
        /\ p[2].from # ZERO_ADDR
        /\ \/ \E i \in 1 .. p[1] - 1 : c[i].miner = p[2].from
           \/ \E q \in Payments(c) : Precedes(q, p) /\ q[2].to = p[2].from
        /\ \A t \in Token :
               Worth(c, p[1] - 1, {q \in Payments(c) : Precedes(q, p)}, p[2].from, t)
                 >= Debit(p[2])[t]

\* The whole chain came from one import, and nobody has been given money since.
JustImported == complete /\ imported = Len(chain) /\ Idle /\ ~Replaying /\ deposited = Zero

-----------------------------------------------------------------------------

\* The types of a node that imports: everything stays a u64 although emission may
\* now pass the cap, and only one of the two long calls is running.
ImportTypeOK ==
    /\ TypeOK
    /\ replay \in [blocks: Seq(Block), todo: SUBSET TxSpace, fees: [Token -> Nat]]
    /\ imported \in 0 .. Len(chain)
    /\ complete \in BOOLEAN
    /\ Replaying => Idle /\ replay.todo \subseteq Current.txs
    /\ ~Replaying => replay = NoReplay

\* Once import_chain has cleared the node's state, its fee checksum refuses a chain
\* only if some payment was not funded on the chain itself.  The panics of the
\* replay, the expect on the miner among them, are another matter.
FundedReplayMatches ==
    (BlockReplayed /\ Funded(Whole)) => FeesMatch

\* import_chain rebuilds the ledger: at every point of the replay, and at its end,
\* a funded chain determines all balances and nonces, whatever the node held
\* before and whatever is still in its mempool.
ReplayedLedger ==
    ((Replaying \/ JustImported) /\ Funded(Whole)) =>
        \A a \in Addr :
            /\ \A t \in Token :
                   accounts[a].balance[t] = Worth(Whole, Len(chain), Done, a, t)
            /\ \A p \in Done :
                   (/\ p[2].from = a
                    /\ \A q \in Done : q[2].from = a => ~Precedes(p, q))
                   => accounts[a].nonce = p[2].nonce

\* After an import the node stands behind its new tip: validate_block, which
\* reads the accounts, accepts what is_valid_chain_rust accepted without them.
ImportedTipValidates ==
    (JustImported /\ chain # << >> /\ Funded(chain)) => TipValid

\* What the chain issued: its coinbases beyond their fees.
Issuance(t) == SumFunction([i \in DOMAIN chain |-> chain[i].coinbase[t] - chain[i].fees[t]])

\* The emission counter is that of the chain the node has now, through imports that
\* complete, abort or replace one another: never below what the chain issued, so
\* the cut at the cap never comes late, and nothing of an abandoned chain is left
\* in it.  How the fees of imported blocks are counted is left open: see the run
\* imported_emission.
EmissionFollowsChain ==
    \A t \in Token :
        /\ emission[t] + call.reward[t] >= Issuance(t)
        /\ emission[t] + call.reward[t]
             <= Issuance(t) + SumFunction([i \in DOMAIN chain |->
                                            IF i <= imported THEN chain[i].fees[t] ELSE 0])

-----------------------------------------------------------------------------

\* What mine_block puts into a block: nonces from 1, and no two transactions with the
\* same key.
MinedTxs(txs) ==
    \A x, y \in txs : x.nonce >= 1 /\ ((x.from = y.from /\ x.nonce = y.nonce) => x = y)

\* The chains that are offered were mined, whatever deposits and drops their nodes
\* had.
OffersMined == \A new \in Offers : \A i \in DOMAIN new : MinedTxs(new[i].txs)

\* No amount reaches 2^64: mine_block comes to its end, and so does import_chain's
\* addition to emission.  A node that imported more than the supply cap stays in
\* these bounds until it mines: then the cut of the reward goes below zero.
AmountsFit ==
    /\ MiningSucceeds
    /\ \A t \in Token : emission[t] + call.reward[t] < U64
    /\ BlockReplayed => \A t \in Token : emission[t] + Current.coinbase[t] < U64

\* The same of the receivers of the chain that is replayed.
CreditsFit ==
    \A tx \in replay.todo, t \in Token :
        FirstTx(tx) => AfterRedebit(tx)[tx.to].balance[t] + tx.amount[t] < U64

=============================================================================
