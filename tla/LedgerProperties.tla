-------------------------- MODULE LedgerProperties --------------------------
(***************************************************************************)
(* What the ledger of one node must keep true.  The INV- names are those   *)
(* of docs/ledger_invariants.md and CONSENSUS.md.                          *)
(***************************************************************************)
EXTENDS BlockValidation

(* Transactions that hold a reservation: in the mempool, or in the block   *)
(* that mine_block is applying.                                            *)
Live == mempool \cup call.todo
LiveOf(a) == {tx \in Live : tx.from = a}

\* What a set of transactions reserves, and what all accounts hold.
Reserved(txs, t) == SumFunction([tx \in txs |-> Debit(tx)[t]])
Held(t) == SumFunction([a \in Addr |-> accounts[a].balance[t]])

MinedBlocks == {i \in DOMAIN chain : chain[i].miner # NoMiner}

-----------------------------------------------------------------------------
(* Types *)

\* Every amount stays a u64 and an address without an account has no state.
TypeOK ==
    /\ known \subseteq Addr
    /\ accounts \in [Addr -> Account]
    /\ mempool \subseteq TxSpace
    /\ chain \in Seq(Block)
    /\ emission \in Pair
    /\ block_reward \in Pair
    /\ block_height \in Nat
    /\ call \in [miner: Addr \cup {NoMiner}, reward: Pair, coinbase: Pair,
                 todo: SUBSET TxSpace]
    /\ deposited \in [Token -> Nat]
    /\ Idle => call = NoCall
    /\ ~Idle => mempool = {}
    /\ \A a \in Addr \ known : accounts[a] = EmptyAccount

-----------------------------------------------------------------------------
(* Reservations *)

\* INV-PENDING-003: pending_nonce counts the sender's transactions in the
\* mempool, across every order of submit, drop and mine.  A sender on the zero
\* address is never settled by mine_block and is left out.
PendingNonceCounts ==
    \A a \in Addr \ {ZERO_ADDR} : accounts[a].pending_nonce = Cardinality(LiveOf(a))

\* INV-PENDING-004: what is reserved is exactly what the sender's live
\* transactions will take, so a drop gives back all of it and nothing else's.
ReservationsMatchMempool ==
    \A a \in Addr \ {ZERO_ADDR}, t \in Token :
        accounts[a].pending[t] = Reserved(LiveOf(a), t)

\* INV-PENDING-002: an account never reserves more than it holds, so the
\* saturating subtractions of mine_block never hide a shortfall.
PendingWithinBalance ==
    \A a \in Addr, t \in Token : accounts[a].pending[t] <= accounts[a].balance[t]

\* A checked build may leave stale reservations behind when a call unwinds, but
\* never too few: every live transaction stays paid for.
ReservationsCoverMempool ==
    \A a \in Addr \ {ZERO_ADDR}, t \in Token :
        accounts[a].pending[t] >= Reserved(LiveOf(a), t)

-----------------------------------------------------------------------------
(* Nonces *)

\* The (sender, nonce) lock: live transactions of a sender have distinct nonces,
\* all above the nonce of its last settled transaction.
NonceLock ==
    \A x \in Live :
        /\ x.from \in known
        /\ x.nonce > accounts[x.from].nonce
        /\ \A y \in Live : (x.from = y.from /\ x.nonce = y.nonce) => x = y

\* Replay protection: along the chain the nonces of a sender strictly increase,
\* whatever was dropped and submitted again between the blocks.
CommittedOnce ==
    \A i, j \in DOMAIN chain : \A x \in chain[i].txs, y \in chain[j].txs :
        (x.from = y.from /\ x.from # ZERO_ADDR) =>
            /\ i < j => x.nonce < y.nonce
            /\ (i = j /\ x # y) => x.nonce # y.nonce

\* No call ever moves an account's nonce back.
NonceMonotone ==
    [][\A a \in Addr : accounts'[a].nonce >= accounts[a].nonce]_vars

-----------------------------------------------------------------------------
(* Money *)

\* INV-FEE-01 and supply neutrality: the balances add up to what was deposited
\* and emitted.  While a block is applied, the fees already taken from senders
\* are on their way to the miner.
FeesInFlight ==
    [t \in Token |-> call.coinbase[t] - call.reward[t] - FeeTotal(call.todo)[t]]

SupplyConserved ==
    \A t \in Token : Held(t) + FeesInFlight[t] = deposited[t] + emission[t]

\* The supply cap, counting the reward of the block being applied.
EmissionWithinCap == \A t \in Token : emission[t] + call.reward[t] <= MAX_SUPPLY[t]

\* The amount of tx fits on top of what the recipient has once the sender has paid.
CreditExact(tx) ==
    \A t \in Token : Plus(AfterDebit(tx)[tx.to].balance, tx.amount)[t] < U64

\* mine_block comes to its end: no Err("Fee overflow"), no addition that wraps or
\* panics, no expect("miner consumer overflow") after the block is pushed.
MiningSucceeds ==
    /\ Idle => CoinbaseFits
    /\ \A tx \in call.todo : CreditExact(tx)
    /\ (~Idle /\ call.todo = {}) => MinerFits

\* The counters can be recomputed from the chain: emission is what coinbases pay
\* beyond fees, and the height is the length of the chain.
CountersMatchChain ==
    /\ \A t \in Token :
           emission[t] + call.reward[t]
             = SumFunction([i \in DOMAIN chain |-> chain[i].coinbase[t] - chain[i].fees[t]])
    /\ block_height + (IF Idle THEN 0 ELSE 1) = Len(chain)

\* The reward schedule: n decays after n mined blocks, floored at each step.
DecaySchedule[n \in Nat] == IF n = 0 THEN INITIAL_REWARD ELSE Decay(DecaySchedule[n - 1])

RewardReflectsHeight == block_reward = DecaySchedule[Cardinality(MinedBlocks)]

-----------------------------------------------------------------------------
(* Validation of the node's own tip *)

Gapless(b) ==
    \A x, y \in b.txs :
        (x.from = y.from /\ x.from # ZERO_ADDR /\ x.nonce < y.nonce) =>
            \A n \in x.nonce .. y.nonce : \E z \in b.txs : z.from = x.from /\ z.nonce = n

TipValid == ValidateBlock(Last(chain), Body(Last(chain)))

\* Between two blocks the node accepts its own tip exactly when no transaction
\* was dropped from the middle of a sender's queue before it was mined.
TipValidIffGapless ==
    (Idle /\ chain # << >> /\ Last(chain).miner # NoMiner) =>
        (TipValid <=> Gapless(Last(chain)))

\* The two validators agree on the node's own tip: what validate_block accepts
\* from the accounts, is_valid_chain_rust accepts from the block alone, so the tips
\* a node rejects are those its peers refuse to import.
ValidatorsAgree ==
    (Idle /\ chain # << >> /\ Last(chain).miner # NoMiner) =>
        (TipValid <=> AcceptedByPeers(Last(chain), Body(Last(chain))))

\* What demo.py and the tests assert of every mined block.
MinedBlockValidates ==
    (Idle /\ chain # << >> /\ Last(chain).miner # NoMiner) => TipValid

=============================================================================
