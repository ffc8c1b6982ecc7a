------------------------------- MODULE Ledger -------------------------------
(***************************************************************************)
(* One node of the block: the `Blockchain` object of src/lib.rs with its   *)
(* accounts, mempool, chain and monetary counters.                         *)
(*                                                                         *)
(* Every mutating method takes `&mut self`, so calls do not overlap: a     *)
(* call is one step, except mine_block.  Its loops over the transactions   *)
(* can panic in the middle (an overflowing `+=` in a build with overflow   *)
(* checks, `expect("miner consumer overflow")` in every build) and the     *)
(* half-applied state stays visible to the Python caller, so mine_block is *)
(* a sequence of steps: MineBlock, then one ApplyTx per transaction, then  *)
(* CreditMiner.  While call.miner # NoMiner no other method can run.       *)
(*                                                                         *)
(* What is left out: hashes, proof of work and difficulty (mine_block      *)
(* searches until the block has them), the contents of signatures, memos,  *)
(* and the database.  Storage adds headers, difficulty and the database.   *)
(***************************************************************************)
EXTENDS FeeRouting

CONSTANTS
    Addr,            \* addresses, numbered in the order of the strings
    ZERO_ADDR,       \* "0".repeat(34), the sender of every coinbase
    NoMiner,         \* call.miner when no mine_block is running
    MAX_SUPPLY,      \* MAX_SUPPLY_CONSUMER and MAX_SUPPLY_INDUSTRIAL
    INITIAL_REWARD,  \* INITIAL_BLOCK_REWARD_CONSUMER and .._INDUSTRIAL
    DECAY_NUM,       \* DECAY_NUMERATOR
    DECAY_DEN,       \* DECAY_DENOMINATOR
    OverflowChecks,  \* TRUE: debug and test builds, an overflowing + panics;
                     \* FALSE: release builds, it wraps
    TxSpace,         \* the transactions wallets may submit
    Deposits,        \* the starting balances given to add_account
    Miners,          \* the addresses given to mine_block
    GenesisHeights,  \* chain lengths at which the caller runs genesis_block
    MaxHeight        \* bound of the model: longest chain explored

Tx == [from: Addr, to: Addr, amount: Pair, fee: Word, selector: 0 .. 255,
       nonce: Word, signed: BOOLEAN]

ASSUME AddrAssumption   == Addr \subseteq Nat /\ IsFiniteSet(Addr) /\ NoMiner \notin Addr
ASSUME SupplyAssumption == /\ MAX_SUPPLY \in Pair
                           /\ INITIAL_REWARD \in Pair
                           /\ \A t \in Token : MAX_SUPPLY[t] + INITIAL_REWARD[t] < U64
ASSUME DecayAssumption  == /\ DECAY_NUM \in Nat
                           /\ DECAY_DEN \in Nat \ {0}
                           /\ DECAY_NUM <= DECAY_DEN
ASSUME InputAssumption  == /\ TxSpace \subseteq Tx
                           /\ IsFiniteSet(TxSpace)
                           /\ Deposits \subseteq Pair
                           /\ Miners \subseteq Addr
                           /\ OverflowChecks \in BOOLEAN

VARIABLES
    known,           \* the keys of the `accounts` map
    accounts,        \* its values; EmptyAccount for an address not known
    mempool,         \* the transactions of the `mempool` map
    chain,           \* the blocks of `chain`
    emission,        \* emission_consumer, emission_industrial
    block_reward,    \* block_reward_consumer, block_reward_industrial
    block_height,
    call,            \* the mine_block call in progress, if any
    deposited        \* history: all the balances given to add_account

vars == <<known, accounts, mempool, chain, emission, block_reward,
          block_height, call, deposited>>

-----------------------------------------------------------------------------
(* Data *)

Account == [balance: Pair, nonce: Word, pending: Pair, pending_nonce: Nat]

EmptyAccount == [balance |-> Zero, nonce |-> 0, pending |-> Zero, pending_nonce |-> 0]

\* A block keeps what validation reads: the coinbase of the header (equal to
\* the first transaction), the fee totals that fee_checksum hashes, and the
\* transactions after the coinbase.  mine_block sorts these by Before, a strict
\* order on mempool keys, so in this node's own blocks the set gives the vector.
Block == [miner: Addr \cup {NoMiner}, coinbase: Pair, fees: Pair, txs: SUBSET TxSpace]

\* genesis_block pushes a block without transactions, not even a coinbase
Genesis == [miner |-> NoMiner, coinbase |-> Zero, fees |-> Zero, txs |-> {}]

NoCall == [miner |-> NoMiner, reward |-> Zero, coinbase |-> Zero, todo |-> {}]

Idle == call.miner = NoMiner

\* What a transaction takes from its sender: `amount + fee` in u64 arithmetic.
Cost(tx)  == [t \in Token |-> tx.amount[t] + FeeSplit(tx.selector, tx.fee)[t]]
Debit(tx) == [t \in Token |-> Cost(tx)[t] % U64]

\* An addition the build can carry out: a checked build panics on overflow.
Adds(sum) == OverflowChecks => \A t \in Token : sum[t] < U64

Plus(p, q)    == [t \in Token |-> p[t] + q[t]]
PlusMod(p, q) == [t \in Token |-> (p[t] + q[t]) % U64]
Minus(p, q)   == [t \in Token |-> SatSub(p[t], q[t])]

\* Mutant: the nonces of a sender in descending order.
BeforeNewestFirst(x, y) == \/ x.from < y.from
                           \/ x.from = y.from /\ x.nonce > y.nonce

\* pending.sort_unstable_by(..): by sender, then by nonce.
Before(x, y) == \/ x.from < y.from
                \/ x.from = y.from /\ x.nonce < y.nonce

\* The total of the fees of a set of transactions, in u128 arithmetic.
FeeTotal(txs) ==
    [t \in Token |-> SumFunction([tx \in txs |-> FeeSplit(tx.selector, tx.fee)[t]])]

Init ==
    /\ known = {}
    /\ accounts = [a \in Addr |-> EmptyAccount]
    /\ mempool = {}
    /\ chain = << >>
    /\ emission = Zero
    /\ block_reward = INITIAL_REWARD
    /\ block_height = 0
    /\ call = NoCall
    /\ deposited = Zero

-----------------------------------------------------------------------------
(* add_account, genesis_block *)

AddAccount(a, start) ==
    /\ Idle
    /\ a \notin known
    /\ known' = known \cup {a}
    /\ accounts' = [accounts EXCEPT ![a] = [EmptyAccount EXCEPT !.balance = start]]
    /\ deposited' = Plus(deposited, start)
    /\ UNCHANGED <<mempool, chain, emission, block_reward, block_height, call>>

\* The method has no guard of its own: GenesisHeights says when callers use it.
GenesisBlock ==
    /\ Idle
    /\ Len(chain) \in GenesisHeights
    /\ Len(chain) < MaxHeight
    /\ chain' = Append(chain, Genesis)
    /\ block_height' = 1
    /\ UNCHANGED <<known, accounts, mempool, emission, block_reward, call, deposited>>

-----------------------------------------------------------------------------
(* submit_transaction, drop_transaction *)

\* Mutant: no look-up of the key before the insertion.
NoDuplicateCheck(tx) == FALSE

\* (from, nonce) is the key of the mempool map.
DuplicateKey(tx) == \E q \in mempool : q.from = tx.from /\ q.nonce = tx.nonce

\* Mutant: the check ignores what is already reserved.
CanAffordConfirmed(acct, tx) == \A t \in Token : acct.balance[t] >= Debit(tx)[t]

CanAfford(acct, tx) ==
    \A t \in Token : SatSub(acct.balance[t], acct.pending[t]) >= Debit(tx)[t]

\* The signature is over this payload and by the key that comes with it.
verify_signed_tx(tx) == tx.signed

\* The checks of submit_transaction; in a checked build `amount + fee` may also
\* panic, with nothing changed yet.
Admissible(tx) ==
    /\ ~DuplicateKey(tx)
    /\ tx.from \in known
    /\ FeeOk(tx.selector, tx.fee)
    /\ Adds(Cost(tx))
    /\ CanAfford(accounts[tx.from], tx)
    \* 2^64 transactions of one sender are out of reach: this sum does not wrap
    /\ tx.nonce = accounts[tx.from].nonce + accounts[tx.from].pending_nonce + 1
    /\ verify_signed_tx(tx)

Reserve(acct, tx) ==
    [acct EXCEPT !.pending = PlusMod(@, Debit(tx)), !.pending_nonce = @ + 1]

SubmitTransaction(tx) ==
    /\ Idle
    /\ Admissible(tx)
    /\ accounts' = [accounts EXCEPT ![tx.from] = Reserve(@, tx)]
    /\ mempool' = mempool \cup {tx}
    /\ UNCHANGED <<known, chain, emission, block_reward, block_height, call, deposited>>

\* Every Err of submit_transaction returns before the first assignment.
RejectTransaction(tx) ==
    /\ Idle
    /\ ~Admissible(tx)
    /\ UNCHANGED vars

\* Mutant: the count goes down but the amounts stay reserved.
ReleaseCountOnly(acct, tx) == [acct EXCEPT !.pending_nonce = SatSub(@, 1)]

\* Mutant: one transaction gives back the whole reservation of its sender.
ReleaseEverything(acct, tx) ==
    [acct EXCEPT !.pending = Zero, !.pending_nonce = SatSub(@, 1)]

\* What a dropped transaction gives back, and a mined one too.
Release(acct, tx) ==
    [acct EXCEPT !.pending = Minus(@, Debit(tx)), !.pending_nonce = SatSub(@, 1)]

DropTransaction(tx) ==
    /\ Idle
    /\ tx \in mempool
    /\ mempool' = mempool \ {tx}
    /\ accounts' = IF tx.from \in known
                   THEN [accounts EXCEPT ![tx.from] = Release(@, tx)]
                   ELSE accounts
    /\ UNCHANGED <<known, chain, emission, block_reward, block_height, call, deposited>>

-----------------------------------------------------------------------------
(* mine_block: up to the push of the block *)

Decay(reward) == [t \in Token |-> (reward[t] * DECAY_NUM) \div DECAY_DEN]

\* Mutant: no cut at the supply cap.
UncappedReward == Decay(block_reward)

\* The reward of the next block, decayed and cut at the supply cap.  Only after
\* an import can emission exceed the cap: then the u64 subtraction wraps.
NextReward ==
    [t \in Token |-> IF (emission[t] + Decay(block_reward)[t]) % U64 > MAX_SUPPLY[t]
                     THEN (MAX_SUPPLY[t] - emission[t]) % U64
                     ELSE Decay(block_reward)[t]]

\* The additions and subtractions of the cut do not panic in a checked build.
CutFits ==
    OverflowChecks => \A t \in Token :
        /\ emission[t] + Decay(block_reward)[t] < U64
        /\ emission[t] + Decay(block_reward)[t] > MAX_SUPPLY[t] => emission[t] <= MAX_SUPPLY[t]

\* The cut, u64::try_from of the fee totals, then checked_add of the reward
CoinbaseFits ==
    /\ CutFits
    /\ FeeTotal(mempool) \in Pair
    /\ \A t \in Token : NextReward[t] + FeeTotal(mempool)[t] < U64

\* Mutant: the reward is stored after the cut, not before it.
MineBlockStoresCut(m) ==
    /\ Idle
    /\ Len(chain) < MaxHeight
    /\ CoinbaseFits
    /\ block_reward' = NextReward
    /\ chain' = Append(chain, [miner    |-> m,
                               coinbase |-> Plus(NextReward, FeeTotal(mempool)),
                               fees     |-> FeeTotal(mempool),
                               txs      |-> mempool])
    /\ mempool' = {}
    /\ call' = [miner |-> m, reward |-> NextReward,
                coinbase |-> Plus(NextReward, FeeTotal(mempool)), todo |-> mempool]
    /\ UNCHANGED <<known, accounts, emission, block_height, deposited>>

MineBlock(m) ==
    /\ Idle
    /\ Len(chain) < MaxHeight
    /\ CoinbaseFits
    /\ block_reward' = Decay(block_reward)
    /\ chain' = Append(chain, [miner    |-> m,
                               coinbase |-> Plus(NextReward, FeeTotal(mempool)),
                               fees     |-> FeeTotal(mempool),
                               txs      |-> mempool])
    /\ mempool' = {}
    /\ call' = [miner |-> m, reward |-> NextReward,
                coinbase |-> Plus(NextReward, FeeTotal(mempool)), todo |-> mempool]
    /\ UNCHANGED <<known, accounts, emission, block_height, deposited>>

\* Err("Fee overflow"), or a panic in the cut: nothing is mined, but the decay
\* has been applied.
MineFeeOverflow ==
    /\ Idle
    /\ Len(chain) < MaxHeight
    /\ ~CoinbaseFits
    /\ block_reward' = Decay(block_reward)
    /\ UNCHANGED <<known, accounts, mempool, chain, emission, block_height, call, deposited>>

-----------------------------------------------------------------------------
(* mine_block: the loop over the transactions of the pushed block *)

NextTx(tx) == tx \in call.todo /\ \A q \in call.todo \ {tx} : Before(tx, q)

\* The sender pays unless it is the zero address or has no account.
Pays(tx) == tx.from # ZERO_ADDR /\ tx.from \in known

\* Mutants: the nonce is not advanced; the fee is not taken; the count of
\* pending transactions is not decreased.
SettleKeepsNonce(acct, tx) == [Release(acct, tx) EXCEPT !.balance = Minus(@, Debit(tx))]
SettleFeeFree(acct, tx) ==
    [Release(acct, tx) EXCEPT !.balance = Minus(@, tx.amount), !.nonce = tx.nonce]
SettleKeepsCount(acct, tx) ==
    [acct EXCEPT !.pending = Minus(@, Debit(tx)), !.balance = Minus(@, Debit(tx)),
                 !.nonce = tx.nonce]

Settle(acct, tx) ==
    [Release(acct, tx) EXCEPT !.balance = Minus(@, Debit(tx)), !.nonce = tx.nonce]

AfterDebit(tx) ==
    IF Pays(tx) THEN [accounts EXCEPT ![tx.from] = Settle(@, tx)] ELSE accounts

CreditFits(tx) == Adds(Plus(AfterDebit(tx)[tx.to].balance, tx.amount))

ApplyTx(tx) ==
    /\ NextTx(tx)
    /\ CreditFits(tx)
    /\ known' = known \cup {tx.to}
    /\ accounts' = [AfterDebit(tx) EXCEPT ![tx.to].balance = PlusMod(@, tx.amount)]
    /\ call' = [call EXCEPT !.todo = @ \ {tx}]
    /\ UNCHANGED <<mempool, chain, emission, block_reward, block_height, deposited>>

\* What two additions in the order ct, it leave when one of them panics.
Partial(balance, amount) ==
    [t \in Token |-> IF t = "ct" /\ balance[t] + amount[t] < U64
                     THEN balance[t] + amount[t] ELSE balance[t]]

\* `+=` on the recipient overflows in a checked build: the call unwinds.
ApplyTxPanic(tx) ==
    /\ NextTx(tx)
    /\ ~CreditFits(tx)
    /\ known' = known \cup {tx.to}
    /\ accounts' = [AfterDebit(tx) EXCEPT ![tx.to].balance = Partial(@, tx.amount)]
    /\ call' = NoCall
    /\ UNCHANGED <<mempool, chain, emission, block_reward, block_height, deposited>>

-----------------------------------------------------------------------------
(* mine_block: the coinbase and the counters *)

\* Mutant: the coinbase is added without checked_add.
MinerUnchecked == TRUE

MinerFits == \A t \in Token : accounts[call.miner].balance[t] + call.coinbase[t] < U64

\* Mutant: fees are counted as emission.
CreditMinerEmitsFees ==
    /\ ~Idle
    /\ call.todo = {}
    /\ MinerFits
    /\ known' = known \cup {call.miner}
    /\ accounts' = [accounts EXCEPT ![call.miner].balance = Plus(@, call.coinbase)]
    /\ emission' = Plus(emission, call.coinbase)
    /\ block_height' = block_height + 1
    /\ call' = NoCall
    /\ UNCHANGED <<mempool, chain, block_reward, deposited>>

CreditMiner ==
    /\ ~Idle
    /\ call.todo = {}
    /\ MinerFits
    /\ known' = known \cup {call.miner}
    /\ accounts' = [accounts EXCEPT ![call.miner].balance = Plus(@, call.coinbase)]
    /\ emission' = PlusMod(emission, call.reward)
    /\ block_height' = block_height + 1
    /\ call' = NoCall
    /\ UNCHANGED <<mempool, chain, block_reward, deposited>>

\* expect("miner consumer overflow") or expect("miner industrial overflow")
CreditMinerPanic ==
    /\ ~Idle
    /\ call.todo = {}
    /\ ~MinerFits
    /\ known' = known \cup {call.miner}
    /\ accounts' = [accounts EXCEPT ![call.miner].balance = Partial(@, call.coinbase)]
    /\ call' = NoCall
    /\ UNCHANGED <<mempool, chain, emission, block_reward, block_height, deposited>>

-----------------------------------------------------------------------------

\* The steps that do not write to the database: all but the genesis_block call
\* and the end of a mine_block that returns Ok.
UnsavedStep ==
    \/ \E a \in Addr, start \in Deposits : AddAccount(a, start)
    \/ \E tx \in TxSpace : SubmitTransaction(tx)
    \/ \E tx \in TxSpace : RejectTransaction(tx)
    \/ \E tx \in mempool : DropTransaction(tx)
    \/ \E m \in Miners : MineBlock(m)
    \/ MineFeeOverflow
    \/ \E tx \in call.todo : ApplyTx(tx)
    \/ \E tx \in call.todo : ApplyTxPanic(tx)
    \/ CreditMinerPanic

Next == UnsavedStep \/ GenesisBlock \/ CreditMiner

Spec == Init /\ [][Next]_vars

=============================================================================
