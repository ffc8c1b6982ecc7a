# the-block: a TLA+ verification of the ledger

This directory specifies the dual-token ledger of the-block (`src/src/`, one
Rust crate with Python bindings) in TLA+, model-checks it with TLC and proves
its invariants with TLAPS. Line numbers refer to `src/src/lib.rs` unless
another file is named.

- [1. The system](#1-the-system)
- [2. Modules and how they correspond to the code](#2-modules-and-how-they-correspond-to-the-code)
- [3. The model checking runs](#3-the-model-checking-runs)
- [4. Where the code and its documents disagree](#4-where-the-code-and-its-documents-disagree)
- [5. The proofs](#5-the-proofs)
- [6. What is not modelled](#6-what-is-not-modelled)
- [7. Plan](#7-plan)

## 1. The system

The crate is one node's view of a chain. There is no network layer and no
thread: a Python caller holds a `Blockchain` object and calls its methods, each
of which takes `&mut self` or `&self`, so two calls never overlap. Nodes
interact only through a caller that reads `chain` from one object and gives it
to `import_chain` of another. What makes the ledger hard is not parallelism but

- the *order* of calls: `submit_transaction`, `drop_transaction` and
  `mine_block` move two counters and two reserved amounts per account, and the
  next admissible nonce is computed from them;
- *calls that end half-way*: `mine_block` changes state before the operations
  that may fail, and both a Rust panic (PyO3 turns it into a Python exception)
  and an `Err` leave the object usable with whatever had been assigned;
- *arithmetic at the edge of u64*: saturating subtraction, unchecked addition
  that wraps in a release build and panics in a debug or test build,
  `checked_add` with `expect`, and a supply cap per token;
- *restarts*: `genesis_block`, the last lines of `mine_block` and whoever calls the
  public `persist_chain` write the database, two older layouts are migrated when it is
  opened, and the difficulty is not part of it. The database of this commit,
  `SimpleDb`, is a map that starts empty, so that nothing outlives a process
  (`Durable = FALSE`); `open` and its migration are written for one on disk, and what is
  said about restarts is about that one (`Durable = TRUE`);
- *copies*: a chain given to `import_chain` was read from the other node earlier,
  and both nodes have gone on since.

| Component | State | Operations | Talks to | What makes it correct |
|---|---|---|---|---|
| Fee routing (`fee/mod.rs`) | none | `decompose` | admission, mining, validation, import | the two parts add up to the fee; neither exceeds it |
| Accounts and reservations | `accounts`: balance, nonce, pending amounts and count per address | `add_account`, and every method below | mempool, mining | reservations equal what the mempool will take and never exceed the balance |
| Mempool | `mempool`, keyed by (sender, nonce) | `submit_transaction`, `drop_transaction` | accounts, mining | one transaction per (sender, nonce), all above the sender's nonce |
| Mining and emission | `chain`, `emission_*`, `block_reward_*`, `block_height` | `mine_block` | all of the above, storage | money conserved, cap respected, schedule follows the chain, nothing committed twice |
| Genesis block | `chain`, `block_height` | `genesis_block` | storage, `build.rs` | counters still match the chain |
| Block validation | reads accounts and chain | `validate_block` | mining | accepts the node's own tip |
| Chain import | replaces chain, accounts, counters | `is_valid_chain_rust`, `import_chain` | other nodes, through the caller | the replay of a chain gives the ledger that the chain determines |
| Storage and migration | `ChainDisk` in `SimpleDb`, `difficulty` | `open`, `with_difficulty`, `new`, `persist_chain`, schema migration | mining, genesis | what was saved is complete, affordable and is what is reopened; old and new blocks are linked |
| Transactions and signatures | none | `sign_tx`, `verify_signed_tx`, `id` | admission, import | a signature covers exactly the payload |
| Hash layout (`hashlayout.rs`) | none | `HashEncoder` | mining, validation | distinct blocks hash differently |
| Python bindings, `xtask`, `demo.py` | none | wrappers, PR-title lint | | |

`PROJECT.json` lists the hazards of this code line by line with the properties
that cover them; a note says so where the code's behaviour is outside every property.
What could only go wrong with a database that outlives its process is not listed there,
since `SimpleDb::open` always starts with an empty map; the modules of `Storage` cover it
for the day it does not.

## 2. Modules and how they correspond to the code

| Module | What it is |
|---|---|
| `FeeRouting` | u64 amounts, the pair of tokens, `decompose` |
| `Ledger` | the `Blockchain` object as a state machine: one action per method, `mine_block` in small steps |
| `BlockValidation` | `validate_block`, and the test `is_valid_chain_rust` makes of one block |
| `LedgerProperties` | type invariant, safety invariants, action property |
| `MCLedger` | accounts, transactions and amounts for TLC |
| `LedgerProofs` | theorems about one node: types, supply cap, nonces, counts, reservations of a checked build |
| `SumTheorems` | sums over finite sets: what `SumFunction` computes, for every set, and how it changes with one element |
| `MoneyProofs` | theorems about amounts: reservations, conservation, `mine_block` succeeds, `emission`, `block_height` and the reward schedule |
| `ValidationProofs` | theorems about the two validators |
| `AtomicLedger` | the abstract ledger: a block is committed in one step, with no order, reservation or modulus |
| `AtomicRefinement` | the mapping under which `Ledger` implements it |
| `RefinementProofs` | the theorem that it does |
| `ChainImport` | `import_chain` on top of `Ledger`: the node that also imports |
| `ImportProperties` | the ledger a chain determines, and what import makes of it |
| `MCImport` | transactions, and the chains other nodes mined from them |
| `ImportProofs` | theorems about a node that imports |
| `TwoNodes` | two instances of `ChainImport` that exchange chains through their callers, with fairness |
| `MCTwoNodes` | one wallet with three payments |
| `TwoNodesProofs` | theorems about two nodes: one chain has one ledger; where one wallet mines, no replay refuses its fees |
| `Storage` | `Ledger` with headers, difficulty and the database: opening, saving, migrating, crashing |
| `StorageProperties` | what must survive a restart, and what an old database may hold |
| `MCStorage` | databases that older and newer versions left |
| `StorageProofs` | theorems across restarts |

```
FeeRouting <- Ledger <- BlockValidation <- LedgerProperties
FeeRouting <- AtomicLedger

LedgerProperties  <- AtomicRefinement (instantiates AtomicLedger) <- MCLedger
BlockValidation   <- ChainImport <- ImportProperties (with LedgerProperties) <- MCImport
                     ChainImport <- TwoNodes (instantiates it twice) <- MCTwoNodes
Ledger            <- Storage <- StorageProperties (with LedgerProperties) <- MCStorage

LedgerProperties  <- LedgerProofs <- MoneyProofs (with SumTheorems)
                                     MoneyProofs <- RefinementProofs (with AtomicRefinement)
                     LedgerProofs <- ValidationProofs
MoneyProofs, ValidationProofs <- StorageProofs (with StorageProperties)
MoneyProofs, ValidationProofs <- ImportProofs (with ImportProperties)
TwoNodes          <- TwoNodesProofs (with SumTheorems)
```

### State

| Variable | Code |
|---|---|
| `known`, `accounts` | the keys and the values of `accounts`; an address without an entry has `EmptyAccount` |
| `mempool` | the transactions in the `DashMap`; the key is a function of the value |
| `chain` | `chain`; a block keeps its miner, coinbase, fee totals and transactions |
| `emission`, `block_reward` | the pairs `emission_consumer/industrial`, `block_reward_consumer/industrial` |
| `block_height` | the field |
| `call` | the locals of a `mine_block` that is applying its block: miner, reward, coinbase and the transactions still to apply |
| `deposited` | a history variable, the sum of all starting balances given to `add_account` |
| `replay` (`ChainImport`) | the locals of an `import_chain` that is replaying: remaining blocks, remaining transactions of the first, fees charged so far |
| `headers` (`Storage`) | `previous_hash`, `difficulty`, `hash` of each block of `chain`, whether the hash has the work (`work`), and whether `fee_checksum` is not the empty string of old versions (`summed`) |
| `difficulty` (`Storage`) | the field |
| `db` (`Storage`) | what is under `DB_CHAIN` (nothing, a bare `Vec<Block>`, a `ChainDisk` of some version, bytes that decode as neither), and what old versions left under `DB_ACCOUNTS` and `DB_EMISSION` |
| `up`, `foreign` (`Storage`) | is there a process; history: how many blocks of `chain` another version wrote |
| `...A`, `...B` (`TwoNodes`) | all the variables of `ChainImport` for each node |
| `copyA`, `copyB` (`TwoNodes`) | the chain that a caller last read from node A, and from node B |
| `imported`, `complete` (`ChainImport`) | history: how many blocks of `chain` came by import, and whether the last replay ended in `Ok` |

A pair of u64 is a function from `Token = {"ct", "it"}` to `Word = 0..U64-1`.
The modulus `U64` is a constant, any even number of at least 4: TLC uses 16, 32 or
64 so that a handful of transactions reaches the edge of the type; the theorems
hold for 2^64.

A block's transactions are a set. `mine_block` sorts them by sender, then
nonce, and (sender, nonce) is the key of the mempool, so the set determines
the vector: where order matters (validation) `Body(b)` puts at position i the
transaction that has i - 1 others of the block before it, and `ApplyTx` always takes
the least remaining one.

### Actions

| Action | Code |
|---|---|
| `AddAccount(a, start)` | `add_account`, 499-516 |
| `GenesisBlock` | `genesis_block`, 473-493, at the chain lengths in `GenesisHeights` |
| `SubmitTransaction(tx)` | `submit_transaction`, 533-582, when all its checks pass |
| `RejectTransaction(tx)` | the same method when one fails: every `Err`, and the overflow panic of a checked build, comes before the first assignment |
| `DropTransaction(tx)` | `drop_transaction`, 588-606 |
| `MineBlock(m)` | `mine_block` from its entry to the push of the block, 622-727 |
| `MineFeeOverflow` | the same lines when they end in `Err("Fee overflow")`, or in a panic of the subtraction in line 642: the decay stays |
| `ApplyTx(tx)` | one iteration of the loop, 729-764 |
| `ApplyTxPanic(tx)` | an iteration in which `+=` on the recipient overflows in a checked build |
| `CreditMiner` | the coinbase, the counters, 766-799 |
| `CreditMinerPanic` | `expect("miner ... overflow")` |
| `StartImport(new)` | `import_chain`, 917-931: the checks, then everything is cleared |
| `RejectImport(new)` | its two `Err` returns before the first assignment |
| `ReplayTx(tx)` | one iteration of its inner loop, 941-988 |
| `ReplayDebitPanic(tx)`, `ReplayCreditPanic(tx)` | the overflows of that loop in a checked build |
| `ReplayBlock` | the end of a block, 989-1045 |
| `ReplayMismatch` | `Err("Fee checksum mismatch")`, in the middle of the replay |
| `ReplayMinerPanic`, `ReplayEmissionPanic` | `expect` on the miner; the overflow of `emission +=` in a checked build |
| `Open(d)` | `open` (228-426) and `with_difficulty`; migrates and writes back an old layout |
| `OpenTooNew` | `Err("DB schema too new")` |
| `New` | `Blockchain::new` (1059-1145): no version test and no migration |
| `Crash` | the process ends, in a call or between two; `SimpleDb` forgets everything, and with `Durable` the contents may also survive |
| `SetDifficulty(d)` | the Python setter |
| `Unsaved` | every step above that writes nothing to the database (`UnsavedStep`), with the header of a block that `mine_block` pushes |
| `FinishMining` | `CreditMiner` and `persist_chain` (795): one step, nothing between them can fail in `SimpleDb` |
| `Persist` | `persist_chain` (442-467) called by itself between two calls, with whatever is reserved then |
| `SaveGenesis` | `GenesisBlock` and the bare chain it writes over `DB_CHAIN` (487) |
| `StepA`, `StepB` | a step of one node, its own or of a replay |
| `RestartB` | node B is killed, in a call or between two, and opens an empty database (`Restart` of `ChainImport`) |
| `ReadA`, `ReadB` | a caller reads `chain` while no call runs |
| `ImportA`, `ImportB` | a caller passes its copy of the other chain to `import_chain` |

A hash is represented in `Storage` only, as the tuple of what `calculate_hash`
reads (previous hash, difficulty, block): BLAKE3 is taken as injective. A
migrated hash has the work of its difficulty only by luck, so `Open` chooses
which blocks are lucky.

`AtomicRefinement` maps a ledger in the middle of `mine_block` to the one that the
rest of the call will produce, added up without order, modulus or saturation.
`mine_block` therefore takes effect when it pushes the block, and every later
step of the call must leave the abstract ledger as it is: that is the check.
`submit_transaction` and `drop_transaction` change nothing there.

`import_chain` is in several steps for the same reason as `mine_block`: an `Err` or
a panic leaves the node with what had been replayed. Of its other `Err`
returns, the signature and coinbase ones repeat checks `is_valid_chain_rust` has
just made, and fee totals cannot exceed those it has just bounded.

`mine_block` is in several steps because its panics expose the states between
them. They are not interleaved with other calls: while `call` names a miner no
other action is enabled, as `&mut self` demands. `OverflowChecks` selects the
build: TRUE for `cargo test` and debug builds, FALSE for release builds, in
which the same additions wrap.

Deliberate abstractions: the proof-of-work search always succeeds (running
out of 2^64 nonces is not modelled); a transaction carries a flag saying
whether its signature verifies; outside `Storage` hashes are not represented; a fee
checksum is the pair of totals it hashes, and the links, difficulty and hash of blocks
that `mine_block` made are correct by construction. `Offers`, the chains given to
`import_chain`, are of that kind: chains of another node, with its deposits and
its drops, but not byte-edited ones. In `TwoNodes` they are the chain of the other
node, whatever it is at that moment.

## 3. The model checking runs

The runs of `MCLedger` use `Spec`, those of `MCImport` use `ImportSpec`, that of
`MCStorage` uses `StorageSpec`, and those of `MCTwoNodes` use `NodesSpec`, the only one
with fairness. All check for deadlock.

| Run | Build | Expect | What it shows |
|---|---|---|---|
| `supply` | release | pass | with amounts below the modulus, as real amounts are below 2^64: exact reservations, replay protection, conservation of both tokens, counters recomputable from the chain, reward schedule, and the node's opinion of its own tip; `mine_block` never fails or panics; and `Ledger` implements `AtomicLedger` |
| `overflow` | release | pass | with amounts and fees at the edge of the type, a zero-address account, failing and panicking `mine_block`: types, pending counts, the nonce lock and the supply cap survive |
| `checked` | checked | pass | with `mine_block` unwinding between two transactions: reservations stay within the balance and still cover every live transaction |
| `import` | release | pass | a node that submits, mines and imports: the replay of a funded chain completes, rebuilds exactly the ledger the chain determines and stands behind its new tip; reward and emission follow the new chain, emission up to the fees of the imported blocks |
| `import_checked` | checked | pass | imports at the edge of the type, with every panic of the replay and mining past the cap: types hold, reservations stay within balances |
| `storage` | release | pass | a process that may stop between any two steps and be started again on any of five databases, and that may save at any moment between two calls: no account reserves more than it holds, what is saved is complete, new blocks stay linked, a restarted node stands behind its tip, money is conserved and nothing is committed twice |
| `two_nodes` | release | pass | two nodes that mine for one address: one may be killed and start again with nothing; equal chains mean equal ledgers, no call ends in the middle, and the fork ends when one of them mines on and the other keeps importing, unless the first has mined a block with a gap |
| `diverged` | release | violation | a node for each miner: one mines a chain that the other can never import |
| `mined_tip` | release | violation | a drop from the middle of a queue makes the node reject its own block |
| `wrapped_debit` | release | violation | `amount + fee` wraps at admission and money appears |
| `reorg_replay` | release | violation | a transaction of the imported chain that is still in the mempool is mined again |
| `imported_emission` | release | violation | an imported chain within the cap carries emission over it |

### Bounds, and why they are enough

- `MaxHeight = 3` is the only bound in a guard: the longest chain. Every
  property relates at most two successive blocks; the third lets what one block
  left behind be used by another. The supply cap cuts the reward of the second block
  for the consumer token and never for the industrial one, so cut and
  uncut rewards are seen side by side.
- `TxSpace` is a list of one to eight transactions. In `supply`, sender 1 has
  two alternatives for nonce 2 (so a dropped transaction is replaced by a
  different one with the same nonce), a self-transfer, transfers to an address
  that has no account yet, and fees under the three selectors with an odd fee to
  split; sender 2 spends what it may only have received; one transaction has a
  bad signature and one a bad selector. The nonces 1..3 give queues of length
  three, the shortest from which a middle element can be dropped.
- In `overflow` and `checked` (`U64 = 16`) three of the fees add up to more
  than 15, so the fee total overflows; transfers of 9 on top of 14 overflow a
  recipient; `9 + 7 = 16` wraps to a debit of 0; the coinbase overflows the
  miner; and address 0 is an account and a sender.
- `import` offers six chains: two that need no deposits (lengths 2 and 3, with
  fees in two successive blocks and a sender who only ever received), one
  whose sender has no account in the replay, one whose sender has too little,
  one with a nonce gap and one with a genesis block. The node may hold any
  ledger of its own at that moment, including a longer chain, and import again.
- `import_checked` offers one chain per panic, as a release-build peer with a
  deposit of 12 in a modulus of 16 mines them, and one that carries emission past
  the cap so that the next `mine_block` panics in the cut.
- `storage` starts from an empty database, the two old layouts, a newer schema and
  undecodable bytes. The old ones hold two blocks, the shortest chain in which a
  link can break, with empty checksums, a payment whose fee is counted again,
  and the accounts that belong to them; `MaxHeight = 3` leaves room for a block
  mined on top and, from an empty database, for a third block after two
  restarts. Two difficulties, one of them the default. Crashes and calls of
  `persist_chain` are not bounded: the state space is finite without.
- `two_nodes` mines up to three blocks on A and two on B, so A may import B's two
  blocks and give up its own, mine on with what is left in its mempool, and be followed
  by B, which may give up two. One wallet with three payments, so that a queue may be
  split over two blocks, a payment may be on either side of a fork, and the middle one may be
  dropped: a block of A may have the nonces 1 and 3, and B then refuses the chain
  for ever. B is killed at
  most once (`MaxRestarts`), also in the middle of a replay; after it the stale
  copies of its callers hold chains that neither node has any more. Both nodes mine for address 1,
  which is why every sender has an account in every chain; `diverged` gives B a
  miner of its own, and has one payment and no restart.
- Each passing run has between 3 * 10^3 and 3.8 * 10^5 distinct states; `two_nodes`
  takes two to three minutes with two workers, `supply`, with the refinement, about one, the
  others seconds.

No symmetry is used: addresses are ordered, since the sort of `mine_block`
compares them.

### Fairness

No loop of the program runs by itself: everything happens in a call that a caller
makes. For one node no liveness is stated, since the only progress the code
promises is that a call returns, which the loop bounds give. `NodesFairness` states
what the two-node scenario needs, all of it weak:

- `RunA`, `RunB`: a call that was started runs to its end (`&mut self`: nothing else
  can happen to the node);
- `MineA`: the operator of A mines on, up to its bound. Chains of equal length are never
  exchanged (918), so without this a fork is for ever;
- `ReadA`, `FollowA`: the caller of B goes on reading A's chain and offering it to B.

Nothing is assumed of submissions, drops, B's mining, A's imports or B's restart: they
may happen at any time or never. The mining bound stands for "A has mined longest".

### What each property says

`LedgerProperties` states each one with its reason. In groups:

- reservations: `PendingNonceCounts`, `ReservationsMatchMempool`,
  `PendingWithinBalance`, `ReservationsCoverMempool`;
- nonces: `NonceLock`, `CommittedOnce`, `NonceMonotone`;
- money: `SupplyConserved`, `MiningSucceeds`, `EmissionWithinCap`, `CountersMatchChain`,
  `RewardReflectsHeight`;
- the ledger as a whole: `ImplementsAtomicLedger`;
- restarts: `MinedBlocksSaved`, `LinksBreakOnlyInOldChain`, `TipStandsAfterRestart`, and
  `PendingWithinBalance`, `SupplyConserved` and `CommittedOnce` again. A restart finds the
  reservations that were saved and no mempool, so the reservations are no longer exact;
  that the balances cover them is what remains;
- two nodes: `LedgersAgree`, `CallsComplete`, `ForkResolved`. The last is conditional, on
  A's chain being one that `is_valid_chain_rust` accepts from some point on: a block mined over a
  gap is refused by every other node for ever, however often it is offered;
- validation: `TipValidIffGapless`, `ValidatorsAgree`, `MinedBlockValidates`;
- import: `FundedReplayMatches`, `ReplayedLedger`, `ImportedTipValidates`,
  `EmissionFollowsChain`, `ImportTypeOK`. Their reference is the chain read
  as a list of payments (`Worth`, `Funded`), independent of the replay.
  `EmissionFollowsChain` bounds emission from both sides, by the coinbases of the chain
  without their fees and by that and the fees of the imported blocks: it leaves open
  whether a replay counts fees (finding 5), and not that emission is of this chain.

`SupplyConserved` holds in the middle of a `mine_block` too: fees
taken from senders and not yet paid to the miner are counted as in flight.
Every property of a passing run has a mutant in `PROJECT.json`: a plausible bug
of the code (a dropped check, a reset forgotten, a wrong order) under which TLC
finds that property violated.

## 4. Where the code and its documents disagree

1. `mined_tip`. `Agents-Sup.md:48` wants each sender's transactions in a block
   in strict nonce order with no gaps. `mine_block` sorts but does not check;
   after `drop_transaction` of a middle nonce the block has a gap and
   `validate_block` returns false for the node's own tip. `TipValidIffGapless`
   shows that this is the only way: the tip is accepted exactly when its
   transactions have no gap.
2. `wrapped_debit`. `CONSENSUS.md:56-59` bounds `amount + fee` by the supply.
   `submit_transaction` (558-563) has no such bound and adds in u64.
3. `reorg_replay`. `Agents-Sup.md:42`: funds are locked in the mempool so that
   double spends cannot occur. `import_chain` keeps the mempool; `mine_block`
   checks no nonce; both validators look at one block only. A pending transaction
   that the imported chain contains is committed a second time.
4. `diverged`. The test "Fork/reorg resolution" (`tests/test_chain.rs:463-492`) mines
   empty blocks. With a payment it can fail: the payment waits in A's mempool, A imports
   B's longer chain, in which the sender has no account, and mines the payment.
   `mine_block` puts its fee into `fee_checksum` (656-667) whether or not the sender
   can be debited (731); the replay counts fees of senders it knows only (955). From then on every import of A's chain by B clears B's ledger and
   ends in `Err("Fee checksum mismatch")`, however often it is repeated.
5. `imported_emission`. `README.md:131` caps the supply. Line 1041 adds whole
   coinbases, fees included; line 791 adds rewards. Past the cap, line 642 computes
   `MAX_SUPPLY - emission` below zero.

Ten more consequences of the same code came up while writing the properties.
They are not kept as runs; the properties named would show them under the
constants described.

- `RewardReflectsHeight` does not survive a failing `mine_block`: the reward is
  decayed (631) before the sums that can return `Err("Fee overflow")` (664-675).
  Checking it with the constants of `overflow` shows it.
- `CountersMatchChain` does not survive a panic on the miner's balance (780-789),
  which comes after the push of the block: same constants.
- `PendingNonceCounts` does not survive a panic in the loop of a checked build
  (759), which comes after `mempool.clear()`: the constants of `checked`.
- `SupplyConserved` does not survive the import of a chain with a payment made from
  a balance of `add_account`: the replay takes what there is (959, saturating) and
  credits in full. This is why `ReplayedLedger` asks for a funded chain.
- `PendingNonceCounts` does not survive an import: `accounts.clear()` (926) drops the
  reservations of transactions that stay in the mempool, and transactions of
  abandoned blocks do not come back, while `docs/ledger_invariants.md:28` has a reorg
  roll reservations back. `ReservationsCoverMempool` fails with it;
  `PendingWithinBalance` is what remains (`import_checked`, and proved).
- `PendingNonceCounts` does not survive `submit_transaction`, `persist_chain` and a restart
  from the database: the reservations were saved and the mempool was not, so the next
  nonce is too high and `drop_transaction` finds nothing to release (the constants of `storage`).
- A fork does not end if A mines over a gap: with the constants of `two_nodes`,
  `ForkResolved` without its condition is violated.
- `CountersMatchChain` does not survive `genesis_block` followed by a crash: the bare
  chain it writes (487) replaces the `ChainDisk`, so the next `open` reads one block
  with `block_height` 0 and no accounts.
- `MinedBlocksSaved` does not survive the panic on the miner's balance, which comes
  between the push of the block and `persist_chain`.
- Links inside an old chain do not survive the migration when a hash changes (264-273:
  `previous_hash` is left as it was): `LinksBreakOnlyInOldChain` says that this is
  all that breaks. `new()` skips the version test and the migration, so it opens
  a newer schema that `open` refuses and the next `mine_block` overwrites it as version 3.

## 5. The proofs

`LedgerProofs`, `SumTheorems`, `MoneyProofs`, `RefinementProofs`, `ValidationProofs`,
`StorageProofs`, `ImportProofs` and `TwoNodesProofs` are checked by tlapm 1.4.5 with Z3,
Zenon and, for the last step of each temporal theorem, LS4. Each theorem is about every
value of the constants.

One node, `Spec`:

| Theorem | Says | Assumes beyond the constants' ASSUMEs |
|---|---|---|
| `FeeSplitExact` | the parts of a fee add up to it and neither exceeds it | |
| `TypeCorrect` | `[]TypeOK` | |
| `SupplyCapped` | `[]EmissionWithinCap` | |
| `NonceLocked` | `[]NonceLock` | |
| `NonceNeverBack` | `NonceMonotone` | |
| `NeverCommittedTwice` | `[]CommittedOnce` | release build |
| `PendingNonceExact` | `[]PendingNonceCounts` | release build |
| `ReservationsCovered` | `[]PendingWithinBalance` | checked build |
| `ReservationsExact` | `[]ReservationsMatchMempool` | release build |
| `ReservationsSuffice` | `[]ReservationsCoverMempool` | |
| `MoneyConserved` | `[]SupplyConserved` | `WalletsSound`, `[]DepositsFit` |
| `ReservationsAffordable` | `[]PendingWithinBalance` | `WalletsSound`, `[]DepositsFit` |
| `MiningAlwaysSucceeds` | `[]MiningSucceeds` | `WalletsSound`, `[]DepositsFit` |
| `CountersFollowChain` | `[]CountersMatchChain` | the same; `genesis_block` on an empty chain only |
| `RewardFollowsSchedule` | `[]RewardReflectsHeight` | `WalletsSound`, `[]DepositsFit` |
| `LedgerIsAtomic` | `ImplementsAtomicLedger` | the same; `genesis_block` on an empty chain only |
| `TipVerdict` | `[]TipValidIffGapless` | release build |
| `ValidatorsAlwaysAgree` | `[]ValidatorsAgree` | release build |

Across restarts, `StorageSpec`:

| Theorem | Says | Assumes beyond the constants' ASSUMEs |
|---|---|---|
| `SupplyCappedAcrossRestarts` | `[]EmissionWithinCap` | `WellFormed` databases |
| `CommittedOnceAcrossRestarts` | `[]CommittedOnce` | release build; `genesis_block` on an empty chain only; `WellFormed`, `Consistent` |
| `NewLinksKept` | `[]LinksBreakOnlyInOldChain` | `genesis_block` on an empty chain only; `WellFormed`, `Intact` |
| `MoneyConservedAcrossRestarts` | `[]SupplyConserved` | `WalletsSound`, `[]DepositsFit`; `WellFormed`, `AffordableDb`, `FundedDb` |
| `ReservationsAffordableAcrossRestarts` | `[]PendingWithinBalance` | the same |
| `MinedBlocksAlwaysSaved` | `[]MinedBlocksSaved` | the same as for money; `genesis_block` on an empty chain only; `Intact` |
| `TipAlwaysStands` | `[]TipStandsAfterRestart` | release build; `genesis_block` on an empty chain only; `WellFormed`, `Intact`, `WrittenByOthers` |

A node that imports, `ImportSpec`:

| Theorem | Says | Assumes beyond the constants' ASSUMEs |
|---|---|---|
| `ImportTypeCorrect` | `[]ImportTypeOK` | |
| `ImportReservationsCovered` | `[]PendingWithinBalance` | checked build |
| `FundedReplaySucceeds` | `[]FundedReplayMatches` | `OffersMined` |
| `LedgerRebuilt` | `[]ReplayedLedger` | `OffersMined`, `[]CreditsFit` |
| `ImportedTipStands` | `[]ImportedTipValidates` | `OffersMined` |
| `EmissionIsOfTheChain` | `[]EmissionFollowsChain` | `[]AmountsFit` |
| `ImportedRewardFollowsSchedule` | `[]RewardReflectsHeight` | `[]AmountsFit` |

Two nodes, `NodesSpec`:

| Theorem | Says | Assumes beyond the constants' ASSUMEs |
|---|---|---|
| `SameChainSameLedger` | `[]LedgersAgree` | `Deposits = {}`, `CallsComplete` |
| `OneWalletNeverRefused` | `CallsComplete`, `[]LedgersAgree` | `OneWallet`, `[][~SumOverflows]_nodesVars` |

### What is assumed, and why

The constants' assumptions are named and stated where the constants are
declared: `U64Assumption`, `AddrAssumption` (addresses are numbers, since the
sort compares them, and finitely many), `SupplyAssumption` (cap plus initial
reward is a u64: 2 * 10^13 plus 6 * 10^4 is), `DecayAssumption` (the decay does
not increase a reward) and `InputAssumption` (what callers pass has the types of
the method signatures). TLC evaluates them in every run.

The theorems about money need that amounts stay below 2^64, which the code does not
enforce:

- `WalletsSound`: nobody signs for the zero address (the code treats it as "no sender"),
  and in a release build no wallet signs a transaction whose `amount + fee` wraps. In a
  checked build the addition panics at admission, so nothing is asked there.
- `DepositsFit`: what callers have given to `add_account`, plus the supply cap, is
  below 2^64. The cap of 2 * 10^13 leaves nearly all of the u64 for deposits.
- `AmountsFit`, `CreditsFit`: the same of a node that imports, where deposits of other
  nodes are not known: `mine_block` comes to its end, and the emission and the balances of
  a replay do not wrap.

They are hypotheses on the environment of the ledger and not on its outcome: of the
reservations, of the order of submissions, drops and blocks, and of what is in the mempool
nothing is assumed. They are needed: `wrapped_debit` violates `SupplyConserved` with one
wrapping debit, and section 4 lists what a panic on the miner's balance leaves behind.
`AmountsFit` is about the states of a run: it leaves out the steps after an import that carried
emission past the cap, where the subtraction in line 642 goes below zero. Each of them holds
in every state of the passing run whose property it serves (`supply`, `storage`, `import`).

`OffersMined`: the chains that are offered have the nonces and the keys of blocks that some
`mine_block` made. `MCImport` has TLC evaluate it.

Of a database that an earlier process left: `WellFormed` (amounts are u64, emission and reward
within their bounds), `Consistent` (the saved nonces cover the saved chain, which repeats
none), `Intact` (one header per block; a chain that `open` will migrate has one block or was
written by another version), `AffordableDb` (no account reserves more than it holds), `FundedDb` (the
balances are what was deposited and emitted) and `WrittenByOthers` (the blocks it starts
with are not this version's; those this version mines are covered by the theorem from then
on). They are predicates in `StorageProperties`, assumed of the databases a history starts
with and shown of what this version writes, where the argument needs it; `MCStorage` makes TLC
check them for the ones it starts from.

`SameChainSameLedger` is about both builds, about any number of blocks, restarts and
exchanges, and about `genesis_block` at any length; amounts may wrap, since both nodes wrap
alike. `NodesAssumption` gives the constants of `TwoNodes` their types, and says that the
transactions that may be submitted are finitely many. The theorem assumes two
things, and both are needed:

- `Deposits = {}`: a balance given to `add_account` is not on the chain, so two nodes whose
  callers gave different ones differ from the start.
- `CallsComplete`: no `mine_block` returns `Err("Fee overflow")`, which has
  already decayed the reward, and no `mine_block` or replay ends in a panic or a mismatch, which
  leaves part of a block applied. A chain that is refused before the replay and a
  restart are not failures in this sense. The run `two_nodes` checks
  it. With the constants of `diverged`, where imports end in a mismatch, one restart
  and one block more on each side, TLC finds a behaviour of 39 states that violates
  `LedgersAgree`: both nodes hold one chain, and one of them has kept a payment of a block
  whose replay ended in a mismatch.

`OneWalletNeverRefused` replaces `CallsComplete` by a condition on who holds what.
`OneWallet` is that of the run `two_nodes`: `Deposits = {}`, both nodes mine for one
address, and only that address spends (it may pay anybody). What is left of `CallsComplete`
is that no sum overflows (`SumOverflows` names the calls that end in the middle for any other
reason than a mismatch); the code does not bound amounts, so this stays an assumption, as in
the theorems about money. That the nodes mine for one address is needed: in
`diverged` all other conditions hold, node B has a miner of its own, and TLC finds a chain
that node B refuses for ever.

### The argument

- **Types and cap.** `TypeOK` is inductive (`TypeStep`, from one lemma for the calls,
  one for the start of `mine_block`, one for the steps that apply a block), also where
  emission is beyond the cap: this is what `ImportProofs` needs. The cap is not
  inductive by itself: its comparison `emission + reward > MAX` is only right when that
  sum does not wrap. `TypeInv` is `TypeOK`, the cap, and
  `block_reward <= INITIAL_REWARD`; `CapStep` carries the last two.
- **Nonce lock.** `NonceLock` is inductive given `TypeOK`. The admission test alone
  does not keep nonces distinct (after a drop, the count names a nonce that is
  still taken); the duplicate-key test does. What keeps live nonces above the
  account's is that `ApplyTx` takes the least remaining transaction of a sender,
  which is where the sort order enters. `NonceMonotone` follows from the
  same invariant: a transaction is settled while it is live.
- **Replay protection.** `CommittedOnce` needs `Settled`: every transaction in the chain
  that is not still to be applied has a nonce at most its sender's, and none of
  the live ones is equal to one in an earlier block. In a checked build an unwound call pushes a
  block whose last transactions are never settled, so their nonces can be used
  again; the theorem is about release builds.
- **Counts.** `PendingNonceExact` adds the fact that a live transaction's
  sender has an account, and counts by `LiveCount` and `CountStep` over finite sets.
- **Coverage.** In a checked build no sum wraps, and every step changes a pending
  amount and a balance so that the first stays below the second
  (`CoveredUpdates`). In a release build a recipient's balance can wrap under its
  reservation: there `ReservationsAffordable` needs that amounts fit.
- **Sums.** The money properties are sums over sets. `SumFunction` is a recursive
  function on subsets given by a CHOOSE, so `SumTheorems` first shows by induction on the size of
  the set that such a function exists, then, by a second induction, that the order in
  which it takes the elements does not matter. What the other modules use are the
  consequences: a sum with one element more, one less or one changed.
- **Money.** Conservation and reservations depend on each other. The saturating debit
  of `mine_block` is exact only if the sender can pay, which its reservation says; the
  credit is exact only if the balances together stay below 2^64, which conservation says.
  `MoneyInv` is both, with the fees in flight not negative and every live cost a u64. Of the
  reservations it has that they cover what is live and that the balances cover them, not
  that they match: a restart may find reservations without transactions. With it
  `mine_block` cannot fail, wrap or panic (`CoinbaseAlwaysFits`, `CreditsExact`, `CoinbaseExact`).
- **Counters and schedule.** They are inductive once `mine_block` is known to finish:
  `CounterInv` adds the sum over the chain, and the schedule is a recursive function on
  `Nat` of which each step needs one unfolding.
- **Refinement.** The push of the block is the commit; `FundsOf` a ledger in
  mid-block is what its accounts will hold. `LedgerIsAtomic` shows that a push adds to every
  account what the whole block does to it, and that applying one transaction moves an amount
  from "still to come" to "already there".
- **Validation.** A sorted body is a rank function on a set of distinct keys
  (`BodySorted`); the nonces of one sender in it are without a gap exactly if there are as many
  as the interval they span has numbers. That turns both validators, one counting back from
  the account's nonce and one up from the first in the block, into `Gapless` (`Verdicts`).
  `TipFrom` carries what the first needs: the accounts have the nonces the tip left.
- **Restarts.** A running node takes the steps of `Ledger`, so the step lemmas of
  the modules above apply; what is new is that the database is, in every state, the
  ledger of a node between two calls. `SameLedger` says that neither the
  migration nor the filling of checksums touches what the accounts depend on, so a
  process that opens a database starts where `CommitInv` holds (`LoadConsistent`), with
  all the money and no account reserving more than it has (`VaultInv`, `SoundMoney`). It has an
  empty mempool, so reservations left over from the last process cover more than they need.
  What a call of `persist_chain` writes between two calls is the ledger of an idle node, for
  which the same is an invariant. `MinedBlocksSaved` needs that a
  call which pushes a block comes to the save at its end (`NothingUnsaved`).
- **Links.** `HeadersLinked` is about the node's headers and, separately, the
  database's. The migration changes hashes and not `previous_hash`, so it keeps the
  links only where there is nothing to link: one block, or blocks of another
  version (`KeptLinks`). That an outdated database is always of that kind, also after
  `genesis_block` wrote a bare chain, is the strengthening (`Intact`).
- **The tip after a restart.** `StandInv` joins the two: `TipFrom(foreign)` for the running
  node, and of a database whose last block is this version's, that `open` will not migrate
  it, that the saved accounts have the nonces that block left, and that its header is the one
  `mine_block` gave it (`TipSaved`).
- **Imports.** `ImportInv` adds that the blocks left to replay have a miner, since a
  chain with a genesis block is refused. `ImportCoverInv` adds that during a replay
  no account reserves anything, so what the replay leaves is covered whatever is in the
  mempool. `ReplayInv` adds that everybody the replay has paid has an account and that, on a
  funded chain, the fees charged are those of the transactions replayed. `LedgerRebuilt` then
  follows the replay payment by payment: `Done` is what comes before the next payment, each
  payment and each coinbase adds one term to one sum of `Worth`, `Funded` makes the saturating
  debit exact and `CreditsFit` the wrapping credit. `EmissionInv` has
  the exact value of emission, and that during a replay all blocks of the chain are
  imported ones; the bounds of `EmissionFollowsChain` follow (`ExactFollows`).
- **Two nodes.** No invariant over the four ledger variables of two nodes is inductive here:
  what a node has must be tied to the chain it has it from. A *book* is the accounts, the
  reward and the height after some steps along a chain: begin a block, apply its
  least transaction, pay the coinbase, pass over the block of `genesis_block` (`Moves`).
  `Derived(c, s)` says that a finite series of such steps leads along `c` to `s`, and it stands for
  the recursive definition that the provers cannot unfold. `DerivedUnique`: at each point the
  chain allows one move only (a block's transactions have one that comes first), so by
  induction on the series a chain has at most one book that is through with it.
  `FollowsChain` is the invariant of one node: between calls its book is derived from its
  chain and through; in a `mine_block` that applies its block, and in a replay, it is
  derived and lacks exactly the transactions, blocks and coinbase that the call
  still has. A chain that grows keeps the books of the shorter one, a replay starts at
  the first book, a restart likewise. Two quiet nodes with one chain then have one book. The half for
  node B repeats the half for node A: tlapm does not take the theorems of an
  instantiated module, so each half is proved for its own instance, and `OperatorsB`
  says that the two compute alike.
- **One wallet.** `fee_checksum` counts the fees of all transactions of a block; the replay
  adds up those of the senders it knows. The two are equal if every sender is known when its
  block is replayed. `PaysItsWay` is the invariant that says so: in every chain, and every copy a
  caller holds, a block with transactions comes after a block that pays the wallet
  (`PaidFirst`); between calls a node knows the wallet exactly if its chain pays it, and has
  transactions in its mempool only then; in a replay, a block with transactions finds the
  wallet known, and the fees charged so far are those of the block without those still to
  do. The middle part is why it is about one wallet: an import keeps the mempool and
  may take the account of a second wallet away, but an importable chain is not empty and has
  mined blocks only, and each of them pays the only wallet. `FeesOf` adds and removes one transaction from the sum
  `FeeTotal`, by `SumTheorems`.

### Only model-checked, and why

- `ForkResolved`: liveness under fairness, and anything with ENABLED, is out of the
  prover's reach.
- `MinedBlockValidates`, and `SupplyConserved`, `CommittedOnce` and `EmissionWithinCap` in
  the runs that expect a violation, are false.

On induction: the theorems of the library that take an operator as a parameter cannot
be instantiated by the installed provers. `SumTheorems` has its own, with a set in the
place of the predicate (`{n \in Nat : ...}`), and that is enough for sums.

## 6. What is not modelled

- Incoming chains with edited bytes (broken links, hashes, coinbases that differ
  from the header): `is_valid_chain_rust` refuses them by comparing hashes, which
  the import modules do not represent.
- The Python setters of `difficulty`, of the counters and of `accounts`: they let
  a caller write any value, which no invariant can survive; getters return copies.
- A late `genesis_block`: the runs call it on an empty chain, as its callers do.
  `GenesisHeights` is there to widen this.
- Serialization, Ed25519, key generation, BLAKE3, the byte layout of the hashes:
  pure functions, without state, taken to be injective and correct.
- Imports together with a database that survives: `import_chain` writes nothing to it, so a
  crash after it is a restart from the ledger before it. `TwoNodes` has imports and
  restarts with the database of this code, which is always lost.
- I/O errors of a database: `SimpleDb` returns none.
- The compile-time check of the genesis hash (`build.rs`), `xtask`, `demo.py`:
  no part of the running ledger.

## 7. Plan

Done: everything in section 2.

Next, in this order:

1. `ChainImport` on top of `Storage`: a restart after an import falls back to the chain
   saved before it, and the next `mine_block` saves the imported one.
2. An abstract import that replaces one ledger by the ledger of a chain in one step,
   refined by `ChainImport` where the replay completes.
3. A late `genesis_block`, and `Account` entries for the zero address in the
   conservation properties.
