---------------------------- MODULE ImportProofs ----------------------------
(***************************************************************************)
(* Theorems about ChainImport.  For every set of offers: the types of a    *)
(* node that imports, its reservations in a checked build, its emission    *)
(* and its reward schedule.  For offers that were mined: the replay of a   *)
(* funded chain completes, rebuilds the ledger that the chain determines,  *)
(* and the node accepts its new tip.                                       *)
(***************************************************************************)
EXTENDS ImportProperties, ValidationProofs, MoneyProofs, SequenceTheorems

\* The blocks left to replay have a miner: a chain with a genesis block is not
\* accepted.
ImportInv ==
    /\ ImportTypeOK
    /\ \A i \in DOMAIN replay.blocks : replay.blocks[i].miner # NoMiner

\* replay at the beginning of a chain
LEMMA ReplayTypes ==
    ASSUME NEW blocks \in Seq(Block)
    PROVE  /\ Replay(blocks) \in [blocks: Seq(Block), todo: SUBSET TxSpace,
                                 fees: [Token -> Nat]]
           /\ Replay(blocks).blocks = blocks
           /\ blocks # << >> => Replay(blocks).todo = Head(blocks).txs
           /\ blocks = << >> => Replay(blocks) = NoReplay
<1>1. blocks # << >> => Head(blocks) \in Block
  OBVIOUS
<1>2. Zero \in [Token -> Nat]
  BY DEF Zero
<1> QED
  BY <1>1, <1>2 DEF Replay, NoReplay, Block

\* The block being replayed
LEMMA CurrentTypes ==
    ASSUME ImportInv, Replaying
    PROVE  /\ Current \in Block /\ Current.miner \in Addr /\ Current.coinbase \in Pair
           /\ Tail(replay.blocks) \in Seq(Block)
           /\ \A i \in DOMAIN Tail(replay.blocks) : Tail(replay.blocks)[i].miner # NoMiner
           /\ Idle /\ accounts[Current.miner].balance \in Pair
<1>1. /\ replay.blocks \in Seq(Block) /\ replay.blocks # << >> /\ Idle
      /\ Len(replay.blocks) \in Nat \ {0}
  BY DEF ImportInv, ImportTypeOK, Replaying
<1>2. Current = replay.blocks[1] /\ 1 \in DOMAIN replay.blocks
  BY <1>1 DEF Current
<1>3. Current \in Block /\ Current.miner # NoMiner
  BY <1>1, <1>2 DEF ImportInv
<1>4. Current.miner \in Addr /\ Current.coinbase \in Pair
  BY <1>3 DEF Block
<1>5. /\ Tail(replay.blocks) \in Seq(Block)
      /\ DOMAIN Tail(replay.blocks) = 1 .. (Len(replay.blocks) - 1)
      /\ \A i \in DOMAIN Tail(replay.blocks) :
             /\ Tail(replay.blocks)[i] = replay.blocks[i + 1]
             /\ i + 1 \in DOMAIN replay.blocks
  BY <1>1
<1>6. accounts[Current.miner] \in Account
  BY <1>4 DEF ImportInv, ImportTypeOK, TypeOK
<1> QED
  BY <1>1, <1>3, <1>4, <1>5, <1>6 DEF ImportInv, Account

\* A sender's half of a replayed transaction changes balance and nonce only.
LEMMA AfterRedebitTypes ==
    ASSUME ImportInv, NEW tx \in replay.todo
    PROVE  /\ Replaying /\ tx \in TxSpace /\ tx.from \in Addr /\ tx.to \in Addr
           /\ AfterRedebit(tx) \in [Addr -> Account]
           /\ \A a \in Addr : AfterRedebit(tx)[a].pending = accounts[a].pending
           /\ \A a \in Addr \ known : AfterRedebit(tx)[a] = EmptyAccount
<1>1. Replaying /\ tx \in TxSpace
  BY DEF ImportInv, ImportTypeOK, NoReplay
<1>2. tx.from \in Addr /\ tx.to \in Addr /\ tx.nonce \in Word /\ Debit(tx) \in Pair
  BY <1>1, InputAssumption, PairTypes DEF Tx
<1>3. accounts \in [Addr -> Account] /\ \A a \in Addr \ known : accounts[a] = EmptyAccount
  BY DEF ImportInv, ImportTypeOK, TypeOK
<1>4. Minus(accounts[tx.from].balance, Debit(tx)) \in Pair
  BY <1>2, <1>3, PairTypes DEF Account
<1>5. /\ Redebit(accounts[tx.from], tx) \in Account
      /\ Redebit(accounts[tx.from], tx).pending = accounts[tx.from].pending
  BY <1>2, <1>3, <1>4 DEF Redebit, Account
<1> QED
  BY <1>1, <1>2, <1>3, <1>5 DEF AfterRedebit, Pays

-----------------------------------------------------------------------------
(* Types *)

\* The fields that no step of the replay touches, and those that each assigns.
LEMMA ReplayStepTypes ==
    ASSUME ImportInv, Replaying,
           accounts' \in [Addr -> Account], known' \subseteq Addr,
           \A a \in Addr \ known' : accounts'[a] = EmptyAccount,
           emission' \in Pair, block_reward' \in Pair, block_height' \in Nat,
           UNCHANGED <<mempool, call, deposited>>, chain' \in Seq(Block)
    PROVE  TypeOK' /\ Idle'
<1>1. Idle /\ call = NoCall
  BY DEF ImportInv, ImportTypeOK, TypeOK
<1> QED
  BY <1>1 DEF ImportInv, ImportTypeOK, TypeOK, Idle

\* A replay that ends in an error leaves no replay.
LEMMA AbandonTypes ==
    ASSUME ImportInv, Abandon, TypeOK', chain' = chain
    PROVE  ImportInv'
<1>1. Zero \in [Token -> Nat] /\ << >> \in Seq(Block)
  BY DEF Zero
<1> QED
  BY <1>1 DEF Abandon, ImportInv, ImportTypeOK, NoReplay, Replaying

LEMMA ReplayTypesKept ==
    ASSUME ImportInv, ReplayStep
    PROVE  ImportInv'
<1>0. /\ TypeOK /\ accounts \in [Addr -> Account] /\ known \subseteq Addr
      /\ \A a \in Addr \ known : accounts[a] = EmptyAccount
      /\ emission \in Pair /\ block_reward \in Pair /\ block_height \in Nat
      /\ chain \in Seq(Block)
  BY DEF ImportInv, ImportTypeOK, TypeOK
<1>1. ASSUME NEW tx \in replay.todo, NEW bal \in Pair, known' = known \cup {tx.to},
             accounts' = [AfterRedebit(tx) EXCEPT ![tx.to].balance = bal],
             UNCHANGED <<mempool, chain, emission, block_reward, block_height, call, deposited>>
      PROVE  TypeOK' /\ Idle'
  <2>1. [AfterRedebit(tx)[tx.to] EXCEPT !.balance = bal] \in Account
    BY AfterRedebitTypes DEF Account
  <2>2. /\ accounts' \in [Addr -> Account] /\ known' \subseteq Addr
        /\ \A a \in Addr \ known' : accounts'[a] = EmptyAccount
    BY <1>0, <1>1, <2>1, AfterRedebitTypes
  <2> QED
    BY <1>0, <1>1, <2>2, AfterRedebitTypes, ReplayStepTypes
<1>2. ASSUME NEW tx \in replay.todo, ReplayTx(tx)
      PROVE  ImportInv'
  <2>1. PlusMod(AfterRedebit(tx)[tx.to].balance, tx.amount) \in Pair
    BY AfterRedebitTypes, PairTypes DEF Account
  <2>2. accounts' = [AfterRedebit(tx) EXCEPT
                        ![tx.to].balance = PlusMod(AfterRedebit(tx)[tx.to].balance, tx.amount)]
    BY <1>2 DEF ReplayTx
  <2>3. TypeOK' /\ Idle'
    BY <1>1, <1>2, <2>1, <2>2 DEF ReplayTx
  <2>4. FeeSplit(tx.selector, tx.fee) \in [Token -> Nat]
    BY AfterRedebitTypes, InputAssumption, FeeSplitExact DEF Tx, Word
  <2>5. /\ replay' \in [blocks: Seq(Block), todo: SUBSET TxSpace, fees: [Token -> Nat]]
        /\ replay'.blocks = replay.blocks
        /\ replay'.todo = replay.todo \ {tx}
    <3>1. replay.fees \in [Token -> Nat]
          /\ Plus(replay.fees, FeeSplit(tx.selector, tx.fee)) \in [Token -> Nat]
      BY <2>4 DEF ImportInv, ImportTypeOK, Plus
    <3>2. \E f \in [Token -> Nat] : replay' = [replay EXCEPT !.todo = @ \ {tx}, !.fees = f]
      BY <1>2, <3>1 DEF ReplayTx
    <3> QED
      BY <3>2 DEF ImportInv, ImportTypeOK
  <2> QED
    BY <1>2, <2>3, <2>5, AfterRedebitTypes
    DEF ReplayTx, ImportInv, ImportTypeOK, Replaying, Current
<1>3. ASSUME NEW tx \in replay.todo, ReplayDebitPanic(tx)
      PROVE  ImportInv'
  <2> DEFINE bal == [t \in Token |-> IF t = "ct" /\ Cost(tx)[t] < U64
                                    THEN SatSub(accounts[tx.from].balance[t], Cost(tx)[t])
                                    ELSE accounts[tx.from].balance[t]]
  <2>1. tx.from \in known /\ tx.from \in Addr /\ Replaying /\ tx \in TxSpace
    BY <1>3, AfterRedebitTypes DEF ReplayDebitPanic, DebitFits, Pays
  <2>2. bal \in Pair
    <3>1. accounts[tx.from].balance \in Pair
      BY <1>0, <2>1 DEF Account
    <3>2. FeeSplit(tx.selector, tx.fee) \in [Token -> Nat] /\ tx.amount \in [Token -> Nat]
      BY <2>1, InputAssumption, FeeSplitExact DEF Tx, Pair, Word
    <3>3. \A t \in Token : Cost(tx)[t] \in Nat
      BY <3>2 DEF Cost
    <3>4. \A t \in Token : SatSub(accounts[tx.from].balance[t], Cost(tx)[t]) \in Word
      BY <3>1, <3>3, U64Assumption DEF SatSub, Pair, Word
    <3> QED
      BY <3>1, <3>4 DEF Pair
  <2>3. accounts' = [accounts EXCEPT ![tx.from].balance = bal]
    BY <1>3 DEF ReplayDebitPanic
  <2>4. [accounts[tx.from] EXCEPT !.balance = bal] \in Account
    BY <1>0, <2>1, <2>2 DEF Account
  <2>5. /\ accounts' \in [Addr -> Account]
        /\ \A a \in Addr \ known : accounts'[a] = EmptyAccount
    BY <1>0, <2>1, <2>3, <2>4
  <2>6. TypeOK'
    BY <1>0, <1>3, <2>1, <2>5, ReplayStepTypes DEF ReplayDebitPanic
  <2> QED
    BY <1>3, <2>6, AbandonTypes DEF ReplayDebitPanic
<1>4. ASSUME NEW tx \in replay.todo, ReplayCreditPanic(tx)
      PROVE  ImportInv'
  <2>1. Partial(AfterRedebit(tx)[tx.to].balance, tx.amount) \in Pair
    BY AfterRedebitTypes, PairTypes DEF Account
  <2>2. accounts' = [AfterRedebit(tx) EXCEPT
                        ![tx.to].balance = Partial(AfterRedebit(tx)[tx.to].balance, tx.amount)]
    BY <1>4 DEF ReplayCreditPanic
  <2>3. TypeOK'
    BY <1>1, <1>4, <2>1, <2>2 DEF ReplayCreditPanic
  <2> QED
    BY <1>4, <2>3, AbandonTypes DEF ReplayCreditPanic
<1>5. ASSUME Replaying, NEW bal \in Pair, known' = known \cup {Current.miner},
             accounts' = [accounts EXCEPT ![Current.miner].balance = bal]
      PROVE  /\ accounts' \in [Addr -> Account] /\ known' \subseteq Addr
             /\ \A a \in Addr \ known' : accounts'[a] = EmptyAccount
  <2>1. [accounts[Current.miner] EXCEPT !.balance = bal] \in Account
    BY <1>0, <1>5, CurrentTypes DEF Account
  <2> QED
    BY <1>0, <1>5, <2>1, CurrentTypes
<1>6. Decay(block_reward) \in Pair
  BY <1>0, RewardTypes
<1>7. ASSUME Replaying, CoinbaseAccepted
      PROVE  Plus(accounts[Current.miner].balance, Current.coinbase) \in Pair
  BY <1>7, CurrentTypes, U64Assumption DEF CoinbaseAccepted, Plus, Pair, Word
<1>8. CASE ReplayBlock
  <2>1. Replaying
    BY <1>8 DEF ReplayBlock, BlockReplayed
  <2>2. PlusMod(emission, Emitted) \in Pair
    BY <1>0, <2>1, CurrentTypes, PairTypes DEF Emitted
  <2>3. /\ accounts' \in [Addr -> Account] /\ known' \subseteq Addr
        /\ \A a \in Addr \ known' : accounts'[a] = EmptyAccount
    BY <1>5, <1>7, <1>8, <2>1 DEF ReplayBlock
  <2>4. chain' \in Seq(Block) /\ Len(chain') = Len(chain) + 1
    BY <1>0, <1>8, <2>1, CurrentTypes DEF ReplayBlock
  <2>5. TypeOK' /\ Idle'
    BY <1>0, <1>6, <1>8, <2>1, <2>2, <2>3, <2>4, ReplayStepTypes DEF ReplayBlock
  <2>6. /\ replay' = Replay(Tail(replay.blocks))
        /\ imported' \in 0 .. Len(chain') /\ complete' \in BOOLEAN
    BY <1>0, <1>8, <2>4 DEF ReplayBlock, Rest, ImportInv, ImportTypeOK
  <2>7. /\ replay' \in [blocks: Seq(Block), todo: SUBSET TxSpace, fees: [Token -> Nat]]
        /\ replay'.blocks = Tail(replay.blocks)
        /\ replay'.blocks # << >> => replay'.todo = Head(replay'.blocks).txs
        /\ replay'.blocks = << >> => replay' = NoReplay
    BY <2>1, <2>6, CurrentTypes, ReplayTypes
  <2> QED
    BY <2>1, <2>5, <2>6, <2>7, CurrentTypes
    DEF ImportInv, ImportTypeOK, Replaying, Current
<1>9. CASE ReplayMismatch
  <2>1. TypeOK'
    BY <1>0, <1>9, TypeStep DEF ReplayMismatch
  <2> QED
    BY <1>9, <2>1, AbandonTypes DEF ReplayMismatch, vars
<1>10. CASE ReplayMinerPanic
  <2>1. Replaying
    BY <1>10 DEF ReplayMinerPanic, BlockReplayed
  <2>2. Partial(accounts[Current.miner].balance, Current.coinbase) \in Pair
    BY <2>1, CurrentTypes, PairTypes
  <2>3. TypeOK'
    BY <1>0, <1>5, <1>10, <2>1, <2>2, ReplayStepTypes DEF ReplayMinerPanic
  <2> QED
    BY <1>10, <2>3, AbandonTypes DEF ReplayMinerPanic
<1>11. CASE ReplayEmissionPanic
  <2>1. Replaying
    BY <1>11 DEF ReplayEmissionPanic, BlockReplayed
  <2>2. Partial(emission, Current.coinbase) \in Pair
    BY <1>0, <2>1, CurrentTypes, PairTypes
  <2>3. TypeOK'
    BY <1>0, <1>5, <1>6, <1>7, <1>11, <2>1, <2>2, ReplayStepTypes DEF ReplayEmissionPanic
  <2> QED
    BY <1>11, <2>3, AbandonTypes DEF ReplayEmissionPanic
<1> QED
  BY <1>2, <1>3, <1>4, <1>8, <1>9, <1>10, <1>11 DEF ReplayStep

\* The calls other than import_chain do not shorten the chain.
LEMMA ChainGrows ==
    ASSUME TypeOK, Next
    PROVE  chain' \in Seq(Block) /\ Len(chain') >= Len(chain)
<1>1. chain \in Seq(Block) /\ TypeOK'
  BY TypeStep DEF TypeOK
<1>2. chain' = chain \/ \E b : chain' = Append(chain, b)
  BY DEF Next, UnsavedStep, AddAccount, GenesisBlock, SubmitTransaction, RejectTransaction, vars,
      DropTransaction, MineBlock, MineFeeOverflow, ApplyTx, ApplyTxPanic, CreditMiner,
      CreditMinerPanic
<1> QED
  BY <1>1, <1>2 DEF TypeOK

\* is_valid_chain_rust, then everything is cleared.
LEMMA StartTypes ==
    ASSUME ImportInv, NEW new \in Offers, StartImport(new)
    PROVE  ImportInv'
<1>1. new \in Seq(Block) /\ \A i \in DOMAIN new : new[i].miner # NoMiner
  BY OffersAssumption DEF StartImport, Importable, ValidChain, AcceptedByPeers
<1>2. /\ replay' \in [blocks: Seq(Block), todo: SUBSET TxSpace, fees: [Token -> Nat]]
      /\ replay'.blocks = new
      /\ new # << >> => replay'.todo = Head(new).txs
      /\ new = << >> => replay' = NoReplay
  BY <1>1, ReplayTypes DEF StartImport
<1>3. TypeOK' /\ Idle'
  BY PairTypes, SupplyAssumption
  DEF StartImport, ImportInv, ImportTypeOK, TypeOK, Idle, Zero
<1>4. imported' \in 0 .. Len(chain') /\ complete' \in BOOLEAN
  <2>1. chain' = << >> /\ imported' = 0 /\ complete' \in BOOLEAN
    BY DEF StartImport
  <2>2. Len(chain') = 0
    BY <2>1
  <2> QED
    BY <2>1, <2>2
<1> QED
  BY <1>1, <1>2, <1>3, <1>4 DEF ImportInv, ImportTypeOK, Replaying, Current

LEMMA ImportInvStep == ImportInv /\ [ImportNext]_importVars => ImportInv'
<1> SUFFICES ASSUME ImportInv, [ImportNext]_importVars PROVE ImportInv'
  OBVIOUS
<1>1. CASE OwnStep
  <2>1. TypeOK' /\ chain' \in Seq(Block) /\ Len(chain') >= Len(chain) /\ chain \in Seq(Block)
    BY <1>1, TypeStep, ChainGrows DEF OwnStep, ImportInv, ImportTypeOK, TypeOK
  <2> QED
    BY <1>1, <2>1 DEF OwnStep, ImportInv, ImportTypeOK, Replaying
<1>2. CASE UNCHANGED importVars
  <2>1. TypeOK'
    BY <1>2, TypeStep DEF importVars, ImportInv, ImportTypeOK
  <2> QED
    BY <1>2, <2>1 DEF importVars, vars, ImportInv, ImportTypeOK, Replaying, Current, Idle
<1>3. ASSUME NEW new \in Offers, StartImport(new)
      PROVE  ImportInv'
  BY <1>3, StartTypes
<1>4. CASE ReplayStep
  BY <1>4, ReplayTypesKept
<1> QED
  BY <1>1, <1>2, <1>3, <1>4 DEF ImportNext, RejectImport

LEMMA ImportInvInit == ImportInit => ImportInv
<1> SUFFICES ASSUME ImportInit PROVE ImportInv
  OBVIOUS
<1>1. TypeOK /\ Len(chain) = 0
  BY TypeInvInit DEF ImportInit, Init, TypeInv
<1>2. NoReplay \in [blocks: Seq(Block), todo: SUBSET TxSpace, fees: [Token -> Nat]]
  BY DEF NoReplay, Zero
<1>3. ~Replaying /\ replay = NoReplay /\ DOMAIN replay.blocks = {}
  BY DEF ImportInit, NoReplay, Replaying
<1>4. imported \in 0 .. Len(chain) /\ complete \in BOOLEAN
  <2>1. imported = 0 /\ complete \in BOOLEAN
    BY DEF ImportInit
  <2>2. Len(chain) = 0
    BY <1>1
  <2> QED
    BY <2>1, <2>2
<1> QED
  BY <1>1, <1>2, <1>3, <1>4 DEF ImportInv, ImportTypeOK

\* import_chain keeps every amount a u64, in both builds, whatever chain it is
\* given and wherever the replay ends: the checked and wrapping additions are the
\* only ones it needs, also for an emission beyond the cap.
THEOREM ImportTypeCorrect == ImportSpec => []ImportTypeOK
<1>1. ImportInv => ImportTypeOK
  BY DEF ImportInv
<1> QED
  BY <1>1, ImportInvInit, ImportInvStep, PTL DEF ImportSpec

-----------------------------------------------------------------------------
(* Reservations *)

\* A replay starts from accounts that reserve nothing, and reserves nothing; the
\* accounts it leaves are covered whatever waits in the mempool.
ImportCoverInv ==
    /\ ImportInv
    /\ PendingWithinBalance
    /\ Replaying => \A a \in Addr : accounts[a].pending = Zero

LEMMA ReplayCover ==
    ASSUME ImportCoverInv, ReplayStep
    PROVE  \A a \in Addr : accounts'[a].pending = Zero
<1>1. /\ \A tx \in replay.todo : Replaying /\ AfterRedebit(tx) \in [Addr -> Account]
      /\ BlockReplayed => Replaying
      /\ accounts \in [Addr -> Account]
  BY AfterRedebitTypes DEF ImportCoverInv, ImportInv, ImportTypeOK, TypeOK, BlockReplayed
<1>2. Replaying
  BY <1>1 DEF ReplayStep, ReplayBlock, ReplayMismatch, ReplayMinerPanic, ReplayEmissionPanic
<1>3. \A a \in Addr : accounts[a].pending = Zero
  BY <1>2 DEF ImportCoverInv
<1>4. ASSUME NEW f \in [Addr -> Account], NEW b, NEW bal,
             \A a \in Addr : f[a].pending = Zero,
             accounts' = [f EXCEPT ![b].balance = bal]
      PROVE  \A a \in Addr : accounts'[a].pending = Zero
  BY <1>4 DEF Account
<1>5. ASSUME NEW tx \in replay.todo, ReplayTx(tx) \/ ReplayCreditPanic(tx)
      PROVE  \A a \in Addr : accounts'[a].pending = Zero
  <2>1. \E bal : accounts' = [AfterRedebit(tx) EXCEPT ![tx.to].balance = bal]
    BY <1>5 DEF ReplayTx, ReplayCreditPanic
  <2>2. \A a \in Addr : AfterRedebit(tx)[a].pending = Zero
    BY <1>3, AfterRedebitTypes DEF ImportCoverInv
  <2> QED
    BY <1>1, <1>4, <2>1, <2>2
<1>6. ASSUME NEW tx \in replay.todo, ReplayDebitPanic(tx)
      PROVE  \A a \in Addr : accounts'[a].pending = Zero
  BY <1>1, <1>3, <1>4, <1>6 DEF ReplayDebitPanic
<1>7. CASE ReplayBlock \/ ReplayMinerPanic \/ ReplayEmissionPanic
  <2>1. \E bal : accounts' = [accounts EXCEPT ![Current.miner].balance = bal]
    BY <1>7 DEF ReplayBlock, ReplayMinerPanic, ReplayEmissionPanic
  <2> QED
    BY <1>1, <1>3, <1>4, <2>1
<1>8. CASE ReplayMismatch
  BY <1>3, <1>8 DEF ReplayMismatch, vars
<1> QED
  BY <1>5, <1>6, <1>7, <1>8 DEF ReplayStep

LEMMA ImportCoverStep ==
    ASSUME ImportCoverInv, [ImportNext]_importVars, OverflowChecks = TRUE
    PROVE  ImportCoverInv'
<1>1. ImportInv'
  BY ImportInvStep DEF ImportCoverInv
<1>2. ASSUME \A a \in Addr : accounts'[a].pending = Zero
      PROVE  ImportCoverInv'
  <2>1. \A a \in Addr, t \in Token : accounts'[a].balance[t] \in Nat
    BY <1>1, U64Assumption DEF ImportInv, ImportTypeOK, TypeOK, Account, Pair, Word
  <2> QED
    BY <1>1, <1>2, <2>1 DEF ImportCoverInv, PendingWithinBalance, Zero
<1>3. CASE OwnStep
  <2>0. \A tx \in call.todo : ApplyTx(tx) => CreditExact(tx)
    BY DEF ApplyTx, CreditFits, Adds, CreditExact
  <2>1. \A a \in Addr : Covered(accounts'[a])
    BY <1>3, <2>0, CoverStep DEF OwnStep, ImportCoverInv, ImportInv, ImportTypeOK, CoverInv
  <2>2. ~Replaying'
    BY <1>3 DEF OwnStep, Replaying
  <2> QED
    BY <1>1, <2>1, <2>2 DEF ImportCoverInv, PendingWithinBalance, Covered
<1>4. CASE UNCHANGED importVars
  BY <1>1, <1>4 DEF importVars, vars, ImportCoverInv, PendingWithinBalance, Replaying
<1>5. ASSUME NEW new \in Offers, StartImport(new)
      PROVE  ImportCoverInv'
  BY <1>2, <1>5 DEF StartImport, EmptyAccount
<1>6. CASE ReplayStep
  BY <1>2, <1>6, ReplayCover
<1> QED
  BY <1>3, <1>4, <1>5, <1>6 DEF ImportNext, RejectImport

\* INV-PENDING-002 for a node that imports, in a checked build: whatever the
\* imports leave in the mempool without a reservation, no account ever reserves
\* more than it holds.
THEOREM ImportReservationsCovered ==
    OverflowChecks = TRUE => (ImportSpec => []PendingWithinBalance)
<1> SUFFICES ASSUME OverflowChecks = TRUE PROVE ImportSpec => []PendingWithinBalance
  OBVIOUS
<1>1. ImportInit => ImportCoverInv
  BY ImportInvInit
  DEF ImportInit, Init, ImportCoverInv, PendingWithinBalance, EmptyAccount, Zero
<1>2. ImportCoverInv /\ [ImportNext]_importVars => ImportCoverInv'
  BY ImportCoverStep
<1>3. ImportCoverInv => PendingWithinBalance
  BY DEF ImportCoverInv
<1> QED
  BY <1>1, <1>2, <1>3, PTL DEF ImportSpec

-----------------------------------------------------------------------------
(* The replay of a funded chain *)

LEMMA MinedOrdered ==
    ASSUME NEW S, S \subseteq TxSpace, MinedTxs(S)
    PROVE  Ordered(S)
<1> SUFFICES ASSUME NEW x \in S, NEW y \in S, x # y
             PROVE  Before(x, y) \/ Before(y, x)
  BY DEF Ordered
<1>1. x.from \in Nat /\ y.from \in Nat /\ x.nonce \in Nat /\ y.nonce \in Nat
  BY KeyTypes
<1>2. ~(x.from = y.from /\ x.nonce = y.nonce)
  BY DEF MinedTxs
<1> QED
  BY <1>1, <1>2 DEF Before

SoundOffer(b) == MinedTxs(b.txs) /\ AcceptedByPeers(b, Body(b))

\* The fees of an accepted block are those of its transactions.
LEMMA OfferFees ==
    ASSUME NEW b \in Block, SoundOffer(b)
    PROVE  b.fees = FeeTotal(b.txs) /\ SortedAs(Body(b), b.txs)
<1>1. b.txs \subseteq TxSpace
  BY DEF Block
<1>2. SortedAs(Body(b), b.txs)
  BY <1>1, MinedOrdered, BodySorted DEF SoundOffer
<1>3. Range(Body(b)) = b.txs
  BY <1>2 DEF SortedAs, Range
<1> QED
  BY <1>2, <1>3 DEF SoundOffer, AcceptedByPeers

\* Whoever was credited has an account.
Credited ==
    /\ \A i \in DOMAIN chain : chain[i].miner \in known /\ \A x \in chain[i].txs : x.to \in known
    /\ \A x \in Current.txs \ replay.todo :
           x.to \in known /\ \A y \in replay.todo : Before(x, y)

\* What has been replayed of the block has been charged and settled.
Charged ==
    /\ \A t \in Token :
           replay.fees[t] = FeeTotal(Current.txs)[t] - FeeTotal(replay.todo)[t]
    /\ SettledBy(Current.txs \ replay.todo)

Imported == complete /\ ~Replaying /\ imported = Len(chain) /\ chain # << >>

\* An own block comes on top of the imported ones; until then the tip is an offered
\* block, and settled if the chain was funded.
ReplayInv ==
    /\ ImportInv
    /\ \A i \in DOMAIN replay.blocks : SoundOffer(replay.blocks[i])
    /\ Replaying => Credited
    /\ (Replaying /\ Funded(Whole)) => Charged
    /\ Replaying => ~complete
    /\ ~Idle => imported < Len(chain)
    /\ Imported => SoundOffer(Last(chain))
    /\ (Imported /\ Funded(chain)) => SettledBy(Last(chain).txs)

LEMMA PaymentsOf ==
    ASSUME NEW c, NEW p
    PROVE  p \in Payments(c) <=> (\E i \in DOMAIN c : \E x \in c[i].txs : p = <<i, x>>)
BY DEF Payments

\* The chain being imported, up to and with the current block.
LEMMA WholeParts ==
    ASSUME ImportInv, Replaying
    PROVE  /\ Len(chain) \in Nat /\ DOMAIN chain = 1 .. Len(chain)
           /\ Len(chain) + 1 \in DOMAIN Whole
           /\ DOMAIN Whole = 1 .. (Len(chain) + Len(replay.blocks)) /\ Len(replay.blocks) \in Nat
           /\ \A i \in DOMAIN chain : i \in DOMAIN Whole /\ Whole[i] = chain[i]
           /\ Whole[Len(chain) + 1] = Current
           /\ replay.blocks = << Current >> => Whole = Append(chain, Current)
<1>1. /\ chain \in Seq(Block) /\ replay.blocks \in Seq(Block) /\ replay.blocks # << >>
      /\ Len(replay.blocks) \in Nat \ {0} /\ Len(chain) \in Nat
  BY DEF ImportInv, ImportTypeOK, TypeOK, Replaying
<1>2. Current = replay.blocks[1]
  BY <1>1 DEF Current
<1>3. /\ Whole \in Seq(Block)
      /\ Len(Whole) = Len(chain) + Len(replay.blocks)
      /\ \A i \in 1 .. Len(Whole) : Whole[i] = IF i <= Len(chain) THEN chain[i]
                                              ELSE replay.blocks[i - Len(chain)]
  BY <1>1 DEF Whole
<1>4. Len(chain) + 1 \in 1 .. Len(Whole)
  BY <1>1, <1>3
<1>5. Whole[Len(chain) + 1] = Current
  BY <1>1, <1>2, <1>3, <1>4
<1>6. \A i \in DOMAIN chain : i \in DOMAIN Whole /\ Whole[i] = chain[i]
  BY <1>1, <1>3
<1>7. replay.blocks = << Current >> => Whole = Append(chain, Current)
  <2>1. chain \o << Current >> = Append(chain, Current)
    BY <1>1, CurrentTypes
  <2> QED
    BY <2>1 DEF Whole
<1> QED
  BY <1>1, <1>3, <1>4, <1>5, <1>6, <1>7

\* In a funded chain every sender has been credited before its turn comes.
LEMMA FundedPays ==
    ASSUME ReplayInv, Replaying, Funded(Whole), NEW tx \in replay.todo, FirstTx(tx)
    PROVE  Pays(tx)
<1>1. ImportInv /\ Credited /\ replay.todo \subseteq Current.txs
  BY DEF ReplayInv, ImportInv, ImportTypeOK
<1>2. Current \in Block /\ Current.txs \subseteq TxSpace
  BY <1>1, CurrentTypes DEF Block
<1> DEFINE n == Len(chain) + 1
           p == <<n, tx>>
<1>3. n \in DOMAIN Whole /\ Whole[n] = Current /\ n \in Nat
  BY <1>1, WholeParts
<1>4. p \in Payments(Whole) /\ p[1] = n /\ p[2] = tx
  BY <1>1, <1>3, PaymentsOf
<1>5. /\ tx.from # ZERO_ADDR
      /\ \/ \E i \in 1 .. n - 1 : Whole[i].miner = tx.from
         \/ \E q \in Payments(Whole) : Precedes(q, p) /\ q[2].to = tx.from
  <2> HIDE DEF n, p
  <2> QED
    BY <1>4 DEF Funded
<1>6. CASE \E i \in 1 .. n - 1 : Whole[i].miner = tx.from
  <2>1. PICK i \in 1 .. n - 1 : Whole[i].miner = tx.from
    BY <1>6
  <2>2. i \in DOMAIN chain /\ Whole[i] = chain[i]
    BY <1>1, WholeParts
  <2> QED
    BY <1>1, <1>5, <2>1, <2>2 DEF Credited, Pays
<1>7. CASE \E q \in Payments(Whole) : Precedes(q, p) /\ q[2].to = tx.from
  <2>1. PICK q \in Payments(Whole) : Precedes(q, p) /\ q[2].to = tx.from
    BY <1>7
  <2>0. PICK i \in DOMAIN Whole : \E x \in Whole[i].txs : q = <<i, x>>
    BY <2>1, PaymentsOf
  <2>2. PICK x \in Whole[i].txs : q = <<i, x>>
    BY <2>0
  <2>3. /\ i < n \/ (i = n /\ Before(x, tx))
        /\ x.to = tx.from
    BY <1>4, <2>1, <2>2 DEF Precedes
  <2>4. x.to \in known
    <3>1. CASE i < n
      <4>1. i \in DOMAIN chain /\ Whole[i] = chain[i]
        <5>1. i \in Nat /\ i >= 1 /\ i <= Len(chain)
          BY <1>1, <3>1, WholeParts
        <5> QED
          BY <1>1, <5>1, WholeParts
      <4> QED
        BY <1>1, <2>2, <4>1 DEF Credited
    <3>2. CASE i = n /\ Before(x, tx)
      <4>1. x \in Current.txs
        BY <1>3, <2>2, <3>2
      <4>2. x.from \in Nat /\ x.nonce \in Nat /\ tx.from \in Nat /\ tx.nonce \in Nat
        BY <1>1, <1>2, <4>1, KeyTypes
      <4>3. x \notin replay.todo
        <5>1. ~Before(tx, x) /\ x # tx
          BY <3>2, <4>2 DEF Before
        <5> QED
          BY <5>1 DEF FirstTx
      <4> QED
        BY <1>1, <4>1, <4>3 DEF Credited
    <3> QED
      BY <2>3, <3>1, <3>2
  <2> QED
    BY <1>5, <2>3, <2>4 DEF Pays
<1> QED
  BY <1>5, <1>6, <1>7

\* One more transaction of the block.
LEMMA ReplayedTx ==
    ASSUME ReplayInv, ImportInv', NEW tx \in replay.todo, ReplayTx(tx)
    PROVE  ReplayInv'
<1>1. /\ FirstTx(tx) /\ known' = known \cup {tx.to} /\ chain' = chain /\ call' = call
      /\ imported' = imported /\ complete' = complete
      /\ accounts' = [AfterRedebit(tx) EXCEPT ![tx.to].balance = PlusMod(@, tx.amount)]
  BY DEF ReplayTx
<1>2. ImportInv /\ replay \in [blocks: Seq(Block), todo: SUBSET TxSpace, fees: [Token -> Nat]]
  BY DEF ReplayInv, ImportInv, ImportTypeOK
<1>3. /\ Replaying /\ tx \in TxSpace /\ tx.from \in Addr /\ tx.to \in Addr
      /\ AfterRedebit(tx) \in [Addr -> Account] /\ accounts \in [Addr -> Account]
      /\ replay.todo \subseteq Current.txs /\ replay.todo \subseteq TxSpace
  BY <1>2, AfterRedebitTypes DEF ImportInv, ImportTypeOK, TypeOK
<1>4. Current.txs \subseteq TxSpace /\ SoundOffer(Current)
  <2>1. 1 \in DOMAIN replay.blocks /\ Current = replay.blocks[1]
    BY <1>2, <1>3 DEF Replaying, Current
  <2> QED
    BY <1>2, <1>3, <2>1, CurrentTypes DEF ReplayInv, Block
<1>5. /\ replay'.blocks = replay.blocks /\ replay'.todo = replay.todo \ {tx}
      /\ Current' = Current /\ Whole' = Whole /\ Replaying'
  <2>1. replay'.blocks = replay.blocks /\ replay'.todo = replay.todo \ {tx}
    <3>1. \E f : replay' = [replay EXCEPT !.todo = @ \ {tx}, !.fees = f]
      BY DEF ReplayTx
    <3> QED
      BY <1>2, <3>1
  <2> QED
    BY <1>1, <1>3, <2>1 DEF Current, Whole, Replaying
<1>6. Current.txs \ (replay.todo \ {tx}) = (Current.txs \ replay.todo) \cup {tx}
  BY <1>3
<1>7. Credited'
  <2>1. \A i \in DOMAIN chain' : chain'[i].miner \in known'
                                /\ \A x \in chain'[i].txs : x.to \in known'
    BY <1>1, <1>3 DEF ReplayInv, Credited
  <2>2. \A x \in (Current.txs \ replay.todo) \cup {tx} :
            x.to \in known' /\ \A y \in replay.todo \ {tx} : Before(x, y)
    BY <1>1, <1>3 DEF ReplayInv, Credited, FirstTx
  <2> QED
    BY <1>5, <1>6, <2>1, <2>2 DEF Credited
<1>8. ASSUME Funded(Whole)
      PROVE  Charged'
  <2>1. Charged /\ Pays(tx)
    BY <1>1, <1>3, <1>8, FundedPays DEF ReplayInv
  <2>2. replay'.fees = Plus(replay.fees, FeeSplit(tx.selector, tx.fee))
    BY <1>2, <2>1 DEF ReplayTx
  <2>3. ASSUME NEW t \in Token
        PROVE  replay'.fees[t] = FeeTotal(Current.txs)[t] - FeeTotal(replay.todo \ {tx})[t]
    <3>1. replay.fees[t] = FeeTotal(Current.txs)[t] - FeeTotal(replay.todo)[t]
      BY <2>1 DEF Charged
    <3>2. replay'.fees[t] = replay.fees[t] + FeeSplit(tx.selector, tx.fee)[t]
      BY <2>2 DEF Plus
    <3>3. /\ FeeTotal(Current.txs)[t] \in Nat /\ FeeTotal(replay.todo)[t] \in Nat
          /\ FeeTotal(replay.todo \ {tx})[t]
               = FeeTotal(replay.todo)[t] - FeeSplit(tx.selector, tx.fee)[t]
      BY <1>3, <1>4, FeeSum
    <3>4. FeeSplit(tx.selector, tx.fee)[t] \in Nat
      BY <1>3, CostTypes
    <3> QED
      BY <3>1, <3>2, <3>3, <3>4
  <2>4. SettledBy(Current.txs \ (replay.todo \ {tx}))'
    <3> DEFINE S == Current.txs \ replay.todo
               R == S \cup {tx}
    <3>1. \A x \in TxSpace : x.from \in Addr /\ x.nonce \in Nat /\ x.from \in Nat
      BY KeyTypes, InputAssumption DEF Tx
    <3>2. \A a \in Addr : /\ accounts[a].nonce \in Nat
                          /\ accounts'[a].nonce = IF a = tx.from THEN tx.nonce
                                                  ELSE accounts[a].nonce
      <4>1. \A a \in Addr : accounts'[a].nonce = AfterRedebit(tx)[a].nonce
        BY <1>1, <1>3 DEF Account
      <4>2. \A a \in Addr : AfterRedebit(tx)[a].nonce = IF a = tx.from THEN tx.nonce
                                                        ELSE accounts[a].nonce
        BY <1>3, <2>1 DEF AfterRedebit, Redebit, Account
      <4> QED
        BY <1>3, <4>1, <4>2, U64Assumption DEF Account, Word
    <3>3. /\ SettledBy(S) /\ S \subseteq TxSpace /\ tx.from # ZERO_ADDR
          /\ \A x \in S : Before(x, tx)
          /\ tx.nonce >= 1
      <4>1. tx.nonce >= 1
        BY <1>3, <1>4 DEF SoundOffer, MinedTxs
      <4> QED
        BY <1>3, <1>4, <2>1, <4>1 DEF ReplayInv, Credited, Charged, Pays
    <3> HIDE DEF S
    <3>4. ASSUME NEW x \in R, x.from # ZERO_ADDR
          PROVE  /\ x.nonce >= 1 /\ x.nonce <= accounts'[x.from].nonce
                 /\ \E y \in R : y.from = x.from /\ y.nonce = accounts'[x.from].nonce
      <4>1. CASE x.from = tx.from
        <5>1. accounts'[x.from].nonce = tx.nonce /\ tx.nonce \in Nat /\ x.nonce \in Nat
          BY <1>3, <3>1, <3>2, <3>3, <4>1
        <5>2. x = tx \/ x.nonce < tx.nonce
          BY <1>3, <3>1, <3>3, <4>1 DEF Before
        <5>3. x.nonce >= 1
          BY <3>3, <3>4 DEF SettledBy
        <5> QED
          BY <4>1, <5>1, <5>2, <5>3
      <4>2. CASE x.from # tx.from
        <5>1. x \in S
          BY <4>2
        <5>2. accounts'[x.from].nonce = accounts[x.from].nonce
          BY <3>1, <3>2, <3>3, <4>2, <5>1
        <5> QED
          BY <3>3, <3>4, <5>1, <5>2 DEF SettledBy
      <4> QED
        BY <4>1, <4>2
    <3>5. (Current.txs \ (replay.todo \ {tx})) = R
      BY <1>6 DEF S
    <3>6. (Current.txs \ replay.todo)' = R
      BY <1>5, <3>5
    <3> QED
      BY <3>4, <3>6, <1>5 DEF SettledBy
  <2> QED
    BY <1>5, <2>3, <2>4 DEF Charged
<1> QED
  BY <1>1, <1>3, <1>5, <1>7, <1>8 DEF ReplayInv, Imported, Idle

\* A block starts with nothing replayed, hence nothing charged.
LEMMA NothingCharged ==
    ASSUME NEW fees, fees = Zero, NEW S, S \subseteq TxSpace
    PROVE  /\ \A t \in Token : fees[t] = FeeTotal(S)[t] - FeeTotal(S)[t]
           /\ SettledBy({})
<1>1. \A t \in Token : FeeTotal(S)[t] \in Nat
  BY FeeSum
<1> QED
  BY <1>1 DEF Zero, SettledBy

\* The block is complete: it becomes the tip, settled if the chain was funded.
LEMMA ReplayedBlock ==
    ASSUME ReplayInv, ImportInv', ReplayBlock
    PROVE  ReplayInv'
<1>1. /\ Replaying /\ replay.todo = {} /\ known' = known \cup {Current.miner}
      /\ chain' = Append(chain, Current) /\ replay' = Replay(Tail(replay.blocks))
      /\ imported' = imported + 1 /\ complete' = (Len(replay.blocks) = 1) /\ call' = call
  BY DEF ReplayBlock, BlockReplayed, Rest
<1>2. /\ ImportInv /\ chain \in Seq(Block) /\ Len(chain) \in Nat /\ imported \in Nat
      /\ replay.blocks \in Seq(Block) /\ Len(replay.blocks) \in Nat \ {0}
  BY <1>1 DEF ReplayInv, ImportInv, ImportTypeOK, TypeOK, Replaying
<1>3. /\ Current \in Block /\ Tail(replay.blocks) \in Seq(Block) /\ Idle
      /\ Current.miner \in Addr /\ Current.txs \subseteq TxSpace
  BY <1>1, <1>2, CurrentTypes DEF Block
<1>4. /\ replay'.blocks = Tail(replay.blocks)
      /\ replay'.blocks # << >> => replay'.todo = Head(replay'.blocks).txs
                                  /\ replay'.fees = Zero
  BY <1>1, <1>3, ReplayTypes DEF Replay
<1>5. /\ \A i \in DOMAIN replay'.blocks : SoundOffer(replay'.blocks[i])
      /\ SoundOffer(Current)
      /\ Len(replay'.blocks) = Len(replay.blocks) - 1
  <2>1. Current = replay.blocks[1] /\ 1 \in DOMAIN replay.blocks
    BY <1>2 DEF Current
  <2>2. /\ DOMAIN Tail(replay.blocks) = 1 .. (Len(replay.blocks) - 1)
        /\ Len(Tail(replay.blocks)) = Len(replay.blocks) - 1
        /\ \A i \in DOMAIN Tail(replay.blocks) :
               /\ Tail(replay.blocks)[i] = replay.blocks[i + 1]
               /\ i + 1 \in DOMAIN replay.blocks
    BY <1>2
  <2> QED
    BY <1>4, <2>1, <2>2 DEF ReplayInv
<1>6. /\ Len(chain') = Len(chain) + 1 /\ DOMAIN chain' = 1 .. (Len(chain) + 1)
      /\ DOMAIN chain = 1 .. Len(chain) /\ chain'[Len(chain) + 1] = Current
      /\ \A i \in DOMAIN chain : chain'[i] = chain[i]
      /\ Last(chain') = Current
  BY <1>1, <1>2, <1>3 DEF Last
<1>7. Replaying' => Credited'
  <2> SUFFICES ASSUME Replaying' PROVE Credited'
    OBVIOUS
  <2>1. Current'.txs \ replay'.todo = {}
    BY <1>4 DEF Replaying, Current
  <2>2. ASSUME NEW i \in DOMAIN chain'
        PROVE  chain'[i].miner \in known' /\ \A x \in chain'[i].txs : x.to \in known'
    <3>1. CASE i = Len(chain) + 1
      BY <1>1, <1>6, <3>1 DEF ReplayInv, Credited
    <3>2. CASE i \in DOMAIN chain
      BY <1>1, <1>6, <3>2 DEF ReplayInv, Credited
    <3> QED
      BY <1>2, <1>6, <3>1, <3>2
  <2> QED
    BY <2>1, <2>2 DEF Credited
<1>8. Replaying' => Charged'
  <2> SUFFICES ASSUME Replaying' PROVE Charged'
    OBVIOUS
  <2>1. /\ replay'.todo = Current'.txs /\ replay'.fees = Zero
        /\ Current'.txs \subseteq TxSpace /\ Current'.txs \ replay'.todo = {}
    <3>1. replay'.todo = Current'.txs /\ replay'.fees = Zero
      BY <1>4 DEF Replaying, Current
    <3>2. replay'.todo \subseteq TxSpace
      BY DEF ImportInv, ImportTypeOK
    <3> QED
      BY <3>1, <3>2
  <2>2. \A t \in Token : replay'.fees[t] = FeeTotal(Current'.txs)[t] - FeeTotal(replay'.todo)[t]
    BY <2>1, NothingCharged
  <2>3. SettledBy(Current.txs \ replay.todo)'
    BY <2>1 DEF SettledBy
  <2> QED
    BY <2>2, <2>3 DEF Charged
<1>9. complete' => (replay.blocks = << Current >> /\ ~Replaying')
  <2>1. ASSUME Len(replay.blocks) = 1
        PROVE  replay.blocks = << Current >>
    BY <1>2, <2>1 DEF Current
  <2>2. ASSUME Len(replay'.blocks) = 0
        PROVE  ~Replaying'
    BY <1>3, <1>4, <2>2 DEF Replaying
  <2>3. complete' => Len(replay.blocks) = 1
    BY <1>1
  <2>4. Len(replay.blocks) = 1 => Len(replay'.blocks) = 0
    BY <1>5
  <2> QED
    BY <2>1, <2>2, <2>3, <2>4
<1>10. Replaying' => ~complete'
  BY <1>9
<1>11. ASSUME complete', Funded(chain')
       PROVE  SettledBy(Last(chain).txs)'
  <2>1. Charged
    BY <1>1, <1>2, <1>9, <1>11, WholeParts DEF ReplayInv
  <2>2. SettledBy(Current.txs)
    <3>1. Current.txs \ replay.todo = Current.txs
      BY <1>1
    <3> QED
      BY <2>1, <3>1 DEF Charged
  <2>3. \A a \in Addr : accounts'[a].nonce = accounts[a].nonce
    BY <1>2, <1>3 DEF ReplayBlock, ImportInv, ImportTypeOK, TypeOK, Account
  <2>4. \A x \in Current.txs : accounts'[x.from].nonce = accounts[x.from].nonce
    BY <1>3, <2>3, InputAssumption DEF Tx
  <2> QED
    BY <1>6, <2>2, <2>4 DEF SettledBy
<1>12. Idle'
  BY <1>1, <1>3 DEF Idle
<1> QED
  BY <1>5, <1>6, <1>7, <1>8, <1>10, <1>11, <1>12 DEF ReplayInv, Imported

\* A replay that fails is over, and what it leaves does not count as imported.
LEMMA AbandonedReplay ==
    ASSUME ReplayInv, ImportInv', Replaying, Abandon, chain' = chain, call' = call
    PROVE  ReplayInv'
<1>1. ~Replaying' /\ ~complete' /\ DOMAIN replay'.blocks = {}
  BY DEF Abandon, NoReplay, Replaying, ReplayInv
<1>2. Idle'
  BY DEF ReplayInv, ImportInv, ImportTypeOK, Idle
<1> QED
  BY <1>1, <1>2 DEF ReplayInv, Imported

\* A chain accepted for replay: what is offered was mined, and is valid.
LEMMA StartedReplay ==
    ASSUME ReplayInv, ImportInv', OffersMined, NEW new \in Offers, StartImport(new)
    PROVE  ReplayInv'
<1>1. /\ new \in Seq(Block) /\ Len(new) > Len(chain) /\ Len(chain) \in Nat /\ new # << >>
      /\ chain' = << >> /\ replay' = Replay(new) /\ imported' = 0 /\ ~complete' /\ Idle'
  <2>1. chain \in Seq(Block)
    BY DEF ReplayInv, ImportInv, ImportTypeOK, TypeOK
  <2> QED
    BY <2>1, OffersAssumption DEF StartImport, Importable, Idle
<1>2. /\ replay'.blocks = new /\ replay'.todo = Current'.txs /\ replay'.fees = Zero
      /\ Current'.txs \ replay'.todo = {} /\ DOMAIN chain' = {}
  BY <1>1, ReplayTypes DEF Replay, Current
<1>3. \A i \in DOMAIN new : SoundOffer(new[i])
  BY DEF StartImport, Importable, ValidChain, OffersMined, SoundOffer
<1>4. Credited'
  BY <1>2 DEF Credited
<1>5. Charged'
  <2>1. Current'.txs \subseteq TxSpace
    BY <1>2 DEF ImportInv, ImportTypeOK
  <2>2. \A t \in Token : replay'.fees[t] = FeeTotal(Current'.txs)[t] - FeeTotal(replay'.todo)[t]
    BY <1>2, <2>1, NothingCharged
  <2>3. SettledBy(Current.txs \ replay.todo)'
    BY <1>2 DEF SettledBy
  <2> QED
    BY <2>2, <2>3 DEF Charged
<1> QED
  BY <1>1, <1>2, <1>3, <1>4, <1>5 DEF ReplayInv, Imported

\* The other calls push a block on top, or run inside a mine_block that did, or
\* leave the tip, the nonces and, unless they make a deposit, the balances alone.
LEMMA OwnCases ==
    ASSUME ReplayInv, ImportInv', OwnStep
    PROVE  \/ \E b \in Block : chain' = Append(chain, b)
           \/ chain' = chain /\ ~Idle
           \/ /\ chain' = chain /\ call' = call /\ Idle
              /\ \A a \in Addr : accounts'[a].nonce = accounts[a].nonce
              /\ deposited' = Zero =>
                    deposited = Zero /\ \A a \in Addr : accounts'[a].balance = accounts[a].balance
<1>1. /\ TypeOK /\ chain \in Seq(Block) /\ Len(chain) \in Nat
      /\ accounts \in [Addr -> Account] /\ deposited \in [Token -> Nat]
      /\ (Idle => call.todo = {}) /\ Next
  BY DEF OwnStep, ReplayInv, ImportInv, ImportTypeOK, TypeOK, NoCall
<1>2. ASSUME NEW a \in Addr, NEW start \in Deposits, AddAccount(a, start)
      PROVE  /\ \A c \in Addr : accounts'[c].nonce = accounts[c].nonce
             /\ deposited' = Zero =>
                   deposited = Zero /\ \A c \in Addr : accounts'[c].balance = accounts[c].balance
  <2>1. /\ accounts[a] = EmptyAccount
        /\ \A c \in Addr : c # a => accounts'[c] = accounts[c]
        /\ accounts'[a].nonce = accounts[a].nonce /\ accounts'[a].balance = start
        /\ deposited' = Plus(deposited, start)
    BY <1>1, <1>2 DEF AddAccount, EmptyAccount, TypeOK
  <2>2. start \in [Token -> Nat]
    BY InputAssumption, U64Assumption DEF Pair, Word
  <2>3. ASSUME deposited' = Zero
        PROVE  deposited = Zero /\ start = Zero
    <3>1. \A t \in Token : deposited[t] + start[t] = 0
      BY <2>1, <2>3 DEF Plus, Zero
    <3>2. \A t \in Token : deposited[t] = 0 /\ start[t] = 0
      BY <1>1, <2>2, <3>1
    <3> QED
      BY <1>1, <2>2, <3>2 DEF Zero
  <2>4. accounts[a].balance = Zero
    BY <2>1 DEF EmptyAccount
  <2> QED
    BY <2>1, <2>3, <2>4
<1>3. ASSUME NEW tx \in TxSpace, SubmitTransaction(tx) \/ (tx \in mempool /\ DropTransaction(tx))
      PROVE  /\ \A c \in Addr : accounts'[c].nonce = accounts[c].nonce
             /\ \A c \in Addr : accounts'[c].balance = accounts[c].balance
             /\ deposited' = deposited
  <2>1. deposited' = deposited
    BY <1>3 DEF SubmitTransaction, DropTransaction
  <2> QED
    BY <1>1, <1>3, <2>1, MempoolFields
<1>4. \A tx \in mempool : tx \in TxSpace
  BY <1>1 DEF TypeOK
<1>5. \A tx \in call.todo : ~Idle
  BY <1>1
<1>6. ASSUME NEW b, chain' = Append(chain, b)
      PROVE  b \in Block
  <2>1. chain' \in Seq(Block)
    BY DEF ImportInv, ImportTypeOK, TypeOK
  <2>2. Len(chain) + 1 \in DOMAIN chain' /\ chain'[Len(chain) + 1] = b
    BY <1>1, <1>6
  <2> QED
    BY <2>1, <2>2
<1>7. CASE \/ \E a \in Addr, start \in Deposits : AddAccount(a, start)
           \/ \E tx \in TxSpace : SubmitTransaction(tx)
           \/ \E tx \in mempool : DropTransaction(tx)
  <2>1. chain' = chain /\ call' = call /\ Idle
    BY <1>7 DEF AddAccount, SubmitTransaction, DropTransaction
  <2> QED
    BY <1>2, <1>3, <1>4, <1>7, <2>1
<1>8. CASE \E tx \in TxSpace : RejectTransaction(tx)
  BY <1>8 DEF RejectTransaction, vars
<1>9. CASE \/ MineFeeOverflow
           \/ \E tx \in call.todo : ApplyTx(tx) \/ ApplyTxPanic(tx)
           \/ CreditMinerPanic \/ CreditMiner
  BY <1>5, <1>9 DEF MineFeeOverflow, ApplyTx, ApplyTxPanic, CreditMinerPanic, CreditMiner
<1>10. CASE GenesisBlock \/ \E m \in Miners : MineBlock(m)
  BY <1>6, <1>10 DEF GenesisBlock, MineBlock
<1> QED
  BY <1>1, <1>7, <1>8, <1>9, <1>10 DEF Next, UnsavedStep

LEMMA OwnReplay ==
    ASSUME ReplayInv, ImportInv', OwnStep
    PROVE  ReplayInv'
<1>1. /\ ~Replaying /\ ~Replaying' /\ replay' = replay /\ imported' = imported
      /\ complete' = complete /\ DOMAIN replay'.blocks = {}
  <2>1. ~Replaying /\ replay = NoReplay
    BY DEF OwnStep, ReplayInv, ImportInv, ImportTypeOK
  <2> QED
    BY <2>1 DEF OwnStep, Replaying, NoReplay
<1>2. /\ chain \in Seq(Block) /\ Len(chain) \in Nat
      /\ imported \in Nat /\ imported <= Len(chain)
  BY DEF ReplayInv, ImportInv, ImportTypeOK, TypeOK
<1>3. \/ /\ \E b \in Block : chain' = Append(chain, b)
      \/ /\ chain' = chain /\ ~Idle
      \/ /\ chain' = chain /\ call' = call /\ Idle
         /\ \A a \in Addr : accounts'[a].nonce = accounts[a].nonce
  BY OwnCases
<1>4. CASE \E b \in Block : chain' = Append(chain, b)
  <2>1. Len(chain') = Len(chain) + 1
    BY <1>2, <1>4
  <2> QED
    BY <1>1, <1>2, <2>1 DEF ReplayInv, Imported
<1>5. CASE chain' = chain /\ ~Idle
  <2>1. imported < Len(chain)
    BY <1>5 DEF ReplayInv
  <2> QED
    BY <1>1, <1>2, <1>5, <2>1 DEF ReplayInv, Imported
<1>6. CASE /\ chain' = chain /\ call' = call /\ Idle
           /\ \A a \in Addr : accounts'[a].nonce = accounts[a].nonce
  <2>1. Idle'
    BY <1>6 DEF Idle
  <2>2. ASSUME Imported'
        PROVE  /\ Imported /\ \A x \in Last(chain).txs : x \in TxSpace
    <3>1. Imported
      BY <1>1, <1>6, <2>2 DEF Imported
    <3>2. Last(chain) \in Block
      BY <1>2, <3>1 DEF Imported, Last
    <3> QED
      BY <3>1, <3>2 DEF Block
  <2>3. ASSUME Imported', SettledBy(Last(chain).txs)
        PROVE  SettledBy(Last(chain).txs)'
    <3>1. \A x \in Last(chain).txs : accounts'[x.from].nonce = accounts[x.from].nonce
      BY <1>6, <2>2, <2>3, InputAssumption DEF Tx
    <3> QED
      BY <1>6, <2>3, <3>1 DEF SettledBy
  <2> QED
    BY <1>1, <1>6, <2>1, <2>2, <2>3 DEF ReplayInv
<1> QED
  BY <1>3, <1>4, <1>5, <1>6

LEMMA ReplayInvStep ==
    ASSUME ReplayInv, [ImportNext]_importVars, OffersMined
    PROVE  ReplayInv'
<1>1. ImportInv /\ ImportInv'
  BY ImportInvStep DEF ReplayInv
<1>2. CASE UNCHANGED importVars
  <2>1. /\ chain' = chain /\ replay' = replay /\ known' = known /\ accounts' = accounts
        /\ call' = call /\ imported' = imported /\ complete' = complete
    BY <1>2 DEF importVars, vars
  <2> QED
    BY <1>1, <2>1 DEF ReplayInv, Replaying, Credited, Charged, SettledBy, Whole, Current, Idle,
                      Imported
<1>3. CASE ReplayStep
  <2>1. \A tx \in replay.todo : Replaying
    BY <1>1, AfterRedebitTypes
  <2> QED
    BY <1>1, <1>3, <2>1, ReplayedTx, ReplayedBlock, AbandonedReplay
    DEF ReplayStep, ReplayDebitPanic, ReplayCreditPanic, ReplayMismatch, ReplayMinerPanic,
        ReplayEmissionPanic, BlockReplayed, vars
<1> QED
  BY <1>1, <1>2, <1>3, OwnReplay, StartedReplay DEF ImportNext, RejectImport

LEMMA ReplayInvAlways ==
    ASSUME OffersMined
    PROVE  ImportSpec => []ReplayInv
<1>1. ImportInit => ReplayInv
  <2> SUFFICES ASSUME ImportInit PROVE ReplayInv
    OBVIOUS
  <2>1. ~Replaying /\ DOMAIN replay.blocks = {} /\ ~complete /\ Idle
    BY DEF ImportInit, Init, NoReplay, Replaying, Idle, NoCall
  <2> QED
    BY <2>1, ImportInvInit DEF ReplayInv, Imported
<1>2. ReplayInv /\ [ImportNext]_importVars => ReplayInv'
  BY ReplayInvStep
<1> QED
  BY <1>1, <1>2, PTL DEF ImportSpec

\* Once import_chain has cleared the node's state, a chain that was mined on money of
\* its own is replayed to its end: fee_checksum cannot fail in the middle of it.
THEOREM FundedReplaySucceeds ==
    OffersMined => (ImportSpec => []FundedReplayMatches)
<1> SUFFICES ASSUME OffersMined PROVE ImportSpec => []FundedReplayMatches
  OBVIOUS
<1>1. ReplayInv => FundedReplayMatches
  <2> SUFFICES ASSUME ReplayInv, BlockReplayed, Funded(Whole) PROVE FeesMatch
    BY DEF FundedReplayMatches
  <2>1. /\ Replaying /\ replay.todo = {} /\ Charged /\ ImportInv
        /\ replay.fees \in [Token -> Nat] /\ replay.blocks \in Seq(Block)
    BY DEF BlockReplayed, ReplayInv, ImportInv, ImportTypeOK
  <2>2. Current \in Block /\ SoundOffer(Current)
    <3>1. 1 \in DOMAIN replay.blocks /\ Current = replay.blocks[1]
      BY <2>1 DEF Replaying, Current
    <3> QED
      BY <2>1, <3>1, CurrentTypes DEF ReplayInv
  <2>3. Current.fees = FeeTotal(Current.txs) /\ Current.txs \subseteq TxSpace
    BY <2>2, OfferFees DEF Block
  <2>4. ASSUME NEW t \in Token
        PROVE  replay.fees[t] = Current.fees[t]
    <3>1. replay.fees[t] = FeeTotal(Current.txs)[t] - FeeTotal({})[t]
      BY <2>1 DEF Charged
    <3>2. FeeTotal({})[t] = 0 /\ FeeTotal(Current.txs)[t] \in Nat
      BY <2>3, FeeSum
    <3> QED
      BY <2>3, <3>1, <3>2
  <2>5. Current.fees \in [Token -> Nat]
    BY <2>2, U64Assumption DEF Block, Pair, Word
  <2> QED
    BY <2>1, <2>4, <2>5 DEF FeesMatch
<1> QED
  BY <1>1, ReplayInvAlways, PTL

\* What is_valid_chain_rust accepted block by block, without accounts, validate_block
\* accepts of the tip once import_chain has rebuilt the accounts.
THEOREM ImportedTipStands ==
    OffersMined => (ImportSpec => []ImportedTipValidates)
<1> SUFFICES ASSUME OffersMined PROVE ImportSpec => []ImportedTipValidates
  OBVIOUS
<1>1. ReplayInv => ImportedTipValidates
  <2> SUFFICES ASSUME ReplayInv, JustImported, chain # << >>, Funded(chain) PROVE TipValid
    BY DEF ImportedTipValidates
  <2> DEFINE b == Last(chain)
  <2>1. SoundOffer(b) /\ SettledBy(b.txs)
    BY DEF ReplayInv, Imported, JustImported
  <2>2. b \in Block
    BY DEF ReplayInv, ImportInv, ImportTypeOK, TypeOK, Last
  <2> HIDE DEF b
  <2>3. b.txs \subseteq TxSpace /\ SortedAs(Body(b), b.txs)
    BY <2>1, <2>2, OfferFees DEF Block
  <2>4. NoncesRun(Body(b)) <=> RunsFromFirst(Body(b))
    BY <2>1, <2>3, StartsSettled
  <2>5. ValidateBlock(b, Body(b))
    BY <2>1, <2>4 DEF SoundOffer, AcceptedByPeers, ValidateBlock
  <2> QED
    BY <2>5 DEF TipValid, b
<1> QED
  BY <1>1, ReplayInvAlways, PTL

-----------------------------------------------------------------------------
(* Emission and reward *)

\* What the chain ch paid if its first n blocks count with their fees.
IssuedAfter(ch, n, t) ==
    SumFunction([i \in DOMAIN ch |-> ch[i].coinbase[t] - (IF i <= n THEN 0 ELSE ch[i].fees[t])])

LEMMA IssuedAfterAppend ==
    ASSUME NEW ch \in Seq(Block), NEW b \in Block, NEW t \in Token,
           NEW n \in Nat, n <= Len(ch),
           NEW m, m = n \/ (m = n + 1 /\ n = Len(ch))
    PROVE  /\ IssuedAfter(ch, n, t) \in Int
           /\ IssuedAfter(Append(ch, b), m, t) =
                  IssuedAfter(ch, n, t) + b.coinbase[t] - (IF m = n THEN b.fees[t] ELSE 0)
<1> DEFINE f == [i \in DOMAIN ch |-> ch[i].coinbase[t]
                                      - (IF i <= n THEN 0 ELSE ch[i].fees[t])]
           D == DOMAIN Append(ch, b)
           G(i) == Append(ch, b)[i].coinbase[t]
                   - (IF i <= m THEN 0 ELSE Append(ch, b)[i].fees[t])
           g == [i \in D |-> G(i)]
           k == Len(ch) + 1
<1>1. \A c \in Block : c.coinbase[t] \in Int /\ c.fees[t] \in Int
  BY U64Assumption DEF Block, Pair, Word
<1>2. /\ DOMAIN ch = 1 .. Len(ch) /\ DOMAIN Append(ch, b) = 1 .. (Len(ch) + 1)
      /\ Len(ch) \in Nat /\ Append(ch, b)[Len(ch) + 1] = b
      /\ \A i \in DOMAIN ch : ch[i] \in Block /\ Append(ch, b)[i] = ch[i]
  OBVIOUS
<1>3. DOMAIN f = 1 .. Len(ch) /\ DOMAIN g = 1 .. (Len(ch) + 1)
  BY <1>2
<1>4. \A i \in 1 .. Len(ch) : f[i] \in Int /\ g[i] = f[i]
  <2> SUFFICES ASSUME NEW i \in 1 .. Len(ch)
               PROVE  f[i] \in Int /\ g[i] = f[i]
    OBVIOUS
  <2>1. /\ f[i] = ch[i].coinbase[t] - (IF i <= n THEN 0 ELSE ch[i].fees[t])
        /\ ch[i] \in Block /\ Append(ch, b)[i] = ch[i]
    BY <1>2
  <2>2. g[i] = Append(ch, b)[i].coinbase[t]
               - (IF i <= m THEN 0 ELSE Append(ch, b)[i].fees[t])
    <3>1. i \in D
      <4> HIDE DEF f, g, G
      <4>1. Len(ch) \in Nat
        OBVIOUS
      <4>2. i \in 1 .. (Len(ch) + 1)
        BY <4>1
      <4> QED
        BY <1>2, <4>2, Zenon
    <3>2. g[i] = G(i)
      <4> HIDE DEF D, G
      <4> QED BY <3>1
    <3> QED
      BY <3>2
  <2>3. (i <= n) <=> (i <= m)
    <3> HIDE DEF f, g
    <3>1. Len(ch) \in Nat
      OBVIOUS
    <3> QED
      BY <3>1
  <2> QED
    BY <1>1, <2>1, <2>2, <2>3
<1>5. g[k] = b.coinbase[t] - (IF m = n THEN b.fees[t] ELSE 0)
  <2>1. k \in DOMAIN Append(ch, b) /\ Append(ch, b)[k] = b
    <3> HIDE DEF f, g
    <3>1. Len(ch) + 1 \in 1 .. (Len(ch) + 1)
      <4>1. Len(ch) \in Nat
        OBVIOUS
      <4> QED
        BY <4>1
    <3> QED
      BY <1>2, <3>1
  <2>2. g[k] = Append(ch, b)[k].coinbase[t]
               - (IF k <= m THEN 0 ELSE Append(ch, b)[k].fees[t])
    <3> HIDE DEF k
    <3> QED BY <2>1
  <2>3. (k <= m) <=> m # n
    <3> HIDE DEF f, g
    <3>1. Len(ch) \in Nat
      OBVIOUS
    <3> QED
      BY <3>1
  <2> HIDE DEF f, g, k
  <2> QED
    BY <1>1, <2>1, <2>2, <2>3
<1>6. b.coinbase[t] \in Int /\ b.fees[t] \in Int
  BY <1>1
<1>7. IssuedAfter(ch, n, t) = SumFunction(f) /\ IssuedAfter(Append(ch, b), m, t) = SumFunction(g)
  BY DEF IssuedAfter
<1>8. k = Len(ch) + 1
  OBVIOUS
<1> HIDE DEF f, g, k
<1>9. SumFunction(f) \in Int /\ SumFunction(g) = SumFunction(f) + g[k]
  <2>1. g[Len(ch) + 1] \in Int
    BY <1>5, <1>6, <1>8
  <2> QED
    BY <1>2, <1>3, <1>4, <1>8, <2>1, SumAppend
<1> QED
  BY <1>5, <1>6, <1>7, <1>9

\* This code counts whole coinbases for the blocks it imported.
EmissionExact ==
    \A t \in Token : emission[t] + call.reward[t] = IssuedAfter(chain, imported, t)

\* While a chain is replayed, it is all of the node's chain.
EmissionInv ==
    /\ ImportInv
    /\ EmissionExact
    /\ Replaying => imported = Len(chain)

LEMMA OwnEmission ==
    ASSUME EmissionInv, AmountsFit, OwnStep, ImportInv'
    PROVE  EmissionInv'
<1> DEFINE Goal == \A t \in Token : emission'[t] + call'.reward[t]
                                       = IssuedAfter(chain', imported', t)
<1>1. /\ Next /\ imported' = imported /\ ~Replaying'
      /\ TypeOK /\ TypeOK' /\ chain \in Seq(Block) /\ imported \in 0 .. Len(chain)
      /\ \A t \in Token : /\ emission[t] + call.reward[t] = IssuedAfter(chain, imported, t)
                          /\ emission[t] \in Nat /\ call.reward[t] \in Nat
  BY DEF OwnStep, EmissionInv, ImportInv, ImportTypeOK, TypeOK, Replaying, Pair, Word,
         EmissionExact, IssuedAfter
<1> SUFFICES Goal
  BY <1>1 DEF EmissionInv, EmissionExact, IssuedAfter
<1>2. ASSUME chain' = chain, emission' = emission, call'.reward = call.reward
      PROVE  Goal
  BY <1>1, <1>2
<1>3. ASSUME NEW b \in Block, NEW t \in Token
      PROVE  /\ IssuedAfter(chain, imported, t) \in Int
             /\ IssuedAfter(Append(chain, b), imported, t)
                  = IssuedAfter(chain, imported, t) + b.coinbase[t] - b.fees[t]
  <2>1. imported \in Nat /\ imported <= Len(chain)
    BY <1>1
  <2> QED
    BY <1>1, <2>1, IssuedAfterAppend
<1>4. CASE GenesisBlock
  <2>1. /\ call' = call /\ emission' = emission /\ chain' = Append(chain, Genesis)
    BY <1>4 DEF GenesisBlock
  <2>2. Genesis \in Block
    BY <1>1, <2>1, PushedBlock
  <2>3. \A t \in Token : Genesis.coinbase[t] = 0 /\ Genesis.fees[t] = 0
    BY DEF Genesis, Zero
  <2> HIDE DEF Goal
  <2>4. ASSUME NEW t \in Token
        PROVE  IssuedAfter(chain', imported', t) = IssuedAfter(chain, imported, t)
    BY <1>1, <1>3, <2>1, <2>2, <2>3
  <2> QED
    BY <1>1, <2>1, <2>4 DEF Goal
<1>5. ASSUME NEW m \in Miners, MineBlock(m)
      PROVE  Goal
  <2> DEFINE b == [miner |-> m, coinbase |-> Plus(NextReward, FeeTotal(mempool)),
                   fees |-> FeeTotal(mempool), txs |-> mempool]
  <2>1. chain' = Append(chain, b) /\ emission' = emission /\ call'.reward = NextReward /\ Idle
    BY <1>5 DEF MineBlock
  <2>2. b \in Block
    <3> HIDE DEF b
    <3> QED BY <1>1, <2>1, PushedBlock
  <2>3. call.reward = Zero
    BY <1>1, <2>1 DEF TypeOK, NoCall
  <2> SUFFICES ASSUME NEW t \in Token
               PROVE  emission'[t] + call'.reward[t] = IssuedAfter(chain', imported', t)
    OBVIOUS
  <2>4. b.coinbase[t] = NextReward[t] + FeeTotal(mempool)[t] /\ b.fees[t] = FeeTotal(mempool)[t]
    BY DEF Plus
  <2>5. NextReward[t] \in Int /\ FeeTotal(mempool)[t] \in Int
    <3>1. mempool \subseteq TxSpace
      BY <1>1 DEF TypeOK
    <3> QED BY <1>1, <3>1, FeeSum, RewardTypes DEF Pair, Word
  <2>6. emission[t] = IssuedAfter(chain, imported, t)
    BY <1>1, <2>3 DEF Zero
  <2> HIDE DEF b
  <2> QED
    BY <1>1, <1>3, <2>1, <2>2, <2>4, <2>5, <2>6
<1>6. CASE CreditMiner
  <2>1. chain' = chain /\ call'.reward = Zero /\ emission' = PlusMod(emission, call.reward)
    BY <1>6 DEF CreditMiner, NoCall
  <2>2. ASSUME NEW t \in Token
        PROVE  emission'[t] = emission[t] + call.reward[t]
    <3>1. emission[t] + call.reward[t] \in Word
      BY <1>1, U64Assumption DEF AmountsFit, Word
    <3> QED
      BY <2>1, <3>1, NoWrap DEF PlusMod
  <2> QED
    BY <1>1, <2>1, <2>2 DEF Zero
<1>7. ASSUME NEW tx \in call.todo, ApplyTx(tx)
      PROVE  Goal
  <2>1. call'.reward = call.reward
    BY <1>1, <1>7 DEF ApplyTx, TypeOK
  <2> QED
    BY <1>2, <1>7, <2>1 DEF ApplyTx
<1>8. CASE \/ \E a \in Addr, start \in Deposits : AddAccount(a, start)
           \/ \E tx \in TxSpace : SubmitTransaction(tx)
           \/ \E tx \in TxSpace : RejectTransaction(tx)
           \/ \E tx \in mempool : DropTransaction(tx)
           \/ MineFeeOverflow
  <2>1. chain' = chain /\ emission' = emission /\ call' = call
    BY <1>8 DEF AddAccount, SubmitTransaction, RejectTransaction, DropTransaction,
                MineFeeOverflow, vars
  <2> QED
    BY <1>2, <2>1
<1>9. (\A tx \in call.todo : ~ApplyTxPanic(tx)) /\ ~CreditMinerPanic
  BY DEF AmountsFit, MiningSucceeds, CreditExact, ApplyTxPanic, CreditFits, Adds,
         CreditMinerPanic
<1> HIDE DEF Goal
<1> QED
  BY <1>1, <1>4, <1>5, <1>6, <1>7, <1>8, <1>9 DEF Next, UnsavedStep

LEMMA EmissionStep ==
    ASSUME EmissionInv, AmountsFit, [ImportNext]_importVars
    PROVE  EmissionInv'
<1>1. /\ ImportInv /\ ImportInv' /\ chain \in Seq(Block) /\ imported \in 0 .. Len(chain)
      /\ \A t \in Token : emission[t] \in Nat
      /\ (Replaying => Idle) /\ (Idle => call = NoCall)
  <2>1. ImportInv /\ ImportInv'
    BY ImportInvStep DEF EmissionInv
  <2>2. ImportTypeOK /\ TypeOK
    BY <2>1 DEF ImportInv, ImportTypeOK
  <2>3. \A t \in Token : emission[t] \in Nat
    BY <2>2, U64Assumption DEF TypeOK, Pair, Word
  <2> QED
    BY <2>1, <2>2, <2>3 DEF ImportTypeOK, TypeOK
<1>2. ASSUME chain' = chain, emission' = emission, call' = call, imported' = imported,
             Replaying' => Replaying
      PROVE  EmissionInv'
  BY <1>1, <1>2 DEF EmissionInv, EmissionExact
<1>3. CASE UNCHANGED importVars
  BY <1>2, <1>3 DEF importVars, vars, Replaying
<1>4. ASSUME NEW new \in Offers, StartImport(new)
      PROVE  EmissionInv'
  <2>1. /\ chain' = << >> /\ imported' = 0 /\ emission' = Zero /\ call'.reward = Zero
        /\ DOMAIN chain' = {} /\ Len(chain') = 0
    BY <1>1, <1>4 DEF StartImport, NoCall
  <2>2. \A t \in Token : IssuedAfter(chain', imported', t) = 0
    <3> SUFFICES ASSUME NEW t \in Token PROVE IssuedAfter(chain', imported', t) = 0
      OBVIOUS
    <3> DEFINE f == [i \in DOMAIN chain' |->
                        chain'[i].coinbase[t] - (IF i <= imported' THEN 0 ELSE chain'[i].fees[t])]
    <3>1. DOMAIN f = {} /\ IssuedAfter(chain', imported', t) = SumFunction(f)
      BY <2>1 DEF IssuedAfter
    <3> HIDE DEF f
    <3> QED
      BY <3>1, SumFunctionType, FS_EmptySet
  <2> QED
    BY <1>1, <2>1, <2>2 DEF EmissionInv, EmissionExact, IssuedAfter, Zero
<1>5. CASE ReplayBlock
  <2>1. /\ Replaying /\ chain' = Append(chain, Current) /\ imported' = imported + 1
        /\ call' = call /\ emission' = PlusMod(emission, Current.coinbase)
        /\ imported = Len(chain) /\ call.reward = Zero
        /\ \A t \in Token : emission[t] + Current.coinbase[t] < U64
    BY <1>1, <1>5 DEF ReplayBlock, BlockReplayed, Emitted, EmissionInv, NoCall, AmountsFit
  <2>2. Current \in Block /\ Len(chain') = imported'
    BY <1>1, <2>1, CurrentTypes
  <2>3. ASSUME NEW t \in Token
        PROVE  emission'[t] + call'.reward[t] = IssuedAfter(chain', imported', t)
    <3>1. Current.coinbase[t] \in Nat
      BY <2>2, U64Assumption DEF Block, Pair, Word
    <3>2. emission'[t] = emission[t] + Current.coinbase[t]
      <4>1. emission[t] + Current.coinbase[t] \in Word
        BY <1>1, <2>1, <3>1, U64Assumption DEF Word
      <4> QED
        BY <2>1, <4>1, NoWrap DEF PlusMod
    <3>3. emission[t] = IssuedAfter(chain, imported, t)
      BY <1>1, <2>1 DEF EmissionInv, EmissionExact, IssuedAfter, Zero
    <3>4. IssuedAfter(chain', imported', t) = IssuedAfter(chain, imported, t) + Current.coinbase[t]
      <4>1. imported \in Nat /\ imported <= Len(chain) /\ imported + 1 # imported
        BY <1>1, <2>1
      <4>2. IssuedAfter(Append(chain, Current), imported + 1, t)
              = IssuedAfter(chain, imported, t) + Current.coinbase[t] - 0
        BY <1>1, <2>1, <2>2, <4>1, IssuedAfterAppend
      <4> QED
        BY <1>1, <2>1, <3>1, <3>3, <4>2
    <3> QED
      BY <1>1, <2>1, <3>1, <3>2, <3>3, <3>4 DEF Zero
  <2> QED
    BY <1>1, <2>2, <2>3 DEF EmissionInv, EmissionExact, IssuedAfter
<1>6. ~ReplayEmissionPanic
  BY DEF AmountsFit, ReplayEmissionPanic, EmissionFits, Adds, Plus
<1>7. ASSUME NEW tx \in replay.todo, ReplayTx(tx)
      PROVE  EmissionInv'
  <2>1. Replaying
    BY <1>1, AfterRedebitTypes
  <2> QED
    BY <1>2, <1>7, <2>1 DEF ReplayTx
<1>8. ASSUME Abandon, chain' = chain, emission' = emission, call' = call
      PROVE  EmissionInv'
  BY <1>2, <1>8 DEF Abandon, NoReplay, Replaying
<1>9. CASE ReplayStep
  BY <1>5, <1>6, <1>7, <1>8, <1>9
  DEF ReplayStep, ReplayDebitPanic, ReplayCreditPanic, ReplayMismatch, ReplayMinerPanic, vars
<1>10. CASE OwnStep
  BY <1>1, <1>10, OwnEmission
<1> QED
  BY <1>3, <1>4, <1>9, <1>10 DEF ImportNext, RejectImport

\* The fees of imported blocks are natural numbers, so the exact value is within the
\* bounds.
LEMMA ExactFollows == EmissionInv => EmissionFollowsChain
<1> SUFFICES ASSUME EmissionInv, NEW t \in Token
             PROVE  /\ emission[t] + call.reward[t] >= Issuance(t)
                    /\ emission[t] + call.reward[t]
                         <= Issuance(t) + SumFunction([i \in DOMAIN chain |->
                                            IF i <= imported THEN chain[i].fees[t] ELSE 0])
  BY DEF EmissionFollowsChain
<1> DEFINE f == [i \in DOMAIN chain |-> chain[i].coinbase[t] - chain[i].fees[t]]
           g == [i \in DOMAIN chain |-> IF i <= imported THEN chain[i].fees[t] ELSE 0]
           h == [i \in DOMAIN chain |->
                    chain[i].coinbase[t] - (IF i <= imported THEN 0 ELSE chain[i].fees[t])]
<1>1. chain \in Seq(Block) /\ IsFiniteSet(DOMAIN chain)
  <2>1. chain \in Seq(Block) /\ DOMAIN chain = 1 .. Len(chain) /\ Len(chain) \in Nat
    BY DEF EmissionInv, ImportInv, ImportTypeOK, TypeOK
  <2> QED
    BY <2>1, FS_Interval
<1>2. ASSUME NEW i \in DOMAIN chain
      PROVE  f[i] \in Int /\ g[i] \in Nat /\ h[i] = f[i] + g[i]
  <2>1. chain[i] \in Block
    BY <1>1
  <2>2. chain[i].coinbase[t] \in Nat /\ chain[i].fees[t] \in Nat
    BY <2>1, U64Assumption DEF Block, Pair, Word
  <2> QED
    BY <2>2
<1>3. emission[t] + call.reward[t] = SumFunction(h) /\ Issuance(t) = SumFunction(f)
  BY DEF EmissionInv, EmissionExact, IssuedAfter, Issuance
<1>4. DOMAIN f = DOMAIN chain /\ DOMAIN g = DOMAIN chain /\ DOMAIN h = DOMAIN chain
  OBVIOUS
<1> SUFFICES SumFunction(h) >= SumFunction(f) /\ SumFunction(h) <= SumFunction(f) + SumFunction(g)
  BY <1>3
<1> HIDE DEF f, g, h
<1>5. SumFunction(h) = SumFunction(f) + SumFunction(g)
  BY <1>1, <1>2, <1>4, SumFunctionAdd
<1>6. SumFunction(f) \in Int /\ SumFunction(g) \in Nat
  BY <1>1, <1>2, <1>4, SumFunctionType
<1> QED
  BY <1>5, <1>6

\* emission_* of a node that imports is that of the chain it has, at every point of a
\* replay and after it: at least what the chain issued, and no more than the fees of
\* imported blocks beyond it.
THEOREM EmissionIsOfTheChain ==
    ImportSpec /\ []AmountsFit => []EmissionFollowsChain
<1>1. ImportInit => EmissionInv
  <2> SUFFICES ASSUME ImportInit PROVE EmissionInv
    OBVIOUS
  <2>1. /\ ~Replaying /\ ImportInv /\ DOMAIN chain = {}
        /\ \A t \in Token : emission[t] = 0 /\ call.reward[t] = 0
    BY ImportInvInit DEF ImportInit, Init, NoReplay, Replaying, NoCall, Zero
  <2>2. ASSUME NEW t \in Token
        PROVE  IssuedAfter(chain, imported, t) = 0
    <3> DEFINE f == [i \in DOMAIN chain |->
                        chain[i].coinbase[t] - (IF i <= imported THEN 0 ELSE chain[i].fees[t])]
    <3>1. DOMAIN f = {} /\ IssuedAfter(chain, imported, t) = SumFunction(f)
      BY <2>1 DEF IssuedAfter
    <3> HIDE DEF f
    <3> QED
      BY <3>1, SumFunctionType, FS_EmptySet
  <2> QED
    BY <2>1, <2>2 DEF EmissionInv, EmissionExact, IssuedAfter
<1>2. EmissionInv /\ AmountsFit /\ [ImportNext]_importVars => EmissionInv'
  BY EmissionStep
<1>3. EmissionInv => EmissionFollowsChain
  BY ExactFollows
<1> QED
  BY <1>1, <1>2, <1>3, PTL DEF ImportSpec

\* One reward for each block, whoever mined it: import_chain sets the reward back and
\* decays it once per block, and the mine_block calls that follow go on from there.
THEOREM ImportedRewardFollowsSchedule ==
    ImportSpec /\ []AmountsFit => []RewardReflectsHeight
<1> DEFINE IInv == ImportInv /\ RewardReflectsHeight
<1>1. ImportInit => IInv
  <2> SUFFICES ASSUME ImportInit PROVE IInv
    OBVIOUS
  <2>1. MinedBlocks = {} /\ block_reward = INITIAL_REWARD
    BY DEF ImportInit, Init, MinedBlocks
  <2> QED
    BY <2>1, ImportInvInit, FS_EmptySet, DecayScheduleUnfold DEF RewardReflectsHeight
<1>2. IInv /\ AmountsFit /\ [ImportNext]_importVars => IInv'
  <2> SUFFICES ASSUME IInv, AmountsFit, [ImportNext]_importVars PROVE IInv'
    OBVIOUS
  <2>1. ImportInv /\ ImportInv' /\ chain \in Seq(Block) /\ TypeOK /\ TypeOK'
    BY ImportInvStep DEF ImportInv, ImportTypeOK, TypeOK
  <2>2. ASSUME chain' = chain, block_reward' = block_reward
        PROVE  RewardReflectsHeight'
    BY <2>2 DEF RewardReflectsHeight, MinedBlocks
  <2>3. ASSUME NEW new \in Offers, StartImport(new)
        PROVE  RewardReflectsHeight'
    <3>1. MinedBlocks' = {} /\ block_reward' = INITIAL_REWARD
      BY <2>3 DEF StartImport, MinedBlocks
    <3> QED
      BY <3>1, FS_EmptySet, DecayScheduleUnfold DEF RewardReflectsHeight
  <2>4. CASE ReplayBlock
    <3>1. /\ Replaying /\ chain' = Append(chain, Current) /\ block_reward' = Decay(block_reward)
          /\ Current \in Block /\ Current.miner # NoMiner
      BY <2>1, <2>4, CurrentTypes, AddrAssumption DEF ReplayBlock, BlockReplayed
    <3>2. /\ Cardinality(MinedBlocks) \in Nat
          /\ Cardinality(MinedBlocks') = Cardinality(MinedBlocks) + 1
      BY <2>1, <3>1, MinedCount DEF MinedBlocks
    <3> QED
      BY <2>1, <3>1, <3>2, DecayScheduleUnfold DEF RewardReflectsHeight
  <2>5. ~ReplayEmissionPanic
    BY DEF AmountsFit, ReplayEmissionPanic, EmissionFits, Adds, Plus
  <2>6. CASE ReplayStep
    BY <2>1, <2>2, <2>4, <2>5, <2>6
    DEF ReplayStep, ReplayTx, ReplayDebitPanic, ReplayCreditPanic, ReplayMismatch,
        ReplayMinerPanic, vars
  <2>7. CASE OwnStep
    <3>1. ~MineFeeOverflow /\ Next
      BY <2>7 DEF OwnStep, AmountsFit, MiningSucceeds, MineFeeOverflow
    <3> QED
      BY <2>1, <3>1, ScheduleStep
  <2>8. CASE UNCHANGED importVars
    BY <2>1, <2>2, <2>8 DEF importVars, vars
  <2> QED
    BY <2>1, <2>2, <2>3, <2>6, <2>7, <2>8 DEF ImportNext, RejectImport, importVars, vars
<1>3. IInv => RewardReflectsHeight
  OBVIOUS
<1> QED
  BY <1>1, <1>2, <1>3, PTL DEF ImportSpec

-----------------------------------------------------------------------------
(* The balances of a replayed chain *)

LEMMA PaymentsFinite ==
    ASSUME NEW c \in Seq(Block)
    PROVE  /\ IsFiniteSet(Payments(c))
           /\ \A p \in Payments(c) : p[2] \in TxSpace
<1>1. DOMAIN c = 1 .. Len(c) /\ Len(c) \in Nat /\ \A i \in DOMAIN c : c[i].txs \subseteq TxSpace
  <2>1. DOMAIN c = 1 .. Len(c) /\ Len(c) \in Nat /\ \A i \in DOMAIN c : c[i] \in Block
    OBVIOUS
  <2> QED
    BY <2>1 DEF Block
<1>2. Payments(c) \subseteq (DOMAIN c) \X TxSpace
  BY <1>1 DEF Payments
<1>3. IsFiniteSet(DOMAIN c) /\ IsFiniteSet(TxSpace)
  BY <1>1, FS_Interval, InputAssumption
<1> QED
  BY <1>2, <1>3, FS_Product, FS_Subset

\* The three parts of an account's worth
Mined(c, n, a, t) == SumFunction([i \in {j \in 1 .. n : c[j].miner = a} |-> c[i].coinbase[t]])
Received(ps, a, t) == SumFunction([p \in {q \in ps : q[2].to = a} |-> p[2].amount[t]])
Spent(ps, a, t) == SumFunction([p \in {q \in ps : q[2].from = a} |-> Debit(p[2])[t]])

\* One more block pays its miner.
MinesMore(c, n, a, t) ==
    /\ Mined(c, 0, a, t) = 0
    /\ Mined(c, n, a, t) \in Nat
    /\ n < Len(c) =>
          /\ c[n + 1].miner = a =>
                Mined(c, n + 1, a, t) = Mined(c, n, a, t) + c[n + 1].coinbase[t]
          /\ c[n + 1].miner # a => Mined(c, n + 1, a, t) = Mined(c, n, a, t)

LEMMA MinedMore ==
    ASSUME NEW c \in Seq(Block), NEW a, NEW t \in Token, NEW n \in Nat, n <= Len(c)
    PROVE  MinesMore(c, n, a, t)
<1> DEFINE e == [i \in 1 .. Len(c) |-> c[i].coinbase[t]]
           K == {j \in 1 .. Len(c) : c[j].miner = a}
<1>1. Len(c) \in Nat /\ \A i \in 1 .. Len(c) : c[i] \in Block
  OBVIOUS
<1>2. \A b \in Block : b.coinbase[t] \in Nat
  BY U64Assumption DEF Block, Pair, Word
<1>3. DOMAIN e = 1 .. Len(c) /\ \A x \in 1 .. Len(c) : e[x] \in Nat
  BY <1>1, <1>2
<1>4. ASSUME NEW m \in Nat, m <= Len(c)
      PROVE  Mined(c, m, a, t) = SumIn(e, (1 .. m) \cap K)
  <2>1. (1 .. m) \cap K = {j \in 1 .. m : c[j].miner = a}
    BY <1>1, <1>4
  <2>2. [x \in (1 .. m) \cap K |-> e[x]] = [i \in {j \in 1 .. m : c[j].miner = a} |-> c[i].coinbase[t]]
    BY <2>1
  <2> QED
    BY <2>2 DEF Mined, SumIn
<1>5. \A x \in 1 .. Len(c) : e[x] = c[x].coinbase[t] /\ (x \in K <=> c[x].miner = a)
  OBVIOUS
<1> HIDE DEF e, K
<1>6. SumsSelected(e, 1 .. Len(c), K, 1 .. n)
  <2>1. 1 .. n \in SUBSET (1 .. Len(c))
    BY <1>1
  <2>2. IsFiniteSet(1 .. Len(c))
    BY <1>1, FS_Interval
  <2> QED
    BY <1>3, <2>1, <2>2, SumSelected
<1>7. Mined(c, 0, a, t) = 0
  <2>1. 1 .. 0 = {}
    OBVIOUS
  <2> QED
    BY <1>1, <1>4, <1>6, <2>1 DEF SumsSelected
<1>8. ASSUME n < Len(c)
      PROVE  /\ c[n + 1].miner = a =>
                   Mined(c, n + 1, a, t) = Mined(c, n, a, t) + c[n + 1].coinbase[t]
             /\ c[n + 1].miner # a => Mined(c, n + 1, a, t) = Mined(c, n, a, t)
  <2>1. /\ 1 .. (n + 1) = (1 .. n) \cup {n + 1} /\ n + 1 \in 1 .. Len(c) /\ n + 1 \notin 1 .. n
        /\ n + 1 \in Nat /\ n + 1 <= Len(c)
    BY <1>1, <1>8
  <2>2. /\ Mined(c, n + 1, a, t) = SumIn(e, ((1 .. n) \cup {n + 1}) \cap K)
        /\ Mined(c, n, a, t) = SumIn(e, (1 .. n) \cap K)
    BY <1>4, <2>1
  <2>3. n + 1 \in (1 .. Len(c)) \ (1 .. n) /\ e[n + 1] = c[n + 1].coinbase[t]
        /\ (n + 1 \in K <=> c[n + 1].miner = a)
    BY <1>3, <1>5, <2>1
  <2> QED
    BY <1>6, <2>2, <2>3 DEF SumsSelected
<1> QED
  BY <1>4, <1>6, <1>7, <1>8 DEF SumsSelected, MinesMore

\* One more payment, received by one account and spent by another.
PaysMore(c, ps, a, t) ==
    /\ Received({}, a, t) = 0 /\ Spent({}, a, t) = 0
    /\ Received(ps, a, t) \in Nat /\ Spent(ps, a, t) \in Nat
    /\ \A p \in Payments(c) \ ps :
          /\ p[2].to = a =>
                Received(ps \cup {p}, a, t) = Received(ps, a, t) + p[2].amount[t]
          /\ p[2].to # a => Received(ps \cup {p}, a, t) = Received(ps, a, t)
          /\ p[2].from = a =>
                Spent(ps \cup {p}, a, t) = Spent(ps, a, t) + Debit(p[2])[t]
          /\ p[2].from # a => Spent(ps \cup {p}, a, t) = Spent(ps, a, t)

LEMMA PaidMore ==
    ASSUME NEW c \in Seq(Block), NEW a, NEW t \in Token, NEW ps, ps \subseteq Payments(c)
    PROVE  PaysMore(c, ps, a, t)
<1> DEFINE P == Payments(c)
           e == [p \in P |-> p[2].amount[t]]
           d == [p \in P |-> Debit(p[2])[t]]
           K == {p \in P : p[2].to = a}
           L == {p \in P : p[2].from = a}
<1>1. IsFiniteSet(P) /\ \A p \in P : p[2] \in TxSpace
  BY PaymentsFinite
<1>2. \A x \in TxSpace : x.amount[t] \in Nat /\ Debit(x)[t] \in Nat
  BY CostTypes, PairTypes, InputAssumption, U64Assumption DEF Pair, Word
<1>3. /\ DOMAIN e = P /\ \A x \in P : e[x] \in Nat
      /\ DOMAIN d = P /\ \A x \in P : d[x] \in Nat
  BY <1>1, <1>2
<1>4. ASSUME NEW U, U \subseteq P
      PROVE  Received(U, a, t) = SumIn(e, U \cap K) /\ Spent(U, a, t) = SumIn(d, U \cap L)
  <2>1. U \cap K = {q \in U : q[2].to = a} /\ U \cap L = {q \in U : q[2].from = a}
    BY <1>4
  <2>2. /\ [x \in U \cap K |-> e[x]] = [p \in {q \in U : q[2].to = a} |-> p[2].amount[t]]
        /\ [x \in U \cap L |-> d[x]] = [p \in {q \in U : q[2].from = a} |-> Debit(p[2])[t]]
    BY <2>1
  <2> QED
    BY <2>2 DEF Received, Spent, SumIn
<1>5. \A x \in P : /\ e[x] = x[2].amount[t] /\ (x \in K <=> x[2].to = a)
                   /\ d[x] = Debit(x[2])[t] /\ (x \in L <=> x[2].from = a)
  OBVIOUS
<1> HIDE DEF e, d, K, L, P
<1>6. SumsSelected(e, P, K, ps)
  <2>1. ps \in SUBSET P
    BY DEF P
  <2> QED
    BY <1>1, <1>3, <2>1, SumSelected
<1>7. SumsSelected(d, P, L, ps)
  <2>1. ps \in SUBSET P
    BY DEF P
  <2> QED
    BY <1>1, <1>3, <2>1, SumSelected
<1>8. /\ Received({}, a, t) = 0 /\ Spent({}, a, t) = 0
      /\ Received(ps, a, t) = SumIn(e, ps \cap K) /\ Spent(ps, a, t) = SumIn(d, ps \cap L)
  BY <1>4, <1>6, <1>7 DEF P, SumsSelected
<1>9. ASSUME NEW p \in Payments(c) \ ps
      PROVE  /\ p[2].to = a =>
                    Received(ps \cup {p}, a, t) = Received(ps, a, t) + p[2].amount[t]
             /\ p[2].to # a => Received(ps \cup {p}, a, t) = Received(ps, a, t)
             /\ p[2].from = a =>
                    Spent(ps \cup {p}, a, t) = Spent(ps, a, t) + Debit(p[2])[t]
             /\ p[2].from # a => Spent(ps \cup {p}, a, t) = Spent(ps, a, t)
  <2>1. p \in P /\ p \notin ps /\ ps \cup {p} \subseteq P
    BY DEF P
  <2>2. /\ Received(ps \cup {p}, a, t) = SumIn(e, (ps \cup {p}) \cap K)
        /\ Spent(ps \cup {p}, a, t) = SumIn(d, (ps \cup {p}) \cap L)
    BY <1>4, <2>1
  <2>3. /\ p \in P \ ps /\ e[p] = p[2].amount[t] /\ (p \in K <=> p[2].to = a)
        /\ d[p] = Debit(p[2])[t] /\ (p \in L <=> p[2].from = a)
    BY <1>3, <1>5, <2>1
  <2> QED
    BY <1>6, <1>7, <1>8, <2>2, <2>3 DEF SumsSelected
<1> QED
  BY <1>6, <1>7, <1>8, <1>9 DEF SumsSelected, PaysMore

LEMMA WorthParts ==
    ASSUME NEW c, NEW n, NEW ps, NEW a, NEW t
    PROVE  Worth(c, n, ps, a, t) = Mined(c, n, a, t) + Received(ps, a, t) - Spent(ps, a, t)
BY DEF Worth, Mined, Received, Spent

\* The payments replayed are those before the next one, and that one is among the
\* payments of the chain.
LEMMA NextPayment ==
    ASSUME ReplayInv, NEW tx \in replay.todo, FirstTx(tx)
    PROVE  /\ <<Len(chain) + 1, tx>> \in Payments(Whole) \ Done
           /\ Done = {q \in Payments(Whole) : Precedes(q, <<Len(chain) + 1, tx>>)}
           /\ \A q \in Done : Precedes(q, <<Len(chain) + 1, tx>>)
<1> DEFINE n == Len(chain) + 1
           p == <<n, tx>>
<1>1. ImportInv /\ Replaying /\ tx \in TxSpace
  BY AfterRedebitTypes DEF ReplayInv
<1>2. Credited /\ replay.todo \subseteq Current.txs /\ replay.todo \subseteq TxSpace
  BY <1>1 DEF ReplayInv, ImportInv, ImportTypeOK
<1>3. Current \in Block /\ Current.txs \subseteq TxSpace
  BY <1>1, CurrentTypes DEF Block
<1>4. n \in DOMAIN Whole /\ Whole[n] = Current /\ n \in Nat /\ Len(chain) \in Nat
      /\ DOMAIN Whole \subseteq Nat
  BY <1>1, WholeParts
<1> HIDE DEF n
<1>5. p \in Payments(Whole)
  BY <1>2, <1>4, PaymentsOf
<1>6. p \notin Done
  BY <1>4 DEF Done, n
<1>7. ASSUME NEW q \in Payments(Whole)
      PROVE  q \in Done <=> Precedes(q, p)
  <2>1. PICK i \in DOMAIN Whole : \E x \in Whole[i].txs : q = <<i, x>>
    BY PaymentsOf
  <2>2. PICK x \in Whole[i].txs : q = <<i, x>>
    BY <2>1
  <2>3. q \in Done <=> (i <= Len(chain) \/ (i = n /\ x \notin replay.todo))
    BY <2>2 DEF Done, n
  <2>4. Precedes(q, p) <=> (i < n \/ (i = n /\ Before(x, tx)))
    BY <2>2 DEF Precedes
  <2>5. i < n <=> i <= Len(chain)
    BY <1>4 DEF n
  <2>6. ASSUME i = n
        PROVE  x \notin replay.todo <=> Before(x, tx)
    <3>1. x \in Current.txs
      BY <1>4, <2>6
    <3>2. x.from \in Nat /\ x.nonce \in Nat /\ tx.from \in Nat /\ tx.nonce \in Nat
      BY <1>1, <1>3, <3>1, KeyTypes
    <3>3. x \notin replay.todo => Before(x, tx)
      BY <1>2, <3>1 DEF Credited
    <3>4. x \in replay.todo => (x = tx \/ Before(tx, x))
      BY DEF FirstTx
    <3>5. x = tx \/ Before(tx, x) => ~Before(x, tx)
      BY <3>2 DEF Before
    <3> QED
      BY <3>3, <3>4, <3>5
  <2> QED
    BY <2>3, <2>4, <2>5, <2>6
<1>8. Done \subseteq Payments(Whole)
  BY DEF Done
<1>9. Done = {q \in Payments(Whole) : Precedes(q, p)}
  BY <1>7, <1>8
<1> QED
  BY <1>5, <1>6, <1>7, <1>8, <1>9 DEF n

\* One more payment is replayed.
LEMMA PaymentDone ==
    ASSUME ReplayInv, NEW tx \in replay.todo, ReplayTx(tx)
    PROVE  /\ Whole' = Whole /\ Len(chain') = Len(chain)
           /\ Done' = Done \cup {<<Len(chain) + 1, tx>>}
<1> DEFINE n == Len(chain) + 1
<1>1. ImportInv /\ replay \in [blocks: Seq(Block), todo: SUBSET TxSpace, fees: [Token -> Nat]]
  BY DEF ReplayInv, ImportInv, ImportTypeOK
<1>2. chain' = chain /\ \E f : replay' = [replay EXCEPT !.todo = @ \ {tx}, !.fees = f]
  BY DEF ReplayTx
<1>3. replay'.blocks = replay.blocks /\ replay'.todo = replay.todo \ {tx}
  BY <1>1, <1>2
<1>4. Whole' = Whole
  BY <1>2, <1>3 DEF Whole
<1>5. <<n, tx>> \in Payments(Whole)
  BY NextPayment DEF ReplayTx
<1>6. ASSUME NEW q \in Payments(Whole)
      PROVE  q \in Done' <=> q \in Done \cup {<<n, tx>>}
  <2>1. PICK i \in DOMAIN Whole : \E x \in Whole[i].txs : q = <<i, x>>
    BY PaymentsOf
  <2>2. PICK x \in Whole[i].txs : q = <<i, x>>
    BY <2>1
  <2>3. q \in Done <=> (i <= Len(chain) \/ (i = n /\ x \notin replay.todo))
    BY <2>2 DEF Done
  <2>4. q \in Done' <=> (i <= Len(chain) \/ (i = n /\ x \notin replay.todo \ {tx}))
    <3>1. Done' = {r \in Payments(Whole) : r[1] <= Len(chain)
                                 \/ (r[1] = Len(chain) + 1 /\ r[2] \notin replay.todo \ {tx})}
      BY <1>2, <1>3, <1>4 DEF Done
    <3> QED
      BY <2>2, <3>1
  <2>5. q = <<n, tx>> <=> (i = n /\ x = tx)
    BY <2>2
  <2> QED
    BY <2>3, <2>4, <2>5
<1>7. Done \subseteq Payments(Whole) /\ Done' \subseteq Payments(Whole)
  BY <1>4 DEF Done
<1>8. Done' = Done \cup {<<n, tx>>}
  BY <1>5, <1>6, <1>7
<1> QED
  BY <1>2, <1>4, <1>8

\* What a replayed transaction does to balances and nonces when its sender has the
\* money.
LEMMA PaymentMade ==
    ASSUME ReplayInv, CreditsFit, NEW tx \in replay.todo, ReplayTx(tx), Pays(tx),
           NEW t \in Token, accounts[tx.from].balance[t] >= Debit(tx)[t], NEW a \in Addr
    PROVE  /\ accounts[a].balance[t] \in Nat /\ Debit(tx)[t] \in Nat /\ tx.amount[t] \in Nat
           /\ accounts'[a].balance[t]
                = accounts[a].balance[t] - (IF tx.from = a THEN Debit(tx)[t] ELSE 0)
                                         + (IF tx.to = a THEN tx.amount[t] ELSE 0)
           /\ accounts'[a].nonce = IF tx.from = a THEN tx.nonce ELSE accounts[a].nonce
<1>1. ImportInv /\ accounts \in [Addr -> Account]
  BY DEF ReplayInv, ImportInv, ImportTypeOK, TypeOK
<1>2. /\ tx \in TxSpace /\ tx.from \in Addr /\ tx.to \in Addr
      /\ AfterRedebit(tx) \in [Addr -> Account]
  BY <1>1, AfterRedebitTypes
<1>3. /\ accounts' = [AfterRedebit(tx) EXCEPT ![tx.to].balance = PlusMod(@, tx.amount)]
      /\ FirstTx(tx)
  BY DEF ReplayTx
<1>4. /\ \A c \in Addr : /\ accounts[c].balance[t] \in Nat
                         /\ AfterRedebit(tx)[c].balance \in Pair
                         /\ AfterRedebit(tx)[c].balance[t] \in Nat
      /\ Debit(tx)[t] \in Nat /\ tx.amount[t] \in Nat
  <2>1. \A p \in Pair : p[t] \in Nat
    BY U64Assumption DEF Pair, Word
  <2> QED
    BY <1>1, <1>2, <2>1, PairTypes DEF Account
<1>5. /\ \A c \in Addr : c # tx.from => AfterRedebit(tx)[c] = accounts[c]
      /\ AfterRedebit(tx)[tx.from].balance[t]
           = accounts[tx.from].balance[t] - Debit(tx)[t]
      /\ AfterRedebit(tx)[tx.from].nonce = tx.nonce
  <2>1. AfterRedebit(tx)[tx.from] = Redebit(accounts[tx.from], tx)
    BY <1>1, <1>2 DEF AfterRedebit
  <2>2. /\ Redebit(accounts[tx.from], tx).balance = Minus(accounts[tx.from].balance, Debit(tx))
        /\ Redebit(accounts[tx.from], tx).nonce = tx.nonce
    BY <1>1, <1>2 DEF Redebit, Account
  <2>3. Minus(accounts[tx.from].balance, Debit(tx))[t]
          = accounts[tx.from].balance[t] - Debit(tx)[t]
    BY <1>2, <1>4 DEF Minus, SatSub
  <2> QED
    BY <1>1, <1>2, <2>1, <2>2, <2>3 DEF AfterRedebit
<1>6. /\ \A c \in Addr : c # tx.to => accounts'[c] = AfterRedebit(tx)[c]
      /\ accounts'[tx.to].balance = PlusMod(AfterRedebit(tx)[tx.to].balance, tx.amount)
      /\ accounts'[tx.to].nonce = AfterRedebit(tx)[tx.to].nonce
  BY <1>2, <1>3 DEF Account
<1>7. PlusMod(AfterRedebit(tx)[tx.to].balance, tx.amount)[t]
        = AfterRedebit(tx)[tx.to].balance[t] + tx.amount[t]
  <2>1. AfterRedebit(tx)[tx.to].balance[t] + tx.amount[t] < U64
    BY <1>3 DEF CreditsFit
  <2>2. AfterRedebit(tx)[tx.to].balance[t] + tx.amount[t] \in Word
    BY <1>2, <1>4, <2>1, U64Assumption DEF Word
  <2> QED
    BY <2>2, NoWrap DEF PlusMod
<1>8. /\ a # tx.to => accounts'[a].balance[t] = AfterRedebit(tx)[a].balance[t]
      /\ a = tx.to => accounts'[a].balance[t] = AfterRedebit(tx)[a].balance[t] + tx.amount[t]
      /\ accounts'[a].nonce = AfterRedebit(tx)[a].nonce
  BY <1>6, <1>7
<1>9. /\ a # tx.from => AfterRedebit(tx)[a].balance[t] = accounts[a].balance[t]
      /\ a = tx.from => AfterRedebit(tx)[a].balance[t] = accounts[a].balance[t] - Debit(tx)[t]
      /\ AfterRedebit(tx)[a].nonce = IF tx.from = a THEN tx.nonce ELSE accounts[a].nonce
  BY <1>5
<1> QED
  BY <1>4, <1>8, <1>9

\* Balances and nonces are what the replayed part of the chain makes them.
Rebuilt ==
    \A a \in Addr :
        /\ \A t \in Token : accounts[a].balance[t] = Worth(Whole, Len(chain), Done, a, t)
        /\ \A p \in Done : (/\ p[2].from = a
                            /\ \A q \in Done : q[2].from = a => ~Precedes(p, q))
                           => accounts[a].nonce = p[2].nonce

LEMMA WholeTypes ==
    ASSUME ImportInv
    PROVE  Whole \in Seq(Block) /\ Len(chain) \in Nat /\ Len(chain) <= Len(Whole)
           /\ Done \subseteq Payments(Whole)
<1>1. chain \in Seq(Block) /\ replay.blocks \in Seq(Block)
  BY DEF ImportInv, ImportTypeOK, TypeOK
<1>2. Whole \in Seq(Block) /\ Len(Whole) = Len(chain) + Len(replay.blocks)
  BY <1>1 DEF Whole
<1>3. Len(chain) \in Nat /\ Len(replay.blocks) \in Nat
  BY <1>1
<1> QED
  BY <1>2, <1>3 DEF Done

\* A payment of a funded chain: the sender has the money, and the ledger follows.
LEMMA LedgerPays ==
    ASSUME ReplayInv, ReplayedLedger, CreditsFit, NEW tx \in replay.todo, ReplayTx(tx)
    PROVE  ReplayedLedger'
<1> DEFINE n == Len(chain) + 1
           p == <<n, tx>>
<1>1. /\ Whole' = Whole /\ Len(chain') = Len(chain) /\ Done' = Done \cup {p} /\ FirstTx(tx)
  BY PaymentDone DEF ReplayTx
<1>2. /\ p \in Payments(Whole) \ Done /\ p[1] = n /\ p[2] = tx
      /\ Done = {q \in Payments(Whole) : Precedes(q, p)} /\ \A q \in Done : Precedes(q, p)
  BY <1>1, NextPayment
<1>3. ImportInv /\ Replaying /\ tx.from \in Addr
  BY AfterRedebitTypes DEF ReplayInv
<1>4. /\ Whole \in Seq(Block) /\ Len(chain) \in Nat /\ Len(chain) <= Len(Whole)
      /\ Done \subseteq Payments(Whole)
  BY <1>3, WholeTypes
<1>5. SUFFICES ASSUME Funded(Whole) PROVE Rebuilt'
  <2>1. Funded(Whole)' => Funded(Whole)
    BY <1>1 DEF Funded
  <2> QED
    BY <1>5, <2>1 DEF ReplayedLedger, Rebuilt
<1>6. Rebuilt /\ Pays(tx)
  BY <1>1, <1>3, <1>5, FundedPays DEF ReplayedLedger, Rebuilt
<1>7. ASSUME NEW t \in Token
      PROVE  accounts[tx.from].balance[t] >= Debit(tx)[t]
  <2>1. Worth(Whole, n - 1, {q \in Payments(Whole) : Precedes(q, p)}, tx.from, t) >= Debit(tx)[t]
    <3> HIDE DEF n, p
    <3> QED
      BY <1>2, <1>5 DEF Funded
  <2>2. Worth(Whole, Len(chain), Done, tx.from, t) >= Debit(tx)[t]
    <3>1. n - 1 = Len(chain)
      BY <1>4
    <3> HIDE DEF n, p
    <3> QED
      BY <1>2, <2>1, <3>1
  <2> QED
    BY <1>3, <1>6, <2>2 DEF Rebuilt
<1> HIDE DEF p
<1>8. ASSUME NEW a \in Addr, NEW t \in Token
      PROVE  accounts'[a].balance[t] = Worth(Whole, Len(chain), Done \cup {p}, a, t)
  <2>1. /\ accounts[a].balance[t] \in Nat /\ Debit(tx)[t] \in Nat /\ tx.amount[t] \in Nat
        /\ accounts'[a].balance[t]
             = accounts[a].balance[t] - (IF tx.from = a THEN Debit(tx)[t] ELSE 0)
                                      + (IF tx.to = a THEN tx.amount[t] ELSE 0)
    BY <1>6, <1>7, PaymentMade
  <2>2. accounts[a].balance[t]
          = Mined(Whole, Len(chain), a, t) + Received(Done, a, t) - Spent(Done, a, t)
    BY <1>6, WorthParts DEF Rebuilt
  <2>3. /\ Received(Done, a, t) \in Nat /\ Spent(Done, a, t) \in Nat
        /\ tx.to = a => Received(Done \cup {p}, a, t) = Received(Done, a, t) + tx.amount[t]
        /\ tx.to # a => Received(Done \cup {p}, a, t) = Received(Done, a, t)
        /\ tx.from = a => Spent(Done \cup {p}, a, t) = Spent(Done, a, t) + Debit(tx)[t]
        /\ tx.from # a => Spent(Done \cup {p}, a, t) = Spent(Done, a, t)
    <3>1. PaysMore(Whole, Done, a, t)
      BY <1>4, PaidMore
    <3> QED
      BY <1>2, <3>1 DEF PaysMore
  <2>4. Mined(Whole, Len(chain), a, t) \in Nat
    <3>1. MinesMore(Whole, Len(chain), a, t)
      BY <1>4, MinedMore
    <3> QED
      BY <3>1 DEF MinesMore
  <2>5. Worth(Whole, Len(chain), Done \cup {p}, a, t)
          = Mined(Whole, Len(chain), a, t) + Received(Done \cup {p}, a, t)
              - Spent(Done \cup {p}, a, t)
    BY WorthParts
  <2>6. CASE tx.from = a
    <3>1. Spent(Done \cup {p}, a, t) = Spent(Done, a, t) + Debit(tx)[t]
      BY <2>3, <2>6
    <3>2. CASE tx.to = a
      <4>1. Received(Done \cup {p}, a, t) = Received(Done, a, t) + tx.amount[t]
        BY <2>3, <3>2
      <4>2. accounts'[a].balance[t] = accounts[a].balance[t] - Debit(tx)[t] + tx.amount[t]
        BY <2>1, <2>6, <3>2
      <4>3. PICK m \in Nat, r \in Nat, s \in Nat, d \in Nat, x \in Nat :
               /\ m = Mined(Whole, Len(chain), a, t) /\ r = Received(Done, a, t)
               /\ s = Spent(Done, a, t) /\ d = Debit(tx)[t] /\ x = tx.amount[t]
        BY <2>1, <2>3, <2>4
      <4>4. (m + r - s) - d + x = m + (r + x) - (s + d)
        OBVIOUS
      <4> QED
        BY <2>2, <2>5, <3>1, <4>1, <4>2, <4>3, <4>4
    <3>3. CASE tx.to # a
      <4>1. Received(Done \cup {p}, a, t) = Received(Done, a, t)
        BY <2>3, <3>3
      <4>2. accounts'[a].balance[t] = accounts[a].balance[t] - Debit(tx)[t]
        BY <2>1, <2>6, <3>3
      <4> QED
        BY <2>1, <2>2, <2>3, <2>4, <2>5, <3>1, <4>1, <4>2
    <3> QED
      BY <3>2, <3>3
  <2>7. CASE tx.from # a
    <3>1. Spent(Done \cup {p}, a, t) = Spent(Done, a, t)
      BY <2>3, <2>7
    <3>2. CASE tx.to = a
      <4>1. Received(Done \cup {p}, a, t) = Received(Done, a, t) + tx.amount[t]
        BY <2>3, <3>2
      <4>2. accounts'[a].balance[t] = accounts[a].balance[t] + tx.amount[t]
        BY <2>1, <2>7, <3>2
      <4> QED
        BY <2>1, <2>2, <2>3, <2>4, <2>5, <3>1, <4>1, <4>2
    <3>3. CASE tx.to # a
      <4>1. Received(Done \cup {p}, a, t) = Received(Done, a, t)
        BY <2>3, <3>3
      <4>2. accounts'[a].balance[t] = accounts[a].balance[t]
        BY <2>1, <2>7, <3>3
      <4> QED
        BY <2>2, <2>5, <3>1, <4>1, <4>2
    <3> QED
      BY <3>2, <3>3
  <2> QED
    BY <2>6, <2>7
<1>9. ASSUME NEW a \in Addr, NEW q \in Done \cup {p}, q[2].from = a,
             \A r \in Done \cup {p} : r[2].from = a => ~Precedes(q, r)
      PROVE  accounts'[a].nonce = q[2].nonce
  <2>1. accounts'[a].nonce = IF tx.from = a THEN tx.nonce ELSE accounts[a].nonce
    <3>1. "ct" \in Token
      BY DEF Token
    <3> QED
      BY <1>6, <1>7, <3>1, PaymentMade
  <2>2. CASE q = p
    BY <1>2, <1>9, <2>1, <2>2
  <2>3. CASE q \in Done
    <3>1. tx.from # a
      BY <1>2, <1>9, <2>3
    <3> QED
      BY <1>6, <1>9, <2>1, <2>3, <3>1 DEF Rebuilt
  <2> QED
    BY <1>9, <2>2, <2>3
<1> QED
  BY <1>1, <1>8, <1>9 DEF Rebuilt

\* The first of the blocks to replay goes to the end of the chain.
LEMMA BlockMoves ==
    ASSUME NEW c \in Seq(Block), NEW b \in Seq(Block), Len(b) \in Nat \ {0}
    PROVE  /\ Append(c, Head(b)) \o Tail(b) = c \o b
           /\ Len(b) >= 2 => (c \o b)[Len(c) + 2] = b[2] /\ Tail(b) # << >>
<1>1. Head(b) \in Block /\ Tail(b) \in Seq(Block) /\ << Head(b) >> \in Seq(Block)
  OBVIOUS
<1>2. Append(c, Head(b)) = c \o << Head(b) >>
  BY <1>1, AppendIsConcat
<1>3. << Head(b) >> \o Tail(b) = b
  BY <1>1
<1>4. (c \o << Head(b) >>) \o Tail(b) = c \o (<< Head(b) >> \o Tail(b))
  BY <1>1, ConcatAssociative
<1>5. ASSUME Len(b) >= 2
      PROVE  (c \o b)[Len(c) + 2] = b[2] /\ Tail(b) # << >>
  <2>1. Len(c) \in Nat /\ Len(b) \in Nat /\ Len(c) + 2 \in 1 .. (Len(c) + Len(b))
    BY <1>5
  <2>2. (c \o b)[Len(c) + 2] = b[2]
    BY <2>1
  <2>3. Len(Tail(b)) = Len(b) - 1
    OBVIOUS
  <2>4. Len(Tail(b)) # 0
    BY <1>5, <2>1, <2>3
  <2>5. Len(<< >>) = 0
    OBVIOUS
  <2> QED
    BY <2>2, <2>4, <2>5
<1> QED
  BY <1>2, <1>3, <1>4, <1>5

\* The coinbase of the block: its payments are all done, and one more block is.
LEMMA LedgerMines ==
    ASSUME ReplayInv, ReplayedLedger, ReplayBlock, ImportInv'
    PROVE  ReplayedLedger'
<1>1. /\ Replaying /\ replay.todo = {} /\ CoinbaseAccepted
      /\ chain' = Append(chain, Current) /\ replay' = Replay(Tail(replay.blocks))
      /\ accounts' = [accounts EXCEPT ![Current.miner].balance = Plus(@, Current.coinbase)]
  BY DEF ReplayBlock, BlockReplayed, Rest
<1>2. /\ ImportInv /\ chain \in Seq(Block) /\ Len(chain) \in Nat
      /\ replay.blocks \in Seq(Block) /\ Len(replay.blocks) \in Nat \ {0}
      /\ accounts \in [Addr -> Account]
  BY <1>1 DEF ReplayInv, ImportInv, ImportTypeOK, TypeOK, Replaying
<1>3. /\ Current \in Block /\ Current.miner \in Addr /\ Current.coinbase \in Pair
      /\ Tail(replay.blocks) \in Seq(Block) /\ Current = replay.blocks[1]
  BY <1>1, <1>2, CurrentTypes DEF Current
<1>4. /\ replay'.blocks = Tail(replay.blocks)
      /\ replay'.blocks # << >> => replay'.todo = replay.blocks[2].txs
  <2>1. Tail(replay.blocks) # << >> => Head(Tail(replay.blocks)) = replay.blocks[2]
    BY <1>2
  <2> QED
    BY <1>1, <1>3, <2>1, ReplayTypes
<1>5. /\ Whole' = Whole /\ Len(chain') = Len(chain) + 1
  <2>1. Append(chain, Current) \o Tail(replay.blocks) = chain \o replay.blocks
    BY <1>2, BlockMoves DEF Current
  <2>2. chain' \o replay'.blocks = chain \o replay.blocks
    BY <1>1, <1>4, <2>1
  <2>3. Whole' = chain' \o replay'.blocks /\ Whole = chain \o replay.blocks
    BY DEF Whole
  <2>4. Len(chain') = Len(chain) + 1
    BY <1>1, <1>2, <1>3
  <2> QED
    BY <2>2, <2>3, <2>4
<1>6. /\ Len(chain) + 1 \in DOMAIN Whole /\ Whole[Len(chain) + 1] = Current
      /\ DOMAIN Whole = 1 .. (Len(chain) + Len(replay.blocks))
      /\ Whole \in Seq(Block) /\ Len(chain) < Len(Whole) /\ Done \subseteq Payments(Whole)
  BY <1>1, <1>2, WholeParts, WholeTypes
<1>7. Done' = Done
  <2>1. /\ Done' \subseteq Payments(Whole)
        /\ Done' = {r \in Payments(Whole) : r[1] <= Len(chain) + 1
                            \/ (r[1] = Len(chain) + 2 /\ r[2] \notin replay'.todo)}
    BY <1>2, <1>5 DEF Done
  <2>2. ASSUME NEW q \in Payments(Whole)
        PROVE  q \in Done' <=> q \in Done
    <3>1. PICK i \in DOMAIN Whole : \E x \in Whole[i].txs : q = <<i, x>>
      BY PaymentsOf
    <3>2. PICK x \in Whole[i].txs : q = <<i, x>>
      BY <3>1
    <3>3. q \in Done <=> i <= Len(chain) \/ i = Len(chain) + 1
      BY <1>1, <3>2 DEF Done
    <3>4. q \in Done' <=> i <= Len(chain) + 1 \/ (i = Len(chain) + 2 /\ x \notin replay'.todo)
      BY <2>1, <3>2
    <3>5. ASSUME i = Len(chain) + 2
          PROVE  x \in replay'.todo
      <4>1. Len(replay.blocks) >= 2
        BY <1>2, <1>6, <3>5
      <4>2. Tail(replay.blocks) # << >> /\ Whole[i] = replay.blocks[2]
        <5>1. (chain \o replay.blocks)[Len(chain) + 2] = replay.blocks[2]
          BY <1>2, <4>1, BlockMoves
        <5>2. Tail(replay.blocks) # << >>
          BY <1>2, <4>1, BlockMoves
        <5> QED
          BY <3>5, <5>1, <5>2 DEF Whole
      <4> QED
        BY <1>4, <3>2, <4>2
    <3> QED
      BY <1>2, <1>6, <3>3, <3>4, <3>5
  <2> QED
    BY <1>6, <2>1, <2>2
<1>8. SUFFICES ASSUME Funded(Whole) PROVE Rebuilt'
  <2>1. Funded(Whole)' => Funded(Whole)
    BY <1>5 DEF Funded
  <2> QED
    BY <1>8, <2>1 DEF ReplayedLedger, Rebuilt
<1>9. Rebuilt
  BY <1>1, <1>8 DEF ReplayedLedger, Rebuilt
<1>10. /\ \A c \in Addr : c # Current.miner => accounts'[c] = accounts[c]
       /\ accounts'[Current.miner].balance = Plus(accounts[Current.miner].balance, Current.coinbase)
       /\ accounts'[Current.miner].nonce = accounts[Current.miner].nonce
  BY <1>1, <1>2, <1>3 DEF Account
<1>11. ASSUME NEW a \in Addr, NEW t \in Token
       PROVE  accounts'[a].balance[t] = Worth(Whole, Len(chain) + 1, Done, a, t)
  <2>1. /\ Mined(Whole, Len(chain), a, t) \in Nat
        /\ Current.miner = a => Mined(Whole, Len(chain) + 1, a, t)
                                  = Mined(Whole, Len(chain), a, t) + Current.coinbase[t]
        /\ Current.miner # a => Mined(Whole, Len(chain) + 1, a, t) = Mined(Whole, Len(chain), a, t)
    <3>1. MinesMore(Whole, Len(chain), a, t)
      BY <1>2, <1>6, MinedMore
    <3> QED
      BY <1>6, <3>1 DEF MinesMore
  <2>2. accounts[a].balance[t]
          = Mined(Whole, Len(chain), a, t) + Received(Done, a, t) - Spent(Done, a, t)
    BY <1>9, WorthParts DEF Rebuilt
  <2>3. Worth(Whole, Len(chain) + 1, Done, a, t)
          = Mined(Whole, Len(chain) + 1, a, t) + Received(Done, a, t) - Spent(Done, a, t)
    BY WorthParts
  <2>4. Received(Done, a, t) \in Nat /\ Spent(Done, a, t) \in Nat
    <3>1. PaysMore(Whole, Done, a, t)
      BY <1>6, PaidMore
    <3> QED
      BY <3>1 DEF PaysMore
  <2>5. Current.coinbase[t] \in Nat
    BY <1>3, U64Assumption DEF Pair, Word
  <2>6. /\ Current.miner = a => accounts'[a].balance[t] = accounts[a].balance[t] + Current.coinbase[t]
        /\ Current.miner # a => accounts'[a].balance[t] = accounts[a].balance[t]
    BY <1>10 DEF Plus
  <2>7. CASE Current.miner = a
    BY <2>1, <2>2, <2>3, <2>4, <2>5, <2>6, <2>7
  <2>8. CASE Current.miner # a
    BY <2>1, <2>2, <2>3, <2>6, <2>8
  <2> QED
    BY <2>7, <2>8
<1>12. \A a \in Addr : accounts'[a].nonce = accounts[a].nonce
  BY <1>10
<1> QED
  BY <1>5, <1>7, <1>9, <1>11, <1>12 DEF Rebuilt

\* A replay starts with every account at zero and no payment done.
LEMMA LedgerStarts ==
    ASSUME ReplayInv, ImportInv', NEW new \in Offers, StartImport(new)
    PROVE  ReplayedLedger'
<1>1. /\ chain' = << >> /\ replay' = Replay(new) /\ accounts' = [a \in Addr |-> EmptyAccount]
  BY DEF StartImport
<1>2. new \in Seq(Block) /\ new # << >>
  <2>1. new \in Seq(Block) /\ Len(new) > Len(chain) /\ chain \in Seq(Block)
    BY OffersAssumption DEF StartImport, Importable, ReplayInv, ImportInv, ImportTypeOK, TypeOK
  <2> QED
    BY <2>1
<1>3. replay'.blocks = new /\ replay'.todo = Head(new).txs
  BY <1>1, <1>2, ReplayTypes
<1>4. Whole' = new /\ Len(chain') = 0
  <2>1. Whole' = << >> \o new
    BY <1>1, <1>3 DEF Whole
  <2>2. Len(chain') = 0
    BY <1>1
  <2> QED
    BY <1>2, <2>1, <2>2
<1>5. Done' = {}
  <2>1. Done' = {p \in Payments(new) : p[1] <= 0 \/ (p[1] = 0 + 1 /\ p[2] \notin Head(new).txs)}
    BY <1>3, <1>4 DEF Done
  <2>2. ASSUME NEW p \in Payments(new)
        PROVE  ~(p[1] <= 0 \/ (p[1] = 0 + 1 /\ p[2] \notin Head(new).txs))
    <3>1. PICK i \in DOMAIN new : \E x \in new[i].txs : p = <<i, x>>
      BY PaymentsOf
    <3>2. PICK x \in new[i].txs : p = <<i, x>>
      BY <3>1
    <3>3. i \in Nat /\ i >= 1
      BY <1>2
    <3>4. Head(new) = new[1]
      BY <1>2
    <3> QED
      BY <3>2, <3>3, <3>4
  <2> QED
    BY <2>1, <2>2
<1>6. ASSUME NEW a \in Addr, NEW t \in Token
      PROVE  accounts'[a].balance[t] = Worth(new, 0, {}, a, t)
  <2>1. MinesMore(new, 0, a, t)
    <3>1. 0 \in Nat /\ 0 <= Len(new)
      BY <1>2
    <3> QED
      BY <1>2, <3>1, MinedMore
  <2>2. PaysMore(new, {}, a, t)
    BY <1>2, PaidMore
  <2>3. accounts'[a].balance[t] = 0
    BY <1>1 DEF EmptyAccount, Zero
  <2>4. Mined(new, 0, a, t) = 0 /\ Received({}, a, t) = 0 /\ Spent({}, a, t) = 0
    BY <2>1, <2>2 DEF MinesMore, PaysMore
  <2>5. Worth(new, 0, {}, a, t) = 0
    BY <2>4, WorthParts
  <2> QED
    BY <2>3, <2>5
<1> QED
  BY <1>4, <1>5, <1>6 DEF ReplayedLedger

\* The other calls end the claim, or leave chain, nonces and balances alone.
LEMMA LedgerOwn ==
    ASSUME ReplayInv, ReplayedLedger, ImportInv', OwnStep
    PROVE  ReplayedLedger'
<1>1. /\ ~Replaying' /\ replay' = replay /\ imported' = imported /\ complete' = complete
      /\ ~Replaying
  BY DEF OwnStep, Replaying
<1>2. /\ chain \in Seq(Block) /\ Len(chain) \in Nat
      /\ imported \in Nat /\ imported <= Len(chain) /\ (~Idle => imported < Len(chain))
  BY DEF ReplayInv, ImportInv, ImportTypeOK, TypeOK
<1>3. SUFFICES ASSUME JustImported', Funded(Whole)' PROVE Rebuilt'
  BY <1>1, <1>3 DEF ReplayedLedger, Rebuilt
<1>4. imported = Len(chain') /\ deposited' = Zero
  BY <1>1, <1>3 DEF JustImported
<1>5. ~(\E b \in Block : chain' = Append(chain, b))
  <2> SUFFICES ASSUME NEW b \in Block, chain' = Append(chain, b) PROVE FALSE
    OBVIOUS
  <2>1. Len(chain') = Len(chain) + 1
    BY <1>2
  <2> QED
    BY <1>2, <1>4, <2>1
<1>6. ~(chain' = chain /\ ~Idle)
  BY <1>2, <1>4
<1>7. /\ chain' = chain /\ Idle
      /\ \A a \in Addr : accounts'[a].nonce = accounts[a].nonce
      /\ deposited = Zero /\ \A a \in Addr : accounts'[a].balance = accounts[a].balance
  BY <1>4, <1>5, <1>6, OwnCases
<1>8. Whole' = Whole /\ Done' = Done /\ Len(chain') = Len(chain)
  BY <1>1, <1>7 DEF Whole, Done
<1>9. Funded(Whole)
  BY <1>3, <1>8 DEF Funded
<1>10. JustImported
  BY <1>1, <1>3, <1>4, <1>7 DEF JustImported
<1>11. Rebuilt
  BY <1>9, <1>10 DEF ReplayedLedger, Rebuilt
<1> QED
  BY <1>7, <1>8, <1>11 DEF Rebuilt

\* An abandoned replay claims nothing.
LEMMA LedgerAbandoned ==
    ASSUME ReplayInv, Replaying, Abandon
    PROVE  ReplayedLedger'
<1>1. ~Replaying' /\ ~complete'
  BY DEF Abandon, NoReplay, Replaying, ReplayInv
<1> QED
  BY <1>1 DEF ReplayedLedger, JustImported

\* import_chain rebuilds the ledger from the chain alone: as long as no receiver gets
\* past 2^64, all the balances and nonces of a funded chain are those of its list of
\* coinbases and payments, at every step of the replay and afterwards.
THEOREM LedgerRebuilt ==
    OffersMined => (ImportSpec /\ []CreditsFit => []ReplayedLedger)
<1> SUFFICES ASSUME OffersMined PROVE ImportSpec /\ []CreditsFit => []ReplayedLedger
  OBVIOUS
<1> DEFINE IInv == ReplayInv /\ ReplayedLedger
<1>1. ImportInit => ReplayedLedger
  BY DEF ImportInit, NoReplay, Replaying, JustImported, ReplayedLedger
<1>2. IInv /\ CreditsFit /\ [ImportNext]_importVars => ReplayedLedger'
  <2> SUFFICES ASSUME IInv, CreditsFit, [ImportNext]_importVars PROVE ReplayedLedger'
    OBVIOUS
  <2>1. ImportInv /\ ImportInv'
    BY ImportInvStep DEF ReplayInv
  <2>2. CASE UNCHANGED importVars
    <3>1. /\ chain' = chain /\ replay' = replay /\ accounts' = accounts /\ call' = call
          /\ imported' = imported /\ complete' = complete /\ deposited' = deposited
      BY <2>2 DEF importVars, vars
    <3>2. Whole' = Whole /\ Done' = Done
      BY <3>1 DEF Whole, Done
    <3> QED
      BY <3>1, <3>2 DEF ReplayedLedger, Replaying, JustImported, Idle, Funded
  <2>3. CASE ReplayStep
    <3>1. \A tx \in replay.todo : Replaying
      BY <2>1, AfterRedebitTypes
    <3>2. CASE \E tx \in replay.todo : ReplayTx(tx)
      BY <3>2, LedgerPays
    <3>3. CASE ReplayBlock
      BY <2>1, <3>3, LedgerMines
    <3>4. CASE Replaying /\ Abandon
      BY <3>4, LedgerAbandoned
    <3> QED
      BY <2>3, <3>1, <3>2, <3>3, <3>4
      DEF ReplayStep, ReplayDebitPanic, ReplayCreditPanic, ReplayMismatch, ReplayMinerPanic,
          ReplayEmissionPanic, BlockReplayed
  <2>4. CASE OwnStep
    BY <2>1, <2>4, LedgerOwn
  <2>5. CASE \E new \in Offers : StartImport(new)
    BY <2>1, <2>5, LedgerStarts
  <2> QED
    BY <2>2, <2>3, <2>4, <2>5 DEF ImportNext, RejectImport
<1>3. ImportSpec => []ReplayInv
  BY ReplayInvAlways
<1> QED
  BY <1>1, <1>2, <1>3, PTL DEF ImportSpec

=============================================================================
