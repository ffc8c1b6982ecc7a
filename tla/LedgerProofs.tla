---------------------------- MODULE LedgerProofs ----------------------------
(***************************************************************************)
(* Theorems about Ledger, for every value of its constants: any set of     *)
(* addresses and transactions, any even modulus, any reward schedule that  *)
(* does not grow, both builds.                                             *)
(***************************************************************************)
EXTENDS LedgerProperties, FiniteSetTheorems, TLAPS

-----------------------------------------------------------------------------
(* Arithmetic of fees and of the reward *)

\* fee::decompose: the two halves of an accepted fee add up to it, and neither
\* exceeds it (INV-FEE-01: fee_ct + fee_it = f, an odd fee included).
THEOREM FeeSplitExact ==
    ASSUME NEW selector, NEW fee \in Nat
    PROVE  /\ FeeSplit(selector, fee) \in [Token -> Nat]
           /\ FeeSplit(selector, fee)["ct"] + FeeSplit(selector, fee)["it"] = fee
           /\ \A t \in Token : FeeSplit(selector, fee)[t] <= fee
<1>1. CASE selector = 0
  BY <1>1 DEF FeeSplit, Token
<1>2. CASE selector = 1
  BY <1>2 DEF FeeSplit, Token
<1>3. CASE selector # 0 /\ selector # 1
  <2>1. FeeSplit(selector, fee) =
          [t \in Token |-> IF t = "ct" THEN (fee + 1) \div 2 ELSE fee \div 2]
    BY <1>3 DEF FeeSplit
  <2>2. /\ (fee + 1) \div 2 \in Nat /\ fee \div 2 \in Nat
        /\ (fee + 1) \div 2 + fee \div 2 = fee
    OBVIOUS
  <2> QED
    BY <2>1, <2>2 DEF Token
<1> QED
  BY <1>1, <1>2, <1>3

\* The reward never grows: floor(r * NUM / DEN) <= r when NUM <= DEN.
LEMMA DecayShrinks ==
    ASSUME NEW r \in [Token -> Nat]
    PROVE  /\ Decay(r) \in [Token -> Nat]
           /\ \A t \in Token : Decay(r)[t] <= r[t]
<1>1. ASSUME NEW x \in Nat
      PROVE  /\ (x * DECAY_NUM) \div DECAY_DEN \in Nat
             /\ (x * DECAY_NUM) \div DECAY_DEN <= x
  <2> DEFINE q == (x * DECAY_NUM) \div DECAY_DEN
  <2>1. x * DECAY_NUM \in Nat /\ x * DECAY_NUM <= x * DECAY_DEN
    BY DecayAssumption
  <2>2. q \in Nat /\ q * DECAY_DEN <= x * DECAY_NUM
    BY <2>1, DecayAssumption
  <2>3. q * DECAY_DEN <= x * DECAY_DEN
    BY <2>1, <2>2, DecayAssumption
  <2>4. q <= x
    BY <2>2, <2>3, DecayAssumption
  <2> QED
    BY <2>2, <2>4
<1> QED
  BY <1>1 DEF Decay

-----------------------------------------------------------------------------
(* Types, and the supply cap *)

\* What EmissionWithinCap needs to be inductive: emission + reward does not wrap
\* where it is compared with the cap.
RewardBounded == \A t \in Token : block_reward[t] <= INITIAL_REWARD[t]

TypeInv == TypeOK /\ EmissionWithinCap /\ RewardBounded

LEMMA PairTypes ==
    /\ Zero \in Pair
    /\ EmptyAccount \in Account
    /\ \A p \in Pair, q \in Pair : PlusMod(p, q) \in Pair /\ Minus(p, q) \in Pair
    /\ \A p \in Pair, q \in Pair : Partial(p, q) \in Pair
    /\ \A tx \in TxSpace : Debit(tx) \in Pair /\ tx.amount \in Pair
<1>1. 0 \in Word /\ \A x \in Int : x % U64 \in Word
  BY U64Assumption DEF Word
<1>2. Zero \in Pair
  BY <1>1 DEF Zero, Pair
<1>3. EmptyAccount \in Account
  BY <1>1, <1>2 DEF EmptyAccount, Account
<1>4. ASSUME NEW p \in Pair, NEW q \in Pair
      PROVE  /\ PlusMod(p, q) \in Pair
             /\ Minus(p, q) \in Pair
             /\ Partial(p, q) \in Pair
  <2>1. \A t \in Token : p[t] \in Word /\ q[t] \in Word
    BY DEF Pair
  <2>2. PlusMod(p, q) \in Pair
    BY <1>1, <2>1 DEF PlusMod, Pair, Word
  <2>3. Minus(p, q) \in Pair
    BY <2>1, U64Assumption DEF Minus, Pair, Word, SatSub
  <2>4. Partial(p, q) \in Pair
    BY <2>1, U64Assumption DEF Partial, Pair, Word
  <2> QED
    BY <2>2, <2>3, <2>4
<1>5. ASSUME NEW tx \in TxSpace
      PROVE  Debit(tx) \in Pair /\ tx.amount \in Pair
  <2>1. tx.amount \in Pair /\ tx.fee \in Nat
    BY InputAssumption DEF Tx, Word
  <2>2. \A t \in Token : Cost(tx)[t] \in Int
    BY <2>1, FeeSplitExact DEF Cost, Pair, Word
  <2> QED
    BY <1>1, <2>1, <2>2 DEF Debit, Pair
<1> QED
  BY <1>2, <1>3, <1>4, <1>5

\* The sender's half of an account update keeps the account well-typed.
LEMMA AccountTypes ==
    ASSUME NEW acct \in Account, NEW tx \in TxSpace
    PROVE  /\ Reserve(acct, tx) \in Account
           /\ Release(acct, tx) \in Account
           /\ Settle(acct, tx) \in Account
<1>1. Debit(tx) \in Pair /\ tx.nonce \in Word
  BY PairTypes, InputAssumption DEF Tx
<1>2. /\ Minus(acct.pending, Debit(tx)) \in Pair
      /\ Minus(acct.balance, Debit(tx)) \in Pair
      /\ PlusMod(acct.pending, Debit(tx)) \in Pair
      /\ SatSub(acct.pending_nonce, 1) \in Nat
      /\ acct.pending_nonce + 1 \in Nat
  BY <1>1, PairTypes DEF Account, SatSub
<1>3. Release(acct, tx) \in Account
  BY <1>2 DEF Release, Account
<1>4. Settle(acct, tx) = [Release(acct, tx) EXCEPT
                            !.balance = Minus(acct.balance, Debit(tx)), !.nonce = tx.nonce]
  BY DEF Settle, Release, Account
<1>5. Settle(acct, tx) \in Account
  BY <1>1, <1>2, <1>3, <1>4 DEF Account
<1>6. Reserve(acct, tx) \in Account
  BY <1>2 DEF Reserve, Account
<1> QED
  BY <1>3, <1>5, <1>6

\* The reward that mine_block pays fits under the cap.
\* A sum or a difference that is a u64 is not changed by the wrap-around.
LEMMA NoWrap ==
    ASSUME NEW x \in Word
    PROVE  x % U64 = x
BY U64Assumption DEF Word

\* The cut may wrap once an import has carried the emission over the cap.
LEMMA RewardTypes ==
    ASSUME TypeOK
    PROVE  Decay(block_reward) \in Pair /\ NextReward \in Pair
<1>1. block_reward \in [Token -> Nat] /\ \A t \in Token : block_reward[t] < U64
  BY U64Assumption DEF TypeOK, Pair, Word
<1>2. Decay(block_reward) \in Pair
  BY <1>1, DecayShrinks, U64Assumption DEF Pair, Word
<1>3. \A t \in Token : (MAX_SUPPLY[t] - emission[t]) % U64 \in Word
  BY SupplyAssumption, U64Assumption DEF TypeOK, Pair, Word
<1> QED
  BY <1>2, <1>3 DEF NextReward, Pair

LEMMA NextRewardFits ==
    ASSUME TypeInv, Idle
    PROVE  /\ Decay(block_reward) \in Pair
           /\ NextReward \in Pair
           /\ \A t \in Token : /\ Decay(block_reward)[t] <= INITIAL_REWARD[t]
                              /\ emission[t] + NextReward[t] <= MAX_SUPPLY[t]
<1>1. block_reward \in [Token -> Nat]
  BY DEF TypeInv, TypeOK, Pair, Word
<1>2. /\ Decay(block_reward) \in [Token -> Nat]
      /\ \A t \in Token : Decay(block_reward)[t] <= block_reward[t]
  BY <1>1, DecayShrinks
<1>3. \A t \in Token : /\ emission[t] \in Nat /\ MAX_SUPPLY[t] \in Word
                       /\ emission[t] <= MAX_SUPPLY[t]
                       /\ block_reward[t] \in Word
                       /\ block_reward[t] <= INITIAL_REWARD[t]
  <2>1. call.reward = Zero
    BY DEF TypeInv, TypeOK, NoCall
  <2> QED
    BY <2>1, SupplyAssumption
    DEF TypeInv, TypeOK, EmissionWithinCap, RewardBounded, Pair, Word, Zero
<1>4. Decay(block_reward) \in Pair
  BY <1>2, <1>3, U64Assumption DEF Pair, Word
<1>5. ASSUME NEW t \in Token
      PROVE  /\ NextReward[t] \in Word
             /\ emission[t] + NextReward[t] <= MAX_SUPPLY[t]
  <2>1. /\ Decay(block_reward)[t] \in Word
        /\ Decay(block_reward)[t] <= INITIAL_REWARD[t]
        /\ INITIAL_REWARD[t] \in Word
    BY <1>2, <1>3, <1>4, SupplyAssumption DEF Pair, Word
  <2>2. emission[t] + Decay(block_reward)[t] \in Word
    BY <1>3, <2>1, SupplyAssumption, U64Assumption DEF Word
  <2>3. MAX_SUPPLY[t] - emission[t] \in Word
    BY <1>3, U64Assumption DEF Word
  <2>4. NextReward[t] = IF emission[t] + Decay(block_reward)[t] > MAX_SUPPLY[t]
                        THEN MAX_SUPPLY[t] - emission[t]
                        ELSE Decay(block_reward)[t]
    BY <2>2, <2>3, NoWrap DEF NextReward
  <2> QED
    BY <1>3, <2>1, <2>3, <2>4 DEF Word
<1>6. NextReward \in Pair
  BY <1>5 DEF NextReward, Pair
<1>7. INITIAL_REWARD \in [Token -> Nat]
  BY SupplyAssumption DEF Pair, Word
<1> QED
  BY <1>1, <1>2, <1>3, <1>4, <1>5, <1>6, <1>7

LEMMA TypeInvInit == Init => TypeInv
<1> SUFFICES ASSUME Init PROVE TypeInv
  OBVIOUS
<1>1. TypeOK
  BY PairTypes, SupplyAssumption
  DEF Init, TypeOK, NoCall, Idle, Block, Zero
<1>2. EmissionWithinCap /\ RewardBounded
  BY SupplyAssumption
  DEF Init, EmissionWithinCap, RewardBounded, NoCall, Zero, Pair, Word
<1> QED
  BY <1>1, <1>2 DEF TypeInv

\* The calls that run alone.
LEMMA TypeCalls ==
    ASSUME TypeOK, Idle
    PROVE  /\ \A a \in Addr, start \in Deposits : AddAccount(a, start) => TypeOK'
           /\ GenesisBlock => TypeOK'
           /\ \A tx \in TxSpace : SubmitTransaction(tx) => TypeOK'
           /\ \A tx \in mempool : DropTransaction(tx) => TypeOK'
<1>1. ASSUME NEW a \in Addr, NEW start \in Deposits, AddAccount(a, start)
      PROVE  TypeOK'
  <2>1. start \in Pair
    BY InputAssumption
  <2>2. [EmptyAccount EXCEPT !.balance = start] \in Account
    BY <2>1, PairTypes DEF EmptyAccount, Account
  <2>3. Plus(deposited, start) \in [Token -> Nat]
    BY <2>1 DEF Plus, TypeOK, Pair, Word
  <2> QED
    BY <1>1, <2>2, <2>3 DEF AddAccount, TypeOK, Idle
<1>2. ASSUME GenesisBlock
      PROVE  TypeOK'
  <2>1. Genesis \in Block
    BY PairTypes DEF Genesis, Block
  <2>2. chain' \in Seq(Block)
    BY <1>2, <2>1 DEF GenesisBlock, TypeOK
  <2> QED
    BY <1>2, <2>2 DEF GenesisBlock, TypeOK, Idle
<1>3. ASSUME NEW tx \in TxSpace, SubmitTransaction(tx)
      PROVE  TypeOK'
  <2>1. tx.from \in known /\ tx.from \in Addr
    BY <1>3 DEF SubmitTransaction, Admissible, TypeOK
  <2>2. Reserve(accounts[tx.from], tx) \in Account
    BY <2>1, AccountTypes DEF TypeOK
  <2>3. accounts' \in [Addr -> Account]
        /\ \A a \in Addr \ known : accounts'[a] = EmptyAccount
    BY <1>3, <2>1, <2>2 DEF SubmitTransaction, TypeOK
  <2> QED
    BY <1>3, <2>3 DEF SubmitTransaction, TypeOK, Idle
<1>4. ASSUME NEW tx \in mempool, DropTransaction(tx)
      PROVE  TypeOK'
  <2>1. tx \in TxSpace
    BY DEF TypeOK
  <2>2. \A a \in Addr : Release(accounts[a], tx) \in Account
    BY <2>1, AccountTypes DEF TypeOK
  <2>3. accounts' \in [Addr -> Account]
        /\ \A a \in Addr \ known : accounts'[a] = EmptyAccount
    BY <1>4, <2>2 DEF DropTransaction, TypeOK
  <2> QED
    BY <1>4, <2>3 DEF DropTransaction, TypeOK, Idle
<1> QED
  BY <1>1, <1>2, <1>3, <1>4

\* mine_block up to the push.
LEMMA TypeMine ==
    ASSUME TypeOK, Idle
    PROVE  /\ \A m \in Miners : MineBlock(m) => TypeOK'
           /\ MineFeeOverflow => TypeOK'
<1>1. Decay(block_reward) \in Pair /\ NextReward \in Pair
  BY RewardTypes
<1>2. ASSUME NEW m \in Miners, MineBlock(m)
      PROVE  TypeOK'
  <2>1. m \in Addr /\ m # NoMiner
    BY InputAssumption, AddrAssumption
  <2>2. FeeTotal(mempool) \in Pair /\ Plus(NextReward, FeeTotal(mempool)) \in Pair
    BY <1>1, <1>2, U64Assumption DEF MineBlock, CoinbaseFits, Plus, Pair, Word
  <2>3. chain' \in Seq(Block)
    BY <1>2, <2>1, <2>2 DEF MineBlock, TypeOK, Block
  <2> QED
    BY <1>1, <1>2, <2>1, <2>2, <2>3 DEF MineBlock, TypeOK, Idle
<1>3. ASSUME MineFeeOverflow
      PROVE  TypeOK'
  BY <1>1, <1>3 DEF MineFeeOverflow, TypeOK, Idle
<1> QED
  BY <1>2, <1>3

\* The accounts after the sender's half of a transaction of the block.
LEMMA AfterDebitTypes ==
    ASSUME TypeOK, NEW tx \in call.todo
    PROVE  /\ tx \in TxSpace
           /\ tx.from \in Addr /\ tx.to \in Addr /\ tx.nonce \in Word
           /\ AfterDebit(tx) \in [Addr -> Account]
           /\ \A a \in Addr : a # tx.from => AfterDebit(tx)[a] = accounts[a]
           /\ \A a \in Addr \ known : AfterDebit(tx)[a] = EmptyAccount
           /\ ~Idle
<1>1. tx \in TxSpace /\ ~Idle
  BY DEF TypeOK, NoCall
<1>2. tx.from \in Addr /\ tx.to \in Addr /\ tx.nonce \in Word
  BY <1>1, InputAssumption DEF Tx
<1>3. Settle(accounts[tx.from], tx) \in Account
  BY <1>1, <1>2, AccountTypes DEF TypeOK
<1> QED
  BY <1>1, <1>2, <1>3 DEF AfterDebit, Pays, TypeOK

\* mine_block after the push.
LEMMA TypeApply ==
    ASSUME TypeOK
    PROVE  /\ \A tx \in call.todo : ApplyTx(tx) => TypeOK'
           /\ \A tx \in call.todo : ApplyTxPanic(tx) => TypeOK'
           /\ CreditMiner => TypeOK'
           /\ CreditMinerPanic => TypeOK'
<1>1. ASSUME NEW tx \in call.todo, NEW bal \in Pair,
             accounts' = [AfterDebit(tx) EXCEPT ![tx.to].balance = bal],
             known' = known \cup {tx.to}
      PROVE  /\ accounts' \in [Addr -> Account]
             /\ known' \subseteq Addr
             /\ \A a \in Addr \ known' : accounts'[a] = EmptyAccount
  <2>1. [AfterDebit(tx)[tx.to] EXCEPT !.balance = bal] \in Account
    BY AfterDebitTypes DEF Account
  <2> QED
    BY <1>1, <2>1, AfterDebitTypes DEF TypeOK
<1>2. ASSUME NEW tx \in call.todo, ApplyTx(tx)
      PROVE  TypeOK'
  <2>1. PlusMod(AfterDebit(tx)[tx.to].balance, tx.amount) \in Pair
    BY AfterDebitTypes, PairTypes DEF Account
  <2>2. accounts' = [AfterDebit(tx) EXCEPT
                       ![tx.to].balance = PlusMod(AfterDebit(tx)[tx.to].balance, tx.amount)]
    BY <1>2 DEF ApplyTx
  <2>3. /\ accounts' \in [Addr -> Account]
        /\ known' \subseteq Addr
        /\ \A a \in Addr \ known' : accounts'[a] = EmptyAccount
    BY <1>1, <1>2, <2>1, <2>2 DEF ApplyTx
  <2>4. /\ call' \in [miner: Addr \cup {NoMiner}, reward: Pair, coinbase: Pair,
                      todo: SUBSET TxSpace]
        /\ call'.miner = call.miner
    BY <1>2 DEF ApplyTx, TypeOK
  <2> QED
    BY <1>2, <2>3, <2>4, AfterDebitTypes DEF ApplyTx, TypeOK, Idle
<1>3. NoCall \in [miner: Addr \cup {NoMiner}, reward: Pair, coinbase: Pair,
                 todo: SUBSET TxSpace]
  BY PairTypes DEF NoCall
<1>4. ASSUME NEW tx \in call.todo, ApplyTxPanic(tx)
      PROVE  TypeOK'
  <2>1. Partial(AfterDebit(tx)[tx.to].balance, tx.amount) \in Pair
    BY AfterDebitTypes, PairTypes DEF Account
  <2>2. accounts' = [AfterDebit(tx) EXCEPT
                       ![tx.to].balance = Partial(AfterDebit(tx)[tx.to].balance, tx.amount)]
    BY <1>4 DEF ApplyTxPanic
  <2>3. /\ accounts' \in [Addr -> Account]
        /\ known' \subseteq Addr
        /\ \A a \in Addr \ known' : accounts'[a] = EmptyAccount
    BY <1>1, <1>4, <2>1, <2>2 DEF ApplyTxPanic
  <2> QED
    BY <1>3, <1>4, <2>3 DEF ApplyTxPanic, TypeOK, Idle, NoCall
<1>5. ASSUME ~Idle, NEW bal \in Pair,
             accounts' = [accounts EXCEPT ![call.miner].balance = bal],
             known' = known \cup {call.miner}
      PROVE  /\ accounts' \in [Addr -> Account]
             /\ known' \subseteq Addr
             /\ \A a \in Addr \ known' : accounts'[a] = EmptyAccount
  <2>1. call.miner \in Addr
    BY <1>5 DEF TypeOK, Idle
  <2>2. [accounts[call.miner] EXCEPT !.balance = bal] \in Account
    BY <2>1 DEF TypeOK, Account
  <2> QED
    BY <1>5, <2>1, <2>2 DEF TypeOK
<1>6. ASSUME ~Idle
      PROVE  call.miner \in Addr /\ accounts[call.miner].balance \in Pair
  BY <1>6 DEF TypeOK, Idle, Account
<1>7. ASSUME CreditMiner
      PROVE  TypeOK'
  <2>1. Plus(accounts[call.miner].balance, call.coinbase) \in Pair
    BY <1>6, <1>7, U64Assumption DEF CreditMiner, MinerFits, Plus, TypeOK, Pair, Word
  <2>2. /\ accounts' \in [Addr -> Account]
        /\ known' \subseteq Addr
        /\ \A a \in Addr \ known' : accounts'[a] = EmptyAccount
    BY <1>5, <1>7, <2>1 DEF CreditMiner
  <2>3. PlusMod(emission, call.reward) \in Pair
    BY PairTypes DEF TypeOK
  <2> QED
    BY <1>3, <1>7, <2>2, <2>3 DEF CreditMiner, TypeOK, Idle, NoCall
<1>8. ASSUME CreditMinerPanic
       PROVE  TypeOK'
  <2>1. Partial(accounts[call.miner].balance, call.coinbase) \in Pair
    BY <1>6, <1>8, PairTypes DEF CreditMinerPanic, TypeOK
  <2>2. /\ accounts' \in [Addr -> Account]
        /\ known' \subseteq Addr
        /\ \A a \in Addr \ known' : accounts'[a] = EmptyAccount
    BY <1>5, <1>8, <2>1 DEF CreditMinerPanic
  <2> QED
    BY <1>3, <1>8, <2>2 DEF CreditMinerPanic, TypeOK, Idle, NoCall
<1> QED
  BY <1>2, <1>4, <1>7, <1>8

\* One step of the node keeps the types.
LEMMA TypeStep == TypeOK /\ [Next]_vars => TypeOK'
<1> SUFFICES ASSUME TypeOK, [Next]_vars PROVE TypeOK'
  OBVIOUS
<1>1. ASSUME NEW a \in Addr, NEW start \in Deposits, AddAccount(a, start)
      PROVE  TypeOK'
  BY <1>1, TypeCalls DEF AddAccount
<1>2. CASE GenesisBlock
  BY <1>2, TypeCalls DEF GenesisBlock
<1>3. ASSUME NEW tx \in TxSpace, SubmitTransaction(tx)
      PROVE  TypeOK'
  BY <1>3, TypeCalls DEF SubmitTransaction
<1>4. ASSUME NEW tx \in TxSpace, RejectTransaction(tx)
      PROVE  TypeOK'
  BY <1>4 DEF RejectTransaction, vars, TypeOK, Idle
<1>5. ASSUME NEW tx \in mempool, DropTransaction(tx)
      PROVE  TypeOK'
  BY <1>5, TypeCalls DEF DropTransaction
<1>6. ASSUME NEW m \in Miners, MineBlock(m)
      PROVE  TypeOK'
  BY <1>6, TypeMine DEF MineBlock
<1>7. CASE MineFeeOverflow
  BY <1>7, TypeMine DEF MineFeeOverflow
<1>8. ASSUME NEW tx \in call.todo, ApplyTx(tx) \/ ApplyTxPanic(tx)
      PROVE  TypeOK'
  BY <1>8, TypeApply
<1>9. CASE CreditMiner \/ CreditMinerPanic
  BY <1>9, TypeApply
<1>10. CASE UNCHANGED vars
  BY <1>10 DEF vars, TypeOK, Idle
<1> QED
  BY <1>1, <1>2, <1>3, <1>4, <1>5, <1>6, <1>7, <1>8, <1>9, <1>10 DEF Next, UnsavedStep

\* Every amount of the ledger is a u64 in every reachable state, in both builds.
THEOREM TypeCorrect == Spec => []TypeOK
<1>1. Init => TypeOK
  BY TypeInvInit DEF TypeInv
<1> QED
  BY <1>1, TypeStep, PTL DEF Spec

-----------------------------------------------------------------------------
(* The supply cap *)

\* The reward of a block is fixed when it is pushed, and added to the emission
\* when the miner is credited; both only if the sum fits under the cap.
LEMMA CapStep ==
    ASSUME TypeInv, Next
    PROVE  EmissionWithinCap' /\ RewardBounded'
<1>1. \A t \in Token : /\ emission[t] \in Nat /\ call.reward[t] \in Nat
                       /\ MAX_SUPPLY[t] \in Nat /\ MAX_SUPPLY[t] < U64
                       /\ emission[t] + call.reward[t] <= MAX_SUPPLY[t]
  BY SupplyAssumption, U64Assumption DEF TypeInv, TypeOK, EmissionWithinCap, Pair, Word
<1>2. ASSUME emission' = emission, block_reward' = block_reward,
             call'.reward = call.reward \/ call' = NoCall
      PROVE  EmissionWithinCap' /\ RewardBounded'
  BY <1>1, <1>2 DEF TypeInv, EmissionWithinCap, RewardBounded, NoCall, Zero
<1>3. ASSUME NEW m \in Miners, MineBlock(m)
      PROVE  EmissionWithinCap' /\ RewardBounded'
  BY <1>3, NextRewardFits DEF MineBlock, EmissionWithinCap, RewardBounded
<1>4. CASE MineFeeOverflow
  BY <1>4, NextRewardFits DEF MineFeeOverflow, TypeInv, EmissionWithinCap, RewardBounded
<1>5. CASE CreditMiner
  <2>1. Plus(emission, call.reward) \in Pair
    BY <1>1, U64Assumption DEF Plus, Pair, Word
  <2>2. PlusMod(emission, call.reward) = Plus(emission, call.reward)
    BY <2>1, NoWrap DEF Plus, PlusMod, Pair
  <2> QED
    BY <1>1, <1>5, <2>2
    DEF CreditMiner, TypeInv, EmissionWithinCap, RewardBounded, NoCall, Zero, Plus
<1>6. ASSUME NEW tx \in call.todo, ApplyTx(tx)
      PROVE  call'.reward = call.reward
  BY <1>6 DEF ApplyTx, TypeInv, TypeOK
<1> QED
  BY <1>2, <1>3, <1>4, <1>5, <1>6
  DEF Next, UnsavedStep, AddAccount, GenesisBlock, SubmitTransaction, RejectTransaction,
      DropTransaction, ApplyTx, ApplyTxPanic, CreditMinerPanic, vars

LEMMA TypeInvStep == TypeInv /\ [Next]_vars => TypeInv'
<1>1. TypeInv /\ Next => TypeInv'
  BY TypeStep, CapStep DEF TypeInv
<1>2. TypeInv /\ UNCHANGED vars => TypeInv'
  BY TypeStep DEF TypeInv, vars, EmissionWithinCap, RewardBounded
<1> QED
  BY <1>1, <1>2

\* INV-FEE-02 and the caps of the emission: no sequence of mine_block calls,
\* failed or unwound ones included, emits more than MAX_SUPPLY of a token.
THEOREM SupplyCapped == Spec => []EmissionWithinCap
<1>1. TypeInv => EmissionWithinCap
  BY DEF TypeInv
<1> QED
  BY TypeInvInit, TypeInvStep, <1>1, PTL DEF Spec

-----------------------------------------------------------------------------
(* Nonces *)

\* What each call does to the nonce and the pending count of an account.
LEMMA AfterDebitFields ==
    ASSUME TypeOK, NEW tx \in call.todo, NEW a \in Addr
    PROVE  /\ AfterDebit(tx)[a].nonce =
                 IF Pays(tx) /\ a = tx.from THEN tx.nonce ELSE accounts[a].nonce
           /\ AfterDebit(tx)[a].pending_nonce =
                 IF Pays(tx) /\ a = tx.from THEN SatSub(accounts[a].pending_nonce, 1)
                                            ELSE accounts[a].pending_nonce
<1>1. accounts[a] \in Account /\ tx.from \in Addr
  BY AfterDebitTypes DEF TypeOK
<1>2. /\ Settle(accounts[a], tx).nonce = tx.nonce
      /\ Settle(accounts[a], tx).pending_nonce = SatSub(accounts[a].pending_nonce, 1)
  BY <1>1 DEF Settle, Release, Account
<1>3. CASE Pays(tx) /\ a = tx.from
  BY <1>1, <1>2, <1>3 DEF AfterDebit, TypeOK
<1>4. CASE ~(Pays(tx) /\ a = tx.from)
  BY <1>1, <1>4 DEF AfterDebit, TypeOK
<1> QED
  BY <1>3, <1>4

LEMMA ApplyFields ==
    ASSUME TypeOK, NEW tx \in call.todo, ApplyTx(tx) \/ ApplyTxPanic(tx), NEW a \in Addr
    PROVE  /\ accounts'[a].nonce =
                 IF Pays(tx) /\ a = tx.from THEN tx.nonce ELSE accounts[a].nonce
           /\ accounts'[a].pending_nonce =
                 IF Pays(tx) /\ a = tx.from THEN SatSub(accounts[a].pending_nonce, 1)
                                            ELSE accounts[a].pending_nonce
<1>1. AfterDebit(tx) \in [Addr -> Account] /\ tx.to \in Addr
  BY AfterDebitTypes
<1>2. \E bal : accounts' = [AfterDebit(tx) EXCEPT ![tx.to].balance = bal]
  BY DEF ApplyTx, ApplyTxPanic
<1>3. /\ accounts'[a].nonce = AfterDebit(tx)[a].nonce
      /\ accounts'[a].pending_nonce = AfterDebit(tx)[a].pending_nonce
  BY <1>1, <1>2 DEF Account
<1> QED
  BY <1>3, AfterDebitFields

\* Crediting the miner touches neither.
LEMMA CreditFields ==
    ASSUME TypeOK, CreditMiner \/ CreditMinerPanic, NEW a \in Addr
    PROVE  /\ accounts'[a].nonce = accounts[a].nonce
           /\ accounts'[a].pending_nonce = accounts[a].pending_nonce
<1>1. call.miner \in Addr
  BY DEF CreditMiner, CreditMinerPanic, TypeOK, Idle
<1>2. \E bal : accounts' = [accounts EXCEPT ![call.miner].balance = bal]
  BY DEF CreditMiner, CreditMinerPanic
<1> QED
  BY <1>1, <1>2 DEF TypeOK, Account

\* Nor do submissions and drops touch nonces, or balances.
LEMMA MempoolFields ==
    ASSUME TypeOK, NEW tx \in TxSpace,
           SubmitTransaction(tx) \/ (tx \in mempool /\ DropTransaction(tx)), NEW a \in Addr
    PROVE  /\ accounts'[a].nonce = accounts[a].nonce
           /\ accounts'[a].balance = accounts[a].balance
<1>1. accounts[a] \in Account
  BY DEF TypeOK
<1>2. /\ Reserve(accounts[a], tx).nonce = accounts[a].nonce
      /\ Release(accounts[a], tx).nonce = accounts[a].nonce
      /\ Reserve(accounts[a], tx).balance = accounts[a].balance
      /\ Release(accounts[a], tx).balance = accounts[a].balance
  BY <1>1 DEF Reserve, Release, Account
<1>3. \/ accounts' = accounts
      \/ accounts' = [accounts EXCEPT ![tx.from] = Reserve(@, tx)]
      \/ accounts' = [accounts EXCEPT ![tx.from] = Release(@, tx)]
  BY DEF SubmitTransaction, DropTransaction
<1> QED
  BY <1>2, <1>3 DEF TypeOK

LEMMA NonceLockStep ==
    ASSUME TypeInv, NonceLock, Next
    PROVE  /\ NonceLock'
           /\ \A a \in Addr : accounts'[a].nonce >= accounts[a].nonce
<1>. USE DEF TypeInv
<1>0. /\ \A a \in Addr : accounts[a].nonce \in Nat /\ accounts[a].pending_nonce \in Nat
      /\ \A tx \in TxSpace : tx.nonce \in Nat /\ tx.from \in Addr
      /\ Live \subseteq TxSpace /\ known \subseteq Addr
  BY InputAssumption, U64Assumption DEF TypeOK, Account, Word, Tx, Live
<1>1. ASSUME NEW a \in Addr, NEW start \in Deposits, AddAccount(a, start)
      PROVE  NonceLock' /\ \A b \in Addr : accounts'[b].nonce = accounts[b].nonce
  <2>1. accounts[a] = EmptyAccount
    BY <1>1 DEF AddAccount, TypeOK
  <2>2. \A b \in Addr : accounts'[b].nonce = accounts[b].nonce
    BY <1>1, <2>1 DEF AddAccount, TypeOK, EmptyAccount
  <2>3. Live' = Live /\ known \subseteq known'
    BY <1>1 DEF AddAccount, Live
  <2> QED
    BY <1>0, <2>2, <2>3 DEF NonceLock
<1>2. ASSUME GenesisBlock \/ MineFeeOverflow
             \/ (\E tx \in TxSpace : RejectTransaction(tx)) \/ (\E m \in Miners : MineBlock(m))
      PROVE  NonceLock' /\ accounts' = accounts
  <2>1. Live' = Live
    <3>1. CASE \E m \in Miners : MineBlock(m)
      <4>1. call.todo = {}
        BY <3>1 DEF MineBlock, TypeOK, NoCall
      <4>2. mempool' = {} /\ call'.todo = mempool
        BY <3>1 DEF MineBlock
      <4> QED
        BY <4>1, <4>2 DEF Live
    <3> QED
      BY <1>2, <3>1 DEF GenesisBlock, MineFeeOverflow, RejectTransaction, Live, vars
  <2>2. accounts' = accounts /\ known' = known
    BY <1>2 DEF GenesisBlock, MineFeeOverflow, RejectTransaction, MineBlock, vars
  <2> QED
    BY <2>1, <2>2 DEF NonceLock
<1>3. ASSUME NEW tx \in TxSpace, SubmitTransaction(tx)
      PROVE  NonceLock' /\ \A b \in Addr : accounts'[b].nonce = accounts[b].nonce
  <2>1. \A b \in Addr : accounts'[b].nonce = accounts[b].nonce
    BY <1>3, MempoolFields
  <2>2. Live' = Live \cup {tx} /\ Live = mempool /\ known' = known
    BY <1>3 DEF SubmitTransaction, Live, TypeOK, NoCall
  <2>3. /\ tx.from \in known
        /\ tx.nonce > accounts[tx.from].nonce
        /\ \A q \in Live : ~(q.from = tx.from /\ q.nonce = tx.nonce)
    BY <1>0, <1>3, <2>2 DEF SubmitTransaction, Admissible, DuplicateKey
  <2> QED
    BY <1>0, <2>1, <2>2, <2>3 DEF NonceLock
<1>4. ASSUME NEW tx \in mempool, DropTransaction(tx)
      PROVE  NonceLock' /\ \A b \in Addr : accounts'[b].nonce = accounts[b].nonce
  <2>1. \A b \in Addr : accounts'[b].nonce = accounts[b].nonce
    BY <1>4, MempoolFields DEF TypeOK
  <2>2. Live' \subseteq Live /\ known' = known
    BY <1>4 DEF DropTransaction, Live
  <2> QED
    BY <1>0, <2>1, <2>2 DEF NonceLock
<1>5. ASSUME NEW tx \in call.todo, ApplyTx(tx) \/ ApplyTxPanic(tx)
      PROVE  NonceLock' /\ \A b \in Addr : accounts'[b].nonce >= accounts[b].nonce
  <2>1. \A b \in Addr : accounts'[b].nonce =
                          IF Pays(tx) /\ b = tx.from THEN tx.nonce ELSE accounts[b].nonce
    BY <1>5, ApplyFields
  <2>2. /\ mempool = {} /\ Live = call.todo /\ known \subseteq known'
        /\ Live' \subseteq call.todo \ {tx}
    BY <1>5, AfterDebitTypes DEF ApplyTx, ApplyTxPanic, Live, TypeOK, NoCall
  <2>3. \A q \in call.todo \ {tx} : q.from = tx.from => q.nonce > tx.nonce
    <3>1. NextTx(tx)
      BY <1>5 DEF ApplyTx, ApplyTxPanic
    <3>2. \A q \in call.todo : q.from \in Nat /\ q.nonce \in Nat
      BY <1>0, <2>2, AddrAssumption
    <3> QED
      BY <3>1, <3>2 DEF NextTx, Before
  <2>4. tx.nonce > accounts[tx.from].nonce
    BY <2>2 DEF NonceLock
  <2>5. \A b \in Addr : accounts'[b].nonce >= accounts[b].nonce
    BY <1>0, <2>1, <2>2, <2>4
  <2>6. \A q \in Live' : q.from \in known' /\ q.nonce > accounts'[q.from].nonce
    BY <1>0, <2>1, <2>2, <2>3 DEF NonceLock
  <2> QED
    BY <2>2, <2>5, <2>6 DEF NonceLock
<1>6. ASSUME CreditMiner \/ CreditMinerPanic
      PROVE  NonceLock' /\ \A b \in Addr : accounts'[b].nonce = accounts[b].nonce
  <2>1. \A b \in Addr : accounts'[b].nonce = accounts[b].nonce
    BY <1>6, CreditFields
  <2>2. Live' = {}
    BY <1>6 DEF CreditMiner, CreditMinerPanic, Live, NoCall, TypeOK
  <2> QED
    BY <2>1, <2>2 DEF NonceLock
<1> QED
  BY <1>0, <1>1, <1>2, <1>3, <1>4, <1>5, <1>6 DEF Next, UnsavedStep

\* Every transaction of the chain is settled, or is waiting in the block being
\* applied.  Only a call unwound by a checked build breaks this.
Settled ==
    \A i \in DOMAIN chain : \A x \in chain[i].txs :
        x.from # ZERO_ADDR =>
            \/ x.nonce <= accounts[x.from].nonce
            \/ i = Len(chain) /\ x \in call.todo

CommitInv == TypeInv /\ NonceLock /\ Settled /\ CommittedOnce

LEMMA ChainTypes ==
    ASSUME TypeOK
    PROVE  /\ \A x \in TxSpace : x.from \in Addr /\ x.nonce \in Nat
           /\ \A a \in Addr : accounts[a].nonce \in Nat /\ accounts[a].pending_nonce \in Nat
           /\ \A i \in DOMAIN chain : chain[i].txs \subseteq TxSpace
<1>1. \A x \in TxSpace : x.from \in Addr /\ x.nonce \in Nat
  BY InputAssumption, U64Assumption DEF Tx, Word
<1>2. \A a \in Addr : accounts[a].nonce \in Nat /\ accounts[a].pending_nonce \in Nat
  BY U64Assumption DEF TypeOK, Account, Word
<1>3. \A i \in DOMAIN chain : chain[i] \in Block
  BY DEF TypeOK
<1> QED
  BY <1>1, <1>2, <1>3 DEF Block

\* The steps that leave the chain alone.
LEMMA SettledStep ==
    ASSUME CommitInv, Next, chain' = chain, OverflowChecks = FALSE
    PROVE  Settled'
<1>1. /\ \A a \in Addr : accounts'[a].nonce >= accounts[a].nonce
      /\ \A a \in Addr : accounts'[a].nonce \in Nat /\ accounts[a].nonce \in Nat
  <2>1. TypeInv'
    BY TypeInvStep DEF CommitInv
  <2> QED
    BY <2>1, NonceLockStep DEF CommitInv, TypeInv, TypeOK, Account, Word
<1>2. \A i \in DOMAIN chain : \A x \in chain[i].txs : x.from \in Addr /\ x.nonce \in Nat
  BY ChainTypes DEF CommitInv, TypeInv
<1>3. ASSUME NEW x \in call.todo, x \notin call'.todo, x.from # ZERO_ADDR
      PROVE  x.nonce <= accounts'[x.from].nonce
  <2>1. ~Idle
    BY <1>3 DEF CommitInv, TypeInv, TypeOK, NoCall
  <2>2. ApplyTx(x)
    <3>1. ASSUME NEW tx \in call.todo, ApplyTx(tx)
          PROVE  tx = x
      BY <1>3, <3>1 DEF ApplyTx, CommitInv, TypeInv, TypeOK
    <3>2. \A tx : ~ApplyTxPanic(tx)
      BY DEF ApplyTxPanic, CreditFits, Adds
    <3> QED
      BY <1>3, <2>1, <3>1, <3>2
      DEF Next, UnsavedStep, AddAccount, GenesisBlock, SubmitTransaction, RejectTransaction,
          DropTransaction, MineBlock, MineFeeOverflow, CreditMiner, CreditMinerPanic
  <2>3. Pays(x) /\ x.from \in Addr /\ x.nonce \in Nat
    BY <1>3, InputAssumption, U64Assumption
    DEF Pays, CommitInv, NonceLock, Live, TypeInv, TypeOK, Tx, Word
  <2> QED
    BY <1>1, <2>2, <2>3, ApplyFields DEF CommitInv, TypeInv
<1> QED
  BY <1>1, <1>2, <1>3 DEF Settled, CommitInv

\* The steps that push a block.
LEMMA PushStep ==
    ASSUME CommitInv, NEW b, chain' = Append(chain, b), accounts' = accounts, Idle,
           b.txs \subseteq mempool, b.txs \subseteq call'.todo
    PROVE  Settled' /\ CommittedOnce'
<1>1. /\ chain \in Seq(Block)
      /\ \A a \in Addr : accounts[a].nonce \in Nat
      /\ \A x \in TxSpace : x.from \in Addr /\ x.nonce \in Nat
      /\ mempool \subseteq TxSpace /\ call.todo = {}
      /\ \A i \in DOMAIN chain : chain[i].txs \subseteq TxSpace
  <2>1. TypeOK
    BY DEF CommitInv, TypeInv
  <2>2. chain \in Seq(Block) /\ mempool \subseteq TxSpace /\ call.todo = {}
    BY <2>1 DEF TypeOK, NoCall
  <2> QED
    BY <2>1, <2>2, ChainTypes
<1>2. /\ DOMAIN chain = 1 .. Len(chain)
      /\ DOMAIN chain' = 1 .. (Len(chain) + 1) /\ Len(chain') = Len(chain) + 1
      /\ \A i \in DOMAIN chain : chain'[i] = chain[i]
      /\ chain'[Len(chain) + 1] = b
      /\ Len(chain) \in Nat
  BY <1>1
<1>3. \A i \in DOMAIN chain : \A x \in chain[i].txs :
         x.from # ZERO_ADDR => x.nonce <= accounts[x.from].nonce
  BY <1>1 DEF CommitInv, Settled
<1>4. /\ \A x \in b.txs : x.nonce > accounts[x.from].nonce
      /\ \A x \in b.txs, y \in b.txs : x.from = y.from /\ x # y => x.nonce # y.nonce
  BY DEF CommitInv, NonceLock, Live
<1>5. Settled'
  <2> SUFFICES ASSUME NEW i \in DOMAIN chain', NEW x \in chain'[i].txs, x.from # ZERO_ADDR
               PROVE  \/ x.nonce <= accounts'[x.from].nonce
                      \/ i = Len(chain') /\ x \in call'.todo
    BY DEF Settled
  <2>1. CASE i \in DOMAIN chain
    BY <1>2, <1>3, <2>1
  <2>2. CASE i = Len(chain) + 1
    BY <1>2, <2>2
  <2> QED
    BY <1>2, <2>1, <2>2
<1>6. CommittedOnce'
  <2> SUFFICES ASSUME NEW i \in DOMAIN chain', NEW j \in DOMAIN chain',
                      NEW x \in chain'[i].txs, NEW y \in chain'[j].txs,
                      x.from = y.from, x.from # ZERO_ADDR
               PROVE  /\ i < j => x.nonce < y.nonce
                      /\ (i = j /\ x # y) => x.nonce # y.nonce
    BY DEF CommittedOnce
  <2>1. CASE i \in DOMAIN chain /\ j \in DOMAIN chain
    BY <1>2, <2>1 DEF CommitInv, CommittedOnce
  <2>2. CASE i \in DOMAIN chain /\ j = Len(chain) + 1
    <3>1. x.nonce <= accounts[x.from].nonce /\ y.nonce > accounts[x.from].nonce
      BY <1>2, <1>3, <1>4, <2>2
    <3>2. x.nonce \in Nat /\ y.nonce \in Nat /\ accounts[x.from].nonce \in Nat
      BY <1>1, <1>2, <2>2
    <3> QED
      BY <1>2, <2>2, <3>1, <3>2
  <2>3. CASE i = Len(chain) + 1
    BY <1>2, <1>4, <2>3
  <2> QED
    BY <1>2, <2>1, <2>2, <2>3
<1> QED
  BY <1>5, <1>6

LEMMA CommitInvStep ==
    ASSUME CommitInv, [Next]_vars, OverflowChecks = FALSE
    PROVE  CommitInv'
<1>1. TypeInv'
  BY TypeInvStep DEF CommitInv
<1>2. CASE UNCHANGED vars
  BY <1>1, <1>2 DEF vars, CommitInv, NonceLock, Live, Settled, CommittedOnce
<1>3. CASE Next
  <2>1. NonceLock'
    BY <1>3, NonceLockStep DEF CommitInv
  <2>2. CASE chain' = chain
    <3>1. Settled'
      BY <1>3, <2>2, SettledStep
    <3>2. CommittedOnce'
      BY <2>2 DEF CommitInv, CommittedOnce
    <3> QED
      BY <1>1, <2>1, <3>1, <3>2 DEF CommitInv
  <2>3. CASE GenesisBlock
    <3>1. Settled' /\ CommittedOnce'
      BY <2>3, PushStep DEF GenesisBlock, Genesis
    <3> QED
      BY <1>1, <2>1, <3>1 DEF CommitInv
  <2>4. CASE \E m \in Miners : MineBlock(m)
    <3>1. Settled' /\ CommittedOnce'
      BY <2>4, PushStep DEF MineBlock
    <3> QED
      BY <1>1, <2>1, <3>1 DEF CommitInv
  <2> QED
    BY <1>3, <2>2, <2>3, <2>4
    DEF Next, UnsavedStep, AddAccount, SubmitTransaction, RejectTransaction, vars, DropTransaction,
        MineFeeOverflow, ApplyTx, ApplyTxPanic, CreditMiner, CreditMinerPanic
<1> QED
  BY <1>2, <1>3

\* The (sender, nonce) lock holds in both builds.
THEOREM NonceLocked == Spec => []NonceLock
<1>1. Init => TypeInv /\ NonceLock
  BY TypeInvInit DEF Init, NonceLock, Live, NoCall
<1>2. TypeInv /\ NonceLock /\ [Next]_vars => (TypeInv /\ NonceLock)'
  <2>1. TypeInv /\ [Next]_vars => TypeInv'
    BY TypeInvStep
  <2>2. TypeInv /\ NonceLock /\ Next => NonceLock'
    BY NonceLockStep
  <2>3. NonceLock /\ UNCHANGED vars => NonceLock'
    BY DEF vars, NonceLock, Live
  <2> QED
    BY <2>1, <2>2, <2>3
<1> QED
  BY <1>1, <1>2, PTL DEF Spec

\* No call moves an account's nonce back.
THEOREM NonceNeverBack == Spec => NonceMonotone
<1>1. Init => TypeInv /\ NonceLock
  BY TypeInvInit DEF Init, NonceLock, Live, NoCall
<1>2. TypeInv /\ NonceLock /\ [Next]_vars => (TypeInv /\ NonceLock)'
  <2>1. TypeInv /\ NonceLock /\ Next => NonceLock'
    BY NonceLockStep
  <2>2. NonceLock /\ UNCHANGED vars => NonceLock'
    BY DEF vars, NonceLock, Live
  <2> QED
    BY <2>1, <2>2, TypeInvStep
<1>3. TypeInv /\ NonceLock /\ [Next]_vars
        => [\A a \in Addr : accounts'[a].nonce >= accounts[a].nonce]_vars
  BY NonceLockStep
<1> QED
  BY <1>1, <1>2, <1>3, PTL DEF Spec, NonceMonotone

\* Replay protection in release builds: no nonce of a sender is committed twice
\* and the nonces along the chain increase.
THEOREM NeverCommittedTwice == OverflowChecks = FALSE => (Spec => []CommittedOnce)
<1> SUFFICES ASSUME OverflowChecks = FALSE PROVE Spec => []CommittedOnce
  OBVIOUS
<1>1. Init => CommitInv
  BY TypeInvInit DEF Init, CommitInv, NonceLock, Live, NoCall, Settled, CommittedOnce
<1>2. CommitInv /\ [Next]_vars => CommitInv'
  BY CommitInvStep
<1>3. CommitInv => CommittedOnce
  BY DEF CommitInv
<1> QED
  BY <1>1, <1>2, <1>3, PTL DEF Spec

-----------------------------------------------------------------------------
(* Reservations *)

\* The live transactions of a sender are finitely many, and one that comes or
\* goes changes their number by one.
LEMMA LiveCount ==
    ASSUME TypeOK, NEW a \in Addr
    PROVE  /\ IsFiniteSet(LiveOf(a))
           /\ Cardinality(LiveOf(a)) \in Nat
           /\ \A tx \in LiveOf(a) : /\ Cardinality(LiveOf(a) \ {tx}) = Cardinality(LiveOf(a)) - 1
                                   /\ Cardinality(LiveOf(a)) >= 1
           /\ \A tx : tx \notin LiveOf(a) =>
                  Cardinality(LiveOf(a) \cup {tx}) = Cardinality(LiveOf(a)) + 1
<1>1. LiveOf(a) \subseteq TxSpace
  BY DEF LiveOf, Live, TypeOK
<1>2. IsFiniteSet(LiveOf(a))
  BY <1>1, InputAssumption, FS_Subset
<1>3. Cardinality(LiveOf(a)) \in Nat
  BY <1>2, FS_CardinalityType
<1>4. ASSUME NEW tx \in LiveOf(a)
      PROVE  /\ Cardinality(LiveOf(a) \ {tx}) = Cardinality(LiveOf(a)) - 1
             /\ Cardinality(LiveOf(a)) >= 1
  <2>1. Cardinality(LiveOf(a) \ {tx}) = Cardinality(LiveOf(a)) - 1
    BY <1>2, FS_RemoveElement
  <2>2. LiveOf(a) # {}
    OBVIOUS
  <2>3. Cardinality(LiveOf(a)) # 0
    BY <1>2, <2>2, FS_EmptySet
  <2> QED
    BY <1>3, <2>1, <2>3
<1>5. ASSUME NEW tx, tx \notin LiveOf(a)
      PROVE  Cardinality(LiveOf(a) \cup {tx}) = Cardinality(LiveOf(a)) + 1
  BY <1>2, <1>5, FS_AddElement
<1> QED
  BY <1>2, <1>3, <1>4, <1>5

CountInv == TypeInv /\ NonceLock /\ PendingNonceCounts

\* One step keeps the count, one account at a time, unless it unwinds mine_block.
LEMMA CountStep ==
    ASSUME CountInv, Next, \A tx \in call.todo : ~ApplyTxPanic(tx), NEW a \in Addr \ {ZERO_ADDR}
    PROVE  accounts'[a].pending_nonce = Cardinality(LiveOf(a)')
<1>1. /\ TypeOK /\ NonceLock
      /\ accounts[a].pending_nonce = Cardinality(LiveOf(a))
      /\ accounts[a] \in Account
  BY DEF CountInv, TypeInv, PendingNonceCounts, TypeOK
<1>2. ASSUME LiveOf(a)' = LiveOf(a), accounts'[a].pending_nonce = accounts[a].pending_nonce
      PROVE  accounts'[a].pending_nonce = Cardinality(LiveOf(a)')
  BY <1>1, <1>2
<1>3. ASSUME NEW b \in Addr, NEW start \in Deposits, AddAccount(b, start)
      PROVE  accounts'[a].pending_nonce = Cardinality(LiveOf(a)')
  <2>1. LiveOf(a)' = LiveOf(a)
    BY <1>3 DEF AddAccount, LiveOf, Live
  <2>2. accounts[b] = EmptyAccount
    BY <1>1, <1>3 DEF AddAccount, TypeOK
  <2>3. accounts'[a].pending_nonce = accounts[a].pending_nonce
    BY <1>1, <1>3, <2>2 DEF AddAccount, TypeOK, EmptyAccount
  <2> QED
    BY <1>2, <2>1, <2>3
<1>4. ASSUME GenesisBlock \/ MineFeeOverflow \/ (\E tx \in TxSpace : RejectTransaction(tx))
      PROVE  accounts'[a].pending_nonce = Cardinality(LiveOf(a)')
  BY <1>2, <1>4
  DEF GenesisBlock, MineFeeOverflow, RejectTransaction, vars, LiveOf, Live
<1>5. ASSUME NEW m \in Miners, MineBlock(m)
      PROVE  accounts'[a].pending_nonce = Cardinality(LiveOf(a)')
  <2>1. call.todo = {}
    BY <1>1, <1>5 DEF MineBlock, TypeOK, NoCall
  <2>2. LiveOf(a)' = LiveOf(a)
    BY <1>5, <2>1 DEF MineBlock, LiveOf, Live
  <2> QED
    BY <1>2, <1>5, <2>2 DEF MineBlock
<1>6. ASSUME NEW tx \in TxSpace, SubmitTransaction(tx)
      PROVE  accounts'[a].pending_nonce = Cardinality(LiveOf(a)')
  <2>1. tx.from \in Addr /\ tx \notin Live
    BY <1>1, <1>6, ChainTypes
    DEF SubmitTransaction, Admissible, DuplicateKey, Live, TypeOK, NoCall
  <2>2. Live' = Live \cup {tx}
    BY <1>6 DEF SubmitTransaction, Live
  <2>3. CASE a = tx.from
    <3>1. LiveOf(a)' = LiveOf(a) \cup {tx} /\ tx \notin LiveOf(a)
      BY <2>1, <2>2, <2>3 DEF LiveOf
    <3>2. accounts'[a] = Reserve(accounts[a], tx)
      BY <1>1, <1>6, <2>3 DEF SubmitTransaction, TypeOK
    <3>3. accounts'[a].pending_nonce = accounts[a].pending_nonce + 1
      BY <1>1, <3>2 DEF Reserve, Account
    <3> QED
      BY <1>1, <3>1, <3>3, LiveCount
  <2>4. CASE a # tx.from
    <3>1. LiveOf(a)' = LiveOf(a)
      BY <2>2, <2>4 DEF LiveOf
    <3>2. accounts'[a] = accounts[a]
      BY <1>1, <1>6, <2>4 DEF SubmitTransaction, TypeOK
    <3> QED
      BY <1>2, <3>1, <3>2
  <2> QED
    BY <2>3, <2>4
<1>7. ASSUME NEW tx \in mempool, DropTransaction(tx)
      PROVE  accounts'[a].pending_nonce = Cardinality(LiveOf(a)')
  <2>1. tx \in Live /\ tx.from \in known /\ call.todo = {}
    BY <1>1, <1>7 DEF DropTransaction, Live, NonceLock, TypeOK, NoCall
  <2>2. Live' = Live \ {tx}
    BY <1>7, <2>1 DEF DropTransaction, Live
  <2>3. CASE a = tx.from
    <3>1. LiveOf(a)' = LiveOf(a) \ {tx} /\ tx \in LiveOf(a)
      BY <2>1, <2>2, <2>3 DEF LiveOf
    <3>2. accounts'[a] = Release(accounts[a], tx)
      BY <1>1, <1>7, <2>1, <2>3 DEF DropTransaction, TypeOK
    <3>3. accounts'[a].pending_nonce = SatSub(accounts[a].pending_nonce, 1)
      BY <1>1, <3>2 DEF Release, Account
    <3> QED
      BY <1>1, <3>1, <3>3, LiveCount DEF SatSub
  <2>4. CASE a # tx.from
    <3>1. LiveOf(a)' = LiveOf(a)
      BY <2>2, <2>4 DEF LiveOf
    <3>2. accounts'[a] = accounts[a]
      BY <1>1, <1>7, <2>4 DEF DropTransaction, TypeOK
    <3> QED
      BY <1>2, <3>1, <3>2
  <2> QED
    BY <2>3, <2>4
<1>8. ASSUME NEW tx \in call.todo, ApplyTx(tx)
      PROVE  accounts'[a].pending_nonce = Cardinality(LiveOf(a)')
  <2>1. tx \in Live /\ tx.from \in known /\ mempool = {}
    BY <1>1, AfterDebitTypes DEF Live, NonceLock, TypeOK
  <2>2. Live' = Live \ {tx}
    BY <1>1, <1>8, <2>1 DEF ApplyTx, Live, TypeOK
  <2>3. CASE a = tx.from
    <3>1. LiveOf(a)' = LiveOf(a) \ {tx} /\ tx \in LiveOf(a)
      BY <2>1, <2>2, <2>3 DEF LiveOf
    <3>2. accounts'[a].pending_nonce = SatSub(accounts[a].pending_nonce, 1)
      BY <1>1, <1>8, <2>1, <2>3, ApplyFields DEF Pays
    <3> QED
      BY <1>1, <3>1, <3>2, LiveCount DEF SatSub
  <2>4. CASE a # tx.from
    <3>1. LiveOf(a)' = LiveOf(a)
      BY <2>2, <2>4 DEF LiveOf
    <3>2. accounts'[a].pending_nonce = accounts[a].pending_nonce
      BY <1>1, <1>8, <2>4, ApplyFields
    <3> QED
      BY <1>2, <3>1, <3>2
  <2> QED
    BY <2>3, <2>4
<1>9. ASSUME CreditMiner \/ CreditMinerPanic
      PROVE  accounts'[a].pending_nonce = Cardinality(LiveOf(a)')
  <2>1. LiveOf(a)' = LiveOf(a)
    BY <1>9 DEF CreditMiner, CreditMinerPanic, LiveOf, Live, NoCall
  <2>2. accounts'[a].pending_nonce = accounts[a].pending_nonce
    BY <1>1, <1>9, CreditFields
  <2> QED
    BY <1>2, <2>1, <2>2
<1> QED
  BY <1>3, <1>4, <1>5, <1>6, <1>7, <1>8, <1>9 DEF Next, UnsavedStep

\* A release build panics nowhere in the loop of mine_block.
LEMMA ReleaseNeverUnwinds ==
    ASSUME OverflowChecks = FALSE
    PROVE  \A tx : ~ApplyTxPanic(tx)
BY DEF ApplyTxPanic, CreditFits, Adds

\* INV-PENDING-003 in release builds: pending_nonce is the number of the
\* sender's transactions that still hold a reservation.
THEOREM PendingNonceExact == OverflowChecks = FALSE => (Spec => []PendingNonceCounts)
<1> SUFFICES ASSUME OverflowChecks = FALSE PROVE Spec => []PendingNonceCounts
  OBVIOUS
<1>1. Init => CountInv
  <2> SUFFICES ASSUME Init PROVE CountInv
    OBVIOUS
  <2>1. \A a \in Addr : LiveOf(a) = {} /\ accounts[a].pending_nonce = 0
    BY DEF Init, LiveOf, Live, NoCall, EmptyAccount
  <2> QED
    BY <2>1, TypeInvInit, FS_EmptySet
    DEF Init, CountInv, NonceLock, Live, NoCall, PendingNonceCounts
<1>2. CountInv /\ [Next]_vars => CountInv'
  <2>1. CountInv /\ [Next]_vars => TypeInv'
    BY TypeInvStep DEF CountInv
  <2>2. CountInv /\ Next => NonceLock' /\ PendingNonceCounts'
    BY NonceLockStep, CountStep, ReleaseNeverUnwinds DEF CountInv, PendingNonceCounts
  <2>3. CountInv /\ UNCHANGED vars => NonceLock' /\ PendingNonceCounts'
    BY DEF CountInv, vars, NonceLock, PendingNonceCounts, LiveOf, Live
  <2> QED
    BY <2>1, <2>2, <2>3 DEF CountInv
<1>3. CountInv => PendingNonceCounts
  BY DEF CountInv
<1> QED
  BY <1>1, <1>2, <1>3, PTL DEF Spec

\* An account whose reservation is covered by its balance.
Covered(acct) == \A t \in Token : acct.pending[t] <= acct.balance[t]

\* Saturating subtraction of the same amount from both keeps the order, and an
\* admitted reservation fits in what is left.
LEMMA CoveredUpdates ==
    ASSUME NEW acct \in Account, NEW tx \in TxSpace, Covered(acct)
    PROVE  /\ Covered(Release(acct, tx))
           /\ Covered(Settle(acct, tx))
           /\ CanAfford(acct, tx) => Covered(Reserve(acct, tx))
<1>1. /\ Debit(tx) \in Pair /\ acct.balance \in Pair /\ acct.pending \in Pair
      /\ \A t \in Token : /\ Debit(tx)[t] \in 0 .. (U64 - 1)
                         /\ acct.balance[t] \in 0 .. (U64 - 1)
                         /\ acct.pending[t] \in 0 .. (U64 - 1)
                         /\ acct.pending[t] <= acct.balance[t]
  BY PairTypes DEF Covered, Account, Pair, Word
<1>2. /\ Release(acct, tx).pending = Minus(acct.pending, Debit(tx))
      /\ Release(acct, tx).balance = acct.balance
      /\ Settle(acct, tx).pending = Minus(acct.pending, Debit(tx))
      /\ Settle(acct, tx).balance = Minus(acct.balance, Debit(tx))
      /\ Reserve(acct, tx).pending = PlusMod(acct.pending, Debit(tx))
      /\ Reserve(acct, tx).balance = acct.balance
  BY DEF Release, Settle, Reserve, Account
<1>3. ASSUME NEW t \in Token
      PROVE  /\ Minus(acct.pending, Debit(tx))[t] <= acct.balance[t]
             /\ Minus(acct.pending, Debit(tx))[t] <= Minus(acct.balance, Debit(tx))[t]
  BY <1>1, U64Assumption DEF Minus, SatSub
<1>4. ASSUME CanAfford(acct, tx), NEW t \in Token
      PROVE  PlusMod(acct.pending, Debit(tx))[t] <= acct.balance[t]
  <2>1. acct.pending[t] + Debit(tx)[t] <= acct.balance[t]
    BY <1>1, <1>4, U64Assumption DEF CanAfford, SatSub
  <2>2. (acct.pending[t] + Debit(tx)[t]) % U64 = acct.pending[t] + Debit(tx)[t]
    BY <1>1, <2>1, U64Assumption
  <2> QED
    BY <2>1, <2>2 DEF PlusMod
<1> QED
  BY <1>2, <1>3, <1>4 DEF Covered

CoverInv == TypeOK /\ PendingWithinBalance

\* Only a credit that wraps around can leave a balance below its reservation.
LEMMA CoverStep ==
    ASSUME CoverInv, Next, \A tx \in call.todo : ApplyTx(tx) => CreditExact(tx), NEW a \in Addr
    PROVE  Covered(accounts'[a])
<1>1. /\ TypeOK
      /\ \A b \in Addr : accounts[b] \in Account /\ Covered(accounts[b])
  BY DEF CoverInv, TypeOK, PendingWithinBalance, Covered
<1>2. ASSUME NEW b \in Addr, NEW start \in Deposits, AddAccount(b, start)
      PROVE  Covered(accounts'[a])
  <2>1. Covered([EmptyAccount EXCEPT !.balance = start])
    BY InputAssumption, U64Assumption DEF Covered, EmptyAccount, Zero, Pair, Word
  <2> QED
    BY <1>1, <1>2, <2>1 DEF AddAccount, TypeOK
<1>3. ASSUME NEW tx \in TxSpace, SubmitTransaction(tx)
      PROVE  Covered(accounts'[a])
  <2>1. tx.from \in Addr /\ CanAfford(accounts[tx.from], tx)
    BY <1>1, <1>3, ChainTypes DEF SubmitTransaction, Admissible
  <2>2. Covered(Reserve(accounts[tx.from], tx))
    BY <1>1, <2>1, CoveredUpdates
  <2> QED
    BY <1>1, <1>3, <2>1, <2>2 DEF SubmitTransaction, TypeOK
<1>4. ASSUME NEW tx \in mempool, DropTransaction(tx)
      PROVE  Covered(accounts'[a])
  <2>1. tx \in TxSpace
    BY <1>1 DEF TypeOK
  <2>2. \A b \in Addr : Covered(Release(accounts[b], tx))
    BY <1>1, <2>1, CoveredUpdates
  <2> QED
    BY <1>1, <1>4, <2>2 DEF DropTransaction, TypeOK
<1>5. ASSUME NEW tx \in call.todo
      PROVE  /\ \A b \in Addr : AfterDebit(tx)[b] \in Account /\ Covered(AfterDebit(tx)[b])
             /\ AfterDebit(tx) \in [Addr -> Account]
             /\ tx.to \in Addr /\ tx.amount \in Pair
  <2>1. tx \in TxSpace /\ tx.to \in Addr /\ AfterDebit(tx) \in [Addr -> Account]
    BY <1>1, AfterDebitTypes
  <2>2. \A b \in Addr : Covered(Settle(accounts[b], tx))
    BY <1>1, <2>1, CoveredUpdates
  <2>3. \A b \in Addr : Covered(AfterDebit(tx)[b])
    BY <1>1, <2>2 DEF AfterDebit, TypeOK
  <2> QED
    BY <2>1, <2>3, PairTypes
<1>6. ASSUME NEW acct \in Account, NEW bal, Covered(acct),
             \A t \in Token : bal[t] >= acct.balance[t] /\ bal[t] \in Nat
      PROVE  Covered([acct EXCEPT !.balance = bal])
  BY <1>6, U64Assumption DEF Covered, Account, Pair, Word
<1>7. \A p \in Pair, q \in Pair : \A t \in Token :
         /\ Plus(p, q)[t] >= p[t] /\ Plus(p, q)[t] \in Nat
         /\ Partial(p, q)[t] >= p[t] /\ Partial(p, q)[t] \in Nat
         /\ Plus(p, q)[t] < U64 => PlusMod(p, q)[t] = Plus(p, q)[t]
  BY U64Assumption DEF Plus, PlusMod, Partial, Pair, Word
<1>8. ASSUME NEW tx \in call.todo, ApplyTx(tx)
      PROVE  Covered(accounts'[a])
  <2>1. \A t \in Token : Plus(AfterDebit(tx)[tx.to].balance, tx.amount)[t] < U64
    BY <1>8 DEF CreditExact
  <2>2. Covered([AfterDebit(tx)[tx.to] EXCEPT !.balance = PlusMod(@, tx.amount)])
    <3> DEFINE acct == AfterDebit(tx)[tx.to]
    <3>1. acct \in Account /\ Covered(acct) /\ acct.balance \in Pair
      BY <1>5 DEF Account
    <3>2. \A t \in Token : /\ PlusMod(acct.balance, tx.amount)[t] >= acct.balance[t]
                           /\ PlusMod(acct.balance, tx.amount)[t] \in Nat
      BY <1>5, <1>7, <2>1, <3>1
    <3> QED
      BY <1>6, <3>1, <3>2
  <2> QED
    BY <1>5, <1>8, <2>2 DEF ApplyTx
<1>9. ASSUME NEW tx \in call.todo, ApplyTxPanic(tx)
      PROVE  Covered(accounts'[a])
  <2>1. Covered([AfterDebit(tx)[tx.to] EXCEPT !.balance = Partial(@, tx.amount)])
    BY <1>5, <1>6, <1>7 DEF Account
  <2> QED
    BY <1>5, <1>9, <2>1 DEF ApplyTxPanic
<1>10. ASSUME CreditMiner \/ CreditMinerPanic
       PROVE  Covered(accounts'[a])
  <2>1. call.miner \in Addr /\ call.coinbase \in Pair
    BY <1>1, <1>10 DEF CreditMiner, CreditMinerPanic, TypeOK, Idle
  <2>2. /\ Covered([accounts[call.miner] EXCEPT !.balance = Plus(@, call.coinbase)])
        /\ Covered([accounts[call.miner] EXCEPT !.balance = Partial(@, call.coinbase)])
    BY <1>1, <1>6, <1>7, <2>1 DEF Account
  <2> QED
    BY <1>1, <1>10, <2>1, <2>2 DEF CreditMiner, CreditMinerPanic, TypeOK
<1>11. ASSUME accounts' = accounts
       PROVE  Covered(accounts'[a])
  BY <1>1, <1>11
<1> QED
  BY <1>2, <1>3, <1>4, <1>8, <1>9, <1>10, <1>11
  DEF Next, UnsavedStep, GenesisBlock, RejectTransaction, vars, MineBlock, MineFeeOverflow

\* INV-PENDING-002 in checked builds, calls unwound by a panic included: no
\* account reserves more than it holds.
THEOREM ReservationsCovered == OverflowChecks = TRUE => (Spec => []PendingWithinBalance)
<1> SUFFICES ASSUME OverflowChecks = TRUE PROVE Spec => []PendingWithinBalance
  OBVIOUS
<1>1. Init => CoverInv
  BY TypeInvInit DEF Init, TypeInv, CoverInv, PendingWithinBalance, EmptyAccount, Zero
<1>2. CoverInv /\ [Next]_vars => CoverInv'
  <2>1. CoverInv /\ [Next]_vars => TypeOK'
    BY TypeStep DEF CoverInv
  <2>2. CoverInv /\ Next => PendingWithinBalance'
    BY CoverStep DEF PendingWithinBalance, Covered, ApplyTx, CreditFits, Adds, CreditExact
  <2>3. CoverInv /\ UNCHANGED vars => PendingWithinBalance'
    BY DEF CoverInv, vars, PendingWithinBalance
  <2> QED
    BY <2>1, <2>2, <2>3 DEF CoverInv
<1>3. CoverInv => PendingWithinBalance
  BY DEF CoverInv
<1> QED
  BY <1>1, <1>2, <1>3, PTL DEF Spec

=============================================================================
