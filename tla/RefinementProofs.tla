-------------------------- MODULE RefinementProofs --------------------------
(***************************************************************************)
(* The ledger implements AtomicLedger, for every value of the constants,   *)
(* in a deployment whose wallets and deposits are sound: the push of a     *)
(* block is the commit, and every later step of mine_block is a stutter of *)
(* the abstract ledger.                                                    *)
(***************************************************************************)
EXTENDS MoneyProofs, AtomicRefinement, SequenceTheorems

-----------------------------------------------------------------------------
(* Operators *)

\* The instance brings its own copy of every operator.
LEMMA SameOperators ==
    /\ \A f : Atomic!SumFunction(f) = SumFunction(f)
    /\ \A S : Atomic!Max(S) = Max(S)
    /\ Atomic!Token = Token /\ Atomic!Zero = Zero
    /\ \A s, f : Atomic!FeeSplit(s, f) = FeeSplit(s, f)
<1>1. \A S : Atomic!Max(S) = Max(S)
  BY DEF Max, Atomic!Max
<1>2. Atomic!Token = Token /\ Atomic!Zero = Zero
  BY DEF Token, Zero, Atomic!Token, Atomic!Zero
<1>3. \A s, f : Atomic!FeeSplit(s, f) = FeeSplit(s, f)
  BY <1>2 DEF FeeSplit, Atomic!FeeSplit
<1>4. \A f : Atomic!SumFunction(f) = SumFunction(f)
  BY DEF Atomic!SumFunction, SumFunction, Atomic!SumFunctionOnSet, SumFunctionOnSet,
         Atomic!FoldFunctionOnSet, FoldFunctionOnSet, Atomic!MapThenFoldSet, MapThenFoldSet
<1> QED
  BY <1>1, <1>2, <1>3, <1>4

\* Two sets with the same greatest elements have the same maximum.
LEMMA MaxSame ==
    ASSUME NEW S, NEW T,
           \A x : (x \in S /\ \A y \in S : x >= y) <=> (x \in T /\ \A y \in T : x >= y)
    PROVE  Max(S) = Max(T)
BY DEF Max

LEMMA MaxSingle ==
    ASSUME NEW n \in Int
    PROVE  Max({n}) = n
BY DEF Max

LEMMA AppendFunction ==
    ASSUME NEW S, NEW s \in Seq(S), NEW e
    PROVE  Append(s, e) = [i \in 1 .. (Len(s) + 1) |-> IF i = Len(s) + 1 THEN e ELSE s[i]]
<1> DEFINE f == [i \in 1 .. (Len(s) + 1) |-> IF i = Len(s) + 1 THEN e ELSE s[i]]
<1>1. s \in Seq(S \cup {e}) /\ e \in S \cup {e} /\ Len(s) \in Nat
  OBVIOUS
<1>2. /\ Append(s, e) \in Seq(S \cup {e})
      /\ Len(Append(s, e)) = Len(s) + 1
      /\ \A i \in 1 .. (Len(s) + 1) : Append(s, e)[i] = f[i]
  BY <1>1
<1>3. Append(s, e) \in [1 .. (Len(s) + 1) -> S \cup {e}]
  BY <1>2, LenProperties
<1> QED
  BY <1>2, <1>3

\* What the transactions of S give to account a and take from it.
In(S, a, t)  == SumFunction([tx \in {x \in S : x.to = a} |-> tx.amount[t]])
Out(S, a, t) == SumFunction([tx \in {x \in S : x.from = a} |-> Cost(tx)[t]])

LEMMA InOutSums ==
    ASSUME NEW S, S \subseteq TxSpace, NEW a, NEW t \in Token
    PROVE  /\ In({}, a, t) = 0 /\ Out({}, a, t) = 0
           /\ In(S, a, t) \in Nat /\ Out(S, a, t) \in Nat
<1> DEFINE e == [x \in TxSpace |-> x.amount[t]]
           c == [x \in TxSpace |-> Cost(x)[t]]
           To(U)   == {x \in U : x.to = a}
           From(U) == {x \in U : x.from = a}
<1>1. /\ DOMAIN e = TxSpace /\ \A x \in TxSpace : e[x] = x.amount[t] /\ e[x] \in Nat
      /\ DOMAIN c = TxSpace /\ \A x \in TxSpace : c[x] = Cost(x)[t] /\ c[x] \in Nat
  BY CostTypes
<1>2. \A U \in SUBSET TxSpace : To(U) \in SUBSET TxSpace /\ From(U) \in SUBSET TxSpace
  OBVIOUS
<1>3. \A U \in SUBSET TxSpace : /\ [x \in U |-> e[x]] = [x \in U |-> x.amount[t]]
                               /\ [x \in U |-> c[x]] = [x \in U |-> Cost(x)[t]]
  OBVIOUS
<1>5. \A U : In(U, a, t) = SumFunction([x \in To(U) |-> x.amount[t]])
             /\ Out(U, a, t) = SumFunction([x \in From(U) |-> Cost(x)[t]])
  BY DEF In, Out
<1>6. To({}) = {} /\ From({}) = {} /\ S \in SUBSET TxSpace /\ {} \in SUBSET TxSpace
  OBVIOUS
<1> HIDE DEF e, c, To, From
<1>7. \A U \in SUBSET TxSpace : /\ In(U, a, t) = SumFunction([x \in To(U) |-> e[x]])
                               /\ Out(U, a, t) = SumFunction([x \in From(U) |-> c[x]])
  BY <1>2, <1>3, <1>5
<1>8. IsFiniteSet(To(S)) /\ IsFiniteSet(From(S))
  BY <1>2, <1>6, InputAssumption, FS_Subset
<1>9. /\ SumFunction([x \in {} |-> e[x]]) = 0
      /\ SumFunction([x \in To(S) |-> e[x]]) \in Nat
  BY <1>1, <1>2, <1>6, <1>8, SumOver
<1>10. /\ SumFunction([x \in {} |-> c[x]]) = 0
       /\ SumFunction([x \in From(S) |-> c[x]]) \in Nat
  BY <1>1, <1>2, <1>6, <1>8, SumOver
<1>11. /\ In({}, a, t) = 0 /\ Out({}, a, t) = 0
       /\ In(S, a, t) \in Nat /\ Out(S, a, t) \in Nat
  BY <1>6, <1>7, <1>9, <1>10
<1> QED
  BY <1>11

\* What leaves a sum over the transactions of S to an account (of an account) with x.
LEMMA InLess ==
    ASSUME NEW S, S \subseteq TxSpace, NEW x \in S, NEW a, NEW t \in Token
    PROVE  In(S \ {x}, a, t) = In(S, a, t) - (IF x.to = a THEN x.amount[t] ELSE 0)
<1> DEFINE c == [y \in TxSpace |-> y.amount[t]]
           A == {y \in TxSpace : y.to = a}
<1>1. DOMAIN c = TxSpace /\ \A y \in TxSpace : c[y] = y.amount[t] /\ c[y] \in Nat
  BY CostTypes
<1>2. \A U \in SUBSET TxSpace :
         In(U, a, t) = SumFunction([y \in U \cap A |-> c[y]])
  <2> SUFFICES ASSUME NEW U \in SUBSET TxSpace
               PROVE  In(U, a, t) = SumFunction([y \in U \cap A |-> c[y]])
    OBVIOUS
  <2>1. {y \in U : y.to = a} = U \cap A
    OBVIOUS
  <2>2. [y \in U \cap A |-> y.amount[t]] = [y \in U \cap A |-> c[y]]
    OBVIOUS
  <2> QED
    BY <2>1, <2>2 DEF In
<1>3. IsFiniteSet(TxSpace) /\ x \in TxSpace /\ (x \in A <=> x.to = a)
      /\ S \in SUBSET TxSpace /\ S \ {x} \in SUBSET TxSpace
      /\ (S \ {x}) \cap A = (S \cap A) \ {x} /\ S \cap A \subseteq TxSpace
  BY InputAssumption
<1> HIDE DEF c, A
<1>4. IsFiniteSet(S \cap A)
  BY <1>3, FS_Subset
<1>5. /\ SumFunction([y \in S \cap A |-> c[y]]) \in Nat
      /\ \A z \in S \cap A : SumFunction([y \in (S \cap A) \ {z} |-> c[y]])
                              = SumFunction([y \in S \cap A |-> c[y]]) - c[z]
  BY <1>1, <1>3, <1>4, SumOver
<1>6. In(S, a, t) = SumFunction([y \in S \cap A |-> c[y]])
  BY <1>2, <1>3
<1>7. In(S \ {x}, a, t) = SumFunction([y \in (S \cap A) \ {x} |-> c[y]])
  BY <1>2, <1>3
<1>8. CASE x \in A
  BY <1>1, <1>3, <1>5, <1>6, <1>7, <1>8
<1>9. CASE x \notin A
  <2>1. (S \cap A) \ {x} = S \cap A
    BY <1>9
  <2>2. In(S \ {x}, a, t) = In(S, a, t) /\ In(S, a, t) \in Nat
    BY <1>5, <1>6, <1>7, <2>1
  <2> QED
    BY <1>3, <1>9, <2>2
<1> QED
  BY <1>8, <1>9

LEMMA OutLess ==
    ASSUME NEW S, S \subseteq TxSpace, NEW x \in S, NEW a, NEW t \in Token
    PROVE  Out(S \ {x}, a, t) = Out(S, a, t) - (IF x.from = a THEN Cost(x)[t] ELSE 0)
<1> DEFINE c == [y \in TxSpace |-> Cost(y)[t]]
           A == {y \in TxSpace : y.from = a}
<1>1. DOMAIN c = TxSpace /\ \A y \in TxSpace : c[y] = Cost(y)[t] /\ c[y] \in Nat
  BY CostTypes
<1>2. \A U \in SUBSET TxSpace :
         Out(U, a, t) = SumFunction([y \in U \cap A |-> c[y]])
  <2> SUFFICES ASSUME NEW U \in SUBSET TxSpace
               PROVE  Out(U, a, t) = SumFunction([y \in U \cap A |-> c[y]])
    OBVIOUS
  <2>1. {y \in U : y.from = a} = U \cap A
    OBVIOUS
  <2>2. [y \in U \cap A |-> Cost(y)[t]] = [y \in U \cap A |-> c[y]]
    OBVIOUS
  <2> QED
    BY <2>1, <2>2 DEF Out
<1>3. IsFiniteSet(TxSpace) /\ x \in TxSpace /\ (x \in A <=> x.from = a)
      /\ S \in SUBSET TxSpace /\ S \ {x} \in SUBSET TxSpace
      /\ (S \ {x}) \cap A = (S \cap A) \ {x} /\ S \cap A \subseteq TxSpace
  BY InputAssumption
<1> HIDE DEF c, A
<1>4. IsFiniteSet(S \cap A)
  BY <1>3, FS_Subset
<1>5. /\ SumFunction([y \in S \cap A |-> c[y]]) \in Nat
      /\ \A z \in S \cap A : SumFunction([y \in (S \cap A) \ {z} |-> c[y]])
                              = SumFunction([y \in S \cap A |-> c[y]]) - c[z]
  BY <1>1, <1>3, <1>4, SumOver
<1>6. Out(S, a, t) = SumFunction([y \in S \cap A |-> c[y]])
  BY <1>2, <1>3
<1>7. Out(S \ {x}, a, t) = SumFunction([y \in (S \cap A) \ {x} |-> c[y]])
  BY <1>2, <1>3
<1>8. CASE x \in A
  BY <1>1, <1>3, <1>5, <1>6, <1>7, <1>8
<1>9. CASE x \notin A
  <2>1. (S \cap A) \ {x} = S \cap A
    BY <1>9
  <2>2. Out(S \ {x}, a, t) = Out(S, a, t) /\ Out(S, a, t) \in Nat
    BY <1>5, <1>6, <1>7, <2>1
  <2> QED
    BY <1>3, <1>9, <2>2
<1> QED
  BY <1>8, <1>9

\* The abstract ledger takes from a sender the amounts and the fees; here they are
\* the costs of its transactions.
LEMMA AbstractSums ==
    ASSUME NEW S, S \subseteq TxSpace, NEW a, NEW t \in Token
    PROVE  /\ Atomic!Received(S, a, t) = In(S, a, t)
           /\ Atomic!Spent(S, a, t) = Out(S, a, t)
           /\ Atomic!FeeIn(S, t) = FeeTotal(S)[t]
<1>1. Atomic!Received(S, a, t) = In(S, a, t)
  BY SameOperators DEF Atomic!Received, Atomic!PaidIn, In
<1>2. Atomic!FeeIn(S, t) = FeeTotal(S)[t]
  <2>1. [tx \in S |-> Atomic!FeeSplit(tx.selector, tx.fee)[t]]
          = [tx \in S |-> FeeSplit(tx.selector, tx.fee)[t]]
    BY SameOperators
  <2> QED
    BY <2>1, SameOperators DEF Atomic!FeeIn, FeeTotal
<1>3. Atomic!Spent(S, a, t) = Out(S, a, t)
  <2> DEFINE mine == {x \in S : x.from = a}
             p == [tx \in mine |-> tx.amount[t]]
             f == [tx \in mine |-> FeeSplit(tx.selector, tx.fee)[t]]
             c == [tx \in mine |-> Cost(tx)[t]]
  <2>1. IsFiniteSet(mine) /\ mine \subseteq TxSpace
    BY InputAssumption, FS_Subset
  <2>2. /\ DOMAIN p = mine /\ DOMAIN f = mine /\ DOMAIN c = mine
        /\ \A x \in mine : p[x] \in Int /\ f[x] \in Int /\ c[x] = p[x] + f[x]
    BY <2>1, CostTypes
  <2>3. Out(S, a, t) = SumFunction(c)
    BY DEF Out
  <2>4. Atomic!Spent(S, a, t) = SumFunction(p) + SumFunction(f)
    <3>1. [tx \in mine |-> Atomic!FeeSplit(tx.selector, tx.fee)[t]] = f
      BY SameOperators
    <3> QED
      BY <3>1, SameOperators DEF Atomic!Spent, Atomic!PaidIn, Atomic!FeeIn
  <2> HIDE DEF mine, p, f, c
  <2>5. SumFunction(c) = SumFunction(p) + SumFunction(f)
    BY <2>1, <2>2, SumFunctionAdd
  <2> QED
    BY <2>3, <2>4, <2>5
<1> QED
  BY <1>1, <1>2, <1>3

-----------------------------------------------------------------------------
(* The abstract state *)

\* What the rest of the call cl does to account a.
Rest(cl, a, t) ==
    In(cl.todo, a, t) - Out(cl.todo, a, t) + (IF a = cl.miner THEN cl.coinbase[t] ELSE 0)

FundsOf(accts, cl) == [a \in Addr |-> [t \in Token |-> accts[a].balance[t] + Rest(cl, a, t)]]

NoncesOf(accts, S) ==
    [a \in Addr |-> Max({accts[a].nonce} \cup {tx.nonce : tx \in {x \in S : x.from = a}})]

Minted == [t \in Token |-> emission[t] + call.reward[t]]

Committed == [i \in DOMAIN chain |-> chain[i].txs]

LEMMA AbstractState ==
    /\ SettledFunds = FundsOf(accounts, call) /\ SettledFunds' = FundsOf(accounts', call')
    /\ SettledNonces = NoncesOf(accounts, call.todo)
    /\ SettledNonces' = NoncesOf(accounts', call'.todo)
BY DEF SettledFunds, FundsOf, Outstanding, Rest, In, Out, SettledNonces, NoncesOf

\* Outside mine_block the abstract ledger is what the node has.
LEMMA IdleState ==
    ASSUME NEW accts \in [Addr -> Account]
    PROVE  /\ FundsOf(accts, NoCall) = [a \in Addr |-> accts[a].balance]
           /\ NoncesOf(accts, {}) = [a \in Addr |-> accts[a].nonce]
<1>1. \A a \in Addr, t \in Token : In({}, a, t) = 0 /\ Out({}, a, t) = 0
  BY InOutSums
<1>2. ASSUME NEW a \in Addr
      PROVE  [t \in Token |-> accts[a].balance[t] + Rest(NoCall, a, t)] = accts[a].balance
  <2>1. \A t \in Token : Rest(NoCall, a, t) = 0
    BY <1>1, AddrAssumption DEF Rest, NoCall, Zero
  <2>2. accts[a].balance \in [Token -> Int]
    BY U64Assumption DEF Account, Pair, Word
  <2> QED
    BY <2>1, <2>2
<1>3. ASSUME NEW a \in Addr
      PROVE  Max({accts[a].nonce} \cup {tx.nonce : tx \in {x \in {} : x.from = a}}) = accts[a].nonce
  <2>1. {accts[a].nonce} \cup {tx.nonce : tx \in {x \in {} : x.from = a}} = {accts[a].nonce}
    OBVIOUS
  <2>2. accts[a].nonce \in Int
    BY U64Assumption DEF Account, Word
  <2> QED
    BY <2>1, <2>2, MaxSingle
<1>4. FundsOf(accts, NoCall) = [a \in Addr |-> accts[a].balance]
  BY <1>2 DEF FundsOf
<1>5. NoncesOf(accts, {}) = [a \in Addr |-> accts[a].nonce]
  BY <1>3 DEF NoncesOf
<1> QED
  BY <1>4, <1>5

\* Two pairs of accounts and rest that add up to the same stand for the same funds.
LEMMA SameFunds ==
    ASSUME \A a \in Addr, t \in Token :
               accounts'[a].balance[t] + Rest(call', a, t)
                 = accounts[a].balance[t] + Rest(call, a, t)
    PROVE  SettledFunds' = SettledFunds
BY AbstractState DEF FundsOf

LEMMA RefineInit == Init => Atomic!AtomicInit
<1> SUFFICES ASSUME Init PROVE Atomic!AtomicInit
  OBVIOUS
<1>1. TypeOK /\ call = NoCall /\ Idle
  BY TypeInvInit DEF TypeInv, Init, Idle, NoCall
<1>2. SettledAccounts = {}
  BY <1>1 DEF Init, SettledAccounts, NoCall
<1>3. SettledFunds = [a \in Addr |-> Zero]
  BY <1>1, AbstractState, IdleState DEF Init, TypeOK, EmptyAccount
<1>4. SettledNonces = [a \in Addr |-> 0]
  <2>1. SettledNonces = NoncesOf(accounts, {})
    BY <1>1, AbstractState DEF NoCall
  <2>2. SettledNonces = [a \in Addr |-> accounts[a].nonce]
    BY <1>1, <2>1, IdleState DEF TypeOK
  <2> QED
    BY <2>2 DEF Init, EmptyAccount
<1>5. Minted = Zero
  BY DEF Init, NoCall, Minted, Zero
<1>6. Committed = << >>
  <2>1. DOMAIN chain = {} /\ chain = << >>
    BY DEF Init
  <2> QED BY <2>1 DEF Committed
<1> QED
  BY <1>2, <1>3, <1>4, <1>5, <1>6, SameOperators DEF Atomic!AtomicInit, Minted, Committed

-----------------------------------------------------------------------------
(* Steps *)

LEMMA RefineOpen ==
    ASSUME MoneyInv, NEW a \in Addr, NEW start \in Deposits, AddAccount(a, start)
    PROVE  Atomic!OpenAccount(a, start)
<1>1. /\ TypeOK /\ TypeOK' /\ Idle /\ call = NoCall /\ call' = call
      /\ accounts \in [Addr -> Account] /\ accounts' \in [Addr -> Account]
  <2>1. TypeOK /\ TypeOK'
    BY TypeStep DEF MoneyInv, TypeInv, Next, UnsavedStep
  <2> QED
    BY <2>1 DEF AddAccount, TypeOK
<1>2. SettledAccounts = known /\ SettledAccounts' = known'
  BY <1>1 DEF SettledAccounts, NoCall, Idle
<1>3. /\ SettledFunds = [b \in Addr |-> accounts[b].balance]
      /\ SettledFunds' = [b \in Addr |-> accounts'[b].balance]
  <2>1. SettledFunds = FundsOf(accounts, NoCall) /\ SettledFunds' = FundsOf(accounts', NoCall)
    BY <1>1, AbstractState
  <2> QED
    BY <1>1, <2>1, IdleState
<1>4. /\ SettledNonces = [b \in Addr |-> accounts[b].nonce]
      /\ SettledNonces' = [b \in Addr |-> accounts'[b].nonce]
  <2>1. SettledNonces = NoncesOf(accounts, {}) /\ SettledNonces' = NoncesOf(accounts', {})
    BY <1>1, AbstractState DEF NoCall
  <2> QED
    BY <1>1, <2>1, IdleState
<1>5. /\ accounts'[a].balance = start
      /\ accounts'[a].nonce = accounts[a].nonce
      /\ \A b \in Addr : b # a => accounts'[b] = accounts[b]
  BY <1>1 DEF AddAccount, TypeOK, EmptyAccount
<1>6. SettledFunds' = [SettledFunds EXCEPT ![a] = start]
  BY <1>3, <1>5
<1>7. SettledNonces' = SettledNonces
  <2>1. \A b \in Addr : accounts'[b].nonce = accounts[b].nonce
    BY <1>5
  <2> QED
    BY <1>4, <2>1
<1>8. Minted' = Minted /\ Committed' = Committed
  BY <1>1 DEF AddAccount, Minted, Committed
<1>9. a \notin known /\ known' = known \cup {a}
  BY DEF AddAccount
<1> QED
  BY <1>2, <1>6, <1>7, <1>8, <1>9 DEF Atomic!OpenAccount, Minted, Committed

LEMMA RefineGenesis ==
    ASSUME MoneyInv, GenesisBlock, GenesisHeights \subseteq {0}
    PROVE  Atomic!CommitGenesis
<1>1. /\ call' = call /\ accounts' = accounts /\ known' = known /\ emission' = emission
      /\ chain' = Append(chain, Genesis) /\ Len(chain) = 0 /\ chain \in Seq(Block)
  BY DEF GenesisBlock, MoneyInv, TypeInv, TypeOK
<1>2. SettledAccounts' = SettledAccounts
  BY <1>1 DEF SettledAccounts, Idle
<1>3. SettledFunds' = SettledFunds /\ SettledNonces' = SettledNonces
  BY <1>1, AbstractState
<1>4. Minted' = Minted
  BY <1>1 DEF Minted
<1>5. chain = << >> /\ chain' = << Genesis >>
  BY <1>1
<1>6. Committed = << >> /\ Committed' = << {} >>
  <2>1. DOMAIN chain = {} /\ DOMAIN chain' = {1} /\ chain'[1].txs = {}
    BY <1>5 DEF Genesis
  <2>2. Committed = << >>
    BY <2>1 DEF Committed
  <2>3. Committed' = [i \in {1} |-> {}]
    BY <2>1 DEF Committed
  <2>4. << {} >> = [i \in {1} |-> {}]
    OBVIOUS
  <2> QED
    BY <2>2, <2>3, <2>4
<1> QED
  BY <1>2, <1>3, <1>4, <1>6 DEF Atomic!CommitGenesis, Minted, Committed

\* The push of a block commits it: all its transactions and the coinbase at once.
LEMMA RefineCommit ==
    ASSUME MoneyInv, WalletsSound, DepositsFit, NEW m \in Miners, MineBlock(m)
    PROVE  \E txs \in SUBSET TxSpace : Atomic!Commit(txs)
<1>1. /\ TypeOK /\ Idle /\ call = NoCall
      /\ accounts \in [Addr -> Account] /\ accounts' = accounts /\ known' = known
      /\ emission' = emission
      /\ mempool \subseteq TxSpace /\ Live = mempool
      /\ m \in Addr /\ m # NoMiner
  BY InputAssumption, AddrAssumption DEF MineBlock, MoneyInv, TypeInv, TypeOK, Live, NoCall
<1>2. call' = [miner |-> m, reward |-> NextReward,
               coinbase |-> Plus(NextReward, FeeTotal(mempool)), todo |-> mempool]
  BY DEF MineBlock
<1>3. /\ SettledAccounts = known
      /\ SettledAccounts' = known \cup {m} \cup {tx.to : tx \in mempool}
  <2>1. SettledAccounts = known
    BY <1>1 DEF SettledAccounts, NoCall
  <2>2. ~Idle' /\ call'.miner = m /\ call'.todo = mempool
    BY <1>1, <1>2 DEF Idle
  <2> QED
    BY <1>1, <2>1, <2>2 DEF SettledAccounts
<1>4. /\ SettledFunds = [a \in Addr |-> accounts[a].balance]
      /\ SettledFunds' = FundsOf(accounts, call')
  BY <1>1, AbstractState, IdleState
<1>5. /\ SettledNonces = [a \in Addr |-> accounts[a].nonce]
      /\ SettledNonces' = NoncesOf(accounts, mempool)
  <2>1. SettledNonces = NoncesOf(accounts, {})
    BY <1>1, AbstractState DEF NoCall
  <2>2. SettledNonces' = NoncesOf(accounts, mempool)
    BY <1>1, <1>2, AbstractState
  <2> QED
    BY <1>1, <2>1, <2>2, IdleState
<1>6. \A t \in Token : /\ Minted[t] = emission[t] /\ Minted'[t] = emission[t] + NextReward[t]
                       /\ emission[t] \in Nat /\ NextReward[t] \in Nat
                       /\ emission[t] + NextReward[t] <= MAX_SUPPLY[t]
                       /\ MAX_SUPPLY[t] \in Nat
  <2>1. \A t \in Token : /\ emission[t] \in Nat /\ NextReward[t] \in Nat
                         /\ emission[t] + NextReward[t] <= MAX_SUPPLY[t]
                         /\ MAX_SUPPLY[t] \in Nat
    BY <1>1, NextRewardFits, SupplyAssumption DEF MoneyInv, TypeOK, Pair, Word
  <2>2. Minted' = [t \in Token |-> emission[t] + NextReward[t]]
    BY <1>1, <1>2 DEF Minted
  <2>3. Minted = [t \in Token |-> emission[t] + 0]
    BY <1>1 DEF Minted, NoCall, Zero
  <2> QED
    BY <2>1, <2>2, <2>3
<1>7. Committed' = Append(Committed, mempool)
  <2> DEFINE b == [miner |-> m, coinbase |-> Plus(NextReward, FeeTotal(mempool)),
                   fees |-> FeeTotal(mempool), txs |-> mempool]
  <2>1. chain' = Append(chain, b) /\ b.txs = mempool /\ chain \in Seq(Block)
    BY <1>1 DEF MineBlock, TypeOK
  <2> HIDE DEF b
  <2>2. /\ DOMAIN chain = 1 .. Len(chain) /\ DOMAIN chain' = 1 .. (Len(chain) + 1)
        /\ Len(chain) \in Nat
        /\ \A i \in 1 .. Len(chain) : chain'[i] = chain[i]
        /\ chain'[Len(chain) + 1] = b
    BY <2>1
  <2>3. Committed \in Seq({chain[i].txs : i \in DOMAIN chain}) /\ Len(Committed) = Len(chain)
    BY <2>2 DEF Committed
  <2>4. Committed' = [i \in 1 .. (Len(chain) + 1) |-> IF i = Len(chain) + 1 THEN mempool
                                                                            ELSE Committed[i]]
    BY <2>1, <2>2 DEF Committed
  <2>5. Append(Committed, mempool)
          = [i \in 1 .. (Len(chain) + 1) |-> IF i = Len(chain) + 1 THEN mempool ELSE Committed[i]]
    BY <2>3, AppendFunction
  <2> QED
    BY <2>4, <2>5
<1>8. ASSUME NEW tx \in mempool
      PROVE  /\ tx.from \in SettledAccounts
             /\ tx.nonce > SettledNonces[tx.from]
             /\ \A t \in Token : Atomic!Spent(mempool, tx.from, t) <= SettledFunds[tx.from][t]
             /\ \A q \in mempool : (q.from = tx.from /\ q.nonce = tx.nonce) => q = tx
  <2>1. /\ tx.from \in known /\ tx.from \in Addr /\ tx.from # ZERO_ADDR
        /\ tx.nonce > accounts[tx.from].nonce
        /\ \A q \in mempool : (q.from = tx.from /\ q.nonce = tx.nonce) => q = tx
    BY <1>1, ChainTypes DEF MoneyInv, NonceLock, WalletsSound
  <2>2. ASSUME NEW t \in Token
        PROVE  Atomic!Spent(mempool, tx.from, t) <= accounts[tx.from].balance[t]
    <3>1. Atomic!Spent(mempool, tx.from, t) = Out(mempool, tx.from, t)
      BY <1>1, AbstractSums
    <3>2. Out(mempool, tx.from, t) = Reserved(LiveOf(tx.from), t)
      <4>1. LiveOf(tx.from) = {x \in mempool : x.from = tx.from}
        BY <1>1 DEF LiveOf
      <4>2. \A x \in mempool : Debit(x)[t] = Cost(x)[t]
        BY <1>1, LivePaid
      <4>3. [x \in LiveOf(tx.from) |-> Debit(x)[t]]
              = [x \in {x \in mempool : x.from = tx.from} |-> Cost(x)[t]]
        BY <4>1, <4>2
      <4> QED
        BY <4>3 DEF Out, Reserved
    <3>3. /\ accounts[tx.from].pending[t] >= Reserved(LiveOf(tx.from), t)
          /\ accounts[tx.from].pending[t] <= accounts[tx.from].balance[t]
      BY <2>1 DEF MoneyInv, ReservationsCoverMempool, PendingWithinBalance
    <3>4. /\ accounts[tx.from].pending[t] \in Nat /\ accounts[tx.from].balance[t] \in Nat
          /\ Reserved(LiveOf(tx.from), t) \in Nat
      BY <2>1, ReservedNat DEF MoneyInv, TypeInv, TypeOK, Account, Pair, Word
    <3> QED
      BY <3>1, <3>2, <3>3, <3>4
  <2> QED
    BY <1>3, <1>4, <1>5, <2>1, <2>2
<1>9. SettledNonces' = [a \in Addr |-> Atomic!NewNonce(mempool, a)]
  <2>1. \A a \in Addr : SettledNonces[a] = accounts[a].nonce
    BY <1>5
  <2> QED
    BY <1>5, <2>1, SameOperators DEF NoncesOf, Atomic!NewNonce
<1>10. SettledFunds' = [a \in Addr |-> [t \in Token |->
           SettledFunds[a][t] - Atomic!Spent(mempool, a, t) + Atomic!Received(mempool, a, t)
           + (IF a = m THEN Minted'[t] - Minted[t] + Atomic!FeeIn(mempool, t) ELSE 0)]]
  <2>1. ASSUME NEW a \in Addr, NEW t \in Token
        PROVE  accounts[a].balance[t] + Rest(call', a, t)
                 = SettledFunds[a][t] - Atomic!Spent(mempool, a, t) + Atomic!Received(mempool, a, t)
                   + (IF a = m THEN Minted'[t] - Minted[t] + Atomic!FeeIn(mempool, t) ELSE 0)
    <3>1. /\ Atomic!Spent(mempool, a, t) = Out(mempool, a, t)
          /\ Atomic!Received(mempool, a, t) = In(mempool, a, t)
          /\ Atomic!FeeIn(mempool, t) = FeeTotal(mempool)[t]
      BY <1>1, AbstractSums
    <3>2. /\ Out(mempool, a, t) \in Nat /\ In(mempool, a, t) \in Nat
          /\ FeeTotal(mempool)[t] \in Nat
      BY <1>1, InOutSums, FeeSum
    <3>3. /\ call'.todo = mempool /\ call'.miner = m
          /\ call'.coinbase[t] = NextReward[t] + FeeTotal(mempool)[t]
      BY <1>2 DEF Plus
    <3>4. SettledFunds[a][t] = accounts[a].balance[t] /\ accounts[a].balance[t] \in Nat
      BY <1>1, <1>4 DEF Account, Pair, Word
    <3>5. Rest(call', a, t) = In(mempool, a, t) - Out(mempool, a, t)
                              + (IF a = m THEN NextReward[t] + FeeTotal(mempool)[t] ELSE 0)
      BY <3>3 DEF Rest
    <3>6. CASE a = m
      BY <1>6, <3>1, <3>2, <3>4, <3>5, <3>6
    <3>7. CASE a # m
      BY <1>6, <3>1, <3>2, <3>4, <3>5, <3>7
    <3> QED
      BY <3>6, <3>7
  <2>2. FundsOf(accounts, call') = [a \in Addr |-> [t \in Token |->
           accounts[a].balance[t] + Rest(call', a, t)]]
    BY DEF FundsOf
  <2> QED
    BY <1>4, <2>1, <2>2
<1>11. \A t \in Token : Minted'[t] \in Minted[t] .. MAX_SUPPLY[t]
  BY <1>6
<1>12. ASSUME NEW txs, txs = mempool
       PROVE  Atomic!Commit(txs)
  <2>1. Committed' = Append(Committed, txs)
    BY <1>7, <1>12
  <2>2. \A tx \in txs : /\ tx.from \in SettledAccounts
                        /\ tx.nonce > SettledNonces[tx.from]
                        /\ \A t \in Token : Atomic!Spent(txs, tx.from, t) <= SettledFunds[tx.from][t]
                        /\ \A q \in txs : (q.from = tx.from /\ q.nonce = tx.nonce) => q = tx
    BY <1>8, <1>12
  <2>3. SettledNonces' = [a \in Addr |-> Atomic!NewNonce(txs, a)]
    BY <1>9, <1>12
  <2>4. SettledAccounts' = SettledAccounts \cup {m} \cup {tx.to : tx \in txs}
    BY <1>3, <1>12
  <2>5. SettledFunds' = Atomic!FundsAfter(m, txs)
    BY <1>10, <1>12, SameOperators DEF Atomic!FundsAfter, Minted
  <2> QED
    BY <1>11, <2>1, <2>2, <2>3, <2>4, <2>5, SameOperators DEF Atomic!Commit, Minted, Committed
<1> QED
  BY <1>1, <1>12

\* What one transaction of the block does to the balances.
LEMMA AppliedBalance ==
    ASSUME MoneyInv, WalletsSound, DepositsFit, NEW tx \in call.todo, ApplyTx(tx),
           NEW a \in Addr, NEW t \in Token
    PROVE  /\ accounts[a].balance[t] \in Nat
           /\ accounts'[a].balance[t] = accounts[a].balance[t]
                - (IF tx.from = a THEN Cost(tx)[t] ELSE 0)
                + (IF tx.to = a THEN tx.amount[t] ELSE 0)
<1>1. /\ tx \in TxSpace /\ tx.from \in known /\ tx.from \in Addr /\ tx.from # ZERO_ADDR
      /\ Cost(tx)[t] \in Nat
      /\ Debit(tx)[t] = Cost(tx)[t]
      /\ Cost(tx)[t] <= accounts[tx.from].balance[t]
  BY LivePaid DEF Live
<1>2. /\ accounts \in [Addr -> Account] /\ AfterDebit(tx) \in [Addr -> Account]
      /\ tx.to \in Addr
      /\ \A b \in Addr : b # tx.from => AfterDebit(tx)[b] = accounts[b]
  BY AfterDebitTypes DEF MoneyInv, TypeInv, TypeOK
<1>3. accounts[a].balance[t] \in Nat
  BY <1>2 DEF Account, Pair, Word
<1>4. AfterDebit(tx)[a].balance[t]
        = accounts[a].balance[t] - (IF tx.from = a THEN Cost(tx)[t] ELSE 0)
  <2>1. CASE tx.from = a
    <3>1. AfterDebit(tx)[a].balance = Minus(accounts[a].balance, Debit(tx))
      BY <1>1, <1>2, <2>1 DEF AfterDebit, Pays, Settle, Release, Account
    <3> QED
      BY <1>1, <1>3, <2>1, <3>1 DEF Minus, SatSub
  <2>2. CASE tx.from # a
    <3>1. AfterDebit(tx)[a] = accounts[a]
      BY <1>2, <2>2
    <3> QED
      BY <1>3, <2>2, <3>1
  <2> QED
    BY <2>1, <2>2
<1>5. accounts' = [AfterDebit(tx) EXCEPT
                     ![tx.to].balance = PlusMod(AfterDebit(tx)[tx.to].balance, tx.amount)]
  BY DEF ApplyTx
<1>6. CASE tx.to = a
  <2>1. accounts'[a].balance = PlusMod(AfterDebit(tx)[a].balance, tx.amount)
    BY <1>2, <1>5, <1>6 DEF Account
  <2>2. /\ AfterDebit(tx)[a].balance[t] \in Nat /\ tx.amount[t] \in Nat
        /\ AfterDebit(tx)[a].balance[t] + tx.amount[t] < U64
    BY <1>1, <1>6, DebitTotal, CostTypes
  <2>3. AfterDebit(tx)[a].balance[t] + tx.amount[t] \in Word
    BY <2>2, U64Assumption DEF Word
  <2>4. accounts'[a].balance[t] = AfterDebit(tx)[a].balance[t] + tx.amount[t]
    BY <2>1, <2>3, NoWrap DEF PlusMod
  <2> QED
    BY <1>3, <1>4, <1>6, <2>4
<1>7. CASE tx.to # a
  <2>1. accounts'[a] = AfterDebit(tx)[a]
    BY <1>2, <1>5, <1>7
  <2>2. AfterDebit(tx)[a].balance[t] \in Nat
    BY <1>2 DEF Account, Pair, Word
  <2> QED
    BY <1>3, <1>4, <1>7, <2>1, <2>2
<1> QED
  BY <1>3, <1>6, <1>7

\* A transaction of the block moves what was outstanding into the balances.
LEMMA RefineApply ==
    ASSUME MoneyInv, WalletsSound, DepositsFit, NEW tx \in call.todo, ApplyTx(tx)
    PROVE  UNCHANGED Atomic!atomicVars
<1>1. /\ TypeOK
      /\ tx \in TxSpace /\ tx.from \in known /\ tx.from \in Addr /\ tx.from # ZERO_ADDR
      /\ tx.to \in Addr
      /\ call.todo \subseteq TxSpace /\ ~Idle
  BY AfterDebitTypes, ChainTypes DEF MoneyInv, TypeInv, TypeOK, NonceLock, WalletsSound, Live
<1>2. /\ call'.todo = call.todo \ {tx} /\ call'.miner = call.miner
      /\ call'.reward = call.reward /\ call'.coinbase = call.coinbase
      /\ known' = known \cup {tx.to} /\ emission' = emission /\ chain' = chain
  BY <1>1 DEF ApplyTx, TypeOK
<1>3. SettledAccounts' = SettledAccounts
  BY <1>1, <1>2 DEF SettledAccounts, Idle
<1>4. ASSUME NEW a \in Addr, NEW t \in Token
      PROVE  accounts'[a].balance[t] + Rest(call', a, t)
               = accounts[a].balance[t] + Rest(call, a, t)
  <2>1. /\ accounts[a].balance[t] \in Nat
        /\ accounts'[a].balance[t] = accounts[a].balance[t]
             - (IF tx.from = a THEN Cost(tx)[t] ELSE 0)
             + (IF tx.to = a THEN tx.amount[t] ELSE 0)
    BY AppliedBalance
  <2>2. /\ In(call.todo, a, t) \in Nat /\ Out(call.todo, a, t) \in Nat
        /\ In(call'.todo, a, t)
             = In(call.todo, a, t) - (IF tx.to = a THEN tx.amount[t] ELSE 0)
        /\ Out(call'.todo, a, t)
             = Out(call.todo, a, t) - (IF tx.from = a THEN Cost(tx)[t] ELSE 0)
    <3>1. In(call.todo, a, t) \in Nat /\ Out(call.todo, a, t) \in Nat
      BY <1>1, InOutSums
    <3>2. /\ In(call.todo \ {tx}, a, t)
               = In(call.todo, a, t) - (IF tx.to = a THEN tx.amount[t] ELSE 0)
          /\ Out(call.todo \ {tx}, a, t)
               = Out(call.todo, a, t) - (IF tx.from = a THEN Cost(tx)[t] ELSE 0)
      BY <1>1, InLess, OutLess
    <3> QED
      BY <1>1, <1>2, <3>1, <3>2
  <2>3. tx.amount[t] \in Nat /\ Cost(tx)[t] \in Nat /\ call.coinbase[t] \in Nat
    BY <1>1, CostTypes DEF TypeOK, Pair, Word
  <2> QED
    BY <1>2, <2>1, <2>2, <2>3 DEF Rest
<1>5. SettledFunds' = SettledFunds
  BY <1>4, SameFunds
<1>6. ASSUME NEW a \in Addr
      PROVE  Max({accounts'[a].nonce} \cup {x.nonce : x \in {y \in call.todo \ {tx} : y.from = a}})
               = Max({accounts[a].nonce} \cup {x.nonce : x \in {y \in call.todo : y.from = a}})
  <2> DEFINE N == {x.nonce : x \in {y \in call.todo : y.from = a}}
             M == {x.nonce : x \in {y \in call.todo \ {tx} : y.from = a}}
  <2>1. accounts'[a].nonce = IF a = tx.from THEN tx.nonce ELSE accounts[a].nonce
    BY <1>1, ApplyFields DEF Pays
  <2>2. CASE a = tx.from
    <3>1. {accounts'[a].nonce} \cup M = N /\ tx.nonce \in N
      BY <2>1, <2>2
    <3>2. tx.nonce > accounts[a].nonce /\ tx.nonce \in Nat /\ accounts[a].nonce \in Nat
      BY <1>1, <2>2, ChainTypes DEF MoneyInv, NonceLock, Live
    <3>3. N \subseteq Nat
      BY <1>1, ChainTypes
    <3> HIDE DEF N, M
    <3>4. \A x : (x \in N /\ \A y \in N : x >= y)
                  <=> (x \in {accounts[a].nonce} \cup N /\ \A y \in {accounts[a].nonce} \cup N : x >= y)
      <4>1. ASSUME NEW x \in N, \A y \in N : x >= y
            PROVE  \A y \in {accounts[a].nonce} \cup N : x >= y
        <5>1. x >= tx.nonce /\ x \in Nat
          BY <3>1, <3>3, <4>1
        <5>2. x >= accounts[a].nonce
          BY <3>2, <5>1
        <5> QED
          BY <4>1, <5>2
      <4>2. ASSUME NEW x \in {accounts[a].nonce} \cup N,
                   \A y \in {accounts[a].nonce} \cup N : x >= y
            PROVE  x \in N
        <5>1. x >= tx.nonce /\ x \in Nat
          BY <3>1, <3>2, <3>3, <4>2
        <5>2. x # accounts[a].nonce
          BY <3>2, <5>1
        <5> QED
          BY <5>2
      <4> QED
        BY <4>1, <4>2
    <3>5. Max(N) = Max({accounts[a].nonce} \cup N)
      BY <3>4, MaxSame
    <3> QED
      BY <3>1, <3>5 DEF N, M
  <2>3. CASE a # tx.from
    <3>1. N = M
      BY <2>3
    <3> QED
      BY <2>1, <2>3, <3>1
  <2> QED
    BY <2>2, <2>3
<1>7. SettledNonces' = SettledNonces
  BY <1>2, <1>6, AbstractState DEF NoncesOf
<1>8. Minted' = Minted /\ Committed' = Committed
  BY <1>2 DEF Minted, Committed
<1> QED
  BY <1>3, <1>5, <1>7, <1>8 DEF Atomic!atomicVars, Minted, Committed

\* The coinbase moves into the balance of the miner, the reward into the emission.
LEMMA RefineCredit ==
    ASSUME MoneyInv, DepositsFit, CreditMiner
    PROVE  UNCHANGED Atomic!atomicVars
<1>1. /\ TypeOK /\ ~Idle /\ call.todo = {} /\ MinerFits
      /\ call.miner \in Addr /\ call.miner # NoMiner
      /\ call' = NoCall /\ Idle' /\ known' = known \cup {call.miner} /\ chain' = chain
  BY DEF CreditMiner, MoneyInv, TypeInv, TypeOK, Idle, NoCall
<1>2. SettledAccounts' = SettledAccounts
  BY <1>1 DEF SettledAccounts, NoCall
<1>3. accounts' = [accounts EXCEPT ![call.miner].balance
                     = Plus(accounts[call.miner].balance, call.coinbase)]
  BY DEF CreditMiner
<1>4. ASSUME NEW a \in Addr, NEW t \in Token
      PROVE  accounts'[a].balance[t] + Rest(call', a, t)
               = accounts[a].balance[t] + Rest(call, a, t)
  <2>1. accounts[a].balance[t] \in Nat /\ call.coinbase[t] \in Nat
    BY <1>1 DEF TypeOK, Account, Pair, Word
  <2>2. In({}, a, t) = 0 /\ Out({}, a, t) = 0
    BY InOutSums
  <2>3. Rest(call', a, t) = 0
    BY <1>1, <2>2, AddrAssumption DEF Rest, NoCall
  <2>4. Rest(call, a, t) = IF a = call.miner THEN call.coinbase[t] ELSE 0
    BY <1>1, <2>1, <2>2 DEF Rest
  <2>5. accounts'[a].balance[t] = accounts[a].balance[t]
                                  + (IF a = call.miner THEN call.coinbase[t] ELSE 0)
    <3>1. CASE a = call.miner
      <4>1. accounts'[a].balance = Plus(accounts[a].balance, call.coinbase)
        BY <1>1, <1>3, <3>1 DEF TypeOK, Account
      <4> QED
        BY <3>1, <4>1 DEF Plus
    <3>2. CASE a # call.miner
      <4>1. accounts'[a] = accounts[a]
        BY <1>1, <1>3, <3>2 DEF TypeOK
      <4> QED
        BY <2>1, <3>2, <4>1
    <3> QED
      BY <3>1, <3>2
  <2> QED
    BY <2>1, <2>3, <2>4, <2>5
<1>5. SettledFunds' = SettledFunds
  BY <1>4, SameFunds
<1>6. SettledNonces' = SettledNonces
  <2>1. \A a \in Addr : accounts'[a].nonce = accounts[a].nonce
    BY <1>1, CreditFields
  <2>2. NoncesOf(accounts', {}) = NoncesOf(accounts, {})
    BY <2>1 DEF NoncesOf
  <2> QED
    BY <1>1, <2>2, AbstractState DEF NoCall
<1>7. Minted' = Minted
  <2> SUFFICES ASSUME NEW t \in Token
               PROVE  emission'[t] + call'.reward[t] = emission[t] + call.reward[t]
    BY DEF Minted
  <2>1. /\ emission[t] \in Nat /\ call.reward[t] \in Nat /\ deposited[t] \in Nat
        /\ deposited[t] + emission[t] + call.reward[t] < U64
    BY MoneyRoom
  <2>2. emission[t] + call.reward[t] \in Word
    BY <2>1, U64Assumption DEF Word
  <2>3. emission'[t] = emission[t] + call.reward[t]
    BY <2>2, NoWrap DEF CreditMiner, PlusMod
  <2>4. call'.reward[t] = 0
    BY <1>1 DEF NoCall, Zero
  <2> QED
    BY <2>1, <2>3, <2>4
<1>8. Committed' = Committed
  BY <1>1 DEF Committed
<1> QED
  BY <1>2, <1>5, <1>6, <1>7, <1>8 DEF Atomic!atomicVars, Minted, Committed

\* The calls about the mempool are invisible in the abstract ledger.
LEMMA RefineMempool ==
    ASSUME MoneyInv,
           \/ \E tx \in TxSpace : SubmitTransaction(tx)
           \/ \E tx \in TxSpace : RejectTransaction(tx)
           \/ \E tx \in mempool : DropTransaction(tx)
           \/ MineFeeOverflow
    PROVE  UNCHANGED Atomic!atomicVars
<1>1. /\ TypeOK /\ call' = call /\ known' = known /\ emission' = emission /\ chain' = chain
  BY DEF MoneyInv, TypeInv, SubmitTransaction, RejectTransaction, DropTransaction,
         MineFeeOverflow, vars
<1>2. ASSUME NEW a \in Addr
      PROVE  /\ accounts'[a].balance = accounts[a].balance
             /\ accounts'[a].nonce = accounts[a].nonce
  <2>1. \A tx : /\ Reserve(accounts[a], tx).balance = accounts[a].balance
                /\ Reserve(accounts[a], tx).nonce = accounts[a].nonce
                /\ Release(accounts[a], tx).balance = accounts[a].balance
                /\ Release(accounts[a], tx).nonce = accounts[a].nonce
    BY <1>1 DEF TypeOK, Reserve, Release, Account
  <2> QED
    BY <1>1, <2>1 DEF TypeOK, SubmitTransaction, RejectTransaction, DropTransaction,
                     MineFeeOverflow, vars
<1>3. SettledAccounts' = SettledAccounts
  BY <1>1 DEF SettledAccounts, Idle
<1>4. SettledFunds' = SettledFunds
  BY <1>1, <1>2, SameFunds
<1>5. SettledNonces' = SettledNonces
  BY <1>1, <1>2, AbstractState DEF NoncesOf
<1>6. Minted' = Minted /\ Committed' = Committed
  BY <1>1 DEF Minted, Committed
<1> QED
  BY <1>3, <1>4, <1>5, <1>6 DEF Atomic!atomicVars, Minted, Committed

LEMMA RefineStep ==
    ASSUME MoneyInv, WalletsSound, DepositsFit, GenesisHeights \subseteq {0}, [Next]_vars
    PROVE  [Atomic!AtomicNext]_(Atomic!atomicVars)
<1>1. CASE UNCHANGED vars
  <2>1. /\ call' = call /\ known' = known /\ emission' = emission /\ chain' = chain
        /\ accounts' = accounts
    BY <1>1 DEF vars
  <2>2. /\ SettledAccounts' = SettledAccounts
        /\ SettledFunds' = SettledFunds /\ SettledNonces' = SettledNonces
        /\ Minted' = Minted /\ Committed' = Committed
    BY <2>1, AbstractState DEF SettledAccounts, Idle, Minted, Committed
  <2> QED
    BY <2>2 DEF Atomic!atomicVars, Minted, Committed
<1>2. ASSUME NEW a \in Addr, NEW start \in Deposits, AddAccount(a, start)
      PROVE  Atomic!AtomicNext
  BY <1>2, RefineOpen DEF Atomic!AtomicNext
<1>3. CASE GenesisBlock
  BY <1>3, RefineGenesis DEF Atomic!AtomicNext
<1>4. ASSUME NEW m \in Miners, MineBlock(m)
      PROVE  Atomic!AtomicNext
  BY <1>4, RefineCommit DEF Atomic!AtomicNext
<1>5. ASSUME NEW tx \in call.todo, ApplyTx(tx)
      PROVE  UNCHANGED Atomic!atomicVars
  BY <1>5, RefineApply
<1>6. CASE CreditMiner
  BY <1>6, RefineCredit
<1>7. CASE \/ \E tx \in TxSpace : SubmitTransaction(tx)
           \/ \E tx \in TxSpace : RejectTransaction(tx)
           \/ \E tx \in mempool : DropTransaction(tx)
           \/ MineFeeOverflow
  BY <1>7, RefineMempool
<1>8. \A tx \in call.todo : ~ApplyTxPanic(tx)
  BY CreditsExact DEF ApplyTxPanic
<1>9. ~CreditMinerPanic
  BY CoinbaseExact DEF CreditMinerPanic
<1> QED
  BY <1>1, <1>2, <1>3, <1>4, <1>5, <1>6, <1>7, <1>8, <1>9 DEF Next, UnsavedStep

\* CONSENSUS.md: "All debits apply to the sender's unreserved balances and credit the
\* recipient and miner atomically."  mine_block applies a block in many steps and
\* with saturating and wrapping arithmetic; what it does is the one atomic commit
\* of AtomicLedger, in both builds.
THEOREM LedgerIsAtomic ==
    (WalletsSound /\ GenesisHeights \subseteq {0}) =>
        (Spec /\ []DepositsFit => ImplementsAtomicLedger)
<1> SUFFICES ASSUME WalletsSound, GenesisHeights \subseteq {0}
             PROVE  Spec /\ []DepositsFit => ImplementsAtomicLedger
  OBVIOUS
<1>1. Init => Atomic!AtomicInit
  BY RefineInit
<1>2. MoneyInv /\ DepositsFit /\ [Next]_vars => [Atomic!AtomicNext]_(Atomic!atomicVars)
  BY RefineStep
<1> QED
  BY <1>1, <1>2, MoneyAlways, PTL DEF Spec, ImplementsAtomicLedger, Atomic!AtomicSpec

=============================================================================
