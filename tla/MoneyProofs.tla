---------------------------- MODULE MoneyProofs ----------------------------
(***************************************************************************)
(* Theorems about the amounts of a ledger, for every value of the          *)
(* constants: what is reserved, what the accounts hold together, what the  *)
(* chain says was emitted; and that the counters a Blockchain object keeps *)
(* beside its chain (emission, block_height, the current block reward) can *)
(* be recomputed from the chain, in a deployment whose wallets and         *)
(* deposits are sound, so that no mine_block call fails half-way.          *)
(***************************************************************************)
EXTENDS LedgerProofs, SumTheorems

-----------------------------------------------------------------------------
(* Totals over transactions *)

\* A set of transactions reserves a natural, at least what each of them takes, and
\* one that comes or goes changes it by what it takes.
LEMMA ReservedSum ==
    ASSUME NEW S, S \subseteq TxSpace, NEW t \in Token
    PROVE  /\ Reserved({}, t) = 0
           /\ Reserved(S, t) \in Nat
           /\ \A x \in S : /\ Debit(x)[t] <= Reserved(S, t)
                           /\ Reserved(S \ {x}, t) = Reserved(S, t) - Debit(x)[t]
           /\ \A x \in TxSpace \ S : Reserved(S \cup {x}, t) = Reserved(S, t) + Debit(x)[t]
<1> DEFINE e == [x \in TxSpace |-> Debit(x)[t]]
<1>1. DOMAIN e = TxSpace /\ \A x \in TxSpace : e[x] = Debit(x)[t] /\ e[x] \in Nat
  BY PairTypes DEF Pair, Word
<1>2. IsFiniteSet(S)
  BY InputAssumption, FS_Subset
<1>3. \A U \in SUBSET TxSpace : [x \in U |-> e[x]] = [x \in U |-> Debit(x)[t]]
  OBVIOUS
<1> HIDE DEF e
<1>4. \A U \in SUBSET TxSpace : Reserved(U, t) = SumFunction([x \in U |-> e[x]])
  BY <1>3 DEF Reserved
<1>5. /\ SumFunction([x \in {} |-> e[x]]) = 0
      /\ SumFunction([x \in S |-> e[x]]) \in Nat
      /\ \A y \in S : /\ e[y] <= SumFunction([x \in S |-> e[x]])
                      /\ SumFunction([x \in S \ {y} |-> e[x]])
                           = SumFunction([x \in S |-> e[x]]) - e[y]
      /\ \A y \in TxSpace \ S : SumFunction([x \in S \cup {y} |-> e[x]])
                                  = SumFunction([x \in S |-> e[x]]) + e[y]
  BY <1>1, <1>2, SumOver
<1>6. /\ {} \in SUBSET TxSpace /\ S \in SUBSET TxSpace
      /\ \A x \in S : S \ {x} \in SUBSET TxSpace
      /\ \A x \in TxSpace : S \cup {x} \in SUBSET TxSpace
  OBVIOUS
<1> QED
  BY <1>1, <1>4, <1>5, <1>6

-----------------------------------------------------------------------------
(* Reservations *)

\* What a step does to the live transactions and to the reservation of account a:
\* nothing; one more of both; one less of both; or, when a checked build unwinds
\* mine_block, all transactions go and the reservation stays or shrinks.
LEMMA ReservationStep ==
    ASSUME TypeOK, NonceLock, Next, NEW a \in Addr \ {ZERO_ADDR}
    PROVE  \/ LiveOf(a)' = LiveOf(a) /\ accounts'[a].pending = accounts[a].pending
           \/ \E tx \in TxSpace \ LiveOf(a) :
                 /\ LiveOf(a)' = LiveOf(a) \cup {tx}
                 /\ CanAfford(accounts[a], tx)
                 /\ accounts'[a].pending = PlusMod(accounts[a].pending, Debit(tx))
           \/ \E tx \in LiveOf(a) :
                 /\ LiveOf(a)' = LiveOf(a) \ {tx}
                 /\ accounts'[a].pending = Minus(accounts[a].pending, Debit(tx))
           \/ /\ \E tx \in call.todo : ApplyTxPanic(tx)
              /\ LiveOf(a)' = {}
<1>0. accounts[a] \in Account /\ accounts \in [Addr -> Account] /\ a \in Addr /\ a # ZERO_ADDR
  BY DEF TypeOK
<1>1. ASSUME NEW b \in Addr, NEW start \in Deposits, AddAccount(b, start)
      PROVE  LiveOf(a)' = LiveOf(a) /\ accounts'[a].pending = accounts[a].pending
  <2>1. LiveOf(a)' = LiveOf(a)
    BY <1>1 DEF AddAccount, LiveOf, Live
  <2>2. accounts[b] = EmptyAccount
    BY <1>1 DEF AddAccount, TypeOK
  <2>3. accounts'[a].pending = accounts[a].pending
    BY <1>0, <1>1, <2>2 DEF AddAccount, EmptyAccount
  <2> QED
    BY <2>1, <2>3
<1>2. ASSUME GenesisBlock \/ MineFeeOverflow \/ (\E tx \in TxSpace : RejectTransaction(tx))
      PROVE  LiveOf(a)' = LiveOf(a) /\ accounts' = accounts
  BY <1>2 DEF GenesisBlock, MineFeeOverflow, RejectTransaction, vars, LiveOf, Live
<1>3. ASSUME NEW m \in Miners, MineBlock(m)
      PROVE  LiveOf(a)' = LiveOf(a) /\ accounts' = accounts
  <2>1. call.todo = {}
    BY <1>3 DEF MineBlock, TypeOK, NoCall
  <2> QED
    BY <1>3, <2>1 DEF MineBlock, LiveOf, Live
<1>4. ASSUME NEW tx \in TxSpace, SubmitTransaction(tx)
      PROVE  IF a = tx.from
             THEN /\ tx \notin LiveOf(a)
                  /\ LiveOf(a)' = LiveOf(a) \cup {tx}
                  /\ CanAfford(accounts[a], tx)
                  /\ accounts'[a].pending = PlusMod(accounts[a].pending, Debit(tx))
             ELSE LiveOf(a)' = LiveOf(a) /\ accounts'[a].pending = accounts[a].pending
  <2>1. tx.from \in Addr /\ tx \notin Live /\ CanAfford(accounts[tx.from], tx)
    BY <1>4, ChainTypes
    DEF SubmitTransaction, Admissible, DuplicateKey, Live, TypeOK, NoCall
  <2>2. Live' = Live \cup {tx}
    BY <1>4 DEF SubmitTransaction, Live
  <2>3. accounts' = [accounts EXCEPT ![tx.from] = Reserve(accounts[tx.from], tx)]
    BY <1>4 DEF SubmitTransaction
  <2>4. Reserve(accounts[a], tx).pending = PlusMod(accounts[a].pending, Debit(tx))
    BY <1>0 DEF Reserve, Account
  <2> QED
    BY <1>0, <2>1, <2>2, <2>3, <2>4 DEF LiveOf
<1>5. ASSUME NEW tx \in mempool, DropTransaction(tx)
      PROVE  IF a = tx.from
             THEN /\ tx \in LiveOf(a)
                  /\ LiveOf(a)' = LiveOf(a) \ {tx}
                  /\ accounts'[a].pending = Minus(accounts[a].pending, Debit(tx))
             ELSE LiveOf(a)' = LiveOf(a) /\ accounts'[a].pending = accounts[a].pending
  <2>1. tx \in Live /\ tx.from \in known /\ call.todo = {}
    BY <1>5 DEF DropTransaction, Live, NonceLock, TypeOK, NoCall
  <2>2. Live' = Live \ {tx}
    BY <1>5, <2>1 DEF DropTransaction, Live
  <2>3. accounts' = [accounts EXCEPT ![tx.from] = Release(accounts[tx.from], tx)]
    BY <1>5, <2>1 DEF DropTransaction
  <2>4. Release(accounts[a], tx).pending = Minus(accounts[a].pending, Debit(tx))
    BY <1>0 DEF Release, Account
  <2> QED
    BY <1>0, <2>1, <2>2, <2>3, <2>4 DEF LiveOf
<1>6. ASSUME NEW tx \in call.todo, ApplyTx(tx)
      PROVE  IF a = tx.from
             THEN /\ tx \in LiveOf(a)
                  /\ LiveOf(a)' = LiveOf(a) \ {tx}
                  /\ accounts'[a].pending = Minus(accounts[a].pending, Debit(tx))
             ELSE LiveOf(a)' = LiveOf(a) /\ accounts'[a].pending = accounts[a].pending
  <2>1. tx \in Live /\ tx.from \in known /\ mempool = {}
    BY AfterDebitTypes DEF Live, NonceLock, TypeOK
  <2>2. Live' = Live \ {tx}
    BY <1>6, <2>1 DEF ApplyTx, Live, TypeOK
  <2>3. accounts'[a].pending = AfterDebit(tx)[a].pending
    <3>1. AfterDebit(tx) \in [Addr -> Account] /\ tx.to \in Addr
      BY AfterDebitTypes
    <3>2. \E bal : accounts' = [AfterDebit(tx) EXCEPT ![tx.to].balance = bal]
      BY <1>6 DEF ApplyTx
    <3> QED BY <1>0, <3>1, <3>2 DEF Account
  <2>4. Settle(accounts[a], tx).pending = Minus(accounts[a].pending, Debit(tx))
    BY <1>0 DEF Settle, Release, Account
  <2>5. CASE a = tx.from
    <3>1. AfterDebit(tx)[a] = Settle(accounts[a], tx)
      BY <1>0, <2>1, <2>5 DEF AfterDebit, Pays
    <3> QED BY <2>1, <2>2, <2>3, <2>4, <2>5, <3>1 DEF LiveOf
  <2>6. CASE a # tx.from
    <3>1. AfterDebit(tx)[a] = accounts[a]
      BY <1>0, <2>6, AfterDebitTypes
    <3> QED BY <2>2, <2>3, <2>6, <3>1 DEF LiveOf
  <2> QED
    BY <2>5, <2>6
<1>7. ASSUME CreditMiner \/ CreditMinerPanic
      PROVE  LiveOf(a)' = LiveOf(a) /\ accounts'[a].pending = accounts[a].pending
  <2>1. LiveOf(a)' = LiveOf(a)
    BY <1>7 DEF CreditMiner, CreditMinerPanic, LiveOf, Live, NoCall
  <2>2. call.miner \in Addr /\ \E bal : accounts' = [accounts EXCEPT ![call.miner].balance = bal]
    BY <1>7 DEF CreditMiner, CreditMinerPanic, TypeOK, Idle
  <2>3. accounts'[a].pending = accounts[a].pending
    BY <1>0, <2>2 DEF Account
  <2> QED
    BY <2>1, <2>3
<1>8. ASSUME NEW tx \in call.todo, ApplyTxPanic(tx)
      PROVE  LiveOf(a)' = {}
  BY <1>8, AfterDebitTypes DEF ApplyTxPanic, LiveOf, Live, NoCall, TypeOK
<1>9. /\ mempool \subseteq TxSpace /\ call.todo \subseteq TxSpace
      /\ \A tx \in LiveOf(a) : tx \in TxSpace
  BY DEF TypeOK, LiveOf, Live
<1> QED
  <2>1. CASE \E tx \in TxSpace : SubmitTransaction(tx)
    BY <1>4, <2>1
  <2>2. CASE \E tx \in mempool : DropTransaction(tx)
    BY <1>5, <2>2
  <2>3. CASE \E tx \in call.todo : ApplyTx(tx)
    BY <1>6, <2>3
  <2> QED
    BY <1>1, <1>2, <1>3, <1>7, <1>8, <2>1, <2>2, <2>3 DEF Next, UnsavedStep

\* Reserving what an account can afford does not wrap around, and releasing at most
\* what is reserved is not cut at zero.
LEMMA PendingUpdates ==
    ASSUME NEW acct \in Account, NEW tx \in TxSpace, NEW t \in Token
    PROVE  /\ CanAfford(acct, tx) =>
                 PlusMod(acct.pending, Debit(tx))[t] = acct.pending[t] + Debit(tx)[t]
           /\ Debit(tx)[t] <= acct.pending[t] =>
                 Minus(acct.pending, Debit(tx))[t] = acct.pending[t] - Debit(tx)[t]
<1>1. /\ Debit(tx)[t] \in 0 .. (U64 - 1)
      /\ acct.balance[t] \in 0 .. (U64 - 1)
      /\ acct.pending[t] \in 0 .. (U64 - 1)
  BY PairTypes DEF Account, Pair, Word
<1>2. ASSUME CanAfford(acct, tx)
      PROVE  PlusMod(acct.pending, Debit(tx))[t] = acct.pending[t] + Debit(tx)[t]
  <2>1. acct.pending[t] + Debit(tx)[t] \in 0 .. (U64 - 1)
    BY <1>1, <1>2, U64Assumption DEF CanAfford, SatSub
  <2>2. (acct.pending[t] + Debit(tx)[t]) % U64 = acct.pending[t] + Debit(tx)[t]
    BY <2>1, NoWrap DEF Word
  <2> QED
    BY <2>2 DEF PlusMod
<1>3. ASSUME Debit(tx)[t] <= acct.pending[t]
      PROVE  Minus(acct.pending, Debit(tx))[t] = acct.pending[t] - Debit(tx)[t]
  BY <1>1, <1>3, U64Assumption DEF Minus, SatSub
<1> QED
  BY <1>2, <1>3

\* A step keeps a reservation that is at least the sum of the sender's live
\* transactions at least that sum, and one that is exactly the sum exact, unless
\* the step unwinds mine_block.
LEMMA ReservationKept ==
    ASSUME TypeOK, NonceLock, Next, NEW a \in Addr \ {ZERO_ADDR}, NEW t \in Token,
           accounts[a].pending[t] >= Reserved(LiveOf(a), t)
    PROVE  /\ accounts'[a].pending[t] >= Reserved(LiveOf(a)', t)
           /\ (/\ accounts[a].pending[t] = Reserved(LiveOf(a), t)
               /\ \A tx \in call.todo : ~ApplyTxPanic(tx))
              => accounts'[a].pending[t] = Reserved(LiveOf(a)', t)
<1>1. LiveOf(a) \subseteq TxSpace /\ accounts[a] \in Account /\ accounts'[a] \in Account
  <2>1. TypeOK'
    BY TypeStep
  <2> QED
    BY <2>1 DEF LiveOf, Live, TypeOK
<1>2. /\ Reserved(LiveOf(a), t) \in Nat
      /\ accounts[a].pending[t] \in Nat
      /\ accounts'[a].pending[t] \in Nat
      /\ \A tx \in TxSpace : Debit(tx)[t] \in Nat
  <2>1. Reserved(LiveOf(a), t) \in Nat
    BY <1>1, ReservedSum
  <2>2. \A tx \in TxSpace : Debit(tx)[t] \in Nat
    BY PairTypes DEF Pair, Word
  <2> QED
    BY <1>1, <2>1, <2>2 DEF Account, Pair, Word
<1>3. CASE LiveOf(a)' = LiveOf(a) /\ accounts'[a].pending = accounts[a].pending
  BY <1>3
<1>4. ASSUME NEW tx \in TxSpace \ LiveOf(a),
             LiveOf(a)' = LiveOf(a) \cup {tx},
             CanAfford(accounts[a], tx),
             accounts'[a].pending = PlusMod(accounts[a].pending, Debit(tx))
      PROVE  /\ accounts'[a].pending[t] = accounts[a].pending[t] + Debit(tx)[t]
             /\ Reserved(LiveOf(a)', t) = Reserved(LiveOf(a), t) + Debit(tx)[t]
  <2>1. accounts'[a].pending[t] = accounts[a].pending[t] + Debit(tx)[t]
    BY <1>1, <1>4, PendingUpdates
  <2>2. Reserved(LiveOf(a) \cup {tx}, t) = Reserved(LiveOf(a), t) + Debit(tx)[t]
    BY <1>1, ReservedSum
  <2> QED
    BY <1>4, <2>1, <2>2
<1>5. ASSUME NEW tx \in LiveOf(a),
             LiveOf(a)' = LiveOf(a) \ {tx},
             accounts'[a].pending = Minus(accounts[a].pending, Debit(tx))
      PROVE  /\ accounts'[a].pending[t] = accounts[a].pending[t] - Debit(tx)[t]
             /\ Reserved(LiveOf(a)', t) = Reserved(LiveOf(a), t) - Debit(tx)[t]
  <2>1. Debit(tx)[t] <= Reserved(LiveOf(a), t)
    BY <1>1, ReservedSum
  <2>2. Debit(tx)[t] <= accounts[a].pending[t] /\ tx \in TxSpace
    BY <1>1, <1>2, <2>1
  <2>3. accounts'[a].pending[t] = accounts[a].pending[t] - Debit(tx)[t]
    BY <1>1, <1>5, <2>2, PendingUpdates
  <2>4. Reserved(LiveOf(a) \ {tx}, t) = Reserved(LiveOf(a), t) - Debit(tx)[t]
    BY <1>1, ReservedSum
  <2> QED
    BY <1>5, <2>3, <2>4
<1>6. CASE (\E tx \in call.todo : ApplyTxPanic(tx)) /\ LiveOf(a)' = {}
  <2>1. Reserved(LiveOf(a)', t) = 0
    BY <1>6, ReservedSum
  <2> QED
    BY <1>2, <1>6, <2>1
<1> QED
  BY <1>1, <1>2, <1>3, <1>4, <1>5, <1>6, ReservationStep

\* What a node starts with.
ReservationsStart ==
    TypeInv /\ NonceLock /\ ReservationsMatchMempool /\ ReservationsCoverMempool

LEMMA ReservationsInit == Init => ReservationsStart
<1> SUFFICES ASSUME Init PROVE ReservationsStart
  OBVIOUS
<1>1. \A a \in Addr : LiveOf(a) = {} /\ \A t \in Token : accounts[a].pending[t] = 0
  BY DEF Init, LiveOf, Live, NoCall, EmptyAccount, Zero
<1>2. \A t \in Token : Reserved({}, t) = 0
  BY ReservedSum
<1>3. ReservationsMatchMempool /\ ReservationsCoverMempool
  <2>1. \A a \in Addr, t \in Token : Reserved(LiveOf(a), t) = 0 /\ accounts[a].pending[t] = 0
    BY <1>1, <1>2
  <2> QED
    BY <2>1 DEF ReservationsMatchMempool, ReservationsCoverMempool
<1> QED
  BY <1>3, TypeInvInit DEF Init, NonceLock, Live, NoCall, ReservationsStart

LEMMA ReservedNat ==
    ASSUME TypeOK
    PROVE  \A a \in Addr, t \in Token : Reserved(LiveOf(a), t) \in Nat
BY ReservedSum DEF TypeOK, LiveOf, Live

\* INV-PENDING-004 in release builds: what an account has reserved is exactly what
\* its live transactions will take, so drop_transaction and mine_block give back
\* all of it and nothing else's, whatever the order of the calls.
THEOREM ReservationsExact == OverflowChecks = FALSE => (Spec => []ReservationsMatchMempool)
<1> SUFFICES ASSUME OverflowChecks = FALSE PROVE Spec => []ReservationsMatchMempool
  OBVIOUS
<1> DEFINE IInv == TypeInv /\ NonceLock /\ ReservationsMatchMempool
<1>1. Init => IInv
  BY ReservationsInit DEF ReservationsStart
<1>2. IInv /\ [Next]_vars => IInv'
  <2>1. IInv /\ Next => ReservationsMatchMempool'
    <3> SUFFICES ASSUME IInv, Next, NEW a \in Addr \ {ZERO_ADDR}, NEW t \in Token
                 PROVE  accounts'[a].pending[t] = Reserved(LiveOf(a)', t)
      BY DEF ReservationsMatchMempool
    <3>1. \A tx : ~ApplyTxPanic(tx)
      BY DEF ApplyTxPanic, CreditFits, Adds
    <3>2. /\ TypeOK /\ NonceLock
          /\ accounts[a].pending[t] = Reserved(LiveOf(a), t)
      BY DEF TypeInv, ReservationsMatchMempool
    <3>3. accounts[a].pending[t] >= Reserved(LiveOf(a), t)
      BY <3>2, ReservedNat
    <3> QED
      BY <3>1, <3>2, <3>3, ReservationKept
  <2>2. IInv /\ Next => NonceLock'
    BY NonceLockStep
  <2>3. IInv /\ UNCHANGED vars => NonceLock' /\ ReservationsMatchMempool'
    BY DEF vars, NonceLock, ReservationsMatchMempool, LiveOf, Live
  <2> QED
    BY <2>1, <2>2, <2>3, TypeInvStep
<1>3. IInv => ReservationsMatchMempool
  OBVIOUS
<1> HIDE DEF IInv
<1> QED
  BY <1>1, <1>2, <1>3, PTL DEF Spec

\* The same in every build, mine_block calls unwound by a panic included: a live
\* transaction is never left without its reservation.
THEOREM ReservationsSuffice == Spec => []ReservationsCoverMempool
<1> DEFINE IInv == TypeInv /\ NonceLock /\ ReservationsCoverMempool
<1>1. Init => IInv
  BY ReservationsInit DEF ReservationsStart
<1>2. IInv /\ [Next]_vars => IInv'
  <2>1. IInv /\ Next => ReservationsCoverMempool'
    <3> SUFFICES ASSUME IInv, Next, NEW a \in Addr \ {ZERO_ADDR}, NEW t \in Token
                 PROVE  accounts'[a].pending[t] >= Reserved(LiveOf(a)', t)
      BY DEF ReservationsCoverMempool
    <3> QED
      BY ReservationKept DEF TypeInv, ReservationsCoverMempool
  <2>2. IInv /\ Next => NonceLock'
    BY NonceLockStep
  <2>3. IInv /\ UNCHANGED vars => NonceLock' /\ ReservationsCoverMempool'
    BY DEF vars, NonceLock, ReservationsCoverMempool, LiveOf, Live
  <2> QED
    BY <2>1, <2>2, <2>3, TypeInvStep
<1>3. IInv => ReservationsCoverMempool
  OBVIOUS
<1> HIDE DEF IInv
<1> QED
  BY <1>1, <1>2, <1>3, PTL DEF Spec

-----------------------------------------------------------------------------
(* What the accounts hold together *)

BalanceSum(accts, t) == SumFunction([a \in Addr |-> accts[a].balance[t]])

\* A total is at least each balance, and changes by what one balance changes.
LEMMA BalanceTotal ==
    ASSUME NEW old \in [Addr -> Account], NEW t \in Token
    PROVE  /\ BalanceSum(old, t) \in Nat
           /\ \A a \in Addr : old[a].balance[t] \in Nat /\ old[a].balance[t] <= BalanceSum(old, t)
           /\ \A new \in [Addr -> Account], a \in Addr :
                 (\A b \in Addr : b # a => new[b].balance = old[b].balance) =>
                     BalanceSum(new, t) = BalanceSum(old, t) + new[a].balance[t] - old[a].balance[t]
<1> DEFINE F(accts) == [a \in Addr |-> accts[a].balance[t]]
<1>1. ASSUME NEW accts \in [Addr -> Account]
      PROVE  DOMAIN F(accts) = Addr /\ \A a \in Addr : /\ F(accts)[a] = accts[a].balance[t]
                                                      /\ F(accts)[a] \in Nat
  BY DEF Account, Pair, Word
<1>2. IsFiniteSet(Addr) /\ \A accts : BalanceSum(accts, t) = SumFunction(F(accts))
  BY AddrAssumption DEF BalanceSum
<1> HIDE DEF F
<1>3. BalanceSum(old, t) \in Nat
  BY <1>1, <1>2, SumFunctionType
<1>4. \A a \in Addr : old[a].balance[t] \in Nat /\ old[a].balance[t] <= BalanceSum(old, t)
  BY <1>1, <1>2, SumFunctionBound
<1>5. ASSUME NEW new \in [Addr -> Account], NEW a \in Addr,
             \A b \in Addr : b # a => new[b].balance = old[b].balance
      PROVE  BalanceSum(new, t) = BalanceSum(old, t) + new[a].balance[t] - old[a].balance[t]
  <2>1. \A b \in Addr : F(old)[b] \in Int /\ (b # a => F(new)[b] = F(old)[b])
    BY <1>1, <1>5
  <2>2. F(new)[a] \in Int
    BY <1>1
  <2>3. DOMAIN F(old) = Addr /\ DOMAIN F(new) = Addr
    BY <1>1
  <2>4. SumFunction(F(new)) = SumFunction(F(old)) + F(new)[a] - F(old)[a]
    BY <1>2, <2>1, <2>2, <2>3, SumFunctionUpdate
  <2> QED
    BY <1>1, <1>2, <2>4
<1> QED
  BY <1>3, <1>4, <1>5

\* The fees of a set of transactions.
LEMMA FeeSum ==
    ASSUME NEW S, S \subseteq TxSpace, NEW t \in Token
    PROVE  /\ FeeTotal({})[t] = 0
           /\ FeeTotal(S)[t] \in Nat
           /\ \A x \in S :
                 FeeTotal(S \ {x})[t] = FeeTotal(S)[t] - FeeSplit(x.selector, x.fee)[t]
<1> DEFINE e == [x \in TxSpace |-> FeeSplit(x.selector, x.fee)[t]]
<1>1. DOMAIN e = TxSpace /\ \A x \in TxSpace : /\ e[x] = FeeSplit(x.selector, x.fee)[t]
                                              /\ e[x] \in Nat
  <2>1. \A x \in TxSpace : x.fee \in Nat
    BY InputAssumption, U64Assumption DEF Tx, Word
  <2> QED
    BY <2>1, FeeSplitExact
<1>2. IsFiniteSet(S)
  BY InputAssumption, FS_Subset
<1>3. \A U \in SUBSET TxSpace : [x \in U |-> e[x]] = [x \in U |-> FeeSplit(x.selector, x.fee)[t]]
  OBVIOUS
<1> HIDE DEF e
<1>4. \A U \in SUBSET TxSpace : FeeTotal(U)[t] = SumFunction([x \in U |-> e[x]])
  BY <1>3 DEF FeeTotal
<1>5. /\ SumFunction([x \in {} |-> e[x]]) = 0
      /\ SumFunction([x \in S |-> e[x]]) \in Nat
      /\ \A y \in S : SumFunction([x \in S \ {y} |-> e[x]]) = SumFunction([x \in S |-> e[x]]) - e[y]
  BY <1>1, <1>2, SumOver
<1>6. /\ {} \in SUBSET TxSpace /\ S \in SUBSET TxSpace
      /\ \A x \in S : S \ {x} \in SUBSET TxSpace
  OBVIOUS
<1> QED
  BY <1>1, <1>4, <1>5, <1>6

\* What the two sides of a transaction are worth; a debit that does not wrap is the
\* amount and the fee.
LEMMA CostTypes ==
    ASSUME NEW x \in TxSpace, NEW t \in Token
    PROVE  /\ x.amount[t] \in Nat /\ FeeSplit(x.selector, x.fee)[t] \in Nat
           /\ Cost(x)[t] = x.amount[t] + FeeSplit(x.selector, x.fee)[t]
           /\ Cost(x)[t] \in Nat
           /\ Cost(x)[t] < U64 => Debit(x)[t] = Cost(x)[t]
<1>1. x.fee \in Nat /\ x.amount \in Pair
  BY InputAssumption, U64Assumption DEF Tx, Word
<1>2. x.amount[t] \in Nat /\ FeeSplit(x.selector, x.fee)[t] \in Nat
  BY <1>1, FeeSplitExact DEF Pair, Word
<1>3. Cost(x)[t] = x.amount[t] + FeeSplit(x.selector, x.fee)[t] /\ Cost(x)[t] \in Nat
  BY <1>2 DEF Cost
<1>4. ASSUME Cost(x)[t] < U64
      PROVE  Debit(x)[t] = Cost(x)[t]
  <2>1. Cost(x)[t] \in Word
    BY <1>3, <1>4, U64Assumption DEF Word
  <2> QED
    BY <2>1, NoWrap DEF Debit
<1> QED
  BY <1>2, <1>3, <1>4

-----------------------------------------------------------------------------
(* Conservation of money *)

\* What wallets have to respect: nobody signs for the zero address, whose
\* transactions mine_block credits without a debit, and, in a build without overflow
\* checks, no transaction has an amount and a fee that together wrap around a u64.
WalletsSound ==
    \A tx \in TxSpace : /\ tx.from # ZERO_ADDR
                        /\ OverflowChecks \/ \A t \in Token : Cost(tx)[t] < U64

\* What the callers of add_account have to respect: all there is and will be of a
\* token fits in a u64.
DepositsFit == \A t \in Token : deposited[t] + MAX_SUPPLY[t] < U64

\* Conservation needs the reservations: they make every debit exact.  They need
\* conservation: it makes every credit exact, so that mine_block never unwinds.
\* Coverage is enough: a restarted node may have reserved more than its mempool takes.
MoneyInv ==
    /\ TypeInv
    /\ NonceLock
    /\ ReservationsCoverMempool
    /\ PendingWithinBalance
    /\ \A tx \in Live, t \in Token : Cost(tx)[t] < U64
    /\ \A t \in Token : FeesInFlight[t] >= 0
    /\ SupplyConserved

\* A live transaction is paid for: its sender has what it will take.
LEMMA LivePaid ==
    ASSUME MoneyInv, WalletsSound, NEW tx \in Live, NEW t \in Token
    PROVE  /\ tx \in TxSpace /\ tx.from \in known /\ tx.from \in Addr \ {ZERO_ADDR}
           /\ Cost(tx)[t] \in Nat
           /\ Debit(tx)[t] = Cost(tx)[t]
           /\ Cost(tx)[t] <= accounts[tx.from].balance[t]
<1>1. tx \in TxSpace /\ tx.from \in known /\ tx.from \in Addr \ {ZERO_ADDR}
  BY ChainTypes DEF MoneyInv, TypeInv, TypeOK, NonceLock, WalletsSound, Live
<1>2. Cost(tx)[t] \in Nat /\ Debit(tx)[t] = Cost(tx)[t]
  BY <1>1, CostTypes DEF MoneyInv
<1>3. LiveOf(tx.from) \subseteq TxSpace /\ tx \in LiveOf(tx.from)
  BY DEF MoneyInv, TypeInv, TypeOK, LiveOf, Live
<1>4. Debit(tx)[t] <= Reserved(LiveOf(tx.from), t) /\ Reserved(LiveOf(tx.from), t) \in Nat
  BY <1>3, ReservedSum
<1>5. /\ accounts[tx.from].pending[t] >= Reserved(LiveOf(tx.from), t)
      /\ accounts[tx.from].pending[t] <= accounts[tx.from].balance[t]
  BY <1>1 DEF MoneyInv, ReservationsCoverMempool, PendingWithinBalance
<1>6. accounts[tx.from].pending[t] \in Nat /\ accounts[tx.from].balance[t] \in Nat
  BY <1>1 DEF MoneyInv, TypeInv, TypeOK, Account, Pair, Word
<1> QED
  BY <1>1, <1>2, <1>4, <1>5, <1>6

\* What the accounts hold and what is on its way to the miner is deposited or
\* emitted, and fits in a u64 with the reward that is still to come.
LEMMA MoneyRoom ==
    ASSUME MoneyInv, DepositsFit, NEW t \in Token
    PROVE  /\ Held(t) \in Nat /\ Held(t) < U64
           /\ FeeTotal(call.todo)[t] \in Nat
           /\ call.coinbase[t] \in Nat /\ call.reward[t] \in Nat
           /\ deposited[t] \in Nat /\ emission[t] \in Nat
           /\ Held(t) + call.coinbase[t] - FeeTotal(call.todo)[t]
                = deposited[t] + emission[t] + call.reward[t]
           /\ deposited[t] + emission[t] + call.reward[t] < U64
<1>1. /\ call.coinbase[t] \in Nat /\ call.reward[t] \in Nat
      /\ deposited[t] \in Nat /\ emission[t] \in Nat
      /\ call.todo \subseteq TxSpace /\ accounts \in [Addr -> Account]
      /\ emission[t] + call.reward[t] <= MAX_SUPPLY[t]
      /\ MAX_SUPPLY[t] \in Nat
  BY SupplyAssumption DEF MoneyInv, TypeInv, TypeOK, EmissionWithinCap, Pair, Word
<1>2. FeeTotal(call.todo)[t] \in Nat
  BY <1>1, FeeSum
<1>3. Held(t) \in Nat
  BY <1>1, BalanceTotal DEF Held, BalanceSum
<1>4. FeesInFlight[t] = call.coinbase[t] - call.reward[t] - FeeTotal(call.todo)[t]
  BY DEF FeesInFlight
<1>5. FeesInFlight[t] >= 0 /\ Held(t) + FeesInFlight[t] = deposited[t] + emission[t]
  BY DEF MoneyInv, SupplyConserved
<1>6. deposited[t] + MAX_SUPPLY[t] < U64
  BY DEF DepositsFit
<1> QED
  BY <1>1, <1>2, <1>3, <1>4, <1>5, <1>6, U64Assumption

\* A transaction of the block takes exactly its cost from the total, and its
\* recipient has room for the amount.
LEMMA DebitTotal ==
    ASSUME MoneyInv, WalletsSound, DepositsFit, NEW tx \in call.todo, NEW t \in Token
    PROVE  /\ BalanceSum(AfterDebit(tx), t) = Held(t) - Cost(tx)[t]
           /\ AfterDebit(tx)[tx.to].balance[t] \in Nat
           /\ AfterDebit(tx)[tx.to].balance[t] + tx.amount[t] < U64
<1>1. /\ tx \in TxSpace /\ tx.from \in known /\ tx.from \in Addr /\ tx.from # ZERO_ADDR
      /\ Cost(tx)[t] \in Nat
      /\ Debit(tx)[t] = Cost(tx)[t]
      /\ Cost(tx)[t] <= accounts[tx.from].balance[t]
  BY LivePaid DEF Live
<1>2. /\ accounts \in [Addr -> Account] /\ AfterDebit(tx) \in [Addr -> Account]
      /\ tx.to \in Addr
      /\ \A a \in Addr : a # tx.from => AfterDebit(tx)[a].balance = accounts[a].balance
  BY AfterDebitTypes DEF MoneyInv, TypeInv, TypeOK
<1>3. AfterDebit(tx)[tx.from].balance = Minus(accounts[tx.from].balance, Debit(tx))
  BY <1>1, <1>2 DEF AfterDebit, Pays, Settle, Release, Account
<1>4. accounts[tx.from].balance[t] \in Nat
  BY <1>1, <1>2 DEF Account, Pair, Word
<1>5. AfterDebit(tx)[tx.from].balance[t] = accounts[tx.from].balance[t] - Cost(tx)[t]
  BY <1>1, <1>3, <1>4 DEF Minus, SatSub
<1>6. Held(t) \in Nat /\ Held(t) = BalanceSum(accounts, t) /\ Held(t) < U64
  BY MoneyRoom DEF Held, BalanceSum
<1>7. BalanceSum(AfterDebit(tx), t)
        = BalanceSum(accounts, t) + AfterDebit(tx)[tx.from].balance[t] - accounts[tx.from].balance[t]
  BY <1>1, <1>2, BalanceTotal
<1>8. BalanceSum(AfterDebit(tx), t) = Held(t) - Cost(tx)[t]
  BY <1>1, <1>4, <1>5, <1>6, <1>7
<1>9. /\ AfterDebit(tx)[tx.to].balance[t] \in Nat
      /\ AfterDebit(tx)[tx.to].balance[t] <= BalanceSum(AfterDebit(tx), t)
  BY <1>2, BalanceTotal
<1>10. /\ tx.amount[t] \in Nat /\ FeeSplit(tx.selector, tx.fee)[t] \in Nat
       /\ Cost(tx)[t] = tx.amount[t] + FeeSplit(tx.selector, tx.fee)[t]
  BY <1>1, CostTypes
<1> QED
  BY <1>6, <1>8, <1>9, <1>10, U64Assumption

LEMMA CreditsExact ==
    ASSUME MoneyInv, WalletsSound, DepositsFit, NEW tx \in call.todo
    PROVE  CreditExact(tx) /\ CreditFits(tx)
BY DebitTotal DEF CreditExact, CreditFits, Adds, Plus

\* The miner has room for the coinbase.
LEMMA CoinbaseExact ==
    ASSUME MoneyInv, DepositsFit, ~Idle, call.todo = {}
    PROVE  MinerFits
<1> SUFFICES ASSUME NEW t \in Token
             PROVE  accounts[call.miner].balance[t] + call.coinbase[t] < U64
  BY DEF MinerFits
<1>1. call.miner \in Addr /\ accounts \in [Addr -> Account]
  BY DEF MoneyInv, TypeInv, TypeOK, Idle
<1>2. /\ accounts[call.miner].balance[t] \in Nat
      /\ accounts[call.miner].balance[t] <= Held(t)
  BY <1>1, BalanceTotal DEF Held, BalanceSum
<1>3. FeeTotal(call.todo)[t] = 0
  BY FeeSum
<1> QED
  BY <1>2, <1>3, MoneyRoom, U64Assumption

\* The fees of the mempool are part of what their senders reserve: together they are
\* no more than what the accounts hold.
LEMMA FeesHeld ==
    ASSUME MoneyInv, WalletsSound, Idle, NEW t \in Token
    PROVE  FeeTotal(mempool)[t] \in Nat /\ FeeTotal(mempool)[t] <= Held(t)
<1> DEFINE f   == [x \in mempool |-> FeeSplit(x.selector, x.fee)[t]]
           key == [x \in mempool |-> x.from]
           Part(a) == {y \in mempool : key[y] = a}
           Fees(a) == SumFunction([s \in Part(a) |-> f[s]])
           fees    == [a \in Addr |-> Fees(a)]
           has     == [a \in Addr |-> accounts[a].balance[t]]
<1>1. /\ mempool \subseteq TxSpace /\ IsFiniteSet(mempool) /\ IsFiniteSet(Addr)
      /\ Live = mempool
      /\ \A x \in mempool : x.from \in Addr
  <2>1. mempool \subseteq TxSpace /\ call.todo = {}
    BY DEF MoneyInv, TypeInv, TypeOK, NoCall
  <2>2. \A x \in TxSpace : x.from \in Addr
    BY InputAssumption DEF Tx
  <2> QED
    BY <2>1, <2>2, InputAssumption, AddrAssumption, FS_Subset DEF Live
<1>2. \A x \in mempool : /\ FeeSplit(x.selector, x.fee)[t] \in Nat
                         /\ Debit(x)[t] \in Nat
                         /\ FeeSplit(x.selector, x.fee)[t] <= Debit(x)[t]
  <2> SUFFICES ASSUME NEW x \in mempool
               PROVE  /\ FeeSplit(x.selector, x.fee)[t] \in Nat
                      /\ Debit(x)[t] \in Nat
                      /\ FeeSplit(x.selector, x.fee)[t] <= Debit(x)[t]
    OBVIOUS
  <2>1. Debit(x)[t] = Cost(x)[t] /\ x \in TxSpace
    BY <1>1, LivePaid
  <2>2. /\ x.amount[t] \in Nat /\ FeeSplit(x.selector, x.fee)[t] \in Nat
        /\ Cost(x)[t] = x.amount[t] + FeeSplit(x.selector, x.fee)[t]
    BY <2>1, CostTypes
  <2> QED
    BY <2>1, <2>2
<1>3. DOMAIN f = mempool /\ \A x \in mempool : f[x] = FeeSplit(x.selector, x.fee)[t]
  OBVIOUS
<1>4. key \in [DOMAIN f -> Addr] /\ \A a : Part(a) = {x \in mempool : x.from = a}
  BY <1>1
<1>5. SumFunction(f) = SumFunction(fees)
  <2>1. \A s \in DOMAIN f : f[s] \in Int
    BY <1>2, <1>3
  <2>3. key \in [DOMAIN f -> Addr] /\ IsFiniteSet(DOMAIN f) /\ IsFiniteSet(Addr)
    BY <1>1, <1>3, <1>4
  <2> HIDE DEF f, key
  <2>2. SumFunction(f) = SumFunction([a \in Addr |->
                 SumFunction([s \in {y \in DOMAIN f : key[y] = a} |-> f[s]])])
    BY <2>1, <2>3, SumFunctionGroups
  <2> QED
    BY <1>3, <2>2
<1>6. ASSUME NEW a \in Addr
      PROVE  fees[a] \in Nat /\ has[a] \in Nat /\ fees[a] <= has[a]
  <2> DEFINE part == [s \in Part(a) |-> f[s]]
             debits == [s \in Part(a) |-> Debit(s)[t]]
  <2>1. /\ DOMAIN part = Part(a) /\ DOMAIN debits = Part(a) /\ IsFiniteSet(Part(a))
        /\ \A s \in Part(a) : part[s] \in Nat /\ debits[s] \in Nat /\ part[s] <= debits[s]
    BY <1>1, <1>2, FS_Subset
  <2>2. /\ Part(a) = LiveOf(a)
        /\ SumFunction(debits) = Reserved(LiveOf(a), t)
    BY <1>1, <1>4 DEF LiveOf, Reserved
  <2>3. SumFunction(part) <= SumFunction(debits) /\ SumFunction(part) \in Nat
        /\ SumFunction(debits) \in Nat
    <3> HIDE DEF part, debits, Part
    <3>1. \A s \in Part(a) : part[s] \in Int /\ debits[s] \in Int
      BY <2>1
    <3>2. SumFunction(part) \in Nat /\ SumFunction(debits) \in Nat
      BY <2>1, SumFunctionType
    <3> QED
      BY <2>1, <3>1, <3>2, SumFunctionMonotone
  <2>4. fees[a] = SumFunction(part)
    OBVIOUS
  <2>5. Reserved(LiveOf(a), t) <= has[a] /\ has[a] \in Nat
    <3>1. /\ accounts[a].balance[t] \in Nat /\ accounts[a].pending[t] \in Nat
          /\ accounts[a].pending[t] <= accounts[a].balance[t]
      BY DEF MoneyInv, TypeInv, TypeOK, Account, Pair, Word, PendingWithinBalance
    <3>2. CASE a # ZERO_ADDR
      <4>1. accounts[a].pending[t] >= Reserved(LiveOf(a), t)
        BY <3>2 DEF MoneyInv, ReservationsCoverMempool
      <4>2. Reserved(LiveOf(a), t) \in Nat
        BY ReservedNat DEF MoneyInv, TypeInv
      <4> QED
        BY <3>1, <4>1, <4>2
    <3>3. CASE a = ZERO_ADDR
      <4>1. LiveOf(a) = {}
        BY <1>1, <3>3 DEF LiveOf, WalletsSound
      <4>2. Reserved(LiveOf(a), t) = 0
        BY <4>1, ReservedSum
      <4> QED
        BY <3>1, <4>2
    <3> QED
      BY <3>2, <3>3
  <2> HIDE DEF fees, has, part, debits
  <2> QED
    BY <2>2, <2>3, <2>4, <2>5
<1>7. FeeTotal(mempool)[t] = SumFunction(f) /\ Held(t) = SumFunction(has)
  BY DEF FeeTotal, Held
<1>8. DOMAIN fees = Addr /\ DOMAIN has = Addr
  OBVIOUS
<1> HIDE DEF f, fees, has
<1>9. FeeTotal(mempool)[t] \in Nat
  BY <1>1, FeeSum
<1>10. \A a \in Addr : fees[a] \in Int /\ has[a] \in Int /\ fees[a] <= has[a]
  BY <1>6
<1> QED
  BY <1>1, <1>5, <1>7, <1>8, <1>9, <1>10, SumFunctionMonotone

\* mine_block never returns Err("Fee overflow"), nor panics in the cut of the reward.
LEMMA CoinbaseAlwaysFits ==
    ASSUME MoneyInv, WalletsSound, DepositsFit, Idle
    PROVE  CoinbaseFits
<1>1. ASSUME NEW t \in Token
      PROVE  /\ FeeTotal(mempool)[t] \in Word
             /\ NextReward[t] + FeeTotal(mempool)[t] < U64
             /\ emission[t] + Decay(block_reward)[t] < U64
             /\ emission[t] <= MAX_SUPPLY[t]
  <2>1. /\ Decay(block_reward)[t] \in Nat /\ NextReward[t] \in Nat
        /\ Decay(block_reward)[t] <= INITIAL_REWARD[t]
        /\ emission[t] + NextReward[t] <= MAX_SUPPLY[t]
    BY NextRewardFits DEF MoneyInv, Pair, Word
  <2>2. FeeTotal(mempool)[t] \in Nat /\ FeeTotal(mempool)[t] <= Held(t)
    BY FeesHeld
  <2>3. call.reward[t] = 0 /\ call.coinbase[t] = 0 /\ FeeTotal(call.todo)[t] = 0
    <3>1. call.reward[t] = 0 /\ call.coinbase[t] = 0 /\ call.todo = {}
      BY DEF MoneyInv, TypeInv, TypeOK, NoCall, Zero
    <3> QED
      BY <3>1, FeeSum
  <2>4. /\ Held(t) \in Nat /\ emission[t] \in Nat /\ deposited[t] \in Nat
        /\ Held(t) = deposited[t] + emission[t]
    BY <2>3, MoneyRoom
  <2>5. /\ MAX_SUPPLY[t] \in Nat /\ INITIAL_REWARD[t] \in Nat
        /\ MAX_SUPPLY[t] + INITIAL_REWARD[t] < U64
        /\ deposited[t] + MAX_SUPPLY[t] < U64
    BY SupplyAssumption DEF DepositsFit, Pair, Word
  <2> QED
    BY <2>1, <2>2, <2>4, <2>5, U64Assumption DEF Word
<1>2. CutFits
  BY <1>1 DEF CutFits
<1>3. FeeTotal(mempool) \in Pair
  BY <1>1 DEF FeeTotal, Pair
<1> QED
  BY <1>1, <1>2, <1>3 DEF CoinbaseFits

\* No step creates or loses money.
LEMMA SupplyStep ==
    ASSUME MoneyInv, WalletsSound, DepositsFit, Next
    PROVE  SupplyConserved' /\ \A t \in Token : FeesInFlight'[t] >= 0
<1> DEFINE Goal == \A t \in Token : /\ FeesInFlight'[t] >= 0
                                   /\ Held(t)' + FeesInFlight'[t] = deposited'[t] + emission'[t]
<1> SUFFICES Goal
  BY DEF SupplyConserved
<1>1. /\ TypeOK /\ TypeOK'
      /\ accounts \in [Addr -> Account] /\ accounts' \in [Addr -> Account]
      /\ \A t \in Token : /\ FeesInFlight[t] >= 0
                          /\ Held(t) + FeesInFlight[t] = deposited[t] + emission[t]
  <2>1. TypeOK' /\ TypeOK
    BY TypeStep DEF MoneyInv, TypeInv
  <2> QED
    BY <2>1 DEF MoneyInv, TypeOK, SupplyConserved
<1>2. \A t \in Token : /\ Held(t) = BalanceSum(accounts, t)
                       /\ Held(t)' = BalanceSum(accounts', t)
                       /\ FeesInFlight[t] = call.coinbase[t] - call.reward[t] - FeeTotal(call.todo)[t]
                       /\ FeesInFlight'[t] = call'.coinbase[t] - call'.reward[t] - FeeTotal(call'.todo)[t]
  BY DEF Held, BalanceSum, FeesInFlight, FeeTotal
<1>3. ASSUME NEW a \in Addr, \A b \in Addr : b # a => accounts'[b].balance = accounts[b].balance,
             NEW t \in Token
      PROVE  Held(t)' = Held(t) + accounts'[a].balance[t] - accounts[a].balance[t]
  BY <1>1, <1>2, <1>3, BalanceTotal
<1>4. ASSUME \A b \in Addr : accounts'[b].balance = accounts[b].balance, NEW t \in Token
      PROVE  Held(t)' = Held(t)
  <2>1. [a \in Addr |-> accounts'[a].balance[t]] = [a \in Addr |-> accounts[a].balance[t]]
    BY <1>4
  <2> QED
    BY <1>2, <2>1 DEF BalanceSum
<1>5. ASSUME call' = call, emission' = emission, deposited' = deposited,
             \A b \in Addr : accounts'[b].balance = accounts[b].balance
      PROVE  Goal
  BY <1>1, <1>2, <1>4, <1>5
<1>6. ASSUME NEW a \in Addr, NEW start \in Deposits, AddAccount(a, start)
      PROVE  Goal
  <2>1. \A b \in Addr : b # a => accounts'[b].balance = accounts[b].balance
    BY <1>1, <1>6 DEF AddAccount
  <2>2. accounts'[a].balance = start /\ accounts[a].balance = Zero
    BY <1>1, <1>6 DEF AddAccount, TypeOK, EmptyAccount
  <2>3. ASSUME NEW t \in Token
        PROVE  /\ Held(t)' = Held(t) + start[t]
               /\ deposited'[t] = deposited[t] + start[t]
               /\ emission' = emission /\ call' = call
               /\ start[t] \in Nat /\ deposited[t] \in Nat /\ emission[t] \in Nat
               /\ Held(t) \in Nat
    <3>1. Held(t)' = Held(t) + start[t] - 0
      BY <1>3, <2>1, <2>2 DEF Zero
    <3>2. Held(t) \in Nat
      BY <1>1, <1>2, BalanceTotal
    <3>3. start[t] \in Nat /\ deposited[t] \in Nat /\ emission[t] \in Nat
      BY <1>1, InputAssumption DEF TypeOK, Pair, Word
    <3> QED
      BY <1>6, <3>1, <3>2, <3>3 DEF AddAccount, Plus
  <2>4. \A t \in Token : FeesInFlight'[t] = FeesInFlight[t] /\ FeesInFlight[t] \in Int
    <3>1. \A t \in Token : /\ call.coinbase[t] \in Int /\ call.reward[t] \in Int
                           /\ FeeTotal(call.todo)[t] \in Int
      BY MoneyRoom
    <3> QED
      BY <1>2, <2>3, <3>1
  <2> QED
    BY <1>1, <2>3, <2>4
<1>7. ASSUME NEW tx \in TxSpace, SubmitTransaction(tx) \/ (tx \in mempool /\ DropTransaction(tx))
      PROVE  Goal
  <2>1. \A b \in Addr : /\ Reserve(accounts[b], tx).balance = accounts[b].balance
                        /\ Release(accounts[b], tx).balance = accounts[b].balance
    BY <1>1 DEF Reserve, Release, Account
  <2>2. \A b \in Addr : accounts'[b].balance = accounts[b].balance
    BY <1>1, <1>7, <2>1 DEF SubmitTransaction, DropTransaction
  <2> QED
    BY <1>5, <1>7, <2>2 DEF SubmitTransaction, DropTransaction
<1>8. ASSUME NEW m \in Miners, MineBlock(m)
      PROVE  Goal
  <2>1. \A t \in Token : Held(t)' = Held(t)
    BY <1>4, <1>8 DEF MineBlock
  <2>2. ASSUME NEW t \in Token
        PROVE  FeesInFlight'[t] = 0 /\ FeesInFlight[t] = 0
    <3>1. /\ call'.coinbase[t] = NextReward[t] + FeeTotal(mempool)[t]
          /\ call'.reward[t] = NextReward[t] /\ call'.todo = mempool
      BY <1>8 DEF MineBlock, Plus
    <3>2. NextReward[t] \in Int /\ FeeTotal(mempool)[t] \in Int
      <4>1. NextReward[t] \in Int
        BY <1>1, RewardTypes DEF Pair, Word
      <4>2. mempool \subseteq TxSpace
        BY <1>1 DEF TypeOK
      <4> QED
        BY <4>1, <4>2, FeeSum
    <3>3. call.coinbase[t] = 0 /\ call.reward[t] = 0 /\ call.todo = {}
      BY <1>1, <1>8 DEF MineBlock, TypeOK, NoCall, Zero
    <3>4. FeeTotal(call.todo)[t] = 0
      BY <3>3, FeeSum
    <3> QED
      BY <1>2, <3>1, <3>2, <3>3, <3>4
  <2>3. deposited' = deposited /\ emission' = emission
    BY <1>8 DEF MineBlock
  <2> QED
    BY <1>1, <2>1, <2>2, <2>3
<1>9. ASSUME NEW tx \in call.todo, ApplyTx(tx)
      PROVE  Goal
  <2>1. /\ tx \in TxSpace /\ tx.to \in Addr /\ AfterDebit(tx) \in [Addr -> Account]
        /\ call.todo \subseteq TxSpace
    BY <1>1, AfterDebitTypes DEF TypeOK
  <2>2. accounts' = [AfterDebit(tx) EXCEPT
                       ![tx.to].balance = PlusMod(AfterDebit(tx)[tx.to].balance, tx.amount)]
    BY <1>9 DEF ApplyTx
  <2>3. /\ \A b \in Addr : b # tx.to => accounts'[b].balance = AfterDebit(tx)[b].balance
        /\ accounts'[tx.to].balance = PlusMod(AfterDebit(tx)[tx.to].balance, tx.amount)
    BY <2>1, <2>2 DEF Account
  <2>4. call' = [call EXCEPT !.todo = call.todo \ {tx}]
        /\ emission' = emission /\ deposited' = deposited
    BY <1>9 DEF ApplyTx
  <2> SUFFICES ASSUME NEW t \in Token
               PROVE  /\ FeesInFlight'[t] >= 0
                      /\ Held(t)' + FeesInFlight'[t] = deposited'[t] + emission'[t]
    OBVIOUS
  <2>5. /\ BalanceSum(AfterDebit(tx), t) = Held(t) - Cost(tx)[t]
        /\ AfterDebit(tx)[tx.to].balance[t] \in Nat
        /\ AfterDebit(tx)[tx.to].balance[t] + tx.amount[t] < U64
    BY DebitTotal
  <2>6. /\ tx.amount[t] \in Nat /\ FeeSplit(tx.selector, tx.fee)[t] \in Nat
        /\ Cost(tx)[t] = tx.amount[t] + FeeSplit(tx.selector, tx.fee)[t]
    BY <2>1, CostTypes
  <2>7. accounts'[tx.to].balance[t] = AfterDebit(tx)[tx.to].balance[t] + tx.amount[t]
    <3>1. AfterDebit(tx)[tx.to].balance[t] + tx.amount[t] \in Word
      BY <2>5, <2>6, U64Assumption DEF Word
    <3> QED
      BY <2>3, <3>1, NoWrap DEF PlusMod
  <2>8. Held(t)' = BalanceSum(AfterDebit(tx), t) + accounts'[tx.to].balance[t]
                   - AfterDebit(tx)[tx.to].balance[t]
    BY <1>1, <1>2, <2>1, <2>3, BalanceTotal
  <2>9. FeeTotal(call'.todo)[t] = FeeTotal(call.todo)[t] - FeeSplit(tx.selector, tx.fee)[t]
    <3>1. call'.todo = call.todo \ {tx}
      BY <1>1, <2>4 DEF TypeOK
    <3> QED
      BY <2>1, <3>1, FeeSum
  <2>10. call'.coinbase = call.coinbase /\ call'.reward = call.reward
    BY <1>1, <2>4 DEF TypeOK
  <2>11. /\ Held(t) \in Nat /\ FeeTotal(call.todo)[t] \in Nat
         /\ call.coinbase[t] \in Nat /\ call.reward[t] \in Nat
         /\ deposited[t] \in Nat /\ emission[t] \in Nat
    BY MoneyRoom
  <2> QED
    BY <1>1, <1>2, <2>4, <2>5, <2>6, <2>7, <2>8, <2>9, <2>10, <2>11
<1>10. ASSUME CreditMiner
       PROVE  Goal
  <2>1. call.miner \in Addr /\ MinerFits /\ call.todo = {}
    BY <1>1, <1>10 DEF CreditMiner, TypeOK, Idle
  <2>2. accounts' = [accounts EXCEPT ![call.miner].balance
                       = Plus(accounts[call.miner].balance, call.coinbase)]
    BY <1>10 DEF CreditMiner
  <2>3. /\ \A b \in Addr : b # call.miner => accounts'[b].balance = accounts[b].balance
        /\ accounts'[call.miner].balance = Plus(accounts[call.miner].balance, call.coinbase)
    BY <1>1, <2>1, <2>2 DEF Account
  <2>4. call' = NoCall /\ deposited' = deposited /\ emission' = PlusMod(emission, call.reward)
    BY <1>10 DEF CreditMiner
  <2> SUFFICES ASSUME NEW t \in Token
               PROVE  /\ FeesInFlight'[t] >= 0
                      /\ Held(t)' + FeesInFlight'[t] = deposited'[t] + emission'[t]
    OBVIOUS
  <2>5. Held(t)' = Held(t) + accounts'[call.miner].balance[t] - accounts[call.miner].balance[t]
    BY <1>3, <2>1, <2>3
  <2>6. accounts[call.miner].balance[t] \in Nat
    BY <1>1, <2>1, BalanceTotal
  <2>7. FeeTotal({})[t] = 0
    BY FeeSum
  <2>8. /\ Held(t) \in Nat
        /\ call.coinbase[t] \in Nat /\ call.reward[t] \in Nat
        /\ deposited[t] \in Nat /\ emission[t] \in Nat
        /\ Held(t) + call.coinbase[t] - FeeTotal(call.todo)[t]
             = deposited[t] + emission[t] + call.reward[t]
        /\ deposited[t] + emission[t] + call.reward[t] < U64
    BY MoneyRoom
  <2>9. emission'[t] = emission[t] + call.reward[t]
    <3>1. emission[t] + call.reward[t] \in Word
      BY <2>8, U64Assumption DEF Word
    <3> QED
      BY <2>4, <3>1, NoWrap DEF PlusMod
  <2>10. Held(t)' = Held(t) + call.coinbase[t]
    BY <2>3, <2>5, <2>6, <2>8 DEF Plus
  <2>11. FeesInFlight'[t] = 0
    BY <1>2, <2>4, <2>7 DEF NoCall, Zero
  <2> QED
    BY <2>1, <2>4, <2>7, <2>8, <2>9, <2>10, <2>11
<1>11. ASSUME GenesisBlock \/ MineFeeOverflow \/ (\E tx \in TxSpace : RejectTransaction(tx))
       PROVE  Goal
  BY <1>5, <1>11 DEF GenesisBlock, MineFeeOverflow, RejectTransaction, vars
<1>12. \A tx \in call.todo : ~ApplyTxPanic(tx)
  BY CreditsExact DEF ApplyTxPanic
<1>13. ~CreditMinerPanic
  BY CoinbaseExact DEF CreditMinerPanic
<1>14. mempool \subseteq TxSpace
  BY <1>1 DEF TypeOK
<1> HIDE DEF Goal
<1> QED
  BY <1>6, <1>7, <1>8, <1>9, <1>10, <1>11, <1>12, <1>13, <1>14 DEF Next, UnsavedStep

LEMMA MoneyInit == Init /\ WalletsSound => MoneyInv
<1> SUFFICES ASSUME Init PROVE MoneyInv
  OBVIOUS
<1>1. TypeInv /\ NonceLock /\ ReservationsCoverMempool
  BY ReservationsInit DEF ReservationsStart
<1>2. PendingWithinBalance /\ Live = {}
  BY DEF Init, PendingWithinBalance, Live, NoCall, EmptyAccount, Zero
<1>3. ASSUME NEW t \in Token
      PROVE  FeesInFlight[t] = 0 /\ Held(t) = 0 /\ deposited[t] = 0 /\ emission[t] = 0
  <2>1. FeeTotal({})[t] = 0
    BY FeeSum
  <2>2. /\ call.coinbase[t] = 0 /\ call.reward[t] = 0 /\ call.todo = {}
        /\ deposited[t] = 0 /\ emission[t] = 0
    BY DEF Init, NoCall, Zero
  <2>3. FeesInFlight[t] = 0
    BY <2>1, <2>2 DEF FeesInFlight
  <2> DEFINE has == [a \in Addr |-> accounts[a].balance[t]]
  <2>4. DOMAIN has = Addr /\ \A a \in Addr : has[a] = 0
    BY DEF Init, EmptyAccount, Zero
  <2>5. Held(t) = SumFunction(has)
    BY DEF Held
  <2> HIDE DEF has
  <2>6. SumFunction(has) = 0
    BY <2>4, SumFunctionType, AddrAssumption
  <2> QED
    BY <2>2, <2>3, <2>5, <2>6
<1> QED
  BY <1>1, <1>2, <1>3 DEF MoneyInv, SupplyConserved

\* An admitted transaction does not wrap, in either build.
LEMMA CostStep ==
    ASSUME MoneyInv, WalletsSound, Next
    PROVE  \A tx \in Live', t \in Token : Cost(tx)[t] < U64
<1>1. TypeOK /\ \A tx \in Live, t \in Token : Cost(tx)[t] < U64
  BY DEF MoneyInv, TypeInv
<1>2. ASSUME NEW tx \in TxSpace, SubmitTransaction(tx)
      PROVE  /\ Live' = Live \cup {tx}
             /\ \A t \in Token : Cost(tx)[t] < U64
  BY <1>2 DEF SubmitTransaction, Admissible, Adds, WalletsSound, Live
<1>3. ASSUME ~\E tx \in TxSpace : SubmitTransaction(tx)
      PROVE  Live' \subseteq Live
  <2>1. ASSUME mempool' \subseteq Live, call'.todo \subseteq Live
        PROVE  Live' \subseteq Live
    BY <2>1 DEF Live
  <2>2. ASSUME mempool' = mempool \/ mempool' \subseteq mempool, call' = call \/ call' = NoCall
        PROVE  Live' \subseteq Live
    BY <2>2 DEF Live, NoCall
  <2>3. ASSUME NEW m \in Miners, MineBlock(m)
        PROVE  Live' \subseteq Live
    BY <2>1, <2>3 DEF MineBlock, Live
  <2>4. ASSUME NEW tx \in call.todo, ApplyTx(tx)
        PROVE  Live' \subseteq Live
    <3>1. call'.todo = call.todo \ {tx} /\ mempool' = mempool
      BY <1>1, <2>4 DEF ApplyTx, TypeOK
    <3> QED
      BY <2>1, <3>1 DEF Live
  <2>5. CASE \/ \E a \in Addr, start \in Deposits : AddAccount(a, start)
             \/ \E tx \in TxSpace : RejectTransaction(tx)
             \/ \E tx \in mempool : DropTransaction(tx)
             \/ GenesisBlock
             \/ MineFeeOverflow
             \/ \E tx \in call.todo : ApplyTxPanic(tx)
             \/ CreditMiner
             \/ CreditMinerPanic
    BY <2>2, <2>5
    DEF AddAccount, GenesisBlock, RejectTransaction, DropTransaction, MineFeeOverflow,
        ApplyTxPanic, CreditMiner, CreditMinerPanic, vars
  <2> QED
    BY <1>3, <2>3, <2>4, <2>5 DEF Next, UnsavedStep
<1> QED
  BY <1>1, <1>2, <1>3

LEMMA MoneyStep ==
    ASSUME MoneyInv, WalletsSound, DepositsFit, [Next]_vars
    PROVE  MoneyInv'
<1>1. CASE UNCHANGED vars
  <2>1. TypeInv'
    BY <1>1, TypeInvStep DEF MoneyInv
  <2>2. /\ accounts' = accounts /\ call' = call /\ mempool' = mempool /\ known' = known
        /\ deposited' = deposited /\ emission' = emission
    BY <1>1 DEF vars
  <2>3. NonceLock' /\ ReservationsCoverMempool' /\ PendingWithinBalance' /\ Live' = Live
    BY <2>2 DEF MoneyInv, NonceLock, ReservationsCoverMempool, PendingWithinBalance,
                Reserved, LiveOf, Live
  <2>4. FeesInFlight' = FeesInFlight /\ SupplyConserved'
    BY <2>2 DEF MoneyInv, FeesInFlight, SupplyConserved, Held, FeeTotal
  <2> QED
    BY <2>1, <2>3, <2>4 DEF MoneyInv
<1>2. CASE Next
  <2>1. TypeInv' /\ NonceLock'
    BY <1>2, TypeInvStep, NonceLockStep DEF MoneyInv
  <2>2. ReservationsCoverMempool'
    <3> SUFFICES ASSUME NEW a \in Addr \ {ZERO_ADDR}, NEW t \in Token
                 PROVE  accounts'[a].pending[t] >= Reserved(LiveOf(a)', t)
      BY DEF ReservationsCoverMempool
    <3>1. TypeOK /\ NonceLock /\ accounts[a].pending[t] >= Reserved(LiveOf(a), t)
      BY DEF MoneyInv, TypeInv, ReservationsCoverMempool
    <3> QED
      BY <1>2, <3>1, ReservationKept
  <2>3. PendingWithinBalance'
    <3>1. \A tx \in call.todo : CreditExact(tx)
      BY CreditsExact
    <3>2. CoverInv
      BY DEF MoneyInv, TypeInv, CoverInv
    <3>3. \A a \in Addr : Covered(accounts'[a])
      BY <1>2, <3>1, <3>2, CoverStep
    <3> QED
      BY <3>3 DEF PendingWithinBalance, Covered
  <2>4. \A tx \in Live', t \in Token : Cost(tx)[t] < U64
    BY <1>2, CostStep
  <2>5. SupplyConserved' /\ \A t \in Token : FeesInFlight'[t] >= 0
    BY <1>2, SupplyStep
  <2>6. \A tx : (Cost(tx))' = Cost(tx)
    BY DEF Cost
  <2> QED
    BY <2>1, <2>2, <2>3, <2>4, <2>5, <2>6 DEF MoneyInv
<1> QED
  BY <1>1, <1>2

\* The invariant of a deployment whose wallets and deposits are sound.
LEMMA MoneyAlways ==
    ASSUME WalletsSound
    PROVE  Spec /\ []DepositsFit => []MoneyInv
<1>1. Init => MoneyInv
  BY MoneyInit
<1>2. MoneyInv /\ DepositsFit /\ [Next]_vars => MoneyInv'
  BY MoneyStep
<1> QED
  BY <1>1, <1>2, PTL DEF Spec

\* Supply neutrality and INV-FEE-01, in both builds: at every step of every call the
\* balances and the fees on their way to the miner add up to what was deposited and
\* what was emitted.
THEOREM MoneyConserved == WalletsSound => (Spec /\ []DepositsFit => []SupplyConserved)
<1> SUFFICES ASSUME WalletsSound PROVE Spec /\ []DepositsFit => []SupplyConserved
  OBVIOUS
<1>1. MoneyInv => SupplyConserved
  BY DEF MoneyInv
<1> QED
  BY <1>1, MoneyAlways, PTL

\* INV-PENDING-002 in both builds: the saturating subtractions of mine_block are
\* exact in a deployment whose wallets and deposits are sound.
THEOREM ReservationsAffordable ==
    WalletsSound => (Spec /\ []DepositsFit => []PendingWithinBalance)
<1> SUFFICES ASSUME WalletsSound PROVE Spec /\ []DepositsFit => []PendingWithinBalance
  OBVIOUS
<1>1. MoneyInv => PendingWithinBalance
  BY DEF MoneyInv
<1> QED
  BY <1>1, MoneyAlways, PTL

\* A mine_block call in such a deployment always comes to its end: it returns no
\* Err("Fee overflow"), and no panic leaves a block on the chain whose transactions
\* or whose reward were not applied.
THEOREM MiningAlwaysSucceeds ==
    WalletsSound => (Spec /\ []DepositsFit => []MiningSucceeds)
<1> SUFFICES ASSUME WalletsSound PROVE Spec /\ []DepositsFit => []MiningSucceeds
  OBVIOUS
<1>1. MoneyInv /\ DepositsFit => MiningSucceeds
  BY CoinbaseAlwaysFits, CreditsExact, CoinbaseExact DEF MiningSucceeds
<1> QED
  BY <1>1, MoneyAlways, PTL

-----------------------------------------------------------------------------
(* The total of a chain *)

\* What the coinbases of ch pay beyond fees.
Issued(ch, t) == SumFunction([i \in DOMAIN ch |-> ch[i].coinbase[t] - ch[i].fees[t]])

LEMMA IssuedAppend ==
    ASSUME NEW ch \in Seq(Block), NEW b \in Block, NEW t \in Token
    PROVE  /\ Issued(ch, t) \in Int
           /\ Issued(Append(ch, b), t) = Issued(ch, t) + b.coinbase[t] - b.fees[t]
<1> DEFINE f == [i \in DOMAIN ch |-> ch[i].coinbase[t] - ch[i].fees[t]]
           g == [i \in DOMAIN Append(ch, b) |->
                    Append(ch, b)[i].coinbase[t] - Append(ch, b)[i].fees[t]]
           n == Len(ch) + 1
<1>1. \A c \in Block : c.coinbase[t] \in Int /\ c.fees[t] \in Int
  BY U64Assumption DEF Block, Pair, Word
<1>2. /\ DOMAIN ch = 1 .. Len(ch) /\ DOMAIN Append(ch, b) = 1 .. n /\ Len(ch) \in Nat
      /\ \A i \in DOMAIN ch : ch[i] \in Block /\ Append(ch, b)[i] = ch[i]
      /\ Append(ch, b)[n] = b
  OBVIOUS
<1>3. DOMAIN f = 1 .. Len(ch) /\ DOMAIN g = 1 .. (Len(ch) + 1)
  BY <1>2
<1>4. n = Len(ch) + 1
  OBVIOUS
<1>5. \A i \in 1 .. Len(ch) : f[i] \in Int /\ g[i] = f[i]
  <2> SUFFICES ASSUME NEW i \in 1 .. Len(ch)
               PROVE  f[i] \in Int /\ g[i] = f[i]
    OBVIOUS
  <2>1. f[i] = ch[i].coinbase[t] - ch[i].fees[t] /\ ch[i] \in Block /\ Append(ch, b)[i] = ch[i]
    BY <1>2
  <2>2. g[i] = Append(ch, b)[i].coinbase[t] - Append(ch, b)[i].fees[t]
    BY <1>2
  <2> QED
    BY <1>1, <2>1, <2>2
<1>6. g[n] = b.coinbase[t] - b.fees[t]
  BY <1>2
<1>7. b.coinbase[t] \in Int /\ b.fees[t] \in Int
  BY <1>1
<1>8. Issued(ch, t) = SumFunction(f) /\ Issued(Append(ch, b), t) = SumFunction(g)
  BY DEF Issued
<1> HIDE DEF f, g, n
<1>9. SumFunction(f) \in Int /\ SumFunction(g) = SumFunction(f) + g[n]
  <2>1. g[Len(ch) + 1] \in Int
    BY <1>4, <1>6, <1>7
  <2> QED
    BY <1>2, <1>3, <1>4, <1>5, <2>1, SumAppend
<1> QED
  BY <1>6, <1>7, <1>8, <1>9

\* One block more.
LEMMA PushedBlock ==
    ASSUME TypeOK, TypeOK', NEW b, chain' = Append(chain, b)
    PROVE  b \in Block /\ Len(chain') = Len(chain) + 1
<1>1. chain'[Len(chain) + 1] = b /\ Len(chain') = Len(chain) + 1
  BY DEF TypeOK
<1>2. chain' \in Seq(Block) /\ Len(chain) + 1 \in DOMAIN chain'
  BY <1>1 DEF TypeOK
<1> QED
  BY <1>1, <1>2

-----------------------------------------------------------------------------
(* Emission and height *)

CounterInv == MoneyInv /\ CountersMatchChain

LEMMA CounterStep ==
    ASSUME CounterInv, WalletsSound, DepositsFit, Next, GenesisHeights \subseteq {0}
    PROVE  CountersMatchChain'
<1> DEFINE Goal == /\ \A t \in Token : emission'[t] + call'.reward[t] = Issued(chain', t)
                   /\ block_height' + (IF Idle' THEN 0 ELSE 1) = Len(chain')
<1>1. /\ TypeOK /\ TypeOK' /\ MoneyInv
      /\ \A t \in Token : /\ emission[t] + call.reward[t] = Issued(chain, t)
                          /\ emission[t] \in Nat /\ call.reward[t] \in Nat
      /\ block_height + (IF Idle THEN 0 ELSE 1) = Len(chain)
      /\ block_height \in Nat /\ chain \in Seq(Block)
  <2>1. TypeOK /\ TypeOK' /\ MoneyInv
    BY TypeStep DEF CounterInv, MoneyInv, TypeInv
  <2>2. /\ \A t \in Token : emission[t] + call.reward[t] = Issued(chain, t)
        /\ block_height + (IF Idle THEN 0 ELSE 1) = Len(chain)
    BY DEF CounterInv, CountersMatchChain, Issued
  <2>3. emission \in Pair /\ call.reward \in Pair /\ block_height \in Nat /\ chain \in Seq(Block)
    BY <2>1 DEF TypeOK
  <2>4. \A t \in Token : emission[t] \in Nat /\ call.reward[t] \in Nat
    BY <2>3, U64Assumption DEF Pair, Word
  <2> QED
    BY <2>1, <2>2, <2>3, <2>4
<1> SUFFICES Goal
  BY DEF CountersMatchChain, Issued
<1>2. ASSUME chain' = chain, emission' = emission, block_height' = block_height,
             call'.reward = call.reward, Idle' = Idle
      PROVE  Goal
  BY <1>1, <1>2
<1>3. CASE GenesisBlock
  <2>1. /\ Genesis \in Block
        /\ call' = call /\ emission' = emission /\ Idle' = Idle
        /\ chain' = Append(chain, Genesis) /\ block_height' = 1 /\ Len(chain) = 0
        /\ Len(chain') = Len(chain) + 1
    BY <1>1, <1>3, PushedBlock DEF GenesisBlock, Idle
  <2>2. Idle
    BY <1>3 DEF GenesisBlock
  <2>3. \A t \in Token : Issued(Append(chain, Genesis), t) = Issued(chain, t)
    <3> SUFFICES ASSUME NEW t \in Token
                 PROVE  Issued(Append(chain, Genesis), t) = Issued(chain, t)
      OBVIOUS
    <3>1. /\ Issued(chain, t) \in Int
          /\ Issued(Append(chain, Genesis), t)
               = Issued(chain, t) + Genesis.coinbase[t] - Genesis.fees[t]
      BY <1>1, <2>1, IssuedAppend
    <3>2. Genesis.coinbase[t] = 0 /\ Genesis.fees[t] = 0
      BY DEF Genesis, Zero
    <3> QED
      BY <3>1, <3>2
  <2> QED
    BY <1>1, <2>1, <2>2, <2>3
<1>4. ASSUME NEW m \in Miners, MineBlock(m)
      PROVE  Goal
  <2> DEFINE b == [miner |-> m, coinbase |-> Plus(NextReward, FeeTotal(mempool)),
                   fees |-> FeeTotal(mempool), txs |-> mempool]
  <2>1. chain' = Append(chain, b) /\ emission' = emission /\ call'.reward = NextReward
        /\ block_height' = block_height /\ call'.miner = m /\ Idle
    BY <1>4 DEF MineBlock
  <2>2. b \in Block /\ Len(chain') = Len(chain) + 1
    <3> HIDE DEF b
    <3> QED BY <1>1, <2>1, PushedBlock
  <2>3. Idle /\ ~Idle' /\ call.reward = Zero
    BY <1>1, <2>1, InputAssumption, AddrAssumption DEF Idle, TypeOK, NoCall
  <2>4. ASSUME NEW t \in Token
        PROVE  emission'[t] + call'.reward[t] = Issued(chain', t)
    <3>1. /\ Issued(chain, t) \in Int
          /\ Issued(Append(chain, b), t) = Issued(chain, t) + b.coinbase[t] - b.fees[t]
      <4> HIDE DEF b
      <4> QED BY <1>1, <2>2, IssuedAppend
    <3>2. b.coinbase[t] = NextReward[t] + FeeTotal(mempool)[t] /\ b.fees[t] = FeeTotal(mempool)[t]
      BY DEF Plus
    <3>3. NextReward[t] \in Int
      BY <1>1, RewardTypes DEF Pair, Word
    <3>4. FeeTotal(mempool)[t] \in Int
      <4>1. mempool \subseteq TxSpace
        BY <1>1 DEF TypeOK
      <4> QED BY <4>1, FeeSum
    <3>5. emission[t] = Issued(chain, t)
      BY <1>1, <2>3 DEF Zero
    <3> HIDE DEF b
    <3> QED
      BY <2>1, <3>1, <3>2, <3>3, <3>4, <3>5
  <2> HIDE DEF b
  <2> QED
    BY <1>1, <2>1, <2>2, <2>3, <2>4
<1>5. CASE CreditMiner
  <2>1. /\ chain' = chain /\ block_height' = block_height + 1
        /\ ~Idle /\ Idle' /\ call'.reward = Zero
        /\ emission' = PlusMod(emission, call.reward)
    BY <1>5 DEF CreditMiner, Idle, NoCall
  <2>2. ASSUME NEW t \in Token
        PROVE  emission'[t] = emission[t] + call.reward[t]
    <3>1. emission[t] + call.reward[t] \in Word
      <4>1. /\ deposited[t] \in Nat
            /\ deposited[t] + emission[t] + call.reward[t] < U64
        BY <1>1, MoneyRoom
      <4> QED
        BY <1>1, <4>1, U64Assumption DEF Word
    <3> QED
      BY <2>1, <3>1, NoWrap DEF PlusMod
  <2> QED
    BY <1>1, <2>1, <2>2 DEF Zero
<1>6. ASSUME NEW tx \in call.todo, ApplyTx(tx)
      PROVE  Goal
  <2>1. call'.reward = call.reward /\ call'.miner = call.miner
    BY <1>1, <1>6 DEF ApplyTx, TypeOK
  <2> QED
    BY <1>2, <1>6, <2>1 DEF ApplyTx, Idle
<1>7. CASE \/ \E a \in Addr, start \in Deposits : AddAccount(a, start)
           \/ \E tx \in TxSpace : SubmitTransaction(tx)
           \/ \E tx \in TxSpace : RejectTransaction(tx)
           \/ \E tx \in mempool : DropTransaction(tx)
           \/ MineFeeOverflow
  <2>1. chain' = chain /\ emission' = emission /\ block_height' = block_height /\ call' = call
    BY <1>7 DEF AddAccount, SubmitTransaction, RejectTransaction, DropTransaction,
                MineFeeOverflow, vars
  <2> QED
    BY <1>2, <2>1 DEF Idle
<1>8. \A tx \in call.todo : ~ApplyTxPanic(tx)
  BY <1>1, CreditsExact DEF ApplyTxPanic
<1>9. ~CreditMinerPanic
  BY <1>1, CoinbaseExact DEF CreditMinerPanic
<1> HIDE DEF Goal
<1> QED
  BY <1>3, <1>4, <1>5, <1>6, <1>7, <1>8, <1>9 DEF Next, UnsavedStep

\* emission_* is what the coinbases of the chain pay beyond fees, block_height is
\* the length of the chain: no failed or interrupted call leaves one behind the
\* other, when genesis_block is only called on an empty chain.
THEOREM CountersFollowChain ==
    (WalletsSound /\ GenesisHeights \subseteq {0}) =>
        (Spec /\ []DepositsFit => []CountersMatchChain)
<1> SUFFICES ASSUME WalletsSound, GenesisHeights \subseteq {0}
             PROVE  Spec /\ []DepositsFit => []CountersMatchChain
  OBVIOUS
<1>1. Init => CounterInv
  <2> SUFFICES ASSUME Init PROVE CounterInv
    OBVIOUS
  <2>1. MoneyInv
    BY MoneyInit
  <2>2. block_height = 0 /\ Idle /\ Len(chain) = 0 /\ DOMAIN chain = {}
    BY DEF Init, Idle, NoCall
  <2>3. ASSUME NEW t \in Token
        PROVE  emission[t] + call.reward[t] = Issued(chain, t)
    <3> DEFINE f == [i \in DOMAIN chain |-> chain[i].coinbase[t] - chain[i].fees[t]]
    <3>1. DOMAIN f = {} /\ Issued(chain, t) = SumFunction(f)
      BY <2>2 DEF Issued
    <3> HIDE DEF f
    <3>2. SumFunction(f) = 0
      BY <3>1, SumFunctionType, FS_EmptySet
    <3>3. emission[t] = 0 /\ call.reward[t] = 0
      BY DEF Init, NoCall, Zero
    <3> QED
      BY <3>1, <3>2, <3>3
  <2> QED
    BY <2>1, <2>2, <2>3 DEF CounterInv, CountersMatchChain, Issued
<1>2. CounterInv /\ DepositsFit /\ [Next]_vars => CounterInv'
  <2> SUFFICES ASSUME CounterInv, DepositsFit, [Next]_vars PROVE CounterInv'
    OBVIOUS
  <2>1. MoneyInv'
    BY MoneyStep DEF CounterInv
  <2>2. CASE UNCHANGED vars
    BY <2>1, <2>2 DEF vars, CounterInv, CountersMatchChain, Idle
  <2>3. CASE Next
    BY <2>1, <2>3, CounterStep DEF CounterInv
  <2> QED
    BY <2>2, <2>3
<1>3. CounterInv => CountersMatchChain
  BY DEF CounterInv
<1> QED
  BY <1>1, <1>2, <1>3, PTL DEF Spec

-----------------------------------------------------------------------------
(* The reward schedule *)

\* h has the recursion of DecaySchedule on the set of naturals D
Decays(h, D) == h = [n \in D |-> IF n = 0 THEN INITIAL_REWARD ELSE Decay(h[n - 1])]

\* There is a schedule of every length, and two of them agree.
LEMMA DecaysExists ==
    /\ \A n \in Nat : \E h : Decays(h, 0 .. n)
    /\ \A n, m \in Nat : \A g, h :
           (n <= m /\ Decays(g, 0 .. n) /\ Decays(h, 0 .. m)) => g[n] = h[n]
<1> DEFINE Q == {n \in Nat : \E h : Decays(h, 0 .. n)}
<1>1. 0 \in Q
  <2> DEFINE h == [k \in 0 .. 0 |-> INITIAL_REWARD]
  <2>1. Decays(h, 0 .. 0)
    BY DEF Decays
  <2> QED
    BY <2>1
<1>2. ASSUME NEW n \in Nat, n \in Q
      PROVE  n + 1 \in Q
  <2>1. PICK g : Decays(g, 0 .. n)
    BY <1>2
  <2> DEFINE h == [k \in 0 .. (n + 1) |-> IF k = n + 1 THEN Decay(g[n]) ELSE g[k]]
  <2>2. ASSUME NEW k \in 0 .. (n + 1)
        PROVE  h[k] = IF k = 0 THEN INITIAL_REWARD ELSE Decay(h[k - 1])
    <3>1. CASE k = n + 1
      <4>1. h[k] = Decay(g[n]) /\ k # 0 /\ k - 1 = n /\ n \in 0 .. (n + 1) /\ n # n + 1
        BY <3>1
      <4>2. h[k - 1] = g[n]
        BY <4>1
      <4> QED
        BY <4>1, <4>2
    <3>2. CASE k # n + 1
      <4>1. k \in 0 .. n /\ h[k] = g[k]
        BY <3>2
      <4>2. g[k] = IF k = 0 THEN INITIAL_REWARD ELSE Decay(g[k - 1])
        <5> HIDE DEF h
        <5> QED BY <2>1, <4>1 DEF Decays
      <4>3. k # 0 => h[k - 1] = g[k - 1]
        BY <4>1
      <4> HIDE DEF h
      <4> QED
        BY <4>1, <4>2, <4>3
    <3> QED
      BY <3>1, <3>2
  <2>3. Decays(h, 0 .. (n + 1))
    <3>1. h = [k \in 0 .. (n + 1) |-> h[k]]
      BY DEF h
    <3>2. [k \in 0 .. (n + 1) |-> h[k]]
            = [k \in 0 .. (n + 1) |-> IF k = 0 THEN INITIAL_REWARD ELSE Decay(h[k - 1])]
      <4> HIDE DEF h
      <4> QED BY <2>2
    <3> HIDE DEF h
    <3> QED BY <3>1, <3>2 DEF Decays
  <2> HIDE DEF h
  <2> QED
    BY <2>3
<1>3. Nat \subseteq Q
  <2> HIDE DEF Q
  <2> QED BY <1>1, <1>2, InductionOnNat
<1>4. ASSUME NEW m \in Nat, NEW n \in Nat, NEW g, NEW h,
             n <= m, Decays(g, 0 .. n), Decays(h, 0 .. m)
      PROVE  g[n] = h[n]
  <2> DEFINE E == {k \in Nat : k <= n => g[k] = h[k]}
  <2>1. 0 \in E
    <3>1. g[0] = INITIAL_REWARD /\ h[0] = INITIAL_REWARD
      BY <1>4 DEF Decays
    <3> QED BY <3>1
  <2>2. ASSUME NEW k \in Nat, k \in E
        PROVE  k + 1 \in E
    <3> SUFFICES ASSUME k + 1 <= n
                 PROVE  g[k + 1] = h[k + 1]
      OBVIOUS
    <3>1. g[k] = h[k]
      BY <2>2
    <3>2. k + 1 \in 0 .. n /\ k + 1 \in 0 .. m /\ k + 1 # 0 /\ (k + 1) - 1 = k
      BY <1>4
    <3>3. g[k + 1] = Decay(g[(k + 1) - 1])
      BY <1>4, <3>2 DEF Decays
    <3>4. h[k + 1] = Decay(h[(k + 1) - 1])
      BY <1>4, <3>2 DEF Decays
    <3> QED
      BY <3>1, <3>2, <3>3, <3>4
  <2>3. Nat \subseteq E
    <3> HIDE DEF E
    <3> QED BY <2>1, <2>2, InductionOnNat
  <2> QED
    BY <2>3
<1> QED
  BY <1>3, <1>4

\* The recursion that DecaySchedule is defined by is true of it.
LEMMA DecayScheduleUnfold ==
    /\ DecaySchedule[0] = INITIAL_REWARD
    /\ \A n \in Nat : DecaySchedule[n + 1] = Decay(DecaySchedule[n])
<1> DEFINE H(n) == CHOOSE h : Decays(h, 0 .. n)
           f == [n \in Nat |-> H(n)[n]]
<1>1. \A n \in Nat : Decays(H(n), 0 .. n)
  BY DecaysExists
<1> HIDE DEF H
<1>2. ASSUME NEW n \in Nat
      PROVE  f[n] = IF n = 0 THEN INITIAL_REWARD ELSE Decay(f[n - 1])
  <2>1. H(n)[n] = IF n = 0 THEN INITIAL_REWARD ELSE Decay(H(n)[n - 1])
    <3>1. Decays(H(n), 0 .. n) /\ n \in 0 .. n
      BY <1>1
    <3> QED
      BY <3>1 DEF Decays
  <2>2. n # 0 => H(n)[n - 1] = H(n - 1)[n - 1]
    <3>1. ASSUME n # 0
          PROVE  /\ n - 1 \in Nat /\ n - 1 <= n
                 /\ Decays(H(n - 1), 0 .. (n - 1)) /\ Decays(H(n), 0 .. n)
      <4>1. n - 1 \in Nat /\ n - 1 <= n
        BY <3>1
      <4> QED BY <1>1, <4>1
    <3> QED
      BY <3>1, DecaysExists
  <2>3. n # 0 => n - 1 \in Nat
    OBVIOUS
  <2> QED
    BY <2>1, <2>2, <2>3
<1>3. Decays(f, Nat)
  <2>1. f = [n \in Nat |-> f[n]]
    BY DEF f
  <2>2. [n \in Nat |-> f[n]] = [n \in Nat |-> IF n = 0 THEN INITIAL_REWARD ELSE Decay(f[n - 1])]
    <3> HIDE DEF f
    <3> QED BY <1>2
  <2> HIDE DEF f
  <2> QED
    BY <2>1, <2>2 DEF Decays
<1>4. DecaySchedule = CHOOSE h : Decays(h, Nat)
  BY DEF DecaySchedule, Decays
<1>5. Decays(DecaySchedule, Nat)
  <2> HIDE DEF f
  <2> QED BY <1>3, <1>4
<1>6. \A n \in Nat : DecaySchedule[n] = IF n = 0 THEN INITIAL_REWARD
                                                 ELSE Decay(DecaySchedule[n - 1])
  <2> DEFINE g == DecaySchedule
  <2>1. Decays(g, Nat)
    BY <1>5
  <2> HIDE DEF g
  <2>2. \A n \in Nat : g[n] = IF n = 0 THEN INITIAL_REWARD ELSE Decay(g[n - 1])
    BY <2>1 DEF Decays
  <2> QED
    BY <2>2 DEF g
<1>7. \A n \in Nat : n + 1 \in Nat /\ n + 1 # 0 /\ (n + 1) - 1 = n
  OBVIOUS
<1> QED
  BY <1>6, <1>7

\* One mined block more.
LEMMA MinedCount ==
    ASSUME NEW ch \in Seq(Block), NEW b \in Block
    PROVE  LET Mined(c) == {i \in DOMAIN c : c[i].miner # NoMiner}
           IN  /\ Cardinality(Mined(ch)) \in Nat
               /\ Cardinality(Mined(Append(ch, b)))
                    = Cardinality(Mined(ch)) + (IF b.miner = NoMiner THEN 0 ELSE 1)
<1> DEFINE Mined(c) == {i \in DOMAIN c : c[i].miner # NoMiner}
           n == Len(ch) + 1
<1>1. /\ DOMAIN ch = 1 .. Len(ch) /\ DOMAIN Append(ch, b) = 1 .. n /\ Len(ch) \in Nat
      /\ \A i \in DOMAIN ch : Append(ch, b)[i] = ch[i]
      /\ Append(ch, b)[n] = b
  OBVIOUS
<1>2. Mined(Append(ch, b)) = Mined(ch) \cup (IF b.miner = NoMiner THEN {} ELSE {n})
  BY <1>1
<1>3. IsFiniteSet(Mined(ch)) /\ n \notin Mined(ch)
  <2>1. IsFiniteSet(1 .. Len(ch)) /\ Mined(ch) \subseteq 1 .. Len(ch)
    BY <1>1, FS_Interval
  <2> QED
    BY <1>1, <2>1, FS_Subset
<1> HIDE DEF Mined, n
<1>4. /\ Cardinality(Mined(ch)) \in Nat
      /\ Cardinality(Mined(ch) \cup {n}) = Cardinality(Mined(ch)) + 1
      /\ Mined(ch) \cup {} = Mined(ch)
  BY <1>3, FS_AddElement, FS_CardinalityType
<1>5. /\ Cardinality(Mined(ch)) \in Nat
      /\ Cardinality(Mined(Append(ch, b)))
           = Cardinality(Mined(ch)) + (IF b.miner = NoMiner THEN 0 ELSE 1)
  <2>1. CASE b.miner = NoMiner
    <3>1. Mined(Append(ch, b)) = Mined(ch)
      BY <1>2, <2>1
    <3> QED
      BY <1>4, <2>1, <3>1
  <2>2. CASE b.miner # NoMiner
    <3>1. Mined(Append(ch, b)) = Mined(ch) \cup {n}
      BY <1>2, <2>2
    <3> QED
      BY <1>4, <2>2, <3>1
  <2> QED
    BY <2>1, <2>2
<1> QED
  BY <1>5 DEF Mined

ScheduleInv == MoneyInv /\ RewardReflectsHeight

\* A mined block decays the reward once, and nothing else does but a mine_block that
\* fails.
LEMMA ScheduleStep ==
    ASSUME TypeOK, TypeOK', RewardReflectsHeight, Next, ~MineFeeOverflow
    PROVE  RewardReflectsHeight'
<1> DEFINE Mined(c) == {i \in DOMAIN c : c[i].miner # NoMiner}
           Goal == block_reward' = DecaySchedule[Cardinality(Mined(chain'))]
<1>1. /\ chain \in Seq(Block)
      /\ block_reward = DecaySchedule[Cardinality(Mined(chain))]
  BY DEF RewardReflectsHeight, MinedBlocks, TypeOK
<1> SUFFICES Goal
  BY DEF RewardReflectsHeight, MinedBlocks
<1> HIDE DEF Mined
<1>2. ASSUME NEW b, chain' = Append(chain, b)
      PROVE  /\ Cardinality(Mined(chain)) \in Nat
             /\ Cardinality(Mined(chain'))
                  = Cardinality(Mined(chain)) + (IF b.miner = NoMiner THEN 0 ELSE 1)
  <2>1. b \in Block
    BY <1>1, <1>2, PushedBlock
  <2> QED
    BY <1>1, <1>2, <2>1, MinedCount DEF Mined
<1>3. CASE GenesisBlock
  <2>1. chain' = Append(chain, Genesis) /\ block_reward' = block_reward /\ Genesis.miner = NoMiner
    BY <1>3 DEF GenesisBlock, Genesis
  <2>2. Cardinality(Mined(chain)) \in Nat
        /\ Cardinality(Mined(chain')) = Cardinality(Mined(chain)) + 0
    BY <1>2, <2>1
  <2> QED
    BY <1>1, <2>1, <2>2
<1>4. ASSUME NEW m \in Miners, MineBlock(m)
      PROVE  Goal
  <2>1. PICK b : chain' = Append(chain, b) /\ b.miner = m
    BY <1>4 DEF MineBlock
  <2>2. m # NoMiner /\ block_reward' = Decay(block_reward)
    BY <1>4, InputAssumption, AddrAssumption DEF MineBlock
  <2>3. Cardinality(Mined(chain)) \in Nat
        /\ Cardinality(Mined(chain')) = Cardinality(Mined(chain)) + 1
    BY <1>2, <2>1, <2>2
  <2>4. DecaySchedule[Cardinality(Mined(chain)) + 1] = Decay(DecaySchedule[Cardinality(Mined(chain))])
    BY <2>3, DecayScheduleUnfold
  <2> QED
    BY <1>1, <2>2, <2>3, <2>4
<1>5. ASSUME chain' = chain, block_reward' = block_reward
      PROVE  Goal
  BY <1>1, <1>5
<1> HIDE DEF Goal
<1> QED
  BY <1>3, <1>4, <1>5
  DEF Next, UnsavedStep, AddAccount, SubmitTransaction, RejectTransaction, DropTransaction,
      ApplyTx, ApplyTxPanic, CreditMiner, CreditMinerPanic, vars

\* The reward after n mined blocks is INITIAL_BLOCK_REWARD decayed n times: it never
\* decays for a block that was not mined, and is not restarted by a cut at the cap.
THEOREM RewardFollowsSchedule ==
    WalletsSound => (Spec /\ []DepositsFit => []RewardReflectsHeight)
<1> SUFFICES ASSUME WalletsSound PROVE Spec /\ []DepositsFit => []RewardReflectsHeight
  OBVIOUS
<1>1. Init => ScheduleInv
  <2> SUFFICES ASSUME Init PROVE ScheduleInv
    OBVIOUS
  <2>1. MinedBlocks = {}
    <3>1. DOMAIN chain = {}
      BY DEF Init
    <3> QED BY <3>1 DEF MinedBlocks
  <2>2. block_reward = DecaySchedule[Cardinality(MinedBlocks)]
    BY <2>1, FS_EmptySet, DecayScheduleUnfold DEF Init
  <2> QED
    BY <2>2, MoneyInit DEF ScheduleInv, RewardReflectsHeight
<1>2. ScheduleInv /\ DepositsFit /\ [Next]_vars => ScheduleInv'
  <2> SUFFICES ASSUME ScheduleInv, DepositsFit, [Next]_vars PROVE ScheduleInv'
    OBVIOUS
  <2>1. MoneyInv'
    BY MoneyStep DEF ScheduleInv
  <2>2. CASE UNCHANGED vars
    BY <2>1, <2>2 DEF vars, ScheduleInv, RewardReflectsHeight, MinedBlocks
  <2>3. CASE Next
    <3>1. TypeOK /\ TypeOK' /\ RewardReflectsHeight
      BY <2>1 DEF ScheduleInv, MoneyInv, TypeInv
    <3>2. ~MineFeeOverflow
      BY CoinbaseAlwaysFits DEF ScheduleInv, MineFeeOverflow
    <3> QED
      BY <2>1, <2>3, <3>1, <3>2, ScheduleStep DEF ScheduleInv
  <2> QED
    BY <2>2, <2>3
<1>3. ScheduleInv => RewardReflectsHeight
  BY DEF ScheduleInv
<1> QED
  BY <1>1, <1>2, <1>3, PTL DEF Spec

=============================================================================
