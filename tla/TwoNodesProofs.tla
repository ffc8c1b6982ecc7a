--------------------------- MODULE TwoNodesProofs ---------------------------
(***************************************************************************)
(* Theorems about two nodes: the ledger is a function of the chain, and a  *)
(* chain that one wallet mines is never refused for its fees.              *)
(*                                                                         *)
(* Mining and importing take the same steps on the accounts, one block and *)
(* one transaction after the other, and the chain says which step is next. *)
(* A book is what these steps have made of the accounts so far, and how    *)
(* far in the chain they are.  The two halves of the argument:             *)
(*  - the steps along a chain leave one choice only, so that a chain has   *)
(*    at most one book that is through (DerivedUnique);                    *)
(*  - whatever a node does, its accounts are the book of its chain, up to  *)
(*    the transactions that the call in progress has still to apply        *)
(*    (FollowsChain).                                                      *)
(* One wallet: a chain pays its miner before the miner spends, so the node *)
(* that replays it knows the sender of every fee (PaysItsWay).             *)
(***************************************************************************)
EXTENDS TwoNodes, SumTheorems, SequenceTheorems

-----------------------------------------------------------------------------
(* The steps along a chain *)

Book(known, balance, nonce, reward, height, opened, closed, todo) ==
    [known |-> known, balance |-> balance, nonce |-> nonce, reward |-> reward,
     height |-> height, opened |-> opened, closed |-> closed, todo |-> todo]

FirstBook == Book({}, [a \in Addr |-> Zero], [a \in Addr |-> 0], INITIAL_REWARD, 0, 0, 0, {})

\* A mined block is begun: the reward decays, the transactions are to apply.
Opens(c, s, t) ==
    /\ s.opened = s.closed /\ s.opened + 1 \in 1 .. Len(c)
    /\ c[s.opened + 1].miner # NoMiner
    /\ t = Book(s.known, s.balance, s.nonce, A!Decay(s.reward), s.height,
                s.opened + 1, s.closed, c[s.opened + 1].txs)

\* The block of genesis_block has nothing to apply.
Skips(c, s, t) ==
    /\ s.opened = s.closed /\ s.opened + 1 \in 1 .. Len(c)
    /\ c[s.opened + 1].miner = NoMiner
    /\ t = Book(s.known, s.balance, s.nonce, s.reward, 1, s.opened + 1, s.closed + 1, {})

First(tx, todo) ==
    tx \in todo /\ tx \in TxSpace /\ \A q \in todo \ {tx} : A!Before(tx, q)

SenderPays(s, tx) == tx.from # ZERO_ADDR /\ tx.from \in s.known

DebitedBalance(s, tx) ==
    IF SenderPays(s, tx)
    THEN [s.balance EXCEPT ![tx.from] = A!Minus(s.balance[tx.from], A!Debit(tx))]
    ELSE s.balance

AppliedBalance(s, tx) ==
    [DebitedBalance(s, tx) EXCEPT
        ![tx.to] = A!PlusMod(DebitedBalance(s, tx)[tx.to], tx.amount)]

AppliedNonce(s, tx) ==
    IF SenderPays(s, tx) THEN [s.nonce EXCEPT ![tx.from] = tx.nonce] ELSE s.nonce

\* One transaction
Applies(s, t, tx) ==
    /\ s.opened # s.closed
    /\ First(tx, s.todo)
    /\ t = Book(s.known \cup {tx.to}, AppliedBalance(s, tx), AppliedNonce(s, tx),
                s.reward, s.height, s.opened, s.closed, s.todo \ {tx})

\* The end of a mined block: the coinbase
Closes(c, s, t) ==
    /\ s.opened # s.closed /\ s.opened \in 1 .. Len(c)
    /\ s.todo = {}
    /\ t = Book(s.known \cup {c[s.opened].miner},
                [s.balance EXCEPT ![c[s.opened].miner] =
                    A!Plus(s.balance[c[s.opened].miner], c[s.opened].coinbase)],
                s.nonce, s.reward, s.height + 1, s.opened, s.opened, {})

Moves(c, s, t) ==
    \/ Opens(c, s, t) \/ Skips(c, s, t) \/ Closes(c, s, t)
    \/ \E tx \in TxSpace : Applies(s, t, tx)

\* The first n moves along c, from the start
Trace(c, f, n) == /\ f[0] = FirstBook
                  /\ \A i \in 0 .. (n - 1) : Moves(c, f[i], f[i + 1])

Derived(c, s) == \E n \in Nat : \E f : Trace(c, f, n) /\ f[n] = s

-----------------------------------------------------------------------------
(* There is one choice only *)

LEMMA TxAddresses == \A tx \in TxSpace : tx.from \in Addr /\ tx.to \in Addr
BY NodesAssumption DEF A!Tx

LEMMA FirstUnique ==
    ASSUME NEW todo, NEW x, NEW y, First(x, todo), First(y, todo)
    PROVE  x = y
<1> SUFFICES ASSUME x # y PROVE FALSE
  OBVIOUS
<1>1. A!Before(x, y) /\ A!Before(y, x)
  BY DEF First
<1>2. \A q \in TxSpace : q.from \in Nat /\ q.nonce \in Int
  <2>1. \A q \in TxSpace : q.from \in Addr /\ q.nonce \in A!Word
    BY NodesAssumption DEF A!Tx
  <2>2. A!Word \subseteq Int
    BY U64Assumption DEF A!Word
  <2> QED
    BY <2>1, <2>2, NodesAssumption
<1>3. x \in TxSpace /\ y \in TxSpace
  BY DEF First
<1> QED
  BY <1>1, <1>2, <1>3 DEF A!Before

LEMMA MovesUnique ==
    ASSUME NEW c, NEW s, NEW t, NEW u, Moves(c, s, t), Moves(c, s, u)
    PROVE  t = u
<1>1. CASE s.opened = s.closed
  BY <1>1 DEF Moves, Opens, Skips, Applies, Closes
<1>2. CASE s.opened # s.closed /\ s.todo = {}
  <2>1. \A tx : ~First(tx, s.todo)
    BY <1>2 DEF First
  <2> QED
    BY <1>2, <2>1 DEF Moves, Opens, Skips, Applies, Closes
<1>3. CASE s.opened # s.closed /\ s.todo # {}
  <2>1. PICK x \in TxSpace : Applies(s, t, x)
    BY <1>3 DEF Moves, Opens, Skips, Closes
  <2>2. PICK y \in TxSpace : Applies(s, u, y)
    BY <1>3 DEF Moves, Opens, Skips, Closes
  <2>3. x = y
    BY <2>1, <2>2, FirstUnique DEF Applies
  <2> QED
    BY <2>1, <2>2, <2>3 DEF Applies
<1> QED
  BY <1>1, <1>2, <1>3

\* Every block of the chain has been closed.
Through(c, s) == s.opened = Len(c) /\ s.closed = Len(c)

LEMMA ThroughStays ==
    ASSUME NEW c, Len(c) \in Nat, NEW s, NEW t, Through(c, s)
    PROVE  ~Moves(c, s, t)
BY DEF Through, Moves, Opens, Skips, Applies, Closes

\* Two traces along a chain agree as far as both go.
LEMMA TracesAgree ==
    ASSUME NEW c, NEW f, NEW g, NEW n \in Nat, NEW m \in Nat,
           Trace(c, f, n), Trace(c, g, m)
    PROVE  \A i \in Nat : (i <= n /\ i <= m) => f[i] = g[i]
<1> DEFINE Q == {i \in Nat : (i <= n /\ i <= m) => f[i] = g[i]}
<1>1. 0 \in Q
  BY DEF Trace
<1>2. ASSUME NEW i \in Nat, i \in Q
      PROVE  i + 1 \in Q
  <2> SUFFICES ASSUME i + 1 <= n, i + 1 <= m
               PROVE  f[i + 1] = g[i + 1]
    OBVIOUS
  <2>1. i \in 0 .. (n - 1) /\ i \in 0 .. (m - 1) /\ f[i] = g[i]
    BY <1>2
  <2>2. Moves(c, f[i], f[i + 1]) /\ Moves(c, f[i], g[i + 1])
    BY <2>1 DEF Trace
  <2> QED
    BY <2>2, MovesUnique
<1>3. Nat \subseteq Q
  <2> HIDE DEF Q
  <2> QED BY <1>1, <1>2, InductionOnNat
<1> QED
  BY <1>3

\* A chain has one book that is through.
LEMMA DerivedUnique ==
    ASSUME NEW c, Len(c) \in Nat, NEW s, NEW t,
           Derived(c, s), Through(c, s), Derived(c, t), Through(c, t)
    PROVE  s = t
<1>1. PICK n \in Nat : \E f : Trace(c, f, n) /\ f[n] = s
  BY DEF Derived
<1>2. PICK m \in Nat : \E g : Trace(c, g, m) /\ g[m] = t
  BY DEF Derived
<1>3. PICK f : Trace(c, f, n) /\ f[n] = s
  BY <1>1
<1>4. PICK g : Trace(c, g, m) /\ g[m] = t
  BY <1>2
<1>5. \A i \in Nat : (i <= n /\ i <= m) => f[i] = g[i]
  BY <1>3, <1>4, TracesAgree
<1>6. ~(n < m)
  <2> SUFFICES ASSUME n < m PROVE FALSE
    OBVIOUS
  <2>1. g[n] = s /\ n \in 0 .. (m - 1)
    BY <1>3, <1>5
  <2> QED
    BY <1>4, <2>1, ThroughStays DEF Trace
<1>7. ~(m < n)
  <2> SUFFICES ASSUME m < n PROVE FALSE
    OBVIOUS
  <2>1. f[m] = t /\ m \in 0 .. (n - 1)
    BY <1>4, <1>5
  <2> QED
    BY <1>3, <2>1, ThroughStays DEF Trace
<1>8. n = m
  BY <1>6, <1>7
<1> QED
  BY <1>3, <1>4, <1>5, <1>8

-----------------------------------------------------------------------------
(* Derivations grow *)

LEMMA DerivedFirst == ASSUME NEW c PROVE Derived(c, FirstBook)
<1> DEFINE f == [i \in {0} |-> FirstBook]
<1>1. f[0] = FirstBook /\ 0 .. (0 - 1) = {}
  OBVIOUS
<1>2. Trace(c, f, 0)
  BY <1>1 DEF Trace
<1> QED
  BY <1>1, <1>2 DEF Derived

LEMMA DerivedMoves ==
    ASSUME NEW c, NEW s, NEW t, Derived(c, s), Moves(c, s, t)
    PROVE  Derived(c, t)
<1>0. PICK n \in Nat : \E f : Trace(c, f, n) /\ f[n] = s
  BY DEF Derived
<1>1. PICK f : Trace(c, f, n) /\ f[n] = s
  BY <1>0
<1>2. /\ f[0] = FirstBook
      /\ \A i \in 0 .. (n - 1) : Moves(c, f[i], f[i + 1])
  BY <1>1 DEF Trace
<1> DEFINE g == [i \in Nat |-> IF i <= n THEN f[i] ELSE t]
<1>3. g[0] = FirstBook /\ g[n] = s /\ g[n + 1] = t
  BY <1>1, <1>2
<1>4. \A i \in 0 .. (n - 1) : g[i] = f[i] /\ g[i + 1] = f[i + 1]
  OBVIOUS
<1>5. ASSUME NEW i \in 0 .. ((n + 1) - 1)
      PROVE  Moves(c, g[i], g[i + 1])
  <2> HIDE DEF g
  <2>1. CASE i = n
    BY <1>3, <2>1
  <2>2. CASE i # n
    <3>1. i \in 0 .. (n - 1)
      BY <2>2
    <3>2. Moves(c, f[i], f[i + 1])
      BY <3>1, <1>2
    <3> QED
      BY <1>4, <3>1, <3>2
  <2> QED
    BY <2>1, <2>2
<1> HIDE DEF g
<1>6. Trace(c, g, n + 1)
  BY <1>3, <1>5 DEF Trace
<1> QED
  BY <1>3, <1>6 DEF Derived

\* What was derived along a chain is derived along each extension of it.
Extends(c, d) ==
    Len(c) \in Nat /\ Len(d) \in Nat /\ Len(c) <= Len(d) /\ \A i \in 1 .. Len(c) : d[i] = c[i]

LEMMA DerivedExtends ==
    ASSUME NEW c, NEW d, Extends(c, d), NEW s, Derived(c, s)
    PROVE  Derived(d, s)
<1>1. ASSUME NEW x, NEW y, Moves(c, x, y)
      PROVE  Moves(d, x, y)
  <2>1. CASE Opens(c, x, y)
    BY <2>1 DEF Opens, Moves, Extends
  <2>2. CASE Skips(c, x, y)
    BY <2>2 DEF Skips, Moves, Extends
  <2>3. CASE Closes(c, x, y)
    <3>1. x.opened \in 1 .. Len(c)
      BY <2>3 DEF Closes
    <3>2. x.opened \in 1 .. Len(d) /\ d[x.opened] = c[x.opened]
      BY <3>1 DEF Extends
    <3>3. Closes(d, x, y)
      BY <2>3, <3>2 DEF Closes
    <3> QED
      BY <3>3 DEF Moves
  <2> QED
    BY <1>1, <2>1, <2>2, <2>3 DEF Moves
<1>2. PICK n \in Nat : \E f : Trace(c, f, n) /\ f[n] = s
  BY DEF Derived
<1>3. PICK f : Trace(c, f, n) /\ f[n] = s
  BY <1>2
<1>4. Trace(d, f, n)
  BY <1>1, <1>3 DEF Trace
<1> QED
  BY <1>3, <1>4 DEF Derived

-----------------------------------------------------------------------------
(* Accounts and books *)

\* A value of the accounts map, with its four fields
Record(r) == r = [balance |-> r.balance, nonce |-> r.nonce, pending |-> r.pending,
                  pending_nonce |-> r.pending_nonce]

Shaped(f) == f = [a \in Addr |-> f[a]] /\ \A a \in Addr : Record(f[a])

Balances(f) == [a \in Addr |-> f[a].balance]
Nonces(f)   == [a \in Addr |-> f[a].nonce]

BookOf(known, f, reward, height, opened, closed, todo) ==
    Book(known, Balances(f), Nonces(f), reward, height, opened, closed, todo)

LEMMA RecordUpdates ==
    ASSUME NEW r, Record(r), NEW v
    PROVE  /\ Record([r EXCEPT !.balance = v])
           /\ [r EXCEPT !.balance = v].balance = v
           /\ [r EXCEPT !.balance = v].nonce = r.nonce
<1> DEFINE q == [balance |-> v, nonce |-> r.nonce, pending |-> r.pending,
                 pending_nonce |-> r.pending_nonce]
<1>1. [r EXCEPT !.balance = v] = q
  BY DEF Record
<1>2. Record(q) /\ q.balance = v /\ q.nonce = r.nonce
  BY DEF Record
<1> QED
  BY <1>1, <1>2

LEMMA PutRecord ==
    ASSUME NEW f, Shaped(f), NEW x \in Addr, NEW r, Record(r)
    PROVE  /\ Shaped([f EXCEPT ![x] = r])
           /\ Balances([f EXCEPT ![x] = r]) = [Balances(f) EXCEPT ![x] = r.balance]
           /\ Nonces([f EXCEPT ![x] = r]) = [Nonces(f) EXCEPT ![x] = r.nonce]
<1> DEFINE h == [f EXCEPT ![x] = r]
<1>1. DOMAIN f = Addr
  BY DEF Shaped
<1>2. h = [a \in Addr |-> h[a]] /\ \A a \in Addr : h[a] = IF a = x THEN r ELSE f[a]
  BY <1>1
<1> HIDE DEF h
<1>3. Shaped(h)
  BY <1>2 DEF Shaped
<1>4. Balances(h) = [Balances(f) EXCEPT ![x] = r.balance]
  BY <1>2 DEF Balances
<1>5. Nonces(h) = [Nonces(f) EXCEPT ![x] = r.nonce]
  BY <1>2 DEF Nonces
<1> QED
  BY <1>3, <1>4, <1>5 DEF h

\* What changes nothing but reservations changes no book.
LEMMA PutReservation ==
    ASSUME NEW f, Shaped(f), NEW x \in Addr, NEW r, Record(r),
           r.balance = f[x].balance, r.nonce = f[x].nonce,
           NEW g, g = [f EXCEPT ![x] = r]
    PROVE  Shaped(g) /\ Balances(g) = Balances(f) /\ Nonces(g) = Nonces(f)
<1>1. [Balances(f) EXCEPT ![x] = f[x].balance] = Balances(f)
  BY DEF Balances
<1>2. [Nonces(f) EXCEPT ![x] = f[x].nonce] = Nonces(f)
  BY DEF Nonces
<1>3. /\ Shaped([f EXCEPT ![x] = r])
      /\ Balances([f EXCEPT ![x] = r]) = [Balances(f) EXCEPT ![x] = r.balance]
      /\ Nonces([f EXCEPT ![x] = r]) = [Nonces(f) EXCEPT ![x] = r.nonce]
  <2>1. \A y \in Addr : \A q : Record(q) =>
            /\ Shaped([f EXCEPT ![y] = q])
            /\ Balances([f EXCEPT ![y] = q]) = [Balances(f) EXCEPT ![y] = q.balance]
            /\ Nonces([f EXCEPT ![y] = q]) = [Nonces(f) EXCEPT ![y] = q.nonce]
    BY PutRecord
  <2> QED
    BY <2>1
<1> QED
  BY <1>1, <1>2, <1>3

LEMMA PutBalance ==
    ASSUME NEW f, Shaped(f), NEW x \in Addr, NEW v
    PROVE  /\ Shaped([f EXCEPT ![x].balance = v])
           /\ Balances([f EXCEPT ![x].balance = v]) = [Balances(f) EXCEPT ![x] = v]
           /\ Nonces([f EXCEPT ![x].balance = v]) = Nonces(f)
<1> DEFINE r == [f[x] EXCEPT !.balance = v]
<1>1. Record(f[x])
  BY DEF Shaped
<1>2. Record(r) /\ r.balance = v /\ r.nonce = f[x].nonce
  BY <1>1, RecordUpdates
<1>3. [f EXCEPT ![x].balance = v] = [f EXCEPT ![x] = r]
  OBVIOUS
<1>4. [Nonces(f) EXCEPT ![x] = f[x].nonce] = Nonces(f)
  BY DEF Nonces
<1> HIDE DEF r
<1> QED
  BY <1>2, <1>3, <1>4, PutRecord

-----------------------------------------------------------------------------
(* The moves of a node *)

LEMMA FirstBookOf ==
    ASSUME NEW c
    PROVE  /\ Shaped([a \in Addr |-> A!EmptyAccount])
           /\ Derived(c, BookOf({}, [a \in Addr |-> A!EmptyAccount], INITIAL_REWARD, 0, 0, 0, {}))
<1> DEFINE f == [a \in Addr |-> A!EmptyAccount]
<1>1. Record(A!EmptyAccount) /\ A!EmptyAccount.balance = Zero /\ A!EmptyAccount.nonce = 0
  BY DEF Record, A!EmptyAccount, A!Zero, A!Token, Zero, Token
<1>2. Shaped(f)
  BY <1>1 DEF Shaped
<1>3. Balances(f) = [a \in Addr |-> Zero] /\ Nonces(f) = [a \in Addr |-> 0]
  BY <1>1 DEF Balances, Nonces
<1> QED
  BY <1>2, <1>3, DerivedFirst DEF BookOf, FirstBook

LEMMA OpenMove ==
    ASSUME NEW c, NEW k, NEW f, NEW w, NEW h, NEW o, o + 1 \in 1 .. Len(c),
           c[o + 1].miner # NoMiner,
           Derived(c, BookOf(k, f, w, h, o, o, {}))
    PROVE  Derived(c, BookOf(k, f, A!Decay(w), h, o + 1, o, c[o + 1].txs))
<1>1. Opens(c, BookOf(k, f, w, h, o, o, {}),
            BookOf(k, f, A!Decay(w), h, o + 1, o, c[o + 1].txs))
  BY DEF Opens, BookOf, Book
<1> QED
  BY <1>1, DerivedMoves DEF Moves

LEMMA SkipMove ==
    ASSUME NEW c, NEW k, NEW f, NEW w, NEW h, NEW o, o + 1 \in 1 .. Len(c),
           c[o + 1].miner = NoMiner,
           Derived(c, BookOf(k, f, w, h, o, o, {}))
    PROVE  Derived(c, BookOf(k, f, w, 1, o + 1, o + 1, {}))
<1>1. Skips(c, BookOf(k, f, w, h, o, o, {}), BookOf(k, f, w, 1, o + 1, o + 1, {}))
  BY DEF Skips, BookOf, Book
<1> QED
  BY <1>1, DerivedMoves DEF Moves

\* The accounts after a transaction of which r is what it leaves of its sender
Applied(k, f, r, tx) ==
    LET g == IF tx.from # ZERO_ADDR /\ tx.from \in k THEN [f EXCEPT ![tx.from] = r] ELSE f
    IN  [g EXCEPT ![tx.to].balance = A!PlusMod(g[tx.to].balance, tx.amount)]

LEMMA ApplyMove ==
    ASSUME NEW c, NEW k, NEW f, Shaped(f), NEW w, NEW h, NEW o, NEW n, o # n, NEW todo,
           NEW tx, First(tx, todo), NEW r, Record(r),
           r.balance = A!Minus(f[tx.from].balance, A!Debit(tx)), r.nonce = tx.nonce,
           Derived(c, BookOf(k, f, w, h, o, n, todo))
    PROVE  /\ Shaped(Applied(k, f, r, tx))
           /\ Derived(c, BookOf(k \cup {tx.to}, Applied(k, f, r, tx), w, h, o, n, todo \ {tx}))
<1> DEFINE pays == tx.from # ZERO_ADDR /\ tx.from \in k
           g == IF pays THEN [f EXCEPT ![tx.from] = r] ELSE f
           v == A!PlusMod(g[tx.to].balance, tx.amount)
           s == BookOf(k, f, w, h, o, n, todo)
<1>1. tx \in TxSpace /\ tx.from \in Addr /\ tx.to \in Addr
  BY TxAddresses DEF First
<1>2. /\ Shaped(g)
      /\ Balances(g) = DebitedBalance(s, tx)
      /\ Nonces(g) = AppliedNonce(s, tx)
  <2>1. /\ s.known = k /\ s.balance = Balances(f) /\ s.nonce = Nonces(f)
        /\ s.balance[tx.from] = f[tx.from].balance
    BY <1>1 DEF BookOf, Book, Balances
  <2>2. CASE pays
    <3>1. g = [f EXCEPT ![tx.from] = r]
      BY <2>2
    <3>2. SenderPays(s, tx)
      BY <2>1, <2>2 DEF SenderPays
    <3>3. /\ Shaped([f EXCEPT ![tx.from] = r])
          /\ Balances([f EXCEPT ![tx.from] = r]) = [Balances(f) EXCEPT ![tx.from] = r.balance]
          /\ Nonces([f EXCEPT ![tx.from] = r]) = [Nonces(f) EXCEPT ![tx.from] = r.nonce]
      BY <1>1, PutRecord
    <3> HIDE DEF g, s
    <3> QED
      BY <2>1, <3>1, <3>2, <3>3 DEF DebitedBalance, AppliedNonce
  <2>3. CASE ~pays
    <3>1. g = f
      BY <2>3
    <3>2. ~SenderPays(s, tx)
      BY <2>1, <2>3 DEF SenderPays
    <3> HIDE DEF g, s
    <3> QED
      BY <2>1, <3>1, <3>2 DEF DebitedBalance, AppliedNonce
  <2> QED
    BY <2>2, <2>3
<1>3. Applied(k, f, r, tx) = [g EXCEPT ![tx.to].balance = v]
  BY DEF Applied
<1> HIDE DEF g
<1>4. g[tx.to].balance = DebitedBalance(s, tx)[tx.to]
  BY <1>1, <1>2 DEF Balances
<1>5. v = A!PlusMod(DebitedBalance(s, tx)[tx.to], tx.amount)
  BY <1>4
<1> HIDE DEF v, s
<1>6. /\ Shaped(Applied(k, f, r, tx))
      /\ Balances(Applied(k, f, r, tx)) = AppliedBalance(s, tx)
      /\ Nonces(Applied(k, f, r, tx)) = AppliedNonce(s, tx)
  <2>1. /\ Shaped([g EXCEPT ![tx.to].balance = v])
        /\ Balances([g EXCEPT ![tx.to].balance = v]) = [Balances(g) EXCEPT ![tx.to] = v]
        /\ Nonces([g EXCEPT ![tx.to].balance = v]) = Nonces(g)
    BY <1>1, <1>2, PutBalance
  <2> QED
    BY <1>2, <1>3, <1>5, <2>1 DEF AppliedBalance
<1>7. Applies(s, BookOf(k \cup {tx.to}, Applied(k, f, r, tx), w, h, o, n, todo \ {tx}), tx)
  <2>1. /\ s.known = k /\ s.reward = w /\ s.height = h /\ s.opened = o /\ s.closed = n
        /\ s.todo = todo
    BY DEF s, BookOf, Book
  <2> QED
    BY <1>6, <2>1 DEF Applies, BookOf
<1> QED
  BY <1>1, <1>6, <1>7, DerivedMoves DEF Moves, s

LEMMA CloseMove ==
    ASSUME NEW c, NEW k, NEW f, Shaped(f), NEW w, NEW h, NEW o, NEW n, o # n,
           o \in 1 .. Len(c), NEW m \in Addr, c[o].miner = m, NEW q, c[o].coinbase = q,
           Derived(c, BookOf(k, f, w, h, o, n, {}))
    PROVE  /\ Shaped([f EXCEPT ![m].balance = A!Plus(f[m].balance, q)])
           /\ Derived(c, BookOf(k \cup {m}, [f EXCEPT ![m].balance = A!Plus(f[m].balance, q)],
                                w, h + 1, o, o, {}))
<1> DEFINE v == A!Plus(f[m].balance, q)
           g == [f EXCEPT ![m].balance = v]
<1>0. /\ Shaped([f EXCEPT ![m].balance = v])
      /\ Balances([f EXCEPT ![m].balance = v]) = [Balances(f) EXCEPT ![m] = v]
      /\ Nonces([f EXCEPT ![m].balance = v]) = Nonces(f)
  <2>1. \A y \in Addr : \A z :
            /\ Shaped([f EXCEPT ![y].balance = z])
            /\ Balances([f EXCEPT ![y].balance = z]) = [Balances(f) EXCEPT ![y] = z]
            /\ Nonces([f EXCEPT ![y].balance = z]) = Nonces(f)
    BY PutBalance
  <2> HIDE DEF v
  <2> QED BY <2>1
<1>1. /\ Shaped(g)
      /\ Balances(g) = [Balances(f) EXCEPT ![m] = v]
      /\ Nonces(g) = Nonces(f)
  BY <1>0
<1>2. Balances(f)[m] = f[m].balance
  BY DEF Balances
<1> HIDE DEF g
<1>3. Closes(c, BookOf(k, f, w, h, o, n, {}), BookOf(k \cup {m}, g, w, h + 1, o, o, {}))
  BY <1>1, <1>2 DEF Closes, BookOf, Book
<1>4. Derived(c, BookOf(k \cup {m}, g, w, h + 1, o, o, {}))
  BY <1>3, DerivedMoves DEF Moves
<1> QED
  BY <1>1, <1>4 DEF g

-----------------------------------------------------------------------------
(* Chains *)

GoodBlock(b) == b.miner \in Addr \cup {NoMiner} /\ b.txs \subseteq TxSpace

Blocks(c) == \E S : c \in Seq(S) /\ \A b \in S : GoodBlock(b)

LEMMA BlocksOf ==
    ASSUME NEW c, Blocks(c)
    PROVE  Len(c) \in Nat /\ \A i \in 1 .. Len(c) : GoodBlock(c[i])
BY DEF Blocks

LEMMA BlocksAppend ==
    ASSUME NEW c, Blocks(c), NEW b, GoodBlock(b)
    PROVE  /\ Blocks(Append(c, b))
           /\ Len(Append(c, b)) = Len(c) + 1 /\ Append(c, b)[Len(c) + 1] = b
           /\ Extends(c, Append(c, b))
<1>1. PICK S : c \in Seq(S) /\ \A x \in S : GoodBlock(x)
  BY DEF Blocks
<1>2. c \in Seq(S \cup {b}) /\ b \in S \cup {b}
  BY <1>1
<1>3. Append(c, b) \in Seq(S \cup {b}) /\ \A x \in S \cup {b} : GoodBlock(x)
  BY <1>1, <1>2
<1>4. /\ Len(c) \in Nat /\ Len(Append(c, b)) = Len(c) + 1
      /\ Append(c, b)[Len(c) + 1] = b
      /\ \A i \in 1 .. Len(c) : Append(c, b)[i] = c[i]
  BY <1>2
<1> QED
  BY <1>3, <1>4 DEF Blocks, Extends

\* One block moves from the rest of a replay to the chain.
LEMMA BlocksShift ==
    ASSUME NEW c, Blocks(c), NEW r, Blocks(r), r # << >>
    PROVE  /\ GoodBlock(Head(r)) /\ Head(r) = r[1] /\ 1 \in 1 .. Len(r)
           /\ Blocks(Tail(r)) /\ Len(Tail(r)) = Len(r) - 1
           /\ \A i \in 1 .. Len(Tail(r)) : Tail(r)[i] = r[i + 1]
           /\ (c \o r)[Len(c) + 1] = Head(r)
           /\ Len(c \o r) = Len(c) + Len(r)
           /\ Append(c, Head(r)) \o Tail(r) = c \o r
<1>1. PICK S : c \in Seq(S) /\ \A x \in S : GoodBlock(x)
  BY DEF Blocks
<1>2. PICK T : r \in Seq(T) /\ \A x \in T : GoodBlock(x)
  BY DEF Blocks
<1> DEFINE U == S \cup T
<1>3. c \in Seq(U) /\ r \in Seq(U) /\ \A x \in U : GoodBlock(x)
  BY <1>1, <1>2
<1> HIDE DEF U
<1>4. Len(r) \in Nat /\ Len(r) # 0 /\ Len(c) \in Nat
  BY <1>3, EmptySeq
<1>5. Head(r) \in U /\ Head(r) = r[1] /\ Tail(r) \in Seq(U) /\ Len(Tail(r)) = Len(r) - 1
  BY <1>3, <1>4
<1>6. \A i \in 1 .. Len(Tail(r)) : Tail(r)[i] = r[i + 1]
  BY <1>3, <1>4
<1>7. (c \o r)[Len(c) + 1] = Head(r) /\ Len(c \o r) = Len(c) + Len(r)
  BY <1>3, <1>4, <1>5
<1>8. Append(c, Head(r)) \o Tail(r) = c \o r
  <2> DEFINE x == Append(c, Head(r)) \o Tail(r)
             y == c \o r
  <2>1. Append(c, Head(r)) \in Seq(U) /\ Len(Append(c, Head(r))) = Len(c) + 1
    BY <1>3, <1>5
  <2>2. /\ x \in Seq(U) /\ y \in Seq(U)
        /\ Len(x) = Len(c) + 1 + (Len(r) - 1) /\ Len(y) = Len(c) + Len(r)
    BY <1>3, <1>5, <2>1
  <2>3. ASSUME NEW i \in 1 .. Len(y)
        PROVE  x[i] = y[i]
    <3>1. CASE i <= Len(c)
      BY <1>3, <1>4, <1>5, <2>1, <2>2, <3>1
    <3>2. CASE i = Len(c) + 1
      BY <1>3, <1>4, <1>5, <2>1, <2>2, <3>2
    <3>3. CASE i > Len(c) + 1
      BY <1>3, <1>4, <1>5, <1>6, <2>1, <2>2, <3>3
    <3> QED
      BY <1>4, <2>2, <3>1, <3>2, <3>3
  <2>4. Len(x) = Len(y)
    BY <1>4, <2>2
  <2> HIDE DEF x, y
  <2>5. x = y
    BY <2>2, <2>3, <2>4, SeqEqual
  <2> QED
    BY <2>5 DEF x, y
<1> QED
  BY <1>3, <1>4, <1>5, <1>6, <1>7, <1>8 DEF Blocks

LEMMA EmptyBlocks == Blocks(<< >>)
<1> DEFINE none == {}
<1>1. << >> \in Seq(none) /\ \A b \in none : GoodBlock(b)
  OBVIOUS
<1> HIDE DEF none
<1>2. \E S : << >> \in Seq(S) /\ \A b \in S : GoodBlock(b)
  BY <1>1
<1> QED
  BY <1>2 DEF Blocks

LEMMA BlocksEmpty ==
    ASSUME NEW c, Blocks(c)
    PROVE  Blocks(<< >>) /\ c \o << >> = c /\ << >> \o c = c
<1>2. Blocks(<< >>)
  BY EmptyBlocks
<1>3. PICK S : c \in Seq(S)
  BY DEF Blocks
<1>4. c \o << >> = c /\ << >> \o c = c
  BY <1>3, ConcatEmptySeq
<1> QED
  BY <1>2, <1>4

-----------------------------------------------------------------------------
(* A node follows its chain: the invariant of one node *)

CallRecord(call) == call = [miner |-> call.miner, reward |-> call.reward,
                            coinbase |-> call.coinbase, todo |-> call.todo]

ReplayRecord(replay) == replay = [blocks |-> replay.blocks, todo |-> replay.todo,
                                  fees |-> replay.fees]

LEMMA CallUpdates ==
    ASSUME NEW call, CallRecord(call), NEW v
    PROVE  /\ CallRecord([call EXCEPT !.todo = v])
           /\ [call EXCEPT !.todo = v].miner = call.miner
           /\ [call EXCEPT !.todo = v].coinbase = call.coinbase
           /\ [call EXCEPT !.todo = v].todo = v
<1> DEFINE c == [miner |-> call.miner, reward |-> call.reward,
                 coinbase |-> call.coinbase, todo |-> v]
<1>1. [call EXCEPT !.todo = v] = c
  BY DEF CallRecord
<1>2. CallRecord(c) /\ c.miner = call.miner /\ c.coinbase = call.coinbase /\ c.todo = v
  BY DEF CallRecord
<1> QED
  BY <1>1, <1>2

LEMMA ReplayUpdates ==
    ASSUME NEW rep, ReplayRecord(rep), NEW v, NEW e
    PROVE  /\ ReplayRecord([rep EXCEPT !.todo = v, !.fees = e])
           /\ [rep EXCEPT !.todo = v, !.fees = e].blocks = rep.blocks
           /\ [rep EXCEPT !.todo = v, !.fees = e].todo = v
           /\ [rep EXCEPT !.todo = v, !.fees = e].fees = e
<1> DEFINE c == [blocks |-> rep.blocks, todo |-> v, fees |-> e]
<1>1. [rep EXCEPT !.todo = v, !.fees = e] = c
  <2>1. rep = [blocks |-> rep.blocks, todo |-> rep.todo, fees |-> rep.fees]
    BY DEF ReplayRecord
  <2> DEFINE d == [rep EXCEPT !.todo = v, !.fees = e]
  <2>2. DOMAIN rep = {"blocks", "todo", "fees"}
    BY <2>1
  <2>3. /\ DOMAIN d = {"blocks", "todo", "fees"}
        /\ d.blocks = rep.blocks /\ d.todo = v /\ d.fees = e
    BY <2>2
  <2>4. d = [x \in {"blocks", "todo", "fees"} |-> d[x]]
    BY <2>2
  <2>5. c = [x \in {"blocks", "todo", "fees"} |-> c[x]]
    OBVIOUS
  <2>7. c.blocks = rep.blocks /\ c.todo = v /\ c.fees = e
    OBVIOUS
  <2> HIDE DEF d, c
  <2>6. d = c
    BY <2>3, <2>4, <2>5, <2>7
  <2> QED
    BY <2>6 DEF d
<1>2. ReplayRecord(c) /\ c.blocks = rep.blocks /\ c.todo = v /\ c.fees = e
  BY DEF ReplayRecord
<1> QED
  BY <1>1, <1>2

\* No call is in progress: the book of the chain is through.
Settled(known, accounts, chain, reward, height) ==
    Derived(chain, BookOf(known, accounts, reward, height, Len(chain), Len(chain), {}))

\* mine_block has still to apply todo and the coinbase of the last block.
MidMine(known, accounts, chain, reward, height, call) ==
    /\ Len(chain) \in 1 .. Len(chain)
    /\ call.miner = chain[Len(chain)].miner /\ call.coinbase = chain[Len(chain)].coinbase
    /\ call.todo \subseteq TxSpace
    /\ Derived(chain, BookOf(known, accounts, reward, height,
                             Len(chain), Len(chain) - 1, call.todo))

\* import_chain has still to apply replay: its first block is open, but the
\* reward decays only at its end.
MidImport(known, accounts, chain, reward, height, replay) ==
    /\ Blocks(replay.blocks)
    /\ \A i \in 1 .. Len(replay.blocks) : replay.blocks[i].miner # NoMiner
    /\ replay.todo \subseteq TxSpace
    /\ Derived(chain \o replay.blocks,
               BookOf(known, accounts, A!Decay(reward), height,
                      Len(chain) + 1, Len(chain), replay.todo))

FollowsChain(known, accounts, mempool, chain, reward, height, call, replay) ==
    /\ Shaped(accounts) /\ mempool \subseteq TxSpace /\ Blocks(chain)
    /\ CallRecord(call) /\ ReplayRecord(replay)
    /\ call.miner = NoMiner => call.todo = {}
    /\ replay.blocks = << >> => replay.todo = {}
    /\ call.miner = NoMiner \/ replay.blocks = << >>
    /\ (call.miner = NoMiner /\ replay.blocks = << >>) =>
           Settled(known, accounts, chain, reward, height)
    /\ call.miner # NoMiner => MidMine(known, accounts, chain, reward, height, call)
    /\ replay.blocks # << >> => MidImport(known, accounts, chain, reward, height, replay)

\* Only reservations and the mempool change.
LEMMA FollowsReservation ==
    ASSUME NEW k, NEW f, NEW p, NEW c, NEW w, NEW h, NEW call, NEW rep,
           FollowsChain(k, f, p, c, w, h, call, rep),
           NEW q, q \subseteq TxSpace,
           NEW g, Shaped(g), Balances(g) = Balances(f), Nonces(g) = Nonces(f)
    PROVE  FollowsChain(k, g, q, c, w, h, call, rep)
BY DEF FollowsChain, Settled, MidMine, MidImport, BookOf

\* genesis_block
LEMMA FollowsGenesis ==
    ASSUME NEW k, NEW f, NEW p, NEW c, NEW w, NEW h, NEW call, NEW rep,
           FollowsChain(k, f, p, c, w, h, call, rep),
           call.miner = NoMiner, rep.blocks = << >>,
           NEW b, b.miner = NoMiner, b.txs = {}
    PROVE  FollowsChain(k, f, p, Append(c, b), w, 1, call, rep)
<1>1. GoodBlock(b)
  BY DEF GoodBlock
<1>2. /\ Blocks(Append(c, b)) /\ Len(Append(c, b)) = Len(c) + 1 /\ Len(c) \in Nat
      /\ Append(c, b)[Len(c) + 1] = b /\ Extends(c, Append(c, b))
  BY <1>1, BlocksAppend, BlocksOf DEF FollowsChain
<1> DEFINE d == Append(c, b)
           n == Len(c)
<1> HIDE DEF d, n
<1>n. n + 1 \in 1 .. Len(d) /\ d[n + 1] = b
  BY <1>2 DEF d, n
<1>3. Derived(d, BookOf(k, f, w, h, n, n, {}))
  BY <1>2, DerivedExtends DEF FollowsChain, Settled, d, n
<1>4. Derived(d, BookOf(k, f, w, 1, n + 1, n + 1, {}))
  BY <1>n, <1>3, SkipMove
<1>5. Settled(k, f, Append(c, b), w, 1)
  BY <1>2, <1>4 DEF Settled, d, n
<1> QED
  BY <1>2, <1>5 DEF FollowsChain

\* mine_block pushes its block.
LEMMA FollowsMine ==
    ASSUME NEW k, NEW f, NEW p, NEW c, NEW w, NEW h, NEW call, NEW rep,
           FollowsChain(k, f, p, c, w, h, call, rep),
           call.miner = NoMiner, rep.blocks = << >>,
           NEW b, b.miner \in Addr, b.txs = p,
           NEW call2, CallRecord(call2),
           call2.miner = b.miner, call2.coinbase = b.coinbase, call2.todo = p
    PROVE  FollowsChain(k, f, {}, Append(c, b), A!Decay(w), h, call2, rep)
<1>1. GoodBlock(b) /\ b.miner # NoMiner
  BY NodesAssumption DEF GoodBlock, FollowsChain
<1>2. /\ Blocks(Append(c, b)) /\ Len(Append(c, b)) = Len(c) + 1 /\ Len(c) \in Nat
      /\ Append(c, b)[Len(c) + 1] = b /\ Extends(c, Append(c, b))
  BY <1>1, BlocksAppend, BlocksOf DEF FollowsChain
<1> DEFINE d == Append(c, b)
           n == Len(c)
<1> HIDE DEF d, n
<1>n. n + 1 \in 1 .. Len(d) /\ d[n + 1] = b
  BY <1>2 DEF d, n
<1>3. Derived(d, BookOf(k, f, w, h, n, n, {}))
  BY <1>2, DerivedExtends DEF FollowsChain, Settled, d, n
<1>4. Derived(d, BookOf(k, f, A!Decay(w), h, n + 1, n, p))
  BY <1>1, <1>n, <1>3, OpenMove
<1>5. MidMine(k, f, Append(c, b), A!Decay(w), h, call2)
  <2>1. Len(d) = n + 1 /\ n = Len(d) - 1 /\ Len(d) \in 1 .. Len(d)
    BY <1>2 DEF d, n
  <2>2. d[Len(d)] = b
    BY <1>n, <2>1
  <2>3. call2.todo \subseteq TxSpace
    BY <1>1 DEF GoodBlock
  <2> QED
    BY <1>4, <2>1, <2>2, <2>3 DEF MidMine, d
<1> QED
  BY <1>1, <1>2, <1>5 DEF FollowsChain

\* mine_block applies a transaction.
LEMMA FollowsApply ==
    ASSUME NEW k, NEW f, NEW p, NEW c, NEW w, NEW h, NEW call, NEW rep,
           FollowsChain(k, f, p, c, w, h, call, rep),
           NEW tx, First(tx, call.todo),
           NEW r, Record(r),
           r.balance = A!Minus(f[tx.from].balance, A!Debit(tx)), r.nonce = tx.nonce
    PROVE  FollowsChain(k \cup {tx.to}, Applied(k, f, r, tx), p, c, w, h,
                        [call EXCEPT !.todo = call.todo \ {tx}], rep)
<1> DEFINE call2 == [call EXCEPT !.todo = call.todo \ {tx}]
<1>2. call.miner # NoMiner
  BY DEF FollowsChain, First
<1>3. /\ CallRecord(call2) /\ call2.miner = call.miner
      /\ call2.coinbase = call.coinbase /\ call2.todo = call.todo \ {tx}
  BY CallUpdates DEF FollowsChain
<1> HIDE DEF call2
<1>4. MidMine(k, f, c, w, h, call) /\ Shaped(f) /\ Len(c) \in Nat
  BY <1>2, BlocksOf DEF FollowsChain
<1>5. Len(c) # Len(c) - 1
  BY <1>4
<1>6. Derived(c, BookOf(k, f, w, h, Len(c), Len(c) - 1, call.todo))
  BY <1>4 DEF MidMine
<1>7. /\ Shaped(Applied(k, f, r, tx))
      /\ Derived(c, BookOf(k \cup {tx.to}, Applied(k, f, r, tx), w, h,
                           Len(c), Len(c) - 1, call.todo \ {tx}))
  BY <1>4, <1>5, <1>6, ApplyMove
<1>8. MidMine(k \cup {tx.to}, Applied(k, f, r, tx), c, w, h, call2)
  BY <1>3, <1>4, <1>7 DEF MidMine
<1>9. FollowsChain(k \cup {tx.to}, Applied(k, f, r, tx), p, c, w, h, call2, rep)
  BY <1>2, <1>3, <1>7, <1>8 DEF FollowsChain
<1> QED
  BY <1>9 DEF call2

\* mine_block adds the coinbase.
LEMMA FollowsCredit ==
    ASSUME NEW k, NEW f, NEW p, NEW c, NEW w, NEW h, NEW call, NEW rep,
           FollowsChain(k, f, p, c, w, h, call, rep),
           call.miner # NoMiner, call.todo = {},
           NEW call2, CallRecord(call2), call2.miner = NoMiner, call2.todo = {}
    PROVE  FollowsChain(k \cup {call.miner},
                        [f EXCEPT ![call.miner].balance =
                            A!Plus(f[call.miner].balance, call.coinbase)],
                        p, c, w, h + 1, call2, rep)
<1> DEFINE g == [f EXCEPT ![call.miner].balance =
                    A!Plus(f[call.miner].balance, call.coinbase)]
<1>1. MidMine(k, f, c, w, h, call) /\ Shaped(f) /\ Blocks(c) /\ Len(c) \in Nat
  BY BlocksOf DEF FollowsChain
<1>2. /\ Len(c) \in 1 .. Len(c) /\ Len(c) # Len(c) - 1
      /\ call.miner = c[Len(c)].miner /\ call.coinbase = c[Len(c)].coinbase
      /\ Derived(c, BookOf(k, f, w, h, Len(c), Len(c) - 1, {}))
  BY <1>1 DEF MidMine
<1>3. c[Len(c)].miner \in Addr
  BY <1>1, <1>2, BlocksOf DEF GoodBlock
<1>4. Shaped(g) /\ Derived(c, BookOf(k \cup {call.miner}, g, w, h + 1, Len(c), Len(c), {}))
  BY <1>1, <1>2, <1>3, CloseMove
<1> HIDE DEF g
<1>5. Settled(k \cup {call.miner}, g, c, w, h + 1)
  BY <1>4 DEF Settled
<1>6. rep.blocks = << >>
  BY DEF FollowsChain
<1>7. FollowsChain(k \cup {call.miner}, g, p, c, w, h + 1, call2, rep)
  BY <1>4, <1>5, <1>6 DEF FollowsChain
<1> QED
  BY <1>7 DEF g

\* import_chain applies a transaction.
LEMMA FollowsReplay ==
    ASSUME NEW k, NEW f, NEW p, NEW c, NEW w, NEW h, NEW call, NEW rep,
           FollowsChain(k, f, p, c, w, h, call, rep),
           NEW tx, First(tx, rep.todo),
           NEW r, Record(r),
           r.balance = A!Minus(f[tx.from].balance, A!Debit(tx)), r.nonce = tx.nonce,
           NEW e
    PROVE  FollowsChain(k \cup {tx.to}, Applied(k, f, r, tx), p, c, w, h, call,
                        [rep EXCEPT !.todo = rep.todo \ {tx}, !.fees = e])
<1> DEFINE rep2 == [rep EXCEPT !.todo = rep.todo \ {tx}, !.fees = e]
           d == c \o rep.blocks
<1>2. rep.blocks # << >>
  BY DEF FollowsChain, First
<1>3. /\ ReplayRecord(rep2) /\ rep2.blocks = rep.blocks /\ rep2.todo = rep.todo \ {tx}
  <2>1. \A v, u : /\ ReplayRecord([rep EXCEPT !.todo = v, !.fees = u])
                  /\ [rep EXCEPT !.todo = v, !.fees = u].blocks = rep.blocks
                  /\ [rep EXCEPT !.todo = v, !.fees = u].todo = v
                  /\ [rep EXCEPT !.todo = v, !.fees = u].fees = u
    BY ReplayUpdates DEF FollowsChain
  <2> QED
    BY <2>1
<1> HIDE DEF rep2, d
<1>4. MidImport(k, f, c, w, h, rep) /\ Shaped(f) /\ Len(c) \in Nat
  BY <1>2, BlocksOf DEF FollowsChain
<1>5. Len(c) + 1 # Len(c)
  BY <1>4
<1>6. Derived(d, BookOf(k, f, A!Decay(w), h, Len(c) + 1, Len(c), rep.todo))
  BY <1>4 DEF MidImport, d
<1>7. /\ Shaped(Applied(k, f, r, tx))
      /\ Derived(d, BookOf(k \cup {tx.to}, Applied(k, f, r, tx), A!Decay(w), h,
                           Len(c) + 1, Len(c), rep.todo \ {tx}))
  BY <1>4, <1>5, <1>6, ApplyMove
<1>8. MidImport(k \cup {tx.to}, Applied(k, f, r, tx), c, w, h, rep2)
  BY <1>3, <1>4, <1>7 DEF MidImport, d
<1>9. FollowsChain(k \cup {tx.to}, Applied(k, f, r, tx), p, c, w, h, call, rep2)
  BY <1>2, <1>3, <1>7, <1>8 DEF FollowsChain
<1> QED
  BY <1>9 DEF rep2

\* import_chain ends a block, and begins the next one.
LEMMA FollowsBlock ==
    ASSUME NEW k, NEW f, NEW p, NEW c, NEW w, NEW h, NEW call, NEW rep,
           FollowsChain(k, f, p, c, w, h, call, rep),
           rep.blocks # << >>, rep.todo = {},
           NEW b, b = Head(rep.blocks),
           NEW rep2, ReplayRecord(rep2), rep2.blocks = Tail(rep.blocks),
           rep2.todo = IF rep2.blocks = << >> THEN {} ELSE Head(rep2.blocks).txs
    PROVE  FollowsChain(k \cup {b.miner},
                        [f EXCEPT ![b.miner].balance = A!Plus(f[b.miner].balance, b.coinbase)],
                        p, Append(c, b), A!Decay(w), h + 1, call, rep2)
<1> DEFINE m == b.miner
           g == [f EXCEPT ![m].balance = A!Plus(f[m].balance, b.coinbase)]
           d == c \o rep.blocks
           n == Len(c)
           c2 == Append(c, b)
           tail == Tail(rep.blocks)
<1>1. MidImport(k, f, c, w, h, rep) /\ Shaped(f) /\ Blocks(c) /\ Blocks(rep.blocks) /\ n \in Nat
  BY BlocksOf DEF FollowsChain, MidImport
<1>2. /\ GoodBlock(b) /\ b = rep.blocks[1] /\ 1 \in 1 .. Len(rep.blocks)
      /\ Blocks(tail) /\ Len(tail) = Len(rep.blocks) - 1
      /\ \A i \in 1 .. Len(tail) : tail[i] = rep.blocks[i + 1]
      /\ d[n + 1] = b /\ Len(d) = n + Len(rep.blocks)
      /\ c2 \o tail = d
  BY <1>1, BlocksShift
<1>3. /\ Blocks(c2) /\ Len(c2) = n + 1
  BY <1>1, <1>2, BlocksAppend
<1>4. Len(rep.blocks) \in Nat /\ Len(tail) \in Nat
  BY <1>1, <1>2, BlocksOf
<1>5. m \in Addr
  BY <1>1, <1>2 DEF MidImport, GoodBlock
<1>6. \A i \in 1 .. Len(tail) : tail[i].miner # NoMiner
  <2>1. \A i \in 1 .. Len(tail) : i + 1 \in 1 .. Len(rep.blocks)
    BY <1>2, <1>4
  <2> QED
    BY <1>1, <1>2, <2>1 DEF MidImport
<1>7. call.miner = NoMiner
  BY DEF FollowsChain
<1>8. p \subseteq TxSpace /\ CallRecord(call) /\ call.todo = {}
  BY <1>7 DEF FollowsChain
<1> HIDE DEF m, g, d, n, c2, tail
<1>9. Shaped(g) /\ Derived(d, BookOf(k \cup {m}, g, A!Decay(w), h + 1, n + 1, n + 1, {}))
  <2>1. Derived(d, BookOf(k, f, A!Decay(w), h, n + 1, n, {}))
    BY <1>1 DEF MidImport, d, n
  <2>2. n + 1 # n /\ n + 1 \in 1 .. Len(d)
    BY <1>1, <1>2, <1>4
  <2>3. d[n + 1].miner = m /\ d[n + 1].coinbase = b.coinbase
    BY <1>2 DEF m
  <2>4. \A o : (/\ o # n /\ o \in 1 .. Len(d) /\ d[o].miner = m /\ d[o].coinbase = b.coinbase
                /\ Derived(d, BookOf(k, f, A!Decay(w), h, o, n, {})))
               => /\ Shaped([f EXCEPT ![m].balance = A!Plus(f[m].balance, b.coinbase)])
                  /\ Derived(d, BookOf(k \cup {m},
                                  [f EXCEPT ![m].balance = A!Plus(f[m].balance, b.coinbase)],
                                  A!Decay(w), h + 1, o, o, {}))
    BY <1>1, <1>5, CloseMove
  <2> QED
    BY <2>1, <2>2, <2>3, <2>4 DEF g
<1>10. CASE tail = << >>
  <2>1. c2 = d
    BY <1>2, <1>3, <1>10, BlocksEmpty
  <2>2. Settled(k \cup {m}, g, c2, A!Decay(w), h + 1)
    BY <1>3, <1>9, <2>1 DEF Settled
  <2>3. rep2.blocks = << >> /\ rep2.todo = {}
    BY <1>10 DEF tail
  <2>4. FollowsChain(k \cup {m}, g, p, c2, A!Decay(w), h + 1, call, rep2)
    BY <1>3, <1>7, <1>8, <1>9, <2>2, <2>3 DEF FollowsChain
  <2> QED
    BY <2>4 DEF m, g, c2
<1>11. CASE tail # << >>
  <2>1. /\ GoodBlock(Head(tail)) /\ Head(tail) = tail[1] /\ 1 \in 1 .. Len(tail)
        /\ d[Len(c2) + 1] = Head(tail)
    BY <1>2, <1>3, <1>11, BlocksShift
  <2>2. n + 1 + 1 \in 1 .. Len(d) /\ d[n + 1 + 1] = Head(tail)
    <3>1. Len(c2) + 1 = n + 1 + 1
      BY <1>3
    <3>2. n + 1 + 1 \in 1 .. Len(d)
      BY <1>1, <1>2, <1>4, <2>1
    <3> QED
      BY <2>1, <3>1, <3>2
  <2>3. Head(tail).miner # NoMiner
    BY <1>6, <2>1
  <2>4. Derived(d, BookOf(k \cup {m}, g, A!Decay(A!Decay(w)), h + 1, n + 1 + 1, n + 1,
                          Head(tail).txs))
    BY <1>9, <2>2, <2>3, OpenMove
  <2>5. rep2.blocks = tail /\ rep2.todo = Head(tail).txs /\ rep2.blocks # << >>
    BY <1>11 DEF tail
  <2>6. rep2.todo \subseteq TxSpace
    BY <2>1, <2>5 DEF GoodBlock
  <2>7. MidImport(k \cup {m}, g, c2, A!Decay(w), h + 1, rep2)
    BY <1>2, <1>3, <1>6, <2>4, <2>5, <2>6 DEF MidImport
  <2>8. FollowsChain(k \cup {m}, g, p, c2, A!Decay(w), h + 1, call, rep2)
    BY <1>3, <1>7, <1>8, <1>9, <2>5, <2>7 DEF FollowsChain
  <2> QED
    BY <2>8 DEF m, g, c2
<1> QED
  BY <1>10, <1>11

\* import_chain begins.
LEMMA FollowsStart ==
    ASSUME NEW p, p \subseteq TxSpace,
           NEW call, CallRecord(call), call.miner = NoMiner, call.todo = {},
           NEW new, Blocks(new), new # << >>,
           \A i \in 1 .. Len(new) : new[i].miner # NoMiner,
           NEW rep, ReplayRecord(rep), rep.blocks = new, rep.todo = Head(new).txs
    PROVE  FollowsChain({}, [a \in Addr |-> A!EmptyAccount], p, << >>, INITIAL_REWARD, 0,
                        call, rep)
<1> DEFINE f == [a \in Addr |-> A!EmptyAccount]
<1>1. Shaped(f) /\ Derived(new, BookOf({}, f, INITIAL_REWARD, 0, 0, 0, {}))
  BY FirstBookOf
<1> HIDE DEF f
<1>2. /\ GoodBlock(Head(new)) /\ Head(new) = new[1] /\ 1 \in 1 .. Len(new)
      /\ << >> \o new = new /\ Blocks(<< >>)
  BY BlocksShift, BlocksEmpty
<1>3. 0 + 1 \in 1 .. Len(new) /\ new[0 + 1] = Head(new)
  BY <1>2
<1>4. Derived(new, BookOf({}, f, A!Decay(INITIAL_REWARD), 0, 0 + 1, 0, Head(new).txs))
  BY <1>1, <1>2, <1>3, OpenMove
<1>5. rep.todo \subseteq TxSpace
  BY <1>2 DEF GoodBlock
<1>6. MidImport({}, f, << >>, INITIAL_REWARD, 0, rep)
  BY <1>2, <1>4, <1>5, EmptySeq DEF MidImport
<1>7. FollowsChain({}, f, p, << >>, INITIAL_REWARD, 0, call, rep)
  BY <1>1, <1>2, <1>6 DEF FollowsChain
<1> QED
  BY <1>7 DEF f

\* A process begins.
LEMMA FollowsNothing ==
    ASSUME NEW call, CallRecord(call), call.miner = NoMiner, call.todo = {},
           NEW rep, ReplayRecord(rep), rep.blocks = << >>, rep.todo = {}
    PROVE  FollowsChain({}, [a \in Addr |-> A!EmptyAccount], {}, << >>, INITIAL_REWARD, 0,
                        call, rep)
<1> DEFINE f == [a \in Addr |-> A!EmptyAccount]
<1>1. Shaped(f) /\ Derived(<< >>, BookOf({}, f, INITIAL_REWARD, 0, 0, 0, {}))
  BY FirstBookOf
<1> HIDE DEF f
<1>2. Blocks(<< >>)
  BY EmptyBlocks
<1>3. Settled({}, f, << >>, INITIAL_REWARD, 0)
  BY <1>1, EmptySeq DEF Settled
<1>4. FollowsChain({}, f, {}, << >>, INITIAL_REWARD, 0, call, rep)
  BY <1>1, <1>2, <1>3 DEF FollowsChain
<1> QED
  BY <1>4 DEF f

-----------------------------------------------------------------------------
(* Values of the accounts map *)

LEMMA RecordDomain ==
    ASSUME NEW r, Record(r)
    PROVE  DOMAIN r = {"balance", "nonce", "pending", "pending_nonce"}
<1>1. DOMAIN [balance |-> r.balance, nonce |-> r.nonce, pending |-> r.pending,
              pending_nonce |-> r.pending_nonce]
         = {"balance", "nonce", "pending", "pending_nonce"}
  OBVIOUS
<1> QED
  BY <1>1 DEF Record

LEMMA RecordOf ==
    ASSUME NEW q, DOMAIN q = {"balance", "nonce", "pending", "pending_nonce"},
           q = [x \in {"balance", "nonce", "pending", "pending_nonce"} |-> q[x]]
    PROVE  Record(q)
<1> DEFINE r == [balance |-> q.balance, nonce |-> q.nonce, pending |-> q.pending,
                 pending_nonce |-> q.pending_nonce]
<1>1. r = [x \in {"balance", "nonce", "pending", "pending_nonce"} |-> r[x]]
  OBVIOUS
<1>2. r.balance = q.balance /\ r.nonce = q.nonce /\ r.pending = q.pending
      /\ r.pending_nonce = q.pending_nonce
  OBVIOUS
<1> HIDE DEF r
<1>3. r = q
  BY <1>1, <1>2
<1> QED
  BY <1>3 DEF r, Record

-----------------------------------------------------------------------------
(* The steps of node A *)

\* What the operations leave of a value of the accounts map
LEMMA ReserveA ==
    ASSUME NEW r, Record(r), NEW tx
    PROVE  /\ Record(A!Reserve(r, tx))
           /\ A!Reserve(r, tx).balance = r.balance /\ A!Reserve(r, tx).nonce = r.nonce
<1> DEFINE q == [r EXCEPT !.pending = A!PlusMod(@, A!Debit(tx)), !.pending_nonce = @ + 1]
<1>1. q = A!Reserve(r, tx)
  BY DEF A!Reserve
<1>2. DOMAIN r = {"balance", "nonce", "pending", "pending_nonce"}
  BY RecordDomain
<1>3. /\ DOMAIN q = {"balance", "nonce", "pending", "pending_nonce"}
      /\ q = [x \in {"balance", "nonce", "pending", "pending_nonce"} |-> q[x]]
      /\ q.balance = r.balance /\ q.nonce = r.nonce
  BY <1>2
<1> HIDE DEF q
<1>4. Record(q)
  BY <1>3, RecordOf
<1> QED
  BY <1>1, <1>3, <1>4

LEMMA ReleaseA ==
    ASSUME NEW r, Record(r), NEW tx
    PROVE  /\ Record(A!Release(r, tx))
           /\ A!Release(r, tx).balance = r.balance /\ A!Release(r, tx).nonce = r.nonce
<1> DEFINE q == [r EXCEPT !.pending = A!Minus(@, A!Debit(tx)), !.pending_nonce = A!SatSub(@, 1)]
<1>1. q = A!Release(r, tx)
  BY DEF A!Release
<1>2. DOMAIN r = {"balance", "nonce", "pending", "pending_nonce"}
  BY RecordDomain
<1>3. /\ DOMAIN q = {"balance", "nonce", "pending", "pending_nonce"}
      /\ q = [x \in {"balance", "nonce", "pending", "pending_nonce"} |-> q[x]]
      /\ q.balance = r.balance /\ q.nonce = r.nonce
  BY <1>2
<1> HIDE DEF q
<1>4. Record(q)
  BY <1>3, RecordOf
<1> QED
  BY <1>1, <1>3, <1>4

LEMMA SettleA ==
    ASSUME NEW r, Record(r), NEW tx
    PROVE  /\ Record(A!Settle(r, tx))
           /\ A!Settle(r, tx).balance = A!Minus(r.balance, A!Debit(tx))
           /\ A!Settle(r, tx).nonce = tx.nonce
<1> DEFINE s == A!Release(r, tx)
           q == [s EXCEPT !.balance = A!Minus(@, A!Debit(tx)), !.nonce = tx.nonce]
<1>1. q = A!Settle(r, tx)
  BY DEF A!Settle
<1>2. Record(s) /\ s.balance = r.balance
  BY ReleaseA
<1> HIDE DEF s
<1>3. DOMAIN s = {"balance", "nonce", "pending", "pending_nonce"}
  BY <1>2, RecordDomain
<1>4. /\ DOMAIN q = {"balance", "nonce", "pending", "pending_nonce"}
      /\ q = [x \in {"balance", "nonce", "pending", "pending_nonce"} |-> q[x]]
      /\ q.balance = A!Minus(s.balance, A!Debit(tx)) /\ q.nonce = tx.nonce
  BY <1>3
<1> HIDE DEF q
<1>5. Record(q)
  BY <1>4, RecordOf
<1> QED
  BY <1>1, <1>2, <1>4, <1>5

LEMMA RedebitA ==
    ASSUME NEW r, Record(r), NEW tx
    PROVE  /\ Record(A!Redebit(r, tx))
           /\ A!Redebit(r, tx).balance = A!Minus(r.balance, A!Debit(tx))
           /\ A!Redebit(r, tx).nonce = tx.nonce
<1> DEFINE q == [r EXCEPT !.balance = A!Minus(@, A!Debit(tx)), !.nonce = tx.nonce]
<1>1. q = A!Redebit(r, tx)
  BY DEF A!Redebit
<1>2. DOMAIN r = {"balance", "nonce", "pending", "pending_nonce"}
  BY RecordDomain
<1>3. /\ DOMAIN q = {"balance", "nonce", "pending", "pending_nonce"}
      /\ q = [x \in {"balance", "nonce", "pending", "pending_nonce"} |-> q[x]]
      /\ q.balance = A!Minus(r.balance, A!Debit(tx)) /\ q.nonce = tx.nonce
  BY <1>2
<1> HIDE DEF q
<1>4. Record(q)
  BY <1>3, RecordOf
<1> QED
  BY <1>1, <1>3, <1>4

LEMMA ReplayOfA ==
    ASSUME NEW blocks
    PROVE  /\ ReplayRecord(A!Replay(blocks)) /\ A!Replay(blocks).blocks = blocks
           /\ A!Replay(blocks).todo = IF blocks = << >> THEN {} ELSE Head(blocks).txs
BY DEF A!Replay, A!NoReplay, ReplayRecord

FollowsA == FollowsChain(knownA, accountsA, mempoolA, chainA, block_rewardA, block_heightA,
                         callA, replayA)

LEMMA OwnStepA ==
    ASSUME FollowsA, Deposits = {}, A!OwnStep, ~FailsA
    PROVE  FollowsA'
<1> USE DEF FollowsA
<1>0. /\ replayA' = replayA /\ replayA.blocks = << >>
      /\ A!Next
  BY DEF A!OwnStep, A!Replaying
<1>1. ASSUME NEW tx \in TxSpace, A!SubmitTransaction(tx)
      PROVE  FollowsA'
  <2>1. tx.from \in Addr
    BY TxAddresses
  <2>2. /\ accountsA' = [accountsA EXCEPT ![tx.from] = A!Reserve(accountsA[tx.from], tx)]
        /\ mempoolA' = mempoolA \cup {tx}
        /\ UNCHANGED <<knownA, chainA, block_rewardA, block_heightA, callA>>
    BY <1>1 DEF A!SubmitTransaction
  <2>3. Shaped(accountsA) /\ Record(accountsA[tx.from]) /\ mempoolA' \subseteq TxSpace
    BY <2>1, <2>2 DEF FollowsChain, Shaped
  <2> DEFINE r == A!Reserve(accountsA[tx.from], tx)
  <2>4. /\ Record(r) /\ r.balance = accountsA[tx.from].balance
        /\ r.nonce = accountsA[tx.from].nonce
        /\ accountsA' = [accountsA EXCEPT ![tx.from] = r]
    BY <2>2, <2>3, ReserveA
  <2> HIDE DEF r
  <2>5. /\ Shaped(accountsA') /\ Balances(accountsA') = Balances(accountsA)
        /\ Nonces(accountsA') = Nonces(accountsA)
    BY <2>1, <2>3, <2>4, PutReservation
  <2> QED
    BY <1>0, <2>2, <2>3, <2>5, FollowsReservation
<1>2. ASSUME NEW tx \in TxSpace, A!RejectTransaction(tx)
      PROVE  FollowsA'
  <2>1. UNCHANGED <<knownA, accountsA, mempoolA, chainA, block_rewardA, block_heightA, callA>>
    BY <1>2 DEF A!RejectTransaction, A!vars
  <2> QED
    BY <1>0, <2>1
<1>3. ASSUME NEW tx \in mempoolA, A!DropTransaction(tx)
      PROVE  FollowsA'
  <2>1. tx.from \in Addr /\ mempoolA \subseteq TxSpace
    BY TxAddresses DEF FollowsChain
  <2>2. /\ mempoolA' = mempoolA \ {tx}
        /\ UNCHANGED <<knownA, chainA, block_rewardA, block_heightA, callA>>
        /\ \/ accountsA' = [accountsA EXCEPT ![tx.from] = A!Release(accountsA[tx.from], tx)]
           \/ accountsA' = accountsA
    BY <1>3 DEF A!DropTransaction
  <2>3. Shaped(accountsA) /\ Record(accountsA[tx.from]) /\ mempoolA' \subseteq TxSpace
    BY <2>1, <2>2 DEF FollowsChain, Shaped
  <2> DEFINE r == A!Release(accountsA[tx.from], tx)
  <2>4. /\ Record(r) /\ r.balance = accountsA[tx.from].balance
        /\ r.nonce = accountsA[tx.from].nonce
        /\ accountsA' = [accountsA EXCEPT ![tx.from] = r] \/ accountsA' = accountsA
    BY <2>2, <2>3, ReleaseA
  <2> HIDE DEF r
  <2>5. /\ Shaped(accountsA') /\ Balances(accountsA') = Balances(accountsA)
        /\ Nonces(accountsA') = Nonces(accountsA)
    BY <2>1, <2>3, <2>4, PutReservation
  <2> QED
    BY <1>0, <2>2, <2>3, <2>5, FollowsReservation
<1>4. ASSUME NEW m \in MinersA, A!MineBlock(m)
      PROVE  FollowsA'
  <2> DEFINE b == [miner |-> m, coinbase |-> A!Plus(A!NextReward, A!FeeTotal(mempoolA)),
                   fees |-> A!FeeTotal(mempoolA), txs |-> mempoolA]
             e == [miner |-> m, reward |-> A!NextReward,
                   coinbase |-> A!Plus(A!NextReward, A!FeeTotal(mempoolA)), todo |-> mempoolA]
  <2>1. /\ callA.miner = NoMiner
        /\ block_rewardA' = A!Decay(block_rewardA) /\ chainA' = Append(chainA, b)
        /\ mempoolA' = {} /\ callA' = e
        /\ UNCHANGED <<knownA, accountsA, block_heightA>>
    BY <1>4 DEF A!MineBlock, A!Idle
  <2>2. /\ b.miner \in Addr /\ b.txs = mempoolA /\ CallRecord(e)
        /\ e.miner = b.miner /\ e.coinbase = b.coinbase /\ e.todo = mempoolA
    BY NodesAssumption DEF CallRecord
  <2> HIDE DEF b, e
  <2>3. FollowsChain(knownA, accountsA, {}, Append(chainA, b), A!Decay(block_rewardA),
                     block_heightA, e, replayA)
    BY <1>0, <2>1, <2>2, FollowsMine
  <2> QED
    BY <1>0, <2>1, <2>3
<1>5. ASSUME A!MineFeeOverflow
      PROVE  FollowsA'
  BY <1>5 DEF FailsA, OverflowsA
<1>6. ASSUME NEW tx \in callA.todo, A!ApplyTx(tx)
      PROVE  FollowsA'
  <2>1. callA.todo \subseteq TxSpace /\ Shaped(accountsA)
    BY DEF FollowsChain, MidMine
  <2>2. First(tx, callA.todo) /\ tx.from \in Addr
    BY <1>6, <2>1, TxAddresses DEF A!ApplyTx, A!NextTx, First
  <2> DEFINE r == A!Settle(accountsA[tx.from], tx)
  <2>3. Record(accountsA[tx.from])
    BY <2>1, <2>2 DEF Shaped
  <2>4. /\ Record(r) /\ r.balance = A!Minus(accountsA[tx.from].balance, A!Debit(tx))
        /\ r.nonce = tx.nonce
    BY <2>3, SettleA
  <2>5. A!AfterDebit(tx) = IF tx.from # ZERO_ADDR /\ tx.from \in knownA
                           THEN [accountsA EXCEPT ![tx.from] = r] ELSE accountsA
    BY DEF A!AfterDebit, A!Pays
  <2>6. /\ knownA' = knownA \cup {tx.to}
        /\ accountsA' = [A!AfterDebit(tx) EXCEPT
               ![tx.to].balance = A!PlusMod(A!AfterDebit(tx)[tx.to].balance, tx.amount)]
        /\ callA' = [callA EXCEPT !.todo = callA.todo \ {tx}]
        /\ UNCHANGED <<mempoolA, chainA, block_rewardA, block_heightA>>
    BY <1>6 DEF A!ApplyTx
  <2> HIDE DEF r
  <2>7. accountsA' = Applied(knownA, accountsA, r, tx)
    BY <2>5, <2>6 DEF Applied
  <2>8. FollowsChain(knownA \cup {tx.to}, Applied(knownA, accountsA, r, tx), mempoolA, chainA,
                     block_rewardA, block_heightA, [callA EXCEPT !.todo = callA.todo \ {tx}],
                     replayA)
    BY <2>2, <2>4, FollowsApply
  <2> QED
    BY <1>0, <2>6, <2>7, <2>8
<1>7. ASSUME NEW tx \in callA.todo, A!ApplyTxPanic(tx)
      PROVE  FollowsA'
  BY <1>7 DEF FailsA, OverflowsA
<1>8. ASSUME A!CreditMinerPanic
      PROVE  FollowsA'
  BY <1>8 DEF FailsA, OverflowsA
<1>9. ASSUME A!GenesisBlock
      PROVE  FollowsA'
  <2>1. /\ callA.miner = NoMiner
        /\ chainA' = Append(chainA, A!Genesis) /\ block_heightA' = 1
        /\ UNCHANGED <<knownA, accountsA, mempoolA, block_rewardA, callA>>
    BY <1>9 DEF A!GenesisBlock, A!Idle
  <2>2. A!Genesis.miner = NoMiner /\ A!Genesis.txs = {}
    BY DEF A!Genesis
  <2>3. FollowsChain(knownA, accountsA, mempoolA, Append(chainA, A!Genesis), block_rewardA, 1,
                     callA, replayA)
    BY <1>0, <2>1, <2>2, FollowsGenesis
  <2> QED
    BY <1>0, <2>1, <2>3
<1>10. ASSUME A!CreditMiner
       PROVE  FollowsA'
  <2> DEFINE m == callA.miner
  <2>1. /\ m # NoMiner /\ callA.todo = {}
        /\ knownA' = knownA \cup {m}
        /\ accountsA' = [accountsA EXCEPT
               ![m].balance = A!Plus(accountsA[m].balance, callA.coinbase)]
        /\ block_heightA' = block_heightA + 1
        /\ callA' = A!NoCall
        /\ UNCHANGED <<mempoolA, chainA, block_rewardA>>
    BY <1>10 DEF A!CreditMiner, A!Idle
  <2>2. CallRecord(A!NoCall) /\ A!NoCall.miner = NoMiner /\ A!NoCall.todo = {}
    BY DEF A!NoCall, CallRecord
  <2>3. FollowsChain(knownA \cup {callA.miner},
                     [accountsA EXCEPT ![callA.miner].balance =
                         A!Plus(accountsA[callA.miner].balance, callA.coinbase)],
                     mempoolA, chainA, block_rewardA, block_heightA + 1, A!NoCall, replayA)
    BY <2>1, <2>2, FollowsCredit
  <2> QED
    BY <1>0, <2>1, <2>3
<1>11. ASSUME NEW a \in Addr, NEW start \in Deposits
       PROVE  FALSE
  OBVIOUS
<1> QED
  BY <1>0, <1>1, <1>2, <1>3, <1>4, <1>5, <1>6, <1>7, <1>8, <1>9, <1>10, <1>11
  DEF A!Next, A!UnsavedStep

LEMMA ReplayStepA ==
    ASSUME FollowsA, A!ReplayStep, ~FailsA
    PROVE  FollowsA'
<1> USE DEF FollowsA
<1>1. ASSUME NEW tx \in replayA.todo, A!ReplayTx(tx)
      PROVE  FollowsA'
  <2>1. replayA.todo \subseteq TxSpace /\ Shaped(accountsA)
    BY DEF FollowsChain, MidImport
  <2>2. First(tx, replayA.todo) /\ tx.from \in Addr
    BY <1>1, <2>1, TxAddresses DEF A!ReplayTx, A!FirstTx, First
  <2> DEFINE r == A!Redebit(accountsA[tx.from], tx)
             e == IF A!Pays(tx) THEN A!Plus(replayA.fees, A!FeeSplit(tx.selector, tx.fee))
                  ELSE replayA.fees
  <2>3. Record(accountsA[tx.from])
    BY <2>1, <2>2 DEF Shaped
  <2>4. /\ Record(r) /\ r.balance = A!Minus(accountsA[tx.from].balance, A!Debit(tx))
        /\ r.nonce = tx.nonce
    BY <2>3, RedebitA
  <2>5. A!AfterRedebit(tx) = IF tx.from # ZERO_ADDR /\ tx.from \in knownA
                             THEN [accountsA EXCEPT ![tx.from] = r] ELSE accountsA
    BY DEF A!AfterRedebit, A!Pays
  <2>6. /\ knownA' = knownA \cup {tx.to}
        /\ accountsA' = [A!AfterRedebit(tx) EXCEPT
               ![tx.to].balance = A!PlusMod(A!AfterRedebit(tx)[tx.to].balance, tx.amount)]
        /\ replayA' = [replayA EXCEPT !.todo = replayA.todo \ {tx}, !.fees = e]
        /\ UNCHANGED <<mempoolA, chainA, block_rewardA, block_heightA, callA>>
    BY <1>1 DEF A!ReplayTx
  <2> HIDE DEF r, e
  <2>7. accountsA' = Applied(knownA, accountsA, r, tx)
    BY <2>5, <2>6 DEF Applied
  <2>8. FollowsChain(knownA \cup {tx.to}, Applied(knownA, accountsA, r, tx), mempoolA, chainA,
                     block_rewardA, block_heightA, callA,
                     [replayA EXCEPT !.todo = replayA.todo \ {tx}, !.fees = e])
    BY <2>2, <2>4, FollowsReplay
  <2> QED
    BY <2>6, <2>7, <2>8
<1>2. ASSUME A!ReplayBlock
      PROVE  FollowsA'
  <2> DEFINE b == Head(replayA.blocks)
  <2>1. /\ replayA.blocks # << >> /\ replayA.todo = {}
        /\ knownA' = knownA \cup {b.miner}
        /\ accountsA' = [accountsA EXCEPT
               ![b.miner].balance = A!Plus(accountsA[b.miner].balance, b.coinbase)]
        /\ block_rewardA' = A!Decay(block_rewardA)
        /\ chainA' = Append(chainA, b)
        /\ block_heightA' = block_heightA + 1
        /\ replayA' = A!Replay(Tail(replayA.blocks))
        /\ UNCHANGED <<mempoolA, callA>>
    BY <1>2 DEF A!ReplayBlock, A!BlockReplayed, A!Replaying, A!Current, A!Rest
  <2>2. /\ ReplayRecord(replayA') /\ replayA'.blocks = Tail(replayA.blocks)
        /\ replayA'.todo = IF replayA'.blocks = << >> THEN {} ELSE Head(replayA'.blocks).txs
    BY <2>1, ReplayOfA
  <2> HIDE DEF b
  <2>3. FollowsChain(knownA \cup {b.miner},
                     [accountsA EXCEPT ![b.miner].balance =
                         A!Plus(accountsA[b.miner].balance, b.coinbase)],
                     mempoolA, Append(chainA, b), A!Decay(block_rewardA), block_heightA + 1,
                     callA, replayA')
    BY <2>1, <2>2, FollowsBlock DEF b
  <2> QED
    BY <2>1, <2>3
<1> QED
  BY <1>1, <1>2 DEF A!ReplayStep, FailsA, OverflowsA

LEMMA StartImportA ==
    ASSUME FollowsA, NEW new, Blocks(new), A!StartImport(new)
    PROVE  FollowsA'
<1> USE DEF FollowsA
<1>1. /\ callA.miner = NoMiner /\ A!Importable(new)
      /\ knownA' = {} /\ accountsA' = [a \in Addr |-> A!EmptyAccount]
      /\ block_rewardA' = INITIAL_REWARD /\ chainA' = << >> /\ block_heightA' = 0
      /\ replayA' = A!Replay(new)
      /\ UNCHANGED <<mempoolA, callA>>
  BY DEF A!StartImport, A!Idle
<1>2. Blocks(chainA) /\ mempoolA \subseteq TxSpace /\ CallRecord(callA) /\ callA.todo = {}
  BY <1>1 DEF FollowsChain
<1>3. new # << >>
  <2>1. Len(new) > Len(chainA) /\ Len(chainA) \in Nat
    BY <1>1, <1>2, BlocksOf DEF A!Importable
  <2> QED
    BY <2>1, EmptySeq
<1>4. \A i \in 1 .. Len(new) : new[i].miner # NoMiner
  <2>1. DOMAIN new = 1 .. Len(new)
    BY DEF Blocks
  <2> QED
    BY <1>1, <2>1 DEF A!Importable, A!ValidChain, A!AcceptedByPeers
<1>5. /\ ReplayRecord(replayA') /\ replayA'.blocks = new
      /\ replayA'.todo = Head(new).txs
  BY <1>1, <1>3, ReplayOfA
<1>6. FollowsChain({}, [a \in Addr |-> A!EmptyAccount], mempoolA, << >>, INITIAL_REWARD, 0,
                   callA, replayA')
  BY <1>1, <1>2, <1>3, <1>4, <1>5, FollowsStart
<1> QED
  BY <1>1, <1>6

-----------------------------------------------------------------------------
(* The steps of node B *)

\* Each instance has a sum of its own, the same one.
LEMMA SumsAlike ==
    ASSUME NEW f
    PROVE  A!SumFunction(f) = SumFunction(f) /\ B!SumFunction(f) = SumFunction(f)
<1> DEFINE S == DOMAIN f
<1>1. SumFunctionOnSet(f, S) = (CHOOSE g : Sums(f, g, SUBSET S))[S]
  BY SumUnfold
<1>2. A!SumFunctionOnSet(f, S) = (CHOOSE g : Sums(f, g, SUBSET S))[S]
  BY DEF A!SumFunctionOnSet, A!FoldFunctionOnSet, A!MapThenFoldSet, Sums, Pick
<1>3. B!SumFunctionOnSet(f, S) = (CHOOSE g : Sums(f, g, SUBSET S))[S]
  BY DEF B!SumFunctionOnSet, B!FoldFunctionOnSet, B!MapThenFoldSet, Sums, Pick
<1> QED
  BY <1>1, <1>2, <1>3 DEF SumFunction, A!SumFunction, B!SumFunction

\* The two instances compute alike.
LEMMA OperatorsB ==
    /\ \A p, q : B!Minus(p, q) = A!Minus(p, q)
    /\ \A p, q : B!Plus(p, q) = A!Plus(p, q)
    /\ \A p, q : B!PlusMod(p, q) = A!PlusMod(p, q)
    /\ \A p : B!Decay(p) = A!Decay(p)
    /\ \A x : B!Debit(x) = A!Debit(x)
    /\ \A x, y : B!Before(x, y) = A!Before(x, y)
    /\ \A x, y : B!FeeSplit(x, y) = A!FeeSplit(x, y)
    /\ \A x : B!FeeTotal(x) = A!FeeTotal(x)
    /\ B!EmptyAccount = A!EmptyAccount
<1>1. B!Token = A!Token /\ B!Zero = A!Zero
  BY DEF B!Token, A!Token, B!Zero, A!Zero
<1>2. \A x, y : B!SatSub(x, y) = A!SatSub(x, y)
  BY DEF B!SatSub, A!SatSub
<1>3. \A x, y : B!FeeSplit(x, y) = A!FeeSplit(x, y)
  BY <1>1 DEF B!FeeSplit, A!FeeSplit
<1>4. \A x : B!Cost(x) = A!Cost(x)
  BY <1>1, <1>3 DEF B!Cost, A!Cost
<1>5. \A p, q : B!Minus(p, q) = A!Minus(p, q)
  BY <1>1, <1>2 DEF B!Minus, A!Minus
<1>6. \A p, q : B!Plus(p, q) = A!Plus(p, q)
  BY <1>1 DEF B!Plus, A!Plus
<1>7. \A p, q : B!PlusMod(p, q) = A!PlusMod(p, q)
  BY <1>1 DEF B!PlusMod, A!PlusMod
<1>8. \A p : B!Decay(p) = A!Decay(p)
  BY <1>1 DEF B!Decay, A!Decay
<1>9. \A x : B!Debit(x) = A!Debit(x)
  BY <1>1, <1>4 DEF B!Debit, A!Debit
<1>10. \A x, y : B!Before(x, y) = A!Before(x, y)
  BY DEF B!Before, A!Before
<1>11. B!EmptyAccount = A!EmptyAccount
  BY <1>1 DEF B!EmptyAccount, A!EmptyAccount
<1>12. \A x : B!FeeTotal(x) = A!FeeTotal(x)
  BY <1>1, <1>3, SumsAlike DEF B!FeeTotal, A!FeeTotal
<1> QED
  BY <1>3, <1>5, <1>6, <1>7, <1>8, <1>9, <1>10, <1>11, <1>12

\* What the operations leave of a value of the accounts map
LEMMA ReserveB ==
    ASSUME NEW r, Record(r), NEW tx
    PROVE  /\ Record(B!Reserve(r, tx))
           /\ B!Reserve(r, tx).balance = r.balance /\ B!Reserve(r, tx).nonce = r.nonce
<1> DEFINE q == [r EXCEPT !.pending = B!PlusMod(@, B!Debit(tx)), !.pending_nonce = @ + 1]
<1>1. q = B!Reserve(r, tx)
  BY DEF B!Reserve
<1>2. DOMAIN r = {"balance", "nonce", "pending", "pending_nonce"}
  BY RecordDomain
<1>3. /\ DOMAIN q = {"balance", "nonce", "pending", "pending_nonce"}
      /\ q = [x \in {"balance", "nonce", "pending", "pending_nonce"} |-> q[x]]
      /\ q.balance = r.balance /\ q.nonce = r.nonce
  BY <1>2
<1> HIDE DEF q
<1>4. Record(q)
  BY <1>3, RecordOf
<1> QED
  BY <1>1, <1>3, <1>4

LEMMA ReleaseB ==
    ASSUME NEW r, Record(r), NEW tx
    PROVE  /\ Record(B!Release(r, tx))
           /\ B!Release(r, tx).balance = r.balance /\ B!Release(r, tx).nonce = r.nonce
<1> DEFINE q == [r EXCEPT !.pending = B!Minus(@, B!Debit(tx)), !.pending_nonce = B!SatSub(@, 1)]
<1>1. q = B!Release(r, tx)
  BY DEF B!Release
<1>2. DOMAIN r = {"balance", "nonce", "pending", "pending_nonce"}
  BY RecordDomain
<1>3. /\ DOMAIN q = {"balance", "nonce", "pending", "pending_nonce"}
      /\ q = [x \in {"balance", "nonce", "pending", "pending_nonce"} |-> q[x]]
      /\ q.balance = r.balance /\ q.nonce = r.nonce
  BY <1>2
<1> HIDE DEF q
<1>4. Record(q)
  BY <1>3, RecordOf
<1> QED
  BY <1>1, <1>3, <1>4

LEMMA SettleB ==
    ASSUME NEW r, Record(r), NEW tx
    PROVE  /\ Record(B!Settle(r, tx))
           /\ B!Settle(r, tx).balance = A!Minus(r.balance, A!Debit(tx))
           /\ B!Settle(r, tx).nonce = tx.nonce
<1> DEFINE s == B!Release(r, tx)
           q == [s EXCEPT !.balance = B!Minus(@, B!Debit(tx)), !.nonce = tx.nonce]
<1>1. q = B!Settle(r, tx)
  BY DEF B!Settle
<1>2. Record(s) /\ s.balance = r.balance
  BY ReleaseB
<1> HIDE DEF s
<1>3. DOMAIN s = {"balance", "nonce", "pending", "pending_nonce"}
  BY <1>2, RecordDomain
<1>4. /\ DOMAIN q = {"balance", "nonce", "pending", "pending_nonce"}
      /\ q = [x \in {"balance", "nonce", "pending", "pending_nonce"} |-> q[x]]
      /\ q.balance = B!Minus(s.balance, B!Debit(tx)) /\ q.nonce = tx.nonce
  BY <1>3
<1> HIDE DEF q
<1>5. Record(q)
  BY <1>4, RecordOf
<1> QED
  BY <1>1, <1>2, <1>4, <1>5, OperatorsB

LEMMA RedebitB ==
    ASSUME NEW r, Record(r), NEW tx
    PROVE  /\ Record(B!Redebit(r, tx))
           /\ B!Redebit(r, tx).balance = A!Minus(r.balance, A!Debit(tx))
           /\ B!Redebit(r, tx).nonce = tx.nonce
<1> DEFINE q == [r EXCEPT !.balance = B!Minus(@, B!Debit(tx)), !.nonce = tx.nonce]
<1>1. q = B!Redebit(r, tx)
  BY DEF B!Redebit
<1>2. DOMAIN r = {"balance", "nonce", "pending", "pending_nonce"}
  BY RecordDomain
<1>3. /\ DOMAIN q = {"balance", "nonce", "pending", "pending_nonce"}
      /\ q = [x \in {"balance", "nonce", "pending", "pending_nonce"} |-> q[x]]
      /\ q.balance = B!Minus(r.balance, B!Debit(tx)) /\ q.nonce = tx.nonce
  BY <1>2
<1> HIDE DEF q
<1>4. Record(q)
  BY <1>3, RecordOf
<1> QED
  BY <1>1, <1>3, <1>4, OperatorsB

LEMMA ReplayOfB ==
    ASSUME NEW blocks
    PROVE  /\ ReplayRecord(B!Replay(blocks)) /\ B!Replay(blocks).blocks = blocks
           /\ B!Replay(blocks).todo = IF blocks = << >> THEN {} ELSE Head(blocks).txs
BY DEF B!Replay, B!NoReplay, ReplayRecord

FollowsB == FollowsChain(knownB, accountsB, mempoolB, chainB, block_rewardB, block_heightB,
                         callB, replayB)

LEMMA OwnStepB ==
    ASSUME FollowsB, Deposits = {}, B!OwnStep, ~FailsB
    PROVE  FollowsB'
<1> USE DEF FollowsB
<1>0. /\ replayB' = replayB /\ replayB.blocks = << >>
      /\ B!Next
  BY DEF B!OwnStep, B!Replaying
<1>1. ASSUME NEW tx \in TxSpace, B!SubmitTransaction(tx)
      PROVE  FollowsB'
  <2>1. tx.from \in Addr
    BY TxAddresses
  <2>2. /\ accountsB' = [accountsB EXCEPT ![tx.from] = B!Reserve(accountsB[tx.from], tx)]
        /\ mempoolB' = mempoolB \cup {tx}
        /\ UNCHANGED <<knownB, chainB, block_rewardB, block_heightB, callB>>
    BY <1>1 DEF B!SubmitTransaction
  <2>3. Shaped(accountsB) /\ Record(accountsB[tx.from]) /\ mempoolB' \subseteq TxSpace
    BY <2>1, <2>2 DEF FollowsChain, Shaped
  <2> DEFINE r == B!Reserve(accountsB[tx.from], tx)
  <2>4. /\ Record(r) /\ r.balance = accountsB[tx.from].balance
        /\ r.nonce = accountsB[tx.from].nonce
        /\ accountsB' = [accountsB EXCEPT ![tx.from] = r]
    BY <2>2, <2>3, ReserveB
  <2> HIDE DEF r
  <2>5. /\ Shaped(accountsB') /\ Balances(accountsB') = Balances(accountsB)
        /\ Nonces(accountsB') = Nonces(accountsB)
    BY <2>1, <2>3, <2>4, PutReservation
  <2> QED
    BY <1>0, <2>2, <2>3, <2>5, FollowsReservation
<1>2. ASSUME NEW tx \in TxSpace, B!RejectTransaction(tx)
      PROVE  FollowsB'
  <2>1. UNCHANGED <<knownB, accountsB, mempoolB, chainB, block_rewardB, block_heightB, callB>>
    BY <1>2 DEF B!RejectTransaction, B!vars
  <2> QED
    BY <1>0, <2>1
<1>3. ASSUME NEW tx \in mempoolB, B!DropTransaction(tx)
      PROVE  FollowsB'
  <2>1. tx.from \in Addr /\ mempoolB \subseteq TxSpace
    BY TxAddresses DEF FollowsChain
  <2>2. /\ mempoolB' = mempoolB \ {tx}
        /\ UNCHANGED <<knownB, chainB, block_rewardB, block_heightB, callB>>
        /\ \/ accountsB' = [accountsB EXCEPT ![tx.from] = B!Release(accountsB[tx.from], tx)]
           \/ accountsB' = accountsB
    BY <1>3 DEF B!DropTransaction
  <2>3. Shaped(accountsB) /\ Record(accountsB[tx.from]) /\ mempoolB' \subseteq TxSpace
    BY <2>1, <2>2 DEF FollowsChain, Shaped
  <2> DEFINE r == B!Release(accountsB[tx.from], tx)
  <2>4. /\ Record(r) /\ r.balance = accountsB[tx.from].balance
        /\ r.nonce = accountsB[tx.from].nonce
        /\ accountsB' = [accountsB EXCEPT ![tx.from] = r] \/ accountsB' = accountsB
    BY <2>2, <2>3, ReleaseB
  <2> HIDE DEF r
  <2>5. /\ Shaped(accountsB') /\ Balances(accountsB') = Balances(accountsB)
        /\ Nonces(accountsB') = Nonces(accountsB)
    BY <2>1, <2>3, <2>4, PutReservation
  <2> QED
    BY <1>0, <2>2, <2>3, <2>5, FollowsReservation
<1>4. ASSUME NEW m \in MinersB, B!MineBlock(m)
      PROVE  FollowsB'
  <2> DEFINE b == [miner |-> m, coinbase |-> B!Plus(B!NextReward, B!FeeTotal(mempoolB)),
                   fees |-> B!FeeTotal(mempoolB), txs |-> mempoolB]
             e == [miner |-> m, reward |-> B!NextReward,
                   coinbase |-> B!Plus(B!NextReward, B!FeeTotal(mempoolB)), todo |-> mempoolB]
  <2>1. /\ callB.miner = NoMiner
        /\ block_rewardB' = B!Decay(block_rewardB) /\ chainB' = Append(chainB, b)
        /\ mempoolB' = {} /\ callB' = e
        /\ UNCHANGED <<knownB, accountsB, block_heightB>>
    BY <1>4 DEF B!MineBlock, B!Idle
  <2>2. /\ b.miner \in Addr /\ b.txs = mempoolB /\ CallRecord(e)
        /\ e.miner = b.miner /\ e.coinbase = b.coinbase /\ e.todo = mempoolB
    BY NodesAssumption DEF CallRecord
  <2> HIDE DEF b, e
  <2>3. FollowsChain(knownB, accountsB, {}, Append(chainB, b), A!Decay(block_rewardB),
                     block_heightB, e, replayB)
    BY <1>0, <2>1, <2>2, FollowsMine
  <2> QED
    BY <1>0, <2>1, <2>3, OperatorsB
<1>5. ASSUME B!MineFeeOverflow
      PROVE  FollowsB'
  BY <1>5 DEF FailsB, OverflowsB
<1>6. ASSUME NEW tx \in callB.todo, B!ApplyTx(tx)
      PROVE  FollowsB'
  <2>1. callB.todo \subseteq TxSpace /\ Shaped(accountsB)
    BY DEF FollowsChain, MidMine
  <2>2. First(tx, callB.todo) /\ tx.from \in Addr
    BY <1>6, <2>1, OperatorsB, TxAddresses DEF B!ApplyTx, B!NextTx, First
  <2> DEFINE r == B!Settle(accountsB[tx.from], tx)
  <2>3. Record(accountsB[tx.from])
    BY <2>1, <2>2 DEF Shaped
  <2>4. /\ Record(r) /\ r.balance = A!Minus(accountsB[tx.from].balance, A!Debit(tx))
        /\ r.nonce = tx.nonce
    BY <2>3, SettleB
  <2>5. B!AfterDebit(tx) = IF tx.from # ZERO_ADDR /\ tx.from \in knownB
                           THEN [accountsB EXCEPT ![tx.from] = r] ELSE accountsB
    BY DEF B!AfterDebit, B!Pays
  <2>6. /\ knownB' = knownB \cup {tx.to}
        /\ accountsB' = [B!AfterDebit(tx) EXCEPT
               ![tx.to].balance = B!PlusMod(B!AfterDebit(tx)[tx.to].balance, tx.amount)]
        /\ callB' = [callB EXCEPT !.todo = callB.todo \ {tx}]
        /\ UNCHANGED <<mempoolB, chainB, block_rewardB, block_heightB>>
    BY <1>6 DEF B!ApplyTx
  <2> HIDE DEF r
  <2>7. accountsB' = Applied(knownB, accountsB, r, tx)
    BY <2>5, <2>6, OperatorsB DEF Applied
  <2>8. FollowsChain(knownB \cup {tx.to}, Applied(knownB, accountsB, r, tx), mempoolB, chainB,
                     block_rewardB, block_heightB, [callB EXCEPT !.todo = callB.todo \ {tx}],
                     replayB)
    BY <2>2, <2>4, FollowsApply
  <2> QED
    BY <1>0, <2>6, <2>7, <2>8
<1>7. ASSUME NEW tx \in callB.todo, B!ApplyTxPanic(tx)
      PROVE  FollowsB'
  BY <1>7 DEF FailsB, OverflowsB
<1>8. ASSUME B!CreditMinerPanic
      PROVE  FollowsB'
  BY <1>8 DEF FailsB, OverflowsB
<1>9. ASSUME B!GenesisBlock
      PROVE  FollowsB'
  <2>1. /\ callB.miner = NoMiner
        /\ chainB' = Append(chainB, B!Genesis) /\ block_heightB' = 1
        /\ UNCHANGED <<knownB, accountsB, mempoolB, block_rewardB, callB>>
    BY <1>9 DEF B!GenesisBlock, B!Idle
  <2>2. B!Genesis.miner = NoMiner /\ B!Genesis.txs = {}
    BY DEF B!Genesis
  <2>3. FollowsChain(knownB, accountsB, mempoolB, Append(chainB, B!Genesis), block_rewardB, 1,
                     callB, replayB)
    BY <1>0, <2>1, <2>2, FollowsGenesis
  <2> QED
    BY <1>0, <2>1, <2>3
<1>10. ASSUME B!CreditMiner
       PROVE  FollowsB'
  <2> DEFINE m == callB.miner
  <2>1. /\ m # NoMiner /\ callB.todo = {}
        /\ knownB' = knownB \cup {m}
        /\ accountsB' = [accountsB EXCEPT
               ![m].balance = B!Plus(accountsB[m].balance, callB.coinbase)]
        /\ block_heightB' = block_heightB + 1
        /\ callB' = B!NoCall
        /\ UNCHANGED <<mempoolB, chainB, block_rewardB>>
    BY <1>10 DEF B!CreditMiner, B!Idle
  <2>2. CallRecord(B!NoCall) /\ B!NoCall.miner = NoMiner /\ B!NoCall.todo = {}
    BY DEF B!NoCall, CallRecord
  <2>3. FollowsChain(knownB \cup {callB.miner},
                     [accountsB EXCEPT ![callB.miner].balance =
                         A!Plus(accountsB[callB.miner].balance, callB.coinbase)],
                     mempoolB, chainB, block_rewardB, block_heightB + 1, B!NoCall, replayB)
    BY <2>1, <2>2, FollowsCredit
  <2> QED
    BY <1>0, <2>1, <2>3, OperatorsB
<1>11. ASSUME NEW a \in Addr, NEW start \in Deposits
       PROVE  FALSE
  OBVIOUS
<1> QED
  BY <1>0, <1>1, <1>2, <1>3, <1>4, <1>5, <1>6, <1>7, <1>8, <1>9, <1>10, <1>11
  DEF B!Next, B!UnsavedStep

LEMMA ReplayStepB ==
    ASSUME FollowsB, B!ReplayStep, ~FailsB
    PROVE  FollowsB'
<1> USE DEF FollowsB
<1>1. ASSUME NEW tx \in replayB.todo, B!ReplayTx(tx)
      PROVE  FollowsB'
  <2>1. replayB.todo \subseteq TxSpace /\ Shaped(accountsB)
    BY DEF FollowsChain, MidImport
  <2>2. First(tx, replayB.todo) /\ tx.from \in Addr
    BY <1>1, <2>1, OperatorsB, TxAddresses DEF B!ReplayTx, B!FirstTx, First
  <2> DEFINE r == B!Redebit(accountsB[tx.from], tx)
             e == IF B!Pays(tx) THEN B!Plus(replayB.fees, B!FeeSplit(tx.selector, tx.fee))
                  ELSE replayB.fees
  <2>3. Record(accountsB[tx.from])
    BY <2>1, <2>2 DEF Shaped
  <2>4. /\ Record(r) /\ r.balance = A!Minus(accountsB[tx.from].balance, A!Debit(tx))
        /\ r.nonce = tx.nonce
    BY <2>3, RedebitB
  <2>5. B!AfterRedebit(tx) = IF tx.from # ZERO_ADDR /\ tx.from \in knownB
                             THEN [accountsB EXCEPT ![tx.from] = r] ELSE accountsB
    BY DEF B!AfterRedebit, B!Pays
  <2>6. /\ knownB' = knownB \cup {tx.to}
        /\ accountsB' = [B!AfterRedebit(tx) EXCEPT
               ![tx.to].balance = B!PlusMod(B!AfterRedebit(tx)[tx.to].balance, tx.amount)]
        /\ replayB' = [replayB EXCEPT !.todo = replayB.todo \ {tx}, !.fees = e]
        /\ UNCHANGED <<mempoolB, chainB, block_rewardB, block_heightB, callB>>
    BY <1>1 DEF B!ReplayTx
  <2> HIDE DEF r, e
  <2>7. accountsB' = Applied(knownB, accountsB, r, tx)
    BY <2>5, <2>6, OperatorsB DEF Applied
  <2>8. FollowsChain(knownB \cup {tx.to}, Applied(knownB, accountsB, r, tx), mempoolB, chainB,
                     block_rewardB, block_heightB, callB,
                     [replayB EXCEPT !.todo = replayB.todo \ {tx}, !.fees = e])
    BY <2>2, <2>4, FollowsReplay
  <2> QED
    BY <2>6, <2>7, <2>8
<1>2. ASSUME B!ReplayBlock
      PROVE  FollowsB'
  <2> DEFINE b == Head(replayB.blocks)
  <2>1. /\ replayB.blocks # << >> /\ replayB.todo = {}
        /\ knownB' = knownB \cup {b.miner}
        /\ accountsB' = [accountsB EXCEPT
               ![b.miner].balance = B!Plus(accountsB[b.miner].balance, b.coinbase)]
        /\ block_rewardB' = B!Decay(block_rewardB)
        /\ chainB' = Append(chainB, b)
        /\ block_heightB' = block_heightB + 1
        /\ replayB' = B!Replay(Tail(replayB.blocks))
        /\ UNCHANGED <<mempoolB, callB>>
    BY <1>2 DEF B!ReplayBlock, B!BlockReplayed, B!Replaying, B!Current, B!Rest
  <2>2. /\ ReplayRecord(replayB') /\ replayB'.blocks = Tail(replayB.blocks)
        /\ replayB'.todo = IF replayB'.blocks = << >> THEN {} ELSE Head(replayB'.blocks).txs
    BY <2>1, ReplayOfB
  <2> HIDE DEF b
  <2>3. FollowsChain(knownB \cup {b.miner},
                     [accountsB EXCEPT ![b.miner].balance =
                         A!Plus(accountsB[b.miner].balance, b.coinbase)],
                     mempoolB, Append(chainB, b), A!Decay(block_rewardB), block_heightB + 1,
                     callB, replayB')
    BY <2>1, <2>2, FollowsBlock DEF b
  <2> QED
    BY <2>1, <2>3, OperatorsB
<1> QED
  BY <1>1, <1>2 DEF B!ReplayStep, FailsB, OverflowsB

LEMMA StartImportB ==
    ASSUME FollowsB, NEW new, Blocks(new), B!StartImport(new)
    PROVE  FollowsB'
<1> USE DEF FollowsB
<1>1. /\ callB.miner = NoMiner /\ B!Importable(new)
      /\ knownB' = {} /\ accountsB' = [a \in Addr |-> B!EmptyAccount]
      /\ block_rewardB' = INITIAL_REWARD /\ chainB' = << >> /\ block_heightB' = 0
      /\ replayB' = B!Replay(new)
      /\ UNCHANGED <<mempoolB, callB>>
  BY DEF B!StartImport, B!Idle
<1>2. Blocks(chainB) /\ mempoolB \subseteq TxSpace /\ CallRecord(callB) /\ callB.todo = {}
  BY <1>1 DEF FollowsChain
<1>3. new # << >>
  <2>1. Len(new) > Len(chainB) /\ Len(chainB) \in Nat
    BY <1>1, <1>2, BlocksOf DEF B!Importable
  <2> QED
    BY <2>1, EmptySeq
<1>4. \A i \in 1 .. Len(new) : new[i].miner # NoMiner
  <2>1. DOMAIN new = 1 .. Len(new)
    BY DEF Blocks
  <2> QED
    BY <1>1, <2>1 DEF B!Importable, B!ValidChain, B!AcceptedByPeers
<1>5. /\ ReplayRecord(replayB') /\ replayB'.blocks = new
      /\ replayB'.todo = Head(new).txs
  BY <1>1, <1>3, ReplayOfB
<1>6. FollowsChain({}, [a \in Addr |-> A!EmptyAccount], mempoolB, << >>, INITIAL_REWARD, 0,
                   callB, replayB')
  BY <1>1, <1>2, <1>3, <1>4, <1>5, FollowsStart
<1> QED
  BY <1>1, <1>6, OperatorsB

-----------------------------------------------------------------------------
(* Both nodes *)

LEMMA RestartFollows == ASSUME B!Restart PROVE FollowsB'
<1>1. /\ knownB' = {} /\ accountsB' = [a \in Addr |-> B!EmptyAccount] /\ mempoolB' = {}
      /\ chainB' = << >> /\ block_rewardB' = INITIAL_REWARD /\ block_heightB' = 0
      /\ callB' = B!NoCall /\ replayB' = B!NoReplay
  BY DEF B!Restart
<1>2. /\ CallRecord(B!NoCall) /\ B!NoCall.miner = NoMiner /\ B!NoCall.todo = {}
      /\ ReplayRecord(B!NoReplay) /\ B!NoReplay.blocks = << >> /\ B!NoReplay.todo = {}
  BY DEF B!NoCall, B!NoReplay, CallRecord, ReplayRecord
<1>3. FollowsChain({}, [a \in Addr |-> A!EmptyAccount], {}, << >>, INITIAL_REWARD, 0,
                   B!NoCall, B!NoReplay)
  BY <1>2, FollowsNothing
<1> QED
  BY <1>1, <1>3, OperatorsB DEF FollowsB

\* The inductive invariant
NodesInv == FollowsA /\ FollowsB /\ Blocks(copyA) /\ Blocks(copyB)

LEMMA NodesStart == NodesInit => NodesInv
<1> SUFFICES ASSUME NodesInit PROVE NodesInv
  OBVIOUS
<1>1. FollowsA
  <2>1. /\ knownA = {} /\ accountsA = [a \in Addr |-> A!EmptyAccount] /\ mempoolA = {}
        /\ chainA = << >> /\ block_rewardA = INITIAL_REWARD /\ block_heightA = 0
        /\ callA = A!NoCall /\ replayA = A!NoReplay
    BY DEF NodesInit, A!ImportInit, A!Init
  <2>2. /\ CallRecord(A!NoCall) /\ A!NoCall.miner = NoMiner /\ A!NoCall.todo = {}
        /\ ReplayRecord(A!NoReplay) /\ A!NoReplay.blocks = << >> /\ A!NoReplay.todo = {}
    BY DEF A!NoCall, A!NoReplay, CallRecord, ReplayRecord
  <2>3. FollowsChain({}, [a \in Addr |-> A!EmptyAccount], {}, << >>, INITIAL_REWARD, 0,
                     A!NoCall, A!NoReplay)
    BY <2>2, FollowsNothing
  <2> QED
    BY <2>1, <2>3 DEF FollowsA
<1>2. FollowsB
  <2>1. /\ knownB = {} /\ accountsB = [a \in Addr |-> B!EmptyAccount] /\ mempoolB = {}
        /\ chainB = << >> /\ block_rewardB = INITIAL_REWARD /\ block_heightB = 0
        /\ callB = B!NoCall /\ replayB = B!NoReplay
    BY DEF NodesInit, B!ImportInit, B!Init
  <2>2. /\ CallRecord(B!NoCall) /\ B!NoCall.miner = NoMiner /\ B!NoCall.todo = {}
        /\ ReplayRecord(B!NoReplay) /\ B!NoReplay.blocks = << >> /\ B!NoReplay.todo = {}
    BY DEF B!NoCall, B!NoReplay, CallRecord, ReplayRecord
  <2>3. FollowsChain({}, [a \in Addr |-> A!EmptyAccount], {}, << >>, INITIAL_REWARD, 0,
                     B!NoCall, B!NoReplay)
    BY <2>2, FollowsNothing
  <2> QED
    BY <2>1, <2>3, OperatorsB DEF FollowsB
<1> QED
  BY <1>1, <1>2, EmptyBlocks DEF NodesInit, NodesInv

LEMMA StayA == ASSUME FollowsA, UNCHANGED nodeA PROVE FollowsA'
BY DEF FollowsA, nodeA

LEMMA StayB == ASSUME FollowsB, UNCHANGED nodeB PROVE FollowsB'
BY DEF FollowsB, nodeB

LEMMA NodesStep ==
    ASSUME NodesInv, Deposits = {}, [NodesNext]_nodesVars, [~CallFails]_nodesVars
    PROVE  NodesInv'
<1> SUFFICES ASSUME ~UNCHANGED nodesVars PROVE NodesInv'
  <2>1. CASE UNCHANGED nodesVars
    <3>1. UNCHANGED nodeA /\ UNCHANGED nodeB /\ copyA' = copyA /\ copyB' = copyB
      BY <2>1 DEF nodesVars, callers
    <3> QED
      BY <3>1, StayA, StayB DEF NodesInv
  <2> QED
    BY <2>1
<1>0. FollowsA /\ FollowsB /\ Blocks(copyA) /\ Blocks(copyB)
  BY DEF NodesInv
<1>1. NodesNext /\ ~CallFails
  OBVIOUS
<1>2. CASE StepA
  <2>1. UNCHANGED nodeB /\ copyA' = copyA /\ copyB' = copyB
    BY <1>2 DEF StepA, callers
  <2>2. CASE UNCHANGED nodeA
    BY <1>0, <2>1, <2>2, StayA, StayB DEF NodesInv
  <2>3. CASE ~UNCHANGED nodeA
    <3>1. ~FailsA
      BY <1>1, <2>3 DEF CallFails
    <3>2. FollowsA'
      BY <1>0, <1>2, <3>1, OwnStepA, ReplayStepA DEF StepA
    <3> QED
      BY <1>0, <2>1, <3>2, StayB DEF NodesInv
  <2> QED
    BY <2>2, <2>3
<1>3. CASE StepB
  <2>1. UNCHANGED nodeA /\ copyA' = copyA /\ copyB' = copyB
    BY <1>3 DEF StepB, callers
  <2>2. CASE UNCHANGED nodeB
    BY <1>0, <2>1, <2>2, StayA, StayB DEF NodesInv
  <2>3. CASE ~UNCHANGED nodeB
    <3>1. ~FailsB
      BY <1>1, <2>3 DEF CallFails
    <3>2. FollowsB'
      BY <1>0, <1>3, <3>1, OwnStepB, ReplayStepB DEF StepB
    <3> QED
      BY <1>0, <2>1, <3>2, StayA DEF NodesInv
  <2> QED
    BY <2>2, <2>3
<1>4. CASE ReadA
  <2>1. UNCHANGED nodeA /\ UNCHANGED nodeB /\ copyA' = chainA /\ copyB' = copyB
    BY <1>4 DEF ReadA
  <2>2. Blocks(chainA)
    BY <1>0 DEF FollowsA, FollowsChain
  <2> QED
    BY <1>0, <2>1, <2>2, StayA, StayB DEF NodesInv
<1>5. CASE ReadB
  <2>1. UNCHANGED nodeA /\ UNCHANGED nodeB /\ copyB' = chainB /\ copyA' = copyA
    BY <1>5 DEF ReadB
  <2>2. Blocks(chainB)
    BY <1>0 DEF FollowsB, FollowsChain
  <2> QED
    BY <1>0, <2>1, <2>2, StayA, StayB DEF NodesInv
<1>6. CASE ImportA
  <2>1. UNCHANGED nodeB /\ copyA' = copyA /\ copyB' = copyB
    BY <1>6 DEF ImportA, callers
  <2>2. CASE A!StartImport(copyB)
    BY <1>0, <2>1, <2>2, StartImportA, StayB DEF NodesInv
  <2>3. CASE A!RejectImport(copyB)
    <3>1. UNCHANGED nodeA
      BY <2>3 DEF A!RejectImport, A!importVars, A!vars, nodeA
    <3> QED
      BY <1>0, <2>1, <3>1, StayA, StayB DEF NodesInv
  <2> QED
    BY <1>6, <2>2, <2>3 DEF ImportA
<1>7. CASE ImportB
  <2>1. UNCHANGED nodeA /\ copyA' = copyA /\ copyB' = copyB
    BY <1>7 DEF ImportB, callers
  <2>2. CASE B!StartImport(copyA)
    BY <1>0, <2>1, <2>2, StartImportB, StayA DEF NodesInv
  <2>3. CASE B!RejectImport(copyA)
    <3>1. UNCHANGED nodeB
      BY <2>3 DEF B!RejectImport, B!importVars, B!vars, nodeB
    <3> QED
      BY <1>0, <2>1, <3>1, StayA, StayB DEF NodesInv
  <2> QED
    BY <1>7, <2>2, <2>3 DEF ImportB
<1>8. CASE RestartB
  <2>1. B!Restart /\ UNCHANGED nodeA /\ copyA' = copyA /\ copyB' = copyB
    BY <1>8 DEF RestartB
  <2> QED
    BY <1>0, <2>1, RestartFollows, StayA DEF NodesInv
<1> QED
  BY <1>1, <1>2, <1>3, <1>4, <1>5, <1>6, <1>7, <1>8 DEF NodesNext

LEMMA InvAgrees == NodesInv => LedgersAgree
<1> SUFFICES ASSUME NodesInv, QuietA, QuietB, chainA = chainB
             PROVE  /\ knownA = knownB
                    /\ Spendable(accountsA) = Spendable(accountsB)
                    /\ block_rewardA = block_rewardB
                    /\ block_heightA = block_heightB
  BY DEF LedgersAgree
<1> DEFINE n == Len(chainA)
           s == BookOf(knownA, accountsA, block_rewardA, block_heightA, n, n, {})
           t == BookOf(knownB, accountsB, block_rewardB, block_heightB, n, n, {})
<1>1. Derived(chainA, s) /\ Blocks(chainA)
  BY DEF NodesInv, FollowsA, FollowsChain, Settled, QuietA, A!Idle, A!Replaying
<1>2. Derived(chainA, t)
  BY DEF NodesInv, FollowsB, FollowsChain, Settled, QuietB, B!Idle, B!Replaying
<1>3. Through(chainA, s) /\ Through(chainA, t)
  BY DEF Through, BookOf, Book
<1>4. s = t
  <2> HIDE DEF s, t
  <2> QED BY <1>1, <1>2, <1>3, BlocksOf, DerivedUnique
<1>5. /\ knownA = knownB /\ Balances(accountsA) = Balances(accountsB)
      /\ Nonces(accountsA) = Nonces(accountsB)
      /\ block_rewardA = block_rewardB /\ block_heightA = block_heightB
  <2>1. /\ s.known = knownA /\ s.balance = Balances(accountsA) /\ s.nonce = Nonces(accountsA)
        /\ s.reward = block_rewardA /\ s.height = block_heightA
    BY DEF BookOf, Book
  <2>2. /\ t.known = knownB /\ t.balance = Balances(accountsB) /\ t.nonce = Nonces(accountsB)
        /\ t.reward = block_rewardB /\ t.height = block_heightB
    BY DEF BookOf, Book
  <2> HIDE DEF s, t
  <2> QED
    BY <1>4, <2>1, <2>2
<1>6. \A a \in Addr : /\ accountsA[a].balance = accountsB[a].balance
                      /\ accountsA[a].nonce = accountsB[a].nonce
  <2> SUFFICES ASSUME NEW a \in Addr
               PROVE  /\ accountsA[a].balance = accountsB[a].balance
                      /\ accountsA[a].nonce = accountsB[a].nonce
    OBVIOUS
  <2>1. Balances(accountsA)[a] = Balances(accountsB)[a] /\ Nonces(accountsA)[a] = Nonces(accountsB)[a]
    BY <1>5
  <2> QED
    BY <2>1 DEF Balances, Nonces
<1>7. Spendable(accountsA) = Spendable(accountsB)
  BY <1>6 DEF Spendable
<1> QED
  BY <1>5, <1>7

\* Where nobody gives an account a balance by hand, and as long as no call fails in
\* the middle on either node, two nodes that hold the same chain hold the same
\* ledger, whatever each of them mined, imported, gave up and lost before.
THEOREM SameChainSameLedger ==
    Deposits = {} => (NodesSpec /\ CallsComplete => []LedgersAgree)
<1> SUFFICES ASSUME Deposits = {}
             PROVE  NodesSpec /\ CallsComplete => []LedgersAgree
  OBVIOUS
<1>1. NodesInit => NodesInv
  BY NodesStart
<1>2. NodesInv /\ [NodesNext]_nodesVars /\ [~CallFails]_nodesVars => NodesInv'
  BY NodesStep
<1>3. NodesInv => LedgersAgree
  BY InvAgrees
<1> QED
  BY <1>1, <1>2, <1>3, PTL DEF NodesSpec, CallsComplete

-----------------------------------------------------------------------------
(* One wallet: no chain is ever refused for its fees *)

\* Both nodes mine for one address, and only that address spends.
WalletOf(m) ==
    /\ MinersA \subseteq {m} /\ MinersB \subseteq {m}
    /\ \A tx \in TxSpace : tx.from = m

OneWallet == Deposits = {} /\ \E m \in Addr \ {ZERO_ADDR} : WalletOf(m)

Payer == CHOOSE m \in Addr \ {ZERO_ADDR} : WalletOf(m)

LEMMA PayerOf ==
    ASSUME OneWallet
    PROVE  Payer \in Addr /\ Payer # ZERO_ADDR /\ Payer # NoMiner /\ WalletOf(Payer)
BY NodesAssumption DEF OneWallet, Payer

\* What the replay of a block has charged so far: the fees of S that are not to do.
FeesAre(fees, S, todo) ==
    /\ fees = [t \in Token |-> fees[t]]
    /\ \A t \in Token : fees[t] = A!FeeTotal(S)[t] - A!FeeTotal(todo)[t]

\* The fees of a set of transactions
LEMMA FeesOf ==
    ASSUME NEW S, S \subseteq TxSpace, NEW t \in Token
    PROVE  /\ A!FeeTotal({})[t] = 0
           /\ A!FeeTotal(S)[t] \in Int
           /\ \A x \in S : /\ A!FeeSplit(x.selector, x.fee)[t] \in Int
                           /\ A!FeeTotal(S \ {x})[t]
                                = A!FeeTotal(S)[t] - A!FeeSplit(x.selector, x.fee)[t]
<1> DEFINE e == [x \in TxSpace |-> A!FeeSplit(x.selector, x.fee)[t]]
<1>1. DOMAIN e = TxSpace /\ \A x \in TxSpace : /\ e[x] = A!FeeSplit(x.selector, x.fee)[t]
                                              /\ e[x] \in Nat
  <2>1. \A x \in TxSpace : x.fee \in Nat
    <3>1. \A x \in TxSpace : x.fee \in A!Word
      BY NodesAssumption DEF A!Tx
    <3> QED
      BY <3>1, U64Assumption DEF A!Word
  <2>2. A!Token = Token
    BY DEF A!Token, Token
  <2>3. \A x \in TxSpace : A!FeeSplit(x.selector, x.fee)[t] \in Nat
    BY <2>1, <2>2 DEF A!FeeSplit
  <2> QED
    BY <2>3
<1>2. IsFiniteSet(S)
  BY NodesAssumption, FS_Subset
<1>3. \A U \in SUBSET TxSpace :
          [x \in U |-> e[x]] = [x \in U |-> A!FeeSplit(x.selector, x.fee)[t]]
  OBVIOUS
<1> HIDE DEF e
<1>4. \A U \in SUBSET TxSpace : A!FeeTotal(U)[t] = SumFunction([x \in U |-> e[x]])
  <2>1. A!Token = Token
    BY DEF A!Token, Token
  <2> QED
    BY <1>3, <2>1, SumsAlike DEF A!FeeTotal
<1>5. /\ SumFunction([x \in {} |-> e[x]]) = 0
      /\ SumFunction([x \in S |-> e[x]]) \in Nat
      /\ \A y \in S : SumFunction([x \in S \ {y} |-> e[x]]) = SumFunction([x \in S |-> e[x]]) - e[y]
  BY <1>1, <1>2, SumOver
<1>6. /\ {} \in SUBSET TxSpace /\ S \in SUBSET TxSpace
      /\ \A x \in S : S \ {x} \in SUBSET TxSpace
  OBVIOUS
<1>7. A!FeeTotal({})[t] = 0 /\ A!FeeTotal(S)[t] \in Nat
  BY <1>4, <1>5, <1>6
<1>8. ASSUME NEW x \in S
      PROVE  /\ A!FeeSplit(x.selector, x.fee)[t] \in Nat
             /\ A!FeeTotal(S \ {x})[t] = A!FeeTotal(S)[t] - A!FeeSplit(x.selector, x.fee)[t]
  <2>1. x \in TxSpace /\ S \in SUBSET TxSpace /\ S \ {x} \in SUBSET TxSpace
    OBVIOUS
  <2>2. e[x] = A!FeeSplit(x.selector, x.fee)[t] /\ e[x] \in Nat
    BY <1>1, <2>1
  <2>3. /\ A!FeeTotal(S)[t] = SumFunction([y \in S |-> e[y]])
        /\ A!FeeTotal(S \ {x})[t] = SumFunction([y \in S \ {x} |-> e[y]])
    BY <1>4, <2>1
  <2>4. SumFunction([y \in S \ {x} |-> e[y]]) = SumFunction([y \in S |-> e[y]]) - e[x]
    BY <1>5
  <2> QED
    BY <2>2, <2>3, <2>4
<1> QED
  BY <1>7, <1>8

LEMMA FeesStart ==
    ASSUME NEW S, S \subseteq TxSpace, NEW fees, fees = A!Zero
    PROVE  FeesAre(fees, S, S)
<1>1. A!Zero = [t \in Token |-> 0]
  BY DEF A!Zero, A!Token, Token
<1>2. \A t \in Token : A!FeeTotal(S)[t] \in Int
  BY FeesOf
<1> QED
  BY <1>1, <1>2 DEF FeesAre

LEMMA FeesCharged ==
    ASSUME NEW S, S \subseteq TxSpace, NEW todo, todo \subseteq S, NEW x \in todo,
           NEW fees, FeesAre(fees, S, todo)
    PROVE  FeesAre(A!Plus(fees, A!FeeSplit(x.selector, x.fee)), S, todo \ {x})
<1> DEFINE p == A!Plus(fees, A!FeeSplit(x.selector, x.fee))
<1>1. p = [t \in Token |-> fees[t] + A!FeeSplit(x.selector, x.fee)[t]]
  BY DEF A!Plus, A!Token, Token
<1> HIDE DEF p
<1>2. ASSUME NEW t \in Token
      PROVE  p[t] = A!FeeTotal(S)[t] - A!FeeTotal(todo \ {x})[t]
  <2>1. fees[t] = A!FeeTotal(S)[t] - A!FeeTotal(todo)[t]
    BY DEF FeesAre
  <2>2. A!FeeTotal(S)[t] \in Int /\ A!FeeTotal(todo)[t] \in Int
    BY FeesOf
  <2>3. /\ A!FeeSplit(x.selector, x.fee)[t] \in Int
        /\ A!FeeTotal(todo \ {x})[t] = A!FeeTotal(todo)[t] - A!FeeSplit(x.selector, x.fee)[t]
    BY FeesOf
  <2>4. p[t] = fees[t] + A!FeeSplit(x.selector, x.fee)[t]
    BY <1>1
  <2> QED
    BY <2>1, <2>2, <2>3, <2>4
<1>3. p = [t \in Token |-> p[t]]
  BY <1>1
<1> QED
  BY <1>2, <1>3 DEF FeesAre, p

LEMMA FeesEnd ==
    ASSUME NEW S, S \subseteq TxSpace, NEW fees, FeesAre(fees, S, {})
    PROVE  fees = A!FeeTotal(S)
<1>1. \A t \in Token : fees[t] = A!FeeTotal(S)[t]
  <2> SUFFICES ASSUME NEW t \in Token PROVE fees[t] = A!FeeTotal(S)[t]
    OBVIOUS
  <2>1. fees[t] = A!FeeTotal(S)[t] - A!FeeTotal({})[t]
    BY DEF FeesAre
  <2>2. A!FeeTotal({})[t] = 0 /\ A!FeeTotal(S)[t] \in Int
    BY FeesOf
  <2> QED
    BY <2>1, <2>2
<1>2. A!FeeTotal(S) = [t \in Token |-> A!FeeTotal(S)[t]]
  BY DEF A!FeeTotal, A!Token, Token
<1> QED
  BY <1>1, <1>2 DEF FeesAre

\* A block pays its fees to the payer, or is the block of genesis_block.
Entry(b) == b.fees = A!FeeTotal(b.txs) /\ b.miner \in {Payer, NoMiner}

Mined(c) == \E i \in 1 .. Len(c) : c[i].miner = Payer

\* The payer is paid before it spends.
PaidFirst(c) ==
    \A i \in 1 .. Len(c) :
        /\ Entry(c[i])
        /\ c[i].txs # {} => \E j \in 1 .. (i - 1) : c[j].miner = Payer

MidPayment(known, replay) ==
    /\ \A i \in 1 .. Len(replay.blocks) : Entry(replay.blocks[i])
    /\ Head(replay.blocks).txs # {} => Payer \in known
    /\ replay.todo \subseteq Head(replay.blocks).txs
    /\ FeesAre(replay.fees, Head(replay.blocks).txs, replay.todo)

\* The invariant of one node: it knows the payer as soon as its chain pays it.
PaysItsWay(known, mempool, chain, call, replay) ==
    /\ PaidFirst(chain)
    /\ call.miner \in {Payer, NoMiner}
    /\ call.miner # NoMiner => Mined(chain)
    /\ call.miner = NoMiner => (Payer \in known <=> Mined(chain))
    /\ (call.miner = NoMiner /\ replay.blocks = << >>) => (mempool # {} => Payer \in known)
    /\ replay.blocks # << >> => MidPayment(known, replay)

LEMMA PaidAppend ==
    ASSUME NEW c, Blocks(c), PaidFirst(c), NEW b, GoodBlock(b), Entry(b),
           b.txs # {} => Mined(c)
    PROVE  /\ PaidFirst(Append(c, b))
           /\ Mined(Append(c, b)) <=> (Mined(c) \/ b.miner = Payer)
<1> DEFINE d == Append(c, b)
<1>1. /\ Len(c) \in Nat /\ Len(d) = Len(c) + 1 /\ d[Len(c) + 1] = b
      /\ \A i \in 1 .. Len(c) : d[i] = c[i]
  BY BlocksAppend, BlocksOf DEF Extends
<1> HIDE DEF d
<1>2. PaidFirst(d)
  <2> SUFFICES ASSUME NEW i \in 1 .. Len(d)
               PROVE  /\ Entry(d[i])
                      /\ d[i].txs # {} => \E j \in 1 .. (i - 1) : d[j].miner = Payer
    BY DEF PaidFirst
  <2>1. CASE i \in 1 .. Len(c)
    <3>1. /\ d[i] = c[i] /\ Entry(c[i])
          /\ c[i].txs # {} => \E j \in 1 .. (i - 1) : c[j].miner = Payer
      BY <1>1, <2>1 DEF PaidFirst
    <3>2. \A j \in 1 .. (i - 1) : d[j] = c[j]
      BY <1>1, <2>1
    <3> QED
      BY <3>1, <3>2
  <2>2. CASE i = Len(c) + 1
    BY <1>1, <2>2 DEF Mined
  <2> QED
    BY <1>1, <2>1, <2>2
<1>3. Mined(d) <=> (Mined(c) \/ b.miner = Payer)
  <2>1. Len(c) + 1 \in 1 .. Len(d) /\ \A i \in 1 .. Len(d) : i \in 1 .. Len(c) \/ i = Len(c) + 1
    BY <1>1
  <2>2. \A i \in 1 .. Len(c) : i \in 1 .. Len(d)
    BY <1>1
  <2> QED
    BY <1>1, <2>1, <2>2 DEF Mined
<1> QED
  BY <1>2, <1>3 DEF d

\* mine_block pushes its block.
LEMMA PaysMine ==
    ASSUME OneWallet,
           NEW k, NEW p, NEW c, NEW call, NEW rep, PaysItsWay(k, p, c, call, rep),
           Blocks(c), p \subseteq TxSpace, call.miner = NoMiner, rep.blocks = << >>,
           NEW b, b.miner = Payer, b.txs = p, b.fees = A!FeeTotal(p),
           NEW call2, call2.miner = Payer
    PROVE  PaysItsWay(k, {}, Append(c, b), call2, rep)
<1>1. GoodBlock(b) /\ Entry(b) /\ Payer # NoMiner
  BY PayerOf DEF GoodBlock, Entry
<1>2. b.txs # {} => Mined(c)
  BY DEF PaysItsWay
<1>3. PaidFirst(Append(c, b)) /\ Mined(Append(c, b))
  BY <1>1, <1>2, PaidAppend DEF PaysItsWay
<1> QED
  BY <1>1, <1>3 DEF PaysItsWay

\* genesis_block
LEMMA PaysGenesis ==
    ASSUME OneWallet,
           NEW k, NEW p, NEW c, NEW call, NEW rep, PaysItsWay(k, p, c, call, rep),
           Blocks(c), call.miner = NoMiner, rep.blocks = << >>,
           NEW b, b.miner = NoMiner, b.txs = {}, b.fees = A!Zero
    PROVE  PaysItsWay(k, p, Append(c, b), call, rep)
<1>1. b.fees = A!FeeTotal({})
  <2>1. FeesAre(A!Zero, {}, {})
    BY FeesStart
  <2> QED
    BY <2>1, FeesEnd
<1>2. GoodBlock(b) /\ Entry(b) /\ b.miner # Payer
  BY <1>1, PayerOf DEF GoodBlock, Entry
<1>3. PaidFirst(Append(c, b)) /\ (Mined(Append(c, b)) <=> Mined(c))
  BY <1>2, PaidAppend DEF PaysItsWay
<1> QED
  BY <1>3 DEF PaysItsWay

\* import_chain starts.
LEMMA PaysStart ==
    ASSUME OneWallet,
           NEW p, NEW new, Blocks(new), new # << >>, PaidFirst(new),
           NEW call, call.miner = NoMiner,
           NEW rep, rep.blocks = new, rep.todo = Head(new).txs, rep.fees = A!Zero
    PROVE  PaysItsWay({}, p, << >>, call, rep)
<1>1. 1 \in 1 .. Len(new) /\ Head(new) = new[1] /\ GoodBlock(new[1])
  BY EmptyBlocks, BlocksShift
<1>2. Head(new).txs = {}
  <2>1. ~\E j \in 1 .. (1 - 1) : new[j].miner = Payer
    OBVIOUS
  <2> QED
    BY <1>1, <2>1 DEF PaidFirst
<1>3. FeesAre(rep.fees, Head(new).txs, rep.todo)
  BY <1>1, FeesStart DEF GoodBlock
<1>4. MidPayment({}, rep)
  BY <1>2, <1>3 DEF MidPayment, PaidFirst
<1>5. PaidFirst(<< >>) /\ ~Mined(<< >>)
  BY DEF PaidFirst, Mined
<1> QED
  BY <1>4, <1>5 DEF PaysItsWay

\* The fees after a replayed transaction: a payer the node does not know pays none.
Charged(fees, known, replay, tx) ==
    fees = IF tx.from # ZERO_ADDR /\ tx.from \in known
           THEN A!Plus(replay.fees, A!FeeSplit(tx.selector, tx.fee)) ELSE replay.fees

\* import_chain replays a transaction.
LEMMA PaysReplay ==
    ASSUME OneWallet,
           NEW k, NEW p, NEW c, NEW call, NEW rep, PaysItsWay(k, p, c, call, rep),
           rep.blocks # << >>, call.miner = NoMiner, Head(rep.blocks).txs \subseteq TxSpace,
           ReplayRecord(rep), NEW tx \in rep.todo, NEW to,
           NEW e, Charged(e, k, rep, tx)
    PROVE  PaysItsWay(k \cup {to}, p, c, call,
                      [rep EXCEPT !.todo = rep.todo \ {tx}, !.fees = e])
<1> DEFINE rep2 == [rep EXCEPT !.todo = rep.todo \ {tx}, !.fees = e]
<1>0. /\ ReplayRecord(rep2)
      /\ rep2.blocks = rep.blocks /\ rep2.todo = rep.todo \ {tx} /\ rep2.fees = e
  <2>1. \A v, u : /\ ReplayRecord([rep EXCEPT !.todo = v, !.fees = u])
                  /\ [rep EXCEPT !.todo = v, !.fees = u].blocks = rep.blocks
                  /\ [rep EXCEPT !.todo = v, !.fees = u].todo = v
                  /\ [rep EXCEPT !.todo = v, !.fees = u].fees = u
    BY ReplayUpdates
  <2> QED
    BY <2>1
<1> HIDE DEF rep2
<1>1. MidPayment(k, rep) /\ Payer \in k
  BY DEF PaysItsWay, MidPayment
<1>2. tx.from = Payer /\ Payer # ZERO_ADDR
  BY <1>1, PayerOf DEF WalletOf, MidPayment
<1>3. rep2.fees = A!Plus(rep.fees, A!FeeSplit(tx.selector, tx.fee))
  BY <1>0, <1>1, <1>2 DEF Charged
<1>4. FeesAre(rep2.fees, Head(rep.blocks).txs, rep.todo \ {tx})
  <2> DEFINE S == Head(rep.blocks).txs
             todo == rep.todo
             fees == rep.fees
  <2>1. S \subseteq TxSpace /\ todo \subseteq S /\ tx \in todo /\ FeesAre(fees, S, todo)
    BY <1>1 DEF MidPayment
  <2> HIDE DEF S, todo, fees
  <2>2. FeesAre(A!Plus(fees, A!FeeSplit(tx.selector, tx.fee)), S, todo \ {tx})
    BY <2>1, FeesCharged
  <2> QED
    BY <1>3, <2>2 DEF S, todo, fees
<1>5. MidPayment(k \cup {to}, rep2)
  BY <1>0, <1>1, <1>4 DEF MidPayment
<1>6. PaysItsWay(k \cup {to}, p, c, call, rep2)
  BY <1>0, <1>1, <1>5 DEF PaysItsWay
<1> QED
  BY <1>6 DEF rep2

\* The fees of a replayed block are those that its header names.
LEMMA PaysFees ==
    ASSUME OneWallet,
           NEW k, NEW p, NEW c, NEW call, NEW rep, PaysItsWay(k, p, c, call, rep),
           rep.blocks # << >>, Blocks(rep.blocks), rep.todo = {}
    PROVE  rep.fees = Head(rep.blocks).fees
<1>1. /\ GoodBlock(Head(rep.blocks)) /\ Head(rep.blocks) = rep.blocks[1]
      /\ 1 \in 1 .. Len(rep.blocks)
  BY EmptyBlocks, BlocksShift
<1>2. MidPayment(k, rep) /\ Entry(Head(rep.blocks))
  BY <1>1 DEF PaysItsWay, MidPayment
<1>3. rep.fees = A!FeeTotal(Head(rep.blocks).txs)
  BY <1>1, <1>2, FeesEnd DEF MidPayment, GoodBlock
<1> QED
  BY <1>2, <1>3 DEF Entry

\* import_chain ends a block, and begins the next.
LEMMA PaysBlock ==
    ASSUME OneWallet,
           NEW k, NEW p, NEW c, NEW call, NEW rep, PaysItsWay(k, p, c, call, rep),
           rep.blocks # << >>, Blocks(rep.blocks), Blocks(c), call.miner = NoMiner,
           Head(rep.blocks).miner # NoMiner,
           NEW rep2, rep2.blocks = Tail(rep.blocks),
           rep2.blocks # << >> =>
               rep2.todo = Head(rep2.blocks).txs /\ rep2.fees = A!Zero
    PROVE  PaysItsWay(k \cup {Head(rep.blocks).miner}, p, Append(c, Head(rep.blocks)), call, rep2)
<1> DEFINE b == Head(rep.blocks)
           r == Tail(rep.blocks)
<1>1. /\ GoodBlock(b) /\ b = rep.blocks[1] /\ 1 \in 1 .. Len(rep.blocks)
      /\ Blocks(r) /\ Len(r) = Len(rep.blocks) - 1 /\ Len(rep.blocks) \in Nat
      /\ \A i \in 1 .. Len(r) : r[i] = rep.blocks[i + 1]
  BY EmptyBlocks, BlocksShift, BlocksOf
<1>2. MidPayment(k, rep) /\ Entry(b) /\ b.miner = Payer
  <2>1. MidPayment(k, rep) /\ Entry(rep.blocks[1])
    BY <1>1 DEF PaysItsWay, MidPayment
  <2> QED
    BY <1>1, <2>1 DEF Entry
<1>3. b.txs # {} => Mined(c)
  BY <1>2 DEF PaysItsWay, MidPayment
<1> HIDE DEF b, r
<1>4. PaidFirst(Append(c, b)) /\ Mined(Append(c, b))
  BY <1>1, <1>2, <1>3, PaidAppend DEF PaysItsWay
<1>5. ASSUME r # << >>
      PROVE  MidPayment(k \cup {b.miner}, rep2)
  <2>1. /\ Head(r).txs \subseteq TxSpace /\ rep2.todo = Head(r).txs /\ rep2.fees = A!Zero
        /\ rep2.blocks = r
    BY <1>1, <1>5, EmptyBlocks, BlocksShift DEF GoodBlock, r
  <2>2. FeesAre(rep2.fees, Head(r).txs, rep2.todo)
    BY <2>1, FeesStart
  <2>3. \A i \in 1 .. Len(r) : Entry(r[i])
    <3> SUFFICES ASSUME NEW i \in 1 .. Len(r) PROVE Entry(r[i])
      OBVIOUS
    <3>1. i + 1 \in 1 .. Len(rep.blocks) /\ r[i] = rep.blocks[i + 1]
      BY <1>1
    <3> QED
      BY <1>2, <3>1 DEF MidPayment
  <2>4. Payer \in k \cup {b.miner}
    BY <1>2
  <2> QED
    BY <2>1, <2>2, <2>3, <2>4 DEF MidPayment
<1>6. rep2.blocks = r
  BY DEF r
<1>7. PaysItsWay(k \cup {b.miner}, p, Append(c, b), call, rep2)
  BY <1>2, <1>4, <1>5, <1>6 DEF PaysItsWay
<1> QED
  BY <1>7 DEF b

\* Node A

LEMMA FreshReplayA == ASSUME NEW blocks PROVE A!Replay(blocks).fees = A!Zero
<1>1. A!Replay(blocks).fees = A!Zero
  BY DEF A!Replay, A!NoReplay
<1> QED
  BY <1>1 DEF A!Zero, A!Token, A!Zero, A!Token

PaysA == PaysItsWay(knownA, mempoolA, chainA, callA, replayA)

\* A chain that was mined is never refused in the middle.
LEMMA NeverRefusedA ==
    ASSUME OneWallet, FollowsA, PaysA
    PROVE  ~A!ReplayMismatch
<1> SUFFICES ASSUME A!ReplayMismatch PROVE FALSE
  OBVIOUS
<1>1. /\ replayA.blocks # << >> /\ replayA.todo = {}
      /\ replayA.fees # Head(replayA.blocks).fees
  BY DEF A!ReplayMismatch, A!BlockReplayed, A!Replaying, A!FeesMatch, A!Current
<1>2. Blocks(replayA.blocks)
  BY <1>1 DEF FollowsA, FollowsChain, MidImport
<1> QED
  BY <1>1, <1>2, PaysFees DEF PaysA

LEMMA OwnPaysA ==
    ASSUME OneWallet, FollowsA, PaysA, A!OwnStep, ~OverflowsA
    PROVE  PaysA'
<1>0. /\ replayA' = replayA /\ replayA.blocks = << >> /\ A!Next
      /\ Blocks(chainA) /\ mempoolA \subseteq TxSpace /\ CallRecord(callA)
      /\ callA.miner = NoMiner => callA.todo = {}
  BY DEF A!OwnStep, A!Replaying, FollowsA, FollowsChain
<1>1. ASSUME NEW tx \in TxSpace, A!SubmitTransaction(tx)
      PROVE  PaysA'
  <2>1. /\ callA.miner = NoMiner /\ tx.from \in knownA
        /\ UNCHANGED <<knownA, chainA, callA>>
    BY <1>1 DEF A!SubmitTransaction, A!Idle, A!Admissible
  <2>2. Payer \in knownA
    BY <2>1, PayerOf DEF WalletOf
  <2> QED
    BY <1>0, <2>1, <2>2 DEF PaysA, PaysItsWay
<1>2. ASSUME NEW tx \in TxSpace, A!RejectTransaction(tx)
      PROVE  PaysA'
  BY <1>0, <1>2 DEF A!RejectTransaction, A!vars, PaysA
<1>3. ASSUME NEW tx \in mempoolA, A!DropTransaction(tx)
      PROVE  PaysA'
  <2>1. mempoolA # {} /\ UNCHANGED <<knownA, chainA, callA>>
    BY <1>3 DEF A!DropTransaction
  <2> QED
    BY <1>0, <2>1 DEF PaysA, PaysItsWay
<1>4. ASSUME NEW m \in MinersA, A!MineBlock(m)
      PROVE  PaysA'
  <2> DEFINE b == [miner |-> m, coinbase |-> A!Plus(A!NextReward, A!FeeTotal(mempoolA)),
                   fees |-> A!FeeTotal(mempoolA), txs |-> mempoolA]
             e == [miner |-> m, reward |-> A!NextReward,
                   coinbase |-> A!Plus(A!NextReward, A!FeeTotal(mempoolA)), todo |-> mempoolA]
  <2>1. /\ callA.miner = NoMiner /\ chainA' = Append(chainA, b)
        /\ mempoolA' = {} /\ callA' = e /\ knownA' = knownA
    BY <1>4 DEF A!MineBlock, A!Idle
  <2>2. m = Payer
    BY PayerOf DEF WalletOf
  <2>3. /\ b.miner = Payer /\ b.txs = mempoolA /\ b.fees = A!FeeTotal(mempoolA)
        /\ e.miner = Payer
    BY <2>2
  <2> HIDE DEF b, e
  <2>4. PaysItsWay(knownA, {}, Append(chainA, b), e, replayA)
    BY <1>0, <2>1, <2>3, PaysMine DEF PaysA
  <2> QED
    BY <1>0, <2>1, <2>4 DEF PaysA
<1>5. ASSUME NEW tx \in callA.todo, A!ApplyTx(tx)
      PROVE  PaysA'
  <2>1. /\ callA.miner # NoMiner /\ knownA \subseteq knownA'
        /\ callA' = [callA EXCEPT !.todo = callA.todo \ {tx}]
        /\ UNCHANGED <<mempoolA, chainA>>
    BY <1>0, <1>5 DEF A!ApplyTx
  <2>2. callA'.miner = callA.miner
    BY <1>0, <2>1, CallUpdates
  <2> QED
    BY <1>0, <2>1, <2>2 DEF PaysA, PaysItsWay
<1>6. ASSUME A!GenesisBlock
      PROVE  PaysA'
  <2>1. /\ callA.miner = NoMiner /\ chainA' = Append(chainA, A!Genesis)
        /\ UNCHANGED <<knownA, mempoolA, callA>>
    BY <1>6 DEF A!GenesisBlock, A!Idle
  <2>2. A!Genesis.miner = NoMiner /\ A!Genesis.txs = {} /\ A!Genesis.fees = A!Zero
    BY DEF A!Genesis, A!Zero, A!Token, A!Zero, A!Token
  <2>3. PaysItsWay(knownA, mempoolA, Append(chainA, A!Genesis), callA, replayA)
    BY <1>0, <2>1, <2>2, PaysGenesis DEF PaysA
  <2> QED
    BY <1>0, <2>1, <2>3 DEF PaysA
<1>7. ASSUME A!CreditMiner
      PROVE  PaysA'
  <2>1. /\ callA.miner # NoMiner /\ knownA' = knownA \cup {callA.miner}
        /\ callA' = A!NoCall /\ UNCHANGED <<mempoolA, chainA>>
    BY <1>7 DEF A!CreditMiner, A!Idle
  <2>2. A!NoCall.miner = NoMiner
    BY DEF A!NoCall
  <2> QED
    BY <1>0, <2>1, <2>2 DEF PaysA, PaysItsWay
<1>8. Deposits = {}
  BY DEF OneWallet
<1> QED
  BY <1>0, <1>1, <1>2, <1>3, <1>4, <1>5, <1>6, <1>7, <1>8 DEF A!Next, A!UnsavedStep, OverflowsA

LEMMA ReplayPaysA ==
    ASSUME OneWallet, FollowsA, PaysA, A!ReplayStep, ~OverflowsA
    PROVE  PaysA'
<1>0. /\ replayA.blocks # << >> => /\ Blocks(replayA.blocks) /\ callA.miner = NoMiner
                                   /\ \A i \in 1 .. Len(replayA.blocks) :
                                          replayA.blocks[i].miner # NoMiner
      /\ replayA.blocks = << >> => replayA.todo = {}
      /\ Blocks(chainA) /\ ReplayRecord(replayA)
  BY DEF FollowsA, FollowsChain, MidImport
<1>1. ASSUME NEW tx \in replayA.todo, A!ReplayTx(tx)
      PROVE  PaysA'
  <2> DEFINE e == IF A!Pays(tx) THEN A!Plus(replayA.fees, A!FeeSplit(tx.selector, tx.fee))
                  ELSE replayA.fees
  <2>1. /\ knownA' = knownA \cup {tx.to}
        /\ replayA' = [replayA EXCEPT !.todo = replayA.todo \ {tx}, !.fees = e]
        /\ UNCHANGED <<mempoolA, chainA, callA>>
    BY <1>1 DEF A!ReplayTx
  <2>2. Charged(e, knownA, replayA, tx)
    <3>1. A!Plus(replayA.fees, A!FeeSplit(tx.selector, tx.fee))
             = A!Plus(replayA.fees, A!FeeSplit(tx.selector, tx.fee))
      OBVIOUS
    <3> QED
      BY <3>1 DEF A!Pays, Charged
  <2> HIDE DEF e
  <2>4. replayA.blocks # << >> /\ Blocks(replayA.blocks) /\ callA.miner = NoMiner
    BY <1>0
  <2>5. Head(replayA.blocks).txs \subseteq TxSpace
    BY <2>4, EmptyBlocks, BlocksShift DEF GoodBlock
  <2>6. PaysItsWay(knownA \cup {tx.to}, mempoolA, chainA, callA,
                   [replayA EXCEPT !.todo = replayA.todo \ {tx}, !.fees = e])
    BY <1>0, <2>2, <2>4, <2>5, PaysReplay DEF PaysA
  <2> QED
    BY <2>1, <2>6 DEF PaysA
<1>2. ASSUME A!ReplayBlock
      PROVE  PaysA'
  <2> DEFINE b == Head(replayA.blocks)
  <2>1. /\ replayA.blocks # << >> /\ knownA' = knownA \cup {b.miner}
        /\ chainA' = Append(chainA, b) /\ replayA' = A!Replay(Tail(replayA.blocks))
        /\ UNCHANGED <<mempoolA, callA>>
    BY <1>2 DEF A!ReplayBlock, A!BlockReplayed, A!Replaying, A!Current, A!Rest
  <2>2. /\ replayA'.blocks = Tail(replayA.blocks) /\ replayA'.fees = A!Zero
        /\ replayA'.blocks # << >> => replayA'.todo = Head(replayA'.blocks).txs
    BY <2>1, ReplayOfA, FreshReplayA
  <2>3. b.miner # NoMiner
    BY <1>0, <2>1, EmptyBlocks, BlocksShift
  <2> HIDE DEF b
  <2>4. PaysItsWay(knownA \cup {b.miner}, mempoolA, Append(chainA, b), callA, replayA')
    BY <1>0, <2>1, <2>2, <2>3, PaysBlock DEF PaysA, b
  <2> QED
    BY <2>1, <2>4 DEF PaysA
<1> QED
  BY <1>1, <1>2, NeverRefusedA DEF A!ReplayStep, OverflowsA

LEMMA StartPaysA ==
    ASSUME OneWallet, FollowsA, NEW new, Blocks(new), PaidFirst(new), A!StartImport(new)
    PROVE  PaysA'
<1>1. /\ callA.miner = NoMiner /\ A!Importable(new)
      /\ knownA' = {} /\ chainA' = << >> /\ replayA' = A!Replay(new)
      /\ UNCHANGED <<mempoolA, callA>>
  BY DEF A!StartImport, A!Idle
<1>2. new # << >>
  <2>1. Len(new) > Len(chainA) /\ Len(chainA) \in Nat
    BY <1>1, BlocksOf DEF A!Importable, FollowsA, FollowsChain
  <2> QED
    BY <2>1, EmptySeq
<1>3. replayA'.blocks = new /\ replayA'.todo = Head(new).txs /\ replayA'.fees = A!Zero
  BY <1>1, <1>2, ReplayOfA, FreshReplayA
<1>4. PaysItsWay({}, mempoolA, << >>, callA, replayA')
  BY <1>1, <1>2, <1>3, PaysStart
<1> QED
  BY <1>1, <1>4 DEF PaysA

LEMMA StayPaysA == ASSUME PaysA, UNCHANGED nodeA PROVE PaysA'
BY DEF PaysA, nodeA

\* Node B, likewise

LEMMA FreshReplayB == ASSUME NEW blocks PROVE B!Replay(blocks).fees = A!Zero
<1>1. B!Replay(blocks).fees = B!Zero
  BY DEF B!Replay, B!NoReplay
<1> QED
  BY <1>1 DEF B!Zero, B!Token, A!Zero, A!Token

PaysB == PaysItsWay(knownB, mempoolB, chainB, callB, replayB)

\* A chain that was mined is never refused in the middle.
LEMMA NeverRefusedB ==
    ASSUME OneWallet, FollowsB, PaysB
    PROVE  ~B!ReplayMismatch
<1> SUFFICES ASSUME B!ReplayMismatch PROVE FALSE
  OBVIOUS
<1>1. /\ replayB.blocks # << >> /\ replayB.todo = {}
      /\ replayB.fees # Head(replayB.blocks).fees
  BY DEF B!ReplayMismatch, B!BlockReplayed, B!Replaying, B!FeesMatch, B!Current
<1>2. Blocks(replayB.blocks)
  BY <1>1 DEF FollowsB, FollowsChain, MidImport
<1> QED
  BY <1>1, <1>2, PaysFees DEF PaysB

LEMMA OwnPaysB ==
    ASSUME OneWallet, FollowsB, PaysB, B!OwnStep, ~OverflowsB
    PROVE  PaysB'
<1>0. /\ replayB' = replayB /\ replayB.blocks = << >> /\ B!Next
      /\ Blocks(chainB) /\ mempoolB \subseteq TxSpace /\ CallRecord(callB)
      /\ callB.miner = NoMiner => callB.todo = {}
  BY DEF B!OwnStep, B!Replaying, FollowsB, FollowsChain
<1>1. ASSUME NEW tx \in TxSpace, B!SubmitTransaction(tx)
      PROVE  PaysB'
  <2>1. /\ callB.miner = NoMiner /\ tx.from \in knownB
        /\ UNCHANGED <<knownB, chainB, callB>>
    BY <1>1 DEF B!SubmitTransaction, B!Idle, B!Admissible
  <2>2. Payer \in knownB
    BY <2>1, PayerOf DEF WalletOf
  <2> QED
    BY <1>0, <2>1, <2>2 DEF PaysB, PaysItsWay
<1>2. ASSUME NEW tx \in TxSpace, B!RejectTransaction(tx)
      PROVE  PaysB'
  BY <1>0, <1>2 DEF B!RejectTransaction, B!vars, PaysB
<1>3. ASSUME NEW tx \in mempoolB, B!DropTransaction(tx)
      PROVE  PaysB'
  <2>1. mempoolB # {} /\ UNCHANGED <<knownB, chainB, callB>>
    BY <1>3 DEF B!DropTransaction
  <2> QED
    BY <1>0, <2>1 DEF PaysB, PaysItsWay
<1>4. ASSUME NEW m \in MinersB, B!MineBlock(m)
      PROVE  PaysB'
  <2> DEFINE b == [miner |-> m, coinbase |-> B!Plus(B!NextReward, B!FeeTotal(mempoolB)),
                   fees |-> B!FeeTotal(mempoolB), txs |-> mempoolB]
             e == [miner |-> m, reward |-> B!NextReward,
                   coinbase |-> B!Plus(B!NextReward, B!FeeTotal(mempoolB)), todo |-> mempoolB]
  <2>1. /\ callB.miner = NoMiner /\ chainB' = Append(chainB, b)
        /\ mempoolB' = {} /\ callB' = e /\ knownB' = knownB
    BY <1>4 DEF B!MineBlock, B!Idle
  <2>2. m = Payer
    BY PayerOf DEF WalletOf
  <2>3. /\ b.miner = Payer /\ b.txs = mempoolB /\ b.fees = A!FeeTotal(mempoolB)
        /\ e.miner = Payer
    BY <2>2, OperatorsB
  <2> HIDE DEF b, e
  <2>4. PaysItsWay(knownB, {}, Append(chainB, b), e, replayB)
    BY <1>0, <2>1, <2>3, PaysMine DEF PaysB
  <2> QED
    BY <1>0, <2>1, <2>4 DEF PaysB
<1>5. ASSUME NEW tx \in callB.todo, B!ApplyTx(tx)
      PROVE  PaysB'
  <2>1. /\ callB.miner # NoMiner /\ knownB \subseteq knownB'
        /\ callB' = [callB EXCEPT !.todo = callB.todo \ {tx}]
        /\ UNCHANGED <<mempoolB, chainB>>
    BY <1>0, <1>5 DEF B!ApplyTx
  <2>2. callB'.miner = callB.miner
    BY <1>0, <2>1, CallUpdates
  <2> QED
    BY <1>0, <2>1, <2>2 DEF PaysB, PaysItsWay
<1>6. ASSUME B!GenesisBlock
      PROVE  PaysB'
  <2>1. /\ callB.miner = NoMiner /\ chainB' = Append(chainB, B!Genesis)
        /\ UNCHANGED <<knownB, mempoolB, callB>>
    BY <1>6 DEF B!GenesisBlock, B!Idle
  <2>2. B!Genesis.miner = NoMiner /\ B!Genesis.txs = {} /\ B!Genesis.fees = A!Zero
    BY DEF B!Genesis, B!Zero, B!Token, A!Zero, A!Token
  <2>3. PaysItsWay(knownB, mempoolB, Append(chainB, B!Genesis), callB, replayB)
    BY <1>0, <2>1, <2>2, PaysGenesis DEF PaysB
  <2> QED
    BY <1>0, <2>1, <2>3 DEF PaysB
<1>7. ASSUME B!CreditMiner
      PROVE  PaysB'
  <2>1. /\ callB.miner # NoMiner /\ knownB' = knownB \cup {callB.miner}
        /\ callB' = B!NoCall /\ UNCHANGED <<mempoolB, chainB>>
    BY <1>7 DEF B!CreditMiner, B!Idle
  <2>2. B!NoCall.miner = NoMiner
    BY DEF B!NoCall
  <2> QED
    BY <1>0, <2>1, <2>2 DEF PaysB, PaysItsWay
<1>8. Deposits = {}
  BY DEF OneWallet
<1> QED
  BY <1>0, <1>1, <1>2, <1>3, <1>4, <1>5, <1>6, <1>7, <1>8 DEF B!Next, B!UnsavedStep, OverflowsB

LEMMA ReplayPaysB ==
    ASSUME OneWallet, FollowsB, PaysB, B!ReplayStep, ~OverflowsB
    PROVE  PaysB'
<1>0. /\ replayB.blocks # << >> => /\ Blocks(replayB.blocks) /\ callB.miner = NoMiner
                                   /\ \A i \in 1 .. Len(replayB.blocks) :
                                          replayB.blocks[i].miner # NoMiner
      /\ replayB.blocks = << >> => replayB.todo = {}
      /\ Blocks(chainB) /\ ReplayRecord(replayB)
  BY DEF FollowsB, FollowsChain, MidImport
<1>1. ASSUME NEW tx \in replayB.todo, B!ReplayTx(tx)
      PROVE  PaysB'
  <2> DEFINE e == IF B!Pays(tx) THEN B!Plus(replayB.fees, B!FeeSplit(tx.selector, tx.fee))
                  ELSE replayB.fees
  <2>1. /\ knownB' = knownB \cup {tx.to}
        /\ replayB' = [replayB EXCEPT !.todo = replayB.todo \ {tx}, !.fees = e]
        /\ UNCHANGED <<mempoolB, chainB, callB>>
    BY <1>1 DEF B!ReplayTx
  <2>2. Charged(e, knownB, replayB, tx)
    <3>1. B!Plus(replayB.fees, B!FeeSplit(tx.selector, tx.fee))
             = A!Plus(replayB.fees, A!FeeSplit(tx.selector, tx.fee))
      BY OperatorsB
    <3> QED
      BY <3>1 DEF B!Pays, Charged
  <2> HIDE DEF e
  <2>4. replayB.blocks # << >> /\ Blocks(replayB.blocks) /\ callB.miner = NoMiner
    BY <1>0
  <2>5. Head(replayB.blocks).txs \subseteq TxSpace
    BY <2>4, EmptyBlocks, BlocksShift DEF GoodBlock
  <2>6. PaysItsWay(knownB \cup {tx.to}, mempoolB, chainB, callB,
                   [replayB EXCEPT !.todo = replayB.todo \ {tx}, !.fees = e])
    BY <1>0, <2>2, <2>4, <2>5, PaysReplay DEF PaysB
  <2> QED
    BY <2>1, <2>6 DEF PaysB
<1>2. ASSUME B!ReplayBlock
      PROVE  PaysB'
  <2> DEFINE b == Head(replayB.blocks)
  <2>1. /\ replayB.blocks # << >> /\ knownB' = knownB \cup {b.miner}
        /\ chainB' = Append(chainB, b) /\ replayB' = B!Replay(Tail(replayB.blocks))
        /\ UNCHANGED <<mempoolB, callB>>
    BY <1>2 DEF B!ReplayBlock, B!BlockReplayed, B!Replaying, B!Current, B!Rest
  <2>2. /\ replayB'.blocks = Tail(replayB.blocks) /\ replayB'.fees = A!Zero
        /\ replayB'.blocks # << >> => replayB'.todo = Head(replayB'.blocks).txs
    BY <2>1, ReplayOfB, FreshReplayB
  <2>3. b.miner # NoMiner
    BY <1>0, <2>1, EmptyBlocks, BlocksShift
  <2> HIDE DEF b
  <2>4. PaysItsWay(knownB \cup {b.miner}, mempoolB, Append(chainB, b), callB, replayB')
    BY <1>0, <2>1, <2>2, <2>3, PaysBlock DEF PaysB, b
  <2> QED
    BY <2>1, <2>4 DEF PaysB
<1> QED
  BY <1>1, <1>2, NeverRefusedB DEF B!ReplayStep, OverflowsB

LEMMA StartPaysB ==
    ASSUME OneWallet, FollowsB, NEW new, Blocks(new), PaidFirst(new), B!StartImport(new)
    PROVE  PaysB'
<1>1. /\ callB.miner = NoMiner /\ B!Importable(new)
      /\ knownB' = {} /\ chainB' = << >> /\ replayB' = B!Replay(new)
      /\ UNCHANGED <<mempoolB, callB>>
  BY DEF B!StartImport, B!Idle
<1>2. new # << >>
  <2>1. Len(new) > Len(chainB) /\ Len(chainB) \in Nat
    BY <1>1, BlocksOf DEF B!Importable, FollowsB, FollowsChain
  <2> QED
    BY <2>1, EmptySeq
<1>3. replayB'.blocks = new /\ replayB'.todo = Head(new).txs /\ replayB'.fees = A!Zero
  BY <1>1, <1>2, ReplayOfB, FreshReplayB
<1>4. PaysItsWay({}, mempoolB, << >>, callB, replayB')
  BY <1>1, <1>2, <1>3, PaysStart
<1> QED
  BY <1>1, <1>4 DEF PaysB

LEMMA StayPaysB == ASSUME PaysB, UNCHANGED nodeB PROVE PaysB'
BY DEF PaysB, nodeB

\* A node that starts has nothing.
LEMMA PaysNothing ==
    ASSUME OneWallet, NEW call, call.miner = NoMiner, NEW rep, rep.blocks = << >>
    PROVE  PaysItsWay({}, {}, << >>, call, rep)
BY DEF PaysItsWay, PaidFirst, Mined

WalletInv == NodesInv /\ PaysA /\ PaysB /\ PaidFirst(copyA) /\ PaidFirst(copyB)

LEMMA WalletStart == ASSUME OneWallet, NodesInit PROVE WalletInv
<1>1. PaysA
  <2>1. /\ knownA = {} /\ mempoolA = {} /\ chainA = << >>
        /\ callA = A!NoCall /\ replayA = A!NoReplay
    BY DEF NodesInit, A!ImportInit, A!Init
  <2>2. A!NoCall.miner = NoMiner /\ A!NoReplay.blocks = << >>
    BY DEF A!NoCall, A!NoReplay
  <2> QED
    BY <2>1, <2>2, PaysNothing DEF PaysA
<1>2. PaysB
  <2>1. /\ knownB = {} /\ mempoolB = {} /\ chainB = << >>
        /\ callB = B!NoCall /\ replayB = B!NoReplay
    BY DEF NodesInit, B!ImportInit, B!Init
  <2>2. B!NoCall.miner = NoMiner /\ B!NoReplay.blocks = << >>
    BY DEF B!NoCall, B!NoReplay
  <2> QED
    BY <2>1, <2>2, PaysNothing DEF PaysB
<1>3. PaidFirst(copyA) /\ PaidFirst(copyB)
  BY DEF NodesInit, PaidFirst
<1> QED
  BY <1>1, <1>2, <1>3, NodesStart DEF WalletInv

LEMMA RestartPays == ASSUME OneWallet, B!Restart PROVE PaysB'
<1>1. /\ knownB' = {} /\ mempoolB' = {} /\ chainB' = << >>
      /\ callB' = B!NoCall /\ replayB' = B!NoReplay
  BY DEF B!Restart
<1>2. B!NoCall.miner = NoMiner /\ B!NoReplay.blocks = << >>
  BY DEF B!NoCall, B!NoReplay
<1>3. PaysItsWay({}, {}, << >>, B!NoCall, B!NoReplay)
  BY <1>2, PaysNothing
<1> QED
  BY <1>1, <1>3 DEF PaysB

\* A call ends in the middle, and not because a replay refuses the fees of a block.
SumOverflows == (OverflowsA /\ nodeA' # nodeA) \/ (OverflowsB /\ nodeB' # nodeB)

LEMMA WalletCompletes ==
    ASSUME OneWallet, WalletInv, [~SumOverflows]_nodesVars
    PROVE  [~CallFails]_nodesVars
BY NeverRefusedA, NeverRefusedB
DEF WalletInv, NodesInv, CallFails, FailsA, FailsB, SumOverflows

LEMMA WalletStep ==
    ASSUME OneWallet, WalletInv, [NodesNext]_nodesVars, [~SumOverflows]_nodesVars
    PROVE  WalletInv'
<1>0. /\ FollowsA /\ FollowsB /\ Blocks(copyA) /\ Blocks(copyB)
      /\ PaysA /\ PaysB /\ PaidFirst(copyA) /\ PaidFirst(copyB)
  BY DEF WalletInv, NodesInv
<1>1. NodesInv'
  BY WalletCompletes, NodesStep DEF WalletInv, OneWallet
<1> SUFFICES PaysA' /\ PaysB' /\ PaidFirst(copyA)' /\ PaidFirst(copyB)'
  BY <1>1 DEF WalletInv
<1>2. CASE UNCHANGED nodesVars
  <2>1. UNCHANGED nodeA /\ UNCHANGED nodeB /\ copyA' = copyA /\ copyB' = copyB
    BY <1>2 DEF nodesVars, callers
  <2> QED
    BY <1>0, <2>1, StayPaysA, StayPaysB
<1>3. CASE NodesNext /\ ~SumOverflows
  <2>1. CASE StepA
    <3>1. UNCHANGED nodeB /\ copyA' = copyA /\ copyB' = copyB
      BY <2>1 DEF StepA, callers
    <3>2. CASE UNCHANGED nodeA
      BY <1>0, <3>1, <3>2, StayPaysA, StayPaysB
    <3>3. CASE ~UNCHANGED nodeA
      <4>1. ~OverflowsA
        BY <1>3, <3>3 DEF SumOverflows
      <4>2. PaysA'
        BY <1>0, <2>1, <4>1, OwnPaysA, ReplayPaysA DEF StepA
      <4> QED
        BY <1>0, <3>1, <4>2, StayPaysB
    <3> QED
      BY <3>2, <3>3
  <2>2. CASE StepB
    <3>1. UNCHANGED nodeA /\ copyA' = copyA /\ copyB' = copyB
      BY <2>2 DEF StepB, callers
    <3>2. CASE UNCHANGED nodeB
      BY <1>0, <3>1, <3>2, StayPaysA, StayPaysB
    <3>3. CASE ~UNCHANGED nodeB
      <4>1. ~OverflowsB
        BY <1>3, <3>3 DEF SumOverflows
      <4>2. PaysB'
        BY <1>0, <2>2, <4>1, OwnPaysB, ReplayPaysB DEF StepB
      <4> QED
        BY <1>0, <3>1, <4>2, StayPaysA
    <3> QED
      BY <3>2, <3>3
  <2>3. CASE ReadA
    <3>1. UNCHANGED nodeA /\ UNCHANGED nodeB /\ copyA' = chainA /\ copyB' = copyB
      BY <2>3 DEF ReadA
    <3>2. PaidFirst(chainA)
      BY <1>0 DEF PaysA, PaysItsWay
    <3> QED
      BY <1>0, <3>1, <3>2, StayPaysA, StayPaysB
  <2>4. CASE ReadB
    <3>1. UNCHANGED nodeA /\ UNCHANGED nodeB /\ copyB' = chainB /\ copyA' = copyA
      BY <2>4 DEF ReadB
    <3>2. PaidFirst(chainB)
      BY <1>0 DEF PaysB, PaysItsWay
    <3> QED
      BY <1>0, <3>1, <3>2, StayPaysA, StayPaysB
  <2>5. CASE ImportA
    <3>1. UNCHANGED nodeB /\ copyA' = copyA /\ copyB' = copyB
      BY <2>5 DEF ImportA, callers
    <3>2. PaysA'
      <4>1. CASE A!StartImport(copyB)
        BY <1>0, <4>1, StartPaysA
      <4>2. CASE A!RejectImport(copyB)
        <5>1. UNCHANGED nodeA
          BY <4>2 DEF A!RejectImport, A!importVars, A!vars, nodeA
        <5> QED
          BY <1>0, <5>1, StayPaysA
      <4> QED
        BY <2>5, <4>1, <4>2 DEF ImportA
    <3> QED
      BY <1>0, <3>1, <3>2, StayPaysB
  <2>6. CASE ImportB
    <3>1. UNCHANGED nodeA /\ copyA' = copyA /\ copyB' = copyB
      BY <2>6 DEF ImportB, callers
    <3>2. PaysB'
      <4>1. CASE B!StartImport(copyA)
        BY <1>0, <4>1, StartPaysB
      <4>2. CASE B!RejectImport(copyA)
        <5>1. UNCHANGED nodeB
          BY <4>2 DEF B!RejectImport, B!importVars, B!vars, nodeB
        <5> QED
          BY <1>0, <5>1, StayPaysB
      <4> QED
        BY <2>6, <4>1, <4>2 DEF ImportB
    <3> QED
      BY <1>0, <3>1, <3>2, StayPaysA
  <2>7. CASE RestartB
    <3>1. B!Restart /\ UNCHANGED nodeA /\ copyA' = copyA /\ copyB' = copyB
      BY <2>7 DEF RestartB
    <3> QED
      BY <1>0, <3>1, RestartPays, StayPaysA
  <2> QED
    BY <1>3, <2>1, <2>2, <2>3, <2>4, <2>5, <2>6, <2>7 DEF NodesNext
<1> QED
  BY <1>2, <1>3

\* Where both nodes mine for one address, and only that address spends, import_chain
\* never ends in Err("Fee checksum mismatch"): if every sum fits its type, each chain
\* that a node mines is replayed to its end, whatever an earlier import left in the
\* mempool it was mined from, and two nodes with the same chain have the same ledger.
THEOREM OneWalletNeverRefused ==
    OneWallet =>
        (NodesSpec /\ [][~SumOverflows]_nodesVars => CallsComplete /\ []LedgersAgree)
<1> SUFFICES ASSUME OneWallet
             PROVE  NodesSpec /\ [][~SumOverflows]_nodesVars => CallsComplete /\ []LedgersAgree
  OBVIOUS
<1>1. NodesInit => WalletInv
  BY WalletStart
<1>2. WalletInv /\ [NodesNext]_nodesVars /\ [~SumOverflows]_nodesVars => WalletInv'
  BY WalletStep
<1>3. WalletInv /\ [~SumOverflows]_nodesVars => [~CallFails]_nodesVars
  BY WalletCompletes
<1>4. WalletInv => LedgersAgree
  BY InvAgrees DEF WalletInv
<1> QED
  BY <1>1, <1>2, <1>3, <1>4, PTL DEF NodesSpec, CallsComplete

=============================================================================
