-------------------------- MODULE ValidationProofs --------------------------
(***************************************************************************)
(* What the two validators say of the block a node has just mined: the     *)
(* sorted body of a block, the nonces of a sender in it counted against    *)
(* the interval they span, and the accounts as the block leaves them.      *)
(***************************************************************************)
EXTENDS LedgerProofs, WellFoundedInduction

-----------------------------------------------------------------------------
(* Sorting *)

\* The keys (sender, nonce) of the transactions are distinct.
Ordered(S) == \A x, y \in S : x # y => Before(x, y) \/ Before(y, x)

SortedAs(body, S) ==
    /\ Len(body) \in Nat /\ DOMAIN body = 1 .. Len(body)
    /\ \A i \in DOMAIN body : body[i] \in S
    /\ \A x \in S : \E i \in DOMAIN body : body[i] = x
    /\ \A i, j \in DOMAIN body : i < j => Before(body[i], body[j])

\* The least of some naturals.
LEMMA LeastNat ==
    ASSUME NEW S, S \subseteq Nat, S # {}
    PROVE  Min(S) \in S /\ \A n \in S : Min(S) <= n
<1> DEFINE R == OpToRel(<, Nat)
<1>1. \A x, y \in Nat : (<<x, y>> \in R) <=> x < y
  BY DEF OpToRel
<1>2. IsWellFoundedOn(R, Nat)
  BY NatLessThanWellFounded
<1> HIDE DEF R
<1>3. PICK x \in S : \A y \in S : ~(<<y, x>> \in R)
  BY <1>2, WFMin
<1>4. ASSUME NEW y \in S
      PROVE  x <= y
  <2>1. x \in Nat /\ y \in Nat /\ ~(<<y, x>> \in R)
    BY <1>3
  <2>2. ~(y < x)
    BY <1>1, <2>1
  <2> QED
    BY <2>1, <2>2
<1> QED
  BY <1>3, <1>4 DEF Min

LEMMA KeyTypes == \A x \in TxSpace : x.from \in Nat /\ x.nonce \in Nat
<1>1. \A x \in TxSpace : x.from \in Addr /\ x.nonce \in Word
  BY InputAssumption DEF Tx
<1>2. Addr \subseteq Nat
  BY AddrAssumption
<1>3. Word \subseteq Nat
  BY U64Assumption DEF Word
<1> QED
  BY <1>1, <1>2, <1>3

\* A total order on a finite set ranks its elements from 0.
LEMMA RankOnto ==
    ASSUME NEW S, S \subseteq TxSpace, Ordered(S), NEW k \in 0 .. (Cardinality(S) - 1)
    PROVE  \E x \in S : Cardinality({q \in S : Before(q, x)}) = k
<1> DEFINE P(x) == {q \in S : Before(q, x)}
           r    == [x \in S |-> Cardinality(P(x))]
           n    == Cardinality(S)
<1>1. IsFiniteSet(S) /\ n \in Nat
  BY InputAssumption, FS_Subset, FS_CardinalityType
<1>2. \A x \in S : x.from \in Nat /\ x.nonce \in Nat
  BY KeyTypes
<1>3. ASSUME NEW x \in S
      PROVE  IsFiniteSet(P(x)) /\ Cardinality(P(x)) \in 0 .. (n - 1)
  <2>1. P(x) \subseteq S \ {x}
    BY <1>2 DEF Before
  <2>2. IsFiniteSet(S \ {x}) /\ Cardinality(S \ {x}) = n - 1
    BY <1>1, FS_RemoveElement
  <2>3. IsFiniteSet(P(x)) /\ Cardinality(P(x)) <= n - 1
    <3> HIDE DEF P, n
    <3> QED
      BY <2>1, <2>2, FS_Subset
  <2>4. Cardinality(P(x)) \in Nat
    BY <2>3, FS_CardinalityType
  <2> QED
    BY <1>1, <2>3, <2>4
<1>4. ASSUME NEW x \in S, NEW y \in S, Before(x, y)
      PROVE  Cardinality(P(x)) < Cardinality(P(y))
  <2>1. P(x) \cup {x} \subseteq P(y) /\ x \notin P(x)
    BY <1>2, <1>4 DEF Before
  <2>2. Cardinality(P(x) \cup {x}) = Cardinality(P(x)) + 1
    BY <1>3, <2>1, FS_AddElement
  <2>3. Cardinality(P(x) \cup {x}) <= Cardinality(P(y))
    BY <1>3, <2>1, FS_Subset
  <2> QED
    BY <1>3, <2>2, <2>3
<1>5. r \in Injection(S, 0 .. (n - 1))
  <2>1. r \in [S -> 0 .. (n - 1)]
    BY <1>3
  <2>2. ASSUME NEW x \in S, NEW y \in S, r[x] = r[y]
        PROVE  x = y
    <3>1. Cardinality(P(x)) = Cardinality(P(y)) /\ Cardinality(P(x)) \in Int
      BY <1>3, <2>2
    <3> HIDE DEF P, r
    <3> QED
      BY <1>4, <3>1 DEF Ordered
  <2> QED
    BY <2>1, <2>2 DEF Injection, IsInjective
<1>6. IsFiniteSet(0 .. (n - 1)) /\ Cardinality(0 .. (n - 1)) = n
  BY <1>1, FS_Interval
<1>7. r \in Surjection(S, 0 .. (n - 1))
  <2> HIDE DEF r, n
  <2> QED
    BY <1>5, <1>6, FS_Injection DEF n
<1>8. \E x \in S : r[x] = k
  BY <1>7 DEF Surjection
<1> QED
  BY <1>8

\* mine_block's sort: all the transactions of the block, each once, in order.
LEMMA BodySorted ==
    ASSUME NEW b, b.txs \subseteq TxSpace, Ordered(b.txs)
    PROVE  SortedAs(Body(b), b.txs) /\ Len(Body(b)) = Cardinality(b.txs)
<1> DEFINE S    == b.txs
           P(x) == {q \in S : Before(q, x)}
           n    == Cardinality(S)
           s    == Body(b)
<1>1. IsFiniteSet(S) /\ n \in Nat
  BY InputAssumption, FS_Subset, FS_CardinalityType
<1>2. \A x \in S : x.from \in Nat /\ x.nonce \in Nat
  BY KeyTypes
<1>3. DOMAIN s = 1 .. n /\ Len(s) = n
  BY <1>1 DEF Body
<1>4. ASSUME NEW i \in 1 .. n
      PROVE  s[i] \in S /\ Cardinality(P(s[i])) = i - 1
  <2>1. i - 1 \in 0 .. (n - 1)
    BY <1>1
  <2>2. \E x \in S : Cardinality({q \in S : Before(q, x)}) = i - 1
    BY <2>1, RankOnto
  <2>3. s[i] = CHOOSE x \in S : Cardinality({q \in S : Before(q, x)}) = i - 1
    BY DEF Body
  <2> HIDE DEF s, S
  <2> QED
    BY <2>2, <2>3
<1>5. ASSUME NEW x \in S, NEW y \in S, Before(x, y)
      PROVE  /\ Cardinality(P(x)) < Cardinality(P(y))
             /\ Cardinality(P(x)) \in Nat /\ Cardinality(P(y)) < n
  <2>1. /\ P(x) \cup {x} \subseteq P(y) /\ x \notin P(x)
        /\ P(y) \cup {y} \subseteq S /\ y \notin P(y)
    BY <1>2, <1>5 DEF Before
  <2>2. IsFiniteSet(P(x)) /\ IsFiniteSet(P(y)) /\ IsFiniteSet(S)
    BY <1>1, FS_Subset
  <2> HIDE DEF P, S
  <2>3. /\ Cardinality(P(x) \cup {x}) = Cardinality(P(x)) + 1
        /\ Cardinality(P(y) \cup {y}) = Cardinality(P(y)) + 1
    BY <2>1, <2>2, FS_AddElement
  <2>4. /\ Cardinality(P(x) \cup {x}) <= Cardinality(P(y))
        /\ Cardinality(P(y) \cup {y}) <= n
    BY <2>1, <2>2, FS_Subset DEF S
  <2>5. Cardinality(P(x)) \in Nat /\ Cardinality(P(y)) \in Nat
    BY <2>2, FS_CardinalityType
  <2> QED
    BY <1>1, <2>3, <2>4, <2>5
<1>6. ASSUME NEW i \in 1 .. n, NEW j \in 1 .. n, i < j
      PROVE  Before(s[i], s[j])
  <2>1. s[i] \in S /\ s[j] \in S /\ s[i] # s[j] /\ ~Before(s[j], s[i])
    <3> HIDE DEF P, s, S
    <3>1. s[i] \in S /\ s[j] \in S /\ Cardinality(P(s[i])) = i - 1 /\ Cardinality(P(s[j])) = j - 1
      BY <1>4
    <3>2. s[i] # s[j]
      BY <1>6, <3>1
    <3>3. ~Before(s[j], s[i])
      BY <1>5, <1>6, <3>1
    <3> QED
      BY <3>1, <3>2, <3>3
  <2> QED
    BY <2>1 DEF Ordered
<1>7. ASSUME NEW x \in S
      PROVE  \E i \in 1 .. n : s[i] = x
  <2> DEFINE f == [i \in 1 .. n |-> s[i]]
  <2>1. f \in Injection(1 .. n, S)
    <3>1. f \in [1 .. n -> S]
      BY <1>4
    <3>2. ASSUME NEW i \in 1 .. n, NEW j \in 1 .. n, f[i] = f[j]
          PROVE  i = j
      <4>1. i - 1 = j - 1
        BY <1>4, <3>2
      <4> QED
        BY <4>1
    <3> QED
      BY <3>1, <3>2 DEF Injection, IsInjective
  <2>2. IsFiniteSet(1 .. n) /\ Cardinality(1 .. n) = n
    BY <1>1, FS_Interval
  <2>3. f \in Surjection(1 .. n, S)
    <3> HIDE DEF f, S
    <3> QED
      BY <1>1, <2>1, <2>2, FS_Injection DEF S
  <2> QED
    BY <2>3 DEF Surjection
<1> QED
  BY <1>1, <1>3, <1>4, <1>6, <1>7 DEF SortedAs

-----------------------------------------------------------------------------
(* The nonces of a sender in a sorted body *)

\* The transactions of sender a up to its transaction at i: as many as the nonces
\* they span allow, and just as many exactly when every nonce in between is there.
LEMMA SentSpan ==
    ASSUME NEW body, NEW S, S \subseteq TxSpace, SortedAs(body, S),
           NEW i \in DOMAIN body, NEW a, a = body[i].from
    PROVE  LET m == Min(Sent(body, a, i))
           IN  /\ m \in Sent(body, a, i) /\ \A j \in Sent(body, a, i) : m <= j
               /\ i \in Sent(body, a, i)
               /\ body[m].nonce \in Nat /\ body[i].nonce \in Nat
               /\ body[m].nonce <= body[i].nonce
               /\ Cardinality(Sent(body, a, i)) \in Nat
               /\ \A j \in Sent(body, a, i) : body[j].nonce \in body[m].nonce .. body[i].nonce
               /\ Cardinality(Sent(body, a, i)) = body[i].nonce - body[m].nonce + 1
                  <=> \A n \in body[m].nonce .. body[i].nonce :
                          \E j \in Sent(body, a, i) : body[j].nonce = n
<1> DEFINE I == Sent(body, a, i)
           m == Min(I)
<1>1. /\ DOMAIN body = 1 .. Len(body) /\ Len(body) \in Nat
      /\ \A j \in DOMAIN body : body[j].nonce \in Nat /\ body[j].from \in Nat
      /\ \A j, k \in DOMAIN body : j < k => Before(body[j], body[k])
  <2>1. \A j \in DOMAIN body : body[j] \in TxSpace
    BY DEF SortedAs
  <2> QED
    BY <2>1, KeyTypes DEF SortedAs
<1>2. /\ I \subseteq 1 .. i /\ 1 .. i \subseteq DOMAIN body /\ i \in I /\ I \subseteq Nat
      /\ \A j \in I : body[j].from = a
  BY <1>1 DEF Sent
<1>3. m \in I /\ \A j \in I : m <= j
  <2> HIDE DEF I
  <2> QED
    BY <1>2, LeastNat
<1>4. ASSUME NEW j \in I, NEW k \in I, j < k
      PROVE  body[j].nonce < body[k].nonce
  <2> HIDE DEF I
  <2>1. /\ Before(body[j], body[k]) /\ body[j].from = body[k].from
        /\ body[j].from \in Nat
    BY <1>1, <1>2, <1>4
  <2> QED
    BY <2>1 DEF Before
<1>5. ASSUME NEW j \in I
      PROVE  body[j].nonce \in body[m].nonce .. body[i].nonce
  <2> HIDE DEF I, m
  <2>1. /\ m \in I /\ i \in I /\ m \in Nat /\ i \in Nat /\ j \in Nat /\ m <= j /\ j <= i
        /\ body[m].nonce \in Nat /\ body[i].nonce \in Nat /\ body[j].nonce \in Nat
    BY <1>1, <1>2, <1>3
  <2>2. body[m].nonce <= body[j].nonce
    BY <1>4, <2>1
  <2>3. body[j].nonce <= body[i].nonce
    BY <1>4, <2>1
  <2> QED
    BY <2>1, <2>2, <2>3
<1> DEFINE f == [j \in I |-> body[j].nonce]
           T == body[m].nonce .. body[i].nonce
<1>6. f \in Injection(I, T)
  <2>1. f \in [I -> T]
    BY <1>5
  <2>2. ASSUME NEW j \in I, NEW k \in I, f[j] = f[k]
        PROVE  j = k
    <3>1. body[j].nonce = body[k].nonce
      BY <2>2
    <3> HIDE DEF I, m
    <3>2. body[j].nonce \in Nat /\ j \in Nat /\ k \in Nat
      BY <1>1, <1>2
    <3> QED
      BY <1>4, <3>1, <3>2
  <2> QED
    BY <2>1, <2>2 DEF Injection, IsInjective
<1>7. /\ body[m].nonce \in Nat /\ body[i].nonce \in Nat /\ body[m].nonce <= body[i].nonce
      /\ IsFiniteSet(T) /\ Cardinality(T) = body[i].nonce - body[m].nonce + 1
  <2>1. /\ body[m].nonce \in Nat /\ body[i].nonce \in Nat
        /\ body[i].nonce \in body[m].nonce .. body[i].nonce
    <3> HIDE DEF I, m
    <3> QED
      BY <1>1, <1>2, <1>3, <1>5
  <2> HIDE DEF I, m
  <2> QED
    BY <2>1, FS_Interval
<1>8. /\ IsFiniteSet(I)
      /\ Cardinality(I) = Cardinality(T) <=> f \in Surjection(I, T)
  <2> HIDE DEF f, I, T
  <2> QED
    BY <1>6, <1>7, FS_Injection
<1>9. f \in Surjection(I, T) <=> \A n \in T : \E j \in I : body[j].nonce = n
  <2>1. f \in [I -> T] /\ \A j \in I : f[j] = body[j].nonce
    BY <1>6 DEF Injection
  <2> HIDE DEF f, I, T
  <2> QED
    BY <2>1 DEF Surjection
<1>10. Cardinality(I) \in Nat
  <2> HIDE DEF I
  <2> QED
    BY <1>8, FS_CardinalityType
<1> QED
  BY <1>2, <1>3, <1>5, <1>7, <1>8, <1>9, <1>10

\* A body has no gap exactly when the nonces of each sender count up by one from its
\* first.
LEMMA GaplessRuns ==
    ASSUME NEW b, b.txs \subseteq TxSpace, NEW body, SortedAs(body, b.txs)
    PROVE  Gapless(b) <=> RunsFromFirst(body)
<1>1. /\ DOMAIN body = 1 .. Len(body) /\ Len(body) \in Nat
      /\ \A j \in DOMAIN body : body[j].nonce \in Nat /\ body[j].from \in Nat /\ body[j] \in b.txs
      /\ \A j, k \in DOMAIN body : j < k => Before(body[j], body[k])
      /\ \A x \in b.txs : \E k \in DOMAIN body : body[k] = x
  <2>1. \A j \in DOMAIN body : body[j] \in b.txs
    BY DEF SortedAs
  <2> QED
    BY <2>1, KeyTypes DEF SortedAs
<1>2. ASSUME NEW j \in DOMAIN body, NEW k \in DOMAIN body, body[j].from = body[k].from,
             body[j].nonce <= body[k].nonce
      PROVE  j \in Sent(body, body[k].from, k)
  <2>1. ~(k < j)
    BY <1>1, <1>2 DEF Before
  <2> QED
    BY <1>1, <1>2, <2>1 DEF Sent
<1>3. ASSUME Gapless(b), NEW i \in DOMAIN body, body[i].from # ZERO_ADDR
      PROVE  body[i].nonce = body[Min(Sent(body, body[i].from, i))].nonce
                             + Cardinality(Sent(body, body[i].from, i)) - 1
  <2> DEFINE a == body[i].from
             m == Min(Sent(body, a, i))
  <2>1. /\ m \in Sent(body, a, i) /\ i \in Sent(body, a, i)
        /\ body[m].nonce \in Nat /\ body[i].nonce \in Nat
        /\ Cardinality(Sent(body, a, i)) \in Nat
        /\ body[m].nonce <= body[i].nonce
        /\ Cardinality(Sent(body, a, i)) = body[i].nonce - body[m].nonce + 1
           <=> \A n \in body[m].nonce .. body[i].nonce :
                   \E j \in Sent(body, a, i) : body[j].nonce = n
    BY SentSpan
  <2>2. m \in DOMAIN body /\ body[m].from = a
    BY <1>1, <2>1 DEF Sent
  <2> HIDE DEF m
  <2>3. ASSUME NEW n \in body[m].nonce .. body[i].nonce
        PROVE  \E j \in Sent(body, a, i) : body[j].nonce = n
    <3>1. CASE body[m].nonce = body[i].nonce
      BY <2>1, <3>1
    <3>2. CASE body[m].nonce # body[i].nonce
      <4>1. body[m].nonce < body[i].nonce
        BY <2>1, <3>2
      <4>2. PICK z \in b.txs : z.from = a /\ z.nonce = n
        BY <1>1, <1>3, <2>2, <4>1 DEF Gapless
      <4>3. PICK k \in DOMAIN body : body[k] = z
        BY <1>1
      <4>4. body[k].nonce <= body[i].nonce /\ body[k].from = body[i].from
        BY <2>1, <4>2, <4>3
      <4> QED
        BY <1>2, <4>2, <4>3, <4>4
    <3> QED
      BY <3>1, <3>2
  <2>4. Cardinality(Sent(body, a, i)) = body[i].nonce - body[m].nonce + 1
    BY <2>1, <2>3
  <2> QED
    BY <2>1, <2>4 DEF m
<1>4. ASSUME RunsFromFirst(body), NEW x \in b.txs, NEW y \in b.txs,
             x.from = y.from, x.from # ZERO_ADDR, x.nonce < y.nonce, NEW n \in x.nonce .. y.nonce
      PROVE  \E z \in b.txs : z.from = x.from /\ z.nonce = n
  <2>1. PICK i \in DOMAIN body, k \in DOMAIN body : body[i] = x /\ body[k] = y
    BY <1>1
  <2> DEFINE a == body[k].from
             m == Min(Sent(body, a, k))
  <2>2. /\ body[m].nonce \in Nat /\ body[k].nonce \in Nat
        /\ Cardinality(Sent(body, a, k)) \in Nat
        /\ \A j \in Sent(body, a, k) : body[j].nonce \in body[m].nonce .. body[k].nonce
        /\ Cardinality(Sent(body, a, k)) = body[k].nonce - body[m].nonce + 1
           <=> \A v \in body[m].nonce .. body[k].nonce :
                   \E j \in Sent(body, a, k) : body[j].nonce = v
    BY SentSpan
  <2>3. body[k].nonce = body[m].nonce + Cardinality(Sent(body, a, k)) - 1
    BY <1>4, <2>1 DEF RunsFromFirst
  <2> HIDE DEF m
  <2>4. \A v \in body[m].nonce .. body[k].nonce : \E j \in Sent(body, a, k) : body[j].nonce = v
    BY <2>2, <2>3
  <2>5. i \in Sent(body, a, k)
    BY <1>1, <1>2, <1>4, <2>1
  <2>6. n \in body[m].nonce .. body[k].nonce
    <3>1. body[i].nonce \in body[m].nonce .. body[k].nonce /\ body[i].nonce \in Nat
      BY <1>1, <2>2, <2>5
    <3> QED
      BY <1>4, <2>1, <2>2, <3>1
  <2>7. PICK j \in Sent(body, a, k) : body[j].nonce = n
    BY <2>4, <2>6
  <2>8. j \in DOMAIN body /\ body[j].from = x.from
    BY <1>1, <1>4, <2>1 DEF Sent
  <2> QED
    BY <1>1, <2>7, <2>8
<1> QED
  BY <1>3, <1>4 DEF Gapless, RunsFromFirst

\* The nonces of the accounts are those of the last transactions of their senders
\* in S.
SettledBy(S) ==
    \A x \in S : x.from # ZERO_ADDR =>
        /\ x.nonce >= 1 /\ x.nonce <= accounts[x.from].nonce
        /\ \E y \in S : y.from = x.from /\ y.nonce = accounts[x.from].nonce

\* Where a sender's first transaction is in the body, and what validate_block
\* counts back from the sender's nonce.
LEMMA SentFirst ==
    ASSUME NEW body, NEW S, S \subseteq TxSpace, SortedAs(body, S), SettledBy(S),
           NEW i \in DOMAIN body, NEW a, a = body[i].from, a # ZERO_ADDR
    PROVE  LET m == Min(Sent(body, a, i))
           IN  /\ m \in DOMAIN body /\ body[m].from = a
               /\ Cardinality(Sent(body, a, m)) = 1
               /\ body[m].nonce \in Nat /\ body[m].nonce >= 1
               /\ body[i].nonce \in Nat /\ Cardinality(Sent(body, a, i)) \in Nat
               /\ \E k \in DOMAIN body :
                     /\ body[k].from = a /\ body[k].nonce = accounts[a].nonce
                     /\ body[k].nonce \in Nat
                     /\ Sent(body, a, Len(body)) = Sent(body, a, k)
                     /\ Min(Sent(body, a, k)) = m
                     /\ Cardinality(Sent(body, a, k)) \in Nat
<1> DEFINE m == Min(Sent(body, a, i))
<1>1. /\ DOMAIN body = 1 .. Len(body) /\ Len(body) \in Nat
      /\ \A j \in DOMAIN body : body[j].nonce \in Nat /\ body[j].from \in Nat /\ body[j] \in S
      /\ \A j, k \in DOMAIN body : j < k => Before(body[j], body[k])
      /\ \A x \in S : \E k \in DOMAIN body : body[k] = x
  <2>1. \A j \in DOMAIN body : body[j] \in S
    BY DEF SortedAs
  <2> QED
    BY <2>1, KeyTypes DEF SortedAs
<1>2. /\ m \in Sent(body, a, i) /\ \A j \in Sent(body, a, i) : m <= j
      /\ i \in Sent(body, a, i) /\ Cardinality(Sent(body, a, i)) \in Nat
  BY SentSpan
<1>3. m \in DOMAIN body /\ body[m].from = a /\ m <= i
  <2> HIDE DEF m
  <2>1. m \in 1 .. i /\ body[m].from = a
    BY <1>2 DEF Sent
  <2> QED
    BY <1>1, <2>1
<1>4. PICK y \in S : y.from = a /\ y.nonce = accounts[a].nonce
  BY <1>1 DEF SettledBy
<1>5. PICK k \in DOMAIN body : body[k] = y
  BY <1>1
<1>6. \A j \in S : j.from = a => j.nonce >= 1 /\ j.nonce <= accounts[a].nonce
  BY DEF SettledBy
<1>7. ASSUME NEW j \in DOMAIN body, body[j].from = a
      PROVE  j <= k
  <2>1. body[j].nonce <= body[k].nonce /\ body[k].from = a
    BY <1>1, <1>4, <1>5, <1>6, <1>7
  <2>2. ~(k < j)
    BY <1>1, <1>7, <2>1 DEF Before
  <2> QED
    BY <1>1, <2>2
<1>8. Sent(body, a, Len(body)) = Sent(body, a, k)
  BY <1>1, <1>7 DEF Sent
<1>9. /\ Min(Sent(body, a, k)) \in Sent(body, a, k)
      /\ \A j \in Sent(body, a, k) : Min(Sent(body, a, k)) <= j
      /\ Cardinality(Sent(body, a, k)) \in Nat
  BY <1>4, <1>5, SentSpan
<1>10. Min(Sent(body, a, k)) = m
  <2> DEFINE v == Min(Sent(body, a, k))
  <2>0. v \in Sent(body, a, k) /\ \A j \in Sent(body, a, k) : v <= j
    BY <1>9
  <2> HIDE DEF m, v
  <2>1. i <= k
    BY <1>7
  <2>2. m \in Sent(body, a, k) /\ v \in DOMAIN body /\ body[v].from = a
    <3>1. v \in 1 .. k /\ body[v].from = a
      BY <2>0 DEF Sent
    <3>2. m \in 1 .. k
      BY <1>1, <1>3, <2>1
    <3> QED
      BY <1>1, <1>3, <3>1, <3>2 DEF Sent
  <2>3. v <= m
    BY <2>0, <2>2
  <2>4. v \in Sent(body, a, i)
    BY <1>1, <1>3, <2>2, <2>3 DEF Sent
  <2>5. m <= v
    BY <1>2, <2>4
  <2>6. m \in Nat /\ v \in Nat
    BY <1>1, <1>3, <2>2
  <2>7. v = m
    BY <2>3, <2>5, <2>6
  <2> QED
    BY <2>7 DEF v
<1>11. Sent(body, a, m) = {m}
  <2> HIDE DEF m
  <2>1. ASSUME NEW j \in Sent(body, a, m)
        PROVE  j = m
    <3>1. j \in Sent(body, a, i) /\ j <= m /\ j \in Nat /\ m \in Nat
      BY <1>1, <1>3, <2>1 DEF Sent
    <3> QED
      BY <1>2, <3>1
  <2>2. m \in Sent(body, a, m)
    BY <1>1, <1>3 DEF Sent
  <2> QED
    BY <2>1, <2>2
<1>12. Cardinality(Sent(body, a, m)) = 1
  BY <1>11, FS_Singleton
<1>13. body[m].nonce \in Nat /\ body[m].nonce >= 1 /\ body[i].nonce \in Nat /\ body[k].nonce \in Nat
  <2> HIDE DEF m
  <2> QED
    BY <1>1, <1>3, <1>6
<1> QED
  BY <1>2, <1>3, <1>4, <1>5, <1>8, <1>9, <1>10, <1>12, <1>13

LEMMA CountBack ==
    ASSUME NEW first \in Nat, first >= 1, NEW count \in Nat, NEW last, last = first + count - 1
    PROVE  SatSub(last, count) = first - 1
BY DEF SatSub

\* Counting back from the accounts and counting up from the first transactions in
\* the block are the same test once the block is settled.
LEMMA StartsSettled ==
    ASSUME NEW body, NEW S, S \subseteq TxSpace, SortedAs(body, S), SettledBy(S)
    PROVE  NoncesRun(body) <=> RunsFromFirst(body)
<1>1. ASSUME RunsFromFirst(body), NEW i \in DOMAIN body, body[i].from # ZERO_ADDR
      PROVE  body[i].nonce = StartNonce(body, body[i].from)
                             + Cardinality(Sent(body, body[i].from, i))
  <2> DEFINE a == body[i].from
             m == Min(Sent(body, a, i))
  <2>1. /\ body[m].nonce \in Nat /\ body[m].nonce >= 1
        /\ body[i].nonce \in Nat /\ Cardinality(Sent(body, a, i)) \in Nat
    BY <1>1, SentFirst
  <2>2. PICK k \in DOMAIN body :
                     /\ body[k].from = a /\ body[k].nonce = accounts[a].nonce
                     /\ body[k].nonce \in Nat
                     /\ Sent(body, a, Len(body)) = Sent(body, a, k)
                     /\ Min(Sent(body, a, k)) = m
                     /\ Cardinality(Sent(body, a, k)) \in Nat
    BY <1>1, SentFirst
  <2>3. /\ body[i].nonce = body[m].nonce + Cardinality(Sent(body, a, i)) - 1
        /\ body[k].nonce = body[m].nonce + Cardinality(Sent(body, a, k)) - 1
    BY <1>1, <2>2 DEF RunsFromFirst
  <2>4. StartNonce(body, a) = SatSub(body[k].nonce, Cardinality(Sent(body, a, k)))
    BY <2>2 DEF StartNonce
  <2> HIDE DEF m
  <2>5. StartNonce(body, a) = body[m].nonce - 1
    BY <2>1, <2>2, <2>3, <2>4, CountBack
  <2> QED
    BY <2>1, <2>3, <2>5
<1>2. ASSUME NoncesRun(body), NEW i \in DOMAIN body, body[i].from # ZERO_ADDR
      PROVE  body[i].nonce = body[Min(Sent(body, body[i].from, i))].nonce
                             + Cardinality(Sent(body, body[i].from, i)) - 1
  <2> DEFINE a == body[i].from
             m == Min(Sent(body, a, i))
             start == StartNonce(body, a)
  <2>1. /\ m \in DOMAIN body /\ body[m].from = a
        /\ Cardinality(Sent(body, a, m)) = 1
        /\ body[m].nonce \in Nat
        /\ body[i].nonce \in Nat /\ Cardinality(Sent(body, a, i)) \in Nat
    BY <1>2, SentFirst
  <2>2. PICK k \in DOMAIN body :
                     /\ body[k].nonce = accounts[a].nonce
                     /\ body[k].nonce \in Nat
                     /\ Sent(body, a, Len(body)) = Sent(body, a, k)
                     /\ Cardinality(Sent(body, a, k)) \in Nat
    BY <1>2, SentFirst
  <2>3. start \in Nat
    BY <2>2 DEF StartNonce, SatSub
  <2>4. /\ body[i].nonce = start + Cardinality(Sent(body, a, i))
        /\ body[m].nonce = start + Cardinality(Sent(body, a, m))
    BY <1>2, <2>1 DEF NoncesRun
  <2> HIDE DEF m, start
  <2>5. body[i].nonce = body[m].nonce + Cardinality(Sent(body, a, i)) - 1
    BY <2>1, <2>3, <2>4
  <2> QED
    BY <2>5 DEF m
<1> QED
  BY <1>1, <1>2 DEF NoncesRun, RunsFromFirst

-----------------------------------------------------------------------------
(* The block a node has just mined *)

Admitted(x) == FeeOk(x.selector, x.fee) /\ verify_signed_tx(x)

\* What mine_block makes of the transactions of its mempool.
SoundBlock(b) ==
    /\ b.txs \subseteq TxSpace /\ Ordered(b.txs)
    /\ \A x \in b.txs : Admitted(x)
    /\ b.fees = FeeTotal(b.txs)
    /\ \A t \in Token : b.coinbase[t] >= b.fees[t]

\* All that the validators test of such a block is whether nonces are missing.
LEMMA Verdicts ==
    ASSUME NEW b, SoundBlock(b), b.miner # NoMiner
    PROVE  /\ AcceptedByPeers(b, Body(b)) <=> Gapless(b)
           /\ SettledBy(b.txs) => (ValidateBlock(b, Body(b)) <=> Gapless(b))
<1> DEFINE body == Body(b)
<1>1. b.txs \subseteq TxSpace /\ SortedAs(body, b.txs)
  BY BodySorted DEF SoundBlock
<1> HIDE DEF body
<1>2. /\ DOMAIN body = 1 .. Len(body) /\ Len(body) \in Nat
      /\ \A j \in DOMAIN body : body[j].nonce \in Nat /\ body[j].from \in Nat /\ body[j] \in b.txs
      /\ \A j, k \in DOMAIN body : j < k => Before(body[j], body[k])
      /\ \A x \in b.txs : \E k \in DOMAIN body : body[k] = x
  <2>1. \A j \in DOMAIN body : body[j] \in b.txs
    BY <1>1 DEF SortedAs
  <2> QED
    BY <1>1, <2>1, KeyTypes DEF SortedAs
<1>3. Range(body) = b.txs
  BY <1>2 DEF Range
<1>4. IsInjective(body)
  <2>1. ASSUME NEW j \in DOMAIN body, NEW k \in DOMAIN body, body[j] = body[k]
        PROVE  j = k
    <3>1. ~(j < k) /\ ~(k < j)
      BY <1>2, <2>1 DEF Before
    <3> QED
      BY <1>2, <3>1
  <2> QED
    BY <2>1 DEF IsInjective
<1>5. \A j \in DOMAIN body : FeeOk(body[j].selector, body[j].fee) /\ verify_signed_tx(body[j])
  BY <1>2 DEF SoundBlock, Admitted
<1>6. FeeTotal(Range(body)) = b.fees /\ \A t \in Token : b.coinbase[t] >= b.fees[t]
  BY <1>3 DEF SoundBlock
<1>7. Gapless(b) <=> RunsFromFirst(body)
  BY <1>1, GaplessRuns
<1>8. SettledBy(b.txs) => (NoncesRun(body) <=> RunsFromFirst(body))
  BY <1>1, StartsSettled
<1>9. AcceptedByPeers(b, body) <=> RunsFromFirst(body)
  BY <1>4, <1>5, <1>6 DEF AcceptedByPeers
<1>10. ValidateBlock(b, body) <=> NoncesRun(body)
  BY <1>4, <1>5, <1>6 DEF ValidateBlock
<1> QED
  BY <1>7, <1>8, <1>9, <1>10 DEF body

\* Between two blocks the tip is settled: the accounts of its senders have the nonces
\* that it left.  While a block is applied, what has been applied of it is.  The first n
\* blocks are left out: where a node starts from a database, others have mined them.
TipFrom(n) ==
    /\ TypeInv /\ NonceLock
    /\ \A x \in Live : Admitted(x)
    /\ (Len(chain) > n /\ Last(chain).miner # NoMiner) =>
           SoundBlock(Last(chain)) /\ SettledBy(Last(chain).txs \ call.todo)
    /\ \A x \in call.todo : x \in Last(chain).txs

LEMMA TipKept ==
    ASSUME NEW n \in Nat, TipFrom(n), TypeInv', NonceLock', \A x \in Live' : Admitted(x),
           chain' = chain, call'.todo = call.todo,
           \A a \in Addr : accounts'[a].nonce = accounts[a].nonce
    PROVE  TipFrom(n)'
<1>1. \A x \in TxSpace : x.from \in Addr
  BY InputAssumption DEF Tx
<1>2. ASSUME Len(chain) > n, Last(chain).miner # NoMiner
      PROVE  SoundBlock(Last(chain)) /\ SettledBy(Last(chain).txs \ call.todo)'
  <2>1. SoundBlock(Last(chain)) /\ SettledBy(Last(chain).txs \ call.todo)
    BY <1>2 DEF TipFrom
  <2>2. \A x \in Last(chain).txs \ call.todo : accounts'[x.from].nonce = accounts[x.from].nonce
    BY <1>1, <2>1 DEF SoundBlock
  <2> QED
    BY <2>1, <2>2 DEF SettledBy
<1> QED
  BY <1>2 DEF TipFrom

LEMMA TipPushed ==
    ASSUME NEW n \in Nat, TipFrom(n), TypeInv', NonceLock', NEW m \in Miners, MineBlock(m)
    PROVE  TipFrom(n)'
<1> DEFINE b == [miner    |-> m,
                 coinbase |-> Plus(NextReward, FeeTotal(mempool)),
                 fees     |-> FeeTotal(mempool),
                 txs      |-> mempool]
<1>1. /\ chain \in Seq(Block) /\ mempool \subseteq TxSpace /\ call.todo = {}
      /\ block_reward \in Pair /\ emission \in Pair
  BY DEF TipFrom, TypeInv, TypeOK, MineBlock, NoCall
<1>2. chain' = Append(chain, b) /\ call'.todo = mempool /\ mempool' = {}
  BY DEF MineBlock
<1>3. chain' # << >> /\ Last(chain') = b
  <2> HIDE DEF b
  <2> QED
    BY <1>1, <1>2 DEF Last
<1>4. \A x \in mempool : Admitted(x)
  BY DEF TipFrom, Live
<1>5. Ordered(mempool)
  <2> SUFFICES ASSUME NEW x \in mempool, NEW y \in mempool, x # y
               PROVE  Before(x, y) \/ Before(y, x)
    BY DEF Ordered
  <2>1. x.from \in Nat /\ y.from \in Nat /\ x.nonce \in Nat /\ y.nonce \in Nat
    BY <1>1, KeyTypes
  <2>2. ~(x.from = y.from /\ x.nonce = y.nonce)
    BY DEF TipFrom, NonceLock, Live
  <2> QED
    BY <2>1, <2>2 DEF Before
<1>6. \A t \in Token : Plus(NextReward, FeeTotal(mempool))[t] >= FeeTotal(mempool)[t]
  <2> SUFFICES ASSUME NEW t \in Token
               PROVE  NextReward[t] + FeeTotal(mempool)[t] >= FeeTotal(mempool)[t]
    BY DEF Plus
  <2>1. FeeTotal(mempool)[t] \in Nat
    BY U64Assumption DEF MineBlock, CoinbaseFits, Pair, Word
  <2>2. NextReward[t] \in Nat
    BY NextRewardFits, U64Assumption DEF TipFrom, TypeInv, MineBlock, Pair, Word
  <2> QED
    BY <2>1, <2>2
<1>7. SoundBlock(b)
  BY <1>1, <1>4, <1>5, <1>6 DEF SoundBlock
<1>8. SettledBy(b.txs \ mempool)'
  BY DEF SettledBy
<1>9. \A x \in Live' : Admitted(x)
  BY <1>2, <1>4 DEF Live
<1>10. SettledBy(Last(chain).txs \ call.todo)'
  BY <1>2, <1>3 DEF SettledBy
<1> QED
  BY <1>2, <1>3, <1>7, <1>9, <1>10 DEF TipFrom

LEMMA TipApplied ==
    ASSUME NEW n \in Nat, TipFrom(n), TypeInv', NonceLock', NEW tx \in call.todo, ApplyTx(tx)
    PROVE  TipFrom(n)'
<1>1. /\ chain' = chain /\ call'.todo = call.todo \ {tx} /\ mempool' = mempool
      /\ tx \in TxSpace /\ tx \in Live /\ tx.from \in known
      /\ tx.nonce > accounts[tx.from].nonce
  BY DEF ApplyTx, TipFrom, TypeInv, TypeOK, Live, NonceLock
<1>2. \A x \in TxSpace : x.from \in Addr /\ x.nonce \in Nat
  BY KeyTypes, InputAssumption DEF Tx
<1>3. \A a \in Addr : /\ accounts[a].nonce \in Nat
                      /\ accounts'[a].nonce = IF Pays(tx) /\ a = tx.from THEN tx.nonce
                                              ELSE accounts[a].nonce
  BY ApplyFields, U64Assumption DEF TipFrom, TypeInv, TypeOK, Account, Word
<1>4. ASSUME Len(chain) > n, Last(chain).miner # NoMiner
      PROVE  SettledBy(Last(chain).txs \ call.todo)'
  <2> DEFINE S == Last(chain).txs \ call.todo
             R == Last(chain).txs \ (call.todo \ {tx})
  <2>1. S \subseteq TxSpace /\ SettledBy(S) /\ R = S \cup {tx}
    BY <1>4 DEF TipFrom, SoundBlock
  <2> HIDE DEF S, R
  <2>2. ASSUME NEW x \in R, x.from # ZERO_ADDR
        PROVE  /\ x.nonce >= 1 /\ x.nonce <= accounts'[x.from].nonce
               /\ \E y \in R : y.from = x.from /\ y.nonce = accounts'[x.from].nonce
    <3>1. CASE x.from = tx.from
      <4>1. accounts'[tx.from].nonce = tx.nonce /\ tx \in R
        BY <1>1, <1>2, <1>3, <2>1, <2>2, <3>1 DEF Pays
      <4>2. x = tx \/ (x.nonce >= 1 /\ x.nonce <= accounts[x.from].nonce)
        BY <2>1, <2>2 DEF SettledBy
      <4>3. tx.nonce >= 1 /\ x.nonce \in Nat /\ accounts[x.from].nonce \in Nat /\ tx.nonce \in Nat
        BY <1>1, <1>2, <1>3, <2>1, <3>1
      <4>4. x.nonce >= 1 /\ x.nonce <= tx.nonce
        BY <1>1, <3>1, <4>2, <4>3
      <4> QED
        BY <3>1, <4>1, <4>4
    <3>2. CASE x.from # tx.from
      <4>1. x \in S
        BY <2>1, <3>2
      <4>2. accounts'[x.from].nonce = accounts[x.from].nonce
        BY <1>2, <1>3, <2>1, <3>2, <4>1
      <4> QED
        BY <2>1, <2>2, <4>1, <4>2 DEF SettledBy
    <3> QED
      BY <3>1, <3>2
  <2>3. (Last(chain).txs \ call.todo)' = R
    BY <1>1 DEF R
  <2> QED
    BY <2>2, <2>3 DEF SettledBy
<1>5. \A x \in Live' : Admitted(x)
  BY <1>1 DEF TipFrom, Live
<1> QED
  BY <1>1, <1>4, <1>5 DEF TipFrom

LEMMA TipStep ==
    ASSUME NEW n \in Nat, TipFrom(n), Next, \A tx \in call.todo : ~ApplyTxPanic(tx)
    PROVE  TipFrom(n)'
<1>0. TypeInv' /\ NonceLock'
  BY TypeInvStep, NonceLockStep DEF TipFrom
<1>1. TypeOK /\ (Idle => call.todo = {}) /\ accounts \in [Addr -> Account] /\ known \subseteq Addr
  BY DEF TipFrom, TypeInv, TypeOK, NoCall
<1>2. ASSUME NEW a \in Addr, NEW start \in Deposits, AddAccount(a, start)
      PROVE  TipFrom(n)'
  <2>1. \A c \in Addr : accounts'[c].nonce = accounts[c].nonce
    BY <1>1, <1>2 DEF AddAccount, EmptyAccount, TypeOK
  <2>2. chain' = chain /\ call' = call /\ Live' = Live
    BY <1>2 DEF AddAccount, Live
  <2>3. \A x \in Live' : Admitted(x)
    BY <2>2 DEF TipFrom
  <2> QED
    BY <1>0, <2>1, <2>2, <2>3, TipKept
<1>3. ASSUME NEW tx \in TxSpace, SubmitTransaction(tx)
      PROVE  TipFrom(n)'
  <2>1. \A c \in Addr : accounts'[c].nonce = accounts[c].nonce
    BY <1>1, <1>3, MempoolFields
  <2>2. chain' = chain /\ call' = call /\ Live' = Live \cup {tx} /\ Admitted(tx)
    BY <1>3 DEF SubmitTransaction, Live, Admissible, Admitted
  <2>3. \A x \in Live' : Admitted(x)
    BY <2>2 DEF TipFrom
  <2> QED
    BY <1>0, <2>1, <2>2, <2>3, TipKept
<1>4. ASSUME NEW tx \in mempool, DropTransaction(tx)
      PROVE  TipFrom(n)'
  <2>1. tx \in TxSpace
    BY <1>1 DEF TypeOK
  <2>2. \A c \in Addr : accounts'[c].nonce = accounts[c].nonce
    BY <1>1, <1>4, <2>1, MempoolFields
  <2>3. chain' = chain /\ call' = call /\ Live' \subseteq Live
    BY <1>4 DEF DropTransaction, Live
  <2>4. \A x \in Live' : Admitted(x)
    BY <2>3 DEF TipFrom
  <2> QED
    BY <1>0, <2>2, <2>3, <2>4, TipKept
<1>5. ASSUME NEW m \in Miners, MineBlock(m)
      PROVE  TipFrom(n)'
  BY <1>0, <1>5, TipPushed
<1>6. ASSUME NEW tx \in call.todo, ApplyTx(tx)
      PROVE  TipFrom(n)'
  BY <1>0, <1>6, TipApplied
<1>7. CASE CreditMiner \/ CreditMinerPanic
  <2>1. \A c \in Addr : accounts'[c].nonce = accounts[c].nonce
    BY <1>1, <1>7, CreditFields
  <2>2. chain' = chain /\ mempool' = mempool /\ call' = NoCall /\ call.todo = {}
    BY <1>7 DEF CreditMiner, CreditMinerPanic
  <2>3. NoCall.todo = {}
    BY DEF NoCall
  <2>4. call'.todo = call.todo /\ Live' = Live
    BY <2>2, <2>3 DEF Live
  <2>5. \A x \in Live' : Admitted(x)
    BY <2>4 DEF TipFrom
  <2> QED
    BY <1>0, <2>1, <2>2, <2>4, <2>5, TipKept
<1>8. CASE GenesisBlock
  <2>1. chain \in Seq(Block) /\ chain' = Append(chain, Genesis) /\ call' = call /\ Live' = Live
    BY <1>1, <1>8 DEF GenesisBlock, TypeOK, Live
  <2>2. Last(chain') = Genesis
    BY <2>1 DEF Last
  <2>3. Last(chain').miner = NoMiner
    BY <2>2 DEF Genesis
  <2>4. call.todo = {}
    BY <1>1, <1>8 DEF GenesisBlock
  <2> QED
    BY <1>0, <2>1, <2>3, <2>4 DEF TipFrom
<1>9. CASE MineFeeOverflow \/ UNCHANGED vars
  <2>1. chain' = chain /\ call' = call /\ Live' = Live /\ accounts' = accounts
    BY <1>9 DEF MineFeeOverflow, vars, Live
  <2>2. \A x \in Live' : Admitted(x)
    BY <2>1 DEF TipFrom
  <2> QED
    BY <1>0, <2>1, <2>2, TipKept
<1> QED
  BY <1>2, <1>3, <1>4, <1>5, <1>6, <1>7, <1>8, <1>9 DEF Next, UnsavedStep, RejectTransaction

LEMMA TipInit == Init => TipFrom(0)
<1> SUFFICES ASSUME Init PROVE TipFrom(0)
  OBVIOUS
<1>1. Len(chain) = 0 /\ Live = {} /\ call.todo = {}
  BY DEF Init, Live, NoCall
<1> QED
  BY <1>1, TypeInvInit DEF TipFrom, NonceLock

LEMMA TipAlways ==
    ASSUME OverflowChecks = FALSE
    PROVE  Spec => []TipFrom(0)
<1>1. TipFrom(0) /\ [Next]_vars => TipFrom(0)'
  <2> SUFFICES ASSUME TipFrom(0), [Next]_vars PROVE TipFrom(0)'
    OBVIOUS
  <2>1. CASE Next
    BY <2>1, ReleaseNeverUnwinds, TipStep
  <2>2. CASE UNCHANGED vars
    <3>1. TypeInv' /\ NonceLock' /\ Live' = Live
      BY <2>2, TypeInvStep DEF TipFrom, vars, NonceLock, Live
    <3>2. \A x \in Live' : Admitted(x)
      BY <3>1 DEF TipFrom
    <3> QED
      BY <2>2, <3>1, <3>2, TipKept DEF vars
  <2> QED
    BY <2>1, <2>2
<1> QED
  BY <1>1, TipInit, PTL DEF Spec

LEMMA TipVerdicts ==
    ASSUME NEW n \in Nat, TipFrom(n), Idle, Len(chain) > n, Last(chain).miner # NoMiner
    PROVE  /\ TipValid <=> Gapless(Last(chain))
           /\ AcceptedByPeers(Last(chain), Body(Last(chain))) <=> Gapless(Last(chain))
<1>1. call.todo = {}
  BY DEF TipFrom, TypeInv, TypeOK, NoCall
<1>2. SoundBlock(Last(chain)) /\ SettledBy(Last(chain).txs)
  <2>1. Last(chain).txs \ call.todo = Last(chain).txs
    BY <1>1
  <2> QED
    BY <2>1 DEF TipFrom
<1> QED
  BY <1>2, Verdicts DEF TipValid

LEMMA OwnTipVerdicts ==
    ASSUME TipFrom(0)
    PROVE  TipValidIffGapless /\ ValidatorsAgree
<1>1. chain # << >> => Len(chain) > 0
  BY DEF TipFrom, TypeInv, TypeOK
<1> QED
  BY <1>1, TipVerdicts DEF TipValidIffGapless, ValidatorsAgree

\* A node rejects the block that it has mined itself exactly when a transaction was
\* dropped from the middle of a sender's queue: nothing else that callers do, in any
\* order, separates mine_block from validate_block in a release build.
THEOREM TipVerdict == OverflowChecks = FALSE => (Spec => []TipValidIffGapless)
<1> SUFFICES ASSUME OverflowChecks = FALSE PROVE Spec => []TipValidIffGapless
  OBVIOUS
<1> QED
  BY OwnTipVerdicts, TipAlways, PTL

\* validate_block, which reads the accounts, and is_valid_chain_rust, which sees the
\* block alone, agree on every block that a node mines in a release build.
THEOREM ValidatorsAlwaysAgree == OverflowChecks = FALSE => (Spec => []ValidatorsAgree)
<1> SUFFICES ASSUME OverflowChecks = FALSE PROVE Spec => []ValidatorsAgree
  OBVIOUS
<1> QED
  BY OwnTipVerdicts, TipAlways, PTL

=============================================================================
