----------------------------- MODULE FeeRouting -----------------------------
(***************************************************************************)
(* Amounts and fee routing of the dual-token ledger.                       *)
(*                                                                         *)
(* Every amount of the program is a u64 and the two tokens are a pair of   *)
(* u64 fields (`consumer`, `industrial`).  Here a pair is a function on    *)
(* Token, and a u64 is a member of Word == 0 .. U64-1: the modulus is a    *)
(* constant so that TLC can reach the edges of the type with small numbers *)
(* while the theorems hold of every even modulus, 2^64 included.           *)
(***************************************************************************)
EXTENDS Integers, FiniteSetsExt, SequencesExt

CONSTANT U64    \* the number of values of a u64

\* MAX_FEE is half the range of the type: the modulus is even and not trivial.
ASSUME U64Assumption == U64 \in Nat /\ U64 >= 4 /\ U64 % 2 = 0

Token == {"ct", "it"}          \* consumer and industrial
Word  == 0 .. (U64 - 1)
Pair  == [Token -> Word]       \* one amount of each token

Zero == [t \in Token |-> 0]

\* TokenAmount::saturating_sub and u64::saturating_sub
SatSub(x, y) == IF x >= y THEN x - y ELSE 0

-----------------------------------------------------------------------------
(* fee::decompose *)

MAX_FEE == (U64 \div 2) - 1

\* the pairs (selector, fee) that decompose to Ok(..)
FeeOk(selector, fee) == fee <= MAX_FEE /\ selector \in 0 .. 2

\* the (fee_ct, fee_it) of an Ok(..); selector 2 rounds the consumer half up
FeeSplit(selector, fee) ==
    [t \in Token |->
        CASE selector = 0 -> IF t = "ct" THEN fee ELSE 0
          [] selector = 1 -> IF t = "it" THEN fee ELSE 0
          [] OTHER        -> IF t = "ct" THEN (fee + 1) \div 2 ELSE fee \div 2]

=============================================================================
