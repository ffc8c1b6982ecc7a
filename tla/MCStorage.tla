------------------------------ MODULE MCStorage ------------------------------
(***************************************************************************)
(* Constants for the run of Storage: databases that older and newer        *)
(* versions left, with the ledgers that belong to their chains.            *)
(***************************************************************************)
EXTENDS StorageProperties

P(ct, it) == [t \in Token |-> IF t = "ct" THEN ct ELSE it]

T(from, to, nonce, amount, fee, selector) ==
    [from |-> from, to |-> to, nonce |-> nonce, amount |-> amount, fee |-> fee,
     selector |-> selector, signed |-> TRUE]

Reward == P(4, 4)
Cap    == P(20, 20)

Pay    == T(1, 2, 1, P(1, 0), 1, 0)
PayTwo == T(1, 2, 2, P(0, 1), 1, 2)
Back   == T(2, 1, 1, P(1, 0), 0, 0)

StorageTxs      == {Pay, PayTwo, Back}
StorageDeposits == {P(2, 1)}

\* Two blocks mined by account 1, the second with Pay: an old block has no fee
\* total, its coinbase is the amount of its first transaction, and its hash is
\* not that of calculate_hash.
OldBlocks ==
    << [miner |-> 1, coinbase |-> P(3, 3), fees |-> Zero, txs |-> {}],
       [miner |-> 1, coinbase |-> P(3, 2), fees |-> Zero, txs |-> {Pay}] >>
OldHash(i) == IF i = 1 THEN <<ZERO_HASH, OldBlocks[1]>>
              ELSE <<<<ZERO_HASH, OldBlocks[1]>>, OldBlocks[2]>>
OldHeader(i) == [Header(IF i = 1 THEN ZERO_HASH ELSE OldHash(1), 8, OldHash(i), TRUE)
                    EXCEPT !.summed = FALSE]
OldHeaders   == << OldHeader(1), OldHeader(2) >>

\* The ledger of these blocks: the coinbase of the second has the fee of Pay.
OldImage ==
    [known |-> {1, 2},
     accounts |-> [a \in Addr |->
         IF a = 1 THEN [EmptyAccount EXCEPT !.balance = P(4, 5), !.nonce = 1]
                  ELSE [EmptyAccount EXCEPT !.balance = P(1, 0)]],
     emission |-> P(5, 5), block_reward |-> P(2, 2), block_height |-> 2,
     deposited |-> Zero, foreign |-> 2]

FirstDb  == Database(Bare(OldBlocks, OldHeaders), OldImage)
SecondDb == Database(ChainDisk(2, OldBlocks, OldHeaders, OldImage), FreshImage)
FourthDb == Database(ChainDisk(4, OldBlocks, OldHeaders, OldImage), FreshImage)
LostDb   == Database(Undecodable, FreshImage)

StorageDatabases == {EmptyDb, FirstDb, SecondDb, FourthDb, LostDb}

\* The assumptions that StorageProofs makes of old databases
ASSUME OldDatabases == \A d \in StorageDatabases :
    WellFormed(d) /\ Consistent(d) /\ Intact(d) /\ AffordableDb(d) /\ FundedDb(d)
    /\ WrittenByOthers(d)

=============================================================================
