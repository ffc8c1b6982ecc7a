---------------------------- MODULE ChainImport ----------------------------
(***************************************************************************)
(* import_chain of src/lib.rs: a node replaces its chain by a longer one   *)
(* that another node gave it, and rebuilds accounts and counters from it.  *)
(*                                                                         *)
(* The call clears the node's state first and then replays block by block; *)
(* an Err or a panic in the middle leaves what has been replayed so far.   *)
(* It is therefore a sequence of steps, like mine_block: StartImport, then *)
(* one ReplayTx per transaction and one ReplayBlock per block.  While      *)
(* replay.blocks is not empty no other method can run.  The mempool and    *)
(* the database are not touched.                                           *)
(***************************************************************************)
EXTENDS BlockValidation

CONSTANT Offers   \* the chains that callers pass to import_chain: what other
                  \* nodes mined, so a set of transactions gives its vector

ASSUME OffersAssumption == Offers \subseteq Seq(Block)

VARIABLES
    replay,       \* the rest of the chain, and of its first block, to replay
    imported,     \* history: how many blocks of chain came by import_chain
    complete      \* history: whether the last replay ended in Ok

importVars == <<vars, replay, imported, complete>>

NoReplay == [blocks |-> << >>, todo |-> {}, fees |-> Zero]

Replaying == replay.blocks # << >>

\* replay at the beginning of the first of blocks
Replay(blocks) ==
    IF blocks = << >> THEN NoReplay
    ELSE [blocks |-> blocks, todo |-> Head(blocks).txs, fees |-> Zero]

ImportInit == Init /\ replay = NoReplay /\ imported = 0 /\ complete = FALSE

-----------------------------------------------------------------------------
(* Up to the first block *)

ValidChain(new) == \A i \in DOMAIN new : AcceptedByPeers(new[i], Body(new[i]))

\* Mutant: the new chain has to be longer by two.
ImportableLongerByTwo(new) == Len(new) > Len(chain) + 1 /\ ValidChain(new)

Importable(new) == Len(new) > Len(chain) /\ ValidChain(new)

\* Mutants: the accounts stay; they stay with nothing but their reservations;
\* the reward of the old chain stays; so does its emission.
StartImportKeepsAccounts(new) ==
    /\ Idle /\ ~Replaying
    /\ Importable(new)
    /\ emission' = Zero /\ block_reward' = INITIAL_REWARD
    /\ chain' = << >> /\ block_height' = 0
    /\ replay' = Replay(new) /\ imported' = 0 /\ complete' = FALSE
    /\ deposited' = Zero
    /\ UNCHANGED <<known, accounts, mempool, call>>
StartImportKeepsReservations(new) ==
    /\ Idle /\ ~Replaying
    /\ Importable(new)
    /\ accounts' = [a \in Addr |-> [accounts[a] EXCEPT !.balance = Zero, !.nonce = 0]]
    /\ emission' = Zero /\ block_reward' = INITIAL_REWARD
    /\ chain' = << >> /\ block_height' = 0
    /\ replay' = Replay(new) /\ imported' = 0 /\ complete' = FALSE
    /\ deposited' = Zero
    /\ UNCHANGED <<known, mempool, call>>
StartImportKeepsReward(new) ==
    /\ Idle /\ ~Replaying
    /\ Importable(new)
    /\ known' = {} /\ accounts' = [a \in Addr |-> EmptyAccount]
    /\ emission' = Zero
    /\ chain' = << >> /\ block_height' = 0
    /\ replay' = Replay(new) /\ imported' = 0 /\ complete' = FALSE
    /\ deposited' = Zero
    /\ UNCHANGED <<block_reward, mempool, call>>

StartImportKeepsEmission(new) ==
    /\ Idle /\ ~Replaying
    /\ Importable(new)
    /\ known' = {} /\ accounts' = [a \in Addr |-> EmptyAccount]
    /\ block_reward' = INITIAL_REWARD
    /\ chain' = << >> /\ block_height' = 0
    /\ replay' = Replay(new) /\ imported' = 0 /\ complete' = FALSE
    /\ deposited' = Zero
    /\ UNCHANGED <<emission, mempool, call>>

\* With the accounts go the deposits that add_account made.
StartImport(new) ==
    /\ Idle /\ ~Replaying
    /\ Importable(new)
    /\ known' = {} /\ accounts' = [a \in Addr |-> EmptyAccount]
    /\ emission' = Zero /\ block_reward' = INITIAL_REWARD
    /\ chain' = << >> /\ block_height' = 0
    /\ replay' = Replay(new) /\ imported' = 0 /\ complete' = FALSE
    /\ deposited' = Zero
    /\ UNCHANGED <<mempool, call>>

\* Err("Incoming chain not longer") and Err("Invalid incoming chain")
RejectImport(new) ==
    /\ Idle /\ ~Replaying
    /\ ~Importable(new)
    /\ UNCHANGED importVars

-----------------------------------------------------------------------------
(* The transactions of a block *)

FirstTx(tx) == tx \in replay.todo /\ \A q \in replay.todo \ {tx} : Before(tx, q)

\* Mutant: the nonce is not advanced.
RedebitKeepsNonce(acct, tx) == [acct EXCEPT !.balance = Minus(@, Debit(tx))]

Redebit(acct, tx) ==
    [acct EXCEPT !.balance = Minus(@, Debit(tx)), !.nonce = tx.nonce]

AfterRedebit(tx) ==
    IF Pays(tx) THEN [accounts EXCEPT ![tx.from] = Redebit(@, tx)] ELSE accounts

DebitFits(tx) == Pays(tx) => Adds(Cost(tx))

ReceiverFits(tx) == Adds(Plus(AfterRedebit(tx)[tx.to].balance, tx.amount))

\* A sender without an account pays nothing, and its fee is not counted either.
ReplayTx(tx) ==
    /\ FirstTx(tx)
    /\ DebitFits(tx) /\ ReceiverFits(tx)
    /\ known' = known \cup {tx.to}
    /\ accounts' = [AfterRedebit(tx) EXCEPT ![tx.to].balance = PlusMod(@, tx.amount)]
    /\ replay' = [replay EXCEPT
                      !.todo = @ \ {tx},
                      !.fees = IF Pays(tx) THEN Plus(@, FeeSplit(tx.selector, tx.fee)) ELSE @]
    /\ UNCHANGED <<mempool, chain, emission, block_reward, block_height, call,
                   deposited, imported, complete>>

\* What the call leaves when it ends in the middle.
Abandon == replay' = NoReplay /\ UNCHANGED <<imported, complete>>

\* `amount + fee` overflows in a checked build; the consumer debit may be done.
ReplayDebitPanic(tx) ==
    /\ FirstTx(tx)
    /\ ~DebitFits(tx)
    /\ accounts' = [accounts EXCEPT ![tx.from].balance =
                       [t \in Token |-> IF t = "ct" /\ Cost(tx)[t] < U64
                                        THEN SatSub(@[t], Cost(tx)[t]) ELSE @[t]]]
    /\ Abandon
    /\ UNCHANGED <<known, mempool, chain, emission, block_reward, block_height,
                   call, deposited>>

\* `+=` on the receiver overflows in a checked build.
ReplayCreditPanic(tx) ==
    /\ FirstTx(tx)
    /\ DebitFits(tx) /\ ~ReceiverFits(tx)
    /\ known' = known \cup {tx.to}
    /\ accounts' = [AfterRedebit(tx) EXCEPT ![tx.to].balance = Partial(@, tx.amount)]
    /\ Abandon
    /\ UNCHANGED <<mempool, chain, emission, block_reward, block_height, call, deposited>>

-----------------------------------------------------------------------------
(* The end of a block *)

Current == Head(replay.blocks)

BlockReplayed == Replaying /\ replay.todo = {}

\* fee_checksum, against the fees that the replay could charge
FeesMatch == replay.fees = Current.fees

\* Mutant: the coinbase is added without checked_add.
CoinbaseUnchecked == TRUE

CoinbaseAccepted ==
    \A t \in Token : accounts[Current.miner].balance[t] + Current.coinbase[t] < U64

EmissionFits == Adds(Plus(emission, Current.coinbase))

\* Mutant: the fee totals run on into the next block.
RestRunningOn == IF Len(replay.blocks) = 1 THEN NoReplay
                 ELSE [Replay(Tail(replay.blocks)) EXCEPT !.fees = replay.fees]

Rest == Replay(Tail(replay.blocks))

Emitted == Current.coinbase

ReplayBlock ==
    /\ BlockReplayed
    /\ FeesMatch /\ CoinbaseAccepted /\ EmissionFits
    /\ known' = known \cup {Current.miner}
    /\ accounts' = [accounts EXCEPT ![Current.miner].balance = Plus(@, Current.coinbase)]
    /\ block_reward' = Decay(block_reward)
    /\ emission' = PlusMod(emission, Emitted)
    /\ chain' = Append(chain, Current)
    /\ block_height' = block_height + 1
    /\ replay' = Rest
    /\ imported' = imported + 1
    /\ complete' = (Len(replay.blocks) = 1)
    /\ UNCHANGED <<mempool, call, deposited>>

\* Err("Fee checksum mismatch"): the block is dropped, its transactions are not.
ReplayMismatch ==
    /\ BlockReplayed
    /\ ~FeesMatch
    /\ Abandon
    /\ UNCHANGED vars

\* expect("miner consumer overflow") or expect("miner industrial overflow")
ReplayMinerPanic ==
    /\ BlockReplayed
    /\ FeesMatch /\ ~CoinbaseAccepted
    /\ known' = known \cup {Current.miner}
    /\ accounts' = [accounts EXCEPT ![Current.miner].balance = Partial(@, Current.coinbase)]
    /\ Abandon
    /\ UNCHANGED <<mempool, chain, emission, block_reward, block_height, call, deposited>>

\* The unchecked `+=` on emission overflows in a checked build.
ReplayEmissionPanic ==
    /\ BlockReplayed
    /\ FeesMatch /\ CoinbaseAccepted /\ ~EmissionFits
    /\ known' = known \cup {Current.miner}
    /\ accounts' = [accounts EXCEPT ![Current.miner].balance = Plus(@, Current.coinbase)]
    /\ block_reward' = Decay(block_reward)
    /\ emission' = Partial(emission, Current.coinbase)
    /\ Abandon
    /\ UNCHANGED <<mempool, chain, block_height, call, deposited>>

-----------------------------------------------------------------------------

ReplayStep ==
    \/ \E tx \in replay.todo : ReplayTx(tx)
    \/ \E tx \in replay.todo : ReplayDebitPanic(tx)
    \/ \E tx \in replay.todo : ReplayCreditPanic(tx)
    \/ ReplayBlock
    \/ ReplayMismatch
    \/ ReplayMinerPanic
    \/ ReplayEmissionPanic

\* The process ends, in the middle of whatever it does, and a new one opens the
\* database, which went with it.  Not a step of ImportSpec: TwoNodes takes it.
Restart ==
    /\ known' = {}
    /\ accounts' = [a \in Addr |-> EmptyAccount]
    /\ mempool' = {}
    /\ chain' = << >>
    /\ emission' = Zero
    /\ block_reward' = INITIAL_REWARD
    /\ block_height' = 0
    /\ call' = NoCall
    /\ deposited' = Zero
    /\ replay' = NoReplay
    /\ imported' = 0
    /\ complete' = FALSE

\* A call other than import_chain.
OwnStep == ~Replaying /\ Next /\ UNCHANGED <<replay, imported, complete>>

ImportNext ==
    \/ OwnStep
    \/ \E new \in Offers : StartImport(new)
    \/ \E new \in Offers : RejectImport(new)
    \/ ReplayStep

ImportSpec == ImportInit /\ [][ImportNext]_importVars

=============================================================================
