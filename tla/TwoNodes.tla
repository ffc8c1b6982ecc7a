------------------------------ MODULE TwoNodes ------------------------------
(***************************************************************************)
(* Two nodes that keep up with each other by import_chain.                 *)
(*                                                                         *)
(* The program has no network: the caller of a node reads the chain of     *)
(* another and passes it to import_chain, as the reorg test does.  Between *)
(* the two, both nodes go on; the copy may be stale when it is used, it    *)
(* may be used again later, and it may be replaced without being used.     *)
(*                                                                         *)
(* Node B may stop at any point, in the middle of an import as well, and   *)
(* be started again: its database goes with its process, so it starts with *)
(* nothing and has to catch up.                                            *)
(*                                                                         *)
(* The nodes run the same program on variables of their own.  They differ  *)
(* in who mines, and node A may mine longer than node B: chains of equal   *)
(* length are never exchanged, so a fork ends only when one side mines on  *)
(* alone.  Nobody calls add_account with a balance, nor genesis_block.     *)
(***************************************************************************)
EXTENDS FeeRouting

CONSTANTS Addr, ZERO_ADDR, NoMiner, MAX_SUPPLY, INITIAL_REWARD, DECAY_NUM, DECAY_DEN,
          OverflowChecks, TxSpace, Deposits, GenesisHeights,
          Offers,             \* not used here: the offers are the peer's chains
          MinersA, MinersB,   \* the addresses for which each node mines
          HeightA, HeightB,   \* bounds of the model: how far each node mines,
          MaxRestarts         \* and how often node B is started again

VARIABLES
    knownA, accountsA, mempoolA, chainA, emissionA, block_rewardA, block_heightA,
    callA, depositedA, replayA, importedA, completeA,
    knownB, accountsB, mempoolB, chainB, emissionB, block_rewardB, block_heightB,
    callB, depositedB, replayB, importedB, completeB,
    copyA,    \* what the caller of node B last read of chainA
    copyB,    \* what the caller of node A last read of chainB
    restarts  \* how often node B was started again

nodeA == <<knownA, accountsA, mempoolA, chainA, emissionA,
            block_rewardA, block_heightA, callA, depositedA, replayA,
            importedA, completeA>>
nodeB == <<knownB, accountsB, mempoolB, chainB, emissionB,
            block_rewardB, block_heightB, callB, depositedB, replayB,
            importedB, completeB>>

callers == <<copyA, copyB, restarts>>

nodesVars == <<nodeA, nodeB, callers>>

A == INSTANCE ChainImport WITH
         known <- knownA, accounts <- accountsA, mempool <- mempoolA,
         chain <- chainA, emission <- emissionA,
         block_reward <- block_rewardA, block_height <- block_heightA,
         call <- callA, deposited <- depositedA, replay <- replayA,
         imported <- importedA, complete <- completeA, Miners <- MinersA,
         MaxHeight <- HeightA

B == INSTANCE ChainImport WITH
         known <- knownB, accounts <- accountsB, mempool <- mempoolB,
         chain <- chainB, emission <- emissionB,
         block_reward <- block_rewardB, block_height <- block_heightB,
         call <- callB, deposited <- depositedB, replay <- replayB,
         imported <- importedB, complete <- completeB, Miners <- MinersB,
         MaxHeight <- HeightB

ASSUME NodesAssumption == /\ Addr \subseteq Nat /\ NoMiner \notin Addr
                          /\ TxSpace \subseteq A!Tx /\ IsFiniteSet(TxSpace)
                          /\ MinersA \subseteq Addr /\ MinersB \subseteq Addr

-----------------------------------------------------------------------------
(* One node at a time: the steps of a node, and of its caller. *)

\* No method of the node is running, so its chain can be read.
QuietA == A!Idle /\ ~A!Replaying
QuietB == B!Idle /\ ~B!Replaying

StepA == (A!OwnStep \/ A!ReplayStep) /\ UNCHANGED <<nodeB, callers>>
StepB == (B!OwnStep \/ B!ReplayStep) /\ UNCHANGED <<nodeA, callers>>

ReadA == QuietA /\ copyA' = chainA /\ UNCHANGED <<nodeA, nodeB, copyB, restarts>>
ReadB == QuietB /\ copyB' = chainB /\ UNCHANGED <<nodeA, nodeB, copyA, restarts>>

ImportA == (A!StartImport(copyB) \/ A!RejectImport(copyB)) /\ UNCHANGED <<nodeB, callers>>
ImportB == (B!StartImport(copyA) \/ B!RejectImport(copyA)) /\ UNCHANGED <<nodeA, callers>>

\* Node B is started again, with nothing; callers keep their copies.
RestartB ==
    /\ restarts < MaxRestarts
    /\ restarts' = restarts + 1
    /\ B!Restart
    /\ UNCHANGED <<nodeA, copyA, copyB>>

NodesInit ==
    /\ A!ImportInit /\ B!ImportInit
    /\ copyA = << >> /\ copyB = << >>
    /\ restarts = 0

NodesNext == StepA \/ StepB \/ ReadA \/ ReadB \/ ImportA \/ ImportB \/ RestartB

-----------------------------------------------------------------------------
(* Fairness *)

\* A call that was started runs to its end: nothing else can happen to the node.
RunA == ~QuietA /\ StepA
RunB == ~QuietB /\ StepB

\* The operator of node A mines on.
MineA == /\ QuietA
         /\ \E m \in MinersA : A!MineBlock(m)
         /\ UNCHANGED <<replayA, importedA, completeA, nodeB, callers>>

\* The caller of node B keeps reading node A's chain and offering it to B.
FollowA == B!StartImport(copyA) /\ UNCHANGED <<nodeA, callers>>

NodesFairness ==
    /\ WF_nodesVars(RunA) /\ WF_nodesVars(RunB)
    /\ WF_nodesVars(MineA)
    /\ WF_nodesVars(ReadA) /\ WF_nodesVars(FollowA)

NodesSpec == NodesInit /\ [][NodesNext]_nodesVars /\ NodesFairness

-----------------------------------------------------------------------------
(* Properties *)

Spendable(accounts) ==
    [a \in Addr |-> [balance |-> accounts[a].balance, nonce |-> accounts[a].nonce]]

\* The ledger is a function of the chain: two nodes with the same chain agree on
\* who has an account, on every balance, nonce and reward, however each of them
\* came to it: by mining, by importing, or by mining on an imported chain with
\* transactions left over from the chain it gave up.
LedgersAgree ==
    (QuietA /\ QuietB /\ chainA = chainB) =>
        /\ knownA = knownB
        /\ Spendable(accountsA) = Spendable(accountsB)
        /\ block_rewardA = block_rewardB
        /\ block_heightA = block_heightB

\* A sum does not fit its type: an Err or a panic that leaves what the method has done.
OverflowsA ==
    \/ A!MineFeeOverflow
    \/ \E tx \in callA.todo : A!ApplyTxPanic(tx)
    \/ A!CreditMinerPanic
    \/ \E tx \in replayA.todo : A!ReplayDebitPanic(tx) \/ A!ReplayCreditPanic(tx)
    \/ A!ReplayMinerPanic \/ A!ReplayEmissionPanic

OverflowsB ==
    \/ B!MineFeeOverflow
    \/ \E tx \in callB.todo : B!ApplyTxPanic(tx)
    \/ B!CreditMinerPanic
    \/ \E tx \in replayB.todo : B!ReplayDebitPanic(tx) \/ B!ReplayCreditPanic(tx)
    \/ B!ReplayMinerPanic \/ B!ReplayEmissionPanic

\* A method of a node ends in the middle.
FailsA == OverflowsA \/ A!ReplayMismatch
FailsB == OverflowsB \/ B!ReplayMismatch

CallFails == (FailsA /\ nodeA' # nodeA) \/ (FailsB /\ nodeB' # nodeB)

\* Where the wallet is the miner's on both nodes, no call ends in the middle: what
\* one node mined, also with payments left over from a chain it gave up, the other
\* replays to the end.
CallsComplete == [][~CallFails]_nodesVars

\* The fork ends: whatever the nodes mined and imported before, in the end node
\* B has the chain of node A, which mined on longest, and keeps it, provided that
\* is_valid_chain_rust accepts that chain.  It does not when drop_transaction left
\* a gap in a sender's queue and a block was mined over it: then B never follows.
ForkResolved == <>[]A!ValidChain(chainA) => <>[](chainB = chainA)

=============================================================================
