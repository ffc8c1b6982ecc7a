-------------------------- MODULE StorageProperties --------------------------
(***************************************************************************)
(* What must survive a crash and a restart.  The properties of             *)
(* LedgerProperties that speak of one process are checked across restarts  *)
(* as well: SupplyConserved, CommittedOnce and PendingWithinBalance; of    *)
(* the last, a restart may find reservations without their transactions.   *)
(***************************************************************************)
EXTENDS Storage, LedgerProperties

\* Between two calls the database has every block of the chain: a block whose
\* mine_block has returned is lost only with the database, and so is the genesis.
MinedBlocksSaved == (up /\ Idle) => Filled(Stored(db)).blocks = chain

Linked(i) ==
    headers[i].previous_hash = IF i = 1 THEN ZERO_HASH ELSE headers[i - 1].hash

\* The migration recomputes hashes and leaves previous_hash, so it may cut a chain
\* between two old blocks; never between an old block and one mined on top of
\* it, nor in a chain that was written by this version.
LinksBreakOnlyInOldChain ==
    \A i \in DOMAIN headers : i > foreign => Linked(i)

\* The header tests of validate_block
HeaderValid(i) ==
    /\ Linked(i)
    /\ headers[i].difficulty = difficulty
    /\ headers[i].hash = CalcHash(headers[i].previous_hash, headers[i].difficulty, chain[i])
    /\ headers[i].work

\* A restarted node still accepts the tip it mined before the crash, since the
\* saved nonces go with the saved chain, unless it is opened with a difficulty
\* other than that of the tip: open does not read it from the chain.
TipStandsAfterRestart ==
    (up /\ Idle /\ Len(chain) > foreign /\ Last(chain).miner # NoMiner /\ Gapless(Last(chain)))
        => ((HeaderValid(Len(chain)) /\ TipValid) <=> Last(headers).difficulty = difficulty)

-----------------------------------------------------------------------------
(* What an earlier process may have left: the assumption of the theorems    *)
(* about restarts, and an invariant of the databases of this version.       *)

ImageOk(im) ==
    /\ im.known \subseteq Addr
    /\ im.accounts \in [Addr -> Account]
    /\ \A a \in Addr \ im.known : im.accounts[a] = EmptyAccount
    /\ im.emission \in Pair /\ im.block_reward \in Pair
    /\ \A t \in Token : /\ im.emission[t] <= MAX_SUPPLY[t]
                        /\ im.block_reward[t] <= INITIAL_REWARD[t]
    /\ im.block_height \in Nat /\ im.deposited \in [Token -> Nat]

\* The saved nonces are those of the saved chain, which repeats none.
NoncesCover(s) ==
    \A i \in DOMAIN s.blocks : \A x \in s.blocks[i].txs :
        x.from # ZERO_ADDR => x.nonce <= s.image.accounts[x.from].nonce

RepeatsNone(s) ==
    \A i, j \in DOMAIN s.blocks : \A x \in s.blocks[i].txs, y \in s.blocks[j].txs :
        (x.from = y.from /\ x.from # ZERO_ADDR) =>
            /\ i < j => x.nonce < y.nonce
            /\ (i = j /\ x # y) => x.nonce # y.nonce

\* The headers belong to the blocks and are linked beyond the first n.
IsHeader(h) == h = [previous_hash |-> h.previous_hash, difficulty |-> h.difficulty,
                    hash |-> h.hash, work |-> h.work, summed |-> h.summed]

HeadersLinked(blocks, hs, n) ==
    /\ hs = [i \in 1 .. Len(blocks) |-> hs[i]]
    /\ \A i \in 1 .. Len(blocks) : IsHeader(hs[i])
    /\ \A i \in 1 .. Len(blocks) : i > n =>
           hs[i].previous_hash = IF i = 1 THEN ZERO_HASH ELSE hs[i - 1].hash

\* One header for each block; a chain that open will migrate is a single block,
\* or was written by another version.
Intact(d) ==
    LET s == Stored(d) IN
    /\ s.image.foreign \in Nat /\ d.legacy.foreign \in Nat
    /\ HeadersLinked(s.blocks, s.headers, s.image.foreign)
    /\ Outdated(d) => (Len(s.blocks) <= 1 \/ Len(s.blocks) <= s.image.foreign)

WellFormed(d) ==
    /\ Stored(d).blocks \in Seq(Block)
    /\ ImageOk(Stored(d).image) /\ ImageOk(d.legacy)

Consistent(d) == NoncesCover(Stored(d)) /\ RepeatsNone(Stored(d))

\* The balances of the image are what was deposited and what was emitted.
FundedImage(im) ==
    \A t \in Token : SumFunction([a \in Addr |-> im.accounts[a].balance[t]])
                      = im.deposited[t] + im.emission[t]

\* No account of the image reserves more than it holds.
AffordableImage(im) ==
    \A a \in Addr, t \in Token : im.accounts[a].pending[t] <= im.accounts[a].balance[t]

\* Both ledgers a database may hold, the chain's own and the one under the older
\* keys, are affordable, and funded.
AffordableDb(d) == AffordableImage(Stored(d).image) /\ AffordableImage(d.legacy)
FundedDb(d)     == FundedImage(Stored(d).image) /\ FundedImage(d.legacy)

\* Other versions wrote every block: this one has not mined on top of it yet.
WrittenByOthers(d) == Len(Stored(d).blocks) <= Stored(d).image.foreign

=============================================================================
