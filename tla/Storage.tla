------------------------------- MODULE Storage -------------------------------
(***************************************************************************)
(* A node and its database: open, new, persist_chain, the migration of old *)
(* schemas, and a process that may stop at any point and be started again. *)
(*                                                                         *)
(* genesis_block, the end of mine_block and a migrating open write to the  *)
(* database, and so does whoever calls persist_chain, which is public.     *)
(* The database of src/simple_db.rs is a map that goes with its handle:    *)
(* this is Durable = FALSE, where a process always finds it empty.  open   *)
(* and the migration are written for the database on disk that the map     *)
(* stands in for: with Durable = TRUE a crash may keep the contents or     *)
(* not, and a history may start from what an earlier process left.         *)
(*                                                                         *)
(* Headers are represented here, since open rewrites them.  A hash is the  *)
(* tuple of what calculate_hash reads: BLAKE3 is taken as injective.       *)
(***************************************************************************)
EXTENDS Ledger

CONSTANTS
    Durable,             \* may the database survive its process?
    Databases,           \* what earlier processes and versions may have left
    Difficulties,        \* values for with_difficulty and the difficulty setter
    DEFAULT_DIFFICULTY   \* what open and new set, whatever the chain has

ASSUME StorageAssumption == Durable \in BOOLEAN /\ DEFAULT_DIFFICULTY \in Difficulties

VARIABLES
    up,            \* is there a process?
    headers,       \* the header fields of the blocks of chain
    difficulty,
    db,            \* the database
    foreign        \* history: how many blocks of chain another version wrote

storageVars == <<vars, up, headers, difficulty, db, foreign>>

-----------------------------------------------------------------------------
(* Headers *)

ZERO_HASH    == << >>              \* "0".repeat(64)
GENESIS_HASH == <<"genesis">>

CalcHash(prev, d, b) == <<prev, d, b>>

\* work: the hash has as many leading zero bits as the header's difficulty asks;
\* summed: fee_checksum is not the empty string that old versions left
Header(prev, d, hash, work) ==
    [previous_hash |-> prev, difficulty |-> d, hash |-> hash, work |-> work, summed |-> TRUE]

\* Mutant: the second block is taken for the first.
PrevHashOffByOne == IF Len(headers) <= 1 THEN ZERO_HASH ELSE Last(headers).hash

PrevHash == IF headers = << >> THEN ZERO_HASH ELSE Last(headers).hash

Mined(b) == Header(PrevHash, difficulty, CalcHash(PrevHash, difficulty, b), TRUE)

-----------------------------------------------------------------------------
(* What a database holds: a value under DB_CHAIN, and under DB_ACCOUNTS and *)
(* DB_EMISSION what versions before ChainDisk wrote.                        *)

\* Mutant: the nonces are not part of what is saved.
ImageWithoutNonces ==
    [known |-> known, accounts |-> [a \in Addr |-> [accounts[a] EXCEPT !.nonce = 0]],
     emission |-> emission, block_reward |-> block_reward, block_height |-> block_height,
     deposited |-> deposited, foreign |-> foreign]

\* The accounts and counters; with them go the history variables.
Image ==
    [known |-> known, accounts |-> accounts, emission |-> emission,
     block_reward |-> block_reward, block_height |-> block_height,
     deposited |-> deposited, foreign |-> foreign]

FreshImage ==
    [known |-> {}, accounts |-> [a \in Addr |-> EmptyAccount], emission |-> Zero,
     block_reward |-> INITIAL_REWARD, block_height |-> 0, deposited |-> Zero, foreign |-> 0]

ChainDisk(version, blocks, hs, image) ==
    [format |-> "ChainDisk", schema_version |-> version, blocks |-> blocks,
     headers |-> hs, image |-> image]

\* Before ChainDisk, and still in genesis_block: a bare Vec<Block>.
Bare(blocks, hs) == [format |-> "Vec<Block>", blocks |-> blocks, headers |-> hs]

\* Bytes that decode as neither.
Undecodable == [format |-> "undecodable"]

\* legacy: DB_ACCOUNTS and DB_EMISSION; absent keys read as FreshImage does
Database(value, legacy) == [chain |-> value, legacy |-> legacy]

EmptyDb == Database([format |-> "none"], FreshImage)

-----------------------------------------------------------------------------
(* Reading *)

\* The chain, accounts and counters, as they are stored
Stored(d) ==
    CASE d.chain.format = "ChainDisk" ->
             [blocks |-> d.chain.blocks, headers |-> d.chain.headers, image |-> d.chain.image]
      [] d.chain.format = "Vec<Block>" ->
             [blocks |-> d.chain.blocks, headers |-> d.chain.headers, image |-> d.legacy]
      [] d.chain.format = "undecodable" ->
             [blocks |-> << >>, headers |-> << >>, image |-> d.legacy]
      [] OTHER ->
             [blocks |-> << >>, headers |-> << >>, image |-> FreshImage]

TooNew(d) == d.chain.format = "ChainDisk" /\ d.chain.schema_version > 3

Outdated(d) ==
    \/ d.chain.format \in {"Vec<Block>", "undecodable"}
    \/ d.chain.format = "ChainDisk" /\ d.chain.schema_version < 3

\* fee_checksum from the transactions: fees that decompose refuses are skipped,
\* and u64::try_from(..).unwrap_or(0).  The coinbase fields of the header are set to
\* the amounts of the first transaction, which b.coinbase is already.
Recounted(b) ==
    LET total == FeeTotal({tx \in b.txs : FeeOk(tx.selector, tx.fee)})
    IN  [b EXCEPT !.fees = [t \in Token |-> IF total[t] \in Word THEN total[t] ELSE 0]]

\* The migration recomputes every hash from the stored previous_hash.  A changed
\* hash has the work only if it is lucky.
Rehashed(h, b, isLucky) ==
    LET hash == CalcHash(h.previous_hash, h.difficulty, b)
    IN  Header(h.previous_hash, h.difficulty, hash, IF hash = h.hash THEN h.work ELSE isLucky)

Migrate(s, lucky) ==
    [blocks  |-> [i \in DOMAIN s.blocks |-> Recounted(s.blocks[i])],
     headers |-> [i \in DOMAIN s.blocks |->
                     Rehashed(s.headers[i], Recounted(s.blocks[i]), i \in lucky)],
     image   |-> s.image]

\* What open reads, and what it leaves in the database.
Opened(d, lucky) == IF Outdated(d) THEN Migrate(Stored(d), lucky) ELSE Stored(d)

\* open and new compute an empty fee_checksum, in memory and not in the hash.
Filled(s) ==
    [blocks  |-> [i \in DOMAIN s.blocks |-> IF s.headers[i].summed THEN s.blocks[i]
                                            ELSE Recounted(s.blocks[i])],
     headers |-> [i \in DOMAIN s.headers |-> [s.headers[i] EXCEPT !.summed = TRUE]],
     image   |-> s.image]

\* Mutant: the migrated chain is written back without the accounts.
ChainOnlyWritten(d, lucky) ==
    IF Outdated(d)
    THEN Database(ChainDisk(3, Opened(d, lucky).blocks, Opened(d, lucky).headers,
                            [FreshImage EXCEPT !.foreign = Opened(d, lucky).image.foreign]),
                  FreshImage)
    ELSE d

Rewritten(d, lucky) ==
    IF Outdated(d)
    THEN Database(ChainDisk(3, Opened(d, lucky).blocks, Opened(d, lucky).headers,
                            Opened(d, lucky).image),
                  FreshImage)
    ELSE d

-----------------------------------------------------------------------------
(* Starting and stopping a process *)

\* The object that open and new build from what they read.
Load(s) ==
    /\ chain' = s.blocks
    /\ headers' = s.headers
    /\ known' = s.image.known
    /\ accounts' = s.image.accounts
    /\ emission' = s.image.emission
    /\ block_reward' = s.image.block_reward
    /\ block_height' = s.image.block_height
    /\ deposited' = s.image.deposited
    /\ foreign' = s.image.foreign
    /\ mempool' = {}
    /\ call' = NoCall

\* open, and with_difficulty
Open(d) ==
    /\ ~up
    /\ ~TooNew(db)
    /\ up' = TRUE
    /\ difficulty' = d
    /\ \E lucky \in SUBSET DOMAIN Stored(db).blocks :
           /\ Load(Filled(Opened(db, lucky)))
           /\ db' = Rewritten(db, lucky)

\* Err("DB schema too new")
OpenTooNew ==
    /\ ~up
    /\ TooNew(db)
    /\ UNCHANGED storageVars

\* Blockchain::new neither looks at the version nor migrates.
New ==
    /\ ~up
    /\ up' = TRUE
    /\ difficulty' = DEFAULT_DIFFICULTY
    /\ Load(Filled(Stored(db)))
    /\ db' = db

\* The process ends, in the middle of a call or between two.
Crash ==
    /\ up
    /\ up' = FALSE
    /\ Load(Stored(EmptyDb))
    /\ difficulty' = DEFAULT_DIFFICULTY
    /\ \/ db' = EmptyDb
       \/ Durable /\ db' = db

-----------------------------------------------------------------------------
(* Calls *)

SetDifficulty(d) ==
    /\ up /\ Idle
    /\ difficulty' = d
    /\ UNCHANGED <<vars, up, headers, db, foreign>>

\* Mutants: the call returns without saving; it saves before the coinbase.
NotSaved == db' = db
SavedBeforeCoinbase ==
    db' = Database(ChainDisk(3, chain, headers, Image), FreshImage)

persist_chain ==
    db' = Database(ChainDisk(3, chain', headers', Image'), FreshImage)

\* mine_block pushes a block with its header.
HeaderFollows ==
    headers' = IF Len(chain') > Len(chain) THEN Append(headers, Mined(Last(chain')))
               ELSE headers

Unsaved ==
    /\ up
    /\ UnsavedStep
    /\ HeaderFollows
    /\ UNCHANGED <<up, difficulty, db, foreign>>

\* The end of mine_block
FinishMining ==
    /\ up
    /\ CreditMiner
    /\ UNCHANGED <<up, headers, difficulty, foreign>>
    /\ persist_chain

\* A caller saves between two calls, with whatever is reserved at that moment.
Persist ==
    /\ up /\ Idle
    /\ UNCHANGED <<vars, up, headers, difficulty, foreign>>
    /\ persist_chain

\* genesis_block writes the bare chain over whatever is there.
SaveGenesis ==
    /\ up
    /\ GenesisBlock
    /\ headers' = Append(headers, Header(ZERO_HASH, difficulty, GENESIS_HASH, FALSE))
    /\ db' = [db EXCEPT !.chain = Bare(chain', headers')]
    /\ UNCHANGED <<up, difficulty, foreign>>

-----------------------------------------------------------------------------

StorageInit ==
    /\ Init
    /\ up = FALSE
    /\ headers = << >>
    /\ difficulty = DEFAULT_DIFFICULTY
    /\ db \in Databases
    /\ foreign = 0

StorageNext ==
    \/ \E d \in Difficulties : Open(d)
    \/ OpenTooNew
    \/ New
    \/ Crash
    \/ \E d \in Difficulties : SetDifficulty(d)
    \/ Unsaved
    \/ FinishMining
    \/ Persist
    \/ SaveGenesis

StorageSpec == StorageInit /\ [][StorageNext]_storageVars

=============================================================================
