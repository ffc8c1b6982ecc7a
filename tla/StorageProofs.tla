---------------------------- MODULE StorageProofs ----------------------------
(***************************************************************************)
(* Theorems about Storage: what holds across crashes, restarts and the     *)
(* migration, for every value of the constants and every database that is  *)
(* well formed.  The steps of a running node are those of Ledger, and the  *)
(* lemmas of LedgerProofs carry its invariants through them.               *)
(***************************************************************************)
EXTENDS StorageProperties, MoneyProofs, ValidationProofs

-----------------------------------------------------------------------------
(* Databases *)

\* What is read of a ChainDisk, of a bare chain, and of an empty database.
LEMMA StoredForms ==
    ASSUME NEW version, NEW blocks, NEW hs, NEW image, NEW legacy
    PROVE  /\ Stored(Database(ChainDisk(version, blocks, hs, image), legacy))
                  = [blocks |-> blocks, headers |-> hs, image |-> image]
           /\ Stored(Database(Bare(blocks, hs), legacy))
                  = [blocks |-> blocks, headers |-> hs, image |-> legacy]
           /\ Database(ChainDisk(version, blocks, hs, image), legacy).legacy = legacy
           /\ Stored(EmptyDb) = [blocks |-> << >>, headers |-> << >>, image |-> FreshImage]
           /\ EmptyDb.legacy = FreshImage
BY DEF Stored, Database, ChainDisk, Bare, EmptyDb

LEMMA FreshImageOk == ImageOk(FreshImage)
<1>1. FreshImage.accounts \in [Addr -> Account]
  BY PairTypes DEF FreshImage
<1>2. /\ Zero \in Pair /\ INITIAL_REWARD \in Pair
      /\ \A t \in Token : 0 <= MAX_SUPPLY[t] /\ INITIAL_REWARD[t] <= INITIAL_REWARD[t]
  BY PairTypes, SupplyAssumption DEF Pair, Word
<1>3. Zero \in [Token -> Nat]
  BY DEF Zero
<1> QED
  BY <1>1, <1>2, <1>3 DEF FreshImage, ImageOk, Zero

\* Only the fee totals of a block are counted again.
LEMMA RecountedBlock ==
    ASSUME NEW b \in Block
    PROVE  Recounted(b) \in Block /\ Recounted(b).txs = b.txs
<1> DEFINE total == FeeTotal({tx \in b.txs : FeeOk(tx.selector, tx.fee)})
           fees  == [t \in Token |-> IF total[t] \in Word THEN total[t] ELSE 0]
<1>1. 0 \in Word
  BY U64Assumption DEF Word
<1>2. fees \in Pair
  BY <1>1 DEF Pair
<1>3. Recounted(b) = [b EXCEPT !.fees = fees]
  BY DEF Recounted
<1>. HIDE DEF fees
<1> QED
  BY <1>2, <1>3 DEF Block

\* Neither the migration nor the filling of checksums touches what the accounts
\* depend on.
SameLedger(s, u) ==
    /\ s.image = u.image
    /\ DOMAIN s.blocks = DOMAIN u.blocks
    /\ s.blocks \in Seq(Block) => u.blocks \in Seq(Block)
    /\ s.blocks \in Seq(Block) => \A i \in DOMAIN s.blocks : s.blocks[i].txs = u.blocks[i].txs

LEMMA MigrateSameLedger ==
    ASSUME NEW s, NEW lucky
    PROVE  SameLedger(s, Migrate(s, lucky)) /\ SameLedger(s, Filled(s))
<1>1. ASSUME s.blocks \in Seq(Block), NEW i \in DOMAIN s.blocks
      PROVE  /\ Recounted(s.blocks[i]) \in Block
             /\ Recounted(s.blocks[i]).txs = s.blocks[i].txs
             /\ s.blocks[i] \in Block
  BY <1>1, RecountedBlock
<1>2. SameLedger(s, Migrate(s, lucky))
  <2>1. /\ Migrate(s, lucky).image = s.image
        /\ Migrate(s, lucky).blocks = [i \in DOMAIN s.blocks |-> Recounted(s.blocks[i])]
    BY DEF Migrate
  <2>2. s.blocks \in Seq(Block) => Migrate(s, lucky).blocks \in Seq(Block)
    BY <1>1, <2>1
  <2> QED
    BY <1>1, <2>1, <2>2 DEF SameLedger
<1>3. SameLedger(s, Filled(s))
  <2>1. /\ Filled(s).image = s.image
        /\ Filled(s).blocks = [i \in DOMAIN s.blocks |-> IF s.headers[i].summed THEN s.blocks[i]
                                                        ELSE Recounted(s.blocks[i])]
    BY DEF Filled
  <2>2. s.blocks \in Seq(Block) => Filled(s).blocks \in Seq(Block)
    BY <1>1, <2>1
  <2> QED
    BY <1>1, <2>1, <2>2 DEF SameLedger
<1> QED
  BY <1>2, <1>3

LEMMA SameLedgerTransitive ==
    ASSUME NEW s, NEW u, NEW w, SameLedger(s, u), SameLedger(u, w)
    PROVE  SameLedger(s, w)
BY DEF SameLedger

\* What open loads and writes back is the ledger that was stored.
LEMMA OpenedSameLedger ==
    ASSUME NEW d, NEW lucky
    PROVE  /\ SameLedger(Stored(d), Opened(d, lucky))
           /\ SameLedger(Stored(d), Filled(Opened(d, lucky)))
           /\ SameLedger(Stored(d), Filled(Stored(d)))
<1>1. SameLedger(Stored(d), Opened(d, lucky))
  BY MigrateSameLedger DEF Opened, SameLedger
<1>2. /\ SameLedger(Opened(d, lucky), Filled(Opened(d, lucky)))
      /\ SameLedger(Stored(d), Filled(Stored(d)))
  BY MigrateSameLedger
<1>. HIDE DEF SameLedger
<1> QED
  BY <1>1, <1>2, SameLedgerTransitive

LEMMA RewrittenStored ==
    ASSUME NEW d, NEW lucky
    PROVE  /\ Stored(Rewritten(d, lucky)) = Opened(d, lucky)
           /\ ~TooNew(d) => ~TooNew(Rewritten(d, lucky))
           /\ ~Outdated(Rewritten(d, lucky))
           /\ ImageOk(d.legacy) => ImageOk(Rewritten(d, lucky).legacy)
<1>1. CASE Outdated(d)
  <2>1. Rewritten(d, lucky) = Database(ChainDisk(3, Opened(d, lucky).blocks,
                                  Opened(d, lucky).headers, Opened(d, lucky).image), FreshImage)
    BY <1>1 DEF Rewritten
  <2>2. Stored(Rewritten(d, lucky)) = [blocks |-> Opened(d, lucky).blocks,
            headers |-> Opened(d, lucky).headers, image |-> Opened(d, lucky).image]
    BY <2>1, StoredForms
  <2>3. Opened(d, lucky) = [blocks |-> Opened(d, lucky).blocks,
            headers |-> Opened(d, lucky).headers, image |-> Opened(d, lucky).image]
    BY <1>1 DEF Opened, Migrate
  <2>4. /\ Rewritten(d, lucky).chain.format = "ChainDisk"
        /\ Rewritten(d, lucky).chain.schema_version = 3
        /\ Rewritten(d, lucky).legacy = FreshImage
    BY <2>1 DEF Database, ChainDisk
  <2> QED
    BY <2>2, <2>3, <2>4, FreshImageOk DEF TooNew, Outdated
<1>2. CASE ~Outdated(d)
  BY <1>2 DEF Rewritten, Opened
<1> QED
  BY <1>1, <1>2

-----------------------------------------------------------------------------
(* Types and the supply cap *)

\* A process starts with types, cap and reward bound in place.
LEMMA LoadTypes ==
    ASSUME NEW s, Load(s), s.blocks \in Seq(Block), ImageOk(s.image)
    PROVE  TypeInv'
<1>1. /\ chain' \in Seq(Block) /\ mempool' = {} /\ call' = NoCall
      /\ known' = s.image.known /\ accounts' = s.image.accounts
      /\ emission' = s.image.emission /\ block_reward' = s.image.block_reward
      /\ block_height' = s.image.block_height /\ deposited' = s.image.deposited
  BY DEF Load
<1>2. Zero \in Pair /\ NoMiner \notin Addr
  BY PairTypes, AddrAssumption
<1>3. TypeOK'
  BY <1>1, <1>2 DEF TypeOK, Idle, NoCall, ImageOk
<1>4. EmissionWithinCap' /\ RewardBounded'
  BY <1>1 DEF EmissionWithinCap, RewardBounded, NoCall, Zero, ImageOk, Pair, Word
<1> QED
  BY <1>3, <1>4 DEF TypeInv

\* What a node between two calls saves is well formed.
LEMMA ImageTypes ==
    ASSUME TypeInv, Idle
    PROVE  ImageOk(Image)
<1>1. \A t \in Token : emission[t] <= MAX_SUPPLY[t]
  <2>1. call.reward = Zero
    BY DEF TypeInv, TypeOK, NoCall
  <2>2. \A t \in Token : emission[t] \in Nat
    BY U64Assumption DEF TypeInv, TypeOK, Pair, Word
  <2> QED
    BY <2>1, <2>2 DEF TypeInv, EmissionWithinCap, Zero
<1> QED
  BY <1>1 DEF TypeInv, TypeOK, RewardBounded, Image, ImageOk

\* What persist_chain writes, and that open and new read of it.
LEMMA SavedForm ==
    ASSUME persist_chain
    PROVE  /\ Stored(db') = [blocks |-> chain', headers |-> headers', image |-> Image']
           /\ db'.legacy = FreshImage /\ ~Outdated(db')
           /\ Image'.foreign = foreign' /\ Image'.accounts = accounts'
<1>1. db' = Database(ChainDisk(3, chain', headers', Image'), FreshImage)
  BY DEF persist_chain
<1>2. db'.chain.format = "ChainDisk" /\ db'.chain.schema_version = 3
  BY <1>1 DEF Database, ChainDisk
<1>3. /\ Stored(db') = [blocks |-> chain', headers |-> headers', image |-> Image']
      /\ db'.legacy = FreshImage
  BY <1>1, StoredForms
<1>4. Image'.foreign = foreign' /\ Image'.accounts = accounts'
  BY DEF Image
<1> QED
  BY <1>2, <1>3, <1>4 DEF Outdated

LEMMA SavedWellFormed ==
    ASSUME persist_chain, TypeInv', Idle'
    PROVE  WellFormed(db')
<1>1. ImageOk(Image)'
  BY ImageTypes, PTL
<1>2. /\ Stored(db').blocks = chain' /\ Stored(db').image = Image'
      /\ db'.legacy = FreshImage /\ chain' \in Seq(Block)
  BY SavedForm DEF TypeInv, TypeOK
<1> QED
  BY <1>1, <1>2, FreshImageOk DEF WellFormed, ImageOk

StorageTypeInv == TypeInv /\ WellFormed(db)

LEMMA StorageTypeStep ==
    ASSUME StorageTypeInv, [StorageNext]_storageVars
    PROVE  StorageTypeInv'
<1>1. ASSUME NEW d, Open(d)
      PROVE  StorageTypeInv'
  <2>1. PICK lucky : Load(Filled(Opened(db, lucky))) /\ db' = Rewritten(db, lucky)
    BY <1>1 DEF Open
  <2>2. TypeInv'
    BY <2>1, OpenedSameLedger, LoadTypes DEF SameLedger, StorageTypeInv, WellFormed
  <2>3. WellFormed(db')
    BY <2>1, OpenedSameLedger, RewrittenStored DEF SameLedger, StorageTypeInv, WellFormed
  <2> QED
    BY <2>2, <2>3 DEF StorageTypeInv
<1>2. CASE New
  <2>1. TypeInv'
    BY <1>2, OpenedSameLedger, LoadTypes DEF New, SameLedger, StorageTypeInv, WellFormed
  <2> QED
    BY <1>2, <2>1 DEF New, StorageTypeInv
<1>3. CASE Crash
  <2>1. /\ Stored(EmptyDb) = [blocks |-> << >>, headers |-> << >>, image |-> FreshImage]
        /\ << >> \in Seq(Block) /\ ImageOk(FreshImage) /\ EmptyDb.legacy = FreshImage
    BY StoredForms, FreshImageOk
  <2>2. TypeInv'
    BY <1>3, <2>1, LoadTypes DEF Crash
  <2>3. WellFormed(EmptyDb)
    BY <2>1 DEF WellFormed
  <2> QED
    BY <1>3, <2>2, <2>3 DEF Crash, StorageTypeInv
<1>4. CASE FinishMining
  <2>1. TypeInv' /\ Idle'
    <3>1. Next /\ Idle'
      BY <1>4 DEF FinishMining, Next, CreditMiner, Idle, NoCall
    <3> QED
      BY <3>1, TypeInvStep DEF StorageTypeInv
  <2>2. WellFormed(db')
    BY <1>4, <2>1, SavedWellFormed DEF FinishMining
  <2> QED
    BY <2>1, <2>2 DEF StorageTypeInv
<1>5. CASE SaveGenesis
  <2>1. TypeInv'
    BY <1>5, TypeInvStep DEF SaveGenesis, Next, StorageTypeInv
  <2>2. db'.chain = Bare(chain', headers') /\ db'.legacy = db.legacy
    BY <1>5 DEF SaveGenesis
  <2>3. Stored(db').blocks = chain' /\ Stored(db').image = db.legacy
    BY <2>2 DEF Stored, Bare
  <2> QED
    BY <2>1, <2>2, <2>3 DEF StorageTypeInv, WellFormed, TypeInv, TypeOK
<1>6. CASE Unsaved
  <2>1. TypeInv'
    BY <1>6, TypeInvStep DEF Unsaved, Next, StorageTypeInv
  <2> QED
    BY <1>6, <2>1 DEF Unsaved, StorageTypeInv
<1>7. ASSUME UNCHANGED vars, db' = db
      PROVE  StorageTypeInv'
  BY <1>7, TypeInvStep DEF StorageTypeInv
<1>8. CASE Persist
  <2>1. UNCHANGED vars /\ Idle
    BY <1>8 DEF Persist
  <2>2. TypeInv' /\ Idle'
    BY <2>1, TypeInvStep DEF StorageTypeInv, vars, Idle
  <2>3. WellFormed(db')
    BY <1>8, <2>2, SavedWellFormed DEF Persist
  <2> QED
    BY <2>2, <2>3 DEF StorageTypeInv
<1> QED
  BY <1>1, <1>2, <1>3, <1>4, <1>5, <1>6, <1>7, <1>8
  DEF StorageNext, OpenTooNew, SetDifficulty, storageVars

\* The emission cap across crashes, restarts and migrations: a restarted node
\* goes on counting from what was saved with the chain, never from zero.
THEOREM SupplyCappedAcrossRestarts ==
    (\A d \in Databases : WellFormed(d)) => (StorageSpec => []EmissionWithinCap)
<1> SUFFICES ASSUME \A d \in Databases : WellFormed(d)
             PROVE  StorageSpec => []EmissionWithinCap
  OBVIOUS
<1>1. StorageInit => StorageTypeInv
  BY TypeInvInit DEF StorageInit, StorageTypeInv
<1>2. StorageTypeInv /\ [StorageNext]_storageVars => StorageTypeInv'
  BY StorageTypeStep
<1>3. StorageTypeInv => EmissionWithinCap
  BY DEF StorageTypeInv, TypeInv
<1> QED
  BY <1>1, <1>2, <1>3, PTL DEF StorageSpec

-----------------------------------------------------------------------------
(* Replay protection *)

\* The ledger of a running node and the one in its database, each by itself.
StorageCommitInv == CommitInv /\ WellFormed(db) /\ Consistent(db)

\* A process that loads a consistent ledger starts with every nonce settled.
LEMMA LoadConsistent ==
    ASSUME NEW s, NEW u, Load(u), SameLedger(s, u), s.blocks \in Seq(Block),
           ImageOk(s.image), NoncesCover(s), RepeatsNone(s)
    PROVE  CommitInv'
<1>1. u.blocks \in Seq(Block) /\ ImageOk(u.image) /\ NoncesCover(u) /\ RepeatsNone(u)
  BY DEF SameLedger, NoncesCover, RepeatsNone
<1>2. TypeInv'
  BY <1>1, LoadTypes
<1>3. NonceLock'
  BY DEF Load, NonceLock, Live, NoCall
<1>4. Settled'
  BY <1>1 DEF Load, Settled, NoncesCover
<1>5. CommittedOnce'
  BY <1>1 DEF Load, CommittedOnce, RepeatsNone
<1> QED
  BY <1>2, <1>3, <1>4, <1>5 DEF CommitInv

LEMMA SavedConsistent ==
    ASSUME persist_chain, CommitInv', call' = NoCall
    PROVE  Consistent(db')
<1>1. /\ Stored(db').blocks = chain' /\ Stored(db').image = Image'
      /\ Image'.accounts = accounts'
  BY SavedForm
<1>2. NoncesCover(Stored(db')) /\ RepeatsNone(Stored(db'))
  BY <1>1 DEF CommitInv, Settled, CommittedOnce, NoCall, NoncesCover, RepeatsNone
<1> QED
  BY <1>2 DEF Consistent

LEMMA StorageCommitStep ==
    ASSUME StorageCommitInv, [StorageNext]_storageVars, OverflowChecks = FALSE,
           GenesisHeights \subseteq {0}
    PROVE  StorageCommitInv'
<1>0. WellFormed(db)'
  BY StorageTypeStep DEF StorageCommitInv, StorageTypeInv, CommitInv
<1>1. ASSUME NEW d, Open(d)
      PROVE  StorageCommitInv'
  <2>1. PICK lucky : Load(Filled(Opened(db, lucky))) /\ db' = Rewritten(db, lucky)
    BY <1>1 DEF Open
  <2>2. CommitInv'
    BY <2>1, OpenedSameLedger, LoadConsistent DEF StorageCommitInv, WellFormed, Consistent
  <2>3. Stored(db') = Opened(db, lucky) /\ SameLedger(Stored(db), Opened(db, lucky))
    BY <2>1, OpenedSameLedger, RewrittenStored
  <2>4. Consistent(db')
    BY <2>3 DEF SameLedger, StorageCommitInv, WellFormed, Consistent, NoncesCover, RepeatsNone
  <2> QED
    BY <1>0, <2>2, <2>4 DEF StorageCommitInv
<1>2. CASE New
  <2>1. CommitInv'
    BY <1>2, OpenedSameLedger, LoadConsistent DEF New, StorageCommitInv, WellFormed, Consistent
  <2> QED
    BY <1>2, <2>1 DEF New, StorageCommitInv
<1>3. CASE Crash
  <2> DEFINE empty == [blocks |-> << >>, headers |-> << >>, image |-> FreshImage]
  <2>1. Stored(EmptyDb) = empty /\ ImageOk(empty.image)
    BY StoredForms, FreshImageOk
  <2>2. empty.blocks \in Seq(Block) /\ NoncesCover(empty) /\ RepeatsNone(empty)
    BY DEF NoncesCover, RepeatsNone
  <2>3. Load(empty) /\ SameLedger(empty, empty)
    BY <1>3, <2>1 DEF Crash, SameLedger
  <2>4. CommitInv'
    BY <2>1, <2>2, <2>3, LoadConsistent
  <2>5. Consistent(EmptyDb)
    BY <2>1, <2>2 DEF Consistent
  <2> QED
    BY <1>0, <1>3, <2>4, <2>5 DEF Crash, StorageCommitInv
<1>4. CASE FinishMining
  <2>1. CommitInv' /\ call' = NoCall
    BY <1>4, CommitInvStep DEF FinishMining, CreditMiner, Next, StorageCommitInv
  <2>2. Consistent(db')
    BY <1>4, <2>1, SavedConsistent DEF FinishMining
  <2> QED
    BY <1>0, <2>1, <2>2 DEF StorageCommitInv
<1>5. CASE SaveGenesis
  <2>1. CommitInv'
    BY <1>5, CommitInvStep DEF SaveGenesis, Next, StorageCommitInv
  <2>2. chain' = << Genesis >>
    <3>1. chain \in Seq(Block) /\ Len(chain) = 0 /\ chain' = Append(chain, Genesis)
      BY <1>5 DEF SaveGenesis, GenesisBlock, StorageCommitInv, CommitInv, TypeInv, TypeOK
    <3>2. chain = << >>
      BY <3>1
    <3> QED
      BY <3>1, <3>2
  <2>3. Stored(db').blocks = << Genesis >>
    BY <1>5, <2>2 DEF SaveGenesis, Stored, Bare
  <2>4. NoncesCover(Stored(db')) /\ RepeatsNone(Stored(db'))
    BY <2>3 DEF NoncesCover, RepeatsNone, Genesis
  <2> QED
    BY <1>0, <2>1, <2>4 DEF Consistent, StorageCommitInv
<1>6. CASE Unsaved
  <2>1. CommitInv'
    BY <1>6, CommitInvStep DEF Unsaved, Next, StorageCommitInv
  <2> QED
    BY <1>6, <2>1 DEF Unsaved, StorageCommitInv
<1>7. ASSUME UNCHANGED vars, db' = db
      PROVE  StorageCommitInv'
  BY <1>0, <1>7, CommitInvStep DEF StorageCommitInv
<1>8. CASE Persist
  <2>1. UNCHANGED vars /\ Idle
    BY <1>8 DEF Persist
  <2>2. CommitInv'
    BY <2>1, CommitInvStep DEF StorageCommitInv
  <2>3. call' = NoCall
    BY <2>1 DEF vars, StorageCommitInv, CommitInv, TypeInv, TypeOK
  <2>4. Consistent(db')
    BY <1>8, <2>2, <2>3, SavedConsistent DEF Persist
  <2> QED
    BY <1>0, <2>2, <2>4 DEF StorageCommitInv
<1> QED
  BY <1>1, <1>2, <1>3, <1>4, <1>5, <1>6, <1>7, <1>8
  DEF StorageNext, OpenTooNew, SetDifficulty, storageVars

\* A transaction committed before a crash is not committed again after the
\* restart, whichever schema the database had and whether open or new read it:
\* the nonces are saved with the chain.  Release builds, and genesis_block
\* called on an empty chain only: on a longer one it would save the chain
\* without its accounts.
THEOREM CommittedOnceAcrossRestarts ==
    (/\ OverflowChecks = FALSE
     /\ GenesisHeights \subseteq {0}
     /\ \A d \in Databases : WellFormed(d) /\ Consistent(d))
    => (StorageSpec => []CommittedOnce)
<1> SUFFICES ASSUME OverflowChecks = FALSE, GenesisHeights \subseteq {0},
                    \A d \in Databases : WellFormed(d) /\ Consistent(d)
             PROVE  StorageSpec => []CommittedOnce
  OBVIOUS
<1>1. StorageInit => StorageCommitInv
  <2>1. Init => CommitInv
    BY TypeInvInit DEF Init, CommitInv, NonceLock, Live, NoCall, Settled, CommittedOnce
  <2> QED
    BY <2>1 DEF StorageInit, StorageCommitInv
<1>2. StorageCommitInv /\ [StorageNext]_storageVars => StorageCommitInv'
  BY StorageCommitStep
<1>3. StorageCommitInv => CommittedOnce
  BY DEF StorageCommitInv, CommitInv
<1> QED
  BY <1>1, <1>2, <1>3, PTL DEF StorageSpec

-----------------------------------------------------------------------------
(* Links *)

\* The headers of s after a step that sets other fields only.
LEMMA KeptLinks ==
    ASSUME NEW blocks, NEW hs, NEW n, NEW later, NEW laterHs,
           HeadersLinked(blocks, hs, n), Len(later) = Len(blocks),
           laterHs = [i \in 1 .. Len(blocks) |-> laterHs[i]],
           \A i \in 1 .. Len(blocks) :
               /\ IsHeader(laterHs[i])
               /\ laterHs[i].previous_hash = hs[i].previous_hash,
           \/ \A i \in 1 .. Len(blocks) : laterHs[i].hash = hs[i].hash
           \/ n \in Nat /\ Len(blocks) \in Nat /\ (Len(blocks) <= 1 \/ Len(blocks) <= n)
    PROVE  HeadersLinked(later, laterHs, n)
<1>1. ASSUME NEW i \in 1 .. Len(blocks), i > n
      PROVE  laterHs[i].previous_hash = IF i = 1 THEN ZERO_HASH ELSE laterHs[i - 1].hash
  <2>1. laterHs[i].previous_hash = IF i = 1 THEN ZERO_HASH ELSE hs[i - 1].hash
    BY <1>1 DEF HeadersLinked
  <2>2. ASSUME i # 1
        PROVE  laterHs[i - 1].hash = hs[i - 1].hash
    <3>1. i - 1 \in 1 .. Len(blocks)
      BY <2>2
    <3>2. ~(n \in Nat /\ Len(blocks) \in Nat /\ (Len(blocks) <= 1 \/ Len(blocks) <= n))
      BY <1>1, <2>2
    <3> QED
      BY <3>1, <3>2
  <2> QED
    BY <2>1, <2>2
<1> QED
  BY <1>1 DEF HeadersLinked

LEMMA HeaderFields ==
    ASSUME NEW prev, NEW d, NEW hash, NEW work
    PROVE  /\ IsHeader(Header(prev, d, hash, work))
           /\ Header(prev, d, hash, work).previous_hash = prev
BY DEF Header, IsHeader

\* The change that Filled makes to a header, with any value
Summed(h, s) == [h EXCEPT !.summed = s]

LEMMA SummedHeader ==
    ASSUME NEW h, IsHeader(h), NEW s
    PROVE  /\ IsHeader(Summed(h, s))
           /\ Summed(h, s).previous_hash = h.previous_hash
           /\ Summed(h, s).hash = h.hash
<1>1. PICK prev, d, hash, work, summed :
          h = [previous_hash |-> prev, difficulty |-> d, hash |-> hash, work |-> work,
               summed |-> summed]
  BY DEF IsHeader
<1>2. Summed(h, s) = [previous_hash |-> prev, difficulty |-> d, hash |-> hash,
                      work |-> work, summed |-> s]
  BY <1>1 DEF Summed
<1> QED
  BY <1>1, <1>2 DEF IsHeader

LEMMA FilledLinks ==
    ASSUME NEW s, NEW n, s.blocks \in Seq(Block), HeadersLinked(s.blocks, s.headers, n)
    PROVE  HeadersLinked(Filled(s).blocks, Filled(s).headers, n)
<1>1. /\ Filled(s).blocks \in Seq(Block) /\ Len(s.blocks) \in Nat
      /\ Len(Filled(s).blocks) = Len(s.blocks)
  BY MigrateSameLedger DEF SameLedger
<1>2. DOMAIN s.headers = 1 .. Len(s.blocks)
  BY DEF HeadersLinked
<1>3. \E v : Filled(s).headers = [i \in 1 .. Len(s.blocks) |-> Summed(s.headers[i], v)]
  <2>1. Filled(s).headers = [i \in DOMAIN s.headers |-> [s.headers[i] EXCEPT !.summed = TRUE]]
    BY DEF Filled
  <2> QED
    BY <1>2, <2>1, Zenon DEF Summed
<1>4. PICK v : Filled(s).headers = [i \in 1 .. Len(s.blocks) |-> Summed(s.headers[i], v)]
  BY <1>3
<1>5. ASSUME NEW i \in 1 .. Len(s.blocks)
      PROVE  /\ IsHeader(Filled(s).headers[i])
             /\ Filled(s).headers[i].previous_hash = s.headers[i].previous_hash
             /\ Filled(s).headers[i].hash = s.headers[i].hash
  <2>1. IsHeader(s.headers[i]) /\ Filled(s).headers[i] = Summed(s.headers[i], v)
    BY <1>4 DEF HeadersLinked
  <2> QED
    BY <2>1, SummedHeader
<1> QED
  BY <1>1, <1>4, <1>5, KeptLinks

\* A chain with nothing to link beyond n keeps that through the migration.
LEMMA MigrateLinks ==
    ASSUME NEW s, NEW lucky, NEW n \in Nat, s.blocks \in Seq(Block),
           HeadersLinked(s.blocks, s.headers, n), Len(s.blocks) <= 1 \/ Len(s.blocks) <= n
    PROVE  HeadersLinked(Migrate(s, lucky).blocks, Migrate(s, lucky).headers, n)
<1> DEFINE new == Migrate(s, lucky)
<1>1. /\ new.blocks \in Seq(Block) /\ Len(s.blocks) \in Nat
      /\ Len(new.blocks) = Len(s.blocks) /\ DOMAIN s.blocks = 1 .. Len(s.blocks)
  BY MigrateSameLedger DEF SameLedger
<1>2. new.headers = [i \in 1 .. Len(s.blocks) |->
                        Rehashed(s.headers[i], Recounted(s.blocks[i]), i \in lucky)]
  BY <1>1 DEF Migrate
<1>3. ASSUME NEW i \in 1 .. Len(s.blocks)
      PROVE  /\ IsHeader(new.headers[i])
             /\ new.headers[i].previous_hash = s.headers[i].previous_hash
  <2>1. new.headers[i] = Rehashed(s.headers[i], Recounted(s.blocks[i]), i \in lucky)
    BY <1>2
  <2> QED
    BY <2>1, HeaderFields DEF Rehashed
<1>. HIDE DEF new
<1>4. new.headers = [i \in 1 .. Len(s.blocks) |-> new.headers[i]]
  BY <1>2
<1>5. HeadersLinked(new.blocks, new.headers, n)
  BY <1>1, <1>3, <1>4, KeptLinks
<1> QED
  BY <1>5 DEF new

\* What open and new load, and what open writes back.
LEMMA IntactOpened ==
    ASSUME NEW d, NEW lucky, WellFormed(d), Intact(d), NEW n, n = Stored(d).image.foreign
    PROVE  /\ HeadersLinked(Filled(Stored(d)).blocks, Filled(Stored(d)).headers, n)
           /\ HeadersLinked(Filled(Opened(d, lucky)).blocks, Filled(Opened(d, lucky)).headers, n)
           /\ Intact(Rewritten(d, lucky))
<1>1. /\ n \in Nat /\ Stored(d).blocks \in Seq(Block)
      /\ HeadersLinked(Stored(d).blocks, Stored(d).headers, n)
      /\ Outdated(d) => (Len(Stored(d).blocks) <= 1 \/ Len(Stored(d).blocks) <= n)
  BY DEF WellFormed, Intact
<1>2. HeadersLinked(Opened(d, lucky).blocks, Opened(d, lucky).headers, n)
  BY <1>1, MigrateLinks DEF Opened
<1>3. /\ Opened(d, lucky).blocks \in Seq(Block)
      /\ Opened(d, lucky).image = Stored(d).image
  BY <1>1, OpenedSameLedger DEF SameLedger
<1>4. Rewritten(d, lucky).legacy.foreign \in Nat
  <2>1. FreshImage.foreign \in Nat
    BY DEF FreshImage
  <2>2. Rewritten(d, lucky).legacy = FreshImage \/ Rewritten(d, lucky) = d
    BY DEF Rewritten, Database
  <2> QED
    BY <2>1, <2>2 DEF Intact
<1>5. Intact(Rewritten(d, lucky))
  BY <1>1, <1>2, <1>3, <1>4, RewrittenStored DEF Intact
<1> QED
  BY <1>1, <1>2, <1>3, <1>5, FilledLinks

LinkInv ==
    /\ StorageTypeInv
    /\ foreign \in Nat
    /\ HeadersLinked(chain, headers, foreign)
    /\ Intact(db)

\* mine_block links the block it pushes to the last one.
LEMMA MinedLinks ==
    ASSUME LinkInv, chain' = chain \/ (\E b : chain' = Append(chain, b)), HeaderFollows,
           foreign' = foreign
    PROVE  HeadersLinked(chain', headers', foreign')
<1>1. chain \in Seq(Block) /\ Len(chain) \in Nat
  BY DEF LinkInv, StorageTypeInv, TypeInv, TypeOK
<1>2. CASE chain' = chain
  BY <1>1, <1>2 DEF HeaderFollows, LinkInv
<1>3. ASSUME NEW b, chain' = Append(chain, b)
      PROVE  HeadersLinked(chain', headers', foreign')
  <2> DEFINE h == Mined(Last(chain'))
  <2>1. Len(chain') = Len(chain) + 1
    BY <1>1, <1>3
  <2>2. headers' = Append(headers, h)
    BY <1>1, <2>1 DEF HeaderFollows
  <2>3. IsHeader(h) /\ h.previous_hash = PrevHash
    BY DEF Mined, Header, IsHeader
  <2>. HIDE DEF h
  <2>4. headers = [i \in 1 .. Len(chain) |-> headers[i]] /\ Len(headers) = Len(chain)
        /\ headers \in Seq({headers[i] : i \in 1 .. Len(chain)})
    BY <1>1 DEF LinkInv, HeadersLinked
  <2>5. /\ headers' = [i \in 1 .. Len(chain) + 1 |-> IF i <= Len(chain) THEN headers[i] ELSE h]
    BY <1>1, <2>2, <2>4
  <2>6. PrevHash = IF Len(chain) = 0 THEN ZERO_HASH ELSE headers[Len(chain)].hash
    BY <1>1, <2>4 DEF PrevHash, Last
  <2>7. ASSUME NEW i \in 1 .. Len(chain), i > foreign
        PROVE  headers[i].previous_hash = IF i = 1 THEN ZERO_HASH ELSE headers[i - 1].hash
    BY <2>7 DEF LinkInv, HeadersLinked
  <2>8. ASSUME NEW i \in 1 .. Len(chain)
        PROVE  IsHeader(headers[i])
    BY DEF LinkInv, HeadersLinked
  <2>9. ASSUME NEW i \in 1 .. Len(chain'), i > foreign'
        PROVE  headers'[i].previous_hash = IF i = 1 THEN ZERO_HASH ELSE headers'[i - 1].hash
    <3>1. CASE i <= Len(chain)
      BY <1>1, <2>1, <2>5, <2>7, <2>9, <3>1
    <3>2. CASE i = Len(chain) + 1
      BY <1>1, <2>1, <2>3, <2>5, <2>6, <3>2
    <3> QED
      BY <1>1, <2>1, <3>1, <3>2
  <2>10. ASSUME NEW i \in 1 .. Len(chain')
         PROVE  IsHeader(headers'[i])
    BY <1>1, <2>1, <2>3, <2>5, <2>8
  <2>11. headers' = [i \in 1 .. Len(chain') |-> headers'[i]]
    BY <2>1, <2>5
  <2> QED
    BY <2>9, <2>10, <2>11 DEF HeadersLinked
<1> QED
  BY <1>2, <1>3

LEMMA LinkStep ==
    ASSUME LinkInv, [StorageNext]_storageVars, GenesisHeights \subseteq {0}
    PROVE  LinkInv'
<1>0. StorageTypeInv' /\ WellFormed(db) /\ TypeOK
  BY StorageTypeStep DEF LinkInv, StorageTypeInv, TypeInv
<1>1. ASSUME NEW d, Open(d)
      PROVE  LinkInv'
  <2>1. PICK lucky : Load(Filled(Opened(db, lucky))) /\ db' = Rewritten(db, lucky)
    BY <1>1 DEF Open
  <2>2. /\ HeadersLinked(Filled(Opened(db, lucky)).blocks, Filled(Opened(db, lucky)).headers,
                         Stored(db).image.foreign)
        /\ Intact(Rewritten(db, lucky))
    BY <1>0, IntactOpened DEF LinkInv
  <2>3. Filled(Opened(db, lucky)).image = Stored(db).image
    BY OpenedSameLedger DEF SameLedger
  <2>4. foreign' = Stored(db).image.foreign /\ foreign' \in Nat
    BY <2>1, <2>3 DEF Load, LinkInv, Intact
  <2> QED
    BY <1>0, <2>1, <2>2, <2>4 DEF Load, LinkInv
<1>2. CASE New
  <2>1. HeadersLinked(Filled(Stored(db)).blocks, Filled(Stored(db)).headers,
                      Stored(db).image.foreign)
    BY <1>0, IntactOpened DEF LinkInv
  <2>2. Filled(Stored(db)).image = Stored(db).image
    BY OpenedSameLedger DEF SameLedger
  <2>3. foreign' = Stored(db).image.foreign /\ foreign' \in Nat
    BY <1>2, <2>2 DEF New, Load, LinkInv, Intact
  <2> QED
    BY <1>0, <1>2, <2>1, <2>3 DEF New, Load, LinkInv
<1>3. CASE Crash
  <2>1. Stored(EmptyDb) = [blocks |-> << >>, headers |-> << >>, image |-> FreshImage]
        /\ EmptyDb.legacy = FreshImage
    BY StoredForms
  <2>2. FreshImage.foreign = 0 /\ HeadersLinked(<< >>, << >>, 0) /\ Len(<< >>) = 0
    BY DEF FreshImage, HeadersLinked
  <2>3. Intact(EmptyDb)
    BY <2>1, <2>2 DEF Intact
  <2> QED
    BY <1>0, <1>3, <2>1, <2>2, <2>3 DEF Crash, Load, LinkInv
<1>4. CASE FinishMining \/ Persist
  <2>1. chain' = chain /\ headers' = headers /\ foreign' = foreign /\ persist_chain
    BY <1>4 DEF FinishMining, CreditMiner, Persist, vars
  <2>2. /\ Stored(db').blocks = chain' /\ Stored(db').headers = headers'
        /\ Stored(db').image = Image' /\ db'.legacy = FreshImage
        /\ ~Outdated(db') /\ Image'.foreign = foreign'
    BY <2>1, SavedForm
  <2>3. FreshImage.foreign = 0
    BY DEF FreshImage
  <2>4. Intact(db')
    BY <2>1, <2>2, <2>3 DEF LinkInv, Intact
  <2> QED
    BY <1>0, <2>1, <2>4 DEF LinkInv
<1>5. CASE SaveGenesis
  <2>1. chain = << >> /\ chain' = << Genesis >>
    <3>1. chain \in Seq(Block) /\ Len(chain) = 0 /\ chain' = Append(chain, Genesis)
      BY <1>0, <1>5 DEF SaveGenesis, GenesisBlock, TypeOK
    <3>2. chain = << >>
      BY <3>1
    <3> QED
      BY <3>1, <3>2
  <2>2. headers = << >>
    BY <2>1 DEF LinkInv, HeadersLinked
  <2>3. headers' = << Header(ZERO_HASH, difficulty, GENESIS_HASH, FALSE) >>
    BY <1>5, <2>2 DEF SaveGenesis
  <2>4. \A n : HeadersLinked(chain', headers', n)
    <3>1. Len(chain') = 1
      BY <2>1
    <3>2. IsHeader(headers'[1]) /\ headers'[1].previous_hash = ZERO_HASH
      BY <2>3, HeaderFields
    <3>3. headers' = [i \in 1 .. 1 |-> headers'[i]]
      BY <2>3
    <3> QED
      BY <3>1, <3>2, <3>3 DEF HeadersLinked
  <2>5. /\ db'.chain = Bare(chain', headers') /\ db'.legacy = db.legacy /\ foreign' = foreign
    BY <1>5 DEF SaveGenesis
  <2>7. /\ Stored(db').blocks = chain' /\ Stored(db').headers = headers'
        /\ Stored(db').image = db.legacy
    BY <2>5 DEF Stored, Bare
  <2>6. Intact(db')
    <3>1. Len(chain') = 1 /\ db.legacy.foreign \in Nat
      BY <2>1 DEF LinkInv, Intact
    <3> QED
      BY <2>4, <2>5, <2>7, <3>1 DEF Intact
  <2> QED
    BY <1>0, <2>4, <2>5, <2>6 DEF LinkInv
<1>6. CASE Unsaved
  <2>1. chain' = chain \/ \E b : chain' = Append(chain, b)
    BY <1>6 DEF Unsaved, UnsavedStep, AddAccount, SubmitTransaction, RejectTransaction,
        DropTransaction, MineBlock, MineFeeOverflow, ApplyTx, ApplyTxPanic, CreditMinerPanic, vars
  <2>2. HeadersLinked(chain', headers', foreign')
    BY <1>6, <2>1, MinedLinks DEF Unsaved
  <2> QED
    BY <1>0, <1>6, <2>2 DEF Unsaved, LinkInv
<1>7. ASSUME UNCHANGED <<chain, headers, db, foreign>>
      PROVE  LinkInv'
  BY <1>0, <1>7 DEF LinkInv
<1> QED
  BY <1>1, <1>2, <1>3, <1>4, <1>5, <1>6, <1>7
  DEF StorageNext, OpenTooNew, SetDifficulty, storageVars, vars

LEMMA LinkInit ==
    ASSUME StorageInit, \A d \in Databases : WellFormed(d) /\ Intact(d)
    PROVE  LinkInv
<1>1. StorageTypeInv /\ Intact(db)
  BY TypeInvInit DEF StorageInit, StorageTypeInv
<1>2. chain = << >> /\ headers = << >> /\ foreign = 0
  BY DEF StorageInit, Init
<1>3. HeadersLinked(chain, headers, foreign)
  BY <1>2 DEF HeadersLinked
<1> QED
  BY <1>1, <1>2, <1>3 DEF LinkInv

\* The migration leaves previous_hash as it was, so it may cut an old chain; what
\* this version mines is linked to its predecessor for ever, across crashes,
\* restarts and migrations, also when the predecessor is an old block.
THEOREM NewLinksKept ==
    (GenesisHeights \subseteq {0} /\ \A d \in Databases : WellFormed(d) /\ Intact(d))
    => (StorageSpec => []LinksBreakOnlyInOldChain)
<1> SUFFICES ASSUME GenesisHeights \subseteq {0},
                    \A d \in Databases : WellFormed(d) /\ Intact(d)
             PROVE  StorageSpec => []LinksBreakOnlyInOldChain
  OBVIOUS
<1>1. StorageInit => LinkInv
  BY LinkInit
<1>2. LinkInv /\ [StorageNext]_storageVars => LinkInv'
  BY LinkStep
<1>3. LinkInv => LinksBreakOnlyInOldChain
  BY DEF LinkInv, HeadersLinked, LinksBreakOnlyInOldChain, Linked
<1> QED
  BY <1>1, <1>2, <1>3, PTL DEF StorageSpec

-----------------------------------------------------------------------------
(* Money, and what is saved of it *)

LEMMA FreshImageFunded == FundedImage(FreshImage)
<1> SUFFICES ASSUME NEW t \in Token
             PROVE  SumFunction([a \in Addr |-> FreshImage.accounts[a].balance[t]])
                      = FreshImage.deposited[t] + FreshImage.emission[t]
  BY DEF FundedImage
<1> DEFINE has == [a \in Addr |-> FreshImage.accounts[a].balance[t]]
<1>1. DOMAIN has = Addr /\ \A a \in Addr : has[a] = 0
  BY DEF FreshImage, EmptyAccount, Zero
<1>2. FreshImage.deposited[t] = 0 /\ FreshImage.emission[t] = 0
  BY DEF FreshImage, Zero
<1> HIDE DEF has
<1>3. SumFunction(has) = 0
  BY <1>1, SumFunctionType, AddrAssumption
<1> QED
  BY <1>2, <1>3 DEF has

\* Between two calls no fee is on its way to a miner.
LEMMA IdleFees ==
    ASSUME NEW c, c = NoCall, NEW t \in Token
    PROVE  c.coinbase[t] - c.reward[t] - FeeTotal(c.todo)[t] = 0
<1>1. FeeTotal({})[t] = 0
  BY FeeSum
<1> QED
  BY <1>1 DEF NoCall, Zero

\* Nobody reserves anything in an image without accounts.
LEMMA FreshImageAffordable == AffordableImage(FreshImage)
BY DEF AffordableImage, FreshImage, EmptyAccount, Zero

\* A process that loads an affordable and funded ledger starts with its money in
\* place: its mempool is empty, so what its accounts reserve covers that.
LEMMA LoadMoney ==
    ASSUME NEW s, Load(s), s.blocks \in Seq(Block), ImageOk(s.image),
           AffordableImage(s.image), FundedImage(s.image)
    PROVE  MoneyInv'
<1>1. TypeInv'
  BY LoadTypes
<1>2. /\ accounts' = s.image.accounts /\ call' = NoCall /\ mempool' = {}
      /\ deposited' = s.image.deposited /\ emission' = s.image.emission
  BY DEF Load
<1>3. PendingWithinBalance'
  BY <1>2 DEF AffordableImage, PendingWithinBalance
<1>4. Live' = {} /\ \A a \in Addr : LiveOf(a)' = {}
  BY <1>2 DEF Live, LiveOf, NoCall
<1>5. NonceLock'
  BY <1>4 DEF NonceLock
<1>6. ReservationsCoverMempool'
  <2>1. ASSUME NEW a \in Addr, NEW t \in Token
        PROVE  accounts'[a].pending[t] >= Reserved(LiveOf(a)', t)
    <3>1. accounts'[a].pending[t] \in Nat
      BY <1>1 DEF TypeInv, TypeOK, Account, Pair, Word
    <3>2. Reserved({}, t) = 0
      BY ReservedSum
    <3>3. Reserved(LiveOf(a)', t) = 0
      BY <1>4, <3>2
    <3> QED
      BY <3>1, <3>3
  <2> QED
    BY <2>1 DEF ReservationsCoverMempool
<1>7. \A t \in Token : FeesInFlight'[t] = 0
  BY <1>2, IdleFees DEF FeesInFlight
<1>8. \A t \in Token : Held(t)' = SumFunction([a \in Addr |-> s.image.accounts[a].balance[t]])
  BY <1>2 DEF Held
<1>9. ASSUME NEW t \in Token
      PROVE  Held(t)' + FeesInFlight'[t] = deposited'[t] + emission'[t]
  <2>1. Held(t)' = deposited'[t] + emission'[t]
    BY <1>2, <1>8 DEF FundedImage
  <2>2. deposited'[t] \in Nat /\ emission'[t] \in Nat
    BY <1>1 DEF TypeInv, TypeOK, Pair, Word
  <2> QED
    BY <1>7, <2>1, <2>2
<1> QED
  BY <1>1, <1>3, <1>4, <1>5, <1>6, <1>7, <1>9 DEF MoneyInv, SupplyConserved

\* What a node between two calls saves is funded.
LEMMA ImageFunded ==
    ASSUME MoneyInv, Idle
    PROVE  FundedImage(Image)
<1> SUFFICES ASSUME NEW t \in Token
             PROVE  SumFunction([a \in Addr |-> Image.accounts[a].balance[t]])
                      = Image.deposited[t] + Image.emission[t]
  BY DEF FundedImage
<1>1. TypeOK /\ SupplyConserved
  BY DEF MoneyInv, TypeInv
<1>2. FeesInFlight[t] = 0
  BY <1>1, IdleFees DEF FeesInFlight, TypeOK
<1>3. Held(t) \in Nat /\ deposited[t] \in Nat /\ emission[t] \in Nat
  <2>1. BalanceSum(accounts, t) \in Nat
    BY <1>1, BalanceTotal DEF TypeOK
  <2> QED
    BY <1>1, <2>1 DEF BalanceSum, Held, TypeOK, Pair, Word
<1>4. Held(t) = deposited[t] + emission[t]
  BY <1>1, <1>2, <1>3 DEF SupplyConserved
<1> QED
  BY <1>4 DEF Held, Image

\* Sound money of a database, and of the two ways to load it.
SoundMoney(d) == AffordableDb(d) /\ FundedDb(d)
SoundImage(im) == ImageOk(im) /\ AffordableImage(im) /\ FundedImage(im)

LEMMA SoundOpened ==
    ASSUME NEW d, NEW lucky, WellFormed(d), SoundMoney(d)
    PROVE  /\ SoundImage(Filled(Opened(d, lucky)).image)
           /\ SoundImage(Filled(Stored(d)).image)
           /\ Filled(Opened(d, lucky)).blocks \in Seq(Block)
           /\ Filled(Stored(d)).blocks \in Seq(Block)
           /\ SoundMoney(Rewritten(d, lucky))
<1>1. /\ Filled(Opened(d, lucky)).image = Stored(d).image
      /\ Filled(Stored(d)).image = Stored(d).image
      /\ Stored(Rewritten(d, lucky)).image = Stored(d).image
  BY OpenedSameLedger, RewrittenStored DEF SameLedger
<1>2. Rewritten(d, lucky).legacy = FreshImage \/ Rewritten(d, lucky) = d
  BY DEF Rewritten, Database
<1>3. /\ Filled(Opened(d, lucky)).blocks \in Seq(Block)
      /\ Filled(Stored(d)).blocks \in Seq(Block)
  BY OpenedSameLedger DEF SameLedger, WellFormed
<1>4. SoundMoney(Rewritten(d, lucky))
  BY <1>1, <1>2, FreshImageFunded, FreshImageAffordable DEF SoundMoney, AffordableDb, FundedDb
<1>5. SoundImage(Stored(d).image)
  BY DEF SoundImage, SoundMoney, AffordableDb, FundedDb, WellFormed
<1> QED
  BY <1>1, <1>3, <1>4, <1>5

LEMMA SavedMoney ==
    ASSUME persist_chain, MoneyInv', Idle'
    PROVE  SoundMoney(db')
<1>1. FundedImage(Image)'
  BY ImageFunded, PTL
<1>2. AffordableImage(Image)'
  BY DEF MoneyInv, PendingWithinBalance, AffordableImage, Image
<1>3. Stored(db').image = Image' /\ db'.legacy = FreshImage
  BY SavedForm
<1>4. FundedDb(db')
  BY <1>1, <1>3, FreshImageFunded DEF FundedDb, FundedImage
<1>5. AffordableDb(db')
  BY <1>2, <1>3, FreshImageAffordable DEF AffordableDb, AffordableImage
<1> QED
  BY <1>4, <1>5 DEF SoundMoney

\* The money of a running node and of its database, each by itself.
VaultInv == StorageTypeInv /\ MoneyInv /\ SoundMoney(db)

LEMMA VaultStep ==
    ASSUME VaultInv, [StorageNext]_storageVars, WalletsSound, DepositsFit
    PROVE  VaultInv'
<1>0. StorageTypeInv' /\ WellFormed(db) /\ SoundMoney(db)
  BY StorageTypeStep DEF VaultInv, StorageTypeInv
<1>1. ASSUME NEW d, Open(d)
      PROVE  VaultInv'
  <2>1. PICK lucky : Load(Filled(Opened(db, lucky))) /\ db' = Rewritten(db, lucky)
    BY <1>1 DEF Open
  <2>2. MoneyInv' /\ SoundMoney(db')
    BY <1>0, <2>1, LoadMoney, SoundOpened DEF SoundImage
  <2> QED
    BY <1>0, <2>2 DEF VaultInv
<1>2. CASE New
  <2>1. MoneyInv'
    BY <1>0, <1>2, LoadMoney, SoundOpened DEF New, SoundImage
  <2> QED
    BY <1>0, <1>2, <2>1 DEF New, VaultInv
<1>3. CASE Crash
  <2>1. /\ Stored(EmptyDb) = [blocks |-> << >>, headers |-> << >>, image |-> FreshImage]
        /\ << >> \in Seq(Block) /\ ImageOk(FreshImage) /\ EmptyDb.legacy = FreshImage
    BY StoredForms, FreshImageOk
  <2>2. MoneyInv'
    BY <1>3, <2>1, LoadMoney, FreshImageAffordable, FreshImageFunded DEF Crash
  <2>3. SoundMoney(EmptyDb)
    BY <2>1, FreshImageAffordable, FreshImageFunded DEF SoundMoney, AffordableDb, FundedDb
  <2> QED
    BY <1>0, <1>3, <2>2, <2>3 DEF Crash, VaultInv
<1>4. CASE FinishMining
  <2>1. MoneyInv'
    BY <1>4, MoneyStep DEF FinishMining, Next, VaultInv
  <2>2. Idle' /\ persist_chain
    BY <1>4 DEF FinishMining, CreditMiner, Idle, NoCall
  <2> QED
    BY <1>0, <2>1, <2>2, SavedMoney DEF VaultInv
<1>5. CASE SaveGenesis
  <2>1. MoneyInv'
    BY <1>5, MoneyStep DEF SaveGenesis, Next, VaultInv
  <2>2. db'.chain = Bare(chain', headers') /\ db'.legacy = db.legacy
    BY <1>5 DEF SaveGenesis
  <2>3. Stored(db').image = db.legacy
    BY <2>2 DEF Stored, Bare
  <2>4. SoundMoney(db')
    BY <1>0, <2>2, <2>3 DEF SoundMoney, AffordableDb, FundedDb
  <2> QED
    BY <1>0, <2>1, <2>4 DEF VaultInv
<1>6. CASE Unsaved
  <2>1. MoneyInv'
    BY <1>6, MoneyStep DEF Unsaved, Next, VaultInv
  <2> QED
    BY <1>0, <1>6, <2>1 DEF Unsaved, VaultInv
<1>7. ASSUME UNCHANGED vars
      PROVE  MoneyInv'
  BY <1>7, MoneyStep DEF VaultInv
<1>8. CASE Persist
  <2>1. MoneyInv' /\ Idle' /\ persist_chain
    BY <1>7, <1>8 DEF Persist, Idle, vars
  <2> QED
    BY <1>0, <2>1, SavedMoney DEF VaultInv
<1>9. ASSUME UNCHANGED vars, db' = db
      PROVE  VaultInv'
  BY <1>0, <1>7, <1>9 DEF VaultInv
<1> QED
  BY <1>1, <1>2, <1>3, <1>4, <1>5, <1>6, <1>8, <1>9
  DEF StorageNext, OpenTooNew, SetDifficulty, storageVars

\* The databases of a deployment whose earlier processes were sound.
SoundDatabases == \A d \in Databases : WellFormed(d) /\ AffordableDb(d) /\ FundedDb(d)

LEMMA VaultInit ==
    ASSUME StorageInit, WalletsSound, SoundDatabases
    PROVE  VaultInv
BY TypeInvInit, MoneyInit DEF StorageInit, StorageTypeInv, VaultInv, SoundDatabases, SoundMoney

LEMMA VaultAlways ==
    ASSUME WalletsSound, SoundDatabases
    PROVE  StorageSpec /\ []DepositsFit => []VaultInv
<1>1. StorageInit => VaultInv
  BY VaultInit
<1>2. VaultInv /\ DepositsFit /\ [StorageNext]_storageVars => VaultInv'
  BY VaultStep
<1> QED
  BY <1>1, <1>2, PTL DEF StorageSpec

\* Supply neutrality across crashes, restarts and migrations, in both builds: what a
\* process reads back is what was deposited and emitted up to the save, never more.
THEOREM MoneyConservedAcrossRestarts ==
    (WalletsSound /\ SoundDatabases) => (StorageSpec /\ []DepositsFit => []SupplyConserved)
<1> SUFFICES ASSUME WalletsSound, SoundDatabases
             PROVE  StorageSpec /\ []DepositsFit => []SupplyConserved
  OBVIOUS
<1>1. VaultInv => SupplyConserved
  BY DEF VaultInv, MoneyInv
<1> QED
  BY <1>1, VaultAlways, PTL

\* No account ever reserves more than it holds, also when persist_chain saved an
\* account while its transactions were live: the process that reads it back has the
\* reservation without them, and admits no more than what is left.
THEOREM ReservationsAffordableAcrossRestarts ==
    (WalletsSound /\ SoundDatabases) => (StorageSpec /\ []DepositsFit => []PendingWithinBalance)
<1> SUFFICES ASSUME WalletsSound, SoundDatabases
             PROVE  StorageSpec /\ []DepositsFit => []PendingWithinBalance
  OBVIOUS
<1>1. VaultInv => PendingWithinBalance
  BY DEF VaultInv, MoneyInv
<1> QED
  BY <1>1, VaultAlways, PTL

-----------------------------------------------------------------------------
(* No mined block is left out of the database *)

AllSummed(hs) == \A i \in DOMAIN hs : hs[i].summed

\* A new header carries its checksum; a filled one too.
LEMMA HeaderSummed ==
    /\ \A prev, d, hash, work : Header(prev, d, hash, work).summed
    /\ \A h : IsHeader(h) => Summed(h, TRUE).summed
<1>1. ASSUME NEW prev, NEW d, NEW hash, NEW work
      PROVE  Header(prev, d, hash, work).summed
  BY Zenon DEF Header
<1>2. ASSUME NEW h, IsHeader(h), NEW s
      PROVE  Summed(h, s).summed = s
  <2>1. PICK prev, d, hash, work, summed :
            h = [previous_hash |-> prev, difficulty |-> d, hash |-> hash, work |-> work,
                 summed |-> summed]
    BY <1>2 DEF IsHeader
  <2>2. Summed(h, s) = [previous_hash |-> prev, difficulty |-> d, hash |-> hash,
                        work |-> work, summed |-> s]
    BY <2>1 DEF Summed
  <2> QED
    BY <2>2
<1>3. ASSUME NEW h, IsHeader(h)
      PROVE  Summed(h, TRUE).summed
  BY <1>2, <1>3, Zenon
<1> QED
  BY <1>1, <1>3

LEMMA FilledSummed ==
    ASSUME NEW s, NEW n, HeadersLinked(s.blocks, s.headers, n)
    PROVE  AllSummed(Filled(s).headers)
<1>1. DOMAIN s.headers = 1 .. Len(s.blocks)
  BY DEF HeadersLinked
<1>2. Filled(s).headers = [i \in DOMAIN s.headers |-> [s.headers[i] EXCEPT !.summed = TRUE]]
  BY DEF Filled
<1>3. ASSUME NEW i \in DOMAIN Filled(s).headers
      PROVE  Filled(s).headers[i].summed
  <2>1. i \in DOMAIN s.headers /\ Filled(s).headers[i] = Summed(s.headers[i], TRUE)
    BY <1>2, Zenon DEF Summed
  <2>2. IsHeader(s.headers[i])
    BY <1>1, <2>1 DEF HeadersLinked
  <2> QED
    BY <2>1, <2>2, HeaderSummed, Zenon
<1> QED
  BY <1>3 DEF AllSummed

\* Blocks saved with all their checksums are read back as they are.
LEMMA ReadBack ==
    ASSUME NEW s, s.blocks \in Seq(Block), DOMAIN s.headers = DOMAIN s.blocks,
           AllSummed(s.headers)
    PROVE  Filled(s).blocks = s.blocks
<1>1. Filled(s).blocks = [i \in DOMAIN s.blocks |-> IF s.headers[i].summed THEN s.blocks[i]
                                                   ELSE Recounted(s.blocks[i])]
  BY DEF Filled
<1>2. \A i \in DOMAIN s.blocks : s.headers[i].summed
  BY DEF AllSummed
<1>3. Filled(s).blocks = [i \in DOMAIN s.blocks |-> s.blocks[i]]
  BY <1>1, <1>2
<1>4. s.blocks = [i \in DOMAIN s.blocks |-> s.blocks[i]]
  OBVIOUS
<1> QED
  BY <1>3, <1>4

\* The headers of the chain of a node go one by one with its blocks.
LEMMA HeaderEach ==
    ASSUME LinkInv
    PROVE  /\ chain \in Seq(Block) /\ DOMAIN headers = DOMAIN chain
           /\ DOMAIN headers = 1 .. Len(chain) /\ Len(chain) \in Nat
           /\ Len(headers) = Len(chain)
           /\ headers = [i \in 1 .. Len(chain) |-> headers[i]]
           /\ headers \in Seq({headers[i] : i \in 1 .. Len(chain)})
<1>1. chain \in Seq(Block) /\ Len(chain) \in Nat
  BY DEF LinkInv, StorageTypeInv, TypeInv, TypeOK
<1>2. headers = [i \in 1 .. Len(chain) |-> headers[i]]
  BY DEF LinkInv, HeadersLinked
<1>3. DOMAIN headers = 1 .. Len(chain) /\ Len(headers) = Len(chain)
  BY <1>1, <1>2
<1>4. headers \in Seq({headers[i] : i \in 1 .. Len(chain)})
  BY <1>1, <1>2, <1>3
<1> QED
  BY <1>1, <1>2, <1>3, <1>4

LEMMA MinedSummed ==
    ASSUME LinkInv, AllSummed(headers), HeaderFollows
    PROVE  AllSummed(headers')
<1>1. CASE headers' = headers
  BY <1>1
<1>2. CASE headers' = Append(headers, Mined(Last(chain')))
  <2> DEFINE h == Mined(Last(chain'))
  <2>1. h.summed
    BY HeaderSummed, Zenon DEF Mined
  <2>2. headers' = Append(headers, h)
    BY <1>2
  <2> HIDE DEF h
  <2>3. /\ Len(chain) \in Nat /\ Len(headers) = Len(chain)
        /\ headers = [i \in 1 .. Len(chain) |-> headers[i]]
        /\ headers \in Seq({headers[i] : i \in 1 .. Len(chain)})
    BY HeaderEach
  <2>4. headers' = [i \in 1 .. Len(chain) + 1 |-> IF i <= Len(chain) THEN headers[i] ELSE h]
    BY <2>2, <2>3
  <2>5. ASSUME NEW i \in DOMAIN headers'
        PROVE  headers'[i].summed
    <3>1. CASE i <= Len(chain)
      <4>1. i \in DOMAIN headers /\ headers'[i] = headers[i]
        BY <2>4, <3>1, HeaderEach
      <4> QED
        BY <4>1 DEF AllSummed
    <3>2. CASE ~(i <= Len(chain))
      <4>1. headers'[i] = h
        BY <2>4, <3>2
      <4> QED
        BY <2>1, <4>1
    <3> QED
      BY <3>1, <3>2
  <2> QED
    BY <2>5 DEF AllSummed
<1> QED
  BY <1>1, <1>2 DEF HeaderFollows

SavedChainInv == VaultInv /\ LinkInv /\ AllSummed(headers) /\ MinedBlocksSaved

\* Between two calls the chain only grows by what is saved in the same step.
LEMMA NothingUnsaved ==
    ASSUME SavedChainInv, WalletsSound, DepositsFit, Unsaved, Idle'
    PROVE  Idle /\ chain' = chain
<1>1. TypeOK /\ MoneyInv
  BY DEF SavedChainInv, VaultInv, MoneyInv, TypeInv
<1>2. ASSUME NEW m \in Miners, MineBlock(m)
      PROVE  FALSE
  BY <1>2, AddrAssumption, InputAssumption DEF MineBlock, Idle
<1>3. ASSUME NEW tx \in call.todo, ApplyTx(tx)
      PROVE  FALSE
  <2>1. ~Idle /\ call'.miner = call.miner
    BY <1>1, <1>3, AfterDebitTypes DEF ApplyTx, TypeOK
  <2> QED
    BY <2>1 DEF Idle
<1>4. ~CreditMinerPanic /\ \A tx \in call.todo : ~ApplyTxPanic(tx)
  BY <1>1, CreditsExact, CoinbaseExact DEF CreditMinerPanic, ApplyTxPanic
<1> QED
  BY <1>2, <1>3, <1>4
  DEF Unsaved, UnsavedStep, AddAccount, SubmitTransaction, RejectTransaction, DropTransaction,
      MineFeeOverflow, vars

LEMMA SavedChainStep ==
    ASSUME SavedChainInv, [StorageNext]_storageVars, WalletsSound, DepositsFit,
           GenesisHeights \subseteq {0}
    PROVE  SavedChainInv'
<1>0. VaultInv' /\ LinkInv'
  BY VaultStep, LinkStep DEF SavedChainInv
<1>1. ASSUME NEW d, Open(d)
      PROVE  AllSummed(headers') /\ MinedBlocksSaved'
  <2>1. PICK lucky : Load(Filled(Opened(db, lucky))) /\ db' = Rewritten(db, lucky)
    BY <1>1 DEF Open
  <2>2. WellFormed(db) /\ Intact(db) /\ Stored(db').headers = Opened(db, lucky).headers
    BY <2>1, RewrittenStored DEF SavedChainInv, LinkInv, StorageTypeInv
  <2>3. HeadersLinked(Opened(db, lucky).blocks, Opened(db, lucky).headers, Stored(db).image.foreign)
    BY <2>2, MigrateLinks DEF Opened, Intact, WellFormed
  <2>4. AllSummed(Filled(Opened(db, lucky)).headers)
    BY <2>3, FilledSummed
  <2>5. Stored(db') = Opened(db, lucky)
    BY <2>1, RewrittenStored
  <2> QED
    BY <2>1, <2>4, <2>5 DEF Load, MinedBlocksSaved
<1>2. ASSUME New
      PROVE  AllSummed(headers') /\ MinedBlocksSaved'
  <2>1. HeadersLinked(Stored(db).blocks, Stored(db).headers, Stored(db).image.foreign)
    BY DEF SavedChainInv, LinkInv, Intact
  <2>2. AllSummed(Filled(Stored(db)).headers)
    BY <2>1, FilledSummed
  <2> QED
    BY <1>2, <2>2 DEF New, Load, MinedBlocksSaved
<1>3. ASSUME Crash
      PROVE  AllSummed(headers') /\ MinedBlocksSaved'
  <2>1. headers' = << >> /\ ~up'
    BY <1>3, StoredForms DEF Crash, Load
  <2> QED
    BY <2>1 DEF AllSummed, MinedBlocksSaved
<1>4. ASSUME FinishMining \/ Persist
      PROVE  AllSummed(headers') /\ MinedBlocksSaved'
  <2>1. /\ Stored(db') = [blocks |-> chain', headers |-> headers', image |-> Image']
        /\ headers' = headers
    BY <1>4, SavedForm DEF FinishMining, Persist
  <2>2. chain' = chain
    BY <1>4 DEF FinishMining, CreditMiner, Persist, vars
  <2>3. Filled(Stored(db')).blocks = chain'
    BY <2>1, <2>2, HeaderEach, ReadBack DEF SavedChainInv
  <2> QED
    BY <2>1, <2>3 DEF SavedChainInv, MinedBlocksSaved
<1>5. ASSUME SaveGenesis
      PROVE  AllSummed(headers') /\ MinedBlocksSaved'
  <2>1. chain \in Seq(Block) /\ Len(chain) = 0 /\ chain' = Append(chain, Genesis)
    BY <1>5, HeaderEach DEF SaveGenesis, GenesisBlock, SavedChainInv
  <2>2. chain = << >> /\ headers = << >>
    BY <2>1, HeaderEach DEF SavedChainInv
  <2> DEFINE h == Header(ZERO_HASH, difficulty, GENESIS_HASH, FALSE)
  <2>3. h.summed
    BY HeaderSummed, Zenon
  <2>4. headers' = Append(headers, h)
    BY <1>5 DEF SaveGenesis
  <2> HIDE DEF h
  <2>5. headers' = << h >> /\ chain' = << Genesis >>
    BY <2>1, <2>2, <2>4
  <2>6. AllSummed(headers')
    <3>1. \A i \in DOMAIN headers' : headers'[i] = h
      BY <2>5
    <3> QED
      BY <2>3, <3>1 DEF AllSummed
  <2>7. db'.chain = Bare(chain', headers')
    BY <1>5 DEF SaveGenesis
  <2>8. Stored(db').blocks = chain' /\ Stored(db').headers = headers'
    BY <2>7 DEF Stored, Bare
  <2>9. chain' \in Seq(Block) /\ DOMAIN headers' = DOMAIN chain'
    <3>1. chain' \in Seq(Block)
      BY <1>0 DEF LinkInv, StorageTypeInv, TypeInv, TypeOK
    <3> QED
      BY <2>5, <3>1
  <2>10. Filled(Stored(db')).blocks = chain'
    BY <2>6, <2>8, <2>9, ReadBack
  <2> QED
    BY <2>6, <2>10 DEF MinedBlocksSaved
<1>6. ASSUME Unsaved
      PROVE  AllSummed(headers') /\ MinedBlocksSaved'
  <2>1. AllSummed(headers')
    BY <1>6, MinedSummed DEF Unsaved, SavedChainInv
  <2>2. MinedBlocksSaved'
    <3> SUFFICES ASSUME up', Idle'
                 PROVE  Filled(Stored(db')).blocks = chain'
      BY DEF MinedBlocksSaved
    <3>1. Idle /\ chain' = chain
      BY <1>6, NothingUnsaved
    <3> QED
      BY <1>6, <3>1 DEF Unsaved, SavedChainInv, MinedBlocksSaved
  <2> QED
    BY <2>1, <2>2
<1>7. ASSUME UNCHANGED <<vars, up, headers, db>>
      PROVE  AllSummed(headers') /\ MinedBlocksSaved'
  BY <1>7 DEF SavedChainInv, AllSummed, MinedBlocksSaved, Idle, vars
<1>8. AllSummed(headers') /\ MinedBlocksSaved'
  BY <1>1, <1>2, <1>3, <1>4, <1>5, <1>6, <1>7
  DEF StorageNext, OpenTooNew, SetDifficulty, storageVars
<1> QED
  BY <1>0, <1>8 DEF SavedChainInv

\* When a mine_block returns, its block is in the database, and so is every block
\* before it, as a process would read them back: no call of the deployment ends
\* between the push of a block and the save.
THEOREM MinedBlocksAlwaysSaved ==
    (/\ WalletsSound /\ SoundDatabases /\ GenesisHeights \subseteq {0}
     /\ \A d \in Databases : Intact(d))
    => (StorageSpec /\ []DepositsFit => []MinedBlocksSaved)
<1> SUFFICES ASSUME WalletsSound, SoundDatabases, GenesisHeights \subseteq {0},
                    \A d \in Databases : Intact(d)
             PROVE  StorageSpec /\ []DepositsFit => []MinedBlocksSaved
  OBVIOUS
<1>1. StorageInit => SavedChainInv
  <2> SUFFICES ASSUME StorageInit PROVE SavedChainInv
    OBVIOUS
  <2>1. VaultInv
    BY VaultInit
  <2>2. LinkInv
    BY LinkInit DEF SoundDatabases
  <2>3. headers = << >> /\ ~up
    BY DEF StorageInit
  <2> QED
    BY <2>1, <2>2, <2>3 DEF SavedChainInv, AllSummed, MinedBlocksSaved
<1>2. SavedChainInv /\ DepositsFit /\ [StorageNext]_storageVars => SavedChainInv'
  BY SavedChainStep
<1>3. SavedChainInv => MinedBlocksSaved
  BY DEF SavedChainInv
<1> QED
  BY <1>1, <1>2, <1>3, PTL DEF StorageSpec

-----------------------------------------------------------------------------
(* The tip after a restart *)

\* What validate_block reads in the header of a block that mine_block pushed, apart from the
\* link and the difficulty, and that its checksum is not filled in again.
OwnHeader(h, b) ==
    h.hash = CalcHash(h.previous_hash, h.difficulty, b) /\ h.work /\ h.summed

OwnTip(blocks, hs, n) ==
    (Len(blocks) > n /\ Last(blocks).miner # NoMiner) => OwnHeader(hs[Len(blocks)], Last(blocks))

\* The accounts accts have the nonces that S left.
SettledIn(accts, S) ==
    \A x \in S : x.from # ZERO_ADDR =>
        /\ x.nonce >= 1 /\ x.nonce <= accts[x.from].nonce
        /\ \E y \in S : y.from = x.from /\ y.nonce = accts[x.from].nonce

\* A stored ledger whose last block this version mined goes with that block, and open
\* does not migrate it.
TipSaved(d) ==
    LET s == Stored(d) IN
    (Len(s.blocks) > s.image.foreign /\ Last(s.blocks).miner # NoMiner) =>
        /\ ~Outdated(d)
        /\ SoundBlock(Last(s.blocks))
        /\ SettledIn(s.image.accounts, Last(s.blocks).txs)
        /\ OwnHeader(s.headers[Len(s.blocks)], Last(s.blocks))

StandInv == LinkInv /\ TipFrom(foreign) /\ OwnTip(chain, headers, foreign) /\ TipSaved(db)

\* Neither the migration nor the filling of checksums touches who mined a block.
LEMMA MinersKept ==
    ASSUME NEW s, NEW lucky, s.blocks \in Seq(Block), NEW i \in DOMAIN s.blocks
    PROVE  /\ Migrate(s, lucky).blocks[i].miner = s.blocks[i].miner
           /\ Filled(s).blocks[i].miner = s.blocks[i].miner
<1>1. s.blocks[i] \in Block
  OBVIOUS
<1>2. Recounted(s.blocks[i]).miner = s.blocks[i].miner
  BY <1>1 DEF Recounted, Block
<1> QED
  BY <1>2 DEF Migrate, Filled

LEMMA LastKept ==
    ASSUME NEW s, NEW u, SameLedger(s, u), s.blocks \in Seq(Block),
           \A i \in DOMAIN s.blocks : u.blocks[i].miner = s.blocks[i].miner
    PROVE  /\ u.blocks \in Seq(Block) /\ Len(u.blocks) = Len(s.blocks)
           /\ Len(s.blocks) > 0 => Last(u.blocks).miner = Last(s.blocks).miner
<1>1. u.blocks \in Seq(Block) /\ DOMAIN u.blocks = DOMAIN s.blocks
  BY DEF SameLedger
<1>2. Len(u.blocks) = Len(s.blocks) /\ Len(s.blocks) \in Nat
  BY <1>1
<1>3. Len(s.blocks) > 0 => Len(s.blocks) \in DOMAIN s.blocks
  BY <1>2
<1> QED
  BY <1>1, <1>2, <1>3 DEF Last

\* A tip that this version mined is loaded as it was saved.
LEMMA FilledTip ==
    ASSUME NEW s, s.blocks \in Seq(Block), Len(s.blocks) > 0,
           NEW n, HeadersLinked(s.blocks, s.headers, n),
           OwnHeader(s.headers[Len(s.blocks)], Last(s.blocks))
    PROVE  /\ Last(Filled(s).blocks) = Last(s.blocks)
           /\ OwnHeader(Filled(s).headers[Len(s.blocks)], Last(s.blocks))
<1> DEFINE k == Len(s.blocks)
           h == s.headers[k]
<1>1. /\ k \in DOMAIN s.blocks /\ k \in DOMAIN s.headers /\ IsHeader(h)
      /\ Filled(s).blocks \in Seq(Block) /\ Len(Filled(s).blocks) = k
  <2>1. k \in Nat /\ k \in DOMAIN s.blocks /\ k \in 1 .. k
    OBVIOUS
  <2>2. DOMAIN s.headers = 1 .. k /\ IsHeader(h)
    BY <2>1 DEF HeadersLinked
  <2>3. Filled(s).blocks \in Seq(Block) /\ DOMAIN Filled(s).blocks = DOMAIN s.blocks
    BY MigrateSameLedger DEF SameLedger
  <2> QED
    BY <2>1, <2>2, <2>3
<1>2. Filled(s).blocks[k] = s.blocks[k]
  BY <1>1 DEF Filled, OwnHeader
<1>3. Filled(s).headers[k] = [h EXCEPT !.summed = TRUE]
  BY <1>1, Zenon DEF Filled
<1> HIDE DEF h
<1>4. /\ [h EXCEPT !.summed = TRUE].hash = h.hash
      /\ [h EXCEPT !.summed = TRUE].previous_hash = h.previous_hash
      /\ [h EXCEPT !.summed = TRUE].difficulty = h.difficulty
      /\ [h EXCEPT !.summed = TRUE].work = h.work
      /\ [h EXCEPT !.summed = TRUE].summed
  BY <1>1, Zenon DEF IsHeader
<1>5. OwnHeader(Filled(s).headers[k], Last(s.blocks))
  BY <1>3, <1>4, Zenon DEF OwnHeader, h
<1> QED
  BY <1>1, <1>2, <1>5 DEF Last

\* A process that loads d, migrated or not, starts with a settled tip.
LEMMA LoadTip ==
    ASSUME NEW d, NEW u, WellFormed(d), Intact(d), TipSaved(d), Load(u),
           \/ u = Filled(Stored(d))
           \/ \E lucky : u = Filled(Opened(d, lucky))
    PROVE  /\ OwnTip(chain', headers', foreign')
           /\ (Len(chain') > foreign' /\ Last(chain').miner # NoMiner) =>
                  SoundBlock(Last(chain')) /\ SettledIn(accounts', Last(chain').txs)
<1> DEFINE s == Stored(d)
<1>1. /\ s.blocks \in Seq(Block) /\ s.image.foreign \in Nat
      /\ HeadersLinked(s.blocks, s.headers, s.image.foreign)
  BY DEF WellFormed, Intact
<1>2. SameLedger(s, u) /\ \A i \in DOMAIN s.blocks : u.blocks[i].miner = s.blocks[i].miner
  <2>1. CASE u = Filled(s)
    BY <1>1, <2>1, OpenedSameLedger, MinersKept
  <2>2. ASSUME NEW lucky, u = Filled(Opened(d, lucky))
        PROVE  SameLedger(s, u) /\ \A i \in DOMAIN s.blocks : u.blocks[i].miner = s.blocks[i].miner
    <3>1. SameLedger(s, Opened(d, lucky)) /\ SameLedger(s, u)
      BY <2>2, OpenedSameLedger
    <3>2. Opened(d, lucky).blocks \in Seq(Block) /\ DOMAIN Opened(d, lucky).blocks = DOMAIN s.blocks
      BY <1>1, <3>1 DEF SameLedger
    <3>3. \A i \in DOMAIN s.blocks : Opened(d, lucky).blocks[i].miner = s.blocks[i].miner
      BY <1>1, MinersKept DEF Opened
    <3>4. \A i \in DOMAIN s.blocks : u.blocks[i].miner = Opened(d, lucky).blocks[i].miner
      BY <2>2, <3>2, MinersKept
    <3> QED
      BY <3>1, <3>3, <3>4
  <2> QED
    BY <2>1, <2>2
<1>3. /\ chain' = u.blocks /\ headers' = u.headers
      /\ foreign' = s.image.foreign /\ accounts' = s.image.accounts
  BY <1>2 DEF Load, SameLedger
<1>4. /\ Len(u.blocks) = Len(s.blocks) /\ Len(s.blocks) \in Nat
      /\ Len(s.blocks) > 0 => Last(u.blocks).miner = Last(s.blocks).miner
  BY <1>1, <1>2, LastKept
<1>5. ASSUME Len(u.blocks) > s.image.foreign, Last(u.blocks).miner # NoMiner
      PROVE  /\ OwnHeader(u.headers[Len(u.blocks)], Last(u.blocks))
             /\ SoundBlock(Last(u.blocks)) /\ SettledIn(s.image.accounts, Last(u.blocks).txs)
  <2>1. Len(s.blocks) > s.image.foreign /\ Last(s.blocks).miner # NoMiner /\ Len(s.blocks) > 0
    BY <1>1, <1>4, <1>5
  <2>2. /\ ~Outdated(d) /\ SoundBlock(Last(s.blocks))
        /\ SettledIn(s.image.accounts, Last(s.blocks).txs)
        /\ OwnHeader(s.headers[Len(s.blocks)], Last(s.blocks))
    BY <2>1 DEF TipSaved
  <2>3. u = Filled(s)
    BY <2>2 DEF Opened
  <2>4. Last(u.blocks) = Last(s.blocks) /\ OwnHeader(u.headers[Len(s.blocks)], Last(s.blocks))
    BY <1>1, <2>1, <2>2, <2>3, FilledTip
  <2> QED
    BY <1>4, <2>2, <2>4
<1> QED
  BY <1>3, <1>5 DEF OwnTip

LEMMA EmptyTip ==
    ASSUME NEW d, Stored(d).blocks = << >>, Stored(d).image.foreign \in Nat
    PROVE  TipSaved(d)
<1>1. Len(Stored(d).blocks) = 0
  OBVIOUS
<1> QED
  BY <1>1 DEF TipSaved

LEMMA StandInit ==
    ASSUME StorageInit, \A d \in Databases : WellFormed(d) /\ Intact(d) /\ WrittenByOthers(d)
    PROVE  StandInv
<1>1. LinkInv /\ db \in Databases
  BY LinkInit DEF StorageInit
<1>2. TipFrom(foreign)
  BY TipInit DEF StorageInit
<1>3. OwnTip(chain, headers, foreign)
  BY DEF StorageInit, Init, OwnTip
<1>4. TipSaved(db)
  <2>1. Len(Stored(db).blocks) \in Nat /\ Stored(db).image.foreign \in Nat
    BY <1>1 DEF WellFormed, Intact
  <2> QED
    BY <1>1, <2>1 DEF WrittenByOthers, TipSaved
<1> QED
  BY <1>1, <1>2, <1>3, <1>4 DEF StandInv

\* A process that has just started: no transaction is live.
LEMMA StandLoaded ==
    ASSUME StandInv, LinkInv', NEW u, Load(u),
           \/ u = Filled(Stored(db))
           \/ \E lucky : u = Filled(Opened(db, lucky))
    PROVE  TipFrom(foreign)' /\ OwnTip(chain, headers, foreign)'
<1>1. /\ OwnTip(chain', headers', foreign')
      /\ (Len(chain') > foreign' /\ Last(chain').miner # NoMiner) =>
             SoundBlock(Last(chain')) /\ SettledIn(accounts', Last(chain').txs)
  BY LoadTip DEF StandInv, LinkInv, StorageTypeInv
<1>2. call'.todo = {} /\ Live' = {}
  BY DEF Load, NoCall, Live
<1>3. TypeInv' /\ NonceLock'
  BY <1>2 DEF LinkInv, StorageTypeInv, NonceLock
<1>4. Last(chain)'.txs \ call'.todo = Last(chain)'.txs
  BY <1>2
<1>5. \A S : SettledIn(accounts', S) => SettledBy(S)'
  BY DEF SettledIn, SettledBy
<1> QED
  BY <1>1, <1>2, <1>3, <1>4, <1>5 DEF TipFrom

\* The steps of a running node, none of which changes what other versions wrote.
LEMMA StandRuns ==
    ASSUME StandInv, Next \/ UNCHANGED vars, \A tx \in call.todo : ~ApplyTxPanic(tx),
           foreign' = foreign
    PROVE  TipFrom(foreign)'
<1>1. PICK n \in Nat : n = foreign
  BY DEF StandInv, LinkInv
<1>2. TipFrom(n)
  BY <1>1 DEF StandInv, TipFrom
<1>3. TipFrom(n)'
  <2>1. CASE Next
    BY <1>2, <2>1, TipStep
  <2>2. CASE UNCHANGED vars
    <3>1. TypeInv' /\ NonceLock' /\ Live' = Live
      BY <1>2, <2>2, TypeInvStep DEF TipFrom, vars, NonceLock, Live
    <3>2. \A x \in Live' : Admitted(x)
      BY <1>2, <3>1 DEF TipFrom
    <3> QED
      BY <1>2, <2>2, <3>1, <3>2, TipKept DEF vars
  <2> QED
    BY <2>1, <2>2
<1> QED
  BY <1>1, <1>3 DEF TipFrom

\* mine_block pushes a block with a header of its own.
LEMMA OwnPushed ==
    ASSUME StandInv, chain' = chain \/ (\E b : chain' = Append(chain, b)), HeaderFollows,
           foreign' = foreign
    PROVE  OwnTip(chain, headers, foreign)'
<1>1. chain \in Seq(Block) /\ Len(chain) \in Nat
  BY DEF StandInv, LinkInv, StorageTypeInv, TypeInv, TypeOK
<1>2. CASE chain' = chain
  BY <1>1, <1>2 DEF HeaderFollows, StandInv
<1>3. ASSUME NEW b, chain' = Append(chain, b)
      PROVE  OwnTip(chain, headers, foreign)'
  <2> DEFINE h == Mined(Last(chain'))
  <2>1. Len(chain') = Len(chain) + 1
    BY <1>1, <1>3
  <2>2. headers' = Append(headers, h)
    BY <1>1, <2>1 DEF HeaderFollows
  <2>3. OwnHeader(h, Last(chain'))
    BY DEF OwnHeader, Mined, Header
  <2> HIDE DEF h
  <2>4. headers \in Seq({headers[i] : i \in 1 .. Len(chain)}) /\ Len(headers) = Len(chain)
    BY <1>1 DEF StandInv, LinkInv, HeadersLinked
  <2>5. headers'[Len(chain')] = h
    BY <1>1, <2>1, <2>2, <2>4
  <2> QED
    BY <2>3, <2>5 DEF OwnTip
<1> QED
  BY <1>2, <1>3

LEMMA StandStep ==
    ASSUME StandInv, [StorageNext]_storageVars, OverflowChecks = FALSE,
           GenesisHeights \subseteq {0}
    PROVE  StandInv'
<1>0. /\ LinkInv' /\ LinkInv /\ WellFormed(db) /\ Intact(db) /\ TypeOK
      /\ \A tx \in call.todo : ~ApplyTxPanic(tx)
  BY LinkStep, ReleaseNeverUnwinds DEF StandInv, LinkInv, StorageTypeInv, TypeInv
<1>1. ASSUME NEW d, Open(d)
      PROVE  StandInv'
  <2>1. PICK lucky : Load(Filled(Opened(db, lucky))) /\ db' = Rewritten(db, lucky)
    BY <1>1 DEF Open
  <2>2. TipFrom(foreign)' /\ OwnTip(chain, headers, foreign)'
    BY <1>0, <2>1, StandLoaded
  <2>3. TipSaved(Rewritten(db, lucky))
    <3>1. CASE Outdated(db)
      <4> DEFINE s == Stored(db)
                 v == Stored(Rewritten(db, lucky))
      <4>1. v = Migrate(s, lucky) /\ s.blocks \in Seq(Block) /\ s.image.foreign \in Nat
        BY <1>0, <3>1, RewrittenStored DEF Opened, WellFormed, Intact
      <4>2. SameLedger(s, v) /\ \A i \in DOMAIN s.blocks : v.blocks[i].miner = s.blocks[i].miner
        BY <4>1, MigrateSameLedger, MinersKept
      <4>3. /\ Len(v.blocks) = Len(s.blocks) /\ Len(s.blocks) \in Nat
            /\ Len(s.blocks) > 0 => Last(v.blocks).miner = Last(s.blocks).miner
        <5>1. v.blocks \in Seq(Block) /\ DOMAIN v.blocks = DOMAIN s.blocks
          BY <4>1, <4>2 DEF SameLedger
        <5> HIDE DEF s, v
        <5> QED
          BY <4>1, <4>2, LastKept, <5>1
      <4>4. v.image = s.image
        BY <4>2 DEF SameLedger
      <4>5. ~(Len(s.blocks) > s.image.foreign /\ Last(s.blocks).miner # NoMiner)
        BY <3>1 DEF StandInv, TipSaved
      <4>6. s.image.foreign \in Nat
        BY <4>1
      <4>7. ~(Len(v.blocks) > v.image.foreign /\ Last(v.blocks).miner # NoMiner)
        BY <4>3, <4>4, <4>5, <4>6
      <4> QED
        BY <4>7 DEF TipSaved
    <3>2. CASE ~Outdated(db)
      BY <3>2 DEF Rewritten, StandInv
    <3> QED
      BY <3>1, <3>2
  <2> QED
    BY <1>0, <2>1, <2>2, <2>3 DEF StandInv
<1>2. CASE New
  <2>1. TipFrom(foreign)' /\ OwnTip(chain, headers, foreign)'
    BY <1>0, <1>2, StandLoaded DEF New
  <2> QED
    BY <1>0, <1>2, <2>1 DEF New, StandInv
<1>3. CASE Crash
  <2>1. /\ Stored(EmptyDb) = [blocks |-> << >>, headers |-> << >>, image |-> FreshImage]
        /\ FreshImage.foreign = 0
    BY StoredForms DEF FreshImage
  <2>2. TipSaved(EmptyDb)
    BY <2>1, EmptyTip
  <2>3. /\ Len(chain') = 0 /\ foreign' = 0 /\ call'.todo = {} /\ Live' = {}
    BY <1>3, <2>1 DEF Crash, Load, NoCall, Live
  <2>4. TipFrom(foreign)'
    BY <1>0, <2>3 DEF TipFrom, LinkInv, StorageTypeInv, NonceLock
  <2>5. OwnTip(chain, headers, foreign)'
    BY <2>3 DEF OwnTip
  <2> QED
    BY <1>0, <1>3, <2>2, <2>4, <2>5 DEF Crash, StandInv
<1>4. CASE FinishMining \/ Persist
  <2>1. /\ chain' = chain /\ headers' = headers /\ foreign' = foreign
        /\ call' = NoCall /\ NoCall.todo = {} /\ (Next \/ UNCHANGED vars)
    BY <1>0, <1>4 DEF FinishMining, CreditMiner, NoCall, Next, Persist, TypeOK, vars
  <2>2. TipFrom(foreign)'
    BY <1>0, <2>1, StandRuns
  <2>4. /\ Stored(db').blocks = chain' /\ Stored(db').headers = headers'
        /\ Stored(db').image = Image' /\ ~Outdated(db')
        /\ Image'.foreign = foreign' /\ Image'.accounts = accounts'
    BY <1>4, SavedForm DEF FinishMining, Persist
  <2>5. OwnTip(chain, headers, foreign)'
    BY <2>1 DEF StandInv, OwnTip
  <2>6. (Len(chain') > foreign' /\ Last(chain').miner # NoMiner) =>
            SoundBlock(Last(chain')) /\ SettledIn(accounts', Last(chain').txs)
    <3>1. call'.todo = {}
      BY <2>1
    <3>2. Last(chain').txs \ call'.todo = Last(chain').txs
      BY <3>1
    <3>3. \A S : SettledBy(S)' => SettledIn(accounts', S)
      BY DEF SettledIn, SettledBy
    <3> QED
      BY <2>2, <3>2, <3>3 DEF TipFrom
  <2>7. TipSaved(db')
    BY <2>4, <2>5, <2>6 DEF TipSaved, OwnTip
  <2> QED
    BY <1>0, <2>2, <2>5, <2>7 DEF StandInv
<1>5. CASE SaveGenesis
  <2>1. Next /\ foreign' = foreign
    BY <1>5 DEF SaveGenesis, Next
  <2>2. TipFrom(foreign)'
    BY <1>0, <2>1, StandRuns
  <2>3. chain' = Append(chain, Genesis) /\ chain \in Seq(Block)
    BY <1>0, <1>5 DEF SaveGenesis, GenesisBlock, TypeOK
  <2>4. Last(chain').miner = NoMiner
    BY <2>3 DEF Last, Genesis
  <2>5. db'.chain = Bare(chain', headers')
    BY <1>5 DEF SaveGenesis
  <2>6. Stored(db').blocks = chain'
    BY <2>5 DEF Stored, Bare
  <2> QED
    BY <1>0, <2>2, <2>4, <2>6 DEF StandInv, OwnTip, TipSaved
<1>6. CASE Unsaved
  <2>1. Next /\ foreign' = foreign /\ HeaderFollows /\ db' = db
    BY <1>6 DEF Unsaved, Next
  <2>2. TipFrom(foreign)'
    BY <1>0, <2>1, StandRuns
  <2>3. chain' = chain \/ \E b : chain' = Append(chain, b)
    BY <1>6 DEF Unsaved, UnsavedStep, AddAccount, SubmitTransaction, RejectTransaction,
        DropTransaction, MineBlock, MineFeeOverflow, ApplyTx, ApplyTxPanic, CreditMinerPanic, vars
  <2>4. OwnTip(chain, headers, foreign)'
    BY <2>1, <2>3, OwnPushed
  <2> QED
    BY <1>0, <2>1, <2>2, <2>4 DEF StandInv
<1>7. ASSUME UNCHANGED <<vars, headers, db, foreign>>
      PROVE  StandInv'
  <2>1. TipFrom(foreign)'
    BY <1>0, <1>7, StandRuns
  <2>2. OwnTip(chain, headers, foreign)'
    BY <1>7 DEF StandInv, OwnTip, vars
  <2> QED
    BY <1>0, <1>7, <2>1, <2>2 DEF StandInv
<1> QED
  BY <1>1, <1>2, <1>3, <1>4, <1>5, <1>6, <1>7
  DEF StorageNext, OpenTooNew, SetDifficulty, storageVars

\* A node that is killed, in a call or between two, and opened again stands behind the
\* tip that it mined before: the accounts saved with the chain go with its last block.
\* It refuses that block only if a queue had a gap or if it is opened with another
\* difficulty.
THEOREM TipAlwaysStands ==
    (/\ OverflowChecks = FALSE /\ GenesisHeights \subseteq {0}
     /\ \A d \in Databases : WellFormed(d) /\ Intact(d) /\ WrittenByOthers(d))
    => (StorageSpec => []TipStandsAfterRestart)
<1> SUFFICES ASSUME OverflowChecks = FALSE, GenesisHeights \subseteq {0},
                    \A d \in Databases : WellFormed(d) /\ Intact(d) /\ WrittenByOthers(d)
             PROVE  StorageSpec => []TipStandsAfterRestart
  OBVIOUS
<1>1. StorageInit => StandInv
  BY StandInit
<1>2. StandInv /\ [StorageNext]_storageVars => StandInv'
  BY StandStep
<1>3. StandInv => TipStandsAfterRestart
  <2> SUFFICES ASSUME StandInv, up, Idle, Len(chain) > foreign, Last(chain).miner # NoMiner,
                      Gapless(Last(chain))
               PROVE  (HeaderValid(Len(chain)) /\ TipValid) <=> Last(headers).difficulty = difficulty
    BY DEF TipStandsAfterRestart
  <2> DEFINE k == Len(chain)
  <2>1. chain \in Seq(Block) /\ foreign \in Nat /\ k \in Nat /\ k \in 1 .. k
    BY DEF StandInv, LinkInv, StorageTypeInv, TypeInv, TypeOK
  <2>2. TipValid
    BY <2>1, TipVerdicts DEF StandInv
  <2>3. DOMAIN headers = 1 .. k /\ Linked(k)
    BY <2>1 DEF StandInv, LinkInv, HeadersLinked, Linked
  <2>4. Last(headers) = headers[k] /\ Last(chain) = chain[k]
    <3>1. Len(headers) = k
      BY <2>1, <2>3
    <3> QED
      BY <3>1 DEF Last
  <2>5. OwnHeader(headers[k], chain[k])
    BY <2>4 DEF StandInv, OwnTip
  <2> QED
    BY <2>2, <2>3, <2>4, <2>5 DEF HeaderValid, OwnHeader
<1> QED
  BY <1>1, <1>2, <1>3, PTL DEF StorageSpec

=============================================================================
