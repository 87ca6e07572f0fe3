--------------------------- MODULE ArtifactProofs ---------------------------
(***************************************************************************)
(* Proofs about the artifacts of tools/safeboot_migration.py: the          *)
(* addresses (Layout), the reading of partition tables (PartitionTable),   *)
(* and the files the host's tools prepare and serve (Bundle), for every    *)
(* value of the constants.  The three share no variable.                   *)
(***************************************************************************)
EXTENDS Layout, PartitionTable, Bundle, TLAPS

(* The addresses. *)

(* A Safeboot that validate_native_image lets pass is whole sectors of its  *)
(* partition, at least one.                                                *)
LEMMA AlignedSize ==
  ASSUME SizeAccepted
  PROVE  /\ Sector(sector_aligned_size(SafebootSize)) \in Nat \ {0}
         /\ Sector(sector_aligned_size(SafebootSize)) <= 208
         /\ sector_aligned_size(SafebootSize) \in Nat
         /\ sector_aligned_size(SafebootSize) <= SAFEBOOT_SIZE
PROOF
<1> DEFINE n == (SafebootSize + 4095) \div 4096
<1>1. SafebootSize \in Nat /\ 0 < SafebootSize /\ SafebootSize <= 851968
  BY SMT DEF SizeAccepted, SAFEBOOT_SIZE
<1>2. n \in Nat /\ 0 < n /\ n <= 208
  BY SMT, <1>1
<1>3. sector_aligned_size(SafebootSize) = n * 4096
  BY SMT, <1>1 DEF sector_aligned_size, SECTOR_SIZE
<1>4. (n * 4096) \div 4096 = n
  BY SMT, <1>2
<1> HIDE DEF n
<1> QED
  BY SMT, <1>2, <1>3, <1>4 DEF Sector, SECTOR_SIZE, SAFEBOOT_SIZE

(* The code's addresses, with any Safeboot it accepts, satisfy what Commit  *)
(* and CommitProofs assume of a layout.                                    *)
THEOREM LayoutOfTheCode == SizeAccepted => Flash!LayoutAssumption
PROOF
<1> SUFFICES ASSUME SizeAccepted PROVE Flash!LayoutAssumption
  OBVIOUS
<1> DEFINE n == Sector(sector_aligned_size(SafebootSize))
<1>1. /\ Sector(TABLE_OFFSET) = 8
      /\ SectorsOf(CANONICAL_NVS_OFFSET, CANONICAL_NVS_SIZE) = 9..13
      /\ SectorsOf(NEW_OTADATA_OFFSET, OTADATA_SIZE) = 14..15
      /\ SectorsOf(OLD_OTADATA_OFFSET, OTADATA_SIZE) = 29..30
      /\ Sector(SAFEBOOT_OFFSET) = 16
      /\ Sector(SAFEBOOT_STAGE_OFFSET) = 32
      /\ Sector(SAFEBOOT_SIZE) = 208
      /\ Sector(SOURCE_PARTITIONS.nvs[1] + SOURCE_PARTITIONS.nvs[2]) = 25
  BY SMT DEF Sector, SectorsOf, SECTOR_SIZE, TABLE_OFFSET, CANONICAL_NVS_OFFSET,
         CANONICAL_NVS_SIZE, NEW_OTADATA_OFFSET, OLD_OTADATA_OFFSET, OTADATA_SIZE,
         SAFEBOOT_OFFSET, SAFEBOOT_STAGE_OFFSET, OLD_OTA0_OFFSET, SAFEBOOT_SIZE,
         SOURCE_PARTITIONS
<1>2. n \in Nat \ {0} /\ n <= 208
  BY SMT, AlignedSize
<1> HIDE DEF n
<1>3. 29..30 # {}
  OBVIOUS
<1> QED
  BY SMT, <1>1, <1>2, <1>3 DEF Flash!LayoutAssumption, n

(* The addresses are the ones in the partition tables, and nothing the      *)
(* migration writes from ota_1 reaches ota_1.                              *)
THEOREM AddressesOfTheTables == SizeAccepted => AddressesAgree /\ RunningSlotClear
PROOF
<1> SUFFICES ASSUME SizeAccepted PROVE AddressesAgree /\ RunningSlotClear
  OBVIOUS
<1>1. AddressesAgree
  BY SMT DEF AddressesAgree, SOURCE_PARTITIONS, TARGET_PARTITIONS, CANONICAL_NVS_OFFSET,
         CANONICAL_NVS_SIZE, OLD_OTADATA_OFFSET, NEW_OTADATA_OFFSET, OTADATA_SIZE,
         SAFEBOOT_OFFSET, SAFEBOOT_SIZE, SAFEBOOT_STAGE_OFFSET, OLD_OTA0_OFFSET
<1>2. RunningSlotClear
  BY SMT, AlignedSize DEF RunningSlotClear, SOURCE_PARTITIONS, SAFEBOOT_STAGE_OFFSET,
     OLD_OTA0_OFFSET, OLD_OTA1_OFFSET, SAFEBOOT_OFFSET, SAFEBOOT_SIZE, FLASH_SIZE
<1> QED
  BY <1>1, <1>2

-----------------------------------------------------------------------------
(* The reading of a table accepts sound tables only, and refuses none of    *)
(* them over its bounds, for any number of slots and any addresses.        *)
(* validate_partition_bounds compares a partition only with the end of the *)
(* one before it: that no two overlap follows from these ends alone, that  *)
(* no sound table is refused needs the sort.                               *)

LEMMA SlotFacts ==
  ASSUME TableTypeOK, NEW i \in entries
  PROVE  /\ i \in 0..(Slots - 1) /\ start(i) \in Nat /\ end(i) \in Nat
         /\ TableEnd \in Nat /\ FlashSize \in Nat /\ previous_end \in Nat
PROOF
<1>1. sector \in [slot : [0..(Slots - 1) -> Slot], digest : BOOLEAN, erased : BOOLEAN]
  BY TableAssumption DEF TableTypeOK
<1>2. i \in 0..(Slots - 1)
  BY DEF TableTypeOK
<1>3. sector.slot[i] \in Slot
  BY <1>1, <1>2
<1>4. sector.slot[i].offset \in Nat /\ sector.slot[i].size \in Nat
  BY <1>3 DEF Slot
<1> QED
  BY SMT, <1>2, <1>4, TableAssumption DEF start, end, TableTypeOK

LEMMA TableInitInv == TableInit => TableInv
PROOF
<1> SUFFICES ASSUME TableInit PROVE TableInv
  OBVIOUS
<1> QED
  BY SMT, TableAssumption DEF TableInit, TableInv, TableTypeOK

(* One more partition is bounded: it begins behind all that was bounded.    *)
LEMMA BoundOne ==
  ASSUME TableInv, verdict = "bounding", NEW i \in left, Bounded(i),
         \A j \in left : Before(i, j),
         left' = left \ {i}, previous_end' = end(i), verdict' = verdict,
         UNCHANGED <<sector, at, entries>>
  PROVE  TableInv'
PROOF
<1>1. TableTypeOK /\ left \subseteq entries /\ i \in entries
  BY DEF TableInv, TableTypeOK
<1>2. \A j \in entries : start(j) \in Nat /\ end(j) \in Nat
  BY <1>1, SlotFacts
<1>3. previous_end \in Nat /\ TableEnd \in Nat /\ FlashSize \in Nat
  BY <1>1, SlotFacts
<1>4. \A j : start(j)' = start(j) /\ end(j)' = end(j) /\ Placed(j)' = Placed(j)
  BY DEF start, end, Placed, Aligned
<1>5. \A j, k : Apart(j, k)' = Apart(j, k)
  BY <1>4 DEF Apart
<1>6. Swept' = Swept \cup {i}
  BY <1>1 DEF Swept
<1>7. /\ TableEnd <= previous_end
      /\ \A j \in Swept : Placed(j) /\ end(j) <= previous_end
      /\ \A j, k \in Swept : j # k => Apart(j, k)
      /\ \A j \in Swept, k \in left : start(j) <= start(k)
  BY DEF TableInv
<1>8. previous_end <= start(i) /\ start(i) < end(i) /\ end(i) <= FlashSize /\ Aligned(i)
  BY DEF Bounded
<1>9. Placed(i)
  <2>1. TableEnd <= start(i)
    BY SMT, <1>1, <1>2, <1>3, <1>7, <1>8
  <2> QED
    BY <2>1, <1>8 DEF Placed
<1>10. \A j \in Swept : end(j) <= start(i)
  BY SMT, <1>1, <1>2, <1>3, <1>7, <1>8 DEF Swept
<1>11. TableTypeOK'
  BY <1>1, <1>2 DEF TableTypeOK
<1>12. (TableEnd <= previous_end)'
  BY SMT, <1>1, <1>2, <1>3, <1>7, <1>8
<1>13. \A j \in Swept' : Placed(j)' /\ end(j)' <= previous_end'
  <2>1. \A j \in Swept : end(j) <= end(i)
    BY SMT, <1>1, <1>2, <1>8, <1>10 DEF Swept
  <2>2. end(i) <= end(i)
    BY SMT, <1>1, <1>2
  <2> QED
    BY <1>4, <1>6, <1>7, <1>9, <2>1, <2>2
<1>14. \A j, k \in Swept' : j # k => Apart(j, k)'
  <2>1. \A j \in Swept : Apart(j, i) /\ Apart(i, j)
    BY <1>10 DEF Apart
  <2> QED
    BY <1>5, <1>6, <1>7, <2>1
<1>15. \A j \in Swept', k \in left' : start(j)' <= start(k)'
  <2>1. \A k \in left : start(i) <= start(k)
    BY SMT, <1>1, <1>2 DEF Before
  <2> QED
    BY <1>4, <1>6, <1>7, <2>1
<1>16. \E j \in Swept' : previous_end' = end(j)'
  BY <1>4, <1>6
<1> QED
  BY <1>11, <1>12, <1>13, <1>14, <1>15, <1>16 DEF TableInv

(* The next partition does not fit: the table is not sound.  It begins no   *)
(* earlier than the one that ends at previous_end, so that if it begins     *)
(* before that end the two share a byte.                                   *)
LEMMA RefusedUnsound ==
  ASSUME TableInv, verdict = "bounding", NEW i \in left, ~Bounded(i),
         \A j \in left : Before(i, j)
  PROVE  ~Sound
PROOF
<1>1. TableTypeOK /\ left \subseteq entries /\ i \in entries
  BY DEF TableInv, TableTypeOK
<1>2. \A j \in entries : start(j) \in Nat /\ end(j) \in Nat
  BY <1>1, SlotFacts
<1>3. previous_end \in Nat /\ TableEnd \in Nat /\ FlashSize \in Nat
  BY <1>1, SlotFacts
<1>4. CASE ~Placed(i)
  BY <1>1, <1>4 DEF Sound
<1>5. CASE Placed(i)
  <2>1. ~(previous_end <= start(i)) /\ TableEnd <= start(i) /\ start(i) < end(i)
    BY <1>5 DEF Placed, Bounded
  <2>2. PICK j \in Swept : previous_end = end(j)
    BY SMT, <1>1, <1>2, <1>3, <2>1 DEF TableInv
  <2>3. j \in entries /\ j # i /\ start(j) <= start(i) /\ Placed(j)
    BY <2>2 DEF TableInv, Swept
  <2>4. ~Apart(i, j)
    BY SMT, <1>1, <1>2, <2>1, <2>2, <2>3 DEF Apart
  <2> QED
    BY <1>1, <2>3, <2>4 DEF Sound
<1> QED
  BY <1>4, <1>5

LEMMA BoundInv == TableInv /\ Bound => TableInv'
PROOF
<1> SUFFICES ASSUME TableInv, Bound PROVE TableInv'
  OBVIOUS
<1>1. verdict = "bounding" /\ sector' = sector /\ at' = at /\ entries' = entries
  BY DEF Bound
<1>2. PICK i \in left :
        /\ \A j \in left : Before(i, j)
        /\ IF Bounded(i)
             THEN left' = left \ {i} /\ previous_end' = end(i) /\ verdict' = verdict
             ELSE verdict' = "refused" /\ left' = left /\ previous_end' = previous_end
  BY DEF Bound
<1>3. CASE Bounded(i)
  BY <1>1, <1>2, <1>3, BoundOne
<1>4. CASE ~Bounded(i)
  <2>1. verdict' = "refused" /\ left' = left /\ previous_end' = previous_end
    BY <1>2, <1>4
  <2>2. ~Sound
    BY <1>1, <1>2, <1>4, RefusedUnsound
  <2>3. Sound' = Sound
    BY <1>1 DEF Sound, Placed, Aligned, Apart, start, end
  <2>4. TableTypeOK'
    BY <1>1, <2>1 DEF TableInv, TableTypeOK
  <2> QED
    BY <2>1, <2>2, <2>3, <2>4 DEF TableInv
<1> QED
  BY <1>3, <1>4

(* The other steps bound nothing.                                          *)
LEMMA TableStepInv == TableInv /\ [TableNext]_tableVars => TableInv'
PROOF
<1> SUFFICES ASSUME TableInv, [TableNext]_tableVars PROVE TableInv'
  OBVIOUS
<1>1. CASE ReadPartition
  <2>1. /\ verdict = "reading" /\ verdict' = verdict /\ sector' = sector
        /\ previous_end' = previous_end /\ left' = left
        /\ entries' = entries \cup {at} /\ at' = at + 1 /\ at < Slots
    BY <1>1 DEF ReadPartition, StillReading, Magic
  <2>2. at \in 0..Slots /\ Slots \in Nat /\ entries \subseteq 0..(Slots - 1)
    BY <2>1, TableAssumption DEF TableInv, TableTypeOK
  <2>3. at \in 0..(Slots - 1) /\ at' \in 0..Slots
    BY SMT, <2>1, <2>2
  <2>4. TableTypeOK'
    BY <2>1, <2>2, <2>3 DEF TableInv, TableTypeOK
  <2> QED
    BY <2>1, <2>4 DEF TableInv
<1>2. CASE ReadMd5
  <2>1. /\ verdict = "reading" /\ sector' = sector /\ previous_end' = previous_end
        /\ at' = at /\ entries' = entries
        /\ \/ verdict' = "bounding" /\ left' = entries
           \/ /\ verdict' = "refused" /\ left' = left
              /\ ~(entries # {} /\ sector.digest /\ sector.erased)
    BY <1>2 DEF ReadMd5, StillReading
  <2>2. previous_end = TableEnd /\ TableEnd \in Nat
    BY <2>1, TableAssumption DEF TableInv
  <2>3. TableTypeOK'
    BY <2>1 DEF TableInv, TableTypeOK
  <2>4. CASE verdict' = "bounding"
    <3>1. Swept' = {} /\ left' = entries
      BY <2>1, <2>4 DEF Swept
    <3>2. (TableEnd <= previous_end)'
      BY SMT, <2>1, <2>2
    <3> QED
      BY <2>1, <2>2, <2>3, <2>4, <3>1, <3>2 DEF TableInv
  <2>5. CASE verdict' = "refused"
    BY <2>1, <2>3, <2>5 DEF TableInv
  <2> QED
    BY <2>1, <2>4, <2>5
<1>3. CASE ReadOther
  <2>1. /\ UNCHANGED <<sector, previous_end, at, entries, left>> /\ verdict' = "refused"
        /\ (Magic("marred md5") \/ Magic("other") \/ at = Slots)
    BY <1>3 DEF ReadOther, StillReading
  <2>2. ~Magic("md5")'
    <3>1. CASE at = Slots
      BY SMT, <2>1, <3>1, TableAssumption DEF Magic
    <3>2. CASE at # Slots
      BY <2>1, <3>2 DEF Magic
    <3> QED
      BY <3>1, <3>2
  <2> QED
    BY <2>1, <2>2 DEF TableInv, TableTypeOK
<1>4. CASE Bound
  BY <1>4, BoundInv
<1>5. CASE Accept
  <2>1. UNCHANGED <<sector, at, entries, left, previous_end>> /\ left = {}
        /\ verdict = "bounding" /\ verdict' = "accepted"
    BY <1>5 DEF Accept
  <2> QED
    BY <2>1 DEF TableInv, TableTypeOK, Swept, Placed, Aligned, Apart, start, end
<1>6. CASE UNCHANGED tableVars
  BY <1>6 DEF tableVars, TableInv, TableTypeOK, Swept, Placed, Aligned, Sound, Magic, Apart, start, end
<1> QED
  BY <1>1, <1>2, <1>3, <1>4, <1>5, <1>6 DEF TableNext

(* An accepted table's partitions lie in the flash behind the table, where  *)
(* their types may begin, and share no byte; a table of which that is true  *)
(* is not refused over its bounds.                                         *)
THEOREM TablesAreJudgedRight == TableSpec => []TableSound
PROOF
<1>1. TableInv => TableSound
  BY DEF TableInv, TableSound, Swept, Sound
<1> QED
  BY <1>1, TableInitInv, TableStepInv, PTL DEF TableSpec

-----------------------------------------------------------------------------
(* The bundle, for any number of recovery images, manifests, servers and    *)
(* mishaps.                                                                *)

Identified == {"image", "official", "evidence", "up"}
ImageRead == {"official", "evidence", "up"}
AllRead == {"evidence", "up"}

(* The manifest on the disk is the last one that was written.              *)
FilesInv ==
  /\ out.manifest.id = Len(built)
  /\ Len(built) # 0 => out.manifest.build = built[Len(built)]
  /\ preparer.pc \in {"copy", "image", "validation", "manifest"} => preparer.build \in Builds

(* A server goes by the manifest it loaded, takes an identity that is not  *)
(* older, and starts with no record that is younger than what it loaded:   *)
(* so when a record carries its identity, the two are one manifest's.      *)
ServerInv ==
  server.pc # "none" =>
    /\ server.loaded.id \in 1..Len(built)
    /\ server.loaded.build = built[server.loaded.id]
    /\ \A p \in PHASES : Recorded(p) => evidence[p].id <= server.loaded.id
    /\ server.pc \in Identified => server.id \in server.loaded.id..Len(built)
    /\ server.pc \in ImageRead => server.image = server.loaded.build
    /\ server.pc \in AllRead => server.official = "pinned"
    /\ server.pc = "up" /\ server.phase # "preflight" => server.id = server.loaded.id

EvidenceInv ==
  \A p \in PHASES : Recorded(p) => evidence[p].id \in 1..Len(built)

IInv == TypeOK /\ FilesInv /\ ServerInv /\ EvidenceInv /\ IdentityTruth

-----------------------------------------------------------------------------
(* Nothing is prepared, served or recorded at first.                       *)
LEMMA InitIInv == Init => IInv
<1> SUFFICES ASSUME Init PROVE IInv
  OBVIOUS
<1>1. <<>> \in Seq(Builds) /\ Len(<<>>) = 0
  OBVIOUS
<1>2. TypeOK
  BY <1>1, BundleAssumption
  DEF Init, TypeOK, NoManifest, NoPreparer, NoServer, NoEvidence, PHASES, Official,
      Images, Manifest, NoFile
<1> QED
  BY <1>1, <1>2
  DEF Init, IInv, FilesInv, ServerInv, EvidenceInv, IdentityTruth, Recorded, NoManifest,
      NoServer, NoEvidence, NoPreparer

(* A preparation leaves servers and records alone, and until its last step  *)
(* the manifest.                                                           *)
LEMMA PrepareStep ==
  IInv /\ (Prepare \/ Fetch \/ Judge \/ Record \/ Kill
             \/ (\E build \in Builds : PrepareRecovery(build))) => IInv'
<1> SUFFICES ASSUME IInv,
                    Prepare \/ Fetch \/ Judge \/ Record \/ Kill
                      \/ (\E build \in Builds : PrepareRecovery(build))
             PROVE  IInv'
  OBVIOUS
<1> USE DEF Prepare, Fetch, Judge, Record, Kill, PrepareRecovery, Prepares, serverVars,
            fileVars, At, Then, Stop, Mishap, NoPreparer
<1>1. UNCHANGED <<out, built, server, evidence, servers>>
  OBVIOUS
<1>2. TypeOK'
  BY <1>1, BundleAssumption DEF IInv, TypeOK, Official, Images, NoFile
<1>3. FilesInv'
  BY <1>1 DEF IInv, FilesInv, TypeOK
<1> QED
  BY <1>1, <1>2, <1>3 DEF IInv, ServerInv, EvidenceInv, IdentityTruth, Recorded

LEMMA CopyStep == IInv /\ (Copy \/ WriteImage \/ WriteValidation) => IInv'
<1> SUFFICES ASSUME IInv, Copy \/ WriteImage \/ WriteValidation PROVE IInv'
  OBVIOUS
<1> USE DEF Copy, WriteImage, WriteValidation, Prepares, serverVars, At, Then, Stop, Mishap,
            NoPreparer
<1>1. UNCHANGED <<built, server, evidence, servers>> /\ out'.manifest = out.manifest
  BY DEF IInv, TypeOK
<1>2. TypeOK'
  BY <1>1, BundleAssumption DEF IInv, TypeOK, FilesInv, Official, Images, NoFile
<1>3. FilesInv'
  BY <1>1 DEF IInv, FilesInv, TypeOK
<1> QED
  BY <1>1, <1>2, <1>3 DEF IInv, ServerInv, EvidenceInv, IdentityTruth, Recorded

(* A manifest that is written is younger than any that was loaded.         *)
LEMMA WriteManifestStep == IInv /\ WriteManifest => IInv'
<1> SUFFICES ASSUME IInv, WriteManifest PROVE IInv'
  OBVIOUS
<1> USE DEF WriteManifest, Prepares, serverVars, At, Stop
<1>1. preparer.build \in Builds /\ built \in Seq(Builds)
  BY DEF IInv, FilesInv, TypeOK
<1>2. /\ built' \in Seq(Builds) /\ Len(built') = Len(built) + 1 /\ Len(built) \in Nat
      /\ built'[Len(built')] = preparer.build
      /\ \A n \in 1..Len(built) : built'[n] = built[n]
  BY <1>1
<1>3. /\ out' \in [official : Official, image : Images, validation : Images, manifest : Manifest]
      /\ out'.manifest = [id |-> Len(built) + 1, build |-> preparer.build]
  <2>1. out \in [official : Official, image : Images, validation : Images, manifest : Manifest]
    BY DEF IInv, TypeOK
  <2>2. [id |-> Len(built) + 1, build |-> preparer.build] \in Manifest
    BY <1>1, <1>2 DEF Manifest, Images
  <2> QED
    BY <2>1, <2>2
<1>4. TypeOK'
  BY <1>2, <1>3 DEF IInv, TypeOK, NoPreparer, Images, NoFile
<1>5. FilesInv'
  BY <1>2, <1>3 DEF FilesInv, NoPreparer
<1>6. ServerInv'
  BY <1>2 DEF IInv, ServerInv, Recorded, TypeOK, Manifest
<1>7. EvidenceInv' /\ IdentityTruth'
  BY <1>2 DEF IInv, EvidenceInv, IdentityTruth, Recorded, TypeOK
<1> QED
  BY <1>4, <1>5, <1>6, <1>7 DEF IInv

-----------------------------------------------------------------------------
LEMMA ServeStep == ASSUME NEW phase \in PHASES, IInv, Serve(phase) PROVE IInv'
<1> USE DEF Serve, Reading, fileVars
<1>1. server' = [pc |-> "files", phase |-> phase, loaded |-> out.manifest, id |-> 0,
                 image |-> NoFile, official |-> NoFile]
  BY DEF NoServer
<1>2. TypeOK'
  BY <1>1, BundleAssumption DEF IInv, TypeOK, Official, Images, NoFile, PHASES
<1>3. Len(built) \in Nat /\ out.manifest.id = Len(built) /\ Len(built) # 0
  BY DEF IInv, TypeOK, FilesInv
<1>4. ServerInv'
  BY <1>1, <1>3 DEF IInv, ServerInv, FilesInv, EvidenceInv, Recorded, Identified, ImageRead, AllRead
<1> QED
  BY <1>2, <1>4 DEF IInv, FilesInv, EvidenceInv, IdentityTruth, Recorded

(* A server that starts: each check goes on, or gives up.                  *)
LEMMA StartingStep == IInv /\ Starting => IInv'
<1> SUFFICES ASSUME IInv, Starting PROVE IInv'
  OBVIOUS
<1>1. UNCHANGED <<base, out, preparer, built, mishaps, evidence, servers>>
  BY DEF Starting, VerifyFiles, VerifyProvenance, Identify, ReadImage, ReadFiles, Admit,
         Reading, Keeps, fileVars
<1>2. FilesInv' /\ EvidenceInv' /\ IdentityTruth'
  BY <1>1 DEF IInv, FilesInv, EvidenceInv, IdentityTruth, Recorded
<1>3. CASE server' = NoServer
  <2>1. TypeOK'
    BY <1>1, <1>3 DEF IInv, TypeOK, NoServer, NoManifest, Manifest, Images, Official, NoFile, PHASES
  <2>2. ServerInv'
    BY <1>3 DEF ServerInv, NoServer
  <2> QED
    BY <1>2, <2>1, <2>2 DEF IInv
<1>4. CASE server' # NoServer
  <2>1. /\ server.pc # "up" /\ server.pc # "none" /\ server.phase \in PHASES
        /\ server.loaded \in Manifest /\ server.loaded.id \in Nat /\ server.id \in Nat
        /\ server.image \in Images /\ server.official \in Official
        /\ out.image \in Images /\ out.official \in Official
        /\ out.manifest.id = Len(built) /\ Len(built) \in Nat
    <3>1. server.pc # "up" /\ server.pc # "none"
      BY DEF Starting, VerifyFiles, VerifyProvenance, Identify, ReadImage, ReadFiles, Admit, Reading
    <3> QED
      BY <3>1 DEF IInv, TypeOK, FilesInv, Manifest
  <2>2. /\ server.loaded.id \in 1..Len(built)
        /\ server.loaded.build = built[server.loaded.id]
        /\ \A p \in PHASES : Recorded(p) => evidence[p].id <= server.loaded.id
        /\ server.pc \in Identified => server.id \in server.loaded.id..Len(built)
        /\ server.pc \in ImageRead => server.image = server.loaded.build
        /\ server.pc \in AllRead => server.official = "pinned"
    BY <2>1 DEF IInv, ServerInv
  <2>3. /\ server'.phase = server.phase /\ server'.loaded = server.loaded
        /\ server'.pc = NextStep[server.pc]
        /\ server' = [pc |-> server'.pc, phase |-> server.phase, loaded |-> server.loaded,
                      id |-> server'.id, image |-> server'.image, official |-> server'.official]
        /\ server.pc # "identity" => server'.id = server.id
        /\ server.pc = "identity" => server'.id = Len(built)
        /\ server.pc # "image" => server'.image = server.image
        /\ server.pc = "image" => server'.image = out.image /\ out.image = server.loaded.build
        /\ server.pc # "official" => server'.official = server.official
        /\ server.pc = "official" => server'.official = "pinned" /\ out.official = "pinned"
        /\ server.pc = "evidence" => Admits(server.phase, server.id, server.image)
        /\ server.pc \in {"files", "provenance", "identity", "image", "official", "evidence"}
    <3>1. server \in [pc : {"none", "files", "provenance", "identity", "image", "official",
                           "evidence", "up"},
                      phase : PHASES, loaded : Manifest, id : Nat, image : Images,
                      official : Official]
      BY DEF IInv, TypeOK
    <3> QED
      BY <1>4, <2>1, <3>1
      DEF Starting, VerifyFiles, VerifyProvenance, Identify, ReadImage, ReadFiles, Admit,
          Reading, Proceed, AsLoaded
  <2>4. server'.pc \in {"provenance", "identity", "image", "official", "evidence", "up"}
        /\ (server'.pc = "up" <=> server.pc = "evidence")
        /\ (server'.pc \in Identified <=> server.pc \in {"identity"} \cup (Identified \ {"up"}))
        /\ (server'.pc \in ImageRead <=> server.pc \in {"image"} \cup (ImageRead \ {"up"}))
        /\ (server'.pc \in AllRead <=> server.pc \in {"official"} \cup (AllRead \ {"up"}))
    BY <2>3 DEF NextStep, Identified, ImageRead, AllRead
  <2>5. TypeOK'
    <3>1. /\ server'.id \in Nat /\ server'.image \in Images /\ server'.official \in Official
      BY <2>1, <2>3
    <3>2. server' \in [pc : {"none", "files", "provenance", "identity", "image", "official",
                            "evidence", "up"},
                       phase : PHASES, loaded : Manifest, id : Nat, image : Images,
                       official : Official]
      BY <2>1, <2>3, <2>4, <3>1
    <3> QED
      BY <1>1, <3>2 DEF IInv, TypeOK
  <2>6. ASSUME server.pc = "evidence", server.phase # "preflight"
        PROVE  server.id = server.loaded.id
    <3>1. \E p \in PHASES : evidence[p].status = "PASS" /\ evidence[p].id = server.id
      BY <2>1, <2>3, <2>6 DEF Admits, Fits, PHASES
    <3>2. server.id <= server.loaded.id
      BY <2>2, <3>1 DEF Recorded
    <3>3. server.id \in server.loaded.id..Len(built)
      BY <2>2, <2>6 DEF Identified
    <3> QED
      BY <2>1, <3>2, <3>3
  <2>7. ServerInv'
    <3>1. server'.pc \in Identified => server'.id \in server'.loaded.id..Len(built)
      BY <2>1, <2>2, <2>3, <2>4
    <3>2. server'.pc \in ImageRead => server'.image = server'.loaded.build
      BY <2>2, <2>3, <2>4
    <3>3. server'.pc \in AllRead => server'.official = "pinned"
      BY <2>2, <2>3, <2>4
    <3>4. server'.pc = "up" /\ server'.phase # "preflight" => server'.id = server'.loaded.id
      BY <2>3, <2>4, <2>6
    <3> QED
      BY <1>1, <2>2, <2>3, <3>1, <3>2, <3>3, <3>4 DEF ServerInv, Recorded
  <2> QED
    BY <1>2, <2>5, <2>7 DEF IInv
<1> QED
  BY <1>3, <1>4

(* A phase ends; its record is of what the server read.                    *)
LEMMA FinishStep == IInv /\ Finish => IInv'
<1> SUFFICES ASSUME IInv, Finish PROVE IInv'
  OBVIOUS
<1>1. UNCHANGED <<base, out, preparer, built, mishaps, servers>> /\ server' = NoServer
      /\ server.pc = "up"
  BY DEF Finish, Reading, fileVars
<1>2. FilesInv' /\ ServerInv'
  BY <1>1 DEF IInv, FilesInv, ServerInv, NoServer
<1>3. server.id \in 1..Len(built) /\ server.phase \in PHASES /\ server.id \in Nat
      /\ server.image \in Images /\ Len(built) \in Nat
      /\ (server.phase # "preflight" => server.image = built[server.id])
  BY <1>1 DEF IInv, ServerInv, TypeOK, Identified, ImageRead
<1>4. CASE UNCHANGED evidence
  <2>1. TypeOK'
    BY <1>1, <1>4 DEF IInv, TypeOK, NoServer, NoManifest, Manifest, Images, Official, NoFile, PHASES
  <2> QED
    BY <1>1, <1>2, <1>4, <2>1 DEF IInv, EvidenceInv, IdentityTruth, Recorded
<1>5. ASSUME NEW status \in {"PASS", "FAIL"}, NEW nvs \in Captures,
             evidence' = [evidence EXCEPT ![server.phase] =
               [status |-> status, id |-> server.id, image |-> server.image,
                nvs |-> nvs, fresh |-> TRUE]]
      PROVE  IInv'
  <2>1. TypeOK'
    BY <1>1, <1>3, <1>5 DEF IInv, TypeOK, NoServer, NoManifest, Manifest, Images, Official, NoFile, PHASES
  <2>2. EvidenceInv' /\ IdentityTruth'
    BY <1>1, <1>3, <1>5 DEF IInv, EvidenceInv, IdentityTruth, Recorded, TypeOK
  <2> QED
    BY <1>2, <2>1, <2>2 DEF IInv
<1> QED
  BY <1>4, <1>5 DEF Finish

LEMMA AgeStep == IInv /\ Age => IInv'
<1> SUFFICES ASSUME IInv, Age PROVE IInv'
  OBVIOUS
<1>1. /\ UNCHANGED <<base, out, preparer, server, servers, built>>
      /\ mishaps' \in 0..MaxMishaps
      /\ evidence' = [p \in PHASES |-> [evidence[p] EXCEPT !.fresh = FALSE]]
  BY BundleAssumption DEF Age, fileVars, Mishap, IInv, TypeOK
<1>2. \A p \in PHASES : evidence'[p].status = evidence[p].status
        /\ evidence'[p].id = evidence[p].id /\ evidence'[p].image = evidence[p].image
  BY <1>1 DEF IInv, TypeOK
<1>3. TypeOK'
  <2>1. ASSUME NEW p \in PHASES
        PROVE  evidence'[p] \in [status : {"none", "PASS", "FAIL"}, id : Nat, image : Images,
                                 nvs : Captures \cup {NoFile}, fresh : BOOLEAN]
    <3>1. evidence[p] \in [status : {"none", "PASS", "FAIL"}, id : Nat, image : Images,
                           nvs : Captures \cup {NoFile}, fresh : BOOLEAN]
      BY DEF IInv, TypeOK
    <3>2. evidence'[p] = [evidence[p] EXCEPT !.fresh = FALSE]
      BY <1>1
    <3> QED
      BY <3>1, <3>2
  <2> QED
    BY <1>1, <2>1 DEF IInv, TypeOK
<1> QED
  BY <1>1, <1>2, <1>3 DEF IInv, FilesInv, ServerInv, EvidenceInv, IdentityTruth, Recorded

-----------------------------------------------------------------------------
(* The inductive invariant holds in every state.                           *)
THEOREM InductiveInvariant == Spec => []IInv
<1>1. IInv /\ [Next]_vars => IInv'
  <2> SUFFICES ASSUME IInv, [Next]_vars PROVE IInv'
    OBVIOUS
  <2>1. CASE Preparing
    BY <2>1, PrepareStep, CopyStep, WriteManifestStep DEF Preparing
  <2>2. CASE Prepare \/ (\E build \in Builds : PrepareRecovery(build)) \/ Kill
    BY <2>2, PrepareStep
  <2>3. ASSUME NEW phase \in PHASES, Serve(phase) PROVE IInv'
    BY <2>3, ServeStep
  <2>4. CASE Starting
    BY <2>4, StartingStep
  <2>5. CASE Finish \/ Age
    BY <2>5, FinishStep, AgeStep
  <2>6. CASE UNCHANGED vars
    BY <2>6 DEF vars, IInv, TypeOK, FilesInv, ServerInv, EvidenceInv, IdentityTruth, Recorded
  <2> QED
    BY <2>1, <2>2, <2>3, <2>4, <2>5, <2>6 DEF Next
<1> QED
  BY <1>1, InitIInv, PTL DEF Spec

(* Every variable stays in its type. *)
THEOREM BundleTypeCorrect == Spec => []TypeOK
BY InductiveInvariant, PTL DEF IInv

(* The record of a writing phase is of the image its manifest names.       *)
THEOREM RecordsAreOfTheirManifest == Spec => []IdentityTruth
BY InductiveInvariant, PTL DEF IInv

(* What a server serves are the pinned artifacts and its manifest's image.  *)
THEOREM ServesWhatItLoaded == Spec => []ServedPinned
<1>1. IInv => ServedPinned
  BY DEF IInv, ServerInv, ServedPinned, ImageRead, AllRead
<1> QED
  BY <1>1, InductiveInvariant, PTL

=============================================================================
