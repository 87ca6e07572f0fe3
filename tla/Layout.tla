------------------------------- MODULE Layout -------------------------------
(***************************************************************************)
(* The addresses of tools/safeboot_migration.py, which the programs for    *)
(* the plug are filled in with, and that they are a layout as Commit and   *)
(* its proofs assume: with them those theorems are about this plug.        *)
(***************************************************************************)
EXTENDS Naturals

CONSTANT SafebootSize   \* bytes of the Safeboot being installed

FLASH_SIZE == 4194304
SECTOR_SIZE == 4096

(* Where a partition begins, and its bytes.                                *)
SOURCE_PARTITIONS ==
  [nvs      |-> <<36864, 65536>>,    reserve |-> <<102400, 16384>>,
   otadata  |-> <<118784, 8192>>,    phy_init |-> <<126976, 4096>>,
   ota_0    |-> <<131072, 2031616>>, ota_1   |-> <<2162688, 2031616>>]
TARGET_PARTITIONS ==
  [nvs      |-> <<36864, 20480>>,    otadata |-> <<57344, 8192>>,
   safeboot |-> <<65536, 851968>>,   app0    |-> <<917504, 2949120>>,
   spiffs   |-> <<3866624, 327680>>]

TABLE_OFFSET == 32768
CANONICAL_NVS_OFFSET == 36864
CANONICAL_NVS_SIZE == 20480
OLD_OTADATA_OFFSET == 118784
NEW_OTADATA_OFFSET == 57344
OTADATA_SIZE == 8192
OLD_OTA0_OFFSET == 131072
OLD_OTA1_OFFSET == 2162688
SAFEBOOT_OFFSET == 65536
SAFEBOOT_SIZE == 851968
SAFEBOOT_STAGE_OFFSET == OLD_OTA0_OFFSET

sector_aligned_size(size) == ((size + SECTOR_SIZE - 1) \div SECTOR_SIZE) * SECTOR_SIZE

(* validate_native_image, of the size; an image is never empty.            *)
SizeAccepted == SafebootSize \in Nat /\ 0 < SafebootSize /\ SafebootSize <= SAFEBOOT_SIZE

Sector(offset) == offset \div SECTOR_SIZE
SectorsOf(offset, size) == Sector(offset)..(Sector(offset + size) - 1)

(* Commit's flash, at these addresses.                                     *)
Flash == INSTANCE S60Flash WITH
  Table <- Sector(TABLE_OFFSET),
  LiveNvs <- SectorsOf(CANONICAL_NVS_OFFSET, CANONICAL_NVS_SIZE),
  NewOta <- SectorsOf(NEW_OTADATA_OFFSET, OTADATA_SIZE),
  OldOta <- SectorsOf(OLD_OTADATA_OFFSET, OTADATA_SIZE),
  NvsEnd <- Sector(SOURCE_PARTITIONS.nvs[1] + SOURCE_PARTITIONS.nvs[2]),
  Dst <- Sector(SAFEBOOT_OFFSET),
  D <- Sector(SAFEBOOT_STAGE_OFFSET) - Sector(SAFEBOOT_OFFSET),
  T <- Sector(SAFEBOOT_SIZE),
  L <- Sector(sector_aligned_size(SafebootSize))

(* The addresses are the partitions' own: the settings begin both tables'   *)
(* nvs and fill the target's, the boot records and Safeboot are where the   *)
(* tables say.                                                             *)
AddressesAgree ==
  /\ SOURCE_PARTITIONS.nvs[1] = CANONICAL_NVS_OFFSET
  /\ CANONICAL_NVS_SIZE <= SOURCE_PARTITIONS.nvs[2]
  /\ TARGET_PARTITIONS.nvs = <<CANONICAL_NVS_OFFSET, CANONICAL_NVS_SIZE>>
  /\ SOURCE_PARTITIONS.otadata = <<OLD_OTADATA_OFFSET, OTADATA_SIZE>>
  /\ TARGET_PARTITIONS.otadata = <<NEW_OTADATA_OFFSET, OTADATA_SIZE>>
  /\ TARGET_PARTITIONS.safeboot = <<SAFEBOOT_OFFSET, SAFEBOOT_SIZE>>
  /\ SOURCE_PARTITIONS.ota_0[1] = SAFEBOOT_STAGE_OFFSET

(* What is written while ota_1 runs - the staged copy, the installed one   *)
(* with the erased rest of its partition, the boot records, the table -     *)
(* ends below ota_1, and the staged copy inside ota_0.                     *)
RunningSlotClear ==
  /\ SAFEBOOT_STAGE_OFFSET + sector_aligned_size(SafebootSize)
       <= SOURCE_PARTITIONS.ota_0[1] + SOURCE_PARTITIONS.ota_0[2]
  /\ SOURCE_PARTITIONS.ota_0[1] + SOURCE_PARTITIONS.ota_0[2] <= OLD_OTA1_OFFSET
  /\ SAFEBOOT_OFFSET + SAFEBOOT_SIZE <= OLD_OTA1_OFFSET
  /\ SOURCE_PARTITIONS.ota_1 = <<OLD_OTA1_OFFSET, FLASH_SIZE - OLD_OTA1_OFFSET>>

=============================================================================
