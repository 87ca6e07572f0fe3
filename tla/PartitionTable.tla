--------------------------- MODULE PartitionTable ---------------------------
(***************************************************************************)
(* Reading a partition table sector (tools/safeboot_migration.py): slot by *)
(* slot up to the checksum entry (parse_partition_sector), then the bounds *)
(* of the partitions in the order of their addresses                       *)
(* (validate_partition_bounds).  Every tool that trusts a table reads it   *)
(* this way: the preparation the factory image's, the server the prepared  *)
(* target table and the one the plug uploads, the status tool again.       *)
(***************************************************************************)
EXTENDS Integers

CONSTANTS
  Slots,      \* 32-byte slots of the table's data (96 in the code)
  TableEnd,   \* where the table's own sector ends
  FlashSize, SectorSize, AppAlign,
  Tables      \* bound: the sectors that are read

(* A slot begins with a partition's magic, the checksum entry's, or        *)
(* anything else; what a slot means otherwise does not matter here.        *)
Slot == [magic : {"partition", "md5", "marred md5", "other"},
         type : Nat, offset : Nat, size : Nat]

ASSUME TableAssumption ==
  /\ Slots \in Nat \ {0} /\ TableEnd \in Nat /\ FlashSize \in Nat
  /\ SectorSize \in Nat \ {0} /\ AppAlign \in Nat \ {0}
  /\ Tables \subseteq [slot : [0..(Slots - 1) -> Slot], digest : BOOLEAN, erased : BOOLEAN]

VARIABLES
  sector,       \* the one that is read: its slots, whether the checksum
                \* entry is right, whether all that follows it is erased
  at,           \* the slot the loop is at
  entries,      \* slots that hold partitions
  left,         \* those not bounded yet
  previous_end, \* the address below which everything is taken
  verdict

tableVars == <<sector, at, entries, left, previous_end, verdict>>

TableTypeOK ==
  /\ sector \in Tables
  /\ at \in 0..Slots
  /\ entries \subseteq 0..(Slots - 1) /\ left \subseteq entries
  /\ previous_end \in Nat
  /\ verdict \in {"reading", "bounding", "accepted", "refused"}

TableInit ==
  /\ sector \in Tables
  /\ at = 0 /\ entries = {} /\ left = {}
  /\ previous_end = TableEnd
  /\ verdict = "reading"

start(i) == sector.slot[i].offset
end(i) == sector.slot[i].offset + sector.slot[i].size

-----------------------------------------------------------------------------
(* parse_partition_sector *)

StillReading == verdict = "reading" /\ UNCHANGED <<sector, previous_end>>
Magic(m) == at < Slots /\ sector.slot[at].magic = m

ReadPartition ==
  /\ StillReading /\ Magic("partition")
  /\ entries' = entries \cup {at} /\ at' = at + 1
  /\ UNCHANGED <<left, verdict>>

(* The loop stops here: what it has seen is judged as a whole.             *)
ReadMd5 ==
  /\ StillReading /\ Magic("md5")
  /\ IF entries # {} /\ sector.digest /\ sector.erased
       THEN verdict' = "bounding" /\ left' = entries
       ELSE verdict' = "refused" /\ UNCHANGED left
  /\ UNCHANGED <<at, entries>>

(* Reserved bytes of the checksum entry in use, another magic, or the loop  *)
(* is at its end: a table without a checksum.                              *)
ReadOther ==
  /\ StillReading /\ (Magic("marred md5") \/ Magic("other") \/ at = Slots)
  /\ verdict' = "refused"
  /\ UNCHANGED <<at, entries, left>>

(* Mutant: the partitions are taken in the table's order.                  *)
BeforeInTable(i, j) == i <= j

(* validate_partition_bounds: sorted by the address, in the table's order   *)
(* where addresses are equal.                                              *)
Before(i, j) == start(i) < start(j) \/ (start(i) = start(j) /\ i <= j)

Aligned(i) ==
  /\ sector.slot[i].type = 0 => start(i) % AppAlign = 0
  /\ sector.slot[i].type = 1 => start(i) % SectorSize = 0

(* Mutant: the partition only has to be above the table.                   *)
BoundedAlone(i) ==
  TableEnd <= start(i) /\ start(i) < end(i) /\ end(i) <= FlashSize /\ Aligned(i)

Bounded(i) ==
  previous_end <= start(i) /\ start(i) < end(i) /\ end(i) <= FlashSize /\ Aligned(i)

Bound ==
  /\ verdict = "bounding"
  /\ \E i \in left :
       /\ \A j \in left : Before(i, j)
       /\ IF Bounded(i)
            THEN /\ left' = left \ {i} /\ previous_end' = end(i)
                 /\ UNCHANGED verdict
            ELSE verdict' = "refused" /\ UNCHANGED <<left, previous_end>>
  /\ UNCHANGED <<sector, at, entries>>

Accept ==
  /\ verdict = "bounding" /\ left = {}
  /\ verdict' = "accepted"
  /\ UNCHANGED <<sector, at, entries, left, previous_end>>

TableNext == ReadPartition \/ ReadMd5 \/ ReadOther \/ Bound \/ Accept
TableSpec == TableInit /\ [][TableNext]_tableVars

-----------------------------------------------------------------------------
Apart(i, j) == end(i) <= start(j) \/ end(j) <= start(i)
Placed(i) ==
  TableEnd <= start(i) /\ start(i) < end(i) /\ end(i) <= FlashSize /\ Aligned(i)
Sound == (\A i \in entries : Placed(i)) /\ (\A i, j \in entries : i # j => Apart(i, j))

(* What whoever accepts a table relies on: every partition it names lies    *)
(* between the table's sector and the end of the flash, where its type may  *)
(* begin, and no two of them share a byte - whatever order they are in.     *)
(* And a table like that is not turned away over its bounds.               *)
TableSound ==
  /\ verdict = "accepted" => Sound
  /\ verdict = "refused" /\ Magic("md5") /\ entries # {} /\ sector.digest /\ sector.erased
       => ~Sound

(* What has been bounded lies below previous_end, where its last partition  *)
(* ends, and nothing that is left begins before any of it.                 *)
Swept == entries \ left
TableInv ==
  /\ TableTypeOK
  /\ verdict = "reading" => left = {} /\ previous_end = TableEnd
  /\ verdict = "accepted" => left = {}
  /\ verdict \in {"bounding", "accepted"} =>
       /\ TableEnd <= previous_end
       /\ previous_end = TableEnd \/ \E i \in Swept : previous_end = end(i)
       /\ \A i \in Swept : Placed(i) /\ end(i) <= previous_end
       /\ \A i, j \in Swept : i # j => Apart(i, j)
       /\ \A i \in Swept, j \in left : start(i) <= start(j)
  /\ verdict = "refused" /\ Magic("md5") /\ entries # {} /\ sector.digest /\ sector.erased
       => ~Sound

=============================================================================
