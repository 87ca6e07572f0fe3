---------------------------- MODULE MCJudgement ----------------------------
(* The stock table at its real addresses in a table of eight slots, the    *)
(* same partitions in another order, and sectors that are each wrong in    *)
(* one way; a window of three small pages and one page outside it.         *)
EXTENDS Judgement

mcPartition(type, offset, size) ==
  [magic |-> "partition", type |-> type, offset |-> offset, size |-> size]
mcOther(magic) == [magic |-> magic, type |-> 0, offset |-> 0, size |-> 0]

mcSource == <<
  mcPartition(1, 36864, 65536), mcPartition(1, 102400, 16384),
  mcPartition(1, 118784, 8192), mcPartition(1, 126976, 4096),
  mcPartition(0, 131072, 2031616), mcPartition(0, 2162688, 2031616)>>

mcSector(rows, digest, erased) ==
  [slot |-> [i \in 0..7 |-> IF i < Len(rows) THEN rows[i + 1] ELSE mcOther("other")],
   digest |-> digest, erased |-> erased]
mcTable(rows) == mcSector(Append(rows, mcOther("md5")), TRUE, TRUE)
mcWith(i, row) == mcTable([mcSource EXCEPT ![i] = row])

mcTables ==
  {mcTable(mcSource),
   mcTable(<<mcSource[6], mcSource[1], mcSource[3], mcSource[2], mcSource[4], mcSource[5]>>),
   mcTable(<<>>), mcTable(<<mcSource[1], mcSource[1]>>),
   mcSector(Append(mcSource, mcOther("md5")), FALSE, TRUE),
   mcSector(Append(mcSource, mcOther("md5")), TRUE, FALSE),
   mcSector(Append(mcSource, mcOther("marred md5")), TRUE, TRUE),
   mcSector(mcSource \o <<mcSource[1], mcSource[1]>>, TRUE, TRUE),
   mcSector(mcSource, TRUE, TRUE),
   mcWith(1, mcPartition(1, 32768, 4096)),        \* over the table itself
   mcWith(2, mcPartition(1, 102400, 20480)),      \* into the next partition
   mcWith(2, mcPartition(1, 102400, 0)),
   mcWith(3, mcPartition(1, 118784 + 16, 4096)),  \* a data partition off its sector
   mcWith(5, mcPartition(0, 135168, 2027520)),    \* an app partition off 64 KiB
   mcWith(6, mcPartition(0, 2162688, 2097152))}   \* past the end of the flash

mcChunksOf == [k \in Required |-> IF k = "Settings" THEN 2 ELSE 1]

=============================================================================
