------------------------------ MODULE S60Flash ------------------------------
(***************************************************************************)
(* The flash of the plug as the device-side programs see it: 4 KiB sectors *)
(* addressed by their number, the regions of the stock (source) and the    *)
(* canonical (target) partition tables, and what the bootloader does with  *)
(* them.  Sector contents are abstract: what matters is only which sector  *)
(* of which image, table or boot record a sector holds.                    *)
(*                                                                         *)
(* The addresses are parameters, so that TLC can shrink the regions and    *)
(* the proofs hold for every layout of this shape.  In the code Table = 8, *)
(* LiveNvs = 9..13, NewOta = {14, 15}, Dst = 16, D = 16, NvsEnd = 25,      *)
(* OldOta = {29, 30}, T = 208 and L is Safeboot's length in sectors.       *)
(***************************************************************************)
EXTENDS Naturals

CONSTANTS
  Table,    \* the sector of the partition table (0x8000)
  LiveNvs,  \* the settings sectors both tables share (0x9000 - 0xDFFF)
  NewOta,   \* the target table's otadata (0xE000 - 0xFFFF)
  Dst,      \* first sector of the target table's safeboot partition (0x10000)
  D,        \* distance from Dst up to the staging address (0x20000)
  L,        \* Safeboot's length, rounded up to sectors
  T,        \* size of the safeboot partition
  NvsEnd,   \* the end of the source table's nvs, which is longer (0x19000)
  OldOta    \* the source table's otadata (0x1D000 - 0x1EFFF)

ASSUME LayoutAssumption ==
  /\ Table \in Nat /\ Dst \in Nat /\ T \in Nat
  /\ D \in Nat \ {0} /\ L \in Nat \ {0}
  /\ Table < Dst /\ L <= T
  /\ LiveNvs \subseteq 0..(Dst - 1) /\ NewOta \subseteq 0..(Dst - 1)
  /\ Table \notin LiveNvs \cup NewOta /\ LiveNvs \cap NewOta = {}
  /\ OldOta # {} /\ OldOta \subseteq Dst..(Dst + D - 1)
  /\ NvsEnd \in Nat /\ \A s \in OldOta : NvsEnd <= s

Src == Dst + D                          \* the staging address, old ota_0
Max2(a, b) == IF a >= b THEN a ELSE b
Sectors == 0..(Dst + Max2(T, D + L))    \* the last one is past every region

-----------------------------------------------------------------------------
(* Sector contents. *)

Img(i)    == <<"safeboot", i>>   \* sector i of the Safeboot being installed
DirtyEnd  == <<"dirtyPad", L - 1>> \* its last sector, padding not erased
Erased    == <<"erased", 0>>
Torn      == <<"torn", 0>>       \* erased and only partly programmed
Nvs       == <<"nvs", 0>>        \* the settings captured by preflight
Saved     == <<"nvs", 1>>        \* settings the firmware wrote since
Unseen    == <<"nvs", 2>>        \* the same, over what no check will read again
Stock(s)  == <<"stock", s>>      \* whatever the stock firmware left there
SrcTable  == <<"table", 0>>
TgtTable  == <<"table", 1>>
OldBoot   == <<"otadata", 0>>    \* boot records selecting old ota_1

Content ==
  {"safeboot", "dirtyPad", "erased", "torn", "nvs", "stock", "table", "otadata"}
    \X Nat

Region(base, n) == {base + i : i \in 0..(n - 1)}
(* The nvs of the source table; it reaches into the target's safeboot.     *)
SourceNvs == LiveNvs \cup NewOta \cup {s \in Sectors : Dst <= s /\ s < NvsEnd}
Tail == {s \in Sectors : Dst + L <= s /\ s < Dst + T}

(* The body of Safeboot is at base: what a SHA-256 over its exact length    *)
(* sees.  Bytes after the body, in its last sector, are the padding.        *)
BodyAt(f, base) ==
  \A i \in 0..(L - 1) : f[base + i] = Img(i) \/ (i = L - 1 /\ f[base + i] = DirtyEnd)
PadAt(f, base) == f[base + L - 1] = Img(L - 1)
ImageAt(f, base) == \A i \in 0..(L - 1) : f[base + i] = Img(i)

(* As the last check of a region left it: only settings saved after that    *)
(* can have changed it.                                                    *)
PutAt(f, base) == \A i \in 0..(L - 1) : f[base + i] \in {Img(i), Unseen}
Cleared(f, S) == \A s \in S : f[s] \in {Erased, Unseen}

Fill(f, S, c) == [s \in Sectors |-> IF s \in S THEN c ELSE f[s]]

(* The target layout is complete but for settings saved since its checks:  *)
(* the program's purpose, and what a PASS claims.                          *)
Canonical(f) ==
  /\ f[Table] = TgtTable
  /\ PutAt(f, Dst)
  /\ Cleared(f, Tail) /\ Cleared(f, NewOta)
  /\ \A s \in LiveNvs : f[s] \in {Nvs, Saved, Unseen}

-----------------------------------------------------------------------------
(* The bootloader (external, never rewritten): which image it may start.   *)
(* A table that fails its checksum starts nothing.  Under the source table *)
(* intact boot records select ota_1, where the program that runs the       *)
(* migration lives; damaged ones make it try ota_0 too, and it goes on to  *)
(* the next slot when an image does not verify.  Under the target table it *)
(* starts the factory partition, and nothing else there is an image.       *)
BootChoices(f) ==
  IF f[Table] = SrcTable
    THEN IF (\E s \in OldOta : f[s] # OldBoot) /\ BodyAt(f, Src)
           THEN {"high", "staged"} ELSE {"high"}
    ELSE IF f[Table] = TgtTable /\ BodyAt(f, Dst) THEN {"safeboot"} ELSE {}

=============================================================================
