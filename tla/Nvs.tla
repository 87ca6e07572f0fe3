-------------------------------- MODULE Nvs --------------------------------
(***************************************************************************)
(* The settings region.  The migration keeps the first pages of the stock  *)
(* nvs partition and gives the rest away, so it may go ahead only when     *)
(* what the new firmware must find is whole inside that window.            *)
(* analyze_canonical_nvs (tools/safeboot_migration.py) decides that from   *)
(* the bytes; here are its operators, and the plug's storage library       *)
(* (external), which the capture may catch in the middle of a save.        *)
(*                                                                         *)
(* A blob is data records, each a header entry and the entries of its      *)
(* payload, and one index record that counts them.  The library writes a   *)
(* new version beside the old one and then erases the old one.  A page is  *)
(* never reclaimed here, and a key stands for its namespace too.           *)
(***************************************************************************)
EXTENDS Integers, FiniteSetsExt

CONSTANTS
  Required,    \* the keys the new firmware needs: its settings, the Wi-Fi's
  ChunksOf,    \* of each, the data records its blob has
  Entries,     \* entries of a page (126 in the code)
  Window,      \* pages both partition tables give to nvs
  Outside,     \* pages only the stock table gives to nvs
  MaxSaves,    \* bound: blobs written
  MaxRot       \* bound: pages or records that go bad

ASSUME NvsAssumption ==
  /\ ChunksOf \in [Required -> 1..128]  \* the numbers of one version
  /\ Entries \in Nat \ {0}
  /\ IsFiniteSet(Window) /\ Window # {} /\ Window \cap Outside = {}
  /\ MaxSaves \in Nat /\ MaxRot \in Nat

VARIABLES
  page,     \* the pages: state, whether the header's CRC holds, entries
  version,  \* the newest version of each key's blob, 0 for none
  job,      \* what the library is writing
  saves, rot

nvsVars == <<page, version, job, saves, rot>>

NoJob == [todo |-> "none"]
Pages == Window \cup Outside
EntryAt == 0..(Entries - 1)
Span == 2   \* bound: a data record's header and one entry of payload

-----------------------------------------------------------------------------
(* Entries.  The bits are kept apart from the bytes.  Successive versions   *)
(* count their chunks from 0 and from 128.  "sound": the CRCs and the       *)
(* length hold.  "of" is a history of whose version it is.                 *)

Start(v) == IF v % 2 = 1 THEN 0 ELSE 128
Empty == [bits |-> "empty", type |-> "none"]
Erased == [bits |-> "erased", type |-> "none"]
Payload == [bits |-> "written", type |-> "payload"]
Data(k, v, c) ==
  [bits |-> "written", type |-> "data", key |-> k, span |-> Span, sound |-> TRUE,
   chunk |-> Start(v) + c, size |-> v, of |-> v]
Index(k, v) ==
  [bits |-> "written", type |-> "index", key |-> k, span |-> 1, sound |-> TRUE,
   start |-> Start(v), count |-> ChunksOf[k], total |-> v * ChunksOf[k], of |-> v]

-----------------------------------------------------------------------------
(* analyze_canonical_nvs *)

Written(p, i) == page[p].entry[i].bits = "written"
IsRecord(p, i) == Written(p, i) /\ page[p].entry[i].type \in {"data", "index"}
SpanWritten(p, i) ==
  /\ i + page[p].entry[i].span <= Entries
  /\ \A part \in i..(i + page[p].entry[i].span - 1) : Written(p, part)
Valid(p, i) == SpanWritten(p, i) /\ page[p].entry[i].sound

(* Mutant: the payload of a record is walked over like records.            *)
StepByOne(p, i) == 1

(* Where the walk goes on after entry i: behind the whole record.          *)
StepFrom(p, i) == IF IsRecord(p, i) THEN page[p].entry[i].span ELSE 1

Walked(p) ==
  LET reached[i \in EntryAt] ==
        i = 0 \/ \E j \in 0..(i - 1) : reached[j] /\ j + StepFrom(p, j) = i
  IN IF page[p].state = "empty" THEN {} ELSE {i \in EntryAt : reached[i]}

invalid_entries(p) ==
  {i \in Walked(p) : Written(p, i) /\ ~(IsRecord(p, i) /\ Valid(p, i))}

records(k, type) ==
  {r \in Window \X EntryAt :
     /\ r[2] \in Walked(r[1]) /\ IsRecord(r[1], r[2])
     /\ page[r[1]].entry[r[2]].key = k /\ page[r[1]].entry[r[2]].type = type}
Entry(r) == page[r[1]].entry[r[2]]

(* Mutant: an index and some chunk of it are enough.                       *)
CompleteInPart(k) ==
  \E b \in records(k, "index") : Entry(b).sound /\
    \E r \in records(k, "data") : Valid(r[1], r[2])

complete(k) ==
  LET indexes == {r \in records(k, "index") : Entry(r).sound} IN
  /\ Cardinality(indexes) = 1
  /\ \A b \in indexes :
       LET expected == {(Entry(b).start + n) % 256 : n \in 0..(Entry(b).count - 1)}
           chunks == {r \in records(k, "data") : Entry(r).chunk \in expected}
       IN /\ Entry(b).count > 0
          /\ Cardinality(chunks) = Entry(b).count
          /\ {Entry(r).chunk : r \in chunks} = expected
          /\ \A r \in chunks : Valid(r[1], r[2])
          /\ MapThenSumSet(LAMBDA r : Entry(r).size, chunks) = Entry(b).total

InState(pages, state) == {p \in pages : page[p].state = state}

ready ==
  /\ Cardinality(InState(Window, "active")) = 1
  /\ InState(Window, "empty") # {}
  /\ \A p \in Window : page[p].state = "empty" \/ page[p].header
  /\ \A p \in Window : invalid_entries(p) = {}
  /\ \A k \in Required : records(k, "data") \cup records(k, "index") # {} /\ complete(k)

-----------------------------------------------------------------------------
(* The storage library. *)

Idle == job.todo = "none"
Fresh(state) == [state |-> state, header |-> TRUE, entry |-> [i \in EntryAt |-> Empty]]

NvsInit ==
  /\ \E p \in Pages : page = [q \in Pages |-> Fresh(IF q = p THEN "active" ELSE "empty")]
  /\ version = [k \in Required |-> 0]
  /\ job = NoJob /\ saves = 0 /\ rot = 0

Free(p) == {i \in EntryAt : \A j \in i..(Entries - 1) : page[p].entry[j].bits = "empty"}
Active == CHOOSE p \in Pages : page[p].state = "active"
Spot == Min(Free(Active))
Doing(what) == job.todo = what
Need == IF Doing("data") THEN Span ELSE 1
Room == Cardinality(Free(Active)) >= Need

SetEntry(p, i, e) == page' = [page EXCEPT ![p].entry[i] = e]
Todo(what, c) == job' = [job EXCEPT !.todo = what, !.chunk = c]
NewVersion == version[job.key] + 1
Last == ChunksOf[job.key] - 1

Save(k) ==
  /\ Idle /\ saves < MaxSaves /\ saves' = saves + 1
  /\ job' = [key |-> k, todo |-> "data", chunk |-> 0]
  /\ UNCHANGED <<page, version, rot>>

(* The page is full: the library goes on in any page that is empty.        *)
TurnPage ==
  /\ (Doing("data") \/ Doing("index")) /\ ~Room
  /\ \E p \in InState(Pages, "empty") :
       page' = [page EXCEPT ![Active].state = "full", ![p].state = "active"]
  /\ UNCHANGED <<version, job, saves, rot>>

WriteData ==
  /\ Doing("data") /\ Room
  /\ SetEntry(Active, Spot, Data(job.key, NewVersion, job.chunk))
  /\ Todo("payload", job.chunk) /\ UNCHANGED <<version, saves, rot>>

WritePayload ==
  /\ Doing("payload")
  /\ SetEntry(Active, Spot, Payload)
  /\ IF job.chunk < Last THEN Todo("data", job.chunk + 1) ELSE Todo("index", 0)
  /\ UNCHANGED <<version, saves, rot>>

(* With its index the new version is the blob.                             *)
WriteIndex ==
  /\ Doing("index") /\ Room
  /\ SetEntry(Active, Spot, Index(job.key, NewVersion))
  /\ version' = [version EXCEPT ![job.key] = NewVersion]
  /\ IF version[job.key] = 0 THEN job' = NoJob ELSE Todo("unindex", 0)
  /\ UNCHANGED <<saves, rot>>

Old(e, type) ==
  e.type = type /\ e.key = job.key /\ e.of = version[job.key] - 1

EraseIndex ==
  /\ Doing("unindex")
  /\ \E p \in Pages, i \in EntryAt :
       Old(page[p].entry[i], "index") /\ SetEntry(p, i, Erased)
  /\ Todo("shred", 0) /\ UNCHANGED <<version, saves, rot>>

(* A record's entries are erased from its end.                             *)
ErasePayload ==
  /\ Doing("shred")
  /\ \E p \in Pages, i \in EntryAt :
       /\ Old(page[p].entry[i], "data")
       /\ page[p].entry[i].chunk = Start(version[job.key] - 1) + job.chunk
       /\ SetEntry(p, i + 1, Erased)
  /\ Todo("erase", job.chunk) /\ UNCHANGED <<version, saves, rot>>

EraseData ==
  /\ Doing("erase")
  /\ \E p \in Pages, i \in EntryAt :
       /\ Old(page[p].entry[i], "data")
       /\ page[p].entry[i].chunk = Start(version[job.key] - 1) + job.chunk
       /\ SetEntry(p, i, Erased)
  /\ IF job.chunk < Last THEN Todo("shred", job.chunk + 1) ELSE job' = NoJob
  /\ UNCHANGED <<version, saves, rot>>

(* A page's header or a record's bytes go bad.                             *)
Rot ==
  /\ rot < MaxRot /\ rot' = rot + 1
  /\ \E p \in Pages :
       /\ page[p].state # "empty"
       /\ \/ page' = [page EXCEPT ![p].header = FALSE]
          \/ \E i \in EntryAt :
               IsRecord(p, i) /\ page' = [page EXCEPT ![p].entry[i].sound = FALSE]
  /\ UNCHANGED <<version, job, saves>>

NvsNext ==
  \/ \E k \in Required : Save(k)
  \/ TurnPage \/ WriteData \/ WritePayload \/ WriteIndex
  \/ EraseIndex \/ ErasePayload \/ EraseData \/ Rot

-----------------------------------------------------------------------------
(* The entries themselves, walked over or not. *)

Holds(k, type, v) ==
  {r \in Window \X EntryAt :
     Entry(r).type = type /\ Entry(r).key = k /\ Entry(r).of = v}

(* Version v of a blob can be read back from the window alone: its index,   *)
(* each chunk with its payload, all sound, in pages with good headers, and  *)
(* no index of another version.                                            *)
Whole(k, v) ==
  LET parts == Holds(k, "index", v) \cup Holds(k, "data", v) IN
  /\ Cardinality(Holds(k, "index", v)) = 1
  /\ {Entry(r).chunk : r \in Holds(k, "data", v)} =
       {Start(v) + c : c \in 0..(ChunksOf[k] - 1)}
  /\ \A r \in parts : Valid(r[1], r[2]) /\ page[r[1]].header
  /\ \A w \in 1..version[k] : w # v => Holds(k, "index", w) = {}

=============================================================================
