------------------------- MODULE JudgementProofs -------------------------
(***************************************************************************)
(* Proofs about what the server judges: the settings in a captured window  *)
(* (Judgement, over Nvs), and the imprinted image of a bundle (Imprint).   *)
(* The two share no variable.                                              *)
(***************************************************************************)
EXTENDS Judgement, Imprint, FiniteSetTheorems, WellFoundedInduction, TLAPS

-----------------------------------------------------------------------------
(* The invariant of the storage library: what lies where, at every moment  *)
(* of a save.  The judgement reads nothing but this.                        *)

(* Entry i of page p; a record, well written or not; a data record.        *)

At(p, i) == page[p].entry[i]
IsRec(p, i) == At(p, i).type \in {"data", "index"}
Header(p, i) == At(p, i).type = "data"

DataRecs ==
  [bits : {"written"}, type : {"data"}, key : Required, span : {Span}, sound : BOOLEAN,
   chunk : Nat, size : Nat, of : Nat]
IndexRecs ==
  [bits : {"written"}, type : {"index"}, key : Required, span : {1}, sound : BOOLEAN,
   start : Nat, count : Nat, total : Nat, of : Nat]
EntryRecs == {Empty, Erased, Payload} \cup DataRecs \cup IndexRecs
PageRecs ==
  [state : {"empty", "active", "full"}, header : BOOLEAN, entry : [EntryAt -> EntryRecs]]
Jobs == {"data", "payload", "index", "unindex", "shred", "erase"}

(* Types; and only a blob that had a version is relieved of one.           *)
NvsTypes ==
  /\ page \in [Pages -> PageRecs]
  /\ version \in [Required -> Nat]
  /\ job \in {NoJob} \cup [key : Required, todo : Jobs, chunk : Nat]
  /\ saves \in Nat /\ rot \in Nat
  /\ job # NoJob => job.chunk <= Last
  /\ Doing("unindex") \/ Doing("shred") \/ Doing("erase") => version[job.key] > 1

(* One page is active, and an empty page is empty.                         *)
PagesInv ==
  /\ \E p \in Pages : page[p].state = "active"
  /\ \A p, q \in Pages : page[p].state = "active" /\ page[q].state = "active" => p = q
  /\ \A p \in Pages, i \in EntryAt : page[p].state = "empty" => At(p, i) = Empty
  /\ \A p \in Pages : rot = 0 => page[p].header

(* A header has its payload behind it, whole or erased, unless it is the   *)
(* last entry written and the payload is what the job writes next; and no   *)
(* payload lies anywhere else.  So the walk never stops inside a record.    *)
Tip(p, i) ==
  /\ Doing("payload") /\ page[p].state = "active"
  /\ At(p, i).key = job.key /\ At(p, i).of = NewVersion
  /\ At(p, i).chunk = Start(NewVersion) + job.chunk
  /\ \A j \in EntryAt : j > i => At(p, j) = Empty
NextInv ==
  \A p \in Pages, i \in EntryAt : Header(p, i) =>
    i + 1 \in EntryAt /\ (At(p, i + 1) \in {Payload, Erased} \/ Tip(p, i))
TipInv == Doing("payload") => \E p \in Pages, i \in EntryAt : Header(p, i) /\ Tip(p, i)
PayloadInv == \A p \in Pages, i \in EntryAt : At(p, i) = Payload => i > 0 /\ Header(p, i - 1)
(* A chunk's payload is erased before its header.                          *)
OldChunk(e) == Old(e, "data") /\ e.chunk = Start(version[job.key] - 1) + job.chunk
ShredInv ==
  Doing("erase") =>
    \A p \in Pages, i \in EntryAt : OldChunk(At(p, i)) => At(p, i + 1) = Erased
FollowInv == NextInv /\ TipInv /\ PayloadInv /\ ShredInv

(* Chunk c of version v is there only as the newest version's, as one the   *)
(* job has written of the next, or as one it has not yet erased of the last. *)
Ahead(k, v, c) ==
  /\ v = version[k] + 1 /\ ~Idle /\ k = job.key
  /\ \/ Doing("data") /\ c < job.chunk
     \/ Doing("payload") /\ c <= job.chunk
     \/ Doing("index")
Behind(k, v, c) ==
  /\ v = version[k] - 1 /\ ~Idle /\ k = job.key
  /\ Doing("unindex") \/ ((Doing("shred") \/ Doing("erase")) /\ c >= job.chunk)
ChunkNo(e) == e.chunk - Start(e.of)
Proper(e) == ChunkNo(e) \in 0..(ChunksOf[e.key] - 1) /\ e.size = e.of /\ e.of > 0
Current(e) ==
  e.of = version[e.key] \/ Ahead(e.key, e.of, ChunkNo(e)) \/ Behind(e.key, e.of, ChunkNo(e))
Alive(e) == Proper(e) /\ Current(e)
ProperIndex(e) ==
  e.start = Start(e.of) /\ e.count = ChunksOf[e.key] /\ e.total = e.of * ChunksOf[e.key] /\ e.of > 0
CurrentIndex(e) ==
  e.of = version[e.key] \/ (e.of = version[e.key] - 1 /\ Doing("unindex") /\ job.key = e.key)
AliveIndex(e) == ProperIndex(e) /\ CurrentIndex(e)
(* Every record is of a version the job accounts for.                      *)
RecordsInv ==
  \A p \in Pages, i \in EntryAt :
    /\ Header(p, i) => Alive(At(p, i))
    /\ At(p, i).type = "index" => AliveIndex(At(p, i))

(* No record is there twice.                                               *)
Same(e, f) ==
  /\ e.type = f.type /\ e.key = f.key /\ e.of = f.of
  /\ e.type = "data" => e.chunk = f.chunk
OnceInv ==
  \A p, q \in Pages, i, j \in EntryAt :
    IsRec(p, i) /\ IsRec(q, j) /\ Same(At(p, i), At(q, j)) => p = q /\ i = j

NvsInv == NvsTypes /\ PagesInv /\ FollowInv /\ RecordsInv /\ OnceInv

(* What a pass and a failure say of the settings, and what the judgement    *)
(* knows at each of its stages.                                             *)
Kept ==
  \A k \in Required :
    /\ \E v \in 1..version[k] : Whole(k, v)
    /\ Idle => Whole(k, version[k])
Earned ==
  \/ ~Idle \/ rot > 0
  \/ \E k \in Required : version[k] = 0 \/ ~Whole(k, version[k])
  \/ Cardinality(InState(Window, "active")) # 1 \/ InState(Window, "empty") = {}
JudgeInv ==
  /\ evidence = "PASS" => pc = "passed"
  /\ evidence = "FAIL" => pc = "refused" /\ Earned
  /\ pc \in {"report", "passed"} /\ mode = "official" => Kept

-----------------------------------------------------------------------------
(* Entries, pages and the place the next entry goes to. *)

LEMMA EntryIs ==
  ASSUME NEW e \in EntryRecs
  PROVE  /\ e.bits \in {"empty", "erased", "written"}
         /\ e.bits = "empty" <=> e = Empty
         /\ e.type = "payload" <=> e = Payload
         /\ e.bits = "written" <=> e.type \in {"payload", "data", "index"}
         /\ e.type \in {"none", "payload", "data", "index"}
         /\ e.type = "none" => e \in {Empty, Erased}
         /\ e.type = "data" => e \in DataRecs
         /\ e.type = "index" => e \in IndexRecs
BY DEF EntryRecs, DataRecs, IndexRecs, Empty, Erased, Payload

LEMMA EntryTyped ==
  ASSUME NvsTypes, NEW p \in Pages, NEW i \in EntryAt
  PROVE  At(p, i) \in EntryRecs
BY DEF NvsTypes, PageRecs, At

(* Min of the community modules is a CHOOSE; a set of numbers has one.     *)
LEMMA Least ==
  ASSUME NEW S \in SUBSET Nat, S # {}
  PROVE  Min(S) \in S /\ \A j \in S : Min(S) <= j
<1>1. PICK i \in S : \A j \in S : <<j, i>> \notin OpToRel(<, Nat)
  BY NatLessThanWellFounded, WFMin
<1>2. \A j \in S : ~(j < i)
  BY <1>1 DEF OpToRel
<1>3. \A j \in S : i <= j
  BY <1>2
<1> QED
  BY <1>3 DEF Min

LEMMA NewRecs ==
  ASSUME NEW k \in Required, NEW v \in Nat, NEW c \in Nat
  PROVE  /\ {Data(k, v, c), Index(k, v), Empty, Erased, Payload} \subseteq EntryRecs
         /\ Start(v) \in {0, 128}
<1>1. Start(v) \in {0, 128}
  BY DEF Start
<1>2. ChunksOf[k] \in Nat /\ v * ChunksOf[k] \in Nat /\ Start(v) + c \in Nat
  BY <1>1, NvsAssumption
<1> QED
  BY <1>1, <1>2 DEF EntryRecs, DataRecs, IndexRecs, Data, Index

(* Entry i of page p becomes e. *)
Changed(p, i, e) ==
  /\ page' \in [Pages -> PageRecs]
  /\ \A q \in Pages : page'[q].state = page[q].state /\ page'[q].header = page[q].header
  /\ \A q \in Pages, j \in EntryAt : At(q, j)' = IF q = p /\ j = i THEN e ELSE At(q, j)

LEMMA SetEntryIs ==
  ASSUME NvsTypes, NEW p \in Pages, NEW i \in EntryAt, NEW e \in EntryRecs, SetEntry(p, i, e)
  PROVE  Changed(p, i, e)
<1>1. page' = [page EXCEPT ![p] = [page[p] EXCEPT !.entry = [page[p].entry EXCEPT ![i] = e]]]
  BY DEF SetEntry
<1> DEFINE new == [page[p] EXCEPT !.entry = [page[p].entry EXCEPT ![i] = e]]
<1>2. new \in PageRecs /\ new.state = page[p].state /\ new.header = page[p].header
      /\ \A j \in EntryAt : new.entry[j] = IF j = i THEN e ELSE page[p].entry[j]
  BY DEF NvsTypes, PageRecs
<1> HIDE DEF new
<1>3. page' = [page EXCEPT ![p] = new]
  BY <1>1 DEF new
<1> QED
  BY <1>2, <1>3 DEF NvsTypes, Changed, At

(* Where the library writes: the first entry behind which all are empty.    *)
LEMMA ActiveIs ==
  ASSUME NvsTypes, PagesInv
  PROVE  /\ Active \in Pages /\ page[Active].state = "active"
         /\ \A p \in Pages : page[p].state = "active" => p = Active
<1>1. Active \in Pages /\ page[Active].state = "active"
  BY DEF PagesInv, Active
<1> QED
  BY <1>1 DEF PagesInv

LEMMA SpotIs ==
  ASSUME NvsTypes, PagesInv, Free(Active) # {}
  PROVE  /\ Spot \in EntryAt
         /\ \A j \in EntryAt : j >= Spot => At(Active, j) = Empty
         /\ \A i \in EntryAt : (\A j \in EntryAt : j >= i => At(Active, j) = Empty) => Spot <= i
<1>1. Active \in Pages
  BY ActiveIs
<1>2. \A i \in EntryAt : i \in Free(Active) <=> \A j \in EntryAt : j >= i => At(Active, j) = Empty
  <2> TAKE i \in EntryAt
  <2>1. \A j \in EntryAt : page[Active].entry[j].bits = "empty" <=> At(Active, j) = Empty
    BY <1>1, EntryTyped, EntryIs DEF At
  <2>2. \A j : j \in i..(Entries - 1) <=> j \in EntryAt /\ j >= i
    BY NvsAssumption DEF EntryAt
  <2> QED
    BY <2>1, <2>2 DEF Free
<1>3. Free(Active) \subseteq EntryAt /\ EntryAt \subseteq Nat
  BY DEF Free, EntryAt
<1>4. Spot \in Free(Active) /\ \A j \in Free(Active) : Spot <= j
  BY <1>3, Least DEF Spot
<1> QED
  BY <1>2, <1>3, <1>4

LEMMA RoomIs ==
  ASSUME NvsTypes, PagesInv, Room
  PROVE  Free(Active) # {} /\ (Doing("data") => Spot + 1 \in EntryAt)
<1>1. Free(Active) \subseteq EntryAt /\ IsFiniteSet(EntryAt)
  BY FS_Interval, NvsAssumption DEF Free, EntryAt
<1>2. IsFiniteSet(Free(Active)) /\ Cardinality(Free(Active)) >= Need
  BY <1>1, FS_Subset DEF Room
<1>3. Free(Active) # {}
  BY <1>2, FS_EmptySet DEF Need, Span
<1>4. ASSUME Doing("data"), Spot + 1 \notin EntryAt PROVE FALSE
  <2>1. Spot \in EntryAt /\ Free(Active) \subseteq {Spot}
    <3>1. Spot \in EntryAt /\ \A j \in Free(Active) : Spot <= j
      BY <1>1, <1>3, Least, SpotIs DEF Spot, EntryAt
    <3>2. Spot = Entries - 1
      BY <3>1, <1>4, NvsAssumption DEF EntryAt
    <3> QED
      BY <1>1, <3>1, <3>2, NvsAssumption DEF EntryAt
  <2>2. Cardinality(Free(Active)) <= 1
    <3>1. IsFiniteSet({Spot}) /\ Cardinality({Spot}) = 1
      BY FS_Singleton
    <3> HIDE DEF Spot
    <3> QED
      BY <2>1, <3>1, FS_Subset
  <2>3. Cardinality(Free(Active)) \in Nat
    BY <1>2, FS_CardinalityType
  <2> QED
    BY <1>2, <1>4, <2>2, <2>3 DEF Need, Span
<1> QED
  BY <1>3, <1>4

-----------------------------------------------------------------------------
(* What each action of the library does. *)

LEMMA JobIs ==
  ASSUME NvsTypes, ~Idle
  PROVE  /\ job \in [key : Required, todo : Jobs, chunk : Nat] /\ job.chunk <= Last
         /\ job.key \in Required /\ job.chunk \in Nat /\ version[job.key] \in Nat
         /\ ChunksOf[job.key] \in 1..128
BY NvsAssumption DEF NvsTypes, Idle, NoJob

(* The job goes on. *)
Goes(what, c) ==
  /\ ~Idle /\ ~Idle' /\ job'.key = job.key /\ job'.todo = what /\ job'.chunk = c
  /\ job' \in [key : Required, todo : Jobs, chunk : Nat]

LEMMA TodoIs ==
  ASSUME NvsTypes, ~Idle, NEW what \in Jobs, NEW c \in Nat, Todo(what, c)
  PROVE  Goes(what, c)
<1>1. job \in [key : Required, todo : Jobs, chunk : Nat]
  BY JobIs
<1>2. what # "none"
  BY DEF Jobs
<1> QED
  BY <1>1, <1>2 DEF Todo, Goes, Idle

LEMMA WriteDataIs ==
  ASSUME NvsTypes, PagesInv, WriteData
  PROVE  \E i \in EntryAt :
           /\ i + 1 \in EntryAt /\ \A j \in EntryAt : j >= i => At(Active, j) = Empty
           /\ Changed(Active, i, Data(job.key, NewVersion, job.chunk))
           /\ Doing("data") /\ Goes("payload", job.chunk) /\ UNCHANGED <<version, saves, rot>>
<1>1. Doing("data") /\ ~Idle /\ Room /\ UNCHANGED <<version, saves, rot>>
  BY DEF WriteData, Doing, Idle
<1>2. Spot \in EntryAt /\ Spot + 1 \in EntryAt /\ \A j \in EntryAt : j >= Spot => At(Active, j) = Empty
  BY <1>1, RoomIs, SpotIs
<1>3. Data(job.key, NewVersion, job.chunk) \in EntryRecs
  BY <1>1, JobIs, NewRecs DEF NewVersion
<1>4. Changed(Active, Spot, Data(job.key, NewVersion, job.chunk))
  BY <1>2, <1>3, ActiveIs, SetEntryIs DEF WriteData
<1>5. Goes("payload", job.chunk)
  BY <1>1, JobIs, TodoIs DEF WriteData, Jobs
<1> QED
  BY <1>1, <1>2, <1>4, <1>5

LEMMA WritePayloadIs ==
  ASSUME NvsTypes, PagesInv, FollowInv, WritePayload
  PROVE  \E i \in EntryAt :
           /\ i + 1 \in EntryAt /\ Header(Active, i) /\ Tip(Active, i)
           /\ Changed(Active, i + 1, Payload)
           /\ Doing("payload") /\ UNCHANGED <<version, saves, rot>>
           /\ \/ job.chunk < Last /\ Goes("data", job.chunk + 1)
              \/ Goes("index", 0)
<1>1. Doing("payload") /\ ~Idle /\ UNCHANGED <<version, saves, rot>>
  BY DEF WritePayload, Doing, Idle
<1>2. PICK i \in EntryAt : Header(Active, i) /\ Tip(Active, i)
  BY <1>1, ActiveIs DEF FollowInv, TipInv, Tip
<1>3. i + 1 \in EntryAt /\ i \in Nat
  BY <1>2, ActiveIs DEF FollowInv, NextInv, EntryAt
<1>4. At(Active, i) # Empty
  BY <1>2 DEF Header, Empty
<1>5. \A j \in EntryAt : j >= i + 1 => At(Active, j) = Empty
  BY <1>2, <1>3 DEF Tip, EntryAt
<1>6. Free(Active) # {}
  <2>1. page[Active].entry[i + 1].bits = "empty"
    BY <1>3, <1>5 DEF At, Empty, EntryAt
  <2>2. \A j \in (i + 1)..(Entries - 1) : page[Active].entry[j].bits = "empty"
    BY <1>3, <1>5, NvsAssumption DEF At, Empty, EntryAt
  <2> QED
    BY <1>3, <2>2 DEF Free
<1>7. Spot = i + 1
  <2>1. Spot \in EntryAt /\ Spot <= i + 1 /\ \A j \in EntryAt : j >= Spot => At(Active, j) = Empty
    BY <1>3, <1>5, <1>6, SpotIs
  <2>2. ~(i >= Spot)
    BY <1>4, <2>1
  <2> QED
    BY <1>3, <2>1, <2>2 DEF EntryAt
<1>8. Changed(Active, i + 1, Payload)
  <2>1. Payload \in EntryRecs
    BY DEF EntryRecs
  <2> QED
    BY <1>3, <1>7, <2>1, ActiveIs, SetEntryIs DEF WritePayload
<1>9. \/ job.chunk < Last /\ Goes("data", job.chunk + 1)
      \/ Goes("index", 0)
  <2>1. job.chunk \in Nat /\ job.chunk + 1 \in Nat /\ 0 \in Nat
    BY <1>1, JobIs
  <2>2. CASE job.chunk < Last
    BY <1>1, <2>1, <2>2, TodoIs DEF WritePayload, Jobs
  <2>3. CASE ~(job.chunk < Last)
    BY <1>1, <2>1, <2>3, TodoIs DEF WritePayload, Jobs
  <2> QED
    BY <2>2, <2>3
<1> QED
  BY <1>1, <1>2, <1>3, <1>8, <1>9

LEMMA WriteIndexIs ==
  ASSUME NvsTypes, PagesInv, WriteIndex
  PROVE  \E i \in EntryAt :
           /\ \A j \in EntryAt : j >= i => At(Active, j) = Empty
           /\ Changed(Active, i, Index(job.key, NewVersion))
           /\ Doing("index") /\ ~Idle /\ UNCHANGED <<saves, rot>>
           /\ version' \in [Required -> Nat]
           /\ \A k \in Required : version'[k] = IF k = job.key THEN version[k] + 1 ELSE version[k]
           /\ \/ version[job.key] = 0 /\ job' = NoJob
              \/ version[job.key] > 0 /\ Goes("unindex", 0)
<1>1. Doing("index") /\ ~Idle /\ Room /\ UNCHANGED <<saves, rot>>
  BY DEF WriteIndex, Doing, Idle
<1>2. Spot \in EntryAt /\ \A j \in EntryAt : j >= Spot => At(Active, j) = Empty
  BY <1>1, RoomIs, SpotIs
<1>3. Index(job.key, NewVersion) \in EntryRecs
  BY <1>1, JobIs, NewRecs DEF NewVersion
<1>4. Changed(Active, Spot, Index(job.key, NewVersion))
  BY <1>2, <1>3, ActiveIs, SetEntryIs DEF WriteIndex
<1>5. /\ version' \in [Required -> Nat]
      /\ \A k \in Required : version'[k] = IF k = job.key THEN version[k] + 1 ELSE version[k]
  BY <1>1, JobIs DEF WriteIndex, NewVersion, NvsTypes
<1>6. \/ version[job.key] = 0 /\ job' = NoJob
      \/ version[job.key] > 0 /\ Goes("unindex", 0)
  <2>1. CASE version[job.key] = 0
    BY <2>1 DEF WriteIndex
  <2>2. CASE version[job.key] # 0
    <3>1. version[job.key] > 0
      BY <1>1, <2>2, JobIs
    <3> QED
      BY <1>1, <2>2, <3>1, TodoIs DEF WriteIndex, Jobs
  <2> QED
    BY <2>1, <2>2
<1> QED
  BY <1>1, <1>2, <1>4, <1>5, <1>6

LEMMA EraseIndexIs ==
  ASSUME NvsTypes, EraseIndex
  PROVE  \E p \in Pages, i \in EntryAt :
           /\ Old(At(p, i), "index") /\ Changed(p, i, Erased)
           /\ Doing("unindex") /\ Goes("shred", 0) /\ UNCHANGED <<version, saves, rot>>
<1>1. Doing("unindex") /\ ~Idle /\ UNCHANGED <<version, saves, rot>>
  BY DEF EraseIndex, Doing, Idle
<1>2. PICK p \in Pages, i \in EntryAt : Old(page[p].entry[i], "index") /\ SetEntry(p, i, Erased)
  BY DEF EraseIndex
<1>3. Changed(p, i, Erased)
  BY <1>2, SetEntryIs DEF EntryRecs
<1>4. Goes("shred", 0)
  BY <1>1, TodoIs DEF EraseIndex, Jobs
<1> QED
  BY <1>1, <1>2, <1>3, <1>4 DEF At

LEMMA ErasePayloadIs ==
  ASSUME NvsTypes, FollowInv, ErasePayload
  PROVE  \E p \in Pages, i \in EntryAt :
           /\ i + 1 \in EntryAt /\ OldChunk(At(p, i)) /\ Changed(p, i + 1, Erased)
           /\ Doing("shred") /\ Goes("erase", job.chunk) /\ UNCHANGED <<version, saves, rot>>
<1>1. Doing("shred") /\ ~Idle /\ UNCHANGED <<version, saves, rot>>
  BY DEF ErasePayload, Doing, Idle
<1>2. PICK p \in Pages, i \in EntryAt : OldChunk(At(p, i)) /\ SetEntry(p, i + 1, Erased)
  BY DEF ErasePayload, OldChunk, At
<1>3. i + 1 \in EntryAt
  BY <1>2 DEF FollowInv, NextInv, Header, OldChunk, Old
<1>4. Changed(p, i + 1, Erased)
  BY <1>2, <1>3, SetEntryIs DEF EntryRecs
<1>5. Goes("erase", job.chunk)
  BY <1>1, JobIs, TodoIs DEF ErasePayload, Jobs
<1> QED
  BY <1>1, <1>2, <1>3, <1>4, <1>5

LEMMA EraseDataIs ==
  ASSUME NvsTypes, EraseData
  PROVE  \E p \in Pages, i \in EntryAt :
           /\ OldChunk(At(p, i)) /\ Changed(p, i, Erased)
           /\ Doing("erase") /\ ~Idle /\ UNCHANGED <<version, saves, rot>>
           /\ \/ job.chunk < Last /\ Goes("shred", job.chunk + 1)
              \/ ~(job.chunk < Last) /\ job' = NoJob
<1>1. Doing("erase") /\ ~Idle /\ UNCHANGED <<version, saves, rot>>
  BY DEF EraseData, Doing, Idle
<1>2. PICK p \in Pages, i \in EntryAt : OldChunk(At(p, i)) /\ SetEntry(p, i, Erased)
  BY DEF EraseData, OldChunk, At
<1>3. Changed(p, i, Erased)
  BY <1>2, SetEntryIs DEF EntryRecs
<1>4. \/ job.chunk < Last /\ Goes("shred", job.chunk + 1)
      \/ ~(job.chunk < Last) /\ job' = NoJob
  <2>1. CASE job.chunk < Last
    <3>1. job.chunk + 1 \in Nat
      BY <1>1, JobIs
    <3> QED
      BY <1>1, <2>1, <3>1, TodoIs DEF EraseData, Jobs
  <2>2. CASE ~(job.chunk < Last)
    BY <2>2 DEF EraseData
  <2> QED
    BY <2>1, <2>2
<1> QED
  BY <1>1, <1>2, <1>3, <1>4

(* A record whose bytes go bad keeps the rest. *)
Marred(e, f) ==
  f = e \/ (e.type \in {"data", "index"} /\ f = [e EXCEPT !.sound = FALSE])

LEMMA RotIs ==
  ASSUME NvsTypes, Rot
  PROVE  /\ page' \in [Pages -> PageRecs]
         /\ \A p \in Pages : page'[p].state = page[p].state
         /\ \A p \in Pages, i \in EntryAt : Marred(At(p, i), At(p, i)')
         /\ rot' = rot + 1 /\ UNCHANGED <<version, job, saves>>
<1>1. PICK p \in Pages :
        \/ page' = [page EXCEPT ![p].header = FALSE]
        \/ \E i \in EntryAt :
             IsRecord(p, i) /\ page' = [page EXCEPT ![p].entry[i].sound = FALSE]
  BY DEF Rot
<1>2. CASE page' = [page EXCEPT ![p].header = FALSE]
  <2> DEFINE new == [page[p] EXCEPT !.header = FALSE]
  <2>1. new \in PageRecs /\ new.state = page[p].state /\ new.entry = page[p].entry
    BY DEF NvsTypes, PageRecs
  <2>2. page' = [page EXCEPT ![p] = new]
    BY <1>2
  <2> HIDE DEF new
  <2> QED
    BY <2>1, <2>2 DEF NvsTypes, Marred, At, Rot
<1>3. ASSUME NEW i \in EntryAt, IsRecord(p, i), page' = [page EXCEPT ![p].entry[i].sound = FALSE]
      PROVE  /\ page' \in [Pages -> PageRecs]
             /\ \A q \in Pages : page'[q].state = page[q].state
             /\ \A q \in Pages, j \in EntryAt : Marred(At(q, j), At(q, j)')
  <2> DEFINE e == [At(p, i) EXCEPT !.sound = FALSE]
  <2>1. At(p, i).type \in {"data", "index"} /\ At(p, i) \in EntryRecs
    BY <1>3, EntryTyped DEF IsRecord, At
  <2>2. e \in EntryRecs
    BY <2>1, EntryIs DEF EntryRecs, DataRecs, IndexRecs
  <2>3. page' = [page EXCEPT ![p].entry[i] = e]
    BY <1>3 DEF At
  <2> HIDE DEF e
  <2>4. Changed(p, i, e)
    BY <2>2, <2>3, SetEntryIs DEF SetEntry
  <2> QED
    BY <2>1, <2>4 DEF Changed, Marred, e
<1> QED
  BY <1>1, <1>2, <1>3 DEF Rot

LEMMA TurnPageIs ==
  ASSUME NvsTypes, PagesInv, TurnPage
  PROVE  /\ \E p \in Pages :
              /\ page[p].state = "empty" /\ page' \in [Pages -> PageRecs]
              /\ \A q \in Pages : page'[q].header = page[q].header
              /\ \A q \in Pages : page'[q].state =
                    IF q = p THEN "active" ELSE IF q = Active THEN "full" ELSE page[q].state
              /\ \A q \in Pages, j \in EntryAt : At(q, j)' = At(q, j)
         /\ Doing("data") \/ Doing("index")
         /\ UNCHANGED <<version, job, saves, rot>>
<1>1. PICK p \in Pages : page[p].state = "empty" /\
        page' = [page EXCEPT ![Active].state = "full", ![p].state = "active"]
  BY DEF TurnPage, InState
<1>2. Active \in Pages /\ p # Active
  BY <1>1, ActiveIs
<1> HIDE DEF Active
<1>3. /\ page' \in [Pages -> PageRecs]
      /\ \A q \in Pages : page'[q].header = page[q].header
      /\ \A q \in Pages : page'[q].state =
            IF q = p THEN "active" ELSE IF q = Active THEN "full" ELSE page[q].state
      /\ \A q \in Pages : page'[q].entry = page[q].entry
  <2> DEFINE full == [page[Active] EXCEPT !.state = "full"]
             active == [page[p] EXCEPT !.state = "active"]
  <2>1. /\ full \in PageRecs /\ full.state = "full" /\ full.header = page[Active].header
        /\ full.entry = page[Active].entry
        /\ active \in PageRecs /\ active.state = "active" /\ active.header = page[p].header
        /\ active.entry = page[p].entry
    BY <1>2 DEF NvsTypes, PageRecs
  <2>2. page' = [page EXCEPT ![Active] = full, ![p] = active]
    BY <1>1, <1>2
  <2> HIDE DEF full, active
  <2> QED
    BY <1>2, <2>1, <2>2 DEF NvsTypes
<1> QED
  BY <1>1, <1>3 DEF At, TurnPage

LEMMA SaveIs ==
  ASSUME NvsTypes, NEW k \in Required, Save(k)
  PROVE  /\ Idle /\ ~Idle' /\ job'.key = k /\ job'.todo = "data" /\ job'.chunk = 0
         /\ job' \in [key : Required, todo : Jobs, chunk : Nat]
         /\ saves' = saves + 1 /\ UNCHANGED <<page, version, rot>>
BY DEF Save, Idle, Jobs

-----------------------------------------------------------------------------
(* The invariant is kept. *)

LEMMA TypesStep == NvsInv /\ NvsNext => NvsTypes'
<1> SUFFICES ASSUME NvsInv, NvsNext PROVE NvsTypes'
  OBVIOUS
<1> USE DEF NvsInv
<1>a. \A k \in Required : ChunksOf[k] \in 1..128
  BY NvsAssumption
<1>b. page \in [Pages -> PageRecs] /\ version \in [Required -> Nat] /\ saves \in Nat /\ rot \in Nat
  BY DEF NvsTypes
<1>c. ~Idle => job.key \in Required /\ job.chunk \in Nat /\ job.chunk <= Last
  BY JobIs
<1>1. ASSUME NEW k \in Required, Save(k) PROVE NvsTypes'
  <2>1. job'.chunk <= Last'
    BY <1>1, SaveIs, <1>a DEF Last
  <2> QED
    BY <1>1, <1>b, <2>1, SaveIs DEF NvsTypes, Doing
<1>2. CASE TurnPage
  BY <1>2, <1>b, TurnPageIs DEF NvsTypes, Doing, Last
<1>3. CASE WriteData
  BY <1>3, <1>b, <1>c, WriteDataIs DEF NvsTypes, Doing, Last, Goes, Changed
<1>4. CASE WritePayload
  <2>1. UNCHANGED <<version, saves, rot>> /\ page' \in [Pages -> PageRecs]
        /\ \E what \in {"data", "index"}, c \in Nat : Goes(what, c) /\ c <= Last
    BY <1>4, <1>a, <1>c, WritePayloadIs DEF Changed, Last, Goes
  <2> QED
    BY <2>1, <1>b DEF NvsTypes, Doing, Last, Goes
<1>5. CASE WriteIndex
  <2>1. version' \in [Required -> Nat] /\ page' \in [Pages -> PageRecs] /\ UNCHANGED <<saves, rot>>
    BY <1>5, WriteIndexIs DEF Changed
  <2>2. job' # NoJob => Goes("unindex", 0) /\ version'[job.key] > 1
    BY <1>5, WriteIndexIs, <1>b, <1>c
  <2>3. job' # NoJob => job'.chunk <= Last'
    BY <2>2, <1>a, <1>c DEF Goes, Last
  <2> QED
    BY <1>b, <2>1, <2>2, <2>3 DEF NvsTypes, Doing, Goes, NoJob
<1>6. CASE EraseIndex
  <2>1. Doing("unindex") /\ Goes("shred", 0) /\ UNCHANGED <<version, saves, rot>>
        /\ page' \in [Pages -> PageRecs]
    BY <1>6, EraseIndexIs DEF Changed
  <2>2. 0 <= Last'
    BY <2>1, <1>a, <1>c DEF Goes, Last
  <2> QED
    BY <1>b, <2>1, <2>2 DEF NvsTypes, Doing, Goes
<1>7. CASE ErasePayload
  <2>1. Doing("shred") /\ Goes("erase", job.chunk) /\ UNCHANGED <<version, saves, rot>>
        /\ page' \in [Pages -> PageRecs]
    BY <1>7, ErasePayloadIs DEF Changed
  <2> QED
    BY <1>b, <1>c, <2>1 DEF NvsTypes, Doing, Goes, Last
<1>8. CASE EraseData
  <2>1. Doing("erase") /\ UNCHANGED <<version, saves, rot>> /\ page' \in [Pages -> PageRecs]
        /\ (job' = NoJob \/ (job.chunk < Last /\ Goes("shred", job.chunk + 1)))
    BY <1>8, EraseDataIs DEF Changed
  <2>2. job' # NoJob => job'.chunk <= Last'
    BY <2>1, <1>a, <1>c DEF Goes, Last
  <2> QED
    BY <1>b, <2>1, <2>2 DEF NvsTypes, Doing, Goes, NoJob
<1>9. CASE Rot
  BY <1>9, <1>b, RotIs DEF NvsTypes, Doing, Last
<1> QED
  BY <1>1, <1>2, <1>3, <1>4, <1>5, <1>6, <1>7, <1>8, <1>9 DEF NvsNext

(* Only a page in use is written. *)
LEMMA PagesKept ==
  ASSUME PagesInv, NEW p \in Pages, NEW i, NEW e, Changed(p, i, e), page[p].state # "empty", rot' = rot
  PROVE  PagesInv'
<1>1. \A q \in Pages : page'[q].state = page[q].state /\ page'[q].header = page[q].header
  BY DEF Changed
<1>2. \A q \in Pages, j \in EntryAt : page[q].state = "empty" => At(q, j)' = At(q, j)
  BY DEF Changed
<1>3. \E q \in Pages : page'[q].state = "active"
  BY <1>1 DEF PagesInv
<1>4. \A q, r \in Pages : page'[q].state = "active" /\ page'[r].state = "active" => q = r
  BY <1>1 DEF PagesInv
<1>5. \A q \in Pages, j \in EntryAt : page'[q].state = "empty" => At(q, j)' = Empty
  BY <1>1, <1>2 DEF PagesInv
<1>6. \A q \in Pages : rot' = 0 => page'[q].header
  BY <1>1 DEF PagesInv
<1> QED
  BY <1>3, <1>4, <1>5, <1>6 DEF PagesInv

LEMMA InUse ==
  ASSUME PagesInv, NEW p \in Pages, NEW i \in EntryAt, At(p, i).type # "none"
  PROVE  page[p].state # "empty"
BY DEF PagesInv, Empty

LEMMA PagesStep == NvsInv /\ NvsNext => PagesInv'
<1> SUFFICES ASSUME NvsInv, NvsNext PROVE PagesInv'
  OBVIOUS
<1> USE DEF NvsInv
<1>1. ASSUME NEW k \in Required, Save(k) PROVE PagesInv'
  BY <1>1, SaveIs DEF PagesInv, At
<1>2. CASE TurnPage
  <2>1. PICK p \in Pages :
          /\ page[p].state = "empty"
          /\ \A q \in Pages : page'[q].header = page[q].header
          /\ \A q \in Pages : page'[q].state =
                IF q = p THEN "active" ELSE IF q = Active THEN "full" ELSE page[q].state
          /\ \A q \in Pages, j \in EntryAt : At(q, j)' = At(q, j)
    BY <1>2, TurnPageIs
  <2>2. rot' = rot
    BY <1>2, TurnPageIs
  <2>3. \A q \in Pages : page[q].state = "active" => q = Active
    BY ActiveIs
  <2> HIDE DEF Active
  <2>4. \A q, r \in Pages : page'[q].state = "active" /\ page'[r].state = "active" => q = r
    BY <2>1, <2>3
  <2>5. \A q \in Pages, j \in EntryAt : page'[q].state = "empty" => At(q, j)' = Empty
    BY <2>1 DEF PagesInv
  <2>6. \A q \in Pages : rot' = 0 => page'[q].header
    BY <2>1, <2>2 DEF PagesInv
  <2>7. \E q \in Pages : page'[q].state = "active"
    BY <2>1
  <2> QED
    BY <2>4, <2>5, <2>6, <2>7 DEF PagesInv
<1>3. CASE WriteData
  BY <1>3, WriteDataIs, ActiveIs, PagesKept
<1>4. CASE WritePayload
  BY <1>4, WritePayloadIs, ActiveIs, PagesKept
<1>5. CASE WriteIndex
  BY <1>5, WriteIndexIs, ActiveIs, PagesKept
<1>6. CASE EraseIndex
  BY <1>6, EraseIndexIs, InUse, PagesKept DEF Old
<1>7. CASE ErasePayload
  BY <1>7, ErasePayloadIs, InUse, PagesKept DEF Old, OldChunk
<1>8. CASE EraseData
  BY <1>8, EraseDataIs, InUse, PagesKept DEF Old, OldChunk
<1>9. CASE Rot
  <2>1. /\ \A p \in Pages : page'[p].state = page[p].state
        /\ \A p \in Pages, i \in EntryAt : Marred(At(p, i), At(p, i)')
        /\ rot' = rot + 1 /\ rot \in Nat
    BY <1>9, RotIs DEF NvsTypes
  <2>2. \A q, r \in Pages : page'[q].state = "active" /\ page'[r].state = "active" => q = r
    BY <2>1 DEF PagesInv
  <2>3. \A q \in Pages, j \in EntryAt : page'[q].state = "empty" => At(q, j)' = Empty
    BY <2>1 DEF PagesInv, Marred, Empty
  <2>4. \E q \in Pages : page'[q].state = "active"
    BY <2>1 DEF PagesInv
  <2>5. rot' # 0
    BY <2>1
  <2> QED
    BY <2>2, <2>3, <2>4, <2>5 DEF PagesInv
<1> QED
  BY <1>1, <1>2, <1>3, <1>4, <1>5, <1>6, <1>7, <1>8, <1>9 DEF NvsNext

(* Entries that differ tell two kinds apart. *)
LEMMA Kinds ==
  /\ Empty.type = "none" /\ Erased.type = "none" /\ Payload.type = "payload"
  /\ Empty # Erased /\ Empty # Payload /\ Erased # Payload
BY DEF Empty, Erased, Payload

LEMMA Places ==
  /\ EntryAt \subseteq Nat /\ \A i \in EntryAt : i + 1 \in Nat /\ i + 1 # i /\ (i > 0 => i - 1 \in EntryAt)
  /\ \A i, j \in EntryAt : i + 1 = j + 1 => i = j
BY NvsAssumption DEF EntryAt

(* Each write keeps records and payloads together. *)
LEMMA WriteDataFollows == NvsInv /\ WriteData => FollowInv'
<1> SUFFICES ASSUME NvsInv, WriteData PROVE FollowInv'
  OBVIOUS
<1> USE DEF NvsInv
<1> DEFINE d == Data(job.key, NewVersion, job.chunk)
<1>2. PICK a \in Pages : a = Active /\ page[a].state = "active"
  BY ActiveIs
<1>1. PICK i \in EntryAt :
        /\ i + 1 \in EntryAt /\ \A j \in EntryAt : j >= i => At(a, j) = Empty
        /\ Changed(a, i, d)
        /\ Doing("data") /\ Goes("payload", job.chunk) /\ UNCHANGED <<version, saves, rot>>
  BY <1>2, WriteDataIs
<1>3. d.type = "data" /\ d.key = job.key /\ d.of = NewVersion /\ d.chunk = Start(NewVersion) + job.chunk
  BY DEF Data
<1> HIDE DEF d
<1>4. \A q \in Pages, j \in EntryAt : At(q, j)' = IF q = a /\ j = i THEN d ELSE At(q, j)
  BY <1>1 DEF Changed
<1>5. At(a, i) = Empty /\ At(a, i + 1) = Empty
  BY <1>1, Places
<1>6. Header(a, i)' /\ Tip(a, i)'
  <2>1. page'[a].state = "active"
    BY <1>1, <1>2 DEF Changed
  <2>2. \A j \in EntryAt : j > i => At(a, j)' = Empty
    BY <1>1, <1>2, <1>4, Places
  <2>3. At(a, i)' = d /\ NewVersion' = NewVersion /\ job'.key = job.key /\ job'.chunk = job.chunk
    BY <1>1, <1>2, <1>4 DEF Goes, NewVersion
  <2>4. Doing("payload")'
    BY <1>1 DEF Goes, Doing
  <2> QED
    BY <1>3, <2>1, <2>2, <2>3, <2>4 DEF Header, Tip
<1>7. ASSUME NEW q \in Pages, NEW j \in EntryAt, Header(q, j)'
      PROVE  j + 1 \in EntryAt /\ (At(q, j + 1)' \in {Payload, Erased} \/ Tip(q, j)')
  <2>1. CASE q = a /\ j = i
    BY <1>1, <1>6, <2>1
  <2>2. CASE ~(q = a /\ j = i)
    <3>1. Header(q, j)
      BY <1>4, <1>7, <2>2 DEF Header
    <3>2. j + 1 \in EntryAt /\ At(q, j + 1) \in {Payload, Erased}
      BY <1>1, <3>1 DEF FollowInv, NextInv, Tip, Doing
    <3>3. ~(q = a /\ j + 1 = i)
      BY <1>5, <3>2, Kinds
    <3> QED
      BY <1>4, <3>2, <3>3
  <2> QED
    BY <2>1, <2>2
<1>8. ASSUME NEW q \in Pages, NEW j \in EntryAt, At(q, j)' = Payload PROVE j > 0 /\ Header(q, j - 1)'
  <2>1. At(q, j) = Payload
    BY <1>3, <1>4, <1>8, Kinds
  <2>2. j > 0 /\ Header(q, j - 1)
    BY <2>1 DEF FollowInv, PayloadInv
  <2>3. ~(q = a /\ j - 1 = i)
    BY <1>5, <2>2, Kinds DEF Header
  <2> QED
    BY <1>4, <2>2, <2>3, Places DEF Header
<1>9. ~Doing("erase")'
  BY <1>1 DEF Goes, Doing
<1> QED
  BY <1>2, <1>6, <1>7, <1>8, <1>9 DEF FollowInv, NextInv, TipInv, PayloadInv, ShredInv

LEMMA WritePayloadFollows == NvsInv /\ WritePayload => FollowInv'
<1> SUFFICES ASSUME NvsInv, WritePayload PROVE FollowInv'
  OBVIOUS
<1> USE DEF NvsInv
<1> DEFINE a == Active
<1>1. PICK i \in EntryAt :
        /\ i + 1 \in EntryAt /\ Header(a, i) /\ Tip(a, i)
        /\ Changed(a, i + 1, Payload)
        /\ \/ job.chunk < Last /\ Goes("data", job.chunk + 1)
           \/ Goes("index", 0)
  BY WritePayloadIs
<1>2. a \in Pages /\ \A q \in Pages : page[q].state = "active" => q = a
  BY ActiveIs
<1> HIDE DEF a
<1>3. \A q \in Pages, j \in EntryAt : At(q, j)' = IF q = a /\ j = i + 1 THEN Payload ELSE At(q, j)
  BY <1>1 DEF Changed
<1>4. At(a, i + 1) = Empty
  BY <1>1, Places DEF Tip
<1>5. ASSUME NEW q \in Pages, NEW j \in EntryAt, Tip(q, j), Header(q, j) PROVE q = a /\ j = i
  <2>1. q = a
    BY <1>2, <1>5 DEF Tip
  <2>2. ~(j > i) /\ ~(i > j)
    BY <1>1, <1>5, <2>1, Kinds DEF Tip, Header
  <2> QED
    BY <2>1, <2>2, Places
<1>6. ASSUME NEW q \in Pages, NEW j \in EntryAt, Header(q, j)'
      PROVE  j + 1 \in EntryAt /\ At(q, j + 1)' \in {Payload, Erased}
  <2>1. Header(q, j)
    BY <1>3, <1>6, Kinds DEF Header
  <2>2. j + 1 \in EntryAt /\ (At(q, j + 1) \in {Payload, Erased} \/ (q = a /\ j = i))
    BY <1>5, <2>1 DEF FollowInv, NextInv
  <2> QED
    BY <1>3, <2>2
<1>7. ASSUME NEW q \in Pages, NEW j \in EntryAt, At(q, j)' = Payload PROVE j > 0 /\ Header(q, j - 1)'
  <2>1. j > 0 /\ Header(q, j - 1)
    <3>1. CASE q = a /\ j = i + 1
      BY <1>1, <3>1, Places
    <3>2. CASE ~(q = a /\ j = i + 1)
      BY <1>3, <1>7, <3>2 DEF FollowInv, PayloadInv
    <3> QED
      BY <3>1, <3>2
  <2>2. ~(q = a /\ j - 1 = i + 1)
    BY <1>4, <2>1, Kinds DEF Header
  <2> QED
    BY <1>3, <2>1, <2>2, Places DEF Header
<1>8. ~Doing("payload")' /\ ~Doing("erase")'
  BY <1>1 DEF Doing, Goes
<1> QED
  BY <1>6, <1>7, <1>8 DEF FollowInv, NextInv, TipInv, PayloadInv, ShredInv

LEMMA WriteIndexFollows == NvsInv /\ WriteIndex => FollowInv'
<1> SUFFICES ASSUME NvsInv, WriteIndex PROVE FollowInv'
  OBVIOUS
<1> USE DEF NvsInv
<1> DEFINE a == Active
           d == Index(job.key, NewVersion)
<1>1. PICK i \in EntryAt :
        /\ \A j \in EntryAt : j >= i => At(a, j) = Empty
        /\ Changed(a, i, d)
        /\ Doing("index") /\ (job' = NoJob \/ Goes("unindex", 0))
  BY WriteIndexIs
<1>2. a \in Pages
  BY ActiveIs
<1>3. d.type = "index"
  BY DEF Index
<1> HIDE DEF a, d
<1>4. \A q \in Pages, j \in EntryAt : At(q, j)' = IF q = a /\ j = i THEN d ELSE At(q, j)
  BY <1>1 DEF Changed
<1>5. At(a, i) = Empty
  BY <1>1, Places
<1>6. ASSUME NEW q \in Pages, NEW j \in EntryAt, Header(q, j)'
      PROVE  j + 1 \in EntryAt /\ At(q, j + 1)' \in {Payload, Erased}
  <2>1. Header(q, j)
    BY <1>3, <1>4, <1>6 DEF Header
  <2>2. j + 1 \in EntryAt /\ At(q, j + 1) \in {Payload, Erased}
    BY <1>1, <2>1 DEF FollowInv, NextInv, Tip, Doing
  <2>3. ~(q = a /\ j + 1 = i)
    BY <1>5, <2>2, Kinds
  <2> QED
    BY <1>4, <2>2, <2>3
<1>7. ASSUME NEW q \in Pages, NEW j \in EntryAt, At(q, j)' = Payload PROVE j > 0 /\ Header(q, j - 1)'
  <2>1. At(q, j) = Payload
    BY <1>3, <1>4, <1>7, Kinds
  <2>2. j > 0 /\ Header(q, j - 1)
    BY <2>1 DEF FollowInv, PayloadInv
  <2>3. ~(q = a /\ j - 1 = i)
    BY <1>5, <2>2, Kinds DEF Header
  <2> QED
    BY <1>4, <2>2, <2>3, Places DEF Header
<1>8. ~Doing("payload")' /\ ~Doing("erase")'
  BY <1>1 DEF Doing, Goes, NoJob
<1> QED
  BY <1>6, <1>7, <1>8 DEF FollowInv, NextInv, TipInv, PayloadInv, ShredInv

(* Erasing: nothing is written, and no payload loses its header. *)
LEMMA ErasureFollows ==
  ASSUME NvsInv, NEW p \in Pages, NEW i \in EntryAt, Changed(p, i, Erased),
         ~Doing("payload"), ~Doing("payload")',
         \A j \in EntryAt : At(p, j) = Payload /\ j - 1 = i => ~Header(p, i)
  PROVE  NextInv' /\ TipInv' /\ PayloadInv'
<1> USE DEF NvsInv
<1>1. \A q \in Pages, j \in EntryAt : At(q, j)' = IF q = p /\ j = i THEN Erased ELSE At(q, j)
  BY DEF Changed
<1>2. ASSUME NEW q \in Pages, NEW j \in EntryAt, Header(q, j)'
      PROVE  j + 1 \in EntryAt /\ At(q, j + 1)' \in {Payload, Erased}
  <2>1. Header(q, j)
    BY <1>1, <1>2, Kinds DEF Header
  <2>2. j + 1 \in EntryAt /\ At(q, j + 1) \in {Payload, Erased}
    BY <2>1 DEF FollowInv, NextInv, Tip
  <2> QED
    BY <1>1, <2>2
<1>3. ASSUME NEW q \in Pages, NEW j \in EntryAt, At(q, j)' = Payload PROVE j > 0 /\ Header(q, j - 1)'
  <2>1. At(q, j) = Payload
    BY <1>1, <1>3, Kinds
  <2>2. j > 0 /\ Header(q, j - 1)
    BY <2>1 DEF FollowInv, PayloadInv
  <2>3. ~(q = p /\ j - 1 = i)
    BY <2>1, <2>2
  <2> QED
    BY <1>1, <2>2, <2>3, Places DEF Header
<1> QED
  BY <1>2, <1>3 DEF NextInv, TipInv, PayloadInv

LEMMA ErasuresFollow == NvsInv /\ (EraseIndex \/ ErasePayload \/ EraseData) => FollowInv'
<1> SUFFICES ASSUME NvsInv, EraseIndex \/ ErasePayload \/ EraseData PROVE FollowInv'
  OBVIOUS
<1> USE DEF NvsInv
<1>1. CASE EraseIndex
  <2>1. PICK p \in Pages, i \in EntryAt :
          /\ Old(At(p, i), "index") /\ Changed(p, i, Erased)
          /\ Doing("unindex") /\ Goes("shred", 0)
    BY <1>1, EraseIndexIs
  <2>2. ~Doing("payload") /\ ~Doing("payload")' /\ ~Doing("erase")' /\ ~Header(p, i)
    BY <2>1 DEF Doing, Goes, Old, Header
  <2> QED
    BY <2>1, <2>2, ErasureFollows DEF FollowInv, ShredInv
<1>2. CASE ErasePayload
  <2>1. PICK p \in Pages, i \in EntryAt :
          /\ i + 1 \in EntryAt /\ OldChunk(At(p, i)) /\ Changed(p, i + 1, Erased)
          /\ Doing("shred") /\ Goes("erase", job.chunk) /\ UNCHANGED <<version, saves, rot>>
    BY <1>2, ErasePayloadIs
  <2>2. ~Doing("payload") /\ ~Doing("payload")'
    BY <2>1 DEF Doing, Goes
  <2>3. Header(p, i) /\ At(p, i + 1) \in {Payload, Erased}
    BY <2>1, <2>2 DEF OldChunk, Old, Header, FollowInv, NextInv, Tip
  <2>4. ~Header(p, i + 1)
    BY <2>3, Kinds DEF Header
  <2>5. \A q \in Pages, j \in EntryAt : At(q, j)' = IF q = p /\ j = i + 1 THEN Erased ELSE At(q, j)
    BY <2>1 DEF Changed
  <2>6. ASSUME NEW q \in Pages, NEW j \in EntryAt, OldChunk(At(q, j))' PROVE At(q, j + 1)' = Erased
    <3>1. OldChunk(At(q, j)) /\ ~(q = p /\ j = i + 1)
      BY <2>1, <2>5, <2>6, Kinds DEF OldChunk, Old, Goes
    <3>2. q = p /\ j = i
      BY <2>1, <3>1 DEF OnceInv, OldChunk, Old, Same, IsRec
    <3> QED
      BY <2>1, <2>5, <3>2
  <2> QED
    BY <2>1, <2>2, <2>4, <2>6, ErasureFollows DEF FollowInv, ShredInv
<1>3. CASE EraseData
  <2>1. PICK p \in Pages, i \in EntryAt :
          /\ OldChunk(At(p, i)) /\ Changed(p, i, Erased)
          /\ Doing("erase")
          /\ Goes("shred", job.chunk + 1) \/ job' = NoJob
    BY <1>3, EraseDataIs
  <2>2. ~Doing("payload") /\ ~Doing("payload")' /\ ~Doing("erase")'
    BY <2>1 DEF Doing, Goes, NoJob
  <2>3. At(p, i + 1) = Erased
    BY <2>1 DEF FollowInv, ShredInv
  <2>4. \A j \in EntryAt : At(p, j) = Payload /\ j - 1 = i => FALSE
    <3> TAKE j \in EntryAt
    <3>1. j - 1 = i => j = i + 1
      BY Places
    <3> QED
      BY <2>3, <3>1, Kinds
  <2> QED
    BY <2>1, <2>2, <2>4, ErasureFollows DEF FollowInv, ShredInv
<1> QED
  BY <1>1, <1>2, <1>3

LEMMA FollowStep == NvsInv /\ NvsNext => FollowInv'
<1> SUFFICES ASSUME NvsInv, NvsNext PROVE FollowInv'
  OBVIOUS
<1> USE DEF NvsInv
<1>1. ASSUME NEW k \in Required, Save(k) PROVE FollowInv'
  <2>1. ~Doing("payload") /\ ~Doing("payload")' /\ ~Doing("erase")' /\ UNCHANGED page
    BY <1>1, SaveIs DEF Doing, Idle
  <2> QED
    BY <2>1 DEF FollowInv, NextInv, TipInv, PayloadInv, ShredInv, Tip, At, Header
<1>2. CASE TurnPage
  <2>1. /\ \A q \in Pages, j \in EntryAt : At(q, j)' = At(q, j)
        /\ ~Doing("payload") /\ ~Doing("payload")' /\ ~Doing("erase")'
    BY <1>2, TurnPageIs DEF Doing
  <2>2. NextInv'
    BY <2>1 DEF FollowInv, NextInv, Tip, Header
  <2>3. PayloadInv'
    BY <2>1, Places DEF FollowInv, PayloadInv, Header
  <2> QED
    BY <2>1, <2>2, <2>3 DEF FollowInv, TipInv, ShredInv
<1>3. CASE Rot
  <2>1. /\ \A p \in Pages : page'[p].state = page[p].state
        /\ \A p \in Pages, i \in EntryAt : Marred(At(p, i), At(p, i)')
        /\ UNCHANGED <<version, job, saves>>
    BY <1>3, RotIs
  <2>2. \A p \in Pages, i \in EntryAt :
          /\ At(p, i)'.type = At(p, i).type
          /\ At(p, i)' = Payload <=> At(p, i) = Payload
          /\ At(p, i)' = Erased <=> At(p, i) = Erased
          /\ At(p, i)' = Empty <=> At(p, i) = Empty
          /\ Header(p, i) => /\ At(p, i)'.key = At(p, i).key /\ At(p, i)'.of = At(p, i).of
                             /\ At(p, i)'.chunk = At(p, i).chunk
    <3> TAKE p \in Pages, i \in EntryAt
    <3>1. CASE At(p, i)' = At(p, i)
      BY <3>1
    <3>2. CASE At(p, i).type \in {"data", "index"} /\ At(p, i)' = [At(p, i) EXCEPT !.sound = FALSE]
      <4>1. At(p, i) \in EntryRecs
        BY EntryTyped
      <4>2. At(p, i)'.type = At(p, i).type
        BY <3>2, <4>1, EntryIs
      <4>3. Header(p, i) => /\ At(p, i)'.key = At(p, i).key /\ At(p, i)'.of = At(p, i).of
                             /\ At(p, i)'.chunk = At(p, i).chunk
        BY <3>2, <4>1, EntryIs DEF Header
      <4> QED
        BY <3>2, <4>2, <4>3, Kinds
    <3> QED
      BY <2>1, <3>1, <3>2 DEF Marred
  <2>3. \A p \in Pages, i \in EntryAt : Header(p, i)' <=> Header(p, i)
    BY <2>2 DEF Header
  <2>4. \A p \in Pages, i \in EntryAt : Header(p, i) /\ Tip(p, i) => Tip(p, i)'
    BY <2>1, <2>2 DEF Tip, Doing, NewVersion
  <2>5. NextInv'
    BY <2>2, <2>3, <2>4 DEF FollowInv, NextInv
  <2>6. TipInv'
    BY <2>1, <2>3, <2>4 DEF FollowInv, TipInv, Doing
  <2>7. PayloadInv'
    BY <2>2, <2>3, Places DEF FollowInv, PayloadInv
  <2>8. ShredInv'
    <3>1. \A p \in Pages, i \in EntryAt : OldChunk(At(p, i))' => OldChunk(At(p, i)) /\ i + 1 \in EntryAt
      BY <2>1, <2>2 DEF OldChunk, Old, Header, FollowInv, NextInv
    <3> QED
      BY <2>1, <2>2, <3>1 DEF FollowInv, ShredInv, Doing
  <2> QED
    BY <2>5, <2>6, <2>7, <2>8 DEF FollowInv
<1> QED
  BY <1>1, <1>2, <1>3, WriteDataFollows, WritePayloadFollows, WriteIndexFollows, ErasuresFollow
     DEF NvsNext

(* What the invariant says of one record. *)
LEMMA RecordIs ==
  ASSUME NvsInv, NEW p \in Pages, NEW i \in EntryAt
  PROVE  /\ Header(p, i) =>
              /\ At(p, i).key \in Required /\ At(p, i).of \in Nat /\ At(p, i).chunk \in Nat
              /\ At(p, i).of > 0 /\ ChunkNo(At(p, i)) \in Nat /\ ChunkNo(At(p, i)) <= ChunksOf[At(p, i).key] - 1
              /\ Proper(At(p, i)) /\ Current(At(p, i)) /\ version[At(p, i).key] \in Nat
         /\ At(p, i).type = "index" =>
              /\ At(p, i).key \in Required /\ At(p, i).of \in Nat /\ At(p, i).of > 0
              /\ ProperIndex(At(p, i)) /\ CurrentIndex(At(p, i)) /\ version[At(p, i).key] \in Nat
<1> USE DEF NvsInv
<1>1. At(p, i) \in EntryRecs
  BY EntryTyped
<1>2. \A k \in Required : version[k] \in Nat /\ ChunksOf[k] \in Nat
  BY NvsAssumption DEF NvsTypes
<1>3. ASSUME Header(p, i)
      PROVE  /\ At(p, i).key \in Required /\ At(p, i).of \in Nat /\ At(p, i).chunk \in Nat
             /\ Proper(At(p, i)) /\ Current(At(p, i))
  BY <1>1, <1>3, EntryIs DEF DataRecs, Header, RecordsInv, Alive
<1>4. Header(p, i) => At(p, i).of > 0 /\ ChunkNo(At(p, i)) \in Nat
                      /\ ChunkNo(At(p, i)) <= ChunksOf[At(p, i).key] - 1
  BY <1>2, <1>3 DEF Proper
<1>5. ASSUME At(p, i).type = "index"
      PROVE  /\ At(p, i).key \in Required /\ At(p, i).of \in Nat
             /\ ProperIndex(At(p, i)) /\ CurrentIndex(At(p, i))
  BY <1>1, <1>5, EntryIs DEF IndexRecs, RecordsInv, AliveIndex
<1>6. At(p, i).type = "index" => At(p, i).of > 0
  BY <1>5 DEF ProperIndex
<1> QED
  BY <1>2, <1>3, <1>4, <1>5, <1>6

(* What a step writes and what it leaves has to be of a version the job    *)
(* accounts for.                                                           *)
LEMMA RecordsAfter ==
  ASSUME NvsInv, NEW p \in Pages, NEW i \in EntryAt, NEW e, Changed(p, i, e),
         e.type = "data" => Proper(e) /\ Current(e)',
         e.type = "index" => ProperIndex(e) /\ CurrentIndex(e)',
         \A q \in Pages, j \in EntryAt :
           ~(q = p /\ j = i) => /\ Header(q, j) => \E f : f = At(q, j) /\ Current(f)'
                                /\ At(q, j).type = "index" => \E f : f = At(q, j) /\ CurrentIndex(f)'
  PROVE  RecordsInv'
<1>1. \A q \in Pages, j \in EntryAt : At(q, j)' = IF q = p /\ j = i THEN e ELSE At(q, j)
  BY DEF Changed
<1>2. ASSUME NEW q \in Pages, NEW j \in EntryAt
      PROVE  /\ Header(q, j)' => Alive(At(q, j))'
             /\ At(q, j)'.type = "index" => AliveIndex(At(q, j))'
  <2>1. CASE q = p /\ j = i
    BY <1>1, <2>1 DEF Header, Alive, AliveIndex, Proper, ProperIndex, Current, CurrentIndex,
       ChunkNo, Ahead, Behind
  <2>2. CASE ~(q = p /\ j = i)
    <3>1. At(q, j)' = At(q, j)
      BY <1>1, <2>2
    <3>2. Header(q, j)' => Alive(At(q, j))'
      BY <2>2, <3>1, RecordIs DEF Header, Alive, Proper, Current, ChunkNo, Ahead, Behind
    <3>3. At(q, j)'.type = "index" => AliveIndex(At(q, j))'
      BY <2>2, <3>1, RecordIs DEF AliveIndex, ProperIndex, CurrentIndex
    <3> QED
      BY <3>2, <3>3
  <2> QED
    BY <2>1, <2>2
<1> QED
  BY <1>2 DEF RecordsInv

LEMMA RecordsStep == NvsInv /\ NvsNext => RecordsInv'
<1> SUFFICES ASSUME NvsInv, NvsNext PROVE RecordsInv'
  OBVIOUS
<1> USE DEF NvsInv
<1>a. \A k \in Required : ChunksOf[k] \in 1..128 /\ version[k] \in Nat
  BY NvsAssumption DEF NvsTypes
<1>b. ~Idle => job.key \in Required /\ job.chunk \in Nat /\ job.chunk <= Last /\ version[job.key] \in Nat
  BY JobIs
<1>1. ASSUME NEW k \in Required, Save(k) PROVE RecordsInv'
  <2>1. Idle /\ UNCHANGED <<page, version>>
    BY <1>1, SaveIs
  <2>2. ASSUME NEW q \in Pages, NEW j \in EntryAt
        PROVE  /\ Header(q, j) => Alive(At(q, j))'
               /\ At(q, j).type = "index" => AliveIndex(At(q, j))'
    BY <2>1, RecordIs DEF Alive, Proper, Current, ChunkNo, Ahead, Behind, AliveIndex,
       ProperIndex, CurrentIndex, At,
       Idle, Doing
  <2> QED
    BY <2>1, <2>2 DEF RecordsInv, Header, At
<1>2. CASE TurnPage
  <2>1. UNCHANGED <<version, job>> /\ \A q \in Pages, j \in EntryAt : At(q, j)' = At(q, j)
    BY <1>2, TurnPageIs
  <2>2. ASSUME NEW q \in Pages, NEW j \in EntryAt
        PROVE  /\ Header(q, j) => Alive(At(q, j))'
               /\ At(q, j).type = "index" => AliveIndex(At(q, j))'
    BY <2>1, RecordIs DEF Alive, Proper, Current, ChunkNo, Ahead, Behind, AliveIndex,
       ProperIndex, CurrentIndex, Doing, Idle
  <2> QED
    BY <2>1, <2>2 DEF RecordsInv, Header
<1>3. CASE WriteData
  <2>1. PICK a \in Pages, i \in EntryAt, d \in EntryRecs :
          /\ d = Data(job.key, NewVersion, job.chunk) /\ Changed(a, i, d)
          /\ Doing("data") /\ Goes("payload", job.chunk) /\ UNCHANGED <<version, saves, rot>>
    <3>1. Data(job.key, NewVersion, job.chunk) \in EntryRecs
      <4>1. NewVersion \in Nat /\ job.key \in Required /\ job.chunk \in Nat
        BY <1>3, <1>b, WriteDataIs DEF NewVersion, Goes
      <4> QED
        BY <4>1, NewRecs
    <3> QED
      BY <1>3, <3>1, ActiveIs, WriteDataIs
  <2>2. d.type = "data" /\ d.key = job.key /\ d.of = NewVersion /\ d.size = NewVersion /\ ChunkNo(d) = job.chunk
    <3>1. Start(NewVersion) \in Nat /\ d.chunk - Start(d.of) = job.chunk
      BY <1>b, <2>1 DEF Data, Start, Goes
    <3> QED
      BY <2>1, <3>1 DEF Data, ChunkNo
  <2>3. Proper(d)
    BY <1>a, <1>b, <2>1, <2>2 DEF Proper, Goes, NewVersion, Last
  <2>4. Current(d)'
    BY <1>b, <2>1, <2>2 DEF Current, Ahead, Goes, Doing, ChunkNo, NewVersion
  <2>5. ASSUME NEW q \in Pages, NEW j \in EntryAt
        PROVE  /\ Header(q, j) => \E f : f = At(q, j) /\ Current(f)'
               /\ At(q, j).type = "index" => \E f : f = At(q, j) /\ CurrentIndex(f)'
    <3>1. PICK f : f = At(q, j)
      OBVIOUS
    <3>2. Header(q, j) => Current(f)'
      BY <1>b, <2>1, <3>1, RecordIs DEF Current, Ahead, Behind, Goes, Doing, ChunkNo
    <3>3. At(q, j).type = "index" => CurrentIndex(f)'
      BY <2>1, <3>1, RecordIs DEF CurrentIndex, Goes, Doing
    <3> QED
      BY <3>1, <3>2, <3>3
  <2> QED
    BY <2>1, <2>2, <2>3, <2>4, <2>5, RecordsAfter
<1>4. CASE WritePayload
  <2>1. PICK a \in Pages, i \in EntryAt :
          /\ Changed(a, i, Payload)
          /\ Doing("payload") /\ UNCHANGED <<version, saves, rot>>
          /\ \/ job.chunk < Last /\ Goes("data", job.chunk + 1)
             \/ Goes("index", 0)
    BY <1>4, ActiveIs, WritePayloadIs
  <2>2. ASSUME NEW q \in Pages, NEW j \in EntryAt
        PROVE  /\ Header(q, j) => \E f : f = At(q, j) /\ Current(f)'
               /\ At(q, j).type = "index" => \E f : f = At(q, j) /\ CurrentIndex(f)'
    <3>1. PICK f : f = At(q, j)
      OBVIOUS
    <3>2. Header(q, j) => Current(f)'
      <4>1. CASE Goes("data", job.chunk + 1)
        BY <1>b, <2>1, <3>1, <4>1, RecordIs DEF Current, Ahead, Behind, Goes, Doing
      <4>2. CASE Goes("index", 0)
        BY <1>b, <2>1, <3>1, <4>2, RecordIs DEF Current, Ahead, Behind, Goes, Doing
      <4> QED
        BY <2>1, <4>1, <4>2
    <3>3. At(q, j).type = "index" => CurrentIndex(f)'
      BY <2>1, <3>1, RecordIs DEF CurrentIndex, Goes, Doing
    <3> QED
      BY <3>1, <3>2, <3>3
  <2> QED
    BY <2>1, <2>2, Kinds, RecordsAfter
<1>5. CASE WriteIndex
  <2>1. PICK a \in Pages, i \in EntryAt, d \in EntryRecs :
          /\ d = Index(job.key, NewVersion) /\ Changed(a, i, d)
          /\ Doing("index") /\ ~Idle
          /\ \A k \in Required : version'[k] = IF k = job.key THEN version[k] + 1 ELSE version[k]
          /\ \/ version[job.key] = 0 /\ job' = NoJob
             \/ version[job.key] > 0 /\ Goes("unindex", 0)
    <3>1. Index(job.key, NewVersion) \in EntryRecs
      <4>1. NewVersion \in Nat /\ job.key \in Required /\ 0 \in Nat
        BY <1>5, <1>b, WriteIndexIs DEF NewVersion
      <4> QED
        BY <4>1, NewRecs
    <3> QED
      BY <1>5, <3>1, ActiveIs, WriteIndexIs
  <2>2. d.type = "index" /\ ProperIndex(d) /\ d.key = job.key /\ d.of = version[job.key] + 1
    BY <1>b, <2>1 DEF Index, ProperIndex, NewVersion
  <2>3. CurrentIndex(d)'
    BY <1>b, <2>1, <2>2 DEF CurrentIndex
  <2>4. ASSUME NEW q \in Pages, NEW j \in EntryAt
        PROVE  /\ Header(q, j) => \E f : f = At(q, j) /\ Current(f)'
               /\ At(q, j).type = "index" => \E f : f = At(q, j) /\ CurrentIndex(f)'
    <3>1. PICK f : f = At(q, j)
      OBVIOUS
    <3>2. Header(q, j) => Current(f)'
      <4>1. CASE f.key = job.key
        BY <1>b, <2>1, <3>1, <4>1, RecordIs DEF Current, Ahead, Behind, Goes, Doing, Idle
      <4>2. CASE f.key # job.key
        BY <1>b, <2>1, <3>1, <4>2, RecordIs DEF Current, Ahead, Behind
      <4> QED
        BY <4>1, <4>2
    <3>3. At(q, j).type = "index" => CurrentIndex(f)'
      <4>1. CASE f.key = job.key
        BY <1>b, <2>1, <3>1, <4>1, RecordIs DEF CurrentIndex, Goes, Doing
      <4>2. CASE f.key # job.key
        BY <1>b, <2>1, <3>1, <4>2, RecordIs DEF CurrentIndex
      <4> QED
        BY <4>1, <4>2
    <3> QED
      BY <3>1, <3>2, <3>3
  <2> QED
    BY <2>1, <2>2, <2>3, <2>4, RecordsAfter
<1>6. CASE EraseIndex
  <2>1. PICK p \in Pages, i \in EntryAt :
          /\ Old(At(p, i), "index") /\ Changed(p, i, Erased)
          /\ Doing("unindex") /\ Goes("shred", 0) /\ UNCHANGED <<version, saves, rot>>
    BY <1>6, EraseIndexIs
  <2>2. ASSUME NEW q \in Pages, NEW j \in EntryAt, ~(q = p /\ j = i)
        PROVE  /\ Header(q, j) => \E f : f = At(q, j) /\ Current(f)'
               /\ At(q, j).type = "index" => \E f : f = At(q, j) /\ CurrentIndex(f)'
    <3>1. PICK f : f = At(q, j)
      OBVIOUS
    <3>2. Header(q, j) => Current(f)'
      <4>1. ChunkNo(f) \in Nat => ChunkNo(f) >= 0
        OBVIOUS
      <4> QED
        BY <1>b, <2>1, <3>1, <4>1, RecordIs DEF Current, Ahead, Behind, Goes, Doing
    <3>3. At(q, j).type = "index" => ~Old(At(q, j), "index")
      BY <2>1, <2>2 DEF OnceInv, Old, Same, IsRec
    <3>4. At(q, j).type = "index" => CurrentIndex(f)'
      BY <2>1, <3>1, <3>3, RecordIs DEF CurrentIndex, Old
    <3> QED
      BY <3>1, <3>2, <3>4
  <2> QED
    BY <2>1, <2>2, Kinds, RecordsAfter
<1>7. CASE ErasePayload
  <2>1. PICK p \in Pages, i \in EntryAt :
          /\ Changed(p, i, Erased)
          /\ Doing("shred") /\ Goes("erase", job.chunk) /\ UNCHANGED <<version, saves, rot>>
    BY <1>7, ErasePayloadIs
  <2>2. ASSUME NEW q \in Pages, NEW j \in EntryAt
        PROVE  /\ Header(q, j) => \E f : f = At(q, j) /\ Current(f)'
               /\ At(q, j).type = "index" => \E f : f = At(q, j) /\ CurrentIndex(f)'
    <3>1. PICK f : f = At(q, j)
      OBVIOUS
    <3>2. Header(q, j) => Current(f)'
      BY <1>b, <2>1, <3>1, RecordIs DEF Current, Ahead, Behind, Goes, Doing
    <3>3. At(q, j).type = "index" => CurrentIndex(f)'
      BY <2>1, <3>1, RecordIs DEF CurrentIndex, Goes, Doing
    <3> QED
      BY <3>1, <3>2, <3>3
  <2> QED
    BY <2>1, <2>2, Kinds, RecordsAfter
<1>8. CASE EraseData
  <2>1. PICK p \in Pages, i \in EntryAt :
          /\ OldChunk(At(p, i)) /\ Changed(p, i, Erased)
          /\ Doing("erase") /\ ~Idle /\ UNCHANGED <<version, saves, rot>>
          /\ \/ job.chunk < Last /\ Goes("shred", job.chunk + 1)
             \/ ~(job.chunk < Last) /\ job' = NoJob
    BY <1>8, EraseDataIs
  <2>2. ASSUME NEW q \in Pages, NEW j \in EntryAt, ~(q = p /\ j = i)
        PROVE  /\ Header(q, j) => \E f : f = At(q, j) /\ Current(f)'
               /\ At(q, j).type = "index" => \E f : f = At(q, j) /\ CurrentIndex(f)'
    <3>1. PICK f : f = At(q, j)
      OBVIOUS
    <3>2. Header(q, j) => ~OldChunk(At(q, j))
      BY <2>1, <2>2 DEF OnceInv, OldChunk, Old, Same, IsRec, Header
    <3>3. ASSUME Header(q, j), f.key = job.key, f.of = version[job.key] - 1 PROVE ChunkNo(f) # job.chunk
      <4>1. f.chunk \in Nat /\ Start(f.of) \in {0, 128} /\ job.chunk \in Nat
        BY <1>b, <2>1, <3>1, <3>3, RecordIs DEF Start
      <4>2. f.chunk # Start(f.of) + job.chunk
        BY <3>1, <3>2, <3>3 DEF OldChunk, Old, Header
      <4> QED
        BY <4>1, <4>2 DEF ChunkNo
    <3>4. Header(q, j) => Current(f)'
      <4>1. CASE job.chunk < Last /\ Goes("shred", job.chunk + 1)
        BY <1>b, <2>1, <3>1, <3>3, <4>1, RecordIs DEF Current, Ahead, Behind, Goes, Doing
      <4>2. CASE ~(job.chunk < Last) /\ job' = NoJob
        <5> SUFFICES ASSUME Header(q, j) PROVE Current(f)'
          OBVIOUS
        <5>1. ASSUME f.key = job.key, f.of = version[job.key] - 1 PROVE ~(ChunkNo(f) >= job.chunk)
          <6>1. ChunkNo(f) # job.chunk
            BY <3>3, <5>1
          <6>2. ChunkNo(f) \in Nat /\ ChunkNo(f) <= ChunksOf[job.key] - 1 /\ job.chunk \in Nat
                /\ ChunksOf[job.key] \in 1..128
            BY <1>a, <1>b, <2>1, <3>1, <5>1, RecordIs
          <6> QED
            BY <4>2, <6>1, <6>2 DEF Last
        <5>2. f.of = version[f.key]
          BY <2>1, <3>1, <5>1, RecordIs DEF Current, Ahead, Behind, Doing
        <5> QED
          BY <2>1, <5>2 DEF Current
      <4> QED
        BY <2>1, <4>1, <4>2
    <3>5. At(q, j).type = "index" => CurrentIndex(f)'
      BY <2>1, <3>1, RecordIs DEF CurrentIndex, Doing
    <3> QED
      BY <3>1, <3>4, <3>5
  <2> QED
    BY <2>1, <2>2, Kinds, RecordsAfter
<1>9. CASE Rot
  <2>1. /\ \A p \in Pages, i \in EntryAt : Marred(At(p, i), At(p, i)')
        /\ UNCHANGED <<version, job, saves>>
    BY <1>9, RotIs
  <2>2. ASSUME NEW p \in Pages, NEW i \in EntryAt
        PROVE  /\ Header(p, i)' => Alive(At(p, i))'
               /\ At(p, i)'.type = "index" => AliveIndex(At(p, i))'
    <3>1. CASE At(p, i)' = At(p, i)
      BY <2>1, <3>1, RecordIs DEF Alive, Proper, Current, ChunkNo, Ahead, Behind, AliveIndex,
         ProperIndex,
         CurrentIndex, Doing, Idle, Header
    <3>2. CASE At(p, i).type \in {"data", "index"} /\ At(p, i)' = [At(p, i) EXCEPT !.sound = FALSE]
      <4>1. At(p, i) \in EntryRecs
        BY EntryTyped
      <4>2. At(p, i)'.type = At(p, i).type
        BY <3>2, <4>1, EntryIs
      <4>3. CASE Header(p, i)
        <5>1. /\ At(p, i)'.key = At(p, i).key /\ At(p, i)'.of = At(p, i).of
              /\ At(p, i)'.chunk = At(p, i).chunk /\ At(p, i)'.size = At(p, i).size
          BY <3>2, <4>1, <4>3, EntryIs DEF Header
        <5> QED
          BY <2>1, <4>2, <4>3, <5>1, RecordIs DEF Alive, Proper, Current, ChunkNo, Ahead, Behind,
             Doing, Idle, Header
      <4>4. CASE At(p, i).type = "index"
        <5>1. /\ At(p, i)'.key = At(p, i).key /\ At(p, i)'.of = At(p, i).of /\ At(p, i)'.start = At(p, i).start
              /\ At(p, i)'.count = At(p, i).count /\ At(p, i)'.total = At(p, i).total
          BY <3>2, <4>1, <4>4, EntryIs
        <5> QED
          BY <2>1, <4>2, <4>4, <5>1, RecordIs DEF AliveIndex, ProperIndex, CurrentIndex, Doing,
             Header
      <4> QED
        BY <3>2, <4>3, <4>4 DEF Header
    <3> QED
      BY <2>1, <3>1, <3>2 DEF Marred
  <2> QED
    BY <2>2 DEF RecordsInv
<1> QED
  BY <1>1, <1>2, <1>3, <1>4, <1>5, <1>6, <1>7, <1>8, <1>9 DEF NvsNext

(* A step that writes no record that is there already writes none twice.    *)
LEMMA OnceAfter ==
  ASSUME NvsInv, NEW p \in Pages, NEW i \in EntryAt, NEW e, Changed(p, i, e),
         e.type \in {"data", "index"} =>
           \A q \in Pages, j \in EntryAt : IsRec(q, j) => ~Same(At(q, j), e)
  PROVE  OnceInv'
<1> USE DEF NvsInv
<1>1. \A q \in Pages, j \in EntryAt : At(q, j)' = IF q = p /\ j = i THEN e ELSE At(q, j)
  BY DEF Changed
<1>2. ASSUME NEW q \in Pages, NEW r \in Pages, NEW j \in EntryAt, NEW l \in EntryAt,
             IsRec(q, j)', IsRec(r, l)', Same(At(q, j), At(r, l))'
      PROVE  q = r /\ j = l
  <2>1. CASE q = p /\ j = i
    <3>1. At(q, j)' = e /\ e.type \in {"data", "index"}
      BY <1>1, <1>2, <2>1 DEF IsRec
    <3>2. ASSUME ~(r = p /\ l = i) PROVE FALSE
      <4>1. At(r, l)' = At(r, l) /\ IsRec(r, l)
        BY <1>1, <1>2, <3>2 DEF IsRec
      <4>2. Same(At(r, l), e)
        BY <1>2, <3>1, <4>1 DEF Same
      <4> QED
        BY <3>1, <4>1, <4>2
    <3> QED
      BY <2>1, <3>2
  <2>2. CASE r = p /\ l = i
    <3>1. At(r, l)' = e /\ e.type \in {"data", "index"}
      BY <1>1, <1>2, <2>2 DEF IsRec
    <3>2. ASSUME ~(q = p /\ j = i) PROVE FALSE
      <4>1. At(q, j)' = At(q, j) /\ IsRec(q, j)
        BY <1>1, <1>2, <3>2 DEF IsRec
      <4>2. Same(At(q, j), e)
        BY <1>2, <3>1, <4>1 DEF Same
      <4> QED
        BY <3>1, <4>1, <4>2
    <3> QED
      BY <2>2, <3>2
  <2>3. CASE ~(q = p /\ j = i) /\ ~(r = p /\ l = i)
    <3>1. At(q, j)' = At(q, j) /\ At(r, l)' = At(r, l)
      BY <1>1, <2>3
    <3> QED
      BY <1>2, <3>1 DEF OnceInv, IsRec, Same
  <2> QED
    BY <2>1, <2>2, <2>3
<1> QED
  BY <1>2 DEF OnceInv

LEMMA OnceStep == NvsInv /\ NvsNext => OnceInv'
<1> SUFFICES ASSUME NvsInv, NvsNext PROVE OnceInv'
  OBVIOUS
<1> USE DEF NvsInv
<1>b. ~Idle => job.key \in Required /\ job.chunk \in Nat /\ version[job.key] \in Nat
  BY JobIs
<1>1. CASE (\E k \in Required : Save(k)) \/ TurnPage
  <2>1. \A q \in Pages, j \in EntryAt : At(q, j)' = At(q, j)
    BY <1>1, SaveIs, TurnPageIs DEF At
  <2> QED
    BY <2>1 DEF OnceInv, IsRec, Same
<1>2. CASE WriteData
  <2>0. PICK a \in Pages, i \in EntryAt :
          Changed(a, i, Data(job.key, NewVersion, job.chunk)) /\ Doing("data") /\ ~Idle
    BY <1>2, ActiveIs, WriteDataIs DEF Goes
  <2>1. PICK d : d = Data(job.key, NewVersion, job.chunk) /\ Changed(a, i, d) /\ Doing("data") /\ ~Idle
    BY <2>0
  <2>2. /\ d.type = "data" /\ d.key = job.key /\ d.of = version[job.key] + 1
        /\ d.chunk = Start(d.of) + job.chunk
    BY <2>1 DEF Data, NewVersion
  <2>3. ASSUME NEW q \in Pages, NEW j \in EntryAt, IsRec(q, j), Same(At(q, j), d) PROVE FALSE
    <3>1. PICK f : f = At(q, j)
      OBVIOUS
    <3>2. Header(q, j) /\ f.key = job.key /\ f.of = version[job.key] + 1 /\ f.chunk = Start(f.of) + job.chunk
      BY <2>2, <2>3, <3>1 DEF Same, Header
    <3>3. ChunkNo(f) = job.chunk
      BY <1>b, <2>1, <3>2 DEF ChunkNo, Start
    <3>4. Current(f)
      BY <3>1, <3>2, RecordIs
    <3> QED
      BY <1>b, <2>1, <3>2, <3>3, <3>4 DEF Current, Ahead, Behind, Doing
  <2> QED
    BY <2>1, <2>3, OnceAfter
<1>3. CASE WritePayload
  <2>1. \E a \in Pages, i \in EntryAt : Changed(a, i, Payload)
    BY <1>3, ActiveIs, WritePayloadIs
  <2> QED
    BY <2>1, Kinds, OnceAfter
<1>4. CASE WriteIndex
  <2>0. PICK a \in Pages, i \in EntryAt :
          Changed(a, i, Index(job.key, NewVersion)) /\ Doing("index") /\ ~Idle
    BY <1>4, ActiveIs, WriteIndexIs
  <2>1. PICK d : d = Index(job.key, NewVersion) /\ Changed(a, i, d) /\ Doing("index") /\ ~Idle
    BY <2>0
  <2>2. d.type = "index" /\ d.key = job.key /\ d.of = version[job.key] + 1
    BY <2>1 DEF Index, NewVersion
  <2>3. ASSUME NEW q \in Pages, NEW j \in EntryAt, IsRec(q, j), Same(At(q, j), d) PROVE FALSE
    <3>1. At(q, j).type = "index" /\ At(q, j).key = job.key /\ At(q, j).of = version[job.key] + 1
      BY <2>2, <2>3 DEF Same
    <3>2. CurrentIndex(At(q, j))
      BY <3>1, RecordIs
    <3> QED
      BY <1>b, <2>1, <3>1, <3>2 DEF CurrentIndex
  <2> QED
    BY <2>1, <2>3, OnceAfter
<1>5. CASE EraseIndex \/ ErasePayload \/ EraseData
  <2>1. \E a \in Pages, i \in EntryAt : Changed(a, i, Erased)
    BY <1>5, EraseIndexIs, ErasePayloadIs, EraseDataIs
  <2> QED
    BY <2>1, Kinds, OnceAfter
<1>6. CASE Rot
  <2>1. ASSUME NEW p \in Pages, NEW i \in EntryAt
        PROVE  /\ At(p, i)'.type = At(p, i).type
               /\ IsRec(p, i) => At(p, i)'.key = At(p, i).key /\ At(p, i)'.of = At(p, i).of
               /\ At(p, i).type = "data" => At(p, i)'.chunk = At(p, i).chunk
    <3>1. Marred(At(p, i), At(p, i)') /\ At(p, i) \in EntryRecs
      BY <1>6, RotIs, EntryTyped
    <3>2. CASE At(p, i).type \in {"data", "index"} /\ At(p, i)' = [At(p, i) EXCEPT !.sound = FALSE]
      <4>1. At(p, i)'.type = At(p, i).type
        BY <3>1, <3>2, EntryIs
      <4>2. At(p, i)'.key = At(p, i).key /\ At(p, i)'.of = At(p, i).of
        BY <3>1, <3>2, EntryIs
      <4>3. At(p, i).type = "data" => At(p, i)'.chunk = At(p, i).chunk
        BY <3>1, <3>2, EntryIs
      <4> QED
        BY <4>1, <4>2, <4>3
    <3> QED
      BY <3>1, <3>2 DEF Marred
  <2>2. \A p, q \in Pages, i, j \in EntryAt :
          IsRec(p, i)' /\ IsRec(q, j)' /\ Same(At(p, i), At(q, j))'
            => IsRec(p, i) /\ IsRec(q, j) /\ Same(At(p, i), At(q, j))
    BY <2>1 DEF IsRec, Same
  <2> QED
    BY <2>2 DEF OnceInv
<1> QED
  BY <1>1, <1>2, <1>3, <1>4, <1>5, <1>6 DEF NvsNext

(* The library keeps the invariant. *)
LEMMA NvsStart == NvsInit => NvsInv
<1> SUFFICES ASSUME NvsInit PROVE NvsInv
  OBVIOUS
<1>1. PICK p \in Pages : page = [q \in Pages |-> Fresh(IF q = p THEN "active" ELSE "empty")]
  BY DEF NvsInit
<1>2. \A q \in Pages :
        /\ page[q].state = IF q = p THEN "active" ELSE "empty"
        /\ page[q].header = TRUE
        /\ page[q].entry = [i \in EntryAt |-> Empty]
  BY <1>1 DEF Fresh
<1>3. \A q \in Pages, i \in EntryAt : At(q, i) = Empty
  BY <1>2 DEF At
<1>4. page \in [Pages -> PageRecs]
  <2>1. \A q \in Pages : Fresh(IF q = p THEN "active" ELSE "empty") \in PageRecs
    BY DEF Fresh, PageRecs, EntryRecs
  <2> QED
    BY <1>1, <2>1
<1>5. version \in [Required -> Nat] /\ job = NoJob /\ saves = 0 /\ rot = 0
  BY DEF NvsInit
<1>6. NvsTypes
  BY <1>4, <1>5 DEF NvsTypes, Doing, NoJob
<1>7. PagesInv
  BY <1>2, <1>3 DEF PagesInv
<1>8. FollowInv
  BY <1>3, <1>5, Kinds DEF FollowInv, NextInv, TipInv, PayloadInv, ShredInv, Header, Doing, NoJob
<1>9. RecordsInv /\ OnceInv
  BY <1>3, Kinds DEF RecordsInv, OnceInv, IsRec, Header
<1> QED
  BY <1>6, <1>7, <1>8, <1>9 DEF NvsInv

LEMMA NvsStep == NvsInv /\ [NvsNext]_nvsVars => NvsInv'
<1>1. CASE NvsNext
  BY <1>1, TypesStep, PagesStep, FollowStep, RecordsStep, OnceStep DEF NvsInv
<1>2. CASE UNCHANGED nvsVars
  BY <1>2 DEF NvsInv, nvsVars, NvsTypes, PagesInv, FollowInv, NextInv, TipInv, PayloadInv, ShredInv,
     RecordsInv, OnceInv, At, Header, Tip, OldChunk, Old, Alive, Proper, Current, ChunkNo, Ahead, Behind,
     AliveIndex, ProperIndex, CurrentIndex, Same, IsRec, Doing, Idle, Last, NewVersion
<1> QED
  BY <1>1, <1>2

-----------------------------------------------------------------------------
(* The walk of the analysis over a page: it reaches exactly the entries     *)
(* that are not the payload of a record.                                    *)

IsReach(f, p) ==
  f = [i \in EntryAt |-> i = 0 \/ \E j \in 0..(i - 1) : f[j] /\ j + StepFrom(p, j) = i]
Reach(p) == CHOOSE f : IsReach(f, p)
Clear(p, i) == i = 0 \/ ~Header(p, i - 1)

LEMMA WalkedIs ==
  ASSUME NEW p
  PROVE  Walked(p) = IF page[p].state = "empty" THEN {} ELSE {i \in EntryAt : Reach(p)[i]}
BY DEF Walked, Reach, IsReach

LEMMA StepIs ==
  ASSUME NvsInv, NEW p \in Pages, NEW i \in EntryAt
  PROVE  StepFrom(p, i) = IF Header(p, i) THEN 2 ELSE 1
<1>1. At(p, i) \in EntryRecs
  BY EntryTyped DEF NvsInv
<1>2. /\ Header(p, i) => At(p, i).bits = "written" /\ At(p, i).span = 2
      /\ At(p, i).type = "index" => At(p, i).span = 1
  BY <1>1, EntryIs DEF DataRecs, IndexRecs, Header, Span
<1> QED
  BY <1>2 DEF StepFrom, IsRecord, Written, Header, At

(* Behind a header comes no record. *)
LEMMA AfterHeader ==
  ASSUME NvsInv, NEW p \in Pages, NEW i \in EntryAt, Header(p, i)
  PROVE  i + 1 \in EntryAt /\ At(p, i + 1).type \in {"none", "payload"}
<1>1. i + 1 \in EntryAt /\ (At(p, i + 1) \in {Payload, Erased} \/ Tip(p, i))
  BY DEF NvsInv, FollowInv, NextInv
<1>2. i + 1 > i
  BY NvsAssumption DEF EntryAt
<1>3. At(p, i + 1) \in {Payload, Erased, Empty}
  BY <1>1, <1>2 DEF Tip
<1> QED
  BY <1>1, <1>3, Kinds

LEMMA ClearIsReached ==
  ASSUME NvsInv, NEW p \in Pages, NEW i \in EntryAt
  PROVE  Clear(p, i) <=> (i = 0 \/ \E j \in 0..(i - 1) : Clear(p, j) /\ j + StepFrom(p, j) = i)
<1>0. i \in Nat /\ \A j \in 0..(i - 1) : j \in EntryAt /\ j \in Nat /\ j < i
  BY NvsAssumption DEF EntryAt
<1>1. ASSUME Clear(p, i), i # 0
      PROVE  \E j \in 0..(i - 1) : Clear(p, j) /\ j + StepFrom(p, j) = i
  <2>1. ~Header(p, i - 1) /\ i - 1 \in 0..(i - 1) /\ i - 1 \in EntryAt
    BY <1>0, <1>1 DEF Clear
  <2>2. CASE Clear(p, i - 1)
    <3>1. StepFrom(p, i - 1) = 1
      BY <2>1, StepIs
    <3> QED
      BY <1>0, <2>1, <2>2, <3>1
  <2>3. CASE ~Clear(p, i - 1)
    <3>1. i - 1 # 0 /\ Header(p, (i - 1) - 1)
      BY <2>3 DEF Clear
    <3>2. (i - 1) - 1 = i - 2 /\ i - 2 \in 0..(i - 1) /\ i - 2 \in EntryAt /\ (i - 2) - 1 = i - 3
          /\ (i - 2 = 0 \/ i - 3 \in EntryAt) /\ (i - 3) + 1 = i - 2
      BY <1>0, <1>1, <3>1, NvsAssumption DEF EntryAt
    <3>3. Header(p, i - 2)
      BY <3>1, <3>2
    <3>4. i - 2 = 0 \/ ~Header(p, i - 3)
      BY <3>2, <3>3, AfterHeader DEF Header
    <3>5. Clear(p, i - 2)
      BY <3>2, <3>4 DEF Clear
    <3>6. StepFrom(p, i - 2) = 2
      BY <3>2, <3>3, StepIs
    <3> QED
      BY <1>0, <3>2, <3>5, <3>6
  <2> QED
    BY <2>2, <2>3
<1>2. ASSUME NEW j \in 0..(i - 1), Clear(p, j), j + StepFrom(p, j) = i
      PROVE  Clear(p, i)
  <2>1. StepFrom(p, j) = IF Header(p, j) THEN 2 ELSE 1
    BY <1>0, StepIs
  <2>2. CASE Header(p, j)
    <3>1. i = j + 2 /\ i - 1 = j + 1 /\ j \in EntryAt
      BY <1>0, <1>2, <2>1, <2>2
    <3>2. ~Header(p, j + 1)
      BY <2>2, <3>1, AfterHeader DEF Header
    <3> QED
      BY <3>1, <3>2 DEF Clear
  <2>3. CASE ~Header(p, j)
    <3>1. i - 1 = j
      BY <1>0, <1>2, <2>1, <2>3
    <3> QED
      BY <2>3, <3>1 DEF Clear
  <2> QED
    BY <2>2, <2>3
<1> QED
  BY <1>1, <1>2 DEF Clear

LEMMA ReachIs ==
  ASSUME NvsInv, NEW p \in Pages, NEW i \in EntryAt
  PROVE  Reach(p)[i] <=> Clear(p, i)
<1> DEFINE c == [n \in EntryAt |-> Clear(p, n)]
<1>1. \A n \in EntryAt : n \in Nat /\ \A j \in 0..(n - 1) : j \in EntryAt /\ j < n
  BY NvsAssumption DEF EntryAt
<1>2. IsReach(c, p)
  <2>1. \A n \in EntryAt :
          Clear(p, n) = (n = 0 \/ \E j \in 0..(n - 1) : c[j] /\ j + StepFrom(p, j) = n)
    <3> TAKE n \in EntryAt
    <3>1. \A j \in 0..(n - 1) : c[j] = Clear(p, j)
      BY <1>1
    <3>2. Clear(p, n) \in BOOLEAN
      BY DEF Clear
    <3> HIDE DEF c
    <3> QED
      BY <3>1, <3>2, ClearIsReached
  <2> QED
    BY <2>1 DEF IsReach
<1> DEFINE f == Reach(p)
<1>3. IsReach(f, p)
  BY <1>2 DEF Reach
<1> HIDE DEF c, f
<1>4. \A n \in EntryAt : f[n] <=> (n = 0 \/ \E j \in 0..(n - 1) : f[j] /\ j + StepFrom(p, j) = n)
  BY <1>3 DEF IsReach
<1> DEFINE Off == {n \in EntryAt : ~(f[n] <=> Clear(p, n))}
<1>5. ASSUME Off # {} PROVE FALSE
  <2>1. Off \in SUBSET Nat
    BY <1>1
  <2>2. PICK m \in Off : \A n \in Off : m <= n
    <3> HIDE DEF Off
    <3> QED
      BY <1>5, <2>1, Least
  <2>3. \A j \in 0..(m - 1) : f[j] <=> Clear(p, j)
    BY <1>1, <2>2
  <2>4. f[m] <=> (m = 0 \/ \E j \in 0..(m - 1) : Clear(p, j) /\ j + StepFrom(p, j) = m)
    BY <1>4, <2>2, <2>3
  <2>5. f[m] <=> Clear(p, m)
    BY <2>2, <2>4, ClearIsReached
  <2> QED
    BY <2>2, <2>5
<1> QED
  BY <1>5 DEF f

LEMMA WalkIs ==
  ASSUME NvsInv, NEW p \in Pages, NEW i \in EntryAt
  PROVE  i \in Walked(p) <=> page[p].state # "empty" /\ Clear(p, i)
BY WalkedIs, ReachIs

-----------------------------------------------------------------------------
(* What the analysis sees, and what is there. *)

Types == {"data", "index"}
Held(k, type) == {r \in Window \X EntryAt : Entry(r).type = type /\ Entry(r).key = k}
Numbers(k, v) == {Start(v) + c : c \in 0..(ChunksOf[k] - 1)}

LEMMA PlacesFinite == IsFiniteSet(Window \X EntryAt)
<1>1. IsFiniteSet(EntryAt) /\ IsFiniteSet(Window)
  BY FS_Interval, NvsAssumption DEF EntryAt
<1> QED
  BY <1>1, FS_Product

LEMMA EntryAre ==
  ASSUME NEW r \in Window \X EntryAt
  PROVE  r[1] \in Pages /\ r[2] \in EntryAt /\ Entry(r) = At(r[1], r[2]) /\ r = <<r[1], r[2]>>
BY DEF Pages, Entry, At

(* Every record is walked over as one. *)
LEMMA RecordWalked ==
  ASSUME NvsInv, NEW p \in Pages, NEW i \in EntryAt, IsRec(p, i)
  PROVE  page[p].state # "empty" /\ i \in Walked(p) /\ Written(p, i) /\ IsRecord(p, i)
<1>1. page[p].state # "empty"
  BY InUse DEF NvsInv, IsRec
<1>2. Clear(p, i)
  <2> SUFFICES ASSUME i # 0, Header(p, i - 1) PROVE FALSE
    BY DEF Clear
  <2>1. i - 1 \in EntryAt /\ (i - 1) + 1 = i
    BY NvsAssumption DEF EntryAt
  <2>2. At(p, i).type \in {"none", "payload"}
    BY <2>1, AfterHeader
  <2> QED
    BY <2>2 DEF IsRec
<1>3. At(p, i).bits = "written"
  BY EntryTyped, EntryIs DEF IsRec, NvsInv
<1> QED
  BY <1>1, <1>2, <1>3, WalkIs DEF Written, IsRecord, IsRec, At

(* The analysis finds the records that are there, no more and no less.      *)
LEMMA RecordsAre ==
  ASSUME NvsInv, NEW k, NEW type \in Types
  PROVE  records(k, type) = Held(k, type)
<1>1. \A r \in Window \X EntryAt :
        Entry(r).type = type => r[2] \in Walked(r[1]) /\ IsRecord(r[1], r[2])
  BY EntryAre, RecordWalked DEF IsRec, Types
<1> QED
  BY <1>1 DEF records, Held, Entry

(* A version has one index, and one record of each number.                 *)
LEMMA OneHeld ==
  ASSUME NvsInv, NEW k, NEW v, NEW type \in Types, NEW r \in Holds(k, type, v), NEW s \in Holds(k, type, v),
         type = "data" => Entry(r).chunk = Entry(s).chunk
  PROVE  r = s
<1>1. /\ r \in Window \X EntryAt /\ s \in Window \X EntryAt
      /\ Entry(r).type = type /\ Entry(r).key = k /\ Entry(r).of = v
      /\ Entry(s).type = type /\ Entry(s).key = k /\ Entry(s).of = v
  BY DEF Holds
<1>2. r[1] = s[1] /\ r[2] = s[2]
  BY <1>1, EntryAre DEF NvsInv, OnceInv, IsRec, Same, Types
<1> QED
  BY <1>1, <1>2, EntryAre

(* The versions a blob's index can be of. *)
Read(k, v) ==
  v \in Nat /\ v > 0 /\ (v = version[k] \/ (v = version[k] - 1 /\ Doing("unindex") /\ job.key = k))

LEMMA IndexIs ==
  ASSUME NvsInv, NEW k, NEW r \in Held(k, "index")
  PROVE  /\ Read(k, Entry(r).of) /\ r \in Holds(k, "index", Entry(r).of)
         /\ Entry(r).start = Start(Entry(r).of) /\ Entry(r).count = ChunksOf[k]
         /\ Entry(r).total = Entry(r).of * ChunksOf[k]
<1>1. r \in Window \X EntryAt /\ Entry(r).type = "index" /\ Entry(r).key = k
  BY DEF Held
<1>2. r[1] \in Pages /\ r[2] \in EntryAt /\ Entry(r) = At(r[1], r[2])
  BY <1>1, EntryAre
<1>3. Entry(r).of \in Nat /\ Entry(r).of > 0 /\ ProperIndex(Entry(r)) /\ CurrentIndex(Entry(r))
  BY <1>1, <1>2, RecordIs
<1> QED
  BY <1>1, <1>3 DEF Read, Holds, ProperIndex, CurrentIndex

LEMMA ChunkIs ==
  ASSUME NvsInv, NEW k \in Required, NEW v, NEW r \in Holds(k, "data", v)
  PROVE  Entry(r).chunk \in Numbers(k, v) /\ Entry(r).size = v /\ v \in Nat
<1>1. r \in Window \X EntryAt /\ Entry(r).type = "data" /\ Entry(r).key = k /\ Entry(r).of = v
  BY DEF Holds
<1>2. r[1] \in Pages /\ r[2] \in EntryAt /\ Entry(r) = At(r[1], r[2])
  BY <1>1, EntryAre
<1>3. Entry(r).of \in Nat /\ Entry(r).chunk \in Nat /\ Proper(Entry(r))
  BY <1>1, <1>2, RecordIs DEF Header
<1>4. PICK c \in 0..(ChunksOf[k] - 1) : c = Entry(r).chunk - Start(v)
  BY <1>1, <1>3 DEF Proper, ChunkNo
<1>5. Start(v) \in {0, 128}
  BY DEF Start
<1>6. Entry(r).chunk = Start(v) + c
  BY <1>3, <1>4, <1>5
<1>7. Entry(r).size = v /\ v \in Nat
  BY <1>1, <1>3 DEF Proper
<1> QED
  BY <1>4, <1>6, <1>7 DEF Numbers

(* The numbers tell the versions apart. *)
LEMMA NumbersApart ==
  ASSUME NvsInv, NEW k \in Required, NEW v, Read(k, v), NEW r \in Held(k, "data"),
         Entry(r).chunk \in Numbers(k, v)
  PROVE  r \in Holds(k, "data", v)
<1>1. r \in Window \X EntryAt /\ Entry(r).type = "data" /\ Entry(r).key = k
  BY DEF Held
<1>2. r[1] \in Pages /\ r[2] \in EntryAt /\ Entry(r) = At(r[1], r[2])
  BY <1>1, EntryAre
<1> DEFINE w == Entry(r).of
<1>3. w \in Nat /\ Current(Entry(r)) /\ version[k] \in Nat
  BY <1>1, <1>2, RecordIs DEF Header
<1>4. r \in Holds(k, "data", w)
  BY <1>1 DEF Holds
<1>5. PICK c \in 0..(ChunksOf[k] - 1), d \in 0..(ChunksOf[k] - 1) : Start(v) + c = Start(w) + d
  BY <1>4, ChunkIs DEF Numbers
<1>6. Start(v) = Start(w)
  BY <1>5, NvsAssumption DEF Start
<1>7. v % 2 = w % 2
  BY <1>3, <1>6 DEF Read, Start
<1>8. w = version[k] \/ w = version[k] + 1 \/ w = version[k] - 1
  BY <1>1, <1>3 DEF Current, Ahead, Behind
<1>9. v = version[k] - 1 => w # version[k] + 1
  <2> SUFFICES ASSUME v = version[k] - 1, w = version[k] + 1 PROVE FALSE
    OBVIOUS
  <2>1. Doing("unindex") /\ v # version[k]
    BY <1>3 DEF Read
  <2>2. ~Doing("data") /\ ~Doing("payload") /\ ~Doing("index")
    BY <2>1 DEF Doing
  <2> QED
    BY <1>1, <1>3, <2>2 DEF Current, Ahead, Behind
<1>10. v = w
  <2> HIDE DEF w
  <2>1. v \in Nat /\ (v = version[k] \/ v = version[k] - 1)
    BY DEF Read
  <2> QED
    BY <1>3, <1>7, <1>8, <1>9, <2>1
<1> QED
  BY <1>4, <1>10

(* The index's numbers do not wrap around a byte.                          *)
LEMMA NumbersAre ==
  ASSUME NEW k \in Required, NEW v
  PROVE  {(Start(v) + n) % 256 : n \in 0..(ChunksOf[k] - 1)} = Numbers(k, v)
<1>1. \A n \in 0..(ChunksOf[k] - 1) : (Start(v) + n) % 256 = Start(v) + n
  BY NvsAssumption DEF Start
<1> QED
  BY <1>1 DEF Numbers

-----------------------------------------------------------------------------
(* What is found ready can be read back. *)

Indexes(k) == {r \in Held(k, "index") : Entry(r).sound}
Chunks(k, v) == {r \in Held(k, "data") : Entry(r).chunk \in Numbers(k, v)}

(* complete, in the terms above.                                           *)
LEMMA CompleteIs ==
  ASSUME NvsInv, NEW k \in Required
  PROVE  complete(k) <=>
           /\ Cardinality(Indexes(k)) = 1
           /\ \A b \in Indexes(k) : LET v == Entry(b).of IN
                /\ Cardinality(Chunks(k, v)) = ChunksOf[k]
                /\ {Entry(r).chunk : r \in Chunks(k, v)} = Numbers(k, v)
                /\ \A r \in Chunks(k, v) : Valid(r[1], r[2])
                /\ MapThenSumSet(LAMBDA r : Entry(r).size, Chunks(k, v)) = v * ChunksOf[k]
<1>1. records(k, "index") = Held(k, "index") /\ records(k, "data") = Held(k, "data")
  BY RecordsAre DEF Types
<1>2. ChunksOf[k] \in 1..128
  BY NvsAssumption
<1>3. \A b \in Indexes(k) :
        /\ Entry(b).count = ChunksOf[k] /\ Entry(b).total = Entry(b).of * ChunksOf[k]
        /\ {(Entry(b).start + n) % 256 : n \in 0..(Entry(b).count - 1)} = Numbers(k, Entry(b).of)
  BY IndexIs, NumbersAre DEF Indexes
<1>4. {r \in records(k, "index") : Entry(r).sound} = Indexes(k)
  BY <1>1 DEF Indexes
<1> DEFINE Part(b) ==
        LET expected == {(Entry(b).start + n) % 256 : n \in 0..(Entry(b).count - 1)}
            chunks == {r \in records(k, "data") : Entry(r).chunk \in expected}
        IN /\ Entry(b).count > 0
           /\ Cardinality(chunks) = Entry(b).count
           /\ {Entry(r).chunk : r \in chunks} = expected
           /\ \A r \in chunks : Valid(r[1], r[2])
           /\ MapThenSumSet(LAMBDA r : Entry(r).size, chunks) = Entry(b).total
       Piece(b) == LET v == Entry(b).of IN
                /\ Cardinality(Chunks(k, v)) = ChunksOf[k]
                /\ {Entry(r).chunk : r \in Chunks(k, v)} = Numbers(k, v)
                /\ \A r \in Chunks(k, v) : Valid(r[1], r[2])
                /\ MapThenSumSet(LAMBDA r : Entry(r).size, Chunks(k, v)) = v * ChunksOf[k]
<1>5. ASSUME NEW b \in Indexes(k) PROVE Part(b) <=> Piece(b)
  <2>1. {r \in records(k, "data") : Entry(r).chunk \in Numbers(k, Entry(b).of)} = Chunks(k, Entry(b).of)
    BY <1>1 DEF Chunks
  <2>2. Entry(b).count > 0
    BY <1>2, <1>3
  <2> QED
    BY <1>3, <2>1, <2>2
<1>6. complete(k) <=> Cardinality(Indexes(k)) = 1 /\ \A b \in Indexes(k) : Part(b)
  BY <1>4 DEF complete
<1> HIDE DEF Part
<1> QED
  BY <1>5, <1>6

(* What is found ready is one version of each blob, whole in the window.    *)
LEMMA ReadyIsWhole ==
  ASSUME NvsInv, ready, NEW k \in Required
  PROVE  /\ \E v \in 1..version[k] : Whole(k, v)
         /\ Idle => Whole(k, version[k])
<1>1. complete(k)
  BY DEF ready
<1>2. PICK b : Indexes(k) = {b}
  <2>1. Cardinality(Indexes(k)) = 1
    BY <1>1, CompleteIs
  <2>2. IsFiniteSet(Indexes(k))
    BY PlacesFinite, FS_Subset DEF Indexes, Held
  <2> QED
    BY <2>1, <2>2, FS_Singleton
<1> DEFINE v == Entry(b).of
<1>3. b \in Held(k, "index") /\ Entry(b).sound
  BY <1>2 DEF Indexes
<1>4. Read(k, v) /\ b \in Holds(k, "index", v)
  BY <1>3, IndexIs
<1>5. /\ {Entry(r).chunk : r \in Chunks(k, v)} = Numbers(k, v)
      /\ \A r \in Chunks(k, v) : Valid(r[1], r[2])
  BY <1>1, <1>2, CompleteIs
<1> HIDE DEF v
<1>6. \A r \in Window \X EntryAt : Entry(r).type \in Types => page[r[1]].header /\ Valid(r[1], r[2])
  <2> SUFFICES ASSUME NEW r \in Window \X EntryAt, Entry(r).type \in Types
               PROVE  page[r[1]].header /\ Valid(r[1], r[2])
    OBVIOUS
  <2>1. r[1] \in Window /\ r[1] \in Pages /\ r[2] \in EntryAt /\ IsRec(r[1], r[2])
    BY EntryAre DEF IsRec, Types
  <2>2. page[r[1]].state # "empty" /\ r[2] \in Walked(r[1]) /\ Written(r[1], r[2])
    BY <2>1, RecordWalked
  <2> QED
    BY <2>1, <2>2 DEF ready, invalid_entries
<1>7. Chunks(k, v) = Holds(k, "data", v)
  <2>1. Chunks(k, v) \subseteq Holds(k, "data", v)
    BY <1>4, NumbersApart DEF Chunks
  <2>2. Holds(k, "data", v) \subseteq Chunks(k, v)
    BY ChunkIs DEF Chunks, Holds, Held
  <2> QED
    BY <2>1, <2>2
<1>8. Cardinality(Holds(k, "index", v)) = 1
  <2>1. Holds(k, "index", v) = {b}
    BY <1>4, OneHeld DEF Types
  <2> QED
    BY <2>1, FS_Singleton
<1>9. \A w \in 1..version[k] : w # v => Holds(k, "index", w) = {}
  <2> SUFFICES ASSUME NEW w, w # v, NEW r \in Holds(k, "index", w) PROVE FALSE
    OBVIOUS
  <2>1. r \in Window \X EntryAt /\ Entry(r).type = "index" /\ Entry(r).key = k /\ Entry(r).of = w
    BY DEF Holds
  <2>2. r \in Indexes(k)
    BY <1>6, <2>1 DEF Indexes, Held, Types, Valid, Entry
  <2> QED
    BY <1>2, <2>1, <2>2 DEF v
<1>10. \A r \in Holds(k, "index", v) \cup Holds(k, "data", v) : Valid(r[1], r[2]) /\ page[r[1]].header
  BY <1>6 DEF Holds, Types
<1>11. Whole(k, v)
  BY <1>5, <1>7, <1>8, <1>9, <1>10 DEF Whole, Numbers
<1>12. v \in 1..version[k] /\ (Idle => v = version[k])
  <2>1. version[k] \in Nat
    BY DEF NvsInv, NvsTypes
  <2>2. Idle => ~Doing("unindex")
    BY DEF Idle, Doing
  <2> QED
    BY <1>4, <2>1, <2>2 DEF Read
<1> QED
  BY <1>11, <1>12

-----------------------------------------------------------------------------
(* What is whole is found ready. *)

One(S) == CHOOSE r \in S : TRUE
TotalSize(S) == MapThenSumSet(LAMBDA r : Entry(r).size, S)
IsSum(f, S) ==
  f = [s \in SUBSET S |-> IF s = {} THEN 0 ELSE Entry(One(s)).size + f[s \ {One(s)}]]

(* Induction over the subsets of a finite set.                             *)
LEMMA SubsetInduction ==
  ASSUME NEW D, IsFiniteSet(D), NEW G,
         \A s \in SUBSET D : (\A x \in s : s \ {x} \in G) => s \in G
  PROVE  SUBSET D \subseteq G
<1> DEFINE Missing == {s \in SUBSET D : s \notin G}
<1> SUFFICES ASSUME Missing # {} PROVE FALSE
  OBVIOUS
<1>1. IsWellFoundedOn(StrictSubsetOrdering(D), FiniteSubsetsOf(D))
  BY FS_StrictSubsetOrderingWellFounded
<1>2. FiniteSubsetsOf(D) = SUBSET D
  BY FS_FiniteSubsetsOfFinite
<1>3. PICK s \in Missing : \A t \in Missing : <<t, s>> \notin StrictSubsetOrdering(D)
  <2> HIDE DEF Missing
  <2>1. Missing \subseteq FiniteSubsetsOf(D)
    BY <1>2 DEF Missing
  <2> QED
    BY <1>1, <2>1, WFMin
<1>4. ASSUME NEW x \in s PROVE s \ {x} \in G
  <2>1. s \ {x} \in SUBSET D /\ s \ {x} \subseteq s /\ s \ {x} # s /\ s \in SUBSET D
    OBVIOUS
  <2>2. <<s \ {x}, s>> \in StrictSubsetOrdering(D)
    BY <2>1 DEF StrictSubsetOrdering
  <2> QED
    BY <1>3, <2>1, <2>2
<1> QED
  BY <1>3, <1>4

(* The fold of the community modules over chunks of one size.              *)
LEMMA SizesOfEqual ==
  ASSUME NEW S, IsFiniteSet(S), NEW v \in Nat, \A r \in S : Entry(r).size = v
  PROVE  TotalSize(S) = v * Cardinality(S)
<1>1. \A s \in SUBSET S : s # {} => One(s) \in s /\ Entry(One(s)).size = v /\ s \ {One(s)} \in SUBSET S
  BY DEF One
<1>2. \A s \in SUBSET S : IsFiniteSet(s) /\ Cardinality(s) \in Nat
  BY FS_Subset, FS_CardinalityType
<1>3. \A s \in SUBSET S : s # {} => Cardinality(s \ {One(s)}) = Cardinality(s) - 1
  BY <1>1, <1>2, FS_RemoveElement
<1>4. Cardinality({}) = 0
  BY FS_EmptySet
<1>5. \A s \in SUBSET S : s # {} => v * Cardinality(s) = v + v * Cardinality(s \ {One(s)})
  <2> SUFFICES ASSUME NEW s \in SUBSET S, s # {}
               PROVE  v * Cardinality(s) = v + v * Cardinality(s \ {One(s)})
    OBVIOUS
  <2>1. PICK n \in Nat : n = Cardinality(s \ {One(s)})
    BY <1>1, <1>2
  <2>2. Cardinality(s) = n + 1
    BY <1>2, <1>3, <2>1
  <2>3. v * (n + 1) = v + v * n
    OBVIOUS
  <2> QED
    BY <2>1, <2>2, <2>3
<1> DEFINE g == [s \in SUBSET S |-> v * Cardinality(s)]
<1>6. IsSum(g, S)
  <2>1. \A s \in SUBSET S : v * Cardinality(s) =
          IF s = {} THEN 0 ELSE Entry(One(s)).size + g[s \ {One(s)}]
    <3> TAKE s \in SUBSET S
    <3>1. s # {} => g[s \ {One(s)}] = v * Cardinality(s \ {One(s)})
      BY <1>1
    <3> HIDE DEF g
    <3>2. CASE s = {}
      BY <1>4, <3>2
    <3>3. CASE s # {}
      BY <1>1, <1>5, <3>1, <3>3
    <3> QED
      BY <3>2, <3>3
  <2> QED
    BY <2>1 DEF IsSum
<1> DEFINE f == CHOOSE h : IsSum(h, S)
<1>7. IsSum(f, S) /\ TotalSize(S) = f[S]
  <2>1. IsSum(f, S)
    BY <1>6
  <2>2. TotalSize(S) = f[S]
    BY DEF TotalSize, MapThenSumSet, MapThenFoldSet, IsSum, One
  <2> QED
    BY <2>1, <2>2
<1> HIDE DEF f, g
<1> DEFINE G == {s \in SUBSET S : f[s] = v * Cardinality(s)}
<1>8. ASSUME NEW s \in SUBSET S, \A x \in s : s \ {x} \in G PROVE s \in G
  <2>1. f[s] = IF s = {} THEN 0 ELSE Entry(One(s)).size + f[s \ {One(s)}]
    BY <1>7 DEF IsSum
  <2>2. CASE s = {}
    BY <1>4, <2>1, <2>2
  <2>3. CASE s # {}
    <3>1. f[s \ {One(s)}] = v * Cardinality(s \ {One(s)})
      BY <1>1, <1>8, <2>3
    <3> QED
      BY <1>1, <1>5, <2>1, <2>3, <3>1
  <2> QED
    BY <2>2, <2>3
<1>9. SUBSET S \subseteq G
  <2> HIDE DEF G
  <2> QED
    BY <1>8, SubsetInduction
<1> QED
  BY <1>7, <1>9

(* Between saves, with nothing gone bad and room left, whole blobs are      *)
(* found ready.                                                            *)
LEMMA WholeIsReady ==
  ASSUME NvsInv, Idle, rot = 0,
         \A k \in Required : version[k] # 0 /\ Whole(k, version[k]),
         Cardinality(InState(Window, "active")) = 1, InState(Window, "empty") # {}
  PROVE  ready
<1>1. \A p \in Window : page[p].header
  BY DEF NvsInv, PagesInv, Pages
<1>2. ~Doing("data") /\ ~Doing("payload") /\ ~Doing("index") /\ ~Doing("unindex") /\ ~Doing("shred")
      /\ ~Doing("erase")
  BY DEF Idle, Doing
<1>3. \A r \in Window \X EntryAt : Entry(r).type \in Types =>
        /\ Entry(r).key \in Required /\ Entry(r).of = version[Entry(r).key]
        /\ r \in Holds(Entry(r).key, Entry(r).type, version[Entry(r).key])
        /\ Valid(r[1], r[2])
  <2> SUFFICES ASSUME NEW r \in Window \X EntryAt, Entry(r).type \in Types
               PROVE  /\ Entry(r).key \in Required /\ Entry(r).of = version[Entry(r).key]
                      /\ r \in Holds(Entry(r).key, Entry(r).type, version[Entry(r).key])
                      /\ Valid(r[1], r[2])
    OBVIOUS
  <2>1. Entry(r).key \in Required /\ Entry(r).of = version[Entry(r).key]
    <3>1. r[1] \in Pages /\ r[2] \in EntryAt /\ Entry(r) = At(r[1], r[2])
      BY EntryAre
    <3>2. CASE Entry(r).type = "data"
      BY <1>2, <3>1, <3>2, RecordIs DEF Header, Current, Ahead, Behind
    <3>3. CASE Entry(r).type = "index"
      BY <1>2, <3>1, <3>3, RecordIs DEF CurrentIndex
    <3> QED
      BY <3>2, <3>3 DEF Types
  <2>2. r \in Holds(Entry(r).key, Entry(r).type, version[Entry(r).key])
    BY <2>1 DEF Holds
  <2>3. Valid(r[1], r[2])
    BY <2>1, <2>2 DEF Whole, Types
  <2> QED
    BY <2>1, <2>2, <2>3
<1>4. \A p \in Window : invalid_entries(p) = {}
  <2> SUFFICES ASSUME NEW p \in Window, NEW i \in Walked(p), Written(p, i)
               PROVE  IsRecord(p, i) /\ Valid(p, i)
    BY DEF invalid_entries
  <2>1. p \in Pages /\ i \in EntryAt
    BY DEF Pages, Walked
  <2>2. At(p, i).bits = "written" /\ At(p, i) \in EntryRecs
    BY <2>1, EntryTyped DEF Written, At, NvsInv
  <2>3. At(p, i) # Payload
    BY <2>1, WalkIs DEF Clear, NvsInv, FollowInv, PayloadInv
  <2>4. IsRec(p, i)
    BY <2>2, <2>3, EntryIs DEF IsRec
  <2>5. <<p, i>> \in Window \X EntryAt /\ Entry(<<p, i>>) = At(p, i)
    BY <2>1 DEF Entry, At
  <2> QED
    BY <1>3, <2>1, <2>4, <2>5, RecordWalked DEF IsRec, Types
<1>5. ASSUME NEW k \in Required
      PROVE  records(k, "data") \cup records(k, "index") # {} /\ complete(k)
  <2> DEFINE v == version[k]
  <2>1. v \in Nat /\ v > 0 /\ Read(k, v)
    <3>1. v \in Nat /\ v # 0
      BY DEF NvsInv, NvsTypes
    <3> QED
      BY <3>1 DEF Read
  <2>2. Whole(k, v)
    OBVIOUS
  <2> HIDE DEF v
  <2>3. Indexes(k) = Held(k, "index") /\ Held(k, "index") = Holds(k, "index", v)
    <3>1. \A r \in Held(k, "index") : Entry(r).sound /\ r \in Holds(k, "index", v)
      BY <1>3 DEF Held, Types, Valid, Entry, v
    <3>2. Holds(k, "index", v) \subseteq Held(k, "index")
      BY DEF Held, Holds
    <3> QED
      BY <3>1, <3>2 DEF Indexes
  <2>4. Chunks(k, v) = Holds(k, "data", v)
    <3>1. Chunks(k, v) \subseteq Holds(k, "data", v)
      BY <2>1, NumbersApart DEF Chunks
    <3>2. Holds(k, "data", v) \subseteq Chunks(k, v)
      BY ChunkIs DEF Chunks, Holds, Held
    <3> QED
      BY <3>1, <3>2
  <2>5. Cardinality(Indexes(k)) = 1
    BY <2>2, <2>3 DEF Whole
  <2>6. {Entry(r).chunk : r \in Chunks(k, v)} = Numbers(k, v)
    BY <2>2, <2>4 DEF Whole, Numbers
  <2>7. \A r \in Chunks(k, v) : Valid(r[1], r[2])
    BY <2>2, <2>4 DEF Whole
  <2>8. IsFiniteSet(Chunks(k, v)) /\ Cardinality(Chunks(k, v)) = ChunksOf[k]
    <3> DEFINE g == [r \in Chunks(k, v) |-> Entry(r).chunk]
    <3>1. IsFiniteSet(Chunks(k, v))
      BY PlacesFinite, FS_Subset DEF Chunks, Held
    <3>2. g \in Bijection(Chunks(k, v), Numbers(k, v))
      <4>1. \A r, s \in Chunks(k, v) : Entry(r).chunk = Entry(s).chunk => r = s
        BY <2>4, OneHeld DEF Types
      <4>2. g \in [Chunks(k, v) -> Numbers(k, v)]
        BY <2>6
      <4>3. \A n \in Numbers(k, v) : \E r \in Chunks(k, v) : g[r] = n
        BY <2>6
      <4> QED
        BY <4>1, <4>2, <4>3 DEF Bijection, Injection, Surjection, IsInjective
    <3>3. Numbers(k, v) = Start(v)..(Start(v) + ChunksOf[k] - 1)
      <4>1. ChunksOf[k] \in Nat /\ Start(v) \in Nat
        BY NvsAssumption DEF Start
      <4>2. \A n \in Start(v)..(Start(v) + ChunksOf[k] - 1) :
              n - Start(v) \in 0..(ChunksOf[k] - 1) /\ n = Start(v) + (n - Start(v))
        BY <4>1
      <4>3. \A c \in 0..(ChunksOf[k] - 1) : Start(v) + c \in Start(v)..(Start(v) + ChunksOf[k] - 1)
        BY <4>1
      <4> QED
        BY <4>2, <4>3 DEF Numbers
    <3>4. Cardinality(Numbers(k, v)) = ChunksOf[k]
      <4>1. ChunksOf[k] \in 1..128 /\ Start(v) \in Nat
        BY NvsAssumption DEF Start
      <4> DEFINE a == Start(v)
                 z == Start(v) + ChunksOf[k] - 1
      <4>2. a \in Int /\ z \in Int /\ ~(a > z) /\ z - a + 1 = ChunksOf[k]
        BY <4>1
      <4>3. Numbers(k, v) = a..z
        BY <3>3
      <4> HIDE DEF a, z
      <4> QED
        BY <4>2, <4>3, FS_Interval
    <3>5. ExistsBijection(Chunks(k, v), Numbers(k, v))
      BY <3>2 DEF ExistsBijection
    <3>6. Cardinality(Numbers(k, v)) = Cardinality(Chunks(k, v))
      BY <3>1, <3>5, FS_Bijection
    <3> QED
      BY <3>1, <3>4, <3>6
  <2>9. TotalSize(Chunks(k, v)) = v * ChunksOf[k]
    BY <2>1, <2>4, <2>8, ChunkIs, SizesOfEqual
  <2>10. \A b \in Indexes(k) : Entry(b).of = v
    BY <2>3 DEF Holds
  <2>11. complete(k)
    BY <2>5, <2>6, <2>7, <2>8, <2>9, <2>10, CompleteIs DEF TotalSize
  <2>12. Indexes(k) # {}
    BY <2>5, FS_EmptySet
  <2> QED
    BY <2>3, <2>11, <2>12, RecordsAre DEF Types
<1> QED
  BY <1>1, <1>4, <1>5 DEF ready

-----------------------------------------------------------------------------
(* The judgement. *)

(* The judgement writes no settings, so what it knows of them stays true.   *)
LEMMA SettingsStay ==
  ASSUME UNCHANGED nvsVars
  PROVE  (Kept' <=> Kept) /\ (Earned' <=> Earned)
<1>1. \A k, type, v : Holds(k, type, v)' = Holds(k, type, v)
  BY DEF nvsVars, Holds, Entry
<1>2. \A p, i : Valid(p, i)' <=> Valid(p, i)
  BY DEF nvsVars, Valid, SpanWritten, Written
<1>3. \A k, v : Whole(k, v)' <=> Whole(k, v)
  BY <1>1, <1>2 DEF Whole, nvsVars, Entry
<1>4. Idle' <=> Idle
  BY DEF nvsVars, Idle
<1>5. \A state : InState(Window, state)' = InState(Window, state)
  BY DEF nvsVars, InState
<1> QED
  BY <1>3, <1>4, <1>5 DEF Kept, Earned, nvsVars

LEMMA JudgeStep == NvsInv /\ JudgeInv /\ [Next]_vars => JudgeInv'
<1> SUFFICES ASSUME NvsInv, JudgeInv, [Next]_vars PROVE JudgeInv'
  OBVIOUS
<1>1. CASE Settle
  BY <1>1 DEF Settle, judgeVars, JudgeInv
<1>2. CASE Capture
  BY <1>2, SettingsStay DEF Capture, JudgeInv
<1>3. CASE ReadTable
  BY <1>3, SettingsStay DEF ReadTable, Judging, JudgeInv
<1>4. CASE JudgeTable
  BY <1>4, SettingsStay DEF JudgeTable, Judging, Goto, JudgeInv
<1>5. CASE JudgeNvs
  <2>1. pc = "nvs" /\ mode' = mode /\ UNCHANGED nvsVars
    BY <1>5 DEF JudgeNvs, Judging
  <2>2. CASE ~ready /\ mode = "official"
    <3>1. Earned
      <4>1. rot \in Nat /\ \A k \in Required : version[k] \in Nat
        BY DEF NvsInv, NvsTypes
      <4> QED
        BY <2>2, <4>1, WholeIsReady DEF Earned
    <3> QED
      BY <1>5, <2>1, <2>2, <3>1, SettingsStay DEF JudgeNvs, Record, JudgeInv
  <2>3. CASE ready
    <3>1. Kept
      BY <2>3, ReadyIsWhole DEF Kept
    <3> QED
      BY <1>5, <2>1, <2>3, <3>1, SettingsStay DEF JudgeNvs, Goto, JudgeInv
  <2>4. CASE mode # "official"
    BY <1>5, <2>1, <2>4 DEF JudgeNvs, Goto, JudgeInv
  <2> QED
    BY <2>2, <2>3, <2>4
<1>6. CASE JudgeReport
  BY <1>6, SettingsStay DEF JudgeReport, Judging, Record, Goto, JudgeInv
<1>7. CASE UNCHANGED vars
  BY <1>7, SettingsStay DEF vars, judgeVars, JudgeInv
<1> QED
  BY <1>1, <1>2, <1>3, <1>4, <1>5, <1>6, <1>7 DEF Next, Judge

(* The library's invariant holds with what the judgement knows at each of   *)
(* its stages, whatever save the capture met.                               *)
THEOREM SettingsInductive == Spec => [](NvsInv /\ JudgeInv)
<1>1. Init => NvsInv /\ JudgeInv
  BY NvsStart DEF Init, JudgeInv
<1>2. NvsInv /\ JudgeInv /\ [Next]_vars => (NvsInv /\ JudgeInv)'
  <2> SUFFICES ASSUME NvsInv, JudgeInv, [Next]_vars PROVE NvsInv' /\ JudgeInv'
    OBVIOUS
  <2>1. [NvsNext]_nvsVars
    BY DEF Next, Settle, Capture, Judge, ReadTable, JudgeTable, JudgeNvs, JudgeReport, Judging, vars
  <2> QED
    BY <2>1, NvsStep, JudgeStep
<1> QED
  BY <1>1, <1>2, PTL DEF Spec

(* _finish_preflight passes an official migration only over settings that   *)
(* can be read from the retained window alone, each blob in one version,    *)
(* for every number of chunks, keys, pages and entries.                     *)
THEOREM PassIsKept == Spec => []PassKeepsSettings
<1>1. JudgeInv => PassKeepsSettings
  BY DEF JudgeInv, Kept, PassKeepsSettings
<1> QED
  BY <1>1, SettingsInductive, PTL

(* ... and records a failure only for a reason the plug's settings give.    *)
THEOREM FailIsEarned == Spec => []FailEarned
<1>1. JudgeInv => FailEarned
  BY DEF JudgeInv, Earned, FailEarned
<1> QED
  BY <1>1, SettingsInductive, PTL

(* The judgement reads a table as PartitionTable does, so that what is      *)
(* proved of that reading (TablesAreJudgedRight) holds of it.              *)
THEOREM JudgementReadsTables == Spec => TableSpec
<1>1. Init => TableInit
  BY DEF Init
<1>2. [Next]_vars => [TableNext]_tableVars
  BY DEF Next, Settle, Capture, Judge, ReadTable, JudgeTable, JudgeNvs, JudgeReport, vars
<1> QED
  BY <1>1, <1>2, PTL DEF Spec, TableSpec

-----------------------------------------------------------------------------
(* The imprinted image. *)

(* A field is a run of cells behind the only mark of its kind.             *)
LEMMA FieldShape ==
  ASSUME NEW data, NEW marker, NEW size \in Nat \ {0},
         Field(data, marker, size) # {}
  PROVE  \E begin \in Cells :
           /\ Field(data, marker, size) = begin..(begin + size - 1)
           /\ Marks(data, marker) = {begin - 1}
           /\ begin + size - 1 \in Cells
           /\ begin - 1 \in Cells
PROOF
<1>1. PICK begin \in find_field(data, marker, size) : TRUE
  BY DEF Field
<1>2. begin \in Cells /\ Marks(data, marker) = {begin - 1} /\ begin + size - 1 \in Cells
  BY <1>1 DEF find_field
<1>3. \A other \in find_field(data, marker, size) : other = begin
  <2> TAKE other \in find_field(data, marker, size)
  <2>1. other \in Cells /\ Marks(data, marker) = {other - 1}
    BY DEF find_field
  <2>2. begin \in Int /\ other \in Int
    BY <1>2, <2>1, ImprintAssumption DEF Cells
  <2>3. begin - 1 \in {other - 1}
    BY <1>2, <2>1
  <2> QED
    BY <2>2, <2>3
<1>4. Field(data, marker, size) = begin..(begin + size - 1)
  BY <1>1, <1>3 DEF Field
<1>5. begin - 1 \in Cells
  BY <1>2 DEF Marks
<1> QED
  BY <1>2, <1>4, <1>5

LEMMA FieldCells ==
  ASSUME NEW data, NEW marker, NEW size \in Nat \ {0}
  PROVE  Field(data, marker, size) \subseteq Cells
PROOF
<1>1. CASE Field(data, marker, size) = {}
  BY <1>1
<1>2. CASE Field(data, marker, size) # {}
  <2>1. PICK begin \in Cells : /\ Field(data, marker, size) = begin..(begin + size - 1)
                            /\ begin + size - 1 \in Cells
    BY <1>2, FieldShape
  <2> QED
    BY <2>1, ImprintAssumption DEF Cells
<1> QED
  BY <1>1, <1>2

(* The same only mark gives the same field.                                *)
LEMMA SameField ==
  ASSUME NEW data, NEW other, NEW marker, NEW size,
         Marks(data, marker) = Marks(other, marker)
  PROVE  Field(data, marker, size) = Field(other, marker, size)
BY DEF Field, find_field

(* An image that has the published image's mark, and its field elsewhere or  *)
(* nowhere, has it nowhere.                                                *)
LEMMA FieldHere ==
  ASSUME NEW data, NEW marker, NEW size \in Nat \ {0}, NEW p \in Cells,
         Field(Published, marker, size) # {},
         Marks(Published, marker) = {p}, data[p] = marker,
         Field(data, marker, size) # {}
  PROVE  Field(data, marker, size) = Field(Published, marker, size)
PROOF
<1>1. PICK begin \in Cells : Marks(data, marker) = {begin - 1}
  BY FieldShape
<1>2. p \in Marks(data, marker)
  BY DEF Marks
<1>3. Marks(data, marker) = Marks(Published, marker)
  BY <1>1, <1>2
<1> QED
  BY <1>3, SameField

(* Where the marks of the published image are: outside its fields, and      *)
(* where every image is marked that compares equal to it.                  *)
LEMMA MarksKept ==
  ASSUME NEW data, derived_from(data),
         NEW marker \in {SSID_MARKER, PASSWORD_MARKER},
         NEW p \in Cells, Published[p] = marker
  PROVE  p \notin Reserved(Published) /\ p \notin Reserved(data) /\ data[p] = marker
PROOF
<1>1. p \notin Reserved(Published)
  BY PublishedAssumption
<1>2. blank_variable_regions(data)[p] = blank_variable_regions(Published)[p]
  BY DEF derived_from
<1>3. blank_variable_regions(data)[p] = marker
  BY <1>1, <1>2 DEF blank_variable_regions
<1>4. marker # NUL
  BY ImprintAssumption
<1> QED
  BY <1>1, <1>3, <1>4 DEF blank_variable_regions

(* Its fields, those it has, are the published ones.                       *)
LEMMA FieldsKept ==
  ASSUME NEW data, derived_from(data)
  PROVE  /\ SsidField(data) \in {{}, SsidField(Published)}
         /\ PasswordField(data) \in {{}, PasswordField(Published)}
PROOF
<1>1. SSID_FIELD_BYTES \in Nat \ {0} /\ PASSWORD_FIELD_BYTES \in Nat \ {0}
  BY ImprintAssumption
<1>2. SsidField(data) # {} => SsidField(data) = SsidField(Published)
  <2>1. PICK p \in Cells : Marks(Published, SSID_MARKER) = {p}
    BY <1>1, FieldShape, PublishedAssumption DEF SsidField
  <2>2. Published[p] = SSID_MARKER
    BY <2>1 DEF Marks
  <2>3. data[p] = SSID_MARKER
    BY <2>2, MarksKept
  <2> QED
    BY <1>1, <2>1, <2>3, FieldHere, PublishedAssumption DEF SsidField
<1>3. PasswordField(data) # {} => PasswordField(data) = PasswordField(Published)
  <2>1. PICK p \in Cells : Marks(Published, PASSWORD_MARKER) = {p}
    BY <1>1, FieldShape, PublishedAssumption DEF PasswordField
  <2>2. Published[p] = PASSWORD_MARKER
    BY <2>1 DEF Marks
  <2>3. data[p] = PASSWORD_MARKER
    BY <2>2, MarksKept
  <2> QED
    BY <1>1, <2>1, <2>3, FieldHere, PublishedAssumption DEF PasswordField
<1> QED
  BY <1>2, <1>3

(* derived_from tells the truth: whatever file is judged, outside the        *)
(* published image's fields it is the published image.                     *)
THEOREM DerivedTruth ==
  ASSUME NEW data, derived_from(data), NEW i \in Cells \ Reserved(Published)
  PROVE  data[i] = Published[i]
PROOF
<1>1. i \notin Reserved(data)
  BY FieldsKept DEF Reserved
<1>2. blank_variable_regions(data)[i] = blank_variable_regions(Published)[i]
  BY DEF derived_from
<1> QED
  BY <1>1, <1>2 DEF blank_variable_regions

(* require_imprinted_manifest accepts no image with the placeholder for a    *)
(* network name, although an image without a field passes has_placeholders. *)
THEOREM NamedTruth ==
  ASSUME NEW file, require_imprinted_manifest(file)
  PROVE  \E i \in SsidField(Published) : file.data[i] # FILLER
PROOF
<1>1. derived_from(file.data) /\ ~has_placeholders(file.data)
  BY DEF require_imprinted_manifest
<1>2. CASE SsidField(file.data) = SsidField(Published)
  BY <1>1, <1>2, PublishedAssumption DEF has_placeholders
<1>3. CASE SsidField(file.data) = {}
  <2>1. PICK i \in SsidField(Published) : TRUE
    BY PublishedAssumption
  <2>2. i \in Cells
    BY FieldCells, ImprintAssumption DEF SsidField
  <2>3. i \notin Reserved(file.data)
    BY <1>1, <1>3, FieldsKept, PublishedAssumption DEF Reserved
  <2>4. blank_variable_regions(file.data)[i] = blank_variable_regions(Published)[i]
    BY <1>1 DEF derived_from
  <2>5. file.data[i] = NUL
    BY <2>2, <2>3, <2>4 DEF blank_variable_regions, Reserved
  <2> QED
    BY <2>5, ImprintAssumption
<1> QED
  BY <1>1, <1>2, <1>3, FieldsKept

(* "no other code can have been slipped in", in every reachable state: no    *)
(* invariant is needed, for it holds of every file.                        *)
THEOREM ProvenanceAlways == ImprintSpec => []Provenance
PROOF
<1>1. Provenance
  BY DerivedTruth, NamedTruth DEF Provenance, require_imprinted_manifest
<1> QED
  BY <1>1, PTL

-----------------------------------------------------------------------------
(* Writing. *)

LEMMA Sizes ==
  /\ SSID_FIELD_BYTES \in Nat \ {0} /\ PASSWORD_FIELD_BYTES \in Nat \ {0}
  /\ Length \in Nat /\ Cells \subseteq Nat
BY ImprintAssumption DEF Cells

(* A field begins at its least cell, and write_field writes the value there, *)
(* then NULs, the last of them in the last cell.                           *)
LEMMA WriteHere ==
  ASSUME NEW data, NEW marker, NEW size \in Nat \ {0}, NEW other,
         Field(data, marker, size) # {},
         NEW value \in Values, Fits(value, size),
         NEW i \in Field(data, marker, size)
  PROVE  LET written == write_field(other, Field(data, marker, size), value)[i]
         IN  written = NUL \/ \E k \in DOMAIN value.bytes : written = value.bytes[k]
PROOF
<1> DEFINE field == Field(data, marker, size)
           first == CHOOSE j \in field : \A k \in field : j <= k
<1>1. PICK begin \in Cells : field = begin..(begin + size - 1)
  BY FieldShape
<1>2. begin \in Nat /\ i \in Nat /\ i \in Cells
  BY <1>1, Sizes, FieldCells
<1>3. first = begin
  <2>1. begin \in field /\ \A k \in field : begin <= k
    BY <1>1, <1>2
  <2>2. first \in field /\ \A k \in field : first <= k
    BY <2>1
  <2> QED
    BY <1>1, <1>2, <2>1, <2>2
<1>4. write_field(other, field, value)[i] =
        IF i - first < value.size THEN value.bytes[i - first + 1] ELSE NUL
  BY <1>2 DEF write_field
<1>5. value.size \in Nat /\ DOMAIN value.bytes = 1..value.size
  BY ImprintAssumption
<1> HIDE DEF first, field
<1>6. i - first < value.size => i - first + 1 \in 1..value.size
  <2>1. i \in begin..(begin + size - 1)
    BY <1>1 DEF field
  <2> QED
    BY <1>2, <1>3, <1>5, <2>1
<1> QED
  BY <1>4, <1>5, <1>6 DEF field

LEMMA WriteElsewhere ==
  ASSUME NEW data, NEW field, NEW value, NEW i \in Cells \ field
  PROVE  write_field(data, field, value)[i] = data[i]
BY DEF write_field

LEMMA WriteLast ==
  ASSUME NEW data, NEW marker, NEW size \in Nat \ {0}, NEW other,
         Field(data, marker, size) # {},
         NEW value \in Values, Fits(value, size)
  PROVE  \E i \in Field(data, marker, size) :
           write_field(other, Field(data, marker, size), value)[i] = NUL
PROOF
<1> DEFINE field == Field(data, marker, size)
           first == CHOOSE j \in field : \A k \in field : j <= k
<1>1. PICK begin \in Cells : field = begin..(begin + size - 1) /\ begin + size - 1 \in Cells
  BY FieldShape
<1>2. begin \in Nat
  BY Sizes
<1>3. first = begin
  <2>1. begin \in field /\ \A k \in field : begin <= k
    BY <1>1, <1>2
  <2>2. first \in field /\ \A k \in field : first <= k
    BY <2>1
  <2> QED
    BY <1>1, <1>2, <2>1, <2>2
<1> DEFINE i == begin + size - 1
<1>4. i \in Cells /\ i \in field
  BY <1>1, <1>2
<1>5. write_field(other, field, value)[i] =
        IF i - first < value.size THEN value.bytes[i - first + 1] ELSE NUL
  BY <1>4 DEF write_field
<1> HIDE DEF first, field
<1>6. ~(i - first < value.size)
  BY <1>2, <1>3, ImprintAssumption DEF Fits
<1> HIDE DEF i
<1> QED
  BY <1>4, <1>5, <1>6 DEF field

LEMMA WriteType ==
  ASSUME NEW data \in [Cells -> Bytes], NEW from, NEW marker, NEW size \in Nat \ {0},
         Field(from, marker, size) # {},
         NEW value \in Values, Fits(value, size)
  PROVE  write_field(data, Field(from, marker, size), value) \in [Cells -> Bytes]
PROOF
<1> DEFINE field == Field(from, marker, size)
           written == write_field(data, field, value)
<1>1. SUFFICES ASSUME NEW i \in Cells PROVE written[i] \in Bytes
  BY DEF write_field
<1>2. CASE i \in field
  <2>1. NUL \in Bytes /\ \A k \in DOMAIN value.bytes : value.bytes[k] \in Bytes
    BY ImprintAssumption
  <2> HIDE DEF written
  <2>2. written[i] = NUL \/ \E k \in DOMAIN value.bytes : written[i] = value.bytes[k]
    BY <1>2, WriteHere DEF written
  <2> QED
    BY <2>1, <2>2
<1>3. CASE i \notin field
  BY <1>3, WriteElsewhere
<1> QED
  BY <1>2, <1>3

(* What imprint asks for when it does not refuse.                          *)
Willing(data, ssid, password) ==
  /\ SsidField(data) # {} /\ PasswordField(data) # {}
  /\ Fits(ssid, SSID_FIELD_BYTES) /\ Fits(password, PASSWORD_FIELD_BYTES)

Both(data, ssid, password) ==
  write_field(write_field(data, SsidField(data), ssid), PasswordField(data), password)

LEMMA Agreed ==
  ASSUME NEW data, NEW ssid, NEW password, imprint(data, ssid, password) # Refused
  PROVE  /\ Willing(data, ssid, password)
         /\ imprint(data, ssid, password) = repair_image(Both(data, ssid, password))
BY DEF imprint, Willing, Both

LEMMA ImprintType ==
  ASSUME NEW data \in [Cells -> Bytes], NEW ssid \in Values, NEW password \in Values,
         imprint(data, ssid, password) # Refused
  PROVE  imprint(data, ssid, password) \in Images
PROOF
<1>1. Willing(data, ssid, password)
  BY Agreed
<1>2. write_field(data, SsidField(data), ssid) \in [Cells -> Bytes]
  BY <1>1, WriteType, Sizes DEF Willing, SsidField
<1>3. Both(data, ssid, password) \in [Cells -> Bytes]
  BY <1>1, <1>2, WriteType, Sizes DEF Willing, Both, PasswordField
<1> QED
  BY <1>3, Agreed DEF repair_image, Images

(* Type correctness.                                                       *)
THEOREM ImprintTypeOK == ImprintSpec => []TypeOK
PROOF
<1>1. ImprintInit => TypeOK
  BY ImprintAssumption DEF ImprintInit, TypeOK, repair_image, Images
<1>2. TypeOK /\ [ImprintNext]_imprintVars => TypeOK'
  <2> SUFFICES ASSUME TypeOK, [ImprintNext]_imprintVars PROVE TypeOK'
    OBVIOUS
  <2> USE DEF TypeOK
  <2>1. ASSUME NEW ssid \in Values, NEW password \in Values,
               ImprintPublished(ssid, password)
        PROVE  TypeOK'
    BY <2>1, ImprintType, ImprintAssumption DEF ImprintPublished, Imprint
  <2>2. ASSUME NEW ssid \in Values, NEW password \in Values, ImprintAgain(ssid, password)
        PROVE  TypeOK'
    <3>1. image.data \in [Cells -> Bytes]
      BY DEF Images
    <3> QED
      BY <2>2, <3>1, ImprintType DEF ImprintAgain, Imprint
  <2>3. ASSUME NEW i \in Cells, NEW byte \in Bytes, Alter(i, byte) PROVE TypeOK'
    BY <2>3, ImprintAssumption DEF Alter, Images
  <2>4. CASE Reseal
    BY <2>4 DEF Reseal, repair_image, Images
  <2>5. CASE UNCHANGED imprintVars
    BY <2>5 DEF imprintVars
  <2> QED
    BY <2>1, <2>2, <2>3, <2>4, <2>5 DEF ImprintNext
<1> QED
  BY <1>1, <1>2, PTL DEF ImprintSpec

-----------------------------------------------------------------------------
(* Writing again. *)

(* What was written into the published image has its fields: that the image *)
(* is not refused says each mark is there once, and the published marks     *)
(* are still there.                                                        *)
LEMMA FieldsAgain ==
  ASSUME NEW data,
         \A i \in Cells \ Reserved(Published) : data[i] = Published[i],
         SsidField(data) # {}, PasswordField(data) # {}
  PROVE  SsidField(data) = SsidField(Published) /\ PasswordField(data) = PasswordField(Published)
PROOF
<1>1. SsidField(data) = SsidField(Published)
  <2>1. PICK p \in Cells : Marks(Published, SSID_MARKER) = {p}
    BY FieldShape, Sizes, PublishedAssumption DEF SsidField
  <2>2. Published[p] = SSID_MARKER
    BY <2>1 DEF Marks
  <2>3. data[p] = SSID_MARKER
    BY <2>2, PublishedAssumption
  <2> QED
    BY <2>1, <2>3, FieldHere, Sizes, PublishedAssumption DEF SsidField
<1>2. PasswordField(data) = PasswordField(Published)
  <2>1. PICK p \in Cells : Marks(Published, PASSWORD_MARKER) = {p}
    BY FieldShape, Sizes, PublishedAssumption DEF PasswordField
  <2>2. Published[p] = PASSWORD_MARKER
    BY <2>1 DEF Marks
  <2>3. data[p] = PASSWORD_MARKER
    BY <2>2, PublishedAssumption
  <2> QED
    BY <2>1, <2>3, FieldHere, Sizes, PublishedAssumption DEF PasswordField
<1> QED
  BY <1>1, <1>2

LEMMA BothElsewhere ==
  ASSUME NEW data, NEW ssid, NEW password, NEW i \in Cells \ Reserved(data)
  PROVE  Both(data, ssid, password)[i] = data[i]
BY WriteElsewhere DEF Both, Reserved

(* Writing overwrites the whole of both fields.                            *)
LEMMA BothAgain ==
  ASSUME NEW data,
         \A i \in Cells \ Reserved(Published) : data[i] = Published[i],
         SsidField(data) # {}, PasswordField(data) # {},
         NEW ssid, NEW password
  PROVE  Both(data, ssid, password) = Both(Published, ssid, password)
PROOF
<1> DEFINE S == SsidField(Published)
           Q == PasswordField(Published)
           first(field) == CHOOSE i \in field : \A j \in field : i <= j
           byte(field, value, i) ==
             IF i - first(field) < value.size THEN value.bytes[i - first(field) + 1] ELSE NUL
           W(from) == [i \in Cells |-> IF i \in Q THEN byte(Q, password, i)
                                       ELSE IF i \in S THEN byte(S, ssid, i) ELSE from[i]]
<1>1. SsidField(data) = S /\ PasswordField(data) = Q
  BY FieldsAgain
<1>2. ASSUME NEW from
      PROVE  write_field(write_field(from, S, ssid), Q, password) = W(from)
  <2>1. write_field(from, S, ssid) =
          [i \in Cells |-> IF i \notin S THEN from[i] ELSE byte(S, ssid, i)]
    BY DEF write_field
  <2>2. \A one : write_field(one, Q, password) =
          [i \in Cells |-> IF i \notin Q THEN one[i] ELSE byte(Q, password, i)]
    BY DEF write_field
  <2> HIDE DEF byte, S, Q
  <2> QED
    BY <2>1, <2>2
<1> HIDE DEF byte
<1>3. \A i \in Cells : i \notin Q /\ i \notin S => data[i] = Published[i]
  BY DEF Reserved
<1> HIDE DEF S, Q
<1>4. W(data) = W(Published)
  BY <1>3
<1> QED
  BY <1>1, <1>2, <1>4 DEF Both, S, Q

(* Rewriting gives what writing to the published image would have given.    *)
LEMMA ImprintTwice ==
  ASSUME NEW file, NEW ssid, NEW password, NEW name, NEW word,
         file = imprint(Published, ssid, password), file # Refused,
         imprint(file.data, name, word) # Refused
  PROVE  imprint(file.data, name, word) = imprint(Published, name, word)
PROOF
<1>1. file.data = Both(Published, ssid, password)
  BY Agreed DEF repair_image
<1>2. \A i \in Cells \ Reserved(Published) : file.data[i] = Published[i]
  BY <1>1, BothElsewhere
<1>3. Willing(file.data, name, word)
  BY Agreed
<1>4. Both(file.data, name, word) = Both(Published, name, word)
  BY <1>2, <1>3, BothAgain DEF Willing
<1>5. imprint(file.data, name, word) = repair_image(Both(file.data, name, word))
  BY Agreed
<1>6. imprint(Published, name, word) = repair_image(Both(Published, name, word))
  BY <1>3, PublishedAssumption DEF imprint, Willing, Both, Refused
<1> QED
  BY <1>4, <1>5, <1>6

LEMMA NeverRefused == Refused \notin Images
PROOF
<1>1. Cells # {}
  BY FieldShape, Sizes, PublishedAssumption DEF SsidField
<1>2. DOMAIN <<>> = {}
  OBVIOUS
<1> QED
  BY <1>1, <1>2 DEF Refused, Images

LEMMA PairsAreSome == None \notin Values \X Values
BY DEF None

(* "keeping them lets an image be rewritten for a different network": the    *)
(* image is always what one imprint of the published one would be.         *)
THEOREM RewrittenAlways == ImprintSpec => []Rewritten
PROOF
<1>1. ImprintInit => Rewritten
  BY DEF ImprintInit, Rewritten
<1>2. TypeOK /\ Rewritten /\ [ImprintNext]_imprintVars => Rewritten'
  <2> SUFFICES ASSUME TypeOK, Rewritten, [ImprintNext]_imprintVars PROVE Rewritten'
    OBVIOUS
  <2>1. ASSUME NEW ssid \in Values, NEW password \in Values,
               ImprintPublished(ssid, password)
        PROVE  Rewritten'
    BY <2>1, PairsAreSome DEF ImprintPublished, Imprint, Rewritten, None
  <2>2. ASSUME NEW ssid \in Values, NEW password \in Values, ImprintAgain(ssid, password)
        PROVE  Rewritten'
    <3> SUFFICES ASSUME alterations = 0
                 PROVE  image' = imprint(Published, ssid, password)
      BY <2>2, PairsAreSome DEF ImprintAgain, Imprint, Rewritten, None
    <3>1. image' = imprint(image.data, ssid, password)
          /\ imprint(image.data, ssid, password) # Refused
      BY <2>2 DEF ImprintAgain, Imprint
    <3>2. CASE credentials = None
      BY <3>1, <3>2 DEF Rewritten, repair_image
    <3>3. CASE credentials # None
      <4>1. image # Refused
        BY NeverRefused DEF TypeOK
      <4>2. image = imprint(Published, credentials[1], credentials[2])
        BY <3>3 DEF Rewritten
      <4> QED
        BY <3>1, <4>1, <4>2, ImprintTwice
    <3> QED
      BY <3>2, <3>3
  <2>3. ASSUME NEW i \in Cells, NEW byte \in Bytes, Alter(i, byte) PROVE Rewritten'
    <3>1. alterations' # 0
      BY <2>3, ImprintAssumption DEF Alter, TypeOK
    <3> QED
      BY <3>1 DEF Rewritten
  <2>4. CASE Reseal
    <3> SUFFICES ASSUME alterations = 0 PROVE FALSE
      BY <2>4 DEF Reseal, Rewritten
    <3>1. image # Refused /\ ~Sealed(image)
      BY <2>4, NeverRefused DEF Reseal, TypeOK
    <3>2. credentials # None => Sealed(image)
      BY <3>1, Agreed DEF Rewritten, Sealed, repair_image
    <3>3. credentials = None => Sealed(image)
      BY DEF Rewritten, Sealed, repair_image
    <3> QED
      BY <3>1, <3>2, <3>3
  <2>5. CASE UNCHANGED imprintVars
    BY <2>5 DEF imprintVars, Rewritten
  <2> QED
    BY <2>1, <2>2, <2>3, <2>4, <2>5 DEF ImprintNext
<1> QED
  BY <1>1, <1>2, ImprintTypeOK, PTL DEF ImprintSpec

-----------------------------------------------------------------------------
(* Plain credentials. *)

Plain(value) ==
  \A i \in DOMAIN value.bytes : value.bytes[i] \notin {SSID_MARKER, PASSWORD_MARKER}

(* They leave every mark where it is, and add none.                        *)
LEMMA MarksPlain ==
  ASSUME NEW ssid \in Values, NEW password \in Values, Plain(ssid), Plain(password),
         Fits(ssid, SSID_FIELD_BYTES), Fits(password, PASSWORD_FIELD_BYTES),
         NEW marker \in {SSID_MARKER, PASSWORD_MARKER}
  PROVE  Marks(Both(Published, ssid, password), marker) = Marks(Published, marker)
PROOF
<1> DEFINE data == Both(Published, ssid, password)
           half == write_field(Published, SsidField(Published), ssid)
<1>1. SUFFICES ASSUME NEW i \in Cells
               PROVE  data[i] = marker <=> Published[i] = marker
  BY DEF Marks
<1>2. marker # NUL
  BY ImprintAssumption
<1>3. CASE i \notin Reserved(Published)
  BY <1>3, BothElsewhere
<1>4. CASE i \in PasswordField(Published)
  <2>1. data[i] = NUL \/ \E k \in DOMAIN password.bytes : data[i] = password.bytes[k]
    BY <1>4, WriteHere, Sizes, PublishedAssumption DEF Both, PasswordField
  <2>2. data[i] # marker
    BY <1>2, <2>1 DEF Plain
  <2>3. Published[i] # marker
    BY <1>4, PublishedAssumption DEF Reserved
  <2> QED
    BY <2>2, <2>3
<1>5. CASE i \in SsidField(Published) \ PasswordField(Published)
  <2>1. half[i] = NUL \/ \E k \in DOMAIN ssid.bytes : half[i] = ssid.bytes[k]
    BY <1>5, WriteHere, Sizes, PublishedAssumption DEF SsidField
  <2>2. data[i] = half[i]
    BY <1>5, WriteElsewhere DEF Both
  <2>3. data[i] # marker
    BY <1>2, <2>1, <2>2 DEF Plain
  <2>4. Published[i] # marker
    BY <1>5, PublishedAssumption DEF Reserved
  <2> QED
    BY <2>3, <2>4
<1> QED
  BY <1>3, <1>4, <1>5 DEF Reserved

(* So the fields are where they were, the rest compares equal, and the       *)
(* terminator of the name tells it from the placeholder.                   *)
LEMMA PlainAccepted ==
  ASSUME NEW ssid \in Values, NEW password \in Values, Plain(ssid), Plain(password),
         NEW file, file = imprint(Published, ssid, password), file # Refused
  PROVE  require_imprinted_manifest(file)
PROOF
<1> DEFINE data == Both(Published, ssid, password)
           half == write_field(Published, SsidField(Published), ssid)
<1>1. Willing(Published, ssid, password) /\ file = repair_image(data)
  BY Agreed
<1>2. SsidField(data) = SsidField(Published) /\ PasswordField(data) = PasswordField(Published)
  <2>1. \A marker \in {SSID_MARKER, PASSWORD_MARKER} :
          Marks(data, marker) = Marks(Published, marker)
    BY <1>1, MarksPlain DEF Willing
  <2> HIDE DEF data
  <2> QED
    BY <2>1, SameField DEF SsidField, PasswordField
<1>3. \A i \in Cells \ Reserved(Published) : data[i] = Published[i]
  BY BothElsewhere
<1>4. \E i \in SsidField(Published) : data[i] = NUL
  <2>1. PICK i \in SsidField(Published) : half[i] = NUL
    BY <1>1, WriteLast, Sizes DEF Willing, SsidField
  <2>2. i \in Cells \ PasswordField(Published)
    BY FieldCells, Sizes, PublishedAssumption DEF SsidField
  <2>3. data[i] = half[i]
    BY <2>2, WriteElsewhere DEF Both
  <2> QED
    BY <2>1, <2>3
<1> HIDE DEF data
<1>5. derived_from(data)
  BY <1>2, <1>3 DEF derived_from, blank_variable_regions, Reserved
<1>6. ~has_placeholders(data)
  BY <1>2, <1>4, ImprintAssumption DEF has_placeholders
<1> QED
  BY <1>1, <1>5, <1>6 DEF require_imprinted_manifest, Sealed, repair_image

(* Imprinting plain credentials, the first time or again, gives an image     *)
(* that the bundle's check accepts.                                        *)
THEOREM UsableAlways == ImprintSpec => []Usable
PROOF
<1>1. TypeOK /\ Rewritten => Usable
  <2> SUFFICES ASSUME TypeOK, Rewritten, credentials # None, alterations = 0,
                      \A k \in 1..2 : Plain(credentials[k])
               PROVE  require_imprinted_manifest(image)
    BY DEF Usable, Plain
  <2>1. credentials[1] \in Values /\ credentials[2] \in Values
    BY DEF TypeOK
  <2>2. image = imprint(Published, credentials[1], credentials[2])
    BY DEF Rewritten
  <2>3. image # Refused
    BY NeverRefused DEF TypeOK
  <2>4. Plain(credentials[1]) /\ Plain(credentials[2])
    OBVIOUS
  <2> QED
    BY <2>1, <2>2, <2>3, <2>4, PlainAccepted
<1> QED
  BY <1>1, ImprintTypeOK, RewrittenAlways, PTL


=============================================================================
