----------------------------- MODULE RunsProofs -----------------------------
(***************************************************************************)
(* The record of a conversion is never more than one mark behind, and a    *)
(* run asked for as new is new: for any addresses, minutes and checklist,  *)
(* and however many commands and kills.                                    *)
(***************************************************************************)
EXTENDS Runs, FiniteSetTheorems, TLAPS

(* What the process knows and the state file does not say, or the reverse.  *)
Unsaved == (saved[run].done \ data) \cup (data \ saved[run].done)

SavedInv ==
  /\ pc = "working" => Unsaved = {}
  /\ pc \in {"saving", "replacing"} => \E s : Unsaved \subseteq {s}

(* Between choosing a free name and opening it, nobody else takes it.       *)
FreshInv ==
  /\ \A n \in Names : ~saved[n].file => saved[n].done = {}
  /\ asked = "new" /\ pc = "resolved" => ~saved[run].file

IInv == TypeOK /\ SavedInv /\ FreshInv

LEMMA NamesAreNames ==
  /\ Nobody \notin Names
  /\ \A base \in Addresses \cup Minutes, k \in 1..MaxSuffix : <<base, k>> \in Names
  /\ 1 \in 1..MaxSuffix
BY RunsAssumption DEF Nobody, Names

LEMMA TypeInit == Init => TypeOK
BY RunsAssumption DEF Init, TypeOK, Absent, Steps

(* Every way of resolving a name gives a run and leaves the files alone.    *)
LEMMA ResolvedType ==
  ASSUME TypeOK, NEW name \in Names, NEW how \in {"new", "named", "again"},
         Resolved(name, how), pointer' \in {name, pointer},
         starts' \in 0..MaxStarts
  PROVE  TypeOK'
BY NamesAreNames, RunsAssumption DEF TypeOK, Resolved

LEMMA StartingType == ASSUME TypeOK, Starting PROVE starts' \in 0..MaxStarts
BY RunsAssumption DEF TypeOK, Starting

LEMMA UnfinishedAreNames == Unfinished \subseteq Names
BY DEF Unfinished, run_directories

(* One case per action.                                                    *)
LEMMA TypeNext == TypeOK /\ [Next]_vars => TypeOK'
PROOF
<1> SUFFICES ASSUME TypeOK, [Next]_vars PROVE TypeOK'
  OBVIOUS
<1>1. ASSUME NEW name \in Names, RunNamed(name) PROVE TypeOK'
  BY <1>1, ResolvedType, StartingType DEF RunNamed, remember_current
<1>2. ASSUME NEW base \in Addresses \cup Minutes, RunNew(base) PROVE TypeOK'
  <2>1. PICK k \in Free(base) : Resolved(<<base, k>>, "new") /\ remember_current(<<base, k>>)
    BY <1>2 DEF RunNew
  <2>2. <<base, k>> \in Names
    BY NamesAreNames DEF Free
  <2> QED
    BY <1>2, <2>1, <2>2, ResolvedType, StartingType DEF RunNew, remember_current
<1>3. ASSUME NEW base \in Addresses \cup Minutes, Begin(base) PROVE TypeOK'
  <2>1. <<base, 1>> \in Names
    BY NamesAreNames
  <2> QED
    BY <1>3, <2>1, ResolvedType, StartingType DEF Begin, remember_current
<1>4. CASE Continue
  <2>1. PICK n \in Unfinished : Resolved(n, "again") /\ pointer' \in {n, pointer}
    BY <1>4 DEF Continue, remember_current
  <2>2. n \in Names
    BY UnfinishedAreNames
  <2>3. starts' \in 0..MaxStarts
    BY <1>4 DEF Continue, TypeOK
  <2> QED
    BY <2>1, <2>2, <2>3, ResolvedType
<1>5. CASE Open
  BY <1>5 DEF Open, TypeOK
<1>6. CASE Skip
  BY <1>6, RunsAssumption DEF Skip, TypeOK, Steps
<1>7. CASE TakeBack
  BY <1>7 DEF TakeBack, TypeOK
<1>8. CASE MarkUndone
  BY <1>8 DEF MarkUndone, TypeOK
<1>9. CASE MarkDone
  BY <1>9, RunsAssumption DEF MarkDone, TypeOK, Steps
<1>10. CASE WriteTemporary
  BY <1>10 DEF WriteTemporary, TypeOK
<1>11. CASE Replace
  BY <1>11 DEF Replace, TypeOK
<1>12. CASE Complete
  BY <1>12, RunsAssumption DEF Complete, TypeOK
<1>13. CASE Kill
  BY <1>13, RunsAssumption DEF Kill, TypeOK
<1>14. CASE UNCHANGED vars
  BY <1>14 DEF vars, TypeOK
<1> QED
  BY <1>1, <1>2, <1>3, <1>4, <1>5, <1>6, <1>7, <1>8, <1>9, <1>10, <1>11, <1>12, <1>13, <1>14
     DEF Next, Process

LEMMA SavedNext == TypeOK /\ SavedInv /\ [Next]_vars => SavedInv'
PROOF
<1> SUFFICES ASSUME TypeOK, SavedInv, [Next]_vars PROVE SavedInv'
  OBVIOUS
<1>1. ASSUME NEW name, NEW how, Resolved(name, how) PROVE SavedInv'
  BY <1>1 DEF Resolved, SavedInv
<1>2. ASSUME NEW name \in Names, RunNamed(name) PROVE SavedInv'
  BY <1>1, <1>2 DEF RunNamed
<1>3. ASSUME NEW base \in Addresses \cup Minutes, RunNew(base) \/ Begin(base) PROVE SavedInv'
  BY <1>1, <1>3 DEF RunNew, Begin
<1>4. CASE Continue
  BY <1>1, <1>4 DEF Continue
<1>5. CASE Open
  BY <1>5 DEF Open, SavedInv, Unsaved
<1>6. CASE Skip
  BY <1>6 DEF Skip, SavedInv, Unsaved
<1>7. CASE TakeBack
  <2>1. Unsaved' \subseteq {at}
    BY <1>7 DEF TakeBack, SavedInv, Unsaved
  <2> QED
    BY <1>7, <2>1 DEF TakeBack, SavedInv
<1>8. CASE MarkUndone
  BY <1>8 DEF MarkUndone, SavedInv, Unsaved
<1>9. CASE MarkDone
  <2>1. Unsaved' \subseteq {at}
    BY <1>9 DEF MarkDone, SavedInv, Unsaved
  <2> QED
    BY <1>9, <2>1 DEF MarkDone, SavedInv
<1>10. CASE WriteTemporary
  BY <1>10 DEF WriteTemporary, SavedInv, Unsaved
<1>11. CASE Replace
  <2>1. run \in Names
    BY <1>11 DEF Replace, TypeOK, Nobody
  <2>2. Unsaved' = {}
    BY <1>11, <2>1 DEF Replace, TypeOK, Unsaved
  <2> QED
    BY <1>11, <2>2 DEF Replace, SavedInv
<1>12. CASE Complete \/ Kill
  BY <1>12 DEF Complete, Kill, SavedInv
<1>13. CASE UNCHANGED vars
  BY <1>13 DEF vars, SavedInv, Unsaved
<1> QED
  BY <1>2, <1>3, <1>4, <1>5, <1>6, <1>7, <1>8, <1>9, <1>10, <1>11, <1>12, <1>13
     DEF Next, Process

LEMMA FreshNext == TypeOK /\ FreshInv /\ [Next]_vars => FreshInv'
PROOF
<1> SUFFICES ASSUME TypeOK, FreshInv, [Next]_vars PROVE FreshInv'
  OBVIOUS
<1>1. ASSUME NEW name, NEW how \in {"named", "again"}, Resolved(name, how) PROVE FreshInv'
  BY <1>1 DEF Resolved, FreshInv
<1>2. ASSUME NEW name \in Names, RunNamed(name) PROVE FreshInv'
  BY <1>1, <1>2 DEF RunNamed
<1>3. ASSUME NEW base \in Addresses \cup Minutes, RunNew(base) PROVE FreshInv'
  <2>1. PICK k \in Free(base) : Resolved(<<base, k>>, "new")
    BY <1>3 DEF RunNew
  <2>2. <<base, k>> \in Names /\ <<base, k>> \notin run_directories
    BY NamesAreNames DEF Free
  <2>3. ~saved[<<base, k>>].file
    BY <2>2 DEF run_directories
  <2> QED
    BY <2>1, <2>3 DEF Resolved, FreshInv
<1>4. ASSUME NEW base \in Addresses \cup Minutes, Begin(base) PROVE FreshInv'
  BY <1>1, <1>4 DEF Begin
<1>5. CASE Continue
  BY <1>1, <1>5 DEF Continue
<1>6. CASE Open \/ Skip \/ TakeBack \/ MarkUndone \/ MarkDone \/ WriteTemporary
  BY <1>6 DEF Open, Skip, TakeBack, MarkUndone, MarkDone, WriteTemporary, FreshInv
<1>7. CASE Replace
  BY <1>7 DEF Replace, FreshInv, TypeOK
<1>8. CASE Complete \/ Kill
  BY <1>8 DEF Complete, Kill, FreshInv
<1>9. CASE UNCHANGED vars
  BY <1>9 DEF vars, FreshInv
<1> QED
  BY <1>2, <1>3, <1>4, <1>5, <1>6, <1>7, <1>8, <1>9 DEF Next, Process

(* The invariant of the record and of new runs.                            *)
THEOREM RecordInvariant == Spec => []IInv
PROOF
<1>1. Init => SavedInv /\ FreshInv
  BY DEF Init, SavedInv, FreshInv, Absent
<1>2. IInv /\ [Next]_vars => IInv'
  BY TypeNext, SavedNext, FreshNext DEF IInv
<1> QED
  BY <1>1, <1>2, TypeInit, PTL DEF Spec, IInv

THEOREM RunsTypeOK == Spec => []TypeOK
BY RecordInvariant, PTL DEF IInv

(* At most one mark is lost, whenever the process is killed.               *)
THEOREM RecordOneBehind == Spec => []AtMostOneLost
PROOF
<1>1. IInv => AtMostOneLost
  <2> SUFFICES ASSUME IInv PROVE AtMostOneLost
    OBVIOUS
  <2>1. pc = "working" => saved[run].done = data
    BY DEF IInv, SavedInv, Unsaved
  <2>2. pc \in {"saving", "replacing"} => Cardinality(Unsaved) <= 1
    <3> SUFFICES ASSUME NEW s, Unsaved \subseteq {s} PROVE Cardinality(Unsaved) <= 1
      BY DEF IInv, SavedInv
    <3>1. IsFiniteSet({s}) /\ Cardinality({s}) = 1
      BY FS_Singleton
    <3> QED
      BY <3>1, FS_Subset
  <2> QED
    BY <2>1, <2>2 DEF AtMostOneLost, Unsaved
<1> QED
  BY <1>1, RecordInvariant, PTL

(* --new never continues a recorded run.                                   *)
THEOREM NewRunsAreNew == Spec => NewIsNew
PROOF
<1>1. IInv /\ [Next]_vars =>
        [asked = "new" /\ pc = "resolved" /\ pc' # "out" => data' = {} /\ ~saved[run].file]_vars
  <2> SUFFICES ASSUME IInv, Next, asked = "new", pc = "resolved", pc' # "out"
               PROVE  data' = {} /\ ~saved[run].file
    OBVIOUS
  <2>1. Open
    <3>1. ~(pc = "out" \/ pc = "working" \/ pc = "saving" \/ pc = "replacing")
      OBVIOUS
    <3>2. ~Kill
      BY DEF Kill
    <3>3. ~Continue /\ \A name \in Names : ~RunNamed(name)
      BY <3>1 DEF Continue, RunNamed, Resolved
    <3>4. \A base \in Addresses \cup Minutes : ~RunNew(base) /\ ~Begin(base)
      BY <3>1 DEF RunNew, Begin, Resolved
    <3>5. ~(TakeBack \/ MarkUndone \/ Skip \/ MarkDone \/ WriteTemporary \/ Replace \/ Complete)
      BY <3>1 DEF TakeBack, MarkUndone, Skip, MarkDone, WriteTemporary, Replace, Complete
    <3> QED
      BY <3>2, <3>3, <3>4, <3>5 DEF Next, Process
  <2>2. run \in Names
    BY DEF IInv, TypeOK
  <2> QED
    BY <2>1, <2>2 DEF Open, IInv, FreshInv
<1> QED
  BY <1>1, RecordInvariant, PTL DEF Spec, NewIsNew

=============================================================================
