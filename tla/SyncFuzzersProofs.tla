-------------------------- MODULE SyncFuzzersProofs --------------------------
(***************************************************************************)
(* The output directory and its reader, for any number of cases, starts    *)
(* and stops.  Three invariants, each resting on the one before:           *)
(*   DirInv     what is in queue/ at each place, with kills anywhere;      *)
(*   ResumeInv  what the next resume finds, without the events of Races;   *)
(*   SyncInv    what the reader has run.                                  *)
(* The order lemmas at the start say that ReadCases numbers the cases of a *)
(* directory in the order of their ids, and leaves ids without a gap as    *)
(* they are: that is why a number kept over a resume still means the same. *)
(***************************************************************************)
EXTENDS SyncFuzzers, FiniteSetTheorems, SequenceTheorems, TLAPS

-----------------------------------------------------------------------------
(* The invariant of the directory.                                         *)

(* Places before anything of the old directory is read.                    *)
Cleaning == {"off", "stats", "rename", "clean"}

(* Places at which queue/ is not there or holds nothing yet.               *)
Empty == {"unlink_stats", "mkdir", "mkdir_state", "read"}

(* Places at which the old directory is what a resume has to find.         *)
Importing == {"clean"} \cup Empty \cup {"pivot", "pivot_done"}

(* Places of fuzz_one and the dry run.                                     *)
Running == {"dry_run", "run", "fill_stats", "create", "write"}

(* Places at which every entry has been imported.                          *)
Filled == Running \cup {"nuke"}

(* The file of the target is to be created, or is created and empty.       *)
Writing == pc \in {"create", "write"}

(* What the place says of the process and of queue/.  A case that is       *)
(* created and was not trimmed is the last one.                            *)
PlaceInv ==
  /\ pc \in {"rename", "nuke"} => in_place_resume
  /\ pc \in {"unlink_stats", "mkdir"} => queue = NoDir
  /\ pc = "mkdir_state" => queue = EmptyDir
  /\ pc = "read" => queue = [EmptyDir EXCEPT !.dot_state = TRUE]
  /\ pc \in {"pivot", "pivot_done"} \cup Filled => queue # NoDir
  /\ pc \in {"stats", "rename", "clean"} \cup Empty => pivoted = 0
  /\ Writing <=> target # 0
  /\ Writing /\ ~entries[target].trim_done => target = Len(entries)

(* File i is there if it is one of the first n entries, with its content.  *)
FileOf(i, n) ==
  /\ i \in DOMAIN queue.files <=> i < n
  /\ i < n => queue.files[i] = entries[i + 1].case

(* The flags are those of the first n entries.                             *)
Flagged(n) == \A i \in Ids : i \in queue.done <=> i < n /\ entries[i + 1].det

(* pivot_inputs is through with the entries it has linked and no others.   *)
PivotInv ==
  pc \in {"pivot", "pivot_done"} =>
    LET linked == IF pc = "pivot" THEN pivoted ELSE pivoted + 1
    IN  /\ linked <= Len(entries)
        /\ \A i \in Ids : FileOf(i, linked)
        /\ Flagged(pivoted)

(* All entries have their files and flags, except for the file of the      *)
(* target.                                                                 *)
RunInv ==
  pc \in Filled =>
    /\ Flagged(Len(entries))
    /\ \A i \in Ids : i = target - 1 \/ FileOf(i, Len(entries))
    /\ pc = "create" => target - 1 \notin DOMAIN queue.files

(* The invariant of the directory, which no kill at any place breaks.      *)
DirInv == OutputDirTypeOK /\ PlaceInv /\ PivotInv /\ RunInv

-----------------------------------------------------------------------------
(* What a resume finds.                                                    *)

(* What one entry promises.                                                *)
PromisesOf(e) == {Name(e), [Name(e) EXCEPT !.det = FALSE]}

(* What a directory promises.                                              *)
InDir(d) == IF d = NoDir THEN {} ELSE Promises(ReadCases(d))

(* The old directory is there until it is imported, and where it is gone   *)
(* every promise is an entry that is not being trimmed.                    *)
ResumeInv ==
  /\ ~in_place_resume /\ pc # "off" => resume = NoDir
  /\ pc \in Running => resume = NoDir
  /\ pc \in {"off", "stats", "rename"} => promised \subseteq Found
  /\ pc \in Importing => promised \subseteq IF in_place_resume THEN InDir(resume) ELSE {}
  /\ pc \in {"pivot", "pivot_done"} /\ in_place_resume =>
       resume # NoDir /\ entries = ReadCases(resume)
  /\ pc \in Filled =>
       \A p \in promised : \E n \in 1..Len(entries) :
         p \in PromisesOf(entries[n]) /\ (n # target \/ Trimming)

-----------------------------------------------------------------------------
(* What the reader has seen.                                               *)

(* A case of the directory has all the ids below its own before it; only   *)
(* the last file may be empty.                                             *)
Segment(d) == \A i \in DOMAIN d.files, j \in Ids : j < i => j \in Usable(d)

(* A directory that is left behind by a kill has no gap, or has lost       *)
(* .state already.                                                         *)
SegmentInv == pc \in Cleaning /\ queue # NoDir /\ queue.dot_state => Segment(queue)

(* The ids that a scan passed with the case in its place.                  *)
Passed == {i \in Ids : i < synced /\ i \notin missed}

(* What the next resume would import from _resume.                         *)
Imported == IF resume = NoDir THEN <<>> ELSE ReadCases(resume)

(* The cases of the ids passed were run: the files of queue/, if the next  *)
(* resume moves it to _resume, or else what it imports from _resume.       *)
KeptOnDisk ==
  IF CanRename(queue, resume)
  THEN \A i \in Passed : i \in DOMAIN queue.files /\ queue.files[i] \in seen
  ELSE \A i \in Passed : i + 1 \in 1..Len(Imported) /\ Imported[i + 1].case \in seen

(* The cases of the ids passed are entries, the new one not among them.    *)
KeptEntries ==
  \A i \in Passed :
    /\ i + 1 \in 1..Len(entries) /\ entries[i + 1].case \in seen
    /\ Writing /\ ~Trimming => i + 1 # target

SeenInv == ~renumbered => IF pc \in Filled THEN KeptEntries ELSE KeptOnDisk

(* A queue/ that is not moved is a part of what is imported again, and     *)
(* only a queue/ that is not moved is deleted on a resume.                 *)
CopyInv ==
  /\ pc \notin Filled /\ queue # NoDir /\ ~CanRename(queue, resume) =>
       \A i \in DOMAIN queue.files :
         i + 1 \in 1..Len(Imported) /\ queue.files[i] = Imported[i + 1].case
  /\ pc = "clean" /\ in_place_resume => ~CanRename(queue, resume)

(* A file that is created is empty until it is written.                    *)
WriteInv == pc = "write" => queue.files[target - 1] = Zero

(* What is untouched is in its place, and was run if readdir returned it   *)
(* and it was not looked at before.                                        *)
ScanInv ==
  /\ spc # "scanning" => untouched = {}
  /\ untouched # {} => same_dir /\ queue # NoDir
  /\ \A i \in untouched :
       /\ i \in snapshot /\ i \in DOMAIN queue.files /\ queue.files[i] \in Cases
       /\ i \in returned => i < synced \/ queue.files[i] \in seen

(* The invariant of the reader.                                            *)
SyncInv ==
  /\ SyncTypeOK /\ SegmentInv /\ CopyInv /\ WriteInv /\ ScanInv /\ SeenInv
  /\ spc = "anew" => synced = 0

-----------------------------------------------------------------------------
(* The order of ids.                                                       *)

(* Ids is finite, and so is every set of ids.                              *)
LEMMA IdsAreFinite ==
  /\ Ids \subseteq Nat /\ IsFiniteSet(Ids) /\ Cardinality(Ids) = MAX_PATHS
  /\ \A U \in SUBSET Ids : IsFiniteSet(U) /\ Cardinality(U) \in 0..MAX_PATHS
<1>1. MAX_PATHS \in Nat /\ MAX_PATHS - 1 \in Int /\ 0 \in Int
  BY OutputDirAssumption
<1>2. IsFiniteSet(Ids) /\ Cardinality(Ids) = MAX_PATHS
  BY <1>1, FS_Interval DEF Ids
<1>3. Ids \subseteq Nat
  BY <1>1 DEF Ids
<1>4. ASSUME NEW U \in SUBSET Ids PROVE IsFiniteSet(U) /\ Cardinality(U) \in 0..MAX_PATHS
  <2>1. IsFiniteSet(U) /\ Cardinality(U) <= Cardinality(Ids) /\ Cardinality(U) \in Nat
    BY <1>2, FS_Subset, FS_CardinalityType
  <2>2. QED
    BY <1>1, <1>2, <2>1
<1>5. QED
  BY <1>2, <1>3, <1>4

(* The rank of an id in a set of ids, and that ranks grow with ids.        *)
LEMMA RanksGrow ==
  ASSUME NEW U \in SUBSET Ids, NEW i \in U
  PROVE  /\ Rank(i, U) \in 0..(Cardinality(U) - 1)
         /\ \A j \in U : j < i => Rank(j, U) < Rank(i, U)
<1> DEFINE Less(x) == {k \in U : k < x}
<1>1. /\ IsFiniteSet(U) /\ Cardinality(U) \in Nat /\ \A k \in U : k \in Nat
      /\ \A x : IsFiniteSet(Less(x)) /\ Cardinality(Less(x)) \in Nat
  <2>1. IsFiniteSet(U) /\ Cardinality(U) \in Nat /\ \A k \in U : k \in Nat
    BY IdsAreFinite
  <2>2. ASSUME NEW x PROVE IsFiniteSet(Less(x)) /\ Cardinality(Less(x)) \in Nat
    <3>1. Less(x) \in SUBSET Ids
      OBVIOUS
    <3>2. QED
      BY <3>1, IdsAreFinite
  <2>3. QED
    BY <2>1, <2>2
<1>r. \A x : Rank(x, U) = Cardinality(Less(x))
  BY DEF Rank
<1>2. Rank(i, U) < Cardinality(U)
  <2>1. Less(i) \in SUBSET (U \ {i})
    BY <1>1
  <2>2. IsFiniteSet(U \ {i}) /\ Cardinality(U \ {i}) = Cardinality(U) - 1
    BY <1>1, FS_RemoveElement
  <2>3. Cardinality(Less(i)) <= Cardinality(U \ {i})
    BY <2>1, <2>2, FS_Subset
  <2> HIDE DEF Less
  <2>4. QED
    BY <1>1, <1>r, <2>2, <2>3
<1>3. ASSUME NEW j \in U, j < i PROVE Rank(j, U) < Rank(i, U)
  <2>1. Less(j) \cup {j} \in SUBSET Less(i) /\ j \notin Less(j)
    BY <1>1, <1>3
  <2>2. Cardinality(Less(j) \cup {j}) = Cardinality(Less(j)) + 1
    BY <1>1, <2>1, FS_AddElement
  <2>3. Cardinality(Less(j) \cup {j}) <= Cardinality(Less(i))
    BY <1>1, <2>1, FS_Subset
  <2> HIDE DEF Less
  <2>4. QED
    BY <1>1, <1>r, <2>2, <2>3
<1> HIDE DEF Less
<1>4. QED
  BY <1>1, <1>r, <1>2, <1>3

(* Each rank is taken, so Nth finds the one id that has it.                *)
LEMMA NthIsThere ==
  ASSUME NEW U \in SUBSET Ids
  PROVE  /\ \A n \in 1..Cardinality(U) : Nth(n, U) \in U /\ Rank(Nth(n, U), U) = n - 1
         /\ \A i \in U : Rank(i, U) + 1 \in 1..Cardinality(U) /\ Nth(Rank(i, U) + 1, U) = i
<1> DEFINE c == Cardinality(U)
           place == [i \in U |-> Rank(i, U) + 1]
<1>1. /\ IsFiniteSet(U) /\ c \in Nat /\ \A i \in U : i \in Nat
      /\ \A i \in U : Rank(i, U) \in 0..(c - 1)
  <2>1. IsFiniteSet(U) /\ c \in Nat /\ \A i \in U : i \in Nat
    BY IdsAreFinite
  <2>2. \A i \in U : Rank(i, U) \in 0..(c - 1)
    BY RanksGrow
  <2>3. QED
    BY <2>1, <2>2
<1>2. \A i, j \in U : Rank(i, U) = Rank(j, U) => i = j
  <2>1. SUFFICES ASSUME NEW i \in U, NEW j \in U, Rank(i, U) = Rank(j, U) PROVE i = j
    OBVIOUS
  <2>2. i < j => Rank(i, U) < Rank(j, U)
    BY RanksGrow
  <2>3. j < i => Rank(j, U) < Rank(i, U)
    BY RanksGrow
  <2>4. QED
    BY <1>1, <2>1, <2>2, <2>3
<1>3. place \in Injection(U, 1..c)
  BY <1>1, <1>2 DEF Injection, IsInjective
<1>4. IsFiniteSet(1..c) /\ Cardinality(1..c) = c
  BY <1>1, FS_Interval
<1>5. place \in Surjection(U, 1..c)
  BY <1>3, <1>4, FS_Injection
<1>6. ASSUME NEW n \in 1..c PROVE \E i \in U : Rank(i, U) = n - 1
  <2>1. PICK i \in U : place[i] = n
    BY <1>5 DEF Surjection
  <2>2. Rank(i, U) + 1 = n
    BY <2>1
  <2>3. QED
    BY <1>1, <2>2
<1>7. ASSUME NEW n \in 1..c PROVE Nth(n, U) \in U /\ Rank(Nth(n, U), U) = n - 1
  BY <1>6 DEF Nth
<1>8. ASSUME NEW i \in U PROVE Rank(i, U) + 1 \in 1..c /\ Nth(Rank(i, U) + 1, U) = i
  <2>1. Rank(i, U) + 1 \in 1..c /\ Rank(i, U) + 1 - 1 = Rank(i, U)
    BY <1>1
  <2>2. \A n \in 1..c : Nth(n, U) \in U /\ Rank(Nth(n, U), U) = n - 1
    BY <1>7
  <2> DEFINE m == Rank(i, U) + 1
  <2>3. m \in 1..c /\ m - 1 = Rank(i, U)
    BY <1>1, <2>1
  <2> HIDE DEF m
  <2>4. Nth(m, U) \in U /\ Rank(Nth(m, U), U) = m - 1
    BY <2>2, <2>3
  <2>5. Nth(m, U) = i
    BY <1>2, <2>3, <2>4
  <2>6. QED
    BY <2>1, <2>5 DEF m
<1>9. QED
  BY <1>7, <1>8

(* Ids below n that are all there are the first n.                         *)
LEMMA FirstIdsComeFirst ==
  ASSUME NEW U \in SUBSET Ids, NEW i \in U, \A j \in Ids : j < i => j \in U
  PROVE  i + 1 \in 1..Cardinality(U) /\ Nth(i + 1, U) = i
<1>1. i \in 0..(MAX_PATHS - 1) /\ MAX_PATHS \in Nat
  BY OutputDirAssumption DEF Ids
<1>2. {j \in U : j < i} = 0..(i - 1)
  <2>1. ASSUME NEW j \in U, j < i PROVE j \in 0..(i - 1)
    BY <1>1, <2>1 DEF Ids
  <2>2. ASSUME NEW j \in 0..(i - 1) PROVE j \in U /\ j < i
    BY <1>1 DEF Ids
  <2>3. QED
    BY <2>1, <2>2
<1>3. Cardinality(0..(i - 1)) = i
  BY <1>1, FS_Interval
<1>4. Rank(i, U) = i
  BY <1>2, <1>3 DEF Rank
<1>5. QED
  BY <1>4, NthIsThere

-----------------------------------------------------------------------------
(* Directories.                                                            *)

(* The parts of a directory, and how one is made.                          *)
LEMMA DirParts ==
  ASSUME NEW d \in Dirs
  PROVE  /\ DOMAIN d.files \in SUBSET Ids
         /\ d.files \in [DOMAIN d.files -> Cases \cup {Zero}]
         /\ d.dot_state \in BOOLEAN /\ d.done \in SUBSET Ids
         /\ d = [files |-> d.files, dot_state |-> d.dot_state, done |-> d.done]
         /\ d # NoDir
BY NoDirAssumption DEF Dirs

(* A record of these parts is a directory.                                 *)
LEMMA DirMade ==
  ASSUME NEW I \in SUBSET Ids, NEW f \in [I -> Cases \cup {Zero}], NEW s \in BOOLEAN,
         NEW D \in SUBSET Ids
  PROVE  [files |-> f, dot_state |-> s, done |-> D] \in Dirs
BY DEF Dirs

(* The files of an empty directory.                                        *)
LEMMA NoFiles ==
  /\ DOMAIN <<>> = {} /\ <<>> \in [{} -> Cases \cup {Zero}]
  /\ \A f : f \in [DOMAIN f -> Cases \cup {Zero}] => (f = <<>> <=> DOMAIN f = {})
<1>1. DOMAIN <<>> = {}
  OBVIOUS
<1>2. <<>> = [i \in {} |-> Zero]
  OBVIOUS
<1>3. QED
  BY <1>1, <1>2

(* The directory that mkdir makes, and .state in it.                       *)
LEMMA EmptyDirs ==
  /\ EmptyDir \in Dirs /\ EmptyDir # NoDir
  /\ EmptyDir.files = <<>> /\ EmptyDir.done = {} /\ ~EmptyDir.dot_state
BY NoFiles, DirMade, NoDirAssumption DEF EmptyDir

(* The directory .state is made.                                           *)
LEMMA StateMade ==
  ASSUME NEW d \in Dirs, NEW s \in BOOLEAN
  PROVE  LET e == [d EXCEPT !.dot_state = s]
         IN  /\ e \in Dirs /\ e # NoDir
             /\ e.files = d.files /\ e.done = d.done /\ e.dot_state = s
<1>1. [d EXCEPT !.dot_state = s] = [files |-> d.files, dot_state |-> s, done |-> d.done]
  BY DirParts
<1>2. [d EXCEPT !.dot_state = s] \in Dirs
  BY <1>1, DirMade, DirParts
<1>3. QED
  BY <1>1, <1>2, NoDirAssumption

(* One file more, or another content for one.                              *)
LEMMA AddedFile ==
  ASSUME NEW d \in Dirs, NEW id \in Ids, NEW content \in Cases \cup {Zero}
  PROVE  /\ Add(d, id, content) \in Dirs /\ Add(d, id, content) # NoDir
         /\ DOMAIN Add(d, id, content).files = DOMAIN d.files \cup {id}
         /\ Add(d, id, content).files[id] = content
         /\ \A i \in DOMAIN d.files : i # id => Add(d, id, content).files[i] = d.files[i]
         /\ Add(d, id, content).done = d.done
         /\ Add(d, id, content).dot_state = d.dot_state
<1> DEFINE f == [i \in DOMAIN d.files \cup {id} |-> IF i = id THEN content ELSE d.files[i]]
<1>1. DOMAIN d.files \cup {id} \in SUBSET Ids /\ f \in [DOMAIN d.files \cup {id} -> Cases \cup {Zero}]
  BY DirParts
<1>2. Add(d, id, content) = [files |-> f, dot_state |-> d.dot_state, done |-> d.done]
  BY DirParts DEF Add
<1>3. Add(d, id, content) \in Dirs
  BY <1>1, <1>2, DirMade, DirParts
<1>4. QED
  BY <1>2, <1>3, NoDirAssumption

(* One file less.                                                          *)
LEMMA RemovedFile ==
  ASSUME NEW d \in Dirs, NEW id
  PROVE  /\ Unlink(d, id) \in Dirs /\ Unlink(d, id) # NoDir
         /\ DOMAIN Unlink(d, id).files = DOMAIN d.files \ {id}
         /\ \A i \in DOMAIN d.files : i # id => Unlink(d, id).files[i] = d.files[i]
         /\ Unlink(d, id).done = d.done /\ Unlink(d, id).dot_state = d.dot_state
<1> DEFINE f == [i \in DOMAIN d.files \ {id} |-> d.files[i]]
<1>1. DOMAIN d.files \ {id} \in SUBSET Ids /\ f \in [DOMAIN d.files \ {id} -> Cases \cup {Zero}]
  BY DirParts
<1>2. Unlink(d, id) = [files |-> f, dot_state |-> d.dot_state, done |-> d.done]
  BY DirParts DEF Unlink
<1>3. Unlink(d, id) \in Dirs
  BY <1>1, <1>2, DirMade, DirParts
<1>4. QED
  BY <1>2, <1>3, NoDirAssumption

(* Flags.                                                                  *)
LEMMA Flagging ==
  ASSUME NEW d \in Dirs, NEW D \in SUBSET Ids
  PROVE  LET e == [d EXCEPT !.done = D]
         IN  /\ e \in Dirs /\ e # NoDir
             /\ e.files = d.files /\ e.done = D /\ e.dot_state = d.dot_state
<1>1. [d EXCEPT !.done = D] = [files |-> d.files, dot_state |-> d.dot_state, done |-> D]
  BY DirParts
<1>2. [d EXCEPT !.done = D] \in Dirs
  BY <1>1, DirMade, DirParts
<1>3. QED
  BY <1>1, <1>2, NoDirAssumption

(* Deleting a directory: .state goes before the first file.                *)
LEMMA Shrunk ==
  ASSUME NEW d \in Dirs, NEW e \in Shrink(d)
  PROVE  e \in Dirs \cup {NoDir} /\ (e # NoDir /\ e.dot_state => e.files = d.files /\ d.dot_state)
<1>1. CASE d.done # {}
  <2>1. PICK i \in d.done : e = [d EXCEPT !.done = d.done \ {i}]
    BY <1>1 DEF Shrink
  <2>2. d.done \ {i} \in SUBSET Ids
    BY DirParts
  <2>3. QED
    BY <2>1, <2>2, Flagging
<1>2. CASE d.done = {} /\ d.dot_state
  <2>1. e = [files |-> d.files, dot_state |-> FALSE, done |-> d.done]
    BY <1>2, DirParts DEF Shrink
  <2>2. e \in Dirs
    BY <2>1, DirMade, DirParts
  <2>3. QED
    BY <2>1, <2>2
<1>3. CASE d.done = {} /\ ~d.dot_state /\ d.files # <<>>
  <2>1. PICK i \in DOMAIN d.files : e = Unlink(d, i)
    BY <1>3 DEF Shrink
  <2>2. e \in Dirs /\ e.dot_state = d.dot_state
    BY <2>1, RemovedFile
  <2>3. QED
    BY <1>3, <2>2
<1>4. CASE d.done = {} /\ ~d.dot_state /\ d.files = <<>>
  BY <1>4 DEF Shrink
<1>5. QED
  BY <1>1, <1>2, <1>3, <1>4, DirParts

-----------------------------------------------------------------------------
(* What is read.                                                           *)

(* The cases read are those of the usable files.                           *)
LEMMA CasesRead ==
  ASSUME NEW d \in Dirs
  PROVE  /\ ReadCases(d) \in Seq(QueueEntry) /\ Len(ReadCases(d)) \in 0..MAX_PATHS
         /\ Len(ReadCases(d)) = Cardinality(Usable(d))
         /\ \A n \in 1..Len(ReadCases(d)) : ReadCases(d)[n] = CaseOf(d, Nth(n, Usable(d)))
         /\ \A i \in Usable(d) : \E n \in 1..Len(ReadCases(d)) : ReadCases(d)[n] = CaseOf(d, i)
<1> DEFINE U == Usable(d)
           c == Cardinality(U)
<1>1. U \in SUBSET Ids /\ c \in 0..MAX_PATHS /\ MAX_PATHS \in Nat
  BY DirParts, IdsAreFinite, OutputDirAssumption DEF Usable
<1>2. ASSUME NEW i \in U PROVE CaseOf(d, i) \in QueueEntry
  <2>1. d.files[i] \in Cases
    BY <1>2, DirParts DEF Usable
  <2>2. QED
    BY <2>1 DEF CaseOf, QueueEntry
<1>3. \A n \in 1..c : Nth(n, U) \in U
  BY <1>1, NthIsThere
<1>4. ReadCases(d) \in [1..c -> QueueEntry]
  BY <1>2, <1>3 DEF ReadCases
<1>5. ReadCases(d) \in Seq(QueueEntry) /\ Len(ReadCases(d)) = c
  BY <1>1, <1>4
<1>6. ASSUME NEW n \in 1..c PROVE ReadCases(d)[n] = CaseOf(d, Nth(n, U))
  BY DEF ReadCases
<1>7. ASSUME NEW i \in U PROVE \E n \in 1..c : ReadCases(d)[n] = CaseOf(d, i)
  <2>1. Rank(i, U) + 1 \in 1..c /\ Nth(Rank(i, U) + 1, U) = i
    BY <1>1, NthIsThere
  <2>2. QED
    BY <1>6, <2>1
<1>8. QED
  BY <1>1, <1>5, <1>6, <1>7

(* A promise of a directory is one of a usable file.                       *)
LEMMA PromisesRead ==
  ASSUME NEW d \in Dirs, NEW p
  PROVE  p \in Promises(ReadCases(d)) <=> \E i \in Usable(d) : p \in PromisesOf(CaseOf(d, i))
<1> DEFINE s == ReadCases(d)
<1>1. Range(s) = {s[n] : n \in 1..Len(s)}
  BY CasesRead DEF Range
<1>2. p \in Promises(s) <=> \E n \in 1..Len(s) : p \in PromisesOf(s[n])
  BY <1>1 DEF Promises, PromisesOf
<1>3. \A n \in 1..Len(s) : Nth(n, Usable(d)) \in Usable(d) /\ s[n] = CaseOf(d, Nth(n, Usable(d)))
  <2>1. Usable(d) \in SUBSET Ids
    BY DirParts DEF Usable
  <2>2. QED
    BY <2>1, CasesRead, NthIsThere
<1> HIDE DEF s
<1>4. QED
  BY <1>2, <1>3, CasesRead DEF s

-----------------------------------------------------------------------------
(* The directory keeps its invariant.                                      *)

(* Where nothing is imported and nothing runs, only types and places count. *)
LEMMA OutsideQueue ==
  ASSUME pc \notin {"pivot", "pivot_done"} \cup Filled, OutputDirTypeOK, PlaceInv
  PROVE  DirInv
BY DEF DirInv, PivotInv, RunInv

(* No entries, before anything is read and after an abort.                 *)
LEMMA NoEntries ==
  ASSUME NEW s, s = <<>>
  PROVE  /\ s \in Seq(QueueEntry) /\ Len(s) = 0 /\ Len(s) <= MAX_PATHS /\ 0 \in 0..Len(s)
         /\ 0 \in 0..MAX_PATHS /\ 0 \in 0..MAX_STARTS
         /\ MAX_PATHS \in Nat /\ MAX_STARTS \in Nat
<1>1. s \in Seq(QueueEntry) /\ Len(s) = 0
  BY EmptySeq
<1>2. QED
  BY <1>1, OutputDirAssumption

(* The invariant holds before the first start.                             *)
LEMMA DirInitially == Init => DirInv
<1> SUFFICES ASSUME Init PROVE DirInv
  OBVIOUS
<1>1. OutputDirTypeOK
  <2>1. entries \in Seq(QueueEntry) /\ Len(entries) <= MAX_PATHS /\ target \in 0..Len(entries)
    BY NoEntries DEF Init
  <2>2. pivoted \in 0..MAX_PATHS /\ starts \in 0..MAX_STARTS
    BY NoEntries DEF Init
  <2>3. QED
    BY <2>1, <2>2 DEF Init, OutputDirTypeOK, Places
<1>2. PlaceInv /\ pc \notin {"pivot", "pivot_done"} \cup Filled
  BY DEF Init, PlaceInv, Filled, Running, Empty, Writing
<1>3. QED
  BY <1>1, <1>2, OutsideQueue

(* The user starts the fuzzer.                                             *)
LEMMA StartKeepsDir ==
  ASSUME DirInv, Start PROVE DirInv'
<1>1. OutputDirTypeOK'
  <2>1. starts' \in 0..MAX_STARTS
    BY OutputDirAssumption DEF DirInv, OutputDirTypeOK, Start
  <2>2. entries' \in Seq(QueueEntry) /\ Len(entries') <= MAX_PATHS /\ target' \in 0..Len(entries')
    BY NoEntries DEF Start
  <2>3. pivoted' \in 0..MAX_PATHS
    BY NoEntries DEF Start
  <2>4. QED
    BY <2>1, <2>2, <2>3 DEF DirInv, OutputDirTypeOK, Start, disk, Goto, Places
<1>2. PlaceInv' /\ pc' \notin ({"pivot", "pivot_done"} \cup Filled)'
  BY DEF Start, Goto, PlaceInv, Filled, Running, Empty, Writing
<1>3. QED
  BY <1>1, <1>2 DEF DirInv, PivotInv, RunInv

(* fuzzer_stats is looked at.                                              *)
LEMMA CheckKeepsDir ==
  ASSUME DirInv, CheckStats PROVE DirInv'
<1>1. /\ pc = "stats" /\ UNCHANGED <<disk, process, starts>>
      /\ pc' \in {"off", "rename", "clean"} /\ (pc' = "rename" => in_place_resume)
      /\ promised' \in SUBSET Entry
  BY DEF CheckStats, Proceed, Goto, DirInv, OutputDirTypeOK
<1>2. OutputDirTypeOK'
  BY <1>1 DEF DirInv, OutputDirTypeOK, disk, process, Places
<1>3. PlaceInv' /\ pc' \notin ({"pivot", "pivot_done"} \cup Filled)'
  BY <1>1 DEF DirInv, PlaceInv, Filled, Running, Empty, Writing, process
<1>4. QED
  BY <1>2, <1>3 DEF DirInv, PivotInv, RunInv

(* The old queue becomes _resume.                                          *)
LEMMA RenameKeepsDir ==
  ASSUME DirInv, RenameQueue PROVE DirInv'
<1>1. /\ pc = "rename" /\ pc' = "clean" /\ UNCHANGED <<fuzzer_stats, promised, process, starts>>
      /\ {queue', resume'} \subseteq {queue, resume, NoDir}
  BY DEF RenameQueue, Proceed, Goto
<1>2. OutputDirTypeOK'
  BY <1>1 DEF DirInv, OutputDirTypeOK, process, Places
<1>3. PlaceInv' /\ pc' \notin ({"pivot", "pivot_done"} \cup Filled)'
  BY <1>1 DEF DirInv, PlaceInv, Filled, Running, Empty, Writing, process
<1>4. QED
  BY <1>2, <1>3 DEF DirInv, PivotInv, RunInv

(* One file of the old queue is deleted.                                   *)
LEMMA CleanKeepsDir ==
  ASSUME DirInv, CleanQueue PROVE DirInv'
<1>1. /\ pc = "clean" /\ UNCHANGED <<resume, fuzzer_stats, promised, process, starts>>
      /\ \/ pc' = "unlink_stats" /\ queue = NoDir /\ queue' = queue
         \/ pc' = "clean" /\ queue # NoDir /\ queue' \in Shrink(queue)
  BY DEF CleanQueue, Proceed, Goto
<1>2. queue' \in Dirs \cup {NoDir}
  BY <1>1, Shrunk DEF DirInv, OutputDirTypeOK
<1>3. OutputDirTypeOK'
  BY <1>1, <1>2 DEF DirInv, OutputDirTypeOK, process, Places
<1>4. PlaceInv' /\ pc' \notin ({"pivot", "pivot_done"} \cup Filled)'
  BY <1>1 DEF DirInv, PlaceInv, Filled, Running, Empty, Writing, process
<1>5. QED
  BY <1>3, <1>4 DEF DirInv, PivotInv, RunInv

(* fuzzer_stats is deleted.                                                *)
LEMMA UnlinkKeepsDir ==
  ASSUME DirInv, UnlinkStats PROVE DirInv'
<1>1. /\ pc = "unlink_stats" /\ pc' = "mkdir" /\ UNCHANGED <<queue, resume, promised, process, starts>>
      /\ fuzzer_stats' \in {"absent", fuzzer_stats}
  BY DEF UnlinkStats, Proceed, Goto
<1>2. OutputDirTypeOK'
  BY <1>1 DEF DirInv, OutputDirTypeOK, process, Places
<1>3. PlaceInv' /\ pc' \notin ({"pivot", "pivot_done"} \cup Filled)'
  BY <1>1 DEF DirInv, PlaceInv, Filled, Running, Empty, Writing, process
<1>4. QED
  BY <1>2, <1>3 DEF DirInv, PivotInv, RunInv

(* queue/ and queue/.state are made.                                       *)
LEMMA MakeKeepsDir ==
  ASSUME DirInv, MakeDirs PROVE DirInv'
<1>1. /\ UNCHANGED <<resume, fuzzer_stats, promised, process, starts>>
      /\ \/ pc = "mkdir" /\ pc' = "mkdir_state" /\ queue' = EmptyDir
         \/ pc = "mkdir_state" /\ pc' = "read" /\ queue' = [queue EXCEPT !.dot_state = TRUE]
  BY DEF MakeDirs, Proceed, Goto
<1>2. pc = "mkdir_state" => queue = EmptyDir
  BY DEF DirInv, PlaceInv
<1>3. queue' \in Dirs
  BY <1>1, <1>2, EmptyDirs, StateMade
<1>4. OutputDirTypeOK'
  BY <1>1, <1>3 DEF DirInv, OutputDirTypeOK, process, Places
<1>5. PlaceInv' /\ pc' \notin ({"pivot", "pivot_done"} \cup Filled)'
  BY <1>1, <1>2 DEF DirInv, PlaceInv, Filled, Running, Empty, Writing, process
<1>6. QED
  BY <1>4, <1>5 DEF DirInv, PivotInv, RunInv

(* The entries that are read are those of a usable directory.              *)
LEMMA EntriesRead ==
  ASSUME OutputDirTypeOK
  PROVE  /\ Fresh \in Seq(QueueEntry) /\ Len(Fresh) \in 1..MAX_PATHS
         /\ resume # NoDir => ReadCases(resume) \in Seq(QueueEntry) /\ Len(ReadCases(resume)) \in 0..MAX_PATHS
<1>1. Fresh \in Seq(QueueEntry) /\ Len(Fresh) \in 1..MAX_PATHS
  BY OutputDirAssumption DEF Fresh, QueueEntry
<1>2. resume # NoDir => resume \in Dirs
  BY DEF OutputDirTypeOK
<1>3. QED
  BY <1>1, <1>2, CasesRead

(* The cases are read; nothing is linked yet.                              *)
LEMMA ReadKeepsDir ==
  ASSUME DirInv, ReadTestcases PROVE DirInv'
<1>1. /\ pc = "read" /\ pc' \in {"off", "pivot"}
      /\ UNCHANGED <<queue, resume, fuzzer_stats, in_place_resume, pivoted, target, long_run, starts, promised>>
      /\ entries' \in {Fresh, <<>>} \/ (resume # NoDir /\ entries' = ReadCases(resume))
  BY DEF ReadTestcases, Goto, disk
<1>2. entries' \in Seq(QueueEntry) /\ Len(entries') \in 0..MAX_PATHS
  <2>1. CASE entries' = <<>>
    BY <2>1, NoEntries
  <2>2. CASE entries' = Fresh
    BY <2>2, EntriesRead, NoEntries DEF DirInv
  <2>3. CASE resume # NoDir /\ entries' = ReadCases(resume)
    BY <2>3, EntriesRead DEF DirInv
  <2>4. QED
    BY <1>1, <2>1, <2>2, <2>3
<1>3. /\ queue \in Dirs /\ DOMAIN queue.files = {} /\ queue.done = {} /\ queue # NoDir
      /\ pivoted = 0 /\ target = 0
  <2>1. queue = [EmptyDir EXCEPT !.dot_state = TRUE] /\ pivoted = 0 /\ target = 0
    BY <1>1 DEF DirInv, PlaceInv, Writing, Empty
  <2>2. QED
    BY <2>1, EmptyDirs, StateMade, NoFiles
<1>4. OutputDirTypeOK'
  BY <1>1, <1>2, <1>3 DEF DirInv, OutputDirTypeOK, Places
<1>5. PlaceInv'
  BY <1>1, <1>3 DEF DirInv, PlaceInv, Filled, Running, Empty, Writing
<1>6. PivotInv'
  BY <1>1, <1>2, <1>3, IdsAreFinite DEF PivotInv, FileOf, Flagged
<1>7. RunInv'
  BY <1>1 DEF RunInv, Filled, Running
<1>8. QED
  BY <1>4, <1>5, <1>6, <1>7 DEF DirInv

(* A kill at any place.                                                    *)
LEMMA AbortKeepsDir ==
  ASSUME DirInv, Abort PROVE DirInv'
<1>1. OutputDirTypeOK'
  <2>1. entries' \in Seq(QueueEntry) /\ Len(entries') <= MAX_PATHS /\ target' \in 0..Len(entries')
    BY NoEntries DEF Abort
  <2>2. pivoted' \in 0..MAX_PATHS
    BY NoEntries DEF Abort
  <2>3. QED
    BY <2>1, <2>2 DEF DirInv, OutputDirTypeOK, Abort, disk, Places
<1>2. PlaceInv' /\ pc' \notin ({"pivot", "pivot_done"} \cup Filled)'
  BY DEF Abort, PlaceInv, Filled, Running, Empty, Writing
<1>3. QED
  BY <1>1, <1>2 DEF DirInv, PivotInv, RunInv
-----------------------------------------------------------------------------
(* Entries.                                                                *)

(* What a sequence of entries promises, entry by entry.                    *)
LEMMA PromisesOfSeq ==
  ASSUME NEW s \in Seq(QueueEntry), NEW p
  PROVE  /\ p \in Promises(s) <=> \E n \in 1..Len(s) : p \in PromisesOf(s[n])
         /\ Promises(s) \in SUBSET Entry
<1>1. Range(s) = {s[n] : n \in 1..Len(s)}
  BY DEF Range
<1>2. Promises(s) = UNION {PromisesOf(e) : e \in Range(s)}
  BY DEF Promises, PromisesOf
<1>3. ASSUME NEW e \in QueueEntry PROVE PromisesOf(e) \in SUBSET Entry
  <2>1. Name(e) \in Entry /\ [Name(e) EXCEPT !.det = FALSE] \in Entry
    BY DEF Name, Entry, QueueEntry
  <2>2. QED
    BY <2>1 DEF PromisesOf
<1>4. \A n \in 1..Len(s) : s[n] \in QueueEntry
  OBVIOUS
<1> HIDE DEF Promises, PromisesOf
<1>5. QED
  BY <1>1, <1>2, <1>3, <1>4

(* A field of one entry is set.                                            *)
LEMMA TrimMarked ==
  ASSUME NEW s \in Seq(QueueEntry), NEW n \in 1..Len(s)
  PROVE  LET t == [s EXCEPT ![n].trim_done = TRUE]
         IN  /\ t \in Seq(QueueEntry) /\ Len(t) = Len(s)
             /\ \A m \in 1..Len(s) : t[m].case = s[m].case /\ t[m].det = s[m].det
             /\ \A m \in 1..Len(s) : m # n => t[m] = s[m]
             /\ t[n].trim_done
<1> DEFINE e == [s[n] EXCEPT !.trim_done = TRUE]
           t == [s EXCEPT ![n] = e]
<1>1. s[n] \in QueueEntry
  OBVIOUS
<1>2. e \in QueueEntry /\ e.case = s[n].case /\ e.det = s[n].det /\ e.trim_done
  BY <1>1 DEF QueueEntry
<1> HIDE DEF e
<1>3. /\ t \in Seq(QueueEntry) /\ Len(t) = Len(s)
      /\ t[n] = e /\ \A m \in 1..Len(s) : m # n => t[m] = s[m]
  BY <1>2
<1>4. t = [s EXCEPT ![n].trim_done = TRUE]
  BY <1>1 DEF e
<1> HIDE DEF t
<1>5. \A m \in 1..Len(s) : t[m].case = s[m].case /\ t[m].det = s[m].det
  BY <1>2, <1>3
<1>6. QED
  BY <1>2, <1>3, <1>4, <1>5

(* The flag of one entry is set.                                           *)
LEMMA DetMarked ==
  ASSUME NEW s \in Seq(QueueEntry), NEW n \in 1..Len(s)
  PROVE  LET t == [s EXCEPT ![n].det = TRUE]
         IN  /\ t \in Seq(QueueEntry) /\ Len(t) = Len(s)
             /\ \A m \in 1..Len(s) : t[m].case = s[m].case /\ t[m].trim_done = s[m].trim_done
             /\ \A m \in 1..Len(s) : m # n => t[m] = s[m]
             /\ t[n].det
<1> DEFINE e == [s[n] EXCEPT !.det = TRUE]
           t == [s EXCEPT ![n] = e]
<1>1. s[n] \in QueueEntry
  OBVIOUS
<1>2. e \in QueueEntry /\ e.case = s[n].case /\ e.trim_done = s[n].trim_done /\ e.det
  BY <1>1 DEF QueueEntry
<1> HIDE DEF e
<1>3. /\ t \in Seq(QueueEntry) /\ Len(t) = Len(s)
      /\ t[n] = e /\ \A m \in 1..Len(s) : m # n => t[m] = s[m]
  BY <1>2
<1>4. t = [s EXCEPT ![n].det = TRUE]
  BY <1>1 DEF e
<1> HIDE DEF t
<1>5. \A m \in 1..Len(s) : t[m].case = s[m].case /\ t[m].trim_done = s[m].trim_done
  BY <1>2, <1>3
<1>6. QED
  BY <1>2, <1>3, <1>4, <1>5

-----------------------------------------------------------------------------
(* The import.                                                             *)

(* What is known of the queue directory while it is imported into or used. *)
LEMMA InUse ==
  ASSUME DirInv, pc \in {"pivot", "pivot_done"} \cup Filled
  PROVE  /\ queue \in Dirs /\ queue # NoDir /\ entries \in Seq(QueueEntry)
         /\ Len(entries) \in Nat /\ Len(entries) <= MAX_PATHS
         /\ target \in 0..Len(entries) /\ pivoted \in 0..MAX_PATHS
         /\ MAX_PATHS \in Nat /\ Ids \subseteq Nat /\ \A i \in Nat : i \in Ids <=> i < MAX_PATHS
         /\ \A n \in 1..Len(entries) : n - 1 \in Ids /\ entries[n] \in QueueEntry /\ entries[n].case \in Cases
         /\ Writing <=> target # 0
<1>1. queue \in Dirs /\ queue # NoDir /\ entries \in Seq(QueueEntry) /\ Len(entries) <= MAX_PATHS
  BY DEF DirInv, PlaceInv, OutputDirTypeOK
<1>2. target \in 0..Len(entries) /\ pivoted \in 0..MAX_PATHS /\ (Writing <=> target # 0)
  BY DEF DirInv, PlaceInv, OutputDirTypeOK
<1>3. MAX_PATHS \in Nat /\ Ids \subseteq Nat /\ \A i \in Nat : i \in Ids <=> i < MAX_PATHS
  BY OutputDirAssumption DEF Ids
<1>4. Len(entries) \in Nat
  BY <1>1
<1>5. ASSUME NEW n \in 1..Len(entries)
      PROVE  n - 1 \in Ids /\ entries[n] \in QueueEntry /\ entries[n].case \in Cases
  <2>1. entries[n] \in QueueEntry
    BY <1>1
  <2>2. n - 1 \in Nat /\ n - 1 < MAX_PATHS
    BY <1>1, <1>3, <1>4
  <2>3. QED
    BY <1>3, <2>1, <2>2 DEF QueueEntry
<1>6. QED
  BY <1>1, <1>2, <1>3, <1>4, <1>5

(* One link more.                                                          *)
LEMMA PivotInputKeepsDir ==
  ASSUME DirInv, PivotInput PROVE DirInv'
<1>1. /\ pc = "pivot" /\ pc' = "pivot_done" /\ pivoted < Len(entries)
      /\ queue' = Add(queue, pivoted, entries[pivoted + 1].case)
      /\ UNCHANGED <<resume, fuzzer_stats, process, starts, promised>>
  BY DEF PivotInput, Goto
<1>2. /\ queue \in Dirs /\ entries \in Seq(QueueEntry) /\ Len(entries) \in Nat /\ pivoted \in Nat
      /\ pivoted \in Ids /\ pivoted + 1 \in 1..Len(entries) /\ entries[pivoted + 1].case \in Cases
      /\ Ids \subseteq Nat
  <2>1. /\ queue \in Dirs /\ entries \in Seq(QueueEntry) /\ Len(entries) \in Nat /\ pivoted \in Nat
        /\ Ids \subseteq Nat
    BY <1>1, InUse
  <2>2. pivoted + 1 \in 1..Len(entries) /\ pivoted + 1 - 1 = pivoted
    BY <1>1, <2>1
  <2>3. QED
    BY <1>1, <2>1, <2>2, InUse
<1>3. /\ queue' \in Dirs /\ queue' # NoDir /\ queue'.done = queue.done
      /\ DOMAIN queue'.files = DOMAIN queue.files \cup {pivoted}
      /\ queue'.files[pivoted] = entries[pivoted + 1].case
      /\ \A i \in DOMAIN queue.files : i # pivoted => queue'.files[i] = queue.files[i]
  BY <1>1, <1>2, AddedFile
<1>4. /\ \A i \in Ids : FileOf(i, pivoted)
      /\ Flagged(pivoted)
  BY <1>1 DEF DirInv, PivotInv
<1>5. OutputDirTypeOK'
  BY <1>1, <1>3 DEF DirInv, OutputDirTypeOK, process, Places
<1>6. PlaceInv'
  BY <1>1, <1>3 DEF DirInv, PlaceInv, Filled, Running, Empty, Writing, process
<1>7. PivotInv'
  <2>1. ASSUME NEW i \in Ids PROVE FileOf(i, pivoted + 1)'
    <3>1. i < pivoted + 1 <=> i < pivoted \/ i = pivoted
      BY <1>2
    <3>2. i # pivoted => (i \in DOMAIN queue'.files <=> i \in DOMAIN queue.files)
      BY <1>3
    <3>3. pivoted' = pivoted /\ entries' = entries /\ ~(pivoted < pivoted)
      BY <1>1, <1>2 DEF process
    <3>4. CASE i = pivoted
      BY <1>3, <3>1, <3>3, <3>4 DEF FileOf
    <3>5. CASE i # pivoted
      BY <1>3, <1>4, <3>1, <3>2, <3>3, <3>5 DEF FileOf
    <3>6. QED
      BY <3>4, <3>5
  <2>2. Flagged(pivoted)'
    BY <1>1, <1>3, <1>4 DEF Flagged, process
  <2>3. (pivoted + 1 <= Len(entries))' /\ pc' # "pivot"
    BY <1>1, <1>2 DEF process
  <2> HIDE DEF FileOf, Flagged
  <2>4. QED
    BY <2>1, <2>2, <2>3 DEF PivotInv
<1>8. RunInv'
  BY <1>1 DEF RunInv, Filled, Running
<1>9. QED
  BY <1>5, <1>6, <1>7, <1>8 DEF DirInv

(* The flag of the entry just linked.                                      *)
LEMMA PivotDoneKeepsDir ==
  ASSUME DirInv, PivotDone PROVE DirInv'
<1>1. /\ pc = "pivot_done" /\ pc' = "pivot" /\ pivoted' = pivoted + 1
      /\ queue' = IF entries[pivoted + 1].det THEN [queue EXCEPT !.done = queue.done \cup {pivoted}] ELSE queue
      /\ UNCHANGED <<resume, fuzzer_stats, in_place_resume, entries, target, long_run, starts, promised>>
  BY DEF PivotDone, Goto
<1>2. /\ pivoted + 1 <= Len(entries)
      /\ \A i \in Ids : FileOf(i, pivoted + 1)
      /\ Flagged(pivoted)
  BY <1>1 DEF DirInv, PivotInv
<1>3. /\ queue \in Dirs /\ queue # NoDir /\ Len(entries) \in Nat /\ pivoted \in Nat
      /\ pivoted + 1 <= MAX_PATHS /\ pivoted \in Ids /\ Ids \subseteq Nat /\ MAX_PATHS \in Nat
  <2>1. /\ queue \in Dirs /\ queue # NoDir /\ Len(entries) \in Nat /\ pivoted \in Nat
        /\ Ids \subseteq Nat /\ MAX_PATHS \in Nat /\ Len(entries) <= MAX_PATHS
        /\ \A i \in Nat : i \in Ids <=> i < MAX_PATHS
    BY <1>1, InUse
  <2>2. QED
    BY <1>2, <2>1
<1>4. /\ queue' \in Dirs /\ queue' # NoDir /\ queue'.files = queue.files
      /\ queue'.done = IF entries[pivoted + 1].det THEN queue.done \cup {pivoted} ELSE queue.done
  <2>1. queue.done \cup {pivoted} \in SUBSET Ids
    BY <1>3, DirParts
  <2>2. QED
    BY <1>1, <1>3, <2>1, Flagging
<1>5. OutputDirTypeOK'
  BY <1>1, <1>3, <1>4 DEF DirInv, OutputDirTypeOK, Places
<1>6. PlaceInv'
  BY <1>1, <1>4 DEF DirInv, PlaceInv, Filled, Running, Empty, Writing
<1>7. PivotInv'
  <2>1. \A i \in Ids : FileOf(i, pivoted)'
    BY <1>1, <1>2, <1>4 DEF FileOf
  <2>2. ASSUME NEW i \in Ids PROVE i \in queue'.done <=> i < pivoted' /\ entries'[i + 1].det
    <3>1. i < pivoted + 1 <=> i < pivoted \/ i = pivoted
      BY <1>3
    <3>2. i \in queue.done <=> i < pivoted /\ entries[i + 1].det
      BY <1>2 DEF Flagged
    <3>3. ~(pivoted < pivoted)
      BY <1>3
    <3>4. CASE i = pivoted
      BY <1>1, <1>4, <3>1, <3>2, <3>3, <3>4
    <3>5. CASE i # pivoted
      BY <1>1, <1>4, <3>1, <3>2, <3>5
    <3>6. QED
      BY <3>4, <3>5
  <2>3. Flagged(pivoted)'
    BY <2>2 DEF Flagged
  <2>4. (pivoted <= Len(entries))'
    BY <1>1, <1>2
  <2> HIDE DEF FileOf, Flagged
  <2>5. QED
    BY <1>1, <2>1, <2>3, <2>4 DEF PivotInv
<1>8. RunInv'
  BY <1>1 DEF RunInv, Filled, Running
<1>9. QED
  BY <1>5, <1>6, <1>7, <1>8 DEF DirInv

(* All entries are linked.                                                 *)
LEMMA PivotEndsKeepsDir ==
  ASSUME DirInv, PivotEnds PROVE DirInv'
<1>1. /\ pc = "pivot" /\ pc' = IF in_place_resume THEN "nuke" ELSE "dry_run"
      /\ pivoted = Len(entries) /\ promised' = promised \cup Promises(entries)
      /\ UNCHANGED <<disk, process, starts>>
  BY DEF PivotEnds, Proceed, Goto
<1>2. \A i \in Ids : FileOf(i, Len(entries))
  BY <1>1 DEF DirInv, PivotInv
<1>3. Flagged(Len(entries))
  BY <1>1 DEF DirInv, PivotInv
<1>4. OutputDirTypeOK'
  <2>1. promised' \in SUBSET Entry
    BY <1>1, PromisesOfSeq, InUse DEF DirInv, OutputDirTypeOK
  <2>2. QED
    BY <1>1, <2>1 DEF DirInv, OutputDirTypeOK, process, disk, Places
<1>5. PlaceInv'
  BY <1>1 DEF DirInv, PlaceInv, Filled, Running, Empty, Writing, process, disk
<1>6. PivotInv'
  BY <1>1 DEF PivotInv
<1>7. RunInv'
  <2>1. (\A i \in Ids : FileOf(i, Len(entries)))'
    BY <1>1, <1>2 DEF FileOf, process, disk
  <2>2. Flagged(Len(entries))'
    BY <1>1, <1>3 DEF Flagged, process, disk
  <2> HIDE DEF FileOf, Flagged
  <2>3. QED
    BY <1>1, <2>1, <2>2 DEF RunInv
<1>8. QED
  BY <1>4, <1>5, <1>6, <1>7 DEF DirInv

(* Steps that change neither queue/ nor the entries nor what is written.   *)
LEMMA FilesStay ==
  ASSUME DirInv, pc \in Filled, UNCHANGED <<queue, entries, target>>, pc' # "create"
  PROVE  RunInv'
<1>1. /\ Flagged(Len(entries))
      /\ \A i \in Ids : i = target - 1 \/ FileOf(i, Len(entries))
  BY DEF DirInv, RunInv
<1>2. Flagged(Len(entries))'
  BY <1>1 DEF Flagged
<1>3. (\A i \in Ids : i = target - 1 \/ FileOf(i, Len(entries)))'
  BY <1>1 DEF FileOf
<1>4. QED
  BY <1>2, <1>3 DEF RunInv

(* The old copy is deleted, queue/ stays.                                  *)
LEMMA NukeKeepsDir ==
  ASSUME DirInv, NukeResumeDir PROVE DirInv'
<1>1. /\ pc = "nuke" /\ UNCHANGED <<queue, fuzzer_stats, promised, process, starts>>
      /\ \/ pc' = "dry_run" /\ resume' = resume
         \/ pc' = "nuke" /\ resume # NoDir /\ resume' \in Shrink(resume)
  BY DEF NukeResumeDir, Proceed, Goto
<1>2. resume' \in Dirs \cup {NoDir}
  BY <1>1, Shrunk DEF DirInv, OutputDirTypeOK
<1>3. OutputDirTypeOK'
  BY <1>1, <1>2 DEF DirInv, OutputDirTypeOK, process, Places
<1>4. PlaceInv'
  BY <1>1 DEF DirInv, PlaceInv, Filled, Running, Empty, Writing, process
<1>5. RunInv'
  BY <1>1, FilesStay DEF process, Filled
<1>6. QED
  BY <1>1, <1>3, <1>4, <1>5 DEF DirInv, PivotInv
-----------------------------------------------------------------------------
(* The run.                                                                *)

(* fuzzer_stats is opened.                                                 *)
LEMMA TruncateKeepsDir ==
  ASSUME DirInv, TruncateStats PROVE DirInv'
<1>1. /\ pc \in {"dry_run", "run"} /\ pc' = "fill_stats" /\ fuzzer_stats' = "torn"
      /\ UNCHANGED <<queue, resume, promised, process, starts>>
  BY DEF TruncateStats, Proceed, Goto
<1>2. OutputDirTypeOK'
  BY <1>1 DEF DirInv, OutputDirTypeOK, process, Places
<1>3. PlaceInv'
  BY <1>1 DEF DirInv, PlaceInv, Filled, Running, Empty, Writing, process
<1>4. RunInv'
  BY <1>1, FilesStay DEF process, Filled, Running
<1>5. QED
  BY <1>1, <1>2, <1>3, <1>4 DEF DirInv, PivotInv

(* fuzzer_stats is written.                                                *)
LEMMA FillKeepsDir ==
  ASSUME DirInv, FillStats PROVE DirInv'
<1>1. /\ pc = "fill_stats" /\ pc' = "run" /\ long_run' \in BOOLEAN /\ fuzzer_stats' \in {"much", "little"}
      /\ UNCHANGED <<queue, resume, promised, in_place_resume, entries, pivoted, target, starts>>
  BY DEF FillStats, Goto, DirInv, OutputDirTypeOK
<1>2. OutputDirTypeOK'
  BY <1>1 DEF DirInv, OutputDirTypeOK, Places
<1>3. PlaceInv'
  BY <1>1 DEF DirInv, PlaceInv, Filled, Running, Empty, Writing
<1>4. RunInv'
  BY <1>1, FilesStay DEF Filled, Running
<1>5. QED
  BY <1>1, <1>2, <1>3, <1>4 DEF DirInv, PivotInv

(* A new entry: the next id is free.                                       *)
LEMMA AddKeepsDir ==
  ASSUME DirInv, AddToQueue PROVE DirInv'
<1>1. PICK c \in Cases :
        entries' = Append(entries, [case |-> c, det |-> FALSE, trim_done |-> FALSE])
  BY DEF AddToQueue
<1>2. /\ pc = "run" /\ pc' = "create" /\ Len(entries) < MAX_PATHS /\ target' = Len(entries')
      /\ UNCHANGED <<queue, resume, fuzzer_stats, in_place_resume, pivoted, long_run, starts, promised>>
  BY DEF AddToQueue, Goto, disk
<1> DEFINE l == Len(entries)
           e == [case |-> c, det |-> FALSE, trim_done |-> FALSE]
<1>3. /\ queue \in Dirs /\ queue # NoDir /\ entries \in Seq(QueueEntry) /\ l \in Nat
      /\ Ids \subseteq Nat /\ MAX_PATHS \in Nat /\ target = 0 /\ l \in Ids
      /\ DOMAIN queue.files \subseteq Ids
  <2>1. /\ queue \in Dirs /\ queue # NoDir /\ entries \in Seq(QueueEntry) /\ l \in Nat
        /\ Ids \subseteq Nat /\ MAX_PATHS \in Nat /\ (Writing <=> target # 0)
        /\ \A i \in Nat : i \in Ids <=> i < MAX_PATHS
    BY <1>2, InUse DEF Filled, Running
  <2>2. ~Writing
    BY <1>2 DEF Writing
  <2>3. QED
    BY <1>2, <2>1, <2>2, DirParts
<1>4. e \in QueueEntry /\ ~e.det /\ ~e.trim_done
  BY DEF QueueEntry
<1> HIDE DEF e
<1>5. /\ entries' \in Seq(QueueEntry) /\ Len(entries') = l + 1
      /\ entries'[l + 1] = e /\ \A n \in 1..l : entries'[n] = entries[n]
  BY <1>1, <1>3, <1>4 DEF e
<1>6. Flagged(l) /\ \A i \in Ids : FileOf(i, l)
  <2>1. pc \in Filled
    BY <1>2 DEF Filled, Running
  <2>2. Flagged(l) /\ \A i \in Ids : i = target - 1 \/ FileOf(i, l)
    BY <2>1 DEF DirInv, RunInv
  <2>3. \A i \in Ids : i # target - 1
    BY <1>3
  <2>4. QED
    BY <2>2, <2>3
<1>7. OutputDirTypeOK'
  BY <1>2, <1>3, <1>5 DEF DirInv, OutputDirTypeOK, Places
<1>8. PlaceInv'
  BY <1>2, <1>3, <1>5 DEF DirInv, PlaceInv, Filled, Running, Empty, Writing
<1>9. RunInv'
  <2>1. ASSUME NEW i \in Ids PROVE i \in queue'.done <=> i < l + 1 /\ entries'[i + 1].det
    <3>1. i \in Nat /\ (i < l => i + 1 \in 1..l) /\ (i < l + 1 <=> i < l \/ i = l)
      BY <1>3
    <3>2. i \in queue.done <=> i < l /\ entries[i + 1].det
      BY <1>6 DEF Flagged
    <3>3. CASE i < l
      BY <1>2, <1>5, <3>1, <3>2, <3>3
    <3>4. CASE i = l
      <4>1. i \notin queue.done
        BY <1>3, <3>2, <3>4
      <4>2. QED
        BY <1>2, <1>4, <1>5, <3>4, <4>1
    <3>5. CASE ~(i < l) /\ i # l
      BY <1>2, <3>1, <3>2, <3>5
    <3>6. QED
      BY <3>3, <3>4, <3>5
  <2>2. Flagged(Len(entries))'
    BY <1>5, <2>1 DEF Flagged
  <2>3. ASSUME NEW i \in Ids, i # l
        PROVE  (i \in DOMAIN queue'.files <=> i < l + 1) /\ (i < l + 1 => queue'.files[i] = entries'[i + 1].case)
    <3>1. i \in Nat /\ (i < l => i + 1 \in 1..l) /\ (i < l + 1 <=> i < l)
      BY <1>3, <2>3
    <3>2. QED
      BY <1>2, <1>5, <1>6, <3>1 DEF FileOf
  <2>4. (\A i \in Ids : i = target - 1 \/ FileOf(i, Len(entries)))'
    <3>1. target' - 1 = l
      BY <1>2, <1>3, <1>5
    <3>2. QED
      BY <1>5, <2>3, <3>1 DEF FileOf
  <2>5. target' - 1 \notin DOMAIN queue'.files
    <3>1. l \notin DOMAIN queue.files
      BY <1>3, <1>6 DEF FileOf
    <3>2. QED
      BY <1>2, <1>3, <1>5, <3>1
  <2> HIDE DEF Flagged, FileOf
  <2>6. QED
    BY <2>2, <2>4, <2>5 DEF RunInv
<1>10. QED
  BY <1>2, <1>7, <1>8, <1>9 DEF DirInv, PivotInv

(* The file of a trimmed entry is deleted.                                 *)
LEMMA TrimKeepsDir ==
  ASSUME DirInv, TrimCase PROVE DirInv'
<1>1. PICK n \in 1..Len(entries) :
        /\ ~entries[n].trim_done
        /\ entries' = [entries EXCEPT ![n].trim_done = TRUE]
        /\ \/ UNCHANGED <<queue, target, pc>>
           \/ /\ queue' = Unlink(queue, n - 1)
              /\ target' = n
              /\ pc' = "create"
  BY DEF TrimCase, Goto, IdOf
<1>2. /\ pc = "run"
      /\ UNCHANGED <<resume, fuzzer_stats, in_place_resume, pivoted, long_run, starts, promised>>
  BY DEF TrimCase
<1> DEFINE l == Len(entries)
<1>3. /\ queue \in Dirs /\ queue # NoDir /\ entries \in Seq(QueueEntry) /\ l \in Nat
      /\ Ids \subseteq Nat /\ MAX_PATHS \in Nat /\ target = 0
      /\ n - 1 \in Ids /\ n \in Nat /\ n # 0
  <2>1. /\ queue \in Dirs /\ queue # NoDir /\ entries \in Seq(QueueEntry) /\ l \in Nat
        /\ Ids \subseteq Nat /\ MAX_PATHS \in Nat /\ (Writing <=> target # 0) /\ n - 1 \in Ids
    BY <1>2, InUse DEF Filled, Running
  <2>2. ~Writing
    BY <1>2 DEF Writing
  <2>3. QED
    BY <2>1, <2>2
<1>4. /\ entries' \in Seq(QueueEntry) /\ Len(entries') = l
      /\ \A m \in 1..l : entries'[m].case = entries[m].case /\ entries'[m].det = entries[m].det
      /\ entries'[n].trim_done
  BY <1>1, <1>3, TrimMarked
<1>5. /\ queue' \in Dirs /\ queue' # NoDir /\ queue'.done = queue.done
      /\ \A i \in Ids : i # n - 1 =>
           /\ i \in DOMAIN queue'.files <=> i \in DOMAIN queue.files
           /\ i \in DOMAIN queue.files => queue'.files[i] = queue.files[i]
      /\ \/ UNCHANGED <<queue, target, pc>>
         \/ target' = n /\ pc' = "create" /\ n - 1 \notin DOMAIN queue'.files
  <2>1. CASE UNCHANGED <<queue, target, pc>>
    BY <1>3, <2>1
  <2>2. CASE /\ queue' = Unlink(queue, n - 1)
             /\ target' = n /\ pc' = "create"
    BY <1>3, <2>2, RemovedFile
  <2>3. QED
    BY <1>1, <2>1, <2>2
<1>6. Flagged(l) /\ \A i \in Ids : FileOf(i, l)
  <2>1. pc \in Filled
    BY <1>2 DEF Filled, Running
  <2>2. Flagged(l) /\ \A i \in Ids : i = target - 1 \/ FileOf(i, l)
    BY <2>1 DEF DirInv, RunInv
  <2>3. \A i \in Ids : i # target - 1
    BY <1>3
  <2>4. QED
    BY <2>2, <2>3
<1>7. OutputDirTypeOK'
  <2>1. target' \in 0..l /\ pc' \in Places
    BY <1>2, <1>3, <1>5 DEF Places
  <2>2. QED
    BY <1>2, <1>4, <1>5, <2>1 DEF DirInv, OutputDirTypeOK
<1>8. PlaceInv'
  <2>1. CASE UNCHANGED <<queue, target, pc>>
    BY <1>2, <1>3, <1>5, <2>1 DEF DirInv, PlaceInv, Filled, Running, Empty, Writing
  <2>2. CASE target' = n /\ pc' = "create"
    BY <1>2, <1>3, <1>4, <1>5, <2>2 DEF DirInv, PlaceInv, Filled, Running, Empty, Writing
  <2>3. QED
    BY <1>5, <2>1, <2>2
<1>9. RunInv'
  <2>0. \A i \in Ids : i < l => i + 1 \in 1..l
    BY <1>3
  <2>1. Flagged(Len(entries))'
    BY <1>4, <1>5, <1>6, <2>0 DEF Flagged
  <2>2. ASSUME NEW i \in Ids PROVE i = target' - 1 \/ FileOf(i, Len(entries))'
    <3>1. CASE UNCHANGED <<queue, target, pc>>
      BY <1>4, <1>6, <2>0, <3>1 DEF FileOf
    <3>2. CASE target' = n /\ i # n - 1
      BY <1>4, <1>5, <1>6, <2>0, <3>2 DEF FileOf
    <3>3. CASE target' = n /\ i = n - 1
      BY <3>3
    <3>4. QED
      BY <1>5, <3>1, <3>2, <3>3
  <2>3. pc' = "create" => target' - 1 \notin DOMAIN queue'.files
    BY <1>2, <1>5
  <2> HIDE DEF Flagged, FileOf
  <2>4. QED
    BY <2>1, <2>2, <2>3 DEF RunInv
<1>10. pc' \notin {"pivot", "pivot_done"}
  BY <1>2, <1>5
<1>11. QED
  BY <1>7, <1>8, <1>9, <1>10 DEF DirInv, PivotInv

(* The file that is created, or written, is that of the target.            *)
LEMMA TargetKnown ==
  ASSUME DirInv, Writing
  PROVE  /\ target \in 1..Len(entries) /\ NewId = target - 1 /\ NewId \in Ids
         /\ queue \in Dirs /\ entries[target] \in QueueEntry
         /\ (pc = "create" => NewId \notin DOMAIN queue.files)
         /\ Flagged(Len(entries))
         /\ \A i \in Ids : i # target - 1 => FileOf(i, Len(entries))
<1>1. pc \in Filled
  BY DEF Writing, Filled, Running
<1>2. /\ Flagged(Len(entries))
      /\ \A i \in Ids : i = target - 1 \/ FileOf(i, Len(entries))
      /\ pc = "create" => target - 1 \notin DOMAIN queue.files
  BY <1>1 DEF DirInv, RunInv
<1>3. target \in 1..Len(entries) /\ queue \in Dirs
  BY <1>1, InUse
<1>4. target - 1 \in Ids /\ entries[target] \in QueueEntry
  BY <1>1, <1>3, InUse
<1>5. QED
  BY <1>2, <1>3, <1>4 DEF NewId, IdOf

(* The file of the target is created; O_EXCL does not fail.                *)
LEMMA CreateKeepsDir ==
  ASSUME DirInv, CreateCase PROVE DirInv'
<1>1. /\ pc = "create" /\ Writing
  BY DEF CreateCase, Writing
<1>2. /\ target \in 1..Len(entries) /\ NewId = target - 1 /\ NewId \in Ids
      /\ queue \in Dirs /\ NewId \notin DOMAIN queue.files
      /\ Flagged(Len(entries))
      /\ \A i \in Ids : i # target - 1 => FileOf(i, Len(entries))
  BY <1>1, TargetKnown
<1>3. /\ pc' = "write" /\ queue' = Add(queue, NewId, Zero)
      /\ UNCHANGED <<resume, fuzzer_stats, promised, process, starts>>
  BY <1>2 DEF CreateCase, Proceed, Goto
<1>4. /\ queue' \in Dirs /\ queue' # NoDir /\ queue'.done = queue.done
      /\ \A i \in Ids : i # target - 1 =>
           /\ i \in DOMAIN queue'.files <=> i \in DOMAIN queue.files
           /\ i \in DOMAIN queue.files => queue'.files[i] = queue.files[i]
  BY <1>2, <1>3, AddedFile
<1>5. OutputDirTypeOK'
  BY <1>3, <1>4 DEF DirInv, OutputDirTypeOK, process, Places
<1>6. PlaceInv'
  BY <1>1, <1>3, <1>4 DEF DirInv, PlaceInv, Filled, Running, Empty, Writing, process
<1>7. RunInv'
  <2>1. Flagged(Len(entries))'
    BY <1>2, <1>3, <1>4 DEF Flagged, process
  <2>2. (\A i \in Ids : i = target - 1 \/ FileOf(i, Len(entries)))'
    BY <1>2, <1>3, <1>4 DEF FileOf, process
  <2> HIDE DEF Flagged, FileOf
  <2>3. QED
    BY <1>3, <2>1, <2>2 DEF RunInv
<1>8. QED
  BY <1>3, <1>5, <1>6, <1>7 DEF DirInv, PivotInv

(* The file of the target gets its content.                                *)
LEMMA WriteKeepsDir ==
  ASSUME DirInv, WriteCase PROVE DirInv'
<1>1. /\ pc = "write" /\ Writing
  BY DEF WriteCase, Writing
<1>2. /\ target \in 1..Len(entries) /\ NewId = target - 1 /\ NewId \in Ids
      /\ queue \in Dirs /\ entries[target] \in QueueEntry
      /\ Flagged(Len(entries))
      /\ \A i \in Ids : i # target - 1 => FileOf(i, Len(entries))
  BY <1>1, TargetKnown
<1>3. /\ pc' = "run" /\ queue' = Add(queue, NewId, entries[target].case) /\ target' = 0
      /\ promised' = promised \cup {Name(entries[target])}
      /\ UNCHANGED <<resume, fuzzer_stats, in_place_resume, entries, pivoted, long_run, starts>>
  BY DEF WriteCase, Goto
<1>4. /\ queue' \in Dirs /\ queue' # NoDir /\ queue'.done = queue.done
      /\ \A i \in Ids : i # target - 1 =>
           /\ i \in DOMAIN queue'.files <=> i \in DOMAIN queue.files
           /\ i \in DOMAIN queue.files => queue'.files[i] = queue.files[i]
      /\ target - 1 \in DOMAIN queue'.files /\ queue'.files[target - 1] = entries[target].case
  <2>1. entries[target].case \in Cases
    BY <1>2 DEF QueueEntry
  <2>2. QED
    BY <1>2, <1>3, <2>1, AddedFile
<1>5. OutputDirTypeOK'
  <2>1. Name(entries[target]) \in Entry
    BY <1>2 DEF Name, Entry, QueueEntry
  <2>2. promised' \in SUBSET Entry
    BY <1>3, <2>1 DEF DirInv, OutputDirTypeOK
  <2>3. target' \in 0..Len(entries)
    BY <1>3 DEF DirInv, OutputDirTypeOK
  <2>4. QED
    BY <1>3, <1>4, <2>2, <2>3 DEF DirInv, OutputDirTypeOK, Places
<1>6. PlaceInv'
  BY <1>1, <1>3, <1>4 DEF DirInv, PlaceInv, Filled, Running, Empty, Writing
<1>7. RunInv'
  <2>1. Flagged(Len(entries))'
    BY <1>2, <1>3, <1>4 DEF Flagged
  <2>2. ASSUME NEW i \in Ids PROVE FileOf(i, Len(entries))'
    <3>1. CASE i = target - 1
      <4>1. i + 1 = target /\ i < Len(entries)
        BY <1>2, <3>1 DEF DirInv, OutputDirTypeOK
      <4>2. QED
        BY <1>3, <1>4, <3>1, <4>1 DEF FileOf
    <3>2. CASE i # target - 1
      BY <1>2, <1>3, <1>4, <3>2 DEF FileOf
    <3>3. QED
      BY <3>1, <3>2
  <2> HIDE DEF Flagged, FileOf
  <2>3. QED
    BY <1>3, <2>1, <2>2 DEF RunInv
<1>8. QED
  BY <1>3, <1>5, <1>6, <1>7 DEF DirInv, PivotInv

(* The flag of an entry whose deterministic stages are done.               *)
LEMMA MarkKeepsDir ==
  ASSUME DirInv, MarkAsDetDone PROVE DirInv'
<1>1. PICK n \in 1..Len(entries) :
        /\ entries[n].trim_done /\ ~entries[n].det
        /\ entries' = [entries EXCEPT ![n].det = TRUE]
        /\ queue' = [queue EXCEPT !.done = queue.done \cup {n - 1}]
        /\ promised' = promised \cup {Name(entries'[n])}
  BY DEF MarkAsDetDone, IdOf
<1>2. /\ pc = "run"
      /\ UNCHANGED <<resume, fuzzer_stats, pc, in_place_resume, pivoted, target, long_run, starts>>
  BY DEF MarkAsDetDone
<1> DEFINE l == Len(entries)
<1>3. /\ queue \in Dirs /\ entries \in Seq(QueueEntry) /\ l \in Nat
      /\ Ids \subseteq Nat /\ target = 0 /\ n - 1 \in Ids /\ n \in Nat
  <2>1. /\ queue \in Dirs /\ entries \in Seq(QueueEntry) /\ l \in Nat
        /\ Ids \subseteq Nat /\ (Writing <=> target # 0) /\ n - 1 \in Ids
    BY <1>2, InUse DEF Filled, Running
  <2>2. ~Writing
    BY <1>2 DEF Writing
  <2>3. QED
    BY <2>1, <2>2
<1>4. /\ entries' \in Seq(QueueEntry) /\ Len(entries') = l
      /\ \A m \in 1..l : entries'[m].case = entries[m].case
      /\ \A m \in 1..l : m # n => entries'[m] = entries[m]
      /\ entries'[n].det
  BY <1>1, <1>3, DetMarked
<1>5. /\ queue' \in Dirs /\ queue' # NoDir /\ queue'.files = queue.files
      /\ queue'.done = queue.done \cup {n - 1}
  <2>1. queue.done \cup {n - 1} \in SUBSET Ids
    BY <1>3, DirParts
  <2>2. QED
    BY <1>1, <1>3, <2>1, Flagging
<1>6. Flagged(l) /\ \A i \in Ids : i = target - 1 \/ FileOf(i, l)
  BY <1>2 DEF DirInv, RunInv, Filled, Running
<1>7. OutputDirTypeOK'
  <2>1. entries'[n] \in QueueEntry
    BY <1>4
  <2>2. Name(entries'[n]) \in Entry
    BY <2>1 DEF Name, Entry, QueueEntry
  <2>3. promised' \in SUBSET Entry
    BY <1>1, <2>2 DEF DirInv, OutputDirTypeOK
  <2>4. QED
    BY <1>2, <1>4, <1>5, <2>3 DEF DirInv, OutputDirTypeOK
<1>8. PlaceInv'
  BY <1>2, <1>3, <1>5 DEF DirInv, PlaceInv, Filled, Running, Empty, Writing
<1>9. RunInv'
  <2>0. \A i \in Ids : (i < l => i + 1 \in 1..l) /\ (i + 1 = n <=> i = n - 1)
    BY <1>3
  <2>1. ASSUME NEW i \in Ids PROVE i \in queue'.done <=> i < l /\ entries'[i + 1].det
    <3>1. i \in queue.done <=> i < l /\ entries[i + 1].det
      BY <1>6 DEF Flagged
    <3>2. CASE i = n - 1
      <4>1. i < l
        BY <1>3, <3>2
      <4>2. QED
        BY <1>4, <1>5, <2>0, <3>2, <4>1
    <3>3. CASE i # n - 1
      BY <1>4, <1>5, <2>0, <3>1, <3>3
    <3>4. QED
      BY <3>2, <3>3
  <2>2. Flagged(Len(entries))'
    BY <1>4, <2>1 DEF Flagged
  <2>3. (\A i \in Ids : i = target - 1 \/ FileOf(i, Len(entries)))'
    BY <1>2, <1>4, <1>5, <1>6, <2>0 DEF FileOf
  <2> HIDE DEF Flagged, FileOf
  <2>4. QED
    BY <1>2, <2>2, <2>3 DEF RunInv
<1>10. QED
  BY <1>2, <1>7, <1>8, <1>9 DEF DirInv, PivotInv

-----------------------------------------------------------------------------
(* The invariant of the directory, whatever happens.                       *)

(* Every step of the fuzzer and every kill keeps the invariant.            *)
LEMMA DirStepKeepsDir ==
  ASSUME DirInv, [DirNext]_dirVars PROVE DirInv'
<1>1. CASE SetUp
  BY <1>1, StartKeepsDir, CheckKeepsDir, RenameKeepsDir, CleanKeepsDir, UnlinkKeepsDir,
     MakeKeepsDir, ReadKeepsDir DEF SetUp
<1>2. CASE Pivot
  BY <1>2, PivotInputKeepsDir, PivotDoneKeepsDir, PivotEndsKeepsDir, NukeKeepsDir DEF Pivot
<1>3. CASE Run
  BY <1>3, TruncateKeepsDir, FillKeepsDir, AddKeepsDir, TrimKeepsDir, CreateKeepsDir,
     WriteKeepsDir, MarkKeepsDir DEF Run
<1>4. CASE Abort
  BY <1>4, AbortKeepsDir
<1>5. CASE UNCHANGED dirVars
  BY <1>5 DEF dirVars, disk, process, DirInv, OutputDirTypeOK, PlaceInv, PivotInv, RunInv, FileOf,
     Flagged, Writing
<1>6. QED
  BY <1>1, <1>2, <1>3, <1>4, <1>5 DEF DirNext, Unused

(* The invariant of the directory for any number of cases, starts and      *)
(* kills at any place, in whatever order (maybe_delete_out_dir,            *)
(* pivot_inputs, nuke_resume_dir, save_if_interesting, trim_case).         *)
THEOREM DirInvariance == DirSpec => []DirInv
<1>1. DirInv /\ [DirNext]_dirVars => DirInv'
  BY DirStepKeepsDir
<1>2. QED
  BY <1>1, DirInitially, PTL DEF DirSpec

(* While fuzz_one runs, the file of every entry is there.                  *)
LEMMA EntriesThere == DirInv => EntriesOnDisk
<1> SUFFICES ASSUME DirInv, pc \in Running
             PROVE  /\ \A n \in 1..Len(entries) :
                         \/ n = target
                         \/ /\ IdOf(n) \in DOMAIN queue.files
                            /\ queue.files[IdOf(n)] = entries[n].case
                            /\ IdOf(n) \in queue.done <=> entries[n].det
                    /\ DOMAIN queue.files \subseteq {IdOf(n) : n \in 1..Len(entries)}
                    /\ pc = "create" => NewId \notin DOMAIN queue.files
  BY DEF EntriesOnDisk, Running
<1>1. /\ pc \in Filled /\ Flagged(Len(entries))
      /\ \A i \in Ids : i = target - 1 \/ FileOf(i, Len(entries))
      /\ pc = "create" => target - 1 \notin DOMAIN queue.files
  BY DEF DirInv, RunInv, Filled
<1>2. /\ Len(entries) \in Nat /\ target \in 0..Len(entries) /\ queue \in Dirs /\ Ids \subseteq Nat
      /\ \A n \in 1..Len(entries) : n - 1 \in Ids
      /\ DOMAIN queue.files \subseteq Ids
      /\ Writing <=> target # 0
  BY <1>1, InUse, DirParts
<1>3. ASSUME NEW n \in 1..Len(entries), n # target
      PROVE  /\ n - 1 \in DOMAIN queue.files /\ queue.files[n - 1] = entries[n].case
             /\ n - 1 \in queue.done <=> entries[n].det
  <2>1. n - 1 \in Ids /\ n - 1 # target - 1 /\ n - 1 < Len(entries) /\ n - 1 + 1 = n
    BY <1>2, <1>3
  <2>2. FileOf(n - 1, Len(entries))
    BY <1>1, <2>1
  <2>3. QED
    BY <1>1, <2>1, <2>2 DEF FileOf, Flagged
<1>4. ASSUME NEW i \in DOMAIN queue.files PROVE \E n \in 1..Len(entries) : i = n - 1
  <2>1. i \in Nat /\ i \in Ids
    BY <1>2
  <2>2. i < Len(entries)
    <3>1. CASE i = target - 1
      BY <1>2, <2>1, <3>1
    <3>2. CASE i # target - 1
      BY <1>1, <2>1, <3>2 DEF FileOf
    <3>3. QED
      BY <3>1, <3>2
  <2>3. i + 1 \in 1..Len(entries) /\ i = (i + 1) - 1
    BY <1>2, <2>1, <2>2
  <2>4. QED
    BY <2>3
<1>5. pc = "create" => NewId \notin DOMAIN queue.files
  BY <1>1 DEF NewId, IdOf
<1>6. QED
  BY <1>3, <1>4, <1>5 DEF IdOf

(* While fuzz_one runs, every entry has its file under the id that         *)
(* add_to_queue and pivot_inputs gave it, with its content and its flag,   *)
(* and the O_EXCL of the next one does not fail; Races may hold any event. *)
THEOREM EntriesAlwaysOnDisk == DirSpec => []EntriesOnDisk
BY DirInvariance, EntriesThere, PTL
-----------------------------------------------------------------------------
(* What a resume finds.                                                    *)

(* A promise is the content of a case, with or without its flag.           *)
LEMMA PromisesByName ==
  ASSUME NEW e, NEW f, e.case = f.case, e.det = f.det
  PROVE  PromisesOf(e) = PromisesOf(f)
BY DEF PromisesOf, Name

(* The name of a case with another flag.                                   *)
LEMMA FlagDropped ==
  ASSUME NEW e, NEW b PROVE [Name(e) EXCEPT !.det = b] = [case |-> e.case, det |-> b]
BY DEF Name

(* An empty directory promises nothing.                                    *)
LEMMA EmptyPromisesNothing ==
  ASSUME NEW d \in Dirs, d.files = <<>> PROVE InDir(d) = {}
<1>1. Usable(d) = {}
  BY NoFiles DEF Usable
<1>2. \A p : p \notin Promises(ReadCases(d))
  BY <1>1, PromisesRead
<1>3. QED
  BY <1>2 DEF InDir

(* While the old directory is imported it is the one that is found, unless *)
(* it holds nothing.                                                       *)
LEMMA ImportFinds ==
  ASSUME DirInv, ResumeInv, pc \in Importing
  PROVE  promised \subseteq Found
<1>1. CASE ~in_place_resume
  BY <1>1 DEF ResumeInv
<1>2. CASE in_place_resume /\ CanRename(queue, resume)
  <2>1. resume = NoDir \/ (resume \in Dirs /\ resume.files = <<>>)
    BY <1>2 DEF CanRename, IsEmpty, DirInv, OutputDirTypeOK
  <2>2. InDir(resume) = {}
    BY <2>1, EmptyPromisesNothing DEF InDir
  <2>3. QED
    BY <1>2, <2>2 DEF ResumeInv
<1>3. CASE in_place_resume /\ ~CanRename(queue, resume)
  <2>1. Found = InDir(resume)
    BY <1>3 DEF Found, ResumeSource, InDir
  <2>2. QED
    BY <1>3, <2>1 DEF ResumeInv
<1>4. QED
  BY <1>1, <1>2, <1>3

(* While the fuzzer runs the files of queue/ are what was promised.        *)
LEMMA RunFinds ==
  ASSUME DirInv, ResumeInv, pc \in Running, ~Trimming
  PROVE  promised \subseteq Found
<1>1. /\ pc \in Filled /\ resume = NoDir /\ queue \in Dirs /\ queue # NoDir
      /\ Len(entries) \in Nat
      /\ \A n \in 1..Len(entries) : n - 1 \in Ids /\ entries[n].case \in Cases
  <2>1. pc \in Filled
    BY DEF Filled
  <2>2. QED
    BY <2>1, InUse DEF ResumeInv
<1>2. Found = Promises(ReadCases(queue))
  BY <1>1 DEF Found, ResumeSource, CanRename
<1>3. /\ Flagged(Len(entries))
      /\ \A i \in Ids : i = target - 1 \/ FileOf(i, Len(entries))
  BY <1>1 DEF DirInv, RunInv
<1>4. target \in Nat
  BY DEF DirInv, OutputDirTypeOK
<1>5. ASSUME NEW p \in promised PROVE p \in Found
  <2>1. PICK n \in 1..Len(entries) : p \in PromisesOf(entries[n]) /\ n # target
    BY <1>1 DEF ResumeInv
  <2> DEFINE i == n - 1
  <2>2. i \in Ids /\ i # target - 1 /\ i < Len(entries) /\ i + 1 = n
    BY <1>1, <1>4, <2>1
  <2> HIDE DEF i
  <2>3. FileOf(i, Len(entries))
    BY <1>3, <2>2
  <2>4. i \in DOMAIN queue.files /\ queue.files[i] = entries[n].case
    BY <2>2, <2>3 DEF FileOf
  <2>5. i \in queue.done <=> entries[n].det
    BY <1>3, <2>2 DEF Flagged
  <2>6. i \in Usable(queue)
    BY <1>1, <2>4, OutputDirAssumption DEF Usable
  <2>7. CaseOf(queue, i).case = entries[n].case
    BY <2>4 DEF CaseOf
  <2>8. CaseOf(queue, i).det = entries[n].det
    <3>1. entries[n].det \in BOOLEAN
      <4>1. entries[n] \in QueueEntry
        BY <1>1, InUse
      <4>2. QED
        BY <4>1 DEF QueueEntry
    <3>2. CaseOf(queue, i).det = (i \in queue.done)
      BY DEF CaseOf
    <3>3. QED
      BY <2>5, <3>1, <3>2
  <2>9. p \in PromisesOf(CaseOf(queue, i))
    BY <2>1, <2>7, <2>8, PromisesByName
  <2>10. QED
    BY <1>1, <1>2, <2>6, <2>9, PromisesRead
<1>6. QED
  BY <1>5

(* The invariant says that a resume finds everything.                      *)
LEMMA ResumeFinds ==
  ASSUME DirInv, ResumeInv PROVE ResumeFindsAll
<1> SUFFICES ASSUME pc # "nuke", ~Trimming PROVE promised \subseteq Found
  BY DEF ResumeFindsAll
<1>1. pc \in {"off", "stats", "rename"} \cup Importing \cup Running
  BY DEF DirInv, OutputDirTypeOK, Places, Importing, Empty, Running
<1>2. CASE pc \in {"off", "stats", "rename"}
  BY <1>2 DEF ResumeInv
<1>3. CASE pc \in Importing
  BY <1>3, ImportFinds
<1>4. CASE pc \in Running
  BY <1>4, RunFinds
<1>5. QED
  BY <1>1, <1>2, <1>3, <1>4

(* Steps of the import that leave the old directory alone.                 *)
LEMMA ImportGoesOn ==
  ASSUME ResumeInv, pc \in Importing, pc' \in Importing,
         UNCHANGED <<resume, in_place_resume, promised, entries>>,
         pc' \in {"pivot", "pivot_done"} => pc \in {"pivot", "pivot_done"}
  PROVE  ResumeInv'
<1>1. pc' \notin {"off", "stats", "rename"} \cup Filled /\ pc # "off"
  BY DEF Importing, Empty, Filled, Running
<1>2. pc' \notin Running
  BY <1>1 DEF Filled
<1>3. InDir(resume)' = InDir(resume)
  BY DEF InDir
<1>4. (Importing = Importing') /\ (Running = Running') /\ (Filled = Filled')
  BY DEF Importing, Empty, Filled, Running
<1>5. QED
  BY <1>1, <1>2, <1>3, <1>4 DEF ResumeInv

(* Steps of the run that leave the entries alone.                          *)
LEMMA RunGoesOn ==
  ASSUME ResumeInv, pc \in Filled, pc' \in Filled,
         UNCHANGED <<in_place_resume, promised, entries, target>>,
         Trimming => Trimming', pc' \in Running => resume' = NoDir, pc' = "nuke" => in_place_resume
  PROVE  ResumeInv'
<1>1. pc' \notin {"off", "stats", "rename"} \cup Importing
  BY DEF Importing, Empty, Filled, Running
<1>2. \A p \in promised' : \E n \in 1..Len(entries') :
        p \in PromisesOf(entries'[n]) /\ (n # target' \/ Trimming')
  BY DEF ResumeInv
<1>3. pc' = "nuke" \/ pc' \in Running
  BY DEF Filled
<1>4. QED
  BY <1>1, <1>2, <1>3 DEF ResumeInv, PromisesOf, Name, Importing, Empty

(* Nothing is promised before the first start.                             *)
LEMMA ResumeInitially == Init => ResumeInv
BY DEF Init, ResumeInv, Running, Filled, Importing, Empty

(* The start, up to read_testcases: the old directory is renamed, or was   *)
(* renamed by an earlier start and stays.                                  *)
LEMMA SetUpKeepsResume ==
  ASSUME Races = {}, DirInv, ResumeInv, SetUp PROVE ResumeInv'
<1>1. CASE Start
  <2>1. /\ pc = "off" /\ pc' = "stats" /\ (~in_place_resume' => resume = NoDir)
        /\ UNCHANGED <<queue, resume, promised>>
    BY <1>1 DEF Start, Goto, disk
  <2>2. promised' \subseteq Found'
    BY <2>1 DEF ResumeInv, Found, ResumeSource, CanRename, IsEmpty
  <2>3. QED
    BY <2>1, <2>2 DEF ResumeInv, Running, Filled, Importing, Empty
<1>2. CASE CheckStats
  <2>1. /\ pc = "stats" /\ UNCHANGED <<queue, resume, in_place_resume>>
        /\ \/ pc' \in {"off", "rename"} /\ promised' = promised
           \/ pc' = "clean" /\ ~in_place_resume /\ promised' = {}
        /\ pc' = "rename" => in_place_resume
    BY <1>2 DEF CheckStats, Proceed, Goto, disk, process
  <2>2. promised' \subseteq Found'
    BY <2>1 DEF ResumeInv, Found, ResumeSource, CanRename, IsEmpty
  <2>3. QED
    BY <2>1, <2>2 DEF ResumeInv, Running, Filled, Importing, Empty
<1>3. CASE RenameQueue
  <2>1. /\ pc = "rename" /\ pc' = "clean" /\ UNCHANGED <<promised, in_place_resume>> /\ in_place_resume
    BY <1>3 DEF RenameQueue, Proceed, Goto, process, DirInv, PlaceInv
  <2>2. InDir(resume)' = Found
    BY <1>3, NoDirAssumption DEF RenameQueue, Found, ResumeSource, InDir, CanRename
  <2>3. promised' \subseteq InDir(resume)'
    BY <2>1, <2>2 DEF ResumeInv
  <2>4. QED
    BY <2>1, <2>3 DEF ResumeInv, Running, Filled, Importing, Empty
<1>4. CASE CleanQueue \/ UnlinkStats \/ MakeDirs
  <2>1. /\ pc \in Importing /\ pc' \in Importing \ {"pivot", "pivot_done"}
        /\ UNCHANGED <<resume, in_place_resume, promised, entries>>
    BY <1>4 DEF CleanQueue, UnlinkStats, MakeDirs, Proceed, Goto, process, Importing, Empty
  <2>2. QED
    BY <2>1, ImportGoesOn
<1>5. CASE ReadTestcases
  <2>1. /\ pc = "read" /\ UNCHANGED <<queue, resume, in_place_resume, promised>>
        /\ entries' = IF ~in_place_resume THEN Fresh
                      ELSE IF resume = NoDir THEN <<>> ELSE ReadCases(resume)
        /\ pc' = IF entries' = <<>> THEN "off" ELSE "pivot"
    BY <1>5 DEF ReadTestcases, Goto, disk
  <2>2. /\ promised \subseteq IF in_place_resume THEN InDir(resume) ELSE {}
        /\ ~in_place_resume => resume = NoDir
    BY <2>1 DEF ResumeInv, Importing, Empty
  <2>3. CASE pc' = "off"
    <3>1. promised = {}
      <4>1. CASE ~in_place_resume
        BY <2>2, <4>1
      <4>2. CASE in_place_resume /\ resume = NoDir
        BY <2>2, <4>2 DEF InDir
      <4>3. CASE in_place_resume /\ resume # NoDir
        <5>1. ReadCases(resume) = <<>>
          BY <2>1, <2>3, <4>3
        <5>2. Promises(ReadCases(resume)) = {}
          BY <5>1 DEF Promises, Range
        <5>3. QED
          BY <2>2, <4>3, <5>2 DEF InDir
      <4>4. QED
        BY <4>1, <4>2, <4>3
    <3>2. promised' \subseteq Found'
      BY <2>1, <3>1
    <3>3. QED
      BY <2>1, <2>3, <3>2 DEF ResumeInv, Running, Filled, Importing, Empty
  <2>4. CASE pc' = "pivot"
    <3>1. in_place_resume' => resume' # NoDir /\ entries' = ReadCases(resume)
      BY <2>1, <2>4
    <3>2. ReadCases(resume)' = ReadCases(resume) /\ InDir(resume)' = InDir(resume)
      BY <2>1 DEF InDir
    <3>3. QED
      BY <2>1, <2>2, <2>4, <3>1, <3>2 DEF ResumeInv, Running, Filled, Importing, Empty
  <2>5. QED
    BY <2>1, <2>3, <2>4
<1>6. QED
  BY <1>1, <1>2, <1>3, <1>4, <1>5 DEF SetUp

(* The import: when it ends the entries are the cases of _resume.          *)
LEMMA PivotKeepsResume ==
  ASSUME Races = {}, DirInv, ResumeInv, Pivot PROVE ResumeInv'
<1>1. CASE PivotInput \/ PivotDone
  <2>1. /\ pc \in {"pivot", "pivot_done"} /\ pc' \in {"pivot", "pivot_done"}
        /\ UNCHANGED <<resume, in_place_resume, promised, entries>>
    BY <1>1 DEF PivotInput, PivotDone, Goto, process
  <2>2. QED
    BY <2>1, ImportGoesOn DEF Importing
<1>2. CASE PivotEnds
  <2>1. /\ pc = "pivot" /\ UNCHANGED <<resume, in_place_resume, entries, target>>
        /\ pc' = IF in_place_resume THEN "nuke" ELSE "dry_run"
        /\ promised' = promised \cup Promises(entries)
    BY <1>2 DEF PivotEnds, Proceed, Goto, disk, process
  <2>2. promised \subseteq Promises(entries)
    BY <2>1 DEF ResumeInv, Importing, InDir
  <2>3. target = 0 /\ entries \in Seq(QueueEntry)
    BY <2>1, InUse DEF Writing
  <2>4. \A p \in promised' : \E n \in 1..Len(entries') : p \in PromisesOf(entries'[n]) /\ n # target'
    <3>1. ASSUME NEW p \in promised' PROVE \E n \in 1..Len(entries) : p \in PromisesOf(entries[n])
      BY <2>1, <2>2, <2>3, <3>1, PromisesOfSeq
    <3>2. \A n \in 1..Len(entries) : n # 0
      BY <2>3
    <3>3. QED
      BY <2>1, <2>3, <3>1, <3>2
  <2>5. ~in_place_resume => resume = NoDir
    BY <2>1 DEF ResumeInv
  <2>6. pc' \in Filled /\ (pc' \in Running => resume' = NoDir) /\ pc' \notin {"off", "stats", "rename"} \cup Importing
    BY <2>1, <2>5 DEF Running, Filled, Importing, Empty
  <2>7. QED
    BY <2>1, <2>4, <2>5, <2>6 DEF ResumeInv, PromisesOf, Name, Importing, Empty
<1>3. CASE NukeResumeDir
  <2>1. /\ pc = "nuke" /\ UNCHANGED <<in_place_resume, promised, entries, target>>
        /\ pc' = "nuke" \/ (pc' = "dry_run" /\ resume' = NoDir)
        /\ in_place_resume
    BY <1>3 DEF NukeResumeDir, Proceed, Goto, process, DirInv, PlaceInv
  <2>2. ~Trimming /\ pc \in Filled /\ pc' \in Filled /\ (pc' \in Running => resume' = NoDir)
    BY <2>1 DEF Trimming, Filled, Running
  <2>3. QED
    BY <2>1, <2>2, RunGoesOn
<1>4. QED
  BY <1>1, <1>2, <1>3 DEF Pivot

(* The run: a promise is made when its file is there, and the entry behind *)
(* a promise keeps content and flag.                                       *)
LEMMA RunKeepsResume ==
  ASSUME Races = {}, DirInv, ResumeInv, Run PROVE ResumeInv'
<1>1. CASE TruncateStats \/ FillStats
  <2>1. /\ pc \in {"dry_run", "run", "fill_stats"} /\ pc' \in {"run", "fill_stats"}
        /\ UNCHANGED <<resume, in_place_resume, promised, entries, target>>
    BY <1>1 DEF TruncateStats, FillStats, Proceed, Goto, process
  <2>2. ~Trimming /\ pc \in Running /\ pc \in Filled /\ pc' \in Filled /\ pc' # "nuke"
    BY <2>1 DEF Trimming, Running, Filled
  <2>3. resume' = NoDir
    BY <2>1, <2>2 DEF ResumeInv
  <2>4. QED
    BY <2>1, <2>2, <2>3, RunGoesOn
<1>2. CASE CreateCase
  <2>1. pc = "create" /\ Writing
    BY <1>2 DEF CreateCase, Writing
  <2>2. pc' = "write" /\ UNCHANGED <<resume, in_place_resume, promised, entries, target>>
    BY <1>2, <2>1, TargetKnown DEF CreateCase, Proceed, Goto, process
  <2>3. (Trimming => Trimming') /\ pc \in Running /\ pc \in Filled /\ pc' \in Filled /\ pc' # "nuke"
    BY <2>1, <2>2 DEF Trimming, Running, Filled
  <2>4. resume' = NoDir
    BY <2>2, <2>3 DEF ResumeInv
  <2>5. QED
    BY <2>2, <2>3, <2>4, RunGoesOn
<1>3. CASE AddToQueue \/ TrimCase \/ WriteCase \/ MarkAsDetDone
  <2>1. /\ pc \in {"run", "write"} /\ pc' \in {"run", "create"}
        /\ UNCHANGED <<resume, in_place_resume>>
    BY <1>3 DEF AddToQueue, TrimCase, WriteCase, MarkAsDetDone, Goto, disk
  <2>2. pc \in Running /\ pc \in Filled /\ pc # "off" /\ resume = NoDir
    BY <2>1 DEF Running, Filled, ResumeInv
  <2>3. /\ entries \in Seq(QueueEntry) /\ Len(entries) \in Nat /\ (pc = "run" => target = 0)
        /\ queue \in Dirs
    BY <2>2, InUse DEF Writing
  <2> DEFINE Held(p, n) == n \in 1..Len(entries') /\ p \in PromisesOf(entries'[n])
                             /\ (n # target' \/ Trimming')
  <2>4. ASSUME NEW p \in promised'  PROVE \E n : Held(p, n)
    <3>1. p \in promised =>
            \E n \in 1..Len(entries) : p \in PromisesOf(entries[n]) /\ (n # target \/ Trimming)
      BY <2>2 DEF ResumeInv
    <3>2. CASE AddToQueue
      <4>1. PICK c \in Cases :
              entries' = Append(entries, [case |-> c, det |-> FALSE, trim_done |-> FALSE])
        BY <3>2 DEF AddToQueue
      <4>2. promised' = promised /\ target' = Len(entries') /\ pc = "run"
        BY <3>2 DEF AddToQueue
      <4>3. /\ Len(entries') = Len(entries) + 1
            /\ \A n \in 1..Len(entries) : entries'[n] = entries[n]
        BY <2>3, <4>1
      <4>4. PICK n \in 1..Len(entries) : p \in PromisesOf(entries[n])
        BY <3>1, <4>2
      <4>5. n \in 1..Len(entries') /\ n # target' /\ entries'[n] = entries[n]
        BY <2>3, <4>2, <4>3
      <4>6. QED
        BY <4>4, <4>5
    <3>3. CASE TrimCase
      <4>1. PICK k \in 1..Len(entries) :
              /\ entries' = [entries EXCEPT ![k].trim_done = TRUE]
              /\ \/ UNCHANGED <<target, pc>>
                 \/ target' = k /\ pc' = "create"
        BY <3>3 DEF TrimCase, Goto
      <4>2. promised' = promised /\ pc = "run"
        BY <3>3 DEF TrimCase
      <4>3. /\ Len(entries') = Len(entries) /\ entries'[k].trim_done
            /\ \A n \in 1..Len(entries) : entries'[n].case = entries[n].case /\ entries'[n].det = entries[n].det
        BY <2>3, <4>1, TrimMarked
      <4>4. PICK n \in 1..Len(entries) : p \in PromisesOf(entries[n])
        BY <3>1, <4>2
      <4>5. p \in PromisesOf(entries'[n])
        BY <4>3, <4>4, PromisesByName
      <4>6. n # target' \/ Trimming'
        BY <2>3, <4>1, <4>2, <4>3 DEF Trimming
      <4>7. QED
        BY <4>3, <4>5, <4>6
    <3>4. CASE WriteCase
      <4>1. /\ promised' = promised \cup {Name(entries[target])} /\ target' = 0 /\ entries' = entries
            /\ pc = "write" /\ Writing
        BY <3>4 DEF WriteCase, Writing
      <4>2. target \in 1..Len(entries)
        BY <4>1, TargetKnown
      <4>3. p = Name(entries[target]) => p \in PromisesOf(entries[target])
        BY DEF PromisesOf
      <4>4. PICK n \in 1..Len(entries) : p \in PromisesOf(entries[n])
        BY <3>1, <4>1, <4>2, <4>3
      <4>5. n # 0
        BY <2>3
      <4>6. QED
        BY <4>1, <4>4, <4>5
    <3>5. CASE MarkAsDetDone
      <4>1. PICK k \in 1..Len(entries) :
              /\ ~entries[k].det
              /\ entries' = [entries EXCEPT ![k].det = TRUE]
              /\ promised' = promised \cup {Name(entries'[k])}
        BY <3>5 DEF MarkAsDetDone
      <4>2. pc = "run" /\ target' = target /\ target = 0
        BY <2>3, <3>5 DEF MarkAsDetDone
      <4>3. /\ entries' \in Seq(QueueEntry) /\ Len(entries') = Len(entries) /\ entries'[k].det
            /\ \A n \in 1..Len(entries) : entries'[n].case = entries[n].case
            /\ \A n \in 1..Len(entries) : n # k => entries'[n] = entries[n]
        BY <2>3, <4>1, DetMarked
      <4>4. PromisesOf(entries[k]) \subseteq PromisesOf(entries'[k])
        <5>1. entries[k] \in QueueEntry /\ entries'[k] \in QueueEntry
          BY <2>3, <4>3
        <5>2. Name(entries[k]) = [case |-> entries[k].case, det |-> FALSE]
          BY <4>1, <5>1 DEF Name, QueueEntry
        <5>3. [Name(entries[k]) EXCEPT !.det = FALSE] = [case |-> entries[k].case, det |-> FALSE]
          BY FlagDropped
        <5>4. [Name(entries'[k]) EXCEPT !.det = FALSE] = [case |-> entries[k].case, det |-> FALSE]
          <6>1. [Name(entries'[k]) EXCEPT !.det = FALSE] = [case |-> entries'[k].case, det |-> FALSE]
            BY FlagDropped
          <6>2. QED
            BY <4>3, <6>1
        <5>5. QED
          BY <5>2, <5>3, <5>4 DEF PromisesOf
      <4>5. Name(entries'[k]) \in PromisesOf(entries'[k])
        BY DEF PromisesOf
      <4>6. PICK n \in 1..Len(entries) : p \in PromisesOf(entries'[n])
        <5>1. CASE p = Name(entries'[k])
          BY <4>5, <5>1
        <5>2. CASE p \in promised
          <6>1. PICK n \in 1..Len(entries) : p \in PromisesOf(entries[n])
            BY <3>1, <5>2
          <6>2. PromisesOf(entries[n]) \subseteq PromisesOf(entries'[n])
            BY <4>3, <4>4
          <6>3. QED
            BY <6>1, <6>2
        <5>3. QED
          BY <4>1, <5>1, <5>2
      <4>7. n # 0
        BY <2>3
      <4>8. QED
        BY <4>2, <4>3, <4>6, <4>7
    <3>6. QED
      BY <1>3, <3>2, <3>3, <3>4, <3>5
  <2>5. pc' \in Running /\ pc' \in Filled /\ pc' \notin {"off", "stats", "rename"} \cup Importing
    BY <2>1 DEF Running, Filled, Importing, Empty
  <2>6. \A p \in promised' : \E n \in 1..Len(entries') :
          p \in PromisesOf(entries'[n]) /\ (n # target' \/ Trimming')
    BY <2>4
  <2>7. QED
    BY <2>1, <2>2, <2>5, <2>6 DEF ResumeInv, PromisesOf, Name, Importing, Empty
<1>4. QED
  BY <1>1, <1>2, <1>3 DEF Run

(* An abort leaves what a resume finds to the next start.                  *)
LEMMA AbortKeepsResume ==
  ASSUME Races = {}, DirInv, ResumeInv, Abort PROVE ResumeInv'
<1>1. /\ pc # "nuke" /\ ~Trimming /\ pc' = "off" /\ UNCHANGED <<queue, resume, promised>>
  BY DEF Abort, disk
<1>2. promised \subseteq Found
  BY <1>1, ResumeFinds DEF ResumeFindsAll
<1>3. promised' \subseteq Found'
  BY <1>1, <1>2 DEF Found, ResumeSource, CanRename, IsEmpty
<1>4. QED
  BY <1>1, <1>3 DEF ResumeInv, Running, Filled, Importing, Empty

(* Every step keeps what a resume finds.                                   *)
LEMMA DirStepKeepsResume ==
  ASSUME Races = {}, DirInv, ResumeInv, [DirNext]_dirVars PROVE ResumeInv'
<1>1. CASE SetUp
  BY <1>1, SetUpKeepsResume
<1>2. CASE Pivot
  BY <1>2, PivotKeepsResume
<1>3. CASE Run
  BY <1>3, RunKeepsResume
<1>4. CASE Abort
  BY <1>4, AbortKeepsResume
<1>5. CASE UNCHANGED dirVars
  <2>1. UNCHANGED <<queue, resume, pc, in_place_resume, entries, target, promised>>
    BY <1>5 DEF dirVars, disk, process
  <2>2. Found' = Found /\ InDir(resume)' = InDir(resume) /\ Trimming' = Trimming
    BY <2>1 DEF Found, ResumeSource, CanRename, IsEmpty, InDir, Trimming
  <2>3. QED
    BY <2>1, <2>2 DEF ResumeInv, Running, Filled, Importing, Empty, PromisesOf, Name
<1>6. QED
  BY <1>1, <1>2, <1>3, <1>4, <1>5 DEF DirNext, Unused

(* Killed anywhere outside nuke_resume_dir and trim_case, and resumed any  *)
(* number of times, a session finds every case and every flag it had on    *)
(* disk, for any input directory and any number of cases.                  *)
THEOREM ResumeFindsWhatWasThere ==
  ASSUME Races = {} PROVE DirSpec => []ResumeFindsAll
<1>1. Init => DirInv /\ ResumeInv
  BY DirInitially, ResumeInitially
<1>2. (DirInv /\ ResumeInv) /\ [DirNext]_dirVars => (DirInv /\ ResumeInv)'
  BY DirStepKeepsDir, DirStepKeepsResume
<1>3. DirInv /\ ResumeInv => ResumeFindsAll
  BY ResumeFinds
<1>4. QED
  BY <1>1, <1>2, <1>3, PTL DEF DirSpec
-----------------------------------------------------------------------------
(* The two fuzzers.                                                        *)

(* The reader touches nothing of the other fuzzer.                         *)
LEMMA NextIsDirStep ==
  ASSUME [Next]_vars PROVE [DirNext]_dirVars
<1>1. CASE OtherStep
  BY <1>1 DEF OtherStep
<1>2. CASE Reader
  BY <1>2 DEF Reader, OpenDir, Readdir, LookAt, CloseDir, StopScan, StartAnew, DeleteQueue
<1>3. CASE UNCHANGED vars
  BY <1>3 DEF vars
<1>4. QED
  BY <1>1, <1>2, <1>3 DEF Next

(* Beside a reader the other fuzzer does what OutputDir says, so all its   *)
(* theorems hold there.                                                    *)
THEOREM SyncImplementsDir == Spec => DirSpec
<1>1. SyncInit => Init
  BY DEF SyncInit
<1>2. [Next]_vars => [DirNext]_dirVars
  BY NextIsDirStep
<1>3. QED
  BY <1>1, <1>2, PTL DEF Spec, DirSpec

(* The reader has no number yet.                                           *)
LEMMA SyncInitially == SyncInit => SyncInv
<1> SUFFICES ASSUME SyncInit PROVE SyncInv
  OBVIOUS
<1>1. OutputDirTypeOK
  BY DirInitially DEF SyncInit, DirInv
<1>2. SyncTypeOK
  <2>1. 0 \in 0..MAX_PATHS /\ 0 \in 0..MAX_STOPS
    BY OutputDirAssumption, SyncAssumption
  <2>2. /\ synced \in 0..MAX_PATHS /\ next_min_accept \in 0..MAX_PATHS /\ stops \in 0..MAX_STOPS
        /\ seen \in SUBSET Cases /\ {snapshot, returned, untouched, missed} \subseteq SUBSET Ids
    BY <2>1 DEF SyncInit
  <2>3. same_dir \in BOOLEAN /\ renumbered \in BOOLEAN /\ spc \in {"fuzzing", "scanning", "anew"}
    BY DEF SyncInit
  <2>4. QED
    BY <1>1, <2>2, <2>3 DEF SyncTypeOK
<1>3. SegmentInv /\ CopyInv /\ WriteInv
  BY DEF SyncInit, Init, SegmentInv, CopyInv, WriteInv
<1>4. ScanInv /\ (spc = "anew" => synced = 0)
  BY DEF SyncInit, ScanInv
<1>5. Passed = {}
  BY OutputDirAssumption DEF SyncInit, Passed, Ids
<1>6. SeenInv
  BY <1>5 DEF SeenInv, KeptEntries, KeptOnDisk
<1>7. QED
  BY <1>2, <1>3, <1>4, <1>6 DEF SyncInv

(* An entry that has its file: the file can be read.                       *)
LEMMA FileThere ==
  ASSUME DirInv, pc \in {"pivot", "pivot_done"} \cup Filled, NEW i \in Ids,
         NEW n \in 0..Len(entries), FileOf(i, n), i < n
  PROVE  /\ i + 1 \in 1..Len(entries) /\ i \in DOMAIN queue.files
         /\ queue.files[i] = entries[i + 1].case /\ i \in Usable(queue)
<1>1. i \in Nat /\ Len(entries) \in Nat /\ \A m \in 1..Len(entries) : entries[m].case \in Cases
  BY InUse
<1>2. i + 1 \in 1..Len(entries)
  BY <1>1
<1>3. i \in DOMAIN queue.files /\ queue.files[i] = entries[i + 1].case
  BY DEF FileOf
<1>4. queue.files[i] # Zero
  BY <1>1, <1>2, <1>3, OutputDirAssumption
<1>5. QED
  BY <1>2, <1>3, <1>4 DEF Usable

(* A directory that is used, or imported into, when it is killed.          *)
LEMMA UsedHasNoGaps ==
  ASSUME DirInv, pc \in {"pivot", "pivot_done"} \cup Filled, ~Trimming
  PROVE  Segment(queue)
<1>1. /\ DOMAIN queue.files \subseteq Ids /\ Ids \subseteq Nat
      /\ Len(entries) \in Nat /\ target \in 0..Len(entries) /\ pivoted \in Nat
      /\ Writing <=> target # 0
  BY InUse, DirParts
<1>d. ASSUME NEW n \in Nat, \A i \in Ids : FileOf(i, n) PROVE \A i \in DOMAIN queue.files : i <= n
  <2>1. SUFFICES ASSUME NEW i \in DOMAIN queue.files PROVE i <= n
    OBVIOUS
  <2>2. i \in Ids /\ i \in Nat
    BY <1>1
  <2>3. i < n
    BY <1>d, <2>2 DEF FileOf
  <2>4. QED
    BY <2>2, <2>3
<1> DEFINE All(l) == /\ \A i \in DOMAIN queue.files : i <= l
                     /\ \A j \in Ids : j < l => FileOf(j, Len(entries)) \/ FileOf(j, l)
<1>2. \E l \in 0..Len(entries) : All(l)
  <2>1. CASE pc = "pivot"
    <3>1. pivoted \in 0..Len(entries) /\ \A i \in Ids : FileOf(i, pivoted)
      BY <1>1, <2>1 DEF DirInv, PivotInv
    <3>2. \A i \in DOMAIN queue.files : i <= pivoted
      BY <1>1, <1>d, <3>1
    <3>3. QED
      BY <3>1, <3>2
  <2>2. CASE pc = "pivot_done"
    <3>1. pivoted + 1 \in 0..Len(entries) /\ \A i \in Ids : FileOf(i, pivoted + 1)
      <4>1. pivoted + 1 <= Len(entries) /\ \A i \in Ids : FileOf(i, pivoted + 1)
        BY <2>2 DEF DirInv, PivotInv
      <4>2. pivoted + 1 \in 0..Len(entries)
        BY <1>1, <4>1
      <4>3. QED
        BY <4>1, <4>2
    <3>2. \A i \in DOMAIN queue.files : i <= pivoted + 1
      BY <1>1, <1>d, <3>1
    <3>3. QED
      BY <3>1, <3>2
  <2>3. CASE pc \in Filled
    <3>1. \A i \in Ids : i = target - 1 \/ FileOf(i, Len(entries))
      BY <2>3 DEF DirInv, RunInv
    <3>2. CASE ~Writing
      <4>1. \A i \in Ids : i # target - 1
        BY <1>1, <3>2
      <4>2. \A i \in DOMAIN queue.files : i <= Len(entries)
        BY <1>1, <1>d, <3>1, <4>1
      <4>3. Len(entries) \in 0..Len(entries)
        BY <1>1
      <4>4. QED
        BY <3>1, <4>1, <4>2, <4>3
    <3>3. CASE Writing
      <4>1. target = Len(entries) /\ target # 0
        BY <3>3 DEF DirInv, PlaceInv, Trimming, Writing
      <4> DEFINE l == Len(entries) - 1
      <4>2. l \in 0..Len(entries) /\ target - 1 = l
        BY <1>1, <4>1
      <4>3. ASSUME NEW i \in DOMAIN queue.files PROVE i <= l
        <5>1. i \in Nat
          BY <1>1
        <5>2. i = l \/ i < Len(entries)
          BY <1>1, <3>1, <4>2 DEF FileOf
        <5>3. QED
          BY <1>1, <5>1, <5>2
      <4>4. ASSUME NEW j \in Ids, j < l PROVE FileOf(j, Len(entries))
        <5>1. j # l
          BY <1>1, <4>4
        <5>2. QED
          BY <3>1, <4>2, <5>1
      <4> HIDE DEF l
      <4>5. QED
        BY <4>2, <4>3, <4>4
    <3>4. QED
      BY <3>2, <3>3
  <2>4. QED
    BY <2>1, <2>2, <2>3
<1>p. PICK l \in 0..Len(entries) : All(l)
  BY <1>2
<1>3. ASSUME NEW i \in DOMAIN queue.files, NEW j \in Ids, j < i PROVE j \in Usable(queue)
  <2>1. j < l /\ j < Len(entries)
    <3>1. i \in Nat /\ j \in Nat /\ i <= l
      BY <1>1, <1>p
    <3>2. QED
      BY <1>1, <1>3, <3>1
  <2>2. FileOf(j, Len(entries)) \/ FileOf(j, l)
    BY <1>p, <2>1
  <2>3. Len(entries) \in 0..Len(entries)
    BY <1>1
  <2>4. QED
    BY <2>1, <2>2, <2>3, FileThere
<1>4. QED
  BY <1>3 DEF Segment

(* The ids in a directory without gaps, at every place where one is left.  *)
LEMMA NoGaps ==
  ASSUME Races = {}, DirInv, SegmentInv, DirNext
  PROVE  SegmentInv'
<1> SUFFICES ASSUME pc' \in Cleaning, queue' # NoDir, queue'.dot_state
             PROVE  Segment(queue)'
  BY DEF SegmentInv, Cleaning
<1>s. queue' = queue \/ queue'.files = queue.files => Usable(queue)' = Usable(queue)
  BY DEF Usable
<1>1. CASE pc \in Cleaning /\ ~CleanQueue
  <2>1. queue' \in {queue, NoDir}
    BY <1>1 DEF DirNext, SetUp, Pivot, Run, Start, CheckStats, RenameQueue, UnlinkStats, MakeDirs,
       ReadTestcases, PivotInput, PivotDone, PivotEnds, NukeResumeDir, TruncateStats, FillStats,
       AddToQueue, TrimCase, CreateCase, WriteCase, MarkAsDetDone, Abort, Unused, Cleaning,
       disk, dirVars
  <2>2. queue' = queue
    BY <2>1
  <2>3. Segment(queue)
    BY <1>1, <2>2 DEF SegmentInv
  <2>4. QED
    BY <1>s, <2>2, <2>3 DEF Segment
<1>2. CASE pc \in Cleaning /\ CleanQueue
  <2>1. queue' = queue \/ (queue # NoDir /\ queue' \in Shrink(queue))
    BY <1>2 DEF CleanQueue
  <2>2. CASE queue' = queue
    <3>1. Segment(queue)
      BY <1>2, <2>2 DEF SegmentInv
    <3>2. QED
      BY <1>s, <2>2, <3>1 DEF Segment
  <2>3. CASE queue # NoDir /\ queue' \in Shrink(queue)
    <3>1. queue \in Dirs
      BY <2>3 DEF DirInv, OutputDirTypeOK
    <3>2. queue'.files = queue.files /\ queue.dot_state
      BY <2>3, <3>1, Shrunk
    <3>3. Segment(queue)
      BY <1>2, <2>3, <3>2 DEF SegmentInv
    <3>4. QED
      BY <1>s, <3>2, <3>3 DEF Segment
  <2>4. QED
    BY <2>1, <2>2, <2>3
<1>3. CASE pc \in Empty
  <2>1. queue' \in {NoDir, EmptyDir, [EmptyDir EXCEPT !.dot_state = TRUE]}
    BY <1>3 DEF DirInv, PlaceInv, DirNext, SetUp, Pivot, Run, Start, CheckStats, RenameQueue,
       CleanQueue,
       UnlinkStats, MakeDirs, ReadTestcases, PivotInput, PivotDone, PivotEnds, NukeResumeDir,
       TruncateStats,
       FillStats, AddToQueue, TrimCase, CreateCase, WriteCase, MarkAsDetDone, Abort, Unused,
       Cleaning, Empty,
       disk, dirVars, Proceed, Goto
  <2>2. DOMAIN queue'.files = {}
    <3>1. CASE queue' = EmptyDir
      BY <3>1, EmptyDirs, NoFiles
    <3>2. CASE queue' = [EmptyDir EXCEPT !.dot_state = TRUE]
      <4>1. queue'.files = EmptyDir.files
        BY <3>2, EmptyDirs, StateMade
      <4>2. QED
        BY <4>1, EmptyDirs, NoFiles
    <3>3. QED
      BY <2>1, <3>1, <3>2
  <2>3. QED
    BY <2>2 DEF Segment
<1>4. CASE pc \in {"pivot", "pivot_done"} \cup Filled
  <2>1. queue' = queue /\ Abort
    BY <1>4, TargetKnown DEF DirNext, SetUp, Pivot, Run, Start, CheckStats, RenameQueue,
       CleanQueue,
       UnlinkStats, MakeDirs, ReadTestcases, PivotInput, PivotDone, PivotEnds, NukeResumeDir,
       TruncateStats,
       FillStats, AddToQueue, TrimCase, CreateCase, WriteCase, MarkAsDetDone, Abort, Unused,
       Cleaning,
       Filled, Running, disk, dirVars, Proceed, Goto, Writing
  <2>2. ~Trimming
    BY <2>1 DEF Abort
  <2>3. Segment(queue)
    BY <1>4, <2>2, UsedHasNoGaps
  <2>4. QED
    BY <1>s, <2>1, <2>3 DEF Segment
<1>5. QED
  BY <1>1, <1>2, <1>3, <1>4 DEF DirInv, OutputDirTypeOK, Places, Cleaning, Empty, Filled, Running

(* Ids without a gap keep their meaning when they are imported.            *)
LEMMA IdsKept ==
  ASSUME NEW d \in Dirs, Segment(d), NEW i \in Usable(d)
  PROVE  i + 1 \in 1..Len(ReadCases(d)) /\ ReadCases(d)[i + 1].case = d.files[i]
<1> DEFINE U == Usable(d)
<1>1. U \in SUBSET Ids /\ i \in U /\ i \in Nat /\ i \in DOMAIN d.files
  BY DirParts, IdsAreFinite DEF Usable
<1>2. \A j \in Ids : j < i => j \in U
  BY <1>1 DEF Segment
<1>3. Len(ReadCases(d)) = Cardinality(U)
  BY CasesRead
<1> DEFINE n == i + 1
<1>4. n \in 1..Cardinality(U) /\ Nth(n, U) = i
  <2> HIDE DEF U
  <2>1. QED
    BY <1>1, <1>2, FirstIdsComeFirst
<1>5. \A m \in 1..Len(ReadCases(d)) : ReadCases(d)[m] = CaseOf(d, Nth(m, U))
  BY CasesRead
<1> HIDE DEF n, U
<1>6. n \in 1..Len(ReadCases(d)) /\ ReadCases(d)[n] = CaseOf(d, i)
  BY <1>3, <1>4, <1>5
<1>7. ReadCases(d)[n].case = d.files[i]
  BY <1>6 DEF CaseOf
<1>8. QED
  BY <1>6, <1>7 DEF n

(* Nothing is imported from a directory that is empty or not there.        *)
LEMMA NothingImported ==
  ASSUME DirInv, resume = NoDir \/ IsEmpty(resume)
  PROVE  Len(Imported) = 0 /\ \A i \in Ids : i + 1 \notin 1..Len(Imported)
<1>1. Len(Imported) = 0
  <2>1. CASE resume = NoDir
    BY <2>1, EmptySeq DEF Imported
  <2>2. CASE resume # NoDir /\ IsEmpty(resume)
    <3>1. resume \in Dirs /\ DOMAIN resume.files = {}
      BY <2>2, NoFiles DEF IsEmpty, DirInv, OutputDirTypeOK
    <3>2. Usable(resume) = {}
      BY <3>1 DEF Usable
    <3>3. Cardinality(Usable(resume)) = 0
      BY <3>2, FS_EmptySet
    <3>4. QED
      BY <2>2, <3>1, <3>3, CasesRead DEF Imported
  <2>3. QED
    BY <2>1, <2>2
<1>2. QED
  BY <1>1, IdsAreFinite

(* Deleting leaves the files that are still there as they were.            *)
LEMMA ShrunkFiles ==
  ASSUME NEW d \in Dirs, NEW e \in Shrink(d), e # NoDir
  PROVE  /\ DOMAIN e.files \subseteq DOMAIN d.files
         /\ \A i \in DOMAIN e.files : e.files[i] = d.files[i]
<1>1. CASE d.done # {}
  <2>1. PICK i \in d.done : e = [d EXCEPT !.done = d.done \ {i}]
    BY <1>1 DEF Shrink
  <2>2. d.done \ {i} \in SUBSET Ids
    BY DirParts
  <2>3. e.files = d.files
    BY <2>1, <2>2, Flagging
  <2>4. QED
    BY <2>3
<1>2. CASE d.done = {} /\ d.dot_state
  <2>1. e = [files |-> d.files, dot_state |-> FALSE, done |-> d.done]
    BY <1>2, DirParts DEF Shrink
  <2>2. e.files = d.files
    BY <2>1
  <2>3. QED
    BY <2>2
<1>3. CASE d.done = {} /\ ~d.dot_state /\ d.files # <<>>
  <2>1. PICK i \in DOMAIN d.files : e = Unlink(d, i)
    BY <1>3 DEF Shrink
  <2>2. /\ DOMAIN e.files = DOMAIN d.files \ {i}
        /\ \A j \in DOMAIN d.files : j # i => e.files[j] = d.files[j]
    BY <2>1, RemovedFile
  <2>3. QED
    BY <2>2
<1>4. CASE d.done = {} /\ ~d.dot_state /\ d.files = <<>>
  BY <1>4 DEF Shrink
<1>5. QED
  BY <1>1, <1>2, <1>3, <1>4, DirParts

(* What the places of the running fuzzer say of _resume and of kills.      *)
LEMMA KillsAtPlaces ==
  ASSUME Races = {}, DirInv, ResumeInv, Abort
  PROVE  /\ pc # "nuke" /\ ~Trimming /\ pc' = "off" /\ UNCHANGED <<queue, resume, in_place_resume>>
         /\ pc \in Filled => pc \in Running /\ resume = NoDir /\ queue # NoDir
<1>1. pc # "nuke" /\ ~Trimming /\ pc' = "off" /\ UNCHANGED <<queue, resume, in_place_resume>>
  BY DEF Abort, disk
<1>2. pc \in Filled => pc \in Running /\ queue # NoDir
  BY <1>1 DEF Filled, DirInv, PlaceInv
<1>3. QED
  BY <1>1, <1>2 DEF ResumeInv

(* A step of the running fuzzer leaves it running.                         *)
LEMMA RunGoesOnRunning ==
  ASSUME DirInv, Run PROVE pc \in Running /\ pc' \in Running
<1>1. CASE CreateCase
  <2>1. NewId \notin DOMAIN queue.files
    BY <1>1, TargetKnown DEF CreateCase, Writing
  <2>2. QED
    BY <1>1, <2>1 DEF CreateCase, Proceed, Goto, Running
<1>2. CASE ~CreateCase
  BY <1>2 DEF Run, TruncateStats, FillStats, AddToQueue, TrimCase, WriteCase, MarkAsDetDone,
     Proceed, Goto, Running
<1>3. QED
  BY <1>1, <1>2

-----------------------------------------------------------------------------
(* The other fuzzer: what stays as it is.                                  *)

(* The steps of a start and of an import, by what they do to the two       *)
(* directories.                                                            *)
LEMMA SetUpSteps ==
  ASSUME DirInv, pc \notin Filled, DirNext
  PROVE  \/ UNCHANGED <<queue, resume>>
         \/ /\ RenameQueue /\ pc = "rename" /\ pc' = "clean" /\ CanRename(queue, resume)
            /\ queue' = NoDir /\ resume' = queue
         \/ /\ CleanQueue /\ pc = "clean" /\ pc' = "clean" /\ UNCHANGED <<resume, in_place_resume>>
            /\ queue # NoDir /\ queue' \in Shrink(queue)
         \/ pc = "mkdir" /\ queue = NoDir /\ queue' = EmptyDir /\ UNCHANGED resume
         \/ /\ pc = "mkdir_state" /\ queue = EmptyDir /\ UNCHANGED resume
            /\ queue' = [EmptyDir EXCEPT !.dot_state = TRUE]
         \/ /\ pc = "pivot" /\ pc' = "pivot_done" /\ PivotInput /\ pivoted < Len(entries)
            /\ queue' = Add(queue, pivoted, entries[pivoted + 1].case)
            /\ UNCHANGED <<resume, in_place_resume, entries>>
         \/ /\ pc = "pivot_done" /\ pc' = "pivot" /\ queue # NoDir /\ UNCHANGED resume
            /\ queue' # NoDir /\ queue'.files = queue.files
<1>1. CASE Start \/ CheckStats \/ UnlinkStats \/ ReadTestcases \/ PivotEnds \/ Abort \/ Unused
  BY <1>1 DEF Start, CheckStats, UnlinkStats, ReadTestcases, PivotEnds, Abort, Unused, disk, dirVars
<1>2. CASE RenameQueue
  BY <1>2 DEF RenameQueue, Proceed, Goto
<1>3. CASE CleanQueue
  BY <1>3 DEF CleanQueue, Proceed, Goto, process
<1>4. CASE MakeDirs
  BY <1>4 DEF MakeDirs, DirInv, PlaceInv
<1>5. CASE PivotInput
  BY <1>5 DEF PivotInput, Goto, process
<1>6. CASE PivotDone
  <2>1. queue # NoDir /\ queue \in Dirs
    BY <1>6, InUse DEF PivotDone
  <2>2. queue.done \cup {pivoted} \in SUBSET Ids
    <3>1. pc = "pivot_done" => pivoted + 1 <= Len(entries)
      BY DEF DirInv, PivotInv
    <3>2. pc = "pivot_done" /\ pivoted \in Nat /\ Len(entries) <= MAX_PATHS /\ Len(entries) \in Nat
          /\ MAX_PATHS \in Nat /\ \A i \in Nat : i \in Ids <=> i < MAX_PATHS
      BY <1>6, InUse DEF PivotDone
    <3>3. pivoted \in Ids
      BY <3>1, <3>2
    <3>4. QED
      BY <2>1, <3>3, DirParts
  <2>3. LET d == [queue EXCEPT !.done = queue.done \cup {pivoted}]
        IN  d # NoDir /\ d.files = queue.files
    BY <2>1, <2>2, Flagging
  <2>4. queue' \in {queue, [queue EXCEPT !.done = queue.done \cup {pivoted}]}
    BY <1>6 DEF PivotDone
  <2>5. QED
    BY <1>6, <2>1, <2>3, <2>4 DEF PivotDone, Goto, disk
<1>7. CASE NukeResumeDir \/ Run
  <2>1. pc \in Filled
    BY <1>7 DEF NukeResumeDir, Run, TruncateStats, FillStats, AddToQueue, TrimCase, CreateCase,
       WriteCase, MarkAsDetDone, Filled, Running
  <2>2. QED
    BY <2>1
<1>8. QED
  BY <1>1, <1>2, <1>3, <1>4, <1>5, <1>6, <1>7 DEF DirNext, SetUp, Pivot

(* The link that is made next is not there yet.                            *)
LEMMA LinkIsNew ==
  ASSUME DirInv, pc = "pivot", pivoted < Len(entries)
  PROVE  /\ pivoted \in Ids /\ pivoted \notin DOMAIN queue.files /\ queue \in Dirs
         /\ pivoted + 1 \in 1..Len(entries) /\ entries[pivoted + 1].case \in Cases
<1>1. /\ pivoted \in Nat /\ Len(entries) \in Nat /\ Len(entries) <= MAX_PATHS /\ MAX_PATHS \in Nat
      /\ \A i \in Nat : i \in Ids <=> i < MAX_PATHS
      /\ \A m \in 1..Len(entries) : entries[m].case \in Cases
      /\ queue \in Dirs
  BY InUse
<1>2. pivoted \in Ids /\ pivoted + 1 \in 1..Len(entries)
  BY <1>1
<1>3. FileOf(pivoted, pivoted)
  BY <1>2 DEF DirInv, PivotInv
<1>4. QED
  BY <1>1, <1>2, <1>3 DEF FileOf

(* A case that is in its place stays as it is until it is deleted.         *)
LEMMA ContentsStay ==
  ASSUME DirInv, WriteInv, DirNext, queue # NoDir, queue' # NoDir,
         NEW i \in DOMAIN queue.files, i \in DOMAIN queue'.files, queue.files[i] \in Cases
  PROVE  queue'.files[i] = queue.files[i]
<1>1. queue \in Dirs
  BY DEF DirInv, OutputDirTypeOK
<1>2. CASE pc \notin Filled
  <2>1. CASE UNCHANGED queue
    BY <2>1
  <2>2. CASE queue' \in Shrink(queue)
    BY <1>1, <2>2, ShrunkFiles
  <2>3. CASE queue = EmptyDir
    BY <2>3, EmptyDirs, NoFiles
  <2>4. CASE pc = "pivot" /\ pivoted < Len(entries) /\ queue' = Add(queue, pivoted, entries[pivoted + 1].case)
    BY <1>1, <2>4, LinkIsNew, AddedFile
  <2>5. CASE queue'.files = queue.files
    BY <2>5
  <2>6. QED
    BY <1>2, <2>1, <2>2, <2>3, <2>4, <2>5, SetUpSteps
<1>3. CASE pc \in Filled
  <2>1. CASE TrimCase
    <3>1. queue' = queue \/ \E n : queue' = Unlink(queue, n)
      BY <2>1 DEF TrimCase
    <3>2. QED
      BY <1>1, <3>1, RemovedFile
  <2>2. CASE CreateCase
    <3>1. /\ NewId \in Ids /\ NewId \notin DOMAIN queue.files
          /\ queue' = Add(queue, NewId, Zero)
      BY <2>2, TargetKnown DEF CreateCase, Writing
    <3>2. QED
      BY <1>1, <3>1, AddedFile
  <2>3. CASE WriteCase
    <3>1. /\ NewId = target - 1 /\ NewId \in Ids /\ entries[target] \in QueueEntry
          /\ queue' = Add(queue, NewId, entries[target].case) /\ pc = "write"
      BY <2>3, TargetKnown DEF WriteCase, Writing
    <3>2. entries[target].case \in Cases
      BY <3>1 DEF QueueEntry
    <3>3. queue.files[NewId] = Zero
      BY <3>1 DEF WriteInv
    <3>4. i # NewId
      BY <3>3, OutputDirAssumption
    <3>5. QED
      BY <1>1, <3>1, <3>2, <3>4, AddedFile
  <2>4. CASE MarkAsDetDone
    <3>1. PICK n \in 1..Len(entries) : queue' = [queue EXCEPT !.done = queue.done \cup {n - 1}]
      BY <2>4 DEF MarkAsDetDone, IdOf
    <3>2. queue.done \cup {n - 1} \in SUBSET Ids
      BY <1>1, <1>3, DirParts, InUse
    <3>3. QED
      BY <1>1, <3>1, <3>2, Flagging
  <2>5. CASE ~(TrimCase \/ CreateCase \/ WriteCase \/ MarkAsDetDone)
    <3>1. queue' = queue
      BY <1>3, <2>5 DEF DirNext, SetUp, Pivot, Run, Start, CheckStats, RenameQueue, CleanQueue,
         UnlinkStats, MakeDirs, ReadTestcases, PivotInput, PivotDone, PivotEnds, NukeResumeDir,
         TruncateStats, FillStats, AddToQueue, Abort, Unused, Filled, Running, disk, dirVars
    <3>2. QED
      BY <3>1
  <2>6. QED
    BY <2>1, <2>2, <2>3, <2>4, <2>5
<1>4. QED
  BY <1>2, <1>3

(* Only the file just created is empty.                                    *)
LEMMA WriteStays ==
  ASSUME DirInv, WriteInv, DirNext PROVE WriteInv'
<1> SUFFICES ASSUME pc' = "write" PROVE queue'.files[target' - 1] = Zero
  BY DEF WriteInv
<1>1. CreateCase /\ pc = "create"
  BY DEF DirNext, SetUp, Pivot, Run, Start, CheckStats, RenameQueue, CleanQueue,
     UnlinkStats, MakeDirs, ReadTestcases, PivotInput, PivotDone, PivotEnds, NukeResumeDir,
     TruncateStats, FillStats, AddToQueue, TrimCase, CreateCase, WriteCase, MarkAsDetDone,
     Abort, Unused, Proceed, Goto, dirVars
<1>2. /\ NewId = target - 1 /\ NewId \in Ids /\ NewId \notin DOMAIN queue.files /\ queue \in Dirs
      /\ queue' = Add(queue, NewId, Zero) /\ target' = target
  BY <1>1, TargetKnown DEF CreateCase, Writing, Proceed, process
<1>3. QED
  BY <1>2, AddedFile

(* A queue/ that is not moved stays a part of what is imported.            *)
LEMMA CopyStays ==
  ASSUME Races = {}, DirInv, ResumeInv, CopyInv, DirNext
  PROVE  CopyInv'
<1> DEFINE Blocked == resume # NoDir /\ ~IsEmpty(resume)
           Part == \A i \in DOMAIN queue.files :
                     i + 1 \in 1..Len(Imported) /\ queue.files[i] = Imported[i + 1].case
<1>1. /\ CanRename(queue, resume) <=> queue # NoDir /\ ~Blocked
      /\ CanRename(queue, resume)' <=> queue' # NoDir /\ ~Blocked'
  BY DEF CanRename
<1>2. UNCHANGED resume => Imported' = Imported /\ Blocked' = Blocked
  BY DEF Imported, IsEmpty
<1>3. CASE pc \notin Filled
  <2>a. queue # NoDir /\ Blocked => Part
    BY <1>1, <1>3 DEF CopyInv
  <2>b. pc = "clean" /\ in_place_resume => queue = NoDir \/ Blocked
    BY <1>1 DEF CopyInv
  <2>c. pc' = "clean" /\ in_place_resume' =>
          RenameQueue \/ (CleanQueue /\ pc = "clean" /\ in_place_resume)
    BY DEF DirNext, SetUp, Pivot, Run, Start, CheckStats, RenameQueue, CleanQueue,
     UnlinkStats, MakeDirs, ReadTestcases, PivotInput, PivotDone, PivotEnds, NukeResumeDir,
     TruncateStats, FillStats, AddToQueue, TrimCase, CreateCase, WriteCase, MarkAsDetDone,
     Abort, Unused, Proceed, Goto, dirVars, process
  <2> HIDE DEF Blocked, Part
  <2>1. CASE UNCHANGED <<queue, resume>>
    <3>1. Part' = Part
      BY <1>2, <2>1 DEF Part
    <3>2. pc' = "clean" /\ in_place_resume' => queue' = NoDir \/ Blocked'
      <4>1. RenameQueue => queue' = NoDir \/ ~CanRename(queue, resume)
        BY DEF RenameQueue
      <4>2. QED
        BY <1>1, <1>2, <2>1, <2>b, <2>c, <4>1
    <3>3. QED
      BY <1>1, <1>2, <2>1, <2>a, <3>1, <3>2 DEF CopyInv, Part
  <2>2. CASE queue' = NoDir
    BY <1>1, <2>2 DEF CopyInv
  <2>3. CASE /\ pc = "clean" /\ pc' = "clean" /\ UNCHANGED <<resume, in_place_resume>>
             /\ queue # NoDir /\ queue' \in Shrink(queue) /\ queue' # NoDir
    <3>1. queue \in Dirs
      BY <2>3 DEF DirInv, OutputDirTypeOK
    <3>2. /\ DOMAIN queue'.files \subseteq DOMAIN queue.files
          /\ \A i \in DOMAIN queue'.files : queue'.files[i] = queue.files[i]
      BY <2>3, <3>1, ShrunkFiles
    <3>3. Part => Part'
      BY <1>2, <2>3, <3>2 DEF Part
    <3>4. pc' = "clean" /\ in_place_resume' => queue' = NoDir \/ Blocked'
      BY <1>2, <2>3, <2>b
    <3>5. QED
      BY <1>1, <1>2, <2>3, <2>a, <3>3, <3>4 DEF CopyInv, Part
  <2>4. CASE pc \in {"mkdir", "mkdir_state"} /\ queue' \in {EmptyDir, [EmptyDir EXCEPT !.dot_state = TRUE]}
    <3>1. DOMAIN queue'.files = {}
      BY <2>4, EmptyDirs, StateMade, NoFiles
    <3>2. pc' # "clean" \/ ~in_place_resume'
      BY <2>4, <2>c DEF RenameQueue
    <3>3. QED
      BY <3>1, <3>2 DEF CopyInv
  <2>5. CASE /\ pc = "pivot" /\ pc' = "pivot_done" /\ pivoted < Len(entries)
             /\ queue' = Add(queue, pivoted, entries[pivoted + 1].case)
             /\ UNCHANGED resume
    <3>1. queue # NoDir
      BY <2>5 DEF DirInv, PlaceInv
    <3>2. SUFFICES ASSUME Blocked PROVE CopyInv'
      BY <1>1, <1>2, <2>5 DEF CopyInv
    <3>3. entries = Imported
      <4>1. in_place_resume
        BY <2>5, <3>2 DEF ResumeInv, Blocked
      <4>2. QED
        BY <2>5, <4>1 DEF ResumeInv, Imported
    <3>4. Part
      BY <2>a, <3>1, <3>2
    <3>5. /\ DOMAIN queue'.files = DOMAIN queue.files \cup {pivoted}
          /\ queue'.files[pivoted] = entries[pivoted + 1].case
          /\ \A i \in DOMAIN queue.files : i # pivoted => queue'.files[i] = queue.files[i]
          /\ pivoted + 1 \in 1..Len(entries)
      BY <2>5, LinkIsNew, AddedFile
    <3>6. Part'
      BY <1>2, <2>5, <3>3, <3>4, <3>5 DEF Part
    <3>7. QED
      BY <2>5, <3>6 DEF CopyInv, Part
  <2>6. CASE /\ pc = "pivot_done" /\ pc' = "pivot" /\ queue # NoDir /\ UNCHANGED resume
             /\ queue' # NoDir /\ queue'.files = queue.files
    <3>1. Part' = Part
      BY <1>2, <2>6 DEF Part
    <3>2. QED
      BY <1>1, <1>2, <2>6, <2>a, <3>1 DEF CopyInv, Part
  <2>7. QED
    BY <1>3, <2>1, <2>2, <2>3, <2>4, <2>5, <2>6, SetUpSteps
<1>4. CASE pc \in Filled
  <2>1. CASE Abort
    <3>1. pc' = "off" /\ resume' = NoDir
      BY <1>4, <2>1, KillsAtPlaces
    <3>2. QED
      BY <1>1, <3>1 DEF CopyInv
  <2>2. CASE Run
    BY <2>2, RunGoesOnRunning DEF CopyInv, Filled, Running
  <2>3. CASE ~Abort /\ ~Run
    <3>1. pc' \in Filled
      BY <1>4, <2>3 DEF DirNext, SetUp, Pivot, Start, CheckStats, RenameQueue, CleanQueue,
         UnlinkStats, MakeDirs, ReadTestcases, PivotInput, PivotDone, PivotEnds, NukeResumeDir,
         Unused, Proceed, Goto, Filled, Running
    <3>2. QED
      BY <3>1 DEF CopyInv, Filled, Running
  <2>4. QED
    BY <2>1, <2>2, <2>3
<1>5. QED
  BY <1>3, <1>4

-----------------------------------------------------------------------------
(* The other fuzzer: what the ids mean.                                    *)

(* Nothing was passed before a number was kept.                            *)
LEMMA NothingPassed == synced = 0 => Passed = {}
BY OutputDirAssumption DEF Passed, Ids

(* The number kept at a start of the other fuzzer and while it imports.    *)
LEMMA SetUpKeepsSeen ==
  ASSUME Races = {}, DirInv, ResumeInv, SyncInv, OtherStep, pc \notin Filled, pc' \notin Filled,
         ~renumbered'
  PROVE  SeenInv'
<1> DEFINE Blocked == resume # NoDir /\ ~IsEmpty(resume)
           OfQueue == \A i \in Passed : i \in DOMAIN queue.files /\ queue.files[i] \in seen
           OfResume == \A i \in Passed : i + 1 \in 1..Len(Imported) /\ Imported[i + 1].case \in seen
<1>1. /\ ~renumbered /\ ~(synced > 0 /\ Renumbers) /\ DirNext
      /\ UNCHANGED <<synced, missed, seen>>
  BY DEF OtherStep
<1>2. Passed' = Passed /\ Passed \subseteq Ids
  BY <1>1 DEF Passed
<1>3. SegmentInv /\ CopyInv /\ seen \subseteq Cases /\ synced \in Nat
  BY OutputDirAssumption DEF SyncInv, SyncTypeOK
<1>4. /\ CanRename(queue, resume) <=> queue # NoDir /\ ~Blocked
      /\ CanRename(queue, resume)' <=> queue' # NoDir /\ ~Blocked'
  BY DEF CanRename
<1>5. UNCHANGED resume => Imported' = Imported /\ Blocked' = Blocked
  BY DEF Imported, IsEmpty
<1>6. IF queue # NoDir /\ ~Blocked THEN OfQueue ELSE OfResume
  BY <1>1, <1>4 DEF SyncInv, SeenInv, KeptOnDisk
<1>7. (IF queue' # NoDir /\ ~Blocked' THEN OfQueue' ELSE OfResume') => SeenInv'
  BY <1>4 DEF SeenInv, KeptOnDisk
<1>8. UNCHANGED resume => (OfResume => OfResume')
  BY <1>1, <1>2, <1>5
<1>9. Passed = {} => OfQueue' /\ OfResume'
  BY <1>2
<1> HIDE DEF Blocked
<1>10. CASE UNCHANGED <<queue, resume>>
  BY <1>1, <1>2, <1>5, <1>6, <1>7, <1>10
<1>11. CASE RenameQueue /\ pc = "rename" /\ CanRename(queue, resume) /\ queue' = NoDir /\ resume' = queue
  <2>1. OfQueue /\ queue # NoDir /\ queue \in Dirs
    BY <1>4, <1>6, <1>11 DEF DirInv, OutputDirTypeOK
  <2>2. OfResume'
    <3>1. CASE ~queue.dot_state
      <4>1. synced = 0
        BY <1>1, <1>3, <1>11, <3>1 DEF Renumbers
      <4>2. QED
        BY <1>9, <4>1, NothingPassed
    <3>2. CASE queue.dot_state
      <4>1. Segment(queue)
        BY <1>3, <1>11, <2>1, <3>2 DEF SegmentInv, Cleaning
      <4>2. Imported' = ReadCases(queue)
        BY <1>11, <2>1 DEF Imported
      <4>3. ASSUME NEW i \in Passed
            PROVE  i + 1 \in 1..Len(ReadCases(queue)) /\ ReadCases(queue)[i + 1].case \in seen
        <5>1. i \in DOMAIN queue.files /\ queue.files[i] \in seen
          BY <2>1
        <5>2. i \in Usable(queue)
          BY <1>3, <5>1, OutputDirAssumption DEF Usable
        <5>3. i + 1 \in 1..Len(ReadCases(queue)) /\ ReadCases(queue)[i + 1].case = queue.files[i]
          BY <2>1, <4>1, <5>2, IdsKept
        <5>4. QED
          BY <5>1, <5>3
      <4>4. QED
        BY <1>1, <1>2, <4>2, <4>3
    <3>3. QED
      BY <3>1, <3>2
  <2>3. QED
    BY <1>7, <1>11, <2>2
<1>12. CASE /\ CleanQueue /\ pc = "clean" /\ UNCHANGED <<resume, in_place_resume>>
            /\ queue # NoDir /\ queue' \in Shrink(queue)
  <2>1. CASE ~in_place_resume
    <3>1. synced = 0
      BY <1>1, <1>3, <1>12, <2>1 DEF Renumbers
    <3>2. QED
      BY <1>7, <1>9, <3>1, NothingPassed
  <2>2. CASE in_place_resume
    <3>1. Blocked
      BY <1>3, <1>4, <1>12, <2>2 DEF CopyInv
    <3>2. QED
      BY <1>5, <1>6, <1>7, <1>8, <1>12, <3>1
  <2>3. QED
    BY <2>1, <2>2
<1>13. CASE queue = NoDir /\ queue' = EmptyDir /\ UNCHANGED resume
  <2>1. CASE Blocked
    BY <1>5, <1>6, <1>7, <1>8, <1>13, <2>1
  <2>2. CASE ~Blocked
    <3>1. OfResume
      BY <1>6, <1>13
    <3>2. \A i \in Ids : i + 1 \notin 1..Len(Imported)
      BY <2>2, NothingImported DEF Blocked
    <3>3. Passed = {}
      BY <1>2, <3>1, <3>2
    <3>4. QED
      BY <1>7, <1>9, <3>3
  <2>3. QED
    BY <2>1, <2>2
<1>14. CASE queue = EmptyDir /\ queue' = [EmptyDir EXCEPT !.dot_state = TRUE] /\ UNCHANGED resume
  <2>1. queue # NoDir /\ queue' # NoDir /\ queue'.files = queue.files
    BY <1>14, EmptyDirs, StateMade
  <2>2. OfQueue => OfQueue'
    BY <1>1, <1>2, <2>1
  <2>3. QED
    BY <1>5, <1>6, <1>7, <1>8, <1>14, <2>1, <2>2
<1>15. CASE /\ pc = "pivot" /\ pivoted < Len(entries)
            /\ queue' = Add(queue, pivoted, entries[pivoted + 1].case)
            /\ UNCHANGED resume
  <2>1. queue # NoDir
    BY <1>15 DEF DirInv, PlaceInv
  <2>2. /\ pivoted \notin DOMAIN queue.files /\ queue' # NoDir
        /\ DOMAIN queue'.files = DOMAIN queue.files \cup {pivoted}
        /\ \A i \in DOMAIN queue.files : i # pivoted => queue'.files[i] = queue.files[i]
    BY <1>15, LinkIsNew, AddedFile
  <2>3. OfQueue => OfQueue'
    BY <1>1, <1>2, <2>2
  <2>4. QED
    BY <1>5, <1>6, <1>7, <1>8, <1>15, <2>1, <2>2, <2>3
<1>16. CASE queue # NoDir /\ UNCHANGED resume /\ queue' # NoDir /\ queue'.files = queue.files
  <2>1. OfQueue => OfQueue'
    BY <1>1, <1>2, <1>16
  <2>2. QED
    BY <1>5, <1>6, <1>7, <1>8, <1>16, <2>1
<1>17. QED
  BY <1>1, <1>10, <1>11, <1>12, <1>13, <1>14, <1>15, <1>16, SetUpSteps

(* What was imported are the entries, with the ids they had.               *)
LEMMA EndKeepsSeen ==
  ASSUME Races = {}, DirInv, ResumeInv, SyncInv, OtherStep, PivotEnds, ~renumbered'
  PROVE  SeenInv'
<1>1. ~renumbered /\ UNCHANGED <<synced, missed, seen>>
  BY DEF OtherStep
<1>2. Passed' = Passed /\ Passed \subseteq Ids
  BY <1>1 DEF Passed
<1>3. /\ pc = "pivot" /\ pc' \in {"nuke", "dry_run"} /\ UNCHANGED <<entries, target>>
      /\ pivoted = Len(entries)
  BY DEF PivotEnds, Proceed, Goto, process
<1>4. pc \notin Filled /\ pc' \in Filled /\ ~Writing'
  BY <1>3 DEF Filled, Running, Writing
<1>5. KeptOnDisk
  BY <1>1, <1>4 DEF SyncInv, SeenInv
<1>6. ASSUME NEW i \in Passed PROVE i + 1 \in 1..Len(entries) /\ entries[i + 1].case \in seen
  <2>1. CASE CanRename(queue, resume)
    <3>1. i \in Ids /\ i \in DOMAIN queue.files /\ queue.files[i] \in seen
      BY <1>2, <1>5, <2>1 DEF KeptOnDisk
    <3>2. FileOf(i, pivoted) /\ Len(entries) \in 0..Len(entries)
      BY <1>3, <3>1, InUse DEF DirInv, PivotInv
    <3>3. i < pivoted
      BY <3>1, <3>2 DEF FileOf
    <3>4. i + 1 \in 1..Len(entries) /\ queue.files[i] = entries[i + 1].case
      BY <1>3, <3>1, <3>2, <3>3, FileThere
    <3>5. QED
      BY <3>1, <3>4
  <2>2. CASE ~CanRename(queue, resume)
    <3>1. resume # NoDir
      BY <1>3, <2>2 DEF CanRename, DirInv, PlaceInv
    <3>2. in_place_resume
      BY <1>3, <3>1 DEF ResumeInv
    <3>3. entries = Imported
      BY <1>3, <3>1, <3>2 DEF ResumeInv, Imported
    <3>4. QED
      BY <1>5, <2>2, <3>3 DEF KeptOnDisk
  <2>3. QED
    BY <2>1, <2>2
<1>7. KeptEntries'
  BY <1>1, <1>2, <1>3, <1>4, <1>6 DEF KeptEntries
<1>8. QED
  BY <1>4, <1>7 DEF SeenInv

(* The run: a case that is created has an id that no scan has passed.      *)
LEMMA RunKeepsSeen ==
  ASSUME Races = {}, DirInv, ResumeInv, SyncInv, OtherStep, Run, ~renumbered'
  PROVE  SeenInv'
<1>1. ~renumbered /\ UNCHANGED <<synced, missed, seen>>
  BY DEF OtherStep
<1>2. Passed' = Passed /\ Passed \subseteq Ids
  BY <1>1 DEF Passed
<1>3. pc \in Filled /\ pc' \in Filled
  BY RunGoesOnRunning DEF Filled
<1>4. KeptEntries
  BY <1>1, <1>3 DEF SyncInv, SeenInv
<1>5. entries \in Seq(QueueEntry) /\ Len(entries) \in Nat
  BY <1>3, InUse
<1>6. /\ Len(entries') \in Nat /\ Len(entries) <= Len(entries')
      /\ \A n \in 1..Len(entries) : entries'[n].case = entries[n].case
  <2>1. CASE AddToQueue
    <3>1. PICK c \in Cases :
            entries' = Append(entries, [case |-> c, det |-> FALSE, trim_done |-> FALSE])
      BY <2>1 DEF AddToQueue
    <3>2. /\ Len(entries') = Len(entries) + 1
          /\ \A n \in 1..Len(entries) : entries'[n] = entries[n]
      BY <1>5, <3>1
    <3>3. QED
      BY <1>5, <3>2
  <2>2. CASE TrimCase
    <3>1. PICK n \in 1..Len(entries) : entries' = [entries EXCEPT ![n].trim_done = TRUE]
      BY <2>2 DEF TrimCase
    <3>2. QED
      BY <1>5, <3>1, TrimMarked
  <2>3. CASE MarkAsDetDone
    <3>1. PICK n \in 1..Len(entries) : entries' = [entries EXCEPT ![n].det = TRUE]
      BY <2>3 DEF MarkAsDetDone
    <3>2. QED
      BY <1>5, <3>1, DetMarked
  <2>4. CASE TruncateStats \/ FillStats \/ CreateCase \/ WriteCase
    <3>1. entries' = entries
      BY <2>4 DEF TruncateStats, FillStats, CreateCase, WriteCase, Proceed, process
    <3>2. QED
      BY <1>5, <3>1
  <2>5. QED
    BY <2>1, <2>2, <2>3, <2>4 DEF Run
<1>7. ASSUME Writing', ~Trimming', NEW i \in Passed PROVE i + 1 # target'
  <2>0. i + 1 \in 1..Len(entries)
    BY <1>4 DEF KeptEntries
  <2>1. CASE AddToQueue
    <3>1. target' = Len(entries')
      BY <2>1 DEF AddToQueue
    <3>2. Len(entries') = Len(entries) + 1
      BY <1>5, <2>1 DEF AddToQueue
    <3>3. QED
      BY <1>5, <2>0, <3>1, <3>2
  <2>2. CASE TrimCase
    <3>1. PICK n \in 1..Len(entries) :
            /\ entries' = [entries EXCEPT ![n].trim_done = TRUE]
            /\ (pc' = pc \/ (target' = n /\ pc' = "create"))
      BY <2>2 DEF TrimCase, Goto
    <3>2. entries'[n].trim_done /\ pc = "run"
      BY <1>5, <2>2, <3>1, TrimMarked DEF TrimCase
    <3>3. QED
      BY <1>7, <3>1, <3>2 DEF Writing, Trimming
  <2>3. CASE CreateCase
    <3>1. pc = "create" /\ (pc' = "off" \/ (pc' = "write" /\ target' = target /\ entries' = entries))
      BY <2>3 DEF CreateCase, Proceed, Goto, process
    <3>2. Writing /\ ~Trimming /\ target' = target
      BY <1>7, <3>1 DEF Writing, Trimming
    <3>3. QED
      BY <1>4, <3>2 DEF KeptEntries
  <2>4. CASE TruncateStats \/ FillStats \/ WriteCase \/ MarkAsDetDone
    <3>1. pc' \in {"run", "fill_stats"}
      BY <2>4 DEF TruncateStats, FillStats, WriteCase, MarkAsDetDone, Proceed, Goto
    <3>2. QED
      BY <1>7, <3>1 DEF Writing
  <2>5. QED
    BY <2>1, <2>2, <2>3, <2>4 DEF Run
<1>8. ASSUME NEW i \in Passed
      PROVE  i + 1 \in 1..Len(entries') /\ entries'[i + 1].case \in seen
  <2>1. i + 1 \in 1..Len(entries) /\ entries[i + 1].case \in seen
    BY <1>4 DEF KeptEntries
  <2>2. QED
    BY <1>5, <1>6, <2>1
<1>9. KeptEntries'
  BY <1>1, <1>2, <1>7, <1>8 DEF KeptEntries
<1>10. QED
  BY <1>3, <1>9 DEF SeenInv

(* A kill: the directory the next resume reads still has the cases passed. *)
LEMMA AbortKeepsSeen ==
  ASSUME Races = {}, DirInv, ResumeInv, SyncInv, OtherStep, Abort, pc \in Filled, ~renumbered'
  PROVE  SeenInv'
<1>1. ~renumbered /\ UNCHANGED <<synced, missed, seen>>
  BY DEF OtherStep
<1>2. Passed' = Passed /\ Passed \subseteq Ids
  BY <1>1 DEF Passed
<1>3. /\ ~Trimming /\ pc' = "off" /\ UNCHANGED <<queue, resume>>
      /\ resume = NoDir /\ queue # NoDir
  BY KillsAtPlaces
<1>4. KeptEntries
  BY <1>1 DEF SyncInv, SeenInv
<1>5. ASSUME NEW i \in Passed PROVE i \in DOMAIN queue.files /\ queue.files[i] \in seen
  <2>1. i \in Ids /\ i + 1 \in 1..Len(entries) /\ entries[i + 1].case \in seen
    BY <1>2, <1>4 DEF KeptEntries
  <2>2. /\ i \in Nat /\ Len(entries) \in Nat /\ target \in 0..Len(entries)
        /\ Writing <=> target # 0
    BY <2>1, InUse
  <2>3. i + 1 # target
    <3>1. CASE Writing
      BY <1>3, <1>4, <3>1 DEF KeptEntries
    <3>2. CASE ~Writing
      BY <2>2, <3>2
    <3>3. QED
      BY <3>1, <3>2
  <2>4. i # target - 1 /\ i < Len(entries) /\ Len(entries) \in 0..Len(entries)
    BY <2>1, <2>2, <2>3
  <2>5. FileOf(i, Len(entries))
    BY <2>1, <2>4 DEF DirInv, RunInv
  <2>6. QED
    BY <2>1, <2>4, <2>5, FileThere
<1>6. CanRename(queue, resume)'
  BY <1>3 DEF CanRename
<1>7. KeptOnDisk'
  BY <1>1, <1>2, <1>3, <1>5, <1>6 DEF KeptOnDisk
<1>8. QED
  BY <1>3, <1>7 DEF SeenInv, Filled, Running

(* A step of the other fuzzer.                                             *)
LEMMA OtherKeepsSync ==
  ASSUME Races = {}, DirInv, ResumeInv, SyncInv, OtherStep
  PROVE  SyncInv'
<1>1. /\ DirNext
      /\ same_dir' \in BOOLEAN /\ renumbered' \in BOOLEAN
      /\ same_dir' = (same_dir /\ queue' # NoDir)
      /\ untouched' = IF queue' = NoDir THEN {} ELSE untouched \cap DOMAIN queue'.files
      /\ UNCHANGED <<synced, seen, spc, next_min_accept, snapshot, returned, stops, missed>>
  BY DEF OtherStep, SyncInv, SyncTypeOK
<1>2. DirInv'
  BY <1>1, DirStepKeepsDir
<1>3. SyncTypeOK'
  <2>1. untouched' \in SUBSET Ids
    BY <1>1 DEF SyncInv, SyncTypeOK
  <2>2. QED
    BY <1>1, <1>2, <2>1 DEF SyncInv, SyncTypeOK, DirInv
<1>4. SegmentInv' /\ CopyInv' /\ WriteInv'
  BY <1>1, NoGaps, CopyStays, WriteStays DEF SyncInv
<1>5. ScanInv'
  <2>1. spc' # "scanning" => untouched' = {}
    BY <1>1 DEF SyncInv, ScanInv
  <2>2. untouched' # {} => same_dir' /\ queue' # NoDir /\ queue # NoDir
    BY <1>1 DEF SyncInv, ScanInv
  <2>3. ASSUME NEW i \in untouched'
        PROVE  /\ i \in snapshot' /\ i \in DOMAIN queue'.files /\ queue'.files[i] \in Cases
               /\ i \in returned' => i < synced' \/ queue'.files[i] \in seen'
    <3>1. i \in untouched /\ i \in DOMAIN queue'.files
      BY <1>1
    <3>2. /\ i \in snapshot /\ i \in DOMAIN queue.files /\ queue.files[i] \in Cases
          /\ i \in returned => i < synced \/ queue.files[i] \in seen
      BY <3>1 DEF SyncInv, ScanInv
    <3>3. queue'.files[i] = queue.files[i]
      BY <1>1, <2>2, <3>1, <3>2, ContentsStay DEF SyncInv
    <3>4. QED
      BY <1>1, <3>1, <3>2, <3>3
  <2>4. QED
    BY <2>1, <2>2, <2>3 DEF ScanInv
<1>6. SeenInv'
  <2> SUFFICES ASSUME ~renumbered' PROVE SeenInv'
    BY DEF SeenInv
  <2>1. CASE Run
    BY <2>1, RunKeepsSeen
  <2>2. CASE PivotEnds
    BY <2>2, EndKeepsSeen
  <2>3. CASE Abort /\ pc \in Filled
    BY <2>3, AbortKeepsSeen
  <2>4. CASE NukeResumeDir
    <3>1. /\ ~renumbered /\ pc = "nuke" /\ pc' \in {"nuke", "dry_run"}
          /\ UNCHANGED <<entries, target>>
      BY <2>4 DEF OtherStep, NukeResumeDir, Proceed, Goto, process
    <3>2. pc \in Filled /\ pc' \in Filled /\ ~Writing'
      BY <3>1 DEF Filled, Running, Writing
    <3>3. KeptEntries
      BY <3>1, <3>2 DEF SyncInv, SeenInv
    <3>4. KeptEntries'
      BY <1>1, <3>1, <3>2, <3>3 DEF KeptEntries, Passed
    <3>5. QED
      BY <3>2, <3>4 DEF SeenInv
  <2>5. CASE UNCHANGED dirVars
    <3>1. UNCHANGED <<queue, resume, pc, entries, target>>
      BY <2>5 DEF dirVars, disk, process
    <3>2. SeenInv /\ ~renumbered /\ UNCHANGED <<synced, seen, missed>>
      BY <1>1 DEF SyncInv, OtherStep
    <3>3. QED
      BY <3>1, <3>2 DEF SeenInv, KeptOnDisk, KeptEntries, Passed, Imported, CanRename, IsEmpty,
         Writing, Trimming
  <2>6. CASE /\ ~Run /\ ~PivotEnds /\ ~NukeResumeDir /\ ~(UNCHANGED dirVars)
             /\ ~(Abort /\ pc \in Filled)
    <3>1. pc \notin Filled /\ pc' \notin Filled
      BY <1>1, <2>6 DEF DirNext, SetUp, Pivot, Start, CheckStats, RenameQueue, CleanQueue,
         UnlinkStats, MakeDirs, ReadTestcases, PivotInput, PivotDone, Abort,
         Unused, Proceed, Goto, Filled, Running
    <3>2. QED
      BY <3>1, SetUpKeepsSeen
  <2>7. QED
    BY <2>1, <2>2, <2>3, <2>4, <2>5, <2>6
<1>7. (spc = "anew" => synced = 0)'
  BY <1>1 DEF SyncInv
<1>8. QED
  BY <1>3, <1>4, <1>5, <1>6, <1>7 DEF SyncInv

-----------------------------------------------------------------------------
(* The reader.                                                             *)

(* What the ids mean does not change while the reader runs cases.          *)
LEMMA NumberStays ==
  ASSUME SeenInv, UNCHANGED dirVars, UNCHANGED <<synced, missed, renumbered>>, seen \subseteq seen'
  PROVE  SeenInv'
<1>1. UNCHANGED <<queue, resume, pc, entries, target>>
  BY DEF dirVars, disk, process
<1>2. Passed' = Passed /\ Imported' = Imported
  BY <1>1 DEF Passed, Imported
<1>3. /\ CanRename(queue, resume)' = CanRename(queue, resume)
      /\ Writing' = Writing /\ Trimming' = Trimming
  BY <1>1 DEF CanRename, IsEmpty, Writing, Trimming
<1>4. KeptOnDisk => KeptOnDisk'
  BY <1>1, <1>2, <1>3 DEF KeptOnDisk
<1>5. KeptEntries => KeptEntries'
  BY <1>1, <1>2, <1>3 DEF KeptEntries
<1>6. QED
  BY <1>1, <1>4, <1>5 DEF SeenInv

(* A step of the reader leaves the directory as it is.                     *)
LEMMA DirUntouched ==
  ASSUME DirInv, SyncInv, UNCHANGED dirVars
  PROVE  OutputDirTypeOK' /\ SegmentInv' /\ CopyInv' /\ WriteInv' /\ queue' = queue
<1>1. UNCHANGED <<disk, pc, process, starts, promised>> /\ UNCHANGED <<queue, resume, pc, in_place_resume, target>>
  BY DEF dirVars, disk, process
<1>2. OutputDirTypeOK'
  BY <1>1 DEF DirInv, OutputDirTypeOK, disk, process
<1>3. SegmentInv'
  BY <1>1 DEF SyncInv, SegmentInv, Segment, Usable, Cleaning
<1>4. Imported' = Imported /\ CanRename(queue, resume)' = CanRename(queue, resume)
  BY <1>1 DEF Imported, CanRename, IsEmpty
<1>5. CopyInv'
  BY <1>1, <1>4 DEF SyncInv, CopyInv
<1>6. WriteInv'
  BY <1>1 DEF SyncInv, WriteInv
<1>7. QED
  BY <1>1, <1>2, <1>3, <1>5, <1>6

(* opendir: what is complete is still in its place.                        *)
LEMMA ScanOpens ==
  ASSUME DirInv, SyncInv, OpenDir PROVE SyncInv'
<1>1. /\ UNCHANGED dirVars /\ UNCHANGED <<synced, seen, stops, missed, renumbered>>
      /\ spc = "fuzzing" /\ spc' = "scanning" /\ next_min_accept' = synced /\ queue # NoDir
      /\ snapshot' = DOMAIN queue.files /\ returned' = {} /\ same_dir' = TRUE
      /\ untouched' = Usable(queue)
  BY DEF OpenDir
<1>2. /\ OutputDirTypeOK' /\ SegmentInv' /\ CopyInv' /\ WriteInv' /\ queue' = queue
  BY <1>1, DirUntouched
<1>3. queue \in Dirs /\ DOMAIN queue.files \in SUBSET Ids /\ Usable(queue) \in SUBSET Ids
      /\ \A i \in Usable(queue) : i \in DOMAIN queue.files /\ queue.files[i] \in Cases
  <2>1. queue \in Dirs
    BY <1>1 DEF DirInv, OutputDirTypeOK
  <2>2. QED
    BY <2>1, DirParts DEF Usable
<1>4. SyncTypeOK'
  <2>1. /\ {snapshot', returned', untouched', missed'} \subseteq SUBSET Ids
        /\ same_dir' \in BOOLEAN /\ spc' \in {"fuzzing", "scanning", "anew"}
    BY <1>1, <1>3 DEF SyncInv, SyncTypeOK
  <2>2. QED
    BY <1>1, <1>2, <2>1 DEF SyncInv, SyncTypeOK
<1>5. ScanInv'
  BY <1>1, <1>2, <1>3 DEF ScanInv
<1>6. SeenInv'
  BY <1>1, NumberStays DEF SyncInv
<1>7. QED
  BY <1>1, <1>2, <1>4, <1>5, <1>6 DEF SyncInv

(* One name: a case that is still in its place is there and is run.        *)
LEMMA ScanReads ==
  ASSUME DirInv, SyncInv, Readdir PROVE SyncInv'
<1>1. spc = "scanning"
  BY DEF Readdir
<1>2. PICK id \in Ids : LookAt(id)
  BY DEF Readdir
<1>3. /\ UNCHANGED dirVars
      /\ UNCHANGED <<synced, spc, snapshot, same_dir, untouched, stops, missed, renumbered>>
      /\ returned' = returned \cup {id}
  BY <1>2 DEF LookAt
<1>4. /\ synced \in Nat /\ next_min_accept \in Nat /\ id \in Nat /\ id + 1 <= MAX_PATHS
      /\ next_min_accept <= MAX_PATHS /\ seen \in SUBSET Cases /\ MAX_PATHS \in Nat
  BY OutputDirAssumption DEF SyncInv, SyncTypeOK, Ids
<1>5. CanRead(id) => queue.files[id] \in Cases
  <2>1. queue # NoDir => queue \in Dirs
    BY DEF DirInv, OutputDirTypeOK
  <2>2. QED
    BY <2>1, DirParts DEF CanRead
<1>6. /\ next_min_accept' \in 0..MAX_PATHS /\ seen \subseteq seen' /\ seen' \in SUBSET Cases
      /\ CanRead(id) => id < synced \/ queue.files[id] \in seen'
  <2>1. CASE id < synced
    <3>1. UNCHANGED <<next_min_accept, seen>>
      BY <1>2, <2>1 DEF LookAt
    <3>2. QED
      BY <1>4, <2>1, <3>1
  <2>2. CASE ~(id < synced)
    <3>1. /\ next_min_accept' = MaxOf(next_min_accept, id + 1)
          /\ seen' = IF CanRead(id) THEN seen \cup {queue.files[id]} ELSE seen
      BY <1>2, <2>2 DEF LookAt
    <3>2. next_min_accept' \in 0..MAX_PATHS
      BY <1>4, <3>1 DEF MaxOf
    <3>3. seen \subseteq seen' /\ seen' \in SUBSET Cases /\ (CanRead(id) => queue.files[id] \in seen')
      BY <1>4, <1>5, <3>1
    <3>4. QED
      BY <3>2, <3>3
  <2>3. QED
    BY <2>1, <2>2
<1>7. OutputDirTypeOK' /\ SegmentInv' /\ CopyInv' /\ WriteInv' /\ queue' = queue
  BY <1>3, DirUntouched
<1>8. SyncTypeOK'
  <2>1. {snapshot', returned', untouched', missed'} \subseteq SUBSET Ids
    BY <1>3 DEF SyncInv, SyncTypeOK
  <2>2. QED
    BY <1>3, <1>6, <1>7, <2>1 DEF SyncInv, SyncTypeOK
<1>9. ScanInv'
  <2>1. /\ spc' # "scanning" => untouched' = {}
        /\ untouched' # {} => same_dir' /\ queue' # NoDir
    BY <1>3, <1>7 DEF SyncInv, ScanInv
  <2>2. ASSUME NEW i \in untouched'
        PROVE  /\ i \in snapshot' /\ i \in DOMAIN queue'.files /\ queue'.files[i] \in Cases
               /\ i \in returned' => i < synced' \/ queue'.files[i] \in seen'
    <3>1. /\ i \in untouched /\ queue # NoDir
          /\ i \in snapshot /\ i \in DOMAIN queue.files /\ queue.files[i] \in Cases
          /\ i \in returned => i < synced \/ queue.files[i] \in seen
      BY <1>3 DEF SyncInv, ScanInv
    <3>2. CanRead(i)
      BY <3>1, OutputDirAssumption DEF CanRead
    <3>3. i \in returned' => i < synced \/ queue.files[i] \in seen'
      BY <1>3, <1>6, <3>1, <3>2
    <3>4. QED
      BY <1>3, <1>7, <3>1, <3>3
  <2>3. QED
    BY <2>1, <2>2 DEF ScanInv
<1>10. SeenInv'
  BY <1>3, <1>6, NumberStays DEF SyncInv
<1>11. (spc = "anew" => synced = 0)'
  BY <1>1, <1>3
<1>12. QED
  BY <1>7, <1>8, <1>9, <1>10, <1>11 DEF SyncInv

(* The entry of a file that is there and is complete.                      *)
LEMMA FileIsEntry ==
  ASSUME DirInv, WriteInv, pc \in Filled, NEW i \in DOMAIN queue.files, queue.files[i] # Zero
  PROVE  /\ i + 1 \in 1..Len(entries) /\ queue.files[i] = entries[i + 1].case
         /\ Writing => i + 1 # target
<1>1. /\ i \in Ids /\ i \in Nat /\ Len(entries) \in Nat /\ target \in 0..Len(entries)
      /\ Writing <=> target # 0
  BY InUse, DirParts
<1>2. i # target - 1
  <2>1. CASE pc = "create"
    BY <2>1 DEF DirInv, RunInv
  <2>2. CASE pc = "write"
    BY <2>2 DEF WriteInv
  <2>3. CASE ~Writing
    BY <1>1, <2>3
  <2>4. QED
    BY <2>1, <2>2, <2>3 DEF Writing
<1>3. FileOf(i, Len(entries))
  BY <1>1, <1>2 DEF DirInv, RunInv
<1>4. i < Len(entries) /\ queue.files[i] = entries[i + 1].case
  BY <1>1, <1>3 DEF FileOf
<1>5. QED
  BY <1>1, <1>2, <1>4

(* At the end of a scan the number passes ids whose cases were run, and    *)
(* ids that were not in their place.                                       *)
LEMMA ScanCloses ==
  ASSUME DirInv, SyncInv, CloseDir PROVE SyncInv'
<1>1. /\ spc = "scanning" /\ MustReturn = {} /\ synced' = next_min_accept
      /\ missed' = missed \cup ((synced..(next_min_accept - 1)) \ untouched)
      /\ spc' = "fuzzing" /\ next_min_accept' = 0 /\ snapshot' = {} /\ returned' = {}
      /\ same_dir' = FALSE /\ untouched' = {}
      /\ UNCHANGED dirVars /\ UNCHANGED <<seen, stops, renumbered>>
  BY DEF CloseDir, ScanForgotten
<1>2. /\ synced \in Nat /\ next_min_accept \in Nat /\ next_min_accept <= MAX_PATHS
      /\ MAX_PATHS \in Nat /\ Ids \subseteq Nat /\ \A i \in Nat : i \in Ids <=> i < MAX_PATHS
      /\ missed \in SUBSET Ids
  BY OutputDirAssumption DEF SyncInv, SyncTypeOK, Ids
<1>3. OutputDirTypeOK' /\ SegmentInv' /\ CopyInv' /\ WriteInv' /\ queue' = queue
  BY <1>1, DirUntouched
<1>4. SyncTypeOK'
  <2>1. next_min_accept' \in 0..MAX_PATHS /\ synced' \in 0..MAX_PATHS
    BY <1>1, <1>2
  <2>2. missed' \in SUBSET Ids
    <3>1. \A i \in synced..(next_min_accept - 1) : i \in Nat /\ i < MAX_PATHS
      BY <1>2
    <3>2. QED
      BY <1>1, <1>2, <3>1
  <2>3. {snapshot', returned', untouched', missed'} \subseteq SUBSET Ids /\ same_dir' \in BOOLEAN
    BY <1>1, <2>2
  <2>4. QED
    BY <1>1, <1>3, <2>1, <2>3 DEF SyncInv, SyncTypeOK
<1>5. ScanInv'
  BY <1>1 DEF ScanInv
<1>6. ASSUME NEW i \in Passed'
      PROVE  \/ i \in Passed
             \/ /\ queue # NoDir /\ i \in DOMAIN queue.files
                /\ queue.files[i] \in seen /\ queue.files[i] # Zero
  <2>1. i \in Ids /\ i \in Nat /\ i < next_min_accept /\ i \notin missed'
    BY <1>1, <1>2 DEF Passed
  <2>2. CASE i < synced
    BY <1>1, <2>1, <2>2 DEF Passed
  <2>3. CASE ~(i < synced)
    <3>1. i \in synced..(next_min_accept - 1)
      BY <1>2, <2>1, <2>3
    <3>2. i \in untouched
      BY <1>1, <2>1, <3>1
    <3>3. /\ same_dir /\ queue # NoDir
          /\ i \in snapshot /\ i \in DOMAIN queue.files /\ queue.files[i] \in Cases
          /\ i \in returned => i < synced \/ queue.files[i] \in seen
      BY <3>2 DEF SyncInv, ScanInv
    <3>4. i \in returned
      BY <1>1, <3>3 DEF MustReturn
    <3>5. QED
      BY <2>3, <3>3, <3>4, OutputDirAssumption
  <2>4. QED
    BY <2>2, <2>3
<1>7. SeenInv'
  <2> SUFFICES ASSUME ~renumbered PROVE SeenInv'
    BY <1>1 DEF SeenInv
  <2>1. /\ UNCHANGED <<queue, resume, pc, entries, target>> /\ seen' = seen
        /\ Imported' = Imported /\ CanRename(queue, resume)' = CanRename(queue, resume)
        /\ Writing' = Writing /\ Trimming' = Trimming
    BY <1>1 DEF dirVars, disk, process, Imported, CanRename, IsEmpty, Writing, Trimming
  <2>2. CASE pc \notin Filled
    <3>1. KeptOnDisk
      BY <2>2 DEF SyncInv, SeenInv
    <3>2. CASE CanRename(queue, resume)
      <4>1. \A i \in Passed' : i \in DOMAIN queue.files /\ queue.files[i] \in seen
        BY <1>6, <3>1, <3>2 DEF KeptOnDisk
      <4>2. KeptOnDisk'
        BY <2>1, <3>2, <4>1 DEF KeptOnDisk
      <4>3. QED
        BY <2>1, <2>2, <4>2 DEF SeenInv
    <3>3. CASE ~CanRename(queue, resume)
      <4>1. ASSUME NEW i \in Passed'
            PROVE  i + 1 \in 1..Len(Imported) /\ Imported[i + 1].case \in seen
        <5>1. CASE i \in Passed
          BY <3>1, <3>3, <5>1 DEF KeptOnDisk
        <5>2. CASE i \notin Passed
          <6>1. queue # NoDir /\ i \in DOMAIN queue.files /\ queue.files[i] \in seen
            BY <1>6, <5>2
          <6>2. i + 1 \in 1..Len(Imported) /\ queue.files[i] = Imported[i + 1].case
            BY <2>2, <3>3, <6>1 DEF SyncInv, CopyInv
          <6>3. QED
            BY <6>1, <6>2
        <5>3. QED
          BY <5>1, <5>2
      <4>2. KeptOnDisk'
        BY <2>1, <3>3, <4>1 DEF KeptOnDisk
      <4>3. QED
        BY <2>1, <2>2, <4>2 DEF SeenInv
    <3>4. QED
      BY <3>2, <3>3
  <2>3. CASE pc \in Filled
    <3>1. KeptEntries
      BY <2>3 DEF SyncInv, SeenInv
    <3>2. ASSUME NEW i \in Passed'
          PROVE  /\ i + 1 \in 1..Len(entries) /\ entries[i + 1].case \in seen
                 /\ Writing /\ ~Trimming => i + 1 # target
      <4>1. CASE i \in Passed
        BY <3>1, <4>1 DEF KeptEntries
      <4>2. CASE i \notin Passed
        <5>1. i \in DOMAIN queue.files /\ queue.files[i] \in seen /\ queue.files[i] # Zero
          BY <1>6, <4>2
        <5>2. /\ i + 1 \in 1..Len(entries) /\ queue.files[i] = entries[i + 1].case
              /\ Writing => i + 1 # target
          BY <2>3, <5>1, FileIsEntry DEF SyncInv
        <5>3. QED
          BY <5>1, <5>2
      <4>3. QED
        BY <4>1, <4>2
    <3>3. KeptEntries'
      BY <2>1, <3>2 DEF KeptEntries
    <3>4. QED
      BY <2>1, <2>3, <3>3 DEF SeenInv
  <2>4. QED
    BY <2>2, <2>3
<1>8. (spc = "anew" => synced = 0)'
  BY <1>1
<1>9. QED
  BY <1>3, <1>4, <1>5, <1>7, <1>8 DEF SyncInv

(* The reader is stopped in a scan: neither the number nor the cases       *)
(* change.                                                                 *)
LEMMA StopKeepsSync ==
  ASSUME DirInv, SyncInv, StopScan PROVE SyncInv'
<1>1. /\ stops < MAX_STOPS /\ stops' = stops + 1 /\ spc' = "fuzzing" /\ next_min_accept' = 0
      /\ snapshot' = {} /\ returned' = {} /\ same_dir' = FALSE /\ untouched' = {}
      /\ UNCHANGED dirVars /\ UNCHANGED <<synced, seen, missed, renumbered>>
  BY DEF StopScan, ScanForgotten
<1>2. OutputDirTypeOK' /\ SegmentInv' /\ CopyInv' /\ WriteInv'
  BY <1>1, DirUntouched
<1>3. SyncTypeOK'
  <2>1. stops' \in 0..MAX_STOPS /\ next_min_accept' \in 0..MAX_PATHS
    BY <1>1, SyncAssumption, OutputDirAssumption DEF SyncInv, SyncTypeOK
  <2>2. {snapshot', returned', untouched', missed'} \subseteq SUBSET Ids /\ same_dir' \in BOOLEAN
    BY <1>1 DEF SyncInv, SyncTypeOK
  <2>3. QED
    BY <1>1, <1>2, <2>1, <2>2 DEF SyncInv, SyncTypeOK
<1>4. SeenInv'
  BY <1>1, NumberStays DEF SyncInv
<1>5. ScanInv'
  BY <1>1 DEF ScanInv
<1>6. QED
  BY <1>1, <1>2, <1>3, <1>4, <1>5 DEF SyncInv

(* The reader started anew forgets its numbers before its cases.           *)
LEMMA AnewKeepsSync ==
  ASSUME DirInv, SyncInv, StartAnew \/ DeleteQueue PROVE SyncInv'
<1>1. /\ UNCHANGED dirVars
      /\ UNCHANGED <<next_min_accept, snapshot, returned, same_dir, untouched>>
      /\ spc # "scanning" /\ spc' \in {"anew", "fuzzing"} /\ seen' \in {seen, {}}
      /\ synced' = 0 /\ missed' \in {missed, {}} /\ renumbered' \in BOOLEAN
  BY DEF StartAnew, DeleteQueue, SyncInv, SyncTypeOK
<1>2. stops' \in 0..MAX_STOPS /\ synced' \in 0..MAX_PATHS
  BY <1>1, SyncAssumption, OutputDirAssumption DEF StartAnew, DeleteQueue, SyncInv, SyncTypeOK
<1>3. OutputDirTypeOK' /\ SegmentInv' /\ CopyInv' /\ WriteInv'
  BY <1>1, DirUntouched
<1>4. SyncTypeOK'
  <2>1. {snapshot', returned', untouched', missed'} \subseteq SUBSET Ids
    BY <1>1 DEF SyncInv, SyncTypeOK
  <2>2. QED
    BY <1>1, <1>2, <1>3, <2>1 DEF SyncInv, SyncTypeOK
<1>5. ScanInv'
  <2>1. untouched' = {}
    BY <1>1 DEF SyncInv, ScanInv
  <2>2. QED
    BY <2>1 DEF ScanInv
<1>6. SeenInv'
  <2>1. Passed' = {}
    BY <1>1, OutputDirAssumption DEF Passed, Ids
  <2>2. QED
    BY <2>1 DEF SeenInv, KeptOnDisk, KeptEntries
<1>7. QED
  BY <1>1, <1>3, <1>4, <1>5, <1>6 DEF SyncInv

-----------------------------------------------------------------------------
(* The invariant of the two, and what it says.                             *)

(* The invariant of the two fuzzers.                                       *)
AllInv == DirInv /\ ResumeInv /\ SyncInv

(* Every step of either fuzzer keeps it.                                   *)
LEMMA StepKeepsAll ==
  ASSUME Races = {}, AllInv, [Next]_vars PROVE AllInv'
<1>1. DirInv /\ ResumeInv /\ SyncInv /\ [DirNext]_dirVars
  BY NextIsDirStep DEF AllInv
<1>2. DirInv' /\ ResumeInv'
  BY <1>1, DirStepKeepsDir, DirStepKeepsResume
<1>3. CASE OtherStep
  BY <1>1, <1>2, <1>3, OtherKeepsSync DEF AllInv
<1>4. CASE Reader
  BY <1>1, <1>2, <1>4, ScanOpens, ScanReads, ScanCloses, StopKeepsSync,
     AnewKeepsSync DEF AllInv, Reader
<1>5. CASE UNCHANGED vars
  <2>1. /\ UNCHANGED dirVars
        /\ UNCHANGED <<synced, seen, spc, next_min_accept, snapshot, returned, same_dir, untouched,
                       stops, missed, renumbered>>
    BY <1>5 DEF vars, syncVars, scan
  <2>2. OutputDirTypeOK' /\ SegmentInv' /\ CopyInv' /\ WriteInv' /\ queue' = queue
    BY <1>1, <2>1, DirUntouched
  <2>3. SyncTypeOK'
    BY <1>1, <2>1, <2>2 DEF SyncInv, SyncTypeOK
  <2>4. SeenInv'
    BY <1>1, <2>1, NumberStays DEF SyncInv
  <2>5. ScanInv'
    BY <1>1, <2>1, <2>2 DEF SyncInv, ScanInv
  <2>6. QED
    BY <1>1, <1>2, <2>1, <2>2, <2>3, <2>4, <2>5 DEF AllInv, SyncInv
<1>6. QED
  BY <1>3, <1>4, <1>5 DEF Next

(* The invariant says that nothing below the number was left out.          *)
LEMMA KeptIsSeen ==
  ASSUME AllInv PROVE SkippedIsSeen
<1> SUFFICES ASSUME queue # NoDir, ~renumbered, NEW id \in DOMAIN queue.files, id < synced,
                    id \notin missed, queue.files[id] # Zero
             PROVE  queue.files[id] \in seen
  BY DEF SkippedIsSeen
<1>1. DirInv /\ SyncInv /\ queue \in Dirs /\ SeenInv /\ CopyInv /\ WriteInv
  BY DEF AllInv, DirInv, OutputDirTypeOK, SyncInv
<1>2. id \in Passed
  BY <1>1, DirParts DEF Passed
<1>3. CASE pc \in Filled
  <2>1. queue.files[id] = entries[id + 1].case
    BY <1>1, <1>3, FileIsEntry
  <2>2. entries[id + 1].case \in seen
    BY <1>1, <1>2, <1>3 DEF SeenInv, KeptEntries
  <2>3. QED
    BY <2>1, <2>2
<1>4. CASE pc \notin Filled /\ CanRename(queue, resume)
  BY <1>1, <1>2, <1>4 DEF SeenInv, KeptOnDisk
<1>5. CASE pc \notin Filled /\ ~CanRename(queue, resume)
  <2>1. queue.files[id] = Imported[id + 1].case
    BY <1>1, <1>5 DEF CopyInv
  <2>2. Imported[id + 1].case \in seen
    BY <1>1, <1>2, <1>5 DEF SeenInv, KeptOnDisk
  <2>3. QED
    BY <2>1, <2>2
<1>6. QED
  BY <1>3, <1>4, <1>5

(* Whatever the two fuzzers do at the same time, the number in .synced     *)
(* passes no case unseen but those that were not in their place, complete, *)
(* from opendir to closedir of the scan that passed them, until the other  *)
(* fuzzer is started anew (sync_fuzzers, pivot_inputs).  Kills and resumes *)
(* of the other fuzzer and stops and new starts of the reader are included;*)
(* the kills that Races names, in nuke_resume_dir and in trim_case, lose   *)
(* cases of the directory itself and are not.                              *)
THEOREM NothingIsSkippedUnseen ==
  ASSUME Races = {} PROVE Spec => []SkippedIsSeen
<1>1. SyncInit => AllInv
  <2>1. SyncInit => Init
    BY DEF SyncInit
  <2>2. QED
    BY <2>1, DirInitially, ResumeInitially, SyncInitially DEF AllInv
<1>2. AllInv /\ [Next]_vars => AllInv'
  BY StepKeepsAll
<1>3. AllInv => SkippedIsSeen
  BY KeptIsSeen
<1>4. QED
  BY <1>1, <1>2, <1>3, PTL DEF Spec
=============================================================================
