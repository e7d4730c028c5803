--------------------------- MODULE SeedQueueProofs ---------------------------
(***************************************************************************)
(* The safety invariants of TopRated and of SeedQueue, for every map size, *)
(* every set of entries and every range of cost, queue length, set of      *)
(* windows and configuration limit.  The inductive invariant of the table  *)
(* is its type invariant with three safety invariants: the reference       *)
(* counts tell when a trace copy is freed, which in turn tells what a cull *)
(* may read.  The part of the queue's invariant that is about the table    *)
(* comes from there: every step of the queue is a step of the table.       *)
(***************************************************************************)
EXTENDS SeedQueue, FiniteSetTheorems, TLAPS

TableInv == TypeOK /\ RefsExact /\ CopyWhileReferenced /\ CullCovers

-----------------------------------------------------------------------------
(* Any set of slots is finite. *)
LEMMA SlotSetsFinite == ASSUME NEW S \in SUBSET Slots
                        PROVE  IsFiniteSet(S) /\ Cardinality(S) \in Nat
<1>1. IsFiniteSet(Slots)
  BY FS_Interval, MapSizeAssumption DEF Slots
<1>2. QED
  BY <1>1, FS_Subset, FS_CardinalityType

(* The slots update_bitmap_score hands to q are slots. *)
LEMMA WonAreSlots ==
  ASSUME NEW q, NEW trace \in SUBSET Slots, NEW factor
  PROVE  Won(q, trace, factor) \in SUBSET Slots
BY DEF Won

(* Which slots each entry holds after update_bitmap_score. *)
LEMMA HeldAfterScore ==
  ASSUME TypeOK,
         NEW q \in Entries, NEW trace \in SUBSET Slots, NEW factor \in Factors,
         UpdateBitmapScore(q, trace, factor),
         NEW p \in Entries
  PROVE  Held(p)' = IF p = q THEN Held(q) \cup Won(q, trace, factor)
                             ELSE Held(p) \ Won(q, trace, factor)
<1> DEFINE won == Won(q, trace, factor)
<1>1. top_rated' = [i \in Slots |-> IF i \in won THEN q ELSE top_rated[i]]
  BY DEF UpdateBitmapScore, Refs
<1>2. won \in SUBSET Slots
  BY WonAreSlots
<1> HIDE DEF won
<1>3. \A i \in Slots : top_rated'[i] = IF i \in won THEN q ELSE top_rated[i]
  BY <1>1
<1>4. Held(p)' = IF p = q THEN Held(q) \cup won ELSE Held(p) \ won
  BY <1>2, <1>3 DEF Held
<1>5. QED
  BY <1>4 DEF won

(* The type invariant is preserved by update_bitmap_score. *)
LEMMA ScoreTyped ==
  ASSUME TypeOK,
         NEW q \in Entries, NEW trace \in SUBSET Slots, NEW factor \in Factors,
         UpdateBitmapScore(q, trace, factor)
  PROVE  TypeOK'
<1> DEFINE won == Won(q, trace, factor)
<1>1. won \in SUBSET Slots
  BY WonAreSlots
<1>2. \A p \in Entries : /\ Held(p) \in SUBSET Slots
                         /\ Cardinality(Held(p) \cap won) \in Int
                         /\ Cardinality(won \ Held(p)) \in Int
  BY <1>1, SlotSetsFinite DEF Held
<1> HIDE DEF won
<1>3. tc_ref' \in [Entries -> Int]
  <2>1. tc_ref' = [p \in Entries |->
                 IF p = q THEN tc_ref[q] + Cardinality(won \ Held(q))
                          ELSE tc_ref[p] - Cardinality(Held(p) \cap won)]
    BY DEF UpdateBitmapScore, Refs, won
  <2>2. ASSUME NEW p \in Entries
        PROVE  (IF p = q THEN tc_ref[q] + Cardinality(won \ Held(q))
                         ELSE tc_ref[p] - Cardinality(Held(p) \cap won)) \in Int
    <3>1. tc_ref[q] \in Int /\ tc_ref[p] \in Int
      BY DEF TypeOK
    <3>2. Cardinality(Held(p) \cap won) \in Int /\ Cardinality(won \ Held(q)) \in Int
      BY <1>2
    <3>3. QED
      BY <3>1, <3>2
  <2>3. QED
    BY <2>1, <2>2
<1>4. trace_mini' \in [Entries -> SUBSET Slots]
  BY DEF UpdateBitmapScore, Refs, TypeOK
<1>5. top_rated' \in [Slots -> Entries \cup {NULL}]
  BY DEF UpdateBitmapScore, Refs, TypeOK
<1>6. fav_factor' \in [Entries -> Factors] /\ score_changed' \in BOOLEAN
      /\ tr_intersting' \in [Entries -> BOOLEAN]
  BY DEF UpdateBitmapScore, Refs, TypeOK
<1>7. QED
  BY <1>3, <1>4, <1>5, <1>6 DEF TypeOK

(* The reference counts stay exact: the counts move by as many slots as    *)
(* change hands.                                                            *)
LEMMA ScoreKeepsRefs ==
  ASSUME TypeOK, RefsExact,
         NEW q \in Entries, NEW trace \in SUBSET Slots, NEW factor \in Factors,
         UpdateBitmapScore(q, trace, factor)
  PROVE  RefsExact'
<1> DEFINE won == Won(q, trace, factor)
<1> SUFFICES ASSUME NEW p \in Entries
             PROVE  tc_ref'[p] = Cardinality(Held(p)')
  BY DEF RefsExact
<1>1. tc_ref'[p] = IF p = q THEN tc_ref[q] + Cardinality(won \ Held(q))
                            ELSE tc_ref[p] - Cardinality(Held(p) \cap won)
  BY DEF UpdateBitmapScore, Refs
<1>2. Held(p)' = IF p = q THEN Held(q) \cup won ELSE Held(p) \ won
  BY HeldAfterScore
<1>3. tc_ref[p] = Cardinality(Held(p)) /\ tc_ref[q] = Cardinality(Held(q))
  BY DEF RefsExact
<1>4. won \in SUBSET Slots /\ Held(p) \in SUBSET Slots /\ Held(q) \in SUBSET Slots
  BY WonAreSlots DEF Held
<1> HIDE DEF won
<1>5. CASE p = q
  <2>1. Held(q) \cup won = Held(q) \cup (won \ Held(q))
        /\ Held(q) \cap (won \ Held(q)) = {}
    OBVIOUS
  <2>2. /\ IsFiniteSet(Held(q)) /\ IsFiniteSet(won \ Held(q))
        /\ Cardinality(Held(q)) \in Nat /\ Cardinality(won \ Held(q)) \in Nat
    BY <1>4, SlotSetsFinite
  <2>3. Cardinality(Held(q) \cup (won \ Held(q)))
          = Cardinality(Held(q)) + Cardinality(won \ Held(q))
            - Cardinality(Held(q) \cap (won \ Held(q)))
    BY <2>2, FS_Union
  <2>4. Cardinality(Held(q) \cap (won \ Held(q))) = 0
    BY <2>1, FS_EmptySet
  <2>5. Held(p)' = Held(q) \cup (won \ Held(q))
    BY <1>2, <1>5, <2>1
  <2>6. QED
    BY <1>1, <1>3, <1>5, <2>2, <2>3, <2>4, <2>5
<1>6. CASE p # q
  <2>1. Held(p) = (Held(p) \ won) \cup (Held(p) \cap won)
        /\ (Held(p) \ won) \cap (Held(p) \cap won) = {}
    OBVIOUS
  <2>2. /\ IsFiniteSet(Held(p) \ won) /\ IsFiniteSet(Held(p) \cap won)
        /\ Cardinality(Held(p) \ won) \in Nat /\ Cardinality(Held(p) \cap won) \in Nat
    BY <1>4, SlotSetsFinite
  <2>3. Cardinality((Held(p) \ won) \cup (Held(p) \cap won))
          = Cardinality(Held(p) \ won) + Cardinality(Held(p) \cap won)
            - Cardinality((Held(p) \ won) \cap (Held(p) \cap won))
    BY <2>2, FS_Union
  <2>4. Cardinality((Held(p) \ won) \cap (Held(p) \cap won)) = 0
    BY <2>1, FS_EmptySet
  <2>5. Held(p)' = Held(p) \ won
    BY <1>2, <1>6
  <2>6. Cardinality(Held(p)) = Cardinality(Held(p) \ won) + Cardinality(Held(p) \cap won)
    BY <2>1, <2>2, <2>3, <2>4
  <2>7. QED
    BY <1>1, <1>3, <1>6, <2>2, <2>5, <2>6
<1>7. QED
  BY <1>5, <1>6

(* A copy is freed with the last slot and made with the first one. *)
LEMMA ScoreKeepsCopies ==
  ASSUME TypeOK, RefsExact, CopyWhileReferenced,
         NEW q \in Entries, NEW trace \in SUBSET Slots, NEW factor \in Factors,
         UpdateBitmapScore(q, trace, factor)
  PROVE  CopyWhileReferenced'
<1> DEFINE won == Won(q, trace, factor)
<1> SUFFICES ASSUME NEW p \in Entries
             PROVE  (trace_mini'[p] # {}) <=> (Held(p)' # {})
  BY DEF CopyWhileReferenced
<1>1. Held(p)' = IF p = q THEN Held(q) \cup won ELSE Held(p) \ won
  BY HeldAfterScore
<1>2. (trace_mini[p] # {}) <=> (Held(p) # {})
  BY DEF CopyWhileReferenced
<1>3. CASE p = q
  <2>1. trace_mini'[q] = IF won # {} /\ RefreshesCopy(q, won) THEN trace ELSE trace_mini[q]
    BY DEF UpdateBitmapScore, Refs
  <2>2. won \subseteq trace
    BY DEF Won
  <2>3. won # {} /\ ~RefreshesCopy(q, won) => trace_mini[q] # {}
    BY DEF RefreshesCopy
  <2> HIDE DEF won
  <2>4. QED
    BY <1>1, <1>2, <1>3, <2>1, <2>2, <2>3
<1>4. CASE p # q
  <2>1. trace_mini'[p] = IF tc_ref'[p] = 0 THEN {} ELSE trace_mini[p]
    BY <1>4 DEF UpdateBitmapScore, Refs
  <2>2. tc_ref'[p] = Cardinality(Held(p)')
    BY ScoreKeepsRefs DEF RefsExact
  <2>3. Held(p)' \in SUBSET Slots
    BY DEF Held
  <2>4. IsFiniteSet(Held(p)')
    BY <2>3, SlotSetsFinite
  <2>5. tc_ref'[p] = 0 <=> Held(p)' = {}
    BY <2>2, <2>4, FS_EmptySet
  <2>6. Held(p)' \subseteq Held(p)
    BY <1>1, <1>4
  <2>7. QED
    BY <1>2, <2>1, <2>5, <2>6
<1>5. QED
  BY <1>3, <1>4

(* Unless q wins a slot and score_changed is raised, nothing the cull read  *)
(* has changed.                                                             *)
LEMMA ScoreKeepsCover ==
  ASSUME TypeOK, RefsExact, CopyWhileReferenced, CullCovers,
         NEW q \in Entries, NEW trace \in SUBSET Slots, NEW factor \in Factors,
         UpdateBitmapScore(q, trace, factor)
  PROVE  CullCovers'
<1> DEFINE won == Won(q, trace, factor)
<1>1. SUFFICES ASSUME ~score_changed'
               PROVE  CullCovers'
  BY DEF CullCovers
<1>2. won = {} /\ ~score_changed
  BY <1>1 DEF UpdateBitmapScore, Refs
<1>3. top_rated' = top_rated
  <2>1. top_rated' = [i \in Slots |-> top_rated[i]]
    BY <1>2 DEF UpdateBitmapScore, Refs
  <2>2. QED
    BY <2>1 DEF TypeOK
<1>4. \A p \in Entries : trace_mini[p] \subseteq trace_mini'[p]
  <2> SUFFICES ASSUME NEW p \in Entries
               PROVE  trace_mini[p] \subseteq trace_mini'[p]
    OBVIOUS
  <2>1. CASE p = q
    <3>1. trace_mini'[q] = IF won # {} /\ RefreshesCopy(q, won) THEN trace ELSE trace_mini[q]
      BY DEF UpdateBitmapScore, Refs
    <3>2. QED
      BY <3>1, <2>1, <1>2
  <2>2. CASE p # q
    <3>1. trace_mini'[p] = IF tc_ref'[p] = 0 THEN {} ELSE trace_mini[p]
      BY <2>2 DEF UpdateBitmapScore, Refs
    <3>2. (trace_mini'[p] # {}) <=> (Held(p)' # {})
      BY ScoreKeepsCopies DEF CopyWhileReferenced
    <3>3. (trace_mini[p] # {}) <=> (Held(p) # {})
      BY DEF CopyWhileReferenced
    <3>4. Held(p)' = Held(p)
      BY <1>3 DEF Held
    <3>5. QED
      BY <3>1, <3>2, <3>3, <3>4
  <2>3. QED
    BY <2>1, <2>2
<1>5. tr_intersting' = tr_intersting
  BY DEF UpdateBitmapScore, Refs
<1>6. QED
  BY <1>2, <1>3, <1>4, <1>5 DEF CullCovers

(* A cull changes only the flags, and establishes the cover it claims. *)
LEMMA CullKeepsTableInv ==
  ASSUME TableInv, NEW picked \in SUBSET Slots, CullTable(picked)
  PROVE  TableInv'
<1> USE DEF TableInv
<1>1. UNCHANGED <<top_rated, tc_ref, trace_mini, fav_factor>>
  BY DEF CullTable
<1>2. tr_intersting' = [q \in Entries |-> \E i \in picked : top_rated[i] = q]
      /\ score_changed' = FALSE
  BY DEF CullTable
<1>3. TypeOK'
  BY <1>1, <1>2 DEF TypeOK
<1>4. RefsExact' /\ CopyWhileReferenced'
  BY <1>1 DEF RefsExact, CopyWhileReferenced, Held
<1>5. CullCovers'
  <2> SUFFICES ASSUME NEW i \in Slots, top_rated[i] # NULL, ~tr_intersting'[top_rated[i]]
               PROVE  \E q \in Entries : tr_intersting'[q] /\ i \in trace_mini[q]
    BY <1>1 DEF CullCovers
  <2>1. \A k \in Slots : top_rated[k] # NULL => top_rated[k] \in Entries
    BY DEF TypeOK
  <2>2. i \notin picked
    BY <1>2, <2>1
  <2>3. PICK j \in picked : i \in trace_mini[top_rated[j]]
    BY <2>2 DEF CullTable, IsWalk
  <2>4. top_rated[j] # NULL /\ j \in Slots
    BY <2>3 DEF CullTable, IsWalk
  <2>5. tr_intersting'[top_rated[j]]
    BY <1>2, <2>1, <2>4
  <2>6. QED
    BY <2>1, <2>3, <2>4, <2>5
<1>6. QED
  BY <1>3, <1>4, <1>5

(* Marking an entry that holds no slot leaves every cover in place. *)
LEMMA MarkKeepsTableInv ==
  ASSUME TableInv, NEW q \in Entries, MarkNewEntry(q)
  PROVE  TableInv'
<1> USE DEF TableInv
<1>1. UNCHANGED <<top_rated, tc_ref, trace_mini, fav_factor, score_changed>>
  BY DEF MarkNewEntry
<1>2. tr_intersting' = [tr_intersting EXCEPT ![q] = TRUE]
  BY DEF MarkNewEntry
<1>3. TypeOK'
  BY <1>1, <1>2 DEF TypeOK
<1>4. RefsExact' /\ CopyWhileReferenced'
  BY <1>1 DEF RefsExact, CopyWhileReferenced, Held
<1>5. \A p \in Entries : tr_intersting[p] => tr_intersting'[p]
  BY <1>2 DEF TypeOK
<1>6. \A i \in Slots : top_rated[i] # NULL => top_rated[i] \in Entries
  BY DEF TypeOK
<1>7. CullCovers'
  BY <1>1, <1>5, <1>6 DEF CullCovers
<1>8. QED
  BY <1>3, <1>4, <1>7

(* The invariant holds before any entry is scored. *)
LEMMA TableInitInv == TableInit => TableInv
<1> SUFFICES ASSUME TableInit PROVE TableInv
  OBVIOUS
<1> USE DEF TableInit
<1>1. TypeOK
  <2>1. 0 \in Factors
    BY FactorAssumption DEF Factors
  <2>2. fav_factor \in [Entries -> Factors] /\ tc_ref \in [Entries -> Int]
    BY <2>1
  <2>3. /\ trace_mini \in [Entries -> SUBSET Slots]
        /\ top_rated \in [Slots -> Entries \cup {NULL}]
    OBVIOUS
  <2>4. score_changed \in BOOLEAN /\ tr_intersting \in [Entries -> BOOLEAN]
    OBVIOUS
  <2>5. QED
    BY <2>2, <2>3, <2>4 DEF TypeOK
<1>2. \A q \in Entries : Held(q) = {}
  BY EntriesAssumption DEF Held
<1>3. RefsExact
  BY <1>2, FS_EmptySet DEF RefsExact
<1>4. CopyWhileReferenced
  BY <1>2 DEF CopyWhileReferenced
<1>5. CullCovers
  BY DEF CullCovers
<1>6. QED
  BY <1>1, <1>3, <1>4, <1>5 DEF TableInv

(* Every operation on the table preserves the invariant. *)
LEMMA TableStepInv == TableInv /\ [TableNext]_tableVars => TableInv'
<1> SUFFICES ASSUME TableInv, [TableNext]_tableVars PROVE TableInv'
  OBVIOUS
<1>1. ASSUME NEW q \in Entries, NEW trace \in SUBSET Slots, NEW factor \in Factors,
             UpdateBitmapScore(q, trace, factor)
      PROVE  TableInv'
  BY <1>1, ScoreTyped, ScoreKeepsRefs, ScoreKeepsCopies, ScoreKeepsCover DEF TableInv
<1>2. ASSUME NEW picked \in SUBSET Slots, CullTable(picked) PROVE TableInv'
  BY <1>2, CullKeepsTableInv
<1>3. ASSUME NEW q \in Entries, MarkNewEntry(q) PROVE TableInv'
  BY <1>3, MarkKeepsTableInv
<1>4. CASE UNCHANGED tableVars
  BY <1>4 DEF tableVars, TableInv, TypeOK, RefsExact, CopyWhileReferenced, CullCovers, Held
<1>5. QED
  BY <1>1, <1>2, <1>3, <1>4 DEF TableNext

(* The whole inductive invariant holds in every reachable state. *)
THEOREM TableCorrect == TableSpec => []TableInv
<1>1. QED
  BY TableInitInv, TableStepInv, PTL DEF TableSpec

(* Type correctness of the table. *)
THEOREM TableTyped == TableSpec => []TypeOK
<1>1. TableInv => TypeOK
  BY DEF TableInv
<1>2. QED
  BY <1>1, TableCorrect, PTL

(* tc_ref always equals the number of slots held, so trace copies are      *)
(* freed exactly when the last slot is lost.                                *)
THEOREM RefsAlwaysExact == TableSpec => []RefsExact
<1>1. TableInv => RefsExact
  BY DEF TableInv
<1>2. QED
  BY <1>1, TableCorrect, PTL

(* No reader of the table meets a freed copy, and no copy is leaked. *)
THEOREM CopiesNeverDangle == TableSpec => []CopyWhileReferenced
<1>1. TableInv => CopyWhileReferenced
  BY DEF TableInv
<1>2. QED
  BY <1>1, TableCorrect, PTL

(* A cull never loses a byte, also when the copies it reads are stale. *)
THEOREM CullAlwaysCovers == TableSpec => []CullCovers
<1>1. TableInv => CullCovers
  BY DEF TableInv
<1>2. QED
  BY <1>1, TableCorrect, PTL

(* A slot never empties again and never goes to a costlier entry. *)
THEOREM SlotsAlwaysImprove == TableSpec => SlotsImprove
<1>1. TypeOK /\ [TableNext]_tableVars => [\A i \in Slots : SlotImproves(i)]_tableVars
  <2> SUFFICES ASSUME TypeOK, TableNext, NEW i \in Slots
               PROVE  SlotImproves(i)
    OBVIOUS
  <2>1. ASSUME NEW q \in Entries, NEW trace \in SUBSET Slots, NEW factor \in Factors,
               UpdateBitmapScore(q, trace, factor)
        PROVE  SlotImproves(i)
    <3>1. top_rated'[i] = IF i \in Won(q, trace, factor) THEN q ELSE top_rated[i]
      BY <2>1 DEF UpdateBitmapScore, Refs
    <3>2. fav_factor'[q] = factor
      BY <2>1 DEF UpdateBitmapScore, Refs, TypeOK
    <3>3. q # NULL
      BY EntriesAssumption
    <3>4. QED
      BY <3>1, <3>2, <3>3 DEF SlotImproves, Won
  <2>2. ASSUME NEW picked \in SUBSET Slots, CullTable(picked) PROVE SlotImproves(i)
    BY <2>2 DEF CullTable, SlotImproves
  <2>3. ASSUME NEW q \in Entries, MarkNewEntry(q) PROVE SlotImproves(i)
    BY <2>3 DEF MarkNewEntry, SlotImproves
  <2>4. QED
    BY <2>1, <2>2, <2>3 DEF TableNext
<1>2. QED
  BY <1>1, TableTyped, PTL DEF TableSpec, SlotsImprove

-----------------------------------------------------------------------------
(* Nothing in the table or in the window register refers to the entry. *)
Unused(q) == Held(q) = {} /\ \A w \in Windows : cks_q_w[w] # q

Fresh(q) == ~favored[q] /\ Unused(q)

(* The cursor is on the queue wherever fuzz_one is at work on it, and the  *)
(* stages of fuzz_one are reached with the calibration they assume.        *)
CursorInv ==
  /\ queue_cur <= queued_paths
  /\ phase \in {"select", "calibrate", "trim", "score", "fuzz", "calibrate_new", "abandon"}
       => queue_cur # NULL
  /\ phase = "dry_run" => dry_q <= queued_paths
  /\ phase = "calibrate" => cal_failed[queue_cur] \in 1..(CAL_CHANCES - 1)
  /\ phase = "trim" => cal_failed[queue_cur] = 0
  /\ \A q \in Entries : q > queued_paths => cal_failed[q] = 0 /\ fuzz_level[q] = 0

(* An entry that waits for its first calibration is not used yet. *)
FreshInv ==
  /\ phase = "dry_run" => \A q \in Entries : q >= dry_q => Fresh(q)
  /\ phase = "calibrate_new" => Fresh(queued_paths) /\ cal_failed[queued_paths] = 0

QueueInv ==
  /\ TableInv /\ QueueTypeOK /\ CursorInv /\ FreshInv
  /\ FavoredCover /\ FavoredCalibrated /\ OwnerShowsWindow /\ UnfuzzedCounted

USE QueueAssumption

-----------------------------------------------------------------------------
(* What the operations that several stages share leave alone. *)

(* An entry gains slots only by being scored. *)
LEMMA ScoreFrame ==
  ASSUME TypeOK,
         NEW q \in Entries, NEW trace \in SUBSET Slots, NEW factor \in Factors,
         UpdateBitmapScore(q, trace, factor),
         NEW p \in Entries, p # q, Held(p) = {}
  PROVE  Held(p)' = {}
BY HeldAfterScore

(* A score that wins no slot changes nothing a cull would read. *)
LEMMA ScoreKeepsFavoredCover ==
  ASSUME TableInv, FavoredCover, UNCHANGED favored,
         NEW q \in Entries, NEW trace \in SUBSET Slots, NEW factor \in Factors,
         UpdateBitmapScore(q, trace, factor)
  PROVE  FavoredCover'
<1> DEFINE won == Won(q, trace, factor)
<1>1. score_changed' = (score_changed \/ won # {})
  BY DEF UpdateBitmapScore, Refs
<1>2. CASE won # {}
  BY <1>1, <1>2 DEF FavoredCover
<1>3. CASE won = {}
  <2>1. score_changed' = score_changed
    BY <1>1, <1>3 DEF TableInv, TypeOK
  <2>2. top_rated' = top_rated
    BY <1>3 DEF UpdateBitmapScore, Refs, TableInv, TypeOK
  <2>3. Cardinality({}) = 0
    BY FS_EmptySet
  <2>4. \A p \in Entries : Refs(q, {})[p] = tc_ref[p]
    BY <2>3 DEF Refs, TableInv, TypeOK
  <2>5. \A p \in Entries : tc_ref[p] = 0 => trace_mini[p] = {}
    <3>1. \A p \in Entries : IsFiniteSet(Held(p))
      BY SlotSetsFinite DEF Held
    <3>2. QED
      BY <3>1, FS_EmptySet DEF TableInv, RefsExact, CopyWhileReferenced
  <2>6. \A p \in Entries : trace_mini'[p] = trace_mini[p]
    <3>1. trace_mini' = [p \in Entries |->
                           IF p # q THEN IF Refs(q, won)[p] = 0 THEN {} ELSE trace_mini[p]
                           ELSE IF won # {} /\ RefreshesCopy(q, won) THEN trace
                           ELSE trace_mini[q]]
      BY DEF UpdateBitmapScore
    <3>2. QED
      BY <1>3, <2>4, <2>5, <3>1
  <2>7. QED
    BY <2>1, <2>2, <2>6 DEF FavoredCover
<1>4. QED
  BY <1>2, <1>3

(* Registering windows for q gives none to another entry. *)
LEMMA WindowFrame ==
  ASSUME QueueTypeOK, NEW q \in Entries, NEW windows \in SUBSET Windows,
         UpdateQWindow(q, windows)
  PROVE  /\ cks_q_w' \in [Windows -> Entries \cup {NULL}]
         /\ \A p \in Entries : p # q /\ (\A w \in Windows : cks_q_w[w] # p)
                                 => \A w \in Windows : cks_q_w'[w] # p
BY DEF UpdateQWindow, QueueTypeOK

(* What a calibration that passes does to the queue's state. *)
LEMMA CalibratedFacts ==
  ASSUME TableInv, QueueTypeOK, NEW q \in Entries, Calibrated(q)
  PROVE  /\ TableNext
         /\ cal_failed' = [cal_failed EXCEPT ![q] = 0]
         /\ cal_failed' \in [Entries -> 0..CAL_CHANCES]
         /\ cks_q_w' \in [Windows -> Entries \cup {NULL}]
         /\ windows_cks' \in [Entries -> SUBSET Windows]
         /\ UNCHANGED meaningful
         /\ \A p \in Entries : p # q /\ Unused(p) => Unused(p)'
         /\ FavoredCover /\ UNCHANGED favored => FavoredCover'
         /\ OwnerShowsWindow => OwnerShowsWindow'
<1>1. PICK trace \in SUBSET Slots \ {{}}, factor \in Factors, found \in SUBSET Windows :
        /\ RecordWindows(q, found)
        /\ UpdateQWindow(q, windows_cks[q] \cup found)
        /\ cal_failed' = [cal_failed EXCEPT ![q] = 0]
        /\ UpdateBitmapScore(q, trace, factor)
        /\ UNCHANGED meaningful
  BY DEF Calibrated
<1>2. TypeOK
  BY DEF TableInv
<1>3. windows_cks[q] \cup found \in SUBSET Windows
  BY DEF QueueTypeOK
<1>4. TableNext
  BY <1>1 DEF TableNext
<1>5. /\ cks_q_w' \in [Windows -> Entries \cup {NULL}]
      /\ \A p \in Entries : p # q /\ (\A w \in Windows : cks_q_w[w] # p)
                              => \A w \in Windows : cks_q_w'[w] # p
  BY <1>1, <1>3, WindowFrame
<1>6. windows_cks' \in [Entries -> SUBSET Windows]
  BY <1>1 DEF RecordWindows, QueueTypeOK
<1>7. \A p \in Entries : p # q /\ Unused(p) => Unused(p)'
  BY <1>1, <1>2, <1>5, ScoreFrame DEF Unused
<1>8. FavoredCover /\ UNCHANGED favored => FavoredCover'
  BY <1>1, ScoreKeepsFavoredCover
<1>9. OwnerShowsWindow => OwnerShowsWindow'
  BY <1>1 DEF OwnerShowsWindow, RecordWindows, UpdateQWindow, QueueTypeOK
<1>10. cal_failed' \in [Entries -> 0..CAL_CHANCES]
  <2>1. cal_failed \in [Entries -> 0..CAL_CHANCES] /\ 0 \in 0..CAL_CHANCES
    BY DEF QueueTypeOK
  <2>2. QED
    BY ONLY <1>1, <2>1
<1>11. QED
  BY <1>1, <1>4, <1>5, <1>6, <1>7, <1>8, <1>9, <1>10

(* What trimming does when it shortens the entry. *)
Trimmed ==
  /\ \E trace \in SUBSET Slots \ {{}}, factor \in 0..fav_factor[queue_cur] :
       UpdateBitmapScore(queue_cur, trace, factor)
  /\ UpdateQWindow(queue_cur, windows_cks[queue_cur])
  /\ meaningful' = [meaningful EXCEPT ![queue_cur] = TRUE]
  /\ UNCHANGED windows_cks

LEMMA TrimmedFacts ==
  ASSUME TableInv, QueueTypeOK, queue_cur \in Entries, Trimmed
  PROVE  /\ TableNext
         /\ cks_q_w' \in [Windows -> Entries \cup {NULL}]
         /\ meaningful' \in [Entries -> BOOLEAN]
         /\ UNCHANGED windows_cks
         /\ \A p \in Entries : p # queue_cur /\ Unused(p) => Unused(p)'
         /\ FavoredCover /\ UNCHANGED favored => FavoredCover'
         /\ OwnerShowsWindow => OwnerShowsWindow'
<1>1. PICK trace \in SUBSET Slots \ {{}}, factor \in 0..fav_factor[queue_cur] :
        UpdateBitmapScore(queue_cur, trace, factor)
  BY DEF Trimmed
<1>2. TypeOK /\ factor \in Factors
  BY FactorAssumption DEF TableInv, TypeOK, Factors
<1>3. UpdateQWindow(queue_cur, windows_cks[queue_cur]) /\ windows_cks[queue_cur] \in SUBSET Windows
  BY DEF Trimmed, QueueTypeOK
<1>4. /\ cks_q_w' \in [Windows -> Entries \cup {NULL}]
      /\ \A p \in Entries : p # queue_cur /\ (\A w \in Windows : cks_q_w[w] # p)
                              => \A w \in Windows : cks_q_w'[w] # p
  BY <1>3, WindowFrame
<1>5. \A p \in Entries : p # queue_cur /\ Unused(p) => Unused(p)'
  BY <1>1, <1>2, <1>4, ScoreFrame DEF Unused
<1>6. TableNext
  BY <1>1, <1>2 DEF TableNext
<1>7. FavoredCover /\ UNCHANGED favored => FavoredCover'
  BY <1>1, <1>2, ScoreKeepsFavoredCover
<1>8. OwnerShowsWindow => OwnerShowsWindow'
  BY <1>3 DEF Trimmed, OwnerShowsWindow, UpdateQWindow, QueueTypeOK
<1>9. meaningful' \in [Entries -> BOOLEAN]
  BY DEF Trimmed, QueueTypeOK
<1>10. QED
  BY <1>4, <1>5, <1>6, <1>7, <1>8, <1>9 DEF Trimmed

(* Trimming scores the entry again or leaves table and record alone. *)
LEMMA TrimCaseSplit ==
  ASSUME TrimCase
  PROVE  Trimmed \/ UNCHANGED <<tableVars, recordVars>>
BY DEF TrimCase, Trimmed

-----------------------------------------------------------------------------
(* Every step of the queue is a step of the table, or leaves it alone. *)
LEMMA StepsTable == QueueInv /\ [Next]_vars => [TableNext]_tableVars
<1> SUFFICES ASSUME QueueInv, Next PROVE [TableNext]_tableVars
  BY DEF vars
<1>1. TableInv /\ QueueTypeOK /\ CursorInv
  BY DEF QueueInv
<1>2. CASE DryRunPasses
  <2>1. dry_q \in Entries /\ Calibrated(dry_q)
    BY <1>1, <1>2 DEF DryRunPasses, CursorInv, QueueTypeOK
  <2>2. QED
    BY <1>1, <2>1, CalibratedFacts
<1>3. CASE LoopHead
  BY <1>3 DEF LoopHead, CullQueue, TableNext
<1>4. CASE Recalibrate
  <2>1. queue_cur \in Entries
    BY <1>1, <1>4 DEF Recalibrate, CursorInv, QueueTypeOK
  <2>2. CASE Calibrated(queue_cur)
    BY <1>1, <2>1, <2>2, CalibratedFacts
  <2>3. QED
    BY <1>4, <2>2 DEF Recalibrate, CalibrationFails
<1>5. CASE TrimCase
  <2>1. queue_cur \in Entries
    BY <1>1, <1>5 DEF TrimCase, CursorInv, QueueTypeOK
  <2>2. QED
    BY <1>1, <1>5, <2>1, TrimCaseSplit, TrimmedFacts
<1>6. CASE AddToQueue
  BY <1>1, <1>6 DEF AddToQueue, TableNext, QueueTypeOK
<1>7. CASE CalibrateNew
  <2>1. queued_paths \in Entries
    BY <1>1 DEF QueueTypeOK
  <2>2. CASE Calibrated(queued_paths)
    BY <1>1, <2>1, <2>2, CalibratedFacts
  <2>3. QED
    BY <1>7, <2>2 DEF CalibrateNew, CalibrationFails
<1>8. CASE DryRunSkips \/ DryRunFatal \/ SkipEntry \/ TakeEntry \/ Score \/ Abandon \/ Terminated
  BY <1>8 DEF DryRunSkips, DryRunFatal, SkipEntry, TakeEntry, Score, Abandon, Terminated, vars
<1>9. QED
  BY <1>2, <1>3, <1>4, <1>5, <1>6, <1>7, <1>8 DEF Next

(* The initial state satisfies the invariant. *)
LEMMA QueueInitInv == Init => QueueInv
<1> SUFFICES ASSUME Init PROVE QueueInv
  OBVIOUS
<1>1. TableInv
  BY TableInitInv DEF Init
<1>2. QueueTypeOK
  BY <1>1 DEF Init, QueueTypeOK, TableInv, Phases
<1>3. CursorInv
  BY DEF Init, CursorInv
<1>4. \A q \in Entries : Held(q) = {}
  BY DEF Init, TableInit, Held
<1>5. FreshInv /\ FavoredCalibrated
  BY <1>4 DEF Init, FreshInv, Fresh, Unused, FavoredCalibrated
<1>6. FavoredCover /\ OwnerShowsWindow
  BY DEF Init, TableInit, FavoredCover, OwnerShowsWindow
<1>7. UnfuzzedCounted
  <2>1. {q \in Paths : fuzz_level[q] = 0} = 1..InitialPaths
    BY DEF Init, Paths
  <2>2. Cardinality(1..InitialPaths) = InitialPaths
    BY FS_Interval
  <2>3. queued_paths = InitialPaths /\ pending_not_fuzzed = InitialPaths
    BY DEF Init
  <2>4. Cardinality({q \in Paths : fuzz_level[q] = 0}) = InitialPaths
    BY ONLY <2>1, <2>2
  <2>5. QED
    BY <2>3, <2>4 DEF UnfuzzedCounted
<1>8. QED
  BY <1>1, <1>2, <1>3, <1>5, <1>6, <1>7 DEF QueueInv

(* A cull leaves at most one pending pick per byte. *)
LEMMA PicksBounded ==
  ASSUME NEW picked \in SUBSET Slots
  PROVE  LET fresh == {i \in picked : fuzz_level[top_rated[i]] = 0}
         IN Cardinality(fresh) \in 0..(U32 - 1)
<1> DEFINE fresh == {i \in picked : fuzz_level[top_rated[i]] = 0}
<1>1. IsFiniteSet(Slots) /\ Cardinality(Slots) = MAP_SIZE
  BY FS_Interval, MapSizeAssumption DEF Slots
<1>2. fresh \subseteq Slots
  OBVIOUS
<1>3. Cardinality(fresh) <= MAP_SIZE /\ Cardinality(fresh) \in Nat
  BY <1>1, <1>2, FS_Subset, FS_CardinalityType
<1>4. QED
  BY <1>3, MapSizeAssumption

(* Counters, flags, registers and records keep their types. *)
LEMMA TypesKept == ASSUME QueueInv, Next, TableInv' PROVE QueueTypeOK'
<1> USE DEF QueueTypeOK
<1>1. TableInv /\ QueueTypeOK /\ CursorInv /\ UnfuzzedCounted /\ TypeOK'
  BY DEF QueueInv, TableInv
<1>2. CASE DryRunPasses
  <2>1. dry_q \in Entries /\ Calibrated(dry_q)
    BY <1>1, <1>2 DEF DryRunPasses, CursorInv
  <2>2. /\ cal_failed' \in [Entries -> 0..CAL_CHANCES] /\ UNCHANGED meaningful
        /\ cks_q_w' \in [Windows -> Entries \cup {NULL}]
        /\ windows_cks' \in [Entries -> SUBSET Windows]
    BY <1>1, <2>1, CalibratedFacts
  <2>3. dry_q' \in 1..(MaxPaths + 1) /\ phase' \in Phases
    BY <1>1, <1>2 DEF DryRunPasses, AfterDryRun, CursorInv, Phases
  <2>4. QED
    BY <1>1, <1>2, <2>2, <2>3 DEF DryRunPasses, flagVars, countVars
<1>3. CASE DryRunSkips
  BY <1>1, <1>3 DEF DryRunSkips, AfterDryRun, CursorInv, recordVars, flagVars, countVars, Phases
<1>4. CASE DryRunFatal
  BY <1>1, <1>4 DEF DryRunFatal, recordVars, flagVars, entryVars, countVars, Phases
<1>5. CASE LoopHead
  <2>1. /\ favored' \in [Entries -> BOOLEAN] /\ sch_interesting' \in [Entries -> BOOLEAN]
        /\ fs_redundant' \in [Entries -> BOOLEAN] /\ meaningful' \in [Entries -> BOOLEAN]
        /\ pending_favored' \in 0..(U32 - 1)
    <3>1. CASE CullQueue
      <4>1. PICK picked \in SUBSET Slots :
              pending_favored' = Cardinality({i \in picked : fuzz_level[top_rated[i]] = 0})
        BY <3>1 DEF CullQueue
      <4>2. pending_favored' \in 0..(U32 - 1)
        BY <4>1, PicksBounded
      <4>3. tr_intersting' \in [Entries -> BOOLEAN]
        BY <1>1 DEF TypeOK
      <4>4. QED
        BY <1>1, <3>1, <4>2, <4>3 DEF CullQueue, Needed
    <3>2. CASE ~score_changed
      BY <1>1, <1>5, <3>2 DEF LoopHead, flagVars
    <3>3. QED
      BY <1>5, <3>1, <3>2 DEF LoopHead
  <2>2. QED
    BY <1>1, <1>5, <2>1 DEF LoopHead, entryVars, Phases
<1>6. CASE SkipEntry
  BY <1>1, <1>6 DEF SkipEntry, NextEntry, recordVars, flagVars, entryVars, countVars, Phases
<1>7. CASE TakeEntry \/ Score \/ Terminated
  BY <1>1, <1>7
  DEF TakeEntry, Score, Terminated, vars, queueVars, recordVars, flagVars, entryVars, countVars, Phases
<1>8. CASE Recalibrate
  <2>1. queue_cur \in Entries /\ cal_failed[queue_cur] < CAL_CHANCES
    BY <1>1, <1>8 DEF Recalibrate, CursorInv
  <2>2. CASE Calibrated(queue_cur)
    <3>1. /\ cal_failed' \in [Entries -> 0..CAL_CHANCES] /\ UNCHANGED meaningful
          /\ cks_q_w' \in [Windows -> Entries \cup {NULL}]
          /\ windows_cks' \in [Entries -> SUBSET Windows]
      BY <1>1, <2>1, <2>2, CalibratedFacts
    <3>2. QED
      BY <1>1, <1>8, <3>1 DEF Recalibrate, flagVars, countVars, Phases
  <2>3. CASE CalibrationFails(queue_cur)
    <3>1. cal_failed' \in [Entries -> 0..CAL_CHANCES]
      BY <1>1, <2>1, <2>3 DEF CalibrationFails
    <3>2. QED
      BY <1>1, <1>8, <2>3, <3>1
      DEF Recalibrate, CalibrationFails, recordVars, flagVars, countVars, Phases
  <2>4. QED
    BY <1>8, <2>2, <2>3 DEF Recalibrate
<1>9. CASE TrimCase
  <2>1. queue_cur \in Entries
    BY <1>1, <1>9 DEF TrimCase, CursorInv
  <2>2. CASE Trimmed
    BY <1>1, <1>9, <2>1, <2>2, TrimmedFacts DEF TrimCase, flagVars, countVars, Phases
  <2>3. CASE UNCHANGED <<tableVars, recordVars>>
    BY <1>1, <1>9, <2>3 DEF TrimCase, recordVars, flagVars, countVars, Phases
  <2>4. QED
    BY <1>9, <2>2, <2>3, TrimCaseSplit
<1>10. CASE AddToQueue
  BY <1>1, <1>10 DEF AddToQueue, UnfuzzedCounted, flagVars, entryVars, Phases
<1>11. CASE CalibrateNew
  <2>1. queued_paths \in Entries /\ cal_failed[queued_paths] = 0
    BY <1>1, <1>11 DEF CalibrateNew, QueueInv, FreshInv
  <2>2. CASE Calibrated(queued_paths)
    <3>1. /\ cal_failed' \in [Entries -> 0..CAL_CHANCES] /\ UNCHANGED meaningful
          /\ cks_q_w' \in [Windows -> Entries \cup {NULL}]
          /\ windows_cks' \in [Entries -> SUBSET Windows]
      BY <1>1, <2>1, <2>2, CalibratedFacts
    <3>2. QED
      BY <1>1, <1>11, <3>1 DEF CalibrateNew, flagVars, countVars, Phases
  <2>3. CASE CalibrationFails(queued_paths)
    <3>1. cal_failed' \in [Entries -> 0..CAL_CHANCES]
      BY <1>1, <2>1, <2>3 DEF CalibrationFails
    <3>2. QED
      BY <1>1, <1>11, <2>3, <3>1
      DEF CalibrateNew, CalibrationFails, recordVars, flagVars, countVars, Phases
  <2>4. QED
    BY <1>11, <2>2, <2>3 DEF CalibrateNew
<1>12. CASE Abandon
  <2>1. pending_not_fuzzed' \in 0..(U32 - 1) /\ pending_favored' \in 0..(U32 - 1)
    BY SMTT(30), <1>12 DEF Abandon, Decrement, QueueInv
  <2>2. fuzz_level' \in [Entries -> 0..SchLevel]
    <3>1. fuzz_level \in [Entries -> 0..SchLevel]
      BY <1>1
    <3>2. fuzz_level' = [fuzz_level EXCEPT ![queue_cur] = IF @ < SchLevel THEN @ + 1 ELSE @]
      BY <1>12 DEF Abandon
    <3>3. \A n \in 0..SchLevel : (IF n < SchLevel THEN n + 1 ELSE n) \in 0..SchLevel
      OBVIOUS
    <3>4. QED
      BY ONLY <3>1, <3>2, <3>3
  <2>3. queue_cur' \in 0..MaxPaths /\ phase' \in Phases
    BY <1>1, <1>12 DEF Abandon, NextEntry, CursorInv, Phases
  <2>4. QED
    BY <1>1, <1>12, <2>1, <2>2, <2>3 DEF Abandon, recordVars, flagVars
<1>13. QED
  BY <1>2, <1>3, <1>4, <1>5, <1>6, <1>7, <1>8, <1>9, <1>10, <1>11, <1>12 DEF Next

(* The cursor stays on the queue and the stages keep what they assume. *)
LEMMA CursorKept == ASSUME QueueInv, Next, QueueTypeOK' PROVE CursorInv'
<1>1. TableInv /\ QueueTypeOK /\ CursorInv /\ QueueTypeOK'
  BY DEF QueueInv
<1> USE DEF CursorInv, QueueTypeOK
<1>2. CASE DryRunPasses
  <2>1. dry_q \in Entries /\ Calibrated(dry_q)
    BY <1>1, <1>2 DEF DryRunPasses
  <2>2. cal_failed' = [cal_failed EXCEPT ![dry_q] = 0]
    BY <1>1, <2>1, CalibratedFacts
  <2>3. QED
    BY <1>1, <1>2, <2>1, <2>2 DEF DryRunPasses, AfterDryRun
<1>3. CASE DryRunSkips
  BY <1>1, <1>3 DEF DryRunSkips, AfterDryRun
<1>4. CASE DryRunFatal
  BY <1>1, <1>4 DEF DryRunFatal, entryVars
<1>5. CASE LoopHead
  BY <1>1, <1>5 DEF LoopHead, entryVars
<1>6. CASE SkipEntry
  BY <1>1, <1>6 DEF SkipEntry, NextEntry, entryVars
<1>7. CASE TakeEntry
  BY <1>1, <1>7 DEF TakeEntry, MayRecalibrate, entryVars
<1>8. CASE Score \/ Terminated
  <2>1. CASE Score
    BY <1>1, <2>1 DEF Score, entryVars
  <2>2. CASE Terminated
    BY <1>1, <2>2 DEF Terminated, vars, queueVars, entryVars
  <2>3. QED
    BY <1>8, <2>1, <2>2
<1>9. CASE Recalibrate
  <2>1. queue_cur \in Entries
    BY <1>1, <1>9 DEF Recalibrate
  <2>2. CASE Calibrated(queue_cur) /\ phase' = "trim"
    <3>1. cal_failed' = [cal_failed EXCEPT ![queue_cur] = 0]
      BY <1>1, <2>1, <2>2, CalibratedFacts
    <3>2. QED
      BY <1>1, <1>9, <2>1, <2>2, <3>1 DEF Recalibrate
  <2>3. CASE CalibrationFails(queue_cur) /\ phase' = "abandon"
    BY <1>1, <1>9, <2>1, <2>3 DEF Recalibrate, CalibrationFails
  <2>4. QED
    BY <1>9, <2>2, <2>3 DEF Recalibrate
<1>10. CASE TrimCase
  BY <1>1, <1>10 DEF TrimCase
<1>11. CASE AddToQueue
  BY <1>1, <1>11 DEF AddToQueue, entryVars
<1>12. CASE CalibrateNew
  <2>1. queued_paths \in Entries
    BY <1>1
  <2>2. CASE Calibrated(queued_paths)
    <3>1. cal_failed' = [cal_failed EXCEPT ![queued_paths] = 0]
      BY <1>1, <2>1, <2>2, CalibratedFacts
    <3>2. QED
      BY <1>1, <1>12, <2>1, <3>1 DEF CalibrateNew
  <2>3. CASE CalibrationFails(queued_paths)
    BY <1>1, <1>12, <2>1, <2>3 DEF CalibrateNew, CalibrationFails
  <2>4. QED
    BY <1>12, <2>2, <2>3 DEF CalibrateNew
<1>13. CASE Abandon
  BY <1>1, <1>13 DEF Abandon, NextEntry
<1>14. QED
  BY <1>2, <1>3, <1>4, <1>5, <1>6, <1>7, <1>8, <1>9, <1>10, <1>11, <1>12, <1>13 DEF Next

(* A window keeps an owner that shows it. *)
LEMMA OwnerKept == ASSUME QueueInv, Next PROVE OwnerShowsWindow'
<1>1. TableInv /\ QueueTypeOK /\ CursorInv /\ OwnerShowsWindow
  BY DEF QueueInv
<1>2. CASE UNCHANGED <<cks_q_w, windows_cks>>
  BY <1>1, <1>2 DEF OwnerShowsWindow
<1>3. ASSUME NEW q \in Entries, Calibrated(q) PROVE OwnerShowsWindow'
  BY <1>1, <1>3, CalibratedFacts
<1>4. ASSUME queue_cur \in Entries, Trimmed PROVE OwnerShowsWindow'
  BY <1>1, <1>4, TrimmedFacts
<1>5. /\ TrimCase \/ Recalibrate => queue_cur \in Entries
      /\ DryRunPasses => dry_q \in Entries
      /\ queued_paths \in Entries
  BY <1>1 DEF CursorInv, QueueTypeOK, TrimCase, Recalibrate, DryRunPasses
<1>6. CASE DryRunPasses
  BY <1>3, <1>5, <1>6 DEF DryRunPasses
<1>7. CASE Recalibrate
  BY <1>2, <1>3, <1>5, <1>7 DEF Recalibrate, CalibrationFails, recordVars
<1>8. CASE CalibrateNew
  BY <1>2, <1>3, <1>5, <1>8 DEF CalibrateNew, CalibrationFails, recordVars
<1>9. CASE TrimCase
  BY <1>2, <1>4, <1>5, <1>9, TrimCaseSplit DEF recordVars
<1>10. CASE \/ DryRunSkips \/ DryRunFatal \/ LoopHead \/ SkipEntry \/ TakeEntry
            \/ Score \/ AddToQueue \/ Abandon \/ Terminated
  BY <1>2, <1>10
  DEF DryRunSkips, DryRunFatal, LoopHead, SkipEntry, TakeEntry, Score, AddToQueue,
      Abandon, Terminated, recordVars, vars
<1>11. QED
  BY <1>6, <1>7, <1>8, <1>9, <1>10 DEF Next

(* Until the table changes the favored entries cover it: a cull marks what *)
(* CullCovers asks for, and nothing else takes a favored mark away.        *)
LEMMA CoverKept == ASSUME QueueInv, Next, TableInv' PROVE FavoredCover'
<1>1. TableInv /\ QueueTypeOK /\ CursorInv /\ FavoredCover
  BY DEF QueueInv
<1>2. CASE UNCHANGED <<top_rated, trace_mini, score_changed, favored>>
  BY <1>1, <1>2 DEF FavoredCover
<1>3. ASSUME NEW q \in Entries, Calibrated(q), UNCHANGED favored PROVE FavoredCover'
  BY <1>1, <1>3, CalibratedFacts
<1>4. /\ TrimCase \/ Recalibrate => queue_cur \in Entries
      /\ DryRunPasses => dry_q \in Entries
      /\ queued_paths \in Entries
  BY <1>1 DEF CursorInv, QueueTypeOK, TrimCase, Recalibrate, DryRunPasses
<1>5. CASE DryRunPasses
  BY <1>3, <1>4, <1>5 DEF DryRunPasses, flagVars
<1>6. CASE Recalibrate
  BY <1>2, <1>3, <1>4, <1>6 DEF Recalibrate, CalibrationFails, flagVars, tableVars
<1>7. CASE CalibrateNew
  BY <1>2, <1>3, <1>4, <1>7 DEF CalibrateNew, CalibrationFails, flagVars, tableVars
<1>8. CASE TrimCase
  <2>1. UNCHANGED favored
    BY <1>8 DEF TrimCase, flagVars
  <2>2. CASE Trimmed
    BY <1>1, <1>4, <1>8, <2>1, <2>2, TrimmedFacts
  <2>3. QED
    BY <1>2, <1>8, <2>1, <2>2, TrimCaseSplit DEF tableVars
<1>9. CASE LoopHead
  <2>1. CASE CullQueue
    <3>1. CullCovers' /\ TypeOK' /\ score_changed' = FALSE
      BY <2>1 DEF TableInv, CullQueue, CullTable
    <3>2. \A q \in Entries : tr_intersting'[q] => favored'[q]
      BY <2>1 DEF CullQueue, Needed
    <3>3. QED
      BY <3>1, <3>2 DEF CullCovers, FavoredCover, TypeOK
  <2>2. QED
    BY <1>2, <1>9, <2>1 DEF LoopHead, tableVars, flagVars
<1>10. CASE AddToQueue
  BY <1>2, <1>10 DEF AddToQueue, MarkNewEntry, flagVars
<1>11. CASE \/ DryRunSkips \/ DryRunFatal \/ SkipEntry \/ TakeEntry \/ Score \/ Abandon
            \/ Terminated
  BY <1>2, <1>11
  DEF DryRunSkips, DryRunFatal, SkipEntry, TakeEntry, Score, Abandon, Terminated,
      tableVars, flagVars, vars
<1>12. QED
  BY <1>5, <1>6, <1>7, <1>8, <1>9, <1>10, <1>11 DEF Next

(* A calibration that passes puts only its own entry to use. *)
LEMMA CalibrationKeepsOthers ==
  ASSUME TableInv, QueueTypeOK, UNCHANGED favored, NEW q \in Entries, Calibrated(q),
         NEW p \in Entries, p # q
  PROVE  cal_failed'[p] = cal_failed[p] /\ (Fresh(p) => Fresh(p)')
<1>1. cal_failed' = [cal_failed EXCEPT ![q] = 0] /\ (Unused(p) => Unused(p)')
  BY CalibratedFacts
<1>2. QED
  BY <1>1 DEF QueueTypeOK, Fresh

(* An entry used by the table, the windows or the favorites is calibrated: *)
(* the same statement as FavoredCalibrated, read the other way round.      *)
LEMMA UsedIsCalibrated ==
  FavoredCalibrated <=> \A q \in Entries : Fresh(q) \/ (q \in Paths /\ cal_failed[q] = 0)
BY DEF FavoredCalibrated, Fresh, Unused

(* The step lemma of FavoredCalibrated and FreshInv, which need each other. *)
LEMMA FreshKept ==
  ASSUME QueueInv, Next, QueueTypeOK' PROVE FavoredCalibrated' /\ FreshInv'
<1> DEFINE Good(q) == Fresh(q) \/ (q \in Paths /\ cal_failed[q] = 0)
<1>1. /\ TableInv /\ QueueTypeOK /\ CursorInv /\ FreshInv /\ QueueTypeOK'
      /\ \A q \in Entries : Good(q)
  BY UsedIsCalibrated DEF QueueInv
<1>2. (\A q \in Entries : Good(q)') => FavoredCalibrated'
  BY DEF FavoredCalibrated, Fresh, Unused
<1>3. /\ queue_cur \in Paths \cup {NULL} /\ queued_paths \in Paths /\ Paths \subseteq Entries
      /\ \A q \in Entries : q \in Paths <=> q <= queued_paths
  <2>1. /\ queued_paths \in 1..MaxPaths /\ queue_cur \in 0..queued_paths /\ NULL = 0
        /\ Entries = 1..MaxPaths /\ MaxPaths \in Nat
    BY <1>1 DEF QueueTypeOK, CursorInv
  <2>2. QED
    BY <2>1 DEF Paths
<1>4. ASSUME UNCHANGED <<top_rated, cks_q_w, favored>>, NEW p \in Entries, Fresh(p)
      PROVE  Fresh(p)'
  BY <1>4 DEF Fresh, Unused, Held
<1>5. CASE DryRunPasses
  <2>1. /\ dry_q \in Paths /\ Calibrated(dry_q) /\ UNCHANGED <<favored, queued_paths>>
        /\ Paths' = Paths
    BY <1>1, <1>3, <1>5 DEF DryRunPasses, CursorInv, flagVars, QueueTypeOK, Paths
  <2>2. cal_failed' = [cal_failed EXCEPT ![dry_q] = 0]
    BY <1>1, <1>3, <2>1, CalibratedFacts
  <2>3. \A p \in Entries : p # dry_q =>
          cal_failed'[p] = cal_failed[p] /\ (Fresh(p) => Fresh(p)')
    BY <1>1, <1>3, <2>1, CalibrationKeepsOthers
  <2>4. \A q \in Entries : Good(q)'
    BY <1>1, <1>3, <2>1, <2>2, <2>3 DEF QueueTypeOK
  <2>5. FreshInv'
    <3>1. phase = "dry_run" /\ dry_q' = dry_q + 1 /\ phase' # "calibrate_new"
      BY <1>5 DEF DryRunPasses, AfterDryRun
    <3>2. \A q \in Entries : q >= dry_q + 1 => Fresh(q)'
      BY <1>1, <2>3, <3>1 DEF FreshInv, QueueTypeOK
    <3>3. QED
      BY <3>1, <3>2 DEF FreshInv
  <2>6. QED
    BY <1>2, <2>4, <2>5
<1>6. CASE DryRunSkips
  <2>1. /\ phase = "dry_run" /\ dry_q' = dry_q + 1 /\ phase' # "calibrate_new"
        /\ UNCHANGED <<top_rated, cks_q_w, favored, queued_paths>>
        /\ cal_failed' = [cal_failed EXCEPT ![dry_q] = CAL_CHANCES]
    BY <1>6 DEF DryRunSkips, AfterDryRun, tableVars, recordVars, flagVars
  <2>2. \A q \in Entries : Fresh(q) => Fresh(q)'
    BY <1>4, <2>1
  <2>3. \A q \in Entries : q >= dry_q => Fresh(q)
    BY <1>1, <2>1 DEF FreshInv
  <2>4. dry_q \in Entries /\ \A q \in Entries : q # dry_q => cal_failed'[q] = cal_failed[q]
    BY <1>1, <2>1 DEF QueueTypeOK, CursorInv
  <2>5. \A q \in Entries : Good(q)'
    BY <1>1, <2>1, <2>2, <2>3, <2>4 DEF Paths
  <2>6. FreshInv'
    BY <1>1, <2>1, <2>2, <2>3 DEF FreshInv, QueueTypeOK
  <2>7. QED
    BY <1>2, <2>5, <2>6
<1>7. CASE LoopHead
  <2>1. UNCHANGED <<top_rated, cks_q_w, cal_failed, queued_paths>> /\ phase' = "select"
    BY <1>7 DEF LoopHead, CullQueue, CullTable, tableVars, entryVars
  <2>2. \A q \in Entries : Unused(q) => Unused(q)'
    BY <2>1 DEF Unused, Held
  <2>3. CASE CullQueue
    <3>1. PICK picked \in SUBSET Slots : CullTable(picked)
      BY <2>3 DEF CullQueue
    <3>2. \A q \in Entries : tr_intersting'[q] => Held(q) # {}
      BY <3>1 DEF CullTable, Held
    <3>3. \A q \in Entries : Unused(q) => ~favored'[q]
      <4>1. /\ sch_interesting' = [q \in Entries |-> \E w \in Windows : cks_q_w[w] = q]
            /\ favored' = Needed(tr_intersting', sch_interesting')
        BY <2>3 DEF CullQueue
      <4>2. \A q \in Entries : sch_interesting'[q] => ~Unused(q)
        BY <4>1 DEF Unused
      <4>3. \A q \in Entries : favored'[q] => tr_intersting'[q] \/ sch_interesting'[q]
        BY <4>1 DEF Needed
      <4>4. QED
        BY <3>2, <4>2, <4>3 DEF Unused
    <3>4. \A q \in Entries : Good(q)'
      BY <1>1, <2>1, <2>2, <3>3 DEF Fresh, Paths
    <3>5. QED
      BY <1>2, <2>1, <3>4 DEF FreshInv
  <2>4. CASE UNCHANGED flagVars
    BY <1>1, <1>2, <2>1, <2>2, <2>4 DEF Fresh, FreshInv, flagVars, Paths
  <2>5. QED
    BY <1>7, <2>3, <2>4 DEF LoopHead
<1>8. CASE Recalibrate
  <2>1. /\ queue_cur \in Paths /\ UNCHANGED <<favored, queued_paths>> /\ Paths' = Paths
        /\ cal_failed[queue_cur] # 0 /\ FreshInv'
    BY <1>1, <1>3, <1>8 DEF Recalibrate, CursorInv, FreshInv, flagVars, Paths
  <2>2. CASE Calibrated(queue_cur)
    <3>1. cal_failed' = [cal_failed EXCEPT ![queue_cur] = 0]
      BY <1>1, <1>3, <2>1, <2>2, CalibratedFacts
    <3>2. \A p \in Entries : p # queue_cur =>
            cal_failed'[p] = cal_failed[p] /\ (Fresh(p) => Fresh(p)')
      BY <1>1, <1>3, <2>1, <2>2, CalibrationKeepsOthers
    <3>3. \A q \in Entries : Good(q)'
      BY <1>1, <1>3, <2>1, <3>1, <3>2 DEF QueueTypeOK
    <3>4. QED
      BY <1>2, <2>1, <3>3
  <2>3. CASE CalibrationFails(queue_cur)
    <3>1. /\ UNCHANGED <<top_rated, cks_q_w, favored>>
          /\ \A q \in Entries : q # queue_cur => cal_failed'[q] = cal_failed[q]
      BY <1>1, <2>1, <2>3 DEF CalibrationFails, tableVars, recordVars, QueueTypeOK
    <3>2. Fresh(queue_cur) /\ \A q \in Entries : Fresh(q) => Fresh(q)'
      BY <1>1, <1>3, <1>4, <2>1, <3>1
    <3>3. QED
      BY <1>1, <1>2, <1>3, <2>1, <3>1, <3>2
  <2>4. QED
    BY <1>8, <2>2, <2>3 DEF Recalibrate
<1>9. CASE TrimCase
  <2>1. /\ queue_cur \in Paths /\ cal_failed[queue_cur] = 0 /\ Paths' = Paths
        /\ UNCHANGED <<favored, cal_failed, queued_paths>> /\ FreshInv'
    BY <1>1, <1>3, <1>9 DEF TrimCase, CursorInv, FreshInv, flagVars, Paths
  <2>2. CASE Trimmed
    <3>1. \A p \in Entries : p # queue_cur /\ Unused(p) => Unused(p)'
      BY <1>1, <1>3, <2>1, <2>2, TrimmedFacts
    <3>2. QED
      BY <1>1, <1>2, <2>1, <3>1 DEF Fresh
  <2>3. CASE UNCHANGED <<tableVars, recordVars>>
    BY <1>1, <1>2, <1>4, <2>1, <2>3 DEF tableVars, recordVars
  <2>4. QED
    BY <1>9, <2>2, <2>3, TrimCaseSplit
<1>10. CASE AddToQueue
  <2>1. /\ queued_paths' = queued_paths + 1 /\ phase' = "calibrate_new"
        /\ UNCHANGED <<top_rated, cks_q_w, favored, cal_failed>>
    BY <1>10 DEF AddToQueue, MarkNewEntry, flagVars, entryVars
  <2>2. queued_paths' \in Entries \ Paths /\ Paths \subseteq Paths'
    BY <1>1, <2>1 DEF QueueTypeOK, Paths
  <2>3. \A q \in Entries : Fresh(q) => Fresh(q)'
    BY <1>4, <2>1
  <2>4. Fresh(queued_paths')
    BY <1>1, <2>2
  <2>5. cal_failed[queued_paths'] = 0
    BY <1>1, <2>1, <2>2 DEF CursorInv, QueueTypeOK
  <2>6. Fresh(queued_paths)'
    BY <2>1, <2>2, <2>4 DEF Fresh, Unused, Held
  <2>7. FreshInv'
    BY <2>1, <2>5, <2>6 DEF FreshInv
  <2>8. QED
    BY <1>1, <1>2, <2>1, <2>2, <2>3, <2>7
<1>11. CASE CalibrateNew
  <2>1. /\ UNCHANGED <<favored, queued_paths>> /\ Paths' = Paths /\ FreshInv'
        /\ Fresh(queued_paths)
    BY <1>1, <1>11 DEF CalibrateNew, FreshInv, flagVars, Paths
  <2>2. CASE Calibrated(queued_paths)
    <3>1. cal_failed' = [cal_failed EXCEPT ![queued_paths] = 0]
      BY <1>1, <1>3, <2>2, CalibratedFacts
    <3>2. \A p \in Entries : p # queued_paths =>
            cal_failed'[p] = cal_failed[p] /\ (Fresh(p) => Fresh(p)')
      BY <1>1, <1>3, <2>1, <2>2, CalibrationKeepsOthers
    <3>3. \A q \in Entries : Good(q)'
      BY <1>1, <1>3, <2>1, <3>1, <3>2 DEF QueueTypeOK
    <3>4. QED
      BY <1>2, <2>1, <3>3
  <2>3. CASE CalibrationFails(queued_paths)
    <3>1. /\ UNCHANGED <<top_rated, cks_q_w, favored>>
          /\ \A q \in Entries : q # queued_paths => cal_failed'[q] = cal_failed[q]
      BY <1>1, <1>3, <2>1, <2>3 DEF CalibrationFails, tableVars, recordVars, QueueTypeOK
    <3>2. \A q \in Entries : Fresh(q) => Fresh(q)'
      BY <1>4, <3>1
    <3>3. QED
      BY <1>1, <1>2, <1>3, <2>1, <3>1, <3>2
  <2>4. QED
    BY <1>11, <2>2, <2>3 DEF CalibrateNew
<1>12. CASE DryRunFatal \/ SkipEntry \/ TakeEntry \/ Score \/ Abandon \/ Terminated
  <2>1. /\ UNCHANGED <<top_rated, cks_q_w, favored, cal_failed, queued_paths>>
        /\ phase' \notin {"dry_run", "calibrate_new"} \/ UNCHANGED vars
    BY <1>12
    DEF DryRunFatal, SkipEntry, TakeEntry, Score, Abandon, Terminated, NextEntry,
        tableVars, recordVars, flagVars, entryVars, queueVars, vars
  <2>2. FreshInv'
    BY <1>1, <2>1 DEF FreshInv, Fresh, Unused, Held, vars, tableVars, queueVars, flagVars,
                      entryVars, recordVars
  <2>3. \A q \in Entries : Fresh(q) => Fresh(q)'
    BY <1>4, <2>1
  <2>4. QED
    BY <1>1, <1>2, <2>1, <2>2, <2>3 DEF Paths
<1>13. QED
  BY <1>5, <1>6, <1>7, <1>8, <1>9, <1>10, <1>11, <1>12 DEF Next

(* pending_not_fuzzed stays between the entries never taken and all of     *)
(* them: the first pass over an entry is the only one that counts it off.  *)
LEMMA CountKept == ASSUME QueueInv, Next, QueueTypeOK' PROVE UnfuzzedCounted'
<1> DEFINE U == {q \in Paths : fuzz_level[q] = 0}
<1>1. QueueTypeOK /\ CursorInv /\ QueueTypeOK'
  BY DEF QueueInv
<1>2. Cardinality(U) <= pending_not_fuzzed /\ pending_not_fuzzed <= queued_paths
  BY DEF QueueInv, UnfuzzedCounted
<1>3. IsFiniteSet(U) /\ Cardinality(U) \in Nat
  <2>1. IsFiniteSet(Paths)
    BY <1>1, FS_Interval DEF QueueTypeOK, Paths
  <2>2. QED
    BY <2>1, FS_Subset, FS_CardinalityType
<1>4. UnfuzzedCounted' <=> /\ Cardinality(U') <= pending_not_fuzzed'
                           /\ pending_not_fuzzed' <= queued_paths'
  BY DEF UnfuzzedCounted
<1>5. CASE UNCHANGED <<queued_paths, fuzz_level, pending_not_fuzzed>>
  BY <1>2, <1>4, <1>5 DEF Paths
<1>6. CASE AddToQueue
  <2>1. /\ queued_paths' = queued_paths + 1 /\ pending_not_fuzzed' = pending_not_fuzzed + 1
        /\ fuzz_level' = fuzz_level
    BY <1>6 DEF AddToQueue, entryVars
  <2>2. fuzz_level[queued_paths'] = 0 /\ Paths' = Paths \cup {queued_paths'}
    <3>1. queued_paths' \in Entries /\ queued_paths \in Nat
      BY <1>1, <2>1 DEF QueueTypeOK
    <3>2. fuzz_level[queued_paths'] = 0
      BY <1>1, <2>1, <3>1 DEF CursorInv
    <3>3. Paths' = Paths \cup {queued_paths'}
      BY ONLY <2>1, <3>1 DEF Paths
    <3>4. QED
      BY <3>2, <3>3
  <2>3. U' = U \cup {queued_paths'}
    BY <2>1, <2>2
  <2>4. queued_paths' \notin U
    BY <1>1, <2>1 DEF QueueTypeOK, Paths
  <2>5. Cardinality(U') = Cardinality(U) + 1
    <3>1. IsFiniteSet(U)
      BY <1>3
    <3> HIDE DEF U
    <3>2. Cardinality(U \cup {queued_paths'}) = Cardinality(U) + 1
      BY ONLY <2>4, <3>1, FS_AddElement
    <3>3. QED
      BY ONLY <2>3, <3>2
  <2>6. QED
    BY <1>1, <1>2, <1>3, <1>4, <2>1, <2>5 DEF QueueTypeOK
<1>7. CASE Abandon
  <2>1. /\ queued_paths' = queued_paths /\ Paths' = Paths /\ queue_cur \in Entries
        /\ queue_cur \in Paths
        /\ fuzz_level' = [fuzz_level EXCEPT ![queue_cur] = IF @ < SchLevel THEN @ + 1 ELSE @]
    BY <1>1, <1>7 DEF Abandon, CursorInv, QueueTypeOK, Paths
  <2>2. fuzz_level'[queue_cur] # 0
    BY SMTT(30), <1>1, <2>1 DEF QueueTypeOK
  <2>3. \A q \in Entries : q # queue_cur => fuzz_level'[q] = fuzz_level[q]
    BY <1>1, <2>1 DEF QueueTypeOK
  <2>4. Paths \subseteq Entries
    BY <1>1 DEF QueueTypeOK, Paths
  <2>5. U' = U \ {queue_cur}
    BY <2>1, <2>2, <2>3, <2>4
  <2>6. CASE FirstPass(queue_cur)
    <3>1. pending_not_fuzzed' = Decrement(pending_not_fuzzed) /\ queue_cur \in U
      BY <1>7, <2>1, <2>6 DEF Abandon, FirstPass
    <3>2. Cardinality(U') = Cardinality(U) - 1
      <4>1. queue_cur \in U /\ IsFiniteSet(U)
        BY <1>3, <3>1
      <4> HIDE DEF U
      <4>2. Cardinality(U \ {queue_cur}) = Cardinality(U) - 1
        BY ONLY <4>1, FS_RemoveElement
      <4>3. QED
        BY ONLY <2>5, <4>2
    <3>3. Cardinality(U) # 0
      BY <1>3, <3>1, FS_EmptySet
    <3>4. /\ pending_not_fuzzed \in Nat /\ queued_paths \in Nat
      BY <1>1 DEF QueueTypeOK
    <3> HIDE DEF U
    <3>5. pending_not_fuzzed' = pending_not_fuzzed - 1
      BY <1>2, <1>3, <3>1, <3>3, <3>4 DEF Decrement
    <3>6. QED
      BY <1>2, <1>3, <1>4, <2>1, <3>2, <3>3, <3>4, <3>5
  <2>7. CASE ~FirstPass(queue_cur)
    <3>1. pending_not_fuzzed' = pending_not_fuzzed
      BY <1>7, <2>7 DEF Abandon
    <3>2. Cardinality(U') <= Cardinality(U) /\ Cardinality(U') \in Nat
      BY <1>3, <2>5, FS_Subset, FS_CardinalityType
    <3>3. QED
      BY <1>1, <1>2, <1>3, <1>4, <2>1, <3>1, <3>2 DEF QueueTypeOK
  <2>8. QED
    BY <2>6, <2>7
<1>8. CASE \/ DryRunPasses \/ DryRunSkips \/ DryRunFatal \/ LoopHead \/ SkipEntry
           \/ TakeEntry \/ Recalibrate \/ TrimCase \/ Score \/ CalibrateNew \/ Terminated
  BY <1>5, <1>8
  DEF DryRunPasses, DryRunSkips, DryRunFatal, LoopHead, SkipEntry, TakeEntry, Recalibrate,
      TrimCase, Score, CalibrateNew, Terminated, entryVars, countVars, queueVars, vars
<1>9. QED
  BY <1>6, <1>7, <1>8 DEF Next

-----------------------------------------------------------------------------
(* The invariant is inductive. *)
LEMMA QueueStepInv == QueueInv /\ [Next]_vars => QueueInv'
<1>1. ASSUME QueueInv, Next PROVE QueueInv'
  <2>1. TableInv'
    BY <1>1, StepsTable, TableStepInv DEF QueueInv
  <2>2. QueueTypeOK'
    BY <1>1, <2>1, TypesKept
  <2>3. CursorInv' /\ FreshInv' /\ FavoredCalibrated'
    BY <1>1, <2>2, CursorKept, FreshKept
  <2>4. FavoredCover' /\ OwnerShowsWindow' /\ UnfuzzedCounted'
    BY <1>1, <2>1, <2>2, CoverKept, OwnerKept, CountKept
  <2>5. QED
    BY <2>1, <2>2, <2>3, <2>4 DEF QueueInv
<1>2. ASSUME QueueInv, UNCHANGED vars PROVE QueueInv'
  <2>1. TableInv'
    BY <1>2, TableStepInv DEF QueueInv, vars
  <2>2. /\ QueueTypeOK' /\ CursorInv' /\ FavoredCover' /\ OwnerShowsWindow'
    BY <1>2, <2>1
    DEF QueueInv, QueueTypeOK, TableInv, CursorInv, FavoredCover, OwnerShowsWindow,
        vars, tableVars, queueVars, flagVars, entryVars, countVars, recordVars
  <2>3. FavoredCalibrated' /\ FreshInv' /\ UnfuzzedCounted'
    BY <1>2
    DEF QueueInv, FavoredCalibrated, FreshInv, Fresh, Unused, Held, UnfuzzedCounted, Paths,
        vars, tableVars, queueVars, flagVars, entryVars, countVars, recordVars
  <2>4. QED
    BY <2>1, <2>2, <2>3 DEF QueueInv
<1>3. QED
  BY <1>1, <1>2

(* QueueInv holds in every reachable state. *)
THEOREM QueueCorrect == Spec => []QueueInv
<1>1. QED
  BY QueueInitInv, QueueStepInv, PTL DEF Spec

(* The queue implements the table: whatever main() and fuzz_one interleave, *)
(* the table sees only its own operations, so its theorems hold here too.   *)
THEOREM QueueImplementsTable == Spec => TableSpec
<1>1. Init => TableInit
  BY DEF Init
<1>2. QED
  BY <1>1, StepsTable, QueueCorrect, PTL DEF Spec, TableSpec

(* Type correctness of the queue. *)
THEOREM QueueTyped == Spec => []QueueTypeOK
<1>1. QueueInv => QueueTypeOK
  BY DEF QueueInv
<1>2. QED
  BY <1>1, QueueCorrect, PTL

(* The favored entries cover every byte of the table they were chosen for. *)
THEOREM FavoredAlwaysCover == Spec => []FavoredCover
<1>1. QueueInv => FavoredCover
  BY DEF QueueInv
<1>2. QED
  BY <1>1, QueueCorrect, PTL

(* Only calibrated entries are favored, hold slots or own windows. *)
THEOREM FavoredAlwaysCalibrated == Spec => []FavoredCalibrated
<1>1. QueueInv => FavoredCalibrated
  BY DEF QueueInv
<1>2. QED
  BY <1>1, QueueCorrect, PTL

(* The window register never names an entry that does not show the window. *)
THEOREM OwnersAlwaysShow == Spec => []OwnerShowsWindow
<1>1. QueueInv => OwnerShowsWindow
  BY DEF QueueInv
<1>2. QED
  BY <1>1, QueueCorrect, PTL

(* pending_not_fuzzed never wraps and never misses an entry. *)
THEOREM UnfuzzedAlwaysCounted == Spec => []UnfuzzedCounted
<1>1. QueueInv => UnfuzzedCounted
  BY DEF QueueInv
<1>2. QED
  BY <1>1, QueueCorrect, PTL
=============================================================================
