------------------------ MODULE TopRatedLoopsProofs ------------------------
(***************************************************************************)
(* The two loops of TopRatedLoops implement the steps of TopRated, for any *)
(* size of the map, any entries and any range of cost.                     *)
(*                                                                         *)
(* The inductive invariant says of each loop how much of its step is done  *)
(* when it reaches byte i: the slots below i that q wins are q's, what was *)
(* freed and copied is what the whole step frees and copies as far as      *)
(* these slots go; or those slots below i are picked that a walk picks.    *)
(* It rests on the reference counts, which hold between any two bytes.     *)
(***************************************************************************)
EXTENDS TopRatedLoops, FiniteSetTheorems, TLAPS

(* The slots an entry holds in a table.                                    *)
Holds(top, e) == {s \in Slots : top[s] = e}

(* The reference counts are exact and a copy exists while a slot is held.  *)
Accounted(top, refs, minis) ==
  \A e \in Entries : /\ refs[e] = Cardinality(Holds(top, e))
                     /\ minis[e] # {} <=> Holds(top, e) # {}

(* The values the table takes.                                             *)
Tables ==
  [top_rated: [Slots -> Entries \cup {NULL}], tc_ref: [Entries -> Int],
   trace_mini: [Entries -> SUBSET Slots], fav_factor: [Entries -> Factors],
   score_changed: BOOLEAN, tr_intersting: [Entries -> BOOLEAN]]

(* Types of the state; between two loops the table at their start is the   *)
(* table.                                                                  *)
LoopsTyped ==
  /\ table \in Tables /\ begin \in Tables
  /\ pc \in {"idle", "score", "cull"} /\ i \in Slots
  /\ q \in Entries \cup {NULL} /\ trace_bits \in SUBSET Slots /\ temp_v \in SUBSET Slots
  /\ pc = "score" => q \in Entries
  /\ pc = "idle" => begin = table /\ i = 0

(* The counts are exact at every byte of a loop, and were at its start.    *)
CountsInv ==
  /\ Accounted(top_rated, tc_ref, trace_mini)
  /\ Accounted(begin.top_rated, begin.tc_ref, begin.trace_mini)

(* What update_bitmap_score has done to a table when q won the slots W.    *)
Scored(W, top, minis, changed) ==
  /\ top = [s \in Slots |-> IF s \in W THEN q ELSE begin.top_rated[s]]
  /\ \A p \in Entries \ {q} :
       minis[p] = IF Holds(top, p) = {} THEN {} ELSE begin.trace_mini[p]
  /\ minis[q] = IF W # {} /\ Table!RefreshesCopy(q, W) THEN trace_bits ELSE begin.trace_mini[q]
  /\ changed <=> begin.score_changed \/ W # {}

(* The slots q wins, and those of them below n.                            *)
Won == Table!Won(q, trace_bits, fav_factor[q])
Below(n) == {s \in Won : s < n}

(* How far update_bitmap_score is.                                         *)
ScoreInv ==
  pc = "score" =>
    /\ fav_factor = [begin.fav_factor EXCEPT ![q] = fav_factor[q]]
    /\ tr_intersting = begin.tr_intersting
    /\ Scored(Below(i), top_rated, trace_mini, score_changed)

(* What cull_queue has done when it picked these slots of those below n.   *)
Walked(picked, n) ==
  /\ \A s \in picked : top_rated[s] # NULL
  /\ picked = {s \in Slots :
                 /\ s < n /\ top_rated[s] # NULL
                 /\ \A j \in picked : j < s => s \notin trace_mini[top_rated[j]]}

(* The mark of the entries that hold a picked slot.                        *)
Marks(picked) == [e \in Entries |-> \E s \in picked : top_rated[s] = e]

(* How far cull_queue is: temp_v is what no picked slot covers.            *)
CullInv ==
  pc = "cull" =>
    /\ begin.score_changed /\ ~score_changed
    /\ top_rated = begin.top_rated /\ tc_ref = begin.tc_ref
    /\ trace_mini = begin.trace_mini /\ fav_factor = begin.fav_factor
    /\ \E picked \in SUBSET Slots :
         /\ Walked(picked, i)
         /\ temp_v = {s \in Slots : \A j \in picked : s \notin trace_mini[top_rated[j]]}
         /\ tr_intersting = Marks(picked)

(* The inductive invariant.                                                *)
LoopsInv == LoopsTyped /\ CountsInv /\ ScoreInv /\ CullInv

-----------------------------------------------------------------------------
(* Any set of slots is finite.                                             *)
LEMMA SlotSetsAreFinite ==
  ASSUME NEW S \in SUBSET Slots PROVE IsFiniteSet(S) /\ Cardinality(S) \in Nat
<1>1. IsFiniteSet(Slots)
  BY FS_Interval, LoopsAssumption DEF Slots
<1>2. QED
  BY <1>1, FS_Subset, FS_CardinalityType

(* Cardinality, as TopRated sees it.                                       *)
LEMMA CardinalityOfTable == \A S : Table!Cardinality(S) = Cardinality(S)
BY DEF Table!Cardinality, Cardinality

(* A slot more, and a slot less.                                           *)
LEMMA OneSlot ==
  ASSUME NEW S \in SUBSET Slots, NEW s \in Slots
  PROVE  /\ s \notin S => Cardinality(S \cup {s}) = Cardinality(S) + 1
         /\ s \in S => Cardinality(S \ {s}) = Cardinality(S) - 1
         /\ s \in S => (Cardinality(S) = 1 <=> S = {s})
<1>1. IsFiniteSet(S) /\ Cardinality(S) \in Nat
  BY SlotSetsAreFinite
<1>2. s \in S => IsFiniteSet(S \ {s}) /\ Cardinality(S \ {s}) = Cardinality(S) - 1
  BY <1>1, FS_RemoveElement
<1>3. s \notin S => Cardinality(S \cup {s}) = Cardinality(S) + 1
  BY <1>1, FS_AddElement
<1>4. s \in S /\ Cardinality(S) = 1 => S \ {s} = {}
  BY <1>2, FS_EmptySet
<1>5. Cardinality({s}) = 1
  BY FS_Singleton
<1>6. QED
  BY <1>2, <1>3, <1>4, <1>5

(* Many slots more, and many less.                                         *)
LEMMA ManySlots ==
  ASSUME NEW S \in SUBSET Slots, NEW W \in SUBSET Slots
  PROVE  /\ Cardinality(S \cup W) = Cardinality(S) + Cardinality(W \ S)
         /\ Cardinality(S \ W) = Cardinality(S) - Cardinality(S \cap W)
<1>1. \A R \in SUBSET Slots : IsFiniteSet(R) /\ Cardinality(R) \in Nat
  BY SlotSetsAreFinite
<1>2. ASSUME NEW A \in SUBSET Slots, NEW B \in SUBSET Slots, A \cap B = {}
      PROVE  Cardinality(A \cup B) = Cardinality(A) + Cardinality(B)
  <2>1. Cardinality(A \cup B) = Cardinality(A) + Cardinality(B) - Cardinality(A \cap B)
    BY <1>1, FS_Union
  <2>2. Cardinality(A \cap B) = 0
    BY <1>2, FS_EmptySet
  <2>3. QED
    BY <1>1, <2>1, <2>2
<1>3. S \cup W = S \cup (W \ S) /\ S = (S \ W) \cup (S \cap W)
  OBVIOUS
<1>4. Cardinality(S \cup (W \ S)) = Cardinality(S) + Cardinality(W \ S)
  BY <1>2
<1>5. Cardinality((S \ W) \cup (S \cap W)) = Cardinality(S \ W) + Cardinality(S \cap W)
  BY <1>2
<1>6. Cardinality(S \ W) \in Nat /\ Cardinality(S \cap W) \in Nat
  BY <1>1
<1>7. Cardinality(S \cup W) = Cardinality(S) + Cardinality(W \ S)
  BY <1>3, <1>4
<1>8. Cardinality(S) = Cardinality(S \ W) + Cardinality(S \cap W)
  BY <1>3, <1>5
<1>9. QED
  BY <1>6, <1>7, <1>8

(* What an iteration does that gives byte i to q.                          *)
ByteIsTaken ==
  /\ top_rated' = [top_rated EXCEPT ![i] = q]
  /\ \A p \in Entries \ {q} :
       /\ tc_ref'[p] = IF top_rated[i] = p THEN tc_ref[p] - 1 ELSE tc_ref[p]
       /\ trace_mini'[p] = IF top_rated[i] = p /\ tc_ref[p] = 1 THEN {} ELSE trace_mini[p]
  /\ tc_ref'[q] = IF top_rated[i] = q THEN tc_ref[q] ELSE tc_ref[q] + 1
  /\ trace_mini'[q] = IF trace_mini[q] = {} \/ (top_rated[i] = q /\ tc_ref[q] = 1)
                      THEN trace_bits ELSE trace_mini[q]
  /\ score_changed' = TRUE

(* The slot of one byte after its step, by whether q takes it.             *)
LEMMA ByteScored ==
  ASSUME LoopsTyped, ScoreByte
  PROVE  /\ pc = "score" /\ q \in Entries
         /\ tc_ref' \in [Entries -> Int] /\ trace_mini' \in [Entries -> SUBSET Slots]
         /\ IF i \in trace_bits /\ ~QLoses(top_rated[i]) THEN ByteIsTaken
            ELSE UNCHANGED <<top_rated, tc_ref, trace_mini, score_changed>>
<1>1. /\ pc = "score" /\ q \in Entries /\ i \in Slots /\ trace_bits \in SUBSET Slots
      /\ top_rated \in [Slots -> Entries \cup {NULL}] /\ tc_ref \in [Entries -> Int]
      /\ trace_mini \in [Entries -> SUBSET Slots] /\ NULL \notin Entries
  BY LoopsAssumption DEF LoopsTyped, Tables, table, ScoreByte
<1>2. CASE i \notin trace_bits \/ QLoses(top_rated[i])
  BY <1>1, <1>2 DEF ScoreByte
<1>3. CASE ~(i \notin trace_bits \/ QLoses(top_rated[i]))
  <2> DEFINE holder == top_rated[i]
             refs == IF holder = NULL THEN tc_ref ELSE [tc_ref EXCEPT ![holder] = @ - 1]
             minis == IF holder # NULL /\ refs[holder] = 0
                      THEN [trace_mini EXCEPT ![holder] = {}] ELSE trace_mini
  <2>1. /\ top_rated' = [top_rated EXCEPT ![i] = q] /\ tc_ref' = [refs EXCEPT ![q] = @ + 1]
        /\ trace_mini' = Copies(minis) /\ score_changed' = TRUE
    BY <1>3 DEF ScoreByte
  <2>2. /\ refs \in [Entries -> Int] /\ holder \in Entries \cup {NULL}
        /\ \A p \in Entries : refs[p] = IF holder = p THEN tc_ref[p] - 1 ELSE tc_ref[p]
    BY <1>1
  <2>3. /\ minis \in [Entries -> SUBSET Slots]
        /\ \A p \in Entries : minis[p] = IF holder = p /\ tc_ref[p] = 1 THEN {} ELSE trace_mini[p]
    BY <1>1, <2>2
  <2> HIDE DEF refs, minis, holder
  <2>4. /\ tc_ref' \in [Entries -> Int]
        /\ \A p \in Entries : tc_ref'[p] = IF p = q THEN refs[p] + 1 ELSE refs[p]
    BY <1>1, <2>1, <2>2
  <2>5. /\ trace_mini' \in [Entries -> SUBSET Slots]
        /\ \A p \in Entries : trace_mini'[p] = IF p = q /\ minis[q] = {} THEN trace_bits ELSE minis[p]
    BY <1>1, <2>1, <2>3 DEF Copies
  <2>6. \A p \in Entries \ {q} :
          /\ tc_ref'[p] = IF holder = p THEN tc_ref[p] - 1 ELSE tc_ref[p]
          /\ trace_mini'[p] = IF holder = p /\ tc_ref[p] = 1 THEN {} ELSE trace_mini[p]
    BY <2>2, <2>3, <2>4, <2>5
  <2>7. tc_ref'[q] = IF holder = q THEN tc_ref[q] ELSE tc_ref[q] + 1
    BY <1>1, <2>2, <2>4
  <2>8. trace_mini'[q] = IF trace_mini[q] = {} \/ (holder = q /\ tc_ref[q] = 1)
                         THEN trace_bits ELSE trace_mini[q]
    BY <1>1, <2>3, <2>5
  <2>9. ByteIsTaken
    BY <2>1, <2>6, <2>7, <2>8 DEF ByteIsTaken, holder
  <2>10. QED
    BY <1>1, <1>3, <2>4, <2>5, <2>9
<1>4. QED
  BY <1>2, <1>3

(* The counts stay exact over one byte.                                    *)
LEMMA ByteKeepsCounts ==
  ASSUME LoopsTyped, Accounted(top_rated, tc_ref, trace_mini), ScoreByte
  PROVE  Accounted(top_rated', tc_ref', trace_mini')
<1>1. /\ pc = "score" /\ q \in Entries /\ i \in Slots
      /\ top_rated \in [Slots -> Entries \cup {NULL}] /\ tc_ref \in [Entries -> Int] /\ NULL \notin Entries
  BY ByteScored, LoopsAssumption DEF LoopsTyped, Tables, table
<1>2. CASE UNCHANGED <<top_rated, tc_ref, trace_mini, score_changed>>
  BY <1>2 DEF Accounted
<1>3. CASE i \in trace_bits /\ ByteIsTaken
  <2>1. SUFFICES ASSUME NEW p \in Entries
                 PROVE  /\ tc_ref'[p] = Cardinality(Holds(top_rated', p))
                        /\ trace_mini'[p] # {} <=> Holds(top_rated', p) # {}
    BY DEF Accounted
  <2> DEFINE S == Holds(top_rated, p)
             T == Holds(top_rated', p)
  <2>2. tc_ref[p] = Cardinality(S) /\ (trace_mini[p] # {} <=> S # {})
    BY DEF Accounted
  <2>3. S \in SUBSET Slots /\ (i \in S <=> top_rated[i] = p)
    BY <1>1 DEF Holds
  <2>4. T = IF p = q THEN S \cup {i} ELSE S \ {i}
    BY <1>1, <1>3 DEF Holds, ByteIsTaken
  <2> HIDE DEF S, T
  <2>5. /\ i \notin S => Cardinality(S \cup {i}) = Cardinality(S) + 1
        /\ i \in S => Cardinality(S \ {i}) = Cardinality(S) - 1
        /\ i \in S => (Cardinality(S) = 1 <=> S = {i})
    BY <1>1, <2>3, OneSlot
  <2>6. CASE p = q
    <3>1. tc_ref'[p] = IF i \in S THEN tc_ref[p] ELSE tc_ref[p] + 1
      BY <1>3, <2>3, <2>6 DEF ByteIsTaken
    <3>2. trace_mini'[p] # {}
      BY <1>3, <2>6 DEF ByteIsTaken
    <3>3. i \in S => S \cup {i} = S
      OBVIOUS
    <3>4. QED
      BY <2>2, <2>4, <2>5, <2>6, <3>1, <3>2, <3>3 DEF T
  <2>7. CASE p # q
    <3>1. tc_ref'[p] = IF i \in S THEN tc_ref[p] - 1 ELSE tc_ref[p]
      BY <1>3, <2>3, <2>7 DEF ByteIsTaken
    <3>2. trace_mini'[p] = IF i \in S /\ tc_ref[p] = 1 THEN {} ELSE trace_mini[p]
      BY <1>3, <2>3, <2>7 DEF ByteIsTaken
    <3>3. i \notin S => S \ {i} = S
      OBVIOUS
    <3>4. tc_ref'[p] = Cardinality(T)
      BY <2>2, <2>4, <2>5, <2>7, <3>1, <3>3
    <3>5. trace_mini'[p] # {} <=> T # {}
      BY <2>2, <2>4, <2>5, <2>7, <3>2, <3>3
    <3>6. QED
      BY <3>4, <3>5 DEF T
  <2>8. QED
    BY <2>6, <2>7
<1>4. QED
  BY <1>2, <1>3, ByteScored

(* The slots q wins are slots.                                             *)
LEMMA WonAreSlots ==
  ASSUME LoopsTyped
  PROVE  /\ Won \in SUBSET Slots /\ \A n : Below(n) \in SUBSET Slots
         /\ Below(MAP_SIZE) = Won
<1>1. Won \in SUBSET Slots
  BY DEF Won, Table!Won, LoopsTyped
<1>2. \A s \in Slots : s < MAP_SIZE
  BY LoopsAssumption DEF Slots
<1>3. QED
  BY <1>1, <1>2 DEF Below

(* The byte the loop has reached is decided as the table was at the start. *)
LEMMA ByteIsWon ==
  ASSUME LoopsInv, pc = "score"
  PROVE  /\ top_rated[i] = begin.top_rated[i]
         /\ i \in Won <=> i \in trace_bits /\ ~QLoses(top_rated[i])
<1> USE DEF LoopsInv, LoopsTyped
<1>1. i \in Slots /\ i \notin Below(i) /\ q \in Entries
  BY DEF Slots, Below
<1>2. top_rated[i] = begin.top_rated[i]
  BY <1>1 DEF ScoreInv, Scored
<1>3. \A p \in Entries \ {q} : fav_factor[p] = begin.fav_factor[p]
  BY DEF ScoreInv, Tables
<1>4. top_rated[i] \in Entries \cup {NULL} /\ fav_factor \in [Entries -> Factors] /\ NULL \notin Entries
      /\ trace_bits \in SUBSET Slots
  BY <1>1, LoopsAssumption DEF Tables, table
<1>5. Factors \subseteq Int
  BY LoopsAssumption DEF Factors
<1>6. i \in Won <=> i \in trace_bits /\ (\/ top_rated[i] \in {NULL, q}
                                         \/ fav_factor[q] <= begin.fav_factor[top_rated[i]])
  BY <1>2 DEF Won, Table!Won
<1>7. CASE top_rated[i] \in {NULL, q}
  <2>1. fav_factor[q] \in Int
    BY <1>1, <1>4, <1>5
  <2>2. ~QLoses(top_rated[i])
    BY <1>7, <2>1 DEF QLoses
  <2>3. QED
    BY <1>2, <1>6, <1>7, <2>2
<1>8. CASE top_rated[i] \notin {NULL, q}
  <2>1. top_rated[i] \in Entries \ {q} /\ top_rated[i] # NULL
    BY <1>4, <1>8
  <2>2. /\ fav_factor[q] \in Int /\ fav_factor[top_rated[i]] \in Int
        /\ fav_factor[top_rated[i]] = begin.fav_factor[top_rated[i]]
    BY <1>1, <1>3, <1>4, <1>5, <2>1
  <2>3. QLoses(top_rated[i]) <=> ~(fav_factor[q] <= begin.fav_factor[top_rated[i]])
    BY <2>1, <2>2 DEF QLoses
  <2>4. QED
    BY <1>2, <1>6, <1>8, <2>3
<1>9. QED
  BY <1>7, <1>8

(* One byte of update_bitmap_score.                                        *)
LEMMA ByteScores ==
  ASSUME LoopsInv, ScoreByte
  PROVE  Scored(Below(i + 1), top_rated', trace_mini', score_changed')
<1> DEFINE W == Below(i)
           V == Below(i + 1)
<1>1. /\ pc = "score" /\ q \in Entries /\ i \in Slots /\ i \in Int
      /\ IF i \in trace_bits /\ ~QLoses(top_rated[i]) THEN ByteIsTaken
         ELSE UNCHANGED <<top_rated, tc_ref, trace_mini, score_changed>>
      /\ top_rated \in [Slots -> Entries \cup {NULL}] /\ tc_ref \in [Entries -> Int]
      /\ trace_mini \in [Entries -> SUBSET Slots]
  BY SMTT(30), ByteScored DEF LoopsInv, LoopsTyped, Tables, table, Slots
<1>2. /\ top_rated[i] = begin.top_rated[i]
      /\ i \in Won <=> i \in trace_bits /\ ~QLoses(top_rated[i])
  BY <1>1, ByteIsWon
<1>3. Scored(W, top_rated, trace_mini, score_changed)
  BY <1>1 DEF LoopsInv, ScoreInv
<1>4. /\ W \in SUBSET Slots /\ V \in SUBSET Slots
      /\ V = IF i \in Won THEN W \cup {i} ELSE W
      /\ \A s \in W : s < i /\ s \in Int
  BY <1>1, WonAreSlots DEF LoopsInv, Below, Slots
<1>5. CASE i \notin Won
  BY <1>1, <1>2, <1>3, <1>4, <1>5 DEF Scored
<1>6. CASE i \in Won
  <2>1. ByteIsTaken /\ V = W \cup {i}
    BY <1>1, <1>2, <1>4, <1>6
  <2>2. /\ \A p \in Entries : /\ tc_ref[p] = Cardinality(Holds(top_rated, p))
                              /\ trace_mini[p] # {} <=> Holds(top_rated, p) # {}
                              /\ begin.trace_mini[p] # {} <=> Holds(begin.top_rated, p) # {}
    BY DEF LoopsInv, CountsInv, Accounted
  <2> HIDE DEF W, V
  <2>3. top_rated' = [s \in Slots |-> IF s \in V THEN q ELSE begin.top_rated[s]]
    BY <1>1, <1>3, <1>4, <2>1 DEF ByteIsTaken, Scored
  <2>4. ASSUME NEW p \in Entries \ {q}
        PROVE  trace_mini'[p] = IF Holds(top_rated', p) = {} THEN {} ELSE begin.trace_mini[p]
    <3> DEFINE S == Holds(top_rated, p)
    <3>1. Holds(top_rated', p) = S \ {i}
      BY <1>1, <2>1 DEF Holds, ByteIsTaken
    <3>2. S \in SUBSET Slots /\ (i \in S <=> top_rated[i] = p)
      BY <1>1 DEF Holds
    <3>3. i \in S => (tc_ref[p] = 1 <=> S = {i})
      BY <1>1, <2>2, <3>2, OneSlot
    <3>4. trace_mini'[p] = IF i \in S /\ tc_ref[p] = 1 THEN {} ELSE trace_mini[p]
      BY <2>1, <3>2 DEF ByteIsTaken
    <3>5. trace_mini[p] = IF S = {} THEN {} ELSE begin.trace_mini[p]
      BY <1>3 DEF Scored
    <3> HIDE DEF S
    <3>6. QED
      BY <3>1, <3>3, <3>4, <3>5
  <2>5. trace_mini'[q] = IF V # {} /\ Table!RefreshesCopy(q, V) THEN trace_bits ELSE begin.trace_mini[q]
    <3> DEFINE S == Holds(top_rated, q)
               H == Table!Held(q)
    <3>1. H = Holds(begin.top_rated, q) /\ H \in SUBSET Slots /\ S = H \cup W
      BY <1>3, <1>4 DEF Table!Held, Table!Slots, Slots, Holds, Scored
    <3>2. i \in S <=> top_rated[i] = q
      BY <1>1 DEF Holds
    <3>3. i \in S => (tc_ref[q] = 1 <=> S = {i})
      <4>1. S \in SUBSET Slots /\ tc_ref[q] = Cardinality(S)
        BY <1>1, <2>2 DEF Holds
      <4>2. QED
        BY <1>1, <4>1, OneSlot
    <3>4. trace_mini'[q] = IF trace_mini[q] = {} \/ S = {i} THEN trace_bits ELSE trace_mini[q]
      BY <2>1, <3>2, <3>3 DEF ByteIsTaken
    <3> HIDE DEF S, H
    <3>5. CASE W = {}
      <4>1. V = {i} /\ S = H /\ trace_mini[q] = begin.trace_mini[q]
        BY <1>3, <2>1, <3>1, <3>5 DEF Scored
      <4>2. Table!RefreshesCopy(q, V) <=> begin.trace_mini[q] = {} \/ H = {i}
        BY <1>1, <4>1 DEF Table!RefreshesCopy, H
      <4>3. QED
        BY <3>4, <4>1, <4>2
    <3>6. CASE W # {}
      <4>a. PICK w \in W : TRUE
        BY <3>6
      <4>0. w \in W /\ w < i /\ w \in Int /\ w # i
        BY <1>1, <1>4, <4>a
      <4>1. trace_mini[q] # {} /\ S # {i} /\ V # {}
        <5>1. S # {} /\ S # {i} /\ V # {}
          BY <2>1, <3>1, <4>0
        <5>2. QED
          BY <1>1, <2>2, <5>1 DEF S
      <4>2. \A s \in V : (\A j \in V : s <= j) <=> s \in W /\ \A j \in W : s <= j
        <5>1. V = W \cup {i} /\ w \in W /\ w < i /\ w \in Int /\ i \in Int
          BY <1>1, <2>1, <4>0
        <5>2. ~(i <= w)
          BY <5>1
        <5>3. \A s \in W : s <= i
          BY <1>4, <5>1
        <5>4. \A s \in V : (\A j \in V : s <= j) => s \in W
          BY <5>1, <5>2
        <5>5. QED
          BY <5>1, <5>3, <5>4
      <4>3. Table!RefreshesCopy(q, V) <=> Table!RefreshesCopy(q, W)
        BY <2>1, <4>2 DEF Table!RefreshesCopy
      <4>4. QED
        BY <1>3, <3>4, <3>6, <4>1, <4>3 DEF Scored
    <3>7. QED
      BY <3>5, <3>6
  <2>6. score_changed' <=> begin.score_changed \/ V # {}
    BY <2>1 DEF ByteIsTaken
  <2>7. Scored(V, top_rated', trace_mini', score_changed')
    BY <2>3, <2>4, <2>5, <2>6 DEF Scored
  <2>8. QED
    BY <2>7 DEF V
<1>7. QED
  BY <1>5, <1>6

(* After the last byte the whole of update_bitmap_score is done.           *)
LEMMA ScoreIsDone ==
  ASSUME LoopsInv, ScoreByte, i + 1 = MAP_SIZE
  PROVE  Table!UpdateBitmapScore(q, trace_bits, fav_factor[q])
<1> DEFINE b == begin
<1>1. /\ pc = "score" /\ q \in Entries /\ i \in Slots /\ trace_bits \in SUBSET Slots
      /\ begin' = table' /\ tr_intersting' = tr_intersting /\ fav_factor' = fav_factor
      /\ tc_ref' \in [Entries -> Int] /\ trace_mini' \in [Entries -> SUBSET Slots]
      /\ begin.tc_ref \in [Entries -> Int] /\ begin.trace_mini \in [Entries -> SUBSET Slots]
      /\ begin.top_rated \in [Slots -> Entries \cup {NULL}]
  <2>1. pc = "score" /\ q \in Entries /\ tc_ref' \in [Entries -> Int] /\ trace_mini' \in [Entries -> SUBSET Slots]
    BY ByteScored DEF LoopsInv
  <2>2. i \in Slots /\ trace_bits \in SUBSET Slots /\ begin \in Tables
    BY DEF LoopsInv, LoopsTyped
  <2>3. ~(i + 1 < MAP_SIZE)
    BY <2>2, LoopsAssumption DEF Slots
  <2>4. begin' = table' /\ tr_intersting' = tr_intersting /\ fav_factor' = fav_factor
    BY <2>3 DEF ScoreByte, NextByte
  <2>5. QED
    BY <2>1, <2>2, <2>4 DEF Tables
<1>2. Scored(Won, top_rated', trace_mini', score_changed')
  BY ByteScores, WonAreSlots DEF LoopsInv
<1>3. Accounted(top_rated', tc_ref', trace_mini') /\ Accounted(b.top_rated, b.tc_ref, b.trace_mini)
  BY ByteKeepsCounts DEF LoopsInv, CountsInv
<1>4. \A p \in Entries : /\ Table!Held(p) = Holds(b.top_rated, p) /\ Table!Held(p) \in SUBSET Slots
                         /\ b.tc_ref[p] = Cardinality(Table!Held(p))
  BY <1>3 DEF Table!Held, Table!Slots, Slots, Holds, Accounted
<1>5. Won \in SUBSET Slots
  BY WonAreSlots DEF LoopsInv
<1>6. \A p \in Entries : Holds(top_rated', p) = IF p = q THEN Table!Held(q) \cup Won ELSE Table!Held(p) \ Won
  BY <1>1, <1>2, <1>4, <1>5 DEF Scored, Holds
<1>7. ASSUME NEW p \in Entries
      PROVE  tc_ref'[p] = IF p = q THEN b.tc_ref[q] + Cardinality(Won \ Table!Held(q))
                          ELSE b.tc_ref[p] - Cardinality(Table!Held(p) \cap Won)
  <2>1. tc_ref'[p] = Cardinality(Holds(top_rated', p))
    BY <1>3 DEF Accounted
  <2>2. QED
    BY ZenonT(60), <1>1, <1>4, <1>5, <1>6, <2>1, ManySlots
<1>8. tc_ref' = Table!Refs(q, Won)
  <2>1. tc_ref' = [p \in Entries |-> tc_ref'[p]]
    BY <1>1
  <2>2. tc_ref' = [p \in Entries |-> IF p = q THEN b.tc_ref[q] + Cardinality(Won \ Table!Held(q))
                                    ELSE b.tc_ref[p] - Cardinality(Table!Held(p) \cap Won)]
    BY <1>7, <2>1
  <2>3. QED
    BY <2>2, CardinalityOfTable DEF Table!Refs
<1>9. trace_mini' = [p \in Entries |->
                       IF p # q THEN IF tc_ref'[p] = 0 THEN {} ELSE b.trace_mini[p]
                       ELSE IF Won # {} /\ Table!RefreshesCopy(q, Won) THEN trace_bits
                       ELSE b.trace_mini[q]]
  <2>1. ASSUME NEW p \in Entries \ {q}
        PROVE  trace_mini'[p] = IF tc_ref'[p] = 0 THEN {} ELSE b.trace_mini[p]
    <3>1. Holds(top_rated', p) \in SUBSET Slots /\ tc_ref'[p] = Cardinality(Holds(top_rated', p))
      BY <1>3 DEF Accounted, Holds
    <3>2. tc_ref'[p] = 0 <=> Holds(top_rated', p) = {}
      BY <3>1, SlotSetsAreFinite, FS_EmptySet
    <3>3. QED
      BY <1>2, <3>2 DEF Scored
  <2>2. trace_mini'[q] = IF Won # {} /\ Table!RefreshesCopy(q, Won) THEN trace_bits ELSE b.trace_mini[q]
    BY <1>2 DEF Scored
  <2>3. QED
    BY <1>1, <2>1, <2>2
<1>10. fav_factor = [b.fav_factor EXCEPT ![q] = fav_factor[q]] /\ tr_intersting = b.tr_intersting
  BY <1>1 DEF LoopsInv, ScoreInv
<1>11. top_rated' = [s \in Slots |-> IF s \in Won THEN q ELSE b.top_rated[s]]
  BY <1>2 DEF Scored
<1>12. score_changed' \in BOOLEAN /\ b.score_changed \in BOOLEAN /\ (score_changed' <=> b.score_changed \/ Won # {})
  BY <1>2, ByteScored DEF LoopsInv, LoopsTyped, Tables, table, Scored, ByteIsTaken
<1>13. score_changed' = (b.score_changed \/ Won # {})
  BY <1>12
<1>14. /\ begin'.top_rated = top_rated' /\ begin'.tc_ref = tc_ref' /\ begin'.trace_mini = trace_mini'
       /\ begin'.fav_factor = fav_factor' /\ begin'.score_changed = score_changed'
       /\ begin'.tr_intersting = tr_intersting'
  BY <1>1 DEF table
<1>15. QED
  BY <1>1, <1>8, <1>9, <1>10, <1>11, <1>13, <1>14
  DEF Table!UpdateBitmapScore, Won, Table!Slots, Slots

(* The first state.                                                        *)
LEMMA LoopsInit == Init => LoopsInv
<1> SUFFICES ASSUME Init PROVE LoopsInv
  OBVIOUS
<1> USE DEF Init
<1>1. LoopsTyped
  <2>1. 0 \in Slots /\ 0 \in Factors
    BY LoopsAssumption DEF Slots, Factors
  <2>2. /\ top_rated \in [Slots -> Entries \cup {NULL}] /\ tc_ref \in [Entries -> Int]
        /\ trace_mini \in [Entries -> SUBSET Slots] /\ fav_factor \in [Entries -> Factors]
    BY <2>1
  <2>3. score_changed \in BOOLEAN /\ tr_intersting \in [Entries -> BOOLEAN]
    OBVIOUS
  <2>4. table \in Tables
    BY <2>2, <2>3 DEF Tables, table
  <2>5. QED
    BY <2>1, <2>4 DEF LoopsTyped
<1>2. Accounted(top_rated, tc_ref, trace_mini)
  <2>1. \A e \in Entries : Holds(top_rated, e) = {}
    BY LoopsAssumption DEF Holds
  <2>2. QED
    BY <2>1, FS_EmptySet DEF Accounted
<1>3. QED
  BY <1>1, <1>2 DEF LoopsInv, CountsInv, ScoreInv, CullInv, table

(* One byte of update_bitmap_score keeps the invariant, also the last one. *)
LEMMA ScoreByteKeeps ==
  ASSUME LoopsInv, ScoreByte PROVE LoopsInv'
<1>1. /\ pc = "score" /\ q \in Entries /\ i \in Slots
      /\ tc_ref' \in [Entries -> Int] /\ trace_mini' \in [Entries -> SUBSET Slots]
      /\ Accounted(top_rated', tc_ref', trace_mini')
      /\ Scored(Below(i + 1), top_rated', trace_mini', score_changed')
      /\ begin \in Tables /\ table \in Tables
      /\ UNCHANGED <<fav_factor, tr_intersting, temp_v>>
  BY ByteScored, ByteKeepsCounts, ByteScores DEF LoopsInv, LoopsTyped, CountsInv, ScoreByte
<1>2. table' \in Tables
  <2>1. top_rated' = [s \in Slots |-> IF s \in Below(i + 1) THEN q ELSE begin.top_rated[s]]
    BY <1>1 DEF Scored
  <2>2. top_rated' \in [Slots -> Entries \cup {NULL}]
    BY <1>1, <2>1 DEF Tables
  <2>3. score_changed' \in BOOLEAN
    BY <1>1, ByteScored DEF LoopsInv, ByteIsTaken, Tables, table
  <2>4. fav_factor' \in [Entries -> Factors] /\ tr_intersting' \in [Entries -> BOOLEAN]
    BY <1>1 DEF Tables, table
  <2>5. QED
    BY <1>1, <2>2, <2>3, <2>4 DEF Tables, table
<1>3. CASE i + 1 < MAP_SIZE
  <2>1. i' = i + 1 /\ UNCHANGED <<pc, q, trace_bits, begin>>
    BY <1>3 DEF ScoreByte, NextByte
  <2>2. LoopsTyped'
    BY <1>1, <1>2, <1>3, <2>1, LoopsAssumption DEF LoopsInv, LoopsTyped, Slots
  <2>3. CountsInv'
    BY <1>1, <2>1 DEF LoopsInv, CountsInv
  <2>4. ScoreInv'
    <3>1. Won' = Won
      BY <1>1, <2>1 DEF Won, Table!Won, Table!Slots
    <3>2. Below(i)' = Below(i + 1)
      BY <2>1, <3>1 DEF Below
    <3>3. Scored(Below(i), top_rated, trace_mini, score_changed)'
      BY <1>1, <2>1, <3>2 DEF Scored, Table!RefreshesCopy, Table!Held
    <3>4. QED
      BY <1>1, <2>1, <3>3 DEF LoopsInv, ScoreInv
  <2>5. CullInv'
    BY <1>1, <2>1 DEF CullInv
  <2>6. QED
    BY <2>2, <2>3, <2>4, <2>5 DEF LoopsInv
<1>4. CASE ~(i + 1 < MAP_SIZE)
  <2>1. i' = 0 /\ pc' = "idle" /\ q' = NULL /\ trace_bits' = {} /\ begin' = table'
    BY <1>4 DEF ScoreByte, NextByte
  <2>2. LoopsTyped'
    BY <1>1, <1>2, <2>1, LoopsAssumption DEF LoopsInv, LoopsTyped, Slots
  <2>3. CountsInv'
    BY <1>1, <2>1 DEF CountsInv, table
  <2>4. QED
    BY <2>1, <2>2, <2>3 DEF LoopsInv, ScoreInv, CullInv
<1>5. QED
  BY <1>3, <1>4

(* Entering update_bitmap_score keeps the invariant: no byte is done.      *)
LEMMA EnterScoreKeeps ==
  ASSUME LoopsInv, NEW e \in Entries, NEW trace \in SUBSET Slots, NEW factor \in Factors,
         EnterScore(e, trace, factor)
  PROVE  LoopsInv'
<1> USE DEF EnterScore, Enter
<1>1. /\ table \in Tables /\ begin' = table /\ begin = table /\ 0 \in Slots
      /\ fav_factor' = [fav_factor EXCEPT ![e] = factor]
      /\ fav_factor \in [Entries -> Factors]
  BY LoopsAssumption DEF LoopsInv, LoopsTyped, Slots, Tables, table
<1>2. table' \in Tables
  BY <1>1 DEF Tables, table
<1>3. LoopsTyped'
  BY <1>1, <1>2 DEF LoopsInv, LoopsTyped
<1>4. CountsInv'
  BY <1>1 DEF LoopsInv, CountsInv, table
<1>5. ScoreInv'
  <2>1. Below(i)' = {}
    <3>1. i' = 0 /\ trace_bits' \subseteq Slots
      OBVIOUS
    <3>2. Won' \subseteq Slots
      BY <3>1 DEF Won, Table!Won
    <3>3. \A s \in Slots : ~(s < 0)
      BY DEF Slots
    <3>4. QED
      BY <3>1, <3>2, <3>3 DEF Below
  <2>2. /\ begin'.top_rated = top_rated /\ begin'.trace_mini = trace_mini
        /\ begin'.score_changed = score_changed /\ begin'.fav_factor = fav_factor
        /\ begin'.tr_intersting = tr_intersting
    BY <1>1 DEF table
  <2>3. /\ top_rated \in [Slots -> Entries \cup {NULL}]
        /\ \A p \in Entries : trace_mini[p] # {} <=> Holds(top_rated, p) # {}
    BY <1>1 DEF Tables, table, LoopsInv, CountsInv, Accounted
  <2>4. Scored(Below(i), top_rated, trace_mini, score_changed)'
    BY <2>1, <2>2, <2>3 DEF Scored
  <2>5. fav_factor' = [begin'.fav_factor EXCEPT ![q'] = fav_factor'[q']]
    BY <1>1, <2>2
  <2>6. QED
    BY <2>2, <2>4, <2>5 DEF ScoreInv
<1>6. CullInv'
  BY DEF CullInv
<1>7. QED
  BY <1>3, <1>4, <1>5, <1>6 DEF LoopsInv

(* Entering cull_queue keeps the invariant: no slot is picked.             *)
LEMMA EnterCullKeeps ==
  ASSUME LoopsInv, EnterCull PROVE LoopsInv'
<1> USE DEF EnterCull, Enter
<1>1. table \in Tables /\ begin' = table /\ 0 \in Slots
  BY LoopsAssumption DEF LoopsInv, LoopsTyped, Slots
<1>2. table' \in Tables
  BY <1>1 DEF Tables, table
<1>3. LoopsTyped'
  BY <1>1, <1>2 DEF LoopsInv, LoopsTyped
<1>4. CountsInv'
  BY <1>1 DEF LoopsInv, CountsInv, table
<1>5. CullInv'
  <2>1. Walked({}, i)'
    BY DEF Walked, Slots
  <2>2. temp_v' = {s \in Slots : \A j \in {} : s \notin trace_mini'[top_rated'[j]]}
    OBVIOUS
  <2>3. tr_intersting' = Marks({})'
    BY DEF Marks
  <2>4. /\ begin'.score_changed /\ ~score_changed'
        /\ top_rated' = begin'.top_rated /\ tc_ref' = begin'.tc_ref
        /\ trace_mini' = begin'.trace_mini /\ fav_factor' = begin'.fav_factor
    BY <1>1 DEF table
  <2>5. QED
    BY <2>1, <2>2, <2>3, <2>4 DEF CullInv
<1>6. ScoreInv'
  BY DEF ScoreInv
<1>7. QED
  BY <1>3, <1>4, <1>5, <1>6 DEF LoopsInv

(* One byte of cull_queue: the slots picked below the next byte.           *)
LEMMA BytePicks ==
  ASSUME LoopsInv, CullByte
  PROVE  /\ tr_intersting' \in [Entries -> BOOLEAN]
         /\ \E picked \in SUBSET Slots :
              /\ Walked(picked, i + 1) /\ tr_intersting' = Marks(picked)
              /\ i + 1 < MAP_SIZE =>
                   temp_v' = {s \in Slots : \A j \in picked : s \notin trace_mini[top_rated[j]]}
<1>1. /\ pc = "cull" /\ i \in Slots /\ i \in Int
      /\ top_rated \in [Slots -> Entries \cup {NULL}] /\ NULL \notin Entries
      /\ tr_intersting \in [Entries -> BOOLEAN]
  BY LoopsAssumption DEF CullByte, LoopsInv, LoopsTyped, Slots, Tables, table
<1>2. PICK picked \in SUBSET Slots :
        /\ Walked(picked, i)
        /\ temp_v = {s \in Slots : \A j \in picked : s \notin trace_mini[top_rated[j]]}
        /\ tr_intersting = Marks(picked)
  BY <1>1 DEF LoopsInv, CullInv
<1>3. /\ \A s \in picked : s \in Slots /\ s < i /\ top_rated[s] # NULL
      /\ \A s \in Slots : s \in Int
  BY <1>2 DEF Walked, Slots
<1> DEFINE Free(s, P) == \A j \in P : j < s => s \notin trace_mini[top_rated[j]]
<1>4. i \in temp_v <=> Free(i, picked)
  BY <1>1, <1>2, <1>3
<1>5. CASE top_rated[i] # NULL /\ i \in temp_v
  <2> DEFINE more == picked \cup {i}
  <2>1. /\ tr_intersting' = [tr_intersting EXCEPT ![top_rated[i]] = TRUE]
        /\ i + 1 < MAP_SIZE => temp_v' = temp_v \ trace_mini[top_rated[i]]
    BY <1>5 DEF CullByte
  <2>2. ASSUME NEW s \in Slots
        PROVE  s \in more <=> s < i + 1 /\ top_rated[s] # NULL /\ Free(s, more)
    <3>1. CASE s < i
      <4>1. Free(s, more) <=> Free(s, picked)
        <5>1. ~(i < s)
          BY <1>1, <1>3, <3>1
        <5>2. QED
          BY <5>1
      <4>2. s \in more <=> s \in picked
        BY <1>1, <1>3, <3>1
      <4>3. s \in picked <=> top_rated[s] # NULL /\ Free(s, picked)
        BY <1>2, <3>1 DEF Walked
      <4>4. s < i + 1
        BY <1>1, <1>3, <3>1
      <4> HIDE DEF Free, more
      <4>5. QED
        BY <4>1, <4>2, <4>3, <4>4
    <3>2. CASE s = i
      BY <1>1, <1>3, <1>4, <1>5, <3>2
    <3>3. CASE s > i
      <4>1. s # i /\ ~(s < i) /\ ~(s < i + 1) /\ s \in Int
        BY <1>1, <1>3, <3>3
      <4>2. s \notin picked
        BY <1>3, <4>1
      <4>3. s \notin more
        BY <4>1, <4>2
      <4> HIDE DEF Free, more
      <4>4. QED
        BY <4>1, <4>3
    <3>4. QED
      BY <1>1, <1>3, <3>1, <3>2, <3>3
  <2>3. more \in SUBSET Slots /\ \A s \in more : top_rated[s] # NULL
    BY <1>1, <1>3, <1>5
  <2>4. Walked(more, i + 1)
    BY <2>2, <2>3 DEF Walked
  <2>5. tr_intersting' = Marks(more)
    BY <1>1, <1>2, <1>5, <2>1 DEF Marks
  <2>6. i + 1 < MAP_SIZE => temp_v' = {s \in Slots : \A j \in more : s \notin trace_mini[top_rated[j]]}
    BY <1>2, <2>1
  <2>7. tr_intersting' \in [Entries -> BOOLEAN]
    BY <1>1, <2>1
  <2> HIDE DEF more
  <2>8. QED
    BY <2>3, <2>4, <2>5, <2>6, <2>7
<1>6. CASE ~(top_rated[i] # NULL /\ i \in temp_v)
  <2>1. tr_intersting' = tr_intersting /\ (i + 1 < MAP_SIZE => temp_v' = temp_v)
    BY <1>6 DEF CullByte
  <2>2. ASSUME NEW s \in Slots
        PROVE  s \in picked <=> s < i + 1 /\ top_rated[s] # NULL /\ Free(s, picked)
    <3>1. s \in picked <=> s < i /\ top_rated[s] # NULL /\ Free(s, picked)
      BY <1>2 DEF Walked
    <3>2. s < i + 1 <=> s < i \/ s = i
      BY <1>1, <1>3
    <3>3. ~(i < i) /\ s \in Int
      BY <1>1, <1>3
    <3> HIDE DEF Free
    <3>4. CASE s = i
      <4>1. s \notin picked /\ (Free(s, picked) => i \in temp_v)
        BY <1>4, <3>1, <3>3, <3>4
      <4>2. QED
        BY <1>6, <3>2, <3>4, <4>1
    <3>5. CASE s # i
      <4>1. s < i + 1 <=> s < i
        BY <3>2, <3>5
      <4>2. QED
        BY <3>1, <4>1
    <3>6. QED
      BY <3>4, <3>5
  <2>3. Walked(picked, i + 1)
    BY <1>3, <2>2 DEF Walked
  <2>4. QED
    BY <1>1, <1>2, <2>1, <2>3
<1>7. QED
  BY <1>5, <1>6

(* One byte of cull_queue keeps the invariant, also the last one.          *)
LEMMA CullByteKeeps ==
  ASSUME LoopsInv, CullByte PROVE LoopsInv'
<1>1. /\ pc = "cull" /\ i \in Slots /\ table \in Tables /\ begin \in Tables /\ temp_v \in SUBSET Slots
      /\ UNCHANGED <<top_rated, tc_ref, trace_mini, fav_factor, score_changed>>
      /\ tr_intersting' \in [Entries -> BOOLEAN] /\ temp_v' \in SUBSET Slots
  BY BytePicks DEF CullByte, LoopsInv, LoopsTyped
<1>2. table' \in Tables
  BY <1>1 DEF Tables, table
<1>3. CASE i + 1 < MAP_SIZE
  <2>1. i' = i + 1 /\ UNCHANGED <<pc, q, trace_bits, begin>>
    BY <1>3 DEF CullByte, NextByte
  <2>2. LoopsTyped'
    BY <1>1, <1>2, <1>3, <2>1, LoopsAssumption DEF LoopsInv, LoopsTyped, Slots
  <2>3. CountsInv'
    BY <1>1, <2>1 DEF LoopsInv, CountsInv
  <2>4. ScoreInv'
    BY <1>1, <2>1 DEF ScoreInv
  <2>5. CullInv'
    <3>1. PICK picked \in SUBSET Slots :
            /\ Walked(picked, i + 1) /\ tr_intersting' = Marks(picked)
            /\ temp_v' = {s \in Slots : \A j \in picked : s \notin trace_mini[top_rated[j]]}
      BY <1>3, BytePicks
    <3>2. Walked(picked, i)' /\ tr_intersting' = Marks(picked)'
      BY <1>1, <2>1, <3>1 DEF Walked, Marks
    <3>3. QED
      BY <1>1, <2>1, <3>1, <3>2 DEF LoopsInv, CullInv
  <2>6. QED
    BY <2>2, <2>3, <2>4, <2>5 DEF LoopsInv
<1>4. CASE ~(i + 1 < MAP_SIZE)
  <2>1. i' = 0 /\ pc' = "idle" /\ q' = NULL /\ trace_bits' = {} /\ begin' = table'
    BY <1>4 DEF CullByte, NextByte
  <2>2. LoopsTyped'
    BY <1>1, <1>2, <2>1, LoopsAssumption DEF LoopsInv, LoopsTyped, Slots
  <2>3. CountsInv'
    BY <1>1, <2>1 DEF LoopsInv, CountsInv, table
  <2>4. QED
    BY <2>1, <2>2, <2>3 DEF LoopsInv, ScoreInv, CullInv
<1>5. QED
  BY <1>3, <1>4

(* After the last byte the whole of cull_queue is done.                    *)
LEMMA CullIsDone ==
  ASSUME LoopsInv, CullByte, i + 1 = MAP_SIZE
  PROVE  \E picked \in SUBSET Slots : Table!CullTable(picked)
<1>1. /\ pc = "cull" /\ i \in Slots /\ begin \in Tables
      /\ begin' = table' /\ UNCHANGED <<top_rated, tc_ref, trace_mini, fav_factor, score_changed>>
  <2>1. ~(i + 1 < MAP_SIZE)
    BY LoopsAssumption
  <2>2. QED
    BY <2>1 DEF CullByte, NextByte, LoopsInv, LoopsTyped
<1>2. /\ begin.score_changed /\ ~score_changed
      /\ top_rated = begin.top_rated /\ tc_ref = begin.tc_ref
      /\ trace_mini = begin.trace_mini /\ fav_factor = begin.fav_factor
  BY <1>1 DEF LoopsInv, CullInv
<1>3. PICK picked \in SUBSET Slots : Walked(picked, i + 1) /\ tr_intersting' = Marks(picked)
  BY BytePicks
<1>4. \A s \in Slots : s < i + 1
  BY LoopsAssumption DEF Slots
<1>5. Table!IsWalk(picked)
  BY <1>2, <1>3, <1>4 DEF Table!IsWalk, Walked, Table!Slots, Slots
<1>6. tr_intersting' = [e \in Entries |-> \E s \in picked : begin.top_rated[s] = e]
  BY <1>2, <1>3 DEF Marks
<1>7. score_changed' = FALSE
  BY <1>1, <1>2 DEF LoopsInv, LoopsTyped, Tables, table
<1>8. /\ begin'.top_rated = top_rated' /\ begin'.tc_ref = tc_ref' /\ begin'.trace_mini = trace_mini'
      /\ begin'.fav_factor = fav_factor' /\ begin'.score_changed = score_changed'
      /\ begin'.tr_intersting = tr_intersting'
  BY <1>1 DEF table
<1>9. Table!CullTable(picked)
  BY <1>1, <1>2, <1>5, <1>6, <1>7, <1>8 DEF Table!CullTable
<1>10. QED
  BY <1>9

(* Marking an entry of its own accord keeps the invariant and is a step of *)
(* TopRated.                                                               *)
LEMMA MarkKeeps ==
  ASSUME LoopsInv, NEW e \in Entries, MarkNewEntry(e)
  PROVE  LoopsInv' /\ Table!MarkNewEntry(e)
<1> USE DEF MarkNewEntry
<1>1. table \in Tables /\ begin = table
  BY DEF LoopsInv, LoopsTyped
<1>2. /\ begin' = table' /\ table' \in Tables
  BY <1>1 DEF Tables, table
<1>3. LoopsTyped'
  BY <1>1, <1>2 DEF LoopsInv, LoopsTyped
<1>4. CountsInv'
  BY <1>1, <1>2 DEF LoopsInv, CountsInv, table
<1>5. LoopsInv'
  BY <1>3, <1>4 DEF LoopsInv, ScoreInv, CullInv
<1>6. Table!MarkNewEntry(e)
  BY <1>1, <1>2 DEF Table!MarkNewEntry, Table!Slots, Slots, table
<1>7. QED
  BY <1>5, <1>6

(* A stuttering step keeps the invariant.                                  *)
LEMMA LoopsStutter ==
  ASSUME LoopsInv, UNCHANGED vars PROVE LoopsInv'
<1> USE DEF vars
<1>1. LoopsTyped' /\ CountsInv'
  BY DEF LoopsInv, LoopsTyped, CountsInv, table
<1>2. ScoreInv'
  <2>1. Below(i)' = Below(i)
    BY DEF Below, Won, Table!Won, Table!Slots
  <2>2. QED
    BY <2>1 DEF LoopsInv, ScoreInv, Scored, Table!RefreshesCopy, Table!Held
<1>3. CullInv'
  BY DEF LoopsInv, CullInv, Walked, Marks
<1>4. QED
  BY <1>1, <1>2, <1>3 DEF LoopsInv

(* Every step keeps the invariant.                                         *)
LEMMA LoopsStep ==
  ASSUME LoopsInv, [Next]_vars PROVE LoopsInv'
BY EnterScoreKeeps, ScoreByteKeeps, EnterCullKeeps, CullByteKeeps, MarkKeeps, LoopsStutter DEF Next

(* The inductive invariant holds in every reachable state.                 *)
THEOREM LoopsCorrect == Spec => []LoopsInv
<1>1. LoopsInv /\ [Next]_vars => LoopsInv'
  BY LoopsStep
<1>2. QED
  BY LoopsInit, <1>1, PTL DEF Spec

(* Where the counts are exact, a held slot names an entry with a copy.     *)
LEMMA CountsTell == LoopsInv => HolderReadable
<1> SUFFICES ASSUME LoopsInv, NEW s \in Slots, top_rated[s] # NULL
             PROVE  tc_ref[top_rated[s]] > 0 /\ trace_mini[top_rated[s]] # {}
  BY DEF HolderReadable
<1> DEFINE e == top_rated[s]
<1>1. e \in Entries
  BY DEF LoopsInv, LoopsTyped, Tables, table
<1>2. Holds(top_rated, e) \in SUBSET Slots /\ Holds(top_rated, e) # {}
  BY DEF Holds
<1>3. tc_ref[e] = Cardinality(Holds(top_rated, e)) /\ trace_mini[e] # {}
  BY <1>1, <1>2 DEF LoopsInv, CountsInv, Accounted
<1>4. QED
  BY <1>2, <1>3, SlotSetsAreFinite, FS_EmptySet

(* The entry that holds a slot is counted and has its copy trace_mini      *)
(* whenever a loop may read it, also between two bytes (TSAFL-fuzz.c,      *)
(* update_bitmap_score and cull_queue).                                    *)
THEOREM HolderAlwaysReadable == Spec => []HolderReadable
BY LoopsCorrect, CountsTell, PTL

(* A step of a loop stutters in TopRated, but the last, which is the whole *)
(* update_bitmap_score or the whole cull_queue.                            *)
LEMMA LoopsStepMaps ==
  ASSUME LoopsInv, [Next]_vars
  PROVE  [Table!TableNext]_(Table!tableVars)
<1>1. begin' = begin => UNCHANGED Table!tableVars
  BY DEF Table!tableVars
<1>2. ASSUME NEW e \in Entries, NEW trace \in SUBSET Slots, NEW factor \in Factors,
             EnterScore(e, trace, factor)
      PROVE  begin' = begin
  BY <1>2 DEF EnterScore, Enter, LoopsInv, LoopsTyped
<1>3. CASE EnterCull
  BY <1>1, <1>3 DEF EnterCull, Enter, LoopsInv, LoopsTyped
<1>4. i \in Slots /\ (~(i + 1 < MAP_SIZE) <=> i + 1 = MAP_SIZE)
  BY LoopsAssumption DEF LoopsInv, LoopsTyped, Slots
<1>5. CASE ScoreByte
  <2>1. CASE i + 1 < MAP_SIZE
    BY <1>1, <1>5, <2>1 DEF ScoreByte, NextByte
  <2>2. CASE i + 1 = MAP_SIZE
    <3>1. /\ q \in Entries /\ trace_bits \in SUBSET Table!Slots /\ fav_factor[q] \in Table!Factors
      BY <1>5 DEF ScoreByte, LoopsInv, LoopsTyped, Tables, table, Table!Slots, Slots, Table!Factors, Factors
    <3>2. Table!UpdateBitmapScore(q, trace_bits, fav_factor[q])
      BY <1>5, <2>2, ScoreIsDone
    <3>3. QED
      BY <3>1, <3>2 DEF Table!TableNext
  <2>3. QED
    BY <1>4, <2>1, <2>2
<1>6. CASE CullByte
  <2>1. CASE i + 1 < MAP_SIZE
    BY <1>1, <1>6, <2>1 DEF CullByte, NextByte
  <2>2. CASE i + 1 = MAP_SIZE
    BY <1>6, <2>2, CullIsDone DEF Table!TableNext, Table!Slots, Slots
  <2>3. QED
    BY <1>4, <2>1, <2>2
<1>7. ASSUME NEW e \in Entries, MarkNewEntry(e) PROVE Table!TableNext
  BY <1>7, MarkKeeps DEF Table!TableNext
<1>8. QED
  BY <1>1, <1>2, <1>3, <1>5, <1>6, <1>7 DEF Next, vars

(* The loops over the bytes implement the steps of TopRated.               *)
THEOREM LoopsImplementTable == Spec => ImplementsTable
<1>1. Init => Table!TableInit
  BY DEF Init, Table!TableInit, table, Table!Slots, Slots
<1>2. LoopsInv /\ [Next]_vars => [Table!TableNext]_(Table!tableVars)
  BY LoopsStepMaps
<1>3. QED
  BY <1>1, <1>2, LoopsCorrect, PTL DEF Spec, ImplementsTable, Table!TableSpec
=============================================================================
