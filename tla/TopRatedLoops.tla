---------------------------- MODULE TopRatedLoops ----------------------------
(***************************************************************************)
(* The two loops over the coverage map, one byte at a time, as they stand  *)
(* in update_bitmap_score and cull_queue: the reference count of the loser *)
(* is decremented and its copy freed before the winner is counted, also    *)
(* when both are the same entry.  Each run of a loop implements one step   *)
(* of TopRated.                                                            *)
(***************************************************************************)
EXTENDS Integers

CONSTANTS MAP_SIZE, Entries, NULL, MaxFactor

ASSUME LoopsAssumption == MAP_SIZE \in Nat \ {0} /\ NULL \notin Entries /\ MaxFactor \in Nat

Slots == 0..(MAP_SIZE - 1)
Factors == 0..MaxFactor

VARIABLES
  top_rated, tc_ref, trace_mini, fav_factor, score_changed, tr_intersting,
  pc,          \* "idle", or the loop that is running
  i,           \* the byte the loop has reached
  q,           \* the entry being scored
  trace_bits,  \* its trace, as the set of bytes that are not zero
  temp_v,      \* the bytes the running cull has not covered yet
  begin        \* the table when the running loop was entered

table == [top_rated |-> top_rated, tc_ref |-> tc_ref, trace_mini |-> trace_mini,
          fav_factor |-> fav_factor, score_changed |-> score_changed,
          tr_intersting |-> tr_intersting]

vars == <<top_rated, tc_ref, trace_mini, fav_factor, score_changed, tr_intersting,
          pc, i, q, trace_bits, temp_v, begin>>

Init ==
  /\ top_rated = [s \in Slots |-> NULL]
  /\ tc_ref = [e \in Entries |-> 0]
  /\ trace_mini = [e \in Entries |-> {}]
  /\ fav_factor = [e \in Entries |-> 0]
  /\ score_changed = FALSE
  /\ tr_intersting = [e \in Entries |-> FALSE]
  /\ pc = "idle" /\ i = 0 /\ q = NULL /\ trace_bits = {} /\ temp_v = {}
  /\ begin = table

Enter(loop) ==
  /\ pc = "idle"
  /\ pc' = loop /\ i' = 0 /\ begin' = table

\* After the last byte the locals are dead; they are reset so that only the
\* table tells two idle states apart.
NextByte ==
  IF i + 1 < MAP_SIZE
  THEN i' = i + 1 /\ UNCHANGED <<pc, q, trace_bits, begin>>
  ELSE i' = 0 /\ pc' = "idle" /\ q' = NULL /\ trace_bits' = {} /\ begin' = table'

-----------------------------------------------------------------------------
(* update_bitmap_score *)
EnterScore(e, trace, factor) ==
  /\ Enter("score")
  /\ q' = e /\ trace_bits' = trace
  /\ fav_factor' = [fav_factor EXCEPT ![e] = factor]
  /\ UNCHANGED <<top_rated, tc_ref, trace_mini, score_changed, tr_intersting, temp_v>>

\* A bug of QLoses: a tie is lost.
QLosesTies(holder) == holder # NULL /\ fav_factor[q] >= fav_factor[holder]

QLoses(holder) == holder # NULL /\ fav_factor[q] > fav_factor[holder]

\* The null check of trace_mini comes after the loser has been freed.
\* A bug of Copies: trace_mini is looked at before the loser is freed.
CopiesCheckedFirst(minis) ==
  IF trace_mini[q] = {} THEN [minis EXCEPT ![q] = trace_bits] ELSE minis

Copies(minis) == IF minis[q] = {} THEN [minis EXCEPT ![q] = trace_bits] ELSE minis

ScoreByte ==
  /\ pc = "score"
  /\ UNCHANGED <<fav_factor, tr_intersting, temp_v>>
  /\ LET holder == top_rated[i]
         refs == IF holder = NULL THEN tc_ref ELSE [tc_ref EXCEPT ![holder] = @ - 1]
         minis == IF holder # NULL /\ refs[holder] = 0
                  THEN [trace_mini EXCEPT ![holder] = {}] ELSE trace_mini
     IN IF i \notin trace_bits \/ QLoses(holder)
        THEN UNCHANGED <<top_rated, tc_ref, trace_mini, score_changed>>
        ELSE /\ top_rated' = [top_rated EXCEPT ![i] = q]
             /\ tc_ref' = [refs EXCEPT ![q] = @ + 1]
             /\ trace_mini' = Copies(minis)
             /\ score_changed' = TRUE
  /\ NextByte

-----------------------------------------------------------------------------
(* cull_queue: clear the flags, then walk the table. *)
EnterCull ==
  /\ Enter("cull")
  /\ score_changed
  /\ score_changed' = FALSE
  /\ tr_intersting' = [e \in Entries |-> FALSE]
  /\ temp_v' = Slots
  /\ UNCHANGED <<top_rated, tc_ref, trace_mini, fav_factor, q, trace_bits>>

CullByte ==
  /\ pc = "cull"
  /\ UNCHANGED <<top_rated, tc_ref, trace_mini, fav_factor, score_changed>>
  /\ LET holder == top_rated[i]
     IN IF holder # NULL /\ i \in temp_v
        THEN /\ tr_intersting' = [tr_intersting EXCEPT ![holder] = TRUE]
             /\ temp_v' = IF i + 1 < MAP_SIZE THEN temp_v \ trace_mini[holder] ELSE {}
        ELSE /\ UNCHANGED tr_intersting
             /\ temp_v' = IF i + 1 < MAP_SIZE THEN temp_v ELSE {}
  /\ NextByte

MarkNewEntry(e) ==
  /\ pc = "idle"
  /\ e \notin {top_rated[s] : s \in Slots}
  /\ tr_intersting' = [tr_intersting EXCEPT ![e] = TRUE]
  /\ begin' = [begin EXCEPT !.tr_intersting = tr_intersting']
  /\ UNCHANGED <<top_rated, tc_ref, trace_mini, fav_factor, score_changed,
                 pc, i, q, trace_bits, temp_v>>

Next ==
  \/ \E e \in Entries, trace \in SUBSET Slots, factor \in Factors : EnterScore(e, trace, factor)
  \/ ScoreByte
  \/ EnterCull
  \/ CullByte
  \/ \E e \in Entries : MarkNewEntry(e)

Spec == Init /\ [][Next]_vars

-----------------------------------------------------------------------------
(* While a loop runs the abstract table is the one it started from; the    *)
(* iteration that leaves the loop is the abstract step.                    *)
Table == INSTANCE TopRated WITH
  top_rated <- begin.top_rated, tc_ref <- begin.tc_ref, trace_mini <- begin.trace_mini,
  fav_factor <- begin.fav_factor, score_changed <- begin.score_changed,
  tr_intersting <- begin.tr_intersting

(* The byte-by-byte loops do what the one-step operations of TopRated say. *)
ImplementsTable == Table!TableSpec

(* In the middle of a loop too, the counts never go below zero (they are   *)
(* unsigned) and a copy is freed only with its last slot: cull_queue and   *)
(* the next iteration may dereference the copy of any holder.              *)
HolderReadable ==
  \A s \in Slots : top_rated[s] # NULL =>
    tc_ref[top_rated[s]] > 0 /\ trace_mini[top_rated[s]] # {}

=============================================================================
