------------------------------ MODULE TopRated ------------------------------
(***************************************************************************)
(* The top_rated[] table of TSAFL-fuzz.c: for every byte of the coverage   *)
(* map, the cheapest queue entry known to set it.  An entry that holds at  *)
(* least one slot keeps a compressed copy of its trace (trace_mini), and   *)
(* tc_ref counts the slots it holds, so that the copy can be freed.        *)
(* cull_queue walks the table and marks the winners that are needed to     *)
(* cover every byte seen so far.                                           *)
(*                                                                         *)
(* Each operation is one step here.  TopRatedLoops models the loops over   *)
(* the map byte by byte and is checked to implement this module.           *)
(***************************************************************************)
EXTENDS Integers, FiniteSets

CONSTANTS
  MAP_SIZE,   \* bytes of the coverage map
  Entries,    \* the queue entries that may ever exist
  NULL,       \* the empty top_rated[] slot
  MaxFactor   \* bound on exec_us * len

ASSUME MapSizeAssumption == MAP_SIZE \in Nat \ {0}
ASSUME EntriesAssumption == NULL \notin Entries
ASSUME FactorAssumption == MaxFactor \in Nat

Slots == 0..(MAP_SIZE - 1)
Factors == 0..MaxFactor

VARIABLES
  top_rated,      \* slot -> the entry that holds it
  tc_ref,         \* entry -> number of slots it holds, as the code counts it
  trace_mini,     \* entry -> kept trace, as a set of slots; {} is the null pointer
  fav_factor,     \* entry -> exec_us * len, smaller is better
  score_changed,  \* some slot changed hands since the last cull
  tr_intersting   \* entry -> needed for coverage (the source's spelling)

tableVars == <<top_rated, tc_ref, trace_mini, fav_factor, score_changed, tr_intersting>>

TypeOK ==
  /\ top_rated \in [Slots -> Entries \cup {NULL}]
  /\ tc_ref \in [Entries -> Int]
  /\ trace_mini \in [Entries -> SUBSET Slots]
  /\ fav_factor \in [Entries -> Factors]
  /\ score_changed \in BOOLEAN
  /\ tr_intersting \in [Entries -> BOOLEAN]

TableInit ==
  /\ top_rated = [i \in Slots |-> NULL]
  /\ tc_ref = [q \in Entries |-> 0]
  /\ trace_mini = [q \in Entries |-> {}]
  /\ fav_factor = [q \in Entries |-> 0]
  /\ score_changed = FALSE
  /\ tr_intersting = [q \in Entries |-> FALSE]

(***************************************************************************)
(* update_bitmap_score.  exec_time is 1 in every entry and is never        *)
(* written again, so the comparison of next_p2(exec_time) is always a tie  *)
(* and fav_factor decides; an entry beats itself on a slot it holds.       *)
(***************************************************************************)
Held(q) == {i \in Slots : top_rated[i] = q}

\* A bug of Won: the comparison is turned round.
WonByCostlier(q, trace, factor) ==
  {i \in trace : top_rated[i] \in {NULL, q} \/ factor > fav_factor[top_rated[i]]}

Won(q, trace, factor) ==
  {i \in trace : top_rated[i] \in {NULL, q} \/ factor <= fav_factor[top_rated[i]]}

(* The map is walked upwards and a slot's old holder is dereferenced before *)
(* q takes it.  If q holds one slot and meets it first, its own count drops *)
(* to zero there, so the copy is freed and made again from this trace;      *)
(* otherwise a copy that exists is kept, however old it is.                 *)
\* A bug of RefreshesCopy: a winner without a copy does not get one.
NeverRefreshes(q, won) == FALSE

RefreshesCopy(q, won) ==
  \/ trace_mini[q] = {}
  \/ \E i \in won : Held(q) = {i} /\ \A j \in won : i <= j

\* A bug of Refs: the loser keeps its count.
RefsKeptByLosers(q, won) ==
  [p \in Entries |-> IF p = q THEN tc_ref[q] + Cardinality(won \ Held(q)) ELSE tc_ref[p]]

Refs(q, won) ==
  [p \in Entries |->
     IF p = q THEN tc_ref[q] + Cardinality(won \ Held(q))
              ELSE tc_ref[p] - Cardinality(Held(p) \cap won)]

UpdateBitmapScore(q, trace, factor) ==
  LET won == Won(q, trace, factor)
      refs == Refs(q, won)
  IN /\ fav_factor' = [fav_factor EXCEPT ![q] = factor]
     /\ top_rated' = [i \in Slots |-> IF i \in won THEN q ELSE top_rated[i]]
     /\ tc_ref' = refs
     /\ trace_mini' = [p \in Entries |->
                         IF p # q THEN IF refs[p] = 0 THEN {} ELSE trace_mini[p]
                         ELSE IF won # {} /\ RefreshesCopy(q, won) THEN trace
                         ELSE trace_mini[q]]
     /\ score_changed' = (score_changed \/ won # {})
     /\ UNCHANGED tr_intersting

(***************************************************************************)
(* The part of cull_queue that reads the table.  The walk picks a slot     *)
(* when no trace copy of an earlier pick has cleared its bit of temp_v.    *)
(***************************************************************************)
IsWalk(picked) ==
  /\ \A i \in picked : top_rated[i] # NULL
  /\ picked = {i \in Slots :
                 /\ top_rated[i] # NULL
                 /\ \A j \in picked : j < i => i \notin trace_mini[top_rated[j]]}

CullTable(picked) ==
  /\ score_changed
  /\ IsWalk(picked)
  /\ tr_intersting' = [q \in Entries |-> \E i \in picked : top_rated[i] = q]
  /\ score_changed' = FALSE
  /\ UNCHANGED <<top_rated, tc_ref, trace_mini, fav_factor>>

(* save_if_interesting marks the entry it has just appended. *)
MarkNewEntry(q) ==
  /\ q \notin {top_rated[i] : i \in Slots}
  /\ tr_intersting' = [tr_intersting EXCEPT ![q] = TRUE]
  /\ UNCHANGED <<top_rated, tc_ref, trace_mini, fav_factor, score_changed>>

TableNext ==
  \/ \E q \in Entries, trace \in SUBSET Slots, factor \in Factors :
       UpdateBitmapScore(q, trace, factor)
  \/ \E picked \in SUBSET Slots : CullTable(picked)
  \/ \E q \in Entries : MarkNewEntry(q)

TableSpec == TableInit /\ [][TableNext]_tableVars

-----------------------------------------------------------------------------
(* tc_ref is the number of slots an entry holds: the count update_bitmap_  *)
(* score keeps by hand, one slot at a time, for the loser and the winner.  *)
RefsExact == \A q \in Entries : tc_ref[q] = Cardinality(Held(q))

(* A trace copy exists exactly while its entry holds a slot: cull_queue    *)
(* never reads a freed copy and no copy outlives its last slot.            *)
CopyWhileReferenced == \A q \in Entries : (trace_mini[q] # {}) <=> (Held(q) # {})

(* Whatever cull_queue leaves out is covered: while the table has not      *)
(* changed since the last cull, a byte that has a holder is in the trace   *)
(* copy of a needed entry, or its own holder is needed.                    *)
CullCovers ==
  ~score_changed =>
    \A i \in Slots :
      \/ top_rated[i] = NULL
      \/ tr_intersting[top_rated[i]]
      \/ \E q \in Entries : tr_intersting[q] /\ i \in trace_mini[q]

(* A byte once covered keeps a holder, and only an entry that is not       *)
(* costlier takes it over.                                                 *)
SlotImproves(i) ==
  top_rated[i] # NULL /\ top_rated'[i] # top_rated[i] =>
    /\ top_rated'[i] # NULL
    /\ fav_factor'[top_rated'[i]] <= fav_factor[top_rated[i]]
SlotsImprove == [][\A i \in Slots : SlotImproves(i)]_tableVars

=============================================================================
