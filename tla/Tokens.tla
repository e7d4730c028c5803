------------------------------- MODULE Tokens -------------------------------
(***************************************************************************)
(* What the fuzzer takes from the record of a run before it makes plans:   *)
(* get_s_t, get_tis_token and rebuildRelationMap (tsafl/helper.cc).        *)
(*                                                                         *)
(* A record has the number of main, the log of creations and joins that    *)
(* the run-time library keeps, <<"create" or "join", number>>, the actions *)
(* of each thread by its number, and zero, the thread in slot 0.  The log  *)
(* is closed: traceEnd joins who was not joined.  The ends of main's part  *)
(* (to_main) are left out: only pairs with main would use them and there   *)
(* are none.                                                               *)
(***************************************************************************)
EXTENDS Integers, Sequences, FiniteSets, SequencesExt

ThreadsOf(r) == DOMAIN r.actions

(* The library fills the array with -1 and the reader looks for a 0, so it   *)
(* goes on to the end of the array: the fill is the join of a tid 1, which  *)
(* tid_count[1] takes for slot 0.                                           *)
LogRead(r) == Append(r.log, <<"join", r.zero>>)

Places(r, entry) == {i \in DOMAIN LogRead(r) : LogRead(r)[i] = entry}

(* The log is cut into turns: creations, joins, creations... *)
\* A bug of Turn: the entry at which the kind changes still counts as the turn before.
TurnLate(r, i) == Cardinality({k \in 2..i - 1 : LogRead(r)[k][1] # LogRead(r)[k - 1][1]})

Turn(r, i) == Cardinality({k \in 2..i : LogRead(r)[k][1] # LogRead(r)[k - 1][1]})

(* A later entry of the same thread overwrites an earlier one. *)
StartOf(r, t) == Turn(r, Max(Places(r, <<"create", t>>)))
EndOf(r, t) == Turn(r, Max(Places(r, <<"join", t>>)))

(* Working_info::interesting_relation; main has no part in it. *)
InSameTimeSpace(r, t, u) == StartOf(r, t) < EndOf(r, u) /\ StartOf(r, u) < EndOf(r, t)

(* generate_interesting_pair: every thread is of interest (get_t_n_c), the  *)
(* relation holds a pair once, under the thread with the smaller number.    *)
InterestingPairs(r) ==
  {p \in (ThreadsOf(r) \ {r.main}) \X (ThreadsOf(r) \ {r.main}) :
     p[1] < p[2] /\ InSameTimeSpace(r, p[1], p[2])}

(* The record of a run whose main thread was the first to reach the map,    *)
(* and whose threads were created once and then joined once.                *)
OnlyAt(r, entry, i) == \A k \in DOMAIN r.log : r.log[k] = entry <=> k = i

OnceEach(r) ==
  /\ r.log \in Seq({"create", "join"} \X ThreadsOf(r)) /\ r.zero = r.main
  /\ \A t \in ThreadsOf(r) \ {r.main} : \E i, j \in DOMAIN r.log :
       i < j /\ OnlyAt(r, <<"create", t>>, i) /\ OnlyAt(r, <<"join", t>>, j)
=============================================================================
