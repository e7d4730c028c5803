------------------------------ MODULE PlanGen ------------------------------
(***************************************************************************)
(* generate_que (tsafl/helper.cc) makes the plans of a session.  For every *)
(* pair of threads that lived at the same time the two lists of actions    *)
(* are coloured and interleaved block by block by the recursion            *)
(* create_que; an interleaving is kept if it has no window known to be     *)
(* impossible and shows a window that no earlier one showed, of this pair  *)
(* or another.  What becomes of the plans is in PlanSession.               *)
(*                                                                         *)
(* A window, an action of one thread, then actions of the other, then the  *)
(* first one's next action, stands for its checksum and size.  ck_sum_map  *)
(* stays empty: nothing but a test fills it.                               *)
(***************************************************************************)
EXTENDS Tokens, Colouring

CONSTANTS
  Records,       \* what the runs before a session may have recorded, see Tokens
  VarTables,     \* the variables of each action, by program
  ClosedSets     \* what close_map may hold, a set of sets of <<first, middle, last>>

(* Each thread does something, and each of its actions is in the tables.     *)
IsRecord(r) ==
  /\ ThreadsOf(r) \subseteq Nat
  /\ \A t \in ThreadsOf(r), vars \in VarTables : r.actions[t] \in Seq(DOMAIN vars) \ {<<>>}

ASSUME PlanGenAssumption == \A r \in Records : IsRecord(r)

VARIABLES
  record, var_table, close_map,   \* the input
  res_set,                        \* the pairs of threads not yet tried
  trans,                          \* the pair at work
  signal_list,                    \* thread -> where a block may begin
  loc,                            \* thread -> actions of it that are in res
  res,                            \* the interleaving under construction, of <<thread, action>>
  stack,                          \* the calls of create_que: index tried and len_plus
  item,                           \* the index in trans to try next
  at,                             \* "pairs", "call", "loop", "back", "done" or "aborted"
  mem_cksum, final_list, single_wCks,
  tried                           \* history: <<pair, its colours>> of each pair tried

input == <<record, var_table, close_map>>
session == <<res_set, trans, signal_list, tried>>
result == <<mem_cksum, final_list, single_wCks>>
genVars == <<input, session, loc, res, stack, item, at, result>>

list == record.actions
MaxSize == Len(list[trans[1]]) + Len(list[trans[2]])

Init ==
  /\ record \in Records /\ var_table \in VarTables /\ close_map \in ClosedSets
  /\ res_set = InterestingPairs(record)
  /\ trans = <<>> /\ tried = <<>>
  /\ signal_list = [t \in ThreadsOf(record) |-> ColourFirst(list, t, var_table)]
  /\ loc = [t \in ThreadsOf(record) |-> 0] /\ res = <<>> /\ stack = <<>>
  /\ item = 1 /\ at = "pairs"
  /\ mem_cksum = {} /\ final_list = <<>> /\ single_wCks = {}

-----------------------------------------------------------------------------
(* The windows of an interleaving: generate_wCks_from_plan, and the scan of *)
(* is_have_unallowed_situation, look at the same pairs of positions.        *)
WindowEnds(v) ==
  {e \in (1..Len(v)) \X (1..Len(v)) :
     /\ e[1] + 2 <= e[2] /\ v[e[1]][1] = v[e[2]][1]
     /\ \A k \in e[1] + 1..e[2] - 1 : v[k][1] # v[e[1]][1]}

WindowAt(v, e) ==
  <<v[e[1]][2], v[e[2]][2], [k \in 1..e[2] - e[1] - 1 |-> v[e[1] + k][2]]>>

WindowsOf(v) == {WindowAt(v, e) : e \in WindowEnds(v)}

HasUnallowedSituation(v) ==
  \E e \in WindowEnds(v) : \E k \in e[1] + 1..e[2] - 1 :
    <<v[e[1]][2], v[k][2], v[e[2]][2]>> \in close_map

(* get_meaning_couple_from_v: the windows of v that are new. *)
NewWindows(v) == WindowsOf(v) \ mem_cksum

-----------------------------------------------------------------------------
(* The end of an interleaving.  The windows go to the session whether the   *)
(* plan is kept or not: REAL_SCHED is not defined.                          *)
Keep(v) == final_list' = IF NewWindows(v) # {} THEN Append(final_list, v) ELSE final_list

\* A bug of Judge: the two tests in the other order.
JudgeWindowsFirst(v) ==
  /\ mem_cksum' = mem_cksum \cup WindowsOf(v)
  /\ single_wCks' = single_wCks \cup WindowsOf(v)
  /\ IF HasUnallowedSituation(v) THEN UNCHANGED final_list ELSE Keep(v)

Judge(v) ==
  IF HasUnallowedSituation(v)
  THEN UNCHANGED result
  ELSE /\ mem_cksum' = mem_cksum \cup WindowsOf(v)
       /\ single_wCks' = single_wCks \cup WindowsOf(v)
       /\ Keep(v)

Complete ==
  /\ at = "call" /\ Len(res) = MaxSize
  /\ Judge(res)
  /\ at' = "back"
  /\ UNCHANGED <<input, session, loc, res, stack, item>>

Descend ==
  /\ at = "call" /\ Len(res) < MaxSize
  /\ item' = 1 /\ at' = "loop"
  /\ UNCHANGED <<input, session, loc, res, stack, result>>

(* intoSquence: one action, and on to the next position with a signal. *)
BlockEnd(t) ==
  CHOOSE n \in loc[t] + 1..Len(list[t]) :
    /\ n = Len(list[t]) \/ n + 1 \in signal_list[t]
    /\ \A m \in loc[t] + 1..n - 1 : m + 1 \notin signal_list[t]

IntoSequence ==
  /\ at = "loop" /\ item \in 1..2
  /\ LET t == trans[item]
     IN /\ loc[t] < Len(list[t])
        /\ LET end == BlockEnd(t)
               block == [i \in 1..end - loc[t] |-> <<t, list[t][loc[t] + i]>>]
           IN /\ res' = res \o block
              /\ stack' = Append(stack, <<item, Len(block)>>)
              /\ loc' = [loc EXCEPT ![t] = end]
  /\ at' = "call"
  /\ UNCHANGED <<input, session, item, result>>

NothingLeft ==
  /\ at = "loop" /\ item \in 1..2
  /\ loc[trans[item]] = Len(list[trans[item]])
  /\ item' = item + 1
  /\ UNCHANGED <<input, session, loc, res, stack, at, result>>

LoopEnds ==
  /\ at = "loop" /\ item > 2
  /\ at' = "back"
  /\ UNCHANGED <<input, session, loc, res, stack, item, result>>

(* The call returns: len_plus actions are popped and backOneStep takes the   *)
(* thread back.                                                             *)
Return ==
  /\ at = "back" /\ stack # <<>>
  /\ LET t == trans[Last(stack)[1]]
         len == Last(stack)[2]
     IN /\ res' = SubSeq(res, 1, Len(res) - len)
        /\ loc' = [loc EXCEPT ![t] = @ - len]
        /\ item' = Last(stack)[1] + 1
  /\ stack' = Front(stack)
  /\ at' = "loop"
  /\ UNCHANGED <<input, session, result>>

-----------------------------------------------------------------------------
(* The loop of generate_que over the pairs: the colours of a pair stand in  *)
(* its signal_lists while create_que works on it and are then exchanged     *)
(* for those of the first step again.                                       *)
StartPair ==
  /\ at = "pairs"
  /\ \E p \in res_set : \E c \in PairColours(list, p, var_table) :
       /\ res_set' = res_set \ {p}
       /\ trans' = p
       /\ tried' = Append(tried, <<p, c>>)
       /\ signal_list' = [signal_list EXCEPT ![p[1]] = c[1], ![p[2]] = c[2]]
  /\ at' = "call"
  /\ UNCHANGED <<input, loc, res, stack, item, result>>

FinishPair ==
  /\ at = "back" /\ stack = <<>>
  /\ signal_list' = [t \in ThreadsOf(record) |-> ColourFirst(list, t, var_table)]
  /\ trans' = <<>>
  /\ at' = "pairs"
  /\ UNCHANGED <<input, res_set, tried, loc, res, stack, item, result>>

(* The plans go to run_target_with_scheduel, which asserts that there are   *)
(* some.                                                                    *)
HandOver ==
  /\ at = "pairs" /\ res_set = {}
  /\ at' = IF final_list = <<>> THEN "aborted" ELSE "done"
  /\ UNCHANGED <<input, session, loc, res, stack, item, result>>

Generate ==
  \/ StartPair \/ FinishPair \/ HandOver
  \/ Complete \/ Descend \/ IntoSequence \/ NothingLeft \/ LoopEnds \/ Return

-----------------------------------------------------------------------------
(* The plan as it is handed to the target: put_Scheduel_que_into_result      *)
(* numbers the threads as they appear and gives each action a stop time of  *)
(* 1 if the other thread came just before; insert_scheduel_plan copies the  *)
(* stop times of each thread to kp_times.                                   *)
Times(v, t, n) == Cardinality({q \in 1..n : v[q][1] = t})

Nth(v, t, i) == CHOOSE p \in 1..Len(v) : v[p][1] = t /\ Times(v, t, p) = i

\* A bug of StopTime: the first action of the other thread is not delayed.
StopTimeAfterTwo(v, p) == IF p > 2 /\ v[p - 1][1] # v[p][1] /\ v[p - 2][1] # v[p][1] THEN 1 ELSE 0

StopTime(v, p) == IF p > 1 /\ v[p - 1][1] # v[p][1] THEN 1 ELSE 0

KpTimes(v, t) == [i \in 1..Times(v, t, Len(v)) |-> StopTime(v, Nth(v, t, i))]

\* result_seq, then the stop times of the two threads in that order.
EncodedPlan(v) ==
  LET first == v[1][1]
      second == (CHOOSE p \in {v[i][1] : i \in DOMAIN v} : p # first)
  IN <<first, second, KpTimes(v, first), KpTimes(v, second)>>

-----------------------------------------------------------------------------
(* What the plans are measured against: all interleavings of the blocks of   *)
(* a pair p coloured with c.                                                *)
Interleavings(p, c) ==
  LET size == Len(list[p[1]]) + Len(list[p[2]])
      choices == {S \in SUBSET (1..size) : Cardinality(S) = Len(list[p[1]])}
      of(S, i) == IF i \in S THEN 1 ELSE 2
      nth(S, i) == Cardinality({q \in 1..i : of(S, q) = of(S, i)})
      whole(S) == \A i \in 1..size :
                    nth(S, i) > 1 /\ nth(S, i) \notin c[of(S, i)] => of(S, i - 1) = of(S, i)
  IN {[i \in 1..size |-> <<p[of(S, i)], list[p[of(S, i)]][nth(S, i)]>>] :
        S \in {X \in choices : whole(X)}}

AllInterleavings == UNION {Interleavings(tried[i][1], tried[i][2]) : i \in DOMAIN tried}

ActionsOf(v, t) == [i \in 1..Times(v, t, Len(v)) |-> v[Nth(v, t, i)][2]]

Over == at \in {"done", "aborted"}

(* The interleaving under construction agrees with the threads at every      *)
(* point of the recursion: each thread has given exactly its first loc      *)
(* actions, so that backtracking returns what intoSquence took.             *)
ResFollowsThreads ==
  /\ \A t \in ThreadsOf(record) :
       /\ loc[t] \in 0..Len(list[t])
       /\ ActionsOf(res, t) = SubSeq(list[t], 1, loc[t])
  /\ at = "pairs" => res = <<>> /\ stack = <<>>

(* Two threads are planned together exactly if both were open at one place   *)
(* of the log, and main with none: the turns of get_tis_token lose neither  *)
(* a pair nor add one.                                                      *)
OpenAt(t, i) ==
  /\ \E k \in 1..i : record.log[k] = <<"create", t>>
  /\ \A k \in 1..i : record.log[k] # <<"join", t>>

PairsLiveTogether ==
  res_set \cup {tried[i][1] : i \in DOMAIN tried} =
    {p \in (ThreadsOf(record) \ {record.main}) \X (ThreadsOf(record) \ {record.main}) :
       p[1] < p[2] /\ \E i \in DOMAIN record.log : OpenAt(p[1], i) /\ OpenAt(p[2], i)}

(* No window is lost: each window of an interleaving that the colours and    *)
(* the closed windows allow, of any pair, is shown by a plan that is kept,  *)
(* and the plans are such interleavings.                                    *)
EveryWindowPlanned ==
  Over =>
    LET kept == {final_list[i] : i \in 1..Len(final_list)}
        allowed == {v \in AllInterleavings : ~HasUnallowedSituation(v)}
    IN /\ kept \subseteq allowed
       /\ UNION {WindowsOf(v) : v \in allowed} = UNION {WindowsOf(v) : v \in kept}

(* The threads and their stop times determine the plan: the target can tell  *)
(* any two plans of a session apart.                                        *)
PlansAreTellable ==
  Over =>
    \A i, j \in 1..Len(final_list) :
      EncodedPlan(final_list[i]) = EncodedPlan(final_list[j]) => final_list[i] = final_list[j]

(* assert(result != NULL && result->size != 0) in run_target_with_scheduel:  *)
(* a session has a plan.                                                    *)
SessionHasPlan == at # "aborted"

(* "Plans unused woule be add to g_single_info.cks": a window is credited    *)
(* to the seed before any run only if no plan of the session will show it.  *)
OnlyUnusedPlansAreCredited ==
  Over =>
    single_wCks \cap UNION {WindowsOf(final_list[i]) : i \in 1..Len(final_list)} = {}

(* Coloring "will uninterest the content shared by more than one thread":    *)
(* the place between two actions is taken from the plans only if the two    *)
(* are shared, unconnected or repeated.                                     *)
OnlyUninterestingIsDropped ==
  \A t \in ThreadsOf(record) \ {record.main} :
    LET dropped == (2..Len(list[t])) \ ColourFirst(list, t, var_table)
    IN \A j \in dropped :
         j - 1 \in SharedContent(list, t) \cup Unconnected(list[t], var_table) \cup RepeatedWindow(list[t])

(* "Check if you are currently eligible to generate the plan": the colours   *)
(* of a pair allow at most PLAN_MAX interleavings.                          *)
PlansWithinLimit ==
  \A i \in DOMAIN tried : Cardinality(Interleavings(tried[i][1], tried[i][2])) <= Sizes.plans
=============================================================================
