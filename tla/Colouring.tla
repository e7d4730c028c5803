----------------------------- MODULE Colouring -----------------------------
(***************************************************************************)
(* The colours of a session (tsafl/helper.cc): each position of a thread's *)
(* list of actions is 1 or -1, and only where it is 1 may create_que take  *)
(* another thread's turn before it.  Here the colours of a list are the    *)
(* set of its positions with a 1.                                          *)
(*                                                                         *)
(* lists is a function from threads to lists of actions, vars gives the    *)
(* variables of an action (search_vars_by_action).                         *)
(***************************************************************************)
EXTENDS Integers, Sequences, FiniteSets, SequencesExt

CONSTANTS
  GroupKeys,   \* the actions that are heads of a group (is_groupKey)
  Sizes        \* the bounds of generate_que and value_two_interesting_que

ASSUME ColouringAssumption ==
  DOMAIN Sizes = {"saturated", "large", "both", "one", "keep", "plans"}

Following(l, j) == <<l[j], l[j + 1]>>

(* The first step, for all threads of the session. *)
SharedContent(lists, t) ==
  {j \in 1..Len(lists[t]) - 1 :
     \E u \in DOMAIN lists \ {t} : \E k \in 1..Len(lists[u]) - 1 :
       Following(lists[t], j) = Following(lists[u], k)}

Unconnected(l, vars) ==
  {j \in 1..Len(l) - 1 : vars[l[j]] # {} /\ vars[l[j]] \cap vars[l[j + 1]] = {}}

RepeatedWindow(l) ==
  {j \in 1..Len(l) - 1 : \E k \in 1..j - 1 : Following(l, j) = Following(l, k)}

ColourFirst(lists, t, vars) ==
  DOMAIN lists[t] \ (SharedContent(lists, t) \cup Unconnected(lists[t], vars) \cup RepeatedWindow(lists[t]))

-----------------------------------------------------------------------------
(* The second step, for a pair of threads: actions without a variable that  *)
(* both threads use.                                                        *)
VarsOfList(l, vars) == UNION {vars[l[j]] : j \in DOMAIN l}

DropUselessVar(c, l, other, vars) ==
  {j \in c : vars[l[j]] = {} \/ vars[l[j]] \cap VarsOfList(other, vars) # {}}

ValueOf(c) == Cardinality(c) + 1

-----------------------------------------------------------------------------
(* The third step: fewer colours if the estimate of the number of           *)
(* interleavings is too large.                                              *)
RideBySelf[n \in 1..Sizes.saturated] ==
  IF n = 1 THEN 1
  ELSE LET res == RideBySelf[n - 1] * n
       IN IF res > Sizes.saturated THEN Sizes.saturated ELSE res

Factorial(m, n) == RideBySelf[m + n] \div (RideBySelf[m] * RideBySelf[n])

(* color_notGroup_key on both lists. *)
GroupsOnly(c, l, v) == IF v > Sizes.keep THEN {j \in c : l[j] \in GroupKeys} ELSE c

AfterGroups(c, l) ==
  LET v1 == ValueOf(c[1])
      v2 == ValueOf(c[2])
  IN IF Factorial(v1, v2) > Sizes.large /\ (v1 + v2 > Sizes.both \/ v1 > Sizes.one \/ v2 > Sizes.one)
     THEN <<GroupsOnly(c[1], l[1], v1), GroupsOnly(c[2], l[2], v2)>>
     ELSE c

(* value_two_interesting_que: both quotas go down until the estimate is     *)
(* small enough.  With a quota of 0 ride_by_self would not return; no       *)
(* values are in reach for which that happens.                              *)
Quotas(v1, v2) ==
  LET cut == (v1 > 5 \/ v2 > 5) /\ v1 + v2 > 30
      q1 == IF cut /\ v1 > 8 THEN 8 ELSE v1
      q2 == IF cut /\ v2 > 8 THEN 8 ELSE v2
      fits(k) == Factorial(q1 - k, q2 - k) <= Sizes.plans
      k == CHOOSE k \in 0..q1 + q2 : fits(k) /\ \A i \in 0..k - 1 : ~fits(i)
  IN <<q1 - k, q2 - k>>

(* color_interesting_by_random: dice take colours away if the quota is       *)
(* below the value.                                                         *)
ByRandom(c, value, quota) == IF quota # value THEN SUBSET c ELSE {c}

\* All the colours a pair of lists may be given.
ReducedColours(c, l) ==
  LET g == AfterGroups(c, l)
      v1 == ValueOf(g[1])
      v2 == ValueOf(g[2])
      q == Quotas(v1, v2)
  IN IF Factorial(v1, v2) > Sizes.large
     THEN ByRandom(g[1], v1, q[1]) \X ByRandom(g[2], v2, q[2])
     ELSE {g}

PairColours(lists, p, vars) ==
  LET l == <<lists[p[1]], lists[p[2]]>>
      first(t) == ColourFirst(lists, t, vars)
  IN ReducedColours(<<DropUselessVar(first(p[1]), l[1], l[2], vars),
                      DropUselessVar(first(p[2]), l[2], l[1], vars)>>, l)
=============================================================================
