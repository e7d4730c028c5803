------------------------- MODULE PlanSessionProofs -------------------------
(***************************************************************************)
(* The plans of a session, for any records, colours, windows and closed    *)
(* situations.                                                             *)
(*                                                                         *)
(* The pairs: the turns of get_tis_token plan two threads together exactly *)
(* if both were open at one place of the log.  This needs that a thread is *)
(* created and joined once (OnceEach).  So is, in Runtime, every thread    *)
(* with a pthread_t of its own, if main alone joins.                       *)
(*                                                                         *)
(* The plans: the inductive invariant PlanInv says of the recursion of     *)
(* generate_que that every interleaving of the pair at work is either      *)
(* judged (its windows are known, or it meets a closed situation) or       *)
(* pending: it begins with the blocks of some call on the stack, and goes  *)
(* on with a thread that this call has not come to (RecursionInv).  Once   *)
(* the stack is empty nothing is pending.  KeptInv says that the windows   *)
(* known are those of the plans kept, DoneInv that pairs that are over     *)
(* stay judged, IdleInv that each pair begins from scratch.                *)
(***************************************************************************)
EXTENDS PlanSession, FiniteSetTheorems, SequenceTheorems, WellFoundedInduction, TLAPS

-----------------------------------------------------------------------------
(* Numbers and sets of them.                                               *)

(* A set of natural numbers has a least element.                           *)
LEMMA LeastExists ==
  ASSUME NEW S \in SUBSET Nat, S # {}
  PROVE  \E m \in S : \A k \in S : m <= k
<1>1. IsWellFoundedOn(OpToRel(<, Nat), Nat)
  BY NatLessThanWellFounded
<1>2. PICK m \in S : \A k \in S : ~(<<k, m>> \in OpToRel(<, Nat))
  BY <1>1, WFMin
<1>3. \A k \in S : ~(k < m)
  BY <1>2 DEF OpToRel
<1>4. QED
  BY <1>3

(* Positions up to a place are finitely many.                              *)
LEMMA PrefixFinite ==
  ASSUME NEW m \in Int, NEW n \in Int, NEW S \in SUBSET (m..n)
  PROVE  IsFiniteSet(S) /\ Cardinality(S) \in Nat
BY FS_Interval, FS_Subset, FS_CardinalityType

LEMMA UpToFinite ==
  ASSUME NEW n \in Nat, NEW S \in SUBSET (1..n)
  PROVE  IsFiniteSet(S) /\ Cardinality(S) \in Nat
BY PrefixFinite

LEMMA MaxOfOne == ASSUME NEW i \in Int PROVE Max({i}) = i
BY DEF Max

-----------------------------------------------------------------------------
(* The turns of a log.                                                     *)

LEMMA TurnGrows ==
  ASSUME NEW r, NEW i \in Nat, NEW j \in Nat, i <= j
  PROVE  Turn(r, i) \in Nat /\ Turn(r, j) \in Nat /\ Turn(r, i) <= Turn(r, j)
<1> DEFINE Changes(n) == {k \in 2..n : LogRead(r)[k][1] # LogRead(r)[k - 1][1]}
<1>1. /\ IsFiniteSet(Changes(j)) /\ Cardinality(Changes(j)) \in Nat
      /\ IsFiniteSet(Changes(i)) /\ Cardinality(Changes(i)) \in Nat
  <2>1. Changes(j) \in SUBSET (2..j) /\ Changes(i) \in SUBSET (2..i) /\ 2 \in Int /\ i \in Int /\ j \in Int
    OBVIOUS
  <2> HIDE DEF Changes
  <2>2. QED
    BY <2>1, PrefixFinite
<1>2. Changes(i) \subseteq Changes(j)
  OBVIOUS
<1>3. Cardinality(Changes(i)) <= Cardinality(Changes(j))
  <2> HIDE DEF Changes
  <2>1. QED
    BY <1>1, <1>2, FS_Subset
<1>4. QED
  BY <1>1, <1>3 DEF Turn

(* Between entries of different kinds a turn ends.                         *)
LEMMA TurnEnds ==
  ASSUME NEW r, NEW i \in Nat \ {0}, NEW j \in Nat, i < j, LogRead(r)[i][1] # LogRead(r)[j][1]
  PROVE  Turn(r, i) < Turn(r, j)
<1> DEFINE Changes(n) == {k \in 2..n : LogRead(r)[k][1] # LogRead(r)[k - 1][1]}
           Others == {k \in i..j : LogRead(r)[k][1] # LogRead(r)[i][1]}
<1>1. PICK m \in Others : \A k \in Others : m <= k
  <2>1. j \in Others /\ Others \subseteq Nat
    OBVIOUS
  <2> HIDE DEF Others
  <2>2. QED
    BY <2>1, LeastExists
<1>2. m \in i + 1..j /\ m - 1 \in i..j /\ m - 1 \notin Others
  BY <1>1
<1>3. m \in Changes(j) /\ m \notin Changes(i)
  BY <1>2
<1>4. Changes(i) \subseteq Changes(j)
  OBVIOUS
<1>5. /\ IsFiniteSet(Changes(j)) /\ Cardinality(Changes(j)) \in Nat
      /\ IsFiniteSet(Changes(i)) /\ Cardinality(Changes(i)) \in Nat
  <2>1. Changes(j) \in SUBSET (2..j) /\ Changes(i) \in SUBSET (2..i) /\ 2 \in Int /\ i \in Int /\ j \in Int
    OBVIOUS
  <2> HIDE DEF Changes
  <2>2. QED
    BY <2>1, PrefixFinite
<1>6. Cardinality(Changes(i)) < Cardinality(Changes(j))
  <2> HIDE DEF Changes
  <2>1. QED
    BY <1>3, <1>4, <1>5, FS_Subset
<1>7. QED
  BY <1>6 DEF Turn

(* Where a thread was created and joined, and what the reader makes of it.  *)
LEMMA TurnsOfThread ==
  ASSUME NEW r, OnceEach(r), NEW t \in ThreadsOf(r) \ {r.main},
         NEW i \in DOMAIN r.log, NEW j \in DOMAIN r.log,
         OnlyAt(r, <<"create", t>>, i), OnlyAt(r, <<"join", t>>, j)
  PROVE  /\ StartOf(r, t) = Turn(r, i) /\ EndOf(r, t) = Turn(r, j)
         /\ i \in Nat \ {0} /\ LogRead(r)[i][1] = "create"
         /\ j \in Nat \ {0} /\ LogRead(r)[j][1] = "join"
<1> DEFINE L == LogRead(r)
           n == Len(r.log)
<1>1. r.log \in Seq({"create", "join"} \X ThreadsOf(r)) /\ n \in Nat /\ DOMAIN r.log = 1..n
  BY DEF OnceEach
<1>2. /\ DOMAIN L = 1..n + 1 /\ L[n + 1] = <<"join", r.main>>
      /\ \A k \in 1..n : L[k] = r.log[k]
  BY <1>1 DEF LogRead, OnceEach
<1>3. Places(r, <<"create", t>>) = {i}
  <2>1. L[n + 1] # <<"create", t>>
    BY <1>2
  <2> HIDE DEF L, n
  <2>2. QED
    BY <1>1, <1>2, <2>1 DEF Places, L, OnlyAt
<1>4. Places(r, <<"join", t>>) = {j}
  <2>1. L[n + 1] # <<"join", t>>
    BY <1>2
  <2> HIDE DEF L, n
  <2>2. QED
    BY <1>1, <1>2, <2>1 DEF Places, L, OnlyAt
<1>5. i \in 1..n /\ j \in 1..n
  BY <1>1
<1>6. StartOf(r, t) = Turn(r, i) /\ EndOf(r, t) = Turn(r, j)
  BY <1>3, <1>4, <1>5, MaxOfOne DEF StartOf, EndOf
<1>7. L[i][1] = "create" /\ L[j][1] = "join"
  BY <1>1, <1>2, <1>5 DEF OnlyAt
<1>8. QED
  BY <1>1, <1>5, <1>6, <1>7

LEMMA OpenFromTo ==
  ASSUME NEW r, OnceEach(r), r = record, NEW t, NEW i \in DOMAIN r.log, NEW j \in DOMAIN r.log, i < j,
         OnlyAt(r, <<"create", t>>, i), OnlyAt(r, <<"join", t>>, j), NEW x \in 1..Len(r.log)
  PROVE  OpenAt(t, x) <=> i <= x /\ x < j
<1> DEFINE log == r.log
           n == Len(log)
<1>1. DOMAIN log = 1..n /\ n \in Nat
  BY DEF OnceEach
<1>2. \A k \in 1..n : /\ log[k] = <<"create", t>> <=> k = i
                      /\ log[k] = <<"join", t>> <=> k = j
  BY <1>1 DEF OnlyAt
<1>3. OpenAt(t, x) <=> /\ \E k \in 1..x : log[k] = <<"create", t>>
                       /\ \A k \in 1..x : log[k] # <<"join", t>>
  BY DEF OpenAt
<1>4. i \in 1..n /\ j \in 1..n /\ x \in 1..n
  BY <1>1
<1> HIDE DEF log, n
<1>5. 1..x \subseteq 1..n
  BY <1>1, <1>4
<1>6. (\E k \in 1..x : log[k] = <<"create", t>>) <=> i \in 1..x
  BY <1>2, <1>5
<1>7. (\A k \in 1..x : log[k] # <<"join", t>>) <=> j \notin 1..x
  BY <1>2, <1>5
<1>8. QED
  BY <1>1, <1>3, <1>4, <1>6, <1>7

(* Two threads may be planned together exactly if both are open somewhere.  *)
LEMMA SameTimeIsOpen ==
  ASSUME NEW r, OnceEach(r), NEW t \in ThreadsOf(r) \ {r.main}, NEW u \in ThreadsOf(r) \ {r.main},
         r = record
  PROVE  InSameTimeSpace(r, t, u) <=> \E i \in DOMAIN r.log : OpenAt(t, i) /\ OpenAt(u, i)
<1>1. PICK i \in DOMAIN r.log, j \in DOMAIN r.log :
        i < j /\ OnlyAt(r, <<"create", t>>, i) /\ OnlyAt(r, <<"join", t>>, j)
  BY DEF OnceEach
<1>2. PICK a \in DOMAIN r.log, b \in DOMAIN r.log :
        a < b /\ OnlyAt(r, <<"create", u>>, a) /\ OnlyAt(r, <<"join", u>>, b)
  BY DEF OnceEach
<1>3. /\ StartOf(r, t) = Turn(r, i) /\ EndOf(r, t) = Turn(r, j)
      /\ i \in Nat \ {0} /\ LogRead(r)[i][1] = "create"
      /\ j \in Nat \ {0} /\ LogRead(r)[j][1] = "join"
  BY <1>1, TurnsOfThread
<1>4. /\ StartOf(r, u) = Turn(r, a) /\ EndOf(r, u) = Turn(r, b)
      /\ a \in Nat \ {0} /\ LogRead(r)[a][1] = "create"
      /\ b \in Nat \ {0} /\ LogRead(r)[b][1] = "join"
  BY <1>2, TurnsOfThread
<1>5. ASSUME NEW x \in Nat \ {0}, LogRead(r)[x][1] = "create", NEW y \in Nat \ {0}, LogRead(r)[y][1] = "join"
      PROVE  Turn(r, x) < Turn(r, y) <=> x < y
  <2>1. CASE x < y
    BY <1>5, <2>1, TurnEnds
  <2>2. CASE y <= x
    <3>1. Turn(r, y) \in Nat /\ Turn(r, x) \in Nat /\ Turn(r, y) <= Turn(r, x)
      BY <2>2, TurnGrows
    <3>2. QED
      BY <2>2, <3>1
  <2>3. QED
    BY <2>1, <2>2
<1>6. InSameTimeSpace(r, t, u) <=> i < b /\ a < j
  BY <1>3, <1>4, <1>5 DEF InSameTimeSpace
<1>7. /\ DOMAIN r.log = 1..Len(r.log) /\ Len(r.log) \in Nat
      /\ i \in 1..Len(r.log) /\ j \in 1..Len(r.log) /\ a \in 1..Len(r.log) /\ b \in 1..Len(r.log)
  BY DEF OnceEach
<1>8. \A x \in 1..Len(r.log) : OpenAt(t, x) <=> i <= x /\ x < j
  BY <1>1, <1>7, OpenFromTo
<1>9. \A x \in 1..Len(r.log) : OpenAt(u, x) <=> a <= x /\ x < b
  BY <1>2, <1>7, OpenFromTo
<1>10. (\E x \in 1..Len(r.log) : OpenAt(t, x) /\ OpenAt(u, x)) <=> i < b /\ a < j
  <2>1. ASSUME i < b, a < j PROVE \E x \in 1..Len(r.log) : OpenAt(t, x) /\ OpenAt(u, x)
    <3>1. CASE i <= a
      BY <1>1, <1>2, <1>7, <1>8, <1>9, <2>1, <3>1
    <3>2. CASE a < i
      BY <1>1, <1>2, <1>7, <1>8, <1>9, <2>1, <3>2
    <3>3. QED
      BY <1>7, <3>1, <3>2
  <2>2. ASSUME NEW x \in 1..Len(r.log), OpenAt(t, x), OpenAt(u, x) PROVE i < b /\ a < j
    BY <1>7, <1>8, <1>9, <2>2
  <2>3. QED
    BY <2>1, <2>2
<1>11. QED
  BY <1>6, <1>7, <1>10

-----------------------------------------------------------------------------
(* The pairs of a session.                                                 *)

(* The pairs not tried yet and those tried are those of the record.         *)
PairsInv ==
  /\ record \in Records \cup LaterRecords
  /\ \E S : tried \in Seq(S)
  /\ res_set \cup {tried[i][1] : i \in DOMAIN tried} = InterestingPairs(record)

LEMMA PairsStart == SessionInit => PairsInv
<1> SUFFICES ASSUME SessionInit PROVE PairsInv
  OBVIOUS
<1>1. /\ record \in Records /\ res_set = InterestingPairs(record) /\ tried = <<>>
  BY DEF SessionInit, Init
<1>2. tried \in Seq({}) /\ DOMAIN tried = {}
  BY <1>1
<1>3. QED
  BY <1>1, <1>2 DEF PairsInv

LEMMA PairsKept == ASSUME PairsInv, UNCHANGED <<input, session>> PROVE PairsInv'
BY DEF PairsInv, input, session

LEMMA PairsStep == ASSUME PairsInv, [Next]_vars PROVE PairsInv'
<1>1. CASE UNCHANGED <<record, res_set, tried>>
  BY <1>1 DEF PairsInv
<1>2. CASE StartPair
  <2>1. PICK p \in res_set : res_set' = res_set \ {p} /\ \E c : tried' = Append(tried, <<p, c>>)
    BY <1>2 DEF StartPair
  <2> PICK c : tried' = Append(tried, <<p, c>>)
    BY <2>1
  <2>2. PICK S : tried \in Seq(S)
    BY DEF PairsInv
  <2>3. tried \in Seq(S \cup {<<p, c>>}) /\ <<p, c>> \in S \cup {<<p, c>>}
    BY <2>2, SeqMonotonic
  <2>4. /\ tried' \in Seq(S \cup {<<p, c>>})
        /\ DOMAIN tried' = 1..Len(tried) + 1 /\ DOMAIN tried = 1..Len(tried) /\ Len(tried) \in Nat
        /\ tried'[Len(tried) + 1] = <<p, c>>
        /\ \A i \in 1..Len(tried) : tried'[i] = tried[i]
    BY <2>1, <2>3
  <2>5. {tried'[i][1] : i \in DOMAIN tried'} = {tried[i][1] : i \in DOMAIN tried} \cup {p}
    <3>1. <<p, c>>[1] = p
      OBVIOUS
    <3>2. DOMAIN tried' = DOMAIN tried \cup {Len(tried) + 1}
      BY <2>4
    <3>3. QED
      BY <2>4, <3>1, <3>2
  <2>6. record' = record
    BY <1>2 DEF StartPair, input
  <2>7. QED
    BY <2>1, <2>4, <2>5, <2>6 DEF PairsInv
<1>3. CASE NextSession
  <2>1. record' \in LaterRecords /\ res_set' = InterestingPairs(record') /\ tried' = <<>>
    BY <1>3 DEF NextSession
  <2>2. tried' \in Seq({}) /\ DOMAIN tried' = {}
    BY <2>1
  <2>3. QED
    BY <2>1, <2>2 DEF PairsInv
<1>4. QED
  BY <1>1, <1>2, <1>3 DEF Next, GeneratePlans, Generate, FinishPair, HandOver, Complete, Descend, IntoSequence,
    NothingLeft, LoopEnds, Return, RunPlan, RunFails, RunHasOtherSize, SessionEnds, Ended,
    vars, genVars, input, session

(* The turns of get_tis_token plan two threads together exactly if both     *)
(* were open at one place of the log, for any program whose threads are     *)
(* created and joined once and whose main is in slot 0.                     *)
THEOREM PairsAlwaysLiveTogether ==
  ASSUME \A r \in Records \cup LaterRecords : OnceEach(r)
  PROVE  Spec => []PairsLiveTogether
<1>1. PairsInv => PairsLiveTogether
  <2> SUFFICES ASSUME PairsInv PROVE PairsLiveTogether
    OBVIOUS
  <2>1. OnceEach(record)
    BY DEF PairsInv
  <2>2. \A t, u \in ThreadsOf(record) \ {record.main} :
          InSameTimeSpace(record, t, u) <=> \E i \in DOMAIN record.log : OpenAt(t, i) /\ OpenAt(u, i)
    BY <2>1, SameTimeIsOpen
  <2>3. QED
    BY <2>2 DEF PairsInv, PairsLiveTogether, InterestingPairs
<1>2. PairsInv /\ [Next]_vars => PairsInv'
  BY PairsStep
<1>3. QED
  BY <1>1, <1>2, PairsStart, PTL DEF Spec

-----------------------------------------------------------------------------
(* How often a thread comes in an interleaving.                            *)

LEMMA TimesTyped == ASSUME NEW v, NEW t, NEW n \in Nat
                    PROVE  Times(v, t, n) \in 0..n
<1> DEFINE S == {q \in 1..n : v[q][1] = t}
<1>1. S \in SUBSET (1..n) /\ IsFiniteSet(1..n) /\ Cardinality(1..n) = n
  BY FS_Interval
<1> HIDE DEF S
<1>2. Cardinality(S) \in Nat /\ Cardinality(S) <= n
  BY <1>1, FS_Subset, FS_CardinalityType
<1>3. QED
  BY <1>2 DEF Times, S

LEMMA TimesOfNone == ASSUME NEW v, NEW t PROVE Times(v, t, 0) = 0
BY TimesTyped

(* A stretch of t's actions counts for t and for nobody else.               *)
LEMMA TimesOverBlock ==
  ASSUME NEW v, NEW t, NEW m \in Nat, NEW n \in Nat, m <= n, \A q \in m + 1..n : v[q][1] = t
  PROVE  /\ Times(v, t, n) = Times(v, t, m) + (n - m)
         /\ \A u : u # t => Times(v, u, n) = Times(v, u, m)
<1>1. Times(v, t, n) = Times(v, t, m) + (n - m)
  <2> DEFINE S(k) == {q \in 1..k : v[q][1] = t}
  <2>1. S(n) = S(m) \cup (m + 1..n) /\ S(m) \cap (m + 1..n) = {} /\ S(m) \in SUBSET (1..m)
    OBVIOUS
  <2>2. IsFiniteSet(m + 1..n) /\ Cardinality(m + 1..n) = n - m
    <3>1. m + 1 \in Int /\ n \in Int
      OBVIOUS
    <3>2. IsFiniteSet(m + 1..n) /\ Cardinality(m + 1..n) = IF m + 1 > n THEN 0 ELSE n - (m + 1) + 1
      BY ONLY <3>1, FS_Interval
    <3>3. (IF m + 1 > n THEN 0 ELSE n - (m + 1) + 1) = n - m
      OBVIOUS
    <3>4. QED
      BY ONLY <3>2, <3>3
  <2> HIDE DEF S
  <2>3. IsFiniteSet(S(m)) /\ Cardinality(S(m)) \in Nat
    BY <2>1, UpToFinite
  <2>4. Cardinality(S(n)) = Cardinality(S(m)) + Cardinality(m + 1..n) - Cardinality(S(m) \cap (m + 1..n))
    BY ONLY <2>1, <2>2, <2>3, FS_Union
  <2>5. Cardinality(S(m) \cap (m + 1..n)) = 0
    BY ONLY <2>1, FS_EmptySet
  <2>6. Cardinality(S(n)) = Cardinality(S(m)) + (n - m)
    BY <2>2, <2>3, <2>4, <2>5
  <2>7. QED
    BY <2>6 DEF Times, S
<1>2. ASSUME NEW u, u # t PROVE Times(v, u, n) = Times(v, u, m)
  <2>1. {q \in 1..n : v[q][1] = u} = {q \in 1..m : v[q][1] = u}
    BY <1>2
  <2>2. QED
    BY <2>1 DEF Times
<1>3. QED
  BY <1>1, <1>2

(* A stretch without t does not count for it.                               *)
LEMMA TimesOverOthers ==
  ASSUME NEW v, NEW t, NEW m \in Nat, NEW n \in Nat, m <= n, \A q \in m + 1..n : v[q][1] # t
  PROVE  Times(v, t, n) = Times(v, t, m)
<1>1. {q \in 1..n : v[q][1] = t} = {q \in 1..m : v[q][1] = t}
  OBVIOUS
<1>2. QED
  BY <1>1 DEF Times

LEMMA TimesGrow ==
  ASSUME NEW v, NEW t, NEW m \in Nat, NEW n \in Nat, m <= n
  PROVE  Times(v, t, m) <= Times(v, t, n)
<1> DEFINE S(k) == {q \in 1..k : v[q][1] = t}
<1>1. S(m) \subseteq S(n) /\ S(n) \in SUBSET (1..n)
  OBVIOUS
<1> HIDE DEF S
<1>2. IsFiniteSet(S(n))
  BY <1>1, UpToFinite
<1>3. Cardinality(S(m)) <= Cardinality(S(n))
  BY <1>1, <1>2, FS_Subset
<1>4. QED
  BY <1>3 DEF Times, S

LEMMA TimesNext ==
  ASSUME NEW v, NEW n \in Nat
  PROVE  Times(v, v[n + 1][1], n + 1) = Times(v, v[n + 1][1], n) + 1
BY TimesOverBlock

(* Two threads share the positions.                                         *)
LEMMA TimesOfBoth ==
  ASSUME NEW v, NEW a, NEW b, a # b, NEW n \in Nat, \A q \in 1..n : v[q][1] \in {a, b}
  PROVE  Times(v, a, n) + Times(v, b, n) = n
<1> DEFINE S(t) == {q \in 1..n : v[q][1] = t}
<1>1. S(a) \cup S(b) = 1..n /\ S(a) \cap S(b) = {} /\ S(a) \in SUBSET (1..n) /\ S(b) \in SUBSET (1..n)
  OBVIOUS
<1> HIDE DEF S
<1>2. IsFiniteSet(S(a)) /\ IsFiniteSet(S(b)) /\ Cardinality(S(a)) \in Nat /\ Cardinality(S(b)) \in Nat
  BY <1>1, UpToFinite
<1>3. Cardinality(1..n) = n
  BY FS_Interval
<1>4. n = Cardinality(S(a)) + Cardinality(S(b)) - 0
  BY <1>1, <1>2, <1>3, FS_Union, FS_EmptySet
<1>5. QED
  BY <1>2, <1>4 DEF Times, S

LEMMA TimesAgree ==
  ASSUME NEW v, NEW w, NEW t, NEW n \in Nat, \A q \in 1..n : v[q][1] = w[q][1]
  PROVE  Times(v, t, n) = Times(w, t, n)
<1>1. {q \in 1..n : v[q][1] = t} = {q \in 1..n : w[q][1] = t}
  OBVIOUS
<1>2. QED
  BY <1>1 DEF Times

(* Where t comes next.                                                      *)
LEMMA NextOfThread ==
  ASSUME NEW v, NEW t, NEW m \in Nat, NEW n \in Nat, m <= n, Times(v, t, m) < Times(v, t, n)
  PROVE  \E q \in m + 1..n : /\ v[q][1] = t /\ Times(v, t, q) = Times(v, t, m) + 1
                             /\ \A k \in m + 1..q - 1 : v[k][1] # t
<1> DEFINE S == {q \in m + 1..n : v[q][1] = t}
<1>1. S # {}
  <2> SUFFICES ASSUME S = {} PROVE FALSE
    OBVIOUS
  <2>1. \A q \in m + 1..n : v[q][1] # t
    OBVIOUS
  <2>2. Times(v, t, n) = Times(v, t, m)
    BY <2>1, TimesOverOthers
  <2>3. QED
    BY <2>2, TimesTyped
<1>2. PICK q \in S : \A k \in S : q <= k
  <2>1. S \in SUBSET Nat
    OBVIOUS
  <2> HIDE DEF S
  <2>2. QED
    BY <1>1, <2>1, LeastExists
<1>3. q \in m + 1..n /\ v[q][1] = t /\ \A k \in m + 1..q - 1 : v[k][1] # t
  BY <1>2
<1>4. Times(v, t, q - 1) = Times(v, t, m)
  BY <1>3, TimesOverOthers
<1>5. Times(v, t, q) = Times(v, t, q - 1) + 1
  <2>1. q - 1 \in Nat /\ v[(q - 1) + 1][1] = t /\ (q - 1) + 1 = q
    BY <1>3
  <2>2. QED
    BY <2>1, TimesNext
<1>6. QED
  BY <1>3, <1>4, <1>5

-----------------------------------------------------------------------------
(* Interleavings, described by their positions.                            *)

ColourOf(p, c, t) == IF t = p[1] THEN c[1] ELSE c[2]
SizeOf(p) == Len(list[p[1]]) + Len(list[p[2]])

IsInterleaving(v, p, c) ==
  /\ v \in [1..SizeOf(p) -> ThreadsOf(record) \X DOMAIN var_table]
  /\ \A i \in 1..SizeOf(p) : /\ v[i][1] \in {p[1], p[2]}
                             /\ v[i][2] = list[v[i][1]][Times(v, v[i][1], i)]
  /\ \A t \in {p[1], p[2]} : Times(v, t, SizeOf(p)) = Len(list[t])
  /\ \A i \in 1..SizeOf(p) :
       Times(v, v[i][1], i) > 1 /\ Times(v, v[i][1], i) \notin ColourOf(p, c, v[i][1]) => v[i - 1][1] = v[i][1]

(* Two different threads of the record.                                     *)
ArePair(p) == p \in ThreadsOf(record) \X ThreadsOf(record) /\ p[1] # p[2]

(* The record is one.                                                       *)
RecordInv ==
  /\ ThreadsOf(record) \subseteq Nat
  /\ \A t \in ThreadsOf(record) : list[t] \in Seq(DOMAIN var_table) /\ Len(list[t]) \in Nat \ {0}

(* The reference definition chooses the places of the first thread.         *)
LEMMA InterleavingsAre ==
  ASSUME RecordInv, NEW p, ArePair(p), NEW c
  PROVE  \A v : v \in Interleavings(p, c) <=> IsInterleaving(v, p, c)
<1> DEFINE size == Len(list[p[1]]) + Len(list[p[2]])
           choices == {S \in SUBSET (1..size) : Cardinality(S) = Len(list[p[1]])}
           of(S, i) == IF i \in S THEN 1 ELSE 2
           nth(S, i) == Cardinality({q \in 1..i : of(S, q) = of(S, i)})
           whole(S) == \A i \in 1..size :
                         nth(S, i) > 1 /\ nth(S, i) \notin c[of(S, i)] => of(S, i - 1) = of(S, i)
           made(S) == [i \in 1..size |-> <<p[of(S, i)], list[p[of(S, i)]][nth(S, i)]>>]
<1>1. Interleavings(p, c) = {made(S) : S \in {X \in choices : whole(X)}}
  BY DEF Interleavings
<1>2. /\ size \in Nat /\ size = SizeOf(p) /\ p[1] # p[2] /\ p[1] \in ThreadsOf(record) /\ p[2] \in ThreadsOf(record)
      /\ list[p[1]] \in Seq(DOMAIN var_table) /\ list[p[2]] \in Seq(DOMAIN var_table)
      /\ Len(list[p[1]]) \in Nat /\ Len(list[p[2]]) \in Nat
  <2>1. p[1] # p[2] /\ p[1] \in ThreadsOf(record) /\ p[2] \in ThreadsOf(record)
    BY DEF ArePair
  <2>2. /\ list[p[1]] \in Seq(DOMAIN var_table) /\ list[p[2]] \in Seq(DOMAIN var_table)
        /\ Len(list[p[1]]) \in Nat /\ Len(list[p[2]]) \in Nat
    BY <2>1 DEF RecordInv
  <2>3. \A m, n \in Nat : m + n \in Nat
    OBVIOUS
  <2>4. size \in Nat
    BY ONLY <2>2, <2>3
  <2>5. size = SizeOf(p)
    BY DEF SizeOf
  <2>6. QED
    BY <2>1, <2>2, <2>4, <2>5
<1> HIDE DEF size, choices, of, nth, whole, made
(* A function with these threads at these places.                          *)
<1>3. ASSUME NEW v, NEW S \in SUBSET (1..size), \A i \in 1..size : v[i][1] = p[of(S, i)]
      PROVE  /\ \A i \in 1..size : Times(v, v[i][1], i) = nth(S, i)
             /\ Times(v, p[1], size) = Cardinality(S)
             /\ \A i \in 1..size : ColourOf(p, c, v[i][1]) = c[of(S, i)]
             /\ \A i \in 2..size : v[i - 1][1] = v[i][1] <=> of(S, i - 1) = of(S, i)
  <2>1. ASSUME NEW i \in 1..size PROVE Times(v, v[i][1], i) = nth(S, i)
    <3>1. \A q \in 1..i : v[q][1] = v[i][1] <=> of(S, q) = of(S, i)
      <4>1. \A q \in 1..i : q \in 1..size
        BY <1>2, <2>1
      <4>2. QED
        BY <1>2, <1>3, <2>1, <4>1 DEF of
    <3>2. {q \in 1..i : v[q][1] = v[i][1]} = {q \in 1..i : of(S, q) = of(S, i)}
      BY <3>1
    <3>3. QED
      BY <3>2 DEF Times, nth
  <2>2. {q \in 1..size : v[q][1] = p[1]} = S
    BY <1>2, <1>3 DEF of
  <2>3. Times(v, p[1], size) = Cardinality(S)
    BY <2>2 DEF Times
  <2>4. \A i \in 1..size : ColourOf(p, c, v[i][1]) = c[of(S, i)]
    BY <1>2, <1>3 DEF ColourOf, of
  <2>5. \A i \in 2..size : v[i - 1][1] = v[i][1] <=> of(S, i - 1) = of(S, i)
    <3>1. \A i \in 2..size : i - 1 \in 1..size /\ i \in 1..size
      BY <1>2
    <3>2. QED
      BY <1>2, <1>3, <3>1 DEF of
  <2>6. QED
    BY <2>1, <2>3, <2>4, <2>5
<1>4. ASSUME NEW v, v \in Interleavings(p, c) PROVE IsInterleaving(v, p, c)
  <2>1. PICK S \in choices : whole(S) /\ v = made(S)
    BY <1>1, <1>4
  <2>2. \A i \in 1..size : v[i] = <<p[of(S, i)], list[p[of(S, i)]][nth(S, i)]>>
    BY <2>1 DEF made
  <2>3. \A i \in 1..size : v[i][1] = p[of(S, i)] /\ v[i][2] = list[p[of(S, i)]][nth(S, i)]
    BY <2>2
  <2>4. /\ \A i \in 1..size : Times(v, v[i][1], i) = nth(S, i)
        /\ Times(v, p[1], size) = Cardinality(S)
        /\ \A i \in 1..size : ColourOf(p, c, v[i][1]) = c[of(S, i)]
        /\ \A i \in 2..size : v[i - 1][1] = v[i][1] <=> of(S, i - 1) = of(S, i)
    <3>1. S \in SUBSET (1..size)
      BY <2>1 DEF choices
    <3>2. QED
      BY <1>3, <2>3, <3>1
  <2>5. \A i \in 1..size : v[i][1] \in {p[1], p[2]}
    BY <2>3 DEF of
  <2>6. Times(v, p[1], size) = Len(list[p[1]])
    BY <2>1, <2>4 DEF choices
  <2>7. Times(v, p[2], size) = Len(list[p[2]])
    <3>1. Times(v, p[1], size) + Times(v, p[2], size) = size
      BY <1>2, <2>5, TimesOfBoth
    <3>2. Times(v, p[2], size) \in 0..size
      BY <1>2, TimesTyped
    <3>3. size = Len(list[p[1]]) + Len(list[p[2]])
      BY DEF size
    <3>4. \A k, l, m, n \in Nat : k = l /\ k + m = l + n => m = n
      OBVIOUS
    <3>5. Times(v, p[1], size) + Times(v, p[2], size) = Len(list[p[1]]) + Len(list[p[2]])
      BY <3>1, <3>3
    <3>6. Times(v, p[1], size) \in Nat /\ Times(v, p[2], size) \in Nat
      BY <1>2, <2>6, <3>2
    <3>7. QED
      BY ONLY <1>2, <2>6, <3>4, <3>5, <3>6
  <2>8. \A i \in 1..size : v[i][2] = list[v[i][1]][Times(v, v[i][1], i)]
    BY <2>3, <2>4
  <2>9. \A i \in 1..size :
          Times(v, v[i][1], i) > 1 /\ Times(v, v[i][1], i) \notin ColourOf(p, c, v[i][1]) => v[i - 1][1] = v[i][1]
    <3>1. ASSUME NEW i \in 1..size, Times(v, v[i][1], i) > 1, Times(v, v[i][1], i) \notin ColourOf(p, c, v[i][1])
          PROVE  v[i - 1][1] = v[i][1]
      <4>1. i \in 2..size
        <5>1. i \in 1..size /\ i \in Nat
          BY <1>2
        <5>2. Times(v, v[i][1], i) \in 0..i
          BY <5>1, TimesTyped
        <5>3. QED
          BY <1>2, <3>1, <5>1, <5>2
      <4>2. nth(S, i) > 1 /\ nth(S, i) \notin c[of(S, i)]
        BY <2>4, <3>1
      <4>3. of(S, i - 1) = of(S, i)
        BY <2>1, <4>2 DEF whole
      <4>4. QED
        BY <2>4, <4>1, <4>3
    <3>2. QED
      BY <3>1
  <2>10. v \in [1..size -> ThreadsOf(record) \X DOMAIN var_table]
    <3>1. ASSUME NEW i \in 1..size PROVE v[i] \in ThreadsOf(record) \X DOMAIN var_table
      <4> DEFINE t == v[i][1]
                 n == Times(v, t, i)
      <4>1. t \in {p[1], p[2]} /\ t \in ThreadsOf(record)
        BY <1>2, <2>5
      <4>2. n >= 1 /\ n \in Nat
        <5>1. (i - 1) + 1 = i /\ i - 1 \in Nat
          BY <1>2
        <5>2. Times(v, t, i) = Times(v, t, i - 1) + 1
          BY <5>1, TimesNext
        <5>3. Times(v, t, i - 1) \in Nat
          BY <5>1, TimesTyped
        <5>4. QED
          BY <5>2, <5>3
      <4>3. n <= Len(list[t])
        <5>1. n <= Times(v, t, size)
          <6> HIDE DEF t
          <6>1. i \in Nat /\ i <= size
            BY <1>2
          <6>2. QED
            BY <1>2, <6>1, TimesGrow
        <5>2. QED
          BY <2>6, <2>7, <4>1, <5>1
      <4>4. list[t] \in Seq(DOMAIN var_table)
        BY <1>2, <4>1
      <4> HIDE DEF n
      <4>5. list[t][n] \in DOMAIN var_table
        BY <4>2, <4>3, <4>4
      <4>6. v[i] = <<t, list[t][n]>>
        BY <2>2, <2>3, <2>8 DEF n
      <4> HIDE DEF t
      <4>7. QED
        BY <4>1, <4>5, <4>6
    <3>2. v = [i \in 1..size |-> v[i]]
      BY <2>1 DEF made
    <3>3. QED
      BY <3>1, <3>2
  <2>11. QED
    BY <1>2, <2>5, <2>6, <2>7, <2>8, <2>9, <2>10 DEF IsInterleaving
<1>5. ASSUME NEW v, IsInterleaving(v, p, c) PROVE v \in Interleavings(p, c)
  <2> DEFINE S == {i \in 1..size : v[i][1] = p[1]}
  <2>1. \A i \in 1..size : v[i][1] = p[of(S, i)]
    BY <1>2, <1>5 DEF IsInterleaving, of
  <2>2. S \in SUBSET (1..size)
    OBVIOUS
  <2>3. /\ \A i \in 1..size : Times(v, v[i][1], i) = nth(S, i)
        /\ Times(v, p[1], size) = Cardinality(S)
        /\ \A i \in 1..size : ColourOf(p, c, v[i][1]) = c[of(S, i)]
        /\ \A i \in 2..size : v[i - 1][1] = v[i][1] <=> of(S, i - 1) = of(S, i)
    <3> HIDE DEF S
    <3>1. QED
      BY <1>3, <2>1, <2>2
  <2> HIDE DEF S
  <2>4. S \in choices
    BY <1>2, <1>5, <2>2, <2>3 DEF IsInterleaving, choices
  <2>5. whole(S)
    <3> SUFFICES ASSUME NEW i \in 1..size, nth(S, i) > 1, nth(S, i) \notin c[of(S, i)]
                 PROVE  of(S, i - 1) = of(S, i)
      BY DEF whole
    <3>1. Times(v, v[i][1], i) > 1 /\ Times(v, v[i][1], i) \notin ColourOf(p, c, v[i][1])
      BY <2>3
    <3>2. v[i - 1][1] = v[i][1]
      BY <1>2, <1>5, <3>1 DEF IsInterleaving
    <3>3. i \in 2..size
      <4>1. i \in 1..size /\ i \in Nat
        BY <1>2
      <4>2. Times(v, v[i][1], i) \in 0..i
        BY <4>1, TimesTyped
      <4>3. QED
        BY <1>2, <3>1, <4>1, <4>2
    <3>4. QED
      BY <2>3, <3>2, <3>3
  <2>6. v = made(S)
    <3>1. \A i \in 1..size : v[i] = <<p[of(S, i)], list[p[of(S, i)]][nth(S, i)]>>
      <4>1. v \in [1..size -> ThreadsOf(record) \X DOMAIN var_table]
        BY <1>2, <1>5 DEF IsInterleaving
      <4>2. \A i \in 1..size : v[i] = <<v[i][1], v[i][2]>>
        BY <4>1
      <4>3. \A i \in 1..size : v[i][2] = list[v[i][1]][Times(v, v[i][1], i)]
        BY <1>2, <1>5 DEF IsInterleaving
      <4>4. QED
        BY <2>1, <2>3, <4>2, <4>3
    <3>2. v = [i \in 1..size |-> v[i]]
      <4>1. v \in [1..size -> ThreadsOf(record) \X DOMAIN var_table]
        BY <1>2, <1>5 DEF IsInterleaving
      <4>2. QED
        BY <4>1
    <3>3. QED
      BY <3>1, <3>2 DEF made
  <2>7. QED
    BY <1>1, <2>4, <2>5, <2>6
<1>6. QED
  BY <1>4, <1>5

-----------------------------------------------------------------------------
(* What the target is told of a plan.                                      *)

(* The n-th time of a thread is one place.                                  *)
LEMMA NthIs ==
  ASSUME NEW v, NEW n \in 1..Len(v), Len(v) \in Nat
  PROVE  Nth(v, v[n][1], Times(v, v[n][1], n)) = n
<1> DEFINE t == v[n][1]
<1> HIDE DEF t
<1>1. ASSUME NEW m \in Nat \ {0}, NEW k \in Nat \ {0}, m < k, v[k][1] = t
      PROVE  Times(v, t, m) # Times(v, t, k)
  <2>1. k - 1 \in Nat /\ m <= k - 1 /\ (k - 1) + 1 = k
    BY <1>1
  <2>2. Times(v, t, m) <= Times(v, t, k - 1)
    BY <1>1, <2>1, TimesGrow
  <2>3. Times(v, t, k) = Times(v, t, k - 1) + 1
    BY <1>1, <2>1, TimesNext
  <2>4. Times(v, t, m) \in Nat /\ Times(v, t, k - 1) \in Nat
    BY <1>1, <2>1, TimesTyped
  <2>5. QED
    BY <2>2, <2>3, <2>4
<1>2. v[n][1] = t
  BY DEF t
<1>3. \A k \in 1..Len(v) : v[k][1] = t /\ Times(v, t, k) = Times(v, t, n) => k = n
  BY <1>1, <1>2
<1>4. Nth(v, t, Times(v, t, n)) = n
  BY <1>2, <1>3 DEF Nth
<1>5. QED
  BY <1>4 DEF t

(* Where two plans part, one of them goes on with the thread of the place   *)
(* before and the other lets it wait: its next action has another stop time. *)
LEMMA StopTimesDiffer ==
  ASSUME NEW v, NEW w, Len(v) \in Nat, Len(w) = Len(v), NEW n \in 2..Len(v),
         \A q \in 1..n - 1 : v[q][1] = w[q][1],
         v[n][1] = v[n - 1][1], w[n][1] # v[n - 1][1],
         Times(v, v[n][1], Len(v)) = Times(w, v[n][1], Len(v))
  PROVE  KpTimes(v, v[n][1]) # KpTimes(w, v[n][1])
<1> DEFINE t == v[n][1]
           r == Times(v, t, n - 1)
<1>1. /\ v[n][1] = t /\ v[n - 1][1] = t /\ w[n][1] # t
      /\ n - 1 \in Nat /\ n \in Nat /\ (n - 1) + 1 = n /\ n <= Len(v) /\ n > 1 /\ n - 1 <= Len(v)
  OBVIOUS
<1> HIDE DEF t
<1>2. Times(w, t, n - 1) = r /\ r \in Nat
  <2>1. Times(v, t, n - 1) = Times(w, t, n - 1)
    BY <1>1, TimesAgree
  <2>2. QED
    BY <1>1, <2>1, TimesTyped
<1>3. Times(v, t, n) = r + 1
  BY <1>1, TimesNext
<1> HIDE DEF r
<1>4. r + 1 <= Times(v, t, Len(v)) /\ Times(v, t, Len(v)) \in Nat
  <2>1. Times(v, t, n) <= Times(v, t, Len(v))
    BY <1>1, TimesGrow
  <2>2. QED
    BY <1>3, <2>1, TimesTyped
<1>5. Times(w, t, Len(v)) = Times(v, t, Len(v))
  BY DEF t
<1>6. PICK m \in (n - 1) + 1..Len(v) : /\ w[m][1] = t /\ Times(w, t, m) = r + 1
                                      /\ \A k \in (n - 1) + 1..m - 1 : w[k][1] # t
  <2>1. Times(w, t, n - 1) < Times(w, t, Len(v))
    BY <1>2, <1>4, <1>5
  <2> HIDE DEF t
  <2>2. \E m \in (n - 1) + 1..Len(v) : /\ w[m][1] = t /\ Times(w, t, m) = Times(w, t, n - 1) + 1
                                      /\ \A k \in (n - 1) + 1..m - 1 : w[k][1] # t
    BY <1>1, <2>1, NextOfThread
  <2>3. QED
    BY <1>2, <2>2
<1>7. m > n /\ m \in 1..Len(v) /\ w[m - 1][1] # t
  <2>1. m # n
    BY <1>1, <1>6
  <2>2. QED
    BY <1>1, <1>6, <2>1
<1>8. Nth(v, t, r + 1) = n
  <2>1. n \in 1..Len(v)
    BY <1>1
  <2>2. QED
    BY <1>1, <1>3, <2>1, NthIs
<1>9. Nth(w, t, r + 1) = m
  BY <1>6, <1>7, NthIs
<1>10. KpTimes(v, t)[r + 1] = 0
  <2>1. KpTimes(v, t)[r + 1] = StopTime(v, n)
    BY <1>2, <1>4, <1>8 DEF KpTimes
  <2>2. QED
    BY <1>1, <2>1 DEF StopTime
<1>11. KpTimes(w, t)[r + 1] = 1
  <2>1. KpTimes(w, t)[r + 1] = StopTime(w, m)
    BY <1>2, <1>4, <1>5, <1>9 DEF KpTimes
  <2>2. m > 1 /\ w[m][1] = t
    BY <1>1, <1>6, <1>7
  <2>3. QED
    BY <1>7, <2>1, <2>2 DEF StopTime
<1>12. QED
  BY <1>10, <1>11 DEF t

(* The threads of an interleaving are told in the order they come.          *)
Told(v, p) ==
  /\ Len(v) = SizeOf(p) /\ Len(v) \in Nat /\ Len(v) > 0
  /\ EncodedPlan(v)[1] = v[1][1] /\ EncodedPlan(v)[1] # EncodedPlan(v)[2]
  /\ {EncodedPlan(v)[1], EncodedPlan(v)[2]} = {p[1], p[2]}
  /\ EncodedPlan(v)[3] = KpTimes(v, EncodedPlan(v)[1])
  /\ EncodedPlan(v)[4] = KpTimes(v, EncodedPlan(v)[2])

LEMMA EncodedThreads ==
  ASSUME RecordInv, NEW p, ArePair(p), NEW c, NEW v, IsInterleaving(v, p, c)
  PROVE  Told(v, p)
<1> DEFINE names == {v[i][1] : i \in DOMAIN v}
           first == v[1][1]
           second == CHOOSE x \in names : x # first
<1>1. /\ p[1] # p[2] /\ Len(list[p[1]]) \in Nat \ {0} /\ Len(list[p[2]]) \in Nat \ {0}
  BY DEF ArePair, RecordInv
<1>2. SizeOf(p) \in Nat /\ SizeOf(p) > 0
  <2>1. \A m, n \in Nat \ {0} : m + n \in Nat /\ m + n > 0
    OBVIOUS
  <2>2. QED
    BY <1>1, <2>1 DEF SizeOf
<1>3. DOMAIN v = 1..SizeOf(p) /\ Len(v) = SizeOf(p)
  <2>1. v \in [1..SizeOf(p) -> ThreadsOf(record) \X DOMAIN var_table]
    BY DEF IsInterleaving
  <2>2. v \in Seq(ThreadsOf(record) \X DOMAIN var_table)
    BY <1>2, <2>1
  <2>3. QED
    BY <1>2, <2>1, <2>2
<1>4. \A i \in DOMAIN v : v[i][1] \in {p[1], p[2]}
  BY <1>3 DEF IsInterleaving
<1>5. ASSUME NEW t \in {p[1], p[2]} PROVE t \in names
  <2>1. Times(v, t, SizeOf(p)) = Len(list[t])
    BY DEF IsInterleaving
  <2>2. Times(v, t, 0) < Times(v, t, SizeOf(p))
    BY <1>1, <2>1, TimesOfNone
  <2>3. \E q \in 0 + 1..SizeOf(p) : v[q][1] = t
    BY <1>2, <2>2, NextOfThread
  <2>4. QED
    BY <1>3, <2>3
<1>6. names = {p[1], p[2]}
  BY <1>4, <1>5
<1>7. first \in {p[1], p[2]}
  BY <1>2, <1>3, <1>4
<1>8. EncodedPlan(v) = <<first, second, KpTimes(v, first), KpTimes(v, second)>>
  BY DEF EncodedPlan
<1> HIDE DEF names, first
<1>9. second \in {p[1], p[2]} /\ second # first
  BY <1>1, <1>6, <1>7
<1> HIDE DEF second
<1>10. {first, second} = {p[1], p[2]}
  BY <1>7, <1>9
<1>11. QED
  BY <1>2, <1>3, <1>8, <1>9, <1>10 DEF first, Told

(* Plans that are told in the same way are the same.                        *)
LEMMA PlanIsTellable ==
  ASSUME RecordInv, NEW p, ArePair(p), NEW c, NEW v, IsInterleaving(v, p, c),
                    NEW q, ArePair(q), NEW d, NEW w, IsInterleaving(w, q, d),
         EncodedPlan(v) = EncodedPlan(w)
  PROVE  v = w
<1> DEFINE size == SizeOf(p)
           Threads == {p[1], p[2]}
<1>1. /\ Len(v) = SizeOf(p) /\ Len(v) \in Nat /\ Len(v) > 0
      /\ EncodedPlan(v)[1] = v[1][1] /\ EncodedPlan(v)[1] # EncodedPlan(v)[2]
      /\ {EncodedPlan(v)[1], EncodedPlan(v)[2]} = {p[1], p[2]}
      /\ EncodedPlan(v)[3] = KpTimes(v, EncodedPlan(v)[1])
      /\ EncodedPlan(v)[4] = KpTimes(v, EncodedPlan(v)[2])
  <2>1. Told(v, p)
    BY EncodedThreads
  <2>2. QED
    BY <2>1 DEF Told
<1>2. /\ Len(w) = SizeOf(q)
      /\ EncodedPlan(w)[1] = w[1][1]
      /\ {EncodedPlan(w)[1], EncodedPlan(w)[2]} = {q[1], q[2]}
      /\ EncodedPlan(w)[3] = KpTimes(w, EncodedPlan(w)[1])
      /\ EncodedPlan(w)[4] = KpTimes(w, EncodedPlan(w)[2])
  <2>1. Told(w, q)
    BY EncodedThreads
  <2>2. QED
    BY <2>1 DEF Told
<1>3. {q[1], q[2]} = Threads /\ v[1][1] = w[1][1] /\ p[1] # p[2]
  BY <1>1, <1>2 DEF ArePair
<1>4. \A t \in Threads : KpTimes(v, t) = KpTimes(w, t)
  BY <1>1, <1>2
<1>5. SizeOf(q) = size
  <2>1. (q[1] = p[1] /\ q[2] = p[2]) \/ (q[1] = p[2] /\ q[2] = p[1])
    BY <1>3
  <2>2. \A m, n \in Nat : m + n = n + m
    OBVIOUS
  <2>3. Len(list[p[1]]) \in Nat /\ Len(list[p[2]]) \in Nat
    BY DEF ArePair, RecordInv
  <2>4. QED
    BY <2>1, <2>2, <2>3 DEF SizeOf
<1>6. /\ \A i \in 1..size : v[i][1] \in Threads /\ w[i][1] \in Threads
      /\ \A i \in 1..size : v[i][2] = list[v[i][1]][Times(v, v[i][1], i)]
      /\ \A i \in 1..size : w[i][2] = list[w[i][1]][Times(w, w[i][1], i)]
      /\ \A t \in Threads : Times(v, t, size) = Times(w, t, size)
      /\ v \in [1..size -> ThreadsOf(record) \X DOMAIN var_table]
      /\ w \in [1..size -> ThreadsOf(record) \X DOMAIN var_table]
  BY <1>3, <1>5 DEF IsInterleaving
<1>7. size \in Nat /\ Len(v) = size /\ Len(w) = size
  BY <1>1, <1>2, <1>5
<1> HIDE DEF size, Threads
<1>8. \A i \in 1..size : v[i][1] = w[i][1]
  <2> DEFINE Differ == {i \in 1..size : v[i][1] # w[i][1]}
  <2> SUFFICES ASSUME Differ # {} PROVE FALSE
    OBVIOUS
  <2>1. PICK n \in Differ : \A k \in Differ : n <= k
    <3>1. Differ \in SUBSET Nat
      BY <1>7
    <3> HIDE DEF Differ
    <3>2. QED
      BY <3>1, LeastExists
  <2>2. /\ n \in 2..size /\ v[n][1] # w[n][1] /\ \A k \in 1..n - 1 : v[k][1] = w[k][1]
    BY <1>3, <1>7, <2>1
  <2>3. /\ v[n - 1][1] = w[n - 1][1] /\ v[n - 1][1] \in Threads /\ v[n][1] \in Threads /\ w[n][1] \in Threads
    <3>1. n - 1 \in 1..size /\ n - 1 \in 1..n - 1 /\ n \in 1..size
      BY <1>7, <2>2
    <3>2. QED
      BY <1>6, <2>2, <3>1
  <2>4. v[n][1] = v[n - 1][1] \/ w[n][1] = v[n - 1][1]
    BY <2>2, <2>3 DEF Threads
  <2>5. CASE v[n][1] = v[n - 1][1]
    <3>1. w[n][1] # v[n - 1][1] /\ Times(v, v[n][1], Len(v)) = Times(w, v[n][1], Len(v))
      BY <1>6, <1>7, <2>2, <2>3, <2>5
    <3>2. KpTimes(v, v[n][1]) # KpTimes(w, v[n][1])
      <4>1. Len(v) \in Nat /\ Len(w) = Len(v) /\ n \in 2..Len(v)
        BY <1>7, <2>2
      <4>2. QED
        BY ONLY <2>2, <2>5, <3>1, <4>1, StopTimesDiffer
    <3>3. QED
      BY <1>4, <2>3, <3>2 DEF Threads
  <2>6. CASE w[n][1] = v[n - 1][1]
    <3>1. /\ w[n][1] = w[n - 1][1] /\ v[n][1] # w[n - 1][1]
          /\ Times(w, w[n][1], Len(w)) = Times(v, w[n][1], Len(w))
          /\ \A k \in 1..n - 1 : w[k][1] = v[k][1]
      BY <1>6, <1>7, <2>2, <2>3, <2>6
    <3>2. KpTimes(w, w[n][1]) # KpTimes(v, w[n][1])
      <4>1. Len(w) \in Nat /\ Len(v) = Len(w) /\ n \in 2..Len(w)
        BY <1>7, <2>2
      <4>2. QED
        BY ONLY <3>1, <4>1, StopTimesDiffer
    <3>3. QED
      BY <1>4, <2>3, <3>2 DEF Threads
  <2>7. QED
    BY <2>4, <2>5, <2>6
<1>9. ASSUME NEW i \in 1..size PROVE v[i] = w[i]
  <2>1. Times(v, v[i][1], i) = Times(w, v[i][1], i)
    <3>1. i \in Nat /\ \A k \in 1..i : v[k][1] = w[k][1]
      BY <1>7, <1>8
    <3>2. QED
      BY <3>1, TimesAgree
  <2>2. v[i][1] = w[i][1] /\ v[i][2] = w[i][2]
    BY <1>6, <1>8, <2>1
  <2>3. v[i] \in ThreadsOf(record) \X DOMAIN var_table /\ w[i] \in ThreadsOf(record) \X DOMAIN var_table
    BY <1>6
  <2>4. QED
    BY <2>2, <2>3
<1>10. v = [i \in 1..size |-> v[i]] /\ w = [i \in 1..size |-> w[i]]
  BY <1>6
<1>11. QED
  BY <1>9, <1>10

-----------------------------------------------------------------------------
(* The recursion of create_que.                                            *)

(* The windows and the closed situations of a session grow only together    *)
(* with its plans until the plans are run.                                  *)
Generating == at \in {"pairs", "call", "loop", "back", "done", "aborted"}
AtWork == at \in {"call", "loop", "back"}

Threads == {trans[1], trans[2]}
Colours == tried[Len(tried)][2]

(* The pair at work is the last that was begun.                             *)
PairAtWork ==
  /\ tried # <<>> /\ tried[Len(tried)][1] = trans /\ ArePair(trans)
  /\ \A t \in Threads : signal_list[t] = ColourOf(trans, Colours, t)
  /\ DOMAIN signal_list = ThreadsOf(record)
  /\ loc \in [ThreadsOf(record) -> Nat] /\ \A t \in ThreadsOf(record) \ Threads : loc[t] = 0

(* What is in res are whole blocks of the two threads, in their order.      *)
Follows(r) ==
  /\ r \in Seq(ThreadsOf(record) \X DOMAIN var_table)
  /\ \A q \in 1..Len(r) : /\ r[q][1] \in Threads
                          /\ r[q][2] = list[r[q][1]][Times(r, r[q][1], q)]
  /\ \A q \in 1..Len(r) :
       Times(r, r[q][1], q) > 1 /\ Times(r, r[q][1], q) \notin signal_list[r[q][1]] => r[q - 1][1] = r[q][1]

BuiltInv ==
  /\ Follows(res)
  /\ \A t \in Threads : loc[t] = Times(res, t, Len(res)) /\ loc[t] <= Len(list[t])

(* After n actions of t another thread may take its turn.                   *)
Boundary(t, n) == n = 0 \/ n = Len(list[t]) \/ n + 1 \in signal_list[t]

(* The k-th call has put what is between ends[k - 1] and ends[k] into res.   *)
FramesInv(ends) ==
  /\ stack \in Seq((1..2) \X (Nat \ {0}))
  /\ ends \in [0..Len(stack) -> Nat] /\ ends[0] = 0 /\ ends[Len(stack)] = Len(res)
  /\ \A k \in 1..Len(stack) : /\ ends[k] = ends[k - 1] + stack[k][2]
                              /\ \A q \in ends[k - 1] + 1..ends[k] : res[q][1] = trans[stack[k][1]]
  /\ \A k \in 0..Len(stack) : /\ ends[k] <= Len(res)
                              /\ \A j \in 0..k : ends[j] <= ends[k]
                              /\ \A t \in Threads : Boundary(t, Times(res, t, ends[k]))

Judged(v) == HasUnallowedSituation(v) \/ WindowsOf(v) \subseteq mem_cksum

(* The recursion has yet to come to v: some call has given v's first blocks *)
(* and is at work on the first thread while v goes on with the second, or   *)
(* is the last call and has not come to the thread that v goes on with.     *)
Ahead(v, n) ==
  \/ at = "call"
  \/ at = "loop" /\ \E j \in 1..2 : j >= item /\ v[n + 1][1] = trans[j]

PendingAt(ends, v, k) ==
  /\ \A q \in 1..ends[k] : v[q] = res[q]
  /\ k < Len(stack) => stack[k + 1][1] = 1 /\ v[ends[k] + 1][1] = trans[2]
  /\ k = Len(stack) => Ahead(v, ends[k])

Pending(ends, v) == \E k \in 0..Len(stack) : PendingAt(ends, v, k)

WorkPlan(v) == IsInterleaving(v, trans, Colours)

RecursionInv(ends) == FramesInv(ends) /\ \A v : WorkPlan(v) => Judged(v) \/ Pending(ends, v)

WorkInv ==
  AtWork =>
    /\ PairAtWork /\ BuiltInv
    /\ at = "loop" => item \in 1..3 /\ Len(res) < SizeOf(trans)
    /\ \E ends : RecursionInv(ends)

(* Between two pairs nothing is under way.                                  *)
IdleInv ==
  at = "pairs" =>
    /\ res = <<>> /\ stack = <<>> /\ loc = [t \in ThreadsOf(record) |-> 0]
    /\ signal_list = [t \in ThreadsOf(record) |-> ColourFirst(list, t, var_table)]

(* The windows known are those of the plans kept.                           *)
KeptInv ==
  Generating =>
    /\ final_list \in Seq(AllInterleavings)
    /\ \A i \in 1..Len(final_list) : ~HasUnallowedSituation(final_list[i])
    /\ mem_cksum = UNION {WindowsOf(final_list[i]) : i \in 1..Len(final_list)}

(* A pair that is over leaves no interleaving out.                          *)
DoneInv ==
  Generating =>
    \A i \in DOMAIN tried :
      (AtWork /\ i = Len(tried)) \/ \A v : IsInterleaving(v, tried[i][1], tried[i][2]) => Judged(v)

(* The inductive invariant.                                                *)
PlanInv == PairsInv /\ var_table \in VarTables /\ IdleInv /\ WorkInv /\ KeptInv /\ DoneInv

LEMMA RecordIsOne == ASSUME PairsInv, var_table \in VarTables PROVE RecordInv
<1>1. IsRecord(record)
  BY PlanGenAssumption, SessionAssumption DEF PairsInv
<1>2. ASSUME NEW t \in ThreadsOf(record) PROVE list[t] \in Seq(DOMAIN var_table) /\ Len(list[t]) \in Nat \ {0}
  <2>1. list[t] \in Seq(DOMAIN var_table) /\ list[t] # <<>>
    BY <1>1, <1>2 DEF IsRecord, list
  <2>2. QED
    BY <2>1, EmptySeq
<1>3. QED
  BY <1>1, <1>2 DEF RecordInv, IsRecord

LEMMA TriedArePairs ==
  ASSUME PairsInv, RecordInv
  PROVE  /\ \A p \in res_set : ArePair(p)
         /\ \A i \in DOMAIN tried : ArePair(tried[i][1])
<1>1. \A p \in InterestingPairs(record) : ArePair(p)
  BY DEF InterestingPairs, ArePair, RecordInv
<1>2. QED
  BY <1>1 DEF PairsInv

(* Two more numbers of the pair at work.                                    *)
LEMMA WorkNumbers ==
  ASSUME RecordInv, PairAtWork
  PROVE  /\ trans[1] # trans[2] /\ Threads \subseteq ThreadsOf(record)
         /\ \A t \in Threads : list[t] \in Seq(DOMAIN var_table) /\ Len(list[t]) \in Nat \ {0} /\ loc[t] \in Nat
         /\ SizeOf(trans) = Len(list[trans[1]]) + Len(list[trans[2]]) /\ SizeOf(trans) \in Nat
<1>1. trans[1] # trans[2] /\ Threads \subseteq ThreadsOf(record)
  BY DEF PairAtWork, ArePair, Threads
<1>2. \A t \in Threads : list[t] \in Seq(DOMAIN var_table) /\ Len(list[t]) \in Nat \ {0} /\ loc[t] \in Nat
  BY <1>1 DEF RecordInv, PairAtWork
<1>3. \A m, n \in Nat : m + n \in Nat
  OBVIOUS
<1>4. SizeOf(trans) \in Nat
  BY <1>2, <1>3 DEF SizeOf, Threads
<1>5. QED
  BY <1>1, <1>2, <1>4 DEF SizeOf

LEMMA ResNumbers ==
  ASSUME RecordInv, PairAtWork, BuiltInv
  PROVE  /\ res \in Seq(ThreadsOf(record) \X DOMAIN var_table) /\ Len(res) \in Nat
         /\ SizeOf(trans) \in Nat
<1>1. res \in Seq(ThreadsOf(record) \X DOMAIN var_table)
  BY DEF BuiltInv, Follows
<1>2. Len(res) \in Nat
  BY <1>1
<1>3. SizeOf(trans) \in Nat
  BY WorkNumbers
<1>4. QED
  BY <1>1, <1>2, <1>3

(* intoSquence stops at the end of the list or before a signal.             *)
LEMMA BlockEndIs ==
  ASSUME NEW t, loc[t] \in Nat, Len(list[t]) \in Nat, loc[t] < Len(list[t])
  PROVE  /\ BlockEnd(t) \in loc[t] + 1..Len(list[t])
         /\ BlockEnd(t) = Len(list[t]) \/ BlockEnd(t) + 1 \in signal_list[t]
         /\ \A m \in loc[t] + 1..BlockEnd(t) - 1 : m + 1 \notin signal_list[t]
<1> DEFINE from == loc[t] + 1
           last == Len(list[t])
           Ends == {n \in from..last : n = last \/ n + 1 \in signal_list[t]}
<1>1. from \in Nat /\ last \in Nat /\ from <= last
  OBVIOUS
<1> HIDE DEF from, last
<1>2. Ends \in SUBSET Nat /\ last \in Ends
  BY <1>1
<1>3. PICK n \in Ends : \A k \in Ends : n <= k
  <2> HIDE DEF Ends
  <2>1. QED
    BY <1>2, LeastExists
<1>4. /\ n \in from..last /\ (n = last \/ n + 1 \in signal_list[t])
      /\ \A m \in from..n - 1 : m + 1 \notin signal_list[t]
  BY <1>1, <1>3
<1>5. BlockEnd(t) = CHOOSE k \in from..last : /\ k = last \/ k + 1 \in signal_list[t]
                                            /\ \A m \in from..k - 1 : m + 1 \notin signal_list[t]
  BY DEF BlockEnd, from, last
<1>6. /\ BlockEnd(t) \in from..last /\ (BlockEnd(t) = last \/ BlockEnd(t) + 1 \in signal_list[t])
      /\ \A m \in from..BlockEnd(t) - 1 : m + 1 \notin signal_list[t]
  BY <1>4, <1>5
<1>7. QED
  BY <1>6 DEF from, last

(* An interleaving that goes on with t goes on with all of t's block.       *)
GoesOnWith(v, t, n) ==
  /\ WorkPlan(v) /\ n < SizeOf(trans) /\ v[n + 1][1] = t
  /\ loc[t] = Times(v, t, n) /\ loc[t] < Len(list[t])

HasBlock(v, t, n) ==
  \A i \in 1..BlockEnd(t) - loc[t] :
    n + i <= SizeOf(trans) /\ v[n + i] = <<t, list[t][loc[t] + i]>>

LEMMA BlockFollows ==
  ASSUME RecordInv, PairAtWork, NEW v, NEW n \in Nat, NEW t \in Threads, GoesOnWith(v, t, n)
  PROVE  HasBlock(v, t, n)
<1> USE DEF GoesOnWith
<1> DEFINE size == SizeOf(trans)
           len == BlockEnd(t) - loc[t]
           Other == {i \in 1..len : n + i > size \/ v[n + i][1] # t}
<1>1. /\ loc[t] \in Nat /\ Len(list[t]) \in Nat /\ size \in Nat /\ Times(v, t, size) = Len(list[t])
      /\ \A i \in 1..size : v[i] \in ThreadsOf(record) \X DOMAIN var_table /\ v[i][2] = list[v[i][1]][Times(v, v[i][1], i)]
      /\ \A i \in 1..size :
           Times(v, v[i][1], i) > 1 /\ Times(v, v[i][1], i) \notin signal_list[v[i][1]] => v[i - 1][1] = v[i][1]
  <2>1. /\ \A i \in 1..size : v[i][1] \in Threads
        /\ \A i \in 1..size : v[i] \in ThreadsOf(record) \X DOMAIN var_table
        /\ \A i \in 1..size : v[i][2] = list[v[i][1]][Times(v, v[i][1], i)]
        /\ Times(v, t, size) = Len(list[t])
    BY DEF WorkPlan, IsInterleaving, Threads
  <2>2. \A i \in 1..size :
           Times(v, v[i][1], i) > 1 /\ Times(v, v[i][1], i) \notin signal_list[v[i][1]] => v[i - 1][1] = v[i][1]
    BY <2>1 DEF WorkPlan, IsInterleaving, PairAtWork
  <2>3. loc[t] \in Nat /\ Len(list[t]) \in Nat /\ size \in Nat
    BY WorkNumbers
  <2>4. QED
    BY <2>1, <2>2, <2>3
<1>2. /\ BlockEnd(t) \in loc[t] + 1..Len(list[t])
      /\ \A m \in loc[t] + 1..BlockEnd(t) - 1 : m + 1 \notin signal_list[t]
  BY <1>1, BlockEndIs
<1>3. len \in Nat /\ loc[t] + len <= Len(list[t]) /\ \A m \in 1..len - 1 : loc[t] + m + 1 \notin signal_list[t]
  <2>1. len \in Nat /\ loc[t] + len <= Len(list[t])
    BY <1>1, <1>2
  <2>2. ASSUME NEW m \in 1..len - 1 PROVE loc[t] + m + 1 \notin signal_list[t]
    <3>1. BlockEnd(t) \in Nat
      BY <1>1, <1>2
    <3>2. loc[t] + m \in loc[t] + 1..BlockEnd(t) - 1
      BY <1>1, <2>2, <3>1
    <3>3. QED
      BY <1>2, <3>2
  <2>3. QED
    BY <2>1, <2>2
<1>8. n < size /\ v[n + 1][1] = t /\ loc[t] = Times(v, t, n)
  OBVIOUS
<1> HIDE DEF len, size, GoesOnWith
(* As long as all actions are t's, the i-th is t's action number loc + i.  *)
<1>4. ASSUME NEW i \in Nat, \A k \in 1..i : v[n + k][1] = t
      PROVE  Times(v, t, n + i) = loc[t] + i
  <2>1. \A q \in n + 1..n + i : v[q][1] = t
    <3>1. \A q \in n + 1..n + i : q - n \in 1..i /\ n + (q - n) = q
      OBVIOUS
    <3>2. QED
      BY <1>4, <3>1
  <2>2. Times(v, t, n + i) = Times(v, t, n) + ((n + i) - n)
    <3>1. n + i \in Nat /\ n <= n + i
      OBVIOUS
    <3>2. QED
      BY <2>1, <3>1, TimesOverBlock
  <2>3. QED
    BY <1>1, <1>8, <2>2
<1>5. Other = {}
  <2> SUFFICES ASSUME Other # {} PROVE FALSE
    OBVIOUS
  <2>1. PICK i \in Other : \A k \in Other : i <= k
    <3>1. Other \in SUBSET Nat
      BY <1>3
    <3> HIDE DEF Other
    <3>2. QED
      BY <3>1, LeastExists
  <2>2. i \in 1..len /\ (n + i > size \/ v[n + i][1] # t) /\ \A k \in 1..i - 1 : n + k <= size /\ v[n + k][1] = t
    <3>1. i \in 1..len /\ (n + i > size \/ v[n + i][1] # t)
      BY <2>1
    <3>2. ASSUME NEW k \in 1..i - 1 PROVE n + k <= size /\ v[n + k][1] = t
      <4>1. k \in 1..len /\ ~(i <= k)
        BY <1>3, <3>1, <3>2
      <4>2. k \notin Other
        BY <2>1, <4>1
      <4> HIDE DEF Other
      <4>3. ~(n + k > size) /\ v[n + k][1] = t
        BY <4>1, <4>2 DEF Other
      <4>4. QED
        BY <1>1, <4>1, <4>3
    <3>3. QED
      BY <3>1, <3>2
  <2>3. i > 1
    <3>1. i # 1
      BY <1>1, <1>8, <2>2
    <3>2. QED
      BY <2>2, <3>1
  <2>4. i - 1 \in Nat /\ i - 1 \in 1..len - 1 /\ n + (i - 1) \in Nat /\ n + (i - 1) <= size
    BY <1>3, <2>2, <2>3
  <2>5. Times(v, t, n + (i - 1)) = loc[t] + (i - 1)
    BY <1>4, <2>2, <2>4
  <2>6. Times(v, t, n + (i - 1)) < Times(v, t, size)
    BY <1>1, <1>3, <2>4, <2>5
  <2>7. PICK q \in n + (i - 1) + 1..size :
          /\ v[q][1] = t /\ Times(v, t, q) = Times(v, t, n + (i - 1)) + 1
          /\ \A k \in n + (i - 1) + 1..q - 1 : v[k][1] # t
    BY <1>1, <2>4, <2>6, NextOfThread
  <2>8. n + (i - 1) + 1 = n + i /\ q \in n + i..size
    BY <2>2, <2>7
  <2>9. q # n + i
    BY <1>1, <2>2, <2>7, <2>8
  <2>10. v[q - 1][1] # t
    <3>1. q - 1 \in n + (i - 1) + 1..q - 1
      BY <2>2, <2>8, <2>9
    <3>2. QED
      BY <2>7, <3>1
  <2>11. Times(v, t, q) > 1 /\ Times(v, t, q) \notin signal_list[t]
    <3>1. Times(v, t, q) = loc[t] + (i - 1) + 1
      BY <2>5, <2>7
    <3>2. loc[t] + (i - 1) + 1 > 1
      BY <1>1, <2>3, <2>4
    <3>3. QED
      BY <1>3, <2>4, <3>1, <3>2
  <2>12. q \in 1..size
    BY <1>1, <2>2, <2>8
  <2>13. QED
    BY <1>1, <2>7, <2>10, <2>11, <2>12
<1>6. ASSUME NEW i \in 1..len PROVE n + i <= size /\ v[n + i] = <<t, list[t][loc[t] + i]>>
  <2>1. \A k \in 1..len : n + k <= size /\ v[n + k][1] = t
    <3>1. \A k \in 1..len : ~(n + k > size) /\ v[n + k][1] = t
      BY <1>5
    <3>2. ASSUME NEW k \in 1..len PROVE n + k <= size
      <4>1. k \in Nat /\ size \in Nat
        BY <1>1, <1>3, <3>2
      <4>2. ~(n + k > size)
        BY <3>1, <3>2
      <4>3. \A a, b, c \in Nat : ~(a + b > c) => a + b <= c
        OBVIOUS
      <4>4. QED
        BY ONLY <4>1, <4>2, <4>3, n \in Nat
    <3>3. QED
      BY <3>1, <3>2
  <2>2. Times(v, t, n + i) = loc[t] + i
    <3>1. i \in Nat /\ \A k \in 1..i : k \in 1..len
      BY <1>3
    <3>2. QED
      BY <1>4, <2>1, <3>1
  <2>3. n + i \in 1..size /\ v[n + i][1] = t
    <3>1. i \in Nat \ {0} /\ size \in Nat
      BY <1>1, <1>3
    <3>2. n + i <= size /\ v[n + i][1] = t
      BY <1>6, <2>1
    <3>3. QED
      BY <3>1, <3>2
  <2>4. v[n + i][2] = list[t][loc[t] + i] /\ v[n + i] \in ThreadsOf(record) \X DOMAIN var_table
    BY <1>1, <2>2, <2>3
  <2>5. QED
    BY <2>1, <2>3, <2>4
<1>7. QED
  BY <1>6 DEF HasBlock, len, size

(* A res of full length is an interleaving of the pair.                     *)
LEMMA ResIsPlan ==
  ASSUME RecordInv, PairAtWork, BuiltInv, Len(res) = SizeOf(trans)
  PROVE  WorkPlan(res)
<1> DEFINE a == trans[1]
           b == trans[2]
           size == SizeOf(trans)
<1>1. /\ a # b /\ Threads = {a, b} /\ size \in Nat /\ size = Len(list[a]) + Len(list[b])
      /\ \A t \in Threads : Len(list[t]) \in Nat
  BY WorkNumbers DEF Threads
<1>2. /\ res \in Seq(ThreadsOf(record) \X DOMAIN var_table) /\ Len(res) = size
      /\ \A q \in 1..size : res[q][1] \in Threads /\ res[q][2] = list[res[q][1]][Times(res, res[q][1], q)]
      /\ \A q \in 1..size :
          Times(res, res[q][1], q) > 1 /\ Times(res, res[q][1], q) \notin signal_list[res[q][1]]
            => res[q - 1][1] = res[q][1]
  BY DEF BuiltInv, Follows
<1>3. \A t \in Threads : Times(res, t, size) <= Len(list[t])
  BY <1>2 DEF BuiltInv
<1> HIDE DEF a, b, size
<1>4. Times(res, a, size) + Times(res, b, size) = size
  BY <1>1, <1>2, TimesOfBoth
<1>5. Times(res, a, size) = Len(list[a]) /\ Times(res, b, size) = Len(list[b])
  <2>1. Times(res, a, size) \in 0..size /\ Times(res, b, size) \in 0..size
    BY <1>1, TimesTyped
  <2>2. \A k, l, m, n \in Nat : k <= m /\ l <= n /\ k + l = m + n => k = m /\ l = n
    OBVIOUS
  <2>3. Times(res, a, size) \in Nat /\ Times(res, b, size) \in Nat
    <3>1. \A x \in 0..size : x \in Nat
      BY <1>1
    <3>2. QED
      BY ONLY <2>1, <3>1
  <2>4. Times(res, a, size) <= Len(list[a]) /\ Times(res, b, size) <= Len(list[b])
    BY <1>1, <1>3
  <2>5. Times(res, a, size) + Times(res, b, size) = Len(list[a]) + Len(list[b])
    BY <1>1, <1>4
  <2>6. Len(list[a]) \in Nat /\ Len(list[b]) \in Nat
    BY <1>1
  <2>7. QED
    BY ONLY <2>2, <2>3, <2>4, <2>5, <2>6
<1>6. res \in [1..size -> ThreadsOf(record) \X DOMAIN var_table]
  BY <1>2
<1>7. \A t \in Threads : signal_list[t] = ColourOf(trans, Colours, t)
  BY DEF PairAtWork
<1>8. \A t \in Threads : Times(res, t, size) = Len(list[t])
  BY <1>1, <1>5
<1>9. \A q \in 1..size :
        Times(res, res[q][1], q) > 1 /\ Times(res, res[q][1], q) \notin ColourOf(trans, Colours, res[q][1])
          => res[q - 1][1] = res[q][1]
  BY <1>2, <1>7
<1>10. QED
  BY <1>1, <1>2, <1>6, <1>8, <1>9 DEF WorkPlan, IsInterleaving, size, a, b

-----------------------------------------------------------------------------
(* The steps of the recursion.                                             *)

(* What depends on the input and on the pair at work only.                  *)
LEMMA SameWork ==
  ASSUME UNCHANGED <<input, session>>
  PROVE  /\ record' = record /\ var_table' = var_table /\ close_map' = close_map /\ list' = list
         /\ trans' = trans /\ signal_list' = signal_list /\ tried' = tried /\ res_set' = res_set
         /\ Threads' = Threads /\ Colours' = Colours
         /\ SizeOf(trans)' = SizeOf(trans)
         /\ AllInterleavings' = AllInterleavings
         /\ \A v : HasUnallowedSituation(v)' <=> HasUnallowedSituation(v)
         /\ \A v, p, c : IsInterleaving(v, p, c)' <=> IsInterleaving(v, p, c)
         /\ \A v : WorkPlan(v)' <=> WorkPlan(v)
         /\ \A t, n : Boundary(t, n)' <=> Boundary(t, n)
         /\ \A r : Follows(r)' <=> Follows(r)
<1>1. /\ record' = record /\ var_table' = var_table /\ close_map' = close_map /\ list' = list
      /\ trans' = trans /\ signal_list' = signal_list /\ tried' = tried /\ res_set' = res_set
  BY DEF input, session, list
<1>2. Threads' = Threads /\ Colours' = Colours /\ SizeOf(trans)' = SizeOf(trans)
  BY <1>1 DEF Threads, Colours, SizeOf
<1>3. \A v, p, c : IsInterleaving(v, p, c)' <=> IsInterleaving(v, p, c)
  BY <1>1 DEF IsInterleaving, SizeOf
<1>4. \A v : WorkPlan(v)' <=> WorkPlan(v)
  BY <1>1, <1>2 DEF WorkPlan, IsInterleaving, SizeOf
<1>5. AllInterleavings' = AllInterleavings
  BY <1>1 DEF AllInterleavings, Interleavings
<1>6. \A v : HasUnallowedSituation(v)' <=> HasUnallowedSituation(v)
  BY <1>1 DEF HasUnallowedSituation
<1>7. \A t, n : Boundary(t, n)' <=> Boundary(t, n)
  BY <1>1 DEF Boundary
<1>8. \A r : Follows(r)' <=> Follows(r)
  BY <1>1, <1>2 DEF Follows
<1>9. QED
  BY <1>1, <1>2, <1>3, <1>4, <1>5, <1>6, <1>7, <1>8

(* A step within the recursion leaves the other parts of the invariant      *)
(* alone.                                                                   *)
LEMMA WithinKeeps ==
  ASSUME PlanInv, UNCHANGED <<input, session, result>>, AtWork, AtWork'
  PROVE  IdleInv' /\ KeptInv' /\ DoneInv' /\ \A v : Judged(v)' <=> Judged(v)
<1>1. UNCHANGED <<input, session>> /\ mem_cksum' = mem_cksum /\ final_list' = final_list
  BY DEF result
<1>2. /\ tried' = tried /\ AllInterleavings' = AllInterleavings
      /\ \A v : HasUnallowedSituation(v)' <=> HasUnallowedSituation(v)
      /\ \A v, p, c : IsInterleaving(v, p, c)' <=> IsInterleaving(v, p, c)
  BY <1>1, SameWork
<1>3. Generating /\ at' # "pairs"
  BY DEF AtWork, Generating
<1>4. \A v : Judged(v)' <=> Judged(v)
  BY <1>1, <1>2 DEF Judged
<1>5. KeptInv'
  BY <1>1, <1>2, <1>3 DEF PlanInv, KeptInv
<1>6. DoneInv'
  BY <1>2, <1>3, <1>4 DEF PlanInv, DoneInv
<1>7. QED
  BY <1>3, <1>4, <1>5, <1>6 DEF IdleInv

(* What holds at work, in one place.                                        *)
LEMMA AtWorkFacts ==
  ASSUME PlanInv, AtWork
  PROVE  /\ RecordInv /\ PairAtWork /\ BuiltInv /\ Generating
         /\ at = "loop" => item \in 1..3 /\ Len(res) < SizeOf(trans)
         /\ \E ends : RecursionInv(ends)
BY RecordIsOne DEF PlanInv, WorkInv, AtWork, Generating

(* Two ways to come to the loop, or to leave it, without a change of res.   *)
LEMMA SamePlace ==
  ASSUME PlanInv, AtWork, UNCHANGED <<input, session, loc, res, stack>>
  PROVE  /\ PairAtWork' /\ BuiltInv' /\ \A ends : FramesInv(ends)' <=> FramesInv(ends)
<1>1. /\ record' = record /\ var_table' = var_table /\ list' = list
      /\ trans' = trans /\ signal_list' = signal_list /\ tried' = tried
      /\ Threads' = Threads /\ Colours' = Colours
      /\ \A t, n : Boundary(t, n)' <=> Boundary(t, n)
      /\ \A r : Follows(r)' <=> Follows(r)
  BY SameWork
<1>2. loc' = loc /\ res' = res /\ stack' = stack
  OBVIOUS
<1>3. PairAtWork /\ BuiltInv
  BY AtWorkFacts
<1>4. PairAtWork'
  BY <1>1, <1>2, <1>3 DEF PairAtWork, ArePair
<1>5. BuiltInv'
  BY <1>1, <1>2, <1>3 DEF BuiltInv
<1>6. \A ends : FramesInv(ends)' <=> FramesInv(ends)
  BY <1>1, <1>2 DEF FramesInv
<1>7. QED
  BY <1>4, <1>5, <1>6

LEMMA DescendKeeps == ASSUME PlanInv, Descend PROVE PlanInv'
<1>1. /\ at = "call" /\ at' = "loop" /\ item' = 1 /\ Len(res) < SizeOf(trans)
      /\ UNCHANGED <<input, session, loc, res, stack, result>>
  BY DEF Descend, MaxSize, SizeOf
<1>2. AtWork /\ AtWork'
  BY <1>1 DEF AtWork
<1>3. IdleInv' /\ KeptInv' /\ DoneInv' /\ \A v : Judged(v)' <=> Judged(v)
  BY <1>1, <1>2, WithinKeeps
<1>4. PairAtWork' /\ BuiltInv' /\ \A ends : FramesInv(ends)' <=> FramesInv(ends)
  BY <1>1, <1>2, SamePlace
<1>5. /\ SizeOf(trans)' = SizeOf(trans) /\ trans' = trans /\ var_table' = var_table /\ Threads' = Threads
      /\ \A v : WorkPlan(v)' <=> WorkPlan(v)
  BY <1>1, SameWork
<1>6. PICK ends : RecursionInv(ends)
  BY <1>2, AtWorkFacts
<1>7. RecordInv /\ PairAtWork
  BY <1>2, AtWorkFacts
<1>8. ASSUME NEW v, WorkPlan(v), Pending(ends, v) PROVE Pending(ends, v)'
  <2>1. PICK k \in 0..Len(stack) : PendingAt(ends, v, k)
    BY <1>8 DEF Pending
  <2>2. PendingAt(ends, v, k)'
    <3>1. k = Len(stack) => ends[k] = Len(res)
      BY <1>6 DEF RecursionInv, FramesInv
    <3>2. k = Len(stack) => v[ends[k] + 1][1] \in Threads
      <4>1. Len(res) \in Nat /\ SizeOf(trans) \in Nat
        BY <1>2, <1>7, AtWorkFacts, ResNumbers
      <4>2. Len(res) + 1 \in 1..SizeOf(trans)
        BY <1>1, <4>1
      <4>3. \A i \in 1..SizeOf(trans) : v[i][1] \in Threads
        BY <1>8 DEF WorkPlan, IsInterleaving, Threads
      <4>4. QED
        BY <3>1, <4>2, <4>3
    <3>3. k = Len(stack) => Ahead(v, ends[k])'
      <4>1. k = Len(stack) => \E j \in 1..2 : j >= 1 /\ v[ends[k] + 1][1] = trans[j]
        BY <3>2 DEF Threads
      <4>2. QED
        BY <1>1, <1>5, <4>1 DEF Ahead
    <3>4. QED
      BY <1>1, <1>5, <2>1, <3>3 DEF PendingAt
  <2>3. QED
    BY <1>1, <2>2 DEF Pending
<1>9. RecursionInv(ends)'
  BY <1>3, <1>4, <1>5, <1>6, <1>8 DEF RecursionInv
<1>10. WorkInv'
  BY <1>1, <1>4, <1>5, <1>9 DEF WorkInv
<1>11. PairsInv'
  BY <1>1, <1>2, PairsKept DEF PlanInv
<1>12. QED
  BY <1>3, <1>5, <1>10, <1>11 DEF PlanInv

LEMMA NothingLeftKeeps == ASSUME PlanInv, NothingLeft PROVE PlanInv'
<1>1. /\ at = "loop" /\ at' = "loop" /\ item \in 1..2 /\ item' = item + 1
      /\ loc[trans[item]] = Len(list[trans[item]])
      /\ UNCHANGED <<input, session, loc, res, stack, result>>
  BY DEF NothingLeft
<1>2. AtWork /\ AtWork'
  BY <1>1 DEF AtWork
<1>3. IdleInv' /\ KeptInv' /\ DoneInv' /\ \A v : Judged(v)' <=> Judged(v)
  BY <1>1, <1>2, WithinKeeps
<1>4. PairAtWork' /\ BuiltInv' /\ \A ends : FramesInv(ends)' <=> FramesInv(ends)
  BY <1>1, <1>2, SamePlace
<1>5. /\ SizeOf(trans)' = SizeOf(trans) /\ trans' = trans /\ var_table' = var_table /\ Threads' = Threads
      /\ \A v : WorkPlan(v)' <=> WorkPlan(v)
  BY <1>1, SameWork
<1>6. PICK ends : RecursionInv(ends)
  BY <1>2, AtWorkFacts
<1>7. RecordInv /\ PairAtWork /\ BuiltInv /\ Len(res) < SizeOf(trans)
  BY <1>1, <1>2, AtWorkFacts
<1> DEFINE t == trans[item]
<1>8. t \in Threads
  BY <1>1 DEF Threads
<1> HIDE DEF t
(* The thread has nothing left for v, either.                               *)
<1>9. ASSUME NEW v, WorkPlan(v), \A q \in 1..Len(res) : v[q] = res[q]
      PROVE  v[Len(res) + 1][1] # t
  <2>1. /\ Len(res) \in Nat /\ SizeOf(trans) \in Nat /\ Len(res) + 1 <= SizeOf(trans) /\ Len(list[t]) \in Nat
        /\ Len(res) + 1 \in Nat
    <3>1. Len(res) \in Nat /\ SizeOf(trans) \in Nat /\ Len(list[t]) \in Nat
      BY <1>7, <1>8, ResNumbers, WorkNumbers
    <3>2. QED
      BY <1>7, <3>1
  <2>2. Times(v, t, Len(res)) = Times(res, t, Len(res))
    BY <1>9, <2>1, TimesAgree
  <2>3. Times(res, t, Len(res)) = Len(list[t])
    BY <1>1, <1>7, <1>8 DEF BuiltInv, t
  <2>4. Times(v, t, SizeOf(trans)) = Len(list[t])
    BY <1>8, <1>9 DEF WorkPlan, IsInterleaving, Threads
  <2>5. Times(v, t, Len(res) + 1) <= Times(v, t, SizeOf(trans))
    BY <2>1, TimesGrow
  <2>6. v[Len(res) + 1][1] = t => Times(v, t, Len(res) + 1) = Times(v, t, Len(res)) + 1
    BY <2>1, TimesNext
  <2>7. QED
    BY <2>1, <2>2, <2>3, <2>4, <2>5, <2>6
<1>10. ASSUME NEW v, WorkPlan(v), Pending(ends, v) PROVE Pending(ends, v)'
  <2>1. PICK k \in 0..Len(stack) : PendingAt(ends, v, k)
    BY <1>10 DEF Pending
  <2>2. k = Len(stack) => Ahead(v, ends[k])'
    <3> SUFFICES ASSUME k = Len(stack) PROVE Ahead(v, ends[k])'
      OBVIOUS
    <3>1. ends[k] = Len(res)
      BY <1>6 DEF RecursionInv, FramesInv
    <3>2. PICK j \in 1..2 : j >= item /\ v[ends[k] + 1][1] = trans[j]
      BY <1>1, <2>1 DEF PendingAt, Ahead
    <3>3. v[ends[k] + 1][1] # t
      BY <1>9, <1>10, <2>1, <3>1 DEF PendingAt
    <3>4. j # item
      BY <3>2, <3>3 DEF t
    <3>5. j >= item + 1
      BY <1>1, <3>2, <3>4
    <3>6. QED
      BY <1>1, <1>5, <3>2, <3>5 DEF Ahead
  <2>3. PendingAt(ends, v, k)'
    BY <1>1, <1>5, <2>1, <2>2 DEF PendingAt
  <2>4. QED
    BY <1>1, <2>3 DEF Pending
<1>11. RecursionInv(ends)'
  BY <1>3, <1>4, <1>5, <1>6, <1>10 DEF RecursionInv
<1>12. WorkInv'
  <2>1. item' \in 1..3 /\ Len(res') < SizeOf(trans)'
    BY <1>1, <1>5, <1>7
  <2>2. QED
    BY <1>4, <1>11, <2>1 DEF WorkInv
<1>13. PairsInv'
  BY <1>1, <1>2, PairsKept DEF PlanInv
<1>14. QED
  BY <1>3, <1>5, <1>12, <1>13 DEF PlanInv

LEMMA LoopEndsKeeps == ASSUME PlanInv, LoopEnds PROVE PlanInv'
<1>1. /\ at = "loop" /\ at' = "back" /\ item > 2
      /\ UNCHANGED <<input, session, loc, res, stack, item, result>>
  BY DEF LoopEnds
<1>2. AtWork /\ AtWork'
  BY <1>1 DEF AtWork
<1>3. IdleInv' /\ KeptInv' /\ DoneInv' /\ \A v : Judged(v)' <=> Judged(v)
  BY <1>1, <1>2, WithinKeeps
<1>4. PairAtWork' /\ BuiltInv' /\ \A ends : FramesInv(ends)' <=> FramesInv(ends)
  BY <1>1, <1>2, SamePlace
<1>5. /\ trans' = trans /\ var_table' = var_table /\ \A v : WorkPlan(v)' <=> WorkPlan(v)
  BY <1>1, SameWork
<1>6. PICK ends : RecursionInv(ends)
  BY <1>2, AtWorkFacts
<1>7. item = 3
  BY <1>1, <1>2, AtWorkFacts
<1>8. ASSUME NEW v, WorkPlan(v), Pending(ends, v) PROVE Pending(ends, v)'
  <2>1. PICK k \in 0..Len(stack) : PendingAt(ends, v, k)
    BY <1>8 DEF Pending
  <2>2. k # Len(stack)
    BY <1>1, <1>7, <2>1 DEF PendingAt, Ahead
  <2>3. PendingAt(ends, v, k)'
    BY <1>1, <1>5, <2>1, <2>2 DEF PendingAt
  <2>4. QED
    BY <1>1, <2>3 DEF Pending
<1>9. RecursionInv(ends)'
  BY <1>3, <1>4, <1>5, <1>6, <1>8 DEF RecursionInv
<1>10. WorkInv'
  BY <1>1, <1>4, <1>9 DEF WorkInv
<1>11. PairsInv'
  BY <1>1, <1>2, PairsKept DEF PlanInv
<1>12. QED
  BY <1>3, <1>5, <1>10, <1>11 DEF PlanInv

(* intoSquence adds a block of a thread.                                    *)
Added(t, len) ==
  /\ t \in Threads /\ len \in Nat \ {0}
  /\ res' \in Seq(ThreadsOf(record) \X DOMAIN var_table) /\ Len(res') = Len(res) + len
  /\ \A q \in 1..Len(res) : res'[q] = res[q]
  /\ \A i \in 1..len : res'[Len(res) + i] = <<t, list[t][loc[t] + i]>>
  /\ loc' = [loc EXCEPT ![t] = loc[t] + len] /\ loc[t] + len <= Len(list[t])
  /\ stack' = Append(stack, <<item, len>>)
  /\ loc[t] + len = Len(list[t]) \/ loc[t] + len + 1 \in signal_list[t]
  /\ \A m \in 1..len - 1 : loc[t] + m + 1 \notin signal_list[t]

LEMMA BlockIsAdded ==
  ASSUME RecordInv, PairAtWork, BuiltInv, IntoSequence
  PROVE  Added(trans[item], BlockEnd(trans[item]) - loc[trans[item]])
<1> DEFINE t == trans[item]
           end == BlockEnd(t)
           len == end - loc[t]
           block == [i \in 1..len |-> <<t, list[t][loc[t] + i]>>]
           Steps == ThreadsOf(record) \X DOMAIN var_table
<1>1. /\ item \in 1..2 /\ loc[t] < Len(list[t])
      /\ res' = res \o block /\ stack' = Append(stack, <<item, Len(block)>>)
      /\ loc' = [loc EXCEPT ![t] = end]
  BY DEF IntoSequence
<1>2. t \in Threads
  BY <1>1 DEF Threads
<1>3. /\ loc[t] \in Nat /\ Len(list[t]) \in Nat /\ list[t] \in Seq(DOMAIN var_table) /\ t \in ThreadsOf(record)
  <2> HIDE DEF t
  <2>1. QED
    BY <1>2, WorkNumbers
<1>4. /\ end \in loc[t] + 1..Len(list[t])
      /\ end = Len(list[t]) \/ end + 1 \in signal_list[t]
      /\ \A m \in loc[t] + 1..end - 1 : m + 1 \notin signal_list[t]
  <2> HIDE DEF t
  <2>1. QED
    BY <1>1, <1>3, BlockEndIs
<1> HIDE DEF t, end
<1>5. len \in Nat \ {0} /\ loc[t] + len = end /\ loc[t] + len <= Len(list[t])
  BY <1>3, <1>4
<1>6. \A m \in 1..len - 1 : loc[t] + m + 1 \notin signal_list[t]
  <2> TAKE m \in 1..len - 1
  <2>1. loc[t] + m \in loc[t] + 1..end - 1
    BY <1>3, <1>4
  <2>2. QED
    BY <1>4, <2>1
<1> HIDE DEF len
<1>7. block \in Seq(Steps) /\ Len(block) = len
  <2>1. \A i \in 1..len : <<t, list[t][loc[t] + i]>> \in Steps
    BY <1>3, <1>5
  <2> HIDE DEF Steps
  <2>2. QED
    BY <1>5, <2>1
<1>8. res \in Seq(Steps) /\ Len(res) \in Nat
  BY ResNumbers
<1>9. \A i \in 1..len : block[i] = <<t, list[t][loc[t] + i]>>
  OBVIOUS
<1> HIDE DEF block, Steps
<1>10. /\ res \o block \in Seq(Steps) /\ Len(res \o block) = Len(res) + len
       /\ \A q \in 1..Len(res) + len : (res \o block)[q] = IF q <= Len(res) THEN res[q] ELSE block[q - Len(res)]
  BY <1>7, <1>8, ConcatProperties
<1>11. \A q \in 1..Len(res) : res'[q] = res[q]
  BY <1>1, <1>5, <1>8, <1>10
<1>12. \A i \in 1..len : res'[Len(res) + i] = <<t, list[t][loc[t] + i]>>
  <2> TAKE i \in 1..len
  <2>1. Len(res) + i \in 1..Len(res) + len /\ ~(Len(res) + i <= Len(res)) /\ (Len(res) + i) - Len(res) = i
    BY <1>5, <1>8
  <2>2. (res \o block)[Len(res) + i] = block[i]
    BY <1>10, <2>1
  <2>3. QED
    BY <1>1, <1>9, <2>2
<1>13. loc[t] + len = Len(list[t]) \/ loc[t] + len + 1 \in signal_list[t]
  BY <1>4, <1>5
<1>14. Added(t, len)
  <2>1. stack' = Append(stack, <<item, len>>) /\ loc' = [loc EXCEPT ![t] = loc[t] + len]
    BY <1>1, <1>5, <1>7
  <2>2. res' \in Seq(ThreadsOf(record) \X DOMAIN var_table) /\ Len(res') = Len(res) + len
    BY <1>1, <1>10 DEF Steps
  <2>3. QED
    BY <1>2, <1>5, <1>6, <1>11, <1>12, <1>13, <2>1, <2>2 DEF Added
<1>15. QED
  BY <1>14 DEF t, len, end

(* What the block adds to the counts of the threads.                        *)
LEMMA TimesAdded ==
  ASSUME RecordInv, PairAtWork, BuiltInv, NEW t, NEW len, Added(t, len)
  PROVE  /\ \A u, q : q \in 0..Len(res) => Times(res', u, q) = Times(res, u, q)
         /\ \A i \in 0..len : Times(res', t, Len(res) + i) = loc[t] + i
         /\ \A u : u # t => Times(res', u, Len(res) + len) = Times(res, u, Len(res))
<1>1. /\ Len(res) \in Nat /\ len \in Nat /\ t \in Threads /\ loc[t] \in Nat
      /\ \A q \in 1..Len(res) : res'[q] = res[q]
      /\ \A i \in 1..len : res'[Len(res) + i][1] = t
      /\ loc[t] = Times(res, t, Len(res))
  <2>1. Len(res) \in Nat
    BY ResNumbers
  <2>2. t \in Threads /\ len \in Nat
    BY DEF Added
  <2>3. loc[t] \in Nat
    BY <2>2, WorkNumbers
  <2>4. /\ \A q \in 1..Len(res) : res'[q] = res[q]
        /\ \A i \in 1..len : res'[Len(res) + i] = <<t, list[t][loc[t] + i]>>
    BY DEF Added
  <2>5. loc[t] = Times(res, t, Len(res))
    BY <2>2 DEF BuiltInv
  <2>6. \A i \in 1..len : res'[Len(res) + i][1] = t
    BY <2>4
  <2>7. QED
    BY <2>1, <2>2, <2>3, <2>4, <2>5, <2>6
<1>2. ASSUME NEW u, NEW q \in 0..Len(res) PROVE Times(res', u, q) = Times(res, u, q)
  <2>1. q \in Nat /\ \A k \in 1..q : res'[k][1] = res[k][1]
    BY <1>1
  <2>2. QED
    BY <2>1, TimesAgree
<1>3. \A q \in Len(res) + 1..Len(res) + len : res'[q][1] = t
  <2> TAKE q \in Len(res) + 1..Len(res) + len
  <2>1. q - Len(res) \in 1..len /\ Len(res) + (q - Len(res)) = q
    BY <1>1
  <2>2. QED
    BY <1>1, <2>1
<1>4. ASSUME NEW i \in 0..len
      PROVE  /\ Times(res', t, Len(res) + i) = loc[t] + i
             /\ \A u : u # t => Times(res', u, Len(res) + i) = Times(res, u, Len(res))
  <2>1. Len(res) + i \in Nat /\ Len(res) <= Len(res) + i /\ (Len(res) + i) - Len(res) = i
    BY <1>1
  <2>2. \A q \in Len(res) + 1..Len(res) + i : res'[q][1] = t
    BY <1>1, <1>3
  <2>3. /\ Times(res', t, Len(res) + i) = Times(res', t, Len(res)) + i
        /\ \A u : u # t => Times(res', u, Len(res) + i) = Times(res', u, Len(res))
    BY SMTT(30), <1>1, <2>1, <2>2, TimesOverBlock
  <2>4. Len(res) \in 0..Len(res)
    BY <1>1
  <2>5. QED
    BY <1>1, <1>2, <2>3, <2>4
<1>5. len \in 0..len
  BY <1>1
<1>6. QED
  BY <1>2, <1>4, <1>5

(* With the block, res still follows the threads.                           *)
LEMMA AddedFollows ==
  ASSUME RecordInv, PairAtWork, BuiltInv, NEW t, NEW len, Added(t, len), Boundary(t, loc[t]),
         UNCHANGED <<input, session>>
  PROVE  BuiltInv' /\ PairAtWork'
<1>1. /\ record' = record /\ var_table' = var_table /\ list' = list
      /\ trans' = trans /\ signal_list' = signal_list /\ tried' = tried
      /\ Threads' = Threads /\ Colours' = Colours
  BY SameWork
<1>2. /\ Len(res) \in Nat /\ len \in Nat \ {0} /\ t \in Threads /\ loc[t] \in Nat /\ Len(list[t]) \in Nat
  <2>1. Len(res) \in Nat
    BY ResNumbers
  <2>2. t \in Threads /\ len \in Nat \ {0}
    BY DEF Added
  <2>3. QED
    BY <2>1, <2>2, WorkNumbers
<1>3. /\ \A u, q : q \in 0..Len(res) => Times(res', u, q) = Times(res, u, q)
      /\ \A i \in 0..len : Times(res', t, Len(res) + i) = loc[t] + i
      /\ \A u : u # t => Times(res', u, Len(res) + len) = Times(res, u, Len(res))
  BY TimesAdded
<1>4. /\ Len(res') = Len(res) + len
      /\ \A q \in 1..Len(res) : res'[q] = res[q]
      /\ \A i \in 1..len : res'[Len(res) + i] = <<t, list[t][loc[t] + i]>>
      /\ \A m \in 1..len - 1 : loc[t] + m + 1 \notin signal_list[t]
      /\ loc' = [loc EXCEPT ![t] = loc[t] + len] /\ loc[t] + len <= Len(list[t])
  BY DEF Added
<1>5. ASSUME NEW q \in 1..Len(res)
      PROVE  /\ res'[q][1] \in Threads
             /\ res'[q][2] = list[res'[q][1]][Times(res', res'[q][1], q)]
             /\ Times(res', res'[q][1], q) > 1 /\ Times(res', res'[q][1], q) \notin signal_list[res'[q][1]]
                  => res'[q - 1][1] = res'[q][1]
  <2>1. res'[q] = res[q] /\ q \in 0..Len(res)
    BY <1>2, <1>4
  <2>2. Times(res', res'[q][1], q) = Times(res, res[q][1], q)
    BY <1>3, <2>1
  <2>3. Times(res, res[q][1], q) > 1 => res'[q - 1] = res[q - 1]
    <3>1. q \in Nat /\ q > 0
      BY <1>2
    <3>2. Times(res, res[q][1], q) \in 0..q
      BY <3>1, TimesTyped
    <3>3. Times(res, res[q][1], q) > 1 => q - 1 \in 1..Len(res)
      BY <1>2, <3>1, <3>2
    <3>4. QED
      BY <1>4, <3>3
  <2>4. QED
    BY <2>1, <2>2, <2>3 DEF BuiltInv, Follows
<1>6. ASSUME NEW i \in 1..len
      PROVE  /\ res'[Len(res) + i][1] = t
             /\ res'[Len(res) + i][2] = list[t][Times(res', t, Len(res) + i)]
             /\ Times(res', t, Len(res) + i) > 1 /\ Times(res', t, Len(res) + i) \notin signal_list[t]
                  => res'[Len(res) + i - 1][1] = t
  <2>1. res'[Len(res) + i] = <<t, list[t][loc[t] + i]>> /\ Times(res', t, Len(res) + i) = loc[t] + i
    BY SMTT(30), <1>2, <1>3, <1>4
  <2>2. CASE i > 1
    <3>1. i - 1 \in 1..len /\ Len(res) + (i - 1) = Len(res) + i - 1
      BY <1>2, <2>2
    <3>2. res'[Len(res) + i - 1][1] = t
      BY <1>4, <3>1
    <3>3. QED
      BY <2>1, <3>2
  <2>3. CASE i = 1
    (* A block begins where a signal is, or is the first of the thread.     *)
    <3>1. loc[t] # Len(list[t])
      BY <1>2, <1>4
    <3>2. loc[t] = 0 \/ loc[t] + 1 \in signal_list[t]
      BY <3>1 DEF Boundary
    <3>3. QED
      BY <1>2, <2>1, <2>3, <3>2
  <2>4. QED
    BY <1>2, <2>2, <2>3
<1>7. ASSUME NEW q \in 1..Len(res')
      PROVE  /\ res'[q][1] \in Threads
             /\ res'[q][2] = list[res'[q][1]][Times(res', res'[q][1], q)]
             /\ Times(res', res'[q][1], q) > 1 /\ Times(res', res'[q][1], q) \notin signal_list[res'[q][1]]
                  => res'[q - 1][1] = res'[q][1]
  <2>1. q \in 1..Len(res) \/ (q - Len(res) \in 1..len /\ Len(res) + (q - Len(res)) = q)
    BY <1>2, <1>4
  <2>2. CASE q \in 1..Len(res)
    BY <1>5, <2>2
  <2>3. CASE q - Len(res) \in 1..len /\ Len(res) + (q - Len(res)) = q
    <3>1. PICK i \in 1..len : q = Len(res) + i
      BY <2>3
    <3>2. q - 1 = Len(res) + i - 1
      BY <1>2, <3>1
    <3>3. /\ res'[q][1] = t /\ res'[q][2] = list[t][Times(res', t, q)]
          /\ Times(res', t, q) > 1 /\ Times(res', t, q) \notin signal_list[t] => res'[q - 1][1] = t
      BY <1>6, <3>1, <3>2
    <3>4. QED
      BY <1>2, <3>3
  <2>4. QED
    BY <2>1, <2>2, <2>3
<1>8. Follows(res)'
  <2>1. res' \in Seq(ThreadsOf(record) \X DOMAIN var_table)
    BY DEF Added
  <2>2. QED
    BY <1>1, <1>7, <2>1 DEF Follows
<1>9. ASSUME NEW u \in Threads PROVE loc'[u] = Times(res', u, Len(res')) /\ loc'[u] <= Len(list[u])
  <2>1. len \in 0..len /\ Len(res) \in 0..Len(res)
    BY <1>2
  <2>2. t \in DOMAIN loc /\ u \in DOMAIN loc
    BY <1>2, WorkNumbers DEF PairAtWork
  <2>3. CASE u = t
    BY <1>3, <1>4, <2>1, <2>2, <2>3
  <2>4. CASE u # t
    BY <1>3, <1>4, <2>2, <2>4 DEF BuiltInv
  <2>5. QED
    BY <2>3, <2>4
<1>10. BuiltInv'
  BY <1>1, <1>8, <1>9 DEF BuiltInv
<1>11. PairAtWork'
  <2>1. loc' \in [ThreadsOf(record) -> Nat] /\ \A u \in ThreadsOf(record) \ Threads : loc'[u] = 0
    <3>1. loc[t] + len \in Nat
      BY <1>2
    <3>2. loc \in [ThreadsOf(record) -> Nat] /\ \A u \in ThreadsOf(record) \ Threads : loc[u] = 0
      BY DEF PairAtWork
    <3>3. QED
      BY <1>2, <1>4, <3>1, <3>2
  <2>2. QED
    BY <1>1, <2>1 DEF PairAtWork, ArePair
<1>12. QED
  BY <1>10, <1>11

(* The call that the block makes has its place between two boundaries.      *)
Extended(ends, n) == [k \in 0..Len(stack) + 1 |-> IF k <= Len(stack) THEN ends[k] ELSE n]

LEMMA AddedFrames ==
  ASSUME RecordInv, PairAtWork, BuiltInv, item \in 1..2, NEW len, Added(trans[item], len),
         UNCHANGED <<input, session>>, NEW ends, FramesInv(ends),
         NEW more, more = Extended(ends, Len(res) + len)
  PROVE  FramesInv(more)'
<1> DEFINE t == trans[item]
           K == Len(stack)
           n == Len(res)
<1>1. /\ trans' = trans /\ Threads' = Threads
      /\ \A u, m : Boundary(u, m)' <=> Boundary(u, m)
  BY SameWork
<1>2. /\ n \in Nat /\ len \in Nat \ {0} /\ t \in Threads
      /\ stack \in Seq((1..2) \X (Nat \ {0})) /\ K \in Nat
  BY ResNumbers DEF Added, FramesInv
<1>3. /\ \A u, q : q \in 0..n => Times(res', u, q) = Times(res, u, q)
      /\ \A i \in 0..len : Times(res', t, n + i) = loc[t] + i
      /\ \A u : u # t => Times(res', u, n + len) = Times(res, u, n)
  BY TimesAdded
<1>4. /\ Len(res') = n + len /\ \A q \in 1..n : res'[q] = res[q]
      /\ \A i \in 1..len : res'[n + i] = <<t, list[t][loc[t] + i]>>
      /\ stack' = Append(stack, <<item, len>>)
      /\ Boundary(t, loc[t] + len)
  BY DEF Added, Boundary
<1>5. /\ ends \in [0..K -> Nat] /\ ends[0] = 0 /\ ends[K] = n
      /\ \A k \in 1..K : /\ ends[k] = ends[k - 1] + stack[k][2]
                          /\ \A q \in ends[k - 1] + 1..ends[k] : res[q][1] = trans[stack[k][1]]
      /\ \A k \in 0..K : /\ ends[k] <= n
                          /\ \A j \in 0..k : ends[j] <= ends[k]
                          /\ \A u \in Threads : Boundary(u, Times(res, u, ends[k]))
  BY DEF FramesInv
<1>6. /\ more \in [0..K + 1 -> Nat] /\ \A k \in 0..K : more[k] = ends[k]
      /\ more[K + 1] = n + len
  <2>1. more = [k \in 0..K + 1 |-> IF k <= K THEN ends[k] ELSE n + len]
    BY DEF Extended
  <2> HIDE DEF n
  <2>2. \A k \in 0..K + 1 : (IF k <= K THEN ends[k] ELSE n + len) \in Nat
    <3>1. ends \in [0..K -> Nat] /\ n + len \in Nat
      BY <1>2, <1>5
    <3>2. \A k \in 0..K + 1 : k <= K => k \in 0..K
      BY <1>2
    <3>3. QED
      BY ONLY <3>1, <3>2
  <2>3. K + 1 \in 0..K + 1 /\ ~(K + 1 <= K) /\ \A k \in 0..K : k \in 0..K + 1 /\ k <= K
    BY <1>2
  <2>4. QED
    BY <2>1, <2>2, <2>3
<1>7. /\ stack' \in Seq((1..2) \X (Nat \ {0})) /\ Len(stack') = K + 1
      /\ \A k \in 1..K : stack'[k] = stack[k]
      /\ stack'[K + 1] = <<item, len>>
  BY <1>2, <1>4
<1> HIDE DEF t, K, n
<1>8. ASSUME NEW k \in 1..K + 1
      PROVE  /\ more[k] = more[k - 1] + stack'[k][2]
             /\ \A q \in more[k - 1] + 1..more[k] : res'[q][1] = trans[stack'[k][1]]
  <2>1. CASE k \in 1..K
    <3>1. k \in 0..K /\ k - 1 \in 0..K
      BY <1>2, <2>1
    <3>2. more[k] = ends[k] /\ more[k - 1] = ends[k - 1] /\ stack'[k] = stack[k]
      BY <1>6, <1>7, <2>1, <3>1
    <3>3. \A q \in ends[k - 1] + 1..ends[k] : q \in 1..n
      <4>1. ends[k - 1] \in Nat /\ ends[k] \in Nat /\ ends[k] <= n
        BY <1>5, <3>1
      <4>2. QED
        BY <1>2, <4>1
    <3>4. QED
      BY ZenonT(60), <1>4, <1>5, <2>1, <3>2, <3>3
  <2>2. CASE k = K + 1
    <3>1. K \in 0..K /\ (K + 1) - 1 = K
      BY <1>2
    <3>2. more[k] = n + len /\ more[k - 1] = n /\ stack'[k] = <<item, len>>
      BY <1>5, <1>6, <1>7, <2>2, <3>1
    <3>3. \A q \in n + 1..n + len : q - n \in 1..len /\ n + (q - n) = q
      BY <1>2
    <3>4. \A q \in n + 1..n + len : res'[q][1] = t
      <4> TAKE q \in n + 1..n + len
      <4>1. res'[n + (q - n)] = <<t, list[t][loc[t] + (q - n)]>>
        BY <1>4, <3>3
      <4>2. QED
        BY <3>3, <4>1
    <3>5. QED
      BY <3>2, <3>4 DEF t
  <2>3. QED
    BY <1>2, <2>1, <2>2
<1>9. ASSUME NEW k \in 0..K + 1
      PROVE  /\ more[k] <= Len(res') /\ \A u \in Threads : Boundary(u, Times(res', u, more[k]))
             /\ \A j \in 0..k : more[j] <= more[k]
  <2>1. CASE k \in 0..K
    <3>1. more[k] = ends[k] /\ ends[k] \in Nat /\ ends[k] <= n /\ ends[k] \in 0..n
      BY <1>2, <1>5, <1>6, <2>1
    <3>2. \A u : Times(res', u, more[k]) = Times(res, u, ends[k])
      BY <1>3, <3>1
    <3>3. more[k] <= Len(res')
      BY <1>2, <1>4, <3>1
    <3>4. \A j \in 0..k : j \in 0..K
      BY <1>2, <2>1
    <3>5. \A j \in 0..k : more[j] <= more[k]
      BY <1>5, <1>6, <2>1, <3>1, <3>4
    <3>6. QED
      BY <1>5, <2>1, <3>2, <3>3, <3>5
  <2>2. CASE k = K + 1
    <3>1. more[k] = n + len /\ K \in 0..K /\ len \in 0..len
      BY <1>2, <1>6, <2>2
    <3>2. Boundary(t, Times(res', t, more[k]))
      BY <1>3, <1>4, <3>1
    <3>3. \A u \in Threads \ {t} : Boundary(u, Times(res', u, more[k]))
      BY <1>3, <1>5, <3>1
    <3>4. more[k] <= Len(res')
      BY <1>2, <1>4, <3>1
    <3>5. ASSUME NEW j \in 0..k PROVE more[j] <= more[k]
      <4>1. j \in 0..K \/ j = K + 1
        BY <1>2, <2>2
      <4>2. CASE j \in 0..K
        <5>1. more[j] = ends[j] /\ ends[j] \in Nat /\ ends[j] <= n
          BY <1>5, <1>6, <4>2
        <5>2. QED
          BY <1>2, <3>1, <5>1
      <4>3. CASE j = K + 1
        BY <1>2, <2>2, <3>1, <4>3
      <4>4. QED
        BY <4>1, <4>2, <4>3
    <3>6. QED
      BY <3>2, <3>3, <3>4, <3>5
  <2>3. QED
    BY <1>2, <2>1, <2>2
<1>10. /\ more \in [0..Len(stack') -> Nat] /\ more[0] = 0 /\ more[Len(stack')] = Len(res')
  BY <1>2, <1>4, <1>5, <1>6, <1>7
<1>11. QED
  <2>1. /\ \A k \in 1..Len(stack') : /\ more[k] = more[k - 1] + stack'[k][2]
                                   /\ \A q \in more[k - 1] + 1..more[k] : res'[q][1] = trans[stack'[k][1]]
        /\ \A k \in 0..Len(stack') : /\ more[k] <= Len(res')
                                     /\ \A j \in 0..k : more[j] <= more[k]
                                     /\ \A u \in Threads : Boundary(u, Times(res', u, more[k]))
    BY <1>7, <1>8, <1>9
  <2>2. QED
    BY <1>1, <1>7, <1>10, <2>1 DEF FramesInv

(* A plan that goes on with t as res does, goes on with the block.          *)
BlockFollowsHere(t, len) ==
  \A v : WorkPlan(v) /\ (\A q \in 1..Len(res) : v[q] = res[q]) /\ v[Len(res) + 1][1] = t
           => \A q \in 1..Len(res) + len : v[q] = res'[q]

LEMMA IntoSequenceKeeps == ASSUME PlanInv, IntoSequence PROVE PlanInv'
<1> DEFINE t == trans[item]
           len == BlockEnd(t) - loc[t]
           K == Len(stack)
           n == Len(res)
<1>1. /\ at = "loop" /\ at' = "call" /\ item \in 1..2 /\ loc[t] < Len(list[t])
      /\ UNCHANGED <<input, session, item, result>>
  BY DEF IntoSequence
<1>2. AtWork /\ AtWork'
  BY <1>1 DEF AtWork
<1>3. IdleInv' /\ KeptInv' /\ DoneInv' /\ \A v : Judged(v)' <=> Judged(v)
  BY <1>1, <1>2, WithinKeeps
<1>4. RecordInv /\ PairAtWork /\ BuiltInv /\ n < SizeOf(trans)
  BY <1>1, <1>2, AtWorkFacts
<1>5. Added(t, len)
  BY <1>4, BlockIsAdded
<1>6. PICK ends : RecursionInv(ends)
  BY <1>2, AtWorkFacts
<1>7. /\ trans' = trans /\ var_table' = var_table /\ \A v : WorkPlan(v)' <=> WorkPlan(v)
  BY <1>1, SameWork
<1>8. /\ n \in Nat /\ SizeOf(trans) \in Nat /\ len \in Nat \ {0} /\ t \in Threads
      /\ stack \in Seq((1..2) \X (Nat \ {0})) /\ K \in Nat
      /\ Len(res') = n + len /\ stack' = Append(stack, <<item, len>>)
      /\ \A q \in 1..n : res'[q] = res[q]
      /\ \A i \in 1..len : res'[n + i] = <<t, list[t][loc[t] + i]>>
  <2>1. n \in Nat /\ SizeOf(trans) \in Nat
    BY <1>4, ResNumbers
  <2>2. stack \in Seq((1..2) \X (Nat \ {0})) /\ K \in Nat
    BY <1>6 DEF RecursionInv, FramesInv
  <2> HIDE DEF t, len
  <2>3. QED
    BY <1>5, <2>1, <2>2 DEF Added
<1>9. loc[t] = Times(res, t, n) /\ Boundary(t, loc[t])
  <2>1. loc[t] = Times(res, t, n)
    BY <1>4, <1>8 DEF BuiltInv
  <2>2. ends[K] = n /\ K \in 0..K
    BY <1>6, <1>8 DEF RecursionInv, FramesInv
  <2>3. Boundary(t, Times(res, t, ends[K]))
    BY <1>6, <1>8, <2>2 DEF RecursionInv, FramesInv
  <2>4. QED
    BY <2>1, <2>2, <2>3
<1>10. PICK more : more = Extended(ends, n + len)
  OBVIOUS
<1>11. BuiltInv' /\ PairAtWork'
  <2> HIDE DEF t, len
  <2>1. QED
    BY <1>1, <1>4, <1>5, <1>9, AddedFollows
<1>12. FramesInv(more)'
  <2>1. FramesInv(ends)
    BY <1>6 DEF RecursionInv
  <2> HIDE DEF len
  <2>2. QED
    BY <1>1, <1>4, <1>5, <1>10, <2>1, AddedFrames
<1> HIDE DEF t, n
<1>13. BlockFollowsHere(t, len)
  <2> HIDE DEF len
  <2>1. ASSUME NEW v, WorkPlan(v), \A q \in 1..n : v[q] = res[q], v[n + 1][1] = t
        PROVE  \A q \in 1..n + len : v[q] = res'[q]
    <3>1. Times(v, t, n) = loc[t]
      <4>1. n \in Nat /\ \A q \in 1..n : v[q][1] = res[q][1]
        BY <1>8, <2>1
      <4>2. Times(v, t, n) = Times(res, t, n)
        BY <4>1, TimesAgree
      <4>3. QED
        BY <1>9, <4>2
    <3>2. \A i \in 1..len : v[n + i] = <<t, list[t][loc[t] + i]>>
      <4>1. \A i \in 1..BlockEnd(t) - loc[t] : n + i <= SizeOf(trans) /\ v[n + i] = <<t, list[t][loc[t] + i]>>
        <5>1. GoesOnWith(v, t, n)
          BY <1>1, <1>4, <2>1, <3>1 DEF GoesOnWith, t
        <5>2. QED
          BY <1>4, <1>8, <5>1, BlockFollows DEF HasBlock
      <4>2. QED
        BY <4>1 DEF len
    <3>3. ASSUME NEW q \in 1..n + len PROVE v[q] = res'[q]
      <4>1. q \in 1..n \/ (q - n \in 1..len /\ n + (q - n) = q)
        BY <1>8
      <4>2. CASE q \in 1..n
        BY <1>8, <2>1, <4>2
      <4>3. CASE q - n \in 1..len /\ n + (q - n) = q
        <5>1. PICK i \in 1..len : q = n + i
          BY <4>3
        <5>2. QED
          BY <1>8, <3>2, <5>1
      <4>4. QED
        BY <4>1, <4>2, <4>3
    <3>4. QED
      BY <3>3
  <2>2. QED
    BY <2>1 DEF BlockFollowsHere, n
<1>14. /\ Len(stack') = K + 1 /\ \A k \in 1..K : stack'[k] = stack[k]
       /\ stack'[K + 1] = <<item, len>>
  <2> HIDE DEF len
  <2>1. QED
    BY <1>8
<1>15. /\ ends \in [0..K -> Nat] /\ ends[K] = n /\ \A k \in 0..K : ends[k] \in Nat /\ ends[k] <= n
       /\ \A k \in 0..K : more[k] = ends[k]
       /\ more[K + 1] = n + len
  <2>1. ends \in [0..K -> Nat] /\ ends[K] = n /\ \A k \in 0..K : ends[k] <= n
    BY <1>6 DEF RecursionInv, FramesInv, n
  <2> HIDE DEF len
  <2>2. K + 1 \in 0..K + 1 /\ ~(K + 1 <= K) /\ \A k \in 0..K : k \in 0..K + 1 /\ k <= K
    BY <1>8
  <2>3. QED
    BY <1>10, <2>1, <2>2 DEF Extended
<1> HIDE DEF len, K
(* The first thread gives v's block now, or v waits for the second.         *)
<1>16. ASSUME NEW v, WorkPlan(v), Pending(ends, v) PROVE Pending(more, v)'
  <2>1. PICK k \in 0..K : PendingAt(ends, v, k)
    BY <1>16 DEF Pending, K
  <2>2. \A q \in 1..ends[k] : v[q] = res[q] /\ v[q] = res'[q]
    <3>1. \A q \in 1..ends[k] : q \in 1..n
      BY <1>8, <1>15
    <3>2. QED
      BY <1>8, <2>1, <3>1 DEF PendingAt
  <2>3. CASE k # K
    <3>1. k < K /\ k + 1 \in 1..K /\ k # K + 1
      BY <1>8, <2>3
    <3>2. stack'[k + 1][1] = 1 /\ v[ends[k] + 1][1] = trans'[2]
      BY <1>7, <1>14, <2>1, <3>1 DEF PendingAt, K
    <3>3. PendingAt(more, v, k)'
      BY <1>14, <1>15, <2>2, <3>1, <3>2 DEF PendingAt
    <3>4. k \in 0..Len(stack')
      BY <1>8, <1>14
    <3>5. QED
      BY <3>3, <3>4 DEF Pending
  <2>4. CASE k = K
    <3>1. PICK j \in 1..2 : j >= item /\ v[n + 1][1] = trans[j]
      BY <1>1, <1>15, <2>1, <2>4 DEF PendingAt, Ahead, K
    <3>2. CASE j = item
      <4>1. v[n + 1][1] = t
        BY <3>1, <3>2 DEF t
      <4>2. \A q \in 1..n + len : v[q] = res'[q]
        BY <1>13, <1>15, <1>16, <2>2, <2>4, <4>1 DEF BlockFollowsHere, n
      <4>3. PendingAt(more, v, k + 1)'
        <5>1. \A q \in 1..more[k + 1] : v[q] = res'[q]
          BY <1>15, <2>4, <4>2
        <5>2. ~(k + 1 < Len(stack'))
          BY <1>8, <1>14, <2>4
        <5>3. Ahead(v, more[k + 1])'
          BY <1>1 DEF Ahead
        <5>4. QED
          BY <5>1, <5>2, <5>3 DEF PendingAt
      <4>4. k + 1 \in 0..Len(stack')
        BY <1>8, <1>14, <2>4
      <4>5. QED
        BY <4>3, <4>4 DEF Pending
    <3>3. CASE j # item
      <4>1. item = 1 /\ j = 2
        BY <1>1, <3>1, <3>3
      <4>2. stack'[K + 1][1] = 1 /\ v[ends[K] + 1][1] = trans'[2]
        BY <1>7, <1>14, <1>15, <3>1, <4>1
      <4>3. PendingAt(more, v, k)'
        <5>1. \A q \in 1..more[k] : v[q] = res'[q]
          BY <1>15, <2>2
        <5>2. k # Len(stack') /\ more[k] = ends[k]
          BY <1>8, <1>14, <1>15, <2>4
        <5>3. stack'[k + 1][1] = 1 /\ v[more[k] + 1][1] = trans'[2]
          BY <2>4, <4>2, <5>2
        <5>4. QED
          BY <5>1, <5>2, <5>3 DEF PendingAt
      <4>4. k \in 0..Len(stack')
        BY <1>8, <1>14
      <4>5. QED
        BY <4>3, <4>4 DEF Pending
    <3>4. QED
      BY <3>2, <3>3
  <2>5. QED
    BY <2>3, <2>4
<1>17. RecursionInv(more)'
  BY <1>3, <1>6, <1>7, <1>12, <1>16 DEF RecursionInv
<1>18. WorkInv'
  BY <1>1, <1>11, <1>17 DEF WorkInv
<1>19. PairsInv'
  BY <1>1, PairsKept DEF PlanInv
<1>20. QED
  BY <1>3, <1>7, <1>18, <1>19 DEF PlanInv

(* A call returns with what it put into res, and its thread goes back.      *)
ReturnsTo(n, t) ==
  /\ res' = SubSeq(res, 1, n) /\ loc' = [loc EXCEPT ![t] = Times(res, t, n)]
  /\ \A q \in n + 1..Len(res) : res[q][1] = t
  /\ stack' = Front(stack) /\ item' = Last(stack)[1] + 1

LEMMA CallReturns ==
  ASSUME RecordInv, PairAtWork, BuiltInv, NEW ends, FramesInv(ends), Return
  PROVE  /\ Len(stack) \in Nat \ {0} /\ trans[Last(stack)[1]] \in Threads
         /\ ends[Len(stack) - 1] \in Nat /\ ends[Len(stack) - 1] < Len(res)
         /\ ReturnsTo(ends[Len(stack) - 1], trans[Last(stack)[1]])
         /\ Last(stack)[1] \in 1..2 /\ Last(stack) = stack[Len(stack)]
<1> DEFINE K == Len(stack)
           i == Last(stack)[1]
           len == Last(stack)[2]
           t == trans[i]
           n == ends[K - 1]
<1>1. /\ stack # <<>> /\ res' = SubSeq(res, 1, Len(res) - len)
      /\ loc' = [loc EXCEPT ![t] = loc[t] - len]
      /\ item' = i + 1 /\ stack' = Front(stack)
  BY DEF Return
<1>2. stack \in Seq((1..2) \X (Nat \ {0})) /\ K \in Nat \ {0}
  <2>1. stack \in Seq((1..2) \X (Nat \ {0}))
    BY DEF FramesInv
  <2>2. QED
    BY <1>1, <2>1, EmptySeq
<1>3. Last(stack) = stack[K] /\ i \in 1..2 /\ len \in Nat \ {0}
  <2>1. Last(stack) = stack[K]
    BY DEF Last
  <2>2. stack[K] \in (1..2) \X (Nat \ {0})
    BY <1>2
  <2>3. QED
    BY <2>1, <2>2
<1>4. K \in 1..K /\ K \in 0..K /\ K - 1 \in 0..K
  BY <1>2
<1>5. /\ ends[K] = Len(res) /\ n \in Nat /\ ends[K] = n + len
      /\ \A q \in n + 1..Len(res) : res[q][1] = t
  BY <1>3, <1>4 DEF FramesInv
<1>6. t \in Threads
  BY <1>3 DEF Threads
<1>7. /\ loc[t] = Times(res, t, Len(res)) /\ Len(res) \in Nat
  <2> HIDE DEF t
  <2>1. QED
    BY <1>6, ResNumbers DEF BuiltInv
<1> HIDE DEF K, i, len, t, n
<1>8. Len(res) - len = n /\ n < Len(res) /\ n <= Len(res) /\ Len(res) - n = len
  BY <1>3, <1>5, <1>7
<1>9. Times(res, t, Len(res)) = Times(res, t, n) + (Len(res) - n)
  BY <1>5, <1>7, <1>8, TimesOverBlock
<1>10. loc[t] - len = Times(res, t, n)
  <2>1. Times(res, t, n) \in Nat
    BY <1>5, TimesTyped
  <2>2. QED
    BY <1>3, <1>7, <1>8, <1>9, <2>1
<1>11. ReturnsTo(n, t)
  BY <1>1, <1>5, <1>8, <1>10 DEF ReturnsTo, i
<1>12. QED
  BY <1>2, <1>3, <1>5, <1>6, <1>8, <1>11 DEF K, i, t, n

(* What is left of res after the return still follows the threads.          *)
LEMMA ReturnedFollows ==
  ASSUME RecordInv, PairAtWork, BuiltInv, NEW n \in Nat, n < Len(res), NEW t \in Threads, ReturnsTo(n, t),
         UNCHANGED <<input, session>>
  PROVE  /\ BuiltInv' /\ PairAtWork'
         /\ Len(res') = n /\ \A q \in 1..n : res'[q] = res[q]
         /\ \A u : \A q \in 0..n : Times(res', u, q) = Times(res, u, q)
<1>1. /\ record' = record /\ var_table' = var_table /\ list' = list
      /\ trans' = trans /\ signal_list' = signal_list /\ tried' = tried
      /\ Threads' = Threads /\ Colours' = Colours
  BY SameWork
<1>2. res \in Seq(ThreadsOf(record) \X DOMAIN var_table) /\ Len(res) \in Nat
  BY ResNumbers
<1>3. /\ res' \in Seq(ThreadsOf(record) \X DOMAIN var_table) /\ Len(res') = n
      /\ \A q \in 1..n : res'[q] = res[q]
  <2> DEFINE S == ThreadsOf(record) \X DOMAIN var_table
  <2>1. res \in Seq(S) /\ res' = SubSeq(res, 1, n)
    BY <1>2 DEF ReturnsTo
  <2> HIDE DEF S
  <2>2. res' \in Seq(S) /\ Len(res') = n /\ \A q \in 1..n : res'[q] = res[q]
    BY <1>2, <2>1
  <2>3. QED
    BY <2>2 DEF S
<1>4. ASSUME NEW u, NEW q \in 0..n PROVE Times(res', u, q) = Times(res, u, q)
  <2>1. q \in Nat /\ \A k \in 1..q : res'[k][1] = res[k][1]
    BY <1>3
  <2>2. QED
    BY <2>1, TimesAgree
<1>5. ASSUME NEW q \in 1..n
      PROVE  /\ res'[q][1] \in Threads
             /\ res'[q][2] = list[res'[q][1]][Times(res', res'[q][1], q)]
             /\ Times(res', res'[q][1], q) > 1 /\ Times(res', res'[q][1], q) \notin signal_list[res'[q][1]]
                  => res'[q - 1][1] = res'[q][1]
  <2>1. res'[q] = res[q] /\ q \in 0..n /\ q \in 1..Len(res)
    BY <1>2, <1>3
  <2>2. Times(res', res'[q][1], q) = Times(res, res[q][1], q)
    BY <1>4, <2>1
  <2>3. Times(res, res[q][1], q) > 1 => res'[q - 1] = res[q - 1]
    <3>1. q \in Nat /\ q > 0
      OBVIOUS
    <3>2. Times(res, res[q][1], q) \in 0..q
      BY <3>1, TimesTyped
    <3>3. Times(res, res[q][1], q) > 1 => q - 1 \in 1..n
      BY <3>1, <3>2
    <3>4. QED
      BY <1>3, <3>3
  <2>4. QED
    BY <2>1, <2>2, <2>3 DEF BuiltInv, Follows
<1>6. Follows(res)'
  BY <1>1, <1>3, <1>5 DEF Follows
<1>7. ASSUME NEW u \in Threads PROVE loc'[u] = Times(res', u, n) /\ loc'[u] <= Len(list[u])
  <2>1. n \in 0..n
    OBVIOUS
  <2>2. t \in DOMAIN loc /\ u \in DOMAIN loc
    BY WorkNumbers DEF PairAtWork
  <2>3. loc'[u] = Times(res, u, n)
    <3>1. CASE u = t
      BY <2>2, <3>1 DEF ReturnsTo
    <3>2. CASE u # t
      <4>1. loc'[u] = loc[u]
        BY <2>2, <3>2 DEF ReturnsTo
      <4>2. \A q \in n + 1..Len(res) : res[q][1] = t
        BY DEF ReturnsTo
      <4>3. n <= Len(res)
        BY <1>2
      <4>4. \A w : w # t => Times(res, w, Len(res)) = Times(res, w, n)
        <5>1. n \in Nat /\ Len(res) \in Nat
          BY <1>2
        <5>2. /\ Times(res, t, Len(res)) = Times(res, t, n) + (Len(res) - n)
              /\ \A w : w # t => Times(res, w, Len(res)) = Times(res, w, n)
          BY ONLY <4>2, <4>3, <5>1, TimesOverBlock
        <5>3. QED
          BY <5>2
      <4>5. Times(res, u, Len(res)) = Times(res, u, n)
        BY <3>2, <4>4
      <4>6. QED
        BY <4>1, <4>5 DEF BuiltInv
    <3>3. QED
      BY <3>1, <3>2
  <2>4. Times(res, u, n) <= Times(res, u, Len(res)) /\ Times(res, u, n) \in Nat /\ Times(res, u, Len(res)) \in Nat
    BY <1>2, TimesGrow, TimesTyped
  <2>5. Times(res, u, Len(res)) <= Len(list[u]) /\ Len(list[u]) \in Nat
    BY WorkNumbers DEF BuiltInv
  <2>6. QED
    BY <1>4, <2>1, <2>3, <2>4, <2>5
<1>8. BuiltInv'
  BY <1>1, <1>3, <1>6, <1>7 DEF BuiltInv
<1>9. PairAtWork'
  <2>1. Times(res, t, n) \in Nat
    BY TimesTyped
  <2>2. loc' \in [ThreadsOf(record) -> Nat] /\ \A u \in ThreadsOf(record) \ Threads : loc'[u] = 0
    <3>1. loc \in [ThreadsOf(record) -> Nat] /\ \A u \in ThreadsOf(record) \ Threads : loc[u] = 0
      BY DEF PairAtWork
    <3>2. loc' = [loc EXCEPT ![t] = Times(res, t, n)]
      BY DEF ReturnsTo
    <3>3. QED
      BY <2>1, <3>1, <3>2
  <2>3. QED
    BY <1>1, <2>2 DEF PairAtWork, ArePair
<1>10. QED
  BY <1>3, <1>4, <1>8, <1>9

LEMMA ResWithinSize ==
  ASSUME RecordInv, PairAtWork, BuiltInv
  PROVE  Len(res) <= SizeOf(trans)
<1> DEFINE a == trans[1]
           b == trans[2]
           n == Len(res)
<1>1. /\ a # b /\ Threads = {a, b} /\ SizeOf(trans) = Len(list[a]) + Len(list[b])
      /\ \A t \in Threads : Len(list[t]) \in Nat
  BY WorkNumbers DEF Threads
<1>2. n \in Nat /\ \A q \in 1..n : res[q][1] \in Threads
  BY ResNumbers DEF BuiltInv, Follows
<1>3. \A t \in Threads : Times(res, t, n) <= Len(list[t])
  BY DEF BuiltInv
<1> HIDE DEF a, b, n
<1>4. Times(res, a, n) + Times(res, b, n) = n
  BY <1>1, <1>2, TimesOfBoth
<1>5. Times(res, a, n) \in Nat /\ Times(res, b, n) \in Nat
  BY <1>2, TimesTyped
<1>6. \A h, i, j, k \in Nat : h <= j /\ i <= k => h + i <= j + k
  OBVIOUS
<1>7. Times(res, a, n) + Times(res, b, n) <= Len(list[a]) + Len(list[b])
  BY <1>1, <1>3, <1>5, <1>6
<1>8. QED
  BY <1>1, <1>4, <1>7 DEF n

LEMMA ReturnKeeps == ASSUME PlanInv, Return PROVE PlanInv'
<1> DEFINE K == Len(stack)
           t == trans[Last(stack)[1]]
<1>1. /\ at = "back" /\ at' = "loop" /\ UNCHANGED <<input, session, result>>
  BY DEF Return
<1>2. AtWork /\ AtWork'
  BY <1>1 DEF AtWork
<1>3. IdleInv' /\ KeptInv' /\ DoneInv' /\ \A v : Judged(v)' <=> Judged(v)
  BY <1>1, <1>2, WithinKeeps
<1>4. RecordInv /\ PairAtWork /\ BuiltInv
  BY <1>1, <1>2, AtWorkFacts
<1>5. PICK ends : RecursionInv(ends)
  BY <1>2, AtWorkFacts
<1>6. FramesInv(ends)
  BY <1>5 DEF RecursionInv
<1>7. PICK m : m = K - 1
  OBVIOUS
<1>8. PICK n : n = ends[m]
  OBVIOUS
<1>9. /\ K \in Nat \ {0} /\ t \in Threads /\ n \in Nat /\ n < Len(res) /\ ReturnsTo(n, t)
      /\ Last(stack)[1] \in 1..2 /\ Last(stack) = stack[K]
  BY <1>4, <1>6, <1>7, <1>8, CallReturns
<1>10. m \in Nat /\ m + 1 = K /\ m \in 0..K
  BY <1>7, <1>9
<1> HIDE DEF t
<1>11. /\ BuiltInv' /\ PairAtWork'
       /\ Len(res') = n /\ \A q \in 1..n : res'[q] = res[q]
       /\ \A u : \A q \in 0..n : Times(res', u, q) = Times(res, u, q)
  BY <1>1, <1>4, <1>9, ReturnedFollows
<1>12. /\ trans' = trans /\ var_table' = var_table /\ Threads' = Threads
       /\ SizeOf(trans)' = SizeOf(trans)
       /\ \A v : WorkPlan(v)' <=> WorkPlan(v)
       /\ \A u, k : Boundary(u, k)' <=> Boundary(u, k)
  BY <1>1, SameWork
<1>13. /\ ends \in [0..K -> Nat] /\ ends[0] = 0 /\ ends[K] = Len(res)
       /\ \A k \in 1..K : /\ ends[k] = ends[k - 1] + stack[k][2]
                          /\ \A q \in ends[k - 1] + 1..ends[k] : res[q][1] = trans[stack[k][1]]
       /\ \A k \in 0..K : /\ ends[k] <= Len(res)
                          /\ \A j \in 0..k : ends[j] <= ends[k]
                          /\ \A u \in Threads : Boundary(u, Times(res, u, ends[k]))
       /\ stack \in Seq((1..2) \X (Nat \ {0}))
  BY <1>6 DEF FramesInv
<1>14. /\ stack' \in Seq((1..2) \X (Nat \ {0})) /\ Len(stack') = m
       /\ \A k \in 1..m : stack'[k] = stack[k]
  <2>1. stack' = SubSeq(stack, 1, K - 1) /\ item' = Last(stack)[1] + 1
    BY <1>9 DEF ReturnsTo, Front
  <2>2. QED
    BY <1>7, <1>9, <1>10, <1>13, <2>1
<1>15. ASSUME NEW k \in 0..m PROVE k \in 0..K /\ ends[k] \in Nat /\ ends[k] <= n
  <2>1. k \in 0..K
    BY <1>10
  <2>2. ends[k] \in Nat
    BY <1>13, <2>1
  <2>3. ends[k] <= ends[m]
    BY <1>10, <1>13
  <2>4. QED
    BY <1>8, <2>1, <2>2, <2>3
<1>16. PICK less : less = [k \in 0..m |-> ends[k]]
  OBVIOUS
<1>17. less \in [0..m -> Nat] /\ \A k \in 0..m : less[k] = ends[k]
  BY <1>15, <1>16
<1> HIDE DEF K
<1>18. FramesInv(less)'
  <2>1. less \in [0..Len(stack') -> Nat] /\ less[0] = 0 /\ less[Len(stack')] = Len(res')
    BY <1>8, <1>10, <1>11, <1>13, <1>14, <1>17
  <2>2. ASSUME NEW k \in 1..m
        PROVE  /\ less[k] = less[k - 1] + stack'[k][2]
               /\ \A q \in less[k - 1] + 1..less[k] : res'[q][1] = trans'[stack'[k][1]]
    <3>1. k \in 0..m /\ k - 1 \in 0..m /\ k \in 1..K
      BY <1>10
    <3>2. less[k] = ends[k] /\ less[k - 1] = ends[k - 1] /\ stack'[k] = stack[k]
      BY <1>14, <1>17, <3>1
    <3>3. ends[k] <= n /\ ends[k] \in Nat /\ ends[k - 1] \in Nat
      BY <1>15, <3>1
    <3>4. \A q \in ends[k - 1] + 1..ends[k] : q \in 1..n
      BY <1>9, <3>3
    <3>5. QED
      BY <1>11, <1>12, <1>13, <3>1, <3>2, <3>4
  <2>3. ASSUME NEW k \in 0..m
        PROVE  /\ less[k] <= Len(res') /\ \A j \in 0..k : less[j] <= less[k]
               /\ \A u \in Threads : Boundary(u, Times(res', u, less[k]))
    <3>1. less[k] = ends[k] /\ k \in 0..K /\ ends[k] \in 0..n
      BY <1>9, <1>15, <1>17
    <3>2. \A j \in 0..k : j \in 0..m
      BY <1>10
    <3>3. \A j \in 0..k : less[j] <= less[k]
      BY <1>13, <1>17, <3>1, <3>2
    <3>4. less[k] <= Len(res')
      BY <1>11, <1>15, <3>1
    <3>5. \A u : Times(res', u, less[k]) = Times(res, u, ends[k])
      BY <1>11, <3>1
    <3>6. QED
      BY <1>13, <3>1, <3>3, <3>4, <3>5
  <2>4. /\ \A k \in 1..Len(stack') : /\ less[k] = less[k - 1] + stack'[k][2]
                                   /\ \A q \in less[k - 1] + 1..less[k] : res'[q][1] = trans'[stack'[k][1]]
        /\ \A k \in 0..Len(stack') : /\ less[k] <= Len(res')
                                     /\ \A j \in 0..k : less[j] <= less[k]
                                     /\ \A u \in Threads : Boundary(u, Times(res', u, less[k]))
    BY <1>14, <2>2, <2>3
  <2>5. QED
    BY <1>12, <1>14, <2>1, <2>4 DEF FramesInv
(* The calls before wait for what they waited for; the one that is at work  *)
(* again has the second thread before it, if it had given the first.        *)
<1>19. ASSUME NEW v, WorkPlan(v), Pending(ends, v) PROVE Pending(less, v)'
  <2>1. PICK k \in 0..K : PendingAt(ends, v, k)
    BY <1>19 DEF Pending, K
  <2>2. k # K
    BY <1>1, <2>1 DEF PendingAt, Ahead, K
  <2>3. k \in 0..m /\ k < K
    BY <1>9, <1>10, <2>2
  <2>4. stack[k + 1][1] = 1 /\ v[ends[k] + 1][1] = trans[2] /\ \A q \in 1..ends[k] : v[q] = res[q]
    BY <2>1, <2>3 DEF PendingAt, K
  <2>5. \A q \in 1..less[k] : v[q] = res'[q]
    <3>1. less[k] = ends[k] /\ \A q \in 1..ends[k] : q \in 1..n
      BY <1>9, <1>15, <1>17, <2>3
    <3>2. QED
      BY <1>11, <2>4, <3>1
  <2>6. k < m => stack'[k + 1][1] = 1 /\ v[less[k] + 1][1] = trans'[2]
    <3>1. k < m => k + 1 \in 1..m
      BY <1>10, <2>3
    <3>2. QED
      BY <1>12, <1>14, <1>17, <2>3, <2>4, <3>1
  <2>7. k = m => Ahead(v, less[k])'
    <3> SUFFICES ASSUME k = m PROVE Ahead(v, less[k])'
      OBVIOUS
    <3>1. item' = 2
      BY <1>9, <1>10, <2>4 DEF ReturnsTo
    <3>2. v[less[k] + 1][1] = trans'[2]
      BY <1>12, <1>17, <2>3, <2>4
    <3>3. QED
      BY <1>1, <3>1, <3>2 DEF Ahead
  <2>8. PendingAt(less, v, k)'
    BY <1>14, <2>5, <2>6, <2>7 DEF PendingAt
  <2>9. QED
    BY <1>14, <2>3, <2>8 DEF Pending
<1>20. RecursionInv(less)'
  BY <1>3, <1>5, <1>12, <1>18, <1>19 DEF RecursionInv
<1>21. item' \in 1..3 /\ Len(res') < SizeOf(trans)'
  <2>1. item' \in 1..3
    BY <1>9 DEF ReturnsTo
  <2>2. Len(res) <= SizeOf(trans)
    BY <1>4, ResWithinSize
  <2>3. Len(res') < SizeOf(trans)
    BY <1>4, <1>9, <1>11, <2>2, ResNumbers
  <2>4. QED
    BY <1>12, <2>1, <2>3
<1>22. WorkInv'
  BY <1>1, <1>11, <1>20, <1>21 DEF WorkInv
<1>23. PairsInv'
  BY <1>1, PairsKept DEF PlanInv
<1>24. QED
  BY <1>3, <1>12, <1>22, <1>23 DEF PlanInv

LEMMA SeqGrows == ASSUME NEW S, NEW T, S \subseteq T, NEW s \in Seq(S) PROVE s \in Seq(T)
OBVIOUS

(* Judging an interleaving.                                                 *)
LEMMA JudgeKeeps ==
  ASSUME KeptInv, Generating, Generating', UNCHANGED <<input, session>>,
         NEW v, v \in AllInterleavings, Judge(v)
  PROVE  KeptInv' /\ Judged(v)' /\ \A w : Judged(w) => Judged(w)'
<1>1. /\ close_map' = close_map /\ AllInterleavings' = AllInterleavings
      /\ \A w : HasUnallowedSituation(w)' <=> HasUnallowedSituation(w)
  BY SameWork
<1> DEFINE Shown(list_of) == UNION {WindowsOf(list_of[i]) : i \in 1..Len(list_of)}
<1>2. /\ final_list \in Seq(AllInterleavings) /\ mem_cksum = Shown(final_list)
      /\ \A i \in 1..Len(final_list) : ~HasUnallowedSituation(final_list[i])
  BY DEF KeptInv
<1>3. CASE HasUnallowedSituation(v)
  <2>1. mem_cksum' = mem_cksum /\ final_list' = final_list
    BY <1>3 DEF Judge, result
  <2>2. KeptInv'
    BY <1>1, <2>1 DEF KeptInv
  <2>3. QED
    BY <1>1, <1>3, <2>1, <2>2 DEF Judged
<1>4. CASE ~HasUnallowedSituation(v) /\ NewWindows(v) # {}
  <2>1. mem_cksum' = mem_cksum \cup WindowsOf(v) /\ final_list' = Append(final_list, v)
    BY <1>4 DEF Judge, Keep
  <2> DEFINE n == Len(final_list)
  <2>2. /\ n \in Nat /\ Len(final_list') = n + 1 /\ final_list' \in Seq(AllInterleavings)
        /\ \A i \in 1..n : final_list'[i] = final_list[i]
        /\ final_list'[n + 1] = v
    BY <1>2, <2>1
  <2> HIDE DEF n
  <2>3. \A i \in 1..n + 1 : i \in 1..n \/ i = n + 1
    BY <2>2
  <2>4. \A i \in 1..n : i \in 1..n + 1
    BY <2>2
  <2>5. n + 1 \in 1..n + 1
    BY <2>2
  <2>6. \A i \in 1..n + 1 : ~HasUnallowedSituation(final_list'[i])
    BY <1>2, <1>4, <2>2, <2>3 DEF n
  <2>7. mem_cksum' = UNION {WindowsOf(final_list'[i]) : i \in 1..n + 1}
    <3>1. mem_cksum = UNION {WindowsOf(final_list'[i]) : i \in 1..n}
      BY <1>2, <2>2 DEF n
    <3>2. QED
      BY <2>1, <2>2, <2>3, <2>4, <2>5, <3>1
  <2>8. KeptInv'
    BY <1>1, <2>2, <2>6, <2>7 DEF KeptInv
  <2>9. QED
    BY <1>1, <2>1, <2>8 DEF Judged
<1>5. CASE ~HasUnallowedSituation(v) /\ NewWindows(v) = {}
  <2>1. mem_cksum' = mem_cksum \cup WindowsOf(v) /\ final_list' = final_list
    BY <1>5 DEF Judge, Keep
  <2>2. mem_cksum' = mem_cksum
    BY <1>5, <2>1 DEF NewWindows
  <2>3. KeptInv'
    BY <1>1, <2>1, <2>2 DEF KeptInv
  <2>4. QED
    BY <1>1, <2>1, <2>2, <2>3 DEF Judged
<1>6. QED
  BY <1>3, <1>4, <1>5

LEMMA CompleteKeeps == ASSUME PlanInv, Complete PROVE PlanInv'
<1>1. /\ at = "call" /\ at' = "back" /\ Len(res) = SizeOf(trans) /\ Judge(res)
      /\ UNCHANGED <<input, session, loc, res, stack>>
  BY DEF Complete, MaxSize, SizeOf
<1>2. AtWork /\ AtWork' /\ Generating'
  BY <1>1 DEF AtWork, Generating
<1>3. RecordInv /\ PairAtWork /\ BuiltInv /\ Generating
  BY <1>1, <1>2, AtWorkFacts
<1>4. PICK ends : RecursionInv(ends)
  BY <1>2, AtWorkFacts
<1>5. WorkPlan(res)
  BY <1>1, <1>3, ResIsPlan
<1>6. res \in AllInterleavings
  <2>1. \E S : tried \in Seq(S)
    BY DEF PlanInv, PairsInv
  <2>2. Len(tried) \in DOMAIN tried /\ tried[Len(tried)][1] = trans /\ ArePair(trans)
    BY <1>3, <2>1 DEF PairAtWork
  <2>3. res \in Interleavings(trans, Colours)
    BY <1>3, <1>5, <2>2, InterleavingsAre DEF WorkPlan
  <2>4. QED
    BY <2>2, <2>3 DEF AllInterleavings, Colours
<1>7. KeptInv' /\ Judged(res)' /\ \A w : Judged(w) => Judged(w)'
  <2>1. KeptInv
    BY DEF PlanInv
  <2>2. QED
    BY <1>1, <1>2, <1>3, <1>6, <2>1, JudgeKeeps
<1>8. PairAtWork' /\ BuiltInv' /\ \A x : FramesInv(x)' <=> FramesInv(x)
  BY <1>1, <1>2, SamePlace
<1>9. /\ trans' = trans /\ var_table' = var_table /\ tried' = tried /\ \A v : WorkPlan(v)' <=> WorkPlan(v)
      /\ \A v, p, c : IsInterleaving(v, p, c)' <=> IsInterleaving(v, p, c)
  BY <1>1, SameWork
<1>10. ASSUME NEW v, WorkPlan(v), Pending(ends, v) PROVE Judged(v)' \/ Pending(ends, v)'
  <2>1. PICK k \in 0..Len(stack) : PendingAt(ends, v, k)
    BY <1>10 DEF Pending
  <2>2. CASE k = Len(stack)
    <3>1. ends[k] = Len(res) /\ \A q \in 1..ends[k] : v[q] = res[q]
      BY <1>4, <2>1, <2>2 DEF RecursionInv, FramesInv, PendingAt
    <3>2. v = [q \in 1..SizeOf(trans) |-> v[q]] /\ res = [q \in 1..SizeOf(trans) |-> res[q]]
      BY <1>5, <1>10 DEF WorkPlan, IsInterleaving
    <3>3. v = res
      BY <1>1, <3>1, <3>2
    <3>4. PICK r : r = res
      OBVIOUS
    <3>5. Judged(r)' <=> Judged(res)'
      BY <1>1, <3>4 DEF Judged
    <3>6. v = r
      BY <3>3, <3>4
    <3>7. QED
      BY <1>7, <3>5, <3>6
  <2>3. CASE k # Len(stack)
    <3>1. PendingAt(ends, v, k)'
      BY <1>1, <1>9, <2>1, <2>3 DEF PendingAt
    <3>2. QED
      BY <1>1, <3>1 DEF Pending
  <2>4. QED
    BY <2>2, <2>3
<1>11. RecursionInv(ends)'
  BY <1>4, <1>7, <1>8, <1>9, <1>10 DEF RecursionInv
<1>12. WorkInv'
  BY <1>1, <1>8, <1>11 DEF WorkInv
<1>13. DoneInv'
  <2>1. \A i \in DOMAIN tried :
          (AtWork /\ i = Len(tried)) \/ \A v : IsInterleaving(v, tried[i][1], tried[i][2]) => Judged(v)
    BY <1>3 DEF PlanInv, DoneInv
  <2>2. QED
    BY <1>2, <1>7, <1>9, <2>1 DEF DoneInv
<1>14. PairsInv' /\ IdleInv'
  BY <1>1, PairsKept DEF PlanInv, IdleInv
<1>15. QED
  BY <1>7, <1>9, <1>12, <1>13, <1>14 DEF PlanInv

(* The first call of a pair has all its interleavings before it.            *)
LEMMA StartPairKeeps == ASSUME PlanInv, StartPair, PairsInv' PROVE PlanInv'
<1>1. PICK p \in res_set : \E c \in PairColours(list, p, var_table) :
        /\ trans' = p /\ tried' = Append(tried, <<p, c>>)
        /\ signal_list' = [signal_list EXCEPT ![p[1]] = c[1], ![p[2]] = c[2]]
  BY DEF StartPair
<1>2. PICK c \in PairColours(list, p, var_table) :
        /\ trans' = p /\ tried' = Append(tried, <<p, c>>)
        /\ signal_list' = [signal_list EXCEPT ![p[1]] = c[1], ![p[2]] = c[2]]
  BY <1>1
<1>3. /\ at = "pairs" /\ at' = "call" /\ record' = record /\ var_table' = var_table /\ close_map' = close_map
      /\ list' = list /\ loc' = loc /\ res' = res /\ stack' = stack /\ item' = item
      /\ final_list' = final_list /\ mem_cksum' = mem_cksum
  BY DEF StartPair, input, result, list
<1>4. /\ res = <<>> /\ stack = <<>> /\ loc = [t \in ThreadsOf(record) |-> 0]
      /\ DOMAIN signal_list = ThreadsOf(record)
  BY <1>3 DEF PlanInv, IdleInv
<1>5. RecordInv /\ ArePair(p)
  <2>1. RecordInv
    BY RecordIsOne DEF PlanInv
  <2>2. QED
    BY <2>1, TriedArePairs DEF PlanInv
<1>6. /\ Generating /\ Generating' /\ ~AtWork /\ AtWork'
  BY <1>3 DEF Generating, AtWork
<1>7. /\ Len(tried') \in Nat /\ Len(tried') = Len(tried) + 1 /\ tried' # <<>>
      /\ tried'[Len(tried')] = <<p, c>>
      /\ \A i \in DOMAIN tried : i \in DOMAIN tried' /\ tried'[i] = tried[i]
      /\ \A i \in DOMAIN tried' : i \in DOMAIN tried \/ i = Len(tried')
  <2>1. PICK S : tried \in Seq(S)
    BY DEF PlanInv, PairsInv
  <2>2. Len(tried) \in Nat /\ DOMAIN tried = 1..Len(tried)
    BY <2>1
  <2>3. /\ Len(tried') = Len(tried) + 1 /\ DOMAIN tried' = 1..Len(tried) + 1
        /\ tried'[Len(tried) + 1] = <<p, c>> /\ \A i \in 1..Len(tried) : tried'[i] = tried[i]
    BY <1>2, <2>1
  <2>4. tried' # <<>>
    BY <2>2, <2>3
  <2>5. QED
    BY <2>2, <2>3, <2>4
<1>8. Threads' = {p[1], p[2]} /\ Colours' = c
  BY <1>2, <1>7 DEF Threads, Colours
<1>9. \A v, q, d : IsInterleaving(v, q, d)' <=> IsInterleaving(v, q, d)
  BY <1>3 DEF IsInterleaving, SizeOf
<1>10. PairAtWork'
  <2>1. p[1] \in ThreadsOf(record) /\ p[2] \in ThreadsOf(record) /\ p[1] # p[2]
    BY <1>5 DEF ArePair
  <2>2. /\ DOMAIN signal_list' = ThreadsOf(record)
        /\ \A t \in {p[1], p[2]} : signal_list'[t] = ColourOf(p, c, t)
    BY <1>2, <1>4, <2>1 DEF ColourOf
  <2>3. loc' \in [ThreadsOf(record) -> Nat] /\ \A t \in ThreadsOf(record) : loc'[t] = 0
    BY <1>3, <1>4
  <2>4. trans' = p /\ ArePair(trans)'
    BY <1>2, <1>3, <1>5 DEF ArePair
  <2>5. tried' # <<>> /\ tried'[Len(tried')][1] = p
    BY <1>7
  <2>6. \A t \in Threads' : signal_list'[t] = ColourOf(trans', Colours', t)
    BY <1>8, <2>2, <2>4
  <2>7. QED
    BY <1>3, <2>2, <2>3, <2>4, <2>5, <2>6 DEF PairAtWork
<1>11. BuiltInv'
  <2>1. res' = <<>> /\ Len(res') = 0 /\ res' \in Seq(ThreadsOf(record) \X DOMAIN var_table)
    BY <1>3, <1>4
  <2>2. \A q \in 1..Len(res') : FALSE
    BY <2>1
  <2>3. Follows(res)'
    BY <1>3, <2>1, <2>2 DEF Follows
  <2>4. ASSUME NEW t \in {p[1], p[2]} PROVE loc'[t] = Times(res', t, 0) /\ loc'[t] <= Len(list[t])
    <3>1. t \in ThreadsOf(record)
      BY <1>5, <2>4 DEF ArePair
    <3>2. loc'[t] = 0 /\ Len(list[t]) \in Nat
      BY <1>3, <1>4, <1>5, <3>1 DEF RecordInv
    <3>3. QED
      BY <3>2, TimesOfNone
  <2>5. QED
    BY <1>3, <1>8, <2>1, <2>3, <2>4 DEF BuiltInv
<1>12. PICK ends : ends = [k \in 0..0 |-> 0]
  OBVIOUS
<1>13. FramesInv(ends)'
  <2>1. /\ stack' = <<>> /\ Len(stack') = 0 /\ stack' \in Seq((1..2) \X (Nat \ {0}))
        /\ res' = <<>> /\ Len(res') = 0
    BY <1>3, <1>4
  <2>2. ends \in [0..0 -> Nat] /\ ends[0] = 0 /\ \A k \in 0..0 : k = 0
    BY <1>12
  <2>3. \A k \in 1..0 : FALSE
    OBVIOUS
  <2>4. \A t : Boundary(t, 0)'
    BY DEF Boundary
  <2>5. \A t : Times(res', t, 0) = 0
    BY TimesOfNone
  <2>6. QED
    BY <2>1, <2>2, <2>3, <2>4, <2>5 DEF FramesInv
<1>14. ASSUME NEW v PROVE Pending(ends, v)'
  <2>1. Len(stack') = 0 /\ 0 \in 0..0
    BY <1>3, <1>4
  <2>2. ends[0] = 0 /\ \A q \in 1..0 : FALSE
    BY <1>12
  <2>3. Ahead(v, ends[0])'
    BY <1>3 DEF Ahead
  <2>4. PendingAt(ends, v, 0)'
    BY <2>1, <2>2, <2>3 DEF PendingAt
  <2>5. QED
    BY <2>1, <2>4 DEF Pending
<1>15. WorkInv'
  <2>1. RecursionInv(ends)'
    BY <1>13, <1>14 DEF RecursionInv
  <2>2. QED
    BY <1>3, <1>10, <1>11, <2>1 DEF WorkInv
<1>16. KeptInv'
  <2>1. AllInterleavings \subseteq AllInterleavings'
    <3>1. \A q, d : Interleavings(q, d)' = Interleavings(q, d)
      BY <1>3 DEF Interleavings
    <3>2. QED
      BY <1>7, <3>1 DEF AllInterleavings
  <2>2. /\ final_list \in Seq(AllInterleavings)
        /\ \A i \in 1..Len(final_list) : ~HasUnallowedSituation(final_list[i])
        /\ mem_cksum = UNION {WindowsOf(final_list[i]) : i \in 1..Len(final_list)}
    BY <1>6 DEF PlanInv, KeptInv
  <2>3. final_list \in Seq(AllInterleavings')
    BY <2>1, <2>2, SeqGrows
  <2>4. \A v : HasUnallowedSituation(v)' <=> HasUnallowedSituation(v)
    BY <1>3 DEF HasUnallowedSituation
  <2>5. QED
    BY <1>3, <2>2, <2>3, <2>4 DEF KeptInv
<1>17. DoneInv'
  <2>1. \A v : Judged(v)' <=> Judged(v)
    BY <1>3 DEF Judged, HasUnallowedSituation
  <2>2. \A i \in DOMAIN tried : \A v : IsInterleaving(v, tried[i][1], tried[i][2]) => Judged(v)
    BY <1>6 DEF PlanInv, DoneInv
  <2>3. QED
    BY <1>6, <1>7, <1>9, <2>1, <2>2 DEF DoneInv
<1>18. QED
  BY <1>3, <1>15, <1>16, <1>17 DEF PlanInv, IdleInv

(* When the first call returns, no interleaving is before it.               *)
LEMMA FinishPairKeeps == ASSUME PlanInv, FinishPair, PairsInv' PROVE PlanInv'
<1>1. /\ at = "back" /\ at' = "pairs" /\ stack = <<>> /\ stack' = stack
      /\ record' = record /\ var_table' = var_table /\ close_map' = close_map
      /\ list' = list /\ loc' = loc /\ res' = res /\ tried' = tried
      /\ final_list' = final_list /\ mem_cksum' = mem_cksum
      /\ signal_list' = [t \in ThreadsOf(record) |-> ColourFirst(list, t, var_table)]
  BY DEF FinishPair, input, result, list
<1>2. AtWork /\ Generating /\ Generating' /\ ~AtWork'
  BY <1>1 DEF AtWork, Generating
<1>3. RecordInv /\ PairAtWork /\ BuiltInv
  BY <1>2, AtWorkFacts
<1>4. PICK ends : RecursionInv(ends)
  BY <1>2, AtWorkFacts
<1>5. Len(stack) = 0
  BY <1>1
<1>6. res = <<>>
  <2>1. ends[0] = 0 /\ ends[0] = Len(res)
    BY <1>4, <1>5 DEF RecursionInv, FramesInv
  <2>2. QED
    BY <1>3, <2>1, ResNumbers, EmptySeq
<1>7. loc = [t \in ThreadsOf(record) |-> 0]
  <2>1. loc \in [ThreadsOf(record) -> Nat] /\ \A t \in ThreadsOf(record) \ Threads : loc[t] = 0
    BY <1>3 DEF PairAtWork
  <2>2. \A t \in Threads : loc[t] = 0
    BY <1>3, <1>6, TimesOfNone DEF BuiltInv
  <2>3. QED
    BY <2>1, <2>2
<1>8. IdleInv'
  BY <1>1, <1>6, <1>7 DEF IdleInv
<1>9. \A v : WorkPlan(v) => Judged(v)
  <2>1. ASSUME NEW v, Pending(ends, v) PROVE FALSE
    <3>1. PICK k \in 0..Len(stack) : PendingAt(ends, v, k)
      BY <2>1 DEF Pending
    <3>2. k = Len(stack)
      BY <1>5
    <3>3. QED
      BY <1>1, <3>1, <3>2 DEF PendingAt, Ahead
  <2>2. QED
    BY <1>4, <2>1 DEF RecursionInv
<1>10. /\ \A v : Judged(v)' <=> Judged(v)
       /\ \A v : HasUnallowedSituation(v)' <=> HasUnallowedSituation(v)
  BY <1>1 DEF Judged, HasUnallowedSituation
<1>11. DoneInv'
  <2>1. \A v, q, d : IsInterleaving(v, q, d)' <=> IsInterleaving(v, q, d)
    BY <1>1 DEF IsInterleaving, SizeOf
  <2>2. \A v : IsInterleaving(v, tried[Len(tried)][1], tried[Len(tried)][2]) => Judged(v)
    BY <1>3, <1>9 DEF WorkPlan, Colours, PairAtWork
  <2>3. \A i \in DOMAIN tried :
          (i = Len(tried)) \/ \A v : IsInterleaving(v, tried[i][1], tried[i][2]) => Judged(v)
    BY <1>2 DEF PlanInv, DoneInv
  <2>4. QED
    BY <1>1, <1>10, <2>1, <2>2, <2>3 DEF DoneInv
<1>12. KeptInv'
  <2>1. AllInterleavings' = AllInterleavings
    BY <1>1 DEF AllInterleavings, Interleavings
  <2>2. QED
    BY <1>1, <1>2, <1>10, <2>1 DEF PlanInv, KeptInv
<1>13. WorkInv'
  BY <1>2 DEF WorkInv
<1>14. QED
  BY <1>1, <1>8, <1>11, <1>12, <1>13 DEF PlanInv

LEMMA HandOverKeeps == ASSUME PlanInv, HandOver PROVE PlanInv'
<1>1. /\ at = "pairs" /\ at' \in {"aborted", "done"}
      /\ UNCHANGED <<input, session, result>>
  BY DEF HandOver
<1>2. /\ tried' = tried /\ AllInterleavings' = AllInterleavings /\ var_table' = var_table
      /\ \A v : HasUnallowedSituation(v)' <=> HasUnallowedSituation(v)
      /\ \A v, p, c : IsInterleaving(v, p, c)' <=> IsInterleaving(v, p, c)
  BY <1>1, SameWork
<1>3. mem_cksum' = mem_cksum /\ final_list' = final_list
  BY <1>1 DEF result
<1>4. Generating /\ Generating' /\ ~AtWork /\ ~AtWork' /\ at' # "pairs"
  BY <1>1 DEF Generating, AtWork
<1>5. KeptInv'
  BY <1>2, <1>3, <1>4 DEF PlanInv, KeptInv
<1>6. DoneInv'
  BY <1>2, <1>3, <1>4 DEF PlanInv, DoneInv, Judged
<1>7. PairsInv'
  BY <1>1, PairsKept DEF PlanInv
<1>8. QED
  BY <1>2, <1>4, <1>5, <1>6, <1>7 DEF PlanInv, IdleInv, WorkInv

(* The runs under plans leave what is generated behind.                     *)
LEMMA RunsKeep ==
  ASSUME PlanInv, PairsInv', var_table' = var_table, at' \in {"running", "over", "stopped"}
  PROVE  PlanInv'
<1>1. ~Generating' /\ ~AtWork' /\ at' # "pairs"
  BY DEF Generating, AtWork
<1>2. QED
  BY <1>1 DEF PlanInv, IdleInv, WorkInv, KeptInv, DoneInv

(* A session begins with nothing.                                           *)
LEMMA SessionStarts ==
  ASSUME PairsInv, var_table \in VarTables, at = "pairs", res = <<>>, stack = <<>>,
         loc = [t \in ThreadsOf(record) |-> 0],
         signal_list = [t \in ThreadsOf(record) |-> ColourFirst(list, t, var_table)],
         tried = <<>>, mem_cksum = {}, final_list = <<>>
  PROVE  PlanInv
<1>1. ~AtWork
  BY DEF AtWork
<1>2. DOMAIN tried = {} /\ Len(final_list) = 0 /\ final_list \in Seq(AllInterleavings)
  OBVIOUS
<1>3. 1..0 = {}
  OBVIOUS
<1>4. KeptInv
  BY <1>2, <1>3 DEF KeptInv
<1>5. QED
  BY <1>1, <1>2, <1>4 DEF PlanInv, IdleInv, WorkInv, DoneInv

LEMMA PlanStart == SessionInit => PlanInv
<1> SUFFICES ASSUME SessionInit PROVE PlanInv
  OBVIOUS
<1>1. /\ var_table \in VarTables /\ at = "pairs" /\ res = <<>> /\ stack = <<>>
      /\ loc = [t \in ThreadsOf(record) |-> 0]
      /\ signal_list = [t \in ThreadsOf(record) |-> ColourFirst(list, t, var_table)]
      /\ tried = <<>> /\ mem_cksum = {} /\ final_list = <<>>
  BY DEF SessionInit, Init
<1>2. PairsInv
  BY PairsStart
<1>3. QED
  BY <1>1, <1>2, SessionStarts

LEMMA NextSessionKeeps == ASSUME PlanInv, NextSession, PairsInv' PROVE PlanInv'
<1>1. /\ at' = "pairs" /\ res' = <<>> /\ stack' = <<>> /\ tried' = <<>> /\ mem_cksum' = {} /\ final_list' = <<>>
      /\ loc' = [t \in ThreadsOf(record') |-> 0] /\ var_table' = var_table
      /\ signal_list' = [t \in ThreadsOf(record') |-> ColourFirst(record'.actions, t, var_table)]
  BY DEF NextSession
<1>2. ~AtWork' /\ Generating'
  BY <1>1 DEF AtWork, Generating
<1>3. DOMAIN tried' = {} /\ Len(final_list') = 0 /\ final_list' \in Seq(AllInterleavings')
  BY <1>1
<1>4. 1..0 = {}
  OBVIOUS
<1>5. KeptInv'
  BY <1>1, <1>3, <1>4 DEF KeptInv
<1>6. IdleInv'
  BY <1>1 DEF IdleInv, list
<1>7. DoneInv'
  BY <1>3 DEF DoneInv
<1>8. QED
  BY <1>1, <1>2, <1>5, <1>6, <1>7 DEF PlanInv, WorkInv

LEMMA PlanStep == ASSUME PlanInv, [Next]_vars PROVE PlanInv'
<1>1. PairsInv'
  BY PairsStep DEF PlanInv
<1>2. CASE UNCHANGED vars
  <2>1. UNCHANGED <<input, session, loc, res, stack, item, result>> /\ at' = at
    BY <1>2 DEF vars, genVars
  <2>2. CASE AtWork
    <3>1. AtWork' /\ UNCHANGED <<input, session, result>> /\ UNCHANGED <<input, session, loc, res, stack>>
      BY <2>1, <2>2 DEF AtWork
    <3>2. IdleInv' /\ KeptInv' /\ DoneInv' /\ \A v : Judged(v)' <=> Judged(v)
      BY <2>2, <3>1, WithinKeeps
    <3>3. PairAtWork' /\ BuiltInv' /\ \A ends : FramesInv(ends)' <=> FramesInv(ends)
      BY <2>2, <3>1, SamePlace
    <3>4. /\ SizeOf(trans)' = SizeOf(trans) /\ trans' = trans /\ var_table' = var_table
          /\ \A v : WorkPlan(v)' <=> WorkPlan(v)
      BY <3>1, SameWork
    <3>5. PICK ends : RecursionInv(ends)
      BY <2>2, AtWorkFacts
    <3>6. ASSUME NEW v, Pending(ends, v) PROVE Pending(ends, v)'
      BY <2>1, <3>4, <3>6 DEF Pending, PendingAt, Ahead
    <3>7. RecursionInv(ends)'
      BY <3>2, <3>3, <3>4, <3>5, <3>6 DEF RecursionInv
    <3>8. at = "loop" => item \in 1..3 /\ Len(res) < SizeOf(trans)
      BY <2>2, AtWorkFacts
    <3>9. WorkInv'
      BY <2>1, <3>3, <3>4, <3>7, <3>8 DEF WorkInv
    <3>10. QED
      BY <1>1, <3>2, <3>4, <3>9 DEF PlanInv
  <2>3. CASE ~AtWork
    <3>1. /\ tried' = tried /\ AllInterleavings' = AllInterleavings /\ var_table' = var_table
          /\ record' = record /\ list' = list /\ signal_list' = signal_list
          /\ \A v : HasUnallowedSituation(v)' <=> HasUnallowedSituation(v)
          /\ \A v, p, c : IsInterleaving(v, p, c)' <=> IsInterleaving(v, p, c)
      BY <2>1, SameWork
    <3>2. mem_cksum' = mem_cksum /\ final_list' = final_list
      BY <2>1 DEF result
    <3>3. ~AtWork' /\ (Generating' <=> Generating)
      BY <2>1, <2>3 DEF AtWork, Generating
    <3>4. KeptInv'
      BY <3>1, <3>2, <3>3 DEF PlanInv, KeptInv
    <3>5. DoneInv'
      BY <2>3, <3>1, <3>2, <3>3 DEF PlanInv, DoneInv, Judged
    <3>6. IdleInv'
      BY <2>1, <3>1 DEF PlanInv, IdleInv
    <3>7. QED
      BY <1>1, <3>1, <3>3, <3>4, <3>5, <3>6 DEF PlanInv, WorkInv
  <2>4. QED
    BY <2>2, <2>3
<1>3. CASE GeneratePlans
  <2>1. CASE StartPair
    BY <1>1, <2>1, StartPairKeeps
  <2>2. CASE FinishPair
    BY <1>1, <2>2, FinishPairKeeps
  <2>3. CASE HandOver
    BY <2>3, HandOverKeeps
  <2>4. CASE Complete
    BY <2>4, CompleteKeeps
  <2>5. CASE Descend
    BY <2>5, DescendKeeps
  <2>6. CASE IntoSequence
    BY <2>6, IntoSequenceKeeps
  <2>7. CASE NothingLeft
    BY <2>7, NothingLeftKeeps
  <2>8. CASE LoopEnds
    BY <2>8, LoopEndsKeeps
  <2>9. CASE Return
    BY <2>9, ReturnKeeps
  <2>10. QED
    BY <1>3, <2>1, <2>2, <2>3, <2>4, <2>5, <2>6, <2>7, <2>8, <2>9 DEF GeneratePlans, Generate
<1>4. CASE RunPlan \/ RunFails \/ RunHasOtherSize \/ SessionEnds
  <2>1. var_table' = var_table /\ at' \in {"running", "over", "stopped"}
    BY <1>4 DEF RunPlan, RunFails, RunHasOtherSize, SessionEnds, input
  <2>2. QED
    BY <1>1, <2>1, RunsKeep
<1>5. CASE NextSession
  BY <1>1, <1>5, NextSessionKeeps
<1>6. CASE Ended
  BY <1>2, <1>6 DEF Ended
<1>7. QED
  BY <1>2, <1>3, <1>4, <1>5, <1>6 DEF Next

(* The recursion, the windows and the plans fit together.                   *)
THEOREM PlanCorrect == Spec => []PlanInv
<1>1. PlanInv /\ [Next]_vars => PlanInv'
  BY PlanStep
<1>2. QED
  BY <1>1, PlanStart, PTL DEF Spec

(* Pruning by windows already known and backtracking lose nothing: for any  *)
(* records, colours and closed situations the plans that are kept show all  *)
(* windows of all interleavings that are allowed.                           *)
THEOREM EveryWindowAlwaysPlanned == Spec => []EveryWindowPlanned
<1>1. ASSUME PlanInv PROVE EveryWindowPlanned
  <2> SUFFICES ASSUME Over PROVE EveryWindowPlanned
    BY DEF EveryWindowPlanned
  <2>1. Generating /\ ~AtWork
    BY DEF Over, Generating, AtWork
  <2>2. RecordInv
    BY <1>1, RecordIsOne DEF PlanInv
  <2>3. \A i \in DOMAIN tried : ArePair(tried[i][1])
    BY <1>1, <2>2, TriedArePairs DEF PlanInv
  <2>4. ASSUME NEW v \in AllInterleavings PROVE HasUnallowedSituation(v) \/ WindowsOf(v) \subseteq mem_cksum
    <3>1. PICK i \in DOMAIN tried : v \in Interleavings(tried[i][1], tried[i][2])
      BY <2>4 DEF AllInterleavings
    <3>2. IsInterleaving(v, tried[i][1], tried[i][2])
      BY <2>2, <2>3, <3>1, InterleavingsAre
    <3>3. Judged(v)
      BY <1>1, <2>1, <3>2 DEF PlanInv, DoneInv
    <3>4. QED
      BY <3>3 DEF Judged
  <2> DEFINE kept == {final_list[i] : i \in 1..Len(final_list)}
             allowed == {v \in AllInterleavings : ~HasUnallowedSituation(v)}
  <2>5. /\ \A i \in 1..Len(final_list) : final_list[i] \in allowed
        /\ mem_cksum = UNION {WindowsOf(final_list[i]) : i \in 1..Len(final_list)}
    <3>1. KeptInv
      BY <1>1 DEF PlanInv
    <3>2. /\ final_list \in Seq(AllInterleavings)
          /\ \A i \in 1..Len(final_list) : ~HasUnallowedSituation(final_list[i])
          /\ mem_cksum = UNION {WindowsOf(final_list[i]) : i \in 1..Len(final_list)}
      BY <2>1, <3>1 DEF KeptInv
    <3>3. \A i \in 1..Len(final_list) : final_list[i] \in AllInterleavings
      BY <3>2
    <3>4. QED
      BY <3>2, <3>3
  <2>6. kept \subseteq allowed
    BY <2>5
  <2>7. mem_cksum = UNION {WindowsOf(v) : v \in kept}
    BY <2>5
  <2>8. \A v \in allowed : WindowsOf(v) \subseteq mem_cksum
    BY <2>4
  <2>9. UNION {WindowsOf(v) : v \in allowed} = UNION {WindowsOf(v) : v \in kept}
    BY <2>6, <2>7, <2>8
  <2>10. QED
    BY <2>6, <2>9 DEF EveryWindowPlanned
<1>2. QED
  BY <1>1, PlanCorrect, PTL

(* The target can tell any two plans of a session apart by their threads    *)
(* and stop times.                                                          *)
THEOREM PlansAlwaysTellable == Spec => []PlansAreTellable
<1>1. ASSUME PlanInv PROVE PlansAreTellable
  <2> SUFFICES ASSUME Over, NEW i \in 1..Len(final_list), NEW j \in 1..Len(final_list),
                      EncodedPlan(final_list[i]) = EncodedPlan(final_list[j])
               PROVE  final_list[i] = final_list[j]
    BY DEF PlansAreTellable
  <2>1. Generating
    BY DEF Over, Generating
  <2>2. RecordInv
    BY <1>1, RecordIsOne DEF PlanInv
  <2>3. \A k \in DOMAIN tried : ArePair(tried[k][1])
    BY <1>1, <2>2, TriedArePairs DEF PlanInv
  <2>4. final_list[i] \in AllInterleavings /\ final_list[j] \in AllInterleavings
    <3>1. final_list \in Seq(AllInterleavings)
      BY <1>1, <2>1 DEF PlanInv, KeptInv
    <3>2. QED
      BY <3>1
  <2>5. PICK k \in DOMAIN tried : final_list[i] \in Interleavings(tried[k][1], tried[k][2])
    BY <2>4 DEF AllInterleavings
  <2>6. PICK l \in DOMAIN tried : final_list[j] \in Interleavings(tried[l][1], tried[l][2])
    BY <2>4 DEF AllInterleavings
  <2>7. /\ IsInterleaving(final_list[i], tried[k][1], tried[k][2]) /\ ArePair(tried[k][1])
        /\ IsInterleaving(final_list[j], tried[l][1], tried[l][2]) /\ ArePair(tried[l][1])
    BY <2>2, <2>3, <2>5, <2>6, InterleavingsAre
  <2>8. QED
    BY <2>2, <2>7, PlanIsTellable
<1>2. QED
  BY <1>1, PlanCorrect, PTL
=============================================================================
