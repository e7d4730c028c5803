----------------------------- MODULE MCPlanGen -----------------------------
EXTENDS PlanSession

Created(t) == <<"create", t>>
Joined(t) == <<"join", t>>

\* Number 1 is main.  Two workers that overlap, with lists l and m.
Two(l, m) ==
  [main |-> 1, zero |-> 1, actions |-> <<<<"m">>, l, m>>,
   log |-> <<Created(1), Created(2), Created(3), Joined(3), Joined(2), Joined(1)>>]

\* A third worker that begins when the first was joined.
Three(l, m, n) ==
  [main |-> 1, zero |-> 1, actions |-> <<<<"m", "a">>, l, m, n>>,
   log |-> <<Created(1), Created(2), Created(3), Joined(2), Created(4), Joined(4), Joined(3), Joined(1)>>]

\* Main joins the one worker before the other begins.
Apart(l, m) ==
  [main |-> 1, zero |-> 1, actions |-> <<<<"m">>, l, m>>,
   log |-> <<Created(1), Created(2), Joined(2), Created(3), Joined(3), Joined(1)>>]

\* Three workers that do one action each, in every order of creations and joins.
Orders ==
  {q \in SetToSeqs({"create", "join"} \X (2..4)) :
     \A t \in 2..4 : \E i \in 1..6 : \E j \in i + 1..6 : q[i] = Created(t) /\ q[j] = Joined(t)}

OrderRecords ==
  {[main |-> 1, zero |-> 1, actions |-> [t \in 1..4 |-> <<"a">>], log |-> <<Created(1)>> \o q \o <<Joined(1)>>] :
     q \in Orders}

\* Distinct actions, actions that both threads do, an action done twice.
MCRecords ==
  {Two(<<"a", "b", "c">>, <<"d", "e", "f">>), Two(<<"a", "b", "a">>, <<"a", "b">>),
   Two(<<"a", "a">>, <<"b", "b", "b">>),
   Three(<<"a", "b">>, <<"d", "e", "d">>, <<"b", "a">>),
   Three(<<"a", "b">>, <<"d", "a", "b">>, <<"c", "d">>),
   Apart(<<"a", "b">>, <<"b", "c">>)} \cup OrderRecords

\* Before a second session.
MCLaterRecords == {Two(<<"a", "b", "a">>, <<"a", "b">>)}

\* The hypothesis under which PairsLiveTogether is proved.
ASSUME MCRecordsOnceEach == \A r \in MCRecords \cup MCLaterRecords : OnceEach(r)

MCActions == {"a", "b", "c", "d", "e", "f", "m"}

\* All actions use x; some use y instead, or nothing.
MCVarTables ==
  {[a \in MCActions |-> {"x"}],
   [a \in MCActions |-> IF a \in {"b", "e"} THEN {"x", "y"} ELSE IF a \in {"c", "f"} THEN {"y"} ELSE {"x"}],
   [a \in MCActions |-> IF a = "a" THEN {} ELSE IF a = "e" THEN {"z"} ELSE {"x"}]}

MCClosedSets == {{}, {<<"a", "b", "a">>, <<"d", "b", "e">>}}

\* Two of the numbers are positions in a short plan.
MCNumber == [a \in MCActions |-> CASE a = "b" -> 1 [] a = "e" -> 2 [] a = "a" -> 0 [] OTHER -> 9]

MCGroupKeys == {"b", "d"}

\* Bounds small enough to be exceeded by lists of two and three actions, and
\* estimates that are exact for them.
MCSizes == [saturated |-> 50000, large |-> 15, both |-> 6, one |-> 3, keep |-> 3, plans |-> 10]

\* Sessions after a run whose workers were never there together, or that do too little.
EmptyRecords == {Apart(<<"a", "b">>, <<"b", "c">>), Two(<<"a">>, <<"b">>)}

\* The first worker to reach traceBegin's map takes slot 0.
FillRecords == {[Apart(<<"a", "b">>, <<"b", "c">>) EXCEPT !.zero = 2]}

\* The bounds of the code, and two lists that are long enough to need them.
CodeSizes == [saturated |-> 2000, large |-> 500, both |-> 15, one |-> 10, keep |-> 8, plans |-> 400]
LongRecords == {Two(<<"a", "b", "c", "a", "d", "b">>, <<"d", "e", "f", "d", "f", "e">>)}
=============================================================================
