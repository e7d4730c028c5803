--------------------------- MODULE RuntimeProofs ---------------------------
(***************************************************************************)
(* The invariants of Runtime for any number of threads and any programs    *)
(* that pthreads allow, whatever unlocked reads find and wherever main     *)
(* meets its first location.  There are two stages.  The invariant of the  *)
(* first says what each step of a registration has done: numbers are       *)
(* distinct and below the counter, but for a main that was looked up       *)
(* before it registered; a slot other than 0 names the owner of its number *)
(* or nobody; and where main is first and reads are right, the two that    *)
(* meet at the barrier are the two of the plan.  The second, about the     *)
(* log, is relative to it: a join is logged under the thread that          *)
(* registered first with the pthread_t, which has been opened; and of a    *)
(* thread with a pthread_t of its own, main is past the join, so it is not *)
(* closed twice and what traceEnd recovers was not joined.                 *)
(***************************************************************************)
EXTENDS Runtime, FiniteSetTheorems, SequenceTheorems, TLAPS

(* The threads whose creation is logged, and those whose join is.          *)
Opened == {t \in Threads : \E i \in DOMAIN thread_create_jion : thread_create_jion[i] = <<"create", t>>}
Closed == {t \in Threads : \E i \in DOMAIN thread_create_jion : thread_create_jion[i] = <<"join", t>>}

(* The steps of a registration after its entry, and the steps after it.    *)
Registering == {"number", "slot", "log"}
Inside == {"barrier", "spin", "eara", "string", "loc"}
AtStep == Registering \cup Inside \cup {"register", "join", "joined"}

(* Types of the program under test: where each thread is.                  *)
PlacesTyped ==
  /\ program \in Programs
  /\ pc \in [Threads -> Places]
  /\ ip \in [Threads -> Nat \ {0}]
  /\ self \in [Threads -> Threads]
  /\ process \in {"running", "ended", "fatal"}

(* Types of the maps of the library.                                       *)
MapsTyped ==
  /\ number \in [Threads -> Numbers \cup {Absent}]
  /\ tid_to_threadNumber \in [Threads -> Numbers \cup {Absent}]
  /\ thread_create_count \in Nat
  /\ main_create_number \in Numbers
  /\ tid_to_run \in Nat
  /\ thread_count_to_tid \in [Numbers -> Threads \cup {Absent}]
  /\ thread_set \subseteq Threads
  /\ threadSelf \in [Threads -> Threads \cup {Absent}]
  /\ thread_create_jion \in Seq({"create", "join"} \X Threads)

(* A thread stands at the location or join its step is about, and has      *)
(* registered once it is past a location; only main ends the run, and if   *)
(* its first step is a location, no other thread is born before it.        *)
CodeInv ==
  /\ \A t \in Threads :
       /\ ip[t] <= Len(Code[t]) + 1
       /\ pc[t] \in AtStep => ip[t] <= Len(Code[t])
       /\ pc[t] \in Registering \cup Inside \cup {"register"} => Code[t][ip[t]].op = "loc"
       /\ pc[t] \in {"join", "joined"} => Code[t][ip[t]].op = "join"
       /\ pc[t] \in {"ended", "closed"} => t = main
       /\ pc[t] \in {"done", "ended", "closed"} => ip[t] = Len(Code[t]) + 1
       /\ pc[t] = "joined" => Opened # {}
       /\ \A i \in 1..Len(Code[t]) : i < ip[t] /\ Code[t][i].op = "loc" => t \in Opened
       /\ MainRegistersFirst(program) /\ pc[t] # "unborn" /\ t # main => ip[main] > 1
  /\ pc[main] # "unborn"

(* A thread some create still ahead would make is not born.                *)
CreateInv ==
  \A t, u \in Threads : \A i \in 1..Len(Code[t]) :
    Code[t][i].op = "create" /\ Code[t][i].arg = u /\ i >= ip[t] => pc[u] = "unborn"

(* A pthread_t is named after a thread that is born, and threadSelf has    *)
(* under it a thread that had it and has registered.                       *)
SelfInv ==
  /\ \A t \in Threads : pc[t] = "unborn" => self[t] = t
  /\ \A t \in Threads : pc[t] # "unborn" => pc[self[t]] # "unborn"
  /\ \A h \in Threads : threadSelf[h] # Absent => threadSelf[h] \in Opened /\ self[threadSelf[h]] = h

(* At each step of a registration, what is done of it.                     *)
StageInv ==
  \A t \in Threads :
    /\ t \notin thread_set =>
         /\ t \notin Opened /\ (t # main => tid_to_threadNumber[t] = Absent)
         /\ pc[t] \notin Registering \cup Inside
    /\ pc[t] = "unborn" => t \notin thread_set
    /\ pc[t] = "number" /\ t # main => tid_to_threadNumber[t] = Absent
    /\ pc[t] = "slot" => tid_to_threadNumber[t] # Absent
    /\ pc[t] \in Registering => t \notin Opened
    /\ t \in thread_set /\ pc[t] \notin Registering => t \in Opened

(* The threads that have filled a slot.                                    *)
Filled == {t \in Threads : t \in Opened \/ pc[t] = "log"}

(* A slot other than 0 names the owner of its number or nobody, and nobody *)
(* only if the owner read its number wrong.  Slot 0 names a thread with    *)
(* number 0, if reads are right.                                           *)
SlotsInv ==
  /\ \A n \in Numbers \ {0} : \A t \in Threads : thread_count_to_tid[n] = t /\ t # Absent => tid_to_threadNumber[t] = n
  /\ ~program.racy => \A t \in Threads : thread_count_to_tid[0] = t /\ t # Absent => tid_to_threadNumber[t] = 0
  /\ \A t \in Filled :
       /\ tid_to_threadNumber[t] # Absent /\ number[t] # Absent
       /\ tid_to_threadNumber[t] # 0 =>
            \/ thread_count_to_tid[tid_to_threadNumber[t]] = t
            \/ program.racy /\ thread_count_to_tid[tid_to_threadNumber[t]] = Absent
       /\ ~program.racy /\ tid_to_threadNumber[t] = 0 =>
            \E u \in Threads : thread_count_to_tid[0] = u /\ tid_to_threadNumber[u] = 0
       /\ ~program.racy => number[t] = tid_to_threadNumber[t]

(* The threads that hold a number.                                         *)
Numbered == {t \in Threads : tid_to_threadNumber[t] # Absent}

(* Who may share a number: main, and number 0.                             *)
OnlyMainShares(t, u) == tid_to_threadNumber[t] = 0 /\ LooksUpMain(t, u)

(* Numbers are distinct, below the counter, and the counter counts them.   *)
NumbersInv ==
  /\ \A t \in Numbered : tid_to_threadNumber[t] < thread_create_count
  /\ \A t, u \in Numbered : tid_to_threadNumber[t] = tid_to_threadNumber[u] => t = u \/ OnlyMainShares(t, u)
  /\ MainRegistersFirst(program) /\ main \in Numbered => tid_to_threadNumber[main] = 0
  /\ MainRegistersFirst(program) => main_create_number = 0
  /\ thread_create_count <= Cardinality(Numbered) + (IF pc[main] \in {"ended", "closed"} THEN 1 ELSE 0)

(* The two threads of a plan meet at the barrier, when they register;      *)
(* Arrived holds those that came.                                          *)
Meets == Orderly /\ Ischedule /\ 0 \notin PlanThreads
Arrived == {t \in Threads : t \in Opened /\ pc[t] # "barrier" /\ number[t] \in PlanThreads}

(* tid_to_run counts those that arrived, and none of them is past the      *)
(* barrier while it is below two.                                          *)
BarrierInv ==
  Meets =>
    /\ tid_to_run \in 0..2
    /\ tid_to_run = 0 => Arrived = {}
    /\ tid_to_run = 1 => \E a \in Threads : Arrived = {a}
    /\ tid_to_run = 2 => \E a, b \in Threads : a # b /\ Arrived = {a, b}
    /\ tid_to_run < 2 => \A t \in Arrived : pc[t] = "spin"

(* The inductive invariant of the first stage.                             *)
RegistrationInv ==
  /\ PlacesTyped /\ MapsTyped /\ CodeInv /\ CreateInv /\ SelfInv
  /\ StageInv /\ SlotsInv /\ NumbersInv /\ BarrierInv

(* The threads whose lines the log must have in order, and those it must   *)
(* close once.                                                             *)
Answers(t) == t # main \/ MainMeetsLocation(program)
Sole(t) == Alone(t) /\ OnlyMainJoins(program)

(* A creation is logged once, a join is logged after the creation, and the *)
(* join of a sole thread once.                                             *)
LogInv ==
  /\ thread_create_jion \in Seq({"create", "join"} \X Threads)
  /\ \A t \in Threads : \A i, j \in DOMAIN thread_create_jion :
       thread_create_jion[i] = <<"create", t>> /\ thread_create_jion[j] = <<"create", t>> => i = j
  /\ \A t \in Threads : Answers(t) => \A i \in DOMAIN thread_create_jion :
       thread_create_jion[i] = <<"join", t>> => \E j \in 1..(i - 1) : thread_create_jion[j] = <<"create", t>>
  /\ \A t \in Threads : Sole(t) => \A i, j \in DOMAIN thread_create_jion :
       thread_create_jion[i] = <<"join", t>> /\ thread_create_jion[j] = <<"join", t>> => i = j

(* Main is past the join of a thread whose join is logged, unless the run  *)
(* is closed.                                                              *)
JoinedBefore(t) ==
  \/ pc[main] = "closed"
  \/ t = main /\ pc[main] = "ended"
  \/ t # main /\ \E i \in 1..Len(Code[main]) :
       /\ Code[main][i].op = "join" /\ Code[main][i].arg = t
       /\ i < ip[main] \/ (i = ip[main] /\ pc[main] = "joined")

(* The joins of sole threads that are logged.                              *)
JoinInv == \A t \in Closed : Sole(t) => JoinedBefore(t)

(* The invariant of the log, the second stage.                             *)
HistoryInv == LogInv /\ JoinInv

(* What LegalProgram says of the program that runs.                        *)
CodeLegal ==
  /\ \A t \in Threads : Len(Code[t]) \in Nat
  /\ \A t \in Threads : \A i \in 1..Len(Code[t]) :
       Code[t][i].op # "loc" => Code[t][i].arg \in Threads \ {main}
  /\ \A t, u \in Threads : \A i \in 1..Len(Code[t]), j \in 1..Len(Code[u]) :
       /\ Code[t][i].op = "create" /\ Code[u][j].op = "create"
       /\ Code[t][i].arg = Code[u][j].arg
       => t = u /\ i = j

(* Every program of Programs is legal.                                     *)
LEMMA ProgramIsLegal ==
  ASSUME program \in Programs
  PROVE  CodeLegal
BY SMTT(30), ProgramAssumption DEF LegalProgram, CodeLegal, Code

(* An unlocked read of a number that is there gives it or, where reads may *)
(* miss, 0; it leaves the map as it is.                                    *)
LEMMA NumberSeen ==
  ASSUME NEW t \in Threads, NEW k \in Threads, tid_to_threadNumber[k] # Absent
  PROVE  /\ SeenNumber(t, k) \subseteq {tid_to_threadNumber[k], 0}
         /\ ~program.racy => SeenNumber(t, k) = {tid_to_threadNumber[k]}
         /\ WithKey(k) = tid_to_threadNumber
BY DEF SeenNumber, WithKey

(* There is a number 0.                                                    *)
LEMMA ZeroIsNumber == 0 \in Numbers /\ Cardinality(Threads) \in Nat /\ Absent \notin Numbers
BY RuntimeAssumption, FS_CardinalityType DEF Numbers, Absent

(* Threads is finite, so are the numbered ones.                            *)
LEMMA NumberedIsFinite == IsFiniteSet(Numbered) /\ Cardinality(Numbered) \in Nat
<1>1. Numbered \in SUBSET Threads /\ IsFiniteSet(Threads)
  BY RuntimeAssumption DEF Numbered
<1>2. QED
  BY <1>1, FS_Subset, FS_CardinalityType

(* One line more in the log, position by position.                         *)
LEMMA LogAppended ==
  ASSUME thread_create_jion \in Seq({"create", "join"} \X Threads),
         NEW kind \in {"create", "join"}, NEW t \in Threads,
         thread_create_jion' = Append(thread_create_jion, <<kind, t>>)
  PROVE  LET n == Len(thread_create_jion)
         IN  /\ thread_create_jion' \in Seq({"create", "join"} \X Threads)
             /\ n \in Nat /\ DOMAIN thread_create_jion = 1..n /\ DOMAIN thread_create_jion' = 1..(n + 1)
             /\ \A i \in 1..n : thread_create_jion'[i] = thread_create_jion[i]
             /\ thread_create_jion'[n + 1] = <<kind, t>>
<1>1. <<kind, t>> \in {"create", "join"} \X Threads
  OBVIOUS
<1>2. QED
  BY <1>1, AppendProperties

(* One line more in the log, as sets of threads.                           *)
LEMMA LogGrows ==
  ASSUME thread_create_jion \in Seq({"create", "join"} \X Threads),
         NEW kind \in {"create", "join"}, NEW t \in Threads,
         thread_create_jion' = Append(thread_create_jion, <<kind, t>>)
  PROVE  /\ thread_create_jion' \in Seq({"create", "join"} \X Threads)
         /\ Opened' = IF kind = "create" THEN Opened \cup {t} ELSE Opened
         /\ Closed' = IF kind = "join" THEN Closed \cup {t} ELSE Closed
<1> DEFINE n == Len(thread_create_jion)
           Has(s, k, u) == \E i \in DOMAIN s : s[i] = <<k, u>>
<1>1. /\ thread_create_jion' \in Seq({"create", "join"} \X Threads)
      /\ n \in Nat /\ DOMAIN thread_create_jion = 1..n /\ DOMAIN thread_create_jion' = 1..(n + 1)
      /\ \A i \in 1..n : thread_create_jion'[i] = thread_create_jion[i]
      /\ thread_create_jion'[n + 1] = <<kind, t>>
  BY LogAppended
<1>2. 1..(n + 1) = 1..n \cup {n + 1}
  BY <1>1
<1>3. \A k, u : <<kind, t>> = <<k, u>> <=> k = kind /\ u = t
  OBVIOUS
<1> HIDE DEF n
<1>4. \A k, u : Has(thread_create_jion', k, u) <=> Has(thread_create_jion, k, u) \/ (k = kind /\ u = t)
  BY <1>1, <1>2, <1>3
<1>5. \A u \in Threads : /\ u \in Opened <=> Has(thread_create_jion, "create", u)
                         /\ u \in Opened' <=> Has(thread_create_jion', "create", u)
                         /\ u \in Closed <=> Has(thread_create_jion, "join", u)
                         /\ u \in Closed' <=> Has(thread_create_jion', "join", u)
  BY DEF Opened, Closed
<1>6. Opened \subseteq Threads /\ Opened' \subseteq Threads /\ Closed \subseteq Threads /\ Closed' \subseteq Threads
  BY DEF Opened, Closed
<1> HIDE DEF Has
<1>7. QED
  BY <1>1, <1>4, <1>5, <1>6

(* The joins traceEnd recovers, position by position.                      *)
LEMMA LogExtended ==
  ASSUME thread_create_jion \in Seq({"create", "join"} \X Threads),
         NEW n \in Nat, NEW missing \in [1..n -> Threads],
         thread_create_jion' = thread_create_jion \o [i \in DOMAIN missing |-> <<"join", missing[i]>>]
  PROVE  LET m == Len(thread_create_jion)
         IN  /\ thread_create_jion' \in Seq({"create", "join"} \X Threads)
             /\ m \in Nat /\ DOMAIN thread_create_jion = 1..m /\ DOMAIN thread_create_jion' = 1..(m + n)
             /\ \A i \in 1..m : thread_create_jion'[i] = thread_create_jion[i]
             /\ \A j \in 1..n : thread_create_jion'[m + j] = <<"join", missing[j]>>
             /\ \A i \in 1..(m + n) : i \in 1..m \/ \E j \in 1..n : i = m + j
<1> DEFINE S == {"create", "join"} \X Threads
           m == Len(thread_create_jion)
           joins == [i \in 1..n |-> <<"join", missing[i]>>]
<1>1. joins \in Seq(S) /\ Len(joins) = n
  OBVIOUS
<1>2. thread_create_jion' = thread_create_jion \o joins
  OBVIOUS
<1> HIDE DEF S, joins
<1>3. thread_create_jion \in Seq(S)
  BY DEF S
<1>4. thread_create_jion' \in Seq(S) /\ Len(thread_create_jion') = m + n
  BY <1>1, <1>2, <1>3, ConcatProperties
<1>5. /\ \A i \in 1..m : thread_create_jion'[i] = thread_create_jion[i]
      /\ \A j \in 1..n : thread_create_jion'[m + j] = joins[j]
  <2>1. m \in Nat /\ \A i \in 1..(m + n) :
          thread_create_jion'[i] = IF i <= m THEN thread_create_jion[i] ELSE joins[i - m]
    BY SMTT(30), <1>1, <1>2, <1>3, ConcatProperties
  <2>2. \A j \in 1..n : m + j \in 1..(m + n) /\ ~(m + j <= m) /\ (m + j) - m = j
    BY <2>1
  <2>3. \A i \in 1..m : i \in 1..(m + n) /\ i <= m
    BY <2>1
  <2>4. QED
    BY <2>1, <2>2, <2>3
<1>6. \A j \in 1..n : joins[j] = <<"join", missing[j]>>
  BY DEF joins
<1>7. DOMAIN thread_create_jion = 1..m /\ DOMAIN thread_create_jion' = 1..(m + n) /\ m \in Nat
  BY <1>3, <1>4
<1>8. ASSUME NEW i \in 1..(m + n), i \notin 1..m
      PROVE  \E j \in 1..n : i = m + j
  <2>1. i - m \in 1..n /\ i = m + (i - m)
    BY <1>7, <1>8
  <2>2. QED
    BY <2>1
<1> HIDE DEF m
<1>9. QED
  BY <1>4, <1>5, <1>6, <1>7, <1>8 DEF S, m

(* The joins traceEnd recovers, as sets of threads.                        *)
LEMMA LogIsCompleted ==
  ASSUME thread_create_jion \in Seq({"create", "join"} \X Threads),
         NEW n \in Nat, NEW missing \in [1..n -> Threads],
         thread_create_jion' = thread_create_jion \o [i \in DOMAIN missing |-> <<"join", missing[i]>>]
  PROVE  /\ thread_create_jion' \in Seq({"create", "join"} \X Threads)
         /\ Opened' = Opened
         /\ Closed' = Closed \cup {missing[j] : j \in 1..n}
<1> DEFINE m == Len(thread_create_jion)
<1>1. /\ thread_create_jion' \in Seq({"create", "join"} \X Threads)
      /\ m \in Nat /\ DOMAIN thread_create_jion = 1..m /\ DOMAIN thread_create_jion' = 1..(m + n)
      /\ \A i \in 1..m : thread_create_jion'[i] = thread_create_jion[i]
      /\ \A j \in 1..n : thread_create_jion'[m + j] = <<"join", missing[j]>>
      /\ \A i \in 1..(m + n) : i \in 1..m \/ \E j \in 1..n : i = m + j
  BY LogExtended
<1>2. 1..m \subseteq 1..(m + n) /\ \A j \in 1..n : m + j \in 1..(m + n)
  BY <1>1
<1> HIDE DEF m
<1>3. ASSUME NEW u \in Threads
      PROVE  /\ u \in Opened' <=> u \in Opened
             /\ u \in Closed' <=> u \in Closed \/ \E j \in 1..n : missing[j] = u
  <2>1. /\ u \in Opened <=> \E i \in 1..m : thread_create_jion[i] = <<"create", u>>
        /\ u \in Closed <=> \E i \in 1..m : thread_create_jion[i] = <<"join", u>>
    BY <1>1 DEF Opened, Closed
  <2>2. /\ u \in Opened' <=> \E i \in 1..(m + n) : thread_create_jion'[i] = <<"create", u>>
        /\ u \in Closed' <=> \E i \in 1..(m + n) : thread_create_jion'[i] = <<"join", u>>
    BY <1>1 DEF Opened, Closed
  <2>3. \A j \in 1..n : /\ thread_create_jion'[m + j] # <<"create", u>>
                        /\ thread_create_jion'[m + j] = <<"join", u>> <=> missing[j] = u
    <3>1. \A v : <<"join", v>> # <<"create", u>> /\ (<<"join", v>> = <<"join", u>> <=> v = u)
      OBVIOUS
    <3>2. QED
      BY <1>1, <3>1
  <2>4. u \in Opened' <=> u \in Opened
    BY <1>1, <1>2, <2>1, <2>2, <2>3
  <2>5. u \in Closed' <=> u \in Closed \/ \E j \in 1..n : missing[j] = u
    BY <1>1, <1>2, <2>1, <2>2, <2>3
  <2>6. QED
    BY <2>4, <2>5
<1>4. Opened \subseteq Threads /\ Opened' \subseteq Threads /\ Closed \subseteq Threads /\ Closed' \subseteq Threads
  BY DEF Opened, Closed
<1>5. QED
  BY ZenonT(60), <1>1, <1>3, <1>4

(* A step that lets nobody arrive and nobody past the barrier keeps        *)
(* BarrierInv.                                                             *)
LEMMA BarrierKept ==
  ASSUME BarrierInv, UNCHANGED <<program, tid_to_run>>,
         Meets => Arrived' = Arrived,
         Meets /\ tid_to_run < 2 => \A t \in Arrived : pc[t] = "spin" => pc'[t] = "spin"
  PROVE  BarrierInv'
<1>1. Meets' = Meets
  BY DEF Meets, Orderly, Ischedule
<1>2. QED
  BY <1>1 DEF BarrierInv

(* A plan names at most two threads.                                       *)
LEMMA TwoPlanThreads == \E x, y : PlanThreads = {x, y}
<1>1. IsFiniteSet(PlanThreads) /\ Cardinality(PlanThreads) = 2
  BY RuntimeAssumption
<1>2. PICK x : x \in PlanThreads
  BY <1>1, FS_EmptySet
<1>3. IsFiniteSet(PlanThreads \ {x}) /\ Cardinality(PlanThreads \ {x}) = 1
  BY <1>1, <1>2, FS_RemoveElement
<1>4. PICK y : y \in PlanThreads \ {x}
  BY <1>3, FS_EmptySet
<1>5. IsFiniteSet((PlanThreads \ {x}) \ {y}) /\ Cardinality((PlanThreads \ {x}) \ {y}) = 0
  BY <1>3, <1>4, FS_RemoveElement
<1>6. (PlanThreads \ {x}) \ {y} = {}
  BY <1>5, FS_EmptySet
<1>7. PlanThreads = {x, y}
  BY <1>2, <1>4, <1>6
<1>8. QED
  BY <1>7

(* When two have arrived, they are the owners of the plan's two numbers: a *)
(* third would share its number with one of them.                          *)
LEMMA OnlyTwoArrive ==
  ASSUME SlotsInv, NumbersInv, BarrierInv, Meets, tid_to_run = 2
  PROVE  /\ \A t \in Threads : t \in Opened /\ number[t] \in PlanThreads => t \in Arrived
         /\ \A n \in PlanThreads : \E u \in Arrived : number[u] = n
<1>1. PICK a \in Threads, b \in Threads : a # b /\ Arrived = {a, b}
  BY DEF BarrierInv
<1>2. \A t \in Opened : t \in Numbered /\ number[t] = tid_to_threadNumber[t]
  BY DEF SlotsInv, Filled, Numbered, Opened, Meets, Orderly
<1>3. /\ a \in Opened /\ b \in Opened /\ number[a] \in PlanThreads /\ number[b] \in PlanThreads
  BY <1>1 DEF Arrived
<1>4. \A t, u \in Numbered : tid_to_threadNumber[t] = tid_to_threadNumber[u] => t = u
  BY DEF NumbersInv, OnlyMainShares, LooksUpMain, Meets, Orderly
<1>5. number[a] # number[b]
  BY <1>1, <1>2, <1>3, <1>4
<1>6. PICK x, y : PlanThreads = {x, y}
  BY TwoPlanThreads
<1>7. PlanThreads = {number[a], number[b]}
  BY <1>3, <1>5, <1>6
<1>8. ASSUME NEW t \in Threads, t \in Opened, number[t] \in PlanThreads PROVE t \in {a, b}
  BY <1>2, <1>3, <1>4, <1>7, <1>8
<1>9. QED
  BY <1>1, <1>7, <1>8

(* A look at main by a thread that has registered gives main the number 0  *)
(* if it had none, and changes no other number.  Main has one already if   *)
(* it registers first.                                                     *)
LEMMA MainLookedUp ==
  ASSUME RegistrationInv, NEW t \in Threads, MainRegistersFirst(program) => t # main \/ ip[main] > 1,
         pc[t] # "unborn", Opened # {},
         tid_to_threadNumber' = WithKey(main)
  PROVE  /\ tid_to_threadNumber' \in [Threads -> Numbers \cup {Absent}]
         /\ \A u \in Numbered : tid_to_threadNumber'[u] = tid_to_threadNumber[u]
         /\ \A u \in Threads \ {main} : tid_to_threadNumber'[u] = tid_to_threadNumber[u]
         /\ tid_to_threadNumber'[main] # Absent
         /\ main \notin Numbered => tid_to_threadNumber'[main] = 0 /\ ~MainRegistersFirst(program)
         /\ Numbered' = Numbered \cup {main}
         /\ thread_create_count > 0
<1> USE DEF RegistrationInv
<1>1. main \in Threads /\ 0 \in Numbers /\ 0 # Absent
  BY ZeroIsNumber, RuntimeAssumption
<1>2. MainRegistersFirst(program) => main \in Opened
  <2>1. SUFFICES ASSUME MainRegistersFirst(program) PROVE main \in Opened
    OBVIOUS
  <2>2. ip[main] > 1
    BY <2>1 DEF CodeInv
  <2>3. CodeLegal
    BY ProgramIsLegal DEF PlacesTyped
  <2>4. 1 \in 1..Len(Code[main]) /\ Code[main][1].op = "loc"
    BY <1>1, <2>1, <2>3 DEF MainRegistersFirst, CodeLegal, Code
  <2>5. QED
    BY <1>1, <2>2, <2>4 DEF CodeInv
<1>3. Opened \subseteq Numbered
  BY DEF SlotsInv, Filled, Numbered, Opened
<1>4. thread_create_count > 0
  <2>1. PICK u \in Numbered : tid_to_threadNumber[u] < thread_create_count
    BY <1>3 DEF NumbersInv
  <2>2. tid_to_threadNumber[u] \in Nat
    BY <2>1 DEF Numbered, MapsTyped, Numbers
  <2>3. QED
    BY <2>1, <2>2 DEF MapsTyped
<1>5. tid_to_threadNumber' = IF main \in Numbered THEN tid_to_threadNumber ELSE [tid_to_threadNumber EXCEPT ![main] = 0]
  BY <1>1 DEF WithKey, Numbered
<1>6. /\ tid_to_threadNumber' \in [Threads -> Numbers \cup {Absent}]
      /\ \A u \in Numbered : tid_to_threadNumber'[u] = tid_to_threadNumber[u]
      /\ \A u \in Threads \ {main} : tid_to_threadNumber'[u] = tid_to_threadNumber[u]
      /\ tid_to_threadNumber'[main] # Absent
      /\ main \notin Numbered => tid_to_threadNumber'[main] = 0
  BY <1>1, <1>5 DEF MapsTyped, Numbered
<1>7. Numbered' = Numbered \cup {main}
  BY <1>1, <1>6 DEF Numbered
<1>8. main \notin Numbered => ~MainRegistersFirst(program)
  BY <1>2, <1>3
<1>9. QED
  BY <1>4, <1>6, <1>7, <1>8

(* Such a look keeps slots and numbers.                                    *)
LEMMA LookKeepsSlots ==
  ASSUME RegistrationInv, NEW t \in Threads, MainRegistersFirst(program) => t # main \/ ip[main] > 1,
         pc[t] # "unborn", Opened # {},
         tid_to_threadNumber' = WithKey(main),
         UNCHANGED <<program, number, thread_count_to_tid>>, Filled' = Filled
  PROVE  SlotsInv'
<1> USE DEF RegistrationInv
<1>1. /\ \A u \in Numbered : tid_to_threadNumber'[u] = tid_to_threadNumber[u]
      /\ Absent \notin Numbers /\ 0 \in Numbers
  BY MainLookedUp, ZeroIsNumber
<1>2. Filled \subseteq Numbered /\ Filled \subseteq Threads
  BY DEF SlotsInv, Filled, Numbered
<1>3. \A n \in Numbers \ {0} : \A u \in Threads : thread_count_to_tid[n] = u /\ u # Absent =>
        u \in Numbered /\ tid_to_threadNumber[u] = n
  BY <1>1 DEF SlotsInv, Numbered
<1>4. ~program.racy => \A u \in Threads : thread_count_to_tid[0] = u /\ u # Absent =>
        u \in Numbered /\ tid_to_threadNumber[u] = 0
  BY <1>1 DEF SlotsInv, Numbered
<1>5. \A u \in Threads : tid_to_threadNumber[u] = 0 => u \in Numbered
  BY <1>1 DEF Numbered
<1>6. QED
  BY SMTT(30), <1>1, <1>2, <1>3, <1>4, <1>5 DEF SlotsInv

(* And it keeps the numbers apart, but for main.                           *)
LEMMA LookKeepsNumbers ==
  ASSUME RegistrationInv, NEW t \in Threads, MainRegistersFirst(program) => t # main \/ ip[main] > 1,
         pc[t] # "unborn", Opened # {},
         tid_to_threadNumber' = WithKey(main),
         UNCHANGED <<program, thread_create_count, main_create_number>>,
         pc'[main] \in {"ended", "closed"} <=> pc[main] \in {"ended", "closed"}
  PROVE  NumbersInv'
<1> USE DEF RegistrationInv
<1>1. /\ \A u \in Numbered : tid_to_threadNumber'[u] = tid_to_threadNumber[u]
      /\ main \notin Numbered => tid_to_threadNumber'[main] = 0 /\ ~MainRegistersFirst(program)
      /\ Numbered' = Numbered \cup {main}
      /\ thread_create_count > 0
  BY MainLookedUp
<1>2. \A u \in Numbered' : tid_to_threadNumber'[u] < thread_create_count'
  BY <1>1 DEF NumbersInv
<1>3. ASSUME NEW u \in Numbered', NEW v \in Numbered', tid_to_threadNumber'[u] = tid_to_threadNumber'[v]
      PROVE  u = v \/ OnlyMainShares(u, v)'
  <2>1. CASE u \in Numbered /\ v \in Numbered
    BY <1>1, <1>3, <2>1 DEF NumbersInv, OnlyMainShares, LooksUpMain
  <2>2. CASE u \notin Numbered \/ v \notin Numbered
    BY <1>1, <1>3, <2>2 DEF OnlyMainShares, LooksUpMain
  <2>3. QED
    BY <2>1, <2>2
<1>4. MainRegistersFirst(program') /\ main \in Numbered' => tid_to_threadNumber'[main] = 0
  BY <1>1 DEF NumbersInv
<1>5. Cardinality(Numbered) <= Cardinality(Numbered') /\ Cardinality(Numbered) \in Nat /\ Cardinality(Numbered') \in Nat
  <2>1. Numbered \in SUBSET Threads /\ Numbered' \in SUBSET Threads /\ IsFiniteSet(Threads)
    BY RuntimeAssumption DEF Numbered
  <2>2. QED
    BY <1>1, <2>1, FS_Subset, FS_CardinalityType
<1>6. thread_create_count' <= Cardinality(Numbered') + (IF pc'[main] \in {"ended", "closed"} THEN 1 ELSE 0)
  BY <1>5 DEF NumbersInv, MapsTyped
<1>7. QED
  BY <1>2, <1>3, <1>4, <1>6 DEF NumbersInv

(* Reaching a location, the call of the library.                           *)
LEMMA ReachLocationKeeps ==
  ASSUME RegistrationInv, NEW t \in Threads, ReachLocation(t)
  PROVE  RegistrationInv'
<1> USE DEF RegistrationInv, ReachLocation, At, Goto, CurrentStep, localVars, mapVars, recordVars
<1>a. CodeLegal
  BY ProgramIsLegal DEF PlacesTyped
<1>b. Opened' = Opened
  BY DEF Opened
<1>1. PlacesTyped'
  BY <1>a, <1>b DEF PlacesTyped, Places
<1>2. MapsTyped'
  BY <1>a, <1>b DEF MapsTyped
<1>3. CodeInv'
  BY <1>a, <1>b DEF PlacesTyped, CodeInv, CodeLegal, AtStep, Registering, Inside, Code
<1>4. CreateInv'
  BY <1>a, <1>b DEF PlacesTyped, CreateInv, Code
<1>5. SelfInv'
  BY <1>a, <1>b DEF PlacesTyped, SelfInv
<1>6. StageInv'
  BY <1>a, <1>b DEF PlacesTyped, StageInv, Registering, Inside
<1>7. SlotsInv'
  BY <1>a, <1>b DEF PlacesTyped, SlotsInv, Filled
<1>8. NumbersInv'
  BY <1>a, <1>b DEF PlacesTyped, NumbersInv, Numbered, OnlyMainShares, LooksUpMain
<1>9. BarrierInv'
  <2>1. Arrived' = Arrived
    BY <1>b DEF PlacesTyped, Arrived
  <2>2. QED
    BY <1>b, <2>1, BarrierKept DEF PlacesTyped, Arrived
<1>10. QED
  BY <1>1, <1>2, <1>3, <1>4, <1>5, <1>6, <1>7, <1>8, <1>9

(* The program creates a thread.  It gets its own pthread_t or that of a   *)
(* thread that is gone.                                                    *)
LEMMA CreateThreadKeeps ==
  ASSUME RegistrationInv, NEW t \in Threads, CreateThread(t)
  PROVE  RegistrationInv'
<1> USE DEF RegistrationInv, CreateThread, At, Goto, CurrentStep, localVars, mapVars, recordVars
<1>a. CodeLegal
  BY ProgramIsLegal DEF PlacesTyped
<1>b. Opened' = Opened
  BY DEF Opened
<1>c. PICK u \in Threads : /\ u = CurrentStep(t).arg /\ u # main /\ u # t /\ pc[u] = "unborn"
                            /\ CurrentStep(t).op = "create"
                            /\ ip[t] \in 1..Len(Code[t])
  <2>1. ip[t] \in 1..Len(Code[t])
    BY <1>a DEF PlacesTyped, CodeLegal
  <2>2. CurrentStep(t).arg \in Threads \ {main}
    BY <1>a, <2>1 DEF CodeLegal, Code
  <2>3. pc[CurrentStep(t).arg] = "unborn"
    BY <2>1, <2>2 DEF CreateInv, PlacesTyped, Code
  <2>4. QED
    BY <2>1, <2>2, <2>3 DEF PlacesTyped
<1>d. /\ pc' = [pc EXCEPT ![u] = "next"] /\ ip' = [ip EXCEPT ![t] = ip[t] + 1] /\ pc[t] = "next"
      /\ UNCHANGED <<program, process, number, mapVars, recordVars, thread_set, threadSelf, tid_to_run>>
  BY <1>c
<1>e. PICK h \in Threads : self' = [self EXCEPT ![u] = h] /\ (h = u \/ pc[h] # "unborn")
  <2>1. PICK h \in {u} \cup FreeSelves : self' = [self EXCEPT ![u] = h]
    BY <1>c
  <2>2. h \in FreeSelves => \E v \in Threads : h = self[v] /\ pc[v] # "unborn"
    BY DEF FreeSelves, Gone
  <2>3. h = u \/ (h \in Threads /\ pc[h] # "unborn")
    BY <2>1, <2>2 DEF SelfInv, PlacesTyped
  <2>4. QED
    BY <2>1, <2>3
<1>f. MainRegistersFirst(program) => ip[main] > 1 /\ main \in Threads
  <2>1. MainRegistersFirst(program) => Code[main][1].op = "loc"
    BY DEF MainRegistersFirst, Code
  <2>2. MainRegistersFirst(program) /\ t = main => ip[main] # 1
    BY <1>c, <2>1
  <2>3. QED
    BY <1>d, <2>2, RuntimeAssumption DEF CodeInv, PlacesTyped
<1>g. u \notin thread_set /\ u \notin Opened /\ u \notin Filled
  BY <1>c DEF StageInv, Filled
<1>1. PlacesTyped'
  <2>1. pc' \in [Threads -> Places]
    BY <1>d DEF PlacesTyped, Places
  <2>2. ip[t] + 1 \in Nat \ {0}
    BY DEF PlacesTyped
  <2>3. ip' \in [Threads -> Nat \ {0}]
    BY <1>d, <2>2 DEF PlacesTyped
  <2>4. self' \in [Threads -> Threads]
    BY <1>e DEF PlacesTyped
  <2>5. QED
    BY <1>d, <2>1, <2>3, <2>4 DEF PlacesTyped
<1>2. MapsTyped'
  BY <1>a, <1>b DEF MapsTyped
<1>3. CodeInv'
  <2>1. \A v \in Threads : /\ v # u => pc'[v] = pc[v]
                           /\ pc'[u] = "next"
                           /\ v # t => ip'[v] = ip[v]
                           /\ ip'[t] = ip[t] + 1 /\ ip[t] \in Nat
    BY <1>c, <1>d DEF PlacesTyped
  <2>2. main # u /\ main \in Threads
    BY <1>c, RuntimeAssumption
  <2>3. \A v \in Threads : \A i \in 1..Len(Code[v]) : i < ip'[v] /\ Code[v][i].op = "loc" => v \in Opened
    BY <1>c, <2>1 DEF CodeInv
  <2>4. \A v \in Threads : ip'[v] <= Len(Code[v]) + 1 /\ ip'[main] >= ip[main]
    BY <1>c, <2>1, <2>2 DEF CodeInv, PlacesTyped
  <2>5. QED
    BY SMTT(30), <1>b, <1>d, <1>f, <2>1, <2>2, <2>3, <2>4 DEF PlacesTyped, CodeInv, AtStep, Registering, Inside, Code
<1>4. CreateInv'
  <2>1. SUFFICES ASSUME NEW v \in Threads, NEW w \in Threads, NEW i \in 1..Len(Code[v]),
                        Code[v][i].op = "create", Code[v][i].arg = w, i >= ip'[v]
                 PROVE  pc'[w] = "unborn"
    BY <1>d DEF CreateInv, Code
  <2>2. i >= ip[v] /\ pc[w] = "unborn"
    BY <1>d, <2>1 DEF CreateInv, PlacesTyped
  <2>3. w # u
    <3>1. SUFFICES ASSUME w = u PROVE FALSE
      OBVIOUS
    <3>2. ip[t] \in 1..Len(Code[t]) /\ Code[t][ip[t]].op = "create" /\ Code[t][ip[t]].arg = u
      BY <1>c
    <3>3. v = t /\ i = ip[t]
      BY <1>a, <2>1, <3>1, <3>2 DEF CodeLegal
    <3>4. ip'[t] = ip[t] + 1 /\ ip[t] \in Nat
      BY <1>d DEF PlacesTyped
    <3>5. QED
      BY <2>1, <3>3, <3>4
  <2>4. QED
    BY <1>d, <2>2, <2>3 DEF PlacesTyped
<1>5. SelfInv'
  <2>1. \A v \in Threads \ {u} : self'[v] = self[v] /\ pc'[v] = pc[v]
    BY <1>d, <1>e DEF PlacesTyped
  <2>2. self'[u] = h /\ pc'[u] = "next" /\ pc'[h] # "unborn"
    BY <1>d, <1>e DEF PlacesTyped
  <2>3. \A v \in Threads \ {u} : pc[v] # "unborn" => self[v] # u
    BY <1>c DEF SelfInv
  <2>4. \A g \in Threads : threadSelf[g] # Absent => threadSelf[g] \in Opened /\ threadSelf[g] # u /\ threadSelf[g] \in Threads
    BY <1>g DEF SelfInv, Opened
  <2>5. QED
    BY <1>b, <1>d, <2>1, <2>2, <2>3, <2>4 DEF SelfInv, PlacesTyped
<1>6. StageInv'
  BY <1>b, <1>c, <1>d, <1>g DEF PlacesTyped, StageInv, Registering, Inside
<1>7. SlotsInv'
  <2>1. Filled' = Filled
    BY <1>b, <1>c, <1>d DEF PlacesTyped, Filled
  <2>2. QED
    BY <1>d, <2>1 DEF SlotsInv
<1>8. NumbersInv'
  BY <1>c, <1>d, RuntimeAssumption DEF PlacesTyped, NumbersInv, Numbered, OnlyMainShares, LooksUpMain
<1>9. BarrierInv'
  <2>1. Arrived' = Arrived
    BY <1>b, <1>c, <1>d, <1>g DEF PlacesTyped, Arrived
  <2>2. QED
    BY <1>c, <1>d, <2>1, BarrierKept DEF PlacesTyped
<1>10. QED
  BY <1>1, <1>2, <1>3, <1>4, <1>5, <1>6, <1>7, <1>8, <1>9

(* The program waits for a thread.                                         *)
LEMMA JoinThreadKeeps ==
  ASSUME RegistrationInv, NEW t \in Threads, JoinThread(t)
  PROVE  RegistrationInv'
<1> USE DEF RegistrationInv, JoinThread, At, Goto, CurrentStep, localVars, mapVars, recordVars
<1>a. CodeLegal
  BY ProgramIsLegal DEF PlacesTyped
<1>b. Opened' = Opened
  BY DEF Opened
<1>1. PlacesTyped'
  BY <1>a, <1>b DEF PlacesTyped, Places
<1>2. MapsTyped'
  BY <1>a, <1>b DEF MapsTyped
<1>3. CodeInv'
  BY <1>a, <1>b DEF PlacesTyped, CodeInv, CodeLegal, AtStep, Registering, Inside, Code
<1>4. CreateInv'
  BY <1>a, <1>b DEF PlacesTyped, CreateInv, Code
<1>5. SelfInv'
  BY <1>a, <1>b DEF PlacesTyped, SelfInv
<1>6. StageInv'
  BY <1>a, <1>b DEF PlacesTyped, StageInv, Registering, Inside
<1>7. SlotsInv'
  BY <1>a, <1>b DEF PlacesTyped, SlotsInv, Filled
<1>8. NumbersInv'
  BY <1>a, <1>b DEF PlacesTyped, NumbersInv, Numbered, OnlyMainShares, LooksUpMain
<1>9. BarrierInv'
  <2>1. Arrived' = Arrived
    BY <1>b DEF PlacesTyped, Arrived
  <2>2. QED
    BY <1>b, <2>1, BarrierKept DEF PlacesTyped, Arrived
<1>10. QED
  BY <1>1, <1>2, <1>3, <1>4, <1>5, <1>6, <1>7, <1>8, <1>9

(* A thread returns.                                                       *)
LEMMA ThreadReturnsKeeps ==
  ASSUME RegistrationInv, NEW t \in Threads, ThreadReturns(t)
  PROVE  RegistrationInv'
<1> USE DEF RegistrationInv, ThreadReturns, At, Goto, CurrentStep, localVars, mapVars, recordVars
<1>a. CodeLegal
  BY ProgramIsLegal DEF PlacesTyped
<1>b. Opened' = Opened
  BY DEF Opened
<1>1. PlacesTyped'
  BY <1>a, <1>b DEF PlacesTyped, Places
<1>2. MapsTyped'
  BY <1>a, <1>b DEF MapsTyped
<1>3. CodeInv'
  BY <1>a, <1>b DEF PlacesTyped, CodeInv, CodeLegal, AtStep, Registering, Inside, Code
<1>4. CreateInv'
  BY <1>a, <1>b DEF PlacesTyped, CreateInv, Code
<1>5. SelfInv'
  BY <1>a, <1>b DEF PlacesTyped, SelfInv
<1>6. StageInv'
  BY <1>a, <1>b DEF PlacesTyped, StageInv, Registering, Inside
<1>7. SlotsInv'
  BY <1>a, <1>b DEF PlacesTyped, SlotsInv, Filled
<1>8. NumbersInv'
  BY <1>a, <1>b DEF PlacesTyped, NumbersInv, Numbered, OnlyMainShares, LooksUpMain
<1>9. BarrierInv'
  <2>1. Arrived' = Arrived
    BY <1>b DEF PlacesTyped, Arrived
  <2>2. QED
    BY <1>b, <2>1, BarrierKept DEF PlacesTyped, Arrived
<1>10. QED
  BY <1>1, <1>2, <1>3, <1>4, <1>5, <1>6, <1>7, <1>8, <1>9

(* A thread enters its registration.                                       *)
LEMMA RegisterKeeps ==
  ASSUME RegistrationInv, NEW t \in Threads, Register(t)
  PROVE  RegistrationInv'
<1> USE DEF RegistrationInv, Register, At, Goto, CurrentStep, localVars, mapVars, recordVars
<1>a. CodeLegal
  BY ProgramIsLegal DEF PlacesTyped
<1>b. Opened' = Opened
  BY DEF Opened
<1>1. PlacesTyped'
  BY <1>a, <1>b DEF PlacesTyped, Places
<1>2. MapsTyped'
  BY <1>a, <1>b DEF MapsTyped
<1>3. CodeInv'
  BY <1>a, <1>b DEF PlacesTyped, CodeInv, CodeLegal, AtStep, Registering, Inside, Code
<1>4. CreateInv'
  BY <1>a, <1>b DEF PlacesTyped, CreateInv, Code
<1>5. SelfInv'
  BY <1>a, <1>b DEF PlacesTyped, SelfInv
<1>6. StageInv'
  BY <1>a, <1>b DEF PlacesTyped, StageInv, Registering, Inside
<1>7. SlotsInv'
  BY <1>a, <1>b DEF PlacesTyped, SlotsInv, Filled
<1>8. NumbersInv'
  BY <1>a, <1>b DEF PlacesTyped, NumbersInv, Numbered, OnlyMainShares, LooksUpMain
<1>9. BarrierInv'
  <2>1. Arrived' = Arrived
    BY <1>b DEF PlacesTyped, Arrived
  <2>2. QED
    BY <1>b, <2>1, BarrierKept DEF PlacesTyped, Arrived
<1>10. QED
  BY <1>1, <1>2, <1>3, <1>4, <1>5, <1>6, <1>7, <1>8, <1>9

(* It takes its number: the counter was above every number, so no thread   *)
(* has it.  Only main can have got one before.                             *)
LEMMA TakeNumberKeeps ==
  ASSUME RegistrationInv, NEW t \in Threads, TakeNumber(t)
  PROVE  RegistrationInv'
<1> USE DEF RegistrationInv, TakeNumber, AddTid, At, Goto, CurrentStep, localVars, mapVars, recordVars
<1>a. CodeLegal
  BY ProgramIsLegal DEF PlacesTyped
<1>b. Opened' = Opened
  BY DEF Opened
<1>c. /\ main \in Threads /\ 0 \in Numbers /\ Absent \notin Numbers
      /\ t \notin Opened /\ t \notin Filled /\ t \in thread_set
      /\ tid_to_threadNumber[t] # Absent => t = main
  BY ZeroIsNumber, RuntimeAssumption DEF StageInv, Registering, Filled
<1>d. CASE tid_to_threadNumber[t] # Absent
  <2>0. UNCHANGED <<tid_to_threadNumber, thread_create_count>> /\ pc' = [pc EXCEPT ![t] = "slot"]
    BY <1>d
  <2>1. PlacesTyped' /\ MapsTyped' /\ CodeInv' /\ CreateInv'
    BY <1>a, <1>b, <2>0 DEF PlacesTyped, Places, MapsTyped, CodeInv, CreateInv, AtStep, Registering, Inside, Code
  <2>2. SelfInv' /\ StageInv'
    BY <1>b, <1>c, <1>d, <2>0 DEF PlacesTyped, SelfInv, StageInv, Registering, Inside
  <2>3. SlotsInv' /\ NumbersInv'
    <3>1. Filled' = Filled
      BY <1>b, <2>0 DEF PlacesTyped, Filled
    <3>2. QED
      BY <2>0, <3>1, <1>c DEF PlacesTyped, SlotsInv, NumbersInv, Numbered, OnlyMainShares, LooksUpMain
  <2>4. BarrierInv'
    <3>1. Arrived' = Arrived
      BY <1>b, <1>c, <2>0 DEF PlacesTyped, Arrived
    <3>2. QED
      BY <1>c, <2>0, <3>1, BarrierKept DEF PlacesTyped, Arrived
  <2>5. QED
    BY <2>1, <2>2, <2>3, <2>4
<1>e. SUFFICES ASSUME tid_to_threadNumber[t] = Absent PROVE RegistrationInv'
  BY <1>d
<1>f. /\ t \notin Numbered
      /\ tid_to_threadNumber' = [tid_to_threadNumber EXCEPT ![t] = thread_create_count]
      /\ thread_create_count' = thread_create_count + 1
      /\ Numbered' = Numbered \cup {t}
  <2>1. tid_to_threadNumber' = [tid_to_threadNumber EXCEPT ![t] = thread_create_count]
    BY <1>e
  <2>2. thread_create_count # Absent
    BY DEF MapsTyped, Absent
  <2>3. QED
    BY <1>e, <2>1, <2>2 DEF Numbered, MapsTyped
<1>g. /\ thread_create_count \in Numbers
      /\ IsFiniteSet(Numbered) /\ Cardinality(Numbered) \in Nat
      /\ Cardinality(Numbered \cup {t}) = Cardinality(Numbered) + 1
  <2>1. IsFiniteSet(Numbered) /\ Cardinality(Numbered) \in Nat
    BY NumberedIsFinite
  <2>2. Cardinality(Numbered \cup {t}) = Cardinality(Numbered) + 1
    BY <1>f, <2>1, FS_AddElement
  <2>3. Numbered \cup {t} \in SUBSET Threads /\ IsFiniteSet(Threads)
    BY RuntimeAssumption DEF Numbered
  <2>4. Cardinality(Numbered \cup {t}) <= Cardinality(Threads) /\ Cardinality(Threads) \in Nat
    BY <2>3, FS_Subset, FS_CardinalityType
  <2>5. thread_create_count <= Cardinality(Numbered) + 1
    BY <2>1 DEF NumbersInv, MapsTyped
  <2>6. QED
    BY <2>1, <2>2, <2>4, <2>5 DEF Numbers, MapsTyped
<1>h. MainRegistersFirst(program) /\ t = main => thread_create_count = 0
  <2>1. SUFFICES ASSUME MainRegistersFirst(program), t = main PROVE thread_create_count = 0
    OBVIOUS
  <2>2. 1 \in 1..Len(Code[main]) /\ Code[main][1].op = "loc"
    BY <1>a, <1>c, <2>1 DEF MainRegistersFirst, CodeLegal, Code
  <2>3. ~(ip[main] > 1)
    BY <1>c, <2>1, <2>2 DEF CodeInv
  <2>4. \A u \in Threads \ {main} : pc[u] = "unborn"
    BY <2>1, <2>3 DEF CodeInv
  <2>5. Numbered = {}
    BY <1>f, <2>1, <2>4 DEF StageInv, Numbered
  <2>6. Cardinality(Numbered) = 0
    BY <2>5, FS_EmptySet
  <2>7. pc[main] \notin {"ended", "closed"}
    BY <2>1
  <2>8. QED
    BY <2>6, <2>7 DEF NumbersInv, MapsTyped
<1>i. /\ \A u \in Threads \ {t} : tid_to_threadNumber'[u] = tid_to_threadNumber[u]
      /\ tid_to_threadNumber'[t] = thread_create_count
  BY <1>f DEF MapsTyped
<1>1. PlacesTyped'
  BY <1>a, <1>b DEF PlacesTyped, Places
<1>2. MapsTyped'
  BY <1>f, <1>g DEF MapsTyped
<1>3. CodeInv'
  BY <1>a, <1>b DEF PlacesTyped, CodeInv, CodeLegal, AtStep, Registering, Inside, Code
<1>4. CreateInv'
  BY <1>a, <1>b DEF PlacesTyped, CreateInv, Code
<1>5. SelfInv'
  BY <1>a, <1>b DEF PlacesTyped, SelfInv
<1>6. StageInv'
  BY <1>b, <1>c, <1>f, <1>g DEF PlacesTyped, MapsTyped, StageInv, Registering, Inside
<1>7. SlotsInv'
  <2>1. Filled' = Filled /\ UNCHANGED <<program, number, thread_count_to_tid>>
    BY <1>b, <1>c DEF PlacesTyped, Filled
  <2>2. \A n \in Numbers \ {0} : \A u \in Threads :
          thread_count_to_tid[n] = u /\ u # Absent => u # t /\ tid_to_threadNumber[u] = n
    BY <1>c, <1>e DEF SlotsInv
  <2>3. ~program.racy => \A u \in Threads :
          thread_count_to_tid[0] = u /\ u # Absent => u # t /\ tid_to_threadNumber[u] = 0
    BY <1>c, <1>e DEF SlotsInv
  <2>4. \A u \in Filled : u # t /\ u \in Threads
    BY <1>c DEF Filled
  <2>5. \A u \in Threads : tid_to_threadNumber[u] = 0 => u # t
    BY <1>c, <1>e
  <2>6. QED
    BY SMTT(30), <1>i, <2>1, <2>2, <2>3, <2>4, <2>5 DEF SlotsInv
<1>8. NumbersInv'
  <2>1. \A u \in Numbered : tid_to_threadNumber'[u] = tid_to_threadNumber[u] /\ u # t
    BY <1>f, <1>i DEF Numbered
  <2>2. tid_to_threadNumber'[t] = thread_create_count
    BY <1>i
  <2>3. \A u \in Numbered : tid_to_threadNumber[u] \in Nat /\ tid_to_threadNumber[u] < thread_create_count
    BY DEF NumbersInv, Numbered, MapsTyped, Numbers
  <2>4. \A u \in Numbered' : tid_to_threadNumber'[u] < thread_create_count'
    BY <1>f, <2>1, <2>2, <2>3 DEF MapsTyped
  <2>5. \A u, v \in Numbered' : tid_to_threadNumber'[u] = tid_to_threadNumber'[v] => u = v \/ OnlyMainShares(u, v)'
    BY <1>f, <2>1, <2>2, <2>3 DEF NumbersInv, MapsTyped, OnlyMainShares, LooksUpMain
  <2>6. MainRegistersFirst(program) /\ main \in Numbered' => tid_to_threadNumber'[main] = 0
    BY <1>f, <1>h, <2>1, <2>2 DEF NumbersInv
  <2>7. thread_create_count' <= Cardinality(Numbered') + (IF pc'[main] \in {"ended", "closed"} THEN 1 ELSE 0)
    BY <1>c, <1>f, <1>g DEF NumbersInv, MapsTyped, PlacesTyped
  <2>8. QED
    BY <2>4, <2>5, <2>6, <2>7 DEF NumbersInv
<1>9. BarrierInv'
  <2>1. Arrived' = Arrived
    BY <1>b DEF PlacesTyped, Arrived
  <2>2. QED
    BY <1>b, <2>1, BarrierKept DEF PlacesTyped, Arrived
<1>10. QED
  BY <1>1, <1>2, <1>3, <1>4, <1>5, <1>6, <1>7, <1>8, <1>9

(* It fills the slot of its number, or slot 0 if it reads its number wrong.*)
LEMMA FillSlotKeeps ==
  ASSUME RegistrationInv, NEW t \in Threads, FillSlot(t)
  PROVE  RegistrationInv'
<1> USE DEF RegistrationInv, FillSlot, At, Goto, CurrentStep, localVars, mapVars, recordVars
<1>a. CodeLegal
  BY ProgramIsLegal DEF PlacesTyped
<1>b. Opened' = Opened
  BY DEF Opened
<1>c. /\ tid_to_threadNumber[t] \in Numbers /\ tid_to_threadNumber[t] # Absent /\ t \in Numbered
      /\ 0 \in Numbers /\ Absent \notin Numbers /\ main \in Threads
      /\ t \notin Opened /\ t \notin Filled
  BY ZeroIsNumber, RuntimeAssumption DEF StageInv, MapsTyped, Numbered, Registering, Filled
<1>d. PICK n \in SeenNumber(t, t) :
        /\ number' = [number EXCEPT ![t] = n]
        /\ thread_count_to_tid' = [thread_count_to_tid EXCEPT ![n] = t]
        /\ main_create_number' = IF t = main THEN n ELSE main_create_number
  OBVIOUS
<1>e. /\ n \in Numbers /\ (n = 0 \/ n = tid_to_threadNumber[t])
      /\ ~program.racy => n = tid_to_threadNumber[t]
      /\ tid_to_threadNumber' = tid_to_threadNumber
      /\ pc' = [pc EXCEPT ![t] = "log"]
  BY <1>c, NumberSeen
<1>f. /\ Filled' = Filled \cup {t}
      /\ UNCHANGED <<program, thread_set, threadSelf, self, thread_create_count>>
  BY <1>b, <1>e DEF PlacesTyped, Filled
<1>1. PlacesTyped'
  BY <1>a, <1>b DEF PlacesTyped, Places
<1>2. MapsTyped'
  BY <1>c, <1>d, <1>e DEF MapsTyped
<1>3. CodeInv'
  BY <1>a, <1>b DEF PlacesTyped, CodeInv, CodeLegal, AtStep, Registering, Inside, Code
<1>4. CreateInv'
  BY <1>a, <1>b DEF PlacesTyped, CreateInv, Code
<1>5. SelfInv'
  BY <1>a, <1>b DEF PlacesTyped, SelfInv
<1>6. StageInv'
  BY <1>b, <1>c, <1>e DEF PlacesTyped, StageInv, Registering, Inside
<1>7. SlotsInv'
  <2>1. /\ \A m \in Numbers \ {n} : thread_count_to_tid'[m] = thread_count_to_tid[m]
        /\ thread_count_to_tid'[n] = t
        /\ \A u \in Threads \ {t} : number'[u] = number[u]
        /\ number'[t] = n
    BY <1>d, <1>e DEF MapsTyped
  <2>2. \A m \in Numbers \ {0} : \A u \in Threads :
          thread_count_to_tid'[m] = u /\ u # Absent => tid_to_threadNumber[u] = m
    BY <1>e, <2>1 DEF SlotsInv
  <2>3. ~program.racy => \A u \in Threads : thread_count_to_tid'[0] = u /\ u # Absent => tid_to_threadNumber[u] = 0
    BY <1>c, <1>e, <2>1 DEF SlotsInv
  <2>4. ASSUME NEW u \in Filled, u # t
        PROVE  /\ tid_to_threadNumber[u] # Absent /\ number'[u] # Absent
               /\ tid_to_threadNumber[u] # 0 =>
                    \/ thread_count_to_tid'[tid_to_threadNumber[u]] = u
                    \/ program.racy /\ thread_count_to_tid'[tid_to_threadNumber[u]] = Absent
               /\ ~program.racy /\ tid_to_threadNumber[u] = 0 =>
                    \E v \in Threads : thread_count_to_tid'[0] = v /\ tid_to_threadNumber[v] = 0
               /\ ~program.racy => number'[u] = tid_to_threadNumber[u]
    <3>1. u \in Threads /\ u \in Numbered /\ tid_to_threadNumber[u] \in Numbers
      BY <2>4 DEF SlotsInv, Filled, Numbered, MapsTyped
    <3>2. tid_to_threadNumber[u] # 0 => tid_to_threadNumber[u] # n
      BY <1>c, <1>e, <2>4, <3>1 DEF NumbersInv, OnlyMainShares
    <3>3. tid_to_threadNumber[u] # 0 =>
                    \/ thread_count_to_tid'[tid_to_threadNumber[u]] = u
                    \/ program.racy /\ thread_count_to_tid'[tid_to_threadNumber[u]] = Absent
      BY <2>1, <2>4, <3>1, <3>2 DEF SlotsInv
    <3>4. ~program.racy /\ tid_to_threadNumber[u] = 0 =>
                    \E v \in Threads : thread_count_to_tid'[0] = v /\ tid_to_threadNumber[v] = 0
      <4>1. CASE n = 0
        BY <1>e, <2>1, <4>1
      <4>2. CASE n # 0
        BY <1>c, <2>1, <2>4, <4>2 DEF SlotsInv
      <4>3. QED
        BY <4>1, <4>2
    <3>5. tid_to_threadNumber[u] # Absent /\ number'[u] # Absent /\ (~program.racy => number'[u] = tid_to_threadNumber[u])
      BY <2>1, <2>4, <3>1 DEF SlotsInv
    <3>6. QED
      BY <3>3, <3>4, <3>5
  <2>5. /\ tid_to_threadNumber[t] # 0 =>
             \/ thread_count_to_tid'[tid_to_threadNumber[t]] = t
             \/ program.racy /\ thread_count_to_tid'[tid_to_threadNumber[t]] = Absent
        /\ ~program.racy /\ tid_to_threadNumber[t] = 0 =>
             \E v \in Threads : thread_count_to_tid'[0] = v /\ tid_to_threadNumber[v] = 0
        /\ number'[t] # Absent /\ (~program.racy => number'[t] = tid_to_threadNumber[t])
    <3>1. CASE n = tid_to_threadNumber[t]
      BY <1>c, <2>1, <3>1
    <3>2. CASE n # tid_to_threadNumber[t]
      <4>1. program.racy /\ n = 0 /\ tid_to_threadNumber[t] \in Numbers \ {0}
        BY <1>c, <1>e, <3>2
      <4>2. thread_count_to_tid'[tid_to_threadNumber[t]] = thread_count_to_tid[tid_to_threadNumber[t]]
        BY <2>1, <3>2, <4>1
      <4>3. thread_count_to_tid[tid_to_threadNumber[t]] \in Threads \cup {Absent}
        BY <1>c DEF MapsTyped
      <4>4. \A v \in Threads : thread_count_to_tid[tid_to_threadNumber[t]] = v /\ v # Absent => v = t
        BY <1>c, <4>1 DEF SlotsInv, NumbersInv, Numbered, OnlyMainShares
      <4>5. QED
        BY <1>c, <2>1, <4>1, <4>2, <4>3, <4>4
    <3>3. QED
      BY <3>1, <3>2
  <2>6. QED
    BY <1>c, <1>e, <1>f, <2>2, <2>3, <2>4, <2>5 DEF SlotsInv
<1>8. NumbersInv'
  <2>1. MainRegistersFirst(program) /\ t = main => n = 0
    BY <1>c, <1>e DEF NumbersInv
  <2>2. pc'[main] \in {"ended", "closed"} <=> pc[main] \in {"ended", "closed"}
    BY <1>c, <1>e DEF PlacesTyped
  <2>3. QED
    BY <1>d, <1>e, <1>f, <2>1, <2>2 DEF NumbersInv, Numbered, OnlyMainShares, LooksUpMain
<1>9. BarrierInv'
  <2>1. Arrived' = Arrived
    BY <1>b, <1>c, <1>d, <1>e DEF PlacesTyped, MapsTyped, Arrived
  <2>2. QED
    BY <1>c, <1>e, <2>1, BarrierKept DEF PlacesTyped, Arrived
<1>10. QED
  BY <1>1, <1>2, <1>3, <1>4, <1>5, <1>6, <1>7, <1>8, <1>9

(* It logs its creation.                                                   *)
LEMMA LogCreateKeeps ==
  ASSUME RegistrationInv, NEW t \in Threads, LogCreate(t)
  PROVE  RegistrationInv'
<1> USE DEF RegistrationInv, LogCreate, At, Goto, CurrentStep, localVars, mapVars, recordVars
<1>a. CodeLegal
  BY ProgramIsLegal DEF PlacesTyped
<1>b. thread_create_jion' \in Seq({"create", "join"} \X Threads) /\ Opened' = Opened \cup {t}
  BY LogGrows DEF MapsTyped
<1>c. t \in thread_set /\ pc' = [pc EXCEPT ![t] = "barrier"]
  BY DEF StageInv, Registering
<1>1. PlacesTyped'
  BY <1>a, <1>b DEF PlacesTyped, Places
<1>2. MapsTyped'
  BY <1>a, <1>b DEF MapsTyped
<1>3. CodeInv'
  BY <1>a, <1>b DEF PlacesTyped, CodeInv, CodeLegal, AtStep, Registering, Inside, Code
<1>4. CreateInv'
  BY <1>a, <1>b DEF PlacesTyped, CreateInv, Code
<1>5. SelfInv'
  BY <1>b, <1>c DEF PlacesTyped, SelfInv
<1>6. StageInv'
  BY <1>b, <1>c DEF PlacesTyped, StageInv, Registering, Inside
<1>7. SlotsInv'
  <2>1. Filled' = Filled
    BY <1>b, <1>c DEF PlacesTyped, Filled
  <2>2. QED
    BY <2>1 DEF SlotsInv
<1>8. NumbersInv'
  BY <1>a, <1>b DEF PlacesTyped, NumbersInv, Numbered, OnlyMainShares, LooksUpMain
<1>9. BarrierInv'
  <2>1. Arrived' = Arrived
    BY <1>b DEF PlacesTyped, Arrived, StageInv, Registering
  <2>2. QED
    BY <2>1, BarrierKept DEF PlacesTyped, Arrived
<1>10. QED
  BY <1>1, <1>2, <1>3, <1>4, <1>5, <1>6, <1>7, <1>8, <1>9

(* It arrives at the barrier, by its own number.                           *)
LEMMA ArriveKeeps ==
  ASSUME RegistrationInv, NEW t \in Threads, Arrive(t)
  PROVE  RegistrationInv'
<1> USE DEF RegistrationInv, Arrive, WaitsAtBarrier, At, Goto, CurrentStep, localVars, mapVars, recordVars
<1>a. CodeLegal
  BY ProgramIsLegal DEF PlacesTyped
<1>b. Opened' = Opened
  BY DEF Opened
<1>1. PlacesTyped'
  BY <1>a, <1>b DEF PlacesTyped, Places
<1>2. MapsTyped'
  BY <1>a, <1>b DEF MapsTyped
<1>3. CodeInv'
  BY <1>a, <1>b DEF PlacesTyped, CodeInv, CodeLegal, AtStep, Registering, Inside, Code
<1>4. CreateInv'
  BY <1>a, <1>b DEF PlacesTyped, CreateInv, Code
<1>5. SelfInv'
  BY <1>a, <1>b DEF PlacesTyped, SelfInv
<1>6. StageInv'
  BY <1>a, <1>b DEF PlacesTyped, StageInv, Registering, Inside
<1>7. SlotsInv'
  BY <1>a, <1>b DEF PlacesTyped, SlotsInv, Filled
<1>8. NumbersInv'
  BY <1>a, <1>b DEF PlacesTyped, NumbersInv, Numbered, OnlyMainShares, LooksUpMain
<1>9. BarrierInv'
  <2>1. t \in Opened /\ t \notin Arrived
    BY DEF StageInv, Inside, Registering, Arrived
  <2>2. Meets => main_create_number = 0
    BY DEF Meets, Orderly, NumbersInv
  <2>3. CASE ~Meets
    <3>1. ~Meets'
      BY <2>3 DEF Meets, Orderly, Ischedule
    <3>2. QED
      BY <3>1 DEF BarrierInv
  <2>4. CASE Meets /\ ~WaitsAtBarrier(t)
    <3>1. number[t] \notin PlanThreads
      BY <2>2, <2>4 DEF Meets
    <3>2. Arrived' = Arrived
      BY <1>b, <2>4, <3>1 DEF PlacesTyped, Arrived
    <3>3. QED
      BY <2>1, <2>4, <3>2, BarrierKept DEF PlacesTyped, Arrived
  <2>5. CASE Meets /\ WaitsAtBarrier(t)
    <3>1. Meets' /\ number[t] \in PlanThreads
      BY <2>5 DEF Meets, Orderly, Ischedule
    <3>2. Arrived' = Arrived \cup {t} /\ tid_to_run' = tid_to_run + 1 /\ pc' = [pc EXCEPT ![t] = "spin"]
      BY <1>b, <2>1, <2>5, <3>1 DEF PlacesTyped, Arrived
    <3>3. tid_to_run # 2
      BY <2>1, <2>5, <3>1, OnlyTwoArrive
    <3>4. CASE tid_to_run = 0
      BY <2>5, <3>1, <3>2, <3>4 DEF BarrierInv, PlacesTyped
    <3>5. CASE tid_to_run = 1
      <4>1. PICK a \in Threads : Arrived = {a}
        BY <2>5, <3>5 DEF BarrierInv
      <4>2. Arrived' = {a, t} /\ a # t
        BY <2>1, <3>2, <4>1
      <4>3. QED
        BY <3>1, <3>2, <3>5, <4>2 DEF BarrierInv
    <3>6. QED
      BY <2>5, <3>3, <3>4, <3>5 DEF BarrierInv
  <2>6. QED
    BY <2>3, <2>4, <2>5
<1>10. QED
  BY <1>1, <1>2, <1>3, <1>4, <1>5, <1>6, <1>7, <1>8, <1>9

(* It leaves the spin loop of the barrier once two have arrived.           *)
LEMMA LeaveBarrierKeeps ==
  ASSUME RegistrationInv, NEW t \in Threads, LeaveBarrier(t)
  PROVE  RegistrationInv'
<1> USE DEF RegistrationInv, LeaveBarrier, EnoughArrived, At, Goto, CurrentStep, localVars, mapVars, recordVars
<1>a. CodeLegal
  BY ProgramIsLegal DEF PlacesTyped
<1>b. Opened' = Opened
  BY DEF Opened
<1>1. PlacesTyped'
  BY <1>a, <1>b DEF PlacesTyped, Places
<1>2. MapsTyped'
  BY <1>a, <1>b DEF MapsTyped
<1>3. CodeInv'
  BY <1>a, <1>b DEF PlacesTyped, CodeInv, CodeLegal, AtStep, Registering, Inside, Code
<1>4. CreateInv'
  BY <1>a, <1>b DEF PlacesTyped, CreateInv, Code
<1>5. SelfInv'
  BY <1>a, <1>b DEF PlacesTyped, SelfInv
<1>6. StageInv'
  BY <1>a, <1>b DEF PlacesTyped, StageInv, Registering, Inside
<1>7. SlotsInv'
  BY <1>a, <1>b DEF PlacesTyped, SlotsInv, Filled
<1>8. NumbersInv'
  BY <1>a, <1>b DEF PlacesTyped, NumbersInv, Numbered, OnlyMainShares, LooksUpMain
<1>9. BarrierInv'
  <2>1. Arrived' = Arrived
    BY <1>b DEF PlacesTyped, Arrived
  <2>2. ~(tid_to_run < 2)
    BY DEF MapsTyped
  <2>3. QED
    BY <2>1, <2>2, BarrierKept
<1>10. QED
  BY <1>1, <1>2, <1>3, <1>4, <1>5, <1>6, <1>7, <1>8, <1>9

(* It notes where main stands, and looks main up for it.                   *)
LEMMA NoteBeginKeeps ==
  ASSUME RegistrationInv, NEW t \in Threads, NoteBegin(t)
  PROVE  RegistrationInv'
<1> USE DEF RegistrationInv, NoteBegin, At, Goto, CurrentStep, localVars, mapVars, recordVars
<1>a. CodeLegal
  BY ProgramIsLegal DEF PlacesTyped
<1>b. Opened' = Opened
  BY DEF Opened
<1>c. /\ pc' = [pc EXCEPT ![t] = "string"] /\ pc[t] = "eara"
      /\ UNCHANGED <<program, ip, self, number, thread_create_count, thread_count_to_tid, main_create_number>>
  OBVIOUS
<1>d. t \in Opened /\ Filled' = Filled
  BY <1>b, <1>c DEF StageInv, Inside, Registering, Filled, PlacesTyped
<1>g. pc'[main] \in {"ended", "closed"} <=> pc[main] \in {"ended", "closed"}
  BY <1>c, RuntimeAssumption DEF PlacesTyped
<1>e. ASSUME t = main PROVE MapsTyped' /\ StageInv' /\ SlotsInv' /\ NumbersInv'
  <2>1. UNCHANGED <<tid_to_threadNumber, thread_create_jion, thread_set, threadSelf, tid_to_run>>
    BY <1>e
  <2>2. MapsTyped'
    BY <1>c, <2>1 DEF MapsTyped
  <2>3. SlotsInv'
    BY <1>c, <1>d, <2>1 DEF SlotsInv
  <2>4. NumbersInv'
    BY <1>c, <1>g, <2>1 DEF NumbersInv, Numbered, OnlyMainShares, LooksUpMain
  <2>5. StageInv'
    BY <1>b, <1>c, <2>1 DEF PlacesTyped, StageInv, Registering, Inside
  <2>6. QED
    BY <2>2, <2>3, <2>4, <2>5
<1>f. ASSUME t # main PROVE MapsTyped' /\ StageInv' /\ SlotsInv' /\ NumbersInv'
  <2>1. tid_to_threadNumber' = WithKey(main) /\ Opened # {} /\ pc[t] # "unborn"
    BY <1>c, <1>d, <1>f
  <2>2. /\ tid_to_threadNumber' \in [Threads -> Numbers \cup {Absent}]
        /\ \A u \in Numbered : tid_to_threadNumber'[u] = tid_to_threadNumber[u]
        /\ \A u \in Threads \ {main} : tid_to_threadNumber'[u] = tid_to_threadNumber[u]
    BY <1>f, <2>1, MainLookedUp
  <2>3. MapsTyped'
    BY <1>c, <2>2 DEF MapsTyped
  <2>4. SlotsInv'
    BY <1>c, <1>d, <1>f, <2>1, LookKeepsSlots
  <2>5. NumbersInv'
    BY <1>c, <1>f, <1>g, <2>1, LookKeepsNumbers
  <2>6. StageInv'
    BY <1>b, <1>c, <2>2 DEF PlacesTyped, StageInv, Registering, Inside, Numbered
  <2>7. QED
    BY <2>3, <2>4, <2>5, <2>6
<1>1. PlacesTyped'
  BY <1>a, <1>b DEF PlacesTyped, Places
<1>2. MapsTyped'
  BY <1>e, <1>f
<1>3. CodeInv'
  BY <1>a, <1>b DEF PlacesTyped, CodeInv, CodeLegal, AtStep, Registering, Inside, Code
<1>4. CreateInv'
  BY <1>a, <1>b DEF PlacesTyped, CreateInv, Code
<1>5. SelfInv'
  BY <1>a, <1>b DEF PlacesTyped, SelfInv
<1>6. StageInv'
  BY <1>e, <1>f
<1>7. SlotsInv'
  BY <1>e, <1>f
<1>8. NumbersInv'
  BY <1>e, <1>f
<1>9. BarrierInv'
  <2>1. Arrived' = Arrived
    BY <1>b DEF PlacesTyped, Arrived
  <2>2. QED
    BY <1>b, <2>1, BarrierKept DEF PlacesTyped, Arrived
<1>10. QED
  BY <1>1, <1>2, <1>3, <1>4, <1>5, <1>6, <1>7, <1>8, <1>9

(* It records the location by its name.                                    *)
LEMMA LocStringKeeps ==
  ASSUME RegistrationInv, NEW t \in Threads, LocString(t)
  PROVE  RegistrationInv'
<1> USE DEF RegistrationInv, LocString, At, Goto, CurrentStep, localVars, mapVars, recordVars
<1>a. CodeLegal
  BY ProgramIsLegal DEF PlacesTyped
<1>b. Opened' = Opened
  BY DEF Opened
<1>c. t \in Opened /\ t \in Filled /\ tid_to_threadNumber[t] \in Numbers /\ tid_to_threadNumber[t] # Absent
  BY DEF StageInv, SlotsInv, MapsTyped, Inside, Registering, Filled
<1>d. PICK n \in SeenNumber(t, t) : number' = [number EXCEPT ![t] = n]
  OBVIOUS
<1>e. /\ n \in Numbers /\ n # Absent /\ (~program.racy => n = tid_to_threadNumber[t])
      /\ tid_to_threadNumber' = tid_to_threadNumber
  BY <1>c, NumberSeen, ZeroIsNumber
<1>f. /\ Filled' = Filled
      /\ UNCHANGED <<program, thread_create_count, thread_count_to_tid, main_create_number>>
      /\ \A u \in Threads : number'[u] # Absent <=> IF u = t THEN TRUE ELSE number[u] # Absent
      /\ ~program.racy => number' = number
  <2>1. Filled' = Filled
    BY <1>b, <1>c DEF PlacesTyped, Filled
  <2>2. ~program.racy => number[t] = tid_to_threadNumber[t]
    BY <1>c DEF SlotsInv
  <2>3. number \in [Threads -> Numbers \cup {Absent}]
    BY DEF MapsTyped
  <2>4. QED
    BY <1>d, <1>e, <2>1, <2>2, <2>3
<1>1. PlacesTyped'
  BY <1>a, <1>b DEF PlacesTyped, Places
<1>2. MapsTyped'
  BY <1>d, <1>e DEF MapsTyped
<1>3. CodeInv'
  <2>1. pc' = [pc EXCEPT ![t] = "loc"] /\ UNCHANGED <<program, ip>> /\ pc[t] = "string"
    OBVIOUS
  <2>2. \A u \in Threads : /\ u # t => pc'[u] = pc[u]
                           /\ pc'[t] = "loc"
    BY <2>1 DEF PlacesTyped
  <2>3. Code' = Code
    BY <2>1 DEF Code
  <2>4. QED
    BY SMTT(30), <1>a, <1>b, <2>1, <2>2, <2>3 DEF CodeInv, AtStep, Registering, Inside
<1>4. CreateInv'
  BY <1>a, <1>b DEF PlacesTyped, CreateInv, Code
<1>5. SelfInv'
  BY <1>a, <1>b DEF PlacesTyped, SelfInv
<1>6. StageInv'
  BY <1>b, <1>c, <1>e DEF PlacesTyped, StageInv, Registering, Inside
<1>7. SlotsInv'
  BY <1>c, <1>e, <1>f DEF SlotsInv
<1>8. NumbersInv'
  <2>1. pc'[main] \in {"ended", "closed"} <=> pc[main] \in {"ended", "closed"}
    BY RuntimeAssumption DEF PlacesTyped
  <2>2. QED
    BY <1>e, <1>f, <2>1 DEF NumbersInv, Numbered, OnlyMainShares, LooksUpMain
<1>9. BarrierInv'
  <2>1. Meets => Arrived' = Arrived
    BY <1>b, <1>f DEF PlacesTyped, Arrived, Meets, Orderly
  <2>2. \A u \in Arrived : pc[u] = "spin" => pc'[u] = "spin"
    BY DEF PlacesTyped, Arrived
  <2>3. QED
    BY <2>1, <2>2, BarrierKept
<1>10. QED
  BY <1>1, <1>2, <1>3, <1>4, <1>5, <1>6, <1>7, <1>8, <1>9

(* It records the location by its number, and enters its pthread_t.        *)
LEMMA LocKeeps ==
  ASSUME RegistrationInv, NEW t \in Threads, Loc(t)
  PROVE  RegistrationInv'
<1> USE DEF RegistrationInv, Loc, StepDone, At, Goto, CurrentStep, localVars, mapVars, recordVars
<1>a. CodeLegal
  BY ProgramIsLegal DEF PlacesTyped
<1>b. Opened' = Opened
  BY DEF Opened
<1>c. t \in Opened /\ t \in Filled /\ tid_to_threadNumber[t] \in Numbers /\ tid_to_threadNumber[t] # Absent
  BY DEF StageInv, SlotsInv, MapsTyped, Inside, Registering, Filled
<1>d. PICK n \in SeenNumber(t, t) : number' = [number EXCEPT ![t] = n]
  OBVIOUS
<1>e. /\ n \in Numbers /\ n # Absent /\ (~program.racy => n = tid_to_threadNumber[t])
      /\ tid_to_threadNumber' = tid_to_threadNumber
  BY <1>c, NumberSeen, ZeroIsNumber
<1>f. /\ Filled' = Filled
      /\ UNCHANGED <<program, thread_create_count, thread_count_to_tid, main_create_number>>
      /\ \A u \in Threads : number'[u] # Absent <=> IF u = t THEN TRUE ELSE number[u] # Absent
      /\ ~program.racy => number' = number
  <2>1. Filled' = Filled
    BY <1>b, <1>c DEF PlacesTyped, Filled
  <2>2. ~program.racy => number[t] = tid_to_threadNumber[t]
    BY <1>c DEF SlotsInv
  <2>3. number \in [Threads -> Numbers \cup {Absent}]
    BY DEF MapsTyped
  <2>4. QED
    BY <1>d, <1>e, <2>1, <2>2, <2>3
<1>1. PlacesTyped'
  BY <1>a, <1>b DEF PlacesTyped, Places
<1>2. MapsTyped'
  <2>1. threadSelf' \in [Threads -> Threads \cup {Absent}]
    BY DEF MapsTyped, EnterSelf, PlacesTyped
  <2>2. QED
    BY <1>d, <1>e, <2>1 DEF MapsTyped
<1>3. CodeInv'
  BY <1>a, <1>b, <1>c DEF PlacesTyped, CodeInv, CodeLegal, AtStep, Registering, Inside, Code
<1>4. CreateInv'
  BY <1>a, <1>b DEF PlacesTyped, CreateInv, Code
<1>5. SelfInv'
  <2>1. CASE threadSelf[self[t]] # Absent
    BY <1>b, <2>1 DEF PlacesTyped, SelfInv, EnterSelf
  <2>2. CASE threadSelf[self[t]] = Absent
    <3>1. self[t] \in Threads /\ threadSelf' = [threadSelf EXCEPT ![self[t]] = t]
      BY <2>2 DEF EnterSelf, PlacesTyped
    <3>2. \A h \in Threads : threadSelf'[h] = IF h = self[t] THEN t ELSE threadSelf[h]
      BY <3>1 DEF MapsTyped
    <3>3. QED
      BY <1>b, <1>c, <3>2 DEF PlacesTyped, SelfInv
  <2>3. QED
    BY <2>1, <2>2
<1>6. StageInv'
  BY <1>b, <1>c, <1>e DEF PlacesTyped, StageInv, Registering, Inside
<1>7. SlotsInv'
  BY <1>c, <1>e, <1>f DEF SlotsInv
<1>8. NumbersInv'
  <2>1. pc'[main] \in {"ended", "closed"} <=> pc[main] \in {"ended", "closed"}
    BY RuntimeAssumption DEF PlacesTyped
  <2>2. QED
    BY <1>e, <1>f, <2>1 DEF NumbersInv, Numbered, OnlyMainShares, LooksUpMain
<1>9. BarrierInv'
  <2>1. Meets => Arrived' = Arrived
    BY <1>b, <1>f DEF PlacesTyped, Arrived, Meets, Orderly
  <2>2. \A u \in Arrived : pc[u] = "spin" => pc'[u] = "spin"
    BY DEF PlacesTyped, Arrived
  <2>3. QED
    BY <2>1, <2>2, BarrierKept
<1>10. QED
  BY <1>1, <1>2, <1>3, <1>4, <1>5, <1>6, <1>7, <1>8, <1>9

(* A join is logged, under the thread found.                               *)
LEMMA LogJoinKeeps ==
  ASSUME RegistrationInv, NEW t \in Threads, LogJoin(t)
  PROVE  RegistrationInv'
<1> USE DEF RegistrationInv, LogJoin, At, Goto, CurrentStep, localVars, mapVars, recordVars
<1>a. CodeLegal
  BY ProgramIsLegal DEF PlacesTyped
<1>c. CurrentStep(t).arg \in Threads
  <2>1. ip[t] \in 1..Len(Code[t]) /\ Code[t][ip[t]].op = "join"
    BY <1>a DEF CodeInv, AtStep, PlacesTyped
  <2>2. QED
    BY <1>a, <2>1 DEF CodeLegal
<1>d. Joined(t) # Absent => Joined(t) \in Opened
  BY <1>c DEF Joined, SelfInv, PlacesTyped
<1>e. PICK w \in SeenJoined(t) :
        \/ /\ w # Absent
           /\ thread_create_jion' = Append(thread_create_jion, <<"join", w>>)
           /\ pc' = [pc EXCEPT ![t] = "joined"]
           /\ process' = process
        \/ /\ process' = "fatal"
           /\ UNCHANGED <<thread_create_jion, pc>>
  OBVIOUS
<1>f. w # Absent => w \in Opened /\ w \in Threads
  BY <1>d DEF SeenJoined, Opened
<1>b. thread_create_jion' \in Seq({"create", "join"} \X Threads) /\ Opened' = Opened
  <2>1. CASE thread_create_jion' = thread_create_jion
    BY <2>1 DEF Opened, MapsTyped
  <2>2. CASE w # Absent /\ thread_create_jion' = Append(thread_create_jion, <<"join", w>>)
    BY <1>f, <2>2, LogGrows DEF MapsTyped
  <2>3. QED
    BY <1>e, <2>1, <2>2
<1>g. /\ UNCHANGED <<program, ip, self, number, mapVars, thread_set, threadSelf, tid_to_run>>
      /\ process' \in {"running", "fatal"} /\ pc[t] = "join"
      /\ pc' = pc \/ (pc' = [pc EXCEPT ![t] = "joined"] /\ Opened # {})
  BY <1>e, <1>f DEF PlacesTyped
<1>h. pc' \in [Threads -> Places] /\ Filled' = Filled
  BY <1>b, <1>g DEF PlacesTyped, Places, Filled
<1>1. PlacesTyped'
  BY <1>g, <1>h DEF PlacesTyped
<1>2. MapsTyped'
  BY <1>b, <1>g DEF MapsTyped
<1>3. CodeInv'
  <2>1. CASE pc' = pc
    BY <1>a, <1>b, <1>g, <2>1 DEF PlacesTyped, CodeInv, Code
  <2>2. CASE pc' = [pc EXCEPT ![t] = "joined"] /\ Opened # {}
    BY <1>a, <1>b, <1>g, <2>2 DEF PlacesTyped, CodeInv, AtStep, Registering, Inside, Code
  <2>3. QED
    BY <1>g, <2>1, <2>2
<1>4. CreateInv'
  BY <1>g DEF PlacesTyped, CreateInv, Code
<1>5. SelfInv'
  BY <1>b, <1>g DEF PlacesTyped, SelfInv
<1>6. StageInv'
  BY <1>b, <1>g DEF PlacesTyped, StageInv, Registering, Inside
<1>7. SlotsInv'
  BY <1>g, <1>h DEF SlotsInv
<1>8. NumbersInv'
  <2>1. pc'[main] \in {"ended", "closed"} <=> pc[main] \in {"ended", "closed"}
    BY <1>g, RuntimeAssumption DEF PlacesTyped
  <2>2. QED
    BY <1>g, <2>1 DEF NumbersInv, Numbered, OnlyMainShares, LooksUpMain
<1>9. BarrierInv'
  <2>1. Arrived' = Arrived
    BY <1>b, <1>g DEF PlacesTyped, Arrived
  <2>2. QED
    BY <1>g, <2>1, BarrierKept DEF PlacesTyped, Arrived
<1>10. QED
  BY <1>1, <1>2, <1>3, <1>4, <1>5, <1>6, <1>7, <1>8, <1>9

(* A join is noted, and main looked up for it.                             *)
LEMMA NoteJoinKeeps ==
  ASSUME RegistrationInv, NEW t \in Threads, NoteJoin(t)
  PROVE  RegistrationInv'
<1> USE DEF RegistrationInv, NoteJoin, StepDone, At, Goto, CurrentStep, localVars, mapVars, recordVars
<1>a. CodeLegal
  BY ProgramIsLegal DEF PlacesTyped
<1>b. Opened' = Opened
  BY DEF Opened
<1>c. /\ pc' = [pc EXCEPT ![t] = "next"] /\ pc[t] = "joined" /\ tid_to_threadNumber' = WithKey(main)
      /\ UNCHANGED <<program, self, number, thread_create_count, thread_count_to_tid, main_create_number>>
  OBVIOUS
<1>d. Opened # {} /\ Filled' = Filled
  BY <1>b, <1>c DEF CodeInv, Filled, PlacesTyped
<1>e. MainRegistersFirst(program) => t # main \/ ip[main] > 1
  <2>1. MainRegistersFirst(program) => Code[main][1].op = "loc"
    BY DEF MainRegistersFirst, Code
  <2>2. MainRegistersFirst(program) /\ t = main => ip[main] # 1
    BY <1>c, <2>1 DEF CodeInv
  <2>3. QED
    BY <2>2 DEF PlacesTyped
<1>f. /\ tid_to_threadNumber' \in [Threads -> Numbers \cup {Absent}]
      /\ \A u \in Numbered : tid_to_threadNumber'[u] = tid_to_threadNumber[u]
      /\ \A u \in Threads \ {main} : tid_to_threadNumber'[u] = tid_to_threadNumber[u]
  BY <1>c, <1>d, <1>e, MainLookedUp
<1>1. PlacesTyped'
  BY <1>a, <1>b DEF PlacesTyped, Places
<1>2. MapsTyped'
  BY <1>c, <1>f DEF MapsTyped
<1>3. CodeInv'
  BY <1>a, <1>b DEF PlacesTyped, CodeInv, CodeLegal, AtStep, Registering, Inside, Code
<1>4. CreateInv'
  BY <1>a, <1>b DEF PlacesTyped, CreateInv, Code
<1>5. SelfInv'
  BY <1>a, <1>b DEF PlacesTyped, SelfInv
<1>6. StageInv'
  BY <1>b, <1>c, <1>f DEF PlacesTyped, StageInv, Registering, Inside, Numbered
<1>7. SlotsInv'
  BY <1>c, <1>d, <1>e, LookKeepsSlots
<1>8. NumbersInv'
  BY <1>c, <1>d, <1>e, LookKeepsNumbers, RuntimeAssumption DEF PlacesTyped
<1>9. BarrierInv'
  <2>1. Arrived' = Arrived
    BY <1>b DEF PlacesTyped, Arrived
  <2>2. QED
    BY <1>b, <2>1, BarrierKept DEF PlacesTyped, Arrived
<1>10. QED
  BY <1>1, <1>2, <1>3, <1>4, <1>5, <1>6, <1>7, <1>8, <1>9

(* Main ends.                                                              *)
LEMMA EndMainKeeps ==
  ASSUME RegistrationInv, EndMain
  PROVE  RegistrationInv'
<1> USE DEF RegistrationInv, EndMain, At, Goto, CurrentStep, localVars, mapVars, recordVars
<1>a. CodeLegal
  BY ProgramIsLegal DEF PlacesTyped
<1>c. main \in Threads
  BY RuntimeAssumption
<1>b. thread_create_jion' \in Seq({"create", "join"} \X Threads) /\ Opened' = Opened
  BY <1>c, LogGrows DEF MapsTyped
<1>d. Filled' = Filled
  BY <1>b, <1>c DEF PlacesTyped, Filled
<1>1. PlacesTyped'
  BY <1>a, <1>b DEF PlacesTyped, Places
<1>2. MapsTyped'
  BY <1>a, <1>b DEF MapsTyped
<1>3. CodeInv'
  BY <1>a, <1>b, <1>c DEF PlacesTyped, CodeInv, AtStep, Registering, Inside, Code
<1>4. CreateInv'
  BY <1>a, <1>b DEF PlacesTyped, CreateInv, Code
<1>5. SelfInv'
  BY <1>a, <1>b DEF PlacesTyped, SelfInv
<1>6. StageInv'
  BY <1>a, <1>b, <1>c DEF PlacesTyped, StageInv, Registering, Inside
<1>7. SlotsInv'
  BY <1>d DEF SlotsInv
<1>8. NumbersInv'
  <2>1. Numbered' = Numbered
    BY DEF Numbered
  <2>2. Cardinality(Numbered) \in Nat
    BY NumberedIsFinite
  <2>3. pc'[main] = "ended" /\ pc[main] = "done"
    BY <1>c DEF PlacesTyped
  <2>4. thread_create_count <= Cardinality(Numbered)
    BY <2>2, <2>3 DEF NumbersInv, MapsTyped
  <2>5. thread_create_count \in Nat /\ thread_create_count' = thread_create_count + 1
    BY DEF MapsTyped
  <2>6. \A u \in Numbered : tid_to_threadNumber[u] \in Nat
    BY DEF Numbered, MapsTyped, Numbers
  <2>7. \A u \in Numbered : tid_to_threadNumber[u] < thread_create_count'
    BY <2>5, <2>6 DEF NumbersInv
  <2>8. QED
    BY <2>1, <2>2, <2>3, <2>4, <2>5, <2>7 DEF NumbersInv, OnlyMainShares, LooksUpMain
<1>9. BarrierInv'
  <2>1. Arrived' = Arrived
    BY <1>b DEF PlacesTyped, Arrived
  <2>2. QED
    BY <1>b, <2>1, BarrierKept DEF PlacesTyped, Arrived
<1>10. QED
  BY <1>1, <1>2, <1>3, <1>4, <1>5, <1>6, <1>7, <1>8, <1>9

(* traceEnd logs the joins that are missing.                               *)
LEMMA RecoverJoinsKeeps ==
  ASSUME RegistrationInv, RecoverJoins
  PROVE  RegistrationInv'
<1> USE DEF RegistrationInv, RecoverJoins, At, Goto, CurrentStep, localVars, mapVars, recordVars
<1>a. CodeLegal
  BY ProgramIsLegal DEF PlacesTyped
<1>c. main \in Threads
  BY RuntimeAssumption
<1>b. thread_create_jion' \in Seq({"create", "join"} \X Threads) /\ Opened' = Opened
  <2>1. CASE thread_create_jion' = thread_create_jion
    BY <2>1 DEF Opened, MapsTyped
  <2>2. ASSUME NEW missing \in [1..Cardinality({t \in Threads : Open(t) = 1}) -> Threads],
               thread_create_jion' = thread_create_jion \o [i \in DOMAIN missing |-> <<"join", missing[i]>>]
        PROVE  thread_create_jion' \in Seq({"create", "join"} \X Threads) /\ Opened' = Opened
    <3>1. Cardinality({t \in Threads : Open(t) = 1}) \in Nat
      BY RuntimeAssumption, FS_Subset, FS_CardinalityType
    <3>2. QED
      BY <2>2, <3>1, LogIsCompleted DEF MapsTyped
  <2>3. QED
    BY <2>1, <2>2
<1>d. /\ pc' = pc \/ pc' = [pc EXCEPT ![main] = "closed"]
      /\ UNCHANGED <<program, ip, self, number, mapVars, thread_set, threadSelf, tid_to_run>>
      /\ process' \in {"running", "fatal"} /\ pc[main] = "ended"
  BY DEF PlacesTyped
<1>e. pc' \in [Threads -> Places] /\ Filled' = Filled
  BY <1>b, <1>c, <1>d DEF PlacesTyped, Places, Filled
<1>1. PlacesTyped'
  BY <1>d, <1>e DEF PlacesTyped
<1>2. MapsTyped'
  BY <1>b, <1>d DEF MapsTyped
<1>3. CodeInv'
  BY <1>a, <1>b, <1>c, <1>d DEF PlacesTyped, CodeInv, AtStep, Registering, Inside, Code
<1>4. CreateInv'
  BY <1>c, <1>d DEF PlacesTyped, CreateInv, Code
<1>5. SelfInv'
  <2>1. \A u \in Threads : pc'[u] = "unborn" <=> pc[u] = "unborn"
    BY <1>c, <1>d DEF PlacesTyped
  <2>2. UNCHANGED <<self, threadSelf>> /\ self \in [Threads -> Threads]
    BY <1>d DEF PlacesTyped
  <2>3. QED
    BY <1>b, <2>1, <2>2 DEF SelfInv
<1>6. StageInv'
  BY <1>b, <1>c, <1>d DEF PlacesTyped, StageInv, Registering, Inside
<1>7. SlotsInv'
  BY <1>d, <1>e DEF SlotsInv
<1>8. NumbersInv'
  <2>1. pc'[main] \in {"ended", "closed"} <=> pc[main] \in {"ended", "closed"}
    BY <1>c, <1>d DEF PlacesTyped
  <2>2. QED
    BY <1>d, <2>1 DEF NumbersInv, Numbered, OnlyMainShares, LooksUpMain
<1>9. BarrierInv'
  <2>1. Arrived' = Arrived
    BY <1>b, <1>c, <1>d DEF PlacesTyped, Arrived
  <2>2. QED
    BY <1>c, <1>d, <2>1, BarrierKept DEF PlacesTyped, Arrived
<1>10. QED
  BY <1>1, <1>2, <1>3, <1>4, <1>5, <1>6, <1>7, <1>8, <1>9

(* The process exits.                                                      *)
LEMMA ExitKeeps ==
  ASSUME RegistrationInv, Exit
  PROVE  RegistrationInv'
<1> USE DEF RegistrationInv, Exit, At, Goto, CurrentStep, localVars, mapVars, recordVars
<1>a. CodeLegal
  BY ProgramIsLegal DEF PlacesTyped
<1>b. Opened' = Opened
  BY DEF Opened
<1>1. PlacesTyped'
  BY <1>a, <1>b DEF PlacesTyped, Places
<1>2. MapsTyped'
  BY <1>a, <1>b DEF MapsTyped
<1>3. CodeInv'
  BY <1>a, <1>b DEF PlacesTyped, CodeInv, CodeLegal, AtStep, Registering, Inside, Code
<1>4. CreateInv'
  BY <1>a, <1>b DEF PlacesTyped, CreateInv, Code
<1>5. SelfInv'
  BY <1>a, <1>b DEF PlacesTyped, SelfInv
<1>6. StageInv'
  BY <1>a, <1>b DEF PlacesTyped, StageInv, Registering, Inside
<1>7. SlotsInv'
  BY <1>a, <1>b DEF PlacesTyped, SlotsInv, Filled
<1>8. NumbersInv'
  BY <1>a, <1>b DEF PlacesTyped, NumbersInv, Numbered, OnlyMainShares, LooksUpMain
<1>9. BarrierInv'
  <2>1. Arrived' = Arrived
    BY <1>b DEF PlacesTyped, Arrived
  <2>2. QED
    BY <1>b, <2>1, BarrierKept DEF PlacesTyped, Arrived
<1>10. QED
  BY <1>1, <1>2, <1>3, <1>4, <1>5, <1>6, <1>7, <1>8, <1>9

(* The invariant holds in the first state.                                 *)
LEMMA RegistrationInit ==
  ASSUME Init
  PROVE  RegistrationInv
<1> USE DEF Init
<1>a. CodeLegal /\ main \in Threads /\ 0 \in Numbers /\ Absent \notin Numbers
  BY ProgramIsLegal, RuntimeAssumption, ZeroIsNumber
<1>b. Opened = {} /\ Numbered = {} /\ Arrived = {} /\ Filled = {}
  BY DEF Opened, Numbered, Arrived, Filled
<1>1. PlacesTyped
  BY <1>a DEF PlacesTyped, Places
<1>2. MapsTyped
  BY <1>a DEF MapsTyped
<1>3. CodeInv
  BY <1>a DEF CodeInv, AtStep, Registering, Inside, CodeLegal
<1>4. CreateInv
  BY <1>a DEF CreateInv, CodeLegal, Code
<1>5. SelfInv
  BY <1>a DEF SelfInv
<1>6. StageInv
  BY <1>b DEF StageInv, Registering, Inside
<1>7. SlotsInv
  <2>1. \A n \in Numbers : thread_count_to_tid[n] = Absent
    OBVIOUS
  <2>2. QED
    BY <1>a, <1>b, <2>1 DEF SlotsInv
<1>8. NumbersInv
  BY <1>b, FS_EmptySet DEF NumbersInv
<1>9. BarrierInv
  BY <1>b DEF BarrierInv
<1>10. QED
  BY <1>1, <1>2, <1>3, <1>4, <1>5, <1>6, <1>7, <1>8, <1>9 DEF RegistrationInv

(* A stuttering step keeps the invariant.                                  *)
LEMMA RegistrationStutters ==
  ASSUME RegistrationInv, UNCHANGED vars
  PROVE  RegistrationInv'
<1> USE DEF RegistrationInv, vars, localVars, mapVars, recordVars
<1>1. PlacesTyped' /\ MapsTyped'
  BY DEF PlacesTyped, MapsTyped
<1>2. Opened' = Opened /\ Numbered' = Numbered /\ Arrived' = Arrived /\ Filled' = Filled
  BY DEF Opened, Numbered, Arrived, Filled
<1>3. CodeInv' /\ CreateInv' /\ SelfInv'
  BY <1>2 DEF CodeInv, CreateInv, SelfInv, Code
<1>4. StageInv' /\ SlotsInv'
  BY <1>2 DEF StageInv, SlotsInv
<1>5. NumbersInv'
  BY <1>2 DEF NumbersInv, OnlyMainShares, LooksUpMain
<1>6. BarrierInv'
  BY <1>2, BarrierKept
<1>7. QED
  BY <1>1, <1>3, <1>4, <1>5, <1>6

(* Every step keeps the invariant.                                         *)
LEMMA RegistrationStep ==
  ASSUME RegistrationInv, [Next]_vars
  PROVE  RegistrationInv'
<1>1. ASSUME NEW t \in Threads, ThreadStep(t) PROVE RegistrationInv'
  BY <1>1, ReachLocationKeeps, CreateThreadKeeps, JoinThreadKeeps, ThreadReturnsKeeps, RegisterKeeps,
     TakeNumberKeeps, FillSlotKeeps, LogCreateKeeps, ArriveKeeps, LeaveBarrierKeeps, NoteBeginKeeps,
     LocStringKeeps, LocKeeps, LogJoinKeeps, NoteJoinKeeps DEF ThreadStep
<1>2. CASE TraceEnd
  BY <1>2, EndMainKeeps, RecoverJoinsKeeps, ExitKeeps DEF TraceEnd
<1>3. CASE Terminated \/ UNCHANGED vars
  BY <1>3, RegistrationStutters DEF Terminated
<1>4. QED
  BY <1>1, <1>2, <1>3 DEF Next

(* The inductive invariant of the registration holds in every reachable    *)
(* state.                                                                  *)
THEOREM RegistrationCorrect == Spec => []RegistrationInv
<1>1. Init => RegistrationInv
  BY RegistrationInit
<1>2. RegistrationInv /\ [Next]_vars => RegistrationInv'
  BY RegistrationStep
<1>3. QED
  BY <1>1, <1>2, PTL DEF Spec

(* The invariant bounds every variable: numbers are distinct, so the       *)
(* counter is at most the threads and traceEnd.                            *)
LEMMA RegistrationTyped ==
  ASSUME RegistrationInv
  PROVE  RuntimeTypeOK
<1> USE DEF RegistrationInv
<1>1. CodeLegal
  BY ProgramIsLegal DEF PlacesTyped
<1>2. \A t \in Threads : ip[t] \in 1..(Len(Code[t]) + 1)
  BY <1>1 DEF PlacesTyped, CodeInv, CodeLegal
<1>3. thread_create_count \in 0..(Cardinality(Threads) + 1)
  <2>1. Numbered \in SUBSET Threads /\ IsFiniteSet(Threads)
    BY RuntimeAssumption DEF Numbered
  <2>2. Cardinality(Numbered) <= Cardinality(Threads) /\ Cardinality(Threads) \in Nat /\ Cardinality(Numbered) \in Nat
    BY <2>1, FS_Subset, FS_CardinalityType
  <2>3. QED
    BY <2>2 DEF NumbersInv, MapsTyped
<1>4. QED
  BY <1>2, <1>3 DEF RuntimeTypeOK, PlacesTyped, MapsTyped

(* The type invariant of Runtime; the counter of numbers never passes the  *)
(* threads and traceEnd.                                                   *)
THEOREM RuntimeTyped == Spec => []RuntimeTypeOK
<1>1. RegistrationInv => RuntimeTypeOK
  BY RegistrationTyped
<1>2. QED
  BY <1>1, RegistrationCorrect, PTL

(* The log search of the code finds a line exactly when there is one.      *)
LEMMA CountsLines ==
  ASSUME thread_create_jion \in Seq({"create", "join"} \X Threads), NEW kind, NEW t
  PROVE  /\ Count(kind, t) \in Nat
         /\ Count(kind, t) = 0 <=> ~ \E i \in DOMAIN thread_create_jion : thread_create_jion[i] = <<kind, t>>
         /\ (\A i, j \in DOMAIN thread_create_jion :
               thread_create_jion[i] = <<kind, t>> /\ thread_create_jion[j] = <<kind, t>> => i = j)
            => Count(kind, t) <= 1
<1> DEFINE E == {i \in DOMAIN thread_create_jion : thread_create_jion[i] = <<kind, t>>}
<1>1. IsFiniteSet(DOMAIN thread_create_jion)
  <2>1. Len(thread_create_jion) \in Nat /\ DOMAIN thread_create_jion = 1..Len(thread_create_jion)
    OBVIOUS
  <2>2. QED
    BY <2>1, FS_Interval
<1>2. E \in SUBSET DOMAIN thread_create_jion
  OBVIOUS
<1>3. IsFiniteSet(E) /\ Cardinality(E) \in Nat
  BY <1>1, <1>2, FS_Subset, FS_CardinalityType
<1>4. Cardinality(E) = 0 <=> E = {}
  BY <1>3, FS_EmptySet
<1>5. ASSUME \A i, j \in E : i = j PROVE Cardinality(E) <= 1
  <2>1. CASE E = {}
    BY <2>1, <1>3, <1>4
  <2>2. ASSUME NEW i \in E PROVE Cardinality(E) = 1
    <3>1. E = {i}
      BY <1>5, <2>2
    <3>2. QED
      BY <3>1, FS_Singleton
  <2>3. QED
    BY <2>1, <2>2
<1>6. Count(kind, t) = Cardinality(E)
  BY DEF Count
<1>7. E = {} <=> ~ \E i \in DOMAIN thread_create_jion : thread_create_jion[i] = <<kind, t>>
  OBVIOUS
<1>8. (\A i, j \in DOMAIN thread_create_jion :
         thread_create_jion[i] = <<kind, t>> /\ thread_create_jion[j] = <<kind, t>> => i = j)
      => \A i, j \in E : i = j
  OBVIOUS
<1> HIDE DEF E
<1>9. QED
  BY <1>3, <1>4, <1>5, <1>6, <1>7, <1>8

(* A thread has been logged when there is a line of its creation.          *)
LEMMA LoggedIsOpened ==
  ASSUME thread_create_jion \in Seq({"create", "join"} \X Threads), NEW t \in Threads
  PROVE  Logged(t) <=> t \in Opened
BY CountsLines DEF Logged, Opened

(* The slot of a registered thread's number names it, but where reads miss *)
(* or main is looked up.                                                   *)
LEMMA SlotIsOwn ==
  ASSUME RegistrationInv
  PROVE  SlotNamesThread
<1> USE DEF RegistrationInv
<1>1. SUFFICES ASSUME NEW t \in Threads, Logged(t)
               PROVE  LET n == tid_to_threadNumber[t]
                          holder == thread_count_to_tid[n]
                      IN /\ n # Absent
                         /\ \A u \in Threads \ {t} : tid_to_threadNumber[u] = n => n = 0 /\ LooksUpMain(t, u)
                         /\ holder # t => IF n = 0 THEN program.racy \/ LooksUpMain(t, holder)
                                                  ELSE program.racy /\ holder = Absent
  BY DEF SlotNamesThread
<1>2. t \in Filled
  BY <1>1, LoggedIsOpened DEF MapsTyped, Filled
<1>3. t \in Numbered /\ tid_to_threadNumber[t] # Absent
  BY <1>2 DEF SlotsInv, Numbered, Filled
<1>4. \A u \in Threads \ {t} : tid_to_threadNumber[u] = tid_to_threadNumber[t] =>
        tid_to_threadNumber[t] = 0 /\ LooksUpMain(t, u)
  BY <1>3 DEF NumbersInv, Numbered, OnlyMainShares
<1>5. CASE tid_to_threadNumber[t] = 0 /\ ~program.racy
  <2>1. PICK u \in Threads : thread_count_to_tid[0] = u /\ tid_to_threadNumber[u] = 0
    BY <1>2, <1>5 DEF SlotsInv
  <2>2. QED
    BY <1>3, <1>4, <1>5, <2>1
<1>6. CASE tid_to_threadNumber[t] = 0 /\ program.racy
  BY <1>3, <1>4, <1>6
<1>7. CASE tid_to_threadNumber[t] # 0
  BY <1>2, <1>3, <1>4, <1>7 DEF SlotsInv
<1>8. QED
  BY <1>5, <1>6, <1>7

(* In every interleaving of registrations, with unlocked reads that miss   *)
(* and with a main that is looked up before it registers, a number other   *)
(* than 0 is one thread's own and its slot never names another thread      *)
(* (Currency-instr.cpp, tid_to_threadNumber and thread_count_to_tid).      *)
THEOREM SlotAlwaysNamesThread == Spec => []SlotNamesThread
<1>1. RegistrationInv => SlotNamesThread
  BY SlotIsOwn
<1>2. QED
  BY <1>1, RegistrationCorrect, PTL

(* Past the barrier both threads of the plan have their numbers.           *)
LEMMA BothHaveRegistered ==
  ASSUME RegistrationInv
  PROVE  BarrierMeets
<1> USE DEF RegistrationInv
<1>1. \A t \in Threads : Logged(t) <=> t \in Opened
  BY LoggedIsOpened DEF MapsTyped
<1>2. SUFFICES ASSUME Orderly, Ischedule, main_create_number \notin PlanThreads,
                      NEW t \in Threads, PastBarrier(t), number[t] \in PlanThreads,
                      NEW n \in PlanThreads
               PROVE  \E u \in Threads : Logged(u) /\ number[u] = n
  BY DEF BarrierMeets
<1>3. Meets
  BY <1>2 DEF Meets, Orderly, NumbersInv
<1>4. t \in Arrived /\ pc[t] # "spin"
  BY <1>1, <1>2 DEF Arrived, PastBarrier
<1>5. tid_to_run = 2
  BY <1>3, <1>4 DEF BarrierInv
<1>6. PICK u \in Arrived : number[u] = n
  BY <1>2, <1>3, <1>5, OnlyTwoArrive
<1>7. QED
  BY <1>1, <1>6 DEF Arrived

(* Where main registers first and reads do not miss, a thread of the plan  *)
(* is past the barrier only when both threads of the plan have registered  *)
(* (Currency-instr.cpp, the spin on tid_to_run).                           *)
THEOREM BarrierAlwaysMeets == Spec => []BarrierMeets
<1>1. RegistrationInv => BarrierMeets
  BY BothHaveRegistered
<1>2. QED
  BY <1>1, RegistrationCorrect, PTL

(* One line more keeps the log well formed, if a creation is new, a join   *)
(* follows its creation, and that of a sole thread is new.                 *)
LEMMA AppendKeepsLog ==
  ASSUME LogInv, NEW kind \in {"create", "join"}, NEW t \in Threads,
         thread_create_jion' = Append(thread_create_jion, <<kind, t>>),
         UNCHANGED <<program, self>>,
         kind = "create" => t \notin Opened,
         kind = "join" => (Answers(t) => t \in Opened) /\ (Sole(t) => t \notin Closed)
  PROVE  LogInv'
<1> DEFINE n == Len(thread_create_jion)
<1>1. /\ thread_create_jion' \in Seq({"create", "join"} \X Threads)
      /\ n \in Nat /\ DOMAIN thread_create_jion = 1..n /\ DOMAIN thread_create_jion' = 1..(n + 1)
      /\ \A i \in 1..n : thread_create_jion'[i] = thread_create_jion[i]
      /\ thread_create_jion'[n + 1] = <<kind, t>>
  BY LogAppended DEF LogInv
<1>2. \A u \in Threads : Answers(u)' = Answers(u) /\ Sole(u)' = Sole(u)
  BY DEF Answers, Sole, Alone
<1>3. kind = "create" => \A i \in 1..n : thread_create_jion[i] # <<"create", t>>
  BY <1>1 DEF Opened
<1>4. kind = "join" /\ Answers(t) => \E j \in 1..n : thread_create_jion[j] = <<"create", t>>
  BY <1>1 DEF Opened
<1>5. kind = "join" /\ Sole(t) => \A i \in 1..n : thread_create_jion[i] # <<"join", t>>
  BY <1>1 DEF Closed
<1> HIDE DEF n
<1>6. ASSUME NEW u \in Threads, NEW i \in 1..(n + 1), NEW j \in 1..(n + 1),
             thread_create_jion'[i] = <<"create", u>>, thread_create_jion'[j] = <<"create", u>>
      PROVE  i = j
  <2>1. CASE i \in 1..n /\ j \in 1..n
    BY <1>1, <1>6, <2>1 DEF LogInv
  <2>2. CASE i = n + 1 \/ j = n + 1
    <3>1. kind = "create" /\ u = t
      BY <1>1, <1>6, <2>2
    <3>2. QED
      BY <1>1, <1>3, <1>6, <2>2, <3>1
  <2>3. QED
    BY <1>1, <2>1, <2>2
<1>7. ASSUME NEW u \in Threads, Answers(u), NEW i \in 1..(n + 1), thread_create_jion'[i] = <<"join", u>>
      PROVE  \E j \in 1..(i - 1) : thread_create_jion'[j] = <<"create", u>>
  <2>1. CASE i \in 1..n
    <3>1. thread_create_jion[i] = <<"join", u>> /\ i \in DOMAIN thread_create_jion
      BY <1>1, <1>7, <2>1
    <3>2. PICK j \in 1..(i - 1) : thread_create_jion[j] = <<"create", u>>
      BY <1>7, <3>1 DEF LogInv
    <3>3. j \in 1..n
      BY <1>1, <2>1, <3>2
    <3>4. QED
      BY <1>1, <3>2, <3>3
  <2>2. CASE i = n + 1
    <3>1. kind = "join" /\ u = t
      BY <1>1, <1>7, <2>2
    <3>2. PICK j \in 1..n : thread_create_jion[j] = <<"create", u>>
      BY <1>4, <1>7, <3>1
    <3>3. i - 1 = n
      BY <1>1, <2>2
    <3>4. QED
      BY <1>1, <3>2, <3>3
  <2>3. i \in 1..n \/ i = n + 1
    BY <1>1
  <2>4. QED
    BY <2>1, <2>2, <2>3
<1>8. ASSUME NEW u \in Threads, Sole(u), NEW i \in 1..(n + 1), NEW j \in 1..(n + 1),
             thread_create_jion'[i] = <<"join", u>>, thread_create_jion'[j] = <<"join", u>>
      PROVE  i = j
  <2>1. CASE i \in 1..n /\ j \in 1..n
    BY <1>1, <1>8, <2>1 DEF LogInv
  <2>2. CASE i = n + 1 \/ j = n + 1
    <3>1. kind = "join" /\ u = t
      BY <1>1, <1>8, <2>2
    <3>2. QED
      BY <1>1, <1>5, <1>8, <2>2, <3>1
  <2>3. QED
    BY <1>1, <2>1, <2>2
<1>9. thread_create_jion' \in Seq({"create", "join"} \X Threads) /\ DOMAIN thread_create_jion' = 1..(n + 1)
  BY <1>1
<1>10. QED
  BY <1>2, <1>6, <1>7, <1>8, <1>9 DEF LogInv

(* The recovered joins keep the log well formed, if they are of creations  *)
(* that are logged, each once, and those of sole threads are new.          *)
LEMMA CompletionKeepsLog ==
  ASSUME LogInv, NEW n \in Nat, NEW missing \in [1..n -> Threads],
         thread_create_jion' = thread_create_jion \o [i \in DOMAIN missing |-> <<"join", missing[i]>>],
         UNCHANGED <<program, self>>,
         \A i, j \in 1..n : missing[i] = missing[j] => i = j,
         \A i \in 1..n : missing[i] \in Opened /\ (Sole(missing[i]) => missing[i] \notin Closed)
  PROVE  LogInv'
<1> DEFINE m == Len(thread_create_jion)
<1>1. /\ thread_create_jion' \in Seq({"create", "join"} \X Threads)
      /\ m \in Nat /\ DOMAIN thread_create_jion = 1..m /\ DOMAIN thread_create_jion' = 1..(m + n)
      /\ \A i \in 1..m : thread_create_jion'[i] = thread_create_jion[i]
      /\ \A j \in 1..n : thread_create_jion'[m + j] = <<"join", missing[j]>>
      /\ \A i \in 1..(m + n) : i \in 1..m \/ \E j \in 1..n : i = m + j
  BY LogExtended DEF LogInv
<1>2. \A u \in Threads : Answers(u)' = Answers(u) /\ Sole(u)' = Sole(u)
  BY DEF Answers, Sole, Alone
<1>3. \A k \in 1..n : \E j \in 1..m : thread_create_jion[j] = <<"create", missing[k]>>
  BY <1>1 DEF Opened
<1>4. \A i \in 1..m, k \in 1..n : Sole(missing[k]) => thread_create_jion[i] # <<"join", missing[k]>>
  BY <1>1 DEF Closed
<1> HIDE DEF m
<1>5. ASSUME NEW u \in Threads, NEW i \in 1..(m + n), NEW j \in 1..(m + n),
             thread_create_jion'[i] = <<"create", u>>, thread_create_jion'[j] = <<"create", u>>
      PROVE  i = j
  <2>1. \A k \in 1..n : thread_create_jion'[m + k] # <<"create", u>>
    BY <1>1
  <2>2. i \in 1..m /\ j \in 1..m
    BY <1>1, <1>5, <2>1
  <2>3. QED
    BY <1>1, <1>5, <2>2 DEF LogInv
<1>6. ASSUME NEW u \in Threads, Answers(u), NEW i \in 1..(m + n), thread_create_jion'[i] = <<"join", u>>
      PROVE  \E j \in 1..(i - 1) : thread_create_jion'[j] = <<"create", u>>
  <2>1. CASE i \in 1..m
    <3>1. thread_create_jion[i] = <<"join", u>> /\ i \in DOMAIN thread_create_jion
      BY <1>1, <1>6, <2>1
    <3>2. PICK j \in 1..(i - 1) : thread_create_jion[j] = <<"create", u>>
      BY <1>6, <3>1 DEF LogInv
    <3>3. j \in 1..m
      BY <1>1, <2>1, <3>2
    <3>4. QED
      BY <1>1, <3>2, <3>3
  <2>2. ASSUME NEW k \in 1..n, i = m + k PROVE \E j \in 1..(i - 1) : thread_create_jion'[j] = <<"create", u>>
    <3>a. thread_create_jion'[m + k] = <<"join", missing[k]>>
      BY <1>1, <2>2
    <3>b. <<"join", missing[k]>> = <<"join", u>>
      BY <1>6, <2>2, <3>a
    <3>1. u = missing[k]
      BY <3>b
    <3>2. PICK j \in 1..m : thread_create_jion[j] = <<"create", u>>
      BY <1>3, <3>1
    <3>3. j \in 1..(i - 1)
      BY <1>1, <2>2, <3>2
    <3>4. QED
      BY <1>1, <3>2, <3>3
  <2>3. QED
    BY <1>1, <2>1, <2>2
<1>7. ASSUME NEW u \in Threads, Sole(u), NEW i \in 1..(m + n), NEW j \in 1..(m + n),
             thread_create_jion'[i] = <<"join", u>>, thread_create_jion'[j] = <<"join", u>>
      PROVE  i = j
  <2>1. CASE i \in 1..m /\ j \in 1..m
    BY <1>1, <1>7, <2>1 DEF LogInv
  <2>2. ASSUME NEW k \in 1..n, i = m + k, j \in 1..m PROVE FALSE
    <3>a. thread_create_jion'[m + k] = <<"join", missing[k]>> /\ thread_create_jion[j] = <<"join", u>>
      BY <1>1, <1>7, <2>2
    <3>b. <<"join", missing[k]>> = <<"join", u>>
      BY <1>7, <2>2, <3>a
    <3>1. u = missing[k] /\ thread_create_jion[j] = <<"join", missing[k]>>
      BY <3>a, <3>b
    <3>2. QED
      BY <1>4, <1>7, <2>2, <3>1
  <2>3. ASSUME NEW k \in 1..n, j = m + k, i \in 1..m PROVE FALSE
    <3>1. u = missing[k] /\ thread_create_jion[i] = <<"join", missing[k]>>
      BY <1>1, <1>7, <2>3
    <3>2. QED
      BY <1>4, <1>7, <2>3, <3>1
  <2>4. ASSUME NEW k \in 1..n, NEW l \in 1..n, i = m + k, j = m + l PROVE i = j
    <3>a. /\ thread_create_jion'[m + k] = <<"join", missing[k]>>
          /\ thread_create_jion'[m + l] = <<"join", missing[l]>>
      BY <1>1, <2>4
    <3>b. <<"join", missing[k]>> = <<"join", missing[l]>>
      BY <1>7, <2>4, <3>a
    <3>1. missing[k] = missing[l]
      BY <3>b
    <3>2. QED
      BY <2>4, <3>1
  <2>5. QED
    BY <1>1, <2>1, <2>2, <2>3, <2>4
<1>8. thread_create_jion' \in Seq({"create", "join"} \X Threads) /\ DOMAIN thread_create_jion' = 1..(m + n)
  BY <1>1
<1>9. QED
  BY <1>2, <1>5, <1>6, <1>7, <1>8 DEF LogInv

(* A step that leaves the log alone, gives no thread of the log a          *)
(* pthread_t of its own and moves main forward only.                       *)
LEMMA HistoryKept ==
  ASSUME HistoryInv, UNCHANGED <<program, thread_create_jion>>,
         \A t \in Closed : Sole(t)' => Sole(t),
         ip[main] \in Nat, ip'[main] \in Nat, ip[main] <= ip'[main],
         pc[main] = "closed" \/ pc[main] = "ended" => pc'[main] = pc[main],
         pc[main] = "joined" => pc'[main] = "joined" \/ ip[main] < ip'[main]
  PROVE  HistoryInv'
<1>1. Opened' = Opened /\ Closed' = Closed
  BY DEF Opened, Closed
<1>2. LogInv'
  <2>1. \A t \in Threads : Answers(t)' = Answers(t)
    BY DEF Answers
  <2>2. \A t \in Threads : Sole(t)' => \A i, j \in DOMAIN thread_create_jion :
          thread_create_jion[i] = <<"join", t>> /\ thread_create_jion[j] = <<"join", t>> => i = j
    BY DEF HistoryInv, LogInv, Closed
  <2>3. QED
    BY <2>1, <2>2 DEF HistoryInv, LogInv
<1>3. ASSUME NEW t \in Closed, Sole(t)' PROVE JoinedBefore(t)'
  <2>1. JoinedBefore(t)
    BY <1>3 DEF HistoryInv, JoinInv
  <2>2. CASE pc[main] = "closed" \/ (t = main /\ pc[main] = "ended")
    BY <2>2 DEF JoinedBefore
  <2>3. ASSUME t # main, NEW i \in 1..Len(Code[main]),
               Code[main][i].op = "join", Code[main][i].arg = t,
               i < ip[main] \/ (i = ip[main] /\ pc[main] = "joined")
        PROVE  JoinedBefore(t)'
    <3>1. i < ip'[main] \/ (i = ip'[main] /\ pc'[main] = "joined")
      BY <2>3
    <3>2. i \in 1..Len(Code'[main]) /\ Code'[main][i].op = "join" /\ Code'[main][i].arg = t
      BY <2>3 DEF Code
    <3>3. QED
      BY <2>3, <3>1, <3>2 DEF JoinedBefore
  <2>4. QED
    BY <2>1, <2>2, <2>3 DEF JoinedBefore
<1>4. QED
  BY <1>1, <1>2, <1>3 DEF HistoryInv, JoinInv

(* What OnlyMainJoins says of the program that runs.                       *)
JoinsOnce ==
  /\ \A i, j \in 1..Len(Code[main]) :
       Code[main][i].op = "join" /\ Code[main][j].op = "join" /\ Code[main][i].arg = Code[main][j].arg => i = j
  /\ \A t \in Threads \ {main} : \A i \in 1..Len(Code[t]) : Code[t][i].op # "join"

(* In a program of OnlyMainJoins, main joins a thread at most once and no  *)
(* other thread joins.                                                     *)
LEMMA ProgramJoinsOnce ==
  ASSUME OnlyMainJoins(program), program \in Programs
  PROVE  JoinsOnce
BY ProgramAssumption, RuntimeAssumption DEF OnlyMainJoins, LegalProgram, JoinsOnce, Code

(* A creation logged keeps the log well formed: it was not there.          *)
LEMMA LogCreateKeepsHistory ==
  ASSUME RegistrationInv, HistoryInv, NEW t \in Threads, LogCreate(t)
  PROVE  HistoryInv'
<1> USE DEF RegistrationInv, LogCreate, At, Goto, localVars, mapVars
<1>1. t \notin Opened
  BY DEF StageInv, Registering
<1>2. LogInv'
  BY <1>1, AppendKeepsLog DEF HistoryInv
<1>3. Closed' = Closed /\ \A u \in Closed : Sole(u)' = Sole(u)
  BY LogGrows DEF MapsTyped, Sole, Alone
<1>4. \A u \in Closed : Sole(u) => JoinedBefore(u)'
  BY RuntimeAssumption DEF HistoryInv, JoinInv, JoinedBefore, Code
<1>5. QED
  BY <1>2, <1>3, <1>4 DEF HistoryInv, JoinInv

(* A join logged keeps the log well formed: the thread found has           *)
(* registered, and if it is sole it is the one that main stands at the     *)
(* join of, so it was not logged before.                                   *)
LEMMA LogJoinKeepsHistory ==
  ASSUME RegistrationInv, HistoryInv, NEW t \in Threads, LogJoin(t)
  PROVE  HistoryInv'
<1> USE DEF RegistrationInv, At, Goto, localVars, mapVars, CurrentStep
<1>1. main \in Threads /\ CodeLegal /\ UNCHANGED <<program, ip, self>> /\ pc[t] = "join"
  BY ProgramIsLegal, RuntimeAssumption DEF PlacesTyped, LogJoin
<1>2. ip[t] \in 1..Len(Code[t]) /\ Code[t][ip[t]].op = "join"
  BY <1>1 DEF CodeInv, AtStep, PlacesTyped
<1>3. PICK a \in Threads \ {main} : a = Code[t][ip[t]].arg
  BY <1>1, <1>2 DEF CodeLegal
<1>4. Joined(t) # Absent => Joined(t) \in Opened /\ self[Joined(t)] = self[a]
  BY <1>3 DEF Joined, SelfInv, PlacesTyped
<1>5. PICK w \in SeenJoined(t) :
        \/ /\ w # Absent
           /\ thread_create_jion' = Append(thread_create_jion, <<"join", w>>)
           /\ pc' = [pc EXCEPT ![t] = "joined"]
        \/ UNCHANGED <<thread_create_jion, pc>>
  BY DEF LogJoin
<1>6. CASE UNCHANGED <<thread_create_jion, pc>>
  BY <1>1, <1>6, HistoryKept DEF PlacesTyped, Sole, Alone
<1>7. CASE /\ w # Absent
           /\ thread_create_jion' = Append(thread_create_jion, <<"join", w>>)
           /\ pc' = [pc EXCEPT ![t] = "joined"]
  <2>1. w \in Opened /\ w \in Threads /\ self[w] = self[a]
    BY <1>4, <1>7 DEF SeenJoined, Opened
  <2>2. ASSUME Sole(w) PROVE t = main /\ w = a /\ JoinsOnce
    <3>1. JoinsOnce
      BY <2>2, ProgramJoinsOnce DEF Sole, PlacesTyped
    <3>2. t = main
      BY <1>2, <3>1 DEF JoinsOnce
    <3>3. w = a
      BY <1>3, <2>1, <2>2 DEF Sole, Alone
    <3>4. QED
      BY <3>1, <3>2, <3>3
  <2>3. ASSUME Sole(w) PROVE w \notin Closed
    <3>1. SUFFICES ASSUME w \in Closed PROVE FALSE
      OBVIOUS
    <3>2. JoinedBefore(w) /\ t = main /\ w = a /\ JoinsOnce
      BY <2>2, <2>3, <3>1 DEF HistoryInv, JoinInv
    <3>3. PICK i \in 1..Len(Code[main]) : Code[main][i].op = "join" /\ Code[main][i].arg = w /\ i < ip[main]
      BY <1>1, <1>3, <3>2 DEF JoinedBefore
    <3>4. i = ip[main]
      BY <1>1, <1>2, <1>3, <3>2, <3>3 DEF JoinsOnce
    <3>5. QED
      BY <3>3, <3>4 DEF PlacesTyped
  <2>4. LogInv'
    BY <1>1, <1>7, <2>1, <2>3, AppendKeepsLog DEF HistoryInv
  <2>5. Closed' = Closed \cup {w} /\ \A u \in Threads : Sole(u)' = Sole(u)
    BY <1>1, <1>7, <2>1, LogGrows DEF MapsTyped, Sole, Alone
  <2>6. /\ Code' = Code /\ ip' = ip
        /\ t = main => pc'[main] = "joined" /\ pc[main] = "join"
        /\ t # main => pc'[main] = pc[main]
    BY <1>1, <1>7 DEF PlacesTyped, Code
  <2>7. \A u \in Closed : Sole(u) => JoinedBefore(u)'
    BY <2>6 DEF HistoryInv, JoinInv, JoinedBefore
  <2>8. Sole(w) => JoinedBefore(w)'
    BY <1>2, <1>3, <2>2, <2>6 DEF JoinedBefore
  <2>9. JoinInv'
    BY <2>5, <2>7, <2>8 DEF JoinInv, Closed
  <2>10. QED
    BY <2>4, <2>9 DEF HistoryInv
<1>8. QED
  BY <1>5, <1>6, <1>7

(* The end of main leaves the log well formed: main has been opened if it  *)
(* meets a location.                                                       *)
LEMMA EndMainKeepsHistory ==
  ASSUME RegistrationInv, HistoryInv, EndMain
  PROVE  HistoryInv'
<1> USE DEF RegistrationInv, EndMain, At, Goto
<1>1. main \in Threads /\ pc[main] = "done" /\ UNCHANGED <<program, ip, self>>
  BY RuntimeAssumption
<1>2. Answers(main) => main \in Opened
  <2>1. SUFFICES ASSUME MainMeetsLocation(program) PROVE main \in Opened
    BY DEF Answers
  <2>2. PICK i \in 1..Len(Code[main]) : Code[main][i].op = "loc"
    BY <2>1 DEF MainMeetsLocation, Code
  <2>3. CodeLegal
    BY ProgramIsLegal DEF PlacesTyped
  <2>4. ip[main] = Len(Code[main]) + 1
    BY <1>1 DEF CodeInv
  <2>5. i < ip[main]
    BY <1>1, <2>2, <2>3, <2>4 DEF CodeLegal
  <2>6. QED
    BY <1>1, <2>2, <2>5 DEF CodeInv
<1>3. Sole(main) => main \notin Closed
  BY <1>1 DEF HistoryInv, JoinInv, JoinedBefore
<1>4. LogInv'
  BY <1>1, <1>2, <1>3, AppendKeepsLog DEF HistoryInv
<1>5. Closed' = Closed \cup {main} /\ \A u \in Threads : Sole(u)' = Sole(u)
  BY <1>1, LogGrows DEF MapsTyped, Sole, Alone
<1>6. Code' = Code /\ ip' = ip /\ pc'[main] = "ended" /\ pc[main] = "done"
  BY <1>1 DEF PlacesTyped, Code
<1>7. \A u \in Closed : Sole(u) => JoinedBefore(u)'
  BY <1>6 DEF HistoryInv, JoinInv, JoinedBefore
<1>8. JoinedBefore(main)'
  BY <1>6 DEF JoinedBefore
<1>9. QED
  BY <1>4, <1>5, <1>7, <1>8 DEF HistoryInv, JoinInv, Closed

(* The recovery adds joins of threads that are open in the log, each once. *)
LEMMA RecoverJoinsKeepsHistory ==
  ASSUME RegistrationInv, HistoryInv, RecoverJoins
  PROVE  HistoryInv'
<1> DEFINE S == {t \in Threads : Open(t) = 1}
<1>1. /\ main \in Threads /\ ip[main] \in Nat /\ UNCHANGED <<program, ip, self>>
      /\ pc[main] = "ended" /\ pc \in [Threads -> Places]
  BY RuntimeAssumption DEF RecoverJoins, RegistrationInv, PlacesTyped, At
<1>2. CASE UNCHANGED <<thread_create_jion, pc>>
  BY <1>1, <1>2, HistoryKept DEF Sole, Alone
<1>3. ASSUME Goto(main, "closed"),
             NEW missing \in [1..Cardinality(S) -> Threads],
             {missing[i] : i \in DOMAIN missing} = S,
             thread_create_jion' = thread_create_jion \o [i \in DOMAIN missing |-> <<"join", missing[i]>>]
      PROVE  HistoryInv'
  <2>1. IsFiniteSet(S) /\ Cardinality(S) \in Nat
    BY RuntimeAssumption, FS_Subset, FS_CardinalityType
  <2>2. \A t \in S : t \in Opened /\ t \notin Closed
    <3>1. SUFFICES ASSUME NEW t \in S PROVE t \in Opened /\ t \notin Closed
      OBVIOUS
    <3>2. /\ Count("create", t) \in Nat /\ Count("join", t) \in Nat
          /\ Count("create", t) <= 1 /\ Count("create", t) - Count("join", t) = 1
      BY CountsLines DEF HistoryInv, LogInv, Open
    <3>3. Count("create", t) # 0 /\ Count("join", t) = 0
      BY <3>2
    <3>4. QED
      BY <3>3, CountsLines DEF HistoryInv, LogInv, Opened, Closed
  <2>3. \A i, j \in 1..Cardinality(S) : missing[i] = missing[j] => i = j
    <3>1. IsFiniteSet(1..Cardinality(S)) /\ Cardinality(1..Cardinality(S)) = Cardinality(S)
      BY <2>1, FS_Interval
    <3>2. missing \in Surjection(1..Cardinality(S), S)
      <4>1. DOMAIN missing = 1..Cardinality(S)
        OBVIOUS
      <4>2. \A i \in 1..Cardinality(S) : missing[i] \in S
        BY <1>3, <4>1
      <4>3. missing \in [1..Cardinality(S) -> S]
        BY <1>3, <4>2
      <4>4. \A u \in S : \E i \in 1..Cardinality(S) : missing[i] = u
        BY <1>3, <4>1
      <4>5. QED
        BY <4>3, <4>4 DEF Surjection
    <3>3. missing \in Injection(1..Cardinality(S), S)
      BY <2>1, <3>1, <3>2, FS_SurjSameCardinalityImpliesInj
    <3>4. QED
      BY <3>3 DEF Injection, IsInjective
  <2> HIDE DEF S
  <2>4. LogInv'
    <3>1. \A i \in 1..Cardinality(S) : missing[i] \in Opened /\ missing[i] \notin Closed
      BY <1>3, <2>2
    <3>2. QED
      BY <1>1, <1>3, <2>1, <2>3, <3>1, CompletionKeepsLog DEF HistoryInv
  <2>5. pc'[main] = "closed"
    BY <1>1, <1>3 DEF Goto
  <2>6. QED
    BY <2>4, <2>5 DEF HistoryInv, JoinInv, JoinedBefore
<1>4. QED
  BY <1>2, <1>3 DEF RecoverJoins

(* The creation of a thread leaves the log well formed: the new thread had *)
(* nobody's pthread_t, so it can only have taken one.                      *)
LEMMA CreateThreadKeepsHistory ==
  ASSUME RegistrationInv, HistoryInv, NEW t \in Threads, CreateThread(t)
  PROVE  HistoryInv'
<1> USE DEF RegistrationInv, CreateThread, At, localVars, mapVars, recordVars, CurrentStep
<1>1. main \in Threads /\ CodeLegal
  BY ProgramIsLegal, RuntimeAssumption DEF PlacesTyped
<1>2. PICK u \in Threads \ {main} : u = Code[t][ip[t]].arg /\ pc[u] = "unborn" /\ u # t
  <2>1. ip[t] \in 1..Len(Code[t])
    BY <1>1 DEF PlacesTyped, CodeLegal
  <2>2. QED
    BY <1>1, <2>1 DEF CodeLegal, CreateInv, PlacesTyped
<1>3. PICK h : self' = [self EXCEPT ![u] = h]
  BY <1>2
<1>4. self[u] = u /\ \A v \in Threads \ {u} : self'[v] = self[v]
  BY <1>2, <1>3 DEF SelfInv, PlacesTyped
<1>5. \A v \in Threads \ {u} : self[v] # u
  BY <1>2 DEF SelfInv
<1>6. u \notin Closed
  <2>1. u # main \/ MainMeetsLocation(program)
    BY <1>2
  <2>2. u \notin Opened
    BY <1>2 DEF StageInv
  <2>3. SUFFICES ASSUME u \in Closed PROVE FALSE
    OBVIOUS
  <2>4. PICK i \in DOMAIN thread_create_jion : thread_create_jion[i] = <<"join", u>>
    BY <2>3 DEF Closed
  <2>5. PICK j \in 1..(i - 1) : thread_create_jion[j] = <<"create", u>>
    BY <2>1, <2>4 DEF HistoryInv, LogInv, Answers
  <2>6. j \in DOMAIN thread_create_jion
    BY <2>4, <2>5 DEF HistoryInv, LogInv
  <2>7. QED
    BY <2>2, <2>5, <2>6 DEF Opened
<1>7. \A v \in Closed : Sole(v)' => Sole(v)
  BY <1>4, <1>5, <1>6 DEF Sole, Alone, Closed
<1>8. /\ pc'[main] = pc[main] /\ UNCHANGED <<program, thread_create_jion>>
      /\ ip[main] \in Nat /\ ip'[main] \in Nat /\ ip[main] <= ip'[main]
  BY <1>1, <1>2 DEF PlacesTyped
<1>9. QED
  BY <1>7, <1>8, HistoryKept

(* Every step keeps the log well formed.                                   *)
LEMMA HistoryStep ==
  ASSUME RegistrationInv, HistoryInv, [Next]_vars
  PROVE  HistoryInv'
<1> USE DEF RegistrationInv, At, Goto, localVars, recordVars
<1>1. main \in Threads /\ pc \in [Threads -> Places] /\ ip \in [Threads -> Nat]
  BY RuntimeAssumption DEF PlacesTyped
<1>2. UNCHANGED <<program, self>> => \A t \in Closed : Sole(t)' => Sole(t)
  BY DEF Sole, Alone
<1>3. ASSUME NEW t \in Threads, ThreadStep(t) PROVE HistoryInv'
  <2>1. CASE ReachLocation(t)
    BY <1>1, <1>2, <2>1, HistoryKept DEF ReachLocation
  <2>2. CASE CreateThread(t)
    BY <2>2, CreateThreadKeepsHistory
  <2>3. CASE JoinThread(t)
    BY <1>1, <1>2, <2>3, HistoryKept DEF JoinThread
  <2>4. CASE ThreadReturns(t)
    BY <1>1, <1>2, <2>4, HistoryKept DEF ThreadReturns
  <2>5. CASE Register(t)
    BY <1>1, <1>2, <2>5, HistoryKept DEF Register
  <2>6. CASE TakeNumber(t)
    BY <1>1, <1>2, <2>6, HistoryKept DEF TakeNumber
  <2>7. CASE FillSlot(t)
    BY <1>1, <1>2, <2>7, HistoryKept DEF FillSlot
  <2>8. CASE LogCreate(t)
    BY <2>8, LogCreateKeepsHistory
  <2>9. CASE Arrive(t)
    BY <1>1, <1>2, <2>9, HistoryKept DEF Arrive
  <2>10. CASE LeaveBarrier(t)
    BY <1>1, <1>2, <2>10, HistoryKept DEF LeaveBarrier
  <2>11. CASE NoteBegin(t)
    BY <1>1, <1>2, <2>11, HistoryKept DEF NoteBegin
  <2>12. CASE LocString(t)
    BY <1>1, <1>2, <2>12, HistoryKept DEF LocString
  <2>13. CASE Loc(t)
    BY <1>1, <1>2, <2>13, HistoryKept DEF Loc, StepDone
  <2>14. CASE LogJoin(t)
    BY <2>14, LogJoinKeepsHistory
  <2>15. CASE NoteJoin(t)
    BY <1>1, <1>2, <2>15, HistoryKept DEF NoteJoin, StepDone
  <2>16. QED
    BY <1>3, <2>1, <2>2, <2>3, <2>4, <2>5, <2>6, <2>7, <2>8, <2>9, <2>10, <2>11, <2>12, <2>13, <2>14, <2>15
    DEF ThreadStep
<1>4. CASE TraceEnd
  <2>1. CASE Exit
    BY <1>1, <1>2, <2>1, HistoryKept DEF Exit
  <2>2. QED
    BY <1>4, <2>1, EndMainKeepsHistory, RecoverJoinsKeepsHistory DEF TraceEnd
<1>5. CASE Terminated \/ UNCHANGED vars
  BY <1>1, <1>2, <1>5, HistoryKept DEF Terminated, vars
<1>6. QED
  BY <1>3, <1>4, <1>5 DEF Next

(* The log is empty in the first state.                                    *)
LEMMA HistoryInit ==
  ASSUME Init PROVE HistoryInv
<1>1. thread_create_jion = <<>> /\ Closed = {}
  BY DEF Init, Closed
<1>2. QED
  BY <1>1 DEF HistoryInv, LogInv, JoinInv

(* The invariant of the log holds in every reachable state.                *)
THEOREM HistoryCorrect == Spec => []HistoryInv
<1>1. Init => HistoryInv
  BY HistoryInit
<1>2. RegistrationInv /\ HistoryInv /\ [Next]_vars => HistoryInv'
  BY HistoryStep
<1>3. QED
  BY <1>1, <1>2, RegistrationCorrect, PTL DEF Spec

(* The invariant of the log implies the property.                          *)
LEMMA HistoryReads ==
  ASSUME HistoryInv PROVE LogWellFormed
<1>1. ASSUME NEW t \in Threads
      PROVE  /\ Count("create", t) <= 1
             /\ Alone(t) /\ OnlyMainJoins(program) => Count("join", t) <= 1
  BY CountsLines DEF HistoryInv, LogInv, Sole
<1>2. QED
  BY <1>1 DEF HistoryInv, LogInv, LogWellFormed, Answers

(* However pthread_t are reused, every thread is created at most once in   *)
(* the log and joined only after it was created, the joins that traceEnd   *)
(* recovers included; a thread whose pthread_t nobody else had is joined   *)
(* at most once if main does the joins (Currency-instr.cpp,                *)
(* thread_create_jion and threadSelf_to_pid_map).                          *)
THEOREM LogAlwaysWellFormed == Spec => []LogWellFormed
<1>1. HistoryInv => LogWellFormed
  BY HistoryReads
<1>2. QED
  BY <1>1, HistoryCorrect, PTL

=============================================================================
