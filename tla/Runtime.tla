------------------------------ MODULE Runtime ------------------------------
(***************************************************************************)
(* The run-time library linked into the program under test                 *)
(* (llvm_mode/Currency-instr.cpp).  Every thread registers at its first    *)
(* instrumented location: it gets a number, a slot and an entry in the     *)
(* log of creations and joins.  In scheduling mode the two threads of the  *)
(* plan wait for each other at a barrier and every location they pass is   *)
(* recorded.  At exit traceEnd closes the log.                             *)
(*                                                                         *)
(* The library knows a thread by two names.  Its kernel tid is its own and *)
(* stands for the thread here.  Its pthread_t may be that of a thread that *)
(* is gone: threadSelf keeps the first thread that registered under it.    *)
(*                                                                         *)
(* A section under a spin lock is one step; so is a run of statements on   *)
(* data that no other thread uses.                                         *)
(***************************************************************************)
EXTENDS Integers, Sequences, FiniteSets

CONSTANTS
  Threads,        \* the threads of the program
  main,
  Programs,       \* programs under test: code, the instrumented steps of each thread in
                  \* order; ischedule, whether it runs under a plan; racy, whether a map
                  \* read that overlaps an insertion may miss its key
  PlanThreads     \* the numbers of the two threads of the plan

LocStep(l) == [op |-> "loc", arg |-> l]
CreateStep(t) == [op |-> "create", arg |-> t]
JoinStep(t) == [op |-> "join", arg |-> t]

ASSUME RuntimeAssumption ==
  /\ IsFiniteSet(Threads) /\ main \in Threads
  /\ PlanThreads \subseteq Nat /\ IsFiniteSet(PlanThreads) /\ Cardinality(PlanThreads) = 2
  /\ \A p \in Programs : DOMAIN p.code = Threads /\ p.ischedule \in BOOLEAN /\ p.racy \in BOOLEAN

(* pthread_create makes a thread that was not there, a thread is joined     *)
(* once, and nobody creates or joins main.                                  *)
LegalProgram(p) ==
  /\ \A t \in Threads : Len(p.code[t]) \in Nat
  /\ \A t \in Threads : \A i \in 1..Len(p.code[t]) :
       /\ p.code[t][i].op \in {"loc", "create", "join"}
       /\ p.code[t][i].op # "loc" => p.code[t][i].arg \in Threads \ {main}
  /\ \A t, u \in Threads : \A i \in 1..Len(p.code[t]), j \in 1..Len(p.code[u]) :
       /\ p.code[t][i].op # "loc"
       /\ p.code[t][i].op = p.code[u][j].op /\ p.code[t][i].arg = p.code[u][j].arg
       => t = u /\ i = j

ASSUME ProgramAssumption == \A p \in Programs : LegalProgram(p)

(* What not every program does: main meets a location, meets one before it  *)
(* creates a thread, and no other thread joins one.                         *)
MainMeetsLocation(p) == \E i \in 1..Len(p.code[main]) : p.code[main][i].op = "loc"

MainRegistersFirst(p) == Len(p.code[main]) > 0 /\ p.code[main][1].op = "loc"

OnlyMainJoins(p) ==
  \A t \in Threads \ {main} : \A i \in 1..Len(p.code[t]) : p.code[t][i].op # "join"

\* traceEnd takes a number too, by get_add_thread_create_count.
Numbers == 0..Cardinality(Threads)
Absent == -1

VARIABLES
  program,               \* the program that runs
  pc, ip,                \* where each thread stands in the library, and in its code
  number,                \* the local threadNumber of each thread
  thread_set,
  tid_to_threadNumber,   \* thread -> its number, Absent if the map has no such key
  thread_create_count,
  self,                  \* the pthread_t of each thread, named after the first thread to have it
  threadSelf,            \* threadSelf_to_pid_map: pthread_t -> thread, Absent if no such key
  main_create_number,
  tid_to_run,
  thread_count_to_tid,   \* number -> thread, Absent if not set
  thread_create_jion,    \* the log, <<"create", t>> or <<"join", t>>
  thread_main_eara,      \* number -> what main had done when the thread began and was joined
  kp_thread_array,       \* number -> locations, its length is thread_action_count
  kp_mem,                \* what the threads of the plan did, in order
  process                \* "running", "ended" or "fatal"

localVars == <<pc, ip, number, self>>
mapVars == <<tid_to_threadNumber, thread_create_count, thread_count_to_tid, main_create_number>>
recordVars == <<thread_create_jion, thread_main_eara, kp_thread_array, kp_mem>>
vars == <<program, localVars, mapVars, recordVars, thread_set, threadSelf, tid_to_run, process>>

Code == program.code
Ischedule == program.ischedule

Init ==
  /\ program \in Programs
  /\ pc = [t \in Threads |-> IF t = main THEN "next" ELSE "unborn"]
  /\ ip = [t \in Threads |-> 1]
  /\ number = [t \in Threads |-> Absent]
  /\ self = [t \in Threads |-> t]
  /\ thread_set = {}
  /\ threadSelf = [h \in Threads |-> Absent]
  /\ tid_to_threadNumber = [t \in Threads |-> Absent]
  /\ thread_create_count = 0 /\ main_create_number = 0 /\ tid_to_run = 0
  /\ thread_count_to_tid = [n \in Numbers |-> Absent]
  /\ thread_create_jion = <<>>
  /\ thread_main_eara = [n \in Numbers |-> <<Absent, Absent>>]
  /\ kp_thread_array = [n \in Numbers |-> <<>>]
  /\ kp_mem = <<>>
  /\ process = "running"

-----------------------------------------------------------------------------
Goto(t, place) == pc' = [pc EXCEPT ![t] = place]

At(t, place) == process = "running" /\ pc[t] = place

StepDone(t) == ip' = [ip EXCEPT ![t] = @ + 1] /\ Goto(t, "next")

CurrentStep(t) == Code[t][ip[t]]

(* add_tid_to_threadNumber: the next number, for a thread the map lacks. *)
\* A bug of AddTid: the count stays.
AddTidUncounted(t) ==
  /\ tid_to_threadNumber' = [tid_to_threadNumber EXCEPT ![t] = thread_create_count]
  /\ UNCHANGED thread_create_count

AddTid(t) ==
  IF tid_to_threadNumber[t] = Absent
  THEN /\ tid_to_threadNumber' = [tid_to_threadNumber EXCEPT ![t] = thread_create_count]
       /\ thread_create_count' = thread_create_count + 1
  ELSE UNCHANGED <<tid_to_threadNumber, thread_create_count>>

(* tid_to_threadNumber[k] as thread t reads it, without a lock: operator[]  *)
(* of std::map puts 0 for a key it does not find, and may not find a key    *)
(* while another thread is inserting.                                       *)
Inserting(t) == \E u \in Threads \ {t} : pc[u] = "number"

SeenNumber(t, k) ==
  IF tid_to_threadNumber[k] = Absent THEN {0}
  ELSE {tid_to_threadNumber[k]} \cup {n \in {0} : program.racy /\ Inserting(t)}

WithKey(k) ==
  IF tid_to_threadNumber[k] = Absent THEN [tid_to_threadNumber EXCEPT ![k] = 0]
                                     ELSE tid_to_threadNumber

-----------------------------------------------------------------------------
(* The program's own steps. *)
ReachLocation(t) ==
  /\ At(t, "next") /\ ip[t] <= Len(Code[t])
  /\ CurrentStep(t).op = "loc"
  /\ Goto(t, "register")
  /\ UNCHANGED <<program, ip, number, self, mapVars, recordVars, thread_set, threadSelf, tid_to_run, process>>

(* A pthread_t is free again when its thread has ended and has been joined, *)
(* or when nobody will: it is detached.                                     *)
JoinAhead(t) ==
  \E u \in Threads : \E i \in 1..Len(Code[u]) :
    /\ Code[u][i] = JoinStep(t)
    /\ ip[u] < i \/ (ip[u] = i /\ pc[u] = "next")

Gone(t) == t # main /\ pc[t] = "done" /\ ~JoinAhead(t)

FreeSelves ==
  {self[v] : v \in {u \in Threads : Gone(u)}}
    \ {self[v] : v \in {u \in Threads : pc[u] # "unborn" /\ ~Gone(u)}}

\* pthread_create gives the new thread a pthread_t that nobody has, new or used.
CreateThread(t) ==
  /\ At(t, "next") /\ ip[t] <= Len(Code[t])
  /\ CurrentStep(t).op = "create"
  /\ pc' = [pc EXCEPT ![CurrentStep(t).arg] = "next"]
  /\ \E h \in {CurrentStep(t).arg} \cup FreeSelves : self' = [self EXCEPT ![CurrentStep(t).arg] = h]
  /\ ip' = [ip EXCEPT ![t] = @ + 1]
  /\ UNCHANGED <<program, number, mapVars, recordVars, thread_set, threadSelf, tid_to_run, process>>

(* pthread_join returns when the thread has ended; instr_pthread_join runs  *)
(* after it.                                                                *)
JoinThread(t) ==
  /\ At(t, "next") /\ ip[t] <= Len(Code[t])
  /\ CurrentStep(t).op = "join"
  /\ pc[CurrentStep(t).arg] = "done"
  /\ Goto(t, "join")
  /\ UNCHANGED <<program, ip, number, self, mapVars, recordVars, thread_set, threadSelf, tid_to_run, process>>

ThreadReturns(t) ==
  /\ At(t, "next") /\ ip[t] > Len(Code[t])
  /\ Goto(t, "done")
  /\ UNCHANGED <<program, ip, number, self, mapVars, recordVars, thread_set, threadSelf, tid_to_run, process>>

-----------------------------------------------------------------------------
(* init_thread_info, which instr_LOC_string calls first. *)
\* A bug of Register: the thread is not entered in thread_set.
RegisterForgets(t) ==
  /\ At(t, "register")
  /\ Goto(t, IF t \in thread_set THEN "string" ELSE "number")
  /\ UNCHANGED <<program, ip, number, self, mapVars, recordVars, thread_set, threadSelf, tid_to_run, process>>

Register(t) ==
  /\ At(t, "register")
  /\ thread_set' = thread_set \cup {t}
  /\ Goto(t, IF t \in thread_set THEN "string" ELSE "number")
  /\ UNCHANGED <<program, ip, number, self, mapVars, recordVars, threadSelf, tid_to_run, process>>

TakeNumber(t) ==
  /\ At(t, "number")
  /\ AddTid(t)
  /\ Goto(t, "slot")
  /\ UNCHANGED <<program, ip, number, self, thread_count_to_tid, main_create_number, recordVars,
                 thread_set, threadSelf, tid_to_run, process>>

FillSlot(t) ==
  /\ At(t, "slot")
  /\ tid_to_threadNumber' = WithKey(t)
  /\ \E n \in SeenNumber(t, t) :
       /\ number' = [number EXCEPT ![t] = n]
       /\ thread_count_to_tid' = [thread_count_to_tid EXCEPT ![n] = t]
       /\ main_create_number' = IF t = main THEN n ELSE main_create_number
  /\ Goto(t, "log")
  /\ UNCHANGED <<program, ip, self, thread_create_count, recordVars, thread_set, threadSelf, tid_to_run, process>>

LogCreate(t) ==
  /\ At(t, "log")
  /\ thread_create_jion' = Append(thread_create_jion, <<"create", t>>)
  /\ Goto(t, "barrier")
  /\ UNCHANGED <<program, ip, number, self, mapVars, thread_main_eara, kp_thread_array, kp_mem,
                 thread_set, threadSelf, tid_to_run, process>>

(* The two threads of the plan wait for each other unless main is one of    *)
(* them.                                                                    *)
WaitsAtBarrier(t) ==
  Ischedule /\ main_create_number \notin PlanThreads /\ number[t] \in PlanThreads

Arrive(t) ==
  /\ At(t, "barrier")
  /\ tid_to_run' = IF WaitsAtBarrier(t) THEN tid_to_run + 1 ELSE tid_to_run
  /\ Goto(t, IF WaitsAtBarrier(t) THEN "spin" ELSE "eara")
  /\ UNCHANGED <<program, ip, number, self, mapVars, recordVars, thread_set, threadSelf, process>>

\* A bug of EnoughArrived: off by one.
OneArrived == tid_to_run >= 1
\* A bug of EnoughArrived: off by one.
ThreeArrived == tid_to_run > 2

EnoughArrived == tid_to_run >= 2

LeaveBarrier(t) ==
  /\ At(t, "spin")
  /\ EnoughArrived
  /\ Goto(t, "eara")
  /\ UNCHANGED <<program, ip, number, self, mapVars, recordVars, thread_set, threadSelf, tid_to_run, process>>

(* Where main stands when another thread begins. *)
NoteBegin(t) ==
  /\ At(t, "eara")
  /\ Goto(t, "string")
  /\ IF t = main
     THEN UNCHANGED <<tid_to_threadNumber, thread_main_eara>>
     ELSE /\ tid_to_threadNumber' = WithKey(main)
          /\ \E m \in SeenNumber(t, main) :
               thread_main_eara' =
                 [thread_main_eara EXCEPT ![number[t]][1] = Len(kp_thread_array[m])]
  /\ UNCHANGED <<program, ip, number, self, thread_create_count, thread_count_to_tid, main_create_number,
                 thread_create_jion, kp_thread_array, kp_mem,
                 thread_set, threadSelf, tid_to_run, process>>

-----------------------------------------------------------------------------
(* A location met for the third time in a row is not recorded. *)
TooOften(locs, l) ==
  /\ Len(locs) > 2
  /\ locs[Len(locs)] = l
  /\ locs[Len(locs) - 1] = l

(* The rest of instr_LOC_string.  The yields it makes under a plan only     *)
(* delay the thread.                                                        *)
LocString(t) ==
  /\ At(t, "string")
  /\ tid_to_threadNumber' = WithKey(t)
  /\ \E n \in SeenNumber(t, t) :
       /\ number' = [number EXCEPT ![t] = n]
       /\ kp_thread_array' =
            IF TooOften(kp_thread_array[n], CurrentStep(t).arg) THEN kp_thread_array
            ELSE [kp_thread_array EXCEPT ![n] = Append(@, CurrentStep(t).arg)]
  /\ Goto(t, "loc")
  /\ UNCHANGED <<program, ip, self, thread_create_count, thread_count_to_tid, main_create_number,
                 thread_create_jion, thread_main_eara, kp_mem,
                 thread_set, threadSelf, tid_to_run, process>>

(* instr_LOC, the next call: init_thread_info returns at once, the thread   *)
(* is entered in threadSelf_to_pid_map, and a thread of the plan records    *)
(* the location.                                                            *)
\* init_threadSelf: keys are never erased, and one that is there is kept.
EnterSelf(t) ==
  threadSelf' = IF threadSelf[self[t]] = Absent THEN [threadSelf EXCEPT ![self[t]] = t] ELSE threadSelf

Loc(t) ==
  /\ At(t, "loc")
  /\ EnterSelf(t)
  /\ tid_to_threadNumber' = WithKey(t)
  /\ \E n \in SeenNumber(t, t) :
       /\ number' = [number EXCEPT ![t] = n]
       /\ kp_mem' = IF /\ Ischedule /\ n \in PlanThreads
                       /\ ~TooOften(kp_thread_array[n], CurrentStep(t).arg)
                    THEN Append(kp_mem, [threadid |-> n, loc |-> CurrentStep(t).arg])
                    ELSE kp_mem
  /\ StepDone(t)
  /\ UNCHANGED <<program, self, thread_create_count, thread_count_to_tid, main_create_number,
                 thread_create_jion, thread_main_eara, kp_thread_array, thread_set, tid_to_run, process>>

-----------------------------------------------------------------------------
(* instr_pthread_join.  The thread joined is looked up by its pthread_t,    *)
(* without a lock: the thread found is the one that registered under it     *)
(* first.                                                                   *)
Entering(t) == \E u \in Threads \ {t} : pc[u] = "loc" /\ threadSelf[self[u]] = Absent

Joined(t) == threadSelf[self[CurrentStep(t).arg]]

SeenJoined(t) == {Joined(t)} \cup {w \in {Absent} : program.racy /\ Entering(t)}

LogJoin(t) ==
  /\ At(t, "join")
  /\ \E w \in SeenJoined(t) :
       \/ /\ w # Absent
          /\ thread_create_jion' = Append(thread_create_jion, <<"join", w>>)
          /\ Goto(t, "joined")
          /\ UNCHANGED process
       \/ /\ w = Absent
          /\ process' = "fatal"
          /\ UNCHANGED <<thread_create_jion, pc>>
  /\ UNCHANGED <<program, ip, number, self, mapVars, thread_main_eara, kp_thread_array, kp_mem,
                 thread_set, threadSelf, tid_to_run>>

\* add_tid_to_threadNumber finds a number: the thread found has registered.
NoteJoin(t) ==
  /\ At(t, "joined")
  /\ tid_to_threadNumber' = WithKey(main)
  /\ \E n \in SeenNumber(t, Joined(t)), m \in SeenNumber(t, main) :
       thread_main_eara' = [thread_main_eara EXCEPT ![n][2] = Len(kp_thread_array[m])]
  /\ StepDone(t)
  /\ UNCHANGED <<program, number, self, thread_create_count, thread_count_to_tid, main_create_number,
                 thread_create_jion, kp_thread_array, kp_mem,
                 thread_set, threadSelf, tid_to_run, process>>

-----------------------------------------------------------------------------
(* traceEnd, when main has returned.  Threads it has not joined still run.  *)
(* It ends main's entry, then that of every thread that was not joined; a   *)
(* thread that is neither open nor closed in the log ends the program.      *)
Count(kind, t) ==
  Cardinality({i \in DOMAIN thread_create_jion : thread_create_jion[i] = <<kind, t>>})

EndMain ==
  /\ At(main, "done")
  /\ thread_create_count' = thread_create_count + 1
  /\ thread_create_jion' = Append(thread_create_jion, <<"join", main>>)
  /\ Goto(main, "ended")
  /\ UNCHANGED <<program, ip, number, self, tid_to_threadNumber, thread_count_to_tid, main_create_number,
                 thread_main_eara, kp_thread_array, kp_mem,
                 thread_set, threadSelf, tid_to_run, process>>

\* A bug of Open: joins are not subtracted.
OpenedEver(t) == Count("create", t)

Open(t) == Count("create", t) - Count("join", t)

RecoverJoins ==
  /\ At(main, "ended")
  /\ IF \E t \in Threads : Open(t) \notin {0, 1}
     THEN process' = "fatal" /\ UNCHANGED <<thread_create_jion, pc>>
     ELSE /\ Goto(main, "closed")
          /\ \E missing \in [1..Cardinality({t \in Threads : Open(t) = 1}) -> Threads] :
               /\ {missing[i] : i \in DOMAIN missing} = {t \in Threads : Open(t) = 1}
               /\ thread_create_jion' =
                    thread_create_jion \o [i \in DOMAIN missing |-> <<"join", missing[i]>>]
          /\ UNCHANGED process
  /\ UNCHANGED <<program, ip, number, self, mapVars, thread_main_eara, kp_thread_array, kp_mem,
                 thread_set, threadSelf, tid_to_run>>

(* exit() ends the process and every thread in it. *)
Exit ==
  /\ At(main, "closed")
  /\ process' = "ended"
  /\ UNCHANGED <<program, localVars, mapVars, recordVars, thread_set, threadSelf, tid_to_run>>

Ended == process \in {"ended", "fatal"}
Terminated == Ended /\ UNCHANGED vars

ThreadStep(t) ==
  \/ ReachLocation(t) \/ CreateThread(t) \/ JoinThread(t) \/ ThreadReturns(t)
  \/ Register(t) \/ TakeNumber(t) \/ FillSlot(t) \/ LogCreate(t)
  \/ Arrive(t) \/ LeaveBarrier(t) \/ NoteBegin(t)
  \/ LocString(t) \/ Loc(t)
  \/ LogJoin(t) \/ NoteJoin(t)

TraceEnd == EndMain \/ RecoverJoins \/ Exit

Next == (\E t \in Threads : ThreadStep(t)) \/ TraceEnd \/ Terminated

Spec == Init /\ [][Next]_vars

(* The kernel runs every thread that can run, one that spins included.      *)
FairSpec == Spec /\ (\A t \in Threads : WF_vars(ThreadStep(t))) /\ WF_vars(TraceEnd)

-----------------------------------------------------------------------------
Places == {"unborn", "next", "register", "number", "slot", "log", "barrier", "spin", "eara",
           "string", "loc", "join", "joined", "done", "ended", "closed"}

RuntimeTypeOK ==
  /\ pc \in [Threads -> Places] /\ number \in [Threads -> Numbers \cup {Absent}]
  /\ \A t \in Threads : ip[t] \in 1..(Len(Code[t]) + 1)
  /\ tid_to_threadNumber \in [Threads -> Numbers \cup {Absent}]
  /\ thread_create_count \in 0..(Cardinality(Threads) + 1)
  /\ main_create_number \in Numbers /\ tid_to_run \in Nat
  /\ self \in [Threads -> Threads] /\ threadSelf \in [Threads -> Threads \cup {Absent}]
  /\ thread_count_to_tid \in [Numbers -> Threads \cup {Absent}]
  /\ process \in {"running", "ended", "fatal"}

Logged(t) == Count("create", t) > 0

(* The fuzzer turns a number back into a thread with thread_count_to_tid    *)
(* ("Convert thread_count to tid").  A number other than 0 is one thread's  *)
(* own, and its slot names that thread; when unlocked reads may miss, the   *)
(* slot may be empty but never names another.  Number 0 and slot 0 are in   *)
(* dispute only with main, if it was looked up before it registered, or     *)
(* with a thread whose own read missed.                                     *)
LooksUpMain(t, u) == main \in {t, u} /\ ~MainRegistersFirst(program)

SlotNamesThread ==
  \A t \in Threads : Logged(t) =>
    LET n == tid_to_threadNumber[t]
        holder == thread_count_to_tid[n]
    IN /\ n # Absent
       /\ \A u \in Threads \ {t} : tid_to_threadNumber[u] = n => n = 0 /\ LooksUpMain(t, u)
       /\ holder # t => IF n = 0 THEN program.racy \/ LooksUpMain(t, holder)
                                ELSE program.racy /\ holder = Absent

(* The log of creations and joins stays readable while threads append to    *)
(* it, whatever is looked up by a pthread_t that was used before: a thread  *)
(* is opened once, and closed only after that, traceEnd's own entries       *)
(* included.  It is closed once if its pthread_t is its own and main does   *)
(* the joins.                                                               *)
Alone(t) == \A u \in Threads \ {t} : self[u] # self[t]

LogWellFormed ==
  \A t \in Threads :
    /\ Count("create", t) <= 1
    /\ t # main \/ MainMeetsLocation(program) =>
         \A i \in DOMAIN thread_create_jion : thread_create_jion[i] = <<"join", t>> =>
           \E j \in 1..(i - 1) : thread_create_jion[j] = <<"create", t>>
    /\ Alone(t) /\ OnlyMainJoins(program) => Count("join", t) <= 1

(* A thread of the plan passes the barrier only after both have registered: *)
(* from there on the planned order of their actions can be enforced.  This  *)
(* is for a main that registers first and maps that are read as they stand: *)
(* a number that is read wrong waits for the wrong thread.                  *)
PastBarrier(t) == Logged(t) /\ pc[t] \notin {"barrier", "spin"}

Orderly == MainRegistersFirst(program) /\ ~program.racy

BarrierMeets ==
  Orderly /\ Ischedule /\ main_create_number \notin PlanThreads =>
    \A t \in Threads : PastBarrier(t) /\ number[t] \in PlanThreads =>
      \A n \in PlanThreads \cap Numbers : \E u \in Threads : Logged(u) /\ number[u] = n

(* No thread of the plan spins for ever. *)
BarrierOpens == \A t \in Threads : pc[t] = "spin" ~> (pc[t] # "spin" \/ Ended)

(* The program under test ends. *)
ProcessEnds == <>Ended

-----------------------------------------------------------------------------
(* What comments of the code say, and the code does not keep.               *)

(* "used to remember the real progress sequence" (Currency-instr.cpp:540):  *)
(* between two locations, what kp_mem has of a thread of the plan is what   *)
(* the thread's own record has.                                             *)
RealProgressRecorded ==
  \A t \in Threads : Ischedule /\ number[t] \in PlanThreads /\ pc[t] = "next" =>
    Len(kp_thread_array[number[t]]) =
      Cardinality({i \in DOMAIN kp_mem : kp_mem[i].threadid = number[t]})

(* "The map from std make sure the read action is thread-safety"            *)
(* (Currency-instr.cpp:426): a thread that has registered has a slot.       *)
EachHasSlot ==
  \A t \in Threads : Logged(t) => \E n \in Numbers : thread_count_to_tid[n] = t

(* "the map from thread ID to tid" (Currency-instr.cpp:75): a thread that   *)
(* has ended was entered under its pthread_t.                               *)
ThreadIdNamesThread ==
  \A t \in Threads : pc[t] = "done" /\ Logged(t) => threadSelf[self[t]] = t

(* What comes of it: a thread is closed at most once.                       *)
ClosedOnce == \A t \in Threads : Count("join", t) <= 1

(* "recover lost jion!" (Currency-instr.cpp:283): when the process is gone, *)
(* every thread in the log has been closed.                                 *)
LogClosed == process = "ended" => \A t \in Threads : Open(t) = 0

=============================================================================
