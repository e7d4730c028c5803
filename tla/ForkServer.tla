----------------------------- MODULE ForkServer -----------------------------
(***************************************************************************)
(* One run of the program under test: run_target and the signal handlers   *)
(* of the fuzzer (tsafl/TSAFL-fuzz.c), the fork server inside the target   *)
(* (llvm_mode/afl-llvm-rt.o.c) and the processes it forks, over two pipes. *)
(* A process is a pid that can be used again once it has been waited for.  *)
(* SIGKILL is pending until the kernel delivers it: a process may still    *)
(* end by itself before.                                                   *)
(***************************************************************************)
EXTENDS Integers, Sequences, FiniteSets

CONSTANTS
  Pids,         \* process numbers the kernel may give
  MAX_CNT       \* iterations of one process, the argument of __afl_persistent_loop;
                \* 1 for a target that does not call it

ASSUME ForkServerAssumption ==
  /\ Pids \subseteq Nat \ {0}
  /\ MAX_CNT \in Nat \ {0}

VARIABLES
  fpc, child_pid, child_timed_out, prev_timed_out, stop_soon,   \* the fuzzer
  timer, status, outcome,
  spc, srv_child_pid, was_killed, child_stopped, srv_status,    \* the fork server
  srv_killed,
  ctl, st,                                                      \* the pipes
  proc, ending, cycle_cnt, killed                               \* the processes

fuzzerVars == <<fpc, child_pid, child_timed_out, prev_timed_out, stop_soon, timer, status, outcome>>
serverVars == <<spc, srv_child_pid, was_killed, child_stopped, srv_status>>
processVars == <<proc, ending, cycle_cnt, killed>>
vars == <<fuzzerVars, serverVars, srv_killed, ctl, st, processVars>>

NoPid == -1
Endings == {"exit", "crash", "kill"}
Statuses == Endings \cup {"stop", "none"}
Hello == <<"hello">>
PidMsg(p) == <<"pid", p>>
StatusMsg(s) == <<"status", s>>

Init ==
  /\ fpc = "hello" /\ child_pid = NoPid /\ timer = TRUE
  /\ child_timed_out = FALSE /\ prev_timed_out = FALSE /\ stop_soon = FALSE
  /\ status = "none" /\ outcome = "NONE"
  /\ spc = "hello" /\ srv_child_pid = NoPid /\ was_killed = FALSE
  /\ child_stopped = FALSE /\ srv_status = "none" /\ srv_killed = FALSE
  /\ ctl = <<>> /\ st = <<>>
  /\ proc = [p \in Pids |-> "none"]
  /\ ending = [p \in Pids |-> "none"]
  /\ cycle_cnt = [p \in Pids |-> 0]
  /\ killed = {}

-----------------------------------------------------------------------------
(* The fuzzer. *)
Alive(p) == p \in Pids /\ proc[p] \in {"running", "stopped"}

\* A bug of Kill: the handler only sets its flag.
KillNothing(p) == UNCHANGED killed

Kill(p) == killed' = killed \cup {q \in {p} : Alive(q)}

(* A pipe whose other end is gone: run_target returns 0 or is fatal. *)
Lost ==
  /\ fpc' = IF stop_soon THEN "idle" ELSE "fatal"
  /\ outcome' = IF stop_soon THEN "NONE" ELSE outcome
  /\ UNCHANGED <<child_pid, prev_timed_out, stop_soon, timer, status>>

(* init_forkserver, from setitimer on. *)
HelloArrives ==
  /\ fpc = "hello" /\ st # <<>>
  /\ st' = Tail(st) /\ fpc' = "up"
  /\ UNCHANGED <<child_pid, child_timed_out, prev_timed_out, stop_soon, timer, status, outcome>>
  /\ UNCHANGED <<serverVars, srv_killed, ctl, processVars>>

HelloFails ==
  /\ fpc = "hello" /\ st = <<>> /\ spc = "dead"
  /\ fpc' = "fatal" /\ timer' = FALSE
  /\ UNCHANGED <<child_pid, child_timed_out, prev_timed_out, stop_soon, status, outcome>>
  /\ UNCHANGED <<serverVars, srv_killed, ctl, st, processVars>>

ServerIsUp ==
  /\ fpc = "up"
  /\ fpc' = "idle" /\ timer' = FALSE
  /\ UNCHANGED <<child_pid, child_timed_out, prev_timed_out, stop_soon, status, outcome>>
  /\ UNCHANGED <<serverVars, srv_killed, ctl, st, processVars>>

(* run_target up to the write that asks for a process. *)
\* A bug of ClearsTimeout: the flag of the previous run is kept.
KeepsTimeout == UNCHANGED child_timed_out

ClearsTimeout == child_timed_out' = FALSE

Request ==
  /\ fpc = "idle"
  /\ ClearsTimeout
  /\ IF spc = "dead"
     THEN Lost /\ UNCHANGED ctl
     ELSE /\ ctl' = Append(ctl, prev_timed_out)
          /\ fpc' = "getpid"
          /\ UNCHANGED <<child_pid, prev_timed_out, stop_soon, timer, status, outcome>>
  /\ UNCHANGED <<serverVars, srv_killed, st, processVars>>

(* The pid is read and the timer armed. *)
GetPid ==
  /\ fpc = "getpid" /\ st # <<>>
  /\ st' = Tail(st)
  /\ child_pid' = Head(st)[2] /\ timer' = TRUE /\ fpc' = "wait"
  /\ UNCHANGED <<child_timed_out, prev_timed_out, stop_soon, status, outcome>>
  /\ UNCHANGED <<serverVars, srv_killed, ctl, processVars>>

GetStatus ==
  /\ fpc = "wait" /\ st # <<>>
  /\ st' = Tail(st)
  /\ status' = Head(st)[2] /\ fpc' = "got"
  /\ UNCHANGED <<child_pid, child_timed_out, prev_timed_out, stop_soon, timer, outcome>>
  /\ UNCHANGED <<serverVars, srv_killed, ctl, processVars>>

GetNothing ==
  /\ fpc \in {"getpid", "wait"} /\ st = <<>> /\ spc = "dead"
  /\ Lost
  /\ UNCHANGED <<child_timed_out, serverVars, srv_killed, ctl, st, processVars>>

ForgetChild ==
  /\ fpc = "got"
  /\ child_pid' = IF status = "stop" THEN child_pid ELSE 0
  /\ fpc' = "forgotten"
  /\ UNCHANGED <<child_timed_out, prev_timed_out, stop_soon, timer, status, outcome>>
  /\ UNCHANGED <<serverVars, srv_killed, ctl, st, processVars>>

DisarmTimer ==
  /\ fpc = "forgotten"
  /\ timer' = FALSE /\ fpc' = "disarmed"
  /\ UNCHANGED <<child_pid, child_timed_out, prev_timed_out, stop_soon, status, outcome>>
  /\ UNCHANGED <<serverVars, srv_killed, ctl, st, processVars>>

Signaled == status \in {"crash", "kill"}

Fault ==
  IF Signaled /\ ~stop_soon
  THEN IF child_timed_out /\ status = "kill" THEN "TMOUT" ELSE "CRASH"
  ELSE "NONE"

Report ==
  /\ fpc = "disarmed"
  /\ prev_timed_out' = child_timed_out
  /\ outcome' = Fault
  /\ fpc' = "idle"
  /\ UNCHANGED <<child_pid, child_timed_out, stop_soon, timer, status>>
  /\ UNCHANGED <<serverVars, srv_killed, ctl, st, processVars>>

-----------------------------------------------------------------------------
(* The signal handlers of the fuzzer, between any two of its steps. *)
HandleTimeout ==
  /\ timer /\ timer' = FALSE /\ fpc # "fatal"
  /\ child_timed_out' = (child_timed_out \/ child_pid > 0 \/ child_pid = NoPid)
  /\ IF child_pid > 0 THEN Kill(child_pid) ELSE UNCHANGED killed
  /\ srv_killed' = (srv_killed \/ child_pid = NoPid)
  /\ UNCHANGED <<fpc, child_pid, prev_timed_out, stop_soon, status, outcome>>
  /\ UNCHANGED <<serverVars, ctl, st, proc, ending, cycle_cnt>>

HandleStopSig ==
  /\ ~stop_soon /\ stop_soon' = TRUE /\ fpc # "fatal"
  /\ Kill(child_pid) /\ srv_killed' = TRUE
  /\ UNCHANGED <<fpc, child_pid, child_timed_out, prev_timed_out, timer, status, outcome>>
  /\ UNCHANGED <<serverVars, ctl, st, proc, ending, cycle_cnt>>

-----------------------------------------------------------------------------
(* The fork server. *)
SayHello ==
  /\ spc = "hello"
  /\ st' = Append(st, Hello) /\ spc' = "read"
  /\ UNCHANGED <<srv_child_pid, was_killed, child_stopped, srv_status>>
  /\ UNCHANGED <<fuzzerVars, srv_killed, ctl, processVars>>

\* A bug of WritesOff: the race is not looked for.
NeverWritesOff == FALSE

WritesOff == child_stopped /\ was_killed'

ReadRequest ==
  /\ spc = "read" /\ ctl # <<>>
  /\ ctl' = Tail(ctl) /\ was_killed' = Head(ctl)
  /\ spc' = IF WritesOff THEN "reap" ELSE "spawn"
  /\ child_stopped' = (child_stopped /\ ~WritesOff)
  /\ UNCHANGED <<srv_child_pid, srv_status, fuzzerVars, srv_killed, st, processVars>>

(* waitpid of a process that has ended: the pid is free again. *)
Reap(p) ==
  /\ proc[p] = "zombie"
  /\ proc' = [proc EXCEPT ![p] = "none"]
  /\ srv_status' = ending[p]
  /\ UNCHANGED <<ending, cycle_cnt, killed>>

\* A bug of ReapsOld: the killed process is forgotten, not waited for.
SkipsReaping(p) == UNCHANGED <<processVars, srv_status>>

ReapsOld(p) == Reap(p)

WriteOffOld ==
  /\ spc = "reap"
  /\ ReapsOld(srv_child_pid)
  /\ spc' = "spawn"
  /\ UNCHANGED <<srv_child_pid, was_killed, child_stopped, fuzzerVars, srv_killed, ctl, st>>

Fork ==
  /\ spc = "spawn" /\ ~child_stopped
  /\ \E p \in Pids :
       /\ proc[p] = "none"
       /\ proc' = [proc EXCEPT ![p] = "running"]
       /\ cycle_cnt' = [cycle_cnt EXCEPT ![p] = MAX_CNT]
       /\ ending' = [ending EXCEPT ![p] = "none"]
       /\ killed' = killed \ {p}
       /\ srv_child_pid' = p
  /\ spc' = "tell"
  /\ UNCHANGED <<was_killed, child_stopped, srv_status, fuzzerVars, srv_killed, ctl, st>>

ForkFails ==
  /\ spc = "spawn" /\ ~child_stopped
  /\ spc' = "dead"
  /\ UNCHANGED <<srv_child_pid, was_killed, child_stopped, srv_status>>
  /\ UNCHANGED <<fuzzerVars, srv_killed, ctl, st, processVars>>

(* SIGCONT, which a process that has ended does not feel. *)
Resume ==
  /\ spc = "spawn" /\ child_stopped
  /\ child_stopped' = FALSE /\ spc' = "tell"
  /\ proc' = [proc EXCEPT ![srv_child_pid] = IF @ = "stopped" THEN "running" ELSE @]
  /\ UNCHANGED <<srv_child_pid, was_killed, srv_status, ending, cycle_cnt, killed>>
  /\ UNCHANGED <<fuzzerVars, srv_killed, ctl, st>>

TellPid ==
  /\ spc = "tell"
  /\ st' = Append(st, PidMsg(srv_child_pid)) /\ spc' = "wait"
  /\ UNCHANGED <<srv_child_pid, was_killed, child_stopped, srv_status>>
  /\ UNCHANGED <<fuzzerVars, srv_killed, ctl, processVars>>

WaitSeesEnd ==
  /\ spc = "wait"
  /\ Reap(srv_child_pid)
  /\ spc' = "answer"
  /\ UNCHANGED <<srv_child_pid, was_killed, child_stopped, fuzzerVars, srv_killed, ctl, st>>

(* waitpid with WUNTRACED. *)
WaitSeesStop ==
  /\ spc = "wait"
  /\ proc[srv_child_pid] = "stopped"
  /\ srv_status' = "stop" /\ child_stopped' = TRUE /\ spc' = "answer"
  /\ UNCHANGED <<srv_child_pid, was_killed, fuzzerVars, srv_killed, ctl, st, processVars>>

\* A bug of AnswersStatus: the process is not waited for.
AnswersBeforeTheEnd ==
  /\ spc = "wait"
  /\ st' = Append(st, StatusMsg("exit")) /\ spc' = "read"

\* A bug of AnswersStatus: the status is relayed again and again.
AnswersTwice ==
  /\ spc = "answer"
  /\ st' = Append(st, StatusMsg(srv_status)) /\ spc' = "answer"

AnswersStatus ==
  /\ spc = "answer"
  /\ st' = Append(st, StatusMsg(srv_status)) /\ spc' = "read"

AnswerStatus ==
  /\ AnswersStatus
  /\ UNCHANGED <<srv_child_pid, was_killed, child_stopped, srv_status>>
  /\ UNCHANGED <<fuzzerVars, srv_killed, ctl, processVars>>

ServerKilled ==
  /\ srv_killed /\ spc # "dead"
  /\ spc' = "dead"
  /\ UNCHANGED <<srv_child_pid, was_killed, child_stopped, srv_status>>
  /\ UNCHANGED <<fuzzerVars, srv_killed, ctl, st, processVars>>

-----------------------------------------------------------------------------
(* The processes.  The end of an iteration is __afl_persistent_loop: the    *)
(* process stops itself, or leaves the loop after its last iteration.       *)
IterationEnds(p) ==
  /\ proc[p] = "running" /\ cycle_cnt[p] > 1
  /\ cycle_cnt' = [cycle_cnt EXCEPT ![p] = @ - 1]
  /\ proc' = [proc EXCEPT ![p] = "stopped"]
  /\ UNCHANGED <<ending, killed, fuzzerVars, serverVars, srv_killed, ctl, st>>

ProcessEnds(p, how) ==
  /\ \/ proc[p] = "running" /\ how \in {"exit", "crash"}
     \/ Alive(p) /\ p \in killed /\ how = "kill"
  /\ proc' = [proc EXCEPT ![p] = "zombie"]
  /\ ending' = [ending EXCEPT ![p] = how]
  /\ killed' = killed \ {p}
  /\ UNCHANGED <<cycle_cnt, fuzzerVars, serverVars, srv_killed, ctl, st>>

-----------------------------------------------------------------------------
FuzzerStep ==
  \/ HelloArrives \/ HelloFails \/ ServerIsUp
  \/ GetPid \/ GetStatus \/ GetNothing \/ ForgetChild \/ DisarmTimer \/ Report

ServerStep ==
  \/ ReadRequest \/ WriteOffOld \/ Fork \/ ForkFails \/ Resume \/ TellPid
  \/ WaitSeesEnd \/ WaitSeesStop \/ AnswerStatus \/ ServerKilled

KernelKills == \E p \in killed : ProcessEnds(p, "kill")

(* RPFATAL and FATAL end the fuzzer. *)
FuzzerEnded == fpc = "fatal" /\ UNCHANGED vars

Next ==
  \/ FuzzerStep \/ ServerStep \/ Request \/ SayHello
  \/ HandleTimeout \/ HandleStopSig \/ FuzzerEnded
  \/ \E p \in Pids : IterationEnds(p) \/ \E how \in Endings : ProcessEnds(p, how)

Spec == Init /\ [][Next]_vars

(* The kernel runs the fuzzer and the fork server, an armed timer expires   *)
(* and a pending SIGKILL is delivered.  Nothing makes the program under     *)
(* test end, nor the fork server come up.                                   *)
FairSpec ==
  /\ Spec
  /\ WF_vars(FuzzerStep) /\ WF_vars(ServerStep)
  /\ WF_vars(HandleTimeout) /\ WF_vars(KernelKills)

-----------------------------------------------------------------------------
(* The types of the variables; a pipe never holds more than one answer (and  *)
(* its pid) and a dead server's pid is not touched.                          *)
ForkServerTypeOK ==
  /\ fpc \in {"hello", "up", "idle", "getpid", "wait", "got", "forgotten", "disarmed", "fatal"}
  /\ child_pid \in Pids \cup {NoPid, 0} /\ srv_child_pid \in Pids \cup {NoPid}
  /\ {child_timed_out, prev_timed_out, stop_soon, timer} \subseteq BOOLEAN
  /\ {was_killed, child_stopped, srv_killed} \subseteq BOOLEAN
  /\ status \in Statuses /\ srv_status \in Statuses
  /\ outcome \in {"NONE", "TMOUT", "CRASH"}
  /\ spc \in {"hello", "read", "reap", "spawn", "tell", "wait", "answer", "dead"}
  /\ Len(ctl) <= 1 /\ Len(st) <= 2
  /\ proc \in [Pids -> {"none", "running", "stopped", "zombie"}]
  /\ ending \in [Pids -> Endings \cup {"none"}]
  /\ cycle_cnt \in [Pids -> 0..MAX_CNT]
  /\ killed \in SUBSET Pids

(* Once run_target has its answer nothing writes the trace any more and      *)
(* nothing is left in a pipe: "Past this location, trace_bits[] behave very   *)
(* normally".                                                                *)
TraceIsQuiet ==
  fpc \in {"idle", "got", "forgotten", "disarmed"} /\ ~stop_soon =>
    /\ \A p \in Pids : proc[p] # "running"
    /\ ctl = <<>> /\ st = <<>>

(* The fork server never loses a process: between runs the only one that    *)
(* has not been waited for is the one it remembers as stopped.              *)
NoLostChild ==
  spc \in {"read", "spawn"} =>
    \A p \in Pids : proc[p] # "none" => p = srv_child_pid /\ child_stopped

(* The process the fork server wakes up is there: the race its comment      *)
(* names, a SIGKILL sent to a process that had just stopped, is always      *)
(* caught by was_killed.                                                    *)
ResumedIsAlive ==
  spc = "spawn" /\ child_stopped /\ ~stop_soon =>
    proc[srv_child_pid] = "stopped" /\ srv_child_pid \notin killed

-----------------------------------------------------------------------------
(* The run seen by the caller of run_target. *)
Over == stop_soon \/ fpc = "fatal"

Phase ==
  IF Over THEN "over"
  ELSE IF fpc \in {"hello", "up"} THEN "starting"
  ELSE IF fpc = "idle" THEN "idle" ELSE "running"

(* The status sent to the fuzzer and not yet reported by it. *)
InFlight ==
  IF fpc \in {"got", "forgotten", "disarmed"} THEN {status}
  ELSE {st[i][2] : i \in {j \in 1..Len(st) : st[j][1] = "status"}}

Fate ==
  IF Phase # "running" THEN "none"
  ELSE IF InFlight = {} THEN "pending"
  ELSE CASE "crash" \in InFlight -> "crashed"
         [] "kill" \in InFlight -> "killed"
         [] OTHER -> "finished"

Run == INSTANCE TargetRun WITH
  phase <- Phase,
  fate <- Fate,
  late <- (Phase = "running" /\ child_timed_out),
  outcome <- IF Over THEN "NONE" ELSE outcome

(* run_target keeps its promise: the result it returns is how the program   *)
(* ended in this run, and FAULT_TMOUT takes an expired deadline, although   *)
(* the timer may go off at any point and hit a process that has stopped or  *)
(* ended.                                                                   *)
ImplementsTargetRun == Run!TargetRunSpec

(* Every run ends, whatever the program under test does. *)
RunsEnd == fpc \notin {"idle", "fatal"} ~> fpc \in {"idle", "fatal"}
=============================================================================
