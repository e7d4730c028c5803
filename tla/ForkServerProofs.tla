-------------------------- MODULE ForkServerProofs --------------------------
(***************************************************************************)
(* The invariants of ForkServer and its refinement of TargetRun, for any   *)
(* pids, any number of iterations and a timer and a user that may come at  *)
(* any point.  The inductive invariant ties the place of the fuzzer to     *)
(* that of the server by what is in the two pipes.  Then it follows a      *)
(* SIGKILL: from the timer to a process that may have stopped already, to  *)
(* a flag of the fuzzer, to the next request, to the server, which waits   *)
(* for the process instead of waking it up; and a status that says         *)
(* "killed", back to the deadline that it takes.                           *)
(***************************************************************************)
EXTENDS ForkServer, SequenceTheorems, TLAPS

(* What waitpid can tell of a process.                                     *)
Waited == Endings \cup {"stop"}

(* What the status pipe may hold: the status of a run, the pid of its      *)
(* process, or both.                                                       *)
AnswerSent == \E s \in Waited : st = <<StatusMsg(s)>>
PidSent == st = <<PidMsg(srv_child_pid)>>
BothSent == \E s \in Waited : st = <<PidMsg(srv_child_pid), StatusMsg(s)>>

(* run_target has read the status and has not returned.                    *)
Reporting == fpc \in {"got", "forgotten", "disarmed"}

(* The status of the run is in the pipe.                                   *)
Answered == AnswerSent \/ BothSent
AnswerIs(s) == st \in {<<StatusMsg(s)>>, <<PidMsg(srv_child_pid), StatusMsg(s)>>}

(* Where the fuzzer and the server stand with each other: neither pipe     *)
(* holds anything that the one who reads next does not expect, unless the  *)
(* run is being stopped.                                                   *)
PipesInv ==
  /\ ctl \in {<<>>, <<TRUE>>, <<FALSE>>}
  /\ spc = "hello" => fpc = "hello" /\ st = <<>>
  /\ fpc = "hello" => /\ spc \in {"hello", "read", "dead"} /\ ctl = <<>>
                      /\ spc = "read" => st = <<Hello>>
                      /\ spc = "dead" => st \in {<<>>, <<Hello>>}
  /\ fpc = "up" => spc \in {"read", "dead"} /\ ctl = <<>> /\ st = <<>>
  /\ fpc = "idle" => /\ spc \in {"read", "dead"} /\ st = <<>>
                     /\ ctl # <<>> => stop_soon /\ spc = "dead"
  /\ fpc = "getpid" =>
       /\ st # <<>> => ctl = <<>> /\ srv_child_pid \in Pids
       /\ spc = "read" => (ctl # <<>> /\ st = <<>>) \/ BothSent
       /\ spc \in {"reap", "spawn", "tell"} => ctl = <<>> /\ st = <<>>
       /\ spc \in {"wait", "answer"} => PidSent
       /\ spc = "dead" => st = <<>> \/ PidSent \/ BothSent
  /\ fpc = "wait" =>
       /\ spc \in {"wait", "answer", "read", "dead"} /\ ctl = <<>>
       /\ spc = "read" => AnswerSent
       /\ spc \in {"wait", "answer"} => st = <<>>
       /\ spc = "dead" => st = <<>> \/ AnswerSent
  /\ Reporting => spc \in {"read", "dead"} /\ ctl = <<>> /\ st = <<>> /\ status \in Waited
  /\ fpc = "fatal" => spc = "dead" /\ st = <<>>

(* The timer is set only while run_target waits, and for the child it      *)
(* waits for.                                                              *)
TimerInv ==
  /\ timer => fpc \in {"hello", "up", "wait", "got", "forgotten", "fatal"} \/ stop_soon
  /\ fpc = "wait" /\ ~stop_soon => child_pid = srv_child_pid

(* The processes: there is one at most while the server lives, the one it  *)
(* remembers, and it is dead or stopped while the server waits for a       *)
(* request.                                                                *)
ChildInv ==
  /\ fpc \in {"hello", "up"} => child_pid = NoPid /\ ~child_stopped
  /\ \A p \in killed : Alive(p)
  /\ \A p \in Pids : proc[p] = "zombie" => ending[p] \in Endings
  /\ child_stopped => /\ srv_child_pid \in Pids /\ proc[srv_child_pid] # "none"
                      /\ spc \notin {"hello", "reap", "tell", "wait"}
  /\ spc \in {"reap", "tell", "wait"} => srv_child_pid \in Pids
  /\ spc \in {"tell", "wait"} => proc[srv_child_pid] # "none"
  /\ spc # "dead" => \A p \in Pids : proc[p] # "none" => p = srv_child_pid
  /\ spc \in {"hello", "read", "spawn", "answer"} =>
       \A p \in Pids : proc[p] # "none" => child_stopped /\ proc[p] # "running"
  /\ spc = "answer" => srv_status \in Waited

(* No process runs where run_target has its answer.                        *)
QuietInv ==
  (fpc \in {"hello", "up"} \/ Reporting \/ (fpc = "idle" /\ ~stop_soon) \/ Answered)
     => \A p \in Pids : proc[p] # "running"

(* A stopped child that will not wake up, and what lets the fuzzer know:   *)
(* it killed the child itself, in this run or in the last.                 *)
Doomed == srv_child_pid \in killed \/ proc[srv_child_pid] # "stopped"
KillKnown ==
  \/ fpc \in {"wait", "got", "forgotten", "disarmed"} /\ child_timed_out
  \/ fpc = "idle" /\ prev_timed_out
  \/ fpc = "getpid" /\ ctl = <<TRUE>>

(* The deadline of the run under way has passed.                           *)
TimedOut == fpc = "wait" /\ child_timed_out

(* A kill is known to the fuzzer while it can matter: when the server has  *)
(* a stopped child that was killed, the next request will say so.          *)
KillInv ==
  ~stop_soon =>
    /\ spc \in {"answer", "read"} /\ child_stopped /\ Doomed => KillKnown
    /\ spc = "spawn" /\ child_stopped => ~Doomed
    /\ spc \in {"tell", "wait"} /\ srv_child_pid \in killed => TimedOut

(* A status that says the child was killed takes an expired deadline, from *)
(* the process to the report.                                              *)
LateInv ==
  ~stop_soon =>
    /\ \A p \in Pids : spc \in {"tell", "wait"} /\ proc[p] = "zombie" /\ ending[p] = "kill" => TimedOut
    /\ spc = "answer" /\ srv_status = "kill" => TimedOut
    /\ AnswerIs("kill") => TimedOut
    /\ Reporting /\ status = "kill" => child_timed_out

(* The types of the flags.                                                 *)
Flags ==
  /\ child_timed_out \in BOOLEAN /\ prev_timed_out \in BOOLEAN
  /\ stop_soon \in BOOLEAN /\ timer \in BOOLEAN
  /\ was_killed \in BOOLEAN /\ child_stopped \in BOOLEAN /\ srv_killed \in BOOLEAN

(* The types of the rest.                                                  *)
Typed ==
  /\ fpc \in {"hello", "up", "idle", "getpid", "wait", "got", "forgotten", "disarmed", "fatal"}
  /\ child_pid \in Pids \cup {NoPid, 0} /\ srv_child_pid \in Pids \cup {NoPid}
  /\ status \in Statuses /\ srv_status \in Statuses
  /\ outcome \in {"NONE", "TMOUT", "CRASH"}
  /\ spc \in {"hello", "read", "reap", "spawn", "tell", "wait", "answer", "dead"}
  /\ proc \in [Pids -> {"none", "running", "stopped", "zombie"}]
  /\ ending \in [Pids -> Endings \cup {"none"}]
  /\ cycle_cnt \in [Pids -> 0..MAX_CNT]
  /\ killed \in SUBSET Pids

(* The inductive invariant.                                                *)
ForkServerInv == Flags /\ Typed /\ PipesInv /\ TimerInv /\ ChildInv /\ QuietInv /\ KillInv /\ LateInv

(* The pipes are sequences of at most two messages: a second message       *)
(* written.                                                                *)
LEMMA AppendToOne ==
  ASSUME NEW S, NEW s \in Seq(S), NEW b \in S, Len(s) = 1
  PROVE  /\ Append(s, b) \in Seq(S) /\ Len(Append(s, b)) = 2
         /\ Append(s, b)[1] = s[1] /\ Append(s, b)[2] = b
<1>1. Len(s) + 1 = 2 /\ 1 \in 1..Len(s)
  OBVIOUS
<1>2. Append(s, b) \in Seq(S) /\ Len(Append(s, b)) = Len(s) + 1
  BY AppendProperties
<1>3. Append(s, b)[1] = s[1]
  BY <1>1, AppendProperties
<1>4. Append(s, b)[Len(s) + 1] = b
  BY AppendProperties
<1>5. QED
  BY <1>1, <1>2, <1>3, <1>4

(* Two messages, written and read.                                         *)
LEMMA TwoMessages ==
  ASSUME NEW a, NEW b
  PROVE  /\ Append(<<a>>, b) = <<a, b>>
         /\ Head(<<a, b>>) = a /\ Tail(<<a, b>>) = <<b>> /\ <<a, b>> # <<>>
<1> DEFINE s == <<a>>
           t == Append(s, b)
           u == <<a, b>>
<1>1. s \in Seq({a, b}) /\ Len(s) = 1 /\ s[1] = a
  OBVIOUS
<1>2. u \in Seq({a, b}) /\ Len(u) = 2 /\ u[1] = a /\ u[2] = b
  OBVIOUS
<1>3. t \in Seq({a, b}) /\ Len(t) = 2 /\ t[1] = a /\ t[2] = b
  <2>1. b \in {a, b}
    OBVIOUS
  <2> HIDE DEF s
  <2>2. QED
    BY <1>1, <2>1, AppendToOne
<1>4. t = u
  <2> HIDE DEF t, u
  <2>1. \A i \in 1..2 : t[i] = u[i]
    BY <1>2, <1>3
  <2>2. QED
    BY <1>2, <1>3, <2>1
<1>5. Head(u) = a
  OBVIOUS
<1>6. Tail(u) = <<b>>
  OBVIOUS
<1>7. QED
  BY <1>2, <1>4, <1>5, <1>6

(* One message, written and read.                                          *)
LEMMA OneMessage ==
  ASSUME NEW a
  PROVE  /\ Append(<<>>, a) = <<a>> /\ <<a>> # <<>>
         /\ Head(<<a>>) = a /\ Tail(<<a>>) = <<>>
<1>1. Append(<<>>, a) = <<a>>
  OBVIOUS
<1>2. Head(<<a>>) = a /\ Tail(<<a>>) = <<>>
  OBVIOUS
<1>3. QED
  BY <1>1, <1>2

(* One message is not two.                                                 *)
LEMMA OneOrTwo ==
  ASSUME NEW a, NEW b, NEW c
  PROVE  <<a>> # <<b, c>>
OBVIOUS

(* The lengths of the pipes.                                               *)
LEMMA Lengths ==
  ASSUME NEW a, NEW b
  PROVE  Len(<<>>) = 0 /\ Len(<<a>>) = 1 /\ Len(<<a, b>>) = 2
OBVIOUS

(* The kinds of messages are told apart.                                   *)
LEMMA Messages ==
  ASSUME NEW p, NEW s, NEW t
  PROVE  /\ PidMsg(p)[2] = p /\ StatusMsg(s)[2] = s
         /\ StatusMsg(s) # PidMsg(p) /\ Hello # PidMsg(p) /\ Hello # StatusMsg(s)
         /\ StatusMsg(s) = StatusMsg(t) => s = t
BY DEF PidMsg, StatusMsg, Hello

(* A request carries was_killed.                                           *)
LEMMA RequestIsAFlag ==
  ASSUME NEW x \in {<<TRUE>>, <<FALSE>>}
  PROVE  /\ x # <<>> /\ Head(x) \in BOOLEAN /\ Tail(x) = <<>>
         /\ x = <<TRUE>> => Head(x)
<1>1. x = <<TRUE>> \/ x = <<FALSE>>
  OBVIOUS
<1>2. QED
  BY <1>1, OneMessage, Zenon

(* The fork server is there.                                               *)
LEMMA HelloArrivesKeeps ==
  ASSUME ForkServerInv, HelloArrives
  PROVE  ForkServerInv'
<1> USE ForkServerAssumption DEF ForkServerInv, Alive, HelloArrives, fuzzerVars, serverVars, processVars
<1>a. spc \in {"read", "dead"} /\ st = <<Hello>> /\ st' = <<>> /\ ctl = <<>>
  BY OneMessage DEF PipesInv, Typed
<1>1. Flags'
  BY DEF Flags, PipesInv
<1>2. Typed'
  BY DEF Typed, Statuses
<1>3. PipesInv'
  BY <1>a DEF PipesInv, Reporting
<1>4. TimerInv'
  BY DEF TimerInv
<1>5. ChildInv'
  BY DEF PipesInv, ChildInv, Statuses
<1>6. QuietInv'
  BY DEF PipesInv, QuietInv
<1>7. KillInv'
  BY DEF PipesInv, KillInv, Doomed, KillKnown
<1>8. LateInv'
  BY <1>a DEF LateInv, AnswerIs, Reporting
<1>9. QED
  BY <1>1, <1>2, <1>3, <1>4, <1>5, <1>6, <1>7, <1>8

(* The fork server did not come up.                                        *)
LEMMA HelloFailsKeeps ==
  ASSUME ForkServerInv, HelloFails
  PROVE  ForkServerInv'
<1> USE ForkServerAssumption DEF ForkServerInv, Alive, HelloFails, fuzzerVars, serverVars, processVars
<1>1. Flags'
  BY DEF Flags, PipesInv
<1>2. Typed'
  BY DEF Typed, Statuses
<1>3. PipesInv'
  BY DEF Typed, PipesInv, Reporting
<1>4. TimerInv'
  BY DEF TimerInv
<1>5. ChildInv'
  BY DEF PipesInv, ChildInv, Statuses
<1>6. QuietInv'
  BY DEF PipesInv, QuietInv
<1>7. KillInv'
  BY DEF PipesInv, KillInv
<1>8. LateInv'
  BY DEF PipesInv, LateInv, Reporting, AnswerIs
<1>9. QED
  BY <1>1, <1>2, <1>3, <1>4, <1>5, <1>6, <1>7, <1>8

(* init_forkserver returns.                                                *)
LEMMA ServerIsUpKeeps ==
  ASSUME ForkServerInv, ServerIsUp
  PROVE  ForkServerInv'
<1> USE ForkServerAssumption DEF ForkServerInv, Alive, ServerIsUp, fuzzerVars, serverVars, processVars
<1>1. Flags'
  BY DEF Flags, PipesInv
<1>2. Typed'
  BY DEF Typed, Statuses
<1>3. PipesInv'
  BY DEF Typed, PipesInv, Reporting
<1>4. TimerInv'
  BY DEF TimerInv
<1>5. ChildInv'
  BY DEF PipesInv, ChildInv, Statuses
<1>6. QuietInv'
  BY DEF PipesInv, QuietInv
<1>7. KillInv'
  BY DEF PipesInv, KillInv, Doomed, KillKnown
<1>8. LateInv'
  BY DEF PipesInv, LateInv, Reporting, AnswerIs
<1>9. QED
  BY <1>1, <1>2, <1>3, <1>4, <1>5, <1>6, <1>7, <1>8

(* run_target asks for a run: was_killed tells whether the last child was  *)
(* killed.                                                                 *)
LEMMA RequestKeeps ==
  ASSUME ForkServerInv, Request
  PROVE  ForkServerInv'
<1> USE ForkServerAssumption DEF ForkServerInv, Alive, Request, ClearsTimeout, Lost, fuzzerVars, serverVars, processVars
<1>a. /\ st = <<>> /\ spc \in {"read", "dead"}
      /\ ctl # <<>> => stop_soon /\ spc = "dead"
  BY DEF PipesInv
<1>b. ASSUME spc # "dead"
      PROVE  /\ spc = "read" /\ ctl = <<>> /\ ctl' = <<prev_timed_out>> /\ fpc' = "getpid"
             /\ ctl' \in {<<TRUE>>, <<FALSE>>} /\ ctl' # <<>>
  <2>1. ctl = <<>> /\ ctl' = Append(ctl, prev_timed_out) /\ fpc' = "getpid"
    BY <1>a, <1>b
  <2>2. ctl' = <<prev_timed_out>>
    BY <2>1, OneMessage
  <2>3. prev_timed_out = TRUE \/ prev_timed_out = FALSE
    BY DEF Flags
  <2>4. QED
    BY <1>a, <1>b, <2>1, <2>2, <2>3, OneMessage
<1>c. spc = "dead" => ctl' = ctl /\ (fpc' = "fatal" \/ (stop_soon /\ fpc' = "idle"))
  OBVIOUS
<1>1. Flags'
  BY DEF Flags, PipesInv
<1>2. Typed'
  BY DEF Typed, Statuses
<1>3. PipesInv'
  <2>1. CASE spc = "dead"
    BY <1>a, <1>c, <2>1 DEF PipesInv, Reporting
  <2>2. CASE spc # "dead"
    BY <1>a, <1>b, <2>2 DEF PipesInv, Reporting
  <2>3. QED
    BY <2>1, <2>2
<1>4. TimerInv'
  BY DEF TimerInv
<1>5. ChildInv'
  BY DEF PipesInv, ChildInv, Statuses
<1>6. QuietInv'
  BY DEF PipesInv, QuietInv, AnswerSent, BothSent, Reporting, Answered
<1>7. KillInv'
  <2>1. CASE spc = "dead"
    BY <1>a, <1>c, <2>1 DEF KillInv
  <2>2. CASE spc # "dead"
    <3>1. spc' = "read" /\ fpc' = "getpid"
      BY <1>b, <2>2
    <3>2. (child_stopped /\ Doomed /\ ~stop_soon => KillKnown) /\ (KillKnown => prev_timed_out)
      BY <1>b, <2>2 DEF KillInv, KillKnown
    <3>3. prev_timed_out => ctl' = <<TRUE>>
      BY <1>b, <2>2 DEF Flags
    <3>4. QED
      BY <3>1, <3>2, <3>3 DEF KillInv, KillKnown, Doomed
  <2>3. QED
    BY <2>1, <2>2
<1>8. LateInv'
  BY DEF PipesInv, LateInv, Reporting, AnswerIs
<1>9. QED
  BY <1>1, <1>2, <1>3, <1>4, <1>5, <1>6, <1>7, <1>8

(* run_target reads the pid and sets the timer.                            *)
LEMMA GetPidKeeps ==
  ASSUME ForkServerInv, GetPid
  PROVE  ForkServerInv'
<1> USE ForkServerAssumption DEF ForkServerInv, Alive, GetPid, fuzzerVars, serverVars, processVars
<1>a. ctl = <<>> /\ srv_child_pid \in Pids /\ (PidSent \/ BothSent)
  BY DEF PipesInv, Typed
<1>b. child_pid' = srv_child_pid
  <2>1. Head(st) = PidMsg(srv_child_pid)
    BY <1>a, OneMessage, TwoMessages DEF PidSent, BothSent
  <2>2. QED
    BY <2>1, Messages
<1>c. PidSent => st' = <<>> /\ ~BothSent
  BY OneMessage, OneOrTwo DEF PidSent, BothSent
<1>d. ASSUME BothSent PROVE \E s \in Waited : st = <<PidMsg(srv_child_pid), StatusMsg(s)>> /\ st' = <<StatusMsg(s)>>
  BY <1>d, TwoMessages DEF BothSent
<1>1. Flags'
  BY DEF Flags, PipesInv
<1>2. Typed'
  BY DEF Typed, Statuses, PipesInv, PidMsg, BothSent, PidSent
<1>3. PipesInv'
  <2>1. CASE PidSent
    <3>1. st # <<>> /\ spc \in {"wait", "answer", "dead"}
      BY <1>c, <2>1, OneMessage DEF PipesInv, PidSent, Typed
    <3>2. QED
      BY <1>a, <1>c, <2>1, <3>1 DEF PipesInv, Reporting
  <2>2. CASE BothSent
    <3>1. PICK s \in Waited : st = <<PidMsg(srv_child_pid), StatusMsg(s)>> /\ st' = <<StatusMsg(s)>>
      BY <1>d, <2>2
    <3>2. AnswerSent'
      BY <3>1 DEF AnswerSent
    <3>3. st # <<>> /\ ~PidSent
      BY <3>1, OneOrTwo, TwoMessages DEF PidSent
    <3>4. spc \in {"read", "dead"}
      BY <3>3 DEF PipesInv, Typed
    <3>5. QED
      BY <1>a, <3>2, <3>4 DEF PipesInv, Reporting
  <2>3. QED
    BY <1>a, <2>1, <2>2
<1>4. TimerInv'
  BY DEF Typed, TimerInv, PipesInv, PidMsg, PidSent, BothSent
<1>5. ChildInv'
  BY DEF PipesInv, ChildInv, Statuses
<1>6. QuietInv'
  <2>1. CASE PidSent
    BY <1>c, <2>1, OneMessage, TwoMessages DEF QuietInv, Answered, AnswerSent, BothSent, Reporting
  <2>2. CASE BothSent
    BY <2>2 DEF QuietInv, Answered
  <2>3. QED
    BY <1>a, <2>1, <2>2
<1>7. KillInv'
  <2>1. spc # "tell" /\ (spc \in {"read", "answer"} => ctl # <<TRUE>>)
    BY <1>a, OneMessage DEF PipesInv
  <2>2. QED
    BY <1>a, <2>1, OneMessage DEF KillInv, KillKnown, Doomed, TimedOut
<1>8. LateInv'
  <2>1. ASSUME AnswerIs("kill")' PROVE AnswerIs("kill")
    <3>1. CASE PidSent
      BY <1>c, <2>1, <3>1, OneMessage, TwoMessages DEF AnswerIs
    <3>2. CASE BothSent
      <4>1. PICK s \in Waited : st = <<PidMsg(srv_child_pid), StatusMsg(s)>> /\ st' = <<StatusMsg(s)>>
        BY <1>d, <3>2
      <4>2. s = "kill"
        BY <2>1, <4>1, OneOrTwo, Messages DEF AnswerIs
      <4>3. QED
        BY <4>1, <4>2 DEF AnswerIs
    <3>3. QED
      BY <1>a, <3>1, <3>2
  <2>2. QED
    BY <2>1 DEF LateInv, TimedOut, Reporting
<1>9. QED
  BY <1>1, <1>2, <1>3, <1>4, <1>5, <1>6, <1>7, <1>8

(* run_target reads the status.                                            *)
LEMMA GetStatusKeeps ==
  ASSUME ForkServerInv, GetStatus
  PROVE  ForkServerInv'
<1> USE ForkServerAssumption DEF ForkServerInv, Alive, GetStatus, fuzzerVars, serverVars, processVars
<1>a. PICK s \in Waited : st = <<StatusMsg(s)>>
  BY DEF PipesInv, Typed, AnswerSent
<1>b. st' = <<>> /\ status' = s /\ ctl = <<>> /\ spc \in {"read", "dead"}
  BY <1>a, OneMessage, Messages DEF PipesInv
<1>1. Flags'
  BY DEF Flags, PipesInv
<1>2. Typed'
  BY DEF Typed, Statuses, PipesInv, Waited, StatusMsg, AnswerSent
<1>3. PipesInv'
  BY <1>b DEF PipesInv, Reporting
<1>4. TimerInv'
  BY DEF TimerInv
<1>5. ChildInv'
  BY DEF PipesInv, ChildInv, Statuses
<1>6. QuietInv'
  BY <1>a DEF QuietInv, Answered, AnswerSent
<1>7. KillInv'
  BY DEF PipesInv, KillInv, Doomed, KillKnown
<1>8. LateInv'
  <2>1. s = "kill" => AnswerIs("kill")
    BY <1>a DEF AnswerIs
  <2>2. ~AnswerIs("kill")'
    BY <1>b, OneMessage, TwoMessages DEF AnswerIs
  <2>3. QED
    BY <1>b, <2>1, <2>2 DEF LateInv, TimedOut, Reporting
<1>9. QED
  BY <1>1, <1>2, <1>3, <1>4, <1>5, <1>6, <1>7, <1>8

(* The server is gone and run_target reads nothing.                        *)
LEMMA GetNothingKeeps ==
  ASSUME ForkServerInv, GetNothing
  PROVE  ForkServerInv'
<1> USE ForkServerAssumption DEF ForkServerInv, Alive, GetNothing, Lost, fuzzerVars, serverVars, processVars
<1>1. Flags'
  BY DEF Flags, PipesInv
<1>2. Typed'
  BY DEF Typed, Statuses
<1>3. PipesInv'
  BY DEF Typed, PipesInv, Reporting
<1>4. TimerInv'
  BY DEF TimerInv
<1>5. ChildInv'
  BY DEF PipesInv, ChildInv, Statuses
<1>6. QuietInv'
  BY DEF PipesInv, QuietInv, AnswerSent, BothSent, Reporting, Answered
<1>7. KillInv'
  BY DEF PipesInv, KillInv
<1>8. LateInv'
  BY DEF PipesInv, LateInv, Reporting, AnswerIs
<1>9. QED
  BY <1>1, <1>2, <1>3, <1>4, <1>5, <1>6, <1>7, <1>8

(* run_target forgets the child, if it is not stopped.                     *)
LEMMA ForgetChildKeeps ==
  ASSUME ForkServerInv, ForgetChild
  PROVE  ForkServerInv'
<1> USE ForkServerAssumption DEF ForkServerInv, Alive, ForgetChild, fuzzerVars, serverVars, processVars
<1>1. Flags'
  BY DEF Flags, PipesInv
<1>2. Typed'
  BY DEF Typed, Statuses
<1>3. PipesInv'
  BY DEF Typed, PipesInv, Reporting
<1>4. TimerInv'
  BY DEF TimerInv
<1>5. ChildInv'
  BY DEF PipesInv, ChildInv, Statuses
<1>6. QuietInv'
  BY DEF PipesInv, QuietInv, Reporting
<1>7. KillInv'
  BY DEF PipesInv, KillInv, Doomed, KillKnown, TimedOut
<1>8. LateInv'
  BY DEF PipesInv, LateInv, Reporting, AnswerIs
<1>9. QED
  BY <1>1, <1>2, <1>3, <1>4, <1>5, <1>6, <1>7, <1>8

(* run_target resets the timer.                                            *)
LEMMA DisarmTimerKeeps ==
  ASSUME ForkServerInv, DisarmTimer
  PROVE  ForkServerInv'
<1> USE ForkServerAssumption DEF ForkServerInv, Alive, DisarmTimer, fuzzerVars, serverVars, processVars
<1>1. Flags'
  BY DEF Flags, PipesInv
<1>2. Typed'
  BY DEF Typed, Statuses
<1>3. PipesInv'
  BY DEF Typed, PipesInv, Reporting
<1>4. TimerInv'
  BY DEF TimerInv
<1>5. ChildInv'
  BY DEF PipesInv, ChildInv, Statuses
<1>6. QuietInv'
  BY DEF PipesInv, QuietInv, Reporting
<1>7. KillInv'
  BY DEF PipesInv, KillInv, Doomed, KillKnown, TimedOut
<1>8. LateInv'
  BY DEF PipesInv, LateInv, Reporting, AnswerIs
<1>9. QED
  BY <1>1, <1>2, <1>3, <1>4, <1>5, <1>6, <1>7, <1>8

(* run_target returns.                                                     *)
LEMMA ReportKeeps ==
  ASSUME ForkServerInv, Report
  PROVE  ForkServerInv'
<1> USE ForkServerAssumption DEF ForkServerInv, Alive, Report, Fault, Signaled, fuzzerVars, serverVars, processVars
<1>1. Flags'
  BY DEF Flags, PipesInv
<1>2. Typed'
  BY DEF Typed, Statuses
<1>3. PipesInv'
  BY DEF Typed, PipesInv, Reporting
<1>4. TimerInv'
  BY DEF TimerInv
<1>5. ChildInv'
  BY DEF PipesInv, ChildInv, Statuses
<1>6. QuietInv'
  BY DEF PipesInv, QuietInv, Reporting
<1>7. KillInv'
  BY DEF PipesInv, KillInv, Doomed, KillKnown, TimedOut
<1>8. LateInv'
  BY DEF PipesInv, LateInv, Reporting, AnswerIs
<1>9. QED
  BY <1>1, <1>2, <1>3, <1>4, <1>5, <1>6, <1>7, <1>8

(* The timer goes off, at any point.                                       *)
LEMMA HandleTimeoutKeeps ==
  ASSUME ForkServerInv, HandleTimeout
  PROVE  ForkServerInv'
<1> USE ForkServerAssumption DEF ForkServerInv, Alive, HandleTimeout, Kill, fuzzerVars, serverVars, processVars
<1>1. Flags'
  BY DEF Flags, PipesInv
<1>2. Typed'
  <2>1. killed' \in SUBSET Pids
    BY DEF Typed
  <2>2. QED
    BY <2>1 DEF Typed
<1>3. PipesInv'
  BY DEF Typed, PipesInv, AnswerSent, BothSent, PidSent, Reporting
<1>4. TimerInv'
  BY DEF TimerInv
<1>5. ChildInv'
  BY DEF PipesInv, ChildInv, Statuses
<1>6. QuietInv'
  BY DEF PipesInv, QuietInv, AnswerSent, BothSent, Reporting, Answered
<1>7. KillInv'
  BY DEF PipesInv, ChildInv, TimerInv, KillInv, Reporting, Doomed, KillKnown, TimedOut
<1>8. LateInv'
  BY DEF PipesInv, LateInv, Reporting, TimedOut, AnswerIs
<1>9. QED
  BY <1>1, <1>2, <1>3, <1>4, <1>5, <1>6, <1>7, <1>8

(* The user stops the fuzzer, at any point.                                *)
LEMMA HandleStopSigKeeps ==
  ASSUME ForkServerInv, HandleStopSig
  PROVE  ForkServerInv'
<1> USE ForkServerAssumption DEF ForkServerInv, Alive, HandleStopSig, Kill, fuzzerVars, serverVars, processVars
<1>1. Flags'
  BY DEF Flags, PipesInv
<1>2. Typed'
  <2>1. killed' \in SUBSET Pids
    BY DEF Typed
  <2>2. QED
    BY <2>1 DEF Typed
<1>3. PipesInv'
  BY DEF Typed, PipesInv, AnswerSent, BothSent, PidSent, Reporting
<1>4. TimerInv'
  BY DEF TimerInv
<1>5. ChildInv'
  BY DEF PipesInv, ChildInv, Statuses
<1>6. QuietInv'
  BY DEF PipesInv, QuietInv, AnswerSent, BothSent, Reporting, Answered
<1>7. KillInv'
  BY DEF PipesInv, KillInv
<1>8. LateInv'
  BY DEF PipesInv, LateInv
<1>9. QED
  BY <1>1, <1>2, <1>3, <1>4, <1>5, <1>6, <1>7, <1>8

(* The fork server says it is there.                                       *)
LEMMA SayHelloKeeps ==
  ASSUME ForkServerInv, SayHello
  PROVE  ForkServerInv'
<1> USE ForkServerAssumption DEF ForkServerInv, Alive, SayHello, fuzzerVars, serverVars, processVars
<1>1. Flags'
  BY DEF Flags, PipesInv
<1>2. Typed'
  BY DEF Typed, Statuses
<1>3. PipesInv'
  BY DEF Typed, PipesInv, Reporting
<1>4. TimerInv'
  BY DEF TimerInv
<1>5. ChildInv'
  BY DEF PipesInv, ChildInv, Statuses
<1>6. QuietInv'
  BY DEF PipesInv, QuietInv
<1>7. KillInv'
  BY DEF PipesInv, ChildInv, KillInv
<1>8. LateInv'
  BY DEF PipesInv, LateInv, Reporting, StatusMsg, AnswerIs, Hello
<1>9. QED
  BY <1>1, <1>2, <1>3, <1>4, <1>5, <1>6, <1>7, <1>8

(* The server reads a request.                                             *)
LEMMA ReadRequestKeeps ==
  ASSUME ForkServerInv, ReadRequest
  PROVE  ForkServerInv'
<1> USE ForkServerAssumption DEF ForkServerInv, Alive, ReadRequest, WritesOff, fuzzerVars, serverVars, processVars
<1>a. ctl \in {<<TRUE>>, <<FALSE>>} /\ fpc = "getpid" /\ st = <<>>
  BY OneMessage, TwoMessages DEF PipesInv, Typed, Reporting
<1>b. was_killed' \in BOOLEAN /\ ctl' = <<>> /\ (ctl = <<TRUE>> => was_killed')
  BY <1>a, RequestIsAFlag
<1>1. Flags'
  BY <1>b DEF Flags
<1>2. Typed'
  BY DEF Typed, Statuses
<1>3. PipesInv'
  BY <1>a, <1>b DEF PipesInv, Reporting
<1>4. TimerInv'
  BY DEF TimerInv
<1>5. ChildInv'
  BY DEF PipesInv, ChildInv, Statuses
<1>6. QuietInv'
  BY DEF PipesInv, QuietInv, AnswerSent, BothSent, Reporting, Answered
<1>7. KillInv'
  BY <1>a, <1>b DEF KillInv, KillKnown, Doomed
<1>8. LateInv'
  BY DEF PipesInv, LateInv, Reporting, TimedOut, AnswerIs
<1>9. QED
  BY <1>1, <1>2, <1>3, <1>4, <1>5, <1>6, <1>7, <1>8

(* The server waits for the old child that was killed.                     *)
LEMMA WriteOffOldKeeps ==
  ASSUME ForkServerInv, WriteOffOld
  PROVE  ForkServerInv'
<1> USE ForkServerAssumption DEF ForkServerInv, Alive, WriteOffOld, ReapsOld, Reap, fuzzerVars, serverVars, processVars
<1>1. Flags'
  BY DEF Flags, PipesInv
<1>2. Typed'
  BY DEF Typed, Statuses, ChildInv
<1>3. PipesInv'
  BY DEF Typed, PipesInv, Reporting
<1>4. TimerInv'
  BY DEF TimerInv
<1>5. ChildInv'
  BY DEF Typed, PipesInv, ChildInv
<1>6. QuietInv'
  BY DEF PipesInv, QuietInv, AnswerSent, BothSent, Reporting, Answered
<1>7. KillInv'
  BY DEF PipesInv, ChildInv, KillInv
<1>8. LateInv'
  BY DEF PipesInv, LateInv, Reporting, TimedOut, AnswerIs
<1>9. QED
  BY <1>1, <1>2, <1>3, <1>4, <1>5, <1>6, <1>7, <1>8

(* The server forks a child.                                               *)
LEMMA ForkKeeps ==
  ASSUME ForkServerInv, Fork
  PROVE  ForkServerInv'
<1> USE ForkServerAssumption DEF ForkServerInv, Alive, Fork, fuzzerVars, serverVars, processVars
<1>1. Flags'
  BY DEF Flags, PipesInv
<1>2. Typed'
  BY DEF Typed, Statuses
<1>3. PipesInv'
  BY DEF Typed, PipesInv, Reporting
<1>4. TimerInv'
  BY DEF TimerInv, PipesInv
<1>5. ChildInv'
  BY DEF Typed, PipesInv, ChildInv
<1>6. QuietInv'
  BY DEF Typed, PipesInv, ChildInv, QuietInv, AnswerSent, BothSent, StatusMsg, Reporting, Answered
<1>7. KillInv'
  BY DEF PipesInv, KillInv
<1>8. LateInv'
  BY DEF Typed, PipesInv, ChildInv, LateInv, Reporting, StatusMsg, PidMsg, AnswerIs, Endings
<1>9. QED
  BY <1>1, <1>2, <1>3, <1>4, <1>5, <1>6, <1>7, <1>8

(* The server cannot fork and ends.                                        *)
LEMMA ForkFailsKeeps ==
  ASSUME ForkServerInv, ForkFails
  PROVE  ForkServerInv'
<1> USE ForkServerAssumption DEF ForkServerInv, Alive, ForkFails, fuzzerVars, serverVars, processVars
<1>1. Flags'
  BY DEF Flags, PipesInv
<1>2. Typed'
  BY DEF Typed, Statuses
<1>3. PipesInv'
  BY DEF Typed, PipesInv, Reporting
<1>4. TimerInv'
  BY DEF TimerInv
<1>5. ChildInv'
  BY DEF PipesInv, ChildInv, Statuses
<1>6. QuietInv'
  BY DEF PipesInv, QuietInv, AnswerSent, BothSent, Reporting, Answered
<1>7. KillInv'
  BY DEF PipesInv, KillInv
<1>8. LateInv'
  BY DEF PipesInv, LateInv, Reporting, TimedOut, AnswerIs
<1>9. QED
  BY <1>1, <1>2, <1>3, <1>4, <1>5, <1>6, <1>7, <1>8

(* The server wakes the stopped child: it was not killed, or the request   *)
(* would have said so.                                                     *)
LEMMA ResumeKeeps ==
  ASSUME ForkServerInv, Resume
  PROVE  ForkServerInv'
<1> USE ForkServerAssumption DEF ForkServerInv, Alive, Resume, fuzzerVars, serverVars, processVars
<1>a. st = <<>> /\ (fpc = "getpid" \/ fpc = "fatal") /\ ~Answered
  BY OneMessage, TwoMessages DEF PipesInv, Typed, Reporting, Answered, AnswerSent, BothSent
<1>b. ~Answered'
  BY <1>a, OneMessage, TwoMessages DEF Answered, AnswerSent, BothSent
<1>1. Flags'
  BY DEF Flags, PipesInv
<1>2. Typed'
  BY DEF Typed, Statuses
<1>3. PipesInv'
  BY DEF Typed, PipesInv, Reporting
<1>4. TimerInv'
  BY DEF TimerInv
<1>5. ChildInv'
  BY DEF PipesInv, ChildInv, Statuses
<1>6. QuietInv'
  BY <1>a, <1>b DEF QuietInv, Reporting
<1>7. KillInv'
  BY DEF PipesInv, KillInv, Doomed
<1>8. LateInv'
  <2>1. ~stop_soon => proc[srv_child_pid] = "stopped"
    BY DEF KillInv, Doomed
  <2>2. ~AnswerIs("kill")' /\ ~Reporting
    BY <1>a, OneMessage, TwoMessages DEF AnswerIs, Reporting
  <2>3. QED
    BY <2>1, <2>2 DEF ChildInv, LateInv, Reporting
<1>9. QED
  BY <1>1, <1>2, <1>3, <1>4, <1>5, <1>6, <1>7, <1>8

(* The server writes the pid.                                              *)
LEMMA TellPidKeeps ==
  ASSUME ForkServerInv, TellPid
  PROVE  ForkServerInv'
<1> USE ForkServerAssumption DEF ForkServerInv, Alive, TellPid, fuzzerVars, serverVars, processVars
<1>a. fpc \in {"getpid"} /\ ctl = <<>> /\ st = <<>> /\ st' = <<PidMsg(srv_child_pid)>>
  BY OneMessage DEF PipesInv, Typed, Reporting
<1>b. st' # <<>> /\ PidSent' /\ ~Answered' /\ ~AnswerIs("kill")'
  BY <1>a, OneMessage, OneOrTwo, Messages DEF PidSent, Answered, AnswerSent, BothSent, AnswerIs
<1>1. Flags'
  BY DEF Flags, PipesInv
<1>2. Typed'
  BY DEF Typed, Statuses
<1>3. PipesInv'
  BY <1>a, <1>b DEF PipesInv, Reporting, ChildInv
<1>4. TimerInv'
  BY DEF TimerInv
<1>5. ChildInv'
  BY DEF PipesInv, ChildInv, Statuses
<1>6. QuietInv'
  BY <1>a, <1>b DEF QuietInv, Reporting
<1>7. KillInv'
  BY DEF PipesInv, KillInv, TimedOut
<1>8. LateInv'
  BY <1>a, <1>b DEF LateInv, TimedOut, Reporting
<1>9. QED
  BY <1>1, <1>2, <1>3, <1>4, <1>5, <1>6, <1>7, <1>8

(* The child has ended.                                                    *)
LEMMA WaitSeesEndKeeps ==
  ASSUME ForkServerInv, WaitSeesEnd
  PROVE  ForkServerInv'
<1> USE ForkServerAssumption DEF ForkServerInv, Alive, WaitSeesEnd, Reap, fuzzerVars, serverVars, processVars
<1>1. Flags'
  BY DEF Flags, PipesInv
<1>2. Typed'
  BY DEF Typed, Statuses, ChildInv
<1>3. PipesInv'
  BY DEF Typed, PipesInv, PidSent, Reporting
<1>4. TimerInv'
  BY DEF TimerInv
<1>5. ChildInv'
  BY DEF Typed, PipesInv, ChildInv, Waited
<1>6. QuietInv'
  BY DEF PipesInv, QuietInv, AnswerSent, BothSent, Reporting, Answered
<1>7. KillInv'
  BY DEF PipesInv, ChildInv, KillInv
<1>8. LateInv'
  BY DEF PipesInv, ChildInv, LateInv, Reporting, TimedOut, AnswerIs
<1>9. QED
  BY <1>1, <1>2, <1>3, <1>4, <1>5, <1>6, <1>7, <1>8

(* The child has stopped.                                                  *)
LEMMA WaitSeesStopKeeps ==
  ASSUME ForkServerInv, WaitSeesStop
  PROVE  ForkServerInv'
<1> USE ForkServerAssumption DEF ForkServerInv, Alive, WaitSeesStop, fuzzerVars, serverVars, processVars
<1>1. Flags'
  BY DEF Flags, PipesInv
<1>2. Typed'
  BY DEF Typed, Statuses
<1>3. PipesInv'
  BY DEF Typed, PipesInv, PidSent, Reporting
<1>4. TimerInv'
  BY DEF TimerInv
<1>5. ChildInv'
  BY DEF PipesInv, ChildInv, Statuses, Waited
<1>6. QuietInv'
  BY DEF PipesInv, QuietInv, AnswerSent, BothSent, Reporting, Answered
<1>7. KillInv'
  BY DEF PipesInv, KillInv, Doomed, KillKnown, TimedOut
<1>8. LateInv'
  BY DEF PipesInv, LateInv, Reporting, TimedOut, AnswerIs
<1>9. QED
  BY <1>1, <1>2, <1>3, <1>4, <1>5, <1>6, <1>7, <1>8

(* The server writes the status.                                           *)
LEMMA AnswerStatusKeeps ==
  ASSUME ForkServerInv, AnswerStatus
  PROVE  ForkServerInv'
<1> USE ForkServerAssumption DEF ForkServerInv, Alive, AnswerStatus, AnswersStatus, fuzzerVars, serverVars, processVars
<1>a. srv_status \in Waited
  BY DEF ChildInv
<1>b. /\ fpc = "getpid" => st = <<PidMsg(srv_child_pid)>> /\ st' = <<PidMsg(srv_child_pid), StatusMsg(srv_status)>>
      /\ fpc = "wait" => st = <<>> /\ st' = <<StatusMsg(srv_status)>>
      /\ fpc \in {"getpid", "wait"} /\ st' # <<>>
  <2>1. fpc \in {"getpid", "wait"}
    BY DEF PipesInv, Typed, Reporting
  <2>2. fpc = "getpid" => PidSent
    BY DEF PipesInv
  <2>3. fpc = "wait" => st = <<>>
    BY DEF PipesInv
  <2>4. st' = Append(st, StatusMsg(srv_status))
    OBVIOUS
  <2>5. fpc = "getpid" => st' = <<PidMsg(srv_child_pid), StatusMsg(srv_status)>>
    BY <2>2, <2>4, TwoMessages DEF PidSent
  <2>6. fpc = "wait" => st' = <<StatusMsg(srv_status)>>
    BY <2>3, <2>4, OneMessage
  <2>7. QED
    BY <2>1, <2>2, <2>3, <2>5, <2>6, OneMessage, TwoMessages DEF PidSent
<1>1. Flags'
  BY DEF Flags, PipesInv
<1>2. Typed'
  BY DEF Typed, Statuses
<1>3. PipesInv'
  <2>1. ctl = <<>> /\ (fpc = "getpid" => srv_child_pid \in Pids)
    BY <1>b, OneMessage DEF PipesInv
  <2>2. (fpc = "getpid" => BothSent') /\ (fpc = "wait" => AnswerSent')
    BY <1>a, <1>b DEF BothSent, AnswerSent
  <2>3. QED
    BY <1>b, <2>1, <2>2 DEF PipesInv, Reporting
<1>4. TimerInv'
  BY DEF TimerInv
<1>5. ChildInv'
  BY DEF PipesInv, ChildInv, Statuses
<1>6. QuietInv'
  BY DEF PipesInv, ChildInv, QuietInv
<1>7. KillInv'
  BY DEF PipesInv, KillInv, Doomed, KillKnown
<1>8. LateInv'
  <2>1. AnswerIs("kill")' => srv_status = "kill"
    BY <1>b, OneOrTwo, TwoMessages, Messages DEF AnswerIs
  <2>2. QED
    BY <1>b, <2>1 DEF LateInv, TimedOut, Reporting
<1>9. QED
  BY <1>1, <1>2, <1>3, <1>4, <1>5, <1>6, <1>7, <1>8

(* The fork server is killed.                                              *)
LEMMA ServerKilledKeeps ==
  ASSUME ForkServerInv, ServerKilled
  PROVE  ForkServerInv'
<1> USE ForkServerAssumption DEF ForkServerInv, Alive, ServerKilled, fuzzerVars, serverVars, processVars
<1>1. Flags'
  BY DEF Flags, PipesInv
<1>2. Typed'
  BY DEF Typed, Statuses
<1>3. PipesInv'
  BY DEF Typed, PipesInv, AnswerSent, BothSent, PidSent, Reporting
<1>4. TimerInv'
  BY DEF TimerInv
<1>5. ChildInv'
  BY DEF PipesInv, ChildInv, Statuses
<1>6. QuietInv'
  BY DEF PipesInv, QuietInv, AnswerSent, BothSent, Reporting, Answered
<1>7. KillInv'
  BY DEF PipesInv, KillInv
<1>8. LateInv'
  BY DEF PipesInv, LateInv, Reporting, TimedOut, AnswerIs
<1>9. QED
  BY <1>1, <1>2, <1>3, <1>4, <1>5, <1>6, <1>7, <1>8

(* A persistent child ends an iteration and stops.                         *)
LEMMA IterationEndsKeeps ==
  ASSUME ForkServerInv, NEW p \in Pids, IterationEnds(p)
  PROVE  ForkServerInv'
<1> USE ForkServerAssumption DEF ForkServerInv, Alive, IterationEnds, fuzzerVars, serverVars, processVars
<1>1. Flags' /\ TimerInv'
  BY DEF Flags, TimerInv
<1>2. Typed'
  BY DEF Typed
<1>3. PipesInv'
  BY DEF PipesInv, Reporting, PidSent, BothSent, AnswerSent
<1>4. ChildInv'
  BY DEF Typed, ChildInv
<1>5. QuietInv'
  BY DEF QuietInv, Reporting, Answered, AnswerSent, BothSent
<1>6. KillInv'
  BY DEF ChildInv, KillInv, TimedOut
<1>7. LateInv'
  BY DEF LateInv, Reporting, TimedOut, AnswerIs
<1>8. QED
  BY <1>1, <1>2, <1>3, <1>4, <1>5, <1>6, <1>7

(* A child ends.                                                           *)
LEMMA ProcessEndsKeeps ==
  ASSUME ForkServerInv, NEW p \in Pids, NEW how \in Endings, ProcessEnds(p, how)
  PROVE  ForkServerInv'
<1> USE ForkServerAssumption DEF ForkServerInv, Alive, ProcessEnds, fuzzerVars, serverVars, processVars
<1>1. Flags' /\ TimerInv'
  BY DEF Flags, TimerInv
<1>2. Typed'
  BY DEF Typed
<1>3. PipesInv'
  BY DEF PipesInv, Reporting, PidSent, BothSent, AnswerSent
<1>4. ChildInv'
  BY DEF Typed, ChildInv
<1>5. QuietInv'
  BY DEF QuietInv, Reporting, Answered, AnswerSent, BothSent
<1>6. KillInv'
  BY DEF ChildInv, KillInv, Doomed, KillKnown
<1>7. LateInv'
  BY DEF Typed, ChildInv, KillInv, LateInv, Reporting, TimedOut, AnswerIs
<1>8. QED
  BY <1>1, <1>2, <1>3, <1>4, <1>5, <1>6, <1>7

(* A stuttering step keeps the invariant.                                  *)
LEMMA StutterKeeps ==
  ASSUME ForkServerInv, UNCHANGED vars
  PROVE  ForkServerInv'
<1> USE DEF ForkServerInv, vars, fuzzerVars, serverVars, processVars
<1>1. Flags' /\ Typed'
  BY DEF Flags, Typed
<1>2. PipesInv' /\ TimerInv'
  BY DEF PipesInv, TimerInv, Reporting, PidSent, BothSent, AnswerSent
<1>3. ChildInv'
  BY DEF ChildInv, Alive
<1>4. QuietInv'
  BY DEF QuietInv, Reporting, Answered, AnswerSent, BothSent
<1>5. KillInv' /\ LateInv'
  BY DEF KillInv, LateInv, Doomed, KillKnown, TimedOut, Reporting, AnswerIs
<1>6. QED
  BY <1>1, <1>2, <1>3, <1>4, <1>5

(* The invariant holds in the first state.                                 *)
LEMMA ForkServerInitInv == Init => ForkServerInv
<1> SUFFICES ASSUME Init PROVE ForkServerInv
  OBVIOUS
<1> USE ForkServerAssumption DEF Init
<1>1. Flags
  BY DEF Flags
<1>2. Typed
  BY DEF Typed, Statuses, NoPid
<1>3. PipesInv /\ TimerInv
  BY DEF PipesInv, TimerInv, Reporting
<1>4. ChildInv
  BY DEF ChildInv, NoPid
<1>5. QuietInv
  BY DEF QuietInv
<1>6. ~AnswerIs("kill")
  BY OneMessage, TwoMessages DEF AnswerIs
<1>7. KillInv /\ LateInv
  BY <1>6 DEF KillInv, LateInv, Reporting
<1>8. QED
  BY <1>1, <1>2, <1>3, <1>4, <1>5, <1>7 DEF ForkServerInv

(* Every step keeps the invariant.                                         *)
LEMMA ForkServerStep ==
  ASSUME ForkServerInv, [Next]_vars
  PROVE  ForkServerInv'
<1>1. CASE FuzzerStep
  BY <1>1, HelloArrivesKeeps, HelloFailsKeeps, ServerIsUpKeeps, GetPidKeeps, GetStatusKeeps,
     GetNothingKeeps, ForgetChildKeeps, DisarmTimerKeeps, ReportKeeps DEF FuzzerStep
<1>2. CASE ServerStep
  BY <1>2, ReadRequestKeeps, WriteOffOldKeeps, ForkKeeps, ForkFailsKeeps, ResumeKeeps, TellPidKeeps,
     WaitSeesEndKeeps, WaitSeesStopKeeps, AnswerStatusKeeps, ServerKilledKeeps DEF ServerStep
<1>3. CASE Request \/ SayHello \/ HandleTimeout \/ HandleStopSig
  BY <1>3, RequestKeeps, SayHelloKeeps, HandleTimeoutKeeps, HandleStopSigKeeps
<1>4. CASE FuzzerEnded \/ UNCHANGED vars
  BY <1>4, StutterKeeps DEF FuzzerEnded
<1>5. CASE \E p \in Pids : IterationEnds(p) \/ \E how \in Endings : ProcessEnds(p, how)
  BY <1>5, IterationEndsKeeps, ProcessEndsKeeps
<1>6. QED
  BY <1>1, <1>2, <1>3, <1>4, <1>5 DEF Next

(* The inductive invariant holds in every reachable state.                 *)
THEOREM ForkServerCorrect == Spec => []ForkServerInv
<1>1. ForkServerInv /\ [Next]_vars => ForkServerInv'
  BY ForkServerStep
<1>2. QED
  BY ForkServerInitInv, <1>1, PTL DEF Spec

(* No pipe ever holds more than one request, or a pid and a status.        *)
LEMMA PipesAreShort ==
  ASSUME ForkServerInv
  PROVE  Len(ctl) <= 1 /\ Len(st) <= 2
<1>1. Len(ctl) \in {0, 1}
  <2>1. ctl = <<>> \/ ctl = <<TRUE>> \/ ctl = <<FALSE>>
    BY DEF ForkServerInv, PipesInv
  <2>2. Len(ctl) = 0 \/ Len(ctl) = 1
    BY <2>1, Lengths, Zenon
  <2>3. QED
    BY <2>2
<1>2. Len(st) \in {0, 1, 2}
  <2>1. st \in {<<>>, <<Hello>>} \/ PidSent \/ BothSent \/ AnswerSent
    BY DEF ForkServerInv, PipesInv, Typed, Reporting
  <2>2. QED
    BY <2>1, Lengths DEF PidSent, BothSent, AnswerSent
<1>3. (\A n \in {0, 1} : n <= 1) /\ (\A n \in {0, 1, 2} : n <= 2)
  OBVIOUS
<1>4. QED
  BY <1>1, <1>2, <1>3, Zenon

(* The type invariant of ForkServer, with the bounds of the pipes.         *)
THEOREM ForkServerTyped == Spec => []ForkServerTypeOK
<1>1. ASSUME ForkServerInv PROVE ForkServerTypeOK
  <2>1. {child_timed_out, prev_timed_out, stop_soon, timer} \subseteq BOOLEAN
    BY <1>1 DEF ForkServerInv, Flags
  <2>2. {was_killed, child_stopped, srv_killed} \subseteq BOOLEAN
    BY <1>1 DEF ForkServerInv, Flags
  <2>3. Len(ctl) <= 1 /\ Len(st) <= 2
    BY <1>1, PipesAreShort
  <2>4. Typed
    BY <1>1 DEF ForkServerInv
  <2>5. QED
    BY <2>1, <2>2, <2>3, <2>4 DEF Typed, ForkServerTypeOK
<1>2. QED
  BY <1>1, ForkServerCorrect, PTL

(* Once run_target has its answer nothing writes the trace any more and    *)
(* nothing is left in a pipe (run_target, TSAFL-fuzz.c).                   *)
THEOREM TraceAlwaysQuiet == Spec => []TraceIsQuiet
<1>1. ForkServerInv => TraceIsQuiet
  BY DEF ForkServerInv, TraceIsQuiet, PipesInv, QuietInv, Reporting
<1>2. QED
  BY <1>1, ForkServerCorrect, PTL

(* Between runs the only process not waited for is the stopped one the     *)
(* server remembers (__afl_start_forkserver, afl-llvm-rt.o.c).             *)
THEOREM NoChildIsLost == Spec => []NoLostChild
<1>1. ForkServerInv => NoLostChild
  BY DEF ForkServerInv, NoLostChild, ChildInv
<1>2. QED
  BY <1>1, ForkServerCorrect, PTL

(* The process the server wakes up is stopped, not dead: was_killed covers *)
(* the race with the timer that its comment names.                         *)
THEOREM ResumedAlwaysAlive == Spec => []ResumedIsAlive
<1>1. ForkServerInv => ResumedIsAlive
  BY DEF ForkServerInv, ResumedIsAlive, KillInv, Doomed
<1>2. QED
  BY <1>1, ForkServerCorrect, PTL

-----------------------------------------------------------------------------
(* What became of the program, by the status of its process.               *)
FateOf(s) == CASE s = "crash" -> "crashed" [] s = "kill" -> "killed" [] OTHER -> "finished"

(* The status on its way to the caller, by where it is.                    *)
InFlightFacts ==
  /\ Reporting => InFlight = {status}
  /\ ~Reporting /\ (st = <<>> \/ PidSent) => InFlight = {}
  /\ \A s \in Waited : ~Reporting /\ AnswerIs(s) => InFlight = {s}

(* What the caller of run_target can know of the run.                      *)
FateFacts ==
  /\ Phase # "running" => Fate = "none"
  /\ Phase = "running" /\ InFlight = {} => Fate = "pending"
  /\ \A s \in Waited : Phase = "running" /\ InFlight = {s} => Fate = FateOf(s)

(* InFlight picks the one status on its way.                               *)
LEMMA InFlightIs == InFlightFacts
<1>1. Reporting => InFlight = {status}
  BY DEF Reporting, InFlight
<1>2. ~Reporting => InFlight = {st[i][2] : i \in {j \in 1..Len(st) : st[j][1] = "status"}}
  BY DEF Reporting, InFlight
<1>3. ASSUME ~Reporting, st = <<>> \/ PidSent PROVE InFlight = {}
  <2>1. CASE st = <<>>
    BY <1>2, <1>3, <2>1, Lengths
  <2>2. CASE PidSent
    <3>1. Len(st) = 1 /\ st[1][1] = "pid"
      BY <2>2, Lengths DEF PidSent, PidMsg
    <3>2. \A j \in 1..Len(st) : st[j][1] = "pid"
      BY <3>1
    <3>3. QED
      BY <1>2, <1>3, <3>2
  <2>3. QED
    BY <1>3, <2>1, <2>2
<1>4. ASSUME NEW s \in Waited, ~Reporting, AnswerIs(s) PROVE InFlight = {s}
  <2>1. CASE st = <<StatusMsg(s)>>
    <3>1. Len(st) = 1 /\ st[1] = StatusMsg(s)
      BY <2>1, Lengths
    <3>2. st[1][1] = "status" /\ st[1][2] = s
      BY <3>1 DEF StatusMsg
    <3>3. {j \in 1..Len(st) : st[j][1] = "status"} = {1}
      BY <3>1, <3>2
    <3>4. QED
      BY <1>2, <1>4, <3>2, <3>3
  <2>2. CASE st = <<PidMsg(srv_child_pid), StatusMsg(s)>>
    <3>1. Len(st) = 2 /\ st[1] = PidMsg(srv_child_pid) /\ st[2] = StatusMsg(s)
      BY <2>2, Lengths
    <3>2. st[1][1] = "pid" /\ st[2][1] = "status" /\ st[2][2] = s
      BY <3>1 DEF StatusMsg, PidMsg
    <3>3. {j \in 1..Len(st) : st[j][1] = "status"} = {2}
      BY <3>1, <3>2
    <3>4. QED
      BY <1>2, <1>4, <3>2, <3>3
  <2>3. QED
    BY <1>4, <2>1, <2>2 DEF AnswerIs
<1>5. QED
  BY <1>1, <1>3, <1>4 DEF InFlightFacts

(* Fate is that of this status.                                            *)
LEMMA FateIs == FateFacts
BY DEF FateFacts, Fate, FateOf

(* Both facts hold in the state before a step and in the one after it.     *)
LEMMA SeenNow == InFlightFacts /\ InFlightFacts' /\ FateFacts /\ FateFacts'
BY InFlightIs, FateIs, PTL

(* What the caller sees depends on the fuzzer and the status pipe only.    *)
LEMMA SeenIsKept ==
  ASSUME UNCHANGED <<fpc, status, stop_soon, child_timed_out, outcome, st>>
  PROVE  UNCHANGED Run!runVars
<1>1. Phase' = Phase /\ Over' = Over
  BY DEF Phase, Over
<1>2. InFlight' = InFlight
  BY DEF InFlight
<1>3. Fate' = Fate
  BY <1>1, <1>2 DEF Fate
<1>4. QED
  BY <1>1, <1>3 DEF Run!runVars

(* Losing the server, or being stopped, is GiveUp of TargetRun.            *)
LEMMA OverGivesUp ==
  ASSUME Over' PROVE Run!GiveUp
<1>1. Phase' = "over"
  BY DEF Phase
<1>2. Fate' = "none"
  BY <1>1 DEF Fate
<1>3. QED
  BY <1>1, <1>2 DEF Run!GiveUp

(* A step that moves no status on stutters in TargetRun.                   *)
LEMMA PhaseKept ==
  ASSUME ~Over, ~Over', Phase' = Phase, UNCHANGED <<child_timed_out, outcome>>,
         Phase = "running" => InFlight' = InFlight
  PROVE  UNCHANGED Run!runVars
<1>1. Fate' = Fate
  BY DEF Fate
<1>2. QED
  BY <1>1 DEF Run!runVars

(* The request is Start.                                                   *)
LEMMA RequestStarts ==
  ASSUME ForkServerInv, Request, ~Over, ~Over'
  PROVE  Run!Start
<1>1. fpc = "idle" /\ fpc' = "getpid" /\ st = <<>> /\ st' = <<>> /\ ~child_timed_out' /\ outcome' = outcome
  BY DEF Request, Lost, Over, ForkServerInv, PipesInv, ClearsTimeout
<1>2. Phase = "idle" /\ Phase' = "running"
  BY <1>1 DEF Phase
<1>3. Fate' = "pending"
  <2>1. ~Reporting'
    BY <1>1 DEF Reporting
  <2>2. InFlight' = {}
    BY <1>1, <2>1, SeenNow DEF InFlightFacts, FateFacts
  <2>3. QED
    BY <1>2, <2>2, SeenNow DEF InFlightFacts, FateFacts
<1>4. QED
  BY <1>1, <1>2, <1>3 DEF Run!Start, Over

(* Reading the pid stutters.                                               *)
LEMMA GetPidStutters ==
  ASSUME ForkServerInv, GetPid, ~Over, ~Over'
  PROVE  UNCHANGED Run!runVars
<1>1. fpc = "getpid" /\ fpc' = "wait" /\ ~Reporting /\ ~Reporting' /\ UNCHANGED <<child_timed_out, outcome>>
  BY DEF GetPid, Reporting
<1>2. Phase' = Phase
  BY <1>1 DEF Phase
<1>3. InFlight' = InFlight
  <2>1. PidSent \/ BothSent
    BY DEF ForkServerInv, PipesInv, Typed, GetPid
  <2>2. CASE PidSent
    <3>1. st' = <<>>
      BY <2>2, OneMessage DEF PidSent, GetPid
    <3>2. QED
      BY <1>1, <2>2, <3>1, SeenNow DEF InFlightFacts, FateFacts
  <2>3. CASE BothSent
    <3>1. PICK s \in Waited : st = <<PidMsg(srv_child_pid), StatusMsg(s)>>
      BY <2>3 DEF BothSent
    <3>2. st' = <<StatusMsg(s)>>
      BY <3>1, TwoMessages DEF GetPid
    <3>3. AnswerIs(s) /\ AnswerIs(s)'
      BY <3>1, <3>2 DEF AnswerIs
    <3>4. QED
      BY <1>1, <3>3, SeenNow DEF InFlightFacts, FateFacts
  <2>4. QED
    BY <2>1, <2>2, <2>3
<1>4. QED
  BY <1>1, <1>2, <1>3, PhaseKept

(* Reading the status stutters: it was known when it was written.          *)
LEMMA GetStatusStutters ==
  ASSUME ForkServerInv, GetStatus, ~Over, ~Over'
  PROVE  UNCHANGED Run!runVars
<1>1. fpc = "wait" /\ fpc' = "got" /\ ~Reporting /\ Reporting' /\ UNCHANGED <<child_timed_out, outcome>>
  BY DEF GetStatus, Reporting
<1>2. Phase' = Phase
  BY <1>1 DEF Phase
<1>3. InFlight' = InFlight
  <2>1. PICK s \in Waited : st = <<StatusMsg(s)>>
    BY DEF ForkServerInv, PipesInv, GetStatus, AnswerSent
  <2>2. AnswerIs(s)
    BY <2>1 DEF AnswerIs
  <2>3. status' = s
    BY <2>1, OneMessage, Messages DEF GetStatus
  <2>4. InFlight = {s}
    BY <1>1, <2>2, SeenNow DEF InFlightFacts, FateFacts
  <2>5. InFlight' = {status'}
    BY <1>1, SeenNow DEF InFlightFacts, FateFacts
  <2>6. QED
    BY <2>3, <2>4, <2>5
<1>4. QED
  BY <1>1, <1>2, <1>3, PhaseKept

(* Returning from run_target is Answer: the result is that of this run.    *)
LEMMA ReportAnswers ==
  ASSUME ForkServerInv, Report, ~Over, ~Over'
  PROVE  Run!Answer
<1>1. fpc = "disarmed" /\ fpc' = "idle" /\ status \in Waited /\ Reporting
  BY DEF Report, ForkServerInv, PipesInv, Reporting
<1>2. Phase = "running" /\ Phase' = "idle"
  BY <1>1 DEF Phase
<1>3. Fate = FateOf(status) /\ Fate' = "none"
  BY <1>1, <1>2, SeenNow DEF InFlightFacts, FateFacts
<1>4. status = "kill" => child_timed_out
  BY <1>1 DEF ForkServerInv, LateInv, Over
<1>5. outcome' = Run!FaultOf(FateOf(status))
  BY <1>1, <1>4 DEF Report, Fault, Signaled, Over, Run!FaultOf, FateOf
<1>6. FateOf(status) \in Run!Ending
  BY DEF FateOf, Run!Ending
<1>7. QED
  BY <1>2, <1>3, <1>5, <1>6 DEF Run!Answer

(* The first timeout of a run is DeadlinePasses.                           *)
LEMMA TimeoutPasses ==
  ASSUME ForkServerInv, HandleTimeout, ~Over, ~Over'
  PROVE  Run!DeadlinePasses \/ UNCHANGED Run!runVars
<1>1. UNCHANGED <<fpc, status, stop_soon, outcome, st>> /\ (child_timed_out => child_timed_out')
  BY DEF HandleTimeout
<1>2. Phase' = Phase
  BY <1>1 DEF Phase, Over
<1>3. InFlight' = InFlight
  BY <1>1 DEF InFlight
<1>4. Fate' = Fate
  BY <1>2, <1>3 DEF Fate
<1>5. CASE child_timed_out' = child_timed_out
  BY <1>1, <1>5, SeenIsKept
<1>6. CASE child_timed_out' # child_timed_out
  <2>1. child_timed_out' /\ ~child_timed_out
    BY <1>1, <1>6 DEF ForkServerInv, Flags, HandleTimeout
  <2>2. CASE Phase = "running"
    BY <1>1, <1>2, <1>4, <2>1, <2>2 DEF Run!DeadlinePasses
  <2>3. CASE Phase # "running"
    BY <1>1, <1>2, <1>4, <2>3 DEF Run!runVars
  <2>4. QED
    BY <2>2, <2>3
<1>7. QED
  BY <1>5, <1>6

(* Writing the status is ProgramEnds, as killed only when late.            *)
LEMMA AnswerEnds ==
  ASSUME ForkServerInv, AnswerStatus, ~Over, ~Over'
  PROVE  \E f \in Run!Ending : Run!ProgramEnds(f)
<1>1. /\ spc = "answer" /\ srv_status \in Waited /\ st' = Append(st, StatusMsg(srv_status))
      /\ UNCHANGED <<fpc, child_timed_out, outcome, srv_child_pid>>
  BY DEF AnswerStatus, AnswersStatus, ForkServerInv, ChildInv, fuzzerVars
<1>2. /\ fpc \in {"getpid", "wait"} /\ ~Reporting /\ ~Reporting'
      /\ fpc = "getpid" => PidSent
      /\ fpc = "wait" => st = <<>>
  BY <1>1 DEF ForkServerInv, PipesInv, Typed, Reporting
<1>3. AnswerIs(srv_status)'
  <2>1. CASE fpc = "getpid"
    BY <1>1, <1>2, <2>1, TwoMessages DEF PidSent, AnswerIs, AnswerStatus
  <2>2. CASE fpc = "wait"
    BY <1>1, <1>2, <2>2, OneMessage DEF AnswerIs, AnswerStatus
  <2>3. QED
    BY <1>2, <2>1, <2>2
<1>4. Phase = "running" /\ Phase' = "running"
  BY <1>1, <1>2 DEF Phase, Over
<1>5. srv_status' = srv_status
  BY DEF AnswerStatus
<1>6. Fate = "pending"
  <2>1. InFlight = {}
    BY <1>2, SeenNow DEF InFlightFacts, FateFacts
  <2>2. QED
    BY <1>4, <2>1, SeenNow DEF InFlightFacts, FateFacts
<1>7. Fate' = FateOf(srv_status)
  <2>1. InFlight' = {srv_status}
    BY <1>1, <1>2, <1>3, <1>5, SeenNow DEF InFlightFacts, AnswerIs
  <2>2. QED
    BY <1>1, <1>4, <1>5, <2>1, SeenNow DEF InFlightFacts, FateFacts
<1>8. srv_status = "kill" => child_timed_out
  BY <1>1 DEF ForkServerInv, LateInv, Over, TimedOut
<1>9. Run!ProgramEnds(FateOf(srv_status))
  BY <1>1, <1>4, <1>6, <1>7, <1>8 DEF Run!ProgramEnds, FateOf
<1>10. FateOf(srv_status) \in Run!Ending
  BY DEF FateOf, Run!Ending
<1>11. QED
  BY <1>9, <1>10

(* Every step is one of TargetRun, or stutters.                            *)
LEMMA RunStep ==
  ASSUME ForkServerInv, [Next]_vars
  PROVE  [Run!RunNext]_(Run!runVars)
<1>1. CASE Over'
  BY <1>1, OverGivesUp DEF Run!RunNext
<1>2. CASE ~Over /\ ~Over'
  <2> USE <1>2
  <2>1. CASE HelloArrives
    <3>1. Phase = "starting" /\ Phase' = "starting" /\ UNCHANGED <<child_timed_out, outcome>>
      BY <2>1 DEF HelloArrives, Phase
    <3>2. QED
      BY <3>1, PhaseKept
  <2>2. CASE ServerIsUp
    <3>1. Phase = "starting" /\ Phase' = "idle" /\ UNCHANGED <<child_timed_out, outcome>>
      BY <2>2 DEF ServerIsUp, Phase
    <3>2. Fate = "none" /\ Fate' = "none"
      BY <3>1, SeenNow DEF InFlightFacts, FateFacts
    <3>3. Run!Ready
      BY <3>1, <3>2 DEF Run!Ready
    <3>4. QED
      BY <3>3 DEF Run!RunNext
  <2>3. CASE HelloFails \/ GetNothing \/ HandleStopSig
    BY <2>3 DEF HelloFails, GetNothing, Lost, HandleStopSig, Over
  <2>4. CASE Request
    BY <2>4, RequestStarts DEF Run!RunNext
  <2>5. CASE GetPid
    BY <2>5, GetPidStutters
  <2>6. CASE GetStatus
    BY <2>6, GetStatusStutters
  <2>7. CASE ForgetChild \/ DisarmTimer
    <3>1. Phase' = Phase /\ UNCHANGED <<child_timed_out, outcome>>
      BY <2>7 DEF ForgetChild, DisarmTimer, Phase
    <3>2. InFlight' = InFlight
      BY <2>7 DEF ForgetChild, DisarmTimer, InFlight
    <3>3. QED
      BY <3>1, <3>2, PhaseKept
  <2>8. CASE Report
    BY <2>8, ReportAnswers DEF Run!RunNext
  <2>9. CASE HandleTimeout
    BY <2>9, TimeoutPasses DEF Run!RunNext
  <2>10. CASE SayHello
    <3>1. fpc = "hello" /\ fpc' = "hello" /\ UNCHANGED <<child_timed_out, outcome>>
      BY <2>10 DEF SayHello, ForkServerInv, PipesInv, fuzzerVars
    <3>2. Phase = "starting" /\ Phase' = "starting"
      BY <3>1 DEF Phase
    <3>3. QED
      BY <3>1, <3>2, PhaseKept
  <2>11. CASE TellPid
    <3>1. /\ fpc = "getpid" /\ fpc' = "getpid" /\ st = <<>> /\ st' = <<PidMsg(srv_child_pid)>>
          /\ UNCHANGED <<child_timed_out, outcome, srv_child_pid>>
      BY <2>11, OneMessage DEF TellPid, ForkServerInv, PipesInv, Typed, Reporting, fuzzerVars
    <3>2. PidSent' /\ ~Reporting /\ ~Reporting' /\ Phase' = Phase
      BY <3>1 DEF PidSent, Reporting, Phase
    <3>3. InFlight' = InFlight
      BY <3>1, <3>2, SeenNow DEF InFlightFacts, FateFacts
    <3>4. QED
      BY <3>1, <3>2, <3>3, PhaseKept
  <2>12. CASE AnswerStatus
    BY <2>12, AnswerEnds DEF Run!RunNext
  <2>13. CASE \/ ReadRequest \/ WriteOffOld \/ Fork \/ ForkFails \/ Resume \/ WaitSeesEnd \/ WaitSeesStop
              \/ ServerKilled
    <3>1. UNCHANGED <<fuzzerVars, st>>
      BY <2>13 DEF ReadRequest, WriteOffOld, Fork, ForkFails, Resume, WaitSeesEnd, WaitSeesStop, ServerKilled
    <3>2. QED
      BY <3>1, SeenIsKept DEF fuzzerVars
  <2>14. CASE FuzzerEnded \/ UNCHANGED vars
    BY <2>14, SeenIsKept DEF FuzzerEnded, vars, fuzzerVars
  <2>15. CASE \E p \in Pids : IterationEnds(p) \/ \E how \in Endings : ProcessEnds(p, how)
    <3>1. UNCHANGED <<fuzzerVars, st>>
      BY <2>15 DEF IterationEnds, ProcessEnds
    <3>2. QED
      BY <3>1, SeenIsKept DEF fuzzerVars
  <2>16. QED
    BY <2>1, <2>2, <2>3, <2>4, <2>5, <2>6, <2>7, <2>8, <2>9, <2>10, <2>11, <2>12, <2>13, <2>14, <2>15
    DEF Next, FuzzerStep, ServerStep
<1>3. Over => Over'
  BY DEF Over, Next, FuzzerStep, ServerStep, HelloArrives, HelloFails, ServerIsUp, GetPid, GetStatus,
     GetNothing, ForgetChild, DisarmTimer, Report, ReadRequest, WriteOffOld, Fork, ForkFails, Resume,
     TellPid, WaitSeesEnd, WaitSeesStop, AnswerStatus, ServerKilled, Request, SayHello, HandleTimeout,
     HandleStopSig, FuzzerEnded, IterationEnds, ProcessEnds, Lost, vars, fuzzerVars
<1>4. QED
  BY <1>1, <1>2, <1>3

(* The fuzzer, the pipes, the server and the processes together keep the   *)
(* promise of run_target: the result is how the program ended in this run, *)
(* and FAULT_TMOUT takes an expired deadline.                              *)
THEOREM ForkServerImplementsTargetRun == Spec => ImplementsTargetRun
<1>1. Init => Run!RunInit
  <2> SUFFICES ASSUME Init PROVE Run!RunInit
    OBVIOUS
  <2>1. Phase = "starting" /\ outcome = "NONE"
    BY DEF Init, Phase, Over
  <2>2. Fate = "none"
    BY <2>1, SeenNow DEF InFlightFacts, FateFacts
  <2>3. QED
    BY <2>1, <2>2 DEF Run!RunInit
<1>2. ForkServerInv /\ [Next]_vars => [Run!RunNext]_(Run!runVars)
  BY RunStep
<1>3. QED
  BY <1>1, <1>2, ForkServerCorrect, PTL DEF Spec, ImplementsTargetRun, Run!TargetRunSpec
=============================================================================
