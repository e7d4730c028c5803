----------------------------- MODULE TargetRun -----------------------------
(***************************************************************************)
(* What run_target (tsafl/TSAFL-fuzz.c) promises its callers, with no fork *)
(* server, pipe or process in sight: a run is started, the program under   *)
(* test finishes, crashes or is killed, which takes an expired deadline,   *)
(* and the result reported is that of this run.                            *)
(***************************************************************************)
VARIABLES
  phase,    \* "starting", "idle", "running" or "over"
  fate,     \* of the program in the current run
  late,     \* the deadline of the current run has passed
  outcome   \* the result of the last run

runVars == <<phase, fate, late, outcome>>

Ending == {"finished", "crashed", "killed"}

FaultOf(f) ==
  CASE f = "finished" -> "NONE"
    [] f = "crashed" -> "CRASH"
    [] f = "killed" -> "TMOUT"

RunInit == phase = "starting" /\ fate = "none" /\ late = FALSE /\ outcome = "NONE"

Ready ==
  /\ phase = "starting" /\ phase' = "idle"
  /\ UNCHANGED <<fate, late, outcome>>

Start ==
  /\ phase = "idle" /\ phase' = "running"
  /\ fate' = "pending" /\ late' = FALSE
  /\ UNCHANGED outcome

DeadlinePasses ==
  /\ phase = "running" /\ ~late /\ late' = TRUE
  /\ UNCHANGED <<phase, fate, outcome>>

ProgramEnds(f) ==
  /\ phase = "running" /\ fate = "pending"
  /\ f = "killed" => late
  /\ fate' = f
  /\ UNCHANGED <<phase, late, outcome>>

Answer ==
  /\ phase = "running" /\ fate \in Ending
  /\ phase' = "idle" /\ outcome' = FaultOf(fate)
  /\ fate' = "none" /\ late' = FALSE

(* The user stops the fuzzer, or the fork server is lost. *)
GiveUp ==
  /\ phase' = "over"
  /\ fate' = "none" /\ late' = FALSE /\ outcome' = "NONE"

RunNext == Ready \/ Start \/ DeadlinePasses \/ Answer \/ GiveUp \/ \E f \in Ending : ProgramEnds(f)

TargetRunSpec == RunInit /\ [][RunNext]_runVars
=============================================================================
