---------------------------- MODULE PlanSession ----------------------------
(***************************************************************************)
(* Sessions one after the other (run_target_with_scheduel in               *)
(* tsafl/TSAFL-fuzz.c; check_plan_result, check_after_schedule and         *)
(* finish_one_plan_success in tsafl/helper.cc).  A session makes plans as  *)
(* PlanGen says and runs the program once under each.  What a run records  *)
(* in kp_mem is compared with the plan; a difference closes a situation    *)
(* for all later sessions.                                                 *)
(***************************************************************************)
EXTENDS PlanGen

CONSTANTS
  Number,         \* the number of an action in the tables of the static analysis
  LaterRecords,   \* what the run before the second session, or a later one, may have recorded
  MAX_SESSIONS,
  MAX_DEPARTURES  \* the runs that do not follow their plan

ASSUME SessionAssumption ==
  /\ MAX_SESSIONS \in Nat \ {0} /\ MAX_DEPARTURES \in Nat
  /\ \A a \in DOMAIN Number : Number[a] \in Nat
  /\ \A r \in LaterRecords : IsRecord(r)

VARIABLES
  sessions,       \* how many there were
  departures,     \* how many runs did not follow their plan
  plan,           \* the index of the plan to run
  kp_mem,         \* what the last run recorded, of <<thread, action>>
  bad_plan_flag,
  schedule_var    \* a run had a thread that did something else

runVars == <<plan, kp_mem, bad_plan_flag, schedule_var>>
counts == <<sessions, departures>>
vars == <<genVars, counts, runVars>>

SessionInit ==
  /\ Init
  /\ sessions = 1 /\ departures = 0 /\ plan = 1 /\ kp_mem = <<>>
  /\ bad_plan_flag = FALSE /\ schedule_var = FALSE

GeneratePlans == Generate /\ UNCHANGED <<counts, runVars>>

-----------------------------------------------------------------------------
(* What a run under plan v may record: the plan, two actions of different   *)
(* threads in the other order, or an action of another execution.           *)
Exchanged(v, i) == [v EXCEPT ![i] = v[i + 1], ![i + 1] = v[i]]

Outcomes(v) ==
  {v} \cup {Exchanged(v, i) : i \in {k \in 1..Len(v) - 1 : v[k][1] # v[k + 1][1]}}
      \cup {[v EXCEPT ![i] = <<v[i][1], v[k][2]>>] : i, k \in 1..Len(v)}

(* check_plan_resultc_CC compares the actions and not the threads. *)
WrongLocs(v, mem) == {i \in 1..Len(v) : mem[i][2] # v[i][2]}
WrongLoc(v, mem) == Min(WrongLocs(v, mem))

(* The number of the action at the wrong place is then used as an index     *)
(* into the plan, counted from 0.  Positions are compared with thread ids,  *)
(* which no position is equal to, and the loops do not stop: front ends at  *)
(* the first action of the plan, end at the last.  Nothing is found if      *)
(* there is no position before the index or none after it; an index past    *)
(* the plan also reads beyond its end, without effect on the result.        *)
\* A variant of SituationOf that keeps WrongPlaceIsClosed: the index is the place.
SituationAtPlace(v, loc_wrong) ==
  IF loc_wrong \in 2..Len(v) - 1 THEN {<<v[1][2], v[loc_wrong][2], v[Len(v)][2]>>} ELSE {}

SituationOf(v, loc_wrong) ==
  LET thread_name_loc == Number[v[loc_wrong][2]]
  IN IF thread_name_loc \in 1..Len(v) - 2
     THEN {<<v[1][2], v[thread_name_loc + 1][2], v[Len(v)][2]>>}
     ELSE {}

ClosedBy(v, mem) == IF WrongLocs(v, mem) = {} THEN {} ELSE SituationOf(v, WrongLoc(v, mem))

(* check_after_schedule: each thread did what a thread did in the run that   *)
(* the session was made from.                                               *)
RunsAsBefore(mem) ==
  \A t \in {mem[i][1] : i \in 1..Len(mem)} :
    \E u \in ThreadsOf(record) : ActionsOf(mem, t) = list[u]

(* finish_one_plan_success credits windows of threads that did nothing but   *)
(* the first action recorded: it reads kp_mem->loc for every entry.         *)
Credited(mem) == [i \in 1..Len(mem) |-> <<mem[i][1], mem[1][2]>>]

-----------------------------------------------------------------------------
Running == at \in {"done", "running"}

RunPlan ==
  /\ Running /\ plan <= Len(final_list)
  /\ \E mem \in Outcomes(final_list[plan]) :
       /\ departures' = departures + (IF mem = final_list[plan] THEN 0 ELSE 1)
       /\ departures' <= MAX_DEPARTURES
       /\ LET closed == ClosedBy(final_list[plan], mem)
          IN /\ kp_mem' = mem
             /\ close_map' = close_map \cup closed
             /\ bad_plan_flag' = (bad_plan_flag \/ closed # {})
             /\ schedule_var' = (schedule_var \/ ~RunsAsBefore(mem))
             /\ single_wCks' = single_wCks \cup WindowsOf(Credited(mem))
  /\ plan' = plan + 1 /\ at' = "running"
  /\ UNCHANGED <<record, var_table, session, loc, res, stack, item, mem_cksum, final_list, sessions>>

(* A run that faults, or whose record check_t_info rejects, ends the         *)
(* session.                                                                 *)
RunFails ==
  /\ Running /\ plan <= Len(final_list)
  /\ at' = "over"
  /\ UNCHANGED <<input, session, loc, res, stack, item, result, counts, runVars>>

(* A run that recorded more or less than the plan ends the fuzzer. *)
RunHasOtherSize ==
  /\ Running /\ plan <= Len(final_list)
  /\ at' = "stopped"
  /\ UNCHANGED <<input, session, loc, res, stack, item, result, counts, runVars>>

SessionEnds ==
  /\ Running /\ plan > Len(final_list)
  /\ at' = "over"
  /\ UNCHANGED <<input, session, loc, res, stack, item, result, counts, runVars>>

(* finish_one_scheduel_run and the next call of generate_que clear what      *)
(* belongs to a session; the closed situations stay.                        *)
NextSession ==
  /\ at = "over" /\ sessions < MAX_SESSIONS
  /\ sessions' = sessions + 1
  /\ record' \in LaterRecords
  /\ res_set' = InterestingPairs(record') /\ trans' = <<>> /\ tried' = <<>>
  /\ signal_list' =
       [t \in ThreadsOf(record') |-> ColourFirst(record'.actions, t, var_table)]
  /\ loc' = [t \in ThreadsOf(record') |-> 0] /\ res' = <<>> /\ stack' = <<>>
  /\ item' = 1 /\ at' = "pairs"
  /\ mem_cksum' = {} /\ final_list' = <<>> /\ single_wCks' = {}
  /\ plan' = 1 /\ kp_mem' = <<>> /\ bad_plan_flag' = FALSE /\ schedule_var' = FALSE
  /\ UNCHANGED <<var_table, close_map, departures>>

Ended == (at \in {"aborted", "stopped"} \/ (at = "over" /\ sessions = MAX_SESSIONS)) /\ UNCHANGED vars

Next ==
  \/ GeneratePlans
  \/ RunPlan \/ RunFails \/ RunHasOtherSize \/ SessionEnds \/ NextSession
  \/ Ended

Spec == SessionInit /\ [][Next]_vars

-----------------------------------------------------------------------------
(* "Find the wrong place of the exe result": a situation is closed only by   *)
(* a run, and its middle is the action at the first place where the run      *)
(* left the plan.                                                           *)
WrongPlaceIsClosed ==
  [][\A s \in close_map' \ close_map :
       s[2] = final_list[plan][WrongLoc(final_list[plan], kp_mem')][2]]_vars

(* "extra the windows infomation": after a run that went as planned, the     *)
(* windows it adds to the session are windows of the plan.                  *)
CreditedAreShown ==
  [][\A w \in single_wCks' \ single_wCks :
       plan' # plan /\ kp_mem' = final_list[plan] => w \in WindowsOf(final_list[plan])]_vars
=============================================================================
