---------------------------- MODULE Calibration ----------------------------
(***************************************************************************)
(* Calibration of a seed (calibrate_case and run_target_with_scheduel in   *)
(* tsafl/TSAFL-fuzz.c): runs without a plan, then, if the seed shows new   *)
(* concurrency, a session of runs under plans; and what calibration keeps  *)
(* about seeds in g_filter_info and g_single_time_info (tsafl/helper.cc).  *)
(*                                                                         *)
(* One step is one run of the program under test, or the work between two  *)
(* runs; what a run does is chosen.  A concurrency feature stands for the  *)
(* pair <<sch_exec_cksum, sch_exec_size>>, a window for its checksum.  The *)
(* maps over pairs of actions (cfg) stay empty in this code and are left   *)
(* out, and so is the time a run takes.                                    *)
(***************************************************************************)
EXTENDS Integers, FiniteSets

CONSTANTS
  Seeds,
  Features,      \* concurrency features of runs
  Windows,       \* windows that runs under plans show
  MAX_PLANS,     \* plans that generate_que makes for one seed, at most
  None

CAL_CHANCES == 3
STAGE_MAX == 3

\* 40 in config.h; any number above STAGE_MAX makes the same difference here.
CAL_CYCLES_LONG == 4

ASSUME CalibrationAssumption ==
  /\ IsFiniteSet(Seeds) /\ MAX_PLANS \in Nat \ {0}
  /\ None \notin Seeds \cup Features \cup Windows

VARIABLES
  pc,              \* "idle", "plain", "decide", "session", "finish" or "exited"
  cur, stage_cur, stage_max, new_window,   \* of the calibration under way
  plans, plan,                      \* of the session: how many, and which is next
  need_scheduel, NEED_SCH,          \* the fuzzer's flag and its environment variable
  is_scheduel,                      \* the flag in shared memory that the target reads
  tmout,                            \* the timeout of the last run: "base", "expanded" or "1ms"
  cal_failed, calibrated, sch_exec, \* seed -> its fields
  q_entry_ptr, windows_cks,         \* the record of each seed, as q_entry_info_map finds it
  conCkSumMap,                      \* feature -> the seed whose record it maps to
  cks_q_w,                          \* window -> seed
  q_w_mem,                          \* windows that are counted
  single_wCks                       \* windows of the session under way

curVars == <<cur, stage_cur, stage_max, new_window, plans, plan>>
modeVars == <<need_scheduel, NEED_SCH, is_scheduel, tmout>>
seedVars == <<cal_failed, calibrated, sch_exec>>
filterVars == <<q_entry_ptr, windows_cks, conCkSumMap, cks_q_w, q_w_mem, single_wCks>>
calibrationVars == <<pc, curVars, modeVars, seedVars, filterVars>>

CalibrationInit ==
  /\ pc = "idle" /\ cur = None /\ stage_cur = 0 /\ stage_max = STAGE_MAX /\ new_window = FALSE
  /\ plans = 0 /\ plan = 0
  /\ need_scheduel = FALSE /\ NEED_SCH = "unset" /\ is_scheduel = FALSE /\ tmout = "base"
  /\ cal_failed = [q \in Seeds |-> 0] /\ calibrated = {}
  /\ sch_exec = [q \in Seeds |-> None]
  /\ q_entry_ptr = [q \in Seeds |-> q]
  /\ windows_cks = [q \in Seeds |-> {}]
  /\ conCkSumMap = [f \in Features |-> None]
  /\ cks_q_w = [w \in Windows |-> None]
  /\ q_w_mem = {} /\ single_wCks = {}

-----------------------------------------------------------------------------
(* run_target, up to the request for a process: init_tInfo_mem reads the    *)
(* environment, and the flag replaces the timeout of the caller.            *)
InitTInfoMem(current) ==
  CASE NEED_SCH = "unset" -> FALSE
    [] NEED_SCH = "TRUE" -> TRUE
    [] OTHER -> current

RunTarget(current, timeout) ==
  /\ is_scheduel' = InitTInfoMem(current)
  /\ tmout' = IF need_scheduel THEN "1ms" ELSE timeout

(* have_new_concurrent_per. *)
NewConcurrent(f) == conCkSumMap[f] = None

\* A bug of SeenNew: only the first run is looked at.
SeenNewAtFirst(f) == IF stage_cur = 0 THEN NewConcurrent(f) ELSE new_window

SeenNew(f) == new_window \/ NewConcurrent(f)

-----------------------------------------------------------------------------
(* A new seed is calibrated when it is added; one that failed, again when   *)
(* fuzz_one comes to it.                                                    *)
\* A bug of MayCalibrate: one chance too many.
MayCalibrateOnceMore(q) == q \notin calibrated /\ cal_failed[q] <= CAL_CHANCES

MayCalibrate(q) == q \notin calibrated /\ cal_failed[q] < CAL_CHANCES

Calibrate(q) ==
  /\ pc = "idle" /\ MayCalibrate(q)
  /\ cal_failed' = [cal_failed EXCEPT ![q] = @ + 1]
  /\ cur' = q /\ stage_cur' = 0 /\ stage_max' = STAGE_MAX /\ new_window' = FALSE
  /\ pc' = "plain"
  /\ UNCHANGED <<plans, plan, modeVars, calibrated, sch_exec, filterVars>>

PlainRunFaults ==
  /\ pc = "plain"
  /\ RunTarget(is_scheduel, "base")
  /\ pc' = "idle"
  /\ UNCHANGED <<curVars, need_scheduel, NEED_SCH, seedVars, filterVars>>

(* A run that goes well: its feature is stored in the seed and looked up.   *)
(* A trace that differs from an earlier one asks for more runs.             *)
PlainRun ==
  /\ pc = "plain"
  /\ RunTarget(is_scheduel, "base")
  /\ \E f \in Features :
       /\ sch_exec' = [sch_exec EXCEPT ![cur] = f]
       /\ new_window' = SeenNew(f)
  /\ stage_cur' = stage_cur + 1
  /\ \/ UNCHANGED stage_max
     \/ sch_exec[cur] # None /\ stage_max' = CAL_CYCLES_LONG
  /\ pc' = IF stage_cur' >= stage_max' THEN "decide" ELSE "plain"
  /\ UNCHANGED <<cur, plans, plan, need_scheduel, NEED_SCH, cal_failed, calibrated, filterVars>>

-----------------------------------------------------------------------------
(* update_q_window: both branches of its comparison end in set_w_cks. *)
TakesWindows(q, windows) ==
  cks_q_w' = [w \in Windows |-> IF w \in windows THEN q ELSE cks_q_w[w]]

(* No new concurrency: get_same_sch_exe_q finds the record of another seed  *)
(* and update_queEntry_sInfo_with_another writes to that record.            *)
\* A bug of RecordAfterSharing: the copy goes the wrong way.
EmptiesTheOther(same) == windows_cks' = [windows_cks EXCEPT ![same] = windows_cks[cur]]

RecordAfterSharing(same) == windows_cks' = [windows_cks EXCEPT ![same] = windows_cks[same]]

ShareRecord ==
  /\ pc = "decide" /\ ~new_window /\ conCkSumMap[sch_exec[cur]] # None
  /\ LET found == conCkSumMap[sch_exec[cur]]
         same == q_entry_ptr[found]
     IN /\ q_entry_ptr' = [q_entry_ptr EXCEPT ![same] = cur]
        /\ RecordAfterSharing(same)
  /\ TakesWindows(cur, windows_cks[cur])
  /\ pc' = "finish"
  /\ UNCHANGED <<curVars, modeVars, seedVars, conCkSumMap, q_w_mem, single_wCks>>

(* New concurrency: generate_que clears the windows of the session and puts  *)
(* in those of every plan it considers; the session begins if it kept a     *)
(* plan (an assert otherwise).                                              *)
OpenSession ==
  /\ pc = "decide"
  /\ new_window \/ conCkSumMap[sch_exec[cur]] = None
  /\ \E n \in 0..MAX_PLANS :
       IF n = 0
       THEN /\ pc' = "exited"
            /\ UNCHANGED <<plans, plan, need_scheduel, NEED_SCH, single_wCks>>
       ELSE /\ plans' = n /\ plan' = 1 /\ pc' = "session"
            /\ need_scheduel' = TRUE /\ NEED_SCH' = "TRUE"
            /\ single_wCks' \in SUBSET Windows
  /\ UNCHANGED <<cur, stage_cur, stage_max, new_window, is_scheduel, tmout, seedVars, q_entry_ptr,
                 windows_cks, conCkSumMap, cks_q_w, q_w_mem>>

(* From abort_run on: the mode is left. *)
\* A bug of LeaveMode: an aborted session does not get there.
LeaveModeWhenDone ==
  IF plan = plans THEN need_scheduel' = FALSE /\ NEED_SCH' = "FALSE"
                  ELSE UNCHANGED <<need_scheduel, NEED_SCH>>

LeaveMode == need_scheduel' = FALSE /\ NEED_SCH' = "FALSE"

\* A bug of ClearSession: finish_one_scheduel_run is left out.
KeepSession == single_wCks' = single_wCks

ClearSession == single_wCks' = {}

(* The end of the session and what calibrate_case does with it: the windows *)
(* join the record of the seed, and addQPtrToConMap exits if the feature is *)
(* known.  An aborted session ends in the same way.                         *)
CloseSession(shown) ==
  /\ LeaveMode
  /\ windows_cks' = [windows_cks EXCEPT ![cur] = @ \cup shown]
  /\ IF NewConcurrent(sch_exec[cur])
     THEN /\ conCkSumMap' = [conCkSumMap EXCEPT ![sch_exec[cur]] = cur]
          /\ TakesWindows(cur, windows_cks'[cur])
          /\ ClearSession
          /\ pc' = "finish"
     ELSE /\ pc' = "exited" /\ single_wCks' = shown
          /\ UNCHANGED <<conCkSumMap, cks_q_w>>

(* One run under a plan: insert_scheduel_plan has set the flag. *)
RunUnderPlan == RunTarget(TRUE, "expanded")

(* The run faults, or check_t_info rejects it: abort_run. *)
PlanRunAborts ==
  /\ pc = "session"
  /\ RunUnderPlan
  /\ CloseSession(single_wCks)
  /\ UNCHANGED <<curVars, seedVars, q_entry_ptr, q_w_mem>>

(* check_plan_result exits if the run recorded more or less than the plan. *)
PlanRunOfOtherSize ==
  /\ pc = "session"
  /\ RunUnderPlan
  /\ pc' = "exited"
  /\ UNCHANGED <<curVars, need_scheduel, NEED_SCH, seedVars, filterVars>>

PlanRun ==
  /\ pc = "session"
  /\ RunUnderPlan
  /\ \E shown \in SUBSET Windows :
       IF plan < plans
       THEN /\ single_wCks' = single_wCks \cup shown
            /\ plan' = plan + 1
            /\ UNCHANGED <<pc, need_scheduel, NEED_SCH, windows_cks, conCkSumMap, cks_q_w>>
       ELSE /\ CloseSession(single_wCks \cup shown)
            /\ UNCHANGED plan
  /\ UNCHANGED <<cur, stage_cur, stage_max, new_window, plans, seedVars, q_entry_ptr, q_w_mem>>

(* The end of calibrate_case; init_q_infos starts the counts. *)
\* A bug of CountWindows: init_q_infos is left out.
CountNothing == UNCHANGED q_w_mem

CountWindows == q_w_mem' = q_w_mem \cup windows_cks[cur]

Finish ==
  /\ pc = "finish"
  /\ cal_failed' = [cal_failed EXCEPT ![cur] = 0]
  /\ calibrated' = calibrated \cup {cur}
  /\ CountWindows
  /\ pc' = "idle"
  /\ UNCHANGED <<curVars, modeVars, sch_exec, q_entry_ptr, windows_cks, conCkSumMap, cks_q_w,
                 single_wCks>>

Exited == pc = "exited" /\ UNCHANGED calibrationVars

AllTried ==
  /\ pc = "idle"
  /\ \A q \in Seeds : q \in calibrated \/ cal_failed[q] = CAL_CHANCES
  /\ UNCHANGED calibrationVars

CalibrationNext ==
  \/ \E q \in Seeds : Calibrate(q)
  \/ PlainRun \/ PlainRunFaults \/ ShareRecord
  \/ OpenSession \/ PlanRun \/ PlanRunAborts \/ PlanRunOfOtherSize
  \/ Finish \/ Exited \/ AllTried

CalibrationSpec == CalibrationInit /\ [][CalibrationNext]_calibrationVars

-----------------------------------------------------------------------------
(* The types; a failed calibration is counted CAL_CHANCES times at most. *)
CalibrationTypeOK ==
  /\ pc \in {"idle", "plain", "decide", "session", "finish", "exited"}
  /\ cur \in Seeds \cup {None} /\ (pc # "idle" => cur \in Seeds)
  /\ stage_cur \in 0..CAL_CYCLES_LONG /\ stage_max \in {STAGE_MAX, CAL_CYCLES_LONG}
  /\ new_window \in BOOLEAN
  /\ plans \in 0..MAX_PLANS /\ plan \in 0..plans
  /\ need_scheduel \in BOOLEAN /\ NEED_SCH \in {"unset", "TRUE", "FALSE"}
  /\ is_scheduel \in BOOLEAN /\ tmout \in {"base", "expanded", "1ms"}
  /\ cal_failed \in [Seeds -> 0..CAL_CHANCES] /\ calibrated \in SUBSET Seeds
  /\ sch_exec \in [Seeds -> Features \cup {None}]
  /\ q_entry_ptr \in [Seeds -> Seeds]
  /\ windows_cks \in [Seeds -> SUBSET Windows]
  /\ conCkSumMap \in [Features -> Seeds \cup {None}]
  /\ cks_q_w \in [Windows -> Seeds \cup {None}]
  /\ q_w_mem \in SUBSET Windows /\ single_wCks \in SUBSET Windows

(* Every way out of a session, aborts included, leaves the mode and forgets *)
(* the session's windows, so that neither message of enable_schedule and    *)
(* disable_schedule ("Before set, 'need_scheduel' is true!") is printed and *)
(* no window is credited to a later seed.                                   *)
SessionsAreBracketed ==
  /\ pc = "session" => need_scheduel /\ NEED_SCH = "TRUE"
  /\ pc \notin {"session", "exited"} =>
       ~need_scheduel /\ NEED_SCH # "TRUE" /\ single_wCks = {}

(* A seed without new concurrency finds a seed with the same feature "100%" *)
(* although the feature may differ from run to run: the lookup of           *)
(* get_same_sch_exe_q never fails.                                          *)
SameFeatureIsFound ==
  pc = "decide" /\ ~new_window => conCkSumMap[sch_exec[cur]] # None

(* calculate_score_factor_sch never finds an "uncoverd ck": every window in  *)
(* the record of a calibrated seed has a count.                             *)
WindowsAreCounted ==
  \A q \in calibrated : windows_cks[q] \subseteq q_w_mem

(* The seed a window maps to, which cull_queue keeps as interesting, has     *)
(* that window in its own record.                                           *)
WindowOwnersRecordThem ==
  \A w \in Windows : cks_q_w[w] # None => w \in windows_cks[cks_q_w[w]]

(* "This time run without sch!": the target is under a plan only in the      *)
(* runs of a session.                                                       *)
PlainRunsHaveNoPlan == pc \in {"plain", "decide"} /\ stage_cur > 0 => ~is_scheduel

(* "Func addToConMap find repeated element" is an error that ends the        *)
(* fuzzer: a seed whose record is about to enter conCkSumMap has a feature  *)
(* that is not there.                                                       *)
FeatureIsNotRepeated == pc = "session" => NewConcurrent(sch_exec[cur])

(* "Init the same queEntry": a calibrated seed has the windows of the seed   *)
(* with the same concurrency.                                               *)
SameConcurrencySameWindows ==
  pc = "finish" /\ ~new_window =>
    windows_cks[cur] = windows_cks[conCkSumMap[sch_exec[cur]]]

(* "Expend the time to 4 times more!": a run under a plan is given the       *)
(* expanded timeout.                                                        *)
PlansGetMoreTime == pc = "session" /\ plan > 1 => tmout = "expanded"
=============================================================================
