------------------------------ MODULE FuzzOne ------------------------------
(***************************************************************************)
(* fuzz_one from the score on, over several calls for one queue entry: the *)
(* deterministic stages run by run, havoc, splicing and the way out, with  *)
(* common_fuzz_stuff and the signals SIGINT and SIGUSR1, which may arrive  *)
(* between any two steps.  Skipping, calibration and trim are in SeedQueue,*)
(* what becomes of a run in Saving.                                        *)
(***************************************************************************)
EXTENDS Deterministic, Energy

CONSTANTS
  Files,             \* contents the entry may have
  EFF_MIN_LEN,       \* from this length on the effector map is worth a look
  Speeds,            \* pairs of the entry's exec_us and the average
  Coverages,         \* pairs of the entry's bitmap_size and the average
  Kinds,             \* pairs of the depth and the handicap of the entry
  START_TIME,        \* in milliseconds
  RunningTimes,      \* how long the fuzzer may have been running, in seconds
  HAVOC_CYCLES_INIT, HAVOC_CYCLES, HAVOC_MIN,
  SPLICE_HAVOC, SPLICE_CYCLES,
  TMOUT_LIMIT,
  ZeroScoreGoesOn    \* a score of 0 may be met with at most ten paths

ASSUME FuzzOneAssumption ==
  /\ Files \subseteq Seq(Byte) /\ \A f \in Files : Len(f) \in 1..3
  /\ \A p \in Speeds \cup Coverages : p \in (Nat \ {0}) \X (Nat \ {0})
  /\ Kinds \subseteq (Nat \ {0}) \X Nat
  /\ START_TIME \in Nat /\ RunningTimes \subseteq Nat
  /\ {EFF_MIN_LEN, HAVOC_CYCLES_INIT, HAVOC_CYCLES, HAVOC_MIN,
      SPLICE_HAVOC, SPLICE_CYCLES, TMOUT_LIMIT} \subseteq Nat \ {0}
  /\ HAVOC_CYCLES <= HAVOC_CYCLES_INIT /\ SPLICE_HAVOC <= HAVOC_CYCLES_INIT
  /\ ZeroScoreGoesOn \in BOOLEAN

VARIABLES
  pc,               \* "main" between two calls
  file, passed_det, depth, handicap, fuzz_level,   \* the entry
  running,          \* seconds since the start
  state_energy,
  eff,              \* bytes flagged in eff_map
  stage, doing_det, \* deterministic stage
  stage_cur, stage_max,
  perf_score, orig_perf,
  splice_cycle, use_splicing,
  in_buf,           \* "orig", the mapped file, or "spliced", a block
  blocks,           \* blocks of this call: out_buf, eff_map, a spliced in_buf
  subseq_tmouts, stop_soon, skip_requested,
  ret_val

entry == <<file, passed_det, depth, handicap, fuzz_level>>
energy == <<running, state_energy>>
det == <<eff, stage, doing_det>>
havoc == <<perf_score, orig_perf, stage_cur, stage_max>>
splice == <<splice_cycle, use_splicing, in_buf, blocks>>
signals == <<stop_soon, skip_requested>>
vars == <<pc, entry, energy, det, havoc, splice, subseq_tmouts, signals, ret_val>>

MaxScore == 2 * MAX_SCORE

Flagged(f) == IF Len(f) < EFF_MIN_LEN THEN DOMAIN f ELSE {1, Len(f)}

Init ==
  /\ pc = "main" /\ file \in Files /\ passed_det \in BOOLEAN
  /\ (\E k \in Kinds : depth = k[1] /\ handicap = k[2]) /\ fuzz_level = 0
  /\ running \in RunningTimes /\ state_energy = 0
  /\ eff = {} /\ stage = 0 /\ doing_det = FALSE
  /\ perf_score = 0 /\ orig_perf = 0 /\ stage_cur = 0 /\ stage_max = 0
  /\ splice_cycle = 0 /\ use_splicing = FALSE /\ in_buf = "orig" /\ blocks = 0
  /\ subseq_tmouts = 0 /\ stop_soon = FALSE /\ skip_requested = FALSE
  /\ ret_val = 1

-----------------------------------------------------------------------------
(* One run: common_fuzz_stuff.                                             *)

Faults == {"none", "tmout"}

Bails(fault) ==
  stop_soon \/ (fault = "tmout" /\ subseq_tmouts > TMOUT_LIMIT) \/ skip_requested

(* The counter and the flag of SIGUSR1, which is taken back only if the    *)
(* tests before it did not bail out.                                       *)
CountRun(fault) ==
  IF stop_soon THEN UNCHANGED <<subseq_tmouts, signals>>
  ELSE /\ subseq_tmouts' = IF fault = "tmout" THEN subseq_tmouts + 1 ELSE 0
       /\ skip_requested' = (skip_requested /\ fault = "tmout" /\ subseq_tmouts > TMOUT_LIMIT)
       /\ UNCHANGED stop_soon

Abandon == pc' = "abandon" /\ UNCHANGED <<det, havoc>>

-----------------------------------------------------------------------------
(* eff_map is allocated before the walking bytes.                          *)
FLIP8 == 4

RunsOf(s, flagged) == Cardinality(Stage(file, flagged, s))

(* What the score must reach for the deterministic stages. *)
DET_SCORE == Limited(depth * 30)

(* The clock; the start was taken in milliseconds. *)
Clock(seconds) == START_TIME \div 1000 + seconds

(* The head of the main loop looks at the clock; then the call up to the    *)
(* stages.  A score of 0 ends it if there are more than ten paths; -d, a    *)
(* depth that asks for a higher score, passed_det and a checksum that       *)
(* belongs to another master skip the deterministic stages.                 *)
EnterFuzzOne ==
  /\ pc = "main" /\ ~stop_soon
  /\ running' \in RunningTimes /\ running' >= running
  /\ state_energy' = StateEnergy(state_energy, Clock(running'), START_TIME)
  /\ handicap' = HandicapLeft(handicap)
  /\ \E speed \in Speeds, coverage \in Coverages, splicing, det_out_of_scope \in BOOLEAN :
       LET score == Score(CalculateScore(speed, coverage, handicap, depth), state_energy', fuzz_level)
       IN /\ perf_score' = score /\ orig_perf' = score
          /\ use_splicing' = splicing
          /\ \/ pc' = "abandon" /\ score = 0
             \/ pc' = "enter_havoc" /\ (passed_det \/ det_out_of_scope \/ score < DET_SCORE)
                /\ (score = 0 => ZeroScoreGoesOn)
             \/ pc' = "det" /\ ~passed_det /\ ~det_out_of_scope
                /\ score >= DET_SCORE
  /\ doing_det' = (pc' = "det")
  /\ IF pc' = "det" THEN stage' = 1 /\ eff' = Flagged(file) /\ stage_max' = RunsOf(1, eff')
     ELSE stage' = 0 /\ eff' = {} /\ stage_max' = 0
  /\ blocks' = 1 /\ in_buf' = "orig" /\ splice_cycle' = 0
  /\ stage_cur' = 0 /\ subseq_tmouts' = 0 /\ ret_val' = 1
  /\ UNCHANGED <<file, passed_det, depth, fuzz_level, signals>>

(* One run of a deterministic stage; a walking byte may turn out to have   *)
(* an effect.  (The checksum compared is that of the map after the result  *)
(* was saved, which a calibration or simplify_trace may have overwritten.) *)
DetRun ==
  /\ pc = "det" /\ stage_cur < stage_max
  /\ \E fault \in Faults :
       /\ CountRun(fault)
       /\ IF Bails(fault) THEN Abandon
          ELSE /\ stage_cur' = stage_cur + 1
               /\ eff' \in IF stage = FLIP8 THEN {eff, eff \cup {stage_cur'}} ELSE {eff}
               /\ UNCHANGED <<pc, stage, doing_det, stage_max, perf_score, orig_perf>>
  /\ UNCHANGED <<entry, energy, splice, ret_val>>

NextStage ==
  /\ pc = "det" /\ stage_cur = stage_max /\ stage < NumStages
  /\ stage' = stage + 1 /\ stage_cur' = 0 /\ stage_max' = RunsOf(stage', eff)
  /\ blocks' = IF stage' = FLIP8 THEN blocks + 1 ELSE blocks
  /\ UNCHANGED <<pc, entry, energy, eff, doing_det, perf_score, orig_perf, splice_cycle, use_splicing, in_buf,
                 subseq_tmouts, signals, ret_val>>

(* mark_as_det_done.                                                       *)
MarkAsDetDone ==
  /\ pc = "det" /\ stage_cur = stage_max /\ stage = NumStages
  /\ passed_det' = TRUE /\ pc' = "enter_havoc"
  /\ UNCHANGED <<file, depth, handicap, fuzz_level, energy, det, havoc, splice, subseq_tmouts, signals, ret_val>>

-----------------------------------------------------------------------------
(* Havoc.                                                                  *)

AtLeast(m, n) == IF m < n THEN n ELSE m
Cycles == IF splice_cycle > 0 THEN SPLICE_HAVOC
          ELSE IF doing_det THEN HAVOC_CYCLES_INIT ELSE HAVOC_CYCLES

EnterHavoc ==
  /\ pc = "enter_havoc" /\ pc' = "havoc"
  /\ perf_score' = IF splice_cycle > 0 THEN orig_perf ELSE perf_score
  /\ stage_cur' = 0
  /\ stage_max' = AtLeast((Cycles * perf_score') \div 100, HAVOC_MIN)
  /\ UNCHANGED <<entry, energy, det, orig_perf, splice, subseq_tmouts, signals, ret_val>>

(* A bug of Longer: the score is not doubled with the stage.               *)
LongerForEver ==
  /\ stage_max' = 2 * stage_max
  /\ UNCHANGED perf_score

(* "If we're finding new stuff, let's run for a bit longer."               *)
Longer ==
  IF perf_score <= MAX_SCORE
  THEN stage_max' = 2 * stage_max /\ perf_score' = 2 * perf_score
  ELSE UNCHANGED <<stage_max, perf_score>>

(* One run, which may have added to the queue.                             *)
HavocRun ==
  /\ pc = "havoc" /\ stage_cur < stage_max
  /\ \E fault \in Faults, found \in BOOLEAN :
       /\ CountRun(fault)
       /\ IF Bails(fault) THEN Abandon
          ELSE /\ stage_cur' = stage_cur + 1
               /\ IF found THEN Longer ELSE UNCHANGED <<stage_max, perf_score>>
               /\ UNCHANGED <<pc, det, orig_perf>>
  /\ UNCHANGED <<entry, energy, splice, ret_val>>

HavocEnds ==
  /\ pc = "havoc" /\ stage_cur = stage_max
  /\ pc' = "retry_splicing"
  /\ UNCHANGED <<entry, energy, det, havoc, splice, subseq_tmouts, signals, ret_val>>

-----------------------------------------------------------------------------
(* Splicing.                                                               *)

(* A bug of CountCycle: the counter is tested, and never moves.            *)
CountNoCycle == UNCHANGED splice_cycle
CountCycle == splice_cycle' = splice_cycle + 1

MaySplice == use_splicing /\ splice_cycle < SPLICE_CYCLES /\ Len(file) > 1

(* A bug of Spliced: the block of the last splice is not freed.            *)
SplicedOver == in_buf' = "spliced" /\ blocks' = blocks + 1

(* The block of the last splice is freed, the next one takes its place.    *)
Spliced ==
  /\ in_buf' = "spliced"
  /\ blocks' = IF in_buf = "spliced" THEN blocks ELSE blocks + 1

(* A second entry that differs in more than a byte or so is found; out_buf *)
(* is replaced by a block of its length.                                   *)
Splice ==
  /\ pc = "retry_splicing" /\ MaySplice
  /\ CountCycle /\ Spliced
  /\ pc' = "enter_havoc"
  /\ UNCHANGED <<entry, energy, det, havoc, use_splicing, subseq_tmouts, signals, ret_val>>

(* No entry of two bytes after the one drawn, or one without a difference. *)
SpliceFails ==
  /\ pc = "retry_splicing" /\ MaySplice
  /\ CountCycle
  /\ in_buf' = "orig" /\ blocks' = IF in_buf = "spliced" THEN blocks - 1 ELSE blocks
  /\ UNCHANGED <<pc, entry, energy, det, havoc, use_splicing, subseq_tmouts, signals, ret_val>>

(* target_splicing.  The only entry, of one byte, takes the way of those   *)
(* that bailed out.  Otherwise the limit is asked from helper.cc, whose    *)
(* own copies of the queue and of its size stay empty: it is 0, and no     *)
(* target is spliced.                                                      *)
SplicingEnds ==
  /\ pc = "retry_splicing" /\ ~MaySplice
  /\ pc' = "abandon"
  /\ ret_val' \in IF Len(file) <= 1 THEN {0, 1} ELSE {0}
  /\ UNCHANGED <<entry, energy, det, havoc, splice, subseq_tmouts, signals>>

(* get_splicing_targets counts with a variable that nobody has set: with   *)
(* any other value than 0 it takes from an empty priority queue.           *)
TargetsFromNowhere ==
  /\ pc = "retry_splicing" /\ ~MaySplice
  /\ pc' = "died"
  /\ UNCHANGED <<entry, energy, det, havoc, splice, subseq_tmouts, signals, ret_val>>

-----------------------------------------------------------------------------

(* abandon_entry: out_buf, eff_map if there is one, and a spliced in_buf.   *)
(* fuzz_level is capped where it is no longer told apart.                   *)
HasEffMap == doing_det /\ stage >= FLIP8
LeaveFuzzOne ==
  /\ pc = "abandon" /\ pc' = "main"
  /\ blocks' = blocks - 1 - (IF HasEffMap THEN 1 ELSE 0) - (IF in_buf = "spliced" THEN 1 ELSE 0)
  /\ in_buf' = "orig" /\ doing_det' = FALSE /\ stage' = 0 /\ eff' = {}
  /\ perf_score' = 0 /\ orig_perf' = 0 /\ stage_cur' = 0 /\ stage_max' = 0
  /\ splice_cycle' = 0 /\ use_splicing' = FALSE
  /\ fuzz_level' = IF fuzz_level < SchLevel THEN fuzz_level + 1 ELSE fuzz_level
  /\ UNCHANGED <<file, passed_det, depth, handicap, energy, subseq_tmouts, signals, ret_val>>

(* The main loop ends after the call during which a stop was asked for.    *)
LeaveMain ==
  /\ pc = "main" /\ stop_soon /\ pc' = "stopped"
  /\ UNCHANGED <<entry, energy, det, havoc, splice, subseq_tmouts, signals, ret_val>>

Sigint ==
  /\ pc \notin {"died", "stopped"} /\ ~stop_soon /\ stop_soon' = TRUE
  /\ UNCHANGED <<pc, entry, energy, det, havoc, splice, subseq_tmouts, skip_requested, ret_val>>

Sigusr1 ==
  /\ pc \notin {"died", "stopped"} /\ ~skip_requested /\ skip_requested' = TRUE
  /\ UNCHANGED <<pc, entry, energy, det, havoc, splice, subseq_tmouts, stop_soon, ret_val>>

Ended == pc \in {"died", "stopped"} /\ UNCHANGED vars

Advance ==
  \/ EnterFuzzOne \/ DetRun \/ NextStage \/ MarkAsDetDone
  \/ EnterHavoc \/ HavocRun \/ HavocEnds
  \/ Splice \/ SpliceFails \/ SplicingEnds \/ TargetsFromNowhere
  \/ LeaveFuzzOne \/ LeaveMain

Next == Advance \/ Sigint \/ Sigusr1 \/ Ended

Spec == Init /\ [][Next]_vars

(* One thread, and every run of the program under test ends (RunsEnd).     *)
FairSpec == Spec /\ WF_vars(Advance)

-----------------------------------------------------------------------------

FuzzOneTypeOK ==
  /\ pc \in {"main", "det", "enter_havoc", "havoc", "retry_splicing", "abandon",
             "stopped", "died"}
  /\ file \in Files /\ eff \subseteq DOMAIN file
  /\ {passed_det, doing_det, use_splicing, stop_soon, skip_requested} \subseteq BOOLEAN
  /\ stage \in 0..NumStages /\ stage_cur \in 0..stage_max
  /\ perf_score \in 0..MaxScore /\ orig_perf \in 0..MAX_SCORE
  /\ depth \in Nat /\ handicap \in Nat /\ fuzz_level \in 0..SchLevel
  /\ running \in RunningTimes /\ state_energy \in {0, 1}
  /\ splice_cycle \in 0..SPLICE_CYCLES
  /\ in_buf \in {"orig", "spliced"} /\ blocks \in 0..3
  /\ subseq_tmouts \in 0..(TMOUT_LIMIT + 2) /\ ret_val \in {0, 1}

(* An entry is marked as done, here and for every later resume, only if    *)
(* every sum, difference and interesting value was run at each place with  *)
(* an effect, or was spared because another stage had run the same file;   *)
(* the only ones lost are those that could_be_bitflip mistakes for a flip  *)
(* across the border of two bytes, and those confined to bytes without an  *)
(* effect.                                                                 *)
Lost(buf, flagged) ==
  LET tried == Tried(buf, flagged)
  IN {b \in Promised(buf, flagged) : b # buf /\ b \notin tried /\ ~AcrossTheBorder(buf, b)}

MarkedMeansTried ==
  [][passed_det' # passed_det =>
       \A b \in Lost(file, eff) : Changed(file, b) \cap eff = {}]_vars

(* Without the allowance for runs across the border.                       *)
MarkedMeansAllTried ==
  [][passed_det' # passed_det => Promised(file, eff) \subseteq Tried(file, eff) \cup {file}]_vars

(* However often runs find something new, a havoc stage stays within twice *)
(* the limit that is set to it, "limits permitting"; the stage of an entry *)
(* of a low score begins with HAVOC_MIN runs and is doubled until the score*)
(* is at its limit.                                                        *)
MaxStage ==
  AtLeast(2 * HAVOC_MAX_MULT * HAVOC_CYCLES_INIT,
          IF orig_perf = 0 THEN 0 ELSE (HAVOC_MIN * MaxScore) \div orig_perf)

HavocIsBounded == pc = "havoc" => stage_max <= MaxStage

(* The blocks of a call are those the pointers lead to, on every way       *)
(* through the labels, and after the call there are none.                  *)
BlocksAccounted ==
  pc # "died" =>
    blocks = IF pc \in {"main", "stopped"} THEN 0
             ELSE 1 + (IF HasEffMap THEN 1 ELSE 0) + (IF in_buf = "spliced" THEN 1 ELSE 0)

(* A call comes to its end, and a stop is obeyed, even if every run finds  *)
(* something, times out or no second entry suits.                          *)
FuzzOneReturns ==
  /\ pc # "main" ~> pc \in {"main", "stopped", "died"}
  /\ stop_soon ~> pc \in {"stopped", "died"}

(* change_state_enery_byTime compares "(cur_time - start_time)" with a       *)
(* twelfth of the running time: before that an entry gets its score in the  *)
(* fast way.                                                                *)
FastModeFirst == state_energy = 1 => running > whole_running_time \div 12
=============================================================================
