--------------------------- MODULE FuzzOneProofs ---------------------------
(***************************************************************************)
(* fuzz_one, in three parts.                                               *)
(*                                                                         *)
(* FuzzOne: the blocks and the number of runs, for any entries, costs,     *)
(* score limits and cycles.  The inductive invariant (CallInv) is the      *)
(* accounting of the blocks by label, and that havoc doubles stage and     *)
(* score together.                                                         *)
(*                                                                         *)
(* The deterministic stages, for any files and effector maps: the bits in  *)
(* which two bytes differ determine one from the other (DifferenceInByte,  *)
(* MaskIs), so what could_be_bitflip takes for a flip is one or a run      *)
(* across the border of two bytes, what could_be_arith takes for a sum is  *)
(* one, and a word that changes one byte is covered by that byte.          *)
(*                                                                         *)
(* Dictionary: the tokens found, tried and saved, for any files, tokens,   *)
(* effects and limits.  FoundInv says what the list of found tokens and    *)
(* the files on disk have to do with each other at each step of save_auto, *)
(* StageInv what a stage in the middle of a file has tried and may still   *)
(* have to restore, RunsInv what the walking bit has collected.            *)
(***************************************************************************)
EXTENDS FuzzOne, Dictionary, FiniteSetTheorems, SequenceTheorems, TLAPS

(* The types of what the score, the stages and the blocks depend on.       *)
CallTyped ==
  /\ pc \in {"main", "det", "enter_havoc", "havoc", "retry_splicing", "abandon", "stopped", "died"}
  /\ depth \in Nat \ {0} /\ handicap \in Nat /\ fuzz_level \in 0..SchLevel
  /\ stage \in 0..NumStages /\ doing_det \in BOOLEAN
  /\ splice_cycle \in Nat /\ in_buf \in {"orig", "spliced"} /\ blocks \in Int
  /\ orig_perf \in 0..MAX_SCORE /\ perf_score \in 0..MaxScore

(* The score of a call that makes runs is not 0, and until havoc doubles   *)
(* it it is the one the call began with.                                   *)
ScoreInv ==
  /\ pc = "det" => doing_det /\ splice_cycle = 0
  /\ pc \in {"det", "enter_havoc", "havoc", "retry_splicing"} => orig_perf > 0 \/ ZeroScoreGoesOn
  /\ pc \in {"det", "enter_havoc"} /\ splice_cycle = 0 => perf_score = orig_perf

(* Stage and score are doubled together: the stage is at most the share of *)
(* its cycles that the score asks for, or HAVOC_MIN as many times as the   *)
(* score is that of the call.                                              *)
DoublingInv ==
  pc = "havoc" =>
    /\ stage_max \in Nat
    /\ \/ stage_max * 100 <= Cycles * perf_score
       \/ stage_max * orig_perf = HAVOC_MIN * perf_score

(* The inductive invariant.                                                *)
CallInv == CallTyped /\ BlocksAccounted /\ ScoreInv /\ DoublingInv

-----------------------------------------------------------------------------
(* Numbers.                                                                *)

(* The limits that config.h sets.                                          *)
LEMMA ConfigNumbers ==
  /\ HAVOC_MAX_MULT \in Nat \ {0} /\ MAX_FACTOR \in Nat \ {0}
  /\ SchLevel \in 1..16
  /\ MAX_SCORE \in Nat /\ MAX_SCORE >= 100 /\ MaxScore = 2 * MAX_SCORE
BY EnergyAssumption DEF MAX_SCORE, MaxScore

(* The cycles of havoc, spliced or not, are at most those of a first run.  *)
LEMMA CyclesTyped ==
  ASSUME CallTyped
  PROVE  Cycles \in Nat /\ Cycles <= HAVOC_CYCLES_INIT
BY FuzzOneAssumption DEF Cycles, CallTyped

(* A natural number times another is one: the provers need it said.        *)
LEMMA ProductIsNat == \A m, n \in Nat : m * n \in Nat
OBVIOUS

(* A product grows with each of its factors.                               *)
LEMMA ProductGrows ==
  ASSUME NEW m \in Nat, NEW n \in Nat, NEW p \in Nat, NEW q \in Nat, m <= p, n <= q
  PROVE  m * n <= p * q
<1>1. m * n <= p * n /\ p * n <= p * q
  OBVIOUS
<1>2. m * n \in Nat /\ p * n \in Nat /\ p * q \in Nat
  OBVIOUS
<1>3. QED
  BY <1>1, <1>2

(* A score below a limit, whatever it is multiplied by.                    *)
LEMMA LimitedTyped ==
  ASSUME NEW s \in Nat
  PROVE  Limited(s) \in 0..MAX_SCORE /\ (s > 0 => Limited(s) > 0)
BY ConfigNumbers DEF Limited

(* The factor of the schedule is a natural number in either mode.          *)
LEMMA FactorTyped ==
  ASSUME NEW energy_mode, NEW level \in 0..SchLevel
  PROVE  Factor(energy_mode, level) \in Nat
<1>1. CASE level < SchLevel
  <2>1. level + 1 \in 1..16
    BY <1>1, ConfigNumbers
  <2>2. \A n \in 1..16 : Shifted[n] \in Nat
    BY DEF Shifted
  <2>3. QED
    BY <1>1, <2>1, <2>2 DEF Factor
<1>2. CASE ~(level < SchLevel)
  BY <1>2, ConfigNumbers DEF Factor, FactorSch
<1>3. QED
  BY <1>1, <1>2

(* calculate_score stays within the limit.                                 *)
LEMMA CalculateScoreTyped ==
  ASSUME NEW speed \in Speeds, NEW coverage \in Coverages, NEW h \in Nat, NEW d \in Nat
  PROVE  CalculateScore(speed, coverage, h, d) \in 0..MAX_SCORE
<1>1. /\ speed[1] \in Nat /\ speed[2] \in Nat /\ coverage[1] \in Nat /\ coverage[2] \in Nat
  BY FuzzOneAssumption
<1>2. BySpeed(speed[1], speed[2]) \in Nat
  BY <1>1 DEF BySpeed
<1>3. \A s \in Nat : ByCoverage(s, coverage[1], coverage[2]) \in Nat
  BY <1>1 DEF ByCoverage
<1>4. \A s \in Nat : ByHandicap(s, h) \in Nat
  BY DEF ByHandicap
<1>5. \A s \in Nat : ByDepth(s, d) \in Nat
  BY DEF ByDepth
<1>6. QED
  BY <1>2, <1>3, <1>4, <1>5, LimitedTyped DEF CalculateScore

(* So does the score with the factor of the schedule.                      *)
LEMMA ScoreTyped ==
  ASSUME NEW speed \in Speeds, NEW coverage \in Coverages, NEW h \in Nat, NEW d \in Nat,
         NEW energy_mode, NEW level \in 0..SchLevel
  PROVE  Score(CalculateScore(speed, coverage, h, d), energy_mode, level) \in 0..MAX_SCORE
<1>1. CalculateScore(speed, coverage, h, d) \in Nat
  BY CalculateScoreTyped, ConfigNumbers
<1>2. Factor(energy_mode, level) \in Nat
  BY FactorTyped
<1> HIDE DEF CalculateScore, Factor
<1>3. CalculateScore(speed, coverage, h, d) * Factor(energy_mode, level) \in Nat
  BY <1>1, <1>2, ProductIsNat
<1>4. QED
  BY <1>3, LimitedTyped DEF Score

-----------------------------------------------------------------------------
(* The steps.                                                              *)

LEMMA CallInit == Init => CallInv
<1> SUFFICES ASSUME Init PROVE CallInv
  OBVIOUS
<1>1. PICK k \in Kinds : depth = k[1] /\ handicap = k[2]
  BY DEF Init
<1>2. depth \in Nat \ {0} /\ handicap \in Nat
  BY <1>1, FuzzOneAssumption
<1>3. CallTyped
  <2>1. fuzz_level \in 0..SchLevel /\ orig_perf \in 0..MAX_SCORE /\ perf_score \in 0..MaxScore
    BY ConfigNumbers DEF Init
  <2>2. doing_det \in BOOLEAN
    BY DEF Init
  <2>3. QED
    BY <1>2, <2>1, <2>2 DEF Init, CallTyped, NumStages
<1>4. QED
  BY <1>3 DEF Init, CallInv, BlocksAccounted, ScoreInv, DoublingInv

LEMMA EnterFuzzOneKeeps ==
  ASSUME CallInv, EnterFuzzOne PROVE CallInv'
<1> USE DEF CallInv
<1>1. /\ pc = "main" /\ depth' = depth /\ fuzz_level' = fuzz_level
      /\ handicap' = HandicapLeft(handicap)
      /\ doing_det' = (pc' = "det") /\ blocks' = 1 /\ in_buf' = "orig" /\ splice_cycle' = 0
      /\ IF pc' = "det" THEN stage' = 1 ELSE stage' = 0
  BY DEF EnterFuzzOne
<1>2. PICK speed \in Speeds, coverage \in Coverages, det_out_of_scope \in BOOLEAN :
        LET score == Score(CalculateScore(speed, coverage, handicap, depth), state_energy', fuzz_level)
        IN /\ perf_score' = score /\ orig_perf' = score
           /\ \/ pc' = "abandon" /\ score = 0
              \/ pc' = "enter_havoc" /\ (passed_det \/ det_out_of_scope \/ score < DET_SCORE)
                 /\ (score = 0 => ZeroScoreGoesOn)
              \/ pc' = "det" /\ ~passed_det /\ ~det_out_of_scope
                 /\ score >= DET_SCORE
  BY DEF EnterFuzzOne
<1> DEFINE score == Score(CalculateScore(speed, coverage, handicap, depth), state_energy', fuzz_level)
<1>3. score \in 0..MAX_SCORE
  BY ScoreTyped DEF CallTyped
<1>4. DET_SCORE > 0
  <2>1. depth * 30 \in Nat /\ depth * 30 > 0
    BY DEF CallTyped
  <2>2. QED
    BY <2>1, LimitedTyped DEF DET_SCORE
<1>5. DET_SCORE \in Nat
  <2>1. depth * 30 \in Nat
    BY DEF CallTyped
  <2>2. QED
    BY <2>1, LimitedTyped, ConfigNumbers DEF DET_SCORE
<1>6. /\ perf_score' = score /\ orig_perf' = score
      /\ pc' \in {"abandon", "enter_havoc", "det"}
      /\ pc' \in {"det", "enter_havoc"} => score > 0 \/ ZeroScoreGoesOn
  <2> HIDE DEF score
  <2>1. /\ perf_score' = score /\ orig_perf' = score
        /\ \/ pc' = "abandon" /\ score = 0
           \/ pc' = "enter_havoc" /\ (score = 0 => ZeroScoreGoesOn)
           \/ pc' = "det" /\ score >= DET_SCORE
    BY <1>2 DEF score
  <2>2. QED
    BY <2>1, <1>3, <1>4, <1>5, ConfigNumbers
<1> HIDE DEF score
<1>7. handicap' \in Nat
  BY <1>1 DEF CallTyped, HandicapLeft
<1>8. CallTyped'
  BY <1>1, <1>3, <1>6, <1>7, ConfigNumbers DEF CallTyped, NumStages
<1>9. BlocksAccounted'
  BY <1>1, <1>6 DEF BlocksAccounted, HasEffMap, FLIP8
<1>10. ScoreInv' /\ DoublingInv'
  BY <1>1, <1>6 DEF ScoreInv, DoublingInv
<1>11. QED
  BY <1>8, <1>9, <1>10

(* A run that bails out leaves the call where it is, on its way out.       *)
LEMMA AbandonKeeps ==
  ASSUME CallInv, pc \in {"det", "havoc"}, Abandon, UNCHANGED <<entry, splice>>
  PROVE  CallInv'
BY DEF CallInv, CallTyped, BlocksAccounted, HasEffMap, ScoreInv, DoublingInv, Abandon, det, havoc,
   entry, splice

LEMMA DetRunKeeps ==
  ASSUME CallInv, DetRun PROVE CallInv'
<1>1. PICK fault \in Faults :
        IF Bails(fault) THEN Abandon
        ELSE UNCHANGED <<pc, stage, doing_det, stage_max, perf_score, orig_perf>>
  BY DEF DetRun
<1>2. pc = "det" /\ UNCHANGED <<entry, splice>>
  BY DEF DetRun
<1>3. CASE Bails(fault)
  BY <1>1, <1>2, <1>3, AbandonKeeps
<1>4. CASE ~Bails(fault)
  BY <1>1, <1>2, <1>4 DEF CallInv, CallTyped, BlocksAccounted, HasEffMap, ScoreInv, DoublingInv,
     entry, splice
<1>5. QED
  BY <1>3, <1>4

LEMMA NextStageKeeps ==
  ASSUME CallInv, NextStage PROVE CallInv'
<1> USE DEF CallInv, NextStage
<1>1. CallTyped'
  BY DEF CallTyped, NumStages, FLIP8, entry
<1>2. BlocksAccounted'
  BY DEF CallTyped, BlocksAccounted, HasEffMap, ScoreInv, NumStages, FLIP8
<1>3. ScoreInv' /\ DoublingInv'
  BY DEF ScoreInv, DoublingInv
<1>4. QED
  BY <1>1, <1>2, <1>3

LEMMA MarkKeeps ==
  ASSUME CallInv, MarkAsDetDone PROVE CallInv'
BY DEF CallInv, CallTyped, BlocksAccounted, HasEffMap, ScoreInv, DoublingInv, MarkAsDetDone, det, havoc,
   splice

LEMMA EnterHavocKeeps ==
  ASSUME CallInv, EnterHavoc PROVE CallInv'
<1> USE DEF CallInv
<1>1. /\ pc = "enter_havoc" /\ pc' = "havoc"
      /\ UNCHANGED <<entry, det, orig_perf, splice>>
      /\ perf_score' = IF splice_cycle > 0 THEN orig_perf ELSE perf_score
      /\ stage_max' = AtLeast((Cycles * perf_score') \div 100, HAVOC_MIN)
  BY DEF EnterHavoc
<1>2. perf_score' = orig_perf /\ orig_perf \in Nat
  BY <1>1, ConfigNumbers DEF ScoreInv, CallTyped
<1>3. CallTyped'
  BY <1>1, <1>2, ConfigNumbers DEF CallTyped, entry, det, splice
<1>4. BlocksAccounted' /\ ScoreInv'
  BY <1>1 DEF BlocksAccounted, HasEffMap, ScoreInv, entry, det, splice
<1>5. Cycles \in Nat /\ Cycles' = Cycles
  BY <1>1, CyclesTyped DEF Cycles, det, splice
<1> DEFINE asked == Cycles * orig_perf
<1>6. asked \in Nat
  BY <1>2, <1>5, ProductIsNat
<1> HIDE DEF asked
<1>7. stage_max' = AtLeast(asked \div 100, HAVOC_MIN)
  BY <1>1, <1>2 DEF asked
<1>8. HAVOC_MIN \in Nat
  BY FuzzOneAssumption
<1>9. stage_max' \in Nat /\ (stage_max' * 100 <= asked \/ stage_max' = HAVOC_MIN)
  BY <1>6, <1>7, <1>8 DEF AtLeast
<1>10. DoublingInv'
  <2>1. stage_max' * 100 <= asked => stage_max' * 100 <= Cycles' * perf_score'
    BY <1>2, <1>5 DEF asked
  <2>2. stage_max' = HAVOC_MIN => stage_max' * orig_perf' = HAVOC_MIN * perf_score'
    BY <1>1, <1>2
  <2>3. QED
    BY <1>9, <2>1, <2>2 DEF DoublingInv
<1>11. QED
  BY <1>3, <1>4, <1>10

(* Both sides of the invariant are doubled.                                *)
LEMMA BothDoubled ==
  ASSUME NEW s \in Nat, NEW p \in Nat, NEW o \in Nat, NEW c \in Nat, NEW h \in Nat
  PROVE  /\ s * 100 <= c * p => (2 * s) * 100 <= c * (2 * p)
         /\ s * o = h * p => (2 * s) * o = h * (2 * p)
<1>1. c * (2 * p) = 2 * (c * p) /\ (2 * s) * o = 2 * (s * o) /\ h * (2 * p) = 2 * (h * p)
  OBVIOUS
<1>2. c * p \in Nat /\ s * o \in Nat /\ h * p \in Nat
  OBVIOUS
<1>3. QED
  BY <1>1, <1>2

LEMMA HavocRunKeeps ==
  ASSUME CallInv, HavocRun PROVE CallInv'
<1>1. PICK fault \in Faults, new \in BOOLEAN :
        IF Bails(fault) THEN Abandon
        ELSE /\ IF new THEN Longer ELSE UNCHANGED <<stage_max, perf_score>>
             /\ UNCHANGED <<pc, det, orig_perf>>
  BY DEF HavocRun
<1>2. pc = "havoc" /\ UNCHANGED <<entry, splice>>
  BY DEF HavocRun
<1>3. CASE Bails(fault)
  BY <1>1, <1>2, <1>3, AbandonKeeps
<1>4. CASE ~Bails(fault)
  <2>1. UNCHANGED <<pc, det, orig_perf>>
    BY <1>1, <1>4
  <2>2. \/ UNCHANGED <<stage_max, perf_score>>
        \/ perf_score <= MAX_SCORE /\ stage_max' = 2 * stage_max /\ perf_score' = 2 * perf_score
    BY <1>1, <1>4 DEF Longer
  <2>3. CallTyped'
    BY <1>2, <2>1, <2>2, ConfigNumbers DEF CallInv, CallTyped, entry, det, splice
  <2>4. BlocksAccounted' /\ ScoreInv'
    BY <1>2, <2>1 DEF CallInv, BlocksAccounted, HasEffMap, ScoreInv, entry, det, splice
  <2>5. DoublingInv'
    <3>1. /\ stage_max \in Nat /\ perf_score \in Nat /\ orig_perf \in Nat
          /\ Cycles \in Nat /\ HAVOC_MIN \in Nat
      BY <1>2, CyclesTyped, ConfigNumbers, FuzzOneAssumption DEF CallInv, CallTyped, DoublingInv
    <3>2. Cycles' = Cycles /\ orig_perf' = orig_perf
      BY <1>2, <2>1 DEF Cycles, det, splice
    <3>3. stage_max * 100 <= Cycles * perf_score \/ stage_max * orig_perf = HAVOC_MIN * perf_score
      BY <1>2 DEF CallInv, DoublingInv
    <3>4. CASE UNCHANGED <<stage_max, perf_score>>
      BY <3>1, <3>2, <3>3, <3>4 DEF DoublingInv
    <3>5. CASE stage_max' = 2 * stage_max /\ perf_score' = 2 * perf_score
      <4>1. \/ stage_max' * 100 <= Cycles' * perf_score'
            \/ stage_max' * orig_perf' = HAVOC_MIN * perf_score'
        BY <3>1, <3>2, <3>3, <3>5, BothDoubled
      <4>2. stage_max' \in Nat
        BY <3>1, <3>5
      <4>3. QED
        BY <4>1, <4>2 DEF DoublingInv
    <3>6. QED
      BY <2>2, <3>4, <3>5
  <2>6. QED
    BY <2>3, <2>4, <2>5 DEF CallInv
<1>5. QED
  BY <1>3, <1>4

LEMMA HavocEndsKeeps ==
  ASSUME CallInv, HavocEnds PROVE CallInv'
BY DEF CallInv, CallTyped, BlocksAccounted, HasEffMap, ScoreInv, DoublingInv, HavocEnds, entry, det, havoc,
   splice

LEMMA SpliceKeeps ==
  ASSUME CallInv, Splice PROVE CallInv'
BY DEF CallInv, CallTyped, BlocksAccounted, HasEffMap, ScoreInv, DoublingInv, Splice, Spliced, CountCycle,
   entry, det, havoc

LEMMA SpliceFailsKeeps ==
  ASSUME CallInv, SpliceFails PROVE CallInv'
BY DEF CallInv, CallTyped, BlocksAccounted, HasEffMap, ScoreInv, DoublingInv, SpliceFails, CountCycle,
   entry, det, havoc

LEMMA SplicingEndsKeeps ==
  ASSUME CallInv, SplicingEnds \/ TargetsFromNowhere PROVE CallInv'
BY DEF CallInv, CallTyped, BlocksAccounted, HasEffMap, ScoreInv, DoublingInv, SplicingEnds,
   TargetsFromNowhere, entry, det, havoc, splice

LEMMA LeaveFuzzOneKeeps ==
  ASSUME CallInv, LeaveFuzzOne PROVE CallInv'
<1> USE DEF CallInv, LeaveFuzzOne
<1>1. CallTyped'
  <2>1. fuzz_level' \in 0..SchLevel /\ orig_perf' \in 0..MAX_SCORE /\ perf_score' \in 0..MaxScore
    BY ConfigNumbers DEF CallTyped
  <2>2. doing_det' \in BOOLEAN
    OBVIOUS
  <2>3. blocks' \in Int
    BY DEF CallTyped
  <2>4. QED
    BY <2>1, <2>2, <2>3 DEF CallTyped, NumStages
<1>2. BlocksAccounted'
  BY DEF CallTyped, BlocksAccounted
<1>3. ScoreInv' /\ DoublingInv'
  BY DEF ScoreInv, DoublingInv
<1>4. QED
  BY <1>1, <1>2, <1>3

LEMMA OutsideKeeps ==
  ASSUME CallInv, LeaveMain \/ Sigint \/ Sigusr1 \/ UNCHANGED vars PROVE CallInv'
<1>1. /\ UNCHANGED <<entry, det, havoc, splice>>
      /\ pc' = pc \/ (pc = "main" /\ pc' = "stopped")
  BY DEF LeaveMain, Sigint, Sigusr1, vars
<1>2. QED
  BY <1>1 DEF CallInv, CallTyped, BlocksAccounted, HasEffMap, ScoreInv, DoublingInv, Cycles,
     entry, det, havoc, splice

LEMMA CallStep ==
  ASSUME CallInv, [Next]_vars PROVE CallInv'
BY EnterFuzzOneKeeps, DetRunKeeps, NextStageKeeps, MarkKeeps, EnterHavocKeeps, HavocRunKeeps, HavocEndsKeeps,
   SpliceKeeps, SpliceFailsKeeps, SplicingEndsKeeps, LeaveFuzzOneKeeps, OutsideKeeps
   DEF Next, Advance, Ended

(* The inductive invariant holds throughout fuzz_one and between calls.    *)
THEOREM CallCorrect == Spec => []CallInv
<1>1. CallInv /\ [Next]_vars => CallInv'
  BY CallStep
<1>2. QED
  BY CallInit, <1>1, PTL DEF Spec

(* On every way through the labels of fuzz_one the blocks of a call are    *)
(* those its pointers lead to, and abandon_entry frees them all.           *)
THEOREM BlocksAlwaysAccounted == Spec => []BlocksAccounted
<1>1. CallInv => BlocksAccounted
  BY DEF CallInv
<1>2. QED
  BY CallCorrect, <1>1, PTL

(* What the invariant says of the number of runs.                          *)
LEMMA StageIsBounded ==
  ASSUME ~ZeroScoreGoesOn, CallInv PROVE HavocIsBounded
<1> SUFFICES ASSUME pc = "havoc" PROVE stage_max <= MaxStage
  BY DEF HavocIsBounded
<1> DEFINE byCycles == 2 * HAVOC_MAX_MULT * HAVOC_CYCLES_INIT
           byScore == (HAVOC_MIN * MaxScore) \div orig_perf
<1>1. /\ stage_max \in Nat /\ perf_score \in 0..MaxScore /\ orig_perf \in Nat \ {0} /\ MaxScore \in Nat
      /\ HAVOC_MIN \in Nat /\ HAVOC_CYCLES_INIT \in Nat /\ HAVOC_MAX_MULT \in Nat
  BY ConfigNumbers, FuzzOneAssumption DEF CallInv, CallTyped, DoublingInv, ScoreInv
<1>2. Cycles \in Nat /\ Cycles <= HAVOC_CYCLES_INIT
  BY CyclesTyped DEF CallInv
<1>3. CASE stage_max * 100 <= Cycles * perf_score
  <2>1. Cycles * perf_score <= HAVOC_CYCLES_INIT * MaxScore
    BY <1>1, <1>2, ProductGrows
  <2>2. HAVOC_CYCLES_INIT * MaxScore = 100 * byCycles /\ byCycles \in Nat
    BY <1>1 DEF MaxScore, MAX_SCORE
  <2>3. Cycles * perf_score \in Nat
    BY <1>1, <1>2, ProductIsNat
  <2> HIDE DEF byCycles
  <2>4. stage_max <= byCycles
    BY <1>1, <1>3, <2>1, <2>2, <2>3
  <2>5. byScore \in Nat
    <3>1. HAVOC_MIN * MaxScore \in Nat
      BY <1>1, ProductIsNat
    <3>2. QED
      BY <1>1, <3>1
  <2> HIDE DEF byScore
  <2>6. MaxStage = AtLeast(byCycles, byScore)
    BY <1>1 DEF MaxStage, byCycles, byScore
  <2>7. QED
    BY <1>1, <2>2, <2>4, <2>5, <2>6 DEF AtLeast
<1>4. CASE stage_max * orig_perf = HAVOC_MIN * perf_score
  <2>1. HAVOC_MIN * perf_score <= HAVOC_MIN * MaxScore
    BY <1>1, ProductGrows
  <2>2. HAVOC_MIN * MaxScore \in Nat /\ HAVOC_MIN * perf_score \in Nat
    BY <1>1, ProductIsNat
  <2>3. \A h \in Nat : stage_max * orig_perf <= h => stage_max <= h \div orig_perf
    BY <1>1
  <2>4. stage_max <= byScore /\ byScore \in Nat
    BY <1>1, <1>4, <2>1, <2>2, <2>3
  <2>5. byCycles \in Nat
    BY <1>1
  <2>6. MaxStage = AtLeast(byCycles, byScore)
    BY <1>1 DEF MaxStage
  <2> HIDE DEF byCycles, byScore
  <2>7. QED
    BY <1>1, <2>4, <2>5, <2>6 DEF AtLeast
<1>5. QED
  BY <1>3, <1>4 DEF CallInv, DoublingInv

(* However often havoc finds something new, its stage stays within twice   *)
(* the limit that is set to it, whatever the score, as long as a score of  *)
(* 0 ends the call.                                                        *)
THEOREM HavocAlwaysBounded ==
  ASSUME ~ZeroScoreGoesOn PROVE Spec => []HavocIsBounded
<1>1. CallInv => HavocIsBounded
  BY StageIsBounded
<1>2. QED
  BY CallCorrect, <1>1, PTL

-----------------------------------------------------------------------------
(* The deterministic stages: bits and bytes.                               *)

LEMMA PowersOfTwo ==
  /\ Pow2[1] = 1 /\ Pow2[2] = 2 /\ Pow2[3] = 4 /\ Pow2[4] = 8
  /\ Pow2[5] = 16 /\ Pow2[6] = 32 /\ Pow2[7] = 64 /\ Pow2[8] = 128
  /\ Pow2[9] = 256 /\ Pow2[10] = 512 /\ Pow2[11] = 1024 /\ Pow2[12] = 2048
  /\ Pow2[13] = 4096 /\ Pow2[14] = 8192 /\ Pow2[15] = 16384 /\ Pow2[16] = 32768
BY DEF Pow2

(* Bytes and words.                                                        *)
Word == {n \in Nat : n < 65536}

LEMMA RangeOfByte == \A n : n \in Byte <=> n \in Nat /\ n < 256
BY DEF Byte

LEMMA RangeOfWord == \A n : n \in Word <=> n \in Nat /\ n < 65536
BY DEF Word

LEMMA IsWord == ASSUME NEW n \in Nat, n < 65536 PROVE n \in Word
BY DEF Word

(* Halves.                                                                 *)
LEMMA Halved ==
  ASSUME NEW n \in Nat
  PROVE  /\ n = 2 * (n \div 2) + (n % 2) /\ n % 2 \in {0, 1}
         /\ n \div 4 = (n \div 2) \div 2 /\ n \div 8 = (n \div 4) \div 2
         /\ n \div 16 = (n \div 8) \div 2 /\ n \div 32 = (n \div 16) \div 2
         /\ n \div 64 = (n \div 32) \div 2 /\ n \div 128 = (n \div 64) \div 2
         /\ n \div 256 = (n \div 128) \div 2
<1>1. n = 2 * (n \div 2) + (n % 2) /\ n % 2 \in {0, 1}
  OBVIOUS
<1>2. n \div 4 = (n \div 2) \div 2
  OBVIOUS
<1>3. n \div 8 = (n \div 4) \div 2
  OBVIOUS
<1>4. n \div 16 = (n \div 8) \div 2
  OBVIOUS
<1>5. n \div 32 = (n \div 16) \div 2
  OBVIOUS
<1>6. n \div 64 = (n \div 32) \div 2
  OBVIOUS
<1>7. n \div 128 = (n \div 64) \div 2
  OBVIOUS
<1>8. n \div 256 = (n \div 128) \div 2
  OBVIOUS
<1>9. QED
  BY <1>1, <1>2, <1>3, <1>4, <1>5, <1>6, <1>7, <1>8

(* The bits of a number one by one.                                         *)
LEMMA BitsAre ==
  ASSUME NEW n \in Nat
  PROVE  /\ Bit(n, 0) = n % 2 /\ Bit(n, 1) = (n \div 2) % 2
         /\ Bit(n, 2) = (n \div 4) % 2 /\ Bit(n, 3) = (n \div 8) % 2
         /\ Bit(n, 4) = (n \div 16) % 2 /\ Bit(n, 5) = (n \div 32) % 2
         /\ Bit(n, 6) = (n \div 64) % 2 /\ Bit(n, 7) = (n \div 128) % 2
BY PowersOfTwo DEF Bit

LEMMA HalvesOf ==
  ASSUME NEW n \in Nat
  PROVE  /\ n \div 2 \in Nat /\ n \div 4 \in Nat /\ n \div 8 \in Nat /\ n \div 16 \in Nat
         /\ n \div 32 \in Nat /\ n \div 64 \in Nat /\ n \div 128 \in Nat /\ n \div 256 \in Nat
OBVIOUS

(* A number is the sum of its bits and what is above them.                 *)
LEMMA NumberIsItsBits ==
  ASSUME NEW n \in Nat
  PROVE  /\ n = Bit(n, 0) + 2 * Bit(n, 1) + 4 * Bit(n, 2) + 8 * Bit(n, 3) + 16 * Bit(n, 4)
                + 32 * Bit(n, 5) + 64 * Bit(n, 6) + 128 * Bit(n, 7) + 256 * (n \div 256)
         /\ \A k \in 0..7 : Bit(n, k) \in {0, 1}
<1>1. \A m \in Nat : m = 2 * (m \div 2) + (m % 2)
  OBVIOUS
<1>0. \A m \in Nat : m % 2 \in {0, 1}
  OBVIOUS
<1>2. n = 2 * (n \div 2) + Bit(n, 0) /\ Bit(n, 0) \in {0, 1}
  <2>1. Bit(n, 0) = n % 2 /\ n \in Nat /\ n \div 2 = n \div 2
    BY BitsAre, Halved, HalvesOf
  <2>2. QED
    BY <1>0, <1>1, <2>1
<1>3. n \div 2 = 2 * (n \div 4) + Bit(n, 1) /\ Bit(n, 1) \in {0, 1}
  <2>1. Bit(n, 1) = (n \div 2) % 2 /\ (n \div 2) \in Nat /\ n \div 4 = (n \div 2) \div 2
    BY BitsAre, Halved, HalvesOf
  <2>2. QED
    BY <1>0, <1>1, <2>1
<1>4. n \div 4 = 2 * (n \div 8) + Bit(n, 2) /\ Bit(n, 2) \in {0, 1}
  <2>1. Bit(n, 2) = (n \div 4) % 2 /\ (n \div 4) \in Nat /\ n \div 8 = (n \div 4) \div 2
    BY BitsAre, Halved, HalvesOf
  <2>2. QED
    BY <1>0, <1>1, <2>1
<1>5. n \div 8 = 2 * (n \div 16) + Bit(n, 3) /\ Bit(n, 3) \in {0, 1}
  <2>1. Bit(n, 3) = (n \div 8) % 2 /\ (n \div 8) \in Nat /\ n \div 16 = (n \div 8) \div 2
    BY BitsAre, Halved, HalvesOf
  <2>2. QED
    BY <1>0, <1>1, <2>1
<1>6. n \div 16 = 2 * (n \div 32) + Bit(n, 4) /\ Bit(n, 4) \in {0, 1}
  <2>1. Bit(n, 4) = (n \div 16) % 2 /\ (n \div 16) \in Nat /\ n \div 32 = (n \div 16) \div 2
    BY BitsAre, Halved, HalvesOf
  <2>2. QED
    BY <1>0, <1>1, <2>1
<1>7. n \div 32 = 2 * (n \div 64) + Bit(n, 5) /\ Bit(n, 5) \in {0, 1}
  <2>1. Bit(n, 5) = (n \div 32) % 2 /\ (n \div 32) \in Nat /\ n \div 64 = (n \div 32) \div 2
    BY BitsAre, Halved, HalvesOf
  <2>2. QED
    BY <1>0, <1>1, <2>1
<1>8. n \div 64 = 2 * (n \div 128) + Bit(n, 6) /\ Bit(n, 6) \in {0, 1}
  <2>1. Bit(n, 6) = (n \div 64) % 2 /\ (n \div 64) \in Nat /\ n \div 128 = (n \div 64) \div 2
    BY BitsAre, Halved, HalvesOf
  <2>2. QED
    BY <1>0, <1>1, <2>1
<1>9. n \div 128 = 2 * (n \div 256) + Bit(n, 7) /\ Bit(n, 7) \in {0, 1}
  <2>1. Bit(n, 7) = (n \div 128) % 2 /\ (n \div 128) \in Nat /\ n \div 256 = (n \div 128) \div 2
    BY BitsAre, Halved, HalvesOf
  <2>2. QED
    BY <1>0, <1>1, <2>1
<1>10. n = Bit(n, 0) + 2 * Bit(n, 1) + 4 * (n \div 4)
  BY <1>2, <1>3, HalvesOf
<1>11. n \div 4 = Bit(n, 2) + 2 * Bit(n, 3) + 4 * (n \div 16)
  BY <1>4, <1>5, HalvesOf
<1>12. n \div 16 = Bit(n, 4) + 2 * Bit(n, 5) + 4 * (n \div 64)
  BY <1>6, <1>7, HalvesOf
<1>13. n \div 64 = Bit(n, 6) + 2 * Bit(n, 7) + 4 * (n \div 256)
  BY <1>8, <1>9, HalvesOf
<1>14. n = Bit(n, 0) + 2 * Bit(n, 1) + 4 * Bit(n, 2) + 8 * Bit(n, 3) + 16 * Bit(n, 4)
           + 32 * Bit(n, 5) + 64 * Bit(n, 6) + 128 * Bit(n, 7) + 256 * (n \div 256)
  BY <1>2, <1>3, <1>4, <1>5, <1>6, <1>7, <1>8, <1>9, <1>10, <1>11, <1>12, <1>13, HalvesOf
<1>15. \A k \in {0, 1, 2, 3, 4, 5, 6, 7} : Bit(n, k) \in {0, 1}
  BY <1>2, <1>3, <1>4, <1>5, <1>6, <1>7, <1>8, <1>9
<1>16. QED
  BY <1>14, <1>15

(* Two sums of bits that are the same have the same bits.                   *)
LEMMA SumDeterminesBits ==
  ASSUME NEW a0 \in {0, 1}, NEW a1 \in {0, 1}, NEW a2 \in {0, 1}, NEW a3 \in {0, 1},
         NEW a4 \in {0, 1}, NEW a5 \in {0, 1}, NEW a6 \in {0, 1}, NEW a7 \in {0, 1},
         NEW b0 \in {0, 1}, NEW b1 \in {0, 1}, NEW b2 \in {0, 1}, NEW b3 \in {0, 1},
         NEW b4 \in {0, 1}, NEW b5 \in {0, 1}, NEW b6 \in {0, 1}, NEW b7 \in {0, 1},
         NEW p \in Nat, NEW q \in Nat,
         a0 + 2 * a1 + 4 * a2 + 8 * a3 + 16 * a4 + 32 * a5 + 64 * a6 + 128 * a7 + 256 * p
           = b0 + 2 * b1 + 4 * b2 + 8 * b3 + 16 * b4 + 32 * b5 + 64 * b6 + 128 * b7 + 256 * q
  PROVE  /\ a0 = b0 /\ a1 = b1 /\ a2 = b2 /\ a3 = b3 /\ a4 = b4 /\ a5 = b5 /\ a6 = b6 /\ a7 = b7
         /\ p = q
OBVIOUS
(* Numbers with the same bits above which there is the same are the same.   *)
LEMMA SameBits ==
  ASSUME NEW m \in Nat, NEW n \in Nat, m \div 256 = n \div 256, \A k \in 0..7 : Bit(m, k) = Bit(n, k)
  PROVE  m = n
<1>1. /\ Bit(m, 0) = Bit(n, 0) /\ Bit(m, 1) = Bit(n, 1) /\ Bit(m, 2) = Bit(n, 2) /\ Bit(m, 3) = Bit(n, 3)
      /\ Bit(m, 4) = Bit(n, 4) /\ Bit(m, 5) = Bit(n, 5) /\ Bit(m, 6) = Bit(n, 6) /\ Bit(m, 7) = Bit(n, 7)
  OBVIOUS
<1>2. QED
  BY <1>1, NumberIsItsBits

(* A number that is given by bits has these bits.                           *)
LEMMA GivenByBits ==
  ASSUME NEW n \in Nat, NEW b \in [0..7 -> {0, 1}], NEW q \in Nat,
         n = b[0] + 2 * b[1] + 4 * b[2] + 8 * b[3] + 16 * b[4] + 32 * b[5] + 64 * b[6] + 128 * b[7] + 256 * q
  PROVE  n \div 256 = q /\ \A k \in 0..7 : Bit(n, k) = b[k]
<1>1. /\ Bit(n, 0) \in {0, 1} /\ Bit(n, 1) \in {0, 1} /\ Bit(n, 2) \in {0, 1} /\ Bit(n, 3) \in {0, 1}
      /\ Bit(n, 4) \in {0, 1} /\ Bit(n, 5) \in {0, 1} /\ Bit(n, 6) \in {0, 1} /\ Bit(n, 7) \in {0, 1}
      /\ n \div 256 \in Nat
      /\ n = Bit(n, 0) + 2 * Bit(n, 1) + 4 * Bit(n, 2) + 8 * Bit(n, 3) + 16 * Bit(n, 4)
             + 32 * Bit(n, 5) + 64 * Bit(n, 6) + 128 * Bit(n, 7) + 256 * (n \div 256)
  BY NumberIsItsBits
<1>2. /\ b[0] \in {0, 1} /\ b[1] \in {0, 1} /\ b[2] \in {0, 1} /\ b[3] \in {0, 1}
      /\ b[4] \in {0, 1} /\ b[5] \in {0, 1} /\ b[6] \in {0, 1} /\ b[7] \in {0, 1}
  OBVIOUS
<1>3. /\ Bit(n, 0) = b[0] /\ Bit(n, 1) = b[1] /\ Bit(n, 2) = b[2] /\ Bit(n, 3) = b[3]
      /\ Bit(n, 4) = b[4] /\ Bit(n, 5) = b[5] /\ Bit(n, 6) = b[6] /\ Bit(n, 7) = b[7]
      /\ n \div 256 = q
  <2> DEFINE a0 == Bit(n, 0) a1 == Bit(n, 1) a2 == Bit(n, 2) a3 == Bit(n, 3)
             a4 == Bit(n, 4) a5 == Bit(n, 5) a6 == Bit(n, 6) a7 == Bit(n, 7)
             c0 == b[0] c1 == b[1] c2 == b[2] c3 == b[3] c4 == b[4] c5 == b[5] c6 == b[6] c7 == b[7]
             p == n \div 256
  <2>1. /\ a0 \in {0, 1} /\ a1 \in {0, 1} /\ a2 \in {0, 1} /\ a3 \in {0, 1}
        /\ a4 \in {0, 1} /\ a5 \in {0, 1} /\ a6 \in {0, 1} /\ a7 \in {0, 1}
        /\ c0 \in {0, 1} /\ c1 \in {0, 1} /\ c2 \in {0, 1} /\ c3 \in {0, 1}
        /\ c4 \in {0, 1} /\ c5 \in {0, 1} /\ c6 \in {0, 1} /\ c7 \in {0, 1} /\ p \in Nat
    BY <1>1, <1>2
  <2>2. a0 + 2 * a1 + 4 * a2 + 8 * a3 + 16 * a4 + 32 * a5 + 64 * a6 + 128 * a7 + 256 * p
          = c0 + 2 * c1 + 4 * c2 + 8 * c3 + 16 * c4 + 32 * c5 + 64 * c6 + 128 * c7 + 256 * q
    BY <1>1
  <2>3. a0 = c0 /\ a1 = c1 /\ a2 = c2 /\ a3 = c3 /\ a4 = c4 /\ a5 = c5 /\ a6 = c6 /\ a7 = c7 /\ p = q
    <3> HIDE DEF a0, a1, a2, a3, a4, a5, a6, a7, c0, c1, c2, c3, c4, c5, c6, c7, p
    <3>1. QED
      BY <2>1, <2>2
  <2>4. QED
    BY <2>3
<1>4. \A k \in {0, 1, 2, 3, 4, 5, 6, 7} : Bit(n, k) = b[k]
  BY <1>3
<1>5. QED
  BY <1>3, <1>4

(* FLIP_BIT changes one bit.                                               *)
LEMMA FlipBitFlips ==
  ASSUME NEW n \in Byte, NEW x \in 0..7
  PROVE  /\ FlipBit(n, x) \in Byte
         /\ \A k \in 0..7 : Bit(FlipBit(n, x), k) = IF k = x THEN 1 - Bit(n, k) ELSE Bit(n, k)
<1> DEFINE b == [k \in 0..7 |-> IF k = x THEN 1 - Bit(n, k) ELSE Bit(n, k)]
<1>1. n \in Nat /\ n \div 256 = 0
  BY DEF Byte
<1>2. /\ Bit(n, 0) \in {0, 1} /\ Bit(n, 1) \in {0, 1} /\ Bit(n, 2) \in {0, 1} /\ Bit(n, 3) \in {0, 1}
      /\ Bit(n, 4) \in {0, 1} /\ Bit(n, 5) \in {0, 1} /\ Bit(n, 6) \in {0, 1} /\ Bit(n, 7) \in {0, 1}
      /\ n = Bit(n, 0) + 2 * Bit(n, 1) + 4 * Bit(n, 2) + 8 * Bit(n, 3) + 16 * Bit(n, 4)
             + 32 * Bit(n, 5) + 64 * Bit(n, 6) + 128 * Bit(n, 7)
  BY <1>1, NumberIsItsBits
<1>3. x \in {0, 1, 2, 3, 4, 5, 6, 7}
  OBVIOUS
<1>4. b \in [0..7 -> {0, 1}]
  BY <1>1, NumberIsItsBits
<1>6. FlipBit(n, x) = b[0] + 2 * b[1] + 4 * b[2] + 8 * b[3] + 16 * b[4] + 32 * b[5] + 64 * b[6] + 128 * b[7]
  <2>1. CASE x = 0
    BY <1>2, <2>1, PowersOfTwo DEF FlipBit
  <2>2. CASE x = 1
    BY <1>2, <2>2, PowersOfTwo DEF FlipBit
  <2>3. CASE x = 2
    BY <1>2, <2>3, PowersOfTwo DEF FlipBit
  <2>4. CASE x = 3
    BY <1>2, <2>4, PowersOfTwo DEF FlipBit
  <2>5. CASE x = 4
    BY <1>2, <2>5, PowersOfTwo DEF FlipBit
  <2>6. CASE x = 5
    BY <1>2, <2>6, PowersOfTwo DEF FlipBit
  <2>7. CASE x = 6
    BY <1>2, <2>7, PowersOfTwo DEF FlipBit
  <2>8. CASE x = 7
    BY <1>2, <2>8, PowersOfTwo DEF FlipBit
  <2>9. QED
    BY <1>3, <2>1, <2>2, <2>3, <2>4, <2>5, <2>6, <2>7, <2>8
<1>7. FlipBit(n, x) \in Nat /\ FlipBit(n, x) < 256
  <2>1. /\ b[0] \in {0, 1} /\ b[1] \in {0, 1} /\ b[2] \in {0, 1} /\ b[3] \in {0, 1}
        /\ b[4] \in {0, 1} /\ b[5] \in {0, 1} /\ b[6] \in {0, 1} /\ b[7] \in {0, 1}
    BY <1>4
  <2>2. QED
    BY <1>6, <2>1
<1>8. \A k \in 0..7 : Bit(FlipBit(n, x), k) = b[k]
  <2> HIDE DEF b
  <2>1. QED
    BY <1>4, <1>6, <1>7, GivenByBits
<1>9. QED
  BY <1>7, <1>8 DEF Byte

(* The low bits of a word are those of its low byte, the high ones those of *)
(* its high byte.                                                          *)
LEMMA LowBits ==
  ASSUME NEW w \in Nat
  PROVE  \A k \in 0..7 : Bit(w, k) = Bit(w % 256, k)
<1> DEFINE b == [k \in 0..7 |-> Bit(w, k)]
<1>1. b \in [0..7 -> {0, 1}]
  BY NumberIsItsBits
<1>2. w % 256 \in Nat /\ w = 256 * (w \div 256) + (w % 256)
  OBVIOUS
<1>3. w % 256 = b[0] + 2 * b[1] + 4 * b[2] + 8 * b[3] + 16 * b[4] + 32 * b[5] + 64 * b[6] + 128 * b[7] + 256 * 0
  <2>1. w = b[0] + 2 * b[1] + 4 * b[2] + 8 * b[3] + 16 * b[4] + 32 * b[5] + 64 * b[6] + 128 * b[7]
            + 256 * (w \div 256)
    <3>1. /\ b[0] = Bit(w, 0) /\ b[1] = Bit(w, 1) /\ b[2] = Bit(w, 2) /\ b[3] = Bit(w, 3)
          /\ b[4] = Bit(w, 4) /\ b[5] = Bit(w, 5) /\ b[6] = Bit(w, 6) /\ b[7] = Bit(w, 7)
      OBVIOUS
    <3> HIDE DEF b
    <3>2. QED
      BY <3>1, NumberIsItsBits
  <2>2. /\ b[0] \in {0, 1} /\ b[1] \in {0, 1} /\ b[2] \in {0, 1} /\ b[3] \in {0, 1}
        /\ b[4] \in {0, 1} /\ b[5] \in {0, 1} /\ b[6] \in {0, 1} /\ b[7] \in {0, 1}
    BY <1>1
  <2> HIDE DEF b
  <2>3. QED
    BY SMTT(30), <1>2, <2>1, <2>2, HalvesOf
<1>4. \A k \in 0..7 : Bit(w % 256, k) = b[k]
  <2> HIDE DEF b
  <2>1. QED
    BY ZenonT(60), <1>1, <1>2, <1>3, GivenByBits
<1>5. QED
  BY <1>4

LEMMA HighBits ==
  ASSUME NEW w \in Nat
  PROVE  \A k \in 0..7 : Bit(w, k + 8) = Bit(w \div 256, k)
<1>1. \A k \in {0, 1, 2, 3, 4, 5, 6, 7} : w \div Pow2[k + 9] = (w \div 256) \div Pow2[k + 1]
  <2>1. w \div 256 = (w \div 256) \div 1 /\ w \div 512 = (w \div 256) \div 2 /\ w \div 1024 = (w \div 256) \div 4
    OBVIOUS
  <2>2. w \div 2048 = (w \div 256) \div 8 /\ w \div 4096 = (w \div 256) \div 16
    OBVIOUS
  <2>3. w \div 8192 = (w \div 256) \div 32 /\ w \div 16384 = (w \div 256) \div 64
    OBVIOUS
  <2>4. w \div 32768 = (w \div 256) \div 128
    OBVIOUS
  <2>5. QED
    BY <2>1, <2>2, <2>3, <2>4, PowersOfTwo
<1>2. \A k \in 0..7 : w \div Pow2[(k + 8) + 1] = (w \div 256) \div Pow2[k + 1]
  <2>1. \A k \in 0..7 : k \in {0, 1, 2, 3, 4, 5, 6, 7} /\ k + 9 = (k + 8) + 1
    OBVIOUS
  <2>2. QED
    BY <1>1, <2>1
<1>3. QED
  BY <1>2 DEF Bit

LEMMA BytesAlike ==
  ASSUME NEW m \in Byte, NEW n \in Byte, \A k \in 0..7 : Bit(m, k) = Bit(n, k)
  PROVE  m = n
<1>1. m \in Nat /\ n \in Nat /\ m \div 256 = 0 /\ n \div 256 = 0
  BY DEF Byte
<1>2. QED
  BY <1>1, SameBits

(* In m the bits S of n are the other way.                                  *)
Toggled(n, m, S) == \A k \in 0..7 : Bit(m, k) = IF k \in S THEN 1 - Bit(n, k) ELSE Bit(n, k)

LEMMA ToggleOne ==
  ASSUME NEW n \in Byte, NEW m \in Byte, NEW S, NEW x \in 0..7, x \notin S, Toggled(n, m, S)
  PROVE  FlipBit(m, x) \in Byte /\ Toggled(n, FlipBit(m, x), S \cup {x})
<1>1. Bit(m, x) = Bit(n, x)
  BY DEF Toggled
<1>2. /\ FlipBit(m, x) \in Byte
      /\ \A k \in 0..7 : Bit(FlipBit(m, x), k) = IF k = x THEN 1 - Bit(m, k) ELSE Bit(m, k)
  BY FlipBitFlips
<1>3. \A k \in 0..7 : Bit(FlipBit(m, x), k) = IF k \in S \cup {x} THEN 1 - Bit(n, k) ELSE Bit(n, k)
  BY <1>1, <1>2 DEF Toggled
<1>4. QED
  BY <1>2, <1>3 DEF Toggled

LEMMA DifferenceInByte ==
  ASSUME NEW m \in Byte, NEW n \in Byte
  PROVE  Diff(m, n) \subseteq 0..7
<1>1. m \in Nat /\ n \in Nat /\ m \div 256 = 0 /\ n \div 256 = 0
  BY DEF Byte
<1>2. \A k \in 0..7 : Bit(m, k + 8) = Bit(n, k + 8)
  BY <1>1, HighBits
<1>3. ASSUME NEW k \in 8..15 PROVE Bit(m, k) = Bit(n, k)
  <2>1. k - 8 \in 0..7 /\ (k - 8) + 8 = k
    OBVIOUS
  <2>2. QED
    BY <1>2, <2>1
<1>4. QED
  BY <1>3 DEF Diff

LEMMA ToggledIs ==
  ASSUME NEW n \in Byte, NEW m \in Byte, NEW v \in Byte, Toggled(n, m, Diff(n, v))
  PROVE  m = v
<1>1. n \in Nat /\ v \in Nat
  BY DEF Byte
<1>2. \A k \in 0..7 : Bit(n, k) \in {0, 1} /\ Bit(v, k) \in {0, 1}
  BY <1>1, NumberIsItsBits
<1>3. \A k \in 0..7 : Bit(m, k) = Bit(v, k)
  BY <1>2 DEF Toggled, Diff
<1>4. QED
  BY <1>3, BytesAlike

(* "^= 0xFF".                                                              *)
LEMMA AllToggled ==
  ASSUME NEW n \in Byte
  PROVE  255 - n \in Byte /\ Toggled(n, 255 - n, 0..7)
<1> DEFINE b == [k \in 0..7 |-> 1 - Bit(n, k)]
<1>1. n \in Nat /\ n \div 256 = 0 /\ 255 - n \in Nat /\ 255 - n \in Byte
  BY DEF Byte
<1>2. \A k \in 0..7 : Bit(n, k) \in {0, 1}
  BY <1>1, NumberIsItsBits
<1>3. b \in [0..7 -> {0, 1}]
  BY <1>2
<1>4. 255 - n = b[0] + 2 * b[1] + 4 * b[2] + 8 * b[3] + 16 * b[4] + 32 * b[5] + 64 * b[6] + 128 * b[7] + 256 * 0
  <2>1. n = Bit(n, 0) + 2 * Bit(n, 1) + 4 * Bit(n, 2) + 8 * Bit(n, 3)
            + 16 * Bit(n, 4) + 32 * Bit(n, 5) + 64 * Bit(n, 6) + 128 * Bit(n, 7)
    BY <1>1, NumberIsItsBits
  <2>2. /\ Bit(n, 0) \in {0, 1} /\ Bit(n, 1) \in {0, 1} /\ Bit(n, 2) \in {0, 1} /\ Bit(n, 3) \in {0, 1}
        /\ Bit(n, 4) \in {0, 1} /\ Bit(n, 5) \in {0, 1} /\ Bit(n, 6) \in {0, 1} /\ Bit(n, 7) \in {0, 1}
    BY <1>2
  <2>3. QED
    BY <2>1, <2>2
<1>5. \A k \in 0..7 : Bit(255 - n, k) = b[k]
  <2> HIDE DEF b
  <2>1. QED
    BY <1>1, <1>3, <1>4, GivenByBits
<1>6. QED
  BY <1>1, <1>5 DEF Toggled

-----------------------------------------------------------------------------
(* Flips of a file.                                                        *)

LEMMA FlipAt ==
  ASSUME NEW buf \in Seq(Byte), NEW i \in 1..Len(buf), NEW n \in Byte, NEW x \in 0..7
  PROVE  FLIP_BIT(Put8(buf, i, n), 8 * (i - 1) + (7 - x)) = Put8(buf, i, FlipBit(n, x))
<1> DEFINE b == 8 * (i - 1) + (7 - x)
<1>1. b \div 8 = i - 1 /\ b % 8 = 7 - x
  OBVIOUS
<1>2. b \div 8 + 1 = i /\ 7 - (b % 8) = x
  BY <1>1
<1>3. Put8(buf, i, n)[i] = n /\ \A v : Put8(Put8(buf, i, n), i, v) = Put8(buf, i, v)
  BY DEF Put8
<1> HIDE DEF b
<1>4. FLIP_BIT(Put8(buf, i, n), b) = Put8(Put8(buf, i, n), i, FlipBit(Put8(buf, i, n)[i], x))
  BY <1>2 DEF FLIP_BIT
<1>5. QED
  BY <1>3, <1>4 DEF b

LEMMA PutSame == ASSUME NEW buf \in Seq(Byte), NEW i \in 1..Len(buf) PROVE Put8(buf, i, buf[i]) = buf
BY DEF Put8

(* A byte that differs by a run of one, two or four bits is a flip.         *)
LEMMA RunIsFlip ==
  ASSUME NEW buf \in Seq(Byte), NEW i \in 1..Len(buf), NEW v \in Byte,
         NEW k \in {1, 2, 4}, NEW lo \in 0..7, lo + k - 1 <= 7, Diff(buf[i], v) = lo..(lo + k - 1)
  PROVE  Put8(buf, i, v) \in FlipBits(buf, k)
<1> DEFINE hi == lo + k - 1
           b == 8 * (i - 1) + (7 - hi)
           n == buf[i]
           n1 == FlipBit(n, hi)
           n2 == FlipBit(n1, hi - 1)
           n3 == FlipBit(n2, hi - 2)
           n4 == FlipBit(n3, hi - 3)
<1>1. n \in Byte /\ Put8(buf, i, n) = buf /\ hi \in 0..7 /\ Toggled(n, n, {})
  BY PutSame DEF Toggled
<1>2. b \in 0..(8 * Len(buf) - k)
  OBVIOUS
<1>3. n1 \in Byte /\ Toggled(n, n1, {hi}) /\ FLIP_BIT(buf, b) = Put8(buf, i, n1)
  <2>1. FLIP_BIT(Put8(buf, i, n), 8 * (i - 1) + (7 - hi)) = Put8(buf, i, FlipBit(n, hi))
    <3> HIDE DEF hi, n
    <3>1. QED
      BY <1>1, FlipAt
  <2>2. FlipBit(n, hi) \in Byte /\ Toggled(n, FlipBit(n, hi), {} \cup {hi})
    <3> HIDE DEF hi, n
    <3>1. QED
      BY <1>1, ToggleOne
  <2>3. QED
    BY <1>1, <2>1, <2>2
<1>4. ASSUME k >= 2
      PROVE  n2 \in Byte /\ Toggled(n, n2, {hi, hi - 1}) /\ FLIP_BIT(FLIP_BIT(buf, b), b + 1) = Put8(buf, i, n2)
  <2>1. hi - 1 \in 0..7 /\ b + 1 = 8 * (i - 1) + (7 - (hi - 1)) /\ hi - 1 \notin {hi} /\ {hi} \cup {hi - 1} = {hi, hi - 1}
    BY <1>1, <1>4
  <2> HIDE DEF hi, n, n1, b
  <2>2. FLIP_BIT(Put8(buf, i, n1), 8 * (i - 1) + (7 - (hi - 1))) = Put8(buf, i, FlipBit(n1, hi - 1))
    <3>1. n1 \in Byte /\ hi - 1 \in 0..7
      BY <1>3, <2>1
    <3>2. QED
      BY <3>1, FlipAt
  <2>3. FlipBit(n1, hi - 1) \in Byte /\ Toggled(n, FlipBit(n1, hi - 1), {hi} \cup {hi - 1})
    BY <1>1, <1>3, <2>1, ToggleOne
  <2>4. QED
    BY <1>3, <2>1, <2>2, <2>3
<1>5. ASSUME k = 4
      PROVE  /\ n4 \in Byte /\ Toggled(n, n4, {hi, hi - 1, hi - 2, hi - 3})
             /\ FLIP_BIT(FLIP_BIT(FLIP_BIT(FLIP_BIT(buf, b), b + 1), b + 2), b + 3) = Put8(buf, i, n4)
  <2>1. /\ hi - 2 \in 0..7 /\ b + 2 = 8 * (i - 1) + (7 - (hi - 2)) /\ hi - 2 \notin {hi, hi - 1}
        /\ {hi, hi - 1} \cup {hi - 2} = {hi, hi - 1, hi - 2}
    BY <1>1, <1>5
  <2>2. /\ hi - 3 \in 0..7 /\ b + 3 = 8 * (i - 1) + (7 - (hi - 3)) /\ hi - 3 \notin {hi, hi - 1, hi - 2}
        /\ {hi, hi - 1, hi - 2} \cup {hi - 3} = {hi, hi - 1, hi - 2, hi - 3}
    BY <1>1, <1>5
  <2>3. n2 \in Byte /\ Toggled(n, n2, {hi, hi - 1}) /\ FLIP_BIT(FLIP_BIT(buf, b), b + 1) = Put8(buf, i, n2)
    BY <1>4, <1>5
  <2> HIDE DEF hi, n, n1, n2, b
  <2>4. FLIP_BIT(Put8(buf, i, n2), 8 * (i - 1) + (7 - (hi - 2))) = Put8(buf, i, FlipBit(n2, hi - 2))
    BY ZenonT(60), <2>1, <2>3, FlipAt
  <2>5. FlipBit(n2, hi - 2) \in Byte /\ Toggled(n, FlipBit(n2, hi - 2), {hi, hi - 1} \cup {hi - 2})
    BY <1>1, <2>1, <2>3, ToggleOne
  <2>6. n3 \in Byte /\ Toggled(n, n3, {hi, hi - 1, hi - 2}) /\ FLIP_BIT(Put8(buf, i, n2), b + 2) = Put8(buf, i, n3)
    BY <2>1, <2>4, <2>5
  <2> HIDE DEF n3
  <2>7. FLIP_BIT(Put8(buf, i, n3), 8 * (i - 1) + (7 - (hi - 3))) = Put8(buf, i, FlipBit(n3, hi - 3))
    BY ZenonT(60), <2>2, <2>6, FlipAt
  <2>8. FlipBit(n3, hi - 3) \in Byte /\ Toggled(n, FlipBit(n3, hi - 3), {hi, hi - 1, hi - 2} \cup {hi - 3})
    BY <1>1, <2>2, <2>6, ToggleOne
  <2>9. QED
    BY <2>2, <2>3, <2>6, <2>7, <2>8
<1>6. Put8(buf, i, v) = FlipRun(buf, b, k)
  <2>1. CASE k = 1
    <3>1. Diff(n, v) = {hi}
      BY <2>1
    <3>2. n1 = v
      BY <1>1, <1>3, <3>1, ToggledIs
    <3>3. QED
      BY <1>3, <2>1, <3>2 DEF FlipRun
  <2>2. CASE k = 2
    <3>1. Diff(n, v) = {hi, hi - 1}
      BY <2>2
    <3>2. n2 = v
      <4>1. n \in Byte /\ n2 \in Byte /\ Toggled(n, n2, Diff(n, v))
        <5>1. k >= 2
          BY <2>2
        <5> HIDE DEF n2, n1, n, hi
        <5>2. QED
          BY <1>1, <1>4, <3>1, <5>1
      <4> HIDE DEF n2, n
      <4>2. QED
        BY <4>1, ToggledIs
    <3>3. QED
      BY <1>4, <2>2, <3>2 DEF FlipRun
  <2>3. CASE k = 4
    <3>1. Diff(n, v) = {hi, hi - 1, hi - 2, hi - 3}
      BY <2>3
    <3>2. n4 = v
      BY ZenonT(60), <1>1, <1>5, <2>3, <3>1, ToggledIs
    <3>3. QED
      BY <1>5, <2>3, <3>2 DEF FlipRun
  <2>4. QED
    BY <2>1, <2>2, <2>3
<1>7. QED
  BY <1>2, <1>6 DEF FlipBits

(* What could_be_bitflip accepts.                                          *)
LEMMA MaskIs ==
  ASSUME NEW d \in SUBSET (0..15), CouldBeBitflip(d)
  PROVE  \/ d = {}
         \/ \E k \in {1, 2, 4}, lo \in 0..15 : lo + k - 1 <= 15 /\ d = lo..(lo + k - 1)
         \/ d = 0..7 \/ d = 8..15 \/ d = 0..15
<1>1. d = {} \/ d \in Runs({1, 2, 4}, 0..15) \/ d \in Runs({8, 16}, {0, 8})
  BY DEF CouldBeBitflip, FlipMasks
<1>2. CASE d \in Runs({1, 2, 4}, 0..15)
  <2>1. PICK k \in {1, 2, 4}, lo \in 0..15 : d = lo..(lo + k - 1)
    BY <1>2 DEF Runs
  <2>2. lo + k - 1 \in lo..(lo + k - 1)
    OBVIOUS
  <2>3. lo + k - 1 \in 0..15
    BY <2>1, <2>2
  <2>4. lo + k - 1 <= 15
    BY <2>3
  <2>5. QED
    BY <2>1, <2>4
<1>3. CASE d \in Runs({8, 16}, {0, 8})
  <2>1. PICK k \in {8, 16}, lo \in {0, 8} : d = lo..(lo + k - 1)
    BY <1>3 DEF Runs
  <2>2. lo + k - 1 \in lo..(lo + k - 1)
    OBVIOUS
  <2>3. lo + k - 1 \in 0..15
    BY <2>1, <2>2
  <2>4. (k = 8 /\ lo = 0) \/ (k = 8 /\ lo = 8) \/ (k = 16 /\ lo = 0)
    BY <2>3
  <2>5. CASE k = 8 /\ lo = 0
    <3>1. lo + k - 1 = 7 /\ lo = 0
      BY <2>5
    <3>2. QED
      BY <2>1, <3>1
  <2>6. CASE k = 8 /\ lo = 8
    <3>1. lo + k - 1 = 15 /\ lo = 8
      BY <2>6
    <3>2. QED
      BY <2>1, <3>1
  <2>7. CASE k = 16 /\ lo = 0
    <3>1. lo + k - 1 = 15 /\ lo = 0
      BY <2>7
    <3>2. QED
      BY <2>1, <3>1
  <2>8. QED
    BY <2>4, <2>5, <2>6, <2>7
<1>4. QED
  BY <1>1, <1>2, <1>3

LEMMA DifferenceIsNone ==
  ASSUME NEW m \in Byte, NEW n \in Byte, \A k \in 0..7 : k \notin Diff(m, n)
  PROVE  m = n
<1>1. \A k \in 0..7 : Bit(m, k) = Bit(n, k)
  BY DEF Diff
<1>2. QED
  BY <1>1, BytesAlike

LEMMA DifferenceIsAll ==
  ASSUME NEW m \in Byte, NEW n \in Byte, Diff(m, n) = 0..7
  PROVE  n = 255 - m
<1>1. 255 - m \in Byte /\ Toggled(m, 255 - m, Diff(m, n))
  BY AllToggled
<1>2. QED
  BY <1>1, ToggledIs

(* What the stages of flips run.                                           *)
Flips(buf) == {buf} \cup FlipBits(buf, 1) \cup FlipBits(buf, 2) \cup FlipBits(buf, 4) \cup Flip8(buf)

(* A byte that could_be_bitflip takes for a flip is one.                    *)
LEMMA ByteByFlip ==
  ASSUME NEW buf \in Seq(Byte), NEW i \in 1..Len(buf), NEW v \in Byte, CouldBeBitflip(Diff(buf[i], v))
  PROVE  Put8(buf, i, v) \in Flips(buf)
<1>1. buf[i] \in Byte
  OBVIOUS
<1>2. Diff(buf[i], v) \subseteq 0..7 /\ Diff(buf[i], v) \in SUBSET (0..15)
  BY <1>1, DifferenceInByte DEF Diff
<1>3. CASE Diff(buf[i], v) = {}
  <2>1. buf[i] = v
    BY <1>1, <1>3, DifferenceIsNone
  <2>2. QED
    BY <2>1, PutSame DEF Flips
<1>4. CASE \E k \in {1, 2, 4}, lo \in 0..15 : lo + k - 1 <= 15 /\ Diff(buf[i], v) = lo..(lo + k - 1)
  <2>1. PICK k \in {1, 2, 4}, lo \in 0..15 : Diff(buf[i], v) = lo..(lo + k - 1)
    BY <1>4
  <2>2. lo + k - 1 \in lo..(lo + k - 1) /\ lo \in lo..(lo + k - 1)
    OBVIOUS
  <2>3. lo \in 0..7 /\ lo + k - 1 <= 7
    BY <1>2, <2>1, <2>2
  <2>4. Put8(buf, i, v) \in FlipBits(buf, k)
    BY <2>1, <2>3, RunIsFlip
  <2>5. QED
    BY <2>4 DEF Flips
<1>5. CASE Diff(buf[i], v) = 0..7
  <2>1. v = 255 - buf[i]
    BY <1>1, <1>5, DifferenceIsAll
  <2>2. QED
    BY <2>1 DEF Flips, Flip8
<1>6. CASE Diff(buf[i], v) = 8..15 \/ Diff(buf[i], v) = 0..15
  <2>1. 8 \in Diff(buf[i], v)
    BY <1>6
  <2>2. QED
    BY <1>2, <2>1
<1>7. QED
  BY <1>2, <1>3, <1>4, <1>5, <1>6, MaskIs

-----------------------------------------------------------------------------
(* Words.                                                                  *)

LEMMA WordIs ==
  ASSUME NEW buf \in Seq(Byte), NEW i \in 1..Len(buf) - 1
  PROVE  /\ buf[i] \in Byte /\ buf[i + 1] \in Byte /\ i \in 1..Len(buf) /\ i + 1 \in 1..Len(buf)
         /\ Word16(buf, i) \in Word
         /\ Word16(buf, i) % 256 = buf[i] /\ Word16(buf, i) \div 256 = buf[i + 1]
<1>1. i \in 1..Len(buf) /\ i + 1 \in 1..Len(buf) /\ buf[i] \in Byte /\ buf[i + 1] \in Byte
  OBVIOUS
<1>2. buf[i] \in Nat /\ buf[i + 1] \in Nat /\ buf[i] < 256 /\ buf[i + 1] < 256
  BY <1>1, RangeOfByte
<1>3. PICK m \in Nat, n \in Nat : m = buf[i] /\ n = buf[i + 1] /\ m < 256 /\ n < 256
  BY <1>2
<1>4. PICK x \in Nat : x = m + 256 * n
  OBVIOUS
<1>5. Word16(buf, i) = x
  BY <1>3, <1>4 DEF Word16
<1>6. x \in Word /\ x % 256 = m /\ x \div 256 = n
  <2>1. m < 256 /\ n < 256
    BY <1>3
  <2>2. x < 65536 /\ x \div 256 = n
    BY <1>4, <2>1
  <2>3. x = 256 * (x \div 256) + (x % 256)
    OBVIOUS
  <2>4. x % 256 = m
    BY <1>4, <2>2, <2>3
  <2>5. QED
    BY <2>2, <2>4, IsWord
<1>7. QED
  BY <1>1, <1>3, <1>5, <1>6

LEMMA WordComplement ==
  ASSUME NEW m \in Nat, NEW n \in Nat, NEW x \in Nat, x = m + 256 * n,
         NEW y \in Nat, y = (255 - m) + 256 * (255 - n)
  PROVE  y = 65535 - x
OBVIOUS

LEMMA RunOfBits ==
  ASSUME NEW A, NEW B, NEW k \in A, NEW lo \in B
  PROVE  lo..(lo + k - 1) \in Runs(A, B)
BY DEF Runs

LEMMA BytesOfWord ==
  ASSUME NEW w \in Word
  PROVE  w \in Nat /\ w % 256 \in Byte /\ w \div 256 \in Byte /\ w = (w % 256) + 256 * (w \div 256)
<1>1. w \in Nat /\ w < 65536
  BY RangeOfWord
<1>2. w % 256 \in Nat /\ w % 256 < 256 /\ w \div 256 \in Nat /\ w \div 256 < 256
  BY <1>1
<1>3. w = (w % 256) + 256 * (w \div 256)
  BY <1>1
<1>4. QED
  BY <1>1, <1>2, <1>3, RangeOfByte

(* The bits in which words differ are those in which their bytes do.       *)
LEMMA DifferenceInWord ==
  ASSUME NEW m \in Word, NEW n \in Word
  PROVE  /\ Diff(m, n) \in SUBSET (0..15)
         /\ \A k \in 0..7 : /\ k \in Diff(m, n) <=> k \in Diff(m % 256, n % 256)
                            /\ k + 8 \in Diff(m, n) <=> k \in Diff(m \div 256, n \div 256)
<1>1. m \in Nat /\ n \in Nat
  BY RangeOfWord
<1>2. \A k \in 0..7 : /\ Bit(m, k) = Bit(m % 256, k) /\ Bit(n, k) = Bit(n % 256, k)
                      /\ Bit(m, k + 8) = Bit(m \div 256, k) /\ Bit(n, k + 8) = Bit(n \div 256, k)
  BY <1>1, LowBits, HighBits
<1>3. \A k \in 0..7 : k \in 0..15 /\ k + 8 \in 0..15
  OBVIOUS
<1>4. QED
  BY <1>2, <1>3 DEF Diff

LEMMA PutWord ==
  ASSUME NEW buf \in Seq(Byte), NEW i \in 1..Len(buf) - 1, NEW w \in Word
  PROVE  /\ w % 256 = buf[i] => Put16(buf, i, w) = Put8(buf, i + 1, w \div 256)
         /\ w \div 256 = buf[i + 1] => Put16(buf, i, w) = Put8(buf, i, w % 256)
         /\ Put16(buf, i, w)[i] = w % 256 /\ Put16(buf, i, w)[i + 1] = w \div 256
         /\ Len(Put16(buf, i, w)) = Len(buf)
         /\ \A j \in 1..Len(buf) : j # i /\ j # i + 1 => Put16(buf, i, w)[j] = buf[j]
<1>1. DOMAIN buf = 1..Len(buf) /\ i \in DOMAIN buf /\ i + 1 \in DOMAIN buf /\ i # i + 1
  OBVIOUS
<1> DEFINE l == w % 256
           h == w \div 256
<1>2. Put16(buf, i, w) = [j \in DOMAIN buf |-> IF j = i + 1 THEN h ELSE IF j = i THEN l ELSE buf[j]]
  BY DEF Put16
<1> HIDE DEF l, h
<1>3. l = buf[i] => Put16(buf, i, w) = Put8(buf, i + 1, h)
  BY <1>1, <1>2 DEF Put8
<1>4. h = buf[i + 1] => Put16(buf, i, w) = Put8(buf, i, l)
  BY <1>1, <1>2 DEF Put8
<1>5. /\ Put16(buf, i, w)[i] = l /\ Put16(buf, i, w)[i + 1] = h
      /\ \A j \in 1..Len(buf) : j # i /\ j # i + 1 => Put16(buf, i, w)[j] = buf[j]
  BY <1>1, <1>2
<1>6. Len(Put16(buf, i, w)) = Len(buf)
  BY DEF Put16
<1>7. QED
  BY <1>3, <1>4, <1>5, <1>6 DEF l, h

(* The bytes that a word changes.                                          *)
LEMMA ChangedByWord ==
  ASSUME NEW buf \in Seq(Byte), NEW i \in 1..Len(buf) - 1, NEW w \in Word
  PROVE  /\ Changed(buf, Put16(buf, i, w)) \subseteq {i, i + 1}
         /\ i \in Changed(buf, Put16(buf, i, w)) <=> w % 256 # buf[i]
         /\ i + 1 \in Changed(buf, Put16(buf, i, w)) <=> w \div 256 # buf[i + 1]
<1>1. DOMAIN buf = 1..Len(buf) /\ i \in DOMAIN buf /\ i + 1 \in DOMAIN buf
  OBVIOUS
<1>2. /\ Put16(buf, i, w)[i] = w % 256 /\ Put16(buf, i, w)[i + 1] = w \div 256
      /\ \A j \in 1..Len(buf) : j # i /\ j # i + 1 => Put16(buf, i, w)[j] = buf[j]
  BY PutWord
<1>3. QED
  BY <1>1, <1>2 DEF Changed

(* A word that could_be_bitflip takes for a flip is one, or a run across    *)
(* the border of its bytes.                                                *)
LEMMA WordByFlip ==
  ASSUME NEW buf \in Seq(Byte), NEW flagged, NEW i \in Pos16(buf, flagged), NEW w \in Word,
         CouldBeBitflip(Diff(Word16(buf, i), w))
  PROVE  \/ Put16(buf, i, w) \in Flips(buf) \cup Flip16(buf, flagged)
         \/ AcrossTheBorder(buf, Put16(buf, i, w))
<1> DEFINE old == Word16(buf, i)
           f == Put16(buf, i, w)
           l == w % 256
           h == w \div 256
<1>1. i \in 1..Len(buf) - 1
  BY DEF Pos16
<1>2. /\ buf[i] \in Byte /\ buf[i + 1] \in Byte /\ i \in 1..Len(buf) /\ i + 1 \in 1..Len(buf)
      /\ old \in Word /\ old % 256 = buf[i] /\ old \div 256 = buf[i + 1]
  BY <1>1, WordIs
<1>3. l \in Byte /\ h \in Byte /\ w = l + 256 * h
  BY BytesOfWord
<1>4. /\ Diff(old, w) \in SUBSET (0..15)
      /\ \A k \in 0..7 : /\ k \in Diff(old, w) <=> k \in Diff(buf[i], l)
                         /\ k + 8 \in Diff(old, w) <=> k \in Diff(buf[i + 1], h)
  BY <1>2, DifferenceInWord
<1>5. /\ l = buf[i] => f = Put8(buf, i + 1, h)
      /\ h = buf[i + 1] => f = Put8(buf, i, l)
      /\ f[i] = l /\ f[i + 1] = h
      /\ Changed(buf, f) \subseteq {i, i + 1}
      /\ i \in Changed(buf, f) <=> l # buf[i]
      /\ i + 1 \in Changed(buf, f) <=> h # buf[i + 1]
  BY <1>1, PutWord, ChangedByWord
<1>6. Diff(buf[i], l) \subseteq 0..7 /\ Diff(buf[i + 1], h) \subseteq 0..7
  BY <1>2, <1>3, DifferenceInByte
<1> HIDE DEF old, f, l, h
<1>7. (\A k \in 0..7 : k \notin Diff(old, w)) => l = buf[i]
  BY <1>2, <1>3, <1>4, DifferenceIsNone
<1>8. (\A k \in 0..7 : k + 8 \notin Diff(old, w)) => h = buf[i + 1]
  BY SMTT(30), <1>2, <1>3, <1>4, DifferenceIsNone
<1>9. CASE Diff(old, w) = {}
  <2>1. l = buf[i] /\ h = buf[i + 1]
    BY <1>7, <1>8, <1>9
  <2>2. f = buf
    BY <1>2, <1>5, <2>1, PutSame
  <2>3. QED
    BY <2>2 DEF Flips, f
<1>10. CASE \E k \in {1, 2, 4}, lo \in 0..15 : lo + k - 1 <= 15 /\ Diff(old, w) = lo..(lo + k - 1)
  <2>1. PICK k \in {1, 2, 4}, lo \in 0..15 : lo + k - 1 <= 15 /\ Diff(old, w) = lo..(lo + k - 1)
    BY <1>10
  <2>2. CASE lo + k - 1 <= 7
    <3>1. h = buf[i + 1]
      BY <1>8, <2>1, <2>2
    <3>2. Diff(buf[i], l) = lo..(lo + k - 1) /\ lo \in 0..7
      <4>1. lo \in 0..7 /\ lo..(lo + k - 1) \subseteq 0..7
        BY <2>2
      <4>2. \A j \in 0..7 : j \in Diff(buf[i], l) <=> j \in lo..(lo + k - 1)
        BY <1>4, <2>1
      <4>3. QED
        BY <1>6, <4>1, <4>2
    <3>3. Put8(buf, i, l) \in FlipBits(buf, k)
      BY <1>2, <1>3, <2>2, <3>2, RunIsFlip
    <3>4. QED
      BY <1>5, <3>1, <3>3 DEF Flips, f
  <2>3. CASE lo >= 8
    <3>1. l = buf[i]
      BY <1>7, <2>1, <2>3
    <3>2. PICK m \in 0..7 : lo = m + 8 /\ m + k - 1 <= 7
      BY <2>1, <2>3
    <3>3. \A j \in 0..7 : j + 8 \in lo..(lo + k - 1) <=> j \in m..(m + k - 1)
      BY <3>2
    <3>4. Diff(buf[i + 1], h) = m..(m + k - 1) /\ m + k - 1 <= 7
      <4>1. m + k - 1 <= 7 /\ m..(m + k - 1) \subseteq 0..7
        BY <2>1, <3>2
      <4>2. \A j \in 0..7 : j \in Diff(buf[i + 1], h) <=> j \in m..(m + k - 1)
        BY <1>4, <2>1, <3>3
      <4>3. QED
        BY <1>6, <4>1, <4>2
    <3>5. Put8(buf, i + 1, h) \in FlipBits(buf, k)
      BY ZenonT(60), <1>2, <1>3, <3>4, RunIsFlip
    <3>6. QED
      BY <1>5, <3>1, <3>5 DEF Flips, f
  <2>4. CASE lo <= 7 /\ lo + k - 1 >= 8
    <3>1. k \in {2, 4} /\ lo \in Diff(old, w) /\ 0 + 8 \in Diff(old, w) /\ lo \in 0..7 /\ 0 \in 0..7
      BY <2>1, <2>4
    <3>2. lo \in Diff(buf[i], l) /\ 0 \in Diff(buf[i + 1], h)
      BY <1>4, <3>1
    <3>3. l # buf[i] /\ h # buf[i + 1]
      BY <3>2 DEF Diff
    <3>4. Changed(buf, f) = {i, i + 1}
      BY <1>5, <3>3
    <3>5. Word16(f, i) = w
      BY <1>3, <1>5 DEF Word16
    <3>6. Diff(old, w) \in Runs({2, 4}, 0..15)
      BY <2>1, <3>1, RunOfBits
    <3>7. AcrossTheBorder(buf, f)
      BY <1>1, <3>4, <3>5, <3>6 DEF AcrossTheBorder, old
    <3>8. QED
      BY <3>7 DEF f
  <2>5. QED
    BY <2>1, <2>2, <2>3, <2>4
<1>11. CASE Diff(old, w) = 0..7
  <2>1. h = buf[i + 1]
    BY <1>8, <1>11
  <2>2. Diff(buf[i], l) = 0..7
    BY <1>4, <1>6, <1>11
  <2>3. l = 255 - buf[i]
    BY <1>2, <1>3, <2>2, DifferenceIsAll
  <2>4. f = Put8(buf, i, 255 - buf[i])
    BY <1>5, <2>1, <2>3
  <2>5. QED
    BY <1>2, <2>4 DEF Flips, Flip8, f
<1>12. CASE Diff(old, w) = 8..15
  <2>1. l = buf[i]
    BY <1>7, <1>12
  <2>2. \A k \in 0..7 : k + 8 \in 8..15
    OBVIOUS
  <2>3. Diff(buf[i + 1], h) = 0..7
    BY <1>4, <1>6, <1>12, <2>2
  <2>4. h = 255 - buf[i + 1]
    BY <1>2, <1>3, <2>3, DifferenceIsAll
  <2>5. f = Put8(buf, i + 1, 255 - buf[i + 1])
    BY <1>5, <2>1, <2>4
  <2>6. QED
    BY <1>2, <2>5 DEF Flips, Flip8, f
<1>13. CASE Diff(old, w) = 0..15
  <2>1. \A k \in 0..7 : k \in 0..15 /\ k + 8 \in 0..15
    OBVIOUS
  <2>2. Diff(buf[i], l) = 0..7 /\ Diff(buf[i + 1], h) = 0..7
    BY <1>4, <1>6, <1>13, <2>1
  <2>3. l = 255 - buf[i] /\ h = 255 - buf[i + 1]
    BY <1>2, <1>3, <2>2, DifferenceIsAll
  <2>4. w = 65535 - old
    <3>1. old = buf[i] + 256 * buf[i + 1]
      BY DEF old, Word16
    <3>2. buf[i] \in Nat /\ buf[i + 1] \in Nat
      BY <1>2, RangeOfByte
    <3>3. l \in Nat /\ h \in Nat /\ old \in Nat
      BY <1>2, <1>3, RangeOfByte, RangeOfWord
    <3>4. w \in Nat /\ w = (255 - buf[i]) + 256 * (255 - buf[i + 1])
      BY <1>3, <2>3, RangeOfWord
    <3>5. QED
      BY SMTT(30), <3>1, <3>2, <3>3, <3>4, WordComplement
  <2>5. QED
    BY <2>4 DEF Flip16, f, old
<1>14. QED
  BY <1>4, <1>9, <1>10, <1>11, <1>12, <1>13, MaskIs DEF f, old

-----------------------------------------------------------------------------
(* What the stages run.                                                    *)

LEMMA StagesAreTried ==
  ASSUME NEW buf, NEW flagged
  PROVE  /\ Flips(buf) \subseteq {buf} \cup Tried(buf, flagged)
         /\ Flip16(buf, flagged) \subseteq Tried(buf, flagged)
         /\ Arith8(buf, flagged) \subseteq Tried(buf, flagged) /\ Arith16(buf, flagged) \subseteq Tried(buf, flagged)
         /\ Interest8(buf, flagged) \subseteq Tried(buf, flagged)
         /\ Interest16(buf, flagged) \subseteq Tried(buf, flagged)
<1>1. \A s \in {1, 2, 3, 4, 5, 6, 7, 8, 9} : Stage(buf, flagged, s) \subseteq Tried(buf, flagged)
  BY DEF Tried, NumStages
<1>2. Stage(buf, flagged, 1) = FlipBits(buf, 1)
  BY PowersOfTwo DEF Stage
<1>3. Stage(buf, flagged, 2) = FlipBits(buf, 2)
  BY PowersOfTwo DEF Stage
<1>4. Stage(buf, flagged, 3) = FlipBits(buf, 4)
  BY PowersOfTwo DEF Stage
<1>5. /\ Stage(buf, flagged, 4) = Flip8(buf) /\ Stage(buf, flagged, 5) = Flip16(buf, flagged)
      /\ Stage(buf, flagged, 6) = Arith8(buf, flagged) /\ Stage(buf, flagged, 7) = Arith16(buf, flagged)
      /\ Stage(buf, flagged, 8) = Interest8(buf, flagged) /\ Stage(buf, flagged, 9) = Interest16(buf, flagged)
  BY DEF Stage
<1>6. QED
  BY <1>1, <1>2, <1>3, <1>4, <1>5 DEF Flips

LEMMA Arith8Runs ==
  ASSUME NEW buf, NEW flagged, NEW i \in flagged, NEW v \in Sums(buf[i], 256),
         ~CouldBeBitflip(Diff(buf[i], v))
  PROVE  Put8(buf, i, v) \in Arith8(buf, flagged)
BY DEF Arith8

LEMMA Arith16Runs ==
  ASSUME NEW buf, NEW flagged, NEW i \in Pos16(buf, flagged), NEW w,
         w \in Carries(Word16(buf, i)) \/ \E s \in Carries(SWAP16(Word16(buf, i))) : w = SWAP16(s),
         ~CouldBeBitflip(Diff(Word16(buf, i), w))
  PROVE  Put16(buf, i, w) \in Arith16(buf, flagged)
BY DEF Arith16

LEMMA Interest8Runs ==
  ASSUME NEW buf, NEW flagged, NEW i \in flagged, NEW v \in INTERESTING_8,
         ~CouldBeBitflip(Diff(buf[i], v)), ~CouldBeArith8(buf[i], v)
  PROVE  Put8(buf, i, v) \in Interest8(buf, flagged)
BY DEF Interest8

LEMMA Interest16Runs ==
  ASSUME NEW buf, NEW flagged, NEW i \in Pos16(buf, flagged), NEW w,
         \/ w \in INTERESTING_16 /\ ~CouldBeInterest16(Word16(buf, i), w, FALSE)
         \/ (\E v \in INTERESTING_16 : w = SWAP16(v)) /\ ~CouldBeInterest16(Word16(buf, i), w, TRUE),
         ~CouldBeBitflip(Diff(Word16(buf, i), w)), ~CouldBeArith16(Word16(buf, i), w)
  PROVE  Put16(buf, i, w) \in Interest16(buf, flagged)
<1> DEFINE old == Word16(buf, i)
           le == {v \in INTERESTING_16 : ~CouldBeInterest16(old, v, FALSE)}
           be == {x \in {SWAP16(v) : v \in INTERESTING_16} : ~CouldBeInterest16(old, x, TRUE)}
           runs == {x \in le \cup be : ~CouldBeBitflip(Diff(old, x)) /\ ~CouldBeArith16(old, x)}
<1>1. w \in le \cup be
  OBVIOUS
<1>2. w \in runs
  <2> HIDE DEF le, be
  <2>1. QED
    BY <1>1
<1>3. Put16(buf, i, w) \in {Put16(buf, i, x) : x \in runs}
  BY <1>2
<1>4. {Put16(buf, i, x) : x \in runs} \subseteq Interest16(buf, flagged)
  BY Zenon DEF Interest16
<1>5. QED
  BY <1>3, <1>4

LEMMA InterestingBytes == INTERESTING_8 \subseteq Byte
BY DEF INTERESTING_8, Byte

LEMMA InterestingWords == INTERESTING_16 \subseteq Word
<1>1. ASSUME NEW v \in INTERESTING_8 PROVE (IF v >= 128 THEN v + 65280 ELSE v) \in Word
  <2>1. v \in Nat /\ v < 256
    BY InterestingBytes, RangeOfByte
  <2>2. QED
    BY <2>1, IsWord
<1>2. {65533, 32768, 65407, 128, 255, 256, 512, 1000, 1024, 4096, 32767} \subseteq Word
  BY DEF Word
<1>3. QED
  BY <1>1, <1>2 DEF INTERESTING_16

LEMMA ArithNumbers == ARITH_MAX \in Nat /\ ARITH_MAX > 0 /\ ARITH_MAX < 128
BY ArithAssumption

LEMMA ByteSums ==
  ASSUME NEW n \in Byte
  PROVE  Sums(n, 256) \subseteq Byte
<1>1. n \in Nat /\ \A x \in Int : x % 256 \in Nat /\ x % 256 < 256
  BY RangeOfByte
<1>2. \A j \in Steps : j \in Int
  BY ArithNumbers DEF Steps
<1>3. QED
  BY <1>1, <1>2, RangeOfByte DEF Sums

(* What could_be_arith takes for a sum is one.                             *)
LEMMA NearIsSum8 ==
  ASSUME NEW m \in Byte, NEW n \in Byte, Near(m, n, 256)
  PROVE  n = m \/ n \in Sums(m, 256)
<1>1. m \in Nat /\ n \in Nat /\ m < 256 /\ n < 256
  BY RangeOfByte
<1>2. CASE (m - n) % 256 <= ARITH_MAX
  <2>1. PICK j \in Int : j = (m - n) % 256
    BY <1>1
  <2>2. j >= 0 /\ j <= ARITH_MAX /\ (j = 0 => n = m) /\ n = (m - j) % 256
    BY <1>1, <1>2, <2>1
  <2>3. j = 0 \/ j \in Steps
    BY <2>2, ArithNumbers DEF Steps
  <2>4. QED
    BY <2>2, <2>3 DEF Sums
<1>3. CASE (n - m) % 256 <= ARITH_MAX
  <2>1. PICK j \in Int : j = (n - m) % 256
    BY <1>1
  <2>2. j >= 0 /\ j <= ARITH_MAX /\ (j = 0 => n = m) /\ n = (m + j) % 256
    BY <1>1, <1>3, <2>1
  <2>3. j = 0 \/ j \in Steps
    BY <2>2, ArithNumbers DEF Steps
  <2>4. QED
    BY <2>2, <2>3 DEF Sums
<1>4. QED
  BY <1>2, <1>3 DEF Near

LEMMA NearIsSum16 ==
  ASSUME NEW m \in Word, NEW n \in Word, Near(m, n, 65536)
  PROVE  n = m \/ n \in Sums(m, 65536)
<1>1. m \in Nat /\ n \in Nat /\ m < 65536 /\ n < 65536
  BY RangeOfWord
<1>2. CASE (m - n) % 65536 <= ARITH_MAX
  <2>1. PICK j \in Int : j = (m - n) % 65536
    BY <1>1
  <2>2. j >= 0 /\ j <= ARITH_MAX /\ (j = 0 => n = m) /\ n = (m - j) % 65536
    BY <1>1, <1>2, <2>1
  <2>3. j = 0 \/ j \in Steps
    BY <2>2, ArithNumbers DEF Steps
  <2>4. QED
    BY <2>2, <2>3 DEF Sums
<1>3. CASE (n - m) % 65536 <= ARITH_MAX
  <2>1. PICK j \in Int : j = (n - m) % 65536
    BY <1>1
  <2>2. j >= 0 /\ j <= ARITH_MAX /\ (j = 0 => n = m) /\ n = (m + j) % 65536
    BY <1>1, <1>3, <2>1
  <2>3. j = 0 \/ j \in Steps
    BY <2>2, ArithNumbers DEF Steps
  <2>4. QED
    BY <2>2, <2>3 DEF Sums
<1>4. QED
  BY <1>2, <1>3 DEF Near

(* No byte is spared that was not run.                                     *)
LEMMA ByteTried ==
  ASSUME NEW buf \in Seq(Byte), NEW flagged, NEW i \in flagged, i \in 1..Len(buf),
         NEW v \in Sums(buf[i], 256) \cup INTERESTING_8
  PROVE  Put8(buf, i, v) = buf \/ Put8(buf, i, v) \in Tried(buf, flagged)
<1>1. buf[i] \in Byte /\ v \in Byte
  <2>1. buf[i] \in Byte
    OBVIOUS
  <2>2. QED
    BY <2>1, ByteSums, InterestingBytes
<1>2. ASSUME CouldBeBitflip(Diff(buf[i], v)) PROVE Put8(buf, i, v) \in Flips(buf)
  BY <1>1, <1>2, ByteByFlip
<1>3. ASSUME v \in Sums(buf[i], 256), ~CouldBeBitflip(Diff(buf[i], v))
      PROVE  Put8(buf, i, v) \in Arith8(buf, flagged)
  BY <1>3, Arith8Runs
<1>4. ASSUME v \in INTERESTING_8, v \notin Sums(buf[i], 256), ~CouldBeBitflip(Diff(buf[i], v)), v # buf[i]
      PROVE  Put8(buf, i, v) \in Interest8(buf, flagged)
  <2>1. ~CouldBeArith8(buf[i], v)
    BY <1>1, <1>4, NearIsSum8 DEF CouldBeArith8
  <2>2. QED
    BY <1>4, <2>1, Interest8Runs
<1>5. v = buf[i] => Put8(buf, i, v) = buf
  BY PutSame
<1>6. QED
  BY <1>2, <1>3, <1>4, <1>5, StagesAreTried

-----------------------------------------------------------------------------
(* Words in either order of their bytes.                                    *)

LEMMA Swapped ==
  ASSUME NEW w \in Word
  PROVE  /\ SWAP16(w) \in Word
         /\ SWAP16(w) % 256 = w \div 256 /\ SWAP16(w) \div 256 = w % 256
         /\ SWAP16(SWAP16(w)) = w
<1>1. w \in Nat /\ w % 256 \in Byte /\ w \div 256 \in Byte /\ w = (w % 256) + 256 * (w \div 256)
  BY BytesOfWord
<1>2. PICK l \in Nat, h \in Nat : l = w % 256 /\ h = w \div 256 /\ l < 256 /\ h < 256
  BY <1>1, RangeOfByte
<1>3. PICK x \in Nat : x = l * 256 + h
  OBVIOUS
<1>4. x < 65536 /\ x \div 256 = l
  BY <1>2, <1>3
<1>5. x = 256 * (x \div 256) + (x % 256)
  OBVIOUS
<1>6. x % 256 = h
  BY <1>3, <1>4, <1>5
<1>7. SWAP16(w) = x
  BY <1>2, <1>3 DEF SWAP16
<1>8. SWAP16(x) = h * 256 + l
  BY <1>4, <1>6 DEF SWAP16
<1>9. h * 256 + l = w
  BY <1>1, <1>2
<1>10. x \in Word
  BY <1>4, IsWord
<1>11. QED
  BY <1>2, <1>4, <1>6, <1>7, <1>8, <1>9, <1>10

(* A sum that leaves the low byte and one that does not.                    *)
LEMMA SumWithin ==
  ASSUME NEW w \in Word, NEW s \in Sums(w, 65536)
  PROVE  /\ s \in Word
         /\ s \in Carries(w) \/ (s \div 256 = w \div 256 /\ s % 256 \in Sums(w % 256, 256))
<1>1. w \in Nat /\ w < 65536 /\ w % 256 \in Nat /\ w % 256 < 256 /\ w \div 256 \in Nat
      /\ w = 256 * (w \div 256) + (w % 256)
  BY RangeOfWord
<1>2. s \in Word
  <2>1. \A x \in Int : x % 65536 \in Nat /\ x % 65536 < 65536
    OBVIOUS
  <2>2. \A j \in Steps : j \in Int
    BY ArithNumbers DEF Steps
  <2>3. s \in Nat /\ s < 65536
    BY <1>1, <2>1, <2>2 DEF Sums
  <2>4. QED
    BY <2>3, IsWord
<1>3. PICK l \in Nat, h \in Nat : l = w % 256 /\ h = w \div 256 /\ l < 256 /\ w = 256 * h + l
  BY <1>1
<1>4. ASSUME NEW j \in Steps, s = (w + j) % 65536
      PROVE  s \in Carries(w) \/ (s \div 256 = w \div 256 /\ s % 256 \in Sums(w % 256, 256))
  <2>1. CASE l + j > 255
    BY <1>3, <1>4, <2>1 DEF Carries
  <2>2. CASE l + j <= 255
    <3>1. j \in Nat
      BY ArithNumbers DEF Steps
    <3>2. w + j < 65536 /\ w + j \in Nat
      BY <1>1, <1>3, <2>2, <3>1
    <3>3. s = w + j
      BY <1>4, <3>2
    <3>4. s \div 256 = h
      BY <1>3, <2>2, <3>1, <3>3
    <3>5. s = 256 * (s \div 256) + (s % 256)
      BY <3>2, <3>3
    <3>6. s % 256 = l + j
      BY <1>3, <3>1, <3>3, <3>4, <3>5
    <3>7. l + j = (l + j) % 256
      BY <2>2, <3>1
    <3>8. QED
      BY <1>3, <3>4, <3>6, <3>7 DEF Sums
  <2>3. j \in Nat
    BY ArithNumbers DEF Steps
  <2>4. QED
    BY <2>1, <2>2, <2>3
<1>5. ASSUME NEW j \in Steps, s = (w - j) % 65536
      PROVE  s \in Carries(w) \/ (s \div 256 = w \div 256 /\ s % 256 \in Sums(w % 256, 256))
  <2>1. CASE l < j
    BY <1>3, <1>5, <2>1 DEF Carries
  <2>2. CASE l >= j
    <3>1. j \in Nat
      BY ArithNumbers DEF Steps
    <3>2. w - j < 65536 /\ w - j \in Nat
      BY <1>1, <1>3, <2>2, <3>1
    <3>3. s = w - j
      BY <1>5, <3>2
    <3>4. s \div 256 = h
      BY <1>3, <2>2, <3>1, <3>3
    <3>5. s = 256 * (s \div 256) + (s % 256)
      BY <3>2, <3>3
    <3>6. s % 256 = l - j
      BY <1>3, <3>1, <3>3, <3>4, <3>5
    <3>7. l - j = (l - j) % 256
      BY <1>3, <2>2, <3>1
    <3>8. QED
      BY <1>3, <3>4, <3>6, <3>7 DEF Sums
  <2>3. j \in Nat
    BY ArithNumbers DEF Steps
  <2>4. QED
    BY <2>1, <2>2, <2>3
<1>6. QED
  BY <1>2, <1>4, <1>5 DEF Sums

(* What the theorem allows of a file.                                      *)
Covered(buf, flagged, f) ==
  f = buf \/ f \in Tried(buf, flagged) \/ AcrossTheBorder(buf, f) \/ Changed(buf, f) \cap flagged = {}

(* A word of which one byte changes.                                       *)
LEMMA OneByteCovered ==
  ASSUME NEW buf \in Seq(Byte), NEW flagged, NEW i \in Pos16(buf, flagged), NEW w \in Word,
         \/ w \div 256 = buf[i + 1] /\ w % 256 \in {buf[i]} \cup Sums(buf[i], 256) \cup INTERESTING_8
         \/ w % 256 = buf[i] /\ w \div 256 \in {buf[i + 1]} \cup Sums(buf[i + 1], 256) \cup INTERESTING_8
  PROVE  Covered(buf, flagged, Put16(buf, i, w))
<1>1. i \in 1..Len(buf) - 1
  BY DEF Pos16
<1>2. i \in 1..Len(buf) /\ i + 1 \in 1..Len(buf)
  BY <1>1
<1> DEFINE f == Put16(buf, i, w)
<1>3. /\ w % 256 = buf[i] => f = Put8(buf, i + 1, w \div 256)
      /\ w \div 256 = buf[i + 1] => f = Put8(buf, i, w % 256)
      /\ Changed(buf, f) \subseteq {i, i + 1}
      /\ i \in Changed(buf, f) <=> w % 256 # buf[i]
      /\ i + 1 \in Changed(buf, f) <=> w \div 256 # buf[i + 1]
  BY <1>1, PutWord, ChangedByWord
<1> HIDE DEF f
<1>4. CASE w \div 256 = buf[i + 1] /\ w % 256 \in {buf[i]} \cup Sums(buf[i], 256) \cup INTERESTING_8
  <2>1. CASE w % 256 = buf[i]
    <3>1. f = buf
      BY <1>2, <1>3, <1>4, <2>1, PutSame
    <3>2. QED
      BY <3>1 DEF Covered, f
  <2>2. CASE i \notin flagged
    BY <1>3, <1>4, <2>2 DEF Covered, f
  <2>3. CASE i \in flagged /\ w % 256 # buf[i]
    <3>1. w % 256 \in Sums(buf[i], 256) \cup INTERESTING_8
      BY <1>4, <2>3
    <3>2. Put8(buf, i, w % 256) = buf \/ Put8(buf, i, w % 256) \in Tried(buf, flagged)
      BY <1>2, <2>3, <3>1, ByteTried
    <3>3. QED
      BY <1>3, <1>4, <3>2 DEF Covered, f
  <2>4. QED
    BY <2>1, <2>2, <2>3
<1>5. CASE w % 256 = buf[i] /\ w \div 256 \in {buf[i + 1]} \cup Sums(buf[i + 1], 256) \cup INTERESTING_8
  <2>1. CASE w \div 256 = buf[i + 1]
    <3>1. f = buf
      BY <1>2, <1>3, <1>5, <2>1, PutSame
    <3>2. QED
      BY <3>1 DEF Covered, f
  <2>2. CASE i + 1 \notin flagged
    BY <1>3, <1>5, <2>2 DEF Covered, f
  <2>3. CASE i + 1 \in flagged /\ w \div 256 # buf[i + 1]
    <3>1. w \div 256 \in Sums(buf[i + 1], 256) \cup INTERESTING_8
      BY <1>5, <2>3
    <3>2. Put8(buf, i + 1, w \div 256) = buf \/ Put8(buf, i + 1, w \div 256) \in Tried(buf, flagged)
      BY <1>2, <2>3, <3>1, ByteTried
    <3>3. QED
      BY <1>3, <1>5, <3>2 DEF Covered, f
  <2>4. QED
    BY <2>1, <2>2, <2>3
<1>6. QED
  BY <1>4, <1>5 DEF f

LEMMA FlipCovered ==
  ASSUME NEW buf \in Seq(Byte), NEW flagged, NEW i \in Pos16(buf, flagged), NEW w \in Word,
         CouldBeBitflip(Diff(Word16(buf, i), w))
  PROVE  Covered(buf, flagged, Put16(buf, i, w))
BY WordByFlip, StagesAreTried DEF Covered

(* Sums of words, low byte first and high byte first.                       *)
LEMMA SumCovered ==
  ASSUME NEW buf \in Seq(Byte), NEW flagged, NEW i \in Pos16(buf, flagged),
         NEW w \in Sums(Word16(buf, i), 65536)
  PROVE  Covered(buf, flagged, Put16(buf, i, w))
<1>1. i \in 1..Len(buf) - 1
  BY DEF Pos16
<1>2. Word16(buf, i) \in Word /\ Word16(buf, i) % 256 = buf[i] /\ Word16(buf, i) \div 256 = buf[i + 1]
  BY <1>1, WordIs
<1>3. /\ w \in Word
      /\ w \in Carries(Word16(buf, i)) \/ (w \div 256 = buf[i + 1] /\ w % 256 \in Sums(buf[i], 256))
  BY <1>2, SumWithin
<1>4. CASE w \in Carries(Word16(buf, i)) /\ ~CouldBeBitflip(Diff(Word16(buf, i), w))
  BY <1>4, Arith16Runs, StagesAreTried DEF Covered
<1>5. CASE CouldBeBitflip(Diff(Word16(buf, i), w))
  BY <1>3, <1>5, FlipCovered
<1>6. CASE w \div 256 = buf[i + 1] /\ w % 256 \in Sums(buf[i], 256)
  BY <1>3, <1>6, OneByteCovered
<1>7. QED
  BY <1>3, <1>4, <1>5, <1>6

LEMMA SwappedSumCovered ==
  ASSUME NEW buf \in Seq(Byte), NEW flagged, NEW i \in Pos16(buf, flagged),
         NEW s \in Sums(SWAP16(Word16(buf, i)), 65536)
  PROVE  Covered(buf, flagged, Put16(buf, i, SWAP16(s)))
<1>1. i \in 1..Len(buf) - 1
  BY DEF Pos16
<1>2. Word16(buf, i) \in Word /\ Word16(buf, i) % 256 = buf[i] /\ Word16(buf, i) \div 256 = buf[i + 1]
  BY <1>1, WordIs
<1>3. /\ SWAP16(Word16(buf, i)) \in Word
      /\ SWAP16(Word16(buf, i)) % 256 = buf[i + 1] /\ SWAP16(Word16(buf, i)) \div 256 = buf[i]
  BY <1>2, Swapped
<1>4. /\ s \in Word
      /\ s \in Carries(SWAP16(Word16(buf, i))) \/ (s \div 256 = buf[i] /\ s % 256 \in Sums(buf[i + 1], 256))
  BY <1>3, SumWithin
<1>5. SWAP16(s) \in Word /\ SWAP16(s) % 256 = s \div 256 /\ SWAP16(s) \div 256 = s % 256
  BY <1>4, Swapped
<1>6. CASE s \in Carries(SWAP16(Word16(buf, i))) /\ ~CouldBeBitflip(Diff(Word16(buf, i), SWAP16(s)))
  BY <1>6, Arith16Runs, StagesAreTried DEF Covered
<1>7. CASE CouldBeBitflip(Diff(Word16(buf, i), SWAP16(s)))
  BY <1>5, <1>7, FlipCovered
<1>8. CASE s \div 256 = buf[i] /\ s % 256 \in Sums(buf[i + 1], 256)
  BY <1>5, <1>8, OneByteCovered
<1>9. QED
  BY <1>4, <1>6, <1>7, <1>8

(* Words that could_be_arith or could_be_interest takes for one that was    *)
(* run.                                                                    *)
LEMMA ArithWordCovered ==
  ASSUME NEW buf \in Seq(Byte), NEW flagged, NEW i \in Pos16(buf, flagged), NEW w \in Word,
         CouldBeArith16(Word16(buf, i), w)
  PROVE  Covered(buf, flagged, Put16(buf, i, w))
<1>1. i \in 1..Len(buf) - 1
  BY DEF Pos16
<1> DEFINE old == Word16(buf, i)
<1>2. old \in Word /\ old % 256 = buf[i] /\ old \div 256 = buf[i + 1] /\ buf[i] \in Byte /\ buf[i + 1] \in Byte
  BY <1>1, WordIs
<1>3. w % 256 \in Byte /\ w \div 256 \in Byte
  BY BytesOfWord
<1>4. \/ old = w
      \/ old % 256 = w % 256 /\ Near(old \div 256, w \div 256, 256)
      \/ old \div 256 = w \div 256 /\ Near(old % 256, w % 256, 256)
      \/ Near(old, w, 65536)
      \/ Near(SWAP16(old), SWAP16(w), 65536)
  BY DEF CouldBeArith16
<1>5. SWAP16(old) \in Word /\ SWAP16(w) \in Word /\ SWAP16(SWAP16(old)) = old /\ SWAP16(SWAP16(w)) = w
  BY <1>2, Swapped
<1> HIDE DEF old
<1>6. CASE old = w
  BY <1>2, <1>6, OneByteCovered
<1>7. CASE old % 256 = w % 256 /\ Near(old \div 256, w \div 256, 256)
  <2>1. w \div 256 = buf[i + 1] \/ w \div 256 \in Sums(buf[i + 1], 256)
    BY <1>2, <1>3, <1>7, NearIsSum8
  <2>2. QED
    BY <1>2, <1>7, <2>1, OneByteCovered
<1>8. CASE old \div 256 = w \div 256 /\ Near(old % 256, w % 256, 256)
  <2>1. w % 256 = buf[i] \/ w % 256 \in Sums(buf[i], 256)
    BY <1>2, <1>3, <1>8, NearIsSum8
  <2>2. QED
    BY <1>2, <1>8, <2>1, OneByteCovered
<1>9. CASE Near(old, w, 65536)
  <2>1. w = old \/ w \in Sums(old, 65536)
    BY <1>2, <1>9, NearIsSum16
  <2>2. QED
    BY <1>6, <2>1, SumCovered DEF old
<1>10. CASE Near(SWAP16(old), SWAP16(w), 65536)
  <2>1. SWAP16(w) = SWAP16(old) \/ SWAP16(w) \in Sums(SWAP16(old), 65536)
    BY <1>5, <1>10, NearIsSum16
  <2>2. CASE SWAP16(w) = SWAP16(old)
    BY <1>5, <1>6, <2>2
  <2>3. CASE SWAP16(w) \in Sums(SWAP16(old), 65536)
    <3>1. Covered(buf, flagged, Put16(buf, i, SWAP16(SWAP16(w))))
      BY <2>3, SwappedSumCovered DEF old
    <3>2. QED
      BY <1>5, <3>1
  <2>4. QED
    BY <2>1, <2>2, <2>3
<1>11. QED
  BY <1>4, <1>6, <1>7, <1>8, <1>9, <1>10

LEMMA InterestByteCovered ==
  ASSUME NEW buf \in Seq(Byte), NEW flagged, NEW i \in Pos16(buf, flagged), NEW w \in Word,
         CouldBeInterest16(Word16(buf, i), w, FALSE)
  PROVE  Covered(buf, flagged, Put16(buf, i, w))
<1>1. i \in 1..Len(buf) - 1
  BY DEF Pos16
<1> DEFINE old == Word16(buf, i)
<1>2. old \in Word /\ old % 256 = buf[i] /\ old \div 256 = buf[i + 1]
  BY <1>1, WordIs
<1>3. \/ old = w
      \/ \E v \in INTERESTING_8 : w \in {(old \div 256) * 256 + v, (old % 256) + 256 * v}
  BY DEF CouldBeInterest16
<1> HIDE DEF old
<1>4. CASE old = w
  BY <1>2, <1>4, OneByteCovered
<1>5. CASE \E v \in INTERESTING_8 : w \in {(old \div 256) * 256 + v, (old % 256) + 256 * v}
  <2>1. PICK v \in INTERESTING_8 : w \in {(old \div 256) * 256 + v, (old % 256) + 256 * v}
    BY <1>5
  <2>2. /\ v \in Nat /\ v < 256 /\ old % 256 \in Nat /\ old % 256 < 256
        /\ old \div 256 \in Nat /\ old \div 256 < 256
    <3>1. old % 256 \in Byte /\ old \div 256 \in Byte
      BY <1>2, BytesOfWord
    <3>2. QED
      BY <3>1, InterestingBytes, RangeOfByte
  <2>3. PICK l \in Nat, h \in Nat, u \in Nat :
          l = old % 256 /\ h = old \div 256 /\ u = v /\ l < 256 /\ h < 256 /\ u < 256
    BY <2>2
  <2>4. CASE w = h * 256 + v
    <3>1. PICK x \in Nat : x = u + 256 * h
      OBVIOUS
    <3>2. x \div 256 = h
      BY SMTT(30), <2>3, <3>1
    <3>3. x = 256 * (x \div 256) + (x % 256)
      OBVIOUS
    <3>4. x % 256 = u
      BY <3>1, <3>2, <3>3
    <3>5. w = x
      BY <2>3, <2>4, <3>1
    <3>6. QED
      BY SMTT(30), <1>2, <2>3, <3>2, <3>4, <3>5, OneByteCovered
  <2>5. CASE w = l + 256 * v
    <3>1. PICK x \in Nat : x = l + 256 * u
      OBVIOUS
    <3>2. x \div 256 = u
      BY SMTT(30), <2>3, <3>1
    <3>3. x = 256 * (x \div 256) + (x % 256)
      OBVIOUS
    <3>4. x % 256 = l
      BY <3>1, <3>2, <3>3
    <3>5. w = x
      BY <2>3, <2>5, <3>1
    <3>6. QED
      BY ZenonT(60), <1>2, <2>3, <3>2, <3>4, <3>5, OneByteCovered
  <2>6. QED
    BY <2>1, <2>3, <2>4, <2>5
<1>6. QED
  BY <1>3, <1>4, <1>5

LEMMA InterestCovered ==
  ASSUME NEW buf \in Seq(Byte), NEW flagged, NEW i \in Pos16(buf, flagged), NEW w \in INTERESTING_16
  PROVE  Covered(buf, flagged, Put16(buf, i, w))
<1>1. w \in Word
  BY InterestingWords
<1>2. ASSUME ~CouldBeInterest16(Word16(buf, i), w, FALSE), ~CouldBeBitflip(Diff(Word16(buf, i), w)),
             ~CouldBeArith16(Word16(buf, i), w)
      PROVE  Put16(buf, i, w) \in Interest16(buf, flagged)
  BY <1>2, Interest16Runs
<1>3. QED
  BY <1>1, <1>2, InterestByteCovered, FlipCovered, ArithWordCovered, StagesAreTried DEF Covered

LEMMA SwappedInterestCovered ==
  ASSUME NEW buf \in Seq(Byte), NEW flagged, NEW i \in Pos16(buf, flagged), NEW v \in INTERESTING_16
  PROVE  Covered(buf, flagged, Put16(buf, i, SWAP16(v)))
<1> DEFINE w == SWAP16(v)
<1>1. w \in Word
  BY InterestingWords, Swapped
<1>2. \E x \in INTERESTING_16 : w = SWAP16(x)
  OBVIOUS
<1> HIDE DEF w
<1>3. CASE CouldBeInterest16(Word16(buf, i), w, TRUE)
  <2>1. CouldBeInterest16(Word16(buf, i), w, FALSE) \/ w \in INTERESTING_16
    BY <1>3 DEF CouldBeInterest16
  <2>2. QED
    BY <1>1, <2>1, InterestByteCovered, InterestCovered DEF w
<1>4. CASE CouldBeBitflip(Diff(Word16(buf, i), w))
  BY <1>1, <1>4, FlipCovered DEF w
<1>5. CASE CouldBeArith16(Word16(buf, i), w)
  BY <1>1, <1>5, ArithWordCovered DEF w
<1>6. CASE /\ ~CouldBeInterest16(Word16(buf, i), w, TRUE)
           /\ ~CouldBeBitflip(Diff(Word16(buf, i), w)) /\ ~CouldBeArith16(Word16(buf, i), w)
  <2>1. Put16(buf, i, w) \in Interest16(buf, flagged)
    BY <1>2, <1>6, Interest16Runs
  <2>2. QED
    BY <2>1, StagesAreTried DEF Covered, w
<1>7. QED
  BY <1>3, <1>4, <1>5, <1>6

(* The stages run all they promise, but for what MarkedMeansTried allows.   *)
LEMMA PromisedByteIs ==
  ASSUME NEW buf, NEW flagged, NEW b \in PromisedBytes(buf, flagged)
  PROVE  \E i \in flagged : \E v \in Sums(buf[i], 256) \cup INTERESTING_8 : b = Put8(buf, i, v)
BY DEF PromisedBytes

LEMMA PromisedWordIs ==
  ASSUME NEW buf, NEW flagged, NEW b \in PromisedWords(buf, flagged)
  PROVE  \E i \in Pos16(buf, flagged) :
           \/ \E w \in Sums(Word16(buf, i), 65536) \cup INTERESTING_16 : b = Put16(buf, i, w)
           \/ \E s \in Sums(SWAP16(Word16(buf, i)), 65536) \cup INTERESTING_16 : b = Put16(buf, i, SWAP16(s))
BY DEF PromisedWords

LEMMA PromisedIsCovered ==
  ASSUME NEW buf \in Seq(Byte), NEW flagged, NEW b \in Promised(buf, flagged)
  PROVE  Covered(buf, flagged, b)
<1>1. CASE b \in PromisedBytes(buf, flagged)
  <2>1. PICK i \in flagged : \E v \in Sums(buf[i], 256) \cup INTERESTING_8 : b = Put8(buf, i, v)
    BY <1>1, PromisedByteIs
  <2>2. PICK v \in Sums(buf[i], 256) \cup INTERESTING_8 : b = Put8(buf, i, v)
    BY <2>1
  <2>3. CASE i \in 1..Len(buf)
    BY <2>2, <2>3, ByteTried DEF Covered
  <2>4. CASE i \notin 1..Len(buf)
    <3>1. b = buf
      BY <2>2, <2>4 DEF Put8
    <3>2. QED
      BY <3>1 DEF Covered
  <2>5. QED
    BY <2>3, <2>4
<1>2. CASE b \in PromisedWords(buf, flagged)
  <2>1. PICK i \in Pos16(buf, flagged) :
          \/ \E w \in Sums(Word16(buf, i), 65536) \cup INTERESTING_16 : b = Put16(buf, i, w)
          \/ \E s \in Sums(SWAP16(Word16(buf, i)), 65536) \cup INTERESTING_16 : b = Put16(buf, i, SWAP16(s))
    BY <1>2, PromisedWordIs
  <2>2. QED
    BY <2>1, SumCovered, SwappedSumCovered, InterestCovered, SwappedInterestCovered
<1>3. QED
  BY <1>1, <1>2 DEF Promised

(* The file that fuzz_one works on consists of bytes.                       *)
FileIsBytes == file \in Seq(Byte)

LEMMA FileStays == Spec => []FileIsBytes
<1>1. Init => FileIsBytes
  BY FuzzOneAssumption DEF Init, FileIsBytes
<1>2. FileIsBytes /\ [Next]_vars => FileIsBytes'
  BY DEF FileIsBytes, Next, Advance, EnterFuzzOne, DetRun, NextStage, MarkAsDetDone, EnterHavoc, HavocRun, HavocEnds,
    Splice, SpliceFails, SplicingEnds, TargetsFromNowhere, LeaveFuzzOne, LeaveMain, Sigint, Sigusr1, Ended, vars, entry
<1>3. QED
  BY <1>1, <1>2, PTL DEF Spec

(* Whatever the bytes of a file and whatever the effector map flags, an     *)
(* entry is marked as done only if every sum, difference and interesting    *)
(* value was run where a flagged byte changes, or is a run of bits across   *)
(* the border of two bytes: no test of fuzz_one spares a file for another  *)
(* reason than that a stage runs it.                                       *)
THEOREM MarkedAlwaysMeansTried == Spec => MarkedMeansTried
<1>1. FileIsBytes =>
        [passed_det' # passed_det => \A b \in Lost(file, eff) : Changed(file, b) \cap eff = {}]_vars
  <2>1. ASSUME FileIsBytes, NEW b \in Lost(file, eff) PROVE Changed(file, b) \cap eff = {}
    <3>1. /\ b \in Promised(file, eff) /\ b # file /\ b \notin Tried(file, eff)
          /\ ~AcrossTheBorder(file, b)
      BY DEF Lost
    <3>2. Covered(file, eff, b)
      BY <2>1, <3>1, PromisedIsCovered DEF FileIsBytes
    <3>3. QED
      BY <3>1, <3>2 DEF Covered
  <2>2. QED
    BY <2>1
<1>2. QED
  BY <1>1, FileStays, PTL DEF MarkedMeansTried

-----------------------------------------------------------------------------
(* The invariant of the dictionaries.                                      *)

InCall == {"flip", "flipped", "offer", "user_over", "user_insert", "auto_over", "marked"}

Token == Seq(Bytes)
UserToken == Seq(Bytes) \ {<<>>}
AutoExtra == [data : Token, hit_cnt : Nat]
Walk == [a_collect : Token, a_len : Nat, prev_cksum : 0..2]

(* Types.                                                                  *)
ListsTyped ==
  /\ dictionary \in Dictionaries
  /\ extras \in Seq(UserToken)
  /\ a_extras \in Seq(AutoExtra) /\ auto_changed \in BOOLEAN
  /\ found \in Seq(Token)
  /\ auto_files \in Seq(Token) /\ old_files \subseteq Seq(Token)

WalkTyped ==
  /\ place \in {"off", "load", "dry_run", "main"} \cup InCall
  /\ input \in Seq(Bytes) /\ cksums \in Seq(0..2) /\ walk \in Walk
  /\ place = "flip" => Len(cksums) < Len(input)
  /\ saving \in Nat

DictionaryTyped == ListsTyped /\ WalkTyped

(* No token found is there twice, and the lists are in the order that the  *)
(* stages rely on.                                                         *)
TokensDiffer == \A i, j \in DOMAIN a_extras : Alike(a_extras[i].data, a_extras[j].data) => i = j

OrderedBySize(tokens) == \A i, j \in DOMAIN tokens : i < j => Len(tokens[i]) <= Len(tokens[j])

TokensInv == TokensDiffer /\ OrderedBySize(extras) /\ OrderedBySize(AutoTokens)

(* Tokens in use.                                                          *)
Used == MinOf(USE_AUTO_EXTRAS, Len(a_extras))

(* File n is the token in use with that number.                            *)
Current(n) == n <= Len(auto_files) /\ auto_files[n] = a_extras[n].data

(* What is on disk: never more files than tokens in use, all of them       *)
(* current if nothing has changed since they were written, and those below *)
(* the one at work while they are being written.                           *)
FilesInv ==
  /\ place = "off" => a_extras = <<>> /\ ~auto_changed /\ saving = 0
  /\ place = "load" => auto_files = <<>> /\ saving = 0 /\ (~auto_changed => a_extras = <<>>)
  /\ place \notin {"off", "load"} =>
       /\ Len(auto_files) <= Used
       /\ saving = 0 /\ ~auto_changed => \A n \in 1..Used : Current(n)
  /\ saving > 0 =>
       LET n == (saving + 1) \div 2
       IN /\ ~auto_changed
          /\ n <= Used + 1
          /\ \A k \in 1..n - 1 : Current(k)
          /\ saving % 2 = 0 => n <= Len(auto_files)

FoundInv == DictionaryTyped /\ TokensInv /\ FilesInv

-----------------------------------------------------------------------------
(* The list of tokens found.                                               *)

LEMMA Numbers ==
  /\ MIN_AUTO_EXTRA \in Nat /\ MIN_AUTO_EXTRA > 1 /\ MAX_AUTO_EXTRA \in Nat
  /\ USE_AUTO_EXTRAS \in Nat /\ USE_AUTO_EXTRAS > 0 /\ MAX_AUTO_EXTRAS \in Nat
BY DictionaryAssumption

LEMMA MinOfIs == \A m, n \in Nat : MinOf(m, n) \in Nat /\ MinOf(m, n) <= m /\ MinOf(m, n) <= n
BY DEF MinOf

LEMMA UsedIs ==
  ASSUME NEW l \in Seq(AutoExtra)
  PROVE  /\ MinOf(USE_AUTO_EXTRAS, Len(l)) \in Nat /\ MinOf(USE_AUTO_EXTRAS, Len(l)) <= Len(l)
         /\ Top(l) = 1..MinOf(USE_AUTO_EXTRAS, Len(l))
<1>1. Len(l) \in Nat
  OBVIOUS
<1> QED
  BY <1>1, Numbers, MinOfIs DEF Top

(* A list of which no element is there twice has as many as it is long.    *)
LEMMA RangeOfDifferent ==
  ASSUME NEW S, NEW l \in Seq(S), \A i, j \in DOMAIN l : l[i] = l[j] => i = j
  PROVE  Cardinality(Range(l)) = Len(l)
<1>1. l \in [1..Len(l) -> Range(l)] /\ DOMAIN l = 1..Len(l) /\ Len(l) \in Nat
  BY DEF Range
<1>2. l \in Surjection(1..Len(l), Range(l)) /\ l \in Injection(1..Len(l), Range(l))
  BY <1>1 DEF Surjection, Injection, IsInjective, Range
<1>3. IsFiniteSet(1..Len(l)) /\ Cardinality(1..Len(l)) = Len(l)
  <2>1. IsFiniteSet(1..Len(l)) /\ Cardinality(1..Len(l)) = IF 1 > Len(l) THEN 0 ELSE Len(l) - 1 + 1
    BY <1>1, FS_Interval
  <2> QED
    BY <1>1, <2>1
<1> QED
  BY <1>2, <1>3, FS_Surjection

(* The two sorts keep the elements and their number.                       *)
LEMMA SortedKeeps ==
  ASSUME NEW l \in Seq(AutoExtra), \A i, j \in DOMAIN l : l[i] = l[j] => i = j, NEW p \in Sorted(l)
  PROVE  /\ p \in Seq(AutoExtra) /\ Len(p) = Len(l) /\ DOMAIN p = 1..Len(l)
         /\ \A i \in DOMAIN p : \E j \in DOMAIN l : p[i] = l[j]
         /\ \A i, j \in DOMAIN p : p[i] = p[j] => i = j
         /\ BySize(p)
<1>1. Cardinality(Range(l)) = Len(l) /\ Len(l) \in Nat
  BY RangeOfDifferent
<1>2. /\ p \in [1..Len(l) -> Range(l)] /\ BySize(p)
      /\ \A i, j \in 1..Len(l) : i # j => p[i] # p[j]
  BY <1>1 DEF Sorted, SetToSeqs
<1>3. \A i \in 1..Len(l) : p[i] \in Range(l)
  BY <1>2
<1>4. Range(l) \subseteq AutoExtra
  BY DEF Range
<1>5. p \in [1..Len(l) -> AutoExtra]
  BY <1>2, <1>4
<1>6. p \in Seq(AutoExtra) /\ Len(p) = Len(l) /\ DOMAIN p = 1..Len(l)
  BY <1>5, <1>1
<1>7. \A i \in DOMAIN p : \E j \in DOMAIN l : p[i] = l[j]
  BY <1>6, <1>3 DEF Range
<1> QED
  BY <1>2, <1>6, <1>7

(* Two tokens of one sequence are alike, and alike tokens are tokens that  *)
(* are alike in either order.                                              *)
LEMMA AlikeIsEquivalence ==
  /\ \A s \in Token : Alike(s, s)
  /\ \A s, t \in Token : Alike(s, t) => Alike(t, s)
  /\ \A s, t, u \in Token : Alike(s, t) /\ Alike(t, u) => Alike(s, u)
BY DEF Alike, Token

(* A list has no two tokens that are alike.                                *)
Different(l) == \A i, j \in DOMAIN l : Alike(l[i].data, l[j].data) => i = j

(* What maybe_add_auto makes of the list before it is sorted.              *)
LEMMA WithTokenKeeps ==
  ASSUME a_extras \in Seq(AutoExtra), TokensDiffer, NEW t \in Token, NEW l \in WithToken(t)
  PROVE  l \in Seq(AutoExtra) /\ Len(l) >= Len(a_extras) /\ Len(l) > 0 /\ Different(l)
<1>1. /\ Len(a_extras) \in Nat /\ DOMAIN a_extras = 1..Len(a_extras)
      /\ \A i \in 1..Len(a_extras) : a_extras[i] \in AutoExtra
  OBVIOUS
<1>2. CASE Seen(t) # {}
  <2>1. PICK i \in Seen(t) : l = [a_extras EXCEPT ![i].hit_cnt = @ + 1]
    BY <1>2 DEF WithToken
  <2>2. i \in 1..Len(a_extras)
    BY <2>1 DEF Seen
  <2>3. a_extras[i] \in AutoExtra
    BY <1>1, <2>2
  <2>4. [a_extras[i] EXCEPT !.hit_cnt = @ + 1] \in AutoExtra
    BY <2>3 DEF AutoExtra
  <2>5. l = [a_extras EXCEPT ![i] = [a_extras[i] EXCEPT !.hit_cnt = @ + 1]]
    BY <2>1, <2>2
  <2>6. /\ l \in Seq(AutoExtra) /\ Len(l) = Len(a_extras) /\ DOMAIN l = 1..Len(a_extras)
        /\ \A k \in DOMAIN l : l[k].data = a_extras[k].data
    BY <1>1, <2>2, <2>3, <2>4, <2>5 DEF AutoExtra
  <2>7. \A j, k \in DOMAIN l : Alike(l[j].data, l[k].data) => Alike(a_extras[j].data, a_extras[k].data)
    BY <2>6
  <2> QED
    BY <1>1, <2>2, <2>6, <2>7 DEF Different, TokensDiffer
<1>3. CASE Seen(t) = {}
  <2>1. New(t) \in AutoExtra /\ New(t).data = t
    BY DEF New, AutoExtra
  <2>2. \A i \in 1..Len(a_extras) : a_extras[i].data \in Token
    BY <1>1 DEF AutoExtra
  <2>3. \A i \in 1..Len(a_extras) : ~Alike(a_extras[i].data, t) /\ ~Alike(t, a_extras[i].data)
    BY <1>1, <1>3, <2>2, AlikeIsEquivalence DEF Seen
  <2>4. CASE Len(a_extras) < MAX_AUTO_EXTRAS
    <3>1. l = Append(a_extras, New(t))
      BY <1>3, <2>4 DEF WithToken
    <3>2. /\ l \in Seq(AutoExtra) /\ Len(l) = Len(a_extras) + 1 /\ DOMAIN l = 1..Len(a_extras) + 1
          /\ \A k \in 1..Len(a_extras) : l[k] = a_extras[k]
          /\ l[Len(a_extras) + 1] = New(t)
      BY <3>1, <2>1
    <3>3. \A k \in DOMAIN l : k \in 1..Len(a_extras) \/ k = Len(a_extras) + 1
      BY <1>1, <3>2
    <3> QED
      BY <1>1, <2>1, <2>3, <3>2, <3>3 DEF Different, TokensDiffer
  <2>5. CASE ~(Len(a_extras) < MAX_AUTO_EXTRAS)
    <3>1. PICK i \in BottomHalf : l = [a_extras EXCEPT ![i] = New(t)]
      BY <1>3, <2>5 DEF WithToken
    <3>2. i \in 1..Len(a_extras)
      BY <1>1, <2>5, <3>1, Numbers DEF BottomHalf
    <3>3. /\ l \in Seq(AutoExtra) /\ Len(l) = Len(a_extras) /\ DOMAIN l = 1..Len(a_extras)
          /\ \A k \in DOMAIN l : k # i => l[k] = a_extras[k]
          /\ l[i] = New(t)
      BY <3>1, <3>2, <2>1
    <3> QED
      BY <1>1, <2>1, <2>3, <3>2, <3>3 DEF Different, TokensDiffer
  <2> QED
    BY <2>4, <2>5
<1> QED
  BY <1>2, <1>3

(* What maybe_add_auto may do.                                             *)
LEMMA AddedToken ==
  ASSUME a_extras \in Seq(AutoExtra), TokensInv, NEW t \in Token, MaybeAddAuto(t)
  PROVE  \/ UNCHANGED <<a_extras, auto_changed>>
         \/ /\ a_extras' \in Seq(AutoExtra) /\ auto_changed' = TRUE
            /\ Len(a_extras') >= Len(a_extras) /\ Len(a_extras') > 0
            /\ TokensDiffer' /\ OrderedBySize(AutoTokens)'
<1>1. CASE Rejected(t)
  BY <1>1 DEF MaybeAddAuto
<1>2. CASE ~Rejected(t)
  <2>1. PICK l \in WithToken(t) : a_extras' \in Sorted(l)
    BY <1>2 DEF MaybeAddAuto
  <2>2. l \in Seq(AutoExtra) /\ Len(l) >= Len(a_extras) /\ Len(l) > 0 /\ Different(l)
    BY <2>1, WithTokenKeeps DEF TokensInv
  <2>3. \A i \in DOMAIN l : l[i] \in AutoExtra
    BY <2>2
  <2>4. \A i, j \in DOMAIN l : l[i] = l[j] => i = j
    BY <2>2, <2>3, AlikeIsEquivalence DEF Different, AutoExtra
  <2>5. /\ a_extras' \in Seq(AutoExtra) /\ Len(a_extras') = Len(l) /\ DOMAIN a_extras' = 1..Len(l)
        /\ \A i \in DOMAIN a_extras' : \E j \in DOMAIN l : a_extras'[i] = l[j]
        /\ \A i, j \in DOMAIN a_extras' : a_extras'[i] = a_extras'[j] => i = j
        /\ BySize(a_extras')
    BY <2>1, <2>2, <2>4, SortedKeeps
  <2>6. TokensDiffer'
    BY ZenonT(60), <2>2, <2>5 DEF Different, TokensDiffer
  <2>7. OrderedBySize(AutoTokens)'
    <3>1. DOMAIN AutoTokens' = Top(a_extras') /\ \A i \in Top(a_extras') : AutoTokens'[i] = a_extras'[i].data
      BY DEF AutoTokens
    <3> QED
      BY SMTT(30), <2>5, <3>1 DEF OrderedBySize, BySize
  <2> QED
    BY <1>2, <2>2, <2>5, <2>6, <2>7 DEF MaybeAddAuto
<1> QED
  BY <1>1, <1>2

-----------------------------------------------------------------------------
(* The steps.                                                              *)

(* A step of fuzz_one leaves the lists and the files alone.                *)
LEMMA ListsStay ==
  ASSUME FoundInv, place \notin {"off", "load"}, place' \notin {"off", "load"},
         UNCHANGED <<dictionaries, auto_changed, saving, disk>>, found' \in Seq(Token)
  PROVE  ListsTyped' /\ TokensInv' /\ FilesInv'
<1>1. UNCHANGED <<dictionary, extras, a_extras, auto_changed, saving, auto_files, old_files>>
  BY DEF dictionaries, disk
<1>2. ListsTyped'
  BY <1>1 DEF FoundInv, DictionaryTyped, ListsTyped
<1>3. UNCHANGED <<AutoTokens, Used>> /\ \A n : Current(n)' = Current(n)
  BY <1>1 DEF AutoTokens, Top, Used, Current
<1>4. TokensInv'
  BY <1>1, <1>3 DEF FoundInv, TokensInv, TokensDiffer, OrderedBySize
<1>5. FilesInv'
  BY <1>1, <1>3 DEF FoundInv, FilesInv
<1> QED
  BY <1>2, <1>4, <1>5

(* What the walking bit collects are bytes.                                *)
LEMMA ByteCollected ==
  ASSUME NEW w \in Walk, NEW byte \in Bytes
  PROVE  Grab(w, byte) \in Walk
<1>1. w.a_collect \in Token /\ w.a_len \in Nat
  BY DEF Walk
<1>2. Append(w.a_collect, byte) \in Token
  BY <1>1 DEF Token
<1>3. Grab(w, byte) = [a_collect |-> IF w.a_len < MAX_AUTO_EXTRA THEN Append(w.a_collect, byte) ELSE w.a_collect,
                       a_len |-> w.a_len + 1, prev_cksum |-> w.prev_cksum]
  <2>1. w = [a_collect |-> w.a_collect, a_len |-> w.a_len, prev_cksum |-> w.prev_cksum]
    BY DEF Walk
  <2>2. CASE w.a_len < MAX_AUTO_EXTRA
    <3>1. Grab(w, byte) = [w EXCEPT !.a_collect = Append(@, byte), !.a_len = @ + 1]
      BY <2>2 DEF Grab
    <3> QED
      BY <2>1, <2>2, <3>1
  <2>3. CASE ~(w.a_len < MAX_AUTO_EXTRA)
    <3>1. Grab(w, byte) = [w EXCEPT !.a_collect = @, !.a_len = @ + 1]
      BY <2>3 DEF Grab
    <3> QED
      BY <2>1, <2>3, <3>1
  <2> QED
    BY <2>2, <2>3
<1>4. w.prev_cksum \in 0..2 /\ w.a_len + 1 \in Nat
  BY <1>1 DEF Walk
<1>5. (IF w.a_len < MAX_AUTO_EXTRA THEN Append(w.a_collect, byte) ELSE w.a_collect) \in Token
  BY <1>1, <1>2
<1> QED
  BY <1>3, <1>4, <1>5 DEF Walk

LEMMA FlipByteKeeps ==
  ASSUME FoundInv, FlipByte
  PROVE  FoundInv'
<1> DEFINE byte == input[Len(cksums) + 1]
<1>1. PICK cksum \in 0..2 :
        /\ cksums' = Append(cksums, cksum) /\ found' = Found(cksum, byte)
        /\ walk' = IF LastByte THEN Restart(EXEC_CKSUM) ELSE Collected(cksum, byte)
  BY DEF FlipByte
<1>2. /\ input' = input /\ place = "flip" /\ place' \in {"flip", "flipped"} /\ saving' = saving
      /\ place' = "flip" <=> ~LastByte
      /\ UNCHANGED <<dictionaries, auto_changed, saving, disk>>
  BY DEF FlipByte, Goto
<1>3. /\ input \in Seq(Bytes) /\ cksums \in Seq(0..2) /\ walk \in Walk /\ saving \in Nat
      /\ Len(cksums) < Len(input) /\ found \in Seq(Token)
  BY <1>2 DEF FoundInv, DictionaryTyped, WalkTyped, ListsTyped
<1>4. byte \in Bytes
  BY <1>3
<1>5. \A c \in 0..2 : Restart(c) \in Walk
  BY DEF Restart, Walk, Token
<1>6. walk' \in Walk
  BY <1>1, <1>3, <1>4, <1>5, ByteCollected DEF Collected, EXEC_CKSUM
<1>7. \A w \in Walk : Output(w) \in Seq(Token)
  BY <1>3 DEF Output, Walk
<1>8. found' \in Seq(Token)
  BY <1>1, <1>3, <1>4, <1>7, ByteCollected DEF Found
<1>9. cksums' \in Seq(0..2) /\ Len(cksums') = Len(cksums) + 1
  BY <1>1, <1>3
<1>10. place' = "flip" => Len(cksums') < Len(input')
  BY <1>2, <1>3, <1>9 DEF LastByte
<1>11. WalkTyped'
  BY <1>2, <1>3, <1>6, <1>9, <1>10 DEF WalkTyped, InCall
<1> QED
  BY <1>2, <1>8, <1>11, ListsStay DEF FoundInv, DictionaryTyped

(* The other steps of fuzz_one hand over nothing.                          *)
LEMMA CallKeeps ==
  ASSUME FoundInv,
         WalkingBit \/ AllHandedOver \/ OverwriteUser \/ InsertUser \/ OverwriteAuto \/ Leave
  PROVE  FoundInv'
<1>1. /\ place \in {"main"} \cup InCall /\ place' \in {"main"} \cup InCall
      /\ UNCHANGED <<dictionaries, auto_changed, saving, disk>>
  BY DEF WalkingBit, AllHandedOver, OverwriteUser, InsertUser, OverwriteAuto, Leave, InStage, Goto, InCall
<1>2. found' = found \/ found' = <<>>
  BY DEF WalkingBit, AllHandedOver, OverwriteUser, InsertUser, OverwriteAuto, Leave, InStage, NoCall
<1>3. found' \in Seq(Token)
  <2>1. <<>> \in Seq(Token) /\ found \in Seq(Token)
    BY DEF FoundInv, DictionaryTyped, ListsTyped
  <2> QED
    BY <1>2, <2>1
<1>4. Restart(EXEC_CKSUM) \in Walk
  BY DEF Restart, Walk, Token, EXEC_CKSUM
<1>5. walk' \in Walk
  BY <1>4 DEF WalkingBit, AllHandedOver, OverwriteUser, InsertUser, OverwriteAuto, Leave, InStage, NoCall,
     FoundInv, DictionaryTyped, WalkTyped
<1>6. /\ input' \in Seq(Bytes) /\ cksums' \in Seq(0..2)
      /\ place' = "flip" => cksums' = <<>> /\ input' # <<>>
  <2>1. CASE WalkingBit
    <3>1. cksums' = <<>> /\ \E f \in Inputs : input' = f
      BY <2>1 DEF WalkingBit
    <3> QED
      BY <3>1, DictionaryAssumption
  <2>2. CASE Leave
    BY <2>2 DEF Leave, NoCall
  <2>3. CASE AllHandedOver \/ OverwriteUser \/ InsertUser \/ OverwriteAuto
    <3>1. input' = input /\ (cksums' = cksums \/ cksums' = <<>>) /\ place' # "flip"
      BY <2>3 DEF AllHandedOver, OverwriteUser, InsertUser, OverwriteAuto, InStage, Goto
    <3>2. input \in Seq(Bytes) /\ cksums \in Seq(0..2)
      BY DEF FoundInv, DictionaryTyped, WalkTyped
    <3>3. <<>> \in Seq(0..2)
      OBVIOUS
    <3> QED
      BY <3>1, <3>2, <3>3
  <2> QED
    BY <2>1, <2>2, <2>3
<1>7. saving' \in Nat
  BY <1>1 DEF FoundInv, DictionaryTyped, WalkTyped
<1>8. place' = "flip" => Len(cksums') < Len(input')
  BY <1>6
<1>9. WalkTyped'
  BY <1>1, <1>5, <1>6, <1>7, <1>8 DEF WalkTyped
<1> QED
  BY <1>1, <1>3, <1>9, ListsStay DEF FoundInv, DictionaryTyped, InCall

LEMMA HandOverKeeps ==
  ASSUME FoundInv, HandOver
  PROVE  FoundInv'
<1>1. /\ saving = 0 /\ found # <<>> /\ found' = Tail(found) /\ cksums' = <<>>
      /\ UNCHANGED <<dictionary, extras, input, walk, saving, auto_files, old_files>>
      /\ place \in {"flipped", "offer", "load"} /\ place' = (IF place = "load" THEN "load" ELSE "offer")
      /\ MaybeAddAuto(Head(found)) \/ UNCHANGED <<a_extras, auto_changed>>
  BY DEF HandOver, Busy, disk
<1>2. /\ found \in Seq(Token) /\ a_extras \in Seq(AutoExtra) /\ TokensInv
      /\ saving \in Nat
  BY DEF FoundInv, DictionaryTyped, WalkTyped, ListsTyped
<1>3. Head(found) \in Token /\ found' \in Seq(Token)
  BY <1>1, <1>2
<1>4. WalkTyped'
  BY <1>1 DEF WalkTyped, FoundInv, DictionaryTyped, InCall
<1>5. \/ UNCHANGED <<a_extras, auto_changed>>
      \/ /\ a_extras' \in Seq(AutoExtra) /\ auto_changed' = TRUE
         /\ Len(a_extras') >= Len(a_extras) /\ Len(a_extras') > 0
         /\ TokensDiffer' /\ OrderedBySize(AutoTokens)'
  BY <1>1, <1>2, <1>3, AddedToken
<1>6. CASE UNCHANGED <<a_extras, auto_changed>>
  <2>1. ListsTyped'
    BY <1>1, <1>3, <1>6 DEF FoundInv, DictionaryTyped, ListsTyped
  <2>2. UNCHANGED <<AutoTokens, Used>> /\ \A n : Current(n)' = Current(n)
    BY <1>1, <1>6 DEF AutoTokens, Top, Used, Current
  <2>3. TokensInv'
    BY <1>1, <1>6, <2>2 DEF FoundInv, TokensInv, TokensDiffer, OrderedBySize
  <2>4. FilesInv'
    BY <1>1, <1>6, <2>2 DEF FoundInv, FilesInv
  <2> QED
    BY <1>4, <2>1, <2>3, <2>4 DEF FoundInv, DictionaryTyped
<1>7. CASE /\ a_extras' \in Seq(AutoExtra) /\ auto_changed' = TRUE
           /\ Len(a_extras') >= Len(a_extras) /\ Len(a_extras') > 0
           /\ TokensDiffer' /\ OrderedBySize(AutoTokens)'
  <2>1. ListsTyped'
    BY <1>1, <1>3, <1>7 DEF FoundInv, DictionaryTyped, ListsTyped
  <2>2. TokensInv'
    BY <1>1, <1>7 DEF FoundInv, TokensInv, OrderedBySize
  <2>3. Used' >= Used
    BY <1>2, <1>7, Numbers DEF Used, MinOf
  <2>4. place' # "load" => Len(auto_files') <= Used'
    <3>1. place' # "load" => Len(auto_files) <= Used
      BY <1>1 DEF FoundInv, FilesInv
    <3>2. Len(auto_files) \in Nat /\ Used \in Nat /\ Used' \in Nat
      BY <1>2, <1>7, UsedIs DEF FoundInv, DictionaryTyped, ListsTyped, Used
    <3> QED
      BY <1>1, <2>3, <3>1, <3>2
  <2>5. FilesInv'
    BY <1>1, <1>7, <2>4 DEF FoundInv, FilesInv
  <2> QED
    BY <1>4, <2>1, <2>2, <2>5 DEF FoundInv, DictionaryTyped
<1> QED
  BY <1>5, <1>6, <1>7

LEMMA StartSavingKeeps ==
  ASSUME FoundInv, EnterMain \/ SaveAuto
  PROVE  FoundInv'
<1>1. /\ saving = 0 /\ auto_changed' = FALSE /\ saving' = (IF auto_changed THEN 1 ELSE 0)
      /\ UNCHANGED <<dictionary, extras, a_extras, found, auto_files, old_files, input, cksums, walk>>
      /\ place \notin {"off", "load", "flip"}
      /\ place' = place \/ place' = "main"
  BY DEF EnterMain, SaveAuto, Goto, Busy, StartSaving, dictionaries, disk, call
<1>2. WalkTyped' /\ ListsTyped'
  BY <1>1 DEF FoundInv, DictionaryTyped, WalkTyped, ListsTyped, InCall
<1>3. UNCHANGED <<AutoTokens, Used>> /\ \A n : Current(n)' = Current(n)
  BY <1>1 DEF AutoTokens, Top, Used, Current
<1>4. TokensInv'
  BY <1>1, <1>3 DEF FoundInv, TokensInv, TokensDiffer, OrderedBySize
<1>5. Used \in Nat
  BY UsedIs DEF FoundInv, DictionaryTyped, ListsTyped, Used
<1>6. FilesInv'
  <2>1. Len(auto_files') <= Used' /\ (~auto_changed => \A n \in 1..Used' : Current(n)')
    BY <1>1, <1>3 DEF FoundInv, FilesInv
  <2>2. CASE auto_changed
    BY <1>1, <1>3, <1>5, <2>1, <2>2 DEF FilesInv
  <2>3. CASE ~auto_changed
    BY <1>1, <1>3, <1>5, <2>1, <2>3 DEF FilesInv
  <2> QED
    BY <2>2, <2>3
<1> QED
  BY <1>2, <1>4, <1>6 DEF FoundInv, DictionaryTyped

(* One more file is truncated, or written; or there are no more.           *)
LEMMA SaveFileKeeps ==
  ASSUME FoundInv, SaveFile
  PROVE  FoundInv'
<1>a. saving \in Nat
  BY DEF FoundInv, DictionaryTyped, WalkTyped
<1>n. PICK n \in Nat : n = (saving + 1) \div 2
  BY <1>a
<1>c. PICK content : content = IF saving % 2 = 1 THEN <<>> ELSE a_extras[n].data
  OBVIOUS
<1>1. /\ saving > 0 /\ UNCHANGED <<dictionary, extras, a_extras, found, auto_changed, old_files, input, cksums, walk, place>>
      /\ IF n \in Top(a_extras) THEN PutFile(n, content) /\ saving' = saving + 1
         ELSE saving' = 0 /\ UNCHANGED auto_files
  BY <1>n, <1>c DEF SaveFile, dictionaries, call
<1>2. saving \in Nat /\ auto_files \in Seq(Token) /\ a_extras \in Seq(AutoExtra)
  BY DEF FoundInv, DictionaryTyped, WalkTyped, ListsTyped
<1>3. Used \in Nat /\ Top(a_extras) = 1..Used /\ Used <= Len(a_extras)
  BY <1>2, UsedIs DEF Used
<1>4. n \in Nat \ {0} /\ (saving % 2 = 0 => saving = 2 * n) /\ (saving % 2 = 1 => saving = 2 * n - 1)
      /\ saving % 2 \in {0, 1}
  BY <1>n, <1>1, <1>2
<1>5. /\ ~auto_changed /\ n <= Used + 1 /\ \A k \in 1..n - 1 : Current(k)
      /\ saving % 2 = 0 => n <= Len(auto_files)
  BY <1>n, <1>1 DEF FoundInv, FilesInv
<1>6. place \notin {"off", "load"} /\ Len(auto_files) <= Used
  BY <1>1 DEF FoundInv, FilesInv
<1>7. UNCHANGED <<AutoTokens, Used>>
  BY <1>1 DEF AutoTokens, Top, Used
<1>8. TokensInv'
  BY <1>1, <1>7 DEF FoundInv, TokensInv, TokensDiffer, OrderedBySize
<1>9. CASE n \in Top(a_extras)
  <2>1. PutFile(n, content) /\ saving' = saving + 1
    BY <1>1, <1>9
  <2>2. n - 1 <= Len(auto_files)
    <3>1. CASE n = 1
      BY <1>2, <3>1
    <3>2. CASE n > 1
      <4>1. Current(n - 1)
        BY <1>4, <1>5, <3>2
      <4> QED
        BY <4>1 DEF Current
    <3> QED
      BY <1>4, <3>1, <3>2
  <2>3. content \in Token
    <3>1. a_extras[n] \in AutoExtra
      BY <1>2, <1>3, <1>9
    <3> QED
      BY <1>c, <3>1 DEF AutoExtra, Token
  <2>4. /\ auto_files' \in Seq(Token) /\ n <= Len(auto_files') /\ auto_files'[n] = content
        /\ \A k \in 1..n - 1 : k <= Len(auto_files') /\ auto_files'[k] = auto_files[k]
        /\ Len(auto_files') <= Used
    <3>1. CASE n <= Len(auto_files)
      <4>1. auto_files' = [auto_files EXCEPT ![n] = content]
        BY <2>1, <3>1 DEF PutFile
      <4> QED
        BY <1>2, <1>4, <1>6, <2>3, <3>1, <4>1
    <3>2. CASE ~(n <= Len(auto_files))
      <4>1. auto_files' = Append(auto_files, content) /\ n = Len(auto_files) + 1
        BY <1>2, <1>4, <2>1, <2>2, <3>2 DEF PutFile
      <4> QED
        BY <1>2, <1>3, <1>4, <1>9, <2>3, <3>2, <4>1
    <3> QED
      BY <3>1, <3>2
  <2>5. \A k \in 1..n - 1 : Current(k)'
    BY <1>1, <1>5, <2>4 DEF Current
  <2>6. FilesInv'
    <3>1. CASE saving % 2 = 1
      <4>1. (saving' + 1) \div 2 = n /\ saving' % 2 = 0 /\ saving' > 0
        BY <1>2, <1>4, <2>1, <3>1
      <4> QED
        BY <1>1, <1>5, <1>6, <1>7, <2>4, <2>5, <4>1 DEF FilesInv
    <3>2. CASE saving % 2 = 0
      <4>1. (saving' + 1) \div 2 = n + 1 /\ saving' % 2 = 1 /\ saving' > 0
        BY <1>2, <1>4, <2>1, <3>2
      <4>2. Current(n)'
        <5>1. auto_files'[n] = a_extras'[n].data /\ n <= Len(auto_files')
          BY <1>c, <1>1, <2>4, <3>2
        <5> QED
          BY <5>1 DEF Current
      <4>3. \A k \in 1..n + 1 - 1 : Current(k)'
        <5>1. \A k \in 1..n + 1 - 1 : k \in 1..n - 1 \/ k = n
          BY <1>4
        <5> QED
          BY <2>5, <4>2, <5>1
      <4>4. n + 1 <= Used + 1
        BY <1>3, <1>4, <1>9
      <4> QED
        <5>1. saving' % 2 # 0
          BY <4>1
        <5>2. /\ ~auto_changed' /\ place' \notin {"off", "load"} /\ Len(auto_files') <= Used'
              /\ n + 1 <= Used' + 1
          BY <1>1, <1>5, <1>6, <1>7, <2>4, <4>4
        <5> QED
          BY <4>1, <4>3, <5>1, <5>2 DEF FilesInv
    <3> QED
      BY <1>4, <3>1, <3>2
  <2>7. DictionaryTyped'
    BY <1>1, <1>2, <2>1, <2>4 DEF FoundInv, DictionaryTyped, WalkTyped, ListsTyped
  <2> QED
    BY <1>8, <2>6, <2>7 DEF FoundInv
<1>10. CASE n \notin Top(a_extras)
  <2>1. saving' = 0 /\ auto_files' = auto_files
    BY <1>1, <1>10
  <2>2. n = Used + 1
    BY <1>3, <1>4, <1>5, <1>10
  <2>3. \A k \in 1..Used' : Current(k)'
    <3>1. \A k \in 1..Used : Current(k)
      BY <1>3, <1>5, <2>2
    <3>2. \A k : Current(k)' = Current(k)
      BY <1>1, <2>1 DEF Current
    <3> QED
      BY <1>7, <3>1, <3>2
  <2>4. FilesInv'
    BY <1>1, <1>6, <1>7, <2>1, <2>3 DEF FilesInv
  <2>5. DictionaryTyped'
    BY <1>1, <2>1 DEF FoundInv, DictionaryTyped, WalkTyped, ListsTyped
  <2> QED
    BY <1>8, <2>4, <2>5 DEF FoundInv
<1> QED
  BY <1>9, <1>10

LEMMA KillKeeps ==
  ASSUME FoundInv, Kill
  PROVE  FoundInv'
<1>1. /\ place' = "off" /\ extras' = <<>> /\ a_extras' = <<>> /\ auto_changed' = FALSE
      /\ input' = <<>> /\ cksums' = <<>> /\ walk' = Restart(EXEC_CKSUM) /\ found' = <<>> /\ saving' = 0
      /\ UNCHANGED <<dictionary, auto_files, old_files>>
  BY DEF Kill, NoCall, disk
<1>2. ListsTyped'
  <2>1. <<>> \in Seq(Token) /\ <<>> \in Seq(UserToken) /\ <<>> \in Seq(AutoExtra)
    OBVIOUS
  <2> QED
    BY <1>1, <2>1 DEF FoundInv, DictionaryTyped, ListsTyped
<1>3. WalkTyped'
  BY <1>1 DEF WalkTyped, Restart, EXEC_CKSUM, Walk, Token
<1>4. TokensInv'
  <2>1. DOMAIN AutoTokens' = {} /\ DOMAIN extras' = {} /\ DOMAIN a_extras' = {}
    BY <1>1, Numbers DEF AutoTokens, Top, MinOf
  <2> QED
    BY <2>1 DEF TokensInv, TokensDiffer, OrderedBySize
<1>5. FilesInv'
  BY <1>1 DEF FilesInv
<1> QED
  BY <1>2, <1>3, <1>4, <1>5 DEF FoundInv, DictionaryTyped

LEMMA ResumeKeeps ==
  ASSUME FoundInv, Resume
  PROVE  FoundInv'
<1>1. /\ place = "off" /\ place' = "load" /\ auto_files' = <<>> /\ found' \in old_files'
      /\ old_files' = IF old_files = {} THEN {auto_files} ELSE old_files
      /\ UNCHANGED <<dictionary, extras, a_extras, auto_changed, input, cksums, walk, saving>>
  BY DEF Resume, dictionaries, call
<1>2. old_files' \subseteq Seq(Token)
  BY <1>1 DEF FoundInv, DictionaryTyped, ListsTyped
<1>3. ListsTyped'
  BY <1>1, <1>2 DEF FoundInv, DictionaryTyped, ListsTyped
<1>4. WalkTyped'
  BY <1>1 DEF FoundInv, DictionaryTyped, WalkTyped
<1>5. AutoTokens' = AutoTokens
  BY <1>1 DEF AutoTokens, Top
<1>6. TokensInv'
  BY <1>1, <1>5 DEF FoundInv, TokensInv, TokensDiffer, OrderedBySize
<1>7. FilesInv'
  BY <1>1 DEF FoundInv, FilesInv
<1> QED
  BY <1>3, <1>4, <1>6, <1>7 DEF FoundInv, DictionaryTyped

(* The user's tokens, sorted.                                              *)
LEMMA SortedByLenKeeps ==
  ASSUME NEW s \in Seq(UserToken), NEW p \in SortedByLen(s)
  PROVE  p \in Seq(UserToken) /\ OrderedBySize(p)
<1>1. PICK f \in SetToSeqs(DOMAIN s) : p = [i \in DOMAIN s |-> s[f[i]]]
  BY DEF SortedByLen
<1>2. Len(s) \in Nat /\ DOMAIN s = 1..Len(s)
  OBVIOUS
<1>3. Cardinality(1..Len(s)) = Len(s)
  <2>1. Cardinality(1..Len(s)) = IF 1 > Len(s) THEN 0 ELSE Len(s) - 1 + 1
    BY <1>2, FS_Interval
  <2> QED
    BY <1>2, <2>1
<1>4. f \in [1..Len(s) -> 1..Len(s)]
  BY <1>1, <1>2, <1>3 DEF SetToSeqs
<1>5. \A i \in 1..Len(s) : s[f[i]] \in UserToken
  BY <1>4
<1>6. p \in Seq(UserToken)
  BY <1>1, <1>2, <1>5
<1> QED
  BY <1>6 DEF SortedByLen, OrderedBySize

LEMMA LoadExtrasKeeps ==
  ASSUME FoundInv, LoadExtras
  PROVE  FoundInv'
<1>1. /\ place = "load" /\ place' = "dry_run" /\ old_files' = {} /\ extras' \in SortedByLen(dictionary')
      /\ dictionary' = dictionary \/ dictionary' \in Dictionaries
      /\ UNCHANGED <<a_extras, auto_changed, found, saving, auto_files, input, cksums, walk>>
  BY DEF LoadExtras, Goto, call
<1>2. dictionary' \in Dictionaries /\ dictionary' \in Seq(UserToken)
  BY <1>1, DictionaryAssumption DEF FoundInv, DictionaryTyped, ListsTyped, UserToken
<1>3. extras' \in Seq(UserToken) /\ OrderedBySize(extras')
  BY <1>1, <1>2, SortedByLenKeeps
<1>4. ListsTyped'
  BY <1>1, <1>2, <1>3 DEF FoundInv, DictionaryTyped, ListsTyped
<1>5. WalkTyped'
  BY <1>1 DEF FoundInv, DictionaryTyped, WalkTyped
<1>6. AutoTokens' = AutoTokens
  BY <1>1 DEF AutoTokens, Top
<1>7. TokensInv'
  <2>1. OrderedBySize(AutoTokens)' /\ OrderedBySize(extras)'
    BY <1>3, <1>6 DEF FoundInv, TokensInv, OrderedBySize
  <2>2. TokensDiffer'
    BY <1>1 DEF FoundInv, TokensInv, TokensDiffer
  <2> QED
    BY <2>1, <2>2 DEF TokensInv
<1>8. FilesInv'
  <2>1. auto_files = <<>> /\ saving = 0 /\ (~auto_changed => a_extras = <<>>)
    BY <1>1 DEF FoundInv, FilesInv
  <2>2. Used' \in Nat /\ (~auto_changed => Used' = 0)
    BY <1>1, <2>1, Numbers, MinOfIs DEF FoundInv, DictionaryTyped, ListsTyped, Used, MinOf
  <2> QED
    BY <1>1, <2>1, <2>2 DEF FilesInv
<1> QED
  BY <1>4, <1>5, <1>7, <1>8 DEF FoundInv, DictionaryTyped

LEMMA FoundStart ==
  ASSUME DictionaryInit
  PROVE  FoundInv
<1>1. dictionary \in Seq(UserToken)
  BY DictionaryAssumption DEF DictionaryInit, UserToken
<1>2. extras \in Seq(UserToken) /\ OrderedBySize(extras)
  BY <1>1, SortedByLenKeeps DEF DictionaryInit
<1>3. DictionaryTyped
  <2>1. <<>> \in Seq(Token) /\ <<>> \in Seq(AutoExtra) /\ <<>> \in Seq(Bytes) /\ <<>> \in Seq(0..2)
    OBVIOUS
  <2>2. ListsTyped
    BY <1>2, <2>1 DEF DictionaryInit, ListsTyped
  <2>3. Restart(EXEC_CKSUM) \in Walk
    BY DEF Restart, EXEC_CKSUM, Walk, Token
  <2>4. WalkTyped
    BY <2>1, <2>3 DEF DictionaryInit, WalkTyped
  <2> QED
    BY <2>2, <2>4 DEF DictionaryTyped
<1>4. Used = 0 /\ DOMAIN AutoTokens = {} /\ DOMAIN a_extras = {}
  BY Numbers DEF DictionaryInit, Used, MinOf, AutoTokens, Top
<1>5. TokensInv
  BY <1>2, <1>4 DEF TokensInv, TokensDiffer, OrderedBySize
<1>6. FilesInv
  BY <1>4 DEF DictionaryInit, FilesInv
<1> QED
  BY <1>3, <1>5, <1>6 DEF FoundInv

(* Types, the order of the lists, and what is on disk.                     *)
THEOREM FoundCorrect == DictionarySpec => []FoundInv
<1>1. DictionaryInit => FoundInv
  BY FoundStart
<1>2. FoundInv /\ [DictionaryNext]_dictionaryVars => FoundInv'
  <2> SUFFICES ASSUME FoundInv, [DictionaryNext]_dictionaryVars
               PROVE  FoundInv'
    OBVIOUS
  <2>1. CASE DictionaryNext
    BY <2>1, FlipByteKeeps, CallKeeps, HandOverKeeps, StartSavingKeeps, SaveFileKeeps, KillKeeps,
       ResumeKeeps, LoadExtrasKeeps DEF DictionaryNext
  <2>2. CASE UNCHANGED dictionaryVars
    BY <2>2 DEF dictionaryVars, dictionaries, call, disk, FoundInv, DictionaryTyped, ListsTyped, WalkTyped,
       TokensInv, TokensDiffer, OrderedBySize, FilesInv, Used, Current, AutoTokens, Top
  <2> QED
    BY <2>1, <2>2
<1> QED
  BY <1>1, <1>2, PTL DEF DictionarySpec

(* What is not written because nothing changed is on disk (SavedIsCurrent).*)
THEOREM FilesAlwaysCurrent == DictionarySpec => []SavedIsCurrent
<1>1. FoundInv => SavedIsCurrent
  <2> SUFFICES ASSUME FoundInv, place \notin {"off", "load"}, Busy, ~auto_changed
               PROVE  auto_files = AutoTokens
    BY DEF SavedIsCurrent
  <2>1. auto_files \in Seq(Token) /\ a_extras \in Seq(AutoExtra)
    BY DEF FoundInv, DictionaryTyped, ListsTyped
  <2>2. Used \in Nat /\ Top(a_extras) = 1..Used
    BY <2>1, UsedIs DEF Used
  <2>3. Len(auto_files) <= Used /\ \A n \in 1..Used : Current(n)
    BY DEF FoundInv, FilesInv, Busy
  <2>4. Len(auto_files) = Used
    <3>1. CASE Used = 0
      BY <2>1, <2>3, <3>1
    <3>2. CASE Used # 0
      <4>1. Current(Used)
        BY <2>2, <2>3, <3>2
      <4> QED
        BY <2>1, <2>2, <2>3, <4>1 DEF Current
    <3> QED
      BY <3>1, <3>2
  <2>5. DOMAIN auto_files = 1..Used /\ \A n \in 1..Used : auto_files[n] = a_extras[n].data
    BY <2>1, <2>3, <2>4 DEF Current
  <2> QED
    BY <2>1, <2>2, <2>5 DEF AutoTokens
<1> QED
  BY <1>1, FoundCorrect, PTL

-----------------------------------------------------------------------------
(* The stages.                                                             *)

(* The files in which token m of the list was written over place p, where  *)
(* it fits and has an effect, for all m and p that a stage at place i and  *)
(* token j is through with.                                                *)
Fits(p, t) == Room(input, p, t) /\ HasEffect(p, t)

TriedUpTo(tokens, i, j) ==
  {Write(input, q[1], tokens[q[2]]) :
     q \in {r \in (DOMAIN input) \X (DOMAIN tokens) :
              (r[1] < i \/ (r[1] = i /\ r[2] < j)) /\ Fits(r[1], tokens[r[2]])}}

AllTried(tokens) == TriedUpTo(tokens, Len(input) + 1, 1)

(* Everything that was run, but for the entry itself.                      *)
Ran(files) == ran \ {input} = files \ {input}

Untouched == out_buf = input /\ stage_cur_byte = 1 /\ cur_token = 1 /\ last_len = 0

(* In the middle of a stage: only the bytes that are about to be restored  *)
(* differ, as many as the longest token written here has; and the file as  *)
(* it is was run.                                                          *)
OverwriteInv(tokens, files) ==
  /\ stage_cur_byte \in 1..Len(input) + 1 /\ cur_token \in 1..Len(tokens) + 1
  /\ last_len \in Nat /\ stage_cur_byte + last_len - 1 <= Len(input)
  /\ last_len > 0 => \E m \in 1..cur_token - 1 : last_len = Len(tokens[m])
  /\ \A k \in 1..Len(input) : out_buf[k] = input[k] \/ k \in stage_cur_byte..stage_cur_byte + last_len - 1
  /\ out_buf = input \/ out_buf \in ran
  /\ Ran(files \cup TriedUpTo(tokens, stage_cur_byte, cur_token))

UserFiles == AllTried(extras)
WithInsertions == UserFiles \cup Insertions(input, extras)

StageInv ==
  /\ out_buf \in Seq(Bytes) /\ Len(out_buf) = Len(input)
  /\ place \in {"flip", "flipped", "offer"} => Untouched /\ ran = {}
  /\ place = "user_over" => OverwriteInv(extras, {})
  /\ place = "user_insert" => Untouched /\ Ran(UserFiles)
  /\ place = "auto_over" => OverwriteInv(AutoTokens, WithInsertions)
  /\ place = "marked" => Untouched /\ Ran(WithInsertions \cup AllTried(AutoTokens))

(* A file is among those tried if some pair of a place and a token that    *)
(* the stage is through with gives it.                                     *)
LEMMA TriedIs ==
  ASSUME NEW tokens, NEW i, NEW j, NEW x
  PROVE  x \in TriedUpTo(tokens, i, j) <=>
           \E p \in DOMAIN input, m \in DOMAIN tokens :
             /\ p < i \/ (p = i /\ m < j)
             /\ Fits(p, tokens[m]) /\ x = Write(input, p, tokens[m])
<1> DEFINE P == {r \in (DOMAIN input) \X (DOMAIN tokens) :
                   (r[1] < i \/ (r[1] = i /\ r[2] < j)) /\ Fits(r[1], tokens[r[2]])}
<1>1. ASSUME x \in TriedUpTo(tokens, i, j)
      PROVE  \E p \in DOMAIN input, m \in DOMAIN tokens :
               /\ p < i \/ (p = i /\ m < j)
               /\ Fits(p, tokens[m]) /\ x = Write(input, p, tokens[m])
  <2>1. PICK q \in P : x = Write(input, q[1], tokens[q[2]])
    BY <1>1 DEF TriedUpTo
  <2>2. q[1] \in DOMAIN input /\ q[2] \in DOMAIN tokens
    BY <2>1
  <2> QED
    BY <2>1, <2>2
<1>2. ASSUME NEW p \in DOMAIN input, NEW m \in DOMAIN tokens,
             p < i \/ (p = i /\ m < j), Fits(p, tokens[m]), x = Write(input, p, tokens[m])
      PROVE  x \in TriedUpTo(tokens, i, j)
  <2>1. <<p, m>> \in P
    BY <1>2
  <2>2. x = Write(input, <<p, m>>[1], tokens[<<p, m>>[2]])
    BY <1>2
  <2>3. \E q \in P : x = Write(input, q[1], tokens[q[2]])
    BY <2>1, <2>2
  <2> QED
    BY <2>3 DEF TriedUpTo
<1> QED
  BY <1>1, <1>2

LEMMA TriedNext ==
  ASSUME NEW tokens \in Seq(Token), input \in Seq(Bytes),
         NEW i \in 1..Len(input), NEW j \in 1..Len(tokens)
  PROVE  TriedUpTo(tokens, i, j + 1) =
           TriedUpTo(tokens, i, j) \cup (IF Fits(i, tokens[j]) THEN {Write(input, i, tokens[j])} ELSE {})
<1> SUFFICES ASSUME NEW x
             PROVE  x \in TriedUpTo(tokens, i, j + 1) <=>
                      x \in TriedUpTo(tokens, i, j) \/ (Fits(i, tokens[j]) /\ x = Write(input, i, tokens[j]))
  OBVIOUS
<1>1. i \in DOMAIN input /\ j \in DOMAIN tokens
  OBVIOUS
<1>2. \A m \in DOMAIN tokens : m < j + 1 <=> m < j \/ m = j
  OBVIOUS
<1>3. x \in TriedUpTo(tokens, i, j + 1) <=>
        \E p \in DOMAIN input, m \in DOMAIN tokens :
             /\ p < i \/ (p = i /\ m < j + 1)
             /\ Fits(p, tokens[m]) /\ x = Write(input, p, tokens[m])
  BY TriedIs
<1>4. x \in TriedUpTo(tokens, i, j) <=>
        \E p \in DOMAIN input, m \in DOMAIN tokens :
             /\ p < i \/ (p = i /\ m < j)
             /\ Fits(p, tokens[m]) /\ x = Write(input, p, tokens[m])
  BY TriedIs
<1> QED
  BY <1>1, <1>2, <1>3, <1>4

LEMMA TriedRow ==
  ASSUME NEW tokens \in Seq(Token), input \in Seq(Bytes), NEW i \in 1..Len(input)
  PROVE  TriedUpTo(tokens, i + 1, 1) = TriedUpTo(tokens, i, Len(tokens) + 1)
<1> SUFFICES ASSUME NEW x
             PROVE  x \in TriedUpTo(tokens, i + 1, 1) <=> x \in TriedUpTo(tokens, i, Len(tokens) + 1)
  OBVIOUS
<1>1. \A p \in DOMAIN input, m \in DOMAIN tokens :
        (p < i + 1 \/ (p = i + 1 /\ m < 1)) <=> (p < i \/ (p = i /\ m < Len(tokens) + 1))
  OBVIOUS
<1>2. x \in TriedUpTo(tokens, i + 1, 1) <=>
        \E p \in DOMAIN input, m \in DOMAIN tokens :
             /\ p < i + 1 \/ (p = i + 1 /\ m < 1)
             /\ Fits(p, tokens[m]) /\ x = Write(input, p, tokens[m])
  BY TriedIs
<1>3. x \in TriedUpTo(tokens, i, Len(tokens) + 1) <=>
        \E p \in DOMAIN input, m \in DOMAIN tokens :
             /\ p < i \/ (p = i /\ m < Len(tokens) + 1)
             /\ Fits(p, tokens[m]) /\ x = Write(input, p, tokens[m])
  BY TriedIs
<1> QED
  BY <1>1, <1>2, <1>3

(* A stage that is at its end, or has no tokens, has tried them all.       *)
LEMMA TriedEnd ==
  ASSUME NEW tokens \in Seq(Token), input \in Seq(Bytes), NEW i \in 1..Len(input) + 1, NEW j \in Nat,
         tokens = <<>> \/ i > Len(input)
  PROVE  TriedUpTo(tokens, i, j) = AllTried(tokens)
<1> SUFFICES ASSUME NEW x
             PROVE  x \in TriedUpTo(tokens, i, j) <=> x \in TriedUpTo(tokens, Len(input) + 1, 1)
  BY DEF AllTried
<1>1. \A p \in DOMAIN input, m \in DOMAIN tokens :
        (p < i \/ (p = i /\ m < j)) <=> (p < Len(input) + 1 \/ (p = Len(input) + 1 /\ m < 1))
  OBVIOUS
<1>2. x \in TriedUpTo(tokens, i, j) <=>
        \E p \in DOMAIN input, m \in DOMAIN tokens :
             /\ p < i \/ (p = i /\ m < j)
             /\ Fits(p, tokens[m]) /\ x = Write(input, p, tokens[m])
  BY TriedIs
<1>3. x \in TriedUpTo(tokens, Len(input) + 1, 1) <=>
        \E p \in DOMAIN input, m \in DOMAIN tokens :
             /\ p < Len(input) + 1 \/ (p = Len(input) + 1 /\ m < 1)
             /\ Fits(p, tokens[m]) /\ x = Write(input, p, tokens[m])
  BY TriedIs
<1> QED
  BY <1>1, <1>2, <1>3

LEMMA TriedStart ==
  ASSUME NEW tokens \in Seq(Token), input \in Seq(Bytes)
  PROVE  TriedUpTo(tokens, 1, 1) = {}
<1> SUFFICES ASSUME NEW x, x \in TriedUpTo(tokens, 1, 1)
             PROVE  FALSE
  OBVIOUS
<1>1. PICK p \in DOMAIN input, m \in DOMAIN tokens : p < 1 \/ (p = 1 /\ m < 1)
  BY TriedIs
<1> QED
  BY <1>1

(* A token keeps the length of a file and its bytes are those written.     *)
LEMMA WriteIs ==
  ASSUME NEW buf \in Seq(Bytes), NEW i \in Nat \ {0}, NEW t \in Token, i + Len(t) - 1 <= Len(buf)
  PROVE  /\ Write(buf, i, t) \in Seq(Bytes) /\ Len(Write(buf, i, t)) = Len(buf)
         /\ \A k \in 1..Len(buf) :
              Write(buf, i, t)[k] = IF k \in i..i + Len(t) - 1 THEN t[k - i + 1] ELSE buf[k]
<1>1. /\ Len(t) \in Nat /\ Len(buf) \in Nat /\ DOMAIN buf = 1..Len(buf) /\ DOMAIN t = 1..Len(t)
      /\ \A k \in 1..Len(t) : t[k] \in Bytes
  BY DEF Token
<1>2. \A k \in 1..Len(buf) : (IF k \in i..i + Len(t) - 1 THEN t[k - i + 1] ELSE buf[k]) \in Bytes
  <2> TAKE k \in 1..Len(buf)
  <2>1. CASE k \in i..i + Len(t) - 1
    <3>1. k - i + 1 \in 1..Len(t)
      BY <1>1, <2>1
    <3> QED
      BY <1>1, <2>1, <3>1
  <2>2. CASE k \notin i..i + Len(t) - 1
    BY <2>2
  <2> QED
    BY <2>1, <2>2
<1>3. Write(buf, i, t) = [k \in 1..Len(buf) |-> IF k \in i..i + Len(t) - 1 THEN t[k - i + 1] ELSE buf[k]]
  BY <1>1 DEF Write
<1>4. Write(buf, i, t) \in [1..Len(buf) -> Bytes]
  BY <1>2, <1>3
<1> QED
  BY <1>1, <1>3, <1>4

(* One token at one place.                                                 *)
LEMMA TryKeeps ==
  ASSUME input \in Seq(Bytes), out_buf \in Seq(Bytes), Len(out_buf) = Len(input),
         NEW tokens \in Seq(Token), OrderedBySize(tokens), NEW files,
         OverwriteInv(tokens, files), InLoop(tokens), TryToken(tokens), UNCHANGED <<input, eff_bytes>>
  PROVE  out_buf' \in Seq(Bytes) /\ Len(out_buf') = Len(input) /\ OverwriteInv(tokens, files)'
<1>1. PICK i \in 1..Len(input) : i = stage_cur_byte
  BY DEF InLoop, OverwriteInv
<1>2. PICK j \in 1..Len(tokens) : j = cur_token
  BY DEF TryToken
<1>3. PICK t \in Token : t = tokens[j]
  BY <1>2
<1>4. Len(t) \in Nat /\ Len(input) \in Nat /\ DOMAIN input = 1..Len(input) /\ DOMAIN out_buf = 1..Len(input)
      /\ Len(tokens) \in Nat
  BY <1>3 DEF Token
<1>5. /\ last_len \in Nat /\ i + last_len - 1 <= Len(input)
      /\ \A k \in 1..Len(input) : out_buf[k] = input[k] \/ k \in i..i + last_len - 1
      /\ out_buf = input \/ out_buf \in ran
      /\ Ran(files \cup TriedUpTo(tokens, i, j))
  BY <1>1, <1>2 DEF OverwriteInv
<1>6. last_len <= Len(t)
  <2>1. CASE last_len = 0
    BY <1>4, <2>1
  <2>2. CASE last_len # 0
    <3>1. PICK m \in 1..j - 1 : last_len = Len(tokens[m])
      BY <1>2, <1>5, <2>2 DEF OverwriteInv
    <3>2. m \in DOMAIN tokens /\ j \in DOMAIN tokens /\ m < j
      BY <1>2, <3>1
    <3> QED
      BY <1>3, <3>1, <3>2 DEF OrderedBySize
  <2> QED
    BY <2>1, <2>2
<1>7. /\ cur_token' = j + 1 /\ stage_cur_byte' = i /\ input' = input /\ eff_bytes' = eff_bytes
      /\ IF LeftOut(t) THEN UNCHANGED <<out_buf, ran, last_len>>
         ELSE out_buf' = Write(out_buf, i, t) /\ ran' = ran \cup {out_buf'} /\ last_len' = Len(t)
  BY <1>1, <1>2, <1>3 DEF TryToken
<1>9. TriedUpTo(tokens, i, j + 1) =
        TriedUpTo(tokens, i, j) \cup (IF Fits(i, t) THEN {Write(input, i, t)} ELSE {})
  BY <1>3, TriedNext
<1>10. Room(out_buf, i, t) <=> Room(input, i, t)
  BY DEF Room
<1>11. i + Len(t) - 1 \in Int
  BY <1>4
<1>12. TriedUpTo(tokens, stage_cur_byte, cur_token)' = TriedUpTo(tokens, i, j + 1)
  BY <1>7 DEF TriedUpTo, Fits, Room, HasEffect
<1>13. CASE LeftOut(t)
  <2>1. UNCHANGED <<out_buf, ran, last_len>>
    BY <1>7, <1>13
  <2>2. Fits(i, t) => Write(input, i, t) \in ran \cup {input}
    <3> SUFFICES ASSUME Fits(i, t)
                 PROVE  Write(input, i, t) \in ran \cup {input}
      OBVIOUS
    <3>1. SubSeq(out_buf, i, i + Len(t) - 1) = t /\ i + Len(t) - 1 <= Len(input)
      BY <1>1, <1>10, <1>13 DEF LeftOut, Fits, Room
    <3>2. \A k \in i..i + Len(t) - 1 : out_buf[k] = t[k - i + 1]
      <4> TAKE k \in i..i + Len(t) - 1
      <4>1. k - i + 1 \in 1..i + Len(t) - 1 - i + 1 /\ i + (k - i + 1) - 1 = k
        BY <1>4
      <4>2. \A n \in i..i + Len(t) - 1 : out_buf[n] \in Bytes
        BY <1>4, <3>1
      <4>3. \A n \in 1..i + Len(t) - 1 - i + 1 : SubSeq(out_buf, i, i + Len(t) - 1)[n] = out_buf[i + n - 1]
        BY <1>4, <4>2, SubSeqProperties
      <4> QED
        BY <3>1, <4>1, <4>3
    <3>3. /\ Write(input, i, t) \in Seq(Bytes) /\ Len(Write(input, i, t)) = Len(input)
          /\ \A k \in 1..Len(input) :
               Write(input, i, t)[k] = IF k \in i..i + Len(t) - 1 THEN t[k - i + 1] ELSE input[k]
      <4>1. i \in Nat \ {0} /\ i + Len(t) - 1 <= Len(input)
        BY <3>1
      <4>2. input \in Seq(Bytes)
        OBVIOUS
      <4> QED
        BY <4>1, <4>2, WriteIs
    <3>4. \A k \in 1..Len(input) : Write(input, i, t)[k] = out_buf[k]
      <4> TAKE k \in 1..Len(input)
      <4>1. CASE k \in i..i + Len(t) - 1
        BY <3>2, <3>3, <4>1
      <4>2. CASE k \notin i..i + Len(t) - 1
        <5>1. k \notin i..i + last_len - 1
          BY <1>4, <1>5, <1>6, <4>2
        <5> QED
          BY <1>5, <3>3, <4>2, <5>1
      <4> QED
        BY <4>1, <4>2
    <3>5. Write(input, i, t) = out_buf
      BY <3>3, <3>4, SeqEqual
    <3> QED
      BY <1>5, <3>5
  <2>3. Ran(files \cup TriedUpTo(tokens, i, j + 1))
    BY <1>5, <1>9, <2>2 DEF Ran
  <2>4. (Ran(files \cup TriedUpTo(tokens, stage_cur_byte, cur_token)))'
    BY <1>7, <1>12, <2>1, <2>3 DEF Ran
  <2>5. last_len' > 0 => \E m \in 1..cur_token' - 1 : last_len' = Len(tokens[m])
    <3>1. last_len > 0 => \E m \in 1..j - 1 : last_len = Len(tokens[m])
      BY <1>2 DEF OverwriteInv
    <3> QED
      BY <1>7, <2>1, <3>1
  <2>6. cur_token' \in 1..Len(tokens) + 1 /\ stage_cur_byte' \in 1..Len(input') + 1
    BY <1>7, <1>4
  <2> QED
    BY <1>5, <1>7, <2>1, <2>4, <2>5, <2>6 DEF OverwriteInv
<1>14. CASE ~LeftOut(t)
  <2>1. out_buf' = Write(out_buf, i, t) /\ ran' = ran \cup {out_buf'} /\ last_len' = Len(t)
    BY <1>7, <1>14
  <2>2. Fits(i, t) /\ i + Len(t) - 1 <= Len(input)
    BY <1>1, <1>10, <1>14 DEF LeftOut, Fits, Room
  <2>3. /\ Write(input, i, t) \in Seq(Bytes) /\ Len(Write(input, i, t)) = Len(input)
        /\ \A k \in 1..Len(input) :
             Write(input, i, t)[k] = IF k \in i..i + Len(t) - 1 THEN t[k - i + 1] ELSE input[k]
    BY <2>2, WriteIs
  <2>4. /\ Write(out_buf, i, t) \in Seq(Bytes) /\ Len(Write(out_buf, i, t)) = Len(input)
        /\ \A k \in 1..Len(input) :
             Write(out_buf, i, t)[k] = IF k \in i..i + Len(t) - 1 THEN t[k - i + 1] ELSE out_buf[k]
    BY <2>2, WriteIs
  <2>5. \A k \in 1..Len(input) : Write(input, i, t)[k] = Write(out_buf, i, t)[k]
    <3> TAKE k \in 1..Len(input)
    <3>1. CASE k \in i..i + Len(t) - 1
      BY <2>3, <2>4, <3>1
    <3>2. CASE k \notin i..i + Len(t) - 1
      <4>1. k \notin i..i + last_len - 1
        BY <1>4, <1>5, <1>6, <3>2
      <4> QED
        BY <1>5, <2>3, <2>4, <3>2, <4>1
    <3> QED
      BY <3>1, <3>2
  <2>6. out_buf' = Write(input, i, t)
    BY <2>1, <2>3, <2>4, <2>5, SeqEqual
  <2>7. (Ran(files \cup TriedUpTo(tokens, stage_cur_byte, cur_token)))'
    BY <1>5, <1>7, <1>9, <1>12, <2>1, <2>2, <2>6 DEF Ran
  <2>8. \A k \in 1..Len(input') : out_buf'[k] = input'[k]
           \/ k \in stage_cur_byte'..stage_cur_byte' + last_len' - 1
    BY <1>7, <2>1, <2>3, <2>6
  <2>9. last_len' > 0 => \E m \in 1..cur_token' - 1 : last_len' = Len(tokens[m])
    <3>1. j \in 1..cur_token' - 1
      BY <1>7
    <3> QED
      BY <1>3, <2>1, <3>1
  <2>10. cur_token' \in 1..Len(tokens) + 1 /\ stage_cur_byte' \in 1..Len(input') + 1
    BY <1>7, <1>4
  <2>11. last_len' \in Nat /\ stage_cur_byte' + last_len' - 1 <= Len(input') /\ out_buf' \in ran'
    BY <1>4, <1>7, <2>1, <2>2
  <2> QED
    BY <2>1, <2>4, <2>7, <2>8, <2>9, <2>10, <2>11 DEF OverwriteInv
<1> QED
  BY <1>13, <1>14

(* The bytes are restored.                                                 *)
LEMMA RestoreKeeps ==
  ASSUME input \in Seq(Bytes), out_buf \in Seq(Bytes), Len(out_buf) = Len(input),
         NEW tokens \in Seq(Token), NEW files,
         OverwriteInv(tokens, files), InLoop(tokens), RestoreBytes(tokens), UNCHANGED <<input, eff_bytes>>
  PROVE  out_buf' \in Seq(Bytes) /\ Len(out_buf') = Len(input) /\ OverwriteInv(tokens, files)'
<1>1. PICK i \in 1..Len(input) : i = stage_cur_byte
  BY DEF InLoop, OverwriteInv
<1>2. PICK n \in Nat : n = last_len
  BY DEF OverwriteInv
<1>3. Len(tokens) \in Nat /\ cur_token = Len(tokens) + 1
  BY SMTT(30) DEF RestoreBytes, OverwriteInv
<1>4. PICK t : t = SubSeq(input, i, i + n - 1)
  OBVIOUS
<1>5. /\ out_buf' = Write(out_buf, i, t) /\ stage_cur_byte' = i + 1 /\ cur_token' = 1 /\ last_len' = 0
      /\ ran' = ran /\ input' = input
  BY <1>1, <1>2, <1>4 DEF RestoreBytes
<1>6. /\ i + n - 1 <= Len(input)
      /\ \A k \in 1..Len(input) : out_buf[k] = input[k] \/ k \in i..i + n - 1
      /\ Ran(files \cup TriedUpTo(tokens, i, Len(tokens) + 1))
  BY <1>1, <1>2, <1>3 DEF OverwriteInv
<1>7. /\ t \in Token /\ Len(t) = n
      /\ \A k \in 1..n : t[k] = input[i + k - 1]
  <2>1. \A k \in i..i + n - 1 : input[k] \in Bytes
    BY <1>6
  <2>2. i \in Int /\ i + n - 1 \in Int /\ i + n - 1 - i + 1 = n
    OBVIOUS
  <2>3. /\ t \in Seq(Bytes) /\ Len(t) = IF i <= i + n - 1 THEN i + n - 1 - i + 1 ELSE 0
        /\ \A k \in 1..i + n - 1 - i + 1 : t[k] = input[i + k - 1]
    BY <1>4, <2>1, <2>2, SubSeqProperties
  <2>4. (IF i <= i + n - 1 THEN i + n - 1 - i + 1 ELSE 0) = n
    OBVIOUS
  <2> QED
    BY <2>2, <2>3, <2>4 DEF Token
<1>8. /\ Write(out_buf, i, t) \in Seq(Bytes) /\ Len(Write(out_buf, i, t)) = Len(input)
      /\ \A k \in 1..Len(input) :
           Write(out_buf, i, t)[k] = IF k \in i..i + n - 1 THEN t[k - i + 1] ELSE out_buf[k]
  BY <1>6, <1>7, WriteIs
<1>9. \A k \in 1..Len(input) : Write(out_buf, i, t)[k] = input[k]
  <2> TAKE k \in 1..Len(input)
  <2>1. CASE k \in i..i + n - 1
    <3>1. k - i + 1 \in 1..n /\ i + (k - i + 1) - 1 = k
      BY <2>1
    <3> QED
      BY <1>7, <1>8, <2>1, <3>1
  <2>2. CASE k \notin i..i + n - 1
    BY <1>6, <1>8, <2>2
  <2> QED
    BY <2>1, <2>2
<1>10. out_buf' = input
  BY <1>5, <1>8, <1>9, SeqEqual
<1>11. TriedUpTo(tokens, stage_cur_byte, cur_token)' = TriedUpTo(tokens, i + 1, 1)
  BY <1>5 DEF TriedUpTo, Fits, Room, HasEffect
<1>12. (Ran(files \cup TriedUpTo(tokens, stage_cur_byte, cur_token)))'
  BY <1>5, <1>6, <1>11, TriedRow DEF Ran
<1>13. /\ stage_cur_byte' \in 1..Len(input') + 1 /\ cur_token' \in 1..Len(tokens) + 1
       /\ last_len' \in Nat /\ stage_cur_byte' + last_len' - 1 <= Len(input') /\ ~(last_len' > 0)
  BY <1>3, <1>5
<1> QED
  BY <1>5, <1>10, <1>12, <1>13 DEF OverwriteInv

(* A stage with nothing left to do leaves the file as it was.              *)
LEMMA StageEnds ==
  ASSUME input \in Seq(Bytes), out_buf \in Seq(Bytes), Len(out_buf) = Len(input),
         NEW tokens \in Seq(Token), NEW files,
         OverwriteInv(tokens, files), OverwriteEnds(tokens), UNCHANGED <<input, eff_bytes>>
  PROVE  /\ Untouched' /\ out_buf' \in Seq(Bytes) /\ Len(out_buf') = Len(input')
         /\ ran' \ {input'} = (files \cup AllTried(tokens)) \ {input}
<1>1. /\ stage_cur_byte \in 1..Len(input) + 1 /\ cur_token \in 1..Len(tokens) + 1
      /\ last_len \in Nat /\ stage_cur_byte + last_len - 1 <= Len(input)
      /\ last_len > 0 => \E m \in 1..cur_token - 1 : last_len = Len(tokens[m])
      /\ tokens = <<>> \/ stage_cur_byte > Len(input)
      /\ Ran(files \cup TriedUpTo(tokens, stage_cur_byte, cur_token))
  BY DEF OverwriteInv, OverwriteEnds
<1>2. last_len = 0
  BY <1>1
<1>3. \A k \in 1..Len(input) : out_buf[k] = input[k]
  BY <1>1, <1>2 DEF OverwriteInv
<1>4. out_buf = input
  BY <1>3, SeqEqual
<1>5. PICK i \in 1..Len(input) + 1, j \in Nat : i = stage_cur_byte /\ j = cur_token
  BY <1>1
<1>6. TriedUpTo(tokens, stage_cur_byte, cur_token) = AllTried(tokens)
  BY <1>1, <1>5, TriedEnd
<1>7. /\ stage_cur_byte' = 1 /\ cur_token' = 1 /\ last_len' = 0
      /\ out_buf' = out_buf /\ ran' = ran /\ input' = input
  BY DEF OverwriteEnds, OverwriteStart
<1> QED
  BY <1>1, <1>4, <1>6, <1>7 DEF Untouched, Ran

(* A stage begins with the file as it is.                                  *)
LEMMA StageBegins ==
  ASSUME input' \in Seq(Bytes), Untouched', NEW tokens \in Seq(Token), NEW files, Ran(files)'
  PROVE  OverwriteInv(tokens, files)'
<1>1. Len(input') \in Nat /\ Len(tokens) \in Nat /\ DOMAIN input' = 1..Len(input') /\ DOMAIN tokens = 1..Len(tokens)
  OBVIOUS
<1>2. stage_cur_byte' = 1 /\ cur_token' = 1 /\ last_len' = 0 /\ out_buf' = input'
  BY DEF Untouched
<1>3. \A r \in (DOMAIN input') \X (DOMAIN tokens) : ~(r[1] < 1 \/ (r[1] = 1 /\ r[2] < 1))
  BY <1>1
<1>4. TriedUpTo(tokens, stage_cur_byte, cur_token)' = {}
  BY <1>2, <1>3 DEF TriedUpTo
<1>5. Ran(files \cup TriedUpTo(tokens, stage_cur_byte, cur_token))'
  BY <1>4 DEF Ran
<1> QED
  BY <1>1, <1>2, <1>5 DEF OverwriteInv

(* What the lists give the stages.                                         *)
LEMMA ListsForStages ==
  ASSUME FoundInv
  PROVE  /\ extras \in Seq(Token) /\ AutoTokens \in Seq(Token)
         /\ OrderedBySize(extras) /\ OrderedBySize(AutoTokens) /\ input \in Seq(Bytes)
<1>1. extras \in Seq(UserToken) /\ a_extras \in Seq(AutoExtra)
  BY DEF FoundInv, DictionaryTyped, ListsTyped
<1>2. UserToken \subseteq Token
  BY DEF UserToken, Token
<1>3. extras \in Seq(Token)
  BY <1>1, <1>2, SeqMonotonic
<1>4. Used \in Nat /\ Used <= Len(a_extras) /\ Top(a_extras) = 1..Used
  BY <1>1, UsedIs DEF Used
<1>5. \A i \in 1..Used : a_extras[i].data \in Token
  <2> TAKE i \in 1..Used
  <2>1. a_extras[i] \in AutoExtra
    BY <1>1, <1>4
  <2> QED
    BY <2>1 DEF AutoExtra
<1>6. AutoTokens = [i \in 1..Used |-> a_extras[i].data]
  BY <1>4 DEF AutoTokens
<1>7. AutoTokens \in Seq(Token)
  BY <1>4, <1>5, <1>6
<1> QED
  BY <1>3, <1>7 DEF FoundInv, TokensInv, DictionaryTyped, WalkTyped

(* The sets of files depend on what a stage leaves alone.                  *)
LEMMA FilesStay ==
  ASSUME UNCHANGED <<input, eff_bytes, extras, a_extras>>
  PROVE  UNCHANGED <<UserFiles, WithInsertions, AutoTokens>> /\ AllTried(AutoTokens)' = AllTried(AutoTokens)
<1>1. UNCHANGED AutoTokens
  BY DEF AutoTokens, Top
<1>2. UNCHANGED <<UserFiles, Insertions(input, extras)>>
  BY DEF UserFiles, AllTried, TriedUpTo, Fits, Room, HasEffect, Insertions, Inserted
<1>3. AllTried(AutoTokens)' = AllTried(AutoTokens)
  BY <1>1 DEF AllTried, TriedUpTo, Fits, Room, HasEffect
<1> QED
  BY <1>1, <1>2, <1>3 DEF WithInsertions

LEMMA OverwriteUserKeeps ==
  ASSUME FoundInv, StageInv, OverwriteUser
  PROVE  StageInv'
<1>1. /\ out_buf \in Seq(Bytes) /\ Len(out_buf) = Len(input) /\ input \in Seq(Bytes)
      /\ extras \in Seq(Token) /\ OrderedBySize(extras)
  BY ListsForStages DEF StageInv
<1>2. PICK tokens \in Seq(Token) : tokens = extras
  BY <1>1
<1>3. UNCHANGED <<input, eff_bytes, extras, a_extras>> /\ place = "user_over"
  BY DEF OverwriteUser, InStage, dictionaries, Goto
<1>4. OverwriteInv(tokens, {}) /\ OrderedBySize(tokens)
  BY <1>1, <1>2, <1>3 DEF StageInv
<1>5. CASE place' = "user_over" /\ InLoop(extras) /\ (TryToken(extras) \/ RestoreBytes(extras))
  <2>1. InLoop(tokens) /\ (TryToken(tokens) \/ RestoreBytes(tokens))
    BY <1>2, <1>5
  <2>2. out_buf' \in Seq(Bytes) /\ Len(out_buf') = Len(input) /\ OverwriteInv(tokens, {})'
    BY <1>1, <1>3, <1>4, <2>1, TryKeeps, RestoreKeeps
  <2>3. OverwriteInv(extras, {})'
    BY <1>2, <1>3, <2>2 DEF OverwriteInv, TriedUpTo
  <2> QED
    BY <1>3, <1>5, <2>2, <2>3 DEF StageInv
<1>6. CASE place' = "user_insert" /\ OverwriteEnds(extras)
  <2>1. OverwriteEnds(tokens)
    BY <1>2, <1>6
  <2>2. /\ Untouched' /\ out_buf' \in Seq(Bytes) /\ Len(out_buf') = Len(input')
        /\ ran' \ {input'} = ({} \cup AllTried(tokens)) \ {input}
    BY <1>1, <1>3, <1>4, <2>1, StageEnds
  <2>3. Ran(UserFiles)'
    BY <1>2, <1>3, <2>2, FilesStay DEF Ran, UserFiles
  <2> QED
    BY <1>6, <2>2, <2>3 DEF StageInv
<1> QED
  BY <1>5, <1>6 DEF OverwriteUser, Goto

LEMMA InsertUserKeeps ==
  ASSUME FoundInv, StageInv, InsertUser
  PROVE  StageInv'
<1>1. /\ input \in Seq(Bytes) /\ AutoTokens \in Seq(Token)
      /\ UNCHANGED <<input, eff_bytes, extras, a_extras, out_buf, stage_cur_byte, cur_token, last_len>>
      /\ place = "user_insert" /\ place' = "auto_over" /\ ran' = ran \cup Insertions(out_buf, extras)
  BY ListsForStages DEF InsertUser, InStage, dictionaries, position, Goto
<1>2. Untouched /\ Ran(UserFiles)
  BY <1>1 DEF StageInv
<1>3. ran' \ {input} = WithInsertions \ {input}
  BY <1>1, <1>2 DEF Untouched, Ran, WithInsertions
<1>4. UNCHANGED <<WithInsertions, AutoTokens>>
  BY <1>1, FilesStay
<1>5. (Untouched /\ Ran(WithInsertions) /\ input \in Seq(Bytes) /\ AutoTokens \in Seq(Token))'
  BY <1>1, <1>2, <1>3, <1>4 DEF Untouched, Ran
<1>6. PICK tokens \in Seq(Token) : tokens = AutoTokens
  BY <1>1
<1> PICK files : files = WithInsertions
  OBVIOUS
<1>7. tokens = AutoTokens' /\ files = WithInsertions'
  BY <1>4, <1>6
<1>8. OverwriteInv(tokens, files)'
  BY <1>5, <1>7, StageBegins DEF Ran
<1>9. OverwriteInv(AutoTokens, WithInsertions)'
  BY <1>7, <1>8 DEF OverwriteInv, TriedUpTo, Ran
<1> QED
  BY <1>1, <1>9 DEF StageInv

LEMMA OverwriteAutoKeeps ==
  ASSUME FoundInv, StageInv, OverwriteAuto
  PROVE  StageInv'
<1>1. /\ out_buf \in Seq(Bytes) /\ Len(out_buf) = Len(input) /\ input \in Seq(Bytes)
      /\ AutoTokens \in Seq(Token) /\ OrderedBySize(AutoTokens)
  BY ListsForStages DEF StageInv
<1>2. PICK tokens \in Seq(Token) : tokens = AutoTokens
  BY <1>1
<1> PICK files : files = WithInsertions
  OBVIOUS
<1>3. UNCHANGED <<input, eff_bytes, extras, a_extras>> /\ place = "auto_over"
  BY DEF OverwriteAuto, InStage, dictionaries, Goto
<1>4. OverwriteInv(tokens, files) /\ OrderedBySize(tokens)
  BY <1>1, <1>2, <1>3 DEF StageInv
<1>5. tokens = AutoTokens' /\ files = WithInsertions'
  BY <1>2, <1>3, FilesStay
<1>6. CASE place' = "auto_over" /\ InLoop(AutoTokens) /\ (TryToken(AutoTokens) \/ RestoreBytes(AutoTokens))
  <2>1. InLoop(tokens) /\ (TryToken(tokens) \/ RestoreBytes(tokens))
    BY <1>2, <1>6
  <2>2. out_buf' \in Seq(Bytes) /\ Len(out_buf') = Len(input) /\ OverwriteInv(tokens, files)'
    BY <1>1, <1>3, <1>4, <2>1, TryKeeps, RestoreKeeps
  <2>3. OverwriteInv(AutoTokens, WithInsertions)'
    BY <1>5, <2>2 DEF OverwriteInv, TriedUpTo, Ran
  <2> QED
    BY <1>3, <1>6, <2>2, <2>3 DEF StageInv
<1>7. CASE place' = "marked" /\ OverwriteEnds(AutoTokens)
  <2>1. OverwriteEnds(tokens)
    BY <1>2, <1>7
  <2>2. /\ Untouched' /\ out_buf' \in Seq(Bytes) /\ Len(out_buf') = Len(input')
        /\ ran' \ {input'} = (files \cup AllTried(tokens)) \ {input}
    BY <1>1, <1>3, <1>4, <2>1, StageEnds
  <2>3. Ran(WithInsertions \cup AllTried(AutoTokens))'
    BY <1>2, <1>3, <2>2, FilesStay DEF Ran
  <2> QED
    BY <1>7, <2>2, <2>3 DEF StageInv
<1> QED
  BY <1>6, <1>7 DEF OverwriteAuto, Goto

(* The steps outside the stages.                                           *)
LEMMA OthersKeepStage ==
  ASSUME FoundInv, StageInv,
         \/ WalkingBit \/ FlipByte \/ HandOver \/ AllHandedOver \/ Leave
         \/ EnterMain \/ SaveAuto \/ SaveFile \/ Kill \/ Resume \/ LoadExtras
  PROVE  StageInv'
<1>1. CASE WalkingBit
  <2>1. PICK f \in Inputs : input' = f /\ out_buf' = f
    BY <1>1 DEF WalkingBit
  <2>2. f \in Seq(Bytes)
    BY DictionaryAssumption
  <2> QED
    BY <1>1, <2>1, <2>2 DEF WalkingBit, StageInv, Goto, Untouched, OverwriteStart
<1>2. CASE FlipByte \/ HandOver
  <2>1. /\ UNCHANGED <<input, out_buf, stage_cur_byte, cur_token, last_len, ran>>
        /\ place \in {"flip", "flipped", "offer", "load"} /\ place' \in {"flip", "flipped", "offer", "load"}
        /\ place = "load" <=> place' = "load"
    BY <1>2 DEF FlipByte, HandOver, Goto, position
  <2> QED
    BY <2>1 DEF StageInv, Untouched
<1>3. CASE AllHandedOver
  <2>1. /\ UNCHANGED <<input, out_buf, stage_cur_byte, cur_token, last_len, ran, extras>>
        /\ place \in {"flipped", "offer"} /\ place' = "user_over"
    BY <1>3 DEF AllHandedOver, Goto, position, dictionaries
  <2>2. Untouched' /\ ran' = {} /\ out_buf' = input' /\ input' \in Seq(Bytes)
    BY <2>1, ListsForStages DEF StageInv, Untouched
  <2>3. PICK tokens \in Seq(Token) : tokens = extras'
    BY <2>1, ListsForStages
  <2>4. OverwriteInv(tokens, {})'
    BY <2>2, StageBegins DEF Ran
  <2>5. OverwriteInv(extras, {})'
    BY <2>3, <2>4 DEF OverwriteInv, TriedUpTo, Ran
  <2> QED
    BY <2>1, <2>2, <2>5 DEF StageInv
<1>4. CASE Leave \/ Kill
  <2>1. place' \in {"main", "off"} /\ out_buf' = <<>> /\ input' = <<>>
    BY <1>4 DEF Leave, Kill, NoCall
  <2>2. <<>> \in Seq(Bytes)
    OBVIOUS
  <2> QED
    BY <2>1, <2>2 DEF StageInv
<1>5. CASE EnterMain \/ SaveAuto \/ SaveFile \/ Resume \/ LoadExtras
  <2>1. /\ UNCHANGED <<input, out_buf, eff_bytes, stage_cur_byte, cur_token, last_len, ran>>
        /\ \/ place' = place /\ UNCHANGED <<extras, a_extras>>
           \/ place' \in {"load", "dry_run", "main"}
    BY <1>5 DEF EnterMain, SaveAuto, SaveFile, Resume, LoadExtras, Goto, call, position, dictionaries
  <2>2. CASE place' \in {"load", "dry_run", "main"}
    BY <2>1, <2>2 DEF StageInv
  <2>3. CASE place' = place /\ UNCHANGED <<extras, a_extras>>
    <3>1. UNCHANGED <<UserFiles, WithInsertions, AutoTokens>> /\ AllTried(AutoTokens)' = AllTried(AutoTokens)
      BY <2>1, <2>3, FilesStay
    <3>2. \A tokens, i, j : TriedUpTo(tokens, i, j)' = TriedUpTo(tokens, i, j)
      BY <2>1 DEF TriedUpTo, Fits, Room, HasEffect
    <3> QED
      BY <2>1, <2>3, <3>1, <3>2 DEF StageInv, Untouched, Ran, OverwriteInv
  <2> QED
    BY <2>1, <2>2, <2>3
<1> QED
  BY <1>1, <1>2, <1>3, <1>4, <1>5

(* What every state of the dictionaries satisfies, the stages included.    *)
THEOREM StagesCorrect == DictionarySpec => [](FoundInv /\ StageInv)
<1>1. DictionaryInit => StageInv
  <2>1. <<>> \in Seq(Bytes) /\ Len(<<>>) = 0
    OBVIOUS
  <2> QED
    BY <2>1 DEF DictionaryInit, StageInv
<1>2. FoundInv /\ StageInv /\ [DictionaryNext]_dictionaryVars => StageInv'
  <2> SUFFICES ASSUME FoundInv, StageInv, [DictionaryNext]_dictionaryVars
               PROVE  StageInv'
    OBVIOUS
  <2>1. CASE UNCHANGED dictionaryVars
    <3>1. UNCHANGED <<place, input, out_buf, eff_bytes, stage_cur_byte, cur_token, last_len, ran, extras, a_extras>>
      BY <2>1 DEF dictionaryVars, call, position, dictionaries
    <3>2. UNCHANGED <<UserFiles, WithInsertions, AutoTokens>> /\ AllTried(AutoTokens)' = AllTried(AutoTokens)
      BY <3>1, FilesStay
    <3>3. \A tokens, i, j : TriedUpTo(tokens, i, j)' = TriedUpTo(tokens, i, j)
      BY <3>1 DEF TriedUpTo, Fits, Room, HasEffect
    <3> QED
      BY <3>1, <3>2, <3>3 DEF StageInv, Untouched, Ran, OverwriteInv
  <2>2. CASE DictionaryNext
    BY <2>2, OverwriteUserKeeps, InsertUserKeeps, OverwriteAutoKeeps, OthersKeepStage DEF DictionaryNext
  <2> QED
    BY <2>1, <2>2
<1> QED
  BY <1>1, <1>2, FoundCorrect, PTL DEF DictionarySpec

(* An inserted token makes a file longer.                                  *)
LEMMA InsertedIsLonger ==
  ASSUME NEW buf \in Seq(Bytes), NEW i \in 0..Len(buf), NEW t \in Seq(Bytes)
  PROVE  Len(Inserted(buf, i, t)) = Len(buf) + Len(t)
<1>1. PICK a \in Seq(Bytes) : a = SubSeq(buf, 1, i) /\ Len(a) = i
  <2>1. \A k \in 1..i : buf[k] \in Bytes
    OBVIOUS
  <2>2. /\ SubSeq(buf, 1, i) \in Seq(Bytes)
        /\ Len(SubSeq(buf, 1, i)) = IF 1 <= i THEN i - 1 + 1 ELSE 0
    BY <2>1, SubSeqProperties
  <2>3. (IF 1 <= i THEN i - 1 + 1 ELSE 0) = i
    OBVIOUS
  <2> QED
    BY <2>2, <2>3, Zenon
<1>2. PICK b \in Seq(Bytes) : b = SubSeq(buf, i + 1, Len(buf)) /\ Len(b) = Len(buf) - i
  <2>1. i + 1 \in Int /\ Len(buf) \in Int /\ \A k \in i + 1..Len(buf) : buf[k] \in Bytes
    OBVIOUS
  <2>2. /\ SubSeq(buf, i + 1, Len(buf)) \in Seq(Bytes)
        /\ Len(SubSeq(buf, i + 1, Len(buf))) = IF i + 1 <= Len(buf) THEN Len(buf) - (i + 1) + 1 ELSE 0
    BY <2>1, SubSeqProperties
  <2>3. (IF i + 1 <= Len(buf) THEN Len(buf) - (i + 1) + 1 ELSE 0) = Len(buf) - i
    BY <2>1
  <2> QED
    BY <2>2, <2>3, Zenon
<1>3. Inserted(buf, i, t) = a \o t \o b
  BY <1>1, <1>2 DEF Inserted
<1>4. Len(a \o t \o b) = Len(a) + Len(t) + Len(b)
  OBVIOUS
<1>5. Len(Inserted(buf, i, t)) = Len(a) + Len(t) + Len(b)
  BY <1>3, <1>4, Zenon
<1>6. Len(a) = i /\ Len(b) = Len(buf) - i
  BY <1>1, <1>2, Zenon
<1> QED
  BY <1>5, <1>6

LEMMA InsertionsAreLonger ==
  ASSUME NEW buf \in Seq(Bytes), NEW tokens \in Seq(UserToken)
  PROVE  buf \notin Insertions(buf, tokens)
<1> SUFFICES ASSUME buf \in Insertions(buf, tokens)
             PROVE  FALSE
  OBVIOUS
<1>1. PICK i \in 0..Len(buf), t \in Range(tokens) : buf = Inserted(buf, i, t)
  BY DEF Insertions
<1>2. t \in UserToken
  BY <1>1 DEF Range
<1>3. t \in Seq(Bytes) /\ Len(t) \in Nat /\ Len(t) # 0
  BY <1>2 DEF UserToken
<1> QED
  BY <1>1, <1>3, InsertedIsLonger

(* When an entry is about to be marked as done, every token was tried      *)
(* alone at every place, and nothing else was run.                         *)
THEOREM EveryTokenAlwaysTried == DictionarySpec => []EveryTokenIsTried
<1>1. FoundInv /\ StageInv => EveryTokenIsTried
  <2> SUFFICES ASSUME FoundInv, StageInv, place = "marked"
               PROVE  EveryTokenIsTried
    BY DEF EveryTokenIsTried
  <2> DEFINE tokens == Range(extras) \cup Range(AutoTokens)
             places == {p \in (DOMAIN input) \X tokens : Room(input, p[1], p[2]) /\ HasEffect(p[1], p[2])}
             written == {Write(input, p[1], p[2]) : p \in places}
             inserted == Insertions(input, extras)
  <2>1. out_buf = input /\ ran \ {input} = (UserFiles \cup inserted \cup AllTried(AutoTokens)) \ {input}
    BY DEF StageInv, Untouched, Ran, WithInsertions
  <2>2. input \notin inserted
    BY InsertionsAreLonger DEF FoundInv, DictionaryTyped, ListsTyped, WalkTyped
  <2>3. \A x : x \in AllTried(extras) \cup AllTried(AutoTokens) <=> x \in written
    <3>1. extras \in Seq(Token) /\ AutoTokens \in Seq(Token) /\ input \in Seq(Bytes)
      BY ListsForStages
    <3>2. \A list \in {extras, AutoTokens} : \A x :
            x \in AllTried(list) <=> \E p \in DOMAIN input, m \in DOMAIN list :
                                       Fits(p, list[m]) /\ x = Write(input, p, list[m])
      <4> TAKE list \in {extras, AutoTokens}
      <4> TAKE x
      <4>1. \A p \in DOMAIN input, m \in DOMAIN list :
              p < Len(input) + 1 \/ (p = Len(input) + 1 /\ m < 1)
        BY <3>1
      <4>2. x \in TriedUpTo(list, Len(input) + 1, 1) <=>
              \E p \in DOMAIN input, m \in DOMAIN list :
                /\ p < Len(input) + 1 \/ (p = Len(input) + 1 /\ m < 1)
                /\ Fits(p, list[m]) /\ x = Write(input, p, list[m])
        BY TriedIs
      <4> QED
        BY <4>1, <4>2 DEF AllTried
    <3>3. \A list \in {extras, AutoTokens} : Range(list) = {list[m] : m \in DOMAIN list}
      BY DEF Range
    <3>4. \A x : x \in written <=> \E p \in DOMAIN input, t \in tokens : Fits(p, t) /\ x = Write(input, p, t)
      <4> TAKE x
      <4>1. ASSUME NEW p \in DOMAIN input, NEW t \in tokens, Fits(p, t), x = Write(input, p, t)
            PROVE  x \in written
        <5>1. <<p, t>> \in places /\ x = Write(input, <<p, t>>[1], <<p, t>>[2])
          BY <4>1 DEF Fits
        <5> QED
          BY <5>1
      <4>2. ASSUME x \in written
            PROVE  \E p \in DOMAIN input, t \in tokens : Fits(p, t) /\ x = Write(input, p, t)
        <5>1. PICK q \in places : x = Write(input, q[1], q[2])
          BY <4>2
        <5>2. q[1] \in DOMAIN input /\ q[2] \in tokens /\ Fits(q[1], q[2])
          BY <5>1 DEF Fits
        <5> QED
          BY <5>1, <5>2
      <4> QED
        BY <4>1, <4>2
    <3> HIDE DEF written, places
    <3> TAKE x
    <3> QED
      BY <3>2, <3>3, <3>4
  <2> HIDE DEF written, inserted
  <2>4. ran \ {input} = (written \ {input}) \cup inserted
    BY <2>1, <2>2, <2>3 DEF UserFiles
  <2> QED
    BY <2>1, <2>4 DEF EveryTokenIsTried, written, inserted
<1> QED
  BY <1>1, StagesCorrect, PTL

-----------------------------------------------------------------------------
(* The walking bit.                                                        *)

(* A longest run of one checksum that is not the entry's, in a list of     *)
(* checksums of a file of n bytes.                                         *)
RunIn(c, n, i, j) ==
  /\ c[i] # EXEC_CKSUM /\ \A m \in i..j : c[m] = c[i]
  /\ i > 1 => c[i - 1] # c[i]
  /\ j < n => c[j + 1] # c[i]

(* Those of an allowed length that end at byte e or before.                *)
RunsTo(c, buf, e) ==
  {r \in (DOMAIN buf) \X (DOMAIN buf) :
     r[1] <= r[2] /\ r[2] <= e /\ RunIn(c, Len(buf), r[1], r[2]) /\ Usable(SubSeq(buf, r[1], r[2]))}

(* A list is the bytes of the runs, in the order of the file.              *)
Listed(list, buf, runs) ==
  \E order \in SetToSeqs(runs) :
    /\ \A m, n \in DOMAIN order : m < n => order[m][1] < order[n][1]
    /\ list = [n \in DOMAIN order |-> SubSeq(buf, order[n][1], order[n][2])]

(* While the bit walks: the bytes from s on have the checksum of the last, *)
(* they are what is collected unless they are the entry's own or too many, *)
(* and the runs before them are put out.                                   *)
Pending(s) ==
  /\ \A m \in s..Len(cksums) : cksums[m] = walk.prev_cksum
  /\ s > 1 => s <= Len(cksums) /\ cksums[s - 1] # walk.prev_cksum
  /\ IF walk.prev_cksum = EXEC_CKSUM THEN walk.a_len = 0
     ELSE /\ s <= Len(cksums) /\ walk.a_len = Len(cksums) + 1 - s
          /\ walk.a_len <= MAX_AUTO_EXTRA => walk.a_collect = SubSeq(input, s, Len(cksums))
  /\ Listed(found, input, RunsTo(cksums, input, s - 1))

RunsInv ==
  /\ place = "flip" => \E s \in 1..Len(cksums) + 1 : Pending(s)
  /\ place = "flipped" =>
       Len(cksums) = Len(input) /\ Listed(found, input, RunsTo(cksums, input, Len(input)))

LEMMA ListedNone == ASSUME NEW buf PROVE Listed(<<>>, buf, {})
<1>1. Cardinality({}) = 0
  BY FS_EmptySet
<1>2. 1..0 = {} /\ DOMAIN <<>> = {}
  OBVIOUS
<1>3. <<>> \in SetToSeqs({})
  <2>1. <<>> \in [1..0 -> {}]
    BY <1>2
  <2> QED
    BY <1>1, <1>2, <2>1 DEF SetToSeqs
<1>4. <<>> = [n \in DOMAIN <<>> |-> SubSeq(buf, <<>>[n][1], <<>>[n][2])]
  BY <1>2
<1> QED
  BY <1>2, <1>3, <1>4 DEF Listed

LEMMA SeqIsFunction ==
  ASSUME NEW S, NEW a \in Seq(S), NEW n, Len(a) = n
  PROVE  a = [k \in 1..n |-> a[k]]
<1>1. DOMAIN a = 1..n /\ a = [k \in DOMAIN a |-> a[k]]
  OBVIOUS
<1> QED
  BY <1>1, Zenon

LEMMA AppendIs ==
  ASSUME NEW n \in Nat, NEW T, NEW l \in [1..n -> T], NEW x
  PROVE  Append(l, x) = [k \in 1..n + 1 |-> IF k <= n THEN l[k] ELSE x]
<1> DEFINE S == T \cup {x}
<1>2. l \in [1..n -> S]
  OBVIOUS
<1>3. x \in S
  OBVIOUS
<1> HIDE DEF S
<1>4. l \in Seq(S) /\ Len(l) = n
  BY <1>2
<1>5. Append(l, x) \in Seq(S) /\ Len(Append(l, x)) = n + 1
  BY <1>3, <1>4
<1>6. Append(l, x) = [k \in 1..n + 1 |-> Append(l, x)[k]]
  BY <1>5, SeqIsFunction, Zenon
<1>7. \A k \in 1..n + 1 : Append(l, x)[k] = IF k <= n THEN l[k] ELSE x
  BY <1>3, <1>4
<1> QED
  BY <1>6, <1>7

(* One more run behind the others is one more token.                       *)
LEMMA ListedNext ==
  ASSUME NEW list, NEW buf, NEW runs \in SUBSET (Nat \X Nat), Listed(list, buf, runs), IsFiniteSet(runs),
         NEW i \in Nat, NEW j \in Nat, \A r \in runs : r[1] < i
  PROVE  Listed(Append(list, SubSeq(buf, i, j)), buf, runs \cup {<<i, j>>})
<1> DEFINE n == Cardinality(runs)
           all == runs \cup {<<i, j>>}
<1>1. <<i, j>> \notin runs /\ n \in Nat
  BY FS_CardinalityType
<1>2. Cardinality(all) = n + 1
  BY <1>1, FS_AddElement
<1>3. PICK order \in SetToSeqs(runs) :
        /\ \A k, m \in DOMAIN order : k < m => order[k][1] < order[m][1]
        /\ list = [k \in DOMAIN order |-> SubSeq(buf, order[k][1], order[k][2])]
  BY DEF Listed
<1>4. order \in [1..n -> runs] /\ \A k, m \in 1..n : k # m => order[k] # order[m]
  BY <1>3 DEF SetToSeqs
<1> HIDE DEF n
<1> PICK longer : longer = [k \in 1..n + 1 |-> IF k <= n THEN order[k] ELSE <<i, j>>]
  OBVIOUS
<1>5. \A k \in 1..n + 1 : k \in 1..n \/ k = n + 1
  BY <1>1
<1>6. /\ DOMAIN longer = 1..n + 1 /\ longer[n + 1] = <<i, j>>
      /\ \A k \in 1..n : longer[k] = order[k] /\ k \in 1..n + 1
  BY <1>1
<1>7. \A k \in 1..n : longer[k] \in runs /\ longer[k][1] \in Nat /\ longer[k][1] < i
  BY <1>4, <1>6
<1>8. longer \in [1..n + 1 -> all]
  BY <1>5, <1>6, <1>7
<1>9. \A k, m \in 1..n + 1 : k < m => longer[k][1] < longer[m][1]
  <2> TAKE k, m \in 1..n + 1
  <2>1. CASE k \in 1..n /\ m \in 1..n
    BY <1>3, <1>4, <1>6, <2>1
  <2>2. CASE k \in 1..n /\ m = n + 1
    <3>1. longer[k][1] < i
      BY <1>7, <2>2
    <3>2. longer[m] = <<i, j>>
      BY <1>6, <2>2
    <3>3. <<i, j>>[1] = i
      OBVIOUS
    <3> QED
      BY <3>1, <3>2, <3>3
  <2>3. CASE k = n + 1
    BY <1>1, <2>3
  <2> QED
    BY <1>5, <2>1, <2>2, <2>3
<1>10. \A k, m \in 1..n + 1 : k # m => longer[k] # longer[m]
  <2> TAKE k, m \in 1..n + 1
  <2>1. \A l \in 1..n + 1 : longer[l][1] \in Nat
    <3>1. <<i, j>>[1] \in Nat
      OBVIOUS
    <3>2. longer[n + 1][1] \in Nat
      BY <1>6, <3>1
    <3> QED
      BY <1>5, <1>7, <3>2
  <2>2. k # m => k < m \/ m < k
    BY <1>1
  <2> QED
    BY <1>9, <2>1, <2>2
<1>11. longer \in SetToSeqs(all)
  BY <1>2, <1>8, <1>10 DEF SetToSeqs
<1>12. Append(list, SubSeq(buf, i, j)) = [k \in DOMAIN longer |-> SubSeq(buf, longer[k][1], longer[k][2])]
  <2> PICK x : x = SubSeq(buf, i, j)
    OBVIOUS
  <2> PICK l : l = [k \in 1..n + 1 |-> SubSeq(buf, longer[k][1], longer[k][2])]
    OBVIOUS
  <2>1. DOMAIN l = 1..n + 1 /\ l = [k \in 1..n + 1 |-> l[k]]
    OBVIOUS
  <2>2. list = [k \in 1..n |-> list[k]] /\ \A k \in 1..n : list[k] = SubSeq(buf, order[k][1], order[k][2])
    BY <1>3, <1>4
  <2>3. \A k \in 1..n : l[k] = list[k]
    BY <1>6, <2>2
  <2>4. l[n + 1] = x
    <3>1. n + 1 \in 1..n + 1 /\ <<i, j>>[1] = i /\ <<i, j>>[2] = j
      BY <1>1
    <3>2. l[n + 1] = SubSeq(buf, longer[n + 1][1], longer[n + 1][2])
      BY <3>1
    <3> QED
      BY <1>6, <3>1, <3>2
  <2>5. Append(list, x) = [k \in 1..n + 1 |-> IF k <= n THEN list[k] ELSE x]
    <3>1. \A k \in 1..n : list[k] \in {list[m] : m \in 1..n}
      OBVIOUS
    <3>2. n \in Nat /\ list \in [1..n -> {list[m] : m \in 1..n}]
      BY <1>1, <2>2, <3>1
    <3> QED
      BY <3>2, AppendIs
  <2>6. \A k \in 1..n + 1 : (IF k <= n THEN list[k] ELSE x) = l[k]
    <3> TAKE k \in 1..n + 1
    <3>1. CASE k \in 1..n
      BY <2>3, <3>1
    <3>2. CASE k = n + 1
      BY <1>1, <2>4, <3>2
    <3> QED
      BY <1>5, <3>1, <3>2
  <2>7. [k \in 1..n + 1 |-> IF k <= n THEN list[k] ELSE x] = [k \in 1..n + 1 |-> l[k]]
    BY <2>6
  <2>8. Append(list, x) = l
    BY <2>1, <2>5, <2>7, Zenon
  <2> QED
    BY <1>6, <2>8
<1> QED
  BY <1>6, <1>9, <1>11, <1>12 DEF Listed

LEMMA RunsFinite ==
  ASSUME NEW c, NEW buf \in Seq(Bytes), NEW e
  PROVE  RunsTo(c, buf, e) \in SUBSET (Nat \X Nat) /\ IsFiniteSet(RunsTo(c, buf, e))
<1>1. DOMAIN buf = 1..Len(buf) /\ Len(buf) \in Nat
  OBVIOUS
<1>2. IsFiniteSet(1..Len(buf))
  BY <1>1, FS_Interval
<1>3. IsFiniteSet((1..Len(buf)) \X (1..Len(buf)))
  BY <1>2, FS_Product
<1>4. RunsTo(c, buf, e) \subseteq (1..Len(buf)) \X (1..Len(buf))
  BY <1>1 DEF RunsTo
<1>5. (1..Len(buf)) \X (1..Len(buf)) \subseteq Nat \X Nat
  OBVIOUS
<1> QED
  BY <1>3, <1>4, <1>5, FS_Subset

(* A run has ended when the byte after it is known.                        *)
LEMMA RunsStay ==
  ASSUME NEW c \in Seq(0..2), NEW x \in 0..2, NEW buf \in Seq(Bytes), NEW e \in Nat,
         e < Len(c) \/ e = 0
  PROVE  RunsTo(Append(c, x), buf, e) = RunsTo(c, buf, e)
<1> DEFINE d == Append(c, x)
<1>1. Len(c) \in Nat /\ \A m \in 1..Len(c) : d[m] = c[m]
  OBVIOUS
<1> HIDE DEF d
<1>2. \A r \in (DOMAIN buf) \X (DOMAIN buf) : r[1] <= r[2] /\ r[2] <= e
        => (RunIn(d, Len(buf), r[1], r[2]) <=> RunIn(c, Len(buf), r[1], r[2]))
  <2> SUFFICES ASSUME NEW i \in DOMAIN buf, NEW j \in DOMAIN buf, i <= j, j <= e
               PROVE  RunIn(d, Len(buf), i, j) <=> RunIn(c, Len(buf), i, j)
    OBVIOUS
  <2>1. i \in 1..Len(c) /\ j \in 1..Len(c) /\ j + 1 \in 1..Len(c) /\ i \in Nat /\ (i > 1 => i - 1 \in 1..Len(c))
    BY <1>1
  <2>2. d[i] = c[i] /\ d[j + 1] = c[j + 1] /\ (i > 1 => d[i - 1] = c[i - 1])
    BY <1>1, <2>1
  <2>3. \A m \in i..j : d[m] = c[m]
    BY <1>1, <2>1
  <2> QED
    BY <2>2, <2>3 DEF RunIn
<1>3. RunsTo(d, buf, e) = RunsTo(c, buf, e)
  BY <1>2 DEF RunsTo
<1> QED
  BY <1>3 DEF d

(* The run of bytes s..e with checksum v, if it counts.                    *)
RunOf(v, buf, s, e) == {r \in {<<s, e>>} : v # EXEC_CKSUM /\ Usable(SubSeq(buf, s, e))}

(* Bytes of one checksum behind another one and before another one: at     *)
(* most they are a run.                                                    *)
LEMMA RunsGrow ==
  ASSUME NEW c, NEW buf \in Seq(Bytes), NEW s \in Nat, NEW e \in Nat, NEW v,
         1 <= s, s <= e, e <= Len(buf), \A m \in s..e : c[m] = v,
         s > 1 => c[s - 1] # v, e < Len(buf) => c[e + 1] # v
  PROVE  \A r : r \in RunsTo(c, buf, e) <=> r \in RunsTo(c, buf, s - 1) \/ r \in RunOf(v, buf, s, e)
<1>1. DOMAIN buf = 1..Len(buf) /\ Len(buf) \in Nat
  OBVIOUS
<1>2. RunIn(c, Len(buf), s, e) <=> v # EXEC_CKSUM
  <2>1. c[s] = v
    OBVIOUS
  <2> QED
    BY <2>1 DEF RunIn
<1>3. ASSUME NEW i \in 1..Len(buf), NEW j \in 1..Len(buf), i <= j, j <= e, ~(j <= s - 1), RunIn(c, Len(buf), i, j)
      PROVE  i = s /\ j = e
  <2>1. c[j] = v /\ c[i] = v
    BY <1>3 DEF RunIn
  <2>2. j = e
    <3>1. CASE j < e
      <4>1. c[j + 1] = v /\ j < Len(buf)
        BY <1>3, <3>1
      <4> QED
        BY <1>3, <2>1, <4>1 DEF RunIn
    <3> QED
      BY <1>3, <3>1
  <2>3. i = s
    <3>1. CASE i > s
      <4>1. c[i - 1] = v /\ i > 1
        BY <1>3, <3>1
      <4> QED
        BY <1>3, <2>1, <4>1 DEF RunIn
    <3>2. CASE i < s
      <4>1. s - 1 \in i..j /\ s > 1
        BY <1>3, <3>2
      <4>2. c[s - 1] = c[i]
        BY <1>3, <4>1 DEF RunIn
      <4> QED
        BY <2>1, <4>1, <4>2
    <3> QED
      BY <3>1, <3>2
  <2> QED
    BY <2>2, <2>3
<1>4. \A i, j \in 1..Len(buf) :
        <<i, j>> \in RunsTo(c, buf, e)
          <=> <<i, j>> \in RunsTo(c, buf, s - 1)
                \/ (i = s /\ j = e /\ v # EXEC_CKSUM /\ Usable(SubSeq(buf, s, e)))
  <2> TAKE i, j \in 1..Len(buf)
  <2>1. \A f \in Int : <<i, j>> \in RunsTo(c, buf, f)
          <=> i <= j /\ j <= f /\ RunIn(c, Len(buf), i, j) /\ Usable(SubSeq(buf, i, j))
    BY <1>1 DEF RunsTo
  <2>2. s - 1 \in Int /\ e \in Int /\ (j <= s - 1 => j <= e)
    OBVIOUS
  <2>3. i = s /\ j = e => i <= j /\ j <= e
    OBVIOUS
  <2> QED
    BY <1>2, <1>3, <2>1, <2>2, <2>3
<1>5. \A f : RunsTo(c, buf, f) \subseteq (1..Len(buf)) \X (1..Len(buf))
  BY <1>1 DEF RunsTo
<1>6. <<s, e>> \in (1..Len(buf)) \X (1..Len(buf))
  BY <1>1
<1>7. \A i, j \in 1..Len(buf) :
        <<i, j>> \in RunOf(v, buf, s, e) <=> i = s /\ j = e /\ v # EXEC_CKSUM /\ Usable(SubSeq(buf, s, e))
  BY DEF RunOf
<1>8. RunOf(v, buf, s, e) \subseteq (1..Len(buf)) \X (1..Len(buf))
  BY <1>6 DEF RunOf
<1> QED
  BY <1>4, <1>5, <1>7, <1>8

LEMMA SubSeqIs ==
  ASSUME NEW buf \in Seq(Bytes), NEW s \in Nat, NEW e \in Nat, 1 <= s, s <= e + 1, e <= Len(buf)
  PROVE  /\ SubSeq(buf, s, e) \in Seq(Bytes) /\ Len(SubSeq(buf, s, e)) = e + 1 - s
         /\ \A m \in 1..e + 1 - s : SubSeq(buf, s, e)[m] = buf[s + m - 1]
<1>1. \A m \in s..e : buf[m] \in Bytes
  OBVIOUS
<1>2. s \in Int /\ e \in Int /\ e + 1 - s = e - s + 1 /\ (IF s <= e THEN e - s + 1 ELSE 0) = e - s + 1
  OBVIOUS
<1>3. /\ SubSeq(buf, s, e) \in Seq(Bytes)
      /\ Len(SubSeq(buf, s, e)) = IF s <= e THEN e - s + 1 ELSE 0
      /\ \A m \in 1..e - s + 1 : SubSeq(buf, s, e)[m] = buf[s + m - 1]
  BY <1>1, <1>2, SubSeqProperties
<1> QED
  BY <1>2, <1>3, Zenon

LEMMA OneMoreByte ==
  ASSUME NEW buf \in Seq(Bytes), NEW s \in Nat, NEW k \in Nat, 1 <= s, s <= k + 1, k + 1 <= Len(buf)
  PROVE  Append(SubSeq(buf, s, k), buf[k + 1]) = SubSeq(buf, s, k + 1)
<1>0. k <= Len(buf) /\ k + 1 \in Nat /\ s <= k + 1 + 1
  OBVIOUS
<1>1. PICK a \in Seq(Bytes) : a = SubSeq(buf, s, k)
  BY <1>0, SubSeqIs, Zenon
<1>2. Len(a) = k + 1 - s /\ \A m \in 1..k + 1 - s : a[m] = buf[s + m - 1]
  BY <1>1, SubSeqIs
<1>3. PICK b \in Seq(Bytes) : b = SubSeq(buf, s, k + 1)
  BY <1>0, SubSeqIs, Zenon
<1>4. Len(b) = k + 2 - s /\ \A m \in 1..k + 2 - s : b[m] = buf[s + m - 1]
  <2>1. k + 1 \in Nat /\ s <= k + 1 + 1 /\ k + 1 + 1 - s = k + 2 - s
    OBVIOUS
  <2> QED
    BY <1>3, <2>1, SubSeqIs
<1>5. buf[k + 1] \in Bytes
  OBVIOUS
<1> HIDE <1>1, <1>3
<1>6. PICK byte \in Bytes : byte = buf[k + 1]
  BY <1>5
<1>7. /\ Append(a, byte) \in Seq(Bytes) /\ Len(Append(a, byte)) = Len(a) + 1
      /\ \A m \in 1..Len(a) : Append(a, byte)[m] = a[m]
      /\ Append(a, byte)[Len(a) + 1] = byte
  BY AppendProperties
<1> PICK c \in Seq(Bytes) : c = Append(a, byte)
  BY <1>7, Zenon
<1>8. Len(c) = k + 2 - s /\ \A m \in 1..k + 2 - s : c[m] = IF m <= k + 1 - s THEN a[m] ELSE byte
  <2>1. /\ Len(c) = Len(a) + 1
        /\ \A m \in 1..Len(a) : c[m] = a[m]
        /\ c[Len(a) + 1] = byte
    BY <1>7, Zenon
  <2>2. \A m \in 1..k + 2 - s : IF m <= k + 1 - s THEN m \in 1..Len(a) ELSE m = Len(a) + 1
    BY <1>2
  <2>3. Len(a) + 1 = k + 2 - s
    BY <1>2
  <2> HIDE DEF Bytes
  <2> QED
    BY <2>1, <2>2, <2>3, Zenon
<1>9. \A m \in 1..k + 2 - s : c[m] = b[m]
  <2> TAKE m \in 1..k + 2 - s
  <2>1. CASE m <= k + 1 - s
    BY <1>2, <1>4, <1>8, <2>1
  <2>2. CASE ~(m <= k + 1 - s)
    <3>1. s + m - 1 = k + 1
      BY <2>2
    <3> QED
      BY <1>4, <1>6, <1>8, <2>2, <3>1
  <2> QED
    BY <2>1, <2>2
<1>10. c = b
  BY <1>4, <1>8, <1>9, SeqEqual
<1> QED
  BY <1>1, <1>3, <1>6, <1>10, Zenon

(* What is put out where a run ends.                                       *)
LEMMA PutOut ==
  ASSUME NEW c, NEW buf \in Seq(Bytes), NEW s \in Nat, NEW e \in Nat, NEW v,
         1 <= s, s <= e, e <= Len(buf), \A m \in s..e : c[m] = v,
         s > 1 => c[s - 1] # v, e < Len(buf) => c[e + 1] # v,
         NEW w, w.a_len \in Nat,
         v = EXEC_CKSUM => w.a_len <= 1,
         v # EXEC_CKSUM => w.a_len = e + 1 - s /\ (w.a_len <= MAX_AUTO_EXTRA => w.a_collect = SubSeq(buf, s, e)),
         Listed(found, buf, RunsTo(c, buf, s - 1))
  PROVE  Listed(Output(w), buf, RunsTo(c, buf, e))
<1>1. RunsTo(c, buf, e) = RunsTo(c, buf, s - 1) \cup RunOf(v, buf, s, e)
  <2>1. \A r : r \in RunsTo(c, buf, e) <=> r \in RunsTo(c, buf, s - 1) \/ r \in RunOf(v, buf, s, e)
    BY RunsGrow
  <2> QED
    BY <2>1
<1>2. Len(SubSeq(buf, s, e)) = e + 1 - s
  BY SubSeqIs
<1>3. Usable(SubSeq(buf, s, e)) <=> e + 1 - s \in MIN_AUTO_EXTRA..MAX_AUTO_EXTRA
  BY <1>2, Zenon DEF Usable
<1>4. CASE v # EXEC_CKSUM /\ Usable(SubSeq(buf, s, e))
  <2>1. w.a_len \in MIN_AUTO_EXTRA..MAX_AUTO_EXTRA /\ w.a_len <= MAX_AUTO_EXTRA
    BY <1>3, <1>4, Numbers
  <2>2. Output(w) = Append(found, SubSeq(buf, s, e))
    BY <1>4, <2>1, Zenon DEF Output
  <2>3. \A r \in RunsTo(c, buf, s - 1) : r[1] < s
    BY DEF RunsTo
  <2>4. Listed(Append(found, SubSeq(buf, s, e)), buf, RunsTo(c, buf, s - 1) \cup {<<s, e>>})
    BY <2>3, RunsFinite, ListedNext
  <2> QED
    BY <1>1, <1>4, <2>2, <2>4 DEF RunOf
<1>5. CASE ~(v # EXEC_CKSUM /\ Usable(SubSeq(buf, s, e)))
  <2>1. w.a_len \notin MIN_AUTO_EXTRA..MAX_AUTO_EXTRA
    BY <1>3, <1>5, Numbers
  <2>2. Output(w) = found
    BY <2>1 DEF Output
  <2> QED
    BY <1>1, <1>5, <2>2 DEF RunOf
<1> QED
  BY <1>4, <1>5

LEMMA FlipByteFinds ==
  ASSUME FoundInv, RunsInv, FlipByte
  PROVE  RunsInv'
<1> PICK buf : buf = input
  OBVIOUS
<1> PICK c : c = cksums
  OBVIOUS
<1> PICK v : v = walk.prev_cksum
  OBVIOUS
<1>1. /\ buf \in Seq(Bytes) /\ c \in Seq(0..2) /\ walk \in Walk /\ Len(c) < Len(buf) /\ place = "flip"
  BY DEF FlipByte, Goto, FoundInv, DictionaryTyped, WalkTyped
<1> PICK k \in Nat, n \in Nat : k = Len(c) /\ n = Len(buf)
  BY <1>1
<1> PICK byte : byte = buf[k + 1]
  OBVIOUS
<1>2. PICK x \in 0..2 :
        /\ cksums' = Append(c, x) /\ found' = Found(x, byte)
        /\ walk' = IF k + 1 = n THEN Restart(EXEC_CKSUM) ELSE Collected(x, byte)
  BY DEF FlipByte, LastByte
<1>3. input' = buf /\ place' = (IF k + 1 = n THEN "flipped" ELSE "flip")
  BY DEF FlipByte, Goto, LastByte
<1>4. PICK d \in Seq(0..2) : d = Append(c, x)
  <2>1. Append(c, x) \in Seq(0..2)
    BY <1>1
  <2> QED
    BY <2>1, Zenon
<1>5. Len(d) = k + 1 /\ d[k + 1] = x /\ \A m \in 1..k : d[m] = c[m]
  BY <1>1, <1>4
<1>6. PICK s \in 1..k + 1 : Pending(s)
  BY <1>1 DEF RunsInv
<1>7. /\ \A m \in s..k : c[m] = v
      /\ s > 1 => s <= k /\ c[s - 1] # v
      /\ v = EXEC_CKSUM => walk.a_len = 0
      /\ v # EXEC_CKSUM => /\ s <= k /\ walk.a_len = k + 1 - s
                           /\ walk.a_len <= MAX_AUTO_EXTRA => walk.a_collect = SubSeq(buf, s, k)
      /\ Listed(found, buf, RunsTo(c, buf, s - 1))
  BY <1>6 DEF Pending
<1>8. s <= k \/ (k = 0 /\ s = 1 /\ v = EXEC_CKSUM)
  BY <1>7
<1>9. /\ \A m \in s..k : d[m] = v
      /\ s > 1 => d[s - 1] # v
  BY <1>5, <1>7
<1>10. Listed(found, buf, RunsTo(d, buf, s - 1))
  <2>1. s - 1 \in Nat /\ (s - 1 < Len(c) \/ s - 1 = 0)
    BY <1>8
  <2> QED
    BY <1>1, <1>4, <1>7, <2>1, RunsStay
<1>11. walk.a_len \in Nat /\ k < n
  BY <1>1 DEF Walk
<1>12. ASSUME x # v
       PROVE  Listed(Output(walk), buf, RunsTo(d, buf, k))
  <2>1. CASE s <= k
    <3>1. k <= Len(buf) /\ d[k + 1] # v /\ (v = EXEC_CKSUM => walk.a_len <= 1) /\ 1 <= s /\ s \in Nat
      BY <1>5, <1>7, <1>11, <1>12
    <3>2. /\ walk.a_len \in Nat
          /\ v # EXEC_CKSUM => /\ walk.a_len = k + 1 - s
                               /\ walk.a_len <= MAX_AUTO_EXTRA => walk.a_collect = SubSeq(buf, s, k)
      BY <1>7, <1>11
    <3> QED
      BY <1>1, <1>9, <1>10, <2>1, <3>1, <3>2, PutOut
  <2>2. CASE ~(s <= k)
    <3>1. Output(walk) = found /\ s - 1 = k
      BY <1>7, <1>8, <2>2, Numbers DEF Output
    <3> QED
      BY <1>10, <3>1
  <2> QED
    BY <2>1, <2>2
<1>13. x # v => (k > 0 => d[k] # x)
  BY <1>8, <1>9
<1>14. CASE k + 1 = n /\ x = v
  <2>1. found' = Output(Grab(walk, byte))
    <3>1. LastByte /\ ~(x # walk.prev_cksum)
      BY <1>14 DEF LastByte
    <3> QED
      BY <1>2, <3>1, Zenon DEF Found
  <2>2. Grab(walk, byte).a_len = walk.a_len + 1
    BY <1>1 DEF Grab, Walk
  <2>3. ASSUME v # EXEC_CKSUM, walk.a_len + 1 <= MAX_AUTO_EXTRA
        PROVE  Grab(walk, byte).a_collect = SubSeq(buf, s, n)
    <3>1. walk.a_len < MAX_AUTO_EXTRA /\ walk.a_len <= MAX_AUTO_EXTRA
      BY <1>11, <2>3, Numbers
    <3>2. Grab(walk, byte).a_collect = Append(walk.a_collect, byte)
      BY <1>1, <3>1 DEF Grab, Walk
    <3>3. Append(SubSeq(buf, s, k), buf[k + 1]) = SubSeq(buf, s, k + 1)
      <4>1. s \in Nat /\ 1 <= s /\ s <= k + 1 /\ k + 1 <= Len(buf)
        BY <1>1, <1>11
      <4> QED
        BY <1>1, <4>1, OneMoreByte, Zenon
    <3> QED
      BY <1>7, <1>14, <2>3, <3>1, <3>2, <3>3
  <2>4. /\ \A m \in s..n : d[m] = v
        /\ n \in Nat /\ s \in Nat /\ 1 <= s /\ s <= n /\ n <= Len(buf) /\ ~(n < Len(buf))
    BY <1>5, <1>9, <1>14
  <2>5. PICK w : w = Grab(walk, byte)
    OBVIOUS
  <2>6. /\ w.a_len \in Nat
        /\ v = EXEC_CKSUM => w.a_len <= 1
        /\ v # EXEC_CKSUM => w.a_len = n + 1 - s /\ (w.a_len <= MAX_AUTO_EXTRA => w.a_collect = SubSeq(buf, s, n))
    <3>1. w.a_len = walk.a_len + 1
      BY <2>2, <2>5
    <3>2. v # EXEC_CKSUM /\ w.a_len <= MAX_AUTO_EXTRA => w.a_collect = SubSeq(buf, s, n)
      BY <2>3, <2>5, <3>1
    <3>3. /\ w.a_len \in Nat
          /\ v = EXEC_CKSUM => w.a_len <= 1
          /\ v # EXEC_CKSUM => w.a_len = n + 1 - s
      BY <1>7, <1>11, <1>14, <3>1
    <3> QED
      BY <3>2, <3>3
  <2>7. Listed(Output(w), buf, RunsTo(d, buf, n))
    BY <1>1, <1>9, <1>10, <2>4, <2>6, PutOut
  <2>8. Len(cksums') = Len(input') /\ Listed(found', input', RunsTo(cksums', input', Len(input')))
    BY <1>2, <1>3, <1>4, <1>5, <1>14, <2>1, <2>5, <2>7
  <2> QED
    BY <1>3, <1>14, <2>8 DEF RunsInv
<1>15. CASE k + 1 = n /\ x # v
  <2>1. found' = Output(walk)
    BY <1>2, <1>15 DEF Found
  <2>2. Len(SubSeq(buf, n, n)) = 1
    <3>1. n \in Nat /\ 1 <= n /\ n <= n + 1 /\ n <= Len(buf) /\ n + 1 - n = 1
      BY <1>15
    <3> QED
      BY <1>1, <3>1, SubSeqIs
  <2>3. ~Usable(SubSeq(buf, n, n))
    BY <2>2, Numbers DEF Usable
  <2>4. \A m \in n..n : d[m] = x
    BY <1>5, <1>15
  <2>5. (n > 1 => d[n - 1] # x) /\ 1 <= n /\ n <= Len(buf) /\ ~(n < Len(buf)) /\ n - 1 = k
    BY <1>13, <1>15
  <2>6. RunsTo(d, buf, n) = RunsTo(d, buf, n - 1)
    <3>1. n \in Nat /\ n <= n
      OBVIOUS
    <3>2. \A r : r \in RunsTo(d, buf, n) <=> r \in RunsTo(d, buf, n - 1) \/ r \in RunOf(x, buf, n, n)
      BY <1>1, <2>4, <2>5, <3>1, RunsGrow
    <3> QED
      BY <2>3, <3>2 DEF RunOf
  <2>7. Listed(Output(walk), buf, RunsTo(d, buf, n))
    BY <1>12, <1>15, <2>5, <2>6
  <2>8. Len(cksums') = Len(input') /\ Listed(found', input', RunsTo(cksums', input', Len(input')))
    BY <1>2, <1>3, <1>4, <1>5, <1>15, <2>1, <2>7
  <2> QED
    BY <1>3, <1>15, <2>8 DEF RunsInv
<1>16. CASE k + 1 # n /\ x # v
  <2>1. found' = Output(walk) /\ walk' = Collected(x, byte)
    BY <1>2, <1>16 DEF Found
  <2>2. PICK w : w = Restart(x)
    OBVIOUS
  <2>3. Collected(x, byte) = IF x # EXEC_CKSUM THEN Grab(w, byte) ELSE w
    BY <1>16, <2>2 DEF Collected
  <2>4. w = [a_collect |-> <<>>, a_len |-> 0, prev_cksum |-> x]
    BY <2>2 DEF Restart
  <2>5. Grab(w, byte).prev_cksum = x /\ Grab(w, byte).a_len = 1
    BY <2>4 DEF Grab
  <2>6. walk'.prev_cksum = x
    BY <2>1, <2>3, <2>4, <2>5
  <2>7. x = EXEC_CKSUM => walk'.a_len = 0
    BY <2>1, <2>3, <2>4
  <2>8. x # EXEC_CKSUM => walk'.a_len = 1
    BY <2>1, <2>3, <2>5
  <2>9. ASSUME x # EXEC_CKSUM, 1 <= MAX_AUTO_EXTRA
        PROVE  walk'.a_collect = SubSeq(buf, k + 1, k + 1)
    <3>1. 0 < MAX_AUTO_EXTRA
      BY <2>9, Numbers
    <3>2. Grab(w, byte).a_collect = Append(<<>>, byte)
      BY <2>4, <3>1 DEF Grab
    <3>3. SubSeq(buf, k + 1, k) = <<>>
      BY SubSeqEmpty
    <3>4. Append(SubSeq(buf, k + 1, k), buf[k + 1]) = SubSeq(buf, k + 1, k + 1)
      <4>1. k + 1 \in Nat /\ 1 <= k + 1 /\ k + 1 <= k + 1 /\ k + 1 <= Len(buf)
        BY <1>1, <1>11
      <4> QED
        BY <1>1, <4>1, OneMoreByte, Zenon
    <3> QED
      BY <2>1, <2>3, <2>9, <3>2, <3>3, <3>4
  <2>10. Listed(found', buf, RunsTo(d, buf, k + 1 - 1))
    BY <1>12, <1>16, <2>1
  <2>11. Pending(k + 1)'
    <3>1. \A m \in k + 1..Len(d) : d[m] = x
      BY <1>5
    <3>2. k + 1 > 1 => k + 1 <= Len(d) /\ d[k + 1 - 1] # x
      BY <1>5, <1>13, <1>16
    <3>3. x # EXEC_CKSUM => /\ k + 1 <= Len(d) /\ walk'.a_len = Len(d) + 1 - (k + 1)
                            /\ walk'.a_len <= MAX_AUTO_EXTRA => walk'.a_collect = SubSeq(buf, k + 1, Len(d))
      BY <1>5, <2>8, <2>9
    <3> QED
      BY <1>2, <1>3, <1>4, <2>6, <2>7, <2>10, <3>1, <3>2, <3>3 DEF Pending
  <2>12. k + 1 \in 1..Len(cksums') + 1 /\ place' = "flip"
    BY <1>2, <1>3, <1>4, <1>5, <1>16
  <2> QED
    BY <2>11, <2>12 DEF RunsInv
<1>17. CASE k + 1 # n /\ x = v
  <2>1. found' = found /\ walk' = (IF x # EXEC_CKSUM THEN Grab(walk, byte) ELSE walk)
    BY <1>2, <1>17 DEF Found, Collected, LastByte
  <2>2. Grab(walk, byte).a_len = walk.a_len + 1 /\ Grab(walk, byte).prev_cksum = v
    BY <1>1 DEF Grab, Walk
  <2>3. walk'.prev_cksum = v
    BY <2>1, <2>2
  <2>4. v = EXEC_CKSUM => walk'.a_len = 0
    BY <1>7, <1>17, <2>1
  <2>5. v # EXEC_CKSUM => walk'.a_len = k + 2 - s /\ s <= k
    BY <1>7, <1>17, <2>1, <2>2
  <2>6. ASSUME v # EXEC_CKSUM, walk'.a_len <= MAX_AUTO_EXTRA
        PROVE  walk'.a_collect = SubSeq(buf, s, k + 1)
    <3>1. walk.a_len < MAX_AUTO_EXTRA /\ walk.a_len <= MAX_AUTO_EXTRA
      BY <1>7, <1>11, <2>5, <2>6, Numbers
    <3>2. Grab(walk, byte).a_collect = Append(walk.a_collect, byte)
      BY <1>1, <3>1 DEF Grab, Walk
    <3>3. Append(SubSeq(buf, s, k), buf[k + 1]) = SubSeq(buf, s, k + 1)
      <4>1. s \in Nat /\ 1 <= s /\ s <= k + 1 /\ k + 1 <= Len(buf)
        BY <1>1, <1>11
      <4> QED
        BY <1>1, <4>1, OneMoreByte, Zenon
    <3> QED
      BY <1>7, <1>17, <2>1, <2>6, <3>1, <3>2, <3>3
  <2>7. Pending(s)'
    <3>1. \A m \in s..Len(d) : d[m] = v
      BY <1>5, <1>9, <1>17
    <3>2. s > 1 => s <= Len(d) /\ d[s - 1] # v
      BY <1>5, <1>9
    <3>3. v # EXEC_CKSUM => /\ s <= Len(d) /\ walk'.a_len = Len(d) + 1 - s
                            /\ walk'.a_len <= MAX_AUTO_EXTRA => walk'.a_collect = SubSeq(buf, s, Len(d))
      BY <1>5, <2>5, <2>6
    <3> QED
      BY <1>2, <1>3, <1>4, <1>10, <2>1, <2>3, <2>4, <3>1, <3>2, <3>3 DEF Pending
  <2>8. s \in 1..Len(cksums') + 1 /\ place' = "flip"
    BY <1>2, <1>3, <1>4, <1>5, <1>17
  <2> QED
    BY <2>7, <2>8 DEF RunsInv
<1> QED
  BY <1>14, <1>15, <1>16, <1>17

(* The walk begins with nothing pending.                                   *)
LEMMA WalkingBitFinds ==
  ASSUME WalkingBit
  PROVE  RunsInv'
<1>1. /\ place' = "flip" /\ cksums' = <<>> /\ found' = <<>>
      /\ walk'.a_len = 0 /\ walk'.prev_cksum = EXEC_CKSUM
  BY DEF WalkingBit, Goto, Restart
<1>2. RunsTo(cksums', input', 1 - 1) = {}
  <2>1. PICK f \in Seq(Bytes) : input' = f
    BY DictionaryAssumption DEF WalkingBit
  <2> QED
    BY <2>1 DEF RunsTo
<1>3. Len(<<>>) = 0 /\ 1..0 = {} /\ ~(1 > 1)
  OBVIOUS
<1>4. Pending(1)'
  BY <1>1, <1>2, <1>3, ListedNone DEF Pending
<1>5. 1 \in 1..Len(cksums') + 1
  BY <1>1, <1>3
<1> QED
  BY <1>1, <1>4, <1>5 DEF RunsInv

THEOREM RunsCorrect == DictionarySpec => [](FoundInv /\ RunsInv)
<1>1. DictionaryInit => RunsInv
  BY DEF DictionaryInit, RunsInv
<1>2. FoundInv /\ RunsInv /\ [DictionaryNext]_dictionaryVars => RunsInv'
  <2> SUFFICES ASSUME FoundInv, RunsInv, [DictionaryNext]_dictionaryVars
               PROVE  RunsInv'
    OBVIOUS
  <2>1. CASE WalkingBit
    BY <2>1, WalkingBitFinds
  <2>2. CASE FlipByte
    BY <2>2, FlipByteFinds
  <2>3. CASE UNCHANGED dictionaryVars \/ SaveAuto \/ SaveFile
    <3>1. UNCHANGED <<place, input, cksums, walk, found>>
      BY <2>3 DEF dictionaryVars, call, SaveAuto, SaveFile
    <3>2. \A s : Pending(s)' = Pending(s)
      BY <3>1 DEF Pending
    <3> QED
      BY <3>1, <3>2 DEF RunsInv
  <2>4. CASE \/ HandOver \/ AllHandedOver \/ OverwriteUser \/ InsertUser \/ OverwriteAuto \/ Leave
             \/ EnterMain \/ Kill \/ Resume \/ LoadExtras
    <3>1. place' \notin {"flip", "flipped"}
      BY <2>4 DEF HandOver, AllHandedOver, OverwriteUser, InsertUser, OverwriteAuto, Leave,
         EnterMain, Kill, Resume, LoadExtras, Goto
    <3> QED
      BY <3>1 DEF RunsInv
  <2> QED
    BY <2>1, <2>2, <2>3, <2>4 DEF DictionaryNext
<1> QED
  BY <1>1, <1>2, FoundCorrect, PTL DEF DictionarySpec

(* The tokens found are exactly the runs of allowed length, in order.      *)
THEOREM TokensAlwaysRuns == DictionarySpec => []TokensAreRuns
<1>1. FoundInv /\ RunsInv => TokensAreRuns
  <2> SUFFICES ASSUME FoundInv, RunsInv, place = "flipped"
               PROVE  TokensAreRuns
    BY DEF TokensAreRuns
  <2> DEFINE runs == {r \in (DOMAIN input) \X (DOMAIN input) :
                        r[1] <= r[2] /\ IsRun(r[1], r[2]) /\ Usable(SubSeq(input, r[1], r[2]))}
  <2>1. input \in Seq(Bytes) /\ Listed(found, input, RunsTo(cksums, input, Len(input)))
    BY DEF FoundInv, DictionaryTyped, WalkTyped, RunsInv
  <2>2. runs = RunsTo(cksums, input, Len(input))
    <3>1. \A r \in (DOMAIN input) \X (DOMAIN input) :
            r[2] <= Len(input) /\ (IsRun(r[1], r[2]) <=> RunIn(cksums, Len(input), r[1], r[2]))
      BY <2>1 DEF IsRun, RunIn
    <3> QED
      BY <3>1 DEF RunsTo
  <2>3. Listed(found, input, runs)
    BY <2>1, <2>2
  <2> HIDE DEF runs
  <2>4. \E order \in SetToSeqs(runs) :
          /\ \A m, n \in DOMAIN order : m < n => order[m][1] < order[n][1]
          /\ found = [n \in DOMAIN order |-> SubSeq(input, order[n][1], order[n][2])]
    BY <2>3 DEF Listed
  <2> QED
    BY <2>4 DEF TokensAreRuns, runs
<1> QED
  BY <1>1, RunsCorrect, PTL
=============================================================================
