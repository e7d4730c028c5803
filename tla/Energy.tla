------------------------------- MODULE Energy -------------------------------
(***************************************************************************)
(* How long an entry is fuzzed: calculate_score, calculate_score_fast and  *)
(* calculate_score_sch with calculate_score_factor_sch, and the clock that *)
(* decides between the last two, change_state_enery_byTime.                *)
(*                                                                         *)
(* A score is a u32 that is multiplied by doubles; what is left behind the *)
(* point is cut off.  exec_time is 1 and POWER_BETA is 1, so that the      *)
(* divisions by them are left out.                                         *)
(***************************************************************************)
EXTENDS Integers

CONSTANTS
  HAVOC_MAX_MULT,
  MAX_FACTOR,           \* the factor of entries fuzzed often, fast mode
  SchLevel,             \* fuzz_level from which an entry was fuzzed often (16)
  U64,                  \* the modulus of the clock's unsigned arithmetic
  whole_running_time    \* in seconds

ASSUME EnergyAssumption ==
  /\ {HAVOC_MAX_MULT, MAX_FACTOR, SchLevel, whole_running_time} \subseteq Nat \ {0}
  /\ SchLevel <= 16
  /\ U64 \in Nat /\ U64 > whole_running_time

MAX_SCORE == HAVOC_MAX_MULT * 100

Limited(score) == IF score > MAX_SCORE THEN MAX_SCORE ELSE score

(* Slow entries get less, fast ones more: the entry's time, the average. *)
BySpeed(us, avg) ==
  CASE us > 10 * avg -> 10
    [] us > 4 * avg -> 25
    [] us > 2 * avg -> 50
    [] 3 * us > 4 * avg -> 75
    [] 4 * us < avg -> 300
    [] 3 * us < avg -> 200
    [] 2 * us < avg -> 150
    [] OTHER -> 100

(* Entries with more coverage get more; the bounds above 1 and below are    *)
(* not the same.                                                            *)
ByCoverage(score, size, avg) ==
  CASE 3 * size > 10 * avg -> score * 3
    [] size > 2 * avg -> score * 2
    [] 3 * size > 4 * avg -> (score * 3) \div 2
    [] 3 * size < avg -> score \div 4
    [] 2 * size < avg -> score \div 2
    [] 3 * size < 2 * avg -> (score * 3) \div 4
    [] OTHER -> score

ByHandicap(score, handicap) ==
  IF handicap >= 4 THEN score * 4 ELSE IF handicap > 0 THEN score * 2 ELSE score

HandicapLeft(handicap) ==
  IF handicap >= 4 THEN handicap - 4 ELSE IF handicap > 0 THEN handicap - 1 ELSE 0

ByDepth(score, depth) ==
  CASE depth <= 3 -> score
    [] depth \in 4..7 -> score * 2
    [] depth \in 8..13 -> score * 3
    [] depth \in 14..25 -> score * 4
    [] OTHER -> score * 5

CalculateScore(speed, coverage, handicap, depth) ==
  Limited(ByDepth(ByHandicap(ByCoverage(BySpeed(speed[1], speed[2]), coverage[1], coverage[2]),
                             handicap), depth))

-----------------------------------------------------------------------------
(* calculate_score_factor_sch: the sum over the cfg checksums of the entry  *)
(* is 0, and the number of all of them, by which it is divided, too.  The   *)
(* result is no number; as a u32 it is 0 on the machines this is built for. *)
FactorSch == 0

(* 1 << level, which is asked for below SchLevel only.                      *)
Shifted == <<1, 2, 4, 8, 16, 32, 64, 128, 256, 512, 1024, 2048, 4096, 8192, 16384, 32768>>

Factor(state_energy, level) ==
  IF level < SchLevel THEN Shifted[level + 1]
  ELSE IF state_energy = 0 THEN MAX_FACTOR ELSE FactorSch

(* calculate_score_fast and calculate_score_sch, from the result of          *)
(* calculate_score.                                                         *)
Score(score, state_energy, level) == Limited(score * Factor(state_energy, level))

(* change_state_enery_byTime: seconds minus milliseconds. *)
StateEnergy(state_energy, cur_time, start_time) ==
  IF (cur_time - start_time) % U64 > whole_running_time \div 12 THEN 1 ELSE state_energy
=============================================================================
