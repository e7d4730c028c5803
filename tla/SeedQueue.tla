----------------------------- MODULE SeedQueue -----------------------------
(***************************************************************************)
(* The life of the seed queue in TSAFL-fuzz.c: the dry run, the main loop  *)
(* of main() and fuzz_one with its calibration, trimming, scoring and      *)
(* fuzzing stages, together with what helper.cc keeps for an entry (the    *)
(* windows it shows, whether its record is meaningful) as far as the queue *)
(* depends on it.  The table of best entries is that of TopRated.          *)
(***************************************************************************)
EXTENDS TopRated

CONSTANTS
  MaxPaths,      \* bound on queued_paths
  InitialPaths,  \* entries read from the input directory
  Windows,       \* window checksums (concurrent features) the target can show
  CAL_CHANCES,   \* config.h: calibrations an entry may fail
  SkipPaths,     \* fuzz_one skips freely only above this many paths (10)
  SchLevel,      \* fuzz_level from which calculate_score_sch uses helper.cc (16)
  U32            \* the modulus of the unsigned counters

ASSUME QueueAssumption ==
  /\ MaxPaths \in Nat \ {0} /\ InitialPaths \in 1..MaxPaths
  /\ Entries = 1..MaxPaths /\ NULL = 0
  /\ CAL_CHANCES \in Nat \ {0} /\ SkipPaths \in Nat /\ SchLevel \in Nat \ {0}
  /\ U32 \in Nat /\ U32 > MaxPaths /\ U32 > MAP_SIZE

VARIABLES
  queued_paths, queue_cur, dry_q,
  phase,               \* where main() and fuzz_one stand
  favored, sch_interesting, fs_redundant,
  cal_failed, fuzz_level, trim_done,
  pending_not_fuzzed, pending_favored,
  state_energy,
  cks_q_w,             \* window -> the entry registered for it, NULL if none
  windows_cks,         \* entry -> windows in its record
  meaningful           \* entry -> its record is in use

queueVars == <<queued_paths, queue_cur, dry_q, phase>>
flagVars == <<favored, sch_interesting, fs_redundant>>
entryVars == <<cal_failed, fuzz_level, trim_done>>
countVars == <<pending_not_fuzzed, pending_favored, state_energy>>
recordVars == <<cks_q_w, windows_cks, meaningful>>
vars == <<tableVars, queueVars, flagVars, entryVars, countVars, recordVars>>

Paths == 1..queued_paths

Phases == {"dry_run", "cull", "select", "calibrate", "trim", "score", "fuzz",
           "calibrate_new", "abandon", "fatal", "exit100"}

QueueTypeOK ==
  /\ TypeOK
  /\ queued_paths \in InitialPaths..MaxPaths
  /\ queue_cur \in 0..MaxPaths /\ dry_q \in 1..(MaxPaths + 1)
  /\ phase \in Phases
  /\ favored \in [Entries -> BOOLEAN]
  /\ sch_interesting \in [Entries -> BOOLEAN]
  /\ fs_redundant \in [Entries -> BOOLEAN]
  /\ cal_failed \in [Entries -> 0..CAL_CHANCES]
  /\ fuzz_level \in [Entries -> 0..SchLevel]
  /\ trim_done \in [Entries -> BOOLEAN]
  /\ pending_not_fuzzed \in 0..(U32 - 1) /\ pending_favored \in 0..(U32 - 1)
  /\ state_energy \in {0, 1}
  /\ cks_q_w \in [Windows -> Entries \cup {NULL}]
  /\ windows_cks \in [Entries -> SUBSET Windows]
  /\ meaningful \in [Entries -> BOOLEAN]

(* After read_testcases: every input file has been given to add_to_queue. *)
Init ==
  /\ TableInit
  /\ queued_paths = InitialPaths /\ queue_cur = NULL /\ dry_q = 1 /\ phase = "dry_run"
  /\ favored = [q \in Entries |-> FALSE]
  /\ sch_interesting = [q \in Entries |-> FALSE]
  /\ fs_redundant = [q \in Entries |-> FALSE]
  /\ cal_failed = [q \in Entries |-> 0]
  /\ fuzz_level = [q \in Entries |-> 0]
  /\ trim_done = [q \in Entries |-> FALSE]
  /\ pending_not_fuzzed = InitialPaths /\ pending_favored = 0
  /\ state_energy = 0
  /\ cks_q_w = [w \in Windows |-> NULL]
  /\ windows_cks = [q \in Entries |-> {}]
  /\ meaningful = [q \in Entries |-> q <= InitialPaths]

-----------------------------------------------------------------------------
(* u32 counters wrap. *)
Decrement(n) == IF n = 0 THEN U32 - 1 ELSE n - 1

(* update_q_window: q takes every window of its record, whoever had it and *)
(* whatever it costs (both branches assign), unless the record is not      *)
(* meaningful.                                                             *)
UpdateQWindow(q, windows) ==
  cks_q_w' = [w \in Windows |-> IF meaningful[q] /\ w \in windows THEN q ELSE cks_q_w[w]]

(* update_queEntry_sInfo adds what the scheduled runs found to the record. *)
\* A bug of RecordWindows: the windows are registered, not recorded.
RecordNothing(q, found) == UNCHANGED windows_cks

RecordWindows(q, found) == windows_cks' = [windows_cks EXCEPT ![q] = @ \cup found]

(* calibrate_case on the path where no run fails: the entry gets its cost  *)
(* and the windows of its scheduled runs, if its concurrency was new, and  *)
(* competes for the bytes of the last trace.                               *)
Calibrated(q) ==
  \E trace \in SUBSET Slots \ {{}}, factor \in Factors, found \in SUBSET Windows :
    /\ RecordWindows(q, found)
    /\ UpdateQWindow(q, windows_cks[q] \cup found)
    /\ cal_failed' = [cal_failed EXCEPT ![q] = 0]
    /\ UpdateBitmapScore(q, trace, factor)
    /\ UNCHANGED meaningful

(* calibrate_case when a run times out or crashes. *)
\* A bug of CalibrationFails: the failed run competes for bytes.
CalibrationFailsButScores(q) ==
  /\ cal_failed' = [cal_failed EXCEPT ![q] = @ + 1]
  /\ \E trace \in SUBSET Slots \ {{}}, factor \in Factors : UpdateBitmapScore(q, trace, factor)
  /\ UNCHANGED recordVars

CalibrationFails(q) ==
  /\ cal_failed' = [cal_failed EXCEPT ![q] = @ + 1]
  /\ UNCHANGED <<tableVars, recordVars>>

-----------------------------------------------------------------------------
(* perform_dry_run, one entry at a time.  A bad entry is skipped for good, *)
(* if the options allow it, or ends the program.                           *)
AfterDryRun(failed) ==
  /\ dry_q' = dry_q + 1
  /\ phase' = IF dry_q < queued_paths THEN "dry_run"
              ELSE IF \A q \in Paths : failed[q] = CAL_CHANCES THEN "fatal" ELSE "cull"

DryRunPasses ==
  /\ phase = "dry_run"
  /\ Calibrated(dry_q)
  /\ AfterDryRun(cal_failed')
  /\ UNCHANGED <<queued_paths, queue_cur, flagVars, fuzz_level, trim_done, countVars>>

DryRunSkips ==
  /\ phase = "dry_run"
  /\ cal_failed' = [cal_failed EXCEPT ![dry_q] = CAL_CHANCES]
  /\ AfterDryRun(cal_failed')
  /\ UNCHANGED <<tableVars, recordVars, queued_paths, queue_cur, flagVars,
                 fuzz_level, trim_done, countVars>>

DryRunFatal ==
  /\ phase = "dry_run"
  /\ phase' = "fatal"
  /\ UNCHANGED <<tableVars, recordVars, queued_paths, queue_cur, dry_q, flagVars,
                 entryVars, countVars>>

-----------------------------------------------------------------------------
(* cull_queue.  pending_favored counts the walk's picks; favored adds the  *)
(* entries registered for a window; an entry that turns redundant loses    *)
(* its record (minus_one_q), one that turns useful again does not get it   *)
(* back.                                                                   *)
\* A bug of Needed: and for or.
NeededForBoth(tr, sch) == [q \in Entries |-> tr[q] /\ sch[q]]

Needed(tr, sch) == [q \in Entries |-> tr[q] \/ sch[q]]

CullQueue ==
  \E picked \in SUBSET Slots :
    /\ CullTable(picked)
    /\ pending_favored' = Cardinality({i \in picked : fuzz_level[top_rated[i]] = 0})
    /\ sch_interesting' = [q \in Entries |-> \E w \in Windows : cks_q_w[w] = q]
    /\ favored' = Needed(tr_intersting', sch_interesting')
    /\ fs_redundant' = [q \in Entries |-> q \in Paths /\ ~favored'[q]]
    /\ meaningful' = [q \in Entries |->
                        meaningful[q] /\ ~(fs_redundant'[q] /\ ~fs_redundant[q])]

(* The head of the main loop: cull, look at the clock, and start the next  *)
(* cycle when the cursor has run off the queue.                            *)
LoopHead ==
  /\ phase = "cull"
  /\ IF score_changed
     THEN CullQueue
     ELSE UNCHANGED <<tableVars, flagVars, pending_favored, meaningful>>
  /\ state_energy' \in {state_energy, 1}
  /\ queue_cur' = IF queue_cur = NULL THEN 1 ELSE queue_cur
  /\ phase' = "select"
  /\ UNCHANGED <<queued_paths, dry_q, entryVars, pending_not_fuzzed, cks_q_w, windows_cks>>

NextEntry ==
  /\ queue_cur' = IF queue_cur < queued_paths THEN queue_cur + 1 ELSE NULL
  /\ phase' = "cull"

(* fuzz_one returns at once for an entry it decides to skip.  The dice may *)
(* fall either way.                                                        *)
\* A bug of MaySkip: favored is not looked at when nothing is pending.
MaySkipFavored(q) ==
  IF pending_favored # 0
  THEN fuzz_level[q] > 0 \/ ~favored[q]
  ELSE queued_paths > SkipPaths

MaySkip(q) ==
  IF pending_favored # 0
  THEN fuzz_level[q] > 0 \/ ~favored[q]
  ELSE ~favored[q] /\ queued_paths > SkipPaths

SkipEntry ==
  /\ phase = "select"
  /\ MaySkip(queue_cur)
  /\ NextEntry
  /\ UNCHANGED <<tableVars, recordVars, queued_paths, dry_q, flagVars, entryVars, countVars>>

\* A bug of MayRecalibrate: one chance too many.
MayRecalibrateOnceMore(q) == cal_failed[q] <= CAL_CHANCES

MayRecalibrate(q) == cal_failed[q] < CAL_CHANCES

TakeEntry ==
  /\ phase = "select"
  /\ phase' = IF cal_failed[queue_cur] = 0 THEN "trim"
              ELSE IF MayRecalibrate(queue_cur) THEN "calibrate"
              ELSE "abandon"
  /\ UNCHANGED <<tableVars, recordVars, queued_paths, queue_cur, dry_q, flagVars,
                 entryVars, countVars>>

Recalibrate ==
  /\ phase = "calibrate"
  /\ \/ Calibrated(queue_cur) /\ phase' = "trim"
     \/ CalibrationFails(queue_cur) /\ phase' = "abandon"
  /\ UNCHANGED <<queued_paths, queue_cur, dry_q, flagVars, fuzz_level, trim_done, countVars>>

(* trim_case, once per entry.  If some deletion left the trace unchanged   *)
(* the entry is shorter now and competes again; its windows are registered *)
(* before the record is made meaningful.                                   *)
TrimCase ==
  /\ phase = "trim"
  /\ phase' = "score"
  /\ trim_done' = [trim_done EXCEPT ![queue_cur] = TRUE]
  /\ \/ UNCHANGED <<tableVars, recordVars>>
     \/ /\ ~trim_done[queue_cur]
        /\ \E trace \in SUBSET Slots \ {{}}, factor \in 0..fav_factor[queue_cur] :
             UpdateBitmapScore(queue_cur, trace, factor)
        /\ UpdateQWindow(queue_cur, windows_cks[queue_cur])
        /\ meaningful' = [meaningful EXCEPT ![queue_cur] = TRUE]
        /\ UNCHANGED windows_cks
  /\ UNCHANGED <<queued_paths, queue_cur, dry_q, flagVars, cal_failed, fuzz_level, countVars>>

(* calculate_score_fast or calculate_score_sch; the latter asks helper.cc  *)
(* for entries fuzzed often, which ends the program for a useless record.  *)
Score ==
  /\ phase = "score"
  /\ phase' = IF state_energy = 1 /\ fuzz_level[queue_cur] = SchLevel /\ ~meaningful[queue_cur]
              THEN "exit100" ELSE "fuzz"
  /\ UNCHANGED <<tableVars, recordVars, queued_paths, queue_cur, dry_q, flagVars,
                 entryVars, countVars>>

(* save_if_interesting: an input with new bits is queued, then calibrated  *)
(* in line; calibration may fail and is retried when its turn comes.       *)
AddToQueue ==
  /\ phase = "fuzz"
  /\ queued_paths < MaxPaths
  /\ queued_paths' = queued_paths + 1
  /\ pending_not_fuzzed' = pending_not_fuzzed + 1
  /\ meaningful' = [meaningful EXCEPT ![queued_paths'] = TRUE]
  /\ MarkNewEntry(queued_paths')
  /\ phase' = "calibrate_new"
  /\ UNCHANGED <<queue_cur, dry_q, flagVars, entryVars, pending_favored, state_energy,
                 cks_q_w, windows_cks>>

CalibrateNew ==
  /\ phase = "calibrate_new"
  /\ Calibrated(queued_paths) \/ CalibrationFails(queued_paths)
  /\ phase' = "fuzz"
  /\ UNCHANGED <<queued_paths, queue_cur, dry_q, flagVars, fuzz_level, trim_done, countVars>>

(* abandon_entry.  The level counts every pass, also one that never got    *)
(* through calibration.  It is capped where the code stops telling levels  *)
(* apart.                                                                  *)
\* A bug of FirstPass: a pass that is not the first counts, too.
FirstPassByCalibration(q) == cal_failed[q] = 0

FirstPass(q) == cal_failed[q] = 0 /\ fuzz_level[q] = 0

Abandon ==
  /\ phase \in {"fuzz", "abandon"}
  /\ IF FirstPass(queue_cur)
     THEN /\ pending_not_fuzzed' = Decrement(pending_not_fuzzed)
          /\ pending_favored' = IF favored[queue_cur] THEN Decrement(pending_favored)
                                                      ELSE pending_favored
     ELSE UNCHANGED <<pending_not_fuzzed, pending_favored>>
  /\ fuzz_level' = [fuzz_level EXCEPT ![queue_cur] = IF @ < SchLevel THEN @ + 1 ELSE @]
  /\ NextEntry
  /\ UNCHANGED <<tableVars, recordVars, queued_paths, dry_q, flagVars,
                 cal_failed, trim_done, state_energy>>

Ended == phase \in {"fatal", "exit100"}

Terminated == Ended /\ UNCHANGED vars

Next ==
  \/ DryRunPasses \/ DryRunSkips \/ DryRunFatal
  \/ LoopHead \/ SkipEntry \/ TakeEntry
  \/ Recalibrate \/ TrimCase \/ Score
  \/ AddToQueue \/ CalibrateNew \/ Abandon
  \/ Terminated

Spec == Init /\ [][Next]_vars

(* main() is one thread that never waits for anything but the target,      *)
(* whose runs are bounded by a timer.                                      *)
FairSpec == Spec /\ WF_vars(Next)

-----------------------------------------------------------------------------
(* Between the head of the main loop and the next change of the table      *)
(* every byte that has a holder is covered by a favored entry: its holder, *)
(* or one whose trace copy contains the byte.  This is what the comment    *)
(* above update_bitmap_score calls the purpose of the favorables.          *)
FavoredCover ==
  ~score_changed =>
    \A i \in Slots :
      \/ top_rated[i] = NULL
      \/ favored[top_rated[i]]
      \/ \E q \in Entries : favored[q] /\ i \in trace_mini[q]

(* An entry that failed calibration never gets into the table, never holds *)
(* a window and is never favored, so fuzz_one does not abandon a favored   *)
(* entry on its way through calibration.                                   *)
FavoredCalibrated ==
  \A q \in Entries :
    favored[q] \/ Held(q) # {} \/ (\E w \in Windows : cks_q_w[w] = q)
      => q \in Paths /\ cal_failed[q] = 0

(* A window is registered for an entry that shows it. *)
OwnerShowsWindow == \A w \in Windows : cks_q_w[w] # NULL => w \in windows_cks[cks_q_w[w]]

(* pending_not_fuzzed counts at least the entries fuzz_one has never taken *)
(* and at most all of them: it does not wrap, although it is decremented   *)
(* in abandon_entry and incremented in add_to_queue.                       *)
UnfuzzedCounted ==
  /\ Cardinality({q \in Paths : fuzz_level[q] = 0}) <= pending_not_fuzzed
  /\ pending_not_fuzzed <= queued_paths

(* No fuzzing work is lost: an entry that is favored and was never fuzzed  *)
(* is fuzzed, or stops being favored, however the dice of SkipEntry fall.  *)
FavoredIsFuzzed ==
  \A q \in Entries :
    (favored[q] /\ fuzz_level[q] = 0) ~> (~favored[q] \/ fuzz_level[q] > 0 \/ Ended)

-----------------------------------------------------------------------------
(* What comments and diagnostics of the code say, and the code does not    *)
(* keep.                                                                   *)

(* "Pending favored paths" (TSAFL-fuzz.c:168) are entries of the queue.    *)
PendingFavoredWithinQueue == pending_favored <= queued_paths

(* "Queued but not done yet" (TSAFL-fuzz.c:167): nothing is pending once   *)
(* every entry is calibrated and has been fuzzed.                          *)
NothingPendingWhenAllFuzzed ==
  (\A q \in Paths : cal_failed[q] = 0 /\ fuzz_level[q] > 0) => pending_not_fuzzed = 0

(* The diagnostic "Useless q_info in calculate_score_factor_sch"           *)
(* (helper.cc) declares that an entry being scored has a meaningful        *)
(* record.                                                                 *)
ScoredRecordsMeaningful == phase # "exit100"

=============================================================================
