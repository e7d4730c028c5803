---------------------------- MODULE SavingProofs ----------------------------
(***************************************************************************)
(* The invariant of Saving and its refinement of CrashDedup for any map,   *)
(* any limits and any number of resumes.  The inductive invariant says     *)
(* what each of the two bits of a byte of virgin_crash stands for: one is  *)
(* cleared as soon as a judged crash hits the byte, the other as soon as   *)
(* one does not.  It holds while files are kept; once the limit is reached *)
(* virgin_crash is not looked after any more, and nothing asks it.         *)
(*                                                                         *)
(* Then the invariants of Calibration, to which a saved input goes, for    *)
(* any seeds, features and windows and any number of plans.  The inductive *)
(* invariant adds to them where a calibration stands: it has runs left     *)
(* while it makes plain runs, it has a feature once they are over, and its *)
(* seed is not calibrated yet.                                             *)
(***************************************************************************)
EXTENDS Saving, Calibration, TLAPS

(* Each map keeps, for each byte, a set of classes not seen yet.           *)
MapsTyped ==
  /\ virgin_bits \in [Bytes -> SUBSET Classes]
  /\ virgin_tmout \in [Bytes -> SUBSET Classes]
  /\ virgin_crash \in [Bytes -> SUBSET Classes]

(* Types of the rest; neither limit on files is exceeded.                  *)
FilesTyped ==
  /\ crash_mode \in BOOLEAN /\ short_tmout \in BOOLEAN
  /\ unique_crashes \in 0..KEEP_UNIQUE_CRASH /\ unique_hangs \in 0..KEEP_UNIQUE_HANG
  /\ resumes \in 0..MAX_RESUMES /\ shown \subseteq Bytes \X Classes
  /\ judged \subseteq SUBSET Bytes
  /\ report \in [hits: SUBSET Bytes, kept: BOOLEAN]

(* What a byte of virgin_crash stands for while crashes are kept: 128 is   *)
(* cleared once a judged crash hit the byte, 1 once a judged crash missed  *)
(* it.                                                                     *)
CrashMapIsJudged ==
  unique_crashes < KEEP_UNIQUE_CRASH =>
    \A b \in Bytes :
      /\ 128 \notin virgin_crash[b] <=> \E e \in judged : b \in e
      /\ 1 \notin virgin_crash[b] <=> \E e \in judged : b \notin e

(* The inductive invariant.                                                *)
SavingInv == MapsTyped /\ FilesTyped /\ KnownCoverageIsQueued /\ CrashMapIsJudged

-----------------------------------------------------------------------------
(* The maps.                                                               *)

(* has_new_bits tells whether some byte has a class not seen yet.          *)
LEMMA SomeBitIsNew ==
  ASSUME NEW trace, NEW virgin
  PROVE  HasNewBits(trace, virgin) # 0 <=> \E b \in Bytes : trace[b] \in virgin[b]
BY DEF HasNewBits

(* has_new_bits removes from each byte the class of the trace, and no      *)
(* other.                                                                  *)
LEMMA ClearedMap ==
  ASSUME NEW virgin \in [Bytes -> SUBSET Classes], NEW trace
  PROVE  /\ Cleared(virgin, trace) \in [Bytes -> SUBSET Classes]
         /\ \A b \in Bytes : Cleared(virgin, trace)[b] = virgin[b] \ {trace[b]}
BY DEF Cleared

(* simplify_trace leaves 128 in the bytes that are hit and 1 in the        *)
(* others.                                                                 *)
LEMMA SimplifiedTrace ==
  ASSUME NEW trace, NEW b \in Bytes
  PROVE  /\ b \in Hits(trace) => SimplifyTrace(trace)[b] = 128
         /\ b \notin Hits(trace) => SimplifyTrace(trace)[b] = 1
BY DEF SimplifyTrace, Hits

(* The pairs of byte and class that a map has seen grow by those of the    *)
(* trace.                                                                  *)
LEMMA ClearedPairs ==
  ASSUME NEW virgin \in [Bytes -> SUBSET Classes], NEW trace \in Trace
  PROVE  {p \in Bytes \X Classes : p[2] \notin Cleared(virgin, trace)[p[1]]}
           = {p \in Bytes \X Classes : p[2] \notin virgin[p[1]]} \cup Pairs(trace)
<1>1. Pairs(trace) \subseteq Bytes \X Classes
  BY DEF Pairs, Hits, Trace
<1>2. ASSUME NEW p \in Bytes \X Classes
      PROVE  p \in Pairs(trace) <=> p[2] = trace[p[1]]
  <2>1. p = <<p[1], p[2]>> /\ p[1] \in Bytes /\ p[2] \in Classes /\ p[2] # 0
    BY DEF Classes
  <2>2. QED
    BY <2>1 DEF Pairs, Hits
<1>3. ASSUME NEW p \in Bytes \X Classes
      PROVE  p[2] \notin Cleared(virgin, trace)[p[1]] <=> p[2] \notin virgin[p[1]] \/ p[2] = trace[p[1]]
  BY ClearedMap
<1>4. QED
  BY <1>1, <1>2, <1>3

-----------------------------------------------------------------------------
(* The steps.                                                              *)

(* An entry added to the queue shows the coverage its trace clears.        *)
LEMMA QueueKeeps ==
  ASSUME MapsTyped, shown \subseteq Bytes \X Classes, KnownCoverageIsQueued,
         NEW trace \in Trace, NEW again \in Trace, Queue(trace, again)
  PROVE  /\ virgin_bits' \in [Bytes -> SUBSET Classes]
         /\ shown' \subseteq Bytes \X Classes
         /\ KnownCoverageIsQueued'
<1> DEFINE once == Cleared(virgin_bits, trace)
<1>1. once \in [Bytes -> SUBSET Classes]
  BY ClearedMap DEF MapsTyped
<1>2. virgin_bits' = Cleared(once, again) /\ shown' = shown \cup Pairs(trace) \cup Pairs(again)
  BY DEF Queue
<1>3. {p \in Bytes \X Classes : p[2] \notin once[p[1]]} = shown \cup Pairs(trace)
  BY ClearedPairs DEF MapsTyped, KnownCoverageIsQueued
<1> HIDE DEF once
<1>4. virgin_bits' \in [Bytes -> SUBSET Classes]
  BY <1>1, <1>2, ClearedMap
<1>5. {p \in Bytes \X Classes : p[2] \notin virgin_bits'[p[1]]} = shown'
  BY <1>1, <1>2, <1>3, ClearedPairs
<1>6. QED
  BY <1>4, <1>5 DEF KnownCoverageIsQueued

(* A simplified trace is new to virgin_crash exactly when the crash hits a *)
(* byte no judged crash hit, or misses one every judged crash hit.         *)
LEMMA NewIsInformative ==
  ASSUME CrashMapIsJudged, unique_crashes < KEEP_UNIQUE_CRASH, NEW trace
  PROVE  HasNewBits(SimplifyTrace(trace), virgin_crash) # 0
           <=> Dedup!IncludesNew(Hits(trace)) \/ Dedup!MissesCommon(Hits(trace))
<1> DEFINE hits == Hits(trace)
<1>1. hits \subseteq Bytes
  BY DEF Hits
<1>2. Dedup!IncludesNew(hits) <=> \E b \in Bytes : b \in hits /\ \A e \in judged : b \notin e
  BY <1>1 DEF Dedup!IncludesNew
<1>3. Dedup!MissesCommon(hits) <=> \E b \in Bytes : b \notin hits /\ \A e \in judged : b \in e
  BY DEF Dedup!MissesCommon
<1>4. ASSUME NEW b \in Bytes
      PROVE  SimplifyTrace(trace)[b] \in virgin_crash[b]
               <=> \/ b \in hits /\ \A e \in judged : b \notin e
                   \/ b \notin hits /\ \A e \in judged : b \in e
  BY SimplifiedTrace DEF CrashMapIsJudged
<1>5. QED
  BY <1>2, <1>3, <1>4, SomeBitIsNew

(* Judging a crash is the step Report of CrashDedup.                       *)
LEMMA KeepReports ==
  ASSUME FilesTyped, CrashMapIsJudged, NEW trace \in Trace, KeepAsCrash(trace)
  PROVE  Dedup!Report
<1> DEFINE hits == Hits(trace)
           new == HasNewBits(SimplifyTrace(trace), virgin_crash) # 0
           keep == unique_crashes < KEEP_UNIQUE_CRASH /\ new
           worth == /\ unique_crashes < KEEP_UNIQUE_CRASH
                    /\ Dedup!IncludesNew(hits) \/ Dedup!MissesCommon(hits)
<1>1. hits \in SUBSET Bytes
  BY DEF Hits
<1>2. keep = worth
  BY NewIsInformative, Zenon
<1>3. /\ judged' = judged \cup {hits}
      /\ report' = [hits |-> hits, kept |-> keep]
      /\ unique_crashes' = IF keep THEN unique_crashes + 1 ELSE unique_crashes
  BY DEF KeepAsCrash
<1> HIDE DEF hits, keep
<1>4. QED
  BY <1>1, <1>2, <1>3 DEF Dedup!Report

(* Judging a crash keeps the invariant.                                    *)
LEMMA KeepKeeps ==
  ASSUME MapsTyped, FilesTyped, CrashMapIsJudged, NEW trace \in Trace, KeepAsCrash(trace)
  PROVE  /\ virgin_crash' \in [Bytes -> SUBSET Classes]
         /\ unique_crashes' \in 0..KEEP_UNIQUE_CRASH
         /\ judged' \subseteq SUBSET Bytes
         /\ report' \in [hits: SUBSET Bytes, kept: BOOLEAN]
         /\ CrashMapIsJudged'
<1> DEFINE hits == Hits(trace)
           simple == SimplifyTrace(trace)
           new == HasNewBits(simple, virgin_crash) # 0
           keep == unique_crashes < KEEP_UNIQUE_CRASH /\ new
<1>1. hits \in SUBSET Bytes
  BY DEF Hits
<1>2. /\ judged' = judged \cup {hits}
      /\ report' = [hits |-> hits, kept |-> keep]
      /\ unique_crashes' = IF keep THEN unique_crashes + 1 ELSE unique_crashes
      /\ virgin_crash' = IF keep THEN Cleared(virgin_crash, simple) ELSE virgin_crash
  BY DEF KeepAsCrash
<1>3. keep \in BOOLEAN
  OBVIOUS
<1>4. report' \in [hits: SUBSET Bytes, kept: BOOLEAN]
  <2> HIDE DEF hits, keep
  <2>1. QED
    BY <1>1, <1>2, <1>3
<1>5. virgin_crash' \in [Bytes -> SUBSET Classes]
  BY <1>2, ClearedMap DEF MapsTyped
<1>6. unique_crashes' \in 0..KEEP_UNIQUE_CRASH /\ judged' \subseteq SUBSET Bytes
  <2>1. keep => unique_crashes < KEEP_UNIQUE_CRASH
    OBVIOUS
  <2> HIDE DEF hits, keep
  <2>2. QED
    BY <1>1, <1>2, <2>1, SavingAssumption DEF FilesTyped
<1>7. CrashMapIsJudged'
  <2>1. SUFFICES ASSUME unique_crashes' < KEEP_UNIQUE_CRASH, NEW b \in Bytes
                 PROVE  /\ 128 \notin virgin_crash'[b] <=> b \in hits \/ \E e \in judged : b \in e
                        /\ 1 \notin virgin_crash'[b] <=> b \notin hits \/ \E e \in judged : b \notin e
    BY <1>2 DEF CrashMapIsJudged
  <2>2. unique_crashes < KEEP_UNIQUE_CRASH
    <3> HIDE DEF keep
    <3>1. QED
      BY <1>2, <2>1, SavingAssumption DEF FilesTyped
  <2>3. /\ 128 \notin virgin_crash[b] <=> \E e \in judged : b \in e
        /\ 1 \notin virgin_crash[b] <=> \E e \in judged : b \notin e
    BY <2>1, <2>2 DEF CrashMapIsJudged
  <2>4. virgin_crash'[b] = virgin_crash[b] \ {simple[b]}
    <3>1. CASE keep
      BY <1>2, <2>1, <3>1, ClearedMap DEF MapsTyped
    <3>2. CASE ~keep
      <4>1. ~new
        BY <2>2, <3>2
      <4>2. simple[b] \notin virgin_crash[b]
        BY <2>1, <4>1, SomeBitIsNew
      <4>3. QED
        BY <1>2, <3>2, <4>2
    <3>3. QED
      BY <3>1, <3>2
  <2>5. (b \in hits => simple[b] = 128) /\ (b \notin hits => simple[b] = 1)
    BY <2>1, SimplifiedTrace
  <2> HIDE DEF hits, simple
  <2>6. QED
    BY <2>3, <2>4, <2>5
<1>8. QED
  BY <1>4, <1>5, <1>6, <1>7

(* A new hang is written below the limit of hangs.                         *)
LEMMA TimeoutKeeps ==
  ASSUME MapsTyped, NEW trace \in Trace, NewTimeout(trace)
  PROVE  virgin_tmout' \in [Bytes -> SUBSET Classes] /\ unique_hangs < KEEP_UNIQUE_HANG
BY ClearedMap DEF MapsTyped, NewTimeout

(* A resume starts from fresh maps and the runs of the queue it found.     *)
LEMMA ResumeKeeps ==
  ASSUME SavingInv, Resume
  PROVE  SavingInv'
<1> USE SavingAssumption DEF SavingInv, Resume, options
<1>1. Virgin \in [Bytes -> SUBSET Classes] /\ \A b \in Bytes : Virgin[b] = {1, 128}
  BY DEF Virgin, Classes
<1>2. PICK runs \in SUBSET shown :
        /\ virgin_bits' = [b \in Bytes |-> {c \in Classes : <<b, c>> \notin runs}]
        /\ shown' = runs
  OBVIOUS
<1>3. MapsTyped'
  BY <1>1, <1>2 DEF MapsTyped
<1>4. FilesTyped'
  BY <1>2 DEF FilesTyped
<1>5. KnownCoverageIsQueued'
  <2>1. ASSUME NEW p \in Bytes \X Classes
        PROVE  p[2] \notin virgin_bits'[p[1]] <=> p \in runs
    BY <1>2
  <2>2. runs \subseteq Bytes \X Classes
    BY DEF FilesTyped
  <2>3. QED
    BY <1>2, <2>1, <2>2 DEF KnownCoverageIsQueued
<1>6. CrashMapIsJudged'
  BY <1>1 DEF CrashMapIsJudged
<1>7. QED
  BY <1>3, <1>4, <1>5, <1>6

(* Every step keeps the invariant.                                         *)
LEMMA SavingStep ==
  ASSUME SavingInv, [Next]_vars
  PROVE  SavingInv'
<1> USE SavingAssumption DEF SavingInv
<1>1. CASE SaveNormal
  <2>1. PICK trace \in Trace, again \in Trace : Queue(trace, again)
    BY <1>1 DEF SaveNormal
  <2>2. UNCHANGED <<virgin_crash, crashFiles, virgin_tmout, unique_hangs, options, resumes>>
    BY <1>1 DEF SaveNormal, NotACrash, NotAHang, Stays
  <2>3. virgin_bits' \in [Bytes -> SUBSET Classes] /\ shown' \subseteq Bytes \X Classes /\ KnownCoverageIsQueued'
    BY <2>1, QueueKeeps DEF FilesTyped
  <2>4. QED
    BY <2>2, <2>3 DEF MapsTyped, FilesTyped, CrashMapIsJudged, crashFiles, options
<1>2. CASE SaveCrash
  <2>1. PICK trace \in Trace : KeepAsCrash(trace)
    BY <1>2 DEF SaveCrash
  <2>2. UNCHANGED <<virgin_bits, shown, virgin_tmout, unique_hangs, options, resumes>>
    BY <1>2 DEF SaveCrash, NotQueued, NotAHang, Stays
  <2>3. /\ virgin_crash' \in [Bytes -> SUBSET Classes] /\ unique_crashes' \in 0..KEEP_UNIQUE_CRASH
        /\ judged' \subseteq SUBSET Bytes /\ report' \in [hits: SUBSET Bytes, kept: BOOLEAN]
        /\ CrashMapIsJudged'
    BY <2>1, KeepKeeps
  <2>4. QED
    BY <2>2, <2>3 DEF MapsTyped, FilesTyped, KnownCoverageIsQueued, options
<1>3. CASE SaveCrashInCrashMode
  <2>1. PICK trace \in Trace, left \in Trace : Queue(trace, left) /\ KeepAsCrash(left)
    BY <1>3 DEF SaveCrashInCrashMode
  <2>2. UNCHANGED <<virgin_tmout, unique_hangs, options, resumes>>
    BY <1>3 DEF SaveCrashInCrashMode, NotAHang, Stays
  <2>3. virgin_bits' \in [Bytes -> SUBSET Classes] /\ shown' \subseteq Bytes \X Classes /\ KnownCoverageIsQueued'
    BY <2>1, QueueKeeps DEF FilesTyped
  <2>4. /\ virgin_crash' \in [Bytes -> SUBSET Classes] /\ unique_crashes' \in 0..KEEP_UNIQUE_CRASH
        /\ judged' \subseteq SUBSET Bytes /\ report' \in [hits: SUBSET Bytes, kept: BOOLEAN]
        /\ CrashMapIsJudged'
    BY <2>1, KeepKeeps
  <2>5. QED
    BY <2>2, <2>3, <2>4 DEF MapsTyped, FilesTyped, options
<1>4. CASE SaveHang \/ DropHang
  <2>1. PICK trace \in Trace : NewTimeout(trace)
    BY <1>4 DEF SaveHang, DropHang
  <2>2. unique_hangs' \in {unique_hangs, unique_hangs + 1}
    BY <1>4 DEF SaveHang, DropHang
  <2>3. UNCHANGED <<virgin_bits, shown, virgin_crash, crashFiles, options, resumes>>
    BY <1>4 DEF SaveHang, DropHang, NotQueued, NotACrash, Stays
  <2>4. virgin_tmout' \in [Bytes -> SUBSET Classes] /\ unique_hangs < KEEP_UNIQUE_HANG
    BY <2>1, TimeoutKeeps
  <2>5. QED
    BY <2>2, <2>3, <2>4 DEF MapsTyped, FilesTyped, KnownCoverageIsQueued, CrashMapIsJudged, crashFiles, options
<1>5. CASE HangCrashes
  <2>1. PICK trace \in Trace, again \in Trace : NewTimeout(trace) /\ KeepAsCrash(again)
    BY <1>5 DEF HangCrashes
  <2>2. UNCHANGED <<virgin_bits, shown, unique_hangs, options, resumes>>
    BY <1>5 DEF HangCrashes, NotQueued, Stays
  <2>3. virgin_tmout' \in [Bytes -> SUBSET Classes]
    BY <2>1, TimeoutKeeps
  <2>4. /\ virgin_crash' \in [Bytes -> SUBSET Classes] /\ unique_crashes' \in 0..KEEP_UNIQUE_CRASH
        /\ judged' \subseteq SUBSET Bytes /\ report' \in [hits: SUBSET Bytes, kept: BOOLEAN]
        /\ CrashMapIsJudged'
    BY <2>1, KeepKeeps
  <2>5. QED
    BY <2>2, <2>3, <2>4 DEF MapsTyped, FilesTyped, KnownCoverageIsQueued, options
<1>6. CASE Resume
  BY <1>6, ResumeKeeps
<1>7. CASE NothingNew \/ UNCHANGED vars
  BY <1>7 DEF NothingNew, vars, virginMaps, crashFiles, options, MapsTyped, FilesTyped,
     KnownCoverageIsQueued, CrashMapIsJudged
<1>8. QED
  BY <1>1, <1>2, <1>3, <1>4, <1>5, <1>6, <1>7 DEF Next

(* The invariant holds in the first state.                                 *)
LEMMA SavingInitInv == Init => SavingInv
<1> SUFFICES ASSUME Init PROVE SavingInv
  OBVIOUS
<1> USE SavingAssumption DEF Init
<1>1. Virgin \in [Bytes -> SUBSET Classes] /\ \A b \in Bytes : Virgin[b] = {1, 128}
  BY DEF Virgin, Classes
<1>2. MapsTyped /\ CrashMapIsJudged
  BY <1>1 DEF MapsTyped, CrashMapIsJudged
<1>3. FilesTyped
  BY DEF FilesTyped
<1>4. KnownCoverageIsQueued
  BY DEF Virgin, KnownCoverageIsQueued
<1>5. QED
  BY <1>2, <1>3, <1>4 DEF SavingInv

(* The inductive invariant holds in every reachable state.                 *)
THEOREM SavingCorrect == Spec => []SavingInv
<1>1. SavingInv /\ [Next]_vars => SavingInv'
  BY SavingStep
<1>2. QED
  BY SavingInitInv, <1>1, PTL DEF Spec

(* The type invariant of Saving: neither files of crashes nor of hangs     *)
(* pass their limit.                                                       *)
THEOREM SavingTyped == Spec => []SavingTypeOK
<1>1. ASSUME SavingInv PROVE SavingTypeOK
  <2>1. {virgin_bits, virgin_tmout, virgin_crash} \subseteq [Bytes -> SUBSET Classes]
    BY <1>1 DEF SavingInv, MapsTyped
  <2>2. {crash_mode, short_tmout} \subseteq BOOLEAN
    BY <1>1 DEF SavingInv, FilesTyped
  <2>3. FilesTyped
    BY <1>1 DEF SavingInv
  <2>4. QED
    BY <2>1, <2>2, <2>3 DEF SavingTypeOK, FilesTyped
<1>2. QED
  BY <1>1, SavingCorrect, PTL

(* Coverage that virgin_bits calls known was shown by a file of the queue, *)
(* whatever the order of crashes, hangs, saves and resumes                 *)
(* (save_if_interesting).                                                  *)
THEOREM KnownCoverageAlwaysQueued == Spec => []KnownCoverageIsQueued
<1>1. SavingInv => KnownCoverageIsQueued
  BY DEF SavingInv
<1>2. QED
  BY <1>1, SavingCorrect, PTL

(* The bit tricks of has_new_bits and simplify_trace on virgin_crash keep  *)
(* a crash exactly when CrashDedup calls it informative.                   *)
THEOREM SavingImplementsCrashDedup == Spec => ImplementsCrashDedup
<1>1. Init => Dedup!Init
  BY DEF Init, Dedup!Init
<1>2. ASSUME SavingInv, [Next]_vars
      PROVE  [Dedup!Report \/ Dedup!Forget]_<<judged, unique_crashes, report>>
  <2>1. CASE SaveCrash \/ SaveCrashInCrashMode \/ HangCrashes
    <3>1. PICK trace \in Trace : KeepAsCrash(trace)
      BY <2>1 DEF SaveCrash, SaveCrashInCrashMode, HangCrashes
    <3>2. QED
      BY <1>2, <3>1, KeepReports DEF SavingInv
  <2>2. CASE Resume
    BY <2>2 DEF Resume, Dedup!Forget
  <2>3. CASE SaveNormal \/ SaveHang \/ DropHang \/ NothingNew \/ UNCHANGED vars
    BY <2>3 DEF SaveNormal, SaveHang, DropHang, NothingNew, NotACrash, vars, crashFiles
  <2>4. QED
    BY <1>2, <2>1, <2>2, <2>3 DEF Next
<1>3. QED
  BY <1>1, <1>2, SavingCorrect, PTL DEF Spec, ImplementsCrashDedup, Dedup!Spec

-----------------------------------------------------------------------------
(* Calibration.                                                            *)

(* Where the calibration under way stands.                                 *)
UnderWay ==
  /\ pc = "plain" => stage_cur < stage_max
  /\ pc \in {"decide", "session", "finish"} => sch_exec[cur] \in Features
  /\ pc \in {"plain", "decide", "session", "finish"} => cur \notin calibrated

CalibrationInv ==
  /\ CalibrationTypeOK /\ UnderWay
  /\ SessionsAreBracketed /\ SameFeatureIsFound
  /\ WindowsAreCounted /\ WindowOwnersRecordThem

-----------------------------------------------------------------------------
(* The first state.                                                        *)
LEMMA CalibrationInitInv == CalibrationInit => CalibrationInv
<1> SUFFICES ASSUME CalibrationInit PROVE CalibrationInv
  OBVIOUS
<1> USE DEF CalibrationInit
<1>1. CalibrationTypeOK
  <2>1. /\ windows_cks \in [Seeds -> SUBSET Windows]
        /\ cal_failed \in [Seeds -> 0..CAL_CHANCES]
        /\ q_entry_ptr \in [Seeds -> Seeds]
    BY DEF CAL_CHANCES
  <2>2. /\ sch_exec \in [Seeds -> Features \cup {None}]
        /\ conCkSumMap \in [Features -> Seeds \cup {None}]
        /\ cks_q_w \in [Windows -> Seeds \cup {None}]
    OBVIOUS
  <2>3. stage_cur \in 0..CAL_CYCLES_LONG /\ plans \in 0..MAX_PLANS /\ plan \in 0..plans
    BY CalibrationAssumption DEF CAL_CYCLES_LONG
  <2>4. QED
    BY <2>1, <2>2, <2>3 DEF CalibrationTypeOK
<1>2. UnderWay /\ SessionsAreBracketed /\ SameFeatureIsFound
  BY DEF UnderWay, SessionsAreBracketed, SameFeatureIsFound
<1>3. WindowsAreCounted /\ WindowOwnersRecordThem
  BY DEF WindowsAreCounted, WindowOwnersRecordThem
<1>4. QED
  BY <1>1, <1>2, <1>3 DEF CalibrationInv

(* What a run leaves in the flag of the target and in the timeout.         *)
LEMMA RunTyped ==
  ASSUME NEW current \in BOOLEAN, NEW timeout \in {"base", "expanded"},
         RunTarget(current, timeout)
  PROVE  is_scheduel' \in BOOLEAN /\ tmout' \in {"base", "expanded", "1ms"}
BY DEF RunTarget, InitTInfoMem

(* A window that is registered anew is in the record it is registered for. *)
LEMMA TakingKeepsOwners ==
  ASSUME NEW q \in Seeds, NEW windows,
         cks_q_w \in [Windows -> Seeds \cup {None}],
         TakesWindows(q, windows)
  PROVE  /\ cks_q_w' \in [Windows -> Seeds \cup {None}]
         /\ \A w \in Windows : cks_q_w'[w] = IF w \in windows THEN q ELSE cks_q_w[w]
BY DEF TakesWindows

-----------------------------------------------------------------------------
(* The steps, one lemma each where windows move.                           *)

(* The end of a session, after its last run or an abort.                   *)
LEMMA CloseKeeps ==
  ASSUME CalibrationInv, pc = "session",
         NEW inSession \in SUBSET Windows,
         CloseSession(inSession),
         is_scheduel' \in BOOLEAN, tmout' \in {"base", "expanded", "1ms"},
         plan' = plan,
         UNCHANGED <<cur, stage_cur, stage_max, new_window, plans, seedVars, q_entry_ptr, q_w_mem>>
  PROVE  CalibrationInv'
<1> USE DEF CalibrationInv, seedVars
<1>1. cur \in Seeds /\ sch_exec[cur] \in Features /\ cur \notin calibrated
  BY DEF CalibrationTypeOK, UnderWay
<1>2. /\ windows_cks' \in [Seeds -> SUBSET Windows]
      /\ windows_cks'[cur] = windows_cks[cur] \cup inSession
      /\ \A q \in Seeds \ {cur} : windows_cks'[q] = windows_cks[q]
  BY <1>1 DEF CloseSession, CalibrationTypeOK
<1>3. \/ /\ conCkSumMap' = [conCkSumMap EXCEPT ![sch_exec[cur]] = cur]
         /\ TakesWindows(cur, windows_cks'[cur])
         /\ single_wCks' = {} /\ pc' = "finish"
      \/ /\ pc' = "exited" /\ single_wCks' = inSession
         /\ UNCHANGED <<conCkSumMap, cks_q_w>>
  BY DEF CloseSession, ClearSession
<1>4. need_scheduel' = FALSE /\ NEED_SCH' = "FALSE"
  BY DEF CloseSession, LeaveMode
<1>5. cks_q_w' \in [Windows -> Seeds \cup {None}]
  BY <1>1, <1>3, TakingKeepsOwners DEF CalibrationTypeOK
<1>6. CalibrationTypeOK'
  BY <1>1, <1>2, <1>3, <1>4, <1>5 DEF CalibrationTypeOK
<1>7. UnderWay' /\ SessionsAreBracketed' /\ SameFeatureIsFound'
  BY <1>1, <1>3, <1>4 DEF UnderWay, SessionsAreBracketed, SameFeatureIsFound
<1>8. WindowsAreCounted'
  BY <1>1, <1>2 DEF WindowsAreCounted, CalibrationTypeOK
<1>9. WindowOwnersRecordThem'
  <2> SUFFICES ASSUME NEW w \in Windows, cks_q_w'[w] # None
               PROVE  w \in windows_cks'[cks_q_w'[w]]
    BY DEF WindowOwnersRecordThem
  <2>1. (cks_q_w'[w] = cur /\ w \in windows_cks'[cur]) \/ cks_q_w'[w] = cks_q_w[w]
    BY <1>1, <1>3, TakingKeepsOwners DEF CalibrationTypeOK
  <2>2. CASE cks_q_w'[w] = cks_q_w[w]
    BY <2>2, <1>1, <1>2 DEF WindowOwnersRecordThem, CalibrationTypeOK
  <2>3. QED
    BY <2>1, <2>2
<1>10. QED
  BY <1>6, <1>7, <1>8, <1>9

(* A seed that shows nothing new shares its record.                        *)
LEMMA ShareKeeps == ASSUME CalibrationInv, ShareRecord PROVE CalibrationInv'
<1> USE DEF CalibrationInv
<1> DEFINE same == q_entry_ptr[conCkSumMap[sch_exec[cur]]]
<1>1. /\ pc = "decide" /\ pc' = "finish" /\ cur \in Seeds
      /\ sch_exec[cur] \in Features /\ cur \notin calibrated
  BY DEF ShareRecord, CalibrationTypeOK, UnderWay
<1>2. same \in Seeds
  BY <1>1 DEF ShareRecord, CalibrationTypeOK
<1>3. /\ UNCHANGED windows_cks
      /\ q_entry_ptr' \in [Seeds -> Seeds]
  BY <1>1, <1>2 DEF ShareRecord, RecordAfterSharing, CalibrationTypeOK
<1>4. TakesWindows(cur, windows_cks[cur])
  BY DEF ShareRecord
<1>5. UNCHANGED <<curVars, modeVars, seedVars, conCkSumMap, q_w_mem, single_wCks>>
  BY DEF ShareRecord
<1>6. cks_q_w' \in [Windows -> Seeds \cup {None}]
  BY <1>1, <1>4, TakingKeepsOwners DEF CalibrationTypeOK
<1>7. CalibrationTypeOK'
  BY <1>1, <1>3, <1>5, <1>6 DEF CalibrationTypeOK, curVars, modeVars, seedVars
<1>8. UnderWay' /\ SessionsAreBracketed' /\ SameFeatureIsFound' /\ WindowsAreCounted'
  BY <1>1, <1>3, <1>5
  DEF UnderWay, SessionsAreBracketed, SameFeatureIsFound, WindowsAreCounted,
      curVars, modeVars, seedVars
<1>9. WindowOwnersRecordThem'
  BY <1>1, <1>3, <1>4, TakingKeepsOwners DEF WindowOwnersRecordThem, CalibrationTypeOK
<1>10. QED
  BY <1>7, <1>8, <1>9

(* The record of a seed is counted when its calibration is over.           *)
LEMMA FinishKeeps == ASSUME CalibrationInv, Finish PROVE CalibrationInv'
<1> USE DEF CalibrationInv, Finish, CountWindows, curVars, modeVars
<1>1. CalibrationTypeOK'
  BY DEF CalibrationTypeOK, CAL_CHANCES
<1>2. UnderWay' /\ SessionsAreBracketed' /\ SameFeatureIsFound' /\ WindowOwnersRecordThem'
  BY DEF UnderWay, SessionsAreBracketed, SameFeatureIsFound, WindowOwnersRecordThem
<1>3. WindowsAreCounted'
  BY DEF WindowsAreCounted
<1>4. QED
  BY <1>1, <1>2, <1>3

(* A run of the session.                                                   *)
LEMMA PlanRunKeeps == ASSUME CalibrationInv, PlanRun PROVE CalibrationInv'
<1>1. pc = "session" /\ is_scheduel' \in BOOLEAN /\ tmout' \in {"base", "expanded", "1ms"}
  BY RunTyped DEF PlanRun, RunUnderPlan
<1>2. PICK inSession \in SUBSET Windows :
        IF plan < plans
        THEN /\ single_wCks' = single_wCks \cup inSession
             /\ plan' = plan + 1
             /\ UNCHANGED <<pc, need_scheduel, NEED_SCH, windows_cks, conCkSumMap, cks_q_w>>
        ELSE /\ CloseSession(single_wCks \cup inSession)
             /\ UNCHANGED plan
  BY DEF PlanRun
<1>3. UNCHANGED <<cur, stage_cur, stage_max, new_window, plans, seedVars, q_entry_ptr, q_w_mem>>
  BY DEF PlanRun
<1>4. CASE plan < plans
  <2> USE <1>1, <1>2, <1>3, <1>4 DEF CalibrationInv, seedVars
  <2>1. CalibrationTypeOK'
    BY CalibrationAssumption DEF CalibrationTypeOK
  <2>2. UnderWay' /\ SessionsAreBracketed' /\ SameFeatureIsFound'
    BY DEF UnderWay, SessionsAreBracketed, SameFeatureIsFound
  <2>3. WindowsAreCounted' /\ WindowOwnersRecordThem'
    BY DEF WindowsAreCounted, WindowOwnersRecordThem
  <2>4. QED
    BY <2>1, <2>2, <2>3
<1>5. CASE ~(plan < plans)
  <2>1. single_wCks \cup inSession \in SUBSET Windows
    BY DEF CalibrationInv, CalibrationTypeOK
  <2>2. QED
    BY <1>1, <1>2, <1>3, <1>5, <2>1, CloseKeeps
<1>6. QED
  BY <1>4, <1>5

(* The plain runs, and the beginning of a calibration and of a session.    *)
LEMMA CalibrateKeeps ==
  ASSUME CalibrationInv, NEW q \in Seeds, Calibrate(q) PROVE CalibrationInv'
<1> USE DEF CalibrationInv, Calibrate, MayCalibrate
<1>1. CalibrationTypeOK'
  <2>1. cal_failed' \in [Seeds -> 0..CAL_CHANCES]
    BY DEF CalibrationTypeOK, CAL_CHANCES
  <2>2. stage_cur' \in 0..CAL_CYCLES_LONG /\ stage_max' \in {STAGE_MAX, CAL_CYCLES_LONG}
    BY DEF CAL_CYCLES_LONG
  <2>3. QED
    BY <2>1, <2>2 DEF CalibrationTypeOK, modeVars, filterVars
<1>2. UnderWay' /\ SessionsAreBracketed' /\ SameFeatureIsFound'
  BY DEF UnderWay, SessionsAreBracketed, SameFeatureIsFound, modeVars, filterVars, STAGE_MAX
<1>3. WindowsAreCounted' /\ WindowOwnersRecordThem'
  BY DEF WindowsAreCounted, WindowOwnersRecordThem, filterVars
<1>4. QED
  BY <1>1, <1>2, <1>3

LEMMA PlainRunKeeps == ASSUME CalibrationInv, PlainRun PROVE CalibrationInv'
<1> USE DEF CalibrationInv
<1>1. is_scheduel' \in BOOLEAN /\ tmout' \in {"base", "expanded", "1ms"}
  BY RunTyped DEF PlainRun, CalibrationTypeOK
<1>2. PICK f \in Features :
        sch_exec' = [sch_exec EXCEPT ![cur] = f] /\ new_window' = SeenNew(f)
  BY DEF PlainRun
<1>3. /\ pc = "plain" /\ cur \in Seeds /\ cur \notin calibrated
      /\ stage_cur' = stage_cur + 1
      /\ stage_max' = stage_max \/ stage_max' = CAL_CYCLES_LONG
      /\ pc' = IF stage_cur' >= stage_max' THEN "decide" ELSE "plain"
      /\ UNCHANGED <<cur, plans, plan, need_scheduel, NEED_SCH, cal_failed, calibrated, filterVars>>
  BY DEF PlainRun, CalibrationTypeOK, UnderWay
<1>4. sch_exec' \in [Seeds -> Features \cup {None}] /\ sch_exec'[cur] = f
  BY <1>2, <1>3 DEF CalibrationTypeOK
<1>5. stage_cur' \in 0..CAL_CYCLES_LONG /\ stage_max' \in {STAGE_MAX, CAL_CYCLES_LONG}
  BY <1>3 DEF CalibrationTypeOK, UnderWay, STAGE_MAX, CAL_CYCLES_LONG
<1>6. new_window' \in BOOLEAN /\ (~new_window' => conCkSumMap[f] # None)
  BY <1>2 DEF SeenNew, NewConcurrent, CalibrationTypeOK
<1>7. CalibrationTypeOK'
  BY <1>1, <1>3, <1>4, <1>5, <1>6 DEF CalibrationTypeOK, filterVars
<1>8. UnderWay' /\ SessionsAreBracketed' /\ SameFeatureIsFound'
  BY <1>3, <1>4, <1>5, <1>6
  DEF UnderWay, SessionsAreBracketed, SameFeatureIsFound, filterVars, STAGE_MAX, CAL_CYCLES_LONG
<1>9. WindowsAreCounted' /\ WindowOwnersRecordThem'
  BY <1>3 DEF WindowsAreCounted, WindowOwnersRecordThem, filterVars
<1>10. QED
  BY <1>7, <1>8, <1>9

LEMMA OpenKeeps == ASSUME CalibrationInv, OpenSession PROVE CalibrationInv'
<1> USE DEF CalibrationInv, OpenSession, seedVars
<1>1. CalibrationTypeOK'
  <2>1. /\ plans' \in 0..MAX_PLANS /\ plan' \in 0..plans' /\ pc' \in {"session", "exited"}
        /\ need_scheduel' \in BOOLEAN /\ NEED_SCH' \in {"unset", "TRUE", "FALSE"}
        /\ single_wCks' \in SUBSET Windows
    <3>1. PICK n \in 0..MAX_PLANS :
            IF n = 0
            THEN /\ pc' = "exited"
                 /\ UNCHANGED <<plans, plan, need_scheduel, NEED_SCH, single_wCks>>
            ELSE /\ plans' = n /\ plan' = 1 /\ pc' = "session"
                 /\ need_scheduel' = TRUE /\ NEED_SCH' = "TRUE"
                 /\ single_wCks' \in SUBSET Windows
      OBVIOUS
    <3>2. CASE n = 0
      BY <3>1, <3>2 DEF CalibrationTypeOK
    <3>3. CASE n # 0
      <4>1. n \in Nat /\ n <= MAX_PLANS /\ 1 \in 0..n
        BY <3>3, CalibrationAssumption
      <4>2. QED
        BY <3>1, <3>3, <4>1
    <3>4. QED
      BY <3>2, <3>3
  <2>2. QED
    BY <2>1 DEF CalibrationTypeOK
<1>2. UnderWay' /\ SessionsAreBracketed' /\ SameFeatureIsFound'
  BY CalibrationAssumption DEF UnderWay, SessionsAreBracketed, SameFeatureIsFound
<1>3. WindowsAreCounted' /\ WindowOwnersRecordThem'
  BY CalibrationAssumption DEF WindowsAreCounted, WindowOwnersRecordThem
<1>4. QED
  BY <1>1, <1>2, <1>3

(* Runs that end a calibration without a result.                           *)
LEMMA FaultKeeps ==
  ASSUME CalibrationInv, PlainRunFaults \/ PlanRunOfOtherSize
  PROVE  CalibrationInv'
<1> USE DEF CalibrationInv, seedVars, filterVars, curVars
<1>1. /\ is_scheduel' \in BOOLEAN /\ tmout' \in {"base", "expanded", "1ms"}
      /\ pc' \in {"idle", "exited"} /\ (pc = "session" => pc' = "exited")
      /\ pc \in {"plain", "session"}
      /\ UNCHANGED <<curVars, need_scheduel, NEED_SCH, seedVars, filterVars>>
  BY RunTyped DEF PlainRunFaults, PlanRunOfOtherSize, RunUnderPlan, CalibrationTypeOK
<1>2. CalibrationTypeOK'
  BY <1>1 DEF CalibrationTypeOK
<1>3. UnderWay' /\ SessionsAreBracketed' /\ SameFeatureIsFound'
  BY <1>1 DEF UnderWay, SessionsAreBracketed, SameFeatureIsFound
<1>4. WindowsAreCounted' /\ WindowOwnersRecordThem'
  BY <1>1 DEF WindowsAreCounted, WindowOwnersRecordThem
<1>5. QED
  BY <1>2, <1>3, <1>4

LEMMA AbortKeeps == ASSUME CalibrationInv, PlanRunAborts PROVE CalibrationInv'
<1>1. pc = "session" /\ is_scheduel' \in BOOLEAN /\ tmout' \in {"base", "expanded", "1ms"}
  BY RunTyped DEF PlanRunAborts, RunUnderPlan
<1>2. single_wCks \in SUBSET Windows
  BY DEF CalibrationInv, CalibrationTypeOK
<1>3. QED
  BY <1>1, <1>2, CloseKeeps DEF PlanRunAborts, curVars

LEMMA NothingKeeps == ASSUME CalibrationInv, UNCHANGED calibrationVars PROVE CalibrationInv'
BY DEF CalibrationInv, CalibrationTypeOK, UnderWay, SessionsAreBracketed, SameFeatureIsFound,
       WindowsAreCounted, WindowOwnersRecordThem, calibrationVars, curVars, modeVars, seedVars, filterVars

-----------------------------------------------------------------------------
(* CalibrationInv holds in every reachable state.                          *)
THEOREM CalibrationCorrect == CalibrationSpec => []CalibrationInv
<1>1. CalibrationInv /\ [CalibrationNext]_calibrationVars => CalibrationInv'
  BY CalibrateKeeps, PlainRunKeeps, FaultKeeps, ShareKeeps, OpenKeeps, PlanRunKeeps, AbortKeeps,
     FinishKeeps, NothingKeeps
  DEF CalibrationNext, Exited, AllTried
<1>2. QED
  BY <1>1, CalibrationInitInv, PTL DEF CalibrationSpec

(* The types of the calibration's variables, and no seed fails more often  *)
(* than CAL_CHANCES.                                                       *)
THEOREM CalibrationTyped == CalibrationSpec => []CalibrationTypeOK
<1>1. CalibrationInv => CalibrationTypeOK
  BY DEF CalibrationInv
<1>2. QED
  BY <1>1, CalibrationCorrect, PTL

(* Every way out of a session leaves the schedule mode and forgets the     *)
(* windows of the session.                                                 *)
THEOREM SessionsAlwaysBracketed == CalibrationSpec => []SessionsAreBracketed
<1>1. CalibrationInv => SessionsAreBracketed
  BY DEF CalibrationInv
<1>2. QED
  BY <1>1, CalibrationCorrect, PTL

(* The lookup of a feature that no run has shown as new finds a seed.      *)
THEOREM SameFeatureAlwaysFound == CalibrationSpec => []SameFeatureIsFound
<1>1. CalibrationInv => SameFeatureIsFound
  BY DEF CalibrationInv
<1>2. QED
  BY <1>1, CalibrationCorrect, PTL

(* The windows of calibrated seeds have a count.                           *)
THEOREM WindowsAlwaysCounted == CalibrationSpec => []WindowsAreCounted
<1>1. CalibrationInv => WindowsAreCounted
  BY DEF CalibrationInv
<1>2. QED
  BY <1>1, CalibrationCorrect, PTL

(* A window is registered for a seed that has it in its record.            *)
THEOREM WindowOwnersAlwaysRecord == CalibrationSpec => []WindowOwnersRecordThem
<1>1. CalibrationInv => WindowOwnersRecordThem
  BY DEF CalibrationInv
<1>2. QED
  BY <1>1, CalibrationCorrect, PTL
=============================================================================
