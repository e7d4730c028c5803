------------------------------- MODULE Saving -------------------------------
(***************************************************************************)
(* What becomes of the result of a run: has_new_bits, simplify_trace and   *)
(* save_if_interesting with the three virgin maps, over any number of runs *)
(* and resumes.  Runs differ from time to time, as a program with threads  *)
(* does: the runs of a calibration and the second run of a hang need not   *)
(* show what the first one showed.                                         *)
(***************************************************************************)
EXTENDS Naturals, FiniteSets

CONSTANTS
  Bytes,              \* positions of the coverage map
  KEEP_UNIQUE_HANG, KEEP_UNIQUE_CRASH,
  MAX_RESUMES         \* bound on resumes

ASSUME SavingAssumption ==
  /\ IsFiniteSet(Bytes) /\ Bytes # {}
  /\ {KEEP_UNIQUE_HANG, KEEP_UNIQUE_CRASH, MAX_RESUMES} \subseteq Nat

(* Two of the eight hit count classes, those simplify_trace writes, too.   *)
Classes == {1, 128}
Trace == [Bytes -> Classes \cup {0}]
Virgin == [b \in Bytes |-> Classes]

VARIABLES
  virgin_bits, virgin_tmout, virgin_crash,
  crash_mode,         \* "-C": FAULT_CRASH is what is queued, not FAULT_NONE
  short_tmout,        \* exec_tmout < hang_tmout
  unique_crashes, unique_hangs,   \* files in crashes/ and hangs/
  resumes,
  shown,              \* bytes and classes in plain runs of queue entries
  judged,             \* traces, as sets of bytes, of this session's crashes
  report              \* the latest crash, and whether it was kept

virginMaps == <<virgin_bits, virgin_tmout, virgin_crash>>
crashFiles == <<unique_crashes, judged, report>>
options == <<crash_mode, short_tmout>>
vars == <<virginMaps, options, crashFiles, unique_hangs, resumes, shown>>

SavingTypeOK ==
  /\ {virgin_bits, virgin_tmout, virgin_crash} \subseteq [Bytes -> SUBSET Classes]
  /\ {crash_mode, short_tmout} \subseteq BOOLEAN
  /\ unique_crashes \in 0..KEEP_UNIQUE_CRASH /\ unique_hangs \in 0..KEEP_UNIQUE_HANG
  /\ resumes \in 0..MAX_RESUMES /\ shown \subseteq Bytes \X Classes
  /\ judged \subseteq SUBSET Bytes /\ report \in [hits: SUBSET Bytes, kept: BOOLEAN]

Init ==
  /\ virgin_bits = Virgin /\ virgin_tmout = Virgin /\ virgin_crash = Virgin
  /\ crash_mode \in BOOLEAN /\ short_tmout \in BOOLEAN
  /\ unique_crashes = 0 /\ unique_hangs = 0
  /\ resumes = 0 /\ shown = {} /\ judged = {}
  /\ report = [hits |-> {}, kept |-> FALSE]

-----------------------------------------------------------------------------
(* The maps.                                                               *)

Hits(trace) == {b \in Bytes : trace[b] # 0}
Pairs(trace) == {<<b, trace[b]>> : b \in Hits(trace)}

(* has_new_bits: 2 for a byte never hit before, 1 for a new class only.    *)
HasNewBits(trace, virgin) ==
  IF \A b \in Bytes : trace[b] \notin virgin[b] THEN 0
  ELSE IF \E b \in Hits(trace) : virgin[b] = Classes THEN 2
  ELSE 1

Cleared(virgin, trace) == [b \in Bytes |-> virgin[b] \ {trace[b]}]

(* simplify_trace; what is not hit becomes a class of its own.  A bug of   *)
(* it: a byte that is not hit stays zero.                                  *)
SimplifyHitsOnly(trace) == [b \in Bytes |-> IF trace[b] = 0 THEN 0 ELSE 128]
SimplifyTrace(trace) == [b \in Bytes |-> IF trace[b] = 0 THEN 1 ELSE 128]

-----------------------------------------------------------------------------
(* save_if_interesting.                                                    *)

(* A bug of Queue: the calibration does not look for new bits.             *)
QueueLooksOnce(trace, again) ==
  /\ HasNewBits(trace, virgin_bits) # 0
  /\ virgin_bits' = Cleared(virgin_bits, trace)
  /\ shown' = shown \cup Pairs(trace) \cup Pairs(again)

(* The input becomes a queue entry if its trace or only the hit counts are *)
(* new, and is calibrated at once.  A plain run whose trace differs from   *)
(* that of the run before clears its own bits (again); a planned run clears*)
(* none.                                                                   *)
Queue(trace, again) ==
  /\ HasNewBits(trace, virgin_bits) # 0
  /\ virgin_bits' = Cleared(Cleared(virgin_bits, trace), again)
  /\ shown' = shown \cup Pairs(trace) \cup Pairs(again)

NotQueued == UNCHANGED <<virgin_bits, shown>>

(* keep_as_crash, with the map as it is then.                              *)
KeepAsCrash(trace) ==
  LET new == HasNewBits(SimplifyTrace(trace), virgin_crash) # 0
      keep == unique_crashes < KEEP_UNIQUE_CRASH /\ new
  IN /\ virgin_crash' = IF keep THEN Cleared(virgin_crash, SimplifyTrace(trace))
                        ELSE virgin_crash
     /\ judged' = judged \cup {Hits(trace)}
     /\ report' = [hits |-> Hits(trace), kept |-> keep]
     /\ unique_crashes' = IF keep THEN unique_crashes + 1 ELSE unique_crashes

NotACrash == UNCHANGED <<virgin_crash, crashFiles>>
NotAHang == UNCHANGED <<virgin_tmout, unique_hangs>>
Stays == UNCHANGED <<options, resumes>>

(* A run without a fault.                                                  *)
SaveNormal ==
  /\ ~crash_mode
  /\ \E trace, again \in Trace : Queue(trace, again)
  /\ NotACrash /\ NotAHang /\ Stays

SaveCrash ==
  /\ ~crash_mode
  /\ \E trace \in Trace : KeepAsCrash(trace)
  /\ NotQueued /\ NotAHang /\ Stays

(* With -C the crash is queued and calibrated first, and what is judged    *)
(* after that is the map the calibration has left.                         *)
SaveCrashInCrashMode ==
  /\ crash_mode
  /\ \E trace, left \in Trace : Queue(trace, left) /\ KeepAsCrash(left)
  /\ NotAHang /\ Stays

(* A timeout.  Its bits are taken from virgin_tmout before the second run  *)
(* tells whether it is a hang.                                             *)
NewTimeout(trace) ==
  /\ unique_hangs < KEEP_UNIQUE_HANG
  /\ HasNewBits(SimplifyTrace(trace), virgin_tmout) # 0
  /\ virgin_tmout' = Cleared(virgin_tmout, SimplifyTrace(trace))

SaveHang ==
  /\ \E trace \in Trace : NewTimeout(trace)
  /\ unique_hangs' = unique_hangs + 1
  /\ NotQueued /\ NotACrash /\ Stays

(* With the longer timeout the program ends, or a stop comes in between.   *)
DropHang ==
  /\ short_tmout
  /\ \E trace \in Trace : NewTimeout(trace)
  /\ NotQueued /\ NotACrash /\ Stays /\ UNCHANGED unique_hangs

(* With the longer timeout it crashes, and takes the way of crashes with   *)
(* the map of the second run.                                              *)
HangCrashes ==
  /\ short_tmout
  /\ \E trace, again \in Trace : NewTimeout(trace) /\ KeepAsCrash(again)
  /\ NotQueued /\ Stays /\ UNCHANGED unique_hangs

-----------------------------------------------------------------------------

(* The fuzzer is stopped and resumed.  The maps are new, crashes/ and      *)
(* hangs/ are moved away and counted from 0, and the dry run calibrates    *)
(* what is in the queue: runs shows what it shows now, nothing for an      *)
(* entry that is skipped.                                                  *)
Resume ==
  /\ resumes < MAX_RESUMES
  /\ resumes' = resumes + 1
  /\ virgin_tmout' = Virgin /\ virgin_crash' = Virgin
  /\ \E runs \in SUBSET shown :
       /\ virgin_bits' = [b \in Bytes |-> {c \in Classes : <<b, c>> \notin runs}]
       /\ shown' = runs
  /\ unique_crashes' = 0 /\ unique_hangs' = 0 /\ judged' = {}
  /\ UNCHANGED <<options, report>>

(* Nothing is new.                                                         *)
NothingNew == UNCHANGED vars

Next ==
  \/ SaveNormal \/ SaveCrash \/ SaveCrashInCrashMode
  \/ SaveHang \/ DropHang \/ HangCrashes
  \/ Resume \/ NothingNew

Spec == Init /\ [][Next]_vars

-----------------------------------------------------------------------------

(* virgin_bits and the queue agree: coverage counts as known exactly if    *)
(* some entry of the queue has shown it.  What only a crash or a timeout   *)
(* has shown is still worth an entry.                                      *)
KnownCoverageIsQueued ==
  {p \in Bytes \X Classes : p[2] \notin virgin_bits[p[1]]} = shown

(* A crash has a file exactly if its trace includes a tuple that no crash  *)
(* before it has, or misses one that all have: virgin_crash, two bits per  *)
(* byte that saved crashes clear, says the same as all earlier traces do.  *)
(* The trace is that of the run that crashed, or with -C the one that the  *)
(* calibration of the crash has left in the map.                           *)
Dedup == INSTANCE CrashDedup WITH
  MAX_KEPT <- KEEP_UNIQUE_CRASH, earlier <- judged, kept <- unique_crashes, last <- report

ImplementsCrashDedup == Dedup!Spec

(* The same of hangs is not true: a timeout that turns out to be none has  *)
(* taken its tuples, and a hang with these tuples is not kept after it.    *)
EveryTimeoutIsKept ==
  [][virgin_tmout' \notin {virgin_tmout, Virgin} => unique_hangs' # unique_hangs]_vars
=============================================================================
