---------------------------- MODULE SyncFuzzers ----------------------------
(***************************************************************************)
(* sync_fuzzers of one fuzzer, the reader, over the queue directory of     *)
(* another, which is started, resumed, killed and run as OutputDir says.   *)
(* The two share nothing but files: the reader keeps one number per other  *)
(* fuzzer in its own .synced directory, the least id it has not looked at. *)
(***************************************************************************)
EXTENDS OutputDir

CONSTANTS
  MAX_STOPS    \* bound on stops and new starts of the reader

ASSUME SyncAssumption == MAX_STOPS \in Nat

VARIABLES
  synced,          \* .synced/<other>, 0 if there is no such file
  seen,            \* cases the reader ran since it was started anew
  spc,             \* "fuzzing", "scanning" or "anew"
  next_min_accept,
  snapshot,        \* ids that were in the directory when it was opened
  returned,        \* ids readdir has returned
  same_dir,        \* the open directory is still <other>/queue
  stops,
  \* Variables that no program has, for the properties.
  untouched,       \* ids whose case was in its place since the directory was opened
  missed,          \* ids that a scan passed and that were not untouched in it
  renumbered       \* ids mean other cases than when synced was set

scan == <<spc, next_min_accept, snapshot, returned, same_dir, untouched>>
syncVars == <<synced, seen, scan, stops, missed, renumbered>>
vars == <<dirVars, syncVars>>

SyncTypeOK ==
  /\ OutputDirTypeOK
  /\ synced \in 0..MAX_PATHS /\ next_min_accept \in 0..MAX_PATHS
  /\ seen \in SUBSET Cases
  /\ spc \in {"fuzzing", "scanning", "anew"}
  /\ {snapshot, returned, untouched, missed} \subseteq SUBSET Ids
  /\ same_dir \in BOOLEAN /\ renumbered \in BOOLEAN
  /\ stops \in 0..MAX_STOPS

SyncInit ==
  /\ Init
  /\ synced = 0 /\ seen = {} /\ spc = "fuzzing" /\ next_min_accept = 0
  /\ snapshot = {} /\ returned = {} /\ same_dir = FALSE /\ stops = 0
  /\ untouched = {} /\ missed = {} /\ renumbered = FALSE

-----------------------------------------------------------------------------

(* The other fuzzer deletes its queue to start anew, or resumes from what   *)
(* such a start had left of it when it was killed.                         *)
Renumbers ==
  \/ CleanQueue /\ ~in_place_resume
  \/ RenameQueue /\ CanRename(queue, resume) /\ ~queue.dot_state

(* A step of the other fuzzer.                                             *)
OtherStep ==
  /\ DirNext
  /\ same_dir' = (same_dir /\ queue' # NoDir)
  /\ untouched' = IF queue' = NoDir THEN {} ELSE untouched \cap DOMAIN queue'.files
  /\ renumbered' = (renumbered \/ (synced > 0 /\ Renumbers))
  /\ UNCHANGED <<synced, seen, spc, next_min_accept, snapshot, returned, stops, missed>>

(* opendir, and the number kept from the last time.                        *)
OpenDir ==
  /\ spc = "fuzzing" /\ queue # NoDir
  /\ spc' = "scanning" /\ next_min_accept' = synced
  /\ snapshot' = DOMAIN queue.files /\ returned' = {} /\ same_dir' = TRUE
  /\ untouched' = Usable(queue)
  /\ UNCHANGED <<dirVars, synced, seen, stops, missed, renumbered>>

(* readdir returns the names in any order.  A name that was added after    *)
(* opendir, or removed, may be returned or not.                            *)
MayReturn == (snapshot \cup IF same_dir THEN DOMAIN queue.files ELSE {}) \ returned
MustReturn == IF same_dir THEN (snapshot \cap DOMAIN queue.files) \ returned ELSE {}

MaxOf(m, n) == IF m > n THEN m ELSE n

(* The case with this name can be opened and is neither empty nor too      *)
(* large; the name is looked up anew.                                      *)
CanRead(id) == queue # NoDir /\ id \in DOMAIN queue.files /\ queue.files[id] # Zero

(* A bug of LookAt: ids start at 1, the number kept is taken for seen.     *)
LooksAbove(id) ==
  /\ id \in MayReturn
  /\ returned' = returned \cup {id}
  /\ IF id <= synced /\ synced > 0
     THEN UNCHANGED <<next_min_accept, seen>>
     ELSE /\ next_min_accept' = MaxOf(next_min_accept, id + 1)
          /\ seen' = IF CanRead(id) THEN seen \cup {queue.files[id]} ELSE seen
  /\ UNCHANGED <<dirVars, synced, spc, snapshot, same_dir, untouched, stops, missed, renumbered>>

(* One name: the number is raised before the file is opened.               *)
LookAt(id) ==
  /\ id \in MayReturn
  /\ returned' = returned \cup {id}
  /\ IF id < synced
     THEN UNCHANGED <<next_min_accept, seen>>
     ELSE /\ next_min_accept' = MaxOf(next_min_accept, id + 1)
          /\ seen' = IF CanRead(id) THEN seen \cup {queue.files[id]} ELSE seen
  /\ UNCHANGED <<dirVars, synced, spc, snapshot, same_dir, untouched, stops, missed, renumbered>>

Readdir == spc = "scanning" /\ \E id \in Ids : LookAt(id)

ScanForgotten ==
  /\ next_min_accept' = 0 /\ snapshot' = {} /\ returned' = {} /\ same_dir' = FALSE
  /\ untouched' = {}

(* After the last name the number is written.                              *)
CloseDir ==
  /\ spc = "scanning" /\ MustReturn = {}
  /\ synced' = next_min_accept
  /\ missed' = missed \cup ((synced..(next_min_accept - 1)) \ untouched)
  /\ spc' = "fuzzing" /\ ScanForgotten
  /\ UNCHANGED <<dirVars, seen, stops, renumbered>>

(* A bug of StopScan: the number is written on the way out.                *)
StopWritesAccept ==
  /\ spc \in {"scanning", "anew"} /\ stops < MAX_STOPS
  /\ stops' = stops + 1
  /\ synced' = IF spc = "scanning" THEN next_min_accept ELSE synced
  /\ spc' = "fuzzing" /\ ScanForgotten
  /\ UNCHANGED <<dirVars, seen, missed, renumbered>>

(* The reader is stopped or killed in the middle of a scan; nothing is     *)
(* written, and what it ran is in its own queue.                           *)
StopScan ==
  /\ spc \in {"scanning", "anew"} /\ stops < MAX_STOPS
  /\ stops' = stops + 1
  /\ spc' = "fuzzing" /\ ScanForgotten
  /\ UNCHANGED <<dirVars, synced, seen, missed, renumbered>>

(* The reader is started anew: maybe_delete_out_dir deletes .synced first, *)
StartAnew ==
  /\ spc = "fuzzing" /\ stops < MAX_STOPS
  /\ stops' = stops + 1
  /\ spc' = "anew" /\ synced' = 0 /\ missed' = {} /\ renumbered' = FALSE
  /\ UNCHANGED <<dirVars, seen, next_min_accept, snapshot, returned, same_dir, untouched>>

(* and the queue with what was imported into it next.                      *)
DeleteQueue ==
  /\ spc = "anew"
  /\ seen' = {} /\ spc' = "fuzzing"
  /\ UNCHANGED <<dirVars, synced, next_min_accept, snapshot, returned, same_dir, untouched, stops,
                 missed, renumbered>>

Reader == OpenDir \/ Readdir \/ CloseDir \/ StopScan \/ StartAnew \/ DeleteQueue

Next == OtherStep \/ Reader

Spec == SyncInit /\ [][Next]_vars

(* The reader's loop goes on, and with it every SYNC_INTERVAL calls of     *)
(* fuzz_one a scan; the other fuzzer and the stops get no fairness.        *)
FairSpec == Spec /\ WF_vars(OpenDir) /\ WF_vars(Readdir) /\ WF_vars(CloseDir) /\ WF_vars(DeleteQueue)

-----------------------------------------------------------------------------

(* The number kept passes no case that the reader did not run, but those    *)
(* that were not in their place, complete, from opendir to closedir of the *)
(* scan that passed them: ids below the number are not looked at again, so *)
(* such a case would be lost for the reader.  It rests on ids that keep    *)
(* their meaning over a resume of the other fuzzer, and so on pivot_inputs.*)
SkippedIsSeen ==
  queue # NoDir /\ ~renumbered =>
    \A id \in DOMAIN queue.files :
      id < synced /\ id \notin missed /\ queue.files[id] # Zero => queue.files[id] \in seen

(* "will incorporate them into its own fuzzing": a case that stays on disk *)
(* and was not missed is run by the reader, stops and new starts of the    *)
(* reader included.                                                        *)
OnDisk(c) == queue # NoDir /\ \E id \in DOMAIN queue.files \ missed : queue.files[id] = c

EveryCaseIsRun ==
  \A c \in Cases : <>[](~renumbered /\ OnDisk(c)) => <>[](c \in seen)

-----------------------------------------------------------------------------
(* What the code does not keep: "Each instance will also periodically       *)
(* rescan the top-level sync directory for any test cases found by other   *)
(* fuzzers - and will incorporate them into its own fuzzing"               *)
(* (docs/parallel_fuzzing.txt:50): a case that is not yet complete when a  *)
(* scan comes to it, or that readdir does not return, is passed for good.  *)
NoCaseIsMissed ==
  queue # NoDir /\ ~renumbered =>
    \A id \in DOMAIN queue.files :
      id < synced /\ queue.files[id] # Zero => queue.files[id] \in seen
=============================================================================
