----------------------------- MODULE OutputDir -----------------------------
(***************************************************************************)
(* The output directory of one fuzzer over any number of starts, resumes   *)
(* ("-i -") and aborts: setup_dirs_fds, maybe_delete_out_dir,              *)
(* read_testcases, pivot_inputs and nuke_resume_dir, then the files that a *)
(* running fuzzer writes.  Every system call that changes a directory is a *)
(* step, and the process may be killed between any two.                    *)
(*                                                                         *)
(* crashes/, hangs/, the plot, the bitmap and the dictionary are left out: *)
(* no step of the protocol below looks at them.                            *)
(***************************************************************************)
EXTENDS Naturals, Sequences, FiniteSets, Functions

CONSTANTS
  Cases,       \* contents of test cases
  Zero,        \* the content of a file that was created and not yet written
  InputDir,    \* the user's input directory, in alphasort order
  MAX_PATHS,   \* bound on queued_paths
  MAX_STARTS,  \* bound on how often the fuzzer is started
  Races,       \* which of the events of RaceNames may happen
  NoDir        \* a directory that does not exist

(* Events after which a resume need not find what the user expects:        *)
(* an abort in the middle of nuke_resume_dir, one while trim_case writes a  *)
(* case anew, and a session started anew while _resume of an aborted        *)
(* resume is still there.                                                  *)
RaceNames == {"abort_in_nuke", "abort_in_trim", "fresh_over_resume"}

ASSUME OutputDirAssumption ==
  /\ Zero \notin Cases /\ InputDir \in Seq(Cases)
  /\ MAX_PATHS \in Nat /\ MAX_STARTS \in Nat /\ Len(InputDir) \in 1..MAX_PATHS
  /\ Races \subseteq RaceNames

VARIABLES
  queue, resume,    \* <out_dir>/queue and <out_dir>/_resume
  fuzzer_stats,     \* "absent", "torn", or the minutes of work it admits to
  pc,               \* where the process stands, "off" without one
  in_place_resume,  \* started with "-i -"
  entries,          \* the queue in memory; the file of entry n has id n - 1
  pivoted,          \* how many entries pivot_inputs is through with
  target,           \* the entry whose file is being created, or 0
  long_run,         \* this process has run for more than OUTPUT_GRACE
  starts,
  promised          \* cases, and cases with their deterministic stages done,
                    \* that a session had on disk since it was started anew

disk == <<queue, resume, fuzzer_stats>>
process == <<in_place_resume, entries, pivoted, target, long_run>>
dirVars == <<disk, pc, process, starts, promised>>

Ids == 0..(MAX_PATHS - 1)
Entry == [case: Cases, det: BOOLEAN]
QueueEntry == [case: Cases, det: BOOLEAN, trim_done: BOOLEAN]
Name(e) == [case |-> e.case, det |-> e.det]
Dirs == [files: UNION {[I -> Cases \cup {Zero}] : I \in SUBSET Ids},
         dot_state: BOOLEAN, done: SUBSET Ids]
EmptyDir == [files |-> <<>>, dot_state |-> FALSE, done |-> {}]

ASSUME NoDirAssumption == NoDir \notin Dirs

Places == {"off", "stats", "rename", "clean", "unlink_stats", "mkdir", "mkdir_state",
           "read", "pivot", "pivot_done", "nuke", "dry_run", "fill_stats", "run",
           "create", "write"}

OutputDirTypeOK ==
  /\ {queue, resume} \subseteq Dirs \cup {NoDir}
  /\ fuzzer_stats \in {"absent", "torn", "little", "much"}
  /\ pc \in Places /\ in_place_resume \in BOOLEAN /\ long_run \in BOOLEAN
  /\ entries \in Seq(QueueEntry) /\ Len(entries) <= MAX_PATHS
  /\ target \in 0..Len(entries)
  /\ pivoted \in 0..MAX_PATHS /\ starts \in 0..MAX_STARTS
  /\ promised \in SUBSET Entry

(* Before the first start; a directory that does not exist and one that is *)
(* empty take the same way through setup_dirs_fds.                         *)
Init ==
  /\ queue = NoDir /\ resume = NoDir /\ fuzzer_stats = "absent"
  /\ pc = "off" /\ in_place_resume = FALSE /\ entries = <<>> /\ pivoted = 0 /\ target = 0
  /\ long_run = FALSE /\ starts = 0 /\ promised = {}

-----------------------------------------------------------------------------
(* Directories.                                                            *)

IsEmpty(d) == d.files = <<>> /\ ~d.dot_state

(* rename(2) of a directory replaces an empty target only.                 *)
CanRename(from, to) ==
  /\ from # NoDir
  /\ to # NoDir => IsEmpty(to)

(* The id in the name of entry n. *)
IdOf(n) == n - 1

Add(d, id, content) ==
  [d EXCEPT !.files = [i \in DOMAIN @ \cup {id} |-> IF i = id THEN content ELSE @[i]]]

Unlink(d, id) == [d EXCEPT !.files = [i \in DOMAIN @ \ {id} |-> @[i]]]

(* One call of delete_files and rmdir in the order maybe_delete_out_dir    *)
(* and nuke_resume_dir use: flags, .state, cases in the order of readdir,  *)
(* the directory.  The other subdirectories of .state go with it.          *)
Shrink(d) ==
  IF d.done # {} THEN {[d EXCEPT !.done = @ \ {i}] : i \in d.done}
  ELSE IF d.dot_state THEN {[d EXCEPT !.dot_state = FALSE]}
  ELSE IF d.files # <<>> THEN {Unlink(d, i) : i \in DOMAIN d.files}
  ELSE {NoDir}

(* What add_to_queue gets from a directory: names in alphasort order,      *)
(* empty files skipped, passed_det where the flag exists.                  *)
Usable(d) == {i \in DOMAIN d.files : d.files[i] # Zero}
Rank(i, U) == Cardinality({j \in U : j < i})
Nth(n, U) == CHOOSE i \in U : Rank(i, U) = n - 1
CaseOf(d, i) == [case |-> d.files[i], det |-> i \in d.done, trim_done |-> FALSE]

ReadCases(d) == [n \in 1..Cardinality(Usable(d)) |-> CaseOf(d, Nth(n, Usable(d)))]

Fresh == [n \in 1..Len(InputDir) |-> [case |-> InputDir[n], det |-> FALSE, trim_done |-> FALSE]]

(* What a directory that holds the entries of s is asked for: the cases,   *)
(* and for a case with its deterministic stages done the flag, too.        *)
Promises(s) == UNION {{Name(e), [Name(e) EXCEPT !.det = FALSE]} : e \in Range(s)}

-----------------------------------------------------------------------------
(* Starting.                                                               *)

Goto(place) == pc' = place

(* The user starts the fuzzer, anew (-i dir) or to resume (-i -).          *)
Start ==
  /\ pc = "off" /\ starts < MAX_STARTS
  /\ \E inplace \in BOOLEAN :
       /\ ~inplace /\ resume # NoDir => "fresh_over_resume" \in Races
       /\ in_place_resume' = inplace
  /\ starts' = starts + 1 /\ entries' = <<>> /\ pivoted' = 0 /\ target' = 0 /\ long_run' = FALSE
  /\ Goto("stats")
  /\ UNCHANGED <<disk, promised>>

Proceed(place) == Goto(place) /\ UNCHANGED <<process, starts>>

(* maybe_delete_out_dir looks at fuzzer_stats: a file that cannot be read  *)
(* ends every kind of start, much work ends one that would delete it.      *)
CheckStats ==
  /\ pc = "stats"
  /\ IF fuzzer_stats = "torn" \/ (fuzzer_stats = "much" /\ ~in_place_resume)
     THEN Proceed("off") /\ UNCHANGED promised
     ELSE /\ Proceed(IF in_place_resume THEN "rename" ELSE "clean")
          /\ promised' = IF in_place_resume THEN promised ELSE {}
  /\ UNCHANGED disk

(* A bug of RenameQueue: the old _resume is thrown away for the queue.     *)
RenamesOverResume ==
  /\ pc = "rename"
  /\ IF queue # NoDir
     THEN queue' = NoDir /\ resume' = queue
     ELSE UNCHANGED <<queue, resume>>
  /\ Proceed("clean")
  /\ UNCHANGED <<fuzzer_stats, promised>>

(* The old queue is moved to _resume, unless an earlier one is there.      *)
RenameQueue ==
  /\ pc = "rename"
  /\ IF CanRename(queue, resume)
     THEN queue' = NoDir /\ resume' = queue
     ELSE UNCHANGED <<queue, resume>>
  /\ Proceed("clean")
  /\ UNCHANGED <<fuzzer_stats, promised>>

(* What is left of queue/ is deleted.                                      *)
CleanQueue ==
  /\ pc = "clean"
  /\ IF queue = NoDir
     THEN Proceed("unlink_stats") /\ UNCHANGED queue
     ELSE queue' \in Shrink(queue) /\ Proceed("clean")
  /\ UNCHANGED <<resume, fuzzer_stats, promised>>

UnlinkStats ==
  /\ pc = "unlink_stats"
  /\ fuzzer_stats' = IF in_place_resume THEN fuzzer_stats ELSE "absent"
  /\ Proceed("mkdir")
  /\ UNCHANGED <<queue, resume, promised>>

(* setup_dirs_fds after the cleanup.                                       *)
MakeDirs ==
  /\ \/ pc = "mkdir" /\ queue' = EmptyDir /\ Proceed("mkdir_state")
     \/ pc = "mkdir_state" /\ queue' = [queue EXCEPT !.dot_state = TRUE] /\ Proceed("read")
  /\ UNCHANGED <<resume, fuzzer_stats, promised>>

(* read_testcases: a directory without cases, or none, ends the process.   *)
ReadTestcases ==
  /\ pc = "read"
  /\ entries' = IF ~in_place_resume THEN Fresh
                ELSE IF resume = NoDir THEN <<>> ELSE ReadCases(resume)
  /\ Goto(IF entries' = <<>> THEN "off" ELSE "pivot")
  /\ UNCHANGED <<disk, in_place_resume, pivoted, target, long_run, starts, promised>>

(* pivot_inputs: a link for the next entry, then the flag it carries over. *)
PivotInput ==
  /\ pc = "pivot" /\ pivoted < Len(entries)
  /\ queue' = Add(queue, pivoted, entries[pivoted + 1].case)
  /\ Goto("pivot_done")
  /\ UNCHANGED <<resume, fuzzer_stats, process, starts, promised>>

(* A bug of PivotDone: the flag of an entry read with one is not made anew.*)
PivotForgetsDone ==
  /\ pc = "pivot_done"
  /\ pivoted' = pivoted + 1
  /\ Goto("pivot")
  /\ UNCHANGED <<disk, in_place_resume, entries, target, long_run, starts, promised>>

PivotDone ==
  /\ pc = "pivot_done"
  /\ queue' = IF entries[pivoted + 1].det
              THEN [queue EXCEPT !.done = @ \cup {pivoted}] ELSE queue
  /\ pivoted' = pivoted + 1
  /\ Goto("pivot")
  /\ UNCHANGED <<resume, fuzzer_stats, in_place_resume, entries, target, long_run, starts, promised>>

PivotEnds ==
  /\ pc = "pivot" /\ pivoted = Len(entries)
  /\ Proceed(IF in_place_resume THEN "nuke" ELSE "dry_run")
  /\ promised' = promised \cup Promises(entries)
  /\ UNCHANGED disk

(* nuke_resume_dir: only now is the old copy deleted.                      *)
NukeResumeDir ==
  /\ pc = "nuke"
  /\ IF resume = NoDir
     THEN Proceed("dry_run") /\ UNCHANGED resume
     ELSE resume' \in Shrink(resume) /\ Proceed("nuke")
  /\ UNCHANGED <<queue, fuzzer_stats, promised>>

-----------------------------------------------------------------------------
(* Running.                                                                *)

(* write_stats_file: the file is truncated when it is opened, and holds    *)
(* the time since the start of this process when it is closed.             *)
TruncateStats ==
  /\ pc \in {"dry_run", "run"}
  /\ fuzzer_stats' = "torn"
  /\ Proceed("fill_stats")
  /\ UNCHANGED <<queue, resume, promised>>

FillStats ==
  /\ pc = "fill_stats"
  /\ long_run' \in {long_run, TRUE}
  /\ fuzzer_stats' = IF long_run' THEN "much" ELSE "little"
  /\ Goto("run")
  /\ UNCHANGED <<queue, resume, in_place_resume, entries, pivoted, target, starts, promised>>

(* save_if_interesting adds the entry, and calibrates it, before there is a*)
(* file; a case of the queue has no new bits and is not added again.       *)
AddToQueue ==
  /\ pc = "run" /\ Len(entries) < MAX_PATHS
  /\ \E c \in Cases \ {e.case : e \in Range(entries)} :
       entries' = Append(entries, [case |-> c, det |-> FALSE, trim_done |-> FALSE])
  /\ target' = Len(entries')
  /\ Goto("create")
  /\ UNCHANGED <<disk, in_place_resume, pivoted, long_run, starts, promised>>

(* trim_case, once for each entry: if it found something to leave out it    *)
(* deletes the file and creates it anew.                                   *)
TrimCase ==
  /\ pc = "run"
  /\ \E n \in 1..Len(entries) :
       /\ ~entries[n].trim_done
       /\ entries' = [entries EXCEPT ![n].trim_done = TRUE]
       /\ \/ UNCHANGED <<queue, target, pc>>
          \/ /\ queue' = Unlink(queue, IdOf(n))
             /\ target' = n
             /\ Goto("create")
  /\ UNCHANGED <<resume, fuzzer_stats, in_place_resume, pivoted, long_run, starts, promised>>

Trimming == pc \in {"create", "write"} /\ entries[target].trim_done

NewId == IdOf(target)

(* The file is opened with O_EXCL, by save_if_interesting or trim_case.     *)
CreateCase ==
  /\ pc = "create"
  /\ IF NewId \in DOMAIN queue.files
     THEN Proceed("off") /\ UNCHANGED queue
     ELSE queue' = Add(queue, NewId, Zero) /\ Proceed("write")
  /\ UNCHANGED <<resume, fuzzer_stats, promised>>

WriteCase ==
  /\ pc = "write"
  /\ queue' = Add(queue, NewId, entries[target].case)
  /\ promised' = promised \cup {Name(entries[target])}
  /\ target' = 0
  /\ Goto("run")
  /\ UNCHANGED <<resume, fuzzer_stats, in_place_resume, entries, pivoted, long_run, starts>>

(* mark_as_det_done after the deterministic stages of an entry.            *)
MarkAsDetDone ==
  /\ pc = "run"
  /\ \E n \in 1..Len(entries) :
       /\ entries[n].trim_done /\ ~entries[n].det
       /\ entries' = [entries EXCEPT ![n].det = TRUE]
       /\ queue' = [queue EXCEPT !.done = @ \cup {IdOf(n)}]
       /\ promised' = promised \cup {Name(entries'[n])}
  /\ UNCHANGED <<resume, fuzzer_stats, pc, in_place_resume, pivoted, target, long_run, starts>>

(* The process is killed, loses its power or ends itself.  (An ordinary    *)
(* stop writes the statistics once more and then does the same.)           *)
Abort ==
  /\ pc # "off"
  /\ pc = "nuke" => "abort_in_nuke" \in Races
  /\ Trimming => "abort_in_trim" \in Races
  /\ pc' = "off" /\ entries' = <<>> /\ pivoted' = 0 /\ target' = 0 /\ long_run' = FALSE
  /\ UNCHANGED <<disk, in_place_resume, starts, promised>>

SetUp == Start \/ CheckStats \/ RenameQueue \/ CleanQueue \/ UnlinkStats \/ MakeDirs
           \/ ReadTestcases
Pivot == PivotInput \/ PivotDone \/ PivotEnds \/ NukeResumeDir
Run == TruncateStats \/ FillStats \/ AddToQueue \/ TrimCase \/ CreateCase \/ WriteCase \/ MarkAsDetDone

(* The user starts it no more.                                             *)
Unused == pc = "off" /\ starts = MAX_STARTS /\ UNCHANGED dirVars

DirNext == SetUp \/ Pivot \/ Run \/ Abort \/ Unused

DirSpec == Init /\ [][DirNext]_dirVars

-----------------------------------------------------------------------------
(* What the directory promises.                                            *)

(* The directory the next "-i -" would read.                               *)
ResumeSource == IF CanRename(queue, resume) THEN queue ELSE resume

Found == IF ResumeSource = NoDir THEN {} ELSE Promises(ReadCases(ResumeSource))

(* Whenever the process is killed, a resume finds every case and every     *)
(* "deterministic stages done" flag that were on disk: during the import   *)
(* in _resume, otherwise in queue/.  In nuke_resume_dir both are in        *)
(* queue/ and _resume shrinks, so this says nothing there; what an abort   *)
(* at that place leaves behind is seen after it, and likewise in trim_case. *)
ResumeFindsAll == pc # "nuke" /\ ~Trimming => promised \subseteq Found

(* The same of the cases alone, as the comment in maybe_delete_out_dir has *)
(* it: the old queue "gets deleted once import to the new queue/ is        *)
(* finished".                                                              *)
ResumeFindsCases ==
  pc # "nuke" /\ ~Trimming => {e.case : e \in promised} \subseteq {e.case : e \in Found}

(* While fuzz_one runs, the file of every entry has the entry's content,   *)
(* the flag and the id that the next name is made of, so that no O_EXCL    *)
(* fails; only the entry just added or being trimmed may lack its file or  *)
(* its content.                                                            *)
EntriesOnDisk ==
  pc \in {"dry_run", "run", "fill_stats", "create", "write"} =>
    /\ \A n \in 1..Len(entries) :
         \/ n = target
         \/ /\ IdOf(n) \in DOMAIN queue.files
            /\ queue.files[IdOf(n)] = entries[n].case
            /\ IdOf(n) \in queue.done <=> entries[n].det
    /\ DOMAIN queue.files \subseteq {IdOf(n) : n \in 1..Len(entries)}
    /\ pc = "create" => NewId \notin DOMAIN queue.files
=============================================================================
