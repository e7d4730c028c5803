# Specifications of TSAFL's core

TSAFL is a thread-sensitive fork of AFL 2.52b.  A program with threads is
compiled with a pass that calls a run-time library at interesting locations;
the fuzzer observes which of them each thread passes and in which order, makes
*plans* (orders it has not seen) and runs the program again under them.  This
directory holds TLA+ models of the parts of that system in which an error is
hard to find with a test: the seed queue and its table of best entries, the
registration and the barrier of the threads of the program under test, the
protocol of a run between fuzzer, fork server and processes, the calibration of
a seed with its sessions of scheduled runs, the way from the record of a run to
plans, to the runs under them and to the next session, what one call of
`fuzz_one` does with an entry, which tokens it finds and tries, which results get a file, and the output
directory over kills and resumes while another fuzzer reads it.

Source abbreviations: **F** `src/tool/TSAFL/tsafl/TSAFL-fuzz.c`, **H**
`src/tool/TSAFL/tsafl/helper.cc`, **C** `src/tool/TSAFL/llvm_mode/Currency-instr.cpp`,
**CH** `Currency-instr.h` beside it, **R** `src/tool/TSAFL/llvm_mode/afl-llvm-rt.o.c`.
The lines each definition stands for are in `PROJECT.json` under `map`.

    tlc -config SeedQueue.cfg MCSeedQueue     # a run: -config <cfg> <module>
    tlapm SeedQueueProofs.tla                 # the proofs of a module

## 1. Inventory

| Component | State | Operations | Interacts with | What is hard | Correct means |
|---|---|---|---|---|---|
| Table of best entries (F) | `top_rated`, per entry `tc_ref`, `trace_mini`, `tr_intersting` | `update_bitmap_score`, `cull_queue` | calibration and trim write it, the queue reads it | reference counts kept by hand, an entry that is its own loser, old trace copies | counts exact, copies readable, every byte covered by the marked entries |
| Seed queue and main loop (F, H) | `queue`, `favored`, `fs_redundant`, `cal_failed`, `fuzz_level`, `pending_*`, window register `cks_q_w`, `meaningful` records | dry run, cull, skip, calibrate, trim, score, new entry, abandon | the table, the records of H | flags and u32 counters written in distant functions, records taken out of use | flags agree with the table and the register, counters do not wrap, no favored entry is starved |
| Calibration and sessions (F, H) | `need_scheduel`, `NEED_SCH`, `is_scheduel`, `new_window`, `conCkSumMap`, `q_w_mem`, `single_wCks` | `calibrate_case`, `run_target_with_scheduel` | runs, plan generation, queue | a mode held in three places, aborts, features that change between runs | sessions bracketed, maps consistent |
| Run protocol (F, R) | `child_pid`, `child_timed_out`, `prev_timed_out`, timer; `child_stopped`, `was_killed`; two pipes | `run_target`, signal handlers, `__afl_start_forkserver`, `__afl_persistent_loop` | kernel, program under test | SIGALRM between any two steps, a kill that hits a stopped process | the result is that of this run, nothing writes afterwards, every run ends |
| Run-time library (C, CH) | `thread_set`, `tid_to_threadNumber`, `thread_count_to_tid`, `threadSelf_to_pid_map`, log of creations and joins, `kp_mem`, barrier | `init_thread_info`, `instr_LOC_string`, `instr_LOC`, `instr_pthread_join`, `traceEnd` | shared memory read by the fuzzer | threads in parallel, locks of different extent, unlocked reads, joins looked up by a `pthread_t` that may have been used before | a slot per thread, a readable log, a barrier that meets and opens |
| Token extraction (H) | lists of actions per thread, start and end of a thread in turns of the log | `get_tis_token`, `get_s_t`, `get_t_n_c`, `rebuildRelationMap` | run-time log in, plan generation out | the log is read past its end, turns stand for times | the pairs are the threads that were there together |
| Colouring rules, plan size (H) | `signal_list` (colours), quotas | `factorial`, `value_two_interesting_que`, `color_*` | plan generation | saturating arithmetic, rules that each clear a position | a bounded number of plans, only uninteresting places dropped (neither holds, section 6) |
| Plan generation (H) | `res_set`, `loc`, `res`, `final_list`, `mem_cksum`, `close_map` | `generate_que`, `create_que`, `intoSquence`, `backOneStep`, window tests, stop times | tokens, colours, sessions | backtracking over shared vectors, tests with side effects, situations closed by earlier sessions | no window lost, plans distinguishable |
| Runs under plans (F, H) | `kp_mem`, `bad_plan_flag`, `close_map` | the loop of `run_target_with_scheduel`, `check_plan_result`, `check_after_schedule`, `finish_one_plan_success` | plan generation before and after | what one run departs from closes windows for all later ones | windows and situations are those of the run |
| Mutation stages, energy, splicing, buffers (F, H) | `perf_score`, `state_energy`, `eff_map`, `stage_*`, `out_buf`, `in_buf` | the rest of `fuzz_one`, `calculate_score`, `change_state_enery_byTime`, `could_be_*` | queue, runs, two signals | stages that double, runs spared by asking what others made, thirty ways to `abandon_entry`, seconds against milliseconds | a marked entry had its runs, stages end, buffers are freed |
| Dictionaries (F) | `extras`, `a_extras`, `auto_changed`, `.state/auto_extras` | `load_extras`, `maybe_add_auto`, `save_auto`, `load_auto`, the three dictionary stages | `fuzz_one`, the output directory | tokens read off checksums byte by byte, a list that is sorted twice, bytes that are not restored because of the order, a flag that says whether the files are current | tokens are what was meant, each is tried alone, files are the tokens in use |
| Results (F) | `virgin_bits`, `virgin_tmout`, `virgin_crash`, `unique_*`, files in `crashes/`, `hangs/` | `save_if_interesting`, `has_new_bits`, `simplify_trace` | runs in, queue out | runs that differ the second time, counters that start again on resume | what is new is told from what is known |
| Output directory (F) | `queue/`, `_resume/`, `.state`, `fuzzer_stats` | `setup_dirs_fds`, `maybe_delete_out_dir`, `read_testcases`, `pivot_inputs`, `nuke_resume_dir`, `write_stats_file`, `trim_case`'s and new entries' files | the user, other fuzzers | a kill between any two system calls, then a resume | a resume finds what was on disk |
| Synchronisation (F) | `.synced/<other>` | `sync_fuzzers` | the queue directory of another fuzzer, which is killed and resumed | the number kept is written long after it was reached | no case passed over |
| Static-analysis input (`readxml.c`, H) | tables of actions | `readxml`, `build_actionInfo` | read at start-up | none at run time | *not modelled*: read once, changes nothing later |
| LLVM pass, compiler wrapper | none at run time | insertion of hooks | Runtime assumes its order | - | *not modelled*: compile time |
| Static-analysis scripts | none | offline | XML file | - | *not modelled*: offline |
| Stock AFL tools, vendored AFL and SVF, `src/test` targets | - | - | not called by the fuzzer | - | *not modelled*: third-party code and examples |

The fuzzer is one thread with signal handlers.  It shares memory with the
program under test (coverage, plan, record of the run) and talks to the fork
server over two pipes.  A new input is queued, calibrated and, if its record
shows a concurrency *feature* (checksum and size of the record) that is not
known, run in a session under plans; the *windows* these runs show are
registered for the entry.  `cull_queue` then favors the entries that hold bytes
of the table or windows of the register.  A session takes the threads that
lived at the same time, colours their actions and interleaves them block by
block; a run that leaves its plan closes a *situation* for all later sessions.
`PROJECT.json` lists the same parts, 18 of them, each with its status.

## 2. The modules

| Module | Models | How it corresponds |
|---|---|---|
| `TopRated` | table of best entries, one step per operation | variables are the source's; a trace is the set of non-zero bytes; `UpdateBitmapScore` is F 1206-1252, `CullTable` the table's part of F 1262-1328 |
| `TopRatedLoops` | the same two loops, one byte per step | a history variable `begin` holds the table at the loop's entry; `INSTANCE TopRated WITH ... <- begin....` |
| `SeedQueue` | life of the queue | EXTENDS `TopRated`; `phase` is the place in `main` and `fuzz_one`; each operation of the table occurs inside an action of the queue |
| `Runtime` | run-time library | `pc[t]` is the place of thread t in the hooks; a section under a spin lock is one step, an unlocked read of a shared map a step of its own with its own outcome; a thread is known by its kernel tid, and `self[t]` is its `pthread_t`, the key of `threadSelf` |
| `TargetRun` | what `run_target` promises | abstract: start, deadline, end, answer |
| `ForkServer` | fuzzer, handlers, fork server, processes, pipes | `fpc` and `spc` are places in `run_target` and `__afl_start_forkserver`; a system call is a step; implements `TargetRun` |
| `Calibration` | calibration of several seeds | a step is one run of the program or the work between two runs |
| `Tokens` | record of a run to pairs of threads | operators: `LogRead` is the log as the reader sees it, `Turn` the count of changes between creations and joins, `InterestingPairs` the pairs |
| `Colouring` | where a block may begin | operators: three steps of rules, `Factorial` with its saturation, `Quotas` |
| `PlanGen` | `generate_que` over all pairs of a session | `stack` holds the calls of `create_que`; `Judge` is what happens to a complete interleaving; EXTENDS `Tokens`, `Colouring` |
| `PlanSession` | runs under the plans, then the next session | EXTENDS `PlanGen`; `RunPlan` is one run with `check_plan_result` and what it credits; `close_map` stays |
| `Deterministic` | bit flips, arithmetic, interesting values | operators: a stage is the set of files it runs, `CouldBe...` the three tests |
| `Energy` | the score of an entry | operators on the numbers of F and H: speed, coverage, handicap, depth, level |
| `FuzzOne` | one entry's calls of `fuzz_one` | EXTENDS the two; `pc` is a label or loop of `fuzz_one`; SIGINT and SIGUSR1 anywhere |
| `Dictionary` | tokens from their discovery to the next session | a call of `fuzz_one` is the walking bit byte by byte (`WalkingBit`, `FlipByte`), the tokens it hands over one at a time, and the stages that overwrite one token at one place per step; `save_auto` is two steps per file |
| `CrashDedup` | which crashes are new, in words of `technical_details.txt` | abstract: the traces of all earlier crashes |
| `Saving` | what becomes of a result | one action per kind of result; the maps are those of the source; implements `CrashDedup` |
| `OutputDir` | one fuzzer's directory over starts, kills and resumes | a system call that changes a directory is a step |
| `SyncFuzzers` | another fuzzer that reads it | EXTENDS `OutputDir`; `readdir` returns names in any order |
| `SeedQueueProofs`, `TopRatedLoopsProofs` | theorems about the table and the queue | see 5 |
| `RuntimeProofs`, `ForkServerProofs` | theorems about one run | see 5 |
| `SavingProofs`, `SyncFuzzersProofs` | theorems about calibration, results and files | see 5 |
| `PlanSessionProofs` | theorems about pairs and plans | see 5 |
| `FuzzOneProofs` | theorems about `fuzz_one`, its deterministic stages and the dictionaries | see 5 |
| `MC*` | values of the constants for TLC | programs of threads, action lists, symmetry |

`SeedQueue` composes the table with the queue; `Calibration` looks at one step
of `SeedQueue` (`Calibrated`, `CalibrationFails`) run by run, and there the
windows found are no longer arbitrary.  `PlanSession` is what lies between
`OpenSession` of `Calibration` and the end of that session, and `Tokens` reads
the log that `Runtime` writes.  `FuzzOne` is what `SeedQueue` has between
`Score` and `Abandon`, and each of its runs ends in a step of `Saving`.
`Dictionary` is the part of it that concerns tokens, in a module of its own since the two
share no state but the file.  `OutputDir` holds the files of the entries that `SeedQueue` adds and trims.
`ForkServer` is the run that `Calibration` takes as
one step, and `Runtime` is what happens inside the process during it.

Several definitions are preceded by an operator whose comment begins with "A
bug of ...".  It is a plausible mistake in the code that the definition
translates and is used nowhere; putting it in place of the definition makes the
property paired with it in `PROJECT.json` (`mutants`) fail in its run.  This
shows, for each property, that the run is large enough for it to mean something.

### Abstractions and assumptions about the environment

* *Data.*  Traces, windows, features, actions and processes are members of
  small sets.  A checksum stands for what it is computed from: collisions are
  not modelled.
* *Table.*  `exec_time` is set to 1 and never written again (F 777), so `next_p2`
  never decides a comparison.  A trace scored is never empty: an empty one is
  `FAULT_NOINST` or fails calibration.
* *Queue.*  `stop_soon`, splicing and the score as a number are in `FuzzOne`,
  synchronisation is in `SyncFuzzers`.
  `fuzz_level` is capped at `SchLevel`, the last level the code tells apart,
  `U32` is the modulus of the `pending_*` counters.  The dice and the clock may
  fall either way.  An input that adds an entry is chosen freely.
* *Runtime.*  Yields under a plan only delay a thread and are stuttering.
  Each program says with `racy` whether an unlocked read of a `std::map`
  (`tid_to_threadNumber`, and `threadSelf_to_pid_map` at a join) that overlaps an insertion may miss its key;
  `operator[]` inserts 0 for a missing key in either case.  Reads of `thread_set` are assumed to find what
  is there.  A kernel tid is not used again while the process
  lives.  A `pthread_t` may be given to a new thread once its thread has ended and was joined, or is never going
  to be; a joinable thread keeps it.  Arrays are assumed to be long enough.
* *Runs.*  No SIGKILL comes from outside, a pid is used again only after it
  was waited for, `NO_FORKSRV` and dumb mode are left out, and so is ASAN's exit
  code.  A pipe holds its few bytes; a write to a dead server fails at once.
* *Calibration.*  The maps over pairs of actions (cfg) stay empty, since nothing
  in this code fills them.  `CAL_CYCLES_LONG` is 4 instead of 40: only being above
  `STAGE_MAX` matters.  What a run shows is chosen freely, as it is in a program
  with threads.
* *Plans.*  A record satisfies `IsRecord`: its log is closed, and its lists are not empty.  Slot 0 is
  main's, except in `PlanFill.cfg`.  `ck_sum_map` is empty; main's part
  (`to_main`) is left out, since main is in no pair.  The bounds of `Sizes` are
  small in `PlanGen.cfg`, so that short lists exceed them, and those of the
  code in `PlanGenSize.cfg`.  A run under a plan records the plan, the plan
  with two neighbours exchanged or with one action replaced, fails, or records
  another number of actions.
* *fuzz_one.*  Files have at most three bytes, so the stages of 32 bits, which
  need four, do not occur; the dictionary stages are in `Dictionary`, an effector block is one
  byte, and `EFF_MAX_PERC` is not reached.  What havoc does to the bytes is left
  out, `havoc_div` is 1.  `use_splicing` stands for it and for there being a
  second path.  `ZeroScoreGoesOn` is whether there are at most ten paths.  `U64`
  and `SchLevel` are scaled; `SchLevel` is at most 16, since the code asks for `1 << level` below level 16 only.
  The cycles of later and of spliced havoc are at most those of the first, as in `config.h`.  The factor of `calculate_score_factor_sch` is the 0
  that the conversion of its NaN gives from `SchLevel` (16) on.
* *Dictionaries.*  Any byte's flip may give any of three checksums, one of them the
  entry's own; an effector block is one byte.  Tokens have 3 or 4 bytes instead of 3 to 32,
  2 are in use and 4 are kept, instead of 50 and 500.  Dictionary files are not parsed, and there are at most
  `MAX_DET_EXTRAS` tokens of the user, so no dice.  The stages before the dictionaries only restore what they
  change.
* *Results.*  Two of the eight hit count classes, those `simplify_trace` writes.
  Two runs of one input may show different traces.  Dumb mode is left out.
* *Directory.*  `crashes/`, `hangs/`, the plot, the bitmap and the dictionary are
  left out of `OutputDir`; the first two are counted in `Saving`, the last is in `Dictionary`.  A kill may come
  anywhere, except while `_resume` is deleted or a trimmed case is
  rewritten unless `Races` says so; nor is a session started anew over the `_resume`
  of an aborted one.
* *Synchronisation.*  One other fuzzer, which may do anything during a scan.  Three variables that no
  program has say what the properties are about: `untouched` holds the ids whose case was complete and in its place
  since `opendir`, `missed` those that a scan passed without that, `renumbered` whether the other fuzzer was
  started anew, so that its ids mean other cases.  `AFL_SHUFFLE_QUEUE` is off: with it a
  resume reads the old queue in any order (F 1506-1511), and ids change their meaning on every resume.

## 3. The runs

Deadlock is checked in every run: the places where the program ends are
explicit stuttering steps (`Terminated`, `Exited`, `AllTried`, `FuzzerEnded`, `Ended`, `Unused`, `NothingNew`).

| Run | Bounds | Distinct states | What it shows |
|---|---|---|---|
| `SeedQueue` | 3 entries, 2 bytes, 2 costs, 1 window | 2,529,612 | `RefsExact`, `CopyWhileReferenced`: the reference counts; `FavoredCover`: what `cull_queue` leaves out is covered although copies may be old; `FavoredCalibrated`: no entry that failed is favored, holds a byte or a window; `OwnerShowsWindow`; `UnfuzzedCounted`: `pending_not_fuzzed` does not wrap; `SlotsImprove`: a byte keeps a holder and goes only to an entry that is not costlier |
| `SeedQueueLive` | as above, 1 byte | 217,465 | `FavoredIsFuzzed`: a favored entry is not skipped for ever |
| `TopRatedLoops` | 2 entries, 3 bytes, 2 costs | 771,736 | `ImplementsTable`: the loops do in many steps what `TopRated` says in one; `HolderReadable`: also in between no holder lacks its copy |
| `Runtime` | main and 2 workers, 10 programs | 173,582 | slots, log, barrier and termination, in all interleavings; with a main that registers late, a `pthread_t` used again, a worker that joins and map reads that miss their key |
| `ForkServer` | 2 pids, 3 iterations per process | 90,638 | `ImplementsTargetRun`: a refinement; `TraceIsQuiet`, `NoLostChild`, `ResumedIsAlive`, `RunsEnd` |
| `Calibration` | 3 seeds, 2 features, 2 windows, 2 plans | 40,368 (symmetry) | the schedule mode and the maps of features and windows |
| `PlanGen` | 5 records and the 90 orders in which three workers can be created and joined, 3 tables of variables, 2 closed sets; 2 sessions, 1 departure | 761,633 | `PairsLiveTogether`: the turns of the log against its places; `EveryWindowPlanned`, `PlansAreTellable`: the recursion against the set of all interleavings of the coloured blocks, in a second session with the situations closed by the first, too |
| `SyncFuzzers` | 2 cases, 2 paths, 3 starts of the other fuzzer, 1 stop of the reader | 2,655,248 | `ResumeFindsAll`: killed anywhere, a resume finds every case and flag; `EntriesOnDisk`: files, ids and flags are those of the queue; `SkippedIsSeen`, `EveryCaseIsRun`: the reader, which scans meanwhile, passes over nothing that stays in its place |
| `Saving` | 2 bytes, 2 classes, 2 crashes, 2 hangs, 1 resume | 143,396 | `KnownCoverageIsQueued`: `virgin_bits` against what entries of the queue have shown; `ImplementsCrashDedup`: a refinement |
| `FuzzOne` | 3 files, 4 speeds and coverages, 2 kinds of entries, 2 splices | 421,416 | `HavocIsBounded`, `BlocksAccounted`; `MarkedMeansTried`: the deterministic stages, with what they spare, against all changes they promise; `FuzzOneReturns` |
| `Dictionary` | 2 files of 6 and 4 bytes, 3 calls, 2 dictionaries | 2,450,408 | `TokensAreRuns`: the byte-by-byte collection against the longest runs of one checksum; `EveryTokenIsTried`: the stages against all places and tokens; `SavedIsCurrent`: files and tokens agree unless `auto_changed` says otherwise |
| `SeedQueueScored` | as `SeedQueue` | - | the statement of section 6 with a run: an error of the code that does happen |

*Why the bounds are enough.*  Two bytes and three entries let an entry lose its
only byte, win it back after a trim, turn redundant and useful again, share the
table with another while a third is calibrated; a third byte in `TopRatedLoops`
lets the loser be the winner in the middle of a loop and the cull walk clear
bytes beyond the next.  `SkipPaths = 1` makes both ways of skipping possible.
`CAL_CHANCES = 2` separates a first failure from the last.  Two workers are the
two threads of a plan, and main a third party; the programs cover threads
joined together, one after the other (so that the second may get the `pthread_t` of the first), by a worker, and not
at all, repeated locations, a main that registers late, and three of these with reads that miss.  Two pids let a killed process and its successor
coexist, three iterations let a process stop, be resumed, and leave its loop.
Three seeds give a second owner of a feature or window and a third that shares
with it.  Lists of three actions hold windows with one, two or three middle
actions, nested or overlapping, and lists with repeated actions let two
interleavings look alike; a third worker gives a session with two pairs that
share a thread.  Turns depend on the order of the log only, so workers of one
action and all orders of it are enough for `PairsLiveTogether`.  Two sessions let one close
situations for the other, one departure closes one.  Three starts are a first
one, a resume, and the resume of a resume that was killed; two cases are one
given and one found, and found again if it was lost.  The safety properties were also checked once with three cases and three paths
(two given, 2 starts, no stop: 14,449,929 states; one given, 2 starts, 1 stop: 7,131,332).  Two bytes and two classes
tell a new byte from a new class and a crash that includes something from one that
misses something; limits of 2 let a third crash find no place.  The three
files are one byte, which has no words, a word whose low byte carries, and three
bytes of which the middle one may be without effect; `TMOUT_LIMIT = 1` lets a
stage go on after a timeout and end after two more, `SPLICE_CYCLES = 2` lets a splice
follow one that succeeded or one that failed.  The file of six bytes holds two
tokens of three or one of three and one that is alike in letters, three calls fill the four places
and evict one, and a kill and resume may come at any step.  Symmetry is used in `Calibration` only, where all
three sets are interchangeable and no liveness is checked.

*Fairness.*  `SeedQueue`: weak fairness of the next-state relation, since one
thread runs the loop and never waits but for a run, which a timer bounds.  The
skipping dice get no fairness: an entry may be skipped by them whenever the
code allows it.  `Runtime`: each thread and `traceEnd` are run by the kernel, a
spinning thread too.  `ForkServer`: the fuzzer's and the server's steps, the
timer and the delivery of SIGKILL are fair; the program under test need not end
and the server need not come up, so `RunsEnd` rests on the timer alone.  `SyncFuzzers`: the reader's calls,
since its loop comes back to a scan after a bounded number of entries; no
fairness of the other fuzzer, of stops or of new starts, whose number is bounded.  `FuzzOne`: `Advance`, one
thread whose runs end (`RunsEnd`); signals need not come.

## 4. What the properties rest on

* `FavoredIsFuzzed` holds because the two ways of skipping both spare a favored
  entry that was never fuzzed: with `pending_favored` at zero and when it is
  wrong (section 6) alike.
* `TraceIsQuiet` and `ResumedIsAlive` hold although a timeout may kill a process that
  has just stopped itself: `prev_timed_out` reaches the server with the next
  request and `WritesOff` waits for that process before it forks.
* `ImplementsTargetRun` says that `FAULT_TMOUT` needs an expired deadline *of this
  run* and that a crash or an end that comes first wins over a late timer.
* `BarrierMeets` is about registration and not about the counter: a thread
  past the barrier finds both planned numbers in the log.
* `BarrierOpens` and `ProcessEnds` are about programs in which both planned threads
  reach a location, as they did in the run the plan was made from.  If one of
  them does not, the other spins until the timer of the run kills the process,
  which is `RunsEnd` of `ForkServer`.
* `EveryWindowPlanned` compares the plans kept with a definition of all
  interleavings that does not mention the recursion; it fails if windows are
  remembered before an interleaving is tested for closed ones.  It is relative to
  the colours of the pair and to what is closed: what these wrongly exclude is
  in section 6.
* `PairsLiveTogether` holds although the reader goes on behind the log and takes the
  fill for the join of a thread in slot 0: main is there, and no pair has main.
* `ResumeFindsAll` rests on `rename` failing where the target is not empty: a
  `_resume` that is still there is the complete one.  The exception is a kill inside
  `nuke_resume_dir`.
* `SlotNamesThread` is what is left when reads miss or main comes late: number and slot 0 are then in dispute,
  the others are not.  `EachHasSlot` (section 6) is what does not hold.
* `LogWellFormed` holds of a join looked up by a `pthread_t` that was used before, too: the thread found is another
  one, but one that was opened.  That a thread is closed *once* takes a `pthread_t` of its own and joins by main;
  `ClosedOnce` (section 6) is the statement without that.
* `SkippedIsSeen` is about cases that were complete and in their place during the scan that passed them, and so
  found by `readdir` and by `open`; what a scan meets half written is passed for good (section 6).  It rests on ids that keep their meaning: `pivot_inputs` numbers the
  entries as they were read, and an entry without content in the middle would
  shift them.  That none is there when the reader has passed it follows from a case
  getting its content before the next one is created.
* `ImplementsCrashDedup`: `virgin_crash` is cleared by crashes that are *kept* only, and
  two bits per byte stand for the set of all crashes.  This agrees with the documentation
  since a crash that is not kept has nothing that the map does not know, or comes when
  no more are kept.
* `MarkedMeansTried` allows for two kinds of files that no stage ran: those that
  `could_be_bitflip` takes for a flip of 2 or 4 bits across the border of two bytes when it
  compares words low byte first, as no flip in memory does, and those that differ only in bytes without an
  effect.
* `EveryTokenIsTried` needs the order by size twice: a token covers what the one before it
  wrote, and the last one written is the longest, so its length is what has to be restored.  A token is left out
  when the bytes are already there; these may be an earlier token's, which was run.
* `SavedIsCurrent` rests on `auto_changed` being set for a hit, too: it may change which
  tokens are in use.
* `HavocIsBounded` needs a score above 0: it is the score that, doubled with the stage,
  stops the doubling.

## 5. The proofs

The first part of `SeedQueueProofs` proves, for every map size, every set of entries and every bound
of costs, that `TableInv` (types, `RefsExact`, `CopyWhileReferenced`, `CullCovers`)
is inductive, and from it `SlotsImprove`.  It needs `MapSizeAssumption`,
`EntriesAssumption` and `FactorAssumption`.  The four parts need each other: the copy of a
loser is freed when its *count* is zero, so a copy is as good as its count is exact;
`CullCovers` survives a step that changes nothing in the table only because a
score that wins nothing touches no copy.  The lemma `HeldAfterScore` gives the
slots of every entry after a score, and the counts follow from cardinalities of
finite sets.

Its second part proves that `QueueInv` is inductive for every number of entries,
windows, chances and every modulus above the number of entries and bytes
(`QueueAssumption`).  `QueueInv` adds to the properties of the run

* `CursorInv`: the cursor is on the queue wherever `fuzz_one` works on it, phases
  `calibrate` and `trim` are entered with the calibration they assume, and an
  entry that does not exist yet has no failures and was never fuzzed;
* `FreshInv`: an entry that waits for its first calibration, in the dry run or
  just added, holds no slot and no window and is not favored.

Without them `FavoredCalibrated` is not inductive: a trim of an entry that had
failed would give it bytes, and a first calibration that fails would leave an entry
with bytes it already had.  `UnfuzzedCounted` needs that an entry leaves the set of
entries never fuzzed one at a time, and that `abandon_entry` decrements
`pending_not_fuzzed` only for an entry of that set.

`TopRatedLoopsProofs` proves that the two loops do byte by byte what `TopRated` does in
one step (`LoopsAssumption`).  `LoopsInv` says how much of the step is done when a loop reaches byte i: of the
slots q wins those below i are q's, a copy is freed as soon as the *last* slot of its holder is gone, and q's own
copy is renewed iff one of these wins finds its count at zero; of `cull_queue`, the slots picked so far are those
below i that the walk picks, and `temp_v` is what they leave.  It rests on `Accounted` between any two bytes: the count that a
loop tests stands for the set of slots that the abstract step tests, which is the lemma `ByteIsWon` on one slot
more.

The first part of `SavingProofs` proves the four invariants of the run `Calibration` for any seeds, features, windows and plans
(`CalibrationAssumption`).  They are not inductive by themselves: `UnderWay` adds that a calibration which is past its plain
runs has the feature of its last run, and that its seed is not calibrated yet.  Without the first a session could enter a feature that is none;
without the second a second calibration could break what a first one left.

`ForkServerProofs` proves its invariants and the refinement of `TargetRun` for any set of pids, any number of
iterations, a timer that may expire between any two steps and a user who may stop the fuzzer
(`ForkServerAssumption`).  `PipesInv` gives, for each pair of places, what the pipes hold; `ChildInv` that the server knows of
every process there is.  `KillInv` follows a SIGKILL that hits a process which has just stopped itself: from the
process to `child_timed_out`, from there to `prev_timed_out`, into the next request and to the server, which then waits for
the process and does not wake it up.  `LateInv` goes the other way, from a status that says "killed" to the deadline
that it takes; the refinement needs it, since `FAULT_TMOUT` must be of this run.

Its second part proves that what queued entries have shown is what `virgin_bits` no longer has, and the refinement of `CrashDedup`, for
any map and any limits (`SavingAssumption`).  `CrashMapIsJudged` says what the two bits of a byte of `virgin_crash`
stand for: 128 is cleared as soon as a crash that was judged hits the byte, 1 as soon as one misses it.  It holds below the limit
on crashes only, and nothing asks the map afterwards; without the condition it is not an invariant.

`RuntimeProofs` proves its theorems for any number of threads and all programs that satisfy `LegalProgram`, which says what pthreads
ask of a program (`RuntimeAssumption`, `ProgramAssumption`).  There is no other hypothesis: the theorems include reads that miss, a main
that registers late, a `pthread_t` used again and joins by any thread, and what holds only without one of these is a
condition inside the property.  `RegistrationInv` says of each place in
`init_thread_info` which of its four effects are done, that numbers are distinct and below the counter but for number 0 and a main
looked up before it registered, that `threadSelf` holds under a `pthread_t` a thread that had it and has registered (`SelfInv`), and that
`tid_to_run` counts those of the plan's threads which have arrived.  That these are two at most, although the counter does not ask who
increments it, follows from the numbers being distinct.  `HistoryInv` is relative to it: whatever thread a join finds was opened, and the join of
a thread whose `pthread_t` is its own is *behind* main's instruction pointer if only main joins, so it is not logged twice, and `traceEnd`
recovers only joins that are not there.

`SyncFuzzersProofs` has three invariants, each relative to the one before (`OutputDirAssumption`, `NoDirAssumption`,
`SyncAssumption`).  `DirInv` says for each place of the process what is in `queue/`; kills may come anywhere, so it has no
hypothesis, and `EntriesOnDisk` follows even with all `Races`.  `ResumeInv` says where every case and
flag promised to the user is: in the directory that the next resume takes, in the old one while it is imported, in the entries once it
is gone.  `SyncInv` says that every id below the number kept in `.synced` and not missed is a case the reader ran, in whichever
directory that id means it (`SeenInv`), and of a scan that what is untouched was run as soon as `readdir` has returned it (`ScanInv`).  The
other fuzzer moves during the scan, so two facts about places between its system calls come in: a queue with `.state` has no gap below a complete
case (`SegmentInv`), and a `queue/` that is not moved on a resume is a part of what `_resume` gives again (`CopyInv`).  The bridge between the last two is about order: `ReadCases` numbers the files by their rank,
so ids keep their meaning if they have no gap (`NoGaps`, from `RanksGrow` and `NthIsThere`, which are about
finite sets of numbers).  `Races = {}` is the hypothesis of the theorems that need it; section 6 shows
the violation without.

`PlanSessionProofs` is about any records, colours, windows and closed situations (`PlanGenAssumption`, `SessionAssumption`).
The pairs come first: `Turn` counts the changes between creations and joins, it grows with the place and grows strictly between entries of
different kinds, so two intervals of turns meet if and only if the two intervals of places do (`TurnsOfThread` and the lemmas before it).  This is
`PairsLiveTogether` under the hypothesis that a record names each thread once as created and once as joined (`OnceEach`).  `LogWellFormed`, proved in
`RuntimeProofs`, gives that for the logs the library writes when main is in slot 0, each thread has a `pthread_t` of its own, only main joins
and nobody registers during `traceEnd`; `PlanFill.cfg` (section 6) is the violation without main in slot 0.

The plans need `PlanInv`.  `FramesInv` says that the calls on the stack cut `res` into their blocks, each of one thread and ending where another
may begin.  With it `RecursionInv` says of *every* interleaving of the pair at work that it is judged, which means that it meets a
closed situation or that all of its windows are known, or else pending: it begins with the blocks of some call on the stack and goes on with a thread
that this call has not come to.  An interleaving stops being pending in one place only, where it is complete and judged, and when the stack is empty
nothing is pending.  `KeptInv` (the windows known are exactly those of the plans kept) turns "judged" into `EveryWindowPlanned`, `DoneInv` keeps it
for pairs that are over, `IdleInv` says that a pair begins from scratch.  The run's bound on closed situations, departures and sessions does not occur in
the proof.  `PlansAreTellable` holds of any two interleavings of pairs (`PlanIsTellable`): a thread that is told to stop before an action takes its turn there, so
the first thread and the stop times of both give the threads place by place, and with the lists the actions.

`FuzzOneProofs` begins with the calls of `fuzz_one` (`FuzzOneAssumption`, `EnergyAssumption`).  `CallInv` follows the blocks from label to label, and
says of havoc that stage and score are doubled together (`DoublingInv`): either the stage is at most the share of its cycles that the score asks
for, or it is `HAVOC_MIN` times what the score is of the call's.  The second case is the reason why a score of 0 bounds nothing, and why
`HavocAlwaysBounded` has the hypothesis `~ZeroScoreGoesOn`; section 6 has the run without it.

Then come the deterministic stages, for files of any bytes and any effector map.  `MarkedMeansTried` is there a statement about sets: what was promised and not
run is a run of bits across the border of two bytes or changes bytes without effect only (`PromisedIsCovered`).  A number is determined by its bits (`SumDeterminesBits`),
so `FLIP_BIT` toggles one bit and the bits in which two bytes differ tell which flips lead from one to the other (`FlipBitFlips`,
`DifferenceInByte`, `ByteByFlip`).  The masks `could_be_bitflip` accepts are runs of bits (`MaskIs`): inside a byte a flip makes them, at the
border none does (`WordByFlip`).  `could_be_arith` accepts sums only (`NearIsSum8`, `NearIsSum16`), a sum of words carries, is a
flip, or changes the low byte alone (`SumWithin`), and a word that changes one byte is that byte's file (`OneByteCovered`): the two tests for words that ask about
their bytes spare nothing that a stage for bytes did not run.  The proof bounds `ARITH_MAX` by `ArithAssumption` only.

The rest of `FuzzOneProofs` is about the dictionaries (`DictionaryAssumption`): any files, dictionaries and effects, any lengths of tokens and any limits.
`FoundInv` says of the files on disk that there are never more than tokens in use, that all are current if nothing has changed, and that those below the
one at work are while `save_auto` writes.  It needs that tokens found differ (`TokensDiffer`): only then is a sort a permutation, and the
number of tokens in use never shrinks below the number of files.  `StageInv` is about the middle of a stage that overwrites: only bytes that are about to be restored differ from the file, as many
as the token written last has, and the files run so far are those of the places and tokens already passed.  That the token written last is the longest
follows from the order by size, which `FoundInv` has for both lists.  `RunsInv` says of the walking bit that the bytes from some s on have the last
checksum and are what is being collected, and that what was put out are the runs that end before s, in the order of the file.  The last byte
of a file may be put out although it was just begun; that this loses no token of one byte is `MIN_AUTO_EXTRA > 1`.

The proof that a step keeps an inductive invariant has one lemma per action of `Next` (in `SeedQueueProofs`
one per conjunct of the invariant) and a last one that puts them together.

| Module | Theorem | States |
|---|---|---|
| `SeedQueueProofs` | `TableCorrect` | `TableSpec => []TableInv` |
| | `RefsAlwaysExact`, `CopiesNeverDangle`, `CullAlwaysCovers` | its parts |
| | `SlotsAlwaysImprove` | the action property `SlotsImprove` |
| | `QueueCorrect` | `Spec => []QueueInv` |
| | `QueueImplementsTable` | `Spec => TableSpec`: all theorems of the table hold in the queue |
| | `QueueTyped`, `FavoredAlwaysCover`, `FavoredAlwaysCalibrated`, `OwnersAlwaysShow`, `UnfuzzedAlwaysCounted` | the invariants of the run `SeedQueue` |
| `TopRatedLoopsProofs` | `LoopsCorrect` | `Spec => []LoopsInv` |
| | `HolderAlwaysReadable` | `HolderReadable` |
| | `LoopsImplementTable` | the loops refine `TopRated` (`ImplementsTable`) |
| `RuntimeProofs` | `RegistrationCorrect`, `HistoryCorrect` | the two inductive invariants |
| | `RuntimeTyped`, `SlotAlwaysNamesThread`, `BarrierAlwaysMeets`, `LogAlwaysWellFormed` | the invariants of the run `Runtime` |
| `ForkServerProofs` | `ForkServerCorrect` | `Spec => []ForkServerInv` |
| | `ForkServerTyped`, `TraceAlwaysQuiet`, `NoChildIsLost`, `ResumedAlwaysAlive` | the invariants of the run `ForkServer` |
| | `ForkServerImplementsTargetRun` | the refinement of `TargetRun` (safety; its liveness is `RunsEnd`, checked by TLC) |
| `SavingProofs` | `CalibrationCorrect` | `Spec => []CalibrationInv` |
| | `CalibrationTyped`, `SessionsAlwaysBracketed`, `SameFeatureAlwaysFound`, `WindowsAlwaysCounted`, `WindowOwnersAlwaysRecord` | the invariants of the run `Calibration` |
| | `SavingCorrect` | `Spec => []SavingInv` |
| | `SavingTyped`, `KnownCoverageAlwaysQueued` | the invariants of the run `Saving` |
| | `SavingImplementsCrashDedup` | the refinement of `CrashDedup` |
| `SyncFuzzersProofs` | `DirInvariance` | `DirSpec => []DirInv` |
| | `EntriesAlwaysOnDisk`, `ResumeFindsWhatWasThere` | `EntriesOnDisk`; with `Races = {}` `ResumeFindsAll` |
| | `SyncImplementsDir` | `Spec => DirSpec`: both hold beside a reader |
| | `NothingIsSkippedUnseen` | with `Races = {}`, `SkippedIsSeen` |
| `PlanSessionProofs` | `PairsAlwaysLiveTogether` | with `OnceEach` of every record, `PairsLiveTogether` |
| | `PlanCorrect` | `Spec => []PlanInv` |
| | `EveryWindowAlwaysPlanned`, `PlansAlwaysTellable` | the other invariants of the run `PlanGen` |
| `FuzzOneProofs` | `CallCorrect` | `Spec => []CallInv` |
| | `BlocksAlwaysAccounted`, `HavocAlwaysBounded` | `BlocksAccounted`; without `ZeroScoreGoesOn`, `HavocIsBounded` |
| | `MarkedAlwaysMeansTried` | the action property `MarkedMeansTried` |
| | `FoundCorrect`, `StagesCorrect`, `RunsCorrect` | the three inductive invariants of the dictionaries |
| | `FilesAlwaysCurrent`, `EveryTokenAlwaysTried`, `TokensAlwaysRuns` | the invariants of the run `Dictionary` |

*Only model-checked*: liveness (`FavoredIsFuzzed`, `RunsEnd`, `ProcessEnds`, `EveryCaseIsRun`,
`FuzzOneReturns`), which is out of the prover's reach.  Every other property of a passing run is stated by a theorem.

## 6. Where the code departs from what it says

One statement that the program itself makes has a run with a shortest counterexample.

| Run | Statement | What happens |
|---|---|---|
| `SeedQueueScored` | "[ERROR] Useless q_info in calculate_score_factor_sch" (H 3128) | a redundant entry loses its record (`minus_one_q`, H 3074) and is scored again later: exit(100) |

Further statements of comments are defined beside the properties and do not hold.
Those with a cfg of their own are seen with it, under the MC module of the run that has the
same constants; for the others put the name in place of the properties of the cfg.

| Definition | cfg | Statement and what happens |
|---|---|---|
| `PendingFavoredWithinQueue` | `SeedQueuePending.cfg` | "Pending favored paths" (F:168): `cull_queue` counts the picks of its walk (F 1303-1304) but favors the entries of windows, too (F 1312); `abandon_entry` takes one off for either (F 7249-7250), so the u32 wraps |
| `NothingPendingWhenAllFuzzed` | `SeedQueuePending.cfg` with `CAL_CHANCES = 3` | "Queued but not done yet": a pass that failed calibration raises `fuzz_level`, and the first good pass is then not counted |
| `PlainRunsHaveNoPlan` | `CalibrationStale.cfg` | "This time run without sch!" (F:1347): `disable_schedule` sets `NEED_SCH` to FALSE, `init_tInfo_mem` clears the flag only if it is unset (F 1345-1350): plain runs after a session are told that they are planned |
| `FeatureIsNotRepeated` | `CalibrationRepeated.cfg` | "Func addToConMap find repeated element" (H 275): `new_window` remembers any run, `sch_exec_cksum` is of the last (F 2784-2785): a known feature is entered again and the fuzzer exits |
| `SameConcurrencySameWindows` | `CalibrationStale.cfg` | "Init the same queEntry": the record of the other seed is written instead |
| `PlansGetMoreTime` | `CalibrationStale.cfg` | "Expend the time to 4 times more!": `run_target` replaces the timeout by 1 ms |
| `EachHasSlot` | `RuntimeRace.cfg` | "The map from std make sure the read action is thread-safety" (C 426-427): a read that misses its key during an insertion gives 0: two threads in slot 0, one of them in no other |
| `EachHasSlot` | `Runtime.cfg` with `Programs <- LateMainPrograms` | a reader that looks main up before main registers inserts number 0 for it, and main then takes slot 0 from the thread that has it |
| `ThreadIdNamesThread` | `Runtime.cfg` with `Programs <- SequentialPrograms` | "the map from thread ID to tid" (C 75): a thread with the `pthread_t` of an earlier one is not entered, since the key is there and is never erased (C 380-395) |
| `ClosedOnce` | `Runtime.cfg` with `Programs <- SequentialPrograms` | its join (C 502-509) then logs the earlier thread a second time; the thread joined stays open, and `traceEnd` finds a count that is neither 0 nor 1 and ends the process (C 298-303) |
| `ClosedOnce` | `Runtime.cfg` with `Programs <- WorkerJoinsPrograms` | "recover lost jion!" (C 283): a worker that joins a thread after main has left logs the join that `traceEnd` has just recovered (C 283-303) |
| `RealProgressRecorded` | `Runtime.cfg` | "used to remember the real progress sequence": the two hooks decide apart whether a repeated location is recorded |
| `LogClosed` | `Runtime.cfg` | "recover lost jion!": a thread that registers during `traceEnd` stays open |
| `PairsLiveTogether` | `PlanFill.cfg` | "Init as 0" (CH:64): the log is filled with -1 (C 218), the reader stops at 0 and takes the fill for the join of slot 0; with a worker there it overlaps threads that came after it |
| `OnlyUninterestingIsDropped` | `PlanGenColours.cfg` | "uninterest the content shared by more than one thread" (H:1876-1878): a rule about actions j and j + 1 clears position j, the place *before* the pair |
| `PlansWithinLimit` | `PlanGenSize.cfg` | "Check if you are currently eligible to generate the plan": `ride_by_self` saturates at 2000 (H 78), the quotient never exceeds 500 and nothing is reduced: two lists of six actions have hundreds of plans |
| `SessionHasPlan` | `PlanGen.cfg` with `Records <- EmptyRecords` | `assert(result != NULL && result->size != 0)` (F 2974): threads that were never there together, or have one action each, give no plan, and `calibrate_case` opens a session for every new feature (F 2851-2866) without asking; the assertion ends the fuzzer |
| `OnlyUnusedPlansAreCredited` | `PlanGen.cfg` | "Plans unused woule be add to g_single_info.cks" (H:1562-1563): those of kept plans are, too |
| `WrongPlaceIsClosed` | `PlanGen.cfg` | "Find the wrong place of the exe result" (H 2795): the number of the action is used as an index into the plan (H 2815); with `SituationAtPlace` in place of `SituationOf` it holds |
| `CreditedAreShown` | `PlanGen.cfg` | "extra the windows infomation" (F 3002): `finish_one_plan_success` reads the location of the first action for every action (H 2873) |
| `ResumeFindsCases` | `SyncFuzzers.cfg` with `Races = {"abort_in_nuke"}` | the old queue "gets deleted once import to the new queue/ is finished" (F 4100-4104): killed inside `nuke_resume_dir`, the next resume finds `_resume` half deleted, prefers it and deletes the complete `queue/` |
| `ResumeFindsCases` | `SyncFuzzers.cfg` with `Races = {"abort_in_trim"}` | `trim_case` unlinks the case before it writes the shorter one (F 4995): killed in between, it is lost |
| `ResumeFindsAll` | `SyncFuzzers.cfg` with `Races = {"fresh_over_resume"}` | a session started anew does not delete the `_resume` of an aborted resume, and the first resume of it finds the old cases |
| `NoCaseIsMissed` | `SyncFuzzers.cfg` | "will incorporate them into its own fuzzing" (docs/parallel_fuzzing.txt:50-52): a case that is still empty when it is opened, or not yet returned while a later one is, is passed over for good |
| `EveryTimeoutIsKept` | `Saving.cfg` | a timeout that ends with the longer limit has taken its bits from `virgin_tmout` before that; a hang with these bits gets no file |
| `TokensStayOnDisk` | `Dictionary.cfg` | the old queue "gets deleted once import to the new queue/ is finished" (F 4100-4104): the tokens of `load_auto` are saved only after the dry run; killed before that, they are lost |
| `NoTokenTwice` | `Dictionary.cfg` with `SameDictionary = FALSE` | "Reject anything that matches existing extras" (F 1881): `load_auto` runs before `load_extras` (F 8667, 8675), so a token found earlier and now named by `-x` is there twice |
| `MarkedMeansAllTried` | `FuzzOne.cfg` | "Mark deterministic checks as done": without the allowance of section 4 files are left out that nobody ran |
| `HavocIsBounded` | `FuzzOne.cfg` with `ZeroScoreGoesOn = TRUE` | "let's run for a bit longer, limits permitting" (F 7048): with a score of 0 and at most ten paths the stage doubles without end |
| `FastModeFirst` | `EnergyClock.cfg` | "(cur_time - start_time)" (F 5245) is seconds less milliseconds, unsigned: the mode switches in the first turn |

Seen while modelling, without a statement to compare with: the stage that inserts tokens counts `extras_cnt * len` runs and
makes one place more (F 6508, 6514); the checksums that `eff_map` and the
automatic dictionary use are of `trace_bits` after the result was saved, when a calibration or
`simplify_trace` may have overwritten it; with `-C` the same holds of the crash that is judged.
`get_target_splicing_limit` (H 3153) looks at variables of `helper.cc` that stay empty, so targets are
never spliced.  SIGUSR1 between two entries abandons the next one.  `update_q_window` (H 3022) registers
the new entry in both branches of its comparison.  A `fuzzer_stats` that was opened and not
written when the fuzzer was killed keeps every later start from succeeding (F 4066).

## 7. Plan

The order follows what depends on what and how much goes wrong silently.

1. Table and queue: `TopRated`, `TopRatedLoops`, `SeedQueue` with their proofs, the refinement by the loops included. *Done.*
2. The program's side: `Runtime`. *Done; its invariants proved.*
3. The run protocol: `TargetRun`, `ForkServer`. *Done; its invariants and the refinement proved.*
4. `Calibration`. *Done; its invariants proved.*
5. Record to plans to runs: `Tokens`, `Colouring`, `PlanGen`, `PlanSession`. *Done; its invariants proved.*
6. Files: `OutputDir`, `SyncFuzzers`. *Done; their invariants proved.*
7. Results: `CrashDedup`, `Saving`. *Done; its invariants and the refinement proved.*
8. `Deterministic`, `Energy`, `FuzzOne`. *Done; its safety properties proved.*
9. `Dictionary`. *Done; its invariants proved.*
10. Open: words of 32 bits, `find_start_position`.

*Not modelled.*  The parsing of dictionary files and the bytes that havoc writes: transformations of data without a protocol.
`readxml.c` and `build_actionInfo`: tables read once and never changed.  The LLVM pass, the compiler wrapper
and the static-analysis scripts run before the fuzzer does; `Runtime` states the order of hooks it relies on.  The
parts of AFL that print, plot, parse options or look for a CPU have no state that others depend on.  The
tree also holds AFL 2.52b twice (as a copy and as `src/tool/TSAFL/afl-fuzz.c`), SVF with CUDD, demonstration
programs and programs to fuzz; none of it is part of the thread-sensitive fuzzer, and it is by far
the larger share of the lines.
