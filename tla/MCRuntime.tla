----------------------------- MODULE MCRuntime -----------------------------
(* Programs for Runtime: main and two workers, each worker meeting one or   *)
(* more instrumented locations.                                             *)
EXTENDS Runtime, TLC

CONSTANTS w1, w2

MCThreads == {main, w1, w2}

\* Both workers are created before main waits for one.
PairCode ==
  (main :> <<LocStep("m"), CreateStep(w1), CreateStep(w2), LocStep("m"), JoinStep(w1), JoinStep(w2)>>)
  @@ (w1 :> <<LocStep("a"), LocStep("b")>>)
  @@ (w2 :> <<LocStep("a")>>)

\* A worker that stays at one location, as a loop does.
LoopCode ==
  (main :> <<LocStep("m"), CreateStep(w1), CreateStep(w2), JoinStep(w1), JoinStep(w2)>>)
  @@ (w1 :> <<LocStep("a"), LocStep("b"), LocStep("b")>>)
  @@ (w2 :> <<LocStep("a")>>)

\* Main leaves without joining.
DetachedCode ==
  (main :> <<LocStep("m"), CreateStep(w1), CreateStep(w2)>>)
  @@ (w1 :> <<LocStep("a")>>)
  @@ (w2 :> <<LocStep("a")>>)

\* A worker joins the other one, when main may have left.
WorkerJoinsCode ==
  (main :> <<LocStep("m"), CreateStep(w1), CreateStep(w2)>>)
  @@ (w1 :> <<LocStep("a")>>)
  @@ (w2 :> <<LocStep("a"), JoinStep(w1)>>)

\* Main meets its first location when a worker is already running.
LateMainCode ==
  (main :> <<CreateStep(w1), CreateStep(w2), LocStep("m"), JoinStep(w1), JoinStep(w2)>>)
  @@ (w1 :> <<LocStep("a")>>)
  @@ (w2 :> <<LocStep("a")>>)

\* The second worker is created when the first has been joined: it may get its pthread_t.
SequentialCode ==
  (main :> <<LocStep("m"), CreateStep(w1), JoinStep(w1), CreateStep(w2), JoinStep(w2)>>)
  @@ (w1 :> <<LocStep("a")>>)
  @@ (w2 :> <<LocStep("a")>>)

PlanPair == {1, 2}

Planned(code) == [code |-> code, ischedule |-> TRUE, racy |-> FALSE]
Free(code) == [code |-> code, ischedule |-> FALSE, racy |-> FALSE]
Racy(code) == [code |-> code, ischedule |-> FALSE, racy |-> TRUE]

\* Planned programs have a main that registers first and reads that see what is there.
MCPrograms ==
  {Planned(PairCode), Planned(LoopCode),
   Free(PairCode), Free(DetachedCode), Free(SequentialCode), Free(LateMainCode), Free(WorkerJoinsCode),
   Racy(PairCode), Racy(LateMainCode), Racy(SequentialCode)}

RacyPrograms == {Racy(PairCode)}
LateMainPrograms == {Free(LateMainCode)}
WorkerJoinsPrograms == {Free(WorkerJoinsCode)}
SequentialPrograms == {Free(SequentialCode)}
=============================================================================
