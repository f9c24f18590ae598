-------------------------- MODULE Collection_proof --------------------------
(***************************************************************************)
(* Proofs about Collection, for every number of runs, polls and files.     *)
(*                                                                         *)
(* Everything follows from one invariant, IInv: what is known of the run a *)
(* task is in (RunInv), of a model whoever runs it (ModelInv), and of the  *)
(* models the warm-up has behind it (WarmInv).                             *)
(***************************************************************************)
EXTENDS Collection, TLAPS

\* The phases before mark_running, and those of them before the probe.
Early   == {"constants", "heights", "stations", "publish", "probe"}
Waiting == {"constants", "heights", "stations", "publish"}

\* The run whose counts are shown has stored all its stations, or it had no
\* files to fetch.
Stored(m) ==
    state[m].total # 0 => complete[m] = state[m].ref /\ stations[m] = state[m].ref

RunInv(m, t) ==
    /\ lock[m] = t <=> run[m][t].phase # "idle"
    /\ run[m][t].phase # "idle" =>
          /\ 0 <= run[m][t].ref /\ run[m][t].ref <= slot[m]
          /\ stations[m] <= run[m][t].ref
          /\ state[m].status # "not_started"
    /\ Collecting(m, t) => dirs[m] = {run[m][t].ref} /\ state[m].status = "running"
    /\ run[m][t].phase \in Early =>
          run[m][t].done = 0 /\ run[m][t].ok = 0 /\ state[m].total = 0
    /\ run[m][t].phase \in Waiting => run[m][t].polls < MaxPolls
    /\ run[m][t].phase \in {"fetch", "store", "grid"} =>
          /\ state[m].ref = run[m][t].ref /\ state[m].total = run[m][t].total
          /\ state[m].ok = run[m][t].ok /\ state[m].done = run[m][t].done
          /\ run[m][t].ok <= run[m][t].done /\ run[m][t].done <= run[m][t].total
    /\ run[m][t].phase = "store" => stations[m] = run[m][t].ref
    /\ run[m][t].phase = "grid" =>
          stations[m] = run[m][t].ref /\ complete[m] = run[m][t].ref
    /\ run[m][t].phase = "finish" => Stored(m)

ModelInv(m) ==
    /\ stations[m] <= slot[m] /\ complete[m] <= stations[m] /\ grids[m] <= complete[m]
    /\ state[m].status = "running" => \E t \in Tasks : Collecting(m, t)
    /\ state[m].status = "done" => Stored(m)

\* CH1 is behind the warm-up when it is no longer at CH1.
WarmInv ==
    /\ warm # "ch1" => state["ch1"].status # "not_started"
    /\ WarmUpReachesAll

IInv ==
    /\ TypeOK
    /\ \A m \in Models : ModelInv(m) /\ \A t \in Tasks : RunInv(m, t)
    /\ WarmInv

Phases == {"idle", "constants", "heights", "stations", "publish", "probe",
           "fetch", "store", "grid", "finish", "save"}

-----------------------------------------------------------------------------
(* How the runs change: one of them at a time. *)

Others(m, t) ==
    \A n \in Models, s \in Tasks : n # m \/ s # t => run'[n][s] = run[n][s]

LEMMA GotoRun ==
    ASSUME TypeOK, NEW m \in Models, NEW t \in Tasks, NEW p \in Phases,
           Goto(m, t, p)
    PROVE  /\ run' \in [Models -> [Tasks -> Run]] /\ Others(m, t)
           /\ run'[m][t] = [run[m][t] EXCEPT !.phase = p]
<1> DEFINE r == [run[m][t] EXCEPT !.phase = p]
<1>1. run[m] \in [Tasks -> Run] /\ run[m][t] \in Run
  BY DEF TypeOK
<1>2. r \in Run
  BY <1>1 DEF Run, Phases
<1>3. run' = [run EXCEPT ![m] = [run[m] EXCEPT ![t] = r]]
  BY DEF Goto
<1> HIDE DEF r
<1>4. run' \in [Models -> [Tasks -> Run]] /\ Others(m, t) /\ run'[m][t] = r
  BY <1>1, <1>2, <1>3 DEF TypeOK, Others
<1> QED
  BY <1>4 DEF r

LEMMA NewRun ==
    ASSUME TypeOK, NEW m \in Models, NEW t \in Tasks, NEW r \in Run,
           run' = [run EXCEPT ![m][t] = r]
    PROVE  /\ run' \in [Models -> [Tasks -> Run]] /\ Others(m, t)
           /\ run'[m][t] = r
BY DEF TypeOK, Others

LEMMA IdleIsRun == IdleRun \in Run
BY CollectionAssumption DEF IdleRun, Run, MaxFiles, Refs, NoRef

-----------------------------------------------------------------------------
(* What a step of one run leaves alone, and what is left to show for it. *)

\* Nothing of another model changes.
OnlyModel(m) ==
    /\ slot' = slot
    /\ \A n \in Models : n # m =>
          /\ lock'[n] = lock[n] /\ dirs'[n] = dirs[n] /\ state'[n] = state[n]
          /\ stations'[n] = stations[n] /\ complete'[n] = complete[n]
          /\ grids'[n] = grids[n]

\* An idle run of the model the step is about stays idle, and all that
\* concerns the other models stays true.
LEMMA OneRun ==
    ASSUME IInv, TypeOK', NEW m \in Models, NEW t \in Tasks,
           Others(m, t), OnlyModel(m),
           lock[m] \in {t, NoTask}, lock'[m] \in {t, NoTask},
           RunInv(m, t)', ModelInv(m)', WarmInv'
    PROVE  IInv'
<1>1. ASSUME NEW n \in Models, n # m, NEW s \in Tasks PROVE RunInv(n, s)'
  <2>1. RunInv(n, s)
    BY <1>1 DEF IInv
  <2>2. run'[n][s] = run[n][s]
    BY <1>1 DEF Others
  <2> QED
    BY <1>1, <2>1, <2>2 DEF RunInv, Stored, Collecting, OnlyModel
<1>2. ASSUME NEW n \in Models, n # m PROVE ModelInv(n)'
  <2>1. ModelInv(n)
    BY <1>2 DEF IInv
  <2>2. \A s \in Tasks : run'[n][s] = run[n][s]
    BY <1>2 DEF Others
  <2> QED
    BY <1>2, <2>1, <2>2 DEF ModelInv, Stored, Collecting, OnlyModel
<1>3. ASSUME NEW s \in Tasks, s # t PROVE RunInv(m, s)'
  <2>1. run[m][s].phase = "idle"
    BY <1>3 DEF IInv, RunInv, Tasks, NoTask
  <2>2. run'[m][s] = run[m][s] /\ lock'[m] # s
    BY <1>3 DEF Others, Tasks, NoTask
  <2> QED
    BY <2>1, <2>2 DEF RunInv, Stored, Collecting, Early, Waiting
<1> QED
  BY <1>1, <1>2, <1>3 DEF IInv

\* A step of the run that does not touch the warm-up and does not take a
\* status back to "not_started".
LEMMA WarmStays ==
    ASSUME WarmInv, warm' = warm, "ch1" \in Models,
           \A n \in Models : state[n].status # "not_started" =>
                                  state'[n].status # "not_started"
    PROVE  WarmInv'
BY DEF WarmInv, WarmUpReachesAll

\* The end of a run of the warm-up task.
LEMMA WarmMoves ==
    ASSUME IInv, NEW m \in Models, warm = m, warm' = AfterWarm(m),
           state'[m].status # "not_started",
           \A n \in Models : n # m => state'[n] = state[n]
    PROVE  WarmInv'
<1>1. CASE m = "ch1"
  BY <1>1, CollectionAssumption DEF AfterWarm, WarmInv, WarmUpReachesAll
<1>2. CASE m = "ch2"
  <2>1. state["ch1"].status # "not_started"
    BY <1>2 DEF IInv, WarmInv
  <2> QED
    BY <1>2, <2>1, CollectionAssumption DEF AfterWarm, WarmInv, WarmUpReachesAll
<1> QED
  BY <1>1, <1>2, CollectionAssumption

\* A run that is not idle holds the lock of its model.
LEMMA Holder ==
    ASSUME IInv, NEW m \in Models, NEW t \in Tasks, run[m][t].phase # "idle"
    PROVE  lock[m] = t
BY DEF IInv, RunInv

-----------------------------------------------------------------------------
(* The steps that only move the run on *)

LEMMA GotoKeeps ==
    ASSUME IInv, NEW m \in Models, NEW t \in Tasks, NEW p \in Phases, Goto(m, t, p),
           \/ run[m][t].phase \in Waiting /\ p \in Waiting \union {"probe", "finish"}
           \/ run[m][t].phase = "grid" /\ p = "finish",
           UNCHANGED <<slot, upstream, warm, lock, dirs, state, stations, complete>>,
           grids' \in [Models -> Refs \union {NoRef}],
           grids'[m] <= complete[m], \A n \in Models : n # m => grids'[n] = grids[n],
           tree' \in [Models -> BOOLEAN], heights' \in [Models -> BOOLEAN],
           gridErrors' \in [Models -> SUBSET Refs]
    PROVE  IInv'
<1>1. /\ run' \in [Models -> [Tasks -> Run]] /\ Others(m, t)
      /\ run'[m][t] = [run[m][t] EXCEPT !.phase = p]
  BY GotoRun DEF IInv
<1>2. /\ run'[m][t].phase = p /\ run'[m][t].ref = run[m][t].ref
      /\ run'[m][t].polls = run[m][t].polls /\ run'[m][t].done = run[m][t].done
      /\ run'[m][t].ok = run[m][t].ok
  BY <1>1 DEF IInv, TypeOK, Run
<1>3. run[m][t].phase # "idle" /\ p # "idle" /\ p \notin {"fetch", "store", "grid", "save"}
  BY DEF Waiting
<1>4. TypeOK'
  <2>1. \A n \in Models : ~At(n, "warm", "idle")' => warm' = n
    BY <1>1, <1>2, <1>3 DEF IInv, TypeOK, At, Others, Tasks
  <2> QED
    BY <1>1, <2>1 DEF IInv, TypeOK
<1>5. lock[m] = t /\ lock'[m] = t
  BY <1>3, Holder
<1>6. RunInv(m, t)'
  <2>1. RunInv(m, t)
    BY DEF IInv
  <2> QED
    BY <1>2, <1>3, <2>1 DEF RunInv, Stored, Collecting, Early, Waiting
<1>7. ModelInv(m)'
  <2>1. ModelInv(m) /\ RunInv(m, t)
    BY DEF IInv
  <2>2. \A s \in Tasks : s # t => run'[m][s] = run[m][s]
    BY <1>1 DEF Others
  <2>3. Collecting(m, t)'
    BY <1>2, <1>3 DEF Collecting
  <2> QED
    BY <2>1, <2>2, <2>3 DEF ModelInv, Stored
<1>8. WarmInv'
  BY WarmStays, CollectionAssumption DEF IInv
<1>9. OnlyModel(m)
  BY DEF OnlyModel
<1> QED
  BY <1>1, <1>4, <1>5, <1>6, <1>7, <1>8, <1>9, OneRun

\* The steps of a run that have no effect but on its own constants.
Quiet(m, t) ==
    \/ ConstantsKnown(m, t) \/ BuildTree(m, t) \/ LoadHeights(m, t)
    \/ FetchStations(m, t) \/ Published(m, t) \/ GridSkipped(m, t)
    \/ GridFails(m, t) \/ GridBuilt(m, t)

LEMMA QuietStep ==
    ASSUME IInv, NEW m \in Models, NEW t \in Tasks, Quiet(m, t)
    PROVE  IInv'
<1>1. run[m][t] \in Run /\ run[m][t].ref \in Refs \union {NoRef}
  BY DEF IInv, TypeOK, Run
<1>2. ModelInv(m) /\ RunInv(m, t)
  BY DEF IInv
<1>3. /\ tree \in [Models -> BOOLEAN] /\ heights \in [Models -> BOOLEAN]
      /\ gridErrors \in [Models -> SUBSET Refs]
      /\ grids \in [Models -> Refs \union {NoRef}] /\ grids[m] <= complete[m]
  BY <1>2 DEF IInv, TypeOK, ModelInv
<1>4. CASE ConstantsKnown(m, t)
  BY <1>3, <1>4, GotoKeeps DEF ConstantsKnown, At, Waiting, Phases
<1>5. CASE BuildTree(m, t)
  <2>1. tree' \in [Models -> BOOLEAN]
    BY <1>3, <1>5 DEF BuildTree
  <2> QED
    BY <1>3, <1>5, <2>1, GotoKeeps DEF BuildTree, At, Waiting, Phases
<1>6. CASE LoadHeights(m, t)
  <2>1. heights' \in [Models -> BOOLEAN]
    BY <1>3, <1>6 DEF LoadHeights
  <2> QED
    BY <1>3, <1>6, <2>1, GotoKeeps DEF LoadHeights, At, Waiting, Phases
<1>7. CASE FetchStations(m, t)
  BY <1>3, <1>7, GotoKeeps DEF FetchStations, At, Waiting, Phases
<1>8. CASE Published(m, t)
  BY <1>3, <1>8, GotoKeeps DEF Published, At, Waiting, Phases
<1>9. CASE GridSkipped(m, t)
  BY <1>3, <1>9, GotoKeeps DEF GridSkipped, At, Phases
<1>10. CASE GridFails(m, t)
  <2>1. run[m][t].ref \in Refs
    BY <1>1, <1>2, <1>10 DEF GridFails, At, RunInv, NoRef
  <2>2. gridErrors' \in [Models -> SUBSET Refs]
    BY <1>3, <1>10, <2>1 DEF GridFails
  <2> QED
    BY <1>3, <1>10, <2>2, GotoKeeps DEF GridFails, At, Phases
<1>11. CASE GridBuilt(m, t)
  <2>1. /\ grids' \in [Models -> Refs \union {NoRef}] /\ grids'[m] = run[m][t].ref
        /\ \A n \in Models : n # m => grids'[n] = grids[n]
    BY <1>1, <1>3, <1>11 DEF GridBuilt
  <2>2. complete[m] = run[m][t].ref
    BY <1>2, <1>11 DEF RunInv, GridBuilt, At
  <2>3. grids'[m] <= complete[m]
    BY <1>1, <2>1, <2>2, CollectionAssumption DEF Refs, NoRef
  <2> QED
    BY <1>3, <1>11, <2>1, <2>3, GotoKeeps DEF GridBuilt, At, Phases
<1> QED
  BY <1>4, <1>5, <1>6, <1>7, <1>8, <1>9, <1>10, <1>11 DEF Quiet

-----------------------------------------------------------------------------
(* The steps that count, store, begin and end *)

\* What is known of a run and its model before a step of it.
Facts(m, t) ==
    /\ RunInv(m, t) /\ ModelInv(m) /\ TypeOK /\ WarmInv
    /\ run[m][t] \in Run /\ state[m] \in State
    /\ slot[m] \in Refs /\ stations[m] \in Refs \union {NoRef}
    /\ complete[m] \in Refs \union {NoRef} /\ grids[m] \in Refs \union {NoRef}
    /\ MaxSlot \in Nat /\ MaxPolls \in Nat \ {0} /\ MaxFiles \in Nat
    /\ NSurface \in Nat \ {0} /\ NLevels \in Nat
    /\ "ch1" \in Models /\ Models \subseteq {"ch1", "ch2"}

LEMMA Known ==
    ASSUME IInv, NEW m \in Models, NEW t \in Tasks
    PROVE  Facts(m, t)
BY CollectionAssumption DEF Facts, IInv, TypeOK, MaxFiles

\* While t stays in its run nobody else's warm-up turn changes.
LEMMA WarmTurn ==
    ASSUME TypeOK, NEW m \in Models, NEW t \in Tasks, Others(m, t),
           run[m][t].phase # "idle", warm' = warm
    PROVE  \A n \in Models : ~At(n, "warm", "idle")' => warm' = n
BY DEF TypeOK, At, Others, Tasks

LEMMA NotYetPublishedStep ==
    ASSUME IInv, NEW m \in Models, NEW t \in Tasks, NotYetPublished(m, t)
    PROVE  IInv'
<1> DEFINE r == run[m][t]
           p == IF r.polls + 1 = MaxPolls THEN "probe" ELSE "publish"
           q == [r EXCEPT !.polls = @ + 1, !.phase = p]
<1>0. Facts(m, t)
  BY Known
<1> USE <1>0 DEF Facts
<1>1. r.phase = "publish" /\ r.polls + 1 \in 0..MaxPolls
  <2>1. r.phase = "publish" /\ r.polls \in 0..MaxPolls /\ r.polls < MaxPolls
    BY DEF NotYetPublished, At, Run, RunInv, Waiting
  <2> QED
    BY <2>1
<1>2. q \in Run
  BY <1>1 DEF Run
<1>3. run' = [run EXCEPT ![m] = [run[m] EXCEPT ![t] = q]]
  BY ONLY <1>1, NotYetPublished(m, t), TypeOK, m \in Models, t \in Tasks
     DEF NotYetPublished, PollsAfter, TypeOK
<1>5. /\ q.phase = p /\ q.polls = r.polls + 1 /\ q.ref = r.ref
      /\ q.done = r.done /\ q.ok = r.ok
  BY DEF Run
<1>6. UNCHANGED <<slot, upstream, warm, lock, tree, heights, dirs, state,
                  stations, complete, grids, gridErrors>>
  BY DEF NotYetPublished
<1> HIDE DEF q
<1>4. run' \in [Models -> [Tasks -> Run]] /\ Others(m, t) /\ run'[m][t] = q
  BY ONLY <1>2, <1>3, TypeOK, m \in Models, t \in Tasks, NewRun
<1>7. TypeOK'
  BY <1>1, <1>4, <1>6, WarmTurn DEF TypeOK
<1>8. RunInv(m, t)'
  BY <1>1, <1>4, <1>5, <1>6 DEF RunInv, Stored, Collecting, Early, Waiting
<1>9. ModelInv(m)'
  BY <1>1, <1>4, <1>5, <1>6 DEF ModelInv, Stored, Collecting, Others
<1>10. WarmInv' /\ OnlyModel(m)
  BY <1>6, WarmStays DEF OnlyModel
<1>11. lock[m] = t
  BY <1>1, Holder
<1> QED
  BY <1>4, <1>6, <1>7, <1>8, <1>9, <1>10, <1>11, OneRun

LEMMA ProbeStep ==
    ASSUME IInv, NEW m \in Models, NEW t \in Tasks, Probe(m, t)
    PROVE  IInv'
<1>0. Facts(m, t)
  BY Known
<1> USE <1>0 DEF Facts
<1>1. PICK total \in {NSurface, NSurface + NLevels} :
        /\ run' = [run EXCEPT ![m][t].phase = "fetch", ![m][t].total = total]
        /\ state' = [state EXCEPT ![m] = Marked(@, run[m][t].ref, total)]
  BY DEF Probe
<1> DEFINE r == run[m][t]
           q == [r EXCEPT !.phase = "fetch", !.total = total]
<1>2. r.phase = "probe" /\ total \in 0..MaxFiles /\ r.ref \in Refs
  BY DEF Probe, At, Run, RunInv, NoRef, MaxFiles
<1>3. q \in Run
  BY <1>2 DEF Run
<1>4. run' = [run EXCEPT ![m][t] = q]
  BY <1>1 DEF TypeOK
<1>6. /\ q.phase = "fetch" /\ q.total = total /\ q.ref = r.ref
      /\ q.done = 0 /\ q.ok = 0
  BY <1>2 DEF Run, RunInv, Early
<1>7. /\ state'[m] = [state[m] EXCEPT !.ref = r.ref, !.total = total, !.done = 0,
                                      !.ok = 0]
      /\ \A n \in Models : n # m => state'[n] = state[n]
  BY <1>1 DEF Marked, TypeOK
<1>8. state' \in [Models -> State]
  <2>1. state' = [state EXCEPT ![m] = state'[m]]
    BY <1>1 DEF TypeOK
  <2>2. state[m] \in State /\ r.ref \in Refs \union {NoRef} /\ 0 \in 0..MaxFiles
    BY <1>2
  <2>3. state'[m] \in State
    BY ONLY <1>2, <1>7, <2>2 DEF State
  <2> QED
    BY <2>1, <2>3 DEF TypeOK
<1>9. /\ state'[m].ref = r.ref /\ state'[m].total = total /\ state'[m].done = 0
      /\ state'[m].ok = 0 /\ state'[m].status = state[m].status
  BY <1>7 DEF State
<1>10. UNCHANGED <<slot, upstream, warm, lock, tree, heights, dirs, stations,
                   complete, grids, gridErrors>>
  BY DEF Probe
<1> HIDE DEF q
<1>5. run' \in [Models -> [Tasks -> Run]] /\ Others(m, t) /\ run'[m][t] = q
  BY ONLY <1>3, <1>4, TypeOK, m \in Models, t \in Tasks, NewRun
<1>11. TypeOK'
  BY <1>2, <1>5, <1>8, <1>10, WarmTurn DEF TypeOK
<1>12. RunInv(m, t)'
  BY <1>2, <1>5, <1>6, <1>9, <1>10 DEF RunInv, Stored, Collecting, Early, Waiting
<1>13. ModelInv(m)'
  <2>1. state'[m].status = "running"
    BY <1>2, <1>9 DEF RunInv, Collecting
  <2>2. Collecting(m, t)'
    BY <1>5, <1>6 DEF Collecting
  <2> QED
    BY <1>10, <2>1, <2>2 DEF ModelInv
<1>14. WarmInv' /\ OnlyModel(m)
  BY <1>7, <1>9, <1>10, WarmStays DEF OnlyModel
<1>15. lock[m] = t
  BY <1>2, Holder
<1> QED
  BY <1>5, <1>10, <1>11, <1>12, <1>13, <1>14, <1>15, OneRun

LEMMA FetchEndsStep ==
    ASSUME IInv, NEW m \in Models, NEW t \in Tasks, FetchEnds(m, t)
    PROVE  IInv'
<1>0. Facts(m, t)
  BY Known
<1> USE <1>0 DEF Facts
<1> DEFINE r == run[m][t]
<1>1. PICK got \in {0, 1} :
        /\ run' = [run EXCEPT ![m][t].done = r.done + 1, ![m][t].ok = r.ok + got]
        /\ state' = [state EXCEPT ![m].done = r.done + 1, ![m].ok = r.ok + got]
  BY DEF FetchEnds
<1> DEFINE q == [r EXCEPT !.done = r.done + 1, !.ok = r.ok + got]
<1>2. /\ r.phase = "fetch" /\ r.done < r.total /\ r.ok <= r.done
      /\ r.done \in 0..MaxFiles /\ r.ok \in 0..MaxFiles /\ r.total \in 0..MaxFiles
  BY DEF FetchEnds, At, Run, RunInv
<1>3. r.done + 1 \in 0..MaxFiles /\ r.ok + got \in 0..MaxFiles
  BY <1>2
<1>4. q \in Run
  BY <1>3 DEF Run
<1>5. run' = [run EXCEPT ![m][t] = q]
  BY <1>1 DEF TypeOK
<1>7. /\ q.phase = "fetch" /\ q.total = r.total /\ q.ref = r.ref
      /\ q.done = r.done + 1 /\ q.ok = r.ok + got
  BY <1>2 DEF Run
<1>8. /\ state'[m] = [state[m] EXCEPT !.done = r.done + 1, !.ok = r.ok + got]
      /\ \A n \in Models : n # m => state'[n] = state[n]
  BY <1>1 DEF TypeOK
<1>9. state' \in [Models -> State]
  <2>1. state' = [state EXCEPT ![m] = state'[m]]
    BY <1>1 DEF TypeOK
  <2>2. state'[m] \in State
    BY <1>3, <1>8 DEF State
  <2> QED
    BY <2>1, <2>2 DEF TypeOK
<1>10. /\ state'[m].ref = state[m].ref /\ state'[m].total = state[m].total
       /\ state'[m].done = r.done + 1 /\ state'[m].ok = r.ok + got
       /\ state'[m].status = state[m].status
  BY <1>8 DEF State
<1>11. UNCHANGED <<slot, upstream, warm, lock, tree, heights, dirs, stations,
                   complete, grids, gridErrors>>
  BY DEF FetchEnds
<1> HIDE DEF q
<1>6. run' \in [Models -> [Tasks -> Run]] /\ Others(m, t) /\ run'[m][t] = q
  BY ONLY <1>4, <1>5, TypeOK, m \in Models, t \in Tasks, NewRun
<1>12. TypeOK'
  BY <1>2, <1>6, <1>9, <1>11, WarmTurn DEF TypeOK
<1>13. RunInv(m, t)'
  BY <1>2, <1>6, <1>7, <1>10, <1>11 DEF RunInv, Stored, Collecting, Early, Waiting
<1>14. ModelInv(m)'
  BY <1>2, <1>6, <1>7, <1>10, <1>11 DEF ModelInv, Stored, Collecting, Others
<1>15. WarmInv' /\ OnlyModel(m)
  BY <1>8, <1>10, <1>11, WarmStays DEF OnlyModel
<1>16. lock[m] = t
  BY <1>2, Holder
<1> QED
  BY <1>6, <1>11, <1>12, <1>13, <1>14, <1>15, <1>16, OneRun

LEMMA BuildStationsStep ==
    ASSUME IInv, NEW m \in Models, NEW t \in Tasks, BuildStations(m, t)
    PROVE  IInv'
<1>0. Facts(m, t)
  BY Known
<1> USE <1>0 DEF Facts
<1> DEFINE r == run[m][t]
<1>1. /\ r.phase = "fetch" /\ r.ref \in Refs /\ r.ref \in Int
      /\ state[m].ref = r.ref /\ stations[m] <= r.ref /\ r.ref <= slot[m]
  BY DEF BuildStations, At, RunInv, Run, Refs, NoRef
<1>2. /\ run' \in [Models -> [Tasks -> Run]] /\ Others(m, t)
      /\ run'[m][t] = [r EXCEPT !.phase = "store"]
  BY GotoRun DEF BuildStations, Phases
<1>3. /\ run'[m][t].phase = "store" /\ run'[m][t].ref = r.ref
      /\ run'[m][t].done = r.done /\ run'[m][t].ok = r.ok
      /\ run'[m][t].total = r.total
  BY ONLY <1>0, <1>2 DEF Facts, Run
<1>4. /\ stations' \in [Models -> Refs \union {NoRef}] /\ stations'[m] = r.ref
      /\ \A n \in Models : n # m => stations'[n] = stations[n]
  BY ONLY <1>1, TypeOK, BuildStations(m, t), m \in Models DEF BuildStations, TypeOK
<1>5. UNCHANGED <<slot, upstream, warm, lock, tree, heights, dirs, state, complete,
                  grids, gridErrors>>
  BY DEF BuildStations
<1>6. TypeOK'
  <2>1. \A n \in Models : ~At(n, "warm", "idle")' => warm' = n
    BY <1>1, <1>2, <1>5, WarmTurn
  <2> QED
    BY <1>2, <1>4, <1>5, <2>1 DEF TypeOK
<1>7. RunInv(m, t)'
  BY <1>1, <1>3, <1>4, <1>5 DEF RunInv, Stored, Collecting, Early, Waiting
<1>8. ModelInv(m)'
  <2>1. /\ grids[m] <= complete[m] /\ complete[m] <= stations[m]
        /\ complete[m] \in Int /\ stations[m] \in Int
    BY DEF ModelInv, Refs, NoRef
  <2>2. Collecting(m, t)'
    BY <1>3 DEF Collecting
  <2>3. state[m].status = "running"
    BY <1>1 DEF RunInv, Collecting
  <2> QED
    BY <1>1, <1>4, <1>5, <2>1, <2>2, <2>3 DEF ModelInv
<1>9. WarmInv' /\ OnlyModel(m)
  BY <1>4, <1>5, WarmStays DEF OnlyModel
<1>10. lock[m] = t
  BY <1>1, Holder
<1> QED
  BY <1>2, <1>5, <1>6, <1>7, <1>8, <1>9, <1>10, OneRun

LEMMA StationsStoredStep ==
    ASSUME IInv, NEW m \in Models, NEW t \in Tasks, StationsStored(m, t)
    PROVE  IInv'
<1>0. Facts(m, t)
  BY Known
<1> USE <1>0 DEF Facts
<1> DEFINE r == run[m][t]
<1>1. /\ r.phase = "store" /\ r.ref \in Refs /\ r.ref \in Int
      /\ state[m].ref = r.ref /\ stations[m] = r.ref /\ r.ref <= slot[m]
  BY DEF StationsStored, At, RunInv, Run, Refs, NoRef
<1>2. /\ run' \in [Models -> [Tasks -> Run]] /\ Others(m, t)
      /\ run'[m][t] = [r EXCEPT !.phase = "grid"]
  BY GotoRun DEF StationsStored, Phases
<1>3. /\ run'[m][t].phase = "grid" /\ run'[m][t].ref = r.ref
      /\ run'[m][t].done = r.done /\ run'[m][t].ok = r.ok
      /\ run'[m][t].total = r.total
  BY ONLY <1>0, <1>2 DEF Facts, Run
<1>4. /\ complete' \in [Models -> Refs \union {NoRef}] /\ complete'[m] = r.ref
      /\ \A n \in Models : n # m => complete'[n] = complete[n]
  BY ONLY <1>1, TypeOK, StationsStored(m, t), m \in Models DEF StationsStored, TypeOK
<1>5. UNCHANGED <<slot, upstream, warm, lock, tree, heights, dirs, state, stations,
                  grids, gridErrors>>
  BY DEF StationsStored
<1>6. TypeOK'
  <2>1. \A n \in Models : ~At(n, "warm", "idle")' => warm' = n
    BY <1>1, <1>2, <1>5, WarmTurn
  <2> QED
    BY <1>2, <1>4, <1>5, <2>1 DEF TypeOK
<1>7. RunInv(m, t)'
  BY <1>1, <1>3, <1>4, <1>5 DEF RunInv, Stored, Collecting, Early, Waiting
<1>8. ModelInv(m)'
  <2>1. /\ grids[m] <= complete[m] /\ complete[m] <= stations[m]
        /\ grids[m] \in Int /\ complete[m] \in Int
    BY DEF ModelInv, Refs, NoRef
  <2>2. Collecting(m, t)'
    BY <1>3 DEF Collecting
  <2>3. state[m].status = "running"
    BY <1>1 DEF RunInv, Collecting
  <2> QED
    BY <1>1, <1>4, <1>5, <2>1, <2>2, <2>3 DEF ModelInv
<1>9. WarmInv' /\ OnlyModel(m)
  BY <1>4, <1>5, WarmStays DEF OnlyModel
<1>10. lock[m] = t
  BY <1>1, Holder
<1> QED
  BY <1>2, <1>5, <1>6, <1>7, <1>8, <1>9, <1>10, OneRun

LEMMA DoneStep ==
    ASSUME IInv, NEW m \in Models, NEW t \in Tasks, Done(m, t)
    PROVE  IInv'
<1>0. Facts(m, t)
  BY Known
<1> USE <1>0 DEF Facts
<1> DEFINE r == run[m][t]
<1>1. r.phase = "finish"
  BY DEF Done, At
<1>2. /\ run' \in [Models -> [Tasks -> Run]] /\ Others(m, t)
      /\ run'[m][t] = [r EXCEPT !.phase = "save"]
  BY GotoRun DEF Done, Phases
<1>3. run'[m][t].phase = "save" /\ run'[m][t].ref = r.ref
  BY ONLY <1>0, <1>2 DEF Facts, Run
<1>4. PICK d \in 0..MaxFiles :
        state' = [state EXCEPT ![m].status = "done", ![m].done = d]
  <2>1. state[m].total \in 0..MaxFiles /\ state[m].done \in 0..MaxFiles
    BY DEF State
  <2> QED
    BY <2>1 DEF Done, TypeOK
<1>5. /\ state'[m] = [state[m] EXCEPT !.status = "done", !.done = d]
      /\ \A n \in Models : n # m => state'[n] = state[n]
  BY ONLY <1>4, TypeOK, m \in Models DEF TypeOK
<1>6. /\ state'[m] \in State /\ state'[m].status = "done"
      /\ state'[m].ref = state[m].ref /\ state'[m].total = state[m].total
  <2>1. state[m] \in State
    OBVIOUS
  <2> QED
    BY ONLY <1>5, <2>1, d \in 0..MaxFiles DEF State
<1>7. state' \in [Models -> State]
  <2>1. state' = [state EXCEPT ![m] = state'[m]]
    BY ONLY <1>4, TypeOK, m \in Models DEF TypeOK
  <2> QED
    BY <1>6, <2>1 DEF TypeOK
<1>8. UNCHANGED <<slot, upstream, warm, lock, tree, heights, dirs, stations,
                  complete, grids, gridErrors>>
  BY DEF Done
<1>9. TypeOK'
  <2>1. \A n \in Models : ~At(n, "warm", "idle")' => warm' = n
    BY <1>1, <1>2, <1>8, WarmTurn
  <2> QED
    BY <1>2, <1>7, <1>8, <2>1 DEF TypeOK
<1>10. RunInv(m, t)'
  BY <1>1, <1>3, <1>6, <1>8 DEF RunInv, Stored, Collecting, Early, Waiting
<1>11. lock[m] = t
  BY <1>1, Holder
<1>12. ModelInv(m)'
  <2>1. Stored(m)'
    BY <1>1, <1>6, <1>8 DEF RunInv, Stored
  <2> QED
    BY <1>6, <1>8, <2>1 DEF ModelInv
<1>13. WarmInv' /\ OnlyModel(m)
  BY <1>5, <1>6, <1>8, WarmStays DEF OnlyModel
<1> QED
  BY <1>2, <1>8, <1>9, <1>10, <1>11, <1>12, <1>13, OneRun

\* The end of a run: it is idle, the lock is free and the warm-up moves on.
LEMMA EndKeeps ==
    ASSUME IInv, NEW m \in Models, NEW t \in Tasks, run[m][t].phase # "idle",
           run' = [run EXCEPT ![m][t] = IdleRun], lock' = [lock EXCEPT ![m] = NoTask],
           warm' = IF t = "warm" THEN AfterWarm(m) ELSE warm,
           UNCHANGED <<slot, upstream, tree, heights, dirs, stations, complete,
                       grids, gridErrors>>,
           state' \in [Models -> State],
           \/ state'[m].status = "failed"
           \/ state' = state /\ state[m].status \in {"done", "failed"},
           \A n \in Models : n # m => state'[n] = state[n]
    PROVE  IInv'
<1>0. Facts(m, t)
  BY Known
<1> USE <1>0 DEF Facts
<1>1. run' \in [Models -> [Tasks -> Run]] /\ Others(m, t) /\ run'[m][t] = IdleRun
  BY IdleIsRun, NewRun
<1>2. IdleRun.phase = "idle"
  BY DEF IdleRun
<1>3. lock[m] = t /\ lock'[m] = NoTask /\ \A n \in Models : n # m => lock'[n] = lock[n]
  BY Holder DEF TypeOK
<1>4. \A s \in Tasks : run'[m][s].phase = "idle"
  BY <1>1, <1>2, <1>3 DEF IInv, RunInv, Others
<1>5. warm' \in Models \union {"done"}
  BY DEF AfterWarm, TypeOK
<1>6. t = "warm" => warm = m
  BY DEF TypeOK, At
<1>7. TypeOK'
  <2>1. \A n \in Models : ~At(n, "warm", "idle")' => warm' = n
    <3> SUFFICES ASSUME NEW n \in Models, ~At(n, "warm", "idle")' PROVE warm' = n
      OBVIOUS
    <3>1. n # m
      BY <1>4 DEF At, Tasks
    <3>2. ~At(n, "warm", "idle")
      BY <1>1, <3>1 DEF At, Others, Tasks
    <3> QED
      BY <1>6, <3>1, <3>2 DEF TypeOK
  <2>2. lock' \in [Models -> Tasks \union {NoTask}]
    BY DEF TypeOK
  <2> QED
    BY <1>1, <1>5, <2>1, <2>2 DEF TypeOK
<1>8. RunInv(m, t)'
  BY <1>3, <1>4 DEF RunInv, Stored, Collecting, Early, Waiting, Tasks, NoTask
<1>9. ModelInv(m)'
  BY DEF ModelInv, Stored
<1>10. WarmInv'
  <2>1. CASE t = "warm"
    BY <1>6, <2>1, WarmMoves
  <2>2. CASE t # "warm"
    BY <2>2, WarmStays
  <2> QED
    BY <2>1, <2>2
<1>11. OnlyModel(m)
  BY <1>3 DEF OnlyModel
<1> QED
  BY <1>1, <1>3, <1>7, <1>8, <1>9, <1>10, <1>11, OneRun

LEMMA SavedStep ==
    ASSUME IInv, NEW m \in Models, NEW t \in Tasks, Saved(m, t)
    PROVE  IInv'
<1>1. run[m][t].phase = "save"
  BY DEF Saved, At
<1>2. lock[m] = t /\ Facts(m, t)
  BY <1>1, Holder, Known
<1>3. state[m].status \in {"done", "failed"}
  <2>1. \A s \in Tasks : ~Collecting(m, s)
    BY <1>1, <1>2 DEF IInv, RunInv, Stored, Collecting
  <2> QED
    BY <1>1, <1>2, <2>1 DEF Facts, RunInv, ModelInv, State
<1>4. state' \in [Models -> State]
  BY DEF Saved, IInv, TypeOK
<1> QED
  BY <1>1, <1>3, <1>4, EndKeeps DEF Saved

\* An exception ends the run, whichever it is.
LEMMA FailsStep ==
    ASSUME IInv, NEW m \in Models, NEW t \in Tasks, Fails(m, t),
           run[m][t].phase # "idle"
    PROVE  IInv'
<1>2. state' = [state EXCEPT ![m].status = "failed"]
  BY DEF Fails, StatusAfterFailure
<1>3. /\ state'[m] = [state[m] EXCEPT !.status = "failed"] /\ state[m] \in State
      /\ \A n \in Models : n # m => state'[n] = state[n]
  BY <1>2 DEF IInv, TypeOK
<1>4. state'[m] \in State /\ state'[m].status = "failed"
  BY ONLY <1>3 DEF State
<1>5. state' \in [Models -> State]
  <2>1. state' = [state EXCEPT ![m] = state'[m]]
    BY <1>2 DEF IInv, TypeOK
  <2> QED
    BY <1>4, <2>1 DEF IInv, TypeOK
<1> QED
  BY <1>3, <1>4, <1>5, EndKeeps DEF Fails, LockAfterFailure

LEMMA BeginStep ==
    ASSUME IInv, NEW m \in Models, NEW t \in Tasks, Begin(m, t),
           t = "warm" => warm = m
    PROVE  IInv'
<1>0. Facts(m, t)
  BY Known
<1> USE <1>0 DEF Facts
<1> DEFINE q == [IdleRun EXCEPT !.phase = "constants", !.ref = slot[m]]
<1>1. q \in Run
  BY IdleIsRun DEF Run
<1>2. /\ q.phase = "constants" /\ q.ref = slot[m] /\ q.polls = 0 /\ q.done = 0
      /\ q.ok = 0
  BY DEF IdleRun
<1>3. run' = [run EXCEPT ![m][t] = q]
  BY DEF Begin, RefSlot
<1> HIDE DEF q
<1>4. run' \in [Models -> [Tasks -> Run]] /\ Others(m, t) /\ run'[m][t] = q
  BY ONLY <1>1, <1>3, TypeOK, m \in Models, t \in Tasks, NewRun
<1>5. state' = [state EXCEPT ![m] = Started(@)] /\ lock[m] = NoTask
  BY DEF Begin, MayBegin
<1>6. /\ state'[m] = [state[m] EXCEPT !.status = "running", !.done = 0, !.total = 0]
      /\ \A n \in Models : n # m => state'[n] = state[n]
  BY ONLY <1>5, TypeOK, m \in Models DEF TypeOK, Started
<1>7. state'[m] \in State /\ state'[m].total = 0 /\ state'[m].status = "running"
  <2>1. state[m] \in State /\ 0 \in 0..MaxFiles
    OBVIOUS
  <2> QED
    BY ONLY <1>6, <2>1 DEF State
<1>8. state' \in [Models -> State]
  <2>1. state' = [state EXCEPT ![m] = state'[m]]
    BY ONLY <1>5, TypeOK, m \in Models DEF TypeOK
  <2> QED
    BY <1>7, <2>1 DEF TypeOK
<1>9. /\ lock' \in [Models -> Tasks \union {NoTask}] /\ lock'[m] = t
      /\ dirs' \in [Models -> SUBSET Refs] /\ dirs'[m] = {slot[m]}
      /\ \A n \in Models : n # m => lock'[n] = lock[n] /\ dirs'[n] = dirs[n]
  BY DEF Begin, Purged, RefSlot, TypeOK
<1>10. UNCHANGED <<slot, upstream, warm, tree, heights, stations, complete,
                   grids, gridErrors>>
  BY DEF Begin
<1>11. \A s \in Tasks : run[m][s].phase = "idle"
  BY <1>5 DEF IInv, RunInv, Tasks, NoTask
<1>12. TypeOK'
  <2>1. \A n \in Models : ~At(n, "warm", "idle")' => warm' = n
    <3> SUFFICES ASSUME NEW n \in Models, ~At(n, "warm", "idle")' PROVE warm' = n
      OBVIOUS
    <3>1. CASE n = m /\ t = "warm"
      BY <1>10, <3>1
    <3>2. CASE n # m \/ t # "warm"
      <4>1. ~At(n, "warm", "idle")
        BY <1>4, <3>2 DEF At, Others, Tasks
      <4> QED
        BY <1>10, <4>1 DEF TypeOK
    <3> QED
      BY <3>1, <3>2
  <2> QED
    BY <1>4, <1>8, <1>9, <1>10, <2>1 DEF TypeOK
<1>13. slot[m] \in Nat /\ stations[m] <= slot[m]
  BY DEF ModelInv, Refs
<1>14. RunInv(m, t)'
  BY <1>2, <1>4, <1>7, <1>9, <1>10, <1>13 DEF RunInv, Stored, Collecting, Early, Waiting
<1>15. ModelInv(m)'
  <2>1. Collecting(m, t)'
    BY <1>2, <1>4 DEF Collecting
  <2> QED
    BY <1>7, <1>10, <2>1 DEF ModelInv
<1>16. WarmInv' /\ OnlyModel(m)
  BY <1>6, <1>7, <1>9, <1>10, WarmStays DEF OnlyModel
<1> QED
  BY <1>4, <1>5, <1>9, <1>12, <1>14, <1>15, <1>16, OneRun

-----------------------------------------------------------------------------
(* The steps of no run *)

LEMMA WarmUpSkipsStep ==
    ASSUME IInv, NEW m \in Models, WarmUpSkips(m)
    PROVE  IInv'
<1>1. UNCHANGED <<slot, upstream, lock, run, tree, heights, dirs, state,
                  stations, complete, grids, gridErrors>> /\ warm = m /\ warm' = AfterWarm(m)
      /\ lock[m] = "cron"
  BY DEF WarmUpSkips
<1>2. run[m]["cron"].phase # "idle" /\ state[m].status # "not_started"
  BY <1>1 DEF IInv, RunInv, Tasks
<1>3. WarmInv'
  BY <1>1, <1>2, WarmMoves
<1>4. TypeOK'
  <2>1. \A n \in Models : At(n, "warm", "idle")
    BY <1>1 DEF IInv, TypeOK, RunInv, At, Tasks
  <2>2. \A n \in Models : At(n, "warm", "idle")'
    BY <1>1, <2>1 DEF At
  <2>3. warm' \in Models \union {"done"}
    BY <1>1 DEF AfterWarm
  <2> QED
    BY <1>1, <2>2, <2>3 DEF IInv, TypeOK
<1>5. ASSUME NEW n \in Models PROVE ModelInv(n)'
  BY <1>1, <1>5 DEF IInv, ModelInv, Stored, Collecting
<1>6. ASSUME NEW n \in Models, NEW s \in Tasks PROVE RunInv(n, s)'
  BY <1>1, <1>6 DEF IInv, RunInv, Stored, Collecting
<1> QED
  BY <1>3, <1>4, <1>5, <1>6 DEF IInv

LEMMA WorldStep ==
    ASSUME IInv, \/ \E m \in Models : NextSlot(m)
                 \/ UpstreamChanges \/ UNCHANGED vars
    PROVE  IInv'
<1>1. UNCHANGED <<warm, lock, run, tree, heights, dirs, state, stations,
                  complete, grids, gridErrors>>
  BY DEF NextSlot, UpstreamChanges, vars
<1>2. /\ slot' \in [Models -> Refs] /\ upstream' \in {"up", "down"}
      /\ \A n \in Models : slot[n] <= slot'[n]
  <2>1. slot \in [Models -> Refs] /\ upstream \in {"up", "down"}
    BY DEF IInv, TypeOK
  <2>2. \A n \in Models : slot[n] \in 0..MaxSlot
    BY <2>1 DEF Refs
  <2>3. ASSUME NEW m \in Models, NextSlot(m)
        PROVE  /\ slot' \in [Models -> Refs] /\ upstream' = upstream
               /\ \A n \in Models : slot[n] <= slot'[n]
    <3>1. slot[m] + 1 \in Refs
      BY <2>2, <2>3, CollectionAssumption DEF NextSlot, Refs
    <3> QED
      BY <2>1, <2>2, <2>3, <3>1 DEF NextSlot, Refs
  <2> QED
    BY <2>1, <2>2, <2>3 DEF UpstreamChanges, vars
<1>3. TypeOK'
  <2>1. \A n \in Models : At(n, "warm", "idle")' <=> At(n, "warm", "idle")
    BY <1>1 DEF At
  <2> QED
    BY <1>1, <1>2, <2>1 DEF IInv, TypeOK
<1>4. ASSUME NEW n \in Models PROVE ModelInv(n)'
  <2>1. slot[n] \in Int /\ slot'[n] \in Int /\ stations[n] \in Int
    BY <1>2 DEF IInv, TypeOK, Refs, NoRef
  <2>2. ModelInv(n)
    BY DEF IInv
  <2> QED
    BY <1>1, <1>2, <2>1, <2>2 DEF ModelInv, Stored, Collecting
<1>5. ASSUME NEW n \in Models, NEW s \in Tasks PROVE RunInv(n, s)'
  <2>1. slot[n] \in Int /\ slot'[n] \in Int /\ run[n][s].ref \in Int
    BY <1>2 DEF IInv, TypeOK, Run, Refs, NoRef
  <2>2. RunInv(n, s)
    BY DEF IInv
  <2> QED
    BY <1>1, <1>2, <2>1, <2>2 DEF RunInv, Stored, Collecting
<1>6. WarmInv'
  BY <1>1, WarmStays, CollectionAssumption DEF IInv
<1> QED
  BY <1>3, <1>4, <1>5, <1>6 DEF IInv

-----------------------------------------------------------------------------
(* The invariant *)

LEMMA InitInv == Init => IInv
<1> SUFFICES ASSUME Init PROVE IInv
  OBVIOUS
<1>1. "ch1" \in Models /\ Models \subseteq {"ch1", "ch2"} /\ 0 \in Refs
  BY CollectionAssumption DEF Refs
<1>2. /\ IdleRun \in Run /\ IdleRun.phase = "idle"
      /\ [status |-> "not_started", ref |-> NoRef, done |-> 0, ok |-> 0,
          total |-> 0] \in State
  BY IdleIsRun, CollectionAssumption DEF IdleRun, State, MaxFiles
<1>3. \A m \in Models, t \in Tasks :
        run[m][t] = IdleRun /\ lock[m] = NoTask /\ run[m][t].phase = "idle"
  BY <1>2 DEF Init
<1>4. /\ stations \in [Models -> Refs \union {NoRef}]
      /\ complete \in [Models -> Refs \union {NoRef}]
      /\ grids \in [Models -> Refs \union {NoRef}]
      /\ \A m \in Models : /\ stations[m] = grids[m] /\ stations[m] \in {-1, 0}
                            /\ complete[m] = stations[m]
                            /\ slot[m] = 0
  BY <1>1 DEF Init, NoRef
<1>5. TypeOK
  BY <1>1, <1>2, <1>3, <1>4 DEF Init, TypeOK, At, Tasks
<1>6. ASSUME NEW m \in Models PROVE ModelInv(m)
  <2>1. state[m].status = "not_started" /\ state[m].ref = -1
    BY DEF Init, NoRef
  <2> QED
    BY <1>4, <2>1 DEF ModelInv
<1>7. ASSUME NEW m \in Models, NEW t \in Tasks PROVE RunInv(m, t)
  BY <1>3 DEF RunInv, Stored, Collecting, Early, Waiting, Tasks, NoTask
<1>8. WarmInv
  BY DEF Init, WarmInv, WarmUpReachesAll
<1> QED
  BY <1>5, <1>6, <1>7, <1>8 DEF IInv

LEMMA NextInv == IInv /\ [Next]_vars => IInv'
<1> SUFFICES ASSUME IInv, [Next]_vars PROVE IInv'
  OBVIOUS
<1>1. ASSUME NEW m \in Models, Cron(m) PROVE IInv'
  BY <1>1, BeginStep DEF Cron, Tasks
<1>2. ASSUME NEW m \in Models, WarmUp(m) PROVE IInv'
  BY <1>2, BeginStep DEF WarmUp, Tasks
<1>3. ASSUME NEW m \in Models, NEW t \in Tasks, Advance(m, t) PROVE IInv'
  <2>1. CASE RequestFails(m, t) \/ BuildFails(m, t)
    BY <2>1, FailsStep DEF RequestFails, BuildFails, At, Requests
  <2> QED
    BY <1>3, <2>1, QuietStep, NotYetPublishedStep, ProbeStep, FetchEndsStep,
       BuildStationsStep, StationsStoredStep, DoneStep, SavedStep
    DEF Advance, Quiet
<1> QED
  BY <1>1, <1>2, <1>3, WarmUpSkipsStep, WorldStep DEF Next

LEMMA Invariant == Spec => []IInv
BY InitInv, NextInv, PTL DEF Spec

-----------------------------------------------------------------------------
(* The theorems *)

\* The types, for every number of runs and files: in particular the attempts
\* never pass their maximum and the counts never pass the number of files.
THEOREM TypeCorrect == Spec => []TypeOK
BY Invariant, PTL DEF IInv

\* No trigger ever takes away the directory a run is working in.
THEOREM DirectoryKept == Spec => []RunKeepsItsDirectory
<1>1. IInv => RunKeepsItsDirectory
  BY DEF IInv, RunInv, RunKeepsItsDirectory
<1> QED
  BY <1>1, Invariant, PTL

\* The status shown is "running" exactly while a task collects the model.
THEOREM StatusIsTrue == Spec => []StatusFollowsRun
<1>1. IInv => StatusFollowsRun
  BY DEF IInv, RunInv, ModelInv, StatusFollowsRun
<1> QED
  BY <1>1, Invariant, PTL

\* The counts shown are the run's own and within its total.
THEOREM ProgressIsTrue == Spec => []ProgressWithinTotal
<1>1. IInv => ProgressWithinTotal
  BY DEF IInv, RunInv, ProgressWithinTotal
<1> QED
  BY <1>1, Invariant, PTL

\* After the warm-up no model is left that has never been collected.
THEOREM WarmUpComplete == Spec => []WarmUpReachesAll
BY Invariant, PTL DEF IInv, WarmInv

\* "Done" and "current" on the dashboard, of a run that had files to fetch,
\* means that the cache holds the newest run, with all its stations.
THEOREM CurrentIsTrue == Spec => []CurrentMeansStored
<1>1. IInv => CurrentMeansStored
  BY DEF IInv, ModelInv, Stored, CurrentMeansStored, IsCurrent, RefSlot
<1> QED
  BY <1>1, Invariant, PTL

\* What a step may not do to the cache of model m.
NotOlder(m) ==
    stations'[m] >= stations[m] /\ complete'[m] >= complete[m] /\ grids'[m] >= grids[m]

\* The cache of a model never goes back to an older run.
THEOREM NeverOlder == Spec => CacheNeverOlder
<1>1. IInv /\ [Next]_vars =>
        [\A m \in Models : /\ stations'[m] >= stations[m]
                          /\ complete'[m] >= complete[m]
                          /\ grids'[m] >= grids[m]]_vars
  <2> SUFFICES ASSUME IInv, Next, NEW n \in Models
               PROVE  NotOlder(n)
    BY DEF vars, NotOlder
  <2>1. stations[n] \in Int /\ complete[n] \in Int /\ grids[n] \in Int
    BY DEF IInv, TypeOK, Refs, NoRef
  <2>2. ASSUME NEW m \in Models, NEW t \in Tasks, BuildStations(m, t)
        PROVE  NotOlder(n)
    <3>1. stations[m] <= run[m][t].ref /\ run[m][t].ref \in Int
      BY <2>2 DEF IInv, TypeOK, RunInv, Run, Refs, NoRef, BuildStations, At
    <3> QED
      BY <2>1, <2>2, <3>1 DEF BuildStations, IInv, TypeOK, NotOlder
  <2>3. ASSUME NEW m \in Models, NEW t \in Tasks, GridBuilt(m, t)
        PROVE  NotOlder(n)
    <3>1. complete[m] = run[m][t].ref /\ grids[m] <= complete[m]
      BY <2>3 DEF IInv, RunInv, ModelInv, GridBuilt, At
    <3> QED
      BY <2>1, <2>3, <3>1 DEF GridBuilt, IInv, TypeOK, NotOlder
  <2>8. ASSUME NEW m \in Models, NEW t \in Tasks, StationsStored(m, t)
        PROVE  NotOlder(n)
    <3>1. stations[m] = run[m][t].ref /\ complete[m] <= stations[m]
      BY <2>8 DEF IInv, RunInv, ModelInv, StationsStored, At
    <3> QED
      BY <2>1, <2>8, <3>1 DEF StationsStored, IInv, TypeOK, NotOlder
  <2>4. ASSUME UNCHANGED <<stations, complete, grids>>
        PROVE  NotOlder(n)
    BY <2>1, <2>4 DEF NotOlder
  <2>5. ASSUME NEW m \in Models, NEW t \in Tasks, Advance(m, t),
               ~BuildStations(m, t), ~StationsStored(m, t), ~GridBuilt(m, t)
        PROVE  UNCHANGED <<stations, complete, grids>>
    BY <2>5 DEF Advance, RequestFails, BuildFails, Fails, ConstantsKnown, BuildTree, LoadHeights,
       FetchStations, Published, NotYetPublished, Probe, FetchEnds, GridSkipped,
       GridFails, Done, Saved
  <2>6. ASSUME NEW m \in Models, Cron(m) \/ WarmUp(m) \/ WarmUpSkips(m) \/ NextSlot(m)
        PROVE  UNCHANGED <<stations, complete, grids>>
    BY <2>6 DEF Cron, WarmUp, Begin, WarmUpSkips, NextSlot
  <2>7. UpstreamChanges => UNCHANGED <<stations, complete, grids>>
    BY DEF UpstreamChanges
  <2> QED
    BY <2>2, <2>3, <2>4, <2>5, <2>6, <2>7, <2>8 DEF Next
<1> QED
  BY <1>1, Invariant, PTL DEF Spec, CacheNeverOlder

-----------------------------------------------------------------------------
(* Collection implements ModelRuns *)

\* The run of every model, as ModelRuns sees it.
Actives == [m \in Models |-> Active(m)]

\* A step that keeps the locks and the runs worked on is a stutter, or a step
\* of what is stored.
KeepsRefs ==
    /\ lock' = lock
    /\ \A n \in Models, s \in Tasks : run'[n][s].ref = run[n][s].ref

LEMMA ActivesKept ==
    ASSUME IInv, KeepsRefs
    PROVE  Actives' = Actives
<1>1. ASSUME NEW n \in Models PROVE Active(n)' = Active(n)
  <2>1. lock[n] \in Tasks \union {NoTask}
    BY DEF IInv, TypeOK
  <2> QED
    BY <2>1 DEF KeepsRefs, Active
<1> QED
  BY <1>1 DEF Actives

\* The run that holds the lock is the one that is active.
LEMMA ActiveIsRef ==
    ASSUME IInv, NEW m \in Models, NEW t \in Tasks, run[m][t].phase # "idle"
    PROVE  Actives[m] = run[m][t].ref /\ Actives[m] # NoRef
<1>1. lock[m] = t /\ t # NoTask
  BY Holder DEF Tasks, NoTask
<1>2. 0 <= run[m][t].ref /\ run[m][t].ref \in Int
  BY DEF IInv, RunInv, TypeOK, Run, Refs, NoRef
<1> QED
  BY <1>1, <1>2 DEF Actives, Active, NoRef

LEMMA GotoKeepsRefs ==
    ASSUME IInv, NEW m \in Models, NEW t \in Tasks, NEW p \in Phases, Goto(m, t, p),
           lock' = lock
    PROVE  KeepsRefs
<1>1. Others(m, t) /\ run'[m][t] = [run[m][t] EXCEPT !.phase = p]
  BY GotoRun DEF IInv
<1>2. run'[m][t].ref = run[m][t].ref
  BY <1>1 DEF IInv, TypeOK, Run
<1> QED
  BY <1>1, <1>2 DEF KeepsRefs, Others

\* A run ends: its model has no active run any more.
LEMMA EndIsEnd ==
    ASSUME IInv, NEW m \in Models, NEW t \in Tasks, run[m][t].phase # "idle",
           run' = [run EXCEPT ![m][t] = IdleRun], lock' = [lock EXCEPT ![m] = NoTask],
           UNCHANGED <<slot, stations, grids>>
    PROVE  Runs!End(m)
<1>1. Actives[m] # NoRef
  BY ActiveIsRef
<1>2. Actives' = [Actives EXCEPT ![m] = NoRef]
  <2>1. Others(m, t)
    BY IdleIsRun, NewRun DEF IInv
  <2>2. lock'[m] = NoTask /\ \A n \in Models : n # m => lock'[n] = lock[n]
    BY DEF IInv, TypeOK
  <2>3. Active(m)' = NoRef
    BY <2>2 DEF Active
  <2>4. ASSUME NEW n \in Models, n # m PROVE Active(n)' = Active(n)
    <3>1. lock[n] \in Tasks \union {NoTask}
      BY DEF IInv, TypeOK
    <3> QED
      BY <2>1, <2>2, <2>4, <3>1 DEF Active, Others
  <2> QED
    BY <2>3, <2>4 DEF Actives
<1> QED
  BY <1>1, <1>2 DEF Runs!End, Runs!NoRun, NoRef, Actives

LEMMA BeginIsBegin ==
    ASSUME IInv, NEW m \in Models, NEW t \in Tasks, Begin(m, t)
    PROVE  Runs!Begin(m)
<1> DEFINE q == [IdleRun EXCEPT !.phase = "constants", !.ref = slot[m]]
<1>1. Actives[m] = NoRef
  BY DEF Begin, MayBegin, Actives, Active
<1>2. q \in Run /\ q.ref = slot[m]
  <2>1. slot[m] \in Refs
    BY DEF IInv, TypeOK
  <2> QED
    BY <2>1, IdleIsRun DEF Run, IdleRun
<1>3. run' = [run EXCEPT ![m][t] = q] /\ lock' = [lock EXCEPT ![m] = t]
  BY DEF Begin, RefSlot
<1> HIDE DEF q
<1>4. Others(m, t) /\ run'[m][t] = q
  BY <1>2, <1>3, NewRun DEF IInv
<1>5. lock'[m] = t /\ t # NoTask /\ \A n \in Models : n # m => lock'[n] = lock[n]
  BY <1>3 DEF IInv, TypeOK, Tasks, NoTask
<1>6. Active(m)' = slot[m]
  BY <1>2, <1>4, <1>5 DEF Active
<1>7. ASSUME NEW n \in Models, n # m PROVE Active(n)' = Active(n)
  <2>1. lock[n] \in Tasks \union {NoTask}
    BY DEF IInv, TypeOK
  <2> QED
    BY <1>4, <1>5, <1>7, <2>1 DEF Active, Others
<1>8. Actives' = [Actives EXCEPT ![m] = slot[m]]
  BY <1>6, <1>7 DEF Actives
<1>9. UNCHANGED <<slot, stations, grids>>
  BY DEF Begin
<1> QED
  BY <1>1, <1>8, <1>9 DEF Runs!Begin, Runs!NoRun, NoRef, Actives

\* The steps of a run, each as a step of ModelRuns or as a stutter.
LEMMA AdvanceMaps ==
    ASSUME IInv, NEW m \in Models, NEW t \in Tasks, Advance(m, t)
    PROVE  [Runs!Next]_(Runs!vars)
<1>1. CASE RequestFails(m, t) \/ BuildFails(m, t) \/ Saved(m, t)
  <2>1. run[m][t].phase # "idle"
    BY <1>1 DEF RequestFails, BuildFails, Saved, At, Requests
  <2>2. /\ run' = [run EXCEPT ![m][t] = IdleRun] /\ lock' = [lock EXCEPT ![m] = NoTask]
        /\ UNCHANGED <<slot, stations, grids>>
    BY <1>1 DEF RequestFails, BuildFails, Fails, LockAfterFailure, Saved
  <2> QED
    BY <2>1, <2>2, EndIsEnd DEF Runs!Next
<1>2. CASE BuildStations(m, t)
  <2>1. run[m][t].phase # "idle"
    BY <1>2 DEF BuildStations, At
  <2>2. KeepsRefs
    BY <1>2, GotoKeepsRefs DEF BuildStations, Phases
  <2> QED
    BY <1>2, <2>1, <2>2, ActiveIsRef, ActivesKept
    DEF BuildStations, Runs!Next, Runs!StoreStations, Runs!NoRun, NoRef, Actives
<1>3. CASE GridBuilt(m, t)
  <2>1. run[m][t].phase # "idle" /\ stations[m] = run[m][t].ref
    BY <1>3 DEF GridBuilt, At, IInv, RunInv
  <2>2. KeepsRefs
    BY <1>3, GotoKeepsRefs DEF GridBuilt, Phases
  <2> QED
    BY <1>3, <2>1, <2>2, ActiveIsRef, ActivesKept
    DEF GridBuilt, Runs!Next, Runs!StoreGrids, Runs!NoRun, NoRef, Actives
<1>4. CASE \/ ConstantsKnown(m, t) \/ BuildTree(m, t) \/ LoadHeights(m, t)
           \/ FetchStations(m, t) \/ Published(m, t) \/ GridSkipped(m, t)
           \/ GridFails(m, t) \/ StationsStored(m, t) \/ Done(m, t)
  <2>1. KeepsRefs
    BY <1>4, GotoKeepsRefs DEF ConstantsKnown, BuildTree, LoadHeights, FetchStations,
       Published, GridSkipped, GridFails, StationsStored, Done, Phases
  <2>2. UNCHANGED <<slot, stations, grids>>
    BY <1>4 DEF ConstantsKnown, BuildTree, LoadHeights, FetchStations, Published,
       GridSkipped, GridFails, StationsStored, Done
  <2> QED
    BY <2>1, <2>2, ActivesKept DEF Runs!vars, Actives
<1>5. CASE NotYetPublished(m, t) \/ Probe(m, t) \/ FetchEnds(m, t)
  <2>1. KeepsRefs
    <3>1. run \in [Models -> [Tasks -> Run]]
      BY DEF IInv, TypeOK
    <3>2. CASE NotYetPublished(m, t)
      BY <3>1, <3>2 DEF NotYetPublished, KeepsRefs, Run
    <3>3. CASE Probe(m, t)
      BY <3>1, <3>3 DEF Probe, KeepsRefs, Run
    <3>4. CASE FetchEnds(m, t)
      BY <3>1, <3>4 DEF FetchEnds, KeepsRefs, Run
    <3> QED
      BY <1>5, <3>2, <3>3, <3>4
  <2>2. UNCHANGED <<slot, stations, grids>>
    BY <1>5 DEF NotYetPublished, Probe, FetchEnds
  <2> QED
    BY <2>1, <2>2, ActivesKept DEF Runs!vars, Actives
<1> QED
  BY <1>1, <1>2, <1>3, <1>4, <1>5 DEF Advance

LEMMA StepMaps == IInv /\ [Next]_vars => [Runs!Next]_(Runs!vars)
<1> SUFFICES ASSUME IInv, [Next]_vars PROVE [Runs!Next]_(Runs!vars)
  OBVIOUS
<1>1. ASSUME NEW m \in Models, Cron(m) \/ WarmUp(m) PROVE [Runs!Next]_(Runs!vars)
  BY <1>1, BeginIsBegin DEF Cron, WarmUp, Tasks, Runs!Next
<1>2. ASSUME NEW m \in Models, NextSlot(m) PROVE [Runs!Next]_(Runs!vars)
  <2>1. KeepsRefs
    BY <1>2 DEF NextSlot, KeepsRefs
  <2> QED
    BY <1>2, <2>1, ActivesKept DEF NextSlot, Runs!Next, Runs!Publish, Actives
<1>3. ASSUME \/ \E m \in Models : WarmUpSkips(m)
             \/ UpstreamChanges \/ UNCHANGED vars
      PROVE  [Runs!Next]_(Runs!vars)
  <2>1. KeepsRefs /\ UNCHANGED <<slot, stations, grids>>
    BY <1>3 DEF WarmUpSkips, UpstreamChanges, vars, KeepsRefs
  <2> QED
    BY <2>1, ActivesKept DEF Runs!vars, Actives
<1> QED
  BY <1>1, <1>2, <1>3, AdvanceMaps DEF Next

LEMMA InitMaps == Init => Runs!Init
<1> SUFFICES ASSUME Init PROVE Runs!Init
  OBVIOUS
<1>1. Actives = [m \in Models |-> NoRef]
  BY DEF Init, Actives, Active
<1> QED
  BY <1>1 DEF Init, Runs!Init, Runs!NoRun, NoRef, Actives

\* Collection implements ModelRuns: whatever is proved of the threads that
\* store with at most one run of a model at a time, working on the newest run
\* there was when it began, holds of the scheduler and collect().
THEOREM Implements == Spec => RefinesModelRuns
BY InitMaps, StepMaps, Invariant, PTL DEF Spec, Runs!Spec, RefinesModelRuns
=============================================================================
