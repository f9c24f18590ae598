----------------------------- MODULE Collection -----------------------------
(***************************************************************************)
(* The collection runs: scheduler.py, collect() of _icon_eps_base.py and   *)
(* what it keeps in module globals, the per-run GRIB directories and the   *)
(* state the dashboard shows (collection_state.py).                        *)
(*                                                                         *)
(* Runs are coroutines of one event loop: no step here spans an await.  A   *)
(* run of a model is started by the cron trigger or by the warm-up task,    *)
(* under the lock of the model.  A request to an upstream service succeeds  *)
(* while the upstream is up; every place where an exception leaves          *)
(* collect(), of a request or of the building of the stations, is a step    *)
(* that can fail.  What is fetched is counted, not modelled: NSurface       *)
(* files, and NLevels more if the run has levels.                           *)
(***************************************************************************)
EXTENDS Integers

CONSTANTS
    Models,      \* "ch1" and "ch2", or "ch1" alone
    MaxSlot,     \* bound: model runs published in a behaviour
    MaxPolls,    \* _PUBLISH_POLL_MAX_ATTEMPTS, 24 in the code
    NSurface,    \* surface files of a run
    NLevels      \* model-level files of a run

ASSUME CollectionAssumption ==
    /\ "ch1" \in Models /\ Models \subseteq {"ch1", "ch2"}
    /\ MaxSlot \in Nat /\ MaxPolls \in Nat \ {0}
    /\ NSurface \in Nat \ {0} /\ NLevels \in Nat

Tasks  == {"warm", "cron"}
NoTask == "none"
NoRef  == -1

VARIABLES
    slot,       \* model |-> the newest run whose publication guard has elapsed
    upstream,   \* can the upstream services be reached
    warm,       \* the model the warm-up task is at, or "done"
    lock,       \* _ch1_lock, _ch2_lock: the task that holds it
    run,        \* model, task |-> where its collection stands
    tree,       \* model |-> is _GRID_TREE (and the sample indices) set
    heights,    \* model |-> is _GRID_LEVEL_HEIGHTS set
    dirs,       \* model |-> the runs with a directory in the GRIB cache
    state,      \* collection_state._state
    stations,   \* model |-> the newest run the cache has stations of
    complete,   \* model |-> the last run that stored all of its stations
    grids,      \* model |-> the last run that stored both its grids
    gridErrors  \* telemetry: the runs with a "grid" error recorded

vars == <<slot, upstream, warm, lock, run, tree, heights, dirs, state,
          stations, complete, grids, gridErrors>>

IdleRun == [phase |-> "idle", ref |-> NoRef, polls |-> 0, done |-> 0, ok |-> 0,
            total |-> 0]

At(m, t, phase) == run[m][t].phase = phase
Goto(m, t, phase) == run' = [run EXCEPT ![m][t].phase = phase]

-----------------------------------------------------------------------------
(* Starting and ending a run: _run_ch1eps, _run_ch2eps, _warm_cache *)

Started(s) == [s EXCEPT !.status = "running", !.done = 0, !.total = 0]

\* Variant for mutation: no look at the lock, and nobody waits for it.
MayBegin_Unlocked(m) == TRUE

MayBegin(m) == lock[m] = NoTask

\* Variant for mutation: the directories of earlier runs are left alone.
Purged_Nothing(m, ref) == dirs[m] \union {ref}

\* grib_run_dir: the directory of this run replaces those of others.
Purged(m, ref) == {ref}

\* _latest_ref_dt, _latest_ref_dt_ch2
RefSlot(m) == slot[m]

\* A trigger finds the lock free: mark_started, the run to fetch, its directory.
Begin(m, t) ==
    /\ At(m, t, "idle") /\ MayBegin(m)
    /\ run' = [run EXCEPT ![m][t] =
                  [IdleRun EXCEPT !.phase = "constants", !.ref = RefSlot(m)]]
    /\ dirs' = [dirs EXCEPT ![m] = Purged(m, RefSlot(m))]
    /\ lock' = [lock EXCEPT ![m] = t]
    /\ state' = [state EXCEPT ![m] = Started(@)]
    /\ UNCHANGED <<slot, upstream, warm, tree, heights, stations, complete,
                   grids, gridErrors>>

\* The cron job; a trigger that finds the lock held does nothing.
Cron(m) == Begin(m, "cron")

\* The warm-up task.
WarmUp(m) == warm = m /\ Begin(m, "warm")

\* Variant for mutation: the warm-up ends with the first model.
AfterWarm_Stops(m) == "done"

\* CH1, then CH2.
AfterWarm(m) == IF m = "ch1" /\ "ch2" \in Models THEN "ch2" ELSE "done"

\* It does not wait for a run that is going on: it moves on.
WarmUpSkips(m) ==
    /\ warm = m /\ lock[m] = "cron"
    /\ warm' = AfterWarm(m)
    /\ UNCHANGED <<slot, upstream, lock, run, tree, heights, dirs, state,
                   stations, complete, grids, gridErrors>>

\* Variant for mutation: an exception leaves the lock behind.
LockAfterFailure_Held(m) == lock[m]

LockAfterFailure(m) == NoTask

\* Variant for mutation: a failure is logged but not recorded.
StatusAfterFailure_Unchanged(s) == s.status

\* Variant for mutation: the exception is logged, and mark_done follows.
StatusAfterFailure_Done(s) == "done"

StatusAfterFailure(s) == "failed"

\* An exception ends the run: mark_failed, and the lock is released.
Fails(m, t) ==
    /\ state' = [state EXCEPT ![m].status = StatusAfterFailure(state[m])]
    /\ run' = [run EXCEPT ![m][t] = IdleRun]
    /\ lock' = [lock EXCEPT ![m] = LockAfterFailure(m)]
    /\ warm' = IF t = "warm" THEN AfterWarm(m) ELSE warm
    /\ UNCHANGED <<slot, upstream, tree, heights, dirs, stations, complete,
                   grids, gridErrors>>

\* collect() has returned: mark_done, which also completes the file count.
Done(m, t) ==
    /\ At(m, t, "finish")
    /\ state' = [state EXCEPT ![m].status = "done",
                    ![m].done = IF state[m].total # 0 THEN state[m].total ELSE @]
    /\ Goto(m, t, "save")
    /\ UNCHANGED <<slot, upstream, warm, lock, tree, heights, dirs, stations,
                   complete, grids, gridErrors>>

\* save_cache in a thread, under the lock.
Saved(m, t) ==
    /\ At(m, t, "save")
    /\ run' = [run EXCEPT ![m][t] = IdleRun]
    /\ lock' = [lock EXCEPT ![m] = NoTask]
    /\ warm' = IF t = "warm" THEN AfterWarm(m) ELSE warm
    /\ UNCHANGED <<slot, upstream, tree, heights, dirs, state, stations,
                   complete, grids, gridErrors>>

-----------------------------------------------------------------------------
(* collect() up to the fetches.  Unguarded: any exception ends the run. *)

Requests == {"constants", "heights", "stations", "publish", "probe"}

RequestFails(m, t) ==
    /\ run[m][t].phase \in Requests /\ upstream = "down"
    /\ ~(At(m, t, "constants") /\ tree[m])
    /\ Fails(m, t)

\* _ensure_grid returns at once when there is a tree.
ConstantsKnown(m, t) ==
    /\ At(m, t, "constants") /\ tree[m]
    /\ Goto(m, t, "stations")
    /\ UNCHANGED <<slot, upstream, warm, lock, tree, heights, dirs, state,
                   stations, complete, grids, gridErrors>>

\* Otherwise the horizontal constants make the tree and the sample indices ...
BuildTree(m, t) ==
    /\ At(m, t, "constants") /\ ~tree[m] /\ upstream = "up"
    /\ tree' = [tree EXCEPT ![m] = TRUE]
    /\ Goto(m, t, "heights")
    /\ UNCHANGED <<slot, upstream, warm, lock, heights, dirs, state, stations,
                   complete, grids, gridErrors>>

\* ... and then the vertical constants the heights.
LoadHeights(m, t) ==
    /\ At(m, t, "heights") /\ upstream = "up"
    /\ heights' = [heights EXCEPT ![m] = TRUE]
    /\ Goto(m, t, "stations")
    /\ UNCHANGED <<slot, upstream, warm, lock, tree, dirs, state, stations,
                   complete, grids, gridErrors>>

\* _fetch_stations; with an empty list there is nothing to do.
FetchStations(m, t) ==
    /\ At(m, t, "stations") /\ upstream = "up"
    /\ \E next \in {"publish", "finish"} : Goto(m, t, next)
    /\ UNCHANGED <<slot, upstream, warm, lock, tree, heights, dirs, state,
                   stations, complete, grids, gridErrors>>

\* Variant for mutation: the count of attempts begins again at the limit.
PollsAfter_Restarts(n) == IF n + 1 = MaxPolls THEN 0 ELSE n + 1

PollsAfter(n) == n + 1

\* _wait_for_full_publish: the last horizon is there, or not yet.
Published(m, t) ==
    /\ At(m, t, "publish") /\ upstream = "up"
    /\ Goto(m, t, "probe")
    /\ UNCHANGED <<slot, upstream, warm, lock, tree, heights, dirs, state,
                   stations, complete, grids, gridErrors>>

NotYetPublished(m, t) ==
    /\ At(m, t, "publish") /\ upstream = "up"
    /\ run' = [run EXCEPT ![m][t].polls = PollsAfter(@),
                  ![m][t].phase = IF PollsAfter(run[m][t].polls) = MaxPolls
                                  THEN "probe" ELSE @]
    /\ UNCHANGED <<slot, upstream, warm, lock, tree, heights, dirs, state,
                   stations, complete, grids, gridErrors>>

\* Variant for mutation: files_ok survives, as it does in mark_started.
Marked_KeepsOk(s, ref, total) ==
    [s EXCEPT !.ref = ref, !.total = total, !.done = 0]

\* mark_running
Marked(s, ref, total) ==
    [s EXCEPT !.ref = ref, !.total = total, !.done = 0, !.ok = 0]

\* The search for the first U file says whether there are model levels; then
\* mark_running, and all fetches are started.
Probe(m, t) ==
    /\ At(m, t, "probe") /\ upstream = "up"
    /\ \E total \in {NSurface, NSurface + NLevels} :
        /\ run' = [run EXCEPT ![m][t].phase = "fetch", ![m][t].total = total]
        /\ state' = [state EXCEPT ![m] = Marked(@, run[m][t].ref, total)]
    /\ UNCHANGED <<slot, upstream, warm, lock, tree, heights, dirs, stations,
                   complete, grids, gridErrors>>

-----------------------------------------------------------------------------
(* The fetches and what is built from them.  No exception leaves a fetch. *)

\* One fetch ends, with a file or without; mark_progress.
FetchEnds(m, t) ==
    LET r == run[m][t] IN
    /\ At(m, t, "fetch") /\ r.done < r.total
    /\ \E got \in IF upstream = "up" THEN {0, 1} ELSE {0} :
        /\ run' = [run EXCEPT ![m][t].done = r.done + 1,
                              ![m][t].ok = r.ok + got]
        /\ state' = [state EXCEPT ![m].done = r.done + 1,
                                  ![m].ok = r.ok + got]
    /\ UNCHANGED <<slot, upstream, warm, lock, tree, heights, dirs, stations,
                   complete, grids, gridErrors>>

\* gather is over: the arrays are stacked, from whatever there is, and the
\* first station is stored ...
BuildStations(m, t) ==
    /\ At(m, t, "fetch") /\ run[m][t].done = run[m][t].total
    /\ stations' = [stations EXCEPT ![m] = run[m][t].ref]
    /\ Goto(m, t, "store")
    /\ UNCHANGED <<slot, upstream, warm, lock, tree, heights, dirs, state,
                   complete, grids, gridErrors>>

\* ... then, one by one, the others.
StationsStored(m, t) ==
    /\ At(m, t, "store")
    /\ complete' = [complete EXCEPT ![m] = run[m][t].ref]
    /\ Goto(m, t, "grid")
    /\ UNCHANGED <<slot, upstream, warm, lock, tree, heights, dirs, state,
                   stations, grids, gridErrors>>

\* An exception on the way, before the first station is stored or after some
\* of them, is not caught before it has left collect().
BuildFails(m, t) ==
    /\ \/ At(m, t, "fetch") /\ run[m][t].done = run[m][t].total
       \/ At(m, t, "store")
    /\ Fails(m, t)

\* collect_grid in a thread: without sample indices or heights it only logs ...
GridSkipped(m, t) ==
    /\ At(m, t, "grid") /\ ~(tree[m] /\ heights[m])
    /\ Goto(m, t, "finish")
    /\ UNCHANGED <<slot, upstream, warm, lock, tree, heights, dirs, state,
                   stations, complete, grids, gridErrors>>

\* ... an exception is recorded and goes no further ...
GridFails(m, t) ==
    /\ At(m, t, "grid") /\ tree[m] /\ heights[m]
    /\ gridErrors' = [gridErrors EXCEPT ![m] = @ \union {run[m][t].ref}]
    /\ Goto(m, t, "finish")
    /\ UNCHANGED <<slot, upstream, warm, lock, tree, heights, dirs, state,
                   stations, complete, grids>>

\* ... and otherwise the grids are this run's.
GridBuilt(m, t) ==
    /\ At(m, t, "grid") /\ tree[m] /\ heights[m]
    /\ grids' = [grids EXCEPT ![m] = run[m][t].ref]
    /\ Goto(m, t, "finish")
    /\ UNCHANGED <<slot, upstream, warm, lock, tree, heights, dirs, state,
                   stations, complete, gridErrors>>

-----------------------------------------------------------------------------
(* The world *)

\* A new run becomes eligible, for CH1 after 1.5 hours and for CH2 after 3.
NextSlot(m) ==
    /\ IF m = "ch1" THEN slot[m] < MaxSlot /\ \A o \in Models : slot[o] = slot[m]
                    ELSE slot[m] < slot["ch1"]
    /\ slot' = [slot EXCEPT ![m] = @ + 1]
    /\ UNCHANGED <<upstream, warm, lock, run, tree, heights, dirs, state,
                   stations, complete, grids, gridErrors>>

UpstreamChanges ==
    /\ upstream' = IF upstream = "up" THEN "down" ELSE "up"
    /\ UNCHANGED <<slot, warm, lock, run, tree, heights, dirs, state, stations,
                   complete, grids, gridErrors>>

-----------------------------------------------------------------------------
\* A process has just started, with last run's directory and with a cache that
\* is empty or loaded from its files.
Init ==
    /\ slot = [m \in Models |-> 0]
    /\ upstream \in {"up", "down"}
    /\ warm = "ch1"
    /\ lock = [m \in Models |-> NoTask]
    /\ run = [m \in Models |-> [t \in Tasks |-> IdleRun]]
    /\ tree = [m \in Models |-> FALSE]
    /\ heights = [m \in Models |-> FALSE]
    /\ dirs = [m \in Models |-> {0}]
    /\ state = [m \in Models |-> [status |-> "not_started", ref |-> NoRef,
                                  done |-> 0, ok |-> 0, total |-> 0]]
    /\ \E loaded \in {NoRef, 0} :
        /\ stations = [m \in Models |-> loaded]
        /\ complete = [m \in Models |-> loaded]
        /\ grids = [m \in Models |-> loaded]
    /\ gridErrors = [m \in Models |-> {}]

\* What the run of model m started by t does next, whatever comes back.
Advance(m, t) ==
    \/ RequestFails(m, t)
    \/ ConstantsKnown(m, t) \/ BuildTree(m, t) \/ LoadHeights(m, t)
    \/ FetchStations(m, t) \/ Published(m, t) \/ NotYetPublished(m, t)
    \/ Probe(m, t) \/ FetchEnds(m, t)
    \/ BuildStations(m, t) \/ StationsStored(m, t) \/ BuildFails(m, t)
    \/ GridSkipped(m, t) \/ GridFails(m, t) \/ GridBuilt(m, t)
    \/ Done(m, t) \/ Saved(m, t)

Next ==
    \/ \E m \in Models : Cron(m) \/ WarmUp(m) \/ WarmUpSkips(m) \/ NextSlot(m)
    \/ \E m \in Models, t \in Tasks : Advance(m, t)
    \/ UpstreamChanges

Spec == Init /\ [][Next]_vars

\* Every request comes back (they all have a time limit), the warm-up task
\* goes on, and the cron triggers come again and again.  Nothing is assumed
\* of the upstream.
Fairness ==
    /\ \A m \in Models, t \in Tasks : WF_vars(Advance(m, t))
    /\ \A m \in Models : WF_vars(WarmUp(m) \/ WarmUpSkips(m)) /\ WF_vars(Cron(m))

FairSpec == Spec /\ Fairness

-----------------------------------------------------------------------------
(* The dashboard, and what the caches see *)

\* dashboard_stats: is the collection's reference time the expected one?
IsCurrent(m) == state[m].ref = RefSlot(m)

\* The run that holds the lock of its model.
Active(m) == IF lock[m] = NoTask THEN NoRef ELSE run[m][lock[m]].ref

Runs == INSTANCE ModelRuns WITH
            newest <- slot, active <- [m \in Models |-> Active(m)]

-----------------------------------------------------------------------------
(* Properties *)

Refs == 0..MaxSlot
MaxFiles == NSurface + NLevels
Run == [phase : {"idle", "constants", "heights", "stations", "publish",
                 "probe", "fetch", "store", "grid", "finish", "save"},
        ref : Refs \union {NoRef}, polls : 0..MaxPolls,
        done : 0..MaxFiles, ok : 0..MaxFiles, total : 0..MaxFiles]
State == [status : {"not_started", "running", "done", "failed"},
          ref : Refs \union {NoRef}, done : 0..MaxFiles, ok : 0..MaxFiles,
          total : 0..MaxFiles]

\* Types; the warm-up task runs the model it is at and nothing else.
TypeOK ==
    /\ slot \in [Models -> Refs] /\ upstream \in {"up", "down"}
    /\ warm \in Models \union {"done"}
    /\ lock \in [Models -> Tasks \union {NoTask}]
    /\ run \in [Models -> [Tasks -> Run]]
    /\ tree \in [Models -> BOOLEAN] /\ heights \in [Models -> BOOLEAN]
    /\ dirs \in [Models -> SUBSET Refs]
    /\ state \in [Models -> State]
    /\ stations \in [Models -> Refs \union {NoRef}]
    /\ complete \in [Models -> Refs \union {NoRef}]
    /\ grids \in [Models -> Refs \union {NoRef}]
    /\ gridErrors \in [Models -> SUBSET Refs]
    /\ \A m \in Models : ~At(m, "warm", "idle") => warm = m

Collecting(m, t) == run[m][t].phase \notin {"idle", "save"}

\* The directory a run downloads into and reads from stays there while it is
\* collecting, and is the only one of its model: a second trigger never
\* purges it ("_purge_stale deletes the active 12Z GRIB directory").
RunKeepsItsDirectory ==
    \A m \in Models, t \in Tasks :
        Collecting(m, t) => dirs[m] = {run[m][t].ref}

\* The dashboard says "running" exactly while some task collects the model,
\* however the run ends.
StatusFollowsRun ==
    \A m \in Models :
        state[m].status = "running" <=> \E t \in Tasks : Collecting(m, t)

\* From mark_running to the end of the run the counts shown are the run's
\* own, and within each other.
ProgressWithinTotal ==
    \A m \in Models, t \in Tasks :
        run[m][t].phase \in {"fetch", "store", "grid"} =>
            /\ state[m].ref = run[m][t].ref
            /\ state[m].ok <= state[m].done /\ state[m].done <= state[m].total

\* The cache of a model never goes back to an older run, although a run reads
\* the clock when it starts and stores when it ends.
CacheNeverOlder ==
    [][\A m \in Models : /\ stations'[m] >= stations[m]
                        /\ complete'[m] >= complete[m]
                        /\ grids'[m] >= grids[m]]_vars

\* Collection implements ModelRuns, which is all that the caches rely on: no
\* two runs of a model overlap, none works on a run older than the one before,
\* and nothing is stored but by the run that holds the lock.
RefinesModelRuns == Runs!Spec

\* When the dashboard says "done" and "current", of a run that had files to
\* fetch, all stations of the newest run are in the cache, also when none of
\* the files came: what was fetched, built and stored since the reference time
\* was set was this run's, and no exception was lost on the way.  (With an
\* empty station list a run is done without files, stations or a new time.)
CurrentMeansStored ==
    \A m \in Models :
        IsCurrent(m) /\ state[m].status = "done" /\ state[m].total # 0 =>
            stations[m] = slot[m] /\ complete[m] = slot[m]

\* When the warm-up is over every model has been collected at least once, or
\* is being collected: neither a failure of CH1 nor a trigger that came first
\* keeps CH2 from its turn.
WarmUpReachesAll ==
    warm = "done" => \A m \in Models : state[m].status # "not_started"

\* Every run ends, done or failed, even if nothing is ever published.
RunsEnd == \A m \in Models : state[m].status = "running" ~> state[m].status # "running"

\* Once the upstream stays up, each model is collected again, whatever failed
\* before: no failure leaves a lock held or a model out.
CollectedAgain ==
    <>[](upstream = "up") =>
        \A m \in Models : []<>(state[m].status = "running")

\* RESUME.md: "failed = files_done - files_ok" is what the dashboard shows.
\* Fails when a run starts after one that got files: mark_started resets
\* files_done but not files_ok, and the failures shown are negative.
FailedNotNegative == \A m \in Models : state[m].ok <= state[m].done

\* "Cached dataset" is what the dashboard calls the reference time of the
\* collection, and "up to date" when it is the expected one.  Fails: the time
\* is set by mark_running, before the first fetch, and the cache keeps the
\* stations of an earlier run until the fetches are over, and after them too
\* if the new stations cannot be built.
CachedDatasetIsCached ==
    \A m \in Models : state[m].ref # NoRef => stations[m] = state[m].ref

\* "Telemetry is what makes a no-grids run visible on the dashboard instead of
\* reporting fully successful."  Fails when the vertical constants could not
\* be fetched after the tree was set: _ensure_grid never asks for them again,
\* and every later run is done, without grids and without a trace.
NoGridsRunVisible ==
    \A m \in Models :
        state[m].status = "done" /\ state[m].total # 0 =>
            grids[m] >= complete[m] \/ complete[m] \in gridErrors[m]
=============================================================================
