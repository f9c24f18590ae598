----------------------------- MODULE Persistence -----------------------------
(***************************************************************************)
(* save_cache and load_cache of lsmfapi/database/cache.py: what survives a *)
(* restart.  Every collector saves in a worker thread when its run is over *)
(* and the application saves once more when it stops.  A save writes a     *)
(* temporary file next to each cache file and renames it; the grid file is *)
(* skipped unless a collector has set its dirty flag.  Nothing keeps two   *)
(* saves apart: the locks of the scheduler are one per model, and the      *)
(* flags, the names of the temporary files and the memory are shared.      *)
(*                                                                         *)
(* The caches are made of cells.  A model has one station entry and, in    *)
(* the grid, one row with its valid time and its values, and the label,    *)
(* which says what run the rows are from; one entry, one row, one value    *)
(* stand for all.  A cell holds the number of the run it is from, 0 if     *)
(* there is none.  Savers read cell after cell and collectors write cell   *)
(* after cell, with no lock between them.                                  *)
(*                                                                         *)
(* One grid stands for both (the thermal grid has the same code and its    *)
(* own file and flag).  A process has a file open under a name; when the   *)
(* file is renamed the process goes on writing it under the new one.       *)
(***************************************************************************)
EXTENDS Integers

CONSTANTS
    Models,       \* the collectors that run
    MayFail,      \* may writing a file fail
    OldFile,      \* may the first start find a grid file of an older version
    MaxRuns,      \* bound: collection runs in a behaviour
    MaxStops,     \* bound: times the application is stopped
    MaxCrashes    \* bound: times the process is killed

ASSUME PersistenceAssumption ==
    /\ MayFail \in BOOLEAN /\ OldFile \in BOOLEAN
    /\ MaxRuns \in Nat /\ MaxStops \in Nat /\ MaxCrashes \in Nat
    /\ (OldFile => MaxRuns > 0)
    /\ "shutdown" \notin Models

App   == "shutdown"                 \* save_cache() at the end of lifespan
Procs == Models \union {App}
Kinds == {"station", "grid"}
Names == {"tmp", "final"}

\* What a cache file consists of, for each model.
FieldsOf(k) == IF k = "station" THEN {"entry"} ELSE {"label", "time", "data"}
CellsOf     == [k \in Kinds |-> FieldsOf(k) \X Models]
Cells       == CellsOf["station"] \union CellsOf["grid"]
KindOf(c)   == IF c[1] = "entry" THEN "station" ELSE "grid"

VARIABLES
    life,      \* "up", "stopping" (lifespan after its yield) or "down"
    mem,       \* cell |-> run, the caches in memory
    dirty,     \* _grid_wind_dirty
    proc,      \* what each collector, or the application, is doing
    disk,      \* kind, name |-> the file of that name
    runs,      \* number of runs so far
    stops,     \* number of stops so far
    crashes,   \* number of crashes so far
    mishaps    \* history: kind |-> what has come between its saves, since a
               \* save of it last began alone or the process was started:
               \* "overlap" two at once, "failed" one of them failed,
               \* "slice"   a slice was finished during one (grid only)

vars == <<life, mem, dirty, proc, disk, runs, stops, crashes, mishaps>>

Empty(k)  == [c \in CellsOf[k] |-> 0]
NoFile(k) == [state |-> "none", data |-> Empty(k), shared |-> FALSE]
NoCells   == [c \in {} |-> 0]
Idle      == [phase |-> "idle", kind |-> "station", at |-> "gone",
              data |-> NoCells, run |-> 0]
NoMishaps == [k \in Kinds |-> {}]

\* From the first cell read until the file has been renamed.
Savers(k) == {p \in Procs : /\ proc[p].phase \in {"read", "write", "replace"}
                            /\ proc[p].kind = k}
Saving(p) == proc[p].phase \in {"read", "write", "replace", "check", "clear"}

Suffers(k, what) == [mishaps EXCEPT ![k] = @ \union {what}]

-----------------------------------------------------------------------------
(* A collection run, as far as it changes what is saved *)

\* The stations of a run have been built and stored.
StoreStations(m) ==
    /\ life = "up" /\ proc[m].phase = "idle" /\ runs < MaxRuns
    /\ runs' = runs + 1
    /\ mem' = [mem EXCEPT ![<<"entry", m>>] = runs + 1]
    /\ proc' = [proc EXCEPT ![m] = [Idle EXCEPT !.phase = "data", !.run = runs + 1]]
    /\ UNCHANGED <<life, dirty, disk, stops, crashes, mishaps>>

\* A row gets its values and then its valid time; after the last row comes the
\* run they are all from, and then the flag.
Following == [data |-> "time", time |-> "label", label |-> "mark"]

WriteSlice(m) ==
    LET f == proc[m].phase IN
    /\ f \in DOMAIN Following
    /\ mem' = [mem EXCEPT ![<<f, m>>] = proc[m].run]
    /\ proc' = [proc EXCEPT ![m].phase = Following[f]]
    /\ UNCHANGED <<life, dirty, disk, runs, stops, crashes, mishaps>>

\* Variant for mutation: the flag is not set by a later slice.
FlagAfterSlice_Forgotten == dirty

FlagAfterSlice == TRUE

GridIsSaved == \E p \in Procs : Saving(p) /\ proc[p].kind = "grid"

MarkDirty(m) ==
    /\ proc[m].phase = "mark"
    /\ dirty' = FlagAfterSlice
    /\ proc' = [proc EXCEPT ![m].phase = "done"]
    /\ mishaps' = IF GridIsSaved THEN Suffers("grid", "slice") ELSE mishaps
    /\ UNCHANGED <<life, mem, disk, runs, stops, crashes>>

\* collect_grid raised before it had rows to write: "station data unaffected",
\* and the run goes on.
SkipGrid(m) ==
    /\ proc[m].phase = "data"
    /\ proc' = [proc EXCEPT ![m].phase = "done"]
    /\ UNCHANGED <<life, mem, dirty, disk, runs, stops, crashes, mishaps>>

-----------------------------------------------------------------------------
(* save_cache *)

\* p begins to save a cache.
Begin(p, k) ==
    /\ proc' = [proc EXCEPT ![p] = [Idle EXCEPT !.phase = "read", !.kind = k]]
    /\ mishaps' = IF Savers(k) = {} THEN [mishaps EXCEPT ![k] = {}]
                                    ELSE Suffers(k, "overlap")

\* The event loop gets to start the save, unless it is blocked or gone.
StartSave(m) ==
    /\ life = "up" /\ proc[m].phase = "done"
    /\ Begin(m, "station")
    /\ UNCHANGED <<life, mem, dirty, disk, runs, stops, crashes>>

\* The stations are read, and turned into text, before the file is opened; so
\* are the labels of the grid and its valid times.  Its values are read while
\* they are written to the file.
Fields(p) == CASE proc[p].phase = "read"  -> FieldsOf(proc[p].kind) \ {"data"}
               [] proc[p].phase = "write" -> FieldsOf(proc[p].kind)
               [] OTHER                   -> {}

Unread(p) == (Fields(p) \X Models) \ DOMAIN proc[p].data

\* The order of the cells is fixed, and nothing depends on what it is.
ReadCell(p) ==
    LET c == CHOOSE c \in Unread(p) : TRUE IN
    /\ Unread(p) # {}
    /\ proc' = [proc EXCEPT ![p].data =
           [x \in DOMAIN @ \union {c} |-> IF x = c THEN mem[c] ELSE @[x]]]
    /\ UNCHANGED <<life, mem, dirty, disk, runs, stops, crashes, mishaps>>

\* Some process is writing the temporary file of this kind.
InUse(k) == \E p \in Procs : /\ proc[p].phase = "write" /\ proc[p].kind = k
                             /\ proc[p].at = "tmp"

\* Variant for mutation: the cache file itself is opened for writing.
OpensAt_Final == "final"

OpensAt == "tmp"

\* Opening for writing truncates the file there is.
OpenTmp(p) ==
    LET k == proc[p].kind IN
    /\ proc[p].phase = "read" /\ Unread(p) = {}
    /\ disk' = [disk EXCEPT ![k][OpensAt] =
                   [state |-> "torn", data |-> Empty(k), shared |-> InUse(k)]]
    /\ proc' = [proc EXCEPT ![p].phase = "write", ![p].at = OpensAt]
    /\ UNCHANGED <<life, mem, dirty, runs, stops, crashes, mishaps>>

\* The writer is done.  Two writers of one file may leave a mixture of both.
FinishWrite(p) ==
    LET k == proc[p].kind
        n == proc[p].at IN
    /\ proc[p].phase = "write" /\ Unread(p) = {}
    /\ \/ /\ n \in Names
          /\ \E s \in {"whole"} \union (IF disk[k][n].shared THEN {"torn"} ELSE {}) :
                disk' = [disk EXCEPT ![k][n].state = s,
                                     ![k][n].data = proc[p].data]
       \/ n = "gone" /\ UNCHANGED disk
    /\ proc' = [proc EXCEPT ![p].phase = "replace"]
    /\ UNCHANGED <<life, mem, dirty, runs, stops, crashes, mishaps>>


\* After the stations comes the flag, after the grid the flag is cleared.
AfterFile(p) == IF proc[p].kind = "station" THEN "check" ELSE "clear"

\* Where the other writers' files are once tmp has been renamed.
Renamed(q, k) ==
    IF q.phase = "write" /\ q.kind = k
    THEN [q EXCEPT !.at = IF q.at = "tmp" THEN "final" ELSE "gone"]
    ELSE q

\* Variant for mutation: the file is copied and the temporary one left.
TmpAfterReplace_Kept(k) == disk[k]["tmp"]

TmpAfterReplace(k) == NoFile(k)

\* tmp.replace(file).
Replace(p) ==
    LET k == proc[p].kind IN
    /\ proc[p].phase = "replace" /\ disk[k]["tmp"].state # "none"
    /\ disk' = [disk EXCEPT ![k] = [final |-> disk[k]["tmp"],
                                    tmp |-> TmpAfterReplace(k)]]
    /\ proc' = [q \in Procs |->
                   IF q = p THEN [proc[p] EXCEPT !.phase = AfterFile(p)]
                            ELSE Renamed(proc[q], k)]
    /\ UNCHANGED <<life, mem, dirty, runs, stops, crashes, mishaps>>

\* Variant for mutation: the rename is tried until it succeeds.
ReplaceMissing_Retries(p) ==
    /\ proc[p].phase = "replace" /\ disk[proc[p].kind]["tmp"].state = "none"
    /\ UNCHANGED vars

\* Another saver has renamed the file away: FileNotFoundError, logged.
ReplaceMissing(p) ==
    /\ proc[p].phase = "replace" /\ disk[proc[p].kind]["tmp"].state = "none"
    /\ proc' = [proc EXCEPT ![p].phase = AfterFile(p)]
    /\ UNCHANGED <<life, mem, dirty, disk, runs, stops, crashes, mishaps>>

\* No space, no permission, or (stations) a dictionary that grew while it was
\* read: logged, and the save goes on with what comes next.
WriteFails(p) ==
    /\ MayFail /\ proc[p].phase \in {"read", "write", "replace"}
    /\ proc' = [proc EXCEPT ![p].phase = AfterFile(p)]
    /\ mishaps' = Suffers(proc[p].kind, "failed")
    /\ UNCHANGED <<life, mem, dirty, disk, runs, stops, crashes>>

\* if _grid_wind_dirty: ...  The flag is set only where there is a store, so
\* that _save_grid_cache never returns for want of one.
CheckDirty(p) ==
    /\ proc[p].phase = "check"
    /\ \/ dirty /\ Begin(p, "grid")
       \/ ~dirty /\ proc' = [proc EXCEPT ![p] = Idle] /\ UNCHANGED mishaps
    /\ UNCHANGED <<life, mem, dirty, disk, runs, stops, crashes>>

\* The flag is cleared whether or not the file was written.
ClearDirty(p) ==
    /\ proc[p].phase = "clear"
    /\ dirty' = FALSE
    /\ proc' = [proc EXCEPT ![p] = Idle]
    /\ UNCHANGED <<life, mem, disk, runs, stops, crashes, mishaps>>

-----------------------------------------------------------------------------
(* Stopping, crashing and starting *)

\* The scheduler is shut down without waiting, and the application saves.
Stop ==
    /\ life = "up" /\ stops < MaxStops
    /\ life' = "stopping"
    /\ stops' = stops + 1
    /\ Begin(App, "station")
    /\ UNCHANGED <<mem, dirty, disk, runs, crashes>>

Forget ==
    /\ life' = "down"
    /\ mem' = [c \in Cells |-> 0]
    /\ dirty' = FALSE
    /\ proc' = [p \in Procs |-> Idle]
    /\ mishaps' = NoMishaps

\* The process ends once the application and the worker threads are done; a
\* collector that would start its save now has been cancelled.
Exit ==
    /\ life = "stopping"
    /\ proc[App].phase = "idle"
    /\ \A m \in Models : proc[m].phase \in {"idle", "done"}
    /\ Forget
    /\ UNCHANGED <<disk, runs, stops, crashes>>

Crash ==
    /\ life # "down" /\ crashes < MaxCrashes
    /\ crashes' = crashes + 1
    /\ Forget
    /\ UNCHANGED <<disk, runs, stops>>

\* What loading a file puts into the memory: all of it or nothing.
Loaded(c) == LET f == disk[KindOf(c)]["final"] IN
             IF f.state = "whole" THEN f.data[c] ELSE 0

\* The labels are taken over before the arrays are read, which fails for a file
\* of an older version, and may for a torn one.
LabelsTaken == CASE disk["grid"]["final"].state = "old"  -> {TRUE}
                 [] disk["grid"]["final"].state = "torn" -> BOOLEAN
                 [] OTHER                                -> {FALSE}

\* Variant for mutation: the stations are not loaded while there is a grid.
Recalled_GridOnly(c) ==
    IF c[1] = "entry" /\ disk["grid"]["final"].state = "whole" THEN 0 ELSE Loaded(c)

Recalled(c) == Loaded(c)

\* lifespan: load_cache, which ends with removing what interrupted writes
\* have left behind.
Start ==
    /\ life = "down"
    /\ life' = "up"
    /\ \E taken \in LabelsTaken :
          mem' = [c \in Cells |-> IF c[1] = "label" /\ taken
                                  THEN disk["grid"]["final"].data[c]
                                  ELSE Recalled(c)]
    /\ disk' = [k \in Kinds |-> [disk[k] EXCEPT !["tmp"] = NoFile(k)]]
    /\ UNCHANGED <<dirty, proc, runs, stops, crashes, mishaps>>

-----------------------------------------------------------------------------
OldGrid == [state |-> "old", data |-> [c \in CellsOf["grid"] |-> 1],
            shared |-> FALSE]

Init ==
    /\ life = "down"
    /\ mem = [c \in Cells |-> 0]
    /\ dirty = FALSE
    /\ proc = [p \in Procs |-> Idle]
    /\ disk = [k \in Kinds |-> [n \in Names |->
                  IF k = "grid" /\ n = "final" /\ OldFile THEN OldGrid ELSE NoFile(k)]]
    /\ runs = IF OldFile THEN 1 ELSE 0
    /\ stops = 0 /\ crashes = 0
    /\ mishaps = NoMishaps

Collect(m) == StoreStations(m) \/ WriteSlice(m) \/ MarkDirty(m) \/ SkipGrid(m)
Save(p) == \/ ReadCell(p) \/ OpenTmp(p) \/ FinishWrite(p) \/ Replace(p)
           \/ ReplaceMissing(p) \/ CheckDirty(p) \/ ClearDirty(p)

Next ==
    \/ \E m \in Models : Collect(m) \/ StartSave(m)
    \/ \E p \in Procs : Save(p) \/ WriteFails(p)
    \/ Stop \/ Exit \/ Crash \/ Start

\* Worker threads go on, the event loop starts what is due, and the container
\* is restarted (restart: unless-stopped).  Nothing makes a run start.
Fairness ==
    /\ \A m \in Models : /\ WF_vars(WriteSlice(m) \/ SkipGrid(m))
                         /\ WF_vars(MarkDirty(m)) /\ WF_vars(StartSave(m))
    /\ \A p \in Procs : WF_vars(Save(p))
    /\ WF_vars(Exit) /\ WF_vars(Start)

Spec == Init /\ [][Next]_vars
FairSpec == Spec /\ Fairness

-----------------------------------------------------------------------------
(* The abstract caches that the above implements *)

Overlapped == {k \in Kinds : "overlap" \in mishaps[k]}

\* The cells a save has read are its copy.  Of saves that overlap there is no
\* telling which will be renamed.
Copy == [k \in Kinds |-> IF Savers(k) = {} \/ k \in Overlapped THEN NoCells
                         ELSE proc[CHOOSE p \in Savers(k) : TRUE].data]

Saved == [c \in Cells |-> Loaded(c)]

Durable == INSTANCE DurableCache WITH
               Runs <- 1..MaxRuns, alive <- life # "down", memory <- mem,
               copy <- Copy, saved <- Saved, clashing <- Overlapped

-----------------------------------------------------------------------------
(* Properties *)

Run  == 0..MaxRuns
Part == UNION {[C -> Run] : C \in SUBSET Cells}
File == [state : {"none", "torn", "whole", "old"}, data : Part, shared : BOOLEAN]
Proc == [phase : {"idle", "data", "time", "label", "mark", "done", "read",
                  "write", "replace", "check", "clear"},
         kind : Kinds, at : Names \union {"gone"}, data : Part, run : Run]

\* Types; what is read is of the cache that is saved, and the application only
\* saves while it stops.
TypeOK ==
    /\ life \in {"up", "stopping", "down"}
    /\ mem \in [Cells -> Run] /\ dirty \in BOOLEAN
    /\ proc \in [Procs -> Proc]
    /\ \A p \in Procs : DOMAIN proc[p].data \subseteq CellsOf[proc[p].kind]
    /\ disk \in [Kinds -> [Names -> File]]
    /\ \A k \in Kinds, n \in Names : DOMAIN disk[k][n].data = CellsOf[k]
    /\ runs \in Run /\ stops \in 0..MaxStops /\ crashes \in 0..MaxCrashes
    /\ mishaps \in [Kinds -> SUBSET {"overlap", "failed", "slice"}]
    /\ proc[App].phase # "idle" => life = "stopping"

\* "Atomically write all caches to disk" (save_cache), as one specification: a
\* cache file is replaced by a whole copy, each cell of which the memory has held
\* since the save began, and by nothing else, and a restart begins with what was
\* saved last, whatever crashes, failing writes and runs come in between.  Two
\* saves at once are the exception, and it is spelt out what they may do.
RefinesDurableCache == Durable!Spec

Torn(k) == disk[k]["final"].state = "torn"

\* save_cache: "Atomically write all caches to disk".  No crash and no failing
\* write leaves part of a cache file: a file only ever becomes one that is not
\* complete while two saves of it, begun one during the other, are going on.
FileAlwaysComplete ==
    [][\A k \in Kinds : Torn(k)' /\ ~Torn(k) => k \in Overlapped]_vars

\* "A new deploy never loses the CH2 tail just because CH1 hasn't run yet": a
\* restart never brings back an older run of a cell than it would have a step
\* before, over crashes, failing writes, slices written during a save and saves
\* of the other model; only a save that overlaps another can undo what it saved.
SavedNeverOlder ==
    [][\A c \in Cells : Loaded(c)' >= Loaded(c) \/ KindOf(c) \in Overlapped]_vars

\* _remove_orphaned_tmp_files: a temporary file "is by definition an
\* interrupted write": while no save of its kind is going on there is none,
\* unless the last one has failed, also if saves overlap.
TmpMeansInterrupted ==
    life # "down" => \A k \in Kinds :
        disk[k]["tmp"].state # "none" => Savers(k) # {} \/ "failed" \in mishaps[k]

\* The memory is what a restart would bring back.  Of a file that cannot be read
\* the labels may be in the memory.
InStep(k) == \A c \in CellsOf[k] :
    \/ mem[c] = Loaded(c)
    \/ c[1] = "label" /\ disk["grid"]["final"].state # "whole"

AtRest == life = "up" /\ \A p \in Procs : proc[p].phase \in {"idle", "done"}

\* The flag is what makes a later save write the grid.  If it is clear and the
\* file is stale, then since a save of the grid last began alone one has failed,
\* two have overlapped, or a slice was finished during one: nothing else, no
\* crash, no slice that is begun before a save and finished after it, no order
\* of the two models' saves, leaves a slice unsaved and unmarked.
CleanMeansSaved == AtRest /\ ~dirty /\ mishaps["grid"] = {} => InStep("grid")

\* The comment on the flags: save_cache() clears them "after a successful
\* write", so that a clear flag means that the file is up to date.  Fails: a
\* write that has failed clears the flag too.
ClearMeansWritten == AtRest /\ ~dirty => InStep("grid")

\* The comment on the flags: "Set whenever a collector writes a slice".  Fails:
\* a flag set during a save of the other collector is cleared at its end.
SliceStaysMarked ==
    AtRest /\ ~dirty /\ mishaps["grid"] = {"slice"} => InStep("grid")

\* "Atomically write all caches to disk": what is on disk is complete.  Fails
\* when two saves write the same temporary file.
FilesWhole == \A k \in Kinds : ~Torn(k)

\* "Atomically write all caches to disk": a row of the file has the values of
\* the run its valid time is from.  Fails: the valid times are copied when the
\* save begins, the values read while they are written to the file.
RowsWhole == \A m \in Models :
    LET t == Loaded(<<"time", m>>) IN t # 0 => Loaded(<<"data", m>>) = t

\* architecture.md: "Old files that fail to load are ignored": the grid is
\* reported to be of runs whose frames it holds.  Fails for a file whose arrays
\* cannot be read, because the runs it is for have been taken over by then.
LabelsHaveFrames ==
    life = "up" => \A m \in Models :
        mem[<<"label", m>>] # 0 => mem[<<"data", m>>] # 0

\* No save waits for another: also one whose temporary file has been renamed
\* away by another saver comes to its end.
SavesEnd == \A p \in Procs : Saving(p) ~> ~Saving(p)

=============================================================================
