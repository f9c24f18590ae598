----------------------------- MODULE GribCache ------------------------------
(***************************************************************************)
(* The GRIB files of one model run: what _fetch_step downloads, reads and  *)
(* deletes, what the grid build reads and deletes after it, and what the   *)
(* next process finds in the directory of the run (grib_cache.py).         *)
(*                                                                         *)
(* Every fetch is a coroutine of its own.  A semaphore bounds the fetches  *)
(* that search and download; the reads are made in threads, outside of it. *)
(* The content of a file is what a reader can tell: "stub" has at most     *)
(* 1024 bytes, "cut" ends within a GRIB message, "short" ends between two, *)
(* so that members are missing, "junk" has no message, "whole" is whole.   *)
(* A process may end at any time and be started again in the same slot;    *)
(* one fetch a file, no run beside this one (see Collection).              *)
(***************************************************************************)
EXTENDS Integers, FiniteSets

CONSTANTS
    Files,       \* the files of a run: variable and horizon
    Levels,      \* those on model levels, fetched if FirstU is published
    FirstU,      \* the U file of the first horizon
    Kind,        \* file |-> who reads it besides the stations: see below
    Baseline,    \* the files _get_prior looks at: TOT_PREC of h33 for CH2
    Concurrency, \* DOWNLOAD_CONCURRENCY, 6 in the code
    Bodies,      \* what a completed download may leave
    Partials,    \* what one that breaks off may leave
    MaxStarts    \* bound: processes that start in the slot

\* "W" nobody; "grid" the wind grid, which deletes it (U, V, T_2M, TD_2M);
\* "kept" the thermal grid, or nobody.
Kinds == {"W", "grid", "kept"}

ASSUME GribAssumption ==
    /\ IsFiniteSet(Files) /\ FirstU \in Levels /\ Levels \subseteq Files
    /\ Kind \in [Files -> Kinds]
    /\ Baseline \subseteq {f \in Files : Kind[f] = "kept"}
    /\ Concurrency \in Nat \ {0} /\ MaxStarts \in Nat \ {0}
    /\ Bodies \subseteq {"stub", "junk", "whole"}
    /\ Partials \subseteq {"cut", "short"}

VARIABLES
    published, \* the files that can be found in the catalogue
    disk,      \* file |-> its content, or "none"
    phase,     \* of collect(): "start", "fetch", "grid", "done"
    fetch,     \* file |-> where its _fetch_step stands
    free,      \* places free in the semaphore
    result,    \* file |-> the array its fetch returned; None is "none", or
               \* "no message" if the file was read without an exception
    grid,      \* file |-> what the grid build has read, "unread" before
    reported,  \* telemetry: the files with a download error
    had,       \* history: the files that were once whole
    starts

vars == <<published, disk, phase, fetch, free, result, grid, reported, had,
          starts>>

Idle == [f \in Files |-> "idle"]

-----------------------------------------------------------------------------
(* collect() begins: a new process, telemetry empty.  If the first U file is *)
(* not published yet, the files on levels are not asked for.               *)

Start ==
    /\ phase = "start" /\ starts < MaxStarts
    /\ phase' = "fetch" /\ starts' = starts + 1
    /\ fetch' = [f \in Files |-> IF f \in Levels /\ FirstU \notin published
                                 THEN "idle" ELSE "waiting"]
    /\ UNCHANGED <<published, disk, free, result, grid, reported, had>>

-----------------------------------------------------------------------------
(* _fetch_step *)

\* A fetch has its place in the semaphore and searches the catalogue.
Acquire(f) ==
    /\ phase = "fetch" /\ fetch[f] = "waiting" /\ free > 0
    /\ fetch' = [fetch EXCEPT ![f] = "search"] /\ free' = free - 1
    /\ UNCHANGED <<published, disk, phase, result, grid, reported, had, starts>>

\* Variant for mutation: the place of a fetch that failed is not given back.
FreeAfterError_Kept == free

FreeAfterError == free + 1

\* The search fails: this is recorded, and there is no array.
SearchFails(f) ==
    /\ fetch[f] = "search"
    /\ fetch' = [fetch EXCEPT ![f] = "failed"] /\ free' = FreeAfterError
    /\ reported' = reported \union {f}
    /\ UNCHANGED <<published, disk, phase, result, grid, had, starts>>

\* Nothing is found: a warning in the log.
SearchEmpty(f) ==
    /\ fetch[f] = "search" /\ f \notin published
    /\ fetch' = [fetch EXCEPT ![f] = "empty"] /\ free' = free + 1
    /\ UNCHANGED <<published, disk, phase, result, grid, reported, had, starts>>

\* The file exists and has more than 1024 bytes.
TakenFromDisk(f) == disk[f] \notin {"none", "stub"}

CacheHit(f) ==
    /\ fetch[f] = "search" /\ f \in published /\ TakenFromDisk(f)
    /\ fetch' = [fetch EXCEPT ![f] = "read"] /\ free' = free + 1
    /\ UNCHANGED <<published, disk, phase, result, grid, reported, had, starts>>

\* download: the request is made, and the file opened once it is answered.
StartDownload(f) ==
    /\ fetch[f] = "search" /\ f \in published /\ ~TakenFromDisk(f)
    /\ fetch' = [fetch EXCEPT ![f] = "download"]
    /\ \/ disk' = [disk EXCEPT ![f] = "stub"]
       \/ UNCHANGED disk   \* not answered yet
    /\ UNCHANGED <<published, phase, free, result, grid, reported, had, starts>>

\* A part of the body is written.
Grow(f) ==
    /\ fetch[f] = "download"
    /\ \E part \in Partials \ {disk[f]} : disk' = [disk EXCEPT ![f] = part]
    /\ UNCHANGED <<published, phase, fetch, free, result, grid, reported, had,
                   starts>>

\* It breaks off, or is refused: what is on the disk stays there.
DownloadFails(f) ==
    /\ fetch[f] = "download"
    /\ fetch' = [fetch EXCEPT ![f] = "failed"] /\ free' = FreeAfterError
    /\ reported' = reported \union {f}
    /\ UNCHANGED <<published, disk, phase, result, grid, had, starts>>

DownloadEnds(f) ==
    /\ fetch[f] = "download"
    /\ \E body \in Bodies :
        /\ disk' = [disk EXCEPT ![f] = body]
        /\ had' = IF body = "whole" THEN had \union {f} ELSE had
    /\ fetch' = [fetch EXCEPT ![f] = "read"] /\ free' = free + 1
    /\ UNCHANGED <<published, phase, result, grid, reported, starts>>

\* _read_grib2_eccodes raises on a message that is cut and on a missing file.
Raises(f) == disk[f] \in {"cut", "none"}

\* What it returns: None if there is no message, which raises nothing.
Array(f) == CASE Raises(f)                    -> "none"
              [] disk[f] \in {"stub", "junk"} -> "no message"
              [] OTHER                        -> disk[f]

IsArray(a) == a \in {"short", "whole"}

\* Variant for mutation: what the grid build reads is deleted as well.
DeleteAfterRead_All(f) == TRUE

DeleteAfterRead(f) == Kind[f] = "W"

\* Variant for mutation: a file that cannot be read stays.
Discarded_Never(f) == FALSE

\* Deleted where the exception is caught.
Discarded(f) == Raises(f)

\* The read, in a thread of its own.
Read(f) ==
    /\ phase = "fetch" /\ fetch[f] = "read"
    /\ fetch' = [fetch EXCEPT ![f] = "ended"]
    /\ result' = [result EXCEPT ![f] = Array(f)]
    /\ reported' = IF Raises(f) THEN reported \union {f} ELSE reported
    /\ disk' = IF Discarded(f) \/ DeleteAfterRead(f)
               THEN [disk EXCEPT ![f] = "none"] ELSE disk
    /\ UNCHANGED <<published, phase, free, grid, had, starts>>

-----------------------------------------------------------------------------
(* The rest of collect() *)

FetchSteps == {"waiting", "search", "download", "read"}

\* The shapes of two results may differ: one of them misses members.
ShapesDiffer == \E f \in Files : result[f] = "short"

\* gather is over; _get_prior records the baseline of the precipitation if it
\* is missing, or has another number of members than the first result.
BuildStations ==
    /\ phase = "fetch" /\ \A f \in Files : fetch[f] \notin FetchSteps
    /\ phase' = "grid"
    /\ \E odd \in SUBSET (IF ShapesDiffer THEN Baseline ELSE {}) :
          reported' = reported \union odd \union
                          {f \in Baseline : ~IsArray(result[f])}
    /\ UNCHANGED <<published, disk, fetch, free, result, grid, had, starts>>

\* The grid builds read a file if it is there, catch what the read raises, and
\* the wind grid deletes it whatever came of it.
GridRead(f) ==
    /\ phase = "grid" /\ Kind[f] # "W" /\ grid[f] = "unread"
    /\ grid' = [grid EXCEPT ![f] = Array(f)]
    /\ disk' = IF Kind[f] = "grid" THEN [disk EXCEPT ![f] = "none"] ELSE disk
    /\ UNCHANGED <<published, phase, fetch, free, result, reported, had, starts>>

\* The builds are over.  They have read every file there is, or none, without
\* the vertical constants, or some, if one of them has raised: what they have
\* not read stays on the disk.
Finish ==
    /\ phase = "grid" /\ phase' = "done"
    /\ UNCHANGED <<published, disk, fetch, free, result, grid, reported, had,
                   starts>>

\* The process ends, with the run or in the middle of it; nothing cleans up.
\* A second run of the same process in the slot finds the same files.
Stops ==
    /\ phase # "start" /\ phase' = "start"
    /\ fetch' = Idle /\ free' = Concurrency
    /\ result' = [f \in Files |-> "none"] /\ grid' = [f \in Files |-> "unread"]
    /\ reported' = {}
    /\ UNCHANGED <<published, disk, had, starts>>

\* MeteoSwiss publishes a run file by file.
Publish(f) ==
    /\ f \notin published /\ published' = published \union {f}
    /\ UNCHANGED <<disk, phase, fetch, free, result, grid, reported, had, starts>>

-----------------------------------------------------------------------------
Init ==
    /\ published \in SUBSET Files
    /\ disk = [f \in Files |-> "none"]
    /\ phase = "start" /\ fetch = Idle /\ free = Concurrency
    /\ result = [f \in Files |-> "none"] /\ grid = [f \in Files |-> "unread"]
    /\ reported = {} /\ had = {} /\ starts = 0

\* What the fetch of f does next, whatever comes back.  Grow is progress of
\* the body and no step of the fetch.
FetchStep(f) ==
    \/ Acquire(f) \/ SearchFails(f) \/ SearchEmpty(f) \/ CacheHit(f)
    \/ StartDownload(f) \/ DownloadFails(f) \/ DownloadEnds(f) \/ Read(f)

Next ==
    \/ Start \/ BuildStations \/ Finish \/ Stops
    \/ \E f \in Files : FetchStep(f) \/ Grow(f) \/ GridRead(f) \/ Publish(f)

Spec == Init /\ [][Next]_vars

\* Every request has a time limit and every thread ends.  A fetch that waits
\* for a place need only get one if one is free again and again.
Fairness ==
    /\ \A f \in Files : SF_vars(FetchStep(f))
    /\ WF_vars(BuildStations)

FairSpec == Spec /\ Fairness

-----------------------------------------------------------------------------
(* Properties *)

Content == {"none", "stub", "cut", "short", "junk", "whole"}
Values  == {"none", "no message", "short", "whole"}

\* The fetches that hold a place in the semaphore.
Busy == {f \in Files : fetch[f] \in {"search", "download"}}

\* Types; no place in the semaphore is lost, or given out twice.
TypeOK ==
    /\ published \subseteq Files /\ had \subseteq Files
    /\ reported \subseteq Files
    /\ disk \in [Files -> Content]
    /\ phase \in {"start", "fetch", "grid", "done"}
    /\ fetch \in [Files -> FetchSteps \union {"idle", "failed", "empty", "ended"}]
    /\ free = Concurrency - Cardinality(Busy)
    /\ free >= 0
    /\ result \in [Files -> Values] /\ grid \in [Files -> Values \union {"unread"}]
    /\ starts \in 0..MaxStarts
    /\ phase = "start" => fetch = Idle

\* What the stations were built from the grids are built from as well: the
\* clean-up after the station read never takes a file from the grid build.
GridReadsWhatStationsRead ==
    \A f \in Files : IsArray(result[f]) /\ grid[f] # "unread" => grid[f] = result[f]

\* A file that somebody reads again, or nobody deletes, is downloaded once:
\* from then on it is there for every process that starts in the slot.
KeptFilesStay ==
    \A f \in had : Kind[f] = "kept" => disk[f] = "whole"

\* A file on which a read has failed is gone, and on the dashboard, whoever left
\* it there: this process, or an earlier one that was stopped in its download.
\* The next process of the slot downloads it again.
UnreadableIsDiscarded ==
    \A f \in Files : fetch[f] = "ended" =>
        /\ result[f] = "none" => disk[f] = "none" /\ f \in reported
        /\ disk[f] # "cut"

\* A process always gets to the end of its run, unless it is stopped: no fetch
\* waits for a place for ever.
RunEnds == phase = "fetch" ~> phase # "fetch"

\* RESUME.md on delete_after_read: "`W_*.grib2` files never accumulating past a
\* handful at a time (bounded by `DOWNLOAD_CONCURRENCY`)".  Fails: the place in
\* the semaphore is free again before the file is read and deleted.
WFilesBounded ==
    Cardinality({f \in Files : Kind[f] = "W" /\ disk[f] # "none"}) <= Concurrency

\* The grids show nothing that the stations miss.  Fails when the search of a
\* file fails that an earlier process has left: it is not read for the
\* stations, but it is for the grids.
GridReadsNoMore == \A f \in Files : IsArray(grid[f]) => IsArray(result[f])

\* README.md: "Corrupt files (eccodes parse failure) are deleted immediately so
\* they are re-downloaded on the next run."  Fails for a file without a message,
\* which raises nothing: it is taken from the disk in every run of the slot.
CorruptIsDeleted ==
    \A f \in Files : fetch[f] = "ended" /\ ~IsArray(result[f]) => disk[f] = "none"
=============================================================================
