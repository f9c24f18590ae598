-------------------------- MODULE GribCache_proof ---------------------------
(***************************************************************************)
(* Proofs about GribCache, for every finite set of files and every bound   *)
(* of the semaphore: no place in it is lost, and the three properties that *)
(* say who may rely on a file being there.                                 *)
(*                                                                         *)
(* Of these only UnreadableIsDiscarded is inductive with the types alone.  *)
(* The grid build rests on GridInv (a file that the stations were built    *)
(* from is as it was until the grid build comes to it), and the files that *)
(* are kept on KeptInv (one that was whole is not being downloaded).  That *)
(* a run ends is checked by TLC.                                           *)
(***************************************************************************)
EXTENDS GribCache, FiniteSetTheorems, TLAPS

-----------------------------------------------------------------------------
(* Types, and the places in the semaphore *)

LEMMA BusyIsFinite == IsFiniteSet(Busy) /\ Cardinality(Busy) \in Nat
<1>1. Busy \subseteq Files
  BY DEF Busy
<1> QED
  BY <1>1, GribAssumption, FS_Subset, FS_CardinalityType

\* A fetch moves on; the other fetches stay where they are.
LEMMA OneFetch ==
    ASSUME TypeOK, NEW f \in Files, NEW p \in FetchSteps \union {"idle", "failed", "empty", "ended"},
           fetch' = [fetch EXCEPT ![f] = p]
    PROVE  /\ fetch' \in [Files -> FetchSteps \union {"idle", "failed", "empty", "ended"}]
           /\ fetch'[f] = p
           /\ \A g \in Files \ {f} : fetch'[g] = fetch[g]
           /\ p \in {"search", "download"} => Busy' = Busy \union {f}
           /\ p \notin {"search", "download"} => Busy' = Busy \ {f}
<1>1. /\ fetch' \in [Files -> FetchSteps \union {"idle", "failed", "empty", "ended"}]
      /\ fetch'[f] = p
      /\ \A g \in Files \ {f} : fetch'[g] = fetch[g]
  BY DEF TypeOK
<1>2. p \in {"search", "download"} => Busy' = Busy \union {f}
  BY <1>1 DEF Busy
<1>3. p \notin {"search", "download"} => Busy' = Busy \ {f}
  BY <1>1 DEF Busy
<1> QED
  BY <1>1, <1>2, <1>3

Semaphore == free = Concurrency - Cardinality(Busy) /\ free >= 0

\* It takes a place ...
LEMMA Takes ==
    ASSUME TypeOK, NEW f \in Files, fetch[f] = "waiting", free > 0,
           fetch' = [fetch EXCEPT ![f] = "search"], free' = free - 1
    PROVE  Semaphore'
<1>1. "search" \in FetchSteps \union {"idle", "failed", "empty", "ended"}
  BY DEF FetchSteps
<1>2. Busy' = Busy \union {f} /\ f \notin Busy
  BY <1>1, OneFetch DEF Busy
<1>3. Cardinality(Busy') = Cardinality(Busy) + 1
  BY <1>2, BusyIsFinite, FS_AddElement
<1> QED
  BY <1>3, BusyIsFinite, GribAssumption DEF TypeOK, Semaphore

\* ... gives it back ...
LEMMA GivesBack ==
    ASSUME TypeOK, NEW f \in Files, fetch[f] \in {"search", "download"},
           NEW p \in {"failed", "empty", "read"},
           fetch' = [fetch EXCEPT ![f] = p], free' = free + 1
    PROVE  Semaphore'
<1>1. p \in FetchSteps \union {"idle", "failed", "empty", "ended"}
      /\ p \notin {"search", "download"}
  BY DEF FetchSteps
<1>2. Busy' = Busy \ {f} /\ f \in Busy
  BY <1>1, OneFetch DEF Busy
<1>3. Cardinality(Busy') = Cardinality(Busy) - 1
  BY <1>2, BusyIsFinite, FS_RemoveElement
<1> QED
  BY <1>3, BusyIsFinite, GribAssumption DEF TypeOK, Semaphore

\* ... or has the one it had.
LEMMA KeepsPlace ==
    ASSUME TypeOK, Busy' = Busy, UNCHANGED free
    PROVE  Semaphore'
BY DEF TypeOK, Semaphore

\* The state without the semaphore.
Shape ==
    /\ published \subseteq Files /\ had \subseteq Files
    /\ reported \subseteq Files
    /\ disk \in [Files -> Content]
    /\ phase \in {"start", "fetch", "grid", "done"}
    /\ fetch \in [Files -> FetchSteps \union {"idle", "failed", "empty", "ended"}]
    /\ result \in [Files -> Values] /\ grid \in [Files -> Values \union {"unread"}]
    /\ starts \in 0..MaxStarts
    /\ phase = "start" => fetch = Idle

LEMMA InitTypes == Init => TypeOK
<1> SUFFICES ASSUME Init PROVE TypeOK
  OBVIOUS
<1>1. Busy = {}
  BY DEF Init, Idle, Busy
<1>2. Cardinality(Busy) = 0
  BY <1>1, FS_EmptySet
<1>3. Semaphore
  BY <1>2, GribAssumption DEF Init, Semaphore
<1>4. Shape
  BY GribAssumption DEF Init, Idle, Shape, Content, Values
<1> QED
  BY <1>3, <1>4 DEF TypeOK, Shape, Semaphore

LEMMA ArrayTyped ==
    ASSUME TypeOK, NEW f \in Files
    PROVE  Array(f) \in Values
BY DEF TypeOK, Array, Raises, Content, Values

LEMMA AtWork ==
    ASSUME TypeOK, NEW f \in Files, fetch[f] # "idle"
    PROVE  phase # "start"
BY DEF TypeOK, Idle

LEMMA NextTypes == TypeOK /\ [Next]_vars => TypeOK'
<1> SUFFICES ASSUME TypeOK, [Next]_vars PROVE Shape' /\ Semaphore'
  BY DEF TypeOK, Shape, Semaphore
<1>1. CASE Start
  <2>1. Busy' = Busy
    <3>1. Busy = {}
      BY <1>1 DEF Start, Busy, TypeOK, Idle
    <3>2. Busy' = {}
      BY <1>1 DEF Start, Busy
    <3> QED
      BY <3>1, <3>2
  <2>2. Semaphore'
    BY <1>1, <2>1, KeepsPlace DEF Start
  <2>3. fetch' \in [Files -> FetchSteps \union {"idle", "failed", "empty", "ended"}]
    BY <1>1 DEF Start, FetchSteps
  <2>4. phase' = "fetch" /\ starts' \in 0..MaxStarts
    BY <1>1, GribAssumption DEF Start, TypeOK
  <2> QED
    BY <1>1, <2>2, <2>3, <2>4 DEF Start, TypeOK, Shape
<1>2. CASE BuildStations
  <2>1. Busy' = Busy
    BY <1>2 DEF BuildStations, Busy
  <2>2. reported' \subseteq Files
    <3>1. PICK odd \in SUBSET (IF ShapesDiffer THEN Baseline ELSE {}) :
            reported' = reported \union odd \union
                            {f \in Baseline : ~IsArray(result[f])}
      BY <1>2 DEF BuildStations
    <3>2. odd \subseteq Files /\ Baseline \subseteq Files
      BY GribAssumption
    <3> QED
      BY <3>1, <3>2 DEF TypeOK
  <2> QED
    BY <1>2, <2>1, <2>2, KeepsPlace DEF BuildStations, TypeOK, Shape
<1>3. CASE Finish
  <2>1. Busy' = Busy
    BY <1>3 DEF Finish, Busy
  <2> QED
    BY <1>3, <2>1, KeepsPlace DEF Finish, TypeOK, Shape
<1>4. CASE Stops
  <2>1. Busy' = {}
    BY <1>4 DEF Stops, Idle, Busy
  <2>2. Cardinality(Busy') = 0
    BY <2>1, FS_EmptySet
  <2>3. Semaphore'
    BY <1>4, <2>2, GribAssumption DEF Stops, Semaphore
  <2> QED
    BY <1>4, <2>3 DEF Stops, Idle, TypeOK, Shape, Values
<1>5. ASSUME NEW f \in Files, Acquire(f) PROVE Shape' /\ Semaphore'
  <2>1. Semaphore'
    BY <1>5, Takes DEF Acquire
  <2> QED
    BY <1>5, <2>1 DEF Acquire, TypeOK, Shape, FetchSteps
<1>6. ASSUME NEW f \in Files, SearchFails(f) PROVE Shape' /\ Semaphore'
  <2>1. Semaphore'
    BY <1>6, GivesBack DEF SearchFails, FreeAfterError
  <2>2. phase' # "start" /\ UNCHANGED phase
    BY <1>6, AtWork DEF SearchFails
  <2> QED
    BY <1>6, <2>1, <2>2 DEF SearchFails, TypeOK, Shape
<1>7. ASSUME NEW f \in Files, SearchEmpty(f) PROVE Shape' /\ Semaphore'
  <2>1. Semaphore'
    BY <1>7, GivesBack DEF SearchEmpty
  <2>2. phase' # "start" /\ UNCHANGED phase
    BY <1>7, AtWork DEF SearchEmpty
  <2> QED
    BY <1>7, <2>1, <2>2 DEF SearchEmpty, TypeOK, Shape
<1>8. ASSUME NEW f \in Files, CacheHit(f) PROVE Shape' /\ Semaphore'
  <2>1. Semaphore'
    BY <1>8, GivesBack DEF CacheHit
  <2>2. phase' # "start" /\ UNCHANGED phase
    BY <1>8, AtWork DEF CacheHit
  <2> QED
    BY <1>8, <2>1, <2>2 DEF CacheHit, TypeOK, Shape, FetchSteps
<1>9. ASSUME NEW f \in Files, StartDownload(f) PROVE Shape' /\ Semaphore'
  <2>1. Busy' = Busy
    BY <1>9 DEF StartDownload, TypeOK, Busy
  <2>2. phase' # "start" /\ UNCHANGED phase
    BY <1>9, AtWork DEF StartDownload
  <2> QED
    BY <1>9, <2>1, <2>2, KeepsPlace DEF StartDownload, TypeOK, Shape, FetchSteps, Content
<1>10. ASSUME NEW f \in Files, Grow(f) PROVE Shape' /\ Semaphore'
  <2>1. Busy' = Busy
    BY <1>10 DEF Grow, Busy
  <2> QED
    BY <1>10, <2>1, KeepsPlace, GribAssumption DEF Grow, TypeOK, Shape, Content
<1>11. ASSUME NEW f \in Files, DownloadFails(f) PROVE Shape' /\ Semaphore'
  <2>1. Semaphore'
    BY <1>11, GivesBack DEF DownloadFails, FreeAfterError
  <2>2. phase' # "start" /\ UNCHANGED phase
    BY <1>11, AtWork DEF DownloadFails
  <2> QED
    BY <1>11, <2>1, <2>2 DEF DownloadFails, TypeOK, Shape
<1>12. ASSUME NEW f \in Files, DownloadEnds(f) PROVE Shape' /\ Semaphore'
  <2>1. Semaphore'
    BY <1>12, GivesBack DEF DownloadEnds
  <2>2. phase' # "start" /\ UNCHANGED phase
    BY <1>12, AtWork DEF DownloadEnds
  <2> QED
    BY <1>12, <2>1, <2>2, GribAssumption DEF DownloadEnds, TypeOK, Shape, FetchSteps, Content
<1>13. ASSUME NEW f \in Files, Read(f) PROVE Shape' /\ Semaphore'
  <2>1. Busy' = Busy
    BY <1>13 DEF Read, TypeOK, Busy
  <2> QED
    BY <1>13, <2>1, KeepsPlace, ArrayTyped DEF Read, TypeOK, Shape, Content
<1>14. ASSUME NEW f \in Files, GridRead(f) PROVE Shape' /\ Semaphore'
  <2>1. Busy' = Busy
    BY <1>14 DEF GridRead, Busy
  <2> QED
    BY <1>14, <2>1, KeepsPlace, ArrayTyped DEF GridRead, TypeOK, Shape, Content
<1>15. ASSUME NEW f \in Files, Publish(f) PROVE Shape' /\ Semaphore'
  <2>1. Busy' = Busy
    BY <1>15 DEF Publish, Busy
  <2> QED
    BY <1>15, <2>1, KeepsPlace DEF Publish, TypeOK, Shape
<1>16. CASE UNCHANGED vars
  <2>1. Busy' = Busy
    BY <1>16 DEF vars, Busy
  <2> QED
    BY <1>16, <2>1, KeepsPlace DEF vars, TypeOK, Shape
<1> QED
  BY <1>1, <1>2, <1>3, <1>4, <1>5, <1>6, <1>7, <1>8, <1>9, <1>10, <1>11,
     <1>12, <1>13, <1>14, <1>15, <1>16 DEF Next, FetchStep

\* No place in the semaphore is lost, or given out twice, on any way a fetch
\* can end.
THEOREM TypeCorrect == Spec => []TypeOK
<1> QED
  BY InitTypes, NextTypes, PTL DEF Spec

-----------------------------------------------------------------------------
(* Who may rely on a file *)

\* What is known of a file between the stations' read of it and the grid
\* build's: an array has come from a read that ended, and is what the disk
\* still holds.
GridInv ==
    /\ phase \in {"start", "fetch"} => \A f \in Files : grid[f] = "unread"
    /\ \A f \in Files :
        /\ result[f] # "none" => fetch[f] = "ended"
        /\ Kind[f] = "W" => grid[f] = "unread"
        /\ IsArray(result[f]) /\ grid[f] = "unread" /\ Kind[f] # "W" => disk[f] = result[f]

\* A file that is kept is not downloaded again.
KeptInv ==
    \A f \in had : Kind[f] = "kept" => fetch[f] # "download"

FileInv == /\ GridInv /\ KeptInv /\ GridReadsWhatStationsRead /\ KeptFilesStay
           /\ UnreadableIsDiscarded

\* The same for one file.
FileOK(f) ==
    /\ phase \in {"start", "fetch"} => grid[f] = "unread"
    /\ result[f] # "none" => fetch[f] = "ended"
    /\ Kind[f] = "W" => grid[f] = "unread"
    /\ IsArray(result[f]) /\ grid[f] = "unread" /\ Kind[f] # "W" => disk[f] = result[f]
    /\ f \in had /\ Kind[f] = "kept" => fetch[f] # "download"
    /\ IsArray(result[f]) /\ grid[f] # "unread" => grid[f] = result[f]
    /\ f \in had /\ Kind[f] = "kept" => disk[f] = "whole"
    /\ fetch[f] = "ended" => /\ result[f] = "none" => disk[f] = "none" /\ f \in reported
                             /\ disk[f] # "cut"

LEMMA InitFiles == Init => FileInv
<1> SUFFICES ASSUME Init PROVE FileInv
  OBVIOUS
<1>1. TypeOK
  BY InitTypes
<1>2. ASSUME NEW f \in Files PROVE FileOK(f)
  BY DEF Init, Idle, FileOK, IsArray
<1> QED
  BY <1>1, <1>2 DEF TypeOK, FileInv, FileOK, GridInv, KeptInv, GridReadsWhatStationsRead,
                    KeptFilesStay, UnreadableIsDiscarded

\* A step that has nothing to do with file f, or only publishes it, records
\* more of it or ends a phase after the fetches.
LEMMA OtherFile ==
    ASSUME NEW f \in Files, FileOK(f), reported \subseteq reported',
           f \in had' <=> f \in had,
           disk'[f] = disk[f], fetch'[f] = fetch[f], result'[f] = result[f],
           grid'[f] = grid[f], phase' \in {"start", "fetch"} => phase \in {"start", "fetch"}
    PROVE  FileOK(f)'
BY DEF FileOK, IsArray

LEMMA NextFiles == TypeOK /\ FileInv /\ [Next]_vars => FileInv'
<1> SUFFICES ASSUME TypeOK, \A g \in Files : FileOK(g), [Next]_vars, TypeOK'
             PROVE  \A f \in Files : FileOK(f)'
  BY NextTypes DEF TypeOK, FileInv, FileOK, GridInv, KeptInv, GridReadsWhatStationsRead,
                  KeptFilesStay, UnreadableIsDiscarded
<1> SUFFICES ASSUME NEW f \in Files, FileOK(f), [Next]_vars
             PROVE  FileOK(f)'
  OBVIOUS
<1>1. CASE Start
  <2>1. fetch'[f] \in {"idle", "waiting"} /\ result[f] = "none"
    BY <1>1 DEF Start, TypeOK, Idle, FileOK
  <2> QED
    BY <1>1, <2>1 DEF Start, FileOK, IsArray
<1>2. CASE BuildStations
  BY <1>2, OtherFile DEF BuildStations
<1>3. CASE Finish
  BY <1>3, OtherFile DEF Finish
<1>4. CASE Stops
  BY <1>4 DEF Stops, Idle, FileOK, IsArray
<1>5. ASSUME NEW g \in Files, Acquire(g) PROVE FileOK(f)'
  BY <1>5 DEF Acquire, TypeOK, FileOK, IsArray
<1>6. ASSUME NEW g \in Files, SearchFails(g) PROVE FileOK(f)'
  BY <1>6 DEF SearchFails, TypeOK, FileOK, IsArray
<1>7. ASSUME NEW g \in Files, SearchEmpty(g) PROVE FileOK(f)'
  BY <1>7 DEF SearchEmpty, TypeOK, FileOK, IsArray
<1>8. ASSUME NEW g \in Files, CacheHit(g) PROVE FileOK(f)'
  BY <1>8 DEF CacheHit, TypeOK, FileOK, IsArray
\* Only a file that is missing or a stub is downloaded, so not one that is kept.
<1>9. ASSUME NEW g \in Files, StartDownload(g) PROVE FileOK(f)'
  BY <1>9 DEF StartDownload, TakenFromDisk, TypeOK, FileOK, IsArray
<1>10. ASSUME NEW g \in Files, Grow(g) PROVE FileOK(f)'
  BY <1>10 DEF Grow, TypeOK, FileOK, IsArray
<1>11. ASSUME NEW g \in Files, DownloadFails(g) PROVE FileOK(f)'
  BY <1>11 DEF DownloadFails, TypeOK, FileOK, IsArray
<1>12. ASSUME NEW g \in Files, DownloadEnds(g) PROVE FileOK(f)'
  BY <1>12 DEF DownloadEnds, TypeOK, FileOK, IsArray
<1>13. ASSUME NEW g \in Files, Read(g) PROVE FileOK(f)'
  <2>1. CASE g # f
    <3>1. /\ disk'[f] = disk[f] /\ fetch'[f] = fetch[f] /\ result'[f] = result[f]
          /\ reported \subseteq reported' /\ UNCHANGED <<phase, grid, had>>
      BY <1>13, <2>1 DEF Read, TypeOK
    <3> QED
      BY <3>1, OtherFile
  <2>2. CASE g = f
    <3>1. /\ phase = "fetch" /\ fetch'[f] = "ended" /\ result'[f] = Array(f)
          /\ reported' = IF Raises(f) THEN reported \union {f} ELSE reported
          /\ disk'[f] = IF Raises(f) \/ Kind[f] = "W" THEN "none" ELSE disk[f]
          /\ UNCHANGED <<phase, grid, had>>
      BY <1>13, <2>2 DEF Read, Discarded, DeleteAfterRead, TypeOK
    <3>2. grid'[f] = "unread"
      BY <3>1 DEF FileOK
    <3>3. CASE Raises(f)
      <4>1. result'[f] = "none" /\ disk'[f] = "none" /\ f \in reported'
        <5>1. Array(f) = "none"
          BY <3>3 DEF Array, Raises
        <5> QED
          BY <3>1, <3>3, <5>1
      <4>2. disk[f] # "whole"
        BY <3>3 DEF Raises
      <4> QED
        BY <3>1, <3>2, <4>1, <4>2 DEF FileOK, IsArray
    <3>4. CASE ~Raises(f)
      <4>1. disk[f] \in {"stub", "short", "junk", "whole"}
        BY <3>4 DEF Raises, TypeOK, Content
      <4>2. /\ result'[f] # "none"
            /\ IsArray(result'[f]) => result'[f] = disk[f]
        BY <3>1, <3>4, <4>1 DEF Array, IsArray
      <4>3. disk'[f] = IF Kind[f] = "W" THEN "none" ELSE disk[f]
        BY <3>1, <3>4
      <4> QED
        BY <3>1, <3>2, <4>1, <4>2, <4>3 DEF FileOK, IsArray
    <3> QED
      BY <3>3, <3>4
  <2> QED
    BY <2>1, <2>2
<1>14. ASSUME NEW g \in Files, GridRead(g) PROVE FileOK(f)'
  <2>1. CASE g # f
    <3>1. /\ disk'[f] = disk[f] /\ grid'[f] = grid[f]
          /\ UNCHANGED <<phase, fetch, result, reported, had>>
      BY <1>14, <2>1 DEF GridRead, TypeOK
    <3> QED
      BY <3>1, OtherFile
  <2>2. CASE g = f
    <3>1. /\ phase = "grid" /\ Kind[f] # "W" /\ grid[f] = "unread"
          /\ grid'[f] = Array(f)
          /\ disk'[f] = IF Kind[f] = "grid" THEN "none" ELSE disk[f]
          /\ UNCHANGED <<phase, fetch, result, reported, had>>
      BY <1>14, <2>2 DEF GridRead, TypeOK
    <3>2. IsArray(result[f]) => Array(f) = result[f]
      BY <3>1 DEF FileOK, Array, Raises, IsArray
    <3>3. Array(f) # "unread"
      BY ArrayTyped DEF Values
    <3> QED
      BY <3>1, <3>2, <3>3 DEF FileOK
  <2> QED
    BY <2>1, <2>2
<1>15. ASSUME NEW g \in Files, Publish(g) PROVE FileOK(f)'
  BY <1>15, OtherFile DEF Publish
<1>16. CASE UNCHANGED vars
  BY <1>16, OtherFile DEF vars
<1> QED
  BY <1>1, <1>2, <1>3, <1>4, <1>5, <1>6, <1>7, <1>8, <1>9, <1>10, <1>11,
     <1>12, <1>13, <1>14, <1>15, <1>16 DEF Next, FetchStep

LEMMA FilesInvariant == Spec => []FileInv
<1>1. Init => TypeOK /\ FileInv
  BY InitTypes, InitFiles
<1>2. TypeOK /\ FileInv /\ [Next]_vars => TypeOK' /\ FileInv'
  BY NextTypes, NextFiles
<1> QED
  BY <1>1, <1>2, PTL DEF Spec

\* The grids are built from the files the stations were built from: whatever
\* is deleted or downloaded in between, no such file is touched.
THEOREM GridsReadTheSame == Spec => []GridReadsWhatStationsRead
<1>1. FileInv => GridReadsWhatStationsRead
  BY DEF FileInv
<1> QED
  BY <1>1, FilesInvariant, PTL

\* A file that is kept is there, whole, for every process of the slot.
THEOREM KeptFilesAreKept == Spec => []KeptFilesStay
<1>1. FileInv => KeptFilesStay
  BY DEF FileInv
<1> QED
  BY <1>1, FilesInvariant, PTL

\* A file on which a read has failed is gone and reported.
THEOREM UnreadableGone == Spec => []UnreadableIsDiscarded
<1>1. FileInv => UnreadableIsDiscarded
  BY DEF FileInv
<1> QED
  BY <1>1, FilesInvariant, PTL
=============================================================================
