----------------------------- MODULE ModelRuns ------------------------------
(***************************************************************************)
(* What the caches may rely on: the runs of a model, as the threads that   *)
(* store see them.  At most one run of a model is active; it works on the  *)
(* newest model run there was when it began; only the active run stores,   *)
(* the grids after the stations; and it may end without having stored.     *)
(***************************************************************************)
EXTENDS Integers

CONSTANT Models

NoRun == -1

VARIABLES
    newest,    \* model |-> the newest run that is eligible
    active,    \* model |-> the run being collected, or NoRun
    stations,  \* model |-> the newest run the cache has stations of
    grids      \* model |-> the run the grids in the cache are from

vars == <<newest, active, stations, grids>>

\* The cache is empty or as an earlier process has left it.
Init ==
    /\ newest = [m \in Models |-> 0]
    /\ active = [m \in Models |-> NoRun]
    /\ stations \in [Models -> {NoRun, 0}]
    /\ grids \in [Models -> {NoRun, 0}]

Publish(m) ==
    /\ newest' = [newest EXCEPT ![m] = @ + 1]
    /\ UNCHANGED <<active, stations, grids>>

Begin(m) ==
    /\ active[m] = NoRun
    /\ active' = [active EXCEPT ![m] = newest[m]]
    /\ UNCHANGED <<newest, stations, grids>>

StoreStations(m) ==
    /\ active[m] # NoRun
    /\ stations' = [stations EXCEPT ![m] = active[m]]
    /\ UNCHANGED <<newest, active, grids>>

StoreGrids(m) ==
    /\ active[m] # NoRun /\ stations[m] = active[m]
    /\ grids' = [grids EXCEPT ![m] = active[m]]
    /\ UNCHANGED <<newest, active, stations>>

End(m) ==
    /\ active[m] # NoRun
    /\ active' = [active EXCEPT ![m] = NoRun]
    /\ UNCHANGED <<newest, stations, grids>>

Next == \E m \in Models : \/ Publish(m) \/ Begin(m) \/ End(m)
                          \/ StoreStations(m) \/ StoreGrids(m)

Spec == Init /\ [][Next]_vars
=============================================================================
