---------------------------- MODULE DurableCache ----------------------------
(***************************************************************************)
(* What save_cache and load_cache of lsmfapi/database/cache.py promise:    *)
(* the caches in memory, and beside each of them one saved copy.  A copy   *)
(* is taken cell by cell while the memory goes on changing, so that its    *)
(* cells need not be of one moment, and replaces the saved copy as a whole *)
(* or not at all; the process may end at any time, and the next one begins *)
(* with exactly what is saved.  Nothing is promised of the cache while     *)
(* copies of it clash, but that what is saved has been in the memory.      *)
(***************************************************************************)
EXTENDS Integers

CONSTANTS
    Kinds,         \* the caches
    Cells,         \* what they are made of
    CellsOf,       \* cache |-> its cells
    Models,        \* the models, each with cells of its own
    Runs           \* the numbers of the runs

VARIABLES
    alive,     \* the process runs
    memory,    \* cell |-> the run it is from, 0 if there is none
    copy,      \* cache |-> the cells copied that are on their way to the disk
    saved,     \* cell |-> what a restart brings back
    clashing   \* the caches two copies of which have been begun at once

vars == <<alive, memory, copy, saved, clashing>>

Nothing == [c \in Cells |-> 0]
NoCells == [c \in {} |-> 0]
NoCopy  == [k \in Kinds |-> NoCells]

Init ==
    /\ alive = FALSE
    /\ memory = Nothing /\ saved = Nothing
    /\ copy = NoCopy
    /\ clashing = {}

\* A model's stations are replaced by those of a later run ...
StoreStations(m) ==
    /\ alive
    /\ \E r \in Runs : /\ r > memory[<<"entry", m>>]
                       /\ memory' = [memory EXCEPT ![<<"entry", m>>] = r]
    /\ UNCHANGED <<alive, copy, saved, clashing>>

\* ... and its row in the grid, cell by cell, by that of the run its stations
\* are from.
StoreGrid(m) ==
    /\ alive
    /\ \E f \in {"data", "time", "label"} :
          memory' = [memory EXCEPT ![<<f, m>>] = memory[<<"entry", m>>]]
    /\ UNCHANGED <<alive, copy, saved, clashing>>

\* A cell that is not in the copy yet is read from the memory.
Copy(k) ==
    /\ alive /\ k \notin clashing
    /\ \E c \in CellsOf[k] \ DOMAIN copy[k] :
          copy' = [copy EXCEPT ![k] = [x \in DOMAIN copy[k] \union {c} |->
                      IF x = c THEN memory[c] ELSE copy[k][x]]]
    /\ UNCHANGED <<alive, memory, saved, clashing>>

\* A whole copy replaces the saved one: the only step that changes what a
\* restart brings back.
Save(k) ==
    /\ alive /\ DOMAIN copy[k] = CellsOf[k]
    /\ saved' = [c \in Cells |-> IF c \in CellsOf[k] THEN copy[k][c] ELSE saved[c]]
    /\ copy' = [copy EXCEPT ![k] = NoCells]
    /\ UNCHANGED <<alive, memory, clashing>>

\* A copy that could not be written is dropped.
GiveUp(k) ==
    /\ alive
    /\ copy' = [copy EXCEPT ![k] = NoCells]
    /\ UNCHANGED <<alive, memory, saved, clashing>>

\* A copy is begun during another ...
Clash(k) ==
    /\ alive
    /\ clashing' = clashing \union {k}
    /\ copy' = [copy EXCEPT ![k] = NoCells]
    /\ UNCHANGED <<alive, memory, saved>>

\* ... and until one is begun alone again every cell that is saved may be lost
\* or be of an earlier run.
Spoil(k) ==
    /\ alive /\ k \in clashing
    /\ \A c \in Cells : \/ saved'[c] = saved[c]
                        \/ c \in CellsOf[k] /\ saved'[c] <= memory[c]
    /\ saved' = [c \in Cells |-> saved'[c]]
    /\ UNCHANGED <<alive, memory, copy, clashing>>

Settle(k) ==
    /\ alive
    /\ clashing' = clashing \ {k}
    /\ UNCHANGED <<alive, memory, copy, saved>>

Die ==
    /\ alive /\ ~alive'
    /\ memory' = Nothing
    /\ copy' = NoCopy
    /\ clashing' = {}
    /\ UNCHANGED saved

\* Of a grid that could not be read the labels may have been taken over.
Start ==
    /\ ~alive /\ alive'
    /\ \A c \in Cells : \/ memory'[c] = saved[c]
                        \/ c[1] = "label" /\ \A m \in Models : saved[<<"data", m>>] = 0
    /\ memory' = [c \in Cells |-> memory'[c]]
    /\ UNCHANGED <<copy, saved, clashing>>

Next ==
    \/ \E m \in Models : StoreStations(m) \/ StoreGrid(m)
    \/ \E k \in Kinds : Copy(k) \/ Save(k) \/ GiveUp(k)
                          \/ Clash(k) \/ Spoil(k) \/ Settle(k)
    \/ Die \/ Start

Spec == Init /\ [][Next]_vars
=============================================================================
