--------------------------- MODULE Deaccumulation ---------------------------
(***************************************************************************)
(* How accumulated fields become hourly values.  MeteoSwiss publishes      *)
(* radiation, sunshine and precipitation as totals since the start of the  *)
(* run; the collectors difference consecutive horizons, and any of the     *)
(* files may be missing.                                                   *)
(*                                                                         *)
(* The loop is the one of _build_thermal_grid_cache for solar radiation,   *)
(* the sum of two components; sunshine is the same loop with one.          *)
(*                                                                         *)
(* Row 0 is the baseline, the horizon before the first: for CH1 the start  *)
(* of the run, where every total is 0, and for CH2 the file of h33.  One   *)
(* grid point and one ensemble member stand for all.                       *)
(***************************************************************************)
EXTENDS Integers

CONSTANTS
    NHours,       \* horizons of the model: 34 for CH1, 87 for CH2
    Components,   \* the accumulated variables a field is the sum of
    Totals,       \* the values a total may take
    HasPrior      \* ACCUM_PRIOR_H is not None: TRUE for CH2

ASSUME DeaccumulationAssumption ==
    /\ NHours \in Nat \ {0}
    /\ Totals \subseteq Nat /\ 0 \in Totals
    /\ HasPrior \in BOOLEAN

Hours == 1..NHours
Null  == -1    \* no value: NaN in the arrays; None for a missing file

VARIABLES
    total,     \* what the model run holds: component, row |-> total
    present,   \* component |-> the rows whose file can be read
    h,         \* the horizon the loop is at, NHours + 1 when it is over
    prev,      \* component |-> prev_aswdir, prev_aswdifd
    ok,        \* component |-> *_baseline_ok
    rate       \* horizon |-> the hourly rate of each component, Null if none

vars == <<total, present, h, prev, ok, rate>>

\* _read: the total in the file of this row.
Read(c, row) == IF row \in present[c] THEN total[c][row] ELSE Null

\* Totals do not fall, so that clipping a difference at 0 changes nothing.
Rising(t) == \A c \in Components : \A i \in Hours : t[c][i] >= t[c][i - 1]

\* Variant for mutation: a failed baseline fetch counts as a baseline of 0.
InitialOk_ZeroFallback(c) == TRUE

\* Variant for mutation: a total of 0 is taken for a missing file.
InitialOk_ZeroIsMissing(c) == ~HasPrior \/ Read(c, 0) > 0

\* A baseline exists: the model starts at 0, or the file of h33 was read.
InitialOk(c) == ~HasPrior \/ Read(c, 0) # Null

Init ==
    /\ total \in {t \in [Components -> [0..NHours -> Totals]] :
                     Rising(t) /\ (HasPrior \/ \A c \in Components : t[c][0] = 0)}
    /\ present \in [Components -> SUBSET (0..NHours)]
    /\ h = 1
    /\ prev = [c \in Components |-> IF HasPrior THEN Read(c, 0) ELSE Null]
    /\ ok = [c \in Components |-> InitialOk(c)]
    /\ rate = [i \in Hours |-> [c \in Components |-> Null]]

Baseline(c) == IF prev[c] # Null THEN prev[c] ELSE 0

\* Every component can be read at h and has a baseline.
Differencable == \A c \in Components : Read(c, h) # Null /\ ok[c]

Difference ==
    /\ h \in Hours /\ Differencable
    /\ rate' = [rate EXCEPT ![h] =
                   [c \in Components |-> Read(c, h) - Baseline(c)]]
    /\ prev' = [c \in Components |-> Read(c, h)]
    /\ ok' = [c \in Components |-> TRUE]
    /\ h' = h + 1
    /\ UNCHANGED <<total, present>>

\* Variant for mutation: a missing horizon leaves the baseline in use.
OkAfterGap_Kept(c) == ok[c]

\* What the else branch assigns to the flags.
OkAfterGap(c) == FALSE

Gap ==
    /\ h \in Hours /\ ~Differencable
    /\ ok' = [c \in Components |-> OkAfterGap(c)]
    /\ h' = h + 1
    /\ UNCHANGED <<total, present, prev, rate>>

Next == Difference \/ Gap

Spec == Init /\ [][Next]_vars

-----------------------------------------------------------------------------
(* Properties *)

\* Types of the run, of the loop and of what it has computed: no rate is
\* negative.
TypeOK ==
    /\ total \in [Components -> [0..NHours -> Totals]]
    /\ present \in [Components -> SUBSET (0..NHours)]
    /\ h \in 1..(NHours + 1)
    /\ prev \in [Components -> Totals \union {Null}]
    /\ ok \in [Components -> BOOLEAN]
    /\ rate \in [Hours -> [Components -> Nat \union {Null}]]

\* What the hour really added.
Increment(c, i) == total[c][i] - total[c][i - 1]

\* The grid never shows a rate that covers more than its hour: whatever files
\* are missing, a value is the increment of that one hour or it is null, never
\* the sum over a gap ("~2x too high") nor the whole total of a CH2 run.
GridNeverDoubled ==
    \A i \in Hours, c \in Components :
        rate[i][c] \in {Null, Increment(c, i)}

\* A file is missing at or before row i.  A model that starts at 0 needs none
\* for row 0.
GapUpTo(i) ==
    \E j \in 0..i, c \in Components : (HasPrior \/ j # 0) /\ j \notin present[c]

\* The loop loses no hour for another reason than a missing file: as long as
\* every file so far could be read each hour has its rate, a baseline of 0
\* and hours without any increase included.
LostOnlyAfterGap ==
    \A i \in Hours, c \in Components :
        i < h /\ rate[i][c] = Null => GapUpTo(i)

\* The row before i, 0 where the model starts.
Before(c, i) == IF i = 1 /\ ~HasPrior THEN 0 ELSE Read(c, i - 1)

\* The warning the loop logs: "this and the next step's delta are null".  An
\* hour two or more after a gap, with the files it needs, has a value.  Fails:
\* the flags are only ever set again where both are already set.
OnlyTwoStepsLost ==
    \A i \in Hours :
        /\ i < h
        /\ \A c \in Components : Read(c, i) # Null /\ Before(c, i) # Null
        => \A c \in Components : rate[i][c] # Null
=============================================================================
