------------------------------ MODULE Heights -------------------------------
(***************************************************************************)
(* From model levels to heights above sea level: _load_level_heights,      *)
(* _interp_to_heights and the alignment of U, V and W in collect(), for    *)
(* one member and one grid point.                                          *)
(*                                                                         *)
(* The vertical constants give the heights of the half-levels.  U and V    *)
(* are on the full levels between them, W is on the half-levels.  A height *)
(* of a full level is a mean, and kept as a float16: it is counted here in *)
(* half metres, and rounded to a multiple of Quantum.  Values are fractions *)
(* [num, den], so that nothing but the heights is rounded.                 *)
(***************************************************************************)
EXTENDS Integers, Sequences, FiniteSets, SequencesExt

CONSTANTS
    NHalf,    \* number of half-levels
    Heights,  \* their possible heights
    Values,   \* possible values of a field on a half-level
    Quantum,  \* half metres between two float16 numbers
    Targets   \* ALTITUDE_TARGETS_M

ASSUME HeightsAssumption ==
    /\ NHalf \in Nat /\ NHalf > 2
    /\ Heights \subseteq Int /\ Values \subseteq Int /\ Quantum \in Nat \ {0}
    /\ Targets \in Seq(Int)

NFull == NHalf - 1

Null == [num |-> 0, den |-> 0]

VARIABLES
    half,     \* the half-level heights of the point, in the order of the file
    field,    \* the field on the half-levels
    nU, nW,   \* the levels found in the files of U (or V) and W
    bands     \* what has been interpolated so far, for the first targets

vars == <<half, field, nU, nW, bands>>

-----------------------------------------------------------------------------
(* _load_level_heights *)

\* Round to nearest, and to an even multiple when there are two.
Rounded(z) ==
    LET low == z \div Quantum
        rem == z % Quantum
    IN  Quantum * (IF 2 * rem > Quantum \/ (2 * rem = Quantum /\ low % 2 = 1)
                   THEN low + 1 ELSE low)

\* In half metres: the sum of the two half-levels.
FullHeights == [k \in 1..NFull |-> Rounded(half[k] + half[k + 1])]

-----------------------------------------------------------------------------
(* _interp_to_heights: f and z have the same length.  Values are doubled. *)

Ascending(s, z) == IF z[1] > z[Len(z)] THEN Reverse(s) ELSE s

\* Variant for mutation: a level at the target itself is not below it.
Lower_Strict(z, t) == Cardinality({k \in 1..Len(z) : z[k] < t})

\* The number of levels at the target or below it.
Lower(z, t) == Cardinality({k \in 1..Len(z) : z[k] <= t})

Valid(k, n) == k >= 1 /\ k < n

\* Clipped to a bracket.
Bracket(k, n) == IF k < 1 THEN 1 ELSE IF k > n - 1 THEN n - 1 ELSE k

\* Variant for mutation: the two weights are exchanged.
Weighted_Swapped(f0, f1, z0, z1, t) ==
    [num |-> f0 * (t - z0) + f1 * (z1 - t), den |-> 2 * (z1 - z0)]

Weighted(f0, f1, z0, z1, t) ==
    [num |-> f0 * (z1 - t) + f1 * (t - z0), den |-> 2 * (z1 - z0)]

Interpolated(values, levels, target) ==
    LET z == Ascending(levels, levels)
        f == Ascending(values, levels)
        t == 2 * target
        k == Lower(z, t)
        b == Bracket(k, Len(z))
    IN  IF Len(values) = Len(levels) /\ Valid(k, Len(z))
        THEN Weighted(f[b], f[b + 1], z[b], z[b + 1], t) ELSE Null

-----------------------------------------------------------------------------
(* collect(): the fields as the files hold them, doubled, and aligned *)

OnFull == [k \in 1..NFull |-> field[k] + field[k + 1]]
OnHalf == [k \in 1..NHalf |-> 2 * field[k]]
Missing == <<>>

U == IF nU = NFull THEN OnFull ELSE Missing

\* Variant for mutation: the half-levels are taken for full levels.
WAligned_HalfAsFull ==
    CASE nW = NFull + 1 -> SubSeq(OnHalf, 1, NFull)
      [] nW = NFull     -> OnFull
      [] OTHER          -> Missing

\* Half-levels are averaged to full levels; other numbers are not guessed at.
WAligned ==
    CASE nW = NFull + 1 -> [k \in 1..NFull |-> (OnHalf[k] + OnHalf[k + 1]) \div 2]
      [] nW = NFull     -> OnFull
      [] OTHER          -> Missing

\* The next target.  Without as many levels of U as heights nothing is
\* interpolated, W neither.
Band ==
    /\ Len(bands) < Len(Targets)
    /\ LET t == Targets[Len(bands) + 1]
           At(values) == IF nU = NFull THEN Interpolated(values, FullHeights, t)
                         ELSE Null
       IN  bands' = Append(bands, [u |-> At(U), w |-> At(WAligned)])
    /\ UNCHANGED <<half, field, nU, nW>>

Init ==
    /\ half \in {h \in [1..NHalf -> Heights] :
                    \/ \A k \in 1..NFull : h[k] > h[k + 1]
                    \/ \A k \in 1..NFull : h[k] < h[k + 1]}
    /\ field \in [1..NHalf -> Values] \union {half}
    /\ nU \in {NFull - 1, NFull} /\ nW \in {NFull - 1, NFull, NHalf}
    /\ bands = <<>>

Next == Band

Spec == Init /\ [][Next]_vars

-----------------------------------------------------------------------------
(* Properties *)

Abs(n) == IF n < 0 THEN -n ELSE n
Means(k) == half[k] + half[k + 1]
TargetOf(i) == 2 * Targets[i]

\* A wind that grows by one with every metre of height is found at every band
\* as the height of the band, to within the rounding of the heights: U from its
\* full levels and W from its half-levels, in either order of the file.
LinearWindReproduced ==
    field = half =>
        \A i \in 1..Len(bands) : \A b \in {bands[i].u, bands[i].w} :
            b # Null => 2 * Abs(2 * b.num - b.den * TargetOf(i)) <= b.den * Quantum

\* A band is null if and only if it is not between two levels of the point (or
\* the levels of the files do not fit): nothing is extrapolated, be it below
\* the terrain or above the top, and no band between two levels is lost.
NullExactlyOutside ==
    \A i \in 1..Len(bands) :
        LET Inside == \E j, k \in 1..NFull : /\ FullHeights[j] <= TargetOf(i)
                                             /\ TargetOf(i) < FullHeights[k]
        IN  /\ bands[i].u = Null <=> ~(nU = NFull /\ Inside)
            /\ bands[i].w = Null <=> ~(nU = NFull /\ nW # NFull - 1 /\ Inside)

\* The value of a band lies between the values of the two levels next to it,
\* and is that of the level itself where the band is at a level.
BetweenNeighbours ==
    \A i \in 1..Len(bands) : bands[i].u # Null =>
        LET z    == FullHeights
            t    == TargetOf(i)
            near == {k \in 1..NFull :
                        \/ z[k] <= t /\ \A j \in 1..NFull : z[j] <= t => z[j] <= z[k]
                        \/ z[k] > t /\ \A j \in 1..NFull : z[j] > t => z[j] >= z[k]}
            b    == bands[i].u
        IN  /\ b.den > 0
            /\ \E j, k \in near : OnFull[j] * b.den <= 2 * b.num /\ 2 * b.num <= OnFull[k] * b.den
            /\ \A k \in 1..NFull : z[k] = t =>
                  \E j \in 1..NFull : z[j] = t /\ 2 * b.num = OnFull[j] * b.den

\* "NaN where a target is below the point's lowest model level (underground) or
\* above its highest": the docstring.  Fails for a target at the highest level,
\* which is null as well.
NullOnlyAbove ==
    \A i \in 1..Len(bands) :
        nU = NFull /\ (\E k \in 1..NFull : FullHeights[k] = TargetOf(i)) =>
            bands[i].u # Null
=============================================================================
