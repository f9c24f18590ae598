------------------------ MODULE Deaccumulation_proof ------------------------
(***************************************************************************)
(* Proofs about Deaccumulation, for every number of horizons, every set of *)
(* components and every total a file may hold.                             *)
(*                                                                         *)
(* The invariant behind the results: a flag that is set means that the     *)
(* baseline in use is the total of the row just before the loop's, and a   *)
(* flag that is not set means that a file was missing.                     *)
(***************************************************************************)
EXTENDS Deaccumulation, TLAPS

RunTypes ==
    /\ total \in [Components -> [0..NHours -> Nat]]
    /\ present \in [Components -> SUBSET (0..NHours)]
    /\ Rising(total)
    /\ HasPrior \/ \A c \in Components : total[c][0] = 0

LoopTypes ==
    /\ h \in 1..(NHours + 1)
    /\ prev \in [Components -> Nat \union {Null}]
    /\ ok \in [Components -> BOOLEAN]
    /\ rate \in [Hours -> [Components -> Nat \union {Null}]]

\* A set flag vouches for the baseline.
BaselineIsPrevious ==
    h \in Hours => \A c \in Components : ok[c] =>
        Baseline(c) = total[c][h - 1]

\* A flag that is not set has its reason in an earlier row.
FlagFallsAtGap ==
    h \in Hours => (\A c \in Components : ok[c]) \/ GapUpTo(h - 1)

LoopInv ==
    /\ RunTypes /\ LoopTypes
    /\ BaselineIsPrevious /\ FlagFallsAtGap
    /\ GridNeverDoubled /\ LostOnlyAfterGap

\* What can be read is the total of that row.
LEMMA ReadValue ==
    ASSUME RunTypes, NEW c \in Components, NEW row \in 0..NHours
    PROVE  /\ Read(c, row) \in Nat \union {Null}
           /\ total[c][row] \in Nat
           /\ Read(c, row) # Null => Read(c, row) = total[c][row]
           /\ Null \notin Nat
<1>1. total[c][row] \in Nat
  BY DEF RunTypes
<1>2. Null \notin Nat
  BY DEF Null
<1> QED
  BY <1>1, <1>2 DEF Read

LEMMA InitEstablishes == Init => LoopInv
<1> SUFFICES ASSUME Init PROVE LoopInv
  OBVIOUS
<1>1. RunTypes
  BY DeaccumulationAssumption DEF Init, RunTypes
<1>2. 0 \in 0..NHours /\ 1 \in Hours /\ h = 1
  BY DeaccumulationAssumption DEF Init, Hours
<1>3. LoopTypes
  <2>1. prev \in [Components -> Nat \union {Null}]
    BY <1>1, <1>2, ReadValue DEF Init
  <2>2. ok \in [Components -> BOOLEAN]
    BY DEF Init, InitialOk
  <2>3. h \in 1..(NHours + 1)
    BY <1>2, DeaccumulationAssumption
  <2>4. rate \in [Hours -> [Components -> Nat \union {Null}]]
    BY DEF Init
  <2> QED
    BY <2>1, <2>2, <2>3, <2>4 DEF LoopTypes
<1>4. BaselineIsPrevious
  <2> SUFFICES ASSUME NEW c \in Components, ok[c]
               PROVE  Baseline(c) = total[c][0]
    BY <1>2 DEF BaselineIsPrevious
  <2>1. InitialOk(c)
    BY DEF Init
  <2>2. CASE HasPrior
    <3>1. Read(c, 0) # Null /\ prev[c] = Read(c, 0)
      BY <2>1, <2>2 DEF InitialOk, Init
    <3> QED
      BY <1>1, <1>2, <2>2, <3>1, ReadValue DEF Baseline
  <2>3. CASE ~HasPrior
    BY <1>1, <2>3 DEF Baseline, Init, RunTypes
  <2> QED
    BY <2>2, <2>3
<1>5. FlagFallsAtGap
  <2> SUFFICES ASSUME NEW c \in Components, ~ok[c] PROVE GapUpTo(0)
    BY <1>2 DEF FlagFallsAtGap
  <2>1. HasPrior /\ Read(c, 0) = Null
    BY DEF Init, InitialOk
  <2> QED
    BY <1>1, <1>2, <2>1, ReadValue, 0 \in 0..0 DEF GapUpTo, Read
<1>6. GridNeverDoubled
  BY DEF Init, GridNeverDoubled
<1>7. LostOnlyAfterGap
  BY <1>2 DEF LostOnlyAfterGap, Hours
<1> QED
  BY <1>1, <1>3, <1>4, <1>5, <1>6, <1>7 DEF LoopInv

\* The files and the run are the same throughout.
LEMMA SameRun ==
    ASSUME UNCHANGED <<total, present>>
    PROVE  /\ RunTypes => RunTypes'
           /\ \A c \in Components, i \in Hours : Increment(c, i)' = Increment(c, i)
           /\ \A i \in 0..NHours : GapUpTo(i)' = GapUpTo(i)
BY DEF RunTypes, Rising, Increment, GapUpTo

\* A missing file stays one for every later row.
LEMMA GapStays ==
    ASSUME NEW i \in Nat, NEW j \in Nat, i <= j, GapUpTo(i)
    PROVE  GapUpTo(j)
<1>1. \A k \in 0..i : k \in 0..j
  OBVIOUS
<1> QED
  BY <1>1 DEF GapUpTo

\* What an hour whose files can be read and that has a baseline gets.
LEMMA RateOfHour ==
    ASSUME LoopInv, h \in Hours, Differencable, NEW c \in Components
    PROVE  /\ Read(c, h) = total[c][h] /\ Read(c, h) \in Nat
           /\ Read(c, h) - Baseline(c) = Increment(c, h)
           /\ Read(c, h) - Baseline(c) \in Nat
<1>1. h \in 0..NHours /\ h - 1 \in 0..NHours
  BY DeaccumulationAssumption DEF Hours
<1>2. Read(c, h) # Null /\ Baseline(c) = total[c][h - 1]
  BY DEF Differencable, LoopInv, BaselineIsPrevious
<1>3. /\ Read(c, h) = total[c][h] /\ Read(c, h) \in Nat
      /\ total[c][h - 1] \in Nat
  BY <1>1, <1>2, ReadValue DEF LoopInv
<1>4. total[c][h] >= total[c][h - 1]
  BY DEF LoopInv, RunTypes, Rising
<1> QED
  BY <1>2, <1>3, <1>4 DEF Increment

LEMMA DifferenceStep ==
    ASSUME LoopInv, Difference
    PROVE  LoopInv'
<1> DEFINE row == [c \in Components |-> Read(c, h) - Baseline(c)]
<1>1. /\ RunTypes /\ LoopTypes /\ GridNeverDoubled /\ LostOnlyAfterGap
      /\ UNCHANGED <<total, present>> /\ h' = h + 1 /\ h \in Hours
      /\ rate' = [rate EXCEPT ![h] = row]
      /\ prev' = [c \in Components |-> Read(c, h)]
      /\ ok' = [c \in Components |-> TRUE]
  BY DEF LoopInv, Difference
<1>2. h \in Nat /\ h' - 1 = h
  BY <1>1, DeaccumulationAssumption DEF Hours
<1>3. ASSUME NEW c \in Components
      PROVE  /\ Read(c, h) = total[c][h] /\ Read(c, h) \in Nat
             /\ row[c] = Increment(c, h) /\ row[c] \in Nat
  BY RateOfHour DEF Difference
<1>4. row \in [Components -> Nat]
  BY <1>3
<1> HIDE DEF row
<1>5. RunTypes'
  BY <1>1, SameRun
<1>6. LoopTypes'
  <2>1. h' \in 1..(NHours + 1)
    BY <1>1, DeaccumulationAssumption DEF Hours
  <2>2. prev' \in [Components -> Nat \union {Null}]
    BY <1>1, <1>3
  <2>3. ok' \in [Components -> BOOLEAN]
    BY <1>1
  <2>4. rate' \in [Hours -> [Components -> Nat \union {Null}]]
    BY <1>1, <1>4 DEF LoopTypes
  <2> QED
    BY <2>1, <2>2, <2>3, <2>4 DEF LoopTypes
<1>7. BaselineIsPrevious'
  <2>1. ASSUME NEW c \in Components PROVE Baseline(c)' = total[c][h]
    <3>1. prev'[c] = total[c][h] /\ prev'[c] # Null
      BY <1>1, <1>3 DEF Null
    <3> QED
      BY <3>1 DEF Baseline
  <2> QED
    BY <1>1, <1>2, <2>1 DEF BaselineIsPrevious
<1>8. FlagFallsAtGap'
  BY <1>1 DEF FlagFallsAtGap
<1>9. ASSUME NEW i \in Hours, NEW c \in Components
      PROVE  /\ i = h => rate'[i][c] = Increment(c, h) /\ rate'[i][c] # Null
             /\ i # h => rate'[i][c] = rate[i][c]
  <2>1. row[c] # Null
    BY <1>3 DEF Null
  <2> QED
    BY <1>1, <1>3, <2>1 DEF LoopTypes
<1>10. GridNeverDoubled'
  <2> SUFFICES ASSUME NEW i \in Hours, NEW c \in Components
               PROVE  rate'[i][c] \in {Null, Increment(c, i)'}
    BY DEF GridNeverDoubled, Null
  <2>1. Increment(c, i)' = Increment(c, i)
    BY <1>1, SameRun
  <2> QED
    BY <1>1, <1>9, <2>1 DEF GridNeverDoubled
<1>11. LostOnlyAfterGap'
  <2> SUFFICES ASSUME NEW i \in Hours, NEW c \in Components,
                      i < h', rate'[i][c] = Null
               PROVE  GapUpTo(i)'
    BY DEF LostOnlyAfterGap, Null
  <2>1. i # h /\ rate[i][c] = Null
    BY <1>9
  <2>2. i < h /\ i \in 0..NHours
    BY <1>1, <1>2, <2>1, DeaccumulationAssumption DEF Hours
  <2> QED
    BY <1>1, <2>1, <2>2, SameRun DEF LostOnlyAfterGap
<1> QED
  BY <1>5, <1>6, <1>7, <1>8, <1>10, <1>11 DEF LoopInv

LEMMA GapStep ==
    ASSUME LoopInv, Gap
    PROVE  LoopInv'
<1>1. /\ RunTypes /\ LoopTypes /\ GridNeverDoubled /\ LostOnlyAfterGap
      /\ UNCHANGED <<total, present, prev, rate>> /\ h' = h + 1
      /\ h \in Hours /\ ~Differencable
      /\ ok' = [c \in Components |-> FALSE]
  BY DEF LoopInv, Gap, OkAfterGap
<1>2. h \in Nat /\ h - 1 \in Nat /\ h \in 0..NHours /\ h' - 1 = h
  BY <1>1, DeaccumulationAssumption DEF Hours
<1>3. GapUpTo(h)
  <2>1. CASE \E c \in Components : Read(c, h) = Null
    <3>1. PICK c \in Components : Read(c, h) = Null
      BY <2>1
    <3>2. h \notin present[c] /\ h # 0 /\ h \in 0..h
      BY <1>1, <1>2, <3>1, ReadValue, DeaccumulationAssumption
      DEF Read, Hours
    <3> QED
      BY <3>2 DEF GapUpTo
  <2>2. CASE \E c \in Components : ~ok[c]
    <3>1. GapUpTo(h - 1)
      BY <1>1, <2>2 DEF LoopInv, FlagFallsAtGap
    <3> QED
      BY <1>2, <3>1, GapStays
  <2> QED
    BY <1>1, <2>1, <2>2 DEF Differencable
<1>4. RunTypes'
  BY <1>1, SameRun
<1>5. LoopTypes'
  BY <1>1, DeaccumulationAssumption DEF LoopTypes, Hours
<1>6. BaselineIsPrevious'
  BY <1>1 DEF BaselineIsPrevious
<1>7. FlagFallsAtGap'
  <2>1. PICK n \in 0..NHours : n = h
    BY <1>2
  <2>2. GapUpTo(n)'
    BY <1>1, <1>3, <2>1, SameRun
  <2>3. h' - 1 = n
    BY <1>2, <2>1
  <2> QED
    BY <2>2, <2>3 DEF FlagFallsAtGap, GapUpTo
<1>8. GridNeverDoubled'
  BY <1>1, SameRun DEF GridNeverDoubled, Null
<1>9. LostOnlyAfterGap'
  <2> SUFFICES ASSUME NEW i \in Hours, NEW c \in Components,
                      i < h', rate[i][c] = Null
               PROVE  GapUpTo(i)'
    BY <1>1 DEF LostOnlyAfterGap, Null
  <2>1. i \in 0..NHours /\ (i < h \/ i = h)
    BY <1>1, DeaccumulationAssumption DEF Hours
  <2>2. GapUpTo(i)
    BY <1>1, <1>3, <2>1 DEF LostOnlyAfterGap
  <2> QED
    BY <1>1, <2>1, <2>2, SameRun
<1> QED
  BY <1>4, <1>5, <1>6, <1>7, <1>8, <1>9 DEF LoopInv

LEMMA LoopInvariant == Spec => []LoopInv
<1>1. LoopInv /\ [Next]_vars => LoopInv'
  <2> SUFFICES ASSUME LoopInv, UNCHANGED vars PROVE LoopInv'
    BY DifferenceStep, GapStep DEF Next
  <2>1. RunTypes' /\ LoopTypes'
    BY SameRun DEF vars, LoopInv, LoopTypes
  <2>2. BaselineIsPrevious' /\ FlagFallsAtGap'
    BY DEF vars, LoopInv, BaselineIsPrevious, Baseline, FlagFallsAtGap, GapUpTo
  <2>3. GridNeverDoubled' /\ LostOnlyAfterGap'
    BY DEF vars, LoopInv, GridNeverDoubled, Increment, LostOnlyAfterGap, GapUpTo
  <2> QED
    BY <2>1, <2>2, <2>3 DEF LoopInv
<1> QED
  BY <1>1, InitEstablishes, PTL DEF Spec

-----------------------------------------------------------------------------
(* The results *)

\* Whatever files are missing, a rate on the map is what its one hour added:
\* no gap is ever bridged and no total is taken for a rate.
THEOREM GridRatesAreHourly == Spec => []GridNeverDoubled
<1>1. LoopInv => GridNeverDoubled
  BY DEF LoopInv
<1> QED
  BY <1>1, LoopInvariant, PTL

\* As long as no file is missing, every hour the loop has passed has a rate.
THEOREM NoRateLost == Spec => []LostOnlyAfterGap
<1>1. LoopInv => LostOnlyAfterGap
  BY DEF LoopInv
<1> QED
  BY <1>1, LoopInvariant, PTL
=============================================================================
