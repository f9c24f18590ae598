------------------------- MODULE StationCache_proof -------------------------
(***************************************************************************)
(* Proofs about StationCache, for all stations, horizons, cells and        *)
(* patterns of lost fetches.                                               *)
(*                                                                         *)
(* The pairing of entries with their predecessors is inductive together    *)
(* with the types and with the fact that what has been stored is an entry  *)
(* (Stored).  The lemmas on Fill say what backfilling may do to an hour,   *)
(* those on HoursAt what merging does to two lists of hours.               *)
(*                                                                         *)
(* What a request is answered follows from AnswerInv, which adds to the    *)
(* pairing that the builds of a station's entries increase                 *)
(* (BuildsOrdered), that an entry is as a build leaves it (EntriesBuilt),  *)
(* and that a request between two of its reads holds a stored entry        *)
(* (RequestFresh).                                                         *)
(***************************************************************************)
EXTENDS StationCache, TLAPS, WellFoundedInduction

-----------------------------------------------------------------------------
(* Types *)

LEMMA ConstantsAreNat ==
    Ch1Hours \in Nat /\ LastHorizon \in Nat /\ RunStep \in Nat /\ MaxBuilds \in Nat
    /\ MaxSlot \in Nat /\ LastHorizon >= Ch1Hours
BY HorizonAssumption, BoundAssumption

LEMMA SlotTimeIsNat ==
    ASSUME NEW i \in Nat
    PROVE  i * RunStep \in Nat
BY ConstantsAreNat

LEMMA NoEntryIsEntry == NoEntry \in Entry
<1>1. <<>> \in Seq(Hour)
  OBVIOUS
<1> QED
  BY <1>1, ConstantsAreNat DEF NoEntry, Entry

Reader == [phase : {"idle", "ch2", "prev", "warm"}, kind : Kinds,
           station : {{}} \union {{s} : s \in Stations},
           limit : Nat, e1 : Entry, e2 : Entry, quiet : BOOLEAN]

\* The threads' records, the model runs they may be at aside.
BuilderOf(inits) ==
    [phase : {"idle", "next", "stash", "store"}, build : 0..MaxBuilds,
     init : inits, lost : LostSets \union {{}}, todo : SUBSET Stations,
     at : {{}} \union {{s} : s \in Stations}, kind : Kinds]

Inits == {i * RunStep : i \in 0..slot}

LEMMA BuilderIs == Builder = BuilderOf(Inits)
BY DEF Builder, BuilderOf, Inits

\* What a step of a thread may set of its record.
LEMMA SetPhaseKind ==
    ASSUME NEW I, NEW r \in BuilderOf(I), NEW k \in Kinds,
           NEW p \in {"idle", "next", "stash", "store"}
    PROVE  /\ [r EXCEPT !.phase = p, !.kind = k] \in BuilderOf(I)
           /\ [r EXCEPT !.phase = p, !.kind = k].phase = p
BY DEF BuilderOf

LEMMA SetPhaseAt ==
    ASSUME NEW I, NEW r \in BuilderOf(I),
           NEW p \in {"idle", "next", "stash", "store"},
           NEW a \in {{}} \union {{s} : s \in Stations}
    PROVE  /\ [r EXCEPT !.phase = p, !.at = a] \in BuilderOf(I)
           /\ [r EXCEPT !.phase = p, !.at = a].phase = p
BY DEF BuilderOf

LEMMA SetTodo ==
    ASSUME NEW I, NEW r \in BuilderOf(I), NEW t \in SUBSET Stations
    PROVE  [r EXCEPT !.todo = t] \in BuilderOf(I)
BY DEF BuilderOf

LEMMA IdleIsBuilder ==
    ASSUME NEW I, NEW i \in I
    PROVE  [IdleBuilder EXCEPT !.init = i] \in BuilderOf(I)
<1>1. 0 \in 0..MaxBuilds /\ {} \in SUBSET Stations
  BY ConstantsAreNat
<1>2. [IdleBuilder EXCEPT !.init = i] =
        [phase |-> "idle", build |-> 0, init |-> i, lost |-> {},
         todo |-> {}, at |-> {}, kind |-> "station"]
  BY DEF IdleBuilder
<1> QED
  BY <1>1, <1>2 DEF BuilderOf, Kinds

LEMMA FirstPhaseIs ==
    ASSUME NEW m \in Models
    PROVE  FirstPhase(m) \in {"stash", "store"} /\ (FirstPhase(m) = "store" => m # "icon-ch1")
BY DEF FirstPhase

LEMMA IdleBuilderIsBuilder ==
    ASSUME slot \in Nat
    PROVE  IdleBuilder \in Builder
<1>1. 0 * RunStep = 0 /\ 0 \in 0..slot
  BY ConstantsAreNat
<1>2. 0 \in {i * RunStep : i \in 0..slot}
  BY <1>1
<1> QED
  BY <1>2, ConstantsAreNat DEF IdleBuilder, Builder, Kinds

LEMMA DisturbTyped ==
    ASSUME TypeOK, NEW k, NEW s, Disturb(k, s)
    PROVE  reader' \in Reader
<1> DEFINE q == reader.quiet /\ ~(reader.kind = k /\ reader.station = {s})
<1>1. q \in BOOLEAN
  OBVIOUS
<1>2. reader' = [reader EXCEPT !.quiet = q]
  BY DEF Disturb
<1> HIDE DEF q
<1> QED
  BY <1>1, <1>2 DEF TypeOK, Reader

LEMMA NewEntryIsEntry ==
    ASSUME TypeOK, NEW k \in Kinds, NEW m \in Models
    PROVE  /\ NewEntry(k, m, builder[m]) \in Entry
           /\ NewEntry(k, m, builder[m]).model = m
<1> DEFINE b == builder[m]
           hour(i) ==
             LET h == FirstHorizon(m) + i - 1 IN
             [vt  |-> b.init + h,
              val |-> [c \in Cells[k] |->
                         IF c \in BelowTerrain \/ <<h, c>> \in b.lost
                         THEN NoData ELSE b.build]]
<1>1. b.build \in 0..MaxBuilds /\ b.init \in Nat
  <2>1. b \in Builder /\ slot \in Nat
    BY ConstantsAreNat DEF TypeOK
  <2>2. PICK i \in 0..slot : b.init = i * RunStep
    BY <2>1 DEF Builder
  <2> QED
    BY <2>1, <2>2, SlotTimeIsNat DEF Builder
<1>2. FirstHorizon(m) \in Nat /\ NHours(m) \in Nat
  BY ConstantsAreNat DEF FirstHorizon, NHours
<1>3. ASSUME NEW i \in 1..NHours(m) PROVE hour(i) \in Hour
  <2>1. [c \in Cells[k] |->
            IF c \in BelowTerrain \/ <<FirstHorizon(m) + i - 1, c>> \in b.lost
            THEN NoData ELSE b.build] \in [Cells[k] -> 0..MaxBuilds]
    BY <1>1, ConstantsAreNat DEF NoData
  <2>2. b.init + (FirstHorizon(m) + i - 1) \in Nat
    BY <1>1, <1>2, <1>3
  <2> QED
    BY <2>1, <2>2 DEF Hour
<1>4. [i \in 1..NHours(m) |-> hour(i)] \in Seq(Hour)
  BY <1>2, <1>3
<1>5. NewEntry(k, m, b) = [build |-> b.build, model |-> m, init |-> b.init,
                           hours |-> [i \in 1..NHours(m) |-> hour(i)]]
  BY DEF NewEntry
<1> HIDE DEF hour
<1> QED
  BY <1>1, <1>4, <1>5 DEF Entry

LEMMA EmptyIsTyped == Empty \in [Kinds -> [Stations -> Entry]]
BY NoEntryIsEntry DEF Empty

LEMMA IdleReaderIsTyped == IdleReader \in Reader
BY NoEntryIsEntry DEF IdleReader, Reader, Kinds

LEMMA InitTypes == Init => TypeOK
<1> SUFFICES ASSUME Init PROVE TypeOK
  OBVIOUS
<1>1. builder \in [Models -> Builder]
  BY IdleBuilderIsBuilder DEF Init
<1>2. history \in [Kinds -> [Stations -> Seq(Entry)]]
  BY DEF Init
<1>3. builds \in 0..MaxBuilds /\ slot \in 0..MaxSlot /\ listed \subseteq Stations
  BY ConstantsAreNat DEF Init
<1> QED
  BY <1>1, <1>2, <1>3, EmptyIsTyped, IdleReaderIsTyped DEF Init, TypeOK, Reader, NoResponse

\* One thread moves on, and the slot does not go back.
LEMMA OneBuilder ==
    ASSUME TypeOK, NEW m \in Models, NEW r \in Builder,
           builder' = [builder EXCEPT ![m] = r], slot' = slot
    PROVE  /\ builder' \in [Models -> Builder'] /\ builder'[m] = r
           /\ \A n \in Models : n # m => builder'[n] = builder[n]
<1>1. Builder' = Builder
  BY DEF Builder
<1> QED
  BY <1>1 DEF TypeOK

\* Where the setter is for the station it is at.
LEMMA AfterStoreTyped ==
    ASSUME TypeOK, NEW m \in Models
    PROVE  \E r \in Builder :
             /\ AfterStore(m) = [builder EXCEPT ![m] = r]
             /\ r.phase \in {"stash", "store", "next"}
             /\ (r.phase = "store" => m # "icon-ch1")
<1> DEFINE r1 == [builder[m] EXCEPT !.phase = FirstPhase(m), !.kind = "altitude"]
           r2 == [builder[m] EXCEPT !.phase = "next", !.at = {}]
<1>1. builder[m] \in Builder
  BY DEF TypeOK
<1>2. r1 \in Builder /\ r2 \in Builder /\ r1.phase = FirstPhase(m) /\ r2.phase = "next"
  <2>1. "altitude" \in Kinds /\ FirstPhase(m) \in {"idle", "next", "stash", "store"}
        /\ "next" \in {"idle", "next", "stash", "store"} /\ {} \in SUBSET Stations
        /\ {} \in {{}} \union {{s} : s \in Stations}
    BY FirstPhaseIs DEF Kinds
  <2>2. builder[m] \in BuilderOf(Inits)
    BY <1>1, BuilderIs
  <2>3. r1 \in BuilderOf(Inits) /\ r1.phase = FirstPhase(m)
    BY <2>1, <2>2 DEF BuilderOf
  <2>4. r2 \in BuilderOf(Inits) /\ r2.phase = "next"
    BY <2>1, <2>2 DEF BuilderOf
  <2> QED
    BY <2>3, <2>4, BuilderIs, Zenon
<1>3. AfterStore(m) = [builder EXCEPT ![m] = r1] \/ AfterStore(m) = [builder EXCEPT ![m] = r2]
  BY DEF AfterStore, TypeOK
<1> HIDE DEF r1, r2
<1> QED
  BY <1>2, <1>3, FirstPhaseIs

LEMMA NextTypes == TypeOK /\ [Next]_vars => TypeOK'
<1> SUFFICES ASSUME TypeOK, [Next]_vars PROVE TypeOK'
  OBVIOUS
<1>S. NoResponse.status = 0
  BY DEF TypeOK, NoResponse
<1>1. ASSUME NEW m \in Models, StartBuild(m) PROVE TypeOK'
  <2>1. PICK s \in RefSlots(m), lost \in LostSets, list \in (SUBSET Stations) \ {{}} :
           /\ builder' = [builder EXCEPT ![m] =
                 [IdleBuilder EXCEPT !.phase = "next", !.build = builds + 1,
                    !.init = s * RunStep, !.lost = lost, !.todo = list]]
           /\ listed' = listed \union list
    BY <1>1, Zenon DEF StartBuild
  <2>2. s \in 0..slot /\ builds + 1 \in 0..MaxBuilds
    <3>1. slot \in Nat /\ builds \in Nat /\ builds <= MaxBuilds
      BY ConstantsAreNat DEF TypeOK
    <3>2. builds < MaxBuilds
      BY <1>1, Zenon DEF StartBuild
    <3>3. s \in 0..slot
      BY <3>1 DEF RefSlots
    <3> QED
      BY <3>1, <3>2, <3>3, ConstantsAreNat
  <2>3. [IdleBuilder EXCEPT !.phase = "next", !.build = builds + 1,
                    !.init = s * RunStep, !.lost = lost, !.todo = list] \in Builder
    <3>1. s * RunStep \in {i * RunStep : i \in 0..slot}
      BY <2>2 DEF TypeOK
    <3>2. s * RunStep \in Inits
      BY <3>1 DEF TypeOK, Inits
    <3> QED
      BY <2>2, <3>2, BuilderIs DEF TypeOK, IdleBuilder, BuilderOf, Kinds
  <2>4. builder' \in [Models -> Builder']
    <3>1. slot' = slot
      BY <1>1 DEF StartBuild
    <3> QED
      BY <2>1, <2>3, <3>1, OneBuilder
  <2> QED
    BY <1>1, <1>S, <2>1, <2>2, <2>4 DEF TypeOK, StartBuild, Silent
<1>2. ASSUME NEW m \in Models, NextStation(m) PROVE TypeOK'
  <2>1. PICK r \in Builder : builder' = [builder EXCEPT ![m] = r]
    <3>0. builder[m] \in Builder
      BY DEF TypeOK
    <3>1. CASE builder[m].todo = {}
      <4>1. [IdleBuilder EXCEPT !.init = builder[m].init] \in Builder
        <5>1. builder[m].init \in Inits
          BY <3>0, BuilderIs DEF BuilderOf
        <5> QED
          BY <5>1, BuilderIs, IdleIsBuilder
      <4> QED
        BY <1>2, <3>1, <4>1 DEF TypeOK, NextStation
    <3>2. CASE builder[m].todo # {}
      <4>1. PICK s \in builder[m].todo :
               builder' = [builder EXCEPT ![m] =
                  [@ EXCEPT !.phase = FirstPhase(m), !.at = {s},
                            !.todo = builder[m].todo \ {s}, !.kind = "station"]]
        BY <1>2, <3>2 DEF TypeOK, NextStation
      <4> DEFINE r1 == [builder[m] EXCEPT !.phase = FirstPhase(m), !.at = {s}]
                 r2 == [r1 EXCEPT !.todo = builder[m].todo \ {s}]
                 r  == [r2 EXCEPT !.phase = FirstPhase(m), !.kind = "station"]
      <4>2. r \in Builder
        <5>1. builder[m] \in BuilderOf(Inits) /\ builder[m].todo \in SUBSET Stations
          BY <3>0, BuilderIs DEF BuilderOf
        <5>2. {s} \in {{}} \union {{t} : t \in Stations}
              /\ builder[m].todo \ {s} \in SUBSET Stations
              /\ "station" \in Kinds
              /\ FirstPhase(m) \in {"idle", "next", "stash", "store"}
          BY <4>1, <5>1, FirstPhaseIs DEF Kinds
        <5>3. r1 \in BuilderOf(Inits)
          BY <5>1, <5>2, SetPhaseAt
        <5>4. r2 \in BuilderOf(Inits)
          <6> HIDE DEF r1
          <6> QED
            BY <5>2, <5>3, SetTodo
        <5>5. r \in BuilderOf(Inits)
          <6> HIDE DEF r2
          <6> QED
            BY <5>2, <5>4, SetPhaseKind
        <5> QED
          BY <5>5, BuilderIs
      <4>3. builder' = [builder EXCEPT ![m] = r]
        <5>1. builder' = [builder EXCEPT ![m] =
                 [builder[m] EXCEPT !.phase = FirstPhase(m), !.at = {s},
                              !.todo = builder[m].todo \ {s}, !.kind = "station"]]
          BY <4>1
        <5>2. [builder[m] EXCEPT !.phase = FirstPhase(m), !.at = {s},
                              !.todo = builder[m].todo \ {s}, !.kind = "station"] = r
          BY <3>0, BuilderIs DEF BuilderOf
        <5> QED
          BY <5>1, <5>2
      <4> QED
        BY <4>2, <4>3 DEF TypeOK
    <3> QED
      BY <3>1, <3>2 DEF TypeOK
  <2>2. slot' = slot
    BY <1>2 DEF NextStation
  <2>3. builder' \in [Models -> Builder']
    BY <1>2, <2>1, <2>2, OneBuilder
  <2> QED
    <3>1. /\ response' = NoResponse
          /\ UNCHANGED <<ch1, ch2, prev, builds, slot, reader, history, listed>>
      BY <1>2, Zenon DEF NextStation, Silent
    <3> QED
      BY <1>S, <2>3, <3>1 DEF TypeOK
<1>3. ASSUME NEW s \in Stations, StashPrevious(s) PROVE TypeOK'
  <2> DEFINE b == builder["icon-ch1"]
             r == [b EXCEPT !.phase = "store"]
  <2>1. b \in Builder /\ b.kind \in Kinds /\ "icon-ch1" \in Models
    BY BuilderIs DEF TypeOK, Models, BuilderOf
  <2>2. r \in Builder
    BY <2>1, BuilderIs DEF TypeOK, BuilderOf
  <2>3. builder' = [builder EXCEPT !["icon-ch1"] = r]
    BY <1>3 DEF TypeOK, StashPrevious
  <2>4. prev' \in [Kinds -> [Stations -> Entry]]
    BY <1>3, <2>1 DEF TypeOK, StashPrevious, Stashed
  <2>5. reader' \in Reader
    <3>1. Disturb(b.kind, s)
      BY <1>3 DEF StashPrevious
    <3> QED
      BY <3>1, DisturbTyped
  <2>6. builder' \in [Models -> Builder']
    <3>1. slot' = slot
      BY <1>3 DEF StashPrevious
    <3> QED
      BY <2>1, <2>2, <2>3, <3>1, OneBuilder
  <2> QED
    BY <1>3, <1>S, <2>4, <2>5, <2>6 DEF TypeOK, StashPrevious, Silent, Reader
<1>4. ASSUME NEW s \in Stations, StoreCh1(s) PROVE TypeOK'
  <2> DEFINE b == builder["icon-ch1"]
             e == NewEntry(b.kind, "icon-ch1", b)
  <2>1. b.kind \in Kinds /\ "icon-ch1" \in Models
    BY BuilderIs DEF TypeOK, Models, BuilderOf
  <2>2. e \in Entry
    BY <2>1, NewEntryIsEntry
  <2>3. ch1' \in [Kinds -> [Stations -> Entry]]
    BY <1>4, <2>1, <2>2 DEF TypeOK, StoreCh1
  <2>4. history' \in [Kinds -> [Stations -> Seq(Entry)]]
    <3>1. Append(history[b.kind][s], e) \in Seq(Entry)
      BY <2>1, <2>2 DEF TypeOK
    <3> QED
      BY <1>4, <2>1, <3>1 DEF TypeOK, StoreCh1
  <2>5. reader' \in Reader
    <3>1. Disturb(b.kind, s)
      BY <1>4 DEF StoreCh1
    <3> QED
      BY <3>1, DisturbTyped
  <2>6. builder' \in [Models -> Builder']
    <3>1. PICK r \in Builder : builder' = [builder EXCEPT !["icon-ch1"] = r]
      BY <1>4, <2>1, AfterStoreTyped DEF StoreCh1
    <3>2. slot' = slot
      BY <1>4 DEF StoreCh1
    <3> QED
      BY <2>1, <3>1, <3>2, OneBuilder
  <2> QED
    BY <1>4, <1>S, <2>3, <2>4, <2>5, <2>6 DEF TypeOK, StoreCh1, Silent, Reader
<1>5. ASSUME NEW s \in Stations, StoreCh2(s) PROVE TypeOK'
  <2> DEFINE b == builder["icon-ch2"]
  <2>1. b.kind \in Kinds /\ "icon-ch2" \in Models
    BY BuilderIs DEF TypeOK, Models, BuilderOf
  <2>2. NewEntry(b.kind, "icon-ch2", b) \in Entry
    BY <2>1, NewEntryIsEntry
  <2>3. ch2' \in [Kinds -> [Stations -> Entry]]
    BY <1>5, <2>1, <2>2 DEF TypeOK, StoreCh2
  <2>4. builder' \in [Models -> Builder']
    <3>1. PICK r \in Builder : builder' = [builder EXCEPT !["icon-ch2"] = r]
      BY <1>5, <2>1, AfterStoreTyped DEF StoreCh2
    <3>2. slot' = slot
      BY <1>5 DEF StoreCh2
    <3> QED
      BY <2>1, <3>1, <3>2, OneBuilder
  <2> QED
    BY <1>5, <1>S, <2>3, <2>4 DEF TypeOK, StoreCh2, Silent
\* The slot a build works on stays a slot there has been.
<1>B. slot \in Nat /\ slot' \in Nat /\ slot' >= slot => Builder \subseteq Builder'
  <2> SUFFICES ASSUME slot \in Nat, slot' \in Nat, slot' >= slot, NEW r \in Builder
               PROVE  r \in Builder'
    BY DEF TypeOK
  <2>1. PICK i \in 0..slot : r.init = i * RunStep
    BY DEF TypeOK, Builder
  <2>2. i \in 0..slot'
    BY DEF TypeOK
  <2>3. r.init \in {j * RunStep : j \in 0..slot'}
    BY <2>1, <2>2 DEF TypeOK
  <2> QED
    BY <2>3 DEF TypeOK, Builder
<1>6. CASE NextSlot
  <2>1. slot' \in 0..MaxSlot /\ slot' >= slot /\ slot \in Nat /\ slot' \in Nat
    BY <1>6, ConstantsAreNat DEF TypeOK, NextSlot
  <2>2. builder' \in [Models -> Builder']
    BY <1>6, <1>B, <2>1 DEF TypeOK, NextSlot
  <2> QED
    BY <1>6, <1>S, <2>1, <2>2 DEF TypeOK, NextSlot, Silent
<1>7. CASE Restart
  <2>1. PICK loaded \in BOOLEAN :
           /\ ch1' = IF loaded THEN ch1 ELSE Empty
           /\ ch2' = IF loaded THEN ch2 ELSE Empty
    BY <1>7 DEF TypeOK, Restart
  <2>2. /\ ch1' \in [Kinds -> [Stations -> Entry]]
        /\ ch2' \in [Kinds -> [Stations -> Entry]]
    BY <2>1, EmptyIsTyped DEF TypeOK
  <2>3. prev' \in [Kinds -> [Stations -> Entry]]
    BY <1>7, EmptyIsTyped DEF TypeOK, Restart, PrevAfterRestart
  <2>4. history' \in [Kinds -> [Stations -> Seq(Entry)]]
    <3>1. history' = [k \in Kinds |-> [s \in Stations |->
               IF ch1'[k][s] = NoEntry THEN <<>> ELSE <<ch1'[k][s]>>]]
      BY <1>7 DEF TypeOK, Restart
    <3>2. \A k \in Kinds, s \in Stations : <<ch1'[k][s]>> \in Seq(Entry)
      BY <2>2 DEF TypeOK
    <3> QED
      BY <3>1, <3>2 DEF TypeOK
  <2>5. builder' \in [Models -> Builder']
    <3>1. \A m \in Models : [IdleBuilder EXCEPT !.init = builder[m].init] \in Builder
      <4>1. \A m \in Models : builder[m].init \in Inits
        BY BuilderIs DEF TypeOK, BuilderOf
      <4> QED
        BY <4>1, BuilderIs, IdleIsBuilder
    <3>2. Builder' = Builder
      BY <1>7 DEF TypeOK, Restart, Builder
    <3> QED
      BY <1>7, <3>1, <3>2 DEF TypeOK, Restart
  <2>6. reader' \in Reader
    BY <1>7, IdleReaderIsTyped DEF TypeOK, Restart
  <2> QED
    BY <1>7, <1>S, <2>2, <2>3, <2>4, <2>5, <2>6 DEF TypeOK, Restart, Silent, Reader
\* A request changes nothing but itself.
<1>8. ASSUME UNCHANGED <<ch1, ch2, prev, builder, builds, slot, history, listed>>,
             reader' \in Reader, response'.status \in {0, 200, 404, 503}
      PROVE  TypeOK'
  <2>1. Builder' = Builder
    BY <1>8 DEF TypeOK, Builder
  <2> QED
    BY <1>8, <2>1 DEF TypeOK, Reader
<1>9. ASSUME NEW k \in Kinds, NEW s \in Stations, NEW n \in 1..LastHorizon,
             ReadCh1(k, s, n)
      PROVE  TypeOK'
  <2>1. reader' \in Reader
    <3>1. MidSet(k, s) \in BOOLEAN /\ ch1[k][s] \in Entry /\ n \in Nat
      BY ConstantsAreNat DEF TypeOK, MidSet
    <3> QED
      BY <1>9, <3>1, NoEntryIsEntry DEF TypeOK, ReadCh1, Reader
  <2> QED
    BY <1>8, <1>9, <1>S, <2>1 DEF TypeOK, ReadCh1, Silent
<1>10. ASSUME NEW s \in Stations, ReadCh2(s) PROVE TypeOK'
  <2>1. reader' \in Reader
    <3>1. reader \in Reader /\ ch2[reader.kind][s] \in Entry
      BY DEF TypeOK, Reader
    <3> QED
      BY <1>10, <3>1 DEF TypeOK, ReadCh2, Reader
  <2> QED
    BY <1>8, <1>10, <1>S, <2>1 DEF TypeOK, ReadCh2, Silent
<1>11. ASSUME NEW s \in Stations, ReadPrev(s) PROVE TypeOK'
  <2>1. reader' \in Reader /\ response'.status \in {0, 200}
    <3>1. CASE /\ reader' = [reader EXCEPT !.phase = "warm"]
               /\ response' = NoResponse
      <4>1. reader \in Reader
        BY DEF TypeOK, Reader
      <4>2. reader' \in Reader
        BY <3>1, <4>1 DEF Reader
      <4> QED
        BY <1>S, <3>1, <4>2
    <3>2. CASE reader' = IdleReader /\ response'.status = 200
      BY <3>2, IdleReaderIsTyped DEF TypeOK
    <3> QED
      BY <1>11, <3>1, <3>2 DEF TypeOK, ReadPrev, Silent
  <2> QED
    BY <1>8, <1>11, <2>1 DEF TypeOK, ReadPrev
<1>12. ASSUME NEW s \in Stations, CheckWarm(s) PROVE TypeOK'
  <2>1. reader' \in Reader /\ response'.status \in {404, 503}
    BY <1>12, IdleReaderIsTyped DEF TypeOK, CheckWarm
  <2> QED
    BY <1>8, <1>12, <2>1 DEF TypeOK, CheckWarm
<1>13. CASE UNCHANGED vars
  <2>1. reader' \in Reader /\ response'.status \in {0, 200, 404, 503}
    BY <1>13 DEF TypeOK, vars, Reader
  <2>2. UNCHANGED <<ch1, ch2, prev, builder, builds, slot, history, listed>>
    BY <1>13 DEF vars
  <2> QED
    BY <1>8, <2>1, <2>2
<1> QED
  BY <1>1, <1>2, <1>3, <1>4, <1>5, <1>6, <1>7, <1>9, <1>10, <1>11, <1>12, <1>13
     DEF Next

\* Every entry of the dictionaries is one; no build works on a run whose
\* publication guard has not elapsed.
THEOREM TypeCorrect == Spec => []TypeOK
<1>1. Init => TypeOK
  BY InitTypes
<1>2. TypeOK /\ [Next]_vars => TypeOK'
  BY NextTypes
<1> QED
  BY <1>1, <1>2, PTL DEF Spec

-----------------------------------------------------------------------------
(* Backfilling *)

\* What the getter's helpers do to an hour of an entry, whatever the two
\* entries are: a value of its own stays, and a null becomes at most what the
\* older entry has for the same valid time.
THEOREM FillIsBackfill ==
    ASSUME NEW k \in Kinds, NEW e \in Entry, NEW older \in Entry,
           NEW i \in DOMAIN e.hours, NEW c \in DOMAIN e.hours[i].val
    PROVE  LET own  == e.hours[i].val[c]
               full == Fill(k, e, older).hours[i] IN
           /\ full.vt = e.hours[i].vt
           /\ own # NoData => full.val[c] = own
           /\ own = NoData /\ full.val[c] # own =>
                 \E j \in DOMAIN older.hours :
                    /\ older.hours[j].vt = e.hours[i].vt
                    /\ full.val[c] = older.hours[j].val[c]
<1> DEFINE own  == e.hours[i].val[c]
           full == Fill(k, e, older).hours[i]
           at   == {j \in DOMAIN older.hours : older.hours[j].vt = e.hours[i].vt}
<1>1. e.hours \in Seq(Hour) /\ e.hours[i] \in Hour
  BY DEF Entry
<1>2. full = e.hours[i] \/ full = FillHour(e.hours[i], older)
  <2>1. CASE older = NoEntry \/ ~NeedsFill(k, e)
    BY <2>1 DEF Fill
  <2>2. CASE ~(older = NoEntry \/ ~NeedsFill(k, e))
    <3>1. Fill(k, e, older) = [e EXCEPT !.hours = [j \in DOMAIN e.hours |->
                                 FillHour(e.hours[j], older)]]
      BY <2>2 DEF Fill
    <3> QED
      BY <3>1 DEF Entry
  <2> QED
    BY <2>1, <2>2
<1>3. CASE full = e.hours[i]
  BY <1>3
<1>4. CASE full = FillHour(e.hours[i], older)
  <2>1. CASE at = {}
    BY <1>4, <2>1 DEF FillHour
  <2>2. CASE at # {}
    <3> DEFINE old == older.hours[CHOOSE j \in at : TRUE]
    <3>1. PICK j \in at : older.hours[j] = old
      BY <2>2
    <3>2. full = [e.hours[i] EXCEPT !.val = [d \in DOMAIN e.hours[i].val |->
             IF e.hours[i].val[d] = NoData THEN old.val[d] ELSE e.hours[i].val[d]]]
      BY <1>4, <2>2 DEF FillHour
    <3> HIDE DEF old
    <3>3. full.vt = e.hours[i].vt
          /\ full.val[c] = IF own = NoData THEN old.val[c] ELSE own
      BY <1>1, <3>2 DEF Hour
    <3> QED
      BY <3>1, <3>3
  <2> QED
    BY <2>1, <2>2
<1> QED
  BY <1>2, <1>3, <1>4

-----------------------------------------------------------------------------
(* Entries and their predecessors *)

\* Whatever has been stored is an entry.
Stored ==
    \A k \in Kinds, s \in Stations :
        \A i \in DOMAIN history[k][s] : history[k][s][i] # NoEntry

PairInv == TypeOK /\ Stored /\ PrevIsPredecessor

LEMMA AppendLatest ==
    ASSUME NEW h \in Seq(Entry), NEW e
    PROVE  /\ Latest(Append(h, e)) = e
           /\ Previous(Append(h, e)) = Latest(h)
BY DEF Latest, Previous

LEMMA InitPair == Init => PairInv
<1> SUFFICES ASSUME Init PROVE PairInv
  OBVIOUS
<1>1. TypeOK
  BY InitTypes
<1>2. Stored
  BY DEF Init, Stored
<1>3. \A k \in Kinds, s \in Stations : ~MidSet(k, s)
  BY DEF Init, MidSet, IdleBuilder, Models
<1>4. PrevIsPredecessor
  BY <1>3 DEF Init, Empty, PrevIsPredecessor, Latest, Previous
<1> QED
  BY <1>1, <1>2, <1>4 DEF PairInv

\* A step that leaves the entries alone and the setter where it was.
LEMMA PairKept ==
    ASSUME Stored, PrevIsPredecessor, UNCHANGED <<ch1, prev, history>>,
           \A k \in Kinds, s \in Stations : MidSet(k, s)' <=> MidSet(k, s)
    PROVE  Stored' /\ PrevIsPredecessor'
BY DEF Stored, PrevIsPredecessor

LEMMA NextPair == PairInv /\ [Next]_vars => PairInv'
<1> SUFFICES ASSUME TypeOK, Stored, PrevIsPredecessor, [Next]_vars, TypeOK'
             PROVE  Stored' /\ PrevIsPredecessor'
  BY NextTypes DEF PairInv
<1> DEFINE b == builder["icon-ch1"]
<1>0. "icon-ch1" \in Models /\ b.kind \in Kinds
  BY BuilderIs DEF TypeOK, Models, BuilderOf
\* The CH1 thread is at no store, before the step and after it.
<1>N. ASSUME UNCHANGED <<ch1, prev, history>>,
             b.phase # "store", b'.phase # "store"
      PROVE  Stored' /\ PrevIsPredecessor'
  BY <1>N, PairKept DEF MidSet
\* The CH1 thread does nothing.
<1>U. ASSUME UNCHANGED <<ch1, prev, history>>, b' = b
      PROVE  Stored' /\ PrevIsPredecessor'
  BY <1>U, PairKept DEF MidSet
<1>1. ASSUME NEW m \in Models, StartBuild(m) PROVE Stored' /\ PrevIsPredecessor'
  <2>1. UNCHANGED <<ch1, prev, history>> /\ builder[m].phase = "idle"
    BY <1>1, Zenon DEF StartBuild
  <2>2. PICK r : builder' = [builder EXCEPT ![m] = r] /\ r.phase = "next"
    <3>1. PICK s \in RefSlots(m), lost \in LostSets, list \in (SUBSET Stations) \ {{}} :
           builder' = [builder EXCEPT ![m] =
                 [IdleBuilder EXCEPT !.phase = "next", !.build = builds + 1,
                    !.init = s * RunStep, !.lost = lost, !.todo = list]]
      BY <1>1, Zenon DEF StartBuild
    <3> DEFINE r == [IdleBuilder EXCEPT !.phase = "next", !.build = builds + 1,
                    !.init = s * RunStep, !.lost = lost, !.todo = list]
    <3>2. r.phase = "next"
      BY DEF IdleBuilder
    <3> HIDE DEF r
    <3> QED
      BY <3>1, <3>2 DEF r
  <2>3. CASE m = "icon-ch1"
    BY <1>N, <2>1, <2>2, <2>3 DEF TypeOK
  <2>4. CASE m # "icon-ch1"
    BY <1>0, <1>U, <2>1, <2>2, <2>4 DEF TypeOK
  <2> QED
    BY <2>3, <2>4
<1>2. ASSUME NEW m \in Models, NextStation(m) PROVE Stored' /\ PrevIsPredecessor'
  <2>1. UNCHANGED <<ch1, prev, history>> /\ builder[m].phase = "next"
    BY <1>2, Zenon DEF NextStation
  <2>2. PICK r : builder' = [builder EXCEPT ![m] = r]
                 /\ (m = "icon-ch1" => r.phase # "store")
    <3>0. builder[m] \in BuilderOf(Inits)
      BY BuilderIs DEF TypeOK
    <3>1. CASE builder[m].todo = {}
      BY <1>2, <3>1 DEF NextStation, IdleBuilder
    <3>2. CASE builder[m].todo # {}
      <4>1. PICK s \in builder[m].todo :
               builder' = [builder EXCEPT ![m] =
                  [@ EXCEPT !.phase = FirstPhase(m), !.at = {s},
                            !.todo = builder[m].todo \ {s}, !.kind = "station"]]
        BY <1>2, <3>2 DEF NextStation
      <4> DEFINE r == [builder[m] EXCEPT !.phase = FirstPhase(m), !.at = {s},
                            !.todo = builder[m].todo \ {s}, !.kind = "station"]
      <4>2. builder' = [builder EXCEPT ![m] = r]
        BY <4>1 DEF TypeOK
      <4>3. r.phase = FirstPhase(m)
        BY <3>0 DEF BuilderOf
      <4> QED
        BY <4>2, <4>3, FirstPhaseIs
    <3> QED
      BY <3>1, <3>2
  <2>3. CASE m = "icon-ch1"
    BY <1>N, <2>1, <2>2, <2>3 DEF TypeOK
  <2>4. CASE m # "icon-ch1"
    BY <1>0, <1>U, <2>1, <2>2, <2>4 DEF TypeOK
  <2> QED
    BY <2>3, <2>4
\* The stash: the predecessor becomes the newest entry, and the setter is
\* half way through.
<1>3. ASSUME NEW t \in Stations, StashPrevious(t) PROVE Stored' /\ PrevIsPredecessor'
  <2>1. /\ b.phase = "stash" /\ b.at = {t}
        /\ prev' = [prev EXCEPT ![b.kind][t] = Stashed(ch1[b.kind][t], @)]
        /\ builder' = [builder EXCEPT !["icon-ch1"].phase = "store"]
        /\ UNCHANGED <<ch1, history>>
    BY <1>3, Zenon DEF StashPrevious
  <2>2. b'.phase = "store" /\ b'.at = {t} /\ b'.kind = b.kind
    BY <1>0, <2>1, BuilderIs DEF TypeOK, BuilderOf
  <2>3. Stored'
    BY <2>1 DEF Stored
  <2>4. ASSUME NEW k \in Kinds, NEW s \in Stations
        PROVE  LET h == history'[k][s] IN
               /\ ch1'[k][s] = Latest(h)
               /\ prev'[k][s] = IF MidSet(k, s)' THEN Latest(h) ELSE Previous(h)
    <3>1. /\ ~MidSet(k, s)
          /\ ch1[k][s] = Latest(history[k][s])
          /\ prev[k][s] = Previous(history[k][s])
      BY <2>1 DEF MidSet, PrevIsPredecessor
    <3>2. MidSet(k, s)' <=> k = b.kind /\ s = t
      BY <2>2 DEF MidSet
    <3>3. CASE k = b.kind /\ s = t
      <4>1. prev'[k][s] = Stashed(ch1[k][s], prev[k][s])
        BY <2>1, <3>3 DEF TypeOK
      <4>2. CASE ch1[k][s] = NoEntry
        <5>1. history[k][s] \in Seq(Entry)
          BY DEF TypeOK
        <5>2. Len(history[k][s]) = 0
          BY <3>1, <4>2, <5>1 DEF Stored, Latest
        <5> QED
          BY <2>1, <3>1, <3>2, <3>3, <4>1, <4>2, <5>2 DEF Stashed, Previous, Latest
      <4>3. CASE ch1[k][s] # NoEntry
        BY <2>1, <3>1, <3>2, <3>3, <4>1, <4>3 DEF Stashed
      <4> QED
        BY <4>2, <4>3
    <3>4. CASE ~(k = b.kind /\ s = t)
      <4>1. prev'[k][s] = prev[k][s]
        BY <1>0, <2>1, <3>4 DEF TypeOK
      <4> QED
        BY <2>1, <3>1, <3>2, <3>4, <4>1
    <3> QED
      BY <3>3, <3>4
  <2> QED
    BY <2>3, <2>4 DEF PrevIsPredecessor
\* The store: the newest entry is stored, and the setter is done.
<1>4. ASSUME NEW t \in Stations, StoreCh1(t) PROVE Stored' /\ PrevIsPredecessor'
  <2> DEFINE e == NewEntry(b.kind, "icon-ch1", b)
  <2>1. /\ b.phase = "store" /\ b.at = {t}
        /\ ch1' = [ch1 EXCEPT ![b.kind][t] = e]
        /\ history' = [history EXCEPT ![b.kind][t] = Append(@, e)]
        /\ builder' = AfterStore("icon-ch1")
        /\ UNCHANGED prev
    BY <1>4, Zenon DEF StoreCh1
  <2>2. b'.phase # "store"
    <3>1. PICK r \in Builder :
             /\ AfterStore("icon-ch1") = [builder EXCEPT !["icon-ch1"] = r]
             /\ r.phase # "store"
      BY <1>0, AfterStoreTyped
    <3>2. builder' = [builder EXCEPT !["icon-ch1"] = r]
      BY <2>1, <3>1
    <3>3. b' = r
      BY <1>0, <3>2 DEF TypeOK
    <3> QED
      BY <3>1, <3>3
  <2>3. e # NoEntry
    BY <1>0, NewEntryIsEntry DEF NoEntry
  <2> HIDE DEF e
  <2>4. ASSUME NEW k \in Kinds, NEW s \in Stations
        PROVE  LET h == history'[k][s] IN
               /\ \A i \in DOMAIN h : h[i] # NoEntry
               /\ ch1'[k][s] = Latest(h)
               /\ prev'[k][s] = IF MidSet(k, s)' THEN Latest(h) ELSE Previous(h)
    <3>0. history[k][s] \in Seq(Entry)
      BY DEF TypeOK
    <3>1. ~MidSet(k, s)'
      BY <2>2 DEF MidSet
    <3>2. CASE k = b.kind /\ s = t
      <4>1. MidSet(k, s) /\ prev[k][s] = Latest(history[k][s])
        BY <2>1, <3>2 DEF MidSet, PrevIsPredecessor
      <4>2. history'[k][s] = Append(history[k][s], e) /\ ch1'[k][s] = e
        BY <2>1, <3>2 DEF TypeOK
      <4>3. \A i \in DOMAIN Append(history[k][s], e) : Append(history[k][s], e)[i] # NoEntry
        BY <2>3, <3>0 DEF Stored
      <4>4. Latest(history'[k][s]) = e /\ Previous(history'[k][s]) = Latest(history[k][s])
        BY <3>0, <4>2, AppendLatest
      <4>5. prev'[k][s] = prev[k][s]
        BY <2>1
      <4> QED
        <5>1. \A i \in DOMAIN history'[k][s] : history'[k][s][i] # NoEntry
          BY <4>2, <4>3
        <5>2. ch1'[k][s] = Latest(history'[k][s])
          BY <4>2, <4>4
        <5>3. prev'[k][s] = Previous(history'[k][s])
          BY <4>1, <4>4, <4>5
        <5> QED
          BY <3>1, <5>1, <5>2, <5>3
    <3>3. CASE ~(k = b.kind /\ s = t)
      <4>1. history'[k][s] = history[k][s] /\ ch1'[k][s] = ch1[k][s]
        <5>1. history'[k][s] = history[k][s]
          BY <1>0, <2>1, <3>3 DEF TypeOK
        <5>2. ch1'[k][s] = ch1[k][s]
          BY <1>0, <2>1, <3>3 DEF TypeOK
        <5> QED
          BY <5>1, <5>2
      <4>2. ~MidSet(k, s)
        BY <2>1, <3>3 DEF MidSet
      <4> QED
        BY <2>1, <3>1, <4>1, <4>2 DEF PrevIsPredecessor, Stored
    <3> QED
      BY <3>2, <3>3
  <2> QED
    BY <2>4 DEF PrevIsPredecessor, Stored
<1>5. ASSUME NEW s \in Stations, StoreCh2(s) PROVE Stored' /\ PrevIsPredecessor'
  <2>1. UNCHANGED <<ch1, prev, history>> /\ builder' = AfterStore("icon-ch2")
    BY <1>5, Zenon DEF StoreCh2
  <2>2. b' = b
    BY <1>0, <2>1, AfterStoreTyped DEF TypeOK, Models
  <2> QED
    BY <1>U, <2>1, <2>2
<1>6. CASE NextSlot
  BY <1>U, <1>6 DEF NextSlot
\* A restart: nothing but the loaded entries is remembered.
<1>7. CASE Restart
  <2>1. /\ prev' = Empty
        /\ history' = [k \in Kinds |-> [s \in Stations |->
               IF ch1'[k][s] = NoEntry THEN <<>> ELSE <<ch1'[k][s]>>]]
        /\ builder' = [m \in Models |-> [IdleBuilder EXCEPT !.init = builder[m].init]]
    BY <1>7, Zenon DEF Restart, PrevAfterRestart
  <2>2. \A k \in Kinds, s \in Stations : ~MidSet(k, s)'
    <3>1. b'.phase = "idle"
      BY <1>0, <2>1 DEF IdleBuilder
    <3> QED
      BY <3>1 DEF MidSet
  <2>3. ASSUME NEW k \in Kinds, NEW s \in Stations
        PROVE  LET h == history'[k][s] IN
               /\ \A i \in DOMAIN h : h[i] # NoEntry
               /\ ch1'[k][s] = Latest(h)
               /\ prev'[k][s] = Previous(h)
    <3>1. prev'[k][s] = NoEntry
      BY <2>1 DEF Empty
    <3>2. CASE ch1'[k][s] = NoEntry
      <4>1. history'[k][s] = <<>>
        BY <2>1, <3>2
      <4> QED
        BY <3>1, <3>2, <4>1 DEF Latest, Previous
    <3>3. CASE ch1'[k][s] # NoEntry
      <4>1. history'[k][s] = <<ch1'[k][s]>>
        BY <2>1, <3>3
      <4> QED
        BY <3>1, <3>3, <4>1 DEF Latest, Previous
    <3> QED
      BY <3>2, <3>3
  <2> QED
    BY <2>2, <2>3 DEF PrevIsPredecessor, Stored
<1>8. ASSUME NEW k \in Kinds, NEW s \in Stations, NEW n \in 1..LastHorizon,
             ReadCh1(k, s, n)
      PROVE  Stored' /\ PrevIsPredecessor'
  BY <1>U, <1>8 DEF ReadCh1
<1>9. ASSUME NEW s \in Stations, ReadCh2(s) PROVE Stored' /\ PrevIsPredecessor'
  BY <1>U, <1>9 DEF ReadCh2
<1>10. ASSUME NEW s \in Stations, ReadPrev(s) PROVE Stored' /\ PrevIsPredecessor'
  <2>1. UNCHANGED <<ch1, prev, history, builder>>
    BY <1>10, Zenon DEF ReadPrev
  <2> QED
    BY <1>U, <2>1
<1>11. ASSUME NEW s \in Stations, CheckWarm(s) PROVE Stored' /\ PrevIsPredecessor'
  BY <1>U, <1>11 DEF CheckWarm
<1>12. CASE UNCHANGED vars
  BY <1>U, <1>12 DEF vars
<1> QED
  BY <1>1, <1>2, <1>3, <1>4, <1>5, <1>6, <1>7, <1>8, <1>9, <1>10, <1>11, <1>12
     DEF Next

\* At every moment the cache holds the newest CH1 entry stored for a station
\* and the predecessor slot the one stored just before it, but for the instant
\* between the two halves of the setter; a restart keeps the first and forgets
\* the second.
THEOREM Paired == Spec => []PrevIsPredecessor
<1>1. Init => PairInv
  BY InitPair
<1>2. PairInv /\ [Next]_vars => PairInv'
  BY NextPair
<1>3. PairInv => PrevIsPredecessor
  BY DEF PairInv
<1> QED
  BY <1>1, <1>2, <1>3, PTL DEF Spec

-----------------------------------------------------------------------------
(* The hours of an entry *)

\* Induction over the naturals, for a set: the library's theorem takes an
\* operator, which the provers cannot instantiate.
LEMMA SetInduction ==
    ASSUME NEW S, 0 \in S, \A n \in Nat : n \in S => n + 1 \in S
    PROVE  Nat \subseteq S
<1> DEFINE T == Nat \ S
           R == OpToRel(<, Nat)
<1>1. SUFFICES ASSUME T # {} PROVE FALSE
  OBVIOUS
<1>2. IsWellFoundedOn(R, Nat)
  BY NatLessThanWellFounded
<1>3. T \subseteq Nat
  OBVIOUS
<1> HIDE DEF R, T
<1>4. PICK x \in T : \A y \in T : ~(<<y, x>> \in R)
  BY <1>1, <1>2, <1>3, WFMin
<1>5. x \in Nat /\ x \notin S
  BY <1>4 DEF T
<1>6. x # 0 /\ x - 1 \in Nat
  BY <1>5
<1>7. x - 1 \notin S
  <2>1. x - 1 \in S => (x - 1) + 1 \in S
    BY <1>6
  <2> QED
    BY <1>5, <1>6, <2>1
<1>8. <<x - 1, x>> \in R
  BY <1>5, <1>6 DEF R, OpToRel
<1> QED
  BY <1>4, <1>6, <1>7, <1>8 DEF T

Ascending(hours) ==
    \A i, j \in DOMAIN hours : i < j => hours[i].vt < hours[j].vt

\* One step
Longer(hours, keep, f, n) ==
    IF n = 0 THEN <<>>
    ELSE IF n \in keep THEN Append(f[n - 1], hours[n])
    ELSE f[n - 1]

LEMMA UpToExists ==
    ASSUME NEW hours \in Seq(Hour), NEW keep
    PROVE  \E f : f = [n \in 0..Len(hours) |-> Longer(hours, keep, f, n)]
<1> DEFINE N == Len(hours)
           S == {n \in Nat : \E f : f = [m \in 0..n |-> Longer(hours, keep, f, m)]}
<1>1. 0 \in S
  <2> DEFINE f == [m \in 0..0 |-> <<>>]
  <2>1. f = [m \in 0..0 |-> Longer(hours, keep, f, m)]
    BY DEF Longer
  <2> QED
    BY <2>1
<1>2. ASSUME NEW n \in Nat, n \in S PROVE n + 1 \in S
  <2>1. PICK f : f = [m \in 0..n |-> Longer(hours, keep, f, m)]
    BY <1>2
  <2> DEFINE g == [m \in 0..(n + 1) |->
                     IF m = n + 1 THEN Longer(hours, keep, f, m) ELSE f[m]]
  <2>2. ASSUME NEW m \in 0..(n + 1) PROVE g[m] = Longer(hours, keep, g, m)
    <3>1. m # 0 => m - 1 \in 0..n /\ g[m - 1] = f[m - 1]
      OBVIOUS
    <3>2. Longer(hours, keep, g, m) = Longer(hours, keep, f, m)
      BY <3>1 DEF Longer
    <3>3. m # n + 1 => m \in 0..n
      OBVIOUS
    <3>4. m \in 0..n => f[m] = Longer(hours, keep, f, m)
      BY <2>1
    <3> QED
      BY <3>2, <3>3, <3>4
  <2>3. DOMAIN g = 0..(n + 1)
    OBVIOUS
  <2> HIDE DEF g
  <2>4. g = [m \in 0..(n + 1) |-> Longer(hours, keep, g, m)]
    <3> DEFINE r == [m \in 0..(n + 1) |-> Longer(hours, keep, g, m)]
    <3>1. \A m \in 0..(n + 1) : r[m] = g[m]
      BY <2>2
    <3> QED
      BY <2>2, <2>3, <3>1
  <2> QED
    BY <2>4
<1> HIDE DEF S
<1>3. N \in S
  BY <1>1, <1>2, SetInduction
<1> QED
  BY <1>3 DEF S

LEMMA UpToIs ==
    ASSUME NEW hours \in Seq(Hour), NEW keep
    PROVE  \E f : /\ f = [n \in 0..Len(hours) |-> Longer(hours, keep, f, n)]
                  /\ HoursAt(hours, keep) = f[Len(hours)]
<1> DEFINE F == CHOOSE f : f = [n \in 0..Len(hours) |-> Longer(hours, keep, f, n)]
<1>1. F = [n \in 0..Len(hours) |-> Longer(hours, keep, F, n)]
  BY UpToExists
<1>2. HoursAt(hours, keep) = F[Len(hours)]
  BY DEF HoursAt, Longer
<1> QED
  BY <1>1, <1>2

\* The first n hours, filtered: kept ones only, all of them, and in order.
Filtered(r, hours, keep, n) ==
    /\ r \in Seq(Hour)
    /\ \A i \in DOMAIN r : \E j \in keep \cap (1..n) : r[i] = hours[j]
    /\ \A j \in keep \cap (1..n) : \E i \in DOMAIN r : r[i] = hours[j]
    /\ Ascending(r)

LEMMA FilterOneMore ==
    ASSUME NEW hours \in Seq(Hour), Ascending(hours), NEW keep,
           NEW n \in 1..Len(hours), NEW r, Filtered(r, hours, keep, n - 1)
    PROVE  Filtered(IF n \in keep THEN Append(r, hours[n]) ELSE r,
                    hours, keep, n)
<1>1. 1..n = (1..(n - 1)) \union {n}
  OBVIOUS
<1>2. CASE n \notin keep
  BY <1>1, <1>2 DEF Filtered
<1>3. CASE n \in keep
  <2> DEFINE a == Append(r, hours[n])
  <2>1. /\ r \in Seq(Hour) /\ hours[n] \in Hour /\ n \in DOMAIN hours
        /\ Len(r) \in Nat
    BY DEF Filtered
  <2>2. /\ a \in Seq(Hour) /\ DOMAIN a = 1..(Len(r) + 1)
        /\ DOMAIN r = 1..Len(r) /\ a[Len(r) + 1] = hours[n]
        /\ \A i \in 1..Len(r) : a[i] = r[i]
    BY <2>1
  <2> HIDE DEF a
  <2>3. ASSUME NEW i \in DOMAIN a
        PROVE  \E j \in keep \cap (1..n) : a[i] = hours[j]
    <3>1. CASE i = Len(r) + 1
      BY <1>3, <2>2, <3>1
    <3>2. CASE i # Len(r) + 1
      <4>1. i \in DOMAIN r /\ a[i] = r[i]
        BY <2>1, <2>2, <2>3, <3>2
      <4> QED
        BY <1>1, <4>1 DEF Filtered
    <3> QED
      BY <3>1, <3>2
  <2>4. ASSUME NEW j \in keep \cap (1..n)
        PROVE  \E i \in DOMAIN a : a[i] = hours[j]
    <3>1. CASE j = n
      BY <2>1, <2>2, <3>1
    <3>2. CASE j # n
      <4>1. PICK i \in DOMAIN r : r[i] = hours[j]
        BY <1>1, <2>4, <3>2 DEF Filtered
      <4>2. i \in DOMAIN a /\ a[i] = r[i]
        BY <2>1, <2>2, <4>1
      <4> QED
        BY <4>1, <4>2
    <3> QED
      BY <3>1, <3>2
  <2>5. ASSUME NEW i \in DOMAIN a, NEW j \in DOMAIN a, i < j
        PROVE  a[i].vt < a[j].vt
    <3>1. i \in DOMAIN r /\ a[i] = r[i]
      BY <2>1, <2>2, <2>5
    <3>2. CASE j = Len(r) + 1
      <4>1. PICK l \in keep \cap (1..(n - 1)) : r[i] = hours[l]
        BY <3>1 DEF Filtered
      <4>2. l \in DOMAIN hours /\ l < n
        BY <4>1
      <4>3. hours[l].vt < hours[n].vt
        BY <2>1, <4>2 DEF Ascending
      <4> QED
        BY <2>2, <3>1, <3>2, <4>1, <4>3
    <3>3. CASE j # Len(r) + 1
      <4>1. j \in DOMAIN r /\ a[j] = r[j]
        BY <2>1, <2>2, <2>5, <3>3
      <4> QED
        BY <2>5, <3>1, <4>1 DEF Filtered, Ascending
    <3> QED
      BY <3>2, <3>3
  <2>6. Ascending(a)
    BY <2>5 DEF Ascending
  <2>7. Filtered(a, hours, keep, n)
    BY <2>2, <2>3, <2>4, <2>6 DEF Filtered
  <2> QED
    BY <1>3, <2>7 DEF a
<1> QED
  BY <1>2, <1>3

\* HoursAt is the list comprehension it stands for.
LEMMA HoursAtIs ==
    ASSUME NEW hours \in Seq(Hour), Ascending(hours), NEW keep
    PROVE  Filtered(HoursAt(hours, keep), hours, keep, Len(hours))
<1> PICK f : /\ f = [n \in 0..Len(hours) |-> Longer(hours, keep, f, n)]
             /\ HoursAt(hours, keep) = f[Len(hours)]
  BY UpToIs
<1> DEFINE S == {n \in Nat : n <= Len(hours) =>
                                 Filtered(f[n], hours, keep, n)}
<1>1. Len(hours) \in Nat
  OBVIOUS
<1>2. 0 \in S
  <2>1. f[0] = Longer(hours, keep, f, 0)
    BY <1>1
  <2>2. f[0] = <<>>
    BY <2>1 DEF Longer
  <2>3. 1..0 = {}
    OBVIOUS
  <2> QED
    BY <2>2, <2>3 DEF Filtered, Ascending
<1>3. ASSUME NEW n \in Nat, n \in S PROVE n + 1 \in S
  <2> SUFFICES ASSUME n + 1 <= Len(hours)
               PROVE  Filtered(f[n + 1], hours, keep, n + 1)
    OBVIOUS
  <2>1. n + 1 \in 0..Len(hours) /\ n + 1 \in 1..Len(hours) /\ n + 1 # 0
        /\ (n + 1) - 1 = n
    BY <1>1
  <2>2. f[n + 1] = Longer(hours, keep, f, n + 1)
    BY <2>1
  <2>3. f[n + 1] = IF n + 1 \in keep THEN Append(f[n], hours[n + 1]) ELSE f[n]
    BY <2>1, <2>2 DEF Longer
  <2>4. Filtered(f[n], hours, keep, (n + 1) - 1)
    BY <1>1, <1>3, <2>1
  <2> HIDE DEF S
  <2> QED
    BY <2>1, <2>3, <2>4, FilterOneMore
<1> HIDE DEF S
<1>4. Len(hours) \in S
  BY <1>1, <1>2, <1>3, SetInduction
<1> QED
  BY <1>1, <1>4 DEF S

\* The CH2 part of a merged answer: only CH2 hours past every CH1 hour, all of
\* them, and in order, whatever the two runs are.
THEOREM Tail2Is ==
    ASSUME NEW e1, NEW e2 \in Entry, Ascending(e2.hours)
    PROVE  LET tail == Tail2(e1, e2)
               Past(hour) == \A i \in DOMAIN e1.hours : hour.vt > e1.hours[i].vt
           IN /\ tail \in Seq(Hour) /\ Ascending(tail)
              /\ \A i \in DOMAIN tail :
                    /\ Past(tail[i])
                    /\ \E j \in DOMAIN e2.hours : tail[i] = e2.hours[j]
              /\ \A j \in DOMAIN e2.hours :
                    Past(e2.hours[j]) => \E i \in DOMAIN tail : tail[i] = e2.hours[j]
<1> DEFINE after == {j \in DOMAIN e2.hours :
                       \A i \in DOMAIN e1.hours :
                          e2.hours[j].vt > e1.hours[i].vt}
<1>1. e2.hours \in Seq(Hour)
  BY DEF Entry
<1>2. Filtered(Tail2(e1, e2), e2.hours, after, Len(e2.hours))
  BY <1>1, HoursAtIs DEF Tail2
<1>3. DOMAIN e2.hours = 1..Len(e2.hours)
  BY <1>1
<1> QED
  BY <1>2, <1>3 DEF Filtered

\* An entry as a build leaves it: its hours are in order, and a value is of
\* this build or missing.
Built(k, e) ==
    /\ Ascending(e.hours)
    /\ \A i \in DOMAIN e.hours :
          e.hours[i].val \in [Cells[k] -> {NoData, e.build}]

LEMMA NoEntryBuilt == \A k \in Kinds : Built(k, NoEntry)
BY DEF Built, Ascending, NoEntry

LEMMA NewEntryBuilt ==
    ASSUME TypeOK, NEW k \in Kinds, NEW m \in Models
    PROVE  /\ Built(k, NewEntry(k, m, builder[m]))
           /\ NewEntry(k, m, builder[m]).build = builder[m].build
<1> DEFINE b == builder[m]
           hour(i) ==
             LET h == FirstHorizon(m) + i - 1 IN
             [vt  |-> b.init + h,
              val |-> [c \in Cells[k] |->
                         IF c \in BelowTerrain \/ <<h, c>> \in b.lost
                         THEN NoData ELSE b.build]]
           e == NewEntry(k, m, b)
<1>1. b.init \in Nat
  <2>1. b \in Builder /\ slot \in Nat
    BY ConstantsAreNat DEF TypeOK
  <2>2. PICK i \in 0..slot : b.init = i * RunStep
    BY <2>1 DEF Builder
  <2> QED
    BY <2>1, <2>2, SlotTimeIsNat
<1>2. FirstHorizon(m) \in Nat /\ NHours(m) \in Nat
  BY ConstantsAreNat DEF FirstHorizon, NHours
<1>3. e.build = b.build /\ e.hours = [i \in 1..NHours(m) |-> hour(i)]
  BY DEF NewEntry
<1>4. \A i \in 1..NHours(m) :
         /\ hour(i).vt = b.init + (FirstHorizon(m) + i - 1)
         /\ hour(i).val \in [Cells[k] -> {NoData, b.build}]
  OBVIOUS
<1> HIDE DEF hour, e
<1>5. DOMAIN e.hours = 1..NHours(m)
      /\ \A i \in 1..NHours(m) : e.hours[i] = hour(i)
  BY <1>3
<1>6. Ascending(e.hours)
  <2> SUFFICES ASSUME NEW i \in 1..NHours(m), NEW j \in 1..NHours(m), i < j
               PROVE  e.hours[i].vt < e.hours[j].vt
    BY <1>5 DEF Ascending
  <2>1. e.hours[i].vt = b.init + (FirstHorizon(m) + i - 1)
    BY <1>4, <1>5
  <2>2. e.hours[j].vt = b.init + (FirstHorizon(m) + j - 1)
    BY <1>4, <1>5
  <2> QED
    BY <1>1, <1>2, <2>1, <2>2
<1>7. Built(k, e)
  BY <1>3, <1>4, <1>5, <1>6 DEF Built
<1> QED
  BY <1>3, <1>7 DEF e

\* Backfilling keeps the hours of the newer entry, and leaves in each cell its
\* own value, one of the older entry or none.
LEMMA FillIs ==
    ASSUME NEW k \in Kinds, NEW e \in Entry, NEW older \in Entry,
           Built(k, e), Built(k, older)
    PROVE  LET full == Fill(k, e, older) IN
           /\ full \in Entry /\ full.model = e.model
           /\ DOMAIN full.hours = DOMAIN e.hours
           /\ Ascending(full.hours)
           /\ \A i \in DOMAIN e.hours :
                 /\ full.hours[i].vt = e.hours[i].vt
                 /\ \A c \in Cells[k] :
                      /\ full.hours[i].val[c] \in
                            {NoData, e.build, older.build}
                      /\ e.hours[i].val[c] # NoData =>
                            full.hours[i].val[c] = e.hours[i].val[c]
<1> DEFINE full == Fill(k, e, older)
<1>1. /\ e.hours \in Seq(Hour) /\ older.hours \in Seq(Hour)
      /\ e.build \in 0..MaxBuilds /\ older.build \in 0..MaxBuilds
  BY DEF Entry
<1>2. \A i \in DOMAIN e.hours :
         /\ e.hours[i].val \in [Cells[k] -> {NoData, e.build}]
         /\ DOMAIN e.hours[i].val = Cells[k]
  BY DEF Built
<1>3. ASSUME NEW i \in DOMAIN e.hours
      PROVE  /\ full.hours[i].vt = e.hours[i].vt
             /\ \A c \in Cells[k] :
                  /\ full.hours[i].val[c] \in {NoData, e.build, older.build}
                  /\ e.hours[i].val[c] # NoData =>
                        full.hours[i].val[c] = e.hours[i].val[c]
  <2>1. ASSUME NEW c \in Cells[k]
        PROVE  /\ full.hours[i].vt = e.hours[i].vt
               /\ full.hours[i].val[c] \in {NoData, e.build, older.build}
               /\ e.hours[i].val[c] # NoData =>
                     full.hours[i].val[c] = e.hours[i].val[c]
    <3>1. c \in DOMAIN e.hours[i].val /\ e.hours[i].val[c] \in {NoData, e.build}
      BY <1>2
    <3>2. \A j \in DOMAIN older.hours :
             older.hours[j].val[c] \in {NoData, older.build}
      BY DEF Built
    <3> HIDE DEF full
    <3> QED
      BY <3>1, <3>2, FillIsBackfill DEF full
  <2>2. Cells[k] # {}
    BY WindAssumption
  <2> QED
    BY <2>1, <2>2
<1>4. CASE older = NoEntry \/ ~NeedsFill(k, e)
  <2>1. full = e
    BY <1>4 DEF Fill
  <2> QED
    BY <1>3, <2>1 DEF Built
<1>5. CASE ~(older = NoEntry \/ ~NeedsFill(k, e))
  <2> DEFINE hs == [i \in DOMAIN e.hours |-> FillHour(e.hours[i], older)]
  <2>1. full = [e EXCEPT !.hours = hs]
    BY <1>5 DEF Fill
  <2>2. ASSUME NEW i \in DOMAIN e.hours
        PROVE  FillHour(e.hours[i], older) \in Hour
    <3> DEFINE hour == e.hours[i]
               at == {j \in DOMAIN older.hours : older.hours[j].vt = hour.vt}
    <3>1. hour \in Hour /\ hour.val \in [Cells[k] -> {NoData, e.build}]
      BY <1>1, <1>2
    <3>2. CASE at = {}
      BY <3>1, <3>2 DEF FillHour
    <3>3. CASE at # {}
      <4> DEFINE old == older.hours[CHOOSE j \in at : TRUE]
                 v == [c \in DOMAIN hour.val |->
                         IF hour.val[c] = NoData THEN old.val[c]
                         ELSE hour.val[c]]
      <4>1. PICK j \in at : older.hours[j] = old
        BY <3>3
      <4>2. old.val \in [Cells[k] -> {NoData, older.build}]
        BY <4>1 DEF Built
      <4>3. FillHour(hour, older) = [hour EXCEPT !.val = v]
        BY <3>3 DEF FillHour
      <4> HIDE DEF old
      <4>4. v \in [Cells[k] -> 0..MaxBuilds]
        <5>1. \A c \in Cells[k] : /\ old.val[c] \in {NoData, older.build}
                                   /\ hour.val[c] \in {NoData, e.build}
          BY <3>1, <4>2
        <5>2. DOMAIN hour.val = Cells[k]
          BY <3>1
        <5>3. NoData \in 0..MaxBuilds
          BY ConstantsAreNat DEF NoData
        <5> QED
          BY <1>1, <5>1, <5>2, <5>3
      <4> HIDE DEF v
      <4> QED
        BY <3>1, <4>3, <4>4 DEF Hour
    <3> QED
      BY <3>2, <3>3
  <2>3. hs \in Seq(Hour) /\ DOMAIN hs = DOMAIN e.hours
    BY <1>1, <2>2
  <2> HIDE DEF hs
  <2>4. full \in Entry /\ full.hours = hs /\ full.model = e.model
    BY <2>1, <2>3 DEF Entry
  <2>5. Ascending(full.hours)
    BY <1>3, <2>3, <2>4 DEF Ascending, Built
  <2> HIDE DEF full
  <2>6. DOMAIN full.hours = DOMAIN e.hours
    BY <2>3, <2>4
  <2> QED
    BY <1>3, <2>4, <2>5, <2>6 DEF full
<1> QED
  BY <1>4, <1>5

\* An hour whose wind is missing is filled where the older entry has it.
LEMMA FillFills ==
    ASSUME NEW k \in Kinds, NEW e \in Entry, NEW older \in Entry,
           Built(k, e), Built(k, older), older # NoEntry,
           NEW i \in DOMAIN e.hours, NEW j \in DOMAIN older.hours,
           older.hours[j].vt = e.hours[i].vt,
           NullHour(Fill(k, e, older).hours[i], k)
    PROVE  NullHour(older.hours[j], k)
<1> DEFINE full == Fill(k, e, older)
           hour == e.hours[i]
           at == {l \in DOMAIN older.hours : older.hours[l].vt = hour.vt}
<1>1. \A c \in Cells[k] : hour.val[c] = NoData
  <2>1. \A c \in Cells[k] : full.hours[i].val[c] = NoData
    BY DEF NullHour
  <2>2. \A c \in Cells[k] : hour.val[c] # NoData =>
           full.hours[i].val[c] = hour.val[c]
    BY FillIs
  <2> QED
    BY <2>1, <2>2
<1>2. NeedsFill(k, e)
  BY <1>1, WindAssumption DEF NeedsFill
<1>3. full.hours[i] = FillHour(hour, older)
  BY <1>2 DEF Fill, Entry
<1>4. /\ hour.val \in [Cells[k] -> {NoData, e.build}] /\ hour \in Hour
      /\ DOMAIN older.hours = 1..Len(older.hours)
  BY DEF Built, Entry
<1>5. \A l \in at : l = j
  <2> SUFFICES ASSUME NEW l \in at, l # j PROVE FALSE
    OBVIOUS
  <2>1. l < j \/ j < l
    BY <1>4
  <2>2. older.hours[l] \in Hour /\ older.hours[j] \in Hour
    BY DEF Entry
  <2>3. older.hours[l].vt \in Nat /\ older.hours[l].vt = older.hours[j].vt
    BY <2>2 DEF Hour
  <2>4. \/ older.hours[l].vt < older.hours[j].vt
        \/ older.hours[j].vt < older.hours[l].vt
    BY <2>1 DEF Built, Ascending
  <2> QED
    BY <2>3, <2>4
<1>6. j \in at /\ (CHOOSE l \in at : TRUE) = j
  BY <1>5
<1>7. FillHour(hour, older) =
        [hour EXCEPT !.val = [c \in DOMAIN hour.val |->
             IF hour.val[c] = NoData THEN older.hours[j].val[c]
             ELSE hour.val[c]]]
  BY <1>6 DEF FillHour
<1> HIDE DEF hour
<1>8. ASSUME NEW c \in Cells[k] PROVE older.hours[j].val[c] = NoData
  <2>1. full.hours[i].val[c] = NoData
    BY <1>8 DEF NullHour
  <2> HIDE DEF full
  <2> QED
    BY <1>1, <1>3, <1>4, <1>7, <1>8, <2>1 DEF Hour
<1> QED
  BY <1>8 DEF NullHour

LEMMA AscendingJoin ==
    ASSUME NEW s \in Seq(Hour), NEW t \in Seq(Hour), Ascending(s), Ascending(t),
           \A i \in DOMAIN t : \A j \in DOMAIN s : t[i].vt > s[j].vt
    PROVE  /\ s \o t \in Seq(Hour) /\ Ascending(s \o t)
           /\ \A i \in DOMAIN s : i \in DOMAIN (s \o t) /\ (s \o t)[i] = s[i]
<1> DEFINE u == s \o t
<1>1. Len(s) \in Nat /\ Len(t) \in Nat /\ DOMAIN s = 1..Len(s)
      /\ DOMAIN t = 1..Len(t)
  OBVIOUS
<1>2. /\ u \in Seq(Hour) /\ DOMAIN u = 1..(Len(s) + Len(t))
      /\ \A i \in 1..Len(s) : u[i] = s[i]
      /\ \A i \in 1..(Len(s) + Len(t)) : i > Len(s) => u[i] = t[i - Len(s)]
  OBVIOUS
<1>3. \A i \in 1..Len(s) : i \in 1..(Len(s) + Len(t))
  BY <1>1
<1> HIDE DEF u
<1>4. ASSUME NEW i \in DOMAIN u, NEW j \in DOMAIN u, i < j
      PROVE  u[i].vt < u[j].vt
  <2>1. CASE j <= Len(s)
    <3>1. i \in DOMAIN s /\ j \in DOMAIN s
      BY <1>1, <1>2, <1>4, <2>1
    <3> QED
      BY <1>1, <1>2, <1>4, <3>1 DEF Ascending
  <2>2. CASE i <= Len(s) /\ j > Len(s)
    <3>1. i \in DOMAIN s /\ j - Len(s) \in DOMAIN t
      BY <1>1, <1>2, <1>4, <2>2
    <3>2. t[j - Len(s)].vt > s[i].vt
      BY <3>1
    <3>3. t[j - Len(s)] \in Hour /\ s[i] \in Hour
      BY <3>1
    <3> QED
      BY <1>1, <1>2, <1>4, <2>2, <3>1, <3>2, <3>3 DEF Hour
  <2>3. CASE i > Len(s) /\ j > Len(s)
    <3>1. i - Len(s) \in DOMAIN t /\ j - Len(s) \in DOMAIN t
          /\ i - Len(s) < j - Len(s)
      BY <1>1, <1>2, <1>4, <2>3
    <3> QED
      BY <1>1, <1>2, <1>4, <2>3, <3>1 DEF Ascending
  <2> QED
    BY <1>1, <1>2, <1>4, <2>1, <2>2, <2>3
<1>5. Ascending(u)
  BY <1>4 DEF Ascending
<1>6. \A i \in DOMAIN s : i \in DOMAIN u /\ u[i] = s[i]
  BY <1>1, <1>2, <1>3
<1> QED
  BY <1>2, <1>5, <1>6 DEF u

\* What a request with a CH1 entry is answered: the hours of that entry, filled,
\* and possibly later ones.
LEMMA CombineIs ==
    ASSUME NEW k \in Kinds, NEW e1 \in Entry, NEW e2 \in Entry,
           NEW older \in Entry,
           Built(k, e1), Built(k, e2), Built(k, older), e1 # NoEntry
    PROVE  LET data == Combine(k, e1, e2, older) IN
           /\ data.hours \in Seq(Hour) /\ Ascending(data.hours)
           /\ \A i \in DOMAIN e1.hours :
                 /\ i \in DOMAIN data.hours
                 /\ data.hours[i] = Fill(k, e1, older).hours[i]
<1> DEFINE full == Fill(k, e1, older)
           data == Combine(k, e1, e2, older)
<1>1. /\ full \in Entry /\ DOMAIN full.hours = DOMAIN e1.hours
      /\ Ascending(full.hours)
  BY FillIs
<1>2. full.hours \in Seq(Hour)
  BY <1>1 DEF Entry
<1>3. CASE e2 = NoEntry
  BY <1>1, <1>2, <1>3 DEF Combine
<1>4. CASE e2 # NoEntry
  <2>1. data = Merge(full, e2)
    BY <1>4 DEF Combine
  <2> HIDE DEF full
  <2> DEFINE own == full.hours
             tail == Tail2(full, e2)
  <2>2. data.hours = own \o tail
    BY <1>1, <2>1 DEF Merge, Entry
  <2>3. /\ tail \in Seq(Hour) /\ Ascending(tail)
        /\ \A i \in DOMAIN tail : \A j \in DOMAIN own :
                 tail[i].vt > own[j].vt
    BY Tail2Is DEF Built
  <2> HIDE DEF data, tail
  <2>4. own \in Seq(Hour) /\ Ascending(own)
    BY <1>1, <1>2
  <2> HIDE DEF own
  <2>5. /\ own \o tail \in Seq(Hour) /\ Ascending(own \o tail)
        /\ \A i \in DOMAIN own :
              i \in DOMAIN (own \o tail) /\ (own \o tail)[i] = own[i]
    BY <2>3, <2>4, AscendingJoin
  <2>6. /\ data.hours \in Seq(Hour) /\ Ascending(data.hours)
        /\ \A i \in DOMAIN full.hours :
              i \in DOMAIN data.hours /\ data.hours[i] = full.hours[i]
    BY <2>2, <2>5 DEF own
  <2> QED
    BY <1>1, <2>6 DEF full, data
<1> QED
  BY <1>3, <1>4

LEMMA TruncateIs ==
    ASSUME NEW hours \in Seq(Hour), NEW n \in Nat, Ascending(hours)
    PROVE  LET r == Truncate(hours, n) IN
           /\ r \in Seq(Hour) /\ Ascending(r)
           /\ \A i \in DOMAIN r : i \in DOMAIN hours /\ r[i] = hours[i]
<1>1. CASE n < Len(hours)
  <2> DEFINE r == SubSeq(hours, 1, n)
  <2>1. Truncate(hours, n) = r
    BY <1>1 DEF Truncate
  <2>2. r \in Seq(Hour) /\ DOMAIN r = 1..n /\ DOMAIN hours = 1..Len(hours)
        /\ \A i \in 1..n : r[i] = hours[i]
    BY <1>1
  <2>3. \A i \in 1..n : i \in 1..Len(hours)
    BY <1>1
  <2> HIDE DEF r
  <2> QED
    BY <2>1, <2>2, <2>3 DEF Ascending
<1>2. CASE ~(n < Len(hours))
  BY <1>2 DEF Truncate
<1> QED
  BY <1>1, <1>2

-----------------------------------------------------------------------------
(* The CH1 builds and the request *)

\* The CH1 thread still has the entry of kind k of station s to store.
Pending(k, s) ==
    LET b == builder["icon-ch1"] IN
    \/ s \in b.todo
    \/ b.phase \in {"stash", "store"} /\ b.at = {s} /\ b.kind \in {k, "station"}

\* The CH1 entries of a station are of builds in increasing order, and so is
\* the one the thread has still to store.
BuildsOrdered ==
    /\ builder["icon-ch1"].build <= builds
    /\ \A s \in Stations : builder["icon-ch1"].at = {s} =>
                              s \notin builder["icon-ch1"].todo
    /\ \A k \in Kinds, s \in Stations :
        LET h == history[k][s] IN
        /\ \A i, j \in DOMAIN h : i < j => h[i].build < h[j].build
        /\ \A i \in DOMAIN h :
            /\ h[i].build <= builds
            /\ Pending(k, s) => h[i].build < builder["icon-ch1"].build

EntriesBuilt ==
    \A k \in Kinds, s \in Stations :
        /\ Built(k, ch2[k][s])
        /\ \A i \in DOMAIN history[k][s] : Built(k, history[k][s][i])

\* A request between its reads holds an entry that was stored; if no setter
\* has touched the station since, it is the newest.
RequestFresh ==
    \A k \in Kinds, s \in Stations :
        /\ reader.phase \in {"ch2", "prev"}
        /\ reader.kind = k /\ reader.station = {s}
        => LET h == history[k][s] IN
           /\ reader.e1 = NoEntry \/ \E p \in DOMAIN h : h[p] = reader.e1
           /\ reader.quiet => reader.e1 = Latest(h) /\ ~MidSet(k, s)
           /\ reader.phase = "prev" => Built(k, reader.e2)

AnswerInv == PairInv /\ BuildsOrdered /\ EntriesBuilt /\ RequestFresh

LEMMA LatestBuilt ==
    ASSUME TypeOK, EntriesBuilt, NEW k \in Kinds, NEW s \in Stations
    PROVE  /\ Built(k, Latest(history[k][s]))
           /\ Built(k, Previous(history[k][s]))
<1>1. history[k][s] \in Seq(Entry)
  BY DEF TypeOK
<1>2. Len(history[k][s]) \in Nat
      /\ DOMAIN history[k][s] = 1..Len(history[k][s])
  BY <1>1
<1>3. \A i \in DOMAIN history[k][s] : Built(k, history[k][s][i])
  BY DEF EntriesBuilt
<1>4. Len(history[k][s]) # 0 => Len(history[k][s]) \in DOMAIN history[k][s]
  BY <1>2
<1>5. ~(Len(history[k][s]) < 2) =>
         Len(history[k][s]) - 1 \in DOMAIN history[k][s]
  BY <1>2
<1> QED
  BY <1>3, <1>4, <1>5, NoEntryBuilt DEF Latest, Previous

LEMMA HistoryTyped ==
    ASSUME TypeOK, NEW k \in Kinds, NEW s \in Stations,
           NEW i \in DOMAIN history[k][s]
    PROVE  /\ history[k][s] \in Seq(Entry)
           /\ DOMAIN history[k][s] = 1..Len(history[k][s])
           /\ history[k][s][i] \in Entry /\ history[k][s][i].build \in Nat
<1>1. history[k][s] \in Seq(Entry)
  BY DEF TypeOK
<1>2. history[k][s][i] \in Entry
  BY <1>1
<1>3. history[k][s][i].build \in 0..MaxBuilds
  BY <1>2 DEF Entry
<1> QED
  BY <1>1, <1>2, <1>3, ConstantsAreNat

\* The CH1 thread while a station's turn has not come or is over.
LEMMA Ch1Rests ==
    ASSUME BuildsOrdered, UNCHANGED history, TypeOK, TypeOK',
           builds' >= builds,
           builder'["icon-ch1"].build = builder["icon-ch1"].build
           \/ builder'["icon-ch1"].build = 0,
           \A s \in Stations : builder'["icon-ch1"].at = {s} =>
                                s \notin builder'["icon-ch1"].todo,
           \A k \in Kinds, s \in Stations : Pending(k, s)' =>
               /\ Pending(k, s)
               /\ builder'["icon-ch1"].build = builder["icon-ch1"].build
    PROVE  BuildsOrdered'
<1>1. builds \in Nat /\ builds' \in Nat
      /\ builder["icon-ch1"].build <= builds
      /\ builder["icon-ch1"].build \in Nat
  BY ConstantsAreNat DEF TypeOK, BuildsOrdered, Builder, Models
<1>2. builder'["icon-ch1"].build <= builds'
  BY <1>1
<1>3. ASSUME NEW k \in Kinds, NEW s \in Stations, NEW i \in DOMAIN history[k][s]
      PROVE  history[k][s][i].build <= builds'
  <2>1. history[k][s][i].build \in Nat
    BY HistoryTyped
  <2>2. history[k][s][i].build <= builds
    BY DEF BuildsOrdered
  <2> QED
    BY <1>1, <2>1, <2>2
<1> QED
  BY <1>2, <1>3 DEF BuildsOrdered

LEMMA BuilderFields ==
    ASSUME TypeOK, NEW m \in Models
    PROVE  /\ builder[m] \in BuilderOf(Inits) /\ builder[m].build \in Nat
           /\ builder[m].kind \in Kinds /\ builds \in Nat
           /\ builder[m].todo \subseteq Stations
<1>1. builder[m] \in BuilderOf(Inits)
  BY BuilderIs DEF TypeOK
<1> QED
  BY <1>1, ConstantsAreNat DEF BuilderOf, TypeOK

\* AfterStore, field by field.
LEMMA AfterStoreIs ==
    ASSUME TypeOK, builder' = AfterStore("icon-ch1")
    PROVE  LET b == builder["icon-ch1"]
               c == builder'["icon-ch1"] IN
           /\ c.build = b.build /\ c.todo = b.todo
           /\ \/ /\ b.kind = "station" /\ c.phase = "stash"
                 /\ c.kind = "altitude" /\ c.at = b.at
              \/ b.kind = "altitude" /\ c.phase = "next" /\ c.at = {}
<1> DEFINE b == builder["icon-ch1"]
           r1 == [b EXCEPT !.phase = FirstPhase("icon-ch1"), !.kind = "altitude"]
           r2 == [b EXCEPT !.phase = "next", !.at = {}]
<1>1. b \in BuilderOf(Inits) /\ b.kind \in Kinds
  BY BuilderFields DEF Models
<1>2. /\ r1.build = b.build /\ r1.todo = b.todo /\ r1.phase = "stash"
      /\ r1.kind = "altitude" /\ r1.at = b.at
      /\ r2.build = b.build /\ r2.todo = b.todo /\ r2.phase = "next"
      /\ r2.at = {}
  BY <1>1 DEF BuilderOf, FirstPhase
<1>3. builder' = [builder EXCEPT !["icon-ch1"] =
                     IF b.kind = "station" THEN r1 ELSE r2]
  BY DEF AfterStore, TypeOK, Models
<1>4. builder'["icon-ch1"] = IF b.kind = "station" THEN r1 ELSE r2
  BY <1>3 DEF TypeOK, Models
<1> HIDE DEF r1, r2
<1> QED
  BY <1>1, <1>2, <1>4 DEF Kinds

\* The loop over the stations moves one builder only.
LEMMA NextStationMoves ==
    ASSUME NEW m \in Models, NextStation(m)
    PROVE  \E r : builder' = [builder EXCEPT ![m] = r]
<1>1. CASE builder[m].todo = {}
  <2> DEFINE r == [IdleBuilder EXCEPT !.init = builder[m].init]
  <2>1. builder' = [builder EXCEPT ![m] = r]
    BY <1>1 DEF NextStation
  <2> HIDE DEF r
  <2> QED
    BY <2>1
<1>2. CASE builder[m].todo # {}
  <2>1. PICK s \in builder[m].todo :
           builder' = [builder EXCEPT ![m] =
               [@ EXCEPT !.phase = FirstPhase(m), !.at = {s},
                         !.todo = builder[m].todo \ {s}, !.kind = "station"]]
    BY <1>2 DEF NextStation
  <2> DEFINE r == [builder[m] EXCEPT !.phase = FirstPhase(m), !.at = {s},
                         !.todo = builder[m].todo \ {s}, !.kind = "station"]
  <2>2. builder' = [builder EXCEPT ![m] = r]
    BY <2>1
  <2> HIDE DEF r
  <2> QED
    BY <2>2
<1> QED
  BY <1>1, <1>2

LEMMA NextBuilds ==
    ASSUME AnswerInv, [Next]_vars, TypeOK'
    PROVE  BuildsOrdered'
<1> DEFINE b == builder["icon-ch1"]
<1>0. /\ TypeOK /\ BuildsOrdered /\ "icon-ch1" \in Models
      /\ b \in BuilderOf(Inits) /\ b.build \in Nat /\ b.kind \in Kinds
      /\ builds \in Nat /\ b.todo \subseteq Stations
  BY BuilderFields DEF AnswerInv, PairInv, Models
\* The CH1 thread does nothing.
<1>U. ASSUME UNCHANGED <<history, builds>>, b' = b PROVE BuildsOrdered'
  BY <1>0, <1>U DEF BuildsOrdered, Pending
<1>1. ASSUME NEW m \in Models, StartBuild(m) PROVE BuildsOrdered'
  <2>1. PICK s \in RefSlots(m), lost \in LostSets, list \in (SUBSET Stations) \ {{}} :
           builder' = [builder EXCEPT ![m] =
                 [IdleBuilder EXCEPT !.phase = "next", !.build = builds + 1,
                    !.init = s * RunStep, !.lost = lost, !.todo = list]]
    BY <1>1, Zenon DEF StartBuild
  <2>2. builds' = builds + 1 /\ UNCHANGED history
    BY <1>1, Zenon DEF StartBuild
  <2>3. CASE m # "icon-ch1"
    <3>1. b' = b
      BY <1>0, <2>1, <2>3 DEF TypeOK
    <3> QED
      BY <1>0, <2>2, <3>1, Ch1Rests DEF BuildsOrdered, Pending
  <2>4. CASE m = "icon-ch1"
    <3> DEFINE r == [IdleBuilder EXCEPT !.phase = "next", !.build = builds + 1,
                    !.init = s * RunStep, !.lost = lost, !.todo = list]
    <3>1. r.build = builds + 1 /\ r.at = {}
      BY DEF IdleBuilder
    <3>2. b' = r
      BY <1>0, <2>1, <2>4 DEF TypeOK
    <3> HIDE DEF r
    <3>3. \A k \in Kinds, s1 \in Stations : \A i \in DOMAIN history[k][s1] :
             /\ history[k][s1][i].build \in Nat
             /\ history[k][s1][i].build <= builds
      BY <1>0, HistoryTyped DEF BuildsOrdered
    <3>4. \A k \in Kinds, s1 \in Stations : \A i \in DOMAIN history[k][s1] :
             /\ history[k][s1][i].build <= builds + 1
             /\ history[k][s1][i].build < builds + 1
      BY <1>0, <3>3
    <3>5. \A k \in Kinds, s1 \in Stations : \A i, j \in DOMAIN history[k][s1] :
             i < j => history[k][s1][i].build < history[k][s1][j].build
      BY <1>0 DEF BuildsOrdered
    <3> QED
      BY <1>0, <2>2, <3>1, <3>2, <3>4, <3>5 DEF BuildsOrdered
  <2> QED
    BY <2>3, <2>4
<1>2. ASSUME NEW m \in Models, NextStation(m) PROVE BuildsOrdered'
  <2>1. UNCHANGED <<history, builds>> /\ builder[m].phase = "next"
    BY <1>2, Zenon DEF NextStation
  <2>2. CASE m # "icon-ch1"
    <3>1. \E r : builder' = [builder EXCEPT ![m] = r]
      BY <1>2, NextStationMoves
    <3>2. b' = b
      BY <1>0, <2>2, <3>1 DEF TypeOK
    <3> QED
      BY <1>U, <2>1, <3>2
  <2>3. CASE m = "icon-ch1" /\ builder[m].todo = {}
    <3>1. builder' = [builder EXCEPT !["icon-ch1"] =
                           [IdleBuilder EXCEPT !.init = b.init]]
      BY <1>2, <2>3 DEF NextStation
    <3>2. b' = [IdleBuilder EXCEPT !.init = b.init]
      BY <1>0, <3>1 DEF TypeOK
    <3>3. b'.build = 0 /\ b'.at = {} /\ b'.todo = {} /\ b'.phase = "idle"
      BY <3>2 DEF IdleBuilder
    <3> QED
      BY <1>0, <2>1, <3>3, Ch1Rests DEF Pending
  <2>4. CASE m = "icon-ch1" /\ builder[m].todo # {}
    <3>1. PICK s \in b.todo :
               builder' = [builder EXCEPT !["icon-ch1"] =
                  [@ EXCEPT !.phase = FirstPhase("icon-ch1"), !.at = {s},
                            !.todo = b.todo \ {s}, !.kind = "station"]]
      BY <1>2, <2>4 DEF NextStation
    <3> DEFINE r == [b EXCEPT !.phase = FirstPhase("icon-ch1"), !.at = {s},
                            !.todo = b.todo \ {s}, !.kind = "station"]
    <3>2. b' = r
      BY <1>0, <3>1 DEF TypeOK
    <3>3. /\ r.build = b.build /\ r.at = {s} /\ r.todo = b.todo \ {s}
      BY <1>0 DEF BuilderOf
    <3> HIDE DEF r
    <3>4. \A k \in Kinds, s1 \in Stations : Pending(k, s1)' => Pending(k, s1)
      BY <3>2, <3>3 DEF Pending
    <3>5. \A s1 \in Stations : b'.at = {s1} => s1 \notin b'.todo
      BY <3>2, <3>3
    <3> QED
      BY <1>0, <2>1, <3>2, <3>3, <3>4, <3>5, Ch1Rests
  <2> QED
    BY <2>2, <2>3, <2>4
<1>3. ASSUME NEW t \in Stations, StashPrevious(t) PROVE BuildsOrdered'
  <2>1. /\ b.phase = "stash"
        /\ builder' = [builder EXCEPT !["icon-ch1"].phase = "store"]
        /\ UNCHANGED <<history, builds>>
    BY <1>3, Zenon DEF StashPrevious
  <2>2. /\ b'.phase = "store" /\ b'.at = b.at /\ b'.kind = b.kind
        /\ b'.todo = b.todo /\ b'.build = b.build
    BY <1>0, <2>1 DEF TypeOK, BuilderOf
  <2> QED
    BY <1>0, <2>1, <2>2 DEF BuildsOrdered, Pending
<1>4. ASSUME NEW t \in Stations, StoreCh1(t) PROVE BuildsOrdered'
  <2> DEFINE e == NewEntry(b.kind, "icon-ch1", b)
  <2>1. /\ b.phase = "store" /\ b.at = {t}
        /\ history' = [history EXCEPT ![b.kind][t] = Append(@, e)]
        /\ builder' = AfterStore("icon-ch1")
        /\ UNCHANGED builds
    BY <1>4, Zenon DEF StoreCh1
  <2>2. /\ b'.build = b.build /\ b'.todo = b.todo
        /\ \/ /\ b.kind = "station" /\ b'.phase = "stash"
              /\ b'.kind = "altitude" /\ b'.at = b.at
           \/ b.kind = "altitude" /\ b'.phase = "next" /\ b'.at = {}
    BY <1>0, <2>1, AfterStoreIs
  <2>3. e.build = b.build
    BY <1>0, NewEntryBuilt
  <2> HIDE DEF e
  <2>4. t \notin b.todo
    BY <1>0, <2>1 DEF BuildsOrdered
  <2>5. \A s \in Stations : b'.at = {s} => s \notin b'.todo
    BY <2>1, <2>2, <2>4
  <2>6. \A k \in Kinds, s \in Stations :
           Pending(k, s)' => Pending(k, s) /\ ~(k = b.kind /\ s = t)
    BY <2>1, <2>2, <2>4 DEF Pending
  <2>7. ASSUME NEW k \in Kinds, NEW s \in Stations
        PROVE  LET h == history'[k][s] IN
               /\ \A i, j \in DOMAIN h : i < j => h[i].build < h[j].build
               /\ \A i \in DOMAIN h :
                   /\ h[i].build <= builds
                   /\ Pending(k, s)' => h[i].build < b.build
    <3> DEFINE g == history[k][s]
    <3>0. /\ \A i, j \in DOMAIN g : i < j => g[i].build < g[j].build
          /\ \A i \in DOMAIN g :
                /\ g[i].build <= builds
                /\ Pending(k, s) => g[i].build < b.build
      BY <1>0 DEF BuildsOrdered
    <3>1. CASE k = b.kind /\ s = t
      <4>1. history'[k][s] = Append(g, e)
        BY <1>0, <2>1, <3>1 DEF TypeOK
      <4>2. Pending(k, s) /\ ~Pending(k, s)'
        BY <2>1, <2>6, <3>1 DEF Pending
      <4>3. b.build <= builds
        BY <1>0 DEF BuildsOrdered
      <4>4. g \in Seq(Entry)
        BY <1>0 DEF TypeOK
      <4> HIDE DEF g
      <4>5. /\ Len(g) \in Nat /\ DOMAIN Append(g, e) = 1..(Len(g) + 1)
            /\ DOMAIN g = 1..Len(g) /\ Append(g, e)[Len(g) + 1] = e
            /\ \A i \in 1..Len(g) : Append(g, e)[i] = g[i]
        BY <4>4
      <4> DEFINE h == Append(g, e)
      <4>6. DOMAIN h = 1..(Len(g) + 1) /\ h[Len(g) + 1] = e
            /\ \A i \in 1..Len(g) : h[i] = g[i]
        BY <4>5
      <4> HIDE DEF h
      <4>7. \A i \in DOMAIN h : i \in DOMAIN g \/ i = Len(g) + 1
        BY <4>5, <4>6
      <4>8. \A i \in DOMAIN h : h[i].build <= builds
        BY <2>3, <3>0, <4>3, <4>5, <4>6, <4>7
      <4>9. ASSUME NEW i \in DOMAIN h, NEW j \in DOMAIN h, i < j
            PROVE  h[i].build < h[j].build
        <5>1. i \in DOMAIN g
          BY <4>5, <4>6, <4>9
        <5>2. CASE j = Len(g) + 1
          BY <2>3, <3>0, <4>2, <4>5, <4>6, <5>1, <5>2
        <5>3. CASE j \in DOMAIN g
          BY <3>0, <4>5, <4>6, <4>9, <5>1, <5>3
        <5> QED
          BY <4>7, <5>2, <5>3
      <4> QED
        BY <4>1, <4>2, <4>8, <4>9 DEF h
    <3>2. CASE ~(k = b.kind /\ s = t)
      <4>1. history'[k][s] = g
        BY <1>0, <2>1, <3>2 DEF TypeOK
      <4> QED
        BY <2>6, <3>0, <4>1
    <3> QED
      BY <3>1, <3>2
  <2> QED
    BY <1>0, <2>1, <2>2, <2>5, <2>7 DEF BuildsOrdered
<1>5. ASSUME NEW s \in Stations, StoreCh2(s) PROVE BuildsOrdered'
  <2>1. UNCHANGED <<history, builds>> /\ builder' = AfterStore("icon-ch2")
    BY <1>5, Zenon DEF StoreCh2
  <2>2. b' = b
    BY <1>0, <2>1, AfterStoreTyped DEF TypeOK, Models
  <2> QED
    BY <1>U, <2>1, <2>2
<1>6. CASE NextSlot
  BY <1>U, <1>6 DEF NextSlot
<1>7. CASE Restart
  <2>1. /\ ch1' = ch1 \/ ch1' = Empty
        /\ history' = [k \in Kinds |-> [s \in Stations |->
               IF ch1'[k][s] = NoEntry THEN <<>> ELSE <<ch1'[k][s]>>]]
        /\ builder' = [m \in Models |-> [IdleBuilder EXCEPT !.init = builder[m].init]]
        /\ UNCHANGED builds
    BY <1>7 DEF Restart
  <2>2. b'.build = 0 /\ b'.at = {} /\ b'.todo = {} /\ b'.phase = "idle"
    BY <1>0, <2>1 DEF IdleBuilder
  <2>3. ASSUME NEW k \in Kinds, NEW s \in Stations
        PROVE  /\ ch1'[k][s].build <= builds
               /\ Len(history'[k][s]) <= 1
               /\ \A i \in DOMAIN history'[k][s] :
                     i = 1 /\ history'[k][s][i] = ch1'[k][s]
    <3>1. ch1[k][s] = NoEntry
          \/ \E i \in DOMAIN history[k][s] : ch1[k][s] = history[k][s][i]
      <4>1. ch1[k][s] = Latest(history[k][s]) /\ history[k][s] \in Seq(Entry)
        BY DEF AnswerInv, PairInv, PrevIsPredecessor, TypeOK
      <4> QED
        BY <4>1 DEF Latest
    <3>2. NoEntry.build <= builds
      BY <1>0 DEF NoEntry
    <3>3. ch1[k][s].build <= builds
      BY <1>0, <3>1, <3>2 DEF BuildsOrdered
    <3>4. ch1'[k][s].build <= builds
      BY <2>1, <3>2, <3>3 DEF Empty
    <3>5. history'[k][s] = IF ch1'[k][s] = NoEntry THEN <<>> ELSE <<ch1'[k][s]>>
      BY <2>1
    <3>6. CASE ch1'[k][s] = NoEntry
      BY <3>4, <3>5, <3>6
    <3>7. CASE ch1'[k][s] # NoEntry
      BY <3>4, <3>5, <3>7
    <3> QED
      BY <3>6, <3>7
  <2>4. \A k \in Kinds, s \in Stations : ~Pending(k, s)'
    BY <2>2 DEF Pending
  <2>5. ASSUME NEW k \in Kinds, NEW s \in Stations
        PROVE  LET h == history'[k][s] IN
               /\ \A i, j \in DOMAIN h : ~(i < j)
               /\ \A i \in DOMAIN h : h[i].build <= builds
    <3>1. \A i \in DOMAIN history'[k][s] :
             i = 1 /\ history'[k][s][i].build <= builds
      BY <2>3
    <3> QED
      BY <3>1
  <2> QED
    BY <1>0, <2>1, <2>2, <2>4, <2>5 DEF BuildsOrdered
<1>8. ASSUME NEW k \in Kinds, NEW s \in Stations, NEW n \in 1..LastHorizon,
             ReadCh1(k, s, n)
      PROVE  BuildsOrdered'
  BY <1>U, <1>8 DEF ReadCh1
<1>9. ASSUME NEW s \in Stations, ReadCh2(s) PROVE BuildsOrdered'
  BY <1>U, <1>9 DEF ReadCh2
<1>10. ASSUME NEW s \in Stations, ReadPrev(s) PROVE BuildsOrdered'
  <2>1. UNCHANGED <<history, builds, builder>>
    BY <1>10, Zenon DEF ReadPrev
  <2> QED
    BY <1>U, <2>1
<1>11. ASSUME NEW s \in Stations, CheckWarm(s) PROVE BuildsOrdered'
  BY <1>U, <1>11 DEF CheckWarm
<1>12. CASE UNCHANGED vars
  BY <1>U, <1>12 DEF vars
<1> QED
  BY <1>1, <1>2, <1>3, <1>4, <1>5, <1>6, <1>7, <1>8, <1>9, <1>10, <1>11, <1>12
     DEF Next

LEMMA NextBuilt ==
    ASSUME AnswerInv, [Next]_vars, TypeOK'
    PROVE  EntriesBuilt'
<1> DEFINE b == builder["icon-ch1"]
<1>0. /\ TypeOK /\ EntriesBuilt /\ PrevIsPredecessor
      /\ "icon-ch1" \in Models /\ "icon-ch2" \in Models
  BY DEF AnswerInv, PairInv, Models
<1>U. ASSUME UNCHANGED <<history, ch2>> PROVE EntriesBuilt'
  BY <1>0, <1>U DEF EntriesBuilt
<1>1. ASSUME NEW t \in Stations, StoreCh1(t) PROVE EntriesBuilt'
  <2> DEFINE e == NewEntry(b.kind, "icon-ch1", b)
  <2>1. /\ history' = [history EXCEPT ![b.kind][t] = Append(@, e)]
        /\ UNCHANGED ch2
    BY <1>1, Zenon DEF StoreCh1
  <2>2. b.kind \in Kinds /\ Built(b.kind, e)
    BY <1>0, BuilderFields, NewEntryBuilt
  <2> HIDE DEF e
  <2>3. ASSUME NEW k \in Kinds, NEW s \in Stations, NEW i \in DOMAIN history'[k][s]
        PROVE  Built(k, history'[k][s][i])
    <3>1. \A j \in DOMAIN history[k][s] : Built(k, history[k][s][j])
      BY <1>0 DEF EntriesBuilt
    <3>2. CASE k = b.kind /\ s = t
      <4>1. history'[k][s] = Append(history[k][s], e)
            /\ history[k][s] \in Seq(Entry)
        BY <1>0, <2>1, <3>2 DEF TypeOK
      <4>2. \/ i \in DOMAIN history[k][s] /\ history'[k][s][i] = history[k][s][i]
            \/ history'[k][s][i] = e
        BY <2>3, <4>1
      <4> QED
        BY <2>2, <3>1, <3>2, <4>2
    <3>3. CASE ~(k = b.kind /\ s = t)
      <4>1. history'[k][s] = history[k][s]
        BY <1>0, <2>1, <3>3 DEF TypeOK
      <4> QED
        BY <2>3, <3>1, <4>1
    <3> QED
      BY <3>2, <3>3
  <2> QED
    BY <1>0, <2>1, <2>3 DEF EntriesBuilt
<1>2. ASSUME NEW t \in Stations, StoreCh2(t) PROVE EntriesBuilt'
  <2> DEFINE c == builder["icon-ch2"]
             e == NewEntry(c.kind, "icon-ch2", c)
  <2>1. ch2' = [ch2 EXCEPT ![c.kind][t] = e] /\ UNCHANGED history
    BY <1>2, Zenon DEF StoreCh2
  <2>2. c.kind \in Kinds /\ Built(c.kind, e)
    BY <1>0, BuilderFields, NewEntryBuilt
  <2> HIDE DEF e
  <2>3. ASSUME NEW k \in Kinds, NEW s \in Stations
        PROVE  Built(k, ch2'[k][s])
    <3>1. Built(k, ch2[k][s])
      BY <1>0 DEF EntriesBuilt
    <3>2. CASE k = c.kind /\ s = t
      BY <1>0, <2>1, <2>2, <3>2 DEF TypeOK
    <3>3. CASE ~(k = c.kind /\ s = t)
      <4>1. ch2'[k][s] = ch2[k][s]
        BY <1>0, <2>1, <3>3 DEF TypeOK
      <4> QED
        BY <3>1, <4>1
    <3> QED
      BY <3>2, <3>3
  <2> QED
    BY <1>0, <2>1, <2>3 DEF EntriesBuilt
<1>3. CASE Restart
  <2>1. /\ ch1' = ch1 \/ ch1' = Empty
        /\ ch2' = ch2 \/ ch2' = Empty
        /\ history' = [k \in Kinds |-> [s \in Stations |->
               IF ch1'[k][s] = NoEntry THEN <<>> ELSE <<ch1'[k][s]>>]]
    BY <1>3 DEF Restart
  <2>2. ASSUME NEW k \in Kinds, NEW s \in Stations
        PROVE  /\ Built(k, ch2'[k][s])
               /\ \A i \in DOMAIN history'[k][s] : Built(k, history'[k][s][i])
    <3>1. Built(k, ch1[k][s]) /\ Built(k, ch2[k][s]) /\ Built(k, NoEntry)
      BY <1>0, LatestBuilt, NoEntryBuilt DEF EntriesBuilt, PrevIsPredecessor
    <3>2. Built(k, ch1'[k][s]) /\ Built(k, ch2'[k][s])
      BY <2>1, <3>1 DEF Empty
    <3>3. history'[k][s] = <<>> \/ history'[k][s] = <<ch1'[k][s]>>
      BY <2>1
    <3> QED
      BY <3>2, <3>3
  <2> QED
    BY <2>2 DEF EntriesBuilt
<1>4. \A m \in Models : StartBuild(m) \/ NextStation(m) =>
         UNCHANGED <<history, ch2>>
  BY DEF StartBuild, NextStation
<1>5. \A s \in Stations : StashPrevious(s) \/ ReadCh2(s) \/ CheckWarm(s) =>
         UNCHANGED <<history, ch2>>
  BY DEF StashPrevious, ReadCh2, CheckWarm
<1>6. \A s \in Stations : ReadPrev(s) => UNCHANGED <<history, ch2>>
  BY DEF ReadPrev
<1>7. \A k \in Kinds, s \in Stations, n \in 1..LastHorizon :
         ReadCh1(k, s, n) => UNCHANGED <<history, ch2>>
  BY DEF ReadCh1
<1>8. NextSlot \/ UNCHANGED vars => UNCHANGED <<history, ch2>>
  BY DEF NextSlot, vars
<1> QED
  BY <1>U, <1>1, <1>2, <1>3, <1>4, <1>5, <1>6, <1>7, <1>8 DEF Next

LEMMA NextFresh ==
    ASSUME AnswerInv, [Next]_vars, TypeOK'
    PROVE  RequestFresh'
<1> DEFINE b == builder["icon-ch1"]
<1>0. /\ TypeOK /\ EntriesBuilt /\ PrevIsPredecessor /\ RequestFresh
      /\ "icon-ch1" \in Models /\ reader \in Reader
      /\ b \in BuilderOf(Inits) /\ b.kind \in Kinds
  BY BuilderFields DEF AnswerInv, PairInv, Models, TypeOK, Reader
<1>I. ASSUME reader'.phase \notin {"ch2", "prev"} PROVE RequestFresh'
  BY <1>I DEF RequestFresh
\* The request waits, and no setter is entered.
<1>U. ASSUME UNCHANGED <<history, reader>>,
             \A k \in Kinds, s \in Stations : MidSet(k, s)' => MidSet(k, s)
      PROVE  RequestFresh'
  BY <1>0, <1>U DEF RequestFresh
<1>S. ASSUME UNCHANGED <<history, reader>>, b'.phase = b.phase \/ b'.phase # "store",
             b'.phase = b.phase => b'.kind = b.kind /\ b'.at = b.at
      PROVE  RequestFresh'
  <2>1. \A k \in Kinds, s \in Stations : MidSet(k, s)' => MidSet(k, s)
    BY <1>S DEF MidSet
  <2> QED
    BY <1>U, <1>S, <2>1
<1>1. ASSUME NEW m \in Models, StartBuild(m) PROVE RequestFresh'
  <2>1. PICK r : builder' = [builder EXCEPT ![m] = r] /\ r.phase = "next"
    <3>1. PICK s \in RefSlots(m), lost \in LostSets, list \in (SUBSET Stations) \ {{}} :
           builder' = [builder EXCEPT ![m] =
                 [IdleBuilder EXCEPT !.phase = "next", !.build = builds + 1,
                    !.init = s * RunStep, !.lost = lost, !.todo = list]]
      BY <1>1, Zenon DEF StartBuild
    <3> DEFINE r == [IdleBuilder EXCEPT !.phase = "next", !.build = builds + 1,
                    !.init = s * RunStep, !.lost = lost, !.todo = list]
    <3>2. r.phase = "next"
      BY DEF IdleBuilder
    <3> HIDE DEF r
    <3> QED
      BY <3>1, <3>2 DEF r
  <2>2. UNCHANGED <<history, reader>> /\ builder[m].phase = "idle"
    BY <1>1, Zenon DEF StartBuild
  <2>3. CASE m = "icon-ch1"
    <3>1. b'.phase = "next" /\ b.phase = "idle"
      BY <1>0, <2>1, <2>2, <2>3 DEF TypeOK
    <3> QED
      BY <1>S, <2>2, <3>1
  <2>4. CASE m # "icon-ch1"
    <3>1. b' = b
      BY <1>0, <2>1, <2>4 DEF TypeOK
    <3> QED
      BY <1>S, <2>2, <3>1
  <2> QED
    BY <2>3, <2>4
<1>2. ASSUME NEW m \in Models, NextStation(m) PROVE RequestFresh'
  <2>1. UNCHANGED <<history, reader>> /\ builder[m].phase = "next"
    BY <1>2, Zenon DEF NextStation
  <2>2. CASE m # "icon-ch1"
    <3>1. \E r : builder' = [builder EXCEPT ![m] = r]
      BY <1>2, NextStationMoves
    <3>2. b' = b
      BY <1>0, <2>2, <3>1 DEF TypeOK
    <3> QED
      BY <1>S, <2>1, <3>2
  <2>3. CASE m = "icon-ch1" /\ builder[m].todo = {}
    <3>1. b' = [IdleBuilder EXCEPT !.init = b.init]
      BY <1>0, <1>2, <2>3 DEF NextStation, TypeOK
    <3>2. b'.phase = "idle"
      BY <3>1 DEF IdleBuilder
    <3> QED
      BY <1>S, <2>1, <2>3, <3>2
  <2>4. CASE m = "icon-ch1" /\ builder[m].todo # {}
    <3>1. PICK s \in b.todo :
               builder' = [builder EXCEPT !["icon-ch1"] =
                  [@ EXCEPT !.phase = FirstPhase("icon-ch1"), !.at = {s},
                            !.todo = b.todo \ {s}, !.kind = "station"]]
      BY <1>2, <2>4 DEF NextStation
    <3>2. b' = [b EXCEPT !.phase = FirstPhase("icon-ch1"), !.at = {s},
                            !.todo = b.todo \ {s}, !.kind = "station"]
      BY <1>0, <3>1 DEF TypeOK
    <3>3. b'.phase = "stash"
      BY <1>0, <3>2 DEF BuilderOf, FirstPhase
    <3> QED
      BY <1>S, <2>1, <2>4, <3>3
  <2> QED
    BY <2>2, <2>3, <2>4
<1>3. ASSUME NEW t \in Stations, StashPrevious(t) PROVE RequestFresh'
  <2>1. /\ builder' = [builder EXCEPT !["icon-ch1"].phase = "store"]
        /\ UNCHANGED history /\ b.at = {t} /\ Disturb(b.kind, t)
    BY <1>3, Zenon DEF StashPrevious
  <2>2. b'.at = {t} /\ b'.kind = b.kind
    BY <1>0, <2>1 DEF TypeOK, BuilderOf
  <2>3. /\ reader'.phase = reader.phase /\ reader'.kind = reader.kind
        /\ reader'.station = reader.station /\ reader'.e1 = reader.e1
        /\ reader'.e2 = reader.e2
        /\ reader'.quiet => /\ reader.quiet
                            /\ ~(reader.kind = b.kind /\ reader.station = {t})
    BY <1>0, <2>1 DEF Disturb, Reader
  <2>4. \A k \in Kinds, s \in Stations :
           MidSet(k, s)' => k = b.kind /\ s = t
    BY <2>2 DEF MidSet
  <2> QED
    BY <1>0, <2>1, <2>3, <2>4 DEF RequestFresh
<1>4. ASSUME NEW t \in Stations, StoreCh1(t) PROVE RequestFresh'
  <2> DEFINE e == NewEntry(b.kind, "icon-ch1", b)
  <2>1. /\ history' = [history EXCEPT ![b.kind][t] = Append(@, e)]
        /\ builder' = AfterStore("icon-ch1") /\ Disturb(b.kind, t)
    BY <1>4, Zenon DEF StoreCh1
  <2> HIDE DEF e
  <2>2. b'.phase # "store"
    BY <1>0, <2>1, AfterStoreIs
  <2>3. /\ reader'.phase = reader.phase /\ reader'.kind = reader.kind
        /\ reader'.station = reader.station /\ reader'.e1 = reader.e1
        /\ reader'.e2 = reader.e2
        /\ reader'.quiet => /\ reader.quiet
                            /\ ~(reader.kind = b.kind /\ reader.station = {t})
    BY <1>0, <2>1 DEF Disturb, Reader
  <2>4. ASSUME NEW k \in Kinds, NEW s \in Stations,
               reader.phase \in {"ch2", "prev"},
               reader.kind = k, reader.station = {s}
        PROVE  LET h == history'[k][s] IN
               /\ reader.e1 = NoEntry \/ \E p \in DOMAIN h : h[p] = reader.e1
               /\ reader'.quiet => reader.e1 = Latest(h)
               /\ reader.phase = "prev" => Built(k, reader.e2)
    <3> DEFINE g == history[k][s]
    <3>1. /\ reader.e1 = NoEntry \/ \E p \in DOMAIN g : g[p] = reader.e1
          /\ reader.quiet => reader.e1 = Latest(g)
          /\ reader.phase = "prev" => Built(k, reader.e2)
      BY <1>0, <2>4 DEF RequestFresh
    <3>2. CASE k = b.kind /\ s = t
      <4>1. history'[k][s] = Append(g, e) /\ g \in Seq(Entry)
        BY <1>0, <2>1, <3>2 DEF TypeOK
      <4>2. \A p \in DOMAIN g : p \in DOMAIN history'[k][s]
                                 /\ history'[k][s][p] = g[p]
        BY <4>1
      <4>3. ~reader'.quiet
        BY <2>3, <2>4, <3>2
      <4> HIDE DEF g
      <4> QED
        BY <3>1, <4>2, <4>3
    <3>3. CASE ~(k = b.kind /\ s = t)
      <4>1. history'[k][s] = g
        BY <1>0, <2>1, <3>3 DEF TypeOK
      <4> QED
        BY <2>3, <3>1, <4>1
    <3> QED
      BY <3>2, <3>3
  <2>5. \A k \in Kinds, s \in Stations : ~MidSet(k, s)'
    BY <2>2 DEF MidSet
  <2> QED
    BY <2>3, <2>4, <2>5 DEF RequestFresh
<1>5. ASSUME NEW s \in Stations, StoreCh2(s) PROVE RequestFresh'
  <2>1. UNCHANGED <<history, reader>> /\ builder' = AfterStore("icon-ch2")
    BY <1>5, Zenon DEF StoreCh2
  <2>2. b' = b
    BY <1>0, <2>1, AfterStoreTyped DEF TypeOK, Models
  <2> QED
    BY <1>S, <2>1, <2>2
<1>6. CASE NextSlot
  BY <1>S, <1>6 DEF NextSlot
<1>7. CASE Restart
  <2>1. reader' = IdleReader
    BY <1>7 DEF Restart
  <2> QED
    BY <1>I, <2>1 DEF IdleReader
<1>8. ASSUME NEW k \in Kinds, NEW s \in Stations, NEW n \in 1..LastHorizon,
             ReadCh1(k, s, n)
      PROVE  RequestFresh'
  <2>1. /\ reader'.phase = "ch2" /\ reader'.kind = k /\ reader'.station = {s}
        /\ reader'.e1 = ch1[k][s] /\ reader'.quiet = ~MidSet(k, s)
        /\ UNCHANGED <<history, builder>>
    BY <1>8 DEF ReadCh1
  <2>2. ch1[k][s] = Latest(history[k][s]) /\ history[k][s] \in Seq(Entry)
    BY <1>0 DEF PrevIsPredecessor, TypeOK
  <2>3. ch1[k][s] = NoEntry
        \/ \E p \in DOMAIN history[k][s] : history[k][s][p] = ch1[k][s]
    BY <2>2 DEF Latest
  <2>4. \A k1 \in Kinds, s1 \in Stations : MidSet(k1, s1)' <=> MidSet(k1, s1)
    BY <2>1 DEF MidSet
  <2>5. \A k1 \in Kinds, s1 \in Stations :
           reader'.kind = k1 /\ reader'.station = {s1} => k1 = k /\ s1 = s
    BY <2>1
  <2> QED
    BY <2>1, <2>2, <2>3, <2>4, <2>5 DEF RequestFresh
<1>9. ASSUME NEW s \in Stations, ReadCh2(s) PROVE RequestFresh'
  <2>1. /\ reader.phase = "ch2" /\ reader.station = {s}
        /\ reader' = [reader EXCEPT !.phase = "prev", !.e2 = ch2[reader.kind][s]]
        /\ UNCHANGED <<history, builder>>
    BY <1>9 DEF ReadCh2
  <2>2. /\ reader'.kind = reader.kind /\ reader'.station = reader.station
        /\ reader'.e1 = reader.e1 /\ reader'.quiet = reader.quiet
        /\ reader'.e2 = ch2[reader.kind][s] /\ reader.kind \in Kinds
    BY <1>0, <2>1 DEF Reader
  <2>3. Built(reader.kind, reader'.e2)
    BY <1>0, <2>2 DEF EntriesBuilt
  <2>4. \A k1 \in Kinds, s1 \in Stations : MidSet(k1, s1)' <=> MidSet(k1, s1)
    BY <2>1 DEF MidSet
  <2> QED
    BY <1>0, <2>1, <2>2, <2>3, <2>4 DEF RequestFresh
<1>10. ASSUME NEW s \in Stations, ReadPrev(s) PROVE RequestFresh'
  <2>1. reader'.phase \in {"warm", "idle"}
    <3>1. reader' = [reader EXCEPT !.phase = "warm"] \/ reader' = IdleReader
      BY <1>10 DEF ReadPrev
    <3> QED
      BY <1>0, <3>1 DEF Reader, IdleReader
  <2> QED
    BY <1>I, <2>1
<1>11. ASSUME NEW s \in Stations, CheckWarm(s) PROVE RequestFresh'
  BY <1>I, <1>11 DEF CheckWarm, IdleReader
<1>12. CASE UNCHANGED vars
  BY <1>S, <1>12 DEF vars
<1> QED
  BY <1>1, <1>2, <1>3, <1>4, <1>5, <1>6, <1>7, <1>8, <1>9, <1>10, <1>11, <1>12
     DEF Next

-----------------------------------------------------------------------------
(* The answers *)

\* Builds in increasing order are different.
LEMMA AtIs ==
    ASSUME AnswerInv, NEW k \in Kinds, NEW s \in Stations,
           NEW p \in DOMAIN history[k][s]
    PROVE  At(history[k][s], history[k][s][p]) = p
<1> DEFINE h == history[k][s]
<1>1. TypeOK /\ BuildsOrdered
  BY DEF AnswerInv, PairInv
<1>2. /\ DOMAIN h = 1..Len(h) /\ p \in DOMAIN h
      /\ \A i \in DOMAIN h : h[i].build \in Nat
  BY <1>1, HistoryTyped
<1>3. \A i, j \in DOMAIN h : i < j => h[i].build < h[j].build
  BY <1>1 DEF BuildsOrdered
<1> HIDE DEF h
<1>4. ASSUME NEW i \in DOMAIN h, h[i].build = h[p].build PROVE i = p
  <2>1. i < p \/ p < i \/ i = p
    BY <1>2, <1>4
  <2> QED
    BY <1>2, <1>3, <1>4, <2>1
<1> QED
  BY <1>4 DEF At, h

\* The predecessor as a request finds it: nothing, or one of the last two.
LEMMA PrevIs ==
    ASSUME AnswerInv, NEW k \in Kinds, NEW s \in Stations
    PROVE  LET h == history[k][s] IN
           /\ prev[k][s] \in Entry /\ Built(k, prev[k][s])
           /\ Len(h) \in Nat
           /\ \/ prev[k][s] = NoEntry
              \/ \E q \in DOMAIN h : q >= Len(h) - 1 /\ prev[k][s] = h[q]
           /\ ~MidSet(k, s) /\ Len(h) > 1 => prev[k][s] = h[Len(h) - 1]
<1> DEFINE h == history[k][s]
<1>1. /\ TypeOK /\ EntriesBuilt /\ h \in Seq(Entry)
      /\ prev[k][s] = IF MidSet(k, s) THEN Latest(h) ELSE Previous(h)
  BY DEF AnswerInv, PairInv, TypeOK, PrevIsPredecessor
<1>2. prev[k][s] \in Entry /\ Built(k, prev[k][s])
  BY <1>1, LatestBuilt DEF TypeOK
<1> HIDE DEF h
<1>3. Len(h) \in Nat /\ DOMAIN h = 1..Len(h)
  BY <1>1
<1>4. CASE MidSet(k, s)
  <2>1. Len(h) = 0 \/ (Len(h) \in DOMAIN h /\ Len(h) >= Len(h) - 1)
    BY <1>3
  <2> QED
    BY <1>1, <1>2, <1>3, <1>4, <2>1 DEF Latest, h
<1>5. CASE ~MidSet(k, s)
  <2>1. \/ Len(h) < 2 /\ ~(Len(h) > 1)
        \/ /\ ~(Len(h) < 2) /\ Len(h) - 1 \in DOMAIN h
           /\ Len(h) - 1 >= Len(h) - 1
    BY <1>3
  <2> QED
    BY <1>1, <1>2, <1>3, <1>5, <2>1 DEF Previous, h
<1> QED
  BY <1>4, <1>5

\* What there is to say of the answer of a step of ReadPrev.
LEMMA AnswerIs ==
    ASSUME AnswerInv, NEW s \in Stations, ReadPrev(s), Served'
    PROVE  LET k == reader.kind
               older == prev[k][s]
               data == Combine(k, reader.e1, reader.e2, older) IN
           /\ k \in Kinds /\ reader.phase = "prev" /\ reader.station = {s}
           /\ reader.e1 \in Entry /\ reader.e2 \in Entry
           /\ Built(k, reader.e1) /\ Built(k, reader.e2)
           /\ response'.kind = k /\ response'.station = s
           /\ response'.e1 = reader.e1 /\ response'.quiet = reader.quiet
           /\ response'.hours \in Seq(Hour) /\ Ascending(response'.hours)
           /\ \A i \in DOMAIN response'.hours :
                 i \in DOMAIN data.hours /\ response'.hours[i] = data.hours[i]
<1> DEFINE k == reader.kind
           older == prev[k][s]
           data == Combine(k, reader.e1, reader.e2, older)
<1>1. /\ TypeOK /\ EntriesBuilt /\ RequestFresh /\ reader \in Reader
  BY DEF AnswerInv, PairInv, TypeOK, Reader
<1>2. /\ k \in Kinds /\ reader.e1 \in Entry /\ reader.e2 \in Entry
      /\ reader.limit \in Nat
  BY <1>1 DEF Reader
<1>3. reader.phase = "prev" /\ reader.station = {s}
  BY DEF ReadPrev
<1>4. /\ response'.kind = k /\ response'.station = s
      /\ response'.e1 = reader.e1 /\ response'.quiet = reader.quiet
      /\ response'.hours = Truncate(data.hours, reader.limit)
  BY DEF ReadPrev, Served, Silent, NoResponse
<1>5. Built(k, reader.e1) /\ Built(k, reader.e2)
  <2>1. /\ reader.e1 = NoEntry \/ \E p \in DOMAIN history[k][s] :
              history[k][s][p] = reader.e1
        /\ Built(k, reader.e2)
    BY <1>1, <1>2, <1>3 DEF RequestFresh
  <2> QED
    BY <1>1, <1>2, <2>1, NoEntryBuilt DEF EntriesBuilt
<1>6. older \in Entry /\ Built(k, older)
  BY <1>2, PrevIs
<1>7. data.hours \in Seq(Hour) /\ Ascending(data.hours)
  <2>1. CASE reader.e1 = NoEntry
    <3>1. data = reader.e2
      BY <2>1 DEF Combine
    <3> QED
      BY <1>2, <1>5, <3>1 DEF Built, Entry
  <2>2. CASE reader.e1 # NoEntry
    BY <1>2, <1>5, <1>6, <2>2, CombineIs
  <2> QED
    BY <2>1, <2>2
<1> HIDE DEF data
<1>8. /\ response'.hours \in Seq(Hour) /\ Ascending(response'.hours)
      /\ \A i \in DOMAIN response'.hours :
            i \in DOMAIN data.hours /\ response'.hours[i] = data.hours[i]
  BY <1>2, <1>4, <1>7, TruncateIs
<1> QED
  BY <1>2, <1>3, <1>4, <1>5, <1>8 DEF data

\* The same for an answer with a CH1 entry: it is the p-th one stored, and the
\* hours that come from it are its own, filled from the predecessor.
LEMMA Ch1AnswerIs ==
    ASSUME AnswerInv, NEW s \in Stations, ReadPrev(s), Served',
           IsCh1(response'.e1)
    PROVE  LET k == reader.kind
               h == history[k][s]
               older == prev[k][s] IN
           /\ At(h, reader.e1) \in DOMAIN h
           /\ h[At(h, reader.e1)] = reader.e1
           /\ reader.quiet => At(h, reader.e1) = Len(h) /\ ~MidSet(k, s)
           /\ \A i \in Ch1Part' :
                /\ i \in DOMAIN reader.e1.hours
                /\ response'.hours[i] = Fill(k, reader.e1, older).hours[i]
<1> DEFINE k == reader.kind
           h == history[k][s]
           older == prev[k][s]
           data == Combine(k, reader.e1, reader.e2, older)
<1>1. /\ k \in Kinds /\ reader.phase = "prev" /\ reader.station = {s}
      /\ reader.e1 \in Entry /\ reader.e2 \in Entry
      /\ Built(k, reader.e1) /\ Built(k, reader.e2)
      /\ response'.e1 = reader.e1 /\ response'.hours \in Seq(Hour)
      /\ \A i \in DOMAIN response'.hours :
            i \in DOMAIN data.hours /\ response'.hours[i] = data.hours[i]
  BY AnswerIs
<1>2. reader.e1 # NoEntry
  BY <1>1 DEF IsCh1, NoEntry
<1>3. older \in Entry /\ Built(k, older)
  BY <1>1, PrevIs
<1>4. \A i \in DOMAIN reader.e1.hours :
         data.hours[i] = Fill(k, reader.e1, older).hours[i]
  BY <1>1, <1>2, <1>3, CombineIs
<1>5. DOMAIN reader.e1.hours = 1..Len(reader.e1.hours)
      /\ DOMAIN response'.hours = 1..Len(response'.hours)
      /\ Len(reader.e1.hours) \in Nat /\ Len(response'.hours) \in Nat
  BY <1>1 DEF Entry
<1> HIDE DEF data
<1>6. ASSUME NEW i \in Ch1Part'
      PROVE  /\ i \in DOMAIN reader.e1.hours
             /\ response'.hours[i] = Fill(k, reader.e1, older).hours[i]
  <2>1. i \in DOMAIN response'.hours /\ i <= Len(reader.e1.hours)
    BY <1>1 DEF Ch1Part
  <2>2. i \in DOMAIN reader.e1.hours
    BY <1>5, <2>1
  <2> QED
    BY <1>1, <1>4, <2>1, <2>2
<1>7. /\ \E p \in DOMAIN h : h[p] = reader.e1
      /\ reader.quiet => reader.e1 = Latest(h) /\ ~MidSet(k, s)
  BY <1>1, <1>2 DEF AnswerInv, RequestFresh
<1>8. PICK p \in DOMAIN h : h[p] = reader.e1
  BY <1>7
<1>9. At(h, reader.e1) = p
  BY <1>1, <1>8, AtIs
<1>10. reader.quiet => p = Len(h)
  <2> SUFFICES ASSUME reader.quiet PROVE p = Len(h)
    OBVIOUS
  <2>1. DOMAIN h = 1..Len(h) /\ Len(h) \in Nat
    BY <1>1 DEF AnswerInv, PairInv, TypeOK
  <2>2. Len(h) \in DOMAIN h /\ h[Len(h)] = reader.e1
    BY <1>2, <1>7, <2>1 DEF Latest
  <2>3. At(h, reader.e1) = Len(h)
    BY <1>1, <2>2, AtIs
  <2> QED
    BY <1>9, <2>3
<1> QED
  BY <1>2, <1>6, <1>7, <1>8, <1>9, <1>10

LEMMA AnswerIncreasing ==
    ASSUME AnswerInv, NEW s \in Stations, ReadPrev(s)
    PROVE  HoursStrictlyIncreasing'
<1> SUFFICES ASSUME Served', NEW i \in 1..(Len(response'.hours) - 1)
             PROVE  response'.hours[i].vt < response'.hours[i + 1].vt
  BY DEF HoursStrictlyIncreasing
<1>1. response'.hours \in Seq(Hour) /\ Ascending(response'.hours)
  BY AnswerIs
<1>2. i \in DOMAIN response'.hours /\ i + 1 \in DOMAIN response'.hours /\ i < i + 1
  BY <1>1
<1> QED
  BY <1>1, <1>2 DEF Ascending

LEMMA AnswerNotStale ==
    ASSUME AnswerInv, NEW s \in Stations, ReadPrev(s)
    PROVE  NeverStalerThanPredecessor' /\ BackfillNeverHidesNewer'
<1> SUFFICES ASSUME Served', IsCh1(response'.e1)
             PROVE  NeverStalerThanPredecessor' /\ BackfillNeverHidesNewer'
  BY DEF NeverStalerThanPredecessor, BackfillNeverHidesNewer
<1> DEFINE k == reader.kind
           h == history[k][s]
           older == prev[k][s]
<1>1. /\ k \in Kinds /\ reader.e1 \in Entry /\ Built(k, reader.e1)
      /\ response'.kind = k /\ response'.station = s
      /\ response'.e1 = reader.e1
  BY AnswerIs
<1>2. /\ older \in Entry /\ Built(k, older) /\ Len(h) \in Nat
      /\ older = NoEntry \/ \E q \in DOMAIN h : q >= Len(h) - 1 /\ older = h[q]
  BY <1>1, PrevIs
<1> DEFINE p == At(h, reader.e1)
<1>3. p \in DOMAIN h /\ h[p] = reader.e1
  BY Ch1AnswerIs
<1>4. DOMAIN h = 1..Len(h)
  BY <1>1 DEF AnswerInv, PairInv, TypeOK
<1>5. history' = history
  BY DEF ReadPrev
<1>6. /\ At(history'[response'.kind][response'.station], response'.e1) = p
      /\ history'[response'.kind][response'.station] = h
  BY <1>1, <1>5
<1> HIDE DEF p
<1>7. ASSUME NEW i \in Ch1Part', NEW c \in Cells[k]
      PROVE  /\ response'.hours[i].val[c] \in
                   {NoData} \union {h[j].build : j \in (p - 1)..Len(h) \ {0}}
             /\ reader.e1.hours[i].val[c] # NoData =>
                   response'.hours[i].val[c] = reader.e1.hours[i].val[c]
  <2>1. /\ i \in DOMAIN reader.e1.hours
        /\ response'.hours[i] = Fill(k, reader.e1, older).hours[i]
    BY <1>7, Ch1AnswerIs
  <2>2. /\ response'.hours[i].val[c] \in {NoData, reader.e1.build, older.build}
        /\ reader.e1.hours[i].val[c] # NoData =>
              response'.hours[i].val[c] = reader.e1.hours[i].val[c]
    <3> DEFINE full == Fill(k, reader.e1, older)
    <3> HIDE DEF k, older
    <3>1. \A j \in DOMAIN reader.e1.hours : \A d \in Cells[k] :
             /\ full.hours[j].val[d] \in {NoData, reader.e1.build, older.build}
             /\ reader.e1.hours[j].val[d] # NoData =>
                   full.hours[j].val[d] = reader.e1.hours[j].val[d]
      BY <1>1, <1>2, FillIs
    <3> HIDE DEF full
    <3>2. /\ full.hours[i].val[c] \in {NoData, reader.e1.build, older.build}
          /\ reader.e1.hours[i].val[c] # NoData =>
                full.hours[i].val[c] = reader.e1.hours[i].val[c]
      BY <1>7, <2>1, <3>1
    <3> QED
      BY <2>1, <3>2 DEF full
  <2> DEFINE W == {h[j].build : j \in (p - 1)..Len(h) \ {0}}
  <2>3. reader.e1.build \in W
    <3>1. p \in (p - 1)..Len(h) \ {0}
      BY <1>2, <1>3, <1>4
    <3> QED
      BY <1>3, <3>1
  <2>4. older.build \in {NoData} \union W
    <3>1. CASE older = NoEntry
      BY <3>1 DEF NoEntry, NoData
    <3>2. CASE older # NoEntry
      <4>1. PICK q \in DOMAIN h : q >= Len(h) - 1 /\ older = h[q]
        BY <1>2, <3>2
      <4>2. q \in (p - 1)..Len(h) \ {0}
        BY <1>2, <1>3, <1>4, <4>1
      <4> QED
        BY <4>1, <4>2
    <3> QED
      BY <3>1, <3>2
  <2> QED
    BY <2>2, <2>3, <2>4
<1>8. NeverStalerThanPredecessor'
  <2> SUFFICES ASSUME NEW i \in Ch1Part', NEW c \in Cells[response'.kind]
               PROVE  response'.hours[i].val[c] \in {NoData} \union
                        {history'[response'.kind][response'.station][j].build :
                         j \in (At(history'[response'.kind][response'.station],
                                   response'.e1) - 1)
                               ..Len(history'[response'.kind][response'.station])
                               \ {0}}
    BY DEF NeverStalerThanPredecessor
  <2>1. response'.hours[i].val[c] \in
           {NoData} \union {h[j].build : j \in (p - 1)..Len(h) \ {0}}
    BY <1>1, <1>7
  <2> HIDE DEF h
  <2> QED
    BY <1>6, <2>1
<1>9. BackfillNeverHidesNewer'
  BY <1>1, <1>7 DEF BackfillNeverHidesNewer
<1> QED
  BY <1>8, <1>9

LEMMA AnswerBackfilled ==
    ASSUME AnswerInv, NEW s \in Stations, ReadPrev(s)
    PROVE  QuietNullHoursBackfilled'
<1> SUFFICES ASSUME Served', IsCh1(response'.e1), response'.quiet, MissedBackfill'
             PROVE  FALSE
  BY DEF QuietNullHoursBackfilled
<1> DEFINE k == reader.kind
           h == history[k][s]
           older == prev[k][s]
<1>1. /\ k \in Kinds /\ reader.e1 \in Entry /\ Built(k, reader.e1)
      /\ response'.kind = k /\ response'.station = s
      /\ response'.e1 = reader.e1 /\ reader.quiet
  BY AnswerIs
<1>2. history' = history
  BY DEF ReadPrev
<1>3. At(h, reader.e1) = Len(h) /\ ~MidSet(k, s)
  <2>1. reader.quiet => At(h, reader.e1) = Len(h) /\ ~MidSet(k, s)
    BY Ch1AnswerIs
  <2> QED
    BY <1>1, <2>1
<1>4. At(h, reader.e1) > 1
  BY <1>1, <1>2 DEF MissedBackfill
<1>5. /\ Len(h) > 1 /\ Len(h) \in Nat
      /\ older \in Entry /\ Built(k, older) /\ older = h[Len(h) - 1]
  BY <1>1, <1>3, <1>4, PrevIs
<1>6. older # NoEntry
  <2>1. Len(h) - 1 \in DOMAIN h
    BY <1>1, <1>5 DEF AnswerInv, PairInv, TypeOK
  <2> QED
    BY <1>1, <1>5, <2>1 DEF AnswerInv, PairInv, Stored
<1>H. h = history'[response'.kind][response'.station]
      /\ older = h[At(h, response'.e1) - 1]
  BY <1>1, <1>2, <1>3, <1>5
<1>7. PICK i \in Ch1Part', j \in DOMAIN older.hours :
         /\ NullHour(response'.hours[i], k)
         /\ older.hours[j].vt = response'.hours[i].vt
         /\ ~NullHour(older.hours[j], k)
  <2>1. PICK i \in Ch1Part', j \in DOMAIN h[At(h, response'.e1) - 1].hours :
           /\ NullHour(response'.hours[i], response'.kind)
           /\ h[At(h, response'.e1) - 1].hours[j].vt = response'.hours[i].vt
           /\ ~NullHour(h[At(h, response'.e1) - 1].hours[j], response'.kind)
    BY <1>H DEF MissedBackfill
  <2>2. j \in DOMAIN older.hours
    BY <1>H, <2>1
  <2> QED
    BY <1>1, <1>H, <2>1, <2>2
<1>8. /\ i \in DOMAIN reader.e1.hours
      /\ response'.hours[i] = Fill(k, reader.e1, older).hours[i]
  BY Ch1AnswerIs
<1>9. response'.hours[i].vt = reader.e1.hours[i].vt
  BY <1>1, <1>5, <1>8, FillIs
<1>10. NullHour(Fill(k, reader.e1, older).hours[i], k)
  BY <1>7, <1>8
<1> HIDE DEF k, older
<1>11. older.hours[j].vt = reader.e1.hours[i].vt
  BY <1>7, <1>9
<1> DEFINE e == reader.e1
<1>12. /\ k \in Kinds /\ e \in Entry /\ older \in Entry /\ Built(k, e)
       /\ Built(k, older) /\ i \in DOMAIN e.hours /\ j \in DOMAIN older.hours
       /\ older.hours[j].vt = e.hours[i].vt
       /\ NullHour(Fill(k, e, older).hours[i], k)
  BY <1>1, <1>5, <1>7, <1>8, <1>10, <1>11
<1> HIDE DEF e
<1>13. NullHour(older.hours[j], k)
  BY <1>6, <1>12, FillFills
<1> QED
  BY <1>7, <1>13

Answers ==
    /\ HoursStrictlyIncreasing
    /\ NeverStalerThanPredecessor
    /\ BackfillNeverHidesNewer
    /\ QuietNullHoursBackfilled

LEMMA NoAnswer == ~Served => Answers
BY DEF Answers, HoursStrictlyIncreasing, NeverStalerThanPredecessor,
       BackfillNeverHidesNewer, QuietNullHoursBackfilled

\* Any other step gives no answer with data.
LEMMA OnlyReadPrevServes ==
    ASSUME Next, \A s \in Stations : ~ReadPrev(s)
    PROVE  ~Served'
<1>1. \A m \in Models : StartBuild(m) \/ NextStation(m) => Silent
  BY DEF StartBuild, NextStation
<1>2. \A s \in Stations : StashPrevious(s) \/ StoreCh1(s) \/ StoreCh2(s) => Silent
  BY DEF StashPrevious, StoreCh1, StoreCh2
<1>3. NextSlot \/ Restart => Silent
  BY DEF NextSlot, Restart
<1>4. /\ \A k \in Kinds, s \in Stations, n \in 1..LastHorizon : ReadCh1(k, s, n) => Silent
      /\ \A s \in Stations : ReadCh2(s) => Silent
  BY DEF ReadCh1, ReadCh2
<1>5. \A s \in Stations : CheckWarm(s) => response'.status \in {404, 503}
  BY DEF CheckWarm
<1> QED
  BY <1>1, <1>2, <1>3, <1>4, <1>5 DEF Next, Silent, NoResponse, Served

LEMMA AnswersHold == Spec => [](AnswerInv /\ Answers)
<1>1. Init => AnswerInv /\ Answers
  <2> SUFFICES ASSUME Init PROVE AnswerInv /\ Answers
    OBVIOUS
  <2>1. PairInv
    BY InitPair
  <2>2. /\ \A k \in Kinds, s \in Stations : history[k][s] = <<>>
        /\ builder["icon-ch1"] = IdleBuilder /\ builds = 0
        /\ \A k \in Kinds, s \in Stations : ch2[k][s] = NoEntry
        /\ reader.phase = "idle" /\ response.status = 0
    BY DEF Init, Models, Empty, IdleReader, NoResponse
  <2>3. BuildsOrdered
    BY <2>2 DEF BuildsOrdered, IdleBuilder
  <2>4. EntriesBuilt
    BY <2>2, NoEntryBuilt DEF EntriesBuilt
  <2>5. RequestFresh
    BY <2>2 DEF RequestFresh
  <2>6. Answers
    BY <2>2, NoAnswer DEF Served
  <2> QED
    BY <2>1, <2>3, <2>4, <2>5, <2>6 DEF AnswerInv
<1>2. ASSUME AnswerInv, Answers, [Next]_vars PROVE AnswerInv' /\ Answers'
  <2>1. PairInv' /\ TypeOK'
    BY <1>2, NextPair DEF AnswerInv, PairInv
  <2>2. AnswerInv'
    BY <1>2, <2>1, NextBuilds, NextBuilt, NextFresh DEF AnswerInv
  <2>3. CASE UNCHANGED vars
    <3>1. response' = response /\ history' = history
      BY <2>3 DEF vars
    <3>2. Ch1Part' = Ch1Part /\ (Served' <=> Served)
      BY <3>1 DEF Ch1Part, Served
    <3>3. MissedBackfill' <=> MissedBackfill
      BY <3>1, <3>2 DEF MissedBackfill
    <3>4. HoursStrictlyIncreasing'
      BY <1>2, <3>1, <3>2 DEF Answers, HoursStrictlyIncreasing
    <3>5. NeverStalerThanPredecessor'
      <4> DEFINE w(r, g) ==
                   {NoData} \union
                   {g[r.kind][r.station][j].build :
                      j \in (At(g[r.kind][r.station], r.e1) - 1)
                            ..Len(g[r.kind][r.station]) \ {0}}
      <4> SUFFICES ASSUME Served', IsCh1(response'.e1), NEW i \in Ch1Part',
                          NEW c \in Cells[response'.kind]
                   PROVE  response'.hours[i].val[c] \in w(response', history')
        BY DEF NeverStalerThanPredecessor
      <4>1. response.hours[i].val[c] \in w(response, history)
        BY <1>2, <3>1, <3>2 DEF Answers, NeverStalerThanPredecessor
      <4>2. w(response', history') = w(response, history)
        BY <3>1
      <4> HIDE DEF w
      <4> QED
        BY <3>1, <4>1, <4>2
    <3>6. BackfillNeverHidesNewer'
      BY <1>2, <3>1, <3>2 DEF Answers, BackfillNeverHidesNewer
    <3>7. QuietNullHoursBackfilled'
      BY <1>2, <3>1, <3>2, <3>3 DEF Answers, QuietNullHoursBackfilled
    <3> QED
      BY <2>2, <3>4, <3>5, <3>6, <3>7 DEF Answers
  <2>4. ASSUME NEW s \in Stations, ReadPrev(s) PROVE Answers'
    BY <1>2, <2>4, AnswerIncreasing, AnswerNotStale, AnswerBackfilled
    DEF Answers
  <2>5. CASE Next /\ \A s \in Stations : ~ReadPrev(s)
    <3>1. ~Served'
      BY <2>5, OnlyReadPrevServes
    <3>2. Answers'
      BY <3>1, NoAnswer, PTL
    <3> QED
      BY <2>2, <3>2
  <2> QED
    BY <1>2, <2>2, <2>3, <2>4, <2>5
<1> QED
  BY <1>1, <1>2, PTL DEF Spec

\* Whatever runs an answer is merged from and however long its request waits
\* between two reads, no hour is in it twice or out of order.
THEOREM HoursIncrease == Spec => []HoursStrictlyIncreasing
<1>1. Answers => HoursStrictlyIncreasing
  BY DEF Answers
<1> QED
  BY <1>1, AnswersHold, PTL

\* Whatever stores a request overlaps, no value of its answer is older than
\* the predecessor of the entry it read.
THEOREM NeverTooStale == Spec => []NeverStalerThanPredecessor
<1>1. Answers => NeverStalerThanPredecessor
  BY DEF Answers
<1> QED
  BY <1>1, AnswersHold, PTL

\* Backfilling leaves every value the newer run has.
THEOREM NewerStays == Spec => []BackfillNeverHidesNewer
<1>1. Answers => BackfillNeverHidesNewer
  BY DEF Answers
<1> QED
  BY <1>1, AnswersHold, PTL

\* An empty hour that the previous run could have filled is only ever served
\* to a request that a setter of its station has overtaken.
THEOREM QuietAnswersFilled == Spec => []QuietNullHoursBackfilled
<1>1. Answers => QuietNullHoursBackfilled
  BY DEF Answers
<1> QED
  BY <1>1, AnswersHold, PTL
=============================================================================
