--------------------------- MODULE GridStore_proof ---------------------------
(***************************************************************************)
(* Proofs about GridStore, for every axis length, seam, run spacing and    *)
(* number of runs.                                                         *)
(*                                                                         *)
(* TypeOK is inductive.  The rest follows from IInv: a store that a thread *)
(* is about to make is unknown to everybody else (Private), a thread has   *)
(* filled its slice up to the row it is at (Filled), it is about to give   *)
(* a row the time its data is for (Paired), and no row of its slice is     *)
(* newer than the run it last began (Bounded).  What a request shows       *)
(* follows from QuietView on top of it: as long as no row of its store is  *)
(* written, the copied times are the times of the store.                   *)
(***************************************************************************)
EXTENDS GridStore, TLAPS

Slice(m) == FirstRow(m)..LastRow(m)

\* Nobody but m can reach the store m is about to make.
Private ==
    /\ current = None =>
          \A m \in Models : writer[m].target = None /\ stores[m] = EmptyStore
    /\ \A m \in Models : writer[m].phase = "create" =>
          /\ stores[m] = EmptyStore
          /\ current # m
          /\ \A n \in Models : writer[n].target # m

\* The rows of a slice are filled from its first row on.
Filled ==
    /\ \A x \in Models, m \in Models : \A g, h \in Slice(m) :
          g < h /\ stores[x].time[h] # NoTime => stores[x].time[g] # NoTime
    /\ \A m \in Models :
          /\ writer[m].phase = "create" => writer[m].row = FirstRow(m)
          /\ writer[m].phase \in {"data", "time"} =>
                \A g \in Slice(m) : g < writer[m].row =>
                    stores[writer[m].target].time[g] # NoTime

\* The data written last is for the time about to be written.
Paired ==
    \A m \in Models : writer[m].phase = "time" =>
        stores[writer[m].target].data[writer[m].row] = ValidTime(m)

\* No row is newer than the run its model last began to write.
Bounded ==
    \A x \in Models, m \in Models : \A h \in Slice(m) :
        stores[x].time[h] <= writer[m].init + h

IInv == TypeOK /\ Private /\ Filled /\ Paired /\ Bounded /\ TimeMatchesData

\* The two slices split the axis: every row has exactly one owner.
LEMMA Slices ==
    /\ \A m \in Models : Slice(m) \subseteq Rows /\ FirstRow(m) \in Slice(m)
    /\ \A m, n \in Models : m # n => Slice(m) \cap Slice(n) = {}
    /\ \A h \in Rows : \E m \in Models : h \in Slice(m)
    /\ \A m \in Models : FirstRow(m) \in Int /\ LastRow(m) \in Int
    /\ None \notin Models
BY StoreAssumption DEF Slice, FirstRow, LastRow, Rows, Models, None

\* The start of a run is a number of hours.
LEMMA InitIsNat == \A s \in Nat : s * RunStep \in Nat
BY StoreAssumption

\* The actions of the handler, which only change the request.
ReaderStep ==
    ReadNothing \/ ReadRange \/ ReadLabel \/ SliceTimes \/ BuildFrame

LEMMA ReaderOnly ==
    ASSUME ReaderStep
    PROVE  UNCHANGED <<stores, current, modelInit, writer, slot>>
BY DEF ReaderStep, ReadNothing, ReadRange, ReadLabel, SliceTimes, BuildFrame

LEMMA StoreTypesStep ==
    ASSUME StoreTypes, WriterTypes, [Next]_vars
    PROVE  StoreTypes'
<1> USE DEF StoreTypes
<1>1. ASSUME NEW m \in Models, BeginWrite(m) PROVE StoreTypes'
  BY <1>1 DEF BeginWrite
<1>2. ASSUME NEW m \in Models, CreateStore(m) PROVE StoreTypes'
  <2>1. EmptyStore \in Store
    BY DEF EmptyStore, Store, Time
  <2> QED
    BY <1>2, <2>1 DEF CreateStore
<1>3. ASSUME NEW m \in Models, WriteData(m) PROVE StoreTypes'
  <2>1. ValidTime(m) \in Time
    BY DEF ValidTime, WriterTypes, Writer, Rows, Time
  <2>2. writer[m].target \in Models /\ writer[m].row \in Rows
    BY <1>3 DEF WriteData, WriterTypes, Writer
  <2> QED
    BY <1>3, <2>1, <2>2 DEF WriteData, Store
<1>4. ASSUME NEW m \in Models, WriteTime(m) PROVE StoreTypes'
  <2>1. ValidTime(m) \in Time
    BY DEF ValidTime, WriterTypes, Writer, Rows, Time
  <2>2. writer[m].target \in Models /\ writer[m].row \in Rows
    BY <1>4 DEF WriteTime, WriterTypes, Writer
  <2> QED
    BY <1>4, <2>1, <2>2 DEF WriteTime, NewTime, Store
<1>5. ASSUME NEW m \in Models, FinishWrite(m) PROVE StoreTypes'
  BY <1>5 DEF FinishWrite, WriterTypes, Writer, Time
<1>6. CASE NextSlot
  BY <1>6, StoreAssumption DEF NextSlot
<1>7. CASE ReaderStep
  BY <1>7, ReaderOnly
<1>8. CASE UNCHANGED vars
  BY <1>8 DEF vars
<1> QED
  BY <1>1, <1>2, <1>3, <1>4, <1>5, <1>6, <1>7, <1>8 DEF Next, ReaderStep

\* What the two updates of a thread's record leave behind.
LEMMA RetargetedWriter ==
    ASSUME NEW r \in Writer, NEW m \in Models
    PROVE  /\ [r EXCEPT !.phase = "data", !.target = m] \in Writer
           /\ [r EXCEPT !.phase = "data", !.target = m].phase = "data"
           /\ [r EXCEPT !.phase = "data", !.target = m].target = m
           /\ [r EXCEPT !.phase = "data", !.target = m].init = r.init
           /\ [r EXCEPT !.phase = "data", !.target = m].row = r.row
BY DEF Writer

LEMMA AdvancedWriter ==
    ASSUME NEW r \in Writer, r.row + 1 \in Rows
    PROVE  /\ [r EXCEPT !.phase = "data", !.row = r.row + 1] \in Writer
           /\ [r EXCEPT !.phase = "data", !.row = r.row + 1].phase = "data"
           /\ [r EXCEPT !.phase = "data", !.row = r.row + 1].target = r.target
           /\ [r EXCEPT !.phase = "data", !.row = r.row + 1].init = r.init
           /\ [r EXCEPT !.phase = "data", !.row = r.row + 1].row = r.row + 1
BY DEF Writer

LEMMA WriterTypesStep ==
    ASSUME StoreTypes, WriterTypes, [Next]_vars
    PROVE  WriterTypes'
<1> USE DEF WriterTypes
<1>1. ASSUME NEW m \in Models, BeginWrite(m) PROVE WriterTypes'
  <2> PICK s \in RefSlots(m) :
        writer' = [writer EXCEPT ![m] =
           [phase |-> FirstPhase(current), init |-> s * RunStep,
            target |-> current, row |-> FirstRow(m)]]
    BY <1>1 DEF BeginWrite
  <2>1. s * RunStep \in Nat
    BY InitIsNat DEF RefSlots, StoreTypes
  <2>2. FirstRow(m) \in Rows /\ FirstRow(m) <= LastRow(m)
        /\ FirstRow(m) \in Int
    BY StoreAssumption DEF FirstRow, LastRow, Rows, Models
  <2>3. FirstPhase(current) \in {"create", "data"}
        /\ (FirstPhase(current) = "data" => current # None)
    BY DEF FirstPhase
  <2>4. current \in Models \union {None}
    BY DEF StoreTypes
  <2> DEFINE w == [phase |-> FirstPhase(current), init |-> s * RunStep,
                   target |-> current, row |-> FirstRow(m)]
  <2>5. w \in Writer
    BY <2>1, <2>2, <2>3, <2>4 DEF Writer
  <2>6. writer' = [writer EXCEPT ![m] = w]
    OBVIOUS
  <2>7. /\ w.phase \in {"data", "time", "finish"} => w.target # None
        /\ FirstRow(m) <= w.row /\ w.row <= LastRow(m)
    BY <2>2, <2>3
  <2> HIDE DEF w
  <2> QED
    BY <2>5, <2>6, <2>7
<1>2. ASSUME NEW m \in Models, CreateStore(m) PROVE WriterTypes'
  <2> DEFINE w == [writer[m] EXCEPT !.phase = "data", !.target = m]
  <2>1. writer' = [writer EXCEPT ![m] = w]
    BY <1>2 DEF CreateStore
  <2> writer[m] \in Writer /\ m # None
    BY Slices
  <2>2. w \in Writer /\ w.target # None /\ w.row = writer[m].row
    BY RetargetedWriter
  <2>3. FirstRow(m) <= w.row /\ w.row <= LastRow(m)
    BY <1>2, <2>2 DEF CreateStore
  <2> HIDE DEF w
  <2> QED
    BY <2>1, <2>2, <2>3
<1>3. ASSUME NEW m \in Models, WriteData(m) PROVE WriterTypes'
  BY <1>3 DEF WriteData, Writer
<1>4. ASSUME NEW m \in Models, WriteTime(m) PROVE WriterTypes'
  <2>1. /\ FirstRow(m) <= writer[m].row /\ writer[m].row <= LastRow(m)
        /\ writer[m].row \in Rows /\ writer[m].target # None
        /\ FirstRow(m) \in Rows /\ LastRow(m) \in Rows
    BY <1>4, StoreAssumption
    DEF WriteTime, Writer, FirstRow, LastRow, Rows, Models
  <2>2. CASE writer[m].row = LastRow(m)
    <3>1. writer' = [writer EXCEPT ![m].phase = "finish"]
      BY <1>4, <2>2 DEF WriteTime
    <3> QED
      BY <2>1, <3>1 DEF Writer
  <2>3. CASE writer[m].row # LastRow(m)
    <3>1. writer[m].row + 1 \in Rows /\ writer[m].row + 1 <= LastRow(m)
          /\ FirstRow(m) <= writer[m].row + 1
      BY <2>1, <2>3, StoreAssumption DEF Rows
    <3> DEFINE w == [writer[m] EXCEPT !.phase = "data",
                                     !.row = writer[m].row + 1]
    <3>2. writer' = [writer EXCEPT ![m] = w]
      BY <1>4, <2>3 DEF WriteTime
    <3> writer[m] \in Writer
      OBVIOUS
    <3>3. w \in Writer /\ w.target # None /\ w.row = writer[m].row + 1
      BY <2>1, <3>1, AdvancedWriter
    <3> HIDE DEF w
    <3> QED
      BY <3>1, <3>2, <3>3
  <2> QED
    BY <2>2, <2>3, <2>1
<1>5. ASSUME NEW m \in Models, FinishWrite(m) PROVE WriterTypes'
  BY <1>5 DEF FinishWrite, Writer
<1>6. CASE NextSlot
  BY <1>6 DEF NextSlot
<1>7. CASE ReaderStep
  BY <1>7, ReaderOnly
<1>8. CASE UNCHANGED vars
  BY <1>8 DEF vars
<1> QED
  BY <1>1, <1>2, <1>3, <1>4, <1>5, <1>6, <1>7, <1>8 DEF Next, ReaderStep

LEMMA ReaderTypesStep ==
    ASSUME StoreTypes, ReaderTypes, [Next]_vars
    PROVE  ReaderTypes'
<1> USE DEF ReaderTypes
<1>1. ASSUME NEW m \in Models,
             BeginWrite(m) \/ CreateStore(m) \/ WriteTime(m) \/ FinishWrite(m)
      PROVE  ReaderTypes'
  BY <1>1 DEF BeginWrite, CreateStore, WriteTime, FinishWrite
<1>2. ASSUME NEW m \in Models, WriteData(m) PROVE ReaderTypes'
  BY <1>2 DEF WriteData, Reader
<1>3. CASE NextSlot \/ ReadNothing
  BY <1>3 DEF NextSlot, ReadNothing
<1>4. CASE ReadRange
  <2> PICK f \in Rows, l \in Rows :
        /\ f <= l
        /\ reader' = [IdleReader EXCEPT !.phase = "label",
                         !.target = current, !.from = f, !.to = l,
                         !.quiet = \A h \in Rows : ~MidRow(current, h)]
    BY <1>4 DEF ReadRange, Populated
  <2>1. current \in Models /\ current # None
    BY <1>4 DEF ReadRange, StoreTypes
  <2> DEFINE q == \A h \in Rows : ~MidRow(current, h)
             r == [phase |-> "label", target |-> current, from |-> f,
                   to |-> l, model |-> None, times |-> <<>>, frames |-> <<>>,
                   quiet |-> q]
  <2>2. q \in BOOLEAN
    OBVIOUS
  <2>3. reader' = r
    BY DEF IdleReader
  <2> HIDE DEF q
  <2>4. r \in Reader
    BY <2>1, <2>2 DEF Reader
  <2>5. /\ r.from = f /\ r.to = l /\ r.target = current
        /\ r.phase = "label" /\ r.frames = <<>>
    OBVIOUS
  <2> HIDE DEF r
  <2> QED
    BY <2>1, <2>3, <2>4, <2>5
<1>5. CASE ReadLabel
  <2>1. CombinedModel \in Models \union {None, "combined", "icon-ch1+ch2"}
    BY DEF CombinedModel
  <2> QED
    BY <1>5, <2>1 DEF ReadLabel, Reader
<1>6. CASE SliceTimes
  <2> DEFINE n == reader.to - reader.from + 1
             t == [i \in 1..n |->
                     stores[reader.target].time[reader.from + i - 1]]
  <2>1. reader.from \in Rows /\ reader.to \in Rows /\ reader.target \in Models
        /\ reader.frames = <<>>
    BY <1>6 DEF SliceTimes, Reader
  <2>2. n \in Nat /\ n > 0
    BY <2>1, StoreAssumption DEF Rows
  <2>3. \A i \in 1..n : reader.from + i - 1 \in Rows
    BY <2>1, StoreAssumption DEF Rows
  <2>4. t \in [1..n -> Time]
    BY <2>1, <2>3 DEF Store, StoreTypes
  <2>5. t \in Seq(Time) /\ Len(t) = n
    BY <2>2, <2>4
  <2>6. reader' = [reader EXCEPT !.phase = "frames", !.times = t]
    BY <1>6 DEF SliceTimes
  <2>7. reader'.frames = <<>> /\ reader'.times = t
        /\ reader'.from = reader.from /\ reader'.to = reader.to
        /\ reader'.target = reader.target
    BY <2>1, <2>6 DEF Reader
  <2>8. Len(reader'.frames) = 0
    BY <2>7
  <2> HIDE DEF t
  <2> QED
    BY <1>6, <2>1, <2>2, <2>5, <2>6, <2>7, <2>8 DEF SliceTimes, Reader
<1>7. CASE BuildFrame
  <2> DEFINE i     == Len(reader.frames) + 1
             frame == [time |-> reader.times[i],
                       data |-> stores[reader.target].data[reader.from + i - 1]]
             built == Append(reader.frames, frame)
  <2>1. IdleReader \in Reader /\ IdleReader.from <= IdleReader.to
        /\ IdleReader.phase = "idle" /\ IdleReader.frames = <<>>
    BY StoreAssumption DEF IdleReader, Reader, Rows
  <2>2. CASE reader' = IdleReader
    BY <2>1, <2>2
  <2>3. CASE /\ reader.times[i] # NoTime /\ i # Len(reader.times)
             /\ reader' = [reader EXCEPT !.frames = built]
    <3>1. /\ reader.phase = "frames" /\ reader.target \in Models
          /\ reader.times \in Seq(Time) /\ reader.from \in Rows
          /\ reader.to \in Rows
          /\ reader.frames \in Seq([time : Time, data : Time])
      BY <1>7 DEF BuildFrame, Reader
    <3>2. i \in 1..Len(reader.times) /\ i < Len(reader.times)
      BY <2>3, <3>1
    <3>3. reader.from + i - 1 \in Rows
      BY <3>1, <3>2, StoreAssumption DEF Rows
    <3>4. frame \in [time : Time, data : Time]
      BY <3>1, <3>2, <3>3 DEF Store, StoreTypes
    <3> HIDE DEF frame
    <3>5. built \in Seq([time : Time, data : Time]) /\ Len(built) = i
      BY <3>1, <3>4
    <3> HIDE DEF built, i
    <3> QED
      BY <2>3, <3>1, <3>2, <3>5 DEF Reader
  <2> QED
    BY <1>7, <2>2, <2>3 DEF BuildFrame
<1>8. CASE UNCHANGED vars
  BY <1>8 DEF vars
<1> QED
  BY <1>1, <1>2, <1>3, <1>4, <1>5, <1>6, <1>7, <1>8 DEF Next

\* The types hold in every behaviour: the threads stay in their slices and
\* the handler in the range it took, whatever the interleaving.
THEOREM TypeCorrect == Spec => []TypeOK
<1>1. Init => TypeOK
  <2> SUFFICES ASSUME Init PROVE TypeOK
    OBVIOUS
  <2>1. StoreTypes
    BY StoreAssumption DEF Init, StoreTypes, Store, EmptyStore, Time
  <2>2. WriterTypes
    BY StoreAssumption DEF Init, WriterTypes, Writer, IdleWriter, Rows
  <2>3. ReaderTypes
    BY StoreAssumption DEF Init, ReaderTypes, Reader, IdleReader, Rows
  <2> QED
    BY <2>1, <2>2, <2>3 DEF TypeOK
<1>2. TypeOK /\ [Next]_vars => TypeOK'
  BY StoreTypesStep, WriterTypesStep, ReaderTypesStep DEF TypeOK
<1> QED
  BY <1>1, <1>2, PTL DEF Spec

-----------------------------------------------------------------------------
(* What each action does to the rows and to the threads *)

LEMMA RecordTypes ==
    ASSUME TypeOK, NEW m \in Models
    PROVE  /\ writer[m] \in Writer
           /\ writer[m].init \in Nat /\ writer[m].row \in Rows
           /\ writer[m].phase # "idle" => writer[m].row \in Slice(m)
           /\ writer[m].phase \in {"data", "time", "finish"} =>
                 writer[m].target \in Models
           /\ ValidTime(m) \in Nat /\ ValidTime(m) # NoTime
           /\ \A h \in Rows : /\ stores[m].time[h] \in Int
                               /\ stores[m].data[h] \in Int
           /\ current \in Models \union {None}
<1>1. writer[m] \in Writer /\ writer[m].init \in Nat /\ writer[m].row \in Rows
  BY DEF TypeOK, WriterTypes, Writer
<1>2. writer[m].phase # "idle" => writer[m].row \in Slice(m)
  BY <1>1, StoreAssumption DEF TypeOK, WriterTypes, Slice, Rows
<1>3. writer[m].phase \in {"data", "time", "finish"} =>
         writer[m].target \in Models
  BY DEF TypeOK, WriterTypes, Writer
<1>4. ValidTime(m) \in Nat /\ ValidTime(m) # NoTime
  BY <1>1, StoreAssumption DEF ValidTime, Rows, NoTime
<1>5. \A h \in Rows : stores[m].time[h] \in Int /\ stores[m].data[h] \in Int
  BY DEF TypeOK, StoreTypes, Store, Time, NoTime
<1> QED
  BY <1>1, <1>2, <1>3, <1>4, <1>5 DEF TypeOK, StoreTypes

LEMMA BeginEffect ==
    ASSUME TypeOK, NEW m \in Models, BeginWrite(m)
    PROVE  /\ stores' = stores /\ current' = current
           /\ \A n \in Models : n # m => writer'[n] = writer[n]
           /\ writer[m].phase = "idle"
           /\ writer'[m].phase = IF current = None THEN "create" ELSE "data"
           /\ writer'[m].init \in Nat /\ writer'[m].init >= writer[m].init
           /\ writer'[m].target = current /\ writer'[m].row = FirstRow(m)
<1> PICK s \in RefSlots(m) :
      /\ s * RunStep >= writer[m].init
      /\ writer' = [writer EXCEPT ![m] =
            [phase |-> FirstPhase(current), init |-> s * RunStep,
             target |-> current, row |-> FirstRow(m)]]
  BY DEF BeginWrite
<1>1. s * RunStep \in Nat
  BY InitIsNat DEF RefSlots, TypeOK, StoreTypes
<1> DEFINE i == s * RunStep
<1>2. i \in Nat /\ i >= writer[m].init
  BY <1>1
<1>3. writer' = [writer EXCEPT ![m] =
            [phase |-> FirstPhase(current), init |-> i,
             target |-> current, row |-> FirstRow(m)]]
  OBVIOUS
<1> HIDE DEF i
<1> QED
  BY <1>2, <1>3 DEF BeginWrite, FirstPhase, TypeOK, WriterTypes

LEMMA CreateEffect ==
    ASSUME IInv, NEW m \in Models, CreateStore(m)
    PROVE  /\ stores' = stores /\ current' = m
           /\ \A n \in Models : n # m => writer'[n] = writer[n]
           /\ writer[m].phase = "create" /\ writer'[m].phase = "data"
           /\ writer'[m].init = writer[m].init
           /\ writer'[m].row = writer[m].row /\ writer'[m].target = m
<1>1. stores[m] = EmptyStore
  BY DEF IInv, Private, CreateStore
<1>2. stores' = stores
  BY <1>1 DEF CreateStore, IInv, TypeOK, StoreTypes
<1>3. writer[m] \in Writer
  BY RecordTypes DEF IInv
<1> DEFINE w == [writer[m] EXCEPT !.phase = "data", !.target = m]
<1>4. /\ w.phase = "data" /\ w.target = m /\ w.init = writer[m].init
      /\ w.row = writer[m].row
  BY <1>3, RetargetedWriter
<1>5. writer' = [writer EXCEPT ![m] = w]
  BY DEF CreateStore
<1> HIDE DEF w
<1> QED
  BY <1>2, <1>4, <1>5 DEF CreateStore, IInv, TypeOK, WriterTypes

LEMMA DataEffect ==
    ASSUME TypeOK, NEW m \in Models, WriteData(m)
    PROVE  /\ current' = current
           /\ \A n \in Models : n # m => writer'[n] = writer[n]
           /\ writer[m].phase = "data" /\ writer'[m].phase = "time"
           /\ writer'[m].init = writer[m].init
           /\ writer'[m].row = writer[m].row
           /\ writer'[m].target = writer[m].target
           /\ \A x \in Models : x # writer[m].target => stores'[x] = stores[x]
           /\ \A x \in Models : stores'[x].time = stores[x].time
           /\ \A x \in Models, h \in Rows :
                 stores'[x].data[h] =
                    IF x = writer[m].target /\ h = writer[m].row
                    THEN ValidTime(m) ELSE stores[x].data[h]
<1>1. writer[m] \in Writer /\ writer[m].target \in Models
      /\ writer[m].row \in Rows
  BY RecordTypes DEF WriteData
<1>2. /\ \A n \in Models : n # m => writer'[n] = writer[n]
      /\ writer'[m].phase = "time" /\ writer'[m].init = writer[m].init
      /\ writer'[m].row = writer[m].row
      /\ writer'[m].target = writer[m].target
  BY <1>1 DEF WriteData, Writer, TypeOK, WriterTypes
<1>3. stores' = [stores EXCEPT ![writer[m].target].data[writer[m].row] =
                                  ValidTime(m)]
  BY DEF WriteData
<1> QED
  BY <1>1, <1>2, <1>3 DEF WriteData, TypeOK, StoreTypes, Store

LEMMA TimeEffect ==
    ASSUME TypeOK, NEW m \in Models, WriteTime(m)
    PROVE  /\ current' = current
           /\ \A n \in Models : n # m => writer'[n] = writer[n]
           /\ writer[m].phase = "time"
           /\ writer'[m].init = writer[m].init
           /\ writer'[m].target = writer[m].target
           /\ \/ writer'[m].phase = "finish"
              \/ /\ writer'[m].phase = "data"
                 /\ writer'[m].row = writer[m].row + 1
           /\ \A x \in Models : x # writer[m].target => stores'[x] = stores[x]
           /\ \A x \in Models : stores'[x].data = stores[x].data
           /\ \A x \in Models, h \in Rows :
                 stores'[x].time[h] =
                    IF x = writer[m].target /\ h = writer[m].row
                    THEN ValidTime(m) ELSE stores[x].time[h]
<1>1. writer[m] \in Writer /\ writer[m].target \in Models
      /\ writer[m].row \in Rows
  BY RecordTypes DEF WriteTime
<1>2. /\ \A n \in Models : n # m => writer'[n] = writer[n]
      /\ writer'[m].init = writer[m].init
      /\ writer'[m].target = writer[m].target
      /\ \/ writer'[m].phase = "finish"
         \/ /\ writer'[m].phase = "data"
            /\ writer'[m].row = writer[m].row + 1
  <2>1. CASE writer[m].row = LastRow(m)
    <3>1. writer' = [writer EXCEPT ![m].phase = "finish"]
      BY <2>1 DEF WriteTime
    <3> QED
      BY <1>1, <3>1 DEF Writer, TypeOK, WriterTypes
  <2>2. CASE writer[m].row # LastRow(m)
    <3> DEFINE w == [writer[m] EXCEPT !.phase = "data",
                                      !.row = writer[m].row + 1]
    <3>1. writer' = [writer EXCEPT ![m] = w]
      BY <2>2 DEF WriteTime
    <3>2. /\ w.phase = "data" /\ w.row = writer[m].row + 1
          /\ w.init = writer[m].init /\ w.target = writer[m].target
      BY <1>1 DEF Writer
    <3> HIDE DEF w
    <3> QED
      BY <3>1, <3>2 DEF TypeOK, WriterTypes
  <2> QED
    BY <2>1, <2>2
<1>3. stores' = [stores EXCEPT ![writer[m].target].time[writer[m].row] =
                                  ValidTime(m)]
  BY DEF WriteTime, NewTime
<1> QED
  BY <1>1, <1>2, <1>3 DEF WriteTime, TypeOK, StoreTypes, Store

LEMMA FinishEffect ==
    ASSUME TypeOK, NEW m \in Models, FinishWrite(m)
    PROVE  /\ stores' = stores /\ current' = current
           /\ \A n \in Models : n # m => writer'[n] = writer[n]
           /\ writer[m].phase = "finish" /\ writer'[m].phase = "idle"
           /\ writer'[m].init = writer[m].init
           /\ writer'[m].target = writer[m].target
BY DEF FinishWrite, TypeOK, WriterTypes, Writer

-----------------------------------------------------------------------------
(* The inductive invariant *)

\* Steps that touch neither the store nor the threads.
LEMMA IdleStep ==
    ASSUME IInv, UNCHANGED <<stores, current, writer>>
    PROVE  (Private /\ Filled /\ Paired /\ Bounded /\ TimeMatchesData)'
BY DEF IInv, Private, Filled, Paired, Bounded, TimeMatchesData, MidRow,
       ValidTime

LEMMA BeginStep ==
    ASSUME IInv, NEW m \in Models, BeginWrite(m)
    PROVE  (Private /\ Filled /\ Paired /\ Bounded /\ TimeMatchesData)'
<1>1. TypeOK /\ Private /\ Filled /\ Paired /\ Bounded /\ TimeMatchesData
  BY DEF IInv
<1>2. /\ stores' = stores /\ current' = current
      /\ \A n \in Models : n # m => writer'[n] = writer[n]
      /\ writer[m].phase = "idle"
      /\ writer'[m].phase = IF current = None THEN "create" ELSE "data"
      /\ writer'[m].init \in Nat /\ writer'[m].init >= writer[m].init
      /\ writer'[m].target = current /\ writer'[m].row = FirstRow(m)
  BY <1>1, BeginEffect
<1>3. None \notin Models /\ current \in Models \union {None}
  BY <1>1, Slices DEF TypeOK, StoreTypes
<1>4. Private'
  BY <1>1, <1>2, <1>3 DEF Private
<1>5. Filled'
  <2>1. \A g \in Slice(m) : ~(g < FirstRow(m))
    BY Slices DEF Slice
  <2> QED
    BY <1>1, <1>2, <2>1 DEF Filled
<1>6. Paired'
  BY <1>1, <1>2 DEF Paired, ValidTime
<1>7. Bounded'
  <2> SUFFICES ASSUME NEW x \in Models, NEW n \in Models, NEW h \in Slice(n)
               PROVE  stores'[x].time[h] <= writer'[n].init + h
    BY DEF Bounded
  <2>1. stores[x].time[h] <= writer[n].init + h
    BY <1>1 DEF Bounded
  <2>2. h \in Rows /\ stores[x].time[h] \in Int /\ writer[n].init \in Nat
    BY <1>1, Slices, RecordTypes
  <2>3. writer'[n].init \in Nat /\ writer'[n].init >= writer[n].init
    BY <1>2, <2>2
  <2> QED
    BY <1>2, <2>1, <2>2, <2>3, StoreAssumption DEF Rows
<1>8. TimeMatchesData'
  BY <1>1, <1>2 DEF TimeMatchesData, MidRow
<1> QED
  BY <1>4, <1>5, <1>6, <1>7, <1>8

LEMMA CreateStep ==
    ASSUME IInv, NEW m \in Models, CreateStore(m)
    PROVE  (Private /\ Filled /\ Paired /\ Bounded /\ TimeMatchesData)'
<1>1. TypeOK /\ Private /\ Filled /\ Paired /\ Bounded /\ TimeMatchesData
  BY DEF IInv
<1>2. /\ stores' = stores /\ current' = m
      /\ \A n \in Models : n # m => writer'[n] = writer[n]
      /\ writer[m].phase = "create" /\ writer'[m].phase = "data"
      /\ writer'[m].init = writer[m].init
      /\ writer'[m].row = writer[m].row /\ writer'[m].target = m
  BY CreateEffect
<1>3. m # None
  BY Slices
<1>4. Private'
  BY <1>1, <1>2, <1>3 DEF Private
<1>5. Filled'
  <2>1. \A g \in Slice(m) : ~(g < FirstRow(m))
    BY Slices DEF Slice
  <2> QED
    BY <1>1, <1>2, <2>1 DEF Filled
<1>6. Paired'
  BY <1>1, <1>2 DEF Paired, ValidTime
<1>7. Bounded'
  BY <1>1, <1>2 DEF Bounded
<1>8. TimeMatchesData'
  BY <1>1, <1>2 DEF TimeMatchesData, MidRow
<1> QED
  BY <1>4, <1>5, <1>6, <1>7, <1>8

LEMMA DataStep ==
    ASSUME IInv, NEW m \in Models, WriteData(m)
    PROVE  (Private /\ Filled /\ Paired /\ Bounded /\ TimeMatchesData)'
<1> DEFINE t == writer[m].target
           r == writer[m].row
<1>1. TypeOK /\ Private /\ Filled /\ Paired /\ Bounded /\ TimeMatchesData
  BY DEF IInv
<1>2. /\ current' = current
      /\ \A n \in Models : n # m => writer'[n] = writer[n]
      /\ writer[m].phase = "data" /\ writer'[m].phase = "time"
      /\ writer'[m].init = writer[m].init
      /\ writer'[m].row = r /\ writer'[m].target = t
      /\ \A x \in Models : x # t => stores'[x] = stores[x]
      /\ \A x \in Models : stores'[x].time = stores[x].time
      /\ \A x \in Models, h \in Rows :
            stores'[x].data[h] = IF x = t /\ h = r
                                 THEN ValidTime(m) ELSE stores[x].data[h]
  BY <1>1, DataEffect
<1>3. t \in Models /\ r \in Slice(m) /\ r \in Rows
  BY <1>1, <1>2, RecordTypes
<1> HIDE DEF t, r
<1>4. Private'
  <2>1. current # None
    BY <1>1, <1>3, Slices DEF Private, t
  <2>2. ASSUME NEW n \in Models, writer'[n].phase = "create"
        PROVE  /\ stores'[n] = EmptyStore /\ current' # n
               /\ \A p \in Models : writer'[p].target # n
    <3>1. n # m /\ writer[n].phase = "create"
      BY <1>2, <2>2
    <3>2. /\ stores[n] = EmptyStore /\ current # n
          /\ \A p \in Models : writer[p].target # n
      BY <1>1, <3>1 DEF Private
    <3> QED
      BY <1>2, <3>2 DEF t
  <2> QED
    BY <1>2, <2>1, <2>2 DEF Private
<1>5. Filled'
  <2>1. \A x \in Models, n \in Models : \A g, h \in Slice(n) :
           g < h /\ stores'[x].time[h] # NoTime => stores'[x].time[g] # NoTime
    BY <1>1, <1>2 DEF Filled
  <2>2. ASSUME NEW n \in Models
        PROVE  /\ writer'[n].phase = "create" => writer'[n].row = FirstRow(n)
               /\ writer'[n].phase \in {"data", "time"} =>
                     \A g \in Slice(n) : g < writer'[n].row =>
                         stores'[writer'[n].target].time[g] # NoTime
    <3>1. writer[n].phase = "create" => writer[n].row = FirstRow(n)
      BY <1>1 DEF Filled
    <3>2. writer[n].phase \in {"data", "time"} =>
             /\ writer[n].target \in Models
             /\ \A g \in Slice(n) : g < writer[n].row =>
                   stores[writer[n].target].time[g] # NoTime
      BY <1>1, RecordTypes DEF Filled
    <3>3. CASE n = m
      BY <1>2, <3>2, <3>3 DEF t, r
    <3>4. CASE n # m
      BY <1>2, <3>1, <3>2, <3>4
    <3> QED
      BY <3>3, <3>4
  <2> QED
    BY <2>1, <2>2 DEF Filled
<1>6. Paired'
  <2> SUFFICES ASSUME NEW n \in Models, writer'[n].phase = "time"
               PROVE  stores'[writer'[n].target].data[writer'[n].row]
                        = ValidTime(n)'
    BY DEF Paired
  <2>1. CASE n = m
    <3>1. stores'[t].data[r] = ValidTime(m)
      BY <1>2, <1>3
    <3>2. ValidTime(m)' = ValidTime(m)
      BY <1>2 DEF ValidTime, r
    <3> QED
      BY <1>2, <2>1, <3>1, <3>2
  <2>2. CASE n # m
    <3>1. writer'[n] = writer[n] /\ writer[n].phase = "time"
      BY <1>2, <2>2
    <3>2. /\ writer[n].target \in Models /\ writer[n].row \in Rows
          /\ writer[n].row \in Slice(n)
      BY <1>1, <3>1, RecordTypes
    <3>3. writer[n].row # r
      BY <1>3, <2>2, <3>2, Slices
    <3>4. stores[writer[n].target].data[writer[n].row] = ValidTime(n)
      BY <1>1, <3>1 DEF Paired
    <3> QED
      BY <1>2, <3>1, <3>2, <3>3, <3>4 DEF ValidTime
  <2> QED
    BY <2>1, <2>2
<1>7. Bounded'
  BY <1>1, <1>2 DEF Bounded
<1>8. TimeMatchesData'
  <2> SUFFICES ASSUME NEW x \in Models, NEW h \in Rows
               PROVE  MidRow(x, h)' \/ stores'[x].time[h] = stores'[x].data[h]
    BY DEF TimeMatchesData
  <2>1. CASE x = t /\ h = r
    BY <1>2, <2>1 DEF MidRow
  <2>2. CASE ~(x = t /\ h = r)
    <3>1. MidRow(x, h) => MidRow(x, h)'
      BY <1>2 DEF MidRow
    <3> QED
      BY <1>1, <1>2, <2>2, <3>1 DEF TimeMatchesData
  <2> QED
    BY <2>1, <2>2
<1> QED
  BY <1>4, <1>5, <1>6, <1>7, <1>8

LEMMA TimeStep ==
    ASSUME IInv, NEW m \in Models, WriteTime(m)
    PROVE  (Private /\ Filled /\ Paired /\ Bounded /\ TimeMatchesData)'
<1> DEFINE t == writer[m].target
           r == writer[m].row
<1>1. TypeOK /\ Private /\ Filled /\ Paired /\ Bounded /\ TimeMatchesData
  BY DEF IInv
<1>2. /\ current' = current
      /\ \A n \in Models : n # m => writer'[n] = writer[n]
      /\ writer[m].phase = "time"
      /\ writer'[m].init = writer[m].init
      /\ writer'[m].target = t
      /\ \/ writer'[m].phase = "finish"
         \/ writer'[m].phase = "data" /\ writer'[m].row = r + 1
      /\ \A x \in Models : x # t => stores'[x] = stores[x]
      /\ \A x \in Models : stores'[x].data = stores[x].data
      /\ \A x \in Models, h \in Rows :
            stores'[x].time[h] = IF x = t /\ h = r
                                 THEN ValidTime(m) ELSE stores[x].time[h]
  BY <1>1, TimeEffect
<1>3. /\ t \in Models /\ r \in Slice(m) /\ r \in Rows
      /\ ValidTime(m) \in Nat /\ ValidTime(m) # NoTime
      /\ ValidTime(m) = writer[m].init + r
      /\ stores[t].data[r] = ValidTime(m)
  BY <1>1, <1>2, RecordTypes DEF Paired, ValidTime
<1> HIDE DEF t, r
<1>4. Private'
  <2>1. current # None
    BY <1>1, <1>3, Slices DEF Private, t
  <2>2. ASSUME NEW n \in Models, writer'[n].phase = "create"
        PROVE  /\ stores'[n] = EmptyStore /\ current' # n
               /\ \A p \in Models : writer'[p].target # n
    <3>1. n # m /\ writer[n].phase = "create"
      BY <1>2, <2>2
    <3>2. /\ stores[n] = EmptyStore /\ current # n
          /\ \A p \in Models : writer[p].target # n
      BY <1>1, <3>1 DEF Private
    <3> QED
      BY <1>2, <3>2 DEF t
  <2> QED
    BY <1>2, <2>1, <2>2 DEF Private
<1>5. \A x \in Models, h \in Rows :
         stores[x].time[h] # NoTime => stores'[x].time[h] # NoTime
  BY <1>2, <1>3
<1>6. \A g \in Slice(m) : g < r => stores[t].time[g] # NoTime
  BY <1>1, <1>2 DEF Filled, t, r
<1>7. Filled'
  <2>1. ASSUME NEW x \in Models, NEW n \in Models,
               NEW g \in Slice(n), NEW h \in Slice(n),
               g < h, stores'[x].time[h] # NoTime
        PROVE  stores'[x].time[g] # NoTime
    <3>1. g \in Rows /\ h \in Rows
      BY Slices
    <3>2. CASE x = t /\ h = r
      <4>1. n = m
        BY <1>3, <3>2, Slices
      <4> QED
        BY <1>5, <1>6, <2>1, <3>1, <3>2, <4>1
    <3>3. CASE ~(x = t /\ h = r)
      <4>1. stores[x].time[h] # NoTime
        BY <1>2, <2>1, <3>1, <3>3
      <4>2. stores[x].time[g] # NoTime
        BY <1>1, <2>1, <4>1 DEF Filled
      <4> QED
        BY <1>5, <3>1, <4>2
    <3> QED
      BY <3>2, <3>3
  <2>2. ASSUME NEW n \in Models
        PROVE  /\ writer'[n].phase = "create" => writer'[n].row = FirstRow(n)
               /\ writer'[n].phase \in {"data", "time"} =>
                     \A g \in Slice(n) : g < writer'[n].row =>
                         stores'[writer'[n].target].time[g] # NoTime
    <3>1. CASE n = m
      <4>1. ASSUME NEW g \in Slice(m), g < r + 1
            PROVE  stores'[t].time[g] # NoTime
        <5>1. g \in Rows /\ (g < r \/ g = r)
          BY <1>3, <4>1, Slices, StoreAssumption DEF Rows
        <5> QED
          BY <1>2, <1>3, <1>5, <1>6, <4>1, <5>1
      <4> QED
        BY <1>2, <3>1, <4>1
    <3>2. CASE n # m
      <4>1. writer'[n] = writer[n]
        BY <1>2, <3>2
      <4>2. ASSUME writer[n].phase \in {"data", "time"}, NEW g \in Slice(n),
                   g < writer[n].row
            PROVE  stores'[writer[n].target].time[g] # NoTime
        <5>1. stores[writer[n].target].time[g] # NoTime
          BY <1>1, <4>2 DEF Filled
        <5>2. writer[n].target \in Models /\ g \in Rows
          BY <1>1, <4>2, RecordTypes, Slices
        <5> QED
          BY <1>5, <5>1, <5>2
      <4> QED
        BY <1>1, <4>1, <4>2 DEF Filled
    <3> QED
      BY <3>1, <3>2
  <2> QED
    BY <2>1, <2>2 DEF Filled
<1>8. Paired'
  <2> SUFFICES ASSUME NEW n \in Models, writer'[n].phase = "time"
               PROVE  stores'[writer'[n].target].data[writer'[n].row]
                        = ValidTime(n)'
    BY DEF Paired
  <2>1. n # m /\ writer'[n] = writer[n] /\ writer[n].phase = "time"
    BY <1>2
  <2>2. writer[n].target \in Models
    BY <1>1, <2>1, RecordTypes
  <2> QED
    BY <1>1, <1>2, <2>1, <2>2 DEF Paired, ValidTime
<1>9. Bounded'
  <2> SUFFICES ASSUME NEW x \in Models, NEW n \in Models, NEW h \in Slice(n)
               PROVE  stores'[x].time[h] <= writer'[n].init + h
    BY DEF Bounded
  <2>1. h \in Rows /\ writer'[n].init = writer[n].init
    BY <1>2, Slices
  <2>2. CASE x = t /\ h = r
    <3>1. n = m
      BY <1>3, <2>2, Slices
    <3>2. writer[m].init \in Nat /\ r \in Int
      BY <1>1, RecordTypes, StoreAssumption DEF r, Rows
    <3> QED
      BY <1>2, <1>3, <2>1, <2>2, <3>1, <3>2
  <2>3. CASE ~(x = t /\ h = r)
    BY <1>1, <1>2, <2>1, <2>3 DEF Bounded
  <2> QED
    BY <2>2, <2>3
<1>10. TimeMatchesData'
  <2> SUFFICES ASSUME NEW x \in Models, NEW h \in Rows
               PROVE  MidRow(x, h)' \/ stores'[x].time[h] = stores'[x].data[h]
    BY DEF TimeMatchesData
  <2>1. CASE x = t /\ h = r
    BY <1>2, <1>3, <2>1
  <2>2. CASE ~(x = t /\ h = r)
    <3>1. MidRow(x, h) => MidRow(x, h)'
      BY <1>2, <2>2 DEF MidRow, t, r
    <3> QED
      BY <1>1, <1>2, <2>2, <3>1 DEF TimeMatchesData
  <2> QED
    BY <2>1, <2>2
<1> QED
  BY <1>4, <1>7, <1>8, <1>9, <1>10

LEMMA FinishStep ==
    ASSUME IInv, NEW m \in Models, FinishWrite(m)
    PROVE  (Private /\ Filled /\ Paired /\ Bounded /\ TimeMatchesData)'
<1>1. TypeOK /\ Private /\ Filled /\ Paired /\ Bounded /\ TimeMatchesData
  BY DEF IInv
<1>2. /\ stores' = stores /\ current' = current
      /\ \A n \in Models : n # m => writer'[n] = writer[n]
      /\ writer[m].phase = "finish" /\ writer'[m].phase = "idle"
      /\ writer'[m].init = writer[m].init
      /\ writer'[m].target = writer[m].target
  BY <1>1, FinishEffect
<1>3. Private'
  BY <1>1, <1>2 DEF Private
<1>4. Filled'
  BY <1>1, <1>2 DEF Filled
<1>5. Paired'
  BY <1>1, <1>2 DEF Paired, ValidTime
<1>6. Bounded'
  BY <1>1, <1>2 DEF Bounded
<1>7. TimeMatchesData'
  BY <1>1, <1>2 DEF TimeMatchesData, MidRow
<1> QED
  BY <1>3, <1>4, <1>5, <1>6, <1>7

LEMMA InductiveInvariant == Spec => []IInv
<1>1. Init => IInv
  <2> SUFFICES ASSUME Init PROVE IInv
    OBVIOUS
  <2>1. \A x \in Models, h \in Rows :
           stores[x].time[h] = NoTime /\ stores[x].data[h] = NoTime
    BY DEF Init, EmptyStore
  <2>2. \A m \in Models : /\ writer[m].phase = "idle" /\ writer[m].init = 0
                          /\ writer[m].target = None
    BY DEF Init, IdleWriter
  <2>3. Private
    BY <2>2 DEF Private, Init
  <2>4. Filled /\ Paired /\ TimeMatchesData
    BY <2>1, <2>2, Slices DEF Filled, Paired, TimeMatchesData
  <2>5. Bounded
    BY <2>1, <2>2, Slices, StoreAssumption DEF Bounded, Rows, NoTime
  <2>6. StoreTypes
    BY StoreAssumption DEF Init, StoreTypes, Store, EmptyStore, Time
  <2>7. WriterTypes
    BY StoreAssumption DEF Init, WriterTypes, Writer, IdleWriter, Rows
  <2>8. ReaderTypes
    BY StoreAssumption DEF Init, ReaderTypes, Reader, IdleReader, Rows
  <2> QED
    BY <2>3, <2>4, <2>5, <2>6, <2>7, <2>8 DEF IInv, TypeOK
<1>2. IInv /\ [Next]_vars => IInv'
  <2> SUFFICES ASSUME IInv, [Next]_vars PROVE IInv'
    OBVIOUS
  <2>1. TypeOK'
    BY StoreTypesStep, WriterTypesStep, ReaderTypesStep DEF TypeOK, IInv
  <2>2. CASE UNCHANGED <<stores, current, writer>>
    BY <2>1, <2>2, IdleStep DEF IInv
  <2>3. ASSUME NEW m \in Models,
               \/ BeginWrite(m) \/ CreateStore(m) \/ WriteData(m)
               \/ WriteTime(m) \/ FinishWrite(m)
        PROVE  IInv'
    BY <2>1, <2>3, BeginStep, CreateStep, DataStep, TimeStep, FinishStep
    DEF IInv
  <2>4. NextSlot \/ ReaderStep \/ UNCHANGED vars =>
           UNCHANGED <<stores, current, writer>>
    BY ReaderOnly DEF NextSlot, vars
  <2> QED
    BY <2>2, <2>3, <2>4 DEF Next, ReaderStep
<1> QED
  BY <1>1, <1>2, PTL DEF Spec

-----------------------------------------------------------------------------
(* The results *)

\* Whatever the two threads interleave, and even when each has made a store,
\* a row outside a write in progress shows data for its valid time.
THEOREM TimesMatchData == Spec => []TimeMatchesData
<1>1. IInv => TimeMatchesData
  BY DEF IInv
<1> QED
  BY <1>1, InductiveInvariant, PTL

\* The populated range of a store has a gap at most in the CH1 rows, and only
\* until CH1 has written that store once.
THEOREM GapsOnlyInFirstCh1Write == Spec => []GapOnlyInFirstCh1Write
<1>1. IInv => GapOnlyInFirstCh1Write
  <2> SUFFICES ASSUME IInv, NEW x \in Models, NEW h \in Rows, Gap(x, h)
               PROVE  h < Ch2Start /\ stores[x].time[Ch2Start - 1] = NoTime
    BY DEF GapOnlyInFirstCh1Write
  <2> PICK g \in Rows : h < g /\ stores[x].time[g] # NoTime
    BY DEF Gap
  <2>1. stores[x].time[h] = NoTime
    BY DEF Gap
  <2>2. \A m \in Models : \A i, j \in Slice(m) :
           i < j /\ stores[x].time[j] # NoTime => stores[x].time[i] # NoTime
    BY DEF IInv, Filled
  <2>3. h < Ch2Start
    <3>1. SUFFICES ASSUME h >= Ch2Start PROVE FALSE
      BY StoreAssumption DEF Rows
    <3>2. h \in Slice("icon-ch2") /\ g \in Slice("icon-ch2")
      BY <3>1, StoreAssumption DEF Slice, FirstRow, LastRow, Rows
    <3> QED
      BY <2>1, <2>2, <3>2 DEF Models
  <2>4. stores[x].time[Ch2Start - 1] = NoTime
    <3>1. h \in Slice("icon-ch1") /\ Ch2Start - 1 \in Slice("icon-ch1")
          /\ (h < Ch2Start - 1 \/ h = Ch2Start - 1)
      BY <2>3, StoreAssumption DEF Slice, FirstRow, LastRow, Rows
    <3> QED
      BY <2>1, <2>2, <3>1 DEF Models
  <2> QED
    BY <2>3, <2>4
<1> QED
  BY <1>1, InductiveInvariant, PTL

\* No interleaving takes a row of a store back to an older run or empties it.
THEOREM RowsOnlyAdvance == Spec => RowsNeverGoBack
<1> DEFINE Advance == \A x \in Models, h \in Rows :
                         stores'[x].time[h] >= stores[x].time[h]
<1>1. IInv /\ [Next]_vars => [Advance]_vars
  <2> SUFFICES ASSUME IInv, Next, NEW x \in Models, NEW h \in Rows
               PROVE  stores'[x].time[h] >= stores[x].time[h]
    OBVIOUS
  <2>1. TypeOK /\ stores[x].time[h] \in Int
    BY RecordTypes DEF IInv
  <2>2. CASE stores' = stores
    BY <2>1, <2>2
  <2>3. ASSUME NEW m \in Models, WriteTime(m)
        PROVE  stores'[x].time[h] >= stores[x].time[h]
    <3>1. stores'[x].time[h] = IF x = writer[m].target /\ h = writer[m].row
                               THEN ValidTime(m) ELSE stores[x].time[h]
      BY <2>1, <2>3, TimeEffect
    <3>2. writer[m].phase = "time"
      BY <2>3 DEF WriteTime
    <3>3. writer[m].row \in Slice(m)
      BY <2>1, <3>2, RecordTypes
    <3>4. stores[x].time[writer[m].row] <= ValidTime(m)
      BY <3>3 DEF IInv, Bounded, ValidTime
    <3>5. ValidTime(m) \in Int
      BY <2>1, RecordTypes
    <3> QED
      BY <2>1, <3>1, <3>4, <3>5
  <2>4. ASSUME NEW m \in Models,
               BeginWrite(m) \/ CreateStore(m) \/ FinishWrite(m)
        PROVE  stores' = stores
    BY <2>1, <2>4, BeginEffect, CreateEffect, FinishEffect
  <2>5. ASSUME NEW m \in Models, WriteData(m)
        PROVE  stores'[x].time = stores[x].time
    BY <2>1, <2>5, DataEffect
  <2>6. NextSlot \/ ReaderStep => stores' = stores
    BY ReaderOnly DEF NextSlot
  <2> QED
    BY <2>1, <2>2, <2>3, <2>4, <2>5, <2>6 DEF Next, ReaderStep
<1> QED
  BY <1>1, InductiveInvariant, PTL DEF Spec, RowsNeverGoBack
-----------------------------------------------------------------------------
(* The answers *)

\* While no row of its store is written, a request's copy of the valid times
\* is what the store says, and the frames built so far have their own data.
QuietView ==
    reader.phase # "idle" /\ reader.quiet =>
        /\ \A m \in Models : writer[m].phase = "time" =>
              writer[m].target # reader.target
        /\ \A i \in DOMAIN reader.times :
              reader.times[i] =
                 stores[reader.target].time[reader.from + i - 1]
        /\ \A i \in DOMAIN reader.frames :
              reader.frames[i].data = reader.frames[i].time

\* The request as a step of a thread leaves it.
LEMMA WriterKeepsView ==
    ASSUME IInv, QuietView, NEW m \in Models,
           \/ BeginWrite(m) \/ CreateStore(m) \/ WriteData(m)
           \/ WriteTime(m) \/ FinishWrite(m)
    PROVE  QuietView'
<1>1. TypeOK /\ reader \in Reader
  BY DEF IInv, TypeOK, ReaderTypes
<1>2. CASE BeginWrite(m) \/ CreateStore(m) \/ FinishWrite(m)
  <2>1. /\ stores' = stores
        /\ \A n \in Models : n # m => writer'[n] = writer[n]
        /\ writer'[m].phase # "time"
    BY <1>1, <1>2, BeginEffect, CreateEffect, FinishEffect
  <2>2. reader' = reader
    BY <1>2 DEF BeginWrite, CreateStore, FinishWrite
  <2> QED
    BY <2>1, <2>2 DEF QuietView
<1>3. CASE WriteData(m)
  <2>1. reader' = [reader EXCEPT !.quiet =
                      reader.quiet /\ reader.target # writer[m].target]
    BY <1>3 DEF WriteData
  <2>2. /\ reader'.phase = reader.phase /\ reader'.target = reader.target
        /\ reader'.times = reader.times /\ reader'.from = reader.from
        /\ reader'.frames = reader.frames
        /\ reader'.quiet => reader.quiet /\ reader.target # writer[m].target
    BY <1>1, <2>1 DEF Reader
  <2>3. SUFFICES ASSUME reader'.phase # "idle", reader'.quiet
                 PROVE  /\ \A n \in Models : writer'[n].phase = "time" =>
                              writer'[n].target # reader.target
                        /\ \A i \in DOMAIN reader.times :
                              reader.times[i] =
                                stores'[reader.target].time[reader.from + i - 1]
                        /\ \A i \in DOMAIN reader.frames :
                              reader.frames[i].data = reader.frames[i].time
    BY <2>2 DEF QuietView
  <2>4. reader.target \in Models
    BY <1>1, <2>2, <2>3 DEF TypeOK, ReaderTypes, Reader
  <2>5. /\ stores'[reader.target] = stores[reader.target]
        /\ \A n \in Models : n # m => writer'[n] = writer[n]
        /\ writer'[m].target = writer[m].target
    BY <1>1, <1>3, <2>2, <2>3, <2>4, DataEffect
  <2> QED
    BY <2>2, <2>3, <2>5 DEF QuietView
<1>4. CASE WriteTime(m)
  <2>1. /\ writer[m].phase = "time"
        /\ \A n \in Models : n # m => writer'[n] = writer[n]
        /\ writer'[m].phase # "time"
        /\ \A x \in Models : x # writer[m].target => stores'[x] = stores[x]
    BY <1>1, <1>4, TimeEffect
  <2>2. reader' = reader
    BY <1>4 DEF WriteTime
  <2>3. reader.phase # "idle" => reader.target \in Models
    BY <1>1 DEF TypeOK, ReaderTypes, Reader
  <2> QED
    BY <2>1, <2>2, <2>3 DEF QuietView
<1> QED
  BY <1>2, <1>3, <1>4

\* The frame BuildFrame appends.
NextFrame ==
    [time |-> reader.times[Len(reader.frames) + 1],
     data |-> stores[reader.target].data[
                 reader.from + (Len(reader.frames) + 1) - 1]]

\* A quiet request reads a row that no thread is in the middle of.
LEMMA NextFrameMatches ==
    ASSUME IInv, QuietView, reader.phase = "frames", reader.quiet
    PROVE  NextFrame.data = NextFrame.time
<1> DEFINE i == Len(reader.frames) + 1
           h == reader.from + i - 1
<1>1. /\ reader.target \in Models /\ reader.from \in Rows
      /\ reader.to \in Rows /\ reader.times \in Seq(Time)
      /\ Len(reader.frames) \in Nat
      /\ Len(reader.times) = reader.to - reader.from + 1
      /\ Len(reader.frames) < Len(reader.times)
  <2>1. reader.frames \in Seq([time : Time, data : Time])
    BY DEF IInv, TypeOK, ReaderTypes, Reader
  <2>2. Len(reader.frames) \in Nat
    BY <2>1
  <2> QED
    BY <2>2 DEF IInv, TypeOK, ReaderTypes, Reader
<1>2. i \in DOMAIN reader.times /\ h \in Rows
  <2>1. reader.from \in Nat /\ reader.to \in Nat /\ reader.to <= NFrames - 1
    BY <1>1, StoreAssumption DEF Rows
  <2>2. i \in 1..Len(reader.times) /\ h \in 0..(NFrames - 1)
    BY <1>1, <2>1, StoreAssumption
  <2> QED
    BY <1>1, <2>2 DEF Rows
<1>3. reader.times[i] = stores[reader.target].time[h]
  BY <1>2 DEF QuietView
<1>4. ~MidRow(reader.target, h)
  BY DEF QuietView, MidRow
<1>5. stores[reader.target].time[h] = stores[reader.target].data[h]
  BY <1>1, <1>2, <1>4 DEF IInv, TimeMatchesData
<1> QED
  BY <1>3, <1>5 DEF NextFrame

\* One more frame that has its own data.
LEMMA OneMoreFrame ==
    ASSUME NEW T, NEW s \in Seq(T), NEW f \in T, f.data = f.time,
           \A i \in DOMAIN s : s[i].data = s[i].time
    PROVE  \A i \in DOMAIN Append(s, f) :
              Append(s, f)[i].data = Append(s, f)[i].time
<1> SUFFICES ASSUME NEW i \in DOMAIN Append(s, f)
             PROVE  Append(s, f)[i].data = Append(s, f)[i].time
  OBVIOUS
<1>1. i \in 1..(Len(s) + 1)
  OBVIOUS
<1>2. CASE i = Len(s) + 1
  BY <1>2
<1>3. CASE i # Len(s) + 1
  <2>1. i \in DOMAIN s /\ Append(s, f)[i] = s[i]
    BY <1>1, <1>3
  <2> QED
    BY <2>1
<1> QED
  BY <1>2, <1>3

\* A step of the handler, and the answer it gives.
LEMMA ReaderKeepsView ==
    ASSUME IInv, QuietView, ReaderStep
    PROVE  QuietView' /\ QuietFramesConsistent'
<1>1. UNCHANGED <<stores, writer>>
  BY ReaderOnly
<1>2. reader \in Reader /\ reader.frames \in Seq([time : Time, data : Time])
      /\ reader.phase \in {"idle", "label", "slice", "frames"}
  BY DEF IInv, TypeOK, ReaderTypes, Reader
<1>3. CASE ReadNothing
  <2>1. reader' = reader /\ response'.status = 503
    BY <1>3 DEF ReadNothing
  <2> QED
    BY <1>1, <2>1 DEF QuietView, QuietFramesConsistent
<1>4. CASE ReadRange
  <2> DEFINE q == \A h \in Rows : ~MidRow(current, h)
  <2> PICK f \in Rows, l \in Rows :
        reader' = [IdleReader EXCEPT !.phase = "label",
                         !.target = current, !.from = f, !.to = l,
                         !.quiet = q]
    BY <1>4 DEF ReadRange, Populated
  <2> HIDE DEF q
  <2>1. /\ reader'.target = current /\ reader'.quiet = q
        /\ reader'.times = <<>> /\ reader'.frames = <<>>
    BY DEF IdleReader
  <2>2. q => \A m \in Models : writer[m].phase = "time" =>
                writer[m].target # current
    BY RecordTypes DEF q, MidRow, IInv
  <2>3. DOMAIN reader'.times = {} /\ DOMAIN reader'.frames = {}
    BY <2>1
  <2>4. response' = NoResponse
    BY <1>4 DEF ReadRange, Silent
  <2> QED
    BY <1>1, <2>1, <2>2, <2>3, <2>4
    DEF QuietView, QuietFramesConsistent, NoResponse
<1>5. CASE ReadLabel
  <2>1. reader' = [reader EXCEPT !.phase = "slice", !.model = CombinedModel]
        /\ response' = NoResponse /\ reader.phase = "label"
    BY <1>5 DEF ReadLabel, Silent
  <2>2. /\ reader'.target = reader.target /\ reader'.quiet = reader.quiet
        /\ reader'.times = reader.times /\ reader'.frames = reader.frames
        /\ reader'.from = reader.from
    BY <1>2, <2>1 DEF Reader
  <2> QED
    BY <1>1, <2>1, <2>2 DEF QuietView, QuietFramesConsistent, NoResponse
<1>6. CASE SliceTimes
  <2> DEFINE t == [i \in 1..(reader.to - reader.from + 1) |->
                     stores[reader.target].time[reader.from + i - 1]]
  <2>1. reader' = [reader EXCEPT !.phase = "frames", !.times = t]
        /\ response' = NoResponse /\ reader.phase = "slice"
    BY <1>6 DEF SliceTimes, Silent
  <2>2. \A i \in DOMAIN t :
           t[i] = stores[reader.target].time[reader.from + i - 1]
    OBVIOUS
  <2> HIDE DEF t
  <2>3. /\ reader'.target = reader.target /\ reader'.quiet = reader.quiet
        /\ reader'.times = t /\ reader'.frames = reader.frames
        /\ reader'.from = reader.from
    BY <1>2, <2>1 DEF Reader
  <2> QED
    BY <1>1, <2>1, <2>2, <2>3
    DEF QuietView, QuietFramesConsistent, NoResponse
<1>7. CASE BuildFrame
  <2> DEFINE i     == Len(reader.frames) + 1
             built == Append(reader.frames, NextFrame)
  <2>1. reader.phase = "frames"
    BY <1>7 DEF BuildFrame
  <2>2. NextFrame \in [time : Time, data : Time]
    <3>1. /\ reader.target \in Models /\ reader.from \in Rows
          /\ reader.to \in Rows /\ reader.times \in Seq(Time)
          /\ Len(reader.times) = reader.to - reader.from + 1
          /\ Len(reader.frames) < Len(reader.times)
          /\ stores \in [Models -> Store]
      BY <2>1 DEF IInv, TypeOK, StoreTypes, ReaderTypes, Reader
    <3>2. Len(reader.frames) \in Nat
      BY <1>2
    <3>3. i \in 1..Len(reader.times) /\ reader.from + i - 1 \in Rows
      BY <3>1, <3>2, StoreAssumption DEF Rows
    <3> QED
      BY <3>1, <3>3 DEF NextFrame, Store
  <2>3. reader.quiet => \A j \in DOMAIN built : built[j].data = built[j].time
    <3> SUFFICES ASSUME reader.quiet
                 PROVE  \A j \in DOMAIN built : built[j].data = built[j].time
      OBVIOUS
    <3>1. NextFrame.data = NextFrame.time
      BY <2>1, NextFrameMatches
    <3>2. \A j \in DOMAIN reader.frames :
             reader.frames[j].data = reader.frames[j].time
      BY <2>1 DEF QuietView
    <3> DEFINE T == [time : Time, data : Time]
    <3>3. NextFrame \in T /\ reader.frames \in Seq(T)
      BY <1>2, <2>2
    <3> HIDE DEF T
    <3> QED
      BY <3>1, <3>2, <3>3, OneMoreFrame
  <2> HIDE DEF built
  <2>4. CASE reader' = IdleReader /\ response' = [status |-> 500]
    BY <2>4 DEF QuietView, QuietFramesConsistent, IdleReader
  <2>5. CASE /\ reader' = IdleReader
             /\ response' = [status |-> 200, model |-> reader.model,
                             frames |-> built, quiet |-> reader.quiet]
    <3>1. reader'.phase = "idle" /\ response'.frames = built
          /\ response'.quiet = reader.quiet
      BY <2>5 DEF IdleReader
    <3> QED
      BY <2>3, <3>1 DEF QuietView, QuietFramesConsistent
  <2>6. CASE /\ reader' = [reader EXCEPT !.frames = built]
             /\ response' = NoResponse
    <3>1. /\ reader'.target = reader.target /\ reader'.quiet = reader.quiet
          /\ reader'.times = reader.times /\ reader'.frames = built
          /\ reader'.from = reader.from
      BY <1>2, <2>6 DEF Reader
    <3> QED
      BY <1>1, <2>1, <2>3, <2>6, <3>1
      DEF QuietView, QuietFramesConsistent, NoResponse
  <2> QED
    BY <1>7, <2>4, <2>5, <2>6 DEF BuildFrame, Silent, NextFrame, built
<1> QED
  BY <1>3, <1>4, <1>5, <1>6, <1>7 DEF ReaderStep

\* Whatever the two threads do, a request during which no row of its store
\* was written shows every valid time with the data for it, even a request
\* that began while one of the threads was writing another row or store.
THEOREM QuietFramesHold == Spec => []QuietFramesConsistent
<1>1. Init => QuietView /\ QuietFramesConsistent
  BY DEF Init, IdleReader, NoResponse, QuietView, QuietFramesConsistent
<1>2. ASSUME IInv, QuietView, QuietFramesConsistent, [Next]_vars
      PROVE  QuietView' /\ QuietFramesConsistent'
  <2>1. ASSUME NEW m \in Models,
               \/ BeginWrite(m) \/ CreateStore(m) \/ WriteData(m)
               \/ WriteTime(m) \/ FinishWrite(m)
        PROVE  QuietView' /\ QuietFramesConsistent'
    <3>1. response' = NoResponse
      BY <2>1 DEF BeginWrite, CreateStore, WriteData, WriteTime, FinishWrite,
                  Silent
    <3>2. QuietFramesConsistent'
      BY <3>1 DEF QuietFramesConsistent, NoResponse
    <3> QED
      BY <1>2, <2>1, <3>2, WriterKeepsView
  <2>2. CASE NextSlot
    BY <1>2, <2>2
    DEF NextSlot, Silent, QuietView, QuietFramesConsistent, NoResponse
  <2>3. CASE UNCHANGED vars
    BY <1>2, <2>3 DEF vars, QuietView, QuietFramesConsistent
  <2>4. CASE ReaderStep
    BY <1>2, <2>4, ReaderKeepsView
  <2> QED
    BY <1>2, <2>1, <2>2, <2>3, <2>4 DEF Next, ReaderStep
<1> QED
  BY <1>1, <1>2, InductiveInvariant, PTL DEF Spec
=============================================================================
