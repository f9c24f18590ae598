------------------------------ MODULE GridStore ------------------------------
(***************************************************************************)
(* The combined grid store of lsmfapi/database/cache.py: one array over    *)
(* the whole forecast axis, into which each model's worker thread writes   *)
(* its own rows in place while request handlers read views of it.  The     *)
(* wind grid and the thermal grid have the same code and share nothing;    *)
(* this is either of them.                                                 *)
(*                                                                         *)
(* There is no lock.  A row is abstracted to the valid time its data is    *)
(* for (the real arrays hold numbers that do not say what they are for),   *)
(* so that data shown under another time is visible in the model.          *)
(***************************************************************************)
EXTENDS Integers, Sequences, FiniteSets

CONSTANTS
    NFrames,    \* rows of the store, 121 in the code (h0 .. h120)
    Ch2Start,   \* first row of CH2, 34 in the code
    RunStep,    \* hours between two model runs, 6 in the code
    MaxSlot     \* bound: model runs in a behaviour

ASSUME StoreAssumption ==
    /\ NFrames \in Nat /\ Ch2Start \in Nat
    /\ 0 < Ch2Start /\ Ch2Start < NFrames
    /\ RunStep \in Nat /\ MaxSlot \in Nat

Models == {"icon-ch1", "icon-ch2"}
None   == "none"
NoTime == -1
Rows   == 0..(NFrames - 1)

VARIABLES
    stores,     \* the store objects; a thread creates at most one: its name
    current,    \* the global _grid_wind_cache / _thermal_grid_cache
    modelInit,  \* _*_grid_model_init: the run each model last wrote
    writer,     \* model |-> where its set_*_grid_cache stands
    slot,       \* the newest model run whose publication guard has elapsed
    reader,     \* the request being served by the event loop
    response    \* the answer given by the last step, if it gave one

vars == <<stores, current, modelInit, writer, slot, reader, response>>

NoResponse == [status |-> 0]
Silent == response' = NoResponse

-----------------------------------------------------------------------------
(* The worker threads: set_grid_wind_cache, set_thermal_grid_cache *)

\* Variant for mutation: CH2 leaves out its first horizon.
FirstRow_Skip(m) == IF m = "icon-ch1" THEN 0 ELSE Ch2Start + 1

\* Both collectors provide a frame for each of their horizons, in order.
FirstRow(m) == IF m = "icon-ch1" THEN 0 ELSE Ch2Start
LastRow(m)  == IF m = "icon-ch1" THEN Ch2Start - 1 ELSE NFrames - 1

EmptyStore == [time |-> [h \in Rows |-> NoTime],
               data |-> [h \in Rows |-> NoTime]]
IdleWriter == [phase |-> "idle", init |-> 0, target |-> None, row |-> 0]

\* A CH1 run works on the newest slot, a CH2 run for a while on the one before.
RefSlots(m) == IF m = "icon-ch1" THEN {slot} ELSE {slot, slot - 1} \cap Nat

\* Variant for mutation: the slice is written to the store seen, if any.
FirstPhase_NoCreate(seen) == "data"

\* Variant for mutation: a new store for every write.
FirstPhase_Recreate(seen) == "create"

\* Only a thread that has seen no store makes one.
FirstPhase(seen) == IF seen = None THEN "create" ELSE "data"

\* The slice is built; the setter reads the global once and keeps what it saw.
BeginWrite(m) ==
    /\ writer[m].phase = "idle"
    /\ \E s \in RefSlots(m) :
        /\ s * RunStep >= writer[m].init
        /\ writer' = [writer EXCEPT ![m] =
               [phase |-> FirstPhase(current), init |-> s * RunStep,
                target |-> current, row |-> FirstRow(m)]]
    /\ Silent
    /\ UNCHANGED <<stores, current, modelInit, slot, reader>>

\* Allocating the arrays takes long, and nothing is read again afterwards.
CreateStore(m) ==
    /\ writer[m].phase = "create"
    /\ stores' = [stores EXCEPT ![m] = EmptyStore]
    /\ current' = m
    /\ writer' = [writer EXCEPT ![m] =
                    [writer[m] EXCEPT !.phase = "data", !.target = m]]
    /\ Silent
    /\ UNCHANGED <<modelInit, slot, reader>>

ValidTime(m) == writer[m].init + writer[m].row

\* Between WriteData and WriteTime of row h of store x.
MidRow(x, h) ==
    \E m \in Models : /\ writer[m].phase = "time"
                      /\ writer[m].target = x /\ writer[m].row = h

\* The arrays of one frame ...
WriteData(m) ==
    LET w == writer[m] IN
    /\ w.phase = "data"
    /\ stores' = [stores EXCEPT ![w.target].data[w.row] = ValidTime(m)]
    /\ writer' = [writer EXCEPT ![m].phase = "time"]
    /\ reader' = [reader EXCEPT !.quiet = @ /\ reader.target # w.target]
    /\ Silent
    /\ UNCHANGED <<current, modelInit, slot>>

\* Variant for mutation: a frame that has a time keeps it.
NewTime_KeepOld(old, new) == IF old = NoTime THEN new ELSE old

NewTime(old, new) == new

\* ... and then its valid time.
WriteTime(m) ==
    LET w == writer[m] IN
    /\ w.phase = "time"
    /\ stores' = [stores EXCEPT ![w.target].time[w.row] =
                                    NewTime(@, ValidTime(m))]
    /\ writer' = IF w.row = LastRow(m)
                 THEN [writer EXCEPT ![m].phase = "finish"]
                 ELSE [writer EXCEPT ![m] =
                         [w EXCEPT !.phase = "data", !.row = w.row + 1]]
    /\ Silent
    /\ UNCHANGED <<current, modelInit, slot, reader>>

FinishWrite(m) ==
    /\ writer[m].phase = "finish"
    /\ modelInit' = [modelInit EXCEPT ![m] = writer[m].init]
    /\ writer' = [writer EXCEPT ![m].phase = "idle"]
    /\ Silent
    /\ UNCHANGED <<stores, current, slot, reader>>

\* Six hours pass and the next run becomes eligible.
NextSlot ==
    /\ slot < MaxSlot
    /\ slot' = slot + 1
    /\ Silent
    /\ UNCHANGED <<stores, current, modelInit, writer, reader>>

-----------------------------------------------------------------------------
(* The event loop: get_*_grid_cache and the two grid handlers *)

IdleReader == [phase |-> "idle", target |-> None, from |-> 0, to |-> 0,
               model |-> None, times |-> <<>>, frames |-> <<>>,
               quiet |-> TRUE]

\* _populated_range: from the first to the last row that has a valid time.
Populated(store) == {h \in Rows : store.time[h] # NoTime}

\* The request finds no frame at all ...
ReadNothing ==
    /\ reader.phase = "idle"
    /\ \/ current = None
       \/ current # None /\ Populated(stores[current]) = {}
    /\ response' = [status |-> 503]
    /\ UNCHANGED <<stores, current, modelInit, writer, slot, reader>>

\* ... or takes the range of the frames there are.
ReadRange ==
    /\ reader.phase = "idle"
    /\ current # None
    /\ \E f, l \in Populated(stores[current]) :
        /\ \A h \in Populated(stores[current]) : f <= h /\ h <= l
        /\ reader' = [IdleReader EXCEPT !.phase = "label", !.target = current,
                         !.from = f, !.to = l,
                         !.quiet = \A h \in Rows : ~MidRow(current, h)]
    /\ Silent
    /\ UNCHANGED <<stores, current, modelInit, writer, slot>>

\* _combined_model
CombinedModel ==
    LET present == {m \in Models : modelInit[m] # NoTime} IN
    CASE present = Models -> "icon-ch1+ch2"
      [] present = {}     -> "combined"
      [] OTHER            -> CHOOSE m \in present : TRUE

ReadLabel ==
    /\ reader.phase = "label"
    /\ reader' = [reader EXCEPT !.phase = "slice", !.model = CombinedModel]
    /\ Silent
    /\ UNCHANGED <<stores, current, modelInit, writer, slot>>

\* Slicing the list copies the valid times; slicing an array does not copy.
SliceTimes ==
    /\ reader.phase = "slice"
    /\ reader' = [reader EXCEPT !.phase = "frames",
                    !.times = [i \in 1..(reader.to - reader.from + 1) |->
                        stores[reader.target].time[reader.from + i - 1]]]
    /\ Silent
    /\ UNCHANGED <<stores, current, modelInit, writer, slot>>

\* The handler turns the views into frames one by one.  A frame without a
\* valid time is an exception: valid_time.isoformat() on None.
BuildFrame ==
    LET i     == Len(reader.frames) + 1
        frame == [time |-> reader.times[i],
                  data |-> stores[reader.target].data[reader.from + i - 1]]
        built == Append(reader.frames, frame)
    IN
    /\ reader.phase = "frames"
    /\ CASE reader.times[i] = NoTime ->
              reader' = IdleReader /\ response' = [status |-> 500]
         [] reader.times[i] # NoTime /\ i = Len(reader.times) ->
              /\ reader' = IdleReader
              /\ response' = [status |-> 200, model |-> reader.model,
                              frames |-> built, quiet |-> reader.quiet]
         [] OTHER ->
              /\ reader' = [reader EXCEPT !.frames = built]
              /\ Silent
    /\ UNCHANGED <<stores, current, modelInit, writer, slot>>

-----------------------------------------------------------------------------
Init ==
    /\ stores = [m \in Models |-> EmptyStore]
    /\ current = None
    /\ modelInit = [m \in Models |-> NoTime]
    /\ writer = [m \in Models |-> IdleWriter]
    /\ slot = 0
    /\ reader = IdleReader
    /\ response = NoResponse

Next ==
    \/ \E m \in Models : \/ BeginWrite(m) \/ CreateStore(m)
                         \/ WriteData(m) \/ WriteTime(m) \/ FinishWrite(m)
    \/ NextSlot
    \/ ReadNothing \/ ReadRange \/ ReadLabel \/ SliceTimes \/ BuildFrame

Spec == Init /\ [][Next]_vars

-----------------------------------------------------------------------------
(* Properties *)

Time    == Nat \union {NoTime}
Store   == [time : [Rows -> Time], data : [Rows -> Time]]
Writer  == [phase : {"idle", "create", "data", "time", "finish"},
            init : Nat, target : Models \union {None}, row : Rows]
Reader  == [phase : {"idle", "label", "slice", "frames"},
            target : Models \union {None}, from : Rows, to : Rows,
            model : Models \union {None, "combined", "icon-ch1+ch2"},
            times : Seq(Time), frames : Seq([time : Time, data : Time]),
            quiet : BOOLEAN]

StoreTypes ==
    /\ stores \in [Models -> Store]
    /\ current \in Models \union {None}
    /\ modelInit \in [Models -> Time]
    /\ slot \in 0..MaxSlot

WriterTypes ==
    /\ writer \in [Models -> Writer]
    /\ \A m \in Models :
        /\ writer[m].phase \in {"data", "time", "finish"} =>
              writer[m].target # None
        /\ writer[m].phase # "idle" =>
              FirstRow(m) <= writer[m].row /\ writer[m].row <= LastRow(m)

ReaderTypes ==
    /\ reader \in Reader
    /\ reader.from <= reader.to
    /\ reader.phase # "idle" => reader.target # None
    /\ reader.phase # "frames" => reader.frames = <<>>
    /\ reader.phase = "frames" =>
          /\ Len(reader.times) = reader.to - reader.from + 1
          /\ Len(reader.frames) < Len(reader.times)

\* Types of the store, the threads and the request.  A thread that writes
\* rows has a store to write them to and stays inside its own slice; the
\* handler stays inside the range it has taken.
TypeOK == StoreTypes /\ WriterTypes /\ ReaderTypes

\* A row of a store never shows data under the valid time of another run,
\* except the one row a thread is in the middle of: the two threads never
\* meet in a row, even when each has made a store.
TimeMatchesData ==
    \A x \in Models, h \in Rows :
        MidRow(x, h) \/ stores[x].time[h] = stores[x].data[h]

\* A row whose valid time is missing while a later one has a time.
Gap(x, h) ==
    /\ stores[x].time[h] = NoTime
    /\ \E f, g \in Rows : /\ f < h /\ h < g
                          /\ stores[x].time[f] # NoTime
                          /\ stores[x].time[g] # NoTime

\* What is left of "always form a single contiguous block": a gap in the
\* populated range is a row of CH1, and CH1 is still writing the store for
\* the first time (its last row has no time either).  A CH2 row is never one.
GapOnlyInFirstCh1Write ==
    \A x \in Models, h \in Rows :
        Gap(x, h) => h < Ch2Start /\ stores[x].time[Ch2Start - 1] = NoTime

\* A row of a store in use is never emptied and never falls back to an older
\* run: a thread replaces rows in place and only makes a store where it saw
\* none, even when both threads saw none.
RowsNeverGoBack ==
    [][\A x \in Models, h \in Rows :
          stores'[x].time[h] >= stores[x].time[h]]_vars

\* A request during which no row of its store was written pairs every valid time with
\* the data for that time, although the times are a copy and the data a view.
QuietFramesConsistent ==
    response.status = 200 /\ response.quiet =>
        \A i \in DOMAIN response.frames :
            response.frames[i].data = response.frames[i].time

\* _populated_range: rows "always form a single contiguous block, so the
\* returned range can be sliced as a view with no gaps".  Fails when CH2 is in
\* before CH1 and CH1 writes its first row: the handler meets a None.
NoFrameWithoutTime == response.status # 500

\* The grid handlers' docstring: "one frame per forecast hour".  Fails between
\* the CH1 and the CH2 write of a new run: the CH1 rows have moved on by
\* RunStep hours over the CH2 rows of the old one.
OneFramePerHour ==
    response.status = 200 =>
        \A i \in 1..(Len(response.frames) - 1) :
            response.frames[i + 1].time = response.frames[i].time + 1

\* The same docstring reads a frame as a valid time with its values.  Fails
\* when a thread rewrites a row between the handler's copy of the valid times
\* and its use of the arrays, which are views of the store.
FramesShowTheirHour ==
    response.status = 200 =>
        \A i \in DOMAIN response.frames :
            response.frames[i].data = response.frames[i].time

\* "Each collector writes its own slice into one shared array": a run recorded
\* as written is in the store requests are served from.  Fails when both
\* threads see no store and the second to make one drops the other's rows.
CompletedWriteVisible ==
    \A m \in Models : modelInit[m] # NoTime =>
        /\ current # None
        /\ \A h \in FirstRow(m)..LastRow(m) :
              stores[current].data[h] >= modelInit[m] + h
=============================================================================
