---------------------------- MODULE StationCache ----------------------------
(***************************************************************************)
(* The per-station caches of lsmfapi/database/cache.py, the worker threads *)
(* that fill them and the request handlers that read them.                 *)
(*                                                                         *)
(* A collector builds its stations in a worker thread (asyncio.to_thread)  *)
(* while the event loop keeps answering requests, and no lock protects the *)
(* dictionaries: every dictionary access is a step of its own here.  CH1   *)
(* and CH2 have a lock each, so that the two threads may overlap.          *)
(*                                                                         *)
(* A value is abstracted to its provenance: the number of the build that   *)
(* produced it, NoData being the code's None.  The surface forecast and    *)
(* the altitude winds are twins and are told apart by their kind; a cell   *)
(* is a field of an hour, or a (level, field) pair of a profile.           *)
(***************************************************************************)
EXTENDS Integers, Sequences, FiniteSets

CONSTANTS
    Stations,      \* station identifiers
    Ch1Hours,      \* number of CH1 horizons, 34 in the code (h0 .. h33)
    LastHorizon,   \* last CH2 horizon, 120 in the code
    RunStep,       \* hours between two model runs, 6 in the code
    Cells,         \* kind |-> the cells of one hour of that kind
    WindCells,     \* the cells holding a wind_speed
    BelowTerrain,  \* the altitude cells that are null in every run
    LostSets,      \* what a run may fail to fetch: sets of <<horizon, cell>>
    MaxBuilds,     \* bound: builds in a behaviour
    MaxSlot        \* bound: model run slots in a behaviour

Kinds  == {"station", "altitude"}
Models == {"icon-ch1", "icon-ch2"}
NoData == 0

ASSUME HorizonAssumption ==
    /\ Ch1Hours \in Nat \ {0}
    /\ LastHorizon \in Nat
    /\ LastHorizon >= Ch1Hours
    /\ RunStep \in Nat \ {0}
\* Every hour has a wind_speed, and so has every level of a profile.
ASSUME WindAssumption == \A k \in Kinds : Cells[k] \cap WindCells # {}
ASSUME BoundAssumption == MaxBuilds \in Nat /\ MaxSlot \in Nat

VARIABLES
    ch1,       \* kind, station |-> entry of _ch1_*_cache, NoEntry when absent
    ch2,       \* the same for _ch2_*_cache
    prev,      \* the same for _ch1_*_cache_prev
    builder,   \* model |-> where its _build_and_cache_stations stands
    builds,    \* number of builds started so far
    slot,      \* the newest model run whose publication guard has elapsed
    reader,    \* the request being served by the event loop
    response,  \* the answer given by the last step, if it gave one
    history,   \* history: kind, station |-> the CH1 entries stored, in order
    listed     \* history: the stations any run has been given

vars == <<ch1, ch2, prev, builder, builds, slot, reader, response, history,
          listed>>

-----------------------------------------------------------------------------
(* Entries *)

\* No entry: dict.get returned None.
NoEntry == [build |-> 0, model |-> "none", init |-> 0, hours |-> <<>>]

Empty == [k \in Kinds |-> [s \in Stations |-> NoEntry]]

FirstHorizon(m) == IF m = "icon-ch1" THEN 0 ELSE Ch1Hours
NHours(m) == IF m = "icon-ch1" THEN Ch1Hours ELSE LastHorizon - Ch1Hours + 1

\* What a run of model m that lost some fetches stores for a station.  An
\* hour exists for every horizon, fetched or not.
NewEntry(k, m, b) ==
    [build |-> b.build, model |-> m, init |-> b.init,
     hours |-> [i \in 1..NHours(m) |->
        LET h == FirstHorizon(m) + i - 1 IN
        [vt  |-> b.init + h,
         val |-> [c \in Cells[k] |->
                    IF c \in BelowTerrain \/ <<h, c>> \in b.lost
                    THEN NoData ELSE b.build]]]]

\* Variant for mutation: the gate asks for every wind_speed to be missing.
NeedsFill_All(k, e) ==
    \A i \in DOMAIN e.hours : \A c \in Cells[k] \cap WindCells :
        e.hours[i].val[c] = NoData

\* The code only looks at wind_speed to decide whether an entry needs filling.
NeedsFill(k, e) ==
    \E i \in DOMAIN e.hours : \E c \in Cells[k] \cap WindCells :
        e.hours[i].val[c] = NoData

\* Variant for mutation: the previous run's value wins where it has one.
FillHour_Override(hour, older) ==
    LET at == {i \in DOMAIN older.hours : older.hours[i].vt = hour.vt} IN
    IF at = {} THEN hour
    ELSE LET old == older.hours[CHOOSE i \in at : TRUE] IN
         [hour EXCEPT !.val = [c \in DOMAIN hour.val |->
             IF old.val[c] # NoData THEN old.val[c] ELSE hour.val[c]]]

\* One hour, with the cells that are null taken from the previous run's hour
\* for the same valid time, when it has one.
FillHour(hour, older) ==
    LET at == {i \in DOMAIN older.hours : older.hours[i].vt = hour.vt} IN
    IF at = {} THEN hour
    ELSE LET old == older.hours[CHOOSE i \in at : TRUE] IN
         [hour EXCEPT !.val = [c \in DOMAIN hour.val |->
             IF hour.val[c] = NoData THEN old.val[c] ELSE hour.val[c]]]

Fill(k, e, older) ==
    IF older = NoEntry \/ ~NeedsFill(k, e) THEN e
    ELSE [e EXCEPT !.hours = [i \in DOMAIN e.hours |->
                                 FillHour(e.hours[i], older)]]

\* The hours at some positions, in the order they have.
HoursAt(hours, keep) ==
    LET upTo[n \in 0..Len(hours)] ==
            IF n = 0 THEN <<>>
            ELSE IF n \in keep THEN Append(upTo[n - 1], hours[n])
            ELSE upTo[n - 1]
    IN  upTo[Len(hours)]

\* Variant for mutation: the seam hour is taken from both models.
Tail2_Inclusive(e1, e2) ==
    HoursAt(e2.hours, {j \in DOMAIN e2.hours :
        \A i \in DOMAIN e1.hours : e2.hours[j].vt >= e1.hours[i].vt})

\* The CH2 hours strictly after the last CH1 hour.
Tail2(e1, e2) ==
    HoursAt(e2.hours, {j \in DOMAIN e2.hours :
        \A i \in DOMAIN e1.hours : e2.hours[j].vt > e1.hours[i].vt})

Merge(e1, e2) ==
    [e1 EXCEPT !.hours = e1.hours \o Tail2(e1, e2),
               !.model = IF Tail2(e1, e2) = <<>> THEN @ ELSE "icon-ch1+ch2"]

\* What the getter returns for the three entries it has read.
Combine(k, e1, e2, older) ==
    CASE e1 = NoEntry -> e2
      [] e1 # NoEntry /\ e2 = NoEntry -> Fill(k, e1, older)
      [] OTHER -> Merge(Fill(k, e1, older), e2)

-----------------------------------------------------------------------------
(* The worker threads: one per model *)

NoResponse == [status |-> 0]
Silent == response' = NoResponse

IdleBuilder == [phase |-> "idle", build |-> 0, init |-> 0, lost |-> {},
                todo |-> {}, at |-> {}, kind |-> "station"]

\* The guard of CH1 (1.5 h) is shorter than that of CH2 (3 h): in between, a
\* CH2 run still works on the slot before.
RefSlots(m) == IF m = "icon-ch1" THEN {slot} ELSE {slot, slot - 1} \cap Nat

\* collect() has fetched what it could and hands over to the thread.
StartBuild(m) ==
    /\ builder[m].phase = "idle"
    /\ builds < MaxBuilds
    /\ \E s \in RefSlots(m), lost \in LostSets, list \in (SUBSET Stations) \ {{}} :
        /\ s * RunStep >= builder[m].init
        /\ builder' = [builder EXCEPT ![m] =
               [IdleBuilder EXCEPT !.phase = "next", !.build = builds + 1,
                    !.init = s * RunStep, !.lost = lost, !.todo = list]]
        /\ listed' = listed \union list
    /\ builds' = builds + 1
    /\ Silent
    /\ UNCHANGED <<ch1, ch2, prev, slot, reader, history>>

\* Only CH1 keeps the entry it supersedes.
FirstPhase(m) == IF m = "icon-ch1" THEN "stash" ELSE "store"

\* The loop over the stations moves on.
NextStation(m) ==
    /\ builder[m].phase = "next"
    /\ IF builder[m].todo = {}
       THEN builder' = [builder EXCEPT ![m] =
                           [IdleBuilder EXCEPT !.init = builder[m].init]]
       ELSE \E s \in builder[m].todo :
              builder' = [builder EXCEPT ![m] =
                  [@ EXCEPT !.phase = FirstPhase(m), !.at = {s},
                            !.todo = builder[m].todo \ {s}, !.kind = "station"]]
    /\ Silent
    /\ UNCHANGED <<ch1, ch2, prev, builds, slot, reader, history, listed>>

\* Variant for mutation: only the first superseded entry is ever kept.
Stashed_Once(current, older) ==
    IF current = NoEntry \/ older # NoEntry THEN older ELSE current

\* What the stash leaves in prev: an absent entry does not overwrite it.
Stashed(current, older) == IF current = NoEntry THEN older ELSE current

\* The CH1 thread is between the two halves of the setter for k, s.
MidSet(k, s) ==
    LET b == builder["icon-ch1"] IN
    b.phase = "store" /\ b.kind = k /\ b.at = {s}

\* A write to the entries a request in flight is reading.
Disturb(k, s) ==
    reader' = [reader EXCEPT !.quiet =
                  @ /\ ~(reader.kind = k /\ reader.station = {s})]

\* set_station_forecast / set_station_altitude_winds for CH1, first half.
StashPrevious(s) ==
    LET b == builder["icon-ch1"] IN
    /\ b.phase = "stash" /\ b.at = {s}
    /\ prev' = [prev EXCEPT ![b.kind][s] = Stashed(ch1[b.kind][s], @)]
    /\ builder' = [builder EXCEPT !["icon-ch1"].phase = "store"]
    /\ Disturb(b.kind, s)
    /\ Silent
    /\ UNCHANGED <<ch1, ch2, builds, slot, history, listed>>

\* After the surface forecast come the altitude winds of the same station.
AfterStore(m) ==
    IF builder[m].kind = "station"
    THEN [builder EXCEPT ![m] = [@ EXCEPT !.phase = FirstPhase(m), !.kind = "altitude"]]
    ELSE [builder EXCEPT ![m] = [@ EXCEPT !.phase = "next", !.at = {}]]

\* The same setters, second half: the entry itself.
StoreCh1(s) ==
    LET b == builder["icon-ch1"]
        e == NewEntry(b.kind, "icon-ch1", b) IN
    /\ b.phase = "store" /\ b.at = {s}
    /\ ch1' = [ch1 EXCEPT ![b.kind][s] = e]
    /\ history' = [history EXCEPT ![b.kind][s] = Append(@, e)]
    /\ builder' = AfterStore("icon-ch1")
    /\ Disturb(b.kind, s)
    /\ Silent
    /\ UNCHANGED <<ch2, prev, builds, slot, listed>>

StoreCh2(s) ==
    LET b == builder["icon-ch2"] IN
    /\ b.phase = "store" /\ b.at = {s}
    /\ ch2' = [ch2 EXCEPT ![b.kind][s] = NewEntry(b.kind, "icon-ch2", b)]
    /\ builder' = AfterStore("icon-ch2")
    /\ Silent
    /\ UNCHANGED <<ch1, prev, builds, slot, reader, history, listed>>

IdleReader == [phase |-> "idle", kind |-> "station", station |-> {},
               limit |-> 0, e1 |-> NoEntry, e2 |-> NoEntry, quiet |-> TRUE]

\* Variant for mutation: loading initialises the predecessors, with the entries
\* it has just loaded.
PrevAfterRestart_Set == ch1'

PrevAfterRestart == Empty

\* The process ends and starts again.  It saves both caches when it stops and
\* loads them when it starts, or starts fresh if there is no file; entries that
\* were superseded are in no file (Persistence has the save step by step).
Restart ==
    \E loaded \in BOOLEAN :
        /\ ch1' = IF loaded THEN ch1 ELSE Empty
        /\ ch2' = IF loaded THEN ch2 ELSE Empty
        /\ prev' = PrevAfterRestart
        /\ history' = [k \in Kinds |-> [s \in Stations |->
               IF ch1'[k][s] = NoEntry THEN <<>> ELSE <<ch1'[k][s]>>]]
        /\ builder' = [m \in Models |-> [IdleBuilder EXCEPT !.init = builder[m].init]]
        /\ reader' = IdleReader
        /\ Silent
        /\ UNCHANGED <<builds, slot, listed>>

\* Six hours pass and the next run becomes eligible.
NextSlot ==
    /\ slot < MaxSlot
    /\ slot' = slot + 1
    /\ Silent
    /\ UNCHANGED <<ch1, ch2, prev, builder, builds, reader, history, listed>>

-----------------------------------------------------------------------------
(* The event loop: GET /api/forecast/station and /altitude-winds.  The      *)
(* handlers never await, so at most one request is between its reads.       *)

\* The getter's first read; the limit is the hours query parameter (1..120).
ReadCh1(k, s, n) ==
    /\ reader.phase = "idle"
    /\ reader' = [phase |-> "ch2", kind |-> k, station |-> {s}, limit |-> n,
                  e1 |-> ch1[k][s], e2 |-> NoEntry, quiet |-> ~MidSet(k, s)]
    /\ Silent
    /\ UNCHANGED <<ch1, ch2, prev, builder, builds, slot, history, listed>>

ReadCh2(s) ==
    /\ reader.phase = "ch2" /\ reader.station = {s}
    /\ reader' = [reader EXCEPT !.phase = "prev", !.e2 = ch2[reader.kind][s]]
    /\ Silent
    /\ UNCHANGED <<ch1, ch2, prev, builder, builds, slot, history, listed>>

Truncate(hours, n) == IF n < Len(hours) THEN SubSeq(hours, 1, n) ELSE hours

\* The predecessor is read last, and only now is the answer put together.
ReadPrev(s) ==
    LET k    == reader.kind
        data == Combine(k, reader.e1, reader.e2, prev[k][s]) IN
    /\ reader.phase = "prev" /\ reader.station = {s}
    /\ IF data = NoEntry
       THEN /\ reader' = [reader EXCEPT !.phase = "warm"]
            /\ Silent
       ELSE /\ reader' = IdleReader
            /\ response' = [status |-> 200, kind |-> k, station |-> s,
                            model |-> data.model, init |-> data.init,
                            hours |-> Truncate(data.hours, reader.limit),
                            limit |-> reader.limit, quiet |-> reader.quiet,
                            e1 |-> reader.e1, e2 |-> reader.e2]
    /\ UNCHANGED <<ch1, ch2, prev, builder, builds, slot, history, listed>>

\* cache_is_warm(): some station has a surface forecast of either model.
CacheIsWarm ==
    \E s \in Stations :
        ch1["station"][s] # NoEntry \/ ch2["station"][s] # NoEntry

CheckWarm(s) ==
    /\ reader.phase = "warm" /\ reader.station = {s}
    /\ reader' = IdleReader
    /\ response' = [status |-> IF CacheIsWarm THEN 404 ELSE 503,
                    kind |-> reader.kind, station |-> s,
                    listed |-> s \in listed]
    /\ UNCHANGED <<ch1, ch2, prev, builder, builds, slot, history, listed>>

-----------------------------------------------------------------------------
Init ==
    /\ ch1 = Empty /\ ch2 = Empty /\ prev = Empty
    /\ builder = [m \in Models |-> IdleBuilder]
    /\ builds = 0
    /\ slot = 0
    /\ reader = IdleReader
    /\ response = NoResponse
    /\ history = [k \in Kinds |-> [s \in Stations |-> <<>>]]
    /\ listed = {}

Next ==
    \/ \E m \in Models : StartBuild(m) \/ NextStation(m)
    \/ \E s \in Stations : StashPrevious(s) \/ StoreCh1(s) \/ StoreCh2(s)
    \/ NextSlot \/ Restart
    \/ \E k \in Kinds, s \in Stations, n \in 1..LastHorizon : ReadCh1(k, s, n)
    \/ \E s \in Stations : ReadCh2(s) \/ ReadPrev(s) \/ CheckWarm(s)

Spec == Init /\ [][Next]_vars

-----------------------------------------------------------------------------
(* Properties *)

CellNames == UNION {Cells[k] : k \in Kinds}
Hour  == [vt : Nat, val : UNION {[Cells[k] -> 0..MaxBuilds] : k \in Kinds}]
Entry == [build : 0..MaxBuilds, model : Models \union {"none"}, init : Nat,
          hours : Seq(Hour)]
Builder == [phase : {"idle", "next", "stash", "store"}, build : 0..MaxBuilds,
            init : {i * RunStep : i \in 0..slot}, lost : LostSets \union {{}}, todo : SUBSET Stations,
            at : {{}} \union {{s} : s \in Stations}, kind : Kinds]

\* Types of the dictionaries, of the worker threads and of the request; no
\* build works on a run whose publication guard has not elapsed.
TypeOK ==
    /\ ch1 \in [Kinds -> [Stations -> Entry]]
    /\ ch2 \in [Kinds -> [Stations -> Entry]]
    /\ prev \in [Kinds -> [Stations -> Entry]]
    /\ builder \in [Models -> Builder]
    /\ builds \in 0..MaxBuilds /\ slot \in 0..MaxSlot
    /\ reader \in [phase : {"idle", "ch2", "prev", "warm"}, kind : Kinds,
                   station : {{}} \union {{s} : s \in Stations},
                   limit : Nat, e1 : Entry, e2 : Entry, quiet : BOOLEAN]
    /\ response.status \in {0, 200, 404, 503}
    /\ history \in [Kinds -> [Stations -> Seq(Entry)]]
    /\ listed \subseteq Stations

Latest(h)   == IF Len(h) = 0 THEN NoEntry ELSE h[Len(h)]
Previous(h) == IF Len(h) < 2 THEN NoEntry ELSE h[Len(h) - 1]

\* At every moment _ch1_*_cache holds the newest CH1 entry stored for a
\* station and _prev the one stored just before it; only inside the setter
\* does _prev already hold the newest.  Backfill rests on this pairing, which
\* nothing in the code states and which any reordering of the setter breaks.
PrevIsPredecessor ==
    \A k \in Kinds, s \in Stations :
        LET h == history[k][s] IN
        /\ ch1[k][s] = Latest(h)
        /\ prev[k][s] = IF MidSet(k, s) THEN Latest(h) ELSE Previous(h)

Served == response.status = 200
IsCh1(e) == e.model = "icon-ch1"
\* The position in the history of the CH1 entry an answer was built from.
At(h, e) == CHOOSE i \in DOMAIN h : h[i].build = e.build
\* The answer's hours that come from its CH1 entry.
Ch1Part == {i \in DOMAIN response.hours : i <= Len(response.e1.hours)}

\* The hours of an answer are in strictly increasing order of valid time,
\* whatever mixture of CH1 and CH2 runs it was merged from: no hour is given
\* twice where the two models overlap.
HoursStrictlyIncreasing ==
    Served => \A i \in 1..(Len(response.hours) - 1) :
                 response.hours[i].vt < response.hours[i + 1].vt

\* A request that overlaps a setter never mixes into an answer a value more
\* than one run older than the entry it read: the setter stashes before it
\* stores, so that whoever sees the new entry sees its predecessor too.
NeverStalerThanPredecessor ==
    Served /\ IsCh1(response.e1) =>
        LET h == history[response.kind][response.station]
            p == At(h, response.e1) IN
        \A i \in Ch1Part : \A c \in Cells[response.kind] :
            response.hours[i].val[c] \in
                {NoData} \union {h[j].build : j \in (p - 1)..Len(h) \ {0}}

\* Where the run an answer was built from has a value, that value is served:
\* backfilling never hides newer data behind older data.
BackfillNeverHidesNewer ==
    Served /\ IsCh1(response.e1) =>
        \A i \in Ch1Part : \A c \in Cells[response.kind] :
            LET own == response.e1.hours[i].val[c] IN
            own # NoData => response.hours[i].val[c] = own

NullHour(hour, k) == \A c \in Cells[k] : hour.val[c] = NoData
\* An hour is served with no data at all although the CH1 run stored just
\* before the one answered from has data for the same valid time.
MissedBackfill ==
    LET h == history[response.kind][response.station]
        p == At(h, response.e1) IN
    /\ p > 1
    /\ \E i \in Ch1Part, j \in DOMAIN h[p - 1].hours :
        /\ NullHour(response.hours[i], response.kind)
        /\ h[p - 1].hours[j].vt = response.hours[i].vt
        /\ ~NullHour(h[p - 1].hours[j], response.kind)

\* A request during which no setter touched its station never serves an empty
\* hour that the previous CH1 run could have filled.
QuietNullHoursBackfilled ==
    Served /\ IsCh1(response.e1) /\ response.quiet => ~MissedBackfill

\* The docstring of _fill_station_forecast_nulls, for every request: no null
\* "where slightly-older-but-real data exists".  Fails when the setter's stash
\* runs between the getter's read of the entry and its read of the
\* predecessor: the entry is then filled from itself.
NullHoursBackfilled ==
    Served /\ IsCh1(response.e1) => ~MissedBackfill

\* docs/forecast-data-reference.md: "Hourly, per station".  Fails when the CH2
\* entry is from a later run than the CH1 entry: its first hour is then
\* RunStep hours past the end of CH1.
ServedHourly ==
    Served => \A i \in 1..(Len(response.hours) - 1) :
                 response.hours[i + 1].vt = response.hours[i].vt + 1

\* The handlers' docstring: "404 unknown station, 503 cache warming".  Fails
\* while the first run is storing its stations one by one: a station whose
\* turn has not come is answered 404 as soon as another is in.
NotFoundMeansUnknown == response.status = 404 => ~response.listed
=============================================================================
