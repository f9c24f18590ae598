-------------------------- MODULE Persistence_proof --------------------------
(***************************************************************************)
(* Proofs about Persistence, for every set of collectors and every number  *)
(* of runs, stops and crashes, with any failing writes and any overlap of  *)
(* saves.  Each invariant says of a cache what holds as long as no mishap  *)
(* has come in between: then there is one saver (OneSaver), the temporary  *)
(* file is its own (OwnFile), the numbers of the runs go up from the file  *)
(* over the copy to the memory (RunInv), and what has been read of a slice *)
(* that nobody is writing is what the memory holds (CleanInv).             *)
(***************************************************************************)
EXTENDS Persistence, TLAPS

Phases == {"idle", "data", "time", "label", "mark", "done", "read", "write",
           "replace", "check", "clear"}

-----------------------------------------------------------------------------
(* Cells *)

LEMMA ProcsDistinct == App \in Procs /\ App \notin Models /\ Models \subseteq Procs
BY PersistenceAssumption DEF App, Procs

LEMMA CellsAre ==
    /\ CellsOf["station"] = {"entry"} \X Models
    /\ CellsOf["grid"] = {"label", "time", "data"} \X Models
BY DEF CellsOf, FieldsOf, Kinds

LEMMA CellFacts ==
    /\ \A k \in Kinds : CellsOf[k] \subseteq Cells
    /\ \A c \in Cells : KindOf(c) \in Kinds /\ c \in CellsOf[KindOf(c)]
    /\ \A k \in Kinds : \A c \in CellsOf[k] : KindOf(c) = k
BY CellsAre DEF Cells, Kinds, KindOf

LEMMA EntryCell == \A m \in Models : <<"entry", m>> \in Cells
BY CellsAre DEF Cells

LEMMA GridCell ==
    \A m \in Models : \A f \in {"label", "time", "data"} :
        <<f, m>> \in CellsOf["grid"] /\ <<f, m>> \in Cells
BY CellsAre DEF Cells

LEMMA CellIsPair ==
    /\ \A c \in CellsOf["grid"] :
          \E f \in {"label", "time", "data"}, m \in Models : c = <<f, m>>
    /\ \A c \in CellsOf["station"] : \E m \in Models : c = <<"entry", m>>
BY CellsAre

-----------------------------------------------------------------------------
(* Types *)

LEMMA PartFacts ==
    /\ \A C \in SUBSET Cells : [C -> Run] \subseteq Part
    /\ \A d \in Part : DOMAIN d \subseteq Cells /\ d \in [DOMAIN d -> Run]
BY DEF Part

LEMMA EmptyIsPart ==
    \A k \in Kinds : Empty(k) \in Part /\ Empty(k) \in [CellsOf[k] -> Run]
                     /\ DOMAIN Empty(k) = CellsOf[k]
<1> SUFFICES ASSUME NEW k \in Kinds
             PROVE  Empty(k) \in Part /\ Empty(k) \in [CellsOf[k] -> Run]
                    /\ DOMAIN Empty(k) = CellsOf[k]
  OBVIOUS
<1>1. Empty(k) \in [CellsOf[k] -> Run]
  BY PersistenceAssumption DEF Empty, Run
<1> QED
  BY <1>1, CellFacts, PartFacts

LEMMA NoFileIsFile ==
    \A k \in Kinds : NoFile(k) \in File /\ DOMAIN NoFile(k).data = CellsOf[k]
BY EmptyIsPart DEF NoFile, File

LEMMA NoCellsIsPart == NoCells \in Part /\ DOMAIN NoCells = {}
<1>1. NoCells \in [{} -> Run] /\ DOMAIN NoCells = {}
  BY DEF NoCells
<1> QED
  BY <1>1, PartFacts

LEMMA IdleIsProc == Idle \in Proc
BY NoCellsIsPart, PersistenceAssumption DEF Idle, Proc, Kinds, Run

LEMMA NoMishapsType ==
    NoMishaps \in [Kinds -> SUBSET {"overlap", "failed", "slice"}]
BY DEF NoMishaps

LEMMA LoadedIsRun == ASSUME TypeOK, NEW c \in Cells PROVE Loaded(c) \in Run
<1> DEFINE f == disk[KindOf(c)]["final"]
<1>1. KindOf(c) \in Kinds /\ c \in CellsOf[KindOf(c)] /\ "final" \in Names
  BY CellFacts DEF Names
<1>2. f \in File /\ DOMAIN f.data = CellsOf[KindOf(c)]
  BY <1>1 DEF TypeOK
<1>3. f.data[c] \in Run
  BY <1>1, <1>2, PartFacts DEF File
<1> QED
  BY <1>3, PersistenceAssumption DEF Loaded, Run

LEMMA InitTypes == Init => TypeOK
<1> SUFFICES ASSUME Init PROVE TypeOK
  OBVIOUS
<1> USE DEF Init
<1>1. mem \in [Cells -> Run] /\ dirty \in BOOLEAN
  <2>1. mem = [c \in Cells |-> 0] /\ dirty = FALSE
    OBVIOUS
  <2>2. 0 \in Run
    BY PersistenceAssumption DEF Run
  <2> QED
    BY <2>1, <2>2
<1>2. /\ proc \in [Procs -> Proc] /\ proc[App].phase = "idle"
      /\ \A p \in Procs : DOMAIN proc[p].data \subseteq CellsOf[proc[p].kind]
  BY IdleIsProc, NoCellsIsPart, ProcsDistinct DEF Idle
<1>3. /\ disk \in [Kinds -> [Names -> File]]
      /\ \A k \in Kinds, n \in Names : DOMAIN disk[k][n].data = CellsOf[k]
  <2>1. OldFile => OldGrid \in File /\ DOMAIN OldGrid.data = CellsOf["grid"]
    <3>1. OldFile => [c \in CellsOf["grid"] |-> 1] \in [CellsOf["grid"] -> Run]
      BY PersistenceAssumption DEF Run
    <3>2. OldFile => [c \in CellsOf["grid"] |-> 1] \in Part
      BY <3>1, CellFacts, PartFacts DEF Kinds
    <3> QED
      BY <3>2 DEF OldGrid, File
  <2> QED
    BY <2>1, NoFileIsFile DEF Names
<1>4. runs \in Run /\ stops \in 0..MaxStops /\ crashes \in 0..MaxCrashes
  BY PersistenceAssumption DEF Run
<1> QED
  BY <1>1, <1>2, <1>3, <1>4, NoMishapsType DEF TypeOK

\* One process moves to a new state, the others stay.
LEMMA ProcMoves ==
    ASSUME TypeOK, NEW p \in Procs, NEW r, proc' = [proc EXCEPT ![p] = r]
    PROVE  proc'[p] = r /\ \A q \in Procs : q # p => proc'[q] = proc[q]
BY DEF TypeOK

LEMMA ProcTypes ==
    ASSUME TypeOK, NEW p \in Procs, NEW r \in Proc, proc' = [proc EXCEPT ![p] = r],
           DOMAIN r.data \subseteq CellsOf[r.kind],
           p = App => r.phase = "idle" \/ proc[App].phase # "idle" \/ life' = "stopping",
           life = "stopping" => life' = "stopping"
    PROVE  /\ proc' \in [Procs -> Proc]
           /\ \A q \in Procs : DOMAIN proc'[q].data \subseteq CellsOf[proc'[q].kind]
           /\ proc'[App].phase # "idle" => life' = "stopping"
BY ProcMoves, ProcsDistinct DEF TypeOK

LEMMA PhaseType ==
    ASSUME TypeOK, NEW p \in Procs, NEW ph \in Phases
    PROVE  /\ [proc EXCEPT ![p].phase = ph] =
                  [proc EXCEPT ![p] = [proc[p] EXCEPT !.phase = ph]]
           /\ [proc[p] EXCEPT !.phase = ph] \in Proc
           /\ [proc[p] EXCEPT !.phase = ph].data = proc[p].data
           /\ [proc[p] EXCEPT !.phase = ph].kind = proc[p].kind
           /\ [proc[p] EXCEPT !.phase = ph].at = proc[p].at
           /\ [proc[p] EXCEPT !.phase = ph].run = proc[p].run
           /\ [proc[p] EXCEPT !.phase = ph].phase = ph
<1>1. proc \in [Procs -> Proc]
  BY DEF TypeOK
<1>2. proc[p] \in Proc
  BY <1>1
<1>3. [proc EXCEPT ![p].phase = ph] = [proc EXCEPT ![p] = [proc[p] EXCEPT !.phase = ph]]
  BY ONLY <1>1
<1> QED
  BY ONLY <1>2, <1>3, ph \in Phases DEF Proc, Phases

\* A process moves on without changing more than its phase.
LEMMA PhaseMoves ==
    ASSUME TypeOK, NEW p \in Procs, NEW ph \in Phases,
           proc' = [proc EXCEPT ![p].phase = ph]
    PROVE  /\ proc'[p].phase = ph
           /\ proc'[p].kind = proc[p].kind /\ proc'[p].at = proc[p].at
           /\ proc'[p].data = proc[p].data /\ proc'[p].run = proc[p].run
           /\ \A q \in Procs : q # p => proc'[q] = proc[q]
<1> DEFINE r == [proc[p] EXCEPT !.phase = ph]
<1>1. /\ r.phase = ph /\ r.kind = proc[p].kind /\ r.at = proc[p].at
      /\ r.data = proc[p].data /\ r.run = proc[p].run
      /\ proc' = [proc EXCEPT ![p] = r]
  BY PhaseType
<1> HIDE DEF r
<1> QED
  BY <1>1, ProcMoves

LEMMA PhaseTypes ==
    ASSUME TypeOK, NEW p \in Procs, NEW ph \in Phases,
           proc' = [proc EXCEPT ![p].phase = ph],
           p = App => proc[App].phase # "idle", life' = life
    PROVE  /\ proc' \in [Procs -> Proc]
           /\ \A q \in Procs : DOMAIN proc'[q].data \subseteq CellsOf[proc'[q].kind]
           /\ proc'[App].phase # "idle" => life' = "stopping"
<1> DEFINE r == [proc[p] EXCEPT !.phase = ph]
<1>1. r \in Proc /\ r.data = proc[p].data /\ r.kind = proc[p].kind
      /\ proc' = [proc EXCEPT ![p] = r]
  BY PhaseType
<1>2. DOMAIN r.data \subseteq CellsOf[r.kind]
  BY <1>1 DEF TypeOK
<1> HIDE DEF r
<1> QED
  BY <1>1, <1>2, ProcTypes

\* The beginning of a save.
LEMMA BeginMoves ==
    ASSUME TypeOK, NEW p \in Procs, NEW k \in Kinds, Begin(p, k)
    PROVE  /\ proc'[p].phase = "read" /\ proc'[p].kind = k
           /\ proc'[p].data = NoCells /\ proc'[p].at = "gone"
           /\ \A q \in Procs : q # p => proc'[q] = proc[q]
           /\ \A j \in Kinds : j # k => mishaps'[j] = mishaps[j]
           /\ Savers(k) = {} => mishaps'[k] = {}
           /\ Savers(k) # {} => mishaps'[k] = mishaps[k] \union {"overlap"}
           /\ mishaps' \in [Kinds -> SUBSET {"overlap", "failed", "slice"}]
<1> DEFINE r == [Idle EXCEPT !.phase = "read", !.kind = k]
<1>1. r.phase = "read" /\ r.kind = k /\ r.data = NoCells /\ r.at = "gone"
  BY DEF Idle
<1>2. proc' = [proc EXCEPT ![p] = r]
  BY DEF Begin
<1> HIDE DEF r
<1>3. proc'[p] = r /\ \A q \in Procs : q # p => proc'[q] = proc[q]
  BY <1>2, ProcMoves
<1>4. /\ \A j \in Kinds : j # k => mishaps'[j] = mishaps[j]
      /\ Savers(k) = {} => mishaps'[k] = {}
      /\ Savers(k) # {} => mishaps'[k] = mishaps[k] \union {"overlap"}
      /\ mishaps' \in [Kinds -> SUBSET {"overlap", "failed", "slice"}]
  BY DEF Begin, Suffers, TypeOK
<1> QED
  BY <1>1, <1>3, <1>4

LEMMA BeginTypes ==
    ASSUME TypeOK, NEW p \in Procs, NEW k \in Kinds, Begin(p, k),
           life = "stopping" => life' = "stopping",
           p = App => proc[App].phase # "idle" \/ life' = "stopping"
    PROVE  /\ proc' \in [Procs -> Proc]
           /\ \A q \in Procs : DOMAIN proc'[q].data \subseteq CellsOf[proc'[q].kind]
           /\ proc'[App].phase # "idle" => life' = "stopping"
<1> DEFINE r == [Idle EXCEPT !.phase = "read", !.kind = k]
<1>1. r \in Proc /\ r.data = NoCells
  <2>1. 0 \in Run
    BY PersistenceAssumption DEF Run
  <2> QED
    BY <2>1, NoCellsIsPart DEF Idle, Proc
<1>2. proc' = [proc EXCEPT ![p] = r]
  BY DEF Begin
<1> HIDE DEF r
<1> QED
  BY <1>1, <1>2, NoCellsIsPart, ProcTypes

\* One more cell of the cache that is saved has been read.
LEMMA ReadMoves ==
    ASSUME TypeOK, NEW p \in Procs, ReadCell(p)
    PROVE  \E c \in CellsOf[proc[p].kind], d \in Part :
              /\ c \notin DOMAIN proc[p].data
              /\ d = [x \in DOMAIN proc[p].data \union {c} |->
                           IF x = c THEN mem[c] ELSE proc[p].data[x]]
              /\ proc' = [proc EXCEPT ![p] = [proc[p] EXCEPT !.data = d]]
<1> DEFINE c == CHOOSE c \in Unread(p) : TRUE
           d == [x \in DOMAIN proc[p].data \union {c} |->
                           IF x = c THEN mem[c] ELSE proc[p].data[x]]
<1>1. c \in Unread(p)
  BY DEF ReadCell
<1>2. proc[p] \in Proc /\ proc[p].kind \in Kinds
  BY DEF TypeOK, Proc
<1>3. Unread(p) \subseteq CellsOf[proc[p].kind] \ DOMAIN proc[p].data
  <2>1. Fields(p) \subseteq FieldsOf(proc[p].kind)
    BY DEF Fields
  <2> QED
    BY <1>2, <2>1 DEF Unread, CellsOf
<1>4. proc' = [proc EXCEPT ![p] = [proc[p] EXCEPT !.data = d]]
  BY <1>2 DEF ReadCell, TypeOK
<1> HIDE DEF c
<1>5. c \in Cells
  BY <1>1, <1>2, <1>3, CellFacts
<1>6. d \in Part
  <2>1. DOMAIN proc[p].data \subseteq Cells /\ proc[p].data \in [DOMAIN proc[p].data -> Run]
    BY <1>2, PartFacts DEF Proc
  <2>2. mem[c] \in Run
    BY <1>5 DEF TypeOK
  <2>3. d \in [DOMAIN proc[p].data \union {c} -> Run]
    BY <2>1, <2>2
  <2> HIDE DEF d
  <2> QED
    BY <1>5, <2>1, <2>3, PartFacts
<1> QED
  BY <1>1, <1>3, <1>4, <1>6

LEMMA ReadEffect ==
    ASSUME TypeOK, NEW p \in Procs, ReadCell(p)
    PROVE  /\ proc'[p].phase = proc[p].phase /\ proc'[p].kind = proc[p].kind
           /\ proc'[p].at = proc[p].at /\ proc'[p].run = proc[p].run
           /\ proc[p].phase \in {"read", "write"}
           /\ \A q \in Procs : q # p => proc'[q] = proc[q]
           /\ \E c \in CellsOf[proc[p].kind] :
                 /\ c \notin DOMAIN proc[p].data
                 /\ proc'[p].data = [x \in DOMAIN proc[p].data \union {c} |->
                                       IF x = c THEN mem[c] ELSE proc[p].data[x]]
<1>1. PICK c \in CellsOf[proc[p].kind], d \in Part :
          /\ c \notin DOMAIN proc[p].data
          /\ d = [x \in DOMAIN proc[p].data \union {c} |->
                           IF x = c THEN mem[c] ELSE proc[p].data[x]]
          /\ proc' = [proc EXCEPT ![p] = [proc[p] EXCEPT !.data = d]]
  BY ReadMoves
<1>2. proc'[p] = [proc[p] EXCEPT !.data = d]
      /\ \A q \in Procs : q # p => proc'[q] = proc[q]
  BY <1>1, ProcMoves
<1>3. proc[p].phase \in {"read", "write"}
  BY DEF ReadCell, Unread, Fields
<1> QED
  BY <1>1, <1>2, <1>3 DEF TypeOK, Proc

\* The temporary file is opened, and the process has it under its name.
LEMMA OpenEffect ==
    ASSUME TypeOK, NEW p \in Procs, OpenTmp(p)
    PROVE  LET k == proc[p].kind IN
           /\ proc[p].phase = "read" /\ k \in Kinds
           /\ proc'[p].phase = "write" /\ proc'[p].kind = k /\ proc'[p].at = "tmp"
           /\ proc'[p].data = proc[p].data
           /\ \A q \in Procs : q # p => proc'[q] = proc[q]
           /\ disk'[k]["final"] = disk[k]["final"]
           /\ disk'[k]["tmp"] = [state |-> "torn", data |-> Empty(k), shared |-> InUse(k)]
           /\ disk'[k]["tmp"].shared =>
                 \E q \in Procs : proc[q].phase = "write" /\ proc[q].kind = k
           /\ \A j \in Kinds : j # k => disk'[j] = disk[j]
<1> DEFINE k == proc[p].kind
           f == [state |-> "torn", data |-> Empty(k), shared |-> InUse(k)]
           r == [proc[p] EXCEPT !.phase = "write", !.at = "tmp"]
<1>1. proc[p] \in Proc /\ k \in Kinds /\ proc[p].phase = "read"
  BY DEF TypeOK, Proc, OpenTmp
<1>2. r.phase = "write" /\ r.at = "tmp" /\ r.kind = k /\ r.data = proc[p].data
  BY <1>1 DEF Proc
<1>3. proc' = [proc EXCEPT ![p] = r]
  BY DEF OpenTmp, OpensAt, TypeOK
<1>4. disk' = [disk EXCEPT ![k]["tmp"] = f]
  BY DEF OpenTmp, OpensAt
<1>7. f.shared => \E q \in Procs : proc[q].phase = "write" /\ proc[q].kind = k
  <2>1. f.shared = InUse(k)
    OBVIOUS
  <2> HIDE DEF f
  <2> QED
    BY <2>1 DEF InUse
<1> HIDE DEF f, r, k
<1>5. /\ disk'[k]["final"] = disk[k]["final"] /\ disk'[k]["tmp"] = f
      /\ \A j \in Kinds : j # k => disk'[j] = disk[j]
  BY <1>1, <1>4 DEF TypeOK, Names
<1>6. proc'[p] = r /\ \A q \in Procs : q # p => proc'[q] = proc[q]
  BY <1>3, ProcMoves
<1> QED
  BY <1>1, <1>2, <1>5, <1>6, <1>7 DEF f, k

LEMMA OpenTypes ==
    ASSUME TypeOK, NEW p \in Procs, OpenTmp(p)
    PROVE  TypeOK'
<1> DEFINE k == proc[p].kind
           f == [state |-> "torn", data |-> Empty(k), shared |-> InUse(k)]
           r == [proc[p] EXCEPT !.phase = "write", !.at = "tmp"]
<1>1. proc[p] \in Proc /\ k \in Kinds /\ proc[p].phase = "read"
  BY DEF TypeOK, Proc, OpenTmp
<1>2. f \in File /\ DOMAIN f.data = CellsOf[k]
  <2>1. InUse(k) \in BOOLEAN
    BY DEF InUse
  <2> QED
    BY <1>1, <2>1, EmptyIsPart DEF File
<1>3. r \in Proc /\ r.data = proc[p].data /\ r.kind = k
  BY <1>1 DEF Proc, Names
<1>4. disk' = [disk EXCEPT ![k]["tmp"] = f]
  BY DEF OpenTmp, OpensAt
<1>5. proc' = [proc EXCEPT ![p] = r]
  BY DEF OpenTmp, OpensAt, TypeOK
<1>6. UNCHANGED <<life, mem, dirty, runs, stops, crashes, mishaps>>
  BY DEF OpenTmp
<1>7. DOMAIN r.data \subseteq CellsOf[r.kind]
  BY <1>3 DEF TypeOK
<1> HIDE DEF f, r, k
<1>8. /\ disk' \in [Kinds -> [Names -> File]]
      /\ \A j \in Kinds, n \in Names : DOMAIN disk'[j][n].data = CellsOf[j]
  BY <1>1, <1>2, <1>4 DEF TypeOK, Names
<1>9. /\ proc' \in [Procs -> Proc]
      /\ \A q \in Procs : DOMAIN proc'[q].data \subseteq CellsOf[proc'[q].kind]
      /\ proc'[App].phase # "idle" => life' = "stopping"
  BY <1>1, <1>3, <1>5, <1>6, <1>7, ProcTypes
<1> QED
  BY <1>6, <1>8, <1>9 DEF TypeOK

\* The file a process has written is its copy, if it still has a name.
LEMMA FinishEffect ==
    ASSUME TypeOK, NEW p \in Procs, FinishWrite(p)
    PROVE  LET k == proc[p].kind
               n == proc[p].at IN
           /\ proc[p].phase = "write" /\ k \in Kinds
           /\ proc[p].data \in [CellsOf[k] -> Run]
           /\ proc'[p].phase = "replace" /\ proc'[p].kind = k /\ proc'[p].at = n
           /\ proc'[p].data = proc[p].data
           /\ \A q \in Procs : q # p => proc'[q] = proc[q]
           /\ \/ n = "gone" /\ disk' = disk
              \/ /\ n \in Names
                 /\ \E s \in {"whole", "torn"} :
                       /\ disk'[k][n] = [disk[k][n] EXCEPT !.state = s,
                                                           !.data = proc[p].data]
                       /\ s = "torn" => disk[k][n].shared
                 /\ \A o \in Names : o # n => disk'[k][o] = disk[k][o]
                 /\ \A j \in Kinds : j # k => disk'[j] = disk[j]
<1> DEFINE k == proc[p].kind
           n == proc[p].at
<1>1. proc[p] \in Proc /\ k \in Kinds /\ proc[p].phase = "write"
  BY DEF TypeOK, Proc, FinishWrite
<1>2. proc[p].data \in [CellsOf[k] -> Run]
  <2>1. CellsOf[k] \subseteq DOMAIN proc[p].data
    BY <1>1 DEF FinishWrite, Unread, Fields, CellsOf
  <2>2. DOMAIN proc[p].data \subseteq CellsOf[k]
    BY DEF TypeOK
  <2>3. proc[p].data \in [DOMAIN proc[p].data -> Run]
    BY <1>1, PartFacts DEF Proc
  <2> QED
    BY <2>1, <2>2, <2>3
<1>3. /\ proc'[p].phase = "replace" /\ proc'[p].kind = k /\ proc'[p].at = n
      /\ proc'[p].data = proc[p].data
      /\ \A q \in Procs : q # p => proc'[q] = proc[q]
  BY PhaseMoves DEF FinishWrite, Phases
<1>4. CASE n = "gone" /\ UNCHANGED disk
  BY <1>1, <1>2, <1>3, <1>4
<1>5. CASE /\ n \in Names
           /\ \E s \in {"whole"} \union (IF disk[k][n].shared THEN {"torn"} ELSE {}) :
                disk' = [disk EXCEPT ![k][n].state = s, ![k][n].data = proc[p].data]
  <2>1. PICK s \in {"whole"} \union (IF disk[k][n].shared THEN {"torn"} ELSE {}) :
                disk' = [disk EXCEPT ![k][n].state = s, ![k][n].data = proc[p].data]
    BY <1>5
  <2>2. s \in {"whole", "torn"} /\ (s = "torn" => disk[k][n].shared)
    BY <2>1
  <2> DEFINE d == proc[p].data
             f == [disk[k][n] EXCEPT !.state = s, !.data = d]
  <2>0. n \in Names
    BY <1>5
  <2>3. disk' = [disk EXCEPT ![k] = [disk[k] EXCEPT ![n] = f]]
    BY <1>1, <2>0, <2>1 DEF TypeOK
  <2> HIDE DEF k, n, f
  <2>4. /\ disk'[k][n] = f
        /\ \A o \in Names : o # n => disk'[k][o] = disk[k][o]
        /\ \A j \in Kinds : j # k => disk'[j] = disk[j]
    BY <1>1, <1>5, <2>3 DEF TypeOK
  <2> QED
    BY <1>1, <1>2, <1>3, <1>5, <2>2, <2>4 DEF k, n, f
<1> QED
  BY <1>4, <1>5 DEF FinishWrite

LEMMA FinishTypes ==
    ASSUME TypeOK, NEW p \in Procs, FinishWrite(p)
    PROVE  TypeOK'
<1> DEFINE k == proc[p].kind
           n == proc[p].at
<1>1. k \in Kinds /\ proc[p].data \in [CellsOf[k] -> Run] /\ proc[p].phase = "write"
  BY FinishEffect
<1>2. proc[p].data \in Part
  BY <1>1, CellFacts, PartFacts
<1>3. UNCHANGED <<life, mem, dirty, runs, stops, crashes, mishaps>>
  BY DEF FinishWrite
<1>4. /\ disk' \in [Kinds -> [Names -> File]]
      /\ \A j \in Kinds, o \in Names : DOMAIN disk'[j][o].data = CellsOf[j]
  <2>1. CASE n = "gone" /\ UNCHANGED disk
    BY <2>1 DEF TypeOK
  <2>2. CASE n \in Names
    <3>1. PICK s \in {"whole", "torn"} :
              \/ disk' = disk
              \/ disk' = [disk EXCEPT ![k][n].state = s, ![k][n].data = proc[p].data]
      BY DEF FinishWrite
    <3> DEFINE d == proc[p].data
               f == [disk[k][n] EXCEPT !.state = s, !.data = d]
    <3>2. \/ disk' = disk
          \/ disk' = [disk EXCEPT ![k] = [disk[k] EXCEPT ![n] = f]]
      BY <1>1, <2>2, <3>1 DEF TypeOK
    <3>3. disk[k][n] \in File
      BY <1>1, <2>2 DEF TypeOK
    <3>4. f \in File /\ DOMAIN f.data = CellsOf[k]
      BY <1>1, <1>2, <3>3 DEF File
    <3> HIDE DEF f, k, n
    <3>5. disk' \in [Kinds -> [Names -> File]]
      <4>1. disk \in [Kinds -> [Names -> File]] /\ k \in Kinds /\ n \in Names
        BY <1>1, <2>2 DEF TypeOK, k, n
      <4>2. [disk[k] EXCEPT ![n] = f] \in [Names -> File]
        BY <3>4, <4>1
      <4> QED
        BY <3>2, <4>1, <4>2
    <3>6. ASSUME NEW j \in Kinds, NEW o \in Names
          PROVE  DOMAIN disk'[j][o].data = CellsOf[j]
      <4>1. disk'[j][o] = disk[j][o] \/ (j = k /\ o = n /\ disk'[j][o] = f)
        BY <1>1, <2>2, <3>2 DEF TypeOK
      <4> QED
        BY <3>4, <4>1 DEF TypeOK
    <3> QED
      BY <3>5, <3>6
  <2> QED
    BY <2>1, <2>2 DEF FinishWrite
<1>5. /\ proc' \in [Procs -> Proc]
      /\ \A q \in Procs : DOMAIN proc'[q].data \subseteq CellsOf[proc'[q].kind]
      /\ proc'[App].phase # "idle" => life' = "stopping"
  BY <1>1, <1>3, PhaseTypes DEF FinishWrite, Phases
<1> QED
  BY <1>3, <1>4, <1>5 DEF TypeOK

LEMMA RenamedFacts ==
    ASSUME TypeOK, NEW q \in Procs, NEW k
    PROVE  /\ Renamed(proc[q], k) \in Proc
           /\ Renamed(proc[q], k).phase = proc[q].phase
           /\ Renamed(proc[q], k).kind = proc[q].kind
           /\ Renamed(proc[q], k).data = proc[q].data
           /\ Renamed(proc[q], k).run = proc[q].run
           /\ proc[q].phase # "write" \/ proc[q].kind # k => Renamed(proc[q], k) = proc[q]
<1>1. proc[q] \in Proc
  BY DEF TypeOK
<1> QED
  BY <1>1 DEF Renamed, Proc, Names

LEMMA AfterFileFacts ==
    ASSUME NEW p
    PROVE  AfterFile(p) \in {"check", "clear"} /\ AfterFile(p) \in Phases
BY DEF AfterFile, Phases

LEMMA ReplaceEffect ==
    ASSUME TypeOK, NEW p \in Procs, Replace(p)
    PROVE  LET k == proc[p].kind IN
           /\ proc[p].phase = "replace" /\ k \in Kinds
           /\ proc'[p].phase = AfterFile(p) /\ proc'[p].kind = k
           /\ proc'[p].data = proc[p].data
           /\ \A q \in Procs : q # p => proc'[q] = Renamed(proc[q], k)
           /\ disk'[k]["final"] = disk[k]["tmp"] /\ disk'[k]["tmp"] = NoFile(k)
           /\ \A j \in Kinds : j # k => disk'[j] = disk[j]
<1> DEFINE k == proc[p].kind
           r == [proc[p] EXCEPT !.phase = AfterFile(p)]
<1>1. proc[p] \in Proc /\ k \in Kinds /\ proc[p].phase = "replace"
  BY DEF TypeOK, Proc, Replace
<1>2. r.phase = AfterFile(p) /\ r.kind = k /\ r.data = proc[p].data
  BY <1>1 DEF Proc
<1>3. proc'[p] = r /\ \A q \in Procs : q # p => proc'[q] = Renamed(proc[q], k)
  BY DEF Replace
<1>4. disk' = [disk EXCEPT ![k] = [final |-> disk[k]["tmp"], tmp |-> NoFile(k)]]
  BY DEF Replace, TmpAfterReplace
<1> HIDE DEF r, k
<1>5. /\ disk'[k]["final"] = disk[k]["tmp"] /\ disk'[k]["tmp"] = NoFile(k)
      /\ \A j \in Kinds : j # k => disk'[j] = disk[j]
  BY <1>1, <1>4 DEF TypeOK
<1> QED
  BY <1>1, <1>2, <1>3, <1>5 DEF k

LEMMA ReplaceTypes ==
    ASSUME TypeOK, NEW p \in Procs, Replace(p)
    PROVE  TypeOK'
<1> DEFINE k == proc[p].kind
           r == [proc[p] EXCEPT !.phase = AfterFile(p)]
           f == [final |-> disk[k]["tmp"], tmp |-> NoFile(k)]
<1>1. proc[p] \in Proc /\ k \in Kinds /\ proc[p].phase = "replace"
  BY DEF TypeOK, Proc, Replace
<1>2. r \in Proc /\ r.data = proc[p].data /\ r.kind = k
  BY PhaseType, AfterFileFacts
<1>3. disk' = [disk EXCEPT ![k] = f]
  BY DEF Replace, TmpAfterReplace
<1>4. UNCHANGED <<life, mem, dirty, runs, stops, crashes, mishaps>>
  BY DEF Replace
<1>5. /\ disk' \in [Kinds -> [Names -> File]]
      /\ \A j \in Kinds, o \in Names : DOMAIN disk'[j][o].data = CellsOf[j]
  <2>1. disk[k]["tmp"] \in File /\ DOMAIN disk[k]["tmp"].data = CellsOf[k]
    BY <1>1 DEF TypeOK, Names
  <2>2. NoFile(k) \in File /\ DOMAIN NoFile(k).data = CellsOf[k]
    BY <1>1, NoFileIsFile
  <2>3. f \in [Names -> File] /\ \A o \in Names : DOMAIN f[o].data = CellsOf[k]
    BY <2>1, <2>2 DEF Names
  <2> HIDE DEF f, k
  <2> QED
    BY <1>1, <1>3, <2>3 DEF TypeOK
<1>6. proc' = [q \in Procs |-> IF q = p THEN r ELSE Renamed(proc[q], k)]
  BY DEF Replace
<1>7. DOMAIN r.data \subseteq CellsOf[r.kind]
  BY <1>2 DEF TypeOK
<1> HIDE DEF r, k
<1>8. /\ proc' \in [Procs -> Proc]
      /\ \A q \in Procs : DOMAIN proc'[q].data \subseteq CellsOf[proc'[q].kind]
  BY <1>2, <1>6, <1>7, RenamedFacts DEF TypeOK
<1>9. proc'[App].phase # "idle" => life' = "stopping"
  BY <1>1, <1>4, <1>6, RenamedFacts, ProcsDistinct DEF TypeOK
<1> QED
  BY <1>4, <1>5, <1>8, <1>9 DEF TypeOK

LEMMA FailEffect ==
    ASSUME TypeOK, NEW p \in Procs, WriteFails(p)
    PROVE  LET k == proc[p].kind IN
           /\ proc[p].phase \in {"read", "write", "replace"} /\ k \in Kinds
           /\ proc'[p].phase = AfterFile(p) /\ proc'[p].kind = k
           /\ \A q \in Procs : q # p => proc'[q] = proc[q]
           /\ mishaps'[k] = mishaps[k] \union {"failed"}
           /\ \A j \in Kinds : j # k => mishaps'[j] = mishaps[j]
           /\ mishaps' \in [Kinds -> SUBSET {"overlap", "failed", "slice"}]
<1>1. proc[p] \in Proc /\ proc[p].kind \in Kinds
  BY DEF TypeOK, Proc
<1>2. /\ proc'[p].phase = AfterFile(p) /\ proc'[p].kind = proc[p].kind
      /\ \A q \in Procs : q # p => proc'[q] = proc[q]
  BY PhaseMoves, AfterFileFacts DEF WriteFails
<1> QED
  BY <1>1, <1>2 DEF WriteFails, Suffers, TypeOK

LEMMA NextTypes == TypeOK /\ [Next]_vars => TypeOK'
<1> SUFFICES ASSUME TypeOK, [Next]_vars PROVE TypeOK'
  OBVIOUS
<1> USE ProcsDistinct
<1>1. ASSUME NEW m \in Models, StoreStations(m) PROVE TypeOK'
  <2> DEFINE r == [Idle EXCEPT !.phase = "data", !.run = runs + 1]
  <2>1. runs + 1 \in Run
    BY <1>1, PersistenceAssumption DEF StoreStations, TypeOK, Run
  <2>2. mem' \in [Cells -> Run]
    BY <1>1, <2>1, EntryCell DEF StoreStations, TypeOK
  <2>3. r \in Proc /\ r.data = NoCells
    BY <2>1, NoCellsIsPart DEF Proc, Idle, Kinds
  <2>4. proc' = [proc EXCEPT ![m] = r]
    BY <1>1 DEF StoreStations
  <2> HIDE DEF r
  <2>5. UNCHANGED <<life, dirty, disk, stops, crashes, mishaps>> /\ runs' \in Run
    BY <1>1, <2>1 DEF StoreStations
  <2>6. /\ proc' \in [Procs -> Proc]
        /\ \A q \in Procs : DOMAIN proc'[q].data \subseteq CellsOf[proc'[q].kind]
        /\ proc'[App].phase # "idle" => life' = "stopping"
    BY <2>3, <2>4, <2>5, NoCellsIsPart, ProcTypes
  <2> QED
    BY <2>2, <2>5, <2>6 DEF TypeOK
<1>2. ASSUME NEW m \in Models, WriteSlice(m) PROVE TypeOK'
  <2> DEFINE f == proc[m].phase
  <2>1. f \in {"data", "time", "label"} /\ Following[f] \in Phases
    BY <1>2 DEF WriteSlice, Following, Phases
  <2>2. proc[m].run \in Run
    BY DEF TypeOK, Proc
  <2>3. mem' \in [Cells -> Run]
    BY <1>2, <2>1, <2>2, GridCell DEF WriteSlice, TypeOK
  <2>4. UNCHANGED <<life, dirty, disk, runs, stops, crashes, mishaps>>
    BY <1>2 DEF WriteSlice
  <2>5. /\ proc' \in [Procs -> Proc]
        /\ \A q \in Procs : DOMAIN proc'[q].data \subseteq CellsOf[proc'[q].kind]
        /\ proc'[App].phase # "idle" => life' = "stopping"
    BY <1>2, <2>1, <2>4, PhaseTypes DEF WriteSlice
  <2> QED
    BY <2>3, <2>4, <2>5 DEF TypeOK
<1>3. ASSUME NEW m \in Models, MarkDirty(m) \/ SkipGrid(m) PROVE TypeOK'
  <2>1. /\ UNCHANGED <<life, mem, disk, runs, stops, crashes>>
        /\ dirty' \in BOOLEAN
        /\ mishaps' \in [Kinds -> SUBSET {"overlap", "failed", "slice"}]
    <3>1. /\ UNCHANGED <<life, mem, disk, runs, stops, crashes>>
          /\ dirty' \in {dirty, TRUE}
          /\ mishaps' \in {mishaps, Suffers("grid", "slice")}
      BY <1>3 DEF MarkDirty, SkipGrid, FlagAfterSlice
    <3>2. Suffers("grid", "slice") \in [Kinds -> SUBSET {"overlap", "failed", "slice"}]
      BY DEF Suffers, TypeOK
    <3> QED
      BY <3>1, <3>2 DEF TypeOK
  <2>2. /\ proc' \in [Procs -> Proc]
        /\ \A q \in Procs : DOMAIN proc'[q].data \subseteq CellsOf[proc'[q].kind]
        /\ proc'[App].phase # "idle" => life' = "stopping"
    BY <1>3, <2>1, PhaseTypes DEF MarkDirty, SkipGrid, Phases
  <2> QED
    BY <2>1, <2>2 DEF TypeOK
<1>4. ASSUME NEW p \in Procs, NEW k \in Kinds, Begin(p, k),
             UNCHANGED <<mem, dirty, disk, runs, crashes>>, stops' \in 0..MaxStops,
             life' = life \/ life' = "stopping",
             p = App => proc[App].phase # "idle" \/ life' = "stopping"
      PROVE  TypeOK'
  <2>1. /\ proc' \in [Procs -> Proc]
        /\ \A q \in Procs : DOMAIN proc'[q].data \subseteq CellsOf[proc'[q].kind]
        /\ proc'[App].phase # "idle" => life' = "stopping"
    BY <1>4, BeginTypes
  <2>2. mishaps' \in [Kinds -> SUBSET {"overlap", "failed", "slice"}]
    BY <1>4, BeginMoves
  <2> QED
    BY <1>4, <2>1, <2>2 DEF TypeOK
<1>5. ASSUME NEW m \in Models, StartSave(m) PROVE TypeOK'
  <2>1. stops' \in 0..MaxStops
    BY <1>5 DEF StartSave, TypeOK
  <2> QED
    BY <1>4, <1>5, <2>1 DEF StartSave, Kinds
<1>6. CASE Stop
  <2>1. stops' \in 0..MaxStops
    BY <1>6, PersistenceAssumption DEF Stop, TypeOK
  <2> QED
    BY <1>4, <1>6, <2>1 DEF Stop, Kinds
<1>7. ASSUME NEW p \in Procs, ReadCell(p) PROVE TypeOK'
  <2>1. PICK c \in CellsOf[proc[p].kind], d \in Part :
          /\ c \notin DOMAIN proc[p].data
          /\ d = [x \in DOMAIN proc[p].data \union {c} |->
                           IF x = c THEN mem[c] ELSE proc[p].data[x]]
          /\ proc' = [proc EXCEPT ![p] = [proc[p] EXCEPT !.data = d]]
    BY <1>7, ReadMoves
  <2> DEFINE r == [proc[p] EXCEPT !.data = d]
  <2>2. proc[p] \in Proc /\ DOMAIN proc[p].data \subseteq CellsOf[proc[p].kind]
    BY DEF TypeOK
  <2>3. r \in Proc /\ r.data = d /\ r.kind = proc[p].kind /\ r.phase = proc[p].phase
    BY <2>2 DEF Proc
  <2>4. DOMAIN d \subseteq CellsOf[proc[p].kind]
    BY <2>1, <2>2
  <2>5. UNCHANGED <<life, mem, dirty, disk, runs, stops, crashes, mishaps>>
        /\ proc[p].phase # "idle"
    BY <1>7, ReadEffect DEF ReadCell
  <2> HIDE DEF r
  <2>6. /\ proc' \in [Procs -> Proc]
        /\ \A q \in Procs : DOMAIN proc'[q].data \subseteq CellsOf[proc'[q].kind]
        /\ proc'[App].phase # "idle" => life' = "stopping"
    <3>1. proc' = [proc EXCEPT ![p] = r]
      BY <2>1 DEF r
    <3> QED
      BY <2>3, <2>4, <2>5, <3>1, ProcTypes
  <2> QED
    BY <2>5, <2>6 DEF TypeOK
<1>8. ASSUME NEW p \in Procs, OpenTmp(p) \/ FinishWrite(p) \/ Replace(p) PROVE TypeOK'
  BY <1>8, OpenTypes, FinishTypes, ReplaceTypes
<1>9. ASSUME NEW p \in Procs, ReplaceMissing(p) \/ WriteFails(p) PROVE TypeOK'
  <2>1. /\ proc' = [proc EXCEPT ![p].phase = AfterFile(p)] /\ proc[p].phase # "idle"
        /\ UNCHANGED <<life, mem, dirty, disk, runs, stops, crashes>>
    BY <1>9 DEF ReplaceMissing, WriteFails
  <2>2. /\ proc' \in [Procs -> Proc]
        /\ \A q \in Procs : DOMAIN proc'[q].data \subseteq CellsOf[proc'[q].kind]
        /\ proc'[App].phase # "idle" => life' = "stopping"
    BY <2>1, AfterFileFacts, PhaseTypes
  <2>3. mishaps' \in [Kinds -> SUBSET {"overlap", "failed", "slice"}]
    BY <1>9, FailEffect DEF ReplaceMissing, TypeOK
  <2> QED
    BY <2>1, <2>2, <2>3 DEF TypeOK
<1>10. ASSUME NEW p \in Procs, CheckDirty(p) \/ ClearDirty(p) PROVE TypeOK'
  <2>1. /\ UNCHANGED <<life, mem, disk, runs, stops, crashes>> /\ dirty' \in BOOLEAN
        /\ proc[p].phase # "idle"
    BY <1>10 DEF CheckDirty, ClearDirty, TypeOK
  <2>2. CASE Begin(p, "grid") /\ dirty' = dirty
    <3>1. stops' \in 0..MaxStops
      BY <2>1 DEF TypeOK
    <3> QED
      BY <1>4, <2>1, <2>2, <3>1 DEF Kinds
  <2>3. CASE proc' = [proc EXCEPT ![p] = Idle] /\ UNCHANGED mishaps
    <3>1. DOMAIN Idle.data = {} /\ Idle.phase = "idle"
      BY NoCellsIsPart DEF Idle
    <3>2. /\ proc' \in [Procs -> Proc]
          /\ \A q \in Procs : DOMAIN proc'[q].data \subseteq CellsOf[proc'[q].kind]
          /\ proc'[App].phase # "idle" => life' = "stopping"
      BY <2>1, <2>3, <3>1, IdleIsProc, ProcTypes
    <3> QED
      BY <2>1, <2>3, <3>2 DEF TypeOK
  <2> QED
    BY <1>10, <2>2, <2>3 DEF CheckDirty, ClearDirty
<1>11. CASE Exit \/ Crash
  <2>1. /\ Forget /\ UNCHANGED <<disk, runs>>
        /\ stops' \in 0..MaxStops /\ crashes' \in 0..MaxCrashes
    <3>1. CASE Exit
      BY <3>1 DEF Exit, TypeOK
    <3>2. CASE Crash
      BY <3>2, PersistenceAssumption DEF Crash, TypeOK
    <3> QED
      BY <1>11, <3>1, <3>2
  <2>2. mem' \in [Cells -> Run]
    BY <2>1, PersistenceAssumption DEF Forget, Run
  <2>3. /\ proc' \in [Procs -> Proc] /\ proc'[App].phase = "idle"
        /\ \A q \in Procs : DOMAIN proc'[q].data \subseteq CellsOf[proc'[q].kind]
    BY <2>1, IdleIsProc, NoCellsIsPart DEF Forget, Idle
  <2> QED
    BY <2>1, <2>2, <2>3, NoMishapsType DEF Forget, TypeOK
<1>12. CASE Start
  <2>1. mem' \in [Cells -> Run]
    <3>1. PICK taken \in LabelsTaken :
            mem' = [c \in Cells |-> IF c[1] = "label" /\ taken
                                    THEN disk["grid"]["final"].data[c] ELSE Recalled(c)]
      BY <1>12 DEF Start
    <3>2. \A c \in Cells : c[1] = "label" => c \in CellsOf["grid"]
      BY CellsAre DEF Cells
    <3>3. \A c \in CellsOf["grid"] : disk["grid"]["final"].data[c] \in Run
      <4>1. disk["grid"]["final"] \in File
            /\ DOMAIN disk["grid"]["final"].data = CellsOf["grid"]
        BY DEF TypeOK, Kinds, Names
      <4> QED
        BY <4>1, PartFacts DEF File
    <3> QED
      BY <3>1, <3>2, <3>3, LoadedIsRun DEF Recalled
  <2>2. /\ disk' \in [Kinds -> [Names -> File]]
        /\ \A j \in Kinds, o \in Names : DOMAIN disk'[j][o].data = CellsOf[j]
    BY <1>12, NoFileIsFile DEF Start, TypeOK, Names
  <2>3. UNCHANGED <<dirty, proc, runs, stops, crashes, mishaps>> /\ life' = "up"
        /\ life = "down"
    BY <1>12 DEF Start
  <2> QED
    BY <2>1, <2>2, <2>3 DEF TypeOK
<1>13. CASE UNCHANGED vars
  BY <1>13 DEF vars, TypeOK
<1> QED
  BY <1>1, <1>2, <1>3, <1>5, <1>6, <1>7, <1>8, <1>9, <1>10, <1>11, <1>12,
     <1>13 DEF Next, Collect, Save

\* The types are those that TypeOK says, with any failures, files and overlaps:
\* what a process has read is of the cache it saves, and the application saves
\* only while it stops.
THEOREM TypeCorrect == Spec => []TypeOK
<1>1. Init => TypeOK
  BY InitTypes
<1>2. TypeOK /\ [Next]_vars => TypeOK'
  BY NextTypes
<1> QED
  BY <1>1, <1>2, PTL DEF Spec

-----------------------------------------------------------------------------
(* The files *)

FilePhases == {"read", "write", "replace"}

DownIdle ==
    life = "down" =>
        /\ \A p \in Procs : proc[p] = Idle
        /\ mishaps = NoMishaps /\ ~dirty /\ mem = [c \in Cells |-> 0]

\* Of saves begun one after the other: there is one saver, who writes a file of
\* its own, and what it is going to rename is its copy.
OneSaver(k) == k \in Overlapped \/ \A p, q \in Savers(k) : p = q

OwnFile(k) ==
    k \in Overlapped \/ \A p \in Savers(k) :
        /\ proc[p].phase = "write" => proc[p].at = "tmp" /\ ~disk[k]["tmp"].shared
        /\ proc[p].phase = "replace" => /\ disk[k]["tmp"].state = "whole"
                                        /\ disk[k]["tmp"].data = proc[p].data

TmpExplains(k) ==
    disk[k]["tmp"].state # "none" => Savers(k) # {} \/ "failed" \in mishaps[k]

KindInv(k) == OneSaver(k) /\ OwnFile(k) /\ TmpExplains(k)

FileInv == TypeOK /\ DownIdle /\ (life # "down" => \A k \in Kinds : KindInv(k))

LEMMA IsSaver ==
    \A p \in Procs, k \in Kinds :
        p \in Savers(k) <=> proc[p].phase \in FilePhases /\ proc[p].kind = k
BY DEF Savers, FilePhases

LEMMA IsSaverThen ==
    \A p \in Procs, k \in Kinds :
        p \in Savers(k)' <=> proc'[p].phase \in FilePhases /\ proc'[p].kind = k
BY DEF Savers, FilePhases

LEMMA SaversAreProcs == \A k : Savers(k) \subseteq Procs /\ Savers(k)' \subseteq Procs
BY DEF Savers

\* A step of others than its savers makes no difference to a cache.
LEMMA OtherKind ==
    ASSUME NEW k \in Kinds, KindInv(k), disk'[k] = disk[k],
           mishaps'[k] = mishaps[k] \/ mishaps'[k] = mishaps[k] \union {"slice"},
           \A p \in Procs : proc'[p] = proc[p] \/ (p \notin Savers(k) /\ p \notin Savers(k)')
    PROVE  KindInv(k)'
<1>1. Savers(k)' = Savers(k) /\ \A p \in Savers(k) : proc'[p] = proc[p]
  BY IsSaver, IsSaverThen, SaversAreProcs
<1>2. (k \in Overlapped)' <=> k \in Overlapped
  BY DEF Overlapped
<1> QED
  BY <1>1, <1>2 DEF KindInv, OneSaver, OwnFile, TmpExplains

LEMMA NextDown == TypeOK /\ DownIdle /\ [Next]_vars => DownIdle'
<1> SUFFICES ASSUME TypeOK, DownIdle, [Next]_vars, life' = "down"
             PROVE  DownIdle'
  BY DEF DownIdle
<1>1. CASE Forget
  BY <1>1 DEF Forget, DownIdle
<1>2. CASE life = "down" /\ UNCHANGED vars
  BY <1>2 DEF DownIdle, vars
<1>3. Forget \/ (life = "down" /\ UNCHANGED vars)
  <2>1. life = "down" => \A p \in Procs : proc[p].phase = "idle"
    BY DEF DownIdle, Idle
  <2> QED
    BY <2>1, ProcsDistinct DEF Next, vars, Collect, Save, StoreStations, WriteSlice,
       Following, MarkDirty, SkipGrid, StartSave, ReadCell, Unread, Fields, OpenTmp,
       FinishWrite, Replace, ReplaceMissing, WriteFails, CheckDirty, ClearDirty,
       Stop, Exit, Crash, Start
<1> QED
  BY <1>1, <1>2, <1>3

LEMMA InitFiles == Init => FileInv
BY InitTypes DEF Init, FileInv, DownIdle

\* Down, nothing happens but a start.
LEMMA OnlyStart ==
    ASSUME DownIdle, life = "down", Next
    PROVE  Start
<1>1. \A p \in Procs : proc[p].phase = "idle"
  BY DEF DownIdle, Idle
<1> QED
  BY <1>1, ProcsDistinct DEF Next, Collect, Save, StoreStations, WriteSlice,
     Following, MarkDirty, SkipGrid, StartSave, ReadCell, Unread, Fields, OpenTmp,
     FinishWrite, Replace, ReplaceMissing, WriteFails, CheckDirty, ClearDirty,
     Stop, Exit, Crash

LEMMA BeginFiles ==
    ASSUME TypeOK, NEW p \in Procs, NEW k \in Kinds, Begin(p, k),
           proc[p].phase \notin FilePhases, disk' = disk,
           \A j \in Kinds : KindInv(j)
    PROVE  \A j \in Kinds : KindInv(j)'
<1> TAKE j \in Kinds
<1>1. CASE j # k
  <2>1. \A q \in Procs : proc'[q] = proc[q] \/ (q \notin Savers(j) /\ q \notin Savers(j)')
    BY <1>1, BeginMoves, IsSaver, IsSaverThen
  <2> QED
    BY <1>1, <2>1, BeginMoves, OtherKind
<1>2. CASE j = k
  <2>1. p \notin Savers(k) /\ p \in Savers(k)'
    BY BeginMoves, IsSaver, IsSaverThen DEF FilePhases
  <2>2. \A q \in Procs : q # p => (q \in Savers(k)' <=> q \in Savers(k))
    BY BeginMoves, IsSaver, IsSaverThen
  <2>3. CASE Savers(k) = {}
    <3>1. \A q \in Savers(k)' : q = p
      BY <2>2, <2>3, SaversAreProcs
    <3>2. proc'[p].phase = "read"
      BY BeginMoves
    <3> QED
      BY <1>2, <2>1, <3>1, <3>2 DEF KindInv, OneSaver, OwnFile, TmpExplains
  <2>4. CASE Savers(k) # {}
    <3>1. (k \in Overlapped)'
      BY <2>4, BeginMoves DEF Overlapped
    <3> QED
      BY <1>2, <2>1, <3>1 DEF KindInv, OneSaver, OwnFile, TmpExplains
  <2> QED
    BY <2>3, <2>4
<1> QED
  BY <1>1, <1>2

\* A saver goes on; what holds of its file, or that it is done, is a premise.
LEMMA SaverMoves ==
    ASSUME NEW p \in Procs, NEW k \in Kinds, p \in Savers(k), KindInv(k),
           \A q \in Procs : q # p => (q \in Savers(k)' <=> q \in Savers(k)),
           mishaps'[k] = mishaps[k] \/ mishaps'[k] = mishaps[k] \union {"failed"},
           (k \in Overlapped) \/ (p \notin Savers(k)') \/
              (/\ proc'[p].phase = "write" =>
                     proc'[p].at = "tmp" /\ ~disk'[k]["tmp"].shared
               /\ proc'[p].phase = "replace" =>
                     /\ disk'[k]["tmp"].state = "whole"
                     /\ disk'[k]["tmp"].data = proc'[p].data),
           p \in Savers(k)' \/ disk'[k]["tmp"].state = "none"
              \/ "failed" \in mishaps'[k]
    PROVE  KindInv(k)'
<1>1. (k \in Overlapped)' <=> k \in Overlapped
  BY DEF Overlapped
<1>2. OneSaver(k)'
  BY <1>1, SaversAreProcs DEF KindInv, OneSaver
<1>3. OwnFile(k)'
  BY <1>1, SaversAreProcs DEF KindInv, OneSaver, OwnFile
<1>4. TmpExplains(k)'
  BY DEF TmpExplains
<1> QED
  BY <1>2, <1>3, <1>4 DEF KindInv

\* One step of a save of the cache k.
LEMMA SaverStep ==
    ASSUME TypeOK, NEW p \in Procs, \A j \in Kinds : KindInv(j),
           NEW k \in Kinds, k = proc[p].kind,
           ReadCell(p) \/ OpenTmp(p) \/ FinishWrite(p) \/ Replace(p)
              \/ ReplaceMissing(p) \/ WriteFails(p)
    PROVE  KindInv(k)' /\ \A j \in Kinds : j # k => KindInv(j)'
<1>k. p \in Savers(k)
  <2>2. proc[p].phase \in FilePhases
    BY ReadEffect, OpenEffect, FinishEffect, ReplaceEffect, FailEffect
       DEF FilePhases, ReplaceMissing
  <2> QED
    BY <2>2, IsSaver
<1>1. CASE ReadCell(p)
  <2>1. disk' = disk /\ mishaps' = mishaps
    BY <1>1 DEF ReadCell
  <2>2. \A j \in Kinds, q \in Procs : q \in Savers(j)' <=> q \in Savers(j)
    BY <1>1, ReadEffect, IsSaver, IsSaverThen
  <2>3. proc'[p].phase = "write" => proc[p].phase = "write" /\ proc'[p].at = proc[p].at
    BY <1>1, ReadEffect
  <2>4. proc'[p].phase # "replace"
    BY <1>1, ReadEffect
  <2>5. KindInv(k)'
    BY <1>k, <2>1, <2>2, <2>3, <2>4, SaverMoves DEF KindInv, OwnFile
  <2>6. \A j \in Kinds : j # k => KindInv(j)'
    <3>1. \A j \in Kinds, q \in Procs : j # k =>
             proc'[q] = proc[q] \/ (q \notin Savers(j) /\ q \notin Savers(j)')
      BY <1>1, ReadEffect, IsSaver, IsSaverThen
    <3> QED
      BY <2>1, <3>1, OtherKind
  <2> QED
    BY <2>5, <2>6
<1>2. CASE OpenTmp(p)
  <2>0. OneSaver(k) /\ mishaps' = mishaps
    BY <1>2, <1>k DEF KindInv, OpenTmp
  <2>1. /\ proc[p].phase = "read" /\ proc'[p].phase = "write" /\ proc'[p].kind = k
        /\ proc'[p].at = "tmp"
        /\ \A q \in Procs : q # p => proc'[q] = proc[q]
        /\ \A j \in Kinds : j # k => disk'[j] = disk[j]
    BY <1>2, OpenEffect
  <2>2. k \in Overlapped \/ ~disk'[k]["tmp"].shared
    <3>0. disk'[k]["tmp"].shared =>
             \E q \in Procs : proc[q].phase = "write" /\ proc[q].kind = k
      BY <1>2, OpenEffect
    <3> SUFFICES ASSUME k \notin Overlapped, NEW q \in Procs,
                        proc[q].phase = "write", proc[q].kind = k
                 PROVE  FALSE
      BY <3>0
    <3>1. q \in Savers(k)
      BY <1>k, IsSaver DEF FilePhases
    <3>2. q = p
      BY <1>k, <2>0, <3>1 DEF OneSaver
    <3> QED
      BY <2>1, <3>2
  <2>3. \A q \in Procs : q \in Savers(k)' <=> q \in Savers(k)
    BY <1>k, <2>1, IsSaver, IsSaverThen DEF FilePhases
  <2>4. KindInv(k)'
    BY <1>k, <2>0, <2>1, <2>2, <2>3, SaverMoves
  <2>5. \A j \in Kinds : j # k => KindInv(j)'
    <3>1. \A j \in Kinds, q \in Procs : j # k =>
             proc'[q] = proc[q] \/ (q \notin Savers(j) /\ q \notin Savers(j)')
      BY <2>1, IsSaver, IsSaverThen
    <3> QED
      BY <2>0, <2>1, <3>1, OtherKind
  <2> QED
    BY <2>4, <2>5
<1>3. CASE FinishWrite(p)
  <2>0. OwnFile(k) /\ mishaps' = mishaps
    BY <1>3, <1>k DEF KindInv, FinishWrite
  <2>1. /\ proc[p].phase = "write" /\ proc'[p].phase = "replace" /\ proc'[p].kind = k
        /\ proc'[p].data = proc[p].data
        /\ \A q \in Procs : q # p => proc'[q] = proc[q]
        /\ \A j \in Kinds : j # k => disk'[j] = disk[j]
    BY <1>3, FinishEffect
  <2>2. \/ k \in Overlapped
        \/ disk'[k]["tmp"].state = "whole" /\ disk'[k]["tmp"].data = proc'[p].data
    <3> SUFFICES ASSUME k \notin Overlapped
                 PROVE  disk'[k]["tmp"].state = "whole"
                        /\ disk'[k]["tmp"].data = proc'[p].data
      OBVIOUS
    <3>1. proc[p].at = "tmp" /\ ~disk[k]["tmp"].shared
      BY <1>k, <2>0, <2>1 DEF OwnFile
    <3>2. PICK s \in {"whole", "torn"} :
             /\ disk'[k]["tmp"] = [disk[k]["tmp"] EXCEPT !.state = s, !.data = proc[p].data]
             /\ s = "torn" => disk[k]["tmp"].shared
      BY <1>3, <3>1, FinishEffect
    <3>3. disk[k]["tmp"] \in File
      BY <1>k DEF TypeOK, Names
    <3> QED
      BY <2>1, <3>1, <3>2, <3>3 DEF File
  <2>3. \A q \in Procs : q \in Savers(k)' <=> q \in Savers(k)
    BY <1>k, <2>1, IsSaver, IsSaverThen DEF FilePhases
  <2>4. KindInv(k)'
    BY <1>k, <2>0, <2>1, <2>2, <2>3, SaverMoves
  <2>5. \A j \in Kinds : j # k => KindInv(j)'
    <3>1. \A j \in Kinds, q \in Procs : j # k =>
             proc'[q] = proc[q] \/ (q \notin Savers(j) /\ q \notin Savers(j)')
      BY <2>1, IsSaver, IsSaverThen
    <3> QED
      BY <2>0, <2>1, <3>1, OtherKind
  <2> QED
    BY <2>4, <2>5
<1>4. CASE Replace(p)
  <2>1. /\ proc'[p].phase = AfterFile(p) /\ proc'[p].kind = k
        /\ \A q \in Procs : q # p => proc'[q] = Renamed(proc[q], k)
        /\ disk'[k]["tmp"] = NoFile(k)
        /\ \A j \in Kinds : j # k => disk'[j] = disk[j]
    BY <1>4, ReplaceEffect
  <2>2. mishaps' = mishaps
    BY <1>4 DEF Replace
  <2>3. p \notin Savers(k)'
    BY <1>k, <2>1, AfterFileFacts, IsSaverThen DEF FilePhases
  <2>4. \A q \in Procs : q # p => (q \in Savers(k)' <=> q \in Savers(k))
    BY <1>k, <2>1, RenamedFacts, IsSaver, IsSaverThen
  <2>5. KindInv(k)'
    BY <1>k, <2>1, <2>2, <2>3, <2>4, SaverMoves DEF NoFile
  <2>6. \A j \in Kinds : j # k => KindInv(j)'
    <3>1. \A j \in Kinds, q \in Procs : j # k =>
             proc'[q] = proc[q] \/ (q \notin Savers(j) /\ q \notin Savers(j)')
      BY <2>1, <2>3, RenamedFacts, AfterFileFacts, IsSaver, IsSaverThen DEF FilePhases
    <3> QED
      BY <2>1, <2>2, <3>1, OtherKind
  <2> QED
    BY <2>5, <2>6
<1>5. CASE ReplaceMissing(p) \/ WriteFails(p)
  <2>1. /\ proc'[p].phase = AfterFile(p) /\ proc'[p].kind = k
        /\ \A q \in Procs : q # p => proc'[q] = proc[q]
    BY <1>5, PhaseMoves, AfterFileFacts DEF ReplaceMissing, WriteFails
  <2>2. /\ disk' = disk
        /\ \A j \in Kinds : j # k => mishaps'[j] = mishaps[j]
        /\ \/ mishaps'[k] = mishaps[k] /\ disk[k]["tmp"].state = "none"
           \/ mishaps'[k] = mishaps[k] \union {"failed"}
    BY <1>5, FailEffect DEF ReplaceMissing, WriteFails
  <2>3. p \notin Savers(k)'
    BY <1>k, <2>1, AfterFileFacts, IsSaverThen DEF FilePhases
  <2>4. \A q \in Procs : q # p => (q \in Savers(k)' <=> q \in Savers(k))
    BY <1>k, <2>1, IsSaver, IsSaverThen
  <2>5. KindInv(k)'
    BY <1>k, <2>1, <2>2, <2>3, <2>4, SaverMoves
  <2>6. \A j \in Kinds : j # k => KindInv(j)'
    <3>1. \A j \in Kinds, q \in Procs : j # k =>
             proc'[q] = proc[q] \/ (q \notin Savers(j) /\ q \notin Savers(j)')
      BY <2>1, <2>3, AfterFileFacts, IsSaver, IsSaverThen DEF FilePhases
    <3> QED
      BY <2>2, <3>1, OtherKind
  <2> QED
    BY <2>5, <2>6
<1> QED
  BY <1>1, <1>2, <1>3, <1>4, <1>5

LEMMA SaverKeepsFiles ==
    ASSUME TypeOK, NEW p \in Procs, \A j \in Kinds : KindInv(j),
           ReadCell(p) \/ OpenTmp(p) \/ FinishWrite(p) \/ Replace(p)
              \/ ReplaceMissing(p) \/ WriteFails(p)
    PROVE  \A j \in Kinds : KindInv(j)'
<1>1. PICK k \in Kinds : k = proc[p].kind
  BY DEF TypeOK, Proc
<1>2. KindInv(k)' /\ \A j \in Kinds : j # k => KindInv(j)'
  BY <1>1, SaverStep
<1> QED
  BY <1>2

\* A process that saves no cache before and after a step.
LEMMA OthersKeepFiles ==
    ASSUME NEW p \in Procs, \A k \in Kinds : KindInv(k), disk' = disk,
           proc[p].phase \notin FilePhases, proc'[p].phase \notin FilePhases,
           \A q \in Procs : q # p => proc'[q] = proc[q],
           \A k \in Kinds : \/ mishaps'[k] = mishaps[k]
                            \/ mishaps'[k] = mishaps[k] \union {"slice"}
    PROVE  \A k \in Kinds : KindInv(k)'
BY OtherKind, IsSaver, IsSaverThen

\* A step of a collection run.
LEMMA CollectEffect ==
    ASSUME TypeOK, NEW m \in Models, Collect(m)
    PROVE  /\ proc[m].phase \notin FilePhases /\ proc'[m].phase \notin FilePhases
           /\ proc[m].phase # "clear" /\ proc'[m].phase # "clear"
           /\ \A q \in Procs : q # m => proc'[q] = proc[q]
           /\ UNCHANGED <<life, disk, stops, crashes>>
           /\ \A k \in Kinds : \/ mishaps'[k] = mishaps[k]
                               \/ /\ MarkDirty(m) /\ k = "grid" /\ GridIsSaved
                                  /\ mishaps'[k] = mishaps[k] \union {"slice"}
<1>0. m \in Procs
  BY ProcsDistinct
<1>1. CASE StoreStations(m)
  <2> DEFINE r == [Idle EXCEPT !.phase = "data", !.run = runs + 1]
  <2>1. proc' = [proc EXCEPT ![m] = r] /\ r.phase = "data"
    BY <1>1 DEF StoreStations, Idle
  <2> HIDE DEF r
  <2> QED
    BY <1>0, <1>1, <2>1, ProcMoves DEF StoreStations, FilePhases
<1>2. CASE WriteSlice(m)
  <2>1. PICK f \in {"data", "time", "label"} : f = proc[m].phase
    BY <1>2 DEF WriteSlice, Following
  <2>2. Following[f] \in {"time", "label", "mark"}
    BY <2>1 DEF Following
  <2>3. proc' = [proc EXCEPT ![m].phase = Following[f]]
    BY <1>2, <2>1 DEF WriteSlice
  <2>4. proc'[m].phase = Following[f] /\ \A q \in Procs : q # m => proc'[q] = proc[q]
    BY <1>0, <2>2, <2>3, PhaseMoves DEF Phases
  <2> QED
    BY <1>2, <2>1, <2>2, <2>4 DEF WriteSlice, FilePhases
<1>3. CASE MarkDirty(m)
  BY <1>0, <1>3, PhaseMoves DEF MarkDirty, Phases, FilePhases, Suffers, TypeOK
<1>4. CASE SkipGrid(m)
  BY <1>0, <1>4, PhaseMoves DEF SkipGrid, Phases, FilePhases
<1> QED
  BY <1>1, <1>2, <1>3, <1>4 DEF Collect

LEMMA NextFiles == FileInv /\ [Next]_vars => FileInv'
<1> SUFFICES ASSUME FileInv, [Next]_vars PROVE FileInv'
  OBVIOUS
<1>t. TypeOK
  BY DEF FileInv
<1>1. TypeOK' /\ DownIdle'
  BY NextTypes, NextDown DEF FileInv
<1> SUFFICES ASSUME life' # "down" PROVE \A k \in Kinds : KindInv(k)'
  BY <1>1 DEF FileInv
<1>2. CASE UNCHANGED vars
  BY <1>2 DEF FileInv, vars, KindInv, OneSaver, OwnFile, TmpExplains, Savers, Overlapped
<1>3. CASE life = "down" /\ Next
  <2>1. Start /\ \A p \in Procs : proc'[p] = Idle
    BY <1>3, OnlyStart DEF FileInv, DownIdle, Start
  <2>2. \A k \in Kinds : disk'[k]["tmp"].state = "none"
    <3>1. \A k \in Kinds : disk'[k]["tmp"] = NoFile(k)
      BY <1>t, <2>1 DEF Start, TypeOK, Names
    <3>2. \A k \in Kinds : NoFile(k).state = "none"
      BY DEF NoFile
    <3> QED
      BY <3>1, <3>2
  <2>3. \A k \in Kinds : \A p : p \notin Savers(k)'
    BY <2>1 DEF Savers, Idle
  <2> TAKE k \in Kinds
  <2>4. OneSaver(k)' /\ OwnFile(k)'
    BY <2>3 DEF OneSaver, OwnFile
  <2>5. TmpExplains(k)'
    BY <2>2 DEF TmpExplains
  <2> QED
    BY <2>4, <2>5 DEF KindInv
<1> SUFFICES ASSUME life # "down", Next PROVE \A k \in Kinds : KindInv(k)'
  BY <1>2, <1>3
<1>4. \A k \in Kinds : KindInv(k)
  BY DEF FileInv
<1>5. ASSUME NEW m \in Models, Collect(m)
      PROVE  \A k \in Kinds : KindInv(k)'
  <2>1. m \in Procs
    BY ProcsDistinct
  <2> QED
    BY <1>4, <1>5, <1>t, <2>1, CollectEffect, OthersKeepFiles
<1>6. ASSUME NEW m \in Models, StartSave(m)
      PROVE  \A k \in Kinds : KindInv(k)'
  <2>1. m \in Procs /\ "station" \in Kinds
    BY ProcsDistinct DEF Kinds
  <2>2. Begin(m, "station") /\ disk' = disk /\ proc[m].phase \notin FilePhases
    BY <1>6 DEF StartSave, FilePhases
  <2> QED
    BY <1>4, <1>t, <2>1, <2>2, BeginFiles
<1>7. CASE Stop
  <2>1. App \in Procs /\ "station" \in Kinds
    BY ProcsDistinct DEF Kinds
  <2>2. Begin(App, "station") /\ disk' = disk /\ proc[App].phase \notin FilePhases
    BY <1>7, <1>t DEF Stop, FilePhases, TypeOK
  <2> QED
    BY <1>4, <1>t, <2>1, <2>2, BeginFiles
<1>8. ASSUME NEW p \in Procs,
             ReadCell(p) \/ OpenTmp(p) \/ FinishWrite(p) \/ Replace(p)
                \/ ReplaceMissing(p) \/ WriteFails(p)
      PROVE  \A k \in Kinds : KindInv(k)'
  BY <1>4, <1>8, <1>t, SaverKeepsFiles
<1>9. ASSUME NEW p \in Procs, CheckDirty(p) \/ ClearDirty(p)
      PROVE  \A k \in Kinds : KindInv(k)'
  <2>1. disk' = disk /\ proc[p].phase \notin FilePhases
    BY <1>9 DEF CheckDirty, ClearDirty, FilePhases
  <2>2. CASE Begin(p, "grid")
    BY <1>4, <1>t, <2>1, <2>2, BeginFiles DEF Kinds
  <2>3. CASE proc' = [proc EXCEPT ![p] = Idle] /\ UNCHANGED mishaps
    <3>1. proc'[p] = Idle /\ \A q \in Procs : q # p => proc'[q] = proc[q]
      BY <1>t, <2>3, ProcMoves
    <3> QED
      BY <1>4, <2>1, <2>3, <3>1, OthersKeepFiles DEF Idle, FilePhases
  <2> QED
    BY <1>9, <2>2, <2>3 DEF CheckDirty, ClearDirty
<1>10. CASE Exit \/ Crash
  BY <1>10 DEF Exit, Crash, Forget
<1>11. CASE Start
  BY <1>11 DEF Start
<1> QED
  BY <1>5, <1>6, <1>7, <1>8, <1>9, <1>10, <1>11 DEF Next, Save

LEMMA FilesInvariant == Spec => []FileInv
<1>1. Init => FileInv
  BY InitFiles
<1>2. FileInv /\ [Next]_vars => FileInv'
  BY NextFiles
<1> QED
  BY <1>1, <1>2, PTL DEF Spec

\* _remove_orphaned_tmp_files: a temporary file "is by definition an interrupted
\* write".  With the application running and no save of a cache going on, it has
\* one only if a save of it has failed since one last began alone, whatever
\* saves overlapped: the other reasons, a rename missed and a crash, leave none.
THEOREM TmpExplained == Spec => []TmpMeansInterrupted
<1>1. FileInv => TmpMeansInterrupted
  BY DEF FileInv, KindInv, TmpExplains, TmpMeansInterrupted
<1> QED
  BY <1>1, FilesInvariant, PTL

\* A cache file stays, is replaced by the whole copy of its one saver, or
\* belongs to a cache of which saves overlap.
LEMMA FinalOnly ==
    ASSUME FileInv, [Next]_vars, NEW k \in Kinds
    PROVE  \/ disk'[k]["final"] = disk[k]["final"]
           \/ k \in Overlapped
           \/ \E p \in Procs : /\ Replace(p) /\ p \in Savers(k)
                               /\ disk'[k]["final"].state = "whole"
                               /\ disk'[k]["final"].data = proc[p].data
<1>t. TypeOK
  BY DEF FileInv
<1>1. CASE \E p \in Procs : OpenTmp(p)
  <2> PICK p \in Procs : OpenTmp(p)
    BY <1>1
  <2> QED
    BY <1>t, OpenEffect
<1>2. ASSUME NEW p \in Procs, FinishWrite(p), k \notin Overlapped
      PROVE  disk'[k]["final"] = disk[k]["final"]
  <2>1. CASE proc[p].kind = k
    <3>0. proc[p].phase = "write"
      BY <1>2, <1>t, FinishEffect
    <3>1. life # "down" /\ p \in Savers(k)
      BY <2>1, <3>0, IsSaver DEF FileInv, DownIdle, Idle, FilePhases
    <3>2. proc[p].at = "tmp"
      BY <1>2, <3>0, <3>1 DEF FileInv, KindInv, OwnFile
    <3> QED
      BY <1>2, <1>t, <2>1, <3>2, FinishEffect DEF Names
  <2>2. CASE proc[p].kind # k
    BY <1>2, <1>t, <2>2, FinishEffect
  <2> QED
    BY <2>1, <2>2
<1>3. ASSUME NEW p \in Procs, Replace(p), k \notin Overlapped, proc[p].kind = k
      PROVE  /\ p \in Savers(k) /\ disk'[k]["final"].state = "whole"
             /\ disk'[k]["final"].data = proc[p].data
  <2>1. life # "down" /\ p \in Savers(k) /\ proc[p].phase = "replace"
    BY <1>3, <1>t, ReplaceEffect, IsSaver DEF FileInv, DownIdle, Idle, FilePhases
  <2>2. disk[k]["tmp"].state = "whole" /\ disk[k]["tmp"].data = proc[p].data
    BY <1>3, <2>1 DEF FileInv, KindInv, OwnFile
  <2>3. disk'[k]["final"] = disk[k]["tmp"]
    BY <1>3, <1>t, ReplaceEffect
  <2> QED
    BY <2>1, <2>2, <2>3
<1>4. ASSUME NEW p \in Procs, Replace(p), proc[p].kind # k
      PROVE  disk'[k]["final"] = disk[k]["final"]
  BY <1>4, <1>t, ReplaceEffect
<1>5. CASE Start
  BY <1>5, <1>t DEF Start, TypeOK, Names
<1>6. disk' = disk \/ Start \/ \E p \in Procs : OpenTmp(p) \/ FinishWrite(p) \/ Replace(p)
  BY DEF Next, vars, Collect, Save, StoreStations, WriteSlice, MarkDirty, SkipGrid,
     StartSave, ReadCell, ReplaceMissing, WriteFails, CheckDirty, ClearDirty, Stop,
     Exit, Crash
<1> QED
  BY <1>1, <1>2, <1>3, <1>4, <1>5, <1>6

\* save_cache: "Atomically write all caches to disk".  No crash, no failing write
\* and no save of the other model that does not overlap leaves part of a cache
\* file: it only becomes incomplete while two saves of it are under way.
THEOREM FilesComplete == Spec => FileAlwaysComplete
<1>1. FileInv /\ [Next]_vars =>
         [\A k \in Kinds : Torn(k)' /\ ~Torn(k) => k \in Overlapped]_vars
  <2> SUFFICES ASSUME FileInv, [Next]_vars, NEW k \in Kinds, Torn(k)', ~Torn(k)
               PROVE  k \in Overlapped
    OBVIOUS
  <2> QED
    BY FinalOnly DEF Torn
<1> QED
  BY <1>1, FilesInvariant, PTL DEF Spec, FileAlwaysComplete

-----------------------------------------------------------------------------
(* The runs *)

GridFields  == {"data", "time", "label"}
SlicePhases == GridFields

MemBound  == \A c \in Cells : mem[c] <= runs
DiskBound == \A k \in Kinds, n \in Names : \A c \in CellsOf[k] : disk[k][n].data[c] <= runs

\* The rows a collector writes are of the latest run of its model.
SliceRuns(m) ==
    proc[m].phase \in SlicePhases =>
        /\ proc[m].run = mem[<<"entry", m>>]
        /\ \A f \in GridFields : mem[<<f, m>>] <= proc[m].run

FilesBehind ==
    \A k \in Kinds, n \in Names : disk[k][n].state = "whole" =>
        \A c \in CellsOf[k] : disk[k][n].data[c] <= mem[c]

CopiesBehind == \A p \in Procs : \A c \in DOMAIN proc[p].data : proc[p].data[c] <= mem[c]

SaverAhead(k) ==
    k \in Overlapped \/ \A p \in Savers(k) : \A c \in DOMAIN proc[p].data :
                            Loaded(c) <= proc[p].data[c]

RunInv ==
    /\ MemBound /\ DiskBound
    /\ life # "down" =>
          /\ \A m \in Models : SliceRuns(m)
          /\ FilesBehind /\ CopiesBehind
          /\ \A k \in Kinds : SaverAhead(k)

\* The numbers are numbers.
LEMMA Numbers ==
    ASSUME TypeOK
    PROVE  /\ runs \in Nat
           /\ \A c \in Cells : mem[c] \in Nat /\ Loaded(c) \in Nat
           /\ \A p \in Procs : \A c \in DOMAIN proc[p].data :
                 c \in CellsOf[proc[p].kind] /\ c \in Cells /\ proc[p].data[c] \in Nat
           /\ \A k \in Kinds, n \in Names : \A c \in CellsOf[k] :
                 c \in Cells /\ disk[k][n].data[c] \in Nat
           /\ \A p \in Procs : proc[p].run \in Nat /\ proc[p].kind \in Kinds
<1>1. Run \subseteq Nat
  BY PersistenceAssumption DEF Run
<1>2. runs \in Nat /\ \A c \in Cells : mem[c] \in Nat /\ Loaded(c) \in Nat
  BY <1>1, LoadedIsRun DEF TypeOK
<1>3. ASSUME NEW p \in Procs
      PROVE  /\ \A c \in DOMAIN proc[p].data :
                   c \in CellsOf[proc[p].kind] /\ c \in Cells /\ proc[p].data[c] \in Nat
             /\ proc[p].run \in Nat /\ proc[p].kind \in Kinds
  <2>1. proc[p] \in Proc
    BY DEF TypeOK
  <2>2. proc[p].kind \in Kinds /\ proc[p].run \in Nat /\ proc[p].data \in Part
    BY <1>1, <2>1 DEF Proc
  <2>3. DOMAIN proc[p].data \subseteq CellsOf[proc[p].kind]
    BY DEF TypeOK
  <2> QED
    BY <1>1, <2>2, <2>3, CellFacts, PartFacts
<1>4. ASSUME NEW k \in Kinds, NEW n \in Names, NEW c \in CellsOf[k]
      PROVE  c \in Cells /\ disk[k][n].data[c] \in Nat
  <2>1. disk[k][n] \in File /\ DOMAIN disk[k][n].data = CellsOf[k]
    BY DEF TypeOK
  <2> QED
    BY <1>1, <2>1, CellFacts, PartFacts DEF File
<1> QED
  BY <1>2, <1>3, <1>4

\* What a step of a collection run writes.
LEMMA CollectMemory ==
    ASSUME TypeOK, NEW m \in Models, Collect(m)
    PROVE  \/ /\ mem' = [mem EXCEPT ![<<"entry", m>>] = runs + 1] /\ runs' = runs + 1
              /\ proc'[m].run = runs + 1 /\ proc'[m].data = NoCells
              /\ proc'[m].phase = "data" /\ StoreStations(m)
           \/ /\ \E f \in GridFields : /\ mem' = [mem EXCEPT ![<<f, m>>] = proc[m].run]
                                       /\ proc[m].phase = f /\ proc'[m].phase = Following[f]
              /\ runs' = runs /\ proc'[m].run = proc[m].run
              /\ proc'[m].data = proc[m].data /\ WriteSlice(m)
           \/ /\ mem' = mem /\ runs' = runs /\ proc'[m].data = proc[m].data
              /\ proc'[m].phase = "done" /\ (MarkDirty(m) \/ SkipGrid(m))
<1>0. m \in Procs
  BY ProcsDistinct
<1>1. CASE StoreStations(m)
  <2> DEFINE r == [Idle EXCEPT !.phase = "data", !.run = runs + 1]
  <2>1. proc' = [proc EXCEPT ![m] = r] /\ r.phase = "data" /\ r.run = runs + 1
        /\ r.data = NoCells
    BY <1>1 DEF StoreStations, Idle
  <2> HIDE DEF r
  <2> QED
    BY <1>0, <1>1, <2>1, ProcMoves DEF StoreStations
<1>2. CASE WriteSlice(m)
  <2>1. PICK f \in GridFields : f = proc[m].phase
    BY <1>2 DEF WriteSlice, Following, GridFields
  <2>2. Following[f] \in {"time", "label", "mark"}
    BY <2>1 DEF Following, GridFields
  <2>3. /\ proc' = [proc EXCEPT ![m].phase = Following[f]]
        /\ mem' = [mem EXCEPT ![<<f, m>>] = proc[m].run] /\ runs' = runs
    BY <1>2, <2>1 DEF WriteSlice
  <2>4. proc'[m].phase = Following[f] /\ proc'[m].run = proc[m].run
        /\ proc'[m].data = proc[m].data
    BY <1>0, <2>2, <2>3, PhaseMoves DEF Phases
  <2> QED
    BY <1>2, <2>1, <2>3, <2>4
<1>3. CASE MarkDirty(m)
  BY <1>0, <1>3, PhaseMoves DEF MarkDirty, Phases
<1>4. CASE SkipGrid(m)
  BY <1>0, <1>4, PhaseMoves DEF SkipGrid, Phases
<1> QED
  BY <1>1, <1>2, <1>3, <1>4 DEF Collect

\* The memory only grows while the application runs.
LEMMA MemGrows ==
    ASSUME TypeOK, MemBound, \A m \in Models : SliceRuns(m),
           [Next]_vars, life # "down", life' # "down"
    PROVE  \A c \in Cells : mem'[c] \in Nat /\ mem'[c] >= mem[c] /\ runs' >= runs
<1>1. CASE mem' = mem /\ runs' = runs
  BY <1>1, Numbers
<1>2. ASSUME NEW m \in Models, Collect(m)
      PROVE  \A c \in Cells : mem'[c] \in Nat /\ mem'[c] >= mem[c] /\ runs' >= runs
  <2>1. CASE mem' = [mem EXCEPT ![<<"entry", m>>] = runs + 1] /\ runs' = runs + 1
    BY <2>1, Numbers DEF TypeOK, MemBound
  <2>2. ASSUME NEW f \in GridFields, mem' = [mem EXCEPT ![<<f, m>>] = proc[m].run],
               proc[m].phase = f, runs' = runs
        PROVE  \A c \in Cells : mem'[c] \in Nat /\ mem'[c] >= mem[c] /\ runs' >= runs
    <3>1. mem[<<f, m>>] <= proc[m].run /\ proc[m].run \in Nat
      BY <2>2, Numbers, ProcsDistinct DEF SliceRuns, SlicePhases
    <3> DEFINE x == <<f, m>>
    <3>2. mem' = [mem EXCEPT ![x] = proc[m].run] /\ mem[x] <= proc[m].run
      BY <2>2, <3>1
    <3> HIDE DEF x
    <3>3. \A c \in Cells : mem'[c] = mem[c] \/ (c = x /\ mem'[c] = proc[m].run)
      BY <3>2 DEF TypeOK
    <3> QED
      BY <2>2, <3>1, <3>2, <3>3, Numbers
  <2> QED
    BY <1>1, <1>2, <2>1, <2>2, CollectMemory
<1>3. (mem' = mem /\ runs' = runs) \/ \E m \in Models : Collect(m)
  BY DEF Next, vars, Save, ReadCell, OpenTmp, FinishWrite, Replace, ReplaceMissing,
     StartSave, WriteFails, CheckDirty, ClearDirty, Stop, Exit, Crash, Forget, Start
<1> QED
  BY <1>1, <1>2, <1>3

\* Where the cells of a file come from.
LEMMA FilesCome ==
    ASSUME TypeOK, [Next]_vars, NEW k \in Kinds, NEW n \in Names
    PROVE  \/ \E o \in Names : disk'[k][n] = disk[k][o]
           \/ disk'[k][n].data = Empty(k) /\ disk'[k][n].state # "whole"
           \/ \E p \in Procs : /\ proc[p].kind = k /\ proc[p].data \in [CellsOf[k] -> Run]
                               /\ disk'[k][n].data = proc[p].data
                               /\ mem' = mem /\ life' = life
<1>1. CASE disk' = disk
  BY <1>1
<1>2. ASSUME NEW p \in Procs, OpenTmp(p)
      PROVE  \/ disk'[k][n] = disk[k][n]
             \/ disk'[k][n].data = Empty(k) /\ disk'[k][n].state # "whole"
  <2>1. CASE proc[p].kind = k /\ n = "tmp"
    <3> DEFINE f == [state |-> "torn", data |-> Empty(k), shared |-> InUse(k)]
    <3>1. disk'[k]["tmp"] = f
      BY <1>2, <2>1, OpenEffect
    <3>2. f.data = Empty(k) /\ f.state # "whole"
      OBVIOUS
    <3> HIDE DEF f
    <3> QED
      BY <2>1, <3>1, <3>2
  <2>2. CASE ~(proc[p].kind = k /\ n = "tmp")
    BY <1>2, <2>2, OpenEffect DEF Names
  <2> QED
    BY <2>1, <2>2
<1>3. ASSUME NEW p \in Procs, FinishWrite(p)
      PROVE  \/ disk'[k][n] = disk[k][n]
             \/ /\ proc[p].kind = k /\ proc[p].data \in [CellsOf[k] -> Run]
                /\ disk'[k][n].data = proc[p].data
                /\ mem' = mem /\ life' = life
  <2>1. mem' = mem /\ life' = life
    BY <1>3 DEF FinishWrite
  <2>2. CASE proc[p].kind = k /\ proc[p].at = n
    <3>1. \/ disk' = disk
          \/ \E s \in {"whole", "torn"} :
                disk'[k][n] = [disk[k][n] EXCEPT !.state = s, !.data = proc[p].data]
      BY <1>3, <2>2, FinishEffect
    <3>2. disk[k][n] \in File
      BY DEF TypeOK
    <3>3. disk' = disk \/ disk'[k][n].data = proc[p].data
      BY <3>1, <3>2 DEF File
    <3> QED
      BY <1>3, <2>1, <2>2, <3>3, FinishEffect
  <2>3. CASE proc[p].kind # k
    BY <1>3, <2>3, FinishEffect
  <2>4. CASE proc[p].at # n
    <3>1. \/ disk' = disk
          \/ /\ \A o \in Names : o # proc[p].at =>
                   disk'[proc[p].kind][o] = disk[proc[p].kind][o]
             /\ \A j \in Kinds : j # proc[p].kind => disk'[j] = disk[j]
      BY <1>3, FinishEffect
    <3> QED
      BY <2>4, <3>1
  <2> QED
    BY <2>2, <2>3, <2>4
<1>4. ASSUME NEW p \in Procs, Replace(p)
      PROVE  \/ \E o \in Names : disk'[k][n] = disk[k][o]
             \/ disk'[k][n].data = Empty(k) /\ disk'[k][n].state # "whole"
  <2>1. CASE proc[p].kind = k
    <3>1. disk'[k]["final"] = disk[k]["tmp"] /\ disk'[k]["tmp"] = NoFile(k)
      BY <1>4, <2>1, ReplaceEffect
    <3>2. NoFile(k).data = Empty(k) /\ NoFile(k).state # "whole"
      BY DEF NoFile
    <3> QED
      BY <3>1, <3>2 DEF Names
  <2>2. CASE proc[p].kind # k
    BY <1>4, <2>2, ReplaceEffect
  <2> QED
    BY <2>1, <2>2
<1>5. CASE Start
  BY <1>5 DEF Start, TypeOK, NoFile, Names
<1>6. disk' = disk \/ Start \/ \E p \in Procs : OpenTmp(p) \/ FinishWrite(p) \/ Replace(p)
  BY DEF Next, vars, Collect, Save, StoreStations, WriteSlice, MarkDirty, SkipGrid,
     StartSave, ReadCell, ReplaceMissing, WriteFails, CheckDirty, ClearDirty, Stop,
     Exit, Crash
<1> QED
  BY <1>1, <1>2, <1>3, <1>4, <1>5, <1>6

\* Where the cells a process has read come from.
LEMMA CopiesCome ==
    ASSUME TypeOK, [Next]_vars, NEW p \in Procs
    PROVE  \/ proc'[p].data = NoCells
           \/ proc'[p].data = proc[p].data
           \/ /\ mem' = mem
              /\ \E c \in Cells : proc'[p].data = [x \in DOMAIN proc[p].data \union {c} |->
                                      IF x = c THEN mem[c] ELSE proc[p].data[x]]
<1>1. CASE proc' = proc
  BY <1>1
<1>2. ASSUME NEW m \in Models, Collect(m)
      PROVE  proc'[p].data = NoCells \/ proc'[p].data = proc[p].data
  BY <1>2, CollectMemory, CollectEffect
<1>3. ASSUME NEW m \in Procs, NEW k \in Kinds, Begin(m, k)
      PROVE  proc'[p].data = NoCells \/ proc'[p].data = proc[p].data
  BY <1>3, BeginMoves
<1>4. ASSUME NEW q \in Procs, proc' = [proc EXCEPT ![q] = Idle]
      PROVE  proc'[p].data = NoCells \/ proc'[p].data = proc[p].data
  BY <1>4, ProcMoves DEF Idle
<1>5. ASSUME NEW q \in Procs, ReadCell(q)
      PROVE  \/ proc'[p].data = proc[p].data
             \/ /\ mem' = mem
                /\ \E c \in Cells : proc'[p].data = [x \in DOMAIN proc[p].data \union {c} |->
                                      IF x = c THEN mem[c] ELSE proc[p].data[x]]
  <2>1. mem' = mem
    BY <1>5 DEF ReadCell
  <2>2. proc[q].kind \in Kinds
    BY Numbers
  <2> QED
    BY <1>5, <2>1, <2>2, ReadEffect, CellFacts
<1>6. ASSUME NEW q \in Procs, OpenTmp(q) \/ FinishWrite(q) \/ Replace(q)
                                 \/ ReplaceMissing(q) \/ WriteFails(q)
      PROVE  proc'[p].data = proc[p].data
  <2>1. CASE OpenTmp(q)
    BY <2>1, OpenEffect
  <2>2. CASE FinishWrite(q)
    BY <2>2, FinishEffect
  <2>3. CASE Replace(q)
    BY <2>3, ReplaceEffect, RenamedFacts
  <2>4. CASE ReplaceMissing(q) \/ WriteFails(q)
    BY <2>4, PhaseMoves, AfterFileFacts DEF ReplaceMissing, WriteFails
  <2> QED
    BY <1>6, <2>1, <2>2, <2>3, <2>4
<1>7. CASE Exit \/ Crash
  BY <1>7 DEF Exit, Crash, Forget, Idle
<1> QED
  BY <1>1, <1>2, <1>3, <1>4, <1>5, <1>6, <1>7, ProcsDistinct
     DEF Next, vars, Save, StartSave, CheckDirty, ClearDirty, Stop, Start, Kinds

\* What others than its collector do to the rows of a model: nothing.
LEMMA OthersWriteNothing ==
    ASSUME TypeOK, [Next]_vars, life' # "down", NEW m \in Models, ~Collect(m),
           proc'[m].phase \in SlicePhases
    PROVE  /\ proc[m].phase \in SlicePhases /\ proc'[m].run = proc[m].run
           /\ \A f \in GridFields \union {"entry"} :
                 mem'[<<f, m>>] = mem[<<f, m>>] \/ life = "down"
<1> USE DEF SlicePhases, GridFields
<1>0. m \in Procs
  BY ProcsDistinct
<1>1. CASE proc' = proc /\ (mem' = mem \/ life = "down")
  BY <1>1
<1>2. ASSUME NEW n \in Models, Collect(n)
      PROVE  /\ proc'[m] = proc[m]
             /\ \A f \in GridFields \union {"entry"} : mem'[<<f, m>>] = mem[<<f, m>>]
  <2>1. n # m
    BY <1>2
  <2>2. proc'[m] = proc[m]
    BY <1>0, <1>2, <2>1, CollectEffect
  <2>3. mem' = mem \/ \E g, r : mem' = [mem EXCEPT ![<<g, n>>] = r]
    BY <1>2, CollectMemory
  <2>4. \A f, g : <<f, m>> # <<g, n>>
    BY <2>1
  <2>5. ASSUME NEW f \in GridFields \union {"entry"}
        PROVE  mem'[<<f, m>>] = mem[<<f, m>>]
    <3> DEFINE x == <<f, m>>
    <3>1. x \in Cells
      BY EntryCell, GridCell
    <3>2. mem' = mem \/ \E y, r : mem' = [mem EXCEPT ![y] = r] /\ y # x
      <4>1. CASE \E g, r : mem' = [mem EXCEPT ![<<g, n>>] = r]
        <5>1. PICK g, r : mem' = [mem EXCEPT ![<<g, n>>] = r]
          BY <4>1
        <5>2. <<g, n>> # x
          BY <2>4
        <5> QED
          BY ONLY <5>1, <5>2
      <4> QED
        BY <2>3, <4>1
    <3> HIDE DEF x
    <3>3. mem'[x] = mem[x]
      BY <3>1, <3>2 DEF TypeOK
    <3> QED
      BY <3>3 DEF x
  <2> QED
    BY <2>2, <2>5
<1>3. ASSUME NEW q \in Procs, NEW k \in Kinds, Begin(q, k)
      PROVE  proc'[m] = proc[m]
  BY <1>0, <1>3, BeginMoves
<1>4. ASSUME NEW q \in Procs, proc' = [proc EXCEPT ![q] = Idle]
      PROVE  proc'[m] = proc[m]
  BY <1>0, <1>4, ProcMoves DEF Idle
<1>5. ASSUME NEW q \in Procs, ReadCell(q) \/ OpenTmp(q) \/ FinishWrite(q) \/ Replace(q)
                                 \/ ReplaceMissing(q) \/ WriteFails(q)
      PROVE  proc[m].phase = proc'[m].phase /\ proc'[m].run = proc[m].run
  <2>1. CASE ReadCell(q)
    BY <1>0, <2>1, ReadEffect
  <2>2. CASE OpenTmp(q)
    BY <1>0, <2>2, OpenEffect
  <2>3. CASE FinishWrite(q)
    BY <1>0, <2>3, FinishEffect
  <2>4. CASE Replace(q)
    BY <1>0, <2>4, ReplaceEffect, RenamedFacts, AfterFileFacts
  <2>5. CASE ReplaceMissing(q) \/ WriteFails(q)
    BY <1>0, <2>5, PhaseMoves, AfterFileFacts DEF ReplaceMissing, WriteFails
  <2> QED
    BY <1>5, <2>1, <2>2, <2>3, <2>4, <2>5
<1>6. mem' = mem \/ Start \/ \E n \in Models : Collect(n)
  BY DEF Next, vars, Save, ReadCell, OpenTmp, FinishWrite, Replace, ReplaceMissing,
     StartSave, WriteFails, CheckDirty, ClearDirty, Stop, Exit, Crash, Forget
<1> QED
  BY <1>1, <1>2, <1>3, <1>4, <1>5, <1>6, ProcsDistinct
     DEF Next, vars, Save, StartSave, CheckDirty, ClearDirty, Stop, Start, Exit,
         Crash, Forget, Kinds

\* What a start makes of the memory.
LEMMA StartMemory ==
    ASSUME TypeOK, DownIdle, Start
    PROVE  /\ \A c \in Cells : \/ mem'[c] = Loaded(c)
                               \/ /\ c[1] = "label" /\ c \in CellsOf["grid"]
                                  /\ disk["grid"]["final"].state # "whole"
                                  /\ mem'[c] = disk["grid"]["final"].data[c]
           /\ \A p \in Procs : proc'[p] = Idle
           /\ \A k \in Kinds : disk'[k]["final"] = disk[k]["final"]
           /\ \A k \in Kinds : disk'[k]["tmp"].state = "none"
           /\ runs' = runs /\ life = "down" /\ mishaps' = NoMishaps
<1>1. PICK taken \in LabelsTaken :
         mem' = [c \in Cells |-> IF c[1] = "label" /\ taken
                                 THEN disk["grid"]["final"].data[c] ELSE Recalled(c)]
  BY DEF Start
<1>2. taken => disk["grid"]["final"].state # "whole"
  BY <1>1 DEF LabelsTaken
<1>3. \A c \in Cells : c[1] = "label" => c \in CellsOf["grid"]
  BY CellsAre DEF Cells
<1>4. \A k \in Kinds : disk'[k]["final"] = disk[k]["final"] /\ disk'[k]["tmp"] = NoFile(k)
  BY DEF Start, TypeOK, Names
<1>5. \A k \in Kinds : NoFile(k).state = "none"
  BY DEF NoFile
<1> QED
  BY <1>1, <1>2, <1>3, <1>4, <1>5 DEF Start, DownIdle, Recalled

LEMMA RunsGrow == ASSUME TypeOK, [Next]_vars PROVE runs' \in Nat /\ runs' >= runs
<1>1. runs' = runs \/ runs' = runs + 1
  BY DEF Next, vars, Collect, StoreStations, WriteSlice, MarkDirty, SkipGrid, Save,
     ReadCell, OpenTmp, FinishWrite, Replace, ReplaceMissing, StartSave, WriteFails,
     CheckDirty, ClearDirty, Stop, Exit, Crash, Forget, Start
<1> QED
  BY <1>1, Numbers

LEMMA LoadedBehind ==
    ASSUME TypeOK, FilesBehind, NEW c \in Cells
    PROVE  Loaded(c) <= mem[c] /\ Loaded(c) \in Nat /\ mem[c] \in Nat
<1>1. KindOf(c) \in Kinds /\ c \in CellsOf[KindOf(c)] /\ "final" \in Names
  BY CellFacts DEF Names
<1> QED
  BY <1>1, Numbers DEF Loaded, FilesBehind

\* A process that did not save a cache before a step, and does after it, has
\* begun to; and only by that does an overlap end.
LEMMA SaversBegin ==
    ASSUME TypeOK, [Next]_vars, NEW p \in Procs, NEW k \in Kinds,
           p \in Savers(k)', p \notin Savers(k)
    PROVE  Begin(p, k)
<1> USE DEF FilePhases
<1>0. proc'[p].phase \in FilePhases /\ proc'[p].kind = k
      /\ ~(proc[p].phase \in FilePhases /\ proc[p].kind = k)
  BY IsSaver, IsSaverThen
<1>1. CASE proc' = proc
  BY <1>0, <1>1
<1>2. ASSUME NEW m \in Models, Collect(m) PROVE FALSE
  BY <1>0, <1>2, CollectEffect
<1>3. ASSUME NEW q \in Procs, NEW j \in Kinds, Begin(q, j)
      PROVE  Begin(p, k)
  BY <1>0, <1>3, BeginMoves
<1>4. ASSUME NEW q \in Procs, proc' = [proc EXCEPT ![q] = Idle] PROVE FALSE
  BY <1>0, <1>4, ProcMoves DEF Idle
<1>5. ASSUME NEW q \in Procs, ReadCell(q) \/ OpenTmp(q) \/ FinishWrite(q) \/ Replace(q)
                                 \/ ReplaceMissing(q) \/ WriteFails(q)
      PROVE  FALSE
  <2>1. CASE ReadCell(q)
    BY <1>0, <2>1, ReadEffect
  <2>2. CASE OpenTmp(q)
    BY <1>0, <2>2, OpenEffect
  <2>3. CASE FinishWrite(q)
    BY <1>0, <2>3, FinishEffect
  <2>4. CASE Replace(q)
    BY <1>0, <2>4, ReplaceEffect, RenamedFacts, AfterFileFacts
  <2>5. CASE ReplaceMissing(q) \/ WriteFails(q)
    BY <1>0, <2>5, PhaseMoves, AfterFileFacts DEF ReplaceMissing, WriteFails
  <2> QED
    BY <1>5, <2>1, <2>2, <2>3, <2>4, <2>5
<1>6. CASE Forget
  BY <1>0, <1>6 DEF Forget, Idle
<1> QED
  BY <1>1, <1>2, <1>3, <1>4, <1>5, <1>6, ProcsDistinct
     DEF Next, vars, Save, StartSave, CheckDirty, ClearDirty, Stop, Start, Exit,
         Crash, Kinds

LEMMA OverlapEnds ==
    ASSUME TypeOK, [Next]_vars, NEW k \in Kinds, life' # "down",
           k \in Overlapped, ~(k \in Overlapped)'
    PROVE  Savers(k) = {} /\ \E p \in Procs : Begin(p, k)
<1> USE DEF Overlapped
<1>1. CASE mishaps' = mishaps
  BY <1>1
<1>2. ASSUME NEW j \in Kinds, NEW what, mishaps' = Suffers(j, what) PROVE FALSE
  BY <1>2 DEF Suffers, TypeOK
<1>3. ASSUME NEW p \in Procs, NEW j \in Kinds, Begin(p, j)
      PROVE  j = k /\ Savers(k) = {}
  BY <1>3, BeginMoves
<1>4. mishaps' = mishaps \/ (\E j \in Kinds : \E what : mishaps' = Suffers(j, what))
      \/ \E p \in Procs, j \in Kinds : Begin(p, j)
  BY Numbers, ProcsDistinct
     DEF Next, vars, Collect, StoreStations, WriteSlice, MarkDirty, SkipGrid, Save,
         ReadCell, OpenTmp, FinishWrite, Replace, ReplaceMissing, StartSave,
         WriteFails, CheckDirty, ClearDirty, Stop, Exit, Crash, Forget, Start, Kinds
<1> QED
  BY <1>1, <1>2, <1>3, <1>4

LEMMA InitRuns == Init => RunInv
<1> SUFFICES ASSUME Init PROVE RunInv
  OBVIOUS
<1>1. TypeOK
  BY InitTypes
<1>2. MemBound
  BY <1>1, Numbers DEF Init, MemBound
<1>3. DiskBound
  <2>1. ASSUME NEW k \in Kinds, NEW n \in Names, NEW c \in CellsOf[k]
        PROVE  disk[k][n].data[c] <= runs
    <3>1. disk[k][n] = NoFile(k) \/ (OldFile /\ k = "grid" /\ disk[k][n] = OldGrid)
      BY DEF Init
    <3>2. NoFile(k).data[c] = 0 /\ (k = "grid" => OldGrid.data[c] = 1)
      BY DEF NoFile, Empty, OldGrid
    <3> QED
      BY <1>1, <3>1, <3>2, Numbers DEF Init
  <2> QED
    BY <2>1 DEF DiskBound
<1> QED
  BY <1>2, <1>3 DEF Init, RunInv

LEMMA NextMemBound == ASSUME FileInv, RunInv, [Next]_vars PROVE MemBound'
<1>t. TypeOK /\ TypeOK'
  BY NextTypes DEF FileInv
<1>d. DownIdle /\ DownIdle'
  BY NextDown DEF FileInv
<1>1. CASE life' = "down"
  BY <1>1, <1>t, <1>d, RunsGrow DEF DownIdle, MemBound
<1>2. CASE life = "down" /\ Start
  <2> SUFFICES ASSUME NEW c \in Cells PROVE mem'[c] <= runs'
    BY DEF MemBound
  <2>1. KindOf(c) \in Kinds /\ c \in CellsOf[KindOf(c)] /\ "final" \in Names /\ "grid" \in Kinds
    BY CellFacts DEF Names, Kinds
  <2>2. Loaded(c) <= runs
    BY <1>t, <2>1, Numbers DEF Loaded, RunInv, DiskBound
  <2>3. c \in CellsOf["grid"] => disk["grid"]["final"].data[c] <= runs
    BY <2>1 DEF RunInv, DiskBound
  <2> QED
    BY <1>2, <1>t, <1>d, <2>2, <2>3, StartMemory
<1>3. CASE mem' = mem
  BY <1>3, <1>t, RunsGrow, Numbers DEF RunInv, MemBound
<1>4. ASSUME NEW m \in Models, Collect(m), life # "down" PROVE MemBound'
  <2>1. CASE mem' = [mem EXCEPT ![<<"entry", m>>] = runs + 1] /\ runs' = runs + 1
    BY <1>t, <2>1, Numbers DEF RunInv, MemBound, TypeOK
  <2>2. ASSUME NEW f \in GridFields, mem' = [mem EXCEPT ![<<f, m>>] = proc[m].run],
               proc[m].phase = f, runs' = runs
        PROVE  MemBound'
    <3>1. SliceRuns(m)
      BY <1>4 DEF RunInv
    <3>2. proc[m].run <= runs
      BY <2>2, <3>1, EntryCell DEF SliceRuns, SlicePhases, RunInv, MemBound
    <3> DEFINE x == <<f, m>>
    <3>3. mem' = [mem EXCEPT ![x] = proc[m].run]
      BY <2>2
    <3> HIDE DEF x
    <3>4. \A c \in Cells : mem'[c] = mem[c] \/ mem'[c] = proc[m].run
      BY <1>t, <3>3 DEF TypeOK
    <3> QED
      BY <2>2, <3>2, <3>4 DEF RunInv, MemBound
  <2> QED
    BY <1>3, <1>4, <1>t, <2>1, <2>2, CollectMemory
<1>5. \/ life' = "down" \/ mem' = mem \/ (life = "down" /\ Start)
      \/ (life # "down" /\ \E m \in Models : Collect(m))
  BY <1>d, OnlyStart DEF Next, vars, Save, ReadCell, OpenTmp, FinishWrite, Replace,
     ReplaceMissing, StartSave, WriteFails, CheckDirty, ClearDirty, Stop, Exit, Crash,
     Forget, Start
<1> QED
  BY <1>1, <1>2, <1>3, <1>4, <1>5

LEMMA NextDiskBound == ASSUME FileInv, RunInv, [Next]_vars PROVE DiskBound'
<1>t. TypeOK
  BY DEF FileInv
<1> SUFFICES ASSUME NEW k \in Kinds, NEW n \in Names, NEW c \in CellsOf[k]
             PROVE  disk'[k][n].data[c] <= runs'
  BY DEF DiskBound
<1>r. runs' \in Nat /\ runs' >= runs /\ runs \in Nat
  BY <1>t, RunsGrow, Numbers
<1>1. ASSUME NEW o \in Names, disk'[k][n] = disk[k][o]
      PROVE  disk'[k][n].data[c] <= runs'
  BY <1>1, <1>r, <1>t, Numbers DEF RunInv, DiskBound
<1>2. CASE disk'[k][n].data = Empty(k)
  BY <1>2, <1>r DEF Empty
<1>3. ASSUME NEW p \in Procs, proc[p].data \in [CellsOf[k] -> Run],
             disk'[k][n].data = proc[p].data
      PROVE  disk'[k][n].data[c] <= runs'
  <2>1. life # "down"
    BY <1>3, NoCellsIsPart DEF FileInv, DownIdle, Idle
  <2>2. proc[p].data[c] <= mem[c] /\ mem[c] <= runs
    BY <1>3, <1>t, <2>1, Numbers DEF RunInv, CopiesBehind, MemBound
  <2> QED
    BY <1>3, <1>r, <1>t, <2>2, Numbers
<1> QED
  BY <1>1, <1>2, <1>3, <1>t, FilesCome

LEMMA NextFilesBehind ==
    ASSUME FileInv, RunInv, [Next]_vars, life' # "down" PROVE FilesBehind'
<1>t. TypeOK
  BY DEF FileInv
<1> SUFFICES ASSUME NEW k \in Kinds, NEW n \in Names, NEW c \in CellsOf[k],
                    disk'[k][n].state = "whole"
             PROVE  disk'[k][n].data[c] <= mem'[c]
  BY DEF FilesBehind
<1>c. c \in Cells /\ KindOf(c) = k
  BY CellFacts
<1>1. CASE life = "down" /\ Start
  <2>1. n = "final"
    BY <1>1, <1>t, StartMemory DEF Names, FileInv
  <2>2. disk[k]["final"].state = "whole" /\ disk'[k][n] = disk[k]["final"]
    BY <1>1, <1>t, <2>1, StartMemory DEF FileInv
  <2>3. Loaded(c) = disk[k]["final"].data[c]
    BY <1>c, <2>2 DEF Loaded
  <2>4. c \in CellsOf["grid"] => k = "grid"
    BY <1>c, CellFacts DEF Kinds
  <2>5. mem'[c] = Loaded(c)
    BY <1>1, <1>c, <1>t, <2>2, <2>4, StartMemory DEF FileInv
  <2> QED
    BY <1>t, <1>c, <2>2, <2>3, <2>5, Numbers
<1>2. CASE life # "down"
  <2>0. mem[c] \in Nat /\ mem'[c] \in Nat /\ mem'[c] >= mem[c]
    BY <1>2, <1>c, <1>t, MemGrows, Numbers DEF RunInv
  <2>1. ASSUME NEW o \in Names, disk'[k][n] = disk[k][o]
        PROVE  disk'[k][n].data[c] <= mem'[c]
    BY <1>2, <1>t, <2>0, <2>1, Numbers DEF RunInv, FilesBehind
  <2>2. ASSUME NEW p \in Procs, proc[p].data \in [CellsOf[k] -> Run],
               disk'[k][n].data = proc[p].data
        PROVE  disk'[k][n].data[c] <= mem'[c]
    <3>1. proc[p].data[c] <= mem[c]
      BY <1>2, <2>2 DEF RunInv, CopiesBehind
    <3> QED
      BY <1>t, <2>0, <2>2, <3>1, Numbers
  <2> QED
    BY <1>t, <2>1, <2>2, FilesCome
<1>3. CASE life = "down" /\ UNCHANGED vars
  BY <1>3 DEF vars
<1> QED
  BY <1>1, <1>2, <1>3, OnlyStart DEF FileInv

LEMMA NextCopiesBehind ==
    ASSUME FileInv, RunInv, [Next]_vars, life' # "down" PROVE CopiesBehind'
<1>t. TypeOK
  BY DEF FileInv
<1> SUFFICES ASSUME NEW p \in Procs, NEW c \in DOMAIN proc'[p].data
             PROVE  proc'[p].data[c] <= mem'[c]
  BY DEF CopiesBehind
<1>1. CASE life = "down" /\ Start
  BY <1>1, <1>t, StartMemory, NoCellsIsPart DEF FileInv, Idle
<1>2. CASE life # "down"
  <2>0. \A x \in Cells : mem[x] \in Nat /\ mem'[x] \in Nat /\ mem'[x] >= mem[x]
    BY <1>2, <1>t, MemGrows, Numbers DEF RunInv
  <2>1. CASE proc'[p].data = NoCells
    BY <2>1, NoCellsIsPart
  <2>2. \A x \in DOMAIN proc[p].data :
           x \in Cells /\ proc[p].data[x] \in Nat /\ proc[p].data[x] <= mem[x]
    BY <1>2, <1>t, Numbers DEF RunInv, CopiesBehind
  <2>3. CASE proc'[p].data = proc[p].data
    BY <2>0, <2>2, <2>3
  <2>4. ASSUME mem' = mem, NEW y \in Cells,
               proc'[p].data = [x \in DOMAIN proc[p].data \union {y} |->
                                   IF x = y THEN mem[y] ELSE proc[p].data[x]]
        PROVE  proc'[p].data[c] <= mem'[c]
    BY <2>0, <2>2, <2>4
  <2> QED
    BY <1>t, <2>1, <2>3, <2>4, CopiesCome
<1>3. CASE life = "down" /\ UNCHANGED vars
  BY <1>3 DEF vars
<1> QED
  BY <1>1, <1>2, <1>3, OnlyStart DEF FileInv

LEMMA NextSliceRuns ==
    ASSUME FileInv, RunInv, [Next]_vars, life' # "down", NEW m \in Models
    PROVE  SliceRuns(m)'
<1>t. TypeOK /\ m \in Procs
  BY ProcsDistinct DEF FileInv
<1> SUFFICES ASSUME proc'[m].phase \in SlicePhases
             PROVE  /\ proc'[m].run = mem'[<<"entry", m>>]
                    /\ \A f \in GridFields : mem'[<<f, m>>] <= proc'[m].run
  BY DEF SliceRuns
<1>e. /\ <<"entry", m>> \in Cells
      /\ \A f \in GridFields : <<f, m>> \in Cells /\ <<f, m>> # <<"entry", m>>
  BY EntryCell, GridCell DEF GridFields
<1>1. CASE life = "down"
  <2>1. (proc[m].phase = "idle" /\ ~Next) \/ Start
    BY <1>1, <1>t, OnlyStart DEF FileInv, DownIdle, Idle
  <2> QED
    BY <1>1, <1>t, <2>1, StartMemory DEF FileInv, Idle, SlicePhases, GridFields, vars
<1>2. CASE life # "down" /\ ~Collect(m)
  BY <1>2, <1>t, OthersWriteNothing DEF RunInv, SliceRuns
<1>3. CASE life # "down" /\ Collect(m)
  <2>1. CASE /\ mem' = [mem EXCEPT ![<<"entry", m>>] = runs + 1]
             /\ proc'[m].run = runs + 1
    <3> DEFINE e == <<"entry", m>>
    <3>1. mem' = [mem EXCEPT ![e] = runs + 1] /\ e \in Cells
      BY <1>e, <2>1
    <3> HIDE DEF e
    <3>2. mem'[e] = runs + 1 /\ \A c \in Cells : c # e => mem'[c] = mem[c]
      BY <1>t, <3>1 DEF TypeOK
    <3>3. \A c \in Cells : mem[c] <= runs /\ mem[c] \in Nat /\ runs \in Nat
      BY <1>t, Numbers DEF RunInv, MemBound
    <3> QED
      BY <1>e, <2>1, <3>2, <3>3 DEF e
  <2>2. ASSUME NEW g \in GridFields, mem' = [mem EXCEPT ![<<g, m>>] = proc[m].run],
               proc[m].phase = g, proc'[m].run = proc[m].run
        PROVE  /\ proc'[m].run = mem'[<<"entry", m>>]
               /\ \A f \in GridFields : mem'[<<f, m>>] <= proc'[m].run
    <3>1. /\ proc[m].run = mem[<<"entry", m>>] /\ proc[m].run \in Nat
          /\ \A f \in GridFields : mem[<<f, m>>] <= proc[m].run
      BY <1>3, <1>t, <2>2, Numbers DEF RunInv, SliceRuns, SlicePhases
    <3> DEFINE x == <<g, m>>
    <3>2. mem' = [mem EXCEPT ![x] = proc[m].run] /\ x # <<"entry", m>>
      BY <1>e, <2>2
    <3> HIDE DEF x
    <3>3. \A c \in Cells : mem'[c] = mem[c] \/ (c = x /\ mem'[c] = proc[m].run)
      BY <1>t, <3>2 DEF TypeOK
    <3> QED
      BY <1>e, <2>2, <3>1, <3>2, <3>3
  <2> QED
    BY <1>3, <1>t, <2>1, <2>2, CollectMemory DEF SlicePhases, GridFields
<1> QED
  BY <1>1, <1>2, <1>3

LEMMA NextSaverAhead ==
    ASSUME FileInv, RunInv, [Next]_vars, life' # "down", NEW k \in Kinds
    PROVE  SaverAhead(k)'
<1>t. TypeOK
  BY DEF FileInv
<1> SUFFICES ASSUME ~(k \in Overlapped)', NEW p \in Procs, p \in Savers(k)',
                    NEW c \in DOMAIN proc'[p].data
             PROVE  Loaded(c)' <= proc'[p].data[c]
  BY SaversAreProcs DEF SaverAhead
<1>1. CASE p \notin Savers(k)
  BY <1>1, <1>t, SaversBegin, BeginMoves, NoCellsIsPart
<1>2. CASE p \in Savers(k)
  <2>1. k \notin Overlapped
    BY <1>2, <1>t, OverlapEnds
  <2>2. life # "down"
    BY <1>2, IsSaver DEF FileInv, DownIdle, Idle, FilePhases
  <2>3. disk'[k]["final"] = disk[k]["final"]
    <3>1. ASSUME NEW q \in Procs, Replace(q), q \in Savers(k) PROVE FALSE
      <4>1. q = p
        BY <1>2, <2>1, <2>2, <3>1 DEF FileInv, KindInv, OneSaver
      <4> QED
        BY <1>t, <3>1, <4>1, ReplaceEffect, AfterFileFacts, IsSaverThen DEF FilePhases
    <3> QED
      BY <2>1, <3>1, FinalOnly
  <2>4. proc[p].kind = k /\ \A x \in DOMAIN proc[p].data :
           x \in Cells /\ Loaded(x) <= proc[p].data[x] /\ KindOf(x) = k
    BY <1>2, <1>t, <2>1, <2>2, IsSaver, Numbers, CellFacts DEF RunInv, SaverAhead
  <2>5. \A x \in Cells : KindOf(x) = k => Loaded(x)' = Loaded(x)
    BY <2>3 DEF Loaded
  <2>6. CASE proc'[p].data = NoCells
    BY <2>6, NoCellsIsPart
  <2>7. CASE proc'[p].data = proc[p].data
    BY <2>4, <2>5, <2>7
  <2>8. ASSUME NEW y \in Cells, y \in DOMAIN proc'[p].data,
               proc'[p].data = [x \in DOMAIN proc[p].data \union {y} |->
                                   IF x = y THEN mem[y] ELSE proc[p].data[x]]
        PROVE  Loaded(c)' <= proc'[p].data[c]
    <3>1. KindOf(y) = k
      <4>1. TypeOK' /\ proc'[p].kind = k
        BY <1>t, NextTypes, IsSaverThen
      <4>2. y \in CellsOf[k]
        BY <2>8, <4>1 DEF TypeOK
      <4> QED
        BY <4>2, CellFacts
    <3>2. Loaded(y) <= mem[y]
      BY <1>t, <2>2, LoadedBehind DEF RunInv
    <3> QED
      BY <2>4, <2>5, <2>8, <3>1, <3>2
  <2> QED
    BY <1>t, <2>6, <2>7, <2>8, CopiesCome
<1> QED
  BY <1>1, <1>2

LEMMA RunsInvariant == Spec => [](FileInv /\ RunInv)
<1>1. Init => FileInv /\ RunInv
  BY InitFiles, InitRuns
<1>2. FileInv /\ RunInv /\ [Next]_vars => (FileInv /\ RunInv)'
  <2> SUFFICES ASSUME FileInv, RunInv, [Next]_vars PROVE FileInv' /\ RunInv'
    OBVIOUS
  <2>1. FileInv' /\ MemBound' /\ DiskBound'
    BY NextFiles, NextMemBound, NextDiskBound
  <2>2. ASSUME life' # "down"
        PROVE  /\ \A m \in Models : SliceRuns(m)'
               /\ FilesBehind' /\ CopiesBehind'
               /\ \A k \in Kinds : SaverAhead(k)'
    BY <2>2, NextSliceRuns, NextFilesBehind, NextCopiesBehind, NextSaverAhead
  <2> QED
    BY <2>1, <2>2 DEF RunInv
<1> QED
  BY <1>1, <1>2, PTL DEF Spec

\* "A new deploy never loses the CH2 tail just because CH1 hasn't run yet": what
\* a restart brings back of a cell never becomes older, over crashes, failing
\* writes and saves of either model in any order, except while two saves of the
\* same cache are under way at once.
THEOREM SavedOnlyNewer == Spec => SavedNeverOlder
<1>1. FileInv /\ RunInv /\ [Next]_vars =>
         [\A c \in Cells : Loaded(c)' >= Loaded(c) \/ KindOf(c) \in Overlapped]_vars
  <2> SUFFICES ASSUME FileInv, RunInv, [Next]_vars, NEW c \in Cells,
                      KindOf(c) \notin Overlapped
               PROVE  Loaded(c)' >= Loaded(c)
    OBVIOUS
  <2>k. PICK k \in Kinds : k = KindOf(c) /\ c \in CellsOf[k]
    BY CellFacts
  <2>t. TypeOK /\ k \in Kinds /\ c \in CellsOf[k]
    BY <2>k DEF FileInv
  <2>1. CASE disk'[k]["final"] = disk[k]["final"]
    BY <2>k, <2>t, <2>1, Numbers DEF Loaded
  <2>2. ASSUME NEW p \in Procs, Replace(p), p \in Savers(k),
               disk'[k]["final"].state = "whole", disk'[k]["final"].data = proc[p].data
        PROVE  Loaded(c)' >= Loaded(c)
    <3>1. life # "down"
      <4>1. proc[p].phase \in FilePhases
        BY <2>2, IsSaver
      <4> QED
        BY <4>1 DEF FileInv, DownIdle, Idle, FilePhases
    <3>2. c \in DOMAIN proc[p].data
      <4>1. disk'[k]["final"].data = disk[k]["tmp"].data
        BY <2>2, <2>t, ReplaceEffect, IsSaver
      <4> QED
        BY <2>2, <2>t, <4>1 DEF TypeOK, Names
    <3>3. Loaded(c) <= proc[p].data[c]
      <4>1. SaverAhead(k) /\ k \notin Overlapped
        BY <2>k, <3>1 DEF RunInv
      <4> QED
        BY <2>2, <3>2, <4>1 DEF SaverAhead
    <3>4. Loaded(c)' = proc[p].data[c]
      BY <2>k, <2>2 DEF Loaded
    <3> QED
      BY <2>t, <3>2, <3>3, <3>4, Numbers
  <2> QED
    BY <2>1, <2>2, <2>k, FinalOnly
<1> QED
  BY <1>1, RunsInvariant, PTL DEF Spec, SavedNeverOlder

-----------------------------------------------------------------------------
(* The abstract caches *)

\* A cache that is not saved, or by several at once, has no copy; the copy of a
\* cache that is saved is what its one saver has read.
LEMMA CopyIs ==
    ASSUME FileInv, NEW k \in Kinds
    PROVE  /\ k \in Overlapped \/ (\A p \in Procs : p \notin Savers(k)) => Copy[k] = NoCells
           /\ k \notin Overlapped => \A p \in Savers(k) : Copy[k] = proc[p].data
<1>1. Savers(k) = {} <=> \A p \in Procs : p \notin Savers(k)
  BY SaversAreProcs
<1>2. k \in Overlapped \/ Savers(k) = {} => Copy[k] = NoCells
  BY DEF Copy
<1>3. ASSUME k \notin Overlapped, NEW p \in Savers(k) PROVE Copy[k] = proc[p].data
  <2>1. life # "down"
    BY <1>3, IsSaver, SaversAreProcs DEF FileInv, DownIdle, Idle, FilePhases
  <2>2. \A q \in Savers(k) : q = p
    BY <1>3, <2>1 DEF FileInv, KindInv, OneSaver
  <2>3. (CHOOSE q \in Savers(k) : TRUE) = p
    BY <2>2, p \in Savers(k)
  <2> QED
    BY <1>3, <2>3 DEF Copy
<1> QED
  BY <1>1, <1>2, <1>3

LEMMA CopyThen ==
    ASSUME FileInv', NEW k \in Kinds
    PROVE  /\ (k \in Overlapped)' \/ (\A p \in Procs : p \notin Savers(k)') => Copy'[k] = NoCells
           /\ ~(k \in Overlapped)' => \A p \in Savers(k)' : Copy'[k] = proc'[p].data
<1>1. Savers(k)' = {} <=> \A p \in Procs : p \notin Savers(k)'
  BY SaversAreProcs
<1>2. (k \in Overlapped)' \/ Savers(k)' = {} => Copy'[k] = NoCells
  BY DEF Copy
<1>3. ASSUME ~(k \in Overlapped)', NEW p \in Savers(k)' PROVE Copy'[k] = proc'[p].data
  <2>1. life' # "down"
    BY <1>3, IsSaverThen, SaversAreProcs DEF FileInv, DownIdle, Idle, FilePhases
  <2>2. \A q \in Savers(k)' : q = p
    BY <1>3, <2>1 DEF FileInv, KindInv, OneSaver
  <2>3. (CHOOSE q \in Savers(k)' : TRUE) = p
    BY <2>2, p \in Savers(k)'
  <2> QED
    BY <1>3, <2>3 DEF Copy
<1> QED
  BY <1>1, <1>2, <1>3

LEMMA CopyStays ==
    ASSUME FileInv, FileInv', NEW k \in Kinds, (k \in Overlapped)' <=> k \in Overlapped,
           \A p \in Procs : \/ p \notin Savers(k) /\ p \notin Savers(k)'
                            \/ /\ p \in Savers(k) /\ p \in Savers(k)'
                               /\ proc'[p].data = proc[p].data
    PROVE  Copy'[k] = Copy[k]
<1>1. CASE k \in Overlapped \/ \A p \in Procs : p \notin Savers(k)
  BY <1>1, CopyIs, CopyThen
<1>2. ASSUME k \notin Overlapped, NEW p \in Procs, p \in Savers(k)
      PROVE  Copy'[k] = Copy[k]
  BY <1>2, CopyIs, CopyThen
<1> QED
  BY <1>1, <1>2

LEMMA CopyChanges ==
    ASSUME NEW k \in Kinds, \A j \in Kinds : j # k => Copy'[j] = Copy[j]
    PROVE  Copy' = [Copy EXCEPT ![k] = Copy'[k]]
<1>1. Copy = [j \in Kinds |-> Copy[j]] /\ Copy' = [j \in Kinds |-> Copy'[j]]
  BY DEF Copy
<1> QED
  BY <1>1

LEMMA CopyKept == ASSUME \A j \in Kinds : Copy'[j] = Copy[j] PROVE Copy' = Copy
BY DEF Copy

LEMMA SavedKept ==
    ASSUME \A k \in Kinds : disk'[k]["final"] = disk[k]["final"] PROVE Saved' = Saved
BY CellFacts DEF Saved, Loaded

\* A step of none of its savers leaves the copies as they are.
LEMMA CopyUntouched ==
    ASSUME FileInv, FileInv', Overlapped' = Overlapped,
           \A p \in Procs : \/ proc'[p].phase \notin FilePhases /\ proc[p].phase \notin FilePhases
                            \/ proc'[p] = proc[p]
    PROVE  Copy' = Copy
<1> SUFFICES ASSUME NEW k \in Kinds PROVE Copy'[k] = Copy[k]
  BY CopyKept
<1>1. \A p \in Procs : \/ p \notin Savers(k) /\ p \notin Savers(k)'
                       \/ /\ p \in Savers(k) /\ p \in Savers(k)'
                          /\ proc'[p].data = proc[p].data
  BY IsSaver, IsSaverThen
<1> QED
  BY <1>1, CopyStays

LEMMA Stutters ==
    ASSUME (life = "down")' <=> life = "down", mem' = mem, Copy' = Copy,
           Saved' = Saved, Overlapped' = Overlapped
    PROVE  UNCHANGED Durable!vars
BY DEF Durable!vars

\* A save is begun: alone, or during another.
LEMMA BeginImplements ==
    ASSUME FileInv, FileInv', NEW p \in Procs, NEW k \in Kinds, Begin(p, k),
           proc[p].phase \notin FilePhases, UNCHANGED <<mem, disk>>,
           life # "down", life' # "down"
    PROVE  Durable!Settle(k) \/ Durable!Clash(k)
<1>t. TypeOK
  BY DEF FileInv
<1>1. \A j \in Kinds : j # k => Copy'[j] = Copy[j]
  <2> SUFFICES ASSUME NEW j \in Kinds, j # k PROVE Copy'[j] = Copy[j]
    OBVIOUS
  <2>1. (j \in Overlapped)' <=> j \in Overlapped
    BY <1>t, BeginMoves DEF Overlapped
  <2>2. \A q \in Procs : \/ q \notin Savers(j) /\ q \notin Savers(j)'
                         \/ /\ q \in Savers(j) /\ q \in Savers(j)'
                            /\ proc'[q].data = proc[q].data
    BY <1>t, BeginMoves, IsSaver, IsSaverThen
  <2> QED
    BY <2>1, <2>2, CopyStays
<1>2. Saved' = Saved
  BY SavedKept
<1>3. Copy'[k] = NoCells
  <2>1. p \in Savers(k)' /\ proc'[p].data = NoCells
    BY <1>t, BeginMoves, IsSaverThen DEF FilePhases
  <2> QED
    BY <2>1, CopyThen
<1>4. CASE Savers(k) = {}
  <2>1. Copy' = Copy
    <3>1. Copy[k] = NoCells
      BY <1>4, CopyIs
    <3> QED
      BY <1>1, <1>3, <3>1, CopyKept
  <2>2. Overlapped' = Overlapped \ {k}
    BY <1>4, <1>t, BeginMoves DEF Overlapped
  <2> QED
    BY <1>2, <2>1, <2>2 DEF Durable!Settle
<1>5. CASE Savers(k) # {}
  <2>1. Overlapped' = Overlapped \union {k}
    BY <1>5, <1>t, BeginMoves DEF Overlapped
  <2>2. Copy' = [Copy EXCEPT ![k] = NoCells]
    BY <1>1, <1>3, CopyChanges
  <2>3. NoCells = Durable!NoCells
    BY DEF NoCells, Durable!NoCells
  <2> QED
    BY <1>2, <2>1, <2>2, <2>3 DEF Durable!Clash
<1> QED
  BY <1>4, <1>5

\* What is saved of a cache that is spoilt has been in the memory.
LEMMA Spoils ==
    ASSUME TypeOK, NEW k \in Kinds, k \in Overlapped, life # "down",
           \A j \in Kinds : j # k => disk'[j] = disk[j],
           \/ disk'[k]["final"] = disk[k]["final"]
           \/ disk'[k]["final"].state = "whole" =>
                 \A c \in CellsOf[k] : disk'[k]["final"].data[c] <= mem[c],
           life' = life, mem' = mem, Overlapped' = Overlapped, Copy' = Copy
    PROVE  Durable!Spoil(k)
<1>1. ASSUME NEW c \in Cells
      PROVE  Saved'[c] = Saved[c] \/ (c \in CellsOf[k] /\ Saved'[c] <= mem[c])
  <2>1. KindOf(c) \in Kinds /\ c \in CellsOf[KindOf(c)] /\ mem[c] \in Nat
    BY CellFacts, Numbers
  <2>2. Saved[c] = Loaded(c) /\ Saved'[c] = Loaded(c)'
    BY DEF Saved
  <2>3. CASE KindOf(c) # k
    BY <2>1, <2>2, <2>3 DEF Loaded
  <2>4. CASE KindOf(c) = k
    BY <2>1, <2>2, <2>4 DEF Loaded
  <2> QED
    BY <2>3, <2>4
<1>2. Saved' = [c \in Cells |-> Saved'[c]]
  BY DEF Saved
<1> QED
  BY <1>1, <1>2 DEF Durable!Spoil

\* A step of a saver leaves the others their phases and copies.
LEMMA SaverOthers ==
    ASSUME TypeOK, NEW p \in Procs,
           ReadCell(p) \/ OpenTmp(p) \/ FinishWrite(p) \/ Replace(p)
              \/ ReplaceMissing(p) \/ WriteFails(p)
    PROVE  /\ proc'[p].kind = proc[p].kind /\ proc[p].phase \in FilePhases
           /\ \A q \in Procs : q # p => /\ proc'[q].phase = proc[q].phase
                                        /\ proc'[q].kind = proc[q].kind
                                        /\ proc'[q].data = proc[q].data
           /\ UNCHANGED <<life, mem, dirty, runs>>
<1> USE DEF FilePhases
<1>0. UNCHANGED <<life, mem, dirty, runs>>
  BY DEF ReadCell, OpenTmp, FinishWrite, Replace, ReplaceMissing, WriteFails
<1>1. CASE ReadCell(p)
  BY <1>0, <1>1, ReadEffect
<1>2. CASE OpenTmp(p)
  BY <1>0, <1>2, OpenEffect
<1>3. CASE FinishWrite(p)
  BY <1>0, <1>3, FinishEffect
<1>4. CASE Replace(p)
  BY <1>0, <1>4, ReplaceEffect, RenamedFacts
<1>5. CASE ReplaceMissing(p) \/ WriteFails(p)
  BY <1>0, <1>5, PhaseMoves, AfterFileFacts DEF ReplaceMissing, WriteFails
<1> QED
  BY <1>1, <1>2, <1>3, <1>4, <1>5

LEMMA SaverImplements ==
    ASSUME FileInv, RunInv, FileInv', NEW p \in Procs, NEW k \in Kinds, k = proc[p].kind,
           ReadCell(p) \/ OpenTmp(p) \/ FinishWrite(p) \/ Replace(p)
              \/ ReplaceMissing(p) \/ WriteFails(p)
    PROVE  \/ UNCHANGED Durable!vars
           \/ Durable!Copy(k) \/ Durable!Save(k) \/ Durable!GiveUp(k) \/ Durable!Spoil(k)
<1>t. TypeOK
  BY DEF FileInv
<1>p. proc[p].phase \in FilePhases
  BY <1>t, ReadEffect, OpenEffect, FinishEffect, ReplaceEffect, FailEffect
     DEF FilePhases, ReplaceMissing
<1>k. p \in Savers(k) /\ life # "down"
  BY <1>p, IsSaver DEF FileInv, DownIdle, Idle, FilePhases
<1>m. UNCHANGED <<life, mem>>
  BY DEF ReadCell, OpenTmp, FinishWrite, Replace, ReplaceMissing, WriteFails
<1>o. Overlapped' = Overlapped
  <2>1. mishaps' = mishaps \/ mishaps' = Suffers(k, "failed")
    BY DEF ReadCell, OpenTmp, FinishWrite, Replace, ReplaceMissing, WriteFails
  <2>2. \A j \in Kinds : (j \in Overlapped)' <=> j \in Overlapped
    BY <1>t, <2>1 DEF Overlapped, Suffers, TypeOK
  <2> QED
    BY <2>2 DEF Overlapped
<1>c. CASE /\ proc'[p].kind = k
           /\ p \in Savers(k)' => proc'[p].data = proc[p].data \/ k \in Overlapped
           /\ p \in Savers(k)' \/ k \in Overlapped
           /\ \A q \in Procs : q # p => /\ proc'[q].phase = proc[q].phase
                                        /\ proc'[q].kind = proc[q].kind
                                        /\ proc'[q].data = proc[q].data
           /\ \A j \in Kinds : j # k => disk'[j] = disk[j]
           /\ \/ disk'[k]["final"] = disk[k]["final"]
              \/ /\ k \in Overlapped
                 /\ disk'[k]["final"].state = "whole" =>
                       \A c \in CellsOf[k] : disk'[k]["final"].data[c] <= mem[c]
  <2>1. Copy' = Copy
    <3> SUFFICES ASSUME NEW j \in Kinds PROVE Copy'[j] = Copy[j]
      BY CopyKept
    <3>1. CASE j = k /\ k \in Overlapped
      BY <1>o, <3>1, CopyIs, CopyThen
    <3>2. CASE j # k \/ k \notin Overlapped
      <4>1. \A q \in Procs : \/ q \notin Savers(j) /\ q \notin Savers(j)'
                             \/ /\ q \in Savers(j) /\ q \in Savers(j)'
                                /\ proc'[q].data = proc[q].data
        BY <1>c, <1>k, <3>2, IsSaver, IsSaverThen
      <4> QED
        BY <1>o, <4>1, CopyStays
    <3> QED
      BY <3>1, <3>2
  <2>2. CASE disk'[k]["final"] = disk[k]["final"]
    <3>1. Saved' = Saved
      BY <1>c, <2>2, SavedKept
    <3> QED
      BY <1>m, <1>o, <2>1, <3>1, Stutters
  <2>3. CASE /\ k \in Overlapped
             /\ disk'[k]["final"].state = "whole" =>
                   \A c \in CellsOf[k] : disk'[k]["final"].data[c] <= mem[c]
    BY <1>c, <1>k, <1>m, <1>o, <1>t, <2>1, <2>3, Spoils
  <2> QED
    BY <1>c, <2>2, <2>3
<1>j. \A j \in Kinds : j # k => Copy'[j] = Copy[j]
  <2> SUFFICES ASSUME NEW j \in Kinds, j # k PROVE Copy'[j] = Copy[j]
    OBVIOUS
  <2>1. /\ proc'[p].kind = k
        /\ \A q \in Procs : q # p => /\ proc'[q].phase = proc[q].phase
                                     /\ proc'[q].kind = proc[q].kind
                                     /\ proc'[q].data = proc[q].data
    BY <1>t, SaverOthers
  <2>2. \A q \in Procs : \/ q \notin Savers(j) /\ q \notin Savers(j)'
                         \/ /\ q \in Savers(j) /\ q \in Savers(j)'
                            /\ proc'[q].data = proc[q].data
    BY <2>1, IsSaver, IsSaverThen
  <2> QED
    BY <1>o, <2>2, CopyStays
<1>1. CASE ReadCell(p)
  <2>0. disk' = disk
    BY <1>1 DEF ReadCell
  <2>1. CASE k \in Overlapped
    BY <1>1, <1>c, <1>t, <2>0, <2>1, ReadEffect
  <2>2. CASE k \notin Overlapped
    <3>1. PICK c \in CellsOf[k] :
             /\ c \notin DOMAIN proc[p].data
             /\ proc'[p].data = [x \in DOMAIN proc[p].data \union {c} |->
                                    IF x = c THEN mem[c] ELSE proc[p].data[x]]
      BY <1>1, <1>t, ReadEffect
    <3>2. p \in Savers(k)'
      BY <1>1, <1>p, <1>t, ReadEffect, IsSaverThen
    <3>3. Copy[k] = proc[p].data /\ Copy'[k] = proc'[p].data
      BY <1>k, <1>o, <2>2, <3>2, CopyIs, CopyThen
    <3>4. Copy' = [Copy EXCEPT ![k] = [x \in DOMAIN Copy[k] \union {c} |->
                                         IF x = c THEN mem[c] ELSE Copy[k][x]]]
      BY <1>j, <2>0, <3>1, <3>3, CopyChanges
    <3>5. Saved' = Saved
      BY <2>0, SavedKept
    <3>6. c \in CellsOf[k] \ DOMAIN Copy[k]
      BY <3>1, <3>3
    <3> QED
      BY <1>k, <1>m, <1>o, <2>2, <3>4, <3>5, <3>6 DEF Durable!Copy
  <2> QED
    BY <2>1, <2>2
<1>2. CASE OpenTmp(p)
  <2>1. p \in Savers(k)'
    BY <1>2, <1>t, OpenEffect, IsSaverThen DEF FilePhases
  <2> QED
    BY <1>2, <1>c, <1>t, <2>1, OpenEffect
<1>3. CASE FinishWrite(p)
  <2>1. p \in Savers(k)' /\ proc[p].phase = "write"
    BY <1>3, <1>t, FinishEffect, IsSaverThen DEF FilePhases
  <2>2. CASE k \notin Overlapped
    <3>1. proc[p].at = "tmp"
      BY <1>k, <2>1, <2>2 DEF FileInv, KindInv, OwnFile
    <3>2. disk'[k]["final"] = disk[k]["final"]
      BY <1>3, <1>t, <3>1, FinishEffect DEF Names
    <3> QED
      BY <1>3, <1>c, <1>t, <2>1, <3>2, FinishEffect
  <2>3. CASE k \in Overlapped
    <3>1. \A c \in CellsOf[k] : proc[p].data[c] <= mem[c]
      BY <1>3, <1>k, <1>t, FinishEffect DEF RunInv, CopiesBehind
    <3>2. disk'[k]["final"] = disk[k]["final"] \/ disk'[k]["final"].data = proc[p].data
      <4>1. CASE proc[p].at = "final"
        <5>1. \/ disk' = disk
              \/ \E s \in {"whole", "torn"} :
                    disk'[k]["final"] = [disk[k]["final"] EXCEPT !.state = s,
                                                                 !.data = proc[p].data]
          BY <1>3, <1>t, <4>1, FinishEffect
        <5>2. disk[k]["final"] \in File
          BY <1>t DEF TypeOK, Names
        <5> QED
          BY <5>1, <5>2 DEF File
      <4>2. CASE proc[p].at # "final"
        BY <1>3, <1>t, <4>2, FinishEffect DEF Names
      <4> QED
        BY <4>1, <4>2
    <3> QED
      BY <1>3, <1>c, <1>t, <2>1, <2>3, <3>1, <3>2, FinishEffect
  <2> QED
    BY <2>2, <2>3
<1>4. CASE Replace(p)
  <2>0. /\ disk'[k]["final"] = disk[k]["tmp"]
        /\ \A j \in Kinds : j # k => disk'[j] = disk[j]
        /\ proc'[p].phase \notin FilePhases /\ proc[p].phase = "replace"
    BY <1>4, <1>t, ReplaceEffect, AfterFileFacts DEF FilePhases
  <2>1. CASE k \in Overlapped
    <3>1. disk'[k]["final"].state = "whole" =>
             \A c \in CellsOf[k] : disk'[k]["final"].data[c] <= mem[c]
      BY <1>k, <2>0 DEF RunInv, FilesBehind, Names
    <3>2. p \notin Savers(k)'
      BY <2>0, IsSaverThen
    <3> QED
      BY <1>4, <1>c, <1>t, <2>0, <2>1, <3>1, <3>2, ReplaceEffect, RenamedFacts
  <2>2. CASE k \notin Overlapped
    <3>1. disk[k]["tmp"].state = "whole" /\ disk[k]["tmp"].data = proc[p].data
      BY <1>k, <2>0, <2>2 DEF FileInv, KindInv, OwnFile
    <3>2. Copy[k] = proc[p].data /\ DOMAIN Copy[k] = CellsOf[k]
      BY <1>k, <1>t, <2>2, <3>1, CopyIs DEF TypeOK, Names
    <3>3. \A q \in Procs : q \notin Savers(k)'
      <4>1. \A q \in Savers(k) : q = p
        BY <1>k, <2>2 DEF FileInv, KindInv, OneSaver
      <4> QED
        BY <1>4, <1>t, <2>0, <4>1, ReplaceEffect, RenamedFacts, IsSaver, IsSaverThen
    <3>4. Copy' = [Copy EXCEPT ![k] = NoCells]
      BY <1>j, <2>0, <3>3, CopyThen, CopyChanges
    <3>5. Saved' = [c \in Cells |-> IF c \in CellsOf[k] THEN Copy[k][c] ELSE Saved[c]]
      <4>1. ASSUME NEW c \in Cells
            PROVE  Loaded(c)' = IF c \in CellsOf[k] THEN Copy[k][c] ELSE Loaded(c)
        <5>1. KindOf(c) \in Kinds /\ (c \in CellsOf[k] <=> KindOf(c) = k)
          BY CellFacts
        <5> QED
          BY <2>0, <3>1, <3>2, <5>1 DEF Loaded
      <4> QED
        BY <4>1 DEF Saved
    <3>6. NoCells = Durable!NoCells
      BY DEF NoCells, Durable!NoCells
    <3> QED
      BY <1>k, <1>m, <1>o, <3>2, <3>4, <3>5, <3>6 DEF Durable!Save
  <2> QED
    BY <2>1, <2>2
<1>5. CASE ReplaceMissing(p) \/ WriteFails(p)
  <2>0. /\ disk' = disk /\ proc'[p].phase \notin FilePhases /\ proc'[p].kind = k
        /\ \A q \in Procs : q # p => proc'[q] = proc[q]
    BY <1>5, <1>t, PhaseMoves, AfterFileFacts DEF ReplaceMissing, WriteFails, FilePhases
  <2>1. CASE k \in Overlapped
    BY <1>c, <2>0, <2>1, IsSaverThen
  <2>2. CASE k \notin Overlapped
    <3>1. \A q \in Procs : q \notin Savers(k)'
      <4>1. \A q \in Savers(k) : q = p
        BY <1>k, <2>2 DEF FileInv, KindInv, OneSaver
      <4> QED
        BY <2>0, <4>1, IsSaver, IsSaverThen
    <3>2. Copy' = [Copy EXCEPT ![k] = NoCells]
      BY <1>j, <2>0, <3>1, CopyThen, CopyChanges
    <3>3. Saved' = Saved
      BY <2>0, SavedKept
    <3>4. NoCells = Durable!NoCells
      BY DEF NoCells, Durable!NoCells
    <3> QED
      BY <1>k, <1>m, <1>o, <3>2, <3>3, <3>4 DEF Durable!GiveUp
  <2> QED
    BY <2>1, <2>2
<1> QED
  BY <1>1, <1>2, <1>3, <1>4, <1>5

LEMMA CollectImplements ==
    ASSUME FileInv, RunInv, FileInv', NEW m \in Models, Collect(m), life # "down"
    PROVE  UNCHANGED Durable!vars \/ Durable!StoreStations(m) \/ Durable!StoreGrid(m)
<1>t. TypeOK /\ m \in Procs
  BY ProcsDistinct DEF FileInv
<1>0. life' = life /\ disk' = disk
  BY <1>t, CollectEffect
<1>1. Overlapped' = Overlapped
  <2>1. \A k \in Kinds : (k \in Overlapped)' <=> k \in Overlapped
    BY <1>t, CollectEffect DEF Overlapped
  <2> QED
    BY <2>1 DEF Overlapped
<1>2. Copy' = Copy
  BY <1>1, <1>t, CollectEffect, CopyUntouched
<1>3. Saved' = Saved
  BY <1>0, SavedKept
<1>4. CASE mem' = mem
  BY <1>0, <1>1, <1>2, <1>3, <1>4, Stutters
<1>5. CASE /\ mem' = [mem EXCEPT ![<<"entry", m>>] = runs + 1] /\ runs' = runs + 1
  <2>1. runs + 1 \in 1..MaxRuns
    <3>1. runs' \in Run /\ runs \in Nat
      BY <1>t, Numbers, NextTypes DEF FileInv, TypeOK
    <3> QED
      BY <1>5, <3>1, PersistenceAssumption DEF Run
  <2>2. runs + 1 > mem[<<"entry", m>>]
    <3>1. mem[<<"entry", m>>] <= runs /\ mem[<<"entry", m>>] \in Nat /\ runs \in Nat
      BY <1>t, EntryCell, Numbers DEF RunInv, MemBound
    <3> QED
      BY <3>1
  <2> QED
    BY <1>0, <1>1, <1>2, <1>3, <1>5, <2>1, <2>2 DEF Durable!StoreStations
<1>6. ASSUME NEW f \in GridFields, mem' = [mem EXCEPT ![<<f, m>>] = proc[m].run],
             proc[m].phase = f
      PROVE  Durable!StoreGrid(m)
  <2>1. proc[m].run = mem[<<"entry", m>>]
    BY <1>6 DEF RunInv, SliceRuns, SlicePhases
  <2>2. mem' = [mem EXCEPT ![<<f, m>>] = mem[<<"entry", m>>]]
    BY <1>6, <2>1
  <2> QED
    BY <1>0, <1>1, <1>2, <1>3, <2>2 DEF Durable!StoreGrid, GridFields
<1> QED
  BY <1>4, <1>5, <1>6, <1>t, CollectMemory

LEMMA DieImplements ==
    ASSUME FileInv, FileInv', Exit \/ Crash
    PROVE  Durable!Die
<1>1. life # "down" /\ life' = "down" /\ Forget /\ disk' = disk
  BY DEF Exit, Crash, Forget
<1>2. mem' = Durable!Nothing
  BY <1>1 DEF Forget, Durable!Nothing
<1>3. Overlapped' = {}
  BY <1>1 DEF Forget, Overlapped, NoMishaps
<1>4. Copy' = Durable!NoCopy
  <2>1. \A k \in Kinds : Copy'[k] = Durable!NoCells
    <3>1. \A k \in Kinds, p \in Procs : p \notin Savers(k)'
      BY <1>1, IsSaverThen DEF Forget, Idle, FilePhases
    <3>2. NoCells = Durable!NoCells
      BY DEF NoCells, Durable!NoCells
    <3> QED
      BY <3>1, <3>2, CopyThen
  <2>2. Copy' = [k \in Kinds |-> Copy'[k]]
    BY DEF Copy
  <2> QED
    BY <2>1, <2>2 DEF Durable!NoCopy
<1>5. Saved' = Saved
  BY <1>1, SavedKept
<1> QED
  BY <1>1, <1>2, <1>3, <1>4, <1>5 DEF Durable!Die

LEMMA StartImplements ==
    ASSUME FileInv, FileInv', Start
    PROVE  Durable!Start
<1>t. TypeOK /\ DownIdle
  BY DEF FileInv
<1>1. life = "down" /\ life' # "down" /\ mishaps' = mishaps
  BY DEF Start
<1>2. Overlapped' = Overlapped
  BY <1>1 DEF Overlapped
<1>3. Copy' = Copy
  <2>1. \A p \in Procs : proc'[p] = Idle /\ proc[p] = Idle
    BY <1>1, <1>t, StartMemory DEF DownIdle
  <2> QED
    BY <1>2, <2>1, CopyUntouched
<1>4. Saved' = Saved
  BY <1>t, StartMemory, SavedKept
<1>5. ASSUME NEW c \in Cells
      PROVE  mem'[c] = Saved[c] \/ (c[1] = "label" /\ \A m \in Models : Saved[<<"data", m>>] = 0)
  <2>1. CASE mem'[c] = Loaded(c)
    BY <2>1 DEF Saved
  <2>2. CASE c[1] = "label" /\ disk["grid"]["final"].state # "whole"
    <3>1. \A m \in Models : <<"data", m>> \in Cells /\ KindOf(<<"data", m>>) = "grid"
      BY GridCell, CellFacts DEF Kinds
    <3>2. \A m \in Models : Saved[<<"data", m>>] = 0
      BY <2>2, <3>1 DEF Saved, Loaded
    <3> QED
      BY <2>2, <3>2
  <2> QED
    BY <1>t, <2>1, <2>2, StartMemory
<1>6. mem' = [c \in Cells |-> mem'[c]]
  BY DEF Start
<1> QED
  BY <1>1, <1>2, <1>3, <1>4, <1>5, <1>6 DEF Durable!Start

LEMMA InitImplements == Init => Durable!Init
<1> SUFFICES ASSUME Init PROVE Durable!Init
  OBVIOUS
<1>1. FileInv
  BY InitFiles
<1>2. Overlapped = {}
  BY DEF Init, Overlapped, NoMishaps
<1>3. Copy = Durable!NoCopy
  <2>1. \A k \in Kinds : Copy[k] = Durable!NoCells
    <3>1. \A k \in Kinds, p \in Procs : p \notin Savers(k)
      BY IsSaver DEF Init, Idle, FilePhases
    <3>2. NoCells = Durable!NoCells
      BY DEF NoCells, Durable!NoCells
    <3> QED
      BY <1>1, <3>1, <3>2, CopyIs
  <2>2. Copy = [k \in Kinds |-> Copy[k]]
    BY DEF Copy
  <2> QED
    BY <2>1, <2>2 DEF Durable!NoCopy
<1>4. Saved = Durable!Nothing
  <2>1. \A k \in Kinds : disk[k]["final"].state # "whole"
    <3>1. \A k \in Kinds : disk[k]["final"] = NoFile(k) \/ disk[k]["final"] = OldGrid
      BY DEF Init, Names
    <3>2. OldGrid.state = "old" /\ \A k \in Kinds : NoFile(k).state = "none"
      BY DEF OldGrid, NoFile
    <3> QED
      BY <3>1, <3>2
  <2> QED
    BY <2>1, CellFacts DEF Saved, Loaded, Durable!Nothing
<1> QED
  BY <1>2, <1>3, <1>4 DEF Init, Durable!Init, Durable!Nothing

\* save_cache and load_cache implement DurableCache, for all models, runs,
\* failing writes and crashes, with the cells of a cache read one by one while
\* the collectors write: what is renamed is the complete copy of its one saver,
\* every cell as the memory held it at some moment since that save began, and a
\* start brings back what was saved.  Saves that overlap are in it too: they may
\* lose or age what is saved of their cache, until one begins alone, and nothing
\* of another.
THEOREM Implements == Spec => RefinesDurableCache
<1>1. Init => Durable!Init
  BY InitImplements
<1>2. FileInv /\ RunInv /\ FileInv' /\ [Next]_vars => [Durable!Next]_(Durable!vars)
  <2> SUFFICES ASSUME FileInv, RunInv, FileInv', [Next]_vars
               PROVE  Durable!Next \/ UNCHANGED Durable!vars
    OBVIOUS
  <2>t. TypeOK
    BY DEF FileInv
  <2>1. CASE UNCHANGED vars
    BY <2>1 DEF vars, Durable!vars, Copy, Saved, Loaded, Overlapped, Savers
  <2>2. CASE life = "down" /\ Next
    BY <2>2, OnlyStart, StartImplements DEF FileInv, Durable!Next
  <2> SUFFICES ASSUME Next, life # "down" PROVE Durable!Next \/ UNCHANGED Durable!vars
    BY <2>1, <2>2
  <2>3. ASSUME NEW m \in Models, Collect(m)
        PROVE  Durable!Next \/ UNCHANGED Durable!vars
    BY <2>3, CollectImplements DEF Durable!Next
  <2>4. ASSUME NEW p \in Procs, NEW k \in Kinds, Begin(p, k),
               proc[p].phase \notin FilePhases, UNCHANGED <<mem, disk>>, life' # "down"
        PROVE  Durable!Next \/ UNCHANGED Durable!vars
    BY <2>4, BeginImplements DEF Durable!Next
  <2>5. ASSUME NEW p \in Procs, ReadCell(p) \/ OpenTmp(p) \/ FinishWrite(p) \/ Replace(p)
                                   \/ ReplaceMissing(p) \/ WriteFails(p)
        PROVE  Durable!Next \/ UNCHANGED Durable!vars
    <3>1. PICK k \in Kinds : k = proc[p].kind
      BY <2>t, Numbers
    <3> QED
      BY <2>5, <3>1, SaverImplements DEF Durable!Next
  <2>6. ASSUME NEW p \in Procs, proc' = [proc EXCEPT ![p] = Idle],
               proc[p].phase \notin FilePhases, UNCHANGED <<life, mem, disk, mishaps>>
        PROVE  UNCHANGED Durable!vars
    <3>1. Overlapped' = Overlapped
      BY <2>6 DEF Overlapped
    <3>2. Copy' = Copy
      BY <2>6, <2>t, <3>1, ProcMoves, CopyUntouched DEF Idle, FilePhases
    <3> QED
      BY <2>6, <3>1, <3>2, SavedKept, Stutters
  <2>7. CASE Exit \/ Crash
    BY <2>7, DieImplements DEF Durable!Next
  <2>8. CASE Stop
    <3>1. proc[App].phase \notin FilePhases /\ App \in Procs
      BY <2>8, <2>t, ProcsDistinct DEF Stop, TypeOK, FilePhases
    <3> QED
      BY <2>4, <2>8, <3>1 DEF Stop, Kinds
  <2>9. ASSUME NEW m \in Models, StartSave(m)
        PROVE  Durable!Next \/ UNCHANGED Durable!vars
    <3>1. proc[m].phase \notin FilePhases /\ m \in Procs
      BY <2>9, ProcsDistinct DEF StartSave, FilePhases
    <3> QED
      BY <2>4, <2>9, <3>1 DEF StartSave, Kinds
  <2>10. ASSUME NEW p \in Procs, CheckDirty(p) \/ ClearDirty(p)
         PROVE  Durable!Next \/ UNCHANGED Durable!vars
    <3>1. /\ proc[p].phase \notin FilePhases /\ UNCHANGED <<life, mem, disk>>
          /\ \/ Begin(p, "grid")
             \/ proc' = [proc EXCEPT ![p] = Idle] /\ UNCHANGED mishaps
      BY <2>10 DEF CheckDirty, ClearDirty, FilePhases
    <3> QED
      BY <2>4, <2>6, <3>1 DEF Kinds
  <2>11. ~Start
    BY DEF Start
  <2> QED
    BY <2>3, <2>5, <2>7, <2>8, <2>9, <2>10, <2>11 DEF Next, Save
<1>3. Spec => [](FileInv /\ RunInv)
  BY RunsInvariant
<1> QED
  BY <1>1, <1>2, <1>3, PTL DEF Spec, RefinesDurableCache, Durable!Spec

-----------------------------------------------------------------------------
(* The dirty flag *)

\* As long as nothing has come in between since a save of the grid began alone:
\* a row that nobody is writing is what the saver has read of it; and without a
\* saver it is what the file has, or the flag is set and nobody is about to
\* clear it.
Writing == {"time", "label", "mark"}

RowInStep(m) == \A f \in GridFields :
    \/ mem[<<f, m>>] = Loaded(<<f, m>>)
    \/ f = "label" /\ disk["grid"]["final"].state # "whole"

RowCopied(m) == \A p \in Savers("grid"), f \in GridFields :
    <<f, m>> \in DOMAIN proc[p].data => proc[p].data[<<f, m>>] = mem[<<f, m>>]

Clearing == \E p \in Procs : proc[p].phase = "clear"

RowSettled(m) ==
    /\ RowCopied(m)
    /\ (\E p \in Procs : p \in Savers("grid")) \/ (dirty /\ ~Clearing) \/ RowInStep(m)

ClearIsGrid == \A p \in Procs : proc[p].phase = "clear" => proc[p].kind = "grid"

CleanInv ==
    /\ ClearIsGrid
    /\ life # "down" /\ mishaps["grid"] = {} =>
          \A m \in Models : proc[m].phase \notin Writing => RowSettled(m)

LEMMA NextClearIsGrid == ASSUME TypeOK, ClearIsGrid, [Next]_vars PROVE ClearIsGrid'
<1> SUFFICES ASSUME NEW p \in Procs, proc'[p].phase = "clear" PROVE proc'[p].kind = "grid"
  BY DEF ClearIsGrid
<1>1. CASE proc' = proc
  BY <1>1 DEF ClearIsGrid
<1>2. ASSUME NEW m \in Models, Collect(m) PROVE proc'[p].kind = "grid"
  BY <1>2, CollectEffect DEF ClearIsGrid
<1>3. ASSUME NEW q \in Procs, NEW j \in Kinds, Begin(q, j)
      PROVE  proc'[p].kind = "grid"
  BY <1>3, BeginMoves DEF ClearIsGrid
<1>4. ASSUME NEW q \in Procs, proc' = [proc EXCEPT ![q] = Idle]
      PROVE  proc'[p].kind = "grid"
  BY <1>4, ProcMoves DEF Idle, ClearIsGrid
<1>5. ASSUME NEW q \in Procs, ReadCell(q) \/ OpenTmp(q) \/ FinishWrite(q) \/ Replace(q)
                                 \/ ReplaceMissing(q) \/ WriteFails(q)
      PROVE  proc'[p].kind = "grid"
  <2>1. CASE q # p
    BY <1>5, <2>1, SaverOthers DEF ClearIsGrid
  <2>2. CASE q = p
    <3>1. proc'[q].phase = AfterFile(q)
      <4>1. ~ReadCell(q) /\ ~OpenTmp(q) /\ ~FinishWrite(q)
        BY <2>2, ReadEffect, OpenEffect, FinishEffect
      <4> QED
        BY <1>5, <4>1, ReplaceEffect, PhaseMoves, AfterFileFacts
           DEF ReplaceMissing, WriteFails
    <3>2. proc[q].kind = "grid"
      BY <2>2, <3>1, Numbers DEF AfterFile, Kinds
    <3> QED
      BY <1>5, <2>2, <3>2, SaverOthers
  <2> QED
    BY <2>1, <2>2
<1>6. CASE Forget
  BY <1>6 DEF Forget, Idle
<1> QED
  BY <1>1, <1>2, <1>3, <1>4, <1>5, <1>6, ProcsDistinct
     DEF Next, vars, Save, StartSave, CheckDirty, ClearDirty, Stop, Start, Exit,
         Crash, Kinds

\* A step that no saver of the grid takes leaves a row settled, if it does not
\* write it, does not clear the flag and leaves nobody about to.
LEMMA RowStays ==
    ASSUME NEW m \in Models, RowSettled(m), disk'["grid"] = disk["grid"],
           \A f \in GridFields : mem'[<<f, m>>] = mem[<<f, m>>],
           \A p \in Procs : \/ p \notin Savers("grid") /\ p \notin Savers("grid")'
                            \/ /\ p \in Savers("grid") /\ p \in Savers("grid")'
                               /\ proc'[p].data = proc[p].data,
           \/ dirty /\ ~Clearing => dirty' /\ ~Clearing'
           \/ RowInStep(m)
    PROVE  RowSettled(m)'
<1>1. RowCopied(m)'
  BY SaversAreProcs DEF RowSettled, RowCopied
<1>2. RowInStep(m) => RowInStep(m)'
  <2>1. \A f \in GridFields : KindOf(<<f, m>>) = "grid"
    BY GridCell, CellFacts DEF GridFields, Kinds
  <2>2. \A f \in GridFields : Loaded(<<f, m>>)' = Loaded(<<f, m>>)
    BY <2>1 DEF Loaded
  <2> QED
    BY <2>2 DEF RowInStep
<1> QED
  BY <1>1, <1>2 DEF RowSettled

LEMMA NextClean ==
    ASSUME FileInv, FileInv', CleanInv, [Next]_vars PROVE CleanInv'
<1>t. TypeOK
  BY DEF FileInv
<1>g. "grid" \in Kinds /\ "station" \in Kinds
  BY DEF Kinds
<1>0. ClearIsGrid'
  BY <1>t, NextClearIsGrid DEF CleanInv
<1> SUFFICES ASSUME life' # "down", mishaps'["grid"] = {}, NEW m \in Models,
                    proc'[m].phase \notin Writing
             PROVE  RowSettled(m)'
  BY <1>0 DEF CleanInv
<1>m. m \in Procs /\ \A f \in GridFields : <<f, m>> \in Cells /\ KindOf(<<f, m>>) = "grid"
  BY <1>g, ProcsDistinct, GridCell, CellFacts DEF GridFields
<1>1. CASE UNCHANGED vars
  <2>1. RowSettled(m)
    BY <1>1 DEF vars, CleanInv
  <2> QED
    BY <1>1, <2>1 DEF vars, RowSettled, RowCopied, RowInStep, Savers, Clearing, Loaded
<1>2. CASE life = "down" /\ Next
  <2>1. Start /\ DownIdle
    BY <1>2, OnlyStart DEF FileInv
  <2>2. \A p \in Procs : p \notin Savers("grid")'
    BY <1>g, <1>t, <2>1, StartMemory, IsSaverThen DEF Idle, FilePhases
  <2>3. ASSUME NEW f \in GridFields
        PROVE  \/ mem'[<<f, m>>] = Loaded(<<f, m>>)'
               \/ f = "label" /\ disk'["grid"]["final"].state # "whole"
    <3>1. disk'["grid"]["final"] = disk["grid"]["final"]
      BY <1>g, <1>t, <2>1, StartMemory
    <3>2. Loaded(<<f, m>>)' = Loaded(<<f, m>>)
      BY <1>m, <3>1 DEF Loaded
    <3>3. <<f, m>>[1] = f
      OBVIOUS
    <3> QED
      BY <1>m, <1>t, <2>1, <3>1, <3>2, <3>3, StartMemory
  <2> QED
    BY <2>2, <2>3, SaversAreProcs DEF RowSettled, RowCopied, RowInStep
<1> SUFFICES ASSUME Next, life # "down" PROVE RowSettled(m)'
  BY <1>1, <1>2
<1>s. mishaps["grid"] = {} /\ proc[m].phase \notin Writing => RowSettled(m)
  BY DEF CleanInv
<1>3. ASSUME NEW n \in Models, Collect(n) PROVE RowSettled(m)'
  <2>n. n \in Procs
    BY ProcsDistinct
  <2>0. /\ disk' = disk /\ mishaps' = mishaps
        /\ ~(MarkDirty(n) /\ GridIsSaved)
        /\ \A q \in Procs : q # n => proc'[q] = proc[q]
        /\ proc[n].phase \notin FilePhases /\ proc'[n].phase \notin FilePhases
        /\ proc[n].phase # "clear" /\ proc'[n].phase # "clear"
    <3>1. /\ mishaps'["grid"] = mishaps["grid"] /\ ~(MarkDirty(n) /\ GridIsSaved)
      BY <1>3, <1>g, <1>t, CollectEffect DEF MarkDirty, Suffers, TypeOK
    <3>2. mishaps' = mishaps
      BY <1>3, <3>1 DEF Collect, StoreStations, WriteSlice, MarkDirty, SkipGrid
    <3> QED
      BY <1>3, <1>t, <3>1, <3>2, CollectEffect
  <2>1. \A p \in Procs : \/ p \notin Savers("grid") /\ p \notin Savers("grid")'
                         \/ /\ p \in Savers("grid") /\ p \in Savers("grid")'
                            /\ proc'[p].data = proc[p].data
    BY <1>g, <2>0, IsSaver, IsSaverThen
  <2>2. ~Clearing => ~Clearing'
    BY <2>0, <2>n DEF Clearing
  <2>3. dirty => dirty'
    BY <1>3 DEF Collect, StoreStations, WriteSlice, MarkDirty, SkipGrid, FlagAfterSlice
  <2>4. CASE MarkDirty(n) /\ n = m
    <3>1. dirty' /\ \A p \in Procs : p \notin Savers("grid")'
      <4>1. \A p \in Procs : p \notin Savers("grid")
        BY <2>0, <2>4, IsSaver, <1>g DEF GridIsSaved, Saving, FilePhases
      <4> QED
        BY <2>1, <2>4, <4>1 DEF MarkDirty, FlagAfterSlice
    <3>2. ~Clearing
      BY <2>0, <2>4 DEF GridIsSaved, Saving, Clearing, CleanInv, ClearIsGrid
    <3> QED
      BY <2>2, <3>1, <3>2, SaversAreProcs DEF RowSettled, RowCopied
  <2>5. CASE ~(MarkDirty(n) /\ n = m)
    <3>1. CASE n # m
      <4>1. proc'[m] = proc[m]
        BY <1>m, <2>0, <3>1
      <4>2. mem' = mem \/ \E y, r : mem' = [mem EXCEPT ![y] = r]
                                   /\ \A f \in GridFields : y # <<f, m>>
        <5>1. CASE \E g, r : mem' = [mem EXCEPT ![<<g, n>>] = r]
          <6>1. PICK g, r : mem' = [mem EXCEPT ![<<g, n>>] = r]
            BY <5>1
          <6>2. \A f \in GridFields : <<g, n>> # <<f, m>>
            BY <3>1
          <6> QED
            BY ONLY <6>1, <6>2
        <5>2. mem' = mem \/ \E g, r : mem' = [mem EXCEPT ![<<g, n>>] = r]
          BY <1>3, <1>t, CollectMemory
        <5> QED
          BY <5>1, <5>2
      <4>3. \A f \in GridFields : mem'[<<f, m>>] = mem[<<f, m>>]
        <5> SUFFICES ASSUME NEW f \in GridFields PROVE mem'[<<f, m>>] = mem[<<f, m>>]
          OBVIOUS
        <5> DEFINE x == <<f, m>>
        <5>1. x \in Cells /\ (mem' = mem \/ \E y, r : mem' = [mem EXCEPT ![y] = r] /\ y # x)
          BY <1>m, <4>2
        <5> HIDE DEF x
        <5>2. mem'[x] = mem[x]
          BY <1>t, <5>1 DEF TypeOK
        <5> QED
          BY <5>2 DEF x
      <4> QED
        BY <1>s, <2>0, <2>1, <2>2, <2>3, <4>1, <4>3, RowStays
    <3>2. CASE n = m /\ SkipGrid(n)
      BY <1>s, <2>0, <2>1, <2>2, <2>3, <3>2, RowStays DEF SkipGrid, Writing
    <3>3. CASE n = m /\ StoreStations(n)
      <4>1. \A f \in GridFields : mem'[<<f, m>>] = mem[<<f, m>>]
        <5> SUFFICES ASSUME NEW f \in GridFields PROVE mem'[<<f, m>>] = mem[<<f, m>>]
          OBVIOUS
        <5> DEFINE x == <<f, m>>
                   y == <<"entry", m>>
        <5>1. x \in Cells /\ mem' = [mem EXCEPT ![y] = runs + 1] /\ y # x
          BY <1>m, <3>3 DEF StoreStations, GridFields
        <5> HIDE DEF x, y
        <5>2. mem'[x] = mem[x]
          BY <1>t, <5>1 DEF TypeOK
        <5> QED
          BY <5>2 DEF x
      <4> QED
        BY <1>s, <2>0, <2>1, <2>2, <2>3, <3>3, <4>1, RowStays DEF StoreStations, Writing
    <3>4. CASE n = m /\ WriteSlice(n)
      <4>1. proc'[m].phase \in Writing
        <5>1. PICK f \in GridFields : proc'[m].phase = Following[f]
          <6>1. PICK f \in GridFields : f = proc[m].phase
            BY <3>4 DEF WriteSlice, Following, GridFields
          <6>2. Following[f] \in {"time", "label", "mark"}
            BY <6>1 DEF Following, GridFields
          <6>3. proc' = [proc EXCEPT ![m].phase = Following[f]]
            BY <3>4, <6>1 DEF WriteSlice
          <6>4. proc'[m].phase = Following[f]
            BY <1>m, <1>t, <6>2, <6>3, PhaseMoves DEF Phases
          <6> QED
            BY <6>4
        <5> QED
          BY <5>1 DEF Following, GridFields, Writing
      <4> QED
        BY <4>1
    <3> QED
      BY <1>3, <2>5, <3>1, <3>2, <3>3, <3>4 DEF Collect
  <2> QED
    BY <2>4, <2>5
<1>4. ASSUME NEW p \in Procs, NEW k \in Kinds, Begin(p, k),
             proc[p].phase \notin FilePhases, proc[p].phase \notin Writing,
             proc[p].phase # "clear", UNCHANGED <<mem, disk, dirty>>
      PROVE  RowSettled(m)'
  <2>0. /\ proc'[p].phase = "read" /\ proc'[p].kind = k /\ proc'[p].data = NoCells
        /\ \A q \in Procs : q # p => proc'[q] = proc[q]
    BY <1>4, <1>t, BeginMoves
  <2>1. CASE k = "grid"
    <3>1. Savers(k) = {}
      BY <1>4, <1>t, <2>1, BeginMoves
    <3>2. p \in Savers("grid")' /\ \A q \in Savers("grid")' : q = p
      BY <1>g, <2>0, <2>1, <3>1, IsSaver, IsSaverThen, SaversAreProcs DEF FilePhases
    <3> QED
      BY <2>0, <3>2, NoCellsIsPart DEF RowSettled, RowCopied
  <2>2. CASE k # "grid"
    <3>1. mishaps["grid"] = {} /\ proc[m].phase \notin Writing
      BY <1>4, <1>g, <1>m, <1>t, <2>0, <2>2, BeginMoves
    <3>2. \A q \in Procs : \/ q \notin Savers("grid") /\ q \notin Savers("grid")'
                           \/ /\ q \in Savers("grid") /\ q \in Savers("grid")'
                              /\ proc'[q].data = proc[q].data
      BY <1>4, <1>g, <2>0, <2>2, IsSaver, IsSaverThen
    <3>3. ~Clearing => ~Clearing'
      BY <2>0 DEF Clearing
    <3> QED
      BY <1>4, <1>s, <3>1, <3>2, <3>3, RowStays
  <2> QED
    BY <2>1, <2>2
<1>5. ASSUME NEW p \in Procs, ReadCell(p) \/ OpenTmp(p) \/ FinishWrite(p) \/ Replace(p)
                                 \/ ReplaceMissing(p) \/ WriteFails(p)
      PROVE  RowSettled(m)'
  <2>0. /\ proc'[p].kind = proc[p].kind /\ proc[p].phase \in FilePhases
        /\ \A q \in Procs : q # p => /\ proc'[q].phase = proc[q].phase
                                     /\ proc'[q].kind = proc[q].kind
                                     /\ proc'[q].data = proc[q].data
        /\ UNCHANGED <<life, mem, dirty, runs>>
    BY <1>5, <1>t, SaverOthers
  <2>1. proc[m].phase \notin Writing
    BY <1>m, <2>0 DEF Writing, FilePhases
  <2>2. CASE proc[p].kind # "grid"
    <3>1. mishaps'["grid"] = mishaps["grid"]
      <4>1. \/ mishaps' = mishaps
            \/ mishaps' = [mishaps EXCEPT ![proc[p].kind] = @ \union {"failed"}]
        BY <1>5 DEF ReadCell, OpenTmp, FinishWrite, Replace, ReplaceMissing, WriteFails,
           Suffers
      <4> QED
        BY <1>g, <1>t, <2>2, <4>1 DEF TypeOK
    <3>2. disk'["grid"] = disk["grid"]
      BY <1>5, <1>g, <1>t, <2>2, OpenEffect, FinishEffect, ReplaceEffect
         DEF ReadCell, ReplaceMissing, WriteFails
    <3>3. \A q \in Procs : \/ q \notin Savers("grid") /\ q \notin Savers("grid")'
                           \/ /\ q \in Savers("grid") /\ q \in Savers("grid")'
                              /\ proc'[q].data = proc[q].data
      BY <1>g, <2>0, <2>2, IsSaver, IsSaverThen
    <3>4. ~Clearing => ~Clearing'
      BY <1>0, <2>0, <2>2 DEF Clearing, ClearIsGrid
    <3> QED
      BY <1>s, <2>0, <2>1, <3>1, <3>2, <3>3, <3>4, RowStays
  <2>3. CASE proc[p].kind = "grid"
    <3>0. ~WriteFails(p) /\ mishaps' = mishaps
      <4>1. ~WriteFails(p)
        <5>1. WriteFails(p) => mishaps' = [mishaps EXCEPT !["grid"] = @ \union {"failed"}]
          BY <2>3 DEF WriteFails, Suffers
        <5>2. WriteFails(p) => "failed" \in mishaps'["grid"]
          BY <1>g, <1>t, <5>1 DEF TypeOK
        <5> QED
          BY <5>2
      <4> QED
        BY <1>5, <4>1 DEF ReadCell, OpenTmp, FinishWrite, Replace, ReplaceMissing
    <3>1. RowCopied(m) /\ "grid" \notin Overlapped
      BY <1>s, <2>1, <3>0 DEF RowSettled, Overlapped
    <3>2. p \in Savers("grid") /\ \A q \in Savers("grid") : q = p
      BY <1>g, <2>0, <2>3, <3>1, IsSaver DEF FileInv, KindInv, OneSaver
    <3>3. \A q \in Savers("grid")' : q = p
      BY <1>g, <2>0, <3>2, IsSaver, IsSaverThen, SaversAreProcs
    <3>4. CASE ReadCell(p)
      <4>1. PICK c \in CellsOf["grid"] :
               /\ proc'[p].data = [x \in DOMAIN proc[p].data \union {c} |->
                                      IF x = c THEN mem[c] ELSE proc[p].data[x]]
               /\ proc'[p].phase = proc[p].phase
        BY <1>t, <2>3, <3>4, ReadEffect
      <4>2. p \in Savers("grid")'
        BY <1>g, <2>0, <2>3, <4>1, IsSaverThen
      <4>3. \A f \in GridFields : <<f, m>> \in DOMAIN proc[p].data =>
               proc[p].data[<<f, m>>] = mem[<<f, m>>]
        BY <3>1, <3>2 DEF RowCopied
      <4>4. \A f \in GridFields : <<f, m>> \in DOMAIN proc'[p].data =>
               proc'[p].data[<<f, m>>] = mem'[<<f, m>>]
        BY <2>0, <4>1, <4>3
      <4> QED
        BY <3>3, <4>2, <4>4, SaversAreProcs DEF RowSettled, RowCopied
    <3>5. CASE OpenTmp(p) \/ FinishWrite(p)
      <4>1. proc'[p].phase \in FilePhases /\ proc'[p].data = proc[p].data
        BY <1>t, <3>5, OpenEffect, FinishEffect DEF FilePhases
      <4>2. p \in Savers("grid")'
        BY <1>g, <2>0, <2>3, <4>1, IsSaverThen
      <4> QED
        BY <2>0, <3>1, <3>2, <3>3, <4>1, <4>2, SaversAreProcs DEF RowSettled, RowCopied
    <3>6. CASE Replace(p)
      <4>0. /\ disk'["grid"]["final"] = disk["grid"]["tmp"] /\ proc[p].phase = "replace"
            /\ proc'[p].phase \notin FilePhases
        BY <1>t, <2>3, <3>6, ReplaceEffect, AfterFileFacts DEF FilePhases
      <4>1. disk["grid"]["tmp"].state = "whole" /\ disk["grid"]["tmp"].data = proc[p].data
        BY <1>g, <3>1, <3>2, <4>0 DEF FileInv, KindInv, OwnFile
      <4>2. DOMAIN proc[p].data = CellsOf["grid"]
        BY <1>g, <1>t, <4>1 DEF TypeOK, Names
      <4>3. RowInStep(m)'
        <5> SUFFICES ASSUME NEW f \in GridFields
                     PROVE  mem'[<<f, m>>] = Loaded(<<f, m>>)'
          BY DEF RowInStep
        <5>1. Loaded(<<f, m>>)' = proc[p].data[<<f, m>>]
          BY <1>m, <4>0, <4>1 DEF Loaded
        <5>2. <<f, m>> \in DOMAIN proc[p].data
          BY <4>2, GridCell DEF GridFields
        <5> QED
          BY <2>0, <3>1, <3>2, <5>1, <5>2 DEF RowCopied
      <4>4. \A q : q \notin Savers("grid")'
        BY <1>g, <3>3, <4>0, IsSaverThen
      <4> QED
        BY <4>3, <4>4 DEF RowSettled, RowCopied
    <3>7. CASE ReplaceMissing(p)
      BY <1>g, <2>3, <3>1, <3>2, <3>7 DEF FileInv, KindInv, OwnFile, ReplaceMissing
    <3> QED
      BY <1>5, <3>0, <3>4, <3>5, <3>6, <3>7
  <2> QED
    BY <2>2, <2>3
<1>6. ASSUME NEW p \in Procs, proc' = [proc EXCEPT ![p] = Idle],
             proc[p].phase \notin FilePhases, proc[p].phase \notin Writing,
             UNCHANGED <<mem, disk, mishaps>>,
             dirty' = dirty \/ proc[p].phase = "clear"
      PROVE  RowSettled(m)'
  <2>0. proc'[p] = Idle /\ \A q \in Procs : q # p => proc'[q] = proc[q]
    BY <1>6, <1>t, ProcMoves
  <2>1. \A q \in Procs : \/ q \notin Savers("grid") /\ q \notin Savers("grid")'
                         \/ /\ q \in Savers("grid") /\ q \in Savers("grid")'
                            /\ proc'[q].data = proc[q].data
    BY <1>6, <1>g, <2>0, IsSaver, IsSaverThen DEF Idle, FilePhases
  <2>2. ~Clearing => ~Clearing' /\ dirty' = dirty
    BY <1>6, <2>0 DEF Clearing, Idle
  <2>3. mishaps["grid"] = {} /\ proc[m].phase \notin Writing
    BY <1>6, <1>m, <2>0
  <2> QED
    BY <1>6, <1>s, <2>1, <2>2, <2>3, RowStays
<1>7. CASE Stop
  BY <1>4, <1>7, <1>g, <1>t, ProcsDistinct DEF Stop, TypeOK, FilePhases, Writing
<1>8. ASSUME NEW n \in Models, StartSave(n) PROVE RowSettled(m)'
  BY <1>4, <1>8, <1>g, ProcsDistinct DEF StartSave, FilePhases, Writing
<1>9. ASSUME NEW p \in Procs, CheckDirty(p) \/ ClearDirty(p) PROVE RowSettled(m)'
  BY <1>4, <1>6, <1>9, <1>g DEF CheckDirty, ClearDirty, FilePhases, Writing
<1>10. ~Exit /\ ~Crash /\ ~Start
  BY DEF Exit, Crash, Forget, Start
<1> QED
  BY <1>3, <1>5, <1>7, <1>8, <1>9, <1>10 DEF Next, Save

\* The comment on the flags: a clear flag means that there is nothing to write.
\* With the application at rest it is true of the grid, whatever slices, saves of
\* either model, crashes and restarts went before, unless since a save of the
\* grid last began alone one has failed, two have overlapped or a slice was
\* finished during one.
THEOREM CleanIsSaved == Spec => []CleanMeansSaved
<1>1. Init => CleanInv
  BY DEF Init, CleanInv, ClearIsGrid, Idle
<1>2. FileInv /\ FileInv' /\ CleanInv /\ [Next]_vars => CleanInv'
  BY NextClean
<1>3. FileInv /\ CleanInv => CleanMeansSaved
  <2> SUFFICES ASSUME FileInv, CleanInv, AtRest, ~dirty, mishaps["grid"] = {},
                      NEW c \in CellsOf["grid"]
               PROVE  \/ mem[c] = Loaded(c)
                      \/ c[1] = "label" /\ disk["grid"]["final"].state # "whole"
    BY DEF CleanMeansSaved, InStep
  <2>1. PICK f \in GridFields, m \in Models : c = <<f, m>>
    BY CellIsPair DEF GridFields
  <2>2. \A p \in Procs : p \notin Savers("grid") /\ proc[p].phase \in {"idle", "done"}
    BY IsSaver DEF AtRest, Kinds, FilePhases
  <2>3. RowSettled(m)
    BY <2>2, ProcsDistinct DEF CleanInv, AtRest, Writing
  <2>4. RowInStep(m)
    BY <2>2, <2>3 DEF RowSettled
  <2> QED
    BY <2>1, <2>4 DEF RowInStep
<1> QED
  BY <1>1, <1>2, <1>3, FilesInvariant, PTL DEF Spec

=============================================================================
