--------------------------- MODULE Telemetry_proof ---------------------------
(***************************************************************************)
(* Proofs about Telemetry, for all requests, errors and groups, and every  *)
(* size of the ring.                                                       *)
(*                                                                         *)
(* The ring is inductively in the order of the last uses, and a group that *)
(* is not in it was used before all that are (RingInv).  How many groups   *)
(* came between two uses, which is what the property counts, follows from  *)
(* that.  What an entry counts is then the run of reports between which too *)
(* few others came to push it out (CountInv): a report of a group that is  *)
(* in the ring goes on with its run, any other begins one, and no report   *)
(* touches the run of another group.  A request that waits for its report is the one whose report the  *)
(* event loop makes, so that none is forgotten or made twice (RequestInv). *)
(***************************************************************************)
EXTENDS Telemetry, FiniteSetTheorems, WellFoundedInduction, TLAPS

-----------------------------------------------------------------------------
(* Types *)

LEMMA PlaceIs ==
    ASSUME NEW g, InRing(g)
    PROVE  Place(g) \in 1..Len(ring) /\ ring[Place(g)].group = g
BY DEF InRing, Place

LEMMA ConcatIs ==
    ASSUME NEW S, NEW a \in Seq(S), NEW b \in Seq(S)
    PROVE  /\ a \o b \in Seq(S) /\ Len(a \o b) = Len(a) + Len(b)
           /\ \A i \in 1..Len(a) : (a \o b)[i] = a[i]
           /\ \A i \in Len(a) + 1..Len(a) + Len(b) : (a \o b)[i] = b[i - Len(a)]
OBVIOUS

\* A known group is taken out of its place and put at the end.
LEMMA SeenAgainIs ==
    ASSUME ring \in Seq(Group), NEW g \in Groups, NEW now \in 0..MaxClock, InRing(g)
    PROVE  LET s == SeenAgain(g, now) IN
           /\ s \in Seq(Group) /\ Len(s) = Len(ring)
           /\ \A i \in 1..Len(s) :
                 /\ i < Place(g) => s[i] = ring[i]
                 /\ i >= Place(g) /\ i < Len(s) => s[i] = ring[i + 1]
                 /\ i = Len(s) => s[i].group = g /\ s[i].count = ring[Place(g)].count + 1
<1> DEFINE n == Place(g)
           e == [ring[n] EXCEPT !.count = @ + 1, !.last = now]
           r == RemoveAt(ring, n)
<1>1. n \in 1..Len(ring) /\ ring[n].group = g /\ ring[n] \in Group
  BY PlaceIs
<1>2. e \in Group /\ e.group = g /\ e.count = ring[n].count + 1
  <2> DEFINE old == ring[n]
  <2>1. old \in Group /\ old.group = g
    BY <1>1
  <2> HIDE DEF old
  <2> DEFINE more == [group |-> g, count |-> old.count + 1, first |-> old.first,
                      last |-> old.last]
             new  == [group |-> g, count |-> old.count + 1, first |-> old.first,
                      last |-> now]
  <2>2. [old EXCEPT !.count = @ + 1] = more
    BY <2>1 DEF Group
  <2>3. [more EXCEPT !.last = now] = new
    OBVIOUS
  <2>4. new \in Group /\ new.group = g /\ new.count = old.count + 1
    BY <2>1 DEF Group
  <2>5. e = [[old EXCEPT !.count = @ + 1] EXCEPT !.last = now]
    BY DEF old
  <2> QED
    BY <2>2, <2>3, <2>4, <2>5 DEF old
<1>3. /\ r \in Seq(Group) /\ Len(r) = Len(ring) - 1
      /\ \A i \in 1..Len(r) : r[i] = IF i < n THEN ring[i] ELSE ring[i + 1]
  <2> DEFINE a == SubSeq(ring, 1, n - 1)
             b == SubSeq(ring, n + 1, Len(ring))
  <2>1. a \in Seq(Group) /\ Len(a) = n - 1 /\ \A i \in 1..(n - 1) : a[i] = ring[i]
    BY <1>1
  <2>2. b \in Seq(Group) /\ Len(b) = Len(ring) - n
        /\ \A i \in 1..(Len(ring) - n) : b[i] = ring[n + i]
    BY <1>1
  <2>3. r = a \o b
    BY DEF RemoveAt
  <2> HIDE DEF a, b, r, n
  <2>4. r \in Seq(Group) /\ Len(r) = Len(a) + Len(b)
    BY <2>1, <2>2, <2>3, ConcatIs
  <2>5. \A i \in 1..Len(a) : r[i] = a[i]
    BY <2>1, <2>2, <2>3, ConcatIs
  <2>6. \A i \in Len(a) + 1..Len(a) + Len(b) : r[i] = b[i - Len(a)]
    BY <2>1, <2>2, <2>3, ConcatIs
  <2>7. Len(ring) \in Nat /\ Len(r) = Len(ring) - 1
    BY <1>1, <2>1, <2>2, <2>4
  <2>8. ASSUME NEW i \in 1..Len(r)
        PROVE  r[i] = IF i < n THEN ring[i] ELSE ring[i + 1]
    <3>1. CASE i < n
      BY <1>1, <2>1, <2>5, <2>7, <3>1
    <3>2. CASE ~(i < n)
      <4>1. /\ i \in Len(a) + 1..Len(a) + Len(b)
            /\ i - Len(a) \in 1..(Len(ring) - n) /\ n + (i - Len(a)) = i + 1
        BY <1>1, <2>1, <2>2, <2>7, <3>2
      <4>2. r[i] = b[i - Len(a)]
        BY <4>1, <2>6
      <4> QED
        BY <2>2, <4>1, <4>2, <3>2
    <3> QED
      BY <3>1, <3>2
  <2> QED
    BY <2>4, <2>7, <2>8
<1>4. SeenAgain(g, now) = Append(r, e)
  BY DEF SeenAgain
<1> HIDE DEF r, e, n
<1> QED
  BY <1>1, <1>2, <1>3, <1>4 DEF n

\* A new group comes to the end, and the first one leaves if there is no room.
LEMMA SeenFirstIs ==
    ASSUME ring \in Seq(Group), Len(ring) <= MaxGroups,
           NEW g \in Groups, NEW now \in 0..MaxClock
    PROVE  LET s == SeenFirst(g, now)
               full == Len(ring) = MaxGroups IN
           /\ s \in Seq(Group)
           /\ Len(s) = IF full THEN Len(ring) ELSE Len(ring) + 1
           /\ \A i \in 1..Len(s) :
                 /\ i < Len(s) => s[i] = IF full THEN ring[i + 1] ELSE ring[i]
                 /\ i = Len(s) => s[i].group = g /\ s[i].count = 1
<1> DEFINE e == [group |-> g, count |-> 1, first |-> now, last |-> now]
<1>1. e \in Group /\ e.group = g /\ e.count = 1
  BY DEF Group
<1>2. /\ Room \in Seq(Group)
      /\ Len(Room) = IF Len(ring) = MaxGroups THEN Len(ring) - 1 ELSE Len(ring)
      /\ \A i \in 1..Len(Room) :
            Room[i] = IF Len(ring) = MaxGroups THEN ring[i + 1] ELSE ring[i]
  <2>1. CASE Len(ring) = MaxGroups
    <3>1. ring # <<>> /\ Room = Tail(ring)
      BY <2>1, TelemetryAssumption DEF Room
    <3> QED
      BY <2>1, <3>1
  <2>2. CASE Len(ring) < MaxGroups
    BY <2>2, TelemetryAssumption DEF Room
  <2> QED
    BY <2>1, <2>2, TelemetryAssumption
<1>3. SeenFirst(g, now) = Append(Room, e)
  BY DEF SeenFirst
<1> HIDE DEF e
<1> QED
  BY <1>1, <1>2, <1>3, TelemetryAssumption

LEMMA RegroupedTyped ==
    ASSUME TypeOK, NEW g \in Groups, NEW now \in 0..MaxClock
    PROVE  Regrouped(g, now) \in Seq(Group) /\ Len(Regrouped(g, now)) <= MaxGroups
<1>1. CASE InRing(g)
  BY <1>1, SeenAgainIs DEF Regrouped, TypeOK
<1>2. CASE ~InRing(g)
  BY <1>2, SeenFirstIs, TelemetryAssumption DEF Regrouped, TypeOK
<1> QED
  BY <1>1, <1>2

LEMMA PreparedTyped ==
    ASSUME TypeOK, NEW e \in Errors, NEW by \in Requests \union {"collector"}
    PROVE  Prepared(e, by) \in Report
BY TelemetryAssumption DEF TypeOK, Prepared, Report

LEMMA RequestMoves ==
    ASSUME TypeOK, NEW r \in Requests, NEW ph \in {"handled", "reported", "answered"},
           NEW fd \in BOOLEAN, NEW rd \in BOOLEAN, Goes(r, ph, fd, rd)
    PROVE  /\ request' \in [Requests -> Request]
           /\ request'[r] = [phase |-> ph, api |-> request[r].api, failed |-> fd, raised |-> rd]
           /\ \A s \in Requests \ {r} : request'[s] = request[s]
<1> DEFINE n == [phase |-> ph, api |-> request[r].api, failed |-> fd, raised |-> rd]
<1>1. n \in Request
  BY DEF TypeOK, Request
<1>2. request' = [request EXCEPT ![r] = n]
  BY DEF Goes
<1> HIDE DEF n
<1>3. request' \in [Requests -> Request] /\ request'[r] = n
      /\ \A s \in Requests \ {r} : request'[s] = request[s]
  BY <1>1, <1>2 DEF TypeOK
<1> QED
  BY <1>3 DEF n

LEMMA InitTypes == Init => TypeOK
BY TelemetryAssumption DEF Init, TypeOK, Request, Report

LEMMA NextTypes == TypeOK /\ [Next]_vars => TypeOK'
<1> SUFFICES ASSUME TypeOK, [Next]_vars PROVE TypeOK'
  OBVIOUS
<1> USE TelemetryAssumption DEF TypeOK
<1>1. ASSUME NEW t \in Threads, Record(t) PROVE TypeOK'
  <2> DEFINE g == report[t].group
  <2>1. /\ report[t] \in Report /\ g \in Groups /\ report[t].now \in 0..MaxClock
        /\ report[t].by \in Requests \union {"collector"}
    BY <1>1 DEF Record, Report
  <2>2. ring' \in Seq(Group) /\ Len(ring') <= MaxGroups
    BY <1>1, <2>1, RegroupedTyped DEF Record
  <2>3. log' \in Seq([group : Groups, by : Requests \union {"collector"}])
    BY <1>1, <2>1 DEF Record
  <2>4. request' \in [Requests -> Request]
    <3>1. ASSUME NEW r \in Requests
          PROVE  [request[r] EXCEPT !.phase = "answered"] \in Request
      BY DEF Request
    <3> QED
      BY <1>1, <3>1 DEF Record
  <2>5. report' \in [Threads -> Report] /\ UNCHANGED <<clock, requestCount>>
    BY <1>1 DEF Record, Report
  <2>6. clientCount' \in Nat /\ errorCount' \in Nat
    BY <1>1 DEF Record, Counted
  <2> QED
    BY <2>2, <2>3, <2>4, <2>5, <2>6
<1>2. ASSUME NEW t \in Threads, NEW e \in Errors, DownloadFails(t, e) PROVE TypeOK'
  BY <1>2, PreparedTyped DEF DownloadFails
<1>3. ASSUME NEW r \in Requests, Arrive(r) PROVE TypeOK'
  <2>1. PICK api \in BOOLEAN :
          /\ request' = [request EXCEPT ![r] = [phase |-> "handled", api |-> api,
                                                failed |-> FALSE, raised |-> FALSE]]
          /\ requestCount' = requestCount + (IF api THEN 1 ELSE 0)
    BY <1>3 DEF Arrive
  <2>2. [phase |-> "handled", api |-> api, failed |-> FALSE, raised |-> FALSE] \in Request
    BY DEF Request
  <2>3. request' \in [Requests -> Request]
    BY <2>1, <2>2
  <2> QED
    BY <1>3, <2>1, <2>3 DEF Arrive
<1>4. ASSUME NEW r \in Requests, Succeeds(r) \/ Unhandled(r) PROVE TypeOK'
  <2>1. request' \in [Requests -> Request]
    BY <1>4, RequestMoves DEF Succeeds, Unhandled
  <2> QED
    BY <1>4, <2>1 DEF Succeeds, Unhandled
<1>5. ASSUME NEW r \in Requests, NEW e \in Errors, Rejected(r, e) PROVE TypeOK'
  <2>1. request' \in [Requests -> Request]
    <3>1. CASE IsRecorded(r, e)
      <4>1. Goes(r, "reported", TRUE, FALSE)
        BY <1>5, <3>1 DEF Rejected
      <4> QED
        BY <4>1, RequestMoves
    <3>2. CASE ~IsRecorded(r, e)
      <4>1. Goes(r, "answered", TRUE, FALSE)
        BY <1>5, <3>2 DEF Rejected
      <4> QED
        BY <4>1, RequestMoves
    <3> QED
      BY <3>1, <3>2
  <2>2. report' \in [Threads -> Report]
    <3>1. Prepared(e, r) \in Report
      BY PreparedTyped
    <3>2. report' = report \/ report' = [report EXCEPT !["loop"] = Prepared(e, r)]
      BY <1>5 DEF Rejected
    <3> QED
      BY <3>1, <3>2
  <2> QED
    BY <1>5, <2>1, <2>2 DEF Rejected
<1>6. CASE Tick
  BY <1>6 DEF Tick
<1>7. CASE UNCHANGED vars
  BY <1>7 DEF vars
<1> QED
  BY <1>1, <1>2, <1>3, <1>4, <1>5, <1>6, <1>7 DEF Next

\* The log, the ring and its limit, the requests and the reports have the types
\* that TypeOK says.
THEOREM TypeCorrect == Spec => []TypeOK
<1> QED
  BY InitTypes, NextTypes, PTL DEF Spec

-----------------------------------------------------------------------------
(* The last uses, and the order of the ring *)

LastUses == [g \in Groups |-> LastUse(g)]

\* The last use of a group is where the log names it last, 0 if it does not.
LastUsesKnown ==
    \A g \in Groups :
        /\ LastUses[g] \in 0..Len(log)
        /\ LastUses[g] # 0 => log[LastUses[g]].group = g
        /\ \A k \in 1..Len(log) : log[k].group = g => k <= LastUses[g]

RingInOrder ==
    /\ \A i \in 1..Len(ring) : LastUses[ring[i].group] > 0
    /\ \A i, j \in 1..Len(ring) :
          i < j => LastUses[ring[i].group] < LastUses[ring[j].group]

\* A group that has been reported and is not in the ring is older than all of it.
OnlyOldLeft ==
    \A g \in Groups : ~InRing(g) /\ LastUses[g] > 0 =>
        Len(ring) = MaxGroups /\ LastUses[g] < LastUses[ring[1].group]

RingInv == TypeOK /\ LastUsesKnown /\ RingInOrder /\ OnlyOldLeft

LEMMA MaxIs ==
    ASSUME NEW S \in SUBSET Nat, NEW m \in S, \A y \in S : y <= m
    PROVE  Max(S) = m
<1>1. \A x \in S : (\A y \in S : x >= y) <=> x = m
  OBVIOUS
<1> QED
  BY <1>1 DEF Max

\* A report makes its group the last one used and leaves the others' last uses.
LEMMA RecordUses ==
    ASSUME TypeOK, LastUsesKnown, NEW g \in Groups, NEW by,
           log' = Append(log, [group |-> g, by |-> by])
    PROVE  /\ LastUsesKnown' /\ Len(log') = Len(log) + 1
           /\ LastUses'[g] = Len(log) + 1
           /\ \A h \in Groups \ {g} : LastUses'[h] = LastUses[h]
<1>1. /\ Len(log) \in Nat /\ Len(log') = Len(log) + 1
      /\ \A k \in 1..Len(log) : log'[k] = log[k]
      /\ log'[Len(log) + 1].group = g
  BY DEF TypeOK
<1>2. \A h \in Groups \ {g} : Uses(h)' = Uses(h)
  BY <1>1 DEF Uses
<1>3. \A h \in Groups \ {g} : LastUse(h)' = LastUse(h)
  BY <1>2 DEF LastUse
<1>4. LastUse(g)' = Len(log) + 1
  <2> DEFINE S == Uses(g)' \union {0}
             m == Len(log) + 1
  <2>1. S \in SUBSET Nat /\ m \in S /\ \A y \in S : y <= m
    BY <1>1 DEF Uses
  <2>2. LastUse(g)' = Max(S)
    BY DEF LastUse
  <2> HIDE DEF S, m
  <2>3. LastUse(g)' = m
    BY <2>1, <2>2, MaxIs
  <2> QED
    BY <2>3 DEF m
<1>5. LastUses' = [h \in Groups |-> LastUse(h)']
  BY DEF LastUses
<1>6. LastUses'[g] = Len(log) + 1 /\ \A h \in Groups \ {g} : LastUses'[h] = LastUses[h]
  BY <1>3, <1>4, <1>5 DEF LastUses
<1>7. ASSUME NEW h \in Groups
      PROVE  /\ LastUses'[h] \in 0..Len(log')
             /\ LastUses'[h] # 0 => log'[LastUses'[h]].group = h
             /\ \A k \in 1..Len(log') : log'[k].group = h => k <= LastUses'[h]
  <2>1. CASE h = g
    BY <1>1, <1>6, <2>1
  <2>2. CASE h # g
    <3>1. LastUses'[h] = LastUses[h]
      BY <1>6, <2>2
    <3>2. /\ LastUses[h] \in 0..Len(log)
          /\ LastUses[h] # 0 => log[LastUses[h]].group = h
          /\ \A k \in 1..Len(log) : log[k].group = h => k <= LastUses[h]
      BY DEF LastUsesKnown
    <3> QED
      BY <1>1, <2>2, <3>1, <3>2
  <2> QED
    BY <2>1, <2>2
<1>8. LastUsesKnown'
  BY <1>7 DEF LastUsesKnown
<1> QED
  BY <1>1, <1>6, <1>8

\* Either way the ring loses the entry at one place d, or none if d is past its
\* end, and gains one for g at its end.
LEMMA RingMoves ==
    ASSUME TypeOK, NEW g \in Groups, NEW now \in 0..MaxClock,
           NEW s, s = Regrouped(g, now)
    PROVE  \E d \in 1..Len(ring) + 1 :
              /\ Len(s) = IF d <= Len(ring) THEN Len(ring) ELSE Len(ring) + 1
              /\ \A i \in 1..Len(s) :
                    /\ i < Len(s) => s[i] = IF i < d THEN ring[i] ELSE ring[i + 1]
                    /\ i = Len(s) => s[i].group = g
              /\ IF InRing(g) THEN d <= Len(ring) /\ ring[d].group = g
                              ELSE d <= Len(ring) <=> Len(ring) = MaxGroups
              /\ ~InRing(g) /\ d <= Len(ring) => d = 1
              /\ s[Len(s)].count = IF InRing(g) THEN ring[d].count + 1 ELSE 1
<1>1. ring \in Seq(Group) /\ Len(ring) \in Nat /\ Len(ring) <= MaxGroups
  BY DEF TypeOK
<1>2. CASE InRing(g)
  <2>1. /\ Len(s) = Len(ring)
        /\ \A i \in 1..Len(s) :
              /\ i < Place(g) => s[i] = ring[i]
              /\ i >= Place(g) /\ i < Len(s) => s[i] = ring[i + 1]
              /\ i = Len(s) => s[i].group = g /\ s[i].count = ring[Place(g)].count + 1
    BY <1>1, <1>2, SeenAgainIs DEF Regrouped
  <2>2. Place(g) \in 1..Len(ring) /\ ring[Place(g)].group = g
    BY <1>2, PlaceIs
  <2> DEFINE d == Place(g)
  <2> HIDE DEF d
  <2>3. /\ d \in 1..Len(ring) + 1 /\ d <= Len(ring) /\ ring[d].group = g
        /\ \A i \in 1..Len(s) :
              /\ i < Len(s) => s[i] = IF i < d THEN ring[i] ELSE ring[i + 1]
              /\ i = Len(s) => s[i].group = g
    BY <1>1, <2>1, <2>2 DEF d
  <2>4. Len(s) \in 1..Len(s) /\ s[Len(s)].count = ring[d].count + 1
    BY <1>1, <2>1, <2>2 DEF d
  <2> QED
    BY <1>2, <2>1, <2>3, <2>4
<1>3. CASE ~InRing(g)
  <2> DEFINE full == Len(ring) = MaxGroups
             d == IF full THEN 1 ELSE Len(ring) + 1
  <2>1. /\ Len(s) = IF full THEN Len(ring) ELSE Len(ring) + 1
        /\ \A i \in 1..Len(s) :
              /\ i < Len(s) => s[i] = IF full THEN ring[i + 1] ELSE ring[i]
              /\ i = Len(s) => s[i].group = g /\ s[i].count = 1
    BY <1>1, <1>3, SeenFirstIs DEF Regrouped
  <2>2. d \in 1..Len(ring) + 1 /\ (d <= Len(ring) <=> full) /\ (full => d = 1)
        /\ (~full => d = Len(ring) + 1)
    BY <1>1, TelemetryAssumption
  <2> HIDE DEF full, d
  <2>3. \A i \in 1..Len(s) :
           /\ i < Len(s) => s[i] = IF i < d THEN ring[i] ELSE ring[i + 1]
           /\ i = Len(s) => s[i].group = g
    BY <1>1, <2>1, <2>2
  <2>4. Len(s) = IF d <= Len(ring) THEN Len(ring) ELSE Len(ring) + 1
    BY <2>1, <2>2
  <2>5. Len(s) \in 1..Len(s) /\ s[Len(s)].count = 1
    <3>1. Len(s) \in Nat /\ Len(s) >= 1
      BY <1>1, <2>1, TelemetryAssumption DEF full
    <3> QED
      BY <2>1, <3>1
  <2> QED
    BY <1>3, <2>2, <2>3, <2>4, <2>5 DEF full
<1> QED
  BY <1>2, <1>3

LEMMA RecordKeepsOrder ==
    ASSUME RingInv, NEW t \in Threads, Record(t)
    PROVE  LastUsesKnown' /\ RingInOrder' /\ OnlyOldLeft'
<1>1. PICK g \in Groups, now \in 0..MaxClock, by \in Requests \union {"collector"} :
         report[t] = [group |-> g, now |-> now, by |-> by]
  BY DEF Record, Report, RingInv, TypeOK
<1> DEFINE top == Len(log) + 1
           n == Len(ring')
<1>2. LastUsesKnown' /\ LastUses'[g] = top /\ \A h \in Groups \ {g} : LastUses'[h] = LastUses[h]
  BY <1>1, RecordUses DEF Record, RingInv
<1>3. PICK d \in 1..Len(ring) + 1 :
        /\ Len(ring') = IF d <= Len(ring) THEN Len(ring) ELSE Len(ring) + 1
        /\ \A i \in 1..Len(ring') :
              /\ i < Len(ring') => ring'[i] = IF i < d THEN ring[i] ELSE ring[i + 1]
              /\ i = Len(ring') => ring'[i].group = g
        /\ IF InRing(g) THEN d <= Len(ring) /\ ring[d].group = g
                        ELSE d <= Len(ring) <=> Len(ring) = MaxGroups
        /\ ~InRing(g) /\ d <= Len(ring) => d = 1
  BY <1>1, RingMoves DEF Record, RingInv
<1>4. /\ ring \in Seq(Group) /\ Len(ring) \in Nat /\ Len(ring) <= MaxGroups /\ Len(log) \in Nat
      /\ \A i \in 1..Len(ring) : ring[i].group \in Groups
  <2>1. ring \in Seq(Group) /\ Len(ring) \in Nat /\ Len(ring) <= MaxGroups /\ Len(log) \in Nat
    BY DEF RingInv, TypeOK
  <2>2. \A i \in 1..Len(ring) : ring[i] \in Group
    BY <2>1
  <2> QED
    BY <2>1, <2>2 DEF Group
<1>5. \A h \in Groups : LastUses[h] \in Nat /\ LastUses[h] < top
  BY <1>4 DEF RingInv, LastUsesKnown
<1>6. /\ \A i \in 1..Len(ring) : LastUses[ring[i].group] > 0
      /\ \A i, j \in 1..Len(ring) :
            i < j => LastUses[ring[i].group] < LastUses[ring[j].group]
  BY DEF RingInv, RingInOrder
<1> DEFINE at(i) == IF i < d THEN i ELSE i + 1
\* All entries but the last stand for entries of the ring before, none of g.
<1>7. ASSUME NEW i \in 1..n, i < n
      PROVE  /\ at(i) \in 1..Len(ring) /\ at(i) # d
             /\ ring'[i] = ring[at(i)] /\ ring[at(i)].group # g
             /\ LastUses'[ring'[i].group] = LastUses[ring[at(i)].group]
  <2>1. at(i) \in 1..Len(ring) /\ at(i) # d /\ ring'[i] = ring[at(i)]
    BY <1>3, <1>4, <1>7
  <2>2. ring[at(i)].group # g
    <3>1. SUFFICES ASSUME ring[at(i)].group = g PROVE FALSE
      OBVIOUS
    <3>2. d \in 1..Len(ring) /\ ring[d].group = g
      BY <1>3, <2>1, <3>1 DEF InRing
    <3> HIDE DEF at
    <3>3. at(i) < d \/ d < at(i)
      BY <2>1, <3>2, <1>4
    <3>4. LastUses[g] < LastUses[g]
      BY <1>6, <2>1, <3>1, <3>2, <3>3
    <3> QED
      BY <1>4, <1>5, <3>4
  <2> HIDE DEF at
  <2>3. ring[at(i)].group \in Groups \ {g}
    BY <1>4, <2>1, <2>2
  <2> QED
    BY <1>2, <2>1, <2>2, <2>3
<1>8. n \in Nat /\ n >= 1 /\ n <= Len(ring) + 1 /\ ring'[n].group = g
      /\ LastUses'[ring'[n].group] = top
  <2>1. n \in Nat /\ n >= 1 /\ n <= Len(ring) + 1
    BY <1>3, <1>4
  <2>2. ring'[n].group = g
    BY <1>3, <2>1
  <2> QED
    BY <1>2, <2>1, <2>2
<1>9. RingInOrder'
  <2>1. ASSUME NEW i \in 1..n PROVE LastUses'[ring'[i].group] > 0
    <3>1. CASE i < n
      BY <1>6, <1>7, <3>1
    <3>2. CASE i = n
      BY <1>4, <1>8, <3>2
    <3> QED
      BY <1>8, <3>1, <3>2
  <2>2. ASSUME NEW i \in 1..n, NEW j \in 1..n, i < j
        PROVE  LastUses'[ring'[i].group] < LastUses'[ring'[j].group]
    <3>1. i < n
      BY <1>8, <2>2
    <3>2. CASE j < n
      <4>1. at(i) < at(j)
        BY <1>8, <2>2
      <4>2. /\ at(i) \in 1..Len(ring) /\ LastUses'[ring'[i].group] = LastUses[ring[at(i)].group]
            /\ at(j) \in 1..Len(ring) /\ LastUses'[ring'[j].group] = LastUses[ring[at(j)].group]
        BY <1>7, <3>1, <3>2
      <4> HIDE DEF at
      <4> QED
        BY <1>6, <4>1, <4>2
    <3>3. CASE j = n
      <4>1. LastUses'[ring'[i].group] < top
        BY <1>4, <1>5, <1>7, <3>1
      <4> QED
        BY <1>8, <3>3, <4>1
    <3> QED
      BY <1>8, <3>2, <3>3
  <2> QED
    BY <2>1, <2>2 DEF RingInOrder
<1>10. OnlyOldLeft'
  <2> SUFFICES ASSUME NEW h \in Groups, ~InRing(h)', LastUses'[h] > 0
               PROVE  Len(ring') = MaxGroups /\ LastUses'[h] < LastUses'[ring'[1].group]
    BY DEF OnlyOldLeft
  <2>1. \A i \in 1..n : ring'[i].group # h
    BY DEF InRing
  <2>2. h # g /\ LastUses'[h] = LastUses[h] /\ LastUses[h] > 0
    BY <1>2, <1>8, <2>1
  \* h left the ring now, from its front, or it had left before.
  <2>3. CASE InRing(h)
    <3>1. PICK k \in 1..Len(ring) : ring[k].group = h
      BY <2>3 DEF InRing
    <3>2. k = d
      <4>1. SUFFICES ASSUME k # d PROVE FALSE
        OBVIOUS
      <4> DEFINE i == IF k < d THEN k ELSE k - 1
      <4>2. i \in 1..n /\ i < n /\ at(i) = k
        BY <1>3, <1>4, <1>8, <4>1
      <4> QED
        BY <1>7, <2>1, <3>1, <4>2
    <3>3. ~InRing(g) /\ d = 1 /\ Len(ring) = MaxGroups /\ n = Len(ring)
      BY <1>3, <2>2, <3>1, <3>2
    <3>4. CASE n = 1
      BY <1>5, <1>8, <2>2, <3>3, <3>4
    <3>5. CASE n > 1
      <4>1. LastUses'[ring'[1].group] = LastUses[ring[2].group] /\ 2 \in 1..Len(ring)
        BY <1>7, <1>8, <3>3, <3>5
      <4>2. LastUses[ring[1].group] < LastUses[ring[2].group]
        BY <1>6, <4>1
      <4> QED
        BY <2>2, <3>1, <3>2, <3>3, <4>1, <4>2
    <3>6. n = 1 \/ n > 1
      <4>1. n \in Nat /\ n >= 1
        BY <1>8
      <4> HIDE DEF n
      <4> QED
        BY <4>1
    <3> QED
      BY <3>4, <3>5, <3>6
  <2>4. CASE ~InRing(h)
    <3>1. Len(ring) = MaxGroups /\ LastUses[h] < LastUses[ring[1].group]
      BY <2>2, <2>4 DEF RingInv, OnlyOldLeft
    <3>2. n = Len(ring)
      BY <1>3, <3>1
    <3>3. CASE n = 1
      BY <1>5, <1>8, <2>2, <3>1, <3>2, <3>3
    <3>4. CASE n > 1
      <4>1. /\ LastUses'[ring'[1].group] = LastUses[ring[at(1)].group]
            /\ at(1) \in 1..Len(ring) /\ at(1) \in {1, 2} /\ 1 \in 1..Len(ring)
        BY <1>3, <1>7, <1>8, <3>4
      <4> HIDE DEF at
      <4>2. LastUses[ring[1].group] <= LastUses[ring[at(1)].group]
        BY <1>4, <1>5, <1>6, <4>1
      <4>3. /\ LastUses[ring[1].group] \in Nat /\ LastUses[ring[at(1)].group] \in Nat
            /\ LastUses[h] \in Nat
        BY <1>4, <1>5, <4>1
      <4> QED
        BY <2>2, <3>1, <3>2, <4>1, <4>2, <4>3
    <3>5. n = 1 \/ n > 1
      <4>1. n \in Nat /\ n >= 1
        BY <1>8
      <4> HIDE DEF n
      <4> QED
        BY <4>1
    <3> QED
      BY <3>3, <3>4, <3>5
  <2> QED
    BY <2>3, <2>4
<1> QED
  BY <1>2, <1>9, <1>10

LEMMA InitRing == Init => RingInv
<1> SUFFICES ASSUME Init PROVE RingInv
  OBVIOUS
<1>1. TypeOK
  BY InitTypes
<1>2. ASSUME NEW g PROVE LastUse(g) = 0
  <2> DEFINE S == Uses(g) \union {0}
  <2>1. S \in SUBSET Nat /\ 0 \in S /\ \A y \in S : y <= 0
    BY DEF Init, Uses
  <2>2. LastUse(g) = Max(S)
    BY DEF LastUse
  <2> HIDE DEF S
  <2> QED
    BY <2>1, <2>2, MaxIs
<1>3. \A g \in Groups : LastUses[g] = 0
  BY <1>2 DEF LastUses
<1> QED
  BY <1>1, <1>3 DEF Init, RingInv, LastUsesKnown, RingInOrder, OnlyOldLeft

LEMMA NextRing == RingInv /\ [Next]_vars => RingInv'
<1> SUFFICES ASSUME RingInv, [Next]_vars PROVE RingInv'
  OBVIOUS
<1>1. TypeOK'
  BY NextTypes DEF RingInv
<1>2. ASSUME NEW t \in Threads, Record(t) PROVE RingInv'
  BY <1>1, <1>2, RecordKeepsOrder DEF RingInv
<1>3. CASE UNCHANGED <<ring, log>>
  BY <1>1, <1>3
     DEF RingInv, LastUsesKnown, RingInOrder, OnlyOldLeft, InRing, LastUses, LastUse, Uses
<1> QED
  BY <1>2, <1>3 DEF Next, vars, DownloadFails, Arrive, Succeeds, Unhandled, Rejected, Tick

\* The groups reported after the last use of g are those that were last used
\* after it.
LEMMA BetweenIs ==
    ASSUME TypeOK, LastUsesKnown, NEW g \in Groups
    PROVE  /\ Between(LastUses[g], Len(log)) = {h \in Groups : LastUses[h] > LastUses[g]}
           /\ IsFiniteSet(Between(LastUses[g], Len(log)))
<1>1. /\ Len(log) \in Nat /\ \A k \in 1..Len(log) : log[k].group \in Groups
      /\ \A h \in Groups : LastUses[h] \in 0..Len(log)
  <2> DEFINE Entry == [group : Groups, by : Requests \union {"collector"}]
  <2>1. log \in Seq(Entry)
    BY DEF TypeOK
  <2> HIDE DEF Entry
  <2>2. Len(log) \in Nat /\ \A k \in 1..Len(log) : log[k] \in Entry
    BY <2>1
  <2> USE DEF Entry
  <2>3. \A k \in 1..Len(log) : log[k].group \in Groups
    BY <2>2
  <2> QED
    BY <2>2, <2>3 DEF LastUsesKnown
<1> DEFINE I == LastUses[g] + 1..Len(log)
           B == Between(LastUses[g], Len(log))
           f == [k \in I |-> log[k].group]
<1>2. B = {h \in Groups : LastUses[h] > LastUses[g]}
  <2>1. ASSUME NEW k \in I PROVE log[k].group \in Groups /\ LastUses[log[k].group] > LastUses[g]
    <3>1. k \in 1..Len(log) /\ k > LastUses[g]
      BY <1>1
    <3>2. log[k].group \in Groups /\ k <= LastUses[log[k].group]
      BY <1>1, <3>1 DEF LastUsesKnown
    <3> QED
      BY <1>1, <3>1, <3>2
  <2>2. ASSUME NEW h \in Groups, LastUses[h] > LastUses[g]
        PROVE  LastUses[h] \in I /\ log[LastUses[h]].group = h
    BY <1>1, <2>2 DEF LastUsesKnown
  <2> QED
    BY <2>1, <2>2 DEF Between
<1>3. IsFiniteSet(B)
  <2>1. B = {log[k].group : k \in I}
    BY DEF Between
  <2>2. f \in [I -> B] /\ \A h \in B : \E k \in I : f[k] = h
    BY <2>1
  <2>3. IsFiniteSet(I)
    <3>1. LastUses[g] + 1 \in Int /\ Len(log) \in Int
      BY <1>1
    <3> QED
      BY <3>1, FS_Interval
  <2> HIDE DEF I, B, f
  <2> QED
    BY <2>2, <2>3, FS_Surjection DEF Surjection
<1> QED
  BY <1>2, <1>3

\* No more groups were reported after that of place i than stand behind it.
LEMMA FewAfterRing ==
    ASSUME RingInv, NEW i \in 1..Len(ring)
    PROVE  Cardinality(Between(LastUses[ring[i].group], Len(log))) < MaxGroups
<1>1. /\ Len(ring) \in Nat /\ Len(ring) <= MaxGroups /\ MaxGroups \in Nat
      /\ \A j \in 1..Len(ring) : ring[j].group \in Groups
  <2>1. ring \in Seq(Group) /\ Len(ring) \in Nat /\ Len(ring) <= MaxGroups
    BY DEF RingInv, TypeOK
  <2>2. \A j \in 1..Len(ring) : ring[j] \in Group
    BY <2>1
  <2> QED
    BY <2>1, <2>2, TelemetryAssumption DEF Group
<1> DEFINE g == ring[i].group
           I == i + 1..Len(ring)
           T == {ring[j].group : j \in I}
           f == [j \in I |-> ring[j].group]
           B == Between(LastUses[g], Len(log))
<1>2. IsFiniteSet(I) /\ Cardinality(I) < MaxGroups
  <2> DEFINE a == i + 1
             b == Len(ring)
  <2>1. a \in Int /\ b \in Int /\ 0 < MaxGroups /\ b - a + 1 < MaxGroups
    BY <1>1, TelemetryAssumption
  <2> HIDE DEF a, b
  <2>2. IsFiniteSet(a..b) /\ Cardinality(a..b) < MaxGroups
    BY <2>1, FS_Interval
  <2> QED
    BY <2>2 DEF a, b
<1>3. B = {h \in Groups : LastUses[h] > LastUses[g]} /\ IsFiniteSet(B)
  BY <1>1, BetweenIs DEF RingInv
<1>4. \A h \in Groups : LastUses[h] \in Nat
  BY DEF RingInv, LastUsesKnown, TypeOK
<1>5. ASSUME NEW h \in Groups, LastUses[h] > LastUses[g] PROVE h \in T
  <2>1. LastUses[ring[1].group] <= LastUses[g] /\ 1 \in 1..Len(ring)
    BY <1>1, <1>4 DEF RingInv, RingInOrder
  <2>2. InRing(h)
    <3>1. SUFFICES ASSUME ~InRing(h) PROVE FALSE
      OBVIOUS
    <3>2. LastUses[h] > 0
      BY <1>1, <1>4, <1>5
    <3>3. LastUses[h] < LastUses[ring[1].group]
      BY <3>1, <3>2 DEF RingInv, OnlyOldLeft
    <3> QED
      BY <1>1, <1>4, <1>5, <2>1, <3>3
  <2>3. PICK j \in 1..Len(ring) : ring[j].group = h
    BY <2>2 DEF InRing
  <2>4. j > i
    <3>1. SUFFICES ASSUME j <= i PROVE FALSE
      BY <1>1
    <3>2. LastUses[h] <= LastUses[g]
      BY <1>1, <1>4, <2>3, <3>1 DEF RingInv, RingInOrder
    <3> QED
      BY <1>1, <1>4, <1>5, <3>2
  <2> QED
    BY <1>1, <2>3, <2>4
<1>6. f \in Surjection(I, T)
  BY DEF Surjection
<1>7. B \in SUBSET T
  BY <1>3, <1>5
<1> HIDE DEF g, I, T, f, B
<1>8. IsFiniteSet(T) /\ Cardinality(T) <= Cardinality(I)
  BY <1>2, <1>6, FS_Surjection
<1>9. Cardinality(B) <= Cardinality(T)
  BY <1>7, <1>8, FS_Subset
<1>10. Cardinality(B) \in Nat /\ Cardinality(T) \in Nat /\ Cardinality(I) \in Nat
  BY <1>2, <1>3, <1>8, FS_CardinalityType
<1> QED
  BY <1>1, <1>2, <1>8, <1>9, <1>10 DEF B, g

\* All groups of the full ring were reported after one that has left it.
LEMMA ManyAfterLeft ==
    ASSUME RingInv, NEW g \in Groups, ~InRing(g), LastUses[g] > 0
    PROVE  Cardinality(Between(LastUses[g], Len(log))) >= MaxGroups
<1>1. /\ Len(ring) = MaxGroups /\ MaxGroups \in Nat \ {0}
      /\ \A j \in 1..MaxGroups : ring[j].group \in Groups
  <2>1. ring \in Seq(Group) /\ Len(ring) = MaxGroups
    BY DEF RingInv, TypeOK, OnlyOldLeft
  <2>2. \A j \in 1..Len(ring) : ring[j] \in Group
    BY <2>1
  <2> QED
    BY <2>1, <2>2, TelemetryAssumption DEF Group
<1> DEFINE I == 1..MaxGroups
           f == [j \in I |-> ring[j].group]
           B == Between(LastUses[g], Len(log))
<1>2. IsFiniteSet(I) /\ Cardinality(I) = MaxGroups
  BY <1>1, FS_Interval
<1>3. B = {h \in Groups : LastUses[h] > LastUses[g]} /\ IsFiniteSet(B)
  BY BetweenIs DEF RingInv
<1>4. \A h \in Groups : LastUses[h] \in Nat
  BY DEF RingInv, LastUsesKnown, TypeOK
<1>5. \A i, j \in I : i < j => LastUses[ring[i].group] < LastUses[ring[j].group]
  BY <1>1 DEF RingInv, RingInOrder
<1>6. ASSUME NEW j \in I PROVE ring[j].group \in B
  <2>1. LastUses[g] < LastUses[ring[1].group]
    BY DEF RingInv, OnlyOldLeft
  <2>2. 1 \in I /\ (j = 1 \/ 1 < j)
    BY <1>1
  <2>3. LastUses[ring[1].group] <= LastUses[ring[j].group]
    BY <1>1, <1>4, <1>5, <2>2
  <2>4. LastUses[ring[j].group] > LastUses[g]
    BY <1>1, <1>4, <2>1, <2>2, <2>3
  <2> HIDE DEF B
  <2> QED
    BY <1>1, <1>3, <2>4
<1>7. ASSUME NEW i \in I, NEW j \in I, ring[i].group = ring[j].group PROVE i = j
  <2>1. LastUses[ring[i].group] \in Nat /\ LastUses[ring[j].group] = LastUses[ring[i].group]
    BY <1>1, <1>4, <1>7
  <2>2. ~(i < j) /\ ~(j < i)
    BY <1>5, <2>1
  <2> QED
    BY <1>1, <2>2
<1>8. f \in Injection(I, B)
  <2>1. f \in [I -> B]
    BY <1>6
  <2>2. IsInjective(f)
    BY <1>7 DEF IsInjective
  <2> HIDE DEF f, I, B
  <2> QED
    BY <2>1, <2>2 DEF Injection
<1> HIDE DEF f, I, B
<1>9. Cardinality(I) <= Cardinality(B)
  BY <1>3, <1>8, FS_Injection
<1>10. Cardinality(B) \in Nat
  BY <1>3, FS_CardinalityType
<1> QED
  BY <1>1, <1>2, <1>9, <1>10 DEF B

LEMMA RingSuffices == RingInv => RingIsMostRecent
<1> SUFFICES ASSUME RingInv PROVE RingIsMostRecent
  OBVIOUS
<1>1. \A g \in Groups : LastUses[g] = LastUse(g) /\ LastUses[g] \in Nat
  BY DEF LastUses, RingInv, LastUsesKnown, TypeOK
<1>2. \A i \in 1..Len(ring) : ring[i].group \in Groups
  <2>1. ring \in Seq(Group)
    BY DEF RingInv, TypeOK
  <2>2. \A i \in 1..Len(ring) : ring[i] \in Group
    BY <2>1
  <2> QED
    BY <2>2 DEF Group
<1>3. ASSUME NEW g \in Groups, InRing(g)
      PROVE  LastUses[g] # 0 /\ Cardinality(Between(LastUses[g], Len(log))) < MaxGroups
  <2>1. PICK i \in 1..Len(ring) : ring[i].group = g
    BY <1>3 DEF InRing
  <2>2. LastUses[g] > 0
    BY <2>1 DEF RingInv, RingInOrder
  <2>3. Cardinality(Between(LastUses[ring[i].group], Len(log))) < MaxGroups
    BY FewAfterRing
  <2> QED
    BY <1>1, <2>1, <2>2, <2>3
<1>4. ASSUME NEW g \in Groups, ~InRing(g), LastUses[g] # 0
      PROVE  ~(Cardinality(Between(LastUses[g], Len(log))) < MaxGroups)
  <2> DEFINE c == Cardinality(Between(LastUses[g], Len(log)))
  <2>1. LastUses[g] > 0
    BY <1>1, <1>4
  <2>2. c >= MaxGroups
    BY <1>4, <2>1, ManyAfterLeft
  <2>3. c \in Nat /\ MaxGroups \in Nat
    BY BetweenIs, FS_CardinalityType, TelemetryAssumption DEF RingInv
  <2> HIDE DEF c
  <2>4. ~(c < MaxGroups)
    BY <2>2, <2>3
  <2> QED
    BY <2>4 DEF c
<1>5. \A g \in Groups :
        InRing(g) <=> LastUse(g) # 0 /\ Cardinality(Between(LastUse(g), Len(log))) < MaxGroups
  BY <1>1, <1>3, <1>4
<1>6. \A i, j \in 1..Len(ring) :
        i < j => LastUse(ring[i].group) < LastUse(ring[j].group)
  BY <1>1, <1>2 DEF RingInv, RingInOrder
<1> QED
  BY <1>5, <1>6 DEF RingIsMostRecent

\* The ring holds exactly the groups after whose last report fewer than
\* MaxGroups others came, in the order of their last reports, whatever order
\* requests and collectors report in.
THEOREM RingKeepsMostRecent == Spec => []RingIsMostRecent
<1> QED
  BY InitRing, NextRing, RingSuffices, PTL DEF Spec

-----------------------------------------------------------------------------
(* The counts *)

\* The places of g in a log L, what was reported after place i and up to place
\* j, and whether g is reported at k and m and not in between.
UsesIn(L, g)      == {i \in 1..Len(L) : L[i].group = g}
BetweenIn(L, i, j) == {L[k].group : k \in i + 1..j}
Consecutive(L, g, k, m) ==
    /\ k \in UsesIn(L, g) /\ m \in UsesIn(L, g) /\ k < m
    /\ \A j \in UsesIn(L, g) : j <= k \/ m <= j

\* The reports of g that its entry has counted: those since the last two between
\* which so many other groups came that it was thrown out.
RunIn(L, g) ==
    {i \in UsesIn(L, g) :
        \A k, m \in UsesIn(L, g) : i <= k /\ Consecutive(L, g, k, m) =>
            Cardinality(BetweenIn(L, k, m - 1)) < MaxGroups}

CountsOfRuns ==
    \A n \in 1..Len(ring) : ring[n].count = Cardinality(RunIn(log, ring[n].group))

CountInv == RingInv /\ CountsOfRuns

\* One more report leaves what was between two of the older ones.
LEMMA BetweenStays ==
    ASSUME NEW L, Len(L) \in Nat, NEW M, Len(M) = Len(L) + 1,
           \A i \in 1..Len(L) : M[i] = L[i],
           NEW k \in Nat, NEW j \in 0..Len(L)
    PROVE  BetweenIn(M, k, j) = BetweenIn(L, k, j)
<1>1. \A i \in k + 1..j : M[i] = L[i]
  OBVIOUS
<1> QED
  BY <1>1 DEF BetweenIn

\* A report leaves the runs of the other groups.
LEMMA RunStays ==
    ASSUME NEW L, Len(L) \in Nat, NEW M, Len(M) = Len(L) + 1,
           \A i \in 1..Len(L) : M[i] = L[i],
           NEW h, M[Len(M)].group # h
    PROVE  RunIn(M, h) = RunIn(L, h)
<1>1. UsesIn(M, h) = UsesIn(L, h)
  BY DEF UsesIn
<1>2. \A k, m : Consecutive(M, h, k, m) <=> Consecutive(L, h, k, m)
  BY <1>1 DEF Consecutive
<1>3. \A k, m \in UsesIn(L, h) : BetweenIn(M, k, m - 1) = BetweenIn(L, k, m - 1)
  <2>1. \A k, m \in UsesIn(L, h) : k \in Nat /\ m - 1 \in 0..Len(L)
    BY DEF UsesIn
  <2> QED
    BY <2>1, BetweenStays
<1> QED
  BY <1>1, <1>2, <1>3 DEF RunIn

\* A report of g goes on with its run, if it has one and few groups came since
\* its last report, which is at place u of the log, and begins one if not.
LEMMA RunMoves ==
    ASSUME NEW L, Len(L) \in Nat, NEW M, Len(M) = Len(L) + 1,
           \A i \in 1..Len(L) : M[i] = L[i],
           NEW g, M[Len(M)].group = g,
           NEW u \in 0..Len(L), u # 0 => u \in UsesIn(L, g),
           \A i \in UsesIn(L, g) : i <= u
    PROVE  RunIn(M, g) =
               IF u # 0 /\ Cardinality(BetweenIn(L, u, Len(L))) < MaxGroups
               THEN RunIn(L, g) \union {Len(M)} ELSE {Len(M)}
<1> DEFINE top == Len(L) + 1
           few == Cardinality(BetweenIn(L, u, Len(L))) < MaxGroups
<1>1. /\ UsesIn(M, g) = UsesIn(L, g) \union {top} /\ top \notin UsesIn(L, g)
      /\ top \in Nat /\ \A i \in UsesIn(L, g) : i \in Nat /\ i < top
  BY DEF UsesIn
<1>2. \A k, m \in UsesIn(L, g) : Consecutive(M, g, k, m) <=> Consecutive(L, g, k, m)
  BY <1>1 DEF Consecutive
<1>3. \A k, m \in UsesIn(L, g) : BetweenIn(M, k, m - 1) = BetweenIn(L, k, m - 1)
  <2>1. \A k, m \in UsesIn(L, g) : k \in Nat /\ m - 1 \in 0..Len(L)
    BY DEF UsesIn
  <2> QED
    BY <2>1, BetweenStays
<1>4. BetweenIn(M, u, top - 1) = BetweenIn(L, u, Len(L))
  <2>1. u \in Nat /\ top - 1 = Len(L) /\ Len(L) \in 0..Len(L)
    OBVIOUS
  <2> QED
    BY <2>1, BetweenStays
\* The only new pair of neighbours is that of u and the new report.
<1>5. \A k \in UsesIn(L, g) : Consecutive(M, g, k, top) <=> k = u
  BY <1>1 DEF Consecutive
<1>6. top \in RunIn(M, g)
  BY <1>1 DEF RunIn, Consecutive
<1> HIDE DEF top, few
<1>7. CASE u # 0 /\ few
  <2>1. ASSUME NEW i \in UsesIn(L, g) PROVE i \in RunIn(M, g) <=> i \in RunIn(L, g)
    <3>1. ASSUME i \in RunIn(M, g) PROVE i \in RunIn(L, g)
      BY <1>1, <1>2, <1>3, <3>1 DEF RunIn
    <3>2. ASSUME i \in RunIn(L, g),
                 NEW k \in UsesIn(M, g), NEW m \in UsesIn(M, g), i <= k, Consecutive(M, g, k, m)
          PROVE  Cardinality(BetweenIn(M, k, m - 1)) < MaxGroups
      <4>1. k # top
        BY <1>1, <3>2 DEF Consecutive
      <4>2. CASE m = top
        <5>1. k = u
          BY <1>1, <1>5, <3>2, <4>1, <4>2
        <5> QED
          BY <1>4, <1>7, <4>2, <5>1 DEF few
      <4>3. CASE m # top
        BY <1>1, <1>2, <1>3, <3>2, <4>1, <4>3 DEF RunIn
      <4> QED
        BY <4>2, <4>3
    <3> QED
      BY <1>1, <3>1, <3>2 DEF RunIn
  <2>2. RunIn(M, g) \subseteq UsesIn(M, g) /\ RunIn(L, g) \subseteq UsesIn(L, g)
    BY DEF RunIn
  <2>3. RunIn(M, g) = RunIn(L, g) \union {top}
    BY <1>1, <1>6, <2>1, <2>2
  <2> QED
    BY <1>7, <2>3 DEF top, few
<1>8. CASE ~(u # 0 /\ few)
  <2>1. ASSUME NEW i \in UsesIn(L, g) PROVE i \notin RunIn(M, g)
    <3>1. i <= u /\ u \in UsesIn(L, g) /\ ~few
      BY <1>1, <1>8, <2>1 DEF UsesIn
    <3>2. u \in UsesIn(M, g) /\ top \in UsesIn(M, g) /\ Consecutive(M, g, u, top)
      BY <1>1, <1>5, <3>1
    <3>3. ~(Cardinality(BetweenIn(M, u, top - 1)) < MaxGroups)
      BY <1>4, <3>1 DEF few
    <3> QED
      BY <3>1, <3>2, <3>3 DEF RunIn
  <2>2. RunIn(M, g) \subseteq UsesIn(M, g)
    BY DEF RunIn
  <2>3. RunIn(M, g) = {top}
    BY <1>1, <1>6, <2>1, <2>2
  <2> QED
    BY <1>8, <2>3 DEF top, few
<1> QED
  BY <1>7, <1>8

\* The count of a run is that of a set of places.
LEMMA RunFinite ==
    ASSUME NEW L, Len(L) \in Nat, NEW g
    PROVE  IsFiniteSet(RunIn(L, g)) /\ Cardinality(RunIn(L, g)) \in Nat
           /\ Len(L) + 1 \notin RunIn(L, g)
<1>1. RunIn(L, g) \in SUBSET (1..Len(L))
  BY DEF RunIn, UsesIn
<1>2. IsFiniteSet(1..Len(L))
  BY FS_Interval
<1>3. IsFiniteSet(RunIn(L, g))
  BY <1>1, <1>2, FS_Subset
<1> QED
  BY <1>1, <1>3, FS_CardinalityType

\* What the ring counts for g before it is reported once more, and after.
LEMMA RunCounts ==
    ASSUME RingInv, NEW g \in Groups, NEW by,
           log' = Append(log, [group |-> g, by |-> by])
    PROVE  /\ Cardinality(RunIn(log', g)) =
                 IF InRing(g) THEN Cardinality(RunIn(log, g)) + 1 ELSE 1
           /\ \A h \in Groups \ {g} : RunIn(log', h) = RunIn(log, h)
<1>1. /\ Len(log) \in Nat /\ Len(log') = Len(log) + 1
      /\ \A i \in 1..Len(log) : log'[i] = log[i]
      /\ log'[Len(log')].group = g
  BY DEF RingInv, TypeOK
<1> DEFINE L == log
           M == log'
           u == LastUses[g]
<1>2. u \in 0..Len(L) /\ (u # 0 => u \in UsesIn(L, g)) /\ \A i \in UsesIn(L, g) : i <= u
  BY <1>1 DEF RingInv, LastUsesKnown, UsesIn
<1>3. u # 0 /\ Cardinality(BetweenIn(L, u, Len(L))) < MaxGroups <=> InRing(g)
  <2>1. BetweenIn(L, u, Len(L)) = Between(LastUses[g], Len(log))
    BY DEF BetweenIn, Between
  <2>2. LastUse(g) = LastUses[g] /\ RingIsMostRecent
    BY RingSuffices DEF LastUses
  <2> QED
    BY <2>1, <2>2 DEF RingIsMostRecent
<1>4. /\ Len(L) \in Nat /\ Len(M) = Len(L) + 1 /\ M[Len(M)].group = g
      /\ \A i \in 1..Len(L) : M[i] = L[i]
  BY <1>1
<1> HIDE DEF L, M, u
<1>5. RunIn(M, g) = IF InRing(g) THEN RunIn(L, g) \union {Len(M)} ELSE {Len(M)}
  BY <1>2, <1>3, <1>4, RunMoves
<1>6. \A h \in Groups \ {g} : RunIn(M, h) = RunIn(L, h)
  BY <1>4, RunStays
<1>7. Cardinality(RunIn(M, g)) = IF InRing(g) THEN Cardinality(RunIn(L, g)) + 1 ELSE 1
  <2>1. CASE InRing(g)
    <3>1. RunIn(M, g) = RunIn(L, g) \union {Len(M)}
      BY <1>5, <2>1
    <3>2. IsFiniteSet(RunIn(L, g)) /\ Len(M) \notin RunIn(L, g)
      BY <1>4, RunFinite
    <3> QED
      BY <2>1, <3>1, <3>2, FS_AddElement
  <2>2. CASE ~InRing(g)
    BY <1>5, <2>2, FS_Singleton
  <2> QED
    BY <2>1, <2>2
<1> QED
  BY <1>6, <1>7 DEF L, M

LEMMA RecordKeepsCounts ==
    ASSUME CountInv, NEW t \in Threads, Record(t)
    PROVE  CountsOfRuns'
<1>1. PICK g \in Groups, now \in 0..MaxClock, by \in Requests \union {"collector"} :
         report[t] = [group |-> g, now |-> now, by |-> by]
  BY DEF Record, Report, CountInv, RingInv, TypeOK
<1>2. ring' = Regrouped(g, now) /\ log' = Append(log, [group |-> g, by |-> by])
  BY <1>1 DEF Record
<1>3. PICK d \in 1..Len(ring) + 1 :
        /\ Len(ring') = IF d <= Len(ring) THEN Len(ring) ELSE Len(ring) + 1
        /\ \A i \in 1..Len(ring') :
              /\ i < Len(ring') => ring'[i] = IF i < d THEN ring[i] ELSE ring[i + 1]
              /\ i = Len(ring') => ring'[i].group = g
        /\ IF InRing(g) THEN d <= Len(ring) /\ ring[d].group = g
                        ELSE d <= Len(ring) <=> Len(ring) = MaxGroups
        /\ ring'[Len(ring')].count = IF InRing(g) THEN ring[d].count + 1 ELSE 1
  BY <1>2, RingMoves DEF CountInv, RingInv
<1>4. /\ Len(ring) \in Nat /\ \A i \in 1..Len(ring) : ring[i].group \in Groups
      /\ \A i, j \in 1..Len(ring) : ring[i].group = ring[j].group => i = j
  <2>1. ring \in Seq(Group) /\ Len(ring) \in Nat
    BY DEF CountInv, RingInv, TypeOK
  <2>2. \A i \in 1..Len(ring) : ring[i] \in Group
    BY <2>1
  <2>3. \A i \in 1..Len(ring) : ring[i].group \in Groups
    BY <2>2 DEF Group
  <2>4. \A h \in Groups : LastUses[h] \in Nat
    BY DEF CountInv, RingInv, LastUsesKnown, TypeOK
  <2>5. ASSUME NEW i \in 1..Len(ring), NEW j \in 1..Len(ring), ring[i].group = ring[j].group
        PROVE  i = j
    <3>1. LastUses[ring[i].group] \in Nat /\ LastUses[ring[j].group] = LastUses[ring[i].group]
      BY <2>3, <2>4, <2>5
    <3>2. ~(i < j) /\ ~(j < i)
      BY <3>1 DEF CountInv, RingInv, RingInOrder
    <3> QED
      BY <2>1, <3>2
  <2> QED
    BY <2>1, <2>3, <2>5
<1>5. /\ Cardinality(RunIn(log', g)) =
            IF InRing(g) THEN Cardinality(RunIn(log, g)) + 1 ELSE 1
      /\ \A h \in Groups \ {g} : RunIn(log', h) = RunIn(log, h)
  BY <1>2, RunCounts DEF CountInv
<1>6. \A i \in 1..Len(ring) : ring[i].count = Cardinality(RunIn(log, ring[i].group))
  BY DEF CountInv, CountsOfRuns
<1> DEFINE n == Len(ring')
<1>7. n \in Nat /\ n >= 1 /\ n <= Len(ring) + 1 /\ (d <= Len(ring) => n = Len(ring))
  BY <1>3, <1>4
<1>8. ASSUME NEW i \in 1..n, i < n PROVE ring'[i].count = Cardinality(RunIn(log', ring'[i].group))
  <2> DEFINE o == IF i < d THEN i ELSE i + 1
  <2>1. o \in 1..Len(ring) /\ o # d /\ ring'[i] = ring[o]
    BY <1>3, <1>4, <1>8
  <2> HIDE DEF o
  <2>2. ring[o].group # g
    BY <1>3, <1>4, <2>1 DEF InRing
  <2> QED
    BY <1>4, <1>5, <1>6, <2>1, <2>2
<1>9. ring'[n].count = Cardinality(RunIn(log', ring'[n].group))
  <2>1. n \in 1..n /\ ring'[n].group = g
    BY <1>3, <1>7
  <2>2. CASE InRing(g)
    <3>1. d \in 1..Len(ring) /\ ring[d].group = g
      BY <1>3, <2>2
    <3> QED
      BY <1>3, <1>5, <1>6, <2>1, <2>2, <3>1
  <2>3. CASE ~InRing(g)
    BY <1>3, <1>5, <2>1, <2>3
  <2> QED
    BY <2>2, <2>3
<1>10. \A i \in 1..n : ring'[i].count = Cardinality(RunIn(log', ring'[i].group))
  <2>1. \A i \in 1..n : i < n \/ i = n
    BY <1>7
  <2> QED
    BY <1>8, <1>9, <2>1
<1> QED
  BY <1>10 DEF CountsOfRuns

LEMMA InitCounts == Init => CountInv
<1> SUFFICES ASSUME Init PROVE CountInv
  OBVIOUS
<1>1. RingInv
  BY InitRing
<1>2. CountsOfRuns
  BY DEF Init, CountsOfRuns
<1> QED
  BY <1>1, <1>2 DEF CountInv

LEMMA NextCounts == CountInv /\ [Next]_vars => CountInv'
<1> SUFFICES ASSUME CountInv, [Next]_vars PROVE CountInv'
  OBVIOUS
<1>1. RingInv'
  BY NextRing DEF CountInv
<1>2. ASSUME NEW t \in Threads, Record(t) PROVE CountInv'
  BY <1>1, <1>2, RecordKeepsCounts DEF CountInv
<1>3. CASE UNCHANGED <<ring, log>>
  BY <1>1, <1>3 DEF CountInv, CountsOfRuns
<1> QED
  BY <1>2, <1>3 DEF Next, vars, DownloadFails, Arrive, Succeeds, Unhandled, Rejected, Tick

\* A set of numbers that is not empty has a least one, and that is its minimum.
LEMMA LeastIs ==
    ASSUME NEW S \in SUBSET Nat, S # {}
    PROVE  Min(S) \in S /\ \A y \in S : Min(S) <= y
<1> DEFINE R == OpToRel(<, Nat)
<1>1. IsWellFoundedOn(R, Nat)
  BY NatLessThanWellFounded
<1> HIDE DEF R
<1>2. PICK x \in S : \A y \in S : ~(<<y, x>> \in R)
  BY <1>1, WFMin
<1>3. ASSUME NEW y \in S PROVE x <= y
  <2>1. y < x => <<y, x>> \in R
    BY DEF R, OpToRel
  <2> QED
    BY <1>2, <2>1
<1> QED
  BY <1>3 DEF Min

LEMMA CountsSuffice == CountInv => CountsAreExact
<1> SUFFICES ASSUME CountInv PROVE CountsAreExact
  OBVIOUS
<1> SUFFICES ASSUME NEW n \in 1..Len(ring)
             PROVE  LET g == ring[n].group
                        Lost(i, j) == Cardinality(Between(i, j - 1)) >= MaxGroups
                        Again(i)   == Min({j \in Uses(g) : j > i})
                        Since == {i \in Uses(g) : \A k \in Uses(g) :
                                     i <= k /\ k < LastUse(g) => ~Lost(k, Again(k))}
                    IN  ring[n].count = Cardinality(Since)
  BY DEF CountsAreExact
<1> DEFINE g == ring[n].group
           Lost(i, j) == Cardinality(Between(i, j - 1)) >= MaxGroups
           Again(i)   == Min({j \in Uses(g) : j > i})
           Since == {i \in Uses(g) : \A k \in Uses(g) :
                        i <= k /\ k < LastUse(g) => ~Lost(k, Again(k))}
<1>1. ring[n].count = Cardinality(RunIn(log, g))
  BY DEF CountInv, CountsOfRuns
<1>2. g \in Groups
  <2>1. ring[n] \in Group
    BY DEF CountInv, RingInv, TypeOK
  <2> QED
    BY <2>1 DEF Group
<1>3. Len(log) \in Nat /\ Uses(g) \in SUBSET Nat /\ UsesIn(log, g) = Uses(g)
  BY DEF CountInv, RingInv, TypeOK, Uses, UsesIn
<1>4. /\ LastUse(g) \in Nat /\ \A k \in Uses(g) : k <= LastUse(g)
      /\ LastUse(g) # 0 => LastUse(g) \in Uses(g)
  <2>1. LastUse(g) = LastUses[g]
    BY <1>2 DEF LastUses
  <2> QED
    BY <1>2, <1>3, <2>1 DEF CountInv, RingInv, LastUsesKnown, Uses
<1>5. \A i, j : BetweenIn(log, i, j) = Between(i, j)
  BY DEF BetweenIn, Between
<1>6. ASSUME NEW k \in Nat, NEW m \in Nat
      PROVE  Lost(k, m) <=> ~(Cardinality(BetweenIn(log, k, m - 1)) < MaxGroups)
  <2> DEFINE I == k + 1..m - 1
             B == Between(k, m - 1)
             f == [i \in I |-> log[i].group]
  <2>1. IsFiniteSet(I)
    <3>1. k + 1 \in Int /\ m - 1 \in Int
      OBVIOUS
    <3> QED
      BY <3>1, FS_Interval
  <2>2. f \in [I -> B] /\ \A h \in B : \E i \in I : f[i] = h
    BY DEF Between
  <2> HIDE DEF I, B, f
  <2>3. Cardinality(B) \in Nat
    BY <2>1, <2>2, FS_Surjection, FS_CardinalityType DEF Surjection
  <2>4. MaxGroups \in Nat
    BY TelemetryAssumption
  <2>5. Cardinality(B) >= MaxGroups <=> ~(Cardinality(B) < MaxGroups)
    BY <2>3, <2>4
  <2> QED
    BY <1>5, <2>5 DEF B
<1> HIDE DEF g, Lost
\* The next report of a group that is reported again is the neighbour of the one
\* before it, and the only one.
<1>7. ASSUME NEW k \in Uses(g), k < LastUse(g)
      PROVE  Again(k) \in Uses(g) /\ Consecutive(log, g, k, Again(k))
  <2> DEFINE S == {j \in Uses(g) : j > k}
  <2>1. S \in SUBSET Nat /\ S # {}
    BY <1>3, <1>4, <1>7
  <2> HIDE DEF S
  <2>2. Min(S) \in S /\ \A y \in S : Min(S) <= y
    BY <2>1, LeastIs
  <2>3. Again(k) = Min(S)
    BY DEF S
  <2> HIDE DEF Again
  <2>4. Again(k) \in Uses(g) /\ Again(k) > k /\ \A y \in Uses(g) : y > k => Again(k) <= y
    BY <2>2, <2>3 DEF S
  <2> QED
    BY <1>3, <2>4 DEF Consecutive
<1>8. ASSUME NEW k, NEW m, Consecutive(log, g, k, m)
      PROVE  k \in Uses(g) /\ m \in Uses(g) /\ k < LastUse(g) /\ m = Again(k)
  <2>1. /\ k \in Uses(g) /\ m \in Uses(g) /\ k < m
        /\ \A j \in Uses(g) : j <= k \/ m <= j
    BY <1>3, <1>8 DEF Consecutive
  <2>2. k < LastUse(g)
    BY <1>3, <1>4, <2>1
  <2> HIDE DEF Again
  <2>3. Again(k) \in Uses(g) /\ Consecutive(log, g, k, Again(k))
    BY <1>7, <2>1, <2>2
  <2>4. m <= Again(k) /\ Again(k) <= m
    BY <1>3, <2>1, <2>3 DEF Consecutive
  <2> QED
    BY <1>3, <2>1, <2>2, <2>3, <2>4
<1> HIDE DEF Again
<1>9. Since = RunIn(log, g)
  <2>1. ASSUME NEW i \in Since PROVE i \in RunIn(log, g)
    <3>1. ASSUME NEW k \in Uses(g), NEW m \in Uses(g), i <= k, Consecutive(log, g, k, m)
          PROVE  Cardinality(BetweenIn(log, k, m - 1)) < MaxGroups
      <4>1. k < LastUse(g) /\ m = Again(k)
        BY <1>8, <3>1
      <4>2. ~Lost(k, m)
        BY <3>1, <4>1
      <4> QED
        BY <1>3, <1>6, <4>2
    <3> QED
      BY <1>3, <3>1 DEF RunIn
  <2>2. ASSUME NEW i \in RunIn(log, g) PROVE i \in Since
    <3>1. i \in Uses(g)
      BY <1>3 DEF RunIn
    <3>2. ASSUME NEW k \in Uses(g), i <= k, k < LastUse(g) PROVE ~Lost(k, Again(k))
      <4>1. Again(k) \in Uses(g) /\ Consecutive(log, g, k, Again(k))
        BY <1>7, <3>2
      <4>2. Cardinality(BetweenIn(log, k, Again(k) - 1)) < MaxGroups
        BY <1>3, <3>2, <4>1 DEF RunIn
      <4> QED
        BY <1>3, <1>6, <4>1, <4>2
    <3> QED
      BY <3>1, <3>2
  <2> QED
    BY <2>1, <2>2
<1> QED
  BY <1>1, <1>9 DEF g, Again, Lost

\* The dashboard counts every report of a group it shows since that group was
\* last thrown out, and no other, whatever order the reports come in.
THEOREM CountsStayExact == Spec => []CountsAreExact
<1> QED
  BY InitCounts, NextCounts, CountsSuffice, PTL DEF Spec

-----------------------------------------------------------------------------
(* The requests, and what is reported of them *)

\* A request that waits for its report is the one whose report the event loop
\* makes, and only such a request has failed and is not answered.
RequestsMatchReports ==
    /\ report["worker"] = NoReport \/ report["worker"].by = "collector"
    /\ \A r \in Requests :
          /\ request[r].phase = "new" => ~request[r].api
          /\ request[r].phase \in {"new", "handled"} => ~request[r].failed
          /\ request[r].phase = "reported" =>
                request[r].api /\ request[r].failed /\ ~request[r].raised
          /\ request[r].phase = "reported" <=>
                report["loop"] # NoReport /\ report["loop"].by = r

\* The requests whose failure the log must hold.
Owed == {r \in Requests : Failed(r) /\ ~request[r].raised}

ReportsOf == [r \in Requests |-> Reported(r)]

ReportedOnce ==
    /\ \A r \in Owed : \E i \in 1..Len(log) : ReportsOf[r] = {i}
    /\ \A r \in Requests \ Owed : ReportsOf[r] = {}

ClientReports == {i \in 1..Len(log) : log[i].group \in ClientErrors}
ApiRequests   == {r \in Requests : request[r].api}

CountsMatch ==
    /\ clientCount = Cardinality(ClientReports)
    /\ errorCount = Len(log) - clientCount
    /\ requestCount = Cardinality(ApiRequests)

RequestInv == TypeOK /\ RequestsMatchReports /\ ReportedOnce /\ CountsMatch

LEMMA InitRequests == Init => RequestInv
<1> SUFFICES ASSUME Init PROVE RequestInv
  OBVIOUS
<1>1. TypeOK
  BY InitTypes
<1>2. RequestsMatchReports
  BY DEF Init, RequestsMatchReports, Threads
<1>3. ReportedOnce
  <2>1. Owed = {}
    BY DEF Init, Owed, Failed
  <2>2. \A r \in Requests : ReportsOf[r] = {}
    BY DEF Init, ReportsOf, Reported
  <2> QED
    BY <2>1, <2>2 DEF ReportedOnce
<1>4. CountsMatch
  <2>1. ClientReports = {} /\ ApiRequests = {}
    BY DEF Init, ClientReports, ApiRequests
  <2> QED
    BY <2>1, FS_EmptySet DEF Init, CountsMatch
<1> QED
  BY <1>1, <1>2, <1>3, <1>4 DEF RequestInv

\* A report adds its place in the log to those of its request, if it is one's,
\* and to one of the two counts.
LEMMA RecordReports ==
    ASSUME RequestInv, NEW t \in Threads, Record(t)
    PROVE  RequestsMatchReports' /\ ReportedOnce' /\ CountsMatch'
<1>1. PICK g \in Groups, now \in 0..MaxClock, by \in Requests \union {"collector"} :
         report[t] = [group |-> g, now |-> now, by |-> by]
  BY DEF Record, Report, RequestInv, TypeOK
<1> DEFINE top == Len(log) + 1
<1>2. Len(log) \in Nat /\ top \notin 1..Len(log)
  BY DEF RequestInv, TypeOK
<1>3. /\ Len(log') = top /\ log'[top] = [group |-> g, by |-> by]
      /\ \A i \in 1..Len(log) : log'[i] = log[i]
      /\ 1..Len(log') = 1..Len(log) \union {top}
  <2>1. log' = Append(log, [group |-> g, by |-> by])
    BY <1>1 DEF Record
  <2>2. Len(log') = top /\ log'[top] = [group |-> g, by |-> by]
        /\ \A i \in 1..Len(log) : log'[i] = log[i]
    BY <2>1 DEF RequestInv, TypeOK
  <2> QED
    BY <1>2, <2>2
<1>4. report' = [report EXCEPT ![t] = NoReport] /\ report \in [Threads -> Report]
  BY DEF Record, RequestInv, TypeOK
<1>5. report[t] # NoReport
  BY DEF Record
<1>6. /\ request \in [Requests -> Request]
      /\ \A r \in Requests :
            /\ request'[r].api = request[r].api /\ request'[r].failed = request[r].failed
            /\ request'[r].raised = request[r].raised
            /\ request'[r].phase = IF r = by THEN "answered" ELSE request[r].phase
  <2>1. request \in [Requests -> Request]
    BY DEF RequestInv, TypeOK
  <2>2. CASE by \in Requests
    <3>1. request' = [request EXCEPT ![by].phase = "answered"]
      BY <1>1, <2>2 DEF Record
    <3>2. ASSUME NEW r \in Requests
          PROVE  [request[r] EXCEPT !.phase = "answered"]
                   = [phase |-> "answered", api |-> request[r].api,
                      failed |-> request[r].failed, raised |-> request[r].raised]
      BY <2>1 DEF Request
    <3> QED
      BY <2>1, <3>1, <3>2
  <2>3. CASE by \notin Requests
    BY <1>1, <2>1, <2>3 DEF Record
  <2> QED
    BY <2>1, <2>2, <2>3
\* Only the event loop reports for requests, and by is the one that waits.
<1>7. by \in Requests => /\ t = "loop" /\ request[by].phase = "reported"
                         /\ request[by].api /\ request[by].failed /\ ~request[by].raised
  <2> SUFFICES ASSUME by \in Requests PROVE t = "loop" /\ request[by].phase = "reported"
    BY DEF RequestInv, RequestsMatchReports
  <2>1. t = "loop"
    BY <1>1, <1>5, TelemetryAssumption DEF RequestInv, RequestsMatchReports, Threads
  <2> QED
    BY <1>1, <1>5, <2>1 DEF RequestInv, RequestsMatchReports
<1>8. RequestsMatchReports'
  <2>1. report'["worker"] = NoReport \/ report'["worker"].by = "collector"
    BY <1>4 DEF RequestInv, RequestsMatchReports, Threads
  <2>2. ASSUME NEW r \in Requests
        PROVE  /\ request'[r].phase = "new" => ~request'[r].api
               /\ request'[r].phase \in {"new", "handled"} => ~request'[r].failed
               /\ request'[r].phase = "reported" =>
                     request'[r].api /\ request'[r].failed /\ ~request'[r].raised
    BY <1>6 DEF RequestInv, RequestsMatchReports
  <2>3. ASSUME NEW r \in Requests
        PROVE  request'[r].phase = "reported" <=>
                  report'["loop"] # NoReport /\ report'["loop"].by = r
    <3>1. CASE t = "loop"
      <4>1. report'["loop"] = NoReport
        BY <1>4, <3>1
      <4>2. request'[r].phase # "reported"
        BY <1>1, <1>6, <3>1 DEF RequestInv, RequestsMatchReports
      <4> QED
        BY <4>1, <4>2
    <3>2. CASE t # "loop"
      <4>1. report'["loop"] = report["loop"] /\ r # by
        BY <1>4, <1>7, <3>2 DEF Threads
      <4> QED
        BY <1>6, <4>1 DEF RequestInv, RequestsMatchReports
    <3> QED
      BY <3>1, <3>2
  <2> QED
    BY <2>1, <2>2, <2>3 DEF RequestsMatchReports
<1>9. ReportedOnce'
  <2>1. ReportsOf' = [r \in Requests |-> {i \in 1..Len(log') : log'[i].by = r}]
    BY DEF ReportsOf, Reported
  <2>2. \A r \in Requests \ {by} : ReportsOf'[r] = ReportsOf[r]
    BY <1>3, <2>1 DEF ReportsOf, Reported
  <2>3. by \in Requests => ReportsOf'[by] = ReportsOf[by] \union {top}
    BY <1>3, <2>1 DEF ReportsOf, Reported
  <2>4. /\ Owed' = {r \in Requests : request'[r].phase = "answered" /\ request'[r].api
                                     /\ request'[r].failed /\ ~request'[r].raised}
        /\ Owed = {r \in Requests : request[r].phase = "answered" /\ request[r].api
                                     /\ request[r].failed /\ ~request[r].raised}
    BY DEF Owed, Failed
  <2>5. \A r \in Requests \ {by} : r \in Owed' <=> r \in Owed
    BY <1>6, <2>4
  <2>6. by \in Requests => by \in Owed' /\ by \notin Owed
    BY <1>6, <1>7, <2>4
  <2>7. by \in Requests => ReportsOf'[by] = {top}
    BY <2>3, <2>6 DEF RequestInv, ReportedOnce
  <2>8. ASSUME NEW r \in Owed' PROVE \E i \in 1..Len(log') : ReportsOf'[r] = {i}
    <3>1. r \in Requests
      BY <2>4
    <3>2. CASE r = by
      BY <1>3, <2>7, <3>1, <3>2
    <3>3. CASE r # by
      <4>1. PICK i \in 1..Len(log) : ReportsOf[r] = {i}
        BY <2>5, <3>1, <3>3 DEF RequestInv, ReportedOnce
      <4> QED
        BY <1>3, <2>2, <3>1, <3>3, <4>1
    <3> QED
      BY <3>2, <3>3
  <2>9. ASSUME NEW r \in Requests \ Owed' PROVE ReportsOf'[r] = {}
    BY <2>2, <2>5, <2>6 DEF RequestInv, ReportedOnce
  <2> QED
    BY <2>8, <2>9 DEF ReportedOnce
<1>10. CountsMatch'
  <2>1. IsFiniteSet(ClientReports) /\ Cardinality(ClientReports) \in Nat
        /\ top \notin ClientReports
    <3>1. ClientReports \in SUBSET (1..Len(log))
      BY DEF ClientReports
    <3>2. IsFiniteSet(1..Len(log))
      BY <1>2, FS_Interval
    <3>3. IsFiniteSet(ClientReports)
      BY <3>1, <3>2, FS_Subset
    <3> QED
      BY <1>2, <3>1, <3>3, FS_CardinalityType
  <2>2. ClientReports' = IF g \in ClientErrors THEN ClientReports \union {top}
                                               ELSE ClientReports
    BY <1>3 DEF ClientReports
  <2>3. Cardinality(ClientReports') = Cardinality(ClientReports)
                                        + (IF g \in ClientErrors THEN 1 ELSE 0)
    <3>1. CASE g \in ClientErrors
      BY <2>1, <2>2, <3>1, FS_AddElement
    <3>2. CASE g \notin ClientErrors
      BY <2>1, <2>2, <3>2
    <3> QED
      BY <3>1, <3>2
  <2>4. /\ clientCount' = clientCount + (IF g \in ClientErrors THEN 1 ELSE 0)
        /\ errorCount' = errorCount + (IF g \in ClientErrors THEN 0 ELSE 1)
        /\ requestCount' = requestCount
    BY <1>1 DEF Record, Counted
  <2>5. ApiRequests' = ApiRequests
    BY <1>6 DEF ApiRequests
  <2>6. /\ clientCount = Cardinality(ClientReports) /\ errorCount = Len(log) - clientCount
        /\ requestCount = Cardinality(ApiRequests)
    BY DEF RequestInv, CountsMatch
  <2>7. clientCount' = Cardinality(ClientReports') /\ errorCount' = Len(log') - clientCount'
    BY <1>2, <1>3, <2>1, <2>3, <2>4, <2>6
  <2> QED
    BY <2>4, <2>5, <2>6, <2>7 DEF CountsMatch
<1> QED
  BY <1>8, <1>9, <1>10

\* A request that moves on without a report is not owed one, before or after.
LEMMA RequestStays ==
    ASSUME RequestInv, NEW r \in Requests, NEW q,
           request' = [request EXCEPT ![r] = q],
           r \notin Owed, ~(q.phase = "answered" /\ q.api /\ q.failed /\ ~q.raised),
           UNCHANGED log
    PROVE  ReportedOnce'
<1>1. ReportsOf' = ReportsOf
  BY DEF ReportsOf, Reported
<1>2. request'[r] = q /\ \A s \in Requests \ {r} : request'[s] = request[s]
  BY DEF RequestInv, TypeOK
<1>3. Owed' = Owed
  BY <1>2 DEF Owed, Failed
<1> QED
  BY <1>1, <1>3 DEF RequestInv, ReportedOnce

\* One that does not come from waiting for its report, and does not go there.
LEMMA RequestMatches ==
    ASSUME RequestInv, NEW r \in Requests, NEW q,
           request' = [request EXCEPT ![r] = q],
           request[r].phase # "reported", q.phase \in {"handled", "answered"},
           q.phase = "handled" => ~q.failed,
           UNCHANGED report
    PROVE  RequestsMatchReports'
<1>1. request'[r] = q /\ \A s \in Requests \ {r} : request'[s] = request[s]
  BY DEF RequestInv, TypeOK
<1>2. ASSUME NEW s \in Requests
      PROVE  /\ request'[s].phase = "new" => ~request'[s].api
             /\ request'[s].phase \in {"new", "handled"} => ~request'[s].failed
             /\ request'[s].phase = "reported" =>
                   request'[s].api /\ request'[s].failed /\ ~request'[s].raised
             /\ request'[s].phase = "reported" <=>
                   report'["loop"] # NoReport /\ report'["loop"].by = s
  <2>1. CASE s = r
    BY <1>1, <2>1 DEF RequestInv, RequestsMatchReports
  <2>2. CASE s # r
    BY <1>1, <2>2 DEF RequestInv, RequestsMatchReports
  <2> QED
    BY <2>1, <2>2
<1> QED
  BY <1>2 DEF RequestInv, RequestsMatchReports

LEMMA RequestCounts ==
    ASSUME RequestInv, NEW r \in Requests, NEW q,
           request' = [request EXCEPT ![r] = q], q.api = request[r].api,
           UNCHANGED <<log, requestCount, clientCount, errorCount>>
    PROVE  CountsMatch'
<1>1. request'[r] = q /\ \A s \in Requests \ {r} : request'[s] = request[s]
  BY DEF RequestInv, TypeOK
<1>2. ApiRequests' = ApiRequests /\ ClientReports' = ClientReports
  BY <1>1 DEF ApiRequests, ClientReports
<1> QED
  BY <1>2 DEF RequestInv, CountsMatch

LEMMA ArriveReports ==
    ASSUME RequestInv, NEW r \in Requests, Arrive(r)
    PROVE  RequestsMatchReports' /\ ReportedOnce' /\ CountsMatch'
<1>1. PICK api \in BOOLEAN :
        /\ request' = [request EXCEPT ![r] = [phase |-> "handled", api |-> api,
                                              failed |-> FALSE, raised |-> FALSE]]
        /\ requestCount' = requestCount + (IF api THEN 1 ELSE 0)
  BY DEF Arrive
<1> DEFINE q == [phase |-> "handled", api |-> api, failed |-> FALSE, raised |-> FALSE]
<1>2. q.phase = "handled" /\ q.api = api /\ ~q.failed /\ request' = [request EXCEPT ![r] = q]
  BY <1>1
<1> HIDE DEF q
<1>3. request[r].phase = "new" /\ ~request[r].api /\ r \notin Owed
      /\ UNCHANGED <<report, log, clientCount, errorCount>>
  BY DEF Arrive, Owed, Failed, RequestInv, RequestsMatchReports
<1>4. RequestsMatchReports'
  BY <1>2, <1>3, RequestMatches
<1>5. ReportedOnce'
  BY <1>2, <1>3, RequestStays
<1>6. CountsMatch'
  <2>1. request'[r] = q /\ \A s \in Requests \ {r} : request'[s] = request[s]
    BY <1>2 DEF RequestInv, TypeOK
  <2>2. r \notin ApiRequests /\ ClientReports' = ClientReports
    BY <1>3 DEF ApiRequests, ClientReports
  <2>3. ApiRequests' = IF api THEN ApiRequests \union {r} ELSE ApiRequests
    BY <1>2, <1>3, <2>1 DEF ApiRequests
  <2>4. IsFiniteSet(ApiRequests) /\ Cardinality(ApiRequests) \in Nat
    <3>1. ApiRequests \in SUBSET Requests /\ IsFiniteSet(Requests)
      BY TelemetryAssumption DEF ApiRequests
    <3>2. IsFiniteSet(ApiRequests)
      BY <3>1, FS_Subset
    <3> QED
      BY <3>2, FS_CardinalityType
  <2>5. requestCount' = Cardinality(ApiRequests')
    <3>1. CASE api
      BY <1>1, <2>2, <2>3, <2>4, <3>1, FS_AddElement DEF RequestInv, CountsMatch
    <3>2. CASE ~api
      BY <1>1, <2>3, <2>4, <3>2 DEF RequestInv, CountsMatch
    <3> QED
      BY <3>1, <3>2
  <2> QED
    BY <1>3, <2>2, <2>5 DEF RequestInv, CountsMatch
<1> QED
  BY <1>4, <1>5, <1>6

\* A response that is not recorded: below 400, outside of the API, or one that
\* the middleware never saw.
LEMMA AnswerReports ==
    ASSUME RequestInv, NEW r \in Requests, NEW fd \in BOOLEAN, NEW rd \in BOOLEAN,
           request[r].phase = "handled", Goes(r, "answered", fd, rd),
           ~(request[r].api /\ fd /\ ~rd),
           UNCHANGED <<report, log, requestCount, clientCount, errorCount>>
    PROVE  RequestsMatchReports' /\ ReportedOnce' /\ CountsMatch'
<1> DEFINE q == [phase |-> "answered", api |-> request[r].api, failed |-> fd, raised |-> rd]
<1>1. /\ q.phase = "answered" /\ q.api = request[r].api /\ q.failed = fd /\ q.raised = rd
      /\ request' = [request EXCEPT ![r] = q]
  BY DEF Goes
<1> HIDE DEF q
<1>2. r \notin Owed
  BY DEF Owed, Failed
<1>3. RequestsMatchReports'
  BY <1>1, RequestMatches
<1>4. ReportedOnce'
  BY <1>1, <1>2, RequestStays
<1>5. CountsMatch'
  BY <1>1, RequestCounts
<1> QED
  BY <1>3, <1>4, <1>5

\* One that is: the event loop makes its report before it does anything else.
LEMMA RejectedReports ==
    ASSUME RequestInv, NEW r \in Requests, NEW e \in Errors,
           LoopFree, request[r].phase = "handled", request[r].api,
           Goes(r, "reported", TRUE, FALSE),
           report' = [report EXCEPT !["loop"] = Prepared(e, r)],
           UNCHANGED <<log, requestCount, clientCount, errorCount>>
    PROVE  RequestsMatchReports' /\ ReportedOnce' /\ CountsMatch'
<1> DEFINE q == [phase |-> "reported", api |-> request[r].api, failed |-> TRUE, raised |-> FALSE]
<1>1. /\ q.phase = "reported" /\ q.api /\ q.failed /\ ~q.raised /\ q.api = request[r].api
      /\ request' = [request EXCEPT ![r] = q]
  BY DEF Goes
<1> HIDE DEF q
<1>2. r \notin Owed
  BY DEF Owed, Failed
<1>3. request'[r] = q /\ \A s \in Requests \ {r} : request'[s] = request[s]
  BY <1>1 DEF RequestInv, TypeOK
<1>4. /\ report'["loop"] = [group |-> GroupOf[e], now |-> clock, by |-> r]
      /\ report'["worker"] = report["worker"] /\ report["loop"] = NoReport
  BY DEF RequestInv, TypeOK, Threads, Prepared, LoopFree
<1>5. report'["loop"] # NoReport /\ report'["loop"].by = r
  BY <1>4, TelemetryAssumption DEF NoReport
<1>6. ASSUME NEW s \in Requests
      PROVE  /\ request'[s].phase = "new" => ~request'[s].api
             /\ request'[s].phase \in {"new", "handled"} => ~request'[s].failed
             /\ request'[s].phase = "reported" =>
                   request'[s].api /\ request'[s].failed /\ ~request'[s].raised
             /\ request'[s].phase = "reported" <=>
                   report'["loop"] # NoReport /\ report'["loop"].by = s
  <2>1. CASE s = r
    BY <1>1, <1>3, <1>5, <2>1
  <2>2. CASE s # r
    BY <1>3, <1>4, <1>5, <2>2 DEF RequestInv, RequestsMatchReports
  <2> QED
    BY <2>1, <2>2
<1>7. RequestsMatchReports'
  BY <1>4, <1>6 DEF RequestInv, RequestsMatchReports
<1>8. ReportedOnce'
  BY <1>1, <1>2, RequestStays
<1>9. CountsMatch'
  BY <1>1, RequestCounts
<1> QED
  BY <1>7, <1>8, <1>9

LEMMA NextRequests == RequestInv /\ [Next]_vars => RequestInv'
<1> SUFFICES ASSUME RequestInv, [Next]_vars PROVE RequestInv'
  OBVIOUS
<1>1. TypeOK'
  BY NextTypes DEF RequestInv
<1>2. ASSUME NEW t \in Threads, Record(t) PROVE RequestInv'
  BY <1>1, <1>2, RecordReports DEF RequestInv
<1>3. ASSUME NEW t \in Threads, NEW e \in Errors, DownloadFails(t, e) PROVE RequestInv'
  <2>1. /\ UNCHANGED <<request, log, requestCount, clientCount, errorCount>>
        /\ report[t] = NoReport /\ report \in [Threads -> Report]
        /\ report' = [report EXCEPT ![t] = [group |-> GroupOf[e], now |-> clock,
                                            by |-> "collector"]]
    BY <1>3 DEF DownloadFails, Prepared, RequestInv, TypeOK
  <2>2. ReportedOnce' /\ CountsMatch'
    BY <2>1 DEF RequestInv, ReportedOnce, CountsMatch, ReportsOf, Reported, Owed, Failed,
                ClientReports, ApiRequests
  <2>3. report'["worker"] = NoReport \/ report'["worker"].by = "collector"
    BY <2>1 DEF RequestInv, RequestsMatchReports, Threads
  <2>4. ASSUME NEW r \in Requests
        PROVE  report'["loop"] # NoReport /\ report'["loop"].by = r
                 <=> report["loop"] # NoReport /\ report["loop"].by = r
    <3>1. CASE t = "loop"
      BY <2>1, <3>1, TelemetryAssumption
    <3>2. CASE t # "loop"
      BY <2>1, <3>2 DEF Threads
    <3> QED
      BY <3>1, <3>2
  <2>5. RequestsMatchReports'
    BY <2>1, <2>3, <2>4 DEF RequestInv, RequestsMatchReports
  <2> QED
    BY <1>1, <2>2, <2>5 DEF RequestInv
<1>4. ASSUME NEW r \in Requests, Arrive(r) PROVE RequestInv'
  BY <1>1, <1>4, ArriveReports DEF RequestInv
<1>5. ASSUME NEW r \in Requests, Succeeds(r) PROVE RequestInv'
  BY <1>1, <1>5, AnswerReports DEF RequestInv, Succeeds
<1>6. ASSUME NEW r \in Requests, Unhandled(r) PROVE RequestInv'
  BY <1>1, <1>6, AnswerReports DEF RequestInv, Unhandled
<1>7. ASSUME NEW r \in Requests, NEW e \in Errors, Rejected(r, e) PROVE RequestInv'
  <2>1. CASE IsRecorded(r, e)
    BY <1>1, <1>7, <2>1, RejectedReports DEF RequestInv, Rejected, IsRecorded
  <2>2. CASE ~IsRecorded(r, e)
    BY <1>1, <1>7, <2>2, AnswerReports DEF RequestInv, Rejected, IsRecorded
  <2> QED
    BY <2>1, <2>2
<1>8. CASE UNCHANGED <<request, report, log, requestCount, clientCount, errorCount>>
  BY <1>1, <1>8 DEF RequestInv, RequestsMatchReports, ReportedOnce, CountsMatch, ReportsOf,
                    Reported, Owed, Failed, ClientReports, ApiRequests
<1> QED
  BY <1>2, <1>3, <1>4, <1>5, <1>6, <1>7, <1>8 DEF Next, vars, Tick

LEMMA RequestsSuffice == RequestInv => FailuresReportedOnce
<1> SUFFICES ASSUME RequestInv PROVE FailuresReportedOnce
  OBVIOUS
<1>1. ASSUME NEW r \in Requests
      PROVE  Cardinality(Reported(r)) = IF Failed(r) /\ ~request[r].raised THEN 1 ELSE 0
  <2>1. ReportsOf[r] = Reported(r) /\ (r \in Owed <=> Failed(r) /\ ~request[r].raised)
    BY DEF ReportsOf, Owed
  <2>2. CASE r \in Owed
    <3>1. PICK i \in 1..Len(log) : Reported(r) = {i}
      BY <2>1, <2>2 DEF RequestInv, ReportedOnce
    <3> QED
      BY <2>1, <2>2, <3>1, FS_Singleton
  <2>3. CASE r \notin Owed
    <3>1. Reported(r) = {}
      BY <2>1, <2>3 DEF RequestInv, ReportedOnce
    <3> QED
      BY <2>1, <2>3, <3>1, FS_EmptySet
  <2> QED
    BY <2>2, <2>3
<1> QED
  BY <1>1 DEF RequestInv, CountsMatch, FailuresReportedOnce, ClientReports, ApiRequests

\* Whatever requests and collectors do meanwhile: a failing response of the API
\* that passed the middleware is in the log once, no other is, and the counts
\* are those of the log and of the requests.
THEOREM FailuresAreReportedOnce == Spec => []FailuresReportedOnce
<1> QED
  BY InitRequests, NextRequests, RequestsSuffice, PTL DEF Spec

=============================================================================
