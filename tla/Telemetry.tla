----------------------------- MODULE Telemetry ------------------------------
(***************************************************************************)
(* The error log of the dashboard: telemetry.py, the middleware and the    *)
(* exception handlers of main.py that feed it, and the collectors' reports *)
(* of failed downloads.                                                    *)
(*                                                                         *)
(* Requests are coroutines of the event loop and interleave where the      *)
(* middleware awaits the rest of the application.  Reports come from the   *)
(* event loop and from the collectors' threads; a report reads the clock   *)
(* first and takes the lock after that.  An error is what a report names,  *)
(* a group is what is left of it once markup is escaped and all past 400   *)
(* characters cut: different errors may fall into one group.               *)
(***************************************************************************)
EXTENDS Integers, Sequences, FiniteSets, SequencesExt

CONSTANTS
    Requests,    \* bound: the requests of a behaviour
    Errors,      \* what can be reported: method, path, status and detail
    Groups,      \* the same, sanitized
    GroupOf,     \* Errors -> Groups
    ClientErrors,\* the groups with a status from 400 to 499
    DownloadErrors, \* the groups with "DL-ERR" for a status
    MaxGroups,   \* _MAX_ERROR_GROUPS, 20 in the code
    MaxReports,  \* bound: reports of a behaviour
    MaxClock     \* bound: ticks of a behaviour

ASSUME TelemetryAssumption ==
    /\ GroupOf \in [Errors -> Groups]
    /\ ClientErrors \subseteq Groups /\ DownloadErrors \subseteq Groups \ ClientErrors
    /\ MaxGroups \in Nat \ {0} /\ MaxReports \in Nat /\ MaxClock \in Nat
    /\ IsFiniteSet(Requests) /\ Requests \cap {"collector", "none"} = {}

Threads  == {"loop", "worker"}
NoReport == [group |-> "none", now |-> 0, by |-> "none"]

VARIABLES
    clock,
    request,       \* request |-> how far it is, and what it is answered
    report,        \* thread |-> the report it is about to make, or NoReport
    requestCount,  \* _request_count
    clientCount,   \* _client_error_count
    errorCount,    \* _error_count
    ring,          \* _error_groups, oldest first
    log            \* history: the groups reported so far, and by whom

vars == <<clock, request, report, requestCount, clientCount, errorCount, ring, log>>

-----------------------------------------------------------------------------
(* telemetry.py *)

InRing(g) == \E i \in 1..Len(ring) : ring[i].group = g
Place(g)  == CHOOSE i \in 1..Len(ring) : ring[i].group = g

\* Variant for mutation: a group keeps its place when it is seen again.
SeenAgain_InPlace(g, now) ==
    [ring EXCEPT ![Place(g)].count = @ + 1, ![Place(g)].last = now]

\* Variant for mutation: a group that is seen again is made anew.
SeenAgain_Anew(g, now) ==
    Append(RemoveAt(ring, Place(g)),
           [group |-> g, count |-> 1, first |-> now, last |-> now])

\* A known group counts one more and moves to the end.
SeenAgain(g, now) ==
    Append(RemoveAt(ring, Place(g)),
           [ring[Place(g)] EXCEPT !.count = @ + 1, !.last = now])

\* The group at the front makes room when the ring is full.
Room == IF Len(ring) >= MaxGroups THEN Tail(ring) ELSE ring

SeenFirst(g, now) ==
    Append(Room, [group |-> g, count |-> 1, first |-> now, last |-> now])

\* What _record_group does to the ring under the lock.
Regrouped(g, now) == IF InRing(g) THEN SeenAgain(g, now) ELSE SeenFirst(g, now)

\* record_error, record_download_error: the arguments are sanitized and the
\* clock is read.
Prepared(e, by) == [group |-> GroupOf[e], now |-> clock, by |-> by]

Counted(g) ==
    /\ clientCount' = clientCount + (IF g \in ClientErrors THEN 1 ELSE 0)
    /\ errorCount' = errorCount + (IF g \in ClientErrors THEN 0 ELSE 1)

\* Under the lock.
Record(t) ==
    LET g == report[t].group IN
    /\ report[t] # NoReport
    /\ Counted(g)
    /\ ring' = Regrouped(g, report[t].now)
    /\ log' = Append(log, [group |-> g, by |-> report[t].by])
    /\ report' = [report EXCEPT ![t] = NoReport]
    /\ request' = IF report[t].by \in Requests
                  THEN [request EXCEPT ![report[t].by].phase = "answered"] ELSE request
    /\ UNCHANGED <<clock, requestCount>>

\* Number of reports made or being made.
Reports == Len(log) + Cardinality({t \in Threads : report[t] # NoReport})

\* A fetch that fails (on the event loop), a run's grids or its prior totals
\* (in the thread that builds them).
DownloadFails(t, e) ==
    /\ report[t] = NoReport /\ Reports < MaxReports
    /\ GroupOf[e] \in DownloadErrors
    /\ report' = [report EXCEPT ![t] = Prepared(e, "collector")]
    /\ UNCHANGED <<clock, request, requestCount, clientCount, errorCount, ring, log>>

-----------------------------------------------------------------------------
(* main.py.  The event loop does nothing else while it makes a report. *)

LoopFree == report["loop"] = NoReport

\* How far a request is, and how it went.
Goes(r, phase, failed, raised) ==
    request' = [request EXCEPT ![r] = [phase |-> phase, api |-> request[r].api,
                                       failed |-> failed, raised |-> raised]]

\* TelemetryMiddleware.dispatch up to call_next; other paths are not counted.
Arrive(r) ==
    /\ LoopFree /\ request[r].phase = "new"
    /\ \E api \in BOOLEAN :
        /\ request' = [request EXCEPT ![r] = [phase |-> "handled", api |-> api,
                                              failed |-> FALSE, raised |-> FALSE]]
        /\ requestCount' = requestCount + (IF api THEN 1 ELSE 0)
    /\ UNCHANGED <<clock, report, clientCount, errorCount, ring, log>>

\* A response below 400.
Succeeds(r) ==
    /\ LoopFree /\ request[r].phase = "handled"
    /\ Goes(r, "answered", FALSE, FALSE)
    /\ UNCHANGED <<clock, report, requestCount, clientCount, errorCount, ring, log>>

\* Variant for mutation: only 5xx responses are recorded.
IsRecorded_ServerOnly(r, e) == request[r].api /\ GroupOf[e] \notin ClientErrors

\* The middleware records the responses of the API from 400 on.
IsRecorded(r, e) == request[r].api

\* A response of 400 or more: an HTTPException or a RequestValidationError, which
\* its handler has turned into a response, or an unknown path.
Rejected(r, e) ==
    /\ LoopFree /\ request[r].phase = "handled" /\ Reports < MaxReports
    /\ GroupOf[e] \notin DownloadErrors
    /\ IF IsRecorded(r, e)
       THEN /\ report' = [report EXCEPT !["loop"] = Prepared(e, r)]
            /\ Goes(r, "reported", TRUE, FALSE)
       ELSE /\ Goes(r, "answered", TRUE, FALSE)
            /\ UNCHANGED report
    /\ UNCHANGED <<clock, requestCount, clientCount, errorCount, ring, log>>

\* Any other exception: it leaves call_next, and the middleware with it; the
\* handler of Exception answers 500, outside of the middleware.
Unhandled(r) ==
    /\ LoopFree /\ request[r].phase = "handled"
    /\ Goes(r, "answered", TRUE, TRUE)
    /\ UNCHANGED <<clock, report, requestCount, clientCount, errorCount, ring, log>>

Tick ==
    /\ clock < MaxClock /\ clock' = clock + 1
    /\ UNCHANGED <<request, report, requestCount, clientCount, errorCount, ring, log>>

-----------------------------------------------------------------------------
Init ==
    /\ clock = 0
    /\ request = [r \in Requests |-> [phase |-> "new", api |-> FALSE,
                                      failed |-> FALSE, raised |-> FALSE]]
    /\ report = [t \in Threads |-> NoReport]
    /\ requestCount = 0 /\ clientCount = 0 /\ errorCount = 0
    /\ ring = <<>> /\ log = <<>>

Next ==
    \/ \E t \in Threads : Record(t) \/ \E e \in Errors : DownloadFails(t, e)
    \/ \E r \in Requests : \/ Arrive(r) \/ Succeeds(r) \/ Unhandled(r)
                           \/ \E e \in Errors : Rejected(r, e)
    \/ Tick

Spec == Init /\ [][Next]_vars

-----------------------------------------------------------------------------
(* Properties *)

Request == [phase : {"new", "handled", "reported", "answered"}, api : BOOLEAN,
            failed : BOOLEAN, raised : BOOLEAN]
Report  == [group : Groups, now : 0..MaxClock,
            by : Requests \union {"collector"}] \union {NoReport}
Group   == [group : Groups, count : Nat, first : 0..MaxClock, last : 0..MaxClock]

TypeOK ==
    /\ clock \in 0..MaxClock
    /\ request \in [Requests -> Request] /\ report \in [Threads -> Report]
    /\ requestCount \in Nat /\ clientCount \in Nat /\ errorCount \in Nat
    /\ ring \in Seq(Group) /\ Len(ring) <= MaxGroups
    /\ log \in Seq([group : Groups, by : Requests \union {"collector"}])

\* The places of g in the log, and the last of them, 0 if there is none.
Uses(g)    == {i \in 1..Len(log) : log[i].group = g}
LastUse(g) == Max(Uses(g) \union {0})

\* Groups that have been reported after place i of the log and up to place j.
Between(i, j) == {log[k].group : k \in i + 1..j}

\* The ring holds the groups reported last, in the order of their last report,
\* and no other: it is never a group in use that makes room for a new one.
RingIsMostRecent ==
    /\ \A g \in Groups :
          InRing(g) <=> LastUse(g) # 0 /\ Cardinality(Between(LastUse(g), Len(log))) < MaxGroups
    /\ \A i, j \in 1..Len(ring) :
          i < j => LastUse(ring[i].group) < LastUse(ring[j].group)

\* The count of a group is the number of its reports since MaxGroups other
\* groups last came between two of them: a group never loses a count as long
\* as it stays, and one that comes back begins again.
CountsAreExact ==
    \A n \in 1..Len(ring) :
        LET g == ring[n].group
            \* Was g thrown out between its reports i and j?
            Lost(i, j) == Cardinality(Between(i, j - 1)) >= MaxGroups
            Again(i)   == Min({j \in Uses(g) : j > i})
            Since == {i \in Uses(g) : \A k \in Uses(g) :
                         i <= k /\ k < LastUse(g) => ~Lost(k, Again(k))}
        IN  ring[n].count = Cardinality(Since)

Failed(r) == request[r].phase = "answered" /\ request[r].api /\ request[r].failed
Reported(r) == {i \in 1..Len(log) : log[i].by = r}

\* Every request to the API that was answered with a failing response has been
\* reported, once, whatever was answered and reported while it waited; nothing
\* else is reported as a request; and the two counts tell the client's errors
\* from ours, those of the collectors included.  Of a request whose handler
\* raises, which is not answered but ends in an exception, it says nothing:
\* these are not reported at all (UnhandledReported).
FailuresReportedOnce ==
    /\ \A r \in Requests :
          Cardinality(Reported(r)) = IF Failed(r) /\ ~request[r].raised THEN 1 ELSE 0
    /\ clientCount = Cardinality({i \in 1..Len(log) : log[i].group \in ClientErrors})
    /\ errorCount = Len(log) - clientCount
    /\ requestCount = Cardinality({r \in Requests : request[r].api})

\* "TelemetryMiddleware records this like any other >=400 response once it's a
\* real Response": the comment on the handler of unhandled exceptions.  Fails:
\* the exception has left the middleware before that handler answers it.
UnhandledReported == \A r \in Requests : Failed(r) => Reported(r) # {}

\* The ring is in the order of the times it shows.  Fails: the clock is read
\* before the lock is taken, and a group may even be last seen before it was
\* first seen.
SeenInOrder == \A i, j \in 1..Len(ring) : i <= j => ring[i].last <= ring[j].last
=============================================================================
