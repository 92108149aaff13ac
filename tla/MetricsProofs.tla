--------------------------- MODULE MetricsProofs ----------------------------
(***************************************************************************)
(* The counters of /metrics and the life of a session, for any number of   *)
(* requests, any routes and any number of crashes.                         *)
(***************************************************************************)
EXTENDS RequestPathProofs, FiniteSetTheorems

Done == {r \in Requests : req[r].pc = "done"}
Ended == {r \in Requests : req[r].pc \in {"done", "past"}}

\* The counters of a set of requests.
Of(S, classes) == {r \in S : req[r].status \in classes}
Counts(S) == [total |-> Cardinality(Of(S, StatusClass)),
              e4xx  |-> Cardinality(Of(S, {"4xx"})),
              e5xx  |-> Cardinality(Of(S, {"5xx"}))]

\* The mutex: one writer, at its increment, and no reader with it; the readers
\* are between the fields of their snapshots.
MutexInv ==
    /\ \A r \in Requests : r \in writer <=> req[r].pc = "count"
    /\ \A r \in Requests : r \in readers <=> req[r].pc = "read"
    /\ \A q, r \in writer : q = r
    /\ writer = {} \/ readers = {}

\* The counters are those of the requests this process has finished, and what
\* the writer has loaded is still the counter.
CountInv ==
    /\ IsFiniteSet(Done) /\ count = Counts(Done)
    /\ \A r \in writer : loaded[r] = count.total

\* A whole snapshot is that of a set of requests finished earlier; half a
\* snapshot has the total that the counter still has.
Snapped(r) == \E S \in SUBSET (Ended \ {r}) : snap[r] = Counts(S)
ShowsMetrics(r) == req[r].route = "metrics" /\ req[r].status = "2xx"
SnapOK(r) ==
    /\ req[r].pc \notin {"wait", "using"}
    /\ req[r].pc = "handle" => \/ req[r].todo = <<"snapshot">>
                               \/ req[r].todo = <<>> /\ Snapped(r)
    /\ req[r].pc = "read" => req[r].todo = <<"snapshot">> /\ snap[r].total = count.total
    /\ req[r].pc \in {"record", "count", "done", "past"} => Snapped(r)
SnapInv == \A r \in Requests : ShowsMetrics(r) => SnapOK(r)

MetricsInv == MutexInv /\ CountInv /\ SnapInv

-----------------------------------------------------------------------------
(* What steps do to requests and counters *)

\* The ways of a request past the counters.
SameKind(r) == req'[r].route = req[r].route /\ req'[r].status = req[r].status
Passes(r) ==
    \/ /\ req[r].pc = "unsent" /\ req'[r].pc \in {"handle", "record"}
       /\ ShowsMetrics(r)' => req'[r].pc = "handle" /\ req'[r].todo = <<"snapshot">>
    \/ /\ req[r].pc \in {"wait", "using"} /\ req'[r].pc \in {"using", "handle"}
       /\ SameKind(r) \/ req'[r].status = "5xx"
    \/ /\ req[r].pc = "handle" /\ req[r].todo # <<>> /\ Head(req[r].todo) # "snapshot"
       /\ req'[r].pc \in {"wait", "using", "handle"} /\ SameKind(r)
    \/ /\ req[r].pc = "handle" /\ req[r].todo = <<>>
       /\ req'[r].pc = "record" /\ SameKind(r)

Visits(r) ==
    \/ /\ RecordLock(r) /\ req[r].pc = "record" /\ req'[r].pc = "count"
    \/ /\ RecordUnlock(r, req[r].status) /\ req[r].pc = "count" /\ req'[r].pc = "done"
    \/ /\ SnapshotRLock(r) /\ req[r].pc = "handle" /\ req'[r].pc = "read"
       /\ req[r].todo # <<>> /\ Head(req[r].todo) = "snapshot" /\ req'[r].todo = req[r].todo
    \/ /\ SnapshotRUnlock(r) /\ req[r].pc = "read" /\ req'[r].pc = "handle"
       /\ req'[r].todo = Tail(req[r].todo)

OthersKept(r) == \A q \in Requests \ {r} : req'[q] = req[q]

\* /metrics with 200 has taken the way through Snapshot.
LEMMA MetricsHandler ==
    ASSUME NEW run \in Handler("metrics") PROVE run.calls = <<"snapshot">>
BY DEF Handler, metricsHandler, Runs

LEMMA ArrivePasses ==
    ASSUME Basic, NEW r \in Requests, NEW route \in Route, NEW cookies, Arrive(r, route, cookies)
    PROVE  OthersKept(r) /\ Passes(r) /\ UNCHANGED metricsVars
<1> USE DEF Basic, TypeOK
<1>1. ASSUME NEW run \in Handler(route),
             req' = [req EXCEPT ![r] = [pc |-> "handle", route |-> route,
                                        todo |-> run.calls, status |-> run.status]]
      PROVE  OthersKept(r) /\ Passes(r)
  <2>1. OthersKept(r) /\ req'[r].pc = "handle" /\ req'[r].route = route /\ req'[r].todo = run.calls
    BY <1>1 DEF OthersKept
  <2>2. route = "metrics" => run.calls = <<"snapshot">>
    BY MetricsHandler
  <2> QED BY <2>1, <2>2 DEF Passes, ShowsMetrics, Arrive
<1>2. ASSUME req' = [req EXCEPT ![r] = [pc |-> "record", route |-> route,
                                        todo |-> <<>>, status |-> "4xx"]]
      PROVE  OthersKept(r) /\ Passes(r)
  BY <1>2 DEF OthersKept, Passes, ShowsMetrics, Arrive
<1> QED BY <1>1, <1>2 DEF Arrive

LEMMA RequestKinds ==
    ASSUME Basic, NEW r \in Requests, RequestStep(r)
    PROVE  /\ OthersKept(r)
           /\ \/ UNCHANGED metricsVars /\ Passes(r)
              \/ Visits(r) /\ SameKind(r)
<1>1. req \in [Requests -> ReqType]
  BY BasicParts
<1>2. ASSUME NEW label, Goto(r, label)
      PROVE  /\ OthersKept(r) /\ SameKind(r)
             /\ req'[r].pc = label /\ req'[r].todo = req[r].todo
  BY <1>1, <1>2 DEF Goto, OthersKept, SameKind, ReqType
<1>3. ASSUME CallEnds(r)
      PROVE  /\ OthersKept(r) /\ SameKind(r)
             /\ req'[r].pc = "handle" /\ req'[r].todo = Tail(req[r].todo)
  BY <1>1, <1>3 DEF CallEnds, OthersKept, SameKind, ReqType
<1>4. CASE Statement(r)
  <2>1. Goto(r, "wait") \/ Goto(r, "using")
    BY <1>4 DEF Statement
  <2>2. /\ req[r].pc = "handle" /\ req[r].todo # <<>> /\ Head(req[r].todo) # "snapshot"
        /\ UNCHANGED metricsVars
    BY <1>4 DEF Statement, AtCall
  <2> QED BY <1>2, <2>1, <2>2 DEF Passes
<1>5. CASE TakeHandedConn(r)
  BY <1>2, <1>5 DEF TakeHandedConn, Passes
<1>6. CASE StatementEnds(r)
  BY <1>3, <1>6 DEF StatementEnds, Passes
<1>7. CASE PingTimeout(r)
  <2>1. OthersKept(r) /\ req'[r].pc = "handle" /\ req'[r].status = "5xx"
    BY <1>1, <1>7 DEF PingTimeout, OthersKept, ReqType
  <2> QED BY <1>7, <2>1 DEF PingTimeout, Passes
<1>8. CASE StoreCall(r)
  <2>1. /\ req[r].pc = "handle" /\ req[r].todo # <<>> /\ Head(req[r].todo) # "snapshot"
        /\ UNCHANGED metricsVars /\ CallEnds(r)
    BY <1>8 DEF StoreCall, AtCall
  <2> QED BY <1>3, <2>1 DEF Passes
<1>9. CASE TakeSnapshot(r)
  BY <1>2, <1>3, <1>9 DEF TakeSnapshot, AtCall, Visits
<1>10. CASE Reply(r)
  BY <1>2, <1>10 DEF Reply, Passes
<1>11. CASE RecordRequest(r)
  BY <1>2, <1>11 DEF RecordRequest, Visits
<1> QED BY <1>4, <1>5, <1>6, <1>7, <1>8, <1>9, <1>10, <1>11 DEF RequestStep

LEMMA StepKinds ==
    ASSUME Basic, [Next]_vars
    PROVE  \/ UNCHANGED <<metricsVars, req>>
           \/ ProcessEnds
           \/ \E r \in Requests : /\ OthersKept(r)
                                  /\ \/ UNCHANGED metricsVars /\ Passes(r)
                                     \/ Visits(r) /\ SameKind(r)
<1>1. ASSUME NEW r \in Requests, NEW route \in RoutesOf[r],
             NEW cookies \in {{}} \cup {{s} : s \in sessions}, Arrive(r, route, cookies)
      PROVE  OthersKept(r) /\ UNCHANGED metricsVars /\ Passes(r)
  <2>1. route \in Route BY RouteAssumption
  <2> QED BY <1>1, <2>1, ArrivePasses
<1>2. CASE StartProcess \/ RepairSchema \/ Tick \/ UNCHANGED vars
  BY <1>2 DEF StartProcess, RepairSchema, Tick, vars
<1>3. CASE DirtyExit \/ Crash
  BY <1>3 DEF DirtyExit, Crash
<1>4. CASE JobStep
  BY <1>4 DEF JobStep, JobStart, JobQuery, JobTakeCursor, JobRemove, JobExec, JobTakeSecond,
              JobDeleted, JobRowsEnd
<1> QED BY <1>1, <1>2, <1>3, <1>4, RequestKinds DEF Next

\* The end of the process, seen by each request.
LEMMA ExitEffect ==
    ASSUME Basic, ProcessEnds, NEW r \in Requests
    PROVE  /\ req'[r].route = req[r].route /\ req'[r].status = req[r].status
           /\ req'[r].pc = IF req[r].pc = "unsent" THEN "unsent"
                           ELSE IF req[r].pc \in {"done", "past"} THEN "past" ELSE "cut"
<1>1. req \in [Requests -> ReqType]
  BY BasicParts
<1> QED BY <1>1 DEF ProcessEnds, ReqType

-----------------------------------------------------------------------------
(* The invariant is kept *)

LEMMA MetricsInit0 == Init => MetricsInv
<1> SUFFICES ASSUME Init PROVE MetricsInv
  OBVIOUS
<1>1. \A r \in Requests : req[r].pc = "unsent" /\ req[r].route = "health"
  BY DEF Init
<1>2. writer = {} /\ readers = {} /\ count = Zero
  BY DEF Init, MetricsInit
<1>3. Done = {}
  BY <1>1 DEF Done
<1>4. \A C : Of({}, C) = {}
  BY DEF Of
<1>5. Counts({}) = Zero
  BY <1>4, FS_EmptySet DEF Counts, Zero
<1> QED BY <1>1, <1>2, <1>3, <1>5, FS_EmptySet
        DEF MetricsInv, MutexInv, CountInv, SnapInv, ShowsMetrics

LEMMA MutexStep == Basic /\ MutexInv /\ [Next]_vars => MutexInv'
<1> SUFFICES ASSUME Basic, MutexInv, [Next]_vars PROVE MutexInv'
  OBVIOUS
<1>1. CASE UNCHANGED <<metricsVars, req>>
  BY <1>1 DEF metricsVars, MutexInv
<1>2. CASE ProcessEnds
  <2>1. writer' = {} /\ readers' = {}
    BY <1>2 DEF ProcessEnds, MetricsReset
  <2>2. \A r \in Requests : req'[r].pc \notin {"count", "read"}
    BY <1>2, ExitEffect
  <2> QED BY <2>1, <2>2 DEF MutexInv
<1>3. ASSUME NEW r \in Requests, OthersKept(r), UNCHANGED metricsVars, Passes(r)
      PROVE  MutexInv'
  <2>1. req[r].pc \notin {"count", "read"} /\ req'[r].pc \notin {"count", "read"}
    BY <1>3 DEF Passes
  <2> QED BY <1>3, <2>1 DEF OthersKept, metricsVars, MutexInv
<1>4. ASSUME NEW r \in Requests, OthersKept(r), Visits(r)
      PROVE  MutexInv'
  <2>1. CASE RecordLock(r) /\ req[r].pc = "record" /\ req'[r].pc = "count"
    BY <1>4, <2>1 DEF OthersKept, RecordLock, MutexInv
  <2>2. CASE RecordUnlock(r, req[r].status) /\ req[r].pc = "count" /\ req'[r].pc = "done"
    BY <1>4, <2>2 DEF OthersKept, RecordUnlock, MutexInv
  <2>3. CASE SnapshotRLock(r) /\ req[r].pc = "handle" /\ req'[r].pc = "read"
    BY <1>4, <2>3 DEF OthersKept, SnapshotRLock, MutexInv
  <2>4. CASE SnapshotRUnlock(r) /\ req[r].pc = "read" /\ req'[r].pc = "handle"
    BY <1>4, <2>4 DEF OthersKept, SnapshotRUnlock, MutexInv
  <2> QED BY <1>4, <2>1, <2>2, <2>3, <2>4 DEF Visits
<1> QED BY <1>1, <1>2, <1>3, <1>4, StepKinds

\* Requests stay finished, with the status they had.
LEMMA EndedStays ==
    ASSUME Basic, [Next]_vars, NEW q \in Ended
    PROVE  q \in Ended' /\ req'[q].status = req[q].status
<1>0. q \in Requests /\ req[q].pc \in {"done", "past"}
  BY DEF Ended
<1>1. CASE UNCHANGED <<metricsVars, req>>
  BY <1>0, <1>1 DEF Ended
<1>2. CASE ProcessEnds
  BY <1>0, <1>2, ExitEffect DEF Ended
<1>3. ASSUME NEW r \in Requests, OthersKept(r), Passes(r) \/ Visits(r)
      PROVE  req'[q] = req[q]
  BY <1>0, <1>3 DEF Passes, Visits, OthersKept
<1> QED BY <1>0, <1>1, <1>2, <1>3, StepKinds DEF Ended

\* The counters of a set of finished requests do not change.
LEMMA CountsStay ==
    ASSUME Basic, [Next]_vars, NEW S \in SUBSET Ended
    PROVE  Counts(S)' = Counts(S)
<1>1. ASSUME NEW C PROVE {r \in S : req'[r].status \in C} = {r \in S : req[r].status \in C}
  BY EndedStays
<1> QED BY <1>1 DEF Counts, Of

\* One more request: the counters go up as RecordUnlock says.
LEMMA OneMore ==
    ASSUME NEW S, IsFiniteSet(S), NEW r, r \notin S, req[r].status \in StatusClass
    PROVE  /\ IsFiniteSet(S \cup {r})
           /\ Counts(S \cup {r}) =
                [total |-> Counts(S).total + 1,
                 e4xx  |-> Counts(S).e4xx + (IF req[r].status = "4xx" THEN 1 ELSE 0),
                 e5xx  |-> Counts(S).e5xx + (IF req[r].status = "5xx" THEN 1 ELSE 0)]
<1>1. ASSUME NEW C
      PROVE  /\ Cardinality(Of(S, C)) \in Nat
             /\ Cardinality(Of(S \cup {r}, C)) =
                   Cardinality(Of(S, C)) + (IF req[r].status \in C THEN 1 ELSE 0)
  <2>1. IsFiniteSet(Of(S, C)) /\ r \notin Of(S, C)
    BY FS_Subset DEF Of
  <2>2. Cardinality(Of(S, C)) \in Nat
    BY <2>1, FS_CardinalityType
  <2>3. Of(S \cup {r}, C) = IF req[r].status \in C THEN Of(S, C) \cup {r} ELSE Of(S, C)
    BY DEF Of
  <2>4. Cardinality(Of(S, C) \cup {r}) = Cardinality(Of(S, C)) + 1
    BY <2>1, FS_AddElement
  <2> QED BY <2>2, <2>3, <2>4
<1>2. IsFiniteSet(S \cup {r})
  BY FS_AddElement
<1> QED BY <1>1, <1>2 DEF Counts

LEMMA CountStep == Basic /\ MutexInv /\ CountInv /\ [Next]_vars => CountInv'
<1> SUFFICES ASSUME Basic, MutexInv, CountInv, [Next]_vars PROVE CountInv'
  OBVIOUS
<1>0. Done \subseteq Ended /\ req \in [Requests -> ReqType]
  BY BasicParts DEF Done, Ended
<1>1. ASSUME Done' = Done, UNCHANGED count, \A r \in writer' : loaded'[r] = count.total
      PROVE  CountInv'
  <2>1. Counts(Done)' = Counts(Done)
    <3>1. PICK S \in SUBSET Ended : S = Done
      BY <1>0
    <3>2. Counts(S)' = Counts(S)
      BY CountsStay
    <3> QED BY <1>1, <3>1, <3>2 DEF Counts, Of
  <2> QED BY <1>1, <2>1 DEF CountInv
<1>2. CASE UNCHANGED <<metricsVars, req>>
  <2>1. Done' = Done
    BY <1>2 DEF Done
  <2> QED BY <1>1, <1>2, <2>1 DEF metricsVars, CountInv
<1>3. CASE ProcessEnds
  <2>1. Done' = {}
    BY <1>3, ExitEffect DEF Done
  <2>2. writer' = {} /\ count' = Zero
    BY <1>3 DEF ProcessEnds, MetricsReset
  <2>3. Counts(Done)' = Zero
    BY <2>1, FS_EmptySet DEF Counts, Of, Zero
  <2> QED BY <2>1, <2>2, <2>3, FS_EmptySet DEF CountInv
<1>4. ASSUME NEW r \in Requests, OthersKept(r), UNCHANGED metricsVars, Passes(r)
      PROVE  CountInv'
  <2>1. Done' = Done
    BY <1>4 DEF Passes, OthersKept, Done
  <2> QED BY <1>1, <1>4, <2>1 DEF metricsVars, CountInv
<1>5. ASSUME NEW r \in Requests, OthersKept(r), Visits(r), SameKind(r)
      PROVE  CountInv'
  <2>1. CASE RecordLock(r) /\ req[r].pc = "record" /\ req'[r].pc = "count"
    <3>1. Done' = Done
      BY <1>5, <2>1 DEF OthersKept, Done
    <3>2. writer' = {r} /\ loaded'[r] = count.total /\ UNCHANGED count
      BY <2>1, BasicParts DEF RecordLock, MetricsTypeOK
    <3> QED BY <1>1, <3>1, <3>2
  <2>2. CASE RecordUnlock(r, req[r].status) /\ req[r].pc = "count" /\ req'[r].pc = "done"
    <3>1. r \in writer /\ writer' = {} /\ loaded[r] = count.total
      BY <2>2 DEF RecordUnlock, MutexInv, CountInv
    <3>2. Done' = Done \cup {r} /\ r \notin Done
      BY <1>5, <2>2 DEF OthersKept, Done
    <3>3. /\ IsFiniteSet(Done \cup {r})
          /\ Counts(Done \cup {r}) =
               [total |-> count.total + 1,
                e4xx  |-> count.e4xx + (IF req[r].status = "4xx" THEN 1 ELSE 0),
                e5xx  |-> count.e5xx + (IF req[r].status = "5xx" THEN 1 ELSE 0)]
      BY <1>0, <3>2, OneMore DEF CountInv, ReqType
    <3>4. count' = Counts(Done \cup {r})
      BY <2>2, <3>1, <3>3 DEF RecordUnlock
    <3>5. \A q \in Done \cup {r} : req'[q].status = req[q].status
      BY <1>0, <1>5, EndedStays DEF SameKind
    <3>6. Counts(Done)' = Counts(Done \cup {r})
      BY <3>2, <3>5 DEF Counts, Of
    <3> QED BY <3>1, <3>2, <3>3, <3>4, <3>6 DEF CountInv
  <2>3. CASE SnapshotRLock(r) /\ req[r].pc = "handle" /\ req'[r].pc = "read"
    <3>1. Done' = Done
      BY <1>5, <2>3 DEF OthersKept, Done
    <3> QED BY <1>1, <2>3, <3>1 DEF SnapshotRLock, CountInv
  <2>4. CASE SnapshotRUnlock(r) /\ req[r].pc = "read" /\ req'[r].pc = "handle"
    <3>1. Done' = Done
      BY <1>5, <2>4 DEF OthersKept, Done
    <3> QED BY <1>1, <2>4, <3>1 DEF SnapshotRUnlock, CountInv
  <2> QED BY <1>5, <2>1, <2>2, <2>3, <2>4 DEF Visits
<1> QED BY <1>2, <1>3, <1>4, <1>5, StepKinds

\* A whole snapshot stays what it is.
LEMMA SnappedStays ==
    ASSUME Basic, [Next]_vars, NEW r \in Requests, Snapped(r), snap'[r] = snap[r]
    PROVE  Snapped(r)'
<1>1. PICK S \in SUBSET (Ended \ {r}) : snap[r] = Counts(S)
  BY DEF Snapped
<1>2. S \in SUBSET (Ended' \ {r})
  BY EndedStays
<1>3. Counts(S)' = Counts(S)
  BY CountsStay
<1> QED BY <1>1, <1>2, <1>3 DEF Snapped

LEMMA SnapStep == Basic /\ MetricsInv /\ [Next]_vars => SnapInv'
<1> SUFFICES ASSUME Basic, MetricsInv, [Next]_vars, NEW r \in Requests, ShowsMetrics(r)'
             PROVE  SnapOK(r)'
  BY DEF SnapInv
<1>0. SnapInv /\ MutexInv /\ CountInv /\ MetricsTypeOK
  BY BasicParts DEF MetricsInv
<1>1. ASSUME req'[r] = req[r], snap'[r] = snap[r], req[r].pc = "read" => UNCHANGED count
      PROVE  SnapOK(r)'
  <2>1. SnapOK(r)
    BY <1>0, <1>1 DEF SnapInv, ShowsMetrics
  <2>2. Snapped(r) => Snapped(r)'
    BY <1>1, SnappedStays
  <2> QED BY <1>1, <2>1, <2>2 DEF SnapOK
<1>2. CASE UNCHANGED <<metricsVars, req>>
  BY <1>1, <1>2 DEF metricsVars
<1>3. CASE ProcessEnds
  <2>1. UNCHANGED snap /\ SameKind(r)
    BY <1>3, ExitEffect DEF ProcessEnds, MetricsReset, SameKind
  <2>2. SnapOK(r)
    BY <1>0, <2>1 DEF SnapInv, ShowsMetrics, SameKind
  <2>3. Snapped(r) => Snapped(r)'
    BY <2>1, SnappedStays
  <2>4. req'[r].pc = IF req[r].pc = "unsent" THEN "unsent"
                     ELSE IF req[r].pc \in {"done", "past"} THEN "past" ELSE "cut"
    BY <1>3, ExitEffect
  <2> QED BY <2>2, <2>3, <2>4 DEF SnapOK
<1>4. ASSUME NEW q \in Requests, OthersKept(q), UNCHANGED metricsVars, Passes(q)
      PROVE  SnapOK(r)'
  <2>1. CASE q # r
    BY <1>1, <1>4, <2>1 DEF OthersKept, metricsVars
  <2>2. CASE q = r /\ req[r].pc = "unsent"
    BY <1>4, <2>2 DEF Passes, SnapOK
  <2>3. CASE q = r /\ req[r].pc # "unsent"
    <3>1. SameKind(r)
      BY <1>4, <2>3 DEF Passes, ShowsMetrics
    <3>2. SnapOK(r)
      BY <1>0, <3>1 DEF SnapInv, ShowsMetrics, SameKind
    <3>3. Head(<<"snapshot">>) = "snapshot"
      OBVIOUS
    <3>4. req[r].todo = <<>> /\ req[r].pc = "handle" /\ req'[r].pc = "record" /\ Snapped(r)
      BY <1>4, <2>3, <3>2, <3>3 DEF Passes, SnapOK
    <3>5. Snapped(r)'
      BY <1>4, <3>4, SnappedStays DEF metricsVars
    <3> QED BY <3>4, <3>5 DEF SnapOK
  <2> QED BY <2>1, <2>2, <2>3
<1>5. ASSUME NEW q \in Requests, OthersKept(q), Visits(q), SameKind(q), q # r
      PROVE  SnapOK(r)'
  <2>1. req'[r] = req[r]
    BY <1>5 DEF OthersKept
  <2>2. snap'[r] = snap[r]
    BY <1>0, <1>5 DEF Visits, RecordLock, RecordUnlock, SnapshotRLock, SnapshotRUnlock,
                      MetricsTypeOK
  <2>3. req[r].pc = "read" => UNCHANGED count
    <3>1. RecordUnlock(q, req[q].status) /\ req[q].pc = "count" => req[r].pc # "read"
      BY <1>0 DEF MutexInv
    <3> QED BY <1>5, <3>1 DEF Visits, RecordLock, SnapshotRLock, SnapshotRUnlock
  <2> QED BY <1>1, <2>1, <2>2, <2>3
<1>6. ASSUME Visits(r), SameKind(r), OthersKept(r)
      PROVE  SnapOK(r)'
  <2>1. SnapOK(r)
    BY <1>0, <1>6 DEF SnapInv, ShowsMetrics, SameKind
  <2>2. CASE (RecordLock(r) /\ req[r].pc = "record" /\ req'[r].pc = "count")
             \/ (RecordUnlock(r, req[r].status) /\ req[r].pc = "count" /\ req'[r].pc = "done")
    <3>1. Snapped(r)'
      BY <2>1, <2>2, SnappedStays DEF SnapOK, RecordLock, RecordUnlock
    <3> QED BY <2>2, <3>1 DEF SnapOK
  <2>3. CASE /\ SnapshotRLock(r) /\ req[r].pc = "handle" /\ req'[r].pc = "read"
             /\ req[r].todo # <<>> /\ req'[r].todo = req[r].todo
    <3>1. req'[r].todo = <<"snapshot">>
      BY <2>1, <2>3 DEF SnapOK
    <3>2. snap'[r].total = count.total /\ UNCHANGED count
      BY <1>0, <2>3 DEF SnapshotRLock, MetricsTypeOK
    <3> QED BY <2>3, <3>1, <3>2 DEF SnapOK
  <2>4. CASE /\ SnapshotRUnlock(r) /\ req[r].pc = "read" /\ req'[r].pc = "handle"
             /\ req'[r].todo = Tail(req[r].todo)
    <3>1. req[r].todo = <<"snapshot">> /\ snap[r].total = count.total
      BY <2>1, <2>4 DEF SnapOK
    <3>2. req'[r].todo = <<>>
      BY <2>4, <3>1
    <3>3. snap'[r] = count
      <4>1. /\ snap[r] \in [total : Nat, e4xx : Nat, e5xx : Nat]
            /\ count \in [total : Nat, e4xx : Nat, e5xx : Nat]
        BY <1>0 DEF MetricsTypeOK
      <4>2. snap'[r] = [total |-> snap[r].total, e4xx |-> count.e4xx, e5xx |-> count.e5xx]
        BY <1>0, <2>4, <4>1 DEF SnapshotRUnlock, MetricsTypeOK
      <4>3. count = [total |-> count.total, e4xx |-> count.e4xx, e5xx |-> count.e5xx]
        BY <4>1
      <4> QED BY <3>1, <4>2, <4>3
    <3>4. PICK S \in SUBSET Ended : S = Done
      BY DEF Done, Ended
    <3>5. S \in SUBSET (Ended' \ {r})
      BY <2>4, <3>4, EndedStays DEF Done
    <3>6. Counts(S)' = Counts(S)
      BY CountsStay
    <3>7. Snapped(r)'
      BY <1>0, <3>3, <3>4, <3>5, <3>6 DEF Snapped, CountInv
    <3> QED BY <2>4, <3>2, <3>7 DEF SnapOK
  <2> QED BY <1>6, <2>2, <2>3, <2>4 DEF Visits
<1> QED BY <1>2, <1>3, <1>4, <1>5, <1>6, StepKinds

LEMMA MetricsStep == PoolInv /\ MetricsInv /\ [Next]_vars => MetricsInv'
BY MutexStep, CountStep, SnapStep DEF PoolInv, MetricsInv

LEMMA MetricsInvariant == Spec => [](PoolInv /\ MetricsInv)
<1>1. PoolInv /\ MetricsInv /\ [Next]_vars => (PoolInv /\ MetricsInv)'
  BY PoolStep, MetricsStep
<1> QED BY <1>1, PoolInit0, MetricsInit0, PTL DEF Spec

\* No increment of a counter is lost or done twice, in any interleaving of any
\* number of requests and over any number of crashes: RecordRequest counts each
\* finished request once.
THEOREM CountersAreExact == Spec => []CountersExact
<1>1. MetricsInv => CountersExact
  <2>1. \A C : Finished({"done"}, C) = Of(Done, C)
    BY DEF Finished, Of, Done
  <2> QED BY <2>1 DEF MetricsInv, CountInv, Counts, CountersExact
<1> QED BY <1>1, MetricsInvariant, PTL

\* The fields of a snapshot belong together, although they are read one by one.
THEOREM SnapshotsAreExact == Spec => []SnapshotExact
<1>1. PoolInv /\ MetricsInv => SnapshotExact
  <2> SUFFICES ASSUME PoolInv, MetricsInv, NEW r \in Requests, ShowsMetrics(r),
                      req[r].pc \in {"record", "count", "done", "past"}
               PROVE  \E S \in SUBSET (Finished({"done", "past"}, StatusClass) \ {r}) :
                         snap[r] = [total |-> Cardinality(S),
                                    e4xx  |-> Cardinality(S \cap Finished({"done", "past"}, {"4xx"})),
                                    e5xx  |-> Cardinality(S \cap Finished({"done", "past"}, {"5xx"}))]
    BY DEF SnapshotExact, ShowsMetrics
  <2>1. PICK S \in SUBSET (Ended \ {r}) : snap[r] = Counts(S)
    BY DEF MetricsInv, SnapInv, SnapOK, Snapped
  <2>2. req \in [Requests -> ReqType]
    BY BasicParts DEF PoolInv
  <2>3. \A q \in S : q \in Requests /\ req[q].pc \in {"done", "past"} /\ req[q].status \in StatusClass
    BY <2>2 DEF Ended, ReqType
  <2>4. S \in SUBSET (Finished({"done", "past"}, StatusClass) \ {r})
    BY <2>3 DEF Finished
  <2>5. Of(S, StatusClass) = S
    BY <2>3 DEF Of
  <2>6. \A C : Of(S, C) = S \cap Finished({"done", "past"}, C)
    BY <2>3 DEF Of, Finished
  <2> QED BY <2>1, <2>4, <2>5, <2>6 DEF Counts
<1> QED BY <1>1, MetricsInvariant, PTL

-----------------------------------------------------------------------------
(* Sessions *)

\* Every token carries the time it was signed and the time it ends.
SessionsInv == \A s \in sessions : s.exp = s.at + SessionTTL

LEMMA SessionsStep == SessionsInv /\ [Next]_vars => SessionsInv'
<1> SUFFICES ASSUME SessionsInv, [Next]_vars PROVE SessionsInv'
  OBVIOUS
<1>1. UNCHANGED sessions \/ sessions' = sessions \cup {makeToken}
  <2>1. StartProcess \/ RepairSchema \/ DirtyExit \/ Crash \/ Tick \/ UNCHANGED vars => UNCHANGED sessions
    BY DEF StartProcess, RepairSchema, DirtyExit, Crash, ProcessEnds, Tick, vars, authVars
  <2>2. JobStep => UNCHANGED sessions
    BY DEF JobStep, JobStart, JobQuery, JobTakeCursor, JobRemove, JobExec, JobTakeSecond,
           JobDeleted, JobRowsEnd, authVars
  <2>3. ASSUME NEW r \in Requests, RequestStep(r)
        PROVE  UNCHANGED sessions \/ sessions' = sessions \cup {makeToken}
    BY <2>3 DEF RequestStep, Statement, TakeHandedConn, StatementEnds, PingTimeout,
                StoreCall, TakeSnapshot, Reply, RecordRequest, authVars
  <2>4. ASSUME NEW r, NEW route, NEW cookies, Arrive(r, route, cookies)
        PROVE  UNCHANGED sessions
    BY <2>4 DEF Arrive, authVars
  <2> QED BY <2>1, <2>2, <2>3, <2>4 DEF Next
<1> QED BY <1>1 DEF SessionsInv, makeToken

LEMMA SessionsInvariant == Spec => [](PoolInv /\ SessionsInv)
<1>1. Init => SessionsInv
  BY DEF Init, SessionsInv
<1>2. PoolInv /\ SessionsInv /\ [Next]_vars => (PoolInv /\ SessionsInv)'
  BY PoolStep, SessionsStep
<1> QED BY <1>1, <1>2, PoolInit0, PTL DEF Spec

\* requireAuth lets a session in up to the last second of its SessionTTL and not
\* in the second it ends, in the process that signed it and in every later one.
THEOREM SessionsAreHonoured == Spec => SessionHonoured
<1> DEFINE A == \A r \in Requests, s \in sessions, route \in Protected :
                   Arrive(r, route, {s}) => (req'[r].pc = "handle" <=> now < s.at + SessionTTL)
<1>1. PoolInv /\ SessionsInv => A
  <2> SUFFICES ASSUME PoolInv, SessionsInv, NEW r \in Requests, NEW s \in sessions,
                      NEW route \in Protected, Arrive(r, route, {s})
               PROVE  req'[r].pc = "handle" <=> now < s.at + SessionTTL
    OBVIOUS
  <2>1. req \in [Requests -> ReqType] /\ now \in Nat /\ s \in Session
    BY BasicParts DEF PoolInv
  <2>2. authorized(route, {s}) <=> now < s.at + SessionTTL
    BY <2>1, SessionAssumption DEF authorized, verifyToken, SessionsInv, Session
  <2>3. CASE authorized(route, {s})
    BY <2>1, <2>2, <2>3 DEF Arrive
  <2>4. CASE ~authorized(route, {s})
    <3>1. req'[r].pc = "record"
      BY <2>1, <2>4 DEF Arrive
    <3> QED BY <2>2, <2>4, <3>1
  <2> QED BY <2>3, <2>4
<1> QED BY <1>1, SessionsInvariant, PTL DEF SessionHonoured
=============================================================================
