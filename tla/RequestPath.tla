---------------------------- MODULE RequestPath -----------------------------
(***************************************************************************)
(* The path of a request through one backend process: the middleware,      *)
(* requireAuth, the handler with its statements on the connection pool and *)
(* its calls to the object store, the reply, and RecordRequest; together   *)
(* with the start of the process, the cleanup job on the same pool, and    *)
(* crashes. What the statements do to the data is in FileDrop and Accounts.*)
(***************************************************************************)
EXTENDS Startup, Metrics, Sequences, FiniteSets

CONSTANTS
    RoutesOf,       \* the routes each request may be sent to
    SessionTTL,     \* AuthConfig.ttl
    MaxTime,        \* bound on the clock
    MaxCrashes      \* bound on crashes and failed starts of the process

Owner == Requests \cup {"job", "migrate"}

ASSUME OwnerAssumption == Nobody \notin Owner \cup Conn /\ "job" \notin Requests /\ "migrate" \notin Requests
ASSUME PoolAssumption == \E a, b, c \in Conn : a # b /\ b # c /\ a # c
ASSUME SessionAssumption == SessionTTL \in Nat \ {0} /\ MaxTime \in Nat /\ MaxCrashes \in Nat

VARIABLES
    req,        \* state of each request
    job,        \* where runCleanup is
    cursor,     \* the connection of its rows
    now,        \* wall clock
    sessions,   \* the session tokens signed so far
    crashes     \* crashes and failed starts so far

procVars == <<boot, schema>>
jobVars  == <<job, cursor>>
authVars == <<now, sessions>>
vars == <<poolVars, procVars, metricsVars, req, jobVars, authVars, crashes>>

-----------------------------------------------------------------------------
(* Handlers: the calls a request makes, in order, and the status it ends    *)
(* with. "db" is a statement, "store" a call to MinIO, "ping" the statement *)
(* of /ready with its deadline, "snapshot" the one of /metrics.             *)

Call == {"db", "store", "ping", "snapshot"}
Runs(calls, statuses) == {[calls |-> calls, status |-> s] : s \in statuses}

loginHandler == Runs(<<>>, {"4xx"}) \cup Runs(<<"db">>, {"2xx", "4xx"}) \cup Runs(<<"db", "db">>, {"2xx"})
RegisterHandler ==
    Runs(<<>>, {"4xx"}) \cup Runs(<<"db">>, {"4xx", "5xx"}) \cup Runs(<<"db", "db">>, {"2xx", "5xx"})
createFileHandler == Runs(<<>>, {"4xx"}) \cup Runs(<<"db">>, {"2xx", "5xx"})
createLinkHandler == Runs(<<>>, {"4xx"}) \cup Runs(<<"db">>, StatusClass)
uploadHandler ==
    Runs(<<>>, {"4xx", "5xx"}) \cup Runs(<<"db">>, {"4xx", "5xx"})
        \cup Runs(<<"db", "store", "db">>, {"4xx", "5xx"})
        \cup Runs(<<"db", "store", "db", "store", "db">>, {"2xx", "5xx"})
downloadHandler ==
    Runs(<<>>, {"4xx"}) \cup Runs(<<"db">>, {"4xx", "5xx"}) \cup Runs(<<"db", "store">>, {"2xx", "5xx"})
AdminListFilesHandler == Runs(<<>>, {"4xx"}) \cup Runs(<<"db">>, {"2xx", "5xx"})
AdminDeleteFileHandler ==
    Runs(<<>>, {"4xx"}) \cup Runs(<<"db">>, {"4xx"})
        \cup Runs(<<"db", "db">>, StatusClass) \cup Runs(<<"db", "store", "db">>, StatusClass)

\* At most one row is expired when the handler looks.
AdminManualCleanupHandler ==
    Runs(<<>>, {"4xx", "5xx"}) \cup Runs(<<"db">>, {"2xx", "5xx"})
        \cup Runs(<<"db", "db">>, {"2xx"}) \cup Runs(<<"db", "store", "db">>, {"2xx"})

\* db.PingContext, then BucketExists.
readyHandler == Runs(<<"ping">>, {"5xx"}) \cup Runs(<<"ping", "store">>, {"2xx", "5xx"})
metricsHandler == Runs(<<"snapshot">>, {"2xx"})

\* The routes without calls: /health, /version and /me.
plainHandler == Runs(<<>>, {"2xx"})

Handler(route) ==
    CASE route = "login"          -> loginHandler
      [] route = "register"       -> RegisterHandler
      [] route = "files"          -> createFileHandler
      [] route = "links"          -> createLinkHandler
      [] route = "upload"         -> uploadHandler
      [] route = "download"       -> downloadHandler
      [] route = "admin list"     -> AdminListFilesHandler
      [] route = "admin delete"   -> AdminDeleteFileHandler
      [] route = "admin cleanup"  -> AdminManualCleanupHandler
      [] route = "ready"          -> readyHandler
      [] route = "metrics"        -> metricsHandler
      [] OTHER                    -> plainHandler

Route == {"login", "register", "files", "links", "upload", "download", "admin list",
          "admin delete", "admin cleanup", "ready", "metrics", "me", "health"}

\* The routes behind requireAuth.
Protected == Route \ {"login", "register", "download", "ready", "health"}

ASSUME RouteAssumption == RoutesOf \in [Requests -> SUBSET Route]

ReqPC == {"unsent", "handle", "wait", "using", "read", "record", "count",
          "done", "past", "cut"}

Session == [at : Nat, exp : Nat]

TypeOK ==
    /\ StartupTypeOK /\ MetricsTypeOK
    /\ owner \in [Conn -> Owner \cup {Nobody}]
    /\ waiting \subseteq Owner
    /\ req \in [Requests -> [pc : ReqPC, route : Route, todo : Seq(Call), status : StatusClass]]
    /\ job \in {"stopped", "idle", "wait cursor", "rows", "exec", "wait delete", "deleting"}
    /\ cursor \in Conn \cup {Nobody}
    /\ now \in Nat /\ sessions \subseteq Session /\ crashes \in Nat

Init ==
    /\ PoolInit /\ StartupInit /\ MetricsInit
    /\ req = [r \in Requests |-> [pc |-> "unsent", route |-> "health", todo |-> <<>>,
                                  status |-> "2xx"]]
    /\ job = "stopped" /\ cursor = Nobody
    /\ now = 0 /\ sessions = {} /\ crashes = 0

-----------------------------------------------------------------------------
(* Sessions *)

makeToken == [at |-> now, exp |-> now + SessionTTL]

\* Mutant of verifyToken: a token is good in the second it expires.
verifyTokenLate(s) == s.exp >= now

verifyToken(s) == s.exp > now

\* requireAuth with the cookies of a request, none or one.
authorized(route, cookies) == route \in Protected => \E s \in cookies : verifyToken(s)

-----------------------------------------------------------------------------
(* Requests *)

Goto(r, label) == req' = [req EXCEPT ![r].pc = label]

\* The call at hand has ended; the handler goes on.
CallEnds(r) == req' = [req EXCEPT ![r].pc = "handle", ![r].todo = Tail(@)]

AtCall(r, calls) == /\ req[r].pc = "handle" /\ req[r].todo # <<>>
                    /\ Head(req[r].todo) \in calls

\* requestIDMiddleware, loggingMiddleware and requireAuth: the request gets to
\* its handler, or is refused with 401. Its run is fixed by how its calls end.
Arrive(r, route, cookies) ==
    /\ boot = "serving" /\ req[r].pc = "unsent"
    /\ \/ /\ authorized(route, cookies)
          /\ \E run \in Handler(route) :
                req' = [req EXCEPT ![r] = [pc |-> "handle", route |-> route,
                                           todo |-> run.calls, status |-> run.status]]
       \/ /\ ~authorized(route, cookies)
          /\ req' = [req EXCEPT ![r] = [pc |-> "record", route |-> route,
                                        todo |-> <<>>, status |-> "4xx"]]
    /\ UNCHANGED <<poolVars, procVars, metricsVars, jobVars, authVars, crashes>>

\* QueryRow, Query, Exec or Ping asks the pool for a connection.
Statement(r) ==
    /\ AtCall(r, {"db", "ping"})
    /\ GetConn(r)
    /\ Goto(r, IF r \in waiting' THEN "wait" ELSE "using")
    /\ UNCHANGED <<procVars, metricsVars, jobVars, authVars, crashes>>

\* A goroutine that waited finds the connection handed to it.
TakeHandedConn(r) ==
    /\ req[r].pc = "wait" /\ Held(r) # {}
    /\ Goto(r, "using")
    /\ UNCHANGED <<poolVars, procVars, metricsVars, jobVars, authVars, crashes>>

\* Mutant of StatementEnds: the row is never scanned, the connection kept.
StatementKeepsConn(r) ==
    /\ req[r].pc = "using"
    /\ CallEnds(r)
    /\ UNCHANGED <<poolVars, procVars, metricsVars, jobVars, authVars, crashes>>

\* The statement is executed, its row scanned or its rows read to the end.
StatementEnds(r) ==
    /\ req[r].pc = "using"
    /\ \E c \in Held(r) : PutConn(c)
    /\ CallEnds(r)
    /\ UNCHANGED <<procVars, metricsVars, jobVars, authVars, crashes>>

\* /ready: the second is over while the ping waits; 503.
PingTimeout(r) ==
    /\ req[r].pc = "wait" /\ Head(req[r].todo) = "ping"
    /\ Abandon(r)
    /\ req' = [req EXCEPT ![r] = [@ EXCEPT !.pc = "handle", !.todo = <<>>, !.status = "5xx"]]
    /\ UNCHANGED <<procVars, metricsVars, jobVars, authVars, crashes>>

\* A call to MinIO ends; the handler has no connection meanwhile.
StoreCall(r) ==
    /\ AtCall(r, {"store"})
    /\ CallEnds(r)
    /\ UNCHANGED <<poolVars, procVars, metricsVars, jobVars, authVars, crashes>>

TakeSnapshot(r) ==
    /\ \/ AtCall(r, {"snapshot"}) /\ SnapshotRLock(r) /\ Goto(r, "read")
       \/ req[r].pc = "read" /\ SnapshotRUnlock(r) /\ CallEnds(r)
    /\ UNCHANGED <<poolVars, procVars, jobVars, authVars, crashes>>

\* The handler returns; a login that succeeds has set a cookie.
Reply(r) ==
    /\ req[r].pc = "handle" /\ req[r].todo = <<>>
    /\ sessions' = IF req[r].route = "login" /\ req[r].status = "2xx"
                   THEN sessions \cup {makeToken} ELSE sessions
    /\ Goto(r, "record")
    /\ UNCHANGED <<poolVars, procVars, metricsVars, jobVars, now, crashes>>

\* loggingMiddleware after the handler.
RecordRequest(r) ==
    /\ \/ req[r].pc = "record" /\ RecordLock(r) /\ Goto(r, "count")
       \/ req[r].pc = "count" /\ RecordUnlock(r, req[r].status) /\ Goto(r, "done")
    /\ UNCHANGED <<poolVars, procVars, jobVars, authVars, crashes>>

RequestStep(r) ==
    \/ Statement(r) \/ TakeHandedConn(r) \/ StatementEnds(r) \/ PingTimeout(r)
    \/ StoreCall(r) \/ TakeSnapshot(r) \/ Reply(r) \/ RecordRequest(r)

-----------------------------------------------------------------------------
(* runCleanup on the pool *)

\* Start runs the job at once.
JobStart ==
    /\ boot = "serving" /\ job = "stopped"
    /\ job' = "idle"
    /\ UNCHANGED <<poolVars, procVars, metricsVars, req, cursor, authVars, crashes>>

\* The ticker fires; QueryContext asks for the connection of its rows.
JobQuery ==
    /\ job = "idle"
    /\ GetConn("job")
    /\ \/ "job" \in waiting' /\ job' = "wait cursor" /\ UNCHANGED cursor
       \/ "job" \notin waiting' /\ job' = "rows" /\ cursor' \in {c \in Conn : owner'[c] = "job"}
    /\ UNCHANGED <<procVars, metricsVars, req, authVars, crashes>>

JobTakeCursor ==
    /\ job = "wait cursor" /\ Held("job") # {}
    /\ job' = "rows" /\ cursor' \in Held("job")
    /\ UNCHANGED <<poolVars, procVars, metricsVars, req, authVars, crashes>>

\* rows.Next, and RemoveObject for the row.
JobRemove ==
    /\ job = "rows"
    /\ job' = "exec"
    /\ UNCHANGED <<poolVars, procVars, metricsVars, req, cursor, authVars, crashes>>

\* ExecContext asks for a second connection, the first still open.
JobExec ==
    /\ job = "exec"
    /\ GetConn("job")
    /\ job' = IF "job" \in waiting' THEN "wait delete" ELSE "deleting"
    /\ UNCHANGED <<procVars, metricsVars, req, cursor, authVars, crashes>>

JobTakeSecond ==
    /\ job = "wait delete" /\ Held("job") # {cursor}
    /\ job' = "deleting"
    /\ UNCHANGED <<poolVars, procVars, metricsVars, req, cursor, authVars, crashes>>

\* Mutant of JobDeleted: a DELETE is done again instead of the next row.
JobDeletesAgain ==
    /\ job = "deleting"
    /\ \E c \in Held("job") \ {cursor} : PutConn(c)
    /\ job' = "exec"
    /\ UNCHANGED <<procVars, metricsVars, req, cursor, authVars, crashes>>

\* The DELETE is done.
JobDeleted ==
    /\ job = "deleting"
    /\ \E c \in Held("job") \ {cursor} : PutConn(c)
    /\ job' = "rows"
    /\ UNCHANGED <<procVars, metricsVars, req, cursor, authVars, crashes>>

\* Mutant of JobRowsEnd: rows.Close is missing.
JobKeepsRows ==
    /\ job = "rows"
    /\ job' = "idle" /\ cursor' = Nobody
    /\ UNCHANGED <<poolVars, procVars, metricsVars, req, authVars, crashes>>

\* The rows are read to the end or the query failed: rows.Close.
JobRowsEnd ==
    /\ job = "rows"
    /\ PutConn(cursor)
    /\ job' = "idle" /\ cursor' = Nobody
    /\ UNCHANGED <<procVars, metricsVars, req, authVars, crashes>>

JobStep ==
    \/ JobStart \/ JobQuery \/ JobTakeCursor \/ JobRemove \/ JobExec
    \/ JobTakeSecond \/ JobDeleted \/ JobRowsEnd

-----------------------------------------------------------------------------
(* The process *)

\* The process is gone, with its pool, its counters and its requests.
ProcessEnds ==
    /\ boot' = "down"
    /\ owner' = [c \in Conn |-> Nobody] /\ waiting' = {}
    /\ MetricsReset
    /\ req' = [r \in Requests |->
                 [req[r] EXCEPT !.pc = IF @ = "unsent" THEN @
                                       ELSE IF @ \in {"done", "past"} THEN "past" ELSE "cut",
                                !.todo = <<>>]]
    /\ job' = "stopped" /\ cursor' = Nobody
    /\ UNCHANGED authVars

DirtyExit == DirtyFound /\ ProcessEnds /\ UNCHANGED crashes

\* A crash, or the exit of a start that fails.
Crash ==
    /\ boot # "down" /\ crashes < MaxCrashes
    /\ crashes' = crashes + 1
    /\ UNCHANGED schema \/ StartupFails
    /\ ProcessEnds

Tick ==
    /\ now < MaxTime
    /\ now' = now + 1
    /\ UNCHANGED <<poolVars, procVars, metricsVars, req, jobVars, sessions, crashes>>

StartProcess == StartupNext /\ UNCHANGED <<metricsVars, req, jobVars, authVars, crashes>>
RepairSchema == Repair /\ UNCHANGED <<metricsVars, req, jobVars, authVars, crashes>>

Next ==
    \/ StartProcess \/ RepairSchema \/ DirtyExit \/ Crash \/ Tick \/ JobStep
    \/ \E r \in Requests :
          \/ \E route \in RoutesOf[r], cookies \in {{}} \cup {{s} : s \in sessions} :
                Arrive(r, route, cookies)
          \/ RequestStep(r)

Spec == Init /\ [][Next]_vars

\* Goroutines are scheduled, and a statement or a call to MinIO ends. The rows
\* of a run end (LIMIT 100). The container runtime starts the process again.
\* Nobody has to repair a schema.
Fairness ==
    /\ \A r \in Requests : WF_vars(RequestStep(r))
    /\ WF_vars(JobStep) /\ SF_vars(JobRowsEnd)
    /\ WF_vars(StartProcess)

FairSpec == Spec /\ Fairness

-----------------------------------------------------------------------------
\* A connection in use belongs to a goroutine that is at a statement or at its
\* rows, and to no request twice: nothing takes a connection along to a call to
\* MinIO, to its reply or to its end, whatever timed out or failed.
NoLeak ==
    /\ \A c \in Conn, r \in Requests : owner[c] = r => req[r].pc \in {"wait", "using"}
    /\ \A r \in Requests : \A c, d \in Held(r) : c = d
    /\ \A c \in Held("job") \ {cursor} : job \in {"wait cursor", "wait delete", "deleting"}

\* The goroutines that can go on: not waiting, and not the migration driver,
\* which keeps its connection for ever.
Running == Owner \ (waiting \cup {"migrate"})

\* The pool never locks up: as long as somebody waits for a connection, one is
\* in the hands of a goroutine that goes on and will give it back, although the
\* cleanup job waits for its second connection with the first one in its hands
\* and the migration driver never gives its own back.
PoolNotStuck == waiting # {} => \E c \in Conn : owner[c] \in Running

\* A process that serves requests runs on the whole schema: every migration was
\* executed and none is marked dirty, wherever earlier processes died.
ServesOnCompleteSchema ==
    boot = "serving" => schema = Row(Migrations, FALSE, Migrations)

Finished(pcs, classes) == {r \in Requests : req[r].pc \in pcs /\ req[r].status \in classes}

\* Between two updates the counters are the exact numbers of requests that this
\* process has finished, by class: no increment is lost, none is done twice.
CountersExact ==
    writer = {} => count = [total |-> Cardinality(Finished({"done"}, StatusClass)),
                            e4xx  |-> Cardinality(Finished({"done"}, {"4xx"})),
                            e5xx  |-> Cardinality(Finished({"done"}, {"5xx"}))]

\* What /metrics shows is the count of one set of requests, finished and other
\* than itself: the fields of a snapshot belong together.
SnapshotExact ==
    \A r \in Requests :
        (req[r].route = "metrics" /\ req[r].status = "2xx" /\ req[r].pc \in {"record", "count", "done", "past"})
            => \E S \in SUBSET (Finished({"done", "past"}, StatusClass) \ {r}) :
                  snap[r] = [total |-> Cardinality(S),
                             e4xx  |-> Cardinality(S \cap Finished({"done", "past"}, {"4xx"})),
                             e5xx  |-> Cardinality(S \cap Finished({"done", "past"}, {"5xx"}))]

\* A session is good for exactly SessionTTL from its login, in every process
\* that has the secret: a request to a protected route with its cookie gets to
\* the handler before that, and after it is refused.
SessionHonoured ==
    [][\A r \in Requests, s \in sessions, route \in Protected :
          Arrive(r, route, {s}) => (req'[r].pc = "handle" <=> now < s.at + SessionTTL)]_vars

\* Every request that arrives is answered and counted, or its process ends: not
\* the pool, not the mutex of the counters, not the cleanup job keeps it.
RequestCounted ==
    \A r \in Requests : req[r].pc # "unsent" ~> req[r].pc \in {"done", "past", "cut"}

\* A cleanup run ends, although it needs two connections of a busy pool.
CleanupRunEnds == job # "idle" ~> job \in {"idle", "stopped"}

\* A backend that is down comes up, again and again and with migrations pending
\* or not, unless a process died and left a migration dirty: then it stays down
\* until an operator repairs the schema.
ServesUnlessDirty == boot = "down" ~> (boot = "serving" \/ (boot = "down" /\ schema.dirty))
=============================================================================
