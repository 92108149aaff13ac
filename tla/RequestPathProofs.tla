------------------------- MODULE RequestPathProofs --------------------------
(***************************************************************************)
(* For any number of requests, any routes, any pool of at least three      *)
(* connections and any number of crashes: the variables of RequestPath     *)
(* keep their types, no connection leaks, the pool never locks up, and a   *)
(* serving process runs on the whole schema.                               *)
(***************************************************************************)
EXTENDS RequestPath, TLAPS

Handling == [calls : Seq(Call), status : StatusClass]

\* The calls of a handler are a sequence of calls, its status a status.
LEMMA HandlerType == ASSUME NEW route \in Route PROVE Handler(route) \subseteq Handling
<1>1. ASSUME NEW calls \in Seq(Call), NEW S \in SUBSET StatusClass
      PROVE  Runs(calls, S) \subseteq Handling
  BY <1>1 DEF Runs, Handling
<1>2. /\ <<>> \in Seq(Call) /\ <<"db">> \in Seq(Call) /\ <<"db", "db">> \in Seq(Call)
      /\ <<"db", "store">> \in Seq(Call) /\ <<"db", "store", "db">> \in Seq(Call)
      /\ <<"db", "store", "db", "store", "db">> \in Seq(Call)
      /\ <<"ping">> \in Seq(Call) /\ <<"ping", "store">> \in Seq(Call)
      /\ <<"snapshot">> \in Seq(Call)
  BY DEF Call
<1>3. /\ {"2xx"} \in SUBSET StatusClass /\ {"4xx"} \in SUBSET StatusClass
      /\ {"5xx"} \in SUBSET StatusClass /\ {"2xx", "4xx"} \in SUBSET StatusClass
      /\ {"2xx", "5xx"} \in SUBSET StatusClass /\ {"4xx", "5xx"} \in SUBSET StatusClass
      /\ StatusClass \in SUBSET StatusClass
  BY DEF StatusClass
<1>4. /\ loginHandler \subseteq Handling /\ RegisterHandler \subseteq Handling
      /\ createFileHandler \subseteq Handling /\ createLinkHandler \subseteq Handling
      /\ uploadHandler \subseteq Handling /\ downloadHandler \subseteq Handling
  BY <1>1, <1>2, <1>3 DEF loginHandler, RegisterHandler, createFileHandler, createLinkHandler,
                          uploadHandler, downloadHandler
<1>5. /\ AdminListFilesHandler \subseteq Handling /\ AdminDeleteFileHandler \subseteq Handling
      /\ AdminManualCleanupHandler \subseteq Handling /\ readyHandler \subseteq Handling
      /\ metricsHandler \subseteq Handling /\ plainHandler \subseteq Handling
  BY <1>1, <1>2, <1>3 DEF AdminListFilesHandler, AdminDeleteFileHandler,
                          AdminManualCleanupHandler, readyHandler, metricsHandler, plainHandler
<1> QED BY <1>4, <1>5 DEF Handler

-----------------------------------------------------------------------------
(* The pool *)

PoolTypeOK == owner \in [Conn -> Owner \cup {Nobody}] /\ waiting \subseteq Owner

\* Nobody waits while a connection is free.
NoIdle == waiting # {} => \A c \in Conn : owner[c] # Nobody

\* What GetConn does, with the connection it picks.
LEMMA GetConnEffect ==
    ASSUME NEW o \in Owner, GetConn(o)
    PROVE  \/ \E c \in Conn : /\ owner[c] = Nobody
                              /\ owner' = [owner EXCEPT ![c] = o] /\ waiting' = waiting
           \/ /\ \A c \in Conn : owner[c] # Nobody
              /\ owner' = owner /\ waiting' = waiting \cup {o}
<1>1. CASE Free # {} /\ owner' = [owner EXCEPT ![CHOOSE c \in Free : TRUE] = o] /\ UNCHANGED waiting
  <2> DEFINE c == CHOOSE c \in Free : TRUE
  <2>1. c \in Free BY <1>1
  <2> QED BY <1>1, <2>1 DEF Free
<1>2. CASE Free = {} /\ waiting' = waiting \cup {o} /\ UNCHANGED owner
  BY <1>2 DEF Free
<1> QED BY <1>1, <1>2 DEF GetConn

\* GetConn and PutConn keep the pool's types, and nobody waits beside a free one.
LEMMA GetConnPool ==
    ASSUME NEW o \in Owner, PoolTypeOK, NoIdle, GetConn(o)
    PROVE  PoolTypeOK' /\ NoIdle'
<1>1. CASE \E c \in Conn : owner[c] = Nobody /\ owner' = [owner EXCEPT ![c] = o] /\ waiting' = waiting
  BY <1>1, OwnerAssumption DEF PoolTypeOK, NoIdle
<1>2. CASE (\A c \in Conn : owner[c] # Nobody) /\ owner' = owner /\ waiting' = waiting \cup {o}
  BY <1>2 DEF PoolTypeOK, NoIdle
<1> QED BY <1>1, <1>2, GetConnEffect

\* The same of PutConn.
LEMMA PutConnPool ==
    ASSUME NEW d, PoolTypeOK, NoIdle, PutConn(d)
    PROVE  PoolTypeOK' /\ NoIdle'
<1>1. CASE waiting = {} /\ owner' = [owner EXCEPT ![d] = Nobody] /\ UNCHANGED waiting
  BY <1>1 DEF PoolTypeOK, NoIdle
<1>2. CASE \E w \in waiting : owner' = [owner EXCEPT ![d] = w] /\ waiting' = waiting \ {w}
  BY <1>2, OwnerAssumption DEF PoolTypeOK, NoIdle
<1> QED BY <1>1, <1>2 DEF PutConn

-----------------------------------------------------------------------------
(* Types *)

\* A request at a call has one.
AtCallInv == \A r \in Requests : req[r].pc \in {"wait", "using", "read"} => req[r].todo # <<>>

\* A clean version is one that was executed; a dirty one may have been.
SchemaInv ==
    /\ schema.dirty => /\ schema.version > 0
                       /\ schema.applied \in {schema.version - 1, schema.version}
    /\ ~schema.dirty => schema.applied = schema.version
    /\ boot = "body" => schema.dirty
    /\ boot = "clean" => schema.dirty /\ schema.applied = schema.version
    /\ boot \in {"wire", "serving"} => ~schema.dirty /\ schema.version = Migrations

Basic == TypeOK /\ NoIdle /\ AtCallInv /\ SchemaInv

\* The basic invariant holds when nothing has been started.
LEMMA BasicInit == Init => Basic
<1> SUFFICES ASSUME Init PROVE Basic OBVIOUS
<1> USE DEF Init, PoolInit, StartupInit, MetricsInit
<1>1. StartupTypeOK
  BY MigrationsAssumption DEF StartupTypeOK, Boot, Schema, Row
<1>2. MetricsTypeOK
  BY DEF MetricsTypeOK, Zero
<1>3. req \in [Requests -> [pc : ReqPC, route : Route, todo : Seq(Call), status : StatusClass]]
  <2>1. <<>> \in Seq(Call) OBVIOUS
  <2> QED BY <2>1 DEF ReqPC, Route, StatusClass
<1> QED BY <1>1, <1>2, <1>3 DEF Basic, TypeOK, NoIdle, AtCallInv, SchemaInv, Owner, Row

\* Steps of requests: what they do to req.
ReqType == [pc : ReqPC, route : Route, todo : Seq(Call), status : StatusClass]

\* A request that goes on to a label keeps its type.
LEMMA GotoType ==
    ASSUME req \in [Requests -> ReqType], NEW r \in Requests, NEW label \in ReqPC, Goto(r, label)
    PROVE  req' \in [Requests -> ReqType]
BY DEF Goto, ReqType

\* A request whose call ends keeps its type.
LEMMA CallEndsType ==
    ASSUME req \in [Requests -> ReqType], NEW r \in Requests, CallEnds(r), req[r].todo # <<>>
    PROVE  req' \in [Requests -> ReqType]
<1>1. Tail(req[r].todo) \in Seq(Call)
  BY DEF ReqType
<1>2. "handle" \in ReqPC BY DEF ReqPC
<1> QED BY <1>1, <1>2 DEF CallEnds, ReqType

SchemaOK == StartupTypeOK /\ SchemaInv

\* A migration is marked dirty.
LEMMA SchemaUp ==
    ASSUME SchemaOK, ~schema.dirty, schema.version < Migrations,
           schema' = Row(schema.version + 1, TRUE, schema.applied), boot' \in {"body", "down"}
    PROVE  SchemaOK'
<1>1. /\ schema.version \in 0..Migrations /\ schema.applied \in 0..Migrations
      /\ schema.version + 1 \in 0..Migrations
  BY MigrationsAssumption DEF SchemaOK, StartupTypeOK, Schema
<1>2. schema' \in Schema
  BY <1>1 DEF Schema, Row
<1>3. schema'.dirty /\ schema'.version = schema.version + 1 /\ schema'.applied = schema.applied
  BY DEF Row
<1>4. schema.applied = schema.version
  BY DEF SchemaOK, SchemaInv
<1>5. schema'.version - 1 = schema'.applied /\ schema'.version > 0
  <2>1. schema.version \in Nat BY <1>1
  <2>2. schema'.version = schema.version + 1 /\ schema'.applied = schema.version
    BY <1>3, <1>4
  <2>3. \A v \in Nat : (v + 1) - 1 = v /\ v + 1 > 0 OBVIOUS
  <2> QED BY <2>1, <2>2, <2>3
<1>6. SchemaInv'
  BY <1>3, <1>5 DEF SchemaInv
<1> QED BY <1>2, <1>6 DEF SchemaOK, StartupTypeOK, Boot

\* Any other change of the schema is one of a migration that is dirty.
LEMMA SchemaChange ==
    ASSUME SchemaOK, schema.dirty,
           \/ /\ schema' = Row(schema.version, schema.dirty, schema.version)
              /\ boot' \in {"clean", "down"}
           \/ /\ schema' = Row(schema.version, FALSE, schema.version)
              /\ boot' \in {"migrate", "down"}
           \/ /\ schema' = Row(schema.version - 1, FALSE, schema.version - 1)
              /\ boot' \in {"migrate", "down"}
    PROVE  SchemaOK'
<1>1. schema.version \in 0..Migrations /\ schema.version - 1 \in 0..Migrations
  BY MigrationsAssumption DEF SchemaOK, StartupTypeOK, Schema, SchemaInv
<1>2. CASE schema' = Row(schema.version, schema.dirty, schema.version) /\ boot' \in {"clean", "down"}
  <2>1. schema' \in Schema BY <1>1, <1>2 DEF Schema, Row, SchemaOK, StartupTypeOK
  <2>2. schema'.dirty /\ schema'.version = schema.version /\ schema'.applied = schema.version
    BY <1>2 DEF Row
  <2> QED BY <1>1, <1>2, <2>1, <2>2 DEF SchemaOK, StartupTypeOK, SchemaInv, Boot
<1>3. ASSUME NEW v \in 0..Migrations, schema' = Row(v, FALSE, v), boot' \in {"migrate", "down"}
      PROVE  SchemaOK'
  <2>1. schema' \in Schema BY <1>3 DEF Schema, Row
  <2>2. ~schema'.dirty /\ schema'.version = v /\ schema'.applied = v
    BY <1>3 DEF Row
  <2> QED BY <1>3, <2>1, <2>2 DEF SchemaOK, StartupTypeOK, SchemaInv, Boot
<1> QED BY <1>1, <1>2, <1>3

\* A step that leaves the schema alone and does not get to serving.
LEMMA SchemaKept ==
    ASSUME SchemaOK, schema' = schema,
           \/ boot' = boot
           \/ boot' \in {"down", "open", "driver", "migrate"}
           \/ boot' = "wire" /\ ~schema.dirty /\ schema.version = Migrations
           \/ boot' = "serving" /\ boot = "wire"
    PROVE  SchemaOK'
BY DEF SchemaOK, StartupTypeOK, SchemaInv, Boot

\* Every step of the start, of a repair and of an exit keeps the schema in order.
LEMMA SchemaStep ==
    ASSUME SchemaOK,
           \/ StartupNext \/ Repair
           \/ (DirtyFound \/ StartupFails) /\ boot' = "down"
    PROVE  SchemaOK'
<1>1. CASE Start \/ OpenDB \/ WithInstance \/ NewServer
  BY <1>1, SchemaKept DEF Start, OpenDB, WithInstance, NewServer
<1>2. CASE MigrateUp
  BY <1>2, SchemaUp, SchemaKept DEF MigrateUp
<1>3. CASE MigrateBody
  BY <1>3, SchemaChange DEF MigrateBody, SchemaOK, SchemaInv
<1>4. CASE MigrateClean
  <2>1. schema.dirty /\ schema.applied = schema.version
    BY <1>4 DEF MigrateClean, SchemaOK, SchemaInv
  <2> QED BY <1>4, <2>1, SchemaChange DEF MigrateClean
<1>5. CASE Repair
  <2>1. boot' \in {"migrate", "down"} BY <1>5 DEF Repair
  <2> QED BY <1>5, <2>1, SchemaChange DEF Repair
<1>6. CASE DirtyFound /\ boot' = "down"
  BY <1>6, SchemaKept DEF DirtyFound
<1>7. CASE StartupFails /\ boot' = "down"
  <2>1. CASE UNCHANGED schema BY <1>7, <2>1, SchemaKept
  <2>2. CASE /\ boot = "migrate" /\ ~schema.dirty /\ schema.version < Migrations
             /\ schema' = Row(schema.version + 1, TRUE, schema.applied)
    BY <1>7, <2>2, SchemaUp
  <2>3. CASE boot = "body" /\ schema' = Row(schema.version, schema.dirty, schema.version)
    BY <1>7, <2>3, SchemaChange DEF SchemaOK, SchemaInv
  <2>4. CASE boot = "clean" /\ schema' = Row(schema.version, FALSE, schema.applied)
    <3>1. schema.dirty /\ schema.applied = schema.version
      BY <2>4 DEF SchemaOK, SchemaInv
    <3> QED BY <1>7, <2>4, <3>1, SchemaChange
  <2> QED BY <1>7, <2>1, <2>2, <2>3, <2>4 DEF StartupFails
<1> QED BY <1>1, <1>2, <1>3, <1>4, <1>5, <1>6, <1>7 DEF StartupNext

\* The steps of main and the repair of an operator keep the basic invariant.
LEMMA BasicStartup ==
    ASSUME Basic, StartProcess \/ RepairSchema PROVE Basic'
<1>1. PoolTypeOK' /\ NoIdle'
  <2>1. CASE UNCHANGED poolVars
    BY <2>1 DEF Basic, TypeOK, PoolTypeOK, NoIdle, poolVars
  <2>2. CASE GetConn("migrate")
    BY <2>2, GetConnPool DEF Basic, TypeOK, PoolTypeOK, Owner
  <2> QED BY <2>1, <2>2 DEF StartProcess, RepairSchema, StartupNext, Start, OpenDB, WithInstance,
                            MigrateUp, MigrateBody, MigrateClean, NewServer, Repair
<1>2. SchemaOK'
  BY SchemaStep DEF Basic, TypeOK, SchemaOK, StartProcess, RepairSchema
<1>3. MetricsTypeOK'
  BY DEF Basic, TypeOK, MetricsTypeOK, metricsVars, StartProcess, RepairSchema
<1>4. AtCallInv'
  BY DEF Basic, AtCallInv, StartProcess, RepairSchema
<1> QED BY <1>1, <1>2, <1>3, <1>4
        DEF Basic, TypeOK, PoolTypeOK, SchemaOK, jobVars, authVars, StartProcess, RepairSchema

\* So do the ends of the process.
LEMMA BasicExit ==
    ASSUME Basic, DirtyExit \/ Crash PROVE Basic'
<1>1. SchemaOK'
  <2>1. CASE UNCHANGED schema /\ boot' = "down"
    BY <2>1, SchemaKept DEF Basic, TypeOK, SchemaOK
  <2>2. CASE (DirtyFound \/ StartupFails) /\ boot' = "down"
    BY <2>2, SchemaStep DEF Basic, TypeOK, SchemaOK
  <2> QED BY <2>1, <2>2 DEF DirtyExit, Crash, ProcessEnds
<1>2. /\ MetricsTypeOK /\ req \in [Requests -> ReqType] /\ crashes \in Nat
      /\ now \in Nat /\ sessions \subseteq Session
  BY DEF Basic, TypeOK, ReqType
<1>3. ProcessEnds /\ crashes' \in {crashes, crashes + 1}
  BY DEF DirtyExit, Crash
<1>4. MetricsTypeOK'
  <2>1. Zero \in [total : Nat, e4xx : Nat, e5xx : Nat] BY DEF Zero
  <2> QED BY <1>2, <1>3, <2>1 DEF MetricsTypeOK, MetricsReset, ProcessEnds
<1>5. req' \in [Requests -> ReqType] /\ AtCallInv'
  <2>1. <<>> \in Seq(Call) OBVIOUS
  <2> DEFINE label(r) == IF req[r].pc = "unsent" THEN "unsent"
                         ELSE IF req[r].pc \in {"done", "past"} THEN "past" ELSE "cut"
  <2>2. req' = [r \in Requests |-> [req[r] EXCEPT !.pc = label(r), !.todo = <<>>]]
    BY <1>3, <1>2 DEF ProcessEnds, ReqType
  <2>3. ASSUME NEW r \in Requests
        PROVE  req'[r] \in ReqType /\ req'[r].pc \in {"unsent", "past", "cut"}
    <3>1. req'[r] = [req[r] EXCEPT !.pc = label(r), !.todo = <<>>] BY <2>2
    <3>2. label(r) \in {"unsent", "past", "cut"} OBVIOUS
    <3>3. req[r] \in ReqType BY <1>2
    <3> HIDE DEF label
    <3> QED BY <2>1, <3>1, <3>2, <3>3 DEF ReqType, ReqPC
  <2>4. req' \in [Requests -> ReqType] BY <2>2, <2>3
  <2> QED BY <2>3, <2>4 DEF AtCallInv
<1>6. PoolTypeOK' /\ NoIdle'
  BY <1>3 DEF PoolTypeOK, NoIdle, ProcessEnds
<1>7. now' \in Nat /\ sessions' \subseteq Session /\ crashes' \in Nat
  <2>1. now' = now /\ sessions' = sessions BY <1>3 DEF ProcessEnds, authVars
  <2>2. crashes' \in Nat BY <1>2, <1>3
  <2> QED BY <1>2, <2>1, <2>2
<1>8. /\ job' \in {"stopped", "idle", "wait cursor", "rows", "exec", "wait delete", "deleting"}
      /\ cursor' \in Conn \cup {Nobody}
  BY <1>3 DEF ProcessEnds
<1> QED BY <1>1, <1>4, <1>5, <1>6, <1>7, <1>8 DEF Basic, TypeOK, ReqType, PoolTypeOK, SchemaOK

JobPC == {"stopped", "idle", "wait cursor", "rows", "exec", "wait delete", "deleting"}

\* The parts of Basic.
LEMMA BasicParts ==
    Basic <=> /\ SchemaOK /\ MetricsTypeOK /\ PoolTypeOK /\ NoIdle
              /\ req \in [Requests -> ReqType] /\ AtCallInv
              /\ job \in JobPC /\ cursor \in Conn \cup {Nobody}
              /\ now \in Nat /\ sessions \subseteq Session /\ crashes \in Nat
BY DEF Basic, TypeOK, SchemaOK, PoolTypeOK, ReqType, JobPC

\* The parts of the basic invariant after a step make it up.
LEMMA BasicNext ==
    ASSUME /\ SchemaOK' /\ MetricsTypeOK' /\ PoolTypeOK' /\ NoIdle'
           /\ req' \in [Requests -> ReqType] /\ AtCallInv'
           /\ job' \in JobPC /\ cursor' \in Conn \cup {Nobody}
           /\ now' \in Nat /\ sessions' \subseteq Session /\ crashes' \in Nat
    PROVE  Basic'
BY DEF Basic, TypeOK, SchemaOK, PoolTypeOK, ReqType, JobPC

\* What a step leaves alone keeps its part.
LEMMA Frame ==
    ASSUME Basic
    PROVE  /\ UNCHANGED procVars => SchemaOK'
           /\ UNCHANGED metricsVars => MetricsTypeOK'
           /\ UNCHANGED poolVars => PoolTypeOK' /\ NoIdle'
           /\ UNCHANGED req => req' \in [Requests -> ReqType] /\ AtCallInv'
           /\ UNCHANGED jobVars => job' \in JobPC /\ cursor' \in Conn \cup {Nobody}
           /\ UNCHANGED authVars => now' \in Nat /\ sessions' \subseteq Session
           /\ UNCHANGED crashes => crashes' \in Nat
<1>1. /\ SchemaOK /\ MetricsTypeOK /\ PoolTypeOK /\ NoIdle
      /\ req \in [Requests -> ReqType] /\ AtCallInv
      /\ job \in JobPC /\ cursor \in Conn \cup {Nobody}
      /\ now \in Nat /\ sessions \subseteq Session /\ crashes \in Nat
  BY BasicParts
<1>2. UNCHANGED procVars => SchemaOK'
  BY <1>1, SchemaKept DEF procVars
<1>3. UNCHANGED metricsVars => MetricsTypeOK'
  BY <1>1 DEF metricsVars, MetricsTypeOK
<1>4. UNCHANGED poolVars => PoolTypeOK' /\ NoIdle'
  BY <1>1 DEF poolVars, PoolTypeOK, NoIdle
<1>5. UNCHANGED req => req' \in [Requests -> ReqType] /\ AtCallInv'
  BY <1>1 DEF AtCallInv
<1>6. /\ UNCHANGED jobVars => job' \in JobPC /\ cursor' \in Conn \cup {Nobody}
      /\ UNCHANGED authVars => now' \in Nat /\ sessions' \subseteq Session
      /\ UNCHANGED crashes => crashes' \in Nat
  BY <1>1 DEF jobVars, authVars
<1> QED BY <1>2, <1>3, <1>4, <1>5, <1>6

\* The clock keeps the basic invariant.
LEMMA BasicTick == ASSUME Basic, Tick PROVE Basic'
<1>1. now' \in Nat /\ sessions' \subseteq Session
  BY BasicParts DEF Tick
<1>2. /\ SchemaOK' /\ MetricsTypeOK' /\ PoolTypeOK' /\ NoIdle'
      /\ req' \in [Requests -> ReqType] /\ AtCallInv'
      /\ job' \in JobPC /\ cursor' \in Conn \cup {Nobody} /\ crashes' \in Nat
  BY Frame DEF Tick
<1> QED BY <1>1, <1>2, BasicNext

\* The cleanup job keeps the basic invariant.
LEMMA BasicJob == ASSUME Basic, JobStep PROVE Basic'
<1>1. UNCHANGED <<procVars, metricsVars, req, authVars, crashes>>
  BY DEF JobStep, JobStart, JobQuery, JobTakeCursor, JobRemove, JobExec, JobTakeSecond,
         JobDeleted, JobRowsEnd
<1>2. /\ SchemaOK' /\ MetricsTypeOK' /\ req' \in [Requests -> ReqType] /\ AtCallInv'
      /\ now' \in Nat /\ sessions' \subseteq Session /\ crashes' \in Nat
  BY <1>1, Frame
<1>3. PoolTypeOK /\ NoIdle /\ cursor \in Conn \cup {Nobody} /\ "job" \in Owner
  BY BasicParts DEF Owner
<1>4. job' \in JobPC /\ cursor' \in Conn \cup {Nobody}
  BY <1>3 DEF JobPC, Held, JobStep, JobStart, JobQuery, JobTakeCursor, JobRemove, JobExec,
              JobTakeSecond, JobDeleted, JobRowsEnd
<1>5. PoolTypeOK' /\ NoIdle'
  <2>1. CASE UNCHANGED poolVars BY <2>1, Frame
  <2>2. CASE GetConn("job") BY <1>3, <2>2, GetConnPool
  <2>3. CASE \E c \in Held("job") : PutConn(c)
    BY <1>3, <2>3, PutConnPool
  <2>4. CASE JobRowsEnd
    BY <1>3, <2>4, PutConnPool DEF JobRowsEnd
  <2> QED BY <2>1, <2>2, <2>3, <2>4
          DEF JobStep, JobStart, JobQuery, JobTakeCursor, JobRemove, JobExec, JobTakeSecond,
              JobDeleted
<1> QED BY <1>2, <1>4, <1>5, BasicNext

\* The arrival of a request keeps the basic invariant.
LEMMA BasicArrive ==
    ASSUME Basic, NEW r \in Requests, NEW route \in Route, NEW cookies, Arrive(r, route, cookies)
    PROVE  Basic'
<1>1. UNCHANGED <<poolVars, procVars, metricsVars, jobVars, authVars, crashes>>
  BY DEF Arrive
<1>2. /\ SchemaOK' /\ MetricsTypeOK' /\ PoolTypeOK' /\ NoIdle'
      /\ job' \in JobPC /\ cursor' \in Conn \cup {Nobody}
      /\ now' \in Nat /\ sessions' \subseteq Session /\ crashes' \in Nat
  BY <1>1, Frame
<1>3. req \in [Requests -> ReqType] /\ AtCallInv
  BY BasicParts
<1>4. PICK new \in ReqType : /\ req' = [req EXCEPT ![r] = new]
                             /\ new.pc \notin {"wait", "using", "read"}
  <2>1. <<>> \in Seq(Call) OBVIOUS
  <2>2. CASE \E run \in Handler(route) :
                req' = [req EXCEPT ![r] = [pc |-> "handle", route |-> route,
                                           todo |-> run.calls, status |-> run.status]]
    <3>1. PICK run \in Handling :
                req' = [req EXCEPT ![r] = [pc |-> "handle", route |-> route,
                                           todo |-> run.calls, status |-> run.status]]
      BY <2>2, HandlerType
    <3>2. [pc |-> "handle", route |-> route, todo |-> run.calls, status |-> run.status] \in ReqType
      BY DEF Handling, ReqType, ReqPC
    <3> QED BY <3>1, <3>2
  <2>3. CASE req' = [req EXCEPT ![r] = [pc |-> "record", route |-> route,
                                        todo |-> <<>>, status |-> "4xx"]]
    <3>1. [pc |-> "record", route |-> route, todo |-> <<>>, status |-> "4xx"] \in ReqType
      BY <2>1 DEF ReqType, ReqPC, StatusClass
    <3> QED BY <2>3, <3>1
  <2> QED BY <2>2, <2>3 DEF Arrive
<1>5. req' \in [Requests -> ReqType] /\ AtCallInv'
  BY <1>3, <1>4 DEF AtCallInv
<1> QED BY <1>2, <1>5, BasicNext

\* The steps of a request keep the basic invariant.
LEMMA BasicRequest ==
    ASSUME Basic, NEW r \in Requests, RequestStep(r)
    PROVE  Basic'
<1>1. UNCHANGED <<procVars, jobVars, crashes>> /\ now' = now
  BY DEF RequestStep, Statement, TakeHandedConn, StatementEnds, PingTimeout, StoreCall,
         TakeSnapshot, Reply, RecordRequest, authVars
<1>2. /\ SchemaOK /\ MetricsTypeOK /\ PoolTypeOK /\ NoIdle
      /\ req \in [Requests -> ReqType] /\ AtCallInv
      /\ now \in Nat /\ sessions \subseteq Session /\ r \in Owner
  BY BasicParts DEF Owner
<1>3. SchemaOK' /\ job' \in JobPC /\ cursor' \in Conn \cup {Nobody} /\ crashes' \in Nat
  BY <1>1, Frame
<1>4. PoolTypeOK' /\ NoIdle'
  <2>1. CASE UNCHANGED poolVars BY <2>1, Frame
  <2>2. CASE GetConn(r) BY <1>2, <2>2, GetConnPool
  <2>3. CASE \E c \in Held(r) : PutConn(c) BY <1>2, <2>3, PutConnPool
  <2>4. CASE waiting' = waiting \ {r} /\ UNCHANGED owner
    BY <1>2, <2>4 DEF PoolTypeOK, NoIdle
  <2> QED BY <2>1, <2>2, <2>3, <2>4
          DEF RequestStep, Statement, TakeHandedConn, StatementEnds, PingTimeout, Abandon,
              StoreCall, TakeSnapshot, Reply, RecordRequest
<1>5. MetricsTypeOK'
  <2>1. CASE UNCHANGED metricsVars BY <2>1, Frame
  <2>2. CASE RecordLock(r) BY <1>2, <2>2 DEF MetricsTypeOK, RecordLock
  <2>3. CASE RecordUnlock(r, req[r].status)
    BY <1>2, <2>3 DEF MetricsTypeOK, RecordUnlock
  <2>4. CASE SnapshotRLock(r) BY <1>2, <2>4 DEF MetricsTypeOK, SnapshotRLock
  <2>5. CASE SnapshotRUnlock(r) BY <1>2, <2>5 DEF MetricsTypeOK, SnapshotRUnlock
  <2> QED BY <2>1, <2>2, <2>3, <2>4, <2>5
          DEF RequestStep, Statement, TakeHandedConn, StatementEnds, PingTimeout,
              StoreCall, TakeSnapshot, Reply, RecordRequest
<1>6. now' \in Nat /\ sessions' \subseteq Session
  <2>1. CASE UNCHANGED sessions BY <1>1, <1>2, <2>1
  <2>2. CASE sessions' = sessions \cup {makeToken}
    <3>1. makeToken \in Session BY <1>2, SessionAssumption DEF makeToken, Session
    <3> QED BY <1>1, <1>2, <2>2, <3>1
  <2> QED BY <2>1, <2>2
          DEF RequestStep, Statement, TakeHandedConn, StatementEnds, PingTimeout,
              StoreCall, TakeSnapshot, Reply, RecordRequest, authVars
<1>7. req' \in [Requests -> ReqType] /\ AtCallInv'
  <2>1. ASSUME NEW label \in ReqPC, Goto(r, label),
               label \in {"wait", "using", "read"} => req[r].todo # <<>>
        PROVE  req' \in [Requests -> ReqType] /\ AtCallInv'
    <3>1. req' \in [Requests -> ReqType] BY <1>2, <2>1, GotoType
    <3> QED BY <1>2, <2>1, <3>1 DEF Goto, AtCallInv, ReqType
  <2>2. ASSUME CallEnds(r), req[r].todo # <<>>
        PROVE  req' \in [Requests -> ReqType] /\ AtCallInv'
    <3>1. req' \in [Requests -> ReqType] BY <1>2, <2>2, CallEndsType
    <3> QED BY <1>2, <2>2, <3>1 DEF CallEnds, AtCallInv, ReqType
  <2>3. CASE PingTimeout(r)
    <3>1. <<>> \in Seq(Call) OBVIOUS
    <3>2. req' \in [Requests -> ReqType]
      BY <1>2, <2>3, <3>1 DEF PingTimeout, ReqType, ReqPC, StatusClass
    <3> QED BY <1>2, <2>3, <3>2 DEF PingTimeout, AtCallInv, ReqType
  <2>4. CASE Statement(r)
    BY <2>1, <2>4 DEF Statement, AtCall, ReqPC
  <2>5. CASE TakeHandedConn(r)
    BY <1>2, <2>1, <2>5 DEF TakeHandedConn, AtCallInv, ReqPC
  <2>6. CASE StatementEnds(r)
    BY <1>2, <2>2, <2>6 DEF StatementEnds, AtCallInv
  <2>7. CASE StoreCall(r)
    BY <2>2, <2>7 DEF StoreCall, AtCall
  <2>8. CASE TakeSnapshot(r)
    BY <1>2, <2>1, <2>2, <2>8 DEF TakeSnapshot, AtCall, AtCallInv, ReqPC
  <2>9. CASE Reply(r) \/ RecordRequest(r)
    BY <2>1, <2>9 DEF Reply, RecordRequest, ReqPC
  <2> QED BY <2>3, <2>4, <2>5, <2>6, <2>7, <2>8, <2>9 DEF RequestStep
<1> QED BY <1>3, <1>4, <1>5, <1>6, <1>7, BasicNext

-----------------------------------------------------------------------------
(* Who holds connections, and who waits *)

\* A request has a connection only at a statement, only one, and none while it waits.
ReqPart(r) ==
    /\ r \in waiting => req[r].pc = "wait"
    /\ \A c \in Conn : owner[c] = r =>
          /\ r \notin waiting
          /\ req[r].pc \in {"wait", "using"}
          /\ \A d \in Conn : owner[d] = r => d = c
ReqPool == \A r \in Requests : ReqPart(r)

\* The job has the connection of its rows, and at a DELETE one more at most;
\* while it waits it has none or that of its rows.
JobPool ==
    /\ "job" \in waiting => job \in {"wait cursor", "wait delete"}
    /\ job \in {"rows", "exec", "wait delete", "deleting"} =>
          cursor \in Conn /\ owner[cursor] = "job"
    /\ job \in {"stopped", "idle", "wait cursor"} => cursor = Nobody
    /\ \A c \in Conn : owner[c] = "job" =>
          /\ job \notin {"stopped", "idle"}
          /\ job \in {"rows", "exec"} \/ "job" \in waiting => c = cursor
          /\ \A d \in Conn : owner[d] = "job" => d = c \/ d = cursor \/ c = cursor

\* The migration driver has one connection at most and does not wait for it.
MigratePool ==
    /\ "migrate" \notin waiting
    /\ \A c, d \in Conn : owner[c] = "migrate" /\ owner[d] = "migrate" => c = d
    /\ boot \in {"down", "open", "driver"} => waiting = {} /\ \A c \in Conn : owner[c] = Nobody

\* Until the process serves there are neither requests nor a job.
Quiet ==
    boot # "serving" => /\ job = "stopped"
                        /\ \A r \in Requests : req[r].pc \in {"unsent", "past", "cut"}

PoolInv == Basic /\ ReqPool /\ JobPool /\ MigratePool /\ Quiet

\* The invariant of the pool holds when nothing has been started.
LEMMA PoolInit0 == Init => PoolInv
<1> SUFFICES ASSUME Init PROVE PoolInv OBVIOUS
<1>1. Basic BY BasicInit
<1>2. /\ owner = [c \in Conn |-> Nobody] /\ waiting = {} /\ boot = "down"
      /\ job = "stopped" /\ cursor = Nobody
      /\ \A r \in Requests : req[r].pc = "unsent"
  BY DEF Init, PoolInit, StartupInit
<1> QED BY <1>1, <1>2, OwnerAssumption DEF PoolInv, ReqPool, ReqPart, JobPool, MigratePool, Quiet, Owner

\* The steps of main keep it: nobody but the driver asks for a connection yet.
LEMMA PoolStartup == ASSUME PoolInv, StartProcess \/ RepairSchema PROVE PoolInv'
<1>1. Basic' BY BasicStartup DEF PoolInv
<1>2. UNCHANGED <<req, job, cursor>>
  BY DEF StartProcess, RepairSchema, jobVars
<1>3. boot # "serving"
  BY DEF StartProcess, RepairSchema, StartupNext, Start, OpenDB, WithInstance, MigrateUp,
         MigrateBody, MigrateClean, NewServer, Repair
<1>4. Quiet /\ job = "stopped" /\ \A r \in Requests : req[r].pc \in {"unsent", "past", "cut"}
  BY <1>3 DEF PoolInv, Quiet
<1>5. CASE UNCHANGED <<owner, waiting>> /\ (boot' \in {"down", "open", "driver"} => boot \in {"down", "open", "driver"})
  BY <1>1, <1>2, <1>4, <1>5 DEF PoolInv, ReqPool, ReqPart, JobPool, MigratePool, Quiet
<1>6. CASE WithInstance
  <2>1. waiting = {} /\ \A c \in Conn : owner[c] = Nobody
    BY <1>6 DEF WithInstance, PoolInv, MigratePool
  <2>2. PICK a \in Conn : owner' = [owner EXCEPT ![a] = "migrate"] /\ waiting' = waiting
    <3>1. "migrate" \in Owner /\ GetConn("migrate") BY <1>6 DEF Owner, WithInstance
    <3>2. \E c \in Conn : owner[c] = Nobody BY <2>1, PoolAssumption
    <3> QED BY <3>1, <3>2, GetConnEffect
  <2>3. owner \in [Conn -> Owner \cup {Nobody}] BY BasicParts DEF PoolInv, PoolTypeOK
  <2>4. boot' = "migrate" BY <1>6 DEF WithInstance
  <2> QED BY <1>1, <1>2, <1>4, <2>1, <2>2, <2>3, <2>4, OwnerAssumption
          DEF PoolInv, ReqPool, ReqPart, JobPool, MigratePool, Quiet, Owner
<1> QED BY <1>5, <1>6 DEF StartProcess, RepairSchema, StartupNext, Start, OpenDB, MigrateUp,
                          MigrateBody, MigrateClean, NewServer, Repair, poolVars

\* The end of a process leaves a pool nobody has a connection of.
LEMMA PoolExit == ASSUME PoolInv, DirtyExit \/ Crash PROVE PoolInv'
<1>1. Basic' BY BasicExit DEF PoolInv
<1>2. ProcessEnds BY DEF DirtyExit, Crash
<1>3. /\ owner' = [c \in Conn |-> Nobody] /\ waiting' = {} /\ boot' = "down"
      /\ job' = "stopped" /\ cursor' = Nobody
  BY <1>2 DEF ProcessEnds
<1>4. \A r \in Requests : req'[r].pc \in {"unsent", "past", "cut"}
  <2> SUFFICES ASSUME NEW r \in Requests PROVE req'[r].pc \in {"unsent", "past", "cut"} OBVIOUS
  <2>1. req[r] \in ReqType BY BasicParts DEF PoolInv
  <2>2. req'[r] = [req[r] EXCEPT !.pc = IF @ = "unsent" THEN @
                                       ELSE IF @ \in {"done", "past"} THEN "past" ELSE "cut",
                                !.todo = <<>>]
    BY <1>2 DEF ProcessEnds
  <2> QED BY <2>1, <2>2 DEF ReqType
<1> QED BY <1>1, <1>3, <1>4, OwnerAssumption DEF PoolInv, ReqPool, ReqPart, JobPool, MigratePool, Quiet, Owner

\* The clock keeps the invariant of the pool.
LEMMA PoolTick == ASSUME PoolInv, Tick PROVE PoolInv'
<1>1. Basic' BY BasicTick DEF PoolInv
<1>2. UNCHANGED <<owner, waiting, boot, req, job, cursor>>
  BY DEF Tick, poolVars, procVars, jobVars
<1> QED BY <1>1, <1>2 DEF PoolInv, ReqPool, ReqPart, JobPool, MigratePool, Quiet

\* A request that changes its state away from the pool, without a connection.
LEMMA PoolLocal ==
    ASSUME PoolInv, Basic', NEW r \in Requests, UNCHANGED <<poolVars, procVars, jobVars>>,
           req[r].pc \notin {"wait", "using"}, boot = "serving",
           \A q \in Requests \ {r} : req'[q] = req[q]
    PROVE  PoolInv'
<1>1. UNCHANGED <<owner, waiting, boot, job, cursor>>
  BY DEF poolVars, procVars, jobVars
<1>2. r \notin waiting /\ \A c \in Conn : owner[c] # r
  BY DEF PoolInv, ReqPool, ReqPart
<1>3. ReqPool'
  BY <1>1, <1>2 DEF PoolInv, ReqPool, ReqPart
<1> QED BY <1>1, <1>3 DEF PoolInv, JobPool, MigratePool, Quiet

\* The arrival of a request keeps it.
LEMMA PoolArrive ==
    ASSUME PoolInv, NEW r \in Requests, NEW route \in Route, NEW cookies, Arrive(r, route, cookies)
    PROVE  PoolInv'
<1>1. Basic' BY BasicArrive DEF PoolInv
<1>2. /\ UNCHANGED <<poolVars, procVars, jobVars>> /\ req[r].pc = "unsent" /\ boot = "serving"
      /\ \A q \in Requests \ {r} : req'[q] = req[q]
  BY BasicParts DEF Arrive, PoolInv
<1> QED BY <1>1, <1>2, PoolLocal

\* What PutConn does: only requests and the job ever wait.
LEMMA PutConnEffect ==
    ASSUME PoolInv, NEW d \in Conn, PutConn(d)
    PROVE  \/ waiting = {} /\ owner' = [owner EXCEPT ![d] = Nobody] /\ waiting' = waiting
           \/ \E w \in Requests \cup {"job"} :
                 /\ w \in waiting
                 /\ owner' = [owner EXCEPT ![d] = w] /\ waiting' = waiting \ {w}
<1>1. waiting \subseteq Owner /\ "migrate" \notin waiting
  BY BasicParts DEF PoolInv, PoolTypeOK, MigratePool
<1> QED BY <1>1 DEF PutConn, Owner

\* A connection that is given back does no harm to the others: to the requests
\* that stay as they are, to the job, to the migration driver.
LEMMA GiveBack ==
    ASSUME PoolInv, NEW d \in Conn, PutConn(d), owner[d] # Nobody, boot = "serving", boot' = boot
    PROVE  /\ \A q \in Requests : (req'[q] = req[q] /\ owner[d] # q) => ReqPart(q)'
           /\ (owner[d] # "job" /\ UNCHANGED <<job, cursor>>) => JobPool'
           /\ MigratePool'
<1>1. owner \in [Conn -> Owner \cup {Nobody}] /\ waiting \subseteq Owner
  BY BasicParts DEF PoolInv, PoolTypeOK
<1>2. CASE waiting = {} /\ owner' = [owner EXCEPT ![d] = Nobody] /\ waiting' = waiting
  <2>1. \A q \in Requests : (req'[q] = req[q] /\ owner[d] # q) => ReqPart(q)'
    BY <1>1, <1>2, OwnerAssumption DEF PoolInv, ReqPool, ReqPart, Owner
  <2>2. (owner[d] # "job" /\ UNCHANGED <<job, cursor>>) => JobPool'
    <3> SUFFICES ASSUME owner[d] # "job", job' = job, cursor' = cursor PROVE JobPool' OBVIOUS
    <3>1. JobPool BY DEF PoolInv
    <3>2. \A c \in Conn : owner'[c] = "job" <=> owner[c] = "job"
      BY <1>1, <1>2, OwnerAssumption DEF Owner
    <3> QED BY <1>2, <3>1, <3>2 DEF JobPool
  <2>3. MigratePool'
    BY <1>1, <1>2, OwnerAssumption DEF PoolInv, MigratePool, Owner
  <2> QED BY <2>1, <2>2, <2>3
<1>3. ASSUME NEW w \in Requests \cup {"job"}, w \in waiting,
             owner' = [owner EXCEPT ![d] = w], waiting' = waiting \ {w}
      PROVE  /\ \A q \in Requests : (req'[q] = req[q] /\ owner[d] # q) => ReqPart(q)'
             /\ (owner[d] # "job" /\ UNCHANGED <<job, cursor>>) => JobPool'
             /\ MigratePool'
  <2>1. \A q \in Requests : (req'[q] = req[q] /\ owner[d] # q) => ReqPart(q)'
    <3> SUFFICES ASSUME NEW q \in Requests, req'[q] = req[q], owner[d] # q PROVE ReqPart(q)'
      OBVIOUS
    <3>1. ReqPart(q) BY DEF PoolInv, ReqPool
    <3>2. CASE q = w
      <4>1. \A c \in Conn : owner[c] # q BY <1>3, <3>1, <3>2 DEF ReqPart
      <4> QED BY <1>1, <1>3, <3>1, <3>2, <4>1 DEF ReqPart
    <3>3. CASE q # w
      BY <1>1, <1>3, <3>1, <3>3 DEF ReqPart
    <3> QED BY <3>2, <3>3
  <2>2. (owner[d] # "job" /\ UNCHANGED <<job, cursor>>) => JobPool'
    <3> SUFFICES ASSUME owner[d] # "job", job' = job, cursor' = cursor PROVE JobPool' OBVIOUS
    <3>1. JobPool BY DEF PoolInv
    <3>2. CASE w # "job"
      <4>1. \A c \in Conn : owner'[c] = "job" <=> owner[c] = "job"
        BY <1>1, <1>3, <3>2
      <4>2. "job" \in waiting' <=> "job" \in waiting BY <1>3, <3>2
      <4> QED BY <3>1, <4>1, <4>2 DEF JobPool
    <3>3. CASE w = "job"
      <4>1. \A c \in Conn : owner'[c] = "job" <=> owner[c] = "job" \/ c = d
        BY <1>1, <1>3, <3>3
      <4>2. "job" \in waiting /\ "job" \notin waiting' /\ job \in {"wait cursor", "wait delete"}
        BY <1>3, <3>1, <3>3 DEF JobPool
      <4>3. "wait delete" # "wait cursor" /\ (job = "wait cursor" => cursor \notin Conn)
        BY <3>1, OwnerAssumption DEF JobPool
      <4> QED BY <3>1, <4>1, <4>2, <4>3 DEF JobPool
    <3> QED BY <3>2, <3>3
  <2>3. MigratePool'
    BY <1>1, <1>3, OwnerAssumption DEF PoolInv, MigratePool, Owner
  <2> QED BY <2>1, <2>2, <2>3
<1> QED BY <1>2, <1>3, PutConnEffect

\* The steps of a request keep the invariant of the pool.
LEMMA PoolRequest ==
    ASSUME PoolInv, NEW r \in Requests, RequestStep(r)
    PROVE  PoolInv'
<1>1. Basic' BY BasicRequest DEF PoolInv
<1>2. /\ owner \in [Conn -> Owner \cup {Nobody}] /\ waiting \subseteq Owner
      /\ req \in [Requests -> ReqType]
      /\ r \in Owner /\ r # "job" /\ r # "migrate" /\ r # Nobody
  BY BasicParts, OwnerAssumption DEF PoolInv, PoolTypeOK, Owner
<1>3. /\ UNCHANGED <<boot, job, cursor>>
      /\ req[r].pc \notin {"unsent", "past", "cut"}
      /\ \A q \in Requests \ {r} : req'[q] = req[q]
  BY <1>2 DEF RequestStep, Statement, TakeHandedConn, StatementEnds, PingTimeout, StoreCall,
         TakeSnapshot, Reply, RecordRequest, AtCall, CallEnds, Goto, procVars, jobVars
<1>4. boot = "serving" BY <1>3 DEF PoolInv, Quiet
<1>5. ReqPool /\ JobPool /\ MigratePool /\ ReqPart(r) BY DEF PoolInv, ReqPool
<1>6. CASE StoreCall(r) \/ TakeSnapshot(r) \/ Reply(r) \/ RecordRequest(r)
  <2>1. UNCHANGED <<poolVars, procVars, jobVars>> /\ req[r].pc \notin {"wait", "using"}
    BY <1>6 DEF StoreCall, TakeSnapshot, Reply, RecordRequest, AtCall
  <2> QED BY <1>1, <1>3, <1>4, <2>1, PoolLocal
<1>7. CASE Statement(r)
  <2>1. req[r].pc = "handle" /\ GetConn(r) /\ req' = [req EXCEPT ![r].pc = IF r \in waiting' THEN "wait" ELSE "using"]
    BY <1>7 DEF Statement, AtCall, Goto
  <2>2. req'[r].pc = IF r \in waiting' THEN "wait" ELSE "using"
    BY <1>2, <2>1 DEF ReqType
  <2>3. r \notin waiting /\ \A c \in Conn : owner[c] # r
    BY <1>5, <2>1 DEF ReqPart
  <2>4. CASE \E c \in Conn : owner[c] = Nobody /\ owner' = [owner EXCEPT ![c] = r] /\ waiting' = waiting
    <3>0. PICK a \in Conn : owner[a] = Nobody /\ owner' = [owner EXCEPT ![a] = r] /\ waiting' = waiting
      BY <2>4
    <3>1. ReqPool'
      <4>1. \A c \in Conn : owner'[c] = r <=> c = a BY <1>2, <2>3, <3>0
      <4>2. ReqPart(r)' BY <2>2, <2>3, <3>0, <4>1 DEF ReqPart
      <4>3. \A q \in Requests \ {r} : ReqPart(q)'
        <5> SUFFICES ASSUME NEW q \in Requests \ {r} PROVE ReqPart(q)' OBVIOUS
        <5>1. \A c \in Conn : owner'[c] = q <=> owner[c] = q
          BY <1>2, <3>0, OwnerAssumption DEF Owner
        <5>2. ReqPart(q) /\ req'[q] = req[q] BY <1>3, <1>5 DEF ReqPool
        <5> QED BY <3>0, <5>1, <5>2 DEF ReqPart
      <4> QED BY <4>2, <4>3 DEF ReqPool
    <3>2. JobPool' /\ MigratePool'
      <4>1. /\ \A c \in Conn : owner'[c] = "job" <=> owner[c] = "job"
            /\ \A c \in Conn : owner'[c] = "migrate" <=> owner[c] = "migrate"
        BY <1>2, <3>0, OwnerAssumption DEF Owner
      <4> QED BY <1>3, <1>4, <1>5, <3>0, <4>1 DEF JobPool, MigratePool
    <3> QED BY <1>1, <1>3, <1>4, <3>1, <3>2 DEF PoolInv, Quiet
  <2>5. CASE owner' = owner /\ waiting' = waiting \cup {r}
    <3>1. ReqPool'
      BY <1>2, <1>3, <1>5, <2>2, <2>3, <2>5 DEF ReqPool, ReqPart
    <3>2. JobPool' /\ MigratePool'
      BY <1>2, <1>3, <1>4, <1>5, <2>5 DEF JobPool, MigratePool
    <3> QED BY <1>1, <1>3, <1>4, <3>1, <3>2 DEF PoolInv, Quiet
  <2> QED BY <1>2, <2>1, <2>4, <2>5, GetConnEffect
<1>8. CASE TakeHandedConn(r)
  <2>1. req[r].pc = "wait" /\ UNCHANGED <<owner, waiting>> /\ req' = [req EXCEPT ![r].pc = "using"]
    BY <1>8 DEF TakeHandedConn, Goto, poolVars
  <2>2. req'[r].pc = "using" BY <1>2, <2>1 DEF ReqType
  <2>3. r \notin waiting
    BY <1>5, <1>8 DEF TakeHandedConn, Held, ReqPart
  <2>4. ReqPool'
    BY <1>3, <1>5, <2>1, <2>2, <2>3 DEF ReqPool, ReqPart
  <2> QED BY <1>1, <1>3, <1>4, <1>5, <2>1, <2>4 DEF PoolInv, JobPool, MigratePool, Quiet
<1>9. ASSUME NEW d \in Conn, owner[d] = r, PutConn(d), req'[r].pc = "handle" PROVE PoolInv'
  <2>1. /\ \A q \in Requests : (req'[q] = req[q] /\ owner[d] # q) => ReqPart(q)'
        /\ JobPool' /\ MigratePool'
    BY <1>2, <1>3, <1>4, <1>9, GiveBack
  <2>2. r \notin waiting /\ \A c \in Conn : owner[c] = r => c = d
    BY <1>5, <1>9 DEF ReqPart
  <2>3. r \notin waiting' /\ \A c \in Conn : owner'[c] # r
    BY <1>2, <1>9, <2>2, PutConnEffect
  <2>4. ReqPart(r)' BY <2>3 DEF ReqPart
  <2>5. ReqPool' BY <1>3, <1>9, <2>1, <2>4 DEF ReqPool
  <2> QED BY <1>1, <1>3, <1>4, <2>1, <2>5 DEF PoolInv, Quiet
<1>10. CASE StatementEnds(r)
  <2>1. req'[r].pc = "handle" BY <1>2, <1>10 DEF StatementEnds, CallEnds, ReqType
  <2> QED BY <1>9, <1>10, <2>1 DEF StatementEnds, Held
<1>11. CASE PingTimeout(r)
  <2>1. req'[r].pc = "handle" BY <1>2, <1>11 DEF PingTimeout, ReqType
  <2>2. CASE r \in waiting /\ waiting' = waiting \ {r} /\ UNCHANGED owner
    <3>1. \A c \in Conn : owner[c] # r BY <1>5, <2>2 DEF ReqPart
    <3>2. ReqPool'
      BY <1>3, <1>5, <2>2, <3>1 DEF ReqPool, ReqPart
    <3>3. JobPool' /\ MigratePool'
      BY <1>2, <1>3, <1>4, <1>5, <2>2 DEF JobPool, MigratePool
    <3> QED BY <1>1, <1>3, <1>4, <3>2, <3>3 DEF PoolInv, Quiet
  <2>3. CASE \E c \in Held(r) : PutConn(c)
    BY <1>9, <2>1, <2>3 DEF Held
  <2> QED BY <1>11, <2>2, <2>3 DEF PingTimeout, Abandon
<1> QED BY <1>6, <1>7, <1>8, <1>10, <1>11 DEF RequestStep

\* The steps of the cleanup job keep it.
LEMMA PoolJob == ASSUME PoolInv, JobStep PROVE PoolInv'
<1>1. Basic' BY BasicJob DEF PoolInv
<1>2. /\ owner \in [Conn -> Owner \cup {Nobody}] /\ waiting \subseteq Owner
      /\ "job" \in Owner /\ "job" # "migrate" /\ "job" # Nobody /\ Nobody \notin Requests
      /\ "job" \notin Requests /\ job \in JobPC
  BY BasicParts, OwnerAssumption DEF PoolInv, PoolTypeOK, Owner
<1>3. UNCHANGED <<boot, req>> /\ (job # "stopped" \/ boot = "serving")
  BY DEF JobStep, JobStart, JobQuery, JobTakeCursor, JobRemove, JobExec, JobTakeSecond,
         JobDeleted, JobRowsEnd, procVars
<1>4. boot = "serving" BY <1>3 DEF PoolInv, Quiet
<1>5. ReqPool /\ JobPool /\ MigratePool BY DEF PoolInv
<1>6. ASSUME ReqPool', JobPool', MigratePool' PROVE PoolInv'
  BY <1>1, <1>3, <1>4, <1>6 DEF PoolInv, Quiet
<1>7. CASE JobStart \/ JobRemove
  <2>1. UNCHANGED <<owner, waiting, cursor>> /\ job \in {"stopped", "rows"}
        /\ job' = IF job = "stopped" THEN "idle" ELSE "exec"
    BY <1>7 DEF JobStart, JobRemove, poolVars
  <2> QED BY <1>3, <1>5, <1>6, <2>1 DEF ReqPool, ReqPart, JobPool, MigratePool
<1>8. CASE JobTakeCursor
  <2>1. /\ UNCHANGED <<owner, waiting>> /\ job = "wait cursor" /\ job' = "rows"
        /\ cursor' \in Conn /\ owner[cursor'] = "job" /\ cursor = Nobody
    BY <1>5, <1>8 DEF JobTakeCursor, poolVars, Held, JobPool
  <2>2. JobPool' BY <1>5, <2>1, OwnerAssumption DEF JobPool
  <2> QED BY <1>3, <1>5, <1>6, <2>1, <2>2 DEF ReqPool, ReqPart, MigratePool
<1>9. CASE JobTakeSecond
  <2>1. UNCHANGED <<owner, waiting, cursor>> /\ job = "wait delete" /\ job' = "deleting"
        /\ Held("job") # {cursor}
    BY <1>9 DEF JobTakeSecond, poolVars
  <2>2. "job" \notin waiting
    BY <1>5, <2>1 DEF JobPool, Held
  <2>3. JobPool' BY <1>5, <2>1, <2>2 DEF JobPool
  <2> QED BY <1>3, <1>5, <1>6, <2>1, <2>3 DEF ReqPool, ReqPart, MigratePool
<1>10. CASE JobQuery \/ JobExec
  <2>1. GetConn("job") /\ job \in {"idle", "exec"} /\ "job" \notin waiting
    BY <1>5, <1>10 DEF JobQuery, JobExec, JobPool
  <2>2. CASE owner' = owner /\ waiting' = waiting \cup {"job"}
    <3>1. cursor' = cursor /\ job' = IF job = "idle" THEN "wait cursor" ELSE "wait delete"
      BY <1>10, <2>2 DEF JobQuery, JobExec
    <3>2. job = "idle" => cursor = Nobody
      BY <1>5 DEF JobPool
    <3>3. JobPool' BY <1>5, <2>1, <2>2, <3>1, <3>2 DEF JobPool
    <3>4. ReqPool' /\ MigratePool'
      BY <1>2, <1>3, <1>4, <1>5, <2>2 DEF ReqPool, ReqPart, MigratePool
    <3> QED BY <1>6, <3>3, <3>4
  <2>3. ASSUME NEW a \in Conn, owner[a] = Nobody, owner' = [owner EXCEPT ![a] = "job"], waiting' = waiting
        PROVE  PoolInv'
    <3>1. \A c \in Conn : owner'[c] = "job" <=> owner[c] = "job" \/ c = a
      BY <1>2, <2>3
    <3>2. \A c \in Conn, o \in Requests \cup {"migrate"} : owner'[c] = o <=> owner[c] = o
      BY <1>2, <2>3, OwnerAssumption DEF Owner
    <3>3. CASE job = "idle"
      <4>1. \A c \in Conn : owner[c] # "job" BY <1>5, <3>3 DEF JobPool
      <4>2. job' = "rows" /\ cursor' \in {c \in Conn : owner'[c] = "job"}
        BY <1>10, <2>1, <2>3, <3>3 DEF JobQuery, JobExec
      <4>3. cursor' = a BY <3>1, <4>1, <4>2
      <4>4. JobPool' BY <1>5, <2>1, <2>3, <3>1, <4>1, <4>2, <4>3 DEF JobPool
      <4>5. ReqPool' /\ MigratePool'
        BY <1>3, <1>4, <1>5, <2>3, <3>2 DEF ReqPool, ReqPart, MigratePool
      <4> QED BY <1>6, <4>4, <4>5
    <3>4. CASE job = "exec"
      <4>1. job' = "deleting" /\ cursor' = cursor
        BY <1>10, <2>1, <2>3, <3>4 DEF JobQuery, JobExec
      <4>2. JobPool' BY <1>5, <2>1, <2>3, <3>1, <3>4, <4>1 DEF JobPool
      <4>3. ReqPool' /\ MigratePool'
        BY <1>3, <1>4, <1>5, <2>3, <3>2 DEF ReqPool, ReqPart, MigratePool
      <4> QED BY <1>6, <4>2, <4>3
    <3> QED BY <2>1, <3>3, <3>4
  <2> QED BY <1>2, <2>1, <2>2, <2>3, GetConnEffect
<1>11. ASSUME NEW d \in Conn, owner[d] = "job", PutConn(d), "job" \notin waiting
       PROVE  /\ ReqPool' /\ MigratePool' /\ "job" \notin waiting'
              /\ \A c \in Conn : owner'[c] = "job" <=> owner[c] = "job" /\ c # d
  <2>1. ReqPool' /\ MigratePool'
    <3>1. \A q \in Requests : req'[q] = req[q] /\ owner[d] # q BY <1>2, <1>3, <1>11
    <3> QED BY <1>2, <1>3, <1>4, <1>11, <3>1, GiveBack DEF ReqPool
  <2>2. "job" \notin waiting' /\ \A c \in Conn : owner'[c] = "job" <=> owner[c] = "job" /\ c # d
    BY <1>2, <1>11, PutConnEffect
  <2> QED BY <2>1, <2>2
<1>12. CASE JobDeleted
  <2>1. PICK d \in Conn : owner[d] = "job" /\ d # cursor /\ PutConn(d)
    BY <1>12 DEF JobDeleted, Held
  <2>2. /\ job = "deleting" /\ job' = "rows" /\ cursor' = cursor /\ "job" \notin waiting
    BY <1>5, <1>12 DEF JobDeleted, JobPool
  <2>3. /\ ReqPool' /\ MigratePool' /\ "job" \notin waiting'
        /\ \A c \in Conn : owner'[c] = "job" <=> owner[c] = "job" /\ c # d
    BY <1>11, <2>1, <2>2
  <2>4. JobPool' BY <1>5, <2>1, <2>2, <2>3 DEF JobPool
  <2> QED BY <1>6, <2>3, <2>4
<1>13. CASE JobRowsEnd
  <2>1. /\ job = "rows" /\ job' = "idle" /\ cursor' = Nobody /\ "job" \notin waiting
        /\ cursor \in Conn /\ owner[cursor] = "job" /\ PutConn(cursor)
    BY <1>5, <1>13 DEF JobRowsEnd, JobPool
  <2>2. /\ ReqPool' /\ MigratePool' /\ "job" \notin waiting'
        /\ \A c \in Conn : owner'[c] = "job" <=> owner[c] = "job" /\ c # cursor
    BY <1>11, <2>1
  <2>3. JobPool' BY <1>5, <2>1, <2>2 DEF JobPool
  <2> QED BY <1>6, <2>2, <2>3
<1> QED BY <1>7, <1>8, <1>9, <1>10, <1>12, <1>13 DEF JobStep

\* Every step of the system keeps the invariant.
LEMMA PoolStep == ASSUME PoolInv, [Next]_vars PROVE PoolInv'
<1>1. CASE StartProcess \/ RepairSchema BY <1>1, PoolStartup
<1>2. CASE DirtyExit \/ Crash BY <1>2, PoolExit
<1>3. CASE Tick BY <1>3, PoolTick
<1>4. CASE JobStep BY <1>4, PoolJob
<1>5. ASSUME NEW r \in Requests, NEW route \in RoutesOf[r],
             NEW cookies \in {{}} \cup {{s} : s \in sessions}, Arrive(r, route, cookies)
      PROVE  PoolInv'
  <2>1. route \in Route BY RouteAssumption
  <2> QED BY <1>5, <2>1, PoolArrive
<1>6. ASSUME NEW r \in Requests, RequestStep(r) PROVE PoolInv'
  BY <1>6, PoolRequest
<1>7. CASE UNCHANGED vars
  <2>1. UNCHANGED <<owner, waiting, boot, schema, req, job, cursor>>
    BY <1>7 DEF vars, poolVars, procVars, jobVars
  <2>2. TypeOK'
    BY <1>7 DEF vars, poolVars, procVars, metricsVars, jobVars, authVars, PoolInv, Basic, TypeOK,
                StartupTypeOK, MetricsTypeOK
  <2>3. Basic' BY <2>1, <2>2 DEF PoolInv, Basic, NoIdle, AtCallInv, SchemaInv
  <2> QED BY <2>1, <2>3 DEF PoolInv, ReqPool, ReqPart, JobPool, MigratePool, Quiet
<1> QED BY <1>1, <1>2, <1>3, <1>4, <1>5, <1>6, <1>7 DEF Next

\* The invariant holds throughout.
THEOREM PoolInvariant == Spec => []PoolInv
BY PoolInit0, PoolStep, PTL DEF Spec

-----------------------------------------------------------------------------
(* What the invariant implies *)

\* The invariant says where the owners of connections are.
LEMMA InvNoLeak == PoolInv => NoLeak
<1> SUFFICES ASSUME PoolInv PROVE NoLeak OBVIOUS
<1>1. ReqPool /\ JobPool /\ job \in JobPC BY BasicParts DEF PoolInv
<1>2. \A c \in Conn, r \in Requests : owner[c] = r => req[r].pc \in {"wait", "using"}
  BY <1>1 DEF ReqPool, ReqPart
<1>3. \A r \in Requests : \A c, d \in Held(r) : c = d
  BY <1>1 DEF ReqPool, ReqPart, Held
<1>4. \A c \in Held("job") \ {cursor} : job \in {"wait cursor", "wait delete", "deleting"}
  BY <1>1 DEF JobPool, Held, JobPC
<1> QED BY <1>2, <1>3, <1>4 DEF NoLeak

\* Three connections in use: the driver has one of them at most and a job that
\* waits one more, so the third is with a goroutine that does not wait.
LEMMA InvNotStuck == PoolInv => PoolNotStuck
<1> SUFFICES ASSUME PoolInv, waiting # {} PROVE \E c \in Conn : owner[c] \in Running
  BY DEF PoolNotStuck
<1>1. /\ ReqPool /\ JobPool /\ MigratePool /\ NoIdle
      /\ owner \in [Conn -> Owner \cup {Nobody}]
  BY BasicParts DEF PoolInv, PoolTypeOK
<1>2. \A c \in Conn : owner[c] \in Requests \cup {"job", "migrate"}
  BY <1>1 DEF NoIdle, Owner
<1>3. CASE \E c \in Conn : owner[c] \in Requests
  <2>1. PICK c \in Conn : owner[c] \in Requests BY <1>3
  <2>2. owner[c] \notin waiting /\ owner[c] # "migrate"
    BY <1>1, <2>1, OwnerAssumption DEF ReqPool, ReqPart
  <2> QED BY <2>1, <2>2 DEF Running, Owner
<1>4. CASE \A c \in Conn : owner[c] \in {"job", "migrate"}
  <2>1. PICK a, b \in Conn : a # b /\ owner[a] = "job" /\ owner[b] = "job"
    BY <1>1, <1>4, PoolAssumption DEF MigratePool
  <2>2. "job" \notin waiting BY <1>1, <2>1 DEF JobPool
  <2> QED BY <2>1, <2>2 DEF Running, Owner
<1> QED BY <1>2, <1>3, <1>4

\* The invariant says what schema a serving process runs on.
LEMMA InvSchema == PoolInv => ServesOnCompleteSchema
<1> SUFFICES ASSUME PoolInv, boot = "serving" PROVE schema = Row(Migrations, FALSE, Migrations)
  BY DEF ServesOnCompleteSchema
<1>1. /\ schema \in Schema /\ ~schema.dirty
      /\ schema.version = Migrations /\ schema.applied = Migrations
  BY DEF PoolInv, Basic, TypeOK, StartupTypeOK, SchemaInv
<1>2. schema = [version |-> schema.version, dirty |-> schema.dirty, applied |-> schema.applied]
  BY <1>1 DEF Schema
<1>3. schema.dirty = FALSE BY <1>1 DEF Schema
<1> QED BY <1>1, <1>2, <1>3 DEF Row

\* The variables of the request path keep their types.
THEOREM RequestsTyped == Spec => []TypeOK
<1>1. PoolInv => TypeOK BY DEF PoolInv, Basic
<1> QED BY <1>1, PoolInvariant, PTL

\* No connection leaks: a handler, whatever fails or times out in it, has given
\* its connection back when it goes on, and so has runCleanup.
THEOREM ConnectionsReturned == Spec => []NoLeak
BY PoolInvariant, InvNoLeak, PTL

\* The pool of OpenDB, with three connections or more, never locks up: not with
\* the connection RunMigrations keeps, and not with runCleanup waiting for its
\* second one.
THEOREM PoolDeadlockFree == Spec => []PoolNotStuck
BY PoolInvariant, InvNotStuck, PTL

\* A process that serves has run every migration, wherever an earlier one died.
THEOREM SchemaComplete == Spec => []ServesOnCompleteSchema
BY PoolInvariant, InvSchema, PTL
=============================================================================
