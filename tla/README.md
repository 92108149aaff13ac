# Secure File Drop: TLA+ specification

This directory holds a formal model of the Secure File Drop backend: TLA+
modules translated from the Go source, TLC configurations that model-check them
on small instances, and proofs that TLAPS checks for every value of the
constants. `PROJECT.json` maps every definition to the lines it models.

## 1. The system

A client registers a file (`POST /files`), sends its bytes (`POST /upload?id=`),
asks for a signed link (`POST /links`), and anybody with the link fetches the
file (`GET /download?token=`). The backend is one Go process between PostgreSQL
(table `files`) and a MinIO bucket. There is no lock and no transaction over the
two stores: all coordination is by conditional UPDATEs on `files.status`.

| Component | State | Operations | Interacts through | What is hard | What makes it correct |
|---|---|---|---|---|---|
| File records and objects (schema, MinIO) | row per id: status, digest, declared size, creation time; object per key | INSERT, conditional UPDATE, DELETE, PutObject, RemoveObject | shared by everything below | calls that fail, or take effect without (or after) an answer | ids are used once; a record moves `pending -> stored -> hashed` or to `failed`, and forward only |
| Creation and upload (`files.go`, `upload.go`, `hash.go`) | the locals of each request | create; upload: check, put, mark stored, read back and hash, mark hashed | rows and objects | racing uploads of one id; crash or failure between any two steps; late writes | the digest is that of a body sent for this file, and of the object in the bucket; the reply is true; the size limit holds; every request whose body arrived ends |
| Links and downloads (`links.go`, `download_tokens.go`, `download.go`) | signed tokens; the locals of each request | create link, verify, select, open, stream | rows and objects | row and object are read at different times; the declared size becomes Content-Length | a link leads to a hashed file; a body served in full is the recorded one; a body cut short shows |
| Cleanup job (`cleanup.go`) | the selected batch | select, remove object, delete row | rows and objects, with uploads under way | acts on rows it selected long ago; partial failures; batch limit | only expired rows go; every expired row that can be deleted goes |
| Admin API (`admin.go`) | the locals of each request | delete a file, manual cleanup, list | rows and objects | the same, and a second removal path | a deleted row stays deleted; only expired rows are swept |
| Process (`main.go`, `server.go`) | goroutines of main, Start, job and cancel; `sigCh`, `errCh`, `cleanupDone`, contexts | start, signal, shutdown with deadline, exit | requests and job | a signal at any point of Start; the deadline racing the last request | a clean exit cuts nothing off; a signal ends the process |
| Accounts and sessions (`register.go`, `auth.go`) | table `users`, signed cookies | register, login, require a session | guards every handler but download | check and insert of a registration are two steps; expiry at its edge and across restarts | unique names; one row per login name; a session lasts exactly its TTL |
| Start and migrations (`main.go`, `migrate.go`, `minio.go`) | how far main is; `schema_migrations` in the database | open, migrate, check bucket, serve; exit and restart | one connection of the pool, for ever | a crash between the dirty mark, the statements and the clean mark | a serving process has the whole schema; it comes up unless something is dirty |
| Connection pool (`db.go`) | ten connections and who waits for one | get, release, give up waiting | every statement | the job holds one connection while it waits for another; a deadline races the hand-over | somebody can always go on; no connection is lost |
| Middleware and metrics (`logging.go`, `metrics.go`) | request counters behind an RWMutex | record a request, take a snapshot | every request | concurrent increments and reads | every request is counted once; a snapshot is of one moment |
| Web client (`index.html`) | `selectedFile`, the file and link on display, one `uploadFile` per selection | create, upload, link in sequence | the API | `selectedFile` is read again after an await; flows overlap and end in any order | the file sent is the file registered; a link on display works; every flow ends |
| Native hash tool (`native/`) | read loop | SHA-256 of a file | called by `hash.go` | short reads and errors | digest and count of the whole file |
| Deployment | | | | | |

## 2. Modules

    Store            rows, objects, outcomes of calls, clock
      Upload         POST /files, POST /upload
      Cleanup        the background job
      Admin          DELETE /admin/files/{id}, POST /admin/cleanup
      Download       POST /links, GET /download
        FileDrop     all of them interleaved, with crashes; the properties
          FileDropProofs   theorems: types, where contents and digests come from
            RecordProofs   theorems: records, objects, links and replies over time
              LifecycleProofs  theorem: FileDrop implements FileLifecycle
          MCFileDrop       instances for TLC
    FileLifecycle    abstract specification of a file record, implemented by FileDrop
    Server           start, signals, shutdown and exit of one process
      ServerProofs   theorems
      MCServer       instances for TLC
    Accounts         POST /register and POST /login over the users table
      AccountsProofs theorems
      MCAccounts     an instance for TLC
    Pool             connections of database/sql
      Startup        main up to the server, migrations, restarts
        RequestPath  middleware, sessions, handlers and job on the pool (with Metrics)
          RequestPathProofs  theorems: types, pool, schema
            MetricsProofs    theorems: counters, snapshots, sessions
          MCRequestPath      an instance for TLC
    Metrics          the request counters and their mutex
    WebClient        the upload page over FileDrop
      WebClientProofs  theorems (with RecordProofs)
      MCWebClient    an instance for TLC

**Store.** `files` is the table with `NoRow` (status `absent`) for an id without
a row, `objects` the bucket, `issued` the ids `uuid.New` returned. `Key` keeps
the two object names the code uses apart: `uploads/<id>` (`files.go:62`) and the
bare id (`admin.go:98`, `admin.go:199`). A call ends `ok`, `lost` (error, no
effect) or `unconfirmed` (effect, but an error: a dropped connection or a
timeout); the constant `Faults` says which of the two stores may fail, and whether
a client may be lost while its body is read, which ends PutObject through the
request's context (`upload.go:128`). `late`
holds writes that MinIO carries out after the client was told of an error.
`HashTool` gives what the hash tool reports of a content: the digest and the
number of bytes, which `sha256_bytes` stores. Digests are a function of the
content and nothing assumes it injective.

**Upload.** One record `up[u]` per request; its `pc` is the next call of
`uploadHandler`: `put`, `markStored`, `hash`, `markHashed`, with `markPutFailed`
and `markHashFailed` on the error paths. Everything before PutObject only reads
and is one step (`AcceptUpload`, `RejectUpload`); what happens between that read
and the writes is left to the interleaving. `TooLarge` counts the multipart
framing as `MaxBytesReader` does. Once a request is done its file and content
stay in `up`: `Attempts(f)`, the requests that ever passed the status check for
`f`, are the history variable of the properties.

**Cleanup.** `JobSelect` takes the oldest reclaimable rows up to `BatchLimit`
(100 in the code); `JobRemove` and `JobDelete` then work row by row on what was
selected. The order of rows with equal age is free, and so is the order within
the batch, which allows more than the code does.

**Admin.** `DeleteSelect`, `DeleteRemove`, `DeleteDelete` and `SweepSelect`,
`SweepRemove`, `SweepDelete`, `SweepEnd`. `AdminListFilesHandler` writes nothing
and is left out.

**Download.** `CreateLink` adds a token, `VerifyToken` starts a download with
any token ever issued: only the server can sign, so HMAC and base64 are not
modelled. `OpenObject` is GetObject and Stat; minio-go reads on with the ETag
that Stat saw, so `StreamObject` delivers the whole content only if the object
is unchanged, and only if `Content-Length`, the declared size, agrees. A body
that is not whole is `short` when the client got less than was promised, and
`cut` when the response looks complete (`CutUnnoticed`): the error of io.Copy is
ignored, so without a Content-Length the chunked response just ends; and of an
object longer than its Content-Length net/http drops the write that goes beyond
it, which leaves exactly the promised bytes when a write ended there.

**FileDrop.** Interleaves the above with `LateWrite`, `Tick` and `Crash`. A
crash loses all locals, keeps both stores, and may turn a put under way into a
late write.

**FileLifecycle.** What the header of the schema promises of a record: create,
offer a body, store, fail, record a digest, delete. FileDrop implements it under
the mapping `Lifecycle` (`status` and `hash` are columns, `offered[f]` are the
contents of `Attempts(f)`).

**Server.** `main` waits in its select; `start` runs Server.Start; `job` runs
StartCleanupJob; `CancelHolder` is the goroutine that waits for `cleanupDone`.
`Drained`, `Arrive` and `Answer` are net/http as the code uses it: Shutdown
closes the listener, waits for Serve to return and for active requests. An exit
that leaves work unfinished is the action `Crash` of FileDrop.

**Accounts.** A registration is `RegisterCheck` (sanitise, validate, SELECT
EXISTS), `HashPassword` and `InsertUser`, with anything between them; a login is
`Authenticate` (SELECT, compare, fallback) and `TouchUser`. A text a client
types is a record: its sanitised form and whether it was typed exactly so,
because `RegisterHandler` trims and lowers what it stores and `loginHandler`
compares what was typed. Emails and usernames are disjoint (`@`). `LongPasswords`
pass `validatePassword` and are refused by bcrypt (over 72 bytes). Every database
call may fail, before or after its effect. Nothing deactivates a user, so
`is_active` is left out. Session cookies are in RequestPath.

**Pool.** `owner` says which goroutine has a connection, `waiting` who waits for
one. database/sql is modelled as the code uses it: `GetConn` takes a free
connection or joins those who wait, `PutConn` hands a connection straight to one
of them (a random one, as `connRequestSet` does), `Abandon` is the end of a
context while waiting, including the case that a connection was handed over just
before.

**Startup.** `boot` is where main is between `docker start` and `srv.Start`;
`schema` is the version and dirty flag of `schema_migrations` with the last
migration that was executed. golang-migrate marks a version dirty, runs it, and
marks it clean, in three transactions; `StartupFails` ends the process after any
of them, with or without the effect of the call that failed. A dirty version
ends every later start (`DirtyFound`) until an operator repairs it (`Repair`, the
two options of `docs/MIGRATIONS.md`). `postgres.WithInstance` takes a connection
from the pool and `RunMigrations` never closes the driver, so `"migrate"` owns a
connection as long as the process lives: nine of ten are usable.

**Metrics.** `RecordLock`/`RecordUnlock` and `SnapshotRLock`/`SnapshotRUnlock`
split `RecordRequest` and `Snapshot` where another goroutine could get between
if the lock were not held. The counters of uploads, downloads, logins and file
states are left out: nothing calls the functions that change them.

**RequestPath.** A handler is the set of its possible runs: the calls it makes,
in order, and the class of the status it ends with (`loginHandler`, ...,
`readyHandler`). What the statements do to the data is FileDrop and Accounts;
here they take a connection and give it back. `Arrive` is the middleware with
`requireAuth`: cookies are records of when they were set and expire, and only the
server sets them. `PingTimeout` is the one second of `/ready`, which can pass
merely because the pool is busy. The job is runCleanup with the connection of its
rows (`cursor`) and a second one per DELETE. A crash, and a failed start, loses
everything but `schema`, the clock and the cookies browsers hold.

**WebClient.** `flow[w]` is the `uploadFile` that the w-th selection started,
waiting for the reply of `POST /files`, `/upload` (upload request `w` of
FileDrop) or `/links`. `Pick` is everything up to the first await; `SendBody`
reads `page.selected` again, as `index.html:821` does; a cancelled selection
(`PickNothing`) makes it `undefined`, which FormData turns into a text. The
declared size is that of the file picked, fixed before the await. `overtaken` is
a history field: whether the selection changed before the body was sent.
`ConnectionLost` ends a flow while the backend goes on, or loses its PutObject
(`"client"` in `Faults`). An id comes from
`IdsOf[w]`, the ids `uuid.New` may return for flow `w`, and is one that was never
returned before; the proofs leave `IdsOf` open.

## 3. Runs

| Run | Instance | Checks |
|---|---|---|
| `uploads` | 1 file, 2 uploads, 3 contents (one at the limit, one a byte over it), all faults, job, 1 crash | `TypeOK`, `HashAuthentic`, `HashMatchesObject`, `HashedReplyTruthful`, `NoOversizedObject`, `ImplementsLifecycle`, `UploadAnswered`, `StoredNeverSilent` |
| `sweeps` | 2 files, 1 upload, 1 admin request, job with batch limit 1, one of the files undeletable, all faults, 1 crash, clock 0..3 | `YoungFileHasObject`, `AdminDeleteFinal`, `SweepsOnlyExpired`, `ExpiredReclaimed` |
| `downloads` | 1 file, 2 uploads of 2 contents, 1 admin request, 1 download, declared sizes 0, 1, 2, storage faults, TTLs -1, 0, 1, 9; cleanup disabled | `LinkedFileHashed`, `ServedMatchesRecord`, `NoSilentTruncation` |
| `server` | 1 process, 2 requests, job enabled or disabled | `ServerTypeOK`, `CleanExitCutsNothing`, `JobLivesWhileServing`, `SignalEndsProcess`, `ListenFailureEndsProcess` |
| `accounts` | 2 registrations, 1 login, 2 emails, 2 usernames (one of them the admin's), short, long and wrong passwords, all faults | `AccountsTypeOK`, `LoginUnambiguous`, `CreatedStays`, `ConflictTruthful`, `AdminNeverLockedOut` |
| `requests` | 3 connections, 3 requests (metrics; login; ready), job, 3 migrations, session TTL 1, 1 crash | `TypeOK`, `NoLeak`, `PoolNotStuck`, `ServesOnCompleteSchema`, `CountersExact`, `SnapshotExact`, `SessionHonoured`, `RequestCounted`, `CleanupRunEnds`, `ServesUnlessDirty` |
| `web_client` | 2 selections of 2 files, cancelled selections, 1 connection that may break, puts that lose their client, job, 1 crash | `WebTypeOK`, `HashOfStoredFile`, `RecordOfPickedFile`, `ShownLinkTrue`, `FlowSettles` |

What the properties say is in the comment above each. The essential ones:

* `HashAuthentic`: whatever uploads race, a row's digest is that of a body some
  accepted upload of that file sent, and a row has one exactly while it can be
  downloaded.
* `HashMatchesObject`, `ServedMatchesRecord`: however many uploads of one id race,
  record, object and served body agree as long as all of them sent the same bytes
  (`OneBody`: a client that retries). Run `hash_race` shows that the premise
  cannot be dropped; run `web_client` shows that the page keeps it: there
  `HashOfStoredFile` holds.
* `HashedReplyTruthful`: a client told `hashed` finds the row hashed or deleted.
  Only where another upload of the same id was told of its failure can it find
  the row `failed`; this is exactly what the ignored row counts of uploadHandler
  leave open.
* `NoSilentTruncation`: with a size declared truly, a response that looks complete
  is complete, whatever happens to the object while it is read. With a size of
  zero, or one smaller than the file, it need not be.
* `ExpiredReclaimed`: an expired row goes, even beside rows whose DELETE the
  database refuses every time, as long as these do not fill a batch ahead of it.
* `SweepsOnlyExpired`, `YoungFileHasObject`: the sweeps delete by id without
  looking again, and still no row or object younger than `MaxAge` is lost.
* `LoginUnambiguous`: both registrations of a race pass the existence check, and
  still no login name finds two rows, in either column.
* `ImplementsLifecycle`: every step of the backend is a step of `FileLifecycle`.
* `StoredNeverSilent`: a row can stay `stored` for ever (`stored_stuck`), but then
  no upload of it was answered with `hashed`.
* `PoolNotStuck`, `RequestCounted`, `CleanupRunEnds`: although the job asks for a
  connection with one in its hands and the migration driver keeps one, somebody
  can always go on, and every request and every run comes to its end.
* `ServesOnCompleteSchema`, `ServesUnlessDirty`: wherever a start dies, the next
  one runs every missing migration and serves, unless the process died with a
  version marked dirty: then the backend is down until somebody repairs it. (The
  mark that every migration sets while it runs does not count.)
* `RecordOfPickedFile`, `ShownLinkTrue`: the exact conditions under which the
  page tells the truth. The record of a flow always has the digest of what that
  flow sent. A flow sends another file's bytes only if the selection
  changed before `SendBody`; a link stands beside another file's name only if
  that file was picked before the link came.

**Bounds.** Races need two actors on one file, so one file and two uploads show
all races of uploads; sweeps need two files so that a batch limit of one leaves
a row behind, and so that one undeletable row (`Undeletable`) is just enough to
fill the batch. The clock runs to one or two ticks past `MaxAge`, so rows expire
before, during and after an upload. Contents `A`, `B` differ in size and digest;
`B` with its framing is exactly at the limit and `C` a byte over it. One crash reaches
every crash point; a second one only repeats it, as a crash leaves no locals.
`downloads` stops when all its requests are done (cleanup is off in it), and
`server` stops at the exit, `accounts` when its requests are done: there
deadlock is not checked. `accounts` has no crash: a crash loses the locals of its
requests, which is the same as requests that take no further step.

In `requests` three connections are the smallest pool that cannot lock up: one is
the driver's, one is the job's, and a third lets somebody go on; with three
requests and the job there are more goroutines than connections. The routes are
one that sets cookies, one behind `requireAuth` that reads the counters, and one
with a deadline and a call to MinIO; between them they have every kind of step. The
other handlers only repeat these steps, and with a longer one the graph is too
large for the liveness check; what `RequestPathProofs` proves holds for every
assignment of routes. Three migrations are what the binary has. In `web_client`
two selections give every overlap; calls of the stores do not fail there by
themselves (that is in `uploads`), but the process crashes, a connection breaks, a
put fails or is carried out late because its client is gone, and rows expire under
way. Only the first flow's connection breaks (`Flaky`), and `IdsOf` gives each
flow one id: which id a flow gets makes no difference to any property. The
instance has 679,422 distinct states.

**Fairness.** `RequestFairness`: a request takes its next step; each runs on its
own goroutine, and its calls to the database, to MinIO and to the hash tool end
(`upload.go:128`, `hash.go:36`, `admin.go:99`, `download.go:78`, or with their
connection). Which way a call ends is never assumed. Nothing is assumed where the
handler waits for its client: the context of `upload.go:128` does not end
minio-go's read of the request body and the server sets no ReadTimeout, so a
client that stops sending keeps an upload at `put` for ever; a client that stops
reading keeps a download at `stream`. `UploadAnswered` and `StoredNeverSilent`
speak of uploads that are past that. `CleanupFairness`: the ticker goes on
(`cleanup.go:40`), and for each row that is not `Undeletable` the cursor reaches
it and its DELETE succeeds if they are tried again and again. Requests are never
assumed to arrive. In Server, the goroutines of main and Start are scheduled and
the deadline of Shutdown fires; no request is assumed to return, and nothing is
assumed of the job. In RequestPath each request and
the job are goroutines that are scheduled, statements and calls to MinIO end, the
rows of a run end (`LIMIT 100`), and the container runtime starts the process
again (`restart: unless-stopped`); nobody is assumed to repair a dirty schema, no
request is assumed to arrive, and the hand-over of connections is random, not
fair: that every request is served needs only that there are finitely many. In
WebClient callbacks run and requests reach the backend or fail. There an upload at
`put` is fair as well: its client is the page's XMLHttpRequest, which sends the
body it has, or whose connection breaks, which ends the read at the backend and
the flow at the page. (A connection that neither delivers nor breaks would hold
the flow: the page sets no timeout. TCP is taken to give up on it.)

## 4. Where code and documents disagree

Each of these is a run in which TLC finds the violation.

| Run | Shown |
|---|---|
| `stored_stuck` | A crash between the UPDATE to `stored` and the next one leaves the row `stored` for ever: uploads refuse it and no sweep selects it. |
| `hash_race` | Two uploads of one id pass the status check; the second overwrites the object after the first one's digest was recorded. |
| `cleanup_race` | A row selected as expired and `pending` is deleted after an upload made it `stored` or `hashed`. |
| `admin_delete` | An admin delete removes the object under the bare id, so `uploads/<id>` stays in the bucket. |
| `shutdown_job` | Shutdown returns nil while the cleanup job is between removing an object and deleting its row. |

Seen while reading and not a run: `Content-Length` is the declared size, and when
it is not the object's the 200 carries a short body with no failure anywhere
(`LengthAgrees`); with a declared size of zero a read from MinIO that fails half
way ends the response as if it were complete (`CutUnnoticed`); a client that stops
sending its body keeps an upload, and one that stops reading a download, for as
long as it likes; a hundred rows whose DELETE keeps failing stop the cleanup of
everything younger; `created_at` is the database's clock and the cutoff of
cleanup.go the backend's, which the model takes for one, so a backend ahead of its
database sweeps rows early by the difference; the later of two equal registrations that race gets 500, not
the 409 of `docs/API.md:14`; a password of 73 to 128 bytes passes validation and
gets 500; a password is trimmed at registration and not at login; `clampTTLSeconds` has no minimum although its
comment names one (60 s); two racing uploads can leave a client with `200
hashed` and a row `failed`; cleanup is off unless `SFD_CLEANUP_ENABLED` is
`true`, the documents say it is on by default; `failed` rows are "kept for
audit" in the schema and swept by the job; status `ready` is never set; the
admin list selects a column that no migration creates; hashing is synchronous,
the comment on `uploadHandler` says asynchronous; of the counters of `/metrics`
only the request counters ever move, `docs/PRODUCTION_READINESS.md:176` lists the
others as collected; `/ready` answers 503 when the pool is merely busy for a
second; `RunMigrations` keeps a connection of the pool; a selection that changes
while `POST /files` is under way makes the page store another file's bytes (or
the text `undefined`) under the first one's name and size, and downloads of it
are cut to that size.

## 5. Proofs

Every invariant and every safety property of the passing runs is proved for
every value of the constants (any files, contents, requests, selections, faults,
number of crashes), from the ASSUMEs of the modules alone. Each inductive
invariant was checked by TLC on the instance of a run before it was proved.

### The file store: FileDropProofs

| Theorem | States |
|---|---|
| `TypeCorrect` | `Spec => []TypeOK` |
| `DigestsAreAuthentic` | `Spec => []HashAuthentic` |
| `DigestsMatchObjects` | `Spec => []HashMatchesObject` |
| `DownloadsMatchRecords` | `Spec => []ServedMatchesRecord` |

`TypeOK` alone is not inductive: a request at `put` uses its `file` and
`content`, which are `None` before. `TypeInv` adds that the locals a `pc` uses
are set (`UploadLocals`, `JobLocals`, `AdminLocals`, `DownloadLocals`). The
three others follow from one second invariant, `Provenance`: every content that
is anywhere in the system for a file - in its object, in a late write, read by a
download, or behind a digest held by a row or a request - was sent by an
accepted upload of that file. It is inductive because contents enter only by
`AcceptUpload` and requests are never forgotten, and it gives the properties:
when the accepted uploads sent the same bytes there is one such content, so any
two agree. The lemmas
`TableStep`, `BucketSteps`, `AcceptedStays`, `OfferedGrows`, `HashEnters` and
`ContentEnters` say what a step can do to rows, objects and requests, and are
what the proof has one case per action for.

### Records over time: RecordProofs

| Theorem | States |
|---|---|
| `LinksLeadToHashedFiles` | `Spec => []LinkedFileHashed` |
| `AdminDeletesAreFinal` | `Spec => []AdminDeleteFinal` |
| `SweepsTakeOnlyExpired` | `Spec => SweepsOnlyExpired` (an action property) |
| `YoungFilesKeepObjects` | `Spec => []YoungFileHasObject` |
| `ObjectsFitLimit` | `Spec => []NoOversizedObject` |
| `HashedRepliesAreTrue` | `Spec => []HashedReplyTruthful` |
| `TruncationShows` | `Spec => []NoSilentTruncation` |

All seven follow from one inductive invariant, `RecordInv`, which adds to `TypeInv`
and `Provenance`:

* `Known`, `NeverReady`: rows, requests, admin deletes and tokens only have ids
  that were issued, so no INSERT can bring a row back under an id somebody
  holds; and no statement sets `ready`. With `RowFate` (a step leaves a row
  alone, inserts it under a fresh id, moves it on, or drops it) this gives
  `GoneStays` and `HashedStays`, on which links (`LinkedFileHashed` is then
  inductive) and admin deletes (`DeletedGone`) rest.
* `TargetsStale`: what the job or a manual sweep has selected, or is about to
  delete, is gone or older than `MaxAge`. The selection is not repeated, but age
  only grows (`ClockGrows`) and an id is not used again, so it stays true
  (`StaleStays`) however long the sweep takes.
* `YoungKept`: a file that is hashed, or whose digest is about to be written, has
  its object unless it is stale. The second half is what makes it inductive: the
  digest is taken from an object that is there, and only a sweep of a stale file
  takes it away before the row is updated (`ObjectStays`). Admin deletes cannot:
  they remove the bare id, which is no file's object.
* `SizesKept`: nothing in the bucket or in a late write is too large.
* `Replies`, `AllOnTrack`, `FailureTold`: past its UPDATE to `stored` a request
  finds the row not pending, and past that to `hashed` not stored, whoever moved
  it on; and a row is failed only if an upload of it was told so. This is what
  lets uploadHandler ignore the number of rows it changed.
* `DownloadsCarry`: a download that got past its SELECT has the size of the row,
  which no UPDATE changes and no INSERT repeats, and its body is cut unnoticed
  only where that size permits it. With `Provenance` this gives
  `NoSilentTruncation`.

### Refinement: LifecycleProofs

`RecordsFollowLifecycle` is `Spec => ImplementsLifecycle`: `Init` maps to the
initial states of `FileLifecycle`, and each `[Next]_vars` step maps to a step of
one file's record or to a stutter. It uses `RecordInv`: that a digest is one of a
body offered comes from `Provenance`, that a new row's id was never used from
`Known`.

### Process and accounts

`ServerProofs` proves `ServerTyped`, and `CleanExit`
(`Spec => []CleanExitCutsNothing`) from the invariant `Drain` (once Shutdown has returned nothing can become active again),
and `JobNotCancelled` (`Spec => []JobLivesWhileServing`) from `Cancel` (a
cancelled job that has not returned belongs to a Start that has).

`AccountsProofs` proves all five invariants of `accounts`: `AccountsTyped`,
`LoginFindsOneRow`, `CreatedIsLasting`, `ConflictIsTrue`, `AdminGetsIn`. The
invariant `AccountsInv` adds what the properties rest on: the locals are set and
a registration that has not ended has no row (`RegLocals`), the id a login holds
is a row's (`LogLocals`), and uniqueness per column (`Unique`). `Unique` gives
`LoginUnambiguous` only with `NamesAssumption`: a login name is looked up in both
columns. `TableStep`, `RegStep` and `LogStep` say what a step can do to each
variable.

### The request path

`RequestPathProofs` proves, for any requests, routes, crashes and migrations and
any pool of at least three connections, `RequestsTyped`, `ConnectionsReturned`
(`Spec => []NoLeak`), `PoolDeadlockFree` (`Spec => []PoolNotStuck`) and
`SchemaComplete` (`Spec => []ServesOnCompleteSchema`). Neither of the properties
is inductive. `PoolInv` adds to the types: nobody waits while a connection is
free (`NoIdle`); who waits has no connection, unless it is the job, which has
that of its rows (`ReqPool`, `JobPool`); the driver has one at most and never
waits (`MigratePool`); before the process serves there are no requests
(`Quiet`); and a dirty version is the next one, executed or not (`SchemaInv`).
`PoolNotStuck` follows by counting: of three connections in use one may be the
driver's and one a waiting job's, so the third is with somebody who goes on.
`GetConnEffect`, `PutConnEffect` and `GiveBack` say what the pool's operations do
and are cited in the case of each action.

`MetricsProofs` proves `CountersAreExact` (`Spec => []CountersExact`) and
`SnapshotsAreExact` (`Spec => []SnapshotExact`). Both need to know what happens
while the mutex is held: `MutexInv` says who holds it and that writer and readers
exclude each other; `CountInv` that the counters are those of the requests done,
and that what a writer has loaded is still the counter; `SnapInv` that a whole
snapshot counts one set of finished requests, and that the first half of one
still agrees with the counter.
`Requests` may be infinite: the requests done are a finite set in every reachable
state, and that is part of the invariant. `SessionsAreHonoured`
(`Spec => SessionHonoured`) follows from `SessionsInv`: every cookie ever set
expires `SessionTTL` after it was.

### The page: WebClientProofs

| Theorem | States |
|---|---|
| `PageUsesBackend` | `WebSpec => Spec` |
| `PageTyped` | `WebSpec => []WebTypeOK` |
| `PageKeepsHashes` | `WebSpec => []HashOfStoredFile` |
| `PageRecordsPickedFile` | `WebSpec => []RecordOfPickedFile` |
| `PageShowsTrueLink` | `WebSpec => []ShownLinkTrue` |

The page is a client that FileDrop allows (`PageIsClient`), so the backend behind
it keeps `RecordInv`, and all theorems about `Spec` hold there. `WebInv` adds what
flows know: their locals are set (`WebLocals`); each has a record of its own, and
only its own request was accepted for it (`OwnFile`); the body is the picked file
unless the selection changed before it was sent (`BodyPicked`); the record has
the size of the picked file (`SizeDeclared`); links are tokens for the flow's
file, and the one on display is that of a flow that ended (`LinksOwn`).
`OwnFile` gives `OneBody(f)` for every file, the premise of the theorems on
digests: that is why `HashOfStoredFile`, which `hash_race` violates with
arbitrary clients, holds behind the page. `WebAssumption` asks that what the page
sends (the sizes of its files, `ttl_seconds`) is among what FileDrop's clients
may send.

### Only model-checked

The liveness properties, which are out of the prover's reach: `UploadAnswered`,
`StoredNeverSilent`, `ExpiredReclaimed`, `SignalEndsProcess`,
`ListenFailureEndsProcess`, `RequestCounted`, `CleanupRunEnds`,
`ServesUnlessDirty` and `FlowSettles`. The properties of section 4 are violated.

## 6. Not modelled, and the plan

Left out for good: log lines and request ids, the counters nothing changes,
parsing of environment variables and of the store's endpoint, the native hash
tool (a sequential loop around OpenSSL on a private file, seen through its
result), deployment files, presentation in the web page and its requests without
state of their own (login, register, metrics, admin buttons), file names and
content types.

Next: theorems about `FileLifecycle` itself, carried over to the backend by
`RecordsFollowLifecycle`; the action that makes `hash_race` possible, isolated as
the exact condition under which digest and object part; and the safety half of
the liveness properties (which labels a request can be at, and that its `pc` only
moves forward) as step lemmas.
