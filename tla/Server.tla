------------------------------- MODULE Server -------------------------------
(***************************************************************************)
(* One process of the backend from start to exit: main, the goroutine that *)
(* runs Server.Start, the cleanup goroutine, the goroutine that holds its  *)
(* cancel function, and the HTTP requests. What the requests and the job   *)
(* do to files is in FileDrop, where an exit of this process that leaves   *)
(* work unfinished is the action Crash.                                    *)
(***************************************************************************)
CONSTANT Requests       \* HTTP requests

VARIABLES
    main,       \* where main is
    sigCh,      \* a signal waits in sigCh
    errCh,      \* what Start returned, waiting in errCh
    start,      \* where the goroutine of Start is
    inShutdown, \* http.Server.Shutdown was called
    req,        \* state of each request
    job,        \* where StartCleanupJob is
    cleanupDone,\* the channel cleanupDone is closed
    cancelled   \* cleanupCtx is cancelled

httpVars == <<inShutdown, req>>
jobVars  == <<job, cleanupDone, cancelled>>
serverVars == <<main, sigCh, errCh, start, httpVars, jobVars>>

Exited == main \in {"exit 0", "exit 1"}

\* The database is closed by main's deferred Close.
DBClosed == main = "closed db"

ServerTypeOK ==
    /\ main \in {"select", "shutdown", "closed db", "exit 0", "exit 1"}
    /\ sigCh \in BOOLEAN
    /\ errCh \in {"empty", "listen error", "server closed"}
    /\ start \in {"spawn", "listen", "track", "serve", "returned"}
    /\ inShutdown \in BOOLEAN
    /\ req \in [Requests -> {"unsent", "active", "answered", "refused", "cut"}]
    /\ job \in {"none", "query", "rows", "removed", "wait", "returned"}
    /\ cleanupDone \in BOOLEAN
    /\ cancelled \in BOOLEAN

Init ==
    /\ main = "select" /\ sigCh = FALSE /\ errCh = "empty"
    /\ start = "spawn" /\ inShutdown = FALSE
    /\ req = [r \in Requests |-> "unsent"]
    /\ job = "none" /\ cleanupDone = FALSE /\ cancelled = FALSE

-----------------------------------------------------------------------------
(* main *)

\* SIGINT or SIGTERM; the channel holds one.
Signal ==
    /\ ~Exited
    /\ sigCh' = TRUE
    /\ UNCHANGED <<main, errCh, start, httpVars, jobVars>>

\* The select takes the signal: Shutdown closes the listener and starts to wait.
TakeSignal ==
    /\ main = "select" /\ sigCh
    /\ main' = "shutdown" /\ sigCh' = FALSE
    /\ inShutdown' = TRUE
    /\ UNCHANGED <<errCh, start, req, jobVars>>

Drained == start # "serve" /\ \A r \in Requests : req[r] # "active"

\* The process ends: the requests it was working on are cut off.
Exit(code) ==
    /\ main' = code
    /\ req' = [r \in Requests |-> IF req[r] = "active" THEN "cut" ELSE req[r]]
    /\ UNCHANGED <<sigCh, errCh, start, inShutdown, jobVars>>

\* Mutant of ShutdownReturns: Shutdown does not wait for requests.
ShutdownAtOnce ==
    /\ main = "shutdown"
    /\ main' = "closed db"
    /\ UNCHANGED <<sigCh, errCh, start, httpVars, jobVars>>

\* Shutdown returns nil: Serve has returned and no request is active. main
\* returns and its deferred Close closes the database.
ShutdownReturns ==
    /\ main = "shutdown" /\ Drained
    /\ main' = "closed db"
    /\ UNCHANGED <<sigCh, errCh, start, httpVars, jobVars>>

MainReturns == main = "closed db" /\ Exit("exit 0")

\* Mutant of ShutdownTimeout: Shutdown without a deadline.
NoShutdownTimeout == FALSE /\ UNCHANGED serverVars

\* The five seconds are over: os.Exit(1), without deferred calls.
ShutdownTimeout == main = "shutdown" /\ Exit("exit 1")

\* Mutant of TakeError: only the error of a closed server is looked at.
TakeServerClosed == main = "select" /\ errCh = "server closed" /\ Exit("exit 1")

\* Start returned first; it never returns nil.
TakeError == main = "select" /\ errCh # "empty" /\ Exit("exit 1")

Main == TakeSignal \/ ShutdownReturns \/ MainReturns \/ ShutdownTimeout \/ TakeError

-----------------------------------------------------------------------------
(* Server.Start and http.Server.Serve *)

\* SFD_CLEANUP_ENABLED is read and the two goroutines are started; a disabled
\* job returns at once.
StartGoroutines ==
    /\ start = "spawn" /\ ~Exited
    /\ start' = "listen"
    /\ \/ job' = "query" /\ UNCHANGED cleanupDone
       \/ job' = "returned" /\ cleanupDone' = TRUE
    /\ UNCHANGED <<main, sigCh, errCh, httpVars, cancelled>>

Listen ==
    /\ start = "listen" /\ ~Exited
    /\ start' = "track"
    /\ UNCHANGED <<main, sigCh, errCh, httpVars, jobVars>>

ListenFails ==
    /\ start = "listen" /\ ~Exited
    /\ start' = "returned" /\ errCh' = "listen error"
    /\ cancelled' = TRUE
    /\ UNCHANGED <<main, sigCh, httpVars, job, cleanupDone>>

\* Serve takes the listener, or returns because Shutdown was called before.
Serve ==
    /\ start = "track" /\ ~Exited
    /\ IF inShutdown THEN start' = "returned" /\ errCh' = "server closed"
                     ELSE start' = "serve" /\ UNCHANGED errCh
    /\ UNCHANGED <<main, sigCh, httpVars, jobVars>>

\* Mutant of ServeReturns: ErrServerClosed is turned into nil.
ServeReturnsNil ==
    /\ start = "serve" /\ inShutdown /\ ~Exited
    /\ start' = "returned" /\ errCh' = "nil"
    /\ UNCHANGED <<main, sigCh, httpVars, jobVars>>

\* Accept fails on the closed listener.
ServeReturns ==
    /\ start = "serve" /\ inShutdown /\ ~Exited
    /\ start' = "returned" /\ errCh' = "server closed"
    /\ UNCHANGED <<main, sigCh, httpVars, jobVars>>

StartNext == StartGoroutines \/ Listen \/ ListenFails \/ Serve \/ ServeReturns

\* A request arrives: it is served, or refused when nothing listens.
Arrive(r) ==
    /\ req[r] = "unsent"
    /\ req' = [req EXCEPT ![r] =
                  IF start = "serve" /\ ~inShutdown /\ ~Exited THEN "active" ELSE "refused"]
    /\ UNCHANGED <<main, sigCh, errCh, start, inShutdown, jobVars>>

\* The handler returns; it may do so at any time, and its outgoing calls may
\* keep it from returning before the deadline of Shutdown.
Answer(r) ==
    /\ req[r] = "active" /\ ~Exited
    /\ req' = [req EXCEPT ![r] = "answered"]
    /\ UNCHANGED <<main, sigCh, errCh, start, inShutdown, jobVars>>

-----------------------------------------------------------------------------
(* StartCleanupJob and runCleanup. A call fails when its context is         *)
(* cancelled or the database is closed.                                     *)

JobStep(from, to) ==
    /\ job = from /\ ~Exited
    /\ job' = to
    /\ UNCHANGED <<main, sigCh, errCh, start, httpVars, cleanupDone, cancelled>>

\* The SELECT: rows to work on, or an error that ends the run.
JobQuery ==
    \/ ~cancelled /\ ~DBClosed /\ JobStep("query", "rows")
    \/ JobStep("query", "wait")

\* RemoveObject for the next row.
JobRemove == ~cancelled /\ JobStep("rows", "removed")

\* DELETE of that row; an error only skips it.
JobDelete == JobStep("removed", "rows")

JobRowsEnd == JobStep("rows", "wait")

\* The select takes the tick.
JobTick == JobStep("wait", "query")

\* The select takes ctx.Done: the job returns and cleanupDone is closed.
JobReturn ==
    /\ job = "wait" /\ cancelled /\ ~Exited
    /\ job' = "returned" /\ cleanupDone' = TRUE
    /\ UNCHANGED <<main, sigCh, errCh, start, httpVars, cancelled>>

Job == JobQuery \/ JobRemove \/ JobDelete \/ JobRowsEnd \/ JobTick \/ JobReturn

\* Mutant of CancelHolder: it does not wait for the job.
CancelAtOnce ==
    /\ start # "spawn" /\ ~cancelled /\ ~Exited
    /\ cancelled' = TRUE
    /\ UNCHANGED <<main, sigCh, errCh, start, httpVars, job, cleanupDone>>

\* The goroutine that waits for cleanupDone and then calls cleanupCancel.
CancelHolder ==
    /\ cleanupDone /\ ~cancelled /\ ~Exited
    /\ cancelled' = TRUE
    /\ UNCHANGED <<main, sigCh, errCh, start, httpVars, job, cleanupDone>>

Next ==
    \/ Signal \/ Main \/ StartNext \/ Job \/ CancelHolder
    \/ \E r \in Requests : Arrive(r) \/ Answer(r)

Spec == Init /\ [][Next]_serverVars

\* The goroutines of main and Start are scheduled and the deadline of Shutdown
\* fires. No request is assumed to return, nor the cleanup job to get on.
FairSpec == Spec /\ WF_serverVars(Main) /\ WF_serverVars(StartNext)

-----------------------------------------------------------------------------
\* When the process ends with code 0 every request it accepted was answered:
\* Shutdown waits for the active ones and for Serve, whenever the signal came,
\* and main does not take the ErrServerClosed of Start for the end.
CleanExitCutsNothing == main = "exit 0" => \A r \in Requests : req[r] # "cut"

\* In a process that serves requests the context of the cleanup job is cancelled
\* only after the job has returned by itself: the goroutine Start leaves the
\* cancel function to never ends a job that is at work.
JobLivesWhileServing == (start = "serve" /\ cancelled) => job = "returned"

\* A signal ends the process, though requests may hang and Start may fail or be
\* anywhere between its steps.
SignalEndsProcess == sigCh ~> Exited

\* A process that cannot listen ends, by itself or by a signal.
ListenFailureEndsProcess == errCh = "listen error" ~> Exited

\* server.go on Shutdown: it "gracefully shuts down the HTTP server and
\* background jobs": when it returned nil the job is not in the middle of a row.
ShutdownStopsJob == main \in {"closed db", "exit 0"} => job # "removed"
=============================================================================
