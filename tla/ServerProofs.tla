---------------------------- MODULE ServerProofs ----------------------------
(***************************************************************************)
(* A clean exit cuts no request off, and the cleanup job of a serving      *)
(* process is not cancelled, for any set of requests.                      *)
(***************************************************************************)
EXTENDS Server, TLAPS

\* Once Shutdown has returned nothing can become active again, and requests are
\* cut off only by an exit.
Drain ==
    /\ main # "select" /\ main # "exit 1" => inShutdown
    /\ main \in {"closed db", "exit 0"} => Drained
    /\ main # "exit 1" => \A r \in Requests : req[r] # "cut"

\* A cancelled job that has not returned belongs to a Start that has.
Cancel ==
    /\ start = "spawn" => job = "none" /\ ~cleanupDone /\ ~cancelled
    /\ cleanupDone => job = "returned"
    /\ cancelled /\ job # "returned" => start = "returned"

LEMMA TypeInit == Init => ServerTypeOK
  BY DEF Init, ServerTypeOK

\* Every step keeps the types.
LEMMA TypeStep == ServerTypeOK /\ [Next]_serverVars => ServerTypeOK'
<1> SUFFICES ASSUME ServerTypeOK, [Next]_serverVars PROVE ServerTypeOK'
    OBVIOUS
<1> USE DEF ServerTypeOK, httpVars, jobVars
<1>1. CASE Signal  BY <1>1 DEF Signal
<1>2. CASE Main
  <2>1. ASSUME NEW code \in {"exit 0", "exit 1"}, Exit(code)  PROVE ServerTypeOK'
    BY <2>1 DEF Exit
  <2>2. CASE TakeSignal  BY <2>2 DEF TakeSignal
  <2>3. CASE ShutdownReturns  BY <2>3 DEF ShutdownReturns
  <2>4. QED  BY <1>2, <2>1, <2>2, <2>3 DEF Main, MainReturns, ShutdownTimeout, TakeError
<1>3. CASE StartNext
  BY <1>3 DEF StartNext, StartGoroutines, Listen, ListenFails, Serve, ServeReturns
<1>4. CASE Job
  BY <1>4 DEF Job, JobQuery, JobRemove, JobDelete, JobRowsEnd, JobTick, JobReturn, JobStep
<1>5. CASE CancelHolder  BY <1>5 DEF CancelHolder
<1>6. ASSUME NEW q \in Requests, Arrive(q) \/ Answer(q)  PROVE ServerTypeOK'
  <2>1. PICK v \in {"active", "refused", "answered"} : req' = [req EXCEPT ![q] = v]
    BY <1>6 DEF Arrive, Answer
  <2>2. req' \in [Requests -> {"unsent", "active", "answered", "refused", "cut"}]
    BY <2>1
  <2>3. UNCHANGED <<main, sigCh, errCh, start, inShutdown, job, cleanupDone, cancelled>>
    BY <1>6 DEF Arrive, Answer
  <2>4. /\ sigCh' \in BOOLEAN /\ inShutdown' \in BOOLEAN
        /\ cleanupDone' \in BOOLEAN /\ cancelled' \in BOOLEAN
    BY <2>3, Zenon
  <2>5. main' = main /\ errCh' = errCh /\ start' = start /\ job' = job
    BY <2>3
  <2>6. QED  BY <2>2, <2>4, <2>5
<1>7. CASE UNCHANGED serverVars  BY <1>7 DEF serverVars
<1>8. QED  BY <1>1, <1>2, <1>3, <1>4, <1>5, <1>6, <1>7 DEF Next

\* Drain is inductive.
LEMMA DrainStep == ServerTypeOK /\ Drain /\ [Next]_serverVars => Drain'
<1> SUFFICES ASSUME ServerTypeOK, Drain, [Next]_serverVars PROVE Drain'
    OBVIOUS
<1> USE DEF Drain, Drained, httpVars, jobVars
<1>1. CASE Signal  BY <1>1 DEF Signal
<1>2. CASE TakeSignal  BY <1>2 DEF TakeSignal
<1>3. CASE ShutdownReturns  BY <1>3 DEF ShutdownReturns
<1>4. CASE MainReturns
  \* No request is active, so none is cut.
  <2>1. main = "closed db" /\ \A r \in Requests : req[r] # "active" /\ req[r] # "cut"
    BY <1>4 DEF MainReturns
  <2>2. \A r \in Requests : req'[r] = req[r]
    BY <1>4, <2>1 DEF MainReturns, Exit
  <2>3. QED  BY <1>4, <2>1, <2>2 DEF MainReturns, Exit
<1>5. CASE ShutdownTimeout \/ TakeError  BY <1>5 DEF ShutdownTimeout, TakeError, Exit
<1>6. CASE StartNext
  BY <1>6 DEF StartNext, StartGoroutines, Listen, ListenFails, Serve, ServeReturns, Exited
<1>7. CASE Job
  BY <1>7 DEF Job, JobQuery, JobRemove, JobDelete, JobRowsEnd, JobTick, JobReturn, JobStep
<1>8. CASE CancelHolder  BY <1>8 DEF CancelHolder
<1>9. ASSUME NEW q \in Requests, Arrive(q) \/ Answer(q)  PROVE Drain'
  <2>1. UNCHANGED <<main, start, inShutdown>>  BY <1>9 DEF Arrive, Answer
  <2>2. \A r \in Requests : req'[r] # req[r] => req'[r] \in {"active", "refused", "answered"}
    BY <1>9 DEF Arrive, Answer, ServerTypeOK
  <2>3. (main = "exit 0" \/ inShutdown) => \A r \in Requests : req'[r] = "active" => req[r] = "active"
    BY <1>9 DEF Arrive, Answer, ServerTypeOK, Exited
  <2>4. QED  BY <2>1, <2>2, <2>3
<1>10. CASE UNCHANGED serverVars  BY <1>10 DEF serverVars
<1>11. QED
  BY <1>1, <1>2, <1>3, <1>4, <1>5, <1>6, <1>7, <1>8, <1>9, <1>10 DEF Next, Main

\* Cancel is inductive.
LEMMA CancelStep == ServerTypeOK /\ Cancel /\ [Next]_serverVars => Cancel'
<1> SUFFICES ASSUME ServerTypeOK, Cancel, [Next]_serverVars PROVE Cancel'
    OBVIOUS
<1> USE DEF Cancel
<1>1. CASE UNCHANGED <<start, jobVars>>  BY <1>1 DEF jobVars
<1>2. CASE StartGoroutines  BY <1>2 DEF StartGoroutines
<1>3. CASE ListenFails  BY <1>3 DEF ListenFails
<1>4. CASE Listen \/ Serve \/ ServeReturns
  <2>1. start \in {"listen", "track", "serve"} /\ start' # "spawn" /\ UNCHANGED <<job, cleanupDone, cancelled>>
    BY <1>4 DEF Listen, Serve, ServeReturns, jobVars
  <2>2. ~(cancelled /\ job # "returned")  BY <2>1
  <2>3. QED  BY <2>1, <2>2
<1>5. ASSUME NEW from \in {"query", "rows", "removed", "wait"}, NEW to, JobStep(from, to)
      PROVE  Cancel'
  BY <1>5 DEF JobStep
<1>6. CASE JobReturn  BY <1>6 DEF JobReturn
<1>7. CASE CancelHolder  BY <1>7 DEF CancelHolder
<1>8. CASE Job
  BY <1>5, <1>6, <1>8 DEF Job, JobQuery, JobRemove, JobDelete, JobRowsEnd, JobTick
<1>9. Signal \/ Main \/ (\E r \in Requests : Arrive(r) \/ Answer(r)) \/ UNCHANGED serverVars
         => UNCHANGED <<start, jobVars>>
  BY DEF Signal, Main, TakeSignal, ShutdownReturns, MainReturns, ShutdownTimeout, TakeError,
         Exit, Arrive, Answer, serverVars
<1>10. QED  BY <1>1, <1>2, <1>3, <1>4, <1>7, <1>8, <1>9 DEF Next, StartNext

\* The state of process, server and job keeps its type.
THEOREM ServerTyped == Spec => []ServerTypeOK
BY TypeInit, TypeStep, PTL DEF Spec

\* No process that exits with 0 cut a request off (Server.Shutdown, main).
THEOREM CleanExit == Spec => []CleanExitCutsNothing
<1>1. Init => Drain  BY DEF Init, Drain
<1>2. ServerTypeOK /\ Drain => CleanExitCutsNothing  BY DEF Drain, CleanExitCutsNothing
<1>3. QED  BY <1>1, <1>2, TypeInit, TypeStep, DrainStep, PTL DEF Spec

\* A serving process never cancels a cleanup job that is at work (Server.Start).
THEOREM JobNotCancelled == Spec => []JobLivesWhileServing
<1>1. Init => Cancel  BY DEF Init, Cancel
<1>2. Cancel => JobLivesWhileServing  BY DEF Cancel, JobLivesWhileServing
<1>3. QED  BY <1>1, <1>2, TypeInit, TypeStep, CancelStep, PTL DEF Spec
=============================================================================
