------------------------------- MODULE Cleanup -------------------------------
(***************************************************************************)
(* The background cleanup goroutine (StartCleanupJob, runCleanup). A run   *)
(* selects a batch of expired rows once and then, per row, removes the     *)
(* object and deletes the row, looking at neither again.                   *)
(***************************************************************************)
EXTENDS Store

CONSTANT BatchLimit     \* LIMIT of the job's SELECT

ASSUME BatchAssumption == BatchLimit \in Nat \ {0}

VARIABLE job        \* locals of the goroutine

CleanupTypeOK ==
    job \in [pc : {"idle", "rows", "delete"}, batch : SUBSET FileId,
             cur : FileId \cup {None}]

CleanupInit == job = [pc |-> "idle", batch |-> {}, cur |-> None]

\* Mutant of OldestReclaimable: status = 'pending' instead of the IN list.
OldestPending(B) ==
    LET R == {f \in FileId : Reclaimable(f) /\ files[f].status = "pending"}
    IN  B \subseteq R /\ (B = {} => R = {}) /\ Cardinality(B) <= BatchLimit

\* WHERE created_at < cutoff AND status IN (...) ORDER BY created_at LIMIT n:
\* a maximal batch, no row left out being older than a row taken.
OldestReclaimable(B) ==
    LET R == {f \in FileId : Reclaimable(f)}
    IN  /\ B \subseteq R
        /\ B = R \/ Cardinality(B) = BatchLimit
        /\ Cardinality(B) <= BatchLimit
        /\ \A f \in B, g \in R \ B : files[f].created <= files[g].created

\* A run starts: at once, then at every tick of the ticker. (A failed SELECT
\* ends the run with nothing changed.)
JobSelect ==
    /\ CleanupEnabled
    /\ job.pc = "idle"
    /\ \E B \in SUBSET FileId : /\ OldestReclaimable(B)
                                /\ job' = [job EXCEPT !.pc = "rows", !.batch = B]
    /\ UNCHANGED storeVars

\* rows.Next, then RemoveObject(object_key), whose error is only logged.
JobRemove(f) ==
    /\ job.pc = "rows"
    /\ f \in job.batch
    /\ job' = [pc |-> "delete", batch |-> job.batch \ {f}, cur |-> f]
    /\ \E o \in Outcomes("store") :
          objects' = IF Applied(o) THEN RemoveObject(ObjectKey(f)) ELSE objects
    /\ UNCHANGED <<files, late, issued, now>>

\* DELETE by id alone; an error only skips the row.
JobDelete(o) ==
    /\ job.pc = "delete"
    /\ files' = IF Applied(o) THEN DeleteRow(job.cur) ELSE files
    /\ job' = [job EXCEPT !.pc = "rows", !.cur = None]
    /\ UNCHANGED <<objects, late, issued, now>>

\* rows.Next returns false: no row left, or the cursor broke (unchecked).
JobEnd ==
    /\ job.pc = "rows"
    /\ job.batch = {} \/ "db" \in Faults
    /\ job' = [job EXCEPT !.pc = "idle", !.batch = {}]
    /\ UNCHANGED storeVars

CleanupNext ==
    \/ JobSelect
    \/ \E f \in FileId : JobRemove(f)
    \/ \E o \in Outcomes("db") : JobDelete(o)
    \/ JobEnd

CleanupCrash == job' = [pc |-> "idle", batch |-> {}, cur |-> None]
=============================================================================
