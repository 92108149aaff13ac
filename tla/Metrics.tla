------------------------------ MODULE Metrics -------------------------------
(***************************************************************************)
(* The request counters behind GET /metrics: RecordRequest and Snapshot    *)
(* under the RWMutex of Metrics. An increment loads and stores, a snapshot *)
(* reads field after field, and other goroutines run in between.           *)
(***************************************************************************)
EXTENDS Integers

CONSTANT Requests       \* HTTP requests

VARIABLES
    count,      \* requestsTotal, requestErrors4xx, requestErrors5xx
    writer,     \* the goroutine that holds mu for writing, at most one
    readers,    \* the goroutines that hold it for reading
    loaded,     \* requestsTotal as the goroutine loaded it
    snap        \* the snapshot of each /metrics request

metricsVars == <<count, writer, readers, loaded, snap>>

StatusClass == {"2xx", "4xx", "5xx"}
Zero == [total |-> 0, e4xx |-> 0, e5xx |-> 0]

MetricsTypeOK ==
    /\ count \in [total : Nat, e4xx : Nat, e5xx : Nat]
    /\ writer \subseteq Requests
    /\ readers \subseteq Requests
    /\ loaded \in [Requests -> Nat]
    /\ snap \in [Requests -> [total : Nat, e4xx : Nat, e5xx : Nat]]

MetricsInit ==
    /\ count = Zero
    /\ writer = {} /\ readers = {}
    /\ loaded = [r \in Requests |-> 0]
    /\ snap = [r \in Requests |-> Zero]

\* Mutant of RecordLock: mu.RLock instead of mu.Lock.
RecordRLock(r) ==
    /\ writer' = writer \cup {r}
    /\ loaded' = [loaded EXCEPT ![r] = count.total]
    /\ UNCHANGED <<count, readers, snap>>

\* RecordRequest: mu.Lock, and the load of requestsTotal++.
RecordLock(r) ==
    /\ writer = {} /\ readers = {}
    /\ writer' = {r}
    /\ loaded' = [loaded EXCEPT ![r] = count.total]
    /\ UNCHANGED <<count, readers, snap>>

\* Mutant of RecordUnlock: the deferred Unlock is missing.
RecordKeepsLock(r, status) ==
    /\ count' = [total |-> loaded[r] + 1,
                 e4xx  |-> count.e4xx + (IF status = "4xx" THEN 1 ELSE 0),
                 e5xx  |-> count.e5xx + (IF status = "5xx" THEN 1 ELSE 0)]
    /\ UNCHANGED <<writer, loaded, readers, snap>>

\* The store of requestsTotal++, the error counter, mu.Unlock.
RecordUnlock(r, status) ==
    /\ count' = [total |-> loaded[r] + 1,
                 e4xx  |-> count.e4xx + (IF status = "4xx" THEN 1 ELSE 0),
                 e5xx  |-> count.e5xx + (IF status = "5xx" THEN 1 ELSE 0)]
    /\ writer' = writer \ {r}
    /\ loaded' = [loaded EXCEPT ![r] = 0]
    /\ UNCHANGED <<readers, snap>>

\* Mutant of SnapshotRLock: the lock is missing.
SnapshotNoLock(r) ==
    /\ readers' = readers \cup {r}
    /\ snap' = [snap EXCEPT ![r].total = count.total]
    /\ UNCHANGED <<count, writer, loaded>>

\* Snapshot: mu.RLock, and the first of the fields.
SnapshotRLock(r) ==
    /\ writer = {}
    /\ readers' = readers \cup {r}
    /\ snap' = [snap EXCEPT ![r].total = count.total]
    /\ UNCHANGED <<count, writer, loaded>>

\* The other fields, mu.RUnlock.
SnapshotRUnlock(r) ==
    /\ readers' = readers \ {r}
    /\ snap' = [snap EXCEPT ![r].e4xx = count.e4xx, ![r].e5xx = count.e5xx]
    /\ UNCHANGED <<count, writer, loaded>>

\* globalMetrics is zero again in a new process.
MetricsReset ==
    /\ count' = Zero
    /\ writer' = {} /\ readers' = {}
    /\ loaded' = [r \in Requests |-> 0]
    /\ UNCHANGED snap
=============================================================================
