-------------------------------- MODULE Store --------------------------------
(***************************************************************************)
(* The state every handler of the file drop shares: the `files' table of   *)
(* PostgreSQL and the objects of the MinIO bucket, with the ways a call to *)
(* either can end, and the wall clock.                                     *)
(***************************************************************************)
EXTENDS Integers, FiniteSets

CONSTANTS
    FileId,         \* the UUIDs that uuid.New may return
    Content,        \* the byte strings clients send as file bodies
    SizeOf,         \* length in bytes of each content
    Digest,         \* hex SHA-256 digests
    Sha256,         \* digest of each content
    None,           \* SQL NULL, a missing object, an unset local
    CleanupEnabled, \* SFD_CLEANUP_ENABLED = "true"
    MaxAge,         \* SFD_CLEANUP_MAX_AGE
    MaxTime,        \* bound on the clock
    Faults          \* what may fail: calls to "db" and "store", a "client" sending a body

ASSUME ContentAssumption == SizeOf \in [Content -> Nat] /\ Sha256 \in [Content -> Digest]
ASSUME CleanupAssumption == CleanupEnabled \in BOOLEAN
ASSUME TimeAssumption == MaxAge \in Nat /\ MaxTime \in Nat
ASSUME FaultAssumption == Faults \subseteq {"db", "store", "client"}

\* What the hash tool reports of a content: the digest and the byte count.
HashTool(c) == [sha |-> Sha256[c], bytes |-> SizeOf[c]]
HashResult == [sha : Digest, bytes : Nat]

ASSUME NoneAssumption == None \notin FileId \cup Content \cup HashResult \cup Nat

\* Object names in the bucket: a prefix and a file id.
Key == {"uploads/", ""} \X FileId
ObjectKey(f) == <<"uploads/", f>>
BareKey(f)   == <<"", f>>

VARIABLES
    files,      \* the files table, a row per id; status "absent" is no row
    objects,    \* the bucket, a content or None per key
    late,       \* writes the store may still perform after the caller's error
    issued,     \* ids uuid.New has returned
    now         \* wall clock

storeVars == <<files, objects, late, issued, now>>

Status == {"pending", "stored", "hashed", "ready", "failed"}
NoRow == [status |-> "absent", hash |-> None, size |-> 0, created |-> 0]
Row == [status : Status \cup {"absent"}, hash : HashResult \cup {None},
        size : Nat, created : Nat]

StoreTypeOK ==
    /\ files \in [FileId -> Row]
    /\ objects \in [Key -> Content \cup {None}]
    /\ late \subseteq Key \X Content
    /\ issued \subseteq FileId
    /\ now \in Nat

StoreInit ==
    /\ files = [f \in FileId |-> NoRow]
    /\ objects = [k \in Key |-> None]
    /\ late = {}
    /\ issued = {}
    /\ now = 0

-----------------------------------------------------------------------------
(* Outcomes of a call. "lost": error, nothing happened. "unconfirmed": the *)
(* effect happened and the answer was an error (connection lost, timeout). *)

Outcomes(kind) == {"ok"} \cup (IF kind \in Faults THEN {"lost", "unconfirmed"} ELSE {})
Applied(o) == o # "lost"
Failed(o)  == o # "ok"

\* Mutants of SetStatusWhere: the WHERE clause forgets the status; an upsert.
SetStatusAlways(f, from, to) ==
    [files EXCEPT ![f].status = IF @ # "absent" THEN to ELSE @]
UpsertStatus(f, from, to) ==
    [files EXCEPT ![f].status = IF @ \in {from, "absent"} THEN to ELSE @]

\* UPDATE files SET status = to WHERE id = f AND status = from
SetStatusWhere(f, from, to) ==
    [files EXCEPT ![f].status = IF @ = from THEN to ELSE @]

\* UPDATE files SET sha256_hex, sha256_bytes, status = 'hashed'
\*   WHERE id = f AND status = 'stored'
SetHashWhere(f, h) ==
    [files EXCEPT ![f] = IF @.status = "stored"
                         THEN [@ EXCEPT !.status = "hashed", !.hash = h] ELSE @]

\* DELETE FROM files WHERE id = f
DeleteRow(f) == [files EXCEPT ![f] = NoRow]

RemoveObject(k) == [objects EXCEPT ![k] = None]

\* Mutant of Reclaimable: the age is not looked at.
ReclaimableAtAnyAge(f) == files[f].status \in {"pending", "failed"}

\* status IN ('pending', 'failed') AND created_at < cutoff
Reclaimable(f) ==
    /\ files[f].status \in {"pending", "failed"}
    /\ files[f].created < now - MaxAge

\* The store performs a write whose caller has already been told of an error.
LateWrite ==
    /\ \E w \in late : /\ objects' = [objects EXCEPT ![w[1]] = w[2]]
                       /\ late' = late \ {w}
    /\ UNCHANGED <<files, issued, now>>

Tick == /\ now < MaxTime
        /\ now' = now + 1
        /\ UNCHANGED <<files, objects, late, issued>>
=============================================================================
