---------------------------- MODULE FileLifecycle ----------------------------
(***************************************************************************)
(* What the system promises of a file record, whoever acts on it: an id    *)
(* names one file, ever; its record moves pending -> stored -> hashed with *)
(* a way out to failed before it is hashed; the digest is written once, is *)
(* that of a body a client offered while the record was pending, and stays *)
(* until the record is deleted. This is the lifecycle the schema's header  *)
(* states, without handlers, object store, clock or crashes.               *)
(***************************************************************************)
CONSTANTS FileId, Content, HashOf(_), None

VARIABLES
    status,     \* status of each file's record, "absent" for none
    hash,       \* recorded digest and byte count, or None
    issued,     \* ids ever used
    offered     \* bodies clients sent for the file

lifecycleVars == <<status, hash, issued, offered>>

Init ==
    /\ status = [f \in FileId |-> "absent"]
    /\ hash = [f \in FileId |-> None]
    /\ issued = {}
    /\ offered = [f \in FileId |-> {}]

\* An id is drawn, and its record comes to exist or does not.
Create(f) ==
    /\ f \notin issued
    /\ issued' = issued \cup {f}
    /\ status' \in {status, [status EXCEPT ![f] = "pending"]}
    /\ UNCHANGED <<hash, offered>>

Offer(f, c) ==
    /\ status[f] = "pending"
    /\ offered' = [offered EXCEPT ![f] = @ \cup {c}]
    /\ UNCHANGED <<status, hash, issued>>

Store(f) ==
    /\ status[f] = "pending" /\ offered[f] # {}
    /\ status' = [status EXCEPT ![f] = "stored"]
    /\ UNCHANGED <<hash, issued, offered>>

Fail(f) ==
    /\ status[f] \in {"pending", "stored"} /\ offered[f] # {}
    /\ status' = [status EXCEPT ![f] = "failed"]
    /\ UNCHANGED <<hash, issued, offered>>

RecordHash(f, c) ==
    /\ status[f] = "stored" /\ c \in offered[f]
    /\ status' = [status EXCEPT ![f] = "hashed"]
    /\ hash' = [hash EXCEPT ![f] = HashOf(c)]
    /\ UNCHANGED <<issued, offered>>

Delete(f) ==
    /\ status[f] # "absent"
    /\ status' = [status EXCEPT ![f] = "absent"]
    /\ hash' = [hash EXCEPT ![f] = None]
    /\ UNCHANGED <<issued, offered>>

Next == \E f \in FileId :
    \/ Create(f) \/ Store(f) \/ Fail(f) \/ Delete(f)
    \/ \E c \in Content : Offer(f, c) \/ RecordHash(f, c)

Spec == Init /\ [][Next]_lifecycleVars
=============================================================================
