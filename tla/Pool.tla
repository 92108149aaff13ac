-------------------------------- MODULE Pool --------------------------------
(***************************************************************************)
(* The connection pool OpenDB configures: database/sql hands out at most   *)
(* MaxOpenConns connections; whoever asks while all are in use waits, and  *)
(* a connection that comes back goes straight to one of those who wait.    *)
(***************************************************************************)
CONSTANTS
    Conn,       \* the connections SetMaxOpenConns allows
    Nobody      \* the owner of a connection that is not in use

VARIABLES
    owner,      \* the goroutine that has each connection
    waiting     \* the goroutines that wait for one

poolVars == <<owner, waiting>>

PoolInit ==
    /\ owner = [c \in Conn |-> Nobody]
    /\ waiting = {}

Free == {c \in Conn : owner[c] = Nobody}
Held(o) == {c \in Conn : owner[c] = o}

\* DB.conn: take a free connection, no matter which, or join those who wait.
GetConn(o) ==
    \/ /\ Free # {}
       /\ owner' = [owner EXCEPT ![CHOOSE c \in Free : TRUE] = o]
       /\ UNCHANGED waiting
    \/ /\ Free = {}
       /\ waiting' = waiting \cup {o}
       /\ UNCHANGED owner

\* DB.putConn: hand the connection over, to a random one of those who wait.
PutConn(c) ==
    \/ /\ waiting = {}
       /\ owner' = [owner EXCEPT ![c] = Nobody]
       /\ UNCHANGED waiting
    \/ \E w \in waiting : /\ owner' = [owner EXCEPT ![c] = w]
                          /\ waiting' = waiting \ {w}

\* The context of a request that waits ends: it leaves the queue, or gives back
\* the connection that was handed to it in the meantime.
Abandon(o) ==
    \/ /\ o \in waiting
       /\ waiting' = waiting \ {o}
       /\ UNCHANGED owner
    \/ \E c \in Held(o) : PutConn(c)
=============================================================================
