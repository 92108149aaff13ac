--------------------------- MODULE MCRequestPath ----------------------------
(* A small instance of RequestPath with every kind of step. The login makes *)
(* the session /metrics needs, and with the ping of /ready it keeps the     *)
(* pool busy.                                                               *)
EXTENDS RequestPath, TLC

MCRequests == {"r1", "r2", "r3"}
MCRoutesOf == ("r1" :> {"metrics"}) @@ ("r2" :> {"login"}) @@ ("r3" :> {"ready"})
=============================================================================
