---------------------------- MODULE MCWebClient -----------------------------
(* A small instance of WebClient. The contents "A" and "B" and the text the *)
(* browser makes of an undefined file have lengths 1, 2 and 3.              *)
EXTENDS WebClient

MCSizeOf == [c \in Content |-> CASE c = "A" -> 1 [] c = "B" -> 2 [] c = "undefined" -> 3]
MCSha256 == [c \in Content |-> CASE c = "A" -> "sA" [] c = "B" -> "sB" [] c = "undefined" -> "sU"]
MCIdsOf == [w \in Uploads |-> IF w = 1 THEN {"f1"} ELSE {"f2"}]
MCFileOf == [w \in Uploads |-> IF w = 1 THEN "A" ELSE "B"]
=============================================================================
