----------------------------- MODULE MCFileDrop -----------------------------
(* Small instances of FileDrop. Contents "A", "B" and "C" have lengths 1, 2 *)
(* and 3 and digests of their own.                                          *)
EXTENDS FileDrop, TLC

MCRequestedTTL == {-1, 0, 1, 9}
MCDeclaredSize == {-1, 0, 1}
TwoContents == {"A", "B"}
ThreeContents == {"A", "B", "C"}
MCSizeOf == [c \in Content |-> CASE c = "A" -> 1 [] c = "B" -> 2 [] c = "C" -> 3]
MCSha256 == [c \in Content |-> CASE c = "A" -> "sA" [] c = "B" -> "sB" [] c = "C" -> "sC"]

\* Upload requests are interchangeable.
UploadSymmetry == Permutations(Uploads)
=============================================================================
