----------------------------- MODULE MCImageFile -----------------------------
(***************************************************************************)
(* Instances of ImageFile for TLC.                                         *)
(***************************************************************************)
EXTENDS ImageFile

CONSTANTS f1, f2, f3

MCNameLen == [f \in Files |-> IF f = f1 THEN 1 ELSE 2]

\* f3 is empty.
MCDataLen == [f \in Files |-> CASE f = f1 -> 2 [] f = f2 -> 3 [] f = f3 -> 0]
MCHole == <<"hole", NoFile, 0>>

MCProcs == Files \cup {Packer, Reader}
MCNames == Files \cup {Image}
MCLists == {<<f1, f2>>, <<f3, f1>>, <<f2, f3, f1>>}
WrapLists == {<<f1, f2>>}
=============================================================================
