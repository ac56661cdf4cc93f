------------------------------ MODULE MCFileOps ------------------------------
(***************************************************************************)
(* Finite instance of FileOps: a file, a folder with a file in it and a     *)
(* second folder, and every operation between them, into themselves and     *)
(* into each other, and on the root.                                       *)
(***************************************************************************)
EXTENDS FileOps

CONSTANTS f1, f2

MCNames == {"a", "b", "x"}
A == <<"a">>
AX == <<"a", "x">>
B == <<"b">>
BX == <<"b", "x">>

\* A folder and a file; two folders with a file each.
MCTrees ==
    {[p \in {A, AX, B} |-> IF p = A THEN Folder ELSE IF p = AX THEN f1 ELSE f2],
     [p \in {A, AX, B, BX} |-> IF Len(p) = 1 THEN Folder ELSE IF p = AX THEN f1 ELSE f2]}

MCJobs ==
    [kind: {"mkdir", "del"}, from: {<<>>}, to: {<<>>, A, AX, BX}, overwrite: {FALSE}]
    \cup [kind: {"rename", "copy"}, from: {<<>>, A, AX}, to: {A, AX, B, BX},
          overwrite: BOOLEAN]

MCSpots == {A, AX, B}
==============================================================================
