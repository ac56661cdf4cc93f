----------------------------- MODULE RemoteTree ------------------------------
(***************************************************************************)
(* The TREE of tests/fake_dropbox.py and what the file endpoints do to it:  *)
(* operators without state.                                                *)
(*                                                                         *)
(* A path is the sequence of its names, the root the empty sequence, as     *)
(* DropboxApi::apiPath() makes it; a tree maps every path but the root to   *)
(* Folder or to the content of a file.                                     *)
(***************************************************************************)
EXTENDS SequencesExt

CONSTANT Folder

\* A path and everything below it.
Below(tree, path) == {p \in DOMAIN tree : IsPrefix(path, p)}

HasParent(tree, path) == Len(path) = 1 \/ Front(path) \in DOMAIN tree

\* create_folder_v2, delete_v2: what becomes of a tree that permits it.
Created(tree, path) ==
    [p \in DOMAIN tree \cup {path} |-> IF p = path THEN Folder ELSE tree[p]]

Deleted(tree, path) == Restrict(tree, DOMAIN tree \ Below(tree, path))

\* move_v2 and copy_v2 carry the whole subtree; neither looks for a parent.
Relocated(tree, from, to, moving) ==
    LET Suffix(path, p) == SubSeq(p, Len(path) + 1, Len(p))
        arrivals == {to \o Suffix(from, p) : p \in Below(tree, from)}
        stay == IF moving THEN DOMAIN tree \ Below(tree, from) ELSE DOMAIN tree
    IN  [p \in stay \cup arrivals |->
            IF p \in arrivals THEN tree[from \o Suffix(to, p)] ELSE tree[p]]

\* Why an endpoint turns a request down: the words of its error_summary, {} if
\* it does not.
CreateRefused(tree, path) ==
    IF path \in DOMAIN tree THEN {"conflict"}
    ELSE IF ~HasParent(tree, path) THEN {"conflict", "not_found"}
    ELSE {}

DeleteRefused(tree, path) == IF path \in DOMAIN tree THEN {} ELSE {"not_found"}

RelocateRefused(tree, from, to) ==
    IF from \notin DOMAIN tree THEN {"not_found"}
    ELSE IF to \in DOMAIN tree THEN {"conflict"}
    ELSE {}

\* The files of a tree, and those at or below a path.
Contents(tree) == {tree[p] : p \in DOMAIN tree} \ {Folder}
ContentsBelow(tree, path) == {tree[p] : p \in Below(tree, path)} \ {Folder}
==============================================================================
