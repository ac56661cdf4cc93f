----------------------------- MODULE AtomicPut -------------------------------
(***************************************************************************)
(* What DropboxWorker::put() promises the job that called it, whatever the *)
(* upload is made of: the destination only ever changes to the whole file, *)
(* nothing is replaced unless the job allowed it, success means the file   *)
(* was stored, and a source that failed half-way leaves nothing behind.    *)
(*                                                                         *)
(* What it does not promise: after any other error the file may have been  *)
(* stored, or may be stored later by a request that is still on its way.   *)
(***************************************************************************)
CONSTANTS Files,    \* contents a job may write
          Errors,   \* errors put() may report once it has begun
          Absent,   \* the destination does not exist, its folder does
          Orphan,   \* neither the destination nor its folder exists
          Theirs    \* somebody else's item is at the destination

Foreign == {Absent, Orphan, Theirs}

VARIABLES phase,        \* "idle", "running", "done"
          whole,        \* the file the job writes
          overwrite,    \* the job allowed its target to be replaced
          dest,         \* what is at the destination
          committed,    \* the file was stored there at least once
          outcome       \* what put() returned, "none" before

vars == <<phase, whole, overwrite, dest, committed, outcome>>

Init ==
    /\ phase = "idle" /\ whole \in Files /\ overwrite \in BOOLEAN
    /\ dest \in Foreign
    /\ committed = FALSE /\ outcome = "none"

Begin ==
    /\ phase = "idle" /\ phase' = "running"
    /\ UNCHANGED <<whole, overwrite, dest, committed, outcome>>

\* No account, or the target is the root: nothing is sent.
Reject ==
    /\ phase = "idle" /\ phase' = "done"
    /\ outcome' \in {"CannotLogin", "IsDirectory"}
    /\ UNCHANGED <<whole, overwrite, dest, committed>>

\* The file is stored in one step. That can happen while put() runs or after
\* it reported an error, and more than once.
Commit ==
    /\ phase # "idle"
    /\ outcome \notin {"CannotRead", "CannotLogin", "IsDirectory"}
    /\ dest = Absent \/ (overwrite /\ dest # Orphan)
    /\ dest' = whole /\ committed' = TRUE
    /\ UNCHANGED <<phase, whole, overwrite, outcome>>

Return ==
    /\ phase = "running" /\ phase' = "done"
    /\ \/ outcome' = "ok" /\ committed
       \/ outcome' = "CannotRead" /\ ~committed
       \/ outcome' \in Errors
    /\ UNCHANGED <<whole, overwrite, dest, committed>>

\* Another client of the account, or the user on the web.
Interfere ==
    /\ dest' \in Foreign
    /\ UNCHANGED <<phase, whole, overwrite, committed, outcome>>

Next == Begin \/ Reject \/ Commit \/ Return \/ Interfere

Spec == Init /\ [][Next]_vars
==============================================================================
