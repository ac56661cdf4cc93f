------------------------------ MODULE FileOps --------------------------------
(***************************************************************************)
(* DropboxWorker::mkdir(), del(), rename() and copy(): one operation, with  *)
(* the retry loop of DropboxApi::send() under each of its requests, the     *)
(* endpoints of the server, and other clients of the account.              *)
(*                                                                         *)
(* As in Upload, a request that timed out is not withdrawn, and a reply may *)
(* be lost after the server carried the request out.                       *)
(***************************************************************************)
EXTENDS RequestPolicy, RemoteTree

CONSTANTS Names,    \* what paths are made of
          Trees,    \* what the account may hold at first
          Jobs,     \* the operations the job may ask for
          Spots,    \* paths other clients write to
          Theirs,   \* the file they write
          MaxMeddling   \* bound on what they do

Operations == {"mkdir", "del", "rename", "copy"}

\* rename() and copy() have a source, and a flag; for the others both are idle.
ASSUME JobsAssumption ==
    \A job \in Jobs :
        /\ DOMAIN job = {"kind", "from", "to", "overwrite"}
        /\ job.kind \in Operations /\ job.overwrite \in BOOLEAN
        /\ {job.from, job.to} \subseteq Seq(Names)
\* Whatever is in the tree is in a folder. Files can be told apart by their content.
ASSUME TreesAssumption ==
    \A t \in Trees :
        /\ DOMAIN t \subseteq Seq(Names) \ {<<>>}
        /\ \A p \in DOMAIN t : \A n \in 1..Len(p) : SubSeq(p, 1, n) \in DOMAIN t
        /\ \A p, q \in DOMAIN t : t[p] = t[q] => p = q \/ t[p] = Folder
ASSUME SpotsAssumption == Spots \subseteq Seq(Names) \ {<<>>} /\ MaxMeddling \in Nat

VARIABLES
    job,        \* what is asked of the worker
    pc,         \* "idle", "post", "wait", "done"
    op,         \* endpoint under way: "create", "delete", "clear", "move", "copy"
    attempt, refreshed,     \* locals of send()
    outcome,    \* what the operation returned: "none" before, "ok", or an error
    net, inbox, \* requests sent and not dealt with; the reply on its way back
    tree,       \* TREE
    cargo,      \* history: the files at or below the source when it began, but
                \* not those of others, of which there may be several copies
    done,       \* history: the server carried out what the job asked for
    abandoned,  \* history: a clearing delete was given up on, but may still come
    meddling    \* history: how often others changed the tree

loopVars == <<attempt, refreshed>>
history == <<cargo, done, abandoned, meddling>>
vars == <<job, pc, op, loopVars, outcome, net, inbox, tree, history>>

Endpoints == {"create", "delete", "clear", "move", "copy"}
Requests == [op: Endpoints, try: 0 .. MaxRetries - 1]
Outcomes == (Kinds \ {"None"}) \cup {"none", "ok", "CannotLogin", "Unsupported"}

\* The operation, its requests and the tree have their types, and the retries of a
\* request their bound.
TypeOK ==
    /\ job \in Jobs
    /\ pc \in {"idle", "post", "wait", "done"}
    /\ op \in Endpoints \cup {"none"}
    /\ attempt \in 0 .. MaxRetries - 1 /\ refreshed \in BOOLEAN
    /\ outcome \in Outcomes
    /\ net \subseteq Requests
    /\ DOMAIN tree \subseteq Seq(Names) \ {<<>>}
    /\ done \in BOOLEAN /\ abandoned \in BOOLEAN /\ meddling \in 0..MaxMeddling

-----------------------------------------------------------------------------
Init ==
    /\ job \in Jobs /\ tree \in Trees
    /\ pc = "idle" /\ op = "none"
    /\ attempt = 0 /\ refreshed = FALSE /\ outcome = "none"
    /\ net = {} /\ inbox = {}
    /\ cargo = {} /\ done = FALSE /\ abandoned = FALSE /\ meddling = 0

\* The paths an operation insists on: the root cannot be made, removed or moved.
NeedsPath == IF job.kind \in {"mkdir", "del"} THEN {job.to} ELSE {job.from, job.to}

RootError == IF job.kind = "mkdir" THEN "AlreadyExists" ELSE "AccessDenied"

\* The request that does what the job asked for.
Main == CASE job.kind = "mkdir" -> "create"
          [] job.kind = "del" -> "delete"
          [] job.kind = "rename" -> "move"
          [] job.kind = "copy" -> "copy"

\* Variant: copies and moves clear the way whatever the flags say.
FirstClears == IF job.kind \in {"rename", "copy"} THEN "clear" ELSE Main

\* transfer() has no overwriting move or copy and removes the target first.
First == IF job.kind \in {"rename", "copy"} /\ job.overwrite THEN "clear" ELSE Main

\* rpc() enters send().
Issue(endpoint) ==
    /\ pc' = "post" /\ op' = endpoint
    /\ attempt' = 0 /\ refreshed' = FALSE

\* The checks at the top of each operation; a source or target elsewhere is
\* left to get() and put().
Begin ==
    /\ pc = "idle"
    /\ cargo' = ContentsBelow(tree, job.from) \ {Theirs}
    /\ \/ <<>> \notin NeedsPath /\ Issue(First) /\ UNCHANGED outcome
       \/ /\ outcome' \in {"CannotLogin"}
                  \cup (IF job.kind \in {"rename", "copy"} THEN {"Unsupported"} ELSE {})
                  \cup (IF <<>> \in NeedsPath THEN {RootError} ELSE {})
          /\ pc' = "done" /\ UNCHANGED <<op, loopVars>>
    /\ UNCHANGED <<job, net, inbox, tree, done, abandoned, meddling>>

-----------------------------------------------------------------------------
\* send() returned. What became of the clearing delete is ignored.
Return(result) ==
    IF op = "clear"
    THEN Issue(Main) /\ UNCHANGED outcome
    ELSE pc' = "done" /\ outcome' = result /\ UNCHANGED <<op, loopVars>>

Request == [op |-> op, try |-> attempt]

\* An attempt is posted, unless authorize() fails.
Post ==
    /\ pc = "post"
    /\ \/ /\ pc' = "wait" /\ net' = net \cup {Request}
          /\ UNCHANGED <<op, loopVars, outcome>>
       \/ Return("Authentication") /\ UNCHANGED net
    /\ UNCHANGED <<job, inbox, tree, history>>

\* Variant: a conflict on a retry is taken for the earlier attempt's success.
SucceededOnConflict(status, summary) ==
    status = 200 \/ (attempt > 0 /\ "conflict" \in summary)

Succeeded(status, summary) == status = 200

\* Variant: the attempt is not counted.
AgainUncounted(isRefreshed) ==
    /\ pc' = "post" /\ refreshed' = isRefreshed
    /\ UNCHANGED <<op, attempt, outcome>>

Again(isRefreshed) ==
    /\ pc' = "post" /\ refreshed' = isRefreshed
    /\ attempt' = attempt + 1
    /\ UNCHANGED <<op, outcome>>

\* The end of an attempt. A refresh on the last one leaves the loop.
Settle(status, summary, networkFailed) ==
    LET verdict == Verdict(attempt, refreshed, status, networkFailed)
    IN  \/ verdict = "return" /\ Succeeded(status, summary) /\ Return("ok")
        \/ /\ verdict = "return" /\ ~Succeeded(status, summary)
           /\ Return(KindOf(status, networkFailed, summary))
        \/ verdict = "backoff" /\ Again(refreshed)
        \/ verdict = "refresh" /\ attempt + 1 < MaxRetries /\ Again(TRUE)
        \/ verdict = "refresh" /\ attempt + 1 >= MaxRetries /\ Return("Network")

\* The reply arrives, its body whole or cut off.
Receive ==
    /\ pc = "wait"
    /\ \E reply \in inbox :
          \E summary \in {reply.summary, {}} : Settle(reply.status, summary, FALSE)
    /\ inbox' = {}
    /\ UNCHANGED <<job, net, tree, history>>

\* No status line: the connection broke, or the timer aborted the reply.
Lose ==
    /\ pc = "wait"
    /\ Settle(NoStatus, {}, TRUE)
    /\ inbox' = {}
    /\ abandoned' = (abandoned \/ (op = "clear" /\ Request \in net))
    /\ UNCHANGED <<job, net, tree, cargo, done, meddling>>

-----------------------------------------------------------------------------
\* Why the server turns a request down, and what it does otherwise.
Refusal(endpoint) ==
    CASE endpoint = "create" -> CreateRefused(tree, job.to)
      [] endpoint \in {"delete", "clear"} -> DeleteRefused(tree, job.to)
      [] endpoint \in {"move", "copy"} -> RelocateRefused(tree, job.from, job.to)

Effect(endpoint) ==
    CASE endpoint = "create" -> Created(tree, job.to)
      [] endpoint \in {"delete", "clear"} -> Deleted(tree, job.to)
      [] endpoint \in {"move", "copy"} ->
            Relocated(tree, job.from, job.to, endpoint = "move")

\* An answer only reaches a worker that still waits on that connection.
Answer(r, status, summary) ==
    inbox' = IF pc = "wait" /\ r = Request
             THEN {[status |-> status, summary |-> summary]} ELSE inbox

\* The server deals with a request, in any order: it turns it away before
\* looking (a bad token, the rate limit, a server in trouble), or carries it out.
Serve ==
    \E r \in net :
        /\ net' = net \ {r}
        /\ \/ /\ \E status \in {401, 429, 503} : Answer(r, status, {})
              /\ UNCHANGED <<tree, done>>
           \/ /\ Refusal(r.op) # {} /\ Answer(r, 409, Refusal(r.op))
              /\ UNCHANGED <<tree, done>>
           \/ /\ Refusal(r.op) = {} /\ Answer(r, 200, {})
              /\ tree' = Effect(r.op)
              /\ done' = (done \/ r.op = Main)
        /\ UNCHANGED <<job, pc, op, loopVars, outcome, cargo, abandoned, meddling>>

\* Another client writes a file where there is none, or deletes something.
Meddle ==
    /\ meddling < MaxMeddling /\ meddling' = meddling + 1
    /\ \E spot \in Spots :
          \/ /\ spot \notin DOMAIN tree /\ HasParent(tree, spot)
             /\ tree' = [Created(tree, spot) EXCEPT ![spot] = Theirs]
          \/ spot \in DOMAIN tree /\ tree' = Deleted(tree, spot)
    /\ UNCHANGED <<job, pc, op, loopVars, outcome, net, inbox, cargo, done, abandoned>>

Next == Begin \/ Post \/ Receive \/ Lose \/ Serve \/ Meddle

Spec == Init /\ [][Next]_vars

\* The job asked, and the timers of send() run out.
FairSpec == Spec /\ WF_vars(Begin) /\ WF_vars(Post) /\ WF_vars(Lose)

-----------------------------------------------------------------------------
\* The worker's own steps and the server's, not those of other clients.
Ours == meddling' = meddling

\* The files a step makes disappear from the account.
Erased == Contents(tree) \ Contents(tree')

\* No file is ever erased but by an operation that says so, and then only at
\* or below its target, however many of its requests are repeated or late.
OnlyTargetErased ==
    [][Ours /\ Erased # {} =>
        /\ job.kind = "del" \/ (job.kind \in {"rename", "copy"} /\ job.overwrite)
        /\ Erased \subseteq ContentsBelow(tree, job.to)]_vars

\* The source holds the target, or the other way round.
Nested == IsPrefix(job.to, job.from) \/ IsPrefix(job.from, job.to)

\* A rename or copy only loses what it was to carry if it was told to overwrite
\* a target that holds the source or lies in it, or if a delete that clears the
\* way was given up on and came after the source had arrived there.
SourceSafe ==
    [][Ours /\ job.kind \in {"rename", "copy"} /\ Erased \cap cargo # {} =>
        /\ job.overwrite
        /\ Nested \/ abandoned]_vars

\* Success means that the server did it, not that it was found done.
SuccessMeansDone == outcome = "ok" => done

\* Every operation returns, whatever the network, the server and others do.
OperationReturns == (pc = "idle") ~> (pc = "done")

\* "server-side move keeps contents": after a rename that succeeded, what was
\* moved exists, unless somebody else removed it.
MoveKeepsContents ==
    job.kind = "rename" /\ outcome = "ok" /\ ~Nested /\ meddling = 0 => cargo \subseteq Contents(tree)
==============================================================================
