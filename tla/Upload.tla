------------------------------- MODULE Upload --------------------------------
(***************************************************************************)
(* DropboxWorker::put() end to end: readChunk(), uploadSingleShot(),       *)
(* uploadSession() and commitInfo(), the retry loop of DropboxApi::send()   *)
(* under each request, and the upload endpoints of the server, as          *)
(* tests/fake_dropbox.py implements them.                                  *)
(*                                                                         *)
(* A request that timed out is not withdrawn: the server may still carry   *)
(* it out, at any later time, and a reply may be lost after the server      *)
(* carried the request out. Other clients write to and delete the target.  *)
(*                                                                         *)
(* A byte is its position in the source, so the whole file is the sequence *)
(* 1, 2, ..., size. A session is its number, counted from 1; number 0 is   *)
(* the empty session_id that a truncated answer is parsed into.            *)
(***************************************************************************)
EXTENDS RequestPolicy, Integers, Sequences

CONSTANTS ChunkSize,    \* UploadChunkSize, in bytes of the model
          MaxPart,      \* most bytes one readData() delivers
          MaxSize,      \* bound on the size of the source
          Absent, Orphan, Theirs    \* see AtomicPut

ASSUME SizesAssumption ==
    ChunkSize \in Nat \ {0} /\ MaxPart \in Nat \ {0} /\ MaxSize \in Nat

\* The bytes a+1..b of the source.
Slice(a, b) == [i \in 1 .. b - a |-> a + i]

Foreign == {Absent, Orphan, Theirs}

\* Nothing but a file of the job's is made of its bytes.
ASSUME ForeignAssumption ==
    /\ Absent # Orphan /\ Absent # Theirs /\ Orphan # Theirs
    /\ \A n \in 0..MaxSize : Slice(0, n) \notin Foreign

VARIABLES
    size,       \* length of the source
    overwrite,  \* flags & Overwrite
    pos,        \* bytes the source has delivered
    pc,         \* "idle", "read", "post", "wait", "done"
    op,         \* request under way or last made, "none" while the head is read
    chunk,      \* the buffer readChunk() fills
    offset,     \* offset of the session cursor
    sid,        \* sessionId
    attempt, refreshed,     \* locals of send()
    processed,  \* last processedSize() reported to the job
    outcome,    \* what put() returned: "none" before, "ok", or an error
    net,        \* requests sent that the server has not dealt with
    inbox,      \* the reply to the request under way, once it is on its way back
    sessions,   \* SESSIONS of the server: the bytes of each session
    closed,     \* sessions that finish removed from it
    dest,       \* TREE[path]: a member of Foreign, or the bytes of a file
    committed   \* history: this put() stored its file at least once

jobVars == <<size, overwrite>>
bufferVars == <<pos, chunk>>
cursorVars == <<offset, sid>>
loopVars == <<attempt, refreshed>>
serverVars == <<sessions, closed, dest, committed>>
vars == <<jobVars, bufferVars, pc, op, cursorVars, loopVars, processed, outcome,
          net, inbox, serverVars>>

Ops == {"single", "start", "append", "finish"}
Errors == Kinds \ {"None"}
Outcomes == Errors \cup {"none", "ok", "CannotRead", "CannotLogin", "IsDirectory"}

\* commitInfo(): how a name that is taken is dealt with.
ModeAlwaysOverwrite == "overwrite"      \* Variant: the flag is ignored.
CommitMode == IF overwrite THEN "overwrite" ELSE "add"

\* The request the worker waits on. The number of the attempt stands for the
\* connection it travels on.
Request == [op |-> op, try |-> attempt, sid |-> sid, offset |-> offset,
            mode |-> CommitMode, data |-> chunk]

Requests == [op: Ops, try: 0 .. MaxRetries - 1, sid: Nat, offset: Nat,
             mode: {"add", "overwrite"}, data: Seq(Nat)]
Replies == [status: {200, 401, 409, 429, 503}, summary: SUBSET {"conflict", "not_found"},
            session: Nat]

\* Every variable has its type, every loop its bound, and the whole file never has
\* to fit in memory: the buffer holds at most a chunk and what the last readData()
\* added to it.
TypeOK ==
    /\ size \in 0..MaxSize /\ overwrite \in BOOLEAN /\ pos \in 0..size
    /\ pc \in {"idle", "read", "post", "wait", "done"}
    /\ op \in Ops \cup {"none"}
    /\ pc \in {"post", "wait"} => op \in Ops
    /\ chunk \in Seq(Nat) /\ Len(chunk) < ChunkSize + MaxPart
    /\ offset \in 0..size /\ sid \in Nat
    /\ attempt \in 0 .. MaxRetries - 1 /\ refreshed \in BOOLEAN
    /\ processed \in 0..size /\ outcome \in Outcomes
    /\ net \subseteq Requests /\ inbox \subseteq Replies
    /\ sessions \in Seq(Seq(Nat)) /\ closed \subseteq 1 .. Len(sessions)
    /\ committed \in BOOLEAN

-----------------------------------------------------------------------------
Init ==
    /\ size \in 0..MaxSize /\ overwrite \in BOOLEAN
    /\ pos = 0 /\ pc = "idle" /\ op = "none" /\ chunk = <<>>
    /\ offset = 0 /\ sid = 0 /\ attempt = 0 /\ refreshed = FALSE
    /\ processed = 0 /\ outcome = "none"
    /\ net = {} /\ inbox = {}
    /\ sessions = <<>> /\ closed = {} /\ dest \in Foreign /\ committed = FALSE

\* The checks at the top of put().
Put ==
    /\ pc = "idle"
    /\ \/ pc' = "read" /\ UNCHANGED outcome
       \/ pc' = "done" /\ outcome' \in {"CannotLogin", "IsDirectory"}
    /\ UNCHANGED <<jobVars, bufferVars, op, cursorVars, loopVars, processed, net, inbox,
                   serverVars>>

FullBeyond(bytes) == Len(bytes) > ChunkSize     \* Variant: off by one.

\* readChunk() stops asking for more.
Full(bytes) == Len(bytes) >= ChunkSize

\* contentUpload() enters send().
Issue(request) ==
    /\ pc' = "post" /\ op' = request
    /\ attempt' = 0 /\ refreshed' = FALSE

\* dataReq() and readData(): the source delivers some bytes. A full buffer
\* starts the session, or is appended to it.
ReadPart ==
    /\ pc = "read" /\ ~Full(chunk)
    /\ \E n \in 1..MaxPart :
          /\ pos + n <= size
          /\ pos' = pos + n
          /\ chunk' = chunk \o Slice(pos, pos + n)
    /\ IF Full(chunk')
          THEN Issue(IF op = "none" THEN "start" ELSE "append")
          ELSE UNCHANGED <<pc, op, loopVars>>
    /\ UNCHANGED <<jobVars, cursorVars, processed, outcome, net, inbox, serverVars>>

\* The source runs dry: what is buffered is the whole file, or the last chunk.
ReadEnd ==
    /\ pc = "read" /\ pos = size
    /\ Issue(IF op = "none" THEN "single" ELSE "finish")
    /\ UNCHANGED <<jobVars, bufferVars, cursorVars, processed, outcome, net, inbox,
                   serverVars>>

\* Variant: an error is taken for the end of the source.
ReadErrorAsEnd ==
    /\ pc = "read"
    /\ Issue(IF op = "none" THEN "single" ELSE "finish")
    /\ UNCHANGED <<jobVars, bufferVars, cursorVars, processed, outcome, net, inbox,
                   serverVars>>

\* Variant: the session is closed with what there is before giving up.
ReadErrorFlush ==
    /\ pc = "read" /\ pc' = "done" /\ outcome' = "CannotRead"
    /\ net' = net \cup {[Request EXCEPT !.op = IF op = "none" THEN "single" ELSE "finish"]}
    /\ UNCHANGED <<jobVars, bufferVars, op, cursorVars, loopVars, processed, inbox,
                   serverVars>>

\* readData() fails, wherever the source is.
ReadError ==
    /\ pc = "read" /\ pc' = "done" /\ outcome' = "CannotRead"
    /\ UNCHANGED <<jobVars, bufferVars, op, cursorVars, loopVars, processed, net, inbox,
                   serverVars>>

-----------------------------------------------------------------------------
\* send(): an attempt is posted, unless authorize() fails.
Post ==
    /\ pc = "post"
    /\ \/ pc' = "wait" /\ net' = net \cup {Request} /\ UNCHANGED outcome
       \/ pc' = "done" /\ outcome' = "Authentication" /\ UNCHANGED net
    /\ UNCHANGED <<jobVars, bufferVars, op, cursorVars, loopVars, processed, inbox,
                   serverVars>>

\* Variant: a conflict on a retry is taken for the earlier attempt's success.
SucceededOnConflict(reply) ==
    reply.status = 200 \/ (attempt > 0 /\ "conflict" \in reply.summary)

Succeeded(reply) == reply.status = 200

StaleOffset == offset       \* Variant: the cursor is not advanced.

\* Where the session continues after the chunk that was just accepted.
NextOffset == offset + Len(chunk)

\* A request succeeded: go on with the session, or report success.
Advance(reply) ==
    /\ processed' = offset + Len(chunk)
    /\ offset' = IF op = "single" THEN offset ELSE NextOffset
    /\ sid' = IF op = "start" THEN reply.session ELSE sid
    /\ IF op \in {"single", "finish"}
          THEN pc' = "done" /\ outcome' = "ok" /\ UNCHANGED chunk
          ELSE pc' = "read" /\ chunk' = <<>> /\ UNCHANGED outcome
    /\ UNCHANGED loopVars

Fail(kind) ==
    /\ pc' = "done" /\ outcome' = kind
    /\ UNCHANGED <<chunk, cursorVars, processed, loopVars>>

\* Variant: the attempt is not counted.
AgainUncounted(isRefreshed) ==
    /\ pc' = "post"
    /\ refreshed' = isRefreshed
    /\ UNCHANGED <<attempt, chunk, cursorVars, processed, outcome>>

Again(isRefreshed) ==
    /\ pc' = "post"
    /\ attempt' = attempt + 1 /\ refreshed' = isRefreshed
    /\ UNCHANGED <<chunk, cursorVars, processed, outcome>>

\* The end of an attempt, and what the caller does with the result. A refresh
\* on the last attempt leaves the loop with "could not be reached".
Settle(reply, networkFailed) ==
    LET verdict == Verdict(attempt, refreshed, reply.status, networkFailed)
    IN  \/ verdict = "return" /\ Succeeded(reply) /\ Advance(reply)
        \/ /\ verdict = "return" /\ ~Succeeded(reply)
           /\ Fail(KindOf(reply.status, networkFailed, reply.summary))
        \/ verdict = "backoff" /\ Again(refreshed)
        \/ verdict = "refresh" /\ attempt + 1 < MaxRetries /\ Again(TRUE)
        \/ verdict = "refresh" /\ attempt + 1 >= MaxRetries /\ Fail("Network")

\* The reply arrives. If the connection breaks after its status line the body
\* is what came through: neither a session_id nor an error_summary.
Receive ==
    /\ pc = "wait"
    /\ \E reply \in inbox :
          \/ Settle(reply, FALSE)
          \/ Settle([reply EXCEPT !.summary = {}, !.session = 0], FALSE)
    /\ inbox' = {}
    /\ UNCHANGED <<jobVars, pos, op, net, serverVars>>

\* No status line: the connection broke, or the timer aborted the reply.
Lose ==
    /\ pc = "wait"
    /\ Settle([status |-> NoStatus, summary |-> {}, session |-> 0], TRUE)
    /\ inbox' = {}
    /\ UNCHANGED <<jobVars, pos, op, net, serverVars>>

-----------------------------------------------------------------------------
\* An answer only reaches a worker that still waits on that connection.
Answer(m, status, summary, session) ==
    inbox' = IF pc = "wait" /\ m = Request
             THEN {[status |-> status, summary |-> summary, session |-> session]}
             ELSE inbox

\* commit(): the parent must exist, and the name be free or the mode overwrite.
Store(m, data) ==
    \/ /\ dest = Orphan
       /\ Answer(m, 409, {"conflict", "not_found"}, 0)
       /\ UNCHANGED <<dest, committed>>
    \/ /\ dest \notin {Orphan, Absent} /\ m.mode # "overwrite"
       /\ Answer(m, 409, {"conflict"}, 0)
       /\ UNCHANGED <<dest, committed>>
    \/ /\ dest = Absent \/ (dest # Orphan /\ m.mode = "overwrite")
       /\ Answer(m, 200, {}, 0)
       /\ dest' = data /\ committed' = TRUE

ServeSingle(m) ==
    /\ m.op = "single"
    /\ Store(m, m.data)
    /\ UNCHANGED <<sessions, closed>>

ServeStart(m) ==
    /\ m.op = "start"
    /\ sessions' = Append(sessions, m.data)
    /\ Answer(m, 200, {}, Len(sessions) + 1)
    /\ UNCHANGED <<closed, dest, committed>>

\* The session an append or finish names is still in SESSIONS.
Open(s) == s \in 1 .. Len(sessions) /\ s \notin closed

\* The cursor of the request agrees with what the session holds.
InSync(m) == m.offset = Len(sessions[m.sid])

ServeAppend(m) ==
    /\ m.op = "append" /\ Open(m.sid)
    /\ IF InSync(m)
          THEN /\ sessions' = [sessions EXCEPT ![m.sid] = @ \o m.data]
               /\ Answer(m, 200, {}, 0)
          ELSE Answer(m, 409, {}, 0) /\ UNCHANGED sessions
    /\ UNCHANGED <<closed, dest, committed>>

\* The session is removed before the offset and the target are looked at.
ServeFinish(m) ==
    /\ m.op = "finish" /\ Open(m.sid)
    /\ closed' = closed \cup {m.sid}
    /\ IF InSync(m)
          THEN Store(m, sessions[m.sid] \o m.data)
          ELSE Answer(m, 409, {}, 0) /\ UNCHANGED <<dest, committed>>
    /\ UNCHANGED sessions

\* The handler dies looking the session up and the connection closes unanswered.
ServeUnknown(m) ==
    /\ m.op \in {"append", "finish"} /\ ~Open(m.sid)
    /\ UNCHANGED <<inbox, serverVars>>

\* Turned away before routing: a bad token, the rate limit, a server in trouble.
ServeRefused(m) ==
    /\ \E status \in {401, 429, 503} : Answer(m, status, {}, 0)
    /\ UNCHANGED serverVars

\* The server deals with a request, in any order.
Serve ==
    \E m \in net :
        /\ net' = net \ {m}
        /\ \/ ServeSingle(m) \/ ServeStart(m) \/ ServeAppend(m) \/ ServeFinish(m)
           \/ ServeUnknown(m) \/ ServeRefused(m)
        /\ UNCHANGED <<jobVars, bufferVars, pc, op, cursorVars, loopVars, processed,
                       outcome>>

\* Somebody else writes the target, deletes it, or deletes or makes its folder.
Interfere ==
    /\ dest' \in Foreign \ {dest}
    /\ UNCHANGED <<jobVars, bufferVars, pc, op, cursorVars, loopVars, processed,
                   outcome, net, inbox, sessions, closed, committed>>

Next == \/ Put \/ ReadPart \/ ReadEnd \/ ReadError \/ Post \/ Receive \/ Lose
        \/ Serve \/ Interfere

Spec == Init /\ [][Next]_vars

\* The job feeds the worker, and the timers of send() run out.
Fairness ==
    /\ WF_vars(ReadPart) /\ WF_vars(ReadEnd)
    /\ WF_vars(Post) /\ WF_vars(Lose)

FairSpec == Spec /\ Fairness

-----------------------------------------------------------------------------
\* Whatever is lost, repeated or late, and whoever interferes, the target is
\* never a torn file: it is the whole source or something of somebody else's.
DestIntact == dest \in Foreign \cup {Slice(0, size)}

\* put() only succeeds when the whole source was read and stored.
SuccessMeansStored == outcome = "ok" => pos = size /\ committed

\* If the source failed, nothing is ever stored, not even by a request that
\* is still on its way.
AbortStoresNothing == outcome = "CannotRead" => ~committed

\* Somebody else's item is only replaced when the job has allowed it.
NoSilentReplace ==
    [][dest = Theirs /\ dest' \notin Foreign => overwrite]_vars

\* Progress reported to the job is data the server has: in a session of this
\* put(), or in the target.
ProgressAcknowledged ==
    processed > 0 =>
        committed \/ \E s \in 1 .. Len(sessions) : Len(sessions[s]) >= processed

\* When the next chunk is read the cursor agrees with the server, whatever was
\* retried before and whatever is still on its way: that chunk is accepted,
\* and nothing was appended twice. Only an upload that lost the session_id has
\* no session to agree with.
CursorInSync ==
    pc = "read" /\ op \in {"start", "append"} /\ sid # 0 =>
        Open(sid) /\ Len(sessions[sid]) = offset

\* put() returns, whatever the network, the server and the other clients do.
PutReturns == (pc = "read") ~> (pc = "done")

\* put() keeps the promise of AtomicPut: the session, its chunks and retries
\* are invisible to whoever looks at the target.
AP == INSTANCE AtomicPut WITH
        Files <- {Slice(0, n) : n \in 0..MaxSize},
        whole <- Slice(0, size),
        phase <- IF pc = "idle" THEN "idle"
                 ELSE IF pc = "done" THEN "done" ELSE "running"

ImplementsAtomicPut == AP!Spec
==============================================================================
