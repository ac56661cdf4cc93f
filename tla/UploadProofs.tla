---------------------------- MODULE UploadProofs -----------------------------
(***************************************************************************)
(* An upload keeps the promise of AtomicPut, and the safety properties that *)
(* follow, proved for every size of source, chunk and part and every        *)
(* number of retries.                                                      *)
(*                                                                         *)
(* The invariant follows the bytes: the buffer is the part of the source    *)
(* between the cursor and what was read (Buffered), so is the body of every *)
(* request on its way (Carried), so each session holds a prefix of the      *)
(* source (Prefixes) and a finish that is in sync stores all of it. Final   *)
(* and Replied order the commit: it follows the final request, which is     *)
(* only made when the source has run dry, and precedes the reply to it.     *)
(* The second part is about the cursor, the last about the steps of an       *)
(* upload.                                                                 *)
(***************************************************************************)
EXTENDS Upload, RequestPolicyProofs, SequenceTheorems

\* A slice of the source is a sequence of the expected length and bytes.
LEMMA SliceType ==
    ASSUME NEW a \in Nat, NEW b \in Nat, a <= b
    PROVE  /\ Slice(a, b) \in Seq(Nat)
           /\ Len(Slice(a, b)) = b - a
           /\ \A i \in 1 .. b - a : Slice(a, b)[i] = a + i
    BY DEF Slice

\* Adjacent slices make one slice: what appending a chunk relies on.
LEMMA SliceConcat ==
    ASSUME NEW a \in Nat, NEW b \in Nat, NEW c \in Nat, a <= b, b <= c
    PROVE  Slice(a, b) \o Slice(b, c) = Slice(a, c)
    <1> DEFINE s == Slice(a, b)
               t == Slice(b, c)
               u == Slice(a, c)
    <1>1. /\ s \in Seq(Nat) /\ Len(s) = b - a
          /\ \A i \in 1 .. b - a : s[i] = a + i
        BY SliceType
    <1>2. /\ t \in Seq(Nat) /\ Len(t) = c - b
          /\ \A i \in 1 .. c - b : t[i] = b + i
        BY SliceType
    <1>3. a <= c
        OBVIOUS
    <1>4. /\ u \in Seq(Nat) /\ Len(u) = c - a
          /\ \A i \in 1 .. c - a : u[i] = a + i
        BY <1>3, SliceType
    <1> HIDE DEF s, t, u
    <1>5. /\ s \o t \in Seq(Nat) /\ Len(s \o t) = Len(s) + Len(t)
          /\ \A i \in 1 .. Len(s) + Len(t) :
                (s \o t)[i] = IF i <= Len(s) THEN s[i] ELSE t[i - Len(s)]
        BY <1>1, <1>2, ConcatProperties
    <1>6. \A i \in 1 .. c - a : (s \o t)[i] = u[i]
        <2> SUFFICES ASSUME NEW i \in 1 .. c - a PROVE (s \o t)[i] = a + i
            BY <1>4
        <2>1. CASE i <= b - a
            BY <1>1, <1>2, <1>5, <2>1
        <2>2. CASE ~(i <= b - a)
            <3>1. i - (b - a) \in 1 .. c - b
                BY <2>2
            <3>2. i \in 1 .. Len(s) + Len(t) /\ ~(i <= Len(s))
                BY <1>1, <1>2, <2>2
            <3>3. (s \o t)[i] = t[i - (b - a)]
                BY <1>1, <1>5, <3>2
            <3>4. t[i - (b - a)] = b + (i - (b - a))
                BY <1>2, <3>1
            <3>5. b + (i - (b - a)) = a + i
                OBVIOUS
            <3> QED BY <3>3, <3>4, <3>5
        <2> QED BY <2>1, <2>2
    <1>7. Len(s \o t) = Len(u)
        BY <1>1, <1>2, <1>4, <1>5
    <1>8. s \o t = u
        BY <1>4, <1>5, <1>6, <1>7, SeqEqual
    <1> QED BY <1>8 DEF s, t, u

\* Nothing lies between a position and itself.
LEMMA SliceEmpty == ASSUME NEW a \in Nat PROVE Slice(a, a) = <<>>
    <1>1. Slice(a, a) \in Seq(Nat) /\ Len(Slice(a, a)) = 0
        BY SliceType
    <1> HIDE DEF Slice
    <1> QED BY <1>1, EmptySeq
-----------------------------------------------------------------------------
\* put() gave up before it asked the server to store anything.
Rejections == {"CannotRead", "CannotLogin", "IsDirectory"}

\* A request that stores the file if it is carried out.
FinalOps == {"single", "finish"}

\* The buffer is the part of the source between the cursor and what was read.
Buffered ==
    /\ pc # "done" => offset <= pos /\ chunk = Slice(offset, pos)
    /\ op = "none" => offset = 0
    /\ pc \in {"post", "wait"} /\ op \in {"single", "start"} => offset = 0
    /\ op \in FinalOps => pos = size
    /\ pc = "idle" => op = "none"
    /\ pc = "read" => op \notin FinalOps
    /\ pc = "done" <=> outcome # "none"

\* Every request on its way carries the part of the source its cursor names.
Carried ==
    \A m \in net :
        /\ m.offset + Len(m.data) <= size
        /\ m.data = Slice(m.offset, m.offset + Len(m.data))
        /\ m.op \in {"single", "start"} => m.offset = 0
        /\ m.op \in FinalOps => m.offset + Len(m.data) = size
        /\ m.mode = CommitMode

\* Every session holds a prefix of the source.
Prefixes ==
    \A s \in 1 .. Len(sessions) :
        Len(sessions[s]) <= size /\ sessions[s] = Slice(0, Len(sessions[s]))

\* Nothing is stored, and nothing can be, before the final request.
Final ==
    committed \/ (\E m \in net : m.op \in FinalOps) =>
        op \in FinalOps /\ outcome \notin Rejections

\* A success that is on its way back, or reported, was stored.
Replied ==
    /\ pc # "wait" => inbox = {}
    /\ op \in FinalOps /\ (\E r \in inbox : r.status = 200) => committed
    /\ outcome = "ok" => committed

IInv == /\ TypeOK /\ Buffered /\ Carried /\ Prefixes /\ Final /\ Replied
        /\ DestIntact

\* Before put() there is no request, no session and no file of the job's.
LEMMA InitIInv == Init => IInv
    <1> SUFFICES ASSUME Init PROVE IInv
        OBVIOUS
    <1> USE SizesAssumption, MaxRetriesAssumption
    <1>1. TypeOK
        <2>1. /\ size \in 0..MaxSize /\ pos \in 0..size /\ offset \in 0..size /\ sid \in Nat
              /\ attempt \in 0 .. MaxRetries - 1 /\ processed \in 0..size
            BY DEF Init
        <2>2. /\ pc \in {"idle", "read", "post", "wait", "done"}
              /\ op \in Ops \cup {"none"} /\ (pc \in {"post", "wait"} => op \in Ops)
              /\ outcome \in Outcomes
            BY DEF Init, Outcomes
        <2>3. overwrite \in BOOLEAN /\ refreshed \in BOOLEAN /\ committed \in BOOLEAN
            BY Zenon DEF Init
        <2>4. /\ chunk \in Seq(Nat) /\ sessions \in Seq(Seq(Nat))
              /\ Len(chunk) < ChunkSize + MaxPart
            BY EmptySeq DEF Init
        <2>5. net \subseteq Requests /\ inbox \subseteq Replies /\ closed \subseteq 1 .. Len(sessions)
            BY DEF Init
        <2> QED BY <2>1, <2>2, <2>3, <2>4, <2>5 DEF TypeOK
    <1>2. Buffered
        BY SliceEmpty DEF Init, Buffered, FinalOps
    <1>3. Carried /\ Prefixes /\ Final /\ Replied
        BY DEF Init, Carried, Prefixes, Final, Replied
    <1>4. DestIntact
        BY DEF Init, DestIntact
    <1> QED BY <1>1, <1>2, <1>3, <1>4 DEF IInv

\* The checks at the top of put() send nothing.
LEMMA PutStep == IInv /\ Put => IInv'
    <1> SUFFICES ASSUME IInv, Put PROVE IInv'
        OBVIOUS
    <1> USE SizesAssumption, MaxRetriesAssumption
    <1>1. TypeOK'
        BY DEF IInv, TypeOK, Put, jobVars, bufferVars, cursorVars, loopVars, serverVars,
               Outcomes, Errors, Ops, Kinds
    <1>2. Buffered'
        BY DEF IInv, TypeOK, Buffered, Put, jobVars, bufferVars, cursorVars, loopVars,
               serverVars, FinalOps
    <1>3. Carried'
        BY DEF IInv, Carried, Put, jobVars, bufferVars, cursorVars, loopVars, serverVars,
               CommitMode
    <1>4. Prefixes'
        BY DEF IInv, Prefixes, Put, jobVars, bufferVars, cursorVars, loopVars, serverVars
    <1>5. Final'
        BY DEF IInv, Final, Buffered, Put, jobVars, bufferVars, cursorVars, loopVars,
               serverVars, FinalOps, Rejections, Errors, Kinds
    <1>6. Replied'
        BY DEF IInv, Replied, Put, jobVars, bufferVars, cursorVars, loopVars, serverVars,
               Errors, Kinds
    <1>7. DestIntact'
        BY DEF IInv, DestIntact, Put, jobVars, bufferVars, cursorVars, loopVars, serverVars
    <1> QED BY <1>1, <1>2, <1>3, <1>4, <1>5, <1>6, <1>7 DEF IInv

\* The end of the source makes the buffer the last part of the file.
LEMMA ReadEndStep == IInv /\ ReadEnd => IInv'
    <1> SUFFICES ASSUME IInv, ReadEnd PROVE IInv'
        OBVIOUS
    <1> USE SizesAssumption, MaxRetriesAssumption
    <1>1. TypeOK'
        <2>1. op' \in Ops
            BY DEF ReadEnd, Issue, Ops
        <2>2. refreshed' \in BOOLEAN
            BY Zenon DEF ReadEnd, Issue
        <2>3. attempt' \in 0 .. MaxRetries - 1
            BY DEF ReadEnd, Issue
        <2>4. pc' = "post" /\ UNCHANGED <<jobVars, bufferVars, cursorVars, processed,
                                          outcome, net, inbox, serverVars>>
            BY DEF ReadEnd, Issue
        <2> QED BY <2>1, <2>2, <2>3, <2>4 DEF IInv, TypeOK, jobVars, bufferVars, cursorVars, serverVars
    <1>2. Buffered'
        BY DEF IInv, TypeOK, Buffered, ReadEnd, Issue, jobVars, bufferVars, cursorVars,
               loopVars, serverVars, FinalOps
    <1>3. Carried'
        BY DEF IInv, Carried, ReadEnd, Issue, jobVars, bufferVars, cursorVars, loopVars,
               serverVars, CommitMode
    <1>4. Prefixes'
        BY DEF IInv, Prefixes, ReadEnd, Issue, jobVars, bufferVars, cursorVars, loopVars,
               serverVars
    <1>5. Final'
        BY DEF IInv, Final, Buffered, ReadEnd, Issue, jobVars, bufferVars, cursorVars,
               loopVars, serverVars, FinalOps, Rejections, Errors, Kinds
    <1>6. Replied'
        BY DEF IInv, Replied, ReadEnd, Issue, jobVars, bufferVars, cursorVars, loopVars,
               serverVars, Errors, Kinds
    <1>7. DestIntact'
        BY DEF IInv, DestIntact, ReadEnd, Issue, jobVars, bufferVars, cursorVars,
               loopVars, serverVars
    <1> QED BY <1>1, <1>2, <1>3, <1>4, <1>5, <1>6, <1>7 DEF IInv

\* put() only reads while no final request was made.
LEMMA ReadErrorStep == IInv /\ ReadError => IInv'
    <1> SUFFICES ASSUME IInv, ReadError PROVE IInv'
        OBVIOUS
    <1> USE SizesAssumption, MaxRetriesAssumption
    <1>1. TypeOK'
        BY DEF IInv, TypeOK, ReadError, jobVars, bufferVars, cursorVars, loopVars,
               serverVars, Outcomes, Errors, Ops, Kinds
    <1>2. Buffered'
        BY DEF IInv, TypeOK, Buffered, ReadError, jobVars, bufferVars, cursorVars,
               loopVars, serverVars, FinalOps
    <1>3. Carried'
        BY DEF IInv, Carried, ReadError, jobVars, bufferVars, cursorVars, loopVars,
               serverVars, CommitMode
    <1>4. Prefixes'
        BY DEF IInv, Prefixes, ReadError, jobVars, bufferVars, cursorVars, loopVars,
               serverVars
    <1>5. Final'
        BY DEF IInv, Final, Buffered, ReadError, jobVars, bufferVars, cursorVars,
               loopVars, serverVars, FinalOps, Rejections, Errors, Kinds
    <1>6. Replied'
        BY DEF IInv, Replied, ReadError, jobVars, bufferVars, cursorVars, loopVars,
               serverVars, Errors, Kinds
    <1>7. DestIntact'
        BY DEF IInv, DestIntact, ReadError, jobVars, bufferVars, cursorVars, loopVars,
               serverVars
    <1> QED BY <1>1, <1>2, <1>3, <1>4, <1>5, <1>6, <1>7 DEF IInv

\* readChunk() appends to the buffer what follows it in the source.
LEMMA ReadPartStep == IInv /\ ReadPart => IInv'
    <1> SUFFICES ASSUME IInv, ReadPart PROVE IInv'
        OBVIOUS
    <1> USE SizesAssumption, MaxRetriesAssumption
    <1>0. PICK n \in 1..MaxPart : /\ pos + n <= size /\ pos' = pos + n
                                 /\ chunk' = chunk \o Slice(pos, pos + n)
        BY DEF ReadPart
    <1>a. /\ pc = "read" /\ op \notin FinalOps
          /\ IF Full(chunk')
                THEN /\ pc' = "post" /\ op' = IF op = "none" THEN "start" ELSE "append"
                     /\ attempt' = 0 /\ refreshed' = FALSE
                ELSE UNCHANGED <<pc, op, attempt, refreshed>>
          /\ UNCHANGED <<size, overwrite, offset, sid, processed, outcome, net, inbox>>
          /\ UNCHANGED serverVars
        BY DEF IInv, Buffered, ReadPart, Issue, jobVars, cursorVars, loopVars
    <1>b. /\ size \in Nat /\ offset \in Nat /\ pos \in Nat /\ offset <= pos
          /\ chunk = Slice(offset, pos) /\ n \in Nat
        BY <1>0, <1>a DEF IInv, TypeOK, Buffered
    <1>c. chunk' = Slice(offset, pos + n)
        <2>1. pos + n \in Nat /\ pos <= pos + n
            BY <1>b
        <2>2. Slice(offset, pos) \o Slice(pos, pos + n) = Slice(offset, pos + n)
            BY <1>b, <2>1, SliceConcat
        <2> QED BY <1>0, <1>b, <2>2
    <1>d. chunk' \in Seq(Nat) /\ Len(chunk') < ChunkSize + MaxPart
        <2>1. pos + n \in Nat /\ offset <= pos + n
            BY <1>b
        <2> DEFINE end == pos + n
        <2>2. /\ Slice(offset, end) \in Seq(Nat)
              /\ Len(Slice(offset, end)) = end - offset
            <3> HIDE DEF end
            <3>1. end \in Nat /\ offset <= end /\ offset \in Nat
                BY <1>b, <2>1 DEF end
            <3> QED BY <3>1, SliceType
        <2>3. Len(chunk) = pos - offset
            BY <1>b, SliceType
        <2>4. Len(chunk) < ChunkSize
            BY <1>b, <2>3 DEF ReadPart, Full
        <2> QED BY <1>b, <1>c, <2>2, <2>3, <2>4
    <1>1. TypeOK'
        <2>1. size' \in 0..MaxSize /\ overwrite' \in BOOLEAN /\ pos' \in 0..size'
            BY <1>0, <1>a, <1>b DEF IInv, TypeOK
        <2>2. CASE Full(chunk')
            <3>1. pc' = "post" /\ op' \in Ops /\ attempt' \in 0 .. MaxRetries - 1
                BY <1>a, <2>2 DEF Ops
            <3>2. refreshed' \in BOOLEAN
                BY <1>a, <2>2
            <3> QED BY <1>a, <1>d, <2>1, <3>1, <3>2 DEF IInv, TypeOK, serverVars
        <2>3. CASE ~Full(chunk')
            BY <1>a, <1>d, <2>1, <2>3 DEF IInv, TypeOK, serverVars
        <2> QED BY <2>2, <2>3
    <1>2. Buffered'
        <2>1. offset' <= pos' /\ chunk' = Slice(offset', pos')
            BY <1>0, <1>a, <1>b, <1>c
        <2>2. CASE Full(chunk')
            <3>1. /\ pc' = "post" /\ op' = IF op = "none" THEN "start" ELSE "append"
                  /\ offset' = offset /\ outcome' = outcome
                BY <1>a, <2>2
            <3>2. op = "none" => offset = 0
                BY DEF IInv, Buffered
            <3>3. outcome = "none"
                BY <1>a DEF IInv, Buffered
            <3> QED BY <2>1, <3>1, <3>2, <3>3 DEF Buffered, FinalOps
        <2>3. CASE ~Full(chunk')
            BY <1>a, <2>1, <2>3 DEF IInv, Buffered, FinalOps
        <2> QED BY <2>2, <2>3
    <1>3. Carried'
        BY DEF IInv, Carried, ReadPart, Issue, Full, jobVars, bufferVars, cursorVars,
               loopVars, serverVars, CommitMode
    <1>4. Prefixes'
        BY DEF IInv, Prefixes, ReadPart, Issue, Full, jobVars, bufferVars, cursorVars,
               loopVars, serverVars
    <1>5. Final'
        BY DEF IInv, Final, Buffered, ReadPart, Issue, Full, jobVars, bufferVars,
               cursorVars, loopVars, serverVars, FinalOps, Rejections, Errors, Kinds
    <1>6. Replied'
        BY DEF IInv, Replied, ReadPart, Issue, Full, jobVars, bufferVars, cursorVars,
               loopVars, serverVars, Errors, Kinds
    <1>7. DestIntact'
        BY DEF IInv, DestIntact, ReadPart, Issue, Full, jobVars, bufferVars, cursorVars,
               loopVars, serverVars
    <1> QED BY <1>1, <1>2, <1>3, <1>4, <1>5, <1>6, <1>7 DEF IInv

\* The request that is posted carries the buffer and the cursor before it.
LEMMA PostStep == IInv /\ Post => IInv'
    <1> SUFFICES ASSUME IInv, Post PROVE IInv'
        OBVIOUS
    <1> USE SizesAssumption, MaxRetriesAssumption
    <1>0. pc = "post" /\ op \in Ops
        BY DEF IInv, TypeOK, Post
    <1>1. TypeOK'
        <2>1. Request \in Requests
            BY <1>0 DEF IInv, TypeOK, Request, Requests, CommitMode
        <2>2. net' \subseteq Requests
            BY <2>1 DEF IInv, TypeOK, Post
        <2>3. /\ pc' \in {"wait", "done"} /\ outcome' \in Outcomes
              /\ UNCHANGED <<jobVars, bufferVars, op, cursorVars, loopVars, processed,
                             inbox, serverVars>>
            BY DEF IInv, TypeOK, Post, Outcomes, Errors, Kinds
        <2> QED BY <1>0, <2>2, <2>3 DEF IInv, TypeOK, jobVars, bufferVars, cursorVars, loopVars, serverVars
    <1>2. Buffered'
        BY DEF IInv, TypeOK, Buffered, Post, Request, jobVars, bufferVars, cursorVars,
               loopVars, serverVars, FinalOps
    <1>3. Carried'
        <2>1. /\ offset \in Nat /\ pos \in Nat /\ offset <= pos /\ pos <= size
              /\ size \in Nat /\ chunk = Slice(offset, pos)
            BY <1>0 DEF IInv, TypeOK, Buffered
        <2>2. Len(chunk) = pos - offset
            BY <2>1, SliceType
        <2>3. /\ op \in {"single", "start"} => offset = 0
              /\ op \in FinalOps => pos = size
            BY <1>0 DEF IInv, Buffered
        <2>4. /\ Request.offset = offset /\ Request.data = chunk
              /\ Request.op = op /\ Request.mode = CommitMode
            BY DEF Request
        <2>5. /\ offset + Len(chunk) = pos
              /\ chunk = Slice(offset, offset + Len(chunk))
            BY <2>1, <2>2
        <2> DEFINE Good(m) == /\ m.offset + Len(m.data) <= size
                              /\ m.data = Slice(m.offset, m.offset + Len(m.data))
                              /\ m.op \in {"single", "start"} => m.offset = 0
                              /\ m.op \in FinalOps => m.offset + Len(m.data) = size
                              /\ m.mode = CommitMode
        <2>6. Good(Request)
            BY <2>1, <2>3, <2>4, <2>5
        <2>7. \A m \in net : Good(m)
            BY DEF IInv, Carried
        <2> HIDE DEF Good
        <2>8. net' \subseteq net \cup {Request}
            BY DEF Post
        <2>9. \A m \in net' : Good(m)
            BY <2>6, <2>7, <2>8
        <2>10. size' = size /\ CommitMode' = CommitMode
            BY DEF Post, jobVars, CommitMode
        <2> QED BY <2>9, <2>10 DEF Carried, Good
    <1>4. Prefixes'
        BY DEF IInv, Prefixes, Post, Request, jobVars, bufferVars, cursorVars, loopVars,
               serverVars
    <1>5. Final'
        BY DEF IInv, Final, Buffered, Post, Request, jobVars, bufferVars, cursorVars,
               loopVars, serverVars, FinalOps, Rejections, Errors, Kinds
    <1>6. Replied'
        BY DEF IInv, Replied, Post, Request, jobVars, bufferVars, cursorVars, loopVars,
               serverVars, Errors, Kinds
    <1>7. DestIntact'
        BY DEF IInv, DestIntact, Post, Request, jobVars, bufferVars, cursorVars, loopVars,
               serverVars
    <1> QED BY <1>1, <1>2, <1>3, <1>4, <1>5, <1>6, <1>7 DEF IInv

\* Others leave something of their own at the target.
LEMMA InterfereStep == IInv /\ Interfere => IInv'
    <1> SUFFICES ASSUME IInv, Interfere PROVE IInv'
        OBVIOUS
    <1> USE SizesAssumption, MaxRetriesAssumption
    <1>1. TypeOK'
        BY DEF IInv, TypeOK, Interfere, jobVars, bufferVars, cursorVars, loopVars,
               serverVars, Outcomes, Errors, Ops, Kinds
    <1>2. Buffered'
        BY DEF IInv, TypeOK, Buffered, Interfere, jobVars, bufferVars, cursorVars,
               loopVars, serverVars, FinalOps
    <1>3. Carried'
        BY DEF IInv, Carried, Interfere, jobVars, bufferVars, cursorVars, loopVars,
               serverVars, CommitMode
    <1>4. Prefixes'
        BY DEF IInv, Prefixes, Interfere, jobVars, bufferVars, cursorVars, loopVars,
               serverVars
    <1>5. Final'
        BY DEF IInv, Final, Buffered, Interfere, jobVars, bufferVars, cursorVars,
               loopVars, serverVars, FinalOps, Rejections, Errors, Kinds
    <1>6. Replied'
        BY DEF IInv, Replied, Interfere, jobVars, bufferVars, cursorVars, loopVars,
               serverVars, Errors, Kinds
    <1>7. DestIntact'
        BY DEF IInv, DestIntact, Interfere, jobVars, bufferVars, cursorVars, loopVars,
               serverVars
    <1> QED BY <1>1, <1>2, <1>3, <1>4, <1>5, <1>6, <1>7 DEF IInv

-----------------------------------------------------------------------------
\* How an attempt can end: a success goes on, a failure has a kind, and only an
\* attempt that is not the last is repeated.
LEMMA SettleCases ==
    ASSUME IInv, NEW reply, reply.status \in Nat, NEW failed \in BOOLEAN,
           Settle(reply, failed)
    PROVE  \/ reply.status = 200 /\ Advance(reply)
           \/ \E kind \in Errors : Fail(kind)
           \/ attempt + 1 < MaxRetries /\ \E r \in BOOLEAN : Again(r)
    <1> DEFINE verdict == Verdict(attempt, refreshed, reply.status, failed)
               kind == KindOf(reply.status, failed, reply.summary)
    <1>1. /\ verdict \in {"refresh", "backoff", "return"}
          /\ verdict = "backoff" => attempt + 1 < MaxRetries
        BY VerdictFacts, MaxRetriesAssumption DEF IInv, TypeOK
    <1>2. kind \in Errors
        BY KindFacts DEF Errors
    <1>3. "Network" \in Errors
        BY DEF Errors, Kinds
    <1>4. refreshed \in BOOLEAN
        BY DEF IInv, TypeOK
    <1> HIDE DEF verdict, kind
    <1> QED BY <1>1, <1>2, <1>3, <1>4 DEF Settle, Succeeded, verdict, kind

\* The end of an attempt: the reply that is looked at is one the server sent
\* for this request, so a success of a final request was stored.
LEMMA SettleStep ==
    ASSUME IInv, pc = "wait",
           NEW reply, reply.status \in Nat, reply.session \in Nat,
           NEW failed \in BOOLEAN,
           reply.status = 200 /\ op \in FinalOps => committed,
           Settle(reply, failed), inbox' = {},
           UNCHANGED <<jobVars, pos, op, net, serverVars>>
    PROVE  IInv'
    <1> USE SizesAssumption, MaxRetriesAssumption
    <1>1. \/ reply.status = 200 /\ Advance(reply)
          \/ \E kind \in Errors : Fail(kind)
          \/ attempt + 1 < MaxRetries /\ \E r \in BOOLEAN : Again(r)
        BY SettleCases
    <1>2. /\ size \in Nat /\ offset \in Nat /\ pos \in Nat
          /\ offset <= pos /\ pos <= size /\ chunk = Slice(offset, pos)
          /\ Len(chunk) = pos - offset /\ op \in Ops
        <2>1. /\ size \in Nat /\ offset \in Nat /\ pos \in Nat
              /\ offset <= pos /\ pos <= size /\ chunk = Slice(offset, pos) /\ op \in Ops
            BY DEF IInv, TypeOK, Buffered
        <2> QED BY <2>1, SliceType
    <1>3. /\ UNCHANGED <<size, overwrite, pos, op, net, sessions, closed, dest, committed>>
          /\ inbox' = {}
        BY DEF jobVars, serverVars
    <1>4. Carried' /\ Prefixes' /\ DestIntact'
        BY <1>3 DEF IInv, Carried, Prefixes, DestIntact, CommitMode
    <1>5. /\ size' \in 0..MaxSize /\ overwrite' \in BOOLEAN /\ pos' \in 0..size'
          /\ op' \in Ops /\ net' \subseteq Requests /\ inbox' \subseteq Replies
          /\ sessions' \in Seq(Seq(Nat)) /\ closed' \subseteq 1 .. Len(sessions')
          /\ committed' \in BOOLEAN
        BY <1>2, <1>3 DEF IInv, TypeOK
    <1>6. CASE reply.status = 200 /\ Advance(reply)
        <2>1. /\ processed' = pos /\ UNCHANGED <<attempt, refreshed>>
              /\ sid' \in Nat /\ offset' \in 0..size
              /\ op = "single" => offset' = offset
              /\ op # "single" => offset' = pos
            BY <1>2, <1>6 DEF IInv, TypeOK, Advance, NextOffset, loopVars
        <2>2. CASE op \in FinalOps
            <3>1. pc' = "done" /\ outcome' = "ok" /\ chunk' = chunk
                BY <1>6, <2>2 DEF Advance, FinalOps
            <3>2. committed'
                BY <1>3, <1>6, <2>2
            <3>3. TypeOK'
                BY <1>2, <1>3, <1>5, <2>1, <3>1 DEF IInv, TypeOK, Outcomes
            <3>4. Buffered' /\ Final' /\ Replied'
                BY <1>3, <2>2, <3>1, <3>2 DEF IInv, Buffered, Final, Replied, Rejections,
                                              FinalOps
            <3> QED BY <1>4, <3>3, <3>4 DEF IInv
        <2>3. CASE op \notin FinalOps
            <3>1. pc' = "read" /\ outcome' = outcome /\ chunk' = <<>> /\ outcome = "none"
                BY <1>6, <2>3 DEF Advance, FinalOps, IInv, Buffered
            <3>2. /\ chunk' = Slice(pos, pos) /\ chunk' \in Seq(Nat)
                  /\ Len(chunk') < ChunkSize + MaxPart
                BY <1>2, <3>1, SliceEmpty, EmptySeq
            <3>3. TypeOK'
                BY <1>2, <1>3, <1>5, <2>1, <3>1, <3>2 DEF IInv, TypeOK, Outcomes
            <3>4. op # "single" /\ offset' = pos
                BY <2>1, <2>3 DEF FinalOps
            <3>5. Buffered'
                BY <1>2, <1>3, <2>3, <3>1, <3>2, <3>4 DEF Buffered, Ops
            <3>6. Final' /\ Replied'
                BY <1>3, <2>3, <3>1 DEF IInv, Final, Replied
            <3> QED BY <1>4, <3>3, <3>5, <3>6 DEF IInv
        <2> QED BY <2>2, <2>3
    <1>7. CASE \E kind \in Errors : Fail(kind)
        <2>1. /\ pc' = "done" /\ outcome' \in Errors
              /\ UNCHANGED <<chunk, offset, sid, processed, attempt, refreshed>>
            BY <1>7 DEF Fail, cursorVars, loopVars
        <2>2. outcome' \notin Rejections \cup {"none", "ok"}
            BY <2>1 DEF Errors, Kinds, Rejections
        <2>3. TypeOK'
            BY <1>2, <1>3, <1>5, <2>1 DEF IInv, TypeOK, Outcomes
        <2>4. Buffered' /\ Final' /\ Replied'
            BY <1>3, <2>1, <2>2 DEF IInv, Buffered, Final, Replied
        <2> QED BY <1>4, <2>3, <2>4 DEF IInv
    <1>8. CASE attempt + 1 < MaxRetries /\ \E r \in BOOLEAN : Again(r)
        <2>1. /\ pc' = "post" /\ attempt' = attempt + 1 /\ refreshed' \in BOOLEAN
              /\ UNCHANGED <<chunk, offset, sid, processed, outcome>>
            BY <1>8 DEF Again, cursorVars
        <2>2. TypeOK'
            BY <1>2, <1>3, <1>5, <1>8, <2>1 DEF IInv, TypeOK
        <2>3. Buffered' /\ Final' /\ Replied'
            BY <1>2, <1>3, <2>1 DEF IInv, Buffered, Final, Replied
        <2> QED BY <1>4, <2>2, <2>3 DEF IInv
    <1> QED BY <1>1, <1>6, <1>7, <1>8

\* A reply ends an attempt: the session advances, or the request is repeated.
LEMMA ReceiveStep == IInv /\ Receive => IInv'
    <1> SUFFICES ASSUME IInv, Receive PROVE IInv'
        OBVIOUS
    <1>1. PICK r \in inbox :
             Settle(r, FALSE) \/ Settle([r EXCEPT !.summary = {}, !.session = 0], FALSE)
        BY DEF Receive
    <1>2. /\ pc = "wait" /\ inbox' = {}
          /\ UNCHANGED <<jobVars, pos, op, net, serverVars>>
        BY DEF Receive
    <1>3. r \in Replies /\ (r.status = 200 /\ op \in FinalOps => committed)
        BY DEF IInv, TypeOK, Replied
    <1> DEFINE cut == [r EXCEPT !.summary = {}, !.session = 0]
    <1>4. /\ r.status \in Nat /\ r.session \in Nat
          /\ cut.status = r.status /\ cut.session = 0
        BY <1>3 DEF Replies
    <1>5. CASE Settle(r, FALSE)
        BY <1>2, <1>3, <1>4, <1>5, SettleStep
    <1>6. CASE Settle(cut, FALSE)
        <2> HIDE DEF cut
        <2>1. cut.status \in Nat /\ cut.session \in Nat
            BY <1>4
        <2>2. cut.status = 200 /\ op \in FinalOps => committed
            BY <1>3, <1>4
        <2> QED BY <1>2, <1>6, <2>1, <2>2, SettleStep
    <1> QED BY <1>1, <1>5, <1>6

\* Without a reply the request is repeated or given up.
LEMMA LoseStep == IInv /\ Lose => IInv'
    <1> DEFINE lost == [status |-> NoStatus, summary |-> {}, session |-> 0]
    <1>1. lost.status \in Nat /\ lost.status # 200 /\ lost.session \in Nat
        BY DEF NoStatus
    <1>2. Lose => /\ pc = "wait" /\ Settle(lost, TRUE) /\ inbox' = {}
                  /\ UNCHANGED <<jobVars, pos, op, net, serverVars>>
        BY DEF Lose
    <1> HIDE DEF lost
    <1> QED BY <1>1, <1>2, SettleStep
-----------------------------------------------------------------------------
\* What an inbox may hold after a step of the server.
GoodInbox ==
    /\ inbox' \subseteq Replies
    /\ pc # "wait" => inbox' = {}
    /\ op \in FinalOps /\ (\E r \in inbox' : r.status = 200) => committed'

\* An answer is a reply, and only a worker that waits gets it.
LEMMA AnswerFacts ==
    ASSUME IInv, NEW m, NEW status \in {200, 401, 409, 429, 503},
           NEW summary \in SUBSET {"conflict", "not_found"}, NEW session \in Nat,
           Answer(m, status, summary, session),
           committed => committed', status = 200 /\ m.op \in FinalOps => committed'
    PROVE  GoodInbox
    <1>1. CASE pc = "wait" /\ m = Request
        <2> DEFINE r == [status |-> status, summary |-> summary, session |-> session]
        <2>1. inbox' = {r} /\ m.op = op
            BY <1>1 DEF Answer, Request
        <2>2. r \in Replies /\ r.status = status
            BY DEF Replies
        <2> HIDE DEF r
        <2> QED BY <1>1, <2>1, <2>2 DEF GoodInbox
    <1>2. CASE ~(pc = "wait" /\ m = Request)
        BY <1>2 DEF IInv, TypeOK, Replied, Answer, GoodInbox
    <1> QED BY <1>1, <1>2

\* What a step of the server must guarantee to preserve the invariant.
LEMMA ServeEffect ==
    ASSUME IInv, NEW m \in net, net' = net \ {m},
           UNCHANGED <<jobVars, bufferVars, pc, op, cursorVars, loopVars, processed,
                       outcome>>,
           GoodInbox,
           sessions' \in Seq(Seq(Nat)), closed' \subseteq 1 .. Len(sessions'), Prefixes',
           dest' \in Foreign \cup {Slice(0, size)}, committed' \in BOOLEAN,
           committed => committed', committed' => committed \/ m.op \in FinalOps
    PROVE  IInv'
    <1> USE DEF jobVars, bufferVars, cursorVars, loopVars
    <1>1. TypeOK'
        BY DEF IInv, TypeOK, GoodInbox
    <1>2. Buffered'
        BY DEF IInv, Buffered
    <1>3. Carried'
        BY DEF IInv, Carried, CommitMode
    <1>4. Final'
        BY DEF IInv, Final
    <1>5. Replied'
        BY DEF IInv, Replied, GoodInbox
    <1>6. DestIntact'
        BY DEF DestIntact
    <1> QED BY <1>1, <1>2, <1>3, <1>4, <1>5, <1>6 DEF IInv

\* A commit stores the whole source or leaves the target as it is.
LEMMA StoreFacts ==
    ASSUME IInv, NEW m \in net, m.op \in FinalOps, Store(m, Slice(0, size))
    PROVE  /\ GoodInbox
           /\ dest' \in Foreign \cup {Slice(0, size)} /\ committed' \in BOOLEAN
           /\ committed => committed'
    <1>1. CASE UNCHANGED <<dest, committed>> /\ \E words \in SUBSET {"conflict",
                           "not_found"} :
                  Answer(m, 409, words, 0)
        <2>1. GoodInbox
            BY <1>1, AnswerFacts
        <2> QED BY <1>1, <2>1 DEF IInv, TypeOK, DestIntact
    <1>2. CASE Answer(m, 200, {}, 0) /\ dest' = Slice(0, size) /\ committed' = TRUE
        <2>1. GoodInbox
            BY <1>2, AnswerFacts
        <2> QED BY <1>2, <2>1
    <1> QED BY <1>1, <1>2 DEF Store

\* The requests of a session, and where they start.
LEMMA RequestFacts ==
    ASSUME IInv, NEW m \in net
    PROVE  /\ m.data \in Seq(Nat) /\ Len(m.data) \in Nat /\ m.offset \in Nat /\ size \in Nat
           /\ m.offset + Len(m.data) <= size
           /\ m.data = Slice(m.offset, m.offset + Len(m.data))
           /\ m.op \in {"single", "start"} => m.offset = 0
           /\ m.op \in FinalOps => m.offset + Len(m.data) = size
    <1>1. m \in Requests /\ size \in Nat
        BY SizesAssumption DEF IInv, TypeOK
    <1>2. m.data \in Seq(Nat) /\ m.offset \in Nat
        BY <1>1 DEF Requests
    <1>3. Len(m.data) \in Nat
        BY <1>2, LenProperties
    <1> QED BY <1>1, <1>2, <1>3 DEF IInv, Carried

\* An append or finish that is in sync continues the prefix it is added to.
LEMMA InSyncFacts ==
    ASSUME IInv, NEW m \in net, Open(m.sid), InSync(m)
    PROVE  sessions[m.sid] \o m.data = Slice(0, m.offset + Len(m.data))
    <1>1. sessions[m.sid] = Slice(0, m.offset)
        BY DEF IInv, Prefixes, Open, InSync
    <1>2. /\ m.offset \in Nat /\ 0 <= m.offset
          /\ m.offset + Len(m.data) \in Nat /\ m.offset <= m.offset + Len(m.data)
        BY RequestFacts
    <1>3. Slice(0, m.offset) \o Slice(m.offset, m.offset + Len(m.data))
              = Slice(0, m.offset + Len(m.data))
        BY <1>2, SliceConcat
    <1> QED BY <1>1, <1>3, RequestFacts

\* The server stores prefixes of the source in sessions, and the whole in the target.
LEMMA ServeStep == IInv /\ Serve => IInv'
    <1> SUFFICES ASSUME IInv, NEW m \in net, net' = net \ {m},
                        UNCHANGED <<jobVars, bufferVars, pc, op, cursorVars, loopVars,
                                    processed, outcome>>,
                        \/ ServeSingle(m) \/ ServeStart(m) \/ ServeAppend(m)
                        \/ ServeFinish(m) \/ ServeUnknown(m) \/ ServeRefused(m)
                 PROVE  IInv'
        BY DEF Serve
    <1>1. /\ sessions \in Seq(Seq(Nat)) /\ closed \subseteq 1 .. Len(sessions) /\ Prefixes
          /\ dest \in Foreign \cup {Slice(0, size)} /\ committed \in BOOLEAN
          /\ Len(sessions) \in Nat
        BY LenProperties DEF IInv, TypeOK, DestIntact
    <1>2. UNCHANGED sessions => Prefixes'
        BY <1>1 DEF Prefixes, jobVars
    <1>3. CASE ServeSingle(m)
        <2>1. m.op \in FinalOps /\ UNCHANGED <<sessions, closed>> /\ Store(m, m.data)
            BY <1>3 DEF ServeSingle, FinalOps
        <2>2. m.data = Slice(0, size)
            BY <1>3, RequestFacts DEF ServeSingle, FinalOps
        <2>3. /\ GoodInbox
              /\ dest' \in Foreign \cup {Slice(0, size)} /\ committed' \in BOOLEAN
              /\ committed => committed'
            BY <2>1, <2>2, StoreFacts
        <2> QED BY <1>1, <1>2, <2>1, <2>3, ServeEffect
    <1>4. CASE ServeStart(m)
        <2>1. /\ m.op = "start" /\ sessions' = Append(sessions, m.data)
              /\ Answer(m, 200, {}, Len(sessions) + 1)
              /\ UNCHANGED <<closed, dest, committed>>
            BY <1>4 DEF ServeStart
        <2>2. /\ m.data \in Seq(Nat) /\ Len(m.data) <= size
              /\ m.data = Slice(0, Len(m.data))
            BY <2>1, RequestFacts
        <2>3. /\ sessions' \in Seq(Seq(Nat)) /\ Len(sessions') = Len(sessions) + 1
              /\ \A s \in 1 .. Len(sessions) : sessions'[s] = sessions[s]
              /\ sessions'[Len(sessions) + 1] = m.data
            BY <1>1, <2>1, <2>2, AppendProperties
        <2>4. Prefixes'
            <3> SUFFICES ASSUME NEW s \in 1 .. Len(sessions')
                         PROVE  /\ Len(sessions'[s]) <= size
                                /\ sessions'[s] = Slice(0, Len(sessions'[s]))
                BY DEF Prefixes, jobVars
            <3>1. CASE s \in 1 .. Len(sessions)
                BY <1>1, <2>3, <3>1 DEF Prefixes
            <3>2. CASE s = Len(sessions) + 1
                BY <2>2, <2>3, <3>2
            <3> QED BY <1>1, <2>3, <3>1, <3>2
        <2>5. closed' \subseteq 1 .. Len(sessions')
            BY <1>1, <2>1, <2>3
        <2>6. GoodInbox
            BY <1>1, <2>1, AnswerFacts DEF FinalOps
        <2> QED BY <1>1, <2>1, <2>3, <2>4, <2>5, <2>6, ServeEffect
    <1>5. CASE ServeAppend(m) /\ InSync(m)
        <2>1. /\ m.op = "append" /\ Open(m.sid)
              /\ sessions' = [sessions EXCEPT ![m.sid] = sessions[m.sid] \o m.data]
              /\ Answer(m, 200, {}, 0)
              /\ UNCHANGED <<closed, dest, committed>>
            BY <1>5 DEF ServeAppend
        <2>2. m.sid \in 1 .. Len(sessions)
            BY <2>1 DEF Open
        <2> DEFINE n == m.offset + Len(m.data)
                   grown == sessions[m.sid] \o m.data
        <2>3. n \in Nat /\ n <= size
            BY RequestFacts
        <2>4. grown = Slice(0, n)
            BY <1>5, <2>1, InSyncFacts
        <2>5. grown \in Seq(Nat) /\ Len(grown) = n
            BY <2>3, <2>4, SliceType
        <2> HIDE DEF n, grown
        <2>6. sessions' = [sessions EXCEPT ![m.sid] = grown]
            BY <2>1 DEF grown
        <2>7. /\ sessions' \in Seq(Seq(Nat)) /\ Len(sessions') = Len(sessions)
              /\ \A s \in 1 .. Len(sessions) :
                    sessions'[s] = IF s = m.sid THEN grown ELSE sessions[s]
            BY <1>1, <2>2, <2>5, <2>6, ExceptSeq
        <2>8. Prefixes'
            <3> SUFFICES ASSUME NEW s \in 1 .. Len(sessions)
                         PROVE  /\ Len(sessions'[s]) <= size
                                /\ sessions'[s] = Slice(0, Len(sessions'[s]))
                BY <2>7 DEF Prefixes, jobVars
            <3> QED BY <1>1, <2>3, <2>4, <2>5, <2>7 DEF Prefixes
        <2>9. GoodInbox
            BY <1>1, <2>1, AnswerFacts DEF FinalOps
        <2> QED BY <1>1, <2>1, <2>7, <2>8, <2>9, ServeEffect
    <1>6. CASE ServeAppend(m) /\ ~InSync(m)
        <2>1. /\ Answer(m, 409, {}, 0)
              /\ UNCHANGED <<sessions, closed, dest, committed>>
            BY <1>6 DEF ServeAppend
        <2>2. GoodInbox
            BY <2>1, AnswerFacts
        <2> QED BY <1>1, <1>2, <2>1, <2>2, ServeEffect
    <1>7. CASE ServeFinish(m)
        <2>1. /\ m.op \in FinalOps /\ Open(m.sid) /\ sessions' = sessions
              /\ closed' = closed \cup {m.sid}
              /\ IF InSync(m) THEN Store(m, sessions[m.sid] \o m.data)
                 ELSE Answer(m, 409, {}, 0) /\ UNCHANGED <<dest, committed>>
            BY <1>7 DEF ServeFinish, FinalOps
        <2>2. closed' \subseteq 1 .. Len(sessions')
            BY <1>1, <2>1 DEF Open
        <2>3. CASE InSync(m)
            <3>1. sessions[m.sid] \o m.data = Slice(0, m.offset + Len(m.data))
                BY <2>1, <2>3, InSyncFacts
            <3>2. m.offset + Len(m.data) = size
                BY <2>1, RequestFacts
            <3>3. Store(m, Slice(0, size))
                BY <2>1, <2>3, <3>1, <3>2
            <3>4. /\ GoodInbox
                  /\ dest' \in Foreign \cup {Slice(0, size)} /\ committed' \in BOOLEAN
                  /\ committed => committed'
                BY <2>1, <3>3, StoreFacts
            <3> QED BY <1>1, <1>2, <2>1, <2>2, <3>4, ServeEffect
        <2>4. CASE ~InSync(m)
            <3>1. GoodInbox
                BY <1>1, <2>1, <2>4, AnswerFacts
            <3> QED BY <1>1, <1>2, <2>1, <2>2, <2>4, <3>1, ServeEffect
        <2> QED BY <2>3, <2>4
    <1>8. CASE ServeUnknown(m)
        <2>1. UNCHANGED <<inbox, serverVars>>
            BY <1>8 DEF ServeUnknown
        <2>2. GoodInbox
            BY <2>1 DEF IInv, TypeOK, Replied, GoodInbox, serverVars
        <2> QED BY <1>1, <1>2, <2>1, <2>2, ServeEffect DEF serverVars
    <1>9. CASE ServeRefused(m)
        <2>1. UNCHANGED <<sessions, closed, dest, committed>>
            BY <1>9 DEF ServeRefused, serverVars
        <2>2. PICK status \in {401, 429, 503} : Answer(m, status, {}, 0)
            BY <1>9 DEF ServeRefused
        <2>3. GoodInbox
            BY <2>1, <2>2, AnswerFacts
        <2> QED BY <1>1, <1>2, <2>1, <2>3, ServeEffect
    <1> QED BY <1>3, <1>4, <1>5, <1>6, <1>7, <1>8, <1>9

\* Nothing changes.
LEMMA StutterStep == IInv /\ UNCHANGED vars => IInv'
    BY DEF IInv, TypeOK, Buffered, Carried, Prefixes, Final, Replied, DestIntact,
           CommitMode,
           vars, jobVars, bufferVars, cursorVars, loopVars, serverVars

\* The inductive invariant of an upload.
THEOREM Invariance == Spec => []IInv
    <1>1. IInv /\ [Next]_vars => IInv'
        BY PutStep, ReadPartStep, ReadEndStep, ReadErrorStep, PostStep, ReceiveStep, LoseStep,
           ServeStep, InterfereStep, StutterStep DEF Next
    <1> QED BY InitIInv, <1>1, PTL DEF Spec

\* Type correctness: no loop of send() makes more than MaxRetries attempts.
THEOREM TypeCorrect == Spec => []TypeOK
    <1>1. IInv => TypeOK
        BY DEF IInv
    <1> QED BY Invariance, <1>1, PTL

\* The target is never torn, for every size, chunk size and number of retries.
THEOREM NeverTorn == Spec => []DestIntact
    <1>1. IInv => DestIntact
        BY DEF IInv
    <1> QED BY Invariance, <1>1, PTL

\* put() only succeeds when the whole source was stored.
THEOREM SuccessIsStored == Spec => []SuccessMeansStored
    <1>1. IInv => SuccessMeansStored
        BY DEF IInv, Final, Buffered, Replied, SuccessMeansStored
    <1> QED BY Invariance, <1>1, PTL

\* A source that failed leaves nothing behind, not even later.
THEOREM AbortIsClean == Spec => []AbortStoresNothing
    <1>1. IInv => AbortStoresNothing
        BY DEF IInv, Final, Rejections, AbortStoresNothing
    <1> QED BY Invariance, <1>1, PTL
-----------------------------------------------------------------------------
\* The steps of an upload, seen as steps of AtomicPut. A step of the server
\* that stores something is a Commit, what put() returns is a Return, and all
\* the rest of the protocol is a stutter.
LEMMA InitRefines == Init => AP!Init
    BY SizesAssumption DEF Init, AP!Init, Foreign, AP!Foreign

\* put() begins or rejects.
LEMMA PutRefines == IInv /\ Put => AP!Begin \/ AP!Reject
    BY DEF IInv, Buffered, Put, AP!Begin, AP!Reject, jobVars, serverVars

\* Reading the source is invisible.
LEMMA ReadRefines == ReadPart \/ ReadEnd => UNCHANGED AP!vars
    BY DEF ReadPart, ReadEnd, Issue, AP!vars, jobVars, serverVars, loopVars

\* put() returns CannotRead with nothing stored.
LEMMA ReadErrorRefines == IInv /\ ReadError => AP!Return
    BY DEF IInv, Buffered, Final, ReadError, AP!Return, jobVars, serverVars

\* Sending a request is invisible, failing to is a return.
LEMMA PostRefines == IInv /\ Post => AP!Return \/ UNCHANGED AP!vars
    BY DEF IInv, Buffered, Post, AP!Return, AP!vars, jobVars, serverVars, Errors, Kinds

\* The end of an attempt is a return or invisible.
LEMMA SettleRefines ==
    ASSUME IInv, pc = "wait",
           NEW reply, reply.status \in Nat, NEW failed \in BOOLEAN,
           reply.status = 200 /\ op \in FinalOps => committed,
           Settle(reply, failed), UNCHANGED <<jobVars, serverVars>>
    PROVE  AP!Return \/ UNCHANGED AP!vars
    <1>1. CASE reply.status = 200 /\ Advance(reply)
        <2>1. CASE op \in FinalOps
            BY <1>1, <2>1 DEF Advance, FinalOps, AP!Return, jobVars, serverVars
        <2>2. CASE op \notin FinalOps
            BY <1>1, <2>2 DEF Advance, FinalOps, AP!vars, jobVars, serverVars
        <2> QED BY <2>1, <2>2
    <1>2. CASE \E kind \in Errors : Fail(kind)
        BY <1>2 DEF Fail, AP!Return, jobVars, serverVars
    <1>3. CASE \E r \in BOOLEAN : Again(r)
        BY <1>3 DEF Again, AP!vars, jobVars, serverVars
    <1> QED BY <1>1, <1>2, <1>3, SettleCases

\* A reply is a return of put() or invisible.
LEMMA ReceiveRefines == IInv /\ Receive => AP!Return \/ UNCHANGED AP!vars
    <1> SUFFICES ASSUME IInv, Receive PROVE AP!Return \/ UNCHANGED AP!vars
        OBVIOUS
    <1>1. PICK r \in inbox :
             Settle(r, FALSE) \/ Settle([r EXCEPT !.summary = {}, !.session = 0], FALSE)
        BY DEF Receive
    <1>2. pc = "wait" /\ UNCHANGED <<jobVars, serverVars>>
        BY DEF Receive
    <1>3. r \in Replies /\ (r.status = 200 /\ op \in FinalOps => committed)
        BY DEF IInv, TypeOK, Replied
    <1> DEFINE cut == [r EXCEPT !.summary = {}, !.session = 0]
    <1>4. r.status \in Nat /\ cut.status = r.status
        BY <1>3 DEF Replies
    <1> HIDE DEF cut
    <1>5. CASE Settle(r, FALSE)
        BY <1>2, <1>3, <1>4, <1>5, SettleRefines
    <1>6. CASE Settle(cut, FALSE)
        BY <1>2, <1>3, <1>4, <1>6, SettleRefines
    <1> QED BY <1>1, <1>5, <1>6 DEF cut

\* A lost reply is a return of put() or invisible.
LEMMA LoseRefines == IInv /\ Lose => AP!Return \/ UNCHANGED AP!vars
    <1> DEFINE lost == [status |-> NoStatus, summary |-> {}, session |-> 0]
    <1>1. lost.status \in Nat /\ lost.status # 200
        BY DEF NoStatus
    <1>2. Lose => pc = "wait" /\ Settle(lost, TRUE) /\ UNCHANGED <<jobVars, serverVars>>
        BY DEF Lose
    <1> HIDE DEF lost
    <1> QED BY <1>1, <1>2, SettleRefines

\* What the server stores is the whole file, where the job may store it.
LEMMA StoreRefines ==
    ASSUME IInv, NEW m \in net, m.op \in FinalOps, Store(m, Slice(0, size)),
           UNCHANGED <<jobVars, pc, outcome>>
    PROVE  AP!Commit \/ UNCHANGED AP!vars
    <1>1. /\ pc # "idle" /\ outcome \notin {"CannotRead", "CannotLogin", "IsDirectory"}
          /\ m.mode = "overwrite" => overwrite
        BY DEF IInv, Buffered, Final, Carried, CommitMode, FinalOps, Rejections
    <1>2. CASE UNCHANGED <<dest, committed>>
        BY <1>2 DEF AP!vars, jobVars
    <1>3. CASE /\ dest = Absent \/ (dest # Orphan /\ m.mode = "overwrite")
               /\ dest' = Slice(0, size) /\ committed' = TRUE
        BY <1>1, <1>3 DEF AP!Commit, jobVars
    <1> QED BY <1>2, <1>3 DEF Store

\* What the server does is a commit or invisible.
LEMMA ServeRefines == IInv /\ Serve => AP!Commit \/ UNCHANGED AP!vars
    <1> SUFFICES ASSUME IInv, NEW m \in net, UNCHANGED <<jobVars, pc, outcome>>,
                        \/ ServeSingle(m) \/ ServeStart(m) \/ ServeAppend(m)
                        \/ ServeFinish(m) \/ ServeUnknown(m) \/ ServeRefused(m)
                 PROVE  AP!Commit \/ UNCHANGED AP!vars
        BY DEF Serve
    <1>1. CASE ServeSingle(m)
        <2>1. m.data = Slice(0, size)
            BY <1>1, RequestFacts DEF ServeSingle, FinalOps
        <2> QED BY <1>1, <2>1, StoreRefines DEF ServeSingle, FinalOps
    <1>2. CASE ServeFinish(m) /\ InSync(m)
        <2>1. Open(m.sid) /\ m.op \in FinalOps /\ Store(m, sessions[m.sid] \o m.data)
            BY <1>2 DEF ServeFinish, FinalOps
        <2>2. sessions[m.sid] \o m.data = Slice(0, m.offset + Len(m.data))
            BY <1>2, <2>1, InSyncFacts
        <2>3. m.offset + Len(m.data) = size
            BY <2>1, RequestFacts
        <2> QED BY <2>1, <2>2, <2>3, StoreRefines
    <1>3. CASE UNCHANGED <<dest, committed>>
        BY <1>3 DEF AP!vars, jobVars
    <1> QED BY <1>1, <1>2, <1>3
            DEF ServeStart, ServeAppend, ServeFinish, ServeUnknown, ServeRefused, serverVars

\* Others do what AtomicPut lets them.
LEMMA InterfereRefines == Interfere => AP!Interfere
    BY DEF Interfere, AP!Interfere, Foreign, AP!Foreign, jobVars

\* put() keeps the promise of AtomicPut, for every size of file, chunk and
\* part and every number of retries.
THEOREM Refinement == Spec => ImplementsAtomicPut
    <1>1. IInv /\ [Next]_vars => [AP!Next]_AP!vars
        <2>1. UNCHANGED vars => UNCHANGED AP!vars
            BY DEF vars, AP!vars, jobVars, serverVars
        <2> QED BY <2>1, PutRefines, ReadRefines, ReadErrorRefines, PostRefines, ReceiveRefines,
                   LoseRefines, ServeRefines, InterfereRefines
                DEF Next, AP!Next
    <1> QED BY InitRefines, Invariance, <1>1, PTL DEF Spec, ImplementsAtomicPut, AP!Spec

\* What somebody else put at the target is only replaced with the job's leave.
THEOREM ReplaceIsAllowed == Spec => NoSilentReplace
    <1>1. IInv /\ [Next]_vars => [dest = Theirs /\ dest' \notin Foreign => overwrite]_vars
        <2>1. IInv /\ Serve => AP!Commit \/ dest' = dest
            BY ServeRefines DEF AP!vars
        <2>2. AP!Commit /\ dest = Theirs => overwrite
            BY ForeignAssumption DEF AP!Commit
        <2>3. Theirs \in Foreign
            BY DEF Foreign
        <2>4. Next => Serve \/ dest' = dest \/ dest' \in Foreign
            BY DEF Next, Put, ReadPart, ReadEnd, ReadError, Post, Receive, Lose, Interfere,
                   serverVars
        <2> QED BY <2>1, <2>2, <2>3, <2>4
    <1> QED BY Invariance, <1>1, PTL DEF Spec, NoSilentReplace

-----------------------------------------------------------------------------
(***************************************************************************)
(* The cursor of an upload agrees with the session of the server whenever   *)
(* the next chunk is read, and progress is only reported for data the server *)
(* has, for every size of source, chunk and part and any number of attempts. *)
(*                                                                         *)
(* What is needed is what requests that were given up on can still do: each  *)
(* append or finish on its way names the session of the cursor and is either *)
(* the request that is being made, or an append from before the cursor      *)
(* (Cursors). One from before the cursor is out of sync, and of several      *)
(* attempts at the same append only the first that arrives is in sync.      *)
(***************************************************************************)

SessionOps == {"append", "finish"}

\* The requests on their way that name a session.
Cursors ==
    pc # "done" =>
        \A m \in net :
            m.op \in SessionOps =>
                /\ m.sid = sid /\ op \in SessionOps
                /\ \/ m.op = "append" /\ m.offset < offset
                   \/ pc # "read" /\ m.op = op /\ m.offset = offset /\ m.data = chunk

\* A chunk that starts or continues a session is not empty.
NotEmpty == pc \in {"post", "wait"} /\ op \in {"start", "append"} => Len(chunk) > 0

\* The session is open, and holds what is before the cursor or, once an append
\* arrived that is still being asked for, what was read.
InStep ==
    /\ CursorInSync
    /\ pc \in {"post", "wait"} /\ op = "append" /\ sid # 0 =>
          Open(sid) /\ Len(sessions[sid]) \in {offset, pos}

\* A session in which everything that was read has arrived.
Arrived(s) == Open(s) /\ Len(sessions[s]) = pos

\* The answer that is on its way back says so.
Acks ==
    pc = "wait" =>
        \A r \in inbox :
            r.status = 200 =>
                /\ op = "append" => sid # 0 /\ Arrived(sid)
                /\ op = "start" => Arrived(r.session)

CursorInv == Cursors /\ NotEmpty /\ InStep /\ Acks /\ ProgressAcknowledged

LEMMA CursorInit == Init => CursorInv
    <1> SUFFICES ASSUME Init PROVE CursorInv
        OBVIOUS
    <1>1. Cursors /\ NotEmpty /\ Acks
        BY DEF Init, Cursors, NotEmpty, Acks
    <1>2. InStep /\ ProgressAcknowledged
        BY DEF Init, InStep, CursorInSync, ProgressAcknowledged
    <1> QED BY <1>1, <1>2 DEF CursorInv

\* Steps that neither ask nor answer anything.
LEMMA QuietStep ==
    ASSUME IInv, CursorInv, Put \/ ReadError \/ Interfere \/ UNCHANGED vars
    PROVE  CursorInv'
    <1>1. /\ UNCHANGED <<pos, chunk, op, offset, sid, processed, net, inbox, sessions,
                         closed, committed>>
          /\ pc' \in {pc, "read", "done"} /\ (pc' = "read" => pc \in {"read", "idle"})
        BY DEF Put, ReadError, Interfere, vars, jobVars, bufferVars, cursorVars, serverVars
    <1>2. pc = "idle" => op = "none"
        BY DEF IInv, Buffered
    <1>3. Cursors'
        BY <1>1, <1>2 DEF CursorInv, Cursors, SessionOps
    <1>4. NotEmpty' /\ Acks'
        BY <1>1 DEF CursorInv, NotEmpty, Acks, Arrived, Open
    <1>5. InStep'
        BY <1>1, <1>2 DEF CursorInv, InStep, CursorInSync, Open
    <1>6. ProgressAcknowledged'
        BY <1>1 DEF CursorInv, ProgressAcknowledged
    <1> QED BY <1>3, <1>4, <1>5, <1>6 DEF CursorInv

\* A full buffer is sent from the cursor, which the session agrees with.
LEMMA CursorReadPart == ASSUME IInv, CursorInv, ReadPart PROVE CursorInv'
    <1> USE SizesAssumption
    <1>1. /\ UNCHANGED <<offset, sid, processed, net, inbox, sessions, closed, committed>>
          /\ pc = "read" /\ op \notin FinalOps /\ inbox = {}
          /\ IF Full(chunk') THEN pc' = "post" /\ op' = IF op = "none" THEN "start" ELSE "append"
             ELSE UNCHANGED <<pc, op>>
        BY DEF IInv, Buffered, Replied, ReadPart, Issue, cursorVars, serverVars
    <1>2. op \in {"none", "start", "append"}
        BY <1>1 DEF IInv, TypeOK, Ops, FinalOps
    <1>3. Cursors'
        BY <1>1, <1>2 DEF CursorInv, Cursors, SessionOps
    <1>4. NotEmpty' /\ Acks'
        BY <1>1 DEF NotEmpty, Acks, Full
    <1>5. InStep'
        BY <1>1, <1>2 DEF CursorInv, InStep, CursorInSync, Open
    <1>6. ProgressAcknowledged'
        BY <1>1 DEF CursorInv, ProgressAcknowledged
    <1> QED BY <1>3, <1>4, <1>5, <1>6 DEF CursorInv

\* The last request is made from the cursor.
LEMMA CursorReadEnd == ASSUME IInv, CursorInv, ReadEnd PROVE CursorInv'
    <1>1. /\ UNCHANGED <<pos, chunk, offset, sid, processed, net, inbox, sessions, closed,
                         committed>>
          /\ pc = "read" /\ pc' = "post" /\ op \notin FinalOps
          /\ op' = IF op = "none" THEN "single" ELSE "finish"
        BY DEF IInv, Buffered, ReadEnd, Issue, bufferVars, cursorVars, serverVars
    <1>2. Cursors'
        BY <1>1 DEF CursorInv, Cursors, SessionOps
    <1>3. NotEmpty' /\ Acks' /\ InStep'
        BY <1>1 DEF NotEmpty, Acks, InStep, CursorInSync
    <1>4. ProgressAcknowledged'
        BY <1>1 DEF CursorInv, ProgressAcknowledged
    <1> QED BY <1>2, <1>3, <1>4 DEF CursorInv

\* What is posted is the request that is being made.
LEMMA CursorPost == ASSUME IInv, CursorInv, Post PROVE CursorInv'
    <1>1. /\ UNCHANGED <<pos, chunk, op, offset, sid, processed, inbox, sessions, closed,
                         committed>>
          /\ pc = "post" /\ inbox = {}
          /\ \/ pc' = "wait" /\ net' = net \cup {Request}
             \/ pc' = "done"
        BY DEF IInv, Replied, Post, bufferVars, cursorVars, serverVars
    <1>2. /\ Request.op = op /\ Request.sid = sid /\ Request.offset = offset
          /\ Request.data = chunk
        BY DEF Request
    <1>3. Cursors'
        BY <1>1, <1>2 DEF CursorInv, Cursors, SessionOps
    <1>4. NotEmpty' /\ Acks'
        BY <1>1 DEF CursorInv, NotEmpty, Acks
    <1>5. InStep'
        BY <1>1 DEF CursorInv, InStep, CursorInSync, Open
    <1>6. ProgressAcknowledged'
        BY <1>1 DEF CursorInv, ProgressAcknowledged
    <1> QED BY <1>3, <1>4, <1>5, <1>6 DEF CursorInv

-----------------------------------------------------------------------------
\* How an attempt ends: with the answer to it, whole or without its body, in an
\* error, or in another attempt.
LEMMA EndOfAttempt ==
    ASSUME IInv, Receive \/ Lose
    PROVE  /\ pc = "wait" /\ inbox' = {} /\ UNCHANGED <<pos, op, net, serverVars>>
           /\ \/ \E r \in inbox : \E reply :
                    /\ r.status = 200 /\ reply.session \in {0, r.session}
                    /\ Advance(reply)
              \/ \E kind \in Errors : Fail(kind)
              \/ \E r \in BOOLEAN : Again(r)
    <1>1. CASE Receive
        <2>b. pc = "wait" /\ inbox' = {} /\ UNCHANGED <<pos, op, net, serverVars>>
            BY <1>1 DEF Receive
        <2>1. PICK r \in inbox :
                 Settle(r, FALSE) \/ Settle([r EXCEPT !.summary = {}, !.session = 0], FALSE)
            BY <1>1 DEF Receive
        <2> DEFINE cut == [r EXCEPT !.summary = {}, !.session = 0]
        <2>a. r \in Replies
            BY DEF IInv, TypeOK
        <2>2. /\ r.status \in Nat
              /\ cut.status = r.status /\ cut.session = 0
            BY <2>a DEF Replies
        <2>3. CASE Settle(r, FALSE)
            BY <2>b, <2>2, <2>3, SettleCases
        <2>4. CASE Settle(cut, FALSE)
            <3> HIDE DEF cut
            <3>1. \/ cut.status = 200 /\ Advance(cut)
                  \/ \E kind \in Errors : Fail(kind)
                  \/ \E b \in BOOLEAN : Again(b)
                BY <2>2, <2>4, SettleCases
            <3>2. cut.status = 200 /\ Advance(cut) =>
                     \E reply : /\ r.status = 200 /\ reply.session \in {0, r.session}
                                /\ Advance(reply)
                BY <2>2
            <3> QED BY <2>b, <3>1, <3>2
        <2> QED BY <2>1, <2>3, <2>4
    <1>2. CASE Lose
        <2> DEFINE lost == [status |-> NoStatus, summary |-> {}, session |-> 0]
        <2>1. lost.status \in Nat /\ lost.status # 200
            BY DEF NoStatus
        <2>2. Settle(lost, TRUE)
            BY <1>2 DEF Lose
        <2> HIDE DEF lost
        <2>3. \/ \E kind \in Errors : Fail(kind)
              \/ \E b \in BOOLEAN : Again(b)
            BY <2>1, <2>2, SettleCases
        <2> QED BY <1>2, <2>3 DEF Lose
    <1> QED BY <1>1, <1>2

\* After a success the cursor is where the session is.
LEMMA CursorSettle == ASSUME IInv, CursorInv, Receive \/ Lose PROVE CursorInv'
    <1>1. /\ pc = "wait" /\ inbox' = {}
          /\ UNCHANGED <<pos, op, net, sessions, closed, dest, committed>>
          /\ \/ \E r \in inbox : \E reply :
                   /\ r.status = 200 /\ reply.session \in {0, r.session}
                   /\ Advance(reply)
             \/ \E kind \in Errors : Fail(kind)
             \/ \E r \in BOOLEAN : Again(r)
        BY EndOfAttempt DEF serverVars
    <1>2. /\ op \in Ops /\ offset \in Nat /\ pos \in Nat /\ Len(chunk) \in Nat
          /\ offset + Len(chunk) = pos
        <2>1. /\ op \in Ops /\ offset \in Nat /\ pos \in Nat /\ offset <= pos
              /\ chunk = Slice(offset, pos)
            BY <1>1, SizesAssumption DEF IInv, TypeOK, Buffered
        <2>2. Len(chunk) = pos - offset
            BY <2>1, SliceType
        <2> QED BY <2>1, <2>2
    <1>3. Acks'
        BY <1>1 DEF Acks
    <1>4. ASSUME NEW r \in inbox, NEW reply, r.status = 200,
                 reply.session \in {0, r.session}, Advance(reply)
          PROVE  CursorInv'
        <2>1. /\ processed' = pos
              /\ op \in FinalOps => pc' = "done"
              /\ op \notin FinalOps => pc' = "read" /\ offset' = pos
              /\ sid' = IF op = "start" THEN reply.session ELSE sid
            BY <1>2, <1>4 DEF Advance, NextOffset, FinalOps
        <2>2. /\ op = "append" => sid # 0 /\ Arrived(sid)
              /\ op = "start" => Arrived(r.session)
              /\ op \in FinalOps => committed
            BY <1>1, <1>4 DEF CursorInv, Acks, IInv, Replied
        <2>3. Cursors'
            <3> SUFFICES ASSUME op \notin FinalOps, NEW m \in net, m.op \in SessionOps
                         PROVE  m.sid = sid' /\ op \in SessionOps
                                /\ m.op = "append" /\ m.offset < offset'
                BY <1>1, <2>1 DEF Cursors
            <3>3. m.offset \in Nat
                BY RequestFacts
            <3>1. /\ m.sid = sid /\ op = "append" /\ m.op = "append" /\ m.offset <= offset
                <4>1. /\ m.sid = sid /\ op \in SessionOps
                      /\ \/ m.op = "append" /\ m.offset < offset
                         \/ m.op = op /\ m.offset = offset
                    BY <1>1 DEF CursorInv, Cursors
                <4>2. op = "append"
                    BY <4>1 DEF SessionOps, FinalOps
                <4> QED BY <1>2, <3>3, <4>1, <4>2
            <3>2. offset < pos
                BY <1>1, <1>2, <3>1 DEF CursorInv, NotEmpty
            <3> QED BY <1>2, <2>1, <3>1, <3>2, <3>3 DEF SessionOps
        <2>4. NotEmpty'
            BY <2>1 DEF NotEmpty
        <2>5. InStep'
            BY <1>1, <1>4, <2>1, <2>2 DEF InStep, CursorInSync, Arrived, Open, FinalOps
        <2>6. ProgressAcknowledged'
            <3>1. CASE op \in FinalOps
                BY <1>1, <2>2, <3>1 DEF ProgressAcknowledged
            <3>2. CASE op \in {"start", "append"}
                <4>1. PICK s : Arrived(s)
                    BY <2>2, <3>2
                <4>2. s \in 1 .. Len(sessions) /\ Len(sessions[s]) >= pos
                    BY <1>2, <4>1 DEF Arrived, Open
                <4> QED BY <1>1, <2>1, <4>2 DEF ProgressAcknowledged
            <3> QED BY <1>2, <3>1, <3>2 DEF Ops, FinalOps
        <2> QED BY <1>3, <2>3, <2>4, <2>5, <2>6 DEF CursorInv
    <1>5. ASSUME NEW kind \in Errors, Fail(kind) PROVE CursorInv'
        <2>1. pc' = "done" /\ UNCHANGED <<chunk, offset, sid, processed>>
            BY <1>5 DEF Fail, cursorVars
        <2>2. Cursors' /\ NotEmpty' /\ InStep'
            BY <2>1 DEF Cursors, NotEmpty, InStep, CursorInSync
        <2>3. ProgressAcknowledged'
            BY <1>1, <2>1 DEF CursorInv, ProgressAcknowledged
        <2> QED BY <1>3, <2>2, <2>3 DEF CursorInv
    <1>6. ASSUME NEW b \in BOOLEAN, Again(b) PROVE CursorInv'
        <2>1. pc' = "post" /\ UNCHANGED <<chunk, offset, sid, processed>>
            BY <1>6 DEF Again, cursorVars
        <2>2. Cursors'
            BY <1>1, <2>1 DEF CursorInv, Cursors
        <2>3. NotEmpty' /\ InStep'
            BY <1>1, <2>1 DEF CursorInv, NotEmpty, InStep, CursorInSync, Open
        <2>4. ProgressAcknowledged'
            BY <1>1, <2>1 DEF CursorInv, ProgressAcknowledged
        <2> QED BY <1>3, <2>2, <2>3, <2>4 DEF CursorInv
    <1> QED BY <1>1, <1>4, <1>5, <1>6

-----------------------------------------------------------------------------
\* An answer to the request that is being made is the only one that arrives.
LEMMA AnswerArrives ==
    ASSUME IInv, CursorInv, NEW m, NEW status \in {200, 401, 409, 429, 503},
           NEW summary \in SUBSET {"conflict", "not_found"}, NEW session \in Nat,
           Answer(m, status, summary, session), NEW r \in inbox', pc = "wait",
           r.status = 200
    PROVE  \/ r \in inbox
           \/ /\ status = 200 /\ r.session = session /\ m.op = op /\ m.sid = sid
              /\ m.offset = offset /\ m.data = chunk
    <1>1. CASE m = Request
        <2>1. r = [status |-> status, summary |-> summary, session |-> session]
            BY <1>1 DEF Answer
        <2> QED BY <1>1, <2>1 DEF Request
    <1>2. CASE m # Request
        BY <1>2 DEF Answer
    <1> QED BY <1>1, <1>2

\* A refusal is no success.
LEMMA RefusalArrives ==
    ASSUME IInv, CursorInv, NEW m, NEW status \in {401, 409, 429, 503},
           Answer(m, status, {}, 0), NEW r \in inbox', pc = "wait", r.status = 200
    PROVE  r \in inbox
    <1>1. CASE m = Request
        BY <1>1 DEF Answer
    <1>2. CASE m # Request
        BY <1>2 DEF Answer
    <1> QED BY <1>1, <1>2

\* What a step of the server must guarantee: sessions only grow, the one of the
\* cursor stays in step, and answers are true.
LEMMA CursorEffect ==
    ASSUME IInv, CursorInv, NEW m \in net, net' = net \ {m},
           UNCHANGED <<jobVars, bufferVars, pc, op, cursorVars, loopVars, processed,
                       outcome>>,
           Len(sessions) \in Nat, Len(sessions') \in Nat, Len(sessions) <= Len(sessions'),
           \A s \in 1 .. Len(sessions) :
               /\ Len(sessions[s]) \in Nat /\ Len(sessions'[s]) \in Nat
               /\ Len(sessions[s]) <= Len(sessions'[s]),
           committed => committed', InStep', Acks'
    PROVE  CursorInv'
    <1> USE DEF jobVars, bufferVars, cursorVars, loopVars
    <1>1. Cursors' /\ NotEmpty'
        BY DEF CursorInv, Cursors, NotEmpty
    <1>2. ProgressAcknowledged'
        <2> SUFFICES ASSUME processed > 0, ~committed
                     PROVE  \E s \in 1 .. Len(sessions') : Len(sessions'[s]) >= processed
            BY DEF ProgressAcknowledged
        <2>1. PICK s \in 1 .. Len(sessions) : Len(sessions[s]) >= processed
            BY DEF CursorInv, ProgressAcknowledged
        <2>2. s \in 1 .. Len(sessions') /\ processed \in Nat
            BY SizesAssumption DEF IInv, TypeOK
        <2> QED BY <2>1, <2>2
    <1> QED BY <1>1, <1>2 DEF CursorInv

\* Steps of the server that leave the sessions as they are, and answer no append
\* and no start with a success.
LEMMA CursorElsewhere ==
    ASSUME IInv, CursorInv, NEW m \in net, net' = net \ {m},
           UNCHANGED <<jobVars, bufferVars, pc, op, cursorVars, loopVars, processed,
                       outcome>>,
           sessions' = sessions, committed => committed',
           closed' = closed \/ (m.op = "finish" /\ closed' = closed \cup {m.sid}),
           \A r \in inbox' : pc = "wait" /\ r.status = 200 =>
               r \in inbox \/ op \notin {"start", "append"}
    PROVE  CursorInv'
    <1> USE DEF jobVars, bufferVars, cursorVars, loopVars
    <1>1. m.op = "finish" /\ pc # "done" => op = "finish"
        BY DEF CursorInv, Cursors, SessionOps, IInv, Buffered, FinalOps
    <1>2. pc # "done" /\ op # "finish" => closed' = closed
        BY <1>1
    <1>3. InStep'
        BY <1>2 DEF CursorInv, InStep, CursorInSync, Open
    <1>4. Acks'
        BY <1>2 DEF CursorInv, Acks, Arrived, Open
    <1>5. /\ Len(sessions) \in Nat
          /\ \A s \in 1 .. Len(sessions) : Len(sessions[s]) \in Nat
        <2>1. sessions \in Seq(Seq(Nat))
            BY DEF IInv, TypeOK
        <2>2. \A s \in 1 .. Len(sessions) : sessions[s] \in Seq(Nat)
            BY <2>1, ElementOfSeq
        <2> QED BY <2>1, <2>2, LenProperties
    <1> QED BY <1>3, <1>4, <1>5, CursorEffect

\* The server keeps the session of the cursor in step, whatever arrives late.
LEMMA CursorServe == ASSUME IInv, CursorInv, Serve PROVE CursorInv'
    <1> SUFFICES ASSUME NEW m \in net, net' = net \ {m},
                        UNCHANGED <<jobVars, bufferVars, pc, op, cursorVars, loopVars,
                                    processed, outcome>>,
                        \/ ServeSingle(m) \/ ServeStart(m) \/ ServeAppend(m)
                        \/ ServeFinish(m) \/ ServeUnknown(m) \/ ServeRefused(m)
                 PROVE  CursorInv'
        BY DEF Serve
    <1>1. /\ sessions \in Seq(Seq(Nat)) /\ closed \subseteq 1 .. Len(sessions)
          /\ Len(sessions) \in Nat
          /\ \A s \in 1 .. Len(sessions) : sessions[s] \in Seq(Nat) /\ Len(sessions[s]) \in Nat
        <2>1. sessions \in Seq(Seq(Nat)) /\ closed \subseteq 1 .. Len(sessions)
            BY DEF IInv, TypeOK
        <2>2. \A s \in 1 .. Len(sessions) : sessions[s] \in Seq(Nat)
            BY <2>1, ElementOfSeq
        <2> QED BY <2>1, <2>2, LenProperties
    <1>2. pc = "wait" =>
            /\ offset \in Nat /\ pos \in Nat /\ Len(chunk) = pos - offset
            /\ op \in Ops
        <2> SUFFICES ASSUME pc = "wait"
                     PROVE  /\ offset \in Nat /\ pos \in Nat /\ Len(chunk) = pos - offset
                            /\ op \in Ops
            OBVIOUS
        <2>1. /\ offset \in Nat /\ pos \in Nat /\ offset <= pos
              /\ chunk = Slice(offset, pos) /\ op \in Ops
            BY SizesAssumption DEF IInv, TypeOK, Buffered
        <2> QED BY <2>1, SliceType
    <1>3. ASSUME NEW data, Store(m, data), m.op \in FinalOps
          PROVE  /\ committed => committed'
                 /\ \A r \in inbox' : pc = "wait" /\ r.status = 200 =>
                       r \in inbox \/ op \notin {"start", "append"}
        <2>1. committed => committed'
            BY <1>3 DEF Store
        <2>2. PICK status \in {200, 409}, words \in SUBSET {"conflict", "not_found"} :
                 Answer(m, status, words, 0)
            BY <1>3 DEF Store
        <2> QED BY <1>3, <2>1, <2>2, AnswerArrives DEF FinalOps
    <1>4. CASE ServeSingle(m)
        BY <1>3, <1>4, CursorElsewhere DEF ServeSingle, FinalOps
    <1>5. CASE ServeFinish(m)
        <2>1. /\ sessions' = sessions /\ m.op = "finish" /\ closed' = closed \cup {m.sid}
              /\ \/ Store(m, sessions[m.sid] \o m.data)
                 \/ Answer(m, 409, {}, 0) /\ UNCHANGED <<dest, committed>>
            BY <1>5 DEF ServeFinish
        <2>2. CASE Store(m, sessions[m.sid] \o m.data)
            BY <1>3, <2>1, <2>2, CursorElsewhere DEF FinalOps
        <2>3. CASE Answer(m, 409, {}, 0) /\ UNCHANGED <<dest, committed>>
            <3>1. \A r \in inbox' : pc = "wait" /\ r.status = 200 => r \in inbox
                BY <2>3, RefusalArrives
            <3> QED BY <2>1, <2>3, <3>1, CursorElsewhere
        <2> QED BY <2>1, <2>2, <2>3
    <1>6. CASE ServeUnknown(m)
        BY <1>6, CursorElsewhere DEF ServeUnknown, serverVars
    <1>7. CASE ServeRefused(m)
        <2>1. PICK status \in {401, 429, 503} : Answer(m, status, {}, 0)
            BY <1>7 DEF ServeRefused
        <2>2. \A r \in inbox' : pc = "wait" /\ r.status = 200 => r \in inbox
            BY <2>1, RefusalArrives
        <2> QED BY <1>7, <2>2, CursorElsewhere DEF ServeRefused, serverVars
    <1>8. CASE ServeAppend(m) /\ ~InSync(m)
        <2>1. /\ Answer(m, 409, {}, 0) /\ UNCHANGED <<sessions, closed, dest, committed>>
            BY <1>8 DEF ServeAppend
        <2>2. \A r \in inbox' : pc = "wait" /\ r.status = 200 => r \in inbox
            BY <2>1, RefusalArrives
        <2> QED BY <2>1, <2>2, CursorElsewhere
    <1>9. CASE ServeStart(m)
        <2> PICK new : new = Len(sessions) + 1
            OBVIOUS
        <2>1. /\ m.op = "start" /\ sessions' = Append(sessions, m.data)
              /\ Answer(m, 200, {}, new) /\ UNCHANGED <<closed, dest, committed>>
            BY <1>9 DEF ServeStart
        <2>2. m.data \in Seq(Nat) /\ Len(m.data) \in Nat
            BY RequestFacts
        <2>3. /\ Len(sessions') = new
              /\ \A s \in 1 .. Len(sessions) : sessions'[s] = sessions[s]
              /\ sessions'[new] = m.data
            BY <1>1, <2>1, <2>2, AppendProperties
        <2>4. \A s : Open(s) => Open(s)' /\ sessions'[s] = sessions[s]
            BY <1>1, <2>1, <2>3 DEF Open
        <2>5. InStep'
            BY <2>4 DEF CursorInv, InStep, CursorInSync, bufferVars, cursorVars
        <2>6. new \in Nat /\ Open(new)'
            BY <1>1, <2>1, <2>3 DEF Open
        <2>7. Acks'
            <3> SUFFICES ASSUME pc = "wait", NEW r \in inbox', r.status = 200
                         PROVE  /\ op = "append" => sid # 0 /\ Arrived(sid)'
                                /\ op = "start" => Arrived(r.session)'
                BY DEF Acks, cursorVars
            <3>1. CASE r \in inbox
                BY <2>4, <3>1 DEF CursorInv, Acks, Arrived, bufferVars, cursorVars
            <3>2. CASE /\ r.session = new /\ m.op = op /\ m.offset = offset /\ m.data = chunk
                <4>1. offset = 0
                    BY <2>1, <3>2, RequestFacts
                <4>2. Len(sessions'[new]) = pos
                    BY <1>2, <2>3, <3>2, <4>1
                <4> QED BY <2>1, <2>6, <3>2, <4>2 DEF Arrived, bufferVars
            <3>3. {} \in SUBSET {"conflict", "not_found"}
                OBVIOUS
            <3>4. r \in inbox \/ (/\ r.session = new /\ m.op = op /\ m.offset = offset
                                  /\ m.data = chunk)
                BY <2>1, <2>6, <3>3, AnswerArrives
            <3> QED BY <3>1, <3>2, <3>4
        <2>8. \A s \in 1 .. Len(sessions) :
                 /\ Len(sessions[s]) \in Nat /\ Len(sessions'[s]) \in Nat
                 /\ Len(sessions[s]) <= Len(sessions'[s])
            <3> SUFFICES ASSUME NEW s \in 1 .. Len(sessions)
                         PROVE  /\ Len(sessions[s]) \in Nat /\ Len(sessions'[s]) \in Nat
                                /\ Len(sessions[s]) <= Len(sessions'[s])
                OBVIOUS
            <3>1. sessions'[s] = sessions[s] /\ Len(sessions[s]) \in Nat
                BY <1>1, <2>3
            <3> QED BY <3>1
        <2>9. /\ Len(sessions') \in Nat /\ Len(sessions) <= Len(sessions')
              /\ committed => committed'
            BY <1>1, <2>1, <2>3
        <2> QED BY <1>1, <2>5, <2>7, <2>8, <2>9, CursorEffect
    <1>10. CASE ServeAppend(m) /\ InSync(m)
        <2>1. /\ m.op = "append" /\ Open(m.sid) /\ m.offset = Len(sessions[m.sid])
              /\ sessions' = [sessions EXCEPT ![m.sid] = sessions[m.sid] \o m.data]
              /\ Answer(m, 200, {}, 0) /\ UNCHANGED <<closed, dest, committed>>
            BY <1>10 DEF ServeAppend, InSync
        <2>2. m.sid \in 1 .. Len(sessions) /\ m.data \in Seq(Nat) /\ Len(m.data) \in Nat
            BY <2>1, RequestFacts DEF Open
        <2> DEFINE grown == sessions[m.sid] \o m.data
        <2>3. grown \in Seq(Nat) /\ Len(grown) = m.offset + Len(m.data)
            BY <1>1, <2>1, <2>2, ConcatProperties
        <2> HIDE DEF grown
        <2>4. sessions' = [sessions EXCEPT ![m.sid] = grown]
            BY <2>1 DEF grown
        <2>5. /\ Len(sessions') = Len(sessions)
              /\ \A s \in 1 .. Len(sessions) :
                    sessions'[s] = IF s = m.sid THEN grown ELSE sessions[s]
            BY <1>1, <2>2, <2>3, <2>4, ExceptSeq
        <2>6. m.offset \in Nat /\ m.offset <= Len(grown) /\ Len(grown) \in Nat
            BY <2>2, <2>3, RequestFacts
        <2>7. ASSUME pc # "done"
              PROVE  /\ m.sid = sid /\ sid # 0 /\ op \in SessionOps
                     /\ op = "append" => /\ pc # "read" /\ m.offset = offset
                                         /\ m.data = chunk
            <3>1. /\ m.sid = sid /\ op \in SessionOps
                  /\ \/ m.offset < offset
                     \/ pc # "read" /\ m.op = op /\ m.offset = offset /\ m.data = chunk
                BY <2>1, <2>7 DEF CursorInv, Cursors, SessionOps
            <3>2. sid # 0 /\ offset \in Nat /\ pos \in Nat
                BY <1>1, <2>2, <3>1, SizesAssumption DEF IInv, TypeOK
            <3>3. op = "append" => offset <= Len(sessions[sid])
                <4> SUFFICES ASSUME op = "append" PROVE offset <= Len(sessions[sid])
                    OBVIOUS
                <4>1. pc \in {"read", "post", "wait"} /\ offset <= pos
                    BY <2>7 DEF IInv, TypeOK, Buffered
                <4> QED BY <3>2, <4>1 DEF CursorInv, InStep, CursorInSync
            <3>4. op = "append" => ~(m.offset < offset)
                BY <2>1, <2>6, <3>1, <3>2, <3>3
            <3> QED BY <3>1, <3>2, <3>4
        <2>8. pc # "done" /\ op = "append" => pc \in {"post", "wait"} /\ Arrived(sid)'
            <3> SUFFICES ASSUME pc # "done", op = "append"
                         PROVE  pc \in {"post", "wait"} /\ Arrived(sid)'
                OBVIOUS
            <3>1. /\ m.sid = sid /\ pc # "read" /\ m.offset = offset /\ m.data = chunk
                BY <2>7
            <3>2. pc \in {"post", "wait"}
                BY <3>1 DEF IInv, TypeOK, Buffered
            <3>3. offset \in Nat /\ pos \in Nat /\ Len(chunk) = pos - offset
                <4>1. /\ offset \in Nat /\ pos \in Nat /\ offset <= pos
                      /\ chunk = Slice(offset, pos)
                    BY SizesAssumption DEF IInv, TypeOK, Buffered
                <4> QED BY <4>1, SliceType
            <3>4. Len(sessions'[sid]) = pos
                BY <2>2, <2>3, <2>5, <3>1, <3>3
            <3>5. Open(sid)'
                BY <2>1, <2>2, <2>5, <3>1 DEF Open, cursorVars
            <3> QED BY <3>2, <3>4, <3>5 DEF Arrived, bufferVars, cursorVars
        <2>9. InStep'
            BY <2>7, <2>8 DEF InStep, CursorInSync, Arrived, bufferVars, cursorVars,
                              SessionOps
        <2>10. Acks'
            BY <2>7, <2>8 DEF Acks, bufferVars, cursorVars, SessionOps
        <2>11. \A s \in 1 .. Len(sessions) :
                  /\ Len(sessions[s]) \in Nat /\ Len(sessions'[s]) \in Nat
                  /\ Len(sessions[s]) <= Len(sessions'[s])
            <3> SUFFICES ASSUME NEW s \in 1 .. Len(sessions)
                         PROVE  /\ Len(sessions[s]) \in Nat /\ Len(sessions'[s]) \in Nat
                                /\ Len(sessions[s]) <= Len(sessions'[s])
                OBVIOUS
            <3>1. CASE s = m.sid
                <4>1. sessions'[s] = grown /\ Len(sessions[s]) = m.offset
                    BY <2>1, <2>5, <3>1
                <4> QED BY <2>6, <4>1
            <3>2. CASE s # m.sid
                <4>1. sessions'[s] = sessions[s] /\ Len(sessions[s]) \in Nat
                    BY <1>1, <2>5, <3>2
                <4> QED BY <4>1
            <3> QED BY <3>1, <3>2
        <2>12. Len(sessions') \in Nat /\ Len(sessions) <= Len(sessions')
            BY <1>1, <2>5
        <2>13. committed => committed'
            BY <2>1
        <2> QED BY <1>1, <2>9, <2>10, <2>11, <2>12, <2>13, CursorEffect
    <1> QED BY <1>4, <1>5, <1>6, <1>7, <1>8, <1>9, <1>10

\* Every step keeps the cursor, the session and the progress in step.
THEOREM CursorInvariance == Spec => []CursorInv
    <1>1. IInv /\ CursorInv /\ [Next]_vars => CursorInv'
        BY QuietStep, CursorReadPart, CursorReadEnd, CursorPost, CursorSettle, CursorServe
           DEF Next
    <1> QED BY Invariance, CursorInit, <1>1, PTL DEF Spec

\* When the next chunk is read the server agrees with the cursor, whatever was
\* retried before and whatever is still on its way.
THEOREM CursorAgrees == Spec => []CursorInSync
    <1>1. CursorInv => CursorInSync
        BY DEF CursorInv, InStep
    <1> QED BY CursorInvariance, <1>1, PTL

\* Progress is only reported for data the server has.
THEOREM ProgressIsReal == Spec => []ProgressAcknowledged
    <1>1. CursorInv => ProgressAcknowledged
        BY DEF CursorInv
    <1> QED BY CursorInvariance, <1>1, PTL

-----------------------------------------------------------------------------
(* How long an upload may take. *)

\* The steps that are left at most until the source is read on: two for each attempt
\* of the request under way, and those of the last request.
Stage ==
    CASE pc = "idle" -> 2 * MaxRetries + 2
      [] pc = "read" -> 2 * MaxRetries + 1
      [] pc = "post" -> (IF op \in FinalOps THEN 0 ELSE 2 * MaxRetries + 1)
                          + 2 * (MaxRetries - attempt)
      [] pc = "wait" -> (IF op \in FinalOps THEN 0 ELSE 2 * MaxRetries + 1)
                          + 2 * (MaxRetries - attempt) - 1
      [] pc = "done" -> 0

\* There are some unless put() has returned.
LEMMA StageType ==
    ASSUME TypeOK
    PROVE  Stage \in 0 .. 4 * MaxRetries + 1 /\ (Stage = 0 <=> pc = "done")
    <1> DEFINE last == IF op \in FinalOps THEN 0 ELSE 2 * MaxRetries + 1
    <1>1. /\ MaxRetries \in Nat \ {0} /\ attempt \in 0 .. MaxRetries - 1
          /\ pc \in {"idle", "read", "post", "wait", "done"}
          /\ last \in 0 .. 2 * MaxRetries + 1
        BY MaxRetriesAssumption DEF TypeOK
    <1>2. /\ pc = "idle" => Stage = 2 * MaxRetries + 2
          /\ pc = "read" => Stage = 2 * MaxRetries + 1
          /\ pc = "post" => Stage = last + 2 * (MaxRetries - attempt)
          /\ pc = "wait" => Stage = last + 2 * (MaxRetries - attempt) - 1
          /\ pc = "done" => Stage = 0
        BY DEF Stage
    <1> HIDE DEF last
    <1> QED BY <1>1, <1>2

\* Each step of the worker reads on, or is one step less.
LEMMA WorkerIsNearer ==
    ASSUME IInv, Put \/ ReadPart \/ ReadEnd \/ ReadError \/ Post \/ Receive \/ Lose
    PROVE  pos' > pos \/ (pos' = pos /\ Stage' < Stage)
    <1>1. /\ MaxRetries \in Nat \ {0} /\ attempt \in 0 .. MaxRetries - 1 /\ pos \in Nat
          /\ Stage \in Nat /\ (Stage = 0 <=> pc = "done")
        BY MaxRetriesAssumption, StageType, SizesAssumption DEF IInv, TypeOK
    <1>2. pc' = "done" => Stage' = 0
        BY DEF Stage
    <1>3. CASE Put
        <2>1. pc = "idle" /\ pos' = pos /\ pc' \in {"read", "done"}
            BY <1>3 DEF Put, bufferVars
        <2>2. Stage = 2 * MaxRetries + 2 /\ (pc' = "read" => Stage' = 2 * MaxRetries + 1)
            BY <2>1 DEF Stage
        <2> QED BY <1>1, <1>2, <2>1, <2>2
    <1>4. CASE ReadPart
        <2>1. \E n \in 1..MaxPart : pos' = pos + n
            BY <1>4 DEF ReadPart
        <2> QED BY <1>1, <2>1, SizesAssumption
    <1>5. CASE ReadEnd
        <2>1. /\ pc = "read" /\ pc' = "post" /\ pos' = pos
              /\ op' \in FinalOps /\ attempt' = 0
            BY <1>5 DEF ReadEnd, Issue, FinalOps, bufferVars
        <2>2. Stage = 2 * MaxRetries + 1 /\ Stage' = 0 + 2 * (MaxRetries - 0)
            BY <2>1 DEF Stage
        <2> QED BY <1>1, <2>1, <2>2
    <1>6. CASE ReadError
        <2>1. pc = "read" /\ pc' = "done" /\ pos' = pos
            BY <1>6 DEF ReadError, bufferVars
        <2> QED BY <1>1, <1>2, <2>1
    <1> DEFINE last == IF op \in FinalOps THEN 0 ELSE 2 * MaxRetries + 1
    <1>7. CASE Post
        <2>1. /\ pc = "post" /\ pos' = pos /\ op' = op /\ attempt' = attempt
              /\ pc' \in {"wait", "done"}
            BY <1>7 DEF Post, bufferVars, loopVars
        <2>2. /\ Stage = last + 2 * (MaxRetries - attempt)
              /\ pc' = "wait" => Stage' = last + 2 * (MaxRetries - attempt) - 1
            BY <2>1 DEF Stage
        <2>3. last \in Nat
            BY <1>1
        <2> HIDE DEF last
        <2> QED BY <1>1, <1>2, <2>1, <2>2, <2>3
    <1>8. CASE Receive \/ Lose
        <2>1. /\ pc = "wait" /\ pos' = pos /\ op' = op
              /\ \/ \E reply : Advance(reply)
                 \/ \E kind \in Errors : Fail(kind)
                 \/ \E r \in BOOLEAN : Again(r)
            BY <1>8, EndOfAttempt
        <2>2. Stage = last + 2 * (MaxRetries - attempt) - 1
            BY <2>1 DEF Stage
        <2>3. \/ pc' = "done"
              \/ pc' = "read" /\ op \notin FinalOps
              \/ pc' = "post" /\ attempt' = attempt + 1
            BY <2>1 DEF Advance, Fail, Again, FinalOps
        <2>4. CASE pc' = "done"
            BY <1>1, <1>2, <2>1, <2>4
        <2>5. CASE pc' = "read" /\ op \notin FinalOps
            <3>1. Stage' = 2 * MaxRetries + 1 /\ last = 2 * MaxRetries + 1
                BY <2>5 DEF Stage
            <3> HIDE DEF last
            <3> QED BY <1>1, <2>1, <2>2, <3>1
        <2>6. CASE pc' = "post" /\ attempt' = attempt + 1
            <3>1. Stage' = last + 2 * (MaxRetries - (attempt + 1)) /\ last \in Nat
                BY <1>1, <2>1, <2>6 DEF Stage
            <3> HIDE DEF last
            <3> QED BY <1>1, <2>1, <2>2, <3>1
        <2> QED BY <2>3, <2>4, <2>5, <2>6
    <1> QED BY <1>3, <1>4, <1>5, <1>6, <1>7, <1>8

\* No upload goes on for ever: each step of put() takes more of the source, or one of
\* a number that is bounded by that of the attempts, and what the server and others do
\* adds none. That it makes these steps is what PutReturns assumes fairness for.
THEOREM PutIsBounded ==
    Spec => /\ [](pos \in 0..MaxSize /\ Stage \in 0 .. 4 * MaxRetries + 1)
            /\ [](Stage = 0 <=> pc = "done")
            /\ [][\/ pos' > pos
                  \/ pos' = pos /\ Stage' < Stage
                  \/ pos' = pos /\ Stage' = Stage /\ (Serve \/ Interfere)]_vars
    <1>1. IInv => /\ pos \in 0..MaxSize /\ Stage \in 0 .. 4 * MaxRetries + 1
                  /\ Stage = 0 <=> pc = "done"
        <2>1. TypeOK => pos \in 0..MaxSize
            BY SizesAssumption DEF TypeOK
        <2> QED BY <2>1, StageType DEF IInv
    <1>2. IInv /\ [Next]_vars => [\/ pos' > pos
                                  \/ pos' = pos /\ Stage' < Stage
                                  \/ pos' = pos /\ Stage' = Stage /\ (Serve \/ Interfere)]_vars
        <2> SUFFICES ASSUME IInv, Next
                     PROVE  \/ pos' > pos
                            \/ pos' = pos /\ Stage' < Stage
                            \/ pos' = pos /\ Stage' = Stage /\ (Serve \/ Interfere)
            OBVIOUS
        <2>1. CASE Put \/ ReadPart \/ ReadEnd \/ ReadError \/ Post \/ Receive \/ Lose
            BY <2>1, WorkerIsNearer
        <2>2. CASE Serve \/ Interfere
            <3>1. UNCHANGED <<pos, pc, op, attempt>>
                BY <2>2 DEF Serve, Interfere, bufferVars, loopVars
            <3>2. Stage' = Stage
                BY <3>1 DEF Stage
            <3> QED BY <2>2, <3>1, <3>2
        <2> QED BY <2>1, <2>2 DEF Next
    <1> QED BY <1>1, <1>2, Invariance, PTL DEF Spec
==============================================================================
