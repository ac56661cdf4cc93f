------------------------ MODULE DropboxRequestProofs -------------------------
(***************************************************************************)
(* The safety properties of DropboxRequest, proved for every MaxRetries,   *)
(* every set of statuses and summaries and every length of body.           *)
(*                                                                         *)
(* The inductive invariant says what a retry starts from: nothing was      *)
(* passed on or announced yet (Fresh), nothing was reported yet, and at     *)
(* most one 401 was seen (Looping), after which the token in use can only   *)
(* be one the token endpoint just minted (Minted). From it follow also that  *)
(* send() implements ApiCall, and that no call is endless.                  *)
(***************************************************************************)
EXTENDS DropboxRequest, RequestPolicyProofs

\* While the loop runs no result is set, and it has an attempt left.
Looping ==
    /\ pc # "idle" =>
          /\ attempt < MaxRetries
          /\ ~ok /\ error = "None" /\ ~refused /\ tokenFault = "none"
          /\ rejections = IF refreshed THEN 1 ELSE 0
    /\ pc = "pause" => attempt + 1 < MaxRetries

\* The body of an attempt is passed on and announced at most once, and only
\* an answer 200 has one.
Fresh ==
    /\ delivered = arrived
    /\ announced = IF announcedSize THEN 1 ELSE 0
    /\ arrived > 0 => announcedSize
    /\ status # 200 => size = 0 /\ ~announcedSize
    /\ pc \in {"authorize", "refresh", "pause"} => status # 200

\* After a 401 no request is sent before the token endpoint minted a token.
Minted ==
    refreshed /\ ~minted => pc # "wait" /\ pc # "pause" /\ (pc = "idle" \/ token # "usable")

\* What a call has returned.
Result ==
    pc = "idle" =>
        /\ ok /\ streaming => announcedSize
        /\ ok \/ refused <=> error = "None"
        /\ error \in {"Network", "Server", "RateLimited"} => attempt + 1 >= MaxRetries
        /\ rejections <= 2
        /\ error = "Authentication" /\ tokenFault = "none" => rejections = 2 /\ minted

IInv == TypeOK /\ Looping /\ Fresh /\ Minted /\ Result

-----------------------------------------------------------------------------
\* No call has been made: nothing was looped, passed on or reported.
LEMMA InitIInv == Init => IInv
    <1> SUFFICES ASSUME Init PROVE IInv
        OBVIOUS
    <1>1. TypeOK
        <2>1. summary \in Summaries
            BY SummariesAssumption DEF Init
        <2>2. /\ attempt \in 0..MaxRetries
              /\ size \in 0..MaxBody /\ arrived \in 0..size
            BY MaxRetriesAssumption, MaxBodyAssumption DEF Init
        <2>3. /\ status \in Statuses \cup {NoStatus}
              /\ error \in Kinds /\ tokenFault \in TokenFaults
            BY DEF Init, Kinds, TokenFaults
        <2>4. /\ pc \in {"idle", "authorize", "refresh", "wait", "pause"}
              /\ token \in {"none", "usable", "expired"}
              /\ delivered \in Nat /\ announced \in Nat /\ rejections \in Nat
            BY DEF Init
        <2>5. /\ streaming \in BOOLEAN /\ linked \in BOOLEAN
              /\ refreshed \in BOOLEAN /\ announcedSize \in BOOLEAN
              /\ ok \in BOOLEAN /\ minted \in BOOLEAN /\ refused \in BOOLEAN
            BY Zenon DEF Init
        <2> QED BY <2>1, <2>2, <2>3, <2>4, <2>5 DEF TypeOK
    <1>2. Looping /\ Minted
        BY DEF Init, Looping, Minted
    <1>3. Fresh
        BY DEF Init, Fresh, NoStatus
    <1>4. Result
        BY DEF Init, Result
    <1> QED BY <1>1, <1>2, <1>3, <1>4 DEF IInv

-----------------------------------------------------------------------------
\* rpc(), download() or contentUpload() enters send() with everything reset.
LEMMA CallStep == IInv /\ Call => IInv'
    <1> SUFFICES ASSUME IInv, Call PROVE IInv'
        OBVIOUS
    <1> USE MaxRetriesAssumption, MaxBodyAssumption, StatusesAssumption,
            SummariesAssumption
        DEF NoStatus
    <1>1. TypeOK'
        <2>1. /\ streaming' \in BOOLEAN /\ linked' \in BOOLEAN
              /\ refreshed' \in BOOLEAN /\ announcedSize' \in BOOLEAN
              /\ ok' \in BOOLEAN /\ minted' \in BOOLEAN /\ refused' \in BOOLEAN
            BY Zenon DEF IInv, TypeOK, Looping, Fresh, Call, FreshAttempt, callVars,
                         loopVars, answerVars, resultVars, history, Kinds, TokenFaults
        <2>2. /\ attempt' \in 0..MaxRetries
              /\ status' \in Statuses \cup {NoStatus} /\ summary' \in Summaries
              /\ size' \in 0..MaxBody /\ arrived' \in 0..size'
            BY DEF IInv, TypeOK, Looping, Fresh, Call, FreshAttempt, callVars, loopVars,
                   answerVars, resultVars, history, Kinds, TokenFaults
        <2>3. /\ pc' \in {"idle", "authorize", "refresh", "wait", "pause"}
              /\ token' \in {"none", "usable", "expired"}
              /\ error' \in Kinds /\ tokenFault' \in TokenFaults
            BY DEF IInv, TypeOK, Looping, Fresh, Call, FreshAttempt, callVars, loopVars,
                   answerVars, resultVars, history, Kinds, TokenFaults
        <2>4. delivered' \in Nat /\ announced' \in Nat /\ rejections' \in Nat
            BY DEF IInv, TypeOK, Looping, Fresh, Call, FreshAttempt, callVars, loopVars,
                   answerVars, resultVars, history, Kinds, TokenFaults
        <2> QED BY <2>1, <2>2, <2>3, <2>4 DEF TypeOK
    <1>2. Looping'
        BY DEF IInv, TypeOK, Looping, Call, FreshAttempt, callVars, loopVars, answerVars,
               resultVars, history
    <1>3. Fresh'
        BY DEF IInv, TypeOK, Fresh, Call, FreshAttempt, callVars, loopVars, answerVars,
               resultVars, history
    <1>4. Minted'
        BY DEF IInv, TypeOK, Minted, Call, FreshAttempt, callVars, loopVars, answerVars,
               resultVars, history
    <1>5. Result'
        BY DEF IInv, TypeOK, Looping, Fresh, Minted, Result, Call, FreshAttempt, callVars,
               loopVars, answerVars, resultVars, history
    <1> QED BY <1>1, <1>2, <1>3, <1>4, <1>5 DEF IInv

\* authorize() posts an attempt, asks for a token or gives up.
LEMMA AuthorizeStep == IInv /\ Authorize => IInv'
    <1> SUFFICES ASSUME IInv, Authorize PROVE IInv'
        OBVIOUS
    <1> USE MaxRetriesAssumption, MaxBodyAssumption, StatusesAssumption,
            SummariesAssumption
        DEF NoStatus
    <1>1. TypeOK'
        <2>1. /\ streaming' \in BOOLEAN /\ linked' \in BOOLEAN
              /\ refreshed' \in BOOLEAN /\ announcedSize' \in BOOLEAN
              /\ ok' \in BOOLEAN /\ minted' \in BOOLEAN /\ refused' \in BOOLEAN
            <3>1. UNCHANGED <<streaming, linked, refreshed, ok, minted, refused>>
                BY DEF Authorize, callVars, loopVars
            <3>2. announcedSize' = FALSE \/ UNCHANGED announcedSize
                BY DEF Authorize, Post, Unauthorized, FreshAttempt, answerVars
            <3> QED BY Zenon, <3>1, <3>2 DEF IInv, TypeOK
        <2>2. /\ attempt' \in 0..MaxRetries
              /\ status' \in Statuses \cup {NoStatus} /\ summary' \in Summaries
              /\ size' \in 0..MaxBody /\ arrived' \in 0..size'
            BY DEF IInv, TypeOK, Looping, Fresh, Authorize, Post, Unauthorized,
                   FreshAttempt, callVars, loopVars, answerVars, resultVars, history, Kinds,
                   TokenFaults
        <2>3. /\ pc' \in {"idle", "authorize", "refresh", "wait", "pause"}
              /\ token' \in {"none", "usable", "expired"}
              /\ error' \in Kinds /\ tokenFault' \in TokenFaults
            BY DEF IInv, TypeOK, Looping, Fresh, Authorize, Post, Unauthorized,
                   FreshAttempt, callVars, loopVars, answerVars, resultVars, history, Kinds,
                   TokenFaults
        <2>4. delivered' \in Nat /\ announced' \in Nat /\ rejections' \in Nat
            BY DEF IInv, TypeOK, Looping, Fresh, Authorize, Post, Unauthorized,
                   FreshAttempt, callVars, loopVars, answerVars, resultVars, history, Kinds,
                   TokenFaults
        <2> QED BY <2>1, <2>2, <2>3, <2>4 DEF TypeOK
    <1>2. Looping'
        BY DEF IInv, TypeOK, Looping, Authorize, Post, Unauthorized, FreshAttempt,
               callVars, loopVars, answerVars, resultVars, history
    <1>3. Fresh'
        BY DEF IInv, TypeOK, Fresh, Authorize, Post, Unauthorized, FreshAttempt, callVars,
               loopVars, answerVars, resultVars, history
    <1>4. Minted'
        BY DEF IInv, TypeOK, Minted, Authorize, Post, Unauthorized, FreshAttempt,
               callVars, loopVars, answerVars, resultVars, history
    <1>5. Result'
        BY DEF IInv, TypeOK, Looping, Fresh, Minted, Result, Authorize, Post,
               Unauthorized, FreshAttempt, callVars, loopVars, answerVars, resultVars, history
    <1> QED BY <1>1, <1>2, <1>3, <1>4, <1>5 DEF IInv

\* The token endpoint's answer posts an attempt with a minted token, or ends the call.
LEMMA TokenReplyStep == IInv /\ TokenReply => IInv'
    <1> SUFFICES ASSUME IInv, TokenReply PROVE IInv'
        OBVIOUS
    <1> USE MaxRetriesAssumption, MaxBodyAssumption, StatusesAssumption,
            SummariesAssumption
        DEF NoStatus
    <1>1. TypeOK'
        <2>1. /\ streaming' \in BOOLEAN /\ linked' \in BOOLEAN
              /\ refreshed' \in BOOLEAN /\ announcedSize' \in BOOLEAN
              /\ ok' \in BOOLEAN /\ minted' \in BOOLEAN /\ refused' \in BOOLEAN
            <3>1. UNCHANGED <<streaming, linked, refreshed, ok, refused>>
                BY DEF TokenReply, callVars, loopVars
            <3>2. announcedSize' = FALSE \/ UNCHANGED announcedSize
                BY DEF TokenReply, Post, Unauthorized, FreshAttempt, answerVars
            <3>3. minted' = TRUE \/ UNCHANGED minted
                BY DEF TokenReply
            <3> QED BY Zenon, <3>1, <3>2, <3>3 DEF IInv, TypeOK
        <2>2. /\ attempt' \in 0..MaxRetries
              /\ status' \in Statuses \cup {NoStatus} /\ summary' \in Summaries
              /\ size' \in 0..MaxBody /\ arrived' \in 0..size'
            BY DEF IInv, TypeOK, Looping, Fresh, TokenReply, Post, Unauthorized,
                   FreshAttempt, callVars, loopVars, answerVars, resultVars, history, Kinds,
                   TokenFaults
        <2>3. /\ pc' \in {"idle", "authorize", "refresh", "wait", "pause"}
              /\ token' \in {"none", "usable", "expired"}
              /\ error' \in Kinds /\ tokenFault' \in TokenFaults
            BY DEF IInv, TypeOK, Looping, Fresh, TokenReply, Post, Unauthorized,
                   FreshAttempt, callVars, loopVars, answerVars, resultVars, history, Kinds,
                   TokenFaults
        <2>4. delivered' \in Nat /\ announced' \in Nat /\ rejections' \in Nat
            BY DEF IInv, TypeOK, Looping, Fresh, TokenReply, Post, Unauthorized,
                   FreshAttempt, callVars, loopVars, answerVars, resultVars, history, Kinds,
                   TokenFaults
        <2> QED BY <2>1, <2>2, <2>3, <2>4 DEF TypeOK
    <1>2. Looping'
        BY DEF IInv, TypeOK, Looping, TokenReply, Post, Unauthorized, FreshAttempt,
               callVars, loopVars, answerVars, resultVars, history
    <1>3. Fresh'
        BY DEF IInv, TypeOK, Fresh, TokenReply, Post, Unauthorized, FreshAttempt,
               callVars, loopVars, answerVars, resultVars, history
    <1>4. Minted'
        BY DEF IInv, TypeOK, Minted, TokenReply, Post, Unauthorized, FreshAttempt,
               callVars, loopVars, answerVars, resultVars, history
    <1>5. Result'
        BY DEF IInv, TypeOK, Looping, Fresh, Minted, Result, TokenReply, Post,
               Unauthorized, FreshAttempt, callVars, loopVars, answerVars, resultVars, history
    <1> QED BY <1>1, <1>2, <1>3, <1>4, <1>5 DEF IInv

\* The status line arrives before any of the body.
LEMMA StatusLineStep == IInv /\ StatusLine => IInv'
    <1> SUFFICES ASSUME IInv, StatusLine PROVE IInv'
        OBVIOUS
    <1> USE MaxRetriesAssumption, MaxBodyAssumption, StatusesAssumption,
            SummariesAssumption
        DEF NoStatus
    <1>1. TypeOK'
        BY DEF IInv, TypeOK, Looping, Fresh, StatusLine, callVars, loopVars, answerVars,
               resultVars, history, Kinds, TokenFaults
    <1>2. Looping'
        BY DEF IInv, TypeOK, Looping, StatusLine, callVars, loopVars, answerVars,
               resultVars, history
    <1>3. Fresh'
        BY DEF IInv, TypeOK, Fresh, StatusLine, callVars, loopVars, answerVars,
               resultVars, history
    <1>4. Minted'
        BY DEF IInv, TypeOK, Minted, StatusLine, callVars, loopVars, answerVars,
               resultVars, history
    <1>5. Result'
        BY DEF IInv, TypeOK, Looping, Fresh, Minted, Result, StatusLine, callVars,
               loopVars, answerVars, resultVars, history
    <1> QED BY <1>1, <1>2, <1>3, <1>4, <1>5 DEF IInv

\* readyRead passes on what arrived, and announces the size before.
LEMMA ChunkStep == IInv /\ Chunk => IInv'
    <1> SUFFICES ASSUME IInv, Chunk PROVE IInv'
        OBVIOUS
    <1> USE MaxRetriesAssumption, MaxBodyAssumption, StatusesAssumption,
            SummariesAssumption
        DEF NoStatus
    <1>1. TypeOK'
        <2>1. /\ streaming' \in BOOLEAN /\ linked' \in BOOLEAN
              /\ refreshed' \in BOOLEAN /\ announcedSize' \in BOOLEAN
              /\ ok' \in BOOLEAN /\ minted' \in BOOLEAN /\ refused' \in BOOLEAN
            BY Zenon DEF IInv, TypeOK, Looping, Fresh, Chunk, Announce, callVars,
                         loopVars, answerVars, resultVars, history, Kinds, TokenFaults
        <2>2. /\ attempt' \in 0..MaxRetries
              /\ status' \in Statuses \cup {NoStatus} /\ summary' \in Summaries
              /\ size' \in 0..MaxBody /\ arrived' \in 0..size'
            BY DEF IInv, TypeOK, Looping, Fresh, Chunk, Announce, callVars, loopVars,
                   answerVars, resultVars, history, Kinds, TokenFaults
        <2>3. /\ pc' \in {"idle", "authorize", "refresh", "wait", "pause"}
              /\ token' \in {"none", "usable", "expired"}
              /\ error' \in Kinds /\ tokenFault' \in TokenFaults
            BY DEF IInv, TypeOK, Looping, Fresh, Chunk, Announce, callVars, loopVars,
                   answerVars, resultVars, history, Kinds, TokenFaults
        <2>4. delivered' \in Nat /\ announced' \in Nat /\ rejections' \in Nat
            BY DEF IInv, TypeOK, Looping, Fresh, Chunk, Announce, callVars, loopVars,
                   answerVars, resultVars, history, Kinds, TokenFaults
        <2> QED BY <2>1, <2>2, <2>3, <2>4 DEF TypeOK
    <1>2. Looping'
        BY DEF IInv, TypeOK, Looping, Chunk, Announce, callVars, loopVars, answerVars,
               resultVars, history
    <1>3. Fresh'
        BY DEF IInv, TypeOK, Fresh, Chunk, Announce, callVars, loopVars, answerVars,
               resultVars, history
    <1>4. Minted'
        BY DEF IInv, TypeOK, Minted, Chunk, Announce, callVars, loopVars, answerVars,
               resultVars, history
    <1>5. Result'
        BY DEF IInv, TypeOK, Looping, Fresh, Minted, Result, Chunk, Announce, callVars,
               loopVars, answerVars, resultVars, history
    <1> QED BY <1>1, <1>2, <1>3, <1>4, <1>5 DEF IInv

\* The loop goes round after a pause with one attempt fewer.
LEMMA ResumeStep == IInv /\ Resume => IInv'
    <1> SUFFICES ASSUME IInv, Resume PROVE IInv'
        OBVIOUS
    <1> USE MaxRetriesAssumption, MaxBodyAssumption, StatusesAssumption,
            SummariesAssumption
        DEF NoStatus
    <1>1. TypeOK'
        BY DEF IInv, TypeOK, Looping, Fresh, Resume, callVars, loopVars, answerVars,
               resultVars, history, Kinds, TokenFaults
    <1>2. Looping'
        BY DEF IInv, TypeOK, Looping, Resume, callVars, loopVars, answerVars, resultVars,
               history
    <1>3. Fresh'
        BY DEF IInv, TypeOK, Fresh, Resume, callVars, loopVars, answerVars, resultVars,
               history
    <1>4. Minted'
        BY DEF IInv, TypeOK, Minted, Resume, callVars, loopVars, answerVars, resultVars,
               history
    <1>5. Result'
        BY DEF IInv, TypeOK, Looping, Fresh, Minted, Result, Resume, callVars, loopVars,
               answerVars, resultVars, history
    <1> QED BY <1>1, <1>2, <1>3, <1>4, <1>5 DEF IInv

\* A token may run out between any two steps.
LEMMA ExpireStep == IInv /\ Expire => IInv'
    <1> SUFFICES ASSUME IInv, Expire PROVE IInv'
        OBVIOUS
    <1> USE MaxRetriesAssumption, MaxBodyAssumption, StatusesAssumption,
            SummariesAssumption
        DEF NoStatus
    <1>1. TypeOK'
        BY DEF IInv, TypeOK, Looping, Fresh, Expire, callVars, loopVars, answerVars,
               resultVars, history, Kinds, TokenFaults
    <1>2. Looping'
        BY DEF IInv, TypeOK, Looping, Expire, callVars, loopVars, answerVars, resultVars,
               history
    <1>3. Fresh'
        BY DEF IInv, TypeOK, Fresh, Expire, callVars, loopVars, answerVars, resultVars,
               history
    <1>4. Minted'
        BY DEF IInv, TypeOK, Minted, Expire, callVars, loopVars, answerVars, resultVars,
               history
    <1>5. Result'
        BY DEF IInv, TypeOK, Looping, Fresh, Minted, Result, Expire, callVars, loopVars,
               answerVars, resultVars, history
    <1> QED BY <1>1, <1>2, <1>3, <1>4, <1>5 DEF IInv

-----------------------------------------------------------------------------
\* The end of an attempt, one case for each verdict.
LEMMA SettleStep ==
    ASSUME IInv, pc = "wait", NEW cut \in BOOLEAN, cut \/ status # NoStatus, Settle(cut)
    PROVE  IInv'
    <1> DEFINE failed == NetworkFailed(cut)
               verdict == Verdict(attempt, refreshed, status, failed)
               exhausted == verdict = "refresh" /\ attempt + 1 >= MaxRetries
    <1> USE MaxRetriesAssumption, MaxBodyAssumption, StatusesAssumption
    <1>1. /\ attempt \in Nat /\ attempt < MaxRetries /\ status \in Nat
          /\ refreshed \in BOOLEAN /\ failed \in BOOLEAN
          /\ failed => status = NoStatus
        BY DEF IInv, TypeOK, Looping, NetworkFailed, NoStatus
    <1>2. /\ verdict \in {"refresh", "backoff", "return"}
          /\ verdict = "refresh" <=> status = 401 /\ ~refreshed
          /\ verdict = "backoff" => attempt + 1 < MaxRetries /\ Retryable(status, failed)
          /\ verdict = "return" /\ Retryable(status, failed) => attempt + 1 >= MaxRetries
        BY <1>1, VerdictFacts
    <1>3. DEFINE kind == KindOf(status, failed, summary)
    <1>4. /\ kind \in Kinds \ {"None"}
          /\ kind \in {"Network", "Server", "RateLimited"} => Retryable(status, failed)
          /\ kind = "Authentication" => status = 401
        BY <1>1, KindFacts
    <1>5. Retryable(status, failed) => status # 200
        BY <1>1 DEF Retryable, NoStatus
    <1>6. /\ pc' = IF verdict = "backoff" THEN "pause"
                   ELSE IF verdict = "return" \/ exhausted THEN "idle"
                   ELSE "authorize"
          /\ IF status = 200 /\ streaming
                THEN Announce ELSE UNCHANGED <<announcedSize, announced>>
          /\ refreshed' = (refreshed \/ verdict = "refresh")
          /\ IF verdict = "refresh"
                THEN token' = "none" /\ attempt' = attempt + 1
                ELSE UNCHANGED <<token, attempt>>
          /\ rejections' = rejections + IF status = 401 THEN 1 ELSE 0
          /\ ok' = (verdict = "return" /\ status = 200)
          /\ error' = IF exhausted THEN ExhaustedError
                      ELSE IF verdict = "return" /\ status # 200 THEN kind ELSE error
          /\ UNCHANGED <<callVars, status, summary, size, arrived, delivered, minted,
                         refused, tokenFault>>
        BY DEF Settle, Invalidate
    <1>7. error = "None" /\ tokenFault = "none" /\ ~ok /\ ~refused
          /\ rejections = IF refreshed THEN 1 ELSE 0
        BY DEF IInv, Looping
    <1>8. ExhaustedError = "Network"
        BY <1>7 DEF ExhaustedError
    <1> HIDE DEF failed, verdict, kind
    <1>9. TypeOK'
        <2>1. /\ streaming' \in BOOLEAN /\ linked' \in BOOLEAN
              /\ refreshed' \in BOOLEAN /\ ok' \in BOOLEAN
              /\ minted' \in BOOLEAN /\ refused' \in BOOLEAN
            BY <1>1, <1>6 DEF IInv, TypeOK, callVars
        <2>2. announcedSize' \in BOOLEAN /\ announced' \in Nat
            <3>1. CASE status = 200 /\ streaming
                <4>1. announcedSize' = TRUE
                    BY <1>6, <3>1 DEF Announce
                <4>2. announced' \in Nat
                    BY <1>6, <3>1 DEF IInv, TypeOK, Announce
                <4> QED BY <4>1, <4>2
            <3>2. CASE ~(status = 200 /\ streaming)
                BY <1>6, <3>2 DEF IInv, TypeOK
            <3> QED BY <3>1, <3>2
        <2>3. /\ attempt' \in 0..MaxRetries
              /\ status' \in Statuses \cup {NoStatus} /\ summary' \in Summaries
              /\ size' \in 0..MaxBody /\ arrived' \in 0..size'
            BY <1>1, <1>6 DEF IInv, TypeOK
        <2>4. /\ pc' \in {"idle", "authorize", "refresh", "wait", "pause"}
              /\ token' \in {"none", "usable", "expired"}
              /\ error' \in Kinds /\ tokenFault' \in TokenFaults
            BY <1>4, <1>6, <1>7, <1>8 DEF IInv, TypeOK, Kinds
        <2>5. delivered' \in Nat /\ rejections' \in Nat
            BY <1>6 DEF IInv, TypeOK
        <2> QED BY <2>1, <2>2, <2>3, <2>4, <2>5 DEF TypeOK
    <1>10. Looping'
        <2>1. CASE verdict = "return"
            BY <1>6, <2>1 DEF Looping
        <2>2. CASE verdict = "backoff"
            <3>1. status = 401 => ~Retryable(status, failed)
                BY <1>1 DEF Retryable, NoStatus
            <3>2. status # 401 /\ attempt + 1 < MaxRetries
                BY <1>2, <2>2, <3>1
            <3>3. pc' = "pause" /\ attempt' = attempt /\ rejections' = rejections + 0
                BY <1>6, <2>2, <3>2
            <3>4. refreshed' = refreshed /\ ~ok' /\ error' = "None" /\ ~refused'
                  /\ tokenFault' = "none"
                BY <1>1, <1>6, <1>7, <2>2
            <3> QED BY <1>1, <1>7, <3>2, <3>3, <3>4 DEF Looping
        <2>3. CASE verdict = "refresh" /\ exhausted
            BY <1>6, <2>3 DEF Looping
        <2>4. CASE verdict = "refresh" /\ ~exhausted
            <3>1. status = 401 /\ ~refreshed
                BY <1>2, <2>4
            <3>2. /\ pc' = "authorize" /\ attempt' = attempt + 1
                  /\ rejections' = rejections + 1
                BY <1>6, <2>4, <3>1
            <3>3. refreshed' /\ ~ok' /\ error' = "None" /\ ~refused' /\ tokenFault' = "none"
                BY <1>6, <1>7, <2>4
            <3>4. rejections = 0
                BY <1>7, <3>1
            <3>5. attempt + 1 < MaxRetries
                BY <1>1, <2>4
            <3> QED BY <1>1, <3>2, <3>3, <3>4, <3>5 DEF Looping
        <2> QED BY <1>2, <2>1, <2>2, <2>3, <2>4
    <1>11. Fresh'
        BY <1>1, <1>2, <1>5, <1>6 DEF IInv, TypeOK, Fresh, Announce, NoStatus
    <1>12. Minted'
        BY <1>1, <1>2, <1>6 DEF IInv, Minted
    <1>13. Result'
        <2> SUFFICES ASSUME pc' = "idle" PROVE Result!2'
            BY DEF Result
        <2>1. (ok /\ streaming => announcedSize)'
            BY <1>6 DEF Announce, callVars
        <2>2. (ok \/ refused <=> error = "None")'
            BY <1>4, <1>6, <1>7, <1>8
        <2>3. (error \in {"Network", "Server", "RateLimited"} => attempt + 1 >= MaxRetries)'
            BY <1>1, <1>2, <1>4, <1>6, <1>7, <1>8
        <2>4. rejections' <= 2
            BY <1>6, <1>7
        <2>5. (error = "Authentication" /\ tokenFault = "none" => rejections = 2 /\ minted)'
            <3>1. error' = "Authentication" => verdict = "return" /\ status = 401
                BY <1>4, <1>6, <1>7, <1>8
            <3>2. error' = "Authentication" => refreshed
                BY <1>1, <1>2, <3>1
            <3>3. refreshed => minted
                BY DEF IInv, Minted
            <3> QED BY <1>6, <1>7, <3>1, <3>2, <3>3
        <2> QED BY <2>1, <2>2, <2>3, <2>4, <2>5 DEF Result
    <1> QED BY <1>9, <1>10, <1>11, <1>12, <1>13 DEF IInv

\* A reply that arrived whole ends an attempt.
LEMMA FinishedStep == IInv /\ Finished => IInv'
    BY SettleStep DEF Finished

\* A reply that broke off ends an attempt.
LEMMA BrokenStep == IInv /\ Broken => IInv'
    BY SettleStep DEF Broken

\* A stuttering step changes nothing the invariant speaks of.
LEMMA StutterStep == IInv /\ UNCHANGED vars => IInv'
    BY DEF IInv, TypeOK, Looping, Fresh, Minted, Result, vars, callVars, loopVars,
           answerVars, resultVars, history

\* The inductive invariant of the retry loop.
THEOREM Invariance == Spec => []IInv
    <1>1. IInv /\ [Next]_vars => IInv'
        BY CallStep, AuthorizeStep, TokenReplyStep, StatusLineStep, ChunkStep, FinishedStep,
           BrokenStep, ResumeStep, ExpireStep, StutterStep DEF Next
    <1> QED BY InitIInv, <1>1, PTL DEF Spec

\* Type correctness: in particular no loop of send() makes more than
\* MaxRetries attempts.
THEOREM TypeCorrect == Spec => []TypeOK
    <1>1. IInv => TypeOK
        BY DEF IInv
    <1> QED BY Invariance, <1>1, PTL

\* A retry never starts after data was handed to the job.
THEOREM NoReplay == Spec => []NeverReplayed
    <1>1. IInv => NeverReplayed
        BY DEF IInv, Fresh, NeverReplayed
    <1> QED BY Invariance, <1>1, PTL

\* onSize is called once, before onData and before success.
THEOREM AnnouncedOnce == Spec => []SizeAnnouncedOnce
    <1>1. IInv => SizeAnnouncedOnce
        BY DEF IInv, TypeOK, Fresh, Result, SizeAnnouncedOnce, Returned
    <1> QED BY Invariance, <1>1, PTL

\* A failure has a kind and a success has none.
THEOREM ResultIsConsistent == Spec => []ResultMatchesError
    <1>1. IInv => ResultMatchesError
        BY DEF IInv, Result, ResultMatchesError, Returned
    <1> QED BY Invariance, <1>1, PTL

\* A transient failure is reported only when every attempt was used.
THEOREM Exhausted == Spec => []TransientErrorsExhaustRetries
    <1>1. IInv => TransientErrorsExhaustRetries
        BY DEF IInv, Result, TransientErrorsExhaustRetries, Returned
    <1> QED BY Invariance, <1>1, PTL

\* A rejection is reported only after a newly minted token was rejected too.
THEOREM Confirmed == Spec => []RejectionIsConfirmed
    <1>1. IInv => RejectionIsConfirmed
        BY DEF IInv, TypeOK, Looping, Result, RejectionIsConfirmed, Returned
    <1> QED BY Invariance, <1>1, PTL

-----------------------------------------------------------------------------
(* The refinement. *)

\* A chunk is passed on and, before the first one, the size.
LEMMA ChunkRefines ==
    IInv /\ Chunk => \E n \in 1..MaxBody, more \in BOOLEAN : Abstract!Deliver(n, more)
    <1> SUFFICES ASSUME IInv, Chunk
                 PROVE  \E n \in 1..MaxBody, more \in BOOLEAN : Abstract!Deliver(n, more)
        OBVIOUS
    <1> USE MaxBodyAssumption
    <1>1. PICK n \in 1 .. size - arrived : arrived' = arrived + n /\ delivered' = delivered + n
        BY DEF Chunk
    <1>2. n \in 1..MaxBody /\ delivered + n <= MaxBody
        BY <1>1 DEF IInv, TypeOK, Fresh
    <1>3. announced' = 1
        BY DEF IInv, Fresh, Chunk, Announce
    <1>4. /\ pc = "wait" /\ streaming /\ pc' \in {"wait", "idle"}
          /\ UNCHANGED <<streaming, ok, error>>
        BY DEF Chunk, callVars, resultVars
    <1>5. Abstract!Deliver(n, pc' = "wait")
        BY <1>1, <1>2, <1>3, <1>4 DEF Abstract!Deliver
    <1> QED BY <1>2, <1>5

\* authorize() fails before anything was announced.
LEMMA UnauthorizedRefines ==
    ASSUME IInv, pc \in {"authorize", "refresh"}, NEW cause, Unauthorized(cause),
           UNCHANGED <<callVars, ok, delivered, announced>>
    PROVE  Abstract!Fail("Authentication")
    BY DEF IInv, Fresh, Unauthorized, callVars, Abstract!Fail

\* A step that stays inside the call, or outside of it, does not show.
LEMMA Hidden ==
    ASSUME pc' = "idle" <=> pc = "idle",
           UNCHANGED <<streaming, announced, delivered, ok, error>>
    PROVE  UNCHANGED Abstract!vars
    BY DEF Abstract!vars

\* The end of an attempt is a success, a failure, or nothing a caller sees.
LEMMA SettleRefines ==
    ASSUME IInv, pc = "wait", NEW cut \in BOOLEAN, cut \/ status # NoStatus, Settle(cut)
    PROVE  [Abstract!Next]_(Abstract!vars)
    <1> DEFINE failed == NetworkFailed(cut)
               verdict == Verdict(attempt, refreshed, status, failed)
               exhausted == verdict = "refresh" /\ attempt + 1 >= MaxRetries
               kind == KindOf(status, failed, summary)
    <1> USE MaxRetriesAssumption, MaxBodyAssumption, StatusesAssumption
    <1>1. /\ attempt \in Nat /\ status \in Nat
          /\ refreshed \in BOOLEAN /\ failed \in BOOLEAN
          /\ failed => status = NoStatus
        BY DEF IInv, TypeOK, Looping, NetworkFailed, NoStatus
    <1>2. /\ verdict \in {"refresh", "backoff", "return"}
          /\ verdict = "refresh" => status = 401
          /\ verdict = "backoff" => Retryable(status, failed)
          /\ kind \in Kinds \ {"None"}
        BY <1>1, VerdictFacts, KindFacts
    <1>3. Retryable(status, failed) => status # 200
        BY <1>1 DEF Retryable, NoStatus
    <1>4. /\ pc' = IF verdict = "backoff" THEN "pause"
                   ELSE IF verdict = "return" \/ exhausted THEN "idle"
                   ELSE "authorize"
          /\ IF status = 200 /\ streaming
                THEN Announce ELSE UNCHANGED <<announcedSize, announced>>
          /\ ok' = (verdict = "return" /\ status = 200)
          /\ error' = IF exhausted THEN ExhaustedError
                      ELSE IF verdict = "return" /\ status # 200 THEN kind ELSE error
          /\ UNCHANGED <<streaming, delivered>>
        BY DEF Settle, callVars
    <1>5. error = "None" /\ ~ok /\ ExhaustedError = "Network" /\ ok \in BOOLEAN
        BY DEF IInv, TypeOK, Looping, ExhaustedError
    <1>6. status # 200 => announced = 0 /\ announced' = 0
        BY <1>4 DEF IInv, Fresh
    <1> HIDE DEF failed, verdict, kind
    <1>7. CASE verdict = "return" /\ status = 200
        <2>1. announced' = IF streaming THEN 1 ELSE announced
            BY <1>4, <1>7 DEF IInv, Fresh, Announce
        <2>2. Abstract!Succeed
            BY <1>4, <1>7, <2>1 DEF Abstract!Succeed
        <2> QED BY <2>2 DEF Abstract!Next
    <1>8. CASE verdict = "return" /\ status # 200
        <2>1. Abstract!Fail(kind)
            BY <1>4, <1>5, <1>6, <1>8 DEF Abstract!Fail
        <2> QED BY <1>2, <2>1 DEF Abstract!Next
    <1>9. CASE exhausted
        <2>1. Abstract!Fail("Network")
            BY <1>2, <1>4, <1>5, <1>6, <1>9 DEF Abstract!Fail
        <2>2. "Network" \in Kinds \ {"None"}
            BY DEF Kinds
        <2> QED BY <2>1, <2>2 DEF Abstract!Next
    <1>10. CASE verdict # "return" /\ ~exhausted
        <2>1. status # 200
            BY <1>2, <1>3, <1>10
        <2>2. pc' # "idle" /\ UNCHANGED <<streaming, announced, delivered, ok, error>>
            BY <1>2, <1>4, <1>5, <1>6, <1>10, <2>1
        <2> QED BY <2>2, Hidden
    <1> QED BY <1>7, <1>8, <1>9, <1>10

\* Every step of the loop is a step of the abstract call, or does not show.
LEMMA StepRefines == IInv /\ [Next]_vars => [Abstract!Next]_(Abstract!vars)
    <1> SUFFICES ASSUME IInv, [Next]_vars PROVE [Abstract!Next]_(Abstract!vars)
        OBVIOUS
    <1>1. CASE Call
        <2>1. \E stream \in BOOLEAN : Abstract!Begin(stream)
            BY <1>1 DEF Call, Abstract!Begin
        <2> QED BY <2>1 DEF Abstract!Next
    <1>2. CASE Authorize \/ TokenReply
        <2>1. pc \in {"authorize", "refresh"} /\ UNCHANGED <<callVars, ok, delivered, announced>>
            BY <1>2 DEF Authorize, TokenReply
        <2>2. CASE \E cause \in TokenFaults : Unauthorized(cause)
            <3>1. Abstract!Fail("Authentication")
                BY <2>1, <2>2, UnauthorizedRefines
            <3>2. "Authentication" \in Kinds \ {"None"}
                BY DEF Kinds
            <3> QED BY <3>1, <3>2 DEF Abstract!Next
        <2>3. CASE pc' \in {"wait", "refresh"} /\ UNCHANGED error
            BY <2>1, <2>3, Hidden DEF callVars
        <2>4. \/ \E cause \in TokenFaults : Unauthorized(cause)
              \/ pc' \in {"wait", "refresh"} /\ UNCHANGED error
            BY <1>2 DEF Authorize, TokenReply, Post, TokenFaults
        <2> QED BY <2>2, <2>3, <2>4
    <1>3. CASE Chunk
        BY <1>3, ChunkRefines DEF Abstract!Next
    <1>4. CASE Finished
        BY <1>4, SettleRefines DEF Finished
    <1>5. CASE Broken
        BY <1>5, SettleRefines DEF Broken
    <1>6. CASE StatusLine \/ Resume \/ Expire \/ UNCHANGED vars
        <2>1. /\ pc' = "idle" <=> pc = "idle"
              /\ UNCHANGED <<streaming, announced, delivered, ok, error>>
            BY <1>6 DEF StatusLine, Resume, Expire, vars, callVars, resultVars, history
        <2> QED BY <2>1, Hidden
    <1> QED BY <1>1, <1>2, <1>3, <1>4, <1>5, <1>6 DEF Next

\* send() with its attempts, tokens and back-offs implements the call that the
\* operations of the worker rely on.
THEOREM Refinement == Spec => ImplementsApiCall
    <1>1. Init => Abstract!Init
        BY DEF Init, Abstract!Init
    <1> QED BY <1>1, StepRefines, Invariance, PTL DEF Spec, ImplementsApiCall, Abstract!Spec

-----------------------------------------------------------------------------
(* How long a call may take. *)

\* The steps that are left at most until the next attempt begins or the call returns:
\* a token, the request, its status line, and a step for each byte of the body.
Stage ==
    CASE pc = "idle" -> 0
      [] pc = "pause" -> 1
      [] pc = "wait" /\ status # NoStatus -> 2 + (size - arrived)
      [] pc = "wait" /\ status = NoStatus -> MaxBody + 3
      [] pc = "refresh" -> MaxBody + 4
      [] pc = "authorize" -> MaxBody + 5

\* There are some unless the call has returned.
LEMMA StageType ==
    ASSUME TypeOK
    PROVE  Stage \in 0 .. MaxBody + 5 /\ (Stage = 0 <=> pc = "idle")
    <1>1. /\ pc \in {"idle", "authorize", "refresh", "wait", "pause"}
          /\ MaxBody \in Nat /\ size \in 0..MaxBody /\ arrived \in 0..size
        BY MaxBodyAssumption DEF TypeOK
    <1>2. size - arrived \in 0..MaxBody
        BY <1>1
    <1>3. /\ pc = "idle" => Stage = 0
          /\ pc = "pause" => Stage = 1
          /\ pc = "wait" /\ status # NoStatus => Stage = 2 + (size - arrived)
          /\ pc = "wait" /\ status = NoStatus => Stage = MaxBody + 3
          /\ pc = "refresh" => Stage = MaxBody + 4
          /\ pc = "authorize" => Stage = MaxBody + 5
        BY DEF Stage
    <1> QED BY <1>1, <1>2, <1>3

\* After an attempt there is a pause, an end or another attempt.
LEMMA SettleIsNearer ==
    ASSUME IInv, pc = "wait", NEW cut \in BOOLEAN, Settle(cut)
    PROVE  attempt' > attempt \/ (attempt' = attempt /\ Stage' < Stage)
    <1> DEFINE verdict == Verdict(attempt, refreshed, status, NetworkFailed(cut))
               exhausted == verdict = "refresh" /\ attempt + 1 >= MaxRetries
    <1>1. attempt \in Nat /\ status \in Nat /\ refreshed \in BOOLEAN
          /\ NetworkFailed(cut) \in BOOLEAN
        BY StatusesAssumption, MaxRetriesAssumption DEF IInv, TypeOK, NetworkFailed, NoStatus
    <1>2. verdict \in {"refresh", "backoff", "return"}
        BY <1>1, VerdictFacts
    <1>3. /\ pc' = IF verdict = "backoff" THEN "pause"
                   ELSE IF verdict = "return" \/ exhausted THEN "idle" ELSE "authorize"
          /\ IF verdict = "refresh" THEN attempt' = attempt + 1 ELSE attempt' = attempt
        BY DEF Settle
    <1> HIDE DEF verdict, exhausted
    <1>4. CASE verdict = "refresh"
        BY <1>1, <1>3, <1>4
    <1>5. CASE verdict # "refresh"
        <2>1. attempt' = attempt /\ pc' \in {"pause", "idle"}
            BY <1>2, <1>3, <1>5
        <2>2. Stage' \in {0, 1}
            BY <2>1 DEF Stage
        <2>3. Stage > 1
            <3>1. MaxBody \in Nat /\ size \in 0..MaxBody /\ arrived \in 0..size
                BY MaxBodyAssumption DEF IInv, TypeOK
            <3>2. CASE status = NoStatus
                <4>1. Stage = MaxBody + 3
                    BY <3>2 DEF Stage
                <4> QED BY <3>1, <4>1
            <3>3. CASE status # NoStatus
                <4>1. Stage = 2 + (size - arrived)
                    BY <3>3 DEF Stage
                <4> QED BY <3>1, <4>1
            <3> QED BY <3>2, <3>3
        <2> QED BY <2>1, <2>2, <2>3, StageType DEF IInv
    <1> QED BY <1>4, <1>5

\* Each step of a call begins another attempt, or is one step less.
LEMMA StepIsNearer ==
    ASSUME IInv, Authorize \/ TokenReply \/ StatusLine \/ Chunk \/ Finished \/ Broken \/ Resume
    PROVE  attempt' > attempt \/ (attempt' = attempt /\ Stage' < Stage)
    <1>1. /\ attempt \in Nat /\ MaxBody \in Nat /\ size \in 0..MaxBody /\ arrived \in 0..size
          /\ NoStatus \notin Statuses
        <2>1. NoStatus \notin Statuses
            BY StatusesAssumption
        <2> QED BY <2>1, MaxBodyAssumption, MaxRetriesAssumption DEF IInv, TypeOK
    <1>2. pc' = "idle" => Stage' = 0
        BY DEF Stage
    <1>3. pc' = "wait" /\ status' = NoStatus => Stage' = MaxBody + 3
        BY DEF Stage
    <1>4. CASE Authorize \/ TokenReply
        <2>1. /\ pc \in {"authorize", "refresh"} /\ attempt' = attempt
              /\ \/ pc' = "wait" /\ status' = NoStatus
                 \/ pc' = "idle"
                 \/ pc = "authorize" /\ pc' = "refresh"
            BY <1>4 DEF Authorize, TokenReply, Post, FreshAttempt, Unauthorized, loopVars
        <2>2. /\ pc = "authorize" => Stage = MaxBody + 5
              /\ pc = "refresh" => Stage = MaxBody + 4
              /\ pc' = "refresh" => Stage' = MaxBody + 4
            BY DEF Stage
        <2> QED BY <1>1, <1>2, <1>3, <2>1, <2>2
    <1>5. CASE StatusLine
        <2>1. /\ pc = "wait" /\ status = NoStatus /\ pc' = "wait" /\ status' # NoStatus
              /\ size' \in 0..MaxBody /\ arrived' = arrived /\ attempt' = attempt
            BY <1>1, <1>5 DEF StatusLine, loopVars
        <2>2. Stage = MaxBody + 3 /\ Stage' = 2 + (size' - arrived')
            BY <2>1 DEF Stage
        <2>3. arrived \in Nat
            BY <1>1
        <2>4. ASSUME NEW s \in 0..MaxBody, NEW a \in Nat
              PROVE  2 + (s - a) < MaxBody + 3
            BY <1>1
        <2>5. Stage' < Stage
            BY <2>1, <2>2, <2>3, <2>4
        <2> QED BY <2>1, <2>5
    <1>6. CASE Chunk
        <2>1. /\ pc = "wait" /\ status = 200 /\ pc' \in {"wait", "idle"}
              /\ UNCHANGED <<status, size, attempt>>
            BY <1>6 DEF Chunk, loopVars
        <2>2. PICK n \in 1 .. size - arrived : arrived' = arrived + n
            BY <1>6 DEF Chunk
        <2>3. /\ Stage = 2 + (size - arrived)
              /\ pc' = "wait" => Stage' = 2 + (size - arrived')
            BY <2>1 DEF Stage, NoStatus
        <2> QED BY <1>1, <1>2, <2>1, <2>2, <2>3
    <1>7. CASE Finished
        BY <1>7, SettleIsNearer DEF Finished
    <1>8. CASE Broken
        BY <1>8, SettleIsNearer DEF Broken
    <1>9. CASE Resume
        BY <1>1, <1>9 DEF Resume
    <1> QED BY <1>4, <1>5, <1>6, <1>7, <1>8, <1>9

\* No call goes on for ever: whatever is answered, each of its steps begins another of
\* the MaxRetries attempts, or is one of a number that only the length of a body bounds;
\* a token that runs out meanwhile adds none. That a call makes these steps is what
\* CallReturns assumes fairness for.
THEOREM CallIsBounded ==
    Spec => /\ [](attempt \in 0..MaxRetries /\ Stage \in 0 .. MaxBody + 5)
            /\ [](Stage = 0 <=> pc = "idle")
            /\ [][\/ Call
                  \/ attempt' > attempt
                  \/ attempt' = attempt /\ Stage' < Stage
                  \/ attempt' = attempt /\ Stage' = Stage /\ Expire]_vars
    <1>1. IInv => /\ attempt \in 0..MaxRetries /\ Stage \in 0 .. MaxBody + 5
                  /\ Stage = 0 <=> pc = "idle"
        <2>1. TypeOK => attempt \in 0..MaxRetries
            BY DEF TypeOK
        <2> QED BY <2>1, StageType DEF IInv
    <1>2. IInv /\ [Next]_vars => [\/ Call
                                  \/ attempt' > attempt
                                  \/ attempt' = attempt /\ Stage' < Stage
                                  \/ attempt' = attempt /\ Stage' = Stage /\ Expire]_vars
        <2> SUFFICES ASSUME IInv, Next, ~Call
                     PROVE  \/ attempt' > attempt
                            \/ attempt' = attempt /\ Stage' < Stage
                            \/ attempt' = attempt /\ Stage' = Stage /\ Expire
            OBVIOUS
        <2>1. CASE Expire
            <3>1. UNCHANGED <<pc, attempt, status, size, arrived>>
                BY <2>1 DEF Expire, loopVars, answerVars
            <3>2. Stage' = Stage
                BY <3>1 DEF Stage
            <3> QED BY <2>1, <3>1, <3>2
        <2>2. CASE ~Expire
            BY <2>2, StepIsNearer DEF Next
        <2> QED BY <2>1, <2>2
    <1> QED BY <1>1, <1>2, Invariance, PTL DEF Spec
==============================================================================
