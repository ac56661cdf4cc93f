--------------------------- MODULE DropboxRequest ----------------------------
(***************************************************************************)
(* One DropboxApi making one call after another: DropboxApi::send() with   *)
(* authorize(), DropboxAccount::accessToken() and invalidateAccessToken(). *)
(* A call is an rpc/upload (the body is only read at the end) or a          *)
(* streaming download (onSize and onData are called as the body arrives).   *)
(*                                                                         *)
(* The server and the network are adversarial: any status may be answered  *)
(* at any attempt, a connection may break or its timer run out at any      *)
(* moment, before the status line or in the middle of the body, and the    *)
(* cached access token may run out between any two steps.                  *)
(***************************************************************************)
EXTENDS RequestPolicy

CONSTANTS MaxBody,      \* bound on the length of a downloaded body
          Statuses,     \* the HTTP statuses the API may answer
          Summaries     \* the error summaries a refusal may carry

ASSUME MaxBodyAssumption == MaxBody \in Nat
ASSUME StatusesAssumption == Statuses \subseteq Nat \ {NoStatus}
ASSUME SummariesAssumption == {} \in Summaries

VARIABLES
    pc,         \* "idle", "authorize", "refresh", "wait", "pause"
    streaming,  \* the call is a download: onSize and onData were given
    linked,     \* DropboxAccount::isConfigured()
    token,      \* m_accessToken with its expiry: "none", "usable", "expired"
    attempt,    \* the loop counter of send()
    refreshed,  \* the flag of the same name in send()
    status,     \* status line of the attempt under way, NoStatus before it
    summary,    \* words of the error summary that came with it
    size,       \* length of the body the server is sending
    arrived,    \* bytes of that body passed to onData
    announcedSize,  \* the attempt's flag of the same name
    ok,         \* what the last call returned
    error,      \* the kind in its DropboxError
    delivered,  \* history: bytes passed to onData in this call
    announced,  \* history: calls of onSize in this call
    rejections, \* history: 401 answers in this call
    minted,     \* history: the token endpoint gave this call a token
    refused,    \* history: onData returned FALSE
    tokenFault  \* history: why accessToken() came back empty, if it did

callVars == <<streaming, linked>>
loopVars == <<attempt, refreshed>>
answerVars == <<status, summary, size, arrived, announcedSize>>
resultVars == <<ok, error>>
history == <<delivered, announced, rejections, minted, refused, tokenFault>>
vars == <<pc, callVars, token, loopVars, answerVars, resultVars, history>>

TokenFaults == {"none", "unlinked", "empty", "rejected", "unreachable"}

\* Every variable has its type, and no loop runs past MaxRetries.
TypeOK ==
    /\ pc \in {"idle", "authorize", "refresh", "wait", "pause"}
    /\ streaming \in BOOLEAN /\ linked \in BOOLEAN
    /\ token \in {"none", "usable", "expired"}
    /\ attempt \in 0..MaxRetries /\ refreshed \in BOOLEAN
    /\ status \in Statuses \cup {NoStatus}
    /\ summary \in Summaries
    /\ size \in 0..MaxBody /\ arrived \in 0..size
    /\ announcedSize \in BOOLEAN
    /\ ok \in BOOLEAN /\ error \in Kinds
    /\ delivered \in Nat /\ announced \in Nat /\ rejections \in Nat
    /\ minted \in BOOLEAN /\ refused \in BOOLEAN
    /\ tokenFault \in TokenFaults

-----------------------------------------------------------------------------
\* m_accessToken is whatever loadCachedAccessToken() found.
Init ==
    /\ pc = "idle"
    /\ streaming = FALSE /\ linked = TRUE
    /\ token \in {"none", "usable", "expired"}
    /\ attempt = 0 /\ refreshed = FALSE
    /\ status = NoStatus /\ summary = {} /\ size = 0
    /\ arrived = 0 /\ announcedSize = FALSE
    /\ ok = TRUE /\ error = "None"
    /\ delivered = 0 /\ announced = 0 /\ rejections = 0
    /\ minted = FALSE /\ refused = FALSE /\ tokenFault = "none"

\* The locals an attempt starts with.
FreshAttempt ==
    /\ status' = NoStatus /\ summary' = {} /\ size' = 0
    /\ arrived' = 0 /\ announcedSize' = FALSE

\* rpc(), contentUpload() or download() enters send() with a fresh error.
Call ==
    /\ pc = "idle"
    /\ pc' = "authorize"
    /\ streaming' \in BOOLEAN /\ linked' \in BOOLEAN
    /\ attempt' = 0 /\ refreshed' = FALSE
    /\ FreshAttempt
    /\ ok' = FALSE /\ error' = "None"
    /\ delivered' = 0 /\ announced' = 0 /\ rejections' = 0
    /\ minted' = FALSE /\ refused' = FALSE /\ tokenFault' = "none"
    /\ UNCHANGED token

\* authorize() succeeded: the request is posted and the event loop entered.
Post ==
    /\ pc' = "wait"
    /\ FreshAttempt
    /\ UNCHANGED <<error, tokenFault>>

\* authorize() failed: send() returns without consulting the retry policy.
Unauthorized(cause) ==
    /\ pc' = "idle"
    /\ error' = "Authentication"
    /\ tokenFault' = cause
    /\ UNCHANGED answerVars

\* authorize() asks for a token: the cached one if it is good for another
\* minute, else a new one from the token endpoint.
Authorize ==
    /\ pc = "authorize"
    /\ \/ token = "usable" /\ Post
       \/ token # "usable" /\ ~linked /\ Unauthorized("unlinked")
       \/ /\ token # "usable" /\ linked
          /\ pc' = "refresh"
          /\ UNCHANGED <<answerVars, error, tokenFault>>
    /\ UNCHANGED <<callVars, token, loopVars, ok, delivered, announced, rejections,
                   minted, refused>>

\* The token endpoint answered, or its 30 s timer aborted the reply. An answer
\* other than 200 leaves the old token in place, expired as it is.
TokenReply ==
    /\ pc = "refresh"
    /\ \/ token' = "usable" /\ minted' = TRUE /\ Post
       \/ token' = "none" /\ Unauthorized("empty") /\ UNCHANGED minted
       \/ \E cause \in {"rejected", "unreachable"} :
             UNCHANGED <<token, minted>> /\ Unauthorized(cause)
    /\ UNCHANGED <<callVars, loopVars, ok, delivered, announced, rejections, refused>>

\* The status line and the headers of the reply arrive.
StatusLine ==
    /\ pc = "wait" /\ status = NoStatus
    /\ status' \in Statuses
    /\ summary' \in IF status' = 200 THEN {{}} ELSE Summaries
    /\ size' \in IF status' = 200 /\ streaming THEN 0..MaxBody ELSE {0}
    /\ UNCHANGED <<pc, callVars, token, loopVars, arrived, announcedSize,
                   resultVars, history>>

\* Variant: the flag is not consulted, every chunk announces the size.
AnnounceAlways ==
    /\ announcedSize' = TRUE
    /\ announced' = announced + 1

\* onSize is called unless this attempt called it already.
Announce ==
    /\ announcedSize' = TRUE
    /\ announced' = announced + IF announcedSize THEN 0 ELSE 1

\* The readyRead handler of a download: the size first, then the chunk.
\* If onData returns FALSE the reply is aborted and send() returns at once.
Chunk ==
    /\ pc = "wait" /\ streaming /\ status = 200
    /\ Announce
    /\ \E n \in 1 .. size - arrived :
          arrived' = arrived + n /\ delivered' = delivered + n
    /\ \/ UNCHANGED <<pc, refused>>
       \/ pc' = "idle" /\ refused' = TRUE
    /\ UNCHANGED <<callVars, token, loopVars, status, summary, size, resultVars,
                   rejections, minted, tokenFault>>

\* Variant: a body that was cut off is treated as a network failure too.
NetworkFailedMidBody(cut) == cut

\* The reply ended in an error and no status line was ever read.
NetworkFailed(cut) == cut /\ status = NoStatus

\* Variant: nothing is reported when the attempts are used up.
ExhaustedErrorUnset == error

\* The statement after the loop.
ExhaustedError == IF error = "None" THEN "Network" ELSE error

\* Variant: the rejected token is kept.
InvalidateNothing == UNCHANGED token

\* invalidateAccessToken()
Invalidate == token' = "none"

\* The code after loop.exec(): report, or refresh or back off and go round.
\* `continue` on the last attempt leaves the loop.
Settle(cut) ==
    LET failed == NetworkFailed(cut)
        verdict == Verdict(attempt, refreshed, status, failed)
        exhausted == verdict = "refresh" /\ attempt + 1 >= MaxRetries
    IN  /\ pc' = IF verdict = "backoff" THEN "pause"
                 ELSE IF verdict = "return" \/ exhausted THEN "idle"
                 ELSE "authorize"
        /\ IF status = 200 /\ streaming
              THEN Announce ELSE UNCHANGED <<announcedSize, announced>>
        /\ refreshed' = (refreshed \/ verdict = "refresh")
        /\ IF verdict = "refresh"
              THEN Invalidate /\ attempt' = attempt + 1
              ELSE UNCHANGED <<token, attempt>>
        /\ rejections' = rejections + IF status = 401 THEN 1 ELSE 0
        /\ ok' = (verdict = "return" /\ status = 200)
        /\ error' = IF exhausted THEN ExhaustedError
                    ELSE IF verdict = "return" /\ status # 200
                         THEN KindOf(status, failed, summary)
                    ELSE error
        /\ UNCHANGED <<callVars, status, summary, size, arrived, delivered, minted,
                       refused, tokenFault>>

\* The reply finished with its whole body.
Finished ==
    /\ pc = "wait" /\ status # NoStatus
    /\ arrived = size
    /\ Settle(FALSE)

\* The connection broke, or 120 s passed without progress and the timer
\* aborted the reply: finished() is emitted with whatever arrived until then.
Broken ==
    /\ pc = "wait"
    /\ Settle(TRUE)

\* Variant: the attempt is not counted.
ResumeUncounted ==
    /\ pc = "pause"
    /\ pc' = "authorize"
    /\ UNCHANGED <<callVars, token, loopVars, answerVars, resultVars, history>>

\* pause() returned: the loop goes round.
Resume ==
    /\ pc = "pause"
    /\ pc' = "authorize"
    /\ attempt' = attempt + 1
    /\ UNCHANGED <<callVars, token, refreshed, answerVars, resultVars, history>>

\* The token comes within a minute of its expiry.
Expire ==
    /\ token = "usable"
    /\ token' = "expired"
    /\ UNCHANGED <<pc, callVars, loopVars, answerVars, resultVars, history>>

Next == \/ Call \/ Authorize \/ TokenReply \/ StatusLine \/ Chunk
        \/ Finished \/ Broken \/ Resume \/ Expire

Spec == Init /\ [][Next]_vars

\* The timers of send(), waitFor() and pause() run out if nothing else happens.
Fairness ==
    /\ WF_vars(Authorize) /\ WF_vars(TokenReply)
    /\ WF_vars(Broken) /\ WF_vars(Resume)

FairSpec == Spec /\ Fairness

-----------------------------------------------------------------------------
\* A call is over.
Returned == pc = "idle"

\* No byte of a download is ever passed to onData twice: whatever was handed
\* to the job is a prefix of the body of the attempt under way, so a retry
\* never starts after data has been delivered.
NeverReplayed == delivered = arrived

\* onSize is called at most once, before the first onData and before a
\* download returns successfully (the contract of download(), which the
\* zero-byte case of send() exists for).
SizeAnnouncedOnce ==
    /\ announced <= 1
    /\ delivered > 0 => announced = 1
    /\ Returned /\ ok /\ streaming => announced = 1

\* A call that fails says why, unless the caller stopped it, and one that
\* succeeds leaves no error behind: the worker turns kind None into KIO error 0.
ResultMatchesError == Returned => (ok \/ refused <=> error = "None")

\* An error that a retry might have cured is only reported when every attempt
\* was used ("after we ran out of retries").
TransientErrorsExhaustRetries ==
    Returned /\ error \in {"Network", "Server", "RateLimited"}
        => attempt + 1 >= MaxRetries

\* A rejected access token is only the caller's business once a token that this
\* very call got from the token endpoint was rejected as well.
RejectionIsConfirmed ==
    /\ rejections <= 2
    /\ Returned /\ error = "Authentication" /\ tokenFault = "none"
          => rejections = 2 /\ minted

\* Every call returns, whatever the network does.
CallReturns == (pc # "idle") ~> (pc = "idle")

Abstract == INSTANCE ApiCall
    WITH phase <- IF pc = "idle" THEN "idle" ELSE "running",
         Failures <- Kinds \ {"None"}

\* Attempts, tokens and back-offs do not show: a caller sees a call that hands
\* over one body, at most once, and fails only before it has begun to.
ImplementsApiCall == Abstract!Spec

\* "Network, //!< could not reach Dropbox, or the request timed out": a download
\* that returns success passed the whole body on, one that broke off or timed
\* out half-way is an error.
SuccessIsWhole == Returned /\ ok => arrived = size
==============================================================================
