---------------------------- MODULE RequestPolicy ----------------------------
(***************************************************************************)
(* What DropboxApi::send() decides once an attempt has ended, and how      *)
(* DropboxApi::errorFromResponse() names a failure: operators without       *)
(* state, shared by every module that issues requests.                     *)
(*                                                                         *)
(* A response is abstracted to its HTTP status, 0 when no status line ever  *)
(* arrived, the networkFailed flag of the code, and the set of words its    *)
(* error_summary contains.                                                 *)
(***************************************************************************)
EXTENDS Naturals

CONSTANT MaxRetries     \* attempts per call, the first one included

ASSUME MaxRetriesAssumption == MaxRetries \in Nat \ {0}

NoStatus == 0

\* A failure that is worth another attempt: 429, 5xx, or no answer at all.
Retryable(status, networkFailed) ==
    status = 429 \/ status >= 500 \/ networkFailed

\* Variant: a retryable failure is always tried again.
VerdictUnbounded(attempt, refreshed, status, networkFailed) ==
    IF status = 401 /\ ~refreshed THEN "refresh"
    ELSE IF Retryable(status, networkFailed) THEN "backoff"
    ELSE "return"

\* Variant: off by one, the last attempt is never made.
VerdictOneShort(attempt, refreshed, status, networkFailed) ==
    IF status = 401 /\ ~refreshed THEN "refresh"
    ELSE IF Retryable(status, networkFailed) /\ attempt + 2 < MaxRetries
         THEN "backoff"
    ELSE "return"

\* What send() does with a finished attempt: throw the token away and go
\* round once, back off and go round, or hand the status to the caller.
Verdict(attempt, refreshed, status, networkFailed) ==
    IF status = 401 /\ ~refreshed THEN "refresh"
    ELSE IF Retryable(status, networkFailed) /\ attempt + 1 < MaxRetries
         THEN "backoff"
    ELSE "return"

Kinds == {"None", "Network", "Authentication", "NotFound", "AlreadyExists",
          "AccessDenied", "InsufficientSpace", "InvalidPath", "RateLimited",
          "Server", "Unknown"}

\* The words errorFromResponse() looks for, in the order it looks for them:
\* a summary may contain several, as "path/conflict/not_found/" does.
SummaryKind(summary) ==
    IF "not_found" \in summary THEN "NotFound"
    ELSE IF "conflict" \in summary THEN "AlreadyExists"
    ELSE IF "insufficient_space" \in summary THEN "InsufficientSpace"
    ELSE IF summary \cap {"malformed_path", "disallowed_name"} # {}
         THEN "InvalidPath"
    ELSE IF summary \cap {"no_write_permission", "team_folder",
                          "restricted_content"} # {}
         THEN "AccessDenied"
    ELSE "Unknown"

KindOf(status, networkFailed, summary) ==
    IF networkFailed THEN "Network"
    ELSE IF status = 401 THEN "Authentication"
    ELSE IF status = 403 THEN "AccessDenied"
    ELSE IF status = 429 THEN "RateLimited"
    ELSE IF status >= 500 THEN "Server"
    ELSE SummaryKind(summary)
==============================================================================
