------------------------- MODULE RequestPolicyProofs -------------------------
(***************************************************************************)
(* What the retry policy guarantees whatever the arguments: the facts the  *)
(* proofs about DropboxRequest, Upload, FileOps, Listing and Reading rest   *)
(* on.                                                                     *)
(***************************************************************************)
EXTENDS RequestPolicy, TLAPS

\* The verdict names a next step, and gives up on a retryable failure only on
\* the last attempt and on a 401 only when one was seen before.
LEMMA VerdictFacts ==
    ASSUME NEW n \in Nat, NEW r \in BOOLEAN, NEW s \in Nat, NEW f \in BOOLEAN
    PROVE  /\ Verdict(n, r, s, f) \in {"refresh", "backoff", "return"}
           /\ Verdict(n, r, s, f) = "refresh" <=> s = 401 /\ ~r
           /\ Verdict(n, r, s, f) = "backoff" => n + 1 < MaxRetries /\ Retryable(s, f)
           /\ Verdict(n, r, s, f) = "return" /\ Retryable(s, f) => n + 1 >= MaxRetries
    <1>1. CASE s = 401 /\ ~r
        BY <1>1 DEF Verdict
    <1>2. CASE ~(s = 401 /\ ~r) /\ Retryable(s, f) /\ n + 1 < MaxRetries
        BY <1>2 DEF Verdict
    <1>3. CASE ~(s = 401 /\ ~r) /\ ~(Retryable(s, f) /\ n + 1 < MaxRetries)
        BY <1>3, MaxRetriesAssumption DEF Verdict
    <1> QED BY <1>1, <1>2, <1>3

\* A failure always has a kind, and the kinds of transient failures are only
\* given to statuses that are retried.
LEMMA KindFacts ==
    ASSUME NEW s \in Nat, NEW f \in BOOLEAN, NEW w
    PROVE  /\ KindOf(s, f, w) \in Kinds \ {"None"}
           /\ KindOf(s, f, w) \in {"Network", "Server", "RateLimited"} => Retryable(s, f)
           /\ KindOf(s, f, w) = "Authentication" => s = 401
    <1>1. SummaryKind(w) \in {"NotFound", "AlreadyExists", "InsufficientSpace",
                              "InvalidPath", "AccessDenied", "Unknown"}
        BY DEF SummaryKind
    <1> QED BY <1>1 DEF KindOf, Kinds, Retryable
==============================================================================
