------------------------------- MODULE ApiCall -------------------------------
(***************************************************************************)
(* What the callers of DropboxApi rely on: "access-token refresh,          *)
(* rate-limit backoff and 5xx retries are handled here so callers only see  *)
(* final outcomes". A call runs, hands over the data of a download as it    *)
(* comes, and ends once, with success or with one kind of error.            *)
(*                                                                         *)
(* DropboxRequest implements this; the operations of the worker that only   *)
(* read are modelled on top of it.                                          *)
(***************************************************************************)
EXTENDS Naturals

CONSTANTS MaxBody,      \* bound on the length of a downloaded body
          Failures      \* the kinds of error a call may end in

VARIABLES
    phase,      \* "idle" or "running"
    streaming,  \* the call is a download
    announced,  \* calls of onSize
    delivered,  \* bytes passed to onData
    ok, error   \* what the last call returned

vars == <<phase, streaming, announced, delivered, ok, error>>

Init ==
    /\ phase = "idle" /\ streaming = FALSE
    /\ announced = 0 /\ delivered = 0
    /\ ok = TRUE /\ error = "None"

Begin(stream) ==
    /\ phase = "idle" /\ phase' = "running"
    /\ streaming' = stream
    /\ announced' = 0 /\ delivered' = 0
    /\ ok' = FALSE /\ error' = "None"

\* A chunk is passed to onData, and before the first one its size to onSize. If
\* onData wants no more the call is over, without an error of its own.
Deliver(n, more) ==
    /\ phase = "running" /\ streaming
    /\ delivered + n <= MaxBody
    /\ announced' = 1 /\ delivered' = delivered + n
    /\ phase' = IF more THEN "running" ELSE "idle"
    /\ UNCHANGED <<streaming, ok, error>>

\* The size is announced even of a download without a byte.
Succeed ==
    /\ phase = "running" /\ phase' = "idle"
    /\ ok' = TRUE
    /\ announced' = IF streaming THEN 1 ELSE announced
    /\ UNCHANGED <<streaming, delivered, error>>

\* A call only fails while nothing was announced.
Fail(kind) ==
    /\ phase = "running" /\ phase' = "idle"
    /\ announced = 0
    /\ error' = kind
    /\ UNCHANGED <<streaming, announced, delivered, ok>>

Next ==
    \/ \E stream \in BOOLEAN : Begin(stream)
    \/ \E n \in 1..MaxBody, more \in BOOLEAN : Deliver(n, more)
    \/ Succeed
    \/ \E kind \in Failures : Fail(kind)

Spec == Init /\ [][Next]_vars
==============================================================================
