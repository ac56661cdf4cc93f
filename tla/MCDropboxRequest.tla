-------------------------- MODULE MCDropboxRequest ---------------------------
(* Finite instance of DropboxRequest. *)
EXTENDS DropboxRequest

\* One status of each class send() and errorFromResponse() tell apart.
MCStatuses == {200, 401, 403, 409, 429, 503}

\* No summary, one word, and two words at once as for a missing parent.
MCSummaries == {{}, {"conflict"}, {"conflict", "not_found"}}
==============================================================================
