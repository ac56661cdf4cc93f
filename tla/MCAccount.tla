------------------------------ MODULE MCAccount ------------------------------
(***************************************************************************)
(* Account for TLC. Accounts are only told apart, never named, so they may  *)
(* be permuted; keys may not, one of them is built in.                      *)
(***************************************************************************)
EXTENDS Account, TLC

AccountSymmetry == Permutations(Accounts)
AccountSetupSymmetry == AccountSymmetry \cup Permutations(Setups)

\* Handlers ran in the loops in which calls of the widget wait.
Reentered(s) == \E i \in DOMAIN calls[s] : calls[s][i].code = None

\* Bound: then no other process runs.
ReenteredAlone == \A s \in Setups : Reentered(s) => \A q \in Processes \ {s} : pc[q] = "off"

\* Bound: nor while the link is torn does a worker.
TornAlone == link = Torn => \A w \in Workers : pc[w] = "off"

\* Bound: no access token gets into the cache.
Uncached == cache = None
==============================================================================
