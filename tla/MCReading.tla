------------------------------ MODULE MCReading ------------------------------
(***************************************************************************)
(* Finite instance of Reading: the root and an entry, each written with     *)
(* and without slashes around it, and another name; accounts with room,     *)
(* without, over their quota, in a team, and without an allocation.         *)
(***************************************************************************)
EXTENDS Reading

MCSpot == <<"/", "n">>

MCUrls == {<<>>, <<"/">>, <<"n", "/">>, <<"/", "n">>, <<"/", "n", "/", "/">>, <<"m">>}

MCQuotas == [used: {1, 3}, individual: {2}, team: {0}]
                \cup [used: {1}, individual: {0}, team: {0, 1}]
==============================================================================
