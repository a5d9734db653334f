------------------------ MODULE MCOfficialGeneration ------------------------
(* Small instances of OfficialGeneration for TLC. *)
EXTENDS OfficialGeneration, TLC

CONSTANTS u1, t1, t2, w1, w2, a1

\* One user submits both tasks, so that they compete for one balance.
OneOwner == (t1 :> u1) @@ (t2 :> u1)
NoBatch == <<>>
OneGrant == {4}

Symmetric == Permutations({w1, w2}) \cup Permutations({t1, t2})
=============================================================================
