----------------------------- MODULE MCCredits -----------------------------
(* A small instance of Credits for TLC. *)
EXTENDS Credits, TLC

CONSTANTS u1, u2, c1, c2, b1

\* Two codes of one batch, so that redeemed_count and the key index matter.
OneBatch == (c1 :> b1) @@ (c2 :> b1)
TwoCredits == (b1 :> 2)
UpAndDown == {1, -2}

Symmetric == Permutations({u1, u2}) \cup Permutations({c1, c2})
=============================================================================
