--------------------------- MODULE AssetRetention ---------------------------
(***************************************************************************)
(* What the asset store promises to everything that names an asset: a      *)
(* canvas, a checkpoint or a community post may claim an asset that is     *)
(* kept, and an asset that is claimed stays kept.                          *)
(***************************************************************************)
CONSTANTS
    Assets,
    Claimants       \* whatever may name an asset

VARIABLES
    kept,           \* assets that can be read
    claims          \* pairs of a claimant and the asset it names

Init == kept = {} /\ claims = {}

Claimed(C) == {c[2] : c \in C}

\* An asset becomes readable.
Keep(a) ==
    /\ kept' = kept \cup {a}
    /\ UNCHANGED claims

\* One transaction may end some claims and make others.
Claim ==
    /\ claims' \subseteq Claimants \X Assets
    /\ Claimed(claims' \ claims) \subseteq kept
    /\ UNCHANGED kept

Drop(a) ==
    /\ a \notin Claimed(claims)
    /\ kept' = kept \ {a}
    /\ UNCHANGED claims

Next == Claim \/ \E a \in Assets : Keep(a) \/ Drop(a)

Spec == Init /\ [][Next]_<<kept, claims>>
=============================================================================
