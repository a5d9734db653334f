----------------------------- MODULE MCAccounts -----------------------------
(* Two logins of an account from two browsers, and two runs of the maintenance. *)
EXTENDS Accounts

CONSTANTS l1, l2, d1, d2, r1, r2, f1, f2

LoginsDef == {l1, l2}
DevicesDef == {d1, d2}
DeviceDef == [l \in LoginsDef |-> IF l = l2 THEN d2 ELSE d1]
RunsDef == {r1, r2}
FilesDef == {f1, f2}

=============================================================================
