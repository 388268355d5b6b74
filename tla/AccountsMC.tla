----------------------------- MODULE AccountsMC -----------------------------
(***************************************************************************)
(* Accounts on a small instance.                                           *)
(***************************************************************************)
EXTENDS Accounts, TLC

CONSTANTS r1, r2, s1, s2, s3, p1, p2, ann, bob

TwoRequests == {r1, r2}
TwoSlots == {s1, s2}
ThreeSlots == {s1, s2, s3}
TwoPasswords == {p1, p2}
OneName == {ann}
TwoNames == {ann, bob}
Symmetry == Permutations(Requests) \cup Permutations(Slots)
=============================================================================
