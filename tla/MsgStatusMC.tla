---------------------------- MODULE MsgStatusMC ----------------------------
(***************************************************************************)
(* MsgStatus on a small instance.                                          *)
(***************************************************************************)
EXTENDS MsgStatus, TLC

CONSTANTS r1, r2, ann, bob, m1, m2

TwoRequests == {r1, r2}
OneUser == {ann}
TwoUsers == {ann, bob}
TwoMessages == {m1, m2}
Symmetry == Permutations(Requests) \cup Permutations(Users)
                \cup Permutations(Messages)
=============================================================================
