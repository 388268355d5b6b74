----------------------------- MODULE SessionsMC -----------------------------
(***************************************************************************)
(* Sessions on a small instance.                                           *)
(***************************************************************************)
EXTENDS Sessions

CONSTANTS r1, r2

TwoRequests == {r1, r2}
Lifetime == {4}
=============================================================================
