-------------------------- MODULE PasswordGuardMC --------------------------
(***************************************************************************)
(* PasswordGuard on a small instance.                                      *)
(***************************************************************************)
EXTENDS PasswordGuard, TLC

CONSTANTS r1, r2, c1, c2

TwoRequests == {r1, r2}
OneCaptcha == {c1}
TwoCaptchas == {c1, c2}
Symmetry == Permutations(Requests) \cup Permutations(Captchas)
=============================================================================
