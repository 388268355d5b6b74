---------------------------- MODULE LoginGuardMC ----------------------------
(***************************************************************************)
(* LoginGuard on a small instance.                                         *)
(***************************************************************************)
EXTENDS LoginGuard, TLC

CONSTANTS r1, r2, ch1, sl1, pr1, ca1

TwoRequests == {r1, r2}
OneChallenge == {ch1}
OneSlider == {sl1}
OneProof == {pr1}
OneCaptcha == {ca1}
ThreeSubjects == {<<"login", "known">>, <<"login", "free">>, <<"register", "free">>}
Symmetry == Permutations(TwoRequests)
=============================================================================
