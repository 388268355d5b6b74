--------------------------- MODULE HttpRequestsMC ---------------------------
(***************************************************************************)
(* HttpRequests on a small instance.                                       *)
(***************************************************************************)
EXTENDS HttpRequests, TLC

CONSTANTS r1, r2, k1

TwoRequests == {r1, r2}
OneKey == {k1}
TwoEndpoints == {"http", "grpc"}
BothDeployments == {"redis", "memory"}
=============================================================================
