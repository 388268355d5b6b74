--------------------------- MODULE DictionaryMC -----------------------------
(* Constants of the runs of Dictionary: one request on this process, one on   *)
(* another replica (or both here, without Redis), and the worker.             *)
EXTENDS Dictionary

OneRemote == {"r2"}
TwoRequests == {"r1", "r2"}
OneValue == {"v1"}
=============================================================================
