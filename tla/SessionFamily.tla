--------------------------- MODULE SessionFamily ---------------------------
(***************************************************************************)
(* What a refresh-token family promises, without requests or a store: it   *)
(* begins once, its generation advances one at a time and never twice      *)
(* within a retry window, its deadline is fixed when it begins, and when   *)
(* it ends it has ended for good.                                          *)
(***************************************************************************)
EXTENDS Integers

CONSTANTS RetryWindow, Lifetimes

VARIABLES
    now,        \* the clock
    phase,      \* "unborn", "live" or "ended"
    family      \* the newest generation, when it was stamped, the deadline

vars == <<now, phase, family>>

Nothing == [generation |-> 0, rotatedAt |-> 0, expiredAt |-> 0]

Init ==
    /\ now = 1
    /\ phase = "unborn"
    /\ family = Nothing

Tick ==
    /\ now' = now + 1
    /\ UNCHANGED <<phase, family>>

Begin ==
    /\ phase = "unborn"
    /\ phase' = "live"
    /\ \E lifetime \in Lifetimes :
          family' = [generation |-> 1, rotatedAt |-> 0,
                     expiredAt |-> now + lifetime]
    /\ UNCHANGED now

\* The stamp may be older than the step: writing takes time.
Advance ==
    /\ phase = "live"
    /\ now < family.expiredAt
    /\ \E stamp \in 1 .. now :
          /\ family.rotatedAt > 0 => family.rotatedAt + RetryWindow <= stamp
          /\ family' = [generation |-> family.generation + 1,
                        rotatedAt |-> stamp,
                        expiredAt |-> family.expiredAt]
    /\ UNCHANGED <<now, phase>>

End ==
    /\ phase = "live"
    /\ phase' = "ended"
    /\ family' = Nothing
    /\ UNCHANGED now

Next == Tick \/ Begin \/ Advance \/ End

Spec == Init /\ [][Next]_vars
=============================================================================
