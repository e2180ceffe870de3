----------------------- MODULE MCSlidingWindowLimiter -----------------------
(* Small instances of SlidingWindowLimiter for TLC. *)
EXTENDS SlidingWindowLimiter, TLC

CONSTANTS c1, c2, k1, k2

TwoCallers == {c1, c2}
TwoKeys    == {k1, k2}
OneKey     == {k1}

CallerSymmetry == Permutations(TwoCallers)
=============================================================================
