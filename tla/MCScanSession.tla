--------------------------- MODULE MCScanSession ---------------------------
(* Two sites, a text with two faults and one example button, for TLC. *)
EXTENDS ScanSession

CONSTANTS A, B

AsTyped == [url |-> A, faults |-> {}]
Faulty  == [url |-> A, faults |-> {"scheme", "undotted"}]

TwoUrls    == {A, B}
SomeTexts  == {AsTyped, [url |-> B, faults |-> {}], Faulty}
OneExample == {AsTyped}
=============================================================================
