------------------------------ MODULE MCPinAuth ------------------------------
(* Small instances of PinAuth for TLC. *)
EXTENDS PinAuth, TLC

CONSTANTS p1, p2, p3, p4, old, fresh

TwoPins == {p1, p2}
FourPins == {p1, p2, p3, p4}
BothPhrases == {old, fresh}
JustOld == {old}

\* Which pin is which does not matter.
Symmetry == Permutations(Pins)
=============================================================================
