-------------------------------- MODULE MCSetup --------------------------------
(* Constants for TLC: two of everything that can be cut off or can overlap. *)
EXTENDS Setup

CONSTANTS e1, e2, s1, s2

MCExtractions == {e1, e2}
MCSessions == {s1, s2}

=============================================================================
