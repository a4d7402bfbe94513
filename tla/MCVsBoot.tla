-------------------------------- MODULE MCVsBoot --------------------------------
(* Constants for TLC: two modifiers, a button of each kind, two fingers, and   *)
(* a hardware keyboard with a key of each kind.                                *)
EXTENDS VsBoot

CONSTANTS t1, t2

MCSpecials == {"SHIFT", "ALT"}
MCRepetitive == {"UP"}
MCPopupKeys == {"/"}
MCOtherKeys == {}
MCThreads == {t1, t2}
MCHwKeys == {"a", "Enter", "RightShift"}

=============================================================================
