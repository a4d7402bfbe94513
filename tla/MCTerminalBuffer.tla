---------------------------- MODULE MCTerminalBuffer ----------------------------
(* Constants for TLC: a ring of four rows under screens of two or three rows.  *)
EXTENDS TerminalBuffer, TLC

MCSizes == {[columns |-> 2, rows |-> 2], [columns |-> 3, rows |-> 2], [columns |-> 2, rows |-> 3]}
MCSymmetry == Permutations(Chars)

=============================================================================
