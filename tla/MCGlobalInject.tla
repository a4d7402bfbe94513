---------------------------- MODULE MCGlobalInject ----------------------------
(* Constants for TLC: a server and a child, two sessions, two calls.         *)
EXTENDS GlobalInject

CONSTANTS s1, s2, n1, n2, c1, c2

MCSessions == {s1, s2}
MCNodes == {n1, n2}
MCCalls == {c1, c2}

=============================================================================
