-------------------------- MODULE MCTerminalSession --------------------------
(* One session with queues, pty and buffers so small that a few bytes fill the
   whole path in either direction. *)
EXTENDS TerminalSession

CONSTANTS s1, s2

OneSession == {s1}
TwoSessions == {s1, s2}
==============================================================================
