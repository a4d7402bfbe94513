--------------------------- MODULE MCSessionService ---------------------------
(* Two sessions, and the service destroyed and created again once. *)
EXTENDS SessionService

\* Nobody uses the EXIT button, which is there to end all sessions.
WithoutExit == Init /\ [][Next /\ ~onStartCommand_EXIT]_vars
===============================================================================
