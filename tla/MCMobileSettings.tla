--------------------------- MODULE MCMobileSettings ---------------------------
(* Constants for TLC: one setting of each kind, one run of vscode-config.js  *)
(* and two of server.sh.                                                     *)
EXTENDS MobileSettings

CONSTANTS config, server1, server2

MCDefaults == {"trust", "minimap"}
MCForced == {"trust"}
MCExtra == {"theme"}
MCConfigs == {config}
MCServers == {server1, server2}

=============================================================================
