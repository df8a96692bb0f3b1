----------------------------- MODULE MCRequests -----------------------------
(* Calls for TLC: one of a plugin, and two attempts of a command line client. *)
EXTENDS Requests, TLC

CONSTANTS p1, k1, k2

None == {}
PluginOnce == {p1}
CliTwice == <<k1, k2>>

=============================================================================
