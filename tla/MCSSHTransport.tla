--------------------------- MODULE MCSSHTransport ---------------------------
(* Threads of the dashboard and the SSH processes they may open. *)
EXTENDS SSHTransport

CONSTANTS a, b, ssh1, ssh2, ssh3
=============================================================================
