---------------------------- MODULE MCDisconnect ----------------------------
(***************************************************************************)
(* One request, cancelled by the server up to MaxCancels times.            *)
(***************************************************************************)
EXTENDS Disconnect
=============================================================================
