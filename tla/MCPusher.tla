------------------------------ MODULE MCPusher ------------------------------
(* Pusher and Discovery on a small instance.                               *)
EXTENDS Discovery
=============================================================================
