-------------------------- MODULE MCServerChannel --------------------------
(***************************************************************************)
(* ServerChannel for TLC: two I/O threads, two server channels that use    *)
(* the acceptor one after the other, and a few connections.                *)
(***************************************************************************)
EXTENDS ServerChannel, TLC
=============================================================================
