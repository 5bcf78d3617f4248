----------------------------- MODULE MCRegister -----------------------------
(***************************************************************************)
(* Register for TLC: one protocol, which may have two requests on their    *)
(* way, and two lives of the server.  What two protocols share is covered  *)
(* by the proofs.                                                          *)
(***************************************************************************)
EXTENDS Register

CONSTANT v4

MCAddrs == {v4}
MCInFlight == [p \in {v4} |-> 2]
=============================================================================
