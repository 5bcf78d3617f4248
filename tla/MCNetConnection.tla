-------------------------- MODULE MCNetConnection --------------------------
(* NetConnection with the constants of its TLC runs. *)
EXTENDS NetConnection, TLC

\* The client submits enough messages for its sequence numbers to wrap, the
\* server only acknowledges.
OneWay == ("client" :> 5) @@ ("server" :> 0)
TwoMessages == ("client" :> 2) @@ ("server" :> 0)
=============================================================================
