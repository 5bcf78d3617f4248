---------------------------- MODULE MCNetServer ----------------------------
(* NetServer with the constants of its TLC runs. *)
EXTENDS NetServer, TLC

CONSTANTS home, second, away, house, mobile

\* Two ports of one household and another address.
MCAddrs == {home, second, away}
MCIpOf == (home :> house) @@ (second :> house) @@ (away :> mobile)

\* Without the second port.
PairAddrs == {home, away}
PairIpOf == (home :> house) @@ (away :> mobile)
=============================================================================
