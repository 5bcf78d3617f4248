----------------------------- MODULE NetStream -----------------------------
(***************************************************************************)
(* What a connection promises its two users: two reliable streams.  The    *)
(* n-th vital message a peer submits has the number n; the other peer gets *)
(* 1, 2, 3, ... without a gap, a repetition or an exchange, and may at any *)
(* time get nothing more.                                                  *)
(***************************************************************************)
EXTENDS Integers, Sequences

Peers == {"client", "server"}
Other(p) == IF p = "client" THEN "server" ELSE "client"

VARIABLES sent,        \* how many messages the peer has submitted
          delivered    \* the numbers of the messages handed to the peer

vars == <<sent, delivered>>

Init == /\ sent = [p \in Peers |-> 0]
        /\ delivered = [p \in Peers |-> << >>]

Submit(p) == /\ sent' = [sent EXCEPT ![p] = @ + 1]
             /\ UNCHANGED delivered

Deliver(p) ==
  /\ Len(delivered[p]) < sent[Other(p)]
  /\ delivered' = [delivered EXCEPT ![p] = Append(@, Len(@) + 1)]
  /\ UNCHANGED sent

Next == \E p \in Peers : Submit(p) \/ Deliver(p)

Spec == Init /\ [][Next]_vars
=============================================================================
