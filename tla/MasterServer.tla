---------------------------- MODULE MasterServer ----------------------------
(***************************************************************************)
(* src/mastersrv/src/main.rs: the two tables of the master server and the  *)
(* operations on them, as operators from the tables to the tables.  One    *)
(* table has for every address the secret that registered it, the other    *)
(* for every secret the serial of its info and its addresses.  A secret is *)
(* made by a game server when it starts; the info itself is known by its   *)
(* serial.                                                                 *)
(***************************************************************************)
EXTENDS Integers

CONSTANTS
  Addrs,      \* the addresses servers register: one per protocol and host
  Secrets,    \* the secrets of the game servers
  NoSecret,   \* of an address that is not registered
  NoServer    \* of a secret that is not

ASSUME MasterAssumption ==
  /\ NoSecret \notin Secrets
  /\ NoServer \notin [serial : Int, addrs : SUBSET Addrs]

Servers == [serial : Int, addrs : SUBSET Addrs]

Tables == [addresses : [Addrs -> Secrets \cup {NoSecret}],
           servers : [Secrets -> Servers \cup {NoServer}]]

\* Servers::new.
NoServers == [addresses |-> [a \in Addrs |-> NoSecret],
              servers |-> [s \in Secrets |-> NoServer]]

\* Taking an address away from the server it belongs to, which goes with its
\* last address. Servers::add, remove and prune_before all do this.
Unlist(t, a) ==
  LET s == t.addresses[a]
      rest == t.servers[s].addrs \ {a}
  IN  [addresses |-> [t.addresses EXCEPT ![a] = NoSecret],
       servers |-> [t.servers EXCEPT
                      ![s] = IF rest = {} THEN NoServer ELSE [@ EXCEPT !.addrs = rest]]]

\* Seeded bug: a known server is only asked for its info if the serial differs,
\* and an older one is taken as well.
NeedsInfoIfOther(t, s, serial) ==
  \/ t.servers[s] = NoServer
  \/ serial # t.servers[s].serial

\* Servers::add asks for the info when the server is new or its serial is.
NeedsInfo(t, s, serial) ==
  \/ t.servers[s] = NoServer
  \/ serial > t.servers[s].serial

\* Seeded bug: an address that moves to a new secret stays with the old one.
EnterOnly(t, a, s, serial) ==
  LET old == t.servers[s]
  IN  [addresses |-> [t.addresses EXCEPT ![a] = s],
       servers |-> [t.servers EXCEPT
         ![s] = IF old = NoServer THEN [serial |-> serial, addrs |-> {a}]
                ELSE [serial |-> IF NeedsInfo(t, s, serial) THEN serial ELSE old.serial,
                      addrs |-> old.addrs \cup {a}]]]

\* Servers::add once it has what it needs: the address moves over from an older
\* secret, and a newer serial replaces the info.
Enter(t, a, s, serial) ==
  LET cleared == IF t.addresses[a] \in {NoSecret, s} THEN t ELSE Unlist(t, a)
      old == cleared.servers[s]
  IN  [addresses |-> [cleared.addresses EXCEPT ![a] = s],
       servers |-> [cleared.servers EXCEPT
         ![s] = IF old = NoServer THEN [serial |-> serial, addrs |-> {a}]
                ELSE [serial |-> IF NeedsInfo(t, s, serial) THEN serial ELSE old.serial,
                      addrs |-> old.addrs \cup {a}]]]

\* Servers::add, what becomes of the tables and what it answers.
Add(t, a, s, serial, hasInfo) ==
  IF NeedsInfo(t, s, serial) /\ ~hasInfo THEN t ELSE Enter(t, a, s, serial)

AddAnswer(t, s, serial, hasInfo) ==
  IF NeedsInfo(t, s, serial) /\ ~hasInfo THEN "NEEDINFO" ELSE "OK"

\* Servers::remove: only the secret that registered the address may.
Remove(t, a, s) == IF t.addresses[a] = s THEN Unlist(t, a) ELSE t

\* The tables agree: what the asserts and unwraps of the four functions rely on.
\* A server has exactly the addresses that carry its secret, and at least one.
TablesAgree(t) ==
  \A s \in Secrets :
    LET carry == {a \in Addrs : t.addresses[a] = s}
    IN  IF t.servers[s] = NoServer THEN carry = {}
        ELSE t.servers[s].addrs = carry /\ carry # {}
=============================================================================
