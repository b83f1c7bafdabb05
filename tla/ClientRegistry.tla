--------------------------- MODULE ClientRegistry ---------------------------
(***************************************************************************)
(* What the loading of the options promises about the clients named in     *)
(* them: a registry without any index.  Clients are registered one by one, *)
(* each with a MAC address and an address of its own, if it has one; only  *)
(* then are MAC addresses blocked, none of which is registered; and once   *)
(* the registry is closed, by the end of the lists or by a refusal at any  *)
(* point, it stays what it is.  Nothing that was registered is replaced or *)
(* forgotten.                                                              *)
(***************************************************************************)
CONSTANTS
  Registrable,  \* settings of clients, records with a mac and an ip
  Blockable,    \* MAC addresses
  NoIP          \* the ip of a client without a reservation

VARIABLES
  stage,        \* "closed", or what may be added
  registered,
  blocked

registryVars == <<stage, registered, blocked>>

Conflict(s, t) == s.mac = t.mac \/ (s.ip = t.ip /\ s.ip # NoIP)

RegistryInit ==
  /\ stage = "nothing"
  /\ registered = {}
  /\ blocked = {}

OpenRegistry ==
  /\ stage = "nothing"
  /\ stage' = "clients"
  /\ UNCHANGED <<registered, blocked>>

Register(s) ==
  /\ stage = "clients"
  /\ \A t \in registered : ~Conflict(s, t)
  /\ registered' = registered \cup {s}
  /\ UNCHANGED <<stage, blocked>>

EndClients ==
  /\ stage = "clients"
  /\ stage' = "blocked"
  /\ UNCHANGED <<registered, blocked>>

Block(mac) ==
  /\ stage = "blocked"
  /\ \A t \in registered : t.mac # mac
  /\ blocked' = blocked \cup {mac}
  /\ UNCHANGED <<stage, registered>>

CloseRegistry ==
  /\ stage # "closed"
  /\ stage' = "closed"
  /\ UNCHANGED <<registered, blocked>>

RegistryNext ==
  \/ OpenRegistry
  \/ stage = "clients" /\ \E s \in Registrable : Register(s)
  \/ EndClients
  \/ stage = "blocked" /\ \E mac \in Blockable : Block(mac)
  \/ CloseRegistry

RegistrySpec == RegistryInit /\ [][RegistryNext]_registryVars
-----------------------------------------------------------------------------
(* No two registered clients share a MAC address or an address, and none of   *)
(* them is blocked.                                                           *)
NoConflicts ==
  /\ \A s, t \in registered : s = t \/ ~Conflict(s, t)
  /\ \A s \in registered : s.mac \notin blocked
=============================================================================
