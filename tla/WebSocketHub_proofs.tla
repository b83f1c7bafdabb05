------------------------ MODULE WebSocketHub_proofs -------------------------
(***************************************************************************)
(* Proofs about WebSocketHub, for any set of connections, any values of    *)
(* the list, with or without the periodic refresh and failing upgrades.    *)
(*                                                                         *)
(* The argument has two layers.  Structure says who is inside the sections *)
(* that clientsLock guards and which handlers b.clients names; it is       *)
(* inductive.  On top of it, Freshness says where the current list is:     *)
(* a round that holds an older list has the producer waiting behind it,    *)
(* and so has a handler that is about to push an older greeting.           *)
(***************************************************************************)
EXTENDS WebSocketHub, TLAPS

Registered == {"pushing", "reading", "leaving", "panicked"}

LockInv ==
    /\ broadcaster = "writing" <=> clientsLock = "broadcaster"
    /\ todo # {} => broadcaster = "writing"
    /\ \A v \in Viewers : handler[v] = "pushing" => clientsLock = "handler"
    /\ \A v, w \in Viewers :
        handler[v] = "pushing" /\ handler[w] = "pushing" => v = w
    /\ clientsLock = "handler" => \E v \in Viewers : handler[v] = "pushing"

MapInv ==
    /\ \A v \in clients : handler[v] \in Registered
    /\ \A v \in Viewers : handler[v] = "pushing" => v \in clients

Structure == HubTypeOK /\ LockInv /\ MapInv

RoundInv ==
    broadcaster \in {"generated", "writing"} => round = dhcpClientData \/ notifying

GreetingInv ==
    \A v \in Viewers : handler[v] = "pushing" /\ ~late[v] =>
        \/ greeting[v] = dhcpClientData
        \/ notifying
        \/ broadcaster = "woken"
        \/ broadcaster = "generated" /\ round = dhcpClientData

Freshness == RoundInv /\ GreetingInv /\ NoUpdateForgotten

-----------------------------------------------------------------------------
(* Structure                                                               *)

LEMMA StructureInit == HubInit => Structure
BY HubAssumption
   DEF HubInit, Structure, HubTypeOK, LockInv, MapInv, Messages, Registered

LEMMA StructureStep == Structure /\ [HubNext]_hubVars => Structure'
<1> SUFFICES ASSUME Structure, [HubNext]_hubVars PROVE Structure'
  OBVIOUS
<1> USE HubAssumption
    DEF Structure, HubTypeOK, LockInv, MapInv, Messages, Registered, feedVars,
        mapVars, roundVars, handlerVars, viewVars, Goto, Becomes
<1>1. CASE StoreUpdate
  BY <1>1 DEF StoreUpdate
<1>2. CASE BroadcastReceive
  BY <1>2 DEF BroadcastReceive
<1>3. CASE BroadcastTick
  BY <1>3 DEF BroadcastTick
<1>4. CASE SkipRound
  BY <1>4 DEF SkipRound
<1>5. CASE GenerateRound
  BY <1>5 DEF GenerateRound, generateWebSocketMessage
<1>6. CASE LockClients
  BY <1>6 DEF LockClients
<1>7. CASE UnlockClients
  BY <1>7 DEF UnlockClients
<1>8. ASSUME NEW v \in Viewers, WriteRound(v) PROVE Structure'
  BY <1>8 DEF WriteRound
<1>9. ASSUME NEW v \in Viewers, WriteRoundFails(v) PROVE Structure'
  BY <1>9 DEF WriteRoundFails
<1>10. ASSUME NEW v \in Viewers, Upgrade(v) PROVE Structure'
  BY <1>10 DEF Upgrade
<1>11. ASSUME NEW v \in Viewers, GenerateGreeting(v) PROVE Structure'
  BY <1>11 DEF GenerateGreeting, generateWebSocketMessage
<1>12. ASSUME NEW v \in Viewers, Register(v) PROVE Structure'
  BY <1>12 DEF Register
<1>13. ASSUME NEW v \in Viewers, PushGreeting(v) PROVE Structure'
  BY <1>13 DEF PushGreeting
<1>14. ASSUME NEW v \in Viewers, PushFails(v) PROVE Structure'
  BY <1>14 DEF PushFails
<1>15. ASSUME NEW v \in Viewers, PushPanics(v) PROVE Structure'
  BY <1>15 DEF PushPanics
<1>16. ASSUME NEW v \in Viewers, ReadFails(v) PROVE Structure'
  BY <1>16 DEF ReadFails
<1>17. ASSUME NEW v \in Viewers, Unregister(v) PROVE Structure'
  BY <1>17 DEF Unregister
<1>18. ASSUME NEW v \in Viewers, PeerStep(v) PROVE Structure'
  BY <1>18 DEF PeerStep, Leave, Stall, Resume
<1>19. CASE UNCHANGED hubVars
  BY <1>19 DEF hubVars, ownVars
<1> QED
  BY <1>1, <1>2, <1>3, <1>4, <1>5, <1>6, <1>7, <1>8, <1>9, <1>10, <1>11,
     <1>12, <1>13, <1>14, <1>15, <1>16, <1>17, <1>18, <1>19
     DEF HubNext, HubStep, BroadcasterStep, HandlerStep

-----------------------------------------------------------------------------
(* Freshness                                                               *)

LEMMA FreshnessInit == HubInit => Freshness
BY HubAssumption
   DEF HubInit, Freshness, RoundInv, GreetingInv, NoUpdateForgotten

LEMMA FreshnessStep ==
    Structure /\ Freshness /\ [HubNext]_hubVars => Freshness'
<1> SUFFICES ASSUME Structure, Freshness, [HubNext]_hubVars PROVE Freshness'
  OBVIOUS
<1> USE DEF Freshness, Structure, HubTypeOK, LockInv, MapInv, Registered, RoundInv,
            GreetingInv, NoUpdateForgotten, OnItsWay, Up, feedVars, mapVars,
            roundVars, handlerVars, viewVars, Goto, Becomes
\* Whatever becomes stale is announced.
<1>1. CASE StoreUpdate
  BY <1>1 DEF StoreUpdate
<1>2. CASE BroadcastReceive
  BY <1>2 DEF BroadcastReceive
<1>3. CASE BroadcastTick
  BY <1>3 DEF BroadcastTick
\* A skipped round concerns nobody: a handler about to push is registered.
<1>4. CASE SkipRound
  BY <1>4 DEF SkipRound
<1>5. CASE GenerateRound
  BY <1>5 DEF GenerateRound, generateWebSocketMessage
\* The round starts with every registered connection.
<1>6. CASE LockClients
  BY <1>6 DEF LockClients
<1>7. CASE UnlockClients
  BY <1>7 DEF UnlockClients
<1>8. ASSUME NEW v \in Viewers, WriteRound(v) PROVE Freshness'
  BY <1>8 DEF WriteRound
<1>9. ASSUME NEW v \in Viewers, WriteRoundFails(v) PROVE Freshness'
  BY <1>9 DEF WriteRoundFails
<1>10. ASSUME NEW v \in Viewers, Upgrade(v) PROVE Freshness'
  BY <1>10 DEF Upgrade
<1>11. ASSUME NEW v \in Viewers, GenerateGreeting(v) PROVE Freshness'
  BY <1>11 DEF GenerateGreeting, generateWebSocketMessage
\* An outdated greeting is what late records.
<1>12. ASSUME NEW v \in Viewers, Register(v) PROVE Freshness'
  BY <1>12 DEF Register
<1>13. ASSUME NEW v \in Viewers, PushGreeting(v) PROVE Freshness'
  BY <1>13 DEF PushGreeting
<1>14. ASSUME NEW v \in Viewers, PushFails(v) PROVE Freshness'
  BY <1>14 DEF PushFails
<1>15. ASSUME NEW v \in Viewers, PushPanics(v) PROVE Freshness'
  BY <1>15 DEF PushPanics
<1>16. ASSUME NEW v \in Viewers, ReadFails(v) PROVE Freshness'
  BY <1>16 DEF ReadFails
<1>17. ASSUME NEW v \in Viewers, Unregister(v) PROVE Freshness'
  BY <1>17 DEF Unregister
<1>18. ASSUME NEW v \in Viewers, PeerStep(v) PROVE Freshness'
  BY <1>18 DEF PeerStep, Leave, Stall, Resume
<1>19. CASE UNCHANGED hubVars
  BY <1>19 DEF hubVars, ownVars
<1> QED
  BY <1>1, <1>2, <1>3, <1>4, <1>5, <1>6, <1>7, <1>8, <1>9, <1>10, <1>11,
     <1>12, <1>13, <1>14, <1>15, <1>16, <1>17, <1>18, <1>19
     DEF HubNext, HubStep, BroadcasterStep, HandlerStep

-----------------------------------------------------------------------------
(* The theorems                                                            *)

HubInv == Structure /\ Freshness

\* Both layers hold in every state of the hub.
THEOREM HubInvariant == HubSpec => []HubInv
<1>1. HubInit => HubInv
  BY StructureInit, FreshnessInit DEF HubInv
<1>2. HubInv /\ [HubNext]_hubVars => HubInv'
  BY StructureStep, FreshnessStep DEF HubInv
<1> QED
  BY <1>1, <1>2, PTL DEF HubSpec

\* The variables keep their types, and a broadcast round only ever has
\* registered connections left to write to.
THEOREM TypeCorrect == HubSpec => []HubTypeOK
<1>1. HubInv => HubTypeOK
  BY DEF HubInv, Structure
<1> QED
  BY <1>1, HubInvariant, PTL

\* clientsLock keeps the broadcaster and the handlers apart, for any number of
\* connections.
THEOREM Exclusion == HubSpec => []ClientsExclusion
<1>1. HubInv => ClientsExclusion
  BY DEF HubInv, Structure, LockInv, ClientsExclusion
<1> QED
  BY <1>1, HubInvariant, PTL

\* b.clients names no connection whose handler has ended.
THEOREM MapHasNoGhosts == HubSpec => []NoGhosts
<1>1. HubInv => NoGhosts
  BY DEF HubInv, Structure, HubTypeOK, LockInv, MapInv, Registered, NoGhosts
<1> QED
  BY <1>1, HubInvariant, PTL

\* No update of the list is forgotten for a registered browser, except for one
\* whose greeting was outdated when it registered.
THEOREM UpdatesAreDelivered == HubSpec => []NoUpdateForgotten
<1>1. HubInv => NoUpdateForgotten
  BY DEF HubInv, Freshness
<1> QED
  BY <1>1, HubInvariant, PTL

=============================================================================
