---------------------------- MODULE WebSocketHub ----------------------------
(***************************************************************************)
(* The websocket side of the UI backend (backend/pkg/uibackend):           *)
(* broadcastUpdatesToClients, one goroutine for the whole backend, and     *)
(* handleWebSocketConn, one goroutine per browser tab.  They share the map *)
(* b.clients, guarded by clientsLock, and the list b.dhcpClientData.       *)
(*                                                                         *)
(* The producer of that list, processLeaseUpdates, is abstracted to two    *)
(* variables: the list, and whether the producer is standing at            *)
(* "b.broadcastCh <- struct{}{}".  The channel is unbuffered, so producer  *)
(* and broadcaster pass it together.  LeaseFeed refines the producer and   *)
(* UiBackend composes the two.                                             *)
(*                                                                         *)
(* A message is the snapshot of dhcpClientData it was built from; its past *)
(* clients, DNS statistics and log counters are left out.  A Viewer is one *)
(* connection: the page never reconnects, a reload is another Viewer.      *)
(***************************************************************************)
CONSTANTS
    Viewers,         \* the connections that may be opened
    Snapshots,       \* the values dhcpClientData may take
    Nothing,         \* no message yet
    RefreshEnabled,  \* WebUIRefreshInterval > 0
    UpgradeMayFail   \* a request to the websocket URL may fail to upgrade

ASSUME HubAssumption == /\ Nothing \notin Snapshots
                        /\ RefreshEnabled \in BOOLEAN
                        /\ UpgradeMayFail \in BOOLEAN

VARIABLES
    dhcpClientData,  \* b.dhcpClientData
    notifying,       \* processLeaseUpdates blocks on its send to broadcastCh
    clients,         \* the keys of b.clients
    clientsLock,     \* who holds b.clientsLock
    broadcaster,     \* where broadcastUpdatesToClients is
    round,           \* the message of the broadcaster's current round; locals
                     \* are Nothing when out of scope
    todo,            \* the connections that round still has to write to
    handler,         \* where the goroutine of each connection is
    greeting,        \* the message each handler generated on connection
    conn,            \* the network's view of each connection; a stalled peer
                     \* does not drain its socket
    shown,           \* the last message that reached each browser
    late             \* history: registered with an outdated greeting, and no
                     \* list stored nor broadcast written since

feedVars == <<dhcpClientData, notifying>>
mapVars == <<clients, clientsLock>>
roundVars == <<broadcaster, round, todo>>
handlerVars == <<handler, greeting>>
viewVars == <<shown, late>>
ownVars == <<mapVars, roundVars, handlerVars, conn, viewVars>>
hubVars == <<feedVars, ownVars>>

Messages == Snapshots \cup {Nothing}

HubTypeOK ==
    /\ dhcpClientData \in Snapshots
    /\ notifying \in BOOLEAN
    /\ clients \in SUBSET Viewers
    /\ clientsLock \in {"free", "broadcaster", "handler", "lost"}
    /\ broadcaster \in {"waiting", "woken", "generated", "writing"}
    /\ round \in Messages
    /\ todo \in SUBSET clients
    /\ handler \in [Viewers -> {"idle", "upgraded", "generated", "pushing",
                                "reading", "leaving", "closed", "panicked"}]
    /\ greeting \in [Viewers -> Messages]
    /\ conn \in [Viewers -> {"none", "open", "stalled", "down", "nil"}]
    /\ shown \in [Viewers -> Messages]
    /\ late \in [Viewers -> BOOLEAN]

\* NewUIBackend, and the baseline list that ListenAndServe reads before it
\* starts the goroutines.
HubInit ==
    /\ dhcpClientData \in Snapshots
    /\ notifying = FALSE
    /\ clients = {}
    /\ clientsLock = "free"
    /\ broadcaster = "waiting"
    /\ round = Nothing
    /\ todo = {}
    /\ handler = [v \in Viewers |-> "idle"]
    /\ greeting = [v \in Viewers |-> Nothing]
    /\ conn = [v \in Viewers |-> "none"]
    /\ shown = [v \in Viewers |-> Nothing]
    /\ late = [v \in Viewers |-> FALSE]

Goto(v, place) == handler' = [handler EXCEPT ![v] = place]
Becomes(v, state) == conn' = [conn EXCEPT ![v] = state]

-----------------------------------------------------------------------------
(* The producer, abstracted.                                               *)

\* Faulty variant: a send that gives up when the broadcaster is not receiving.
StoreUpdateNonBlocking ==
    /\ ~notifying
    /\ dhcpClientData' \in Snapshots
    /\ notifying' = (broadcaster = "waiting")
    /\ late' = [v \in Viewers |-> FALSE]
    /\ UNCHANGED <<mapVars, roundVars, handlerVars, conn, shown>>

\* processLeaseUpdates stores a new list and goes on to announce it.  The
\* whole list is built and sorted under dhcpClientDataLock: one step.
StoreUpdate ==
    /\ ~notifying
    /\ dhcpClientData' \in Snapshots
    /\ notifying' = TRUE
    /\ late' = [v \in Viewers |-> FALSE]
    /\ UNCHANGED <<mapVars, roundVars, handlerVars, conn, shown>>

-----------------------------------------------------------------------------
(* broadcastUpdatesToClients                                               *)

\* case <-b.broadcastCh: completes the producer's send as well.
BroadcastReceive ==
    /\ broadcaster = "waiting"
    /\ notifying
    /\ broadcaster' = "woken"
    /\ notifying' = FALSE
    /\ UNCHANGED <<dhcpClientData, mapVars, round, todo, handlerVars, conn, viewVars>>

\* Faulty variant: the ticker is never created.
BroadcastTickNever ==
    /\ FALSE
    /\ UNCHANGED hubVars

\* case <-tickerCh: a channel that never delivers when the refresh is off.
BroadcastTick ==
    /\ RefreshEnabled
    /\ broadcaster = "waiting"
    /\ broadcaster' = "woken"
    /\ UNCHANGED <<feedVars, mapVars, round, todo, handlerVars, conn, viewVars>>

\* len(b.clients) == 0, read without the lock: the round is skipped.
SkipRound ==
    /\ broadcaster = "woken"
    /\ clients = {}
    /\ broadcaster' = "waiting"
    /\ UNCHANGED <<feedVars, mapVars, round, todo, handlerVars, conn, viewVars>>

\* A message, as far as it is modelled.
generateWebSocketMessage == dhcpClientData

\* The message is generated before the lock is taken.  Reading len(b.clients)
\* and copying dhcpClientData are one step: no step of another goroutine can
\* tell the order of the two reads.
GenerateRound ==
    /\ broadcaster = "woken"
    /\ clients # {}
    /\ broadcaster' = "generated"
    /\ round' = generateWebSocketMessage
    /\ UNCHANGED <<feedVars, mapVars, todo, handlerVars, conn, viewVars>>

\* Faulty variant: the map is ranged over without the lock.
LockClientsForgotten ==
    /\ broadcaster = "generated"
    /\ clientsLock' = "broadcaster"
    /\ broadcaster' = "writing"
    /\ todo' = clients
    /\ UNCHANGED <<feedVars, clients, round, handlerVars, conn, viewVars>>

LockClients ==
    /\ broadcaster = "generated"
    /\ clientsLock = "free"
    /\ clientsLock' = "broadcaster"
    /\ broadcaster' = "writing"
    /\ todo' = clients
    /\ UNCHANGED <<feedVars, clients, round, handlerVars, conn, viewVars>>

\* WriteJSON has no deadline: a stalled peer keeps the broadcaster here.
WriteRound(v) ==
    /\ broadcaster = "writing"
    /\ v \in todo
    /\ conn[v] = "open"
    /\ todo' = todo \ {v}
    /\ shown' = [shown EXCEPT ![v] = round]
    /\ late' = [late EXCEPT ![v] = FALSE]
    /\ UNCHANGED <<feedVars, mapVars, broadcaster, round, handlerVars, conn>>

\* The peer is gone.  A failed write forgets the connection; the kernel may
\* also take the bytes, and the next write fails.
WriteRoundFails(v) ==
    /\ broadcaster = "writing"
    /\ v \in todo
    /\ conn[v] = "down"
    /\ todo' = todo \ {v}
    /\ clients' \in {clients, clients \ {v}}
    /\ UNCHANGED <<feedVars, clientsLock, broadcaster, round, handlerVars, conn, viewVars>>

\* Faulty variant: the round ends without the unlock.
UnlockClientsForgotten ==
    /\ broadcaster = "writing"
    /\ todo = {}
    /\ broadcaster' = "waiting"
    /\ round' = Nothing
    /\ UNCHANGED <<feedVars, mapVars, todo, handlerVars, conn, viewVars>>

UnlockClients ==
    /\ broadcaster = "writing"
    /\ todo = {}
    /\ clientsLock' = "free"
    /\ broadcaster' = "waiting"
    /\ round' = Nothing
    /\ UNCHANGED <<feedVars, clients, todo, handlerVars, conn, viewVars>>

-----------------------------------------------------------------------------
(* handleWebSocketConn                                                     *)

\* When the upgrade fails logger.Fatalf only logs: the handler goes on with
\* a nil connection.
Upgrade(v) ==
    /\ handler[v] = "idle"
    /\ Goto(v, "upgraded")
    /\ Becomes(v, "open") \/ (UpgradeMayFail /\ Becomes(v, "nil"))
    /\ UNCHANGED <<feedVars, mapVars, roundVars, greeting, viewVars>>

\* The greeting is generated before the connection is registered.
GenerateGreeting(v) ==
    /\ handler[v] = "upgraded"
    /\ Goto(v, "generated")
    /\ greeting' = [greeting EXCEPT ![v] = generateWebSocketMessage]
    /\ UNCHANGED <<feedVars, mapVars, roundVars, conn, viewVars>>

Register(v) ==
    /\ handler[v] = "generated"
    /\ clientsLock = "free"
    /\ clientsLock' = "handler"
    /\ clients' = clients \cup {v}
    /\ Goto(v, "pushing")
    /\ late' = [late EXCEPT ![v] = (greeting[v] # dhcpClientData)]
    /\ UNCHANGED <<feedVars, roundVars, greeting, conn, shown>>

\* The first WriteJSON, under the lock taken by Register.
PushGreeting(v) ==
    /\ handler[v] = "pushing"
    /\ conn[v] = "open"
    /\ shown' = [shown EXCEPT ![v] = greeting[v]]
    /\ Goto(v, "reading")
    /\ greeting' = [greeting EXCEPT ![v] = Nothing]
    /\ clientsLock' = "free"
    /\ UNCHANGED <<feedVars, clients, roundVars, conn, late>>

\* Faulty variant: an early return on the error, before the unlock.
PushFailsKeepingLock(v) ==
    /\ handler[v] = "pushing"
    /\ conn[v] = "down"
    /\ Goto(v, "reading")
    /\ greeting' = [greeting EXCEPT ![v] = Nothing]
    /\ UNCHANGED <<feedVars, mapVars, roundVars, conn, viewVars>>

\* An error is logged and left to the read loop.
PushFails(v) ==
    /\ handler[v] = "pushing"
    /\ conn[v] = "down"
    /\ Goto(v, "reading")
    /\ greeting' = [greeting EXCEPT ![v] = Nothing]
    /\ clientsLock' = "free"
    /\ UNCHANGED <<feedVars, clients, roundVars, conn, viewVars>>

\* WriteJSON on a nil connection panics; net/http recovers the goroutine and
\* the unlock, which is not deferred, is never reached.
PushPanics(v) ==
    /\ handler[v] = "pushing"
    /\ conn[v] = "nil"
    /\ Goto(v, "panicked")
    /\ clientsLock' = "lost"
    /\ UNCHANGED <<feedVars, clients, roundVars, greeting, conn, viewVars>>

ReadFails(v) ==
    /\ handler[v] = "reading"
    /\ conn[v] = "down"
    /\ Goto(v, "leaving")
    /\ UNCHANGED <<feedVars, mapVars, roundVars, greeting, conn, viewVars>>

\* Faulty variant: the delete is forgotten.
UnregisterForgotten(v) ==
    /\ handler[v] = "leaving"
    /\ clientsLock = "free"
    /\ Goto(v, "closed")
    /\ UNCHANGED <<feedVars, mapVars, roundVars, greeting, conn, viewVars>>

\* Faulty variant: the delete is done without the lock.
UnregisterUnlocked(v) ==
    /\ handler[v] = "leaving"
    /\ clients' = clients \ {v}
    /\ Goto(v, "closed")
    /\ UNCHANGED <<feedVars, clientsLock, roundVars, greeting, conn, viewVars>>

\* Lock, delete and unlock: nothing blocks between them, so one step.
Unregister(v) ==
    /\ handler[v] = "leaving"
    /\ clientsLock = "free"
    /\ clients' = clients \ {v}
    /\ Goto(v, "closed")
    /\ UNCHANGED <<feedVars, clientsLock, roundVars, greeting, conn, viewVars>>

-----------------------------------------------------------------------------
(* The browsers and the network (external).                                *)

Leave(v) ==
    /\ conn[v] \in {"open", "stalled"}
    /\ Becomes(v, "down")
    /\ UNCHANGED <<feedVars, mapVars, roundVars, handlerVars, viewVars>>

\* The send buffer of the connection is full.
Stall(v) ==
    /\ conn[v] = "open"
    /\ Becomes(v, "stalled")
    /\ UNCHANGED <<feedVars, mapVars, roundVars, handlerVars, viewVars>>

Resume(v) ==
    /\ conn[v] = "stalled"
    /\ Becomes(v, "open")
    /\ UNCHANGED <<feedVars, mapVars, roundVars, handlerVars, viewVars>>

-----------------------------------------------------------------------------
BroadcasterStep ==
    \/ SkipRound \/ GenerateRound \/ LockClients \/ UnlockClients
    \/ \E v \in Viewers : WriteRound(v) \/ WriteRoundFails(v)

HandlerStep(v) ==
    \/ GenerateGreeting(v) \/ Register(v)
    \/ PushGreeting(v) \/ PushFails(v) \/ PushPanics(v)
    \/ ReadFails(v) \/ Unregister(v)

PeerStep(v) == Leave(v) \/ Stall(v) \/ Resume(v)

\* Every step but those the producer takes part in, and Upgrade, which waits
\* for the HTTP server.
HubStep ==
    \/ BroadcastTick
    \/ BroadcasterStep
    \/ \E v \in Viewers : HandlerStep(v) \/ PeerStep(v)

HubNext ==
    \/ StoreUpdate
    \/ BroadcastReceive
    \/ \E v \in Viewers : Upgrade(v)
    \/ HubStep

HubSpec == HubInit /\ [][HubNext]_hubVars

-----------------------------------------------------------------------------
(* Fairness of the code: every goroutine that can run does.  It is strong  *)
(* where a goroutine waits for something that comes and goes: a Go mutex   *)
(* is handed to the waiter that waits longest (starvation mode), a select  *)
(* with several ready cases picks one of them at random, and a blocked     *)
(* write goes on whenever the peer drains its socket.                      *)
(* Fairness of the world: a stalled peer drains its socket or disappears.  *)

FairGoroutines ==
    /\ SF_hubVars(BroadcastReceive)
    /\ WF_hubVars(BroadcastTick)
    /\ SF_hubVars(BroadcasterStep)
    /\ \A v \in Viewers : SF_hubVars(HandlerStep(v))

PeersRecover ==
    \A v \in Viewers : WF_hubVars(conn[v] = "stalled" /\ PeerStep(v))

FairHubSpec == HubSpec /\ FairGoroutines /\ PeersRecover

-----------------------------------------------------------------------------
(* What the hub promises.                                                  *)

Up(v) == conn[v] \in {"open", "stalled"}

\* At most one goroutine is inside the sections that clientsLock guards, so
\* b.clients is never written during the broadcaster's range over it and no
\* two goroutines write to one connection, which the websocket library forbids
\* (uibackend.go 291-298, 347-367).
ClientsExclusion ==
    /\ \A v, w \in Viewers :
        handler[v] = "pushing" /\ handler[w] = "pushing" => v = w
    /\ \A v \in Viewers : handler[v] = "pushing" => broadcaster # "writing"

\* b.clients holds no connection whose handler has ended, whoever of the
\* broadcaster (353) and the handler itself (307) deletes it first, and a
\* handler that ended holds no lock.
NoGhosts ==
    /\ \A v \in clients :
        handler[v] \in {"pushing", "reading", "leaving", "panicked"}
    /\ clientsLock = "handler" => \E v \in clients : handler[v] = "pushing"

\* The current list will still be written to v: the producer has yet to
\* announce it, or a round that includes v has yet to read or write it.
OnItsWay(v) ==
    \/ notifying
    \/ broadcaster = "woken"
    \/ broadcaster = "generated" /\ round = dhcpClientData
    \/ broadcaster = "writing" /\ round = dhcpClientData /\ v \in todo
    \/ handler[v] = "pushing" /\ greeting[v] = dhcpClientData

\* No update is forgotten: a registered browser that does not show the current
\* list has it on its way, unless it registered with a greeting that was
\* generated before the list was replaced (286 runs before 291) and nothing
\* was stored or broadcast since.
NoUpdateForgotten ==
    \A v \in clients : Up(v) /\ ~late[v] =>
        shown[v] = dhcpClientData \/ OnItsWay(v)
\* Every browser that connects is shown a list, however the broadcaster and
\* the other handlers compete for clientsLock and whoever stalls meanwhile,
\* unless its connection goes down or a failed upgrade takes the lock away.
EveryoneIsGreeted ==
    \A v \in Viewers :
        conn[v] = "open" ~> \/ shown[v] # Nothing
                            \/ conn[v] = "down"
                            \/ clientsLock = "lost"

\* The producer never waits forever on broadcastCh, with the same exception.
ProducerGoesOn == notifying ~> ~notifying \/ clientsLock = "lost"

=============================================================================
