----------------------------- MODULE UiBackend ------------------------------
(***************************************************************************)
(* The live view of the UI backend: LeaseFeed and WebSocketHub composed.   *)
(* They share b.dhcpClientData, which the processor of the feed stores and *)
(* the goroutines of the hub read, and broadcastCh, an unbuffered channel: *)
(* the processor's send and the broadcaster's receive are one step.        *)
(***************************************************************************)
EXTENDS Naturals

CONSTANTS Macs, MaxWrites, Viewers, Nothing, RefreshEnabled, UpgradeMayFail

VARIABLES leaseFile, rewriting, event, watcher, read, processor, update,
          dhcpClientData, missed,
          clients, clientsLock, broadcaster, round, todo, handler, greeting,
          conn, shown, late

Feed == INSTANCE LeaseFeed
Hub == INSTANCE WebSocketHub WITH Snapshots <- Feed!LeaseLists,
                                  notifying <- (processor = "notifying")

feedVars == <<leaseFile, rewriting, event, watcher, read, processor, update,
              dhcpClientData, missed>>
hubVars == <<clients, clientsLock, broadcaster, round, todo, handler, greeting,
             conn, shown, late>>
vars == <<feedVars, hubVars>>

ASSUME UiAssumption == /\ MaxWrites \in Nat
                       /\ Nothing \notin Feed!LeaseLists
                       /\ RefreshEnabled \in BOOLEAN
                       /\ UpgradeMayFail \in BOOLEAN

Init == Feed!FeedInit /\ Hub!HubInit

\* The lease file changes, an update travels to the processor.
FeedAlone ==
    /\ Feed!DnsmasqStep \/ Feed!WatcherStep \/ Feed!ProcessorStep
    /\ UNCHANGED hubVars

\* processLeaseUpdatesFromArray replaces the list that the hub reads.
StoreUpdate ==
    /\ Feed!StoreUpdate
    /\ late' = [v \in Viewers |-> FALSE]
    /\ UNCHANGED <<clients, clientsLock, broadcaster, round, todo, handler,
                   greeting, conn, shown>>

\* b.broadcastCh <- struct{}{} meets <-b.broadcastCh.
Broadcast == Feed!Notify /\ Hub!BroadcastReceive

HubAlone ==
    /\ UNCHANGED feedVars
    /\ Hub!HubStep \/ \E v \in Viewers : Hub!Upgrade(v)

Next == FeedAlone \/ StoreUpdate \/ Broadcast \/ HubAlone

Spec == Init /\ [][Next]_vars

-----------------------------------------------------------------------------
(* Fairness: of the goroutines and the browsers as in WebSocketHub; and    *)
(* dnsmasq fills the file it has truncated.                                *)

FairFeed ==
    /\ WF_vars(Feed!WriteBack /\ UNCHANGED hubVars)
    /\ WF_vars(Feed!InstallWatch /\ UNCHANGED hubVars)
    /\ WF_vars(Feed!ReadEvent /\ UNCHANGED hubVars)
    /\ WF_vars(Feed!ProcessorStep /\ UNCHANGED hubVars)
    /\ WF_vars(StoreUpdate)

FairHub ==
    /\ SF_vars(Broadcast)
    /\ WF_vars(UNCHANGED feedVars /\ Hub!BroadcastTick)
    /\ SF_vars(UNCHANGED feedVars /\ Hub!BroadcasterStep)
    /\ \A v \in Viewers : SF_vars(UNCHANGED feedVars /\ Hub!HandlerStep(v))

PeersRecover ==
    \A v \in Viewers :
        WF_vars(UNCHANGED feedVars /\ conn[v] = "stalled" /\ Hub!PeerStep(v))

FairSpec == Spec /\ FairFeed /\ FairHub /\ PeersRecover

-----------------------------------------------------------------------------
(* What the composition promises.                                          *)

TypeOK == Feed!FeedTypeOK /\ Hub!HubTypeOK

\* The composition behaves as the hub does with its abstract producer.
ImplementsHub == Hub!HubSpec

NoWriteForgotten == Feed!NoWriteForgotten

\* Nothing is underway any more: no event, update or round.
Quiet ==
    /\ ~rewriting /\ ~event
    /\ watcher = "watching" /\ processor = "receiving"
    /\ broadcaster = "waiting"

\* End to end, without any help from the periodic refresh: once the pipeline
\* has come to rest, a connected browser shows the content of the lease file.
\* Excepted are the two windows of the code, a file last written before the
\* watch was installed and a greeting outdated at registration.
RestsCurrent ==
    Quiet /\ ~missed =>
        \A v \in clients : handler[v] = "reading" /\ Hub!Up(v) /\ ~late[v] =>
            shown[v] = leaseFile

\* "Whenever a new DHCP client connects to or leaves the network the UI gets
\* instantly updated" (README.md:64-65): dnsmasq writes finitely often, so in
\* the end every browser that stays connected shows the lease file, unless its
\* last write fell before the watch was installed or the watch ended.
FollowsLeaseFile ==
    <>[](\/ missed \/ watcher = "ended"
         \/ \A v \in clients : Hub!Up(v) => shown[v] = leaseFile)
=============================================================================
