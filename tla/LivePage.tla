------------------------------ MODULE LivePage ------------------------------
(***************************************************************************)
(* The web page on top of UiBackend: what renderPage serves and what       *)
(* dnsmasq-dhcp.js makes of the websocket messages.                        *)
(*                                                                         *)
(* A message has the list of current clients that UiBackend follows, and   *)
(* the past clients: generateWebSocketMessage copies the list under its    *)
(* lock and queries the tracker DB later, so that the two are of different *)
(* moments.  The DNS statistics, the log counters and whatever is rendered *)
(* per row are left out.                                                   *)
(*                                                                         *)
(* The page opens its websocket from <head> (index.templ.html:50) and its  *)
(* tables exist from DOMContentLoaded on: a message that comes before then *)
(* fails an assertion and is lost.  The upgrade of the websocket does not  *)
(* fail here, UiBackend has that case.                                     *)
(***************************************************************************)
EXTENDS UiBackend

CONSTANT MaxChanges     \* bound: how often the tracker DB changes or fails

ASSUME PageAssumption == MaxChanges \in Nat /\ UpgradeMayFail = FALSE

VARIABLES
    history,        \* the MAC addresses in table dhcp_clients
    changes,        \* how often it changed, or a query failed
    roundPast,      \* the past clients of the broadcaster's message
    greetingPast,   \* those of each handler's; Nothing when not yet read
    page,           \* what each browser has of the page
    tables          \* the rows of its tables of current and past clients

dbVars == <<history, changes>>
messageVars == <<roundPast, greetingPast>>
browserVars == <<page, tables>>
pageVars == <<dbVars, messageVars, browserVars>>
allVars == <<vars, pageVars>>

\* The part of a WebSocketMessage that the page shows in these tables.
Tables == [current : SUBSET Macs, past : SUBSET Macs]

NoRows == [current |-> {}, past |-> {}]

PageTypeOK ==
    /\ TypeOK
    /\ history \in SUBSET Macs
    /\ changes \in 0 .. MaxChanges
    /\ roundPast \in (SUBSET Macs) \cup {Nothing}
    /\ greetingPast \in [Viewers -> (SUBSET Macs) \cup {Nothing}]
    /\ page \in [Viewers -> {"none", "loading", "ready"}]
    /\ tables \in [Viewers -> Tables]
    /\ broadcaster \in {"waiting", "woken"} => roundPast = Nothing
    /\ \A v \in Viewers :
        /\ greetingPast[v] # Nothing => handler[v] \in {"generated", "pushing"}
        /\ page[v] = "none" => handler[v] = "idle"

PageInit ==
    /\ Init
    /\ history \in SUBSET Macs
    /\ changes = 0
    /\ roundPast = Nothing
    /\ greetingPast = [v \in Viewers |-> Nothing]
    /\ page = [v \in Viewers |-> "none"]
    /\ tables = [v \in Viewers |-> NoRows]

-----------------------------------------------------------------------------
(* The database and the page.                                              *)

\* The script inserts a row, the purge deletes some; nobody is told.
HistoryChanges ==
    /\ changes < MaxChanges
    /\ changes' = changes + 1
    /\ history' \in SUBSET Macs
    /\ UNCHANGED <<vars, messageVars, browserVars>>

\* renderPage, and the <head> of the page: a request without the header
\* X-Ingress-Path gets an error and no page.
RenderPage(v) ==
    /\ page[v] = "none"
    /\ page' = [page EXCEPT ![v] = "loading"]
    /\ UNCHANGED <<vars, dbVars, messageVars, tables>>

\* DOMContentLoaded: the tables are created, empty.
InitAll(v) ==
    /\ page[v] = "loading"
    /\ page' = [page EXCEPT ![v] = "ready"]
    /\ UNCHANGED <<vars, dbVars, messageVars, tables>>

\* new WebSocket(webSocketURI)
OpenWebSocket(v) ==
    /\ page[v] # "none"
    /\ UNCHANGED <<feedVars, pageVars>>
    /\ Hub!Upgrade(v)

\* Faulty variant: no change in the current clients, nothing to do.
ShowChangedList(v, list, past) ==
    tables' = IF page[v] = "ready" /\ tables[v].current # list.leases
              THEN [tables EXCEPT ![v] = [current |-> list.leases, past |-> past]]
              ELSE tables

\* processWebSocketEvent fills both tables.
Show(v, list, past) ==
    tables' = IF page[v] = "ready"
              THEN [tables EXCEPT ![v] = [current |-> list.leases, past |-> past]]
              ELSE tables

-----------------------------------------------------------------------------
(* generateWebSocketMessage, its second half.                              *)

\* Faulty variant: the rows are compared with the list as it is by now.
PastClientsByNow(list) == history \ dhcpClientData.leases

\* GetDeadDhcpClients: the rows that the copied list does not have.
PastClients(list) == history \ list.leases

ReadPastOfRound ==
    /\ broadcaster = "generated"
    /\ roundPast = Nothing
    /\ roundPast' = PastClients(round)
    /\ UNCHANGED <<vars, dbVars, greetingPast, browserVars>>

ReadPastOfGreeting(v) ==
    /\ handler[v] = "generated"
    /\ greetingPast[v] = Nothing
    /\ greetingPast' = [greetingPast EXCEPT ![v] = PastClients(greeting[v])]
    /\ UNCHANGED <<vars, dbVars, roundPast, browserVars>>

\* A query that fails is logged and leaves the list empty.
ReadPastFails ==
    /\ changes < MaxChanges
    /\ changes' = changes + 1
    /\ \/ /\ broadcaster = "generated"
          /\ roundPast = Nothing
          /\ roundPast' = {}
          /\ UNCHANGED greetingPast
       \/ \E v \in Viewers :
          /\ handler[v] = "generated"
          /\ greetingPast[v] = Nothing
          /\ greetingPast' = [greetingPast EXCEPT ![v] = {}]
          /\ UNCHANGED roundPast
    /\ UNCHANGED <<vars, history, browserVars>>

-----------------------------------------------------------------------------
(* The steps of UiBackend, with what they mean for a message and a page.   *)

FeedStep ==
    /\ FeedAlone \/ StoreUpdate \/ Broadcast
    /\ UNCHANGED pageVars

TickStep ==
    /\ UNCHANGED <<feedVars, pageVars>>
    /\ Hub!BroadcastTick

BroadcasterStep ==
    /\ UNCHANGED <<feedVars, dbVars, greetingPast, page>>
    /\ \/ Hub!SkipRound /\ UNCHANGED <<roundPast, tables>>
       \/ Hub!GenerateRound /\ UNCHANGED <<roundPast, tables>>
       \/ roundPast # Nothing /\ Hub!LockClients /\ UNCHANGED <<roundPast, tables>>
       \/ \E v \in Viewers :
            \/ Hub!WriteRound(v) /\ Show(v, round, roundPast) /\ UNCHANGED roundPast
            \/ Hub!WriteRoundFails(v) /\ UNCHANGED <<roundPast, tables>>
       \/ Hub!UnlockClients /\ roundPast' = Nothing /\ UNCHANGED tables

HandlerStep(v) ==
    /\ UNCHANGED <<feedVars, dbVars, roundPast, page>>
    /\ \/ /\ \/ Hub!GenerateGreeting(v)
             \/ greetingPast[v] # Nothing /\ Hub!Register(v)
             \/ Hub!ReadFails(v)
             \/ Hub!Unregister(v)
          /\ UNCHANGED <<greetingPast, tables>>
       \/ /\ \/ Hub!PushGreeting(v) /\ Show(v, greeting[v], greetingPast[v])
             \/ Hub!PushFails(v) /\ UNCHANGED tables
          /\ greetingPast' = [greetingPast EXCEPT ![v] = Nothing]

PeerStep(v) ==
    /\ UNCHANGED <<feedVars, pageVars>>
    /\ Hub!PeerStep(v)

PageNext ==
    \/ HistoryChanges \/ ReadPastOfRound \/ ReadPastFails
    \/ FeedStep \/ TickStep \/ BroadcasterStep
    \/ \E v \in Viewers :
        \/ RenderPage(v) \/ OpenWebSocket(v) \/ InitAll(v)
        \/ ReadPastOfGreeting(v) \/ HandlerStep(v) \/ PeerStep(v)

PageSpec == PageInit /\ [][PageNext]_allVars

\* As in UiBackend; and a page that is loading gets loaded.
FairPageSpec ==
    /\ PageSpec
    /\ WF_allVars(Feed!WriteBack /\ UNCHANGED <<hubVars, pageVars>>)
    /\ WF_allVars(Feed!InstallWatch /\ UNCHANGED <<hubVars, pageVars>>)
    /\ WF_allVars(Feed!ReadEvent /\ UNCHANGED <<hubVars, pageVars>>)
    /\ WF_allVars(Feed!ProcessorStep /\ UNCHANGED <<hubVars, pageVars>>)
    /\ WF_allVars(StoreUpdate /\ UNCHANGED pageVars)
    /\ SF_allVars(Broadcast /\ UNCHANGED pageVars)
    /\ WF_allVars(TickStep)
    /\ SF_allVars(BroadcasterStep \/ ReadPastOfRound)
    /\ \A v \in Viewers :
        /\ SF_allVars(HandlerStep(v) \/ ReadPastOfGreeting(v))
        /\ WF_allVars(conn[v] = "stalled" /\ PeerStep(v))
        /\ WF_allVars(InitAll(v))

-----------------------------------------------------------------------------
(* What the page promises.                                                 *)

\* A page shows no client as current and as past at once, whatever happens to
\* the list and to the database while a message is put together (uibackend.go
\* 170-196), and every row of the second table comes from the database.
NoClientTwice ==
    \A v \in Viewers : tables[v].current \cap tables[v].past = {}

\* End to end: when the lease file and the database have settled, a page that
\* stays connected comes to show the clients of the file in one table and the
\* rest of the database in the other, although nobody announces a change of the
\* database, a query may have failed and the greeting may have come before the
\* page could show it.  FollowsLeaseFile follows, and its windows are excepted.
PageFollows ==
    <>[](\/ missed \/ watcher = "ended"
         \/ \A v \in clients : Hub!Up(v) =>
              /\ shown[v] = leaseFile
              /\ page[v] = "ready" =>
                    tables[v] = [current |-> leaseFile.leases,
                                 past |-> history \ leaseFile.leases])
=============================================================================
