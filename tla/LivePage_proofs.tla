--------------------------- MODULE LivePage_proofs ---------------------------
(***************************************************************************)
(* Proofs about LivePage, for any DHCP clients, writes, browsers and       *)
(* changes of the database.  It adds to UiBackend without interfering, so  *)
(* the theorems about UiBackend hold of it.  Of the page it is shown that  *)
(* no client appears twice: the past clients of a message are those that   *)
(* its own list leaves out, and the two travel together.                   *)
(***************************************************************************)
EXTENDS LivePage, UiBackend_proofs

\* The conjuncts of PageTypeOK that are about the page.
PagePart ==
    /\ history \in SUBSET Macs
    /\ changes \in 0 .. MaxChanges
    /\ roundPast \in (SUBSET Macs) \cup {Nothing}
    /\ greetingPast \in [Viewers -> (SUBSET Macs) \cup {Nothing}]
    /\ page \in [Viewers -> {"none", "loading", "ready"}]
    /\ tables \in [Viewers -> Tables]
    /\ broadcaster \in {"waiting", "woken"} => roundPast = Nothing
    /\ \A v \in Viewers :
        /\ greetingPast[v] # Nothing => handler[v] \in {"generated", "pushing"}
        /\ page[v] = "none" => handler[v] = "idle"

\* A message that is being written has both of its parts.
Complete ==
    /\ broadcaster \in {"generated", "writing"} => round \in Feed!LeaseLists
    /\ broadcaster = "writing" => roundPast # Nothing
    /\ \A v \in Viewers :
        /\ handler[v] \in {"generated", "pushing"} => greeting[v] \in Feed!LeaseLists
        /\ handler[v] = "pushing" => greetingPast[v] # Nothing

\* Its parts have no client in common.
Disjoint ==
    /\ roundPast # Nothing => round.leases \cap roundPast = {}
    /\ \A v \in Viewers :
        greetingPast[v] # Nothing => greeting[v].leases \cap greetingPast[v] = {}

PageInv == PagePart /\ Complete /\ Disjoint /\ NoClientTwice

-----------------------------------------------------------------------------
(* The page leaves UiBackend alone.                                        *)

LEMMA StepOfBackend == [PageNext]_allVars => [Next]_vars
<1> SUFFICES ASSUME [PageNext]_allVars PROVE [Next]_vars
  OBVIOUS
<1>1. CASE HistoryChanges \/ ReadPastOfRound \/ ReadPastFails
  BY <1>1 DEF HistoryChanges, ReadPastOfRound, ReadPastFails
<1>2. CASE FeedStep
  BY <1>2 DEF FeedStep, Next
<1>3. CASE TickStep
  BY <1>3 DEF TickStep, Next, HubAlone, Hub!HubStep
<1>4. CASE BroadcasterStep
  <2>1. Hub!BroadcasterStep
    BY <1>4 DEF BroadcasterStep, Hub!BroadcasterStep
  <2>2. QED
    BY <1>4, <2>1 DEF BroadcasterStep, Next, HubAlone, Hub!HubStep
<1>5. ASSUME NEW v \in Viewers,
             RenderPage(v) \/ InitAll(v) \/ ReadPastOfGreeting(v)
      PROVE  UNCHANGED vars
  BY <1>5 DEF RenderPage, InitAll, ReadPastOfGreeting
<1>6. ASSUME NEW v \in Viewers, OpenWebSocket(v) PROVE Next
  BY <1>6 DEF OpenWebSocket, Next, HubAlone
<1>7. ASSUME NEW v \in Viewers, HandlerStep(v) PROVE Next
  <2>1. Hub!HandlerStep(v)
    BY <1>7 DEF HandlerStep, Hub!HandlerStep
  <2>2. QED
    BY <1>7, <2>1 DEF HandlerStep, Next, HubAlone, Hub!HubStep
<1>8. ASSUME NEW v \in Viewers, PeerStep(v) PROVE Next
  BY <1>8 DEF PeerStep, Next, HubAlone, Hub!HubStep
<1>9. CASE UNCHANGED allVars
  BY <1>9 DEF allVars
<1> QED
  BY <1>1, <1>2, <1>3, <1>4, <1>5, <1>6, <1>7, <1>8, <1>9 DEF PageNext

\* What is proved about UiBackend holds of it with the page on top.
THEOREM PageImplementsBackend == PageSpec => Spec
<1>1. PageInit => Init
  BY DEF PageInit
<1> QED
  BY <1>1, StepOfBackend, PTL DEF PageSpec, Spec

\* The lists of current clients that pages are sent follow the lease file, as in
\* UiBackend: no write is forgotten, and a pipeline at rest is current.
THEOREM PageListsFollow ==
    PageSpec => []NoWriteForgotten /\ []RestsCurrent /\ ImplementsHub
BY PageImplementsBackend, WritesReachBackend, RestIsCurrent, BackendImplementsHub,
   PTL

-----------------------------------------------------------------------------
(* The page.                                                               *)

LEMMA PastClientsDisjoint ==
    ASSUME NEW list \in Feed!LeaseLists, history \in SUBSET Macs
    PROVE  /\ PastClients(list) \in SUBSET Macs
           /\ list.leases \cap PastClients(list) = {}
  BY DEF PastClients, Feed!LeaseLists

\* A message whose parts are disjoint makes a page whose tables are.
LEMMA ShowKeepsTables ==
    ASSUME NEW v \in Viewers, NEW list \in Feed!LeaseLists,
           NEW past \in SUBSET Macs, list.leases \cap past = {},
           tables \in [Viewers -> Tables], NoClientTwice,
           Show(v, list, past)
    PROVE  tables' \in [Viewers -> Tables] /\ NoClientTwice'
<1> DEFINE rows == [current |-> list.leases, past |-> past]
<1>1. rows \in Tables
  BY DEF Tables, Feed!LeaseLists
<1>2. tables' = tables \/ tables' = [tables EXCEPT ![v] = rows]
  BY DEF Show
<1>3. rows.current \cap rows.past = {}
  OBVIOUS
<1> HIDE DEF rows
<1> QED
  BY <1>1, <1>2, <1>3 DEF NoClientTwice

LEMMA WriteRoundShows ==
    ASSUME PageInv, NEW v \in Viewers, Hub!WriteRound(v), Show(v, round, roundPast)
    PROVE  tables' \in [Viewers -> Tables] /\ NoClientTwice'
<1>1. broadcaster = "writing"
  BY DEF Hub!WriteRound
<1>2. /\ round \in Feed!LeaseLists /\ roundPast \in SUBSET Macs
      /\ round.leases \cap roundPast = {}
  BY <1>1 DEF PageInv, PagePart, Complete, Disjoint
<1>3. tables \in [Viewers -> Tables] /\ NoClientTwice
  BY DEF PageInv, PagePart
<1> QED
  BY <1>2, <1>3, ShowKeepsTables

LEMMA PushGreetingShows ==
    ASSUME PageInv, NEW v \in Viewers, Hub!PushGreeting(v),
           Show(v, greeting[v], greetingPast[v])
    PROVE  tables' \in [Viewers -> Tables] /\ NoClientTwice'
<1>1. handler[v] = "pushing"
  BY DEF Hub!PushGreeting
<1>2. /\ greeting[v] \in Feed!LeaseLists /\ greetingPast[v] \in SUBSET Macs
      /\ greeting[v].leases \cap greetingPast[v] = {}
  BY <1>1 DEF PageInv, PagePart, Complete, Disjoint
<1>3. tables \in [Viewers -> Tables] /\ NoClientTwice
  BY DEF PageInv, PagePart
<1> QED
  BY <1>2, <1>3, ShowKeepsTables

LEMMA PageInvInit == PageInit /\ Hub!HubTypeOK => PageInv
<1> SUFFICES ASSUME PageInit, Hub!HubTypeOK PROVE PageInv
  OBVIOUS
<1> USE DEF PageInit, Init, Hub!HubInit
<1>1. PagePart
  <2>1. NoRows \in Tables
    BY DEF NoRows, Tables
  <2>2. 0 \in 0 .. MaxChanges
    BY PageAssumption
  <2>3. QED
    BY <2>1, <2>2 DEF PagePart
<1>2. Complete /\ Disjoint
  BY DEF Complete, Disjoint
<1>3. NoClientTwice
  BY DEF NoClientTwice, NoRows
<1> QED
  BY <1>1, <1>2, <1>3 DEF PageInv

LEMMA PageInvStep ==
    ASSUME Feed!FeedTypeOK, Hub!HubTypeOK, PageInv, [PageNext]_allVars
    PROVE  PageInv'
<1> USE DEF PageInv, PagePart, Complete, Disjoint, NoClientTwice, hubVars, vars,
            dbVars, messageVars, browserVars, pageVars,
            Hub!feedVars, Hub!mapVars, Hub!roundVars, Hub!handlerVars,
            Hub!viewVars, Hub!Goto, Hub!Becomes, Hub!HubTypeOK
<1>1. CASE HistoryChanges
  BY <1>1, PageAssumption DEF HistoryChanges
<1>2. CASE ReadPastOfRound
  BY <1>2, PastClientsDisjoint DEF ReadPastOfRound
<1>3. CASE ReadPastFails
  BY <1>3, PageAssumption DEF ReadPastFails
<1>4. CASE FeedStep
  BY <1>4 DEF FeedStep, FeedAlone, StoreUpdate, Broadcast, Hub!BroadcastReceive
<1>5. CASE TickStep
  BY <1>5 DEF TickStep, Hub!BroadcastTick
<1>6. CASE BroadcasterStep
  <2> SUFFICES ASSUME UNCHANGED <<feedVars, dbVars, greetingPast, page>>
               PROVE  PageInv'
    BY <1>6 DEF BroadcasterStep
  <2>1. CASE Hub!SkipRound /\ UNCHANGED <<roundPast, tables>>
    BY <2>1 DEF Hub!SkipRound
  <2>2. CASE Hub!GenerateRound /\ UNCHANGED <<roundPast, tables>>
    BY <2>2 DEF Hub!GenerateRound, Hub!generateWebSocketMessage, Feed!FeedTypeOK
  <2>3. CASE roundPast # Nothing /\ Hub!LockClients /\ UNCHANGED <<roundPast, tables>>
    BY <2>3 DEF Hub!LockClients
  <2>4. ASSUME NEW v \in Viewers, Hub!WriteRound(v),
               Show(v, round, roundPast), UNCHANGED roundPast
        PROVE  PageInv'
    <3>1. tables' \in [Viewers -> Tables] /\ NoClientTwice'
      BY <2>4, WriteRoundShows
    <3>2. QED
      BY <2>4, <3>1 DEF Hub!WriteRound
  <2>5. ASSUME NEW v \in Viewers, Hub!WriteRoundFails(v),
               UNCHANGED <<roundPast, tables>>
        PROVE  PageInv'
    BY <2>5 DEF Hub!WriteRoundFails
  <2>6. CASE Hub!UnlockClients /\ roundPast' = Nothing /\ UNCHANGED tables
    <3>1. PagePart'
      BY <2>6 DEF Hub!UnlockClients
    <3>2. Complete'
      BY <2>6 DEF Hub!UnlockClients
    <3>3. Disjoint'
      BY <2>6 DEF Hub!UnlockClients
    <3>4. QED
      BY <2>6, <3>1, <3>2, <3>3
  <2>7. QED
    BY <1>6, <2>1, <2>2, <2>3, <2>4, <2>5, <2>6 DEF BroadcasterStep
<1>7. ASSUME NEW v \in Viewers, RenderPage(v) PROVE PageInv'
  BY <1>7 DEF RenderPage
<1>8. ASSUME NEW v \in Viewers, OpenWebSocket(v) PROVE PageInv'
  BY <1>8 DEF OpenWebSocket, Hub!Upgrade
<1>9. ASSUME NEW v \in Viewers, InitAll(v) PROVE PageInv'
  BY <1>9 DEF InitAll
<1>10. ASSUME NEW v \in Viewers, ReadPastOfGreeting(v) PROVE PageInv'
  BY <1>10, PastClientsDisjoint DEF ReadPastOfGreeting
<1>11. ASSUME NEW v \in Viewers, HandlerStep(v) PROVE PageInv'
  <2> SUFFICES ASSUME UNCHANGED <<feedVars, dbVars, roundPast, page>>
               PROVE  PageInv'
    BY <1>11 DEF HandlerStep
  <2>1. CASE Hub!GenerateGreeting(v) /\ UNCHANGED <<greetingPast, tables>>
    BY <2>1 DEF Hub!GenerateGreeting, Hub!generateWebSocketMessage, Feed!FeedTypeOK
  <2>2. CASE greetingPast[v] # Nothing /\ Hub!Register(v)
             /\ UNCHANGED <<greetingPast, tables>>
    BY <2>2 DEF Hub!Register
  <2>3. CASE (Hub!ReadFails(v) \/ Hub!Unregister(v))
             /\ UNCHANGED <<greetingPast, tables>>
    BY <2>3 DEF Hub!ReadFails, Hub!Unregister
  <2>4. CASE /\ Hub!PushGreeting(v) /\ Show(v, greeting[v], greetingPast[v])
             /\ greetingPast' = [greetingPast EXCEPT ![v] = Nothing]
    <3>1. tables' \in [Viewers -> Tables] /\ NoClientTwice'
      BY <2>4, PushGreetingShows
    <3>2. PagePart'
      BY <2>4, <3>1 DEF Hub!PushGreeting
    <3>3. Complete'
      BY <2>4 DEF Hub!PushGreeting
    <3>4. Disjoint'
      BY <2>4 DEF Hub!PushGreeting
    <3>5. QED
      BY <3>1, <3>2, <3>3, <3>4
  <2>5. CASE /\ Hub!PushFails(v) /\ UNCHANGED tables
             /\ greetingPast' = [greetingPast EXCEPT ![v] = Nothing]
    <3>1. PagePart'
      BY <2>5 DEF Hub!PushFails
    <3>2. Complete'
      BY <2>5 DEF Hub!PushFails
    <3>3. Disjoint'
      BY <2>5 DEF Hub!PushFails
    <3>4. QED
      BY <2>5, <3>1, <3>2, <3>3
  <2>6. QED
    BY <1>11, <2>1, <2>2, <2>3, <2>4, <2>5 DEF HandlerStep
<1>12. ASSUME NEW v \in Viewers, PeerStep(v) PROVE PageInv'
  BY <1>12 DEF PeerStep, Hub!PeerStep, Hub!Leave, Hub!Stall, Hub!Resume
<1>13. CASE UNCHANGED allVars
  BY <1>13 DEF allVars
<1> QED
  BY <1>1, <1>2, <1>3, <1>4, <1>5, <1>6, <1>7, <1>8, <1>9, <1>10, <1>11, <1>12,
     <1>13 DEF PageNext

-----------------------------------------------------------------------------
\* All of the above holds of every reachable state, with the types of UiBackend.
THEOREM PageInvariant == PageSpec => [](TypeOK /\ PageInv)
<1>1. PageSpec => [](Feed!FeedTypeOK /\ Hub!HubTypeOK)
  BY PageImplementsBackend, FeedHolds, HubHolds, PTL
<1> QED
  BY <1>1, PageInvInit, PageInvStep, PTL DEF PageSpec, TypeOK

\* What the server and the page keep of a message has its type wherever it
\* stands, for any number of browsers (uibackend.go 166-309).
THEOREM PageTypeCorrect == PageSpec => []PageTypeOK
<1>1. TypeOK /\ PageInv => PageTypeOK
  BY DEF PageInv, PagePart, PageTypeOK
<1> QED
  BY <1>1, PageInvariant, PTL

\* No page ever shows a client as current and as past at once, whatever changes
\* between the copy of the list, the query and the write (uibackend.go 170-196).
THEOREM PageShowsNoClientTwice == PageSpec => []NoClientTwice
<1>1. PageInv => NoClientTwice
  BY DEF PageInv
<1> QED
  BY <1>1, PageInvariant, PTL
=============================================================================
