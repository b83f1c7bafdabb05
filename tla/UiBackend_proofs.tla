-------------------------- MODULE UiBackend_proofs --------------------------
(***************************************************************************)
(* The composed backend implements both of its parts, so what is proved    *)
(* about them holds of it, and together it gives the end-to-end property:  *)
(* a pipeline at rest shows the lease file.  For any number of DHCP        *)
(* clients, writes and browsers.                                           *)
(*                                                                         *)
(* FeedP and HubP are the parts with their theorems.  They are the same    *)
(* formulas as Feed and Hub in UiBackend, which the first lemmas record.   *)
(***************************************************************************)
EXTENDS UiBackend, TLAPS

FeedP == INSTANCE LeaseFeed_proofs
HubP == INSTANCE WebSocketHub_proofs
          WITH Snapshots <- Feed!LeaseLists,
               notifying <- (processor = "notifying")

LEMMA SameFeed ==
    /\ Feed!FeedInit <=> FeedP!FeedInit
    /\ Feed!FeedNext <=> FeedP!FeedNext
    /\ (UNCHANGED Feed!feedVars) <=> (UNCHANGED FeedP!feedVars)
    /\ Feed!FeedTypeOK <=> FeedP!FeedTypeOK
    /\ Feed!NoWriteForgotten <=> FeedP!NoWriteForgotten
<1>1. Feed!FeedInit <=> FeedP!FeedInit
  BY DEF Feed!FeedInit, FeedP!FeedInit, Feed!NoLeases, FeedP!NoLeases,
         Feed!Empty, FeedP!Empty
<1>2. Feed!DnsmasqStep <=> FeedP!DnsmasqStep
  BY DEF Feed!DnsmasqStep, Feed!Truncate, Feed!WriteBack, Feed!Write,
         Feed!watcherVars, Feed!processorVars,
         FeedP!DnsmasqStep, FeedP!Truncate, FeedP!WriteBack, FeedP!Write,
         FeedP!watcherVars, FeedP!processorVars
<1>3. Feed!WatcherStep <=> FeedP!WatcherStep
  BY DEF Feed!WatcherStep, Feed!InstallWatch, Feed!ReadEvent, Feed!EndWatch,
         Feed!dnsmasqVars, Feed!processorVars,
         FeedP!WatcherStep, FeedP!InstallWatch, FeedP!ReadEvent, FeedP!EndWatch,
         FeedP!dnsmasqVars, FeedP!processorVars
<1>4. Feed!ProcessorStep <=> FeedP!ProcessorStep
  BY DEF Feed!ProcessorStep, Feed!ReceiveUpdate, Feed!EndDebounce,
         Feed!StatLeaseFile, Feed!ReloadLeaseFile, Feed!RecoveryFails,
         Feed!NoLeases, Feed!Empty, Feed!dnsmasqVars, Feed!watcherVars,
         FeedP!ProcessorStep, FeedP!ReceiveUpdate, FeedP!EndDebounce,
         FeedP!StatLeaseFile, FeedP!ReloadLeaseFile, FeedP!RecoveryFails,
         FeedP!NoLeases, FeedP!Empty, FeedP!dnsmasqVars, FeedP!watcherVars
<1>5. /\ Feed!StoreUpdate <=> FeedP!StoreUpdate
      /\ Feed!Notify <=> FeedP!Notify
  BY DEF Feed!StoreUpdate, Feed!Notify, Feed!NoLeases, Feed!dnsmasqVars,
         Feed!watcherVars, FeedP!StoreUpdate, FeedP!Notify, FeedP!NoLeases,
         FeedP!dnsmasqVars, FeedP!watcherVars
<1>6. Feed!FeedNext <=> FeedP!FeedNext
  BY <1>2, <1>3, <1>4, <1>5 DEF Feed!FeedNext, FeedP!FeedNext
<1>7. (UNCHANGED Feed!feedVars) <=> (UNCHANGED FeedP!feedVars)
  BY DEF Feed!feedVars, Feed!dnsmasqVars, Feed!watcherVars, Feed!processorVars,
         FeedP!feedVars, FeedP!dnsmasqVars, FeedP!watcherVars,
         FeedP!processorVars
<1>8. Feed!FeedTypeOK <=> FeedP!FeedTypeOK
  BY DEF Feed!FeedTypeOK, Feed!LeaseLists, FeedP!FeedTypeOK, FeedP!LeaseLists
<1>9. Feed!NoWriteForgotten <=> FeedP!NoWriteForgotten
  BY DEF Feed!NoWriteForgotten, Feed!Underway,
         FeedP!NoWriteForgotten, FeedP!Underway
<1> QED
  BY <1>1, <1>6, <1>7, <1>8, <1>9

LEMMA SameHub ==
    /\ Hub!HubInit <=> HubP!HubInit
    /\ Hub!HubNext <=> HubP!HubNext
    /\ (UNCHANGED Hub!hubVars) <=> (UNCHANGED HubP!hubVars)
    /\ Hub!HubTypeOK <=> HubP!HubTypeOK
    /\ Hub!NoUpdateForgotten <=> HubP!NoUpdateForgotten
<1> USE DEF Hub!feedVars, Hub!mapVars, Hub!roundVars, Hub!handlerVars,
            Hub!viewVars, Hub!Goto, Hub!Becomes, Hub!generateWebSocketMessage,
            HubP!feedVars, HubP!mapVars, HubP!roundVars, HubP!handlerVars,
            HubP!viewVars, HubP!Goto, HubP!Becomes, HubP!generateWebSocketMessage
<1>1. Hub!HubInit <=> HubP!HubInit
  BY DEF Hub!HubInit, HubP!HubInit
<1>2. /\ Hub!StoreUpdate <=> HubP!StoreUpdate
      /\ Hub!BroadcastReceive <=> HubP!BroadcastReceive
      /\ Hub!BroadcastTick <=> HubP!BroadcastTick
  BY DEF Hub!StoreUpdate, Hub!BroadcastReceive, Hub!BroadcastTick,
         HubP!StoreUpdate, HubP!BroadcastReceive, HubP!BroadcastTick
<1>3. Hub!BroadcasterStep <=> HubP!BroadcasterStep
  BY DEF Hub!BroadcasterStep, Hub!SkipRound, Hub!GenerateRound,
         Hub!LockClients, Hub!UnlockClients, Hub!WriteRound,
         Hub!WriteRoundFails,
         HubP!BroadcasterStep, HubP!SkipRound, HubP!GenerateRound,
         HubP!LockClients, HubP!UnlockClients, HubP!WriteRound,
         HubP!WriteRoundFails
<1>4. \A v \in Viewers : Hub!HandlerStep(v) <=> HubP!HandlerStep(v)
  BY DEF Hub!HandlerStep, Hub!GenerateGreeting, Hub!Register,
         Hub!PushGreeting, Hub!PushFails, Hub!PushPanics, Hub!ReadFails,
         Hub!Unregister,
         HubP!HandlerStep, HubP!GenerateGreeting, HubP!Register,
         HubP!PushGreeting, HubP!PushFails, HubP!PushPanics, HubP!ReadFails,
         HubP!Unregister
<1>5. \A v \in Viewers : /\ Hub!Upgrade(v) <=> HubP!Upgrade(v)
                         /\ Hub!PeerStep(v) <=> HubP!PeerStep(v)
  BY DEF Hub!Upgrade, Hub!PeerStep, Hub!Leave, Hub!Stall, Hub!Resume,
         HubP!Upgrade, HubP!PeerStep, HubP!Leave, HubP!Stall, HubP!Resume
<1>6. Hub!HubNext <=> HubP!HubNext
  BY <1>2, <1>3, <1>4, <1>5
     DEF Hub!HubNext, Hub!HubStep, HubP!HubNext, HubP!HubStep
<1>7. (UNCHANGED Hub!hubVars) <=> (UNCHANGED HubP!hubVars)
  BY DEF Hub!hubVars, Hub!ownVars, HubP!hubVars, HubP!ownVars
<1>8. Hub!NoUpdateForgotten <=> HubP!NoUpdateForgotten
  BY DEF Hub!NoUpdateForgotten, Hub!OnItsWay, Hub!Up,
         HubP!NoUpdateForgotten, HubP!OnItsWay, HubP!Up
<1>9. Hub!HubTypeOK <=> HubP!HubTypeOK
  BY DEF Hub!HubTypeOK, Hub!Messages, HubP!HubTypeOK, HubP!Messages
<1> QED
  BY <1>1, <1>6, <1>7, <1>8, <1>9

-----------------------------------------------------------------------------
(* Every step of the composition is one of the feed, or leaves it alone.   *)

LEMMA StepOfFeed == [Next]_vars => [Feed!FeedNext]_(Feed!feedVars)
<1> SUFFICES ASSUME [Next]_vars PROVE [Feed!FeedNext]_(Feed!feedVars)
  OBVIOUS
<1>1. CASE FeedAlone
  BY <1>1 DEF FeedAlone, Feed!FeedNext
<1>2. CASE StoreUpdate
  BY <1>2 DEF StoreUpdate, Feed!FeedNext
<1>3. CASE Broadcast
  BY <1>3 DEF Broadcast, Feed!FeedNext
<1>4. CASE UNCHANGED feedVars
  BY <1>4 DEF feedVars, Feed!feedVars, Feed!dnsmasqVars, Feed!watcherVars,
              Feed!processorVars
<1> QED
  BY <1>1, <1>2, <1>3, <1>4 DEF Next, HubAlone, vars

\* The composition implements the feed.
THEOREM ImplementsFeed == Spec => Feed!FeedSpec
<1>1. Init => Feed!FeedInit
  BY DEF Init
<1> QED
  BY <1>1, StepOfFeed, PTL DEF Spec, Feed!FeedSpec

\* What the theorems about the feed say of the composition.
THEOREM FeedHolds == Spec => [](Feed!FeedTypeOK /\ Feed!NoWriteForgotten)
<1>1. FeedP!FeedSpec => []FeedP!FeedTypeOK /\ []FeedP!NoWriteForgotten
  BY FeedP!FeedTypeCorrect, FeedP!WritesAreFollowed
<1>2. Init => FeedP!FeedInit
  BY SameFeed DEF Init
<1>3. [Next]_vars => [FeedP!FeedNext]_(FeedP!feedVars)
  BY StepOfFeed, SameFeed
<1>4. Spec => FeedP!FeedSpec
  BY <1>2, <1>3, PTL DEF Spec, FeedP!FeedSpec
<1> QED
  BY <1>1, <1>4, SameFeed, PTL

-----------------------------------------------------------------------------
(* Every step of the composition is one of the hub, or leaves it alone.    *)

LEMMA StepOfHub ==
    Feed!FeedTypeOK /\ [Next]_vars => [Hub!HubNext]_(Hub!hubVars)
<1> SUFFICES ASSUME Feed!FeedTypeOK, [Next]_vars
             PROVE  [Hub!HubNext]_(Hub!hubVars)
  OBVIOUS
<1> USE DEF hubVars, Hub!hubVars, Hub!ownVars, Hub!feedVars, Hub!mapVars,
            Hub!roundVars, Hub!handlerVars, Hub!viewVars
\* The feed neither stores a list nor starts or ends a notification.
<1>1. CASE FeedAlone
  <2>1. dhcpClientData' = dhcpClientData
        /\ (processor' = "notifying" <=> processor = "notifying")
    BY <1>1
       DEF FeedAlone, Feed!DnsmasqStep, Feed!Truncate, Feed!WriteBack,
           Feed!Write, Feed!WatcherStep, Feed!InstallWatch, Feed!ReadEvent,
           Feed!EndWatch, Feed!ProcessorStep, Feed!ReceiveUpdate,
           Feed!EndDebounce, Feed!StatLeaseFile, Feed!ReloadLeaseFile,
           Feed!RecoveryFails, Feed!dnsmasqVars, Feed!watcherVars,
           Feed!processorVars
  <2> QED
    BY <1>1, <2>1 DEF FeedAlone
\* It stores a list of the right type, and goes on to announce it.
<1>2. CASE StoreUpdate
  <2>1. Hub!StoreUpdate
    BY <1>2 DEF StoreUpdate, Feed!StoreUpdate, Feed!FeedTypeOK, Hub!StoreUpdate
  <2> QED
    BY <2>1 DEF Hub!HubNext
<1>3. CASE Broadcast
  BY <1>3 DEF Broadcast, Hub!HubNext
<1>4. CASE HubAlone
  BY <1>4 DEF HubAlone, Hub!HubNext
<1>5. CASE UNCHANGED vars
  BY <1>5 DEF vars, feedVars
<1> QED
  BY <1>1, <1>2, <1>3, <1>4, <1>5 DEF Next

\* The composition implements the hub with its abstract producer: the list is
\* replaced only when the last one has been announced.
THEOREM BackendImplementsHub == Spec => ImplementsHub
<1>1. Init => Hub!HubInit
  BY DEF Init
<1> QED
  BY <1>1, StepOfHub, FeedHolds, PTL DEF Spec, ImplementsHub, Hub!HubSpec

\* What the theorems about the hub say of the composition.
THEOREM HubHolds == Spec => [](Hub!HubTypeOK /\ Hub!NoUpdateForgotten)
<1>1. HubP!HubSpec => []HubP!HubTypeOK /\ []HubP!NoUpdateForgotten
  BY HubP!TypeCorrect, HubP!UpdatesAreDelivered, UiAssumption
<1>2. Init => HubP!HubInit
  BY SameHub DEF Init
<1>3. Feed!FeedTypeOK /\ [Next]_vars => [HubP!HubNext]_(HubP!hubVars)
  BY StepOfHub, SameHub
<1>4. Spec => HubP!HubSpec
  BY <1>2, <1>3, FeedHolds, PTL DEF Spec, HubP!HubSpec
<1> QED
  BY <1>1, <1>4, SameHub, PTL

\* No write of the lease file after the watch was installed is forgotten.
THEOREM WritesReachBackend == Spec => []NoWriteForgotten
BY FeedHolds, PTL DEF NoWriteForgotten

\* End to end: a pipeline at rest shows the lease file in every connected
\* browser, but for the two windows that missed and late record.
THEOREM RestIsCurrent == Spec => []RestsCurrent
<1>1. Feed!NoWriteForgotten /\ Hub!NoUpdateForgotten => RestsCurrent
  BY DEF RestsCurrent, Quiet, Feed!NoWriteForgotten, Feed!Underway,
         Hub!NoUpdateForgotten, Hub!OnItsWay
<1> QED
  BY <1>1, FeedHolds, HubHolds, PTL

\* The variables keep their types in both parts.
THEOREM BackendTypeCorrect == Spec => []TypeOK
BY FeedHolds, HubHolds, PTL DEF TypeOK

=============================================================================
