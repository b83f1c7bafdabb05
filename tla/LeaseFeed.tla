----------------------------- MODULE LeaseFeed ------------------------------
(***************************************************************************)
(* How the UI backend (backend/pkg/uibackend) follows dnsmasq.leases:      *)
(* readCurrentLeaseFile takes a baseline, dnsmasq.WatchLeases (external)   *)
(* posts the content of the file on leasesCh at each inotify event, and    *)
(* processLeaseUpdates debounces these updates, tries to recover from      *)
(* unexpectedly empty ones, replaces b.dhcpClientData and announces that   *)
(* on broadcastCh.  Both channels are unbuffered.                          *)
(*                                                                         *)
(* A content of the file is the set of leased MACs, numbered by the write  *)
(* that produced it; the metadata that processLeaseUpdatesFromArray adds   *)
(* to each lease is left out.                                              *)
(***************************************************************************)
EXTENDS Naturals

CONSTANTS
    Macs,           \* the DHCP clients
    MaxWrites       \* bound: how often dnsmasq writes the lease file

VARIABLES
    leaseFile,      \* dnsmasq.leases: its leases and the number of the write
    rewriting,      \* dnsmasq has truncated the file and not yet filled it
    event,          \* inotify holds an unread event (equal events coalesce)
    watcher,        \* where the goroutine of WatchLeases is
    read,           \* what WatchLeases last read, to be sent on leasesCh
    processor,      \* where processLeaseUpdates is
    update,         \* its local updatedLeases; NoLeases when out of scope
    dhcpClientData, \* b.dhcpClientData
    missed          \* history: the file was last written after the baseline
                    \* was read and before the watch was installed

dnsmasqVars == <<leaseFile, rewriting, event, missed>>
watcherVars == <<watcher, read>>
processorVars == <<processor, update>>
feedVars == <<dnsmasqVars, watcherVars, processorVars, dhcpClientData>>

LeaseLists == [write : Nat, leases : SUBSET Macs]
Empty(list) == list.leases = {}
NoLeases == [write |-> 0, leases |-> {}]

FeedTypeOK ==
    /\ leaseFile \in LeaseLists
    /\ rewriting \in BOOLEAN
    /\ event \in BOOLEAN
    /\ watcher \in {"starting", "watching", "sending", "ended"}
    /\ read \in LeaseLists
    /\ processor \in {"receiving", "debouncing", "stat", "reload", "storing",
                      "notifying"}
    /\ update \in LeaseLists
    /\ dhcpClientData \in LeaseLists
    /\ missed \in BOOLEAN

\* ListenAndServe has read the baseline, from a file that dnsmasq may be in the
\* middle of rewriting, and has started the goroutines.
FeedInit ==
    /\ \E leases \in SUBSET Macs : leaseFile = [write |-> 0, leases |-> leases]
    /\ rewriting \in BOOLEAN
    /\ rewriting => Empty(leaseFile)
    /\ event = FALSE
    /\ watcher = "starting"
    /\ read = NoLeases
    /\ processor = "receiving"
    /\ update = NoLeases
    /\ dhcpClientData = leaseFile
    /\ missed = FALSE

-----------------------------------------------------------------------------
(* dnsmasq (external) rewrites the whole lease file in place, as           *)
(* recoverUnexpectedEmptyLeaseUpdate expects of it: readers may find it    *)
(* empty.  A write before the watch is installed raises no event.          *)

Write(leases) ==
    /\ leaseFile' = [write |-> leaseFile.write + 1, leases |-> leases]
    /\ event' = (event \/ watcher # "starting")
    /\ missed' = (watcher = "starting")
    /\ UNCHANGED <<watcherVars, processorVars, dhcpClientData>>

Truncate ==
    /\ ~rewriting
    /\ leaseFile.write + 2 <= MaxWrites
    /\ rewriting' = TRUE
    /\ Write({})

WriteBack ==
    /\ rewriting
    /\ rewriting' = FALSE
    /\ \E leases \in SUBSET Macs : Write(leases)

-----------------------------------------------------------------------------
(* dnsmasq.WatchLeases (external) runs in a goroutine of its own: the watch *)
(* is installed some time after the baseline was read.                     *)

InstallWatch ==
    /\ watcher = "starting"
    /\ watcher' = "watching"
    /\ UNCHANGED <<dnsmasqVars, read, processorVars, dhcpClientData>>

ReadEvent ==
    /\ watcher = "watching"
    /\ event
    /\ event' = FALSE
    /\ read' = leaseFile
    /\ watcher' = "sending"
    /\ UNCHANGED <<leaseFile, rewriting, missed, processorVars, dhcpClientData>>

\* WatchLeases fails: the error is logged and nobody restarts the watch.
EndWatch ==
    /\ watcher \in {"starting", "watching"}
    /\ watcher' = "ended"
    /\ UNCHANGED <<dnsmasqVars, read, processorVars, dhcpClientData>>

-----------------------------------------------------------------------------
(* processLeaseUpdates                                                     *)

\* Faulty variant: the updates received during the debounce are dropped.
ReceiveUpdateFirstWins ==
    /\ watcher = "sending"
    /\ processor \in {"receiving", "debouncing"}
    /\ watcher' = "watching"
    /\ update' = IF processor = "debouncing" THEN update ELSE read
    /\ read' = NoLeases
    /\ processor' = "debouncing"
    /\ UNCHANGED <<dnsmasqVars, dhcpClientData>>

\* The first receive, or one during the debounce, which starts the timer anew:
\* the newest update replaces the older ones.
ReceiveUpdate ==
    /\ watcher = "sending"
    /\ processor \in {"receiving", "debouncing"}
    /\ watcher' = "watching"
    /\ update' = read
    /\ read' = NoLeases
    /\ processor' = "debouncing"
    /\ UNCHANGED <<dnsmasqVars, dhcpClientData>>

\* Faulty variant: an unexpectedly empty update is dropped.
EndDebounceDropping ==
    /\ processor = "debouncing"
    /\ processor' = IF Empty(update) /\ ~Empty(dhcpClientData)
                    THEN "receiving" ELSE "storing"
    /\ UNCHANGED <<dnsmasqVars, watcherVars, update, dhcpClientData>>

\* The timer fires.  An empty update after a non-empty list is checked.
EndDebounce ==
    /\ processor = "debouncing"
    /\ processor' = IF Empty(update) /\ ~Empty(dhcpClientData)
                    THEN "stat" ELSE "storing"
    /\ UNCHANGED <<dnsmasqVars, watcherVars, update, dhcpClientData>>

\* An empty file confirms the update.
StatLeaseFile ==
    /\ processor = "stat"
    /\ processor' = IF Empty(leaseFile) THEN "storing" ELSE "reload"
    /\ UNCHANGED <<dnsmasqVars, watcherVars, update, dhcpClientData>>

ReloadLeaseFile ==
    /\ processor = "reload"
    /\ update' = IF Empty(leaseFile) THEN update ELSE leaseFile
    /\ processor' = "storing"
    /\ UNCHANGED <<dnsmasqVars, watcherVars, dhcpClientData>>

\* The file cannot be examined, opened or parsed: the update is taken as is.
RecoveryFails ==
    /\ processor \in {"stat", "reload"}
    /\ processor' = "storing"
    /\ UNCHANGED <<dnsmasqVars, watcherVars, update, dhcpClientData>>

\* Faulty variant: the new list is not announced.
StoreUpdateSilently ==
    /\ processor = "storing"
    /\ dhcpClientData' = update
    /\ update' = NoLeases
    /\ processor' = "receiving"
    /\ UNCHANGED <<dnsmasqVars, watcherVars>>

\* processLeaseUpdatesFromArray
StoreUpdate ==
    /\ processor = "storing"
    /\ dhcpClientData' = update
    /\ update' = NoLeases
    /\ processor' = "notifying"
    /\ UNCHANGED <<dnsmasqVars, watcherVars>>

\* The send on broadcastCh: it waits for the broadcaster.
Notify ==
    /\ processor = "notifying"
    /\ processor' = "receiving"
    /\ UNCHANGED <<dnsmasqVars, watcherVars, update, dhcpClientData>>

-----------------------------------------------------------------------------
DnsmasqStep == Truncate \/ WriteBack

WatcherStep == InstallWatch \/ ReadEvent \/ EndWatch

\* The steps of processLeaseUpdates that nobody else takes part in.
ProcessorStep ==
    \/ ReceiveUpdate \/ EndDebounce
    \/ StatLeaseFile \/ ReloadLeaseFile \/ RecoveryFails

FeedNext ==
    \/ DnsmasqStep \/ WatcherStep
    \/ ProcessorStep \/ StoreUpdate \/ Notify

FeedSpec == FeedInit /\ [][FeedNext]_feedVars

-----------------------------------------------------------------------------
(* What the feed promises.                                                 *)

\* The current content of the file is still making its way to dhcpClientData.
\* A file that changes behind what is on its way raises an event of its own.
Underway ==
    \/ event
    \/ watcher = "sending"
    \/ processor \in {"debouncing", "stat", "reload", "storing"}

\* No write of the lease file is forgotten: whatever a debounce drops, however
\* an empty update is recovered and wherever the watcher and the processor
\* wait for each other, the list is current or its replacement is underway,
\* and what is underway ends with the current content.  Excepted are a watch
\* that ended and writes in the gap between the baseline (uibackend.go:844)
\* and the watch (852).
NoWriteForgotten ==
    watcher # "ended" /\ ~missed =>
        /\ dhcpClientData = leaseFile \/ Underway
        /\ watcher = "sending" /\ ~event => read = leaseFile
        /\ processor \in {"debouncing", "stat", "reload", "storing"}
           /\ watcher # "sending" /\ ~event => update = leaseFile
=============================================================================
