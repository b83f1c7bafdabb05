-------------------------- MODULE LeaseFeed_proofs --------------------------
(***************************************************************************)
(* Proofs about LeaseFeed, for any set of DHCP clients and any number of   *)
(* writes of the lease file.  NoWriteForgotten is inductive once one knows *)
(* that nothing travels before the watch is installed.                     *)
(***************************************************************************)
EXTENDS LeaseFeed, TLAPS

NothingBeforeWatch == watcher = "starting" => ~event /\ processor = "receiving"

FeedInv == FeedTypeOK /\ NothingBeforeWatch /\ NoWriteForgotten

LEMMA LeaseListType ==
    ASSUME NEW n \in Nat, NEW leases \in SUBSET Macs
    PROVE  [write |-> n, leases |-> leases] \in LeaseLists
BY DEF LeaseLists

LEMMA NoLeasesType == NoLeases \in LeaseLists
BY LeaseListType DEF NoLeases

LEMMA WriteType ==
    ASSUME leaseFile \in LeaseLists, NEW leases \in SUBSET Macs, Write(leases)
    PROVE  leaseFile' \in LeaseLists
<1>1. leaseFile.write + 1 \in Nat
  BY DEF LeaseLists
<1> QED
  BY <1>1, LeaseListType DEF Write

LEMMA FeedInvInit == FeedInit => FeedInv
<1> SUFFICES ASSUME FeedInit PROVE FeedInv
  OBVIOUS
<1>1. leaseFile \in LeaseLists
  BY LeaseListType DEF FeedInit
<1> QED
  BY <1>1, NoLeasesType
     DEF FeedInit, FeedInv, FeedTypeOK, NothingBeforeWatch, NoWriteForgotten

LEMMA FeedInvStep == FeedInv /\ [FeedNext]_feedVars => FeedInv'
<1> SUFFICES ASSUME FeedInv, [FeedNext]_feedVars PROVE FeedInv'
  OBVIOUS
<1> USE NoLeasesType
    DEF FeedInv, FeedTypeOK, NothingBeforeWatch, NoWriteForgotten, Underway,
        dnsmasqVars, watcherVars, processorVars
\* A write leaves an event behind, or is the missed one.
<1>1. CASE Truncate
  <2>1. {} \in SUBSET Macs
    OBVIOUS
  <2>2. leaseFile' \in LeaseLists
    BY <1>1, <2>1, WriteType DEF Truncate
  <2> QED
    BY <1>1, <2>2 DEF Truncate, Write
<1>2. CASE WriteBack
  <2>1. PICK leases \in SUBSET Macs : Write(leases)
    BY <1>2 DEF WriteBack
  <2>2. leaseFile' \in LeaseLists
    BY <2>1, WriteType
  <2> QED
    BY <1>2, <2>1, <2>2 DEF WriteBack, Write
<1>3. CASE InstallWatch
  BY <1>3 DEF InstallWatch
<1>4. CASE ReadEvent
  BY <1>4 DEF ReadEvent
<1>5. CASE EndWatch
  BY <1>5 DEF EndWatch
\* The newest update replaces the older ones, and it is the newest content.
<1>6. CASE ReceiveUpdate
  BY <1>6 DEF ReceiveUpdate
<1>7. CASE EndDebounce
  BY <1>7 DEF EndDebounce
<1>8. CASE StatLeaseFile
  BY <1>8 DEF StatLeaseFile
<1>9. CASE ReloadLeaseFile
  BY <1>9 DEF ReloadLeaseFile
<1>10. CASE RecoveryFails
  BY <1>10 DEF RecoveryFails
<1>11. CASE StoreUpdate
  BY <1>11 DEF StoreUpdate
<1>12. CASE Notify
  BY <1>12 DEF Notify
<1>13. CASE UNCHANGED feedVars
  BY <1>13 DEF feedVars
<1> QED
  BY <1>1, <1>2, <1>3, <1>4, <1>5, <1>6, <1>7, <1>8, <1>9, <1>10, <1>11,
     <1>12, <1>13 DEF FeedNext, DnsmasqStep, WatcherStep, ProcessorStep

\* The variables of the feed keep their types.
THEOREM FeedTypeCorrect == FeedSpec => []FeedTypeOK
<1>1. FeedInv => FeedTypeOK
  BY DEF FeedInv
<1> QED
  BY <1>1, FeedInvInit, FeedInvStep, PTL DEF FeedSpec

\* No write of the lease file after the watch was installed is forgotten.
THEOREM WritesAreFollowed == FeedSpec => []NoWriteForgotten
<1>1. FeedInv => NoWriteForgotten
  BY DEF FeedInv
<1> QED
  BY <1>1, FeedInvInit, FeedInvStep, PTL DEF FeedSpec
=============================================================================
