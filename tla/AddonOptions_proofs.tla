------------------------- MODULE AddonOptions_proofs -------------------------
(***************************************************************************)
(* Proofs about AddonOptions, ClientMetadata and IpPool, for all networks, *)
(* MAC addresses and entries, and for addresses of any width.              *)
(***************************************************************************)
EXTENDS ClientMetadata, SequenceTheorems, FiniteSetTheorems,
        WellFoundedInduction, TLAPS

USE DEF progress, pools, indexes, entriesRead, rest

-----------------------------------------------------------------------------
(* The settings made of an entry are of their type: appending the domain to  *)
(* an alias gives a name again.                                              *)
LEMMA ClientSettingsType ==
  ASSUME OptionsTypeOK, NEW entry \in SettingEntries
  PROVE  /\ ClientSettings(entry) \in Settings
         /\ ClientSettings(entry) # NoSettings
         /\ ClientSettings(entry).mac = entry.mac
         /\ ClientSettings(entry).ip = entry.ip
<1>1. entry.alias \in Seq(Labels)
  <2>1. entry.alias \in Aliases \/ entry.alias = <<>>
    BY Zenon DEF SettingEntries, NoAlias
  <2>2. Aliases \subseteq Seq(Labels) /\ <<>> \in Seq(Labels)
    BY AddonOptionsAssumption
  <2> QED
    BY <2>1, <2>2, Zenon
<1>2. DnsDomain \in Seq(Labels)
  <2>1. NoLabel \in Labels /\ "-" \in Labels /\ "lan" \in Labels /\ "local" \in Labels
    BY AddonOptionsAssumption
  <2>2. /\ <<NoLabel>> \in Seq(Labels) /\ <<"-">> \in Seq(Labels)
        /\ <<"lan">> \in Seq(Labels) /\ <<"local">> \in Seq(Labels)
    BY <2>1
  <2> QED
    BY <2>2, Zenon DEF OptionsTypeOK, Domains
<1>3. loadDnsAliases(entry.alias, DnsDomain) \in Seq(Labels)
  BY <1>1, <1>2 DEF loadDnsAliases
<1> QED
  BY <1>3, AddonOptionsAssumption DEF ClientSettings, SettingEntries, Settings

(* The types of the options are an invariant by themselves; a range that is *)
(* accepted consists of private addresses, so it parsed.                     *)
THEOREM OptionsTypeCorrect == Spec => []OptionsTypeOK
<1>1. Init => OptionsTypeOK
  <2>1. Init => DnsDomain \in Domains
    BY Zenon DEF Init, Domains
  <2> QED
    BY <2>1 DEF Init, OptionsTypeOK
<1>2. OptionsTypeOK /\ [Next]_vars => OptionsTypeOK'
  <2> SUFFICES ASSUME OptionsTypeOK, [Next]_vars
               PROVE  OptionsTypeOK'
    OBVIOUS
  <2>1. ASSUME NEW nw \in Networks, LoadNetwork(nw)
        PROVE  OptionsTypeOK'
    <3>1. [start |-> nw.start, end |-> nw.end] \in [start : IPs, end : IPs]
      BY <2>1, IpPoolAssumption DEF LoadNetwork, AcceptsNetwork, HasValidIPs
    <3> QED
      BY <2>1, <3>1 DEF LoadNetwork, OptionsTypeOK
  <2>2. ASSUME NEW nw \in Networks, RefuseNetwork(nw)
        PROVE  OptionsTypeOK'
    BY <2>2 DEF RefuseNetwork, Refuse, OptionsTypeOK
  <2>3. ASSUME NEW port \in Ports, NEW domain \in Domains, CheckServers(port, domain)
        PROVE  OptionsTypeOK'
    BY <2>3 DEF CheckServers, OptionsTypeOK
  <2>4. ASSUME NEW entry \in SettingEntries, LoadSetting(entry)
        PROVE  OptionsTypeOK'
    <3>1. ClientSettings(entry) \in Settings
      BY ClientSettingsType
    <3>2. entry.ip # NoIP => entry.ip \in Reservable
      BY DEF SettingEntries
    <3>3. DhcpClientSettingsByIP' \in [Reservable -> Settings \cup {NoSettings}]
      BY <2>4, <3>1, <3>2 DEF LoadSetting, OptionsTypeOK
    <3>4. DhcpClientSettingsByMAC' \in [Macs -> Settings \cup {NoSettings}]
      BY <2>4, <3>1 DEF LoadSetting, OptionsTypeOK
    <3> QED
      BY <2>4, <3>3, <3>4 DEF LoadSetting, ReadSetting, OptionsTypeOK
  <2>5. ASSUME NEW entry \in SettingEntries, RefuseSetting(entry)
        PROVE  OptionsTypeOK'
    BY <2>5 DEF RefuseSetting, ReadSetting, Refuse, OptionsTypeOK
  <2>6. CASE EndSettings
    BY <2>6 DEF EndSettings, OptionsTypeOK
  <2>7. ASSUME NEW entry \in BlocklistEntries, LoadBlocked(entry)
        PROVE  OptionsTypeOK'
    <3>1. entry.mac \in Macs
      BY DEF BlocklistEntries
    <3> QED
      BY <2>7, <3>1 DEF LoadBlocked, ReadBlocked, OptionsTypeOK
  <2>8. ASSUME NEW entry \in BlocklistEntries, RefuseBlocked(entry)
        PROVE  OptionsTypeOK'
    BY <2>8 DEF RefuseBlocked, ReadBlocked, Refuse, OptionsTypeOK
  <2>9. CASE EndBlocklist
    BY <2>9 DEF EndBlocklist, OptionsTypeOK
  <2>10. ASSUME NEW host \in Hosts, LoadHost(host)
         PROVE  OptionsTypeOK'
    BY <2>10 DEF LoadHost, OptionsTypeOK
  <2>11. ASSUME NEW host \in Hosts, RefuseHost(host)
         PROVE  OptionsTypeOK'
    BY <2>11 DEF RefuseHost, Refuse, OptionsTypeOK
  <2>12. ASSUME NEW duration \in Durations, LoadDuration(duration)
         PROVE  OptionsTypeOK'
    BY <2>12 DEF LoadDuration, OptionsTypeOK
  <2>13. CASE UNCHANGED vars
    BY <2>13 DEF vars, OptionsTypeOK
  <2>14. ASSUME NEW nw \in Candidates
         PROVE  nw \in Networks
    BY AddonOptionsAssumption DEF Candidates
  <2> QED
    BY <2>1, <2>2, <2>3, <2>4, <2>5, <2>6, <2>7, <2>8, <2>9, <2>10, <2>11,
       <2>12, <2>13, <2>14 DEF Next
<1> QED
  BY <1>1, <1>2, PTL DEF Spec
-----------------------------------------------------------------------------
(* What makes the indexes and the blocklist inductive: nothing is blocked    *)
(* before the settings are all read, so a setting never has to be compared   *)
(* with the blocklist.                                                       *)
IndexInv ==
  /\ IndexesAgree
  /\ BlockedAreNotConfigured
  /\ phase \in {"networks", "settings"} => BlockedMACs = {}

LEMMA IndexStep == OptionsTypeOK /\ IndexInv /\ [Next]_vars => IndexInv'
<1> SUFFICES ASSUME OptionsTypeOK, IndexInv, [Next]_vars
             PROVE  IndexInv'
  OBVIOUS
<1>1. ASSUME UNCHANGED <<indexes, BlockedMACs>>,
             phase' \in {"networks", "settings"} => phase \in {"networks", "settings"}
      PROVE  IndexInv'
  BY <1>1 DEF IndexInv, IndexesAgree, BlockedAreNotConfigured
<1>2. ASSUME NEW nw \in Networks, LoadNetwork(nw) \/ RefuseNetwork(nw)
      PROVE  IndexInv'
  BY <1>1, <1>2 DEF LoadNetwork, RefuseNetwork, Refuse
<1>3. ASSUME NEW port \in Ports, NEW domain \in Domains, CheckServers(port, domain)
      PROVE  IndexInv'
  BY <1>1, <1>3 DEF CheckServers
<1>4. ASSUME NEW entry \in SettingEntries, LoadSetting(entry)
      PROVE  IndexInv'
  <2> DEFINE s == ClientSettings(entry)
  <2>1. entry.mac \in Macs /\ entry.ip \in Reservable \cup {NoIP} /\ NoIP \notin Reservable
    BY AddonOptionsAssumption DEF SettingEntries
  <2>2. s.mac = entry.mac /\ s.ip = entry.ip /\ s \in Settings /\ s # NoSettings
    BY ClientSettingsType
  <2>3. /\ DhcpClientSettingsByMAC[entry.mac] = NoSettings
        /\ entry.ip # NoIP => DhcpClientSettingsByIP[entry.ip] = NoSettings
    BY <1>4, <2>1 DEF LoadSetting, AcceptsSetting, GetDhcpClientSettingsByMAC,
                      GetDhcpClientSettingsByIP
  <2>4. \A mac \in Macs : DhcpClientSettingsByMAC'[mac] =
          IF mac = entry.mac THEN s ELSE DhcpClientSettingsByMAC[mac]
    BY <1>4 DEF LoadSetting, OptionsTypeOK
  <2>5. \A ip \in Reservable : DhcpClientSettingsByIP'[ip] =
          IF ip = entry.ip THEN s ELSE DhcpClientSettingsByIP[ip]
    BY <1>4, <2>1 DEF LoadSetting, OptionsTypeOK
  <2> HIDE DEF s
  <2>6. ASSUME NEW ip \in Reservable, DhcpClientSettingsByIP'[ip] # NoSettings
        PROVE  /\ DhcpClientSettingsByIP'[ip].ip = ip
               /\ DhcpClientSettingsByMAC'[DhcpClientSettingsByIP'[ip].mac]
                    = DhcpClientSettingsByIP'[ip]
    <3>1. CASE ip = entry.ip
      BY <3>1, <2>1, <2>2, <2>4, <2>5
    <3>2. CASE ip # entry.ip
      <4>1. DhcpClientSettingsByIP'[ip] = DhcpClientSettingsByIP[ip]
        BY <3>2, <2>5
      <4>2. DhcpClientSettingsByIP[ip].mac \in Macs
        BY <2>6, <4>1 DEF OptionsTypeOK, Settings
      <4>3. /\ DhcpClientSettingsByIP[ip].ip = ip
            /\ DhcpClientSettingsByMAC[DhcpClientSettingsByIP[ip].mac]
                 = DhcpClientSettingsByIP[ip]
        BY <2>6, <4>1 DEF IndexInv, IndexesAgree
      <4> QED
        BY <2>3, <2>4, <2>6, <4>1, <4>2, <4>3
    <3> QED
      BY <3>1, <3>2
  <2>7. ASSUME NEW mac \in Macs, DhcpClientSettingsByMAC'[mac] # NoSettings
        PROVE  /\ DhcpClientSettingsByMAC'[mac].mac = mac
               /\ DhcpClientSettingsByMAC'[mac].ip # NoIP =>
                    DhcpClientSettingsByIP'[DhcpClientSettingsByMAC'[mac].ip]
                      = DhcpClientSettingsByMAC'[mac]
    <3>1. CASE mac = entry.mac
      BY <3>1, <2>1, <2>2, <2>4, <2>5
    <3>2. CASE mac # entry.mac
      <4>1. DhcpClientSettingsByMAC'[mac] = DhcpClientSettingsByMAC[mac]
        BY <3>2, <2>4
      <4>2. DhcpClientSettingsByMAC[mac].ip \in Reservable \cup {NoIP}
        BY <2>7, <4>1 DEF OptionsTypeOK, Settings
      <4>3. /\ DhcpClientSettingsByMAC[mac].mac = mac
            /\ DhcpClientSettingsByMAC[mac].ip # NoIP =>
                 DhcpClientSettingsByIP[DhcpClientSettingsByMAC[mac].ip]
                   = DhcpClientSettingsByMAC[mac]
        BY <2>7, <4>1 DEF IndexInv, IndexesAgree
      <4> QED
        BY <2>3, <2>5, <2>7, <4>1, <4>2, <4>3
    <3> QED
      BY <3>1, <3>2
  <2>8. IndexesAgree'
    BY <2>6, <2>7 DEF IndexesAgree
  <2>9. BlockedMACs' = {}
    BY <1>4 DEF LoadSetting, IndexInv
  <2> QED
    BY <2>8, <2>9 DEF IndexInv, BlockedAreNotConfigured
<1>5. ASSUME NEW entry \in SettingEntries, RefuseSetting(entry)
      PROVE  IndexInv'
  BY <1>1, <1>5 DEF RefuseSetting, Refuse
<1>6. CASE EndSettings
  BY <1>1, <1>6 DEF EndSettings
<1>7. ASSUME NEW entry \in BlocklistEntries, LoadBlocked(entry)
      PROVE  IndexInv'
  <2>1. DhcpClientSettingsByMAC[entry.mac] = NoSettings
    BY <1>7 DEF LoadBlocked, AcceptsBlocked, GetDhcpClientSettingsByMAC
  <2>2. /\ UNCHANGED <<phase, indexes>> /\ phase = "blocklist"
        /\ BlockedMACs' = BlockedMACs \cup {entry.mac}
    BY <1>7 DEF LoadBlocked
  <2> QED
    BY <2>1, <2>2 DEF IndexInv, IndexesAgree, BlockedAreNotConfigured
<1>8. ASSUME NEW entry \in BlocklistEntries, RefuseBlocked(entry)
      PROVE  IndexInv'
  BY <1>1, <1>8 DEF RefuseBlocked, Refuse
<1>9. CASE EndBlocklist
  BY <1>1, <1>9 DEF EndBlocklist
<1>10. ASSUME NEW host \in Hosts, LoadHost(host) \/ RefuseHost(host)
       PROVE  IndexInv'
  BY <1>1, <1>10 DEF LoadHost, RefuseHost, Refuse
<1>11. ASSUME NEW duration \in Durations, LoadDuration(duration)
       PROVE  IndexInv'
  BY <1>1, <1>11 DEF LoadDuration
<1>12. CASE UNCHANGED vars
  BY <1>1, <1>12 DEF vars
<1>13. Candidates \subseteq Networks
  BY AddonOptionsAssumption DEF Candidates
<1> QED
  BY <1>2, <1>3, <1>4, <1>5, <1>6, <1>7, <1>8, <1>9, <1>10, <1>11, <1>12, <1>13
     DEF Next

LEMMA IndexCorrect == Spec => []IndexInv
<1>1. Init => IndexInv
  BY DEF Init, IndexInv, IndexesAgree, BlockedAreNotConfigured
<1> QED
  BY <1>1, IndexStep, OptionsTypeCorrect, PTL DEF Spec

(* The two indexes agree, whatever is read and wherever it is refused.       *)
THEOREM IndexesCorrect == Spec => []IndexesAgree
BY IndexCorrect, PTL DEF IndexInv

(* No blocked MAC address has settings.                                      *)
THEOREM BlockedCorrect == Spec => []BlockedAreNotConfigured
BY IndexCorrect, PTL DEF IndexInv
-----------------------------------------------------------------------------
(* What either lookup finds is found by its MAC address, so comparing a new   *)
(* entry with what the two indexes hold under its MAC address and its address *)
(* is comparing it with everything that is stored.                            *)
LEMMA StoredByMAC ==
  ASSUME OptionsTypeOK, IndexesAgree
  PROVE  stored \ {NoSettings} =
           {s \in Settings : s.mac \in Macs /\ DhcpClientSettingsByMAC[s.mac] = s}
             \ {NoSettings}
<1>1. ASSUME NEW s \in stored, s # NoSettings
      PROVE  s \in Settings /\ s.mac \in Macs /\ DhcpClientSettingsByMAC[s.mac] = s
  BY <1>1 DEF stored, OptionsTypeOK, IndexesAgree, Settings
<1>2. ASSUME NEW s \in Settings, s.mac \in Macs, DhcpClientSettingsByMAC[s.mac] = s
      PROVE  s \in stored
  BY <1>2 DEF stored
<1> QED
  BY <1>1, <1>2

LEMMA NoConflictStored ==
  ASSUME OptionsTypeOK, IndexesAgree,
         NEW entry \in SettingEntries, AcceptsSetting(entry),
         NEW t \in stored \ {NoSettings}
  PROVE  ~Registry!Conflict(ClientSettings(entry), t)
<1> DEFINE s == ClientSettings(entry)
<1>1. s.mac = entry.mac /\ s.ip = entry.ip
  BY ClientSettingsType
<1>2. entry.mac \in Macs /\ entry.ip \in Reservable \cup {NoIP}
  BY DEF SettingEntries
<1>3. /\ DhcpClientSettingsByMAC[entry.mac] = NoSettings
      /\ entry.ip # NoIP => DhcpClientSettingsByIP[entry.ip] = NoSettings
  BY <1>2 DEF AcceptsSetting, GetDhcpClientSettingsByMAC, GetDhcpClientSettingsByIP
<1>4. t \in Settings /\ t.mac \in Macs /\ DhcpClientSettingsByMAC[t.mac] = t /\ t # NoSettings
  BY StoredByMAC
<1>5. t.ip # NoIP => DhcpClientSettingsByIP[t.ip] = t
  BY <1>4 DEF IndexesAgree
<1> HIDE DEF s
<1> QED
  BY <1>1, <1>3, <1>4, <1>5 DEF Registry!Conflict, s

(* Each step of the loading is a step of the registry or leaves it alone.     *)
LEMMA StepOfRegistry ==
  OptionsTypeOK /\ IndexInv /\ [Next]_vars
    => [Registry!RegistryNext]_(Registry!registryVars)
<1> SUFFICES ASSUME OptionsTypeOK, IndexInv, [Next]_vars
             PROVE  [Registry!RegistryNext]_(Registry!registryVars)
  OBVIOUS
<1> DEFINE registered == stored \ {NoSettings}
<1>1. ASSUME UNCHANGED indexes
      PROVE  UNCHANGED registered
  BY <1>1 DEF stored
<1> HIDE DEF registered
<1>2. ASSUME UNCHANGED <<phase, indexes, BlockedMACs>>
      PROVE  UNCHANGED Registry!registryVars
  BY <1>1, <1>2 DEF Registry!registryVars, Stage, registered
<1>3. ASSUME phase' = "refused", phase # "refused", phase # "loaded", phase # "hosts",
             UNCHANGED <<indexes, BlockedMACs>>
      PROVE  Registry!CloseRegistry
  <2>1. Stage' = "closed" /\ Stage # "closed"
    BY <1>3 DEF Stage, OptionsTypeOK
  <2> QED
    BY <1>1, <1>3, <2>1 DEF Registry!CloseRegistry, registered
<1>4. ASSUME phase = "hosts", phase' \in {"refused", "loaded"},
             UNCHANGED <<indexes, BlockedMACs>>
      PROVE  UNCHANGED Registry!registryVars
  BY <1>1, <1>4 DEF Registry!registryVars, Stage, registered
<1>5. ASSUME NEW nw \in Networks, LoadNetwork(nw) \/ RefuseNetwork(nw)
      PROVE  [Registry!RegistryNext]_(Registry!registryVars)
  BY <1>2, <1>3, <1>5 DEF LoadNetwork, RefuseNetwork, Refuse, Registry!RegistryNext
<1>6. ASSUME NEW port \in Ports, NEW domain \in Domains, CheckServers(port, domain)
      PROVE  [Registry!RegistryNext]_(Registry!registryVars)
  <2>1. CASE phase' = "refused"
    BY <1>3, <1>6, <2>1 DEF CheckServers, Registry!RegistryNext
  <2>2. CASE phase' = "settings"
    <3>1. Stage = "nothing" /\ Stage' = "clients"
      BY <1>6, <2>2 DEF CheckServers, Stage
    <3>2. Registry!OpenRegistry
      BY <1>1, <1>6, <3>1 DEF CheckServers, Registry!OpenRegistry, registered
    <3> QED
      BY <3>2 DEF Registry!RegistryNext
  <2> QED
    BY <1>6, <2>1, <2>2 DEF CheckServers
<1>7. ASSUME NEW entry \in SettingEntries, LoadSetting(entry)
      PROVE  [Registry!RegistryNext]_(Registry!registryVars)
  <2> DEFINE s == ClientSettings(entry)
  <2>1. s # NoSettings
    BY ClientSettingsType
  <2>2. s \in RegistrableSettings
    BY DEF RegistrableSettings, ClientSettings, OptionsTypeOK
  <2>3. \A t \in registered : ~Registry!Conflict(s, t)
    BY <1>7, NoConflictStored DEF LoadSetting, IndexInv, registered
  <2>4. registered' = registered \cup {s}
    <3>1. entry.mac \in Macs /\ entry.ip \in Reservable \cup {NoIP} /\ NoIP \notin Reservable
      BY AddonOptionsAssumption DEF SettingEntries
    <3>2. /\ DhcpClientSettingsByMAC[entry.mac] = NoSettings
          /\ entry.ip # NoIP => DhcpClientSettingsByIP[entry.ip] = NoSettings
      BY <1>7, <3>1 DEF LoadSetting, AcceptsSetting, GetDhcpClientSettingsByMAC,
                        GetDhcpClientSettingsByIP
    <3>3. \A mac \in Macs : DhcpClientSettingsByMAC'[mac] =
            IF mac = entry.mac THEN s ELSE DhcpClientSettingsByMAC[mac]
      BY <1>7 DEF LoadSetting, OptionsTypeOK
    <3>4. \A ip \in Reservable : DhcpClientSettingsByIP'[ip] =
            IF ip = entry.ip THEN s ELSE DhcpClientSettingsByIP[ip]
      BY <1>7, <3>1 DEF LoadSetting, OptionsTypeOK
    <3> HIDE DEF s
    <3>5. registered' \subseteq registered \cup {s}
      BY <3>3, <3>4 DEF registered, stored
    <3>6. ASSUME NEW t \in registered
          PROVE  t \in registered'
      <4>1. CASE \E mac \in Macs : t = DhcpClientSettingsByMAC[mac]
        BY <3>2, <3>3, <3>6, <4>1 DEF registered, stored
      <4>2. CASE \E ip \in Reservable : t = DhcpClientSettingsByIP[ip]
        BY <3>1, <3>2, <3>4, <3>6, <4>2 DEF registered, stored
      <4> QED
        BY <3>6, <4>1, <4>2 DEF registered, stored
    <3>7. s \in registered'
      <4>1. DhcpClientSettingsByMAC'[entry.mac] = s
        BY <3>1, <3>3
      <4> QED
        BY <2>1, <3>1, <4>1 DEF registered, stored
    <3> QED
      BY <3>5, <3>6, <3>7
  <2>5. Stage = "clients" /\ Stage' = Stage /\ BlockedMACs' = BlockedMACs
    BY <1>7 DEF LoadSetting, Stage
  <2> HIDE DEF s
  <2>6. Registry!Register(s)
    BY <2>3, <2>4, <2>5 DEF Registry!Register, registered
  <2> QED
    BY <2>2, <2>5, <2>6 DEF Registry!RegistryNext
<1>8. ASSUME NEW entry \in SettingEntries, RefuseSetting(entry)
      PROVE  [Registry!RegistryNext]_(Registry!registryVars)
  BY <1>3, <1>8 DEF RefuseSetting, Refuse, Registry!RegistryNext
<1>9. CASE EndSettings
  <2>1. Stage = "clients" /\ Stage' = "blocked"
    BY <1>9 DEF EndSettings, Stage
  <2>2. Registry!EndClients
    BY <1>1, <1>9, <2>1 DEF EndSettings, Registry!EndClients, registered
  <2> QED
    BY <2>2 DEF Registry!RegistryNext
<1>10. ASSUME NEW entry \in BlocklistEntries, LoadBlocked(entry)
       PROVE  [Registry!RegistryNext]_(Registry!registryVars)
  <2>1. Stage = "blocked" /\ Stage' = Stage /\ entry.mac \in Macs
    BY <1>10 DEF LoadBlocked, Stage, BlocklistEntries
  <2>2. \A t \in registered : t.mac # entry.mac
    BY <1>10, StoredByMAC DEF LoadBlocked, AcceptsBlocked, GetDhcpClientSettingsByMAC,
                              IndexInv, registered
  <2>3. Registry!Block(entry.mac)
    BY <1>1, <1>10, <2>1, <2>2 DEF LoadBlocked, Registry!Block, registered
  <2> QED
    BY <2>1, <2>3 DEF Registry!RegistryNext
<1>11. ASSUME NEW entry \in BlocklistEntries, RefuseBlocked(entry)
       PROVE  [Registry!RegistryNext]_(Registry!registryVars)
  BY <1>3, <1>11 DEF RefuseBlocked, Refuse, Registry!RegistryNext
<1>12. CASE EndBlocklist
  <2>1. Stage = "blocked" /\ Stage' = "closed"
    BY <1>12 DEF EndBlocklist, Stage
  <2>2. Registry!CloseRegistry
    BY <1>1, <1>12, <2>1 DEF EndBlocklist, Registry!CloseRegistry, registered
  <2> QED
    BY <2>2 DEF Registry!RegistryNext
<1>13. ASSUME NEW host \in Hosts, LoadHost(host) \/ RefuseHost(host)
       PROVE  [Registry!RegistryNext]_(Registry!registryVars)
  BY <1>2, <1>4, <1>13 DEF LoadHost, RefuseHost, Refuse
<1>14. ASSUME NEW duration \in Durations, LoadDuration(duration)
       PROVE  [Registry!RegistryNext]_(Registry!registryVars)
  BY <1>4, <1>14 DEF LoadDuration
<1>15. CASE UNCHANGED vars
  BY <1>2, <1>15 DEF vars
<1>16. Candidates \subseteq Networks
  BY AddonOptionsAssumption DEF Candidates
<1> QED
  BY <1>5, <1>6, <1>7, <1>8, <1>9, <1>10, <1>11, <1>12, <1>13, <1>14, <1>15, <1>16
     DEF Next

(* The loading implements the registry of clients, for any lists: what the    *)
(* lookups find is never in conflict, never replaced and final in the end.    *)
THEOREM RegistryImplemented == Spec => ImplementsRegistry
<1>1. Init => Registry!RegistryInit
  <2>1. Init => stored \subseteq {NoSettings}
    BY DEF Init, stored
  <2>2. Init => Stage = "nothing" /\ BlockedMACs = {}
    BY DEF Init, Stage
  <2> QED
    BY <2>1, <2>2 DEF Registry!RegistryInit
<1> QED
  BY <1>1, StepOfRegistry, OptionsTypeCorrect, IndexCorrect, PTL
     DEF Spec, ImplementsRegistry, Registry!RegistrySpec

(* Hence what the registry guarantees holds of the two indexes together: a    *)
(* client that is found by its address in conflict with none that is found by *)
(* MAC address.  In the registry it takes one more fact, that the blocking    *)
(* begins when the registering is over.                                       *)
THEOREM StoredWithoutConflicts == Spec => []Registry!NoConflicts
<1> DEFINE registered == stored \ {NoSettings}
           Inv == /\ Registry!NoConflicts
                  /\ Stage \in {"nothing", "clients"} => BlockedMACs = {}
<1>1. Registry!RegistryInit => Inv
  BY DEF Registry!RegistryInit, Registry!NoConflicts
<1>2. Inv /\ [Registry!RegistryNext]_(Registry!registryVars) => Inv'
  <2> SUFFICES ASSUME Inv, [Registry!RegistryNext]_(Registry!registryVars)
               PROVE  Inv'
    OBVIOUS
  <2>1. ASSUME NEW s \in RegistrableSettings, Registry!Register(s)
        PROVE  Inv'
    <3>1. Stage = "clients" /\ Stage' = Stage /\ BlockedMACs' = BlockedMACs
      BY <2>1 DEF Registry!Register
    <3>2. (stored \ {NoSettings})' = (stored \ {NoSettings}) \cup {s}
      BY <2>1 DEF Registry!Register
    <3>3. \A t \in stored \ {NoSettings} : ~Registry!Conflict(s, t) /\ ~Registry!Conflict(t, s)
      BY <2>1 DEF Registry!Register, Registry!Conflict
    <3> QED
      BY <3>1, <3>2, <3>3 DEF Registry!NoConflicts
  <2>2. ASSUME NEW mac \in Macs, Registry!Block(mac)
        PROVE  Inv'
    BY <2>2 DEF Registry!Block, Registry!NoConflicts
  <2>3. CASE Registry!OpenRegistry
    BY <2>3 DEF Registry!OpenRegistry, Registry!NoConflicts
  <2>4. CASE Registry!EndClients
    BY <2>4 DEF Registry!EndClients, Registry!NoConflicts
  <2>5. CASE Registry!CloseRegistry
    BY <2>5 DEF Registry!CloseRegistry, Registry!NoConflicts
  <2>6. CASE UNCHANGED Registry!registryVars
    BY <2>6 DEF Registry!registryVars, Registry!NoConflicts
  <2> QED
    BY <2>1, <2>2, <2>3, <2>4, <2>5, <2>6 DEF Registry!RegistryNext
<1>3. Inv => Registry!NoConflicts
  OBVIOUS
<1> QED
  BY <1>1, <1>2, <1>3, RegistryImplemented, PTL DEF ImplementsRegistry, Registry!RegistrySpec
-----------------------------------------------------------------------------
(* As long as the clients are not what is refused, the indexes have an entry *)
(* under each MAC address and each address that was read, and under no other:*)
(* looking an entry up is comparing it with all that were read before it.    *)
IndexesAreComplete ==
  /\ \A mac \in Macs : DhcpClientSettingsByMAC[mac] # NoSettings
       <=> \E i \in DOMAIN settingsRead : settingsRead[i].mac = mac
  /\ \A ip \in Reservable : DhcpClientSettingsByIP[ip] # NoSettings
       <=> \E i \in DOMAIN settingsRead : settingsRead[i].ip = ip

CohereInv ==
  /\ phase \in {"networks", "settings"} => blocklistRead = <<>>
  /\ error = "none" <=> phase # "refused"
  /\ IF error \in {"settings", "blocklist"} THEN ~ClientsCohere
     ELSE ClientsCohere /\ IndexesAreComplete

(* What one more entry of a list changes about coherence.                    *)
LEMMA SettingCoheres ==
  ASSUME OptionsTypeOK, ClientsCohere, IndexesAreComplete, blocklistRead = <<>>,
         NEW entry \in SettingEntries, ReadSetting(entry)
  PROVE  ClientsCohere' <=> AcceptsSetting(entry)
<1> DEFINE n == Len(settingsRead)
<1>1. /\ n \in Nat /\ DOMAIN settingsRead = 1 .. n
      /\ DOMAIN settingsRead' = 1 .. n + 1
      /\ settingsRead'[n + 1] = entry
      /\ \A i \in 1 .. n : settingsRead'[i] = settingsRead[i]
      /\ blocklistRead' = <<>>
  BY DEF ReadSetting, OptionsTypeOK
<1>2. entry.mac \in Macs /\ entry.ip \in Reservable \cup {NoIP}
  BY DEF SettingEntries
<1>3. AcceptsSetting(entry) <=>
        /\ ~entry.flawed
        /\ isValidRFC1123Hostname(entry.name) /\ isValidRFC1123DNSName(entry.alias)
        /\ \A i \in 1 .. n : settingsRead[i].mac # entry.mac
        /\ entry.ip # NoIP => \A i \in 1 .. n : settingsRead[i].ip # entry.ip
  BY <1>1, <1>2 DEF AcceptsSetting, IndexesAreComplete,
                    GetDhcpClientSettingsByMAC, GetDhcpClientSettingsByIP
<1>4. ASSUME AcceptsSetting(entry)
      PROVE  ClientsCohere'
  BY <1>1, <1>3, <1>4 DEF ClientsCohere
<1>5. ASSUME ClientsCohere'
      PROVE  AcceptsSetting(entry)
  <2>1. /\ ~entry.flawed
        /\ isValidRFC1123Hostname(entry.name) /\ isValidRFC1123DNSName(entry.alias)
    BY <1>1, <1>5 DEF ClientsCohere
  <2>2. ASSUME NEW i \in 1 .. n
        PROVE  /\ settingsRead[i].mac # entry.mac
               /\ entry.ip # NoIP => settingsRead[i].ip # entry.ip
    <3>1. i \in 1 .. n + 1 /\ n + 1 \in 1 .. n + 1 /\ i # n + 1
      BY <1>1
    <3> QED
      BY <1>1, <1>5, <3>1 DEF ClientsCohere
  <2> QED
    BY <1>3, <2>1, <2>2
<1> QED
  BY <1>4, <1>5

LEMMA BlockedCoheres ==
  ASSUME OptionsTypeOK, ClientsCohere, IndexesAreComplete,
         NEW entry \in BlocklistEntries, ReadBlocked(entry)
  PROVE  ClientsCohere' <=> AcceptsBlocked(entry)
<1> DEFINE n == Len(blocklistRead)
<1>1. /\ n \in Nat /\ DOMAIN blocklistRead = 1 .. n
      /\ DOMAIN blocklistRead' = 1 .. n + 1
      /\ blocklistRead'[n + 1] = entry
      /\ \A i \in 1 .. n : blocklistRead'[i] = blocklistRead[i]
      /\ settingsRead' = settingsRead
  BY DEF ReadBlocked, OptionsTypeOK
<1>2. AcceptsBlocked(entry) <=>
        /\ ~entry.flawed
        /\ \A i \in DOMAIN settingsRead : settingsRead[i].mac # entry.mac
  BY DEF AcceptsBlocked, IndexesAreComplete, GetDhcpClientSettingsByMAC,
         BlocklistEntries
<1>3. ASSUME AcceptsBlocked(entry)
      PROVE  ClientsCohere'
  BY <1>1, <1>2, <1>3 DEF ClientsCohere
<1>4. ASSUME ClientsCohere'
      PROVE  AcceptsBlocked(entry)
  <2>1. n + 1 \in 1 .. n + 1
    BY <1>1
  <2> QED
    BY <1>1, <1>2, <1>4, <2>1 DEF ClientsCohere
<1> QED
  BY <1>3, <1>4

LEMMA CohereStep ==
  OptionsTypeOK /\ OptionsTypeOK' /\ CohereInv /\ [Next]_vars => CohereInv'
<1> SUFFICES ASSUME OptionsTypeOK, OptionsTypeOK', CohereInv, [Next]_vars
             PROVE  CohereInv'
  OBVIOUS
<1> USE DEF CohereInv
<1>1. ASSUME UNCHANGED <<entriesRead, indexes>>,
             phase' \in {"networks", "settings"} => phase \in {"networks", "settings"},
             error' = "none" <=> phase' # "refused",
             error' \in {"settings", "blocklist"} <=> error \in {"settings", "blocklist"}
      PROVE  CohereInv'
  BY <1>1 DEF ClientsCohere, IndexesAreComplete
<1>2. ASSUME NEW nw \in Networks, LoadNetwork(nw) \/ RefuseNetwork(nw)
      PROVE  CohereInv'
  BY <1>1, <1>2 DEF LoadNetwork, RefuseNetwork, Refuse
<1>3. ASSUME NEW port \in Ports, NEW domain \in Domains, CheckServers(port, domain)
      PROVE  CohereInv'
  BY <1>1, <1>3 DEF CheckServers
<1>4. ASSUME NEW entry \in SettingEntries, LoadSetting(entry)
      PROVE  CohereInv'
  <2>1. ClientsCohere /\ IndexesAreComplete /\ blocklistRead = <<>>
    BY <1>4 DEF LoadSetting
  <2>2. ReadSetting(entry) /\ AcceptsSetting(entry) /\ UNCHANGED progress
    BY <1>4 DEF LoadSetting
  <2>3. ClientsCohere'
    BY <2>1, <2>2, SettingCoheres
  <2>4. IndexesAreComplete'
    <3> DEFINE s == ClientSettings(entry)
               n == Len(settingsRead)
    <3>1. /\ n \in Nat /\ DOMAIN settingsRead = 1 .. n
          /\ DOMAIN settingsRead' = 1 .. n + 1
          /\ settingsRead'[n + 1] = entry
          /\ \A i \in 1 .. n : settingsRead'[i] = settingsRead[i]
      BY <2>2 DEF ReadSetting, OptionsTypeOK
    <3>2. s # NoSettings /\ entry.ip \in Reservable \cup {NoIP} /\ NoIP \notin Reservable
      BY ClientSettingsType, AddonOptionsAssumption DEF SettingEntries
    <3>3. \A mac \in Macs : DhcpClientSettingsByMAC'[mac] =
            IF mac = entry.mac THEN s ELSE DhcpClientSettingsByMAC[mac]
      BY <1>4 DEF LoadSetting, OptionsTypeOK
    <3>4. \A ip \in Reservable : DhcpClientSettingsByIP'[ip] =
            IF ip = entry.ip THEN s ELSE DhcpClientSettingsByIP[ip]
      BY <1>4, <3>2 DEF LoadSetting, OptionsTypeOK
    <3>5. /\ \A mac \in Macs :
               (\E i \in 1 .. n + 1 : settingsRead'[i].mac = mac)
                 <=> mac = entry.mac \/ \E i \in 1 .. n : settingsRead[i].mac = mac
          /\ \A ip \in Reservable :
               (\E i \in 1 .. n + 1 : settingsRead'[i].ip = ip)
                 <=> ip = entry.ip \/ \E i \in 1 .. n : settingsRead[i].ip = ip
      BY <3>1
    <3> HIDE DEF s, n
    <3> QED
      BY <2>1, <3>1, <3>2, <3>3, <3>4, <3>5 DEF IndexesAreComplete
  <2> QED
    BY <1>4, <2>1, <2>2, <2>3, <2>4 DEF LoadSetting, ReadSetting
<1>5. ASSUME NEW entry \in SettingEntries, RefuseSetting(entry)
      PROVE  CohereInv'
  <2>1. ClientsCohere /\ IndexesAreComplete /\ blocklistRead = <<>>
    BY <1>5 DEF RefuseSetting
  <2>2. ReadSetting(entry) /\ ~AcceptsSetting(entry)
    BY <1>5 DEF RefuseSetting
  <2>3. ~ClientsCohere'
    BY <2>1, <2>2, SettingCoheres
  <2> QED
    BY <1>5, <2>3 DEF RefuseSetting, Refuse
<1>6. CASE EndSettings
  BY <1>1, <1>6 DEF EndSettings
<1>7. ASSUME NEW entry \in BlocklistEntries, LoadBlocked(entry)
      PROVE  CohereInv'
  <2>1. ClientsCohere /\ IndexesAreComplete
    BY <1>7 DEF LoadBlocked
  <2>2. ReadBlocked(entry) /\ AcceptsBlocked(entry)
    BY <1>7 DEF LoadBlocked
  <2>3. ClientsCohere'
    BY <2>1, <2>2, BlockedCoheres
  <2>4. IndexesAreComplete'
    BY <1>7, <2>1 DEF LoadBlocked, ReadBlocked, IndexesAreComplete
  <2> QED
    BY <1>7, <2>3, <2>4 DEF LoadBlocked
<1>8. ASSUME NEW entry \in BlocklistEntries, RefuseBlocked(entry)
      PROVE  CohereInv'
  <2>1. ClientsCohere /\ IndexesAreComplete
    BY <1>8 DEF RefuseBlocked
  <2>2. ReadBlocked(entry) /\ ~AcceptsBlocked(entry)
    BY <1>8 DEF RefuseBlocked
  <2>3. ~ClientsCohere'
    BY <2>1, <2>2, BlockedCoheres
  <2> QED
    BY <1>8, <2>3 DEF RefuseBlocked, Refuse
<1>9. CASE EndBlocklist
  BY <1>1, <1>9 DEF EndBlocklist
<1>10. ASSUME NEW host \in Hosts, LoadHost(host) \/ RefuseHost(host)
       PROVE  CohereInv'
  BY <1>1, <1>10 DEF LoadHost, RefuseHost, Refuse
<1>11. ASSUME NEW duration \in Durations, LoadDuration(duration)
       PROVE  CohereInv'
  BY <1>1, <1>11 DEF LoadDuration
<1>12. CASE UNCHANGED vars
  BY <1>1, <1>12 DEF vars
<1>13. Candidates \subseteq Networks
  BY AddonOptionsAssumption DEF Candidates
<1> QED
  BY <1>2, <1>3, <1>4, <1>5, <1>6, <1>7, <1>8, <1>9, <1>10, <1>11, <1>12, <1>13
     DEF Next

(* LoadFromJSON refuses the clients' lists exactly when they are incoherent, *)
(* for lists of any length.                                                  *)
THEOREM RefusalCorrect == Spec => []RefusesTheIncoherent
<1>1. Init => CohereInv
  BY AddonOptionsAssumption DEF Init, CohereInv, ClientsCohere, IndexesAreComplete
<1>2. CohereInv => RefusesTheIncoherent
  BY DEF CohereInv, RefusesTheIncoherent
<1> QED
  BY <1>1, <1>2, CohereStep, OptionsTypeCorrect, PTL DEF Spec
-----------------------------------------------------------------------------
(* The static flag of a client on any address is that of its past row, and   *)
(* the address its reserved one: it follows from the agreement of the indexes *)
(* (uibackend.go 601-620).                                                   *)
THEOREM TablesCorrect == Spec => []TablesAgree
<1>1. OptionsTypeOK /\ IndexesAgree => TablesAgree
  <2> SUFFICES ASSUME OptionsTypeOK, IndexesAgree,
                      NEW mac \in Clients, NEW ip \in Leased,
                      NEW hostname \in Hostnames \cup NoHostnames
               PROVE  LET past == PastClientData(mac, hostname)
                      IN  ClientData(mac, ip, hostname).HasStaticIP
                            <=> past.HasStaticIP /\ past.settings.ip = ip
    BY DEF TablesAgree
  <2> DEFINE byIP == GetDhcpClientSettingsByIP(ip)
             own  == SettingsFor(mac)
  <2>1. byIP # NoSettings => byIP.ip = ip /\ byIP.mac \in Macs
                              /\ GetDhcpClientSettingsByMAC(byIP.mac) = byIP
    BY DEF OptionsTypeOK, IndexesAgree, Settings,
           GetDhcpClientSettingsByIP, GetDhcpClientSettingsByMAC
  <2>2. own # NoSettings =>
          /\ own.mac = mac /\ own.ip \in Reservable \cup {NoIP}
          /\ own.ip # NoIP => GetDhcpClientSettingsByIP(own.ip) = own
    BY DEF OptionsTypeOK, IndexesAgree, Settings, SettingsFor,
           GetDhcpClientSettingsByIP, GetDhcpClientSettingsByMAC
  <2>3. ip # NoIP
    BY AddonOptionsAssumption, ClientMetadataAssumption
  <2>4. hasIpAddressReservationByIP(ip, mac)
          <=> hasIpAddressReservationByMAC(mac) /\ own.ip = ip
    <3>1. ASSUME byIP # NoSettings, byIP.mac = mac
          PROVE  own = byIP
      BY <2>1, <3>1 DEF SettingsFor
    <3>2. ASSUME own # NoSettings, own.ip = ip
          PROVE  byIP = own /\ byIP.mac = mac
      BY <2>2, <2>3, <3>2
    <3> QED
      BY <2>1, <2>3, <3>1, <3>2 DEF hasIpAddressReservationByIP, hasIpAddressReservationByMAC
  <2> QED
    BY <2>4 DEF ClientData, PastClientData
<1> QED
  BY <1>1, OptionsTypeCorrect, IndexesCorrect, PTL
-----------------------------------------------------------------------------
(* A name with the domain appended ends in it, and is valid if both are.     *)
LEMMA AppendedIsInDomain ==
  ASSUME NEW name \in Seq(Labels), name # <<>>, NEW domain \in Seq(Labels)
  PROVE  /\ InDomain(name \o domain, domain)
         /\ isValidRFC1123DNSName(name) /\ isValidRFC1123DNSName(domain)
              => isValidRFC1123DNSName(name \o domain)
<1> DEFINE n == Len(name)
           d == Len(domain)
           full == name \o domain
<1>1. /\ n \in Nat \ {0} /\ d \in Nat
      /\ DOMAIN name = 1 .. n /\ DOMAIN domain = 1 .. d
  OBVIOUS
<1>2. /\ full \in Seq(Labels) /\ Len(full) = n + d /\ DOMAIN full = 1 .. n + d
      /\ \A i \in 1 .. n : full[i] = name[i]
      /\ \A i \in 1 .. d : full[n + i] = domain[i]
  BY ConcatProperties
<1> HIDE DEF full
<1>3. IsSuffix(domain, full)
  <2>1. /\ Reverse(domain) \in Seq(Labels) /\ Len(Reverse(domain)) = d
        /\ \A i \in 1 .. d : Reverse(domain)[i] = domain[d - i + 1]
    BY <1>1 DEF Reverse
  <2>2. /\ Reverse(full) \in Seq(Labels) /\ Len(Reverse(full)) = n + d
        /\ \A i \in 1 .. n + d : Reverse(full)[i] = full[n + d - i + 1]
    <3>1. Reverse(full) = [i \in 1 .. n + d |-> full[n + d - i + 1]]
      BY <1>2 DEF Reverse
    <3>2. \A i \in 1 .. n + d : n + d - i + 1 \in 1 .. n + d
      BY <1>1
    <3> QED
      BY <1>1, <1>2, <3>1, <3>2
  <2>3. \A i \in 1 .. d : Reverse(domain)[i] = Reverse(full)[i]
    <3> SUFFICES ASSUME NEW i \in 1 .. d
                 PROVE  Reverse(domain)[i] = Reverse(full)[i]
      OBVIOUS
    <3>1. Reverse(domain)[i] = domain[d - i + 1] /\ d - i + 1 \in 1 .. d
      BY <1>1, <2>1
    <3>2. Reverse(full)[i] = full[n + (d - i + 1)]
      BY <1>1, <2>2
    <3> QED
      BY <1>2, <3>1, <3>2
  <2>4. SubSeq(Reverse(domain), 1, d) = SubSeq(Reverse(full), 1, d)
    <3> DEFINE r == Reverse(domain)
               s == Reverse(full)
    <3>1. r \in Seq(Labels) /\ s \in Seq(Labels) /\ Len(r) = d /\ Len(s) = n + d
          /\ \A i \in 1 .. d : r[i] = s[i]
      BY <2>1, <2>2, <2>3
    <3> HIDE DEF r, s
    <3>2. /\ SubSeq(r, 1, d) \in Seq(Labels) /\ Len(SubSeq(r, 1, d)) = d
          /\ \A i \in 1 .. d : SubSeq(r, 1, d)[i] = r[i]
      BY <1>1, <3>1
    <3>3. /\ SubSeq(s, 1, d) \in Seq(Labels) /\ Len(SubSeq(s, 1, d)) = d
          /\ \A i \in 1 .. d : SubSeq(s, 1, d)[i] = s[i]
      BY <1>1, <3>1
    <3>4. SubSeq(r, 1, d) = SubSeq(s, 1, d)
      BY <3>1, <3>2, <3>3, SeqEqual
    <3> QED
      BY <3>4 DEF r, s
  <2> QED
    BY <1>1, <2>1, <2>2, <2>4 DEF IsSuffix, IsPrefix
<1>4. ASSUME isValidRFC1123DNSName(name), isValidRFC1123DNSName(domain)
      PROVE  isValidRFC1123DNSName(full)
  <2> SUFFICES ASSUME NEW i \in 1 .. n + d
               PROVE  isValidRFC1123Hostname(full[i])
    BY <1>2 DEF isValidRFC1123DNSName
  <2>1. CASE i \in 1 .. n
    BY <1>1, <1>2, <1>4, <2>1 DEF isValidRFC1123DNSName
  <2>2. CASE i \notin 1 .. n
    <3>1. i - n \in 1 .. d /\ full[i] = domain[i - n]
      <4>1. i - n \in 1 .. d /\ n + (i - n) = i
        BY <1>1, <2>2
      <4> QED
        BY <1>2, <4>1
    <3> QED
      BY <1>1, <1>4, <3>1 DEF isValidRFC1123DNSName
  <2> QED
    BY <2>1, <2>2
<1> QED
  BY <1>1, <1>2, <1>3, <1>4 DEF InDomain, full

(* The DNS domain is a name.                                                 *)
LEMMA DomainsAreNames == Domains \subseteq Seq(Labels)
<1>1. NoLabel \in Labels /\ "-" \in Labels /\ "lan" \in Labels /\ "local" \in Labels
  BY AddonOptionsAssumption
<1>2. /\ <<NoLabel>> \in Seq(Labels) /\ <<"-">> \in Seq(Labels)
      /\ <<"lan">> \in Seq(Labels) /\ <<"local">> \in Seq(Labels)
  BY <1>1
<1> QED
  BY <1>2, Zenon DEF Domains

(* What makes the names inductive: the domain is settled before the first    *)
(* settings are stored with an alias in it, and what is stored was valid.    *)
IsServed(name, domain) ==
  isValidRFC1123DNSName(domain) => isValidRFC1123DNSName(name) /\ InDomain(name, domain)

NamesInv ==
  \A mac \in Macs :
    LET settings == DhcpClientSettingsByMAC[mac]
    IN  settings # NoSettings =>
          /\ phase # "networks"
          /\ isValidRFC1123Hostname(settings.name)
          /\ settings.alias = NoAlias \/ IsServed(settings.alias, DnsDomain)

LEMMA NamesStep == OptionsTypeOK /\ NamesInv /\ [Next]_vars => NamesInv'
<1> SUFFICES ASSUME OptionsTypeOK, NamesInv, [Next]_vars
             PROVE  NamesInv'
  OBVIOUS
<1>1. ASSUME UNCHANGED <<indexes, DnsDomain>>,
             phase' = "networks" => phase = "networks"
      PROVE  NamesInv'
  BY <1>1 DEF NamesInv
<1>2. ASSUME NEW nw \in Networks, LoadNetwork(nw) \/ RefuseNetwork(nw)
      PROVE  NamesInv'
  BY <1>1, <1>2 DEF LoadNetwork, RefuseNetwork, Refuse
<1>3. ASSUME NEW port \in Ports, NEW domain \in Domains, CheckServers(port, domain)
      PROVE  NamesInv'
  BY <1>3 DEF CheckServers, NamesInv
<1>4. ASSUME NEW entry \in SettingEntries, LoadSetting(entry)
      PROVE  NamesInv'
  <2> DEFINE s == ClientSettings(entry)
  <2>1. entry.mac \in Macs /\ s # NoSettings
    BY ClientSettingsType DEF SettingEntries
  <2>2. isValidRFC1123Hostname(s.name)
    BY <1>4 DEF LoadSetting, AcceptsSetting, ClientSettings
  <2>3. s.alias = NoAlias \/ IsServed(s.alias, DnsDomain)
    <3>1. s.alias = loadDnsAliases(entry.alias, DnsDomain)
      BY DEF ClientSettings
    <3>2. isValidRFC1123DNSName(entry.alias)
      BY <1>4 DEF LoadSetting, AcceptsSetting
    <3>3. CASE entry.alias = NoAlias
      BY <3>1, <3>3 DEF loadDnsAliases
    <3>4. CASE InDomain(entry.alias, DnsDomain)
      BY <3>1, <3>2, <3>4 DEF loadDnsAliases, IsServed
    <3>5. CASE entry.alias # NoAlias /\ ~InDomain(entry.alias, DnsDomain)
      <4>1. entry.alias \in Seq(Labels) /\ entry.alias # <<>>
        BY <3>5, AddonOptionsAssumption, Zenon DEF SettingEntries, NoAlias
      <4>2. DnsDomain \in Seq(Labels)
        BY DomainsAreNames DEF OptionsTypeOK
      <4>3. s.alias = entry.alias \o DnsDomain
        BY <3>1, <3>5 DEF loadDnsAliases
      <4> HIDE DEF s
      <4> QED
        BY <3>2, <4>1, <4>2, <4>3, AppendedIsInDomain DEF IsServed
    <3> QED
      BY <3>3, <3>4, <3>5
  <2>4. \A mac \in Macs : DhcpClientSettingsByMAC'[mac] =
          IF mac = entry.mac THEN s ELSE DhcpClientSettingsByMAC[mac]
    BY <1>4 DEF LoadSetting, OptionsTypeOK
  <2>5. phase' = "settings" /\ DnsDomain' = DnsDomain
    BY <1>4 DEF LoadSetting
  <2> HIDE DEF s
  <2>6. ASSUME NEW mac \in Macs, DhcpClientSettingsByMAC'[mac] # NoSettings
        PROVE  /\ phase' # "networks"
               /\ isValidRFC1123Hostname(DhcpClientSettingsByMAC'[mac].name)
               /\ \/ DhcpClientSettingsByMAC'[mac].alias = NoAlias
                  \/ IsServed(DhcpClientSettingsByMAC'[mac].alias, DnsDomain')
    BY <2>2, <2>3, <2>4, <2>5, <2>6 DEF NamesInv
  <2> QED
    BY <2>6 DEF NamesInv
<1>5. ASSUME NEW entry \in SettingEntries, RefuseSetting(entry)
      PROVE  NamesInv'
  BY <1>1, <1>5 DEF RefuseSetting, Refuse
<1>6. CASE EndSettings
  BY <1>1, <1>6 DEF EndSettings
<1>7. ASSUME NEW entry \in BlocklistEntries, LoadBlocked(entry) \/ RefuseBlocked(entry)
      PROVE  NamesInv'
  BY <1>1, <1>7 DEF LoadBlocked, RefuseBlocked, Refuse
<1>8. CASE EndBlocklist
  BY <1>1, <1>8 DEF EndBlocklist
<1>9. ASSUME NEW host \in Hosts, LoadHost(host) \/ RefuseHost(host)
      PROVE  NamesInv'
  BY <1>1, <1>9 DEF LoadHost, RefuseHost, Refuse
<1>10. ASSUME NEW duration \in Durations, LoadDuration(duration)
       PROVE  NamesInv'
  BY <1>1, <1>10 DEF LoadDuration
<1>11. CASE UNCHANGED vars
  BY <1>1, <1>11 DEF vars
<1>12. Candidates \subseteq Networks
  BY AddonOptionsAssumption DEF Candidates
<1> QED
  BY <1>2, <1>3, <1>4, <1>5, <1>6, <1>7, <1>8, <1>9, <1>10, <1>11, <1>12 DEF Next

(* Every name that a table shows as resolvable is in the domain that dnsmasq *)
(* serves, for any entries and any hostnames, of which nothing is assumed,   *)
(* and it is valid for every configured client (uibackend.go 580-599).       *)
THEOREM NamesCorrect == Spec => []NamesAreInDomain
<1>1. OptionsTypeOK /\ NamesInv => NamesAreInDomain
  <2> SUFFICES ASSUME OptionsTypeOK, NamesInv,
                      NEW mac \in Clients, NEW hostname \in Hostnames \cup NoHostnames,
                      isValidRFC1123DNSName(DnsDomain),
                      NEW name \in getDnsNamesFor(mac, hostname)
               PROVE  /\ InDomain(name, DnsDomain)
                      /\ isValidRFC1123DNSName(name)
                           <=> \/ SettingsFor(mac) # NoSettings
                               \/ isValidRFC1123Hostname(hostname)
    BY DEF NamesAreInDomain
  <2>1. DnsDomain # <<NoLabel>>
    BY AddonOptionsAssumption DEF isValidRFC1123DNSName, isValidRFC1123Hostname
  <2>2. ASSUME NEW label \in Labels
        PROVE  /\ InDomain(<<label>> \o DnsDomain, DnsDomain)
               /\ isValidRFC1123DNSName(<<label>> \o DnsDomain)
                    <=> isValidRFC1123Hostname(label)
    <3>1. /\ <<label>> \in Seq(Labels) /\ <<label>> # <<>>
          /\ DnsDomain \in Seq(Labels)
      BY DomainsAreNames DEF OptionsTypeOK
    <3>2. isValidRFC1123Hostname(label) => isValidRFC1123DNSName(<<label>>)
      BY DEF isValidRFC1123DNSName
    <3>3. ASSUME isValidRFC1123DNSName(<<label>> \o DnsDomain)
          PROVE  isValidRFC1123Hostname(label)
      <4>1. 1 \in DOMAIN (<<label>> \o DnsDomain) /\ (<<label>> \o DnsDomain)[1] = label
        BY <3>1
      <4> QED
        BY <3>3, <4>1 DEF isValidRFC1123DNSName
    <3> QED
      BY <3>1, <3>2, <3>3, AppendedIsInDomain
  <2> DEFINE own == SettingsFor(mac)
  <2>3. CASE own # NoSettings
    <3>1. mac \in Macs /\ own = DhcpClientSettingsByMAC[mac]
      BY <2>3 DEF SettingsFor, GetDhcpClientSettingsByMAC
    <3>2. own \in Settings /\ own.name \in Labels
      BY <2>3, <3>1, AddonOptionsAssumption DEF OptionsTypeOK, Settings
    <3>3. /\ isValidRFC1123Hostname(own.name)
          /\ own.alias = NoAlias \/ IsServed(own.alias, DnsDomain)
      BY <2>3, <3>1 DEF NamesInv
    <3>4. name \in {<<own.name>> \o DnsDomain, own.alias} \ {NoAlias}
      BY <2>1, <2>3 DEF getDnsNamesFor
    <3> HIDE DEF own
    <3>5. isValidRFC1123DNSName(name) /\ InDomain(name, DnsDomain)
      <4>1. CASE name = <<own.name>> \o DnsDomain
        BY <2>2, <3>2, <3>3, <4>1
      <4>2. CASE name = own.alias
        BY <3>3, <3>4, <4>2 DEF IsServed
      <4> QED
        BY <3>4, <4>1, <4>2
    <3> QED
      BY <2>3, <3>5 DEF own
  <2>4. CASE own = NoSettings
    <3>1. hostname \notin NoHostnames /\ name = <<hostname>> \o DnsDomain
      BY <2>1, <2>4 DEF getDnsNamesFor
    <3>2. hostname \in Labels
      BY <3>1, ClientMetadataAssumption
    <3> QED
      BY <2>2, <2>4, <3>1, <3>2
  <2> QED
    BY <2>3, <2>4
<1>2. Init => NamesInv
  BY DEF Init, NamesInv
<1> QED
  BY <1>1, <1>2, NamesStep, OptionsTypeCorrect, PTL DEF Spec
-----------------------------------------------------------------------------
(* Induction, for a property that is given as the set of the numbers that    *)
(* have it.                                                                  *)
LEMMA InductionOverSets ==
  ASSUME NEW S, 0 \in S, \A n \in Nat : n \in S => n + 1 \in S
  PROVE  Nat \subseteq S
<1> DEFINE Less == OpToRel(<, Nat)
           T    == Nat \ S
<1> SUFFICES ASSUME T # {}
             PROVE  FALSE
  OBVIOUS
<1>1. PICK x \in T : \A y \in T : <<y, x>> \notin Less
  <2>1. IsWellFoundedOn(Less, Nat) /\ T \subseteq Nat
    BY NatLessThanWellFounded
  <2> HIDE DEF Less, T
  <2> QED
    BY <2>1, WFMin
<1>2. x \in Nat /\ x # 0 /\ x - 1 \in Nat /\ x = (x - 1) + 1
  OBVIOUS
<1>3. <<x - 1, x>> \in Less
  BY <1>2 DEF OpToRel
<1>4. x - 1 \in S
  BY <1>1, <1>2, <1>3
<1> QED
  BY <1>2, <1>4

(* A function on the first numbers that is defined by a step from each to the *)
(* next exists, so a recursive definition of it is what it says.              *)
StaysIn(T, step) == \A n \in Nat, x \in T : step[n][x] \in T

Sequel(T, first, step, l) ==
  {g \in [0 .. l -> T] :
     g[0] = first /\ \A n \in 1 .. l : g[n] = step[n][g[n - 1]]}

LEMMA RecursionIsDefined ==
  ASSUME NEW T, NEW first \in T, NEW l \in Nat, NEW step, StaysIn(T, step)
  PROVE  \E g : g \in Sequel(T, first, step, l)
<1> USE DEF StaysIn, Sequel
<1> DEFINE Steps(g, n) == /\ g \in [0 .. n -> T]
                          /\ g[0] = first
                          /\ \A i \in 1 .. n : g[i] = step[i][g[i - 1]]
           S == {n \in Nat : \E g : Steps(g, n)}
<1>1. 0 \in S
  <2>1. Steps([i \in 0 .. 0 |-> first], 0)
    OBVIOUS
  <2> QED
    BY <2>1
<1>2. ASSUME NEW n \in Nat, n \in S
      PROVE  n + 1 \in S
  <2>1. PICK g : Steps(g, n)
    BY <1>2
  <2> DEFINE f == [i \in 0 .. n + 1 |-> IF i <= n THEN g[i] ELSE step[n + 1][g[n]]]
  <2>2. Steps(f, n + 1)
    <3>1. f \in [0 .. n + 1 -> T]
      BY <2>1
    <3>2. f[0] = first
      BY <2>1
    <3>3. ASSUME NEW i \in 1 .. n + 1
          PROVE  f[i] = step[i][f[i - 1]]
      BY <2>1
    <3> QED
      BY <3>1, <3>2, <3>3
  <2> HIDE DEF Steps
  <2>3. \E h : Steps(h, n + 1)
    BY <2>2
  <2> QED
    BY <2>3
<1>3. l \in S
  <2> HIDE DEF S
  <2> QED
    BY <1>1, <1>2, InductionOverSets
<1>4. PICK g : Steps(g, l)
  BY <1>3
<1> QED
  BY <1>4

(* Pow2 is what its definition says: there is such a function.               *)
LEMMA Pow2IsDefined ==
  Pow2 = [i \in 0 .. AddrBits |-> IF i = 0 THEN 1 ELSE 2 * Pow2[i - 1]]
<1> DEFINE step == [i \in Nat |-> [p \in Nat |-> 2 * p]]
<1>1. PICK g : g \in Sequel(Nat, 1, step, AddrBits)
  <2>1. StaysIn(Nat, step)
    BY DEF StaysIn
  <2>2. 1 \in Nat /\ AddrBits \in Nat
    BY IpPoolAssumption
  <2> HIDE DEF step
  <2> QED
    BY <2>1, <2>2, RecursionIsDefined, Zenon
<1>2. ASSUME NEW i \in 0 .. AddrBits
      PROVE  g[i] = IF i = 0 THEN 1 ELSE 2 * g[i - 1]
  <2> USE DEF Sequel
  <2>1. CASE i = 0
    BY <1>1, <2>1
  <2>2. CASE i # 0
    <3>1. i \in 1 .. AddrBits /\ i \in Nat /\ i - 1 \in 0 .. AddrBits
      BY <2>2, IpPoolAssumption
    <3>2. g[i - 1] \in Nat /\ g[i] = step[i][g[i - 1]]
      BY <1>1, <3>1
    <3> QED
      BY <2>2, <3>1, <3>2
  <2> QED
    BY <2>1, <2>2
<1>3. g = [i \in 0 .. AddrBits |-> IF i = 0 THEN 1 ELSE 2 * g[i - 1]]
  BY <1>1, <1>2, Zenon DEF Sequel
<1> QED
  BY <1>3 DEF Pow2

LEMMA Pow2Doubles ==
  /\ Pow2[0] = 1
  /\ \A i \in 0 .. AddrBits : Pow2[i] \in Nat \ {0}
  /\ \A i \in 0 .. AddrBits - 1 : Pow2[i + 1] = 2 * Pow2[i]
<1>1. Pow2[0] = 1
  BY Pow2IsDefined, IpPoolAssumption
<1>2. \A i \in 0 .. AddrBits - 1 : Pow2[i + 1] = 2 * Pow2[i]
  <2> SUFFICES ASSUME NEW i \in 0 .. AddrBits - 1
               PROVE  Pow2[i + 1] = 2 * Pow2[i]
    OBVIOUS
  <2>1. i + 1 \in 0 .. AddrBits /\ i + 1 # 0 /\ (i + 1) - 1 = i
    BY IpPoolAssumption
  <2> QED
    BY <2>1, Pow2IsDefined
<1> DEFINE S == {n \in Nat : n <= AddrBits => Pow2[n] \in Nat \ {0}}
<1>3. 0 \in S
  BY <1>1
<1>4. ASSUME NEW n \in Nat, n \in S
      PROVE  n + 1 \in S
  BY <1>2, <1>4, IpPoolAssumption
<1>5. Nat \subseteq S
  <2> HIDE DEF S
  <2> QED
    BY <1>3, <1>4, InductionOverSets
<1>6. \A i \in 0 .. AddrBits : Pow2[i] \in Nat \ {0}
  BY <1>5, IpPoolAssumption
<1> QED
  BY <1>1, <1>2, <1>6
-----------------------------------------------------------------------------
(* Two addresses that agree in all bits from z on have the same network      *)
(* number, whatever is above the width w being equal.                        *)
LEMMA SameBitsSameNetwork ==
  ASSUME NEW a \in Nat, NEW b \in Nat, NEW w \in 0 .. AddrBits, NEW z \in 0 .. w,
         a \div Pow2[w] = b \div Pow2[w],
         \A i \in z .. w - 1 : Bit(a, i) = Bit(b, i)
  PROVE  \A i \in z .. w : a \div Pow2[i] = b \div Pow2[i]
<1> DEFINE S == {j \in Nat : w - j >= z => a \div Pow2[w - j] = b \div Pow2[w - j]}
<1>1. 0 \in S
  BY IpPoolAssumption
<1>2. ASSUME NEW j \in Nat, j \in S
      PROVE  j + 1 \in S
  <2> SUFFICES ASSUME w - (j + 1) >= z
               PROVE  a \div Pow2[w - (j + 1)] = b \div Pow2[w - (j + 1)]
    OBVIOUS
  <2> DEFINE k == w - (j + 1)
             m == Pow2[k]
  <2>1. k \in z .. w - 1 /\ k \in 0 .. AddrBits - 1 /\ k \in 0 .. AddrBits /\ w - j = k + 1
    BY IpPoolAssumption
  <2>2. m \in Nat \ {0} /\ Pow2[k + 1] = 2 * m
    BY <2>1, Pow2Doubles
  <2>3. (a \div m) % 2 = (b \div m) % 2
    BY <2>1 DEF Bit
  <2>4. a \div (2 * m) = b \div (2 * m)
    BY <1>2, <2>1, <2>2
  <2> HIDE DEF m
  <2>5. a \div m = b \div m
    <3>1. a \div (2 * m) = (a \div m) \div 2 /\ b \div (2 * m) = (b \div m) \div 2
      BY <2>2
    <3>2. a \div m \in Nat /\ b \div m \in Nat
      BY <2>2
    <3> DEFINE x == a \div m
               y == b \div m
    <3>3. x \in Nat /\ y \in Nat /\ x % 2 = y % 2 /\ x \div 2 = y \div 2
      BY <2>3, <2>4, <3>1, <3>2
    <3> HIDE DEF x, y
    <3>4. x = y
      BY <3>3
    <3> QED
      BY <3>4 DEF x, y
  <2> QED
    BY <2>5 DEF m
<1>3. Nat \subseteq S
  <2> HIDE DEF S
  <2> QED
    BY <1>1, <1>2, InductionOverSets
<1> SUFFICES ASSUME NEW i \in z .. w
             PROVE  a \div Pow2[i] = b \div Pow2[i]
  OBVIOUS
<1>4. w - i \in Nat /\ w - (w - i) = i /\ i >= z
  OBVIOUS
<1> QED
  BY <1>3, <1>4

(* So has every address between the two, whose bits therefore agree as well. *)
LEMMA BetweenSameBits ==
  ASSUME NEW a \in Nat, NEW b \in Nat, NEW c \in Nat, a <= c, c <= b,
         NEW w \in 0 .. AddrBits, NEW z \in 0 .. w,
         a \div Pow2[w] = b \div Pow2[w],
         \A i \in z .. w - 1 : Bit(a, i) = Bit(b, i)
  PROVE  \A i \in z .. w - 1 : Bit(a, i) = Bit(c, i)
<1> SUFFICES ASSUME NEW i \in z .. w - 1
             PROVE  Bit(a, i) = Bit(c, i)
  OBVIOUS
<1> DEFINE m == Pow2[i]
<1>1. m \in Nat \ {0}
  BY Pow2Doubles, IpPoolAssumption
<1>2. a \div m = b \div m
  BY SameBitsSameNetwork
<1> HIDE DEF m
<1>3. a \div m <= c \div m /\ c \div m <= b \div m
  BY <1>1
<1>4. a \div m = c \div m
  <2>1. a \div m \in Int /\ b \div m \in Int /\ c \div m \in Int
    BY <1>1
  <2> QED
    BY <1>2, <1>3, <2>1
<1> QED
  BY <1>4 DEF Bit, m

(* To be in the network of an address is a matter of bits: those that the    *)
(* mask masks are the ones from some z on, of addresses w bits wide.         *)
LEMMA MaskedBits ==
  ASSUME NEW ip \in IPs, NEW mask, IsNetmask(mask),
         mask.bits = AddrBits \/ (mask.bits = V4Bits /\ Is4(ip)),
         NEW w, w = IF Is4(ip) THEN V4Bits ELSE AddrBits
  PROVE  \E z \in Nat : \A i \in 0 .. w - 1 : Bit(mask.value, i) = 1 <=> i >= z
<1>1. PICK ones \in 1 .. mask.bits : \A i \in 0 .. mask.bits - 1 :
        Bit(mask.value, i) = 1 <=> i >= mask.bits - ones
  BY DEF IsNetmask
<1>2. mask.bits \in Nat /\ w <= mask.bits /\ w \in Nat
  BY IpPoolAssumption
<1>3. mask.bits - ones \in Nat
  BY <1>1, <1>2
<1>4. \A i \in 0 .. w - 1 : Bit(mask.value, i) = 1 <=> i >= mask.bits - ones
  BY <1>1, <1>2
<1> QED
  BY <1>3, <1>4

(* All addresses of an accepted network are of one family: there is no IPv4  *)
(* address above a private one of IPv6.                                      *)
LEMMA OneFamily ==
  ASSUME NEW start \in Private, NEW end \in Private, Is4(start) <=> Is4(end),
         NEW ip \in start .. end
  PROVE  Is4(ip) <=> Is4(start)
<1>1. /\ start \in Int /\ end \in Int /\ V4Base \in Int /\ Pow2[V4Bits] \in Int
      /\ V4Base <= start /\ V4Base <= end
  BY IpPoolAssumption, Pow2Doubles DEF IPs
<1> QED
  BY <1>1 DEF Is4, IPv4s

(* Two addresses of one family agree above the width of the family.          *)
LEMMA SameFamilySameTop ==
  ASSUME NEW a \in IPs, NEW b \in IPs, Is4(a) <=> Is4(b),
         NEW w, w = IF Is4(a) THEN V4Bits ELSE AddrBits
  PROVE  w \in 0 .. AddrBits /\ a \div Pow2[w] = b \div Pow2[w]
<1>1. w \in 0 .. AddrBits
  BY IpPoolAssumption
<1> DEFINE m == Pow2[w]
<1>2. m \in Nat \ {0}
  BY <1>1, Pow2Doubles
<1>3. CASE Is4(a)
  <2>1. /\ V4Base \in Nat /\ V4Base % m = 0
        /\ a \in V4Base .. V4Base + m - 1 /\ b \in V4Base .. V4Base + m - 1
    BY <1>3, IpPoolAssumption DEF Is4, IPv4s, IPs
  <2> HIDE DEF m
  <2> DEFINE q == V4Base \div m
  <2>2. V4Base = q * m /\ q \in Nat
    BY <1>2, <2>1
  <2> HIDE DEF q
  <2>3. a \div m = q /\ b \div m = q
    BY <1>2, <2>1, <2>2
  <2> QED
    BY <1>1, <2>3 DEF m
<1>4. CASE ~Is4(a)
  <2>1. a \in 0 .. m - 1 /\ b \in 0 .. m - 1
    BY <1>4 DEF IPs
  <2> HIDE DEF m
  <2>2. a \div m = 0 /\ b \div m = 0
    BY <1>2, <2>1
  <2> QED
    BY <1>1, <2>2 DEF m
<1> QED
  BY <1>3, <1>4

(* The checks of three addresses are checks of all.                          *)
LEMMA AcceptedIsCoherent ==
  ASSUME NEW nw, AcceptsNetwork(nw), NEW ip \in nw.start .. nw.end
  PROVE  NetworkContains(nw.gateway, NetmaskOf(nw.netmask), ip)
<1> DEFINE mask == NetmaskOf(nw.netmask)
           w    == IF Is4(nw.start) THEN V4Bits ELSE AddrBits
<1>1. /\ nw.start \in Private /\ nw.end \in Private /\ nw.gateway \in Private
      /\ nw.start \in IPs /\ nw.end \in IPs /\ nw.gateway \in IPs
      /\ IsNetmask(mask) /\ nw.start < nw.end
      /\ NetworkContains(nw.start, mask, nw.end)
      /\ NetworkContains(nw.start, mask, nw.gateway)
  BY IpPoolAssumption DEF AcceptsNetwork, IsValid, HasValidIPs, HasValidGateway
<1>2. /\ Is4(nw.start) <=> Is4(nw.end)
      /\ Is4(nw.start) <=> Is4(nw.gateway)
      /\ mask.bits = AddrBits \/ (mask.bits = V4Bits /\ Is4(nw.start))
      /\ \A i \in 0 .. w - 1 : Bit(mask.value, i) = 1 =>
           /\ Bit(nw.start, i) = Bit(nw.end, i)
           /\ Bit(nw.start, i) = Bit(nw.gateway, i)
  BY <1>1 DEF NetworkContains
<1>3. Is4(ip) <=> Is4(nw.start)
  BY <1>1, <1>2, OneFamily
<1>4. PICK z \in Nat : \A i \in 0 .. w - 1 : Bit(mask.value, i) = 1 <=> i >= z
  BY <1>1, <1>2, MaskedBits
<1>5. w \in 0 .. AddrBits /\ nw.start \div Pow2[w] = nw.end \div Pow2[w]
  BY <1>1, <1>2, SameFamilySameTop
<1> HIDE DEF mask, w
<1>6. ip \in Nat /\ nw.start \in Nat /\ nw.end \in Nat /\ nw.start <= ip /\ ip <= nw.end
  BY <1>1 DEF IPs
<1>7. \A i \in z .. w - 1 : Bit(nw.start, i) = Bit(ip, i)
  <2>1. CASE z \in 0 .. w
    <3>1. \A i \in z .. w - 1 : Bit(nw.start, i) = Bit(nw.end, i)
      BY <1>2, <1>4, <2>1
    <3> QED
      BY <1>5, <1>6, <2>1, <3>1, BetweenSameBits
  <2>2. CASE z \notin 0 .. w
    BY <1>4, <1>5, <2>2
  <2> QED
    BY <2>1, <2>2
<1>8. \A i \in 0 .. w - 1 : Bit(mask.value, i) = 1 => Bit(nw.gateway, i) = Bit(ip, i)
  <2> SUFFICES ASSUME NEW i \in 0 .. w - 1, Bit(mask.value, i) = 1
               PROVE  Bit(nw.gateway, i) = Bit(ip, i)
    OBVIOUS
  <2>1. i \in z .. w - 1
    BY <1>4, <1>5
  <2> QED
    BY <1>2, <1>7, <2>1
<1>9. w = IF Is4(nw.gateway) THEN V4Bits ELSE AddrBits
  BY <1>2 DEF w
<1>10. NetworkContains(nw.gateway, mask, ip)
  BY <1>2, <1>3, <1>8, <1>9 DEF NetworkContains
<1> QED
  BY <1>10 DEF mask
-----------------------------------------------------------------------------
(* The two lists of pools grow together, by networks that are accepted.      *)
PoolsInv ==
  /\ Len(DhcpPool) = Len(DhcpRanges)
  /\ \A i \in DOMAIN DhcpRanges :
       /\ AcceptsNetwork(DhcpRanges[i])
       /\ DhcpPool[i] = [start |-> DhcpRanges[i].start, end |-> DhcpRanges[i].end]

LEMMA PoolsStep == OptionsTypeOK /\ PoolsInv /\ [Next]_vars => PoolsInv'
<1> SUFFICES ASSUME OptionsTypeOK, PoolsInv, [Next]_vars
             PROVE  PoolsInv'
  OBVIOUS
<1>1. ASSUME UNCHANGED pools
      PROVE  PoolsInv'
  BY <1>1 DEF PoolsInv
<1>2. ASSUME NEW nw \in Networks, LoadNetwork(nw)
      PROVE  PoolsInv'
  <2> DEFINE n == Len(DhcpRanges)
             range == [start |-> nw.start, end |-> nw.end]
  <2>1. /\ DhcpPool' = Append(DhcpPool, range)
        /\ DhcpRanges' = Append(DhcpRanges, nw)
        /\ AcceptsNetwork(nw)
    BY <1>2 DEF LoadNetwork
  <2>2. range \in [start : IPs, end : IPs]
    BY <2>1, IpPoolAssumption DEF AcceptsNetwork, HasValidIPs
  <2>3. /\ n \in Nat /\ DOMAIN DhcpRanges = 1 .. n /\ DOMAIN DhcpRanges' = 1 .. n + 1
        /\ Len(DhcpRanges') = n + 1
        /\ DhcpRanges'[n + 1] = nw /\ \A i \in 1 .. n : DhcpRanges'[i] = DhcpRanges[i]
    BY <2>1, AppendProperties DEF OptionsTypeOK
  <2>4. /\ Len(DhcpPool') = n + 1 /\ DhcpPool'[n + 1] = range
        /\ \A i \in 1 .. n : DhcpPool'[i] = DhcpPool[i]
    <3>1. DhcpPool \in Seq([start : IPs, end : IPs]) /\ Len(DhcpPool) = n
      BY DEF OptionsTypeOK, PoolsInv
    <3> HIDE DEF range, n
    <3> QED
      BY <2>1, <2>2, <3>1, AppendProperties
  <2>5. \A i \in 1 .. n + 1 :
          /\ AcceptsNetwork(DhcpRanges'[i])
          /\ DhcpPool'[i] = [start |-> DhcpRanges'[i].start, end |-> DhcpRanges'[i].end]
    <3> SUFFICES ASSUME NEW i \in 1 .. n + 1
                 PROVE  /\ AcceptsNetwork(DhcpRanges'[i])
                        /\ DhcpPool'[i] = [start |-> DhcpRanges'[i].start,
                                           end   |-> DhcpRanges'[i].end]
      OBVIOUS
    <3>1. CASE i = n + 1
      BY <2>1, <2>3, <2>4, <3>1
    <3>2. CASE i \in 1 .. n
      BY <2>3, <2>4, <3>2 DEF PoolsInv
    <3> QED
      BY <2>3, <3>1, <3>2
  <2> QED
    BY <2>3, <2>4, <2>5 DEF PoolsInv, AcceptsNetwork, IsValid, HasValidIPs, HasValidGateway
<1>3. ASSUME NEW nw \in Networks, RefuseNetwork(nw)
      PROVE  PoolsInv'
  BY <1>1, <1>3 DEF RefuseNetwork, Refuse
<1>4. ASSUME NEW port \in Ports, NEW domain \in Domains, CheckServers(port, domain)
      PROVE  PoolsInv'
  BY <1>1, <1>4 DEF CheckServers
<1>5. ASSUME NEW entry \in SettingEntries, LoadSetting(entry) \/ RefuseSetting(entry)
      PROVE  PoolsInv'
  BY <1>1, <1>5 DEF LoadSetting, RefuseSetting, Refuse
<1>6. CASE EndSettings
  BY <1>1, <1>6 DEF EndSettings
<1>7. ASSUME NEW entry \in BlocklistEntries, LoadBlocked(entry) \/ RefuseBlocked(entry)
      PROVE  PoolsInv'
  BY <1>1, <1>7 DEF LoadBlocked, RefuseBlocked, Refuse
<1>8. CASE EndBlocklist
  BY <1>1, <1>8 DEF EndBlocklist
<1>9. ASSUME NEW host \in Hosts, LoadHost(host) \/ RefuseHost(host)
      PROVE  PoolsInv'
  BY <1>1, <1>9 DEF LoadHost, RefuseHost, Refuse
<1>10. ASSUME NEW duration \in Durations, LoadDuration(duration)
       PROVE  PoolsInv'
  BY <1>1, <1>10 DEF LoadDuration
<1>11. CASE UNCHANGED vars
  BY <1>1, <1>11 DEF vars
<1>12. Candidates \subseteq Networks
  BY AddonOptionsAssumption DEF Candidates
<1> QED
  BY <1>2, <1>3, <1>4, <1>5, <1>6, <1>7, <1>8, <1>9, <1>10, <1>11, <1>12 DEF Next

LEMMA PoolsInvariant == Spec => []PoolsInv
<1>1. Init => PoolsInv
  BY DEF Init, PoolsInv
<1> QED
  BY <1>1, PoolsStep, OptionsTypeCorrect, PTL DEF Spec

(* Every address of an accepted range is in the network of its gateway, for  *)
(* addresses of any width and any netmask, though the code checks three.     *)
THEOREM PoolsCorrect == Spec => []PoolsAreCoherent
<1>1. PoolsInv => PoolsAreCoherent
  BY AcceptedIsCoherent DEF PoolsInv, PoolsAreCoherent, AcceptsNetwork, IsValid
<1> QED
  BY <1>1, PoolsInvariant, PTL
-----------------------------------------------------------------------------
(* An int64 that did not overflow.                                           *)
LEMMA WrapIsIdentity ==
  ASSUME NEW max \in Nat, NEW n \in 0 .. max
  PROVE  Wrap(n, max) = n
<1>1. n + max + 1 \in 0 .. (2 * max + 2) - 1 /\ 2 * max + 2 \in Nat \ {0}
  OBVIOUS
<1>2. (n + max + 1) % (2 * max + 2) = n + max + 1
  BY <1>1
<1> QED
  BY <1>2 DEF Wrap

(* The addresses of a range, of which net.ParseIP knows one spelling.        *)
LEMMA RangeCounts ==
  ASSUME NEW range \in [start : IPs, end : IPs], range.start < range.end
  PROVE  /\ \A ip \in IPs : RangeContains(range, ip) <=> ip \in range.start .. range.end
         /\ {ip \in IPs : RangeContains(range, ip)} = range.start .. range.end
         /\ IsFiniteSet(range.start .. range.end)
         /\ Cardinality(range.start .. range.end) = range.end - range.start + 1
<1>1. /\ Pow2[AddrBits] \in Nat \ {0}
      /\ range.start \in 0 .. Pow2[AddrBits] - 1 /\ range.end \in 0 .. Pow2[AddrBits] - 1
  BY Pow2Doubles, IpPoolAssumption DEF IPs
<1>2. ASSUME NEW ip \in IPs
      PROVE  To16(ip) = ip
  BY <1>1 DEF To16, IPs
<1>3. \A ip \in IPs : RangeContains(range, ip) <=> ip \in range.start .. range.end
  BY <1>1, <1>2 DEF RangeContains, IPs
<1>4. range.start .. range.end \subseteq IPs
  BY <1>1 DEF IPs
<1>5. /\ IsFiniteSet(range.start .. range.end)
      /\ Cardinality(range.start .. range.end) = range.end - range.start + 1
  BY <1>1, FS_Interval
<1> QED
  BY <1>3, <1>4, <1>5

(* The sums of a sequence of numbers are what their definitions say.          *)
LEMMA WrapIsInt ==
  ASSUME NEW max \in Nat, NEW n \in Int
  PROVE  Wrap(n, max) \in Int
BY DEF Wrap

LEMMA WrappedSumsDefined ==
  ASSUME NEW numbers \in Seq(Int), NEW max \in Nat
  PROVE  WrappedSums(numbers, max) = [n \in 0 .. Len(numbers) |->
           IF n = 0 THEN 0 ELSE Wrap(WrappedSums(numbers, max)[n - 1] + numbers[n], max)]
<1> DEFINE l == Len(numbers)
           term == [n \in Nat |-> IF n \in 1 .. l THEN numbers[n] ELSE 0]
           step == [n \in Nat |-> [s \in Int |-> Wrap(s + term[n], max)]]
<1>1. l \in Nat /\ \A n \in 1 .. l : term[n] = numbers[n]
  OBVIOUS
<1>2. term \in [Nat -> Int]
  BY ElementOfSeq
<1> HIDE DEF l, term
<1>3. StaysIn(Int, step)
  BY <1>2, WrapIsInt DEF StaysIn
<1>4. \A n \in Nat, s \in Int : step[n][s] = Wrap(s + term[n], max)
  OBVIOUS
<1> HIDE DEF step
<1>5. PICK g : g \in Sequel(Int, 0, step, l)
  <2>1. 0 \in Int
    OBVIOUS
  <2> QED
    BY <1>1, <1>3, <2>1, RecursionIsDefined, Zenon
<1> USE DEF Sequel
<1>6. ASSUME NEW n \in 0 .. l
      PROVE  g[n] = IF n = 0 THEN 0 ELSE Wrap(g[n - 1] + numbers[n], max)
  <2>1. CASE n = 0
    BY <1>5, <2>1
  <2>2. CASE n # 0
    <3>1. n \in Nat /\ n \in 1 .. l /\ n - 1 \in 0 .. l
      BY <1>1, <2>2
    <3>2. g[n - 1] \in Int
      BY <1>5, <3>1
    <3> QED
      BY <1>1, <1>4, <1>5, <2>2, <3>1, <3>2
  <2> QED
    BY <2>1, <2>2
<1>7. g = [n \in 0 .. l |-> IF n = 0 THEN 0 ELSE Wrap(g[n - 1] + numbers[n], max)]
  BY <1>5, <1>6, Zenon
<1> QED
  BY <1>7 DEF WrappedSums, l

LEMMA SumsDefined ==
  ASSUME NEW numbers \in Seq(Int)
  PROVE  Sums(numbers) = [n \in 0 .. Len(numbers) |->
           IF n = 0 THEN 0 ELSE Sums(numbers)[n - 1] + numbers[n]]
<1> DEFINE l == Len(numbers)
           term == [n \in Nat |-> IF n \in 1 .. l THEN numbers[n] ELSE 0]
           step == [n \in Nat |-> [s \in Int |-> s + term[n]]]
<1>1. l \in Nat /\ \A n \in 1 .. l : term[n] = numbers[n]
  OBVIOUS
<1>2. term \in [Nat -> Int]
  BY ElementOfSeq
<1> HIDE DEF l, term
<1>3. StaysIn(Int, step)
  BY <1>2 DEF StaysIn
<1>4. \A n \in Nat, s \in Int : step[n][s] = s + term[n]
  OBVIOUS
<1> HIDE DEF step
<1>5. PICK g : g \in Sequel(Int, 0, step, l)
  <2>1. 0 \in Int
    OBVIOUS
  <2> QED
    BY <1>1, <1>3, <2>1, RecursionIsDefined, Zenon
<1> USE DEF Sequel
<1>6. ASSUME NEW n \in 0 .. l
      PROVE  g[n] = IF n = 0 THEN 0 ELSE g[n - 1] + numbers[n]
  <2>1. CASE n = 0
    BY <1>5, <2>1
  <2>2. CASE n # 0
    <3>1. n \in Nat /\ n \in 1 .. l /\ n - 1 \in 0 .. l
      BY <1>1, <2>2
    <3>2. g[n - 1] \in Int
      BY <1>5, <3>1
    <3> QED
      BY <1>1, <1>4, <1>5, <2>2, <3>1, <3>2
  <2> QED
    BY <2>1, <2>2
<1>7. g = [n \in 0 .. l |-> IF n = 0 THEN 0 ELSE g[n - 1] + numbers[n]]
  BY <1>5, <1>6, Zenon
<1> QED
  BY <1>7 DEF Sums, l

(* As long as every sum on the way is an int64, nothing overflows.            *)
LEMMA SumsAreExact ==
  ASSUME NEW numbers \in Seq(Int), NEW max \in Nat,
         \A n \in 0 .. Len(numbers) : Sums(numbers)[n] \in 0 .. max
  PROVE  WrappedSums(numbers, max) = Sums(numbers)
<1> DEFINE l == Len(numbers)
           W == WrappedSums(numbers, max)
           E == Sums(numbers)
           S == {n \in Nat : n <= l => W[n] = E[n]}
<1>1. /\ l \in Nat
      /\ W = [n \in 0 .. l |-> IF n = 0 THEN 0 ELSE Wrap(W[n - 1] + numbers[n], max)]
      /\ E = [n \in 0 .. l |-> IF n = 0 THEN 0 ELSE E[n - 1] + numbers[n]]
      /\ \A n \in 0 .. l : E[n] \in 0 .. max
  BY WrappedSumsDefined, SumsDefined
<1> HIDE DEF W, E
<1>2. 0 \in S
  BY <1>1
<1>3. ASSUME NEW n \in Nat, n \in S
      PROVE  n + 1 \in S
  <2> SUFFICES ASSUME n + 1 <= l
               PROVE  W[n + 1] = E[n + 1]
    OBVIOUS
  <2>1. n + 1 \in 0 .. l /\ n + 1 # 0 /\ (n + 1) - 1 = n /\ n <= l
    BY <1>1
  <2>2. W[n + 1] = Wrap(W[n] + numbers[n + 1], max) /\ E[n + 1] = E[n] + numbers[n + 1]
    BY <1>1, <2>1
  <2>3. W[n] = E[n]
    BY <1>3, <2>1
  <2> QED
    BY <1>1, <2>1, <2>2, <2>3, WrapIsIdentity
<1>4. Nat \subseteq S
  <2> HIDE DEF S
  <2> QED
    BY <1>2, <1>3, InductionOverSets
<1>5. \A n \in 0 .. l : W[n] = E[n]
  <2>1. ASSUME NEW n \in 0 .. l
        PROVE  W[n] = E[n]
    <3>1. n \in Nat /\ n <= l /\ n \in S
      BY <1>1, <1>4
    <3> QED
      BY <3>1
  <2> QED
    BY <2>1
<1>6. W = [n \in 0 .. l |-> E[n]] /\ E = [n \in 0 .. l |-> E[n]]
  BY <1>1, <1>5
<1> QED
  BY <1>6 DEF W, E

(* What the first n ranges contain.                                          *)
ContainedIn(pool, n) == {ip \in IPs : \E i \in 1 .. n : RangeContains(pool[i], ip)}

LEMMA IPsAreFinite == IsFiniteSet(IPs) /\ \A T \in SUBSET IPs : IsFiniteSet(T)
<1>1. Pow2[AddrBits] - 1 \in Int
  BY Pow2Doubles, IpPoolAssumption
<1>2. IsFiniteSet(IPs)
  BY <1>1, FS_Interval DEF IPs
<1> QED
  BY <1>2, FS_Subset

(* The sum of the sizes of ranges that do not overlap is the number of the   *)
(* addresses they contain, if that is an int64.                              *)
LEMMA SumCounts ==
  ASSUME NEW pool \in Seq([start : IPs, end : IPs]),
         \A i \in DOMAIN pool : pool[i].start < pool[i].end,
         Disjoint(pool),
         Cardinality(ContainedIn(pool, Len(pool))) <= MaxInt
  PROVE  PoolSize(pool) = Cardinality(ContainedIn(pool, Len(pool)))
<1> DEFINE l == Len(pool)
           U(n) == ContainedIn(pool, n)
           T(n) == pool[n].start .. pool[n].end
<1>1. l \in Nat /\ DOMAIN pool = 1 .. l
  OBVIOUS
<1>2. ASSUME NEW n \in 1 .. l
      PROVE  /\ \A ip \in IPs : RangeContains(pool[n], ip) <=> ip \in T(n)
             /\ T(n) \subseteq IPs /\ IsFiniteSet(T(n))
             /\ Cardinality(T(n)) = pool[n].end - pool[n].start + 1
             /\ pool[n].start \in Int /\ pool[n].end \in Int
             /\ pool[n].start < pool[n].end
  <2>1. pool[n] \in [start : IPs, end : IPs] /\ pool[n].start < pool[n].end
    <3>1. pool[n].start < pool[n].end
      BY <1>1
    <3>2. pool[n] \in [start : IPs, end : IPs]
      BY ElementOfSeq
    <3> QED
      BY <3>1, <3>2
  <2>2. pool[n].start \in Int /\ pool[n].end \in Int
    BY <2>1 DEF IPs
  <2>3. {ip \in IPs : RangeContains(pool[n], ip)} = T(n)
    BY <2>1, RangeCounts
  <2> QED
    BY <2>1, <2>2, <2>3, RangeCounts
<1>3. \A n \in 0 .. l : U(n) \subseteq U(l) /\ IsFiniteSet(U(n)) /\ Cardinality(U(n)) \in 0 .. MaxInt
  <2> SUFFICES ASSUME NEW n \in 0 .. l
               PROVE  U(n) \subseteq U(l) /\ IsFiniteSet(U(n)) /\ Cardinality(U(n)) \in 0 .. MaxInt
    OBVIOUS
  <2>1. U(n) \subseteq U(l)
    BY <1>1 DEF ContainedIn
  <2>2. IsFiniteSet(U(n)) /\ IsFiniteSet(U(l))
    BY IPsAreFinite DEF ContainedIn
  <2>3. Cardinality(U(n)) <= Cardinality(U(l)) /\ Cardinality(U(n)) \in Nat
        /\ Cardinality(U(l)) \in Nat
    BY <2>1, <2>2, FS_Subset, FS_CardinalityType
  <2> QED
    BY <2>1, <2>2, <2>3, IpPoolAssumption
<1>4. ASSUME NEW n \in 1 .. l
      PROVE  /\ RangeSize(pool[n]) = Cardinality(T(n)) /\ RangeSize(pool[n]) # -1
             /\ Cardinality(T(n)) \in 0 .. MaxInt
  <2>1. T(n) \subseteq U(l)
    BY <1>1, <1>2, <1>4 DEF ContainedIn
  <2>2. Cardinality(T(n)) <= Cardinality(U(l)) /\ Cardinality(T(n)) \in Nat
    <3>1. IsFiniteSet(T(n)) /\ IsFiniteSet(U(l))
      BY <1>1, <1>2, <1>3
    <3> HIDE DEF T, U
    <3> QED
      BY <2>1, <3>1, FS_Subset, FS_CardinalityType
  <2>3. Cardinality(U(l)) \in 0 .. MaxInt
    BY <1>1, <1>3
  <2>4. Cardinality(T(n)) \in 0 .. MaxInt
    BY <2>2, <2>3, IpPoolAssumption
  <2> QED
    BY <1>2, <1>4, <2>4, IpPoolAssumption DEF RangeSize
<1>5. ASSUME NEW n \in 0 .. l - 1
      PROVE  Cardinality(U(n + 1)) = Cardinality(U(n)) + Cardinality(T(n + 1))
  <2>1. n + 1 \in 1 .. l /\ n \in 0 .. l
    BY <1>1
  <2>2. U(n + 1) = U(n) \cup T(n + 1)
    BY <1>1, <1>2, <2>1 DEF ContainedIn
  <2>3. U(n) \cap T(n + 1) = {}
    <3> SUFFICES ASSUME NEW ip \in U(n), ip \in T(n + 1)
                 PROVE  FALSE
      OBVIOUS
    <3>1. PICK i \in 1 .. n : RangeContains(pool[i], ip)
      BY DEF ContainedIn
    <3>2. ip \in IPs /\ RangeContains(pool[n + 1], ip)
      BY <1>2, <2>1 DEF ContainedIn
    <3>3. i \in 1 .. l /\ i # n + 1
      BY <1>1, <2>1
    <3> QED
      BY <1>1, <2>1, <3>1, <3>2, <3>3 DEF Disjoint
  <2>4. Cardinality(U(n) \cup T(n + 1))
          = Cardinality(U(n)) + Cardinality(T(n + 1)) - Cardinality(U(n) \cap T(n + 1))
    BY <1>2, <1>3, <2>1, FS_Union
  <2>5. Cardinality({}) = 0
    BY FS_EmptySet
  <2>6. Cardinality(U(n)) \in Nat /\ Cardinality(T(n + 1)) \in Nat
    BY <1>3, <1>4, <2>1, IpPoolAssumption
  <2> HIDE DEF U, T
  <2>7. Cardinality(U(n) \cup T(n + 1)) = Cardinality(U(n)) + Cardinality(T(n + 1))
    <3> DEFINE u == Cardinality(U(n))
               t == Cardinality(T(n + 1))
    <3>1. Cardinality(U(n) \cup T(n + 1)) = u + t - 0
      BY <2>3, <2>4, <2>5
    <3>2. u \in Nat /\ t \in Nat
      BY <2>6
    <3> HIDE DEF u, t
    <3>3. u + t - 0 = u + t
      BY <3>2
    <3>4. Cardinality(U(n) \cup T(n + 1)) = u + t
      BY <3>1, <3>3
    <3> QED
      BY <3>4 DEF u, t
  <2> QED
    BY <2>2, <2>7
<1> DEFINE sizes == [i \in DOMAIN pool |-> RangeSize(pool[i])]
           S == {n \in Nat : n <= l => Sums(sizes)[n] = Cardinality(U(n))}
<1>6. sizes \in Seq(Int) /\ Len(sizes) = l /\ \A i \in 1 .. l : sizes[i] = RangeSize(pool[i])
  <2>1. \A i \in 1 .. l : RangeSize(pool[i]) \in Int
    BY <1>4, IpPoolAssumption
  <2> QED
    BY <1>1, <2>1
<1> HIDE DEF sizes
<1>7. 0 \in S
  <2>1. Sums(sizes)[0] = 0
    BY <1>1, <1>6, SumsDefined
  <2>2. U(0) = {}
    BY DEF ContainedIn
  <2>3. Cardinality({}) = 0
    BY FS_EmptySet
  <2> QED
    BY <2>1, <2>2, <2>3
<1>8. ASSUME NEW n \in Nat, n \in S
      PROVE  n + 1 \in S
  <2> SUFFICES ASSUME n + 1 <= l
               PROVE  Sums(sizes)[n + 1] = Cardinality(U(n + 1))
    OBVIOUS
  <2>1. n + 1 \in 0 .. l /\ n + 1 # 0 /\ n + 1 \in 1 .. l /\ n \in 0 .. l - 1 /\ (n + 1) - 1 = n
    BY <1>1
  <2>2. Sums(sizes)[n + 1] = Sums(sizes)[n] + sizes[n + 1]
    BY <1>1, <1>6, <2>1, SumsDefined
  <2>3. Sums(sizes)[n] = Cardinality(U(n))
    BY <1>1, <1>8
  <2> QED
    BY <1>4, <1>5, <1>6, <2>1, <2>2, <2>3
<1>9. Nat \subseteq S
  <2> HIDE DEF S
  <2> QED
    BY <1>7, <1>8, InductionOverSets
<1>10. \A n \in 0 .. l : Sums(sizes)[n] = Cardinality(U(n))
  BY <1>1, <1>9
<1>11. WrappedSums(sizes, MaxInt)[l] = Cardinality(U(l))
  <2>1. \A n \in 0 .. Len(sizes) : Sums(sizes)[n] \in 0 .. MaxInt
    BY <1>3, <1>6, <1>10
  <2>2. WrappedSums(sizes, MaxInt) = Sums(sizes)
    BY <1>6, <2>1, SumsAreExact, IpPoolAssumption
  <2> QED
    BY <1>1, <1>10, <2>2
<1>12. ~ \E i \in DOMAIN pool : sizes[i] = -1
  BY <1>1, <1>4, <1>6
<1> QED
  BY <1>11, <1>12 DEF PoolSize, sizes

(* The size that the page shows is the number of addresses in the pool, for  *)
(* any number of ranges.                                                     *)
THEOREM SizeCorrect == Spec => []SizeCountsThePool
<1>1. OptionsTypeOK /\ PoolsInv => SizeCountsThePool
  <2> DEFINE contained == {ip \in IPs : PoolContains(DhcpPool, ip)}
  <2> SUFFICES ASSUME OptionsTypeOK, PoolsInv, Disjoint(DhcpPool),
                      Cardinality(contained) <= MaxInt
               PROVE  PoolSize(DhcpPool) = Cardinality(contained)
    BY DEF SizeCountsThePool
  <2>1. DhcpPool \in Seq([start : IPs, end : IPs])
    BY DEF OptionsTypeOK
  <2>2. \A i \in DOMAIN DhcpPool : DhcpPool[i].start < DhcpPool[i].end
    <3>1. DOMAIN DhcpPool = DOMAIN DhcpRanges
      BY DEF PoolsInv, OptionsTypeOK
    <3> QED
      BY <3>1 DEF PoolsInv, AcceptsNetwork, IsValid
  <2>3. contained = ContainedIn(DhcpPool, Len(DhcpPool))
    BY <2>1 DEF PoolContains, ContainedIn
  <2> HIDE DEF contained
  <2> QED
    BY <2>1, <2>2, <2>3, SumCounts
<1> QED
  BY <1>1, OptionsTypeCorrect, PoolsInvariant, PTL
-----------------------------------------------------------------------------
(* Sums of naturals grow, so all of them fit an int64 if the last one does.   *)
LEMMA SumsGrow ==
  ASSUME NEW numbers \in Seq(Nat), NEW m \in 0 .. Len(numbers)
  PROVE  Sums(numbers)[m] \in 0 .. Sums(numbers)[Len(numbers)]
<1> DEFINE l == Len(numbers)
           E == Sums(numbers)
           N == {n \in Nat : n <= l => E[n] \in Nat}
           S == {k \in Nat : m + k <= l => E[m] <= E[m + k]}
<1>1. l \in Nat /\ m \in 0 .. l /\ \A n \in 1 .. l : numbers[n] \in Nat
  OBVIOUS
<1>2. E = [n \in 0 .. l |-> IF n = 0 THEN 0 ELSE E[n - 1] + numbers[n]]
  <2>1. numbers \in Seq(Int)
    OBVIOUS
  <2> QED
    BY <2>1, SumsDefined
<1> HIDE DEF E, l
<1>3. E[0] = 0 /\ \A n \in Nat : n + 1 <= l => E[n + 1] = E[n] + numbers[n + 1]
  BY <1>1, <1>2
<1>4. \A n \in 0 .. l : E[n] \in Nat
  <2>1. 0 \in N
    BY <1>3
  <2>2. ASSUME NEW n \in Nat, n \in N
        PROVE  n + 1 \in N
    BY <1>1, <1>3, <2>2
  <2>3. Nat \subseteq N
    <3> HIDE DEF N
    <3> QED
      BY <2>1, <2>2, InductionOverSets
  <2> QED
    BY <1>1, <2>3
<1>5. \A k \in Nat : m + k <= l => E[m] <= E[m + k]
  <2>1. 0 \in S
    BY <1>1, <1>4
  <2>2. ASSUME NEW k \in Nat, k \in S
        PROVE  k + 1 \in S
    <3> SUFFICES ASSUME m + (k + 1) <= l
                 PROVE  E[m] <= E[m + (k + 1)]
      OBVIOUS
    <3>1. m \in Nat /\ m + k \in Nat /\ m + k \in 0 .. l /\ (m + k) + 1 = m + (k + 1)
      BY <1>1
    <3>2. E[m] <= E[m + k]
      BY <2>2, <3>1
    <3>3. E[m + (k + 1)] = E[m + k] + numbers[m + (k + 1)]
      BY <1>3, <3>1
    <3>4. numbers[m + (k + 1)] \in Nat
      BY <1>1, <3>1
    <3> QED
      BY <1>1, <1>4, <3>1, <3>2, <3>3, <3>4
  <2>3. Nat \subseteq S
    <3> HIDE DEF S
    <3> QED
      BY <2>1, <2>2, InductionOverSets
  <2> QED
    BY <2>3
<1>6. E[m] <= E[l]
  <2>1. l - m \in Nat /\ m + (l - m) = l
    BY <1>1
  <2> QED
    BY <1>1, <1>5, <2>1
<1> QED
  BY <1>1, <1>4, <1>6 DEF E, l

(* A duration that fits an int64 is what is written, for any terms and units. *)
THEOREM DurationCorrect == Spec => DurationIsExact
<1>1. ASSUME NEW duration \in Durations, DurationParses(duration),
             WrittenHours(duration) <= MaxDuration
      PROVE  parseDuration(duration) =
               IF duration.negative THEN -WrittenHours(duration) ELSE WrittenHours(duration)
  <2> DEFINE hours == Hours(duration)
             terms == duration.terms
  <2>1. terms \in Seq([number : Nat, unit : Nat])
    BY AddonOptionsAssumption
  <2>2. hours \in Seq(Nat) /\ Len(hours) = Len(terms)
    <3>1. ASSUME NEW i \in 1 .. Len(terms)
          PROVE  terms[i].number * terms[i].unit \in Nat
      <4>1. terms[i] \in [number : Nat, unit : Nat]
        BY <2>1, ElementOfSeq
      <4> QED
        BY <4>1
    <3>2. hours = [i \in 1 .. Len(terms) |-> terms[i].number * terms[i].unit]
      BY <2>1 DEF Hours
    <3> HIDE DEF hours
    <3> QED
      BY <2>1, <3>1, <3>2
  <2>3. WrittenHours(duration) = Sums(hours)[Len(hours)]
    BY <2>2 DEF WrittenHours, Hours
  <2> HIDE DEF hours
  <2>4. \A n \in 0 .. Len(hours) : Sums(hours)[n] \in 0 .. MaxDuration
    <3>1. ASSUME NEW n \in 0 .. Len(hours)
          PROVE  Sums(hours)[n] \in 0 .. MaxDuration
      <4>1. /\ Sums(hours)[n] \in 0 .. Sums(hours)[Len(hours)]
            /\ Sums(hours)[Len(hours)] \in 0 .. Sums(hours)[Len(hours)]
        <5>1. Len(hours) \in 0 .. Len(hours)
          BY <2>2
        <5> QED
          BY <2>2, <5>1, SumsGrow
      <4> QED
        BY <1>1, <2>3, <4>1, AddonOptionsAssumption
    <3> QED
      BY <3>1
  <2>5. WrappedSums(hours, MaxDuration) = Sums(hours)
    <3>1. hours \in Seq(Int)
      BY <2>2
    <3> QED
      BY <2>4, <3>1, SumsAreExact, AddonOptionsAssumption
  <2> DEFINE sum == Sums(hours)[Len(hours)]
  <2>6. sum \in 0 .. MaxDuration /\ MaxDuration \in Nat
    <3>1. Len(hours) \in 0 .. Len(hours)
      BY <2>2
    <3> QED
      BY <2>4, <3>1, AddonOptionsAssumption
  <2>7. parseDuration(duration) = IF duration.negative THEN Wrap(-sum, MaxDuration) ELSE sum
    BY <2>2, <2>5 DEF parseDuration, hours
  <2> HIDE DEF sum
  <2>8. Wrap(-sum, MaxDuration) = -sum
    BY <2>6 DEF Wrap
  <2>9. WrittenHours(duration) = sum
    BY <2>3 DEF sum
  <2> QED
    BY <2>7, <2>8, <2>9
<1>2. ASSUME phase' = "loaded", NEW duration \in Durations, LoadDuration(duration)
      PROVE  /\ DurationParses(duration)
             /\ ForgetPastClientsAfter' = parseDuration(duration)
  BY <1>2 DEF LoadDuration
<1>3. [Next]_vars =>
        [phase' = "loaded" =>
           \A duration \in Durations :
             LoadDuration(duration) /\ WrittenHours(duration) <= MaxDuration =>
               ForgetPastClientsAfter' =
                 IF duration.negative THEN -WrittenHours(duration)
                 ELSE WrittenHours(duration)]_vars
  BY <1>1, <1>2
<1> QED
  BY <1>3, PTL DEF Spec, DurationIsExact
=============================================================================
