---------------------------- MODULE AddonOptions ----------------------------
(***************************************************************************)
(* The options of the add-on: LoadFromJSON of pkg/config, which validates  *)
(* the lists of options.json entry by entry and fills the indexes as it    *)
(* goes, and the lookups of pkg/uibackend that decorate a client with      *)
(* them.  A step reads one entry of a list; the first entry that is        *)
(* refused ends the loading, and what was stored before stays stored.      *)
(*                                                                         *)
(* Text is reduced to what the checks make of it: an entry is "flawed"     *)
(* when its MAC address, its link or its reserved address does not parse;  *)
(* MAC addresses are those net.ParseMAC returns, whose String() has one    *)
(* spelling.  A DNS name is the sequence of its labels, as strings.Split   *)
(* makes it: the empty name is one empty label.                            *)
(***************************************************************************)
EXTENDS IpPool, FiniteSets, Functions

CONSTANTS
  Networks,         \* entries of dhcp_pools
  TypicalNetworks,  \* those the other lists are combined with
  Macs,             \* MAC addresses of clients
  Reservable,       \* addresses that entries reserve, as netip.Addr
  Labels, NoLabel,  \* labels of DNS names, and the empty one
  Malformed,        \* those that break the rules of RFC 1123
  Names, Aliases,   \* labels and DNS names that may be written in entries
  Hosts,            \* entries of dns_custom_hosts
  Durations,        \* what may be written in forget_past_clients_after
  MaxDuration,      \* the largest time.Duration
  MaxEntries,       \* bound on the entries of each list
  NoIP,             \* no reserved_ip; also an address that is not written
  NoSettings        \* no settings for a key of an index

Ports == {0, 1, 32768, 32769}
\* dns_domain: whether it is a DNS name is not checked.
Domains == {<<NoLabel>>, <<"-">>, <<"lan">>, <<"local">>}
NoAlias == <<>>

\* Entries of dhcp_client_settings and of dhcp_mac_address_blocklist.
SettingEntries ==
  [name : Names, mac : Macs, ip : Reservable \cup {NoIP}, link : BOOLEAN,
   alias : Aliases \cup {NoAlias}, flawed : BOOLEAN]
BlocklistEntries == [mac : Macs, flawed : BOOLEAN]

\* DhcpClientSettings; the tags and the description go with the name, and one
\* alias stands for the list.
Settings ==
  [name : Names, mac : Macs, ip : Reservable \cup {NoIP}, link : BOOLEAN,
   alias : Seq(Labels)]

ASSUME AddonOptionsAssumption ==
  /\ TypicalNetworks \subseteq Networks
  /\ Reservable \subseteq Addrs
  /\ NoIP \notin Addrs \cup IPs \cup {Unparsed}
  /\ NoSettings \notin Settings
  /\ {NoLabel, "-"} \subseteq Malformed /\ Malformed \subseteq Labels
  /\ Names \subseteq Labels /\ Aliases \subseteq Seq(Labels)
  /\ {"lan", "local"} \subseteq Labels \ Malformed
  /\ MaxEntries \in Nat /\ MaxDuration \in Nat
  /\ \A duration \in Durations :
       duration.terms \in Seq([number : Nat, unit : Nat])

VARIABLES
  phase,       \* where LoadFromJSON is; "refused" once it returned an error
  error,       \* what that error is about
  settingsRead,   \* the entries of dhcp_client_settings read so far, and
  blocklistRead,  \* of dhcp_mac_address_blocklist, a refused one included
  DhcpPool,    \* the ranges, for Size and Contains
  DhcpRanges,  \* the same networks with their gateways and netmasks
  DhcpClientSettingsByMAC,
  DhcpClientSettingsByIP,
  BlockedMACs,
  DnsDomain,
  DnsCustomHosts,
  ForgetPastClientsAfter

pools == <<DhcpPool, DhcpRanges>>
indexes == <<DhcpClientSettingsByMAC, DhcpClientSettingsByIP>>
entriesRead == <<settingsRead, blocklistRead>>
rest == <<DnsDomain, DnsCustomHosts, ForgetPastClientsAfter>>
progress == <<phase, error>>
vars == <<progress, entriesRead, pools, indexes, BlockedMACs, rest>>

Init ==
  /\ phase = "networks"
  /\ error = "none"
  /\ settingsRead = <<>>
  /\ blocklistRead = <<>>
  /\ DhcpPool = <<>>
  /\ DhcpRanges = <<>>
  /\ DhcpClientSettingsByMAC = [mac \in Macs |-> NoSettings]
  /\ DhcpClientSettingsByIP = [ip \in Reservable |-> NoSettings]
  /\ BlockedMACs = {}
  /\ DnsDomain = <<NoLabel>>
  /\ DnsCustomHosts = <<>>
  /\ ForgetPastClientsAfter = 0
-----------------------------------------------------------------------------
(* GetDhcpClientSettingsByMAC and GetDhcpClientSettingsByIP: the settings,  *)
(* or NoSettings.                                                           *)
GetDhcpClientSettingsByMAC(mac) == DhcpClientSettingsByMAC[mac]

GetDhcpClientSettingsByIP(ip) ==
  IF ip \in Reservable THEN DhcpClientSettingsByIP[ip] ELSE NoSettings

isValidRFC1123Hostname(label) == label \notin Malformed

isValidRFC1123DNSName(name) ==
  \A i \in DOMAIN name : isValidRFC1123Hostname(name[i])

\* A name ends in "." and the domain.
InDomain(name, domain) == Len(name) > Len(domain) /\ IsSuffix(domain, name)

\* Faulty variant: the domain is not appended.
loadDnsAliasesAsWritten(alias, domain) == alias

\* loadDnsAliases, for an alias that is valid: the domain is appended to one
\* that lacks it.
loadDnsAliases(alias, domain) ==
  IF alias = NoAlias \/ InDomain(alias, domain) THEN alias ELSE alias \o domain

\* parseDuration: a sum of terms, each a number of hours (or of another unit
\* of time.ParseDuration) times the hours of its unit (day, week, ...), in
\* int64 arithmetic that is not checked.
DurationParses(duration) ==
  /\ duration.terms # <<>>
  /\ \A i \in DOMAIN duration.terms :
       duration.terms[i].number \in 0 .. MaxDuration

\* Faulty variant: the unit of the first term is kept for the others.
HoursInFirstUnit(duration) ==
  [i \in DOMAIN duration.terms |-> duration.terms[i].number * duration.terms[1].unit]

Hours(duration) ==
  [i \in DOMAIN duration.terms |-> duration.terms[i].number * duration.terms[i].unit]

parseDuration(duration) ==
  LET sumDur == WrappedSums(Hours(duration), MaxDuration)[Len(duration.terms)]
  IN  IF duration.negative THEN Wrap(-sumDur, MaxDuration) ELSE sumDur

\* What each entry is checked for, against what is stored already.
AcceptsNetwork(nw) == IsValid(nw) /\ HasValidIPs(nw) /\ HasValidGateway(nw)

\* Faulty variant: duplicate MAC addresses are not checked.
AcceptsSettingOfAnyMac(entry) ==
  /\ isValidRFC1123Hostname(entry.name) /\ ~entry.flawed
  /\ isValidRFC1123DNSName(entry.alias)
  /\ entry.ip # NoIP => GetDhcpClientSettingsByIP(entry.ip) = NoSettings

\* Faulty variant: duplicate addresses are not checked.
AcceptsSettingOfAnyIP(entry) ==
  /\ isValidRFC1123Hostname(entry.name) /\ ~entry.flawed
  /\ isValidRFC1123DNSName(entry.alias)
  /\ GetDhcpClientSettingsByMAC(entry.mac) = NoSettings

AcceptsSetting(entry) ==
  /\ isValidRFC1123Hostname(entry.name) /\ ~entry.flawed
  /\ isValidRFC1123DNSName(entry.alias)
  /\ GetDhcpClientSettingsByMAC(entry.mac) = NoSettings
  /\ entry.ip # NoIP => GetDhcpClientSettingsByIP(entry.ip) = NoSettings

\* Faulty variant: the settings are not consulted.
AcceptsBlockedClient(entry) == ~entry.flawed

AcceptsBlocked(entry) ==
  /\ ~entry.flawed
  /\ GetDhcpClientSettingsByMAC(entry.mac) = NoSettings

AcceptsHost(host) ==
  /\ ~host.flawed
  /\ host.ipv4 # NoIP \/ host.ipv6 # NoIP
  /\ host.ipv4 # NoIP => host.ipv4 # Unparsed /\ Is4(host.ipv4)
  /\ host.ipv6 # NoIP => host.ipv6 # Unparsed /\ ~Is4(host.ipv6)
-----------------------------------------------------------------------------
\* Bounds: a second network is one of TypicalNetworks, and the other lists are
\* varied after at most one network of those.
Candidates == IF DhcpRanges = <<>> THEN Networks ELSE TypicalNetworks
Varied == Len(DhcpRanges) <= 1 /\ Range(DhcpRanges) \subseteq TypicalNetworks

\* The error return of LoadFromJSON, for an entry of a list.
Refuse(list) ==
  /\ phase' = "refused"
  /\ error' = list
  /\ UNCHANGED <<pools, indexes, BlockedMACs, rest>>

LoadNetwork(nw) ==
  /\ phase = "networks" /\ Len(DhcpRanges) < MaxEntries
  /\ AcceptsNetwork(nw)
  /\ DhcpPool' = Append(DhcpPool, [start |-> nw.start, end |-> nw.end])
  /\ DhcpRanges' = Append(DhcpRanges, nw)
  /\ UNCHANGED <<progress, entriesRead, indexes, BlockedMACs, rest>>

RefuseNetwork(nw) ==
  /\ phase = "networks" /\ Len(DhcpRanges) < MaxEntries
  /\ ~AcceptsNetwork(nw)
  /\ Refuse("networks")
  /\ UNCHANGED entriesRead

\* After the networks: the port of the web UI and the DNS domain, which is a
\* local variable (dnsDomain) until it is stored at the end.
CheckServers(port, domain) ==
  /\ phase = "networks"
  /\ IF port <= 0 \/ port > 32768 \/ domain = <<"local">>
     THEN phase' = "refused" /\ error' = "servers" /\ UNCHANGED DnsDomain
     ELSE phase' = "settings" /\ DnsDomain' = domain /\ UNCHANGED error
  /\ UNCHANGED <<entriesRead, pools, indexes, BlockedMACs>>
  /\ UNCHANGED <<DnsCustomHosts, ForgetPastClientsAfter>>

ReadSetting(entry) ==
  /\ Len(settingsRead) < MaxEntries
  /\ settingsRead' = Append(settingsRead, entry)
  /\ UNCHANGED blocklistRead

ClientSettings(entry) ==
  [name |-> entry.name, mac |-> entry.mac, ip |-> entry.ip, link |-> entry.link,
   alias |-> loadDnsAliases(entry.alias, DnsDomain)]

\* Faulty variant: an entry without reserved_ip is indexed too.
LoadSettingIndexingNoIP(entry) ==
  LET clientSettings == ClientSettings(entry)
  IN  /\ phase = "settings"
      /\ ReadSetting(entry)
      /\ AcceptsSetting(entry)
      /\ DhcpClientSettingsByIP' =
           [ip \in Reservable \cup {entry.ip} |->
              IF ip = entry.ip THEN clientSettings ELSE DhcpClientSettingsByIP[ip]]
      /\ DhcpClientSettingsByMAC' =
           [DhcpClientSettingsByMAC EXCEPT ![entry.mac] = clientSettings]
      /\ UNCHANGED <<progress, pools, BlockedMACs, rest>>

LoadSetting(entry) ==
  LET clientSettings == ClientSettings(entry)
  IN  /\ phase = "settings"
      /\ ReadSetting(entry)
      /\ AcceptsSetting(entry)
      /\ DhcpClientSettingsByIP' =
           IF entry.ip = NoIP THEN DhcpClientSettingsByIP
           ELSE [DhcpClientSettingsByIP EXCEPT ![entry.ip] = clientSettings]
      /\ DhcpClientSettingsByMAC' =
           [DhcpClientSettingsByMAC EXCEPT ![entry.mac] = clientSettings]
      /\ UNCHANGED <<progress, pools, BlockedMACs, rest>>

RefuseSetting(entry) ==
  /\ phase = "settings"
  /\ ReadSetting(entry)
  /\ ~AcceptsSetting(entry)
  /\ Refuse("settings")

EndSettings ==
  /\ phase = "settings"
  /\ phase' = "blocklist"
  /\ UNCHANGED <<error, entriesRead, pools, indexes, BlockedMACs, rest>>

ReadBlocked(entry) ==
  /\ Len(blocklistRead) < MaxEntries
  /\ blocklistRead' = Append(blocklistRead, entry)
  /\ UNCHANGED settingsRead

LoadBlocked(entry) ==
  /\ phase = "blocklist"
  /\ ReadBlocked(entry)
  /\ AcceptsBlocked(entry)
  /\ BlockedMACs' = BlockedMACs \cup {entry.mac}
  /\ UNCHANGED <<progress, pools, indexes, rest>>

RefuseBlocked(entry) ==
  /\ phase = "blocklist"
  /\ ReadBlocked(entry)
  /\ ~AcceptsBlocked(entry)
  /\ Refuse("blocklist")

EndBlocklist ==
  /\ phase = "blocklist"
  /\ phase' = "hosts"
  /\ UNCHANGED <<error, entriesRead, pools, indexes, BlockedMACs, rest>>

LoadHost(host) ==
  /\ phase = "hosts" /\ Len(DnsCustomHosts) < MaxEntries
  /\ AcceptsHost(host)
  /\ DnsCustomHosts' = Append(DnsCustomHosts, host)
  /\ UNCHANGED <<progress, entriesRead, pools, indexes, BlockedMACs>>
  /\ UNCHANGED <<DnsDomain, ForgetPastClientsAfter>>

RefuseHost(host) ==
  /\ phase = "hosts" /\ Len(DnsCustomHosts) < MaxEntries
  /\ ~AcceptsHost(host)
  /\ Refuse("hosts")
  /\ UNCHANGED entriesRead

\* The last check; the other settings are copied as they are.
LoadDuration(duration) ==
  /\ phase = "hosts"
  /\ IF DurationParses(duration)
     THEN /\ phase' = "loaded"
          /\ UNCHANGED error
          /\ ForgetPastClientsAfter' = parseDuration(duration)
     ELSE /\ phase' = "refused"
          /\ error' = "duration"
          /\ UNCHANGED ForgetPastClientsAfter
  /\ UNCHANGED <<entriesRead, pools, indexes, BlockedMACs>>
  /\ UNCHANGED <<DnsDomain, DnsCustomHosts>>

Next ==
  \/ /\ phase = "networks"
     /\ \E nw \in Candidates : LoadNetwork(nw) \/ RefuseNetwork(nw)
  \/ \E port \in Ports, domain \in Domains : CheckServers(port, domain)
  \/ Varied /\ \E entry \in SettingEntries : LoadSetting(entry) \/ RefuseSetting(entry)
  \/ EndSettings
  \/ Varied /\ \E entry \in BlocklistEntries : LoadBlocked(entry) \/ RefuseBlocked(entry)
  \/ EndBlocklist
  \/ Varied /\ \E host \in Hosts : LoadHost(host) \/ RefuseHost(host)
  \/ \E duration \in Durations : LoadDuration(duration)

Spec == Init /\ [][Next]_vars
-----------------------------------------------------------------------------
(* The types of the variables: the indexes hold settings under MAC addresses  *)
(* and under addresses that are reserved, the pool only ranges that parsed.   *)
OptionsTypeOK ==
  /\ phase \in {"networks", "settings", "blocklist", "hosts", "loaded", "refused"}
  /\ error \in {"none", "networks", "servers", "settings", "blocklist", "hosts", "duration"}
  /\ settingsRead \in Seq(SettingEntries)
  /\ blocklistRead \in Seq(BlocklistEntries)
  /\ DhcpPool \in Seq([start : IPs, end : IPs])
  /\ DhcpRanges \in Seq(Networks)
  /\ DhcpClientSettingsByMAC \in [Macs -> Settings \cup {NoSettings}]
  /\ DhcpClientSettingsByIP \in [Reservable -> Settings \cup {NoSettings}]
  /\ BlockedMACs \subseteq Macs
  /\ DnsDomain \in Domains
  /\ DnsCustomHosts \in Seq(Hosts)

(* The two indexes hold the same settings at any time, after a refusal too:   *)
(* an entry found by its address is the one found by its MAC address, and an  *)
(* entry found by its MAC address is found by the address it reserves.        *)
IndexesAgree ==
  /\ \A ip \in Reservable :
       LET settings == DhcpClientSettingsByIP[ip]
       IN  settings # NoSettings =>
             /\ settings.ip = ip
             /\ DhcpClientSettingsByMAC[settings.mac] = settings
  /\ \A mac \in Macs :
       LET settings == DhcpClientSettingsByMAC[mac]
       IN  settings # NoSettings =>
             /\ settings.mac = mac
             /\ settings.ip # NoIP => DhcpClientSettingsByIP[settings.ip] = settings

(* DOCS.md: "a MAC address cannot appear in both this list and in             *)
(* dhcp_client_settings", whatever the order of the two in the file.          *)
BlockedAreNotConfigured ==
  \A mac \in BlockedMACs : DhcpClientSettingsByMAC[mac] = NoSettings

(* LoadFromJSON returns an error about the clients exactly when what it has   *)
(* read of them contradicts itself: an entry with a flaw or a name that is    *)
(* not valid, two entries for one MAC address or one reserved address, a      *)
(* client that is also blocked.                                               *)
ClientsCohere ==
  /\ \A i \in DOMAIN settingsRead :
       /\ ~settingsRead[i].flawed
       /\ isValidRFC1123Hostname(settingsRead[i].name)
       /\ isValidRFC1123DNSName(settingsRead[i].alias)
  /\ \A i \in DOMAIN blocklistRead : ~blocklistRead[i].flawed
  /\ \A i, j \in DOMAIN settingsRead : i # j =>
       /\ settingsRead[i].mac # settingsRead[j].mac
       /\ settingsRead[i].ip = NoIP \/ settingsRead[i].ip # settingsRead[j].ip
  /\ \A i \in DOMAIN settingsRead, j \in DOMAIN blocklistRead :
       settingsRead[i].mac # blocklistRead[j].mac

RefusesTheIncoherent ==
  error \in {"settings", "blocklist"} <=> ~ClientsCohere

(* The pools that are accepted are networks: all addresses of a range, not    *)
(* only the three that are checked, are of one family and share with the      *)
(* gateway what the netmask masks; and no range is empty.                     *)
PoolsAreCoherent ==
  \A i \in DOMAIN DhcpRanges :
    LET nw == DhcpRanges[i]
    IN  /\ DhcpPool[i] = [start |-> nw.start, end |-> nw.end]
        /\ nw.start < nw.end
        /\ \A ip \in nw.start .. nw.end :
             NetworkContains(nw.gateway, NetmaskOf(nw.netmask), ip)

(* The size that the page shows is the number of addresses the pool contains  *)
(* in the sense of Contains, whatever their spelling; -1 stands for a range   *)
(* that is too large, and ranges that overlap are not compared.               *)
Disjoint(pool) ==
  \A i, j \in DOMAIN pool, ip \in IPs :
    RangeContains(pool[i], ip) /\ RangeContains(pool[j], ip) => i = j

SizeCountsThePool ==
  LET contained == {ip \in IPs : PoolContains(DhcpPool, ip)}
  IN  Disjoint(DhcpPool) /\ Cardinality(contained) <= MaxInt =>
        PoolSize(DhcpPool) = Cardinality(contained)

(* parseDuration returns what is written, the sum of its terms each in its    *)
(* own unit, as long as that fits an int64: nothing overflows on the way.     *)
Sums(numbers) ==
  LET sum[n \in 0 .. Len(numbers)] == IF n = 0 THEN 0 ELSE sum[n - 1] + numbers[n]
  IN  sum

WrittenHours(duration) ==
  Sums([i \in DOMAIN duration.terms |->
          duration.terms[i].number * duration.terms[i].unit])[Len(duration.terms)]

DurationIsExact ==
  [][phase' = "loaded" =>
       \A duration \in Durations :
         LoadDuration(duration) /\ WrittenHours(duration) <= MaxDuration =>
           ForgetPastClientsAfter' =
             IF duration.negative THEN -WrittenHours(duration) ELSE WrittenHours(duration)]_vars
-----------------------------------------------------------------------------
\* The settings that can be made of an entry, whatever the domain.
RegistrableSettings ==
  {[name |-> entry.name, mac |-> entry.mac, ip |-> entry.ip, link |-> entry.link,
    alias |-> loadDnsAliases(entry.alias, domain)] :
     entry \in SettingEntries, domain \in Domains}

\* What either lookup can find, and what may still be added.
stored ==
  {DhcpClientSettingsByMAC[mac] : mac \in Macs}
    \cup {DhcpClientSettingsByIP[ip] : ip \in Reservable}

Stage ==
  CASE phase = "networks"  -> "nothing"
    [] phase = "settings"  -> "clients"
    [] phase = "blocklist" -> "blocked"
    [] OTHER               -> "closed"

Registry ==
  INSTANCE ClientRegistry WITH
    Registrable <- RegistrableSettings, Blockable <- Macs,
    stage <- Stage, registered <- stored \ {NoSettings}, blocked <- BlockedMACs

(* The two indexes and the blocklist are a registry of clients: what either   *)
(* lookup finds was stored without a conflict with anything that was stored   *)
(* before, is never replaced or dropped, and is final once the loading has    *)
(* ended or has been refused.                                                 *)
ImplementsRegistry == Registry!RegistrySpec
=============================================================================
