--------------------------- MODULE ClientMetadata ---------------------------
(***************************************************************************)
(* How the UI backend decorates the clients it shows with the options that *)
(* AddonOptions loads: processLeaseUpdatesFromArray for the current        *)
(* clients, generateWebSocketMessage for the past ones.  ListenAndServe    *)
(* shows nothing unless the options are loaded.                            *)
(*                                                                         *)
(* The friendly name, the tags and the description of a configured client  *)
(* are fields of its settings, so the settings stand for them; a link is   *)
(* the settings whose template is rendered.  A past client has no link.    *)
(*                                                                         *)
(* What a client calls itself is shown as dnsmasq has stored it in the     *)
(* lease file or the script in the database: the add-on does not check it. *)
(***************************************************************************)
EXTENDS AddonOptions

CONSTANTS
  Strangers,   \* MAC addresses of clients that no entry names
  Leased,      \* addresses dnsmasq leases, as the lease file spells them
  Hostnames    \* labels that clients call themselves

ASSUME ClientMetadataAssumption ==
  /\ Strangers \cap Macs = {}
  /\ Leased \subseteq Addrs
  /\ Hostnames \subseteq Labels

Clients == Macs \cup Strangers

\* What the lease file and the database have for a client without a hostname.
NoHostnames == {"*", NoLabel}

\* The settings of a client: its name, tags and description.
SettingsFor(mac) ==
  IF mac \in Macs THEN GetDhcpClientSettingsByMAC(mac) ELSE NoSettings

\* Faulty variant: any reservation of the address will do.
hasReservationOfAnybody(ip, macExpected) ==
  GetDhcpClientSettingsByIP(ip) # NoSettings

hasIpAddressReservationByIP(ip, macExpected) ==
  LET res == GetDhcpClientSettingsByIP(ip)
  IN  res # NoSettings /\ res.mac = macExpected

hasIpAddressReservationByMAC(mac) ==
  SettingsFor(mac) # NoSettings /\ SettingsFor(mac).ip # NoIP

\* A configured client has the link of its settings, if any; another client
\* that of the settings which reserve its address.
evaluateLink(ip, mac) ==
  LET own    == SettingsFor(mac)
      source == IF own # NoSettings THEN own ELSE GetDhcpClientSettingsByIP(ip)
  IN  IF source # NoSettings /\ source.link THEN source ELSE NoSettings

\* The configured name and alias, or else the hostname, whatever it is, in the
\* DNS domain.
getDnsNamesFor(mac, hostname) ==
  LET own             == SettingsFor(mac)
      Qualified(name) == IF DnsDomain = <<NoLabel>> THEN <<name>> ELSE <<name>> \o DnsDomain
  IN  IF own # NoSettings THEN {Qualified(own.name), own.alias} \ {NoAlias}
      ELSE {Qualified(name) : name \in {hostname} \ NoHostnames}

\* DhcpClientData: the row of a lease in the table of current clients.
ClientData(mac, ip, hostname) ==
  [settings         |-> SettingsFor(mac),
   HasStaticIP      |-> hasIpAddressReservationByIP(ip, mac),
   IsInsideDHCPPool |-> PoolContains(DhcpPool, ip),
   EvaluatedLink    |-> evaluateLink(ip, mac),
   DnsNames         |-> getDnsNamesFor(mac, hostname)]

\* PastDhcpClientData: the row of a client of the history.
PastClientData(mac, hostname) ==
  [settings    |-> SettingsFor(mac),
   HasStaticIP |-> hasIpAddressReservationByMAC(mac),
   DnsNames    |-> getDnsNamesFor(mac, hostname)]
-----------------------------------------------------------------------------
(* The static flags of the two tables agree, although current clients are     *)
(* looked up by the address they lease and past ones by MAC: a current client *)
(* has the flag iff it would have it as a past one and is on the very address *)
(* that its settings reserve.  So nobody on another's address is called       *)
(* static, and a client on its own address keeps the flag when it leaves.     *)
TablesAgree ==
  \A mac \in Clients, ip \in Leased, hostname \in Hostnames \cup NoHostnames :
    LET past == PastClientData(mac, hostname)
    IN  phase = "loaded" =>
          (ClientData(mac, ip, hostname).HasStaticIP
             <=> past.HasStaticIP /\ past.settings.ip = ip)

(* DOCS.md: an alias "must end with" the domain, which "will be appended      *)
(* automatically".  Every name that a table shows as resolvable is in the DNS *)
(* domain that dnsmasq serves, if that is a DNS name, wherever the name is    *)
(* from: options, lease file or database.  It is a valid name if the client   *)
(* is configured, since names and aliases are checked when they are loaded;   *)
(* a hostname is not, and gives a valid name iff it is a valid label.         *)
NamesAreInDomain ==
  \A mac \in Clients, hostname \in Hostnames \cup NoHostnames :
    phase = "loaded" /\ isValidRFC1123DNSName(DnsDomain) =>
      \A name \in getDnsNamesFor(mac, hostname) :
        /\ InDomain(name, DnsDomain)
        /\ isValidRFC1123DNSName(name)
             <=> (SettingsFor(mac) # NoSettings \/ isValidRFC1123Hostname(hostname))

(* types.go: HasStaticIP "indicates whether the DHCP server is configured to  *)
(* provide a specific IP address (i.e. has an IP address reservation) for     *)
(* this client": it does not depend on the address the client has.            *)
StaticMeansReserved ==
  \A mac \in Clients, ip \in Leased, hostname \in Hostnames \cup NoHostnames :
    phase = "loaded" =>
      (ClientData(mac, ip, hostname).HasStaticIP
         <=> PastClientData(mac, hostname).HasStaticIP)
=============================================================================
