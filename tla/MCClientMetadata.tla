-------------------------- MODULE MCClientMetadata --------------------------
(***************************************************************************)
(* An instance of ClientMetadata for TLC: addresses of 5 bits, of which    *)
(* 0..7 are IPv4; every network is tried that can be written with the      *)
(* addresses of Written and the netmasks of WrittenMasks.                  *)
(***************************************************************************)
EXTENDS ClientMetadata

\* IPv4: two private blocks and public addresses around them.  IPv6: the
\* upper half is private (fc00::/7).
MCPrivate == {1, 2, 4, 5, 6} \cup 16 .. 31

Written == {Unparsed} \cup 0 .. 7 \cup {8, 16, 17, 23, 24, 30, 31}
WrittenMasks == {Unparsed, 0, 4, 5, 6, 7, 16, 20, 24, 28, 31}

Network(start, end, gateway, netmask) ==
  [start |-> start, end |-> end, gateway |-> gateway, netmask |-> netmask]

MCNetworks ==
  [start : Written, end : Written, gateway : Written, netmask : WrittenMasks]

\* Two ranges of one IPv4 network, two of IPv6 networks whose sizes together
\* exceed MaxInt.
MCTypicalNetworks ==
  {Network(4, 5, 6, 4), Network(5, 6, 4, 4),
   Network(16, 23, 17, 24), Network(24, 31, 30, 24)}

\* 4 is IPv4, 36 is the same address with "::ffff:" before it.
MCReservable == {4, 36}

\* An alias without the domain, with it, and one that is not valid.
MCAliases == {<<"nas">>, <<"nas", "lan">>, <<NoLabel>>}
MCLeased == {4, 5}

Host(ipv4, ipv6, flawed) == [ipv4 |-> ipv4, ipv6 |-> ipv6, flawed |-> flawed]

MCHosts ==
  {Host(4, 16, FALSE), Host(4, 16, TRUE), Host(NoIP, NoIP, FALSE),
   Host(16, NoIP, FALSE), Host(NoIP, 4, FALSE), Host(Unparsed, 16, FALSE)}

\* Hours and days; -2h, 5 days and 2 h, 5 days and 24 h (too long), and what
\* does not parse.
MCDurations ==
  {[negative |-> FALSE, terms |-> <<>>],
   [negative |-> TRUE, terms |-> <<[number |-> 2, unit |-> 1]>>],
   [negative |-> FALSE, terms |-> <<[number |-> 5, unit |-> 24], [number |-> 2, unit |-> 1]>>],
   [negative |-> FALSE, terms |-> <<[number |-> 5, unit |-> 24], [number |-> 24, unit |-> 1]>>],
   [negative |-> FALSE, terms |-> <<[number |-> 128, unit |-> 1]>>]}
=============================================================================
