------------------------------- MODULE IpPool -------------------------------
(***************************************************************************)
(* IP addresses, networks and pools as the backend computes with them:     *)
(* net.IP, net.IPMask and net.IPNet as ippool and config use them, Range   *)
(* and Pool of pkg/ippool, IpNetworkInfo of pkg/config.                    *)
(*                                                                         *)
(* net.ParseIP returns 16 bytes for both families, so an address is one    *)
(* number of AddrBits bits and the IPv4 addresses are an aligned block of  *)
(* those numbers.  A netip.Addr, which keeps "a.b.c.d" and                 *)
(* "::ffff:a.b.c.d" apart, is the same number, plus 2^AddrBits for the     *)
(* second spelling.  Nothing here has a state.                             *)
(***************************************************************************)
EXTENDS Integers, Sequences, SequencesExt

CONSTANTS
  AddrBits,   \* width of an address (128)
  V4Bits,     \* width of an IPv4 address (32)
  V4Base,     \* the first address of the IPv4 block (::ffff:0:0)
  Private,    \* the addresses of RFC 1918 and RFC 4193
  MaxInt,     \* the largest int64
  Unparsed    \* what net.ParseIP returns for anything else (nil)

\* The powers of two: what a bit of an address is worth.
Pow2[i \in 0 .. AddrBits] == IF i = 0 THEN 1 ELSE 2 * Pow2[i - 1]

IPs == 0 .. Pow2[AddrBits] - 1
IPv4s == V4Base .. V4Base + Pow2[V4Bits] - 1

\* The private IPv6 addresses, fc00::/7, are above the IPv4 block, so that all
\* private addresses are at its base or above.
ASSUME IpPoolAssumption ==
  /\ AddrBits \in Nat /\ V4Bits \in 1 .. AddrBits - 1 /\ MaxInt \in Nat
  /\ V4Base \in IPs /\ V4Base % Pow2[V4Bits] = 0
  /\ Private \subseteq IPs
  /\ \A ip \in Private : V4Base <= ip
  /\ Unparsed \notin IPs

\* The spellings of addresses that netip.Addr tells apart, and To16, which
\* does not.
Addrs == IPs \cup {ip + Pow2[AddrBits] : ip \in IPv4s}
To16(addr) == addr % Pow2[AddrBits]

\* An int64 after an addition that may have overflowed, and what a loop makes
\* of the first n numbers when it adds them up.
Wrap(n, max) == ((n + max + 1) % (2 * max + 2)) - max - 1

WrappedSums(numbers, max) ==
  LET sum[n \in 0 .. Len(numbers)] ==
        IF n = 0 THEN 0 ELSE Wrap(sum[n - 1] + numbers[n], max)
  IN  sum
-----------------------------------------------------------------------------
Bit(n, i) == (n \div Pow2[i]) % 2

\* Whether an address as net.ParseIP returns it is IPv4 (To4() is not nil).
Is4(ip) == ip \in IPv4s

\* A netmask is read with net.ParseIP: written as an IPv4 address it has
\* four bytes, otherwise sixteen, or none when it does not parse.
NetmaskOf(ip) ==
  CASE ip = Unparsed -> [bits |-> 0, value |-> 0]
    [] Is4(ip)       -> [bits |-> V4Bits, value |-> ip - V4Base]
    [] OTHER         -> [bits |-> AddrBits, value |-> ip]

\* net.IPMask.Size does not return 0, 0 nor a mask without ones: ones first,
\* then zeros.
IsNetmask(mask) ==
  \E ones \in 1 .. mask.bits :
    \A i \in 0 .. mask.bits - 1 :
      Bit(mask.value, i) = 1 <=> i >= mask.bits - ones

\* net.IPNet.Contains: addresses of one family that agree where the mask has
\* ones; of a mask of 16 bytes an IPv4 network takes the last four, and a
\* mask of 4 bytes fits no IPv6 network.
NetworkContains(ip, mask, other) ==
  /\ Is4(ip) <=> Is4(other)
  /\ mask.bits = AddrBits \/ (mask.bits = V4Bits /\ Is4(ip))
  /\ \A i \in 0 .. (IF Is4(ip) THEN V4Bits ELSE AddrBits) - 1 :
       Bit(mask.value, i) = 1 => Bit(ip, i) = Bit(other, i)
-----------------------------------------------------------------------------
\* Range: its end is a larger number than its start.
IsValid(range) ==
  /\ range.start # Unparsed /\ range.end # Unparsed
  /\ range.end > range.start

RangeContains(range, addr) ==
  range.start <= To16(addr) /\ To16(addr) <= range.end

\* Faulty variant: the end is not counted.
RangeSizeWithoutEnd(range) ==
  LET size == range.end - range.start
  IN  IF size <= MaxInt THEN size ELSE -1

RangeSize(range) ==
  LET size == range.end - range.start + 1
  IN  IF size <= MaxInt THEN size ELSE -1

\* Pool: several ranges.  One range that is too large makes the size -1; the
\* sum of the others is not checked.
PoolContains(pool, addr) == \E i \in DOMAIN pool : RangeContains(pool[i], addr)

PoolSize(pool) ==
  LET sizes == [i \in DOMAIN pool |-> RangeSize(pool[i])]
  IN  IF \E i \in DOMAIN pool : sizes[i] = -1 THEN -1
      ELSE WrappedSums(sizes, MaxInt)[Len(pool)]
-----------------------------------------------------------------------------
\* IpNetworkInfo: all private, a proper mask, start and end in one network.
\* Faulty variant: the end is not checked.
HasPrivateIPs(nw) ==
  /\ {nw.start, nw.end, nw.gateway} \subseteq Private
  /\ IsNetmask(NetmaskOf(nw.netmask))

HasValidIPs(nw) ==
  /\ {nw.start, nw.end, nw.gateway} \subseteq Private
  /\ IsNetmask(NetmaskOf(nw.netmask))
  /\ NetworkContains(nw.start, NetmaskOf(nw.netmask), nw.end)

HasValidGateway(nw) ==
  NetworkContains(nw.start, NetmaskOf(nw.netmask), nw.gateway)
=============================================================================
