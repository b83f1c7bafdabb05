\* The flag of a row, against what types.go says of it.
SPECIFICATION Spec
CONSTANTS
  AddrBits = 5
  V4Bits = 3
  V4Base = 0
  Private <- MCPrivate
  MaxInt = 15
  Unparsed = Unparsed
  Networks <- MCNetworks
  TypicalNetworks <- MCTypicalNetworks
  Macs = {m1, m2}
  Reservable <- MCReservable
  Labels = {"nas", "lan", "local", "-", ""}
  NoLabel = ""
  Names = {"nas", "-"}
  Aliases <- MCAliases
  Malformed = {"", "-"}
  Hosts <- MCHosts
  Durations <- MCDurations
  MaxDuration = 127
  MaxEntries = 2
  NoIP = NoIP
  NoSettings = NoSettings
  Strangers = {s1}
  Leased <- MCLeased
  Hostnames = {"nas", "-"}
INVARIANT StaticMeansReserved
CHECK_DEADLOCK FALSE
