SPECIFICATION ServicesSpec
CONSTANTS
  Service = {s1, s2}
  Protocol = {tcp, udp}
  Endpoint = {e1}
  NoEntry = NoEntry
  MaxIP = 3
  MaxPort = 3
  MaxChanges = 4
  MaxFaults = 1
  MaxRestarts = 1
INVARIANTS ServicesTypeOK DispatchSound
PROPERTIES AllocationsAreLeases ChainsConverge NodePortsOpen
