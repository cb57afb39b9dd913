SPECIFICATION ServicesSpec
CONSTANTS
  Service = {s1, s2}
  Protocol = {tcp, udp}
  Endpoint = {e1}
  NoEntry = NoEntry
  MaxIP = 2
  MaxPort = 2
  MaxChanges = 2
  MaxFaults = 0
  MaxRestarts = 0
PROPERTIES PortsConverge
