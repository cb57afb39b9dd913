SPECIFICATION ServicesSpec
CONSTANTS
  Service = {s1}
  Protocol = {tcp}
  Endpoint = {e1}
  NoEntry = NoEntry
  MaxIP = 1
  MaxPort = 1
  MaxChanges = 2
  MaxFaults = 0
  MaxRestarts = 1
PROPERTIES PortsConverge
