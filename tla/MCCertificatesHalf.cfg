SPECIFICATION CertificatesSpec
CONSTANTS
  Runner = {r1, r2}
  None = None
  MaxCommands = 1
  MaxCrashes = 1
  MaxAcmeFailures = 0
CHECK_DEADLOCK FALSE
PROPERTY PublicApiAlwaysComesUp
