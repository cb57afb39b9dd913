SPECIFICATION CertificatesSpec
CONSTANTS
  Runner = {r1, r2}
  None = None
  MaxCommands = 3
  MaxCrashes = 1
  MaxAcmeFailures = 1
CHECK_DEADLOCK FALSE
INVARIANTS CertificatesTypeOK MutualTrust
PROPERTY PublicApiComesUp
