SPECIFICATION CertificatesSpec
CONSTANTS
  Runner = {r1, r2}
  None = None
  MaxCommands = 1
  MaxCrashes = 0
  MaxAcmeFailures = 1
CHECK_DEADLOCK FALSE
PROPERTY MtlsIndependent
