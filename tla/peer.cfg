SPECIFICATION Spec
CONSTANTS
  Initializers = {i1}
  MaxGenerations = 3
  Credentials = {"u1", "u2"}
  MaxLines = 2
  MaxTransports = 2
  MaxExchanges = 4
INVARIANTS CertificateSound 
PROPERTY Answered
CHECK_DEADLOCK FALSE
