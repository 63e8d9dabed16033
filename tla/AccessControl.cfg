SPECIFICATION Spec
CONSTANTS
  Protocols = {"BAC", "PACE", "HYBRID"}
  Suites = {"AES", "3DES"}
  Homes = {{"MF"}, {"APP"}, {"MF", "APP"}, {}}
  Tolerance = {TRUE, FALSE}
  Modes = {"chaining", "extended"}
  Chains <- CertificateChains
  Block = 2
  MaxOps = 5
  MaxLost = 2
INVARIANTS
  ChannelUsable
  SignatureFits
  ChainImported
  AuthorizedAsRecorded
  OnePasswordTry
PROPERTY StagesInOrder
CHECK_DEADLOCK FALSE
