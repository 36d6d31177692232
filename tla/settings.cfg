SPECIFICATION Spec
CONSTANTS
  Numbers = {"0"}
  GoodKeys <- MCGoodKeys
  ApiVersion = "1"
  Tokens <- MCTokens
  Directories <- MCDirectories
  Forms <- MCForms
  ConnectionNames = {n1, n2}
  TypedAddresses <- MCTypedAddresses
  Senders <- MCSenders
  Keys <- MCKeys
  Contents <- MCContents
  DiscoveryIds = {1}
  ContactIds = {1}
  KeyPairs = {p1, p2}
SYMMETRY MCSymmetry
INVARIANTS TypeOK RowsFollowStorage CryptoFollowsStorage
PROPERTIES OnlyAskedChanges KeysSurvive
CHECK_DEADLOCK FALSE
