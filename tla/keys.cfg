SPECIFICATION Spec
CONSTANTS
  Starts <- SmallAndGreat
  Restarts = {"opener", "acceptor"}
  Renewing = {"opener"}
  MaxSeq = 3
  MaxKeys = 2
  MaxPairs = 2
INVARIANTS TypeOK VerificationHolds
CHECK_DEADLOCK FALSE
