SPECIFICATION FairSpec
CONSTANTS
  Numbers = {"0", "1", "2", "7"}
  Connections <- MCConnections
  Servers <- MCServers
  Messages <- MCMessages
  Peer = "peer"
  MemoryOutcomes = {"kept", "empty"}
  SmtpFailures = {"caught", "nested", "other"}
  MaxMail = 3
INVARIANTS TypeOK ReadsEachOnce SignedTextSurvives GmailReadsNews
PROPERTIES EventuallyRead
CHECK_DEADLOCK FALSE
