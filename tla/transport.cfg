SPECIFICATION FairSpec
CONSTANTS
  Setups = {"actpass", "holdconn"}
  Datagrams = {"flight", "app", "close", "media"}
  MaxCandidates = 1
  MaxChanges = 3
  MaxDatagrams = 2
  MaxMessages = 1
INVARIANTS TypeOK StateIsTold  NothingOutlivesFailure ExpectationsMet
PROPERTIES LifePromised Served
CHECK_DEADLOCK FALSE
