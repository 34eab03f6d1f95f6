CONSTANTS
  discovery = discovery
  Adders <- MCAdders
  MaxThreads = 2
  MaxTuples = 2
  InitialRecords = {"gone", "plain"}
  OFFLINE_POLL_TRIES = 2
  INITIAL_POLL_TRIES = 1
  MaxEvents = 2
SPECIFICATION FairSpec
CHECK_DEADLOCK FALSE
INVARIANTS ReferencesBalance OneThreadGoesOn
PROPERTIES PinIsKept StateFollowsHost CertIsSaved
