SPECIFICATION FairSpec
CONSTANTS
  FloatBytes = {8}
  IntBytes = {4}
  OldPeers = TRUE
  MaxSent = 2
INVARIANTS TypeOK Agreement NumbersFramed ArrivesAsSent
PROPERTIES ClientLearns
CHECK_DEADLOCK FALSE
