SPECIFICATION FairSpec
CHECK_DEADLOCK FALSE
CONSTANTS
  Sizes = {0, 4}
  TwoGiB = 2
  FourGiB = 3
  Tickets = {1, 2, 3}
  MaxFaults = 3
INVARIANTS
  TypeOK
  OneWriter
  EndsAgree
PROPERTIES
  CopySpec
  Settles
  RetriesSuffice
