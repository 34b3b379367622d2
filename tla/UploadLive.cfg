SPECIFICATION FairSpec
CONSTANTS
  alice = alice
  bob = bob
  carol = carol
  a1 = a1
  a2 = a2
  b1 = b1
  c1 = c1
  NoUpload = NoUpload
  UserOf <- MCUserOf
  Users = {alice}
  Uploads = {a1, a2}
  Privileged = {}
  Slots = {1}
  AutoClears = {TRUE}
  Events = {"queue", "abort", "peer", "peerLost", "asked", "connecting", "offline", "reply", "socket", "timer", "emptyFile"}
PROPERTIES HandlersReturn EveryWaitEnds
CHECK_DEADLOCK FALSE
