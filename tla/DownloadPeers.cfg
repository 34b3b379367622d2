SPECIFICATION FairSpec
CONSTANTS
  alice = alice
  a1 = a1
  a2 = a2
  NoDownload = NoDownload
  UserOf <- MCUserOf
  Users = {alice}
  Downloads = {a1, a2}
  Slots = {0, 1}
  Lists = {TRUE}
  Options <- MCOptionsOff
  Events = {"connecting", "add", "peer", "peerLost", "timer", "login", "logout", "offline", "refusal", "slots"}
INVARIANTS EveryInitiationHasATimeout NothingUnasked
PROPERTIES HandlersReturn InitiationEnds
CHECK_DEADLOCK FALSE
