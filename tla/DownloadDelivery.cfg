SPECIFICATION Spec
CONSTANTS
  alice = alice
  a1 = a1
  a2 = a2
  NoDownload = NoDownload
  UserOf <- MCUserOf
  Users = {alice}
  Downloads = {a1}
  Slots = {0}
  Lists = {TRUE}
  Options <- MCOptionsOff
  Events = {"add", "peer", "offer", "socket", "login", "crash"}
INVARIANTS FinishedIsDelivered
CHECK_DEADLOCK FALSE
