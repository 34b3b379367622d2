SPECIFICATION Spec
CONSTANTS
  alice = alice
  bob = bob
  carol = carol
  a1 = a1
  a2 = a2
  b1 = b1
  c1 = c1
  NoUpload = NoUpload
  UserOf <- MCUserOf
  Users = {alice, bob}
  Uploads = {a1, a2, b1}
  Privileged = {bob}
  Slots = {1, 2}
  AutoClears = {FALSE}
  Events = {"queue", "peer", "offline", "reply", "server", "slots"}
SYMMETRY MCSymmetry
INVARIANTS ActiveIsListed NoIdleSlot
PROPERTIES StartsInOrder PoolSpec
CHECK_DEADLOCK FALSE
