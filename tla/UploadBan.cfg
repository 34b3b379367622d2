SPECIFICATION Spec
CONSTANTS
  alice = alice
  bob = bob
  carol = carol
  a1 = a1
  a2 = a2
  b1 = b1
  c1 = c1
  NoUpload = NoUpload
  UserOf <- MCUserOf
  Users = {alice, bob, carol}
  Uploads = {a1, b1, c1}
  Privileged = {carol}
  Slots = {1}
  AutoClears = {FALSE}
  Events = {"queue", "peer", "abort", "ban"}
PROPERTY SlotsRespected
CHECK_DEADLOCK FALSE
