SPECIFICATION Spec
CONSTANTS
  alice = alice
  bob = bob
  carol = carol
  a1 = a1
  a2 = a2
  b1 = b1
  c1 = c1
  NoUpload = NoUpload
  UserOf <- MCUserOf
  Users = {alice}
  Uploads = {a1}
  Privileged = {}
  Slots = {1}
  AutoClears = {FALSE}
  Events = {"queue", "peer", "reply", "timer"}
PROPERTY TimeoutMeansNoReply
CHECK_DEADLOCK FALSE
