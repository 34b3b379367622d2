SPECIFICATION Spec
CONSTANTS
  alice = alice
  bob = bob
  Users = {alice, bob}
  Dialling = {}
  Firewalled = {}
  Sockets = {s1, s2}
  NoUser = NoUser
  NoSocket = NoSocket
  ChildrenMax = 2
  Depths = {0}
PROPERTIES ParentOutlivesOthers
CHECK_DEADLOCK FALSE
