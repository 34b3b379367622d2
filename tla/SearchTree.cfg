SPECIFICATION Spec
CONSTANTS
  alice = alice
  bob = bob
  Users = {alice, bob}
  Dialling = {alice, bob}
  Firewalled = {alice, bob}
  Sockets = {s1, s2, s3}
  NoUser = NoUser
  NoSocket = NoSocket
  ChildrenMax = 2
  Depths = {0}
SYMMETRY MCSymmetry
INVARIANTS TypeOK ParentIsConnected ChildIsConnected PotentialIsFresh ParentKnowsDepth EveryWaitIsTimed
PROPERTIES OthersAreStopped
CHECK_DEADLOCK FALSE
