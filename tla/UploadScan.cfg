SPECIFICATION Spec
CONSTANTS
  alice = alice
  bob = bob
  carol = carol
  a1 = a1
  a2 = a2
  b1 = b1
  c1 = c1
  NoUpload = NoUpload
  UserOf <- MCUserOf
  Users = {alice, bob}
  Uploads = {a1, b1}
  Privileged = {}
  Slots = {1}
  AutoClears = {FALSE}
  Events = {"queue", "push", "remove", "legacy", "peer", "reply", "socket", "timer", "ban", "autoClear", "fileError"}
SYMMETRY MCUserSymmetry
INVARIANTS TypeOK ListedIsActive CandidateIsKnown CallsInvariant TimerExcludesSocket EveryWaitHasATimeout
CHECK_DEADLOCK FALSE
