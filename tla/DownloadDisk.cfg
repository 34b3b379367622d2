SPECIFICATION Spec
CONSTANTS
  alice = alice
  a1 = a1
  a2 = a2
  NoDownload = NoDownload
  UserOf <- MCUserOf
  Users = {alice}
  Downloads = {a1, a2}
  Slots = {1}
  Lists = {FALSE}
  Options <- MCOptionsOn
  Events = {"abort", "remove", "update", "peer", "offer", "socket", "timer", "login", "crash", "shutdown", "fileError", "saveError", "push", "folder"}
SYMMETRY MCSymmetry
INVARIANTS TypeOK ListedIsActive SavedIsCurrent
CHECK_DEADLOCK FALSE
