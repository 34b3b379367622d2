SPECIFICATION Spec
CHECK_DEADLOCK FALSE
CONSTANTS
  MaxEvents = 3
  Users = {u1}
  Sockets = {s1, s2, s3}
  NoSocket = NoSocket
INVARIANTS TypeOK LoginIsKeptAlive RegisteredIsOpen PassiveIsWaiting OneSocketPerUser
PROPERTIES StaysOnline AsksAreAnswered AttemptsEnd
