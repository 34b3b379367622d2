-------------------------- MODULE PeerManager_proofs --------------------------
(***************************************************************************)
(* The login over the server's connection, and the sockets of the users,   *)
(* which are kept straight for any users and sockets.                      *)
(*                                                                         *)
(* The invariant is of a Manager record, so that it can be followed        *)
(* through the operators a handler is made of. Wired is what it says of    *)
(* m_Peers, the sockets, m_PassiveConnects and the exceptions; a socket    *)
(* that is closed in the middle of a handler is no one's until Swept.      *)
(***************************************************************************)
EXTENDS PeerManager, TLAPS

-----------------------------------------------------------------------------
(* The login over the server's connection and its ping, for any number of  *)
(* events. The invariant is of a ServerManager record, so that it can be   *)
(* followed through the operators the handlers are made of; it adds that a *)
(* new connection has no answer to its login yet.                          *)

KeptAlive(s) ==
  /\ s \in Server
  /\ s.loggedIn => s.socket = "connected" /\ s.answered
  /\ s.pings = IF s.socket = "connected" /\ s.answered THEN 1 ELSE 0
  /\ s.socket = "connected" /\ s.answered => ~s.reconnect
  /\ s.socket = "connecting" => ~s.answered

ServerInv == KeptAlive(server) /\ config \in BOOLEAN /\ events \in 0 .. MaxEvents

\* An event is one of the MaxEvents.
LEMMA EventCounted == events \in 0 .. MaxEvents /\ Event => events' \in 0 .. MaxEvents
BY EventsAssumption DEF Event

\* The end of a connection ends its login and its ping.
LEMMA EndedKeptAlive == \A s \in Server : s.pings <= 1 => KeptAlive(Ended(s)) /\ Ended(s) \in Server
<1> SUFFICES ASSUME NEW s \in Server, s.pings <= 1 PROVE KeptAlive(Ended(s)) /\ Ended(s) \in Server
  OBVIOUS
<1> DEFINE d == [s EXCEPT !.socket = "dropped", !.loggedIn = FALSE, !.pings = 0, !.reconnect = @ \/ s.auto]
<1>2. Ended(s) = d
  <2>1. (IF s.pings = 0 THEN 0 ELSE s.pings - 1) = 0
    BY DEF Server
  <2> QED BY <2>1 DEF Ended
<1>3. d \in Server /\ d.socket = "dropped" /\ d.loggedIn = FALSE /\ d.pings = 0
  BY DEF Server, SocketStates
<1> HIDE DEF d
<1> QED BY <1>2, <1>3 DEF KeptAlive

LEMMA AutoType == \A s \in Server : \A b \in BOOLEAN : [s EXCEPT !.auto = b] \in Server
BY DEF Server

\* Nothing but the wish is set.
LEMMA AutoKeptAlive ==
  \A s : KeptAlive(s) => \A b \in BOOLEAN : KeptAlive([s EXCEPT !.auto = b])
BY DEF KeptAlive, Server

LEMMA RefusedKeptAlive == \A s \in Server : s.pings <= 1 => KeptAlive(Refused(s))
<1> SUFFICES ASSUME NEW s \in Server, s.pings <= 1 PROVE KeptAlive(Refused(s))
  OBVIOUS
<1> DEFINE r == [s EXCEPT !.reconnect = @ \/ s.auto, !.auto = FALSE]
<1>1. r \in Server /\ r.pings <= 1 /\ s.auto \in BOOLEAN
  BY DEF Server
<1> HIDE DEF r
<1>2. KeptAlive(Ended(r))
  BY <1>1, EndedKeptAlive
<1> QED BY <1>1, <1>2, AutoKeptAlive DEF Refused, r

\* A new connection starts without login, answer and ping.
LEMMA OpenedKeptAlive == \A s : KeptAlive(s) => KeptAlive(Opened(s))
<1> SUFFICES ASSUME NEW s, KeptAlive(s) PROVE KeptAlive(Opened(s))
  OBVIOUS
<1>1. CASE s.socket # "none"
  BY <1>1 DEF Opened
<1>2. CASE s.socket = "none" /\ config
  BY <1>2 DEF Opened, KeptAlive, Server, SocketStates
<1>3. CASE s.socket = "none" /\ ~config
  BY <1>3 DEF Opened, KeptAlive, Server, SocketStates
<1> QED BY <1>1, <1>2, <1>3

LEMMA ServerInitInv == ServerInit => ServerInv
BY EventsAssumption DEF ServerInit, ServerInv, KeptAlive, Server, SocketStates

LEMMA ServerStepInv == ServerInv /\ [ServerNext]_serverVars => ServerInv'
<1> SUFFICES ASSUME ServerInv, [ServerNext]_serverVars PROVE ServerInv'
  OBVIOUS
<1> USE DEF ServerInv
<1>0. server \in Server /\ server.pings <= 1
  BY DEF KeptAlive
<1>1. CASE Connect
  BY <1>1, OpenedKeptAlive, EventCounted DEF Connect
<1>2. CASE Disconnect
  <2>1. KeptAlive([server EXCEPT !.auto = FALSE]) /\ [server EXCEPT !.auto = FALSE] \in Server
        /\ [server EXCEPT !.auto = FALSE].pings <= 1
    BY <1>0, AutoKeptAlive, AutoType DEF Server
  <2> QED BY <1>2, <2>1, EndedKeptAlive, EventCounted DEF Disconnect
<1>3. CASE Configure
  BY <1>3, EventCounted DEF Configure
<1>4. CASE Reconnect
  <2> DEFINE s == [server EXCEPT !.reconnect = FALSE]
  <2>1. KeptAlive(s)
    BY DEF KeptAlive, Server
  <2>2. server' = Opened(s) \/ server' = s
    BY <1>4 DEF Reconnect
  <2> HIDE DEF s
  <2> QED BY <1>4, <2>1, <2>2, OpenedKeptAlive DEF Reconnect
<1>5. CASE Connected
  BY <1>5 DEF Connected, KeptAlive, Server, SocketStates
<1>6. CASE CannotConnect
  BY <1>0, <1>6, RefusedKeptAlive, EventCounted DEF CannotConnect
<1>7. CASE LoggedIn
  <2>1. PICK success \in BOOLEAN :
          /\ IF success THEN UNCHANGED events ELSE Event
          /\ server' = [server EXCEPT !.answered = TRUE, !.reconnect = FALSE, !.pings = @ + 1, !.loggedIn = success]
    BY <1>7 DEF LoggedIn
  <2>2. server.socket = "connected" /\ UNCHANGED config
    BY <1>7 DEF LoggedIn
  <2>3. server.pings = 0
    BY <1>7, <2>2 DEF LoggedIn, KeptAlive
  <2>4. server' = [server EXCEPT !.answered = TRUE, !.reconnect = FALSE, !.pings = 1, !.loggedIn = success]
    BY <2>1, <2>3
  <2>5. KeptAlive(server')
    BY <1>0, <2>2, <2>4 DEF KeptAlive, Server
  <2> QED BY <2>1, <2>2, <2>5, EventCounted
<1>8. CASE Kicked
  BY <1>8, AutoKeptAlive, EventCounted DEF Kicked
<1>9. CASE Lost \/ HungUp
  BY <1>0, <1>9, EndedKeptAlive, EventCounted DEF Lost, HungUp
<1>10. CASE Ping
  <2> DEFINE n == server.pings
  <2>0. n \in Nat /\ (n - 1) + 1 = n
    BY <1>0 DEF Server
  <2>1. server' = server
    <3>1. server' = [[server EXCEPT !.pings = n - 1] EXCEPT !.pings = (n - 1) + 1]
      BY <1>0, <1>10 DEF Ping, Server
    <3> HIDE DEF n
    <3>2. server' = [server EXCEPT !.pings = n]
      BY <1>0, <2>0, <3>1 DEF Server
    <3> QED BY <1>0, <3>2 DEF Server, n
  <2>2. KeptAlive(server')
    BY <2>1
  <2> QED BY <1>10, <2>2 DEF Ping
<1>11. CASE RoundEnds
  BY <1>11 DEF RoundEnds, KeptAlive, Server, SocketStates
<1>12. CASE UNCHANGED serverVars
  BY <1>12 DEF serverVars
<1> QED BY <1>1, <1>2, <1>3, <1>4, <1>5, <1>6, <1>7, <1>8, <1>9, <1>10, <1>11, <1>12 DEF ServerNext

\* Over the connection to the server alone: we are logged in only over a connection whose
\* login was answered, with one chain of pings exactly as long as there is one and no reconnection
\* armed, in whatever order the network, the server, the user and the timers act.
THEOREM ServerKeptAlive == ServerSpec => [](ServerTypeOK /\ LoginIsKeptAlive)
<1>1. ServerInv => ServerTypeOK /\ LoginIsKeptAlive
  BY DEF ServerInv, KeptAlive, ServerTypeOK, LoginIsKeptAlive, LoginAnswered
<1> QED BY <1>1, ServerInitInv, ServerStepInv, PTL DEF ServerSpec

-----------------------------------------------------------------------------
(* The sockets of the users. *)

Open(k, u) == {s \in Sockets : k[s].user = u /\ k[s].state \in OpenStates}

Wired(r, k, a, x) ==
  /\ \A u \in Users : r[u] \in Sockets => k[r[u]].user = u /\ k[r[u]].state \in OpenStates
  /\ \A s \in a : k[s].state = "pierce"
  /\ \A u \in Users \ x : \A s \in Open(k, u) : r[u] = s
  /\ \A s \in Sockets : k[s] = FreeSocket \/ (k[s].state # "free" /\ k[s].user \in Users)

\* Between two handlers nothing is closed.
Clean(p) == \A s \in Sockets : p.sock[s].state # "closed"

Good(p) == p \in Manager /\ Wired(p.peers, p.sock, p.passive, p.refused)

-----------------------------------------------------------------------------
(* Records. *)

LEMMA ManagerFields ==
  ASSUME NEW p \in Manager
  PROVE  /\ p.peers \in [Users -> Sockets \union {NoSocket, "unregistered"}]
         /\ p.sock \in [Sockets -> Socket]
         /\ p.passive \subseteq Sockets /\ p.refused \subseteq Users
         /\ p.waiting \subseteq Users /\ p.unheard \subseteq Users
         /\ p.asked \subseteq Users /\ p.address \subseteq Users /\ p.recent \subseteq Users
BY DEF Manager

LEMMA AnsweredGood ==
  ASSUME NEW p, Good(p), NEW u
  PROVE  /\ Good(Answered(p, u))
         /\ Answered(p, u).peers = p.peers /\ Answered(p, u).sock = p.sock /\ Answered(p, u).refused = p.refused
         /\ Answered(p, u).passive = p.passive
BY DEF Good, Answered, Manager

LEMMA UnheardGood ==
  ASSUME NEW p, Good(p), NEW u \in Users
  PROVE  /\ Good(Unheard(p, u))
         /\ Unheard(p, u).peers = p.peers /\ Unheard(p, u).sock = p.sock /\ Unheard(p, u).refused = p.refused
BY DEF Good, Unheard, Manager

LEMMA RequestedGood ==
  ASSUME NEW p, Good(p), NEW u \in Users
  PROVE  Good(Requested(p, u)) /\ Requested(p, u).sock = p.sock
<1> DEFINE q == [p EXCEPT !.recent = @ \union {u}]
           r == [q EXCEPT !.asked = @ \union {u}]
<1>1. Good(q) /\ q.sock = p.sock
  BY DEF Good, Manager
<1>2. Good(r) /\ r.sock = p.sock
  <2> HIDE DEF q
  <2> QED BY <1>1 DEF Good, Manager
<1>3. Requested(p, u) \in {p, Unheard(p, u), r, Unheard(q, u)}
  BY DEF Requested
<1> HIDE DEF q, r
<1> QED BY <1>1, <1>2, <1>3, UnheardGood

-----------------------------------------------------------------------------
(* Sockets. *)

\* The disconnection of all the sockets of a user, or of some of one of those excepted.
LEMMA DisconnectedGood ==
  ASSUME NEW p, Good(p), NEW u \in Users, NEW mine \in SUBSET Sockets,
         \A s \in mine : p.sock[s].user = u /\ p.sock[s].state # "free",
         u \in p.refused \/ Open(p.sock, u) \subseteq mine
  PROVE  /\ Good(Disconnected(p, mine, u))
         /\ Free(Disconnected(p, mine, u)) = Free(p)
         /\ u \in Disconnected(p, mine, u).refused \/ Open(Disconnected(p, mine, u).sock, u) = {}
         /\ \A s \in mine : Disconnected(p, mine, u).sock[s].state = "closed"
<1> USE PeerAssumption
<1> DEFINE k == [s \in Sockets |-> IF s \in mine THEN [p.sock[s] EXCEPT !.state = "closed"] ELSE p.sock[s]]
           r == [p.peers EXCEPT ![u] = "unregistered"]
           d == [p EXCEPT !.peers[u] = "unregistered", !.passive = @ \ mine, !.sock = k]
<1>1. CASE mine = {}
  BY <1>1 DEF Disconnected
<1>2. CASE mine # {}
  <2>1. Disconnected(p, mine, u) = d
    BY <1>2 DEF Disconnected
  <2>2. p \in Manager /\ p.sock \in [Sockets -> Socket]
    BY DEF Good, Manager
  <2>3. \A x \in Socket : LET n == [x EXCEPT !.state = "closed"]
                          IN n \in Socket /\ n.state = "closed" /\ n.user = x.user
    BY DEF Socket
  <2>4. k \in [Sockets -> Socket]
    BY <2>2, <2>3
  <2>5. \A s \in mine : k[s].state = "closed" /\ k[s].user = u
    BY <2>2, <2>3
  <2>6. \A s \in Sockets \ mine : k[s] = p.sock[s]
    OBVIOUS
  <2> HIDE DEF k
  <2>7. r \in [Users -> Sockets \union {NoSocket, "unregistered"}] /\ r[u] = "unregistered"
        /\ \A v \in Users \ {u} : r[v] = p.peers[v]
    BY <2>2 DEF Manager
  <2>8. d \in Manager /\ d.peers = r /\ d.sock = k /\ d.passive = p.passive \ mine /\ d.refused = p.refused
    BY <2>2, <2>4, <2>7 DEF Manager
  <2> HIDE DEF r, d
  <2>9. "closed" \notin OpenStates
    BY DEF OpenStates, Attempts
  <2>10. Open(k, u) = Open(p.sock, u) \ mine /\ \A v \in Users \ {u} : Open(k, v) = Open(p.sock, v)
    BY <2>5, <2>6, <2>9 DEF Open
  <2>11. Wired(r, k, p.passive \ mine, p.refused)
    <3>1. \A v \in Users : r[v] \in Sockets => k[r[v]].user = v /\ k[r[v]].state \in OpenStates
      BY <2>6, <2>7 DEF Good, Wired
    <3>2. \A s \in p.passive \ mine : k[s].state = "pierce"
      BY <2>2, <2>6 DEF Good, Wired, Manager
    <3>3. \A v \in Users \ p.refused : \A s \in Open(k, v) : r[v] = s
      BY <2>7, <2>10 DEF Good, Wired
    <3>4. \A s \in Sockets : k[s] = FreeSocket \/ (k[s].state # "free" /\ k[s].user \in Users)
      BY <2>5, <2>6 DEF Good, Wired
    <3> QED BY <3>1, <3>2, <3>3, <3>4 DEF Wired
  <2>12. Free(d) = Free(p)
    BY <2>5, <2>6, <2>8 DEF Free
  <2> QED BY <2>1, <2>5, <2>8, <2>10, <2>11, <2>12 DEF Good
<1> QED BY <1>1, <1>2

\* The registered socket of a user is one of the user's, and the only one but for the exceptions.
LEMMA RegisteredOnly ==
  ASSUME NEW p, Good(p), NEW u \in Users
  PROVE  LET mine == {p.peers[u]} \intersect Sockets
         IN  /\ \A s \in mine : p.sock[s].user = u /\ p.sock[s].state # "free"
             /\ u \in p.refused \/ Open(p.sock, u) \subseteq mine
<1>1. "free" \notin OpenStates
  BY DEF OpenStates, Attempts
<1>2. p.peers[u] \in Sockets => p.sock[p.peers[u]].user = u /\ p.sock[p.peers[u]].state # "free"
  BY <1>1 DEF Good, Wired
<1>3. u \notin p.refused => \A s \in Open(p.sock, u) : s \in Sockets /\ s = p.peers[u]
  BY DEF Good, Wired, Open
<1> QED BY <1>2, <1>3

\* A socket that is made for a user replaces the earlier one.
LEMMA AddedGood ==
  ASSUME NEW p, Good(p), NEW u \in Users, NEW s \in Free(p), NEW socket \in Socket,
         socket.user = u, socket.state \in OpenStates
  PROVE  /\ Good(Added(p, u, s, socket))
         /\ Added(p, u, s, socket).sock[s] = socket
<1> USE PeerAssumption
<1> DEFINE mine == {p.peers[u]} \intersect Sockets
           d == Disconnected(p, mine, u)
           a == [d EXCEPT !.peers[u] = s, !.sock[s] = socket]
<1>1. Good(d) /\ s \in Free(d) /\ (u \in d.refused \/ Open(d.sock, u) = {})
  <2>1. /\ \A x \in mine : p.sock[x].user = u /\ p.sock[x].state # "free"
        /\ u \in p.refused \/ Open(p.sock, u) \subseteq mine
    BY RegisteredOnly
  <2>2. mine \in SUBSET Sockets
    OBVIOUS
  <2> HIDE DEF mine
  <2> QED BY <2>1, <2>2, DisconnectedGood
<1>2. Added(p, u, s, socket) = a
  BY DEF Added
<1> HIDE DEF d
<1>3. d \in Manager /\ s \in Sockets /\ d.sock[s].state = "free" /\ s \notin d.passive
  BY <1>1 DEF Free, Good, Wired
<1> DEFINE k == [d.sock EXCEPT ![s] = socket]
           r == [d.peers EXCEPT ![u] = s]
<1>4. k \in [Sockets -> Socket] /\ k[s] = socket /\ \A x \in Sockets \ {s} : k[x] = d.sock[x]
  BY <1>3 DEF Manager
<1>5. r \in [Users -> Sockets \union {NoSocket, "unregistered"}] /\ r[u] = s
      /\ \A v \in Users \ {u} : r[v] = d.peers[v]
  BY <1>3 DEF Manager
<1> HIDE DEF k, r
<1>6. a \in Manager /\ a.peers = r /\ a.sock = k /\ a.passive = d.passive /\ a.refused = d.refused
  BY <1>3, <1>4, <1>5 DEF Manager, k, r
<1> HIDE DEF a
<1>7. d.passive \subseteq Sockets /\ "free" \notin OpenStates
  BY <1>3 DEF Manager, OpenStates, Attempts
<1>8. Wired(r, k, d.passive, d.refused)
  <2>1. \A v \in Users : r[v] \in Sockets => k[r[v]].user = v /\ k[r[v]].state \in OpenStates
    <3> SUFFICES ASSUME NEW v \in Users, r[v] \in Sockets PROVE k[r[v]].user = v /\ k[r[v]].state \in OpenStates
      OBVIOUS
    <3>1. CASE v = u
      BY <3>1, <1>4, <1>5
    <3>2. CASE v # u
      <4>1. r[v] = d.peers[v] /\ d.sock[r[v]].user = v /\ d.sock[r[v]].state \in OpenStates
        BY <3>2, <1>1, <1>5 DEF Good, Wired
      <4> QED BY <4>1, <1>3, <1>4, <1>7
    <3> QED BY <3>1, <3>2
  <2>2. \A x \in d.passive : k[x].state = "pierce"
    BY <1>1, <1>3, <1>4, <1>7 DEF Good, Wired
  <2>3. \A v \in Users \ d.refused : \A x \in Open(k, v) : r[v] = x
    <3> SUFFICES ASSUME NEW v \in Users \ d.refused, NEW x \in Open(k, v) PROVE r[v] = x
      OBVIOUS
    <3>1. CASE x = s
      BY <3>1, <1>4, <1>5 DEF Open
    <3>2. CASE x # s
      <4>1. x \in Open(d.sock, v)
        BY <3>2, <1>4 DEF Open
      <4> QED BY <4>1, <1>1, <1>5 DEF Good, Wired
    <3> QED BY <3>1, <3>2
  <2>4. \A x \in Sockets : k[x] = FreeSocket \/ (k[x].state # "free" /\ k[x].user \in Users)
    BY <1>1, <1>4, <1>7 DEF Good, Wired
  <2> QED BY <2>1, <2>2, <2>3, <2>4 DEF Wired
<1> QED BY <1>2, <1>4, <1>6, <1>8 DEF Good

\* A socket of a user moves from one open state to another.
LEMMA MovedGood ==
  ASSUME NEW p, Good(p), NEW q \in Manager, q.peers = p.peers, q.refused = p.refused,
         \A s \in Sockets : \/ q.sock[s] = p.sock[s]
                           \/ /\ p.sock[s].state \in OpenStates /\ q.sock[s].state \in OpenStates
                              /\ q.sock[s].user = p.sock[s].user,
         \A s \in q.passive : q.sock[s].state = "pierce"
  PROVE  Good(q)
<1> DEFINE k == q.sock
<1>1. \A u \in Users : Open(k, u) = Open(p.sock, u)
  BY DEF Open
<1>2. \A u \in Users : p.peers[u] \in Sockets => k[p.peers[u]].user = u /\ k[p.peers[u]].state \in OpenStates
  BY DEF Good, Wired
<1>3. \A s \in Sockets : k[s] = FreeSocket \/ (k[s].state # "free" /\ k[s].user \in Users)
  <2>1. "free" \notin OpenStates /\ FreeSocket.state = "free"
    BY DEF OpenStates, Attempts, FreeSocket
  <2> QED BY <2>1 DEF Good, Wired
<1>4. \A u \in Users \ p.refused : \A s \in Open(k, u) : p.peers[u] = s
  BY <1>1 DEF Good, Wired
<1> QED BY <1>2, <1>3, <1>4 DEF Good, Wired

LEMMA PassiveGood ==
  ASSUME NEW p, Good(p), NEW s \in Sockets, p.sock[s].state \in OpenStates
  PROVE  Good(Passive(p, s))
<1> DEFINE k == [x \in Sockets |-> IF x = s THEN [p.sock[s] EXCEPT !.state = "pierce", !.called = TRUE] ELSE p.sock[x]]
           q == Passive(p, s)
<1>1. p.sock \in [Sockets -> Socket] /\ p.passive \subseteq Sockets
  BY ManagerFields DEF Good
<1>2. \A x \in Socket : LET n == [x EXCEPT !.state = "pierce", !.called = TRUE]
                        IN n \in Socket /\ n.user = x.user /\ n.state = "pierce"
  BY DEF Socket, Attempts
<1>3. k \in [Sockets -> Socket] /\ k[s].user = p.sock[s].user /\ k[s].state = "pierce"
      /\ \A x \in Sockets \ {s} : k[x] = p.sock[x]
  BY <1>1, <1>2
<1>4. [p.sock EXCEPT ![s].state = "pierce", ![s].called = TRUE] = k
  BY <1>1
<1>5. q = [p EXCEPT !.sock = k, !.passive = @ \union {s}]
  <2>1. q = [p EXCEPT !.sock = [p.sock EXCEPT ![s].state = "pierce", ![s].called = TRUE],
                      !.passive = @ \union {s}]
    BY DEF Passive, Good, Manager
  <2> QED BY <1>4, <2>1
<1> HIDE DEF k, q
<1>6. q \in Manager /\ q.sock = k /\ q.passive = p.passive \union {s} /\ q.peers = p.peers /\ q.refused = p.refused
  BY <1>3, <1>5 DEF Good, Manager
<1>7. \A x \in q.passive : q.sock[x].state = "pierce"
  BY <1>1, <1>3, <1>6 DEF Good, Wired
<1>8. "pierce" \in OpenStates
  BY DEF OpenStates, Attempts
<1>9. \A x \in Sockets : \/ q.sock[x] = p.sock[x]
                        \/ /\ p.sock[x].state \in OpenStates /\ q.sock[x].state \in OpenStates
                           /\ q.sock[x].user = p.sock[x].user
  BY <1>3, <1>6, <1>8
<1>10. Good(q)
  BY <1>6, <1>7, <1>9, MovedGood
<1> QED BY <1>10 DEF q

\* A socket that leaves the stage at which the peer may pierce our firewall.
LEMMA LeftGood ==
  ASSUME NEW p, Good(p), NEW s \in Sockets, p.sock[s].state \in OpenStates,
         NEW state \in OpenStates,
         NEW q, q = [p EXCEPT !.sock[s].state = state, !.passive = @ \ {s}]
  PROVE  /\ Good(q)
         /\ q.sock[s].user = p.sock[s].user
<1> DEFINE k == [x \in Sockets |-> IF x = s THEN [p.sock[s] EXCEPT !.state = state] ELSE p.sock[x]]
<1>1. p.sock \in [Sockets -> Socket] /\ p.passive \subseteq Sockets
  BY ManagerFields DEF Good
<1>2. \A x \in Socket : LET n == [x EXCEPT !.state = state]
                        IN n \in Socket /\ n.user = x.user /\ n.state = state
  BY DEF Socket, OpenStates
<1>3. k \in [Sockets -> Socket] /\ k[s].user = p.sock[s].user /\ k[s].state = state
      /\ \A x \in Sockets \ {s} : k[x] = p.sock[x]
  BY <1>1, <1>2
<1>4. [p.sock EXCEPT ![s].state = state] = k
  BY <1>1
<1>5. q = [p EXCEPT !.sock = k, !.passive = @ \ {s}]
  <2>1. q = [p EXCEPT !.sock = [p.sock EXCEPT ![s].state = state], !.passive = @ \ {s}]
    BY DEF Good, Manager
  <2> QED BY <1>4, <2>1
<1> HIDE DEF k
<1>6. q \in Manager /\ q.sock = k /\ q.passive = p.passive \ {s} /\ q.peers = p.peers /\ q.refused = p.refused
  BY <1>3, <1>5 DEF Good, Manager
<1>7. \A x \in q.passive : q.sock[x].state = "pierce"
  BY <1>1, <1>3, <1>6 DEF Good, Wired
<1>8. \A x \in Sockets : \/ q.sock[x] = p.sock[x]
                        \/ /\ p.sock[x].state \in OpenStates /\ q.sock[x].state \in OpenStates
                           /\ q.sock[x].user = p.sock[x].user
  BY <1>3, <1>6
<1>9. Good(q)
  BY <1>6, <1>7, <1>8, MovedGood
<1> QED BY <1>3, <1>6, <1>9

LEMMA ActiveGood ==
  ASSUME NEW p, Good(p), NEW s \in Sockets, p.sock[s].state \in OpenStates
  PROVE  Good(Active(p, s))
<1> DEFINE u == p.sock[s].user
           q == [p EXCEPT !.sock[s].state = "address", !.passive = @ \ {s}]
           r == [q EXCEPT !.address = @ \union {u}]
<1>1. "address" \in OpenStates /\ "free" \notin OpenStates
  BY DEF OpenStates, Attempts
<1>2. u \in Users
  BY <1>1 DEF Good, Wired, FreeSocket
<1>3. Good(q)
  BY <1>1, LeftGood
<1>4. Active(p, s) \in {r, Unheard(q, u)}
  BY DEF Active
<1> HIDE DEF q, u
<1>5. Good(r)
  BY <1>2, <1>3 DEF Good, Manager
<1> HIDE DEF r
<1> QED BY <1>2, <1>3, <1>4, <1>5, UnheardGood

\* createPeerSocket, if there is an object left for the socket.
LEMMA CreatedGood ==
  ASSUME NEW p, Good(p), NEW u \in Users, NEW mode, Free(p) # {}
  PROVE  Good(Created(p, u, mode))
<1>1. CASE p.peers[u] # NoSocket
  BY <1>1 DEF Created
<1>2. CASE p.peers[u] = NoSocket
  <2> DEFINE s == CHOOSE x \in Free(p) : TRUE
             new == [FreeSocket EXCEPT !.user = u, !.state = "address"]
             q == Added(p, u, s, new)
  <2>1. s \in Free(p) /\ s \in Sockets
    BY DEF Free
  <2>2. new \in Socket /\ new.user = u /\ new.state \in OpenStates
    BY DEF FreeSocket, Socket, OpenStates, Attempts
  <2>3. Created(p, u, mode) = IF mode = "passive" THEN Passive(q, s) ELSE Active(q, s)
    BY <1>2 DEF Created
  <2> HIDE DEF s, new
  <2>4. Good(q) /\ q.sock[s] = new
    BY <2>1, <2>2, AddedGood
  <2> HIDE DEF q
  <2>5. Good(Passive(q, s)) /\ Good(Active(q, s))
    BY <2>1, <2>2, <2>4, PassiveGood, ActiveGood
  <2> QED BY <2>3, <2>5
<1> QED BY <1>1, <1>2

StatusOK == status \in [Users -> Statuses \union {"unknown"}]

LEMMA PeerSocketGood ==
  ASSUME StatusOK, server.loggedIn \in BOOLEAN, NEW p, Good(p), NEW u \in Users, NEW mode, Free(p) # {}
  PROVE  Good(PeerSocket(p, u, mode))
<1> USE PeerAssumption
<1>1. CASE p.peers[u] \in Sockets
  BY <1>1, AnsweredGood DEF PeerSocket
<1>2. CASE p.peers[u] \notin Sockets
  <2> DEFINE q == [p EXCEPT !.peers[u] = NoSocket, !.waiting = @ \union {u}]
             r == [p.peers EXCEPT ![u] = NoSocket]
  <2>1. r \in [Users -> Sockets \union {NoSocket, "unregistered"}] /\ r[u] = NoSocket
        /\ \A v \in Users \ {u} : r[v] = p.peers[v]
    BY ManagerFields DEF Good
  <2>2. q \in Manager /\ q.peers = r /\ q.sock = p.sock /\ q.passive = p.passive /\ q.refused = p.refused
    <3>1. q = [p EXCEPT !.peers = r, !.waiting = @ \union {u}]
      BY DEF Good, Manager
    <3> HIDE DEF q, r
    <3> QED BY <2>1, <3>1 DEF Good, Manager
  <2>3. /\ \A v \in Users : r[v] \in Sockets => p.sock[r[v]].user = v /\ p.sock[r[v]].state \in OpenStates
        /\ \A v \in Users \ p.refused : \A s \in Open(p.sock, v) : r[v] = s
    <3> HIDE DEF r
    <3>1. u \in p.refused \/ Open(p.sock, u) = {}
      BY <1>2 DEF Good, Wired, Open
    <3> QED BY <2>1, <3>1 DEF Good, Wired
  <2> HIDE DEF r
  <2>4. PeerSocket(p, u, mode) \in {Unheard(q, u), Requested(q, u), Created(q, u, mode), Answered(q, u)}
    <3>1. \/ ~server.loggedIn
          \/ server.loggedIn /\ status[u] = "unknown"
          \/ server.loggedIn /\ status[u] = "online"
          \/ server.loggedIn /\ status[u] = "offline"
      BY DEF StatusOK, Statuses
    <3>2. PeerSocket(p, u, mode) = CASE ~server.loggedIn         -> Unheard(q, u)
             [] server.loggedIn /\ status[u] = "unknown" -> Requested(q, u)
             [] server.loggedIn /\ status[u] = "online"  -> Created(q, u, mode)
             [] server.loggedIn /\ status[u] = "offline" -> Answered(q, u)
      BY <1>2 DEF PeerSocket
    <3> HIDE DEF q
    <3> QED BY <3>1, <3>2
  <2> HIDE DEF q
  <2>5. Good(q) /\ Free(q) # {}
    BY <2>2, <2>3 DEF Good, Wired, Free
  <2> QED BY <2>4, <2>5, UnheardGood, RequestedGood, CreatedGood, AnsweredGood
<1> QED BY <1>1, <1>2

\* An entry that is struck makes its user one of the exceptions.
LEMMA StruckGood ==
  ASSUME NEW p, Good(p), NEW u \in Users
  PROVE  Good(Struck(p, u))
<1> USE PeerAssumption
<1> DEFINE r == [p.peers EXCEPT ![u] = "unregistered"]
           q == Struck(p, u)
<1>1. r \in [Users -> Sockets \union {NoSocket, "unregistered"}] /\ r[u] = "unregistered"
      /\ \A v \in Users \ {u} : r[v] = p.peers[v]
  BY ManagerFields DEF Good
<1>2. q \in Manager /\ q.peers = r /\ q.sock = p.sock /\ q.passive = p.passive
      /\ q.refused = p.refused \union {u}
  <2> DEFINE e == Erased(p, u)
  <2>1. e \in Manager /\ e.peers = r /\ e.sock = p.sock /\ e.passive = p.passive /\ e.refused = p.refused
    BY <1>1 DEF Good, Manager, Erased
  <2>2. q = [e EXCEPT !.refused = @ \union {u}, !.unheard = @ \union ({u} \intersect p.waiting)]
    BY DEF Struck
  <2> HIDE DEF e, q
  <2> QED BY <2>1, <2>2 DEF Manager
<1> HIDE DEF r, q
<1>3. Wired(r, p.sock, p.passive, p.refused \union {u})
  BY <1>1 DEF Good, Wired
<1> QED BY <1>2, <1>3 DEF Good, q

\* Destroying what is closed, and what it leaves.
LEMMA SweptGood ==
  ASSUME NEW p, Good(p)
  PROVE  Good(Swept(p)) /\ Clean(Swept(p))
<1> DEFINE k == [s \in Sockets |-> IF p.sock[s].state = "closed" THEN FreeSocket ELSE p.sock[s]]
           x == {u \in p.refused : SocketsOf(p, u, OpenStates) # {}}
           q == Swept(p)
<1>1. p.sock \in [Sockets -> Socket] /\ p.refused \subseteq Users /\ p.passive \subseteq Sockets
  BY ManagerFields DEF Good
<1>2. FreeSocket \in Socket /\ FreeSocket.state = "free" /\ {"free", "closed"} \intersect OpenStates = {}
      /\ "pierce" # "closed"
  BY DEF FreeSocket, Socket, OpenStates, Attempts
<1>3. k \in [Sockets -> Socket]
  BY <1>1, <1>2
<1>4. q = [p EXCEPT !.sock = k, !.refused = x]
  BY DEF Swept
<1>5. \A u \in Users : Open(k, u) = Open(p.sock, u)
  BY <1>2 DEF Open
<1>6. \A u \in Users : u \in p.refused \ x => Open(p.sock, u) = {}
  BY DEF SocketsOf, Open
<1>7. x \subseteq p.refused
  OBVIOUS
<1>8. \A s \in Sockets : k[s] = IF p.sock[s].state = "closed" THEN FreeSocket ELSE p.sock[s]
  OBVIOUS
<1> HIDE DEF k, x, q
<1>9. q \in Manager /\ q.sock = k /\ q.refused = x /\ q.peers = p.peers /\ q.passive = p.passive
  BY <1>1, <1>3, <1>4, <1>7 DEF Good, Manager
<1>10. Wired(p.peers, k, p.passive, x)
  <2>1. \A u \in Users : p.peers[u] \in Sockets => k[p.peers[u]].user = u /\ k[p.peers[u]].state \in OpenStates
    BY <1>2, <1>8 DEF Good, Wired
  <2>2. \A s \in p.passive : k[s].state = "pierce"
    BY <1>1, <1>2, <1>8 DEF Good, Wired
  <2>3. \A u \in Users \ x : \A s \in Open(k, u) : p.peers[u] = s
    BY <1>5, <1>6 DEF Good, Wired
  <2>4. \A s \in Sockets : k[s] = FreeSocket \/ (k[s].state # "free" /\ k[s].user \in Users)
    BY <1>2, <1>8 DEF Good, Wired
  <2> QED BY <2>1, <2>2, <2>3, <2>4 DEF Wired
<1> QED BY <1>2, <1>8, <1>9, <1>10 DEF Good, Clean, q

\* cannotConnectEvent, whatever a manager asks for within it.
LEMMA RefusalsGood ==
  ASSUME StatusOK, server.loggedIn \in BOOLEAN, NEW p, Good(p), NEW s \in Sockets, p.sock[s].state \in OpenStates,
         NEW mode, NEW q \in Refusals(p, s, mode)
  PROVE  Good(q)
<1> DEFINE u == p.sock[s].user
           d == Disconnected(p, {s}, u)
           told == Answered(d, u)
           asked == {told} \union {PeerSocket(told, v, mode) : v \in IF Free(p) = {} THEN {} ELSE Users}
<1>1. u \in Users /\ p.sock[s].state # "free" /\ (u \in p.refused \/ Open(p.sock, u) \subseteq {s})
  <2>1. "free" \notin OpenStates
    BY DEF OpenStates, Attempts
  <2> QED BY <2>1 DEF Good, Wired, FreeSocket, Open
<1>2. Good(d) /\ Free(d) = Free(p)
  BY <1>1, DisconnectedGood
<1>3. q \in (IF p.sock[s].reverse THEN {Struck(a, u) : a \in asked} ELSE asked)
  BY DEF Refusals
<1> HIDE DEF d, u
<1>4. Good(told) /\ Free(told) = Free(p)
  BY <1>2, AnsweredGood DEF Free
<1> HIDE DEF told
<1>5. \A a \in asked : Good(a)
  BY <1>4, PeerSocketGood
<1> HIDE DEF asked
<1> QED BY <1>1, <1>3, <1>5, StruckGood

-----------------------------------------------------------------------------
(* The handlers. *)

Inv ==
  /\ ServerInv
  /\ StatusOK
  /\ truth \in [Users -> Statuses \union {"none"}] /\ watched \subseteq Users
  /\ Good(pm) /\ Clean(pm)

LEMMA BecomesGood == ASSUME NEW p, Good(p), Becomes(p) PROVE Good(pm') /\ Clean(pm')
BY SweptGood DEF Becomes

\* A socket in use is one of its user's, who has no other but for the exceptions.
LEMMA InUse ==
  ASSUME Good(pm), Clean(pm), NEW s \in Sockets, pm.sock[s] # FreeSocket
  PROVE  /\ pm.sock[s].state \in OpenStates /\ pm.sock[s].user \in Users /\ pm.sock[s].state # "free"
         /\ pm.sock[s].user \in pm.refused \/ Open(pm.sock, pm.sock[s].user) \subseteq {s}
<1>1. pm.sock[s].user \in Users /\ pm.sock[s].state # "free" /\ pm.sock[s].state # "closed"
  BY DEF Good, Clean, Wired
<1>2. pm.sock[s] \in Socket
  BY ManagerFields DEF Good
<1>3. pm.sock[s].state \in OpenStates
  BY <1>1, <1>2 DEF Socket, OpenStates
<1> QED BY <1>1, <1>3 DEF Good, Wired, Open

\* What is told of a user's status.
LEMMA ToldGood ==
  ASSUME StatusOK, NEW p, Good(p), NEW u \in Users, NEW new \in Statuses, Free(p) # {}, Told(p, u, new)
  PROVE  Good(pm') /\ Clean(pm') /\ StatusOK'
<1>1. StatusOK'
  BY DEF StatusOK, Told
<1>2. Good(pm') /\ Clean(pm')
  BY CreatedGood, AnsweredGood, BecomesGood DEF Told
<1> QED BY <1>1, <1>2

LEMMA AskGood ==
  ASSUME Inv, NEW u \in Users, Ask(u) \/ AskInVain(u) \/ RequestUserData(u) \/ Forget(u)
  PROVE  Good(pm') /\ Clean(pm')
<1>1. server.loggedIn \in BOOLEAN
  BY DEF Inv, ServerInv, KeptAlive, Server
<1>2. CASE Ask(u)
  BY <1>1, <1>2, PeerSocketGood, BecomesGood DEF Ask, Room, Inv
<1>3. CASE AskInVain(u)
  BY <1>3, AnsweredGood, BecomesGood DEF AskInVain, Inv
<1>4. CASE RequestUserData(u)
  BY <1>4, RequestedGood, BecomesGood DEF RequestUserData, Inv
<1>5. CASE Forget(u)
  <2> DEFINE p == [pm EXCEPT !.recent = @ \ {u}]
  <2>1. Good(p)
    BY DEF Inv, Good, Manager
  <2>2. Becomes(p)
    BY <1>5 DEF Forget
  <2> HIDE DEF p
  <2> QED BY <2>1, <2>2, BecomesGood
<1> QED BY <1>2, <1>3, <1>4, <1>5

LEMMA AddUserGood ==
  ASSUME Inv, NEW u \in Users, AddUserReceived(u)
  PROVE  Good(pm') /\ Clean(pm') /\ StatusOK'
<1> DEFINE p == [pm EXCEPT !.asked = @ \ {u}]
<1>1. Good(p) /\ p.sock = pm.sock
  BY DEF Inv, Good, Manager
<1>2. Free(pm) # {} /\ truth[u] \in Statuses \union {"none"}
  BY DEF Inv, AddUserReceived, Room
<1>3. IF truth[u] = "none" THEN Becomes(Unheard(p, u)) /\ UNCHANGED <<status, watched>>
      ELSE Told(p, u, truth[u]) /\ watched' = watched \union {u}
  BY DEF AddUserReceived
<1> HIDE DEF p
<1>4. Free(p) # {}
  BY <1>1, <1>2 DEF Free
<1>5. CASE truth[u] = "none"
  BY <1>1, <1>3, <1>5, UnheardGood, BecomesGood DEF Inv, StatusOK
<1>6. CASE truth[u] # "none"
  BY <1>1, <1>2, <1>3, <1>4, <1>6, ToldGood DEF Inv
<1> QED BY <1>5, <1>6

LEMMA StatusChangesGood ==
  ASSUME Inv, NEW u \in Users, UserStatusChanges(u)
  PROVE  Good(pm') /\ Clean(pm') /\ StatusOK'
<1>1. PICK new \in Statuses : IF u \in watched THEN Told(pm, u, new) ELSE UNCHANGED <<pm, status>>
  BY DEF UserStatusChanges
<1>2. Free(pm) # {}
  BY DEF UserStatusChanges, Room
<1>3. CASE u \in watched
  BY <1>1, <1>2, <1>3, ToldGood DEF Inv
<1>4. CASE u \notin watched
  BY <1>1, <1>4 DEF Inv, StatusOK
<1> QED BY <1>3, <1>4

LEMMA AddressGood ==
  ASSUME Inv, NEW u \in Users, AddressReceived(u)
  PROVE  Good(pm') /\ Clean(pm')
<1> DEFINE p == [pm EXCEPT !.address = @ \ {u}]
           mine == SocketsOf(pm, u, {"address"})
           k == [s \in Sockets |-> IF s \in mine THEN [p.sock[s] EXCEPT !.state = "connecting"] ELSE p.sock[s]]
           q == [p EXCEPT !.sock = k]
<1>1. Good(p) /\ p.sock = pm.sock /\ p.peers = pm.peers /\ p.refused = pm.refused /\ p.passive = pm.passive
  BY DEF Inv, Good, Manager
<1>2. \/ Becomes(q)
      \/ Becomes(p)
      \/ mine # {} /\ Becomes(Answered(Disconnected(p, mine, u), u))
  BY DEF AddressReceived
<1> HIDE DEF p
<1>3. mine \in SUBSET Sockets /\ \A s \in mine : p.sock[s].user = u /\ p.sock[s].state = "address"
  BY <1>1 DEF SocketsOf
<1> HIDE DEF mine
<1>4. {"address", "connecting"} \subseteq OpenStates /\ "pierce" # "address"
  BY DEF OpenStates, Attempts
<1>5. p.sock \in [Sockets -> Socket] /\ p.passive \subseteq Sockets
  BY <1>1, ManagerFields DEF Good
<1>6. \A x \in Socket : LET n == [x EXCEPT !.state = "connecting"]
                        IN n \in Socket /\ n.state = "connecting" /\ n.user = x.user
  BY DEF Socket, Attempts
<1>7. k \in [Sockets -> Socket] /\ \A s \in Sockets : s \notin mine => k[s] = p.sock[s]
  BY <1>5, <1>6
<1>8. \A s \in mine : k[s].state = "connecting" /\ k[s].user = p.sock[s].user
  BY <1>3, <1>5, <1>6
<1> HIDE DEF k
<1>9. q \in Manager /\ q.sock = k /\ q.peers = p.peers /\ q.refused = p.refused /\ q.passive = p.passive
  BY <1>1, <1>7 DEF Good, Manager
<1> HIDE DEF q
<1>10. Good(q)
  <2>1. \A s \in q.passive : q.sock[s].state = "pierce"
    BY <1>1, <1>3, <1>4, <1>5, <1>7, <1>9 DEF Good, Wired
  <2>2. \A s \in Sockets : \/ q.sock[s] = p.sock[s]
                           \/ /\ p.sock[s].state \in OpenStates /\ q.sock[s].state \in OpenStates
                              /\ q.sock[s].user = p.sock[s].user
    BY <1>3, <1>4, <1>7, <1>8, <1>9
  <2> QED BY <1>1, <1>9, <2>1, <2>2, MovedGood
<1>11. ASSUME mine # {} PROVE Good(Answered(Disconnected(p, mine, u), u))
  <2>1. u \in p.refused \/ Open(p.sock, u) \subseteq mine
    <3>1. \A s \in mine : s \in Open(p.sock, u)
      BY <1>3, <1>4 DEF Open
    <3>2. PICK s \in mine : TRUE
      BY <1>11
    <3>3. u \notin p.refused => \A x \in Open(p.sock, u) : x = s
      BY <1>1, <3>1, <3>2 DEF Good, Wired
    <3> QED BY <3>2, <3>3
  <2>2. \A s \in mine : p.sock[s].user = u /\ p.sock[s].state # "free"
    BY <1>3
  <2>3. Good(Disconnected(p, mine, u))
    BY <1>1, <1>3, <2>1, <2>2, DisconnectedGood
  <2> QED BY <2>3, AnsweredGood
<1> QED BY <1>1, <1>2, <1>10, <1>11, BecomesGood

LEMMA IncomingGood ==
  ASSUME Inv, NEW u \in Users, Accepted(u) \/ ConnectToPeerRequested(u)
  PROVE  Good(pm') /\ Clean(pm')
<1> DEFINE s == CHOOSE x \in Free(pm) : TRUE
           up == [FreeSocket EXCEPT !.user = u, !.state = "connected"]
           back == [FreeSocket EXCEPT !.user = u, !.state = "connecting", !.reverse = TRUE]
<1>1. s \in Free(pm)
  BY DEF Accepted, ConnectToPeerRequested, Room
<1>2. /\ up \in Socket /\ up.user = u /\ up.state \in OpenStates
      /\ back \in Socket /\ back.user = u /\ back.state \in OpenStates
  BY DEF FreeSocket, Socket, OpenStates, Attempts
<1>3. Becomes(Answered(Added(pm, u, s, up), u)) \/ Becomes(Added(pm, u, s, back))
  BY DEF Accepted, ConnectToPeerRequested
<1> HIDE DEF s, up, back
<1>4. Good(Added(pm, u, s, up)) /\ Good(Added(pm, u, s, back))
  BY <1>1, <1>2, AddedGood DEF Inv
<1> QED BY <1>3, <1>4, AnsweredGood, BecomesGood

\* An attempt goes on, or the connection is made.
LEMMA AdvancesGood ==
  ASSUME Inv, NEW s \in Sockets, PierceTimedOut(s) \/ Pierced(s) \/ PeerConnected(s)
  PROVE  Good(pm') /\ Clean(pm')
<1>1. pm.sock[s].state \in Attempts
  BY DEF PierceTimedOut, Pierced, PeerConnected, Attempts, Inv, Good, Wired
<1>2. pm.sock[s].state \in OpenStates /\ "connected" \in OpenStates
  BY <1>1 DEF OpenStates
<1>3. CASE PierceTimedOut(s)
  BY <1>2, <1>3, ActiveGood, BecomesGood DEF PierceTimedOut, Inv
<1>4. CASE Pierced(s)
  <2> DEFINE q == [pm EXCEPT !.sock[s].state = "connected", !.passive = @ \ {s}]
  <2>1. Becomes(Answered(q, pm.sock[s].user))
    BY <1>4 DEF Pierced
  <2>2. Good(q)
    BY <1>2, LeftGood DEF Inv
  <2> QED BY <2>1, <2>2, AnsweredGood, BecomesGood
<1>5. CASE PeerConnected(s)
  <2> DEFINE q == [pm EXCEPT !.sock[s].state = "connected"]
             r == [pm EXCEPT !.sock[s].state = "connected", !.passive = @ \ {s}]
  <2>1. Becomes(Answered(q, pm.sock[s].user))
    BY <1>5 DEF PeerConnected
  <2>2. Good(r)
    BY <1>2, LeftGood DEF Inv
  <2>3. pm.passive \ {s} = pm.passive
    BY <1>5 DEF PeerConnected, Inv, Good, Wired
  <2>4. q = r
    BY <2>3 DEF Inv, Good, Manager
  <2> QED BY <2>1, <2>2, <2>4, AnsweredGood, BecomesGood
<1> QED BY <1>3, <1>4, <1>5

\* An attempt or a connection ends.
LEMMA EndsGood ==
  ASSUME Inv, NEW s \in Sockets, PeerLost(s) \/ PeerCannotConnect(s)
  PROVE  Good(pm') /\ Clean(pm')
<1>1. pm.sock[s] # FreeSocket
  BY DEF PeerLost, PeerCannotConnect, FreeSocket
<1>2. /\ pm.sock[s].state \in OpenStates /\ pm.sock[s].user \in Users /\ pm.sock[s].state # "free"
      /\ pm.sock[s].user \in pm.refused \/ Open(pm.sock, pm.sock[s].user) \subseteq {s}
  BY <1>1, InUse DEF Inv
<1>3. CASE PeerLost(s)
  <2>1. Good(Disconnected(pm, {s}, pm.sock[s].user))
    BY <1>2, DisconnectedGood DEF Inv
  <2> QED BY <1>3, <2>1, BecomesGood DEF PeerLost
<1>4. CASE PeerCannotConnect(s)
  <2>1. server.loggedIn \in BOOLEAN
    BY DEF Inv, ServerInv, KeptAlive, Server
  <2> QED BY <1>2, <1>4, <2>1, RefusalsGood, BecomesGood DEF PeerCannotConnect, Inv
<1> QED BY <1>3, <1>4

LEMMA NotifyGood ==
  ASSUME Inv, NEW s \in Sockets, CannotConnectNotify(s)
  PROVE  Good(pm') /\ Clean(pm')
<1> DEFINE u == pm.sock[s].user
           q == Answered(pm, u)
           p == [q EXCEPT !.passive = {}]
<1>1. pm.sock[s] # FreeSocket
  BY DEF CannotConnectNotify, FreeSocket
<1>2. /\ pm.sock[s].state \in OpenStates /\ u \in Users /\ pm.sock[s].state # "free"
      /\ u \in pm.refused \/ Open(pm.sock, u) \subseteq {s}
  BY <1>1, InUse DEF Inv
<1>3. Becomes(Disconnected(p, {s}, u))
  BY DEF CannotConnectNotify
<1>4. Good(q) /\ q.sock = pm.sock /\ q.refused = pm.refused
  BY AnsweredGood DEF Inv
<1> HIDE DEF q
<1>5. Good(p) /\ p.sock = pm.sock /\ p.refused = pm.refused
  BY <1>4 DEF Good, Wired, Manager
<1> HIDE DEF p
<1>6. \A x \in {s} : p.sock[x].user = u /\ p.sock[x].state # "free"
  BY <1>2, <1>5
<1>7. u \in p.refused \/ Open(p.sock, u) \subseteq {s}
  BY <1>2, <1>5
<1> HIDE DEF u
<1>8. Good(Disconnected(p, {s}, u))
  BY <1>2, <1>5, <1>6, <1>7, DisconnectedGood
<1> QED BY <1>3, <1>8, BecomesGood

-----------------------------------------------------------------------------

LEMMA InitInv == Init => Inv
<1> SUFFICES ASSUME Init PROVE Inv
  OBVIOUS
<1> USE PeerAssumption
<1>1. ServerInv
  BY ServerInitInv DEF Init
<1>2. FreeSocket \in Socket /\ FreeSocket.state = "free" /\ "free" \notin OpenStates
  BY DEF FreeSocket, Socket, OpenStates, Attempts
<1>3. pm = [peers |-> [u \in Users |-> "unregistered"], sock |-> [s \in Sockets |-> FreeSocket],
            passive |-> {}, recent |-> {}, asked |-> {}, address |-> {}, waiting |-> {}, unheard |-> {},
            refused |-> {}]
  BY DEF Init, PeerInit
<1>4. pm \in Manager
  BY <1>2, <1>3 DEF Manager
<1>5. Wired(pm.peers, pm.sock, pm.passive, pm.refused) /\ Clean(pm)
  BY <1>2, <1>3 DEF Wired, Open, Clean
<1>6. StatusOK /\ truth \in [Users -> Statuses \union {"none"}] /\ watched \subseteq Users
  BY DEF Init, PeerInit, StatusOK
<1> QED BY <1>1, <1>4, <1>5, <1>6 DEF Inv, Good

\* What the peers do is nothing to the ServerManager.
LEMMA PeerStepServer == ServerInv /\ PeerStep => ServerInv'
<1> SUFFICES ASSUME ServerInv, PeerStep PROVE ServerInv'
  OBVIOUS
<1>1. UNCHANGED <<server, config>> /\ (Event \/ UNCHANGED events)
  <2> USE DEF serverVars
  <2>1. ASSUME NEW u \in Users,
               \/ Ask(u) \/ AskInVain(u) \/ RequestUserData(u) \/ Forget(u) \/ AddUserReceived(u)
               \/ UserStatusChanges(u) \/ AddressReceived(u) \/ Accepted(u) \/ ConnectToPeerRequested(u)
        PROVE  UNCHANGED <<server, config>> /\ (Event \/ UNCHANGED events)
    BY <2>1 DEF Ask, AskInVain, RequestUserData, Forget, AddUserReceived, UserStatusChanges,
                AddressReceived, Accepted, ConnectToPeerRequested
  <2>2. ASSUME NEW s \in Sockets,
               \/ PierceTimedOut(s) \/ Pierced(s) \/ CannotConnectNotify(s)
               \/ PeerConnected(s) \/ PeerCannotConnect(s) \/ PeerLost(s)
        PROVE  UNCHANGED <<server, config>> /\ (Event \/ UNCHANGED events)
    BY <2>2 DEF PierceTimedOut, Pierced, CannotConnectNotify, PeerConnected, PeerCannotConnect, PeerLost
  <2> QED BY <2>1, <2>2 DEF PeerStep
<1> QED BY <1>1, EventCounted DEF ServerInv

\* What the server and the peers know of each other stays of its kind.
LEMMA PeerStepKnown ==
  ASSUME Inv, PeerStep
  PROVE  /\ truth' \in [Users -> Statuses \union {"none"}] /\ watched' \subseteq Users
         /\ StatusOK'
<1> USE DEF Inv, StatusOK
<1>1. ASSUME NEW u \in Users,
             \/ Ask(u) \/ AskInVain(u) \/ RequestUserData(u) \/ Forget(u)
             \/ AddressReceived(u) \/ Accepted(u) \/ ConnectToPeerRequested(u)
      PROVE  UNCHANGED <<status, truth, watched>>
  BY <1>1 DEF Ask, AskInVain, RequestUserData, Forget, AddressReceived, Accepted, ConnectToPeerRequested
<1>2. ASSUME NEW s \in Sockets,
             \/ PierceTimedOut(s) \/ Pierced(s) \/ CannotConnectNotify(s)
             \/ PeerConnected(s) \/ PeerCannotConnect(s) \/ PeerLost(s)
      PROVE  UNCHANGED <<status, truth, watched>>
  BY <1>2 DEF PierceTimedOut, Pierced, CannotConnectNotify, PeerConnected, PeerCannotConnect, PeerLost
<1>3. ASSUME NEW u \in Users, AddUserReceived(u)
      PROVE  UNCHANGED truth /\ watched' \subseteq Users /\ StatusOK'
  BY <1>3, AddUserGood DEF AddUserReceived
<1>4. ASSUME NEW u \in Users, UserStatusChanges(u)
      PROVE  truth' \in [Users -> Statuses \union {"none"}] /\ UNCHANGED watched /\ StatusOK'
  BY <1>4, StatusChangesGood DEF UserStatusChanges
<1> QED BY <1>1, <1>2, <1>3, <1>4 DEF PeerStep

LEMMA StepInv == Inv /\ [Next]_vars => Inv'
<1> SUFFICES ASSUME Inv, [Next]_vars PROVE Inv'
  OBVIOUS
<1>1. CASE PeerStep
  <2>1. Good(pm') /\ Clean(pm')
    BY <1>1, AskGood, AddUserGood, StatusChangesGood, AddressGood, IncomingGood, AdvancesGood, EndsGood, NotifyGood
       DEF PeerStep
  <2>2. ServerInv'
    BY <1>1, PeerStepServer DEF Inv
  <2> QED BY <1>1, <2>1, <2>2, PeerStepKnown DEF Inv
<1>2. CASE ServerStep
  <2>1. ServerInv'
    BY <1>2, ServerStepInv DEF ServerStep, Inv
  <2>2. Good(pm') /\ Clean(pm') /\ watched' \subseteq Users
    <3> DEFINE q == [pm EXCEPT !.asked = {}, !.address = {}, !.unheard = @ \union pm.asked \union pm.address]
    <3>1. Good(q) /\ Clean(q)
      BY DEF Inv, Good, Clean, Manager
    <3>2. pm' = q \/ pm' = pm
      BY <1>2 DEF ServerStep
    <3>3. watched' = {} \/ watched' = watched
      BY <1>2 DEF ServerStep
    <3> HIDE DEF q
    <3> QED BY <3>1, <3>2, <3>3 DEF Inv
  <2>3. UNCHANGED <<status, truth>>
    BY <1>2 DEF ServerStep
  <2> QED BY <2>1, <2>2, <2>3 DEF Inv, StatusOK
<1>3. CASE UNCHANGED vars
  <2>1. UNCHANGED serverVars /\ UNCHANGED peerVars
    BY <1>3 DEF vars
  <2>2. ServerInv'
    BY <2>1, ServerStepInv DEF Inv
  <2> QED BY <2>1, <2>2 DEF Inv, StatusOK, peerVars
<1> QED BY <1>1, <1>2, <1>3 DEF Next

LEMMA InvHolds == Spec => []Inv
BY InitInv, StepInv, PTL DEF Spec

\* Every variable of PeerManager and ServerManager holds values of its kind.
THEOREM TypeCorrect == Spec => []TypeOK
<1>1. Inv => TypeOK
  BY DEF Inv, ServerInv, KeptAlive, StatusOK, Good, TypeOK, ServerTypeOK
<1> QED BY <1>1, InvHolds, PTL

\* We are logged in only over a connection whose login was answered, with one chain of pings
\* exactly as long as there is one and no reconnection armed, whatever the peers do meanwhile.
THEOREM LoginKeptAlive == Spec => []LoginIsKeptAlive
<1>1. Inv => LoginIsKeptAlive
  BY DEF Inv, ServerInv, KeptAlive, LoginIsKeptAlive, LoginAnswered
<1> QED BY <1>1, InvHolds, PTL

\* m_Peers names for a user a socket of that user which is still in use: addPeerSocket,
\* removePeerSocket and the socket's own disconnection, in whatever order, leave no other.
THEOREM RegisteredOpen == Spec => []RegisteredIsOpen
<1>1. Inv => RegisteredIsOpen
  BY DEF Inv, Good, Wired, RegisteredIsOpen
<1> QED BY <1>1, InvHolds, PTL

\* A connection that pierces our firewall goes to a socket that waits for one.
THEOREM PassiveWaiting == Spec => []PassiveIsWaiting
<1>1. Inv => PassiveIsWaiting
  BY DEF Inv, Good, Wired, PassiveIsWaiting
<1> QED BY <1>1, InvHolds, PTL

\* There is one socket for a user, the registered one, except after a failed reverse
\* connection has struck the entry of its successor.
THEOREM OneSocket == Spec => []OneSocketPerUser
<1>1. Inv => OneSocketPerUser
  BY DEF Inv, Good, Wired, OneSocketPerUser, SocketsOf, Open
<1> QED BY <1>1, InvHolds, PTL
=============================================================================
