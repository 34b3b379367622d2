----------------------------- MODULE PeerManager -----------------------------
(***************************************************************************)
(* PeerManager and the PeerSockets it makes, over the connection to the    *)
(* server: who is online, which socket is the one for a user, how a socket *)
(* is connected (by us, by the peer at our demand, by the peer, or by us   *)
(* at the peer's demand), and what the transfer managers are told of it.   *)
(*                                                                         *)
(* The questions to the server, and what becomes of them when its          *)
(* connection is lost, are those of ServerConnection, which this module    *)
(* composes with the peers.                                                *)
(***************************************************************************)
EXTENDS ServerConnection

CONSTANTS
  Users,     \* the other users
  Sockets,   \* bound: the PeerSocket objects that may exist at once
  NoSocket   \* an entry of m_Peers that has no socket yet, or nobody

ASSUME PeerAssumption ==
  /\ NoSocket \notin Users \union Sockets
  /\ "unregistered" \notin Sockets

VARIABLES
  pm,      \* the PeerManager, its sockets, and the questions it has asked the server
  status,  \* m_UserStatus
  truth,   \* what the server knows of each user
  watched  \* the users whose status the server reports to us when it changes

peerVars == <<pm, status, truth, watched>>
vars == <<serverVars, peerVars>>

Statuses == {"online", "offline"}

\* The stages of a connection attempt: for the address of the peer, for the peer to pierce
\* our firewall, for the network.
Attempts == {"address", "pierce", "connecting"}

Socket == [state : Attempts \union {"free", "connected", "closed"},
           user : Users \union {NoSocket},
           reverse : BOOLEAN,   \* we connect because the peer has asked us to
           called : BOOLEAN]    \* the server has been asked to have the peer connect to us

FreeSocket == [state |-> "free", user |-> NoSocket, reverse |-> FALSE, called |-> FALSE]

Manager == [peers : [Users -> Sockets \union {NoSocket, "unregistered"}],   \* m_Peers
            sock : [Sockets -> Socket],
            passive : SUBSET Sockets,   \* m_PassiveConnects
            recent : SUBSET Users,      \* m_LastStatusTime is less than 10 s old
            asked : SUBSET Users,       \* SAddUser is sent and not answered
            address : SUBSET Users,     \* SGetPeerAddress is sent and not answered
            waiting : SUBSET Users,     \* a transfer manager waits for a socket to the user
            unheard : SUBSET Users,     \* a question about the user, or its entry, is lost
            refused : SUBSET Users]     \* a reverse connection has failed and left two sockets

PeerInit ==
  /\ pm = [peers |-> [u \in Users |-> "unregistered"], sock |-> [s \in Sockets |-> FreeSocket],
           passive |-> {}, recent |-> {}, asked |-> {}, address |-> {}, waiting |-> {}, unheard |-> {},
           refused |-> {}]
  /\ status = [u \in Users |-> "unknown"]
  /\ truth \in [Users -> Statuses \union {"none"}]
  /\ watched = {}

Free(p) == {s \in Sockets : p.sock[s].state = "free"}
SocketsOf(p, u, states) == {s \in Sockets : p.sock[s].user = u /\ p.sock[s].state \in states}

OpenStates == Attempts \union {"connected"}

\* The objects that were closed in the step are destroyed at the end of it.
Swept(p) ==
  [p EXCEPT !.sock = [s \in Sockets |-> IF @[s].state = "closed" THEN FreeSocket ELSE @[s]],
            !.refused = {u \in @ : SocketsOf(p, u, OpenStates) # {}}]

-----------------------------------------------------------------------------
(* What a handler does to the PeerManager. *)

\* peerSocketReadyEvent, peerSocketUnavailableEvent or peerOfflineEvent is emitted.
Answered(p, u) == [p EXCEPT !.waiting = @ \ {u}, !.unheard = @ \ {u}]
Unheard(p, u)  == [p EXCEPT !.unheard = @ \union {u}]

\* removePeerSocket without disconnecting, whichever socket the entry is for.
Erased(p, u) == [p EXCEPT !.peers[u] = "unregistered"]

\* The same, by a socket that has been disconnected before: the entry is its successor's.
Struck(p, u) ==
  [Erased(p, u) EXCEPT !.refused = @ \union {u}, !.unheard = @ \union ({u} \intersect p.waiting)]

\* Variant for the mutation runs: the entry of a disconnected socket stays.
DisconnectedRegistered(p, mine, u) ==
  [p EXCEPT !.passive = @ \ mine,
            !.sock = [s \in Sockets |-> IF s \in mine THEN [@[s] EXCEPT !.state = "closed"] ELSE @[s]]]

\* The disconnectedEvents of some PeerSockets of the user, if any: for each, UserSocket's
\* handler, then PeerManager's.
Disconnected(p, mine, u) ==
  IF mine = {} THEN p
  ELSE [p EXCEPT !.peers[u] = "unregistered", !.passive = @ \ mine,
                 !.sock = [s \in Sockets |-> IF s \in mine THEN [@[s] EXCEPT !.state = "closed"] ELSE @[s]]]

\* Variant for the mutation runs: the earlier socket is not disconnected.
AddedBeside(p, u, s, socket) == [p EXCEPT !.peers[u] = s, !.sock[s] = socket]

\* addPeerSocket: the earlier socket of the user is disconnected.
Added(p, u, s, socket) ==
  [Disconnected(p, {p.peers[u]} \intersect Sockets, u) EXCEPT !.peers[u] = s, !.sock[s] = socket]

\* Variant for the mutation runs: the socket can still be pierced.
ActiveAwaited(p, s) ==
  LET u == p.sock[s].user
      q == [p EXCEPT !.sock[s].state = "address"]
  IN  IF server.loggedIn THEN [q EXCEPT !.address = @ \union {u}] ELSE Unheard(q, u)

\* UserSocket::initiateActive asks the server for the address.
Active(p, s) ==
  LET u == p.sock[s].user
      q == [p EXCEPT !.sock[s].state = "address", !.passive = @ \ {s}]
  IN  IF server.loggedIn THEN [q EXCEPT !.address = @ \union {u}] ELSE Unheard(q, u)

\* UserSocket::initiatePassive asks the server to call the peer.
Passive(p, s) == [p EXCEPT !.sock[s].state = "pierce", !.sock[s].called = TRUE, !.passive = @ \union {s}]

\* createPeerSocket, for a user who was asked for and has no socket; by connectmode.
Created(p, u, mode) ==
  IF p.peers[u] # NoSocket THEN p
  ELSE LET s == CHOOSE s \in Free(p) : TRUE
           q == Added(p, u, s, [FreeSocket EXCEPT !.user = u, !.state = "address"])
       IN  IF mode = "passive" THEN Passive(q, s) ELSE Active(q, s)

\* requestUserData: no second SAddUser within 10 s.
Requested(p, u) ==
  IF u \in p.recent THEN IF u \in p.asked THEN p ELSE Unheard(p, u)
  ELSE LET q == [p EXCEPT !.recent = @ \union {u}]
       IN  IF server.loggedIn THEN [q EXCEPT !.asked = @ \union {u}] ELSE Unheard(q, u)

\* peerSocket: a socket that is there is ready, connected or not.
PeerSocket(p, u, mode) ==
  IF p.peers[u] \in Sockets THEN Answered(p, u)
  ELSE LET q == [p EXCEPT !.peers[u] = NoSocket, !.waiting = @ \union {u}]
       IN  CASE ~server.loggedIn         -> Unheard(q, u)
             [] server.loggedIn /\ status[u] = "unknown" -> Requested(q, u)
             [] server.loggedIn /\ status[u] = "online"  -> Created(q, u, mode)
             [] server.loggedIn /\ status[u] = "offline" -> Answered(q, u)

\* The cannotConnectEvent of a socket: PeerManager's handler disconnects it and tells the
\* managers, of which one may ask for a socket to a user; then the handler of a reverse
\* connection disconnects it again.
Refusals(p, s, mode) ==
  LET u == p.sock[s].user
      told == Answered(Disconnected(p, {s}, u), u)
      asked == {told} \union {PeerSocket(told, v, mode) : v \in IF Free(p) = {} THEN {} ELSE Users}
  IN  IF p.sock[s].reverse THEN {Struck(q, u) : q \in asked} ELSE asked

-----------------------------------------------------------------------------
(* The handlers. *)

Modes == {"active", "passive"}

\* Bound: there is an object left for the socket a handler may make.
Becomes(p) == pm' = Swept(p)
Room == Free(pm) # {}

\* A transfer manager, the search or a GUI asks for a socket.
Ask(u) ==
  /\ Room
  /\ \E mode \in Modes : Becomes(PeerSocket(pm, u, mode))
  /\ UNCHANGED <<serverVars, status, truth, watched>>

\* The search asks for a socket that is not worth more than half of the descriptors.
AskInVain(u) ==
  /\ Event
  /\ pm.peers[u] \notin Sockets
  /\ Becomes(Answered(pm, u))
  /\ UNCHANGED <<server, config, status, truth, watched>>

\* requestUserData for a GUI or for the lists of users.
RequestUserData(u) ==
  /\ Event
  /\ Becomes(Requested(pm, u))
  /\ UNCHANGED <<server, config, status, truth, watched>>

\* 10 s later.
Forget(u) ==
  /\ u \in pm.recent
  /\ Becomes([pm EXCEPT !.recent = @ \ {u}])
  /\ UNCHANGED <<serverVars, status, truth, watched>>

\* Variant for the mutation runs: nobody is told that a user is offline.
ToldIfOnline(p, u, new) ==
  /\ status' = [status EXCEPT ![u] = new]
  /\ IF new = "online" THEN \E mode \in Modes : Becomes(Created(p, u, mode)) ELSE Becomes(p)

\* The status of a user arrives: onServerAddUserReceived, or onServerUserStatusReceived.
Told(p, u, new) ==
  /\ status' = [status EXCEPT ![u] = new]
  /\ IF new = "online" THEN \E mode \in Modes : Becomes(Created(p, u, mode))
     ELSE Becomes(Answered(p, u))

\* Variant for the mutation runs: the answer about a user who does not exist counts.
AddUserReceivedUnchecked(u) ==
  /\ u \in pm.asked /\ Room
  /\ Told([pm EXCEPT !.asked = @ \ {u}], u, truth[u])
  /\ watched' = watched \union {u}
  /\ UNCHANGED <<serverVars, truth>>

\* onServerAddUserReceived: nothing is done about a user who does not exist.
AddUserReceived(u) ==
  /\ u \in pm.asked /\ Room
  /\ LET p == [pm EXCEPT !.asked = @ \ {u}]
     IN  IF truth[u] = "none"
           THEN Becomes(Unheard(p, u)) /\ UNCHANGED <<status, watched>>
           ELSE Told(p, u, truth[u]) /\ watched' = watched \union {u}
  /\ UNCHANGED <<serverVars, truth>>

\* A user goes online or offline; the server reports it if it has been asked to.
UserStatusChanges(u) ==
  /\ Event /\ Room
  /\ truth[u] # "none"
  /\ \E new \in Statuses \ {truth[u]} :
       /\ truth' = [truth EXCEPT ![u] = new]
       /\ IF u \in watched THEN Told(pm, u, new) ELSE UNCHANGED <<pm, status>>
  /\ UNCHANGED <<server, config, watched>>

\* onServerPeerAddressReceived, by all the sockets that wait for the address of the user.
\* That of a user who is not online is none.
AddressReceived(u) ==
  /\ u \in pm.address
  /\ LET p == [pm EXCEPT !.address = @ \ {u}]
         mine == SocketsOf(pm, u, {"address"})
     IN  IF truth[u] = "online"
           THEN Becomes([p EXCEPT !.sock =
                  [s \in Sockets |-> IF s \in mine THEN [@[s] EXCEPT !.state = "connecting"] ELSE @[s]]])
           ELSE Becomes(IF mine = {} THEN p ELSE Answered(Disconnected(p, mine, u), u))
  /\ UNCHANGED <<serverVars, status, truth, watched>>

\* Variant for the mutation runs: the timer is the end of it.
PierceTimedOutForGood(s) ==
  /\ pm.sock[s].state = "pierce"
  /\ Becomes([pm EXCEPT !.passive = @ \ {s}])
  /\ UNCHANGED <<serverVars, status, truth, watched>>

\* UserSocket::onFirewallPierceTimedOut, after 60 s.
PierceTimedOut(s) ==
  /\ pm.sock[s].state = "pierce"
  /\ Becomes(Active(pm, s))
  /\ UNCHANGED <<serverVars, status, truth, watched>>

\* The peer has connected to us as we asked it to: onFirewallPierced.
Pierced(s) ==
  /\ s \in pm.passive /\ truth[pm.sock[s].user] = "online"
  /\ Becomes(Answered([pm EXCEPT !.sock[s].state = "connected", !.passive = @ \ {s}], pm.sock[s].user))
  /\ UNCHANGED <<serverVars, status, truth, watched>>

\* The peer could not connect to us: onCannotConnectNotify of PeerManager, then of each
\* socket, which is no longer waited for by its token, whichever token the message has.
CannotConnectNotify(s) ==
  /\ Event /\ server.loggedIn
  /\ pm.sock[s].called
  /\ LET p == [Answered(pm, pm.sock[s].user) EXCEPT !.passive = {}]
     IN  Becomes(Disconnected(p, {s}, pm.sock[s].user))
  /\ UNCHANGED <<server, config, status, truth, watched>>

\* The connection is made: onConnected.
PeerConnected(s) ==
  /\ pm.sock[s].state = "connecting"
  /\ Becomes(Answered([pm EXCEPT !.sock[s].state = "connected"], pm.sock[s].user))
  /\ UNCHANGED <<serverVars, status, truth, watched>>

\* It cannot be made, or is not within the 120 s of m_ConnectionTimeout.
PeerCannotConnect(s) ==
  /\ pm.sock[s].state = "connecting"
  /\ \E mode \in Modes : \E p \in Refusals(pm, s, mode) : Becomes(p)
  /\ UNCHANGED <<serverVars, status, truth, watched>>

\* A connection is lost, or idle for 130 s, or has only brought search results.
PeerLost(s) ==
  /\ pm.sock[s].state = "connected"
  /\ Becomes(Disconnected(pm, {s}, pm.sock[s].user))
  /\ UNCHANGED <<serverVars, status, truth, watched>>

\* A peer connects to us: HandshakeSocket, type P.
Accepted(u) ==
  /\ Event /\ Room
  /\ LET s == CHOOSE s \in Free(pm) : TRUE
     IN  Becomes(Answered(Added(pm, u, s, [FreeSocket EXCEPT !.user = u, !.state = "connected"]), u))
  /\ UNCHANGED <<server, config, status, truth, watched>>

\* A peer has the server ask us to connect to it: onServerConnectToPeerRequested, type P.
ConnectToPeerRequested(u) ==
  /\ Event /\ Room /\ server.loggedIn
  /\ LET s == CHOOSE s \in Free(pm) : TRUE
     IN  Becomes(Added(pm, u, s, [FreeSocket EXCEPT !.user = u, !.state = "connecting", !.reverse = TRUE]))
  /\ UNCHANGED <<server, config, status, truth, watched>>

\* The connection to the server does something. When it ends, so do the questions, and
\* what the server watches for us; what it has told us is kept.
ServerStep ==
  /\ ServerNext
  /\ IF server.loggedIn /\ ~server'.loggedIn
       THEN /\ pm' = [pm EXCEPT !.asked = {}, !.address = {}, !.unheard = @ \union pm.asked \union pm.address]
            /\ watched' = {}
       ELSE UNCHANGED <<pm, watched>>
  /\ UNCHANGED <<status, truth>>

PeerStep ==
  \/ \E u \in Users :
       \/ Ask(u) \/ AskInVain(u) \/ RequestUserData(u) \/ Forget(u) \/ AddUserReceived(u)
       \/ UserStatusChanges(u) \/ AddressReceived(u) \/ Accepted(u) \/ ConnectToPeerRequested(u)
  \/ \E s \in Sockets :
       \/ PierceTimedOut(s) \/ Pierced(s) \/ CannotConnectNotify(s)
       \/ PeerConnected(s) \/ PeerCannotConnect(s) \/ PeerLost(s)

Init == ServerInit /\ PeerInit
Next == ServerStep \/ PeerStep

\* The server answers what it is asked, the 60 s and 120 s timers fire, and idle sockets
\* are closed.
PeerFairness ==
  /\ \A u \in Users : WF_vars(AddUserReceived(u)) /\ WF_vars(AddressReceived(u))
  /\ \A s \in Sockets : WF_vars(PierceTimedOut(s)) /\ WF_vars(PeerConnected(s) \/ PeerCannotConnect(s))
                        /\ WF_vars(PeerLost(s))

Spec == Init /\ [][Next]_vars /\ ServerFairness /\ PeerFairness

-----------------------------------------------------------------------------
(* Properties. *)

\* Each variable of PeerManager and of the connection to the server holds values of its kind.
TypeOK ==
  /\ ServerTypeOK
  /\ pm \in Manager
  /\ status \in [Users -> Statuses \union {"unknown"}]
  /\ truth \in [Users -> Statuses \union {"none"}]
  /\ watched \subseteq Users

\* m_Peers names for a user a socket of that user which is still in use.
RegisteredIsOpen ==
  \A u \in Users : pm.peers[u] \in Sockets =>
    pm.sock[pm.peers[u]].user = u /\ pm.sock[pm.peers[u]].state \in OpenStates

\* A connection that pierces our firewall goes to a socket that waits for one.
PassiveIsWaiting == \A s \in pm.passive : pm.sock[s].state = "pierce"

\* There is one socket for a user, the registered one, except after a failed reverse
\* connection, whose second disconnection may strike the entry of its successor.
OneSocketPerUser ==
  \A u \in Users \ pm.refused : \A s \in SocketsOf(pm, u, OpenStates) : pm.peers[u] = s

\* A transfer manager that waits for a socket hears of it, and hears of it again when it
\* asks from within the answer, unless the question that would have led to it was lost,
\* was not sent, or is about nobody.
AsksAreAnswered ==
  \A u \in Users :
    \/ []<>(u \notin pm.waiting \/ u \in pm.unheard)
    \/ []<><<\E s \in Sockets : pm.sock[s].user = u /\ PeerCannotConnect(s)>>_vars

\* Every attempt ends, unless it waits for the address that the server was not asked for
\* or did not get to send.
AttemptsEnd ==
  \A s \in Sockets : pm.sock[s].state \in Attempts ~>
    \/ pm.sock[s].state \notin Attempts
    \/ pm.sock[s].state = "address" /\ pm.sock[s].user \notin pm.address
=============================================================================
