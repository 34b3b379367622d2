-------------------------- MODULE DistributedSearch --------------------------
(***************************************************************************)
(* One node of the distributed search network: the SearchManager of        *)
(* museekd and the DistributedSockets it deals with.                       *)
(*                                                                         *)
(* The server sends lists of potential parents. We dial them all, and the  *)
(* first to tell its branch level becomes our parent. Other peers dial us, *)
(* or have the server ask us to dial them, and become our children when    *)
(* they tell their child depth. A dialled peer that cannot be reached is   *)
(* asked through the server to connect to us instead (passive mode).       *)
(*                                                                         *)
(* Callbacks do not nest here as they do in the transfer managers: a step  *)
(* is a whole handler. Sockets are reference counted: an object nothing    *)
(* refers to any longer is destroyed, and its name free for another one.   *)
(***************************************************************************)
EXTENDS Naturals, FiniteSets, FiniteSetsExt

CONSTANTS
  Users,        \* the peers
  NoUser,       \* the user of an unused socket
  Sockets,      \* bound: the DistributedSocket objects alive together
  NoSocket,     \* the null DistributedSocket pointer
  ChildrenMax,  \* m_ChildrenMaxNumber
  Depths,       \* the child depths a peer may tell
  Dialling,     \* bound: the peers that dial us
  Firewalled    \* bound: the peers that have the server ask us to dial them

ASSUME SearchAssumption ==
  /\ IsFiniteSet(Users) /\ NoUser \notin Users
  /\ NoSocket \notin Sockets
  /\ ChildrenMax \in Nat \ {0}
  /\ Depths \subseteq Nat /\ 0 \in Depths
  /\ Dialling \subseteq Users /\ Firewalled \subseteq Users

VARIABLES
  parent,      \* m_Parent
  children,    \* m_Children: the socket and the child depth of each user
  potential,   \* m_PotentialParents
  sockets,     \* the DistributedSocket objects
  parentTold,  \* the child depth last sent to the parent we have; empty before the first
  loggedIn     \* ServerManager::loggedIn()

vars == <<parent, children, potential, sockets, parentTold, loggedIn>>

(***************************************************************************)
(* A socket: the user it is for; whether we dialled it from a list, so that*)
(* onCannotConnectActive is called if that fails; its SocketState; whether *)
(* the reactor polls it; whether PeerManager waits for the peer to pierce  *)
(* our firewall (m_PassiveConnects); the timers armed (m_ConnectionTimeout,*)
(* m_PassiveConnectTimeout, m_DataTimeout, m_DisconnectNowTimeout); and    *)
(* which handlers of SearchManager its disconnection invokes.              *)
(***************************************************************************)
Timers == {"connection", "pierce", "data", "disconnectNow"}
Socket ==
  [user : Users \union {NoUser}, dialled : BOOLEAN, state : {"unused", "connecting", "up", "down"},
   polled : BOOLEAN, waiting : BOOLEAN, timers : SUBSET Timers, tells : SUBSET {"parent", "child"}]

NewSocket(u, mine, st, ts) ==
  [user |-> u, dialled |-> mine, state |-> st, polled |-> TRUE, waiting |-> FALSE, timers |-> ts, tells |-> {}]

Unused  == [NewSocket(NoUser, FALSE, "unused", {}) EXCEPT !.polled = FALSE]
NoChild == [socket |-> NoSocket, depth |-> 0]

\* Every variable holds values of its kind.
TypeOK ==
  /\ parent \in Sockets \union {NoSocket}
  /\ children \in [Users -> [socket : Sockets \union {NoSocket}, depth : Depths]]
  /\ potential \in [Users -> Sockets \union {NoSocket}]
  /\ sockets \in [Sockets -> Socket]
  /\ parentTold \in SUBSET Nat /\ Cardinality(parentTold) <= 1
  /\ loggedIn \in BOOLEAN

Init ==
  /\ parent = NoSocket
  /\ children = [u \in Users |-> NoChild]
  /\ potential = [u \in Users |-> NoSocket]
  /\ sockets = [s \in Sockets |-> Unused]
  /\ parentTold = {}
  /\ loggedIn = FALSE

-----------------------------------------------------------------------------
(* Parts of the handlers. *)

Listed(kids) == {u \in Users : kids[u].socket # NoSocket}

\* The depth of the tree below us: 0 without children.
ChildDepth(kids) == Max({0} \union {kids[u].depth + 1 : u \in Listed(kids)})

Free == {s \in Sockets : sockets[s] = Unused}

\* What the objects become once those that nothing refers to are destroyed.
Settle(new) ==
  LET held == {parent'} \union {children'[u].socket : u \in Users} \union {potential'[u] : u \in Users}
  IN  sockets' = [s \in Sockets |->
                    IF new[s].polled \/ new[s].waiting \/ s \in held THEN new[s] ELSE Unused]

\* The objects after ClientSocket::disconnect of those in S and UserSocket::onDisconnected.
Disconnected(S, old) ==
  [s \in Sockets |-> IF s \in S
                     THEN [old[s] EXCEPT !.state = "down", !.polled = FALSE, !.waiting = FALSE]
                     ELSE old[s]]

\* Variant for the mutation runs: the parent hears of growth only.
TellGrowth(kids) ==
  parentTold' = IF parent # NoSocket /\ ChildDepth(kids) > ChildDepth(children)
                THEN {ChildDepth(kids)} ELSE parentTold

\* Variant for the mutation runs: an update of a child is not passed on.
TellFirst(kids) ==
  parentTold' = IF /\ parent # NoSocket /\ ChildDepth(kids) # ChildDepth(children)
                   /\ Listed(kids) # Listed(children)
                THEN {ChildDepth(kids)} ELSE parentTold

\* A parent is told our depth whenever our children change it.
TellDepth(kids) ==
  parentTold' = IF parent # NoSocket /\ ChildDepth(kids) # ChildDepth(children)
                THEN {ChildDepth(kids)} ELSE parentTold

\* Variant for the mutation runs: a node without parent keeps a child that is gone.
GoneWithParent(s) ==
  LET kids == IF "child" \in sockets[s].tells /\ parent # NoSocket
              THEN [children EXCEPT ![sockets[s].user] = NoChild] ELSE children
  IN  /\ children' = kids
      /\ IF "parent" \in sockets[s].tells
         THEN parent' = NoSocket /\ parentTold' = {}
         ELSE TellDepth(kids) /\ UNCHANGED parent

\* What SearchManager makes of the disconnection of s: onChildDisconnected removes the child
\* of that name, onParentDisconnected forgets the parent.
Gone(s) ==
  LET kids == IF "child" \in sockets[s].tells
              THEN [children EXCEPT ![sockets[s].user] = NoChild] ELSE children
  IN  /\ children' = kids
      /\ IF "parent" \in sockets[s].tells
         THEN parent' = NoSocket /\ parentTold' = {}
         ELSE TellDepth(kids) /\ UNCHANGED parent

\* disconnect() of one socket, with all it invokes.
Disconnect(s, old) ==
  /\ Gone(s)
  /\ UNCHANGED potential
  /\ Settle(Disconnected({s}, old))

WithoutTimer(s, t) == [sockets EXCEPT ![s].timers = @ \ {t}]

\* DistributedSocket::onCannotConnectActive: disconnect, then ask the peer to connect to us.
\* The object may be destroyed by the first; "keeps" says that the caller refers to it.
TryPassive(s, old, keeps) ==
  LET gone == Disconnected({s}, old)
      next == [gone EXCEPT ![s].waiting = TRUE, ![s].timers = @ \union {"pierce"}]
  IN  /\ Gone(s)
      /\ UNCHANGED potential
      /\ Settle(IF keeps \/ s = parent' \/ \E u \in Users : s \in {potential[u], children'[u].socket}
                THEN next ELSE gone)

\* cannotConnectEvent: onCannotConnectActive or onCannotReverseConnect.
CannotConnect(s, old, keeps) ==
  IF sockets[s].dialled THEN TryPassive(s, old, keeps) ELSE Disconnect(s, old)

-----------------------------------------------------------------------------
(* The messages of a peer; "old" is the objects as the message is read. *)

\* Variant for the mutation runs: the disconnection is not watched.
Unwatched(s, who, old) == old

\* SearchManager connects a handler of its own to the socket's disconnectedEvent.
Watched(s, who, old) == [old EXCEPT ![s].tells = @ \union {who}]

\* Variant for the mutation runs: the entry that is skipped is the only one erased.
KeptPotential(u) == [potential EXCEPT ![u] = NoSocket]

\* The potential parents left once u is our parent.
LeftPotential(u) == [v \in Users |-> NoSocket]

\* Variant for the mutation runs: the loop ends at the parent's own entry, the first.
NobodyElse(u) == {}

\* The sockets of the potential parents that u prevails over.
OthersThan(u) == {potential[v] : v \in Users \ {u}} \ {NoSocket}

\* branchLevelReceived: the first potential parent that tells its level becomes our parent.
\* setParent stops the others; a potential parent has no handler of ours to invoke.
LevelFrom(s, old) ==
  LET u == old[s].user
  IN  IF parent = NoSocket /\ potential[u] # NoSocket
      THEN /\ parent' = s /\ parentTold' = {}
           /\ potential' = LeftPotential(u)
           /\ UNCHANGED children
           /\ Settle(Watched(s, "parent", Disconnected(OthersThan(u), old)))
      ELSE /\ UNCHANGED <<parent, children, potential, parentTold>>
           /\ Settle(old)

\* onBranchRootReceived and setBranchRoot.
RootFrom(s, old) ==
  /\ parentTold' = IF s = parent THEN {ChildDepth(children)} ELSE parentTold
  /\ UNCHANGED <<parent, children, potential>>
  /\ Settle(old)

\* Variant for the mutation runs: the depth of the tree from the child on is kept.
ChildOneMore(s, d) == [socket |-> s, depth |-> d + 1]

\* An entry of m_Children.
Child(s, d) == [socket |-> s, depth |-> d]

\* onChildDepthReceived and setChild: a child is registered or updated, or refused and
\* disconnected a second later.
DepthFrom(s, d, old) ==
  LET u == old[s].user
      update == children[u].socket # NoSocket
      kids == [children EXCEPT ![u] = Child(s, d)]
      accepted == (parent # NoSocket \/ update) /\ Cardinality(Listed(children)) < ChildrenMax
  IN  /\ UNCHANGED <<parent, potential>>
      /\ IF s # parent /\ accepted
         THEN /\ children' = kids
              /\ TellDepth(kids)
              /\ Settle(IF update THEN old ELSE Watched(s, "child", old))
         ELSE /\ UNCHANGED <<children, parentTold>>
              /\ Settle(IF s = parent THEN old
                        ELSE [old EXCEPT ![s].timers = @ \union {"disconnectNow"}])

\* A ping or a search request.
OtherFrom(s, old) ==
  /\ UNCHANGED <<parent, children, potential, parentTold>>
  /\ Settle(old)

MessageFrom(s, old) ==
  \/ LevelFrom(s, old)
  \/ RootFrom(s, old)
  \/ \E d \in Depths : DepthFrom(s, d, old)
  \/ OtherFrom(s, old)

-----------------------------------------------------------------------------
(* Events of the sockets and of the reactor. *)

\* A connection attempt succeeds: the peer has a minute to say something.
Connected(s) ==
  /\ sockets[s].state = "connecting" /\ sockets[s].polled
  /\ sockets' = [sockets EXCEPT ![s].state = "up", ![s].timers = (@ \ {"connection"}) \union {"data"}]
  /\ UNCHANGED <<parent, children, potential, parentTold, loggedIn>>

\* A connection attempt fails; the reactor refers to the socket meanwhile.
ConnectFailed(s) ==
  /\ sockets[s].state = "connecting" /\ sockets[s].polled
  /\ CannotConnect(s, sockets, TRUE)
  /\ UNCHANGED loggedIn

\* TcpClientSocket::onConnectionTimeout, armed by connect() and removed by onConnected.
ConnectionTimeout(s) ==
  /\ "connection" \in sockets[s].timers
  /\ CannotConnect(s, WithoutTimer(s, "connection"), FALSE)
  /\ UNCHANGED loggedIn

\* Variant for the mutation runs: connectedEvent comes before what the peer sent, which removes the timer.
FirewallPiercedUntimed(s) ==
  /\ sockets[s].waiting
  /\ MessageFrom(s, [sockets EXCEPT ![s].waiting = FALSE, ![s].state = "up",
                                    ![s].timers = @ \ {"pierce"}])
  /\ UNCHANGED loggedIn

\* The peer connects to us with our token: firewallPierced takes the connection over and
\* reads what came with it. The connection timer is removed only through a reactor.
FirewallPierced(s) ==
  /\ sockets[s].waiting
  /\ MessageFrom(s, [sockets EXCEPT ![s].waiting = FALSE, ![s].state = "up",
                                    ![s].timers = (@ \ {"pierce"}) \union {"data"}])
  /\ UNCHANGED loggedIn

\* UserSocket::onFirewallPierceTimedOut; the socket is not uninitialized: nothing else is tried.
FirewallPierceTimedOut(s) ==
  /\ "pierce" \in sockets[s].timers
  /\ UNCHANGED <<parent, children, potential, parentTold, loggedIn>>
  /\ Settle([WithoutTimer(s, "pierce") EXCEPT ![s].waiting = FALSE])

\* The server says that a peer cannot connect to us, early or late. Every socket gives up
\* waiting; the one the token is for, if it is one of these, is disconnected.
CannotConnectNotify ==
  /\ loggedIn
  /\ UNCHANGED loggedIn
  /\ LET nobody == [s \in Sockets |-> [sockets[s] EXCEPT !.waiting = FALSE]]
     IN  \/ /\ UNCHANGED <<parent, children, potential, parentTold>>
            /\ Settle(nobody)
         \/ \E s \in Sockets : /\ sockets[s].dialled /\ ~sockets[s].polled
                                 /\ Disconnect(s, nobody)

\* The peer closes the connection, or it breaks.
Lost(s) ==
  /\ sockets[s].state = "up" /\ sockets[s].polled
  /\ Disconnect(s, sockets)
  /\ UNCHANGED loggedIn

\* onDisconnectNow: a silent peer, or a refused child.
DisconnectNow(s, t) ==
  /\ t \in sockets[s].timers
  /\ Disconnect(s, WithoutTimer(s, t))
  /\ UNCHANGED loggedIn

\* A message of the peer.
MessageReceived(s) ==
  /\ sockets[s].state = "up" /\ sockets[s].polled
  /\ MessageFrom(s, WithoutTimer(s, "data"))
  /\ UNCHANGED loggedIn

\* A peer dials us.
Accepted(s, u) ==
  /\ s \in Free /\ u \in Dialling
  /\ sockets' = [sockets EXCEPT ![s] = NewSocket(u, FALSE, "up", {})]
  /\ UNCHANGED <<parent, children, potential, parentTold, loggedIn>>

-----------------------------------------------------------------------------
(* Events of the server. *)

\* The server asks us to connect to a peer that cannot reach us.
ConnectToPeerRequested(s, u) ==
  /\ loggedIn /\ s \in Free /\ u \in Firewalled
  /\ sockets' = [sockets EXCEPT ![s] = NewSocket(u, FALSE, "connecting", {"connection"})]
  /\ UNCHANGED <<parent, children, potential, parentTold, loggedIn>>

\* onNetInfoReceived: forget the parent, if any, and dial everybody in the list. The server
\* may have sent it before it heard that we have found a parent.
NetInfoReceived ==
  /\ loggedIn
  /\ parent' = NoSocket /\ parentTold' = {}
  /\ \E listed \in SUBSET Users : \E f \in [listed -> Free] :
       /\ \A u, v \in listed : f[u] = f[v] => u = v
       /\ potential' = [u \in Users |-> IF u \in listed THEN f[u] ELSE potential[u]]
       /\ UNCHANGED <<children, loggedIn>>
       /\ Settle([s \in Sockets |->
                    IF \E u \in listed : f[u] = s
                    THEN NewSocket(CHOOSE u \in listed : f[u] = s, TRUE, "connecting", {"connection"})
                    ELSE sockets[s]])

LoggedIn ==
  /\ ~loggedIn
  /\ loggedIn' = TRUE
  /\ UNCHANGED <<parent, children, potential, sockets, parentTold>>

\* onServerLoggedInStateChanged(false). A node without parent stops its children, in a loop
\* over the map onChildDisconnected erases them from: once it has, the iterator is invalid
\* and the loop may stop any of the children that are left, or none.
LoggedOut ==
  LET kids    == {children[u].socket : u \in Listed(children)}
      erasing == {s \in kids : "child" \in sockets[s].tells}
  IN  /\ loggedIn
      /\ loggedIn' = FALSE
      /\ UNCHANGED <<parent, potential, parentTold>>
      /\ IF parent # NoSocket
         THEN UNCHANGED <<children, sockets>>
         ELSE \E stopped \in SUBSET kids :
                /\ stopped = kids \/ stopped \intersect erasing # {}
                /\ children' = [u \in Users |-> NoChild]
                /\ Settle(Disconnected(stopped, sockets))

Next ==
  \/ \E s \in Sockets :
       \/ Connected(s) \/ ConnectFailed(s) \/ ConnectionTimeout(s)
       \/ FirewallPierced(s) \/ FirewallPierceTimedOut(s)
       \/ Lost(s) \/ MessageReceived(s)
       \/ \E t \in {"data", "disconnectNow"} : DisconnectNow(s, t)
       \/ \E u \in Users : Accepted(s, u) \/ ConnectToPeerRequested(s, u)
  \/ CannotConnectNotify \/ NetInfoReceived \/ LoggedIn \/ LoggedOut

Spec == Init /\ [][Next]_vars

-----------------------------------------------------------------------------
(* Properties. *)

\* The parent we have is always at the other end of a live connection: whatever ends it (the
\* peer, a timer, a notice of the server) reaches onParentDisconnected.
ParentIsConnected == parent # NoSocket => sockets[parent].state = "up"

\* A registered child that we watch is always at the other end of a live connection.
ChildIsConnected ==
  \A u \in Users : LET s == children[u].socket
                   IN  s # NoSocket /\ "child" \in sockets[s].tells => sockets[s].state = "up"

\* Potential parents are kept only while there is no parent, and setParent stops sockets whose
\* disconnection calls nothing of SearchManager back in the middle of it.
PotentialIsFresh ==
  \A u \in Users : LET s == potential[u]
                   IN  s # NoSocket => /\ parent = NoSocket
                                       /\ sockets[s].user = u /\ sockets[s].tells = {}

\* Once we have told the parent our depth it knows it, however children come, go, update
\* and replace each other's connections.
ParentKnowsDepth == parentTold # {} => parent # NoSocket /\ parentTold = {ChildDepth(children)}

\* A socket that waits has a timer that ends the wait: for the connection, for the peer to
\* pierce our firewall, and when it is connected but out of the reactor's sight.
EveryWaitIsTimed ==
  \A s \in Sockets :
    /\ sockets[s].state = "connecting" => "connection" \in sockets[s].timers
    /\ sockets[s].waiting => "pierce" \in sockets[s].timers
    /\ sockets[s].state = "up" /\ ~sockets[s].polled => "data" \in sockets[s].timers

\* setParent: "We have found a parent: stop connecting to others".
OthersAreStopped ==
  [][parent = NoSocket /\ parent' # NoSocket =>
       \A u \in Users : potential[u] # NoSocket /\ u # sockets[parent'].user =>
          sockets'[potential[u]].state \in {"down", "unused"}]_vars

\* The end of another connection never takes the parent away.
ParentOutlivesOthers ==
  [][\A s \in Sockets :
       /\ parent # NoSocket /\ sockets'[parent].state = "up"
       /\ s # parent /\ sockets[s].state = "up" /\ sockets'[s].state # "up"
       => parent' = parent]_vars
=============================================================================
