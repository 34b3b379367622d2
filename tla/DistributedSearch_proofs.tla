---------------------- MODULE DistributedSearch_proofs ----------------------
(***************************************************************************)
(* The node of the search network keeps its connections straight for any   *)
(* peers, sockets, depths and number of children.                          *)
(*                                                                         *)
(* The inductive invariant is Good, stated of the roles (parent, children, *)
(* potential parents) and of the objects, so that it can be followed       *)
(* through the parts of a handler: what the handler does to the objects    *)
(* comes first, and Settle destroys those that nothing refers to last.     *)
(***************************************************************************)
EXTENDS DistributedSearch, FiniteSetTheorems, WellFoundedInduction, TLAPS

ChildType == [socket : Sockets \union {NoSocket}, depth : Depths]

Typed(p, c, q, k) ==
  /\ p \in Sockets \union {NoSocket}
  /\ c \in [Users -> ChildType]
  /\ q \in [Users -> Sockets \union {NoSocket}]
  /\ k \in [Sockets -> Socket]

\* The parent is connected, and its end will be heard of.
ParentGood(p, k) == p # NoSocket => k[p].state = "up" /\ "parent" \in k[p].tells

\* A child's socket is the socket of that user, connected if its end will be heard of.
ChildGood(c, k) ==
  \A u \in Users : c[u].socket # NoSocket =>
    /\ k[c[u].socket].user = u
    /\ "child" \in k[c[u].socket].tells => k[c[u].socket].state = "up"

PotentialGood(p, q, k) ==
  \A u \in Users : q[u] # NoSocket => p = NoSocket /\ k[q[u]].user = u /\ k[q[u]].tells = {}

\* A wait has its timer.
Timed(r) ==
  /\ r.state = "connecting" => "connection" \in r.timers
  /\ r.waiting => "pierce" \in r.timers
  /\ r.state = "up" /\ ~r.polled => "data" \in r.timers

Good(p, c, q, k) ==
  /\ Typed(p, c, q, k)
  /\ ParentGood(p, k)
  /\ ChildGood(c, k)
  /\ PotentialGood(p, q, k)
  /\ \A s \in Sockets : Timed(k[s])

Inv == Good(parent, children, potential, sockets)

\* The objects k are those of j as far as the roles are concerned.
SameRoles(k, j) ==
  /\ k \in [Sockets -> Socket]
  /\ \A s \in Sockets : k[s].user = j[s].user /\ k[s].state = j[s].state /\ k[s].tells = j[s].tells

-----------------------------------------------------------------------------

\* An unused socket waits for nothing, and is no peer's.
LEMMA UnusedType == Unused \in Socket /\ Timed(Unused) /\ Unused.user = NoUser
BY DEF Unused, NewSocket, Socket, Timers, Timed

\* Destroying what nothing refers to leaves the roles and the timers as they are.
LEMMA SettleGood ==
  ASSUME NEW new, Good(parent', children', potential', new), Settle(new)
  PROVE  Inv'
<1> DEFINE held == {parent'} \union {children'[u].socket : u \in Users} \union {potential'[u] : u \in Users}
<1>1. sockets' = [s \in Sockets |-> IF new[s].polled \/ new[s].waiting \/ s \in held THEN new[s] ELSE Unused]
  BY DEF Settle
<1> HIDE DEF held
<1>2. sockets' \in [Sockets -> Socket]
  BY <1>1, UnusedType DEF Good, Typed
<1>3. \A s \in Sockets : s \in held => sockets'[s] = new[s]
  BY <1>1
<1>4. \A s \in Sockets : sockets'[s] = new[s] \/ sockets'[s] = Unused
  BY <1>1
<1>5. Typed(parent', children', potential', sockets')
  BY <1>2 DEF Good, Typed
<1>6. ParentGood(parent', sockets')
  BY <1>3 DEF Good, Typed, ParentGood, held
<1>7. ChildGood(children', sockets')
  <2> SUFFICES ASSUME NEW u \in Users, children'[u].socket # NoSocket
               PROVE  /\ sockets'[children'[u].socket].user = u
                      /\ "child" \in sockets'[children'[u].socket].tells => sockets'[children'[u].socket].state = "up"
    BY DEF ChildGood
  <2>1. children'[u].socket \in Sockets
    BY DEF Good, Typed, ChildType
  <2>2. children'[u].socket \in held
    BY DEF held
  <2> QED BY <2>1, <2>2, <1>3 DEF Good, ChildGood
<1>8. PotentialGood(parent', potential', sockets')
  <2> SUFFICES ASSUME NEW u \in Users, potential'[u] # NoSocket
               PROVE  parent' = NoSocket /\ sockets'[potential'[u]].user = u /\ sockets'[potential'[u]].tells = {}
    BY DEF PotentialGood
  <2>1. potential'[u] \in Sockets /\ potential'[u] \in held
    BY DEF Good, Typed, held
  <2> QED BY <2>1, <1>3 DEF Good, PotentialGood
<1>9. \A s \in Sockets : Timed(sockets'[s])
  BY <1>4, UnusedType DEF Good
<1> QED BY <1>5, <1>6, <1>7, <1>8, <1>9 DEF Inv, Good

\* What SearchManager makes of a disconnection suits the objects after it.
LEMMA GoneGood ==
  ASSUME Inv, NEW s \in Sockets, NEW old, SameRoles(old, sockets),
         \A x \in Sockets \ {s} : Timed(old[x]),
         Gone(s), UNCHANGED potential
  PROVE  Good(parent', children', potential', Disconnected({s}, old))
<1> DEFINE new == Disconnected({s}, old)
<1> USE SearchAssumption
<1>0. old \in [Sockets -> Socket] /\ \A r \in Socket : [r EXCEPT !.state = "down", !.polled = FALSE, !.waiting = FALSE] \in Socket
  BY DEF SameRoles, Socket
<1>1. /\ new \in [Sockets -> Socket]
      /\ new[s] = [old[s] EXCEPT !.state = "down", !.polled = FALSE, !.waiting = FALSE]
      /\ \A x \in Sockets \ {s} : new[x] = old[x]
  BY <1>0 DEF Disconnected
<1> HIDE DEF new
<1>2. /\ new[s].state = "down" /\ ~new[s].waiting
      /\ new[s].user = sockets[s].user /\ new[s].tells = sockets[s].tells
  <2>1. old[s] \in Socket /\ old[s].user = sockets[s].user /\ old[s].tells = sockets[s].tells
    BY <1>0 DEF SameRoles
  <2>2. \A r \in Socket : LET n == [r EXCEPT !.state = "down", !.polled = FALSE, !.waiting = FALSE]
                           IN  n.state = "down" /\ ~n.waiting /\ n.user = r.user /\ n.tells = r.tells
    BY DEF Socket
  <2> QED BY <1>1, <2>1, <2>2
<1>3. \A x \in Sockets \ {s} : new[x].user = sockets[x].user /\ new[x].state = sockets[x].state
                                 /\ new[x].tells = sockets[x].tells
  BY <1>1 DEF SameRoles
<1>4. /\ parent \in Sockets \union {NoSocket} /\ children \in [Users -> ChildType]
      /\ potential \in [Users -> Sockets \union {NoSocket}] /\ sockets \in [Sockets -> Socket]
  BY DEF Inv, Good, Typed
<1>5. NoChild \in ChildType
  BY DEF NoChild, ChildType
<1>6. children' = IF "child" \in sockets[s].tells THEN [children EXCEPT ![sockets[s].user] = NoChild] ELSE children
  BY DEF Gone
<1>7. children' \in [Users -> ChildType]
  BY <1>4, <1>5, <1>6
<1>8. parent' = parent \/ parent' = NoSocket
  BY DEF Gone
<1>9. Typed(parent', children', potential', new)
  BY <1>1, <1>4, <1>7, <1>8 DEF Typed, new
<1>10. ParentGood(parent', new)
  <2> SUFFICES ASSUME parent' # NoSocket PROVE new[parent'].state = "up" /\ "parent" \in new[parent'].tells
    BY DEF ParentGood
  <2>1. parent' = parent /\ parent \in Sockets /\ "parent" \notin sockets[s].tells
    BY <1>4, <1>8 DEF Gone
  <2>2. sockets[parent].state = "up" /\ "parent" \in sockets[parent].tells
    BY <2>1 DEF Inv, Good, ParentGood
  <2> QED BY <2>1, <2>2, <1>3
<1>11. ChildGood(children', new)
  <2> SUFFICES ASSUME NEW u \in Users, children'[u].socket # NoSocket
               PROVE  /\ new[children'[u].socket].user = u
                      /\ "child" \in new[children'[u].socket].tells => new[children'[u].socket].state = "up"
    BY DEF ChildGood
  <2>1. children'[u] = children[u] /\ ("child" \in sockets[s].tells => u # sockets[s].user)
    BY <1>4, <1>6 DEF NoChild
  <2>2. children[u].socket \in Sockets
    BY <2>1, <1>4 DEF ChildType
  <2>3. /\ sockets[children[u].socket].user = u
        /\ "child" \in sockets[children[u].socket].tells => sockets[children[u].socket].state = "up"
    BY <2>1 DEF Inv, Good, ChildGood
  <2>4. CASE children[u].socket = s
    BY <2>1, <2>3, <2>4, <1>2
  <2>5. CASE children[u].socket # s
    BY <2>1, <2>2, <2>3, <2>5, <1>3
  <2> QED BY <2>4, <2>5
<1>12. PotentialGood(parent', potential', new)
  <2> SUFFICES ASSUME NEW u \in Users, potential[u] # NoSocket
               PROVE  parent' = NoSocket /\ new[potential[u]].user = u /\ new[potential[u]].tells = {}
    BY DEF PotentialGood
  <2>1. potential[u] \in Sockets
    BY <1>4
  <2>2. parent = NoSocket /\ sockets[potential[u]].user = u /\ sockets[potential[u]].tells = {}
    BY DEF Inv, Good, PotentialGood
  <2> QED BY <2>1, <2>2, <1>2, <1>3, <1>8
<1>13. \A x \in Sockets : Timed(new[x])
  BY <1>1, <1>2 DEF Timed
<1> QED BY <1>9, <1>10, <1>11, <1>12, <1>13 DEF Good, new

\* Only the roles and the timers of the objects count.
LEMMA SameRolesGood ==
  ASSUME NEW p, NEW c, NEW q, NEW j, NEW k, Good(p, c, q, j), SameRoles(k, j), \A s \in Sockets : Timed(k[s])
  PROVE  Good(p, c, q, k)
<1>1. Typed(p, c, q, k)
  BY DEF Good, Typed, SameRoles
<1>2. ParentGood(p, k)
  BY DEF Good, Typed, ParentGood, SameRoles
<1>3. ChildGood(c, k)
  <2> SUFFICES ASSUME NEW u \in Users, c[u].socket # NoSocket
               PROVE  /\ k[c[u].socket].user = u
                      /\ "child" \in k[c[u].socket].tells => k[c[u].socket].state = "up"
    BY DEF ChildGood
  <2>1. c[u].socket \in Sockets
    BY DEF Good, Typed, ChildType
  <2> QED BY <2>1 DEF Good, ChildGood, SameRoles
<1>4. PotentialGood(p, q, k)
  BY DEF Good, Typed, PotentialGood, SameRoles
<1> QED BY <1>1, <1>2, <1>3, <1>4 DEF Good

LEMMA DisconnectGood ==
  ASSUME Inv, NEW s \in Sockets, NEW old, SameRoles(old, sockets),
         \A x \in Sockets \ {s} : Timed(old[x]), Disconnect(s, old)
  PROVE  Inv'
BY GoneGood, SettleGood DEF Disconnect

\* A socket that waits for its peer to pierce our firewall has the timer for it.
LEMMA TryPassiveGood ==
  ASSUME Inv, NEW s \in Sockets, NEW old, SameRoles(old, sockets),
         \A x \in Sockets \ {s} : Timed(old[x]), NEW keeps, TryPassive(s, old, keeps)
  PROVE  Inv'
<1> DEFINE gone == Disconnected({s}, old)
           next == [gone EXCEPT ![s].waiting = TRUE, ![s].timers = @ \union {"pierce"}]
<1>1. Good(parent', children', potential', gone)
  BY GoneGood DEF TryPassive
<1>2. gone \in [Sockets -> Socket] /\ \A x \in Sockets : Timed(gone[x])
  BY <1>1 DEF Good, Typed
<1>3. Settle(next) \/ Settle(gone)
  BY DEF TryPassive
<1>4. SameRoles(next, gone) /\ \A x \in Sockets : Timed(next[x])
  <2> HIDE DEF gone
  <2>1. \A r \in Socket : LET n == [r EXCEPT !.waiting = TRUE, !.timers = @ \union {"pierce"}]
                          IN  /\ n \in Socket /\ n.user = r.user /\ n.state = r.state /\ n.tells = r.tells
                              /\ Timed(r) => Timed(n)
    BY DEF Socket, Timers, Timed
  <2>2. next = [x \in Sockets |-> IF x = s THEN [gone[s] EXCEPT !.waiting = TRUE, !.timers = @ \union {"pierce"}]
                                  ELSE gone[x]]
    BY <1>2
  <2> HIDE DEF next
  <2>3. next[s] = [gone[s] EXCEPT !.waiting = TRUE, !.timers = @ \union {"pierce"}]
        /\ \A x \in Sockets \ {s} : next[x] = gone[x]
    BY <2>2
  <2>4. next \in [Sockets -> Socket]
    BY <1>2, <2>1, <2>2
  <2>5. gone[s] \in Socket /\ Timed(gone[s])
    BY <1>2
  <2>6. /\ next[s].user = gone[s].user /\ next[s].state = gone[s].state /\ next[s].tells = gone[s].tells
        /\ Timed(next[s])
    BY <2>1, <2>3, <2>5
  <2>7. ASSUME NEW x \in Sockets
        PROVE  /\ next[x].user = gone[x].user /\ next[x].state = gone[x].state /\ next[x].tells = gone[x].tells
               /\ Timed(next[x])
    BY <1>2, <2>3, <2>6
  <2> QED BY <2>4, <2>7 DEF SameRoles
<1>5. Good(parent', children', potential', next)
  BY <1>1, <1>4, SameRolesGood
<1> QED BY <1>1, <1>3, <1>5, SettleGood

LEMMA CannotConnectGood ==
  ASSUME Inv, NEW s \in Sockets, NEW old, SameRoles(old, sockets),
         \A x \in Sockets \ {s} : Timed(old[x]), NEW keeps, CannotConnect(s, old, keeps)
  PROVE  Inv'
BY TryPassiveGood, DisconnectGood DEF CannotConnect

-----------------------------------------------------------------------------

\* The message that makes a parent.
LEMMA LevelGood ==
  ASSUME NEW old, Good(parent, children, potential, old),
         NEW s \in Sockets, old[s].state = "up", LevelFrom(s, old)
  PROVE  Inv'
<1> USE SearchAssumption
<1> DEFINE u == old[s].user
           others == OthersThan(u)
           new == Watched(s, "parent", Disconnected(others, old))
<1>1. CASE ~(parent = NoSocket /\ potential[u] # NoSocket)
  <2>1. UNCHANGED <<parent, children, potential>> /\ Settle(old)
    BY <1>1 DEF LevelFrom
  <2> QED BY <2>1, SettleGood
<1>2. CASE parent = NoSocket /\ potential[u] # NoSocket
  <2>1. /\ parent' = s /\ potential' = [v \in Users |-> NoSocket] /\ children' = children /\ Settle(new)
    BY <1>2 DEF LevelFrom, LeftPotential
  <2>2. \A x \in others : x \in Sockets /\ x # s /\ old[x].tells = {}
    BY DEF OthersThan, Good, Typed, PotentialGood
  <2> DEFINE gone == Disconnected(others, old)
  <2>3. old \in [Sockets -> Socket]
    BY DEF Good, Typed
  <2>4. \A r \in Socket : LET n == [r EXCEPT !.state = "down", !.polled = FALSE, !.waiting = FALSE]
                          IN n \in Socket /\ n.user = r.user /\ n.tells = r.tells /\ Timed(n)
    BY DEF Socket, Timed
  <2>5. \A x \in others : gone[x] = [old[x] EXCEPT !.state = "down", !.polled = FALSE, !.waiting = FALSE]
    BY <2>2 DEF Disconnected
  <2>6. \A x \in Sockets \ others : gone[x] = old[x]
    BY DEF Disconnected
  <2>7. gone \in [Sockets -> Socket]
    BY <2>3, <2>4 DEF Disconnected
  <2> HIDE DEF gone, others
  <2>8. new = [x \in Sockets |-> IF x = s THEN [gone[s] EXCEPT !.tells = @ \union {"parent"}] ELSE gone[x]]
    BY <2>7 DEF Watched, gone
  <2>9. gone[s] = old[s] /\ old[s] \in Socket
    BY <2>2, <2>3, <2>6
  <2>10. \A r \in Socket : LET n == [r EXCEPT !.tells = @ \union {"parent"}]
                           IN /\ n \in Socket /\ n.user = r.user /\ n.state = r.state
                              /\ n.tells = r.tells \union {"parent"} /\ Timed(r) => Timed(n)
    BY DEF Socket, Timed
  <2> HIDE DEF new
  <2>11. new \in [Sockets -> Socket]
    BY <2>7, <2>8, <2>10
  <2>12. /\ new[s].user = u /\ new[s].state = "up" /\ "parent" \in new[s].tells
         /\ Timed(old[s]) => Timed(new[s])
    <3>1. new[s] = [old[s] EXCEPT !.tells = @ \union {"parent"}]
      BY <2>8, <2>9
    <3> QED BY <3>1, <2>9, <2>10
  <2>13. ASSUME NEW x \in others
         PROVE  new[x].user = old[x].user /\ new[x].tells = {} /\ Timed(new[x])
    <3>1. new[x] = [old[x] EXCEPT !.state = "down", !.polled = FALSE, !.waiting = FALSE]
      BY <2>2, <2>5, <2>8
    <3>2. old[x] \in Socket /\ old[x].tells = {}
      BY <2>2, <2>3
    <3> QED BY <3>1, <3>2, <2>4
  <2>14. \A x \in Sockets \ (others \union {s}) : new[x] = old[x]
    BY <2>6, <2>8
  <2>15. Typed(parent', children', potential', new)
    BY <2>1, <2>11 DEF Good, Typed
  <2>16. ParentGood(parent', new)
    BY <2>1, <2>12 DEF ParentGood
  <2>17. ChildGood(children', new)
    <3> SUFFICES ASSUME NEW v \in Users, children[v].socket # NoSocket
                 PROVE  /\ new[children[v].socket].user = v
                        /\ "child" \in new[children[v].socket].tells => new[children[v].socket].state = "up"
      BY <2>1 DEF ChildGood
    <3> DEFINE x == children[v].socket
    <3>1. x \in Sockets
      BY DEF Good, Typed, ChildType
    <3>2. old[x].user = v /\ ("child" \in old[x].tells => old[x].state = "up")
      BY DEF Good, ChildGood
    <3> HIDE DEF x
    <3>3. new[x].user = v /\ ("child" \in new[x].tells => new[x].state = "up")
      BY <3>1, <3>2, <2>12, <2>13, <2>14
    <3> QED BY <3>3 DEF x
  <2>18. PotentialGood(parent', potential', new)
    BY <2>1 DEF PotentialGood
  <2>19. \A x \in Sockets : Timed(new[x])
    BY <2>12, <2>13, <2>14 DEF Good
  <2>20. Good(parent', children', potential', new)
    BY <2>15, <2>16, <2>17, <2>18, <2>19 DEF Good
  <2> QED BY <2>1, <2>20, SettleGood
<1> QED BY <1>1, <1>2

\* The message that makes a child, or updates it.
LEMMA DepthGood ==
  ASSUME NEW old, Good(parent, children, potential, old),
         NEW s \in Sockets, old[s].state = "up", NEW d \in Depths, DepthFrom(s, d, old)
  PROVE  Inv'
<1> USE SearchAssumption
<1> DEFINE u == old[s].user
           update == children[u].socket # NoSocket
           kids == [children EXCEPT ![u] = Child(s, d)]
           accepted == (parent # NoSocket \/ update) /\ Cardinality(Listed(children)) < ChildrenMax
<1>0. parent' = parent /\ potential' = potential
  BY DEF DepthFrom
<1>1. old \in [Sockets -> Socket] /\ old[s] \in Socket
  BY DEF Good, Typed
<1>2. CASE s # parent /\ accepted
  <2>1. children' = kids /\ (Settle(old) \/ (~update /\ Settle(Watched(s, "child", old))))
    BY <1>2 DEF DepthFrom
  <2>2. ASSUME NEW new \in [Sockets -> Socket], new[s].user = old[s].user, new[s].state = "up",
               old[s].tells \subseteq new[s].tells, update => new[s].tells = old[s].tells, Timed(new[s]),
               \A x \in Sockets \ {s} : new[x] = old[x]
        PROVE  Good(parent', children', potential', new)
    <3>1. \A v \in Users : kids[v] = IF v = u THEN Child(s, d) ELSE children[v]
      BY DEF Good, Typed
    <3>2. kids \in [Users -> ChildType]
      BY DEF Good, Typed, Child, ChildType
    <3>3. Typed(parent', children', potential', new)
      BY <1>0, <2>1, <2>2, <3>2 DEF Good, Typed
    <3>4. ParentGood(parent', new)
      BY <1>0, <2>2 DEF Good, Typed, ParentGood
    <3>5. ChildGood(children', new)
      <4> SUFFICES ASSUME NEW v \in Users, kids[v].socket # NoSocket
                   PROVE  /\ new[kids[v].socket].user = v
                          /\ "child" \in new[kids[v].socket].tells => new[kids[v].socket].state = "up"
        BY <2>1 DEF ChildGood
      <4>1. CASE v = u
        BY <4>1, <3>1, <2>2 DEF Child
      <4>2. CASE v # u
        <5>1. kids[v] = children[v] /\ children[v].socket \in Sockets
          BY <4>2, <3>1 DEF Good, Typed, ChildType
        <5>2. /\ old[children[v].socket].user = v
              /\ "child" \in old[children[v].socket].tells => old[children[v].socket].state = "up"
          BY <5>1 DEF Good, ChildGood
        <5> QED BY <4>2, <5>1, <5>2, <2>2
      <4> QED BY <4>1, <4>2
    <3>6. PotentialGood(parent', potential', new)
      <4> SUFFICES ASSUME NEW v \in Users, potential[v] # NoSocket
                   PROVE  parent = NoSocket /\ new[potential[v]].user = v /\ new[potential[v]].tells = {}
        BY <1>0 DEF PotentialGood
      <4>1. potential[v] \in Sockets
        BY DEF Good, Typed
      <4>2. parent = NoSocket /\ old[potential[v]].user = v /\ old[potential[v]].tells = {}
        BY DEF Good, PotentialGood
      <4>3. update
        BY <1>2, <4>2
      <4> QED BY <4>1, <4>2, <4>3, <2>2
    <3>7. \A x \in Sockets : Timed(new[x])
      BY <2>2 DEF Good
    <3> QED BY <3>3, <3>4, <3>5, <3>6, <3>7 DEF Good
  <2>3. CASE Settle(old)
    <3>1. Good(parent', children', potential', old)
      BY <1>1, <2>2 DEF Good
    <3> QED BY <2>3, <3>1, SettleGood
  <2>4. CASE ~update /\ Settle(Watched(s, "child", old))
    <3> DEFINE new == Watched(s, "child", old)
    <3>1. new = [x \in Sockets |-> IF x = s THEN [old[s] EXCEPT !.tells = @ \union {"child"}] ELSE old[x]]
      BY <1>1 DEF Watched
    <3>2. \A r \in Socket : LET n == [r EXCEPT !.tells = @ \union {"child"}]
                            IN  /\ n \in Socket /\ n.user = r.user /\ n.state = r.state
                                /\ n.tells = r.tells \union {"child"} /\ Timed(r) => Timed(n)
      BY DEF Socket, Timed
    <3> HIDE DEF new
    <3>3. new \in [Sockets -> Socket]
      BY <1>1, <3>1, <3>2
    <3>4. /\ new[s].user = old[s].user /\ new[s].state = "up" /\ old[s].tells \subseteq new[s].tells
          /\ Timed(old[s]) => Timed(new[s])
      <4>1. new[s] = [old[s] EXCEPT !.tells = @ \union {"child"}]
        BY <3>1
      <4> QED BY <1>1, <4>1, <3>2
    <3>5. \A x \in Sockets \ {s} : new[x] = old[x]
      BY <3>1
    <3>6. Good(parent', children', potential', new)
      BY <2>2, <2>4, <3>3, <3>4, <3>5 DEF Good
    <3> QED BY <2>4, <3>6, SettleGood DEF new
  <2> QED BY <2>1, <2>3, <2>4
<1>3. CASE ~(s # parent /\ accepted)
  <2> DEFINE new == [old EXCEPT ![s].timers = @ \union {"disconnectNow"}]
  <2>1. children' = children /\ (Settle(old) \/ Settle(new))
    BY <1>3 DEF DepthFrom
  <2>2. new = [x \in Sockets |-> IF x = s THEN [old[s] EXCEPT !.timers = @ \union {"disconnectNow"}] ELSE old[x]]
    BY <1>1
  <2>3. \A r \in Socket : LET n == [r EXCEPT !.timers = @ \union {"disconnectNow"}]
                          IN  /\ n \in Socket /\ n.user = r.user /\ n.state = r.state
                              /\ n.tells = r.tells /\ Timed(r) => Timed(n)
    BY DEF Socket, Timed, Timers
  <2> HIDE DEF new
  <2>4. new \in [Sockets -> Socket]
    BY <1>1, <2>2, <2>3
  <2>5. ASSUME NEW x \in Sockets
        PROVE  /\ new[x].user = old[x].user /\ new[x].state = old[x].state /\ new[x].tells = old[x].tells
               /\ Timed(old[x]) => Timed(new[x])
    BY <1>1, <2>2, <2>3
  <2>6. SameRoles(new, old) /\ \A x \in Sockets : Timed(new[x])
    BY <2>4, <2>5 DEF SameRoles, Good
  <2>7. Good(parent', children', potential', new) /\ Good(parent', children', potential', old)
    BY <1>0, <2>1, <2>6, SameRolesGood
  <2> QED BY <2>1, <2>7, SettleGood
<1> QED BY <1>2, <1>3

LEMMA MessageGood ==
  ASSUME NEW old, Good(parent, children, potential, old),
         NEW s \in Sockets, old[s].state = "up", MessageFrom(s, old)
  PROVE  Inv'
<1>1. CASE LevelFrom(s, old)
  BY <1>1, LevelGood
<1>2. CASE RootFrom(s, old)
  BY <1>2, SettleGood DEF RootFrom
<1>3. CASE \E d \in Depths : DepthFrom(s, d, old)
  BY <1>3, DepthGood
<1>4. CASE OtherFrom(s, old)
  BY <1>4, SettleGood DEF OtherFrom
<1> QED BY <1>1, <1>2, <1>3, <1>4 DEF MessageFrom

-----------------------------------------------------------------------------

\* A connection that comes up takes no role from its socket.
LEMMA RaisedGood ==
  ASSUME NEW j, Inv, NEW s \in Sockets, j \in [Sockets -> Socket],
         j[s].user = sockets[s].user, j[s].tells = sockets[s].tells, j[s].state = "up", Timed(j[s]),
         \A x \in Sockets \ {s} : j[x] = sockets[x]
  PROVE  Good(parent, children, potential, j)
<1>1. Typed(parent, children, potential, j)
  BY DEF Inv, Good, Typed
<1>2. ParentGood(parent, j)
  BY DEF Inv, Good, Typed, ParentGood
<1>3. ChildGood(children, j)
  <2> SUFFICES ASSUME NEW v \in Users, children[v].socket # NoSocket
               PROVE  /\ j[children[v].socket].user = v
                      /\ "child" \in j[children[v].socket].tells => j[children[v].socket].state = "up"
    BY DEF ChildGood
  <2>1. children[v].socket \in Sockets
    BY DEF Inv, Good, Typed, ChildType
  <2>2. /\ sockets[children[v].socket].user = v
        /\ "child" \in sockets[children[v].socket].tells => sockets[children[v].socket].state = "up"
    BY DEF Inv, Good, ChildGood
  <2> QED BY <2>1, <2>2
<1>4. PotentialGood(parent, potential, j)
  BY DEF Inv, Good, Typed, PotentialGood
<1>5. \A x \in Sockets : Timed(j[x])
  BY DEF Inv, Good
<1> QED BY <1>1, <1>2, <1>3, <1>4, <1>5 DEF Good

\* An object that is made anew has no role yet.
LEMMA FreshGood ==
  ASSUME NEW j, Inv, NEW S \in SUBSET Free, j \in [Sockets -> Socket],
         \A x \in S : Timed(j[x]), \A x \in Sockets \ S : j[x] = sockets[x]
  PROVE  Good(parent, children, potential, j)
<1> USE SearchAssumption
<1>1. \A x \in S : sockets[x].state = "unused" /\ sockets[x].user \notin Users
  BY DEF Free, Unused, NewSocket
<1>2. Typed(parent, children, potential, j)
  BY DEF Inv, Good, Typed
<1>3. ParentGood(parent, j)
  BY <1>1 DEF Inv, Good, Typed, ParentGood
<1>4. ChildGood(children, j)
  <2> SUFFICES ASSUME NEW v \in Users, children[v].socket # NoSocket
               PROVE  /\ j[children[v].socket].user = v
                      /\ "child" \in j[children[v].socket].tells => j[children[v].socket].state = "up"
    BY DEF ChildGood
  <2>1. children[v].socket \in Sockets
    BY DEF Inv, Good, Typed, ChildType
  <2>2. /\ sockets[children[v].socket].user = v
        /\ "child" \in sockets[children[v].socket].tells => sockets[children[v].socket].state = "up"
    BY DEF Inv, Good, ChildGood
  <2> QED BY <2>1, <2>2, <1>1
<1>5. PotentialGood(parent, potential, j)
  BY <1>1 DEF Inv, Good, Typed, PotentialGood
<1>6. \A x \in Sockets : Timed(j[x])
  BY DEF Inv, Good
<1> QED BY <1>2, <1>3, <1>4, <1>5, <1>6 DEF Good

LEMMA WithoutTimerFacts ==
  ASSUME Inv, NEW s \in Sockets, NEW t
  PROVE  /\ SameRoles(WithoutTimer(s, t), sockets)
         /\ \A x \in Sockets \ {s} : WithoutTimer(s, t)[x] = sockets[x]
         /\ WithoutTimer(s, t)[s] = [sockets[s] EXCEPT !.timers = @ \ {t}]
         /\ \A x \in Sockets \ {s} : Timed(WithoutTimer(s, t)[x])
<1> DEFINE new == WithoutTimer(s, t)
<1>1. sockets \in [Sockets -> Socket] /\ \A x \in Sockets : Timed(sockets[x])
  BY DEF Inv, Good, Typed
<1>2. new = [x \in Sockets |-> IF x = s THEN [sockets[s] EXCEPT !.timers = @ \ {t}] ELSE sockets[x]]
  BY <1>1 DEF WithoutTimer
<1>3. \A r \in Socket : LET n == [r EXCEPT !.timers = @ \ {t}]
                        IN  n \in Socket /\ n.user = r.user /\ n.state = r.state /\ n.tells = r.tells
  BY DEF Socket
<1> HIDE DEF new
<1>4. new \in [Sockets -> Socket]
  BY <1>1, <1>2, <1>3
<1>5. ASSUME NEW x \in Sockets
      PROVE  new[x].user = sockets[x].user /\ new[x].state = sockets[x].state /\ new[x].tells = sockets[x].tells
  BY <1>1, <1>2, <1>3
<1> QED BY <1>1, <1>2, <1>4, <1>5 DEF SameRoles, new

\* The connection comes up outside the reactor, or a message comes in it.
LEMMA PiercedGood ==
  ASSUME Inv, NEW s \in Sockets, FirewallPierced(s)
  PROVE  Inv'
<1> DEFINE r == [sockets[s] EXCEPT !.waiting = FALSE, !.state = "up", !.timers = (@ \ {"pierce"}) \union {"data"}]
           j == [sockets EXCEPT ![s].waiting = FALSE, ![s].state = "up",
                                ![s].timers = (@ \ {"pierce"}) \union {"data"}]
<1>1. sockets \in [Sockets -> Socket]
  BY DEF Inv, Good, Typed
<1>2. \A o \in Socket : LET n == [o EXCEPT !.waiting = FALSE, !.state = "up",
                                          !.timers = (@ \ {"pierce"}) \union {"data"}]
                        IN n \in Socket /\ n.user = o.user /\ n.tells = o.tells /\ n.state = "up" /\ Timed(n)
  BY DEF Socket, Timers, Timed
<1>3. j = [x \in Sockets |-> IF x = s THEN r ELSE sockets[x]]
  BY <1>1
<1>4. MessageFrom(s, j)
  BY DEF FirewallPierced
<1>5. r \in Socket /\ r.user = sockets[s].user /\ r.tells = sockets[s].tells /\ r.state = "up" /\ Timed(r)
  BY <1>1, <1>2
<1> HIDE DEF j, r
<1>6. j \in [Sockets -> Socket] /\ j[s] = r /\ \A x \in Sockets \ {s} : j[x] = sockets[x]
  BY <1>1, <1>3, <1>5
<1>7. Good(parent, children, potential, j)
  BY <1>5, <1>6, RaisedGood
<1> QED BY <1>4, <1>5, <1>6, <1>7, MessageGood

LEMMA ReceivedGood ==
  ASSUME Inv, NEW s \in Sockets, MessageReceived(s)
  PROVE  Inv'
<1> DEFINE j == WithoutTimer(s, "data")
<1>1. sockets[s] \in Socket /\ Timed(sockets[s])
  BY DEF Inv, Good, Typed
<1>2. SameRoles(j, sockets) /\ j[s] = [sockets[s] EXCEPT !.timers = @ \ {"data"}]
      /\ \A x \in Sockets \ {s} : Timed(j[x])
  BY WithoutTimerFacts
<1>3. sockets[s].state = "up" /\ sockets[s].polled /\ MessageFrom(s, j)
  BY DEF MessageReceived
<1> HIDE DEF j
<1>4. Timed(j[s])
  BY <1>1, <1>2, <1>3 DEF Timed, Socket
<1>5. Good(parent, children, potential, j) /\ j[s].state = "up"
  BY <1>2, <1>3, <1>4, SameRolesGood DEF Inv, SameRoles
<1> QED BY <1>3, <1>5, MessageGood

LEMMA ConnectedGood ==
  ASSUME Inv, NEW s \in Sockets, Connected(s)
  PROVE  Inv'
<1> DEFINE r == [sockets[s] EXCEPT !.state = "up", !.timers = (@ \ {"connection"}) \union {"data"}]
<1>1. sockets \in [Sockets -> Socket] /\ Timed(sockets[s])
  BY DEF Inv, Good, Typed
<1>2. \A o \in Socket : LET n == [o EXCEPT !.state = "up", !.timers = (@ \ {"connection"}) \union {"data"}]
                        IN  /\ n \in Socket /\ n.user = o.user /\ n.tells = o.tells /\ n.state = "up"
                            /\ Timed(o) => Timed(n)
  BY DEF Socket, Timers, Timed
<1>3. sockets' = [x \in Sockets |-> IF x = s THEN r ELSE sockets[x]]
  BY <1>1 DEF Connected
<1>4. r \in Socket /\ r.user = sockets[s].user /\ r.tells = sockets[s].tells /\ r.state = "up" /\ Timed(r)
  BY <1>1, <1>2
<1> HIDE DEF r
<1>5. Good(parent, children, potential, sockets')
  BY <1>1, <1>3, <1>4, RaisedGood
<1> QED BY <1>5 DEF Connected, Inv

LEMMA PierceTimedOutGood ==
  ASSUME Inv, NEW s \in Sockets, FirewallPierceTimedOut(s)
  PROVE  Inv'
<1> DEFINE k == WithoutTimer(s, "pierce")
           j == [k EXCEPT ![s].waiting = FALSE]
<1>1. sockets[s] \in Socket /\ Timed(sockets[s])
  BY DEF Inv, Good, Typed
<1>2. SameRoles(k, sockets) /\ k[s] = [sockets[s] EXCEPT !.timers = @ \ {"pierce"}]
      /\ \A x \in Sockets \ {s} : Timed(k[x])
  BY WithoutTimerFacts
<1>3. UNCHANGED <<parent, children, potential>> /\ Settle(j)
  BY DEF FirewallPierceTimedOut
<1> HIDE DEF k
<1>4. k \in [Sockets -> Socket]
  BY <1>2 DEF SameRoles
<1>5. j = [x \in Sockets |-> IF x = s THEN [k[s] EXCEPT !.waiting = FALSE] ELSE k[x]]
  BY <1>4
<1>6. \A o \in Socket : LET n == [o EXCEPT !.waiting = FALSE]
                        IN  n \in Socket /\ n.user = o.user /\ n.state = o.state /\ n.tells = o.tells
                            /\ n.timers = o.timers /\ n.polled = o.polled /\ ~n.waiting
  BY DEF Socket
<1> HIDE DEF j
<1>7. j \in [Sockets -> Socket]
  BY <1>4, <1>5, <1>6
<1>8. ASSUME NEW x \in Sockets
      PROVE  j[x].user = sockets[x].user /\ j[x].state = sockets[x].state /\ j[x].tells = sockets[x].tells
  BY <1>2, <1>4, <1>5, <1>6 DEF SameRoles
<1>9. Timed(j[s])
  <2>1. j[s].timers = sockets[s].timers \ {"pierce"} /\ j[s].polled = sockets[s].polled
        /\ j[s].state = sockets[s].state /\ ~j[s].waiting
    <3>1. k[s].timers = sockets[s].timers \ {"pierce"} /\ k[s].polled = sockets[s].polled
          /\ k[s].state = sockets[s].state
      BY <1>1, <1>2 DEF Socket
    <3>2. j[s] = [k[s] EXCEPT !.waiting = FALSE] /\ k[s] \in Socket
      BY <1>4, <1>5
    <3> QED BY <3>1, <3>2, <1>6
  <2> QED BY <2>1, <1>1 DEF Timed
<1>10. SameRoles(j, sockets) /\ \A x \in Sockets : Timed(j[x])
  BY <1>2, <1>5, <1>7, <1>8, <1>9 DEF SameRoles
<1>11. Good(parent', children', potential', j)
  BY <1>3, <1>10, SameRolesGood DEF Inv
<1> QED BY <1>3, <1>11, SettleGood

LEMMA NotifyGood ==
  ASSUME Inv, CannotConnectNotify
  PROVE  Inv'
<1> DEFINE nobody == [s \in Sockets |-> [sockets[s] EXCEPT !.waiting = FALSE]]
<1>1. sockets \in [Sockets -> Socket] /\ \A x \in Sockets : Timed(sockets[x])
  BY DEF Inv, Good, Typed
<1>2. \A o \in Socket : LET n == [o EXCEPT !.waiting = FALSE]
                        IN  n \in Socket /\ n.user = o.user /\ n.state = o.state /\ n.tells = o.tells
                            /\ (Timed(o) => Timed(n))
  BY DEF Socket, Timed
<1>3. SameRoles(nobody, sockets) /\ \A x \in Sockets : Timed(nobody[x])
  BY <1>1, <1>2 DEF SameRoles
<1>4. \/ UNCHANGED <<parent, children, potential>> /\ Settle(nobody)
      \/ \E s \in Sockets : Disconnect(s, nobody)
  BY DEF CannotConnectNotify
<1> HIDE DEF nobody
<1>5. CASE UNCHANGED <<parent, children, potential>> /\ Settle(nobody)
  <2>1. Good(parent', children', potential', nobody)
    BY <1>3, <1>5, SameRolesGood DEF Inv
  <2> QED BY <1>5, <2>1, SettleGood
<1>6. CASE \E s \in Sockets : Disconnect(s, nobody)
  BY <1>3, <1>6, DisconnectGood
<1> QED BY <1>4, <1>5, <1>6

\* The sockets the handlers make have the timers their connections need.
LEMMA NewSocketType ==
  ASSUME NEW u \in Users
  PROVE  /\ \A mine \in BOOLEAN : LET n == NewSocket(u, mine, "connecting", {"connection"})
                                  IN n \in Socket /\ Timed(n) /\ n.user = u /\ n.tells = {}
         /\ NewSocket(u, FALSE, "up", {}) \in Socket /\ Timed(NewSocket(u, FALSE, "up", {}))
BY DEF NewSocket, Socket, Timed, Timers

LEMMA CameGood ==
  ASSUME Inv, NEW s \in Sockets, NEW u \in Users, Accepted(s, u) \/ ConnectToPeerRequested(s, u)
  PROVE  Inv'
<1>1. PICK r \in {NewSocket(u, FALSE, "up", {}), NewSocket(u, FALSE, "connecting", {"connection"})} :
        s \in Free /\ sockets' = [sockets EXCEPT ![s] = r] /\ UNCHANGED <<parent, children, potential>>
  BY DEF Accepted, ConnectToPeerRequested
<1>2. r \in Socket /\ Timed(r)
  BY NewSocketType
<1>3. sockets \in [Sockets -> Socket]
  BY DEF Inv, Good, Typed
<1>4. sockets' \in [Sockets -> Socket] /\ Timed(sockets'[s])
      /\ \A x \in Sockets \ {s} : sockets'[x] = sockets[x]
  BY <1>1, <1>2, <1>3
<1>5. Good(parent, children, potential, sockets')
  <2>1. {s} \in SUBSET Free /\ \A x \in {s} : Timed(sockets'[x])
    BY <1>1, <1>4
  <2> QED BY <2>1, <1>4, FreshGood
<1> QED BY <1>1, <1>5 DEF Inv

LEMMA NetInfoGood ==
  ASSUME Inv, NetInfoReceived
  PROVE  Inv'
<1> USE SearchAssumption
<1>1. PICK listed \in SUBSET Users : \E f \in [listed -> Free] :
        /\ \A u, v \in listed : f[u] = f[v] => u = v
        /\ potential' = [u \in Users |-> IF u \in listed THEN f[u] ELSE potential[u]]
        /\ UNCHANGED <<children, loggedIn>>
        /\ Settle([s \in Sockets |->
                     IF \E u \in listed : f[u] = s
                     THEN NewSocket(CHOOSE u \in listed : f[u] = s, TRUE, "connecting", {"connection"})
                     ELSE sockets[s]])
  BY DEF NetInfoReceived
<1>2. PICK f \in [listed -> Free] :
        /\ \A u, v \in listed : f[u] = f[v] => u = v
        /\ potential' = [u \in Users |-> IF u \in listed THEN f[u] ELSE potential[u]]
        /\ UNCHANGED <<children, loggedIn>>
        /\ Settle([s \in Sockets |->
                     IF \E u \in listed : f[u] = s
                     THEN NewSocket(CHOOSE u \in listed : f[u] = s, TRUE, "connecting", {"connection"})
                     ELSE sockets[s]])
  BY <1>1
<1> DEFINE new == [s \in Sockets |->
                     IF \E u \in listed : f[u] = s
                     THEN NewSocket(CHOOSE u \in listed : f[u] = s, TRUE, "connecting", {"connection"})
                     ELSE sockets[s]]
           made == {f[u] : u \in listed}
<1>3. parent' = NoSocket /\ Settle(new) /\ children' = children
  BY <1>2 DEF NetInfoReceived
<1>4. sockets \in [Sockets -> Socket] /\ potential \in [Users -> Sockets \union {NoSocket}] /\ Free \subseteq Sockets
  BY DEF Inv, Good, Typed, Free
<1>5. ASSUME NEW u \in listed
      PROVE  new[f[u]] = NewSocket(u, TRUE, "connecting", {"connection"})
  <2>1. (CHOOSE v \in listed : f[v] = f[u]) = u
    BY <1>2
  <2> QED BY <2>1, <1>4
<1>6. ASSUME NEW u \in listed
      PROVE  new[f[u]] \in Socket /\ Timed(new[f[u]]) /\ new[f[u]].user = u /\ new[f[u]].tells = {}
  <2>1. LET n == NewSocket(u, TRUE, "connecting", {"connection"})
        IN n \in Socket /\ Timed(n) /\ n.user = u /\ n.tells = {}
    BY NewSocketType
  <2> HIDE DEF new
  <2> QED BY <1>5, <2>1
<1>7. \A x \in Sockets \ made : new[x] = sockets[x]
  OBVIOUS
<1>8. new = [x \in Sockets |-> new[x]]
  OBVIOUS
<1> HIDE DEF new
<1>9. \A x \in Sockets : new[x] \in Socket
  BY <1>4, <1>6, <1>7
<1>10. new \in [Sockets -> Socket]
  BY <1>8, <1>9
<1>11. Good(parent, children, potential, new)
  <2>1. made \in SUBSET Free /\ \A x \in made : Timed(new[x])
    BY <1>6
  <2> HIDE DEF made
  <2> QED BY <2>1, <1>7, <1>10, FreshGood
<1>12. potential' \in [Users -> Sockets \union {NoSocket}]
  BY <1>2, <1>4
<1>13. PotentialGood(NoSocket, potential', new)
  <2> SUFFICES ASSUME NEW u \in Users, potential'[u] # NoSocket
               PROVE  new[potential'[u]].user = u /\ new[potential'[u]].tells = {}
    BY DEF PotentialGood
  <2>1. CASE u \in listed
    BY <2>1, <1>2, <1>6
  <2>2. CASE u \notin listed
    BY <2>2, <1>2, <1>11 DEF Good, PotentialGood
  <2> QED BY <2>1, <2>2
<1>14. Good(parent', children', potential', new)
  BY <1>3, <1>11, <1>12, <1>13 DEF Good, Typed, ParentGood
<1> QED BY <1>3, <1>14, SettleGood

LEMMA LoggedOutGood ==
  ASSUME Inv, LoggedOut
  PROVE  Inv'
<1> USE SearchAssumption
<1>1. CASE parent # NoSocket
  BY <1>1 DEF LoggedOut, Inv
<1>2. CASE parent = NoSocket
  <2>1. PICK stopped : /\ children' = [u \in Users |-> NoChild]
                       /\ Settle(Disconnected(stopped, sockets))
                       /\ UNCHANGED <<parent, potential>>
    BY <1>2 DEF LoggedOut
  <2> DEFINE new == Disconnected(stopped, sockets)
  <2>2. sockets \in [Sockets -> Socket]
    BY DEF Inv, Good, Typed
  <2>3. \A r \in Socket : LET n == [r EXCEPT !.state = "down", !.polled = FALSE, !.waiting = FALSE]
                          IN n \in Socket /\ n.user = r.user /\ n.tells = r.tells /\ Timed(n)
    BY DEF Socket, Timed
  <2>4. new \in [Sockets -> Socket]
    BY <2>2, <2>3 DEF Disconnected
  <2>5. ASSUME NEW x \in Sockets
        PROVE  new[x].user = sockets[x].user /\ new[x].tells = sockets[x].tells /\ Timed(new[x])
    <3>1. CASE x \in stopped
      <4>1. new[x] = [sockets[x] EXCEPT !.state = "down", !.polled = FALSE, !.waiting = FALSE]
        BY <3>1 DEF Disconnected
      <4> HIDE DEF new
      <4> QED BY <4>1, <2>2, <2>3
    <3>2. CASE x \notin stopped
      BY <3>2 DEF Disconnected, Inv, Good
    <3> QED BY <3>1, <3>2
  <2> HIDE DEF new
  <2>6. children' \in [Users -> ChildType] /\ \A u \in Users : children'[u].socket = NoSocket
    BY <2>1 DEF ChildType, NoChild
  <2>7. Typed(parent', children', potential', new)
    BY <2>1, <2>4, <2>6 DEF Inv, Good, Typed
  <2>8. ParentGood(parent', new) /\ ChildGood(children', new)
    BY <1>2, <2>1, <2>6 DEF ParentGood, ChildGood
  <2>9. PotentialGood(parent', potential', new)
    BY <2>1, <2>5 DEF Inv, Good, Typed, PotentialGood
  <2>10. Good(parent', children', potential', new)
    BY <2>5, <2>7, <2>8, <2>9 DEF Good
  <2> QED BY <2>1, <2>10, SettleGood DEF new
<1> QED BY <1>1, <1>2

-----------------------------------------------------------------------------

LEMMA InitGood == Init => Inv
<1> SUFFICES ASSUME Init PROVE Inv
  OBVIOUS
<1> USE SearchAssumption
<1>1. Typed(parent, children, potential, sockets)
  BY UnusedType DEF Init, Typed, ChildType, NoChild
<1>2. ParentGood(parent, sockets) /\ ChildGood(children, sockets) /\ PotentialGood(parent, potential, sockets)
  BY DEF Init, ParentGood, ChildGood, PotentialGood, NoChild
<1>3. \A s \in Sockets : Timed(sockets[s])
  BY UnusedType DEF Init
<1> QED BY <1>1, <1>2, <1>3 DEF Inv, Good

LEMMA StepGood == Inv /\ [Next]_vars => Inv'
<1> SUFFICES ASSUME Inv, [Next]_vars PROVE Inv'
  OBVIOUS
<1>1. ASSUME NEW s \in Sockets, Connected(s) PROVE Inv'
  BY <1>1, ConnectedGood
<1> DEFINE same == SameRoles(sockets, sockets) /\ \A x \in Sockets : Timed(sockets[x])
<1>2. same
  BY DEF SameRoles, Inv, Good, Typed
<1>3. ASSUME NEW s \in Sockets, ConnectFailed(s) PROVE Inv'
  BY <1>2, <1>3, CannotConnectGood DEF ConnectFailed
<1>4. ASSUME NEW s \in Sockets, ConnectionTimeout(s) PROVE Inv'
  BY <1>4, WithoutTimerFacts, CannotConnectGood DEF ConnectionTimeout
<1>5. ASSUME NEW s \in Sockets, FirewallPierced(s) PROVE Inv'
  BY <1>5, PiercedGood
<1>6. ASSUME NEW s \in Sockets, FirewallPierceTimedOut(s) PROVE Inv'
  BY <1>6, PierceTimedOutGood
<1>7. ASSUME NEW s \in Sockets, Lost(s) PROVE Inv'
  BY <1>2, <1>7, DisconnectGood DEF Lost
<1>8. ASSUME NEW s \in Sockets, MessageReceived(s) PROVE Inv'
  BY <1>8, ReceivedGood
<1>9. ASSUME NEW s \in Sockets, NEW t, DisconnectNow(s, t) PROVE Inv'
  BY <1>9, WithoutTimerFacts, DisconnectGood DEF DisconnectNow
<1>10. ASSUME NEW s \in Sockets, NEW u \in Users, Accepted(s, u) \/ ConnectToPeerRequested(s, u) PROVE Inv'
  BY <1>10, CameGood
<1>11. CASE CannotConnectNotify
  BY <1>11, NotifyGood
<1>12. CASE NetInfoReceived
  BY <1>12, NetInfoGood
<1>13. CASE LoggedIn
  BY <1>13 DEF LoggedIn, Inv
<1>14. CASE LoggedOut
  BY <1>14, LoggedOutGood
<1>15. CASE UNCHANGED vars
  BY <1>15 DEF vars, Inv
<1> QED BY <1>1, <1>3, <1>4, <1>5, <1>6, <1>7, <1>8, <1>9, <1>10, <1>11, <1>12, <1>13, <1>14, <1>15 DEF Next

LEMMA InvHolds == Spec => []Inv
BY InitGood, StepGood, PTL DEF Spec

\* The parent we have is always at the other end of a live connection: onParentDisconnected
\* hears of whatever ends it, for m_Parent's socket is watched from setParent on.
THEOREM ParentConnected == Spec => []ParentIsConnected
<1>1. Inv => ParentIsConnected
  BY DEF Inv, Good, ParentGood, ParentIsConnected
<1> QED BY <1>1, InvHolds, PTL

\* A child that setChild watches is always at the other end of a live connection.
THEOREM ChildConnected == Spec => []ChildIsConnected
<1>1. Inv => ChildIsConnected
  BY DEF Inv, Good, ChildGood, ChildIsConnected
<1> QED BY <1>1, InvHolds, PTL

\* Potential parents are kept only while there is no parent, each under its own name, and
\* setParent stops sockets that call nothing of SearchManager back.
THEOREM PotentialFresh == Spec => []PotentialIsFresh
<1>1. Inv => PotentialIsFresh
  BY DEF Inv, Good, PotentialGood, PotentialIsFresh
<1> QED BY <1>1, InvHolds, PTL

\* A DistributedSocket that waits, for its connection, for the peer to pierce our firewall or
\* for a first message out of the reactor's sight, has the timer that ends the wait.
THEOREM WaitsAreTimed == Spec => []EveryWaitIsTimed
<1>1. Inv => EveryWaitIsTimed
  BY DEF Inv, Good, Timed, EveryWaitIsTimed
<1> QED BY <1>1, InvHolds, PTL

-----------------------------------------------------------------------------
(* What the parent knows of our depth. *)

\* The depth is told as children change it, whatever the depth of a tree is.
LEMMA TellDepthKnown ==
  ASSUME ParentKnowsDepth, TellDepth(children'), parent' = parent
  PROVE  ParentKnowsDepth'
BY DEF ParentKnowsDepth, TellDepth

LEMMA GoneKnown ==
  ASSUME ParentKnowsDepth, NEW s, Gone(s)
  PROVE  ParentKnowsDepth'
<1>1. CASE "parent" \in sockets[s].tells
  BY <1>1 DEF Gone, ParentKnowsDepth
<1>2. CASE "parent" \notin sockets[s].tells
  BY <1>2, TellDepthKnown DEF Gone
<1> QED BY <1>1, <1>2

LEMMA MessageKnown ==
  ASSUME ParentKnowsDepth, NEW s \in Sockets, NEW old, MessageFrom(s, old)
  PROVE  ParentKnowsDepth'
<1> USE SearchAssumption
<1>1. CASE LevelFrom(s, old)
  BY <1>1 DEF LevelFrom, ParentKnowsDepth
<1>2. CASE RootFrom(s, old)
  BY <1>2 DEF RootFrom, ParentKnowsDepth
<1>3. ASSUME NEW d \in Depths, DepthFrom(s, d, old) PROVE ParentKnowsDepth'
  <2>1. \/ TellDepth(children') /\ parent' = parent
        \/ UNCHANGED <<parent, children, parentTold>>
    BY <1>3 DEF DepthFrom
  <2> QED BY <2>1, TellDepthKnown DEF ParentKnowsDepth
<1>4. CASE OtherFrom(s, old)
  BY <1>4 DEF OtherFrom, ParentKnowsDepth
<1> QED BY <1>1, <1>2, <1>3, <1>4 DEF MessageFrom

\* Once we have told the parent our depth it knows it, however children come, go, update and
\* replace each other's connections.
THEOREM DepthKnown == Spec => []ParentKnowsDepth
<1>1. Init => ParentKnowsDepth
  BY DEF Init, ParentKnowsDepth
<1>2. ParentKnowsDepth /\ [Next]_vars => ParentKnowsDepth'
  <2> SUFFICES ASSUME ParentKnowsDepth, [Next]_vars PROVE ParentKnowsDepth'
    OBVIOUS
  <2>1. CASE UNCHANGED <<parent, children, parentTold>>
    BY <2>1 DEF ParentKnowsDepth
  <2>2. ASSUME NEW s, Gone(s) PROVE ParentKnowsDepth'
    BY <2>2, GoneKnown
  <2>3. ASSUME NEW s \in Sockets, NEW old, MessageFrom(s, old) PROVE ParentKnowsDepth'
    BY <2>3, MessageKnown
  <2>4. CASE parentTold' = {}
    BY <2>4 DEF ParentKnowsDepth
  <2>5. ASSUME NEW s \in Sockets,
               Connected(s) \/ FirewallPierceTimedOut(s) \/ \E u \in Users : Accepted(s, u) \/ ConnectToPeerRequested(s, u)
        PROVE  ParentKnowsDepth'
    BY <2>1, <2>5 DEF Connected, FirewallPierceTimedOut, Accepted, ConnectToPeerRequested
  <2>6. ASSUME NEW s \in Sockets, ConnectFailed(s) \/ ConnectionTimeout(s) \/ Lost(s)
        PROVE  ParentKnowsDepth'
    BY <2>2, <2>6 DEF ConnectFailed, ConnectionTimeout, Lost, CannotConnect, TryPassive, Disconnect
  <2>7. ASSUME NEW s \in Sockets, FirewallPierced(s) \/ MessageReceived(s)
        PROVE  ParentKnowsDepth'
    BY <2>3, <2>7 DEF FirewallPierced, MessageReceived
  <2>8. ASSUME NEW s \in Sockets, NEW t, DisconnectNow(s, t) PROVE ParentKnowsDepth'
    BY <2>2, <2>8 DEF DisconnectNow, Disconnect
  <2>9. CASE CannotConnectNotify
    BY <2>1, <2>2, <2>9 DEF CannotConnectNotify, Disconnect
  <2>10. CASE NetInfoReceived
    BY <2>4, <2>10 DEF NetInfoReceived
  <2>11. CASE LoggedIn
    BY <2>1, <2>11 DEF LoggedIn
  <2>12. CASE LoggedOut
    BY <2>12 DEF LoggedOut, ParentKnowsDepth
  <2>13. CASE UNCHANGED vars
    BY <2>1, <2>13 DEF vars
  <2> QED BY <2>5, <2>6, <2>7, <2>8, <2>9, <2>10, <2>11, <2>12, <2>13 DEF Next
<1> QED BY <1>1, <1>2, PTL DEF Spec

-----------------------------------------------------------------------------
(* The potential parents that are left behind. *)

\* The end of a socket makes no parent.
LEMMA GoneMakesNoParent ==
  ASSUME NEW s, Gone(s), parent = NoSocket
  PROVE  parent' = NoSocket
BY DEF Gone

\* Whoever becomes the parent stops the others.
LEMMA LevelStopsOthers ==
  ASSUME Inv, NEW old, \A x \in Sockets : old[x].user = sockets[x].user,
         old \in [Sockets -> Socket],
         NEW s \in Sockets, LevelFrom(s, old), parent = NoSocket, parent' # NoSocket,
         NEW u \in Users, potential[u] # NoSocket, u # sockets[parent'].user
  PROVE  sockets'[potential[u]].state \in {"down", "unused"}
<1> USE SearchAssumption
<1> DEFINE others == OthersThan(old[s].user)
           gone == Disconnected(others, old)
           new == Watched(s, "parent", gone)
           x == potential[u]
<1>1. parent' = s /\ Settle(new)
  BY DEF LevelFrom
<1>2. x \in Sockets /\ sockets[x].user = u
  BY DEF Inv, Good, Typed, PotentialGood
<1>3. x # s /\ x \in others
  BY <1>1, <1>2 DEF OthersThan
<1>4. gone[x] = [old[x] EXCEPT !.state = "down", !.polled = FALSE, !.waiting = FALSE]
  BY <1>2, <1>3 DEF Disconnected
<1>5. \A r \in Socket : [r EXCEPT !.state = "down", !.polled = FALSE, !.waiting = FALSE].state = "down"
  BY DEF Socket
<1> HIDE DEF gone
<1>6. new[x] = gone[x]
  BY <1>2, <1>3 DEF Watched
<1>7. new[x].state = "down"
  BY <1>2, <1>4, <1>5, <1>6
<1> HIDE DEF new
<1>8. sockets'[x] = new[x] \/ sockets'[x] = Unused
  BY <1>1, <1>2 DEF Settle
<1>9. Unused.state = "unused"
  BY DEF Unused, NewSocket
<1> QED BY <1>7, <1>8, <1>9

\* setParent: "We have found a parent: stop connecting to others".
THEOREM OthersStopped == Spec => OthersAreStopped
<1>1. Inv /\ [Next]_vars =>
        [parent = NoSocket /\ parent' # NoSocket =>
           \A u \in Users : potential[u] # NoSocket /\ u # sockets[parent'].user =>
              sockets'[potential[u]].state \in {"down", "unused"}]_vars
  <2> SUFFICES ASSUME Inv, Next, parent = NoSocket, parent' # NoSocket,
                      NEW u \in Users, potential[u] # NoSocket, u # sockets[parent'].user
               PROVE  sockets'[potential[u]].state \in {"down", "unused"}
    OBVIOUS
  <2>1. sockets \in [Sockets -> Socket]
    BY DEF Inv, Good, Typed
  <2>2. PICK s \in Sockets : FirewallPierced(s) \/ MessageReceived(s)
    <3>1. ASSUME NEW s, Gone(s) PROVE FALSE
      BY <3>1, GoneMakesNoParent
    <3>2. ASSUME NEW s \in Sockets, ConnectFailed(s) \/ ConnectionTimeout(s) \/ Lost(s) PROVE FALSE
      BY <3>1, <3>2 DEF ConnectFailed, ConnectionTimeout, Lost, CannotConnect, TryPassive, Disconnect
    <3>3. ASSUME NEW s \in Sockets, NEW t, DisconnectNow(s, t) PROVE FALSE
      BY <3>1, <3>3 DEF DisconnectNow, Disconnect
    <3>4. ~CannotConnectNotify
      BY <3>1 DEF CannotConnectNotify, Disconnect
    <3>5. ASSUME NEW s \in Sockets,
                 Connected(s) \/ FirewallPierceTimedOut(s) \/ \E v \in Users : Accepted(s, v) \/ ConnectToPeerRequested(s, v)
          PROVE  FALSE
      BY <3>5 DEF Connected, FirewallPierceTimedOut, Accepted, ConnectToPeerRequested
    <3>6. ~NetInfoReceived /\ ~LoggedIn /\ ~LoggedOut
      BY DEF NetInfoReceived, LoggedIn, LoggedOut
    <3> QED BY <3>2, <3>3, <3>4, <3>5, <3>6 DEF Next
  <2>3. PICK old \in [Sockets -> Socket] : /\ \A x \in Sockets : old[x].user = sockets[x].user
                                           /\ MessageFrom(s, old)
    <3>1. CASE MessageReceived(s)
      <4>1. SameRoles(WithoutTimer(s, "data"), sockets)
        BY WithoutTimerFacts
      <4>2. MessageFrom(s, WithoutTimer(s, "data"))
        BY <3>1 DEF MessageReceived
      <4> QED BY <4>1, <4>2 DEF SameRoles
    <3>2. CASE FirewallPierced(s)
      <4> DEFINE j == [sockets EXCEPT ![s].waiting = FALSE, ![s].state = "up",
                                      ![s].timers = (@ \ {"pierce"}) \union {"data"}]
                 r == [sockets[s] EXCEPT !.waiting = FALSE, !.state = "up", !.timers = (@ \ {"pierce"}) \union {"data"}]
      <4>1. MessageFrom(s, j)
        BY <3>2 DEF FirewallPierced
      <4>2. j = [x \in Sockets |-> IF x = s THEN r ELSE sockets[x]]
        BY <2>1
      <4>3. \A o \in Socket : LET n == [o EXCEPT !.waiting = FALSE, !.state = "up",
                                                !.timers = (@ \ {"pierce"}) \union {"data"}]
                              IN n \in Socket /\ n.user = o.user
        BY DEF Socket, Timers
      <4>4. r \in Socket /\ r.user = sockets[s].user
        BY <2>1, <4>3
      <4> HIDE DEF j, r
      <4>5. j \in [Sockets -> Socket] /\ \A x \in Sockets : j[x].user = sockets[x].user
        BY <2>1, <4>2, <4>4
      <4> QED BY <4>1, <4>5
    <3> QED BY <2>2, <3>1, <3>2
  <2>4. LevelFrom(s, old)
    BY <2>3 DEF MessageFrom, RootFrom, DepthFrom, OtherFrom
  <2> QED BY <2>3, <2>4, LevelStopsOthers
<1> QED BY <1>1, InvHolds, PTL DEF Spec, OthersAreStopped

-----------------------------------------------------------------------------
(* The types. That the depth of a tree is a number rests on the greatest *)
(* element of a finite set, and that on the least of any set of naturals. *)

\* A set of naturals that is not empty has a least element.
LEMMA LeastNatural ==
  ASSUME NEW T, T \subseteq Nat, T # {}
  PROVE  \E m \in T : \A n \in T : m <= n
<1> DEFINE R == OpToRel(<, Nat)
<1>1. IsWellFoundedOn(R, Nat)
  BY NatLessThanWellFounded
<1>2. \A m, n \in Nat : n < m => <<n, m>> \in R
  BY DEF OpToRel
<1> HIDE DEF R
<1>3. PICK m \in T : \A n \in T : ~(<<n, m>> \in R)
  BY <1>1, WFMin
<1>4. \A n \in T : m <= n
  <2> SUFFICES ASSUME NEW n \in T PROVE m <= n
    OBVIOUS
  <2>1. m \in Nat /\ n \in Nat /\ ~(<<n, m>> \in R)
    BY <1>3
  <2>2. ~(n < m)
    BY <1>2, <2>1
  <2> QED BY <2>1, <2>2
<1> QED BY <1>4

\* A finite set of naturals that is not empty has a greatest element.
LEMMA MaxType ==
  ASSUME NEW S, S \subseteq Nat, S # {}, IsFiniteSet(S)
  PROVE  Max(S) \in S
<1>0. PICK k \in Nat : ExistsSurjection(1 .. k, S)
  BY FS_NatSurjection
<1>1. PICK f \in [1 .. k -> S] : \A s \in S : \E i \in 1 .. k : f[i] = s
  BY <1>0 DEF ExistsSurjection, Surjection
<1>a. \A i \in 1 .. k : f[i] \in Nat
  OBVIOUS
<1> DEFINE Bound(b, j) == \A i \in 1 .. j : f[i] <= b
           T == {j \in 0 .. k : \A b \in Nat : ~Bound(b, j)}
<1>2. T = {}
  <2> SUFFICES ASSUME T # {} PROVE FALSE
    OBVIOUS
  <2>a. T \subseteq Nat
    OBVIOUS
  <2>1. PICK m \in T : \A n \in T : m <= n
    <3> HIDE DEF T
    <3> QED BY <2>a, LeastNatural
  <2>2. m \in 0 .. k /\ \A b \in Nat : ~Bound(b, m)
    OBVIOUS
  <2>3. m # 0
    <3>1. Bound(0, 0)
      OBVIOUS
    <3> HIDE DEF Bound, T
    <3> QED BY <2>2, <3>1
  <2>4. m \in 1 .. k /\ m - 1 \in 0 .. k /\ m - 1 < m
    BY <2>2, <2>3
  <2>5. m - 1 \notin T
    <3> HIDE DEF T
    <3> QED BY <2>1, <2>4
  <2>6. PICK b \in Nat : Bound(b, m - 1)
    BY <2>4, <2>5
  <2>7. f[m] \in Nat
    BY <1>a, <2>4
  <2>8. ASSUME NEW i \in 1 .. m PROVE f[i] <= b + f[m]
    <3>1. i \in 1 .. k /\ (i = m \/ i \in 1 .. m - 1)
      <4> HIDE DEF Bound, T
      <4> QED BY <2>4
    <3>2. f[i] \in Nat
      BY <1>a, <3>1
    <3>3. i = m \/ f[i] <= b
      BY <2>6, <3>1
    <3> HIDE DEF Bound, T
    <3> QED BY <2>7, <3>2, <3>3
  <2>9. Bound(b + f[m], m)
    BY <2>8
  <2>10. b + f[m] \in Nat
    <3> HIDE DEF Bound, T
    <3> QED BY <2>7
  <2> HIDE DEF Bound, T
  <2> QED BY <2>2, <2>9, <2>10
<1>3. PICK b \in Nat : \A s \in S : s <= b
  <2>1. k \in 0 .. k /\ k \notin T
    <3> HIDE DEF T
    <3> QED BY <1>2
  <2>2. PICK b \in Nat : Bound(b, k)
    <3> HIDE DEF Bound
    <3> QED BY <2>1
  <2> QED BY <1>1, <2>2
<1> DEFINE B == {c \in Nat : \A s \in S : s <= c}
<1>4. PICK m \in B : \A c \in B : m <= c
  <2>1. B \subseteq Nat /\ B # {}
    BY <1>3
  <2> HIDE DEF B
  <2> QED BY <2>1, LeastNatural
<1>5. m \in Nat /\ \A s \in S : s \in Nat /\ s <= m
  OBVIOUS
<1>6. m \in S
  <2> SUFFICES ASSUME m \notin S PROVE FALSE
    OBVIOUS
  <2>1. \A s \in S : s \in Nat /\ s < m
    BY <1>5
  <2>2. PICK s \in S : TRUE
    OBVIOUS
  <2>3. m - 1 \in Nat /\ \A x \in S : x <= m - 1
    BY <1>5, <2>1, <2>2
  <2>4. m - 1 \in B
    BY <2>3
  <2>5. m <= m - 1
    <3> HIDE DEF B
    <3> QED BY <1>4, <2>4
  <2> QED BY <1>5, <2>5
<1>7. \A s \in S : m >= s
  BY <1>5
<1>8. Max(S) \in S
  BY <1>6, <1>7 DEF Max
<1> QED BY <1>8

\* The depth of a tree is a natural number.
LEMMA ChildDepthType ==
  ASSUME NEW kids \in [Users -> ChildType]
  PROVE  ChildDepth(kids) \in Nat
<1> USE SearchAssumption
<1> DEFINE D == {kids[u].depth + 1 : u \in Listed(kids)}
<1>1. ASSUME NEW u \in Listed(kids) PROVE kids[u].depth + 1 \in Nat
  <2>1. kids[u] \in ChildType
    BY DEF Listed
  <2>2. kids[u].depth \in Depths
    BY <2>1 DEF ChildType
  <2>3. kids[u].depth \in Nat
    BY <2>2
  <2> HIDE DEF D
  <2> QED BY <2>3
<1>2. IsFiniteSet(Listed(kids))
  BY FS_Subset DEF Listed
<1>3. IsFiniteSet(D)
  <2>1. PICK n \in Nat : ExistsSurjection(1 .. n, Listed(kids))
    BY <1>2, FS_NatSurjection
  <2>2. PICK f \in [1 .. n -> Listed(kids)] : \A u \in Listed(kids) : \E i \in 1 .. n : f[i] = u
    BY <2>1 DEF ExistsSurjection, Surjection
  <2> DEFINE g == [i \in 1 .. n |-> kids[f[i]].depth + 1]
  <2>3. g \in Surjection(1 .. n, D)
    BY <2>2 DEF Surjection
  <2> QED BY <2>3, FS_NatSurjection DEF ExistsSurjection
<1>4. IsFiniteSet({0} \union D)
  BY <1>3, FS_Singleton, FS_Union
<1>5. {0} \union D \subseteq Nat
  BY <1>1
<1>6. Max({0} \union D) \in Nat
  <2> HIDE DEF D
  <2> QED BY <1>4, <1>5, MaxType
<1> QED BY <1>6 DEF ChildDepth

Told == parentTold \in SUBSET Nat /\ Cardinality(parentTold) <= 1

\* What the parent is told is nothing, what it knew, or the depth of a tree.
LEMMA ToldType ==
  ASSUME Told, NEW kids \in [Users -> ChildType],
         parentTold' = parentTold \/ parentTold' = {} \/ parentTold' = {ChildDepth(kids)}
  PROVE  Told'
<1>1. ChildDepth(kids) \in Nat
  BY ChildDepthType
<1>2. Cardinality({}) = 0 /\ Cardinality({ChildDepth(kids)}) = 1
  BY FS_EmptySet, FS_Singleton
<1>3. CASE parentTold' = parentTold
  BY <1>3 DEF Told
<1>4. CASE parentTold' = {}
  BY <1>2, <1>4 DEF Told
<1>5. CASE parentTold' = {ChildDepth(kids)}
  BY <1>1, <1>2, <1>5 DEF Told
<1> QED BY <1>3, <1>4, <1>5

\* Every variable holds values of its kind: among others, what the parent is told is a
\* number, however many children come and go.
THEOREM TypeCorrect == Spec => []TypeOK
<1> DEFINE J == Told /\ loggedIn \in BOOLEAN
<1>1. Init => J
  <2>1. Cardinality({}) = 0
    BY FS_EmptySet
  <2>2. Cardinality({}) <= 1
    BY <2>1
  <2>3. parentTold = {} => Told
    BY <2>2 DEF Told
  <2> QED BY <2>3 DEF Init
<1>2. Inv /\ Inv' /\ J /\ [Next]_vars => J'
  <2> SUFFICES ASSUME Inv, Inv', J, [Next]_vars PROVE J'
    OBVIOUS
  <2> DEFINE Before == parentTold' \in {parentTold, {}, {ChildDepth(children)}, {ChildDepth(children')}}
  <2>0. UNCHANGED parentTold => Before
    OBVIOUS
  <2>a. ASSUME NEW s, Gone(s) PROVE Before
    BY <2>a DEF Gone, TellDepth
  <2>b. ASSUME NEW s, NEW old, MessageFrom(s, old) PROVE Before
    <3>1. ASSUME NEW d, DepthFrom(s, d, old) PROVE Before
      BY <3>1 DEF DepthFrom, TellDepth
    <3>2. CASE LevelFrom(s, old)
      BY <3>2 DEF LevelFrom
    <3>3. CASE RootFrom(s, old)
      BY <3>3 DEF RootFrom
    <3>4. CASE OtherFrom(s, old)
      BY <3>4 DEF OtherFrom
    <3> QED BY <2>b, <3>1, <3>2, <3>3, <3>4 DEF MessageFrom
  <2> HIDE DEF Before
  <2>1. ASSUME NEW s \in Sockets,
               \/ Connected(s) \/ ConnectFailed(s) \/ ConnectionTimeout(s)
               \/ FirewallPierced(s) \/ FirewallPierceTimedOut(s) \/ Lost(s) \/ MessageReceived(s)
               \/ \E t \in {"data", "disconnectNow"} : DisconnectNow(s, t)
               \/ \E u \in Users : Accepted(s, u) \/ ConnectToPeerRequested(s, u)
        PROVE  Before /\ loggedIn' = loggedIn
    <3>1. CASE Connected(s) \/ FirewallPierceTimedOut(s) \/ \E u \in Users : Accepted(s, u) \/ ConnectToPeerRequested(s, u)
      BY <2>0, <3>1 DEF Connected, FirewallPierceTimedOut, Accepted, ConnectToPeerRequested
    <3>2. CASE ConnectFailed(s) \/ ConnectionTimeout(s) \/ Lost(s) \/ \E t \in {"data", "disconnectNow"} : DisconnectNow(s, t)
      BY <2>a, <3>2 DEF ConnectFailed, ConnectionTimeout, Lost, DisconnectNow, CannotConnect, TryPassive, Disconnect
    <3>3. CASE FirewallPierced(s) \/ MessageReceived(s)
      BY <2>b, <3>3 DEF FirewallPierced, MessageReceived
    <3> QED BY <2>1, <3>1, <3>2, <3>3
  <2>2. ASSUME CannotConnectNotify \/ NetInfoReceived \/ LoggedIn \/ LoggedOut \/ UNCHANGED vars
        PROVE  Before /\ loggedIn' \in BOOLEAN
    <3>1. Before
      <4>1. CASE CannotConnectNotify
        BY <4>1, <2>0, <2>a DEF CannotConnectNotify, Disconnect
      <4>2. CASE NetInfoReceived
        BY <4>2 DEF NetInfoReceived, Before
      <4>3. CASE LoggedIn \/ LoggedOut \/ UNCHANGED vars
        BY <4>3, <2>0 DEF LoggedIn, LoggedOut, vars
      <4> QED BY <2>2, <4>1, <4>2, <4>3
    <3>2. loggedIn' \in BOOLEAN
      BY <2>2 DEF CannotConnectNotify, NetInfoReceived, LoggedIn, LoggedOut, vars
    <3> QED BY <3>1, <3>2
  <2>4. Before /\ loggedIn' \in BOOLEAN
    BY <2>1, <2>2 DEF Next
  <2>3. children \in [Users -> ChildType] /\ children' \in [Users -> ChildType]
    BY DEF Inv, Good, Typed
  <2> QED BY <2>3, <2>4, ToldType DEF Before
<1>3. Inv /\ J => TypeOK
  BY DEF Inv, Good, Typed, ChildType, Told, TypeOK
<1> QED BY <1>1, <1>2, <1>3, InvHolds, PTL DEF Spec
=============================================================================
