--------------------------- MODULE ServerConnection ---------------------------
(***************************************************************************)
(* ServerManager: the connection to the Soulseek server, the login, the    *)
(* timers that ping it and reconnect to it, and what the user asks for.    *)
(*                                                                         *)
(* The socket that the reactor has removed lives on until the end of the   *)
(* reactor's round, "dropped", and m_Socket is valid for as long.          *)
(***************************************************************************)
EXTENDS Naturals

CONSTANT MaxEvents   \* bound: how many things the user, the server or the network may do to us

ASSUME EventsAssumption == MaxEvents \in Nat

VARIABLES
  server,  \* the ServerManager
  config,  \* the configuration has a host, a port and a user name
  events   \* how many of these things may still happen

serverVars == <<server, config, events>>

SocketStates == {"none", "connecting", "connected", "dropped"}

Server == [socket : SocketStates,       \* m_Socket
           auto : BOOLEAN,              \* m_AutoConnect
           loggedIn : BOOLEAN,          \* m_LoggedIn
           answered : BOOLEAN,          \* the server has answered the login message
           reconnect : BOOLEAN,         \* m_ReconnectTimeout is pending
           pings : Nat]                 \* how many pingServer callbacks are pending

ServerInit ==
  /\ server = [socket |-> "none", auto |-> TRUE, loggedIn |-> FALSE, answered |-> FALSE,
               reconnect |-> FALSE, pings |-> 0]
  /\ config \in BOOLEAN
  /\ events = MaxEvents

Event == events > 0 /\ events' = events - 1

\* Variant for the mutation runs: the ping goes on without a connection.
EndedPinging(s) == [s EXCEPT !.socket = "dropped", !.loggedIn = FALSE, !.reconnect = @ \/ s.auto]

\* onDisconnected: a reconnection is armed unless it is our wish to be disconnected. The
\* ping that m_PingTimeout tracks, the last one armed, is cancelled.
Ended(s) ==
  [s EXCEPT !.socket = "dropped", !.loggedIn = FALSE, !.pings = IF @ = 0 THEN 0 ELSE @ - 1,
            !.reconnect = @ \/ s.auto]

\* Variant for the mutation runs: the wish is there before the reconnection is armed.
RefusedUnarmed(s) == [Ended([s EXCEPT !.auto = FALSE]) EXCEPT !.auto = s.auto]

\* onCannotConnect: the reconnection is armed before the socket is disconnected, as a
\* wish, which is forgotten.
Refused(s) == [Ended([s EXCEPT !.reconnect = @ \/ s.auto, !.auto = FALSE]) EXCEPT !.auto = s.auto]

\* connect: not while there is a socket, nor without a configuration.
Opened(s) ==
  IF s.socket # "none" THEN s
  ELSE IF config THEN [s EXCEPT !.socket = "connecting", !.auto = TRUE, !.loggedIn = FALSE, !.answered = FALSE]
  ELSE [s EXCEPT !.loggedIn = FALSE]

\* main, or a GUI, asks for a connection.
Connect ==
  /\ Event
  /\ server' = Opened(server)
  /\ UNCHANGED config

\* A GUI asks for none. A second request within the round would remove the socket from
\* the reactor twice, which it asserts never happens.
Disconnect ==
  /\ Event
  /\ server.socket # "dropped"
  /\ server' = IF server.socket = "none" THEN [server EXCEPT !.auto = FALSE]
               ELSE Ended([server EXCEPT !.auto = FALSE])
  /\ UNCHANGED config

Configure ==
  /\ Event
  /\ config' = ~config
  /\ UNCHANGED server

\* The timer of m_ReconnectTimeout. Bound: a round takes less than the 2 s of the timer,
\* which would find the dropped socket and not be armed again.
Reconnect ==
  /\ server.reconnect /\ server.socket # "dropped"
  /\ LET s == [server EXCEPT !.reconnect = FALSE]
     IN  server' = IF s.auto THEN Opened(s) ELSE s
  /\ UNCHANGED <<config, events>>

\* onConnected: the login message is sent.
Connected ==
  /\ server.socket = "connecting"
  /\ server' = [server EXCEPT !.socket = "connected"]
  /\ UNCHANGED <<config, events>>

CannotConnect ==
  /\ Event
  /\ server.socket = "connecting"
  /\ server' = Refused(server)
  /\ UNCHANGED config

\* onLoggedIn: the server takes the user in or, as an event, does not. A ping is armed
\* beside those that there are.
LoggedIn ==
  /\ server.socket = "connected" /\ ~server.answered
  /\ \E success \in BOOLEAN :
       /\ IF success THEN UNCHANGED events ELSE Event
       /\ server' = [server EXCEPT !.answered = TRUE, !.reconnect = FALSE, !.pings = @ + 1, !.loggedIn = success]
  /\ UNCHANGED config

\* onKicked: another client has logged in under our name; the server will hang up.
Kicked ==
  /\ Event
  /\ server.socket = "connected" /\ server.answered
  /\ server' = [server EXCEPT !.auto = FALSE]
  /\ UNCHANGED config

\* The connection is lost.
Lost ==
  /\ Event
  /\ server.socket = "connected"
  /\ server' = Ended(server)
  /\ UNCHANGED config

\* The server hangs up after a login it refuses and after a kick.
HungUp ==
  /\ server.socket = "connected" /\ server.answered
  /\ ~server.loggedIn \/ ~server.auto
  /\ server' = Ended(server)
  /\ UNCHANGED <<config, events>>

\* pingServer: the ping that fires arms the next one.
Ping ==
  /\ server.pings > 0
  /\ LET fired == [server EXCEPT !.pings = @ - 1]
     IN  server' = [fired EXCEPT !.pings = @ + 1]
  /\ UNCHANGED <<config, events>>

\* The reactor's round ends, and with it the last reference to the socket.
RoundEnds ==
  /\ server.socket = "dropped"
  /\ server' = [server EXCEPT !.socket = "none"]
  /\ UNCHANGED <<config, events>>

ServerNext ==
  \/ Connect \/ Disconnect \/ Configure \/ Reconnect \/ Connected \/ CannotConnect
  \/ LoggedIn \/ Kicked \/ Lost \/ HungUp \/ Ping \/ RoundEnds

\* The network and the server answer, the timer is due, the round ends.
ServerFairness == WF_serverVars(Connected \/ LoggedIn \/ Reconnect \/ RoundEnds \/ HungUp)

ServerSpec == ServerInit /\ [][ServerNext]_serverVars /\ ServerFairness

-----------------------------------------------------------------------------
(* Properties. *)

\* Each variable of ServerManager holds values of its kind.
ServerTypeOK ==
  /\ server \in Server
  /\ config \in BOOLEAN
  /\ events \in 0 .. MaxEvents

\* We are logged in only over a connection, which is then kept alive by a single chain of
\* pings that ends with it; no timer of an earlier connection is left to ping over it too, or
\* to reconnect.
LoginAnswered == server.socket = "connected" /\ server.answered
LoginIsKeptAlive ==
  /\ server.loggedIn => LoginAnswered
  /\ server.pings = IF LoginAnswered THEN 1 ELSE 0
  /\ LoginAnswered => ~server.reconnect

\* Once it has tried, and for as long as the configuration stays, museekd gets to the server
\* whatever the network does, unless its user or a kick has told it not to.
StaysOnline == []config => (server.socket = "connecting" ~> [](server.loggedIn \/ ~server.auto))
=============================================================================
