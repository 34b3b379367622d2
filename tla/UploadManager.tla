---------------------------- MODULE UploadManager ----------------------------
(***************************************************************************)
(* The upload side of museekd: UploadManager, the Upload objects it keeps  *)
(* and their UploadSockets.                                                *)
(*                                                                         *)
(* museekd runs on one reactor thread, so a handler is never interleaved   *)
(* with another one, but it is re-entered: Upload::setState disconnects a  *)
(* socket, whose callback calls setState again, which calls checkUploads,  *)
(* which asks for a peer socket, whose callback may initiate an upload or  *)
(* take a whole user offline, all before the first setState assigns        *)
(* m_State. The variable "calls" is that call stack: the innermost pending *)
(* call first, each one the rest of a handler. An event of the outside     *)
(* (server, peer, timer, user) is taken only when the stack is empty; it   *)
(* pushes its handler, and the steps of the handler follow one by one.     *)
(***************************************************************************)
EXTENDS Naturals, Sequences, SequencesExt

CONSTANTS
  Users,       \* peers that download from us
  Uploads,     \* the (user, local path) pairs that may be requested
  UserOf,      \* [Uploads -> Users]
  NoUpload,    \* the null Upload pointer
  Privileged,  \* users served first: isPrivileged, or a buddy with privilege_buddies
  Slots,       \* values the config key transfers/upload_slots may take; 0: no limit
  AutoClears,  \* values autoclear_finished_uploads may have at the start
  Events       \* bound: the kinds of outside events an instance may take

ASSUME UploadAssumption ==
  /\ UserOf \in [Uploads -> Users]
  /\ NoUpload \notin Uploads
  /\ Privileged \subseteq Users
  /\ Slots \subseteq Nat /\ Slots # {}
  /\ AutoClears \subseteq BOOLEAN /\ AutoClears # {}

(***************************************************************************)
(* TrState (mutypes.h), the values an upload takes.                        *)
(***************************************************************************)
InitiatingStates == {"Waiting", "Establishing", "Initiating"}
ActiveStates     == InitiatingStates \union {"Transferring"}
SeveringStates   == {"QueuedLocally", "CannotConnect", "Aborted", "RemoteError", "LocalError"}
EndStates        == {"Finished", "ConnectionClosed"}
TrStates         == ActiveStates \union SeveringStates \union EndStates \union {"Offline"}

(***************************************************************************)
(* What m_Socket points to: nothing, a socket waiting for the peer's       *)
(* ticket connection (UploadSocket::wait), or one we connect ourselves     *)
(* (UserSocket::initiate then sendTicket).                                 *)
(***************************************************************************)
SocketKinds == {"none", "ticket", "connect"}

VARIABLES
  uploads,     \* m_Uploads, in queue order
  state,       \* Upload::m_State
  socket,      \* Upload::m_Socket
  complete,    \* Upload::m_Position >= Upload::m_Size
  replyTimer,  \* Upload::m_WaitingTimeout is in the reactor's queue
  replyDue,    \* the peer has a PTransferRequest with the current ticket to answer
  uploading,   \* m_Uploading
  initiating,  \* m_Initiating
  peer,        \* PeerManager::m_Peers: no entry, no socket yet, one being connected, connected
  loggedIn,    \* ServerManager::loggedIn()
  config,      \* upload_slots, banned, autoclear_finished_uploads
  calls        \* the pending calls, innermost first

objects  == <<uploads, state, socket, complete, replyTimer, replyDue>>
registry == <<uploading, initiating>>
world    == <<peer, loggedIn, config>>
vars     == <<objects, registry, world, calls>>

PeerStates == {"none", "asked", "connecting", "up"}

Loops == {"requeueOffline", "peerOffline", "logout"}

\* The kinds of pending call, each with its arguments.
Call ==
  [op : {"setState", "enterState"}, up : Uploads, st : TrStates]
    \union [op : {"disconnected", "release", "abortRest", "remove", "erase", "legacyRest"}, up : Uploads]
    \union [op : {"reply"}, up : Uploads, allowed : BOOLEAN, left : Nat]
    \union [op : {"check"}]
    \union [op : {"scan"}, i : Nat \ {0}, cand : Uploads \union {NoUpload}]
    \union [op : {"peerSocket", "initiate"}, user : Users]
    \union [op : {"loop"}, over : Loops, who : SUBSET Users, i : Nat \ {0}, end : Nat]

\* Each variable holds values of its kind, and m_Uploads lists no upload twice: add()
\* creates one only when findUpload knows none of this user and path.
TypeOK ==
  /\ uploads \in Seq(Uploads) /\ IsInjective(uploads)
  /\ state \in [Uploads -> TrStates]
  /\ socket \in [Uploads -> SocketKinds]
  /\ complete \in [Uploads -> BOOLEAN]
  /\ replyTimer \in [Uploads -> BOOLEAN]
  /\ replyDue \in [Uploads -> BOOLEAN]
  /\ uploading \in [Users -> Uploads \union {NoUpload}]
  /\ initiating \in [Users -> Uploads \union {NoUpload}]
  /\ peer \in [Users -> PeerStates]
  /\ loggedIn \in BOOLEAN
  /\ config \in [slots : Slots, banned : SUBSET Users, autoClear : BOOLEAN]
  /\ calls \in Seq(Call)

Init ==
  /\ uploads = <<>>
  /\ state = [u \in Uploads |-> "Offline"]
  /\ socket = [u \in Uploads |-> "none"]
  /\ complete = [u \in Uploads |-> FALSE]
  /\ replyTimer = [u \in Uploads |-> FALSE]
  /\ replyDue = [u \in Uploads |-> FALSE]
  /\ uploading = [x \in Users |-> NoUpload]
  /\ initiating = [x \in Users |-> NoUpload]
  /\ peer = [x \in Users |-> "none"]
  /\ loggedIn = TRUE
  /\ config \in [slots : Slots, banned : {{}}, autoClear : AutoClears]
  /\ calls = <<>>

-----------------------------------------------------------------------------
(* The call stack. *)

SetState(u, s)      == [op |-> "setState", up |-> u, st |-> s]
EnterState(u, s)    == [op |-> "enterState", up |-> u, st |-> s]
Disconnected(u)     == [op |-> "disconnected", up |-> u]
Release(u)          == [op |-> "release", up |-> u]
Reply(u, allowed, n) == [op |-> "reply", up |-> u, allowed |-> allowed, left |-> n]
CheckUploads        == [op |-> "check"]
Scan(i, cand)       == [op |-> "scan", i |-> i, cand |-> cand]
PeerSocket(x)       == [op |-> "peerSocket", user |-> x]
Initiate(x)         == [op |-> "initiate", user |-> x]
LoopFrom(over, who, i, end) == [op |-> "loop", over |-> over, who |-> who, i |-> i, end |-> end]
Loop(over, who)     == LoopFrom(over, who, 1, Len(uploads))

Idle == calls = <<>>
Top  == Head(calls)
Running(op) == ~Idle /\ Top.op = op

\* The running call returns, after the calls "now" have run.
Return(now) == calls' = now \o Tail(calls)

\* An event of the outside, whose handler runs the calls "now".
Event(kind, now) == kind \in Events /\ Idle /\ calls' = now

Known == Range(uploads)

\* setSocket(0): stop the socket if there is one, then forget it.
DropSocket(u) == IF socket[u] = "none" THEN <<>> ELSE <<Disconnected(u), Release(u)>>

\* setLocalError, setRemoteError and the handlers that do setSocket(0); setState(s).
Fail(u, s) == Append(DropSocket(u), SetState(u, s))

\* The body of UploadManager::abort, for an upload that exists.
AbortCalls(u) == Append(DropSocket(u), [op |-> "abortRest", up |-> u])

\* What arming (initiate) and cancelling (setSocket) make of the reply timers.
TimersUntouched(u) == replyTimer
Armed(u)     == [replyTimer EXCEPT ![u] = TRUE]
Cancelled(u) == [replyTimer EXCEPT ![u] = FALSE]

Busy == {x \in Users : uploading[x] # NoUpload}

FreeSlotsOffByOne == config.slots = 0 \/ Cardinality(Busy) <= config.slots
HasFreeSlots      == config.slots = 0 \/ Cardinality(Busy) < config.slots

-----------------------------------------------------------------------------
(* Upload::setState and the callbacks it triggers. *)

\* What onUploadUpdated makes of m_Uploading (m) when upload u is in state s.
ListedLeaky(m, u, s) ==
  IF s \in ActiveStates THEN [m EXCEPT ![UserOf[u]] = u]
  ELSE IF m[UserOf[u]] = u /\ s # "CannotConnect" THEN [m EXCEPT ![UserOf[u]] = NoUpload]
  ELSE m

Listed(m, u, s) ==
  IF s \in ActiveStates THEN [m EXCEPT ![UserOf[u]] = u]
  ELSE IF m[UserOf[u]] = u THEN [m EXCEPT ![UserOf[u]] = NoUpload]
  ELSE m

\* The same for m_Initiating, which a Transferring upload is not taken out of.
ListedInitiating(m, u, s) == IF s = "Transferring" THEN m ELSE Listed(m, u, s)

\* What follows the update event in setState.
AftermathOfFailure(u, s) ==
  (IF s \in ActiveStates THEN <<>> ELSE <<CheckUploads>>)
    \o (IF s \in {"Finished", "LocalError"} /\ config.autoClear THEN <<[op |-> "remove", up |-> u]>> ELSE <<>>)

AftermathOfEnd(u, s) ==
  (IF s \in ActiveStates \union {"RemoteError"} THEN <<>> ELSE <<CheckUploads>>)
    \o (IF s = "Finished" /\ config.autoClear THEN <<[op |-> "remove", up |-> u]>> ELSE <<>>)

Aftermath(u, s) ==
  (IF s \in ActiveStates THEN <<>> ELSE <<CheckUploads>>)
    \o (IF s = "Finished" /\ config.autoClear THEN <<[op |-> "remove", up |-> u]>> ELSE <<>>)

\* setState from the assignment of m_State on. For Finished, setPosition(size())
\* has emitted an update with the old state just before.
Enter(u, s) ==
  LET before == IF s = "Finished" THEN state[u] ELSE s
  IN  /\ state' = [state EXCEPT ![u] = s]
      /\ socket' = IF s \in SeveringStates \union EndStates
                     THEN [socket EXCEPT ![u] = "none"] ELSE socket
      /\ complete' = IF s = "Finished" THEN [complete EXCEPT ![u] = TRUE] ELSE complete
      /\ uploading' = Listed(Listed(uploading, u, before), u, s)
      /\ initiating' = ListedInitiating(ListedInitiating(initiating, u, before), u, s)
      /\ Return(Aftermath(u, s))
      /\ UNCHANGED <<uploads, replyTimer, replyDue, world>>

DoSetState ==
  /\ Running("setState")
  /\ LET u == Top.up
         s == Top.st
     IN  \/ /\ s = state[u]
            /\ Return(<<>>)
            /\ UNCHANGED <<objects, registry, world>>
         \/ /\ s # state[u] /\ s \in SeveringStates /\ socket[u] # "none"
            /\ Return(<<Disconnected(u), EnterState(u, s)>>)
            /\ UNCHANGED <<objects, registry, world>>
         \/ /\ s # state[u] /\ ~(s \in SeveringStates /\ socket[u] # "none")
            /\ Enter(u, s)

DoEnterState == Running("enterState") /\ Enter(Top.up, Top.st)

\* UploadSocket::onDisconnected.
DoDisconnected ==
  /\ Running("disconnected")
  /\ LET u == Top.up
     IN  Return(IF state[u] \in {"RemoteError", "LocalError"} THEN <<>>
                ELSE <<SetState(u, IF complete[u] THEN "Finished" ELSE "ConnectionClosed")>>)
  /\ UNCHANGED <<objects, registry, world>>

\* The assignment m_Socket = 0 of setSocket(0), after stop().
DoRelease ==
  /\ Running("release")
  /\ socket' = [socket EXCEPT ![Top.up] = "none"]
  /\ Return(<<>>)
  /\ UNCHANGED <<uploads, state, complete, replyTimer, replyDue, registry, world>>

-----------------------------------------------------------------------------
(* UploadManager::checkUploads. *)

\* The candidate of the scan is started, then the queue is checked again.
StartUploadLazily(u) == <<PeerSocket(UserOf[u]), CheckUploads>>
StartUpload(u)       == <<SetState(u, "Initiating"), PeerSocket(UserOf[u]), CheckUploads>>

Queued(u) == state[u] = "QueuedLocally"
Banned(u) == Queued(u) /\ UserOf[u] \in config.banned
StartableTwice(u) == Queued(u) /\ UserOf[u] \notin config.banned
Startable(u)      == Queued(u) /\ UserOf[u] \notin config.banned /\ uploading[UserOf[u]] = NoUpload

\* Positions of the queue the loop is not past, and those where it does more than
\* note a candidate: a banned user's upload is refused, a privileged one ends it.
Ahead(i)  == {j \in i .. Len(uploads) : Banned(uploads[j]) \/ Startable(uploads[j])}
Stops(i)  == {j \in Ahead(i) : Banned(uploads[j]) \/ UserOf[uploads[j]] \in Privileged}
Firsts(S) == {j \in S : \A k \in S : j <= k}

\* The candidate once the loop is past the startable positions S: the one it had, else
\* the first of them, else none.
LatestCandidate(cand, S) ==
  IF S = {} THEN {cand} ELSE {uploads[j] : j \in {j \in S : \A k \in S : j >= k}}

Candidates(cand, S) ==
  IF cand # NoUpload \/ S = {} THEN {cand} ELSE {uploads[j] : j \in Firsts(S)}

\* The loop from position i on, up to the next upload whose handling runs whole
\* handlers (setLocalError). The candidate is a pointer taken earlier in the loop.
ScanFrom(i, cand) ==
  \/ /\ Stops(i) = {}
     /\ \E c \in Candidates(cand, Ahead(i)) :
          Return(IF c = NoUpload THEN <<>> ELSE StartUpload(c))
  \/ \E j \in Firsts(Stops(i)) :
       \/ /\ ~Banned(uploads[j])
          /\ Return(StartUpload(uploads[j]))
       \/ /\ Banned(uploads[j])
          /\ \E c \in Candidates(cand, Ahead(i) \ (j .. Len(uploads))) :
               Return(Append(Fail(uploads[j], "LocalError"), Scan(j + 1, c)))

DoCheckUploads ==
  /\ Running("check")
  /\ \/ HasFreeSlots /\ ScanFrom(1, NoUpload)
     \/ ~HasFreeSlots /\ Return(<<>>)
  /\ UNCHANGED <<objects, registry, world>>

DoScan ==
  /\ Running("scan")
  /\ ScanFrom(Top.i, Top.cand)
  /\ UNCHANGED <<objects, registry, world>>

\* onPeerSocketUnavailable: the current upload to x, if there is one, fails.
UnavailableCalls(x) == IF uploading[x] = NoUpload THEN <<>> ELSE Fail(uploading[x], "CannotConnect")

\* onPeerSocketReady.
ReadyCalls(x) == <<Loop("requeueOffline", {x}), Initiate(x)>>

\* PeerManager::peerSocket, which every transfer calls with its default argument, force. A
\* socket is as good as ready while it is being connected. Without one, the server is asked
\* about the user; one known to be online is connected to, one known to be offline reported.
DoPeerSocket ==
  /\ Running("peerSocket")
  /\ LET x == Top.user
     IN  \/ /\ peer[x] \in {"connecting", "up"}
            /\ Return(ReadyCalls(x))
            /\ UNCHANGED peer
         \/ /\ peer[x] \in {"none", "asked"}
            /\ peer' = [peer EXCEPT ![x] = "asked"]
            /\ \/ Return(<<>>)
               \/ loggedIn /\ Return(<<Loop("peerOffline", {x})>>)
         \/ /\ peer[x] \in {"none", "asked"} /\ loggedIn
            /\ peer' = [peer EXCEPT ![x] = "connecting"]
            /\ Return(<<>>)
  /\ UNCHANGED <<objects, registry, loggedIn, config>>

\* The second half of onPeerSocketReady, and Upload::initiate: the file opens or not.
DoInitiate ==
  /\ Running("initiate")
  /\ LET u == uploading[Top.user]
         ready == IF u = NoUpload THEN FALSE ELSE state[u] = "Initiating"
     IN  \/ /\ ~ready
            /\ Return(<<>>)
            /\ UNCHANGED <<replyTimer, replyDue>>
         \/ /\ ready
            /\ \/ /\ "fileError" \in Events
                  /\ Return(Append(Fail(u, "LocalError"), CheckUploads))
                  /\ UNCHANGED <<replyTimer, replyDue>>
               \/ /\ replyTimer' = Armed(u)
                  /\ replyDue' = [replyDue EXCEPT ![u] = TRUE]
                  /\ Return(<<SetState(u, "Waiting"), CheckUploads>>)
  /\ UNCHANGED <<uploads, state, socket, complete, registry, world>>

-----------------------------------------------------------------------------
(* Loops over m_Uploads that call setState on the way. The end of the vector *)
(* is read once, before the first iteration.                                 *)

\* The uploads a loop touches, and the state it gives them.
Selected(over, who, u) ==
  /\ UserOf[u] \in who
  /\ CASE over = "requeueOffline" -> state[u] = "Offline"
       [] over = "peerOffline"    -> state[u] \in {"QueuedLocally"} \union InitiatingStates
       [] over = "logout"         -> /\ uploading[UserOf[u]] # u
                                     /\ state[u] \notin {"Finished", "Aborted", "Offline"}

LoopState(over) == IF over = "requeueOffline" THEN "QueuedLocally" ELSE "Offline"

\* Up to the next upload it selects. Past the end of a vector that shrank meanwhile
\* the loop reads no upload.
DoLoop ==
  /\ Running("loop")
  /\ LET hits == {j \in Top.i .. Top.end : j <= Len(uploads) /\ Selected(Top.over, Top.who, uploads[j])}
     IN  \/ hits = {} /\ Return(<<>>)
         \/ \E j \in Firsts(hits) :
              Return(<<SetState(uploads[j], LoopState(Top.over)), LoopFrom(Top.over, Top.who, j + 1, Top.end)>>)
  /\ UNCHANGED <<objects, registry, world>>

-----------------------------------------------------------------------------
(* Abort and remove. *)

DoAbortRest ==
  /\ Running("abortRest")
  /\ Return(IF state[Top.up] = "Finished" THEN <<>> ELSE <<SetState(Top.up, "Aborted")>>)
  /\ UNCHANGED <<objects, registry, world>>

DoRemove ==
  /\ Running("remove")
  /\ Return(IF Top.up \in Known
              THEN Append(AbortCalls(Top.up), [op |-> "erase", up |-> Top.up]) ELSE <<>>)
  /\ UNCHANGED <<objects, registry, world>>

\* The vector drops the upload; its object, and the timer bound to it, go with it.
DoErase ==
  /\ Running("erase")
  /\ LET u == Top.up
     IN  \/ /\ u \in Known
            /\ \E i \in 1 .. Len(uploads) : uploads[i] = u /\ uploads' = RemoveAt(uploads, i)
            /\ replyTimer' = [replyTimer EXCEPT ![u] = FALSE]
            /\ replyDue' = [replyDue EXCEPT ![u] = FALSE]
         \/ u \notin Known /\ UNCHANGED <<uploads, replyTimer, replyDue>>
  /\ Return(<<>>)
  /\ UNCHANGED <<state, socket, complete, registry, world>>

\* The end of onTransferRequested, direction 0: wait for the peer's ticket connection.
\* An upload that add() did not queue again (aborted, or failed locally) is served too.
DoLegacyRest ==
  /\ Running("legacyRest")
  /\ LET u == Top.up
     IN  \/ /\ u \in Known /\ HasFreeSlots /\ uploading[UserOf[u]] = NoUpload
            /\ socket' = [socket EXCEPT ![u] = "ticket"]
            /\ replyTimer' = Cancelled(u)
            /\ replyDue' = [replyDue EXCEPT ![u] = FALSE]
            /\ Return(<<SetState(u, "Establishing"), SetState(u, "Waiting")>>)
         \/ Return(<<>>) /\ UNCHANGED <<socket, replyTimer, replyDue>>
  /\ UNCHANGED <<uploads, state, complete, registry, world>>

-----------------------------------------------------------------------------
(* The reply to a transfer request. *)

\* How often UploadManager subscribes to the replies of a peer socket. Every initiate adds
\* a subscription and only the last one made, of whatever user, is remembered and taken
\* back, so that stale ones stay; a socket that replaces another has none. Bound: two, as
\* a third call does what the second does.
Subscriptions == 0 .. 2

\* onPeerTransferReplyReceived, for each subscription in turn. An upload that is gone, has
\* another ticket by now or no longer waits ignores the reply. An allowed one gets a new
\* socket, setSocket cancels its timer, the ticket is sent. setSocket stops the socket of
\* an earlier call, but that one is deleted when UserSocket::onDisconnected, the first to
\* be called, takes it out of the reactor, its only owner: it was made in this round, so
\* eventCallback has no copy of it. Its UploadSocket::onDisconnected is not called.
DoReply ==
  /\ Running("reply")
  /\ LET u == Top.up
         again == [Top EXCEPT !.left = @ - 1]
         awaited == Top.left > 0 /\ u \in Known /\ ~replyDue[u] /\ state[u] = "Waiting"
     IN  \/ ~awaited /\ Return(<<>>) /\ UNCHANGED <<socket, replyTimer>>
         \/ /\ awaited /\ Top.allowed
            /\ socket' = [socket EXCEPT ![u] = "connect"]
            /\ replyTimer' = Cancelled(u)
            /\ Return(<<SetState(u, "Establishing"), SetState(u, "Waiting"), again>>)
         \/ /\ awaited /\ ~Top.allowed
            /\ Return(Append(Fail(u, "RemoteError"), again))
            /\ UNCHANGED <<socket, replyTimer>>
  /\ UNCHANGED <<uploads, state, complete, replyDue, registry, world>>

-----------------------------------------------------------------------------
(* Events: requests of peers and of the local user. *)

\* findUpload.
NeverFound(u) == FALSE
Found(u)      == u \in Known

\* UploadManager::add, when the file is shared with this user (isUploadable). An empty
\* file is complete from the start.
Add(u, forced, rest) ==
  /\ UserOf[u] \notin config.banned
  /\ \/ /\ ~Found(u)
        /\ uploads' = Append(uploads, u)
        /\ state' = [state EXCEPT ![u] = "Offline"]
        /\ socket' = [socket EXCEPT ![u] = "none"]
        /\ \E empty \in BOOLEAN :
             /\ empty => "emptyFile" \in Events
             /\ complete' = [complete EXCEPT ![u] = empty]
        /\ calls' = <<SetState(u, "QueuedLocally")>> \o rest
     \/ /\ Found(u)
        /\ calls' = (IF forced \/ state[u] \notin {"Aborted", "LocalError"}
                       THEN <<SetState(u, "QueuedLocally")>> ELSE <<>>) \o rest
        /\ UNCHANGED <<uploads, state, socket, complete>>
  /\ UNCHANGED <<replyTimer, replyDue, registry, world>>

\* PQueueDownload, an upload or a folder pushed from the GUI, and PTransferRequest
\* (direction 0), in this order.
QueueRequested(u) == "queue" \in Events /\ Idle /\ Add(u, FALSE, <<>>)
UploadFile(u)     == "push" \in Events /\ Idle /\ Add(u, TRUE, <<>>)
LegacyRequest(u)  == "legacy" \in Events /\ Idle /\ Add(u, FALSE, <<[op |-> "legacyRest", up |-> u]>>)

AbortUpload(u) ==
  /\ u \in Known
  /\ Event("abort", AbortCalls(u))
  /\ UNCHANGED <<objects, registry, world>>

RemoveUpload(u) ==
  /\ u \in Known
  /\ Event("remove", <<[op |-> "remove", up |-> u]>>)
  /\ UNCHANGED <<objects, registry, world>>

-----------------------------------------------------------------------------
(* Events: peer sockets, transfer sockets, timers. *)

\* A peer socket of x is connected, by either side.
PeerReady(x) ==
  /\ Event("peer", ReadyCalls(x))
  /\ peer' = [peer EXCEPT ![x] = "up"]
  /\ UNCHANGED <<objects, registry, loggedIn, config>>

\* We start to connect to x: the server says x is online, or that x wants us to connect,
\* and then a socket there is gives way.
PeerConnecting(x) ==
  /\ loggedIn /\ peer[x] # "connecting"
  /\ Event("connecting", <<>>)
  /\ peer' = [peer EXCEPT ![x] = "connecting"]
  /\ UNCHANGED <<objects, registry, loggedIn, config>>

\* Another part of the daemon, a download for one, asks for a peer socket of x.
PeerAsked(x) ==
  /\ Event("asked", <<PeerSocket(x)>>)
  /\ UNCHANGED <<objects, registry, world>>

\* No connection can be made with x: our attempt failed; or the server says so of any
\* connection type, or a search that finds too many sockets open, whatever the state of
\* the peer socket.
PeerUnavailable(x) ==
  /\ Event("peer", UnavailableCalls(x))
  /\ peer' \in {peer, [peer EXCEPT ![x] = IF @ = "connecting" THEN "none" ELSE @]}
  /\ UNCHANGED <<objects, registry, loggedIn, config>>

\* The server reports x offline.
PeerOffline(x) ==
  /\ loggedIn
  /\ Event("offline", <<Loop("peerOffline", {x})>>)
  /\ UNCHANGED <<objects, registry, world>>

\* The peer socket of x closes: PeerManager unregisters it and tells nobody. One that is
\* being connected is closed by a notice of the server, after PeerUnavailable's calls
\* (bound: in a step of its own).
PeerLost(x) ==
  /\ peer[x] \in {"connecting", "up"}
  /\ Event("peerLost", <<>>)
  /\ peer' = [peer EXCEPT ![x] = "none"]
  /\ replyDue' = [u \in Uploads |-> replyDue[u] /\ UserOf[u] # x]
  /\ UNCHANGED <<uploads, state, socket, complete, replyTimer, registry, loggedIn, config>>

\* The peer answers the request of u: the event of the peer socket calls UploadManager
\* once for each of its subscriptions.
TransferReply(u, allowed) ==
  /\ replyDue[u] /\ peer[UserOf[u]] = "up"
  /\ \E n \in Subscriptions : Event("reply", <<Reply(u, allowed, n)>>)
  /\ replyDue' = [replyDue EXCEPT ![u] = FALSE]
  /\ UNCHANGED <<uploads, state, socket, complete, replyTimer, registry, world>>

\* The transfer socket is closed: by the peer, by the server's cannot-connect notice,
\* or by UploadSocket::dataTimeout.
SocketLost(u) ==
  /\ socket[u] # "none"
  /\ Event("socket", <<Disconnected(u)>>)
  /\ UNCHANGED <<objects, registry, world>>

\* UploadSocket::onCannotConnect: setState disconnects, then it disconnects once more.
SocketCannotConnect(u) ==
  /\ socket[u] = "connect" /\ state[u] # "Transferring"
  /\ Event("socket", IF state[u] \in {"RemoteError", "LocalError"} THEN <<>>
                     ELSE <<SetState(u, "CannotConnect"), Disconnected(u)>>)
  /\ UNCHANGED <<objects, registry, world>>

\* findPosition: the peer sends the offset to start from, 0 to the size of the file,
\* or one that is beyond it.
PositionReceived(u) ==
  /\ socket[u] # "none" /\ state[u] = "Waiting"
  /\ \/ Event("socket", Fail(u, "LocalError")) /\ UNCHANGED complete
     \/ /\ Event("socket", <<SetState(u, "Transferring")>>)
        /\ \E all \in BOOLEAN : complete' = [complete EXCEPT ![u] = all]
  /\ UNCHANGED <<uploads, state, socket, replyTimer, replyDue, registry, world>>

\* onDataSent, up to the last byte.
DataSent(u) ==
  /\ socket[u] # "none" /\ state[u] = "Transferring" /\ ~complete[u]
  /\ Event("socket", <<>>)
  /\ complete' = [complete EXCEPT ![u] = TRUE]
  /\ UNCHANGED <<uploads, state, socket, replyTimer, replyDue, registry, world>>

\* Upload::replyTimeout, 60 s after initiate.
ReplyTimeout(u) ==
  /\ replyTimer[u]
  /\ Event("timer", Fail(u, "CannotConnect"))
  /\ replyTimer' = [replyTimer EXCEPT ![u] = FALSE]
  /\ UNCHANGED <<uploads, state, socket, complete, replyDue, registry, world>>

-----------------------------------------------------------------------------
(* Events: the server connection and the configuration. *)

LoggedIn ==
  /\ ~loggedIn /\ loggedIn' = TRUE
  /\ Event("server", <<CheckUploads>>)
  /\ UNCHANGED <<objects, registry, peer, config>>

LoggedOut ==
  /\ loggedIn /\ loggedIn' = FALSE
  /\ Event("server", <<Loop("logout", Users)>>)
  /\ UNCHANGED <<objects, registry, peer, config>>

SetSlots(n) ==
  /\ n # config.slots
  /\ Event("slots", <<CheckUploads>>)
  /\ config' = [config EXCEPT !.slots = n]
  /\ UNCHANGED <<objects, registry, peer, loggedIn>>

\* onConfigKeySet, domain banned: the current upload fails, then the queue is checked.
Ban(x) ==
  /\ x \notin config.banned
  /\ Event("ban", Append(IF uploading[x] = NoUpload THEN <<>> ELSE Fail(uploading[x], "LocalError"), CheckUploads))
  /\ config' = [config EXCEPT !.banned = @ \union {x}]
  /\ UNCHANGED <<objects, registry, peer, loggedIn>>

\* onConfigKeyRemoved does nothing for the domain banned.
Unban(x) ==
  /\ x \in config.banned
  /\ Event("ban", <<>>)
  /\ config' = [config EXCEPT !.banned = @ \ {x}]
  /\ UNCHANGED <<objects, registry, peer, loggedIn>>

SetAutoClear(b) ==
  /\ b # config.autoClear
  /\ Event("autoClear", <<>>)
  /\ config' = [config EXCEPT !.autoClear = b]
  /\ UNCHANGED <<objects, registry, peer, loggedIn>>

-----------------------------------------------------------------------------

Step ==
  \/ DoSetState \/ DoEnterState \/ DoDisconnected \/ DoRelease
  \/ DoCheckUploads \/ DoScan \/ DoPeerSocket \/ DoInitiate \/ DoLoop
  \/ DoAbortRest \/ DoRemove \/ DoErase \/ DoLegacyRest \/ DoReply

UploadEvent(u) ==
  \/ QueueRequested(u) \/ UploadFile(u) \/ LegacyRequest(u)
  \/ AbortUpload(u) \/ RemoveUpload(u)
  \/ \E allowed \in BOOLEAN : TransferReply(u, allowed)
  \/ SocketLost(u) \/ SocketCannotConnect(u) \/ PositionReceived(u) \/ DataSent(u)
  \/ ReplyTimeout(u)

UserEvent(x) ==
  \/ PeerReady(x) \/ PeerConnecting(x) \/ PeerAsked(x) \/ PeerUnavailable(x)
  \/ PeerOffline(x) \/ PeerLost(x)
  \/ Ban(x) \/ Unban(x)

GlobalEvent ==
  \/ LoggedIn \/ LoggedOut
  \/ \E n \in Slots : SetSlots(n)
  \/ \E b \in BOOLEAN : SetAutoClear(b)

Next ==
  \/ Step
  \/ \E u \in Uploads : UploadEvent(u)
  \/ \E x \in Users : UserEvent(x)
  \/ GlobalEvent

Spec == Init /\ [][Next]_vars

\* A handler that was called runs to its end. Timers fire in between, however busy the
\* peers are: every round of the reactor fires the ones that are due. Only the two that
\* bound a wait are assumed to; a transfer socket is closed by its data timeout.
FairSpec ==
  /\ Spec
  /\ WF_vars(Step)
  /\ \A u \in Uploads :
       /\ SF_vars(ReplyTimeout(u))
       /\ SF_vars(state[u] = "Waiting" /\ SocketLost(u))
-----------------------------------------------------------------------------
(* Properties. *)

\* With nobody banned, the manager implements the abstract pool of upload slots, whatever
\* the nesting of its calls: the users of m_Uploading are the clients that hold one.
Pool == INSTANCE SlotPool WITH
          Clients <- Users, Limits <- Slots, busy <- Busy, limit <- config.slots

PoolSpec == Pool!Spec

\* isUploadingTo never returns an upload that is over, or another user's: an entry
\* left behind would keep the user waiting and a slot taken for ever.
ListedIsActive ==
  \A x \in Users : uploading[x] # NoUpload =>
    UserOf[uploading[x]] = x /\ state[uploading[x]] \in ActiveStates

\* An upload taken out of m_Uploads holds no slot.
ListedIsKnown == \A x \in Users : uploading[x] # NoUpload => uploading[x] \in Known

\* Every upload in progress is the one m_Uploading lists for its user, so a user has
\* at most one and each is counted against the slots.
ActiveIsListed == \A u \in Known : state[u] \in ActiveStates => uploading[UserOf[u]] = u

\* The candidate of a scan, a pointer into m_Uploads that is held across the handlers of
\* a refused upload, is still in the queue when the scan goes on.
CandidateIsKnown ==
  \A k \in 1 .. Len(calls) : calls[k].op = "scan" => calls[k].cand \in Known \union {NoUpload}

\* The reply timer of an upload never runs while a transfer socket is set: setSocket
\* cancels it, and it would cut the transfer (replyTimeout does setSocket(0)).
TimerExcludesSocket == \A u \in Uploads : replyTimer[u] => socket[u] = "none"

\* Between events, an upload that waits for the peer has a timeout pending: its reply
\* timer, or the data timeout of its socket.
EveryWaitHasATimeout ==
  Idle => \A u \in Known : state[u] = "Waiting" => replyTimer[u] \/ socket[u] # "none"

\* Between events, no upload that could start is left in the queue with a slot free:
\* every path that frees a slot, a user or an upload reaches checkUploads.
NoIdleSlot == Idle /\ HasFreeSlots => \A u \in Known : ~Startable(u)

\* checkUploads serves privileged users first, then in queue order.
StartsInOrder ==
  [][\A i, j \in 1 .. Len(uploads) :
       LET u == uploads[i]
           v == uploads[j]
           first == UserOf[u] \in Privileged
           other == UserOf[v] \in Privileged
       IN  /\ Queued(u) /\ state'[u] = "Initiating"
           /\ Startable(v)
           => (first \/ ~other) /\ (first = other => i <= j)]_vars

\* hasFreeSlots: no upload is listed for a user who had none while no slot is free.
SlotsRespected ==
  [][\A x \in Users : uploading[x] = NoUpload /\ uploading'[x] # NoUpload
       => config.slots = 0 \/ Cardinality(Busy) < config.slots]_vars

\* "Called when we didn't get the transfer reply": the reply timer never fires for an upload
\* whose transfer reply did come, one that the reply failed among them: nothing but a
\* reply that refuses the transfer makes an upload RemoteError.
TimeoutMeansNoReply ==
  [][\A u \in Uploads : ReplyTimeout(u) => state[u] # "RemoteError"]_vars

\* Every handler returns: the recursion of checkUploads through the callbacks of what it
\* starts (requeued, refused and offline uploads check the queue again) ends.
HandlersReturn == []<>Idle

\* An upload does not wait for its peer for ever, whatever the peer does.
EveryWaitEnds == \A u \in Uploads : state[u] = "Waiting" ~> state[u] # "Waiting"

-----------------------------------------------------------------------------
(* The invariant of the call stack that the proofs rest on: which calls may *)
(* be pending, and what they may still do to an upload.                     *)

\* States an upload leaves only when it is requested again, or on a logout.
DeadStates == TrStates \ (ActiveStates \union {"QueuedLocally", "Offline"})

Assigns(c, u) == c.op \in {"setState", "enterState"} /\ c.up = u
Progresses(c) == c.op \in {"setState", "enterState"} /\ c.st \in ActiveStates
HasNoCaller(c) == c.op \in {"legacyRest", "reply"} \/ (c.op = "loop" /\ c.over = "logout")
Aborts(c, u)  == (c.op = "abortRest" /\ c.up = u) \/ (Assigns(c, u) /\ c.st = "Aborted")
Revives(c, u) == (Assigns(c, u) /\ c.st \notin DeadStates) \/ (c.op = "scan" /\ c.cand = u)
Clears(c, u)  == \/ c.op \in {"disconnected", "release", "abortRest", "remove", "erase"} /\ c.up = u
                 \/ Assigns(c, u) /\ c.st = "Finished"

\* An upload in progress is in m_Uploads, and so is one about to be.
ActiveIsKnown == \A u \in Uploads : state[u] \in ActiveStates => u \in Known

\* A state of progress is entered at once, from the top of the stack; only a socket in
\* hand makes an upload Establishing and then Waiting.
ProgressOnTop ==
  \A k \in 1 .. Len(calls) : Progresses(calls[k]) =>
    /\ calls[k].up \in Known
    /\ k = 1 \/ (k = 2 /\ calls[1] = SetState(calls[2].up, "Establishing"))

\* The rest of a request, a reply and the loop of a logout have no caller.
BottomCalls ==
  \A k \in 1 .. Len(calls) : HasNoCaller(calls[k]) => k = Len(calls)

\* An upload about to be erased is about to be aborted, or over for good.
EraseIsSafe ==
  \A k \in 1 .. Len(calls) : calls[k].op = "erase" =>
    LET u == calls[k].up
    IN  \/ k > 1 /\ Aborts(calls[k - 1], u)
        \/ state[u] \in DeadStates /\ \A j \in 1 .. k - 1 : ~Revives(calls[j], u)

\* Nothing above a scan clears its candidate, which has no socket whose end would.
CandidateIsSafe ==
  \A k \in 1 .. Len(calls) : calls[k].op = "scan" /\ calls[k].cand # NoUpload =>
    LET u == calls[k].cand
    IN  /\ u \in Known /\ socket[u] = "none" /\ UserOf[u] \notin config.banned
        /\ \A j \in 1 .. k - 1 : ~Clears(calls[j], u)

\* A queued upload has no socket, except in the step that gives it one.
QueuedHasNoSocket ==
  \A u \in Uploads : Queued(u) /\ socket[u] # "none" =>
    calls # <<>> /\ calls[1] = SetState(u, "Establishing")

CallsInvariant ==
  /\ ListedIsActive
  /\ ActiveIsKnown
  /\ ProgressOnTop
  /\ BottomCalls
  /\ EraseIsSafe
  /\ CandidateIsSafe
  /\ QueuedHasNoSocket

-----------------------------------------------------------------------------
(* The invariant of the waits: a wait that loses its timeout is about to end. *)

\* A call after which u does not wait.
Ends(c, u) == \/ Assigns(c, u) /\ c.st # "Waiting"
              \/ c.op \in {"disconnected", "abortRest"} /\ c.up = u

Pending(list, u) == \E k \in 1 .. Len(list) : Ends(list[k], u)

\* A socket is released only on the way to an end.
Severed(list) ==
  \A k \in 1 .. Len(list) : list[k].op = "release" =>
    \E j \in k + 1 .. Len(list) : Ends(list[j], list[k].up)

\* An upload waits for its peer socket without a transfer socket.
InitiatingHasNoSocket ==
  \A u \in Uploads : state[u] = "Initiating" /\ socket[u] # "none" =>
    calls # <<>> /\ calls[1] = SetState(u, "Establishing")

\* The same when it is about to; and one about to wait has a timeout.
ProgressIsTimed ==
  \A k \in 1 .. Len(calls) : Progresses(calls[k]) =>
    LET u == calls[k].up
        s == calls[k].st
    IN  /\ s = "Initiating" => socket[u] = "none"
        /\ s = "Waiting" => replyTimer[u] \/ socket[u] # "none"
        /\ k = 2 => s = "Waiting"

WaitIsTimed ==
  \A u \in Known : state[u] = "Waiting" /\ ~replyTimer[u] /\ socket[u] = "none" => Pending(calls, u)

WaitsInvariant ==
  /\ TimerExcludesSocket
  /\ InitiatingHasNoSocket
  /\ ProgressIsTimed
  /\ Severed(calls)
  /\ WaitIsTimed

-----------------------------------------------------------------------------
(* The invariant of the slots, while nobody is banned: a scan is never left   *)
(* halfway then, so what it decides is done before anything else happens.     *)

NobodyBanned == config.banned = {}

NoScanPending == \A k \in 1 .. Len(calls) : calls[k].op # "scan"

\* An upload about to progress holds its user's slot, or one is free for it.
ProgressHasSlot ==
  \A k \in 1 .. Len(calls) : Progresses(calls[k]) =>
    LET u == calls[k].up
    IN  uploading[UserOf[u]] = u \/ (uploading[UserOf[u]] = NoUpload /\ HasFreeSlots)

\* The upload u at i of the queue goes before the one at j.
GoesBefore(i, j) ==
  LET first == UserOf[uploads[i]] \in Privileged
      other == UserOf[uploads[j]] \in Privileged
  IN  (first \/ ~other) /\ (first = other => i <= j)

\* An upload about to be started goes before all that could be.
StartIsNext ==
  \A k \in 1 .. Len(calls) : Progresses(calls[k]) /\ calls[k].st = "Initiating" =>
    \A i, j \in 1 .. Len(uploads) :
      uploads[i] = calls[k].up /\ Startable(uploads[j]) => GoesBefore(i, j)

CheckIsPending ==
  HasFreeSlots /\ (\E u \in Known : Startable(u)) => \E k \in 1 .. Len(calls) : calls[k].op = "check"

SlotsInvariant ==
  /\ NoScanPending
  /\ ActiveIsListed
  /\ ProgressHasSlot
  /\ StartIsNext
  /\ CheckIsPending
  /\ IsFiniteSet(Busy)
=============================================================================
