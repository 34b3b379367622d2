# A TLA+ model of museekd, the daemon of iSoul

iSoul is a SoulSeek client for the Mac: a daemon, `museekd` (C++, `src/Museek/museekd`), built on a
small reactor library, `NewNet` (`src/Museek/NewNet`), and a Cocoa application that drives it
(`src/iSoul/Code`). This directory holds TLA+ modules translated from the daemon's source, the TLC
instances that check them, and TLAPS proofs of what matters most.

## 1. Inventory

| part | source | state it keeps | operations and partners |
|---|---|---|---|
| Upload manager, uploads, upload sockets | `uploadmanager.cpp`, `uploadsocket.cpp` | queue `m_Uploads`; `m_Uploading`, `m_Initiating` per user; per upload `m_State`, `m_Socket`, `m_Position`, reply timer | requests of peers and GUI; peer-socket and server events; calls `PeerManager::peerSocket` |
| Download manager, downloads, download sockets | `downloadmanager.cpp`, `downloadsocket.cpp` | queue `m_Downloads`, `m_Downloading`, `m_Initiating`, `m_ContentsAsked`, save flags; per download state, socket, init timer, retry timer | GUI requests, transfer requests of peers, saved to disk |
| Transfer protocol | `peersocket.cpp`, `ticketsocket.cpp`, `handshakesocket.cpp` | messages in flight between two peers | queue request, transfer request, reply, ticket connection, offset, data |
| Peer connections | `peermanager.cpp`, `usersocket.cpp` | `m_Peers`, user status, waiting users, passive connections by token | active, passive and reverse connection attempts, timeouts, server relays |
| Distributed search | `searchmanager.cpp`, `distributedsocket.cpp` | parent, children, potential parents, branch level and root, pending results | tree messages, server messages |
| Server connection | `servermanager.cpp` | logged-in flag, reconnect, ping and clock-test timers | TCP connection, login, kicks |
| Reactor, sockets, events, rate limiter | `NewNet/` | sockets, timers, token bucket, reference counts | calls everything above, on one thread |
| Framing and marshalling | `messageprocessor.cpp`, `networkmessage.cpp` | receive buffer | splits a byte stream into messages |
| Configuration, shares | `configmanager.cpp`, `sharesdatabase.cpp` | key/value domains, folder tree | change notifications |
| GUI interface | `ifacemanager.cpp`, `ifacesocket.cpp` | sessions, challenges, masks | relays requests and events |
| Cocoa application | `iSoul/Code` | Core Data store, views | messages of the daemon |

The daemon has one thread. Nothing is interleaved at the level of instructions; what is hard is

* **re-entrancy**: `NewNet::Event` calls its subscribers synchronously. `Upload::setState` disconnects
  a socket, whose callback calls `setState` again, which checks the queue, which asks for a peer
  socket, which may report another user offline, all before the first call has assigned `m_State`;
* **pointers held across callbacks**: a candidate, an iterator, the end of a vector;
* **timers** that race the event they guard, and timers of an earlier attempt that are still armed;
* **peers and the server**, which answer late, twice, in another order or not at all, and connections
  that are lost or made from both sides at once;
* **limits** (slots, children, sockets) tested before and used after a chain of callbacks.

What makes each part correct: a slot is never given twice or lost, the registry lists exactly the
transfers in progress, no wait is endless, order of service (uploads, downloads); the two ends agree
on what was transferred (protocol); the registry of peers names a live socket (peer connections); the
tree has no stale parent or child and levels follow the parent's (search); one reconnection and one
ping is pending at a time (server); a cancelled timer does not fire and the bucket is never overdrawn
(NewNet); every message is delivered once and whole (framing).

## 2. Plan

The order is that of importance: first what gives a slot and moves a file, then what these stand on.

| step | modules | state |
|---|---|---|
| upload side: queue, slots, call stack | `UploadManager`, implementing `SlotPool` | modelled, its safety and the refinement proved in `UploadManager_proofs`, `UploadQueue_proofs` |
| download side: queue, slots, timers, disk | `DownloadManager` | modelled, its safety proved in `DownloadManager_proofs`, `DownloadQueue_proofs`, `DownloadDisk_proofs` |
| the protocol between the two sides | `Transfer`, implementing `FileTransfer` | modelled, safety and refinement proved in `Transfer_proofs` |
| connection to the server | `ServerConnection` | modelled, proved in `PeerManager_proofs` |
| registry and sockets of peers | `PeerManager`, composed with `ServerConnection` | modelled, safety proved in `PeerManager_proofs` |
| the search tree | `DistributedSearch` | modelled, safety proved in `DistributedSearch_proofs` |
| timer queue, token bucket, message splitter | none | not modelled, see section 7 |

What would come next: `PeerManager` in the place of the `peer` variables of the two managers; a rate limiter
and the timer queue of `NewNet`.

## 3. The modules

### UploadManager

`calls` is the C++ call stack: a sequence of pending calls, the innermost first. A step runs the call
on top up to the first call it makes itself and replaces it by that call and by the rest of the
handler (`Return`). An event from outside needs an empty stack and pushes its handler. So every
intermediate state in which the program may read or write shared state is a state of the model, and
nesting is as deep as the code makes it.

| code | model |
|---|---|
| `Upload::setState`, before / after the disconnection | `DoSetState`, `DoEnterState`, `Enter` |
| `UploadManager::onUploadUpdated` and the two maps | `Listed`, `ListedInitiating` |
| `checkUploads`, its loop and its continuation after `setLocalError` | `DoCheckUploads`, `DoScan`, `ScanFrom` |
| `UploadSocket::onDisconnected`, `setSocket(0)` | `DoDisconnected`, `DoRelease` |
| `PeerManager::peerSocket` | `DoPeerSocket` |
| `onPeerSocketReady`, `Upload::initiate` | `ReadyCalls`, `DoLoop`, `DoInitiate` |
| `onPeerTransferReplyReceived`, for each of its subscriptions | `TransferReply`, `DoReply`, `Subscriptions` |
| `abort`, `remove` | `AbortCalls`, `DoAbortRest`, `DoRemove`, `DoErase` |
| transfer request of an old client | `LegacyRequest`, `DoLegacyRest` |
| `UploadSocket` handlers, data timeout | `SocketLost`, `SocketCannotConnect`, `PositionReceived`, `DataSent` |
| `Upload::replyTimeout` | `ReplyTimeout` |
| login, logout, `upload_slots`, `banned`, auto-clear | `LoggedIn`, `LoggedOut`, `SetSlots`, `Ban`, `Unban`, `SetAutoClear` |

A reply may be handled more than once. Every `initiate` subscribes to the peer socket's replies
(`uploadmanager.cpp:355`), and `onPeerTransferReplyReceived` takes back only the last subscription made,
whichever user's it was (795-798). So `TransferReply` pushes the call `reply` for any number of
`Subscriptions`, none for a socket that has replaced the one subscribed to, and `DoReply` runs the handler
for one of them after the other; a second allowed handling finds the upload Waiting, makes another
`UploadSocket`, and `setSocket` stops the first. Stopping it does not reach the upload. That socket was made
a moment ago: the upload refers to it weakly (`uploadmanager.h:104`), and the reactor, which has the only
counted reference, made its copy of the list before this round's events (`nnreactor.cpp:234`). Of the
subscribers of its `disconnectedEvent` the first is `UserSocket::onDisconnected`, connected by the base
class's constructor (`usersocket.cpp:35`); it drops the entry in `m_PassiveConnects` and removes the socket
from the reactor, which deletes it. The deletion clears the object of the bound callbacks that are left
(`nnevent.h`, `onObjectDeleted`), so `UploadSocket::onDisconnected` does not run: the upload stays
Waiting, then is Establishing and Waiting again over its second socket, and keeps its slot throughout. A socket stopped
in a later round is still in the reactor's copy, and its `onDisconnected` runs (`DoDisconnected`).

Abstractions: an upload is named by its (user, path) pair; the position is kept as "all sent or not"
(`complete`); the peer's user status is left open at each use; tickets are not numbered, `replyDue` says that
the peer still has the current one to answer, which it does once. A file keeps its size between two openings.
Each outside event has a round of the reactor of its own, so that repeated replies are the only way to stop a
transfer socket in the round it was made in.

`Events` is a bound: the kinds of outside events an instance may take, so that an instance can afford
more uploads. One member names a choice inside a handler: `fileError` (a file cannot be opened).

`peer` follows `PeerManager::m_Peers`: no entry, an entry without a socket yet, a socket being
connected, a connected one. `peerSocket` treats the last two alike. Its refusal when half of the
reactor's sockets are in use needs `force = false`, which only searches pass: it is a
`PeerUnavailable` event here. Ourself as a peer (`initiateOurself`) is not modelled.

### DownloadManager

Built the same way: `calls` is the call stack, one step per call. Here `setState` assigns `m_State`
first and calls afterwards, so one action (`DoSetState`) does the assignment and the update event, and
`Aftermath` names what follows. On disk are the saved list (`hasFile`, `saved`), the incomplete files
(`whole`) and the download directory (`atDest`); `Restart` resets everything else, and `Crash` is
enabled in every state, in the middle of a handler too.

Saving may fail (`saveError`). When the temporary file cannot be opened, a write is seen to fail, or the
rename fails (`downloadmanager.cpp:1160-1164`, `1205-1215`, `1226-1229`), the old list stays; a write that
fails as late as `close()` is not noticed and a list that breaks off replaces the old one. Nobody hears of it,
and the next `checkDownloads` saves again: `unsaved` remembers that the last save failed, nothing in the code
reads it, and `SavedIsCurrent` is stated for the other states. It is also stated between events: a kill in the
middle of a handler loses what that handler changed. Loading has no way out in the middle: the
bail-outs at 1101-1105 and 1111-1119 test the results of `read_int`, `read_off` and `read_str` for 0, and those return -1 when
they fail (`util.h:98-186`), so that the missing entries of a short list are skipped as corrupted and loading goes on.

| code | model |
|---|---|
| `Download::setState`, `onDownloadUpdated` | `DoSetState`, `Aftermath`, `Listed` |
| `checkDownloads`, one iteration and its end | `DoCheckDownloads`, `Wanted`, `AskAndGoOn` |
| `PeerManager::peerSocket` and the three callbacks | `DoPeerSocket`, `ReadyCalls`, `UnavailableCalls`, `OfflineCalls` |
| second half of `onPeerSocketReady`, `enqueueDownload`, `askPendingEnqueuing` | `DoStart`, `Initiated`, `Arm` |
| loops of `onPeerSocketReady`, `onPeerOffline`, logout | `DoLoop`, `Selected`, `IterationCalls` |
| `add`, `abort`, `remove` | `DoAdd`, `DoAddRest`, `AbortCalls`, `DoAbortRest`, `DoRemove`, `DoErase` |
| transfer request of a peer, for a known and for a pushed file | `OfferReceived`, `PushReceived`, `PreemptCalls`, `DoOfferRest`, `DoPushRest`, `DoAccept`, `DoAttach` |
| `DownloadSocket` handlers | `TicketReceived`, `DataReceived`, `DoRename`, `SocketLost`, `DoDisconnected`, `DoClosed` |
| `initTimedOut`, `retry` | `InitTimedOut`, `Retry` |
| `loadDownloads`, `saveDownloads` | `DoLoad`, `DoLoadRest`, `DoLoadState`, `DoAllow`, `Save`, `ToSave` |

Abstractions: the position is kept as "at least the size or not" (`complete`), the incomplete file as
"whole or not", and every download has an incomplete file of its own. `m_Initiating`,
`m_EnqueuingPending`, `m_PlacesPending` and `m_ContentsAsked` decide only which messages are sent, and
are left out; folder contents may arrive whenever the peer is connected. Retry timers of one download
that are pending together fire as one; the init timers are told apart (`"tracked"` by
`m_InitTimeout`, or `"earlier"`). Auto-clear and auto-retry are fixed for an instance. `Lists` says
whether the file of the list exists at the first start: without it `loadDownloads` returns early and
leaves `m_AllowUpdate` false, and the properties are then about the sessions after it.
`Download::initiate` and `DownloadSocket::pickUp` are not modelled: nothing reaches them.

### DistributedSearch

Here a step is a whole handler. Callbacks do nest (`setParent` stops sockets, whose disconnection
calls back), but the sockets stopped in the middle of a handler have no subscriber that changes the
tree: `PotentialIsFresh` is that argument. The logout loop is the exception, and `LoggedOut` models
what its callbacks do to the map it iterates over.

| code | model |
|---|---|
| `branchLevelReceived`, `setParent` | `LevelFrom`, `OthersThan`, `LeftPotential`, `Watched` |
| `onBranchRootReceived`, `setBranchRoot` | `RootFrom` |
| `onChildDepthReceived`, `setChild`, `removeChild`, `childDepth` | `DepthFrom`, `Child`, `TellDepth`, `ChildDepth` |
| `disconnect`, `UserSocket::onDisconnected`, `onParentDisconnected`, `onChildDisconnected` | `Disconnect`, `Disconnected`, `Gone` |
| `onNetInfoReceived`, `onServerLoggedInStateChanged` | `NetInfoReceived`, `LoggedIn`, `LoggedOut` |
| active, then passive connection of a dialled peer | `Connected`, `ConnectFailed`, `ConnectionTimeout`, `TryPassive`, `FirewallPierced`, `FirewallPierceTimedOut`, `CannotConnectNotify` |
| connections from a peer, and to one that asks for it | `Accepted`, `ConnectToPeerRequested` |
| reference counting | `Settle`, `Free` |

`sockets` holds the `DistributedSocket` objects with what they are to the rest: whether the reactor
polls them, whether `m_PassiveConnects` refers to them, the timers armed, and which handlers of
`SearchManager` their disconnection calls (`tells`). `parentTold` is the depth of the last
`DChildDepth` sent to the parent we have.

`DistributedSocket::onFirewallPierceTimedOut` is not what its timer calls: `UserSocket` binds its own,
and the function is not virtual. `FirewallPierceTimedOut` therefore only ends the wait. A socket whose
firewall was pierced is not added to the reactor again, so that it hears what came with the pierce and
nothing more, and a minute later its data timer ends it. A full node refuses updates of its own
children too (`setChild` tests `acceptChildren` for both).

Abstractions: branch level and root are values passed on; searches, pending results, the wish list and
pings do not touch the tree; what is sent to the server (accept children, no parents, depth) is not
kept. A list of parents gives an address for each (0.0.0.0 is not modelled). At most one message
arrives together with a pierce. `Dialling` and `Firewalled` say which peers also come to us, and
`Sockets` bounds the objects alive together: an event that needs a new object waits for a free name.

### SlotPool

What the queue promises: a user holds at most one slot, a slot is given only while one is free, the
limit may change at any time and takes nothing back. `UploadManager` implements it with
`busy <- Busy` and `limit <- config.slots` (`PoolSpec`) as long as nobody is banned.

### Transfer

One file between two clients: the queue request, the transfer request and its reply on the peer
connection; the ticket, the offset and the data on the transfer connection; the timers and retries of
both ends. Here a step is a whole handler of one end: how handlers nest is the business of the two
managers. `toU` and `toD` are the messages on the peer connection, in order; `conn` has a transfer
connection for each ticket, with what is in flight on it.

| code | model |
|---|---|
| `UploadManager::onPeerQueueRequested`, `add` | `QueueReceived` |
| `checkUploads`, `Upload::initiate` | `Start`, `Initiated` |
| `onPeerTransferReplyReceived` | `ReplyReceived` |
| `UploadSocket`: connection, offset, data, end | `Dialled`, `CannotDial`, `OffsetReceived`, `DataSent`, `UploadSocketClosed`, `EndOf` |
| `Upload::replyTimeout`, `onPeerSocketUnavailable`, `abort` | `ReplyTimeout`, `DownloaderUnreachable`, `AbortUpload` |
| `DownloadManager::onTransferRequested` | `RequestReceived`, `OfferableStates` |
| `checkDownloads`, `add` | `Checked`, `Added`, `Asks`, `Asking` |
| `onQueueFailedReceived`, `onPeerSocketUnavailable` | `QueueRefused`, `UploaderUnreachable`, `Refused` |
| `TicketSocket`, `onTransferTicketReceived` | `TicketReceived`, `Awaited` |
| `DownloadSocket` | `DataReceived`, `DownloadSocketClosed`, `Disconnected` |
| `initTimedOut`, `retry`, `abort` | `InitTimedOut`, `Retry`, `AbortDownload` |
| `onPeerSocketReady`, `onPeerOffline` of both ends | `LinkMade`, `UploaderTold`, `DownloaderTold` |
| kill and restart | `CrashU`, `CrashD` |

Everything that need not happen is a fault (`Kinds`): a refused, lost or cut connection, a late timer, an
abort, a kill. An instance has `MaxFaults` of them, each of another kind, in any order and place. `Works`
is what happens by itself; `FairSpec` lets it go on.

A connection that is cut is `"reset"`, which both ends hear of, or `"silent"`, which neither does. A
connection whose ticket nobody waits for stays open at D with nobody to read it (`"deaf"`): the
`TicketSocket` is dropped and its descriptor is never closed. A crash of D may lose what was not flushed
of its copy.

Abstractions: a block is a number; the file keeps its size; the position U remembers may be one of an
earlier connection, as in the code. There is one init timer and one retry timer. A ticket is reused only
when nothing refers to it (`Used`), which the safety proofs do not need. `LinkMade` runs the
`onPeerSocketReady` of both ends in one step, and waits until the server has reported an end that went
offline. The downloader retries by itself (`auto-retry` on) and keeps finished downloads. U's
file may fail to open (`"unreadable"`); that it cannot be read or sought in once it is open is never noticed
(`Upload::read` tests `gcount()` for -1, `Upload::seek` the pointer to the file), nothing is sent then and the data timeout ends the
connection, as it does for a slow one. D's disk does not fail. Removal, pushed files and several files at once are left to the two managers; `PUploadFailed`,
which `museekd` handles and never sends, is left out.

The offset D sends is 64 bits wide, and `findPosition` puts it together from its bytes with shifts of an `int`
(`uploadsocket.cpp:205`). `Decoded` gives the positions this may read: the right one below `TwoGiB`; with
bit 31 set one that is extended by the sign and lies beyond any file, so that the upload fails with "File error"
(LocalError, which a queue request does not queue again, `uploadmanager.cpp:594`); and from `FourGiB` on, where the
shifts are as wide as the `int` and undefined, any position that is too small, or the one beyond the file. The
properties say for which resumptions they hold: `ResumedBelow(FourGiB)` for the copy and the
agreement, `ResumedBelow(TwoGiB)` for the delivery. A file of up to 4 GiB is never resumed beyond it, which is
`SmallFilesImplemented`.

`FileTransfer` is what the two ends promise together: the copy is at all times the beginning of the file,
grows by the next blocks, loses at most its tail, and is put in the download directory only when it is
whole. `Transfer` implements it as long as nothing is resumed from 4 GiB on (`CopySpec`).

### ServerConnection

`ServerManager` with its two timers. The socket the reactor has removed lives until the end of the round
(`"dropped"`), and `m_Socket` is valid as long: this is why `onCannotConnect` can arm the reconnection
and why a `connect` within the round does nothing.

| code | model |
|---|---|
| `connect`, `disconnect`, the configuration | `Connect`, `Opened`, `Disconnect`, `Configure` |
| `onConnected`, `onCannotConnect`, `onDisconnected` | `Connected`, `CannotConnect`, `Refused`, `Lost`, `HungUp`, `Ended` |
| `onLoggedIn`, `onKicked`, `pingServer` | `LoggedIn`, `Kicked`, `Ping` |
| the reconnection timer, the end of a reactor round | `Reconnect`, `RoundEnds` |

`MaxEvents` bounds what the user, the network and the server do to us; what they do for us is not
bounded. A second `disconnect` within one round would trip the assertion of `nnreactor.cpp:151`, and is
left out; the reconnection timer, of 2 s or more, does not fire within the round it was armed in. `pings`
counts the pending `pingServer` callbacks: a login adds one, and the end of the connection cancels the one
`m_PingTimeout` names. The server answers a login message once.

### PeerManager

The registry `m_Peers` and the `PeerSocket` objects, over the server connection, which the module extends:
a question to the server is answered only as long as the connection it was asked over.

| code | model |
|---|---|
| `peerSocket`, `requestUserData`, `createPeerSocket` | `Ask`, `AskInVain`, `PeerSocket`, `Requested`, `Created` |
| `addPeerSocket`, `removePeerSocket`, `onDisconnected` | `Added`, `Erased`, `Disconnected` |
| `onServerAddUserReceived`, `onServerUserStatusReceived` | `AddUserReceived`, `UserStatusChanges`, `Told` |
| `UserSocket::initiateActive`, `onServerPeerAddressReceived` | `Active`, `AddressReceived` |
| `initiatePassive`, `onFirewallPierced`, `onFirewallPierceTimedOut`, `onCannotConnectNotify` | `Passive`, `Pierced`, `PierceTimedOut`, `CannotConnectNotify` |
| `UserSocket::onConnected`, `onCannotConnect`, reverse connections | `PeerConnected`, `PeerCannotConnect`, `Refusals`, `Struck` |
| incoming connections, `onServerConnectToPeerRequested` | `Accepted`, `ConnectToPeerRequested` |
| the ten seconds of `m_LastStatusTime` | `recent`, `Forget` |

A handler is an operator from a `Manager` record to the next, so that handlers that call one another are
composed as in the code; `Becomes` makes the result the state and destroys what was closed on the way.
Two sets hold the exceptions the properties name, and nothing in the code reads them:

* `unheard`: users a transfer manager waits for whose question was lost, not sent or answered with "no
  such user" (`peermanager.cpp:284` returns without an event), or whose registry entry was struck out. `m_UserStatus` and
  `m_LastStatusTime` survive a lost server connection, so that what they say may be stale and no new
  question is asked for ten seconds;
* `refused`: users whose reverse connection has failed. `onCannotReverseConnect` disconnects the socket a
  second time (`usersocket.cpp:187`), and the registry entry is erased by the user's name: when a manager
  has asked for a new socket in between, it is the new one's entry that goes, and the user may then get a
  second socket, which `peermanager.cpp:196` means to exclude.

The wait for an address has no timer (`usersocket.cpp:88`); `onCannotConnectNotify` takes every socket out
of `m_PassiveConnects`, whatever the token in the message (`usersocket.cpp:136`): their waits then end by
their timers. A question while we are not logged in is treated as one that goes unanswered. `truth` is
what the server knows of a user, `"none"` if there is none of that name. `Room` bounds the objects that
exist at once. The connection to ourself and what the sockets carry are not modelled.

## 4. Runs

| run | instance | shows |
|---|---|---|
| `upload_queue` | 2 users, 3 uploads, one user privileged, limits 1 and 2, replies handled up to twice, logins, offline peers, no bans | no idle slot, order of service, everything in progress is listed, refinement of `SlotPool` |
| `upload_scan` | 2 users with an upload each, bans, removals, failures, old clients, auto-clear, every timer, replies handled up to twice | types, registry, the scan's candidate, the reply timer against the socket, a timeout for every wait, the call-stack invariant of the proofs |
| `upload_live` | 1 user, 2 uploads, aborts, peers that come and go, fair timers | handlers return, waits end |
| `upload_reply_timer` | 1 upload | finding: the reply timer fires although the reply came and refused the upload |
| `upload_ban` | 3 users, limit 1 | finding: a ban met during a scan overcommits the slots |
| `download_disk` | 1 user, 2 downloads, limit 1, auto-clear and auto-retry, file errors, failing saves, kill at any step | types, registry, the saved list is what a restart needs unless the last save failed |
| `download_peers` | 1 user, 2 downloads, no limit and limit 1, peers and server come and go, logouts, fair timers | nothing left unasked, every initiation has a timeout and ends, handlers return |
| `download_delivery` | 1 download, crash | finding: a finished download that was never moved |
| `transfer` | files of 0 and 4 blocks, 2 GiB being 2 of them and 4 GiB 3, 3 tickets, any 3 faults of the 15 kinds | one writer; below 4 GiB the copy is the beginning of the file (`FileTransfer`) and both ends agree on the position; the transfer settles; below 2 GiB the retries suffice for the faults they are for |
| `connections` | 1 user, 3 sockets, 3 events | registry and sockets, pings and reconnection, every request answered, every attempt ends |
| `search_tree` | 2 peers that may also come to us, 3 sockets, 2 children at most | parent and children are live connections, the parent knows our depth, rivals are stopped, every wait has a timer |
| `search_parent` | 2 potential parents, 2 sockets | finding: the end of a former parent's connection drops the present one |

The bounds. Two uploads to one user are the least for competition inside a user, two users the least
for competition for an upload slot (downloads compete for a slot inside one user as well: an offer is
refused while the user's other download holds the only one), three (in `upload_ban`) the least for a
candidate, a banned upload and one that takes the slot in between. The stack is not bounded: it is finite
because the handlers return, which `upload_live` and `download_peers` check. Timers left from an earlier
initiation are bounded to one besides the tracked one.

In `transfer` four blocks are the least for resumptions at each of the three sizes (one block is decoded rightly, two
are refused, three are misread), and an empty file is the case in which neither end waits for data; three tickets allow a transfer, a late
connection of the one before and an offer under way, and three faults the combinations of a loss, a crash
and a timer. In `connections` three sockets are the least for a registered one, its replacement and one
that is asked for from within a callback; more users are independent of each other except for the one a
manager asks for from there. Three events reach a connection that is lost, refused and forbidden in turn.
In `search_tree` three sockets are the least for a parent and a child that
connects twice, or for two rivals and a child; `ChildrenMax` is 2 (3 in the code): both
peers may be children, and then the limit is met. The depths the children report are all 0 there;
`DepthKnown` is proved for any. Symmetry exchanges the sockets and the
peers of the search tree, the users of `upload_scan` and the uploads or downloads of one user, and is
used in safety runs only.

`CHECK_DEADLOCK FALSE` stands where the system may rest: when nothing is asked of it, or when the bound on
events or faults is used up.

Fairness, and nothing else, is assumed of what makes progress:

* the handler that runs goes on (`WF_vars(Step)`: a C++ call returns control);
* the reactor fires due timers on every round, however busy the peers keep it: strong fairness of
  `ReplyTimeout` (60 s after `initiate`), of the data timeout of a socket that waits (120 s in
  `UploadSocket::wait`, 60 s in `sendTicket`), and of `InitTimedOut` (10 s after a download became
  Initiating); strong, because the event is taken between handlers, and other events keep coming. In the
  two managers nothing is assumed of peers, server or user;
* `Transfer`: as long as anything can go on without a fault, something does (`WF_vars(Works /\ UNCHANGED
  faults)`). That a user aborts or adds again, and every fault, is left to chance;
* `ServerFairness`: connecting comes to a result, the server answers a login and hangs up after a kick or
  a refusal, the reconnection timer fires, a round ends;
* `PeerFairness`: the server answers what it was asked for as long as the connection lasts, the timers of
  60 s and 120 s fire, a socket nobody uses is closed after 130 s. Peers are assumed nothing of: that one
  pierces our firewall or connects is never required.

## 5. Findings

* **Stale reply timer** (`uploadmanager.cpp:370`): `m_WaitingTimeout` is cancelled only when a socket is
  set or the upload is initiated again, and is documented as what runs "when we didn't get the transfer
  reply". A reply that refuses the transfer does neither: the upload is RemoteError, and its timer moves it
  to CannotConnect all the same. One aborted or queued again while it waited meets the same end.
* **Slots overcommitted by a ban** (`uploadmanager.cpp:548`): the scan tests `hasFreeSlots` once. When it
  meets a banned user's upload it calls `setLocalError`, whose nested check takes the slot; the scan
  then starts the candidate it had noted.

* **Finished but not delivered** (`downloadsocket.cpp:100`): `finish` is documented as what is called
  when a download is complete, and is what moves the file. `onDisconnected` sets Finished by itself when
  the position has reached the size. A kill between the last byte and the move leaves a whole incomplete
  file; the next session reads the position from it, the peer closes with nothing to send, and the
  download is Finished, drops out of the saved list and stays in the incomplete directory.
* **New parent lost with the old one's connection** (`searchmanager.cpp:451`): a new list makes
  `onNetInfoReceived` forget the parent but not its connection, which stays subscribed. When it closes,
  after one of the list has become the parent, `onParentDisconnected` drops the new one. Nothing closes
  the new one's connection, and it is no longer a potential parent.

Four more behaviours are exceptions that a property names instead of findings, since no line promises
otherwise or the promise is only implied: the ways a transfer halts for good (`Forgotten`, `Stranded`,
`Deaf`, `Unmoved` in `Settles`: the downloader has no timeout for its place in the queue, for a ticket it
has been promised, nor for the first block); the offsets of 2 GiB and more that are misread (`ResumedBelow`); the failed reverse connection that strikes its successor's entry (`refused`); the questions that are lost
with the server connection (`unheard`).

## 6. Proofs

All theorems hold for every value of the constants that meets the module's assumption
(`UploadAssumption`, `DownloadAssumption`, `TransferAssumption`, `EventsAssumption`, `PeerAssumption`,
`SearchAssumption`),
which say that the sets are disjoint from the null values and that the bounds are natural numbers, and which
the runs evaluate. Nothing else is assumed. Each module proves one inductive invariant, with a lemma per
action or per operator of a handler; the properties follow from it.

**Uploads.** `UploadManager_proofs` proves `TypeCorrect` and `CallsCorrect`: the conjunction `CallsInvariant`
is inductive. `ListedIsActive` is not inductive by itself: a pending
`enterState` may assign any state to an upload the registry lists meanwhile. The invariant therefore
says what the stack may hold:

* `ProgressOnTop`: a state of progress is assigned only by the call on top of the stack;
* `BottomCalls`: the rest of a request, a reply and the loop of a logout have no caller, so nothing is pending
  below them;
* `EraseIsSafe`: an upload about to be erased will be aborted just before, or is in a dead state and
  nothing above can revive it;
* `CandidateIsSafe`: nothing above a scan erases its candidate;
* `QueuedHasNoSocket`, `ActiveIsKnown`: so that a queued upload is never ended by a socket of its own.

`StackShape`, `StackKept` and `GoodReturn` reduce a handler step to
the calls it pushes, `GoodCalls` and `EventStack` an event to the calls of its handler.
`ListingCorrect`, `ListingKnown` and `CandidateCorrect` follow.

`UploadQueue_proofs` goes on from there with two more inductive invariants. The steps of the handlers and
the events are first put into a few kinds by what they leave on the stack (`StepKinds`: `Passes`, `Assigning`,
`Starting`, `Asking`, `Serving`, `Releasing`, `Erasing`; `Happened`: `Calm`, `Adding`, `Taking`, `Going`), and
each invariant is shown to be kept by each kind.

* `WaitsInvariant`, for `TimerCorrect` (`TimerExcludesSocket`) and `WaitsTimed` (`EveryWaitHasATimeout`). In the
  middle of a handler a wait may be without a timeout: `setSocket(0)` drops the socket, and `replyTimeout` the timer,
  before the state changes. `WaitIsTimed` says that then a call which ends the wait is pending, `Severed` that one is
  behind every `release`, `ProgressIsTimed` that an upload about to wait has its timer or socket already and
  that one about to be initiated has no socket, which is why arming its timer is safe.
* `SlotsInvariant`, for `ActiveListed`, `SlotsUsed` (`NoIdleSlot`), `OrderKept` (`StartsInOrder`) and
  `PoolImplemented`, the refinement of `SlotPool`. `ProgressHasSlot` says that an upload about to progress is the one
  listed or finds a slot free, `StartIsNext` that one about to be started goes before all that could be,
  `CheckIsPending` that as long as a slot is free and an upload could start, a check of the queue is on the stack.
  `AssigningListing` shows that the two updates of a finished upload amount to one, `PoolStep` that an
  assignment of m_State is an `Acquire`, a `Yield` or a stutter, and a change of the configured limit a `Resize`.

The theorems of the slots have `[]NobodyBanned` as a hypothesis: a ban lets a scan go on with a candidate
whose user may have got an upload meanwhile (the finding of `upload_ban`). The hypothesis is met by every
behaviour in which no user is banned, whatever else happens; `NobodyIsBanned` proves it of the specification
without the event.

**Downloads.** `DownloadManager_proofs` proves `TypeCorrect`: the list holds no download twice (`ListGrows`,
`ListShrinks`), what handlers push are calls, and what is saved is a list of entries. The last needs
that the recursive function of `ToSave` exists: `WrittenExists` shows, with `LeastNatural` in the place of
an induction, that some function satisfies its equation on every prefix of the list; `ToSaveType` follows.
The same module proves `InitiationsAreTimed`. `EveryInitiationHasATimeout` is not inductive, since
setSocket(0) removes the timer before the state changes. The invariant adds `InitiationTimed` (an Initiating
download without a timer has a call pending that ends the initiation) and `Timed` of the stack: no
pending call makes a download Initiating, and each `release` has such a call behind it. `MoreTimed`, `TimedTail` and
`DropTimed` are about lists of calls; `ReturnKeeps`, `QuietReturn` and `EventKeeps` reduce a step to what it pushes.

The other three invariants hold between events because of calls that are still to run in the middle of one. So
`DownloadQueue_proofs` starts with what the stack may hold (`StackInvariant`): only nested calls (checks, loops,
assignments short of an end) are above a call that is in the middle of the list (`PartialIsCovered`); no other
call waits for the last step of a handler (`LastIsLast`); an active state is assigned at the end of a handler
(`ProgressIsLast`); a download about to be erased is aborted just before, or is dead and stays so (`EraseIsSafe`);
one that loses its mark gets its next state while we are logged in (`Requeued`). Lists of calls that any handler may push
are `Tame`; `OuterStep`, `NestedStep` and `TameEvent` reduce a step to that. Three inductive invariants stand on it:

* `Listing`, for `ListingIsActive` (`ListedIsActive`): whoever is listed is in `m_Downloads`, a download that is not
  there is in no active state, and the calls that will list a download (`Uses`) are about one of which that holds.
* `UnaskedIsServed`, for `NothingStaysUnasked` (`NothingUnasked`): while we are logged in and may update, each download to
  be asked for has a call pending that serves it (`Servers`: a check that has not passed it, a peer socket or a start
  for its user, a call that will set its state). This is where `PartialIsCovered` is needed: a check or a loop in
  the middle of the list serves what is behind its position only as long as the list does not move.
* `Disk`, in `DownloadDisk_proofs`, for `SavedStaysCurrent` (`SavedIsCurrent`): the list saved is right, the
  last save failed, or a call that saves it is pending (`SavePending`). An assignment of an active state is not saved, so a download that is
  aborted must not be taken while its data is missing (`TakenIsKept`); and what is Finished or complete must have
  its data on disk (`FinishedIsSettled`, `CompleteIsSettled`, except in the middle of `add`, and `WholeIsComplete`).
  `SavedEntries` says which entries `ToSave` writes, from the same least-number argument as `ToSaveType`.

**Transfer.** The copy is the beginning of the file only as long as one connection at most is written to
it and that one carries the next blocks. The invariant is `TypeOK`, `Wired` (`ConnGood` of each
connection: an open end of D is the socket of the download in progress, the blocks under way continue the
copy, and U's position is where they end unless the connection is cut), `DownGood` (a download in progress
has the socket of its ticket, and none is in progress once the file is delivered) and `CopyGood`. What it says of
the blocks under way (`Fed`) is about connections that were resumed below 4 GiB, for which `DecodedRight` shows
that the position U reads is the one D sent; for the others only the types and the single writer are left, and the
condition of the refinement excludes them. It does not
mention the peer connection: whatever replies and requests arrive, repeated or late, the copy stays good.
`TypeCorrect`, `OneWriterHolds` and `EndsAgreeHolds` are its conjuncts; `WriteImplemented` (a block received is
a `Write`), `LossImplemented` (a crash is a `LoseTail` or a stutter) and `StepImplemented` give
`CopyImplemented`, the refinement under `ResumedBelow(FourGiB)`. A connection starts below the size of the file
(`ConnGood`), so that files of up to 4 GiB meet the condition in every state: `SmallFilesImplemented` is the refinement
without it.

**Server and peers.** `PeerManager_proofs` shows first that `ServerInv` (types and `LoginIsKeptAlive`) is kept
by every step of `ServerConnection` (`ServerKeptAlive`), and cites it for the composition, whose invariant adds, of the
`Manager` record, `Good`: its type and `Wired`, which says that the registry names open sockets of their
users, that a passive socket waits for a pierce, and that a user outside `refused` has no open socket but the registered
one. `Good` is shown to be kept operator by operator (`AnsweredGood`, `DisconnectedGood`, `AddedGood`, `ActiveGood`,
`CreatedGood`, `PeerSocketGood`, `RefusalsGood`, `SweptGood`); `Clean` (nothing is closed between two
handlers) is what the handlers start from, since sockets are closed in the middle of them.

**Search tree.** `Good` of the roles (parent, children, potential parents) and the objects: a role is held by an
object with that use, a potential parent has no part in the tree and is not subscribed to, and a socket that waits has
a timer. The lemmas follow the operators `Settle`, `Gone`, `LevelFrom`, `DepthFrom`, `Received`. `DepthKnown` needs only that every
operator that changes the children or the parent ends in `TellDepth`; `OthersStopped` is an action
property from the same invariant. `TypeCorrect` needs that the greatest depth of the children is a natural
number: `LeastNatural` (a nonempty set of naturals has a least element, from the well-foundedness of
`<`) and `MaxType` prove that a finite nonempty set of them has a greatest.

**Only model-checked**: liveness (`HandlersReturn`, `EveryWaitEnds`, `InitiationEnds`, `Settles`,
`RetriesSuffice`, `StaysOnline`, `AsksAreAnswered`, `AttemptsEnd`), since fairness is beyond the prover. Every invariant,
action property and refinement that a passing run checks is proved.

## 7. Not modelled

The modules cover the control of `museekd` that has state worth checking. Most of the
repository's lines are not of that kind: of about 97 000, some 20 000 are `museekd` and `NewNet` and 13 500
the Cocoa application; the rest is vendored (libevent, libxml++, TCMPortMapper, Growl, Sparkle, ciphers) or
build material. The vendored libraries are used through a few calls and are not part of the program's
own logic.

* **Of the components modelled in part**: the wish list, search results and what is relayed in
  the tree (no state that could go wrong beyond the sockets); the server's clock test, rooms joined again and the
  growing delays of the reconnection (the timers are modelled as due at some time, so their length is not seen);
  the connection to ourself; listening for connections; the message bookkeeping of the download
  side (`m_EnqueuingPending`, `m_PlacesPending`, `m_ContentsAsked`), which decides only which messages go out and when;
  `Download::initiate` and `pickUp`, which nothing calls.
* **NewNet**: sockets enter the models by their callbacks (connected, failed, lost) and by the delayed
  removal of a socket that was disconnected. The timer queue is a fairness assumption; the rate limiter delays data and loses none,
  and none of the properties speaks of rates.
* **Framing and marshalling**: messages arrive whole and in order; their layout is data.
* **Configuration, shares, persistence of both**: the keys that matter are variables of `UploadManager`
  and `ServerConnection`; file formats, folder scans and path lookups are data.
* **GUI interface and Cocoa application**: what they ask of the daemon is an event of the module concerned; they only
  forward and display otherwise.
