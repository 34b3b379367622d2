--------------------------- MODULE DownloadManager ---------------------------
(***************************************************************************)
(* The download side of museekd: DownloadManager, its Download objects and *)
(* their DownloadSockets, the list of downloads it keeps on disk, and what *)
(* a restart makes of it.                                                  *)
(*                                                                         *)
(* The handlers re-enter each other as in UploadManager: setState ends in  *)
(* checkDownloads, which asks for peer sockets, whose callbacks call       *)
(* setState. Here setState assigns m_State first and calls afterwards.     *)
(* "calls" is the stack of what is still to run, the innermost call first. *)
(* The process may be killed between any two steps; "saved", "whole" and   *)
(* "atDest" are on disk and outlive it.                                    *)
(***************************************************************************)
EXTENDS Naturals, Sequences, SequencesExt

CONSTANTS
  Users,       \* peers we download from
  Downloads,   \* the (user, remote path) pairs that may be asked for
  UserOf,      \* [Downloads -> Users]
  NoDownload,  \* the null Download pointer
  Slots,       \* values the config key transfers/download_slots may take; 0: no limit
  Lists,       \* whether the file of the downloads may exist when the first process starts
  Options,     \* autoclear_finished_downloads and autoretry_downloads of an instance
  Events       \* bound: the kinds of outside events an instance may take

ASSUME DownloadAssumption ==
  /\ UserOf \in [Downloads -> Users]
  /\ NoDownload \notin Downloads
  /\ Slots \subseteq Nat /\ Slots # {}
  /\ Lists \subseteq BOOLEAN /\ Lists # {}
  /\ Options \subseteq [autoClear : BOOLEAN, autoRetry : BOOLEAN] /\ Options # {}

(***************************************************************************)
(* TrState (mutypes.h), the values a download takes. Connecting and        *)
(* LocalError belong to Download::initiate, which nothing calls.           *)
(***************************************************************************)
ActiveStates == {"Initiating", "Waiting", "Transferring"}
FailedStates == {"ConnectionClosed", "CannotConnect", "RemoteError"}
TrStates     == ActiveStates \union FailedStates
                  \union {"QueuedRemotely", "Offline", "Finished", "Aborted"}

\* States in which the transfer a peer offers is taken.
OfferableStates == FailedStates \union {"QueuedRemotely", "Initiating", "Offline"}

VARIABLES
  downloads,    \* m_Downloads
  state,        \* Download::m_State
  enqueued,     \* Download::m_Enqueued: we asked the peer to queue it
  socket,       \* Download::m_Socket: none, waiting for the ticket, connected
  complete,     \* Download::m_Position >= Download::m_Size
  initTimers,   \* initTimedOut callbacks armed: m_InitTimeout, and one it no longer tracks
  retryTimer,   \* a Download::retry callback is armed
  downloading,  \* m_Downloading
  allowUpdate,  \* m_AllowUpdate
  hasFile,      \* the file of the downloads exists
  saved,        \* its content
  unsaved,      \* history: the last attempt to save the list failed
  whole,        \* the incomplete file on disk holds the whole file
  atDest,       \* the file is in the download directory
  peer,         \* PeerManager::m_Peers: no entry, no socket yet, one being connected, connected
  loggedIn,     \* ServerManager::loggedIn()
  config,       \* download_slots; autoclear_finished_downloads and autoretry_downloads
  calls         \* the pending calls, innermost first

objects == <<downloads, state, enqueued, socket, complete, initTimers, retryTimer>>
disk    == <<hasFile, saved, unsaved, whole, atDest>>
world   == <<peer, loggedIn, config>>
vars    == <<objects, downloading, allowUpdate, disk, world, calls>>

PeerStates == {"none", "asked", "connecting", "up"}

Loops   == {"requeueOffline", "peerOffline", "logout"}
Entries == [download : Downloads, aborted : BOOLEAN]

\* The kinds of pending call, each with its arguments.
Call ==
  [op : {"setState"}, down : Downloads, st : TrStates]
    \union [op : {"disconnected", "release", "closed", "unenqueue", "enqueue", "touch", "add",
                  "addRest", "abortRest", "remove", "erase", "offerRest", "pushRest",
                  "accept", "attach", "rename"}, down : Downloads]
    \union [op : {"check"}, i : Nat \ {0}]
    \union [op : {"peerSocket", "start"}, user : Users]
    \union [op : {"loop"}, over : Loops, who : SUBSET Users, i : Nat \ {0}, end : Nat]
    \union [op : {"load", "allow"}]
    \union [op : {"loadRest"}, list : Seq(Entries)]
    \union [op : {"loadState"}, entry : Entries]

\* Each variable holds values of its kind, and m_Downloads lists no download twice.
TypeOK ==
  /\ downloads \in Seq(Downloads) /\ IsInjective(downloads)
  /\ state \in [Downloads -> TrStates]
  /\ enqueued \in [Downloads -> BOOLEAN]
  /\ socket \in [Downloads -> {"none", "wait", "up"}]
  /\ complete \in [Downloads -> BOOLEAN]
  /\ initTimers \in [Downloads -> SUBSET {"tracked", "earlier"}]
  /\ retryTimer \in [Downloads -> BOOLEAN]
  /\ downloading \in [Users -> Downloads \union {NoDownload}]
  /\ allowUpdate \in BOOLEAN
  /\ hasFile \in BOOLEAN
  /\ saved \in Seq(Entries)
  /\ unsaved \in BOOLEAN
  /\ whole \in [Downloads -> BOOLEAN]
  /\ atDest \in [Downloads -> BOOLEAN]
  /\ peer \in [Users -> PeerStates]
  /\ loggedIn \in BOOLEAN
  /\ config \in [slots : Slots, options : Options]
  /\ calls \in Seq(Call)

-----------------------------------------------------------------------------
(* The call stack. *)

SetState(d, s)      == [op |-> "setState", down |-> d, st |-> s]
Do(op, d)           == [op |-> op, down |-> d]
CheckFrom(i)        == [op |-> "check", i |-> i]
CheckDownloads      == CheckFrom(1)
PeerSocket(x)       == [op |-> "peerSocket", user |-> x]
Start(x)            == [op |-> "start", user |-> x]
LoopFrom(over, who, i, end) == [op |-> "loop", over |-> over, who |-> who, i |-> i, end |-> end]
Loop(over, who)     == LoopFrom(over, who, 1, Len(downloads))
Allow               == [op |-> "allow"]
LoadRest(list)      == [op |-> "loadRest", list |-> list]

Idle == calls = <<>>
Top  == Head(calls)
Running(op) == ~Idle /\ Top.op = op

\* The running call returns, after the calls "now" have run.
Return(now) == calls' = now \o Tail(calls)

\* An event of the outside, whose handler runs the calls "now".
Event(kind, now) == kind \in Events /\ Idle /\ calls' = now

Known == Range(downloads)
OfUser(x) == {d \in Known : UserOf[d] = x}
Busy == {x \in Users : downloading[x] # NoDownload}
HasFreeSlots == config.slots = 0 \/ Cardinality(Busy) < config.slots

\* setSocket(0): stop the socket there is, then drop it and the tracked timer.
DropSocket(d) == (IF socket[d] = "none" THEN <<>> ELSE <<Do("disconnected", d)>>) \o <<Do("release", d)>>

\* setRemoteError, and onPeerSocketUnavailable for the current download.
Fail(d, s) == DropSocket(d) \o <<Do("unenqueue", d), SetState(d, s)>>

\* The body of DownloadManager::abort, for a download that exists.
AbortCalls(d) == DropSocket(d) \o <<Do("unenqueue", d), Do("abortRest", d)>>

First(S) == {j \in S : \A k \in S : j <= k}

-----------------------------------------------------------------------------
(* A process that starts has no downloads, and is about to load the list. *)

Never == [d \in Downloads |-> FALSE]

Init ==
  /\ downloads = <<>>
  /\ state = [d \in Downloads |-> "Offline"]
  /\ enqueued = Never
  /\ socket = [d \in Downloads |-> "none"]
  /\ complete = Never
  /\ initTimers = [d \in Downloads |-> {}]
  /\ retryTimer = Never
  /\ downloading = [x \in Users |-> NoDownload]
  /\ allowUpdate = FALSE
  /\ hasFile \in Lists /\ saved = <<>> /\ unsaved = FALSE
  /\ whole = Never /\ atDest = Never
  /\ peer = [x \in Users |-> "none"]
  /\ loggedIn = FALSE
  /\ config \in [slots : Slots, options : Options]
  /\ calls = <<[op |-> "load"]>>

\* The process ends, and another one starts.
Restart ==
  /\ downloads' = <<>>
  /\ state' = [d \in Downloads |-> "Offline"]
  /\ enqueued' = Never
  /\ socket' = [d \in Downloads |-> "none"]
  /\ complete' = Never
  /\ initTimers' = [d \in Downloads |-> {}]
  /\ retryTimer' = Never
  /\ downloading' = [x \in Users |-> NoDownload]
  /\ allowUpdate' = FALSE
  /\ peer' = [x \in Users |-> "none"]
  /\ loggedIn' = FALSE
  /\ calls' = <<[op |-> "load"]>>
  /\ UNCHANGED <<whole, atDest, config>>

-----------------------------------------------------------------------------
(* Saving and loading. *)

\* What saveDownloads writes of a list of downloads: all but the finished ones, in order.
EntryOf(d) == [download |-> d, aborted |-> state[d] = "Aborted"]
ToSave(list) ==
  LET written[n \in 0 .. Len(list)] ==
        IF n = 0 THEN <<>>
        ELSE IF state[list[n]] = "Finished" THEN written[n - 1]
        ELSE Append(written[n - 1], EntryOf(list[n]))
  IN  written[Len(list)]

\* saveDownloads writes a temporary file and renames it. When it cannot open the file,
\* sees a write fail or cannot rename it, the old list stays. A write that fails as late
\* as close() goes unseen, and a list that breaks off takes the place of the old one.
Save(list) ==
  \/ hasFile' = TRUE /\ saved' = ToSave(list) /\ unsaved' = FALSE
  \/ /\ "saveError" \in Events /\ unsaved' = TRUE
     /\ \/ UNCHANGED <<hasFile, saved>>
        \/ /\ hasFile' = TRUE
           /\ \E n \in 0 .. Len(ToSave(list)) - 1 : saved' = SubSeq(ToSave(list), 1, n)

\* loadDownloads. It returns early, with m_AllowUpdate false, when there is no file.
DoLoad ==
  /\ Running("load")
  /\ allowUpdate' = FALSE
  /\ Return(IF hasFile THEN <<LoadRest(saved)>> ELSE <<>>)
  /\ UNCHANGED <<objects, downloading, disk, world>>

\* The loop over the list. It has no early return: its bail-outs test the results of
\* read_int and the like for 0, which are -1 when a read fails, and such an entry is
\* skipped.
DoLoadRest ==
  /\ Running("loadRest")
  /\ LET rest == Top.list
     IN  Return(IF rest = <<>> THEN <<Allow>>
                ELSE <<Do("add", Head(rest).download),
                       [op |-> "loadState", entry |-> Head(rest)],
                       LoadRest(Tail(rest))>>)
  /\ UNCHANGED <<objects, downloading, allowUpdate, disk, world>>

\* The loaded download, unless auto-clear has removed it again.
DoLoadState ==
  /\ Running("loadState")
  /\ LET d == Top.entry.download
         s == IF Top.entry.aborted THEN "Aborted" ELSE "Offline"
     IN  Return(IF d \in Known THEN <<SetState(d, s), Do("touch", d)>> ELSE <<>>)
  /\ UNCHANGED <<objects, downloading, allowUpdate, disk, world>>

\* m_AllowUpdate = true, then checkDownloads.
DoAllow ==
  /\ Running("allow")
  /\ allowUpdate' = TRUE
  /\ Return(<<CheckDownloads>>)
  /\ UNCHANGED <<objects, downloading, disk, world>>

-----------------------------------------------------------------------------
(* Download::setState and the socket. *)

\* What onDownloadUpdated makes of m_Downloading when download d is in state s.
ListedLeaky(d, s) ==
  IF s \in ActiveStates THEN [downloading EXCEPT ![UserOf[d]] = d]
  ELSE IF downloading[UserOf[d]] = d /\ s # "ConnectionClosed" THEN [downloading EXCEPT ![UserOf[d]] = NoDownload]
  ELSE downloading

Listed(d, s) ==
  IF s \in ActiveStates THEN [downloading EXCEPT ![UserOf[d]] = d]
  ELSE IF downloading[UserOf[d]] = d THEN [downloading EXCEPT ![UserOf[d]] = NoDownload]
  ELSE downloading

\* What setState still has to do after the update event.
AftermathUnsaved(d, s) ==
  (IF s \in ActiveStates \union {"Aborted"} THEN <<>> ELSE <<CheckDownloads>>)
    \o (IF s = "Finished" /\ s # state[d] /\ config.options.autoClear THEN <<Do("remove", d)>> ELSE <<>>)

Aftermath(d, s) ==
  (IF s \in ActiveStates THEN <<>> ELSE <<CheckDownloads>>)
    \o (IF s = "Finished" /\ s # state[d] /\ config.options.autoClear THEN <<Do("remove", d)>> ELSE <<>>)

DoSetState ==
  /\ Running("setState")
  /\ LET d == Top.down
         s == Top.st
     IN  /\ state' = [state EXCEPT ![d] = s]
         /\ complete' = [complete EXCEPT ![d] = @ \/ s = "Finished"]
         /\ downloading' = Listed(d, s)
         /\ retryTimer' = [retryTimer EXCEPT ![d] =
              @ \/ (s \in FailedStates /\ s # state[d] /\ config.options.autoRetry)]
         /\ Return(Aftermath(d, s))
  /\ UNCHANGED <<downloads, enqueued, socket, initTimers, allowUpdate, disk, world>>

\* DownloadSocket::onDisconnected.
DoDisconnected ==
  /\ Running("disconnected")
  /\ Return(<<SetState(Top.down, IF complete[Top.down] THEN "Finished" ELSE "ConnectionClosed")>>)
  /\ UNCHANGED <<objects, downloading, allowUpdate, disk, world>>

\* The end of setSocket(0): m_Socket = 0, and the tracked timer is removed.
DoRelease ==
  /\ Running("release")
  /\ socket' = [socket EXCEPT ![Top.down] = "none"]
  /\ initTimers' = [initTimers EXCEPT ![Top.down] = @ \ {"tracked"}]
  /\ Return(<<>>)
  /\ UNCHANGED <<downloads, state, enqueued, complete, retryTimer, downloading, allowUpdate, disk, world>>

\* The reactor drops a socket that was closed: the weak pointer to it is null. A download
\* that auto-clear erased dies with it, and m_Downloading's weak pointer to it is null
\* (bound: the entry itself is taken to be gone as well).
DoClosed ==
  /\ Running("closed")
  /\ LET d == Top.down
     IN  /\ socket' = [socket EXCEPT ![d] = "none"]
         /\ downloading' = IF d \in Known THEN downloading
                           ELSE [x \in Users |-> IF downloading[x] = d THEN NoDownload ELSE downloading[x]]
  /\ Return(<<>>)
  /\ UNCHANGED <<downloads, state, enqueued, complete, initTimers, retryTimer, allowUpdate, disk, world>>

\* setEnqueued(false), and enqueueDownload.
DoEnqueue ==
  /\ Running("unenqueue") \/ Running("enqueue")
  /\ enqueued' = [enqueued EXCEPT ![Top.down] = Top.op = "enqueue"]
  /\ Return(<<>>)
  /\ UNCHANGED <<downloads, state, socket, complete, initTimers, retryTimer, downloading, allowUpdate, disk, world>>

\* setSize (and, when loading, setPositionFromIncompleteFile) of a download that is
\* still there: the position is the length of the incomplete file.
DoTouch ==
  /\ Running("touch")
  /\ LET d == Top.down
     IN  \/ /\ d \in Known
            /\ complete' = [complete EXCEPT ![d] = whole[d] \/ state[d] = "Finished"]
            /\ downloading' = Listed(d, state[d])
         \/ d \notin Known /\ UNCHANGED <<complete, downloading>>
  /\ Return(<<>>)
  /\ UNCHANGED <<downloads, state, enqueued, socket, initTimers, retryTimer, allowUpdate, disk, world>>

-----------------------------------------------------------------------------
(* checkDownloads and the peer sockets. *)

\* Downloads that checkDownloads asks a peer socket for.
WantedQueued(d) == state[d] = "QueuedRemotely" /\ ~enqueued[d]
Wanted(d)       == WantedQueued(d) \/ state[d] = "Offline"

\* The j-th download needs a peer socket; then the loop goes on.
AskAndStartOver(j) == <<PeerSocket(UserOf[downloads[j]]), CheckDownloads>>
AskAndGoOn(j)      == <<PeerSocket(UserOf[downloads[j]]), CheckFrom(j + 1)>>

\* The loop from position i on, up to the next download that needs a peer socket; at the
\* end of the vector, as it is by then, the list is saved.
DoCheckDownloads ==
  /\ Running("check")
  /\ \/ /\ ~allowUpdate
        /\ Return(<<>>)
        /\ UNCHANGED <<hasFile, saved, unsaved>>
     \/ /\ allowUpdate
        /\ LET wanted == {j \in Top.i .. Len(downloads) : Wanted(downloads[j])}
           IN  \/ wanted = {} /\ Return(<<>>) /\ Save(downloads)
               \/ \E j \in First(wanted) :
                    /\ Return(AskAndGoOn(j))
                    /\ UNCHANGED <<hasFile, saved, unsaved>>
  /\ UNCHANGED <<objects, downloading, allowUpdate, whole, atDest, world>>

\* onPeerSocketReady, onPeerSocketUnavailable and onPeerOffline.
ReadyCallsKeepingOffline(x) == <<Start(x)>>
ReadyCalls(x)       == <<Loop("requeueOffline", {x}), Start(x)>>
UnavailableCalls(x) == IF downloading[x] = NoDownload THEN <<>> ELSE Fail(downloading[x], "CannotConnect")
OfflineCalls(x)     == <<Loop("peerOffline", {x})>>

\* PeerManager::peerSocket, which every transfer calls with its default argument, force. A
\* socket is as good as ready while it is being connected. Without one, the server is asked
\* about the user; one known to be online is connected to, one known to be offline reported.
DoPeerSocket ==
  /\ Running("peerSocket")
  /\ LET x == Top.user
     IN  \/ /\ peer[x] \in {"connecting", "up"}
            /\ Return(ReadyCalls(x))
            /\ UNCHANGED peer
         \/ /\ peer[x] \in {"none", "asked"}
            /\ peer' = [peer EXCEPT ![x] = "asked"]
            /\ \/ Return(<<>>)
               \/ loggedIn /\ Return(OfflineCalls(x))
         \/ /\ peer[x] \in {"none", "asked"} /\ loggedIn
            /\ peer' = [peer EXCEPT ![x] = "connecting"]
            /\ Return(<<>>)
  /\ UNCHANGED <<objects, downloading, allowUpdate, disk, loggedIn, config>>

\* The first of the downloads to ask for becomes Initiating when we download nothing
\* from this user; enqueueDownload and askPendingEnqueuing ask for them all.
Initiated(x) ==
  IF downloading[x] # NoDownload THEN {}
  ELSE {downloads[j] : j \in First({j \in 1 .. Len(downloads) :
                                      UserOf[downloads[j]] = x /\ WantedQueued(downloads[j])})}

\* addTimeout for initTimedOut; m_InitTimeout forgets a timer that is still armed.
ArmNone(d) == initTimers[d]
Arm(d) == IF "tracked" \in initTimers[d] THEN {"tracked", "earlier"} ELSE initTimers[d] \union {"tracked"}

\* The second half of onPeerSocketReady: no call in it comes back to the manager.
DoStart ==
  /\ Running("start")
  /\ LET x == Top.user
         first == Initiated(x)
     IN  /\ state' = [d \in Downloads |-> IF d \in first THEN "Initiating" ELSE state[d]]
         /\ initTimers' = [d \in Downloads |-> IF d \in first THEN Arm(d) ELSE initTimers[d]]
         /\ enqueued' = [d \in Downloads |-> enqueued[d] \/ (d \in OfUser(x) /\ WantedQueued(d))]
         /\ \/ first = {} /\ UNCHANGED downloading
            \/ \E d \in first : downloading' = [downloading EXCEPT ![x] = d]
  /\ Return(<<>>)
  /\ UNCHANGED <<downloads, socket, complete, retryTimer, allowUpdate, disk, world>>

-----------------------------------------------------------------------------
(* Loops over m_Downloads that call setState on the way. The end of the vector *)
(* is read once, before the first iteration.                                   *)

KeptOffline == FailedStates \union {"Finished", "Transferring", "Aborted", "Offline"}

Selected(over, who, d) ==
  /\ UserOf[d] \in who
  /\ CASE over = "requeueOffline" -> state[d] = "Offline"
       [] over = "peerOffline"    -> state[d] \notin KeptOffline
       [] over = "logout"         -> /\ downloading[UserOf[d]] # d
                                     /\ state[d] \notin {"Finished", "Aborted", "Offline"}

\* setState, and for a logout setEnqueued(false) after it.
IterationCalls(over, d) ==
  CASE over = "requeueOffline" -> <<SetState(d, "QueuedRemotely")>>
    [] over = "peerOffline"    -> <<SetState(d, "Offline")>>
    [] over = "logout"         -> <<SetState(d, "Offline"), Do("unenqueue", d)>>

\* Up to the next download it selects. onPeerOffline does setEnqueued(false) on every
\* download of the user that it passes.
DoLoop ==
  /\ Running("loop")
  /\ LET i == Top.i
         last == IF Top.end < Len(downloads) THEN Top.end ELSE Len(downloads)
         hits == {j \in i .. last : Selected(Top.over, Top.who, downloads[j])}
         Passed(upto) == IF Top.over # "peerOffline" THEN {}
                         ELSE {d \in {downloads[j] : j \in i .. upto} : UserOf[d] \in Top.who}
         Unenqueue(S) == enqueued' = [d \in Downloads |-> enqueued[d] /\ d \notin S]
     IN  \/ hits = {} /\ Return(<<>>) /\ Unenqueue(Passed(last))
         \/ \E j \in First(hits) :
              /\ Return(Append(IterationCalls(Top.over, downloads[j]),
                               LoopFrom(Top.over, Top.who, j + 1, Top.end)))
              /\ Unenqueue(Passed(j))
  /\ UNCHANGED <<downloads, state, socket, complete, initTimers, retryTimer, downloading, allowUpdate, disk, world>>

-----------------------------------------------------------------------------
(* add, abort and remove. *)

NeverFound(d) == FALSE
Found(d)      == d \in Known

\* DownloadManager::add. A new download has size and position 0.
DoAdd ==
  /\ Running("add")
  /\ LET d == Top.down
         isNew == ~Found(d)
         ignored == ~isNew /\ (state[d] = "Offline" \/ ~loggedIn)
         active == state[d] \in ActiveStates
     IN  \/ /\ ignored \/ (~isNew /\ active)
            /\ Return(<<>>)
            /\ UNCHANGED objects
         \/ /\ ~ignored /\ (isNew \/ ~active)
            /\ downloads' = IF isNew THEN Append(downloads, d) ELSE downloads
            /\ state' = IF isNew THEN [state EXCEPT ![d] = "Offline"] ELSE state
            /\ socket' = IF isNew THEN [socket EXCEPT ![d] = "none"] ELSE socket
            /\ complete' = IF isNew THEN [complete EXCEPT ![d] = TRUE] ELSE complete
            /\ enqueued' = [enqueued EXCEPT ![d] = FALSE]
            /\ Return(<<SetState(d, "QueuedRemotely"), Do("addRest", d)>>)
            /\ UNCHANGED <<initTimers, retryTimer>>
  /\ UNCHANGED <<downloading, allowUpdate, disk, world>>

\* The rest of add: setPositionFromIncompleteFile, and a file already downloaded.
DoAddRest ==
  /\ Running("addRest")
  /\ LET d == Top.down
     IN  /\ complete' = [complete EXCEPT ![d] = whole[d]]
         /\ downloading' = Listed(d, state[d])
         /\ Return((IF atDest[d] THEN <<SetState(d, "Finished")>> ELSE <<>>) \o <<CheckDownloads>>)
  /\ UNCHANGED <<downloads, state, enqueued, socket, initTimers, retryTimer, allowUpdate, disk, world>>

DoAbortRest ==
  /\ Running("abortRest")
  /\ Return(IF state[Top.down] = "Finished" THEN <<>> ELSE <<SetState(Top.down, "Aborted")>>)
  /\ UNCHANGED <<objects, downloading, allowUpdate, disk, world>>

DoRemove ==
  /\ Running("remove")
  /\ Return(IF Top.down \in Known THEN Append(AbortCalls(Top.down), Do("erase", Top.down)) ELSE <<>>)
  /\ UNCHANGED <<objects, downloading, allowUpdate, disk, world>>

\* The vector drops the download, its timers go with it, and the list is saved, whatever
\* m_AllowUpdate says.
DoErase ==
  /\ Running("erase")
  /\ LET d == Top.down
     IN  /\ \/ \E k \in 1 .. Len(downloads) : downloads[k] = d /\ downloads' = RemoveAt(downloads, k)
            \/ d \notin Known /\ UNCHANGED downloads
         /\ initTimers' = [initTimers EXCEPT ![d] = {}]
         /\ retryTimer' = [retryTimer EXCEPT ![d] = FALSE]
  /\ Save(downloads')
  /\ Return(<<>>)
  /\ UNCHANGED <<state, enqueued, socket, complete, downloading, allowUpdate, whole, atDest, world>>

-----------------------------------------------------------------------------
(* A transfer offered by the peer (PTransferRequest, direction 1). *)

\* Another download from the same user gives way.
PreemptCalls(d) ==
  LET other == downloading[UserOf[d]]
  IN  IF other \in {d, NoDownload} THEN <<>>
      ELSE DropSocket(other) \o
             <<SetState(other, "QueuedRemotely"), Do("unenqueue", other), Do("enqueue", other)>>

\* A download whose file is at its destination has just been set Finished. An erased one
\* (auto-clear) is read after it was freed: it is taken to hold its last state.
DoOfferRest ==
  /\ Running("offerRest")
  /\ LET d == Top.down
     IN  Return(IF HasFreeSlots /\ state[d] \in OfferableStates
                  THEN Append(PreemptCalls(d), Do("accept", d)) ELSE <<>>)
  /\ UNCHANGED <<objects, downloading, allowUpdate, disk, world>>

\* A file pushed by a trusted user, after add and setSize.
DoPushRest ==
  /\ Running("pushRest")
  /\ LET d == Top.down
     IN  Return(IF d \in Known /\ HasFreeSlots THEN <<Do("accept", d)>> ELSE <<>>)
  /\ UNCHANGED <<objects, downloading, allowUpdate, disk, world>>

\* setSize, then setSocket with a new socket: the one there is, is stopped first.
DoAccept ==
  /\ Running("accept")
  /\ LET d == Top.down
     IN  /\ complete' = [complete EXCEPT ![d] = whole[d] \/ state[d] = "Finished"]
         /\ downloading' = Listed(d, state[d])
         /\ Return((IF socket[d] = "none" THEN <<>> ELSE <<Do("disconnected", d)>>) \o <<Do("attach", d)>>)
  /\ UNCHANGED <<downloads, state, enqueued, socket, initTimers, retryTimer, allowUpdate, disk, world>>

\* The new socket is set, and DownloadSocket::wait. Bound: an object that its old socket
\* has finished and auto-clear erased meanwhile is not followed any further.
DoAttach ==
  /\ Running("attach")
  /\ LET d == Top.down
     IN  \/ /\ d \in Known
            /\ socket' = [socket EXCEPT ![d] = "wait"]
            /\ initTimers' = [initTimers EXCEPT ![d] = @ \ {"tracked"}]
            /\ Return(<<SetState(d, "Waiting")>>)
         \/ d \notin Known /\ Return(<<>>) /\ UNCHANGED <<socket, initTimers>>
  /\ UNCHANGED <<downloads, state, enqueued, complete, retryTimer, downloading, allowUpdate, disk, world>>

\* The rest of finish: the incomplete file is moved to its destination, or is not.
DoRename ==
  /\ Running("rename")
  /\ \/ /\ atDest' = [atDest EXCEPT ![Top.down] = TRUE]
        /\ whole' = [whole EXCEPT ![Top.down] = FALSE]
     \/ "fileError" \in Events /\ UNCHANGED <<atDest, whole>>
  /\ Return(<<>>)
  /\ UNCHANGED <<objects, downloading, allowUpdate, hasFile, saved, unsaved, world>>

-----------------------------------------------------------------------------
(* Events: the local user, and the folder contents it asked for. *)

AddDownload(d) ==
  /\ Event("add", <<Do("add", d), Do("touch", d)>>)
  /\ UNCHANGED <<objects, downloading, allowUpdate, disk, world>>

AbortDownload(d) ==
  /\ d \in Known
  /\ Event("abort", AbortCalls(d))
  /\ UNCHANGED <<objects, downloading, allowUpdate, disk, world>>

RemoveDownload(d) ==
  /\ d \in Known
  /\ Event("remove", <<Do("remove", d)>>)
  /\ UNCHANGED <<objects, downloading, allowUpdate, disk, world>>

\* update: peerSocket, then the update event. addFolder asks for the peer socket only.
UpdateDownload(d) ==
  /\ d \in Known
  /\ Event("update", <<PeerSocket(UserOf[d]), Do("touch", d)>>)
  /\ UNCHANGED <<objects, downloading, allowUpdate, disk, world>>

AddFolder(x) ==
  /\ Event("folder", <<PeerSocket(x)>>)
  /\ UNCHANGED <<objects, downloading, allowUpdate, disk, world>>

\* addFolderContents, for a folder of one file that the peer was asked for.
FolderContents(d) ==
  /\ peer[UserOf[d]] = "up"
  /\ Event("folder", <<Do("add", d), Do("touch", d), Allow>>)
  /\ allowUpdate' = FALSE
  /\ UNCHANGED <<objects, downloading, disk, world>>

-----------------------------------------------------------------------------
(* Events: peer sockets and the messages on them. *)

PeerReady(x) ==
  /\ Event("peer", ReadyCalls(x))
  /\ peer' = [peer EXCEPT ![x] = "up"]
  /\ UNCHANGED <<objects, downloading, allowUpdate, disk, loggedIn, config>>

\* We start to connect to x: the server says x is online, or that x wants us to connect,
\* and then a socket there is gives way.
PeerConnecting(x) ==
  /\ loggedIn /\ peer[x] # "connecting"
  /\ Event("connecting", <<>>)
  /\ peer' = [peer EXCEPT ![x] = "connecting"]
  /\ UNCHANGED <<objects, downloading, allowUpdate, disk, loggedIn, config>>

\* No connection can be made with x: our attempt failed; or the server says so of any
\* connection type, or a search that finds too many sockets open, whatever the state of
\* the peer socket.
PeerUnavailable(x) ==
  /\ Event("peer", UnavailableCalls(x))
  /\ peer' \in {peer, [peer EXCEPT ![x] = IF @ = "connecting" THEN "none" ELSE @]}
  /\ UNCHANGED <<objects, downloading, allowUpdate, disk, loggedIn, config>>

PeerOffline(x) ==
  /\ loggedIn
  /\ Event("offline", OfflineCalls(x))
  /\ UNCHANGED <<objects, downloading, allowUpdate, disk, world>>

\* Nobody is told. A socket that is being connected is closed by a notice of the server,
\* after PeerUnavailable's calls (bound: in a step of its own).
PeerLost(x) ==
  /\ peer[x] \in {"connecting", "up"}
  /\ Event("peerLost", <<>>)
  /\ peer' = [peer EXCEPT ![x] = "none"]
  /\ UNCHANGED <<objects, downloading, allowUpdate, disk, loggedIn, config>>

\* PTransferRequest for a download we know, and for one that a trusted user pushes.
OfferReceived(d) ==
  /\ d \in Known /\ peer[UserOf[d]] = "up"
  /\ Event("offer", (IF atDest[d] THEN <<SetState(d, "Finished")>> ELSE <<>>) \o <<Do("offerRest", d)>>)
  /\ UNCHANGED <<objects, downloading, allowUpdate, disk, world>>

PushReceived(d) ==
  /\ d \notin Known /\ peer[UserOf[d]] = "up"
  /\ Event("push", PreemptCalls(d) \o <<Do("add", d), Do("touch", d), Do("pushRest", d)>>)
  /\ UNCHANGED <<objects, downloading, allowUpdate, disk, world>>

\* PQueueFailed, and PUploadFailed, which spares an aborted download.
RefusalReceived(d) ==
  /\ d \in Known /\ peer[UserOf[d]] = "up"
  /\ Event("refusal", Fail(d, "RemoteError"))
  /\ UNCHANGED <<objects, downloading, allowUpdate, disk, world>>

-----------------------------------------------------------------------------
(* Events: transfer sockets and timers. *)

\* onTransferTicketReceived. When the incomplete file does not open the socket is stopped
\* and the download is Transferring all the same.
TicketReceived(d) ==
  /\ socket[d] = "wait" /\ state[d] = "Waiting"
  /\ \/ /\ Event("socket", <<SetState(d, "Transferring")>>)
        /\ socket' = [socket EXCEPT ![d] = "up"]
        /\ complete' = [complete EXCEPT ![d] = whole[d]]
     \/ /\ "fileError" \in Events
        /\ Event("socket", <<Do("disconnected", d), SetState(d, "Transferring"), Do("closed", d)>>)
        /\ UNCHANGED <<socket, complete>>
  /\ UNCHANGED <<downloads, state, enqueued, initTimers, retryTimer, downloading, allowUpdate, disk, world>>

\* onDataReceived: some of the data (received may emit an update), or the last of it,
\* then finish and stop; or the disk is full.
DataReceived(d) ==
  /\ socket[d] = "up" /\ state[d] = "Transferring"
  /\ \/ /\ ~whole[d]
        /\ Event("socket", <<Do("touch", d)>>)
        /\ UNCHANGED <<complete, whole>>
     \/ /\ Event("socket", <<SetState(d, "Finished"), Do("rename", d), Do("disconnected", d), Do("closed", d)>>)
        /\ complete' = [complete EXCEPT ![d] = TRUE]
        /\ whole' = [whole EXCEPT ![d] = TRUE]
     \/ /\ "fileError" \in Events
        /\ Event("socket", <<Do("disconnected", d), Do("closed", d)>>)
        /\ UNCHANGED <<complete, whole>>
  /\ UNCHANGED <<downloads, state, enqueued, socket, initTimers, retryTimer, downloading, allowUpdate,
                 hasFile, saved, unsaved, atDest, world>>

\* The peer closes the transfer socket, or no data came for 60 s since the last of it.
SocketLost(d) ==
  /\ socket[d] = "up"
  /\ Event("socket", <<Do("disconnected", d), Do("closed", d)>>)
  /\ UNCHANGED <<objects, downloading, allowUpdate, disk, world>>

\* Download::initTimedOut, 10 s after the download became Initiating.
InitTimedOut(d, timer) ==
  /\ timer \in initTimers[d]
  /\ Event("timer", IF state[d] = "Initiating" THEN <<SetState(d, "QueuedRemotely")>> ELSE <<>>)
  /\ initTimers' = [initTimers EXCEPT ![d] = @ \ {timer}]
  /\ UNCHANGED <<downloads, state, enqueued, socket, complete, retryTimer, downloading, allowUpdate, disk, world>>

\* Download::retry, 30 s after a failure. Bound: the retries of one download that are
\* pending at the same time fire as one.
Retry(d) ==
  /\ retryTimer[d]
  /\ Event("timer", <<Do("add", d)>>)
  /\ retryTimer' = [retryTimer EXCEPT ![d] = FALSE]
  /\ UNCHANGED <<downloads, state, enqueued, socket, complete, initTimers, downloading, allowUpdate, disk, world>>

-----------------------------------------------------------------------------
(* Events: the server connection, the configuration, the process. *)

LoggedIn ==
  /\ ~loggedIn /\ loggedIn' = TRUE
  /\ Event("login", <<CheckDownloads>>)
  /\ UNCHANGED <<objects, downloading, allowUpdate, disk, peer, config>>

LoggedOut ==
  /\ loggedIn /\ loggedIn' = FALSE
  /\ Event("logout", <<Loop("logout", Users)>>)
  /\ UNCHANGED <<objects, downloading, allowUpdate, disk, peer, config>>

SetSlots(n) ==
  /\ n # config.slots
  /\ Event("slots", <<CheckDownloads>>)
  /\ config' = [config EXCEPT !.slots = n]
  /\ UNCHANGED <<objects, downloading, allowUpdate, disk, peer, loggedIn>>

\* main saves the list when the reactor has stopped.
Shutdown == "shutdown" \in Events /\ Idle /\ Restart /\ Save(downloads)

\* The process is killed, in the middle of a handler or not.
Crash == "crash" \in Events /\ Restart /\ UNCHANGED <<hasFile, saved, unsaved>>

-----------------------------------------------------------------------------

Step ==
  \/ DoLoad \/ DoLoadRest \/ DoLoadState \/ DoAllow
  \/ DoSetState \/ DoDisconnected \/ DoRelease \/ DoClosed \/ DoEnqueue \/ DoTouch
  \/ DoCheckDownloads \/ DoPeerSocket \/ DoStart \/ DoLoop
  \/ DoAdd \/ DoAddRest \/ DoAbortRest \/ DoRemove \/ DoErase
  \/ DoOfferRest \/ DoPushRest \/ DoAccept \/ DoAttach \/ DoRename

DownloadEvent(d) ==
  \/ AddDownload(d) \/ AbortDownload(d) \/ RemoveDownload(d) \/ UpdateDownload(d) \/ FolderContents(d)
  \/ OfferReceived(d) \/ PushReceived(d) \/ RefusalReceived(d)
  \/ TicketReceived(d) \/ DataReceived(d) \/ SocketLost(d)
  \/ \E timer \in {"tracked", "earlier"} : InitTimedOut(d, timer)
  \/ Retry(d)

UserEvent(x) ==
  \/ AddFolder(x) \/ PeerReady(x) \/ PeerConnecting(x) \/ PeerUnavailable(x) \/ PeerOffline(x) \/ PeerLost(x)

GlobalEvent ==
  \/ LoggedIn \/ LoggedOut
  \/ \E n \in Slots : SetSlots(n)
  \/ Shutdown \/ Crash

Next ==
  \/ Step
  \/ \E d \in Downloads : DownloadEvent(d)
  \/ \E x \in Users : UserEvent(x)
  \/ GlobalEvent

Spec == Init /\ [][Next]_vars

\* A handler that was called runs to its end, and the timers of initTimedOut fire: every
\* round of the reactor fires the ones that are due, however busy the peers are.
FairSpec ==
  /\ Spec
  /\ WF_vars(Step)
  /\ \A d \in Downloads : SF_vars(InitTimedOut(d, "tracked")) /\ SF_vars(InitTimedOut(d, "earlier"))

-----------------------------------------------------------------------------
(* Properties. *)

\* isDownloadingFrom never returns a download that is over, or another user's: an entry
\* left behind would keep every other download of the user from starting.
ListedIsActive ==
  \A x \in Users : downloading[x] # NoDownload =>
    UserOf[downloading[x]] = x /\ state[downloading[x]] \in ActiveStates

\* Between events, unless the last save failed, the file holds what a restart needs: each
\* download with data still to come, with its aborted mark, and none that is finished or
\* removed. (One whose data is all here, in the download directory or not, may leave
\* Finished without a save.)
SavedIsCurrent ==
  Idle /\ allowUpdate /\ ~unsaved =>
    /\ \A d \in Known : state[d] # "Finished" /\ ~complete[d] /\ ~atDest[d] => EntryOf(d) \in Range(saved)
    /\ \A e \in Range(saved) : e.download \in Known /\ state[e.download] # "Finished"

\* Between events, an Initiating download has a timeout pending: nothing else takes it
\* out of m_Downloading when the peer stays silent.
EveryInitiationHasATimeout ==
  Idle => \A d \in Known : state[d] = "Initiating" => initTimers[d] # {}

\* Between events, while we are logged in, no download waits to be asked for from a
\* connected peer: every path to QueuedRemotely or Offline reaches checkDownloads.
NothingUnasked ==
  Idle /\ allowUpdate /\ loggedIn => \A d \in Known : peer[UserOf[d]] = "up" => ~Wanted(d)

\* Every handler returns: the recursion of checkDownloads through the peer sockets it asks
\* for and the downloads they requeue or take offline ends.
HandlersReturn == []<>Idle

\* A download does not stay Initiating for ever, whatever the peer does.
InitiationEnds == \A d \in Downloads : state[d] = "Initiating" ~> state[d] # "Initiating"

\* A download that ends Finished has been moved from the incomplete directory to the
\* download directory (finish), or was there before.
FinishedIsDelivered == Idle => \A d \in Known : state[d] = "Finished" => atDest[d]
=============================================================================
