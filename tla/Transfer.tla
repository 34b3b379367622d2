------------------------------- MODULE Transfer -------------------------------
(***************************************************************************)
(* One file on its way from a museekd that uploads it (U) to one that      *)
(* downloads it (D): the queue request, the transfer request and its       *)
(* answer on the peer connection, then the transfer connection with its    *)
(* ticket, its offset and the data, each with the timers, failures and     *)
(* retries of both ends.                                                   *)
(*                                                                         *)
(* A step is a whole handler of one end; how handlers nest is the business *)
(* of UploadManager and DownloadManager. Messages on a connection arrive   *)
(* in order, and are lost with it.                                         *)
(***************************************************************************)
EXTENDS Naturals, Sequences, FiniteSets, SequencesExt

CONSTANTS
  Sizes,      \* the sizes of the file, in blocks
  TwoGiB,     \* the blocks of 2 GiB, and of 4 GiB: where U's decoding of an offset
  FourGiB,    \*   overflows the sign, and the width, of an int
  Tickets,    \* bound: the tickets; a new one is one that nothing refers to
  MaxFaults   \* bound: how many faults may happen, each of another kind

Kinds == {"slots", "unshared", "link", "noUploader", "noDownloader", "dial", "reset", "silent", "slow", "stale",
          "unreadable", "abortU", "abortD", "crashU", "crashD"}

NoTicket == 0

ASSUME TransferAssumption ==
  /\ Sizes \subseteq Nat
  /\ TwoGiB \in Nat \ {0} /\ FourGiB \in Nat /\ TwoGiB <= FourGiB
  /\ Tickets \subseteq Nat \ {NoTicket}
  /\ MaxFaults \in Nat

VARIABLES
  size,       \* the size of the file
  up,         \* the Upload: m_State, m_Ticket, m_Position, m_Socket, m_WaitingTimeout
  down,       \* the Download: m_State, m_Ticket, m_Socket, m_Enqueued, its timers
  file,       \* D's copy, as the numbers of its blocks
  delivered,  \* it is in the download directory, no longer in the incomplete one
  link,       \* the peer connection is up
  toU, toD,   \* the messages on it
  conn,       \* the transfer connection made for each ticket
  gone,       \* the ends that the server has still to report offline to the other one
  faults      \* the kinds of fault that have happened

vars == <<size, up, down, file, delivered, link, toU, toD, conn, gone, faults>>

FailedStates == {"ConnectionClosed", "CannotConnect", "RemoteError"}
UStates == FailedStates \union {"none", "QueuedLocally", "Offline", "Initiating", "Waiting",
                                "Transferring", "Finished", "Aborted", "LocalError"}
DStates == FailedStates \union {"QueuedRemotely", "Offline", "Initiating", "Waiting",
                                "Transferring", "Finished", "Aborted"}

\* States in which D takes the transfer it is offered.
OfferableStates == FailedStates \union {"QueuedRemotely", "Initiating", "Offline"}

Upload   == [state : UStates, ticket : Tickets \union {NoTicket}, pos : Nat,
             socket : Tickets \union {NoTicket}, timer : BOOLEAN]
Download == [state : DStates, ticket : Tickets \union {NoTicket}, socket : Tickets \union {NoTicket},
             enqueued : BOOLEAN, initTimer : BOOLEAN, retryTimer : BOOLEAN]

Request(t)        == [type |-> "request", ticket |-> t]
Reply(t, allowed) == [type |-> "reply", ticket |-> t, allowed |-> allowed]
Queue             == [type |-> "queue"]
QueueFailed       == [type |-> "queueFailed"]

\* A transfer connection: U's end; D's end, which a ticket nobody waits for leaves open
\* with nobody to read it ("deaf"); the offset and the data in flight; where D's copy
\* ended when it was opened; what the network has done to it.
Connection == [u : {"none", "dialling", "open", "closed"}, d : {"none", "open", "deaf", "closed"},
               offset : Seq(Nat), data : Seq(Nat), start : Nat, cut : {"no", "reset", "silent"}]

NoConnection == [u |-> "none", d |-> "none", offset |-> <<>>, data |-> <<>>, start |-> 0, cut |-> "no"]

\* Each variable holds values of its kind.
TypeOK ==
  /\ size \in Sizes
  /\ up \in Upload
  /\ down \in Download
  /\ file \in Seq(Nat)
  /\ delivered \in BOOLEAN
  /\ link \in BOOLEAN
  /\ toU \in Seq({Queue} \union {Reply(t, allowed) : t \in Tickets, allowed \in BOOLEAN})
  /\ toD \in Seq({QueueFailed} \union {Request(t) : t \in Tickets})
  /\ conn \in [Tickets -> Connection]
  /\ gone \subseteq {"U", "D"}
  /\ faults \subseteq Kinds

NewUpload   == [state |-> "none", ticket |-> NoTicket, pos |-> 0, socket |-> NoTicket, timer |-> FALSE]
NewDownload == [state |-> "Offline", ticket |-> NoTicket, socket |-> NoTicket,
                enqueued |-> FALSE, initTimer |-> FALSE, retryTimer |-> FALSE]

Init ==
  /\ size \in Sizes
  /\ up = NewUpload
  /\ down = NewDownload
  /\ file = <<>> /\ delivered = FALSE
  /\ link = FALSE /\ toU = <<>> /\ toD = <<>>
  /\ conn = [t \in Tickets |-> NoConnection]
  /\ gone = {}
  /\ faults = {}

Fault(kind) ==
  /\ kind \notin faults /\ Cardinality(faults) < MaxFaults
  /\ faults' = faults \union {kind}

TicketsOf(queue) == {m.ticket : m \in {x \in Range(queue) : x.type \in {"request", "reply"}}}
Pending(t) == t \in TicketsOf(toU) \union TicketsOf(toD)
Used == {up.ticket, up.socket, down.ticket, down.socket} \union TicketsOf(toU) \union TicketsOf(toD)
          \union {t \in Tickets : conn[t] # NoConnection}

\* A connection that both ends are done with is forgotten.
Over(c)    == c.u = "closed" /\ (c.d \in {"closed", "deaf"} \/ (c.d = "none" /\ c.cut # "no"))
Settled(c) == IF Over(c) THEN NoConnection ELSE c

\* U's end, or D's, of the connection for ticket t is closed; NoTicket has none.
CloseU(c, t) == [s \in Tickets |-> IF s # t THEN c[s]
                                   ELSE IF c[s].u = "dialling" THEN NoConnection
                                   ELSE Settled([c[s] EXCEPT !.u = "closed", !.offset = <<>>])]
CloseD(c, t) == [s \in Tickets |-> IF s = t /\ c[s].d = "open"
                                     THEN Settled([c[s] EXCEPT !.d = "closed", !.data = <<>>]) ELSE c[s]]

-----------------------------------------------------------------------------
(* The uploader. *)

\* UploadSocket::onDisconnected: the position may be one of an earlier connection.
EndOf(u) == IF u.pos >= size THEN "Finished" ELSE "ConnectionClosed"

\* setState(s) for a state that disconnects the socket and forgets it.
Severed(u, s) == [u EXCEPT !.state = s, !.socket = NoTicket]

\* A new ticket and a request, and 60 s for the reply.
Initiated(u, t) == [u EXCEPT !.state = "Waiting", !.ticket = t, !.timer = TRUE]

\* PQueueDownload: UploadManager::add, which takes an upload out of whatever it is doing
\* unless U's user has aborted it or U failed to read the file; or PQueueFailed, while the
\* file is not shared with D.
QueueReceived ==
  /\ toU # <<>> /\ Head(toU) = Queue
  /\ toU' = Tail(toU)
  /\ \/ /\ up.state \notin {"Aborted", "LocalError"}
        /\ up' = Severed(up, "QueuedLocally")
        /\ conn' = CloseU(conn, up.socket)
        /\ UNCHANGED <<toD, faults>>
     \/ up.state \in {"Aborted", "LocalError"} /\ UNCHANGED <<up, conn, toD, faults>>
     \/ /\ Fault("unshared")
        /\ toD' = Append(toD, QueueFailed)
        /\ UNCHANGED <<up, conn>>
  /\ UNCHANGED <<size, down, file, delivered, link, gone>>

\* Upload::initiate with the peer connection up; sent is what U has sent on it. It fails
\* when the file does not open (setLocalError).
Initiate(sent) ==
  \/ /\ \E t \in Tickets \ Used :
          /\ \A s \in Tickets \ Used : t <= s
          /\ up' = Initiated(up, t)
          /\ toD' = Append(sent, Request(t))
     /\ UNCHANGED faults
  \/ /\ Fault("unreadable")
     /\ up' = Severed(up, "LocalError")
     /\ toD' = sent

\* checkUploads, when U has a slot for D: the upload is initiated at once when the peer
\* connection is there.
Start ==
  /\ up.state = "QueuedLocally"
  /\ \/ ~link /\ up' = [up EXCEPT !.state = "Initiating"] /\ UNCHANGED <<toD, faults>>
     \/ link /\ Initiate(toD)
  /\ UNCHANGED <<size, down, file, delivered, link, toU, conn, gone>>

\* onPeerTransferReplyReceived: an allowed transfer gets its connection, and the timer of
\* the reply is cancelled; another reply fails the upload, or is too late.
ReplyReceived ==
  /\ toU # <<>> /\ Head(toU) # Queue
  /\ toU' = Tail(toU)
  /\ LET m == Head(toU)
         expected == up.state = "Waiting" /\ up.ticket = m.ticket
     IN  \/ /\ expected /\ m.allowed
            /\ up' = [up EXCEPT !.socket = m.ticket, !.timer = FALSE]
            /\ conn' = [CloseU(conn, up.socket) EXCEPT ![m.ticket] = [NoConnection EXCEPT !.u = "dialling"]]
         \/ /\ expected /\ ~m.allowed
            /\ up' = Severed(up, "RemoteError")
            /\ conn' = CloseU(conn, up.socket)
         \/ ~expected /\ UNCHANGED <<up, conn>>
  /\ UNCHANGED <<size, down, file, delivered, link, toD, gone, faults>>

\* The connection is made, and the ticket, sent by then, is under way.
Dialled(t) ==
  /\ conn[t].u = "dialling"
  /\ conn' = [conn EXCEPT ![t].u = "open"]
  /\ UNCHANGED <<size, up, down, file, delivered, link, toU, toD, gone, faults>>

\* UploadSocket::onCannotConnect.
CannotDial(t) ==
  /\ conn[t].u = "dialling" /\ up.socket = t
  /\ Fault("dial")
  /\ up' = Severed(up, "CannotConnect")
  /\ conn' = [conn EXCEPT ![t] = NoConnection]
  /\ UNCHANGED <<size, down, file, delivered, link, toU, toD, gone>>

\* Variant for the mutation runs: the upload goes on from where it stood.
OffsetIgnored(t) ==
  /\ conn[t].u = "open" /\ conn[t].cut = "no" /\ conn[t].offset # <<>>
  /\ conn' = [conn EXCEPT ![t].offset = <<>>]
  /\ up' = IF up.state = "Waiting" /\ up.socket = t THEN [up EXCEPT !.state = "Transferring"] ELSE up
  /\ UNCHANGED <<size, down, file, delivered, link, toU, toD, gone, faults>>

\* The positions that findPosition may read from the 8 bytes of offset o: it shifts each
\* byte as an int. Bit 31 extends the sign, and makes the position too large for any file;
\* shifts of 32 bits and more may yield anything below o.
TooLarge == size + 1
Decoded(o) ==
  IF o < TwoGiB THEN {o} ELSE IF o < FourGiB THEN {TooLarge} ELSE 0 .. o - 1 \union {TooLarge}

\* UploadSocket::findPosition: the upload goes on from the position it reads, or fails with
\* "File error" (setLocalError) when there is no such position in the file.
OffsetReceived(t) ==
  /\ conn[t].u = "open" /\ conn[t].cut = "no" /\ conn[t].offset # <<>>
  /\ LET expected == up.state = "Waiting" /\ up.socket = t
         read == [conn EXCEPT ![t].offset = <<>>]
     IN  \/ /\ expected
            /\ \E pos \in Decoded(Head(conn[t].offset)) :
                 \/ /\ pos <= size
                    /\ up' = [up EXCEPT !.state = "Transferring", !.pos = pos]
                    /\ conn' = read
                 \/ /\ pos > size
                    /\ up' = Severed(up, "LocalError")
                    /\ conn' = CloseU(conn, t)
         \/ ~expected /\ conn' = read /\ UNCHANGED up
  /\ UNCHANGED <<size, down, file, delivered, link, toU, toD, gone, faults>>

\* onDataSent, and Upload::read, block by block. (A read that fails sends nothing, and is
\* never noticed: dataTimeout follows.)
DataSent(t) ==
  /\ conn[t].u = "open" /\ up.state = "Transferring" /\ up.socket = t /\ up.pos < size
  /\ up' = [up EXCEPT !.pos = @ + 1]
  /\ conn' = IF conn[t].cut = "no" /\ conn[t].d # "closed"
               THEN [conn EXCEPT ![t].data = Append(@, up.pos + 1)] ELSE conn
  /\ UNCHANGED <<size, down, file, delivered, link, toU, toD, gone, faults>>

\* U's end is closed: by D, by the network, or by UploadSocket::dataTimeout, which is
\* armed from the sending of the ticket on. It takes a fault to fire when D is only slow.
NothingToCome(t) ==
  \/ conn[t].d \in {"deaf", "closed"} \/ conn[t].cut # "no"
  \/ up.state = "Transferring" /\ up.pos = size /\ conn[t].data = <<>>

UploadSocketClosed(t) ==
  /\ conn[t].u \in {"dialling", "open"} /\ up.socket = t
  /\ IF NothingToCome(t) THEN UNCHANGED faults ELSE Fault("slow")
  /\ up' = Severed(up, EndOf(up))
  /\ conn' = CloseU(conn, t)
  /\ UNCHANGED <<size, down, file, delivered, link, toU, toD, gone>>

\* Upload::replyTimeout, whatever the upload is doing by then. It takes a fault to fire
\* while the answer is under way, or when the upload waits no longer and has not been
\* initiated again, which cancels the timer.
ReplyTimeout ==
  /\ up.timer
  /\ \/ up.state # "Waiting" /\ Fault("stale")
     \/ up.state = "Waiting" /\ Pending(up.ticket) /\ Fault("slow")
     \/ up.state = "Waiting" /\ ~Pending(up.ticket) /\ UNCHANGED faults
  /\ up' = [Severed(up, "CannotConnect") EXCEPT !.timer = FALSE]
  /\ conn' = CloseU(conn, up.socket)
  /\ UNCHANGED <<size, down, file, delivered, link, toU, toD, gone>>

\* UploadManager::onPeerSocketUnavailable.
DownloaderUnreachable ==
  /\ up.state \in {"Initiating", "Waiting", "Transferring"}
  /\ Fault("noDownloader")
  /\ up' = Severed(up, "CannotConnect")
  /\ conn' = CloseU(conn, up.socket)
  /\ UNCHANGED <<size, down, file, delivered, link, toU, toD, gone>>

\* UploadManager::abort.
AbortUpload ==
  /\ up.state \notin {"none", "Finished", "Aborted"}
  /\ Fault("abortU")
  /\ up' = Severed(up, IF up.socket # NoTicket /\ up.pos >= size THEN "Finished" ELSE "Aborted")
  /\ conn' = CloseU(conn, up.socket)
  /\ UNCHANGED <<size, down, file, delivered, link, toU, toD, gone>>

-----------------------------------------------------------------------------
(* The downloader. *)

Asks(d) == d.state = "Offline" \/ (d.state = "QueuedRemotely" /\ ~d.enqueued)

\* checkDownloads, for a download in state QueuedRemotely or Offline, and the rest of
\* onPeerSocketReady when the peer connection is there: PQueueDownload is sent.
Asking(d) == [d EXCEPT !.state = "Initiating", !.enqueued = TRUE, !.initTimer = TRUE]
Checked(d) ==
  /\ down' = IF Asks(d) /\ link THEN Asking(d) ELSE d
  /\ toU' = IF Asks(d) /\ link THEN Append(toU, Queue) ELSE toU

\* DownloadManager::add: a file already in the download directory needs no transfer.
Added(d) ==
  [d EXCEPT !.state = IF delivered THEN "Finished" ELSE "QueuedRemotely", !.enqueued = FALSE]

\* Variant for the mutation runs: the failed download is not retried.
FailedForGood(d, s) == [d EXCEPT !.state = s, !.socket = NoTicket]

\* setState for a failed state: the download is retried 30 s later.
Failed(d, s) == [d EXCEPT !.state = s, !.socket = NoTicket, !.retryTimer = TRUE]

\* Variant for the mutation runs: a state the manager does not know.
DisconnectedElsewhere(d) == Failed(d, "LocalError")

\* DownloadSocket::onDisconnected.
Disconnected(d) ==
  IF Len(file) >= size THEN [d EXCEPT !.state = "Finished", !.socket = NoTicket]
  ELSE Failed(d, "ConnectionClosed")

\* setSocket(0): the socket there is gets disconnected first.
Dropped(d) == [(IF d.socket = NoTicket THEN d ELSE Disconnected(d)) EXCEPT !.initTimer = FALSE]

\* onTransferRequested: the transfer is taken, unless D has no slot for it, or is past it.
\* The answer that a file in the download directory gets is followed by a second one.
RequestReceived ==
  /\ toD # <<>> /\ Head(toD) # QueueFailed
  /\ toD' = Tail(toD)
  /\ LET t == Head(toD).ticket
         d == IF delivered THEN [down EXCEPT !.state = "Finished"] ELSE down
     IN  \/ /\ d.state \in OfferableStates
            /\ down' = [Dropped(d) EXCEPT !.state = "Waiting", !.ticket = t, !.socket = t]
            /\ conn' = CloseD(conn, d.socket)
            /\ toU' = Append(toU, Reply(t, TRUE))
            /\ UNCHANGED faults
         \/ /\ IF d.state \in OfferableStates THEN Fault("slots") ELSE UNCHANGED faults
            /\ down' = d
            /\ toU' = toU \o (IF delivered THEN <<Reply(t, FALSE), Reply(t, FALSE)>> ELSE <<Reply(t, FALSE)>>)
            /\ UNCHANGED conn
  /\ UNCHANGED <<size, up, file, delivered, link, gone>>

\* onQueueFailedReceived, and onPeerSocketUnavailable for a download in progress.
Refused(s) ==
  /\ down' = [Failed(Dropped(down), s) EXCEPT !.enqueued = FALSE]
  /\ conn' = CloseD(conn, down.socket)

QueueRefused ==
  /\ toD # <<>> /\ Head(toD) = QueueFailed
  /\ toD' = Tail(toD)
  /\ Refused("RemoteError")
  /\ UNCHANGED <<size, up, file, delivered, link, toU, gone, faults>>

UploaderUnreachable ==
  /\ down.state \in {"Initiating", "Waiting", "Transferring"}
  /\ Fault("noUploader")
  /\ Refused("CannotConnect")
  /\ UNCHANGED <<size, up, file, delivered, link, toU, toD, gone>>

\* Variant for the mutation runs: a download that waits takes any ticket.
AnyAwaited(t) == down.state = "Waiting"

\* onTransferTicketReceived: the ticket is the one of the download that waits.
Awaited(t) == down.state = "Waiting" /\ down.ticket = t

\* The ticket arrives. The download that waits for it takes the connection, and sends the
\* length of its copy; otherwise the TicketSocket is dropped, and its descriptor left open.
TicketReceived(t) ==
  /\ conn[t].u \in {"open", "closed"} /\ conn[t].d = "none" /\ conn[t].cut = "no"
  /\ down' = IF Awaited(t) THEN [down EXCEPT !.state = "Transferring"] ELSE down
  /\ conn' = [conn EXCEPT ![t] = Settled(
       IF Awaited(t) THEN [@ EXCEPT !.d = "open", !.start = Len(file),
                                    !.offset = IF conn[t].u = "open" THEN <<Len(file)>> ELSE <<>>]
       ELSE [@ EXCEPT !.d = "deaf"])]
  /\ UNCHANGED <<size, up, file, delivered, link, toU, toD, gone, faults>>

\* Variant for the mutation runs: the copy is taken for whole one block too early.
WholeEarly(n) == n + 1 >= size

\* A copy of n blocks is the whole file.
Whole(n) == n >= size

\* onDataReceived: a block is appended to the copy; the last one also finishes the
\* download and moves the copy to the download directory.
DataReceived(t) ==
  /\ conn[t].d = "open" /\ conn[t].data # <<>> /\ down.state = "Transferring"
  /\ file' = Append(file, Head(conn[t].data))
  /\ delivered' = Whole(Len(file) + 1)
  /\ IF Whole(Len(file) + 1)
       THEN /\ down' = [down EXCEPT !.state = "Finished", !.socket = NoTicket]
            /\ conn' = CloseD(conn, t)
       ELSE /\ conn' = [conn EXCEPT ![t].data = Tail(@)]
            /\ UNCHANGED down
  /\ UNCHANGED <<size, up, link, toU, toD, gone, faults>>

\* D's end is closed: by U once all the data is in, by the network, or by
\* DownloadSocket::dataTimeout, which is armed by the first data that comes.
DownloadSocketClosed(t) ==
  /\ conn[t].d = "open"
  /\ \/ /\ conn[t].data = <<>>
        /\ conn[t].cut = "reset" \/ (conn[t].u = "closed" /\ conn[t].cut = "no")
        /\ UNCHANGED faults
     \/ /\ Len(file) > conn[t].start
        /\ IF conn[t].cut # "no" THEN UNCHANGED faults ELSE Fault("slow")
  /\ down' = Disconnected(down)
  /\ conn' = CloseD(conn, t)
  /\ UNCHANGED <<size, up, file, delivered, link, toU, toD, gone>>

\* Download::initTimedOut, 10 s after the queue request: m_Enqueued stays set.
InitTimedOut ==
  /\ down.initTimer
  /\ down' = [down EXCEPT !.initTimer = FALSE, !.state = IF @ = "Initiating" THEN "QueuedRemotely" ELSE @]
  /\ UNCHANGED <<size, up, file, delivered, link, toU, toD, conn, gone, faults>>

\* Download::retry, whatever the download is doing by then: add skips the ones in progress.
\* It takes a fault for an earlier queue request to be under way still, 30 s later.
Retry ==
  /\ down.retryTimer
  /\ IF Queue \in Range(toU) THEN Fault("slow") ELSE UNCHANGED faults
  /\ LET d == [down EXCEPT !.retryTimer = FALSE]
     IN  IF d.state \in {"Offline", "Initiating", "Waiting", "Transferring"}
           THEN down' = d /\ UNCHANGED toU
           ELSE Checked(Added(d))
  /\ UNCHANGED <<size, up, file, delivered, link, toD, conn, gone>>

\* The user aborts the download, and may add it again.
AbortDownload ==
  /\ down.state \notin {"Finished", "Aborted"}
  /\ Fault("abortD")
  /\ down' = [Dropped(down) EXCEPT !.enqueued = FALSE,
                                   !.state = IF Dropped(down).state = "Finished" THEN @ ELSE "Aborted"]
  /\ conn' = CloseD(conn, down.socket)
  /\ UNCHANGED <<size, up, file, delivered, link, toU, toD, gone>>

AddAgain ==
  /\ down.state = "Aborted"
  /\ Checked(Added(down))
  /\ UNCHANGED <<size, up, file, delivered, link, toD, conn, gone, faults>>

-----------------------------------------------------------------------------
(* The peer connection, the server's notices, and the network. *)

\* A peer connection that one of the two asks for is made: onPeerSocketReady of both.
\* Bound: the server has reported an end that went offline before it is reached again.
LinkMade ==
  /\ ~link /\ gone = {}
  /\ up.state = "Initiating" \/ Asks(down)
  /\ link' = TRUE
  /\ down' = IF Asks(down) THEN Asking(down) ELSE down
  /\ toU' = IF Asks(down) THEN <<Queue>> ELSE <<>>
  /\ \/ /\ up.state # "Initiating"
        /\ up' = IF up.state = "Offline" THEN Severed(up, "QueuedLocally") ELSE up
        /\ conn' = IF up.state = "Offline" THEN CloseU(conn, up.socket) ELSE conn
        /\ toD' = <<>>
        /\ UNCHANGED faults
     \/ up.state = "Initiating" /\ Initiate(<<>>) /\ UNCHANGED conn
  /\ UNCHANGED <<size, file, delivered, gone>>

\* Nobody is told when the peer connection is lost.
LinkLost ==
  /\ link
  /\ Fault("link")
  /\ link' = FALSE /\ toU' = <<>> /\ toD' = <<>>
  /\ UNCHANGED <<size, up, down, file, delivered, conn, gone>>

\* What the network does to a transfer connection: what is in flight is lost, and the
\* ends are told of it or not. Without D's end it is a connection that was never made.
ConnectionCut(t) ==
  /\ conn[t].u # "none" /\ conn[t].cut = "no"
  /\ \E how \in {"reset", "silent"} :
       /\ Fault(IF conn[t].d = "none" THEN "dial" ELSE how)
       /\ conn' = [conn EXCEPT ![t] = Settled([@ EXCEPT !.cut = how, !.offset = <<>>, !.data = <<>>])]
  /\ UNCHANGED <<size, up, down, file, delivered, link, toU, toD, gone>>

\* An end is killed and started again. Uploads are not saved; a download is loaded
\* as it was saved, aborted or not, and what was not flushed of its copy is lost.
CrashU ==
  /\ Fault("crashU")
  /\ up' = NewUpload
  /\ conn' = CloseU(conn, up.socket)
  /\ link' = FALSE /\ toU' = <<>> /\ toD' = <<>>
  /\ gone' = gone \union {"U"}
  /\ UNCHANGED <<size, down, file, delivered>>

CrashD ==
  /\ down.state # "Finished"
  /\ Fault("crashD")
  /\ down' = [NewDownload EXCEPT !.state = IF down.state = "Aborted" THEN "Aborted" ELSE "Offline"]
  /\ \/ /\ down.state = "Transferring"
        /\ \E n \in conn[down.socket].start .. Len(file) : file' = SubSeq(file, 1, n)
     \/ down.state # "Transferring" /\ UNCHANGED file
  /\ conn' = [t \in Tickets |->
                IF conn[t].u \in {"open", "closed"}
                  THEN Settled([conn[t] EXCEPT !.d = "closed", !.offset = <<>>, !.data = <<>>]) ELSE conn[t]]
  /\ link' = FALSE /\ toU' = <<>> /\ toD' = <<>>
  /\ gone' = gone \union {"D"}
  /\ UNCHANGED <<size, up, delivered>>

\* Variant for the mutation runs: the download still counts as asked for.
DownloaderToldStillAsked ==
  /\ "U" \in gone /\ gone' = gone \ {"U"}
  /\ Checked([down EXCEPT !.state = IF @ \in {"QueuedRemotely", "Initiating", "Waiting"} THEN "QueuedRemotely" ELSE @])
  /\ UNCHANGED <<size, up, file, delivered, link, toD, conn, faults>>

\* onPeerOffline of the upload side, which keeps the socket, and of the download side.
UploaderTold ==
  /\ "D" \in gone /\ gone' = gone \ {"D"}
  /\ up' = IF up.state \in {"QueuedLocally", "Initiating", "Waiting"}
             THEN [up EXCEPT !.state = "Offline"] ELSE up
  /\ UNCHANGED <<size, down, file, delivered, link, toU, toD, conn, faults>>

DownloaderTold ==
  /\ "U" \in gone /\ gone' = gone \ {"U"}
  /\ Checked([down EXCEPT !.enqueued = FALSE,
                          !.state = IF @ \in {"QueuedRemotely", "Initiating", "Waiting"} THEN "Offline" ELSE @])
  /\ UNCHANGED <<size, up, file, delivered, link, toD, conn, faults>>

-----------------------------------------------------------------------------

Works ==
  /\ \/ QueueReceived \/ Start \/ ReplyReceived \/ ReplyTimeout
     \/ RequestReceived \/ QueueRefused \/ InitTimedOut \/ Retry
     \/ LinkMade \/ UploaderTold \/ DownloaderTold
     \/ \E t \in Tickets :
          \/ Dialled(t) \/ OffsetReceived(t) \/ DataSent(t) \/ UploadSocketClosed(t)
          \/ TicketReceived(t) \/ DataReceived(t) \/ DownloadSocketClosed(t)

Fails ==
  \/ DownloaderUnreachable \/ UploaderUnreachable \/ AbortUpload \/ AbortDownload \/ AddAgain
  \/ LinkLost \/ CrashU \/ CrashD
  \/ \E t \in Tickets : CannotDial(t) \/ ConnectionCut(t)

Next == Works \/ Fails

Spec == Init /\ [][Next]_vars

\* The two programs go on by themselves: their reactors serve the sockets that have
\* something to report and the timers that are due, and the network delivers.
FairSpec == Spec /\ WF_vars(Works /\ UNCHANGED faults)

-----------------------------------------------------------------------------
(* Properties. *)

\* D's copy is the beginning of the file whatever is lost, repeated or late, and what is
\* in the download directory is whole and final, as long as no transfer goes on from 4 GiB
\* or more.
Copy == INSTANCE FileTransfer
ResumedBelow(n) == \A t \in Tickets : conn[t].start < n
CopySpec == Copy!Init /\ [][ResumedBelow(FourGiB) => Copy!Next]_<<size, file, delivered>>

\* At most one connection is written to D's copy, the one of the socket the download
\* has: two would interleave their blocks.
OneWriter ==
  \A t \in Tickets : conn[t].d = "open" => down.socket = t /\ down.state = "Transferring"

\* Both ends agree on where the transfer is: while neither has left it, what U has sent is
\* what D has and what is under way, unless it went on from 4 GiB or more; before, the offset
\* under way is the length of D's copy.
EndsAgree ==
  \A t \in Tickets : conn[t].d = "open" /\ conn[t].cut = "no" =>
    /\ conn[t].offset # <<>> => conn[t].offset = <<Len(file)>> /\ conn[t].data = <<>>
    /\ up.socket = t /\ up.state = "Transferring" /\ conn[t].start < FourGiB =>
         up.pos = Len(file) + Len(conn[t].data)

\* The ways a transfer may end or halt for good. U's side of the first two is over, and
\* says so to nobody: D has no timeout for its place in U's queue, nor for the ticket.
UploaderQuit == up.state \in FailedStates \union {"none", "Offline", "Finished", "Aborted", "LocalError"}
Forgotten == down.state = "QueuedRemotely" /\ down.enqueued /\ UploaderQuit
Stranded  == down.state = "Waiting" /\ UploaderQuit
Deaf      == down.state = "Transferring" /\ \E t \in Tickets : conn[t].d = "open" /\ conn[t].cut = "silent"
Unmoved   == down.state = "Finished" /\ ~delivered

\* Whatever happens, the transfer comes to an end, or halts in one of these ways only.
Settles ==
  <>[](delivered \/ down.state = "Aborted" \/ Forgotten \/ Stranded \/ Deaf \/ Unmoved)

\* The file is delivered when nothing goes wrong, and also when U is killed and started
\* again, when it does not share the file for a while, and when the transfer connection
\* breaks: D's retries make up for these faults, unless one goes on from 2 GiB or more.
Recoverable == {"crashU", "unshared", "reset"}
RetriesSuffice ==
  size > 0 /\ [](faults \subseteq Recoverable /\ ResumedBelow(TwoGiB)) => <>delivered
=============================================================================
