--------------------------- MODULE Transfer_proofs ---------------------------
(***************************************************************************)
(* The transfer of a file keeps its promise for any sizes, any tickets and *)
(* any number of faults, but for what goes on from 4 GiB: the copy is the  *)
(* beginning of the file.                                                  *)
(*                                                                         *)
(* Wired is what has to be known of each transfer connection for it: which *)
(* of them is written to the copy, where it began and, when that was below *)
(* 4 GiB, that the blocks on it are the next ones of the file and that U   *)
(* goes on where they end. The tickets need not be fresh, and the messages *)
(* of the peer connection may be any.                                      *)
(***************************************************************************)
EXTENDS Transfer, TLAPS

MessageToU == {Queue} \union {Reply(t, allowed) : t \in Tickets, allowed \in BOOLEAN}
MessageToD == {QueueFailed} \union {Request(t) : t \in Tickets}

\* The upload sends data on a connection.
Sends(u, t) == u.state = "Transferring" /\ u.socket = t

\* The blocks on connection c are the next ones of the file, and U goes on where they end.
Fed(c, t, u, f) ==
  /\ \A i \in 1 .. Len(c.data) : c.data[i] = Len(f) + i
  /\ Len(f) + Len(c.data) <= size
  /\ c.cut = "no" /\ Sends(u, t) => u.pos = Len(f) + Len(c.data)

\* The connection c for ticket t, with the ends u and d, and the copy f.
ConnGood(c, t, u, d, f) ==
  /\ c.d # "none" => c.u \in {"open", "closed"}
  /\ c.d = "none" => c.offset = <<>> /\ c.data = <<>>
  /\ Sends(u, t) => c.u = "open" /\ c.d # "none" /\ c.offset = <<>>
  /\ c.start = 0 \/ c.start < size
  /\ c.d = "open" =>
       /\ d.socket = t /\ d.state = "Transferring"
       /\ c.start <= Len(f)
       /\ c.cut = "no" /\ c.offset # <<>> => c.offset = <<Len(f)>> /\ c.data = <<>> /\ c.start = Len(f)
       /\ c.start < FourGiB => Fed(c, t, u, f)

Wired(c, u, d, f) == \A t \in Tickets : ConnGood(c[t], t, u, d, f)

\* The download in progress has its socket, and is over once the copy is delivered.
DownGood(d, done) ==
  /\ d.state \in {"Waiting", "Transferring"} => d.socket = d.ticket /\ d.ticket \in Tickets
  /\ done => d.state \notin {"Waiting", "Transferring"}

\* The copy is no longer than the file, and is delivered as soon as it is as long.
CopyGood(f, done) == Len(f) <= size /\ (Len(f) = size => done \/ f = <<>>)

Inv == TypeOK /\ Wired(conn, up, down, file) /\ DownGood(down, delivered) /\ CopyGood(file, delivered)

\* Nothing is written to the copy.
NoneOpen(c) == \A t \in Tickets : c[t].d # "open"

\* Nothing is sent.
Quiet(u) == \A t \in Tickets : ~Sends(u, t)

-----------------------------------------------------------------------------
(* Connections. *)

LEMMA TicketsNotZero == NoTicket \notin Tickets
BY TransferAssumption DEF NoTicket

LEMMA NoConnectionGood ==
  /\ NoConnection \in Connection
  /\ NoConnection.d = "none" /\ NoConnection.u = "none" /\ NoConnection.offset = <<>> /\ NoConnection.data = <<>>
  /\ NoConnection.start = 0
BY DEF NoConnection, Connection

LEMMA AppendFacts ==
  ASSUME NEW q \in Seq(Nat), NEW x \in Nat
  PROVE  /\ Append(q, x) \in Seq(Nat) /\ Len(q) \in Nat /\ Len(Append(q, x)) = Len(q) + 1
         /\ \A i \in 1 .. Len(q) + 1 : Append(q, x)[i] = IF i = Len(q) + 1 THEN x ELSE q[i]
OBVIOUS

LEMMA EmptyType == <<>> \in Seq(Nat)
OBVIOUS

LEMMA MessageFacts ==
  ASSUME NEW S, NEW q \in Seq(S), NEW x \in S
  PROVE  Append(q, x) \in Seq(S) /\ q \o <<x>> \in Seq(S) /\ q \o <<x, x>> \in Seq(S)
<1>1. <<x>> \in Seq(S) /\ <<x, x>> \in Seq(S)
  OBVIOUS
<1> QED BY <1>1

LEMMA FieldTypes ==
  \A x \in Connection, q \in Seq(Nat) :
    /\ [x EXCEPT !.u = "closed", !.offset = q] \in Connection
    /\ [x EXCEPT !.d = "closed", !.data = q] \in Connection
    /\ [x EXCEPT !.d = "closed", !.data = q].u = x.u
BY DEF Connection

\* The operations on a connection keep its type; what they change.
LEMMA SettledType ==
  ASSUME NEW c \in Connection
  PROVE  Settled(c) \in Connection /\ (Settled(c) = c \/ (Settled(c) = NoConnection /\ c.u = "closed"))
BY NoConnectionGood DEF Settled, Over

LEMMA CloseUFacts ==
  ASSUME NEW c \in [Tickets -> Connection], NEW t
  PROVE  /\ CloseU(c, t) \in [Tickets -> Connection]
         /\ \A s \in Tickets : \/ CloseU(c, t)[s] = c[s]
                               \/ CloseU(c, t)[s] = NoConnection
                               \/ CloseU(c, t)[s] = [c[s] EXCEPT !.u = "closed", !.offset = <<>>]
                                    /\ c[s].u # "dialling"
<1>1. \A x \in Connection : [x EXCEPT !.u = "closed", !.offset = <<>>] \in Connection
  BY FieldTypes, EmptyType
<1>2. CloseU(c, t) = [s \in Tickets |-> IF s # t THEN c[s]
                                        ELSE IF c[s].u = "dialling" THEN NoConnection
                                        ELSE Settled([c[s] EXCEPT !.u = "closed", !.offset = <<>>])]
  BY DEF CloseU
<1>3. ASSUME NEW s \in Tickets
      PROVE  /\ CloseU(c, t)[s] \in Connection
             /\ \/ CloseU(c, t)[s] = c[s]
                \/ CloseU(c, t)[s] = NoConnection
                \/ CloseU(c, t)[s] = [c[s] EXCEPT !.u = "closed", !.offset = <<>>] /\ c[s].u # "dialling"
  <2> DEFINE n == [c[s] EXCEPT !.u = "closed", !.offset = <<>>]
  <2>1. n \in Connection
    BY <1>1
  <2> HIDE DEF n
  <2>2. Settled(n) \in Connection /\ (Settled(n) = n \/ Settled(n) = NoConnection)
    BY <2>1, SettledType
  <2>3. CloseU(c, t)[s] = IF s # t THEN c[s] ELSE IF c[s].u = "dialling" THEN NoConnection ELSE Settled(n)
    BY <1>2 DEF n
  <2> QED BY <2>2, <2>3, NoConnectionGood DEF n
<1>4. CloseU(c, t) \in [Tickets -> Connection]
  BY <1>2, <1>3
<1> QED BY <1>3, <1>4

LEMMA CloseDFacts ==
  ASSUME NEW c \in [Tickets -> Connection], NEW t
  PROVE  /\ CloseD(c, t) \in [Tickets -> Connection]
         /\ \A s \in Tickets : \/ CloseD(c, t)[s] = c[s] /\ (s # t \/ c[s].d # "open")
                               \/ CloseD(c, t)[s] = NoConnection /\ c[s].u = "closed"
                               \/ CloseD(c, t)[s] = [c[s] EXCEPT !.d = "closed", !.data = <<>>] /\ c[s].d = "open"
<1>1. \A x \in Connection : LET n == [x EXCEPT !.d = "closed", !.data = <<>>] IN n \in Connection /\ n.u = x.u
  BY FieldTypes, EmptyType
<1>2. CloseD(c, t) = [s \in Tickets |-> IF s = t /\ c[s].d = "open"
                                          THEN Settled([c[s] EXCEPT !.d = "closed", !.data = <<>>]) ELSE c[s]]
  BY DEF CloseD
<1>3. ASSUME NEW s \in Tickets
      PROVE  /\ CloseD(c, t)[s] \in Connection
             /\ \/ CloseD(c, t)[s] = c[s] /\ (s # t \/ c[s].d # "open")
                \/ CloseD(c, t)[s] = NoConnection /\ c[s].u = "closed"
                \/ CloseD(c, t)[s] = [c[s] EXCEPT !.d = "closed", !.data = <<>>] /\ c[s].d = "open"
  <2> DEFINE n == [c[s] EXCEPT !.d = "closed", !.data = <<>>]
  <2>1. n \in Connection /\ n.u = c[s].u
    BY <1>1
  <2> HIDE DEF n
  <2>2. Settled(n) \in Connection /\ (Settled(n) = n \/ (Settled(n) = NoConnection /\ n.u = "closed"))
    BY <2>1, SettledType
  <2>3. CloseD(c, t)[s] = IF s = t /\ c[s].d = "open" THEN Settled(n) ELSE c[s]
    BY <1>2 DEF n
  <2> QED BY <2>1, <2>2, <2>3 DEF n
<1>4. CloseD(c, t) \in [Tickets -> Connection]
  BY <1>2, <1>3
<1> QED BY <1>3, <1>4

\* U's end of a connection is closed, and U sends no more.
LEMMA CloseUGood ==
  ASSUME NEW c \in [Tickets -> Connection], NEW t, NEW u, NEW d, NEW f, Wired(c, u, d, f), NEW v, Quiet(v)
  PROVE  Wired(CloseU(c, t), v, d, f)
<1> SUFFICES ASSUME NEW s \in Tickets PROVE ConnGood(CloseU(c, t)[s], s, v, d, f)
  BY DEF Wired
<1>1. ConnGood(c[s], s, u, d, f) /\ ~Sends(v, s) /\ c[s] \in Connection
  BY DEF Wired, Quiet
<1>2. CASE CloseU(c, t)[s] = c[s]
  BY <1>1, <1>2 DEF ConnGood, Fed
<1>3. CASE CloseU(c, t)[s] = NoConnection
  BY <1>1, <1>3, NoConnectionGood DEF ConnGood, Fed
<1>4. CASE CloseU(c, t)[s] = [c[s] EXCEPT !.u = "closed", !.offset = <<>>] /\ c[s].u # "dialling"
  <2> DEFINE n == [c[s] EXCEPT !.u = "closed", !.offset = <<>>]
  <2>1. n.u = "closed" /\ n.offset = <<>> /\ n.d = c[s].d /\ n.data = c[s].data /\ n.cut = c[s].cut
        /\ n.start = c[s].start
    BY <1>1 DEF Connection
  <2> HIDE DEF n
  <2> QED BY <1>1, <1>4, <2>1 DEF ConnGood, Fed, n
<1>5. \/ CloseU(c, t)[s] = c[s]
      \/ CloseU(c, t)[s] = NoConnection
      \/ CloseU(c, t)[s] = [c[s] EXCEPT !.u = "closed", !.offset = <<>>] /\ c[s].u # "dialling"
  BY CloseUFacts
<1> QED BY <1>2, <1>3, <1>4, <1>5

\* D's end is closed: nothing is written to the copy any longer, whatever D does next.
LEMMA CloseDGood ==
  ASSUME NEW c \in [Tickets -> Connection], NEW u, NEW d, NEW f, Wired(c, u, d, f), NEW e, NEW g
  PROVE  Wired(CloseD(c, d.socket), u, e, g) /\ NoneOpen(CloseD(c, d.socket))
<1> SUFFICES ASSUME NEW s \in Tickets
             PROVE  ConnGood(CloseD(c, d.socket)[s], s, u, e, g) /\ CloseD(c, d.socket)[s].d # "open"
  BY DEF Wired, NoneOpen
<1>1. ConnGood(c[s], s, u, d, f) /\ c[s] \in Connection
  BY DEF Wired
<1>2. CASE CloseD(c, d.socket)[s] = c[s] /\ (s # d.socket \/ c[s].d # "open")
  BY <1>1, <1>2 DEF ConnGood, Fed
<1>3. CASE CloseD(c, d.socket)[s] = NoConnection /\ c[s].u = "closed"
  BY <1>1, <1>3, NoConnectionGood DEF ConnGood, Fed
<1>4. CASE CloseD(c, d.socket)[s] = [c[s] EXCEPT !.d = "closed", !.data = <<>>] /\ c[s].d = "open"
  <2> DEFINE n == [c[s] EXCEPT !.d = "closed", !.data = <<>>]
  <2>1. n.u = c[s].u /\ n.offset = c[s].offset /\ n.d = "closed" /\ n.start = c[s].start
    BY <1>1 DEF Connection
  <2> HIDE DEF n
  <2> QED BY <1>1, <1>4, <2>1 DEF ConnGood, Fed, n
<1> DEFINE t == d.socket
<1>5. \/ CloseD(c, t)[s] = c[s] /\ (s # t \/ c[s].d # "open")
      \/ CloseD(c, t)[s] = NoConnection /\ c[s].u = "closed"
      \/ CloseD(c, t)[s] = [c[s] EXCEPT !.d = "closed", !.data = <<>>] /\ c[s].d = "open"
  <2>1. \A x : \A s1 \in Tickets :
          \/ CloseD(c, x)[s1] = c[s1] /\ (s1 # x \/ c[s1].d # "open")
          \/ CloseD(c, x)[s1] = NoConnection /\ c[s1].u = "closed"
          \/ CloseD(c, x)[s1] = [c[s1] EXCEPT !.d = "closed", !.data = <<>>] /\ c[s1].d = "open"
    BY CloseDFacts
  <2> QED BY <2>1
<1> QED BY <1>2, <1>3, <1>4, <1>5

\* Without a connection that is written to the copy, D and the copy do not matter.
LEMMA NoneOpenGood ==
  ASSUME NEW c, NEW u, NEW d, NEW f, Wired(c, u, d, f), NoneOpen(c), NEW e, NEW g
  PROVE  Wired(c, u, e, g)
BY DEF Wired, NoneOpen, ConnGood, Fed

\* There is none unless the download is transferring.
LEMMA NotTransferring ==
  ASSUME NEW c, NEW u, NEW d, NEW f, Wired(c, u, d, f), d.state # "Transferring"
  PROVE  NoneOpen(c)
BY DEF Wired, NoneOpen, ConnGood, Fed

\* An upload that sends nothing matters to no connection.
LEMMA QuietGood ==
  ASSUME NEW c, NEW u, NEW d, NEW f, Wired(c, u, d, f), NEW v, Quiet(v)
  PROVE  Wired(c, v, d, f)
BY DEF Wired, Quiet, ConnGood, Fed

-----------------------------------------------------------------------------
(* The two ends. *)

LEMMA SeveredType ==
  ASSUME NEW u \in Upload, NEW s \in UStates
  PROVE  /\ Severed(u, s) \in Upload /\ Quiet(Severed(u, s)) /\ Severed(u, s).state = s
         /\ \A b \in BOOLEAN : [Severed(u, s) EXCEPT !.timer = b] \in Upload /\ Quiet([Severed(u, s) EXCEPT !.timer = b])
BY TicketsNotZero DEF Severed, Upload, Quiet, Sends

LEMMA EndOfState == \A u : EndOf(u) \in UStates
BY DEF EndOf, UStates, FailedStates

LEMMA InitiatedType ==
  ASSUME NEW u \in Upload, NEW t \in Tickets
  PROVE  Initiated(u, t) \in Upload /\ Quiet(Initiated(u, t))
BY DEF Initiated, Upload, UStates, Quiet, Sends

\* A state that is no transfer in progress.
IdleStates == DStates \ {"Waiting", "Transferring"}

LEMMA FailedType ==
  ASSUME NEW d \in Download, NEW s \in IdleStates
  PROVE  Failed(d, s) \in Download /\ Failed(d, s).state \in IdleStates
BY DEF Failed, Download, IdleStates

LEMMA DisconnectedType ==
  ASSUME NEW d \in Download
  PROVE  Disconnected(d) \in Download /\ Disconnected(d).state \in IdleStates
<1>1. "ConnectionClosed" \in IdleStates /\ "Finished" \in IdleStates
  BY DEF IdleStates, DStates, FailedStates
<1>2. CASE Len(file) >= size
  BY <1>1, <1>2 DEF Disconnected, Download, IdleStates
<1>3. CASE ~(Len(file) >= size)
  BY <1>1, <1>3, FailedType DEF Disconnected
<1> QED BY <1>2, <1>3

LEMMA DroppedType ==
  ASSUME NEW d \in Download
  PROVE  /\ Dropped(d) \in Download
         /\ DownGood(d, FALSE) => Dropped(d).state \in IdleStates
<1> DEFINE e == IF d.socket = NoTicket THEN d ELSE Disconnected(d)
<1>1. e \in Download
  BY DisconnectedType
<1>2. DownGood(d, FALSE) => e.state \in IdleStates
  <2>1. CASE d.socket # NoTicket
    BY <2>1, DisconnectedType
  <2>2. CASE d.socket = NoTicket
    BY <2>2, TicketsNotZero DEF DownGood, IdleStates, Download
  <2> QED BY <2>1, <2>2
<1>3. Dropped(d) = [e EXCEPT !.initTimer = FALSE]
  BY DEF Dropped
<1> HIDE DEF e
<1> QED BY <1>1, <1>2, <1>3 DEF Download

\* What checkDownloads makes of a download that is not in progress.
LEMMA CheckedType ==
  ASSUME NEW d \in Download, d.state \notin {"Waiting", "Transferring"}, Checked(d),
         toU \in Seq(MessageToU)
  PROVE  /\ down' \in Download /\ down'.state \notin {"Waiting", "Transferring"}
         /\ toU' \in Seq(MessageToU)
<1>1. Asking(d) \in Download /\ Asking(d).state = "Initiating"
  BY DEF Asking, Download, DStates
<1>2. down' \in {d, Asking(d)}
  BY DEF Checked
<1>3. toU' \in {toU, Append(toU, Queue)}
  BY DEF Checked
<1>4. Append(toU, Queue) \in Seq(MessageToU)
  BY DEF MessageToU
<1> QED BY <1>1, <1>2, <1>3, <1>4

LEMMA AddedType ==
  ASSUME NEW d \in Download
  PROVE  Added(d) \in Download /\ Added(d).state \in IdleStates
BY DEF Added, Download, DStates, IdleStates

LEMMA TypeParts ==
  ASSUME TypeOK
  PROVE  /\ size \in Nat /\ up \in Upload /\ down \in Download /\ file \in Seq(Nat) /\ Len(file) \in Nat
         /\ toU \in Seq(MessageToU) /\ toD \in Seq(MessageToD)
         /\ conn \in [Tickets -> Connection]
         /\ \A t \in Tickets : /\ conn[t] \in Connection
                               /\ conn[t].offset \in Seq(Nat) /\ conn[t].data \in Seq(Nat) /\ conn[t].start \in Nat
BY TransferAssumption DEF TypeOK, MessageToU, MessageToD, Connection

LEMMA TypePartsNext ==
  ASSUME TypeOK, up' \in Upload, down' \in Download, file' \in Seq(Nat), delivered' \in BOOLEAN, link' \in BOOLEAN,
         toU' \in Seq(MessageToU), toD' \in Seq(MessageToD), conn' \in [Tickets -> Connection],
         gone' \subseteq {"U", "D"}, faults' \subseteq Kinds, size' = size
  PROVE  TypeOK'
BY DEF TypeOK, MessageToU, MessageToD

LEMMA FaultType == ASSUME NEW kind \in Kinds, faults \subseteq Kinds, Fault(kind) PROVE faults' \subseteq Kinds
BY DEF Fault

-----------------------------------------------------------------------------
(* Steps. *)

\* Any step is good that leaves the connections, the download and the copy so.
LEMMA StepGood ==
  ASSUME Inv, up' \in Upload, down' \in Download, file' \in Seq(Nat), delivered' \in BOOLEAN, link' \in BOOLEAN,
         toU' \in Seq(MessageToU), toD' \in Seq(MessageToD), conn' \in [Tickets -> Connection],
         gone' \subseteq {"U", "D"}, faults' \subseteq Kinds, size' = size,
         Wired(conn', up', down', file'), DownGood(down', delivered'), CopyGood(file', delivered')
  PROVE  Inv'
<1>1. TypeOK'
  BY TypePartsNext DEF Inv
<1>2. Wired(conn, up, down, file)'
  BY DEF Wired, ConnGood, Fed
<1>3. CopyGood(file, delivered)'
  BY DEF CopyGood
<1> QED BY <1>1, <1>2, <1>3 DEF Inv, DownGood

\* A step of U after which it sends nothing.
LEMMA UploadStepGood ==
  ASSUME Inv, up' \in Upload, Quiet(up'), conn' = conn \/ \E t : conn' = CloseU(conn, t),
         UNCHANGED <<size, down, file, delivered>>, link' \in BOOLEAN,
         toU' \in Seq(MessageToU), toD' \in Seq(MessageToD), gone' \subseteq {"U", "D"}, faults' \subseteq Kinds
  PROVE  Inv'
<1>1. conn \in [Tickets -> Connection] /\ Wired(conn, up, down, file)
  BY TypeParts DEF Inv
<1>2. conn' \in [Tickets -> Connection]
  <2>1. \A t : CloseU(conn, t) \in [Tickets -> Connection]
    BY <1>1, CloseUFacts
  <2> QED BY <1>1, <2>1
<1>3. Wired(conn', up', down, file)
  BY <1>1, CloseUGood, QuietGood
<1> QED BY <1>2, <1>3, StepGood, TypeParts DEF Inv, TypeOK

\* A step that changes nothing but the messages.
LEMMA MessageStepGood ==
  ASSUME Inv, UNCHANGED <<size, up, down, file, delivered, conn>>, link' \in BOOLEAN,
         toU' \in Seq(MessageToU), toD' \in Seq(MessageToD), gone' \subseteq {"U", "D"}, faults' \subseteq Kinds
  PROVE  Inv'
BY StepGood, TypeParts DEF Inv, TypeOK

LEMMA QueueReceivedGood == ASSUME Inv, QueueReceived PROVE Inv'
<1>1. toU' \in Seq(MessageToU) /\ Append(toD, QueueFailed) \in Seq(MessageToD)
  BY TypeParts DEF QueueReceived, Inv, MessageToD
<1>2. up \in Upload /\ toD \in Seq(MessageToD) /\ link \in BOOLEAN /\ gone \subseteq {"U", "D"} /\ faults \subseteq Kinds
  BY TypeParts DEF Inv, TypeOK
<1>3. CASE up' = Severed(up, "QueuedLocally") /\ conn' = CloseU(conn, up.socket) /\ UNCHANGED <<toD, faults>>
  <2>1. "QueuedLocally" \in UStates
    BY DEF UStates
  <2>2. up' \in Upload /\ Quiet(up')
    BY <1>2, <1>3, <2>1, SeveredType
  <2> QED BY <1>1, <1>2, <1>3, <2>2, UploadStepGood DEF QueueReceived
<1>4. CASE UNCHANGED <<up, conn, toD, faults>>
  BY <1>1, <1>2, <1>4, MessageStepGood DEF QueueReceived
<1>5. CASE Fault("unshared") /\ toD' = Append(toD, QueueFailed) /\ UNCHANGED <<up, conn>>
  <2>1. faults' \subseteq Kinds
    BY <1>2, <1>5, FaultType DEF Kinds
  <2> QED BY <1>1, <1>2, <1>5, <2>1, MessageStepGood DEF QueueReceived
<1> QED BY <1>3, <1>4, <1>5 DEF QueueReceived

LEMMA StartGood == ASSUME Inv, Start PROVE Inv'
<1>1. /\ up \in Upload /\ toU \in Seq(MessageToU) /\ toD \in Seq(MessageToD)
      /\ link \in BOOLEAN /\ gone \subseteq {"U", "D"} /\ faults \subseteq Kinds
  BY TypeParts DEF Inv, TypeOK
<1>2. CASE up' = [up EXCEPT !.state = "Initiating"] /\ UNCHANGED <<toD, faults>>
  <2>1. up' \in Upload /\ Quiet(up')
    BY <1>1, <1>2 DEF Upload, UStates, Quiet, Sends
  <2> QED BY <1>1, <1>2, <2>1, UploadStepGood DEF Start
<1>3. ASSUME NEW t \in Tickets, up' = Initiated(up, t), toD' = Append(toD, Request(t)), UNCHANGED faults PROVE Inv'
  <2>1. up' \in Upload /\ Quiet(up')
    BY <1>1, <1>3, InitiatedType
  <2>2. toD' \in Seq(MessageToD)
    BY <1>1, <1>3 DEF MessageToD
  <2> QED BY <1>1, <1>3, <2>1, <2>2, UploadStepGood DEF Start
<1>4. CASE Fault("unreadable") /\ up' = Severed(up, "LocalError") /\ toD' = toD
  <2>1. up' \in Upload /\ Quiet(up') /\ faults' \subseteq Kinds
    BY <1>1, <1>4, SeveredType, FaultType DEF UStates, Kinds
  <2> QED BY <1>1, <1>4, <2>1, UploadStepGood DEF Start
<1> QED BY <1>2, <1>3, <1>4 DEF Start, Initiate

LEMMA ReplyReceivedGood == ASSUME Inv, ReplyReceived PROVE Inv'
<1> DEFINE m == Head(toU)
<1>1. /\ up \in Upload /\ toD \in Seq(MessageToD)
      /\ link \in BOOLEAN /\ gone \subseteq {"U", "D"} /\ faults \subseteq Kinds
  BY TypeParts DEF Inv, TypeOK
<1>2. toU' \in Seq(MessageToU)
  BY TypeParts DEF ReplyReceived, Inv
<1>3. CASE /\ up.state = "Waiting" /\ up.ticket = m.ticket
           /\ up' = [up EXCEPT !.socket = m.ticket, !.timer = FALSE]
           /\ conn' = [CloseU(conn, up.socket) EXCEPT ![m.ticket] = [NoConnection EXCEPT !.u = "dialling"]]
  <2> DEFINE n == [NoConnection EXCEPT !.u = "dialling"]
             c == CloseU(conn, up.socket)
             k == m.ticket
  <2> HIDE DEF m
  <2>1. up' \in Upload /\ Quiet(up')
    BY <1>1, <1>3 DEF Upload, Quiet, Sends
  <2>2. n \in Connection /\ n.u = "dialling" /\ n.d = "none" /\ n.offset = <<>> /\ n.data = <<>> /\ n.start = 0
    <3>1. \A x \in Connection : LET y == [x EXCEPT !.u = "dialling"]
                              IN y \in Connection /\ y.u = "dialling" /\ y.d = x.d /\ y.offset = x.offset
                                   /\ y.data = x.data /\ y.start = x.start
      BY DEF Connection
    <3> QED BY <3>1, NoConnectionGood
  <2>3. conn \in [Tickets -> Connection] /\ Wired(conn, up, down, file)
    BY TypeParts DEF Inv
  <2>4. c \in [Tickets -> Connection] /\ Wired(c, up', down, file)
    BY <2>1, <2>3, CloseUFacts, CloseUGood
  <2> HIDE DEF n, c, k
  <2>5. conn' = [c EXCEPT ![k] = n]
    BY <1>3 DEF n, c, k
  <2>6. conn' \in [Tickets -> Connection] /\ \A s \in Tickets : conn'[s] = c[s] \/ conn'[s] = n
    BY <2>2, <2>4, <2>5
  <2>7. Wired(conn', up', down, file)
    <3> SUFFICES ASSUME NEW s \in Tickets PROVE ConnGood(conn'[s], s, up', down, file)
      BY DEF Wired
    <3>1. ~Sends(up', s) /\ ConnGood(c[s], s, up', down, file)
      BY <2>1, <2>4 DEF Quiet, Wired
    <3>2. ConnGood(n, s, up', down, file)
      BY <2>2, <3>1 DEF ConnGood, Fed
    <3> QED BY <2>6, <3>1, <3>2
  <2> QED BY <1>1, <1>2, <2>1, <2>6, <2>7, StepGood, TypeParts DEF ReplyReceived, Inv, TypeOK
<1>4. CASE up' = Severed(up, "RemoteError") /\ conn' = CloseU(conn, up.socket)
  <2>1. "RemoteError" \in UStates
    BY DEF UStates, FailedStates
  <2>2. up' \in Upload /\ Quiet(up')
    BY <1>1, <1>4, <2>1, SeveredType
  <2> QED BY <1>1, <1>2, <1>4, <2>2, UploadStepGood DEF ReplyReceived
<1>5. CASE UNCHANGED <<up, conn>>
  BY <1>1, <1>2, <1>5, MessageStepGood DEF ReplyReceived
<1> QED BY <1>3, <1>4, <1>5 DEF ReplyReceived

\* The steps that only sever U's end.
LEMMA SeveringGood ==
  ASSUME Inv, NEW s \in UStates, NEW t, NEW kind \in Kinds,
         up' = Severed(up, s) \/ up' = [Severed(up, s) EXCEPT !.timer = FALSE],
         conn' = CloseU(conn, t), Fault(kind) \/ UNCHANGED faults,
         UNCHANGED <<size, down, file, delivered, link, toU, toD, gone>>
  PROVE  Inv'
<1>1. /\ up \in Upload /\ toU \in Seq(MessageToU) /\ toD \in Seq(MessageToD)
      /\ link \in BOOLEAN /\ gone \subseteq {"U", "D"} /\ faults \subseteq Kinds
  BY TypeParts DEF Inv, TypeOK
<1>2. up' \in Upload /\ Quiet(up')
  BY <1>1, SeveredType
<1>3. faults' \subseteq Kinds
  BY <1>1, FaultType
<1> QED BY <1>1, <1>2, <1>3, UploadStepGood

LEMMA UploadEndsGood ==
  ASSUME Inv, ReplyTimeout \/ DownloaderUnreachable \/ AbortUpload \/ \E t \in Tickets : UploadSocketClosed(t)
  PROVE  Inv'
<1>1. {"slow", "stale", "noDownloader", "abortU"} \subseteq Kinds
      /\ {"CannotConnect", "Finished", "Aborted"} \subseteq UStates
  BY DEF Kinds, UStates, FailedStates
<1>2. CASE ReplyTimeout
  BY <1>1, <1>2, SeveringGood DEF ReplyTimeout
<1>3. CASE DownloaderUnreachable
  BY <1>1, <1>3, SeveringGood DEF DownloaderUnreachable
<1>4. CASE AbortUpload
  BY <1>1, <1>4, SeveringGood DEF AbortUpload
<1>5. ASSUME NEW t \in Tickets, UploadSocketClosed(t) PROVE Inv'
  BY <1>1, <1>5, EndOfState, SeveringGood DEF UploadSocketClosed
<1> QED BY <1>2, <1>3, <1>4, <1>5

LEMMA UploaderToldGood == ASSUME Inv, UploaderTold PROVE Inv'
<1>1. /\ up \in Upload /\ toU \in Seq(MessageToU) /\ toD \in Seq(MessageToD)
      /\ link \in BOOLEAN /\ gone \subseteq {"U", "D"} /\ faults \subseteq Kinds
  BY TypeParts DEF Inv, TypeOK
<1>2. CASE up' = [up EXCEPT !.state = "Offline"]
  <2>1. up' \in Upload /\ Quiet(up')
    BY <1>1, <1>2 DEF Upload, UStates, Quiet, Sends
  <2> QED BY <1>1, <2>1, UploadStepGood DEF UploaderTold
<1>3. CASE up' = up
  BY <1>1, <1>3, MessageStepGood DEF UploaderTold
<1> QED BY <1>2, <1>3 DEF UploaderTold

LEMMA CrashUGood == ASSUME Inv, CrashU PROVE Inv'
<1>1. NewUpload \in Upload /\ Quiet(NewUpload)
  BY DEF NewUpload, Upload, UStates, Quiet, Sends
<1>2. /\ <<>> \in Seq(MessageToU) /\ <<>> \in Seq(MessageToD) /\ gone \subseteq {"U", "D"} /\ faults \subseteq Kinds
      /\ "crashU" \in Kinds
  BY DEF Inv, TypeOK, Kinds
<1>3. faults' \subseteq Kinds
  BY <1>2, FaultType DEF CrashU
<1> QED BY <1>1, <1>2, <1>3, UploadStepGood DEF CrashU

LEMMA LinkLostGood == ASSUME Inv, LinkLost PROVE Inv'
<1>1. /\ <<>> \in Seq(MessageToU) /\ <<>> \in Seq(MessageToD) /\ gone \subseteq {"U", "D"} /\ faults \subseteq Kinds
      /\ "link" \in Kinds
  BY DEF Inv, TypeOK, Kinds
<1>2. faults' \subseteq Kinds
  BY <1>1, FaultType DEF LinkLost
<1> QED BY <1>1, <1>2, MessageStepGood DEF LinkLost

\* A connection that changes alone, with neither of its ends.
LEMMA OneConnectionGood ==
  ASSUME Inv, NEW t \in Tickets, NEW n \in Connection, conn' = [conn EXCEPT ![t] = n],
         ConnGood(n, t, up, down, file), UNCHANGED <<size, up, down, file, delivered, link, toU, toD, gone>>,
         faults' \subseteq Kinds
  PROVE  Inv'
<1>1. /\ up \in Upload /\ toU \in Seq(MessageToU) /\ toD \in Seq(MessageToD)
      /\ link \in BOOLEAN /\ gone \subseteq {"U", "D"} /\ conn \in [Tickets -> Connection]
      /\ down \in Download /\ file \in Seq(Nat) /\ delivered \in BOOLEAN
      /\ Wired(conn, up, down, file) /\ DownGood(down, delivered) /\ CopyGood(file, delivered)
  BY TypeParts DEF Inv, TypeOK
<1>2. conn' \in [Tickets -> Connection] /\ \A s \in Tickets : conn'[s] = IF s = t THEN n ELSE conn[s]
  BY <1>1
<1>3. Wired(conn', up, down, file)
  BY <1>1, <1>2 DEF Wired
<1> QED BY <1>1, <1>2, <1>3, StepGood

LEMMA DialledGood == ASSUME Inv, NEW t \in Tickets, Dialled(t) PROVE Inv'
<1> DEFINE n == [conn[t] EXCEPT !.u = "open"]
<1>1. conn \in [Tickets -> Connection] /\ conn[t] \in Connection /\ ConnGood(conn[t], t, up, down, file)
      /\ faults \subseteq Kinds
  BY TypeParts DEF Inv, Wired, TypeOK
<1>2. conn' = [conn EXCEPT ![t] = n]
  BY <1>1 DEF Dialled
<1>3. n \in Connection /\ n.u = "open" /\ n.d = conn[t].d /\ n.offset = conn[t].offset /\ n.data = conn[t].data
      /\ n.start = conn[t].start
  BY <1>1 DEF Connection
<1>4. conn[t].u = "dialling"
  BY DEF Dialled
<1> HIDE DEF n
<1>5. ConnGood(n, t, up, down, file)
  BY <1>1, <1>3, <1>4 DEF ConnGood, Fed
<1> QED BY <1>1, <1>2, <1>3, <1>5, OneConnectionGood DEF Dialled

LEMMA CutGood == ASSUME Inv, NEW t \in Tickets, ConnectionCut(t) PROVE Inv'
<1>1. conn \in [Tickets -> Connection] /\ conn[t] \in Connection /\ ConnGood(conn[t], t, up, down, file)
      /\ faults \subseteq Kinds /\ size \in Nat /\ Len(file) \in Nat
  BY TypeParts DEF Inv, Wired, TypeOK
<1>2. PICK how \in {"reset", "silent"} :
        /\ Fault(IF conn[t].d = "none" THEN "dial" ELSE how)
        /\ conn' = [conn EXCEPT ![t] = Settled([@ EXCEPT !.cut = how, !.offset = <<>>, !.data = <<>>])]
  BY DEF ConnectionCut
<1> DEFINE m == [conn[t] EXCEPT !.cut = how, !.offset = <<>>, !.data = <<>>]
           n == Settled(m)
<1>3. conn' = [conn EXCEPT ![t] = n]
  BY <1>1, <1>2
<1>4. /\ m \in Connection /\ m.u = conn[t].u /\ m.d = conn[t].d /\ m.offset = <<>> /\ m.data = <<>> /\ m.cut # "no"
      /\ m.start = conn[t].start
  <2>1. \A x \in Connection, q \in Seq(Nat) :
          LET y == [x EXCEPT !.cut = how, !.offset = q, !.data = q]
          IN y \in Connection /\ y.u = x.u /\ y.d = x.d /\ y.offset = q /\ y.data = q /\ y.cut = how
               /\ y.start = x.start
    BY <1>2 DEF Connection
  <2> QED BY <1>1, <1>2, <2>1, EmptyType
<1>5. ConnGood(m, t, up, down, file)
  <2>1. Len(m.data) = 0 /\ (conn[t].d = "open" => Len(file) <= size)
    BY <1>4 DEF Inv, CopyGood
  <2> HIDE DEF m
  <2> QED BY <1>1, <1>4, <2>1 DEF ConnGood, Fed
<1> HIDE DEF m
<1>6. n \in Connection /\ (n = m \/ (n = NoConnection /\ m.u = "closed"))
  BY <1>4, SettledType
<1> HIDE DEF n
<1>7. ConnGood(n, t, up, down, file)
  BY <1>5, <1>6, NoConnectionGood DEF ConnGood, Fed
<1>8. faults' \subseteq Kinds
  BY <1>1, <1>2, FaultType DEF Kinds
<1> QED BY <1>3, <1>6, <1>7, <1>8, OneConnectionGood DEF ConnectionCut

LEMMA CannotDialGood == ASSUME Inv, NEW t \in Tickets, CannotDial(t) PROVE Inv'
<1>1. /\ up \in Upload /\ toU \in Seq(MessageToU) /\ toD \in Seq(MessageToD)
      /\ link \in BOOLEAN /\ gone \subseteq {"U", "D"} /\ conn \in [Tickets -> Connection]
      /\ down \in Download /\ file \in Seq(Nat) /\ delivered \in BOOLEAN /\ faults \subseteq Kinds
      /\ Wired(conn, up, down, file) /\ DownGood(down, delivered) /\ CopyGood(file, delivered)
  BY TypeParts DEF Inv, TypeOK
<1>2. "CannotConnect" \in UStates /\ "dial" \in Kinds
  BY DEF UStates, FailedStates, Kinds
<1>3. up' \in Upload /\ Quiet(up')
  BY <1>1, <1>2, SeveredType DEF CannotDial
<1>4. faults' \subseteq Kinds
  BY <1>1, <1>2, FaultType DEF CannotDial
<1>5. conn' \in [Tickets -> Connection] /\ \A s \in Tickets : conn'[s] = conn[s] \/ conn'[s] = NoConnection
  BY <1>1, NoConnectionGood DEF CannotDial
<1>6. Wired(conn', up', down, file)
  <2> SUFFICES ASSUME NEW s \in Tickets PROVE ConnGood(conn'[s], s, up', down, file)
    BY DEF Wired
  <2>1. ~Sends(up', s)
    BY <1>3 DEF Quiet
  <2>2. ConnGood(conn[s], s, up, down, file)
    BY <1>1 DEF Wired
  <2>3. CASE conn'[s] = conn[s]
    BY <2>1, <2>2, <2>3 DEF ConnGood, Fed
  <2>4. CASE conn'[s] = NoConnection
    BY <2>1, <2>4, NoConnectionGood DEF ConnGood, Fed
  <2> QED BY <1>5, <2>3, <2>4
<1> QED BY <1>1, <1>3, <1>4, <1>5, <1>6, StepGood DEF CannotDial

\* What U reads is what D has sent, when there is such a position in the file and the
\* transfer goes on from less than 4 GiB.
LEMMA DecodedRight ==
  ASSUME size \in Nat, NEW o \in Nat, NEW pos \in Decoded(o), pos <= size
  PROVE  pos \in Nat /\ (o < FourGiB => pos = o)
<1>1. TooLarge = size + 1 /\ TwoGiB \in Nat /\ FourGiB \in Nat
  BY TransferAssumption DEF TooLarge
<1>2. CASE o < TwoGiB
  BY <1>2 DEF Decoded
<1>3. CASE ~(o < TwoGiB) /\ o < FourGiB
  BY <1>1, <1>3 DEF Decoded
<1>4. CASE ~(o < TwoGiB) /\ ~(o < FourGiB)
  BY <1>1, <1>4 DEF Decoded
<1> QED BY <1>2, <1>3, <1>4

\* U goes on where D's copy ends, or not at all.
LEMMA OffsetGood == ASSUME Inv, NEW t \in Tickets, OffsetReceived(t) PROVE Inv'
<1>1. /\ up \in Upload /\ toU \in Seq(MessageToU) /\ toD \in Seq(MessageToD) /\ size \in Nat
      /\ link \in BOOLEAN /\ gone \subseteq {"U", "D"} /\ conn \in [Tickets -> Connection]
      /\ down \in Download /\ file \in Seq(Nat) /\ delivered \in BOOLEAN /\ faults \subseteq Kinds
      /\ Wired(conn, up, down, file) /\ DownGood(down, delivered) /\ CopyGood(file, delivered)
  BY TypeParts DEF Inv, TypeOK
<1>2. conn[t] \in Connection /\ ConnGood(conn[t], t, up, down, file) /\ conn[t].offset \in Seq(Nat)
  BY <1>1, TypeParts DEF Wired, Inv
<1> DEFINE n == [conn[t] EXCEPT !.offset = <<>>]
           o == Head(conn[t].offset)
<1>3. [conn EXCEPT ![t].offset = <<>>] = [conn EXCEPT ![t] = n]
  BY <1>1
<1>4. n \in Connection /\ n.u = conn[t].u /\ n.d = conn[t].d /\ n.offset = <<>> /\ n.data = conn[t].data
      /\ n.cut = conn[t].cut /\ n.start = conn[t].start
  BY <1>2, EmptyType DEF Connection
<1>5. conn[t].u = "open" /\ conn[t].cut = "no" /\ conn[t].offset # <<>> /\ conn[t].d # "none" /\ ~Sends(up, t)
  BY <1>2 DEF OffsetReceived, ConnGood
<1>6. o \in Nat
  BY <1>2, <1>5
<1> HIDE DEF n
<1>7. \A c : c = [conn EXCEPT ![t] = n] =>
        c \in [Tickets -> Connection] /\ \A s \in Tickets : c[s] = IF s = t THEN n ELSE conn[s]
  BY <1>1, <1>4
<1>8. ASSUME NEW pos \in Decoded(o), pos <= size, up.socket = t,
             up' = [up EXCEPT !.state = "Transferring", !.pos = pos], conn' = [conn EXCEPT ![t] = n]
      PROVE  Inv'
  <2>1. pos \in Nat /\ (o < FourGiB => pos = o)
    BY <1>1, <1>6, <1>8, DecodedRight
  <2>2. up' \in Upload /\ up'.pos = pos /\ \A s \in Tickets : Sends(up', s) <=> s = t
    BY <1>1, <1>8, <2>1 DEF Upload, UStates, Sends
  <2>3. ConnGood(n, t, up', down, file)
    <3>1. n.d = "open" => /\ conn[t].offset = <<Len(file)>> /\ conn[t].data = <<>> /\ conn[t].start = Len(file)
                          /\ conn[t].start < FourGiB => Fed(conn[t], t, up, file)
      BY <1>2, <1>4, <1>5 DEF ConnGood
    <3>2. n.d = "open" => n.start = o /\ o = Len(file) /\ Len(n.data) = 0 /\ Len(file) \in Nat
      BY <1>1, <1>4, <3>1
    <3>3. n.d = "open" /\ n.start < FourGiB => Fed(n, t, up', file)
      BY <1>4, <2>1, <2>2, <3>1, <3>2 DEF Fed
    <3> QED BY <1>2, <1>4, <1>5, <3>3 DEF ConnGood
  <2>4. Wired(conn', up', down, file)
    <3> SUFFICES ASSUME NEW s \in Tickets, s # t PROVE ConnGood(conn[s], s, up', down, file)
      BY <1>7, <1>8, <2>3 DEF Wired
    <3>1. ~Sends(up', s) /\ ConnGood(conn[s], s, up, down, file)
      BY <1>1, <2>2 DEF Wired
    <3> QED BY <3>1 DEF ConnGood, Fed
  <2> QED BY <1>1, <1>7, <1>8, <2>2, <2>4, StepGood DEF OffsetReceived
<1>9. CASE up' = Severed(up, "LocalError") /\ conn' = CloseU(conn, t)
  <2>1. up' \in Upload /\ Quiet(up')
    BY <1>1, <1>9, SeveredType DEF UStates
  <2> QED BY <1>1, <1>9, <2>1, UploadStepGood DEF OffsetReceived
<1>10. CASE conn' = [conn EXCEPT ![t] = n] /\ UNCHANGED up
  <2>1. ConnGood(n, t, up, down, file)
    BY <1>2, <1>4, <1>5 DEF ConnGood, Fed
  <2> QED BY <1>1, <1>4, <1>10, <2>1, OneConnectionGood DEF OffsetReceived
<1>11. up.socket = t \/ UNCHANGED up \/ up' = Severed(up, "LocalError")
  BY DEF OffsetReceived
<1> HIDE DEF o
<1> QED BY <1>3, <1>8, <1>9, <1>10 DEF OffsetReceived, o

\* The next block is sent.
LEMMA DataSentGood == ASSUME Inv, NEW t \in Tickets, DataSent(t) PROVE Inv'
<1>1. /\ up \in Upload /\ toU \in Seq(MessageToU) /\ toD \in Seq(MessageToD)
      /\ link \in BOOLEAN /\ gone \subseteq {"U", "D"} /\ conn \in [Tickets -> Connection]
      /\ down \in Download /\ file \in Seq(Nat) /\ delivered \in BOOLEAN /\ faults \subseteq Kinds
      /\ Wired(conn, up, down, file) /\ DownGood(down, delivered) /\ CopyGood(file, delivered) /\ size \in Nat
  BY TypeParts DEF Inv, TypeOK
<1>2. conn[t] \in Connection /\ ConnGood(conn[t], t, up, down, file) /\ conn[t].data \in Seq(Nat)
  BY <1>1, TypeParts DEF Wired, Inv
<1>3. up' = [up EXCEPT !.pos = @ + 1] /\ Sends(up, t) /\ up.pos < size
  BY DEF DataSent, Sends
<1>4. up' \in Upload /\ up'.pos = up.pos + 1 /\ up.pos \in Nat
      /\ \A s \in Tickets : Sends(up', s) <=> s = t
  BY <1>1, <1>3 DEF Upload, Sends
<1> DEFINE q == Append(conn[t].data, up.pos + 1)
           n == [conn[t] EXCEPT !.data = q]
<1>5. q \in Seq(Nat) /\ Len(q) = Len(conn[t].data) + 1 /\ Len(conn[t].data) \in Nat
      /\ \A i \in 1 .. Len(q) : q[i] = IF i = Len(q) THEN up.pos + 1 ELSE conn[t].data[i]
  BY <1>2, <1>4, AppendFacts
<1> HIDE DEF q
<1>6. n \in Connection /\ n.u = conn[t].u /\ n.d = conn[t].d /\ n.offset = conn[t].offset /\ n.data = q
      /\ n.cut = conn[t].cut /\ n.start = conn[t].start
  BY <1>2, <1>5 DEF Connection
<1>7. IF conn[t].cut = "no" /\ conn[t].d # "closed" THEN conn' = [conn EXCEPT ![t] = n] ELSE conn' = conn
  <2>1. [conn EXCEPT ![t].data = Append(@, up.pos + 1)] = [conn EXCEPT ![t] = n]
    BY <1>1 DEF q
  <2> QED BY <2>1 DEF DataSent
<1> HIDE DEF n
<1>8. /\ conn' \in [Tickets -> Connection]
      /\ \A s \in Tickets \ {t} : conn'[s] = conn[s]
      /\ conn'[t] = IF conn[t].cut = "no" /\ conn[t].d # "closed" THEN n ELSE conn[t]
  BY <1>1, <1>6, <1>7
<1>9. Wired(conn', up', down, file)
  <2> SUFFICES ASSUME NEW s \in Tickets PROVE ConnGood(conn'[s], s, up', down, file)
    BY DEF Wired
  <2>1. CASE s # t
    <3>1. ~Sends(up', s) /\ ConnGood(conn[s], s, up, down, file)
      BY <1>1, <1>4, <2>1 DEF Wired
    <3> QED BY <1>8, <2>1, <3>1 DEF ConnGood, Fed
  <2>2. CASE s = t /\ ~(conn[t].cut = "no" /\ conn[t].d # "closed")
    <3>1. conn'[s] = conn[t] /\ Sends(up', t)
      BY <1>4, <1>8, <2>2
    <3> QED BY <1>2, <1>3, <2>2, <3>1 DEF ConnGood, Fed
  <2>3. CASE s = t /\ conn[t].cut = "no" /\ conn[t].d # "closed"
    <3>1. conn'[s] = n /\ Sends(up', t)
      BY <1>4, <1>8, <2>3
    <3>2. conn[t].u = "open" /\ conn[t].d # "none" /\ conn[t].offset = <<>>
      BY <1>2, <1>3 DEF ConnGood, Fed
    <3>3. ASSUME conn[t].d = "open", conn[t].start < FourGiB
          PROVE  /\ \A i \in 1 .. Len(q) : q[i] = Len(file) + i
                 /\ Len(file) + Len(q) <= size
                 /\ up'.pos = Len(file) + Len(q)
      <4>1. up.pos = Len(file) + Len(conn[t].data)
            /\ \A i \in 1 .. Len(conn[t].data) : conn[t].data[i] = Len(file) + i
        BY <1>2, <1>3, <2>3, <3>3 DEF ConnGood, Fed
      <4>2. Len(file) \in Nat
        BY <1>1
      <4>3. Len(file) + Len(q) <= size /\ up'.pos = Len(file) + Len(q)
        BY <1>1, <1>3, <1>4, <1>5, <4>1, <4>2
      <4>4. ASSUME NEW i \in 1 .. Len(q) PROVE q[i] = Len(file) + i
        <5>1. CASE i = Len(q)
          BY <1>4, <1>5, <4>1, <4>2, <5>1
        <5>2. CASE i # Len(q)
          <6>1. i \in 1 .. Len(conn[t].data)
            BY <1>5, <5>2
          <6> QED BY <1>5, <4>1, <5>2, <6>1
        <5> QED BY <5>1, <5>2
      <4> QED BY <4>3, <4>4
    <3>4. n.d = "open" /\ n.start < FourGiB => Fed(n, t, up', file)
      BY <1>6, <3>3 DEF Fed
    <3>5. \/ down.socket = t /\ down.state = "Transferring" /\ conn[t].start <= Len(file)
          \/ conn[t].d # "open"
      BY <1>2 DEF ConnGood
    <3>6. conn[t].start = 0 \/ conn[t].start < size
      BY <1>2 DEF ConnGood
    <3> QED BY <1>6, <2>3, <3>1, <3>2, <3>4, <3>5, <3>6 DEF ConnGood
  <2> QED BY <2>1, <2>2, <2>3
<1> QED BY <1>1, <1>4, <1>8, <1>9, StepGood DEF DataSent

-----------------------------------------------------------------------------
(* Steps of the downloader. *)

\* A step of D that closes its connection, if there is one, and leaves the copy.
LEMMA DownloadStepGood ==
  ASSUME Inv, down' \in Download, DownGood(down', delivered),
         conn' = CloseD(conn, down.socket) \/ (conn' = conn /\ down.state # "Transferring"),
         UNCHANGED <<size, up, file, delivered>>, link' \in BOOLEAN,
         toU' \in Seq(MessageToU), toD' \in Seq(MessageToD), gone' \subseteq {"U", "D"}, faults' \subseteq Kinds
  PROVE  Inv'
<1>1. /\ conn \in [Tickets -> Connection] /\ Wired(conn, up, down, file)
      /\ up \in Upload /\ file \in Seq(Nat) /\ delivered \in BOOLEAN /\ CopyGood(file, delivered)
  BY TypeParts DEF Inv, TypeOK
<1>2. conn' \in [Tickets -> Connection] /\ Wired(conn', up, down', file)
  <2>1. CASE conn' = CloseD(conn, down.socket)
    BY <1>1, <2>1, CloseDFacts, CloseDGood
  <2>2. CASE conn' = conn /\ down.state # "Transferring"
    <3>1. NoneOpen(conn)
      BY <1>1, <2>2, NotTransferring
    <3>2. Wired(conn, up, down', file)
      BY <1>1, <3>1, NoneOpenGood
    <3> QED BY <1>1, <2>2, <3>2
  <2> QED BY <2>1, <2>2
<1> QED BY <1>1, <1>2, StepGood

LEMMA IdleGood == \A d, done : d.state \in IdleStates => DownGood(d, done)
BY DEF IdleStates, DownGood

LEMMA RequestReceivedGood == ASSUME Inv, RequestReceived PROVE Inv'
<1> DEFINE t == Head(toD).ticket
           d == IF delivered THEN [down EXCEPT !.state = "Finished"] ELSE down
<1>1. /\ down \in Download /\ toU \in Seq(MessageToU) /\ toD \in Seq(MessageToD)
      /\ link \in BOOLEAN /\ gone \subseteq {"U", "D"} /\ faults \subseteq Kinds
      /\ delivered \in BOOLEAN /\ DownGood(down, delivered) /\ conn \in [Tickets -> Connection]
  BY TypeParts DEF Inv, TypeOK
<1>2. toD' \in Seq(MessageToD) /\ t \in Tickets
  <2>1. toD # <<>> /\ Head(toD) \in MessageToD /\ Head(toD) # QueueFailed
    BY <1>1 DEF RequestReceived
  <2>2. PICK s \in Tickets : Head(toD) = Request(s)
    BY <2>1 DEF MessageToD
  <2>3. t = s
    BY <2>2 DEF Request
  <2>4. toD' \in Seq(MessageToD)
    BY <1>1, <2>1 DEF RequestReceived
  <2> QED BY <2>3, <2>4
<1>3. d \in Download /\ d.socket = down.socket /\ DownGood(d, delivered)
      /\ (delivered => d.state = "Finished") /\ (~delivered => d = down)
  BY <1>1 DEF Download, DStates, DownGood
<1> HIDE DEF d, t
<1>4. \A b \in BOOLEAN : Reply(t, b) \in MessageToU
  BY <1>2 DEF MessageToU
<1>5. CASE /\ d.state \in OfferableStates
           /\ down' = [Dropped(d) EXCEPT !.state = "Waiting", !.ticket = t, !.socket = t]
           /\ conn' = CloseD(conn, d.socket)
           /\ toU' = Append(toU, Reply(t, TRUE))
           /\ UNCHANGED faults
  <2>1. ~delivered
    BY <1>3, <1>5 DEF OfferableStates, FailedStates
  <2>2. down' \in Download /\ DownGood(down', delivered)
    BY <1>2, <1>3, <1>5, <2>1, DroppedType DEF Download, DStates, DownGood
  <2>3. toU' \in Seq(MessageToU)
    BY <1>1, <1>4, <1>5, MessageFacts
  <2> QED BY <1>1, <1>2, <1>3, <1>5, <2>2, <2>3, DownloadStepGood DEF RequestReceived
<1>6. CASE /\ IF d.state \in OfferableStates THEN Fault("slots") ELSE UNCHANGED faults
           /\ down' = d
           /\ toU' = toU \o (IF delivered THEN <<Reply(t, FALSE), Reply(t, FALSE)>> ELSE <<Reply(t, FALSE)>>)
           /\ UNCHANGED conn
  <2>1. faults' \subseteq Kinds
    BY <1>1, <1>6, FaultType DEF Kinds
  <2>2. toU' \in Seq(MessageToU)
    <3>1. Reply(t, FALSE) \in MessageToU
      BY <1>4
    <3>2. toU \o <<Reply(t, FALSE)>> \in Seq(MessageToU) /\ toU \o <<Reply(t, FALSE), Reply(t, FALSE)>> \in Seq(MessageToU)
      BY <1>1, <3>1, MessageFacts
    <3> QED BY <1>6, <3>2
  <2>3. CASE delivered
    <3>1. down.state # "Transferring"
      BY <1>1, <2>3 DEF DownGood
    <3> QED BY <1>1, <1>2, <1>3, <1>6, <2>1, <2>2, <3>1, DownloadStepGood DEF RequestReceived
  <2>4. CASE ~delivered
    <3>1. UNCHANGED down
      BY <1>3, <1>6, <2>4
    <3> QED BY <1>1, <1>2, <1>6, <2>1, <2>2, <3>1, MessageStepGood DEF RequestReceived
  <2> QED BY <2>3, <2>4
<1> QED BY <1>5, <1>6 DEF RequestReceived, d, t

LEMMA RefusedGood ==
  ASSUME Inv, NEW s \in IdleStates, Refused(s),
         UNCHANGED <<size, up, file, delivered, link, toU, gone>>, toD' \in Seq(MessageToD), faults' \subseteq Kinds
  PROVE  Inv'
<1>1. /\ down \in Download /\ toU \in Seq(MessageToU) /\ link \in BOOLEAN /\ gone \subseteq {"U", "D"}
  BY TypeParts DEF Inv, TypeOK
<1>2. Dropped(down) \in Download
  BY <1>1, DroppedType
<1>3. Failed(Dropped(down), s) \in Download /\ Failed(Dropped(down), s).state \in IdleStates
  BY <1>2, FailedType
<1> DEFINE e == Failed(Dropped(down), s)
<1>4. down' = [e EXCEPT !.enqueued = FALSE] /\ conn' = CloseD(conn, down.socket)
  BY DEF Refused
<1> HIDE DEF e
<1>5. down' \in Download /\ down'.state \in IdleStates
  BY <1>3, <1>4 DEF Download, e
<1> QED BY <1>1, <1>4, <1>5, IdleGood, DownloadStepGood

LEMMA DownloadRefusedGood == ASSUME Inv, QueueRefused \/ UploaderUnreachable PROVE Inv'
<1>1. "RemoteError" \in IdleStates /\ "CannotConnect" \in IdleStates /\ "noUploader" \in Kinds
  BY DEF IdleStates, DStates, FailedStates, Kinds
<1>2. toD \in Seq(MessageToD) /\ faults \subseteq Kinds
  BY TypeParts DEF Inv, TypeOK
<1>3. CASE QueueRefused
  <2>1. toD' \in Seq(MessageToD) /\ faults' \subseteq Kinds
    BY <1>2, <1>3 DEF QueueRefused
  <2> QED BY <1>1, <1>3, <2>1, RefusedGood DEF QueueRefused
<1>4. CASE UploaderUnreachable
  <2>1. toD' \in Seq(MessageToD) /\ faults' \subseteq Kinds
    BY <1>1, <1>2, <1>4, FaultType DEF UploaderUnreachable
  <2> QED BY <1>1, <1>4, <2>1, RefusedGood DEF UploaderUnreachable
<1> QED BY <1>3, <1>4

LEMMA AbortDownloadGood == ASSUME Inv, AbortDownload PROVE Inv'
<1>1. /\ down \in Download /\ toU \in Seq(MessageToU) /\ toD \in Seq(MessageToD) /\ link \in BOOLEAN
      /\ gone \subseteq {"U", "D"} /\ faults \subseteq Kinds /\ "abortD" \in Kinds
  BY TypeParts DEF Inv, TypeOK, Kinds
<1> DEFINE e == Dropped(down)
<1>2. e \in Download
  BY <1>1, DroppedType
<1>3. down' = [e EXCEPT !.enqueued = FALSE, !.state = IF e.state = "Finished" THEN @ ELSE "Aborted"]
  BY DEF AbortDownload
<1> HIDE DEF e
<1>4. down' \in Download /\ down'.state \in IdleStates
  BY <1>2, <1>3 DEF Download, DStates, IdleStates
<1>5. faults' \subseteq Kinds
  BY <1>1, FaultType DEF AbortDownload
<1> QED BY <1>1, <1>4, <1>5, IdleGood, DownloadStepGood DEF AbortDownload

LEMMA InitTimedOutGood == ASSUME Inv, InitTimedOut PROVE Inv'
<1>1. /\ down \in Download /\ toU \in Seq(MessageToU) /\ toD \in Seq(MessageToD) /\ link \in BOOLEAN
      /\ gone \subseteq {"U", "D"} /\ faults \subseteq Kinds /\ DownGood(down, delivered)
      /\ up \in Upload /\ file \in Seq(Nat) /\ delivered \in BOOLEAN /\ CopyGood(file, delivered)
      /\ conn \in [Tickets -> Connection] /\ Wired(conn, up, down, file)
  BY TypeParts DEF Inv, TypeOK
<1>2. CASE down.state = "Initiating"
  <2>1. down' \in Download /\ down'.state = "QueuedRemotely"
    BY <1>1, <1>2 DEF InitTimedOut, Download, DStates
  <2>2. DownGood(down', delivered)
    BY <2>1 DEF DownGood
  <2> QED BY <1>1, <1>2, <2>1, <2>2, DownloadStepGood DEF InitTimedOut
<1>3. CASE down.state # "Initiating"
  <2>1. down' \in Download /\ down'.state = down.state /\ down'.socket = down.socket /\ down'.ticket = down.ticket
    BY <1>1, <1>3 DEF InitTimedOut, Download
  <2>2. Wired(conn, up, down', file) /\ DownGood(down', delivered)
    BY <1>1, <2>1 DEF Wired, ConnGood, Fed, DownGood
  <2> QED BY <1>1, <2>1, <2>2, StepGood DEF InitTimedOut
<1> QED BY <1>2, <1>3

LEMMA RetryGood == ASSUME Inv, Retry PROVE Inv'
<1> DEFINE d == [down EXCEPT !.retryTimer = FALSE]
<1>1. /\ down \in Download /\ toU \in Seq(MessageToU) /\ toD \in Seq(MessageToD) /\ link \in BOOLEAN
      /\ gone \subseteq {"U", "D"} /\ faults \subseteq Kinds /\ DownGood(down, delivered)
      /\ up \in Upload /\ file \in Seq(Nat) /\ delivered \in BOOLEAN /\ CopyGood(file, delivered)
      /\ conn \in [Tickets -> Connection] /\ Wired(conn, up, down, file)
  BY TypeParts DEF Inv, TypeOK
<1>2. d \in Download /\ d.state = down.state /\ d.socket = down.socket /\ d.ticket = down.ticket
  BY <1>1 DEF Download
<1>3. faults' \subseteq Kinds
  BY <1>1, FaultType DEF Retry, Kinds
<1>4. IF d.state \in {"Offline", "Initiating", "Waiting", "Transferring"}
      THEN down' = d /\ UNCHANGED toU
      ELSE Checked(Added(d))
  BY DEF Retry
<1> HIDE DEF d
<1>5. CASE d.state \in {"Offline", "Initiating", "Waiting", "Transferring"}
  <2>1. Wired(conn, up, d, file) /\ DownGood(d, delivered)
    BY <1>1, <1>2 DEF Wired, ConnGood, Fed, DownGood
  <2> QED BY <1>1, <1>2, <1>3, <1>4, <1>5, <2>1, StepGood DEF Retry
<1>6. CASE d.state \notin {"Offline", "Initiating", "Waiting", "Transferring"}
  <2>1. down' \in Download /\ down'.state \notin {"Waiting", "Transferring"} /\ toU' \in Seq(MessageToU)
    BY <1>1, <1>2, <1>4, <1>6, AddedType, CheckedType DEF IdleStates
  <2>2. DownGood(down', delivered) /\ down.state # "Transferring"
    BY <1>2, <1>6, <2>1 DEF DownGood
  <2> QED BY <1>1, <1>3, <2>1, <2>2, DownloadStepGood DEF Retry
<1> QED BY <1>5, <1>6

LEMMA CheckingGood == ASSUME Inv, AddAgain \/ DownloaderTold PROVE Inv'
<1>1. /\ down \in Download /\ toU \in Seq(MessageToU) /\ toD \in Seq(MessageToD) /\ link \in BOOLEAN
      /\ gone \subseteq {"U", "D"} /\ faults \subseteq Kinds /\ DownGood(down, delivered)
      /\ up \in Upload /\ file \in Seq(Nat) /\ delivered \in BOOLEAN /\ CopyGood(file, delivered)
      /\ conn \in [Tickets -> Connection] /\ Wired(conn, up, down, file)
  BY TypeParts DEF Inv, TypeOK
<1>2. CASE AddAgain
  <2>1. Added(down) \in Download /\ Added(down).state \in IdleStates /\ Checked(Added(down))
    BY <1>1, <1>2, AddedType DEF AddAgain
  <2>2. down' \in Download /\ down'.state \notin {"Waiting", "Transferring"} /\ toU' \in Seq(MessageToU)
    BY <1>1, <2>1, CheckedType DEF IdleStates
  <2>3. DownGood(down', delivered) /\ down.state # "Transferring"
    BY <1>2, <2>2 DEF DownGood, AddAgain
  <2> QED BY <1>1, <1>2, <2>2, <2>3, DownloadStepGood DEF AddAgain
<1>3. CASE DownloaderTold
  <2> DEFINE d == [down EXCEPT !.enqueued = FALSE,
                               !.state = IF @ \in {"QueuedRemotely", "Initiating", "Waiting"} THEN "Offline" ELSE @]
  <2>1. Checked(d) /\ UNCHANGED <<size, up, file, delivered, link, toD, conn, faults>> /\ gone' \subseteq {"U", "D"}
    BY <1>1, <1>3 DEF DownloaderTold
  <2>2. d \in Download /\ d.socket = down.socket /\ d.ticket = down.ticket
        /\ d.state = IF down.state \in {"QueuedRemotely", "Initiating", "Waiting"} THEN "Offline" ELSE down.state
    BY <1>1 DEF Download, DStates
  <2> HIDE DEF d
  <2>3. CASE down.state # "Transferring"
    <3>1. d.state \notin {"Waiting", "Transferring"}
      BY <2>2, <2>3
    <3>2. down' \in Download /\ down'.state \notin {"Waiting", "Transferring"} /\ toU' \in Seq(MessageToU)
      BY <1>1, <2>1, <2>2, <3>1, CheckedType
    <3>3. DownGood(down', delivered)
      BY <3>2 DEF DownGood
    <3> QED BY <1>1, <2>1, <2>3, <3>2, <3>3, DownloadStepGood
  <2>4. CASE down.state = "Transferring"
    <3>1. down' = d /\ UNCHANGED toU
      BY <2>1, <2>2, <2>4 DEF Checked, Asks
    <3>2. Wired(conn, up, d, file) /\ DownGood(d, delivered)
      BY <1>1, <2>2, <2>4 DEF Wired, ConnGood, Fed, DownGood
    <3> QED BY <1>1, <2>1, <2>2, <3>1, <3>2, StepGood
  <2> QED BY <2>3, <2>4
<1> QED BY <1>2, <1>3

\* The ticket comes: the download that waits for it takes the connection, with its copy as
\* it is, and no other connection is written to the copy by then.
LEMMA TicketReceivedGood == ASSUME Inv, NEW t \in Tickets, TicketReceived(t) PROVE Inv'
<1>1. /\ up \in Upload /\ toU \in Seq(MessageToU) /\ toD \in Seq(MessageToD)
      /\ link \in BOOLEAN /\ gone \subseteq {"U", "D"} /\ conn \in [Tickets -> Connection]
      /\ down \in Download /\ file \in Seq(Nat) /\ delivered \in BOOLEAN /\ faults \subseteq Kinds
      /\ Wired(conn, up, down, file) /\ DownGood(down, delivered) /\ CopyGood(file, delivered)
      /\ size \in Nat /\ Len(file) \in Nat
  BY TypeParts DEF Inv, TypeOK
<1>2. /\ conn[t] \in Connection /\ ConnGood(conn[t], t, up, down, file)
      /\ conn[t].u \in {"open", "closed"} /\ conn[t].d = "none" /\ conn[t].cut = "no"
  BY <1>1 DEF Wired, TicketReceived
<1>3. ~Sends(up, t) /\ conn[t].offset = <<>> /\ conn[t].data = <<>>
  BY <1>2 DEF ConnGood, Fed
<1>4. CASE Awaited(t)
  <2> DEFINE q == IF conn[t].u = "open" THEN <<Len(file)>> ELSE <<>>
             m == [conn[t] EXCEPT !.d = "open", !.start = Len(file), !.offset = q]
             n == Settled(m)
  <2>1. conn' = [conn EXCEPT ![t] = n] /\ down' = [down EXCEPT !.state = "Transferring"]
    BY <1>1, <1>4 DEF TicketReceived
  <2>2. q \in Seq(Nat) /\ (q # <<>> => q = <<Len(file)>>)
    BY <1>1, EmptyType
  <2> HIDE DEF q
  <2>3. m \in Connection /\ m.u = conn[t].u /\ m.d = "open" /\ m.offset = q /\ m.data = <<>> /\ m.cut = "no"
        /\ m.start = Len(file)
    BY <1>1, <1>2, <1>3, <2>2 DEF Connection
  <2> HIDE DEF m
  <2>4. n \in Connection /\ (n = m \/ n = NoConnection)
    BY <2>3, SettledType
  <2> HIDE DEF n
  <2>5. down.state = "Waiting" /\ down.socket = t /\ down.ticket = t /\ ~delivered
    BY <1>1, <1>4 DEF Awaited, DownGood
  <2>6. down' \in Download /\ down'.state = "Transferring" /\ down'.socket = t /\ down'.ticket = t
    BY <1>1, <2>1, <2>5 DEF Download, DStates
  <2>7. /\ conn' \in [Tickets -> Connection]
        /\ \A s \in Tickets : conn'[s] = IF s = t THEN n ELSE conn[s]
    BY <1>1, <2>1, <2>4
  <2>8. Wired(conn', up, down', file)
    <3> SUFFICES ASSUME NEW s \in Tickets PROVE ConnGood(conn'[s], s, up, down', file)
      BY DEF Wired
    <3>1. CASE s # t
      <4>1. NoneOpen(conn)
        BY <1>1, <2>5, NotTransferring
      <4>2. ConnGood(conn[s], s, up, down, file) /\ conn[s].d # "open"
        BY <1>1, <4>1 DEF Wired, NoneOpen
      <4> QED BY <2>7, <3>1, <4>2 DEF ConnGood, Fed
    <3>2. CASE s = t /\ n = m
      <4>1. Len(m.data) = 0 /\ Len(file) <= size /\ (Len(file) = 0 \/ Len(file) < size)
        BY <1>1, <2>3, <2>5 DEF CopyGood
      <4>2. Fed(m, t, up, file)
        BY <1>1, <1>3, <2>3, <4>1 DEF Fed
      <4>3. conn'[s] = m /\ ~Sends(up, t) /\ Len(file) = m.start
        BY <1>3, <2>3, <2>7, <3>2
      <4> QED BY <1>1, <1>2, <2>2, <2>3, <2>6, <3>2, <4>1, <4>2, <4>3 DEF ConnGood
    <3>3. CASE s = t /\ n = NoConnection
      BY <1>3, <2>7, <3>3, NoConnectionGood DEF ConnGood, Fed
    <3> QED BY <2>4, <3>1, <3>2, <3>3
  <2>9. DownGood(down', delivered)
    BY <2>5, <2>6 DEF DownGood
  <2> QED BY <1>1, <2>6, <2>7, <2>8, <2>9, StepGood DEF TicketReceived
<1>5. CASE ~Awaited(t)
  <2> DEFINE m == [conn[t] EXCEPT !.d = "deaf"]
             n == Settled(m)
  <2>1. conn' = [conn EXCEPT ![t] = n] /\ down' = down
    BY <1>1, <1>5 DEF TicketReceived
  <2>2. m \in Connection /\ m.u = conn[t].u /\ m.d = "deaf" /\ m.offset = <<>> /\ m.data = <<>>
        /\ m.start = conn[t].start
    BY <1>2, <1>3 DEF Connection
  <2> HIDE DEF m
  <2>3. n \in Connection /\ (n = m \/ n = NoConnection)
    BY <2>2, SettledType
  <2> HIDE DEF n
  <2>4. ConnGood(n, t, up, down, file)
    BY <1>2, <1>3, <2>2, <2>3, NoConnectionGood DEF ConnGood, Fed
  <2> QED BY <1>1, <2>1, <2>3, <2>4, OneConnectionGood DEF TicketReceived
<1> QED BY <1>4, <1>5

LEMMA DownloadSocketClosedGood == ASSUME Inv, NEW t \in Tickets, DownloadSocketClosed(t) PROVE Inv'
<1>1. /\ down \in Download /\ toU \in Seq(MessageToU) /\ toD \in Seq(MessageToD) /\ link \in BOOLEAN
      /\ gone \subseteq {"U", "D"} /\ faults \subseteq Kinds /\ "slow" \in Kinds
      /\ Wired(conn, up, down, file)
  BY TypeParts DEF Inv, TypeOK, Kinds
<1>2. down.socket = t
  BY <1>1 DEF DownloadSocketClosed, Wired, ConnGood, Fed
<1>3. down' \in Download /\ down'.state \in IdleStates
  BY <1>1, DisconnectedType DEF DownloadSocketClosed
<1>4. faults' \subseteq Kinds
  BY <1>1, FaultType DEF DownloadSocketClosed
<1> QED BY <1>1, <1>2, <1>3, <1>4, IdleGood, DownloadStepGood DEF DownloadSocketClosed

LEMMA LinkMadeGood == ASSUME Inv, LinkMade PROVE Inv'
<1>1. /\ up \in Upload /\ toU \in Seq(MessageToU) /\ toD \in Seq(MessageToD)
      /\ link \in BOOLEAN /\ gone \subseteq {"U", "D"} /\ conn \in [Tickets -> Connection]
      /\ down \in Download /\ file \in Seq(Nat) /\ delivered \in BOOLEAN /\ faults \subseteq Kinds
      /\ Wired(conn, up, down, file) /\ DownGood(down, delivered) /\ CopyGood(file, delivered)
  BY TypeParts DEF Inv, TypeOK
<1>2. /\ <<>> \in Seq(MessageToU) /\ <<>> \in Seq(MessageToD) /\ <<Queue>> \in Seq(MessageToU)
      /\ \A t \in Tickets : Append(<<>>, Request(t)) \in Seq(MessageToD)
  BY DEF MessageToU, MessageToD
<1>3. down' \in Download /\ DownGood(down', delivered) /\ Wired(conn, up, down', file)
  <2>1. CASE Asks(down)
    <3>1. down.state # "Transferring"
      BY <2>1 DEF Asks
    <3>2. down' = Asking(down)
      BY <2>1 DEF LinkMade
    <3>3. down' \in Download /\ down'.state = "Initiating"
      BY <1>1, <3>2 DEF Asking, Download, DStates
    <3> QED BY <1>1, <3>1, <3>3, NotTransferring, NoneOpenGood DEF DownGood
  <2>2. CASE ~Asks(down)
    BY <1>1, <2>2 DEF LinkMade
  <2> QED BY <2>1, <2>2
<1>4. toU' \in Seq(MessageToU)
  BY <1>2 DEF LinkMade
<1>5. CASE /\ up' = IF up.state = "Offline" THEN Severed(up, "QueuedLocally") ELSE up
           /\ conn' = IF up.state = "Offline" THEN CloseU(conn, up.socket) ELSE conn
           /\ toD' = <<>> /\ UNCHANGED faults
  <2>1. CASE up.state = "Offline"
    <3>1. "QueuedLocally" \in UStates
      BY DEF UStates
    <3>2. up' \in Upload /\ Quiet(up')
      BY <1>1, <1>5, <2>1, <3>1, SeveredType
    <3>3. conn' = CloseU(conn, up.socket)
      BY <1>5, <2>1
    <3>4. conn' \in [Tickets -> Connection] /\ Wired(conn', up', down', file)
      BY <1>1, <1>3, <3>2, <3>3, CloseUFacts, CloseUGood
    <3> QED BY <1>1, <1>2, <1>3, <1>4, <1>5, <3>2, <3>4, StepGood DEF LinkMade
  <2>2. CASE up.state # "Offline"
    <3>1. up' = up /\ conn' = conn
      BY <1>5, <2>2
    <3> QED BY <1>1, <1>2, <1>3, <1>4, <1>5, <3>1, StepGood DEF LinkMade
  <2> QED BY <2>1, <2>2
<1>6. ASSUME NEW t \in Tickets, up' = Initiated(up, t), toD' = Append(<<>>, Request(t)), UNCHANGED <<conn, faults>>
      PROVE  Inv'
  <2>1. up' \in Upload /\ Quiet(up')
    BY <1>1, <1>6, InitiatedType
  <2>2. Wired(conn, up', down', file)
    BY <1>3, <2>1, QuietGood
  <2>3. toD' \in Seq(MessageToD)
    BY <1>2, <1>6
  <2> QED BY <1>1, <1>3, <1>4, <1>6, <2>1, <2>2, <2>3, StepGood DEF LinkMade
<1>7. CASE Fault("unreadable") /\ up' = Severed(up, "LocalError") /\ toD' = <<>> /\ UNCHANGED conn
  <2>1. up' \in Upload /\ Quiet(up') /\ faults' \subseteq Kinds
    BY <1>1, <1>7, SeveredType, FaultType DEF UStates, Kinds
  <2>2. Wired(conn, up', down', file)
    BY <1>3, <2>1, QuietGood
  <2> QED BY <1>1, <1>2, <1>3, <1>4, <1>7, <2>1, <2>2, StepGood DEF LinkMade
<1> QED BY <1>5, <1>6, <1>7 DEF LinkMade, Initiate

LEMMA TailFacts ==
  ASSUME NEW q \in Seq(Nat), q # <<>>
  PROVE  /\ Head(q) = q[1] /\ Tail(q) \in Seq(Nat) /\ Len(q) \in Nat \ {0} /\ Len(Tail(q)) = Len(q) - 1
         /\ \A i \in 1 .. Len(q) - 1 : Tail(q)[i] = q[i + 1]
OBVIOUS

\* What there is to know when a block is received: the copy is not whole yet, and the block
\* is the next one of the file unless the transfer went on from 4 GiB or more.
LEMMA NextBlock ==
  ASSUME Inv, NEW t \in Tickets, DataReceived(t)
  PROVE  /\ down.socket = t /\ down.state = "Transferring" /\ ~delivered
         /\ conn[t].data \in Seq(Nat) /\ conn[t].data # <<>> /\ conn[t].start \in Nat
         /\ conn[t].start < FourGiB => Head(conn[t].data) = Len(file) + 1
         /\ Len(file) \in Nat /\ Len(file) + 1 <= size /\ size \in Nat
         /\ file' \in Seq(Nat) /\ Len(file') = Len(file) + 1
<1>1. /\ file \in Seq(Nat) /\ Len(file) \in Nat /\ size \in Nat /\ Wired(conn, up, down, file)
      /\ DownGood(down, delivered) /\ CopyGood(file, delivered) /\ delivered \in BOOLEAN
  BY TypeParts DEF Inv, TypeOK
<1>2. /\ conn[t].d = "open" /\ conn[t].data \in Seq(Nat) /\ conn[t].data # <<>> /\ down.state = "Transferring"
      /\ conn[t].start \in Nat
  BY TypeParts DEF DataReceived, Inv
<1> DEFINE q == conn[t].data
<1>3. /\ down.socket = t /\ conn[t].start <= Len(file)
      /\ conn[t].start < FourGiB => /\ Len(file) + Len(q) <= size
                                    /\ \A i \in 1 .. Len(q) : q[i] = Len(file) + i
  BY <1>1, <1>2 DEF Wired, ConnGood, Fed
<1>4. Head(q) = q[1] /\ Head(q) \in Nat /\ Len(q) \in Nat \ {0}
  BY <1>2, TailFacts
<1>5. conn[t].start < FourGiB => Head(q) = Len(file) + 1
  BY <1>1, <1>3, <1>4
<1>6. ~delivered
  BY <1>1, <1>2 DEF DownGood
<1>7. Len(file) + 1 <= size
  <2>1. CASE file = <<>>
    <3>1. conn[t].start < FourGiB /\ Len(file) = 0
      BY <1>1, <1>2, <1>3, <2>1, TransferAssumption
    <3> QED BY <1>1, <1>3, <1>4, <3>1
  <2>2. CASE file # <<>>
    BY <1>1, <1>6, <2>2 DEF CopyGood
  <2> QED BY <2>1, <2>2
<1>8. file' \in Seq(Nat) /\ Len(file') = Len(file) + 1
  BY <1>1, <1>4, AppendFacts DEF DataReceived
<1> QED BY <1>1, <1>2, <1>3, <1>5, <1>6, <1>7, <1>8

LEMMA DataReceivedGood == ASSUME Inv, NEW t \in Tickets, DataReceived(t) PROVE Inv'
<1>1. /\ up \in Upload /\ toU \in Seq(MessageToU) /\ toD \in Seq(MessageToD)
      /\ link \in BOOLEAN /\ gone \subseteq {"U", "D"} /\ conn \in [Tickets -> Connection]
      /\ down \in Download /\ faults \subseteq Kinds
      /\ Wired(conn, up, down, file) /\ DownGood(down, delivered)
  BY TypeParts DEF Inv, TypeOK
<1>2. /\ down.socket = t /\ down.state = "Transferring"
      /\ conn[t].data \in Seq(Nat) /\ conn[t].data # <<>>
      /\ Len(file) \in Nat /\ Len(file) + 1 <= size /\ size \in Nat
      /\ file' \in Seq(Nat) /\ Len(file') = Len(file) + 1
  BY NextBlock
<1>3. CopyGood(file', delivered') /\ size' = size
  BY <1>2 DEF CopyGood, DataReceived, Whole
<1>4. delivered' = Whole(Len(file) + 1) /\ delivered' \in BOOLEAN
  BY DEF DataReceived, Whole
<1>5. CASE Whole(Len(file) + 1)
  <2>1. conn' = CloseD(conn, down.socket) /\ down' = [down EXCEPT !.state = "Finished", !.socket = NoTicket]
    BY <1>2, <1>5 DEF DataReceived
  <2>2. down' \in Download /\ down'.state = "Finished"
    BY <1>1, <2>1 DEF Download, DStates
  <2>3. DownGood(down', delivered')
    BY <2>2 DEF DownGood
  <2>4. conn' \in [Tickets -> Connection] /\ Wired(conn', up, down', file')
    BY <1>1, <2>1, CloseDFacts, CloseDGood
  <2> QED BY <1>1, <1>2, <1>3, <1>4, <2>2, <2>3, <2>4, StepGood DEF DataReceived
<1>6. CASE ~Whole(Len(file) + 1)
  <2> DEFINE q == conn[t].data
             n == [conn[t] EXCEPT !.data = Tail(q)]
  <2>1. conn' = [conn EXCEPT ![t] = n] /\ down' = down /\ delivered' = FALSE
    BY <1>1, <1>4, <1>6 DEF DataReceived
  <2>2. /\ Tail(q) \in Seq(Nat) /\ Len(q) \in Nat \ {0} /\ Len(Tail(q)) = Len(q) - 1
        /\ \A i \in 1 .. Len(q) - 1 : Tail(q)[i] = q[i + 1]
    BY <1>2, TailFacts
  <2>3. /\ n \in Connection /\ n.u = conn[t].u /\ n.d = conn[t].d /\ n.offset = conn[t].offset
        /\ n.data = Tail(q) /\ n.cut = conn[t].cut /\ n.start = conn[t].start /\ conn[t].start \in Nat
    BY <1>1, <2>2 DEF Connection
  <2>4. ConnGood(conn[t], t, up, down, file) /\ conn[t].d = "open"
    BY <1>1 DEF Wired, DataReceived
  <2> HIDE DEF n
  <2>5. /\ conn' \in [Tickets -> Connection]
        /\ \A s \in Tickets : conn'[s] = IF s = t THEN n ELSE conn[s]
    BY <1>1, <2>1, <2>3
  <2>6. ConnGood(n, t, up, down, file')
    <3>1. /\ conn[t].start <= Len(file)
          /\ conn[t].start < FourGiB => Fed(conn[t], t, up, file)
          /\ n.cut = "no" => conn[t].offset = <<>>
      BY <1>2, <2>3, <2>4 DEF ConnGood
    <3>2. ASSUME n.start < FourGiB PROVE Fed(n, t, up, file')
      <4>1. /\ Len(file) + Len(q) <= size /\ \A i \in 1 .. Len(q) : q[i] = Len(file) + i
            /\ n.cut = "no" /\ Sends(up, t) => up.pos = Len(file) + Len(q)
        BY <2>3, <3>1, <3>2 DEF Fed
      <4>2. Len(file') + Len(Tail(q)) = Len(file) + Len(q)
        <5> DEFINE i == Len(file)
                   j == Len(file')
                   k == Len(q)
                   l == Len(Tail(q))
        <5>1. i \in Nat /\ k \in Nat /\ j = i + 1 /\ l = k - 1
          BY <1>2, <2>2
        <5> HIDE DEF i, j, k, l
        <5>2. j + l = i + k
          BY <5>1
        <5> QED BY <5>2 DEF i, j, k, l
      <4>3. ASSUME NEW i \in 1 .. Len(Tail(q)) PROVE Tail(q)[i] = Len(file') + i
        <5>1. i \in 1 .. Len(q) - 1 /\ i + 1 \in 1 .. Len(q)
          BY <2>2
        <5>2. q[i + 1] = Len(file) + (i + 1)
          BY <4>1, <5>1
        <5> QED BY <1>2, <2>2, <5>1, <5>2
      <4>4. \A i \in 1 .. Len(n.data) : n.data[i] = Len(file') + i
        BY <2>3, <4>3
      <4>5. /\ Len(file') + Len(n.data) <= size
            /\ n.cut = "no" /\ Sends(up, t) => up.pos = Len(file') + Len(n.data)
        BY <2>3, <4>1, <4>2
      <4> QED BY <4>4, <4>5 DEF Fed
    <3>3. n.start <= Len(file')
      BY <1>2, <2>3, <3>1
    <3> HIDE DEF q
    <3> QED BY <2>3, <2>4, <3>1, <3>2, <3>3 DEF ConnGood
  <2>7. Wired(conn', up, down, file')
    <3> SUFFICES ASSUME NEW s \in Tickets PROVE ConnGood(conn'[s], s, up, down, file')
      BY DEF Wired
    <3>1. CASE s = t
      BY <2>5, <2>6, <3>1
    <3>2. CASE s # t
      <4>1. ConnGood(conn[s], s, up, down, file) /\ conn[s].d # "open"
        BY <1>1, <1>2, <3>2 DEF Wired, ConnGood, Fed
      <4> QED BY <2>5, <3>2, <4>1 DEF ConnGood, Fed
    <3> QED BY <3>1, <3>2
  <2>8. DownGood(down, FALSE)
    BY <1>1 DEF DownGood
  <2> QED BY <1>1, <1>2, <1>3, <1>4, <2>1, <2>5, <2>7, <2>8, StepGood DEF DataReceived
<1> QED BY <1>5, <1>6

\* A copy that has lost its tail before it was delivered.
LEMMA TruncatedGood ==
  ASSUME NEW f \in Seq(Nat), NEW n \in 0 .. Len(f), CopyGood(f, FALSE), size \in Nat
  PROVE  SubSeq(f, 1, n) \in Seq(Nat) /\ CopyGood(SubSeq(f, 1, n), FALSE)
<1>1. /\ SubSeq(f, 1, n) \in Seq(Nat) /\ Len(SubSeq(f, 1, n)) = n /\ Len(f) \in Nat /\ n \in Nat
      /\ n = 0 => SubSeq(f, 1, n) = <<>>
      /\ f = <<>> => Len(f) = 0
  OBVIOUS
<1> QED BY <1>1 DEF CopyGood

LEMMA CrashDGood == ASSUME Inv, CrashD PROVE Inv'
<1>1. /\ up \in Upload /\ gone \subseteq {"U", "D"} /\ conn \in [Tickets -> Connection]
      /\ down \in Download /\ file \in Seq(Nat) /\ delivered \in BOOLEAN /\ faults \subseteq Kinds
      /\ Wired(conn, up, down, file) /\ DownGood(down, delivered) /\ CopyGood(file, delivered) /\ size \in Nat
      /\ <<>> \in Seq(MessageToU) /\ <<>> \in Seq(MessageToD) /\ "crashD" \in Kinds
  BY TypeParts DEF Inv, TypeOK, Kinds
<1>2. faults' \subseteq Kinds
  BY <1>1, FaultType DEF CrashD
<1>3. down' \in Download /\ down'.state \in IdleStates /\ DownGood(down', delivered)
  <2>1. down' \in Download /\ down'.state \in {"Aborted", "Offline"}
    BY DEF CrashD, NewDownload, Download, DStates
  <2> QED BY <2>1 DEF IdleStates, DStates, DownGood
<1>4. file' \in Seq(Nat) /\ CopyGood(file', delivered) /\ delivered' = delivered
  <2>1. CASE down.state = "Transferring"
    <3>1. conn[down.socket].start \in Nat
      BY <1>1, <2>1, TypeParts DEF DownGood, Inv
    <3>2. PICK n \in conn[down.socket].start .. Len(file) : file' = SubSeq(file, 1, n)
      BY <2>1 DEF CrashD
    <3>3. n \in 0 .. Len(file)
      BY <1>1, <3>1, <3>2
    <3>4. delivered = FALSE
      BY <1>1, <2>1 DEF DownGood
    <3> QED BY <1>1, <3>2, <3>3, <3>4, TruncatedGood DEF CrashD
  <2>2. CASE down.state # "Transferring"
    BY <1>1, <2>2 DEF CrashD
  <2> QED BY <2>1, <2>2
<1>5. ASSUME NEW t \in Tickets
      PROVE  conn'[t] \in Connection /\ conn'[t].d # "open" /\ ConnGood(conn'[t], t, up, down', file')
  <2> DEFINE m == [conn[t] EXCEPT !.d = "closed", !.offset = <<>>, !.data = <<>>]
  <2>1. conn[t] \in Connection /\ ConnGood(conn[t], t, up, down, file)
    BY <1>1 DEF Wired
  <2>2. conn'[t] = IF conn[t].u \in {"open", "closed"} THEN Settled(m) ELSE conn[t]
    BY DEF CrashD
  <2>3. m \in Connection /\ m.u = conn[t].u /\ m.d = "closed" /\ m.offset = <<>> /\ m.data = <<>>
        /\ m.start = conn[t].start
    <3>1. \A x \in Connection, q \in Seq(Nat) :
            LET y == [x EXCEPT !.d = "closed", !.offset = q, !.data = q]
            IN y \in Connection /\ y.u = x.u /\ y.d = "closed" /\ y.offset = q /\ y.data = q /\ y.start = x.start
      BY DEF Connection
    <3> QED BY <2>1, <3>1, EmptyType
  <2> HIDE DEF m
  <2>4. Settled(m) \in Connection /\ (Settled(m) = m \/ Settled(m) = NoConnection)
        /\ (Settled(m) = NoConnection => conn[t].u = "closed")
    BY <2>3, SettledType, NoConnectionGood
  <2>5. CASE conn[t].u \in {"open", "closed"} /\ Settled(m) = m
    BY <2>1, <2>2, <2>3, <2>5 DEF ConnGood, Fed
  <2>6. CASE conn[t].u \in {"open", "closed"} /\ Settled(m) = NoConnection
    BY <2>1, <2>2, <2>4, <2>6, NoConnectionGood DEF ConnGood, Fed
  <2>7. CASE conn[t].u \notin {"open", "closed"}
    BY <2>1, <2>2, <2>7 DEF ConnGood, Fed
  <2> QED BY <2>4, <2>5, <2>6, <2>7
<1>6. conn' \in [Tickets -> Connection]
  BY <1>5 DEF CrashD
<1>7. Wired(conn', up, down', file')
  BY <1>5 DEF Wired
<1> QED BY <1>1, <1>2, <1>3, <1>4, <1>6, <1>7, StepGood DEF CrashD

-----------------------------------------------------------------------------
(* The invariant, and what follows from it. *)

LEMMA InitGood == Init => Inv
<1> SUFFICES ASSUME Init PROVE Inv
  OBVIOUS
<1>1. size \in Nat /\ Len(file) = 0
  BY TransferAssumption DEF Init
<1>2. \A t \in Tickets : conn[t] = NoConnection
  BY DEF Init
<1>3. TypeOK
  <2>1. up \in Upload /\ down \in Download
    BY DEF Init, NewUpload, Upload, UStates, NewDownload, Download, DStates
  <2>2. conn \in [Tickets -> Connection]
    BY NoConnectionGood DEF Init
  <2>3. up \in Upload /\ down \in Download /\ gone \subseteq {"U", "D"} /\ faults \subseteq Kinds
    BY <2>1 DEF Init
  <2>4. /\ file = <<>> /\ toU = <<>> /\ toD = <<>> /\ delivered \in BOOLEAN /\ link \in BOOLEAN /\ size \in Sizes
    BY DEF Init
  <2>5. file \in Seq(Nat) /\ toU \in Seq(MessageToU) /\ toD \in Seq(MessageToD)
    BY <2>4
  <2> QED BY <2>2, <2>3, <2>4, <2>5 DEF TypeOK, MessageToU, MessageToD
<1>4. Wired(conn, up, down, file)
  <2> SUFFICES ASSUME NEW t \in Tickets PROVE ConnGood(conn[t], t, up, down, file)
    BY DEF Wired
  <2>1. ~Sends(up, t)
    BY DEF Init, NewUpload, Sends
  <2> QED BY <1>2, <2>1, NoConnectionGood DEF ConnGood, Fed
<1>5. DownGood(down, delivered) /\ CopyGood(file, delivered)
  BY <1>1 DEF Init, NewDownload, DownGood, CopyGood
<1> QED BY <1>3, <1>4, <1>5 DEF Inv

LEMMA StutterGood == ASSUME Inv, UNCHANGED vars PROVE Inv'
BY DEF Inv, TypeOK, Wired, ConnGood, Fed, DownGood, CopyGood, Sends, vars

LEMMA NextGood == ASSUME Inv, [Next]_vars PROVE Inv'
<1>1. CASE UNCHANGED vars
  BY <1>1, StutterGood
<1>2. CASE QueueReceived \/ Start \/ ReplyReceived \/ ReplyTimeout
  BY <1>2, QueueReceivedGood, StartGood, ReplyReceivedGood, UploadEndsGood
<1>3. CASE RequestReceived \/ QueueRefused \/ InitTimedOut \/ Retry
  BY <1>3, RequestReceivedGood, DownloadRefusedGood, InitTimedOutGood, RetryGood
<1>4. CASE LinkMade \/ UploaderTold \/ DownloaderTold
  BY <1>4, LinkMadeGood, UploaderToldGood, CheckingGood
<1>5. ASSUME NEW t \in Tickets, Dialled(t) \/ OffsetReceived(t) \/ DataSent(t) \/ UploadSocketClosed(t) PROVE Inv'
  BY <1>5, DialledGood, OffsetGood, DataSentGood, UploadEndsGood
<1>6. ASSUME NEW t \in Tickets, TicketReceived(t) \/ DataReceived(t) \/ DownloadSocketClosed(t) PROVE Inv'
  BY <1>6, TicketReceivedGood, DataReceivedGood, DownloadSocketClosedGood
<1>7. CASE DownloaderUnreachable \/ UploaderUnreachable \/ AbortUpload \/ AbortDownload \/ AddAgain
  BY <1>7, UploadEndsGood, DownloadRefusedGood, AbortDownloadGood, CheckingGood
<1>8. CASE LinkLost \/ CrashU \/ CrashD
  BY <1>8, LinkLostGood, CrashUGood, CrashDGood
<1>9. ASSUME NEW t \in Tickets, CannotDial(t) \/ ConnectionCut(t) PROVE Inv'
  BY <1>9, CannotDialGood, CutGood
<1> QED BY <1>1, <1>2, <1>3, <1>4, <1>5, <1>6, <1>7, <1>8, <1>9 DEF Next, Works, Fails

LEMMA InvHolds == Spec => []Inv
<1>1. Init => Inv
  BY InitGood
<1>2. Inv /\ [Next]_vars => Inv'
  BY NextGood
<1> QED BY <1>1, <1>2, PTL DEF Spec

\* The states of both ends, the messages and the connections are what the code's types say.
THEOREM TypeCorrect == Spec => []TypeOK
<1>1. Inv => TypeOK
  BY DEF Inv
<1> QED BY <1>1, InvHolds, PTL

\* Two transfer connections never write to D's copy at once: DownloadSocket hands its
\* data to the download it is the socket of, whatever tickets come late or twice.
THEOREM OneWriterHolds == Spec => []OneWriter
<1>1. Inv => OneWriter
  BY DEF Inv, Wired, ConnGood, Fed, OneWriter
<1> QED BY <1>1, InvHolds, PTL

\* U goes on where D's copy ends, over any number of connections that begin below 4 GiB: what
\* U has sent is what D has and what is under way. (From 2 GiB on, U does not go on at all.)
THEOREM EndsAgreeHolds == Spec => []EndsAgree
<1>1. Inv => EndsAgree
  BY DEF Inv, Wired, ConnGood, Fed, EndsAgree, Sends
<1> QED BY <1>1, InvHolds, PTL

-----------------------------------------------------------------------------
(* The transfer implements FileTransfer. *)

LEMMA WriteImplemented ==
  ASSUME Inv, NEW t \in Tickets, conn[t].start < FourGiB, DataReceived(t)
  PROVE  Copy!Write
<1> DEFINE n == Len(file) + 1
           blocks == [i \in 1 .. n - Len(file) |-> Len(file) + i]
<1>1. /\ ~delivered /\ Len(file) \in Nat /\ n <= size /\ size \in Nat /\ Head(conn[t].data) = n
      /\ file \in Seq(Nat)
  BY NextBlock, TypeParts DEF Inv
<1>2. n \in Len(file) + 1 .. size
  BY <1>1
<1>3. file' = file \o blocks
  <2>1. n - Len(file) = 1
    BY <1>1
  <2>2. blocks = <<n>>
    BY <1>1, <2>1
  <2>3. file' = Append(file, n)
    BY <1>1 DEF DataReceived
  <2>4. Append(file, n) = file \o <<n>>
    BY <1>1
  <2> QED BY <2>2, <2>3, <2>4
<1>4. delivered' \in {FALSE, n = size}
  <2>1. delivered' = (n >= size)
    BY DEF DataReceived, Whole
  <2>2. (n >= size) <=> (n = size)
    BY <1>1
  <2> HIDE DEF n
  <2>3. CASE n = size
    <3>1. (n >= size) = TRUE /\ (n = size) = TRUE
      BY <2>2, <2>3
    <3> QED BY <2>1, <3>1
  <2>4. CASE n # size
    <3>1. (n >= size) = FALSE
      BY <2>2, <2>4
    <3> QED BY <2>1, <3>1
  <2> QED BY <2>3, <2>4
<1>5. UNCHANGED size
  BY DEF DataReceived
<1>6. file' = file \o [i \in 1 .. n - Len(file) |-> Len(file) + i] /\ delivered' \in {FALSE, n = size}
  BY <1>3, <1>4
<1> HIDE DEF n, blocks
<1>7. \E k \in Len(file) + 1 .. size : /\ file' = file \o [i \in 1 .. k - Len(file) |-> Len(file) + i]
                                      /\ delivered' \in {FALSE, k = size}
  BY <1>2, <1>6
<1> QED BY <1>1, <1>5, <1>7 DEF Copy!Write

LEMMA LossImplemented == ASSUME Inv, CrashD PROVE Copy!LoseTail \/ UNCHANGED <<size, file, delivered>>
<1>1. CASE down.state = "Transferring"
  <2>1. DownGood(down, delivered) /\ delivered \in BOOLEAN /\ Len(file) \in Nat
    BY TypeParts DEF Inv, TypeOK
  <2>2. ~delivered /\ conn[down.socket].start \in Nat
    BY <1>1, <2>1, TypeParts DEF DownGood, Inv
  <2>3. PICK n \in conn[down.socket].start .. Len(file) : file' = SubSeq(file, 1, n)
    BY <1>1 DEF CrashD
  <2>4. n \in 0 .. Len(file)
    BY <2>1, <2>2, <2>3
  <2> QED BY <2>2, <2>3, <2>4 DEF Copy!LoseTail, CrashD
<1>2. CASE down.state # "Transferring"
  BY <1>2 DEF CrashD
<1> QED BY <1>1, <1>2

LEMMA StepImplemented ==
  ASSUME Inv, ResumedBelow(FourGiB), [Next]_vars
  PROVE  [Copy!Next]_<<size, file, delivered>>
<1>1. CASE UNCHANGED vars
  BY <1>1 DEF vars
<1>2. CASE QueueReceived \/ Start \/ ReplyReceived \/ ReplyTimeout
  BY <1>2 DEF QueueReceived, Start, ReplyReceived, ReplyTimeout
<1>3. CASE RequestReceived \/ QueueRefused \/ InitTimedOut \/ Retry
  BY <1>3 DEF RequestReceived, QueueRefused, InitTimedOut, Retry
<1>4. CASE LinkMade \/ UploaderTold \/ DownloaderTold
  BY <1>4 DEF LinkMade, UploaderTold, DownloaderTold
<1>5. ASSUME NEW t \in Tickets, Dialled(t) \/ OffsetReceived(t) \/ DataSent(t) \/ UploadSocketClosed(t)
      PROVE  UNCHANGED <<size, file, delivered>>
  BY <1>5 DEF Dialled, OffsetReceived, DataSent, UploadSocketClosed
<1>6. ASSUME NEW t \in Tickets, TicketReceived(t) \/ DownloadSocketClosed(t)
      PROVE  UNCHANGED <<size, file, delivered>>
  BY <1>6 DEF TicketReceived, DownloadSocketClosed
<1>7. ASSUME NEW t \in Tickets, DataReceived(t) PROVE Copy!Next
  BY <1>7, WriteImplemented DEF Copy!Next, ResumedBelow
<1>8. CASE DownloaderUnreachable \/ UploaderUnreachable \/ AbortUpload \/ AbortDownload \/ AddAgain
  BY <1>8 DEF DownloaderUnreachable, UploaderUnreachable, AbortUpload, AbortDownload, AddAgain
<1>9. CASE LinkLost \/ CrashU
  BY <1>9 DEF LinkLost, CrashU
<1>10. CASE CrashD
  BY <1>10, LossImplemented DEF Copy!Next
<1>11. ASSUME NEW t \in Tickets, CannotDial(t) \/ ConnectionCut(t) PROVE UNCHANGED <<size, file, delivered>>
  BY <1>11 DEF CannotDial, ConnectionCut
<1> QED BY <1>1, <1>2, <1>3, <1>4, <1>5, <1>6, <1>7, <1>8, <1>9, <1>10, <1>11 DEF Next, Works, Fails

\* D's copy is the beginning of the file, loses no more than its tail in a crash, and is put
\* in the download directory whole and for good, with all the failures and retries of the
\* transfer, as long as none of its connections has gone on from 4 GiB or more.
THEOREM CopyImplemented == Spec => CopySpec
<1>1. Init => Copy!Init
  BY DEF Init, Copy!Init
<1>2. Inv /\ [Next]_vars => [ResumedBelow(FourGiB) => Copy!Next]_<<size, file, delivered>>
  BY StepImplemented
<1> QED BY <1>1, <1>2, InvHolds, PTL DEF Spec, CopySpec

\* The transfer of files of at most 4 GiB implements FileTransfer, without exception: no
\* connection of theirs goes on from 4 GiB.
THEOREM SmallFilesImplemented ==
  ASSUME \A n \in Sizes : n <= FourGiB
  PROVE  Spec => Copy!Spec
<1>1. Init => Copy!Init
  BY DEF Init, Copy!Init
<1>2. Inv => ResumedBelow(FourGiB)
  <2> SUFFICES ASSUME Inv, NEW t \in Tickets PROVE conn[t].start < FourGiB
    BY DEF ResumedBelow
  <2>1. conn[t].start = 0 \/ conn[t].start < size
    BY DEF Inv, Wired, ConnGood
  <2>2. size \in Nat /\ size <= FourGiB /\ conn[t].start \in Nat /\ FourGiB \in Nat \ {0}
    BY TypeParts, TransferAssumption DEF Inv, TypeOK
  <2> QED BY <2>1, <2>2
<1>3. Inv /\ [Next]_vars => [Copy!Next]_<<size, file, delivered>>
  BY <1>2, StepImplemented
<1> QED BY <1>1, <1>3, InvHolds, PTL DEF Spec, Copy!Spec
=============================================================================
