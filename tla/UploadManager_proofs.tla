------------------------ MODULE UploadManager_proofs ------------------------
(***************************************************************************)
(* Theorems about UploadManager, for any users, uploads, slot limits and   *)
(* events.                                                                 *)
(***************************************************************************)
EXTENDS UploadManager, SequenceTheorems, FiniteSetTheorems, TLAPS

-----------------------------------------------------------------------------
(* The call stack: the calls a handler pushes are calls, and stay calls. *)

\* The constructors build calls.
LEMMA FrameTypes ==
  /\ \A u \in Uploads, s \in TrStates : SetState(u, s) \in Call /\ EnterState(u, s) \in Call
  /\ \A u \in Uploads : Disconnected(u) \in Call /\ Release(u) \in Call
  /\ \A u \in Uploads, o \in {"abortRest", "remove", "erase", "legacyRest"} : [op |-> o, up |-> u] \in Call
  /\ \A u \in Uploads, b \in BOOLEAN, n \in Nat : Reply(u, b, n) \in Call
  /\ CheckUploads \in Call
  /\ \A i \in Nat \ {0}, c \in Uploads \union {NoUpload} : Scan(i, c) \in Call
  /\ \A x \in Users : PeerSocket(x) \in Call /\ Initiate(x) \in Call
  /\ \A o \in Loops, w \in SUBSET Users, i \in Nat \ {0}, e \in Nat : LoopFrom(o, w, i, e) \in Call
<1> USE DEF Call
<1>1. \A u \in Uploads, s \in TrStates : SetState(u, s) \in Call /\ EnterState(u, s) \in Call
  BY DEF SetState, EnterState
<1>2. \A u \in Uploads : Disconnected(u) \in Call /\ Release(u) \in Call
  BY DEF Disconnected, Release
<1>3. \A u \in Uploads, o \in {"abortRest", "remove", "erase", "legacyRest"} : [op |-> o, up |-> u] \in Call
  OBVIOUS
<1>4. CheckUploads \in Call
  BY DEF CheckUploads
<1>5. \A i \in Nat \ {0}, c \in Uploads \union {NoUpload} : Scan(i, c) \in Call
  BY DEF Scan
<1>6. \A x \in Users : PeerSocket(x) \in Call /\ Initiate(x) \in Call
  BY DEF PeerSocket, Initiate
<1>7. \A o \in Loops, w \in SUBSET Users, i \in Nat \ {0}, e \in Nat : LoopFrom(o, w, i, e) \in Call
  BY DEF LoopFrom
<1>8. \A u \in Uploads, b \in BOOLEAN, n \in Nat : Reply(u, b, n) \in Call
  BY DEF Reply
<1> QED BY <1>1, <1>2, <1>3, <1>4, <1>5, <1>6, <1>7, <1>8

\* Up to three calls make a sequence of calls.
LEMMA FewCalls ==
  /\ <<>> \in Seq(Call)
  /\ \A a \in Call : <<a>> \in Seq(Call)
  /\ \A a, b \in Call : <<a, b>> \in Seq(Call)
  /\ \A a, b, c \in Call : <<a, b, c>> \in Seq(Call)
  OBVIOUS

\* A handler that returns, leaving more calls to run, leaves a stack of calls.
LEMMA ReturnType ==
  ASSUME calls \in Seq(Call), calls # <<>>, NEW now \in Seq(Call), Return(now)
  PROVE  calls' \in Seq(Call)
<1>1. Tail(calls) \in Seq(Call)
  BY HeadTailProperties
<1> QED BY <1>1, ConcatProperties DEF Return

\* A reply that is handled once more is a call.
LEMMA ReplyAgain ==
  ASSUME NEW c \in Call, c.op = "reply"
  PROVE  /\ c.up \in Uploads /\ c.allowed \in BOOLEAN /\ c.left \in Nat
         /\ c.left > 0 => LET d == [c EXCEPT !.left = @ - 1]
                         IN  d \in Call /\ d.op = "reply" /\ d.up = c.up
<1>1. c \in [op : {"reply"}, up : Uploads, allowed : BOOLEAN, left : Nat]
  BY DEF Call
<1>2. ASSUME c.left > 0
      PROVE  [c EXCEPT !.left = @ - 1] \in [op : {"reply"}, up : Uploads, allowed : BOOLEAN, left : Nat]
  BY <1>1, <1>2
<1>3. [op : {"reply"}, up : Uploads, allowed : BOOLEAN, left : Nat] \subseteq Call
  BY DEF Call
<1> QED BY <1>1, <1>2, <1>3

\* What is on top of the stack is a call.
LEMMA TopType ==
  ASSUME calls \in Seq(Call), calls # <<>>
  PROVE  Top \in Call
  BY HeadTailProperties DEF Top

\* A further call, at the end of a sequence of them.
LEMMA OneMoreCall ==
  ASSUME NEW now \in Seq(Call), NEW c \in Call
  PROVE  Append(now, c) \in Seq(Call)
  BY AppendProperties

\* The call sequences the handlers push.
LEMMA HandlerCalls ==
  ASSUME TypeOK, NEW u \in Uploads
  PROVE  /\ DropSocket(u) \in Seq(Call)
         /\ \A s \in TrStates : Fail(u, s) \in Seq(Call) /\ Aftermath(u, s) \in Seq(Call)
         /\ AbortCalls(u) \in Seq(Call)
<1>1. DropSocket(u) \in Seq(Call)
  BY FrameTypes, FewCalls DEF DropSocket
<1>2. AbortCalls(u) \in Seq(Call)
  BY <1>1, FrameTypes, OneMoreCall DEF AbortCalls
<1>3. ASSUME NEW s \in TrStates
      PROVE  Fail(u, s) \in Seq(Call) /\ Aftermath(u, s) \in Seq(Call)
  <2>1. Fail(u, s) \in Seq(Call)
    BY <1>1, FrameTypes, OneMoreCall DEF Fail
  <2>2. <<CheckUploads>> \in Seq(Call) /\ <<[op |-> "remove", up |-> u]>> \in Seq(Call)
    BY FrameTypes, FewCalls
  <2>3. Aftermath(u, s) \in Seq(Call)
    BY <2>2, FewCalls, ConcatProperties DEF Aftermath
  <2> QED BY <2>1, <2>3
<1> QED BY <1>1, <1>2, <1>3

\* A loop over the queue as it is now.
LEMMA LoopType ==
  ASSUME TypeOK, NEW o \in Loops, NEW w \in SUBSET Users
  PROVE  Loop(o, w) \in Call
<1>1. Len(uploads) \in Nat
  BY LenProperties DEF TypeOK
<1> QED BY <1>1, FrameTypes DEF Loop

\* What a user who cannot be reached makes of the upload in progress.
LEMMA UnavailableType ==
  ASSUME TypeOK, NEW x \in Users
  PROVE  UnavailableCalls(x) \in Seq(Call)
<1>1. "CannotConnect" \in TrStates
  BY DEF TrStates, SeveringStates
<1>2. uploading[x] # NoUpload => uploading[x] \in Uploads
  BY DEF TypeOK
<1> QED BY <1>1, <1>2, HandlerCalls, FewCalls DEF UnavailableCalls

\* The listings stay maps from users to uploads.
LEMMA ListedType ==
  ASSUME UploadAssumption, NEW m \in [Users -> Uploads \union {NoUpload}],
         NEW u \in Uploads, NEW s \in TrStates
  PROVE  /\ Listed(m, u, s) \in [Users -> Uploads \union {NoUpload}]
         /\ ListedInitiating(m, u, s) \in [Users -> Uploads \union {NoUpload}]
  BY DEF UploadAssumption, Listed, ListedInitiating

\* m_State is assigned, and the listings and the stack follow.
LEMMA EnterType ==
  ASSUME UploadAssumption, TypeOK, calls # <<>>, NEW u \in Uploads, NEW s \in TrStates, Enter(u, s)
  PROVE  TypeOK'
<1>1. calls' \in Seq(Call)
  BY HandlerCalls, ReturnType DEF Enter, TypeOK
<1>2. DEFINE before == IF s = "Finished" THEN state[u] ELSE s
<1>3. before \in TrStates
  BY DEF TypeOK
<1>4. uploading' \in [Users -> Uploads \union {NoUpload}]
  <2>1. Listed(uploading, u, before) \in [Users -> Uploads \union {NoUpload}]
    BY <1>3, ListedType DEF TypeOK
  <2> QED BY <2>1, ListedType DEF Enter
<1>5. initiating' \in [Users -> Uploads \union {NoUpload}]
  <2>1. ListedInitiating(initiating, u, before) \in [Users -> Uploads \union {NoUpload}]
    BY <1>3, ListedType DEF TypeOK
  <2> QED BY <2>1, ListedType DEF Enter
<1>6. /\ state' \in [Uploads -> TrStates]
      /\ socket' \in [Uploads -> SocketKinds]
      /\ complete' \in [Uploads -> BOOLEAN]
  BY DEF Enter, TypeOK, SocketKinds
<1> QED BY <1>1, <1>4, <1>5, <1>6 DEF Enter, TypeOK, world

-----------------------------------------------------------------------------
(* Type correctness. *)

\* The queue holds uploads at its positions.
LEMMA QueueElement ==
  ASSUME uploads \in Seq(Uploads), NEW j \in 1 .. Len(uploads)
  PROVE  uploads[j] \in Uploads
  BY ElementOfSeq

\* A stretch of the scan leaves calls on the stack, with an upload or none as candidate.
LEMMA ScanType ==
  ASSUME UploadAssumption, TypeOK, calls # <<>>,
         NEW i \in Nat \ {0}, NEW cand \in Uploads \union {NoUpload}, ScanFrom(i, cand)
  PROVE  calls' \in Seq(Call)
<1>1. \A j \in Ahead(i) : j \in Nat \ {0} /\ uploads[j] \in Uploads
  BY QueueElement DEF Ahead, TypeOK
<1>2. ASSUME NEW S \in SUBSET Ahead(i), NEW c \in Candidates(cand, S)
      PROVE  c \in Uploads \union {NoUpload}
  BY <1>1, <1>2 DEF Candidates, Firsts
<1>3. \A u \in Uploads : StartUpload(u) \in Seq(Call)
  <2> SUFFICES ASSUME NEW u \in Uploads PROVE StartUpload(u) \in Seq(Call)
    OBVIOUS
  <2>1. UserOf[u] \in Users /\ "Initiating" \in TrStates
    BY DEF UploadAssumption, TrStates, ActiveStates, InitiatingStates
  <2> QED BY <2>1, FrameTypes, FewCalls DEF StartUpload
<1>4. CASE Stops(i) = {} /\ \E c \in Candidates(cand, Ahead(i)) :
             Return(IF c = NoUpload THEN <<>> ELSE StartUpload(c))
  BY <1>2, <1>3, <1>4, FewCalls, ReturnType DEF TypeOK
<1>5. CASE \E j \in Firsts(Stops(i)) : ~Banned(uploads[j]) /\ Return(StartUpload(uploads[j]))
  BY <1>1, <1>3, <1>5, ReturnType DEF TypeOK, Firsts, Stops
<1>6. CASE \E j \in Firsts(Stops(i)) : \E c \in Candidates(cand, Ahead(i) \ (j .. Len(uploads))) :
             Return(Append(Fail(uploads[j], "LocalError"), Scan(j + 1, c)))
  <2>0. PICK j \in Firsts(Stops(i)) : \E c \in Candidates(cand, Ahead(i) \ (j .. Len(uploads))) :
          Return(Append(Fail(uploads[j], "LocalError"), Scan(j + 1, c)))
    BY <1>6
  <2>1. PICK c \in Candidates(cand, Ahead(i) \ (j .. Len(uploads))) :
          Return(Append(Fail(uploads[j], "LocalError"), Scan(j + 1, c)))
    BY <2>0
  <2>2. j \in Ahead(i) /\ j + 1 \in Nat \ {0}
    BY <1>1 DEF Firsts, Stops
  <2>3. c \in Uploads \union {NoUpload}
    BY <1>2
  <2>4. Fail(uploads[j], "LocalError") \in Seq(Call)
    BY <1>1, <2>2, HandlerCalls DEF TrStates, SeveringStates
  <2>5. Append(Fail(uploads[j], "LocalError"), Scan(j + 1, c)) \in Seq(Call)
    BY <2>2, <2>3, <2>4, FrameTypes, OneMoreCall
  <2> QED BY <2>1, <2>5, ReturnType DEF TypeOK
<1> QED BY <1>4, <1>5, <1>6 DEF ScanFrom

\* A new upload at the end of the queue.
LEMMA QueueGrows ==
  ASSUME uploads \in Seq(Uploads), IsInjective(uploads), NEW u \in Uploads, u \notin Known
  PROVE  Append(uploads, u) \in Seq(Uploads) /\ IsInjective(Append(uploads, u))
<1>1. \A j \in 1 .. Len(uploads) : uploads[j] \in Known
  BY DEF Known, Range
<1> QED BY <1>1, AppendProperties, LenProperties DEF IsInjective

\* An upload leaves the queue.
LEMMA QueueShrinks ==
  ASSUME uploads \in Seq(Uploads), IsInjective(uploads), NEW k \in 1 .. Len(uploads)
  PROVE  RemoveAt(uploads, k) \in Seq(Uploads) /\ IsInjective(RemoveAt(uploads, k))
<1> DEFINE n == Len(uploads)
           front == SubSeq(uploads, 1, k - 1)
           back == SubSeq(uploads, k + 1, n)
           at(j) == IF j < k THEN j ELSE j + 1
<1>1. n \in Nat /\ \A j \in 1 .. n : uploads[j] \in Uploads
  BY LenProperties, ElementOfSeq
<1>2. /\ front \in Seq(Uploads) /\ Len(front) = k - 1
      /\ \A j \in 1 .. k - 1 : front[j] = uploads[j]
  BY <1>1, SubSeqProperties
<1>3. /\ back \in Seq(Uploads) /\ Len(back) = n - k
      /\ \A j \in 1 .. n - k : back[j] = uploads[k + j]
  <2>1. /\ back \in Seq(Uploads)
        /\ Len(back) = IF k + 1 <= n THEN n - (k + 1) + 1 ELSE 0
        /\ \A j \in 1 .. n - (k + 1) + 1 : back[j] = uploads[k + 1 + j - 1]
    <3>1. k + 1 \in Int /\ n \in Int /\ \A j \in k + 1 .. n : uploads[j] \in Uploads
      BY <1>1
    <3> HIDE DEF n
    <3> QED BY <3>1, SubSeqProperties
  <2> QED BY <2>1, <1>1
<1>4. /\ RemoveAt(uploads, k) \in Seq(Uploads) /\ Len(RemoveAt(uploads, k)) = n - 1
      /\ \A j \in 1 .. n - 1 : RemoveAt(uploads, k)[j] = uploads[at(j)]
  <2> HIDE DEF front, back
  <2>1. RemoveAt(uploads, k) = front \o back
    BY DEF RemoveAt, front, back
  <2>2. /\ front \o back \in Seq(Uploads)
        /\ Len(front \o back) = Len(front) + Len(back)
        /\ \A j \in 1 .. Len(front) + Len(back) :
             (front \o back)[j] = IF j <= Len(front) THEN front[j] ELSE back[j - Len(front)]
    BY <1>2, <1>3, ConcatProperties
  <2>3. Len(front) = k - 1 /\ Len(back) = n - k /\ Len(front) + Len(back) = n - 1
    BY <1>1, <1>2, <1>3
  <2>4. \A j \in 1 .. n - 1 :
          (front \o back)[j] = IF j <= k - 1 THEN front[j] ELSE back[j - (k - 1)]
    BY <2>2, <2>3
  <2>5. ASSUME NEW j \in 1 .. n - 1
        PROVE  (front \o back)[j] = uploads[at(j)]
    <3>1. CASE j < k
      <4>1. j \in 1 .. k - 1
        BY <1>1, <3>1
      <4> QED BY <1>2, <2>4, <3>1, <4>1
    <3>2. CASE ~(j < k)
      <4>1. j - (k - 1) \in 1 .. n - k /\ ~(j <= k - 1) /\ k + (j - (k - 1)) = j + 1
        BY <1>1, <3>2
      <4>2. back[j - (k - 1)] = uploads[j + 1]
        <5> DEFINE i == j - (k - 1)
        <5>1. back[i] = uploads[k + i]
          <6> HIDE DEF i
          <6> QED BY <1>3, <4>1 DEF i
        <5> QED BY <5>1, <4>1
      <4> QED BY <2>4, <3>2, <4>1, <4>2
    <3> QED BY <3>1, <3>2
  <2> QED BY <2>1, <2>2, <2>3, <2>5
<1>5. DOMAIN RemoveAt(uploads, k) = 1 .. n - 1 /\ DOMAIN uploads = 1 .. n
  BY <1>4, LenProperties
<1>6. ASSUME NEW a \in 1 .. n - 1, NEW b \in 1 .. n - 1, RemoveAt(uploads, k)[a] = RemoveAt(uploads, k)[b]
      PROVE  a = b
  <2>1. at(a) \in 1 .. n /\ at(b) \in 1 .. n
    BY <1>1
  <2>2. uploads[at(a)] = uploads[at(b)]
    BY <1>4, <1>6
  <2>3. at(a) = at(b)
    <3> HIDE DEF at
    <3> QED BY <2>1, <2>2, <1>5 DEF IsInjective
  <2> QED BY <2>3, <1>1
<1> QED BY <1>4, <1>5, <1>6 DEF IsInjective

\* Every step of a handler keeps the types.
LEMMA StepType ==
  ASSUME UploadAssumption, TypeOK, Step
  PROVE  TypeOK'
<1> USE UploadAssumption
<1>a. \A c \in Call : c.op \in {"setState", "enterState"} => c.up \in Uploads /\ c.st \in TrStates
  BY DEF Call
<1>b. \A c \in Call : c.op \in {"disconnected", "release", "abortRest", "remove", "erase", "legacyRest"}
        => c.up \in Uploads
  BY DEF Call
<1>c. \A c \in Call : c.op = "scan" => c.i \in Nat \ {0} /\ c.cand \in Uploads \union {NoUpload}
  BY DEF Call
<1>d. \A c \in Call : c.op \in {"peerSocket", "initiate"} => c.user \in Users
  BY DEF Call
<1>e. \A c \in Call : c.op = "loop" =>
        c.over \in Loops /\ c.who \in SUBSET Users /\ c.i \in Nat \ {0} /\ c.end \in Nat
  BY DEF Call
<1>f. ASSUME NEW op, Running(op)
      PROVE  calls # <<>> /\ Top \in Call /\ Top.op = op
  BY <1>f, TopType DEF Running, Idle, TypeOK
<1>1. CASE DoSetState
  <2>1. calls # <<>> /\ Top.up \in Uploads /\ Top.st \in TrStates
    BY <1>1, <1>a, <1>f DEF DoSetState
  <2>2. CASE UNCHANGED <<objects, registry, world>> /\ Return(<<>>)
    BY <2>1, <2>2, FewCalls, ReturnType DEF TypeOK, objects, registry, world
  <2>3. CASE UNCHANGED <<objects, registry, world>>
             /\ Return(<<Disconnected(Top.up), EnterState(Top.up, Top.st)>>)
    <3>1. <<Disconnected(Top.up), EnterState(Top.up, Top.st)>> \in Seq(Call)
      BY <2>1, FrameTypes, FewCalls
    <3> QED BY <2>1, <2>3, <3>1, ReturnType DEF TypeOK, objects, registry, world
  <2>4. CASE Enter(Top.up, Top.st)
    BY <2>1, <2>4, EnterType
  <2> QED BY <1>1, <2>2, <2>3, <2>4 DEF DoSetState
<1>2. CASE DoEnterState
  <2>1. calls # <<>> /\ Top.up \in Uploads /\ Top.st \in TrStates
    BY <1>2, <1>a, <1>f DEF DoEnterState
  <2> QED BY <1>2, <2>1, EnterType DEF DoEnterState
<1>3. CASE DoDisconnected
  <2>1. calls # <<>> /\ Top.up \in Uploads
    BY <1>3, <1>b, <1>f DEF DoDisconnected
  <2>2. SetState(Top.up, IF complete[Top.up] THEN "Finished" ELSE "ConnectionClosed") \in Call
    BY <2>1, FrameTypes DEF TrStates, EndStates
  <2> QED BY <1>3, <2>1, <2>2, FewCalls, ReturnType DEF DoDisconnected, TypeOK, objects, registry, world
<1>4. CASE DoRelease
  <2>1. calls # <<>> /\ Top.up \in Uploads
    BY <1>4, <1>b, <1>f DEF DoRelease
  <2> QED BY <1>4, <2>1, FewCalls, ReturnType DEF DoRelease, TypeOK, SocketKinds, registry, world
<1>5. CASE DoCheckUploads
  <2>1. calls # <<>>
    BY <1>5, <1>f DEF DoCheckUploads
  <2>2. CASE ScanFrom(1, NoUpload)
    <3>1. 1 \in Nat \ {0} /\ NoUpload \in Uploads \union {NoUpload}
      OBVIOUS
    <3>2. calls' \in Seq(Call)
      BY <2>1, <2>2, <3>1, ScanType
    <3> QED BY <1>5, <3>2 DEF DoCheckUploads, TypeOK, objects, registry, world
  <2>3. CASE Return(<<>>)
    BY <1>5, <2>1, <2>3, FewCalls, ReturnType DEF DoCheckUploads, TypeOK, objects, registry, world
  <2> QED BY <1>5, <2>2, <2>3 DEF DoCheckUploads
<1>6. CASE DoScan
  <2>1. calls # <<>> /\ Top.i \in Nat \ {0} /\ Top.cand \in Uploads \union {NoUpload}
    BY <1>6, <1>c, <1>f DEF DoScan
  <2>2. calls' \in Seq(Call)
    BY <1>6, <2>1, ScanType DEF DoScan
  <2> QED BY <1>6, <2>2 DEF DoScan, TypeOK, objects, registry, world
<1>7. CASE DoPeerSocket
  <2>1. calls # <<>> /\ Top.user \in Users
    BY <1>7, <1>d, <1>f DEF DoPeerSocket
  <2>2. /\ ReadyCalls(Top.user) \in Seq(Call)
        /\ <<Loop("peerOffline", {Top.user})>> \in Seq(Call)
    BY <2>1, LoopType, FrameTypes, FewCalls DEF Loops, ReadyCalls
  <2>3. calls' \in Seq(Call)
    BY <1>7, <2>1, <2>2, FewCalls, ReturnType DEF DoPeerSocket, TypeOK
  <2>4. peer' \in [Users -> PeerStates]
    BY <1>7, <2>1 DEF DoPeerSocket, TypeOK, PeerStates
  <2> QED BY <1>7, <2>3, <2>4 DEF DoPeerSocket, TypeOK, objects, registry
<1>8. CASE DoInitiate
  <2>1. calls # <<>> /\ Top.user \in Users
    BY <1>8, <1>d, <1>f DEF DoInitiate
  <2> DEFINE u == uploading[Top.user]
             ready == IF u = NoUpload THEN FALSE ELSE state[u] = "Initiating"
  <2>2. CASE ~ready /\ Return(<<>>) /\ UNCHANGED <<replyTimer, replyDue>>
    BY <1>8, <2>1, <2>2, FewCalls, ReturnType DEF DoInitiate, TypeOK, registry, world
  <2>3. ASSUME ready
        PROVE  /\ u \in Uploads
               /\ Append(Fail(u, "LocalError"), CheckUploads) \in Seq(Call)
               /\ <<SetState(u, "Waiting"), CheckUploads>> \in Seq(Call)
    <3>1. u \in Uploads
      BY <2>1, <2>3 DEF TypeOK
    <3>2. "LocalError" \in TrStates /\ "Waiting" \in TrStates
      BY DEF TrStates, SeveringStates, ActiveStates, InitiatingStates
    <3> QED BY <3>1, <3>2, HandlerCalls, FrameTypes, FewCalls, OneMoreCall
  <2>4. CASE ready /\ Return(Append(Fail(u, "LocalError"), CheckUploads)) /\ UNCHANGED <<replyTimer, replyDue>>
    BY <1>8, <2>1, <2>3, <2>4, ReturnType DEF DoInitiate, TypeOK, registry, world
  <2>5. CASE ready /\ replyTimer' = Armed(u) /\ replyDue' = [replyDue EXCEPT ![u] = TRUE]
             /\ Return(<<SetState(u, "Waiting"), CheckUploads>>)
    BY <1>8, <2>1, <2>3, <2>5, ReturnType DEF DoInitiate, TypeOK, Armed, registry, world
  <2> QED BY <1>8, <2>2, <2>4, <2>5 DEF DoInitiate
<1>9. CASE DoLoop
  <2>1. calls # <<>> /\ Top.over \in Loops /\ Top.who \in SUBSET Users /\ Top.i \in Nat \ {0} /\ Top.end \in Nat
    BY <1>9, <1>e, <1>f DEF DoLoop
  <2> DEFINE hits == {j \in Top.i .. Top.end : j <= Len(uploads) /\ Selected(Top.over, Top.who, uploads[j])}
  <2>2. CASE Return(<<>>)
    BY <1>9, <2>1, <2>2, FewCalls, ReturnType DEF DoLoop, TypeOK, objects, registry, world
  <2>3. ASSUME NEW j \in Firsts(hits),
               Return(<<SetState(uploads[j], LoopState(Top.over)), LoopFrom(Top.over, Top.who, j + 1, Top.end)>>)
        PROVE  TypeOK'
    <3>1. j \in Nat \ {0} /\ j \in 1 .. Len(uploads)
      BY <2>1, LenProperties DEF Firsts, TypeOK
    <3>2. uploads[j] \in Uploads /\ LoopState(Top.over) \in TrStates /\ j + 1 \in Nat \ {0}
      BY <3>1, QueueElement DEF TypeOK, LoopState, TrStates, SeveringStates
    <3>3. /\ SetState(uploads[j], LoopState(Top.over)) \in Call
          /\ LoopFrom(Top.over, Top.who, j + 1, Top.end) \in Call
      BY <2>1, <3>2, FrameTypes
    <3> QED BY <1>9, <2>1, <2>3, <3>3, FewCalls, ReturnType DEF DoLoop, TypeOK, objects, registry, world
  <2> QED BY <1>9, <2>2, <2>3 DEF DoLoop
<1>10. CASE DoAbortRest
  <2>1. calls # <<>> /\ Top.up \in Uploads
    BY <1>10, <1>b, <1>f DEF DoAbortRest
  <2>2. SetState(Top.up, "Aborted") \in Call
    BY <2>1, FrameTypes DEF TrStates, SeveringStates
  <2> QED BY <1>10, <2>1, <2>2, FewCalls, ReturnType DEF DoAbortRest, TypeOK, objects, registry, world
<1>11. CASE DoRemove
  <2>1. calls # <<>> /\ Top.up \in Uploads
    BY <1>11, <1>b, <1>f DEF DoRemove
  <2>2. Append(AbortCalls(Top.up), [op |-> "erase", up |-> Top.up]) \in Seq(Call)
    BY <2>1, HandlerCalls, FrameTypes, OneMoreCall
  <2> QED BY <1>11, <2>1, <2>2, FewCalls, ReturnType DEF DoRemove, TypeOK, objects, registry, world
<1>12. CASE DoErase
  <2>1. calls # <<>> /\ Top.up \in Uploads
    BY <1>12, <1>b, <1>f DEF DoErase
  <2>2. calls' \in Seq(Call)
    BY <1>12, <2>1, FewCalls, ReturnType DEF DoErase, TypeOK
  <2>3. uploads' \in Seq(Uploads) /\ IsInjective(uploads')
    BY <1>12, QueueShrinks DEF DoErase, TypeOK
  <2>4. replyTimer' \in [Uploads -> BOOLEAN] /\ replyDue' \in [Uploads -> BOOLEAN]
    BY <1>12 DEF DoErase, TypeOK
  <2> QED BY <1>12, <2>2, <2>3, <2>4 DEF DoErase, TypeOK, registry, world
<1>13. CASE DoLegacyRest
  <2>1. calls # <<>> /\ Top.up \in Uploads
    BY <1>13, <1>b, <1>f DEF DoLegacyRest
  <2>2. SetState(Top.up, "Establishing") \in Call /\ SetState(Top.up, "Waiting") \in Call
    BY <2>1, FrameTypes DEF TrStates, ActiveStates, InitiatingStates
  <2>3. calls' \in Seq(Call)
    BY <1>13, <2>1, <2>2, FewCalls, ReturnType DEF DoLegacyRest, TypeOK
  <2>4. socket' \in [Uploads -> SocketKinds] /\ replyTimer' \in [Uploads -> BOOLEAN] /\ replyDue' \in [Uploads -> BOOLEAN]
    BY <1>13, <2>1 DEF DoLegacyRest, TypeOK, SocketKinds, Cancelled
  <2> QED BY <1>13, <2>3, <2>4 DEF DoLegacyRest, TypeOK, registry, world
<1>14. CASE DoReply
  <2>1. calls # <<>> /\ Top \in Call /\ Top.op = "reply"
    BY <1>14, <1>f DEF DoReply
  <2> DEFINE u == Top.up
             again == [Top EXCEPT !.left = @ - 1]
  <2>2. u \in Uploads /\ (Top.left > 0 => again \in Call)
    BY <2>1, ReplyAgain
  <2>3. /\ SetState(u, "Establishing") \in Call /\ SetState(u, "Waiting") \in Call
        /\ Fail(u, "RemoteError") \in Seq(Call)
    BY <2>2, FrameTypes, HandlerCalls DEF TrStates, ActiveStates, InitiatingStates, SeveringStates
  <2>4. \/ Return(<<>>)
        \/ Top.left > 0 /\ Return(<<SetState(u, "Establishing"), SetState(u, "Waiting"), again>>)
        \/ Top.left > 0 /\ Return(Append(Fail(u, "RemoteError"), again))
    BY <1>14 DEF DoReply
  <2>5. calls' \in Seq(Call)
    <3> HIDE DEF again
    <3> QED BY <2>1, <2>2, <2>3, <2>4, FewCalls, OneMoreCall, ReturnType DEF TypeOK
  <2>6. socket' \in [Uploads -> SocketKinds] /\ replyTimer' \in [Uploads -> BOOLEAN]
    BY <1>14, <2>2 DEF DoReply, TypeOK, SocketKinds, Cancelled
  <2> QED BY <1>14, <2>5, <2>6 DEF DoReply, TypeOK, registry, world
<1> QED
  BY <1>1, <1>2, <1>3, <1>4, <1>5, <1>6, <1>7, <1>8, <1>9, <1>10, <1>11, <1>12, <1>13, <1>14 DEF Step

\* add() queues an upload, the one there is or a new one.
LEMMA AddType ==
  ASSUME TypeOK, NEW u \in Uploads, NEW forced \in BOOLEAN, NEW rest \in Seq(Call), Add(u, forced, rest)
  PROVE  TypeOK'
<1>1. "QueuedLocally" \in TrStates /\ "Offline" \in TrStates
  BY DEF TrStates, SeveringStates
<1>2. <<SetState(u, "QueuedLocally")>> \in Seq(Call)
  BY <1>1, FrameTypes, FewCalls
<1>3. /\ <<SetState(u, "QueuedLocally")>> \o rest \in Seq(Call)
      /\ <<>> \o rest \in Seq(Call)
  BY <1>2, FewCalls, ConcatProperties
<1>4. calls' \in Seq(Call)
  BY <1>3 DEF Add
<1>5. CASE ~Found(u)
  <2>1. uploads' = Append(uploads, u)
    BY <1>5 DEF Add
  <2>2. uploads' \in Seq(Uploads) /\ IsInjective(uploads')
    BY <1>5, <2>1, QueueGrows DEF Found, TypeOK
  <2>3. /\ state' = [state EXCEPT ![u] = "Offline"]
        /\ socket' = [socket EXCEPT ![u] = "none"]
        /\ UNCHANGED <<replyTimer, replyDue, registry, world>>
    BY <1>5 DEF Add
  <2>4. complete' \in [Uploads -> BOOLEAN]
    <3>1. PICK empty \in BOOLEAN : complete' = [complete EXCEPT ![u] = empty]
      BY <1>5 DEF Add
    <3> QED BY <3>1 DEF TypeOK
  <2> QED BY <1>1, <1>4, <2>2, <2>3, <2>4 DEF TypeOK, SocketKinds, registry, world
<1>6. CASE Found(u)
  BY <1>4, <1>6 DEF Add, TypeOK, registry, world
<1> QED BY <1>5, <1>6

\* Every event of the outside keeps the types.
LEMMA EventType ==
  ASSUME UploadAssumption, TypeOK,
         \/ \E u \in Uploads : UploadEvent(u)
         \/ \E x \in Users : UserEvent(x)
         \/ GlobalEvent
  PROVE  TypeOK'
<1> USE UploadAssumption
<1>a. /\ "QueuedLocally" \in TrStates /\ "LocalError" \in TrStates /\ "RemoteError" \in TrStates
      /\ "CannotConnect" \in TrStates /\ "Offline" \in TrStates
      /\ "Establishing" \in TrStates /\ "Waiting" \in TrStates /\ "Transferring" \in TrStates
  BY DEF TrStates, SeveringStates, ActiveStates, InitiatingStates
<1>b. \A u \in Uploads : UserOf[u] \in Users
  BY DEF UploadAssumption
<1>2. ASSUME NEW u \in Uploads, UploadEvent(u)
      PROVE  TypeOK'
  <2>1. CASE QueueRequested(u) \/ UploadFile(u)
    BY <2>1, AddType, FewCalls DEF QueueRequested, UploadFile
  <2>2. CASE LegacyRequest(u)
    <3>1. <<[op |-> "legacyRest", up |-> u]>> \in Seq(Call)
      BY FrameTypes, FewCalls
    <3> QED BY <2>2, <3>1, AddType DEF LegacyRequest
  <2>3. CASE AbortUpload(u)
    BY <2>3, HandlerCalls DEF AbortUpload, Event, TypeOK, objects, registry, world
  <2>4. CASE RemoveUpload(u)
    <3>1. <<[op |-> "remove", up |-> u]>> \in Seq(Call)
      BY FrameTypes, FewCalls
    <3> QED BY <2>4, <3>1 DEF RemoveUpload, Event, TypeOK, objects, registry, world
  <2>5. ASSUME NEW allowed \in BOOLEAN, TransferReply(u, allowed)
        PROVE  TypeOK'
    <3>1. \A n \in Subscriptions : <<Reply(u, allowed, n)>> \in Seq(Call)
      BY FrameTypes, FewCalls DEF Subscriptions
    <3>2. calls' \in Seq(Call)
      BY <2>5, <3>1 DEF TransferReply, Event
    <3>3. replyDue' \in [Uploads -> BOOLEAN]
      BY <2>5 DEF TransferReply, TypeOK
    <3> QED BY <2>5, <3>2, <3>3 DEF TransferReply, TypeOK, registry, world
  <2>6. CASE SocketLost(u)
    BY <2>6, FrameTypes, FewCalls DEF SocketLost, Event, TypeOK, objects, registry, world
  <2>7. CASE SocketCannotConnect(u)
    <3>1. <<SetState(u, "CannotConnect"), Disconnected(u)>> \in Seq(Call)
      BY <1>a, FrameTypes, FewCalls
    <3> QED BY <2>7, <3>1, FewCalls DEF SocketCannotConnect, Event, TypeOK, objects, registry, world
  <2>8. CASE PositionReceived(u)
    <3>1. Fail(u, "LocalError") \in Seq(Call) /\ <<SetState(u, "Transferring")>> \in Seq(Call)
      BY <1>a, HandlerCalls, FrameTypes, FewCalls
    <3>2. calls' \in Seq(Call) /\ complete' \in [Uploads -> BOOLEAN]
      BY <2>8, <3>1 DEF PositionReceived, Event, TypeOK
    <3> QED BY <2>8, <3>2 DEF PositionReceived, TypeOK, registry, world
  <2>9. CASE DataSent(u)
    BY <2>9, FewCalls DEF DataSent, Event, TypeOK, registry, world
  <2>10. CASE ReplyTimeout(u)
    BY <2>10, <1>a, HandlerCalls DEF ReplyTimeout, Event, TypeOK, registry, world
  <2> QED BY <1>2, <2>1, <2>2, <2>3, <2>4, <2>5, <2>6, <2>7, <2>8, <2>9, <2>10 DEF UploadEvent
<1>3. ASSUME NEW x \in Users, UserEvent(x)
      PROVE  TypeOK'
  <2>1. CASE PeerReady(x)
    <3>1. ReadyCalls(x) \in Seq(Call)
      BY LoopType, FrameTypes, FewCalls DEF ReadyCalls, Loops
    <3> QED BY <2>1, <3>1 DEF PeerReady, Event, TypeOK, PeerStates, objects, registry
  <2>2. CASE PeerUnavailable(x)
    <3>2. calls' \in Seq(Call)
      BY <2>2, UnavailableType DEF PeerUnavailable, Event
    <3>3. peer' \in [Users -> PeerStates]
      BY <2>2 DEF PeerUnavailable, TypeOK, PeerStates
    <3> QED BY <2>2, <3>2, <3>3 DEF PeerUnavailable, TypeOK, objects, registry
  <2>3. CASE PeerOffline(x)
    <3>1. <<Loop("peerOffline", {x})>> \in Seq(Call)
      BY LoopType, FewCalls DEF Loops
    <3> QED BY <2>3, <3>1 DEF PeerOffline, Event, TypeOK, objects, registry, world
  <2>4. CASE PeerLost(x)
    <3>1. replyDue' \in [Uploads -> BOOLEAN] /\ peer' \in [Users -> PeerStates]
      BY <2>4 DEF PeerLost, TypeOK, PeerStates
    <3> QED BY <2>4, <3>1, FewCalls DEF PeerLost, Event, TypeOK, registry
  <2>5. CASE Ban(x)
    <3>1. uploading[x] # NoUpload => uploading[x] \in Uploads
      BY DEF TypeOK
    <3>2. (IF uploading[x] = NoUpload THEN <<>> ELSE Fail(uploading[x], "LocalError")) \in Seq(Call)
      BY <3>1, <1>a, HandlerCalls, FewCalls
    <3>3. calls' \in Seq(Call)
      BY <2>5, <3>2, FrameTypes, OneMoreCall DEF Ban, Event
    <3> QED BY <2>5, <3>3 DEF Ban, TypeOK, objects, registry
  <2>6. CASE Unban(x)
    BY <2>6, FewCalls DEF Unban, Event, TypeOK, objects, registry
  <2>7. CASE PeerConnecting(x)
    BY <2>7, FewCalls DEF PeerConnecting, Event, TypeOK, PeerStates, objects, registry
  <2>8. CASE PeerAsked(x)
    BY <2>8, FrameTypes, FewCalls DEF PeerAsked, Event, TypeOK, objects, registry, world
  <2> QED BY <1>3, <2>1, <2>2, <2>3, <2>4, <2>5, <2>6, <2>7, <2>8 DEF UserEvent
<1>4. CASE GlobalEvent
  <2>1. CASE LoggedIn
    BY <2>1, FrameTypes, FewCalls DEF LoggedIn, Event, TypeOK, objects, registry
  <2>2. CASE LoggedOut
    <3>1. <<Loop("logout", Users)>> \in Seq(Call)
      BY LoopType, FewCalls DEF Loops
    <3> QED BY <2>2, <3>1 DEF LoggedOut, Event, TypeOK, objects, registry
  <2>3. ASSUME NEW n \in Slots, SetSlots(n)
        PROVE  TypeOK'
    BY <2>3, FrameTypes, FewCalls DEF SetSlots, Event, TypeOK, objects, registry
  <2>4. ASSUME NEW b \in BOOLEAN, SetAutoClear(b)
        PROVE  TypeOK'
    BY <2>4, FewCalls DEF SetAutoClear, Event, TypeOK, objects, registry
  <2> QED BY <1>4, <2>1, <2>2, <2>3, <2>4 DEF GlobalEvent
<1> QED BY <1>2, <1>3, <1>4

\* Every reachable state is well typed: among others, m_Uploads holds at most one upload
\* of a user and path, and only uploads are ever listed as in progress.
THEOREM TypeCorrect == Spec => []TypeOK
<1>1. Init => TypeOK
  <2> SUFFICES ASSUME Init PROVE TypeOK
    OBVIOUS
  <2>1. "Offline" \in TrStates /\ "none" \in SocketKinds
    BY DEF TrStates, SocketKinds
  <2>2. uploads \in Seq(Uploads) /\ IsInjective(uploads)
    BY DEF Init, IsInjective
  <2>3. config \in [slots : Slots, banned : SUBSET Users, autoClear : BOOLEAN]
    BY UploadAssumption DEF Init, UploadAssumption
  <2> QED BY <2>1, <2>2, <2>3, FewCalls DEF Init, TypeOK, PeerStates
<1>2. TypeOK /\ [Next]_vars => TypeOK'
  <2> SUFFICES ASSUME TypeOK, [Next]_vars PROVE TypeOK'
    OBVIOUS
  <2>1. CASE Next
    BY <2>1, UploadAssumption, StepType, EventType DEF Next
  <2>2. CASE UNCHANGED vars
    BY <2>2 DEF TypeOK, vars, objects, registry, world
  <2> QED BY <2>1, <2>2
<1> QED BY <1>1, <1>2, PTL DEF Spec

-----------------------------------------------------------------------------
(* The invariant of the call stack, and what follows from it: a listed     *)
(* upload is in progress and in m_Uploads, and the candidate that          *)
(* checkUploads holds across other handlers is not dangling.               *)

\* Where the calls of a handler that returns come from.
LEMMA StackShape ==
  ASSUME calls \in Seq(Call), calls # <<>>, NEW now \in Seq(Call), Return(now)
  PROVE  /\ Len(now) \in Nat /\ Len(calls) \in Nat \ {0}
         /\ Len(calls') = Len(now) + Len(calls) - 1
         /\ Top = calls[1]
         /\ \A k \in 1 .. Len(now) : now[k] \in Call /\ calls'[k] = now[k]
         /\ \A k \in Len(now) + 1 .. Len(calls') :
              k - Len(now) + 1 \in 2 .. Len(calls) /\ calls'[k] = calls[k - Len(now) + 1]
         /\ \A k \in 1 .. Len(calls) : calls[k] \in Call
<1>1. /\ Tail(calls) \in Seq(Call) /\ Len(Tail(calls)) = Len(calls) - 1
      /\ \A k \in 1 .. Len(Tail(calls)) : Tail(calls)[k] = calls[k + 1]
  BY HeadTailProperties
<1>2. Len(now) \in Nat /\ Len(calls) \in Nat \ {0}
  BY LenProperties
<1>3. Top = calls[1]
  BY DEF Top
<1>4. /\ \A k \in 1 .. Len(now) : now[k] \in Call
      /\ \A k \in 1 .. Len(calls) : calls[k] \in Call
  BY ElementOfSeq
<1>5. /\ Len(calls') = Len(now) + Len(Tail(calls))
      /\ \A k \in 1 .. Len(now) + Len(Tail(calls)) :
           calls'[k] = IF k <= Len(now) THEN now[k] ELSE Tail(calls)[k - Len(now)]
  BY <1>1, ConcatProperties DEF Return
<1>6. ASSUME NEW k \in Len(now) + 1 .. Len(calls')
      PROVE  k - Len(now) + 1 \in 2 .. Len(calls) /\ calls'[k] = calls[k - Len(now) + 1]
  <2>1. k - Len(now) \in 1 .. Len(Tail(calls)) /\ k \in 1 .. Len(now) + Len(Tail(calls)) /\ ~(k <= Len(now))
    BY <1>1, <1>2, <1>5
  <2>2. calls'[k] = Tail(calls)[k - Len(now)]
    BY <1>5, <2>1
  <2> QED BY <1>1, <1>2, <2>1, <2>2
<1>7. \A k \in 1 .. Len(now) : calls'[k] = now[k]
  BY <1>1, <1>2, <1>5
<1> QED BY <1>1, <1>2, <1>3, <1>4, <1>5, <1>6, <1>7

\* The fields of a call.
LEMMA CallFields ==
  ASSUME NEW c \in Call
  PROVE  /\ c.op \in {"setState", "enterState"} => c.up \in Uploads /\ c.st \in TrStates
         /\ c.op \in {"disconnected", "release", "abortRest", "remove", "erase", "legacyRest", "reply"} => c.up \in Uploads
         /\ c.op = "scan" => c.i \in Nat \ {0} /\ c.cand \in Uploads \union {NoUpload}
         /\ c.op \in {"peerSocket", "initiate"} => c.user \in Users
         /\ c.op = "loop" => c.over \in Loops /\ c.who \in SUBSET Users /\ c.i \in Nat \ {0} /\ c.end \in Nat
  BY DEF Call

-----------------------------------------------------------------------------
(* What a handler may leave on the stack for the invariant to hold.        *)

\* The calls "now" that replace the one on top are harmless to what is below.
GoodReturn(now) ==
  /\ Known' \subseteq Known
  /\ config'.banned = config.banned
  /\ Top = SetState(Top.up, "Establishing") => now = <<>>
  /\ \A k \in 1 .. Len(now) : Progresses(now[k]) =>
       now[k].up \in Known' /\ (k = 1 \/ (k = 2 /\ now[1] = SetState(now[2].up, "Establishing")))
  /\ \A k \in 1 .. Len(calls) : Progresses(calls[k]) => calls[k].up \in Known'
  /\ \A k \in 1 .. Len(now) : HasNoCaller(now[k]) => k = Len(now) /\ Len(calls) = 1
  /\ \A k \in 1 .. Len(now) : now[k].op = "erase" => k > 1 /\ Aborts(now[k - 1], now[k].up)
  /\ Len(calls) > 1 => \A u \in Uploads :
       /\ state[u] \in DeadStates /\ ~Revives(Top, u)
            => state'[u] \in DeadStates /\ \A k \in 1 .. Len(now) : ~Revives(now[k], u)
       /\ Aborts(Top, u)
            => \/ Len(now) > 0 /\ Aborts(now[Len(now)], u)
               \/ state'[u] \in DeadStates /\ \A k \in 1 .. Len(now) : ~Revives(now[k], u)
       /\ u \in Known /\ socket[u] = "none" /\ ~Clears(Top, u)
            => /\ u \in Known' /\ socket'[u] = "none"
               /\ \A k \in 1 .. Len(now) : ~Clears(now[k], u)
  /\ \A k \in 1 .. Len(now) : now[k].op = "scan" /\ now[k].cand # NoUpload =>
       LET u == now[k].cand
       IN  /\ u \in Known' /\ socket'[u] = "none" /\ UserOf[u] \notin config.banned
           /\ \A j \in 1 .. k - 1 : ~Clears(now[j], u)

\* Such a return keeps the invariant's conditions on the pending calls.
LEMMA StackKept ==
  ASSUME UploadAssumption, TypeOK, CallsInvariant, calls # <<>>,
         NEW now \in Seq(Call), Return(now), GoodReturn(now)
  PROVE  ProgressOnTop' /\ BottomCalls' /\ EraseIsSafe' /\ CandidateIsSafe'
<1> DEFINE m == Len(now)
           old(k) == k - m + 1
<1>1. /\ m \in Nat /\ Len(calls) \in Nat \ {0}
      /\ Len(calls') = m + Len(calls) - 1
      /\ Top = calls[1]
      /\ \A k \in 1 .. m : now[k] \in Call /\ calls'[k] = now[k]
      /\ \A k \in m + 1 .. Len(calls') : old(k) \in 2 .. Len(calls) /\ calls'[k] = calls[old(k)]
      /\ \A k \in 1 .. Len(calls) : calls[k] \in Call
  BY StackShape DEF TypeOK
<1>2. ProgressOnTop'
  <2> SUFFICES ASSUME NEW k \in 1 .. Len(calls'), Progresses(calls'[k])
               PROVE  calls'[k].up \in Known' /\ (k = 1 \/ (k = 2 /\ calls'[1] = SetState(calls'[2].up, "Establishing")))
    BY DEF ProgressOnTop, Progresses, SetState
  <2>1. CASE k \in 1 .. m
    BY <1>1, <2>1 DEF GoodReturn
  <2>2. CASE k \in m + 1 .. Len(calls')
    <3>1. old(k) \in 2 .. Len(calls) /\ calls'[k] = calls[old(k)]
      BY <1>1, <2>2
    <3>2. old(k) = 2 /\ calls[1] = SetState(calls[2].up, "Establishing") /\ calls'[k].up \in Known'
      BY <1>1, <3>1 DEF CallsInvariant, ProgressOnTop, GoodReturn
    <3>3. Top = SetState(Top.up, "Establishing")
      BY <1>1, <3>2 DEF SetState
    <3>4. now = <<>>
      BY <3>3 DEF GoodReturn
    <3>5. m = 0
      BY <3>4
    <3> QED BY <1>1, <2>2, <3>2, <3>5
  <2> QED BY <1>1, <2>1, <2>2
<1>3. BottomCalls'
  <2> SUFFICES ASSUME NEW k \in 1 .. Len(calls'), HasNoCaller(calls'[k])
               PROVE  k = Len(calls')
    BY DEF BottomCalls, HasNoCaller
  <2>1. CASE k \in 1 .. m
    BY <1>1, <2>1 DEF GoodReturn
  <2>2. CASE k \in m + 1 .. Len(calls')
    <3>1. old(k) \in 2 .. Len(calls) /\ calls'[k] = calls[old(k)]
      BY <1>1, <2>2
    <3>2. \A j \in 2 .. Len(calls) : HasNoCaller(calls[j]) => j = Len(calls)
      BY <1>1 DEF CallsInvariant, BottomCalls
    <3> HIDE DEF old
    <3>3. old(k) = Len(calls)
      BY <3>1, <3>2
    <3> QED BY <1>1, <2>2, <3>3 DEF old
  <2> QED BY <1>1, <2>1, <2>2
<1>4. EraseIsSafe'
  <2> SUFFICES ASSUME NEW k \in 1 .. Len(calls'), calls'[k].op = "erase"
               PROVE  \/ k > 1 /\ Aborts(calls'[k - 1], calls'[k].up)
                      \/ /\ state'[calls'[k].up] \in DeadStates
                         /\ \A j \in 1 .. k - 1 : ~Revives(calls'[j], calls'[k].up)
    BY DEF EraseIsSafe, Aborts, Revives, Assigns
  <2>1. CASE k \in 1 .. m
    <3>1. k > 1 /\ Aborts(now[k - 1], now[k].up)
      BY <1>1, <2>1 DEF GoodReturn
    <3>2. calls'[k - 1] = now[k - 1] /\ calls'[k] = now[k]
      BY <1>1, <2>1, <3>1
    <3> QED BY <3>1, <3>2
  <2>2. CASE k \in m + 1 .. Len(calls')
    <3> DEFINE u == calls'[k].up
    <3>1. old(k) \in 2 .. Len(calls) /\ calls'[k] = calls[old(k)] /\ u \in Uploads
      BY <1>1, <2>2, CallFields
    <3>2. Len(calls) > 1
      BY <1>1, <3>1
    <3>3. \/ Aborts(calls[old(k) - 1], u)
          \/ state[u] \in DeadStates /\ \A j \in 1 .. old(k) - 1 : ~Revives(calls[j], u)
      <4>1. old(k) \in 1 .. Len(calls) /\ calls[old(k)].op = "erase" /\ calls[old(k)].up = u
        BY <1>1, <3>1
      <4> HIDE DEF old
      <4> QED BY <4>1 DEF CallsInvariant, EraseIsSafe
    <3>4. CASE Aborts(calls[old(k) - 1], u) /\ old(k) > 2
      <4>1. k - 1 \in m + 1 .. Len(calls') /\ old(k - 1) = old(k) - 1 /\ k > 1
        BY <1>1, <2>2, <3>4
      <4>2. calls'[k - 1] = calls[old(k) - 1]
        BY <1>1, <4>1
      <4> QED BY <3>4, <4>1, <4>2
    <3>5. CASE Aborts(calls[old(k) - 1], u) /\ old(k) = 2
      <4>1. k = m + 1 /\ old(k) - 1 = 1
        BY <1>1, <2>2, <3>5
      <4>a. Aborts(Top, u)
        <5> HIDE DEF old, u
        <5> QED BY <1>1, <3>5, <4>1
      <4>2. CASE m > 0 /\ Aborts(now[m], u)
        <5>1. calls'[k - 1] = now[m] /\ k > 1
          BY <1>1, <4>1, <4>2
        <5> QED BY <4>2, <5>1
      <4>3. CASE state'[u] \in DeadStates /\ \A j \in 1 .. m : ~Revives(now[j], u)
        BY <1>1, <4>1, <4>3
      <4> QED BY <3>1, <3>2, <4>a, <4>2, <4>3 DEF GoodReturn
    <3>6. CASE state[u] \in DeadStates /\ \A j \in 1 .. old(k) - 1 : ~Revives(calls[j], u)
      <4>1. ~Revives(Top, u)
        BY <1>1, <3>1, <3>6
      <4>2. state'[u] \in DeadStates /\ \A j \in 1 .. m : ~Revives(now[j], u)
        BY <3>1, <3>2, <3>6, <4>1 DEF GoodReturn
      <4>3. ASSUME NEW j \in 1 .. k - 1
            PROVE  ~Revives(calls'[j], u)
        <5>1. CASE j \in 1 .. m
          BY <1>1, <4>2, <5>1
        <5>2. CASE j \in m + 1 .. k - 1
          <6>1. old(j) \in 1 .. old(k) - 1 /\ calls'[j] = calls[old(j)]
            BY <1>1, <2>2, <5>2
          <6> QED BY <3>6, <6>1
        <5> QED BY <1>1, <2>2, <5>1, <5>2
      <4> QED BY <4>2, <4>3
    <3> QED BY <1>1, <3>1, <3>3, <3>4, <3>5, <3>6
  <2> QED BY <1>1, <2>1, <2>2
<1>5. CandidateIsSafe'
  <2> SUFFICES ASSUME NEW k \in 1 .. Len(calls'), calls'[k].op = "scan", calls'[k].cand # NoUpload
               PROVE  /\ calls'[k].cand \in Known' /\ socket'[calls'[k].cand] = "none"
                      /\ UserOf[calls'[k].cand] \notin config'.banned
                      /\ \A j \in 1 .. k - 1 : ~Clears(calls'[j], calls'[k].cand)
    BY DEF CandidateIsSafe, Clears, Assigns
  <2> DEFINE u == calls'[k].cand
  <2>1. CASE k \in 1 .. m
    <3>1. calls'[k] = now[k] /\ \A j \in 1 .. k - 1 : calls'[j] = now[j]
      <4>1. \A j \in 1 .. k - 1 : j \in 1 .. m
        BY <1>1, <2>1
      <4>2. \A j \in 1 .. m : calls'[j] = now[j]
        BY <1>1
      <4> HIDE DEF m
      <4> QED BY <2>1, <4>1, <4>2
    <3>2. /\ u \in Known' /\ socket'[u] = "none" /\ UserOf[u] \notin config.banned
          /\ \A j \in 1 .. k - 1 : ~Clears(now[j], u)
      <4>1. k \in 1 .. Len(now) /\ now[k].op = "scan" /\ now[k].cand # NoUpload /\ u = now[k].cand
        BY <2>1, <3>1
      <4> HIDE DEF u, m
      <4> QED BY <4>1 DEF GoodReturn
    <3> QED BY <3>1, <3>2 DEF GoodReturn
  <2>2. CASE k \in m + 1 .. Len(calls')
    <3>1. old(k) \in 2 .. Len(calls) /\ calls'[k] = calls[old(k)] /\ u \in Uploads
      BY <1>1, <2>2, CallFields
    <3>2. /\ u \in Known /\ socket[u] = "none" /\ UserOf[u] \notin config.banned
          /\ \A j \in 1 .. old(k) - 1 : ~Clears(calls[j], u)
      BY <1>1, <3>1 DEF CallsInvariant, CandidateIsSafe
    <3>3. ~Clears(Top, u) /\ Len(calls) > 1
      BY <1>1, <3>1, <3>2
    <3>4. u \in Known' /\ socket'[u] = "none" /\ \A j \in 1 .. m : ~Clears(now[j], u)
      BY <3>1, <3>2, <3>3 DEF GoodReturn
    <3>5. ASSUME NEW j \in 1 .. k - 1
          PROVE  ~Clears(calls'[j], u)
      <4>1. CASE j \in 1 .. m
        BY <1>1, <3>4, <4>1
      <4>2. CASE j \in m + 1 .. k - 1
        <5>1. old(j) \in 1 .. old(k) - 1 /\ calls'[j] = calls[old(j)]
          BY <1>1, <2>2, <4>2
        <5> QED BY <3>2, <5>1
      <4> QED BY <1>1, <2>2, <4>1, <4>2
    <3> QED BY <3>2, <3>4, <3>5 DEF GoodReturn
  <2> QED BY <1>1, <2>1, <2>2
<1> QED BY <1>2, <1>3, <1>4, <1>5

-----------------------------------------------------------------------------
(* What each kind of call can do to the uploads of the calls below it.     *)

\* A call that starts, queues, erases and scans nothing.
Plain(c) ==
  /\ ~Progresses(c) /\ ~HasNoCaller(c) /\ c.op \notin {"erase", "scan"}
  /\ \A v \in Uploads : ~Revives(c, v)

\* Most calls are plain, and clear no upload or their own only.
LEMMA PlainCalls ==
  /\ \A u \in Uploads, o \in {"disconnected", "release", "abortRest", "remove"} :
       LET c == [op |-> o, up |-> u]
       IN  Plain(c) /\ \A v \in Uploads : Clears(c, v) => v = u
  /\ \A u \in Uploads, s \in DeadStates :
       /\ Plain(SetState(u, s)) /\ Plain(EnterState(u, s))
       /\ \A v \in Uploads : Clears(SetState(u, s), v) \/ Clears(EnterState(u, s), v)
            => v = u /\ s = "Finished"
  /\ Plain(CheckUploads) /\ \A v \in Uploads : ~Clears(CheckUploads, v)
  /\ \A x \in Users, v \in Uploads : /\ Plain(PeerSocket(x)) /\ ~Clears(PeerSocket(x), v)
                                     /\ Plain(Initiate(x)) /\ ~Clears(Initiate(x), v)
  /\ \A o \in Loops \ {"logout"}, w \in SUBSET Users, i \in Nat, e \in Nat :
       Plain(LoopFrom(o, w, i, e)) /\ \A v \in Uploads : ~Clears(LoopFrom(o, w, i, e), v)
<1> USE DEF Plain, Progresses, HasNoCaller, Revives, Clears, Assigns
<1>1. ASSUME NEW u \in Uploads, NEW o \in {"disconnected", "release", "abortRest", "remove"}
      PROVE  LET c == [op |-> o, up |-> u]
             IN  Plain(c) /\ \A v \in Uploads : Clears(c, v) => v = u
  OBVIOUS
<1>2. ASSUME NEW u \in Uploads, NEW s \in DeadStates
      PROVE  /\ Plain(SetState(u, s)) /\ Plain(EnterState(u, s))
             /\ \A v \in Uploads : Clears(SetState(u, s), v) \/ Clears(EnterState(u, s), v)
                  => v = u /\ s = "Finished"
  BY DEF SetState, EnterState, DeadStates
<1>3. Plain(CheckUploads) /\ \A v \in Uploads : ~Clears(CheckUploads, v)
  BY DEF CheckUploads
<1>4. ASSUME NEW x \in Users, NEW v \in Uploads
      PROVE  /\ Plain(PeerSocket(x)) /\ ~Clears(PeerSocket(x), v)
             /\ Plain(Initiate(x)) /\ ~Clears(Initiate(x), v)
  BY DEF PeerSocket, Initiate
<1>5. ASSUME NEW o \in Loops \ {"logout"}, NEW w \in SUBSET Users, NEW i \in Nat, NEW e \in Nat
      PROVE  Plain(LoopFrom(o, w, i, e)) /\ \A v \in Uploads : ~Clears(LoopFrom(o, w, i, e), v)
  BY DEF LoopFrom
<1> QED BY <1>1, <1>2, <1>3, <1>4, <1>5

\* The states by name.
LEMMA StateKinds ==
  /\ DeadStates = {"Finished", "ConnectionClosed", "CannotConnect", "Aborted", "RemoteError", "LocalError"}
  /\ ActiveStates = {"Waiting", "Establishing", "Initiating", "Transferring"}
  /\ DeadStates \subseteq TrStates /\ ActiveStates \subseteq TrStates
  /\ "QueuedLocally" \in TrStates \ (DeadStates \union ActiveStates)
  /\ "Offline" \in TrStates \ (DeadStates \union ActiveStates)
  BY DEF DeadStates, TrStates, SeveringStates, EndStates, ActiveStates, InitiatingStates

\* Plain calls are a good thing to leave, when they and the step leave alone the uploads
\* of the calls below.
LEMMA PlainReturn ==
  ASSUME TypeOK, CallsInvariant, calls # <<>>, NEW now \in Seq(Call),
         Known' = Known, config'.banned = config.banned,
         Top = SetState(Top.up, "Establishing") => now = <<>>,
         \A k \in 1 .. Len(now) : Plain(now[k]),
         \A u \in Uploads : state[u] \in DeadStates /\ ~Revives(Top, u) => state'[u] \in DeadStates,
         \A u \in Uploads : Aborts(Top, u) =>
           (Len(now) > 0 /\ Aborts(now[Len(now)], u)) \/ state'[u] \in DeadStates,
         \A u \in Uploads : socket[u] = "none" /\ ~Clears(Top, u) =>
           socket'[u] = "none" /\ \A k \in 1 .. Len(now) : ~Clears(now[k], u)
  PROVE  GoodReturn(now)
<1>1. ASSUME NEW k \in 1 .. Len(calls), Progresses(calls[k])
      PROVE  calls[k].up \in Known'
  BY <1>1 DEF CallsInvariant, ProgressOnTop
<1> QED BY <1>1 DEF GoodReturn, Plain

\* Before any call but an assignment of m_State, nothing below is about to progress, and
\* no queued upload has a socket.
LEMMA NoAssignmentOnTop ==
  ASSUME TypeOK, CallsInvariant, calls # <<>>, Top.op \notin {"setState", "enterState"}
  PROVE  /\ \A k \in 1 .. Len(calls) : ~Progresses(calls[k])
         /\ \A u \in Uploads : Queued(u) => socket[u] = "none"
         /\ \A u : Top # SetState(u, "Establishing")
<1>1. Top = calls[1]
  BY DEF Top
<1>2. \A u : Top # SetState(u, "Establishing")
  BY DEF SetState
<1>3. ASSUME NEW k \in 1 .. Len(calls), Progresses(calls[k])
      PROVE  FALSE
  <2>1. k # 1
    BY <1>1, <1>3 DEF Progresses
  <2> QED BY <1>1, <1>2, <1>3, <2>1 DEF CallsInvariant, ProgressOnTop
<1>4. ASSUME NEW u \in Uploads, Queued(u)
      PROVE  socket[u] = "none"
  BY <1>1, <1>2, <1>4 DEF CallsInvariant, QueuedHasNoSocket
<1> QED BY <1>2, <1>3, <1>4

-----------------------------------------------------------------------------
(* setState. *)

\* onUploadUpdated keeps every entry but the upload's own, which stays only in progress.
LEMMA ListedSound ==
  ASSUME UploadAssumption, NEW m \in [Users -> Uploads \union {NoUpload}],
         NEW u \in Uploads, NEW s \in TrStates,
         \A x \in Users : m[x] # NoUpload => UserOf[m[x]] = x
  PROVE  LET r == Listed(m, u, s)
         IN  \A x \in Users : r[x] # NoUpload =>
               UserOf[r[x]] = x /\ (r[x] = u => s \in ActiveStates) /\ (r[x] # u => m[x] = r[x])
  BY DEF Listed, UploadAssumption

\* Once m_State is assigned, the invariant holds again.
LEMMA EnterCalls ==
  ASSUME UploadAssumption, TypeOK, CallsInvariant, calls # <<>>,
         Top.op \in {"setState", "enterState"}, Enter(Top.up, Top.st)
  PROVE  CallsInvariant'
<1> DEFINE u == Top.up
           s == Top.st
           now == Aftermath(u, s)
<1>1. Top = calls[1] /\ Top \in Call /\ u \in Uploads /\ s \in TrStates
  BY TopType, CallFields DEF Top, TypeOK
<1>2. /\ state' = [state EXCEPT ![u] = s]
      /\ \A v \in Uploads : socket'[v] = socket[v] \/ socket'[v] = "none"
      /\ Known' = Known /\ config' = config /\ Return(now)
      /\ state'[u] = s
  BY <1>1 DEF Enter, Known, TypeOK, world
<1>3. /\ now \in Seq(Call)
      /\ s \in ActiveStates => now = <<>>
      /\ \A k \in 1 .. Len(now) : \/ now[k] = CheckUploads
                                  \/ s = "Finished" /\ now[k] = [op |-> "remove", up |-> u]
  <2>1. now \in Seq(Call)
    BY <1>1, HandlerCalls
  <2>2. CASE s \in ActiveStates
    BY <2>2, StateKinds DEF Aftermath
  <2>3. CASE s \notin ActiveStates /\ ~(s = "Finished" /\ config.autoClear)
    <3>1. <<CheckUploads>> \o <<>> = <<CheckUploads>>
      BY FrameTypes, FewCalls, ConcatEmptySeq
    <3>2. now = <<CheckUploads>>
      BY <2>3, <3>1 DEF Aftermath
    <3> HIDE DEF now
    <3> QED BY <2>3, <3>2, <2>1
  <2>4. CASE s = "Finished" /\ config.autoClear
    <3>1. now = <<CheckUploads>> \o <<[op |-> "remove", up |-> u]>>
      BY <2>4, StateKinds DEF Aftermath
    <3>2. <<CheckUploads>> \in Seq(Call) /\ <<[op |-> "remove", up |-> u]>> \in Seq(Call)
      BY <1>1, FrameTypes, FewCalls
    <3>3. s \notin ActiveStates
      BY <2>4, StateKinds
    <3>4. Len(now) = 2 /\ now[1] = CheckUploads /\ now[2] = [op |-> "remove", up |-> u]
      <4> HIDE DEF u, now
      <4>1. Len(<<CheckUploads>>) = 1 /\ Len(<<[op |-> "remove", up |-> u]>>) = 1
        OBVIOUS
      <4> QED BY <3>1, <3>2, <4>1, ConcatProperties
    <3> HIDE DEF now
    <3> QED BY <2>1, <2>4, <3>3, <3>4
  <2> QED BY <2>1, <2>2, <2>3, <2>4
<1>4. GoodReturn(now)
  <2>1. \A k \in 1 .. Len(now) : Plain(now[k])
    BY <1>1, <1>3, PlainCalls
  <2>2. Top = SetState(Top.up, "Establishing") => now = <<>>
    BY <1>3, StateKinds DEF SetState
  <2>3. ASSUME NEW v \in Uploads, state[v] \in DeadStates, ~Revives(Top, v)
        PROVE  state'[v] \in DeadStates
    <3>1. CASE v = u
      BY <1>2, <2>3, <3>1 DEF Revives, Assigns
    <3>2. CASE v # u
      BY <1>2, <2>3, <3>2
    <3> QED BY <3>1, <3>2
  <2>4. ASSUME NEW v \in Uploads, Aborts(Top, v)
        PROVE  state'[v] \in DeadStates
    <3>1. v = u /\ s = "Aborted"
      BY <2>4 DEF Aborts, Assigns
    <3> QED BY <1>2, <3>1, StateKinds
  <2>5. ASSUME NEW v \in Uploads, socket[v] = "none", ~Clears(Top, v)
        PROVE  socket'[v] = "none" /\ \A k \in 1 .. Len(now) : ~Clears(now[k], v)
    <3>1. s = "Finished" => v # u
      BY <2>5 DEF Clears, Assigns
    <3> QED BY <1>1, <1>2, <1>3, <2>5, <3>1, PlainCalls
  <2>6. config'.banned = config.banned /\ Known' = Known
    BY <1>2
  <2> HIDE DEF now
  <2> QED BY <1>3, <2>1, <2>2, <2>3, <2>4, <2>5, <2>6, PlainReturn
<1>5. ProgressOnTop' /\ BottomCalls' /\ EraseIsSafe' /\ CandidateIsSafe'
  BY <1>2, <1>3, <1>4, StackKept
<1>6. ListedIsActive'
  <2> DEFINE before == IF s = "Finished" THEN state[u] ELSE s
             m1 == Listed(uploading, u, before)
             m2 == Listed(m1, u, s)
  <2>1. before \in TrStates /\ uploading \in [Users -> Uploads \union {NoUpload}]
    BY <1>1 DEF TypeOK
  <2>2. m1 \in [Users -> Uploads \union {NoUpload}]
    BY <1>1, <2>1, ListedType
  <2>3. \A x \in Users : uploading[x] # NoUpload => UserOf[uploading[x]] = x /\ state[uploading[x]] \in ActiveStates
    BY DEF CallsInvariant, ListedIsActive
  <2>4. \A x \in Users : m1[x] # NoUpload => UserOf[m1[x]] = x /\ (m1[x] # u => uploading[x] = m1[x])
    BY <1>1, <2>1, <2>3, ListedSound
  <2>5. \A x \in Users : m2[x] # NoUpload =>
          UserOf[m2[x]] = x /\ (m2[x] = u => s \in ActiveStates) /\ (m2[x] # u => m1[x] = m2[x])
    BY <1>1, <2>2, <2>4, ListedSound
  <2>6. uploading' = m2
    BY DEF Enter
  <2>7. m2 \in [Users -> Uploads \union {NoUpload}]
    BY <1>1, <2>2, ListedType
  <2> HIDE DEF m1, m2
  <2>8. ASSUME NEW x \in Users, m2[x] # NoUpload
        PROVE  UserOf[m2[x]] = x /\ state'[m2[x]] \in ActiveStates
    <3>1. CASE m2[x] = u
      BY <1>2, <2>5, <2>8, <3>1
    <3>2. CASE m2[x] # u
      BY <1>2, <2>3, <2>4, <2>5, <2>7, <2>8, <3>2 DEF TypeOK
    <3> QED BY <3>1, <3>2
  <2> QED BY <2>6, <2>8 DEF ListedIsActive
<1>7. ActiveIsKnown'
  <2> SUFFICES ASSUME NEW v \in Uploads, state'[v] \in ActiveStates
               PROVE  v \in Known'
    BY DEF ActiveIsKnown
  <2>1. CASE v = u
    <3>1. Progresses(calls[1])
      BY <1>1, <1>2, <2>1 DEF Progresses
    <3>2. 1 \in 1 .. Len(calls)
      BY LenProperties DEF TypeOK
    <3> QED BY <1>1, <1>2, <2>1, <3>1, <3>2 DEF CallsInvariant, ProgressOnTop
  <2>2. CASE v # u
    BY <1>2, <2>2 DEF CallsInvariant, ActiveIsKnown
  <2> QED BY <2>1, <2>2
<1>8. QueuedHasNoSocket'
  <2> SUFFICES ASSUME NEW v \in Uploads, state'[v] = "QueuedLocally", socket'[v] # "none"
               PROVE  FALSE
    BY DEF QueuedHasNoSocket, Queued
  <2>1. CASE v = u
    <3>1. s = "QueuedLocally"
      BY <1>2, <2>1
    <3>2. socket'[u] = "none"
      BY <1>1, <3>1 DEF Enter, SeveringStates, TypeOK
    <3> QED BY <2>1, <3>2
  <2>2. CASE v # u
    <3>1. Queued(v) /\ socket[v] # "none"
      BY <1>2, <2>2 DEF Queued
    <3>2. Top = SetState(v, "Establishing")
      BY <1>1, <3>1 DEF CallsInvariant, QueuedHasNoSocket
    <3> QED BY <2>2, <3>2 DEF SetState
  <2> QED BY <2>1, <2>2
<1> QED BY <1>5, <1>6, <1>7, <1>8 DEF CallsInvariant

-----------------------------------------------------------------------------
(* The other steps of the handlers. *)

\* A step that assigns no m_State and listing, and leaves good calls.
LEMMA QuietCalls ==
  ASSUME UploadAssumption, TypeOK, CallsInvariant, calls # <<>>,
         Top.op \notin {"setState", "enterState"},
         NEW now \in Seq(Call), Return(now), GoodReturn(now),
         UNCHANGED <<uploads, state, uploading>>,
         \A v \in Uploads : socket'[v] = socket[v] \/ socket'[v] = "none"
  PROVE  CallsInvariant'
<1>1. ProgressOnTop' /\ BottomCalls' /\ EraseIsSafe' /\ CandidateIsSafe'
  BY StackKept
<1>2. ListedIsActive' /\ ActiveIsKnown'
  BY DEF CallsInvariant, ListedIsActive, ActiveIsKnown, Known
<1>3. QueuedHasNoSocket'
  BY NoAssignmentOnTop DEF QueuedHasNoSocket, Queued
<1> QED BY <1>1, <1>2, <1>3 DEF CallsInvariant

\* One, two or three calls, one by one.
LEMMA TupleElements ==
  /\ Len(<<>>) = 0
  /\ \A a : Len(<<a>>) = 1 /\ <<a>>[1] = a
  /\ \A a, b : Len(<<a, b>>) = 2 /\ <<a, b>>[1] = a /\ <<a, b>>[2] = b
  /\ \A a, b, c : /\ Len(<<a, b, c>>) = 3
                  /\ <<a, b, c>>[1] = a /\ <<a, b, c>>[2] = b /\ <<a, b, c>>[3] = c
  OBVIOUS

\* What setSocket(0) leaves to run clears the upload, if it has a socket.
LEMMA DropCalls ==
  ASSUME TypeOK, NEW u \in Uploads
  PROVE  /\ \A k \in 1 .. Len(DropSocket(u)) :
              /\ Plain(DropSocket(u)[k])
              /\ \A v \in Uploads : Clears(DropSocket(u)[k], v) => v = u
         /\ socket[u] = "none" => DropSocket(u) = <<>>
<1>1. CASE socket[u] = "none"
  BY <1>1, TupleElements DEF DropSocket
<1>2. CASE socket[u] # "none"
  <2>1. DropSocket(u) = <<Disconnected(u), Release(u)>>
    BY <1>2 DEF DropSocket
  <2>2. /\ Plain(Disconnected(u)) /\ \A v \in Uploads : Clears(Disconnected(u), v) => v = u
        /\ Plain(Release(u)) /\ \A v \in Uploads : Clears(Release(u), v) => v = u
    BY PlainCalls DEF Disconnected, Release
  <2> QED BY <1>2, <2>1, <2>2, TupleElements
<1> QED BY <1>1, <1>2

\* Dropping the socket of an upload, and a call on the same upload after it.
LEMMA DropThen ==
  ASSUME TypeOK, NEW u \in Uploads, NEW c \in Call
  PROVE  LET now == Append(DropSocket(u), c)
         IN  /\ now \in Seq(Call) /\ Len(now) > 0 /\ now[Len(now)] = c
             /\ \A k \in 1 .. Len(now) : now[k] = c \/ (/\ Plain(now[k]) /\ socket[u] # "none"
                                                      /\ \A v \in Uploads : Clears(now[k], v) => v = u)
<1> DEFINE d == DropSocket(u)
           now == Append(d, c)
<1>1. d \in Seq(Call)
  BY HandlerCalls
<1>2. /\ now \in Seq(Call) /\ Len(now) = Len(d) + 1 /\ Len(d) \in Nat
      /\ \A k \in 1 .. Len(d) : now[k] = d[k]
      /\ now[Len(d) + 1] = c
  BY <1>1, AppendProperties, LenProperties
<1>3. ASSUME NEW k \in 1 .. Len(now), k # Len(now)
      PROVE  /\ Plain(now[k]) /\ socket[u] # "none"
             /\ \A v \in Uploads : Clears(now[k], v) => v = u
  <2>1. k \in 1 .. Len(d) /\ now[k] = d[k] /\ d # <<>>
    BY <1>2, <1>3
  <2> QED BY <2>1, DropCalls
<1> QED BY <1>2, <1>3

\* setSocket(0) and then an error or an end for the upload.
LEMMA FailCalls ==
  ASSUME TypeOK, NEW u \in Uploads, NEW s \in DeadStates \ {"Finished"}
  PROVE  /\ Fail(u, s) \in Seq(Call)
         /\ \A k \in 1 .. Len(Fail(u, s)) :
              /\ Plain(Fail(u, s)[k])
              /\ \A v \in Uploads : Clears(Fail(u, s)[k], v) => v = u /\ socket[u] # "none"
<1> DEFINE now == Append(DropSocket(u), SetState(u, s))
<1>1. SetState(u, s) \in Call /\ Plain(SetState(u, s)) /\ \A v \in Uploads : ~Clears(SetState(u, s), v)
  BY FrameTypes, PlainCalls, StateKinds
<1>2. /\ now \in Seq(Call)
      /\ \A k \in 1 .. Len(now) : now[k] = SetState(u, s)
            \/ (/\ Plain(now[k]) /\ socket[u] # "none"
                /\ \A v \in Uploads : Clears(now[k], v) => v = u)
  BY <1>1, DropThen
<1>3. ASSUME NEW k \in 1 .. Len(now)
      PROVE  /\ Plain(now[k])
             /\ \A v \in Uploads : Clears(now[k], v) => v = u /\ socket[u] # "none"
  <2> HIDE DEF now
  <2> QED BY <1>1, <1>2
<1>4. Fail(u, s) = now
  BY DEF Fail
<1> HIDE DEF now
<1> QED BY <1>2, <1>3, <1>4

\* A step that returns with nothing left to run.
LEMMA NothingLeft ==
  ASSUME TypeOK, CallsInvariant, calls # <<>>, Known' = Known, config'.banned = config.banned,
         \A u \in Uploads : state[u] \in DeadStates /\ ~Revives(Top, u) => state'[u] \in DeadStates,
         \A u \in Uploads : Aborts(Top, u) => state'[u] \in DeadStates,
         \A u \in Uploads : socket[u] = "none" => socket'[u] = "none"
  PROVE  <<>> \in Seq(Call) /\ GoodReturn(<<>>)
<1> DEFINE now == <<>>
<1>1. now \in Seq(Call) /\ Len(now) = 0
  BY FewCalls, TupleElements
<1>2. \A k \in 1 .. Len(now) : FALSE
  <2> HIDE DEF now
  <2> QED BY <1>1
<1>3. Top = SetState(Top.up, "Establishing") => now = <<>>
  OBVIOUS
<1>4. GoodReturn(now)
  <2> HIDE DEF now
  <2> QED BY <1>1, <1>2, <1>3, PlainReturn
<1> QED BY <1>1, <1>4

\* A step that leaves one call to run.
LEMMA OneLeft ==
  ASSUME NEW c \in Call
  PROVE  /\ <<c>> \in Seq(Call) /\ Len(<<c>>) = 1 /\ <<c>>[1] = c
         /\ \A k \in 1 .. Len(<<c>>) : k = 1 /\ <<c>>[k] = c
<1> DEFINE now == <<c>>
<1>1. now \in Seq(Call) /\ Len(now) = 1 /\ now[1] = c
  BY FewCalls, TupleElements
<1>2. \A k \in 1 .. Len(now) : k = 1 /\ now[k] = c
  <2> HIDE DEF now
  <2> QED BY <1>1
<1> QED BY <1>1, <1>2

\* A step that leaves two calls to run.
LEMMA TwoLeft ==
  ASSUME NEW c \in Call, NEW d \in Call
  PROVE  /\ <<c, d>> \in Seq(Call) /\ Len(<<c, d>>) = 2 /\ <<c, d>>[1] = c /\ <<c, d>>[2] = d
         /\ \A k \in 1 .. Len(<<c, d>>) : (k = 1 /\ <<c, d>>[k] = c) \/ (k = 2 /\ <<c, d>>[k] = d)
<1> DEFINE now == <<c, d>>
<1>1. now \in Seq(Call) /\ Len(now) = 2 /\ now[1] = c /\ now[2] = d
  BY FewCalls, TupleElements
<1>2. \A k \in 1 .. Len(now) : (k = 1 /\ now[k] = c) \/ (k = 2 /\ now[k] = d)
  <2> HIDE DEF now
  <2> QED BY <1>1
<1> QED BY <1>1, <1>2

\* A step that leaves three calls to run.
LEMMA ThreeLeft ==
  ASSUME NEW c \in Call, NEW d \in Call, NEW e \in Call
  PROVE  /\ <<c, d, e>> \in Seq(Call) /\ Len(<<c, d, e>>) = 3 /\ <<c, d, e>>[1] = c
         /\ \A k \in 1 .. Len(<<c, d, e>>) :
              (k = 1 /\ <<c, d, e>>[k] = c) \/ (k = 2 /\ <<c, d, e>>[k] = d) \/ (k = 3 /\ <<c, d, e>>[k] = e)
<1> DEFINE now == <<c, d, e>>
<1>1. now \in Seq(Call) /\ Len(now) = 3 /\ now[1] = c /\ now[2] = d /\ now[3] = e
  BY FewCalls, TupleElements
<1>2. \A k \in 1 .. Len(now) : (k = 1 /\ now[k] = c) \/ (k = 2 /\ now[k] = d) \/ (k = 3 /\ now[k] = e)
  <2> HIDE DEF now
  <2> QED BY <1>1
<1> QED BY <1>1, <1>2

\* setState returns at once, disconnects the socket first, or assigns m_State.
LEMMA SetStateCalls ==
  ASSUME UploadAssumption, TypeOK, CallsInvariant, DoSetState
  PROVE  CallsInvariant'
<1> DEFINE u == Top.up
           s == Top.st
<1>1. /\ calls # <<>> /\ Top = calls[1] /\ Top \in Call /\ Top.op = "setState"
      /\ u \in Uploads /\ s \in TrStates
  BY TopType, CallFields DEF Top, TypeOK, DoSetState, Running, Idle
<1>2. CASE Enter(u, s)
  BY <1>1, <1>2, EnterCalls
<1>3. ASSUME NEW now \in Seq(Call), Return(now), UNCHANGED <<objects, registry, world>>,
             GoodReturn(now), s = state[u] \/ s \in SeveringStates
      PROVE  CallsInvariant'
  <2>1. ProgressOnTop' /\ BottomCalls' /\ EraseIsSafe' /\ CandidateIsSafe'
    BY <1>1, <1>3, StackKept
  <2>2. ListedIsActive' /\ ActiveIsKnown'
    BY <1>3 DEF CallsInvariant, ListedIsActive, ActiveIsKnown, Known, objects, registry
  <2>3. ASSUME NEW v \in Uploads, state[v] = "QueuedLocally", socket[v] # "none"
        PROVE  FALSE
    <3>1. Top = SetState(v, "Establishing")
      BY <1>1, <2>3 DEF CallsInvariant, QueuedHasNoSocket, Queued
    <3>2. s = "Establishing" /\ u = v
      BY <3>1 DEF SetState
    <3> QED BY <1>3, <2>3, <3>2 DEF SeveringStates
  <2>4. QueuedHasNoSocket'
    BY <1>3, <2>3 DEF QueuedHasNoSocket, Queued, objects
  <2> QED BY <2>1, <2>2, <2>4 DEF CallsInvariant
<1>4. CASE s = state[u] /\ Return(<<>>) /\ UNCHANGED <<objects, registry, world>>
  <2>1. \A v \in Uploads : Aborts(Top, v) => state[v] \in DeadStates
    BY <1>1, <1>4, StateKinds DEF Aborts, Assigns
  <2>2. GoodReturn(<<>>)
    BY <1>1, <1>4, <2>1, NothingLeft DEF objects, world, Known
  <2> QED BY <1>3, <1>4, <2>2, FewCalls
<1>5. CASE /\ s # state[u] /\ s \in SeveringStates /\ socket[u] # "none"
           /\ Return(<<Disconnected(u), EnterState(u, s)>>) /\ UNCHANGED <<objects, registry, world>>
  <2> DEFINE d == Disconnected(u)
             e == EnterState(u, s)
             now == <<d, e>>
  <2>1. /\ now \in Seq(Call) /\ Len(now) = 2 /\ now[1] = d /\ now[2] = e
        /\ \A k \in 1 .. Len(now) : (k = 1 /\ now[k] = d) \/ (k = 2 /\ now[k] = e)
    <3>1. d \in Call /\ e \in Call
      BY <1>1, FrameTypes
    <3> HIDE DEF d, e
    <3> QED BY <3>1, TwoLeft
  <2>2. Plain(d) /\ \A v \in Uploads : Clears(d, v) => v = u
    BY <1>1, PlainCalls DEF Disconnected
  <2>3. /\ ~Progresses(e) /\ ~HasNoCaller(e) /\ e.op \notin {"erase", "scan"}
        /\ \A v \in Uploads : /\ Revives(e, v) => Revives(Top, v)
                              /\ Aborts(Top, v) => Aborts(e, v)
                              /\ Clears(e, v) => v = u
    BY <1>1, <1>5 DEF EnterState, Progresses, HasNoCaller, Revives, Aborts, Clears, Assigns,
       SeveringStates, ActiveStates, InitiatingStates
  <2>4. Top # SetState(Top.up, "Establishing")
    BY <1>5 DEF SetState, SeveringStates
  <2>5. \A k \in 1 .. Len(calls) : Progresses(calls[k]) => calls[k].up \in Known
    BY DEF CallsInvariant, ProgressOnTop
  <2>6. Known' = Known /\ config' = config /\ socket' = socket /\ state' = state
    BY <1>5 DEF objects, world, Known
  <2> HIDE DEF now, d, e
  <2>8. GoodReturn(now)
    BY <1>5, <2>1, <2>2, <2>3, <2>4, <2>5, <2>6 DEF GoodReturn, Plain
  <2> QED BY <1>3, <1>5, <2>1, <2>8 DEF now, d, e
<1> QED BY <1>2, <1>4, <1>5 DEF DoSetState

\* UploadSocket::onDisconnected, and the release of the socket.
LEMMA SocketCalls ==
  ASSUME UploadAssumption, TypeOK, CallsInvariant, DoDisconnected \/ DoRelease
  PROVE  CallsInvariant'
<1> DEFINE u == Top.up
<1>1. /\ calls # <<>> /\ Top \in Call /\ u \in Uploads /\ Top.op \in {"disconnected", "release"}
      /\ Clears(Top, u)
  BY TopType, CallFields DEF TypeOK, DoDisconnected, DoRelease, Running, Idle, Clears
<1>2. /\ \A v \in Uploads : ~Aborts(Top, v) /\ Top # SetState(v, "Establishing")
      /\ Top # SetState(u, "Establishing")
  BY <1>1 DEF Aborts, Assigns, SetState
<1>3. CASE DoDisconnected
  <2> DEFINE s == IF complete[u] THEN "Finished" ELSE "ConnectionClosed"
  <2>1. PICK now \in {<<>>, <<SetState(u, s)>>} : Return(now)
    BY <1>3 DEF DoDisconnected
  <2>2. SetState(u, s) \in Call /\ Plain(SetState(u, s)) /\ \A v \in Uploads : Clears(SetState(u, s), v) => v = u
    BY <1>1, FrameTypes, PlainCalls, StateKinds
  <2>3. now \in Seq(Call) /\ GoodReturn(now)
    <3>1. UNCHANGED <<objects, world>>
      BY <1>3 DEF DoDisconnected
    <3>2. CASE now = <<>>
      BY <1>1, <1>2, <3>1, <3>2, NothingLeft DEF objects, world, Known
    <3>3. CASE now = <<SetState(u, s)>>
      <4>1. now \in Seq(Call) /\ \A k \in 1 .. Len(now) : now[k] = SetState(u, s)
        BY <2>2, <3>3, OneLeft
      <4> QED BY <1>1, <1>2, <2>2, <3>1, <4>1, PlainReturn DEF objects, world, Known
    <3> QED BY <2>1, <3>2, <3>3
  <2> QED BY <1>1, <1>3, <2>1, <2>3, QuietCalls DEF DoDisconnected, objects, registry
<1>4. CASE DoRelease
  <2>1. \A v \in Uploads : socket'[v] = socket[v] \/ socket'[v] = "none"
    BY <1>1, <1>4 DEF DoRelease, TypeOK
  <2>2. UNCHANGED <<uploads, state, uploading, config>> /\ Return(<<>>)
    BY <1>4 DEF DoRelease, registry, world
  <2>3. GoodReturn(<<>>)
    BY <1>1, <1>2, <2>1, <2>2, NothingLeft DEF Known
  <2> QED BY <1>1, <2>1, <2>2, <2>3, FewCalls, QuietCalls
<1> QED BY <1>3, <1>4

\* A stretch of checkUploads: nothing to start, a candidate to start, or a banned user's
\* upload to refuse with the candidate kept for later.
LEMMA ScanCalls ==
  ASSUME UploadAssumption, TypeOK, CallsInvariant, calls # <<>>, Top.op \in {"check", "scan"},
         NEW i \in Nat \ {0}, NEW cand \in Uploads \union {NoUpload},
         cand = NoUpload \/ (Top.op = "scan" /\ cand = Top.cand),
         ScanFrom(i, cand), UNCHANGED <<objects, registry, world>>
  PROVE  CallsInvariant'
<1>1. /\ Top = calls[1] /\ 1 \in 1 .. Len(calls)
      /\ \A v : ~Aborts(Top, v) /\ Top # SetState(v, "Establishing")
      /\ \A v \in Uploads : Queued(v) => socket[v] = "none"
      /\ \A k \in 1 .. Len(calls) : ~Progresses(calls[k])
  BY NoAssignmentOnTop, LenProperties DEF Top, Aborts, Assigns, TypeOK, SetState
<1>2. ASSUME NEW j \in Ahead(i)
      PROVE  /\ j \in 1 .. Len(uploads) /\ uploads[j] \in Uploads /\ uploads[j] \in Known /\ Queued(uploads[j])
             /\ state[uploads[j]] \notin DeadStates
  <2>1. j \in 1 .. Len(uploads)
    BY LenProperties DEF Ahead, TypeOK
  <2>2. uploads[j] \in Uploads /\ uploads[j] \in Known
    BY <2>1, QueueElement, LenProperties DEF Known, Range, TypeOK
  <2>3. Queued(uploads[j])
    BY DEF Ahead, Banned, Startable
  <2> QED BY <2>1, <2>2, <2>3, StateKinds DEF Queued
<1>3. cand # NoUpload => /\ cand \in Known /\ socket[cand] = "none" /\ UserOf[cand] \notin config.banned
                         /\ Revives(Top, cand)
  BY <1>1 DEF CallsInvariant, CandidateIsSafe, Revives
<1>4. ASSUME NEW S \in SUBSET Ahead(i), NEW c \in Candidates(cand, S), c # NoUpload
      PROVE  /\ c \in Uploads /\ c \in Known /\ socket[c] = "none"
             /\ state[c] \in DeadStates => Revives(Top, c)
             /\ c = cand \/ \E j \in S : c = uploads[j]
  <2>1. CASE c = cand
    BY <1>3, <1>4, <2>1
  <2>2. CASE c # cand
    <3>1. PICK j \in S : c = uploads[j]
      BY <1>4, <2>2 DEF Candidates, Firsts
    <3> QED BY <1>1, <1>2, <3>1
  <2> QED BY <2>1, <2>2
<1>5. ASSUME Return(<<>>)
      PROVE  CallsInvariant'
  <2>1. <<>> \in Seq(Call) /\ GoodReturn(<<>>)
    BY <1>1, NothingLeft DEF objects, world, Known
  <2> QED BY <1>5, <2>1, QuietCalls DEF objects, registry
<1>6. ASSUME NEW c \in Uploads, c \in Known, state[c] \in DeadStates => Revives(Top, c), Return(StartUpload(c))
      PROVE  CallsInvariant'
  <2> DEFINE a == SetState(c, "Initiating")
             b == PeerSocket(UserOf[c])
             now == StartUpload(c)
  <2>1. a \in Call /\ b \in Call /\ CheckUploads \in Call
    BY FrameTypes, StateKinds DEF UploadAssumption
  <2>2. /\ now \in Seq(Call) /\ Len(now) = 3
        /\ now[1] = a /\ now[2] = b /\ now[3] = CheckUploads
    BY <2>1, FewCalls, TupleElements DEF StartUpload
  <2>3. /\ Plain(b) /\ Plain(CheckUploads)
        /\ \A v \in Uploads : ~Clears(b, v) /\ ~Clears(CheckUploads, v)
    BY PlainCalls DEF UploadAssumption
  <2>4. /\ ~HasNoCaller(a) /\ a.op \notin {"erase", "scan"} /\ a.up = c
        /\ \A v \in Uploads : ~Clears(a, v) /\ (Revives(a, v) => v = c)
    BY DEF SetState, HasNoCaller, Clears, Revives, Assigns
  <2>5. Known' = Known /\ config' = config /\ socket' = socket /\ state' = state
    BY DEF objects, world, Known
  <2> HIDE DEF now, a, b
  <2>6. \A k \in 1 .. Len(now) : \/ k = 1 /\ now[k] = a
                                 \/ Plain(now[k]) /\ \A v \in Uploads : ~Clears(now[k], v)
    BY <2>2, <2>3
  <2>7. GoodReturn(now)
    BY <1>1, <1>6, <2>2, <2>4, <2>5, <2>6 DEF GoodReturn, Plain
  <2> QED BY <1>6, <2>2, <2>7, QuietCalls DEF now, objects, registry
<1>7. ASSUME NEW j \in Firsts(Stops(i)), Banned(uploads[j]),
             NEW c \in Candidates(cand, Ahead(i) \ (j .. Len(uploads))),
             Return(Append(Fail(uploads[j], "LocalError"), Scan(j + 1, c)))
      PROVE  CallsInvariant'
  <2> DEFINE w == uploads[j]
             f == Fail(w, "LocalError")
             a == Scan(j + 1, c)
             now == Append(f, a)
  <2>1. j \in Ahead(i) /\ \A k \in Stops(i) : j <= k
    BY DEF Firsts, Stops
  <2>2. /\ w \in Uploads /\ socket[w] = "none" /\ UserOf[w] \in config.banned
        /\ j \in 1 .. Len(uploads) /\ j + 1 \in Nat \ {0}
    BY <1>1, <1>2, <1>7, <2>1 DEF Banned
  <2>3. c \in Uploads \union {NoUpload}
    BY <1>4
  <2>4. c # NoUpload => c \in Known /\ socket[c] = "none" /\ UserOf[c] \notin config.banned
    <3>1. ASSUME NEW k \in Ahead(i) \ (j .. Len(uploads)), c = uploads[k]
          PROVE  UserOf[c] \notin config.banned
      <4>1. ~(j <= k)
        BY <1>2, <2>2, <3>1
      <4>2. ~Banned(uploads[k])
        BY <2>1, <3>1, <4>1 DEF Stops
      <4> QED BY <3>1, <4>2 DEF Ahead, Startable
    <3> QED BY <1>3, <1>4, <3>1
  <2>5. /\ f \in Seq(Call)
        /\ \A k \in 1 .. Len(f) : Plain(f[k]) /\ \A v \in Uploads : ~Clears(f[k], v)
    BY <2>2, FailCalls, StateKinds
  <2>6. a \in Call
    BY <2>2, <2>3, FrameTypes
  <2>7. /\ now \in Seq(Call) /\ Len(now) = Len(f) + 1 /\ Len(f) \in Nat
        /\ \A k \in 1 .. Len(f) : now[k] = f[k]
        /\ now[Len(f) + 1] = a
    BY <2>5, <2>6, AppendProperties, LenProperties
  <2>8. /\ ~Progresses(a) /\ ~HasNoCaller(a) /\ a.op # "erase" /\ a.cand = c
        /\ \A v \in Uploads : ~Clears(a, v) /\ (Revives(a, v) => v = c)
    BY DEF Scan, Progresses, HasNoCaller, Clears, Revives, Assigns
  <2>9. Known' = Known /\ config' = config /\ socket' = socket /\ state' = state
    BY DEF objects, world, Known
  <2>10. c # NoUpload /\ state[c] \in DeadStates => Revives(Top, c)
    BY <1>4
  <2> HIDE DEF now, f, a
  <2>11. ASSUME NEW k \in 1 .. Len(now)
         PROVE  \/ k = Len(f) + 1 /\ now[k] = a
                \/ k \in 1 .. Len(f) /\ Plain(now[k]) /\ \A v \in Uploads : ~Clears(now[k], v)
    BY <2>5, <2>7
  <2>12. /\ \A k \in 1 .. Len(now) : now[k].op = "scan" => now[k] = a /\ k = Len(f) + 1
         /\ \A k \in 1 .. Len(now) : ~Progresses(now[k]) /\ ~HasNoCaller(now[k]) /\ now[k].op # "erase"
         /\ \A k \in 1 .. Len(now), v \in Uploads : ~Clears(now[k], v) /\ (Revives(now[k], v) => v = c)
    BY <2>8, <2>11 DEF Plain
  <2>13. GoodReturn(now)
    BY SMTT(60), <1>1, <2>3, <2>4, <2>7, <2>8, <2>9, <2>10, <2>12 DEF GoodReturn
  <2> QED BY <1>7, <2>7, <2>13, QuietCalls DEF now, f, a, objects, registry
<1>8. CASE Stops(i) = {} /\ \E c \in Candidates(cand, Ahead(i)) :
             Return(IF c = NoUpload THEN <<>> ELSE StartUpload(c))
  <2>1. PICK c \in Candidates(cand, Ahead(i)) : Return(IF c = NoUpload THEN <<>> ELSE StartUpload(c))
    BY <1>8
  <2>2. CASE c = NoUpload
    BY <1>5, <2>1, <2>2
  <2>3. CASE c # NoUpload
    BY <1>4, <1>6, <2>1, <2>3
  <2> QED BY <2>2, <2>3
<1>9. CASE \E j \in Firsts(Stops(i)) : ~Banned(uploads[j]) /\ Return(StartUpload(uploads[j]))
  BY <1>2, <1>6, <1>9 DEF Firsts, Stops
<1>10. CASE \E j \in Firsts(Stops(i)) :
              /\ Banned(uploads[j])
              /\ \E c \in Candidates(cand, Ahead(i) \ (j .. Len(uploads))) :
                   Return(Append(Fail(uploads[j], "LocalError"), Scan(j + 1, c)))
  BY <1>7, <1>10
<1> QED BY <1>8, <1>9, <1>10 DEF ScanFrom

\* The second half of setState, after the socket has disconnected.
LEMMA EnterStateCalls ==
  ASSUME UploadAssumption, TypeOK, CallsInvariant, DoEnterState
  PROVE  CallsInvariant'
  BY EnterCalls DEF DoEnterState, Running, Idle

\* checkUploads, from its start or after a refused upload.
LEMMA CheckCalls ==
  ASSUME UploadAssumption, TypeOK, CallsInvariant, DoCheckUploads \/ DoScan
  PROVE  CallsInvariant'
<1>1. /\ calls # <<>> /\ Top \in Call /\ Top.op \in {"check", "scan"}
      /\ UNCHANGED <<objects, registry, world>>
  BY TopType DEF TypeOK, DoCheckUploads, DoScan, Running, Idle
<1>2. CASE DoCheckUploads /\ HasFreeSlots
  <2>1. ScanFrom(1, NoUpload) /\ 1 \in Nat \ {0} /\ NoUpload \in Uploads \union {NoUpload}
    BY <1>2 DEF DoCheckUploads
  <2> QED BY <1>1, <2>1, ScanCalls
<1>3. CASE DoCheckUploads /\ ~HasFreeSlots
  <2>1. Return(<<>>)
    BY <1>3 DEF DoCheckUploads
  <2>2. \A v \in Uploads : ~Aborts(Top, v)
    BY <1>1 DEF Aborts, Assigns
  <2>3. GoodReturn(<<>>)
    BY <1>1, <2>2, NothingLeft DEF objects, world, Known
  <2> QED BY <1>1, <2>1, <2>3, FewCalls, QuietCalls DEF objects, registry
<1>4. CASE DoScan
  <2>1. Top.op = "scan" /\ ScanFrom(Top.i, Top.cand)
    BY <1>4 DEF DoScan, Running
  <2>2. Top.i \in Nat \ {0} /\ Top.cand \in Uploads \union {NoUpload}
    BY <1>1, <2>1, CallFields
  <2> QED BY <1>1, <2>1, <2>2, ScanCalls
<1> QED BY <1>1, <1>2, <1>3, <1>4

\* The loops that a peer's arrival or departure starts.
LEMMA OfflineLoops ==
  ASSUME TypeOK, NEW o \in {"requeueOffline", "peerOffline"}, NEW w \in SUBSET Users
  PROVE  /\ Loop(o, w) \in Call /\ Plain(Loop(o, w))
         /\ \A v \in Uploads : ~Clears(Loop(o, w), v)
<1>1. o \in Loops
  BY DEF Loops
<1>2. Loop(o, w) \in Call
  BY <1>1, LoopType
<1> QED BY <1>2 DEF Loop, LoopFrom, Plain, Progresses, HasNoCaller, Revives, Clears, Assigns

\* PeerManager::peerSocket answers at once, or registers the user.
LEMMA PeerSocketCalls ==
  ASSUME UploadAssumption, TypeOK, CallsInvariant, DoPeerSocket
  PROVE  CallsInvariant'
<1> DEFINE x == Top.user
<1>1. /\ calls # <<>> /\ Top \in Call /\ x \in Users /\ Top.op = "peerSocket"
      /\ UNCHANGED <<objects, registry, config>>
  BY TopType, CallFields DEF TypeOK, DoPeerSocket, Running, Idle
<1>2. /\ \A v \in Uploads : ~Aborts(Top, v)
      /\ Top # SetState(Top.up, "Establishing")
  BY <1>1 DEF Aborts, Assigns, SetState
<1>3. /\ \A o \in {"requeueOffline", "peerOffline"} :
           /\ Loop(o, {x}) \in Call /\ Plain(Loop(o, {x}))
           /\ \A v \in Uploads : ~Clears(Loop(o, {x}), v)
      /\ Initiate(x) \in Call /\ Plain(Initiate(x)) /\ \A v \in Uploads : ~Clears(Initiate(x), v)
  <2>1. {x} \in SUBSET Users
    BY <1>1
  <2>2. Initiate(x) \in Call /\ Plain(Initiate(x)) /\ \A v \in Uploads : ~Clears(Initiate(x), v)
    BY <1>1, FrameTypes DEF Initiate, Plain, Progresses, HasNoCaller, Revives, Clears, Assigns
  <2>3. ASSUME NEW o \in {"requeueOffline", "peerOffline"}
        PROVE  /\ Loop(o, {x}) \in Call /\ Plain(Loop(o, {x}))
               /\ \A v \in Uploads : ~Clears(Loop(o, {x}), v)
    <3> HIDE DEF x
    <3> QED BY <2>1, OfflineLoops
  <2> QED BY <2>2, <2>3
<1>4. ASSUME NEW now \in Seq(Call), Return(now),
             \A k \in 1 .. Len(now) : Plain(now[k]) /\ \A v \in Uploads : ~Clears(now[k], v)
      PROVE  CallsInvariant'
  <2>1. GoodReturn(now)
    BY <1>1, <1>2, <1>4, PlainReturn DEF objects, Known
  <2> QED BY <1>1, <1>4, <2>1, QuietCalls DEF objects, registry
<1>5. CASE Return(ReadyCalls(x))
  <2> DEFINE a == Loop("requeueOffline", {x})
             b == Initiate(x)
             now == <<a, b>>
  <2> HIDE DEF a, b
  <2>1. a \in Call /\ b \in Call
    BY <1>3 DEF a, b
  <2>2. now \in Seq(Call) /\ \A k \in 1 .. Len(now) : now[k] = a \/ now[k] = b
    BY <2>1, TwoLeft
  <2> HIDE DEF now
  <2>3. \A k \in 1 .. Len(now) : Plain(now[k]) /\ \A v \in Uploads : ~Clears(now[k], v)
    BY <1>3, <2>2 DEF a, b
  <2> QED BY <1>4, <1>5, <2>2, <2>3 DEF now, a, b, ReadyCalls
<1>6. CASE Return(<<Loop("peerOffline", {x})>>)
  <2> DEFINE a == Loop("peerOffline", {x})
             now == <<a>>
  <2> HIDE DEF a
  <2>1. a \in Call
    BY <1>3 DEF a
  <2>2. now \in Seq(Call) /\ \A k \in 1 .. Len(now) : now[k] = a
    BY <2>1, OneLeft
  <2> HIDE DEF now
  <2>3. \A k \in 1 .. Len(now) : Plain(now[k]) /\ \A v \in Uploads : ~Clears(now[k], v)
    BY <1>3, <2>2 DEF a
  <2> QED BY <1>4, <1>6, <2>2, <2>3 DEF now, a
<1>7. CASE Return(<<>>)
  <2>1. GoodReturn(<<>>)
    BY <1>1, <1>2, NothingLeft DEF objects, Known
  <2> QED BY <1>1, <1>7, <2>1, FewCalls, QuietCalls DEF objects, registry
<1> QED BY <1>5, <1>6, <1>7 DEF DoPeerSocket

\* A check of the queue after other calls.
LEMMA ThenCheck ==
  ASSUME NEW f \in Seq(Call), \A k \in 1 .. Len(f) : Plain(f[k])
  PROVE  LET now == Append(f, CheckUploads)
         IN  /\ now \in Seq(Call)
             /\ \A k \in 1 .. Len(now) :
                  /\ Plain(now[k])
                  /\ \A v \in Uploads : Clears(now[k], v) => \E j \in 1 .. Len(f) : Clears(f[j], v)
<1> DEFINE now == Append(f, CheckUploads)
<1>1. /\ CheckUploads \in Call /\ Plain(CheckUploads)
      /\ \A v \in Uploads : ~Clears(CheckUploads, v)
  BY FrameTypes, PlainCalls
<1>2. /\ now \in Seq(Call) /\ Len(now) = Len(f) + 1 /\ Len(f) \in Nat
      /\ \A k \in 1 .. Len(f) : now[k] = f[k]
      /\ now[Len(f) + 1] = CheckUploads
  BY <1>1, AppendProperties, LenProperties
<1>3. ASSUME NEW k \in 1 .. Len(now)
      PROVE  /\ Plain(now[k])
             /\ \A v \in Uploads : Clears(now[k], v) => \E j \in 1 .. Len(f) : Clears(f[j], v)
  <2> HIDE DEF now
  <2>1. k = Len(f) + 1 \/ k \in 1 .. Len(f)
    BY <1>2
  <2> QED BY <1>1, <1>2, <2>1
<1> QED BY <1>2, <1>3

\* An upload fails, and the queue is checked.
LEMMA FailThenCheck ==
  ASSUME TypeOK, NEW u \in Uploads
  PROVE  LET now == Append(Fail(u, "LocalError"), CheckUploads)
         IN  /\ now \in Seq(Call)
             /\ \A k \in 1 .. Len(now) :
                  Plain(now[k]) /\ \A v \in Uploads : Clears(now[k], v) => v = u /\ socket[u] # "none"
<1> DEFINE f == Fail(u, "LocalError")
           now == Append(f, CheckUploads)
<1>1. "LocalError" \in DeadStates \ {"Finished"}
  BY StateKinds
<1>2. /\ f \in Seq(Call)
      /\ \A k \in 1 .. Len(f) :
           Plain(f[k]) /\ \A v \in Uploads : Clears(f[k], v) => v = u /\ socket[u] # "none"
  BY <1>1, FailCalls
<1> HIDE DEF f
<1>3. /\ now \in Seq(Call)
      /\ \A k \in 1 .. Len(now) :
           /\ Plain(now[k])
           /\ \A v \in Uploads : Clears(now[k], v) => \E j \in 1 .. Len(f) : Clears(f[j], v)
  BY <1>2, ThenCheck
<1> HIDE DEF now
<1>4. \A k \in 1 .. Len(now) :
        Plain(now[k]) /\ \A v \in Uploads : Clears(now[k], v) => v = u /\ socket[u] # "none"
  BY <1>2, <1>3
<1> QED BY <1>3, <1>4 DEF now, f

\* The second half of onPeerSocketReady.
LEMMA InitiateCalls ==
  ASSUME UploadAssumption, TypeOK, CallsInvariant, DoInitiate
  PROVE  CallsInvariant'
<1> DEFINE u == uploading[Top.user]
<1>1. /\ calls # <<>> /\ Top \in Call /\ Top.user \in Users /\ Top.op = "initiate"
      /\ UNCHANGED <<uploads, state, socket, uploading, config>>
  BY TopType, CallFields DEF TypeOK, DoInitiate, Running, Idle, registry, world
<1>2. /\ \A v \in Uploads : ~Aborts(Top, v)
      /\ Top # SetState(Top.up, "Establishing")
  BY <1>1 DEF Aborts, Assigns, SetState
<1>3. ASSUME NEW now \in Seq(Call), Return(now), GoodReturn(now)
      PROVE  CallsInvariant'
  BY <1>1, <1>3, QuietCalls
<1>4. CASE Return(<<>>)
  <2>1. GoodReturn(<<>>)
    BY <1>1, <1>2, NothingLeft DEF Known
  <2> QED BY <1>3, <1>4, <2>1, FewCalls
<1>5. ASSUME u # NoUpload, state[u] = "Initiating"
      PROVE  u \in Uploads /\ u \in Known /\ state[u] \notin DeadStates
  BY <1>1, <1>5, StateKinds DEF CallsInvariant, ActiveIsKnown, TypeOK
<1>6. ASSUME u # NoUpload, state[u] = "Initiating", Return(Append(Fail(u, "LocalError"), CheckUploads))
      PROVE  CallsInvariant'
  <2> DEFINE now == Append(Fail(u, "LocalError"), CheckUploads)
  <2>1. u \in Uploads
    BY <1>5, <1>6
  <2> HIDE DEF u
  <2>2. /\ now \in Seq(Call)
        /\ \A k \in 1 .. Len(now) :
             Plain(now[k]) /\ \A v \in Uploads : Clears(now[k], v) => v = u /\ socket[u] # "none"
    BY <2>1, FailThenCheck
  <2> HIDE DEF now
  <2>3. GoodReturn(now)
    BY <1>1, <1>2, <2>2, PlainReturn DEF Known
  <2> QED BY <1>3, <1>6, <2>2, <2>3 DEF now, u
<1>7. ASSUME u # NoUpload, state[u] = "Initiating", Return(<<SetState(u, "Waiting"), CheckUploads>>)
      PROVE  CallsInvariant'
  <2> DEFINE a == SetState(u, "Waiting")
             now == <<a, CheckUploads>>
  <2>1. a \in Call /\ CheckUploads \in Call
    BY <1>5, <1>7, FrameTypes, StateKinds
  <2>2. /\ ~HasNoCaller(a) /\ a.op \notin {"erase", "scan"} /\ a.up = u
        /\ \A v \in Uploads : ~Clears(a, v) /\ (Revives(a, v) => v = u)
    BY DEF SetState, HasNoCaller, Clears, Revives, Assigns
  <2>3. Plain(CheckUploads) /\ \A v \in Uploads : ~Clears(CheckUploads, v)
    BY PlainCalls
  <2> HIDE DEF a
  <2>4. /\ now \in Seq(Call)
        /\ \A k \in 1 .. Len(now) : (k = 1 /\ now[k] = a) \/ (k = 2 /\ now[k] = CheckUploads)
    BY <2>1, TwoLeft
  <2> HIDE DEF now
  <2>5. \A k \in 1 .. Len(calls) : ~Progresses(calls[k])
    BY <1>1, NoAssignmentOnTop
  <2>6. GoodReturn(now)
    BY <1>1, <1>2, <1>5, <1>7, <2>2, <2>3, <2>4, <2>5 DEF GoodReturn, Plain, Known
  <2> QED BY <1>3, <1>7, <2>4, <2>6 DEF now, a
<1> QED BY <1>4, <1>6, <1>7 DEF DoInitiate

\* The loops over m_Uploads queue an upload again or take it offline.
LEMMA LoopCalls ==
  ASSUME UploadAssumption, TypeOK, CallsInvariant, DoLoop
  PROVE  CallsInvariant'
<1> DEFINE hits == {j \in Top.i .. Top.end : j <= Len(uploads) /\ Selected(Top.over, Top.who, uploads[j])}
<1>1. /\ calls # <<>> /\ Top \in Call /\ Top.op = "loop" /\ Top = calls[1]
      /\ Top.over \in Loops /\ Top.who \in SUBSET Users /\ Top.i \in Nat \ {0} /\ Top.end \in Nat
      /\ UNCHANGED <<objects, registry, world>>
  BY TopType, CallFields DEF TypeOK, DoLoop, Running, Idle, Top
<1>2. /\ \A v \in Uploads : ~Aborts(Top, v)
      /\ Top # SetState(Top.up, "Establishing")
      /\ \A v \in Uploads : ~Revives(Top, v)
      /\ \A k \in 1 .. Len(calls) : ~Progresses(calls[k])
  BY <1>1, NoAssignmentOnTop DEF Aborts, Assigns, SetState, Revives
<1>3. CASE Return(<<>>)
  <2>1. GoodReturn(<<>>)
    BY <1>1, <1>2, NothingLeft DEF objects, world, Known
  <2> QED BY <1>1, <1>3, <2>1, FewCalls, QuietCalls DEF objects, registry
<1>4. ASSUME NEW j \in hits,
             Return(<<SetState(uploads[j], LoopState(Top.over)), LoopFrom(Top.over, Top.who, j + 1, Top.end)>>)
      PROVE  CallsInvariant'
  <2> DEFINE v == uploads[j]
             a == SetState(v, LoopState(Top.over))
             b == LoopFrom(Top.over, Top.who, j + 1, Top.end)
             now == <<a, b>>
  <2>1. j \in Nat \ {0} /\ j \in 1 .. Len(uploads) /\ Selected(Top.over, Top.who, v)
    BY <1>1, LenProperties DEF TypeOK
  <2>2. v \in Uploads
    BY <2>1, QueueElement DEF TypeOK
  <2>3. LoopState(Top.over) \in {"QueuedLocally", "Offline"}
    BY DEF LoopState
  <2>4. a \in Call /\ b \in Call
    BY <1>1, <2>1, <2>2, <2>3, FrameTypes, StateKinds
  <2>5. /\ ~Progresses(a) /\ ~HasNoCaller(a) /\ a.op \notin {"erase", "scan"}
        /\ \A w \in Uploads : ~Clears(a, w) /\ (Revives(a, w) => w = v)
    BY <2>3, StateKinds DEF SetState, Progresses, HasNoCaller, Clears, Revives, Assigns
  <2>6. /\ ~Progresses(b) /\ b.op \notin {"erase", "scan"} /\ (HasNoCaller(b) <=> Top.over = "logout")
        /\ \A w \in Uploads : ~Clears(b, w) /\ ~Revives(b, w)
    BY DEF LoopFrom, Progresses, HasNoCaller, Clears, Revives, Assigns
  <2>7. Top.over = "logout" => Len(calls) = 1
    <3>1. 1 \in 1 .. Len(calls)
      BY <1>1, LenProperties DEF TypeOK
    <3>2. Top.over = "logout" => HasNoCaller(calls[1])
      BY <1>1 DEF HasNoCaller
    <3> QED BY <3>1, <3>2 DEF CallsInvariant, BottomCalls
  <2>8. Top.over # "logout" => state[v] \notin DeadStates
    BY <1>1, <2>1, StateKinds DEF Selected, Loops, InitiatingStates
  <2> HIDE DEF a, b, v
  <2>9. /\ now \in Seq(Call) /\ Len(now) = 2
        /\ \A k \in 1 .. Len(now) : (k = 1 /\ now[k] = a) \/ (k = 2 /\ now[k] = b)
    BY <2>4, TwoLeft
  <2> HIDE DEF now
  <2>10. Known' = Known /\ config' = config /\ socket' = socket /\ state' = state
    BY <1>1 DEF objects, world, Known
  <2>11. GoodReturn(now)
    BY <1>2, <2>5, <2>6, <2>7, <2>8, <2>9, <2>10 DEF GoodReturn
  <2> QED BY <1>1, <1>4, <2>9, <2>11, QuietCalls DEF now, a, b, v, objects, registry
<1> QED BY <1>3, <1>4 DEF DoLoop, Firsts

\* abort and remove, up to the erasure.
LEMMA AbortRemoveCalls ==
  ASSUME UploadAssumption, TypeOK, CallsInvariant, DoAbortRest \/ DoRemove
  PROVE  CallsInvariant'
<1> DEFINE u == Top.up
<1>1. /\ calls # <<>> /\ Top \in Call /\ u \in Uploads /\ Top.op \in {"abortRest", "remove"}
      /\ UNCHANGED <<objects, registry, world>> /\ Clears(Top, u)
  BY TopType, CallFields DEF TypeOK, DoAbortRest, DoRemove, Running, Idle, Clears
<1>2. /\ \A v \in Uploads : ~Revives(Top, v) /\ (Aborts(Top, v) => v = u /\ Top.op = "abortRest")
      /\ Top # SetState(Top.up, "Establishing")
      /\ \A k \in 1 .. Len(calls) : ~Progresses(calls[k])
  BY <1>1, NoAssignmentOnTop DEF Aborts, Assigns, Revives, SetState
<1>3. ASSUME NEW now \in Seq(Call), Return(now), GoodReturn(now)
      PROVE  CallsInvariant'
  BY <1>1, <1>3, QuietCalls DEF objects, registry
<1>4. Known' = Known /\ config' = config /\ socket' = socket /\ state' = state
  BY <1>1 DEF objects, world, Known
<1>5. ASSUME Return(<<>>), Top.op = "abortRest" => state[u] \in DeadStates
      PROVE  CallsInvariant'
  <2>1. GoodReturn(<<>>)
    BY <1>1, <1>2, <1>4, <1>5, NothingLeft
  <2> QED BY <1>3, <1>5, <2>1, FewCalls
<1>6. CASE DoAbortRest /\ state[u] = "Finished"
  BY <1>5, <1>6, StateKinds DEF DoAbortRest
<1>7. CASE DoAbortRest /\ state[u] # "Finished"
  <2> DEFINE a == SetState(u, "Aborted")
             now == <<a>>
  <2>1. a \in Call /\ Plain(a) /\ \A v \in Uploads : ~Clears(a, v)
    BY <1>1, FrameTypes, PlainCalls, StateKinds
  <2>2. Aborts(a, u)
    BY DEF SetState, Aborts, Assigns
  <2> HIDE DEF a
  <2>3. /\ now \in Seq(Call) /\ Len(now) = 1 /\ now[1] = a
        /\ \A k \in 1 .. Len(now) : now[k] = a
    BY <2>1, OneLeft
  <2>4. Return(now)
    BY <1>7 DEF DoAbortRest, a
  <2> HIDE DEF now
  <2>5. GoodReturn(now)
    <3>1. \A k \in 1 .. Len(now) : Plain(now[k]) /\ \A v \in Uploads : ~Clears(now[k], v)
      BY <2>1, <2>3
    <3>2. \A v \in Uploads : Aborts(Top, v) => Len(now) > 0 /\ Aborts(now[Len(now)], v)
      BY <1>2, <2>2, <2>3
    <3> HIDE DEF u
    <3> QED BY <1>1, <1>2, <1>4, <2>3, <3>1, <3>2, PlainReturn
  <2> QED BY <1>3, <2>3, <2>4, <2>5
<1>8. CASE DoRemove /\ u \notin Known
  BY <1>5, <1>8 DEF DoRemove, Running
<1>9. CASE DoRemove /\ u \in Known
  <2> DEFINE r == [op |-> "abortRest", up |-> u]
             f == AbortCalls(u)
             e == [op |-> "erase", up |-> u]
             now == Append(f, e)
  <2>1. /\ r \in Call /\ Plain(r) /\ \A v \in Uploads : Clears(r, v) => v = u
        /\ e \in Call
    BY <1>1, FrameTypes, PlainCalls
  <2>2. f = Append(DropSocket(u), r)
    BY DEF AbortCalls
  <2>3. /\ ~Progresses(e) /\ ~HasNoCaller(e) /\ e.op = "erase" /\ e.up = u
        /\ \A v \in Uploads : ~Revives(e, v) /\ (Clears(e, v) => v = u)
        /\ Aborts(r, u)
    BY DEF Progresses, HasNoCaller, Revives, Clears, Assigns, Aborts
  <2> HIDE DEF r, e
  <2>4. /\ f \in Seq(Call) /\ Len(f) > 0 /\ f[Len(f)] = r
        /\ \A k \in 1 .. Len(f) : Plain(f[k]) /\ \A v \in Uploads : Clears(f[k], v) => v = u
    <3>1. /\ f \in Seq(Call) /\ Len(f) > 0 /\ f[Len(f)] = r
          /\ \A k \in 1 .. Len(f) : f[k] = r \/ (/\ Plain(f[k]) /\ socket[u] # "none"
                                                /\ \A v \in Uploads : Clears(f[k], v) => v = u)
      BY <1>1, <2>1, <2>2, DropThen
    <3> HIDE DEF f
    <3> QED BY <2>1, <3>1
  <2> HIDE DEF f
  <2>5. /\ now \in Seq(Call) /\ Len(now) = Len(f) + 1 /\ Len(f) \in Nat
        /\ \A k \in 1 .. Len(f) : now[k] = f[k]
        /\ now[Len(f) + 1] = e
    BY <2>1, <2>4, AppendProperties, LenProperties
  <2>6. Return(now)
    BY <1>9 DEF DoRemove, e, f
  <2> HIDE DEF now
  <2>7. \A k \in 1 .. Len(now) :
          \/ k = Len(f) + 1 /\ now[k] = e
          \/ Plain(now[k]) /\ \A v \in Uploads : Clears(now[k], v) => v = u
    <3> SUFFICES ASSUME NEW k \in 1 .. Len(now), k # Len(f) + 1
                 PROVE  Plain(now[k]) /\ \A v \in Uploads : Clears(now[k], v) => v = u
      BY <2>5
    <3>1. k \in 1 .. Len(f)
      BY <2>5
    <3> QED BY <2>4, <2>5, <3>1
  <2>8. now[Len(f)] = r
    BY <2>4, <2>5
  <2>9. GoodReturn(now)
    <3>1. /\ \A k \in 1 .. Len(now) : ~Progresses(now[k]) /\ ~HasNoCaller(now[k]) /\ now[k].op # "scan"
          /\ \A k \in 1 .. Len(now), v \in Uploads : ~Revives(now[k], v) /\ (Clears(now[k], v) => v = u)
      BY <2>3, <2>7 DEF Plain
    <3>2. \A k \in 1 .. Len(now) : now[k].op = "erase" => k > 1 /\ Aborts(now[k - 1], now[k].up)
      <4> SUFFICES ASSUME NEW k \in 1 .. Len(now), now[k].op = "erase"
                   PROVE  k > 1 /\ Aborts(now[k - 1], now[k].up)
        OBVIOUS
      <4>1. k = Len(f) + 1 /\ now[k] = e
        BY <2>7 DEF Plain
      <4> QED BY <2>3, <2>4, <2>5, <2>8, <4>1
    <3>3. Top.op = "remove"
      BY <1>9 DEF DoRemove, Running
    <3> QED BY <1>1, <1>2, <1>4, <3>1, <3>2, <3>3 DEF GoodReturn
  <2> QED BY <1>3, <2>5, <2>6, <2>9
<1> QED BY <1>6, <1>7, <1>8, <1>9

\* The vector without its k-th upload lists all the others.
LEMMA OnlyOneLeaves ==
  ASSUME uploads \in Seq(Uploads), IsInjective(uploads), NEW k \in 1 .. Len(uploads)
  PROVE  Range(RemoveAt(uploads, k)) = Known \ {uploads[k]}
<1> DEFINE n == Len(uploads)
           front == SubSeq(uploads, 1, k - 1)
           back == SubSeq(uploads, k + 1, n)
           r == RemoveAt(uploads, k)
           at(j) == IF j < k THEN j ELSE j + 1
<1>1. n \in Nat /\ \A j \in 1 .. n : uploads[j] \in Uploads
  BY LenProperties, ElementOfSeq
<1>2. /\ front \in Seq(Uploads) /\ Len(front) = k - 1
      /\ \A j \in 1 .. k - 1 : front[j] = uploads[j]
  BY <1>1, SubSeqProperties
<1>3. /\ back \in Seq(Uploads) /\ Len(back) = n - k
      /\ \A j \in 1 .. n - k : back[j] = uploads[k + j]
  BY <1>1, SubSeqProperties
<1>4. /\ r \in Seq(Uploads) /\ Len(r) = n - 1
      /\ \A j \in 1 .. n - 1 : at(j) \in (1 .. n) \ {k} /\ r[j] = uploads[at(j)]
  <2> HIDE DEF front, back
  <2>1. r = front \o back
    BY DEF RemoveAt, front, back
  <2>2. /\ front \o back \in Seq(Uploads) /\ Len(front \o back) = n - 1
        /\ \A j \in 1 .. n - 1 : (front \o back)[j] = IF j <= k - 1 THEN front[j] ELSE back[j - (k - 1)]
    <3>1. /\ front \o back \in Seq(Uploads) /\ Len(front \o back) = Len(front) + Len(back)
          /\ \A j \in 1 .. Len(front) + Len(back) :
               (front \o back)[j] = IF j <= Len(front) THEN front[j] ELSE back[j - Len(front)]
      BY <1>2, <1>3, ConcatProperties
    <3>2. Len(front) + Len(back) = n - 1
      BY <1>1, <1>2, <1>3
    <3> QED BY <1>2, <3>1, <3>2
  <2> HIDE DEF r
  <2>3. ASSUME NEW j \in 1 .. n - 1
        PROVE  at(j) \in (1 .. n) \ {k} /\ r[j] = uploads[at(j)]
    <3>1. CASE j < k
      BY <1>1, <1>2, <2>1, <2>2, <3>1
    <3>2. CASE ~(j < k)
      <4>1. j - (k - 1) \in 1 .. n - k /\ k + (j - (k - 1)) = j + 1
        BY <1>1, <3>2
      <4> QED BY <1>1, <1>3, <2>1, <2>2, <3>2, <4>1
    <3> QED BY <3>1, <3>2
  <2> QED BY <2>1, <2>2, <2>3
<1>5. ASSUME NEW i \in (1 .. n) \ {k}
      PROVE  \E j \in 1 .. n - 1 : at(j) = i
  <2>1. CASE i < k
    <3>1. i \in 1 .. n - 1 /\ at(i) = i
      BY <1>1, <2>1
    <3> QED BY <3>1
  <2>2. CASE ~(i < k)
    <3>1. i - 1 \in 1 .. n - 1 /\ at(i - 1) = i
      BY <1>1, <2>2
    <3> QED BY <3>1
  <2> QED BY <2>1, <2>2
<1>6. \A i \in (1 .. n) \ {k} : uploads[i] # uploads[k]
  BY <1>1 DEF IsInjective
<1>7. DOMAIN r = 1 .. n - 1 /\ DOMAIN uploads = 1 .. n
  BY <1>4, LenProperties
<1> HIDE DEF r, at
<1>8. Range(r) \subseteq Known \ {uploads[k]}
  BY <1>4, <1>6, <1>7 DEF Range, Known
<1>9. Known \ {uploads[k]} \subseteq Range(r)
  <2> SUFFICES ASSUME NEW i \in 1 .. n, uploads[i] # uploads[k]
               PROVE  uploads[i] \in Range(r)
    BY <1>7 DEF Range, Known
  <2>1. PICK j \in 1 .. n - 1 : at(j) = i
    BY <1>5
  <2>2. r[j] = uploads[i]
    BY <1>4, <2>1
  <2> QED BY <1>7, <2>2 DEF Range
<1> QED BY <1>8, <1>9 DEF r

\* The end of remove.
LEMMA EraseCalls ==
  ASSUME UploadAssumption, TypeOK, CallsInvariant, DoErase
  PROVE  CallsInvariant'
<1> DEFINE u == Top.up
<1>1. /\ calls # <<>> /\ Top \in Call /\ u \in Uploads /\ Top.op = "erase" /\ Top = calls[1]
      /\ UNCHANGED <<state, socket, uploading, config>> /\ Return(<<>>) /\ Clears(Top, u)
  BY TopType, CallFields DEF TypeOK, DoErase, Running, Idle, Clears, registry, world, Top
<1>2. /\ \A v \in Uploads : ~Revives(Top, v) /\ ~Aborts(Top, v)
      /\ Top # SetState(Top.up, "Establishing")
      /\ \A k \in 1 .. Len(calls) : ~Progresses(calls[k])
      /\ \A v \in Uploads : Queued(v) => socket[v] = "none"
  BY <1>1, NoAssignmentOnTop DEF Aborts, Assigns, Revives, SetState
<1>3. CASE UNCHANGED uploads
  <2>1. GoodReturn(<<>>)
    BY <1>1, <1>2, <1>3, NothingLeft DEF Known
  <2> QED BY <1>1, <1>3, <2>1, FewCalls, QuietCalls
<1>4. CASE \E i \in 1 .. Len(uploads) : uploads[i] = u /\ uploads' = RemoveAt(uploads, i)
  <2>1. Known' = Known \ {u}
    BY <1>4, OnlyOneLeaves DEF Known, TypeOK
  <2>2. state[u] \in DeadStates
    <3>1. 1 \in 1 .. Len(calls) /\ calls[1].op = "erase" /\ ~(1 > 1)
      BY <1>1, LenProperties DEF TypeOK
    <3> QED BY <1>1, <3>1 DEF CallsInvariant, EraseIsSafe
  <2>3. <<>> \in Seq(Call) /\ Len(<<>>) = 0
    BY FewCalls
  <2>4. GoodReturn(<<>>)
    <3> DEFINE now == <<>>
    <3>1. Len(now) = 0
      OBVIOUS
    <3>2. \A k \in 1 .. Len(now) : FALSE
      <4> HIDE DEF now
      <4> QED BY <3>1
    <3> HIDE DEF now
    <3>3. GoodReturn(now)
      BY <1>1, <1>2, <2>1, <3>2 DEF GoodReturn
    <3> QED BY <3>3 DEF now
  <2>5. ProgressOnTop' /\ BottomCalls' /\ EraseIsSafe' /\ CandidateIsSafe'
    BY <1>1, <2>3, <2>4, StackKept
  <2>6. ListedIsActive'
    BY <1>1 DEF CallsInvariant, ListedIsActive
  <2>7. ActiveIsKnown'
    BY <1>1, <2>1, <2>2 DEF CallsInvariant, ActiveIsKnown, DeadStates
  <2>8. QueuedHasNoSocket'
    BY <1>1, <1>2 DEF QueuedHasNoSocket, Queued
  <2> QED BY <2>5, <2>6, <2>7, <2>8 DEF CallsInvariant
<1> QED BY <1>3, <1>4 DEF DoErase

\* The rest of a request of the old protocol gives the upload a socket.
LEMMA LegacyRestCalls ==
  ASSUME UploadAssumption, TypeOK, CallsInvariant, DoLegacyRest
  PROVE  CallsInvariant'
<1> DEFINE u == Top.up
<1>1. /\ calls # <<>> /\ Top \in Call /\ u \in Uploads /\ Top.op = "legacyRest" /\ Top = calls[1]
      /\ UNCHANGED <<uploads, state, uploading, config>>
  BY TopType, CallFields DEF TypeOK, DoLegacyRest, Running, Idle, registry, world, Top
<1>2. /\ \A v \in Uploads : ~Revives(Top, v) /\ ~Aborts(Top, v)
      /\ Top # SetState(Top.up, "Establishing")
      /\ \A k \in 1 .. Len(calls) : ~Progresses(calls[k])
      /\ \A v \in Uploads : Queued(v) => socket[v] = "none"
  BY <1>1, NoAssignmentOnTop DEF Aborts, Assigns, Revives, SetState
<1>3. CASE Return(<<>>) /\ UNCHANGED socket
  <2>1. GoodReturn(<<>>)
    BY <1>1, <1>2, <1>3, NothingLeft DEF Known
  <2> QED BY <1>1, <1>3, <2>1, FewCalls, QuietCalls
<1>4. CASE /\ u \in Known /\ socket' = [socket EXCEPT ![u] = "ticket"]
           /\ Return(<<SetState(u, "Establishing"), SetState(u, "Waiting")>>)
  <2> DEFINE a == SetState(u, "Establishing")
             b == SetState(u, "Waiting")
             now == <<a, b>>
  <2>1. a \in Call /\ b \in Call
    BY <1>1, FrameTypes, StateKinds
  <2>2. /\ a.up = u /\ ~HasNoCaller(a) /\ a.op \notin {"erase", "scan"}
        /\ b.up = u /\ ~HasNoCaller(b) /\ b.op \notin {"erase", "scan"}
        /\ a = SetState(b.up, "Establishing")
    BY DEF SetState, HasNoCaller
  <2>3. Len(calls) = 1
    <3>1. 1 \in 1 .. Len(calls) /\ HasNoCaller(calls[1])
      BY <1>1, LenProperties DEF TypeOK, HasNoCaller
    <3> QED BY <3>1 DEF CallsInvariant, BottomCalls
  <2> HIDE DEF a, b
  <2>4. /\ now \in Seq(Call) /\ Len(now) = 2 /\ now[1] = a /\ now[2] = b
        /\ \A k \in 1 .. Len(now) : (k = 1 /\ now[k] = a) \/ (k = 2 /\ now[k] = b)
    BY <2>1, TwoLeft
  <2>5. Return(now)
    BY <1>4 DEF a, b
  <2> HIDE DEF now
  <2>6. GoodReturn(now)
    BY <1>1, <1>2, <1>4, <2>2, <2>3, <2>4 DEF GoodReturn, Known
  <2>7. ProgressOnTop' /\ BottomCalls' /\ EraseIsSafe' /\ CandidateIsSafe'
    BY <1>1, <2>4, <2>5, <2>6, StackKept
  <2>8. ListedIsActive' /\ ActiveIsKnown'
    BY <1>1 DEF CallsInvariant, ListedIsActive, ActiveIsKnown, Known
  <2>9. calls' # <<>> /\ calls'[1] = a
    <3>1. calls \in Seq(Call) /\ calls # <<>>
      BY <1>1 DEF TypeOK
    <3>2. /\ Len(calls') = Len(now) + Len(calls) - 1
          /\ \A k \in 1 .. Len(now) : calls'[k] = now[k]
      BY <2>4, <2>5, <3>1, StackShape
    <3>3. Len(calls') = 2 /\ calls'[1] = now[1]
      BY <2>3, <2>4, <3>2
    <3> QED BY <2>4, <3>3
  <2>10. QueuedHasNoSocket'
    <3> SUFFICES ASSUME NEW v \in Uploads, state'[v] = "QueuedLocally", socket'[v] # "none"
                 PROVE  calls' # <<>> /\ calls'[1] = SetState(v, "Establishing")
      BY DEF QueuedHasNoSocket, Queued, SetState
    <3>1. v = u
      BY <1>1, <1>2, <1>4 DEF Queued, TypeOK
    <3> QED BY <2>9, <3>1 DEF a
  <2> QED BY <2>7, <2>8, <2>10 DEF CallsInvariant
<1> QED BY <1>1, <1>3, <1>4 DEF DoLegacyRest

\* A reply gives the upload a socket or fails it, and may be handled once more.
LEMMA ReplyCalls ==
  ASSUME UploadAssumption, TypeOK, CallsInvariant, DoReply
  PROVE  CallsInvariant'
<1> DEFINE u == Top.up
           again == [Top EXCEPT !.left = @ - 1]
<1>1. /\ calls # <<>> /\ Top \in Call /\ u \in Uploads /\ Top.op = "reply" /\ Top = calls[1]
      /\ UNCHANGED <<uploads, state, uploading, config>>
  BY TopType, CallFields DEF TypeOK, DoReply, Running, Idle, registry, world, Top
<1>2. /\ \A v \in Uploads : ~Revives(Top, v) /\ ~Aborts(Top, v)
      /\ Top # SetState(Top.up, "Establishing")
      /\ \A k \in 1 .. Len(calls) : ~Progresses(calls[k])
      /\ \A v \in Uploads : Queued(v) => socket[v] = "none"
  BY <1>1, NoAssignmentOnTop DEF Aborts, Assigns, Revives, SetState
<1>3. Len(calls) = 1
  <2>1. 1 \in 1 .. Len(calls) /\ HasNoCaller(calls[1])
    BY <1>1, LenProperties DEF TypeOK, HasNoCaller
  <2> QED BY <2>1 DEF CallsInvariant, BottomCalls
<1>4. Top.left > 0 => /\ again \in Call /\ ~Progresses(again)
                      /\ again.op \notin {"erase", "scan"}
  BY <1>1, ReplyAgain DEF Progresses
<1>5. CASE Return(<<>>) /\ UNCHANGED socket
  <2>1. GoodReturn(<<>>)
    BY <1>1, <1>2, <1>5, NothingLeft DEF Known
  <2> QED BY <1>1, <1>5, <2>1, FewCalls, QuietCalls
<1>6. CASE /\ Top.left > 0 /\ u \in Known /\ state[u] = "Waiting" /\ socket' = [socket EXCEPT ![u] = "connect"]
           /\ Return(<<SetState(u, "Establishing"), SetState(u, "Waiting"), again>>)
  <2> DEFINE a == SetState(u, "Establishing")
             b == SetState(u, "Waiting")
             now == <<a, b, again>>
  <2>1. a \in Call /\ b \in Call
    BY <1>1, FrameTypes, StateKinds
  <2>2. /\ a.up = u /\ ~HasNoCaller(a) /\ a.op \notin {"erase", "scan"}
        /\ b.up = u /\ ~HasNoCaller(b) /\ b.op \notin {"erase", "scan"}
        /\ a = SetState(b.up, "Establishing")
    BY DEF SetState, HasNoCaller
  <2> HIDE DEF a, b, again
  <2>3. /\ now \in Seq(Call) /\ Len(now) = 3
        /\ \A k \in 1 .. Len(now) : (k = 1 /\ now[k] = a) \/ (k = 2 /\ now[k] = b) \/ (k = 3 /\ now[k] = again)
        /\ now[1] = a
    BY <1>4, <1>6, <2>1, ThreeLeft
  <2>4. Return(now)
    BY <1>6 DEF a, b, again
  <2> HIDE DEF now
  <2>5. GoodReturn(now)
    BY <1>1, <1>2, <1>3, <1>4, <1>6, <2>2, <2>3 DEF GoodReturn, Known
  <2>6. ProgressOnTop' /\ BottomCalls' /\ EraseIsSafe' /\ CandidateIsSafe'
    BY <1>1, <2>3, <2>4, <2>5, StackKept
  <2>7. ListedIsActive' /\ ActiveIsKnown'
    BY <1>1 DEF CallsInvariant, ListedIsActive, ActiveIsKnown, Known
  <2>8. QueuedHasNoSocket'
    <3> SUFFICES ASSUME NEW v \in Uploads, state'[v] = "QueuedLocally", socket'[v] # "none"
                 PROVE  FALSE
      BY DEF QueuedHasNoSocket, Queued
    <3> QED BY <1>1, <1>2, <1>6 DEF Queued, TypeOK
  <2> QED BY <2>6, <2>7, <2>8 DEF CallsInvariant
<1>7. CASE Top.left > 0 /\ Return(Append(Fail(u, "RemoteError"), again)) /\ UNCHANGED socket
  <2> DEFINE f == Fail(u, "RemoteError")
             now == Append(f, again)
  <2>1. f \in Seq(Call) /\ \A k \in 1 .. Len(f) : Plain(f[k])
    BY <1>1, FailCalls, StateKinds
  <2> HIDE DEF f, again
  <2>2. /\ now \in Seq(Call) /\ Len(now) = Len(f) + 1 /\ Len(f) \in Nat
        /\ \A k \in 1 .. Len(f) : now[k] = f[k]
        /\ now[Len(f) + 1] = again
    BY <1>4, <1>7, <2>1, AppendProperties, LenProperties
  <2>3. Return(now)
    BY <1>7 DEF f, again
  <2> HIDE DEF now
  <2>4. \A k \in 1 .. Len(now) : Plain(now[k]) \/ (k = Len(now) /\ now[k] = again)
    BY <2>1, <2>2
  <2>5. GoodReturn(now)
    BY <1>1, <1>2, <1>3, <1>4, <1>7, <2>4 DEF GoodReturn, Plain, Known
  <2> QED BY <1>1, <1>7, <2>2, <2>3, <2>5, QuietCalls
<1> QED BY <1>5, <1>6, <1>7 DEF DoReply

-----------------------------------------------------------------------------
(* The events.                                                             *)

\* What an event may push on the empty stack.
GoodCalls(now) ==
  \A k \in 1 .. Len(now) :
    /\ now[k].op \notin {"erase", "scan"}
    /\ HasNoCaller(now[k]) => k = Len(now)
    /\ Progresses(now[k]) =>
         now[k].up \in Known' /\ (k = 1 \/ (k = 2 /\ now[1] = SetState(now[2].up, "Establishing")))

\* Such calls keep the invariant's conditions on the pending calls.
LEMMA EventStack ==
  ASSUME GoodCalls(calls')
  PROVE  ProgressOnTop' /\ BottomCalls' /\ EraseIsSafe' /\ CandidateIsSafe'
<1> DEFINE now == calls'
<1>1. \A k \in 1 .. Len(now) :
        /\ now[k].op \notin {"erase", "scan"}
        /\ HasNoCaller(now[k]) => k = Len(now)
        /\ Progresses(now[k]) =>
             now[k].up \in Known' /\ (k = 1 \/ (k = 2 /\ now[1] = SetState(now[2].up, "Establishing")))
  BY DEF GoodCalls
<1>2. ProgressOnTop'
  BY <1>1 DEF ProgressOnTop, Progresses, SetState
<1>3. BottomCalls'
  BY <1>1 DEF BottomCalls, HasNoCaller
<1>4. EraseIsSafe' /\ CandidateIsSafe'
  BY <1>1 DEF EraseIsSafe, CandidateIsSafe
<1> QED BY <1>2, <1>3, <1>4

\* An event that assigns no m_State and listing, and gives no queued upload a socket.
LEMMA QuietEvent ==
  ASSUME UploadAssumption, TypeOK, CallsInvariant, Idle, GoodCalls(calls'),
         UNCHANGED <<uploads, state, uploading>>,
         \A v \in Uploads : Queued(v) => socket'[v] \in {socket[v], "none"}
  PROVE  CallsInvariant'
<1>1. ProgressOnTop' /\ BottomCalls' /\ EraseIsSafe' /\ CandidateIsSafe'
  BY EventStack
<1>2. ListedIsActive' /\ ActiveIsKnown'
  BY DEF CallsInvariant, ListedIsActive, ActiveIsKnown, Known
<1>3. \A v \in Uploads : Queued(v) => socket[v] = "none"
  BY DEF CallsInvariant, QueuedHasNoSocket, Idle
<1>4. QueuedHasNoSocket'
  BY <1>3 DEF QueuedHasNoSocket, Queued
<1> QED BY <1>1, <1>2, <1>4 DEF CallsInvariant

\* Calls an event may push: none, plain ones, an assignment of m_State.
LEMMA EventCalls ==
  /\ GoodCalls(<<>>)
  /\ \A c \in Call : Plain(c) => GoodCalls(<<c>>)
  /\ \A now \in Seq(Call) : (\A k \in 1 .. Len(now) : Plain(now[k])) => GoodCalls(now)
  /\ \A u \in Uploads, s \in TrStates : (s \in ActiveStates => u \in Known') => GoodCalls(<<SetState(u, s)>>)
<1>1. GoodCalls(<<>>)
  <2> DEFINE now == <<>>
  <2>1. Len(now) = 0
    OBVIOUS
  <2> HIDE DEF now
  <2>2. GoodCalls(now)
    BY <2>1 DEF GoodCalls
  <2> QED BY <2>2 DEF now
<1>2. ASSUME NEW now \in Seq(Call), \A k \in 1 .. Len(now) : Plain(now[k])
      PROVE  GoodCalls(now)
  BY <1>2 DEF GoodCalls, Plain
<1>3. ASSUME NEW c \in Call, Plain(c)
      PROVE  GoodCalls(<<c>>)
  <2> DEFINE now == <<c>>
  <2>1. now \in Seq(Call) /\ \A k \in 1 .. Len(now) : now[k] = c
    BY OneLeft
  <2> HIDE DEF now
  <2>2. GoodCalls(now)
    BY <1>2, <1>3, <2>1
  <2> QED BY <2>2 DEF now
<1>4. ASSUME NEW u \in Uploads, NEW s \in TrStates, s \in ActiveStates => u \in Known'
      PROVE  GoodCalls(<<SetState(u, s)>>)
  <2> DEFINE c == SetState(u, s)
             now == <<c>>
  <2>1. /\ c \in Call /\ c.up = u /\ c.op \notin {"erase", "scan"} /\ ~HasNoCaller(c)
        /\ Progresses(c) => s \in ActiveStates
    BY FrameTypes DEF SetState, HasNoCaller, Progresses
  <2> HIDE DEF c
  <2>2. now \in Seq(Call) /\ \A k \in 1 .. Len(now) : k = 1 /\ now[k] = c
    BY <2>1, OneLeft
  <2> HIDE DEF now
  <2>3. GoodCalls(now)
    BY <1>4, <2>1, <2>2 DEF GoodCalls
  <2> QED BY <2>3 DEF now, c
<1> QED BY <1>1, <1>2, <1>3, <1>4

\* Failing, aborting and ending an upload are plain.
LEMMA EndingCalls ==
  ASSUME TypeOK, NEW u \in Uploads
  PROVE  /\ \A s \in DeadStates : GoodCalls(Fail(u, s))
         /\ GoodCalls(AbortCalls(u))
<1>1. ASSUME NEW c \in Call, Plain(c)
      PROVE  GoodCalls(Append(DropSocket(u), c))
  <2> DEFINE now == Append(DropSocket(u), c)
  <2>1. now \in Seq(Call) /\ \A k \in 1 .. Len(now) : now[k] = c \/ Plain(now[k])
    BY DropThen
  <2> HIDE DEF now
  <2>2. GoodCalls(now)
    BY <1>1, <2>1, EventCalls
  <2> QED BY <2>2 DEF now
<1>2. ASSUME NEW s \in DeadStates
      PROVE  GoodCalls(Fail(u, s))
  <2>1. SetState(u, s) \in Call /\ Plain(SetState(u, s))
    BY FrameTypes, PlainCalls, StateKinds
  <2> QED BY <1>1, <2>1 DEF Fail
<1>3. [op |-> "abortRest", up |-> u] \in Call /\ Plain([op |-> "abortRest", up |-> u])
  BY FrameTypes, PlainCalls
<1> QED BY <1>1, <1>2, <1>3 DEF AbortCalls

\* add(), and what a request does after it.
LEMMA AddCalls ==
  ASSUME UploadAssumption, TypeOK, CallsInvariant, Idle, NEW u \in Uploads, NEW forced \in BOOLEAN,
         NEW rest \in {<<>>, <<[op |-> "legacyRest", up |-> u]>>}, Add(u, forced, rest)
  PROVE  CallsInvariant'
<1> DEFINE q == SetState(u, "QueuedLocally")
           r == [op |-> "legacyRest", up |-> u]
<1>1. /\ q \in Call /\ ~Progresses(q) /\ ~HasNoCaller(q) /\ q.op \notin {"erase", "scan"}
      /\ r \in Call /\ ~Progresses(r) /\ r.op \notin {"erase", "scan"}
  BY FrameTypes, StateKinds DEF SetState, Progresses, HasNoCaller
<1>2. calls' \in {<<q>> \o rest, <<>> \o rest}
  BY DEF Add
<1> HIDE DEF q, r
<1>3. GoodCalls(calls')
  <2>1. <<q>> \in Seq(Call) /\ <<r>> \in Seq(Call)
    BY <1>1, FewCalls
  <2>2. CASE rest = <<>>
    <3>1. <<q>> \o <<>> = <<q>> /\ <<>> \o <<>> = <<>>
      BY <2>1, FewCalls, ConcatEmptySeq
    <3>2. calls' = <<q>> \/ calls' = <<>>
      BY <1>2, <2>2, <3>1
    <3>3. GoodCalls(<<q>>)
      BY EventCalls, StateKinds DEF q
    <3> QED BY <3>2, <3>3, EventCalls
  <2>3. CASE rest = <<r>>
    <3>1. <<>> \o <<r>> = <<r>>
      BY <2>1, ConcatEmptySeq
    <3>3. GoodCalls(<<r>>)
      <4> DEFINE now == <<r>>
      <4>1. Len(now) = 1 /\ \A k \in 1 .. Len(now) : k = 1 /\ now[k] = r
        BY <1>1, OneLeft
      <4> HIDE DEF now
      <4>2. GoodCalls(now)
        BY <1>1, <4>1 DEF GoodCalls
      <4> QED BY <4>2 DEF now
    <3>2. GoodCalls(<<q>> \o <<r>>)
      <4> DEFINE now == <<q>> \o <<r>>
      <4>a. /\ Len(<<q>>) = 1 /\ <<q>>[1] = q
            /\ Len(<<r>>) = 1 /\ <<r>>[1] = r
        BY <1>1, OneLeft
      <4>1. Len(now) = 2 /\ \A k \in 1 .. Len(now) : (k = 1 /\ now[k] = q) \/ (k = 2 /\ now[k] = r)
        BY <2>1, <4>a, ConcatProperties
      <4> HIDE DEF now
      <4>2. GoodCalls(now)
        BY <1>1, <4>1 DEF GoodCalls
      <4> QED BY <4>2 DEF now
    <3> QED BY <1>2, <2>3, <3>1, <3>2, <3>3
  <2> QED BY <2>2, <2>3 DEF r
<1>4. CASE Found(u)
  <2>1. UNCHANGED <<uploads, state, socket, uploading>>
    BY <1>4 DEF Add, registry
  <2> QED BY <1>3, <2>1, QuietEvent
<1>5. CASE ~Found(u)
  <2>1. /\ uploads' = Append(uploads, u) /\ uploading' = uploading
        /\ state' = [state EXCEPT ![u] = "Offline"]
        /\ socket' = [socket EXCEPT ![u] = "none"]
    BY <1>5 DEF Add, registry
  <2>2. u \notin Known /\ state[u] \notin ActiveStates
    BY <1>5 DEF Found, CallsInvariant, ActiveIsKnown
  <2>3. Known \subseteq Known'
    <3>1. \A k \in 1 .. Len(uploads) : k \in 1 .. Len(uploads') /\ uploads'[k] = uploads[k]
      BY <2>1, AppendProperties, LenProperties DEF TypeOK
    <3>2. uploads' \in Seq(Uploads)
      BY <2>1, AppendProperties DEF TypeOK
    <3>3. DOMAIN uploads = 1 .. Len(uploads) /\ DOMAIN uploads' = 1 .. Len(uploads')
      BY <3>2, LenProperties DEF TypeOK
    <3> QED BY <3>1, <3>3 DEF Known, Range
  <2>4. ListedIsActive'
    <3> SUFFICES ASSUME NEW x \in Users, uploading[x] # NoUpload
                 PROVE  UserOf[uploading[x]] = x /\ state'[uploading[x]] \in ActiveStates
      BY <2>1 DEF ListedIsActive
    <3>1. UserOf[uploading[x]] = x /\ state[uploading[x]] \in ActiveStates
      BY DEF CallsInvariant, ListedIsActive
    <3>2. uploading[x] \in Uploads /\ uploading[x] # u
      BY <2>2, <3>1 DEF TypeOK
    <3> QED BY <2>1, <3>1, <3>2 DEF TypeOK
  <2>5. ActiveIsKnown'
    <3> SUFFICES ASSUME NEW v \in Uploads, state'[v] \in ActiveStates
                 PROVE  v \in Known'
      BY DEF ActiveIsKnown
    <3>1. v # u /\ state[v] \in ActiveStates
      BY <2>1, StateKinds DEF TypeOK
    <3> QED BY <2>3, <3>1 DEF CallsInvariant, ActiveIsKnown
  <2>6. QueuedHasNoSocket'
    <3>1. \A v \in Uploads : Queued(v) => socket[v] = "none"
      BY DEF CallsInvariant, QueuedHasNoSocket, Idle
    <3>2. \A v \in Uploads : state'[v] = "QueuedLocally" => socket'[v] = "none"
      BY <2>1, <3>1 DEF Queued, TypeOK
    <3> QED BY <3>2 DEF QueuedHasNoSocket, Queued
  <2> QED BY <1>3, <2>4, <2>5, <2>6, EventStack DEF CallsInvariant
<1> QED BY <1>4, <1>5

\* Requests, replies and the transfer sockets.
LEMMA UploadEventCalls ==
  ASSUME UploadAssumption, TypeOK, CallsInvariant, NEW u \in Uploads, UploadEvent(u)
  PROVE  CallsInvariant'
<1>1. CASE QueueRequested(u) \/ UploadFile(u)
  <2>1. Idle /\ \E forced \in BOOLEAN : Add(u, forced, <<>>)
    BY <1>1 DEF QueueRequested, UploadFile
  <2> QED BY <2>1, AddCalls
<1>2. CASE LegacyRequest(u)
  <2>1. Idle /\ Add(u, FALSE, <<[op |-> "legacyRest", up |-> u]>>)
    BY <1>2 DEF LegacyRequest
  <2> QED BY <2>1, AddCalls
<1>3. CASE AbortUpload(u)
  <2>1. calls' = AbortCalls(u) /\ Idle /\ UNCHANGED <<objects, registry>>
    BY <1>3 DEF AbortUpload, Event
  <2> QED BY <2>1, EndingCalls, QuietEvent DEF objects, registry
<1>4. CASE RemoveUpload(u)
  <2>1. calls' = <<[op |-> "remove", up |-> u]>> /\ Idle /\ UNCHANGED <<objects, registry>>
    BY <1>4 DEF RemoveUpload, Event
  <2>2. [op |-> "remove", up |-> u] \in Call /\ Plain([op |-> "remove", up |-> u])
    BY FrameTypes, PlainCalls
  <2> QED BY <2>1, <2>2, EventCalls, QuietEvent DEF objects, registry
<1>5. ASSUME NEW allowed \in BOOLEAN, TransferReply(u, allowed)
      PROVE  CallsInvariant'
  <2>1. UNCHANGED <<uploads, state, socket, uploading>> /\ Idle
    BY <1>5 DEF TransferReply, Event, registry
  <2>2. PICK n \in Nat : calls' = <<Reply(u, allowed, n)>>
    BY <1>5 DEF TransferReply, Event, Subscriptions
  <2>3. GoodCalls(<<Reply(u, allowed, n)>>)
    <3> DEFINE c == Reply(u, allowed, n)
               now == <<c>>
    <3>1. c \in Call /\ c.op \notin {"erase", "scan"} /\ ~Progresses(c)
      BY FrameTypes DEF Reply, Progresses
    <3> HIDE DEF c
    <3>2. Len(now) = 1 /\ \A k \in 1 .. Len(now) : k = 1 /\ now[k] = c
      BY <3>1, OneLeft
    <3> HIDE DEF now
    <3>3. GoodCalls(now)
      BY <3>1, <3>2 DEF GoodCalls
    <3> QED BY <3>3 DEF now, c
  <2> QED BY <2>1, <2>2, <2>3, QuietEvent
<1>6. CASE SocketLost(u)
  <2>1. calls' = <<Disconnected(u)>> /\ Idle /\ UNCHANGED <<objects, registry>>
    BY <1>6 DEF SocketLost, Event
  <2>2. Disconnected(u) \in Call /\ Plain(Disconnected(u))
    BY FrameTypes, PlainCalls DEF Disconnected
  <2> QED BY <2>1, <2>2, EventCalls, QuietEvent DEF objects, registry
<1>7. CASE SocketCannotConnect(u)
  <2> DEFINE a == SetState(u, "CannotConnect")
             b == Disconnected(u)
             now == <<a, b>>
  <2>1. (calls' = <<>> \/ calls' = now) /\ Idle /\ UNCHANGED <<objects, registry>>
    BY <1>7 DEF SocketCannotConnect, Event
  <2>2. a \in Call /\ Plain(a) /\ b \in Call /\ Plain(b)
    BY FrameTypes, PlainCalls, StateKinds DEF Disconnected
  <2> HIDE DEF a, b
  <2>3. now \in Seq(Call) /\ \A k \in 1 .. Len(now) : now[k] = a \/ now[k] = b
    BY <2>2, TwoLeft
  <2> HIDE DEF now
  <2>4. GoodCalls(now)
    BY <2>2, <2>3, EventCalls
  <2> QED BY <2>1, <2>4, EventCalls, QuietEvent DEF objects, registry
<1>8. CASE PositionReceived(u)
  <2>1. /\ UNCHANGED <<uploads, state, socket, uploading>> /\ Idle /\ state[u] = "Waiting"
        /\ calls' = Fail(u, "LocalError") \/ calls' = <<SetState(u, "Transferring")>>
    BY <1>8 DEF PositionReceived, Event, registry
  <2>2. u \in Known'
    BY <2>1, StateKinds DEF CallsInvariant, ActiveIsKnown, Known
  <2>3. GoodCalls(calls')
    BY <2>1, <2>2, EndingCalls, EventCalls, StateKinds
  <2> QED BY <2>1, <2>3, QuietEvent
<1>9. CASE DataSent(u)
  <2>1. calls' = <<>> /\ Idle /\ UNCHANGED <<uploads, state, socket, uploading>>
    BY <1>9 DEF DataSent, Event, registry
  <2> QED BY <2>1, EventCalls, QuietEvent
<1>10. CASE ReplyTimeout(u)
  <2>1. calls' = Fail(u, "CannotConnect") /\ Idle /\ UNCHANGED <<uploads, state, socket, uploading>>
    BY <1>10 DEF ReplyTimeout, Event, registry
  <2> QED BY <2>1, EndingCalls, StateKinds, QuietEvent
<1> QED BY <1>1, <1>2, <1>3, <1>4, <1>5, <1>6, <1>7, <1>8, <1>9, <1>10 DEF UploadEvent

\* The peers, the server and the configuration.
LEMMA WorldEventCalls ==
  ASSUME UploadAssumption, TypeOK, CallsInvariant, (\E x \in Users : UserEvent(x)) \/ GlobalEvent
  PROVE  CallsInvariant'
<1>1. ASSUME NEW x \in Users, UserEvent(x)
      PROVE  CallsInvariant'
  <2>1. Idle /\ UNCHANGED <<uploads, state, socket, uploading>>
    BY <1>1 DEF UserEvent, PeerReady, PeerConnecting, PeerAsked, PeerUnavailable, PeerOffline, PeerLost, Ban, Unban,
              Event, objects, registry
  <2>2. uploading[x] # NoUpload => uploading[x] \in Uploads
    BY DEF TypeOK
  <2>3. {x} \in SUBSET Users
    OBVIOUS
  <2>4. GoodCalls(calls')
    <3>1. CASE PeerReady(x)
      <4> DEFINE a == Loop("requeueOffline", {x})
                 b == Initiate(x)
                 now == <<a, b>>
      <4>1. a \in Call /\ Plain(a)
        <5> HIDE DEF a
        <5> QED BY <2>3, OfflineLoops DEF a
      <4>2. b \in Call /\ Plain(b)
        BY FrameTypes DEF Initiate, Plain, Progresses, HasNoCaller, Revives, Assigns
      <4>3. calls' = now
        BY <3>1 DEF PeerReady, Event, ReadyCalls
      <4> HIDE DEF a, b
      <4>4. now \in Seq(Call) /\ \A k \in 1 .. Len(now) : now[k] = a \/ now[k] = b
        BY <4>1, <4>2, TwoLeft
      <4> HIDE DEF now
      <4> QED BY <4>1, <4>2, <4>3, <4>4, EventCalls
    <3>2. CASE PeerUnavailable(x)
      <4>1. calls' = <<>> \/ (uploading[x] # NoUpload /\ calls' = Fail(uploading[x], "CannotConnect"))
        BY <3>2 DEF PeerUnavailable, UnavailableCalls, Event
      <4> QED BY <2>2, <4>1, EventCalls, EndingCalls, StateKinds
    <3>3. CASE PeerOffline(x)
      <4>1. calls' = <<Loop("peerOffline", {x})>>
        BY <3>3 DEF PeerOffline, Event
      <4>2. Loop("peerOffline", {x}) \in Call /\ Plain(Loop("peerOffline", {x}))
        BY <2>3, OfflineLoops
      <4> QED BY <4>1, <4>2, EventCalls
    <3>4. CASE PeerLost(x) \/ PeerConnecting(x) \/ Unban(x)
      <4>1. calls' = <<>>
        BY <3>4 DEF PeerLost, PeerConnecting, Unban, Event
      <4> QED BY <4>1, EventCalls
    <3>5. CASE Ban(x)
      <4> DEFINE f == IF uploading[x] = NoUpload THEN <<>> ELSE Fail(uploading[x], "LocalError")
      <4>1. calls' = Append(f, CheckUploads)
        BY <3>5 DEF Ban, Event
      <4>2. CASE uploading[x] = NoUpload
        <5>1. calls' = <<CheckUploads>>
          BY <4>1, <4>2
        <5>2. CheckUploads \in Call /\ Plain(CheckUploads)
          BY FrameTypes, PlainCalls
        <5> QED BY <5>1, <5>2, EventCalls
      <4>3. CASE uploading[x] # NoUpload
        <5>1. calls' = Append(Fail(uploading[x], "LocalError"), CheckUploads)
          BY <4>1, <4>3
        <5>2. calls' \in Seq(Call) /\ \A k \in 1 .. Len(calls') : Plain(calls'[k])
          <6> DEFINE u == uploading[x]
                     now == Append(Fail(u, "LocalError"), CheckUploads)
          <6>1. u \in Uploads
            BY <2>2, <4>3
          <6> HIDE DEF u
          <6>2. now \in Seq(Call) /\ \A k \in 1 .. Len(now) : Plain(now[k])
            BY <6>1, FailThenCheck
          <6> QED BY <5>1, <6>2 DEF u
        <5> QED BY <5>2, EventCalls
      <4> QED BY <4>2, <4>3
    <3>6. CASE PeerAsked(x)
      <4>1. calls' = <<PeerSocket(x)>>
        BY <3>6 DEF PeerAsked, Event
      <4>2. PeerSocket(x) \in Call /\ Plain(PeerSocket(x))
        BY FrameTypes DEF PeerSocket, Plain, Progresses, HasNoCaller, Revives, Assigns
      <4> QED BY <4>1, <4>2, EventCalls
    <3> QED BY <1>1, <3>1, <3>2, <3>3, <3>4, <3>5, <3>6 DEF UserEvent
  <2> QED BY <2>1, <2>4, QuietEvent
<1>2. CASE GlobalEvent
  <2>1. Idle /\ UNCHANGED <<uploads, state, socket, uploading>>
    BY <1>2 DEF GlobalEvent, LoggedIn, LoggedOut, SetSlots, SetAutoClear, Event, objects, registry
  <2>2. CheckUploads \in Call /\ Plain(CheckUploads)
    BY FrameTypes, PlainCalls
  <2>3. CASE calls' = <<>> \/ calls' = <<CheckUploads>>
    <3>1. GoodCalls(calls')
      BY <2>2, <2>3, EventCalls
    <3> QED BY <2>1, <3>1, QuietEvent
  <2>4. CASE calls' = <<Loop("logout", Users)>>
    <3> DEFINE c == Loop("logout", Users)
               now == <<c>>
    <3>1. c \in Call
      BY LoopType DEF Loops
    <3>2. c.op \notin {"erase", "scan"} /\ ~Progresses(c)
      BY DEF Loop, LoopFrom, Progresses
    <3> HIDE DEF c
    <3>3. Len(now) = 1 /\ \A k \in 1 .. Len(now) : k = 1 /\ now[k] = c
      BY <3>1, OneLeft
    <3>4. calls' = now
      BY <2>4 DEF c
    <3> HIDE DEF now
    <3>5. GoodCalls(now)
      BY <3>2, <3>3 DEF GoodCalls
    <3> QED BY <2>1, <3>4, <3>5, QuietEvent
  <2> QED BY <1>2, <2>3, <2>4 DEF GlobalEvent, LoggedIn, LoggedOut, SetSlots, SetAutoClear, Event
<1> QED BY <1>1, <1>2

\* The invariant holds at first, and is kept by every step.
LEMMA CallsInitially ==
  ASSUME Init
  PROVE  CallsInvariant
<1>1. calls = <<>> /\ Len(calls) = 0
  BY DEF Init
<1>2. \A k \in 1 .. Len(calls) : FALSE
  BY <1>1
<1>3. ProgressOnTop /\ BottomCalls /\ EraseIsSafe /\ CandidateIsSafe
  BY <1>2 DEF ProgressOnTop, BottomCalls, EraseIsSafe, CandidateIsSafe
<1>4. ListedIsActive /\ ActiveIsKnown /\ QueuedHasNoSocket
  BY StateKinds DEF Init, ListedIsActive, ActiveIsKnown, QueuedHasNoSocket
<1> QED BY <1>3, <1>4 DEF CallsInvariant

LEMMA CallsKept ==
  ASSUME TypeOK, CallsInvariant, [Next]_vars
  PROVE  CallsInvariant'
<1>1. CASE Step
  BY <1>1, UploadAssumption, SetStateCalls, EnterStateCalls, SocketCalls, CheckCalls, PeerSocketCalls,
     InitiateCalls, LoopCalls, AbortRemoveCalls, EraseCalls, LegacyRestCalls, ReplyCalls DEF Step
<1>2. CASE \E u \in Uploads : UploadEvent(u)
  BY <1>2, UploadAssumption, UploadEventCalls
<1>3. CASE (\E x \in Users : UserEvent(x)) \/ GlobalEvent
  BY <1>3, UploadAssumption, WorldEventCalls
<1>4. CASE UNCHANGED vars
  <2>1. UNCHANGED <<uploads, state, socket, uploading, config, calls>>
    BY <1>4 DEF vars, objects, registry, world
  <2> QED BY <2>1 DEF CallsInvariant, ListedIsActive, ActiveIsKnown, ProgressOnTop, BottomCalls,
       EraseIsSafe, CandidateIsSafe, QueuedHasNoSocket, Known, Queued, Progresses, HasNoCaller,
       Aborts, Revives, Clears, Assigns, SetState
<1> QED BY <1>1, <1>2, <1>3, <1>4 DEF Next

\* The invariant of the call stack: whatever the nesting of callbacks, a pending call is
\* one its upload may still take.
THEOREM CallsCorrect == Spec => []CallsInvariant
<1>1. Init => CallsInvariant
  BY CallsInitially
<1>2. TypeOK /\ CallsInvariant /\ [Next]_vars => CallsInvariant'
  BY CallsKept
<1>3. Spec => []TypeOK
  BY TypeCorrect
<1> QED BY <1>1, <1>2, <1>3, PTL DEF Spec

\* isUploadingTo returns none but an upload of the user that is in progress.
THEOREM ListingCorrect == Spec => []ListedIsActive
<1>1. CallsInvariant => ListedIsActive
  BY DEF CallsInvariant
<1> QED BY <1>1, CallsCorrect, PTL

\* An upload that holds a slot is in m_Uploads: remove leaves none behind.
THEOREM ListingKnown == Spec => []ListedIsKnown
<1>1. TypeOK /\ CallsInvariant => ListedIsKnown
  BY DEF TypeOK, CallsInvariant, ListedIsActive, ActiveIsKnown, ListedIsKnown
<1> QED BY <1>1, TypeCorrect, CallsCorrect, PTL

\* The candidate of checkUploads never dangles.
THEOREM CandidateCorrect == Spec => []CandidateIsKnown
<1>1. CallsInvariant => CandidateIsKnown
  BY DEF CallsInvariant, CandidateIsSafe, CandidateIsKnown
<1> QED BY <1>1, CallsCorrect, PTL
=============================================================================
