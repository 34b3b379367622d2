------------------------- MODULE UploadQueue_proofs -------------------------
(***************************************************************************)
(* The waits and the slots of UploadManager: an upload that waits has a    *)
(* timeout, and, while nobody is banned, the queue implements the pool of  *)
(* slots, in order and without leaving a slot idle.                        *)
(*                                                                         *)
(* Every step is first put into one of a few kinds (StepKinds, EventKinds) *)
(* by what it leaves on the stack; both invariants are then shown to be    *)
(* kept by each kind.                                                      *)
(***************************************************************************)
EXTENDS UploadManager_proofs

-----------------------------------------------------------------------------
(* The calls a handler leaves.                                             *)

\* Calls that start no upload, and release a socket only on the way to an end.
Steady(list) ==
  /\ list \in Seq(Call)
  /\ \A k \in 1 .. Len(list) : ~Progresses(list[k])
  /\ Severed(list)

Scanless(list) == \A k \in 1 .. Len(list) : list[k].op # "scan"

Checks(list) == \E k \in 1 .. Len(list) : list[k].op = "check"

\* What each kind of call starts and ends.
LEMMA CallKinds ==
  /\ \A u \in Uploads, s \in TrStates \ ActiveStates :
       /\ ~Progresses(SetState(u, s)) /\ Ends(SetState(u, s), u) /\ SetState(u, s).op = "setState"
       /\ ~Progresses(EnterState(u, s)) /\ Ends(EnterState(u, s), u) /\ EnterState(u, s).op = "enterState"
  /\ \A u \in Uploads :
       /\ ~Progresses(Disconnected(u)) /\ Ends(Disconnected(u), u) /\ Disconnected(u).op = "disconnected"
       /\ ~Progresses(Release(u)) /\ Release(u).op = "release" /\ Release(u).up = u
       /\ \A o \in {"abortRest", "remove", "erase", "legacyRest"} : ~Progresses([op |-> o, up |-> u])
       /\ Ends([op |-> "abortRest", up |-> u], u)
  /\ ~Progresses(CheckUploads) /\ CheckUploads.op = "check"
  /\ \A x \in Users : /\ ~Progresses(PeerSocket(x)) /\ PeerSocket(x).op = "peerSocket"
                      /\ ~Progresses(Initiate(x)) /\ Initiate(x).op = "initiate"
  /\ \A o \in Loops, w \in SUBSET Users, i \in Nat, e \in Nat :
       ~Progresses(LoopFrom(o, w, i, e)) /\ LoopFrom(o, w, i, e).op = "loop"
  /\ \A i \in Nat, c \in Uploads \union {NoUpload} : ~Progresses(Scan(i, c)) /\ Scan(i, c).op = "scan"
<1> USE DEF Progresses, Ends, Assigns
<1>1. \A u \in Uploads, s \in TrStates \ ActiveStates :
        /\ ~Progresses(SetState(u, s)) /\ Ends(SetState(u, s), u) /\ SetState(u, s).op = "setState"
        /\ ~Progresses(EnterState(u, s)) /\ Ends(EnterState(u, s), u) /\ EnterState(u, s).op = "enterState"
  BY StateKinds DEF SetState, EnterState
<1>2. ASSUME NEW u \in Uploads
      PROVE  /\ ~Progresses(Disconnected(u)) /\ Ends(Disconnected(u), u) /\ Disconnected(u).op = "disconnected"
             /\ ~Progresses(Release(u)) /\ Release(u).op = "release" /\ Release(u).up = u
             /\ \A o \in {"abortRest", "remove", "erase", "legacyRest"} : ~Progresses([op |-> o, up |-> u])
             /\ Ends([op |-> "abortRest", up |-> u], u)
  BY DEF Disconnected, Release
<1>3. ~Progresses(CheckUploads) /\ CheckUploads.op = "check"
  BY DEF CheckUploads
<1>4. \A x \in Users : /\ ~Progresses(PeerSocket(x)) /\ PeerSocket(x).op = "peerSocket"
                       /\ ~Progresses(Initiate(x)) /\ Initiate(x).op = "initiate"
  BY DEF PeerSocket, Initiate
<1>5. \A o \in Loops, w \in SUBSET Users, i \in Nat, e \in Nat :
        ~Progresses(LoopFrom(o, w, i, e)) /\ LoopFrom(o, w, i, e).op = "loop"
  BY DEF LoopFrom
<1>6. \A i \in Nat, c \in Uploads \union {NoUpload} : ~Progresses(Scan(i, c)) /\ Scan(i, c).op = "scan"
  BY DEF Scan
<1> QED BY <1>1, <1>2, <1>3, <1>4, <1>5, <1>6

\* Nothing, one call or two calls, none of them a release.
LEMMA SteadyNone ==
  Steady(<<>>) /\ Scanless(<<>>)
<1> DEFINE now == <<>>
<1>1. now \in Seq(Call) /\ Len(now) = 0
  BY FewCalls
<1>2. \A k \in 1 .. Len(now) : FALSE
  <2> HIDE DEF now
  <2> QED BY <1>1
<1> HIDE DEF now
<1>3. Steady(now) /\ Scanless(now)
  BY <1>1, <1>2 DEF Steady, Severed, Scanless
<1> QED BY <1>3 DEF now

LEMMA SteadyOne ==
  ASSUME NEW c \in Call, ~Progresses(c), c.op # "release"
  PROVE  /\ Steady(<<c>>) /\ (c.op # "scan" => Scanless(<<c>>))
         /\ \A u : Ends(c, u) => Pending(<<c>>, u)
         /\ c.op = "check" => Checks(<<c>>)
<1> DEFINE now == <<c>>
<1>1. /\ now \in Seq(Call) /\ Len(now) = 1 /\ now[1] = c
      /\ \A k \in 1 .. Len(now) : k = 1 /\ now[k] = c
  BY OneLeft
<1> HIDE DEF now
<1>2. /\ Steady(now) /\ (c.op # "scan" => Scanless(now))
      /\ \A u : Ends(c, u) => Pending(now, u)
      /\ c.op = "check" => Checks(now)
  BY <1>1 DEF Steady, Severed, Scanless, Pending, Checks
<1> QED BY <1>2 DEF now

LEMMA SteadyTwo ==
  ASSUME NEW c \in Call, ~Progresses(c), c.op # "release",
         NEW d \in Call, ~Progresses(d), d.op # "release"
  PROVE  /\ Steady(<<c, d>>) /\ (c.op # "scan" /\ d.op # "scan" => Scanless(<<c, d>>))
         /\ \A u : Ends(c, u) \/ Ends(d, u) => Pending(<<c, d>>, u)
<1> DEFINE now == <<c, d>>
<1>1. /\ now \in Seq(Call) /\ Len(now) = 2 /\ now[1] = c /\ now[2] = d
      /\ \A k \in 1 .. Len(now) : (k = 1 /\ now[k] = c) \/ (k = 2 /\ now[k] = d)
  BY TwoLeft
<1> HIDE DEF now
<1>2. /\ Steady(now) /\ (c.op # "scan" /\ d.op # "scan" => Scanless(now))
      /\ \A u : Ends(c, u) \/ Ends(d, u) => Pending(now, u)
  BY <1>1 DEF Steady, Severed, Scanless, Pending
<1> QED BY <1>2 DEF now

\* The socket of an upload is dropped, and then the upload ends.
LEMMA SteadyDrop ==
  ASSUME TypeOK, NEW u \in Uploads, NEW c \in Call, ~Progresses(c), c.op \notin {"release", "scan"}, Ends(c, u)
  PROVE  /\ Steady(Append(DropSocket(u), c)) /\ Scanless(Append(DropSocket(u), c))
         /\ Pending(Append(DropSocket(u), c), u)
<1> DEFINE f == DropSocket(u)
           now == Append(f, c)
<1>0. /\ ~Progresses(Disconnected(u)) /\ Disconnected(u).op = "disconnected"
      /\ ~Progresses(Release(u)) /\ Release(u).op = "release" /\ Release(u).up = u
  BY CallKinds
<1>1. f \in Seq(Call)
  BY HandlerCalls
<1>2. \A k \in 1 .. Len(f) : f[k] = Disconnected(u) \/ f[k] = Release(u)
  <2>1. CASE socket[u] = "none"
    <3>1. f = <<>>
      BY <2>1 DEF DropSocket
    <3>2. Len(f) = 0
      BY <3>1, TupleElements
    <3> HIDE DEF f
    <3> QED BY <3>2
  <2>2. CASE socket[u] # "none"
    <3>1. f = <<Disconnected(u), Release(u)>>
      BY <2>2 DEF DropSocket
    <3>2. Len(f) = 2 /\ f[1] = Disconnected(u) /\ f[2] = Release(u)
      BY <3>1, TupleElements
    <3> HIDE DEF f
    <3> QED BY <3>2
  <2> QED BY <2>1, <2>2
<1> HIDE DEF f
<1>3. /\ now \in Seq(Call) /\ Len(now) = Len(f) + 1 /\ Len(f) \in Nat
      /\ \A k \in 1 .. Len(f) : now[k] = f[k]
      /\ now[Len(f) + 1] = c
  BY <1>1, AppendProperties, LenProperties
<1> HIDE DEF now
<1>4. \A k \in 1 .. Len(now) : (k = Len(f) + 1 /\ now[k] = c) \/ (k <= Len(f) /\ now[k] \in {Disconnected(u), Release(u)})
  <2> SUFFICES ASSUME NEW k \in 1 .. Len(now), k # Len(f) + 1
               PROVE  k <= Len(f) /\ now[k] \in {Disconnected(u), Release(u)}
    BY <1>3
  <2>1. k \in 1 .. Len(f)
    BY <1>3
  <2> QED BY <1>2, <1>3, <2>1
<1>5. Severed(now)
  <2> SUFFICES ASSUME NEW k \in 1 .. Len(now), now[k].op = "release"
               PROVE  \E j \in k + 1 .. Len(now) : Ends(now[j], now[k].up)
    BY DEF Severed
  <2>1. k <= Len(f) /\ now[k] = Release(u)
    BY <1>0, <1>4
  <2>2. Len(f) + 1 \in k + 1 .. Len(now)
    BY <1>3, <2>1
  <2>3. Ends(now[Len(f) + 1], now[k].up)
    BY <1>0, <1>3, <2>1
  <2> QED BY <2>2, <2>3
<1>6. Steady(now) /\ Scanless(now) /\ Pending(now, u)
  <2>1. Pending(now, u)
    BY <1>3 DEF Pending
  <2> QED BY <1>0, <1>3, <1>4, <1>5, <2>1 DEF Steady, Scanless
<1> QED BY <1>6 DEF now, f

\* An upload fails.
LEMMA SteadyFail ==
  ASSUME TypeOK, NEW u \in Uploads, NEW s \in TrStates \ ActiveStates
  PROVE  Steady(Fail(u, s)) /\ Scanless(Fail(u, s)) /\ Pending(Fail(u, s), u)
<1>1. SetState(u, s) \in Call
  BY FrameTypes
<1> QED BY <1>1, CallKinds, SteadyDrop DEF Fail

\* A further call after steady ones.
LEMMA SteadyMore ==
  ASSUME NEW f, Steady(f), NEW c \in Call, ~Progresses(c), c.op # "release"
  PROVE  /\ Steady(Append(f, c))
         /\ Scanless(f) /\ c.op # "scan" => Scanless(Append(f, c))
         /\ \A u : Pending(f, u) => Pending(Append(f, c), u)
         /\ c.op = "check" \/ Checks(f) => Checks(Append(f, c))
<1> DEFINE now == Append(f, c)
<1>1. f \in Seq(Call)
  BY DEF Steady
<1>2. /\ now \in Seq(Call) /\ Len(now) = Len(f) + 1 /\ Len(f) \in Nat
      /\ \A k \in 1 .. Len(f) : now[k] = f[k]
      /\ now[Len(f) + 1] = c
  BY <1>1, AppendProperties, LenProperties
<1> HIDE DEF now
<1>3. \A k \in 1 .. Len(now) : (k = Len(f) + 1 /\ now[k] = c) \/ (k \in 1 .. Len(f) /\ now[k] = f[k])
  BY <1>2
<1>4. Severed(now)
  <2> SUFFICES ASSUME NEW k \in 1 .. Len(now), now[k].op = "release"
               PROVE  \E j \in k + 1 .. Len(now) : Ends(now[j], now[k].up)
    BY DEF Severed
  <2>1. k \in 1 .. Len(f) /\ now[k] = f[k]
    BY <1>3
  <2>2. PICK j \in k + 1 .. Len(f) : Ends(f[j], f[k].up)
    BY <2>1 DEF Steady, Severed
  <2>3. j \in k + 1 .. Len(now) /\ now[j] = f[j]
    BY <1>2, <2>1
  <2> QED BY <2>1, <2>2, <2>3
<1>5. \A u : Pending(f, u) => Pending(now, u)
  <2> SUFFICES ASSUME NEW u, NEW k \in 1 .. Len(f), Ends(f[k], u)
               PROVE  Pending(now, u)
    BY DEF Pending
  <2>1. k \in 1 .. Len(now) /\ now[k] = f[k]
    BY <1>2
  <2> QED BY <2>1 DEF Pending
<1>6. Len(f) + 1 \in 1 .. Len(now) /\ 1 .. Len(f) \subseteq 1 .. Len(now)
  BY <1>2
<1>7. Steady(now) /\ (Scanless(f) /\ c.op # "scan" => Scanless(now))
  BY <1>2, <1>3, <1>4 DEF Steady, Scanless
<1>8. c.op = "check" \/ Checks(f) => Checks(now)
  BY <1>2, <1>6 DEF Checks
<1> QED BY <1>5, <1>7, <1>8 DEF now

\* The update of an upload whose m_State is assigned.
LEMMA SteadyAftermath ==
  ASSUME TypeOK, NEW u \in Uploads, NEW s \in TrStates
  PROVE  /\ Steady(Aftermath(u, s)) /\ Scanless(Aftermath(u, s))
         /\ s \notin ActiveStates => Checks(Aftermath(u, s))
<1> DEFINE c == [op |-> "remove", up |-> u]
<1>1. c \in Call /\ CheckUploads \in Call /\ ~Progresses(c) /\ c.op = "remove"
  BY FrameTypes, CallKinds
<1>2. /\ Steady(<<CheckUploads>>) /\ Scanless(<<CheckUploads>>) /\ Checks(<<CheckUploads>>)
  BY <1>1, CallKinds, SteadyOne
<1>3. CASE s \in ActiveStates
  <2>1. s # "Finished"
    BY <1>3, StateKinds
  <2>2. Aftermath(u, s) = <<>>
    BY <1>3, <2>1 DEF Aftermath
  <2> QED BY <1>3, <2>2, SteadyNone
<1>4. CASE s \notin ActiveStates /\ ~(s = "Finished" /\ config.autoClear)
  <2>1. <<CheckUploads>> \o <<>> = <<CheckUploads>>
    BY FrameTypes, FewCalls, ConcatEmptySeq
  <2>2. Aftermath(u, s) = <<CheckUploads>>
    BY <1>4, <2>1 DEF Aftermath
  <2> QED BY <1>2, <2>2
<1>5. CASE s \notin ActiveStates /\ s = "Finished" /\ config.autoClear
  <2>1. Aftermath(u, s) = <<CheckUploads>> \o <<c>>
    BY <1>5 DEF Aftermath
  <2>2. Append(<<CheckUploads>>, c) = <<CheckUploads>> \o <<c>>
    BY <1>1, FewCalls, AppendIsConcat
  <2> HIDE DEF c
  <2> QED BY <1>1, <1>2, <2>1, <2>2, SteadyMore
<1> QED BY <1>3, <1>4, <1>5

-----------------------------------------------------------------------------
(* The stack after a handler has returned.                                 *)

\* What it left is on top of the calls it was on top of.
LEMMA StackOver ==
  ASSUME calls \in Seq(Call), calls # <<>>, NEW now \in Seq(Call), Return(now)
  PROVE  /\ Top = calls[1] /\ 1 \in 1 .. Len(calls) /\ Len(now) \in Nat /\ Len(calls) \in Nat
         /\ \A k \in 1 .. Len(now) : k \in 1 .. Len(calls') /\ calls'[k] = now[k]
         /\ \A j \in 2 .. Len(calls) :
              Len(now) + j - 1 \in 1 .. Len(calls') /\ calls'[Len(now) + j - 1] = calls[j]
         /\ \A k \in 1 .. Len(calls') :
              \/ k \in 1 .. Len(now) /\ calls'[k] = now[k]
              \/ \E j \in 2 .. Len(calls) : k = Len(now) + j - 1 /\ calls'[k] = calls[j]
<1> DEFINE m == Len(now)
<1>1. /\ m \in Nat /\ Len(calls) \in Nat \ {0}
      /\ Len(calls') = m + Len(calls) - 1
      /\ Top = calls[1]
      /\ \A k \in 1 .. m : now[k] \in Call /\ calls'[k] = now[k]
      /\ \A k \in m + 1 .. Len(calls') : k - m + 1 \in 2 .. Len(calls) /\ calls'[k] = calls[k - m + 1]
  BY StackShape
<1> HIDE DEF m
<1>2. \A k \in 1 .. m : k \in 1 .. Len(calls') /\ calls'[k] = now[k]
  BY <1>1
<1>3. ASSUME NEW j \in 2 .. Len(calls)
      PROVE  m + j - 1 \in 1 .. Len(calls') /\ calls'[m + j - 1] = calls[j]
  <2> DEFINE n == m + j - 1
  <2>1. n \in m + 1 .. Len(calls') /\ n \in 1 .. Len(calls') /\ n - m + 1 = j
    BY <1>1
  <2> HIDE DEF n
  <2>2. calls'[n] = calls[j]
    BY <1>1, <2>1
  <2> QED BY <2>1, <2>2 DEF n
<1>4. ASSUME NEW k \in 1 .. Len(calls')
      PROVE  \/ k \in 1 .. m /\ calls'[k] = now[k]
             \/ \E j \in 2 .. Len(calls) : k = m + j - 1 /\ calls'[k] = calls[j]
  <2>1. CASE k \in 1 .. m
    BY <1>1, <2>1
  <2>2. CASE k \in m + 1 .. Len(calls')
    <3>1. k - m + 1 \in 2 .. Len(calls) /\ calls'[k] = calls[k - m + 1] /\ k = m + (k - m + 1) - 1
      BY <1>1, <2>2
    <3> QED BY <3>1
  <2> QED BY <1>1, <2>1, <2>2
<1> QED BY <1>1, <1>2, <1>3, <1>4 DEF m

\* An end that was pending is still pending, unless the call that returned was it.
LEMMA StackPending ==
  ASSUME calls \in Seq(Call), calls # <<>>, NEW now \in Seq(Call), Return(now),
         NEW u \in Uploads,
         Pending(now, u) \/ (Pending(calls, u) /\ ~Ends(Top, u))
  PROVE  Pending(calls', u)
<1>1. CASE Pending(now, u)
  BY <1>1, StackOver DEF Pending
<1>2. CASE Pending(calls, u) /\ ~Ends(Top, u)
  <2>1. PICK j \in 1 .. Len(calls) : Ends(calls[j], u)
    BY <1>2 DEF Pending
  <2>2. j \in 2 .. Len(calls)
    <3>1. Top = calls[1] /\ Len(calls) \in Nat
      BY StackOver
    <3> QED BY <1>2, <2>1, <3>1
  <2>3. Len(now) + j - 1 \in 1 .. Len(calls') /\ calls'[Len(now) + j - 1] = calls[j]
    BY <2>2, StackOver
  <2> QED BY <2>1, <2>3 DEF Pending
<1> QED BY <1>1, <1>2

\* So is a check of the queue.
LEMMA StackChecks ==
  ASSUME calls \in Seq(Call), calls # <<>>, NEW now \in Seq(Call), Return(now),
         Checks(now) \/ (Checks(calls) /\ Top.op # "check")
  PROVE  Checks(calls')
<1>1. CASE Checks(now)
  BY <1>1, StackOver DEF Checks
<1>2. CASE Checks(calls) /\ Top.op # "check"
  <2>1. PICK j \in 1 .. Len(calls) : calls[j].op = "check"
    BY <1>2 DEF Checks
  <2>2. j \in 2 .. Len(calls)
    <3>1. Top = calls[1] /\ Len(calls) \in Nat
      BY StackOver
    <3> QED BY <1>2, <2>1, <3>1
  <2>3. Len(now) + j - 1 \in 1 .. Len(calls') /\ calls'[Len(now) + j - 1] = calls[j]
    BY <2>2, StackOver
  <2> QED BY <2>1, <2>3 DEF Checks
<1> QED BY <1>1, <1>2

\* Every release still has an end behind it.
LEMMA StackSevered ==
  ASSUME calls \in Seq(Call), calls # <<>>, NEW now \in Seq(Call), Return(now),
         Severed(now), Severed(calls)
  PROVE  Severed(calls')
<1> SUFFICES ASSUME NEW k \in 1 .. Len(calls'), calls'[k].op = "release"
             PROVE  \E j \in k + 1 .. Len(calls') : Ends(calls'[j], calls'[k].up)
  BY DEF Severed
<1>0. Len(now) \in Nat /\ Len(calls) \in Nat
  BY StackOver
<1>1. CASE k \in 1 .. Len(now) /\ calls'[k] = now[k]
  <2>1. PICK j \in k + 1 .. Len(now) : Ends(now[j], now[k].up)
    BY <1>1 DEF Severed
  <2>2. j \in 1 .. Len(now)
    BY <1>0, <1>1
  <2>3. j \in 1 .. Len(calls') /\ calls'[j] = now[j]
    BY <2>2, StackOver
  <2>4. j \in k + 1 .. Len(calls')
    BY <1>0, <2>3
  <2> QED BY <1>1, <2>1, <2>3, <2>4
<1>2. CASE \E i \in 2 .. Len(calls) : k = Len(now) + i - 1 /\ calls'[k] = calls[i]
  <2>0. PICK i \in 2 .. Len(calls) : k = Len(now) + i - 1 /\ calls'[k] = calls[i]
    BY <1>2
  <2>1. PICK j \in i + 1 .. Len(calls) : Ends(calls[j], calls[i].up)
    <3>1. i \in 1 .. Len(calls)
      BY <1>0
    <3> QED BY <2>0, <3>1 DEF Severed
  <2>2. j \in 2 .. Len(calls)
    BY <1>0, <2>0
  <2>3. Len(now) + j - 1 \in 1 .. Len(calls') /\ calls'[Len(now) + j - 1] = calls[j]
    BY <2>2, StackOver
  <2>4. Len(now) + j - 1 \in k + 1 .. Len(calls')
    BY <1>0, <2>0, <2>2, <2>3
  <2> QED BY <2>0, <2>1, <2>3, <2>4
<1> QED BY <1>1, <1>2, StackOver

\* When steady calls are left, an upload about to progress is the one whose Establishing
\* has just been entered.
LEMMA StackProgress ==
  ASSUME calls \in Seq(Call), calls # <<>>, ProgressOnTop, NEW now, Steady(now), Return(now),
         NEW k \in 1 .. Len(calls'), Progresses(calls'[k])
  PROVE  /\ 2 \in 1 .. Len(calls) /\ calls'[k] = calls[2] /\ Progresses(calls[2])
         /\ calls[2].up \in Known /\ Top = SetState(calls[2].up, "Establishing")
<1>1. now \in Seq(Call) /\ \A j \in 1 .. Len(now) : ~Progresses(now[j])
  BY DEF Steady
<1>2. /\ Top = calls[1] /\ Len(calls) \in Nat
      /\ \/ k \in 1 .. Len(now) /\ calls'[k] = now[k]
         \/ \E j \in 2 .. Len(calls) : k = Len(now) + j - 1 /\ calls'[k] = calls[j]
  BY <1>1, StackOver
<1>3. PICK j \in 2 .. Len(calls) : calls'[k] = calls[j]
  BY <1>1, <1>2
<1>4. j \in 1 .. Len(calls) /\ j # 1
  BY <1>2
<1>5. j = 2 /\ calls[1] = SetState(calls[2].up, "Establishing") /\ calls[2].up \in Known
  BY <1>3, <1>4 DEF ProgressOnTop
<1> QED BY <1>2, <1>3, <1>4, <1>5

-----------------------------------------------------------------------------
(* The kinds of steps of the handlers.                                     *)

queue == <<uploads, state, uploading, config>>

\* Only calls are left, which start no upload and end those that the call was to end.
Passes(now) ==
  /\ Return(now) /\ Steady(now)
  /\ UNCHANGED <<queue, socket, replyTimer>>
  /\ \A u \in Uploads : Ends(Top, u) /\ state[u] = "Waiting" => Pending(now, u)
  /\ \A u \in Uploads : Top = SetState(u, "Establishing") => state[u] = "Establishing"
  /\ NobodyBanned /\ Top.op # "scan" => Scanless(now)
  /\ NobodyBanned /\ Top.op = "check" => ~HasFreeSlots \/ \A u \in Known : ~Startable(u)

\* m_State is assigned.
Assigning == Top.op \in {"setState", "enterState"} /\ Enter(Top.up, Top.st)

\* checkUploads has found the upload to start; while nobody is banned it is the next in order.
Starting(u) ==
  /\ Top.op \in {"check", "scan"} /\ Return(StartUpload(u))
  /\ UNCHANGED <<queue, socket, replyTimer>>
  /\ u \in Known /\ socket[u] = "none"
  /\ NobodyBanned /\ Top.op = "check" =>
       /\ HasFreeSlots /\ Startable(u)
       /\ \A i, j \in 1 .. Len(uploads) : uploads[i] = u /\ Startable(uploads[j]) => GoesBefore(i, j)

\* The socket is released.
Releasing ==
  /\ Top.op = "release" /\ Return(<<>>)
  /\ socket' = [socket EXCEPT ![Top.up] = "none"]
  /\ UNCHANGED <<queue, replyTimer>>

\* The upload leaves the vector.
Erasing ==
  /\ Top.op = "erase" /\ Return(<<>>)
  /\ Known' = Known \ {Top.up}
  /\ replyTimer' = [replyTimer EXCEPT ![Top.up] = FALSE]
  /\ UNCHANGED <<state, uploading, config, socket>>

\* The peer is asked, and the upload waits for the answer.
Asking(u) ==
  /\ Top.op = "initiate" /\ Return(<<SetState(u, "Waiting"), CheckUploads>>)
  /\ u \in Known /\ uploading[UserOf[u]] = u /\ state[u] = "Initiating"
  /\ replyTimer' = Armed(u)
  /\ UNCHANGED <<queue, socket>>

\* A request of the old protocol is served: the upload waits for the peer's connection.
Serving(u) ==
  /\ Top.op = "legacyRest" /\ Return(<<SetState(u, "Establishing"), SetState(u, "Waiting")>>)
  /\ u \in Known /\ HasFreeSlots /\ uploading[UserOf[u]] = NoUpload
  /\ socket' = [socket EXCEPT ![u] = "ticket"] /\ replyTimer' = Cancelled(u)
  /\ UNCHANGED queue

\* The reply of the peer is taken: the upload gets a socket, and what follows, the same
\* reply for the next subscription, starts nothing.
Taking(u) ==
  /\ Top.op = "reply"
  /\ \E next \in Call : next.op = "reply" /\ Return(<<SetState(u, "Establishing"), SetState(u, "Waiting"), next>>)
  /\ u \in Known /\ state[u] = "Waiting"
  /\ socket' = [socket EXCEPT ![u] = "connect"] /\ replyTimer' = Cancelled(u)
  /\ UNCHANGED queue

Handled ==
  /\ calls # <<>> /\ Top \in Call
  /\ \/ \E now : Passes(now)
     \/ Assigning
     \/ \E u \in Uploads : Starting(u) \/ Asking(u) \/ Serving(u) \/ Taking(u)
     \/ Releasing
     \/ Erasing

\* A call that is neither an assignment, a check nor a scan passes, when it leaves steady
\* calls and ends what it was to end.
LEMMA Passing ==
  ASSUME TypeOK, calls # <<>>, Top \in Call, Top.op \notin {"setState", "enterState", "check", "scan"},
         NEW now, Return(now), Steady(now), Scanless(now), UNCHANGED <<queue, socket, replyTimer>>,
         \A u \in Uploads : Ends(Top, u) /\ state[u] = "Waiting" => Pending(now, u)
  PROVE  Handled
  BY DEF Handled, Passes, SetState

\* setState and its second half.
LEMMA SetStateKind ==
  ASSUME TypeOK, DoSetState \/ DoEnterState
  PROVE  Handled
<1> DEFINE u == Top.up
           s == Top.st
<1>1. /\ calls # <<>> /\ Top \in Call /\ Top.op \in {"setState", "enterState"}
      /\ u \in Uploads /\ s \in TrStates
  BY TopType, CallFields DEF TypeOK, DoSetState, DoEnterState, Running, Idle
<1>2. CASE Enter(u, s)
  BY <1>1, <1>2 DEF Handled, Assigning
<1>3. CASE s = state[u] /\ Return(<<>>) /\ UNCHANGED <<objects, registry, world>>
  <2>1. UNCHANGED <<queue, socket, replyTimer>>
    BY <1>3 DEF objects, registry, world, queue
  <2>2. \A v \in Uploads : Ends(Top, v) => state[v] # "Waiting"
    BY <1>1, <1>3 DEF Ends, Assigns
  <2>3. \A v \in Uploads : Top = SetState(v, "Establishing") => state[v] = "Establishing"
    BY <1>3 DEF SetState
  <2>4. Passes(<<>>)
    BY <1>1, <1>3, <2>1, <2>2, <2>3, SteadyNone DEF Passes
  <2> QED BY <1>1, <2>4 DEF Handled
<1>4. CASE /\ s # state[u] /\ s \in SeveringStates
           /\ Return(<<Disconnected(u), EnterState(u, s)>>) /\ UNCHANGED <<objects, registry, world>>
  <2> DEFINE c == Disconnected(u)
             d == EnterState(u, s)
             now == <<c, d>>
  <2>1. s \in TrStates \ ActiveStates
    BY <1>1, <1>4, StateKinds DEF SeveringStates
  <2>2. /\ c \in Call /\ ~Progresses(c) /\ c.op = "disconnected" /\ Ends(c, u)
        /\ d \in Call /\ ~Progresses(d) /\ d.op = "enterState"
    BY <1>1, <2>1, FrameTypes, CallKinds
  <2>3. \A v \in Uploads : Ends(Top, v) => v = u
    BY <1>1 DEF Ends, Assigns
  <2>4. \A v \in Uploads : Top # SetState(v, "Establishing")
    BY <2>1, StateKinds DEF SetState
  <2> HIDE DEF c, d
  <2>5. Steady(now) /\ Scanless(now) /\ Pending(now, u)
    BY <2>2, SteadyTwo
  <2>6. Return(now)
    BY <1>4 DEF c, d
  <2> HIDE DEF now
  <2>7. UNCHANGED <<queue, socket, replyTimer>>
    BY <1>4 DEF objects, registry, world, queue
  <2>8. Passes(now)
    BY <1>1, <2>3, <2>4, <2>5, <2>6, <2>7 DEF Passes
  <2> QED BY <1>1, <2>8 DEF Handled
<1> QED BY <1>2, <1>3, <1>4 DEF DoSetState, DoEnterState

\* The end of a socket.
LEMMA SocketKind ==
  ASSUME TypeOK, DoDisconnected \/ DoRelease
  PROVE  Handled
<1> DEFINE u == Top.up
           s == IF complete[u] THEN "Finished" ELSE "ConnectionClosed"
<1>1. calls # <<>> /\ Top \in Call /\ u \in Uploads /\ Top.op \in {"disconnected", "release"}
  BY TopType, CallFields DEF TypeOK, DoDisconnected, DoRelease, Running, Idle
<1>2. CASE DoRelease
  BY <1>1, <1>2 DEF Handled, Releasing, DoRelease, Running, registry, world, queue
<1>3. CASE DoDisconnected
  <2>1. UNCHANGED <<queue, socket, replyTimer>>
    BY <1>3 DEF DoDisconnected, objects, registry, world, queue
  <2>2. \A v \in Uploads : Ends(Top, v) => v = u
    BY <1>1 DEF Ends, Assigns
  <2>3. CASE Return(<<>>) /\ state[u] \in {"RemoteError", "LocalError"}
    BY <1>1, <2>1, <2>2, <2>3, SteadyNone, Passing
  <2>4. CASE Return(<<SetState(u, s)>>)
    <3>1. s \in TrStates \ ActiveStates
      BY StateKinds
    <3> HIDE DEF s
    <3>2. SetState(u, s) \in Call /\ ~Progresses(SetState(u, s)) /\ SetState(u, s).op = "setState" /\ Ends(SetState(u, s), u)
      BY <1>1, <3>1, FrameTypes, CallKinds
    <3>3. Steady(<<SetState(u, s)>>) /\ Scanless(<<SetState(u, s)>>) /\ Pending(<<SetState(u, s)>>, u)
      BY <3>2, SteadyOne
    <3> QED BY <1>1, <2>1, <2>2, <2>4, <3>3, Passing
  <2> QED BY <1>3, <2>3, <2>4 DEF DoDisconnected
<1> QED BY <1>2, <1>3

\* PeerManager::peerSocket, and the loops over the queue.
LEMMA PeerSocketKind ==
  ASSUME UploadAssumption, TypeOK, DoPeerSocket
  PROVE  Handled
<1> DEFINE x == Top.user
<1>1. /\ calls # <<>> /\ Top \in Call /\ x \in Users /\ Top.op = "peerSocket"
      /\ UNCHANGED <<queue, socket, replyTimer>>
  BY TopType, CallFields DEF TypeOK, DoPeerSocket, Running, Idle, objects, registry, queue
<1>2. \A v : ~Ends(Top, v)
  BY <1>1 DEF Ends, Assigns
<1>3. /\ \A o \in {"requeueOffline", "peerOffline"} :
           Loop(o, {x}) \in Call /\ ~Progresses(Loop(o, {x})) /\ Loop(o, {x}).op = "loop"
      /\ Initiate(x) \in Call /\ ~Progresses(Initiate(x)) /\ Initiate(x).op = "initiate"
  <2>1. {x} \in SUBSET Users
    BY <1>1
  <2>2. Initiate(x) \in Call /\ ~Progresses(Initiate(x)) /\ Initiate(x).op = "initiate"
    BY <1>1, FrameTypes, CallKinds
  <2>3. \A o \in {"requeueOffline", "peerOffline"} : Loop(o, {x}) \in Call
    <3> HIDE DEF x
    <3> QED BY <2>1, OfflineLoops
  <2>4. \A o : ~Progresses(Loop(o, {x})) /\ Loop(o, {x}).op = "loop"
    BY DEF Loop, LoopFrom, Progresses
  <2> QED BY <2>2, <2>3, <2>4
<1>4. CASE Return(ReadyCalls(x))
  <2> DEFINE c == Loop("requeueOffline", {x})
             d == Initiate(x)
             now == <<c, d>>
  <2>1. /\ c \in Call /\ ~Progresses(c) /\ c.op = "loop"
        /\ d \in Call /\ ~Progresses(d) /\ d.op = "initiate"
    BY <1>3
  <2> HIDE DEF c, d
  <2>2. Steady(now) /\ Scanless(now)
    BY <2>1, SteadyTwo
  <2>3. Return(now)
    BY <1>4 DEF ReadyCalls, c, d
  <2> HIDE DEF now
  <2> QED BY <1>1, <1>2, <2>2, <2>3, Passing
<1>5. CASE Return(<<Loop("peerOffline", {x})>>)
  <2> DEFINE c == Loop("peerOffline", {x})
             now == <<c>>
  <2>1. c \in Call /\ ~Progresses(c) /\ c.op = "loop"
    BY <1>3
  <2> HIDE DEF c
  <2>2. Steady(now) /\ Scanless(now)
    BY <2>1, SteadyOne
  <2>3. Return(now)
    BY <1>5 DEF c
  <2> HIDE DEF now
  <2> QED BY <1>1, <1>2, <2>2, <2>3, Passing
<1>6. CASE Return(<<>>)
  BY <1>1, <1>2, <1>6, SteadyNone, Passing
<1> QED BY <1>4, <1>5, <1>6 DEF DoPeerSocket

LEMMA LoopKind ==
  ASSUME UploadAssumption, TypeOK, DoLoop
  PROVE  Handled
<1>1. /\ calls # <<>> /\ Top \in Call /\ Top.op = "loop"
      /\ Top.over \in Loops /\ Top.who \in SUBSET Users /\ Top.i \in Nat \ {0} /\ Top.end \in Nat
      /\ UNCHANGED <<queue, socket, replyTimer>>
  BY TopType, CallFields DEF TypeOK, DoLoop, Running, Idle, objects, registry, world, queue
<1>2. \A v : ~Ends(Top, v)
  BY <1>1 DEF Ends, Assigns
<1>3. CASE Return(<<>>)
  BY <1>1, <1>2, <1>3, SteadyNone, Passing
<1>4. ASSUME NEW j \in Top.i .. Top.end, j <= Len(uploads),
             Return(<<SetState(uploads[j], LoopState(Top.over)), LoopFrom(Top.over, Top.who, j + 1, Top.end)>>)
      PROVE  Handled
  <2> DEFINE v == uploads[j]
             c == SetState(v, LoopState(Top.over))
             d == LoopFrom(Top.over, Top.who, j + 1, Top.end)
             now == <<c, d>>
  <2>1. j + 1 \in Nat \ {0} /\ j \in 1 .. Len(uploads)
    BY <1>1, <1>4, LenProperties DEF TypeOK
  <2>2. v \in Uploads
    BY <2>1, QueueElement DEF TypeOK
  <2>3. LoopState(Top.over) \in TrStates \ ActiveStates
    BY StateKinds DEF LoopState
  <2>4. /\ c \in Call /\ ~Progresses(c) /\ c.op = "setState"
        /\ d \in Call /\ ~Progresses(d) /\ d.op = "loop"
    BY <1>1, <2>1, <2>2, <2>3, FrameTypes, CallKinds
  <2> HIDE DEF c, d
  <2>5. Steady(now) /\ Scanless(now)
    BY <2>4, SteadyTwo
  <2>6. Return(now)
    BY <1>4 DEF c, d
  <2> HIDE DEF now
  <2> QED BY <1>1, <1>2, <2>5, <2>6, Passing
<1> QED BY <1>3, <1>4 DEF DoLoop, Firsts

\* abort and remove.
LEMMA AbortRemoveKind ==
  ASSUME UploadAssumption, TypeOK, DoAbortRest \/ DoRemove
  PROVE  Handled
<1> DEFINE u == Top.up
<1>1. /\ calls # <<>> /\ Top \in Call /\ u \in Uploads /\ Top.op \in {"abortRest", "remove"}
      /\ UNCHANGED <<queue, socket, replyTimer>>
  BY TopType, CallFields DEF TypeOK, DoAbortRest, DoRemove, Running, Idle, objects, registry, world, queue
<1>2. \A v : Ends(Top, v) => v = u /\ Top.op = "abortRest"
  BY <1>1 DEF Ends, Assigns
<1>3. CASE Return(<<>>) /\ (Top.op = "abortRest" => state[u] = "Finished")
  BY <1>1, <1>2, <1>3, SteadyNone, Passing
<1>4. CASE Return(<<SetState(u, "Aborted")>>)
  <2> DEFINE c == SetState(u, "Aborted")
             now == <<c>>
  <2>1. "Aborted" \in TrStates \ ActiveStates
    BY StateKinds
  <2>2. c \in Call /\ ~Progresses(c) /\ c.op = "setState" /\ Ends(c, u)
    BY <1>1, <2>1, FrameTypes, CallKinds
  <2> HIDE DEF c
  <2>3. Steady(now) /\ Scanless(now) /\ Pending(now, u)
    BY <2>2, SteadyOne
  <2>4. Return(now)
    BY <1>4 DEF c
  <2> HIDE DEF now
  <2> QED BY <1>1, <1>2, <2>3, <2>4, Passing
<1>5. CASE Top.op = "remove" /\ Return(Append(AbortCalls(u), [op |-> "erase", up |-> u]))
  <2> DEFINE c == [op |-> "abortRest", up |-> u]
             d == [op |-> "erase", up |-> u]
             f == Append(DropSocket(u), c)
             now == Append(f, d)
  <2>1. /\ c \in Call /\ ~Progresses(c) /\ c.op = "abortRest" /\ Ends(c, u)
        /\ d \in Call /\ ~Progresses(d) /\ d.op = "erase"
    BY <1>1, FrameTypes, CallKinds
  <2> HIDE DEF c, d
  <2>2. Steady(f) /\ Scanless(f)
    BY <1>1, <2>1, SteadyDrop
  <2> HIDE DEF f
  <2>3. Steady(now) /\ Scanless(now)
    BY <2>1, <2>2, SteadyMore
  <2>4. Return(now)
    BY <1>5 DEF AbortCalls, c, d, f
  <2> HIDE DEF now
  <2> QED BY <1>1, <1>2, <1>5, <2>3, <2>4, Passing
<1> QED BY <1>3, <1>4, <1>5 DEF DoAbortRest, DoRemove, Running

\* The end of remove.
LEMMA EraseKind ==
  ASSUME TypeOK, DoErase
  PROVE  Handled
<1>1. /\ calls # <<>> /\ Top \in Call /\ Top.up \in Uploads /\ Top.op = "erase" /\ Return(<<>>)
      /\ UNCHANGED <<state, uploading, config, socket>>
  BY TopType, CallFields DEF TypeOK, DoErase, Running, Idle, registry, world
<1>2. CASE UNCHANGED <<uploads, replyTimer>>
  <2>1. \A v : ~Ends(Top, v)
    BY <1>1 DEF Ends, Assigns
  <2>2. UNCHANGED <<queue, socket, replyTimer>>
    BY <1>1, <1>2 DEF queue
  <2> QED BY <1>1, <2>1, <2>2, SteadyNone, Passing
<1>3. CASE /\ \E i \in 1 .. Len(uploads) : uploads[i] = Top.up /\ uploads' = RemoveAt(uploads, i)
           /\ replyTimer' = [replyTimer EXCEPT ![Top.up] = FALSE]
  <2>1. Known' = Known \ {Top.up}
    BY <1>3, OnlyOneLeaves DEF Known, TypeOK
  <2> QED BY <1>1, <1>3, <2>1 DEF Handled, Erasing
<1> QED BY <1>2, <1>3 DEF DoErase

\* The rest of a request of the old protocol.
LEMMA LegacyRestKind ==
  ASSUME TypeOK, DoLegacyRest
  PROVE  Handled
<1> DEFINE u == Top.up
<1>1. /\ calls # <<>> /\ Top \in Call /\ u \in Uploads /\ Top.op = "legacyRest" /\ UNCHANGED queue
  BY TopType, CallFields DEF TypeOK, DoLegacyRest, Running, Idle, registry, world, queue
<1>2. CASE Return(<<>>) /\ UNCHANGED <<socket, replyTimer>>
  <2>1. \A v : ~Ends(Top, v)
    BY <1>1 DEF Ends, Assigns
  <2> QED BY <1>1, <1>2, <2>1, SteadyNone, Passing
<1>3. CASE /\ u \in Known /\ HasFreeSlots /\ uploading[UserOf[u]] = NoUpload
           /\ socket' = [socket EXCEPT ![u] = "ticket"]
           /\ replyTimer' = Cancelled(u)
           /\ Return(<<SetState(u, "Establishing"), SetState(u, "Waiting")>>)
  BY <1>1, <1>3 DEF Handled, Serving
<1> QED BY <1>2, <1>3 DEF DoLegacyRest

\* A reply, for one of the subscriptions to it.
LEMMA ReplyKind ==
  ASSUME TypeOK, DoReply
  PROVE  Handled
<1> DEFINE u == Top.up
           next == [Top EXCEPT !.left = @ - 1]
<1>1. calls # <<>> /\ Top \in Call /\ u \in Uploads /\ Top.op = "reply" /\ UNCHANGED queue
  BY TopType, CallFields DEF TypeOK, DoReply, Running, Idle, registry, world, queue
<1>2. \A v : ~Ends(Top, v)
  BY <1>1 DEF Ends, Assigns
<1>3. Top.left > 0 => next \in Call /\ next.op = "reply" /\ ~Progresses(next)
  BY <1>1, ReplyAgain DEF Progresses
<1>4. CASE Return(<<>>) /\ UNCHANGED <<socket, replyTimer>>
  BY <1>1, <1>2, <1>4, SteadyNone, Passing
<1>5. CASE /\ Top.left > 0 /\ u \in Known /\ state[u] = "Waiting"
           /\ socket' = [socket EXCEPT ![u] = "connect"] /\ replyTimer' = Cancelled(u)
           /\ Return(<<SetState(u, "Establishing"), SetState(u, "Waiting"), next>>)
  <2>1. Taking(u)
    BY <1>1, <1>3, <1>5 DEF Taking
  <2> QED BY <1>1, <2>1 DEF Handled
<1>6. CASE /\ Top.left > 0 /\ UNCHANGED <<socket, replyTimer>>
           /\ Return(Append(Fail(u, "RemoteError"), next))
  <2> DEFINE f == Fail(u, "RemoteError")
             now == Append(f, next)
  <2>1. "RemoteError" \in TrStates \ ActiveStates
    BY StateKinds
  <2>2. Return(now)
    BY <1>6
  <2>3. Steady(f) /\ Scanless(f)
    BY <1>1, <2>1, SteadyFail
  <2>4. next \in Call /\ next.op = "reply" /\ ~Progresses(next)
    BY <1>3, <1>6
  <2> HIDE DEF f, next
  <2>5. Steady(now) /\ Scanless(now)
    BY <2>3, <2>4, SteadyMore
  <2> HIDE DEF now
  <2> QED BY <1>1, <1>2, <1>6, <2>2, <2>5, Passing
<1> QED BY <1>4, <1>5, <1>6 DEF DoReply

\* The second half of onPeerSocketReady.
LEMMA InitiateKind ==
  ASSUME TypeOK, CallsInvariant, DoInitiate
  PROVE  Handled
<1> DEFINE x == Top.user
           u == uploading[x]
<1>1. /\ calls # <<>> /\ Top \in Call /\ x \in Users /\ Top.op = "initiate"
      /\ UNCHANGED <<queue, socket>>
  BY TopType, CallFields DEF TypeOK, DoInitiate, Running, Idle, registry, world, queue
<1>2. \A v : ~Ends(Top, v)
  BY <1>1 DEF Ends, Assigns
<1>3. CASE Return(<<>>) /\ UNCHANGED replyTimer
  BY <1>1, <1>2, <1>3, SteadyNone, Passing
<1>4. ASSUME u # NoUpload, state[u] = "Initiating"
      PROVE  u \in Uploads /\ u \in Known /\ UserOf[u] = x
  BY <1>1, <1>4, StateKinds DEF CallsInvariant, ListedIsActive, ActiveIsKnown, TypeOK
<1>5. CASE /\ u # NoUpload /\ state[u] = "Initiating" /\ UNCHANGED replyTimer
           /\ Return(Append(Fail(u, "LocalError"), CheckUploads))
  <2> DEFINE f == Fail(u, "LocalError")
             now == Append(f, CheckUploads)
  <2>1. "LocalError" \in TrStates \ ActiveStates
    BY StateKinds
  <2>2. u \in Uploads
    BY <1>4, <1>5
  <2>3. Return(now)
    BY <1>5
  <2> HIDE DEF u
  <2>4. Steady(f) /\ Scanless(f)
    BY <2>1, <2>2, SteadyFail
  <2> HIDE DEF f
  <2>5. Steady(now) /\ Scanless(now)
    BY <2>4, FrameTypes, CallKinds, SteadyMore
  <2> HIDE DEF now
  <2> QED BY <1>1, <1>2, <1>5, <2>3, <2>5, Passing
<1>6. CASE /\ u # NoUpload /\ state[u] = "Initiating" /\ replyTimer' = Armed(u)
           /\ Return(<<SetState(u, "Waiting"), CheckUploads>>)
  <2>1. u \in Uploads /\ u \in Known /\ UserOf[u] = x /\ uploading[UserOf[u]] = u
    BY <1>4, <1>6
  <2>2. Asking(u)
    BY <1>1, <1>6, <2>1 DEF Asking
  <2> QED BY <1>1, <2>1, <2>2 DEF Handled
<1> QED BY <1>3, <1>5, <1>6 DEF DoInitiate

\* A stretch of checkUploads. While nobody is banned it ends with the upload to start.
LEMMA ScanKind ==
  ASSUME UploadAssumption, TypeOK, CallsInvariant, calls # <<>>, Top \in Call, Top.op \in {"check", "scan"},
         NEW i \in Nat \ {0}, NEW cand \in Uploads \union {NoUpload}, ScanFrom(i, cand),
         cand = NoUpload \/ (Top.op = "scan" /\ cand = Top.cand),
         Top.op = "check" => i = 1 /\ cand = NoUpload /\ HasFreeSlots,
         UNCHANGED <<queue, socket, replyTimer>>
  PROVE  Handled
<1>1. /\ Top = calls[1] /\ 1 \in 1 .. Len(calls)
      /\ \A v : ~Ends(Top, v)
      /\ \A v \in Uploads : Queued(v) => socket[v] = "none"
      /\ \A v : Top # SetState(v, "Establishing")
  BY NoAssignmentOnTop, LenProperties DEF Top, Ends, Assigns, TypeOK, SetState
<1>2. ASSUME NEW j \in Ahead(i)
      PROVE  /\ j \in 1 .. Len(uploads) /\ uploads[j] \in Uploads /\ uploads[j] \in Known
             /\ socket[uploads[j]] = "none"
             /\ ~Banned(uploads[j]) => Startable(uploads[j])
  <2>1. j \in 1 .. Len(uploads)
    BY LenProperties DEF Ahead, TypeOK
  <2>2. uploads[j] \in Uploads /\ uploads[j] \in Known
    BY <2>1, QueueElement, LenProperties DEF Known, Range, TypeOK
  <2>3. Queued(uploads[j]) /\ (~Banned(uploads[j]) => Startable(uploads[j]))
    BY DEF Ahead, Banned, Startable
  <2> QED BY <1>1, <2>1, <2>2, <2>3
<1>3. cand # NoUpload => cand \in Known /\ socket[cand] = "none"
  BY <1>1 DEF CallsInvariant, CandidateIsSafe
<1>4. ASSUME NEW S \in SUBSET Ahead(i), NEW c \in Candidates(cand, S), c # NoUpload
      PROVE  c \in Uploads /\ c \in Known /\ socket[c] = "none"
  <2>1. CASE c = cand
    BY <1>3, <1>4, <2>1
  <2>2. CASE c # cand
    <3>1. PICK j \in S : c = uploads[j]
      BY <1>4, <2>2 DEF Candidates, Firsts
    <3> QED BY <1>2, <3>1
  <2> QED BY <2>1, <2>2
<1>5. ASSUME NobodyBanned
      PROVE  /\ \A u : ~Banned(u)
             /\ i = 1 => \A j \in 1 .. Len(uploads) : Startable(uploads[j]) => j \in Ahead(i)
             /\ \A j \in Ahead(i) : UserOf[uploads[j]] \in Privileged => j \in Stops(i)
  BY <1>5, LenProperties DEF NobodyBanned, Banned, Ahead, Stops, TypeOK
<1>6. ASSUME NEW j \in Ahead(i), ~Banned(uploads[j]), Return(StartUpload(uploads[j])),
             NobodyBanned /\ Top.op = "check" =>
               \A k \in 1 .. Len(uploads) : Startable(uploads[k]) => GoesBefore(j, k)
      PROVE  Handled
  <2> DEFINE u == uploads[j]
  <2>1. u \in Uploads /\ u \in Known /\ socket[u] = "none" /\ Startable(u) /\ j \in 1 .. Len(uploads)
    BY <1>2, <1>6
  <2>2. \A k \in 1 .. Len(uploads) : uploads[k] = u => k = j
    BY <2>1, LenProperties DEF TypeOK, IsInjective
  <2>3. Starting(u)
    BY <1>6, <2>1, <2>2 DEF Starting
  <2> QED BY <2>1, <2>3 DEF Handled
<1>7. CASE Stops(i) = {} /\ \E c \in Candidates(cand, Ahead(i)) :
             Return(IF c = NoUpload THEN <<>> ELSE StartUpload(c))
  <2>1. PICK c \in Candidates(cand, Ahead(i)) : Return(IF c = NoUpload THEN <<>> ELSE StartUpload(c))
    BY <1>7
  <2>2. CASE c = NoUpload
    <3>1. NobodyBanned /\ Top.op = "check" => \A u \in Known : ~Startable(u)
      <4> SUFFICES ASSUME NobodyBanned, Top.op = "check", NEW u \in Known, Startable(u)
                   PROVE  FALSE
        OBVIOUS
      <4>0. PICK j \in 1 .. Len(uploads) : u = uploads[j]
        BY LenProperties DEF Known, Range, TypeOK
      <4>1. Ahead(i) # {} /\ cand = NoUpload
        BY <1>5, <4>0
      <4>2. PICK k \in Ahead(i) : c = uploads[k]
        BY <2>1, <4>1 DEF Candidates, Firsts
      <4> QED BY <1>2, <2>2, <4>2 DEF UploadAssumption
    <3>2. Passes(<<>>)
      BY <1>1, <2>1, <2>2, <3>1, SteadyNone DEF Passes
    <3> QED BY <3>2 DEF Handled
  <2>3. CASE c # NoUpload /\ Top.op = "scan"
    <3>1. c \in Uploads /\ Starting(c)
      BY <1>4, <2>1, <2>3 DEF Starting
    <3> QED BY <3>1 DEF Handled
  <2>4. CASE c # NoUpload /\ Top.op = "check"
    <3>1. PICK j \in Firsts(Ahead(i)) : c = uploads[j]
      BY <2>1, <2>4 DEF Candidates
    <3>2. j \in Ahead(i) /\ \A k \in Ahead(i) : j <= k
      BY <3>1 DEF Firsts
    <3>3. ~Banned(uploads[j])
      BY <1>7, <3>2 DEF Stops
    <3>4. ASSUME NobodyBanned, NEW k \in 1 .. Len(uploads), Startable(uploads[k])
          PROVE  GoesBefore(j, k)
      <4>1. k \in Ahead(i) /\ UserOf[uploads[k]] \notin Privileged
        BY <1>5, <1>7, <2>4, <3>4
      <4> QED BY <3>2, <4>1 DEF GoesBefore
    <3> QED BY <1>6, <2>1, <2>4, <3>1, <3>2, <3>3, <3>4
  <2> QED BY <2>2, <2>3, <2>4
<1>8. CASE \E j \in Firsts(Stops(i)) : ~Banned(uploads[j]) /\ Return(StartUpload(uploads[j]))
  <2>1. PICK j \in Firsts(Stops(i)) : ~Banned(uploads[j]) /\ Return(StartUpload(uploads[j]))
    BY <1>8
  <2>2. j \in Ahead(i) /\ UserOf[uploads[j]] \in Privileged /\ \A k \in Stops(i) : j <= k
    BY <2>1 DEF Firsts, Stops
  <2>3. ASSUME NobodyBanned, Top.op = "check", NEW k \in 1 .. Len(uploads), Startable(uploads[k])
        PROVE  GoesBefore(j, k)
    <3>1. UserOf[uploads[k]] \in Privileged => k \in Stops(i)
      BY <1>5, <2>3
    <3> QED BY <2>2, <3>1 DEF GoesBefore
  <2> QED BY <1>6, <2>1, <2>2, <2>3
<1>9. CASE \E j \in Firsts(Stops(i)) :
             /\ Banned(uploads[j])
             /\ \E c \in Candidates(cand, Ahead(i) \ (j .. Len(uploads))) :
                  Return(Append(Fail(uploads[j], "LocalError"), Scan(j + 1, c)))
  <2>1. PICK j \in Firsts(Stops(i)) :
             /\ Banned(uploads[j])
             /\ \E c \in Candidates(cand, Ahead(i) \ (j .. Len(uploads))) :
                  Return(Append(Fail(uploads[j], "LocalError"), Scan(j + 1, c)))
    BY <1>9
  <2>2. PICK c \in Candidates(cand, Ahead(i) \ (j .. Len(uploads))) :
             Return(Append(Fail(uploads[j], "LocalError"), Scan(j + 1, c)))
    BY <2>1
  <2> DEFINE f == Fail(uploads[j], "LocalError")
             d == Scan(j + 1, c)
             now == Append(f, d)
  <2>3. j \in Ahead(i) /\ j + 1 \in Nat \ {0} /\ uploads[j] \in Uploads
    <3>1. j \in Ahead(i)
      BY <2>1 DEF Firsts, Stops
    <3> QED BY <1>2, <3>1
  <2>4. c \in Uploads \union {NoUpload}
    BY <1>4
  <2>5. d \in Call /\ ~Progresses(d) /\ d.op = "scan"
    BY <2>3, <2>4, FrameTypes, CallKinds
  <2>6. Steady(f)
    BY <2>3, SteadyFail, StateKinds
  <2>7. Return(now)
    BY <2>2
  <2> HIDE DEF f, d
  <2>8. Steady(now)
    BY <2>5, <2>6, SteadyMore
  <2>9. ~NobodyBanned
    BY <1>5, <2>1
  <2> HIDE DEF now
  <2>10. Passes(now)
    BY <1>1, <2>7, <2>8, <2>9 DEF Passes
  <2> QED BY <2>10 DEF Handled
<1> QED BY <1>7, <1>8, <1>9 DEF ScanFrom

LEMMA CheckKind ==
  ASSUME UploadAssumption, TypeOK, CallsInvariant, DoCheckUploads \/ DoScan
  PROVE  Handled
<1>1. /\ calls # <<>> /\ Top \in Call /\ UNCHANGED <<queue, socket, replyTimer>>
      /\ DoCheckUploads => Top.op = "check"
      /\ DoScan => Top.op = "scan"
  BY TopType DEF TypeOK, DoCheckUploads, DoScan, Running, Idle, objects, registry, world, queue
<1>2. CASE DoCheckUploads /\ HasFreeSlots
  <2>1. ScanFrom(1, NoUpload) /\ 1 \in Nat \ {0} /\ NoUpload \in Uploads \union {NoUpload}
    BY <1>2 DEF DoCheckUploads
  <2> QED BY <1>1, <1>2, <2>1, ScanKind
<1>3. CASE DoCheckUploads /\ ~HasFreeSlots
  <2>1. Return(<<>>)
    BY <1>3 DEF DoCheckUploads
  <2>2. \A v : ~Ends(Top, v) /\ Top # SetState(v, "Establishing")
    BY <1>1, <1>3 DEF Ends, Assigns, SetState
  <2>3. Passes(<<>>)
    BY <1>1, <1>3, <2>1, <2>2, SteadyNone DEF Passes
  <2> QED BY <1>1, <2>3 DEF Handled
<1>4. CASE DoScan
  <2>1. ScanFrom(Top.i, Top.cand) /\ Top.i \in Nat \ {0} /\ Top.cand \in Uploads \union {NoUpload}
    BY <1>1, <1>4, CallFields DEF DoScan
  <2> QED BY <1>1, <1>4, <2>1, ScanKind
<1> QED BY <1>2, <1>3, <1>4 DEF DoCheckUploads

\* Every step of a handler is of one of the kinds.
LEMMA StepKinds ==
  ASSUME UploadAssumption, TypeOK, CallsInvariant, Step
  PROVE  Handled
  BY SetStateKind, SocketKind, CheckKind, PeerSocketKind, InitiateKind, LoopKind, AbortRemoveKind,
     EraseKind, LegacyRestKind, ReplyKind DEF Step

-----------------------------------------------------------------------------
(* The calls that start an upload or make it wait.                         *)

\* Over a call that assigns nothing, only what it leaves may progress.
LEMMA StackNew ==
  ASSUME TypeOK, CallsInvariant, calls # <<>>, Top.op \notin {"setState", "enterState"},
         NEW now \in Seq(Call), Return(now), NEW k \in 1 .. Len(calls'), Progresses(calls'[k])
  PROVE  k \in 1 .. Len(now) /\ calls'[k] = now[k]
<1>1. \A j \in 1 .. Len(calls) : ~Progresses(calls[j])
  BY NoAssignmentOnTop
<1>2. \/ k \in 1 .. Len(now) /\ calls'[k] = now[k]
      \/ \E j \in 2 .. Len(calls) : k = Len(now) + j - 1 /\ calls'[k] = calls[j]
  BY StackOver DEF TypeOK
<1>3. \A j \in 2 .. Len(calls) : j \in 1 .. Len(calls)
  BY LenProperties DEF TypeOK
<1> QED BY <1>1, <1>2, <1>3

LEMMA StartingCalls ==
  ASSUME UploadAssumption, NEW u \in Uploads
  PROVE  LET now == StartUpload(u)
         IN  /\ now \in Seq(Call) /\ Severed(now) /\ Scanless(now) /\ Checks(now)
             /\ \A k \in 1 .. Len(now) : Progresses(now[k]) => k = 1 /\ now[k] = SetState(u, "Initiating")
<1> DEFINE a == SetState(u, "Initiating")
           b == PeerSocket(UserOf[u])
           now == StartUpload(u)
<1>1. /\ a \in Call /\ a.op = "setState"
      /\ b \in Call /\ b.op = "peerSocket" /\ ~Progresses(b)
      /\ CheckUploads \in Call /\ CheckUploads.op = "check" /\ ~Progresses(CheckUploads)
  BY FrameTypes, StateKinds, CallKinds DEF UploadAssumption, SetState
<1>2. /\ now \in Seq(Call) /\ Len(now) = 3
      /\ now[1] = a /\ now[2] = b /\ now[3] = CheckUploads
  BY <1>1, FewCalls, TupleElements DEF StartUpload
<1> HIDE DEF now, a, b
<1>3. \A k \in 1 .. Len(now) : \/ k = 1 /\ now[k] = a
                               \/ now[k] = b
                               \/ now[k] = CheckUploads
  BY <1>2
<1>4. Severed(now) /\ Scanless(now)
  BY <1>1, <1>3 DEF Severed, Scanless
<1>5. Checks(now)
  BY <1>1, <1>2 DEF Checks
<1>6. \A k \in 1 .. Len(now) : Progresses(now[k]) => k = 1 /\ now[k] = a
  BY <1>1, <1>3
<1> QED BY <1>2, <1>4, <1>5, <1>6 DEF a, now

LEMMA AskingCalls ==
  ASSUME NEW u \in Uploads
  PROVE  LET now == <<SetState(u, "Waiting"), CheckUploads>>
         IN  /\ now \in Seq(Call) /\ Severed(now) /\ Scanless(now) /\ Checks(now)
             /\ \A k \in 1 .. Len(now) : Progresses(now[k]) => k = 1 /\ now[k] = SetState(u, "Waiting")
<1> DEFINE a == SetState(u, "Waiting")
           now == <<a, CheckUploads>>
<1>1. /\ a \in Call /\ a.op = "setState"
      /\ CheckUploads \in Call /\ CheckUploads.op = "check" /\ ~Progresses(CheckUploads)
  BY FrameTypes, StateKinds, CallKinds DEF SetState
<1> HIDE DEF a
<1>2. /\ now \in Seq(Call) /\ Len(now) = 2 /\ now[2] = CheckUploads
      /\ \A k \in 1 .. Len(now) : (k = 1 /\ now[k] = a) \/ (k = 2 /\ now[k] = CheckUploads)
  BY <1>1, TwoLeft
<1> HIDE DEF now
<1>3. Severed(now) /\ Scanless(now) /\ Checks(now)
  BY <1>1, <1>2 DEF Severed, Scanless, Checks
<1>4. \A k \in 1 .. Len(now) : Progresses(now[k]) => k = 1 /\ now[k] = a
  BY <1>1, <1>2
<1> QED BY <1>2, <1>3, <1>4 DEF a, now

LEMMA ServingCalls ==
  ASSUME NEW u \in Uploads
  PROVE  LET now == <<SetState(u, "Establishing"), SetState(u, "Waiting")>>
         IN  /\ now \in Seq(Call) /\ Severed(now) /\ Scanless(now)
             /\ Len(now) = 2 /\ now[1] = SetState(u, "Establishing")
             /\ \A k \in 1 .. Len(now) : \/ k = 1 /\ now[k] = SetState(u, "Establishing")
                                         \/ k = 2 /\ now[k] = SetState(u, "Waiting")
<1> DEFINE a == SetState(u, "Establishing")
           b == SetState(u, "Waiting")
           now == <<a, b>>
<1>1. a \in Call /\ a.op = "setState" /\ b \in Call /\ b.op = "setState"
  BY FrameTypes, StateKinds DEF SetState
<1> HIDE DEF a, b
<1>2. /\ now \in Seq(Call) /\ Len(now) = 2 /\ now[1] = a
      /\ \A k \in 1 .. Len(now) : (k = 1 /\ now[k] = a) \/ (k = 2 /\ now[k] = b)
  BY <1>1, TwoLeft
<1> HIDE DEF now
<1>3. Severed(now) /\ Scanless(now)
  BY <1>1, <1>2 DEF Severed, Scanless
<1> QED BY <1>2, <1>3 DEF a, b, now

LEMMA TakingCalls ==
  ASSUME NEW u \in Uploads, NEW next \in Call, next.op = "reply"
  PROVE  LET now == <<SetState(u, "Establishing"), SetState(u, "Waiting"), next>>
         IN  /\ now \in Seq(Call) /\ Severed(now) /\ Scanless(now)
             /\ Len(now) = 3 /\ now[1] = SetState(u, "Establishing")
             /\ ~Progresses(next)
             /\ \A k \in 1 .. Len(now) : \/ k = 1 /\ now[k] = SetState(u, "Establishing")
                                         \/ k = 2 /\ now[k] = SetState(u, "Waiting")
                                         \/ k = 3 /\ now[k] = next
<1> DEFINE a == SetState(u, "Establishing")
           b == SetState(u, "Waiting")
           now == <<a, b, next>>
<1>1. a \in Call /\ a.op = "setState" /\ b \in Call /\ b.op = "setState" /\ ~Progresses(next)
  BY FrameTypes, StateKinds DEF SetState, Progresses
<1> HIDE DEF a, b
<1>2. /\ now \in Seq(Call) /\ Len(now) = 3 /\ now[1] = a
      /\ \A k \in 1 .. Len(now) : (k = 1 /\ now[k] = a) \/ (k = 2 /\ now[k] = b) \/ (k = 3 /\ now[k] = next)
  BY <1>1, ThreeLeft
<1> HIDE DEF now
<1>3. Severed(now) /\ Scanless(now)
  BY <1>1, <1>2 DEF Severed, Scanless
<1> QED BY <1>1, <1>2, <1>3 DEF a, b, now

\* The fields of an assignment that leads to progress.
LEMMA ProgressFields ==
  \A u \in Uploads, s \in ActiveStates :
    Progresses(SetState(u, s)) /\ SetState(u, s).up = u /\ SetState(u, s).st = s
  BY DEF SetState, Progresses

LEMMA KnownUploads ==
  ASSUME TypeOK
  PROVE  Known \subseteq Uploads
  BY LenProperties, ElementOfSeq DEF TypeOK, Known, Range

\* What assigning m_State does.
LEMMA AssigningFacts ==
  ASSUME UploadAssumption, TypeOK, calls # <<>>, Top \in Call, Assigning
  PROVE  LET u == Top.up
             s == Top.st
             now == Aftermath(u, s)
         IN  /\ Top = calls[1] /\ 1 \in 1 .. Len(calls) /\ u \in Uploads /\ s \in TrStates
             /\ state' = [state EXCEPT ![u] = s] /\ state'[u] = s
             /\ \A v \in Uploads : socket'[v] = socket[v] \/ (v = u /\ socket'[v] = "none")
             /\ s \in ActiveStates => socket' = socket
             /\ UNCHANGED <<uploads, replyTimer, config>>
             /\ Return(now) /\ Steady(now) /\ Scanless(now)
             /\ s \notin ActiveStates => Checks(now)
             /\ s \in ActiveStates <=> Progresses(calls[1])
             /\ \A v : Ends(Top, v) => v = u
<1> DEFINE u == Top.up
           s == Top.st
           now == Aftermath(u, s)
<1>1. Top = calls[1] /\ 1 \in 1 .. Len(calls) /\ u \in Uploads /\ s \in TrStates
  BY CallFields, LenProperties DEF Top, TypeOK, Assigning
<1>2. Steady(now) /\ Scanless(now) /\ (s \notin ActiveStates => Checks(now))
  BY <1>1, SteadyAftermath
<1>3. /\ state' = [state EXCEPT ![u] = s] /\ state'[u] = s
      /\ \A v \in Uploads : socket'[v] = socket[v] \/ (v = u /\ socket'[v] = "none")
      /\ UNCHANGED <<uploads, replyTimer, config>> /\ Return(now)
  BY <1>1 DEF Assigning, Enter, world, TypeOK
<1>4. s \in ActiveStates => socket' = socket
  BY DEF Assigning, Enter, ActiveStates, InitiatingStates, SeveringStates, EndStates
<1>5. s \in ActiveStates <=> Progresses(calls[1])
  BY <1>1 DEF Assigning, Progresses
<1>6. \A v : Ends(Top, v) => v = u
  BY DEF Assigning, Ends, Assigns
<1> HIDE DEF now
<1> QED BY <1>1, <1>2, <1>3, <1>4, <1>5, <1>6 DEF now

-----------------------------------------------------------------------------
(* The waits.                                                              *)

LEMMA PassingWaits ==
  ASSUME TypeOK, CallsInvariant, WaitsInvariant, calls # <<>>, NEW now, Passes(now)
  PROVE  WaitsInvariant'
<1>1. /\ calls \in Seq(Call) /\ now \in Seq(Call) /\ Return(now) /\ Steady(now) /\ Severed(now)
      /\ UNCHANGED <<uploads, state, socket, replyTimer>> /\ Known' = Known
      /\ ProgressOnTop /\ Top = calls[1]
  BY StackOver DEF Passes, Steady, queue, TypeOK, CallsInvariant, Known
<1>2. TimerExcludesSocket'
  BY <1>1 DEF WaitsInvariant, TimerExcludesSocket
<1>3. InitiatingHasNoSocket'
  <2> SUFFICES ASSUME NEW u \in Uploads, state[u] = "Initiating", socket[u] # "none"
               PROVE  FALSE
    BY <1>1 DEF InitiatingHasNoSocket
  <2>1. Top = SetState(u, "Establishing")
    BY <1>1 DEF WaitsInvariant, InitiatingHasNoSocket
  <2> QED BY <2>1 DEF Passes
<1>4. ProgressIsTimed'
  <2> SUFFICES ASSUME NEW k \in 1 .. Len(calls'), Progresses(calls'[k])
               PROVE  LET u == calls'[k].up
                          s == calls'[k].st
                      IN  /\ s = "Initiating" => socket'[u] = "none"
                          /\ s = "Waiting" => replyTimer'[u] \/ socket'[u] # "none"
                          /\ k = 2 => s = "Waiting"
    BY DEF ProgressIsTimed, Progresses
  <2>1. 2 \in 1 .. Len(calls) /\ calls'[k] = calls[2] /\ Progresses(calls[2])
    BY <1>1, StackProgress
  <2> QED BY <1>1, <2>1 DEF WaitsInvariant, ProgressIsTimed
<1>5. Severed(calls')
  BY <1>1, StackSevered DEF WaitsInvariant
<1>6. WaitIsTimed'
  <2> SUFFICES ASSUME NEW u \in Known, state[u] = "Waiting", ~replyTimer[u], socket[u] = "none"
               PROVE  Pending(calls', u)
    BY <1>1 DEF WaitIsTimed, Pending, Ends, Assigns
  <2>1. u \in Uploads /\ Pending(calls, u)
    BY KnownUploads DEF WaitsInvariant, WaitIsTimed
  <2>2. Ends(Top, u) => Pending(now, u)
    BY <2>1 DEF Passes
  <2> QED BY <1>1, <2>1, <2>2, StackPending
<1> QED BY <1>2, <1>3, <1>4, <1>5, <1>6 DEF WaitsInvariant, Severed, Ends, Assigns

LEMMA AssigningWaits ==
  ASSUME UploadAssumption, TypeOK, CallsInvariant, WaitsInvariant, calls # <<>>, Top \in Call, Assigning
  PROVE  WaitsInvariant'
<1> DEFINE u == Top.up
           s == Top.st
           now == Aftermath(u, s)
<1>1. /\ Top = calls[1] /\ 1 \in 1 .. Len(calls) /\ u \in Uploads /\ s \in TrStates
      /\ state' = [state EXCEPT ![u] = s] /\ state'[u] = s
      /\ \A v \in Uploads : socket'[v] = socket[v] \/ (v = u /\ socket'[v] = "none")
      /\ s \in ActiveStates => socket' = socket
      /\ UNCHANGED <<uploads, replyTimer, config>>
      /\ Return(now) /\ Steady(now)
      /\ s \in ActiveStates <=> Progresses(calls[1])
      /\ \A v : Ends(Top, v) => v = u
  BY AssigningFacts
<1> HIDE DEF now
<1>2. calls \in Seq(Call) /\ now \in Seq(Call) /\ Severed(now) /\ Known' = Known /\ ProgressOnTop
  BY <1>1 DEF Steady, TypeOK, CallsInvariant, Known
<1>3. TimerExcludesSocket'
  BY <1>1 DEF WaitsInvariant, TimerExcludesSocket
<1>4. InitiatingHasNoSocket'
  <2> SUFFICES ASSUME NEW v \in Uploads, state'[v] = "Initiating", socket'[v] # "none"
               PROVE  FALSE
    BY DEF InitiatingHasNoSocket
  <2>1. CASE v = u
    <3>1. s = "Initiating" /\ Progresses(calls[1])
      BY <1>1, <2>1, StateKinds
    <3> QED BY <1>1, <2>1, <3>1 DEF WaitsInvariant, ProgressIsTimed
  <2>2. CASE v # u
    <3>1. state[v] = "Initiating" /\ socket[v] # "none"
      BY <1>1, <2>2 DEF TypeOK
    <3>2. Top = SetState(v, "Establishing")
      BY <1>1, <3>1 DEF WaitsInvariant, InitiatingHasNoSocket
    <3> QED BY <2>2, <3>2 DEF SetState
  <2> QED BY <2>1, <2>2
<1>5. ProgressIsTimed'
  <2> SUFFICES ASSUME NEW k \in 1 .. Len(calls'), Progresses(calls'[k])
               PROVE  LET v == calls'[k].up
                          r == calls'[k].st
                      IN  /\ r = "Initiating" => socket'[v] = "none"
                          /\ r = "Waiting" => replyTimer'[v] \/ socket'[v] # "none"
                          /\ k = 2 => r = "Waiting"
    BY DEF ProgressIsTimed, Progresses
  <2>1. /\ 2 \in 1 .. Len(calls) /\ calls'[k] = calls[2] /\ Progresses(calls[2])
        /\ Top = SetState(calls[2].up, "Establishing")
    BY <1>1, <1>2, StackProgress
  <2>2. socket' = socket
    BY <1>1, <2>1, StateKinds DEF SetState
  <2> QED BY <1>1, <2>1, <2>2 DEF WaitsInvariant, ProgressIsTimed
<1>6. Severed(calls')
  BY <1>1, <1>2, StackSevered DEF WaitsInvariant
<1>7. WaitIsTimed'
  <2> SUFFICES ASSUME NEW v \in Known, state'[v] = "Waiting", ~replyTimer[v], socket'[v] = "none"
               PROVE  Pending(calls', v)
    BY <1>1, <1>2 DEF WaitIsTimed, Pending, Ends, Assigns
  <2>0. v \in Uploads
    BY KnownUploads
  <2>1. CASE v = u
    <3>1. s = "Waiting" /\ Progresses(calls[1]) /\ socket' = socket
      BY <1>1, <2>1, StateKinds
    <3> QED BY <1>1, <2>1, <3>1 DEF WaitsInvariant, ProgressIsTimed
  <2>2. CASE v # u
    <3>1. state[v] = "Waiting" /\ socket[v] = "none"
      BY <1>1, <2>0, <2>2 DEF TypeOK
    <3>2. Pending(calls, v) /\ ~Ends(Top, v)
      BY <1>1, <2>2, <3>1 DEF WaitsInvariant, WaitIsTimed
    <3> QED BY <1>1, <1>2, <2>0, <3>2, StackPending
  <2> QED BY <2>1, <2>2
<1> QED BY <1>3, <1>4, <1>5, <1>6, <1>7 DEF WaitsInvariant, Severed, Ends, Assigns

\* What the other kinds of calls have in common.
LEMMA UnassigningFacts ==
  ASSUME TypeOK, CallsInvariant, WaitsInvariant, calls # <<>>,
         Top.op \notin {"setState", "enterState", "disconnected", "abortRest"},
         NEW now \in Seq(Call), Severed(now), Return(now)
  PROVE  /\ Severed(calls')
         /\ \A u \in Uploads : Pending(calls, u) => Pending(calls', u)
         /\ \A u \in Uploads : state[u] = "Initiating" => socket[u] = "none"
         /\ \A k \in 1 .. Len(calls') : Progresses(calls'[k]) => k \in 1 .. Len(now) /\ calls'[k] = now[k]
<1>1. Severed(calls')
  BY StackSevered DEF WaitsInvariant, TypeOK
<1>2. \A u : ~Ends(Top, u)
  BY DEF Ends, Assigns
<1>3. \A u \in Uploads : Pending(calls, u) => Pending(calls', u)
  BY <1>2, StackPending DEF TypeOK
<1>4. \A u \in Uploads : state[u] = "Initiating" => socket[u] = "none"
  BY NoAssignmentOnTop, StackOver DEF WaitsInvariant, InitiatingHasNoSocket, TypeOK
<1>5. \A k \in 1 .. Len(calls') : Progresses(calls'[k]) => k \in 1 .. Len(now) /\ calls'[k] = now[k]
  BY StackNew
<1> QED BY <1>1, <1>3, <1>4, <1>5

LEMMA StartingWaits ==
  ASSUME UploadAssumption, TypeOK, CallsInvariant, WaitsInvariant, calls # <<>>, NEW u \in Uploads, Starting(u)
  PROVE  WaitsInvariant'
<1> DEFINE now == StartUpload(u)
<1>1. /\ now \in Seq(Call) /\ Severed(now)
      /\ \A k \in 1 .. Len(now) : Progresses(now[k]) => k = 1 /\ now[k] = SetState(u, "Initiating")
  BY StartingCalls
<1>2. /\ Return(now) /\ UNCHANGED <<uploads, state, socket, replyTimer>> /\ Known' = Known
      /\ socket[u] = "none" /\ Top.op \in {"check", "scan"}
  BY DEF Starting, queue, Known
<1> HIDE DEF now
<1>3. /\ Severed(calls')
      /\ \A v \in Uploads : Pending(calls, v) => Pending(calls', v)
      /\ \A v \in Uploads : state[v] = "Initiating" => socket[v] = "none"
      /\ \A k \in 1 .. Len(calls') : Progresses(calls'[k]) => k \in 1 .. Len(now) /\ calls'[k] = now[k]
  BY <1>1, <1>2, UnassigningFacts
<1>4. TimerExcludesSocket' /\ InitiatingHasNoSocket'
  BY <1>2, <1>3 DEF WaitsInvariant, TimerExcludesSocket, InitiatingHasNoSocket
<1>5. ProgressIsTimed'
  BY <1>1, <1>2, <1>3 DEF ProgressIsTimed, Progresses, SetState
<1>6. WaitIsTimed'
  BY <1>2, <1>3, KnownUploads DEF WaitsInvariant, WaitIsTimed, Pending, Ends, Assigns
<1> QED BY <1>3, <1>4, <1>5, <1>6 DEF WaitsInvariant, Severed, Ends, Assigns

LEMMA AskingWaits ==
  ASSUME UploadAssumption, TypeOK, CallsInvariant, WaitsInvariant, calls # <<>>, NEW u \in Uploads, Asking(u)
  PROVE  WaitsInvariant'
<1> DEFINE now == <<SetState(u, "Waiting"), CheckUploads>>
<1>1. /\ now \in Seq(Call) /\ Severed(now)
      /\ \A k \in 1 .. Len(now) : Progresses(now[k]) => k = 1 /\ now[k] = SetState(u, "Waiting")
  BY AskingCalls
<1>2. /\ Return(now) /\ UNCHANGED <<uploads, state, socket>> /\ Known' = Known
      /\ replyTimer' = [replyTimer EXCEPT ![u] = TRUE] /\ state[u] = "Initiating" /\ Top.op = "initiate"
  BY DEF Asking, queue, Known, Armed
<1> HIDE DEF now
<1>3. /\ Severed(calls')
      /\ \A v \in Uploads : Pending(calls, v) => Pending(calls', v)
      /\ \A v \in Uploads : state[v] = "Initiating" => socket[v] = "none"
      /\ \A k \in 1 .. Len(calls') : Progresses(calls'[k]) => k \in 1 .. Len(now) /\ calls'[k] = now[k]
  BY <1>1, <1>2, UnassigningFacts
<1>4. /\ replyTimer'[u] = TRUE
      /\ \A v \in Uploads : v # u => replyTimer'[v] = replyTimer[v]
  BY <1>2 DEF TypeOK
<1>5. TimerExcludesSocket' /\ InitiatingHasNoSocket'
  BY <1>2, <1>3, <1>4 DEF WaitsInvariant, TimerExcludesSocket, InitiatingHasNoSocket
<1>6. ProgressIsTimed'
  BY <1>1, <1>3, <1>4 DEF ProgressIsTimed, Progresses, SetState
<1>7. WaitIsTimed'
  BY <1>2, <1>3, <1>4, KnownUploads DEF WaitsInvariant, WaitIsTimed, Pending, Ends, Assigns
<1> QED BY <1>3, <1>5, <1>6, <1>7 DEF WaitsInvariant, Severed, Ends, Assigns

LEMMA ServingWaits ==
  ASSUME UploadAssumption, TypeOK, CallsInvariant, WaitsInvariant, calls # <<>>, NEW u \in Uploads, Serving(u)
  PROVE  WaitsInvariant'
<1> DEFINE now == <<SetState(u, "Establishing"), SetState(u, "Waiting")>>
<1>1. /\ now \in Seq(Call) /\ Severed(now) /\ Len(now) = 2 /\ now[1] = SetState(u, "Establishing")
      /\ \A k \in 1 .. Len(now) : \/ k = 1 /\ now[k] = SetState(u, "Establishing")
                                  \/ k = 2 /\ now[k] = SetState(u, "Waiting")
  BY ServingCalls
<1>2. /\ Return(now) /\ UNCHANGED <<uploads, state>> /\ Known' = Known /\ Top.op = "legacyRest"
      /\ socket' = [socket EXCEPT ![u] = "ticket"] /\ replyTimer' = [replyTimer EXCEPT ![u] = FALSE]
  BY DEF Serving, queue, Known, Cancelled
<1> HIDE DEF now
<1>3. /\ Severed(calls')
      /\ \A v \in Uploads : Pending(calls, v) => Pending(calls', v)
      /\ \A v \in Uploads : state[v] = "Initiating" => socket[v] = "none"
      /\ \A k \in 1 .. Len(calls') : Progresses(calls'[k]) => k \in 1 .. Len(now) /\ calls'[k] = now[k]
  BY <1>1, <1>2, UnassigningFacts
<1>4. /\ socket'[u] = "ticket" /\ replyTimer'[u] = FALSE
      /\ \A v \in Uploads : v # u => replyTimer'[v] = replyTimer[v] /\ socket'[v] = socket[v]
  BY <1>2 DEF TypeOK
<1>5. calls' # <<>> /\ calls'[1] = SetState(u, "Establishing")
  <2>1. 1 \in 1 .. Len(now)
    BY <1>1
  <2>2. calls \in Seq(Call)
    BY DEF TypeOK
  <2>3. \A k \in 1 .. Len(now) : k \in 1 .. Len(calls') /\ calls'[k] = now[k]
    BY <1>1, <1>2, <2>2, StackOver
  <2>4. calls'[1] = SetState(u, "Establishing") /\ 1 \in 1 .. Len(calls')
    BY <1>1, <2>1, <2>3
  <2>5. calls' # <<>>
    BY <2>4, FewCalls
  <2> QED BY <2>4, <2>5
<1>6. TimerExcludesSocket' /\ InitiatingHasNoSocket'
  <2>1. TimerExcludesSocket'
    BY <1>4 DEF WaitsInvariant, TimerExcludesSocket
  <2>2. InitiatingHasNoSocket'
    BY <1>2, <1>3, <1>4, <1>5 DEF InitiatingHasNoSocket, SetState
  <2> QED BY <2>1, <2>2
<1>7. ProgressIsTimed'
  BY <1>1, <1>3, <1>4 DEF ProgressIsTimed, Progresses, SetState
<1>8. WaitIsTimed'
  BY <1>2, <1>3, <1>4, KnownUploads DEF WaitsInvariant, WaitIsTimed, Pending, Ends, Assigns
<1> QED BY <1>3, <1>6, <1>7, <1>8 DEF WaitsInvariant, Severed, Ends, Assigns

LEMMA TakingWaits ==
  ASSUME UploadAssumption, TypeOK, CallsInvariant, WaitsInvariant, calls # <<>>, NEW u \in Uploads, Taking(u)
  PROVE  WaitsInvariant'
<1>0. PICK next \in Call : /\ next.op = "reply"
                           /\ Return(<<SetState(u, "Establishing"), SetState(u, "Waiting"), next>>)
  BY DEF Taking
<1> DEFINE now == <<SetState(u, "Establishing"), SetState(u, "Waiting"), next>>
<1>1. /\ now \in Seq(Call) /\ Severed(now)
      /\ ~Progresses(next)
      /\ \A k \in 1 .. Len(now) : \/ k = 1 /\ now[k] = SetState(u, "Establishing")
                                  \/ k = 2 /\ now[k] = SetState(u, "Waiting")
                                  \/ k = 3 /\ now[k] = next
  BY <1>0, TakingCalls
<1>2. /\ Return(now) /\ UNCHANGED <<uploads, state>> /\ Known' = Known /\ Top.op = "reply" /\ state[u] = "Waiting"
      /\ socket' = [socket EXCEPT ![u] = "connect"] /\ replyTimer' = [replyTimer EXCEPT ![u] = FALSE]
  BY <1>0 DEF Taking, queue, Known, Cancelled
<1> HIDE DEF now
<1>3. /\ Severed(calls')
      /\ \A v \in Uploads : Pending(calls, v) => Pending(calls', v)
      /\ \A v \in Uploads : state[v] = "Initiating" => socket[v] = "none"
      /\ \A k \in 1 .. Len(calls') : Progresses(calls'[k]) => k \in 1 .. Len(now) /\ calls'[k] = now[k]
  BY <1>1, <1>2, UnassigningFacts
<1>4. /\ socket'[u] = "connect" /\ replyTimer'[u] = FALSE
      /\ \A v \in Uploads : v # u => replyTimer'[v] = replyTimer[v] /\ socket'[v] = socket[v]
  BY <1>2 DEF TypeOK
<1>5. TimerExcludesSocket' /\ InitiatingHasNoSocket'
  <2>1. TimerExcludesSocket'
    BY <1>4 DEF WaitsInvariant, TimerExcludesSocket
  <2>2. InitiatingHasNoSocket'
    BY <1>2, <1>3, <1>4 DEF InitiatingHasNoSocket
  <2> QED BY <2>1, <2>2
<1>6. ProgressIsTimed'
  BY <1>1, <1>3, <1>4 DEF ProgressIsTimed, Progresses, SetState
<1>7. WaitIsTimed'
  BY <1>2, <1>3, <1>4, KnownUploads DEF WaitsInvariant, WaitIsTimed, Pending, Ends, Assigns
<1> QED BY <1>3, <1>5, <1>6, <1>7 DEF WaitsInvariant, Severed, Ends, Assigns

LEMMA ReleasingWaits ==
  ASSUME UploadAssumption, TypeOK, CallsInvariant, WaitsInvariant, calls # <<>>, Top \in Call,
         Releasing \/ Erasing
  PROVE  WaitsInvariant'
<1> DEFINE u == Top.up
           now == <<>>
<1>1. /\ now \in Seq(Call) /\ Severed(now) /\ Steady(now) /\ Return(now) /\ UNCHANGED state
      /\ Top.op \in {"release", "erase"} /\ u \in Uploads
      /\ \A k \in 1 .. Len(now) : FALSE
  <2>1. Return(now) /\ UNCHANGED state /\ Top.op \in {"release", "erase"}
    BY DEF Releasing, Erasing, queue
  <2>2. Steady(now) /\ Len(now) = 0
    BY SteadyNone, TupleElements
  <2> HIDE DEF now
  <2> QED BY <2>1, <2>2, CallFields DEF Steady
<1> HIDE DEF now
<1>2. /\ Severed(calls')
      /\ \A v \in Uploads : Pending(calls, v) => Pending(calls', v)
      /\ \A v \in Uploads : state[v] = "Initiating" => socket[v] = "none"
      /\ \A k \in 1 .. Len(calls') : ~Progresses(calls'[k])
  BY <1>1, UnassigningFacts
<1>3. /\ \A v \in Uploads : socket'[v] = socket[v] \/ (v = u /\ Releasing /\ socket'[v] = "none")
      /\ \A v \in Uploads : replyTimer'[v] = replyTimer[v] \/ (v = u /\ Erasing /\ ~replyTimer'[v])
      /\ Known' \subseteq Known /\ (Erasing => u \notin Known')
  BY <1>1 DEF Releasing, Erasing, TypeOK, queue, Known
<1>4. TimerExcludesSocket' /\ InitiatingHasNoSocket'
  BY <1>1, <1>2, <1>3 DEF WaitsInvariant, TimerExcludesSocket, InitiatingHasNoSocket
<1>5. ProgressIsTimed'
  BY <1>2 DEF ProgressIsTimed, Progresses
<1>6. WaitIsTimed'
  <2> SUFFICES ASSUME NEW v \in Known', state[v] = "Waiting", ~replyTimer'[v], socket'[v] = "none"
               PROVE  Pending(calls', v)
    BY <1>1 DEF WaitIsTimed, Pending, Ends, Assigns
  <2>1. v \in Uploads /\ v \in Known
    BY <1>3, KnownUploads
  <2>2. CASE v = u /\ Releasing
    <3>1. Top = calls[1] /\ 1 \in 1 .. Len(calls) /\ Len(calls) \in Nat
      BY <1>1, StackOver DEF TypeOK
    <3>2. PICK j \in 2 .. Len(calls) : Ends(calls[j], v)
      BY <2>2, <3>1 DEF Releasing, WaitsInvariant, Severed
    <3>3. Pending(calls, v)
      BY <3>1, <3>2 DEF Pending
    <3> QED BY <1>2, <2>1, <3>3
  <2>3. CASE ~(v = u /\ Releasing)
    <3>1. socket[v] = "none" /\ ~replyTimer[v]
      BY <1>3, <2>1, <2>3
    <3> QED BY <1>2, <2>1, <3>1 DEF WaitsInvariant, WaitIsTimed
  <2> QED BY <2>2, <2>3
<1> QED BY <1>2, <1>4, <1>5, <1>6 DEF WaitsInvariant, Severed, Ends, Assigns

\* Every step of a handler keeps the invariant of the waits.
LEMMA StepWaits ==
  ASSUME UploadAssumption, TypeOK, CallsInvariant, WaitsInvariant, Step
  PROVE  WaitsInvariant'
<1>1. Handled
  BY StepKinds
<1> QED BY <1>1, PassingWaits, AssigningWaits, StartingWaits, AskingWaits, ServingWaits, TakingWaits,
             ReleasingWaits
        DEF Handled

-----------------------------------------------------------------------------
(* The kinds of events.                                                    *)

\* Only calls are pushed, which start no upload; a timer is taken out only for an upload
\* that is to end, and the number of slots changes only when the queue is to be checked.
Calm ==
  /\ Steady(calls') /\ Scanless(calls')
  /\ UNCHANGED <<uploads, state, socket, uploading>>
  /\ \A u \in Uploads : replyTimer'[u] = replyTimer[u] \/ (~replyTimer'[u] /\ Pending(calls', u))
  /\ config'.slots = config.slots \/ Checks(calls')

\* add() makes a new upload.
Adding(u) ==
  /\ Steady(calls') /\ Scanless(calls')
  /\ Known' = Known \union {u} /\ u \notin Known
  /\ state' = [state EXCEPT ![u] = "Offline"]
  /\ socket' = [socket EXCEPT ![u] = "none"]
  /\ UNCHANGED <<uploading, replyTimer, config>>

\* The position of the peer is taken: the upload is transferred.
Going(u) ==
  /\ calls' = <<SetState(u, "Transferring")>>
  /\ state[u] = "Waiting" /\ socket[u] # "none"
  /\ UNCHANGED <<queue, socket, replyTimer>>

Happened == calls = <<>> /\ (Calm \/ \E u \in Uploads : Adding(u) \/ Going(u))

\* An event that changes nothing the invariants look at, but the calls.
LEMMA CalmEvent ==
  ASSUME calls = <<>>, Steady(calls'), Scanless(calls'),
         UNCHANGED <<uploads, state, socket, uploading, replyTimer>>,
         config'.slots = config.slots \/ Checks(calls')
  PROVE  Happened
  BY DEF Happened, Calm

\* add(), and what a request does after it.
LEMMA AddKind ==
  ASSUME UploadAssumption, TypeOK, Idle, NEW u \in Uploads, NEW forced \in BOOLEAN,
         NEW rest \in {<<>>, <<[op |-> "legacyRest", up |-> u]>>}, Add(u, forced, rest)
  PROVE  Happened
<1> DEFINE q == SetState(u, "QueuedLocally")
           r == [op |-> "legacyRest", up |-> u]
<1>1. /\ q \in Call /\ ~Progresses(q) /\ q.op = "setState"
      /\ r \in Call /\ ~Progresses(r) /\ r.op = "legacyRest"
  <2>1. "QueuedLocally" \in TrStates \ ActiveStates
    BY StateKinds
  <2>2. q \in Call /\ ~Progresses(q) /\ q.op = "setState"
    BY <2>1, FrameTypes, CallKinds
  <2> HIDE DEF q
  <2> QED BY <2>2, FrameTypes, CallKinds
<1>2. calls = <<>> /\ calls' \in {<<q>> \o rest, <<>> \o rest} /\ UNCHANGED <<uploading, replyTimer, config>>
  BY DEF Add, Idle, registry, world
<1> HIDE DEF q, r
<1>3. Steady(calls') /\ Scanless(calls')
  <2>1. <<q>> \in Seq(Call) /\ <<r>> \in Seq(Call)
    BY <1>1, FewCalls
  <2>2. CASE rest = <<>>
    <3>1. <<q>> \o <<>> = <<q>> /\ <<>> \o <<>> = <<>>
      BY <2>1, FewCalls, ConcatEmptySeq
    <3>2. calls' = <<q>> \/ calls' = <<>>
      BY <1>2, <2>2, <3>1
    <3>3. Steady(<<q>>) /\ Scanless(<<q>>)
      BY <1>1, SteadyOne
    <3> QED BY <3>2, <3>3, SteadyNone
  <2>3. CASE rest = <<r>>
    <3>1. <<>> \o <<r>> = <<r>>
      BY <2>1, ConcatEmptySeq
    <3>2. <<q>> \o <<r>> = Append(<<q>>, r)
      BY <1>1, <2>1, AppendIsConcat
    <3>3. Steady(<<q>>) /\ Scanless(<<q>>) /\ Steady(<<r>>) /\ Scanless(<<r>>)
      BY <1>1, SteadyOne
    <3>4. Steady(Append(<<q>>, r)) /\ Scanless(Append(<<q>>, r))
      BY <1>1, <3>3, SteadyMore
    <3> QED BY <1>2, <2>3, <3>1, <3>2, <3>3, <3>4
  <2> QED BY <2>2, <2>3 DEF r
<1>4. CASE Found(u)
  <2>1. UNCHANGED <<uploads, state, socket>>
    BY <1>4 DEF Add
  <2> QED BY <1>2, <1>3, <2>1, CalmEvent
<1>5. CASE ~Found(u)
  <2>1. /\ uploads' = Append(uploads, u) /\ u \notin Known
        /\ state' = [state EXCEPT ![u] = "Offline"]
        /\ socket' = [socket EXCEPT ![u] = "none"]
    BY <1>5 DEF Add, Found
  <2>2. /\ uploads' \in Seq(Uploads) /\ Len(uploads') = Len(uploads) + 1 /\ Len(uploads) \in Nat
        /\ \A k \in 1 .. Len(uploads) : uploads'[k] = uploads[k]
        /\ uploads'[Len(uploads) + 1] = u
    BY <2>1, AppendProperties, LenProperties DEF TypeOK
  <2>3. Known' = Known \union {u}
    <3>1. DOMAIN uploads = 1 .. Len(uploads) /\ DOMAIN uploads' = 1 .. Len(uploads')
      BY <2>2, LenProperties DEF TypeOK
    <3>2. Known' = {uploads'[k] : k \in 1 .. Len(uploads')} /\ Known = {uploads[k] : k \in 1 .. Len(uploads)}
      BY <3>1 DEF Known, Range
    <3>3. 1 .. Len(uploads') = (1 .. Len(uploads)) \union {Len(uploads) + 1}
      BY <2>2
    <3> QED BY <2>2, <3>2, <3>3
  <2>4. Adding(u)
    BY <1>2, <1>3, <2>1, <2>2, <2>3 DEF Adding
  <2> QED BY <1>2, <2>4 DEF Happened
<1> QED BY <1>4, <1>5

\* Requests, replies and the transfer sockets.
LEMMA UploadEventKinds ==
  ASSUME UploadAssumption, TypeOK, NEW u \in Uploads, UploadEvent(u)
  PROVE  Happened
<1>1. CASE QueueRequested(u) \/ UploadFile(u)
  <2>1. Idle /\ \E forced \in BOOLEAN : Add(u, forced, <<>>)
    BY <1>1 DEF QueueRequested, UploadFile
  <2> QED BY <2>1, AddKind
<1>2. CASE LegacyRequest(u)
  <2>1. Idle /\ Add(u, FALSE, <<[op |-> "legacyRest", up |-> u]>>)
    BY <1>2 DEF LegacyRequest
  <2> QED BY <2>1, AddKind
<1>0. /\ \A s \in SeveringStates : Steady(Fail(u, s)) /\ Scanless(Fail(u, s)) /\ Pending(Fail(u, s), u)
      /\ Steady(AbortCalls(u)) /\ Scanless(AbortCalls(u))
  <2>1. \A s \in SeveringStates : s \in TrStates \ ActiveStates
    BY StateKinds DEF SeveringStates
  <2>2. /\ [op |-> "abortRest", up |-> u] \in Call /\ ~Progresses([op |-> "abortRest", up |-> u])
        /\ Ends([op |-> "abortRest", up |-> u], u)
    BY FrameTypes, CallKinds
  <2>3. [op |-> "abortRest", up |-> u].op = "abortRest"
    OBVIOUS
  <2> QED BY <2>1, <2>2, <2>3, SteadyFail, SteadyDrop DEF AbortCalls
<1>3. CASE AbortUpload(u)
  <2>1. calls' = AbortCalls(u) /\ calls = <<>> /\ UNCHANGED <<uploads, state, socket, uploading, replyTimer, config>>
    BY <1>3 DEF AbortUpload, Event, Idle, objects, registry, world
  <2> QED BY <1>0, <2>1, CalmEvent
<1>4. CASE RemoveUpload(u)
  <2>1. /\ calls' = <<[op |-> "remove", up |-> u]>> /\ calls = <<>>
        /\ UNCHANGED <<uploads, state, socket, uploading, replyTimer, config>>
    BY <1>4 DEF RemoveUpload, Event, Idle, objects, registry, world
  <2>2. [op |-> "remove", up |-> u] \in Call /\ ~Progresses([op |-> "remove", up |-> u])
    BY FrameTypes, CallKinds
  <2>3. Steady(calls') /\ Scanless(calls')
    BY <2>1, <2>2, SteadyOne
  <2> QED BY <2>1, <2>3, CalmEvent
<1>5. ASSUME NEW allowed \in BOOLEAN, TransferReply(u, allowed)
      PROVE  Happened
  <2>1. PICK n \in Subscriptions : calls' = <<Reply(u, allowed, n)>>
    BY <1>5 DEF TransferReply, Event
  <2>2. calls = <<>> /\ UNCHANGED <<uploads, state, socket, uploading, replyTimer, config>>
    BY <1>5 DEF TransferReply, Event, Idle, registry, world
  <2>3. Reply(u, allowed, n) \in Call
    BY FrameTypes DEF Subscriptions
  <2>4. ~Progresses(Reply(u, allowed, n)) /\ Reply(u, allowed, n).op = "reply"
    BY DEF Reply, Progresses
  <2>5. Steady(calls') /\ Scanless(calls')
    BY <2>1, <2>3, <2>4, SteadyOne
  <2> QED BY <2>2, <2>5, CalmEvent
<1>6. CASE SocketLost(u)
  <2>1. /\ calls' = <<Disconnected(u)>> /\ calls = <<>>
        /\ UNCHANGED <<uploads, state, socket, uploading, replyTimer, config>>
    BY <1>6 DEF SocketLost, Event, Idle, objects, registry, world
  <2>2. Disconnected(u) \in Call /\ ~Progresses(Disconnected(u)) /\ Disconnected(u).op = "disconnected"
    BY FrameTypes, CallKinds
  <2>3. Steady(calls') /\ Scanless(calls')
    BY <2>1, <2>2, SteadyOne
  <2> QED BY <2>1, <2>3, CalmEvent
<1>7. CASE SocketCannotConnect(u)
  <2> DEFINE a == SetState(u, "CannotConnect")
             b == Disconnected(u)
             now == <<a, b>>
  <2>1. /\ calls' = <<>> \/ calls' = now
        /\ calls = <<>> /\ UNCHANGED <<uploads, state, socket, uploading, replyTimer, config>>
    BY <1>7 DEF SocketCannotConnect, Event, Idle, objects, registry, world
  <2>2. /\ a \in Call /\ ~Progresses(a) /\ a.op = "setState"
        /\ b \in Call /\ ~Progresses(b) /\ b.op = "disconnected"
    <3>1. "CannotConnect" \in TrStates \ ActiveStates
      BY StateKinds
    <3>2. a \in Call /\ ~Progresses(a) /\ a.op = "setState"
      BY <3>1, FrameTypes, CallKinds
    <3> HIDE DEF a
    <3> QED BY <3>2, FrameTypes, CallKinds
  <2> HIDE DEF a, b
  <2>3. Steady(now) /\ Scanless(now)
    BY <2>2, SteadyTwo
  <2> HIDE DEF now
  <2> QED BY <2>1, <2>3, SteadyNone, CalmEvent
<1>8. CASE PositionReceived(u)
  <2>1. /\ UNCHANGED <<uploads, state, socket, uploading, replyTimer, config>> /\ calls = <<>>
        /\ state[u] = "Waiting" /\ socket[u] # "none"
        /\ calls' = Fail(u, "LocalError") \/ calls' = <<SetState(u, "Transferring")>>
    BY <1>8 DEF PositionReceived, Event, Idle, registry, world
  <2>2. CASE calls' = Fail(u, "LocalError")
    BY <1>0, <2>1, <2>2, CalmEvent DEF SeveringStates
  <2>3. CASE calls' = <<SetState(u, "Transferring")>>
    BY <2>1, <2>3 DEF Happened, Going, queue
  <2> QED BY <2>1, <2>2, <2>3
<1>9. CASE DataSent(u)
  <2>1. calls' = <<>> /\ calls = <<>> /\ UNCHANGED <<uploads, state, socket, uploading, replyTimer, config>>
    BY <1>9 DEF DataSent, Event, Idle, registry, world
  <2> QED BY <2>1, SteadyNone, CalmEvent
<1>10. CASE ReplyTimeout(u)
  <2>1. /\ calls' = Fail(u, "CannotConnect") /\ calls = <<>>
        /\ UNCHANGED <<uploads, state, socket, uploading, config>>
        /\ replyTimer' = [replyTimer EXCEPT ![u] = FALSE]
    BY <1>10 DEF ReplyTimeout, Event, Idle, registry, world
  <2>2. Steady(calls') /\ Scanless(calls') /\ Pending(calls', u)
    BY <1>0, <2>1 DEF SeveringStates
  <2>3. \A v \in Uploads : replyTimer'[v] = replyTimer[v] \/ (~replyTimer'[v] /\ Pending(calls', v))
    BY <2>1, <2>2 DEF TypeOK
  <2>4. Calm
    BY <2>1, <2>2, <2>3 DEF Calm
  <2> QED BY <2>1, <2>4 DEF Happened
<1> QED BY <1>1, <1>2, <1>3, <1>4, <1>5, <1>6, <1>7, <1>8, <1>9, <1>10 DEF UploadEvent

\* The peers, the server and the configuration.
LEMMA UserEventKinds ==
  ASSUME UploadAssumption, TypeOK, NEW x \in Users, UserEvent(x)
  PROVE  Happened
<1>1. /\ calls = <<>> /\ UNCHANGED <<uploads, state, socket, uploading, replyTimer>>
      /\ config'.slots = config.slots
  <2>1. calls = <<>> /\ UNCHANGED <<uploads, state, socket, uploading, replyTimer>>
    BY DEF UserEvent, PeerReady, PeerConnecting, PeerAsked, PeerUnavailable, PeerOffline, PeerLost, Ban, Unban,
           Event, Idle, objects, registry
  <2>2. config' = config \/ \E b : config' = [config EXCEPT !.banned = b]
    BY DEF UserEvent, PeerReady, PeerConnecting, PeerAsked, PeerUnavailable, PeerOffline, PeerLost, Ban, Unban, world
  <2> QED BY <2>1, <2>2 DEF TypeOK
<1>2. uploading[x] # NoUpload => uploading[x] \in Uploads
  BY DEF TypeOK
<1>3. {x} \in SUBSET Users
  OBVIOUS
<1>4. ASSUME NEW c \in Call, ~Progresses(c), c.op \notin {"release", "scan"}, calls' = <<c>>
      PROVE  Steady(calls') /\ Scanless(calls')
  BY <1>4, SteadyOne
<1>5. \A o \in {"requeueOffline", "peerOffline"} :
        Loop(o, {x}) \in Call /\ ~Progresses(Loop(o, {x})) /\ Loop(o, {x}).op = "loop"
  <2>1. \A o \in {"requeueOffline", "peerOffline"} : Loop(o, {x}) \in Call
    BY <1>3, OfflineLoops
  <2>2. \A o : ~Progresses(Loop(o, {x})) /\ Loop(o, {x}).op = "loop"
    BY DEF Loop, LoopFrom, Progresses
  <2> QED BY <2>1, <2>2
<1>6. Steady(calls') /\ Scanless(calls')
  <2>1. CASE PeerReady(x)
    <3> DEFINE a == Loop("requeueOffline", {x})
               b == Initiate(x)
               now == <<a, b>>
    <3>1. a \in Call /\ ~Progresses(a) /\ a.op = "loop"
      BY <1>5
    <3>2. b \in Call /\ ~Progresses(b) /\ b.op = "initiate"
      <4> HIDE DEF a
      <4> QED BY FrameTypes, CallKinds
    <3>3. calls' = now
      BY <2>1 DEF PeerReady, Event, ReadyCalls
    <3> HIDE DEF a, b
    <3> QED BY <3>1, <3>2, <3>3, SteadyTwo
  <2>2. CASE PeerUnavailable(x)
    <3>1. calls' = <<>> \/ (uploading[x] # NoUpload /\ calls' = Fail(uploading[x], "CannotConnect"))
      BY <2>2 DEF PeerUnavailable, UnavailableCalls, Event
    <3>2. "CannotConnect" \in TrStates \ ActiveStates
      BY StateKinds
    <3> QED BY <1>2, <3>1, <3>2, SteadyNone, SteadyFail
  <2>3. CASE PeerOffline(x)
    <3> DEFINE c == Loop("peerOffline", {x})
    <3>1. calls' = <<c>> /\ c \in Call /\ ~Progresses(c) /\ c.op = "loop"
      BY <1>5, <2>3 DEF PeerOffline, Event
    <3> HIDE DEF c
    <3> QED BY <1>4, <3>1
  <2>4. CASE PeerLost(x) \/ PeerConnecting(x) \/ Unban(x)
    <3>1. calls' = <<>>
      BY <2>4 DEF PeerLost, PeerConnecting, Unban, Event
    <3> QED BY <3>1, SteadyNone
  <2>5. CASE Ban(x)
    <3>1. CheckUploads \in Call /\ ~Progresses(CheckUploads) /\ CheckUploads.op = "check"
      BY FrameTypes, CallKinds
    <3>2. CASE uploading[x] = NoUpload
      <4>1. calls' = <<CheckUploads>>
        BY <2>5, <3>2 DEF Ban, Event
      <4> QED BY <1>4, <3>1, <4>1
    <3>3. CASE uploading[x] # NoUpload
      <4> DEFINE f == Fail(uploading[x], "LocalError")
      <4>1. calls' = Append(f, CheckUploads)
        BY <2>5, <3>3 DEF Ban, Event
      <4>2. "LocalError" \in TrStates \ ActiveStates
        BY StateKinds
      <4>3. Steady(f) /\ Scanless(f)
        BY <1>2, <3>3, <4>2, SteadyFail
      <4> HIDE DEF f
      <4> QED BY <3>1, <4>1, <4>3, SteadyMore
    <3> QED BY <3>2, <3>3
  <2>6. CASE PeerAsked(x)
    <3>1. calls' = <<PeerSocket(x)>>
      BY <2>6 DEF PeerAsked, Event
    <3>2. PeerSocket(x) \in Call /\ ~Progresses(PeerSocket(x)) /\ PeerSocket(x).op = "peerSocket"
      BY FrameTypes, CallKinds
    <3> QED BY <1>4, <3>1, <3>2
  <2> QED BY <2>1, <2>2, <2>3, <2>4, <2>5, <2>6 DEF UserEvent
<1> QED BY <1>1, <1>6, CalmEvent

LEMMA GlobalEventKinds ==
  ASSUME UploadAssumption, TypeOK, GlobalEvent
  PROVE  Happened
<1>1. calls = <<>> /\ UNCHANGED <<uploads, state, socket, uploading, replyTimer>>
  BY DEF GlobalEvent, LoggedIn, LoggedOut, SetSlots, SetAutoClear, Event, Idle, objects, registry
<1>2. CheckUploads \in Call /\ ~Progresses(CheckUploads) /\ CheckUploads.op = "check"
  BY FrameTypes, CallKinds
<1>3. Steady(<<CheckUploads>>) /\ Scanless(<<CheckUploads>>) /\ Checks(<<CheckUploads>>)
  BY <1>2, SteadyOne
<1>4. CASE LoggedIn \/ \E n \in Slots : SetSlots(n)
  <2>1. calls' = <<CheckUploads>>
    BY <1>4 DEF LoggedIn, SetSlots, Event
  <2>2. Steady(calls') /\ Scanless(calls') /\ Checks(calls')
    BY <1>3, <2>1 DEF Checks
  <2> QED BY <1>1, <2>2, CalmEvent
<1>5. CASE LoggedOut
  <2> DEFINE c == Loop("logout", Users)
  <2>1. calls' = <<c>> /\ UNCHANGED config
    BY <1>5 DEF LoggedOut, Event
  <2>2. c \in Call
    BY LoopType DEF Loops
  <2>3. ~Progresses(c) /\ c.op = "loop"
    BY DEF Loop, LoopFrom, Progresses
  <2> HIDE DEF c
  <2>4. Steady(calls') /\ Scanless(calls')
    BY <2>1, <2>2, <2>3, SteadyOne
  <2> QED BY <1>1, <2>1, <2>4, CalmEvent
<1>6. CASE \E b \in BOOLEAN : SetAutoClear(b)
  <2>1. calls' = <<>> /\ \E b : config' = [config EXCEPT !.autoClear = b]
    BY <1>6 DEF SetAutoClear, Event
  <2>2. config'.slots = config.slots
    BY <2>1 DEF TypeOK
  <2> QED BY <1>1, <2>1, <2>2, SteadyNone, CalmEvent
<1> QED BY <1>4, <1>5, <1>6 DEF GlobalEvent

-----------------------------------------------------------------------------
(* The waits, between events.                                              *)

\* With no call pending every wait has its timeout.
LEMMA IdleWaits ==
  ASSUME TypeOK, WaitsInvariant, calls = <<>>
  PROVE  /\ \A v \in Known : state[v] = "Waiting" => replyTimer[v] \/ socket[v] # "none"
         /\ \A v \in Uploads : state[v] = "Initiating" => socket[v] = "none"
         /\ \A v \in Uploads : replyTimer[v] => socket[v] = "none"
<1>1. \A v : ~Pending(calls, v)
  <2>1. Len(calls) = 0
    OBVIOUS
  <2>2. \A k \in 1 .. Len(calls) : FALSE
    BY <2>1
  <2> QED BY <2>2 DEF Pending
<1> QED BY <1>1 DEF WaitsInvariant, WaitIsTimed, InitiatingHasNoSocket, TimerExcludesSocket

LEMMA CalmWaits ==
  ASSUME TypeOK, WaitsInvariant, calls = <<>>, Calm
  PROVE  WaitsInvariant'
<1>1. /\ UNCHANGED <<uploads, state, socket>> /\ Known' = Known
      /\ Severed(calls') /\ \A k \in 1 .. Len(calls') : ~Progresses(calls'[k])
      /\ \A v \in Uploads : replyTimer'[v] = replyTimer[v] \/ (~replyTimer'[v] /\ Pending(calls', v))
  BY DEF Calm, Steady, Known
<1>2. TimerExcludesSocket' /\ InitiatingHasNoSocket' /\ ProgressIsTimed'
  BY <1>1, IdleWaits DEF TimerExcludesSocket, InitiatingHasNoSocket, ProgressIsTimed, Progresses
<1>3. WaitIsTimed'
  BY <1>1, IdleWaits, KnownUploads DEF WaitIsTimed, Pending, Ends, Assigns
<1> QED BY <1>1, <1>2, <1>3 DEF WaitsInvariant, Severed, Ends, Assigns

LEMMA AddingWaits ==
  ASSUME TypeOK, WaitsInvariant, calls = <<>>, NEW u \in Uploads, Adding(u)
  PROVE  WaitsInvariant'
<1>1. /\ Known' = Known \union {u} /\ replyTimer' = replyTimer
      /\ state'[u] = "Offline" /\ socket'[u] = "none"
      /\ \A v \in Uploads : v # u => state'[v] = state[v] /\ socket'[v] = socket[v]
      /\ Severed(calls') /\ \A k \in 1 .. Len(calls') : ~Progresses(calls'[k])
  BY DEF Adding, Steady, TypeOK
<1>2. TimerExcludesSocket' /\ InitiatingHasNoSocket' /\ ProgressIsTimed'
  BY <1>1, IdleWaits DEF TimerExcludesSocket, InitiatingHasNoSocket, ProgressIsTimed, Progresses
<1>3. WaitIsTimed'
  BY <1>1, IdleWaits, KnownUploads DEF WaitIsTimed, Pending, Ends, Assigns
<1> QED BY <1>1, <1>2, <1>3 DEF WaitsInvariant, Severed, Ends, Assigns

LEMMA GoingWaits ==
  ASSUME TypeOK, WaitsInvariant, calls = <<>>, NEW u \in Uploads, Going(u)
  PROVE  WaitsInvariant'
<1> DEFINE c == SetState(u, "Transferring")
           now == <<c>>
<1>1. c \in Call /\ c.op = "setState" /\ c.st = "Transferring"
  BY FrameTypes, StateKinds DEF SetState
<1>2. calls' = now /\ UNCHANGED <<uploads, state, socket, replyTimer>> /\ Known' = Known
  BY DEF Going, queue, Known
<1> HIDE DEF c
<1>3. \A k \in 1 .. Len(now) : k = 1 /\ now[k] = c
  BY <1>1, OneLeft
<1> HIDE DEF now
<1>4. TimerExcludesSocket' /\ InitiatingHasNoSocket'
  BY <1>2, IdleWaits DEF TimerExcludesSocket, InitiatingHasNoSocket
<1>5. ProgressIsTimed' /\ Severed(calls')
  BY <1>1, <1>2, <1>3 DEF ProgressIsTimed, Progresses, Severed
<1>6. WaitIsTimed'
  BY <1>2, IdleWaits, KnownUploads DEF WaitIsTimed, Pending, Ends, Assigns
<1> QED BY <1>4, <1>5, <1>6 DEF WaitsInvariant, Severed, Ends, Assigns

LEMMA WaitsInitially ==
  ASSUME Init
  PROVE  WaitsInvariant
<1>1. \A k \in 1 .. Len(calls) : FALSE
  <2>1. Len(calls) = 0
    BY DEF Init
  <2> QED BY <2>1
<1>2. \A u \in Uploads : state[u] = "Offline" /\ socket[u] = "none" /\ ~replyTimer[u]
  BY DEF Init
<1>3. Known = {}
  <2>1. DOMAIN uploads = {}
    BY DEF Init
  <2> QED BY <2>1 DEF Known, Range
<1> QED BY <1>1, <1>2, <1>3 DEF WaitsInvariant, TimerExcludesSocket, InitiatingHasNoSocket, ProgressIsTimed,
          Severed, WaitIsTimed

LEMMA WaitsKept ==
  ASSUME TypeOK, CallsInvariant, WaitsInvariant, [Next]_vars
  PROVE  WaitsInvariant'
<1>1. CASE Step
  BY <1>1, UploadAssumption, StepWaits
<1>2. CASE (\E u \in Uploads : UploadEvent(u)) \/ (\E x \in Users : UserEvent(x)) \/ GlobalEvent
  <2>1. Happened
    BY <1>2, UploadAssumption, UploadEventKinds, UserEventKinds, GlobalEventKinds
  <2> QED BY <2>1, CalmWaits, AddingWaits, GoingWaits DEF Happened
<1>3. CASE UNCHANGED vars
  <2>1. UNCHANGED <<uploads, state, socket, replyTimer, calls>>
    BY <1>3 DEF vars, objects
  <2> QED BY <2>1 DEF WaitsInvariant, TimerExcludesSocket, InitiatingHasNoSocket, ProgressIsTimed, Severed,
       WaitIsTimed, Known, Pending, Ends, Assigns, Progresses, SetState
<1> QED BY <1>1, <1>2, <1>3 DEF Next

\* The invariant of the waits: an upload that waits has its timer or a socket, or a call
\* pending that ends its wait, however the callbacks nest.
THEOREM WaitsCorrect == Spec => []WaitsInvariant
<1>1. Init => WaitsInvariant
  BY WaitsInitially
<1>2. TypeOK /\ CallsInvariant /\ WaitsInvariant /\ [Next]_vars => WaitsInvariant'
  BY WaitsKept
<1> QED BY <1>1, <1>2, TypeCorrect, CallsCorrect, PTL DEF Spec

\* setSocket cancels the reply timer, so that it never cuts a transfer.
THEOREM TimerCorrect == Spec => []TimerExcludesSocket
<1>1. WaitsInvariant => TimerExcludesSocket
  BY DEF WaitsInvariant
<1> QED BY <1>1, WaitsCorrect, PTL

\* Between events no upload waits for its peer without a timeout.
THEOREM WaitsTimed == Spec => []EveryWaitHasATimeout
<1>1. TypeOK /\ WaitsInvariant => EveryWaitHasATimeout
  BY IdleWaits DEF EveryWaitHasATimeout, Idle
<1> QED BY <1>1, TypeCorrect, WaitsCorrect, PTL

-----------------------------------------------------------------------------
(* The slots: what an assignment of m_State makes of them.                 *)

\* While nobody is banned, an upload in progress is listed, and none but those.
LEMMA Listings ==
  ASSUME TypeOK, CallsInvariant, SlotsInvariant
  PROVE  /\ \A v \in Uploads : state[v] \in ActiveStates => uploading[UserOf[v]] = v
         /\ \A x \in Users : uploading[x] # NoUpload =>
              uploading[x] \in Uploads /\ UserOf[uploading[x]] = x /\ state[uploading[x]] \in ActiveStates
  BY DEF TypeOK, CallsInvariant, SlotsInvariant, ActiveIsKnown, ActiveIsListed, ListedIsActive

\* The listing after an assignment, the early update of a finished upload included.
LEMMA AssigningListing ==
  ASSUME UploadAssumption, TypeOK, CallsInvariant, SlotsInvariant, calls # <<>>, Top \in Call, Assigning
  PROVE  LET u == Top.up
             x == UserOf[Top.up]
         IN  /\ x \in Users /\ u # NoUpload
             /\ \A y \in Users : y # x => uploading'[y] = uploading[y]
             /\ Top.st \in ActiveStates => uploading'[x] = u
             /\ Top.st \notin ActiveStates => uploading'[x] = IF uploading[x] = u THEN NoUpload ELSE uploading[x]
<1> DEFINE u == Top.up
           s == Top.st
           x == UserOf[u]
           before == IF s = "Finished" THEN state[u] ELSE s
           m == Listed(uploading, u, before)
<1>1. u \in Uploads /\ s \in TrStates /\ x \in Users /\ u # NoUpload
  BY CallFields DEF Assigning, UploadAssumption
<1>2. uploading' = Listed(m, u, s) /\ uploading \in [Users -> Uploads \union {NoUpload}]
  BY DEF Assigning, Enter, TypeOK
<1>3. state[u] \in ActiveStates <=> uploading[x] = u
  BY <1>1, Listings
<1>4. "Finished" \notin ActiveStates
  BY StateKinds
<1> HIDE DEF s, u
<1>5. CASE s \in ActiveStates
  <2>1. m = [uploading EXCEPT ![x] = u]
    BY <1>4, <1>5 DEF Listed
  <2>2. uploading' = [m EXCEPT ![x] = u]
    BY <1>2, <1>5 DEF Listed
  <2> QED BY <1>1, <1>2, <1>5, <2>1, <2>2 DEF s, u
<1>6. CASE s \notin ActiveStates /\ uploading[x] = u
  <2>1. m = uploading \/ m = [uploading EXCEPT ![x] = NoUpload]
    BY <1>1, <1>2, <1>3, <1>6 DEF Listed
  <2>2. uploading' = [uploading EXCEPT ![x] = NoUpload]
    BY <1>1, <1>2, <1>6, <2>1 DEF Listed
  <2> QED BY <1>1, <1>2, <1>6, <2>2 DEF s, u
<1>7. CASE s \notin ActiveStates /\ uploading[x] # u
  <2>1. before \notin ActiveStates
    BY <1>3, <1>7
  <2>2. m = uploading
    BY <1>7, <2>1 DEF Listed
  <2>3. uploading' = uploading
    BY <1>2, <1>7, <2>2 DEF Listed
  <2> QED BY <1>1, <1>7, <2>3 DEF s, u
<1> QED BY <1>5, <1>6, <1>7

\* An assignment that lists an upload finds its user without one and a slot free, or
\* the upload listed; one that does not may take the user out.
LEMMA AssigningSlots ==
  ASSUME UploadAssumption, TypeOK, CallsInvariant, SlotsInvariant, calls # <<>>, Top \in Call, Assigning
  PROVE  LET x == UserOf[Top.up]
         IN  /\ x \in Users /\ IsFiniteSet(Busy')
             /\ Top.st \in ActiveStates => Busy' = Busy \union {x} /\ (x \in Busy \/ HasFreeSlots)
             /\ Top.st \notin ActiveStates => Busy' = Busy \/ (x \in Busy /\ Busy' = Busy \ {x})
<1> DEFINE u == Top.up
           x == UserOf[u]
<1>1. /\ x \in Users /\ u # NoUpload
      /\ \A y \in Users : y # x => uploading'[y] = uploading[y]
      /\ Top.st \in ActiveStates => uploading'[x] = u
      /\ Top.st \notin ActiveStates => uploading'[x] = IF uploading[x] = u THEN NoUpload ELSE uploading[x]
  BY AssigningListing
<1>2. Busy' = {y \in Users : uploading'[y] # NoUpload}
  BY DEF Busy
<1>3. Top.st \in ActiveStates => Busy' = Busy \union {x}
  BY <1>1, <1>2 DEF Busy
<1>4. Top.st \notin ActiveStates => Busy' = Busy \/ (x \in Busy /\ Busy' = Busy \ {x})
  BY <1>1, <1>2 DEF Busy
<1>5. Top.st \in ActiveStates => x \in Busy \/ HasFreeSlots
  <2> SUFFICES ASSUME Top.st \in ActiveStates
               PROVE  x \in Busy \/ HasFreeSlots
    OBVIOUS
  <2>1. Progresses(calls[1]) /\ calls[1].up = u /\ 1 \in 1 .. Len(calls)
    BY AssigningFacts
  <2> QED BY <1>1, <2>1 DEF SlotsInvariant, ProgressHasSlot, Busy
<1>6. IsFiniteSet(Busy')
  BY <1>3, <1>4, FS_AddElement, FS_RemoveElement DEF SlotsInvariant
<1> QED BY <1>1, <1>3, <1>4, <1>5, <1>6

\* Fewer users busy leave a slot free.
LEMMA FewerBusy ==
  ASSUME UploadAssumption, TypeOK, IsFiniteSet(Busy'), Busy \subseteq Busy', config' = config, HasFreeSlots'
  PROVE  HasFreeSlots
<1>1. Cardinality(Busy) <= Cardinality(Busy') /\ IsFiniteSet(Busy)
  BY FS_Subset
<1>2. Cardinality(Busy) \in Nat /\ Cardinality(Busy') \in Nat
  BY <1>1, FS_CardinalityType
<1>3. config.slots \in Nat
  BY DEF TypeOK, UploadAssumption
<1>4. config.slots = 0 \/ Cardinality(Busy') < config.slots
  BY DEF HasFreeSlots
<1> QED BY <1>1, <1>2, <1>3, <1>4 DEF HasFreeSlots

LEMMA StackScanless ==
  ASSUME TypeOK, NoScanPending, calls # <<>>, NEW now \in Seq(Call), Scanless(now), Return(now)
  PROVE  NoScanPending' /\ Top.op # "scan"
<1>1. /\ Top = calls[1] /\ 1 \in 1 .. Len(calls) /\ Len(calls) \in Nat
      /\ \A k \in 1 .. Len(calls') :
           \/ k \in 1 .. Len(now) /\ calls'[k] = now[k]
           \/ \E j \in 2 .. Len(calls) : calls'[k] = calls[j]
  BY StackOver DEF TypeOK
<1>2. \A j \in 2 .. Len(calls) : j \in 1 .. Len(calls)
  BY <1>1
<1> QED BY <1>1, <1>2 DEF NoScanPending, Scanless

\* What the steps that assign nothing leave as it was.
LEMMA QueueKept ==
  ASSUME UNCHANGED queue
  PROVE  /\ Known' = Known /\ Busy' = Busy /\ (HasFreeSlots' <=> HasFreeSlots)
         /\ \A u : Startable(u)' <=> Startable(u)
         /\ \A i, j : GoesBefore(i, j)' <=> GoesBefore(i, j)
  BY DEF queue, Known, Busy, HasFreeSlots, Startable, Queued, GoesBefore

-----------------------------------------------------------------------------
(* The slots, kept by each kind of step.                                   *)

LEMMA PassingSlots ==
  ASSUME TypeOK, CallsInvariant, WaitsInvariant, SlotsInvariant, NobodyBanned, calls # <<>>, NEW now, Passes(now)
  PROVE  SlotsInvariant'
<1>1. /\ calls \in Seq(Call) /\ now \in Seq(Call) /\ Return(now) /\ Steady(now) /\ UNCHANGED queue
      /\ ProgressOnTop /\ Top = calls[1] /\ 1 \in 1 .. Len(calls)
  BY StackOver DEF Passes, Steady, TypeOK, CallsInvariant
<1>2. Top.op # "scan"
  BY <1>1 DEF SlotsInvariant, NoScanPending
<1>3. /\ Known' = Known /\ Busy' = Busy /\ (HasFreeSlots' <=> HasFreeSlots)
      /\ \A u : Startable(u)' <=> Startable(u)
      /\ \A i, j : GoesBefore(i, j)' <=> GoesBefore(i, j)
      /\ UNCHANGED <<uploads, state, uploading>>
  BY <1>1, QueueKept DEF queue
<1>4. NoScanPending'
  BY <1>1, <1>2, StackScanless DEF Passes, SlotsInvariant
<1>5. ActiveIsListed'
  BY <1>3 DEF SlotsInvariant, ActiveIsListed
<1>6. ASSUME NEW k \in 1 .. Len(calls'), Progresses(calls'[k])
      PROVE  2 \in 1 .. Len(calls) /\ calls'[k] = calls[2] /\ Progresses(calls[2])
  BY <1>1, <1>6, StackProgress
<1>7. ProgressHasSlot'
  <2> SUFFICES ASSUME NEW k \in 1 .. Len(calls'), Progresses(calls'[k])
               PROVE  \/ uploading'[UserOf[calls'[k].up]] = calls'[k].up
                      \/ uploading'[UserOf[calls'[k].up]] = NoUpload /\ HasFreeSlots'
    BY DEF ProgressHasSlot, Progresses
  <2> QED BY <1>3, <1>6 DEF SlotsInvariant, ProgressHasSlot
<1>8. StartIsNext'
  <2> SUFFICES ASSUME NEW k \in 1 .. Len(calls'), Progresses(calls'[k]), calls'[k].st = "Initiating",
                      NEW i \in 1 .. Len(uploads'), NEW j \in 1 .. Len(uploads'),
                      uploads'[i] = calls'[k].up, Startable(uploads[j])'
               PROVE  GoesBefore(i, j)'
    BY DEF StartIsNext, Progresses
  <2>1. Startable(uploads[j])
    BY <1>3 DEF Startable, Queued
  <2> QED BY <1>3, <1>6, <2>1 DEF SlotsInvariant, StartIsNext
<1>9. CheckIsPending'
  <2> SUFFICES ASSUME HasFreeSlots', NEW u \in Known', Startable(u)'
               PROVE  Checks(calls')
    BY DEF CheckIsPending, Checks
  <2>1. HasFreeSlots /\ u \in Known /\ Startable(u)
    BY <1>3
  <2>2. Checks(calls) /\ Top.op # "check"
    BY <2>1 DEF SlotsInvariant, CheckIsPending, Checks, Passes
  <2> QED BY <1>1, <2>2, StackChecks
<1> QED BY <1>3, <1>4, <1>5, <1>7, <1>8, <1>9 DEF SlotsInvariant

LEMMA AssigningKeepsSlots ==
  ASSUME UploadAssumption, TypeOK, CallsInvariant, WaitsInvariant, SlotsInvariant,
         calls # <<>>, Top \in Call, Assigning
  PROVE  SlotsInvariant'
<1> DEFINE u == Top.up
           s == Top.st
           x == UserOf[u]
           now == Aftermath(u, s)
<1>1. /\ Top = calls[1] /\ 1 \in 1 .. Len(calls) /\ u \in Uploads /\ s \in TrStates
      /\ state' = [state EXCEPT ![u] = s] /\ state'[u] = s
      /\ UNCHANGED <<uploads, config>>
      /\ Return(now) /\ Steady(now) /\ Scanless(now)
      /\ s \notin ActiveStates => Checks(now)
      /\ s \in ActiveStates <=> Progresses(calls[1])
  BY AssigningFacts
<1>2. /\ x \in Users /\ u # NoUpload
      /\ \A y \in Users : y # x => uploading'[y] = uploading[y]
      /\ s \in ActiveStates => uploading'[x] = u
      /\ s \notin ActiveStates => uploading'[x] = IF uploading[x] = u THEN NoUpload ELSE uploading[x]
  BY AssigningListing
<1>3. /\ IsFiniteSet(Busy')
      /\ s \in ActiveStates => Busy' = Busy \union {x} /\ (x \in Busy \/ HasFreeSlots)
  BY AssigningSlots
<1> HIDE DEF now
<1>4. calls \in Seq(Call) /\ now \in Seq(Call) /\ ProgressOnTop /\ Known' = Known /\ Known \subseteq Uploads
  BY <1>1, KnownUploads DEF Steady, TypeOK, CallsInvariant, Known
<1>5. NoScanPending'
  BY <1>1, <1>4, StackScanless DEF SlotsInvariant
<1>6. s \in ActiveStates => uploading[x] \in {u, NoUpload}
  BY <1>1 DEF SlotsInvariant, ProgressHasSlot
<1>7. ActiveIsListed'
  <2> SUFFICES ASSUME NEW v \in Known, state'[v] \in ActiveStates
               PROVE  uploading'[UserOf[v]] = v
    BY <1>4 DEF ActiveIsListed
  <2>1. v \in Uploads /\ UserOf[v] \in Users /\ v # NoUpload
    BY <1>4 DEF UploadAssumption
  <2>2. CASE v = u
    BY <1>1, <1>2, <2>2
  <2>3. CASE v # u
    <3>1. uploading[UserOf[v]] = v
      BY <1>1, <2>1, <2>3, Listings DEF TypeOK
    <3> QED BY <1>2, <1>6, <2>1, <2>3, <3>1
  <2> QED BY <2>2, <2>3
<1>8. ASSUME NEW k \in 1 .. Len(calls'), Progresses(calls'[k])
      PROVE  calls'[k].up = u /\ calls'[k].st = "Waiting" /\ s \in ActiveStates
  <2>1. /\ 2 \in 1 .. Len(calls) /\ calls'[k] = calls[2] /\ Progresses(calls[2])
        /\ Top = SetState(calls[2].up, "Establishing")
    BY <1>1, <1>4, <1>8, StackProgress
  <2>2. calls[2].up = u /\ s = "Establishing"
    BY <2>1 DEF SetState
  <2>3. calls[2].st = "Waiting"
    BY <2>1 DEF WaitsInvariant, ProgressIsTimed
  <2> QED BY <2>1, <2>2, <2>3, StateKinds
<1>9. ProgressHasSlot'
  <2> SUFFICES ASSUME NEW k \in 1 .. Len(calls'), Progresses(calls'[k])
               PROVE  uploading'[UserOf[calls'[k].up]] = calls'[k].up
    BY DEF ProgressHasSlot, Progresses
  <2> QED BY <1>2, <1>8
<1>10. StartIsNext'
  BY <1>8 DEF StartIsNext, Progresses
<1>11. CheckIsPending'
  <2> SUFFICES ASSUME HasFreeSlots', NEW v \in Known, Startable(v)'
               PROVE  Checks(calls')
    BY <1>4 DEF CheckIsPending, Checks
  <2>1. CASE s \notin ActiveStates
    BY <1>1, <1>4, <2>1, StackChecks
  <2>2. CASE s \in ActiveStates
    <3>1. HasFreeSlots
      BY <1>1, <1>3, <2>2, FewerBusy
    <3>2. state'[v] = "QueuedLocally" /\ UserOf[v] \notin config.banned /\ uploading'[UserOf[v]] = NoUpload
      BY <1>1 DEF Startable, Queued
    <3>3. v # u /\ v \in Uploads /\ UserOf[v] # x /\ UserOf[v] \in Users
      BY <1>1, <1>2, <1>4, <2>2, <3>2, StateKinds DEF UploadAssumption
    <3>4. Startable(v)
      BY <1>1, <1>2, <3>2, <3>3 DEF Startable, Queued, TypeOK
    <3>5. Checks(calls)
      BY <3>1, <3>4 DEF SlotsInvariant, CheckIsPending, Checks
    <3>6. Top.op # "check"
      BY DEF Assigning
    <3> QED BY <1>1, <1>4, <3>5, <3>6, StackChecks
  <2> QED BY <2>1, <2>2
<1> QED BY <1>3, <1>5, <1>7, <1>9, <1>10, <1>11 DEF SlotsInvariant

\* What the calls that assign nothing have in common: what may progress is in the calls
\* they leave, and a check stays pending.
LEMMA UnassigningSlots ==
  ASSUME TypeOK, CallsInvariant, SlotsInvariant, calls # <<>>, Top.op \notin {"setState", "enterState"},
         NEW now \in Seq(Call), Scanless(now), Return(now), Checks(now) \/ Top.op # "check"
  PROVE  /\ NoScanPending'
         /\ Checks(calls) => Checks(calls')
         /\ Checks(now) => Checks(calls')
         /\ \A k \in 1 .. Len(calls') : Progresses(calls'[k]) => k \in 1 .. Len(now) /\ calls'[k] = now[k]
<1>1. NoScanPending'
  BY StackScanless DEF SlotsInvariant
<1>2. (Checks(calls) => Checks(calls')) /\ (Checks(now) => Checks(calls'))
  BY StackChecks DEF TypeOK
<1>3. \A k \in 1 .. Len(calls') : Progresses(calls'[k]) => k \in 1 .. Len(now) /\ calls'[k] = now[k]
  BY StackNew
<1> QED BY <1>1, <1>2, <1>3

LEMMA StartingSlots ==
  ASSUME UploadAssumption, TypeOK, CallsInvariant, SlotsInvariant, NobodyBanned, calls # <<>>,
         NEW u \in Uploads, Starting(u)
  PROVE  SlotsInvariant'
<1> DEFINE now == StartUpload(u)
<1>1. /\ now \in Seq(Call) /\ Scanless(now) /\ Checks(now)
      /\ \A k \in 1 .. Len(now) : Progresses(now[k]) => k = 1 /\ now[k] = SetState(u, "Initiating")
  BY StartingCalls
<1>2. Return(now) /\ UNCHANGED queue /\ Top.op \in {"check", "scan"}
  BY DEF Starting
<1> HIDE DEF now
<1>3. /\ NoScanPending' /\ Checks(calls')
      /\ \A k \in 1 .. Len(calls') : Progresses(calls'[k]) => k \in 1 .. Len(now) /\ calls'[k] = now[k]
  BY <1>1, <1>2, UnassigningSlots
<1>4. /\ HasFreeSlots /\ Startable(u)
      /\ \A i, j \in 1 .. Len(uploads) : uploads[i] = u /\ Startable(uploads[j]) => GoesBefore(i, j)
  <2>1. Top.op # "scan"
    BY <1>1, <1>2, StackScanless DEF SlotsInvariant
  <2> QED BY <1>2, <2>1 DEF Starting
<1>5. /\ Known' = Known /\ Busy' = Busy /\ (HasFreeSlots' <=> HasFreeSlots)
      /\ \A v : Startable(v)' <=> Startable(v)
      /\ \A i, j : GoesBefore(i, j)' <=> GoesBefore(i, j)
      /\ UNCHANGED <<uploads, state, uploading>>
  BY <1>2, QueueKept DEF queue
<1>6. \A k \in 1 .. Len(calls') : Progresses(calls'[k]) => calls'[k].up = u
  BY <1>1, <1>3 DEF SetState
<1>7. ActiveIsListed'
  BY <1>5 DEF SlotsInvariant, ActiveIsListed
<1>8. ProgressHasSlot'
  <2> SUFFICES ASSUME NEW k \in 1 .. Len(calls'), Progresses(calls'[k])
               PROVE  uploading'[UserOf[calls'[k].up]] = NoUpload /\ HasFreeSlots'
    BY DEF ProgressHasSlot, Progresses
  <2> QED BY <1>4, <1>5, <1>6 DEF Startable
<1>9. StartIsNext'
  <2> SUFFICES ASSUME NEW k \in 1 .. Len(calls'), Progresses(calls'[k]), calls'[k].st = "Initiating",
                      NEW i \in 1 .. Len(uploads'), NEW j \in 1 .. Len(uploads'),
                      uploads'[i] = calls'[k].up, Startable(uploads[j])'
               PROVE  GoesBefore(i, j)'
    BY DEF StartIsNext, Progresses
  <2>1. Startable(uploads[j])
    BY <1>5 DEF Startable, Queued
  <2> QED BY <1>4, <1>5, <1>6, <2>1
<1>10. CheckIsPending'
  BY <1>3 DEF CheckIsPending, Checks
<1> QED BY <1>3, <1>5, <1>7, <1>8, <1>9, <1>10 DEF SlotsInvariant

\* When nothing that progresses is about to be started, the queue is as it was, and a
\* check that was pending still is.
LEMMA UnstartedSlots ==
  ASSUME UploadAssumption, TypeOK, SlotsInvariant, UNCHANGED <<state, uploading, config>>, Known' \subseteq Known,
         NoScanPending',
         \A k \in 1 .. Len(calls') : Progresses(calls'[k]) =>
           LET u == calls'[k].up
           IN  /\ calls'[k].st # "Initiating"
               /\ uploading[UserOf[u]] = u \/ (uploading[UserOf[u]] = NoUpload /\ HasFreeSlots),
         Checks(calls) => Checks(calls')
  PROVE  SlotsInvariant'
<1>1. Busy' = Busy /\ (HasFreeSlots' <=> HasFreeSlots)
  BY DEF Busy, HasFreeSlots
<1>2. ActiveIsListed'
  BY DEF SlotsInvariant, ActiveIsListed
<1>3. ProgressHasSlot'
  BY <1>1 DEF ProgressHasSlot, Progresses
<1>4. StartIsNext'
  BY DEF StartIsNext, Progresses
<1>5. CheckIsPending'
  <2> SUFFICES ASSUME HasFreeSlots', NEW v \in Known', Startable(v)'
               PROVE  Checks(calls')
    BY DEF CheckIsPending, Checks
  <2>1. HasFreeSlots /\ v \in Known /\ Startable(v)
    BY <1>1 DEF Startable, Queued
  <2> QED BY <2>1 DEF SlotsInvariant, CheckIsPending, Checks
<1> QED BY <1>1, <1>2, <1>3, <1>4, <1>5 DEF SlotsInvariant

LEMMA AskingSlots ==
  ASSUME UploadAssumption, TypeOK, CallsInvariant, SlotsInvariant, calls # <<>>, NEW u \in Uploads, Asking(u)
  PROVE  SlotsInvariant'
<1> DEFINE now == <<SetState(u, "Waiting"), CheckUploads>>
<1>1. /\ now \in Seq(Call) /\ Scanless(now) /\ Checks(now)
      /\ \A k \in 1 .. Len(now) : Progresses(now[k]) => k = 1 /\ now[k] = SetState(u, "Waiting")
  BY AskingCalls
<1>2. /\ Return(now) /\ UNCHANGED <<uploads, state, uploading, config>> /\ Known' = Known
      /\ Top.op = "initiate" /\ uploading[UserOf[u]] = u
  BY DEF Asking, queue, Known
<1> HIDE DEF now
<1>3. /\ NoScanPending' /\ Checks(calls')
      /\ \A k \in 1 .. Len(calls') : Progresses(calls'[k]) => k \in 1 .. Len(now) /\ calls'[k] = now[k]
  BY <1>1, <1>2, UnassigningSlots
<1>4. \A k \in 1 .. Len(calls') : Progresses(calls'[k]) => calls'[k].up = u /\ calls'[k].st = "Waiting"
  BY <1>1, <1>3 DEF SetState
<1> QED BY <1>2, <1>3, <1>4, UnstartedSlots

LEMMA ServingSlots ==
  ASSUME UploadAssumption, TypeOK, CallsInvariant, SlotsInvariant, calls # <<>>, NEW u \in Uploads, Serving(u)
  PROVE  SlotsInvariant'
<1> DEFINE now == <<SetState(u, "Establishing"), SetState(u, "Waiting")>>
<1>1. /\ now \in Seq(Call) /\ Scanless(now)
      /\ \A k \in 1 .. Len(now) : \/ k = 1 /\ now[k] = SetState(u, "Establishing")
                                  \/ k = 2 /\ now[k] = SetState(u, "Waiting")
  BY ServingCalls
<1>2. /\ Return(now) /\ UNCHANGED <<uploads, state, uploading, config>> /\ Known' = Known
      /\ Top.op = "legacyRest" /\ HasFreeSlots /\ uploading[UserOf[u]] = NoUpload
  BY DEF Serving, queue, Known
<1> HIDE DEF now
<1>3. /\ NoScanPending' /\ (Checks(calls) => Checks(calls'))
      /\ \A k \in 1 .. Len(calls') : Progresses(calls'[k]) => k \in 1 .. Len(now) /\ calls'[k] = now[k]
  BY <1>1, <1>2, UnassigningSlots
<1>4. \A k \in 1 .. Len(calls') : Progresses(calls'[k]) => calls'[k].up = u /\ calls'[k].st # "Initiating"
  BY <1>1, <1>3 DEF SetState
<1> QED BY <1>2, <1>3, <1>4, UnstartedSlots

\* The upload a reply is for is listed, so that it takes no other slot.
LEMMA TakingSlots ==
  ASSUME UploadAssumption, TypeOK, CallsInvariant, SlotsInvariant, calls # <<>>, NEW u \in Uploads, Taking(u)
  PROVE  SlotsInvariant'
<1>0. PICK next \in Call : /\ next.op = "reply"
                           /\ Return(<<SetState(u, "Establishing"), SetState(u, "Waiting"), next>>)
  BY DEF Taking
<1> DEFINE now == <<SetState(u, "Establishing"), SetState(u, "Waiting"), next>>
<1>1. /\ now \in Seq(Call) /\ Scanless(now)
      /\ ~Progresses(next)
      /\ \A k \in 1 .. Len(now) : \/ k = 1 /\ now[k] = SetState(u, "Establishing")
                                  \/ k = 2 /\ now[k] = SetState(u, "Waiting")
                                  \/ k = 3 /\ now[k] = next
  BY <1>0, TakingCalls
<1>2. /\ Return(now) /\ UNCHANGED <<uploads, state, uploading, config>> /\ Known' = Known
      /\ Top.op = "reply" /\ state[u] = "Waiting"
  BY <1>0 DEF Taking, queue, Known
<1> HIDE DEF now
<1>3. /\ NoScanPending' /\ (Checks(calls) => Checks(calls'))
      /\ \A k \in 1 .. Len(calls') : Progresses(calls'[k]) => k \in 1 .. Len(now) /\ calls'[k] = now[k]
  BY <1>1, <1>2, UnassigningSlots
<1>4. \A k \in 1 .. Len(calls') : Progresses(calls'[k]) => calls'[k].up = u /\ calls'[k].st # "Initiating"
  BY <1>1, <1>3 DEF SetState
<1>5. uploading[UserOf[u]] = u
  BY <1>2, Listings, StateKinds
<1> QED BY <1>2, <1>3, <1>4, <1>5, UnstartedSlots

LEMMA ReleasingSlots ==
  ASSUME UploadAssumption, TypeOK, CallsInvariant, SlotsInvariant, calls # <<>>, Releasing \/ Erasing
  PROVE  SlotsInvariant'
<1> DEFINE now == <<>>
<1>1. /\ Return(now) /\ UNCHANGED <<state, uploading, config>> /\ Known' \subseteq Known
      /\ Top.op \in {"release", "erase"}
  BY DEF Releasing, Erasing, queue, Known
<1>2. now \in Seq(Call) /\ Scanless(now) /\ Len(now) = 0
  BY SteadyNone DEF Steady
<1> HIDE DEF now
<1>3. /\ NoScanPending' /\ (Checks(calls) => Checks(calls'))
      /\ \A k \in 1 .. Len(calls') : Progresses(calls'[k]) => k \in 1 .. Len(now) /\ calls'[k] = now[k]
  BY <1>1, <1>2, UnassigningSlots
<1>4. \A k \in 1 .. Len(calls') : ~Progresses(calls'[k])
  BY <1>2, <1>3
<1> QED BY <1>1, <1>3, <1>4, UnstartedSlots

\* Every step of a handler keeps the invariant of the slots.
LEMMA StepSlots ==
  ASSUME UploadAssumption, TypeOK, CallsInvariant, WaitsInvariant, SlotsInvariant, NobodyBanned, Step
  PROVE  SlotsInvariant'
<1>1. Handled
  BY StepKinds
<1> QED BY <1>1, PassingSlots, AssigningKeepsSlots, StartingSlots, AskingSlots, ServingSlots, TakingSlots,
             ReleasingSlots
        DEF Handled

-----------------------------------------------------------------------------
(* The slots, between events.                                              *)

\* With no call pending no upload could start.
LEMMA IdleSlots ==
  ASSUME SlotsInvariant, calls = <<>>
  PROVE  HasFreeSlots => \A v \in Known : ~Startable(v)
<1>1. \A k \in 1 .. Len(calls) : FALSE
  <2>1. Len(calls) = 0
    OBVIOUS
  <2> QED BY <2>1
<1> QED BY <1>1 DEF SlotsInvariant, CheckIsPending

LEMMA CalmSlots ==
  ASSUME TypeOK, TypeOK', SlotsInvariant, NobodyBanned, NobodyBanned', calls = <<>>, Calm
  PROVE  SlotsInvariant'
<1>1. /\ UNCHANGED <<uploads, state, uploading>> /\ Known' = Known /\ Busy' = Busy
      /\ config'.banned = config.banned
      /\ config'.slots = config.slots \/ Checks(calls')
      /\ Scanless(calls') /\ \A k \in 1 .. Len(calls') : ~Progresses(calls'[k])
  BY DEF Calm, Steady, Known, Busy, NobodyBanned
<1>2. NoScanPending' /\ ActiveIsListed' /\ ProgressHasSlot' /\ StartIsNext'
  BY <1>1 DEF NoScanPending, Scanless, SlotsInvariant, ActiveIsListed, ProgressHasSlot, StartIsNext, Progresses
<1>3. CheckIsPending'
  <2> SUFFICES ASSUME HasFreeSlots', NEW v \in Known', Startable(v)', ~Checks(calls')
               PROVE  FALSE
    BY DEF CheckIsPending, Checks
  <2>1. HasFreeSlots /\ v \in Known /\ Startable(v)
    BY <1>1 DEF HasFreeSlots, Startable, Queued
  <2> QED BY <2>1, IdleSlots
<1> QED BY <1>1, <1>2, <1>3 DEF SlotsInvariant

LEMMA AddingSlots ==
  ASSUME TypeOK, SlotsInvariant, calls = <<>>, NEW u \in Uploads, Adding(u)
  PROVE  SlotsInvariant'
<1>1. /\ Known' = Known \union {u} /\ UNCHANGED <<uploading, config>> /\ Busy' = Busy
      /\ state'[u] = "Offline" /\ \A v \in Uploads : v # u => state'[v] = state[v]
      /\ Known \subseteq Uploads
      /\ Scanless(calls') /\ \A k \in 1 .. Len(calls') : ~Progresses(calls'[k])
  BY KnownUploads DEF Adding, Steady, Busy, TypeOK
<1>2. NoScanPending' /\ ProgressHasSlot' /\ StartIsNext'
  BY <1>1 DEF NoScanPending, Scanless, ProgressHasSlot, StartIsNext, Progresses
<1>3. ActiveIsListed'
  BY <1>1, StateKinds DEF SlotsInvariant, ActiveIsListed
<1>4. CheckIsPending'
  <2> SUFFICES ASSUME HasFreeSlots', NEW v \in Known', Startable(v)'
               PROVE  FALSE
    BY DEF CheckIsPending
  <2>1. v # u
    BY <1>1 DEF Startable, Queued
  <2>2. HasFreeSlots /\ v \in Known /\ Startable(v)
    BY <1>1, <2>1 DEF HasFreeSlots, Startable, Queued
  <2> QED BY <2>2, IdleSlots
<1> QED BY <1>1, <1>2, <1>3, <1>4 DEF SlotsInvariant

LEMMA GoingSlots ==
  ASSUME UploadAssumption, TypeOK, CallsInvariant, SlotsInvariant, calls = <<>>,
         NEW u \in Uploads, Going(u)
  PROVE  SlotsInvariant'
<1>1. UNCHANGED <<state, uploading, config>> /\ Known' = Known /\ state[u] = "Waiting"
  BY DEF Going, queue, Known
<1>2. uploading[UserOf[u]] = u
  BY <1>1, Listings, StateKinds
<1>3. /\ NoScanPending'
      /\ \A k \in 1 .. Len(calls') : calls'[k].up = u /\ calls'[k].st # "Initiating"
  <2> DEFINE c == SetState(u, "Transferring")
             now == <<c>>
  <2>1. c \in Call /\ c.op = "setState" /\ c.up = u /\ c.st = "Transferring"
    BY FrameTypes, StateKinds DEF SetState
  <2>2. calls' = now
    BY DEF Going
  <2> HIDE DEF c
  <2>3. \A k \in 1 .. Len(now) : now[k] = c
    BY <2>1, OneLeft
  <2> HIDE DEF now
  <2> QED BY <2>1, <2>2, <2>3 DEF NoScanPending
<1>4. ~Checks(calls)
  <2>1. Len(calls) = 0
    OBVIOUS
  <2> QED BY <2>1 DEF Checks
<1> QED BY <1>1, <1>2, <1>3, <1>4, UnstartedSlots

LEMMA SlotsInitially ==
  ASSUME Init
  PROVE  SlotsInvariant
<1>1. \A k \in 1 .. Len(calls) : FALSE
  <2>1. Len(calls) = 0
    BY DEF Init
  <2> QED BY <2>1
<1>2. Known = {}
  <2>1. DOMAIN uploads = {}
    BY DEF Init
  <2> QED BY <2>1 DEF Known, Range
<1>3. Busy = {}
  BY DEF Init, Busy
<1> QED BY <1>1, <1>2, <1>3, FS_EmptySet DEF SlotsInvariant, NoScanPending, ActiveIsListed, ProgressHasSlot,
          StartIsNext, CheckIsPending

LEMMA SlotsKept ==
  ASSUME TypeOK, TypeOK', CallsInvariant, WaitsInvariant, SlotsInvariant, NobodyBanned, NobodyBanned', [Next]_vars
  PROVE  SlotsInvariant'
<1>1. CASE Step
  BY <1>1, UploadAssumption, StepSlots
<1>2. CASE (\E u \in Uploads : UploadEvent(u)) \/ (\E x \in Users : UserEvent(x)) \/ GlobalEvent
  <2>1. Happened
    BY <1>2, UploadAssumption, UploadEventKinds, UserEventKinds, GlobalEventKinds
  <2> QED BY <2>1, UploadAssumption, CalmSlots, AddingSlots, GoingSlots DEF Happened
<1>3. CASE UNCHANGED vars
  <2>1. UNCHANGED <<uploads, state, uploading, config, calls>>
    BY <1>3 DEF vars, objects, registry, world
  <2>2. UNCHANGED queue
    BY <2>1 DEF queue
  <2>3. /\ Known' = Known /\ Busy' = Busy /\ (HasFreeSlots' <=> HasFreeSlots)
        /\ \A v : Startable(v)' <=> Startable(v)
        /\ \A i, j : GoesBefore(i, j)' <=> GoesBefore(i, j)
    BY <2>2, QueueKept
  <2>4. NoScanPending' /\ ActiveIsListed' /\ ProgressHasSlot'
    BY <2>1, <2>3 DEF SlotsInvariant, NoScanPending, ActiveIsListed, ProgressHasSlot, Progresses
  <2>5. StartIsNext' /\ CheckIsPending'
    BY <2>1, <2>3 DEF SlotsInvariant, StartIsNext, CheckIsPending, Progresses, Startable, Queued
  <2> QED BY <2>3, <2>4, <2>5 DEF SlotsInvariant
<1> QED BY <1>1, <1>2, <1>3 DEF Next

-----------------------------------------------------------------------------
(* What the slots of a step are.                                           *)

\* The step that puts a queued upload in progress assigns the state the top call was to.
LEMMA Entering ==
  ASSUME UploadAssumption, TypeOK, CallsInvariant, Next, NEW u \in Uploads, Queued(u), state'[u] = "Initiating"
  PROVE  1 \in 1 .. Len(calls) /\ Progresses(calls[1]) /\ calls[1].up = u /\ calls[1].st = "Initiating"
<1>1. CASE Step
  <2>1. Handled
    BY <1>1, StepKinds
  <2>2. Assigning
    BY <2>1 DEF Handled, Passes, Starting, Asking, Serving, Taking, Releasing, Erasing, queue, Queued
  <2>3. /\ Top = calls[1] /\ 1 \in 1 .. Len(calls)
        /\ state' = [state EXCEPT ![Top.up] = Top.st]
        /\ Top.st \in ActiveStates <=> Progresses(calls[1])
    BY <2>1, <2>2, AssigningFacts DEF Handled
  <2> QED BY <2>3, StateKinds DEF Queued, TypeOK
<1>2. CASE (\E v \in Uploads : UploadEvent(v)) \/ (\E x \in Users : UserEvent(x)) \/ GlobalEvent
  <2>1. Happened
    BY <1>2, UploadEventKinds, UserEventKinds, GlobalEventKinds
  <2> QED BY <2>1 DEF Happened, Calm, Adding, Going, queue, Queued, TypeOK
<1> QED BY <1>1, <1>2 DEF Next

\* The pool counts the users as the queue does.
LEMMA PoolSizes == Pool!Cardinality(Busy) = Cardinality(Busy)
  BY DEF Pool!Cardinality, Cardinality

\* Every step is one of the pool, or none.
LEMMA PoolStep ==
  ASSUME TypeOK, TypeOK', CallsInvariant, SlotsInvariant, [Next]_vars
  PROVE  [Pool!Next]_<<Busy, config.slots>>
<1>1. CASE Step
  <2>1. Handled
    BY <1>1, UploadAssumption, StepKinds
  <2>2. CASE Assigning
    <3> DEFINE x == UserOf[Top.up]
    <3>1. /\ x \in Users
          /\ \/ Busy' = Busy \union {x} /\ (x \in Busy \/ HasFreeSlots)
             \/ Busy' = Busy
             \/ x \in Busy /\ Busy' = Busy \ {x}
      BY <2>1, <2>2, UploadAssumption, AssigningSlots DEF Handled
    <3>2. config' = config
      BY <2>2 DEF Assigning, Enter, world
    <3> HIDE DEF x
    <3>3. CASE Busy' = Busy
      BY <3>2, <3>3
    <3>4. CASE x \notin Busy /\ HasFreeSlots /\ Busy' = Busy \union {x}
      <4>1. Pool!Free
        BY <3>4, PoolSizes DEF Pool!Free, HasFreeSlots
      <4>2. Pool!Acquire(x)
        BY <3>2, <3>4, <4>1 DEF Pool!Acquire
      <4> QED BY <3>1, <4>2 DEF Pool!Next
    <3>5. CASE x \in Busy /\ Busy' = Busy \ {x}
      <4>1. Pool!Yield(x)
        BY <3>2, <3>5 DEF Pool!Yield
      <4> QED BY <3>1, <4>1 DEF Pool!Next
    <3> QED BY <3>1, <3>3, <3>4, <3>5
  <2>3. CASE ~Assigning
    <3>1. UNCHANGED <<uploading, config>>
      BY <2>1, <2>3 DEF Handled, Passes, Starting, Asking, Serving, Taking, Releasing, Erasing, queue
    <3> QED BY <3>1 DEF Busy
  <2> QED BY <2>2, <2>3
<1>2. CASE (\E u \in Uploads : UploadEvent(u)) \/ (\E x \in Users : UserEvent(x)) \/ GlobalEvent
  <2>1. Happened
    BY <1>2, UploadAssumption, UploadEventKinds, UserEventKinds, GlobalEventKinds
  <2>2. uploading' = uploading
    BY <2>1 DEF Happened, Calm, Adding, Going, queue
  <2>3. Busy' = Busy
    BY <2>2 DEF Busy
  <2>4. CASE config'.slots # config.slots
    <3>1. config'.slots \in Slots
      BY DEF TypeOK
    <3>2. Pool!Resize(config'.slots)
      BY <2>3, <2>4 DEF Pool!Resize
    <3> QED BY <3>1, <3>2 DEF Pool!Next
  <2> QED BY <2>3, <2>4
<1>3. CASE UNCHANGED vars
  BY <1>3 DEF vars, registry, world, Busy
<1> QED BY <1>1, <1>2, <1>3 DEF Next

\* Nobody is ever banned when no event bans.
LEMMA NobodyIsBanned ==
  ASSUME "ban" \notin Events
  PROVE  Spec => []NobodyBanned
<1>1. Init => NobodyBanned
  BY DEF Init, NobodyBanned
<1>2. TypeOK /\ NobodyBanned /\ [Next]_vars => NobodyBanned'
  <2> SUFFICES ASSUME TypeOK, NobodyBanned, [Next]_vars
               PROVE  NobodyBanned'
    OBVIOUS
  <2>1. CASE Step
    BY <2>1 DEF Step, DoSetState, DoEnterState, DoDisconnected, DoRelease, DoCheckUploads, DoScan, DoPeerSocket,
                DoInitiate, DoLoop, DoAbortRest, DoRemove, DoErase, DoLegacyRest, DoReply, Enter, world,
                NobodyBanned
  <2>2. ASSUME NEW u \in Uploads, UploadEvent(u)
        PROVE  NobodyBanned'
    BY <2>2 DEF UploadEvent, QueueRequested, UploadFile, LegacyRequest, Add, AbortUpload, RemoveUpload, TransferReply,
                SocketLost, SocketCannotConnect, PositionReceived, DataSent, ReplyTimeout, world, NobodyBanned
  <2>3. ASSUME NEW x \in Users, UserEvent(x)
        PROVE  NobodyBanned'
    <3>1. ~Ban(x) /\ ~Unban(x)
      BY DEF Ban, Unban, Event
    <3> QED BY <2>3, <3>1 DEF UserEvent, PeerReady, PeerConnecting, PeerAsked, PeerUnavailable, PeerOffline, PeerLost,
                  world, NobodyBanned
  <2>4. CASE GlobalEvent
    BY <2>4 DEF GlobalEvent, LoggedIn, LoggedOut, SetSlots, SetAutoClear, NobodyBanned, TypeOK
  <2>5. CASE UNCHANGED vars
    BY <2>5 DEF vars, world, NobodyBanned
  <2> QED BY <2>1, <2>2, <2>3, <2>4, <2>5 DEF Next
<1> QED BY <1>1, <1>2, TypeCorrect, PTL DEF Spec

\* The invariant of the slots: while nobody is banned every upload in progress holds its
\* user's slot, and one that could start has a check of the queue coming.
THEOREM SlotsCorrect == Spec /\ []NobodyBanned => []SlotsInvariant
<1>1. Init => SlotsInvariant
  BY SlotsInitially
<1>2. /\ TypeOK /\ TypeOK' /\ CallsInvariant /\ WaitsInvariant /\ SlotsInvariant
      /\ NobodyBanned /\ NobodyBanned' /\ [Next]_vars
      => SlotsInvariant'
  BY SlotsKept
<1> QED BY <1>1, <1>2, TypeCorrect, CallsCorrect, WaitsCorrect, PTL DEF Spec

\* A user has at most one upload in progress, and each is counted against the slots.
THEOREM ActiveListed == Spec /\ []NobodyBanned => []ActiveIsListed
<1>1. SlotsInvariant => ActiveIsListed
  BY DEF SlotsInvariant
<1> QED BY <1>1, SlotsCorrect, PTL

\* Every path that frees a slot, a user or an upload reaches checkUploads.
THEOREM SlotsUsed == Spec /\ []NobodyBanned => []NoIdleSlot
<1>1. SlotsInvariant => NoIdleSlot
  BY IdleSlots DEF NoIdleSlot, Idle
<1> QED BY <1>1, SlotsCorrect, PTL

\* checkUploads starts the privileged first, and in the order of the queue.
InOrder ==
  \A i, j \in 1 .. Len(uploads) :
    LET u == uploads[i]
        v == uploads[j]
        first == UserOf[u] \in Privileged
        other == UserOf[v] \in Privileged
    IN  /\ Queued(u) /\ state'[u] = "Initiating"
        /\ Startable(v)
        => (first \/ ~other) /\ (first = other => i <= j)

THEOREM OrderKept == Spec /\ []NobodyBanned => StartsInOrder
<1>1. TypeOK /\ CallsInvariant /\ SlotsInvariant /\ [Next]_vars => [InOrder]_vars
  <2> SUFFICES ASSUME TypeOK, CallsInvariant, SlotsInvariant, Next
               PROVE  InOrder
    OBVIOUS
  <2> SUFFICES ASSUME NEW i \in 1 .. Len(uploads), NEW j \in 1 .. Len(uploads),
                      Queued(uploads[i]), state'[uploads[i]] = "Initiating", Startable(uploads[j])
               PROVE  GoesBefore(i, j)
    BY DEF InOrder, GoesBefore
  <2>1. uploads[i] \in Uploads
    BY QueueElement DEF TypeOK
  <2>2. /\ 1 \in 1 .. Len(calls) /\ Progresses(calls[1]) /\ calls[1].up = uploads[i]
        /\ calls[1].st = "Initiating"
    BY <2>1, UploadAssumption, Entering
  <2> QED BY <2>2 DEF SlotsInvariant, StartIsNext
<1> QED BY <1>1, TypeCorrect, CallsCorrect, SlotsCorrect, PTL DEF Spec, StartsInOrder, InOrder

\* The queue implements the abstract pool of slots, whatever the nesting of its calls:
\* a slot is taken only while one is free, and a user holds at most one.
THEOREM PoolImplemented == Spec /\ []NobodyBanned => PoolSpec
<1>1. Init => Pool!Init
  BY DEF Init, Pool!Init, Busy
<1>2. TypeOK /\ TypeOK' /\ CallsInvariant /\ SlotsInvariant /\ [Next]_vars => [Pool!Next]_<<Busy, config.slots>>
  BY PoolStep
<1> QED BY <1>1, <1>2, TypeCorrect, CallsCorrect, SlotsCorrect, PTL DEF Spec, PoolSpec, Pool!Spec
=============================================================================
