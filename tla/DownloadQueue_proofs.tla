------------------------ MODULE DownloadQueue_proofs ------------------------
(***************************************************************************)
(* Two invariants of the downloads that the handlers break on the way:     *)
(* whom we download from (ListedIsActive) and what is still to be asked    *)
(* for (NothingUnasked). Each holds at the end of a handler because of a   *)
(* call that is still to run before; so what the stack may hold is an      *)
(* invariant itself, and comes first.                                      *)
(***************************************************************************)
EXTENDS DownloadManager_proofs

Dead == {"Finished", "Aborted"}

\* Calls that check the queue and ask peers, and whatever they make of a download short of
\* ending it: none of them removes, aborts or takes a download, or drops a socket.
Nested(c) ==
  \/ c.op \in {"check", "peerSocket", "start", "loop", "unenqueue"}
  \/ c.op = "setState" /\ c.st \notin ActiveStates \union {"Finished"}

\* A nested call that has nothing to do with d.
Spares(c, d) == Nested(c) /\ ~(c.op = "setState" /\ c.down = d)

\* Calls that have run in part, at a position of m_Downloads or of add.
Partial(c) == c.op \in {"loop", "addRest"} \/ (c.op = "check" /\ c.i # 1)

\* Calls that no other call waits for.
LastOps == {"offerRest", "pushRest", "accept", "attach", "closed", "load", "loadRest", "allow"}

Progresses(c) == c.op = "setState" /\ c.st \in ActiveStates

\* The call leaves d in a dead state.
Fells(c, d) == c.down = d /\ (c.op = "abortRest" \/ (c.op = "setState" /\ c.st = "Aborted"))

\* The call gives a download that is not enqueued a state or a mark again.
Reenters(c, d) == c.op \in {"setState", "abortRest", "enqueue"} /\ c.down = d

\* No other call waits for a last one.
LastIsLast(list) == \A k \in 1 .. Len(list) : list[k].op \in LastOps => k = Len(list)

\* While a call is in the middle, only nested ones are above it.
PartialIsCovered(list) ==
  \A k \in 1 .. Len(list) : Partial(list[k]) => \A j \in 1 .. k - 1 : Nested(list[j])

\* A download progresses at the end of a handler, or before its closed socket is dropped.
Ticketed(list, k) ==
  /\ list[k].st = "Transferring"
  /\ k + 1 = Len(list)
  /\ list[k + 1].op = "closed" /\ list[k + 1].down = list[k].down

ProgressIsLast(list) ==
  \A k \in 1 .. Len(list) : Progresses(list[k]) => Len(list) = 1 \/ Ticketed(list, k)

\* A download that is no longer enqueued gets its next state; and only a logout takes the
\* downloads of everybody offline.
Requeued(list) ==
  \A k \in 1 .. Len(list) :
    /\ list[k].op = "unenqueue" => \E j \in k + 1 .. Len(list) : Reenters(list[j], list[k].down)
    /\ list[k].op = "loop" => list[k].over # "logout"

\* A download about to be erased is aborted just before.
FelledBefore(list, k) == k # 1 /\ Fells(list[k - 1], list[k].down)

\* Or it is dead, and nothing above revives it.
Buried(k) == state[calls[k].down] \in Dead /\ \A j \in 1 .. k - 1 : Spares(calls[j], calls[k].down)

EraseIsSafe == \A k \in 1 .. Len(calls) : calls[k].op = "erase" => FelledBefore(calls, k) \/ Buried(k)

ProgressIsKnown == Len(calls) = 1 /\ Progresses(calls[1]) => calls[1].down \in Known

StackInvariant ==
  /\ LastIsLast(calls)
  /\ PartialIsCovered(calls)
  /\ ProgressIsLast(calls)
  /\ ProgressIsKnown
  /\ EraseIsSafe
  /\ loggedIn => Requeued(calls)

-----------------------------------------------------------------------------
(* The positions of the stack after a step. *)

LEMMA StackPositions ==
  ASSUME calls \in Seq(Call), calls # <<>>, NEW now \in Seq(Call), Return(now)
  PROVE  /\ calls' \in Seq(Call) /\ Top = calls[1]
         /\ Len(now) \in Nat /\ Len(calls) \in Nat \ {0} /\ Len(calls') = Len(now) + Len(calls) - 1
         /\ \A k \in 1 .. Len(now) : k \in 1 .. Len(calls') /\ calls'[k] = now[k]
         /\ \A k \in 2 .. Len(calls) : k + Len(now) - 1 \in 1 .. Len(calls') /\ calls'[k + Len(now) - 1] = calls[k]
<1> DEFINE n == Len(now)
           m == Len(calls)
           t == Tail(calls)
<1>1. /\ t \in Seq(Call) /\ Len(t) = m - 1 /\ m \in Nat \ {0} /\ Top = calls[1] /\ n \in Nat
      /\ \A j \in 1 .. m - 1 : t[j] = calls[j + 1]
  BY HeadTailProperties, LenProperties DEF Top
<1>2. calls' = now \o t
  BY DEF Return
<1> HIDE DEF n, m, t
<1>3. /\ calls' \in Seq(Call) /\ Len(calls') = n + (m - 1)
      /\ \A i \in 1 .. n + (m - 1) : calls'[i] = IF i <= n THEN now[i] ELSE t[i - n]
  BY <1>1, <1>2, ConcatProperties DEF n
<1>4. \A k \in 1 .. n : k \in 1 .. n + (m - 1) /\ calls'[k] = now[k]
  BY <1>1, <1>3
<1>5. ASSUME NEW k \in 2 .. m
      PROVE  k + n - 1 \in 1 .. n + (m - 1) /\ calls'[k + n - 1] = calls[k]
  <2> DEFINE i == k + n - 1
             j == k - 1
  <2>1. i \in 1 .. n + (m - 1) /\ ~(i <= n) /\ i - n = j /\ j \in 1 .. m - 1 /\ j + 1 = k
    BY <1>1
  <2> HIDE DEF i, j
  <2>2. calls'[i] = t[j]
    BY <1>3, <2>1
  <2>3. t[j] = calls[k]
    BY <1>1, <2>1
  <2> QED BY <2>1, <2>2, <2>3 DEF i
<1>6. Len(calls') = n + m - 1
  BY <1>1, <1>3
<1> QED BY <1>1, <1>3, <1>4, <1>5, <1>6 DEF n, m

\* Where a call under the top goes.
LEMMA StackMoves ==
  ASSUME calls \in Seq(Call), calls # <<>>, NEW now \in Seq(Call), Return(now)
  PROVE  \E up \in [2 .. Len(calls) -> 1 .. Len(calls')] :
           /\ \A i \in 2 .. Len(calls) : calls'[up[i]] = calls[i] /\ up[i] > Len(now)
           /\ \A i, j \in 2 .. Len(calls) : (i < j <=> up[i] < up[j]) /\ (i = j + 1 <=> up[i] = up[j] + 1)
           /\ \A i \in 2 .. Len(calls) : up[i] = Len(calls') <=> i = Len(calls)
           /\ \A k \in 1 .. Len(calls') : k \in 1 .. Len(now) \/ \E i \in 2 .. Len(calls) : k = up[i]
           /\ 2 \in 2 .. Len(calls) => up[2] = Len(now) + 1
<1> DEFINE n == Len(now)
           m == Len(calls)
           up == [i \in 2 .. m |-> i + n - 1]
<1>1. /\ n \in Nat /\ m \in Nat \ {0} /\ Len(calls') = n + m - 1
      /\ \A k \in 2 .. m : k + n - 1 \in 1 .. Len(calls') /\ calls'[k + n - 1] = calls[k]
  BY StackPositions
<1> HIDE DEF n, m
<1>2. up \in [2 .. m -> 1 .. Len(calls')]
  BY <1>1
<1>3. \A i \in 2 .. m : calls'[up[i]] = calls[i]
  BY <1>1
<1>4. \A i \in 2 .. m : up[i] > n /\ (up[i] = Len(calls') <=> i = m)
  BY <1>1
<1>5. \A i, j \in 2 .. m : (i < j <=> up[i] < up[j]) /\ (i = j + 1 <=> up[i] = up[j] + 1)
  BY <1>1
<1>6. ASSUME NEW k \in 1 .. Len(calls'), k \notin 1 .. n
      PROVE  \E i \in 2 .. m : k = up[i]
  <2>1. k - n + 1 \in 2 .. m /\ k = up[k - n + 1]
    BY <1>1, <1>6
  <2> QED BY <2>1
<1>7. 2 \in 2 .. m => up[2] = n + 1
  BY <1>1
<1> HIDE DEF up
<1> QED BY <1>2, <1>3, <1>4, <1>5, <1>6, <1>7 DEF n, m

-----------------------------------------------------------------------------
(* What a step does to the stack.                                          *)

\* What the stack may get from a call that returns: "now", which runs before what is pending.
Pushed(now) ==
  /\ \A k \in 1 .. Len(now) : now[k].op \in LastOps => k = Len(now) /\ Top.op \in LastOps
  /\ PartialIsCovered(now)
  /\ \A k \in 1 .. Len(now) : Progresses(now[k]) => Len(now) = 1 /\ Top.op \in LastOps /\ now[k].down \in Known'
  /\ \A k \in 1 .. Len(now) : now[k].op = "erase" => FelledBefore(now, k)
  /\ loggedIn => Requeued(now)
  /\ Nested(Top) => \A k \in 1 .. Len(now) : Nested(now[k])

\* A dead download stays dead under a nested call.
StaysDead(now) ==
  \A d \in Downloads :
    (Spares(Top, d) /\ state[d] \in Dead) \/ Fells(Top, d) =>
      \/ state'[d] \in Dead /\ \A k \in 1 .. Len(now) : Spares(now[k], d)
      \/ Fells(Top, d) /\ now # <<>> /\ Fells(now[Len(now)], d)

LEMMA StackStep ==
  ASSUME calls \in Seq(Call), calls # <<>>, StackInvariant, loggedIn' = loggedIn,
         NEW now \in Seq(Call), Return(now), Pushed(now), StaysDead(now)
  PROVE  StackInvariant'
<1> DEFINE n == Len(now)
           m == Len(calls)
           l == Len(calls')
<1>1. /\ calls' \in Seq(Call) /\ Top = calls[1] /\ n \in Nat /\ m \in Nat \ {0} /\ l = n + m - 1
      /\ \A k \in 1 .. n : k \in 1 .. l /\ calls'[k] = now[k]
  BY StackPositions
<1>2. PICK up \in [2 .. m -> 1 .. l] :
           /\ \A i \in 2 .. m : calls'[up[i]] = calls[i] /\ up[i] > n
           /\ \A i, j \in 2 .. m : (i < j <=> up[i] < up[j]) /\ (i = j + 1 <=> up[i] = up[j] + 1)
           /\ \A i \in 2 .. m : up[i] = l <=> i = m
           /\ \A k \in 1 .. l : k \in 1 .. n \/ \E i \in 2 .. m : k = up[i]
           /\ 2 \in 2 .. m => up[2] = n + 1
  BY StackMoves
<1>3. /\ LastIsLast(calls) /\ PartialIsCovered(calls) /\ ProgressIsLast(calls) /\ EraseIsSafe
      /\ loggedIn => Requeued(calls)
  BY DEF StackInvariant
<1>4. \A k \in 1 .. l : k \in Nat
  BY <1>1
<1> HIDE DEF n, m, l
<1>5. Top.op \in LastOps => m = 1
  <2>1. 1 \in 1 .. m
    BY <1>1
  <2> QED BY <1>1, <1>3, <2>1 DEF LastIsLast, m
<1>6. m = 1 => n = l
  BY <1>1
<1>7. LastIsLast(calls')
  <2> SUFFICES ASSUME NEW k \in 1 .. l, calls'[k].op \in LastOps
               PROVE  k = l
    BY DEF LastIsLast, l
  <2>1. CASE k \in 1 .. n
    BY <1>1, <1>5, <1>6, <2>1 DEF Pushed, n
  <2>2. CASE \E i \in 2 .. m : k = up[i]
    <3>1. PICK i \in 2 .. m : k = up[i]
      BY <2>2
    <3>2. i \in 1 .. m
      BY <1>1
    <3> QED BY <1>2, <1>3, <3>1, <3>2 DEF LastIsLast, m
  <2> QED BY <1>2, <2>1, <2>2
<1>8. PartialIsCovered(calls')
  <2> SUFFICES ASSUME NEW k \in 1 .. l, Partial(calls'[k]), NEW j \in 1 .. k - 1
               PROVE  Nested(calls'[j])
    BY DEF PartialIsCovered, l
  <2>0. j \in 1 .. l /\ j < k
    BY <1>1
  <2>1. CASE k \in 1 .. n
    <3>1. j \in 1 .. n
      BY <1>1, <2>1
    <3> QED BY <1>1, <2>1, <3>1 DEF Pushed, PartialIsCovered, n
  <2>2. CASE \E i \in 2 .. m : k = up[i]
    <3>1. PICK i \in 2 .. m : k = up[i]
      BY <2>2
    <3>2. i \in 1 .. m /\ 1 \in 1 .. i - 1 /\ \A h \in 2 .. m : h < i => h \in 1 .. i - 1
      BY <1>1
    <3>3. \A h \in 1 .. i - 1 : Nested(calls[h])
      BY <1>2, <1>3, <3>1, <3>2 DEF PartialIsCovered, m
    <3>4. CASE j \in 1 .. n
      <4>1. Nested(Top)
        BY <1>1, <3>2, <3>3
      <4> QED BY <1>1, <3>4, <4>1 DEF Pushed, n
    <3>5. CASE \E h \in 2 .. m : j = up[h]
      <4>1. PICK h \in 2 .. m : j = up[h]
        BY <3>5
      <4>2. h < i
        BY <1>2, <2>0, <3>1, <4>1
      <4> QED BY <1>2, <3>2, <3>3, <4>1, <4>2
    <3> QED BY <1>2, <2>0, <3>4, <3>5
  <2> QED BY <1>2, <2>1, <2>2
<1>9. ASSUME NEW i \in 2 .. m, Progresses(calls[i])
      PROVE  Ticketed(calls, i) /\ i + 1 \in 2 .. m /\ up[i] + 1 = up[i + 1] /\ i + 1 = m
  <2>1. i \in 1 .. m /\ m # 1
    BY <1>1
  <2>2. Ticketed(calls, i)
    BY <1>3, <1>9, <2>1 DEF ProgressIsLast, m
  <2>3. i + 1 = m
    BY <2>2 DEF Ticketed, m
  <2>4. i + 1 \in 2 .. m
    BY <1>1, <2>3
  <2> QED BY <1>2, <2>2, <2>3, <2>4
<1>10. ProgressIsLast(calls')
  <2> SUFFICES ASSUME NEW k \in 1 .. l, Progresses(calls'[k])
               PROVE  l = 1 \/ Ticketed(calls', k)
    BY DEF ProgressIsLast, l
  <2>1. CASE k \in 1 .. n
    BY <1>1, <1>5, <1>6, <2>1 DEF Pushed, n
  <2>2. CASE \E i \in 2 .. m : k = up[i]
    <3>1. PICK i \in 2 .. m : k = up[i]
      BY <2>2
    <3>2. Progresses(calls[i])
      BY <1>2, <3>1
    <3>3. Ticketed(calls, i) /\ i + 1 \in 2 .. m /\ k + 1 = up[i + 1] /\ i + 1 = m
      BY <1>9, <3>1, <3>2
    <3>4. k + 1 = l /\ calls'[k + 1] = calls[i + 1] /\ calls'[k] = calls[i]
      BY <1>2, <3>1, <3>3
    <3> QED BY <3>3, <3>4 DEF Ticketed, l
  <2> QED BY <1>2, <2>1, <2>2
<1>11. ProgressIsKnown'
  <2> SUFFICES ASSUME l = 1, Progresses(calls'[1])
               PROVE  calls'[1].down \in Known'
    BY DEF ProgressIsKnown, Progresses, l
  <2>1. 1 \in 1 .. l
    BY <1>1
  <2>2. CASE 1 \in 1 .. n
    BY <1>1, <2>2 DEF Pushed, n
  <2>3. CASE \E i \in 2 .. m : 1 = up[i]
    <3>1. PICK i \in 2 .. m : 1 = up[i]
      BY <2>3
    <3>2. Progresses(calls[i])
      BY <1>2, <3>1
    <3>3. i + 1 \in 2 .. m /\ up[i] + 1 = up[i + 1]
      BY <1>9, <3>2
    <3>4. up[i + 1] \in 1 .. 1
      BY <1>2, <3>3
    <3> QED BY <3>1, <3>3, <3>4
  <2> QED BY <1>2, <2>1, <2>2, <2>3
<1>12. EraseIsSafe'
  <2> SUFFICES ASSUME NEW k \in 1 .. l, calls'[k].op = "erase"
               PROVE  \/ FelledBefore(calls', k)
                      \/ state'[calls'[k].down] \in Dead /\ \A j \in 1 .. k - 1 : Spares(calls'[j], calls'[k].down)
    BY DEF EraseIsSafe, FelledBefore, Buried, Fells, Spares, Nested, l
  <2> DEFINE d == calls'[k].down
  <2>0. d \in Downloads
    <3>1. calls'[k] \in Call
      BY <1>1, ElementOfSeq DEF l
    <3> QED BY <3>1, CallFields DEF DownOps
  <2>1. CASE k \in 1 .. n
    <3>1. FelledBefore(now, k)
      BY <1>1, <2>1 DEF Pushed, n
    <3>2. k - 1 \in 1 .. n
      BY <1>1, <2>1, <3>1 DEF FelledBefore
    <3> QED BY <1>1, <2>1, <3>1, <3>2 DEF FelledBefore
  <2>2. CASE \E i \in 2 .. m : k = up[i]
    <3>1. PICK i \in 2 .. m : k = up[i]
      BY <2>2
    <3>a. i \in 1 .. m
      BY <1>1
    <3>2. calls[i] = calls'[k] /\ i \in 1 .. m
      BY <1>2, <3>1, <3>a
    <3>3. FelledBefore(calls, i) \/ Buried(i)
      BY <1>3, <3>2 DEF EraseIsSafe, m
    <3>4. ASSUME state'[d] \in Dead, \A h \in 1 .. n : Spares(now[h], d), \A h \in 2 .. i - 1 : Spares(calls[h], d)
          PROVE  \A j \in 1 .. k - 1 : Spares(calls'[j], d)
      <4> SUFFICES ASSUME NEW j \in 1 .. k - 1
                   PROVE  Spares(calls'[j], d)
        OBVIOUS
      <4>0. j \in 1 .. l /\ j < k
        BY <1>1
      <4>1. CASE j \in 1 .. n
        BY <1>1, <3>4, <4>1
      <4>2. CASE \E h \in 2 .. m : j = up[h]
        <5>1. PICK h \in 2 .. m : j = up[h]
          BY <4>2
        <5>2. h < i
          BY <1>2, <3>1, <4>0, <5>1
        <5>3. h \in 2 .. i - 1
          BY <1>1, <5>2
        <5> QED BY <1>2, <3>4, <5>1, <5>3
      <4> QED BY <1>2, <4>0, <4>1, <4>2
    <3>5. CASE i = 2 /\ Fells(Top, d)
      <4>1. CASE state'[d] \in Dead /\ \A h \in 1 .. n : Spares(now[h], d)
        <5>1. \A h \in 2 .. i - 1 : FALSE
          BY <3>5
        <5> QED BY <3>4, <4>1, <5>1
      <4>2. CASE now # <<>> /\ Fells(now[n], d)
        <5>1. k = n + 1 /\ n # 0
          <6>1. n # 0
            BY <4>2 DEF n
          <6> QED BY <1>2, <3>1, <3>5, <6>1
        <5>2. k # 1 /\ k - 1 = n /\ n \in 1 .. n
          BY <1>1, <5>1
        <5> QED BY <1>1, <4>2, <5>2 DEF FelledBefore
      <4> QED BY <2>0, <3>5, <4>1, <4>2 DEF StaysDead, n
    <3>6. CASE FelledBefore(calls, i) /\ i # 2
      <4>1. i - 1 \in 2 .. m /\ i = (i - 1) + 1 /\ i - 1 < i
        BY <1>1, <3>6
      <4> DEFINE h == i - 1
      <4>2. h \in 2 .. m /\ up[i] = up[h] + 1 /\ Fells(calls[h], d)
        <5>1. Fells(calls[h], d)
          BY <3>2, <3>6 DEF FelledBefore
        <5> HIDE DEF d
        <5> QED BY <1>2, <4>1, <5>1
      <4> HIDE DEF h, d
      <4>3. k # 1 /\ k - 1 = up[h] /\ calls'[k - 1] = calls[h]
        <5>1. up[h] \in 1 .. l
          BY <1>2, <4>2
        <5>2. ASSUME NEW a \in 1 .. l, k = a + 1
              PROVE  k # 1 /\ k - 1 = a
          BY <1>1, <5>2
        <5>3. k # 1 /\ k - 1 = up[h]
          BY <3>1, <4>2, <5>1, <5>2
        <5> QED BY <1>2, <4>2, <5>3
      <4> QED BY <4>2, <4>3 DEF FelledBefore, d
    <3>7. CASE Buried(i)
      <4>1. state[d] \in Dead /\ \A j \in 1 .. i - 1 : Spares(calls[j], d)
        BY <3>2, <3>7 DEF Buried
      <4>2. 1 \in 1 .. i - 1
        BY <1>1
      <4>3. Spares(Top, d)
        BY <1>1, <4>1, <4>2
      <4>4. ~Fells(Top, d)
        BY <4>3 DEF Spares, Nested, Fells
      <4>5. state'[d] \in Dead /\ \A h \in 1 .. n : Spares(now[h], d)
        BY <2>0, <4>1, <4>3, <4>4 DEF StaysDead, n
      <4>6. \A h \in 2 .. i - 1 : h \in 1 .. i - 1
        BY <1>1
      <4> HIDE DEF d
      <4> QED BY <3>4, <4>1, <4>5, <4>6 DEF d
    <3>8. FelledBefore(calls, i) /\ i = 2 => Fells(Top, d)
      <4>1. 2 - 1 = 1
        OBVIOUS
      <4> QED BY <1>1, <3>2, <4>1 DEF FelledBefore
    <3> QED BY <3>3, <3>5, <3>6, <3>7, <3>8
  <2> QED BY <1>2, <2>1, <2>2
<1>13. ASSUME loggedIn
       PROVE  Requeued(calls')
  <2> SUFFICES ASSUME NEW k \in 1 .. l
               PROVE  /\ calls'[k].op = "unenqueue" => \E j \in k + 1 .. l : Reenters(calls'[j], calls'[k].down)
                      /\ calls'[k].op = "loop" => calls'[k].over # "logout"
    BY DEF Requeued, l
  <2>1. CASE k \in 1 .. n
    <3>1. calls'[k] = now[k] /\ Requeued(now)
      BY <1>1, <1>13, <2>1 DEF Pushed
    <3>2. ASSUME now[k].op = "unenqueue"
          PROVE  \E j \in k + 1 .. l : Reenters(calls'[j], now[k].down)
      <4>1. PICK j \in k + 1 .. n : Reenters(now[j], now[k].down)
        BY <2>1, <3>1, <3>2 DEF Requeued, n
      <4>2. j \in 1 .. n /\ j \in k + 1 .. l
        BY <1>1, <2>1, <4>1
      <4> QED BY <1>1, <4>1, <4>2
    <3> QED BY <2>1, <3>1, <3>2 DEF Requeued, n
  <2>2. CASE \E i \in 2 .. m : k = up[i]
    <3>1. PICK i \in 2 .. m : k = up[i]
      BY <2>2
    <3>a. i \in 1 .. m
      BY <1>1
    <3>2. calls'[k] = calls[i] /\ i \in 1 .. m /\ Requeued(calls)
      BY <1>2, <1>3, <1>13, <3>1, <3>a
    <3>3. ASSUME calls[i].op = "unenqueue"
          PROVE  \E j \in k + 1 .. l : Reenters(calls'[j], calls[i].down)
      <4>1. PICK j \in i + 1 .. m : Reenters(calls[j], calls[i].down)
        BY <3>2, <3>3 DEF Requeued, m
      <4>2. j \in 2 .. m /\ i < j
        BY <1>1, <4>1
      <4>3. up[j] \in 1 .. l /\ k < up[j] /\ calls'[up[j]] = calls[j]
        BY <1>2, <3>1, <4>2
      <4>4. up[j] \in k + 1 .. l
        BY <1>1, <4>3
      <4> QED BY <4>1, <4>3, <4>4
    <3> QED BY <3>2, <3>3 DEF Requeued, m
  <2> QED BY <1>2, <2>1, <2>2
<1>14. /\ LastIsLast(calls)' /\ PartialIsCovered(calls)' /\ ProgressIsLast(calls)'
       /\ (loggedIn => Requeued(calls))'
  <2>1. LastIsLast(calls)'
    BY <1>7 DEF LastIsLast
  <2>2. PartialIsCovered(calls)'
    BY <1>8 DEF PartialIsCovered, Partial, Nested
  <2>3. ProgressIsLast(calls)'
    BY <1>10 DEF ProgressIsLast, Progresses, Ticketed
  <2>4. (loggedIn => Requeued(calls))'
    BY <1>13 DEF Requeued, Reenters
  <2> QED BY <2>1, <2>2, <2>3, <2>4
<1> QED BY <1>11, <1>12, <1>14 DEF StackInvariant

-----------------------------------------------------------------------------
(* The lists of calls that handlers which are not nested push.             *)

\* Nothing in the list is partial, progresses, or needs a call that is not in the list.
Tame(list) ==
  \A k \in 1 .. Len(list) :
    /\ ~Partial(list[k]) /\ ~Progresses(list[k])
    /\ list[k].op \in LastOps => k = Len(list)
    /\ list[k].op = "erase" => FelledBefore(list, k)
    /\ list[k].op = "unenqueue" => \E j \in k + 1 .. Len(list) : Reenters(list[j], list[k].down)

TameCalls == {list \in Seq(Call) : Tame(list)}
FreeCalls == {list \in TameCalls : \A k \in 1 .. Len(list) : list[k].op \notin LastOps}

\* A call that may stand anywhere in such a list.
FreeCall ==
  {c \in Call : ~Partial(c) /\ ~Progresses(c) /\ c.op \notin LastOps \union {"erase", "unenqueue"}}

LEMMA FreeCallNames ==
  /\ \A d \in Downloads, s \in TrStates \ ActiveStates : SetState(d, s) \in FreeCall
  /\ \A d \in Downloads, o \in DownOps \ (LastOps \union {"erase", "unenqueue", "addRest"}) : Do(o, d) \in FreeCall
  /\ CheckDownloads \in FreeCall
  /\ \A x \in Users : PeerSocket(x) \in FreeCall
  /\ \A e \in Entries : [op |-> "loadState", entry |-> e] \in FreeCall
<1> USE CallTypes DEF FreeCall, Partial, Progresses, LastOps
<1>1. \A d \in Downloads, s \in TrStates \ ActiveStates : SetState(d, s) \in FreeCall
  BY DEF SetState
<1>2. \A d \in Downloads, o \in DownOps \ (LastOps \union {"erase", "unenqueue", "addRest"}) : Do(o, d) \in FreeCall
  BY DEF Do, DownOps
<1>3. CheckDownloads \in FreeCall
  BY DEF CheckDownloads, CheckFrom
<1>4. \A x \in Users : PeerSocket(x) \in FreeCall
  BY DEF PeerSocket
<1>5. \A e \in Entries : [op |-> "loadState", entry |-> e] \in FreeCall
  OBVIOUS
<1> QED BY <1>1, <1>2, <1>3, <1>4, <1>5

LEMMA FewFree ==
  /\ <<>> \in FreeCalls
  /\ \A a \in FreeCall : <<a>> \in FreeCalls
  /\ \A a, b \in FreeCall : <<a, b>> \in FreeCalls
  /\ \A a, b, c \in FreeCall : <<a, b, c>> \in FreeCalls
<1>1. ASSUME NEW list \in Seq(FreeCall)
      PROVE  list \in FreeCalls
  <2>1. \A k \in 1 .. Len(list) : list[k] \in FreeCall
    BY ElementOfSeq
  <2>2. list \in Seq(Call)
    BY DEF FreeCall
  <2> QED BY <2>1, <2>2 DEF FreeCalls, TameCalls, Tame, FreeCall
<1>2. /\ <<>> \in Seq(FreeCall)
      /\ \A a \in FreeCall : <<a>> \in Seq(FreeCall)
      /\ \A a, b \in FreeCall : <<a, b>> \in Seq(FreeCall)
      /\ \A a, b, c \in FreeCall : <<a, b, c>> \in Seq(FreeCall)
  OBVIOUS
<1> QED BY <1>1, <1>2

\* One such list before another.
LEMMA MoreTame ==
  ASSUME NEW s \in FreeCalls, NEW t \in TameCalls
  PROVE  s \o t \in TameCalls /\ (t \in FreeCalls => s \o t \in FreeCalls)
<1> DEFINE m == Len(s)
           n == Len(t)
           L == s \o t
           up(j) == j + m
<1>1. /\ s \in Seq(Call) /\ t \in Seq(Call) /\ Tame(s) /\ Tame(t) /\ m \in Nat /\ n \in Nat
      /\ \A k \in 1 .. m : s[k].op \notin LastOps
  BY LenProperties DEF FreeCalls, TameCalls
<1>2. /\ L \in Seq(Call) /\ Len(L) = m + n
      /\ \A i \in 1 .. m + n : L[i] = IF i <= m THEN s[i] ELSE t[i - m]
  BY <1>1, ConcatProperties
<1> HIDE DEF L, m, n
<1>3. \A j \in 1 .. m : j \in 1 .. m + n /\ L[j] = s[j]
  BY <1>1, <1>2
<1>4. \A j \in 1 .. n : up(j) \in 1 .. m + n /\ L[up(j)] = t[j]
  <2>1. ASSUME NEW j \in 1 .. n
        PROVE  j + m \in 1 .. m + n /\ ~(j + m <= m) /\ (j + m) - m = j
    BY <1>1
  <2> QED BY <1>2, <2>1
<1>5. /\ \A i, j \in 1 .. n : i < j <=> up(i) < up(j)
      /\ \A j \in 1 .. n : j # 1 => j - 1 \in 1 .. n /\ up(j) - 1 = up(j - 1) /\ up(j) # 1
      /\ \A j \in 1 .. n : up(j) = m + n <=> j = n
  BY <1>1
<1>6. \A k \in 1 .. m + n : k \in 1 .. m \/ \E i \in 1 .. n : k = up(i)
  <2> SUFFICES ASSUME NEW k \in 1 .. m + n, k \notin 1 .. m
               PROVE  \E i \in 1 .. n : k = up(i)
    OBVIOUS
  <2>1. k - m \in 1 .. n /\ k = up(k - m)
    BY <1>1
  <2> QED BY <2>1
<1> HIDE DEF up
<1>7. ASSUME NEW k \in 1 .. m + n
      PROVE  /\ ~Partial(L[k]) /\ ~Progresses(L[k])
             /\ L[k].op \in LastOps => k = m + n
             /\ L[k].op = "erase" => FelledBefore(L, k)
             /\ L[k].op = "unenqueue" => \E j \in k + 1 .. m + n : Reenters(L[j], L[k].down)
             /\ (\A i \in 1 .. n : t[i].op \notin LastOps) => L[k].op \notin LastOps
  <2>1. CASE k \in 1 .. m
    <3>1. L[k] = s[k] /\ s[k].op \notin LastOps
      BY <1>1, <1>3, <2>1
    <3>2. /\ ~Partial(s[k]) /\ ~Progresses(s[k])
          /\ s[k].op = "erase" => FelledBefore(s, k)
          /\ s[k].op = "unenqueue" => \E j \in k + 1 .. m : Reenters(s[j], s[k].down)
      BY <1>1, <2>1 DEF Tame, m
    <3>3. s[k].op = "erase" => FelledBefore(L, k)
      <4> SUFFICES ASSUME s[k].op = "erase"
                   PROVE  FelledBefore(L, k)
        OBVIOUS
      <4>1. k # 1 /\ Fells(s[k - 1], s[k].down)
        BY <3>2 DEF FelledBefore
      <4>2. k - 1 \in 1 .. m
        BY <1>1, <2>1, <4>1
      <4> QED BY <1>3, <3>1, <4>1, <4>2 DEF FelledBefore
    <3>4. s[k].op = "unenqueue" => \E j \in k + 1 .. m + n : Reenters(L[j], s[k].down)
      <4> SUFFICES ASSUME s[k].op = "unenqueue"
                   PROVE  \E j \in k + 1 .. m + n : Reenters(L[j], s[k].down)
        OBVIOUS
      <4>1. PICK j \in k + 1 .. m : Reenters(s[j], s[k].down)
        BY <3>2
      <4>2. j \in 1 .. m /\ j \in k + 1 .. m + n
        BY <1>1, <2>1
      <4> QED BY <1>3, <4>1, <4>2
    <3> QED BY <3>1, <3>2, <3>3, <3>4
  <2>2. CASE \E i \in 1 .. n : k = up(i)
    <3>1. PICK i \in 1 .. n : k = up(i)
      BY <2>2
    <3>2. L[k] = t[i] /\ (k = m + n <=> i = n)
      BY <1>4, <1>5, <3>1
    <3>3. /\ ~Partial(t[i]) /\ ~Progresses(t[i])
          /\ t[i].op \in LastOps => i = n
          /\ t[i].op = "erase" => FelledBefore(t, i)
          /\ t[i].op = "unenqueue" => \E j \in i + 1 .. n : Reenters(t[j], t[i].down)
      BY <1>1 DEF Tame, n
    <3>4. t[i].op = "erase" => FelledBefore(L, k)
      <4> SUFFICES ASSUME t[i].op = "erase"
                   PROVE  FelledBefore(L, k)
        OBVIOUS
      <4>1. i # 1 /\ Fells(t[i - 1], t[i].down)
        BY <3>3 DEF FelledBefore
      <4>2. i - 1 \in 1 .. n /\ k - 1 = up(i - 1) /\ k # 1
        BY <1>5, <3>1, <4>1
      <4>3. L[k - 1] = t[i - 1]
        BY <1>4, <4>2
      <4> QED BY <3>2, <4>1, <4>2, <4>3 DEF FelledBefore
    <3>5. t[i].op = "unenqueue" => \E j \in k + 1 .. m + n : Reenters(L[j], t[i].down)
      <4> SUFFICES ASSUME t[i].op = "unenqueue"
                   PROVE  \E j \in k + 1 .. m + n : Reenters(L[j], t[i].down)
        OBVIOUS
      <4>1. PICK j \in i + 1 .. n : Reenters(t[j], t[i].down)
        BY <3>3
      <4>2. j \in 1 .. n /\ i < j
        BY <1>1, <4>1
      <4>3. up(j) \in 1 .. m + n /\ k < up(j) /\ L[up(j)] = t[j]
        BY <1>4, <1>5, <3>1, <4>2
      <4>4. up(j) \in k + 1 .. m + n
        BY <1>1, <4>3
      <4> QED BY <4>1, <4>3, <4>4
    <3> QED BY <3>2, <3>3, <3>4, <3>5
  <2> QED BY <1>6, <2>1, <2>2
<1>8. L \in TameCalls
  BY <1>2, <1>7 DEF TameCalls, Tame
<1>9. (\A i \in 1 .. n : t[i].op \notin LastOps) => L \in FreeCalls
  BY <1>2, <1>7, <1>8 DEF FreeCalls
<1> QED BY <1>8, <1>9 DEF L, FreeCalls, n

\* A last call, alone or behind others.
LEMMA LastTame ==
  ASSUME NEW c \in Call, c.op \in LastOps
  PROVE  /\ <<c>> \in TameCalls
         /\ \A s \in FreeCalls : Append(s, c) \in TameCalls
<1>1. ~Partial(c) /\ ~Progresses(c) /\ c.op \notin {"erase", "unenqueue"}
  BY DEF Partial, Progresses, LastOps
<1>2. <<c>> \in TameCalls
  <2>1. <<c>> \in Seq(Call) /\ Len(<<c>>) = 1 /\ <<c>>[1] = c
    OBVIOUS
  <2> QED BY <1>1, <2>1 DEF TameCalls, Tame
<1>3. ASSUME NEW s \in FreeCalls
      PROVE  Append(s, c) \in TameCalls
  <2>1. s \in Seq(Call)
    BY DEF FreeCalls, TameCalls
  <2>2. Append(s, c) = s \o <<c>>
    BY <2>1, AppendIsConcat
  <2> QED BY <1>2, <2>2, MoreTame
<1> QED BY <1>2, <1>3

\* A download that is no longer enqueued, and its next state.
LEMMA RequeueTame ==
  ASSUME NEW d \in Downloads
  PROVE  /\ \A s \in TrStates \ ActiveStates : <<Do("unenqueue", d), SetState(d, s)>> \in FreeCalls
         /\ <<Do("unenqueue", d), Do("abortRest", d)>> \in FreeCalls
         /\ <<Do("unenqueue", d), Do("enqueue", d)>> \in FreeCalls
         /\ <<Do("unenqueue", d), Do("abortRest", d), Do("erase", d)>> \in FreeCalls
<1> DEFINE u == Do("unenqueue", d)
           e == Do("erase", d)
           b == Do("abortRest", d)
<1>1. /\ u \in Call /\ u.op = "unenqueue" /\ u.down = d /\ ~Partial(u) /\ ~Progresses(u)
      /\ e \in Call /\ e.op = "erase" /\ e.down = d /\ ~Partial(e) /\ ~Progresses(e)
  <2>1. u \in Call /\ e \in Call
    BY CallTypes DEF DownOps
  <2> QED BY <2>1 DEF Do, Partial, Progresses
<1>2. ASSUME NEW c \in FreeCall, Reenters(c, d)
      PROVE  <<u, c>> \in FreeCalls /\ (Fells(c, d) => <<u, c, e>> \in FreeCalls)
  <2> HIDE DEF u, e
  <2>1. c \in Call /\ ~Partial(c) /\ ~Progresses(c) /\ c.op \notin LastOps \union {"erase", "unenqueue"}
    BY DEF FreeCall
  <2>2. "unenqueue" \notin LastOps /\ "erase" \notin LastOps
    BY DEF LastOps
  <2>3. <<u, c>> \in FreeCalls
    <3> DEFINE t == <<u, c>>
    <3>1. t \in Seq(Call) /\ Len(t) = 2 /\ t[1] = u /\ t[2] = c
      BY <1>1, <2>1
    <3>2. 2 \in 1 + 1 .. 2
      OBVIOUS
    <3>3. ASSUME NEW k \in 1 .. 2
          PROVE  k = 1 \/ k = 2
      BY <3>3
    <3> HIDE DEF t
    <3>4. Tame(t) /\ \A k \in 1 .. 2 : t[k].op \notin LastOps
      BY <1>1, <1>2, <2>1, <2>2, <3>1, <3>2, <3>3 DEF Tame
    <3> QED BY <3>1, <3>4 DEF FreeCalls, TameCalls, t
  <2>4. ASSUME Fells(c, d)
        PROVE  <<u, c, e>> \in FreeCalls
    <3> DEFINE t == <<u, c, e>>
    <3>1. t \in Seq(Call) /\ Len(t) = 3 /\ t[1] = u /\ t[2] = c /\ t[3] = e
      BY <1>1, <2>1
    <3>2. 2 \in 1 + 1 .. 3 /\ 3 - 1 = 2 /\ 3 # 1
      OBVIOUS
    <3>3. ASSUME NEW k \in 1 .. 3
          PROVE  k = 1 \/ k = 2 \/ k = 3
      BY <3>3
    <3> HIDE DEF t
    <3>4. FelledBefore(t, 3)
      BY <1>1, <2>4, <3>1, <3>2 DEF FelledBefore
    <3>5. Tame(t) /\ \A k \in 1 .. 3 : t[k].op \notin LastOps
      BY <1>1, <1>2, <2>1, <2>2, <3>1, <3>2, <3>3, <3>4 DEF Tame
    <3> QED BY <3>1, <3>5 DEF FreeCalls, TameCalls, t
  <2> QED BY <2>3, <2>4
<1>3. b \in FreeCall /\ Do("enqueue", d) \in FreeCall
  BY FreeCallNames DEF DownOps, LastOps
<1>4. Reenters(b, d) /\ Fells(b, d) /\ Reenters(Do("enqueue", d), d)
  BY DEF Do, Reenters, Fells
<1>5. \A s \in TrStates \ ActiveStates : SetState(d, s) \in FreeCall /\ Reenters(SetState(d, s), d)
  BY FreeCallNames DEF SetState, Reenters
<1> HIDE DEF u, e, b
<1> QED BY <1>2, <1>3, <1>4, <1>5 DEF u, e, b

LEMMA InactiveNames ==
  {"ConnectionClosed", "CannotConnect", "RemoteError", "QueuedRemotely", "Offline", "Finished", "Aborted"}
    \subseteq TrStates \ ActiveStates
BY DEF TrStates, ActiveStates, FailedStates

\* What the handlers push.
LEMMA HandlerTame ==
  ASSUME NEW d \in Downloads
  PROVE  /\ DropSocket(d) \in FreeCalls
         /\ \A s \in TrStates \ ActiveStates : Fail(d, s) \in FreeCalls
         /\ \A s \in TrStates : Aftermath(d, s) \in FreeCalls
         /\ AbortCalls(d) \in FreeCalls
         /\ Append(AbortCalls(d), Do("erase", d)) \in FreeCalls
<1>0. \A o \in DownOps \ (LastOps \union {"erase", "unenqueue", "addRest"}) : Do(o, d) \in FreeCall
  BY FreeCallNames
<1>1. DropSocket(d) \in FreeCalls
  <2>1. (IF socket[d] = "none" THEN <<>> ELSE <<Do("disconnected", d)>>) \in FreeCalls
    BY <1>0, FewFree DEF DownOps, LastOps
  <2>2. <<Do("release", d)>> \in FreeCalls
    BY <1>0, FewFree DEF DownOps, LastOps
  <2> QED BY <2>1, <2>2, MoreTame DEF DropSocket, FreeCalls
<1>2. \A t \in FreeCalls : DropSocket(d) \o t \in FreeCalls
  BY <1>1, MoreTame DEF FreeCalls
<1>3. \A s \in TrStates \ ActiveStates : Fail(d, s) \in FreeCalls
  BY <1>2, RequeueTame DEF Fail
<1>4. AbortCalls(d) \in FreeCalls
  BY <1>2, RequeueTame DEF AbortCalls
<1>5. Append(AbortCalls(d), Do("erase", d)) \in FreeCalls
  <2> DEFINE s == DropSocket(d)
             t == <<Do("unenqueue", d), Do("abortRest", d)>>
             e == Do("erase", d)
  <2>1. s \o <<Do("unenqueue", d), Do("abortRest", d), e>> \in FreeCalls
    BY <1>2, RequeueTame
  <2>2. <<Do("unenqueue", d), Do("abortRest", d), e>> = t \o <<e>>
    OBVIOUS
  <2>3. s \in Seq(Call) /\ t \in Seq(Call) /\ <<e>> \in Seq(Call) /\ e \in Call
    <3>1. e \in Call
      BY CallTypes DEF DownOps
    <3>2. s \in Seq(Call) /\ t \in Seq(Call)
      BY <1>1, RequeueTame DEF FreeCalls, TameCalls
    <3> QED BY <3>1, <3>2, FewCalls
  <2>4. AbortCalls(d) = s \o t
    BY DEF AbortCalls
  <2> HIDE DEF s, t, e
  <2>5. s \o t \in Seq(Call)
    BY <2>3, ConcatProperties
  <2>6. Append(s \o t, e) = (s \o t) \o <<e>>
    BY <2>3, <2>5, AppendIsConcat
  <2>7. (s \o t) \o <<e>> = s \o (t \o <<e>>)
    BY <2>3, ConcatAssociative
  <2> QED BY <2>1, <2>2, <2>4, <2>6, <2>7 DEF e
<1>6. ASSUME NEW s \in TrStates
      PROVE  Aftermath(d, s) \in FreeCalls
  <2>1. <<CheckDownloads>> \in FreeCalls /\ <<Do("remove", d)>> \in FreeCalls /\ <<>> \in FreeCalls
    BY <1>0, FreeCallNames, FewFree DEF DownOps, LastOps
  <2> QED BY <2>1, MoreTame DEF Aftermath, FreeCalls
<1> QED BY <1>1, <1>3, <1>4, <1>5, <1>6

\* A list of three calls, in two parts.
LEMMA OneAndTwo ==
  ASSUME NEW a \in Call, NEW b \in Call, NEW c \in Call
  PROVE  <<a>> \o <<b, c>> = <<a, b, c>>
<1>1. /\ <<a>> \in Seq(Call) /\ Len(<<a>>) = 1 /\ <<a>>[1] = a
      /\ <<b, c>> \in Seq(Call) /\ Len(<<b, c>>) = 2 /\ <<b, c>>[1] = b /\ <<b, c>>[2] = c
      /\ <<a, b, c>> \in Seq(Call) /\ Len(<<a, b, c>>) = 3
  OBVIOUS
<1> DEFINE l == <<a>> \o <<b, c>>
<1>2. l \in Seq(Call) /\ Len(l) = 3 /\ l[1] = a /\ l[2] = b /\ l[3] = c
  <2>1. /\ l \in Seq(Call) /\ Len(l) = 1 + 2
        /\ \A i \in 1 .. 1 + 2 : l[i] = IF i <= 1 THEN <<a>>[i] ELSE <<b, c>>[i - 1]
    BY <1>1, ConcatProperties
  <2>2. 1 \in 1 .. 1 + 2 /\ 2 \in 1 .. 1 + 2 /\ 3 \in 1 .. 1 + 2 /\ 2 - 1 = 1 /\ 3 - 1 = 2 /\ 1 + 2 = 3
    OBVIOUS
  <2> HIDE DEF l
  <2> QED BY <1>1, <2>1, <2>2
<1> HIDE DEF l
<1>3. \A i \in 1 .. 3 : l[i] = <<a, b, c>>[i]
  <2>1. \A i \in 1 .. 3 : i = 1 \/ i = 2 \/ i = 3
    OBVIOUS
  <2> QED BY <1>2, <2>1
<1>4. l = <<a, b, c>>
  BY <1>1, <1>2, <1>3, SeqEqual
<1> QED BY <1>4 DEF l

LEMMA TwoAndTwo ==
  ASSUME NEW a \in Call, NEW b \in Call, NEW c \in Call, NEW e \in Call
  PROVE  <<a, b>> \o <<c, e>> = <<a, b, c, e>>
<1>1. /\ <<a, b>> \in Seq(Call) /\ Len(<<a, b>>) = 2 /\ <<a, b>>[1] = a /\ <<a, b>>[2] = b
      /\ <<c, e>> \in Seq(Call) /\ Len(<<c, e>>) = 2 /\ <<c, e>>[1] = c /\ <<c, e>>[2] = e
      /\ <<a, b, c, e>> \in Seq(Call) /\ Len(<<a, b, c, e>>) = 4
      /\ <<a, b, c, e>>[1] = a /\ <<a, b, c, e>>[2] = b /\ <<a, b, c, e>>[3] = c /\ <<a, b, c, e>>[4] = e
  OBVIOUS
<1> DEFINE l == <<a, b>> \o <<c, e>>
           r == <<a, b, c, e>>
<1>2. l \in Seq(Call) /\ Len(l) = 4 /\ l[1] = a /\ l[2] = b /\ l[3] = c /\ l[4] = e
  <2>1. /\ l \in Seq(Call) /\ Len(l) = 2 + 2
        /\ \A i \in 1 .. 2 + 2 : l[i] = IF i <= 2 THEN <<a, b>>[i] ELSE <<c, e>>[i - 2]
    BY <1>1, ConcatProperties
  <2>2. /\ 1 \in 1 .. 2 + 2 /\ 2 \in 1 .. 2 + 2 /\ 3 \in 1 .. 2 + 2 /\ 4 \in 1 .. 2 + 2
        /\ 3 - 2 = 1 /\ 4 - 2 = 2 /\ 2 + 2 = 4
    OBVIOUS
  <2> HIDE DEF l
  <2> QED BY <1>1, <2>1, <2>2
<1>3. r \in Seq(Call) /\ Len(r) = 4 /\ r[1] = a /\ r[2] = b /\ r[3] = c /\ r[4] = e
  BY <1>1
<1> HIDE DEF l, r
<1>4. \A i \in 1 .. 4 : l[i] = r[i]
  <2>1. \A i \in 1 .. 4 : i = 1 \/ i = 2 \/ i = 3 \/ i = 4
    OBVIOUS
  <2> QED BY <1>2, <1>3, <2>1
<1>5. l = r
  BY <1>2, <1>3, <1>4, SeqEqual
<1> QED BY <1>5 DEF l, r

LEMMA PreemptTame ==
  ASSUME DownloadAssumption, TypeOK, NEW d \in Downloads
  PROVE  PreemptCalls(d) \in FreeCalls
<1> DEFINE other == downloading[UserOf[d]]
           q == SetState(other, "QueuedRemotely")
           t == <<Do("unenqueue", other), Do("enqueue", other)>>
           v == <<q, Do("unenqueue", other), Do("enqueue", other)>>
<1>1. CASE other \in {d, NoDownload}
  BY <1>1, FewFree DEF PreemptCalls
<1>2. CASE other \notin {d, NoDownload}
  <2>1. other \in Downloads
    BY <1>2 DEF DownloadAssumption, TypeOK
  <2>6. PreemptCalls(d) = DropSocket(other) \o v
    BY <1>2 DEF PreemptCalls
  <2> HIDE DEF other
  <2>2. q \in FreeCall /\ <<q>> \in FreeCalls /\ t \in FreeCalls /\ DropSocket(other) \in FreeCalls
    BY <2>1, FreeCallNames, FewFree, RequeueTame, InactiveNames, HandlerTame
  <2>3. <<q>> \o t = v
    <3>1. q \in Call /\ Do("unenqueue", other) \in Call /\ Do("enqueue", other) \in Call
      BY <2>1, CallTypes, StateNames DEF DownOps
    <3> HIDE DEF q
    <3> QED BY <3>1, OneAndTwo
  <2>4. <<q>> \o t \in FreeCalls
    BY <2>2, MoreTame DEF FreeCalls
  <2>5. DropSocket(other) \o (<<q>> \o t) \in FreeCalls
    BY <2>2, <2>4, MoreTame DEF FreeCalls
  <2> HIDE DEF q, t, v
  <2> QED BY <2>3, <2>5, <2>6
<1> QED BY <1>1, <1>2

-----------------------------------------------------------------------------
(* Every step of a handler keeps the stack in shape.                       *)

\* A call that is not nested returns.
LEMMA OuterStep ==
  ASSUME TypeOK, StackInvariant, NEW op, Running(op), ~Nested(Top), op # "abortRest",
         NEW now \in TameCalls, now \in FreeCalls \/ op \in LastOps, Return(now), loggedIn' = loggedIn
  PROVE  StackInvariant'
<1>1. calls \in Seq(Call) /\ calls # <<>> /\ Top.op = op
  BY TopType
<1>2. now \in Seq(Call) /\ Tame(now)
  BY DEF TameCalls
<1>3. StaysDead(now)
  BY <1>1 DEF StaysDead, Spares, Fells, Nested, ActiveStates
<1>4. Requeued(now)
  BY <1>2 DEF Requeued, Tame, Partial
<1>5. \A k \in 1 .. Len(now) : now[k].op \in LastOps => k = Len(now) /\ Top.op \in LastOps
  BY <1>1, <1>2 DEF Tame, FreeCalls
<1>6. Pushed(now)
  BY <1>2, <1>4, <1>5 DEF Pushed, Tame, PartialIsCovered
<1> QED BY <1>1, <1>2, <1>3, <1>6, StackStep

\* A nested call returns.
LEMMA NestedStep ==
  ASSUME TypeOK, StackInvariant, NEW op, Running(op), Nested(Top),
         NEW now \in Seq(Call), \A k \in 1 .. Len(now) : Nested(now[k]),
         loggedIn => Requeued(now), StaysDead(now), Return(now), loggedIn' = loggedIn
  PROVE  StackInvariant'
<1>1. calls \in Seq(Call) /\ calls # <<>>
  BY TopType
<1>2. \A k \in 1 .. Len(now) : now[k].op \notin LastOps \union {"erase"} /\ ~Progresses(now[k])
  BY DEF Nested, LastOps, Progresses
<1>3. PartialIsCovered(now)
  <2> SUFFICES ASSUME NEW k \in 1 .. Len(now), NEW j \in 1 .. k - 1
               PROVE  j \in 1 .. Len(now)
    BY DEF PartialIsCovered
  <2>1. Len(now) \in Nat
    BY LenProperties
  <2> HIDE DEF Pushed
  <2> QED BY <2>1
<1>4. Pushed(now)
  BY <1>2, <1>3 DEF Pushed
<1> QED BY <1>1, <1>4, StackStep

\* A nested call returns that neither changes a state nor pushes an assignment.
LEMMA QuietNestedStep ==
  ASSUME TypeOK, StackInvariant, NEW op, Running(op), op \in {"check", "peerSocket", "start", "loop", "unenqueue"},
         NEW now \in Seq(Call), \A k \in 1 .. Len(now) : now[k].op \in {"check", "peerSocket", "start", "loop"},
         \A k \in 1 .. Len(now) : now[k].op = "loop" => now[k].over # "logout",
         \A d \in Downloads : state[d] \in Dead => state'[d] \in Dead,
         Return(now), loggedIn' = loggedIn
  PROVE  StackInvariant'
<1>1. Top.op = op /\ Nested(Top)
  BY TopType DEF Nested
<1>2. \A k \in 1 .. Len(now) : Nested(now[k]) /\ \A d : Spares(now[k], d)
  BY DEF Nested, Spares
<1>3. Requeued(now)
  BY DEF Requeued
<1>4. StaysDead(now)
  BY <1>1, <1>2 DEF StaysDead, Fells
<1> QED BY <1>1, <1>2, <1>3, <1>4, NestedStep

\* The same, when it pushes nothing at all.
LEMMA LeafNestedStep ==
  ASSUME TypeOK, StackInvariant, NEW op, Running(op), op \in {"check", "peerSocket", "start", "loop", "unenqueue"},
         \A d \in Downloads : state[d] \in Dead => state'[d] \in Dead,
         Return(<<>>), loggedIn' = loggedIn
  PROVE  StackInvariant'
<1> DEFINE now == <<>>
<1>1. now \in Seq(Call) /\ \A k \in 1 .. Len(now) : FALSE
  BY FewCalls
<1>2. Return(now)
  OBVIOUS
<1> HIDE DEF now
<1> QED BY <1>1, <1>2, QuietNestedStep

\* Loading the list.
LEMMA LoadStack ==
  ASSUME TypeOK, StackInvariant, DoLoad \/ DoLoadRest \/ DoLoadState \/ DoAllow
  PROVE  StackInvariant'
<1> USE DEF world
<1>1. CASE DoLoad
  <2> DEFINE now == IF hasFile THEN <<LoadRest(saved)>> ELSE <<>>
  <2>1. Top.op = "load" /\ Running("load") /\ Return(now) /\ loggedIn' = loggedIn
    BY <1>1, TopType DEF DoLoad
  <2>2. LoadRest(saved) \in Call /\ LoadRest(saved).op \in LastOps
    BY CallTypes DEF TypeOK, LoadRest, LastOps
  <2>3. now \in TameCalls
    BY <2>2, LastTame, FewFree DEF FreeCalls
  <2>4. ~Nested(Top) /\ "load" \in LastOps
    BY <2>1 DEF Nested, LastOps
  <2> HIDE DEF now
  <2> QED BY <2>1, <2>3, <2>4, OuterStep
<1>2. CASE DoLoadRest
  <2> DEFINE rest == Top.list
             a == Do("add", Head(rest).download)
             b == [op |-> "loadState", entry |-> Head(rest)]
             c == LoadRest(Tail(rest))
  <2>1. rest \in Seq(Entries) /\ Top.op = "loadRest" /\ Running("loadRest") /\ loggedIn' = loggedIn
    BY <1>2, TopType, CallFields DEF DoLoadRest
  <2>2. ~Nested(Top) /\ "loadRest" \in LastOps
    BY <2>1 DEF Nested, LastOps
  <2>3. CASE rest = <<>>
    <3>1. Return(<<Allow>>)
      BY <1>2, <2>3 DEF DoLoadRest
    <3>2. Allow \in Call /\ Allow.op \in LastOps
      BY CallTypes DEF Allow, LastOps
    <3>3. <<Allow>> \in TameCalls
      BY <3>2, LastTame
    <3> QED BY <2>1, <2>2, <3>1, <3>3, OuterStep
  <2>4. CASE rest # <<>>
    <3>1. Head(rest) \in Entries /\ Tail(rest) \in Seq(Entries)
      <4> HIDE DEF rest
      <4> QED BY <2>1, <2>4, HeadTailProperties
    <3>2. Head(rest).download \in Downloads
      BY <3>1 DEF Entries
    <3>3. a \in FreeCall /\ b \in FreeCall /\ c \in Call /\ c.op \in LastOps
      <4>1. c \in Call
        <5> HIDE DEF rest
        <5> QED BY <3>1, CallTypes
      <4>2. a \in FreeCall
        <5> HIDE DEF rest
        <5> QED BY <3>2, FreeCallNames DEF DownOps, LastOps
      <4>3. b \in FreeCall
        <5> HIDE DEF rest
        <5> QED BY <3>1, FreeCallNames
      <4> QED BY <4>1, <4>2, <4>3 DEF LoadRest, LastOps
    <3>4. Return(<<a, b, c>>)
      BY <1>2, <2>4 DEF DoLoadRest
    <3> HIDE DEF a, b, c
    <3>5. <<a, b>> \in FreeCalls /\ <<a, b, c>> = Append(<<a, b>>, c)
      BY <3>3, FewFree
    <3>6. <<a, b, c>> \in TameCalls
      BY <3>3, <3>5, LastTame
    <3> QED BY <2>1, <2>2, <3>4, <3>6, OuterStep
  <2> QED BY <2>3, <2>4
<1>3. CASE DoLoadState
  <2> DEFINE d == Top.entry.download
             s == IF Top.entry.aborted THEN "Aborted" ELSE "Offline"
             now == IF d \in Known THEN <<SetState(d, s), Do("touch", d)>> ELSE <<>>
  <2>1. Top.op = "loadState" /\ Running("loadState") /\ Return(now) /\ loggedIn' = loggedIn
    BY <1>3, TopType DEF DoLoadState
  <2>2. d \in Downloads /\ s \in TrStates \ ActiveStates
    BY <1>3, TopType, CallFields, InactiveNames DEF DoLoadState, Entries
  <2>3. now \in FreeCalls
    <3> HIDE DEF d, s
    <3> QED BY <2>2, FreeCallNames, FewFree DEF DownOps, LastOps
  <2>4. ~Nested(Top)
    BY <2>1 DEF Nested
  <2> HIDE DEF now
  <2> QED BY <2>1, <2>3, <2>4, OuterStep DEF FreeCalls
<1>4. CASE DoAllow
  <2>1. Top.op = "allow" /\ Running("allow") /\ Return(<<CheckDownloads>>) /\ loggedIn' = loggedIn
    BY <1>4, TopType DEF DoAllow
  <2>2. <<CheckDownloads>> \in FreeCalls
    BY FreeCallNames, FewFree
  <2>3. ~Nested(Top)
    BY <2>1 DEF Nested
  <2> QED BY <2>1, <2>2, <2>3, OuterStep DEF FreeCalls
<1> QED BY <1>1, <1>2, <1>3, <1>4

\* setState, and what touches no more than one download.
LEMMA SetterStack ==
  ASSUME DownloadAssumption, TypeOK, StackInvariant,
         DoSetState \/ DoDisconnected \/ DoRelease \/ DoClosed \/ DoEnqueue \/ DoTouch
  PROVE  StackInvariant'
<1> USE DEF world
<1>0. <<>> \in FreeCalls /\ <<>> \in TameCalls /\ <<>> \in Seq(Call)
  BY FewFree DEF FreeCalls, TameCalls
<1>1. CASE DoSetState
  <2> DEFINE d == Top.down
             s == Top.st
  <2>1. Running("setState") /\ Top.op = "setState" /\ Return(Aftermath(d, s)) /\ loggedIn' = loggedIn
    BY <1>1, TopType DEF DoSetState
  <2>2. d \in Downloads /\ s \in TrStates
    BY <1>1, TopType, CallFields DEF DoSetState
  <2>3. CASE s \in ActiveStates \union {"Finished"}
    <3>1. ~Nested(Top)
      BY <2>1, <2>3 DEF Nested
    <3>2. Aftermath(d, s) \in FreeCalls
      BY <2>2, HandlerTame
    <3> HIDE DEF d, s
    <3> QED BY <2>1, <3>1, <3>2, OuterStep DEF FreeCalls
  <2>4. CASE s \notin ActiveStates \union {"Finished"}
    <3>1. Nested(Top)
      BY <2>1, <2>4 DEF Nested
    <3>2. Aftermath(d, s) = <<CheckDownloads>>
      <4>1. CheckDownloads \in Call
        BY CallTypes
      <4>2. <<CheckDownloads>> \o <<>> = <<CheckDownloads>>
        BY <4>1
      <4> QED BY <2>4, <4>2 DEF Aftermath
    <3> DEFINE now == <<CheckDownloads>>
    <3>3. now \in Seq(Call) /\ Len(now) = 1 /\ now[1] = CheckDownloads
      BY CallTypes
    <3>4. \A k \in 1 .. Len(now) : now[k].op = "check"
      BY <3>3 DEF CheckDownloads, CheckFrom
    <3>5. \A k \in 1 .. Len(now) : Nested(now[k]) /\ \A x : Spares(now[k], x)
      BY <3>4 DEF Nested, Spares
    <3>6. Requeued(now)
      BY <3>4 DEF Requeued
    <3>7. state' = [state EXCEPT ![d] = s]
      BY <1>1 DEF DoSetState
    <3>8. StaysDead(now)
      <4> SUFFICES ASSUME NEW x \in Downloads, (Spares(Top, x) /\ state[x] \in Dead) \/ Fells(Top, x)
                   PROVE  state'[x] \in Dead
        BY <3>5 DEF StaysDead
      <4>1. CASE x = d
        <5>1. Fells(Top, x)
          BY <2>1, <4>1 DEF Spares
        <5>2. s = "Aborted"
          BY <2>1, <5>1 DEF Fells
        <5> QED BY <2>2, <3>7, <4>1, <5>2 DEF Dead, TypeOK
      <4>2. CASE x # d
        BY <2>1, <3>7, <4>2 DEF Fells, TypeOK
      <4> QED BY <4>1, <4>2
    <3> HIDE DEF d, s, now
    <3>9. Return(now)
      BY <2>1, <3>2 DEF now
    <3> QED BY <2>1, <3>1, <3>3, <3>5, <3>6, <3>8, <3>9, NestedStep
  <2> QED BY <2>3, <2>4
<1>2. CASE DoDisconnected
  <2> DEFINE c == SetState(Top.down, IF complete[Top.down] THEN "Finished" ELSE "ConnectionClosed")
  <2>1. Running("disconnected") /\ Top.op = "disconnected" /\ Return(<<c>>) /\ loggedIn' = loggedIn
    BY <1>2, TopType DEF DoDisconnected
  <2>2. Top.down \in Downloads
    BY <2>1, TopType, CallFields DEF DownOps
  <2>3. <<c>> \in FreeCalls
    BY <2>2, FreeCallNames, InactiveNames, FewFree
  <2> HIDE DEF c
  <2>4. ~Nested(Top)
    BY <2>1 DEF Nested
  <2> QED BY <2>1, <2>3, <2>4, OuterStep DEF FreeCalls
<1>3. ASSUME NEW op \in {"release", "closed", "enqueue", "touch"}, Running(op), Return(<<>>), loggedIn' = loggedIn
      PROVE  StackInvariant'
  <2>1. Top.op = op /\ ~Nested(Top)
    BY <1>3, TopType DEF Nested
  <2> QED BY <1>0, <1>3, <2>1, OuterStep
<1>4. CASE DoEnqueue /\ Running("unenqueue")
  <2>1. Return(<<>>) /\ loggedIn' = loggedIn /\ state' = state
    BY <1>4 DEF DoEnqueue
  <2> QED BY <1>4, <2>1, LeafNestedStep
<1>5. CASE DoRelease \/ DoClosed \/ DoTouch \/ (DoEnqueue /\ Running("enqueue"))
  BY <1>3, <1>5 DEF DoRelease, DoClosed, DoTouch, DoEnqueue
<1> QED BY <1>1, <1>2, <1>4, <1>5 DEF DoEnqueue

\* checkDownloads and the peer sockets.
LEMMA CheckStack ==
  ASSUME DownloadAssumption, TypeOK, StackInvariant, DoCheckDownloads \/ DoPeerSocket \/ DoStart
  PROVE  StackInvariant'
<1> USE DEF world, objects
<1>0. <<>> \in Seq(Call) /\ Len(<<>>) = 0 /\ \A d \in Downloads : state[d] \in Dead => state[d] \in Dead
  BY FewCalls
<1>1. CASE DoCheckDownloads
  <2> DEFINE wanted == {j \in Top.i .. Len(downloads) : Wanted(downloads[j])}
  <2>1. Running("check") /\ state' = state /\ loggedIn' = loggedIn
    BY <1>1 DEF DoCheckDownloads
  <2>2. Return(<<>>) \/ \E j \in First(wanted) : Return(AskAndGoOn(j))
    BY <1>1 DEF DoCheckDownloads
  <2>3. ASSUME NEW j \in First(wanted)
        PROVE  /\ AskAndGoOn(j) \in Seq(Call)
               /\ \A k \in 1 .. Len(AskAndGoOn(j)) : AskAndGoOn(j)[k].op \in {"check", "peerSocket"}
    <3>1. j \in Nat \ {0} /\ j \in 1 .. Len(downloads)
      <4>1. Top.i \in Nat \ {0}
        BY <2>1, TopType, CallFields
      <4>2. j \in Top.i .. Len(downloads) /\ Len(downloads) \in Nat
        BY FirstElement, LenProperties DEF TypeOK
      <4> QED BY <4>1, <4>2
    <3>2. UserOf[downloads[j]] \in Users
      BY <3>1, ListElement DEF DownloadAssumption
    <3> DEFINE a == PeerSocket(UserOf[downloads[j]])
               b == CheckFrom(j + 1)
    <3>3. a \in Call /\ b \in Call /\ a.op = "peerSocket" /\ b.op = "check"
      BY <3>1, <3>2, CallTypes DEF PeerSocket, CheckFrom
    <3> HIDE DEF a, b
    <3>4. <<a, b>> \in Seq(Call) /\ \A k \in 1 .. Len(<<a, b>>) : <<a, b>>[k] = a \/ <<a, b>>[k] = b
      BY <3>3
    <3> QED BY <3>3, <3>4 DEF AskAndGoOn, a, b
  <2> HIDE DEF wanted
  <2>4. CASE Return(<<>>)
    BY <1>0, <2>1, <2>4, LeafNestedStep
  <2>5. CASE \E j \in First(wanted) : Return(AskAndGoOn(j))
    <3>1. PICK j \in First(wanted) : Return(AskAndGoOn(j))
      BY <2>5
    <3> DEFINE now == AskAndGoOn(j)
    <3>2. /\ now \in Seq(Call) /\ \A k \in 1 .. Len(now) : now[k].op \in {"check", "peerSocket"}
          /\ Return(now)
      BY <2>3, <3>1
    <3> HIDE DEF now
    <3> QED BY <2>1, <3>2, QuietNestedStep
  <2> QED BY <2>2, <2>4, <2>5
<1>2. CASE DoPeerSocket
  <2> DEFINE x == Top.user
  <2>1. Running("peerSocket") /\ state' = state /\ loggedIn' = loggedIn
    BY <1>2 DEF DoPeerSocket
  <2>2. x \in Users
    BY <2>1, TopType, CallFields
  <2>3. Return(<<>>) \/ Return(ReadyCalls(x)) \/ Return(OfflineCalls(x))
    BY <1>2 DEF DoPeerSocket
  <2> HIDE DEF x
  <2>4. /\ ReadyCalls(x) \in Seq(Call) /\ OfflineCalls(x) \in Seq(Call)
    BY <2>2, UserCalls
  <2> DEFINE a == Loop("requeueOffline", {x})
             b == Start(x)
             c == Loop("peerOffline", {x})
  <2>5. /\ a.op = "loop" /\ a.over = "requeueOffline" /\ b.op = "start" /\ c.op = "loop" /\ c.over = "peerOffline"
        /\ a \in Call /\ b \in Call /\ c \in Call
    <3>1. /\ a.op = "loop" /\ a.over = "requeueOffline" /\ b.op = "start"
          /\ c.op = "loop" /\ c.over = "peerOffline"
      BY DEF Loop, LoopFrom, Start
    <3>2. {x} \in SUBSET Users /\ "requeueOffline" \in Loops /\ "peerOffline" \in Loops
      BY <2>2 DEF Loops
    <3> QED BY <2>2, <3>1, <3>2, LoopType, CallTypes
  <2>6. ReadyCalls(x) = <<a, b>> /\ OfflineCalls(x) = <<c>>
    BY DEF ReadyCalls, OfflineCalls
  <2> HIDE DEF a, b, c
  <2>7. /\ \A k \in 1 .. Len(<<a, b>>) : <<a, b>>[k] = a \/ <<a, b>>[k] = b
        /\ \A k \in 1 .. Len(<<c>>) : <<c>>[k] = c
    BY <2>5
  <2>8. ASSUME NEW now \in {ReadyCalls(x), OfflineCalls(x)}, Return(now)
        PROVE  StackInvariant'
    <3>1. \A k \in 1 .. Len(now) : now[k].op \in {"start", "loop"} /\ (now[k].op = "loop" => now[k].over # "logout")
      BY <2>5, <2>6, <2>7, <2>8
    <3> QED BY <2>1, <2>4, <2>8, <3>1, QuietNestedStep
  <2>9. CASE Return(<<>>)
    BY <1>0, <2>1, <2>9, LeafNestedStep
  <2> QED BY <2>3, <2>8, <2>9
<1>3. CASE DoStart
  <2>1. Running("start") /\ loggedIn' = loggedIn /\ Return(<<>>)
    BY <1>3 DEF DoStart
  <2>2. \A d \in Initiated(Top.user) : WantedQueued(d)
    BY FirstElement DEF Initiated
  <2>3. \A d \in Downloads : state[d] \in Dead => d \notin Initiated(Top.user)
    BY <2>2 DEF WantedQueued, Dead
  <2>4. \A d \in Downloads : state[d] \in Dead => state'[d] \in Dead
    BY <1>3, <2>3 DEF DoStart
  <2> QED BY <2>1, <2>4, LeafNestedStep
<1> QED BY <1>1, <1>2, <1>3

LEMMA OneMore ==
  ASSUME NEW a \in Call, NEW b \in Call, NEW c \in Call
  PROVE  <<a, b>> = Append(<<a>>, b) /\ <<a, b, c>> = Append(<<a, b>>, c)
<1>1. <<a, b>> = Append(<<a>>, b)
  BY FewCalls
<1>2. <<a, b, c>> = Append(<<a, b>>, c)
  BY FewCalls
<1> QED BY <1>1, <1>2

\* The loops over the list.
LEMMA LoopStack ==
  ASSUME DownloadAssumption, TypeOK, StackInvariant, DoLoop
  PROVE  StackInvariant'
<1> DEFINE over == Top.over
           last == IF Top.end < Len(downloads) THEN Top.end ELSE Len(downloads)
           hits == {j \in Top.i .. last : Selected(over, Top.who, downloads[j])}
           now(j) == Append(IterationCalls(over, downloads[j]), LoopFrom(over, Top.who, j + 1, Top.end))
<1>1. Running("loop") /\ Top.op = "loop" /\ state' = state /\ loggedIn' = loggedIn
  BY TopType DEF DoLoop, world
<1>2. over \in Loops /\ Top.who \in SUBSET Users /\ Top.i \in Nat \ {0} /\ Top.end \in Nat
  BY <1>1, TopType, CallFields
<1>3. Return(<<>>) \/ \E j \in First(hits) : Return(now(j))
  BY DEF DoLoop
<1>4. Nested(Top) /\ \A x : ~Fells(Top, x)
  BY <1>1 DEF Nested, Fells
<1>5. loggedIn => over # "logout"
  <2>1. 1 \in 1 .. Len(calls) /\ Top = calls[1]
    BY <1>1, TopType, HeadTailProperties, LenProperties DEF Top
  <2> QED BY <1>1, <2>1 DEF StackInvariant, Requeued
<1>6. ASSUME NEW j \in First(hits), Return(now(j))
      PROVE  StackInvariant'
  <2> DEFINE d == downloads[j]
             c == LoopFrom(over, Top.who, j + 1, Top.end)
             q == SetState(d, "QueuedRemotely")
             o == SetState(d, "Offline")
             u == Do("unenqueue", d)
  <2>0. j \in hits
    <3> HIDE DEF hits
    <3> QED BY FirstElement
  <2>1. j \in Nat \ {0} /\ j \in 1 .. Len(downloads)
    <3>1. j \in Top.i .. last /\ Len(downloads) \in Nat
      BY <2>0, LenProperties DEF TypeOK
    <3> QED BY <1>2, <3>1
  <2>2. d \in Downloads
    BY <2>1, ListElement
  <2>3. state[d] \notin Dead
    <3>1. Selected(over, Top.who, d)
      BY <2>0
    <3> HIDE DEF d, over
    <3> QED BY <1>2, <3>1 DEF Selected, KeptOffline, Dead, Loops
  <2>4. c \in Call /\ q \in Call /\ o \in Call /\ u \in Call
    BY <1>2, <2>1, <2>2, CallTypes, StateNames DEF DownOps
  <2>5. /\ c.op = "loop" /\ c.over = over
        /\ q.op = "setState" /\ q.down = d /\ q.st = "QueuedRemotely"
        /\ o.op = "setState" /\ o.down = d /\ o.st = "Offline"
        /\ u.op = "unenqueue" /\ u.down = d
    BY DEF LoopFrom, SetState, Do
  <2>6. /\ now(j) \in {<<q, c>>, <<o, c>>, <<o, u, c>>}
        /\ loggedIn => now(j) \in {<<q, c>>, <<o, c>>}
    <3>1. IterationCalls(over, d) \in {<<q>>, <<o>>, <<o, u>>} /\ (over # "logout" => IterationCalls(over, d) \in {<<q>>, <<o>>})
      BY <1>2 DEF IterationCalls, Loops
    <3> HIDE DEF q, o, u, c, d, over
    <3>2. Append(<<q>>, c) = <<q, c>> /\ Append(<<o>>, c) = <<o, c>> /\ Append(<<o, u>>, c) = <<o, u, c>>
      BY <2>4, OneMore
    <3> QED BY <1>5, <3>1, <3>2 DEF d, c
  <2> DEFINE n == now(j)
  <2>7. n \in Seq(Call) /\ \A k \in 1 .. Len(n) : n[k] \in {q, o, u, c}
    <3> HIDE DEF n, q, o, u, c
    <3>1. /\ <<q, c>> \in Seq(Call) /\ \A k \in 1 .. Len(<<q, c>>) : <<q, c>>[k] \in {q, c}
          /\ <<o, c>> \in Seq(Call) /\ \A k \in 1 .. Len(<<o, c>>) : <<o, c>>[k] \in {o, c}
          /\ <<o, u, c>> \in Seq(Call) /\ \A k \in 1 .. Len(<<o, u, c>>) : <<o, u, c>>[k] \in {o, u, c}
      BY <2>4
    <3> QED BY <2>6, <3>1 DEF n
  <2>8. loggedIn => \A k \in 1 .. Len(n) : n[k] \in {q, o, c}
    <3> HIDE DEF n, q, o, u, c
    <3>1. /\ \A k \in 1 .. Len(<<q, c>>) : <<q, c>>[k] \in {q, c}
          /\ \A k \in 1 .. Len(<<o, c>>) : <<o, c>>[k] \in {o, c}
      BY <2>4
    <3> QED BY <2>6, <3>1 DEF n
  <2>9. Nested(q) /\ Nested(o) /\ Nested(u) /\ Nested(c)
    <3> HIDE DEF q, o, u, c
    <3> QED BY <2>5 DEF Nested, ActiveStates
  <2> HIDE DEF n
  <2>10. \A k \in 1 .. Len(n) : Nested(n[k])
    BY <2>7, <2>9
  <2>11. loggedIn => Requeued(n)
    <3> HIDE DEF q, o, u, c, over
    <3> QED BY <1>5, <2>5, <2>8 DEF Requeued
  <2>12. StaysDead(n)
    <3>1. ASSUME NEW x \in Downloads, state[x] \in Dead
          PROVE  \A k \in 1 .. Len(n) : Spares(n[k], x)
      <4>1. x # d
        BY <2>3, <3>1
      <4> HIDE DEF q, o, u, c, d
      <4>2. Spares(q, x) /\ Spares(o, x) /\ Spares(u, x) /\ Spares(c, x)
        BY <2>5, <2>9, <4>1 DEF Spares
      <4> QED BY <2>7, <4>2
    <3> QED BY <1>1, <1>4, <3>1 DEF StaysDead
  <2>13. Return(n)
    BY <1>6 DEF n
  <2> QED BY <1>1, <1>4, <2>7, <2>10, <2>11, <2>12, <2>13, NestedStep
<1>7. CASE Return(<<>>)
  BY <1>1, <1>7, LeafNestedStep
<1> QED BY <1>3, <1>6, <1>7

\* add, abort and remove.
LEMMA AddStack ==
  ASSUME DownloadAssumption, TypeOK, StackInvariant, DoAdd \/ DoAddRest \/ DoAbortRest \/ DoRemove \/ DoErase
  PROVE  StackInvariant'
<1> USE DEF world
<1> DEFINE d == Top.down
<1>0. <<>> \in FreeCalls /\ <<>> \in TameCalls /\ <<>> \in Seq(Call)
  BY FewFree DEF FreeCalls, TameCalls
<1>a. d \in Downloads
  <2>1. Running("add") \/ Running("addRest") \/ Running("abortRest") \/ Running("remove") \/ Running("erase")
    BY DEF DoAdd, DoAddRest, DoAbortRest, DoRemove, DoErase
  <2> QED BY <2>1, TopType, CallFields DEF DownOps
<1> HIDE DEF d
<1>1. CASE DoAdd
  <2> DEFINE a == SetState(d, "QueuedRemotely")
             b == Do("addRest", d)
             now == <<a, b>>
  <2>1. Running("add") /\ Top.op = "add" /\ loggedIn' = loggedIn /\ ~Nested(Top)
    <3>1. Running("add") /\ loggedIn' = loggedIn
      BY <1>1 DEF DoAdd
    <3> QED BY <3>1, TopType DEF Nested
  <2>2. Return(<<>>) \/ Return(now)
    BY <1>1 DEF DoAdd, d
  <2>3. a \in Call /\ b \in Call /\ calls \in Seq(Call) /\ calls # <<>>
    BY <1>a, <2>1, CallTypes, StateNames, TopType DEF DownOps
  <2>4. /\ a.op = "setState" /\ a.st = "QueuedRemotely" /\ b.op = "addRest"
    BY DEF SetState, Do
  <2> HIDE DEF a, b
  <2>5. now \in Seq(Call) /\ Len(now) = 2 /\ now[1] = a /\ now[2] = b
    BY <2>3
  <2>6. ASSUME NEW k \in 1 .. 2
        PROVE  k = 1 \/ k = 2
    BY <2>6
  <2>7. Nested(a) /\ ~Partial(a)
    BY <2>4 DEF Nested, Partial, ActiveStates
  <2>8. PartialIsCovered(now)
    <3>1. \A k \in 1 .. 2 - 1 : k = 1
      OBVIOUS
    <3> HIDE DEF now
    <3> QED BY <2>5, <2>6, <2>7, <3>1 DEF PartialIsCovered
  <2>9. Pushed(now)
    <3> HIDE DEF now
    <3>1. \A k \in 1 .. Len(now) : now[k].op \notin LastOps \union {"erase", "loop", "unenqueue"} /\ ~Progresses(now[k])
      BY <2>4, <2>5, <2>6 DEF LastOps, Progresses, ActiveStates
    <3> QED BY <2>1, <2>8, <3>1 DEF Pushed, Requeued
  <2>10. StaysDead(now)
    BY <2>1 DEF StaysDead, Spares, Fells
  <2> HIDE DEF now
  <2>11. CASE Return(now)
    BY <2>1, <2>3, <2>5, <2>9, <2>10, <2>11, StackStep
  <2>12. CASE Return(<<>>)
    BY <1>0, <2>1, <2>12, OuterStep
  <2> QED BY <2>2, <2>11, <2>12
<1>2. CASE DoAddRest
  <2> DEFINE s == IF atDest[d] THEN <<SetState(d, "Finished")>> ELSE <<>>
             t == <<CheckDownloads>>
  <2>1. Running("addRest") /\ Return(s \o t) /\ loggedIn' = loggedIn
    BY <1>2 DEF DoAddRest, d
  <2>2. Top.op = "addRest" /\ ~Nested(Top)
    BY <2>1, TopType DEF Nested
  <2>3. s \in FreeCalls /\ t \in FreeCalls
    BY <1>a, FreeCallNames, InactiveNames, FewFree
  <2> HIDE DEF s, t
  <2>4. s \o t \in FreeCalls
    BY <2>3, MoreTame DEF FreeCalls
  <2> QED BY <2>1, <2>2, <2>4, OuterStep DEF FreeCalls
<1>3. CASE DoAbortRest
  <2> DEFINE c == SetState(d, "Aborted")
             now == IF state[d] = "Finished" THEN <<>> ELSE <<c>>
  <2>1. Running("abortRest") /\ Return(now) /\ loggedIn' = loggedIn /\ state' = state
    BY <1>3 DEF DoAbortRest, objects, d
  <2>2. Top.op = "abortRest" /\ calls \in Seq(Call) /\ calls # <<>> /\ ~Nested(Top)
    BY <2>1, TopType DEF Nested
  <2>3. c \in Call /\ c.op = "setState" /\ c.st = "Aborted" /\ c.down = d
    BY <1>a, CallTypes, StateNames DEF SetState
  <2> HIDE DEF c
  <2>4. now \in Seq(Call) /\ Len(now) \in {0, 1} /\ \A k \in 1 .. Len(now) : now[k] = c
    BY <1>0, <2>3
  <2>5. state[d] = "Finished" => \A k \in 1 .. Len(now) : FALSE
    OBVIOUS
  <2>6. state[d] # "Finished" => now # <<>> /\ now[Len(now)] = c
    BY <2>3
  <2> HIDE DEF now
  <2>7. StaysDead(now)
    <3> SUFFICES ASSUME NEW x \in Downloads, Fells(Top, x)
                 PROVE  \/ state'[x] \in Dead /\ \A k \in 1 .. Len(now) : Spares(now[k], x)
                        \/ now # <<>> /\ Fells(now[Len(now)], x)
      BY <2>2 DEF StaysDead, Spares
    <3>1. x = d
      BY DEF Fells, d
    <3>2. CASE state[d] = "Finished"
      BY <2>1, <2>5, <3>1, <3>2 DEF Dead
    <3>3. CASE state[d] # "Finished"
      BY <2>3, <2>6, <3>1, <3>3 DEF Fells
    <3> QED BY <3>2, <3>3
  <2>8. Pushed(now)
    <3>1. ~Partial(c) /\ ~Progresses(c) /\ c.op \notin LastOps \union {"erase", "unenqueue", "loop"}
      BY <2>3 DEF Partial, Progresses, LastOps, ActiveStates
    <3>2. PartialIsCovered(now) /\ Requeued(now)
      BY <2>4, <3>1 DEF PartialIsCovered, Requeued
    <3> QED BY <2>2, <2>4, <3>1, <3>2 DEF Pushed
  <2> QED BY <2>1, <2>2, <2>4, <2>7, <2>8, StackStep
<1>4. CASE DoRemove
  <2> DEFINE now == IF d \in Known THEN Append(AbortCalls(d), Do("erase", d)) ELSE <<>>
  <2>1. Running("remove") /\ Return(now) /\ loggedIn' = loggedIn
    BY <1>4 DEF DoRemove, d
  <2>2. Top.op = "remove" /\ ~Nested(Top)
    BY <2>1, TopType DEF Nested
  <2>3. now \in FreeCalls
    BY <1>0, <1>a, HandlerTame
  <2> HIDE DEF now
  <2> QED BY <2>1, <2>2, <2>3, OuterStep DEF FreeCalls
<1>5. CASE DoErase
  <2>1. Running("erase") /\ Return(<<>>) /\ loggedIn' = loggedIn
    BY <1>5 DEF DoErase
  <2>2. Top.op = "erase" /\ ~Nested(Top)
    BY <2>1, TopType DEF Nested
  <2> QED BY <1>0, <2>1, <2>2, OuterStep
<1> QED BY <1>1, <1>2, <1>3, <1>4, <1>5

\* A transfer offered by the peer.
LEMMA OfferStack ==
  ASSUME DownloadAssumption, TypeOK, StackInvariant,
         DoOfferRest \/ DoPushRest \/ DoAccept \/ DoAttach \/ DoRename
  PROVE  StackInvariant'
<1> USE DEF world
<1> DEFINE d == Top.down
<1>0. <<>> \in FreeCalls /\ <<>> \in TameCalls
  BY FewFree DEF FreeCalls
<1>1. PICK op \in {"offerRest", "pushRest", "accept", "attach", "rename"} : Running(op)
  BY DEF DoOfferRest, DoPushRest, DoAccept, DoAttach, DoRename
<1>2. d \in Downloads /\ Top.op = op /\ ~Nested(Top) /\ loggedIn' = loggedIn /\ calls \in Seq(Call) /\ calls # <<>>
  <2>1. loggedIn' = loggedIn
    BY DEF DoOfferRest, DoPushRest, DoAccept, DoAttach, DoRename
  <2> QED BY <1>1, <2>1, TopType, CallFields DEF DownOps, Nested
<1> HIDE DEF d
<1>3. /\ Do("accept", d) \in Call /\ Do("attach", d) \in Call
      /\ Do("accept", d).op \in LastOps /\ Do("attach", d).op \in LastOps
  BY <1>2, CallTypes DEF DownOps, Do, LastOps
<1>4. CASE DoOfferRest
  <2> DEFINE now == IF HasFreeSlots /\ state[d] \in OfferableStates
                      THEN Append(PreemptCalls(d), Do("accept", d)) ELSE <<>>
  <2>1. op = "offerRest" /\ Return(now)
    BY <1>2, <1>4, TopType DEF DoOfferRest, d
  <2>2. now \in TameCalls
    BY <1>0, <1>2, <1>3, PreemptTame, LastTame
  <2>3. op \in LastOps
    BY <2>1 DEF LastOps
  <2> HIDE DEF now
  <2> QED BY <1>1, <1>2, <2>1, <2>2, <2>3, OuterStep
<1>5. CASE DoPushRest
  <2> DEFINE now == IF d \in Known /\ HasFreeSlots THEN <<Do("accept", d)>> ELSE <<>>
  <2>1. op = "pushRest" /\ Return(now)
    BY <1>2, <1>5, TopType DEF DoPushRest, d
  <2>2. now \in TameCalls
    BY <1>0, <1>3, LastTame
  <2>3. op \in LastOps
    BY <2>1 DEF LastOps
  <2> HIDE DEF now
  <2> QED BY <1>1, <1>2, <2>1, <2>2, <2>3, OuterStep
<1>6. CASE DoAccept
  <2> DEFINE s == IF socket[d] = "none" THEN <<>> ELSE <<Do("disconnected", d)>>
             t == <<Do("attach", d)>>
  <2>1. op = "accept" /\ Return(s \o t)
    BY <1>2, <1>6, TopType DEF DoAccept, d
  <2>2. s \in FreeCalls /\ t \in TameCalls
    <3>1. Do("disconnected", d) \in FreeCall
      BY <1>2, FreeCallNames DEF DownOps, LastOps
    <3> QED BY <1>0, <1>3, <3>1, FewFree, LastTame
  <2>3. op \in LastOps
    BY <2>1 DEF LastOps
  <2> HIDE DEF s, t
  <2>4. s \o t \in TameCalls
    BY <2>2, MoreTame
  <2> QED BY <1>1, <1>2, <2>1, <2>3, <2>4, OuterStep
<1>7. CASE DoAttach
  <2>1. op = "attach" /\ op \in LastOps
    BY <1>2, <1>7, TopType DEF DoAttach, LastOps
  <2>2. CASE Return(<<>>)
    BY <1>0, <1>1, <1>2, <2>1, <2>2, OuterStep
  <2>3. CASE d \in Known /\ Return(<<SetState(d, "Waiting")>>)
    <3> DEFINE c == SetState(d, "Waiting")
               now == <<c>>
    <3>1. c \in Call /\ c.op = "setState" /\ c.down = d
      BY <1>2, CallTypes, StateNames DEF SetState
    <3> HIDE DEF c
    <3>2. now \in Seq(Call) /\ Len(now) = 1 /\ \A k \in 1 .. Len(now) : now[k] = c
      BY <3>1
    <3>3. Return(now)
      BY <2>3 DEF c
    <3>4. Known' = Known
      BY <1>7 DEF DoAttach, Known
    <3>5. PartialIsCovered(now)
      BY <3>1, <3>2 DEF PartialIsCovered, Partial
    <3> HIDE DEF now
    <3>6. ~Partial(c) /\ c.op \notin LastOps \union {"erase", "unenqueue", "loop"}
      BY <3>1 DEF Partial, LastOps
    <3>7. Pushed(now)
      BY <1>2, <2>1, <2>3, <3>1, <3>2, <3>4, <3>5, <3>6 DEF Pushed, Requeued
    <3>8. StaysDead(now)
      BY <1>2, <2>1 DEF StaysDead, Spares, Fells
    <3> QED BY <1>2, <3>2, <3>3, <3>7, <3>8, StackStep
  <2> QED BY <1>7, <2>2, <2>3 DEF DoAttach, d
<1>8. CASE DoRename
  <2>1. Return(<<>>)
    BY <1>8 DEF DoRename
  <2>2. op = "rename"
    BY <1>2, <1>8, TopType DEF DoRename
  <2> QED BY <1>0, <1>1, <1>2, <2>1, <2>2, OuterStep
<1> QED BY <1>4, <1>5, <1>6, <1>7, <1>8

LEMMA StepStack ==
  ASSUME DownloadAssumption, TypeOK, StackInvariant, Step
  PROVE  StackInvariant'
  BY LoadStack, SetterStack, CheckStack, LoopStack, AddStack, OfferStack DEF Step

-----------------------------------------------------------------------------
(* Every event starts a stack in shape.                                    *)

\* An event whose handler runs calls that depend on nothing.
LEMMA TameEvent ==
  ASSUME calls' \in TameCalls
  PROVE  StackInvariant'
<1> DEFINE l == calls'
<1>1. Tame(l)
  BY DEF TameCalls
<1> HIDE DEF l
<1>2. LastIsLast(l) /\ PartialIsCovered(l) /\ ProgressIsLast(l) /\ Requeued(l)
  BY <1>1 DEF Tame, LastIsLast, PartialIsCovered, ProgressIsLast, Requeued, Partial
<1>3. \A k \in 1 .. Len(l) : l[k].op = "erase" => FelledBefore(l, k)
  BY <1>1 DEF Tame
<1>4. Len(l) = 1 => ~Progresses(l[1])
  BY <1>1 DEF Tame
<1>5. EraseIsSafe' /\ ProgressIsKnown'
  <2>1. EraseIsSafe'
    BY <1>3 DEF EraseIsSafe, FelledBefore, Fells, l
  <2>2. ProgressIsKnown'
    BY <1>4 DEF ProgressIsKnown, Progresses, l
  <2> QED BY <2>1, <2>2
<1>6. LastIsLast(calls)' /\ PartialIsCovered(calls)' /\ ProgressIsLast(calls)' /\ Requeued(calls)'
  <2>1. LastIsLast(calls)'
    BY <1>2 DEF LastIsLast, l
  <2>2. PartialIsCovered(calls)'
    BY <1>2 DEF PartialIsCovered, Partial, Nested, l
  <2>3. ProgressIsLast(calls)'
    BY <1>2 DEF ProgressIsLast, Progresses, Ticketed, l
  <2>4. Requeued(calls)'
    BY <1>2 DEF Requeued, Reenters, l
  <2> QED BY <2>1, <2>2, <2>3, <2>4
<1> QED BY <1>5, <1>6 DEF StackInvariant

\* An event whose handler runs loops, checks and starts only.
LEMMA NestedEvent ==
  ASSUME calls' \in Seq(Call), \A k \in 1 .. Len(calls') : calls'[k].op \in {"check", "peerSocket", "start", "loop"},
         loggedIn' => \A k \in 1 .. Len(calls') : calls'[k].op = "loop" => calls'[k].over # "logout"
  PROVE  StackInvariant'
<1> DEFINE l == calls'
<1>1. l \in Seq(Call) /\ Len(l) \in Nat
  BY LenProperties
<1>2. \A k \in 1 .. Len(l) : l[k].op \in {"check", "peerSocket", "start", "loop"}
  OBVIOUS
<1>3. loggedIn' => \A k \in 1 .. Len(l) : l[k].op = "loop" => l[k].over # "logout"
  OBVIOUS
<1> HIDE DEF l
<1>4. LastIsLast(l) /\ ProgressIsLast(l)
  BY <1>2 DEF LastIsLast, ProgressIsLast, LastOps, Progresses
<1>5. PartialIsCovered(l)
  <2> SUFFICES ASSUME NEW k \in 1 .. Len(l), NEW j \in 1 .. k - 1
               PROVE  Nested(l[j])
    BY DEF PartialIsCovered
  <2>1. j \in 1 .. Len(l)
    BY <1>1
  <2> QED BY <1>2, <2>1 DEF Nested
<1>6. loggedIn' => Requeued(l)
  BY <1>2, <1>3 DEF Requeued
<1>7. Len(l) = 1 => ~Progresses(l[1])
  <2>1. Len(l) = 1 => 1 \in 1 .. Len(l)
    OBVIOUS
  <2> QED BY <1>2, <2>1 DEF Progresses
<1>8. EraseIsSafe' /\ ProgressIsKnown'
  <2>1. EraseIsSafe'
    BY <1>2 DEF EraseIsSafe, l
  <2>2. ProgressIsKnown'
    BY <1>7 DEF ProgressIsKnown, Progresses, l
  <2> QED BY <2>1, <2>2
<1>9. LastIsLast(calls)' /\ PartialIsCovered(calls)' /\ ProgressIsLast(calls)' /\ (loggedIn => Requeued(calls))'
  <2>1. LastIsLast(calls)'
    BY <1>4 DEF LastIsLast, l
  <2>2. PartialIsCovered(calls)'
    BY <1>5 DEF PartialIsCovered, Partial, Nested, l
  <2>3. ProgressIsLast(calls)'
    BY <1>4 DEF ProgressIsLast, Progresses, Ticketed, l
  <2>4. (loggedIn => Requeued(calls))'
    BY <1>6 DEF Requeued, Reenters, l
  <2> QED BY <2>1, <2>2, <2>3, <2>4
<1> QED BY <1>8, <1>9 DEF StackInvariant

\* A download that left the list has no transfer under way.
UnknownIsOut == \A d \in Downloads \ Known : state[d] \notin {"Waiting", "Initiating"}

\* A transfer that begins, whether the incomplete file opens or not.
LEMMA TicketStack ==
  ASSUME TypeOK, UnknownIsOut, NEW d \in Downloads, TicketReceived(d)
  PROVE  StackInvariant'
<1> DEFINE l == calls'
           p == SetState(d, "Transferring")
           q == Do("disconnected", d)
           r == Do("closed", d)
<1>1. d \in Known /\ Known' = Known
  BY DEF TicketReceived, UnknownIsOut, Known
<1>2. p.op = "setState" /\ p.down = d /\ p.st = "Transferring" /\ p \in Call
  BY CallTypes, StateNames DEF SetState
<1>3. q.op = "disconnected" /\ q \in Call /\ r.op = "closed" /\ r.down = d /\ r \in Call
  BY CallTypes DEF Do, DownOps
<1>4. l = <<p>> \/ l = <<q, p, r>>
  BY DEF TicketReceived, Event
<1> HIDE DEF l, p, q, r
<1> DEFINE Shaped == /\ LastIsLast(l) /\ PartialIsCovered(l) /\ ProgressIsLast(l) /\ Requeued(l)
                     /\ \A k \in 1 .. Len(l) : l[k].op # "erase"
                     /\ Len(l) = 1 /\ Progresses(l[1]) => l[1].down \in Known'
<1>5. ASSUME l = <<p>>
      PROVE  Shaped
  <2>1. Len(l) = 1 /\ l[1] = p /\ \A k \in 1 .. Len(l) : k = 1
    BY <1>2, <1>5
  <2>2. LastIsLast(l) /\ PartialIsCovered(l) /\ ProgressIsLast(l) /\ Requeued(l)
    BY <1>2, <2>1 DEF LastIsLast, PartialIsCovered, Partial, ProgressIsLast, Requeued, LastOps
  <2>3. /\ \A k \in 1 .. Len(l) : l[k].op # "erase"
        /\ Len(l) = 1 /\ Progresses(l[1]) => l[1].down \in Known'
    BY <1>1, <1>2, <2>1
  <2> QED BY <2>2, <2>3
<1>6. ASSUME l = <<q, p, r>>
      PROVE  Shaped
  <2>1. Len(l) = 3 /\ l[1] = q /\ l[2] = p /\ l[3] = r
    BY <1>2, <1>3, <1>6
  <2>2. \A k \in 1 .. 3 : k = 1 \/ k = 2 \/ k = 3
    OBVIOUS
  <2>3. /\ q.op \notin LastOps \union {"erase", "unenqueue", "loop"} /\ ~Partial(q) /\ ~Progresses(q)
        /\ p.op \notin LastOps \union {"erase", "unenqueue", "loop"} /\ ~Partial(p)
        /\ r.op \notin {"erase", "unenqueue", "loop"} /\ ~Partial(r) /\ ~Progresses(r)
    BY <1>2, <1>3 DEF Partial, Progresses, LastOps
  <2>4. LastIsLast(l) /\ PartialIsCovered(l) /\ Requeued(l)
    BY <2>1, <2>2, <2>3 DEF LastIsLast, PartialIsCovered, Requeued
  <2>5. Ticketed(l, 2)
    BY <1>2, <1>3, <2>1 DEF Ticketed
  <2>6. ProgressIsLast(l)
    BY <2>1, <2>2, <2>3, <2>5 DEF ProgressIsLast
  <2>7. /\ \A k \in 1 .. Len(l) : l[k].op # "erase"
        /\ Len(l) # 1
    BY <2>1, <2>2, <2>3
  <2> QED BY <2>4, <2>6, <2>7
<1>7. EraseIsSafe' /\ ProgressIsKnown'
  <2>1. EraseIsSafe'
    BY <1>4, <1>5, <1>6 DEF EraseIsSafe, l
  <2>2. ProgressIsKnown'
    BY <1>4, <1>5, <1>6 DEF ProgressIsKnown, Progresses, l
  <2> QED BY <2>1, <2>2
<1>8. LastIsLast(calls)' /\ PartialIsCovered(calls)' /\ ProgressIsLast(calls)' /\ Requeued(calls)'
  <2>0. LastIsLast(l) /\ PartialIsCovered(l) /\ ProgressIsLast(l) /\ Requeued(l)
    BY <1>4, <1>5, <1>6
  <2>1. LastIsLast(calls)'
    BY <2>0 DEF LastIsLast, l
  <2>2. PartialIsCovered(calls)'
    BY <2>0 DEF PartialIsCovered, Partial, Nested, l
  <2>3. ProgressIsLast(calls)'
    BY <2>0 DEF ProgressIsLast, Progresses, Ticketed, l
  <2>4. Requeued(calls)'
    BY <2>0 DEF Requeued, Reenters, l
  <2> QED BY <2>1, <2>2, <2>3, <2>4
<1> QED BY <1>7, <1>8 DEF StackInvariant

\* The events of one download.
LEMMA DownloadEventStack ==
  ASSUME DownloadAssumption, TypeOK, UnknownIsOut, NEW d \in Downloads, DownloadEvent(d)
  PROVE  StackInvariant'
<1>0. \A o \in DownOps \ (LastOps \union {"erase", "unenqueue", "addRest"}) : Do(o, d) \in FreeCall
  BY FreeCallNames
<1>1. /\ Do("add", d) \in FreeCall /\ Do("touch", d) \in FreeCall /\ Do("remove", d) \in FreeCall
      /\ Do("rename", d) \in FreeCall /\ Do("disconnected", d) \in FreeCall
  BY <1>0 DEF DownOps, LastOps
<1>2. SetState(d, "Finished") \in FreeCall /\ SetState(d, "QueuedRemotely") \in FreeCall
  BY FreeCallNames, InactiveNames
<1>3. \A c \in {Do("offerRest", d), Do("pushRest", d), Do("closed", d), Allow} : c \in Call /\ c.op \in LastOps
  <2>1. \A o \in {"offerRest", "pushRest", "closed"} : Do(o, d) \in Call /\ Do(o, d).op \in LastOps
    BY CallTypes DEF DownOps, Do, LastOps
  <2>2. Allow \in Call /\ Allow.op \in LastOps
    BY CallTypes DEF Allow, LastOps
  <2> QED BY <2>1, <2>2
<1>4. \A s \in FreeCalls, c \in {Do("offerRest", d), Do("pushRest", d), Do("closed", d), Allow} :
        Append(s, c) \in TameCalls /\ <<c>> \in TameCalls
  BY <1>3, LastTame
<1>5. CASE AddDownload(d) \/ Retry(d)
  <2>1. calls' \in {<<Do("add", d), Do("touch", d)>>, <<Do("add", d)>>}
    BY <1>5 DEF AddDownload, Retry, Event
  <2> QED BY <1>1, <2>1, FewFree, TameEvent DEF FreeCalls
<1>6. CASE AbortDownload(d)
  BY <1>6, HandlerTame, TameEvent DEF AbortDownload, Event, FreeCalls
<1>7. CASE RemoveDownload(d)
  BY <1>1, <1>7, FewFree, TameEvent DEF RemoveDownload, Event, FreeCalls
<1>8. CASE UpdateDownload(d)
  <2>1. PeerSocket(UserOf[d]) \in FreeCall
    BY FreeCallNames DEF DownloadAssumption
  <2> QED BY <1>1, <1>8, <2>1, FewFree, TameEvent DEF UpdateDownload, Event, FreeCalls
<1>9. CASE FolderContents(d)
  <2> DEFINE a == Do("add", d)
             b == Do("touch", d)
             c == Allow
  <2>1. calls' = <<a, b, c>>
    BY <1>9 DEF FolderContents, Event
  <2>2. a \in Call /\ b \in Call /\ c \in Call /\ <<a, b>> \in FreeCalls /\ Append(<<a, b>>, c) \in TameCalls
    <3>1. <<a, b>> \in FreeCalls
      BY <1>1, FewFree
    <3> QED BY <1>1, <1>3, <1>4, <3>1 DEF FreeCall
  <2> HIDE DEF a, b, c
  <2>3. <<a, b, c>> = Append(<<a, b>>, c)
    BY <2>2, OneMore
  <2> QED BY <2>1, <2>2, <2>3, TameEvent
<1>10. CASE OfferReceived(d)
  <2> DEFINE s == IF atDest[d] THEN <<SetState(d, "Finished")>> ELSE <<>>
             t == <<Do("offerRest", d)>>
  <2>1. calls' = s \o t
    BY <1>10 DEF OfferReceived, Event
  <2>2. s \in FreeCalls /\ t \in TameCalls
    <3>1. s \in FreeCalls
      BY <1>2, FewFree
    <3> QED BY <1>4, <3>1
  <2> HIDE DEF s, t
  <2> QED BY <2>1, <2>2, MoreTame, TameEvent
<1>11. CASE PushReceived(d)
  <2> DEFINE a == Do("add", d)
             b == Do("touch", d)
             c == Do("pushRest", d)
             t == <<a, b, c>>
             s == PreemptCalls(d)
  <2>1. calls' = s \o t
    BY <1>11 DEF PushReceived, Event
  <2>2. a \in Call /\ b \in Call /\ c \in Call /\ <<a, b>> \in FreeCalls /\ Append(<<a, b>>, c) \in TameCalls
    <3>1. <<a, b>> \in FreeCalls
      BY <1>1, FewFree
    <3> QED BY <1>1, <1>3, <1>4, <3>1 DEF FreeCall
  <2>3. s \in FreeCalls
    BY PreemptTame
  <2> HIDE DEF a, b, c, s
  <2>4. t \in TameCalls
    BY <2>2, OneMore
  <2> QED BY <2>1, <2>3, <2>4, MoreTame, TameEvent
<1>12. CASE RefusalReceived(d)
  BY <1>12, HandlerTame, InactiveNames, TameEvent DEF RefusalReceived, Event, FreeCalls
<1>13. CASE TicketReceived(d)
  BY <1>13, TicketStack
<1>14. \A a \in FreeCall : <<a, Do("closed", d)>> \in TameCalls
  <2> SUFFICES ASSUME NEW a \in FreeCall
               PROVE  <<a, Do("closed", d)>> \in TameCalls
    OBVIOUS
  <2> DEFINE c == Do("closed", d)
  <2>1. <<a>> \in FreeCalls /\ a \in Call /\ c \in Call /\ Append(<<a>>, c) \in TameCalls
    <3>1. <<a>> \in FreeCalls
      BY FewFree
    <3> QED BY <1>3, <1>4, <3>1 DEF FreeCall
  <2> HIDE DEF c
  <2>2. <<a, c>> = Append(<<a>>, c)
    BY <2>1, OneMore
  <2> QED BY <2>1, <2>2 DEF c
<1>15. CASE DataReceived(d)
  <2> DEFINE a == SetState(d, "Finished")
             b == Do("rename", d)
             u == Do("disconnected", d)
             c == Do("closed", d)
  <2>1. calls' \in {<<Do("touch", d)>>, <<u, c>>, <<a, b, u, c>>}
    BY <1>15 DEF DataReceived, Event
  <2>2. a \in FreeCall /\ b \in FreeCall /\ u \in FreeCall /\ c \in Call
    BY <1>1, <1>2, <1>3
  <2>3. <<Do("touch", d)>> \in TameCalls /\ <<u, c>> \in TameCalls
    BY <1>1, <1>14, FewFree DEF FreeCalls
  <2>4. <<a, b, u, c>> \in TameCalls
    <3>1. <<a, b>> \in FreeCalls
      BY <2>2, FewFree
    <3>2. <<a, b>> \o <<u, c>> \in TameCalls
      BY <2>3, <3>1, MoreTame
    <3> HIDE DEF a, b, u, c
    <3>3. a \in Call /\ b \in Call /\ u \in Call
      BY <2>2 DEF FreeCall
    <3>4. <<a, b>> \o <<u, c>> = <<a, b, u, c>>
      BY <2>2, <3>3, TwoAndTwo
    <3> QED BY <3>2, <3>4
  <2> HIDE DEF a, b, u, c
  <2> QED BY <2>1, <2>3, <2>4, TameEvent
<1>16. CASE SocketLost(d)
  BY <1>1, <1>14, <1>16, TameEvent DEF SocketLost, Event
<1>17. CASE \E timer \in {"tracked", "earlier"} : InitTimedOut(d, timer)
  <2>1. calls' \in {<<SetState(d, "QueuedRemotely")>>, <<>>}
    BY <1>17 DEF InitTimedOut, Event
  <2> QED BY <1>2, <2>1, FewFree, TameEvent DEF FreeCalls
<1> QED BY <1>5, <1>6, <1>7, <1>8, <1>9, <1>10, <1>11, <1>12, <1>13, <1>15, <1>16, <1>17 DEF DownloadEvent

\* The events of a peer.
LEMMA UserEventStack ==
  ASSUME DownloadAssumption, TypeOK, StackInvariant, NEW x \in Users, UserEvent(x)
  PROVE  StackInvariant'
<1>1. CASE AddFolder(x)
  BY <1>1, FreeCallNames, FewFree, TameEvent DEF AddFolder, Event, FreeCalls
<1>2. CASE PeerConnecting(x) \/ PeerLost(x)
  BY <1>2, FewFree, TameEvent DEF PeerConnecting, PeerLost, Event, FreeCalls
<1>3. CASE PeerUnavailable(x)
  <2>1. downloading[x] # NoDownload => downloading[x] \in Downloads
    BY DEF TypeOK
  <2>2. UnavailableCalls(x) \in FreeCalls
    BY <2>1, FewFree, HandlerTame, InactiveNames DEF UnavailableCalls
  <2> QED BY <1>3, <2>2, TameEvent DEF PeerUnavailable, Event, FreeCalls
<1>4. CASE PeerReady(x) \/ PeerOffline(x)
  <2> DEFINE a == Loop("requeueOffline", {x})
             b == Start(x)
             c == Loop("peerOffline", {x})
  <2>1. calls' = <<a, b>> \/ calls' = <<c>>
    BY <1>4 DEF PeerReady, PeerOffline, Event, ReadyCalls, OfflineCalls
  <2>2. /\ a.op = "loop" /\ a.over = "requeueOffline" /\ b.op = "start" /\ c.op = "loop" /\ c.over = "peerOffline"
        /\ a \in Call /\ b \in Call /\ c \in Call
    <3>1. /\ a.op = "loop" /\ a.over = "requeueOffline" /\ b.op = "start"
          /\ c.op = "loop" /\ c.over = "peerOffline"
      BY DEF Loop, LoopFrom, Start
    <3>2. {x} \in SUBSET Users /\ "requeueOffline" \in Loops /\ "peerOffline" \in Loops
      BY DEF Loops
    <3> QED BY <3>1, <3>2, LoopType, CallTypes
  <2> HIDE DEF a, b, c
  <2>3. calls' \in Seq(Call) /\ \A k \in 1 .. Len(calls') : calls'[k] \in {a, b, c}
    <3>1. /\ <<a, b>> \in Seq(Call) /\ \A k \in 1 .. Len(<<a, b>>) : <<a, b>>[k] \in {a, b}
          /\ <<c>> \in Seq(Call) /\ \A k \in 1 .. Len(<<c>>) : <<c>>[k] = c
      BY <2>2
    <3> QED BY <2>1, <3>1
  <2>4. \A k \in 1 .. Len(calls') :
          /\ calls'[k].op \in {"check", "peerSocket", "start", "loop"}
          /\ calls'[k].op = "loop" => calls'[k].over # "logout"
    BY <2>2, <2>3
  <2> QED BY <2>3, <2>4, NestedEvent
<1> QED BY <1>1, <1>2, <1>3, <1>4 DEF UserEvent

LEMMA RestartStack ==
  ASSUME calls' = <<[op |-> "load"]>>
  PROVE  StackInvariant'
<1>1. [op |-> "load"] \in Call /\ [op |-> "load"].op \in LastOps
  BY CallTypes DEF LastOps
<1> QED BY <1>1, LastTame, TameEvent

\* The events of the server connection, the configuration and the process.
LEMMA GlobalEventStack ==
  ASSUME DownloadAssumption, TypeOK, StackInvariant, GlobalEvent
  PROVE  StackInvariant'
<1>1. CASE LoggedIn \/ \E n \in Slots : SetSlots(n)
  <2>1. calls' = <<CheckDownloads>>
    BY <1>1 DEF LoggedIn, SetSlots, Event
  <2> QED BY <2>1, FreeCallNames, FewFree, TameEvent DEF FreeCalls
<1>2. CASE LoggedOut
  <2> DEFINE c == Loop("logout", Users)
  <2>1. calls' = <<c>> /\ ~loggedIn'
    BY <1>2 DEF LoggedOut, Event
  <2>2. c \in Call /\ c.op = "loop"
    <3>1. Users \in SUBSET Users /\ "logout" \in Loops
      BY DEF Loops
    <3> QED BY <3>1, LoopType DEF Loop, LoopFrom
  <2> HIDE DEF c
  <2>3. <<c>> \in Seq(Call) /\ \A k \in 1 .. Len(<<c>>) : <<c>>[k] = c
    BY <2>2
  <2> QED BY <2>1, <2>2, <2>3, NestedEvent
<1>3. CASE Shutdown \/ Crash
  BY <1>3, RestartStack DEF Shutdown, Crash, Restart
<1> QED BY <1>1, <1>2, <1>3 DEF GlobalEvent

\* Nothing of it changes when nothing does.
LEMMA StackStutters ==
  ASSUME StackInvariant, UNCHANGED vars
  PROVE  StackInvariant'
<1>1. calls' = calls /\ state' = state /\ downloads' = downloads /\ loggedIn' = loggedIn
  BY DEF vars, objects, world
<1> QED BY <1>1 DEF StackInvariant, LastIsLast, PartialIsCovered, ProgressIsLast, ProgressIsKnown, EraseIsSafe, Requeued,
      Ticketed, Progresses, Partial, Nested, FelledBefore, Fells, Buried, Spares, Reenters, Known

LEMMA InitStack ==
  ASSUME Init
  PROVE  StackInvariant
<1> DEFINE c == [op |-> "load"]
<1>1. calls = <<c>> /\ c.op = "load" /\ c \in Call
  BY CallTypes DEF Init
<1> HIDE DEF c
<1>2. Len(calls) = 1 /\ calls[1] = c /\ \A k \in 1 .. Len(calls) : k = 1
  BY <1>1
<1> QED BY <1>1, <1>2 DEF StackInvariant, LastIsLast, PartialIsCovered, ProgressIsLast, ProgressIsKnown, EraseIsSafe,
      Requeued, Progresses, Partial

-----------------------------------------------------------------------------
(* Whom we download from. A download is listed only while it is active; it *)
(* is in m_Downloads then, but for the moment before its closed socket is  *)
(* dropped; and what offers and add resume is not active once it is gone.  *)

\* Calls that list the download they are about.
Uses == {"addRest", "accept", "offerRest"}

SafeDownloads == {d \in Downloads : d \in Known \/ state[d] \notin ActiveStates}

ListedIsKnown ==
  \A x \in Users : downloading[x] # NoDownload =>
    downloading[x] \in Known \/ (calls # <<>> /\ Top.op = "closed" /\ Top.down = downloading[x])

UsedIsSafe == \A k \in 1 .. Len(calls) : calls[k].op \in Uses => calls[k].down \in SafeDownloads

Listing == ListedIsActive /\ ListedIsKnown /\ UnknownIsOut /\ UsedIsSafe

\* All other calls.
Unused == {c \in Call : c.op \notin Uses}

LEMMA UnusedCalls ==
  /\ \A d \in Downloads, s \in TrStates : SetState(d, s) \in Unused
  /\ \A d \in Downloads, o \in DownOps \ Uses : Do(o, d) \in Unused
  /\ \A i \in Nat \ {0} : CheckFrom(i) \in Unused
  /\ CheckDownloads \in Unused
  /\ \A x \in Users : PeerSocket(x) \in Unused /\ Start(x) \in Unused
  /\ \A o \in Loops, w \in SUBSET Users, i \in Nat \ {0}, e \in Nat : LoopFrom(o, w, i, e) \in Unused
  /\ Allow \in Unused
  /\ \A list \in Seq(Entries) : LoadRest(list) \in Unused
  /\ \A e \in Entries : [op |-> "loadState", entry |-> e] \in Unused
<1> USE CallTypes DEF Unused, Uses
<1>1. \A d \in Downloads, s \in TrStates : SetState(d, s) \in Unused
  BY DEF SetState
<1>2. \A d \in Downloads, o \in DownOps \ Uses : Do(o, d) \in Unused
  BY DEF Do
<1>3. \A i \in Nat \ {0} : CheckFrom(i) \in Unused
  BY DEF CheckFrom
<1>4. CheckDownloads \in Unused
  BY <1>3 DEF CheckDownloads
<1>5. \A x \in Users : PeerSocket(x) \in Unused /\ Start(x) \in Unused
  BY DEF PeerSocket, Start
<1>6. \A o \in Loops, w \in SUBSET Users, i \in Nat \ {0}, e \in Nat : LoopFrom(o, w, i, e) \in Unused
  BY DEF LoopFrom
<1>7. Allow \in Unused
  BY DEF Allow
<1>8. \A list \in Seq(Entries) : LoadRest(list) \in Unused
  BY DEF LoadRest
<1>9. \A e \in Entries : [op |-> "loadState", entry |-> e] \in Unused
  OBVIOUS
<1> QED BY <1>1, <1>2, <1>3, <1>4, <1>5, <1>6, <1>7, <1>8, <1>9

LEMMA FewUnused ==
  /\ <<>> \in Seq(Unused)
  /\ \A a \in Unused : <<a>> \in Seq(Unused)
  /\ \A a, b \in Unused : <<a, b>> \in Seq(Unused)
  /\ \A a, b, c \in Unused : <<a, b, c>> \in Seq(Unused)
  OBVIOUS

LEMMA UnusedIsCall ==
  ASSUME NEW s \in Seq(Unused)
  PROVE  s \in Seq(Call) /\ \A k \in 1 .. Len(s) : s[k].op \notin Uses
<1>1. \A k \in 1 .. Len(s) : s[k] \in Unused
  BY ElementOfSeq
<1> QED BY <1>1 DEF Unused

LEMMA MoreUnused ==
  ASSUME NEW s \in Seq(Unused), NEW t \in Seq(Unused)
  PROVE  s \o t \in Seq(Unused) /\ \A c \in Unused : Append(s, c) \in Seq(Unused)
  BY ConcatProperties, AppendProperties

LEMMA FreeIsUnused == FreeCalls \subseteq Seq(Unused)
<1> SUFFICES ASSUME NEW s \in FreeCalls
             PROVE  s \in Seq(Unused)
  OBVIOUS
<1>1. s \in Seq(Call) /\ Tame(s) /\ \A k \in 1 .. Len(s) : s[k].op \notin LastOps
  BY DEF FreeCalls, TameCalls
<1>2. Len(s) \in Nat /\ s = [k \in 1 .. Len(s) |-> s[k]] /\ \A k \in 1 .. Len(s) : s[k] \in Call
  BY <1>1, LenProperties, ElementOfSeq
<1>3. \A k \in 1 .. Len(s) : s[k] \in Unused
  BY <1>1, <1>2 DEF Unused, Uses, LastOps, Tame, Partial
<1> QED BY <1>2, <1>3

\* What is still to run stays safe when no download that is safe becomes unsafe.
LEMMA ReturnUses ==
  ASSUME calls \in Seq(Call), calls # <<>>, UsedIsSafe, NEW now \in Seq(Call), Return(now),
         \A k \in 1 .. Len(now) : now[k].op \in Uses => now[k].down \in SafeDownloads',
         SafeDownloads \subseteq SafeDownloads'
  PROVE  UsedIsSafe'
<1>1. /\ Len(now) \in Nat /\ Len(calls) \in Nat \ {0}
      /\ \A k \in 1 .. Len(now) : k \in 1 .. Len(calls') /\ calls'[k] = now[k]
  BY StackPositions
<1>2. PICK up \in [2 .. Len(calls) -> 1 .. Len(calls')] :
           /\ \A i \in 2 .. Len(calls) : calls'[up[i]] = calls[i]
           /\ \A k \in 1 .. Len(calls') : k \in 1 .. Len(now) \/ \E i \in 2 .. Len(calls) : k = up[i]
  BY StackMoves
<1>3. ASSUME NEW k \in 1 .. Len(calls'), calls'[k].op \in Uses
      PROVE  calls'[k].down \in SafeDownloads'
  <2>1. CASE k \in 1 .. Len(now)
    BY <1>1, <1>3, <2>1
  <2>2. CASE \E i \in 2 .. Len(calls) : k = up[i]
    <3>1. PICK i \in 2 .. Len(calls) : k = up[i]
      BY <2>2
    <3>2. i \in 1 .. Len(calls)
      BY <1>1
    <3>3. calls'[k] = calls[i] /\ calls[i] \in Call
      BY <1>2, <3>1, <3>2, ElementOfSeq
    <3>4. calls[i].down \in SafeDownloads
      BY <1>3, <3>2, <3>3 DEF UsedIsSafe
    <3> QED BY <3>3, <3>4
  <2> QED BY <1>2, <2>1, <2>2
<1> QED BY <1>3 DEF UsedIsSafe

\* A call that neither lists nor changes a state.
LEMMA QuietListing ==
  ASSUME TypeOK, Listing, NEW op, Running(op), op # "closed",
         NEW now \in Seq(Call), \A k \in 1 .. Len(now) : now[k].op \in Uses => now[k].down \in SafeDownloads,
         Return(now), UNCHANGED <<downloads, state, downloading>>
  PROVE  Listing'
<1>1. calls \in Seq(Call) /\ calls # <<>> /\ Top.op = op
  BY TopType
<1>2. Known' = Known
  BY DEF Known
<1>3. SafeDownloads' = SafeDownloads
  BY <1>2 DEF SafeDownloads
<1>4. UsedIsSafe'
  <2>1. UsedIsSafe
    BY DEF Listing
  <2> QED BY <1>1, <1>3, <2>1, ReturnUses
<1>5. ListedIsActive' /\ UnknownIsOut'
  BY <1>2 DEF Listing, ListedIsActive, UnknownIsOut
<1>6. ListedIsKnown'
  BY <1>1, <1>2 DEF Listing, ListedIsKnown
<1> QED BY <1>4, <1>5, <1>6 DEF Listing

LEMMA UnusedListing ==
  ASSUME TypeOK, Listing, NEW op, Running(op), op # "closed",
         NEW now \in Seq(Unused), Return(now), UNCHANGED <<downloads, state, downloading>>
  PROVE  Listing'
  BY UnusedIsCall, QuietListing

\* The calls that push nothing of concern, and change nothing of concern.
LEMMA LoadListing ==
  ASSUME TypeOK, Listing, DoLoad \/ DoLoadRest \/ DoLoadState \/ DoAllow
  PROVE  Listing'
<1> USE DEF objects
<1>1. CASE DoLoad
  <2> DEFINE now == IF hasFile THEN <<LoadRest(saved)>> ELSE <<>>
  <2>1. Running("load") /\ Return(now) /\ UNCHANGED <<downloads, state, downloading>>
    BY <1>1 DEF DoLoad
  <2>2. now \in Seq(Unused)
    BY UnusedCalls, FewUnused DEF TypeOK
  <2> HIDE DEF now
  <2> QED BY <2>1, <2>2, UnusedListing
<1>2. CASE DoLoadRest
  <2> DEFINE rest == Top.list
             a == Do("add", Head(rest).download)
             b == [op |-> "loadState", entry |-> Head(rest)]
             c == LoadRest(Tail(rest))
             now == IF rest = <<>> THEN <<Allow>> ELSE <<a, b, c>>
  <2>1. Running("loadRest") /\ Return(now) /\ UNCHANGED <<downloads, state, downloading>>
    BY <1>2 DEF DoLoadRest
  <2>2. rest \in Seq(Entries)
    BY <2>1, TopType, CallFields
  <2>3. rest # <<>> => a \in Unused /\ b \in Unused /\ c \in Unused
    <3> HIDE DEF rest
    <3>1. rest # <<>> => Head(rest) \in Entries /\ Tail(rest) \in Seq(Entries)
      BY <2>2, HeadTailProperties
    <3>2. rest # <<>> => Head(rest).download \in Downloads
      BY <3>1 DEF Entries
    <3> QED BY <3>1, <3>2, UnusedCalls DEF DownOps, Uses
  <2> HIDE DEF a, b, c, rest
  <2>4. now \in Seq(Unused)
    BY <2>3, UnusedCalls, FewUnused
  <2> HIDE DEF now
  <2> QED BY <2>1, <2>4, UnusedListing
<1>3. CASE DoLoadState
  <2> DEFINE d == Top.entry.download
             s == IF Top.entry.aborted THEN "Aborted" ELSE "Offline"
             now == IF d \in Known THEN <<SetState(d, s), Do("touch", d)>> ELSE <<>>
  <2>1. Running("loadState") /\ Return(now) /\ UNCHANGED <<downloads, state, downloading>>
    BY <1>3 DEF DoLoadState
  <2>2. d \in Downloads /\ s \in TrStates
    BY <2>1, TopType, CallFields, StateNames DEF Entries
  <2> HIDE DEF d, s
  <2>3. now \in Seq(Unused)
    BY <2>2, UnusedCalls, FewUnused DEF DownOps, Uses
  <2> HIDE DEF now
  <2> QED BY <2>1, <2>3, UnusedListing
<1>4. CASE DoAllow
  <2>1. Running("allow") /\ Return(<<CheckDownloads>>) /\ UNCHANGED <<downloads, state, downloading>>
    BY <1>4 DEF DoAllow
  <2>2. <<CheckDownloads>> \in Seq(Unused)
    BY UnusedCalls, FewUnused
  <2> QED BY <2>1, <2>2, UnusedListing
<1> QED BY <1>1, <1>2, <1>3, <1>4

\* Listed, for a download that is safe.
LEMMA ListedIsRight ==
  ASSUME DownloadAssumption, TypeOK, ListedIsActive, NEW d \in Downloads, NEW s
  PROVE  /\ \A x \in Users : Listed(d, s)[x] # NoDownload =>
              \/ Listed(d, s)[x] = d /\ x = UserOf[d] /\ s \in ActiveStates
              \/ Listed(d, s)[x] = downloading[x] /\ Listed(d, s)[x] # d
<1>1. UserOf[d] \in Users /\ d # NoDownload
  BY DEF DownloadAssumption
<1>2. \A x \in Users : downloading[x] = d => x = UserOf[d]
  BY <1>1 DEF ListedIsActive
<1>3. downloading \in [Users -> Downloads \union {NoDownload}]
  BY DEF TypeOK
<1> QED BY <1>1, <1>2, <1>3 DEF Listed

\* A call that lists a download that is safe by its state, and changes no state.
LEMMA ListingStep ==
  ASSUME DownloadAssumption, TypeOK, Listing, NEW op, Running(op), op # "closed",
         NEW d \in SafeDownloads, downloading' = Listed(d, state[d]),
         NEW now \in Seq(Unused), Return(now), UNCHANGED <<downloads, state>>
  PROVE  Listing'
<1>1. calls \in Seq(Call) /\ calls # <<>> /\ Top.op = op
  BY TopType
<1>2. Known' = Known /\ d \in Downloads /\ (d \in Known \/ state[d] \notin ActiveStates)
  BY DEF Known, SafeDownloads
<1>3. SafeDownloads' = SafeDownloads
  BY <1>2 DEF SafeDownloads
<1>4. UsedIsSafe'
  <2>1. UsedIsSafe
    BY DEF Listing
  <2> QED BY <1>1, <1>3, <2>1, UnusedIsCall, ReturnUses
<1>5. \A x \in Users : downloading'[x] # NoDownload =>
        \/ downloading'[x] = d /\ x = UserOf[d] /\ state[d] \in ActiveStates
        \/ downloading'[x] = downloading[x] /\ downloading'[x] # d
  BY <1>2, ListedIsRight DEF Listing
<1>6. ListedIsActive' /\ UnknownIsOut' /\ ListedIsKnown'
  BY <1>1, <1>2, <1>5 DEF Listing, ListedIsActive, ListedIsKnown, UnknownIsOut
<1> QED BY <1>4, <1>6 DEF Listing

\* The first call of the stack progresses only if its download is in the list, or is about
\* to lose its socket.
LEMMA ProgressTop ==
  ASSUME StackInvariant, calls \in Seq(Call), calls # <<>>, Progresses(Top)
  PROVE  \/ Top.down \in Known
         \/ /\ Top.st = "Transferring"
            /\ Tail(calls) \in Seq(Call) /\ Len(Tail(calls)) = 1
            /\ Tail(calls)[1].op = "closed" /\ Tail(calls)[1].down = Top.down
<1>1. Top = calls[1] /\ Len(calls) \in Nat \ {0} /\ 1 \in 1 .. Len(calls)
  BY HeadTailProperties, LenProperties DEF Top
<1>2. Len(calls) = 1 \/ Ticketed(calls, 1)
  BY <1>1 DEF StackInvariant, ProgressIsLast
<1>3. CASE Len(calls) = 1
  BY <1>1, <1>3 DEF StackInvariant, ProgressIsKnown
<1>4. CASE Ticketed(calls, 1)
  <2>1. Len(calls) = 2 /\ calls[2].op = "closed" /\ calls[2].down = Top.down /\ Top.st = "Transferring"
    BY <1>1, <1>4 DEF Ticketed
  <2> DEFINE t == Tail(calls)
             n == Len(calls)
  <2>2. t \in Seq(Call) /\ Len(t) = n - 1 /\ \A i \in 1 .. n - 1 : t[i] = calls[i + 1]
    BY HeadTailProperties
  <2>3. n = 2
    BY <2>1
  <2> HIDE DEF t, n
  <2>4. Len(t) = 1 /\ 1 \in 1 .. n - 1 /\ 1 + 1 = 2
    BY <2>2, <2>3
  <2>5. t[1] = calls[2]
    BY <2>2, <2>4
  <2> QED BY <2>1, <2>2, <2>4, <2>5 DEF t
<1> QED BY <1>2, <1>3, <1>4

\* setState, and what touches no more than one download.
LEMMA SetterListing ==
  ASSUME DownloadAssumption, TypeOK, StackInvariant, Listing,
         DoSetState \/ DoDisconnected \/ DoRelease \/ DoClosed \/ DoEnqueue \/ DoTouch
  PROVE  Listing'
<1> USE DEF objects
<1>0. <<>> \in Seq(Unused)
  BY FewUnused
<1>1. CASE DoSetState
  <2> DEFINE d == Top.down
             s == Top.st
             now == Aftermath(d, s)
  <2>1. /\ Running("setState") /\ Top.op = "setState" /\ Return(now) /\ Known' = Known
        /\ state' = [state EXCEPT ![d] = s] /\ downloading' = Listed(d, s)
        /\ calls \in Seq(Call) /\ calls # <<>>
    <3>1. Running("setState")
      BY <1>1 DEF DoSetState
    <3> QED BY <1>1, <3>1, TopType DEF DoSetState, Known
  <2>2. d \in Downloads /\ s \in TrStates
    BY <2>1, TopType, CallFields
  <2>3. now \in Seq(Unused)
    BY <2>2, HandlerTame, FreeIsUnused
  <2>4. s \in ActiveStates => Progresses(Top)
    BY <2>1 DEF Progresses
  <2>5. \A x \in Users : downloading'[x] # NoDownload =>
          \/ downloading'[x] = d /\ x = UserOf[d] /\ s \in ActiveStates
          \/ downloading'[x] = downloading[x] /\ downloading'[x] # d
    BY <2>1, <2>2, ListedIsRight DEF Listing
  <2>6. \A x \in Users : downloading[x] # NoDownload => downloading[x] \in Known
    BY <2>1 DEF Listing, ListedIsKnown
  <2>7. state'[d] = s /\ \A y \in Downloads : y # d => state'[y] = state[y]
    BY <2>1, <2>2 DEF TypeOK
  <2>8. ListedIsActive'
    <3>1. \A x \in Users : downloading[x] # NoDownload => UserOf[downloading[x]] = x /\ state[downloading[x]] \in ActiveStates
      BY DEF Listing, ListedIsActive
    <3> HIDE DEF d, s
    <3>2. \A x \in Users : downloading[x] # NoDownload => downloading[x] \in Downloads
      BY DEF TypeOK
    <3> QED BY <2>5, <2>7, <3>1, <3>2 DEF ListedIsActive
  <2>9. CASE d \in Known \/ s \notin ActiveStates
    <3> HIDE DEF now, d, s
    <3>1. SafeDownloads \subseteq SafeDownloads'
      BY <2>1, <2>2, <2>7, <2>9 DEF SafeDownloads
    <3>2. UsedIsSafe'
      BY <2>1, <2>3, <3>1, UnusedIsCall, ReturnUses DEF Listing
    <3>3. ListedIsKnown'
      BY <2>1, <2>5, <2>6, <2>9 DEF ListedIsKnown
    <3>4. UnknownIsOut'
      BY <2>1, <2>7, <2>9 DEF Listing, UnknownIsOut, ActiveStates
    <3> QED BY <2>8, <3>2, <3>3, <3>4 DEF Listing
  <2>10. CASE d \notin Known /\ s \in ActiveStates
    <3>1. /\ s = "Transferring" /\ Tail(calls) \in Seq(Call) /\ Len(Tail(calls)) = 1
          /\ Tail(calls)[1].op = "closed" /\ Tail(calls)[1].down = d
      BY <2>1, <2>4, <2>10, ProgressTop
    <3>2. now = <<>>
      <4>1. s # "Finished"
        BY <3>1
      <4> QED BY <2>10, <4>1 DEF Aftermath
    <3>3. calls' = Tail(calls)
      <4> DEFINE t == Tail(calls)
      <4>1. t \in Seq(Call)
        BY <3>1
      <4>2. calls' = <<>> \o t
        BY <2>1, <3>2 DEF Return
      <4> HIDE DEF t
      <4>3. <<>> \o t = t
        BY <4>1, ConcatEmptySeq
      <4> QED BY <4>2, <4>3 DEF t
    <3> HIDE DEF now, d, s
    <3>4. calls' # <<>> /\ Top' = calls'[1] /\ \A k \in 1 .. Len(calls') : k = 1
      <4> DEFINE r == calls'
      <4>1. r \in Seq(Call) /\ Len(r) = 1
        BY <3>1, <3>3
      <4> HIDE DEF r
      <4>2. r # <<>>
        <5>1. Len(<<>>) = 0 /\ 0 # 1
          OBVIOUS
        <5> QED BY <4>1, <5>1
      <4>3. Head(r) = r[1] /\ \A k \in 1 .. Len(r) : k = 1
        BY <4>1, <4>2, HeadTailProperties
      <4> QED BY <4>2, <4>3 DEF Top, r
    <3>5. UsedIsSafe'
      BY <3>1, <3>3, <3>4 DEF UsedIsSafe, Uses
    <3>6. ListedIsKnown'
      BY <2>1, <2>5, <2>6, <3>1, <3>3, <3>4 DEF ListedIsKnown
    <3>7. UnknownIsOut'
      BY <2>1, <2>7, <3>1 DEF Listing, UnknownIsOut
    <3> QED BY <2>8, <3>5, <3>6, <3>7 DEF Listing
  <2> QED BY <2>9, <2>10
<1>2. CASE DoDisconnected
  <2> DEFINE c == SetState(Top.down, IF complete[Top.down] THEN "Finished" ELSE "ConnectionClosed")
  <2>1. Running("disconnected") /\ Return(<<c>>) /\ UNCHANGED <<downloads, state, downloading>>
    BY <1>2 DEF DoDisconnected
  <2>2. Top.down \in Downloads
    BY <2>1, TopType, CallFields DEF DownOps
  <2>3. <<c>> \in Seq(Unused)
    BY <2>2, UnusedCalls, StateNames, FewUnused
  <2> HIDE DEF c
  <2> QED BY <2>1, <2>3, UnusedListing
<1>3. CASE DoRelease
  <2>1. Running("release") /\ Return(<<>>) /\ UNCHANGED <<downloads, state, downloading>>
    BY <1>3 DEF DoRelease
  <2> QED BY <1>0, <2>1, UnusedListing
<1>4. CASE DoClosed
  <2> DEFINE d == Top.down
  <2>1. /\ Running("closed") /\ Top.op = "closed" /\ Return(<<>>) /\ UNCHANGED <<downloads, state>> /\ Known' = Known
        /\ downloading' = IF d \in Known THEN downloading
                          ELSE [x \in Users |-> IF downloading[x] = d THEN NoDownload ELSE downloading[x]]
        /\ calls \in Seq(Call) /\ calls # <<>>
    <3>1. Running("closed")
      BY <1>4 DEF DoClosed
    <3> QED BY <1>4, <3>1, TopType DEF DoClosed, Known
  <2>2. \A x \in Users : downloading'[x] # NoDownload => downloading'[x] = downloading[x] /\ downloading[x] \in Known
    BY <2>1 DEF Listing, ListedIsKnown
  <2>3. SafeDownloads' = SafeDownloads
    BY <2>1 DEF SafeDownloads
  <2>4. UsedIsSafe'
    BY <1>0, <2>1, <2>3, UnusedIsCall, ReturnUses DEF Listing
  <2>5. ListedIsActive' /\ ListedIsKnown' /\ UnknownIsOut'
    BY <2>1, <2>2 DEF Listing, ListedIsActive, ListedIsKnown, UnknownIsOut
  <2> QED BY <2>4, <2>5 DEF Listing
<1>5. CASE DoEnqueue
  <2>1. Running("unenqueue") \/ Running("enqueue")
    BY <1>5 DEF DoEnqueue
  <2>2. Return(<<>>) /\ UNCHANGED <<downloads, state, downloading>>
    BY <1>5 DEF DoEnqueue
  <2> QED BY <1>0, <2>1, <2>2, UnusedListing
<1>6. CASE DoTouch
  <2>1. Running("touch") /\ Return(<<>>) /\ UNCHANGED <<downloads, state>>
    BY <1>6 DEF DoTouch
  <2>2. CASE Top.down \in Known /\ downloading' = Listed(Top.down, state[Top.down])
    <3>1. Top.down \in Downloads
      BY <2>1, TopType, CallFields DEF DownOps
    <3>2. Top.down \in SafeDownloads
      BY <2>2, <3>1 DEF SafeDownloads
    <3> QED BY <1>0, <2>1, <2>2, <3>2, ListingStep
  <2>3. CASE UNCHANGED downloading
    BY <1>0, <2>1, <2>3, UnusedListing
  <2> QED BY <1>6, <2>2, <2>3 DEF DoTouch
<1> QED BY <1>1, <1>2, <1>3, <1>4, <1>5, <1>6

\* checkDownloads, the peer sockets and the loops.
LEMMA CheckListing ==
  ASSUME DownloadAssumption, TypeOK, Listing, DoCheckDownloads \/ DoPeerSocket \/ DoStart \/ DoLoop
  PROVE  Listing'
<1> USE DEF objects
<1>0. <<>> \in Seq(Unused) /\ Len(downloads) \in Nat
  BY FewUnused, LenProperties DEF TypeOK
<1>1. CASE DoCheckDownloads
  <2> DEFINE wanted == {j \in Top.i .. Len(downloads) : Wanted(downloads[j])}
  <2>1. Running("check") /\ UNCHANGED <<downloads, state, downloading>>
    BY <1>1 DEF DoCheckDownloads
  <2>2. Return(<<>>) \/ \E j \in First(wanted) : Return(AskAndGoOn(j))
    BY <1>1 DEF DoCheckDownloads
  <2>3. ASSUME NEW j \in First(wanted)
        PROVE  AskAndGoOn(j) \in Seq(Unused)
    <3>1. j \in Nat \ {0} /\ j \in 1 .. Len(downloads)
      <4>1. Top.i \in Nat \ {0}
        BY <2>1, TopType, CallFields
      <4>2. j \in Top.i .. Len(downloads)
        BY FirstElement
      <4> QED BY <1>0, <4>1, <4>2
    <3>2. UserOf[downloads[j]] \in Users
      BY <3>1, ListElement DEF DownloadAssumption
    <3>3. j + 1 \in Nat \ {0}
      BY <3>1
    <3>4. PeerSocket(UserOf[downloads[j]]) \in Unused /\ CheckFrom(j + 1) \in Unused
      BY <3>2, <3>3, UnusedCalls
    <3> QED BY <3>4, FewUnused DEF AskAndGoOn
  <2> HIDE DEF wanted
  <2> QED BY <1>0, <2>1, <2>2, <2>3, UnusedListing
<1>2. CASE DoPeerSocket
  <2> DEFINE x == Top.user
  <2>1. Running("peerSocket") /\ UNCHANGED <<downloads, state, downloading>>
    BY <1>2 DEF DoPeerSocket
  <2>2. x \in Users
    BY <2>1, TopType, CallFields
  <2>3. Return(<<>>) \/ Return(ReadyCalls(x)) \/ Return(OfflineCalls(x))
    BY <1>2 DEF DoPeerSocket
  <2> HIDE DEF x
  <2>4. ReadyCalls(x) \in Seq(Unused) /\ OfflineCalls(x) \in Seq(Unused)
    <3>1. {x} \in SUBSET Users /\ "requeueOffline" \in Loops /\ "peerOffline" \in Loops
      BY <2>2 DEF Loops
    <3>2. 1 \in Nat \ {0}
      OBVIOUS
    <3>3. Loop("requeueOffline", {x}) \in Unused /\ Loop("peerOffline", {x}) \in Unused /\ Start(x) \in Unused
      BY <1>0, <2>2, <3>1, <3>2, UnusedCalls DEF Loop
    <3> QED BY <3>3, FewUnused DEF ReadyCalls, OfflineCalls
  <2> QED BY <1>0, <2>1, <2>3, <2>4, UnusedListing
<1>3. CASE DoStart
  <2> DEFINE x == Top.user
             first == Initiated(x)
  <2>1. /\ Running("start") /\ Top.op = "start" /\ Return(<<>>) /\ Known' = Known
        /\ calls \in Seq(Call) /\ calls # <<>>
        /\ state' = [d \in Downloads |-> IF d \in first THEN "Initiating" ELSE state[d]]
        /\ \/ first = {} /\ UNCHANGED downloading
           \/ \E d \in first : downloading' = [downloading EXCEPT ![x] = d]
    <3>1. Running("start")
      BY <1>3 DEF DoStart
    <3> QED BY <1>3, <3>1, TopType DEF DoStart, Known
  <2>2. x \in Users
    BY <2>1, TopType, CallFields
  <2>3. \A d \in first : d \in Known /\ d \in Downloads /\ UserOf[d] = x /\ downloading[x] = NoDownload
    <3>1. \A j \in 1 .. Len(downloads) : downloads[j] \in Known /\ downloads[j] \in Downloads
      BY <1>0, ListElement DEF Known, Range
    <3> HIDE DEF x
    <3> QED BY <3>1, FirstElement DEF Initiated
  <2> HIDE DEF x, first
  <2>4. \A d \in Downloads : state'[d] = state[d] \/ (d \in first /\ state'[d] = "Initiating")
    BY <2>1
  <2>5. SafeDownloads \subseteq SafeDownloads'
    BY <2>1, <2>3, <2>4 DEF SafeDownloads
  <2>6. UsedIsSafe'
    BY <1>0, <2>1, <2>5, UnusedIsCall, ReturnUses DEF Listing
  <2>7. \A y \in Users : downloading'[y] # NoDownload =>
          \/ downloading'[y] = downloading[y]
          \/ y = x /\ downloading'[y] \in first
    BY <2>1, <2>2 DEF TypeOK
  <2>8. \A y \in Users : downloading[y] # NoDownload => downloading[y] \in Known /\ downloading[y] \in Downloads
    BY <2>1 DEF Listing, ListedIsKnown, TypeOK
  <2>9. ListedIsKnown'
    BY <2>1, <2>3, <2>7, <2>8 DEF ListedIsKnown
  <2>10. ListedIsActive'
    <3>1. \A y \in Users : downloading[y] # NoDownload => UserOf[downloading[y]] = y /\ state[downloading[y]] \in ActiveStates
      BY DEF Listing, ListedIsActive
    <3>2. \A d \in first : state'[d] = "Initiating"
      BY <2>1, <2>3
    <3>3. \A d \in Downloads : state[d] \in ActiveStates => state'[d] \in ActiveStates
      BY <2>4 DEF ActiveStates
    <3>4. "Initiating" \in ActiveStates
      BY DEF ActiveStates
    <3> QED BY <2>3, <2>7, <2>8, <3>1, <3>2, <3>3, <3>4 DEF ListedIsActive
  <2>11. UnknownIsOut'
    BY <2>1, <2>3, <2>4 DEF Listing, UnknownIsOut
  <2> QED BY <2>6, <2>9, <2>10, <2>11 DEF Listing
<1>4. CASE DoLoop
  <2> DEFINE over == Top.over
             last == IF Top.end < Len(downloads) THEN Top.end ELSE Len(downloads)
             hits == {j \in Top.i .. last : Selected(over, Top.who, downloads[j])}
             now(j) == Append(IterationCalls(over, downloads[j]), LoopFrom(over, Top.who, j + 1, Top.end))
  <2>1. Running("loop") /\ UNCHANGED <<downloads, state, downloading>>
    BY <1>4 DEF DoLoop
  <2>2. over \in Loops /\ Top.who \in SUBSET Users /\ Top.i \in Nat \ {0} /\ Top.end \in Nat
    BY <2>1, TopType, CallFields
  <2>3. Return(<<>>) \/ \E j \in First(hits) : Return(now(j))
    BY <1>4 DEF DoLoop
  <2>4. ASSUME NEW j \in First(hits)
        PROVE  now(j) \in Seq(Unused)
    <3>1. j \in Nat \ {0} /\ j + 1 \in Nat \ {0} /\ j \in 1 .. Len(downloads)
      <4>1. j \in Top.i .. last
        BY FirstElement
      <4> QED BY <1>0, <2>2, <4>1
    <3>2. downloads[j] \in Downloads
      BY <3>1, ListElement
    <3> HIDE DEF over
    <3>3. LoopFrom(over, Top.who, j + 1, Top.end) \in Unused
      BY <2>2, <3>1, UnusedCalls
    <3>4. IterationCalls(over, downloads[j]) \in Seq(Unused)
      <4>1. /\ SetState(downloads[j], "QueuedRemotely") \in Unused /\ SetState(downloads[j], "Offline") \in Unused
            /\ Do("unenqueue", downloads[j]) \in Unused
        BY <3>2, UnusedCalls, StateNames DEF DownOps, Uses
      <4> QED BY <2>2, <4>1, FewUnused DEF IterationCalls, Loops
    <3> QED BY <3>3, <3>4, MoreUnused
  <2> HIDE DEF now, hits
  <2> QED BY <1>0, <2>1, <2>3, <2>4, UnusedListing
<1> QED BY <1>1, <1>2, <1>3, <1>4

LEMMA KnownGrows ==
  ASSUME downloads \in Seq(Downloads), NEW d \in Downloads, downloads' = Append(downloads, d)
  PROVE  Known' = Known \union {d}
<1> DEFINE n == Len(downloads)
           g == Append(downloads, d)
<1>1. n \in Nat /\ DOMAIN downloads = 1 .. n
  BY LenProperties
<1>2. /\ g \in Seq(Downloads) /\ Len(g) = n + 1 /\ g[n + 1] = d
      /\ \A j \in 1 .. n : g[j] = downloads[j]
  BY AppendProperties
<1>3. DOMAIN g = 1 .. n + 1
  BY <1>2, LenProperties
<1> HIDE DEF n, g
<1>4. \A j \in 1 .. n + 1 : j \in 1 .. n \/ j = n + 1
  BY <1>1
<1>5. \A j \in 1 .. n : j \in 1 .. n + 1
  BY <1>1
<1>6. n + 1 \in 1 .. n + 1
  BY <1>1
<1>7. Range(g) = Range(downloads) \union {d}
  BY <1>1, <1>2, <1>3, <1>4, <1>5, <1>6 DEF Range
<1> QED BY <1>7 DEF Known, g

\* What the call on top is about is safe.
LEMMA TopIsSafe ==
  ASSUME TypeOK, UsedIsSafe, NEW op \in Uses, Running(op)
  PROVE  Top.down \in SafeDownloads
<1>1. calls \in Seq(Call) /\ calls # <<>> /\ Top.op = op
  BY TopType
<1>2. Top = calls[1] /\ Len(calls) \in Nat \ {0}
  BY <1>1, HeadTailProperties, LenProperties DEF Top
<1>3. 1 \in 1 .. Len(calls)
  BY <1>2
<1> QED BY <1>1, <1>2, <1>3 DEF UsedIsSafe

\* add, abort and remove.
LEMMA AddListing ==
  ASSUME DownloadAssumption, TypeOK, StackInvariant, Listing,
         DoAdd \/ DoAddRest \/ DoAbortRest \/ DoRemove \/ DoErase
  PROVE  Listing'
<1> USE DEF objects
<1> DEFINE d == Top.down
<1>0. <<>> \in Seq(Unused) /\ UsedIsSafe
  BY FewUnused DEF Listing
<1>a. d \in Downloads /\ calls \in Seq(Call) /\ calls # <<>>
  <2>1. Running("add") \/ Running("addRest") \/ Running("abortRest") \/ Running("remove") \/ Running("erase")
    BY DEF DoAdd, DoAddRest, DoAbortRest, DoRemove, DoErase
  <2> QED BY <2>1, TopType, CallFields DEF DownOps
<1>1. CASE DoAdd
  <2>1. Running("add") /\ Top.op = "add" /\ UNCHANGED downloading
    <3>1. Running("add")
      BY <1>1 DEF DoAdd
    <3> QED BY <1>1, <3>1, TopType DEF DoAdd
  <2>2. CASE Return(<<>>) /\ UNCHANGED <<downloads, state>>
    BY <1>0, <2>1, <2>2, UnusedListing
  <2>3. CASE /\ Return(<<SetState(d, "QueuedRemotely"), Do("addRest", d)>>)
             /\ \/ d \in Known /\ UNCHANGED <<downloads, state>>
                \/ d \notin Known /\ downloads' = Append(downloads, d) /\ state' = [state EXCEPT ![d] = "Offline"]
    <3> DEFINE a == SetState(d, "QueuedRemotely")
               b == Do("addRest", d)
               now == <<a, b>>
    <3>1. a \in Call /\ a.op = "setState" /\ b \in Call /\ b.op = "addRest" /\ b.down = d
      BY <1>a, CallTypes, StateNames DEF DownOps, SetState, Do
    <3>2. Known' = Known \union {d} /\ \A y \in Downloads : state'[y] = state[y] \/ (y = d /\ state'[y] = "Offline" /\ d \notin Known)
      <4>1. downloads \in Seq(Downloads) /\ state \in [Downloads -> TrStates]
        BY DEF TypeOK
      <4>2. CASE d \in Known /\ UNCHANGED <<downloads, state>>
        BY <4>2 DEF Known
      <4>3. CASE downloads' = Append(downloads, d) /\ state' = [state EXCEPT ![d] = "Offline"] /\ d \notin Known
        <5> HIDE DEF d
        <5> QED BY <1>a, <4>1, <4>3, KnownGrows
      <4> QED BY <2>3, <4>2, <4>3
    <3> HIDE DEF a, b, d
    <3>3. /\ now \in Seq(Call) /\ \A k \in 1 .. Len(now) : now[k] = a \/ now[k] = b
      BY <3>1
    <3>4. \A x \in Users : downloading[x] # NoDownload => downloading[x] \in Known /\ downloading[x] \in Downloads
      BY <2>1 DEF Listing, ListedIsKnown, TypeOK
    <3>5. SafeDownloads \subseteq SafeDownloads'
      BY <1>a, <3>2 DEF SafeDownloads
    <3>6. d \in SafeDownloads'
      BY <1>a, <3>2 DEF SafeDownloads
    <3>7. \A k \in 1 .. Len(now) : now[k].op \in Uses => now[k].down \in SafeDownloads'
      BY <3>1, <3>3, <3>6 DEF Uses
    <3>8. Return(now)
      BY <2>3 DEF a, b, d
    <3> HIDE DEF now
    <3>9. UsedIsSafe'
      BY <1>0, <1>a, <3>3, <3>5, <3>7, <3>8, ReturnUses
    <3>10. ListedIsActive'
      BY <2>1, <3>2, <3>4 DEF Listing, ListedIsActive
    <3>11. ListedIsKnown' /\ UnknownIsOut'
      BY <2>1, <3>2, <3>4 DEF Listing, ListedIsKnown, UnknownIsOut
    <3> QED BY <3>9, <3>10, <3>11 DEF Listing
  <2> QED BY <1>1, <2>2, <2>3 DEF DoAdd, Found
<1>2. CASE DoAddRest
  <2> DEFINE s == IF atDest[d] THEN <<SetState(d, "Finished")>> ELSE <<>>
             t == <<CheckDownloads>>
  <2>1. Running("addRest") /\ Return(s \o t) /\ UNCHANGED <<downloads, state>> /\ downloading' = Listed(d, state[d])
    BY <1>2 DEF DoAddRest
  <2>2. s \in Seq(Unused) /\ t \in Seq(Unused)
    BY <1>a, UnusedCalls, StateNames, FewUnused
  <2>3. d \in SafeDownloads
    BY <1>0, <2>1, TopIsSafe DEF Uses
  <2> HIDE DEF s, t, d
  <2>4. s \o t \in Seq(Unused)
    BY <2>2, MoreUnused
  <2> QED BY <2>1, <2>3, <2>4, ListingStep
<1>3. CASE DoAbortRest
  <2> DEFINE now == IF state[d] = "Finished" THEN <<>> ELSE <<SetState(d, "Aborted")>>
  <2>1. Running("abortRest") /\ Return(now) /\ UNCHANGED <<downloads, state, downloading>>
    BY <1>3 DEF DoAbortRest
  <2>2. now \in Seq(Unused)
    BY <1>0, <1>a, UnusedCalls, StateNames, FewUnused
  <2> HIDE DEF now
  <2> QED BY <2>1, <2>2, UnusedListing
<1>4. CASE DoRemove
  <2> DEFINE now == IF d \in Known THEN Append(AbortCalls(d), Do("erase", d)) ELSE <<>>
  <2>1. Running("remove") /\ Return(now) /\ UNCHANGED <<downloads, state, downloading>>
    BY <1>4 DEF DoRemove
  <2>2. now \in Seq(Unused)
    BY <1>0, <1>a, HandlerTame, FreeIsUnused
  <2> HIDE DEF now
  <2> QED BY <2>1, <2>2, UnusedListing
<1>5. CASE DoErase
  <2>1. Running("erase") /\ Top.op = "erase" /\ Return(<<>>) /\ UNCHANGED <<state, downloading>>
    <3>1. Running("erase")
      BY <1>5 DEF DoErase
    <3> QED BY <1>5, <3>1, TopType DEF DoErase
  <2>2. state[d] \in Dead
    <3>1. Top = calls[1] /\ Len(calls) \in Nat \ {0}
      BY <1>a, HeadTailProperties, LenProperties DEF Top
    <3>2. 1 \in 1 .. Len(calls)
      BY <3>1
    <3>3. FelledBefore(calls, 1) \/ Buried(1)
      BY <2>1, <3>1, <3>2 DEF StackInvariant, EraseIsSafe
    <3> QED BY <3>1, <3>3 DEF FelledBefore, Buried
  <2>3. Known \ {d} \subseteq Known' /\ Known' \subseteq Known
    <3>1. CASE \E k \in 1 .. Len(downloads) : downloads[k] = d /\ downloads' = RemoveAt(downloads, k)
      <4>1. PICK k \in 1 .. Len(downloads) : downloads[k] = d /\ downloads' = RemoveAt(downloads, k)
        BY <3>1
      <4>2. Range(RemoveAt(downloads, k)) = Known \ {downloads[k]}
        BY ListShrinks DEF TypeOK
      <4> QED BY <4>1, <4>2 DEF Known
    <3>2. CASE UNCHANGED downloads
      BY <3>2 DEF Known
    <3> QED BY <1>5, <3>1, <3>2 DEF DoErase
  <2> HIDE DEF d
  <2>4. \A x \in Users : downloading[x] # NoDownload => downloading[x] \in Known /\ downloading[x] # d
    BY <2>1, <2>2 DEF Listing, ListedIsKnown, ListedIsActive, Dead, ActiveStates
  <2>5. SafeDownloads \subseteq SafeDownloads'
    BY <2>1, <2>2, <2>3 DEF SafeDownloads, Dead, ActiveStates
  <2>6. UsedIsSafe'
    BY <1>0, <1>a, <2>1, <2>5, UnusedIsCall, ReturnUses
  <2>7. ListedIsActive' /\ ListedIsKnown'
    BY <2>1, <2>3, <2>4 DEF Listing, ListedIsActive, ListedIsKnown
  <2>8. UnknownIsOut'
    BY <2>1, <2>2, <2>3 DEF Listing, UnknownIsOut, Dead
  <2> QED BY <2>6, <2>7, <2>8 DEF Listing
<1> QED BY <1>1, <1>2, <1>3, <1>4, <1>5

\* A transfer offered by the peer.
LEMMA OfferListing ==
  ASSUME DownloadAssumption, TypeOK, Listing, DoOfferRest \/ DoPushRest \/ DoAccept \/ DoAttach \/ DoRename
  PROVE  Listing'
<1> USE DEF objects
<1> DEFINE d == Top.down
           c == Do("accept", d)
<1>0. <<>> \in Seq(Unused) /\ UsedIsSafe
  BY FewUnused DEF Listing
<1>a. d \in Downloads
  <2>1. Running("offerRest") \/ Running("pushRest") \/ Running("accept") \/ Running("attach") \/ Running("rename")
    BY DEF DoOfferRest, DoPushRest, DoAccept, DoAttach, DoRename
  <2> QED BY <2>1, TopType, CallFields DEF DownOps
<1>b. c \in Call /\ c.down = d
  BY <1>a, CallTypes DEF DownOps, Do
<1>1. CASE DoOfferRest
  <2> DEFINE now == IF HasFreeSlots /\ state[d] \in OfferableStates THEN Append(PreemptCalls(d), c) ELSE <<>>
  <2>1. Running("offerRest") /\ Return(now) /\ UNCHANGED <<downloads, state, downloading>>
    BY <1>1 DEF DoOfferRest
  <2>2. d \in SafeDownloads
    BY <1>0, <2>1, TopIsSafe DEF Uses
  <2>3. PreemptCalls(d) \in Seq(Unused)
    BY <1>a, PreemptTame, FreeIsUnused
  <2> HIDE DEF c, d
  <2>4. now \in Seq(Call) /\ \A k \in 1 .. Len(now) : now[k].op \in Uses => now[k].down \in SafeDownloads
    <3>1. CASE now = <<>>
      BY <1>0, <3>1, UnusedIsCall
    <3>2. CASE now = Append(PreemptCalls(d), c)
      <4> DEFINE s == PreemptCalls(d)
                 n == Len(s)
      <4>1. s \in Seq(Call) /\ n \in Nat /\ \A k \in 1 .. n : s[k].op \notin Uses
        BY <2>3, UnusedIsCall, LenProperties
      <4> HIDE DEF s, now
      <4>2. now \in Seq(Call) /\ Len(now) = n + 1 /\ now[n + 1] = c /\ \A k \in 1 .. n : now[k] = s[k]
        BY <1>b, <3>2, <4>1, AppendProperties DEF s
      <4>3. \A k \in 1 .. n + 1 : k \in 1 .. n \/ k = n + 1
        BY <4>1
      <4> HIDE DEF n
      <4> QED BY <1>b, <2>2, <4>1, <4>2, <4>3
    <3> QED BY <3>1, <3>2
  <2> HIDE DEF now
  <2> QED BY <2>1, <2>4, QuietListing
<1>2. CASE DoPushRest
  <2> DEFINE now == IF d \in Known /\ HasFreeSlots THEN <<c>> ELSE <<>>
  <2>1. Running("pushRest") /\ Return(now) /\ UNCHANGED <<downloads, state, downloading>>
    BY <1>2 DEF DoPushRest
  <2> HIDE DEF c, d
  <2>2. now \in Seq(Call) /\ \A k \in 1 .. Len(now) : now[k] = c /\ d \in Known
    BY <1>b
  <2>3. d \in Known => d \in SafeDownloads
    BY <1>a DEF SafeDownloads
  <2> HIDE DEF now
  <2> QED BY <1>b, <2>1, <2>2, <2>3, QuietListing
<1>3. CASE DoAccept
  <2> DEFINE s == IF socket[d] = "none" THEN <<>> ELSE <<Do("disconnected", d)>>
             t == <<Do("attach", d)>>
  <2>1. Running("accept") /\ Return(s \o t) /\ UNCHANGED <<downloads, state>> /\ downloading' = Listed(d, state[d])
    BY <1>3 DEF DoAccept
  <2>2. s \in Seq(Unused) /\ t \in Seq(Unused)
    BY <1>a, UnusedCalls, FewUnused DEF DownOps, Uses
  <2>3. d \in SafeDownloads
    BY <1>0, <2>1, TopIsSafe DEF Uses
  <2> HIDE DEF s, t, d
  <2>4. s \o t \in Seq(Unused)
    BY <2>2, MoreUnused
  <2> QED BY <2>1, <2>3, <2>4, ListingStep
<1>4. CASE DoAttach
  <2>1. Running("attach") /\ UNCHANGED <<downloads, state, downloading>>
    BY <1>4 DEF DoAttach
  <2>2. Return(<<>>) \/ Return(<<SetState(d, "Waiting")>>)
    BY <1>4 DEF DoAttach
  <2>3. <<SetState(d, "Waiting")>> \in Seq(Unused)
    BY <1>a, UnusedCalls, StateNames, FewUnused
  <2> QED BY <1>0, <2>1, <2>2, <2>3, UnusedListing
<1>5. CASE DoRename
  <2>1. Running("rename") /\ Return(<<>>) /\ UNCHANGED <<downloads, state, downloading>>
    BY <1>5 DEF DoRename
  <2> QED BY <1>0, <2>1, UnusedListing
<1> QED BY <1>1, <1>2, <1>3, <1>4, <1>5

\* An event finds every listed download in m_Downloads.
LEMMA EventListing ==
  ASSUME Listing, calls = <<>>, calls' \in Seq(Call), UNCHANGED <<downloads, state, downloading>>,
         \A k \in 1 .. Len(calls') : calls'[k].op \in Uses => calls'[k].down \in SafeDownloads
  PROVE  Listing'
<1>1. Known' = Known
  BY DEF Known
<1>2. SafeDownloads' = SafeDownloads
  BY <1>1 DEF SafeDownloads
<1>3. UsedIsSafe'
  BY <1>2 DEF UsedIsSafe
<1>4. ListedIsActive' /\ ListedIsKnown' /\ UnknownIsOut'
  BY <1>1 DEF Listing, ListedIsActive, ListedIsKnown, UnknownIsOut
<1> QED BY <1>3, <1>4 DEF Listing

LEMMA UnusedEvent ==
  ASSUME Listing, calls = <<>>, calls' \in Seq(Unused), UNCHANGED <<downloads, state, downloading>>
  PROVE  Listing'
<1> DEFINE now == calls'
<1>1. now \in Seq(Call) /\ \A k \in 1 .. Len(now) : now[k].op \notin Uses
  <2>1. now \in Seq(Unused)
    OBVIOUS
  <2> HIDE DEF now
  <2> QED BY <2>1, UnusedIsCall
<1> QED BY <1>1, EventListing

\* The events of one download.
LEMMA DownloadEventListing ==
  ASSUME DownloadAssumption, TypeOK, Listing, NEW d \in Downloads, DownloadEvent(d)
  PROVE  Listing'
<1>0. \A o \in DownOps \ Uses : Do(o, d) \in Unused
  BY UnusedCalls
<1>1. /\ Do("add", d) \in Unused /\ Do("touch", d) \in Unused /\ Do("remove", d) \in Unused
      /\ Do("rename", d) \in Unused /\ Do("disconnected", d) \in Unused /\ Do("pushRest", d) \in Unused
      /\ Do("closed", d) \in Unused
  BY <1>0 DEF DownOps, Uses
<1>2. /\ SetState(d, "Finished") \in Unused /\ SetState(d, "QueuedRemotely") \in Unused
      /\ SetState(d, "Transferring") \in Unused /\ Allow \in Unused
  BY UnusedCalls, StateNames
<1>3. calls = <<>> /\ UNCHANGED <<downloads, state, downloading>>
  BY DEF DownloadEvent, AddDownload, AbortDownload, RemoveDownload, UpdateDownload, FolderContents, OfferReceived, PushReceived,
         RefusalReceived, TicketReceived, DataReceived, SocketLost, InitTimedOut, Retry, Event, Idle, objects
<1>4. CASE AddDownload(d) \/ Retry(d) \/ RemoveDownload(d) \/ FolderContents(d)
  <2>1. calls' \in {<<Do("add", d), Do("touch", d)>>, <<Do("add", d)>>, <<Do("remove", d)>>, <<Do("add", d), Do("touch", d), Allow>>}
    BY <1>4 DEF AddDownload, Retry, RemoveDownload, FolderContents, Event
  <2>2. /\ <<Do("add", d), Do("touch", d)>> \in Seq(Unused) /\ <<Do("add", d)>> \in Seq(Unused)
        /\ <<Do("remove", d)>> \in Seq(Unused) /\ <<Do("add", d), Do("touch", d), Allow>> \in Seq(Unused)
    BY <1>1, <1>2, FewUnused
  <2>3. calls' \in Seq(Unused)
    BY <2>1, <2>2
  <2> QED BY <1>3, <2>3, UnusedEvent
<1>5. CASE AbortDownload(d) \/ RefusalReceived(d)
  <2>1. calls' = AbortCalls(d) \/ calls' = Fail(d, "RemoteError")
    BY <1>5 DEF AbortDownload, RefusalReceived, Event
  <2>2. AbortCalls(d) \in Seq(Unused) /\ Fail(d, "RemoteError") \in Seq(Unused)
    BY HandlerTame, InactiveNames, FreeIsUnused
  <2> QED BY <1>3, <2>1, <2>2, UnusedEvent
<1>6. CASE UpdateDownload(d)
  <2>1. PeerSocket(UserOf[d]) \in Unused
    BY UnusedCalls DEF DownloadAssumption
  <2> QED BY <1>1, <1>3, <1>6, <2>1, FewUnused, UnusedEvent DEF UpdateDownload, Event
<1>7. CASE OfferReceived(d)
  <2> DEFINE s == IF atDest[d] THEN <<SetState(d, "Finished")>> ELSE <<>>
             c == Do("offerRest", d)
             now == s \o <<c>>
  <2>1. calls' = now /\ d \in Known
    BY <1>7 DEF OfferReceived, Event
  <2>2. s \in Seq(Unused) /\ c \in Call /\ c.down = d
    <3>1. s \in Seq(Unused)
      BY <1>2, FewUnused
    <3> QED BY <3>1, CallTypes DEF DownOps, Do
  <2> DEFINE n == Len(s)
  <2> HIDE DEF s, c
  <2>3. s \in Seq(Call) /\ n \in Nat /\ \A k \in 1 .. n : s[k].op \notin Uses
    BY <2>2, UnusedIsCall, LenProperties
  <2> DEFINE r == Append(s, c)
  <2>4. r = now
    BY <2>2, <2>3, AppendIsConcat
  <2>a. r \in Seq(Call) /\ Len(r) = n + 1 /\ r[n + 1] = c /\ \A k \in 1 .. n : r[k] = s[k]
    BY <2>2, <2>3, AppendProperties
  <2> HIDE DEF now, n, r
  <2>5. now \in Seq(Call) /\ Len(now) = n + 1 /\ now[n + 1] = c /\ \A k \in 1 .. n : now[k] = s[k]
    BY <2>4, <2>a
  <2>6. d \in SafeDownloads
    BY <2>1 DEF SafeDownloads
  <2>7. \A k \in 1 .. n + 1 : k \in 1 .. n \/ k = n + 1
    BY <2>3
  <2> HIDE DEF now, n
  <2>8. \A k \in 1 .. Len(now) : now[k].op \in Uses => now[k].down \in SafeDownloads
    BY <2>2, <2>3, <2>5, <2>6, <2>7
  <2> QED BY <1>3, <2>1, <2>5, <2>8, EventListing
<1>8. CASE PushReceived(d)
  <2>1. calls' = PreemptCalls(d) \o <<Do("add", d), Do("touch", d), Do("pushRest", d)>>
    BY <1>8 DEF PushReceived, Event
  <2>2. PreemptCalls(d) \in Seq(Unused) /\ <<Do("add", d), Do("touch", d), Do("pushRest", d)>> \in Seq(Unused)
    BY <1>1, PreemptTame, FreeIsUnused, FewUnused
  <2> QED BY <1>3, <2>1, <2>2, MoreUnused, UnusedEvent
<1>9. CASE TicketReceived(d) \/ DataReceived(d) \/ SocketLost(d)
  <2> DEFINE t == <<Do("disconnected", d), Do("closed", d)>>
             f == <<SetState(d, "Finished"), Do("rename", d), Do("disconnected", d), Do("closed", d)>>
  <2>1. calls' \in {<<SetState(d, "Transferring")>>, <<Do("disconnected", d), SetState(d, "Transferring"), Do("closed", d)>>,
                    <<Do("touch", d)>>, t, f}
    BY <1>9 DEF TicketReceived, DataReceived, SocketLost, Event
  <2>2. /\ <<SetState(d, "Transferring")>> \in Seq(Unused) /\ <<Do("touch", d)>> \in Seq(Unused)
        /\ <<Do("disconnected", d), SetState(d, "Transferring"), Do("closed", d)>> \in Seq(Unused)
        /\ t \in Seq(Unused)
    BY <1>1, <1>2, FewUnused
  <2>3. f \in Seq(Unused)
    BY <1>1, <1>2
  <2>4. calls' \in Seq(Unused)
    BY <2>1, <2>2, <2>3
  <2> QED BY <1>3, <2>4, UnusedEvent
<1>10. CASE \E timer \in {"tracked", "earlier"} : InitTimedOut(d, timer)
  <2>1. calls' \in {<<SetState(d, "QueuedRemotely")>>, <<>>}
    BY <1>10 DEF InitTimedOut, Event
  <2> QED BY <1>2, <1>3, <2>1, FewUnused, UnusedEvent
<1> QED BY <1>4, <1>5, <1>6, <1>7, <1>8, <1>9, <1>10 DEF DownloadEvent

\* The events of a peer.
LEMMA UserEventListing ==
  ASSUME DownloadAssumption, TypeOK, Listing, NEW x \in Users, UserEvent(x)
  PROVE  Listing'
<1>1. calls = <<>> /\ UNCHANGED <<downloads, state, downloading>>
  BY DEF UserEvent, AddFolder, PeerReady, PeerConnecting, PeerUnavailable, PeerOffline, PeerLost, Event, Idle, objects
<1>2. calls' \in {<<>>, <<PeerSocket(x)>>, ReadyCalls(x), UnavailableCalls(x), OfflineCalls(x)}
  BY DEF UserEvent, AddFolder, PeerReady, PeerConnecting, PeerUnavailable, PeerOffline, PeerLost, Event
<1>3. <<>> \in Seq(Unused) /\ <<PeerSocket(x)>> \in Seq(Unused)
  BY UnusedCalls, FewUnused
<1>4. ReadyCalls(x) \in Seq(Unused) /\ OfflineCalls(x) \in Seq(Unused)
  <2>1. {x} \in SUBSET Users /\ "requeueOffline" \in Loops /\ "peerOffline" \in Loops
    BY DEF Loops
  <2>2. 1 \in Nat \ {0} /\ Len(downloads) \in Nat
    BY LenProperties DEF TypeOK
  <2>3. Loop("requeueOffline", {x}) \in Unused /\ Loop("peerOffline", {x}) \in Unused /\ Start(x) \in Unused
    BY <2>1, <2>2, UnusedCalls DEF Loop
  <2> QED BY <2>3, FewUnused DEF ReadyCalls, OfflineCalls
<1>5. UnavailableCalls(x) \in Seq(Unused)
  <2>1. downloading[x] # NoDownload => downloading[x] \in Downloads
    BY DEF TypeOK
  <2> QED BY <1>3, <2>1, HandlerTame, InactiveNames, FreeIsUnused DEF UnavailableCalls
<1> QED BY <1>1, <1>2, <1>3, <1>4, <1>5, UnusedEvent

LEMMA StartsUnlisted ==
  ASSUME TypeOK', downloads' = <<>>, state' = [d \in Downloads |-> "Offline"],
         downloading' = [x \in Users |-> NoDownload], calls' = <<[op |-> "load"]>>
  PROVE  Listing'
<1>1. \A k \in 1 .. Len(calls') : calls'[k].op = "load"
  OBVIOUS
<1>2. UsedIsSafe'
  BY <1>1 DEF UsedIsSafe, Uses
<1> QED BY <1>2 DEF Listing, ListedIsActive, ListedIsKnown, UnknownIsOut

\* The events of the server connection, the configuration and the process.
LEMMA GlobalEventListing ==
  ASSUME DownloadAssumption, TypeOK, TypeOK', Listing, GlobalEvent
  PROVE  Listing'
<1>1. CASE LoggedIn \/ LoggedOut \/ \E n \in Slots : SetSlots(n)
  <2>1. calls = <<>> /\ UNCHANGED <<downloads, state, downloading>>
    BY <1>1 DEF LoggedIn, LoggedOut, SetSlots, Event, Idle, objects
  <2>2. calls' \in {<<CheckDownloads>>, <<Loop("logout", Users)>>}
    BY <1>1 DEF LoggedIn, LoggedOut, SetSlots, Event
  <2>3. CheckDownloads \in Unused /\ Loop("logout", Users) \in Unused
    <3>1. Users \in SUBSET Users /\ "logout" \in Loops /\ 1 \in Nat \ {0} /\ Len(downloads) \in Nat
      BY LenProperties DEF Loops, TypeOK
    <3> QED BY <3>1, UnusedCalls DEF Loop
  <2> QED BY <2>1, <2>2, <2>3, FewUnused, UnusedEvent
<1>2. CASE Shutdown \/ Crash
  BY <1>2, StartsUnlisted DEF Shutdown, Crash, Restart
<1> QED BY <1>1, <1>2 DEF GlobalEvent

LEMMA InitListing ==
  ASSUME Init
  PROVE  Listing
<1>1. calls = <<[op |-> "load"]>>
  BY DEF Init
<1>2. \A k \in 1 .. Len(calls) : calls[k].op = "load"
  BY <1>1
<1>3. UsedIsSafe
  BY <1>2 DEF UsedIsSafe, Uses
<1>4. ListedIsActive /\ ListedIsKnown /\ UnknownIsOut
  BY DEF Init, ListedIsActive, ListedIsKnown, UnknownIsOut
<1> QED BY <1>3, <1>4 DEF Listing

ListingInvariant == TypeOK /\ StackInvariant /\ Listing

\* The stack and the listing, in every state.
LEMMA ListingInvariantHolds == Spec => []ListingInvariant
<1> USE DownloadAssumption
<1>1. Init => ListingInvariant
  BY InitType, InitStack, InitListing DEF ListingInvariant
<1>2. ListingInvariant /\ [Next]_vars => ListingInvariant'
  <2> SUFFICES ASSUME ListingInvariant, [Next]_vars
               PROVE  ListingInvariant'
    OBVIOUS
  <2>1. TypeOK /\ StackInvariant /\ Listing /\ UnknownIsOut
    BY DEF ListingInvariant, Listing
  <2>2. TypeOK'
    BY <2>1, NextType DEF vars
  <2>3. CASE Step
    <3>1. StackInvariant'
      BY <2>1, <2>3, StepStack
    <3>2. Listing'
      BY <2>1, <2>3, LoadListing, SetterListing, CheckListing, AddListing, OfferListing DEF Step
    <3> QED BY <2>2, <3>1, <3>2 DEF ListingInvariant
  <2>4. CASE \E d \in Downloads : DownloadEvent(d)
    BY <2>1, <2>2, <2>4, DownloadEventStack, DownloadEventListing DEF ListingInvariant
  <2>5. CASE \E x \in Users : UserEvent(x)
    BY <2>1, <2>2, <2>5, UserEventStack, UserEventListing DEF ListingInvariant
  <2>6. CASE GlobalEvent
    BY <2>1, <2>2, <2>6, GlobalEventStack, GlobalEventListing DEF ListingInvariant
  <2>7. CASE UNCHANGED vars
    <3>1. StackInvariant'
      BY <2>1, <2>7, StackStutters
    <3>2. Listing'
      BY <2>1, <2>7 DEF vars, objects, Listing, ListedIsActive, ListedIsKnown, UnknownIsOut, UsedIsSafe, SafeDownloads, Known, Top
    <3> QED BY <2>2, <3>1, <3>2 DEF ListingInvariant
  <2> QED BY <2>3, <2>4, <2>5, <2>6, <2>7 DEF Next
<1> QED BY <1>1, <1>2, PTL DEF Spec

\* m_Downloading never holds a download that is over, or another user's: an entry left
\* behind would keep every other download of the user from starting.
THEOREM ListingIsActive == Spec => []ListedIsActive
<1>1. ListingInvariant => ListedIsActive
  BY DEF ListingInvariant, Listing
<1> QED BY <1>1, ListingInvariantHolds, PTL

-----------------------------------------------------------------------------
(* What is still to be asked for. While we are logged in, a download that  *)
(* is wanted of a connected peer has a pending call that will ask for it,  *)
(* or that will see to it that it is not wanted.                           *)

Unasked(d) == peer[UserOf[d]] = "up" /\ Wanted(d)

Servers(d) ==
  {c \in Call :
     \/ c.op = "check" /\ \E p \in c.i .. Len(downloads) : downloads[p] = d
     \/ c.op = "peerSocket" /\ c.user = UserOf[d]
     \/ c.op = "start" /\ c.user = UserOf[d] /\ state[d] # "Offline"
     \/ /\ c.op = "loop" /\ c.over = "requeueOffline" /\ state[d] = "Offline" /\ UserOf[d] \in c.who
        /\ \E p \in c.i .. Len(downloads) : p <= c.end /\ downloads[p] = d
     \/ c.op = "setState" /\ (c.st \notin ActiveStates \/ c.down = d)
     \/ c.op \in {"disconnected", "addRest"}
     \/ c.op = "abortRest" /\ c.down = d
     \/ c.op = "enqueue" /\ c.down = d /\ state[d] # "Offline"}

UnaskedIsServed ==
  allowUpdate /\ loggedIn =>
    \A d \in Known : Unasked(d) => \E k \in 1 .. Len(calls) : calls[k] \in Servers(d)

\* Calls that serve every download there is, and calls that serve none.
Universal ==
  {c \in Call : \/ c.op = "check" /\ c.i = 1
                \/ c.op = "setState" /\ c.st \notin ActiveStates
                \/ c.op \in {"disconnected", "addRest"}}

ServerOps == {"check", "peerSocket", "start", "loop", "setState", "disconnected", "addRest", "abortRest", "enqueue"}

LEMMA ServerNames ==
  /\ CheckDownloads \in Universal
  /\ \A d \in Downloads, s \in TrStates \ ActiveStates : SetState(d, s) \in Universal
  /\ \A d : \A c \in Servers(d) : c \in Call /\ c.op \in ServerOps
<1>1. CheckDownloads \in Universal
  BY CallTypes DEF Universal, CheckDownloads, CheckFrom
<1>2. \A d \in Downloads, s \in TrStates \ ActiveStates : SetState(d, s) \in Universal
  BY CallTypes DEF Universal, SetState
<1>3. \A d : \A c \in Servers(d) : c \in Call /\ c.op \in ServerOps
  BY DEF Servers, ServerOps
<1> QED BY <1>1, <1>2, <1>3

\* A call under the top serves a download on, unless the download goes offline or comes back.
LEMMA TailServes ==
  ASSUME TypeOK, TypeOK', StackInvariant, calls # <<>>, downloads' = downloads \/ ~Nested(Top),
         NEW d \in Known', state'[d] = "Offline" <=> state[d] = "Offline",
         NEW k \in 2 .. Len(calls), calls[k] \in Servers(d)
  PROVE  calls[k] \in Servers(d)'
<1> DEFINE c == calls[k]
<1> SUFFICES c \in Servers(d)'
  OBVIOUS
<1>1. c \in Call /\ c \in Servers(d) /\ Top = calls[1] /\ k \in 1 .. Len(calls) /\ 1 \in 1 .. k - 1
  <2>1. calls \in Seq(Call) /\ Len(calls) \in Nat
    BY LenProperties DEF TypeOK
  <2>2. k \in 1 .. Len(calls) /\ 1 \in 1 .. k - 1
    BY <2>1
  <2> QED BY <2>1, <2>2, ElementOfSeq, HeadTailProperties DEF Top
<1>2. downloads' # downloads => ~Partial(c)
  BY <1>1 DEF StackInvariant, PartialIsCovered
<1>3. \E p \in 1 .. Len(downloads') : downloads'[p] = d
  <2>1. downloads' \in Seq(Downloads)
    BY DEF TypeOK
  <2>2. DOMAIN downloads' = 1 .. Len(downloads')
    BY <2>1, LenProperties
  <2> QED BY <2>2 DEF Known, Range
<1> HIDE DEF c
<1>4. CASE downloads' = downloads
  BY <1>1, <1>4 DEF Servers
<1>5. CASE downloads' # downloads
  <2>1. c.op # "loop" /\ (c.op = "check" => c.i = 1)
    BY <1>2, <1>5 DEF Partial
  <2> QED BY <1>1, <1>3, <2>1 DEF Servers
<1> QED BY <1>4, <1>5

\* What a handler that returns leaves unasked is served by what it pushes, or by what was
\* pending already.
LEMMA ReturnServes ==
  ASSUME TypeOK, TypeOK', StackInvariant, calls # <<>>, NEW now \in Seq(Call), Return(now),
         downloads' = downloads \/ ~Nested(Top),
         allowUpdate' /\ loggedIn' => \A d \in Known' : Unasked(d)' =>
           \/ \E k \in 1 .. Len(now) : now[k] \in Servers(d)'
           \/ /\ state'[d] = "Offline" <=> state[d] = "Offline"
              /\ \E k \in 2 .. Len(calls) : calls[k] \in Servers(d)
  PROVE  UnaskedIsServed'
<1>1. calls \in Seq(Call)
  BY DEF TypeOK
<1>2. /\ Len(now) \in Nat /\ Len(calls) \in Nat \ {0}
      /\ \A k \in 1 .. Len(now) : k \in 1 .. Len(calls') /\ calls'[k] = now[k]
      /\ \A k \in 2 .. Len(calls) : k + Len(now) - 1 \in 1 .. Len(calls') /\ calls'[k + Len(now) - 1] = calls[k]
  BY <1>1, StackPositions
<1>3. ASSUME allowUpdate', loggedIn', NEW d \in Known', Unasked(d)'
      PROVE  \E k \in 1 .. Len(calls') : calls'[k] \in Servers(d)'
  <2>1. CASE \E k \in 1 .. Len(now) : now[k] \in Servers(d)'
    BY <1>2, <2>1
  <2>2. CASE (state'[d] = "Offline" <=> state[d] = "Offline") /\ \E k \in 2 .. Len(calls) : calls[k] \in Servers(d)
    <3>1. PICK k \in 2 .. Len(calls) : calls[k] \in Servers(d)
      BY <2>2
    <3>2. calls[k] \in Servers(d)'
      BY <2>2, <3>1, TailServes
    <3> QED BY <1>2, <3>2
  <2> QED BY <1>3, <2>1, <2>2
<1> QED BY <1>3 DEF UnaskedIsServed

\* A call that is served, but not by the top, is served by a call under it.
LEMMA ServedBelow ==
  ASSUME TypeOK, UnaskedIsServed, calls # <<>>, allowUpdate, loggedIn, NEW d \in Known, Unasked(d), Top \notin Servers(d)
  PROVE  \E k \in 2 .. Len(calls) : calls[k] \in Servers(d)
<1>1. Top = calls[1] /\ Len(calls) \in Nat
  BY HeadTailProperties, LenProperties DEF Top, TypeOK
<1>2. PICK k \in 1 .. Len(calls) : calls[k] \in Servers(d)
  BY DEF UnaskedIsServed
<1>3. k # 1
  BY <1>1, <1>2
<1>4. k \in 2 .. Len(calls)
  BY <1>1, <1>3
<1> QED BY <1>2, <1>4

\* A call returns that serves nobody and makes no download wanted.
LEMMA QuietServes ==
  ASSUME TypeOK, TypeOK', StackInvariant, UnaskedIsServed, NEW op, Running(op), op \notin ServerOps,
         NEW now \in Seq(Call), Return(now), downloads' = downloads \/ ~Nested(Top), Known' \subseteq Known,
         UNCHANGED <<state, enqueued, peer, loggedIn, allowUpdate>>
  PROVE  UnaskedIsServed'
<1>1. calls # <<>> /\ \A d : Top \notin Servers(d)
  BY TopType, ServerNames
<1>2. \A d : Unasked(d)' => Unasked(d)
  BY DEF Unasked, Wanted, WantedQueued
<1>3. ASSUME allowUpdate', loggedIn', NEW d \in Known', Unasked(d)'
      PROVE  \E k \in 2 .. Len(calls) : calls[k] \in Servers(d)
  BY <1>1, <1>2, <1>3, ServedBelow
<1> QED BY <1>1, <1>3, ReturnServes

\* A call returns that leaves a universal one to run.
LEMMA UniversalServes ==
  ASSUME TypeOK, TypeOK', StackInvariant, NEW op, Running(op), NEW now \in Seq(Call), Return(now),
         downloads' = downloads \/ ~Nested(Top), \E k \in 1 .. Len(now) : now[k] \in Universal
  PROVE  UnaskedIsServed'
<1>1. calls # <<>>
  BY TopType
<1>2. PICK k \in 1 .. Len(now) : now[k] \in Universal
  OBVIOUS
<1>3. ASSUME NEW d \in Known'
      PROVE  now[k] \in Servers(d)'
  <2>1. \E p \in 1 .. Len(downloads') : downloads'[p] = d
    <3>1. downloads' \in Seq(Downloads)
      BY DEF TypeOK
    <3>2. DOMAIN downloads' = 1 .. Len(downloads')
      BY <3>1, LenProperties
    <3> QED BY <3>2 DEF Known, Range
  <2> QED BY <1>2, <2>1 DEF Universal, Servers
<1>4. \A d \in Known' : \E j \in 1 .. Len(now) : now[j] \in Servers(d)'
  BY <1>3
<1> QED BY <1>1, <1>4, ReturnServes

\* A call returns that changes nothing the needs depend on, and serves nobody itself.
LEMMA IdleServes ==
  ASSUME TypeOK, TypeOK', StackInvariant, UnaskedIsServed, NEW op, Running(op), op \notin ServerOps,
         NEW now \in Seq(Call), Return(now),
         UNCHANGED <<downloads, state, enqueued, peer, loggedIn, allowUpdate>>
  PROVE  UnaskedIsServed'
<1>1. Known' = Known
  BY DEF Known
<1> QED BY <1>1, QuietServes

\* Loading the list.
LEMMA LoadServes ==
  ASSUME TypeOK, TypeOK', StackInvariant, UnaskedIsServed, DoLoad \/ DoLoadRest \/ DoLoadState \/ DoAllow
  PROVE  UnaskedIsServed'
<1> USE DEF objects, world
<1>1. CASE DoLoad
  BY <1>1 DEF DoLoad, UnaskedIsServed
<1>2. CASE DoLoadRest
  <2> DEFINE rest == Top.list
             a == Do("add", Head(rest).download)
             b == [op |-> "loadState", entry |-> Head(rest)]
             c == LoadRest(Tail(rest))
             now == IF rest = <<>> THEN <<Allow>> ELSE <<a, b, c>>
  <2>1. /\ Running("loadRest") /\ Return(now)
        /\ UNCHANGED <<downloads, state, enqueued, peer, loggedIn, allowUpdate>>
    BY <1>2 DEF DoLoadRest
  <2>2. rest \in Seq(Entries)
    BY <2>1, TopType, CallFields
  <2>3. rest # <<>> => a \in Call /\ b \in Call /\ c \in Call
    <3> HIDE DEF rest
    <3>1. rest # <<>> => Head(rest) \in Entries /\ Tail(rest) \in Seq(Entries)
      BY <2>2, HeadTailProperties
    <3>2. rest # <<>> => Head(rest).download \in Downloads
      BY <3>1 DEF Entries
    <3> QED BY <3>1, <3>2, CallTypes DEF DownOps
  <2> HIDE DEF a, b, c, rest
  <2>4. now \in Seq(Call)
    BY <2>3, CallTypes, FewCalls
  <2> HIDE DEF now
  <2>5. "loadRest" \notin ServerOps
    BY DEF ServerOps
  <2> QED BY <2>1, <2>4, <2>5, IdleServes
<1>3. CASE DoLoadState
  <2> DEFINE d == Top.entry.download
             s == IF Top.entry.aborted THEN "Aborted" ELSE "Offline"
             now == IF d \in Known THEN <<SetState(d, s), Do("touch", d)>> ELSE <<>>
  <2>1. /\ Running("loadState") /\ Return(now)
        /\ UNCHANGED <<downloads, state, enqueued, peer, loggedIn, allowUpdate>>
    BY <1>3 DEF DoLoadState
  <2>2. d \in Downloads /\ s \in TrStates
    BY <2>1, TopType, CallFields, StateNames DEF Entries
  <2> HIDE DEF d, s
  <2>3. now \in Seq(Call)
    BY <2>2, CallTypes, FewCalls DEF DownOps
  <2> HIDE DEF now
  <2>4. "loadState" \notin ServerOps
    BY DEF ServerOps
  <2> QED BY <2>1, <2>3, <2>4, IdleServes
<1>4. CASE DoAllow
  <2> DEFINE now == <<CheckDownloads>>
  <2>1. Running("allow") /\ Return(now) /\ UNCHANGED downloads
    BY <1>4 DEF DoAllow
  <2>2. now \in Seq(Call) /\ Len(now) = 1 /\ now[1] \in Universal
    BY CallTypes, FewCalls, ServerNames
  <2>3. 1 \in 1 .. 1
    OBVIOUS
  <2> HIDE DEF now
  <2> QED BY <2>1, <2>2, <2>3, UniversalServes
<1> QED BY <1>1, <1>2, <1>3, <1>4

\* A stack whose first call is universal.
LEMMA UniversalFirst ==
  ASSUME TypeOK, TypeOK', StackInvariant, NEW op, Running(op), NEW now \in Seq(Call), Return(now),
         downloads' = downloads \/ ~Nested(Top), Len(now) # 0, now[1] \in Universal
  PROVE  UnaskedIsServed'
<1>1. 1 \in 1 .. Len(now)
  BY LenProperties
<1> QED BY <1>1, UniversalServes

\* add, abort and remove, but for abort's end.
LEMMA AddServes ==
  ASSUME DownloadAssumption, TypeOK, TypeOK', StackInvariant, UnaskedIsServed,
         DoAdd \/ DoAddRest \/ DoRemove \/ DoErase
  PROVE  UnaskedIsServed'
<1> USE DEF objects, world
<1> DEFINE d == Top.down
<1>0. <<>> \in Seq(Call)
  BY FewCalls
<1>a. d \in Downloads
  <2>1. Running("add") \/ Running("addRest") \/ Running("remove") \/ Running("erase")
    BY DEF DoAdd, DoAddRest, DoRemove, DoErase
  <2> QED BY <2>1, TopType, CallFields DEF DownOps
<1>b. {"add", "remove", "erase"} \cap ServerOps = {}
  BY DEF ServerOps
<1>1. CASE DoAdd
  <2>1. Running("add") /\ Top.op = "add" /\ UNCHANGED <<peer, loggedIn, allowUpdate>>
    <3>1. Running("add")
      BY <1>1 DEF DoAdd
    <3> QED BY <1>1, <3>1, TopType DEF DoAdd
  <2>2. CASE Return(<<>>) /\ UNCHANGED <<downloads, state, enqueued>>
    BY <1>0, <1>b, <2>1, <2>2, IdleServes
  <2>3. CASE Return(<<SetState(d, "QueuedRemotely"), Do("addRest", d)>>)
    <3> DEFINE a == SetState(d, "QueuedRemotely")
               b == Do("addRest", d)
               now == <<a, b>>
    <3>1. a \in Universal /\ a \in Call /\ b \in Call
      BY <1>a, ServerNames, InactiveNames, CallTypes DEF DownOps
    <3>2. Return(now)
      BY <2>3
    <3> HIDE DEF a, b
    <3>3. now \in Seq(Call) /\ Len(now) = 2 /\ now[1] \in Universal
      BY <3>1
    <3>4. ~Nested(Top)
      BY <2>1 DEF Nested
    <3>5. Len(now) # 0
      BY <3>3
    <3> HIDE DEF now
    <3> QED BY <2>1, <3>2, <3>3, <3>4, <3>5, UniversalFirst
  <2> QED BY <1>1, <2>2, <2>3 DEF DoAdd
<1>2. CASE DoAddRest
  <2> DEFINE s == IF atDest[d] THEN <<SetState(d, "Finished")>> ELSE <<>>
             t == <<CheckDownloads>>
             n == Len(s)
             now == s \o t
  <2>1. Running("addRest") /\ Return(now) /\ UNCHANGED downloads
    BY <1>2 DEF DoAddRest
  <2>2. s \in Seq(Call) /\ t \in Seq(Call) /\ Len(t) = 1 /\ t[1] = CheckDownloads
    BY <1>a, CallTypes, StateNames, FewCalls
  <2> HIDE DEF s, t
  <2>3. n \in Nat
    BY <2>2, LenProperties
  <2> HIDE DEF n
  <2>4. /\ now \in Seq(Call) /\ Len(now) = n + 1
        /\ \A i \in 1 .. n + 1 : now[i] = IF i <= n THEN s[i] ELSE t[i - n]
    <3>1. /\ s \o t \in Seq(Call) /\ Len(s \o t) = Len(s) + Len(t)
          /\ \A i \in 1 .. Len(s) + Len(t) : (s \o t)[i] = IF i <= Len(s) THEN s[i] ELSE t[i - Len(s)]
      BY <2>2, ConcatProperties
    <3> QED BY <2>2, <3>1 DEF n
  <2> DEFINE q == n + 1
  <2>5. q \in 1 .. n + 1 /\ ~(q <= n) /\ q - n = 1
    BY <2>3
  <2> HIDE DEF now, q
  <2>6. now[q] = t[q - n] /\ q \in 1 .. Len(now)
    BY <2>4, <2>5
  <2>7. now[q] \in Universal
    BY <2>2, <2>5, <2>6, ServerNames
  <2> QED BY <2>1, <2>4, <2>6, <2>7, UniversalServes
<1>3. CASE DoRemove
  <2> DEFINE now == IF d \in Known THEN Append(AbortCalls(d), Do("erase", d)) ELSE <<>>
  <2>1. Running("remove") /\ Return(now) /\ UNCHANGED <<downloads, state, enqueued, peer, loggedIn, allowUpdate>>
    BY <1>3 DEF DoRemove
  <2>2. now \in Seq(Call)
    BY <1>0, <1>a, HandlerTame DEF FreeCalls, TameCalls
  <2> HIDE DEF now
  <2> QED BY <1>b, <2>1, <2>2, IdleServes
<1>4. CASE DoErase
  <2>1. Running("erase") /\ Return(<<>>) /\ UNCHANGED <<state, enqueued, peer, loggedIn, allowUpdate>>
    BY <1>4 DEF DoErase
  <2>2. ~Nested(Top)
    BY <2>1, TopType DEF Nested
  <2>3. Known' \subseteq Known
    <3>1. CASE \E k \in 1 .. Len(downloads) : downloads[k] = d /\ downloads' = RemoveAt(downloads, k)
      <4>1. PICK k \in 1 .. Len(downloads) : downloads' = RemoveAt(downloads, k)
        BY <3>1
      <4>2. Range(RemoveAt(downloads, k)) \subseteq Known
        BY ListShrinks DEF TypeOK
      <4> QED BY <4>1, <4>2 DEF Known
    <3>2. CASE UNCHANGED downloads
      BY <3>2 DEF Known
    <3> QED BY <1>4, <3>1, <3>2 DEF DoErase
  <2> QED BY <1>0, <1>b, <2>1, <2>2, <2>3, QuietServes
<1> QED BY <1>1, <1>2, <1>3, <1>4

\* A transfer offered by the peer.
LEMMA OfferServes ==
  ASSUME DownloadAssumption, TypeOK, TypeOK', StackInvariant, UnaskedIsServed,
         DoOfferRest \/ DoPushRest \/ DoAccept \/ DoAttach \/ DoRename
  PROVE  UnaskedIsServed'
<1> USE DEF objects, world
<1> DEFINE d == Top.down
           c == Do("accept", d)
<1>0. <<>> \in Seq(Call)
  BY FewCalls
<1>a. d \in Downloads
  <2>1. Running("offerRest") \/ Running("pushRest") \/ Running("accept") \/ Running("attach") \/ Running("rename")
    BY DEF DoOfferRest, DoPushRest, DoAccept, DoAttach, DoRename
  <2> QED BY <2>1, TopType, CallFields DEF DownOps
<1>b. {"offerRest", "pushRest", "accept", "attach", "rename"} \cap ServerOps = {}
  BY DEF ServerOps
<1>c. c \in Call
  BY <1>a, CallTypes DEF DownOps
<1>1. CASE DoOfferRest
  <2> DEFINE now == IF HasFreeSlots /\ state[d] \in OfferableStates THEN Append(PreemptCalls(d), c) ELSE <<>>
  <2>1. Running("offerRest") /\ Return(now) /\ UNCHANGED <<downloads, state, enqueued, peer, loggedIn, allowUpdate>>
    BY <1>1 DEF DoOfferRest
  <2>2. PreemptCalls(d) \in Seq(Call)
    BY <1>a, PreemptType
  <2> HIDE DEF c, d
  <2>3. now \in Seq(Call)
    BY <1>0, <1>c, <2>2, OneMoreCall
  <2> HIDE DEF now
  <2> QED BY <1>b, <2>1, <2>3, IdleServes
<1>2. CASE DoPushRest
  <2> DEFINE now == IF d \in Known /\ HasFreeSlots THEN <<c>> ELSE <<>>
  <2>1. Running("pushRest") /\ Return(now) /\ UNCHANGED <<downloads, state, enqueued, peer, loggedIn, allowUpdate>>
    BY <1>2 DEF DoPushRest
  <2> HIDE DEF c
  <2>2. now \in Seq(Call)
    BY <1>c, FewCalls
  <2> HIDE DEF now
  <2> QED BY <1>b, <2>1, <2>2, IdleServes
<1>3. CASE DoAccept
  <2> DEFINE s == IF socket[d] = "none" THEN <<>> ELSE <<Do("disconnected", d)>>
             t == <<Do("attach", d)>>
             now == s \o t
  <2>1. Running("accept") /\ Return(now) /\ UNCHANGED <<downloads, state, enqueued, peer, loggedIn, allowUpdate>>
    BY <1>3 DEF DoAccept
  <2>2. s \in Seq(Call) /\ t \in Seq(Call)
    BY <1>a, CallTypes, FewCalls DEF DownOps
  <2> HIDE DEF s, t
  <2>3. now \in Seq(Call)
    BY <2>2, MoreCalls
  <2> HIDE DEF now
  <2> QED BY <1>b, <2>1, <2>3, IdleServes
<1>4. CASE DoAttach
  <2> DEFINE w == <<SetState(d, "Waiting")>>
  <2>1. Running("attach") /\ UNCHANGED <<downloads, state, enqueued, peer, loggedIn, allowUpdate>>
    BY <1>4 DEF DoAttach
  <2>2. Return(<<>>) \/ Return(w)
    BY <1>4 DEF DoAttach
  <2>3. w \in Seq(Call)
    BY <1>a, CallTypes, StateNames, FewCalls
  <2> HIDE DEF w
  <2> QED BY <1>0, <1>b, <2>1, <2>2, <2>3, IdleServes
<1>5. CASE DoRename
  <2>1. Running("rename") /\ Return(<<>>) /\ UNCHANGED <<downloads, state, enqueued, peer, loggedIn, allowUpdate>>
    BY <1>5 DEF DoRename
  <2> QED BY <1>0, <1>b, <2>1, IdleServes
<1> QED BY <1>1, <1>2, <1>3, <1>4, <1>5

\* An assignment of a state: what it makes wanted is served by the checkDownloads after it.
LEMMA SetStateServes ==
  ASSUME DownloadAssumption, TypeOK, TypeOK', StackInvariant, UnaskedIsServed, DoSetState
  PROVE  UnaskedIsServed'
<1> DEFINE d == Top.down
           s == Top.st
           now == Aftermath(d, s)
<1>1. /\ Running("setState") /\ Top.op = "setState" /\ Return(now)
      /\ UNCHANGED <<downloads, enqueued, allowUpdate, peer, loggedIn>>
      /\ state' = [state EXCEPT ![d] = s] /\ calls # <<>>
  <2>1. Running("setState")
    BY DEF DoSetState
  <2> QED BY <2>1, TopType DEF DoSetState, world
<1>2. d \in Downloads /\ s \in TrStates
  BY <1>1, TopType, CallFields
<1>3. now \in Seq(Call)
  BY <1>2, HandlerCalls
<1>4. state'[d] = s /\ \A y \in Downloads : y # d => state'[y] = state[y]
  BY <1>1, <1>2 DEF TypeOK
<1>5. CASE s \in ActiveStates
  <2>1. ASSUME allowUpdate', loggedIn', NEW x \in Known', Unasked(x)'
        PROVE  /\ state'[x] = state[x]
               /\ \E k \in 2 .. Len(calls) : calls[k] \in Servers(x)
    <3>1. x \in Known /\ x \in Downloads
      BY <1>1, <2>1, ElementOfSeq DEF Known, Range, TypeOK
    <3>2. Wanted(x)' /\ peer'[UserOf[x]] = "up"
      BY <2>1 DEF Unasked
    <3>3. state'[x] \notin ActiveStates
      BY <3>2 DEF Wanted, WantedQueued, ActiveStates
    <3> HIDE DEF d, s
    <3>4. x # d
      BY <1>4, <1>5, <3>3
    <3>5. state'[x] = state[x]
      BY <1>4, <3>1, <3>4
    <3>6. Unasked(x)
      BY <1>1, <3>2, <3>5 DEF Unasked, Wanted, WantedQueued
    <3>7. Top \notin Servers(x)
      BY <1>1, <1>5, <3>4 DEF Servers, d, s
    <3> QED BY <1>1, <2>1, <3>1, <3>5, <3>6, <3>7, ServedBelow
  <2> HIDE DEF now
  <2> QED BY <1>1, <1>3, <2>1, ReturnServes
<1>6. CASE s \notin ActiveStates
  <2> DEFINE t == IF s = "Finished" /\ s # state[d] /\ config.options.autoClear THEN <<Do("remove", d)>> ELSE <<>>
  <2>1. now = <<CheckDownloads>> \o t
    BY <1>6 DEF Aftermath
  <2>2. t \in Seq(Call) /\ <<CheckDownloads>> \in Seq(Call) /\ Len(<<CheckDownloads>>) = 1 /\ <<CheckDownloads>>[1] = CheckDownloads
    BY <1>2, CallTypes, FewCalls DEF DownOps
  <2> HIDE DEF now, t
  <2>3. /\ Len(now) = 1 + Len(t) /\ Len(t) \in Nat
        /\ \A i \in 1 .. 1 + Len(t) : now[i] = IF i <= 1 THEN <<CheckDownloads>>[i] ELSE t[i - 1]
    BY <2>1, <2>2, ConcatProperties, LenProperties
  <2>4. 1 \in 1 .. 1 + Len(t) /\ 1 <= 1 /\ 1 + Len(t) # 0
    BY <2>3
  <2>5. now[1] \in Universal /\ Len(now) # 0
    BY <2>2, <2>3, <2>4, ServerNames
  <2> QED BY <1>1, <1>3, <2>5, UniversalFirst
<1> QED BY <1>5, <1>6

\* A download that is enqueued is not wanted; one that no longer is gets a state, or the mark.
LEMMA EnqueueServes ==
  ASSUME DownloadAssumption, TypeOK, TypeOK', StackInvariant, UnaskedIsServed, DoEnqueue
  PROVE  UnaskedIsServed'
<1> DEFINE d == Top.down
<1>1. /\ Running("unenqueue") \/ Running("enqueue")
      /\ Return(<<>>) /\ UNCHANGED <<downloads, state, allowUpdate, peer, loggedIn>>
      /\ enqueued' = [enqueued EXCEPT ![d] = Top.op = "enqueue"]
  BY DEF DoEnqueue, world
<1>2. d \in Downloads /\ calls # <<>> /\ calls \in Seq(Call)
  BY <1>1, TopType, CallFields DEF DownOps
<1>3. (Top.op = "enqueue" => enqueued'[d]) /\ \A y \in Downloads : y # d => enqueued'[y] = enqueued[y]
  BY <1>1, <1>2 DEF TypeOK
<1>4. ASSUME allowUpdate', loggedIn', NEW x \in Known', Unasked(x)'
      PROVE  \E k \in 2 .. Len(calls) : calls[k] \in Servers(x)
  <2>1. x \in Known /\ x \in Downloads
    BY <1>1, <1>4, ElementOfSeq DEF Known, Range, TypeOK
  <2>2. Wanted(x)' /\ peer[UserOf[x]] = "up"
    BY <1>1, <1>4 DEF Unasked
  <2> HIDE DEF d
  <2>3. CASE Running("enqueue")
    <3>1. Top.op = "enqueue"
      BY <2>3, TopType
    <3>a. x = d => enqueued'[x]
      BY <1>3, <3>1
    <3>2. Unasked(x) /\ (x = d => state[x] = "Offline")
      BY <1>1, <1>3, <2>1, <2>2, <3>a DEF Unasked, Wanted, WantedQueued
    <3>3. Top \notin Servers(x)
      BY <3>1, <3>2 DEF Servers, d
    <3> QED BY <1>1, <1>2, <1>4, <2>1, <3>2, <3>3, ServedBelow
  <2>4. CASE Running("unenqueue") /\ Unasked(x)
    <3>1. Top \notin Servers(x)
      BY <2>4, TopType, ServerNames DEF ServerOps
    <3> QED BY <1>1, <1>2, <1>4, <2>1, <2>4, <3>1, ServedBelow
  <2>5. CASE Running("unenqueue") /\ ~Unasked(x)
    <3>1. Top.op = "unenqueue"
      BY <2>5, TopType
    <3>2. x = d /\ state[x] # "Offline"
      BY <1>1, <1>3, <2>1, <2>2, <2>5 DEF Unasked, Wanted, WantedQueued
    <3>3. Top = calls[1] /\ Len(calls) \in Nat \ {0} /\ 1 + 1 = 2
      BY <1>2, HeadTailProperties, LenProperties DEF Top
    <3>4. 1 \in 1 .. Len(calls) /\ Requeued(calls)
      BY <1>1, <1>4, <3>3 DEF StackInvariant
    <3>5. PICK k \in 2 .. Len(calls) : Reenters(calls[k], d)
      BY <3>1, <3>3, <3>4 DEF Requeued, d
    <3>6. calls[k] \in Call
      <4>1. k \in 1 .. Len(calls)
        BY <3>3
      <4> QED BY <1>2, <4>1, ElementOfSeq
    <3>7. calls[k] \in Servers(x)
      BY <3>2, <3>5, <3>6 DEF Reenters, Servers
    <3> QED BY <3>7
  <2> QED BY <1>1, <2>3, <2>4, <2>5
<1> DEFINE now == <<>>
<1>5. now \in Seq(Call) /\ Return(now)
  BY <1>1, FewCalls
<1> HIDE DEF now, d
<1> QED BY <1>1, <1>2, <1>4, <1>5, ReturnServes

\* Download::setState and the socket.
LEMMA SetterServes ==
  ASSUME DownloadAssumption, TypeOK, TypeOK', StackInvariant, UnaskedIsServed,
         DoSetState \/ DoDisconnected \/ DoRelease \/ DoClosed \/ DoEnqueue \/ DoTouch
  PROVE  UnaskedIsServed'
<1> USE DEF objects, world
<1>0. <<>> \in Seq(Call)
  BY FewCalls
<1>1. CASE DoSetState \/ DoEnqueue
  BY <1>1, SetStateServes, EnqueueServes
<1>2. CASE DoDisconnected
  <2> DEFINE c == SetState(Top.down, IF complete[Top.down] THEN "Finished" ELSE "ConnectionClosed")
             now == <<c>>
  <2>1. Running("disconnected") /\ Return(now) /\ UNCHANGED downloads
    BY <1>2 DEF DoDisconnected
  <2>2. Top.down \in Downloads
    BY <2>1, TopType, CallFields DEF DownOps
  <2>3. c \in Universal /\ c \in Call
    BY <2>2, ServerNames, InactiveNames, CallTypes
  <2> HIDE DEF c
  <2>4. now \in Seq(Call) /\ Len(now) = 1 /\ now[1] \in Universal
    BY <2>3
  <2>5. Len(now) # 0
    BY <2>4
  <2> HIDE DEF now
  <2> QED BY <2>1, <2>4, <2>5, UniversalFirst
<1>3. CASE DoRelease \/ DoClosed \/ DoTouch
  <2>1. /\ Running("release") \/ Running("closed") \/ Running("touch")
        /\ Return(<<>>) /\ UNCHANGED <<downloads, state, enqueued, peer, loggedIn, allowUpdate>>
    BY <1>3 DEF DoRelease, DoClosed, DoTouch
  <2>2. {"release", "closed", "touch"} \cap ServerOps = {}
    BY DEF ServerOps
  <2> QED BY <1>0, <2>1, <2>2, IdleServes
<1> QED BY <1>1, <1>2, <1>3

\* The end of abort: a download that is over is not wanted.
LEMMA AbortServes ==
  ASSUME DownloadAssumption, TypeOK, TypeOK', StackInvariant, UnaskedIsServed, DoAbortRest
  PROVE  UnaskedIsServed'
<1> DEFINE d == Top.down
<1>1. /\ Running("abortRest") /\ Top.op = "abortRest" /\ calls # <<>> /\ d \in Downloads
      /\ UNCHANGED <<downloads, state, enqueued, peer, loggedIn, allowUpdate>>
  <2>1. Running("abortRest")
    BY DEF DoAbortRest
  <2> QED BY <2>1, TopType, CallFields DEF DoAbortRest, DownOps, objects, world
<1>2. CASE state[d] = "Finished"
  <2> DEFINE now == <<>>
  <2>1. now \in Seq(Call) /\ Return(now)
    BY <1>2, FewCalls DEF DoAbortRest
  <2>2. ASSUME allowUpdate', loggedIn', NEW x \in Known', Unasked(x)'
        PROVE  \E k \in 2 .. Len(calls) : calls[k] \in Servers(x)
    <3>1. x \in Known /\ Unasked(x)
      BY <1>1, <2>2 DEF Known, Unasked, Wanted, WantedQueued
    <3>2. Top \notin Servers(x)
      BY <1>1, <1>2, <3>1 DEF Unasked, Wanted, WantedQueued, Servers
    <3> QED BY <1>1, <2>2, <3>1, <3>2, ServedBelow
  <2> HIDE DEF now
  <2> QED BY <1>1, <2>1, <2>2, ReturnServes
<1>3. CASE state[d] # "Finished"
  <2> DEFINE c == SetState(d, "Aborted")
             now == <<c>>
  <2>1. c \in Universal /\ c \in Call
    BY <1>1, ServerNames, InactiveNames, CallTypes
  <2>2. Return(now)
    BY <1>3 DEF DoAbortRest
  <2> HIDE DEF c
  <2>3. now \in Seq(Call) /\ Len(now) = 1 /\ now[1] \in Universal
    BY <2>1
  <2>4. Len(now) # 0
    BY <2>3
  <2> HIDE DEF now
  <2> QED BY <1>1, <2>2, <2>3, <2>4, UniversalFirst
<1> QED BY <1>2, <1>3

\* Two calls, one of which serves.
LEMMA OneOfTwo ==
  ASSUME NEW a \in Call, NEW b \in Call, NEW d, a \in Servers(d)' \/ b \in Servers(d)'
  PROVE  \E k \in 1 .. Len(<<a, b>>) : <<a, b>>[k] \in Servers(d)'
<1>1. Len(<<a, b>>) = 2 /\ <<a, b>>[1] = a /\ <<a, b>>[2] = b /\ 1 \in 1 .. 2 /\ 2 \in 1 .. 2
  OBVIOUS
<1> QED BY <1>1

\* The loop of checkDownloads: the download it stops at has its peer socket asked for, and
\* the loop goes on after it.
LEMMA CheckServes ==
  ASSUME DownloadAssumption, TypeOK, TypeOK', StackInvariant, UnaskedIsServed, DoCheckDownloads
  PROVE  UnaskedIsServed'
<1> DEFINE wanted == {j \in Top.i .. Len(downloads) : Wanted(downloads[j])}
<1>1. /\ Running("check") /\ Top.op = "check" /\ calls # <<>> /\ Top.i \in Nat \ {0}
      /\ UNCHANGED <<downloads, state, enqueued, peer, loggedIn, allowUpdate>> /\ Known' = Known
  <2>1. Running("check")
    BY DEF DoCheckDownloads
  <2> QED BY <2>1, TopType, CallFields DEF DoCheckDownloads, objects, world, Known
<1>2. CASE ~allowUpdate
  BY <1>1, <1>2 DEF UnaskedIsServed
<1>3. ASSUME NEW x, Unasked(x), Top \in Servers(x)
      PROVE  \E p \in wanted : downloads[p] = x
  <2>1. PICK p \in Top.i .. Len(downloads) : downloads[p] = x
    BY <1>1, <1>3 DEF Servers
  <2> QED BY <1>3, <2>1 DEF Unasked
<1>4. ASSUME NEW x, Unasked(x)'
      PROVE  Unasked(x)
  BY <1>1, <1>4 DEF Unasked, Wanted, WantedQueued
<1>5. CASE allowUpdate /\ wanted = {} /\ Return(<<>>)
  <2> DEFINE now == <<>>
  <2>1. now \in Seq(Call) /\ Return(now)
    BY <1>5, FewCalls
  <2> HIDE DEF now
  <2>2. ASSUME allowUpdate', loggedIn', NEW x \in Known', Unasked(x)'
        PROVE  \E k \in 2 .. Len(calls) : calls[k] \in Servers(x)
    <3>1. x \in Known /\ Unasked(x) /\ Top \notin Servers(x)
      BY <1>1, <1>3, <1>4, <1>5, <2>2
    <3> QED BY <1>1, <2>2, <3>1, ServedBelow
  <2> QED BY <1>1, <2>1, <2>2, ReturnServes
<1>6. ASSUME NEW j \in First(wanted), Return(AskAndGoOn(j))
      PROVE  UnaskedIsServed'
  <2> DEFINE a == PeerSocket(UserOf[downloads[j]])
             b == CheckFrom(j + 1)
             now == <<a, b>>
  <2>1. Len(downloads) \in Nat
    BY LenProperties DEF TypeOK
  <2>2. j \in wanted /\ \A p \in wanted : j <= p
    <3> HIDE DEF wanted
    <3> QED BY DEF First
  <2>3. j \in Nat \ {0} /\ j \in 1 .. Len(downloads) /\ j + 1 \in Nat \ {0}
    BY <1>1, <2>1, <2>2
  <2>4. UserOf[downloads[j]] \in Users
    BY <2>3, ListElement DEF DownloadAssumption
  <2>5. a \in Call /\ b \in Call /\ a.op = "peerSocket" /\ a.user = UserOf[downloads[j]] /\ b.op = "check" /\ b.i = j + 1
    BY <2>3, <2>4, CallTypes DEF PeerSocket, CheckFrom
  <2>6. Return(now)
    BY <1>6 DEF AskAndGoOn
  <2> HIDE DEF a, b
  <2>7. ASSUME NEW x, NEW p \in wanted, downloads[p] = x
        PROVE  a \in Servers(x)' \/ b \in Servers(x)'
    <3>1. p \in Nat /\ p \in Top.i .. Len(downloads) /\ j <= p
      BY <1>1, <2>1, <2>2
    <3>2. CASE p = j
      BY <2>5, <2>7, <3>2 DEF Servers
    <3>3. CASE p # j
      <4>1. p \in j + 1 .. Len(downloads)
        BY <2>1, <2>3, <3>1, <3>3
      <4> QED BY <1>1, <2>5, <2>7, <4>1 DEF Servers
    <3> QED BY <3>2, <3>3
  <2>8. ASSUME allowUpdate', loggedIn', NEW x \in Known', Unasked(x)'
        PROVE  \/ \E k \in 1 .. Len(now) : now[k] \in Servers(x)'
               \/ \E k \in 2 .. Len(calls) : calls[k] \in Servers(x)
    <3>1. x \in Known /\ Unasked(x)
      BY <1>1, <1>4, <2>8
    <3>2. CASE Top \notin Servers(x)
      BY <1>1, <2>8, <3>1, <3>2, ServedBelow
    <3>3. CASE Top \in Servers(x)
      BY <1>3, <2>5, <2>7, <3>1, <3>3, OneOfTwo
    <3> QED BY <3>2, <3>3
  <2>9. now \in Seq(Call)
    BY <2>5, FewCalls
  <2> HIDE DEF now
  <2> QED BY <1>1, <2>6, <2>8, <2>9, ReturnServes
<1> QED BY <1>1, <1>2, <1>5, <1>6 DEF DoCheckDownloads

\* A peer that is connected serves its downloads: requeueOffline and then Start; a user
\* that is asked about has no socket.
LEMMA PeerSocketServes ==
  ASSUME DownloadAssumption, TypeOK, TypeOK', StackInvariant, UnaskedIsServed, DoPeerSocket
  PROVE  UnaskedIsServed'
<1> DEFINE x == Top.user
<1>1. /\ Running("peerSocket") /\ Top.op = "peerSocket" /\ calls # <<>> /\ x \in Users
      /\ UNCHANGED <<downloads, state, enqueued, loggedIn, allowUpdate>> /\ Known' = Known
  <2>1. Running("peerSocket")
    BY DEF DoPeerSocket
  <2> QED BY <2>1, TopType, CallFields DEF DoPeerSocket, objects, Known
<1>2. ASSUME NEW y, Top \in Servers(y)
      PROVE  UserOf[y] = x
  BY <1>1, <1>2 DEF Servers
<1>3. \A y \in Known : y \in Downloads /\ UserOf[y] \in Users /\ \E p \in 1 .. Len(downloads) : downloads[p] = y
  <2>1. downloads \in Seq(Downloads)
    BY DEF TypeOK
  <2>2. DOMAIN downloads = 1 .. Len(downloads)
    BY <2>1, LenProperties
  <2> QED BY <2>1, <2>2, ElementOfSeq DEF Known, Range, DownloadAssumption
<1>4. CASE Return(ReadyCalls(x)) /\ UNCHANGED peer
  <2> DEFINE a == Loop("requeueOffline", {x})
             b == Start(x)
             now == <<a, b>>
  <2>1. Len(downloads) \in Nat
    BY LenProperties DEF TypeOK
  <2>2. a \in Call /\ b \in Call
    <3>1. {x} \in SUBSET Users /\ "requeueOffline" \in Loops /\ 1 \in Nat \ {0}
      BY <1>1 DEF Loops
    <3> QED BY <1>1, <2>1, <3>1, CallTypes DEF Loop
  <2>3. /\ a.op = "loop" /\ a.over = "requeueOffline" /\ a.who = {x} /\ a.i = 1 /\ a.end = Len(downloads)
        /\ b.op = "start" /\ b.user = x
    BY DEF Loop, LoopFrom, Start
  <2>4. Return(now)
    BY <1>4 DEF ReadyCalls
  <2> HIDE DEF a, b, x
  <2>5. ASSUME NEW y \in Known, UserOf[y] = x
        PROVE  a \in Servers(y)' \/ b \in Servers(y)'
    <3>1. PICK p \in 1 .. Len(downloads) : downloads[p] = y
      BY <1>3
    <3>2. p <= Len(downloads)
      BY <2>1, <3>1
    <3> QED BY <1>1, <2>2, <2>3, <2>5, <3>1, <3>2 DEF Servers
  <2>6. ASSUME allowUpdate', loggedIn', NEW y \in Known', Unasked(y)'
        PROVE  \/ \E k \in 1 .. Len(now) : now[k] \in Servers(y)'
               \/ \E k \in 2 .. Len(calls) : calls[k] \in Servers(y)
    <3>1. y \in Known /\ Unasked(y)
      BY <1>1, <1>4, <2>6 DEF Unasked, Wanted, WantedQueued
    <3>2. CASE Top \notin Servers(y)
      BY <1>1, <2>6, <3>1, <3>2, ServedBelow
    <3>3. CASE Top \in Servers(y)
      BY <1>2, <2>2, <2>5, <3>1, <3>3, OneOfTwo
    <3> QED BY <3>2, <3>3
  <2>7. now \in Seq(Call)
    BY <2>2, FewCalls
  <2> HIDE DEF now
  <2> QED BY <1>1, <2>4, <2>6, <2>7, ReturnServes
<1>5. ASSUME NEW now \in Seq(Call), Return(now), NEW s \in {"asked", "connecting"}, peer' = [peer EXCEPT ![x] = s]
      PROVE  UnaskedIsServed'
  <2>1. \A y \in Users : peer'[y] = "up" => peer[y] = "up" /\ y # x
    BY <1>1, <1>5 DEF TypeOK
  <2> HIDE DEF x
  <2>2. ASSUME allowUpdate', loggedIn', NEW y \in Known', Unasked(y)'
        PROVE  \E k \in 2 .. Len(calls) : calls[k] \in Servers(y)
    <3>1. y \in Known /\ UserOf[y] \in Users /\ Wanted(y)
      BY <1>1, <1>3, <2>2 DEF Unasked, Wanted, WantedQueued
    <3>2. Unasked(y) /\ UserOf[y] # x
      BY <2>1, <2>2, <3>1 DEF Unasked
    <3>3. Top \notin Servers(y)
      BY <1>2, <3>2
    <3> QED BY <1>1, <2>2, <3>1, <3>2, <3>3, ServedBelow
  <2> QED BY <1>1, <1>5, <2>2, ReturnServes
<1>6. <<>> \in Seq(Call) /\ OfflineCalls(x) \in Seq(Call)
  BY <1>1, FewCalls, UserCalls
<1>7. DoPeerSocket
  OBVIOUS
<1> HIDE DEF x
<1>8. \/ Return(ReadyCalls(x)) /\ UNCHANGED peer
      \/ \E s \in {"asked", "connecting"} : peer' = [peer EXCEPT ![x] = s] /\ (Return(<<>>) \/ Return(OfflineCalls(x)))
  BY <1>7 DEF DoPeerSocket, x
<1> QED BY <1>4, <1>5, <1>6, <1>8

\* The downloads that are asked for are initiated or enqueued. The ones that are offline
\* were requeued before.
LEMMA StartServes ==
  ASSUME DownloadAssumption, TypeOK, TypeOK', StackInvariant, UnaskedIsServed, DoStart
  PROVE  UnaskedIsServed'
<1> DEFINE x == Top.user
           first == Initiated(x)
           now == <<>>
<1>1. /\ Running("start") /\ Top.op = "start" /\ calls # <<>>
      /\ UNCHANGED <<downloads, peer, loggedIn, allowUpdate>> /\ Known' = Known
  <2>1. Running("start")
    BY DEF DoStart
  <2> QED BY <2>1, TopType DEF DoStart, world, Known
<1>2. \A d \in Downloads : state'[d] = IF d \in first THEN "Initiating" ELSE state[d]
  BY DEF DoStart
<1>3. \A d \in Downloads : enqueued'[d] <=> (enqueued[d] \/ (d \in OfUser(x) /\ WantedQueued(d)))
  BY DEF DoStart
<1>4. now \in Seq(Call) /\ Return(now)
  BY FewCalls DEF DoStart
<1> HIDE DEF first, now
<1>5. ASSUME allowUpdate', loggedIn', NEW d \in Known', Unasked(d)'
      PROVE  state'[d] = state[d] /\ \E k \in 2 .. Len(calls) : calls[k] \in Servers(d)
  <2>1. d \in Known /\ d \in Downloads
    BY <1>1, <1>5, ElementOfSeq DEF Known, Range, TypeOK
  <2>2. Wanted(d)' /\ peer[UserOf[d]] = "up"
    BY <1>1, <1>5 DEF Unasked
  <2>3. state'[d] = state[d]
    BY <1>2, <2>1, <2>2 DEF Wanted, WantedQueued
  <2>4. state[d] = "Offline" \/ (state[d] = "QueuedRemotely" /\ ~enqueued'[d])
    BY <2>2, <2>3 DEF Wanted, WantedQueued
  <2> HIDE DEF x
  <2>5. state[d] # "Offline" => ~enqueued[d] /\ ~(d \in OfUser(x) /\ WantedQueued(d))
    BY <1>3, <2>1, <2>4
  <2>6. Unasked(d)
    BY <2>2, <2>4, <2>5 DEF Unasked, Wanted, WantedQueued
  <2>7. state[d] # "Offline" => UserOf[d] # x
    BY <2>1, <2>4, <2>5 DEF OfUser, WantedQueued
  <2>8. Top \notin Servers(d)
    BY <1>1, <2>7 DEF Servers, x
  <2> QED BY <1>1, <1>5, <2>1, <2>3, <2>6, <2>8, ServedBelow
<1> QED BY <1>1, <1>4, <1>5, ReturnServes

\* The loops: requeueOffline passes no download that is offline, and the one that takes
\* the mark away passes none that is queued.
LEMMA LoopServes ==
  ASSUME DownloadAssumption, TypeOK, TypeOK', StackInvariant, UnaskedIsServed, DoLoop
  PROVE  UnaskedIsServed'
<1> DEFINE over == Top.over
           last == IF Top.end < Len(downloads) THEN Top.end ELSE Len(downloads)
           hits == {j \in Top.i .. last : Selected(over, Top.who, downloads[j])}
           passed == {d \in {downloads[j] : j \in Top.i .. last} : UserOf[d] \in Top.who}
           now(j) == Append(IterationCalls(over, downloads[j]), LoopFrom(over, Top.who, j + 1, Top.end))
<1>1. /\ Running("loop") /\ Top.op = "loop" /\ calls # <<>>
      /\ UNCHANGED <<downloads, state, peer, loggedIn, allowUpdate>> /\ Known' = Known
  <2>1. Running("loop")
    BY DEF DoLoop
  <2> QED BY <2>1, TopType DEF DoLoop, world, Known
<1>2. over \in Loops /\ Top.who \in SUBSET Users /\ Top.i \in Nat \ {0} /\ Top.end \in Nat /\ Len(downloads) \in Nat
  BY <1>1, TopType, CallFields, LenProperties DEF TypeOK
<1>3. \/ /\ hits = {} /\ Return(<<>>)
         /\ enqueued' = [d \in Downloads |-> enqueued[d] /\ d \notin (IF over # "peerOffline" THEN {} ELSE passed)]
      \/ \E j \in First(hits) : Return(now(j))
  BY DEF DoLoop
<1>4. CASE /\ hits = {} /\ Return(<<>>)
           /\ enqueued' = [d \in Downloads |-> enqueued[d] /\ d \notin (IF over # "peerOffline" THEN {} ELSE passed)]
  <2> DEFINE none == <<>>
  <2>1. none \in Seq(Call) /\ Return(none)
    BY <1>4, FewCalls
  <2> HIDE DEF none
  <2>2. \A d \in Downloads : enqueued[d] => enqueued'[d] \/ (over = "peerOffline" /\ d \in passed)
    BY <1>4
  <2>3. ASSUME over = "peerOffline", NEW d \in passed
        PROVE  state[d] \in KeptOffline
    <3>1. PICK j \in Top.i .. last : downloads[j] = d /\ UserOf[d] \in Top.who
      OBVIOUS
    <3>2. ~Selected(over, Top.who, downloads[j])
      BY <1>4, <3>1
    <3> HIDE DEF last, over
    <3> QED BY <2>3, <3>1, <3>2 DEF Selected
  <2>4. ASSUME NEW d, state[d] = "Offline"
        PROVE  Top \notin Servers(d)
    <3> SUFFICES ASSUME Top \in Servers(d)
                 PROVE  FALSE
      OBVIOUS
    <3>1. /\ over = "requeueOffline" /\ UserOf[d] \in Top.who
          /\ \E p \in Top.i .. Len(downloads) : p <= Top.end /\ downloads[p] = d
      BY <1>1 DEF Servers
    <3>2. PICK p \in Top.i .. Len(downloads) : p <= Top.end /\ downloads[p] = d
      BY <3>1
    <3>3. p \in Top.i .. last
      BY <1>2, <3>2
    <3>4. Selected(over, Top.who, downloads[p])
      BY <2>4, <3>1, <3>2 DEF Selected
    <3> QED BY <1>4, <3>3, <3>4
  <2>5. \A d : state[d] # "Offline" => Top \notin Servers(d)
    BY <1>1 DEF Servers
  <2> HIDE DEF over, last, hits, passed
  <2>6. ASSUME allowUpdate', loggedIn', NEW d \in Known', Unasked(d)'
        PROVE  \E k \in 2 .. Len(calls) : calls[k] \in Servers(d)
    <3>1. d \in Known /\ d \in Downloads
      BY <1>1, <2>6, ElementOfSeq DEF Known, Range, TypeOK
    <3>2. state[d] = "Offline" \/ (state[d] = "QueuedRemotely" /\ ~enqueued'[d])
      BY <1>1, <2>6 DEF Unasked, Wanted, WantedQueued
    <3>3. state[d] = "QueuedRemotely" => ~enqueued[d]
      BY <2>2, <2>3, <3>1, <3>2 DEF KeptOffline, FailedStates
    <3>4. Unasked(d)
      BY <1>1, <2>6, <3>2, <3>3 DEF Unasked, Wanted, WantedQueued
    <3> QED BY <1>1, <2>4, <2>5, <2>6, <3>1, <3>4, ServedBelow
  <2> QED BY <1>1, <2>1, <2>6, ReturnServes
<1>5. ASSUME NEW j \in First(hits), Return(now(j))
      PROVE  UnaskedIsServed'
  <2> DEFINE d == downloads[j]
             n == now(j)
             c == LoopFrom(over, Top.who, j + 1, Top.end)
             q == SetState(d, "QueuedRemotely")
             o == SetState(d, "Offline")
             u == Do("unenqueue", d)
  <2>1. j \in Nat \ {0} /\ j \in 1 .. Len(downloads)
    <3>1. j \in hits
      BY FirstElement
    <3> QED BY <1>2, <3>1
  <2>2. d \in Downloads
    BY <2>1, ListElement
  <2>3. c \in Call /\ q \in Call /\ o \in Call /\ u \in Call /\ q \in Universal /\ o \in Universal
    BY <1>2, <2>1, <2>2, CallTypes, ServerNames, InactiveNames DEF DownOps
  <2>4. IterationCalls(over, d) \in {<<q>>, <<o>>, <<o, u>>}
    BY <1>2 DEF IterationCalls, Loops
  <2>5. n = Append(IterationCalls(over, d), c)
    OBVIOUS
  <2>a. Return(n)
    BY <1>5
  <2> HIDE DEF q, o, u, c, d, over, n
  <2>6. Append(<<q>>, c) = <<q, c>> /\ Append(<<o>>, c) = <<o, c>> /\ Append(<<o, u>>, c) = <<o, u, c>>
    BY <2>3, OneMore
  <2>7. n \in {<<q, c>>, <<o, c>>, <<o, u, c>>}
    BY <2>4, <2>5, <2>6
  <2>8. /\ <<q, c>> \in Seq(Call) /\ Len(<<q, c>>) = 2 /\ <<q, c>>[1] = q
        /\ <<o, c>> \in Seq(Call) /\ Len(<<o, c>>) = 2 /\ <<o, c>>[1] = o
        /\ <<o, u, c>> \in Seq(Call) /\ Len(<<o, u, c>>) = 3 /\ <<o, u, c>>[1] = o
    BY <2>3
  <2>9. n \in Seq(Call) /\ (Len(n) = 2 \/ Len(n) = 3) /\ (n[1] = q \/ n[1] = o)
    BY <2>7, <2>8
  <2>10. Len(n) # 0
    BY <2>9
  <2> QED BY <1>1, <2>3, <2>a, <2>9, <2>10, UniversalFirst
<1> QED BY <1>3, <1>4, <1>5

\* The steps of the handlers.
LEMMA StepServes ==
  ASSUME DownloadAssumption, TypeOK, TypeOK', StackInvariant, UnaskedIsServed, Step
  PROVE  UnaskedIsServed'
BY LoadServes, SetterServes, CheckServes, PeerSocketServes, StartServes, LoopServes, AddServes,
   AbortServes, OfferServes DEF Step

\* Nothing is left to be asked for when an event comes.
LEMMA NothingServed ==
  ASSUME UnaskedIsServed, calls = <<>>, allowUpdate, loggedIn, NEW d \in Known
  PROVE  ~Unasked(d)
<1>1. \A k \in 1 .. Len(calls) : FALSE
  OBVIOUS
<1> QED BY <1>1 DEF UnaskedIsServed

\* An event that makes no download wanted and no peer connected.
LEMMA EventServes ==
  ASSUME UnaskedIsServed, calls = <<>>, UNCHANGED <<downloads, state, enqueued>>,
         \A d \in Known : peer'[UserOf[d]] = "up" => peer[UserOf[d]] = "up",
         allowUpdate' /\ loggedIn' => allowUpdate /\ loggedIn
  PROVE  UnaskedIsServed'
<1>1. ASSUME allowUpdate', loggedIn', NEW d \in Known'
      PROVE  ~Unasked(d)'
  <2>1. d \in Known
    BY <1>1 DEF Known
  <2>2. ~Unasked(d)
    BY <1>1, <2>1, NothingServed
  <2> QED BY <2>1, <2>2 DEF Unasked, Wanted, WantedQueued
<1> QED BY <1>1 DEF UnaskedIsServed

LEMMA DownloadEventServes ==
  ASSUME UnaskedIsServed, NEW d \in Downloads, DownloadEvent(d)
  PROVE  UnaskedIsServed'
<1> USE DEF objects, world, Event, Idle
<1>1. CASE FolderContents(d)
  BY <1>1 DEF FolderContents, UnaskedIsServed
<1>2. CASE AddDownload(d) \/ AbortDownload(d) \/ RemoveDownload(d) \/ UpdateDownload(d)
  <2>1. calls = <<>> /\ UNCHANGED <<downloads, state, enqueued, peer, allowUpdate, loggedIn>>
    BY <1>2 DEF AddDownload, AbortDownload, RemoveDownload, UpdateDownload
  <2> QED BY <2>1, EventServes
<1>3. CASE OfferReceived(d) \/ PushReceived(d) \/ RefusalReceived(d)
  <2>1. calls = <<>> /\ UNCHANGED <<downloads, state, enqueued, peer, allowUpdate, loggedIn>>
    BY <1>3 DEF OfferReceived, PushReceived, RefusalReceived
  <2> QED BY <2>1, EventServes
<1>4. CASE TicketReceived(d) \/ DataReceived(d) \/ SocketLost(d)
  <2>1. calls = <<>> /\ UNCHANGED <<downloads, state, enqueued, peer, allowUpdate, loggedIn>>
    BY <1>4 DEF TicketReceived, DataReceived, SocketLost
  <2> QED BY <2>1, EventServes
<1>5. CASE (\E timer \in {"tracked", "earlier"} : InitTimedOut(d, timer)) \/ Retry(d)
  <2>1. calls = <<>> /\ UNCHANGED <<downloads, state, enqueued, peer, allowUpdate, loggedIn>>
    BY <1>5 DEF InitTimedOut, Retry
  <2> QED BY <2>1, EventServes
<1> QED BY <1>1, <1>2, <1>3, <1>4, <1>5 DEF DownloadEvent

\* A peer that has just been connected is asked for what we want of it.
LEMMA PeerReadyServes ==
  ASSUME DownloadAssumption, TypeOK, UnaskedIsServed, NEW x \in Users, PeerReady(x)
  PROVE  UnaskedIsServed'
<1> DEFINE a == Loop("requeueOffline", {x})
           b == Start(x)
           now == <<a, b>>
<1>1. /\ calls = <<>> /\ calls' = now /\ UNCHANGED <<downloads, state, enqueued, allowUpdate, loggedIn>>
      /\ peer' = [peer EXCEPT ![x] = "up"] /\ Known' = Known
  BY DEF PeerReady, Event, Idle, ReadyCalls, objects, Known
<1>2. Len(downloads) \in Nat /\ DOMAIN downloads = 1 .. Len(downloads)
  BY LenProperties DEF TypeOK
<1>3. a \in Call /\ b \in Call
  <2>1. {x} \in SUBSET Users /\ "requeueOffline" \in Loops /\ 1 \in Nat \ {0}
    BY DEF Loops
  <2> QED BY <1>2, <2>1, CallTypes DEF Loop
<1>4. /\ a.op = "loop" /\ a.over = "requeueOffline" /\ a.who = {x} /\ a.i = 1 /\ a.end = Len(downloads)
      /\ b.op = "start" /\ b.user = x
  BY DEF Loop, LoopFrom, Start
<1>5. \A y \in Users : y # x => peer'[y] = peer[y]
  BY <1>1 DEF TypeOK
<1> HIDE DEF a, b
<1>6. ASSUME allowUpdate', loggedIn', NEW d \in Known', Unasked(d)'
      PROVE  \E k \in 1 .. Len(now) : now[k] \in Servers(d)'
  <2>1. d \in Known /\ UserOf[d] \in Users
    BY <1>1, <1>6, ElementOfSeq DEF Known, Range, DownloadAssumption, TypeOK
  <2>2. UserOf[d] = x
    <3>1. ~Unasked(d)
      BY <1>1, <1>6, <2>1, NothingServed
    <3> QED BY <1>1, <1>5, <1>6, <2>1, <3>1 DEF Unasked, Wanted, WantedQueued
  <2>3. PICK p \in 1 .. Len(downloads) : downloads[p] = d
    BY <1>2, <2>1 DEF Known, Range
  <2>4. p <= Len(downloads)
    BY <1>2, <2>3
  <2>5. a \in Servers(d)' \/ b \in Servers(d)'
    BY <1>1, <1>3, <1>4, <2>2, <2>3, <2>4 DEF Servers
  <2> QED BY <1>3, <2>5, OneOfTwo
<1> HIDE DEF now
<1> QED BY <1>1, <1>6 DEF UnaskedIsServed

LEMMA UserEventServes ==
  ASSUME DownloadAssumption, TypeOK, UnaskedIsServed, NEW x \in Users, UserEvent(x)
  PROVE  UnaskedIsServed'
<1> USE DEF objects, world, Event, Idle
<1>1. CASE PeerReady(x)
  BY <1>1, PeerReadyServes
<1>2. CASE AddFolder(x) \/ PeerOffline(x)
  <2>1. calls = <<>> /\ UNCHANGED <<downloads, state, enqueued, peer, allowUpdate, loggedIn>>
    BY <1>2 DEF AddFolder, PeerOffline
  <2> QED BY <2>1, EventServes
<1>3. CASE PeerConnecting(x) \/ PeerUnavailable(x) \/ PeerLost(x)
  <2>1. calls = <<>> /\ UNCHANGED <<downloads, state, enqueued, allowUpdate, loggedIn>>
    BY <1>3 DEF PeerConnecting, PeerUnavailable, PeerLost
  <2>2. \A y \in Users : peer'[y] = "up" => peer[y] = "up"
    BY <1>3 DEF PeerConnecting, PeerUnavailable, PeerLost, TypeOK
  <2>3. \A d \in Known : UserOf[d] \in Users
    BY ElementOfSeq DEF Known, Range, DownloadAssumption, TypeOK
  <2> QED BY <2>1, <2>2, <2>3, EventServes
<1> QED BY <1>1, <1>2, <1>3 DEF UserEvent

LEMMA GlobalEventServes ==
  ASSUME TypeOK', UnaskedIsServed, GlobalEvent
  PROVE  UnaskedIsServed'
<1> USE DEF objects, world, Event, Idle
<1>1. CASE LoggedIn
  <2> DEFINE now == <<CheckDownloads>>
  <2>1. calls' = now /\ CheckDownloads \in Call /\ CheckDownloads.op = "check" /\ CheckDownloads.i = 1
    BY <1>1, CallTypes DEF LoggedIn, CheckDownloads, CheckFrom
  <2>2. Len(now) = 1 /\ now[1] = CheckDownloads /\ 1 \in 1 .. 1
    OBVIOUS
  <2>3. ASSUME NEW d \in Known'
        PROVE  CheckDownloads \in Servers(d)'
    <3>1. downloads' \in Seq(Downloads)
      BY DEF TypeOK
    <3>2. DOMAIN downloads' = 1 .. Len(downloads')
      BY <3>1, LenProperties
    <3> QED BY <2>1, <3>2 DEF Known, Range, Servers
  <2> HIDE DEF now
  <2>4. \A d \in Known' : \E k \in 1 .. Len(calls') : calls'[k] \in Servers(d)'
    BY <2>1, <2>2, <2>3
  <2> QED BY <2>4 DEF UnaskedIsServed
<1>2. CASE LoggedOut
  BY <1>2 DEF LoggedOut, UnaskedIsServed
<1>3. CASE \E n \in Slots : SetSlots(n)
  <2>1. calls = <<>> /\ UNCHANGED <<downloads, state, enqueued, peer, allowUpdate, loggedIn>>
    BY <1>3 DEF SetSlots
  <2> QED BY <2>1, EventServes
<1>4. CASE Shutdown \/ Crash
  BY <1>4 DEF Shutdown, Crash, Restart, UnaskedIsServed
<1> QED BY <1>1, <1>2, <1>3, <1>4 DEF GlobalEvent

\* While we are logged in, whatever is to be asked for has a call that sees to it.
LEMMA ServingHolds == Spec => []UnaskedIsServed
<1> USE DownloadAssumption
<1>1. Init => UnaskedIsServed
  BY DEF Init, UnaskedIsServed
<1>2. ListingInvariant /\ ListingInvariant' /\ UnaskedIsServed /\ [Next]_vars => UnaskedIsServed'
  <2> SUFFICES ASSUME ListingInvariant, ListingInvariant', UnaskedIsServed, [Next]_vars
               PROVE  UnaskedIsServed'
    OBVIOUS
  <2>1. TypeOK /\ TypeOK' /\ StackInvariant
    BY DEF ListingInvariant
  <2>2. CASE UNCHANGED vars
    BY <2>2 DEF vars, objects, world, UnaskedIsServed, Unasked, Wanted, WantedQueued, Known, Servers
  <2> QED BY <2>1, <2>2, StepServes, DownloadEventServes, UserEventServes, GlobalEventServes DEF Next
<1> QED BY <1>1, <1>2, ListingInvariantHolds, PTL DEF Spec

\* No download of a connected peer is left unasked for: every path to QueuedRemotely or
\* Offline reaches checkDownloads, whatever other handlers the check itself runs into.
THEOREM NothingStaysUnasked == Spec => []NothingUnasked
<1>1. UnaskedIsServed => NothingUnasked
  <2> SUFFICES ASSUME UnaskedIsServed, Idle, allowUpdate, loggedIn, NEW d \in Known
               PROVE  ~Unasked(d)
    BY DEF NothingUnasked, Unasked
  <2> QED BY NothingServed DEF Idle
<1> QED BY <1>1, ServingHolds, PTL
=============================================================================
