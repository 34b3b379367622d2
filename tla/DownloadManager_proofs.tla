----------------------- MODULE DownloadManager_proofs -----------------------
(***************************************************************************)
(* Theorems about DownloadManager, for any users, downloads, slot limits   *)
(* and events.                                                             *)
(***************************************************************************)
EXTENDS DownloadManager, SequenceTheorems, FiniteSetTheorems, WellFoundedInduction, TLAPS

-----------------------------------------------------------------------------
(* The saved list is written by recursion over m_Downloads. *)

\* A set of naturals that is not empty has a least element.
LEMMA LeastNatural ==
  ASSUME NEW T, T \subseteq Nat, T # {}
  PROVE  \E m \in T : \A n \in T : m <= n
<1> DEFINE R == OpToRel(<, Nat)
<1>1. IsWellFoundedOn(R, Nat)
  BY NatLessThanWellFounded
<1>2. \A m, n \in Nat : n < m => <<n, m>> \in R
  BY DEF OpToRel
<1> HIDE DEF R
<1>3. PICK m \in T : \A n \in T : ~(<<n, m>> \in R)
  BY <1>1, WFMin
<1>4. \A n \in T : m <= n
  <2> SUFFICES ASSUME NEW n \in T PROVE m <= n
    OBVIOUS
  <2>1. m \in Nat /\ n \in Nat /\ ~(<<n, m>> \in R)
    BY <1>3
  <2>2. ~(n < m)
    BY <1>2, <2>1
  <2> QED BY <2>1, <2>2
<1> QED BY <1>4

\* What is written after the n-th download, given what is written before it.
WrittenAfter(list, f, n) ==
  IF n = 0 THEN <<>>
  ELSE IF state[list[n]] = "Finished" THEN f[n - 1]
  ELSE Append(f[n - 1], EntryOf(list[n]))

IsWritten(list, f, m) ==
  /\ f \in [0 .. Len(list) -> Seq(Entries)]
  /\ \A n \in 0 .. m : f[n] = WrittenAfter(list, f, n)

LEMMA EntryType == \A d \in Downloads : EntryOf(d) \in Entries
BY DEF EntryOf, Entries

\* Writing one more download leaves a list of entries.
LEMMA WrittenAfterType ==
  ASSUME NEW list \in Seq(Downloads), NEW n \in 0 .. Len(list), NEW f,
         n > 0 => f[n - 1] \in Seq(Entries)
  PROVE  WrittenAfter(list, f, n) \in Seq(Entries)
<1>1. CASE n = 0
  BY <1>1 DEF WrittenAfter
<1>2. CASE n # 0
  <2>1. n \in 1 .. Len(list) /\ n > 0
    BY <1>2, LenProperties
  <2>2. EntryOf(list[n]) \in Entries /\ f[n - 1] \in Seq(Entries)
    BY <2>1, EntryType, ElementOfSeq
  <2>3. Append(f[n - 1], EntryOf(list[n])) \in Seq(Entries)
    BY <2>2, AppendProperties
  <2> QED BY <1>2, <2>2, <2>3 DEF WrittenAfter
<1> QED BY <1>1, <1>2

\* There is a function that writes the whole list.
LEMMA WrittenExists ==
  ASSUME NEW list \in Seq(Downloads)
  PROVE  \E f : IsWritten(list, f, Len(list))
<1> DEFINE L == Len(list)
           Bad == {m \in 0 .. L : ~\E f : IsWritten(list, f, m)}
<1>1. L \in Nat
  BY LenProperties
<1>2. ASSUME Bad # {}
      PROVE  FALSE
  <2>1. PICK m \in Bad : \A n \in Bad : m <= n
    <3>1. Bad \subseteq Nat
      BY <1>1
    <3> HIDE DEF Bad
    <3> QED BY <1>2, <3>1, LeastNatural
  <2>2. PICK g : /\ g \in [0 .. L -> Seq(Entries)]
                 /\ \A n \in 0 .. m - 1 : g[n] = WrittenAfter(list, g, n)
    <3>1. CASE m = 0
      <4> DEFINE e == [n \in 0 .. L |-> <<>>]
      <4>1. e \in [0 .. L -> Seq(Entries)]
        OBVIOUS
      <4>2. \A n \in 0 .. m - 1 : FALSE
        BY <3>1
      <4> QED BY <4>1, <4>2
    <3>2. CASE m # 0
      <4>1. m - 1 \in 0 .. L /\ m - 1 \notin Bad
        BY <1>1, <2>1, <3>2
      <4>2. PICK f : IsWritten(list, f, m - 1)
        BY <4>1
      <4> QED BY <4>2 DEF IsWritten
    <3> QED BY <3>1, <3>2
  <2> DEFINE h == [g EXCEPT ![m] = WrittenAfter(list, g, m)]
  <2>3. m \in 0 .. L /\ m \in Nat
    BY <1>1, <2>1
  <2>4. WrittenAfter(list, g, m) \in Seq(Entries)
    <3>1. m > 0 => m - 1 \in 0 .. L
      BY <1>1, <2>3
    <3> QED BY <2>2, <2>3, <3>1, WrittenAfterType
  <2>5. h \in [0 .. L -> Seq(Entries)]
    BY <2>2, <2>3, <2>4
  <2>6. h[m] = WrittenAfter(list, g, m) /\ \A n \in 0 .. m - 1 : h[n] = g[n]
    BY <1>1, <2>2, <2>3
  <2> HIDE DEF h
  <2>7. ASSUME NEW n \in 0 .. m
        PROVE  h[n] = WrittenAfter(list, h, n)
    <3>1. n # 0 => h[n - 1] = g[n - 1]
      BY <2>3, <2>6
    <3>2. WrittenAfter(list, h, n) = WrittenAfter(list, g, n)
      BY <3>1 DEF WrittenAfter
    <3>3. CASE n = m
      BY <2>6, <3>2, <3>3
    <3>4. CASE n # m
      <4>1. n \in 0 .. m - 1
        BY <2>3, <3>4
      <4> QED BY <2>2, <2>6, <3>2, <4>1
    <3> QED BY <3>3, <3>4
  <2>8. IsWritten(list, h, m)
    BY <2>5, <2>7 DEF IsWritten
  <2> QED BY <2>1, <2>8
<1>3. L \in 0 .. L
  BY <1>1
<1> QED BY <1>2, <1>3

\* What saveDownloads writes is what such a function writes.
LEMMA ToSaveIsWritten ==
  ASSUME NEW list \in Seq(Downloads)
  PROVE  \E f : IsWritten(list, f, Len(list)) /\ ToSave(list) = f[Len(list)]
<1> DEFINE L == Len(list)
           Recurses(f) == f = [n \in 0 .. L |-> WrittenAfter(list, f, n)]
           written == CHOOSE f : Recurses(f)
<1>0. L \in Nat
  BY LenProperties
<1>1. ToSave(list) = written[L]
  BY DEF ToSave, WrittenAfter
<1>2. \E f : Recurses(f)
  <2>1. PICK f : IsWritten(list, f, L)
    BY WrittenExists
  <2>2. f = [n \in 0 .. L |-> f[n]]
    BY <2>1 DEF IsWritten
  <2>3. f = [n \in 0 .. L |-> WrittenAfter(list, f, n)]
    BY <2>1, <2>2 DEF IsWritten
  <2> QED BY <2>3
<1>3. Recurses(written)
  BY <1>2
<1> HIDE DEF written
<1>4. \A n \in 0 .. L : written[n] = WrittenAfter(list, written, n)
  BY <1>3
<1> DEFINE Bad == {n \in 0 .. L : written[n] \notin Seq(Entries)}
<1>5. ASSUME Bad # {}
      PROVE  FALSE
  <2>1. PICK m \in Bad : \A n \in Bad : m <= n
    <3>1. Bad \subseteq Nat
      BY <1>0
    <3> HIDE DEF Bad
    <3> QED BY <1>5, <3>1, LeastNatural
  <2>2. m \in 0 .. L /\ (m > 0 => m - 1 \in 0 .. L /\ m - 1 \notin Bad)
    BY <1>0, <2>1
  <2>3. WrittenAfter(list, written, m) \in Seq(Entries)
    BY <2>2, WrittenAfterType
  <2> QED BY <1>4, <2>1, <2>2, <2>3
<1>6. written \in [0 .. L -> Seq(Entries)]
  <2>1. written = [n \in 0 .. L |-> written[n]]
    BY <1>3
  <2>2. \A n \in 0 .. L : written[n] \in Seq(Entries)
    BY <1>5
  <2> QED BY <2>1, <2>2
<1>7. IsWritten(list, written, L)
  BY <1>4, <1>6 DEF IsWritten
<1> QED BY <1>1, <1>7

\* Whatever is saved is a list of entries.
LEMMA ToSaveType ==
  ASSUME NEW list \in Seq(Downloads)
  PROVE  ToSave(list) \in Seq(Entries)
<1>1. PICK f : IsWritten(list, f, Len(list)) /\ ToSave(list) = f[Len(list)]
  BY ToSaveIsWritten
<1>2. Len(list) \in 0 .. Len(list)
  BY LenProperties
<1> QED BY <1>1, <1>2 DEF IsWritten

\* Saving a list, or failing to, leaves a list of entries on disk.
LEMMA SaveType ==
  ASSUME NEW list \in Seq(Downloads), Save(list), hasFile \in BOOLEAN, saved \in Seq(Entries)
  PROVE  hasFile' \in BOOLEAN /\ saved' \in Seq(Entries) /\ unsaved' \in BOOLEAN
<1> DEFINE entries == ToSave(list)
<1>1. entries \in Seq(Entries) /\ Len(entries) \in Nat
  BY ToSaveType, LenProperties
<1> HIDE DEF entries
<1>2. \A n \in 0 .. Len(entries) - 1 : SubSeq(entries, 1, n) \in Seq(Entries)
  <2> TAKE n \in 0 .. Len(entries) - 1
  <2>1. \A i \in 1 .. n : entries[i] \in Entries
    <3> TAKE i \in 1 .. n
    <3>1. i \in 1 .. Len(entries)
      BY <1>1
    <3> QED BY <1>1, <3>1, ElementOfSeq
  <2> QED BY <1>1, <2>1, SubSeqProperties
<1>3. \/ hasFile' = TRUE /\ saved' = entries /\ unsaved' = FALSE
      \/ unsaved' = TRUE /\ hasFile' = hasFile /\ saved' = saved
      \/ /\ unsaved' = TRUE /\ hasFile' = TRUE
         /\ \E n \in 0 .. Len(entries) - 1 : saved' = SubSeq(entries, 1, n)
  BY DEF Save, entries
<1> QED BY <1>1, <1>2, <1>3

\* A list that grows at the end gets one more element.
LEMMA RangeGrows ==
  ASSUME NEW S, NEW s \in Seq(S), NEW e \in S
  PROVE  Range(Append(s, e)) = Range(s) \union {e}
<1> DEFINE n == Len(s)
           g == Append(s, e)
<1>1. n \in Nat /\ DOMAIN s = 1 .. n
  BY LenProperties
<1>2. /\ g \in Seq(S) /\ Len(g) = n + 1 /\ g[n + 1] = e
      /\ \A j \in 1 .. n : g[j] = s[j]
  BY AppendProperties
<1>3. DOMAIN g = 1 .. n + 1
  BY <1>2, LenProperties
<1> HIDE DEF n, g
<1>4. \A j \in 1 .. n + 1 : j \in 1 .. n \/ j = n + 1
  BY <1>1
<1>5. \A j \in 1 .. n : j \in 1 .. n + 1
  BY <1>1
<1>6. n + 1 \in 1 .. n + 1
  BY <1>1
<1>7. Range(g) = Range(s) \union {e}
  BY <1>1, <1>2, <1>3, <1>4, <1>5, <1>6 DEF Range
<1> QED BY <1>7 DEF g

\* saveDownloads writes an entry for each download that is not finished, and no other.
LEMMA SavedEntries ==
  ASSUME NEW list \in Seq(Downloads)
  PROVE  Range(ToSave(list)) = {EntryOf(list[n]) : n \in {k \in 1 .. Len(list) : state[list[k]] # "Finished"}}
<1> DEFINE L == Len(list)
           Before(m) == {EntryOf(list[n]) : n \in {k \in 1 .. m : state[list[k]] # "Finished"}}
<1>1. L \in Nat /\ \A n \in 1 .. L : list[n] \in Downloads
  BY LenProperties, ElementOfSeq
<1>2. PICK f : IsWritten(list, f, L) /\ ToSave(list) = f[L]
  BY ToSaveIsWritten
<1>3. \A n \in 0 .. L : f[n] = WrittenAfter(list, f, n) /\ f[n] \in Seq(Entries)
  BY <1>2 DEF IsWritten
<1> DEFINE Bad == {n \in 0 .. L : Range(f[n]) # Before(n)}
<1>4. ASSUME Bad # {}
      PROVE  FALSE
  <2>1. PICK m \in Bad : \A n \in Bad : m <= n
    <3>1. Bad \subseteq Nat
      BY <1>1
    <3> HIDE DEF Bad
    <3> QED BY <1>4, <3>1, LeastNatural
  <2>2. m \in 0 .. L /\ m \in Nat /\ Range(f[m]) # Before(m)
    BY <1>1, <2>1
  <2>3. CASE m = 0
    <3>1. f[m] = <<>>
      BY <1>3, <2>2, <2>3 DEF WrittenAfter
    <3>2. \A k \in 1 .. m : FALSE
      BY <2>3
    <3>3. Before(m) = {} /\ Range(<<>>) = {}
      BY <3>2 DEF Range
    <3> QED BY <2>2, <3>1, <3>3
  <2>4. CASE m # 0
    <3>1. m - 1 \in 0 .. L /\ m \in 1 .. L
      BY <1>1, <2>2, <2>4
    <3>a. m - 1 \notin Bad
      <4>1. ~(m <= m - 1)
        BY <2>2
      <4> HIDE DEF Bad
      <4> QED BY <2>1, <4>1
    <3>2. Range(f[m - 1]) = Before(m - 1) /\ f[m - 1] \in Seq(Entries)
      BY <1>3, <3>1, <3>a
    <3>3. \A k \in 1 .. m : k = m \/ k \in 1 .. m - 1
      BY <2>2
    <3>4. m \in 1 .. m /\ \A k \in 1 .. m - 1 : k \in 1 .. m
      BY <2>2, <2>4
    <3>5. CASE state[list[m]] = "Finished"
      <4>1. f[m] = f[m - 1]
        BY <1>3, <2>2, <2>4, <3>5 DEF WrittenAfter
      <4>2. Before(m) = Before(m - 1)
        BY <3>3, <3>4, <3>5
      <4> QED BY <2>2, <3>2, <4>1, <4>2
    <3>6. CASE state[list[m]] # "Finished"
      <4>1. f[m] = Append(f[m - 1], EntryOf(list[m]))
        BY <1>3, <2>2, <2>4, <3>6 DEF WrittenAfter
      <4>2. EntryOf(list[m]) \in Entries
        BY <1>1, <3>1, EntryType
      <4>3. Range(f[m]) = Range(f[m - 1]) \union {EntryOf(list[m])}
        <5> DEFINE g == f[m - 1]
                   e == EntryOf(list[m])
        <5>1. g \in Seq(Entries) /\ e \in Entries
          BY <3>2, <4>2
        <5> HIDE DEF g, e
        <5>2. Range(Append(g, e)) = Range(g) \union {e}
          BY <5>1, RangeGrows
        <5> QED BY <4>1, <5>2 DEF g, e
      <4>4. Before(m) = Before(m - 1) \union {EntryOf(list[m])}
        BY <3>3, <3>4, <3>6
      <4> QED BY <2>2, <3>2, <4>3, <4>4
    <3> QED BY <3>5, <3>6
  <2> QED BY <2>3, <2>4
<1>5. L \in 0 .. L
  BY <1>1
<1> QED BY <1>2, <1>4, <1>5

-----------------------------------------------------------------------------
(* The call stack: the calls a handler pushes are calls, and stay calls. *)

DownOps == {"disconnected", "release", "closed", "unenqueue", "enqueue", "touch", "add",
            "addRest", "abortRest", "remove", "erase", "offerRest", "pushRest", "accept", "attach", "rename"}

\* The constructors build calls.
LEMMA CallTypes ==
  /\ \A d \in Downloads, s \in TrStates : SetState(d, s) \in Call
  /\ \A d \in Downloads, o \in DownOps : Do(o, d) \in Call
  /\ \A i \in Nat \ {0} : CheckFrom(i) \in Call
  /\ CheckDownloads \in Call
  /\ \A x \in Users : PeerSocket(x) \in Call /\ Start(x) \in Call
  /\ \A o \in Loops, w \in SUBSET Users, i \in Nat \ {0}, e \in Nat : LoopFrom(o, w, i, e) \in Call
  /\ Allow \in Call /\ [op |-> "load"] \in Call
  /\ \A list \in Seq(Entries) : LoadRest(list) \in Call
  /\ \A e \in Entries : [op |-> "loadState", entry |-> e] \in Call
<1> USE DEF Call
<1>1. \A d \in Downloads, s \in TrStates : SetState(d, s) \in Call
  BY DEF SetState
<1>2. \A d \in Downloads, o \in DownOps : Do(o, d) \in Call
  BY DEF Do, DownOps
<1>3. \A i \in Nat \ {0} : CheckFrom(i) \in Call
  BY DEF CheckFrom
<1>4. CheckDownloads \in Call
  BY <1>3 DEF CheckDownloads
<1>5. \A x \in Users : PeerSocket(x) \in Call /\ Start(x) \in Call
  BY DEF PeerSocket, Start
<1>6. \A o \in Loops, w \in SUBSET Users, i \in Nat \ {0}, e \in Nat : LoopFrom(o, w, i, e) \in Call
  BY DEF LoopFrom
<1>7. Allow \in Call /\ [op |-> "load"] \in Call
  BY DEF Allow
<1>8. \A list \in Seq(Entries) : LoadRest(list) \in Call
  BY DEF LoadRest
<1>9. \A e \in Entries : [op |-> "loadState", entry |-> e] \in Call
  OBVIOUS
<1> QED BY <1>1, <1>2, <1>3, <1>4, <1>5, <1>6, <1>7, <1>8, <1>9

\* The fields of a call.
LEMMA CallFields ==
  ASSUME NEW c \in Call
  PROVE  /\ c.op = "setState" => c.down \in Downloads /\ c.st \in TrStates
         /\ c.op \in DownOps => c.down \in Downloads
         /\ c.op = "check" => c.i \in Nat \ {0}
         /\ c.op \in {"peerSocket", "start"} => c.user \in Users
         /\ c.op = "loop" => c.over \in Loops /\ c.who \in SUBSET Users /\ c.i \in Nat \ {0} /\ c.end \in Nat
         /\ c.op = "loadRest" => c.list \in Seq(Entries)
         /\ c.op = "loadState" => c.entry \in Entries
BY DEF Call, DownOps

\* Up to four calls make a sequence of calls.
LEMMA FewCalls ==
  /\ <<>> \in Seq(Call)
  /\ \A a \in Call : <<a>> \in Seq(Call)
  /\ \A a, b \in Call : <<a, b>> \in Seq(Call)
  /\ \A a, b, c \in Call : <<a, b, c>> \in Seq(Call)
  /\ \A a, b, c, d \in Call : <<a, b, c, d>> \in Seq(Call)
  OBVIOUS

\* One sequence of calls before another.
LEMMA MoreCalls ==
  ASSUME NEW now \in Seq(Call), NEW then \in Seq(Call)
  PROVE  now \o then \in Seq(Call)
  BY ConcatProperties

\* A further call, at the end of a sequence of them.
LEMMA OneMoreCall ==
  ASSUME NEW now \in Seq(Call), NEW c \in Call
  PROVE  Append(now, c) \in Seq(Call)
  BY AppendProperties

\* A handler that returns, leaving more calls to run, leaves a stack of calls.
LEMMA ReturnType ==
  ASSUME calls \in Seq(Call), calls # <<>>, NEW now \in Seq(Call), Return(now)
  PROVE  calls' \in Seq(Call)
<1>1. Tail(calls) \in Seq(Call)
  BY HeadTailProperties
<1> QED BY <1>1, ConcatProperties DEF Return

\* What is on top of the stack is a call.
LEMMA TopType ==
  ASSUME TypeOK, NEW op, Running(op)
  PROVE  calls \in Seq(Call) /\ calls # <<>> /\ Top \in Call /\ Top.op = op
  BY HeadTailProperties DEF TypeOK, Running, Idle, Top

\* The call sequences the handlers push.
LEMMA HandlerCalls ==
  ASSUME TypeOK, NEW d \in Downloads
  PROVE  /\ DropSocket(d) \in Seq(Call)
         /\ \A s \in TrStates : Fail(d, s) \in Seq(Call) /\ Aftermath(d, s) \in Seq(Call)
         /\ AbortCalls(d) \in Seq(Call)
<1>0. \A o \in DownOps : Do(o, d) \in Call /\ <<Do(o, d)>> \in Seq(Call)
  BY CallTypes, FewCalls
<1>1. DropSocket(d) \in Seq(Call)
  <2>1. (IF socket[d] = "none" THEN <<>> ELSE <<Do("disconnected", d)>>) \in Seq(Call)
    BY <1>0, FewCalls DEF DownOps
  <2>2. <<Do("release", d)>> \in Seq(Call)
    BY <1>0 DEF DownOps
  <2> QED BY <2>1, <2>2, MoreCalls DEF DropSocket
<1>2. AbortCalls(d) \in Seq(Call)
  <2>1. <<Do("unenqueue", d), Do("abortRest", d)>> \in Seq(Call)
    BY <1>0, FewCalls DEF DownOps
  <2> QED BY <1>1, <2>1, MoreCalls DEF AbortCalls
<1>3. ASSUME NEW s \in TrStates
      PROVE  Fail(d, s) \in Seq(Call) /\ Aftermath(d, s) \in Seq(Call)
  <2>1. <<Do("unenqueue", d), SetState(d, s)>> \in Seq(Call)
    BY <1>0, CallTypes, FewCalls DEF DownOps
  <2>2. Fail(d, s) \in Seq(Call)
    BY <1>1, <2>1, MoreCalls DEF Fail
  <2>3. <<CheckDownloads>> \in Seq(Call) /\ <<Do("remove", d)>> \in Seq(Call) /\ <<>> \in Seq(Call)
    BY <1>0, CallTypes, FewCalls DEF DownOps
  <2>4. Aftermath(d, s) \in Seq(Call)
    BY <2>3, MoreCalls DEF Aftermath
  <2> QED BY <2>2, <2>4
<1> QED BY <1>1, <1>2, <1>3

\* A loop over the list as it is now.
LEMMA LoopType ==
  ASSUME TypeOK, NEW o \in Loops, NEW w \in SUBSET Users
  PROVE  Loop(o, w) \in Call
<1>1. Len(downloads) \in Nat
  BY LenProperties DEF TypeOK
<1> QED BY <1>1, CallTypes DEF Loop

\* What a user who is reached, who cannot be, and who is offline makes of its downloads.
LEMMA UserCalls ==
  ASSUME TypeOK, NEW x \in Users
  PROVE  ReadyCalls(x) \in Seq(Call) /\ UnavailableCalls(x) \in Seq(Call) /\ OfflineCalls(x) \in Seq(Call)
<1>1. "CannotConnect" \in TrStates
  BY DEF TrStates, FailedStates
<1>2. downloading[x] # NoDownload => downloading[x] \in Downloads
  BY DEF TypeOK
<1>3. {x} \in SUBSET Users
  OBVIOUS
<1> QED BY <1>1, <1>2, <1>3, HandlerCalls, CallTypes, FewCalls, LoopType
        DEF ReadyCalls, UnavailableCalls, OfflineCalls, Loops

\* The listing stays a map from users to downloads.
LEMMA ListedType ==
  ASSUME DownloadAssumption, TypeOK, NEW d \in Downloads, NEW s
  PROVE  Listed(d, s) \in [Users -> Downloads \union {NoDownload}]
  BY DEF DownloadAssumption, Listed, TypeOK

\* The download that gives way to another one.
LEMMA PreemptType ==
  ASSUME DownloadAssumption, TypeOK, NEW d \in Downloads
  PROVE  PreemptCalls(d) \in Seq(Call)
<1> DEFINE other == downloading[UserOf[d]]
<1>1. CASE other \in {d, NoDownload}
  BY <1>1, FewCalls DEF PreemptCalls
<1>2. CASE other \notin {d, NoDownload}
  <2>1. other \in Downloads
    BY <1>2 DEF DownloadAssumption, TypeOK
  <2>2. DropSocket(other) \in Seq(Call)
    BY <2>1, HandlerCalls
  <2>3. "QueuedRemotely" \in TrStates
    BY DEF TrStates
  <2>4. <<SetState(other, "QueuedRemotely"), Do("unenqueue", other), Do("enqueue", other)>> \in Seq(Call)
    BY <2>1, <2>3, CallTypes, FewCalls DEF DownOps
  <2> QED BY <1>2, <2>2, <2>4, MoreCalls DEF PreemptCalls
<1> QED BY <1>1, <1>2

\* The list holds downloads at its positions.
LEMMA ListElement ==
  ASSUME TypeOK, NEW j \in 1 .. Len(downloads)
  PROVE  downloads[j] \in Downloads
  BY ElementOfSeq DEF TypeOK

LEMMA FirstElement == \A S : First(S) \subseteq S
BY DEF First

\* A new download at the end of the list.
LEMMA ListGrows ==
  ASSUME downloads \in Seq(Downloads), IsInjective(downloads), NEW d \in Downloads, d \notin Known
  PROVE  Append(downloads, d) \in Seq(Downloads) /\ IsInjective(Append(downloads, d))
<1>1. \A j \in 1 .. Len(downloads) : downloads[j] \in Known
  BY DEF Known, Range
<1> QED BY <1>1, AppendProperties, LenProperties DEF IsInjective

\* A download leaves the list.
LEMMA ListShrinks ==
  ASSUME downloads \in Seq(Downloads), IsInjective(downloads), NEW k \in 1 .. Len(downloads)
  PROVE  /\ RemoveAt(downloads, k) \in Seq(Downloads) /\ IsInjective(RemoveAt(downloads, k))
         /\ Range(RemoveAt(downloads, k)) = Known \ {downloads[k]}
<1> DEFINE n == Len(downloads)
           front == SubSeq(downloads, 1, k - 1)
           back == SubSeq(downloads, k + 1, n)
           at(j) == IF j < k THEN j ELSE j + 1
<1>1. n \in Nat /\ \A j \in 1 .. n : downloads[j] \in Downloads
  BY LenProperties, ElementOfSeq
<1>2. /\ front \in Seq(Downloads) /\ Len(front) = k - 1
      /\ \A j \in 1 .. k - 1 : front[j] = downloads[j]
  BY <1>1, SubSeqProperties
<1>3. /\ back \in Seq(Downloads) /\ Len(back) = n - k
      /\ \A j \in 1 .. n - k : back[j] = downloads[k + j]
  <2>1. /\ back \in Seq(Downloads)
        /\ Len(back) = IF k + 1 <= n THEN n - (k + 1) + 1 ELSE 0
        /\ \A j \in 1 .. n - (k + 1) + 1 : back[j] = downloads[k + 1 + j - 1]
    <3>1. k + 1 \in Int /\ n \in Int /\ \A j \in k + 1 .. n : downloads[j] \in Downloads
      BY <1>1
    <3> HIDE DEF n
    <3> QED BY <3>1, SubSeqProperties
  <2> QED BY <2>1, <1>1
<1>4. /\ RemoveAt(downloads, k) \in Seq(Downloads) /\ Len(RemoveAt(downloads, k)) = n - 1
      /\ \A j \in 1 .. n - 1 : RemoveAt(downloads, k)[j] = downloads[at(j)]
  <2> HIDE DEF front, back
  <2>1. RemoveAt(downloads, k) = front \o back
    BY DEF RemoveAt, front, back
  <2>2. /\ front \o back \in Seq(Downloads)
        /\ Len(front \o back) = Len(front) + Len(back)
        /\ \A j \in 1 .. Len(front) + Len(back) :
             (front \o back)[j] = IF j <= Len(front) THEN front[j] ELSE back[j - Len(front)]
    BY <1>2, <1>3, ConcatProperties
  <2>3. Len(front) = k - 1 /\ Len(back) = n - k /\ Len(front) + Len(back) = n - 1
    BY <1>1, <1>2, <1>3
  <2>4. \A j \in 1 .. n - 1 :
          (front \o back)[j] = IF j <= k - 1 THEN front[j] ELSE back[j - (k - 1)]
    BY <2>2, <2>3
  <2>5. ASSUME NEW j \in 1 .. n - 1
        PROVE  (front \o back)[j] = downloads[at(j)]
    <3>1. CASE j < k
      <4>1. j \in 1 .. k - 1
        BY <1>1, <3>1
      <4> QED BY <1>2, <2>4, <3>1, <4>1
    <3>2. CASE ~(j < k)
      <4>1. j - (k - 1) \in 1 .. n - k /\ ~(j <= k - 1) /\ k + (j - (k - 1)) = j + 1
        BY <1>1, <3>2
      <4>2. back[j - (k - 1)] = downloads[j + 1]
        <5> DEFINE i == j - (k - 1)
        <5>1. back[i] = downloads[k + i]
          <6> HIDE DEF i
          <6> QED BY <1>3, <4>1 DEF i
        <5> QED BY <5>1, <4>1
      <4> QED BY <2>4, <3>2, <4>1, <4>2
    <3> QED BY <3>1, <3>2
  <2> QED BY <2>1, <2>2, <2>3, <2>5
<1>5. DOMAIN RemoveAt(downloads, k) = 1 .. n - 1 /\ DOMAIN downloads = 1 .. n
  BY <1>4, LenProperties
<1>6. ASSUME NEW a \in 1 .. n - 1, NEW b \in 1 .. n - 1, RemoveAt(downloads, k)[a] = RemoveAt(downloads, k)[b]
      PROVE  a = b
  <2>1. at(a) \in 1 .. n /\ at(b) \in 1 .. n
    BY <1>1
  <2>2. downloads[at(a)] = downloads[at(b)]
    BY <1>4, <1>6
  <2>3. at(a) = at(b)
    <3> HIDE DEF at
    <3> QED BY <2>1, <2>2, <1>5 DEF IsInjective
  <2> QED BY <2>3, <1>1
<1>7. ASSUME NEW a \in 1 .. n - 1
      PROVE  RemoveAt(downloads, k)[a] \in Known \ {downloads[k]}
  <2>1. at(a) \in 1 .. n /\ at(a) # k
    BY <1>1
  <2>2. downloads[at(a)] \in Known /\ downloads[at(a)] # downloads[k]
    <3> HIDE DEF at
    <3> QED BY <2>1, <1>5 DEF IsInjective, Known, Range
  <2> QED BY <1>4, <2>2
<1>8. ASSUME NEW b \in 1 .. n, b # k
      PROVE  downloads[b] \in Range(RemoveAt(downloads, k))
  <2> DEFINE a == IF b < k THEN b ELSE b - 1
  <2>1. a \in 1 .. n - 1 /\ at(a) = b
    BY <1>1, <1>8
  <2> HIDE DEF a, at
  <2>2. RemoveAt(downloads, k)[a] = downloads[b]
    BY <1>4, <2>1
  <2> QED BY <1>5, <2>1, <2>2 DEF Range
<1>9. Range(RemoveAt(downloads, k)) = Known \ {downloads[k]}
  <2>1. Range(RemoveAt(downloads, k)) \subseteq Known \ {downloads[k]}
    BY <1>5, <1>7 DEF Range
  <2>2. \A y \in Known \ {downloads[k]} : \E b \in 1 .. n : y = downloads[b] /\ b # k
    BY <1>5 DEF Known, Range
  <2> QED BY <1>8, <2>1, <2>2
<1> QED BY <1>4, <1>5, <1>6, <1>9 DEF IsInjective

-----------------------------------------------------------------------------
(* Type correctness. *)

LEMMA StateNames ==
  /\ {"Initiating", "Waiting", "Transferring", "ConnectionClosed", "CannotConnect", "RemoteError",
      "QueuedRemotely", "Offline", "Finished", "Aborted"} \subseteq TrStates
  /\ Idle <=> calls = <<>>
BY DEF TrStates, ActiveStates, FailedStates, Idle

\* A handler that changes nothing but the stack.
LEMMA OnlyCalls ==
  ASSUME TypeOK, calls' \in Seq(Call), UNCHANGED <<objects, downloading, allowUpdate, disk, world>>
  PROVE  TypeOK'
BY DEF TypeOK, objects, disk, world

\* Loading the list.
LEMMA LoadType ==
  ASSUME TypeOK, DoLoad \/ DoLoadRest \/ DoLoadState \/ DoAllow
  PROVE  TypeOK'
<1>1. CASE DoLoad
  <2>1. (IF hasFile THEN <<LoadRest(saved)>> ELSE <<>>) \in Seq(Call)
    BY CallTypes, FewCalls DEF TypeOK
  <2>2. calls' \in Seq(Call)
    BY <1>1, <2>1, TopType, ReturnType DEF DoLoad
  <2> QED BY <1>1, <2>2 DEF DoLoad, TypeOK, objects, disk, world
<1>2. CASE DoLoadRest
  <2> DEFINE rest == Top.list
  <2>1. rest \in Seq(Entries)
    BY <1>2, TopType, CallFields DEF DoLoadRest
  <2>2. CASE rest = <<>>
    <3>1. Return(<<Allow>>) /\ <<Allow>> \in Seq(Call)
      BY <1>2, <2>2, CallTypes, FewCalls DEF DoLoadRest
    <3> QED BY <1>2, <3>1, TopType, ReturnType, OnlyCalls DEF DoLoadRest
  <2>3. CASE rest # <<>>
    <3> DEFINE now == <<Do("add", Head(rest).download), [op |-> "loadState", entry |-> Head(rest)], LoadRest(Tail(rest))>>
    <3>1. Head(rest) \in Entries /\ Tail(rest) \in Seq(Entries)
      <4> HIDE DEF rest
      <4> QED BY <2>1, <2>3, HeadTailProperties
    <3>2. Head(rest).download \in Downloads
      BY <3>1 DEF Entries
    <3>3. now \in Seq(Call)
      <4> HIDE DEF rest
      <4> QED BY <3>1, <3>2, CallTypes, FewCalls DEF DownOps
    <3>4. Return(now)
      BY <1>2, <2>3 DEF DoLoadRest
    <3> HIDE DEF now
    <3> QED BY <1>2, <3>3, <3>4, TopType, ReturnType, OnlyCalls DEF DoLoadRest
  <2> QED BY <2>2, <2>3
<1>3. CASE DoLoadState
  <2> DEFINE d == Top.entry.download
             s == IF Top.entry.aborted THEN "Aborted" ELSE "Offline"
  <2>1. d \in Downloads /\ s \in TrStates
    BY <1>3, TopType, CallFields, StateNames DEF DoLoadState, Entries
  <2>2. (IF d \in Known THEN <<SetState(d, s), Do("touch", d)>> ELSE <<>>) \in Seq(Call)
    <3> HIDE DEF d, s
    <3> QED BY <2>1, CallTypes, FewCalls DEF DownOps
  <2> QED BY <1>3, <2>2, TopType, ReturnType, OnlyCalls DEF DoLoadState
<1>4. CASE DoAllow
  <2>1. calls' \in Seq(Call)
    BY <1>4, TopType, ReturnType, CallTypes, FewCalls DEF DoAllow
  <2> QED BY <1>4, <2>1 DEF DoAllow, TypeOK, objects, disk, world
<1> QED BY <1>1, <1>2, <1>3, <1>4

\* setState, setSocket and the setters.
LEMMA SetterType ==
  ASSUME DownloadAssumption, TypeOK,
         DoSetState \/ DoDisconnected \/ DoRelease \/ DoClosed \/ DoEnqueue \/ DoTouch
  PROVE  TypeOK'
<1>1. CASE DoSetState
  <2>1. Top.down \in Downloads /\ Top.st \in TrStates
    BY <1>1, TopType, CallFields DEF DoSetState
  <2>2. calls' \in Seq(Call)
    BY <1>1, <2>1, TopType, ReturnType, HandlerCalls DEF DoSetState
  <2>3. downloading' \in [Users -> Downloads \union {NoDownload}]
    BY <1>1, <2>1, ListedType DEF DoSetState
  <2>4. complete' \in [Downloads -> BOOLEAN]
    <3>1. complete' = [complete EXCEPT ![Top.down] = complete[Top.down] \/ Top.st = "Finished"]
      BY <1>1 DEF DoSetState
    <3> QED BY <2>1, <3>1 DEF TypeOK
  <2>5. retryTimer' \in [Downloads -> BOOLEAN]
    <3>1. retryTimer' = [retryTimer EXCEPT ![Top.down] = retryTimer[Top.down] \/
            (Top.st \in FailedStates /\ Top.st # state[Top.down] /\ config.options.autoRetry)]
      BY <1>1 DEF DoSetState
    <3> QED BY <2>1, <3>1 DEF TypeOK
  <2>6. state' \in [Downloads -> TrStates]
    BY <1>1, <2>1 DEF DoSetState, TypeOK
  <2> QED BY <1>1, <2>2, <2>3, <2>4, <2>5, <2>6 DEF DoSetState, TypeOK, disk, world
<1>2. CASE DoDisconnected
  <2>1. Top.down \in Downloads
    BY <1>2, TopType, CallFields DEF DoDisconnected, DownOps
  <2>2. SetState(Top.down, IF complete[Top.down] THEN "Finished" ELSE "ConnectionClosed") \in Call
    BY <2>1, CallTypes, StateNames
  <2> QED BY <1>2, <2>2, FewCalls, TopType, ReturnType, OnlyCalls DEF DoDisconnected
<1>3. CASE DoRelease
  <2>1. Top.down \in Downloads
    BY <1>3, TopType, CallFields DEF DoRelease, DownOps
  <2>2. calls' \in Seq(Call)
    BY <1>3, FewCalls, TopType, ReturnType DEF DoRelease
  <2>3. socket' \in [Downloads -> {"none", "wait", "up"}] /\ initTimers' \in [Downloads -> SUBSET {"tracked", "earlier"}]
    BY <1>3, <2>1 DEF DoRelease, TypeOK
  <2> QED BY <1>3, <2>2, <2>3 DEF DoRelease, TypeOK, disk, world
<1>4. CASE DoClosed
  <2>1. Top.down \in Downloads
    BY <1>4, TopType, CallFields DEF DoClosed, DownOps
  <2>2. calls' \in Seq(Call)
    BY <1>4, FewCalls, TopType, ReturnType DEF DoClosed
  <2>3. socket' \in [Downloads -> {"none", "wait", "up"}] /\ downloading' \in [Users -> Downloads \union {NoDownload}]
    BY <1>4, <2>1 DEF DoClosed, TypeOK
  <2> QED BY <1>4, <2>2, <2>3 DEF DoClosed, TypeOK, disk, world
<1>5. CASE DoEnqueue
  <2>1. calls' \in Seq(Call)
    BY <1>5, FewCalls, TopType, ReturnType DEF DoEnqueue
  <2>2. enqueued' \in [Downloads -> BOOLEAN]
    BY <1>5 DEF DoEnqueue, TypeOK
  <2> QED BY <1>5, <2>1, <2>2 DEF DoEnqueue, TypeOK, disk, world
<1>6. CASE DoTouch
  <2>1. Top.down \in Downloads
    BY <1>6, TopType, CallFields DEF DoTouch, DownOps
  <2>2. calls' \in Seq(Call)
    BY <1>6, FewCalls, TopType, ReturnType DEF DoTouch
  <2>3. downloading' \in [Users -> Downloads \union {NoDownload}]
    BY <1>6, <2>1, ListedType DEF DoTouch, TypeOK
  <2>4. complete' \in [Downloads -> BOOLEAN]
    BY <1>6, <2>1 DEF DoTouch, TypeOK
  <2> QED BY <1>6, <2>2, <2>3, <2>4 DEF DoTouch, TypeOK, disk, world
<1> QED BY <1>1, <1>2, <1>3, <1>4, <1>5, <1>6

\* checkDownloads and the peer sockets.
LEMMA CheckType ==
  ASSUME DownloadAssumption, TypeOK, DoCheckDownloads \/ DoPeerSocket \/ DoStart
  PROVE  TypeOK'
<1>1. CASE DoCheckDownloads
  <2> DEFINE wanted == {j \in Top.i .. Len(downloads) : Wanted(downloads[j])}
  <2>1. Top.i \in Nat \ {0}
    BY <1>1, TopType, CallFields DEF DoCheckDownloads
  <2>2. ASSUME NEW j \in First(wanted)
        PROVE  AskAndGoOn(j) \in Seq(Call)
    <3>1. j \in Nat \ {0} /\ j \in 1 .. Len(downloads)
      <4>1. j \in Top.i .. Len(downloads) /\ Len(downloads) \in Nat
        BY FirstElement, LenProperties DEF TypeOK
      <4> QED BY <2>1, <4>1
    <3>2. UserOf[downloads[j]] \in Users
      BY <3>1, ListElement DEF DownloadAssumption
    <3> QED BY <3>1, <3>2, CallTypes, FewCalls DEF AskAndGoOn
  <2>3. calls' \in Seq(Call)
    <3>1. CASE Return(<<>>)
      BY <1>1, <3>1, FewCalls, TopType, ReturnType DEF DoCheckDownloads
    <3>2. CASE \E j \in First(wanted) : Return(AskAndGoOn(j))
      BY <1>1, <2>2, <3>2, TopType, ReturnType DEF DoCheckDownloads
    <3> QED BY <1>1, <3>1, <3>2 DEF DoCheckDownloads
  <2>4. hasFile' \in BOOLEAN /\ saved' \in Seq(Entries) /\ unsaved' \in BOOLEAN
    <3>1. UNCHANGED <<hasFile, saved, unsaved>> \/ Save(downloads)
      BY <1>1 DEF DoCheckDownloads
    <3> QED BY <3>1, SaveType DEF TypeOK
  <2> QED BY <1>1, <2>3, <2>4 DEF DoCheckDownloads, TypeOK, objects, world
<1>2. CASE DoPeerSocket
  <2>1. Top.user \in Users
    BY <1>2, TopType, CallFields DEF DoPeerSocket
  <2>2. ReadyCalls(Top.user) \in Seq(Call) /\ OfflineCalls(Top.user) \in Seq(Call) /\ <<>> \in Seq(Call)
    BY <2>1, UserCalls, FewCalls
  <2>3. calls' \in Seq(Call)
    BY <1>2, <2>2, TopType, ReturnType DEF DoPeerSocket
  <2>4. peer' \in [Users -> PeerStates]
    BY <1>2 DEF DoPeerSocket, TypeOK, PeerStates
  <2> QED BY <1>2, <2>3, <2>4 DEF DoPeerSocket, TypeOK, objects, disk
<1>3. CASE DoStart
  <2>1. Top.user \in Users
    BY <1>3, TopType, CallFields DEF DoStart
  <2>2. calls' \in Seq(Call)
    BY <1>3, FewCalls, TopType, ReturnType DEF DoStart
  <2>3. Initiated(Top.user) \subseteq Downloads
    BY ListElement, FirstElement DEF Initiated
  <2>4. state' \in [Downloads -> TrStates]
    BY <1>3, StateNames DEF DoStart, TypeOK
  <2>5. initTimers' \in [Downloads -> SUBSET {"tracked", "earlier"}]
    BY <1>3 DEF DoStart, TypeOK, Arm
  <2>6. enqueued' \in [Downloads -> BOOLEAN]
    <3>1. enqueued' = [d \in Downloads |-> enqueued[d] \/ (d \in OfUser(Top.user) /\ WantedQueued(d))]
      BY <1>3 DEF DoStart
    <3>2. \A d \in Downloads : (d \in OfUser(Top.user) /\ WantedQueued(d)) \in BOOLEAN
      OBVIOUS
    <3> QED BY <3>1, <3>2 DEF TypeOK
  <2>7. downloading' \in [Users -> Downloads \union {NoDownload}]
    BY <1>3, <2>3 DEF DoStart, TypeOK
  <2> QED BY <1>3, <2>2, <2>4, <2>5, <2>6, <2>7 DEF DoStart, TypeOK, disk, world
<1> QED BY <1>1, <1>2, <1>3

\* The loops over the list.
LEMMA LoopStepType ==
  ASSUME DownloadAssumption, TypeOK, DoLoop
  PROVE  TypeOK'
<1> DEFINE last == IF Top.end < Len(downloads) THEN Top.end ELSE Len(downloads)
           hits == {j \in Top.i .. last : Selected(Top.over, Top.who, downloads[j])}
           now(j) == Append(IterationCalls(Top.over, downloads[j]), LoopFrom(Top.over, Top.who, j + 1, Top.end))
<1>1. Top.over \in Loops /\ Top.who \in SUBSET Users /\ Top.i \in Nat \ {0} /\ Top.end \in Nat
  BY TopType, CallFields DEF DoLoop
<1>2. ASSUME NEW j \in First(hits)
      PROVE  now(j) \in Seq(Call)
  <2>1. j \in Nat \ {0} /\ j \in 1 .. Len(downloads)
    <3>1. j \in Top.i .. last /\ Len(downloads) \in Nat
      BY FirstElement, LenProperties DEF TypeOK
    <3> QED BY <1>1, <3>1
  <2>2. downloads[j] \in Downloads
    BY <2>1, ListElement
  <2>3. LoopFrom(Top.over, Top.who, j + 1, Top.end) \in Call
    BY <1>1, <2>1, CallTypes
  <2>4. /\ SetState(downloads[j], "QueuedRemotely") \in Call /\ SetState(downloads[j], "Offline") \in Call
        /\ Do("unenqueue", downloads[j]) \in Call
    BY <2>2, CallTypes, StateNames DEF DownOps
  <2>5. IterationCalls(Top.over, downloads[j]) \in Seq(Call)
    BY <1>1, <2>4, FewCalls DEF IterationCalls, Loops
  <2> QED BY <2>3, <2>5, OneMoreCall
<1>3. calls' \in Seq(Call)
  <2>1. Return(<<>>) \/ \E j \in First(hits) : Return(now(j))
    BY DEF DoLoop
  <2> HIDE DEF now, hits
  <2> QED BY <1>2, <2>1, FewCalls, TopType, ReturnType DEF DoLoop
<1>4. enqueued' \in [Downloads -> BOOLEAN]
  <2>1. \E S : enqueued' = [d \in Downloads |-> enqueued[d] /\ d \notin S]
    BY DEF DoLoop
  <2> QED BY <2>1 DEF TypeOK
<1> QED BY <1>3, <1>4 DEF DoLoop, TypeOK, disk, world

\* add, abort and remove.
LEMMA AddType ==
  ASSUME DownloadAssumption, TypeOK, DoAdd \/ DoAddRest \/ DoAbortRest \/ DoRemove \/ DoErase
  PROVE  TypeOK'
<1>1. CASE DoAdd
  <2> DEFINE d == Top.down
             isNew == ~Found(d)
             ignored == ~isNew /\ (state[d] = "Offline" \/ ~loggedIn)
             active == state[d] \in ActiveStates
  <2>1. d \in Downloads
    BY <1>1, TopType, CallFields DEF DoAdd, DownOps
  <2>2. <<SetState(d, "QueuedRemotely"), Do("addRest", d)>> \in Seq(Call)
    BY <2>1, CallTypes, FewCalls, StateNames DEF DownOps
  <2>3. calls' \in Seq(Call)
    BY <1>1, <2>2, FewCalls, TopType, ReturnType DEF DoAdd
  <2>4. CASE UNCHANGED objects
    BY <1>1, <2>3, <2>4, OnlyCalls DEF DoAdd
  <2>5. CASE ~ignored /\ (isNew \/ ~active)
             /\ downloads' = (IF isNew THEN Append(downloads, d) ELSE downloads)
             /\ state' = (IF isNew THEN [state EXCEPT ![d] = "Offline"] ELSE state)
             /\ socket' = (IF isNew THEN [socket EXCEPT ![d] = "none"] ELSE socket)
             /\ complete' = (IF isNew THEN [complete EXCEPT ![d] = TRUE] ELSE complete)
             /\ enqueued' = [enqueued EXCEPT ![d] = FALSE]
             /\ UNCHANGED <<initTimers, retryTimer>>
    <3>1. downloads' \in Seq(Downloads) /\ IsInjective(downloads')
      BY <2>1, <2>5, ListGrows DEF Found, TypeOK
    <3>2. state' \in [Downloads -> TrStates]
      BY <2>5, StateNames DEF TypeOK
    <3>3. socket' \in [Downloads -> {"none", "wait", "up"}]
      BY <2>5 DEF TypeOK
    <3>4. complete' \in [Downloads -> BOOLEAN] /\ enqueued' \in [Downloads -> BOOLEAN]
      BY <2>5 DEF TypeOK
    <3> HIDE DEF d, isNew, ignored, active
    <3> QED BY <1>1, <2>3, <2>5, <3>1, <3>2, <3>3, <3>4 DEF DoAdd, TypeOK, disk, world
  <2> QED BY <1>1, <2>4, <2>5 DEF DoAdd
<1>2. CASE DoAddRest
  <2>1. Top.down \in Downloads
    BY <1>2, TopType, CallFields DEF DoAddRest, DownOps
  <2>2. (IF atDest[Top.down] THEN <<SetState(Top.down, "Finished")>> ELSE <<>>) \in Seq(Call)
        /\ <<CheckDownloads>> \in Seq(Call)
    BY <2>1, CallTypes, FewCalls, StateNames
  <2>3. calls' \in Seq(Call)
    BY <1>2, <2>2, MoreCalls, TopType, ReturnType DEF DoAddRest
  <2>4. complete' \in [Downloads -> BOOLEAN]
    BY <1>2, <2>1 DEF DoAddRest, TypeOK
  <2>5. downloading' \in [Users -> Downloads \union {NoDownload}]
    BY <1>2, <2>1, ListedType DEF DoAddRest
  <2> QED BY <1>2, <2>3, <2>4, <2>5 DEF DoAddRest, TypeOK, disk, world
<1>3. CASE DoAbortRest
  <2>1. Top.down \in Downloads
    BY <1>3, TopType, CallFields DEF DoAbortRest, DownOps
  <2>2. (IF state[Top.down] = "Finished" THEN <<>> ELSE <<SetState(Top.down, "Aborted")>>) \in Seq(Call)
    BY <2>1, CallTypes, FewCalls, StateNames
  <2> QED BY <1>3, <2>2, TopType, ReturnType, OnlyCalls DEF DoAbortRest
<1>4. CASE DoRemove
  <2>1. Top.down \in Downloads
    BY <1>4, TopType, CallFields DEF DoRemove, DownOps
  <2>2. Append(AbortCalls(Top.down), Do("erase", Top.down)) \in Seq(Call)
    BY <2>1, HandlerCalls, CallTypes, OneMoreCall DEF DownOps
  <2> QED BY <1>4, <2>2, FewCalls, TopType, ReturnType, OnlyCalls DEF DoRemove
<1>5. CASE DoErase
  <2>1. Top.down \in Downloads
    BY <1>5, TopType, CallFields DEF DoErase, DownOps
  <2>2. calls' \in Seq(Call)
    BY <1>5, FewCalls, TopType, ReturnType DEF DoErase
  <2>3. downloads' \in Seq(Downloads) /\ IsInjective(downloads')
    BY <1>5, ListShrinks DEF DoErase, TypeOK
  <2>4. initTimers' \in [Downloads -> SUBSET {"tracked", "earlier"}] /\ retryTimer' \in [Downloads -> BOOLEAN]
    BY <1>5 DEF DoErase, TypeOK
  <2>5. hasFile' \in BOOLEAN /\ saved' \in Seq(Entries) /\ unsaved' \in BOOLEAN
    BY <1>5, <2>3, SaveType DEF DoErase, TypeOK
  <2> QED BY <1>5, <2>2, <2>3, <2>4, <2>5 DEF DoErase, TypeOK, world
<1> QED BY <1>1, <1>2, <1>3, <1>4, <1>5

\* The answers to an offered transfer, and the end of a finished one.
LEMMA OfferType ==
  ASSUME DownloadAssumption, TypeOK, DoOfferRest \/ DoPushRest \/ DoAccept \/ DoAttach \/ DoRename
  PROVE  TypeOK'
<1>1. CASE DoOfferRest
  <2>1. Top.down \in Downloads
    BY <1>1, TopType, CallFields DEF DoOfferRest, DownOps
  <2>2. Append(PreemptCalls(Top.down), Do("accept", Top.down)) \in Seq(Call)
    BY <2>1, PreemptType, CallTypes, OneMoreCall DEF DownOps
  <2> QED BY <1>1, <2>2, FewCalls, TopType, ReturnType, OnlyCalls DEF DoOfferRest
<1>2. CASE DoPushRest
  <2>1. Top.down \in Downloads
    BY <1>2, TopType, CallFields DEF DoPushRest, DownOps
  <2>2. <<Do("accept", Top.down)>> \in Seq(Call)
    BY <2>1, CallTypes, FewCalls DEF DownOps
  <2> QED BY <1>2, <2>2, FewCalls, TopType, ReturnType, OnlyCalls DEF DoPushRest
<1>3. CASE DoAccept
  <2>1. Top.down \in Downloads
    BY <1>3, TopType, CallFields DEF DoAccept, DownOps
  <2>2. (IF socket[Top.down] = "none" THEN <<>> ELSE <<Do("disconnected", Top.down)>>) \in Seq(Call)
        /\ <<Do("attach", Top.down)>> \in Seq(Call)
    BY <2>1, CallTypes, FewCalls DEF DownOps
  <2>3. calls' \in Seq(Call)
    BY <1>3, <2>2, MoreCalls, TopType, ReturnType DEF DoAccept
  <2>4. complete' \in [Downloads -> BOOLEAN]
    BY <1>3, <2>1 DEF DoAccept, TypeOK
  <2>5. downloading' \in [Users -> Downloads \union {NoDownload}]
    BY <1>3, <2>1, ListedType DEF DoAccept
  <2> QED BY <1>3, <2>3, <2>4, <2>5 DEF DoAccept, TypeOK, disk, world
<1>4. CASE DoAttach
  <2>1. Top.down \in Downloads
    BY <1>4, TopType, CallFields DEF DoAttach, DownOps
  <2>2. <<SetState(Top.down, "Waiting")>> \in Seq(Call)
    BY <2>1, CallTypes, FewCalls, StateNames
  <2>3. calls' \in Seq(Call)
    BY <1>4, <2>2, FewCalls, TopType, ReturnType DEF DoAttach
  <2>4. socket' \in [Downloads -> {"none", "wait", "up"}] /\ initTimers' \in [Downloads -> SUBSET {"tracked", "earlier"}]
    <3>1. socket' = [socket EXCEPT ![Top.down] = "wait"] \/ socket' = socket
      BY <1>4 DEF DoAttach
    <3>2. initTimers' = [initTimers EXCEPT ![Top.down] = initTimers[Top.down] \ {"tracked"}] \/ initTimers' = initTimers
      BY <1>4 DEF DoAttach
    <3>3. socket' \in [Downloads -> {"none", "wait", "up"}]
      BY <3>1 DEF TypeOK
    <3>4. initTimers[Top.down] \ {"tracked"} \in SUBSET {"tracked", "earlier"}
      <4>1. initTimers[Top.down] \in SUBSET {"tracked", "earlier"}
        BY <2>1 DEF TypeOK
      <4> QED BY <4>1
    <3>5. initTimers' \in [Downloads -> SUBSET {"tracked", "earlier"}]
      <4> DEFINE left == initTimers[Top.down] \ {"tracked"}
                 some == SUBSET {"tracked", "earlier"}
      <4>1. initTimers \in [Downloads -> some] /\ left \in some
        BY <3>4 DEF TypeOK
      <4>2. initTimers' = [initTimers EXCEPT ![Top.down] = left] \/ initTimers' = initTimers
        BY <3>2
      <4> HIDE DEF left, some
      <4>3. initTimers' \in [Downloads -> some]
        BY <4>1, <4>2
      <4> QED BY <4>3 DEF some
    <3> QED BY <3>3, <3>5
  <2> QED BY <1>4, <2>3, <2>4 DEF DoAttach, TypeOK, disk, world
<1>5. CASE DoRename
  <2>1. calls' \in Seq(Call)
    BY <1>5, FewCalls, TopType, ReturnType DEF DoRename
  <2>2. atDest' \in [Downloads -> BOOLEAN] /\ whole' \in [Downloads -> BOOLEAN]
    BY <1>5 DEF DoRename, TypeOK
  <2> QED BY <1>5, <2>1, <2>2 DEF DoRename, TypeOK, objects, world
<1> QED BY <1>1, <1>2, <1>3, <1>4, <1>5

\* Every step of a handler keeps the types.
LEMMA StepType ==
  ASSUME DownloadAssumption, TypeOK, Step
  PROVE  TypeOK'
BY LoadType, SetterType, CheckType, LoopStepType, AddType, OfferType DEF Step

\* Every event about a download keeps the types.
LEMMA DownloadEventType ==
  ASSUME DownloadAssumption, TypeOK, NEW d \in Downloads, DownloadEvent(d)
  PROVE  TypeOK'
<1>a. UserOf[d] \in Users
  BY DEF DownloadAssumption
<1>b. \A o \in DownOps : Do(o, d) \in Call
  BY CallTypes
<1>c. \A s \in TrStates : SetState(d, s) \in Call
  BY CallTypes
<1>1. CASE AddDownload(d)
  BY <1>1, <1>b, FewCalls, OnlyCalls DEF AddDownload, Event, DownOps
<1>2. CASE AbortDownload(d)
  BY <1>2, HandlerCalls, OnlyCalls DEF AbortDownload, Event
<1>3. CASE RemoveDownload(d)
  BY <1>3, <1>b, FewCalls, OnlyCalls DEF RemoveDownload, Event, DownOps
<1>4. CASE UpdateDownload(d)
  <2>1. <<PeerSocket(UserOf[d]), Do("touch", d)>> \in Seq(Call)
    BY <1>a, <1>b, CallTypes, FewCalls DEF DownOps
  <2> QED BY <1>4, <2>1, OnlyCalls DEF UpdateDownload, Event
<1>5. CASE FolderContents(d)
  <2>1. <<Do("add", d), Do("touch", d), Allow>> \in Seq(Call)
    BY <1>b, CallTypes, FewCalls DEF DownOps
  <2>2. calls' \in Seq(Call)
    BY <1>5, <2>1 DEF FolderContents, Event
  <2> QED BY <1>5, <2>2 DEF FolderContents, TypeOK, objects, disk, world
<1>6. CASE OfferReceived(d)
  <2>1. (IF atDest[d] THEN <<SetState(d, "Finished")>> ELSE <<>>) \in Seq(Call) /\ <<Do("offerRest", d)>> \in Seq(Call)
    BY <1>b, <1>c, FewCalls, StateNames DEF DownOps
  <2>2. calls' \in Seq(Call)
    BY <1>6, <2>1, MoreCalls DEF OfferReceived, Event
  <2> QED BY <1>6, <2>2, OnlyCalls DEF OfferReceived
<1>7. CASE PushReceived(d)
  <2>1. <<Do("add", d), Do("touch", d), Do("pushRest", d)>> \in Seq(Call)
    BY <1>b, FewCalls DEF DownOps
  <2>2. calls' \in Seq(Call)
    BY <1>7, <2>1, PreemptType, MoreCalls DEF PushReceived, Event
  <2> QED BY <1>7, <2>2, OnlyCalls DEF PushReceived
<1>8. CASE RefusalReceived(d)
  BY <1>8, HandlerCalls, StateNames, OnlyCalls DEF RefusalReceived, Event
<1>9. CASE TicketReceived(d)
  <2>1. /\ <<SetState(d, "Transferring")>> \in Seq(Call)
        /\ <<Do("disconnected", d), SetState(d, "Transferring"), Do("closed", d)>> \in Seq(Call)
    BY <1>b, <1>c, FewCalls, StateNames DEF DownOps
  <2>2. calls' \in Seq(Call)
    BY <1>9, <2>1 DEF TicketReceived, Event
  <2>3. socket' \in [Downloads -> {"none", "wait", "up"}]
    BY <1>9 DEF TicketReceived, TypeOK
  <2>4. complete' \in [Downloads -> BOOLEAN]
    BY <1>9 DEF TicketReceived, TypeOK
  <2> QED BY <1>9, <2>2, <2>3, <2>4 DEF TicketReceived, TypeOK, disk, world
<1>10. CASE DataReceived(d)
  <2>1. /\ <<Do("touch", d)>> \in Seq(Call)
        /\ <<SetState(d, "Finished"), Do("rename", d), Do("disconnected", d), Do("closed", d)>> \in Seq(Call)
        /\ <<Do("disconnected", d), Do("closed", d)>> \in Seq(Call)
    BY <1>b, <1>c, FewCalls, StateNames DEF DownOps
  <2>2. calls' \in Seq(Call)
    BY <1>10, <2>1 DEF DataReceived, Event
  <2>3. complete' \in [Downloads -> BOOLEAN] /\ whole' \in [Downloads -> BOOLEAN]
    BY <1>10 DEF DataReceived, TypeOK
  <2> QED BY <1>10, <2>2, <2>3 DEF DataReceived, TypeOK, world
<1>11. CASE SocketLost(d)
  BY <1>11, <1>b, FewCalls, OnlyCalls DEF SocketLost, Event, DownOps
<1>12. ASSUME NEW timer \in {"tracked", "earlier"}, InitTimedOut(d, timer)
       PROVE  TypeOK'
  <2>1. <<SetState(d, "QueuedRemotely")>> \in Seq(Call) /\ <<>> \in Seq(Call)
    BY <1>c, FewCalls, StateNames
  <2>2. calls' \in Seq(Call)
    BY <1>12, <2>1 DEF InitTimedOut, Event
  <2>3. initTimers' \in [Downloads -> SUBSET {"tracked", "earlier"}]
    <3>1. initTimers' = [initTimers EXCEPT ![d] = initTimers[d] \ {timer}]
      BY <1>12 DEF InitTimedOut
    <3> QED BY <3>1 DEF TypeOK
  <2> QED BY <1>12, <2>2, <2>3 DEF InitTimedOut, TypeOK, disk, world
<1>13. CASE Retry(d)
  <2>1. calls' \in Seq(Call)
    BY <1>13, <1>b, FewCalls DEF Retry, Event, DownOps
  <2>2. retryTimer' \in [Downloads -> BOOLEAN]
    BY <1>13 DEF Retry, TypeOK
  <2> QED BY <1>13, <2>1, <2>2 DEF Retry, TypeOK, disk, world
<1> QED BY <1>1, <1>2, <1>3, <1>4, <1>5, <1>6, <1>7, <1>8, <1>9, <1>10, <1>11, <1>12, <1>13 DEF DownloadEvent

\* Every event about a user keeps the types.
LEMMA UserEventType ==
  ASSUME DownloadAssumption, TypeOK, NEW x \in Users, UserEvent(x)
  PROVE  TypeOK'
<1>1. CASE AddFolder(x)
  BY <1>1, CallTypes, FewCalls, OnlyCalls DEF AddFolder, Event
<1>2. CASE PeerReady(x)
  <2>1. calls' \in Seq(Call) /\ peer' \in [Users -> PeerStates]
    BY <1>2, UserCalls DEF PeerReady, Event, TypeOK, PeerStates
  <2> QED BY <1>2, <2>1 DEF PeerReady, TypeOK, objects, disk
<1>3. CASE PeerConnecting(x)
  <2>1. calls' \in Seq(Call) /\ peer' \in [Users -> PeerStates]
    BY <1>3, FewCalls DEF PeerConnecting, Event, TypeOK, PeerStates
  <2> QED BY <1>3, <2>1 DEF PeerConnecting, TypeOK, objects, disk
<1>4. CASE PeerUnavailable(x)
  <2>1. calls' \in Seq(Call)
    BY <1>4, UserCalls DEF PeerUnavailable, Event
  <2>2. peer' \in [Users -> PeerStates]
    BY <1>4 DEF PeerUnavailable, TypeOK, PeerStates
  <2> QED BY <1>4, <2>1, <2>2 DEF PeerUnavailable, TypeOK, objects, disk
<1>5. CASE PeerOffline(x)
  BY <1>5, UserCalls, OnlyCalls DEF PeerOffline, Event
<1>6. CASE PeerLost(x)
  <2>1. calls' \in Seq(Call) /\ peer' \in [Users -> PeerStates]
    BY <1>6, FewCalls DEF PeerLost, Event, TypeOK, PeerStates
  <2> QED BY <1>6, <2>1 DEF PeerLost, TypeOK, objects, disk
<1> QED BY <1>1, <1>2, <1>3, <1>4, <1>5, <1>6 DEF UserEvent

\* So does a process that starts again, with the list on disk as it is or saved last.
LEMMA RestartType ==
  ASSUME TypeOK, Restart, hasFile' \in BOOLEAN, saved' \in Seq(Entries), unsaved' \in BOOLEAN
  PROVE  TypeOK'
<1>1. calls' \in Seq(Call)
  BY CallTypes, FewCalls DEF Restart
<1>2. downloads' \in Seq(Downloads) /\ IsInjective(downloads')
  BY DEF Restart, IsInjective
<1>3. /\ state' \in [Downloads -> TrStates] /\ enqueued' \in [Downloads -> BOOLEAN]
      /\ socket' \in [Downloads -> {"none", "wait", "up"}] /\ complete' \in [Downloads -> BOOLEAN]
      /\ initTimers' \in [Downloads -> SUBSET {"tracked", "earlier"}] /\ retryTimer' \in [Downloads -> BOOLEAN]
  BY StateNames DEF Restart, Never
<1> QED BY <1>1, <1>2, <1>3 DEF Restart, TypeOK, PeerStates

LEMMA GlobalEventType ==
  ASSUME DownloadAssumption, TypeOK, GlobalEvent
  PROVE  TypeOK'
<1>1. CASE LoggedIn
  BY <1>1, CallTypes, FewCalls DEF LoggedIn, Event, TypeOK, objects, disk
<1>2. CASE LoggedOut
  <2>1. Users \in SUBSET Users
    OBVIOUS
  <2>2. calls' \in Seq(Call)
    BY <1>2, <2>1, LoopType, FewCalls DEF LoggedOut, Event, Loops
  <2> QED BY <1>2, <2>2 DEF LoggedOut, TypeOK, objects, disk
<1>3. ASSUME NEW n \in Slots, SetSlots(n)
      PROVE  TypeOK'
  <2>1. calls' \in Seq(Call)
    BY <1>3, CallTypes, FewCalls DEF SetSlots, Event
  <2> QED BY <1>3, <2>1 DEF SetSlots, TypeOK, objects, disk
<1>4. CASE Shutdown
  <2>1. hasFile' \in BOOLEAN /\ saved' \in Seq(Entries) /\ unsaved' \in BOOLEAN
    BY <1>4, SaveType DEF Shutdown, TypeOK
  <2> QED BY <1>4, <2>1, RestartType DEF Shutdown
<1>5. CASE Crash
  BY <1>5, RestartType DEF Crash, TypeOK
<1> QED BY <1>1, <1>2, <1>3, <1>4, <1>5 DEF GlobalEvent

LEMMA InitType == ASSUME DownloadAssumption, Init PROVE TypeOK
<1>1. calls \in Seq(Call)
  BY CallTypes, FewCalls DEF Init
<1>2. downloads \in Seq(Downloads) /\ IsInjective(downloads)
  BY DEF Init, IsInjective
<1>3. /\ state \in [Downloads -> TrStates] /\ enqueued \in [Downloads -> BOOLEAN]
      /\ socket \in [Downloads -> {"none", "wait", "up"}] /\ complete \in [Downloads -> BOOLEAN]
      /\ initTimers \in [Downloads -> SUBSET {"tracked", "earlier"}] /\ retryTimer \in [Downloads -> BOOLEAN]
  BY StateNames DEF Init, Never
<1>4. hasFile \in BOOLEAN /\ saved \in Seq(Entries) /\ unsaved \in BOOLEAN
  <2>1. unsaved = FALSE /\ saved = <<>> /\ hasFile \in Lists
    BY DEF Init
  <2>2. hasFile \in BOOLEAN /\ unsaved \in BOOLEAN
    BY <2>1 DEF DownloadAssumption
  <2>3. saved \in Seq(Entries)
    BY <2>1
  <2> QED BY <2>2, <2>3
<1>5. whole \in [Downloads -> BOOLEAN] /\ atDest \in [Downloads -> BOOLEAN]
  BY DEF Init, Never
<1> QED BY <1>1, <1>2, <1>3, <1>4, <1>5 DEF Init, TypeOK, PeerStates

LEMMA NextType ==
  ASSUME TypeOK, [Next]_vars
  PROVE  TypeOK'
<1>1. CASE Next
  BY <1>1, DownloadAssumption, StepType, DownloadEventType, UserEventType, GlobalEventType DEF Next
<1>2. CASE UNCHANGED vars
  BY <1>2 DEF TypeOK, vars, objects, disk, world
<1> QED BY <1>1, <1>2

\* Every reachable state is well typed: among others, m_Downloads holds at most one
\* download of a user and path, and what is saved can be loaded.
THEOREM TypeCorrect == Spec => []TypeOK
<1>1. Init => TypeOK
  BY DownloadAssumption, InitType
<1>2. TypeOK /\ [Next]_vars => TypeOK'
  BY NextType
<1> QED BY <1>1, <1>2, PTL DEF Spec

-----------------------------------------------------------------------------
(* A download that is left Initiating has a timeout pending. A handler may     *)
(* remove the timeout while the download is Initiating, as setSocket(0) does:  *)
(* the invariant says that the call that ends the initiation is then still to  *)
(* run.                                                                        *)

\* The call takes d out of Initiating: setState with another state, or the end of abort.
Ends(c, d) == c.op \in {"setState", "abortRest"} /\ c.down = d

Pending(list, d) == \E k \in 1 .. Len(list) : Ends(list[k], d)

\* Calls that neither remove a tracked timer nor make a download Initiating.
PlainCall == {c \in Call : c.op # "release" /\ (c.op = "setState" => c.st # "Initiating")}

\* No call of the list makes a download Initiating, and each that removes a tracked timer
\* has one behind it that ends the initiation.
Timed(list) ==
  \A k \in 1 .. Len(list) :
    /\ list[k].op = "setState" => list[k].st # "Initiating"
    /\ list[k].op = "release" => \E j \in k + 1 .. Len(list) : Ends(list[j], list[k].down)

TimedCalls == {list \in Seq(Call) : Timed(list)}

InitiationTimed ==
  \A d \in Known : state[d] = "Initiating" /\ initTimers[d] = {} => Pending(calls, d)

TimeoutInvariant == TypeOK /\ Timed(calls) /\ InitiationTimed

-----------------------------------------------------------------------------
(* Lists of calls. *)

LEMMA PlainCalls ==
  /\ \A d \in Downloads, s \in TrStates : s # "Initiating" => SetState(d, s) \in PlainCall
  /\ \A d \in Downloads, o \in DownOps : o # "release" => Do(o, d) \in PlainCall
  /\ \A i \in Nat \ {0} : CheckFrom(i) \in PlainCall
  /\ CheckDownloads \in PlainCall
  /\ \A x \in Users : PeerSocket(x) \in PlainCall /\ Start(x) \in PlainCall
  /\ \A o \in Loops, w \in SUBSET Users, i \in Nat \ {0}, e \in Nat : LoopFrom(o, w, i, e) \in PlainCall
  /\ Allow \in PlainCall /\ [op |-> "load"] \in PlainCall
  /\ \A list \in Seq(Entries) : LoadRest(list) \in PlainCall
  /\ \A e \in Entries : [op |-> "loadState", entry |-> e] \in PlainCall
<1> USE CallTypes DEF PlainCall
<1>1. \A d \in Downloads, s \in TrStates : s # "Initiating" => SetState(d, s) \in PlainCall
  BY DEF SetState
<1>2. \A d \in Downloads, o \in DownOps : o # "release" => Do(o, d) \in PlainCall
  BY DEF Do, DownOps
<1>3. \A i \in Nat \ {0} : CheckFrom(i) \in PlainCall
  BY DEF CheckFrom
<1>4. CheckDownloads \in PlainCall
  BY <1>3 DEF CheckDownloads
<1>5. \A x \in Users : PeerSocket(x) \in PlainCall /\ Start(x) \in PlainCall
  BY DEF PeerSocket, Start
<1>6. \A o \in Loops, w \in SUBSET Users, i \in Nat \ {0}, e \in Nat : LoopFrom(o, w, i, e) \in PlainCall
  BY DEF LoopFrom
<1>7. Allow \in PlainCall /\ [op |-> "load"] \in PlainCall
  BY DEF Allow
<1>8. \A list \in Seq(Entries) : LoadRest(list) \in PlainCall
  BY DEF LoadRest
<1>9. \A e \in Entries : [op |-> "loadState", entry |-> e] \in PlainCall
  OBVIOUS
<1> QED BY <1>1, <1>2, <1>3, <1>4, <1>5, <1>6, <1>7, <1>8, <1>9

\* Up to four plain calls.
LEMMA FewTimed ==
  /\ <<>> \in TimedCalls
  /\ \A a \in PlainCall : <<a>> \in TimedCalls
  /\ \A a, b \in PlainCall : <<a, b>> \in TimedCalls
  /\ \A a, b, c \in PlainCall : <<a, b, c>> \in TimedCalls
  /\ \A a, b, c, d \in PlainCall : <<a, b, c, d>> \in TimedCalls
<1>1. ASSUME NEW list \in Seq(PlainCall)
      PROVE  list \in TimedCalls
  <2>1. \A k \in 1 .. Len(list) : list[k] \in PlainCall
    BY ElementOfSeq
  <2>2. list \in Seq(Call)
    BY DEF PlainCall
  <2> QED BY <2>1, <2>2 DEF TimedCalls, Timed, PlainCall
<1>2. /\ <<>> \in Seq(PlainCall)
      /\ \A a \in PlainCall : <<a>> \in Seq(PlainCall)
      /\ \A a, b \in PlainCall : <<a, b>> \in Seq(PlainCall)
      /\ \A a, b, c \in PlainCall : <<a, b, c>> \in Seq(PlainCall)
      /\ \A a, b, c, d \in PlainCall : <<a, b, c, d>> \in Seq(PlainCall)
  OBVIOUS
<1> QED BY <1>1, <1>2

\* One list before another.
LEMMA MoreTimed ==
  ASSUME NEW s \in TimedCalls, NEW t \in TimedCalls
  PROVE  /\ s \o t \in TimedCalls
         /\ \A d : Pending(s, d) \/ Pending(t, d) => Pending(s \o t, d)
<1> DEFINE m == Len(s)
           n == Len(t)
<1>1. /\ s \in Seq(Call) /\ t \in Seq(Call) /\ Timed(s) /\ Timed(t) /\ m \in Nat /\ n \in Nat
  BY LenProperties DEF TimedCalls
<1>2. /\ s \o t \in Seq(Call) /\ Len(s \o t) = m + n
      /\ \A i \in 1 .. m + n : (s \o t)[i] = IF i <= m THEN s[i] ELSE t[i - m]
  BY <1>1, ConcatProperties
<1>3. \A j \in 1 .. m : j \in 1 .. m + n /\ (s \o t)[j] = s[j]
  <2> HIDE DEF m, n
  <2> QED BY <1>1, <1>2
<1>4. \A j \in 1 .. n : j + m \in 1 .. m + n /\ (s \o t)[j + m] = t[j]
  <2> HIDE DEF m, n
  <2>1. ASSUME NEW j \in 1 .. n
        PROVE  j + m \in 1 .. m + n /\ ~(j + m <= m) /\ (j + m) - m = j
    BY <1>1
  <2> QED BY <1>2, <2>1
<1>5. ASSUME NEW k \in 1 .. m + n
      PROVE  /\ (s \o t)[k].op = "setState" => (s \o t)[k].st # "Initiating"
             /\ (s \o t)[k].op = "release" => \E j \in k + 1 .. m + n : Ends((s \o t)[j], (s \o t)[k].down)
  <2>1. CASE k \in 1 .. m
    <3>1. /\ s[k].op = "setState" => s[k].st # "Initiating"
          /\ s[k].op = "release" => \E j \in k + 1 .. m : Ends(s[j], s[k].down)
      BY <1>1, <2>1 DEF Timed
    <3>2. \A j \in k + 1 .. m : j \in 1 .. m /\ j \in k + 1 .. m + n
      BY <1>1, <2>1
    <3> HIDE DEF m, n
    <3> QED BY <1>3, <2>1, <3>1, <3>2
  <2>2. CASE k \notin 1 .. m
    <3> DEFINE i == k - m
    <3>1. i \in 1 .. n /\ i + m = k
      BY <1>1, <2>2
    <3>2. /\ t[i].op = "setState" => t[i].st # "Initiating"
          /\ t[i].op = "release" => \E j \in i + 1 .. n : Ends(t[j], t[i].down)
      BY <1>1, <3>1 DEF Timed
    <3>3. \A j \in i + 1 .. n : j \in 1 .. n /\ j + m \in k + 1 .. m + n
      BY <1>1, <3>1
    <3>4. (s \o t)[k] = t[i]
      <4> HIDE DEF i, m, n
      <4> QED BY <1>4, <3>1
    <3> HIDE DEF i, m, n
    <3> QED BY <1>4, <3>1, <3>2, <3>3, <3>4
  <2> QED BY <2>1, <2>2
<1>6. s \o t \in TimedCalls
  BY <1>2, <1>5 DEF TimedCalls, Timed
<1>7. ASSUME NEW d, Pending(s, d) \/ Pending(t, d)
      PROVE  Pending(s \o t, d)
  <2> HIDE DEF m, n
  <2> QED BY <1>2, <1>3, <1>4, <1>7 DEF Pending, m, n
<1> QED BY <1>6, <1>7

\* What is under the call on top.
LEMMA TimedTail ==
  ASSUME calls \in Seq(Call), calls # <<>>, Timed(calls)
  PROVE  /\ Tail(calls) \in TimedCalls
         /\ Top.op = "setState" => Top.st # "Initiating"
         /\ Top.op = "release" => Pending(Tail(calls), Top.down)
         /\ \A d : Pending(calls, d) => Ends(Top, d) \/ Pending(Tail(calls), d)
<1> DEFINE t == Tail(calls)
           n == Len(calls)
<1>1. /\ t \in Seq(Call) /\ Len(t) = n - 1 /\ n \in Nat \ {0} /\ Top = calls[1]
      /\ \A j \in 1 .. n - 1 : t[j] = calls[j + 1]
  BY HeadTailProperties, LenProperties DEF Top
<1>2. ASSUME NEW i \in 2 .. n, NEW d, Ends(calls[i], d)
      PROVE  i - 1 \in 1 .. Len(t) /\ Ends(t[i - 1], d)
  <2> DEFINE j == i - 1
  <2>1. j \in 1 .. n - 1 /\ j + 1 = i
    BY <1>1
  <2>2. t[j] = calls[i]
    <3> HIDE DEF t, j, n
    <3> QED BY <1>1, <2>1
  <2> HIDE DEF t, n
  <2> QED BY <1>1, <1>2, <2>1, <2>2
<1>3. ASSUME NEW k \in 1 .. Len(t)
      PROVE  /\ t[k].op = "setState" => t[k].st # "Initiating"
             /\ t[k].op = "release" => \E j \in k + 1 .. Len(t) : Ends(t[j], t[k].down)
  <2>1. k + 1 \in 1 .. n /\ t[k] = calls[k + 1]
    BY <1>1
  <2>2. CASE t[k].op = "release"
    <3>1. PICK i \in k + 1 + 1 .. n : Ends(calls[i], t[k].down)
      BY <2>1, <2>2 DEF Timed
    <3>2. i \in 2 .. n /\ i - 1 >= k + 1
      BY <1>1, <3>1
    <3>3. i - 1 \in 1 .. Len(t) /\ Ends(t[i - 1], t[k].down)
      <4> HIDE DEF t, n
      <4> QED BY <1>2, <3>1, <3>2
    <3>4. i - 1 \in k + 1 .. Len(t)
      BY <1>1, <3>2, <3>3
    <3> QED BY <2>2, <3>3, <3>4
  <2>3. CASE t[k].op # "release"
    BY <2>1, <2>3 DEF Timed
  <2> QED BY <2>2, <2>3
<1>4. t \in TimedCalls
  BY <1>1, <1>3 DEF TimedCalls, Timed
<1>5. ASSUME Top.op = "release"
      PROVE  Pending(t, Top.down)
  <2>1. PICK i \in 2 .. n : Ends(calls[i], Top.down)
    BY <1>1, <1>5 DEF Timed
  <2> HIDE DEF t, n
  <2> QED BY <1>2, <2>1 DEF Pending
<1>6. ASSUME NEW d, Pending(calls, d)
      PROVE  Ends(Top, d) \/ Pending(t, d)
  <2>1. PICK i \in 1 .. n : Ends(calls[i], d)
    BY <1>6 DEF Pending
  <2>2. i = 1 \/ i \in 2 .. n
    BY <1>1, <2>1
  <2> HIDE DEF t, n
  <2> QED BY <1>1, <1>2, <2>1, <2>2 DEF Pending
<1>7. Top.op = "setState" => Top.st # "Initiating"
  BY <1>1 DEF Timed
<1> QED BY <1>4, <1>5, <1>6, <1>7

\* setSocket(0) before calls that end the initiation.
LEMMA DropTimed ==
  ASSUME NEW d \in Downloads, NEW t \in TimedCalls, Pending(t, d)
  PROVE  DropSocket(d) \o t \in TimedCalls
<1> DEFINE r == Do("release", d)
           a == IF socket[d] = "none" THEN <<>> ELSE <<Do("disconnected", d)>>
<1>1. r \in Call /\ <<r>> \in Seq(Call) /\ r.op = "release" /\ r.down = d
  <2>1. r \in Call
    BY CallTypes DEF DownOps
  <2> QED BY <2>1, FewCalls DEF Do
<1>2. a \in TimedCalls /\ a \in Seq(Call)
  BY PlainCalls, FewTimed DEF DownOps, TimedCalls
<1>3. <<r>> \o t \in TimedCalls
  <2> DEFINE l == <<r>> \o t
             n == Len(t)
  <2> HIDE DEF r
  <2>1. t \in Seq(Call) /\ Timed(t) /\ n \in Nat
    BY LenProperties DEF TimedCalls
  <2>2. /\ l \in Seq(Call) /\ Len(l) = 1 + n
        /\ \A i \in 1 .. 1 + n : l[i] = IF i <= 1 THEN <<r>>[i] ELSE t[i - 1]
    <3>1. Len(<<r>>) = 1
      OBVIOUS
    <3> QED BY <1>1, <2>1, <3>1, ConcatProperties
  <2>3. l[1] = r /\ \A j \in 1 .. n : l[j + 1] = t[j]
    <3> HIDE DEF l, n
    <3>1. 1 \in 1 .. 1 + n /\ 1 <= 1 /\ <<r>>[1] = r
      BY <2>1
    <3>2. ASSUME NEW j \in 1 .. n
          PROVE  j + 1 \in 1 .. 1 + n /\ ~(j + 1 <= 1) /\ (j + 1) - 1 = j
      BY <2>1
    <3> QED BY <2>2, <3>1, <3>2
  <2>4. ASSUME NEW k \in 1 .. Len(l)
        PROVE  /\ l[k].op = "setState" => l[k].st # "Initiating"
               /\ l[k].op = "release" => \E j \in k + 1 .. Len(l) : Ends(l[j], l[k].down)
    <3>1. CASE k = 1
      <4>1. PICK j \in 1 .. n : Ends(t[j], d)
        BY DEF Pending
      <4>2. j + 1 \in k + 1 .. Len(l) /\ Ends(l[j + 1], d)
        <5>1. j + 1 \in 1 + 1 .. 1 + n
          BY <2>1
        <5> HIDE DEF l, n
        <5> QED BY <2>2, <2>3, <3>1, <4>1, <5>1
      <4> HIDE DEF l, n
      <4> QED BY <1>1, <2>3, <3>1, <4>2
    <3>2. CASE k # 1
      <4> DEFINE i == k - 1
      <4> HIDE DEF l
      <4>1. i \in 1 .. n /\ i + 1 = k
        BY <2>1, <2>2, <3>2
      <4>2. /\ t[i].op = "setState" => t[i].st # "Initiating"
            /\ t[i].op = "release" => \E j \in i + 1 .. n : Ends(t[j], t[i].down)
        BY <2>1, <4>1 DEF Timed
      <4>3. \A j \in i + 1 .. n : j \in 1 .. n /\ j + 1 \in k + 1 .. 1 + n
        BY <2>1, <4>1
      <4>4. l[k] = t[i]
        <5> HIDE DEF i, n
        <5> QED BY <2>3, <4>1
      <4> HIDE DEF i, n
      <4> QED BY <2>2, <2>3, <4>1, <4>2, <4>3, <4>4
    <3> QED BY <3>1, <3>2
  <2> HIDE DEF l
  <2>5. l \in TimedCalls
    BY <2>2, <2>4 DEF TimedCalls, Timed
  <2> QED BY <2>5 DEF l
<1>4. DropSocket(d) \o t = a \o (<<r>> \o t)
  <2>1. DropSocket(d) = a \o <<r>>
    BY DEF DropSocket
  <2>2. t \in Seq(Call)
    BY DEF TimedCalls
  <2> HIDE DEF a, r
  <2> QED BY <1>1, <1>2, <2>1, <2>2, ConcatAssociative
<1> HIDE DEF a, r
<1> QED BY <1>2, <1>3, <1>4, MoreTimed

-----------------------------------------------------------------------------
(* What the handlers push.                                                 *)

LEMMA HandlerTimed ==
  ASSUME NEW d \in Downloads
  PROVE  /\ \A s \in TrStates \ {"Initiating"} : Fail(d, s) \in TimedCalls /\ Aftermath(d, s) \in TimedCalls
         /\ AbortCalls(d) \in TimedCalls
<1>0. \A o \in DownOps : o # "release" => Do(o, d) \in PlainCall
  BY PlainCalls
<1>1. AbortCalls(d) \in TimedCalls
  <2> DEFINE t == <<Do("unenqueue", d), Do("abortRest", d)>>
  <2>1. t \in TimedCalls
    BY <1>0, FewTimed DEF DownOps
  <2>2. Pending(t, d)
    <3>1. 2 \in 1 .. Len(t) /\ Ends(t[2], d)
      BY DEF Do, Ends
    <3> QED BY <3>1 DEF Pending
  <2> HIDE DEF t
  <2>3. DropSocket(d) \o t \in TimedCalls
    BY <2>1, <2>2, DropTimed
  <2> QED BY <2>3 DEF AbortCalls, t
<1>2. ASSUME NEW s \in TrStates \ {"Initiating"}
      PROVE  Fail(d, s) \in TimedCalls /\ Aftermath(d, s) \in TimedCalls
  <2> DEFINE t == <<Do("unenqueue", d), SetState(d, s)>>
  <2>1. t \in TimedCalls
    BY <1>0, PlainCalls, FewTimed DEF DownOps
  <2>2. Pending(t, d)
    <3>1. 2 \in 1 .. Len(t) /\ Ends(t[2], d)
      BY DEF SetState, Ends
    <3> QED BY <3>1 DEF Pending
  <2>3. Fail(d, s) \in TimedCalls
    <3> HIDE DEF t
    <3>1. DropSocket(d) \o t \in TimedCalls
      BY <2>1, <2>2, DropTimed
    <3> QED BY <3>1 DEF Fail, t
  <2>4. <<CheckDownloads>> \in TimedCalls /\ <<Do("remove", d)>> \in TimedCalls /\ <<>> \in TimedCalls
    BY <1>0, PlainCalls, FewTimed DEF DownOps
  <2>5. Aftermath(d, s) \in TimedCalls
    BY <2>4, MoreTimed DEF Aftermath
  <2> QED BY <2>3, <2>5
<1> QED BY <1>1, <1>2

LEMMA PreemptTimed ==
  ASSUME DownloadAssumption, TypeOK, NEW d \in Downloads
  PROVE  PreemptCalls(d) \in TimedCalls
<1> DEFINE other == downloading[UserOf[d]]
           t == <<SetState(other, "QueuedRemotely"), Do("unenqueue", other), Do("enqueue", other)>>
<1>1. CASE other \in {d, NoDownload}
  BY <1>1, FewTimed DEF PreemptCalls
<1>2. CASE other \notin {d, NoDownload}
  <2>1. other \in Downloads
    BY <1>2 DEF DownloadAssumption, TypeOK
  <2>2. t \in TimedCalls
    <3> HIDE DEF other
    <3> QED BY <2>1, PlainCalls, FewTimed, StateNames DEF DownOps
  <2>3. Pending(t, other)
    <3>1. 1 \in 1 .. Len(t) /\ Ends(t[1], other)
      BY DEF SetState, Ends
    <3> QED BY <3>1 DEF Pending
  <2>4. DropSocket(other) \o t \in TimedCalls
    <3> HIDE DEF other, t
    <3> QED BY <2>1, <2>2, <2>3, DropTimed
  <2> QED BY <1>2, <2>4 DEF PreemptCalls
<1> QED BY <1>1, <1>2

LEMMA UserTimed ==
  ASSUME TypeOK, NEW x \in Users
  PROVE  ReadyCalls(x) \in TimedCalls /\ UnavailableCalls(x) \in TimedCalls /\ OfflineCalls(x) \in TimedCalls
<1>1. "CannotConnect" \in TrStates \ {"Initiating"}
  BY StateNames
<1>2. downloading[x] # NoDownload => downloading[x] \in Downloads
  BY DEF TypeOK
<1>3. \A o \in Loops : Loop(o, {x}) \in PlainCall
  <2>1. {x} \in SUBSET Users /\ Len(downloads) \in Nat
    BY LenProperties DEF TypeOK
  <2> QED BY <2>1, PlainCalls DEF Loop
<1>4. ReadyCalls(x) \in TimedCalls /\ OfflineCalls(x) \in TimedCalls
  BY <1>3, PlainCalls, FewTimed DEF ReadyCalls, OfflineCalls, Loops
<1>5. UnavailableCalls(x) \in TimedCalls
  BY <1>1, <1>2, HandlerTimed, FewTimed DEF UnavailableCalls
<1> QED BY <1>4, <1>5

-----------------------------------------------------------------------------
(* The steps.                                                              *)

\* A handler that returns keeps the invariant when what it pushes, or what is still to run,
\* ends every initiation it leaves without a timeout.
LEMMA ReturnKeeps ==
  ASSUME TimeoutInvariant, calls # <<>>, NEW now \in TimedCalls, Return(now),
         \A d \in Known' : state'[d] = "Initiating" /\ initTimers'[d] = {} =>
           \/ Pending(now, d)
           \/ Pending(Tail(calls), d)
           \/ d \in Known /\ state[d] = "Initiating" /\ initTimers[d] = {} /\ ~Ends(Top, d)
  PROVE  Timed(calls)' /\ InitiationTimed'
<1>1. calls \in Seq(Call) /\ Timed(calls)
  BY DEF TimeoutInvariant, TypeOK
<1>2. Tail(calls) \in TimedCalls /\ \A d : Pending(calls, d) => Ends(Top, d) \/ Pending(Tail(calls), d)
  BY <1>1, TimedTail
<1>3. calls' = now \o Tail(calls)
  BY DEF Return
<1>4. now \o Tail(calls) \in TimedCalls
      /\ \A d : Pending(now, d) \/ Pending(Tail(calls), d) => Pending(now \o Tail(calls), d)
  BY <1>2, MoreTimed
<1>5. Timed(calls)'
  BY <1>3, <1>4 DEF TimedCalls, Timed, Ends
<1>6. ASSUME NEW d \in Known', state'[d] = "Initiating", initTimers'[d] = {}
      PROVE  Pending(calls', d)
  <2>1. d \in Known /\ state[d] = "Initiating" /\ initTimers[d] = {} => Pending(calls, d)
    BY DEF TimeoutInvariant, InitiationTimed
  <2>2. Pending(now, d) \/ Pending(Tail(calls), d)
    BY <1>2, <1>6, <2>1
  <2> QED BY <1>3, <1>4, <2>2
<1>7. InitiationTimed'
  BY <1>6 DEF InitiationTimed, Pending, Ends
<1> QED BY <1>5, <1>7

\* Most handlers touch neither states nor timers.
LEMMA QuietReturn ==
  ASSUME TimeoutInvariant, NEW op, Running(op), op \notin {"setState", "abortRest"},
         NEW now \in TimedCalls, Return(now), UNCHANGED <<downloads, state, initTimers>>
  PROVE  Timed(calls)' /\ InitiationTimed'
<1>1. calls # <<>> /\ Top.op = op
  BY DEF Running, Idle
<1>2. \A d : ~Ends(Top, d)
  BY <1>1 DEF Ends
<1>3. Known' = Known
  BY DEF Known
<1> QED BY <1>1, <1>2, <1>3, ReturnKeeps

\* So do most events.
LEMMA EventKeeps ==
  ASSUME TimeoutInvariant, calls = <<>>, calls' \in TimedCalls, UNCHANGED <<downloads, state>>,
         \A d \in Known : state[d] = "Initiating" => initTimers'[d] = initTimers[d] \/ Pending(calls', d)
  PROVE  Timed(calls)' /\ InitiationTimed'
<1>1. Timed(calls)'
  BY DEF TimedCalls, Timed, Ends
<1>2. ASSUME NEW d \in Known', state'[d] = "Initiating", initTimers'[d] = {}
      PROVE  Pending(calls', d)
  <2>1. d \in Known /\ state[d] = "Initiating"
    BY <1>2 DEF Known
  <2>2. ~Pending(calls, d)
    BY DEF Pending
  <2>3. initTimers[d] # {}
    BY <2>1, <2>2 DEF TimeoutInvariant, InitiationTimed
  <2> QED BY <1>2, <2>1, <2>3
<1>3. InitiationTimed'
  BY <1>2 DEF InitiationTimed, Pending, Ends
<1> QED BY <1>1, <1>3

\* Loading, checkDownloads, the peer sockets, and the loops.
LEMMA LoadTimed ==
  ASSUME TimeoutInvariant, DoLoad \/ DoLoadRest \/ DoLoadState \/ DoAllow
  PROVE  Timed(calls)' /\ InitiationTimed'
<1> USE DEF objects
<1>0. TypeOK
  BY DEF TimeoutInvariant
<1>1. CASE DoLoad
  <2>1. (IF hasFile THEN <<LoadRest(saved)>> ELSE <<>>) \in TimedCalls
    BY <1>0, PlainCalls, FewTimed DEF TypeOK
  <2> QED BY <1>1, <2>1, QuietReturn DEF DoLoad
<1>2. CASE DoLoadRest
  <2> DEFINE rest == Top.list
             now == <<Do("add", Head(rest).download), [op |-> "loadState", entry |-> Head(rest)], LoadRest(Tail(rest))>>
  <2>1. rest \in Seq(Entries)
    BY <1>0, <1>2, TopType, CallFields DEF DoLoadRest
  <2>2. CASE rest = <<>>
    <3>1. Return(<<Allow>>) /\ <<Allow>> \in TimedCalls
      BY <1>2, <2>2, PlainCalls, FewTimed DEF DoLoadRest
    <3> QED BY <1>2, <3>1, QuietReturn DEF DoLoadRest
  <2>3. CASE rest # <<>>
    <3>1. Head(rest) \in Entries /\ Tail(rest) \in Seq(Entries)
      <4> HIDE DEF rest
      <4> QED BY <2>1, <2>3, HeadTailProperties
    <3>2. Head(rest).download \in Downloads
      BY <3>1 DEF Entries
    <3>3. now \in TimedCalls
      <4> HIDE DEF rest
      <4> QED BY <3>1, <3>2, PlainCalls, FewTimed DEF DownOps
    <3>4. Return(now)
      BY <1>2, <2>3 DEF DoLoadRest
    <3> HIDE DEF now
    <3> QED BY <1>2, <3>3, <3>4, QuietReturn DEF DoLoadRest
  <2> QED BY <2>2, <2>3
<1>3. CASE DoLoadState
  <2> DEFINE d == Top.entry.download
             s == IF Top.entry.aborted THEN "Aborted" ELSE "Offline"
  <2>1. d \in Downloads /\ s \in TrStates /\ s # "Initiating"
    BY <1>0, <1>3, TopType, CallFields, StateNames DEF DoLoadState, Entries
  <2>2. (IF d \in Known THEN <<SetState(d, s), Do("touch", d)>> ELSE <<>>) \in TimedCalls
    <3> HIDE DEF d, s
    <3> QED BY <2>1, PlainCalls, FewTimed DEF DownOps
  <2> QED BY <1>3, <2>2, QuietReturn DEF DoLoadState
<1>4. CASE DoAllow
  BY <1>4, PlainCalls, FewTimed, QuietReturn DEF DoAllow
<1> QED BY <1>1, <1>2, <1>3, <1>4

LEMMA CheckTimed ==
  ASSUME DownloadAssumption, TimeoutInvariant, DoCheckDownloads \/ DoPeerSocket \/ DoLoop
  PROVE  Timed(calls)' /\ InitiationTimed'
<1> USE DEF objects
<1>0. TypeOK
  BY DEF TimeoutInvariant
<1>1. CASE DoCheckDownloads
  <2> DEFINE wanted == {j \in Top.i .. Len(downloads) : Wanted(downloads[j])}
  <2>1. Top.i \in Nat \ {0}
    BY <1>0, <1>1, TopType, CallFields DEF DoCheckDownloads
  <2>2. ASSUME NEW j \in First(wanted)
        PROVE  AskAndGoOn(j) \in TimedCalls
    <3>1. j \in Nat \ {0} /\ j \in 1 .. Len(downloads)
      <4>1. j \in Top.i .. Len(downloads) /\ Len(downloads) \in Nat
        BY <1>0, FirstElement, LenProperties DEF TypeOK
      <4> QED BY <2>1, <4>1
    <3>2. UserOf[downloads[j]] \in Users
      BY <1>0, <3>1, ListElement DEF DownloadAssumption
    <3> QED BY <3>1, <3>2, PlainCalls, FewTimed DEF AskAndGoOn
  <2>3. \E now \in TimedCalls : Return(now)
    <3> HIDE DEF wanted
    <3>1. Return(<<>>) \/ \E j \in First(wanted) : Return(AskAndGoOn(j))
      BY <1>1 DEF DoCheckDownloads, wanted
    <3> QED BY <2>2, <3>1, FewTimed
  <2> QED BY <1>1, <2>3, QuietReturn DEF DoCheckDownloads
<1>2. CASE DoPeerSocket
  <2>1. Top.user \in Users
    BY <1>0, <1>2, TopType, CallFields DEF DoPeerSocket
  <2>2. ReadyCalls(Top.user) \in TimedCalls /\ OfflineCalls(Top.user) \in TimedCalls /\ <<>> \in TimedCalls
    BY <1>0, <2>1, UserTimed, FewTimed
  <2>3. \E now \in TimedCalls : Return(now)
    BY <1>2, <2>2 DEF DoPeerSocket
  <2> QED BY <1>2, <2>3, QuietReturn DEF DoPeerSocket
<1>3. CASE DoLoop
  <2> DEFINE last == IF Top.end < Len(downloads) THEN Top.end ELSE Len(downloads)
             hits == {j \in Top.i .. last : Selected(Top.over, Top.who, downloads[j])}
             more(j) == LoopFrom(Top.over, Top.who, j + 1, Top.end)
             now(j) == Append(IterationCalls(Top.over, downloads[j]), more(j))
  <2>1. Top.over \in Loops /\ Top.who \in SUBSET Users /\ Top.i \in Nat \ {0} /\ Top.end \in Nat
    BY <1>0, <1>3, TopType, CallFields DEF DoLoop
  <2>2. ASSUME NEW j \in First(hits)
        PROVE  now(j) \in TimedCalls
    <3>1. j \in Nat \ {0} /\ j \in 1 .. Len(downloads)
      <4>1. j \in Top.i .. last /\ Len(downloads) \in Nat
        BY <1>0, FirstElement, LenProperties DEF TypeOK
      <4> QED BY <2>1, <4>1
    <3>2. downloads[j] \in Downloads
      BY <1>0, <3>1, ListElement
    <3>3. more(j) \in PlainCall
      BY <2>1, <3>1, PlainCalls
    <3>4. /\ SetState(downloads[j], "QueuedRemotely") \in PlainCall /\ SetState(downloads[j], "Offline") \in PlainCall
          /\ Do("unenqueue", downloads[j]) \in PlainCall
      BY <3>2, PlainCalls, StateNames DEF DownOps
    <3>5. IterationCalls(Top.over, downloads[j]) \in TimedCalls
      BY <2>1, <3>4, FewTimed DEF IterationCalls, Loops
    <3>6. now(j) = IterationCalls(Top.over, downloads[j]) \o <<more(j)>>
      <4>1. IterationCalls(Top.over, downloads[j]) \in Seq(Call) /\ more(j) \in Call
        BY <3>3, <3>5 DEF TimedCalls, PlainCall
      <4> HIDE DEF more
      <4> QED BY <4>1, AppendIsConcat
    <3> HIDE DEF more, now
    <3> QED BY <3>3, <3>5, <3>6, FewTimed, MoreTimed
  <2>3. \E new \in TimedCalls : Return(new)
    <3>1. Return(<<>>) \/ \E j \in First(hits) : Return(now(j))
      BY <1>3 DEF DoLoop
    <3> HIDE DEF now, hits
    <3> QED BY <2>2, <3>1, FewTimed
  <2> QED BY <1>3, <2>3, QuietReturn DEF DoLoop
<1> QED BY <1>1, <1>2, <1>3

\* setState, setSocket(0) and the setters.
LEMMA SetterTimed ==
  ASSUME DownloadAssumption, TimeoutInvariant,
         DoSetState \/ DoDisconnected \/ DoRelease \/ DoClosed \/ DoEnqueue \/ DoTouch
  PROVE  Timed(calls)' /\ InitiationTimed'
<1> USE DEF objects
<1>0. TypeOK /\ calls \in Seq(Call) /\ Timed(calls)
  BY DEF TimeoutInvariant, TypeOK
<1>1. CASE DoSetState
  <2>1. Top.op = "setState" /\ Top.down \in Downloads /\ Top.st \in TrStates /\ calls # <<>>
    BY <1>0, <1>1, TopType, CallFields DEF DoSetState
  <2>2. Top.st # "Initiating"
    BY <1>0, <2>1, TimedTail
  <2>3. Aftermath(Top.down, Top.st) \in TimedCalls /\ Return(Aftermath(Top.down, Top.st))
    BY <1>1, <2>1, <2>2, HandlerTimed DEF DoSetState
  <2>4. Known' = Known /\ initTimers' = initTimers /\ Known \subseteq Downloads
    BY <1>0, <1>1, ListElement DEF DoSetState, Known, Range, TypeOK
  <2>5. state' = [state EXCEPT ![Top.down] = Top.st] /\ state \in [Downloads -> TrStates]
    BY <1>0, <1>1 DEF DoSetState, TypeOK
  <2>6. ASSUME NEW d \in Known', state'[d] = "Initiating", initTimers'[d] = {}
        PROVE  d \in Known /\ state[d] = "Initiating" /\ initTimers[d] = {} /\ ~Ends(Top, d)
    <3>1. d \in Known /\ d \in Downloads /\ d # Top.down
      BY <2>2, <2>4, <2>5, <2>6
    <3> QED BY <2>4, <2>5, <2>6, <3>1 DEF Ends
  <2> QED BY <2>1, <2>3, <2>6, ReturnKeeps
<1>2. CASE DoDisconnected
  <2>1. Top.down \in Downloads
    BY <1>0, <1>2, TopType, CallFields DEF DoDisconnected, DownOps
  <2>2. SetState(Top.down, IF complete[Top.down] THEN "Finished" ELSE "ConnectionClosed") \in PlainCall
    BY <2>1, PlainCalls, StateNames
  <2> QED BY <1>2, <2>2, FewTimed, QuietReturn DEF DoDisconnected
<1>3. CASE DoRelease
  <2>1. Top.op = "release" /\ Top.down \in Downloads /\ calls # <<>>
    BY <1>0, <1>3, TopType, CallFields DEF DoRelease, DownOps
  <2>2. Pending(Tail(calls), Top.down)
    BY <1>0, <2>1, TimedTail
  <2>3. Known' = Known /\ state' = state /\ Return(<<>>)
    BY <1>3 DEF DoRelease, Known
  <2>4. initTimers' = [initTimers EXCEPT ![Top.down] = initTimers[Top.down] \ {"tracked"}]
    BY <1>3 DEF DoRelease
  <2>5. ASSUME NEW d \in Known', state'[d] = "Initiating", initTimers'[d] = {}
        PROVE  \/ Pending(Tail(calls), d)
               \/ d \in Known /\ state[d] = "Initiating" /\ initTimers[d] = {} /\ ~Ends(Top, d)
    <3>1. CASE d = Top.down
      BY <2>2, <3>1
    <3>2. CASE d # Top.down
      <4>1. initTimers'[d] = initTimers[d] /\ d \in Known
        BY <1>0, <2>3, <2>4, <3>2 DEF TypeOK
      <4>2. ~Ends(Top, d)
        BY <2>1 DEF Ends
      <4> QED BY <2>3, <2>5, <4>1, <4>2
    <3> QED BY <3>1, <3>2
  <2> QED BY <2>1, <2>3, <2>5, FewTimed, ReturnKeeps
<1>4. CASE DoClosed
  BY <1>4, FewTimed, QuietReturn DEF DoClosed
<1>5. CASE DoEnqueue
  BY <1>5, FewTimed, QuietReturn DEF DoEnqueue
<1>6. CASE DoTouch
  BY <1>6, FewTimed, QuietReturn DEF DoTouch
<1> QED BY <1>1, <1>2, <1>3, <1>4, <1>5, <1>6

\* The download that starts has its timer armed.
LEMMA StartTimed ==
  ASSUME DownloadAssumption, TimeoutInvariant, DoStart
  PROVE  Timed(calls)' /\ InitiationTimed'
<1>0. TypeOK
  BY DEF TimeoutInvariant
<1>1. Top.op = "start" /\ calls # <<>> /\ Return(<<>>)
  BY <1>0, TopType DEF DoStart
<1>2. Known' = Known /\ Known \subseteq Downloads
  BY <1>0, ListElement DEF DoStart, Known, Range, TypeOK
<1>3. /\ state' = [d \in Downloads |-> IF d \in Initiated(Top.user) THEN "Initiating" ELSE state[d]]
      /\ initTimers' = [d \in Downloads |-> IF d \in Initiated(Top.user) THEN Arm(d) ELSE initTimers[d]]
  BY DEF DoStart
<1>4. ASSUME NEW d \in Known', state'[d] = "Initiating", initTimers'[d] = {}
      PROVE  d \in Known /\ state[d] = "Initiating" /\ initTimers[d] = {} /\ ~Ends(Top, d)
  <2>1. d \in Known /\ d \in Downloads /\ Arm(d) # {}
    BY <1>2 DEF Arm
  <2>2. d \notin Initiated(Top.user)
    BY <1>3, <1>4, <2>1
  <2> QED BY <1>1, <1>3, <1>4, <2>1, <2>2 DEF Ends
<1> QED BY <1>1, <1>4, FewTimed, ReturnKeeps

\* add, abort and remove.
LEMMA AddTimed ==
  ASSUME DownloadAssumption, TimeoutInvariant, DoAdd \/ DoAddRest \/ DoAbortRest \/ DoRemove \/ DoErase
  PROVE  Timed(calls)' /\ InitiationTimed'
<1> USE DEF objects
<1> DEFINE t == Top.down
<1>0. TypeOK /\ calls \in Seq(Call) /\ Timed(calls)
  BY DEF TimeoutInvariant, TypeOK
<1>1. CASE DoAdd
  <2>1. Top.op = "add" /\ t \in Downloads /\ calls # <<>>
    BY <1>0, <1>1, TopType, CallFields DEF DoAdd, DownOps
  <2>2. <<SetState(t, "QueuedRemotely"), Do("addRest", t)>> \in TimedCalls /\ <<>> \in TimedCalls
    BY <2>1, PlainCalls, FewTimed, StateNames DEF DownOps
  <2>3. \E now \in TimedCalls : Return(now)
    BY <1>1, <2>2 DEF DoAdd
  <2>4. initTimers' = initTimers /\ \/ downloads' = downloads /\ state' = state
                                    \/ downloads' = Append(downloads, t) /\ state' = [state EXCEPT ![t] = "Offline"]
    BY <1>1 DEF DoAdd
  <2>5. ASSUME NEW d \in Known', state'[d] = "Initiating", initTimers'[d] = {}
        PROVE  d \in Known /\ state[d] = "Initiating" /\ initTimers[d] = {} /\ ~Ends(Top, d)
    <3>1. ~Ends(Top, d)
      BY <2>1 DEF Ends
    <3>2. CASE downloads' = downloads /\ state' = state
      BY <2>4, <2>5, <3>1, <3>2 DEF Known
    <3>3. CASE downloads' = Append(downloads, t) /\ state' = [state EXCEPT ![t] = "Offline"]
      <4>1. d = t \/ d \in Known
        <5>1. /\ downloads \in Seq(Downloads) /\ Len(downloads) \in Nat
              /\ Len(downloads') = Len(downloads) + 1 /\ downloads' \in Seq(Downloads)
              /\ \A i \in 1 .. Len(downloads) : downloads'[i] = downloads[i]
              /\ downloads'[Len(downloads) + 1] = t
          BY <1>0, <2>1, <3>3, AppendProperties, LenProperties DEF TypeOK
        <5>2. DOMAIN downloads = 1 .. Len(downloads) /\ DOMAIN downloads' = 1 .. Len(downloads')
          BY <5>1, LenProperties
        <5>3. PICK i \in DOMAIN downloads' : d = downloads'[i]
          BY DEF Known, Range
        <5>4. i = Len(downloads) + 1 \/ i \in 1 .. Len(downloads)
          BY <5>1, <5>2, <5>3
        <5> QED BY <5>1, <5>2, <5>3, <5>4 DEF Known, Range
      <4>2. state'[t] = "Offline" /\ (d # t => state'[d] = state[d])
        BY <1>0, <2>1, <3>3 DEF TypeOK
      <4>3. d # t
        BY <2>5, <4>2
      <4> QED BY <2>4, <2>5, <3>1, <4>1, <4>2, <4>3
    <3> QED BY <2>4, <3>2, <3>3
  <2> QED BY <2>1, <2>3, <2>5, ReturnKeeps
<1>2. CASE DoAddRest
  <2>1. t \in Downloads
    BY <1>0, <1>2, TopType, CallFields DEF DoAddRest, DownOps
  <2>2. (IF atDest[t] THEN <<SetState(t, "Finished")>> ELSE <<>>) \in TimedCalls /\ <<CheckDownloads>> \in TimedCalls
    BY <2>1, PlainCalls, FewTimed, StateNames
  <2>3. \E now \in TimedCalls : Return(now)
    BY <1>2, <2>2, MoreTimed DEF DoAddRest
  <2> QED BY <1>2, <2>3, QuietReturn DEF DoAddRest
<1>3. CASE DoAbortRest
  <2>1. Top.op = "abortRest" /\ t \in Downloads /\ calls # <<>>
    BY <1>0, <1>3, TopType, CallFields DEF DoAbortRest, DownOps
  <2>2. <<SetState(t, "Aborted")>> \in TimedCalls
    BY <2>1, PlainCalls, FewTimed, StateNames
  <2>3. Known' = Known /\ state' = state /\ initTimers' = initTimers
    BY <1>3 DEF DoAbortRest, Known
  <2>4. \A d : Ends(Top, d) <=> d = t
    BY <2>1 DEF Ends
  <2>5. CASE state[t] = "Finished"
    <3>1. Return(<<>>)
      BY <1>3, <2>5 DEF DoAbortRest
    <3>2. ASSUME NEW d \in Known', state'[d] = "Initiating", initTimers'[d] = {}
          PROVE  d \in Known /\ state[d] = "Initiating" /\ initTimers[d] = {} /\ ~Ends(Top, d)
      BY <2>3, <2>4, <2>5, <3>2
    <3> QED BY <2>1, <3>1, <3>2, FewTimed, ReturnKeeps
  <2>6. CASE state[t] # "Finished"
    <3> DEFINE now == <<SetState(t, "Aborted")>>
    <3>1. Return(now)
      BY <1>3, <2>6 DEF DoAbortRest
    <3>2. Pending(now, t)
      <4>1. 1 \in 1 .. Len(now) /\ Ends(now[1], t)
        BY DEF SetState, Ends
      <4> QED BY <4>1 DEF Pending
    <3> HIDE DEF now
    <3>3. ASSUME NEW d \in Known', state'[d] = "Initiating", initTimers'[d] = {}
          PROVE  \/ Pending(now, d)
                 \/ d \in Known /\ state[d] = "Initiating" /\ initTimers[d] = {} /\ ~Ends(Top, d)
      BY <2>3, <2>4, <3>2, <3>3
    <3>4. now \in TimedCalls
      BY <2>2 DEF now
    <3> QED BY <2>1, <3>1, <3>3, <3>4, ReturnKeeps
  <2> QED BY <2>5, <2>6
<1>4. CASE DoRemove
  <2>1. t \in Downloads
    BY <1>0, <1>4, TopType, CallFields DEF DoRemove, DownOps
  <2>2. AbortCalls(t) \in TimedCalls /\ Do("erase", t) \in PlainCall
    BY <2>1, HandlerTimed, PlainCalls DEF DownOps
  <2>3. Append(AbortCalls(t), Do("erase", t)) \in TimedCalls
    <3>1. Append(AbortCalls(t), Do("erase", t)) = AbortCalls(t) \o <<Do("erase", t)>>
      BY <2>2, AppendIsConcat DEF TimedCalls, PlainCall
    <3> QED BY <2>2, <3>1, FewTimed, MoreTimed
  <2>4. \E now \in TimedCalls : Return(now)
    BY <1>4, <2>3, FewTimed DEF DoRemove
  <2> QED BY <1>4, <2>4, QuietReturn DEF DoRemove
<1>5. CASE DoErase
  <2>1. Top.op = "erase" /\ t \in Downloads /\ calls # <<>> /\ Return(<<>>) /\ state' = state
    BY <1>0, <1>5, TopType, CallFields DEF DoErase, DownOps
  <2>2. Known' \subseteq Known \ {t}
    <3>1. CASE t \notin Known /\ UNCHANGED downloads
      BY <3>1 DEF Known
    <3>2. CASE \E k \in 1 .. Len(downloads) : downloads[k] = t /\ downloads' = RemoveAt(downloads, k)
      BY <1>0, <3>2, ListShrinks DEF Known, TypeOK
    <3> QED BY <1>5, <3>1, <3>2 DEF DoErase
  <2>3. initTimers' = [initTimers EXCEPT ![t] = {}]
    BY <1>5 DEF DoErase
  <2>4. ASSUME NEW d \in Known', state'[d] = "Initiating", initTimers'[d] = {}
        PROVE  d \in Known /\ state[d] = "Initiating" /\ initTimers[d] = {} /\ ~Ends(Top, d)
    <3>1. d \in Known /\ d # t
      BY <2>2
    <3>2. initTimers'[d] = initTimers[d]
      BY <1>0, <2>3, <3>1 DEF TypeOK
    <3> QED BY <2>1, <2>4, <3>1, <3>2 DEF Ends
  <2> QED BY <2>1, <2>4, FewTimed, ReturnKeeps
<1> QED BY <1>1, <1>2, <1>3, <1>4, <1>5

\* The answers to an offered transfer, and the end of a finished one.
LEMMA OfferTimed ==
  ASSUME DownloadAssumption, TimeoutInvariant, DoOfferRest \/ DoPushRest \/ DoAccept \/ DoAttach \/ DoRename
  PROVE  Timed(calls)' /\ InitiationTimed'
<1> USE DEF objects
<1> DEFINE t == Top.down
<1>0. TypeOK
  BY DEF TimeoutInvariant
<1>1. CASE DoOfferRest
  <2>1. t \in Downloads
    BY <1>0, <1>1, TopType, CallFields DEF DoOfferRest, DownOps
  <2>2. PreemptCalls(t) \in TimedCalls /\ Do("accept", t) \in PlainCall
    BY <1>0, <2>1, PreemptTimed, PlainCalls DEF DownOps
  <2>3. Append(PreemptCalls(t), Do("accept", t)) \in TimedCalls
    <3>1. Append(PreemptCalls(t), Do("accept", t)) = PreemptCalls(t) \o <<Do("accept", t)>>
      BY <2>2, AppendIsConcat DEF TimedCalls, PlainCall
    <3> QED BY <2>2, <3>1, FewTimed, MoreTimed
  <2>4. \E now \in TimedCalls : Return(now)
    BY <1>1, <2>3, FewTimed DEF DoOfferRest
  <2> QED BY <1>1, <2>4, QuietReturn DEF DoOfferRest
<1>2. CASE DoPushRest
  <2>1. t \in Downloads
    BY <1>0, <1>2, TopType, CallFields DEF DoPushRest, DownOps
  <2>2. <<Do("accept", t)>> \in TimedCalls
    BY <2>1, PlainCalls, FewTimed DEF DownOps
  <2>3. \E now \in TimedCalls : Return(now)
    BY <1>2, <2>2, FewTimed DEF DoPushRest
  <2> QED BY <1>2, <2>3, QuietReturn DEF DoPushRest
<1>3. CASE DoAccept
  <2>1. t \in Downloads
    BY <1>0, <1>3, TopType, CallFields DEF DoAccept, DownOps
  <2>2. /\ (IF socket[t] = "none" THEN <<>> ELSE <<Do("disconnected", t)>>) \in TimedCalls
        /\ <<Do("attach", t)>> \in TimedCalls
    BY <2>1, PlainCalls, FewTimed DEF DownOps
  <2>3. \E now \in TimedCalls : Return(now)
    BY <1>3, <2>2, MoreTimed DEF DoAccept
  <2> QED BY <1>3, <2>3, QuietReturn DEF DoAccept
<1>4. CASE DoAttach
  <2> DEFINE now == <<SetState(t, "Waiting")>>
  <2>1. Top.op = "attach" /\ t \in Downloads /\ calls # <<>>
    BY <1>0, <1>4, TopType, CallFields DEF DoAttach, DownOps
  <2>2. CASE Return(<<>>) /\ UNCHANGED initTimers
    BY <1>4, <2>2, FewTimed, QuietReturn DEF DoAttach
  <2>3. CASE Return(now) /\ initTimers' = [initTimers EXCEPT ![t] = initTimers[t] \ {"tracked"}]
    <3>1. now \in TimedCalls
      BY <2>1, PlainCalls, FewTimed, StateNames
    <3>2. Pending(now, t)
      <4>1. 1 \in 1 .. Len(now) /\ Ends(now[1], t)
        BY DEF SetState, Ends
      <4> QED BY <4>1 DEF Pending
    <3>3. Known' = Known /\ state' = state
      BY <1>4 DEF DoAttach, Known
    <3> HIDE DEF now
    <3>4. ASSUME NEW d \in Known', state'[d] = "Initiating", initTimers'[d] = {}
          PROVE  \/ Pending(now, d)
                 \/ d \in Known /\ state[d] = "Initiating" /\ initTimers[d] = {} /\ ~Ends(Top, d)
      <4>1. CASE d = t
        BY <3>2, <4>1
      <4>2. CASE d # t
        <5>1. initTimers'[d] = initTimers[d]
          BY <1>0, <2>3, <4>2 DEF TypeOK
        <5> QED BY <2>1, <3>3, <3>4, <5>1 DEF Ends
      <4> QED BY <4>1, <4>2
    <3> QED BY <2>1, <2>3, <3>1, <3>4, ReturnKeeps
  <2> QED BY <1>4, <2>2, <2>3 DEF DoAttach
<1>5. CASE DoRename
  BY <1>5, FewTimed, QuietReturn DEF DoRename
<1> QED BY <1>1, <1>2, <1>3, <1>4, <1>5

LEMMA StepTimed ==
  ASSUME DownloadAssumption, TimeoutInvariant, Step
  PROVE  Timed(calls)' /\ InitiationTimed'
BY LoadTimed, CheckTimed, SetterTimed, StartTimed, AddTimed, OfferTimed DEF Step

-----------------------------------------------------------------------------
(* The events.                                                             *)

LEMMA QuietEvent ==
  ASSUME TimeoutInvariant, NEW kind, NEW now \in TimedCalls, Event(kind, now),
         UNCHANGED <<downloads, state, initTimers>>
  PROVE  Timed(calls)' /\ InitiationTimed'
BY EventKeeps DEF Event, Idle

LEMMA DownloadEventTimed ==
  ASSUME DownloadAssumption, TimeoutInvariant, NEW d \in Downloads, DownloadEvent(d)
  PROVE  Timed(calls)' /\ InitiationTimed'
<1> USE DEF objects
<1>0. TypeOK /\ UserOf[d] \in Users
  BY DEF TimeoutInvariant, DownloadAssumption
<1>a. \A o \in DownOps : o # "release" => Do(o, d) \in PlainCall
  BY PlainCalls
<1>b. \A s \in TrStates : s # "Initiating" => SetState(d, s) \in PlainCall
  BY PlainCalls
<1>1. CASE AddDownload(d)
  <2>1. <<Do("add", d), Do("touch", d)>> \in TimedCalls
    BY <1>a, FewTimed DEF DownOps
  <2> QED BY <1>1, <2>1, QuietEvent DEF AddDownload
<1>2. CASE AbortDownload(d)
  BY <1>2, HandlerTimed, QuietEvent DEF AbortDownload
<1>3. CASE RemoveDownload(d)
  <2>1. <<Do("remove", d)>> \in TimedCalls
    BY <1>a, FewTimed DEF DownOps
  <2> QED BY <1>3, <2>1, QuietEvent DEF RemoveDownload
<1>4. CASE UpdateDownload(d)
  <2>1. <<PeerSocket(UserOf[d]), Do("touch", d)>> \in TimedCalls
    BY <1>0, <1>a, PlainCalls, FewTimed DEF DownOps
  <2> QED BY <1>4, <2>1, QuietEvent DEF UpdateDownload
<1>5. CASE FolderContents(d)
  <2>1. <<Do("add", d), Do("touch", d), Allow>> \in TimedCalls
    BY <1>a, PlainCalls, FewTimed DEF DownOps
  <2> QED BY <1>5, <2>1, QuietEvent DEF FolderContents
<1>6. CASE OfferReceived(d)
  <2>1. (IF atDest[d] THEN <<SetState(d, "Finished")>> ELSE <<>>) \in TimedCalls /\ <<Do("offerRest", d)>> \in TimedCalls
    BY <1>a, <1>b, FewTimed, StateNames DEF DownOps
  <2>2. (IF atDest[d] THEN <<SetState(d, "Finished")>> ELSE <<>>) \o <<Do("offerRest", d)>> \in TimedCalls
    BY <2>1, MoreTimed
  <2> QED BY <1>6, <2>2, QuietEvent DEF OfferReceived
<1>7. CASE PushReceived(d)
  <2>1. <<Do("add", d), Do("touch", d), Do("pushRest", d)>> \in TimedCalls
    BY <1>a, FewTimed DEF DownOps
  <2>2. PreemptCalls(d) \o <<Do("add", d), Do("touch", d), Do("pushRest", d)>> \in TimedCalls
    BY <1>0, <2>1, PreemptTimed, MoreTimed
  <2> QED BY <1>7, <2>2, QuietEvent DEF PushReceived
<1>8. CASE RefusalReceived(d)
  BY <1>8, HandlerTimed, StateNames, QuietEvent DEF RefusalReceived
<1>9. CASE TicketReceived(d)
  <2>1. /\ <<SetState(d, "Transferring")>> \in TimedCalls
        /\ <<Do("disconnected", d), SetState(d, "Transferring"), Do("closed", d)>> \in TimedCalls
    BY <1>a, <1>b, FewTimed, StateNames DEF DownOps
  <2> QED BY <1>9, <2>1, QuietEvent DEF TicketReceived
<1>10. CASE DataReceived(d)
  <2>1. /\ <<Do("touch", d)>> \in TimedCalls
        /\ <<SetState(d, "Finished"), Do("rename", d), Do("disconnected", d), Do("closed", d)>> \in TimedCalls
        /\ <<Do("disconnected", d), Do("closed", d)>> \in TimedCalls
    BY <1>a, <1>b, FewTimed, StateNames DEF DownOps
  <2> QED BY <1>10, <2>1, QuietEvent DEF DataReceived
<1>11. CASE SocketLost(d)
  <2>1. <<Do("disconnected", d), Do("closed", d)>> \in TimedCalls
    BY <1>a, FewTimed DEF DownOps
  <2> QED BY <1>11, <2>1, QuietEvent DEF SocketLost
<1>12. ASSUME NEW timer \in {"tracked", "earlier"}, InitTimedOut(d, timer)
       PROVE  Timed(calls)' /\ InitiationTimed'
  <2>1. <<SetState(d, "QueuedRemotely")>> \in TimedCalls /\ <<>> \in TimedCalls
    BY <1>b, FewTimed, StateNames
  <2>2. /\ calls = <<>> /\ downloads' = downloads /\ state' = state
        /\ calls' = IF state[d] = "Initiating" THEN <<SetState(d, "QueuedRemotely")>> ELSE <<>>
        /\ initTimers' = [initTimers EXCEPT ![d] = initTimers[d] \ {timer}]
    BY <1>12 DEF InitTimedOut, Event, Idle
  <2>3. ASSUME NEW e \in Known, state[e] = "Initiating"
        PROVE  initTimers'[e] = initTimers[e] \/ Pending(calls', e)
    <3>1. CASE e = d
      <4>1. 1 \in 1 .. Len(calls') /\ Ends(calls'[1], e)
        BY <2>2, <2>3, <3>1 DEF SetState, Ends
      <4> QED BY <4>1 DEF Pending
    <3>2. CASE e # d
      BY <1>0, <2>2, <3>2 DEF TypeOK
    <3> QED BY <3>1, <3>2
  <2> QED BY <2>1, <2>2, <2>3, EventKeeps
<1>13. CASE Retry(d)
  <2>1. <<Do("add", d)>> \in TimedCalls
    BY <1>a, FewTimed DEF DownOps
  <2> QED BY <1>13, <2>1, QuietEvent DEF Retry
<1> QED BY <1>1, <1>2, <1>3, <1>4, <1>5, <1>6, <1>7, <1>8, <1>9, <1>10, <1>11, <1>12, <1>13 DEF DownloadEvent

LEMMA UserEventTimed ==
  ASSUME TimeoutInvariant, NEW x \in Users, UserEvent(x)
  PROVE  Timed(calls)' /\ InitiationTimed'
<1> USE DEF objects
<1>0. ReadyCalls(x) \in TimedCalls /\ UnavailableCalls(x) \in TimedCalls /\ OfflineCalls(x) \in TimedCalls
  BY UserTimed DEF TimeoutInvariant
<1>1. CASE AddFolder(x)
  BY <1>1, PlainCalls, FewTimed, QuietEvent DEF AddFolder
<1>2. CASE PeerReady(x)
  BY <1>0, <1>2, QuietEvent DEF PeerReady
<1>3. CASE PeerConnecting(x)
  BY <1>3, FewTimed, QuietEvent DEF PeerConnecting
<1>4. CASE PeerUnavailable(x)
  BY <1>0, <1>4, QuietEvent DEF PeerUnavailable
<1>5. CASE PeerOffline(x)
  BY <1>0, <1>5, QuietEvent DEF PeerOffline
<1>6. CASE PeerLost(x)
  BY <1>6, FewTimed, QuietEvent DEF PeerLost
<1> QED BY <1>1, <1>2, <1>3, <1>4, <1>5, <1>6 DEF UserEvent

\* A process that starts has no download.
LEMMA StartsTimed ==
  ASSUME downloads = <<>>, calls = <<[op |-> "load"]>>
  PROVE  Timed(calls) /\ InitiationTimed
<1>1. calls \in TimedCalls
  BY PlainCalls, FewTimed
<1>2. Known = {}
  BY DEF Known, Range
<1> QED BY <1>1, <1>2 DEF TimedCalls, InitiationTimed

LEMMA RestartTimed ==
  ASSUME Restart
  PROVE  Timed(calls)' /\ InitiationTimed'
<1>1. downloads' = <<>> /\ calls' = <<[op |-> "load"]>>
  BY DEF Restart
<1>2. calls' \in TimedCalls
  BY <1>1, PlainCalls, FewTimed
<1>3. Known' = {}
  BY <1>1 DEF Known, Range
<1> QED BY <1>2, <1>3 DEF TimedCalls, Timed, Ends, InitiationTimed

LEMMA GlobalEventTimed ==
  ASSUME TimeoutInvariant, GlobalEvent
  PROVE  Timed(calls)' /\ InitiationTimed'
<1> USE DEF objects
<1>0. TypeOK
  BY DEF TimeoutInvariant
<1>1. CASE LoggedIn
  BY <1>1, PlainCalls, FewTimed, QuietEvent DEF LoggedIn
<1>2. CASE LoggedOut
  <2>1. Users \in SUBSET Users /\ Len(downloads) \in Nat
    BY <1>0, LenProperties DEF TypeOK
  <2>2. <<Loop("logout", Users)>> \in TimedCalls
    BY <2>1, PlainCalls, FewTimed DEF Loop, Loops
  <2> QED BY <1>2, <2>2, QuietEvent DEF LoggedOut
<1>3. ASSUME NEW n \in Slots, SetSlots(n)
      PROVE  Timed(calls)' /\ InitiationTimed'
  BY <1>3, PlainCalls, FewTimed, QuietEvent DEF SetSlots
<1>4. CASE Shutdown
  BY <1>4, RestartTimed DEF Shutdown
<1>5. CASE Crash
  BY <1>5, RestartTimed DEF Crash
<1> QED BY <1>1, <1>2, <1>3, <1>4, <1>5 DEF GlobalEvent

LEMMA TimeoutInvariantHolds == Spec => []TimeoutInvariant
<1>1. Init => TimeoutInvariant
  BY DownloadAssumption, InitType, StartsTimed DEF Init, TimeoutInvariant
<1>2. TimeoutInvariant /\ [Next]_vars => TimeoutInvariant'
  <2> SUFFICES ASSUME TimeoutInvariant, [Next]_vars
               PROVE  TimeoutInvariant'
    OBVIOUS
  <2>1. TypeOK'
    BY NextType DEF TimeoutInvariant
  <2>2. Timed(calls)' /\ InitiationTimed'
    <3>1. CASE Next
      BY <3>1, DownloadAssumption, StepTimed, DownloadEventTimed, UserEventTimed, GlobalEventTimed DEF Next
    <3>2. CASE UNCHANGED vars
      BY <3>2 DEF TimeoutInvariant, InitiationTimed, Timed, Ends, Pending, Known, vars, objects
    <3> QED BY <3>1, <3>2
  <2> QED BY <2>1, <2>2 DEF TimeoutInvariant
<1> QED BY <1>1, <1>2, PTL DEF Spec

\* Between events, a download that is left Initiating has a timeout pending: no path that
\* removes the timer (setSocket(0), a new socket, the timer itself) leaves it Initiating.
THEOREM InitiationsAreTimed == Spec => []EveryInitiationHasATimeout
<1>1. TimeoutInvariant => EveryInitiationHasATimeout
  <2> SUFFICES ASSUME TimeoutInvariant, calls = <<>>
               PROVE  \A d \in Known : state[d] = "Initiating" => initTimers[d] # {}
    BY DEF EveryInitiationHasATimeout, Idle
  <2>1. \A d : ~Pending(calls, d)
    BY DEF Pending
  <2> QED BY <2>1 DEF TimeoutInvariant, InitiationTimed
<1> QED BY <1>1, TimeoutInvariantHolds, PTL
=============================================================================
