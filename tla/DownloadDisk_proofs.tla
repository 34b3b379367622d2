------------------------- MODULE DownloadDisk_proofs -------------------------
(***************************************************************************)
(* What is on disk (SavedIsCurrent). The list that is saved follows the    *)
(* downloads by way of the calls that will save it; and what a restart     *)
(* must not lose is told by the files: a download is settled when its data *)
(* is all here.                                                            *)
(***************************************************************************)
EXTENDS DownloadQueue_proofs

Settled(d) == whole[d] \/ atDest[d]

\* Calls that assign Finished, that are in the middle of add, that take a transfer for a
\* download and that abort it; and calls that save the list, or run into one that does.
Finishers(d) == {c \in Call : c.op = "setState" /\ c.st = "Finished" /\ c.down = d}
Adders(d)    == {c \in Call : c.op = "addRest" /\ c.down = d}
Takers(d)    == {c \in Call : /\ c.op \in {"pushRest", "accept", "attach"} \/ (c.op = "setState" /\ c.st \in ActiveStates)
                              /\ c.down = d}
Aborters(d)  == {c \in Call : \/ c.op \in {"remove", "abortRest"} /\ c.down = d
                              \/ c.op = "setState" /\ c.st = "Aborted" /\ c.down = d
                              \/ c.op = "loadState" /\ c.entry.download = d}
Savers       == {c \in Call : \/ c.op \in {"check", "disconnected", "addRest", "erase", "allow"}
                              \/ c.op = "setState" /\ c.st \notin ActiveStates}

Among(list, S) == \E k \in 1 .. Len(list) : list[k] \in S
Stacked(S)     == Among(calls, S)
Below(S)       == \E k \in 2 .. Len(calls) : calls[k] \in S

FinishedIsSettled == \A d \in Downloads : state[d] = "Finished" \/ Stacked(Finishers(d)) => Settled(d)

\* complete is true of a new download until add has seen its incomplete file.
CompleteIsSettled == \A d \in Downloads : complete[d] /\ ~Stacked(Adders(d)) => Settled(d)
WholeIsComplete   == \A d \in Known : whole[d] => complete[d]

\* A download that is aborted, or will be, is not taken: only setState would unmark it, and
\* an assignment of an active state is not saved.
Doomed(d)   == (d \in Known /\ state[d] = "Aborted") \/ Stacked(Aborters(d))
TakenIsKept == \A d \in Downloads : Stacked(Takers(d)) /\ Doomed(d) => Settled(d)

ListIsRight ==
  /\ \A d \in Known : state[d] # "Finished" /\ ~Settled(d) => EntryOf(d) \in Range(saved)
  /\ \A e \in Range(saved) : e.download \in Known /\ state[e.download] # "Finished"
SavedNow    == unsaved \/ ListIsRight
SavePending == allowUpdate => SavedNow \/ Stacked(Savers)

Disk == FinishedIsSettled /\ CompleteIsSettled /\ WholeIsComplete /\ TakenIsKept /\ SavePending

\* What is on the stack when a call has returned.
LEMMA StackedNow ==
  ASSUME calls \in Seq(Call), calls # <<>>, NEW now \in Seq(Call), Return(now), NEW S
  PROVE  /\ Stacked(S) <=> Top \in S \/ Below(S)
         /\ Stacked(S)' <=> Among(now, S) \/ Below(S)
<1>1. /\ Len(now) \in Nat /\ Len(calls) \in Nat \ {0} /\ Top = calls[1]
      /\ \A k \in 1 .. Len(now) : k \in 1 .. Len(calls') /\ calls'[k] = now[k]
  BY StackPositions
<1>2. PICK up \in [2 .. Len(calls) -> 1 .. Len(calls')] :
           /\ \A i \in 2 .. Len(calls) : calls'[up[i]] = calls[i]
           /\ \A k \in 1 .. Len(calls') : k \in 1 .. Len(now) \/ \E i \in 2 .. Len(calls) : k = up[i]
  BY StackMoves
<1>3. Stacked(S) <=> Top \in S \/ Below(S)
  <2>1. \A k \in 1 .. Len(calls) : k = 1 \/ k \in 2 .. Len(calls)
    BY <1>1
  <2>2. 1 \in 1 .. Len(calls) /\ \A k \in 2 .. Len(calls) : k \in 1 .. Len(calls)
    BY <1>1
  <2> QED BY <1>1, <2>1, <2>2 DEF Stacked, Among, Below
<1>4. Stacked(S)' <=> Among(now, S) \/ Below(S)
  <2>1. Stacked(S)' <=> \E k \in 1 .. Len(calls') : calls'[k] \in S
    BY DEF Stacked, Among
  <2>2. ASSUME Among(now, S) PROVE Stacked(S)'
    BY <1>1, <2>1, <2>2 DEF Among
  <2>3. ASSUME Below(S) PROVE Stacked(S)'
    BY <1>2, <2>1, <2>3 DEF Below
  <2>4. ASSUME Stacked(S)' PROVE Among(now, S) \/ Below(S)
    BY <1>1, <1>2, <2>1, <2>4 DEF Among, Below
  <2> QED BY <2>2, <2>3, <2>4
<1> QED BY <1>3, <1>4

\* The invariant after a step that does not lose what is settled, revive what is finished,
\* take what is aborted or change the list unsaved.
LEMMA DiskStep ==
  ASSUME TypeOK, Disk, NEW op, Running(op), NEW now \in Seq(Call), Return(now),
         \A d \in Downloads : Settled(d) => Settled(d)',
         \A d \in Downloads : state'[d] = "Finished" => state[d] = "Finished" \/ Top \in Finishers(d),
         \A d \in Downloads : Among(now, Finishers(d)) => Settled(d)',
         \A d \in Downloads : complete'[d] =>
           \/ Settled(d)' \/ Among(now, Adders(d))
           \/ complete[d] /\ Top \notin Adders(d),
         WholeIsComplete',
         \/ TakenIsKept'
         \/ \A d \in Downloads : ~Settled(d)' =>
              /\ Among(now, Takers(d)) => Top \in Takers(d)
              /\ Among(now, Aborters(d)) => Top \in Aborters(d)
              /\ d \in Known' /\ state'[d] = "Aborted" => (d \in Known /\ state[d] = "Aborted") \/ Top \in Aborters(d),
         allowUpdate' =>
           \/ SavedNow' \/ Among(now, Savers)
           \/ allowUpdate /\ Top \notin Savers /\ (SavedNow => SavedNow')
  PROVE  Disk'
<1>1. calls \in Seq(Call) /\ calls # <<>>
  BY TopType
<1>2. \A S : Stacked(S) <=> Top \in S \/ Below(S)
  BY <1>1, StackedNow
<1>3. \A S : Stacked(S)' <=> Among(now, S) \/ Below(S)
  BY <1>1, StackedNow
<1>4. FinishedIsSettled'
  <2>1. \A d \in Downloads : state[d] = "Finished" \/ Top \in Finishers(d) \/ Below(Finishers(d)) => Settled(d)
    BY <1>2 DEF Disk, FinishedIsSettled
  <2>2. \A d \in Downloads : state'[d] = "Finished" \/ Among(now, Finishers(d)) \/ Below(Finishers(d)) => Settled(d)'
    BY <2>1
  <2>3. \A d : Stacked(Finishers(d))' <=> Among(now, Finishers(d)) \/ Below(Finishers(d))
    BY <1>3
  <2> QED BY <2>2, <2>3 DEF FinishedIsSettled
<1>5. CompleteIsSettled'
  <2>1. \A d \in Downloads : complete[d] /\ Top \notin Adders(d) /\ ~Below(Adders(d)) => Settled(d)
    BY <1>2 DEF Disk, CompleteIsSettled
  <2>2. \A d \in Downloads : complete'[d] /\ ~Among(now, Adders(d)) /\ ~Below(Adders(d)) => Settled(d)'
    BY <2>1
  <2>3. \A d : Stacked(Adders(d))' <=> Among(now, Adders(d)) \/ Below(Adders(d))
    BY <1>3
  <2> QED BY <2>2, <2>3 DEF CompleteIsSettled
<1>6. TakenIsKept'
  <2> SUFFICES ASSUME ~TakenIsKept', NEW d \in Downloads, Stacked(Takers(d))', Doomed(d)', ~Settled(d)'
               PROVE  FALSE
    BY DEF TakenIsKept
  <2>1. /\ Stacked(Takers(d))' <=> Among(now, Takers(d)) \/ Below(Takers(d))
        /\ Stacked(Aborters(d))' <=> Among(now, Aborters(d)) \/ Below(Aborters(d))
    BY <1>3
  <2>2. /\ Stacked(Takers(d)) <=> Top \in Takers(d) \/ Below(Takers(d))
        /\ Stacked(Aborters(d)) <=> Top \in Aborters(d) \/ Below(Aborters(d))
    BY <1>2
  <2>3. ~Settled(d)
    OBVIOUS
  <2>4. Stacked(Takers(d)) /\ Doomed(d)
    BY <2>1, <2>2 DEF Doomed
  <2> QED BY <2>3, <2>4 DEF Disk, TakenIsKept
<1>7. SavePending'
  <2>1. Stacked(Savers) <=> Top \in Savers \/ Below(Savers)
    BY <1>2
  <2>2. Stacked(Savers)' <=> Among(now, Savers) \/ Below(Savers)
    BY <1>3
  <2> QED BY <2>1, <2>2 DEF Disk, SavePending
<1> QED BY <1>4, <1>5, <1>6, <1>7 DEF Disk

\* A saved list stays right while nothing leaves Finished or changes its mark but what is settled.
LEMMA SavedStays ==
  ASSUME TypeOK, FinishedIsSettled, SavedNow, UNCHANGED <<saved, unsaved>>, Known' = Known,
         \A d \in Downloads : Settled(d) => Settled(d)',
         \A d \in Known : state'[d] = "Finished" => state[d] = "Finished",
         \A d \in Known : ~Settled(d)' => (state'[d] = "Aborted" <=> state[d] = "Aborted")
  PROVE  SavedNow'
<1> SUFFICES ASSUME ~unsaved PROVE ListIsRight'
  BY DEF SavedNow
<1>0. ListIsRight
  BY DEF SavedNow
<1>1. \A d \in Known : d \in Downloads
  BY ElementOfSeq DEF Known, Range, TypeOK
<1>2. ASSUME NEW d \in Known, state'[d] # "Finished", ~Settled(d)'
      PROVE  EntryOf(d)' \in Range(saved)
  <2>1. d \in Downloads /\ ~Settled(d)
    BY <1>1, <1>2
  <2>2. state[d] # "Finished"
    BY <2>1 DEF FinishedIsSettled
  <2>3. EntryOf(d) \in Range(saved)
    BY <1>0, <2>1, <2>2 DEF ListIsRight
  <2>4. CASE state'[d] = "Aborted"
    <3>1. state[d] = "Aborted"
      BY <1>2, <2>4
    <3> QED BY <2>3, <2>4, <3>1 DEF EntryOf
  <2>5. CASE state'[d] # "Aborted"
    <3>1. state[d] # "Aborted"
      BY <1>2, <2>5
    <3> QED BY <2>3, <2>5, <3>1 DEF EntryOf
  <2> QED BY <2>4, <2>5
<1>3. \A e \in Range(saved) : e.download \in Known /\ state'[e.download] # "Finished"
  BY <1>0 DEF ListIsRight
<1> QED BY <1>2, <1>3 DEF ListIsRight

\* The list that has just been saved is right, or is known not to have been saved.
LEMMA SavedByList ==
  ASSUME TypeOK', state' = state, Save(downloads')
  PROVE  SavedNow'
<1> SUFFICES ASSUME ~unsaved' PROVE ListIsRight'
  BY DEF SavedNow
<1>0. saved' = ToSave(downloads')
  BY DEF Save
<1> DEFINE list == downloads'
<1>1. list \in Seq(Downloads)
  BY DEF TypeOK
<1>2. Known' = {list[n] : n \in 1 .. Len(list)}
  <2>1. DOMAIN list = 1 .. Len(list)
    BY <1>1, LenProperties
  <2> QED BY <2>1 DEF Known, Range
<1>3. Range(saved') = {EntryOf(list[n]) : n \in {k \in 1 .. Len(list) : state[list[k]] # "Finished"}}
  <2> HIDE DEF list
  <2>1. Range(ToSave(list)) = {EntryOf(list[n]) : n \in {k \in 1 .. Len(list) : state[list[k]] # "Finished"}}
    BY <1>1, SavedEntries
  <2>2. saved' = ToSave(list)
    BY <1>0 DEF list
  <2> QED BY <2>1, <2>2
<1>4. \A d : EntryOf(d)' = EntryOf(d)
  BY DEF EntryOf
<1> HIDE DEF list
<1>5. \A d \in Known' : state'[d] # "Finished" => EntryOf(d)' \in Range(saved')
  BY <1>2, <1>3, <1>4
<1>6. ASSUME NEW e \in Range(saved')
      PROVE  e.download \in Known' /\ state'[e.download] # "Finished"
  <2>1. PICK n \in 1 .. Len(list) : state[list[n]] # "Finished" /\ e = EntryOf(list[n])
    BY <1>3
  <2>2. e.download = list[n]
    BY <2>1 DEF EntryOf
  <2> QED BY <1>2, <2>1, <2>2
<1> QED BY <1>5, <1>6 DEF ListIsRight

-----------------------------------------------------------------------------
(* Calls that neither take a download, nor abort nor finish one.           *)

Harmless ==
  {c \in Call : /\ c.op \notin {"pushRest", "accept", "attach", "remove", "abortRest", "loadState"}
                /\ c.op = "setState" => c.st \notin ActiveStates \union {"Finished", "Aborted"}}

LEMMA HarmlessCalls ==
  /\ \A d \in Downloads, s \in FailedStates \union {"QueuedRemotely", "Offline"} : SetState(d, s) \in Harmless
  /\ \A d \in Downloads, o \in DownOps \ {"pushRest", "accept", "attach", "remove", "abortRest"} : Do(o, d) \in Harmless
  /\ \A i \in Nat \ {0} : CheckFrom(i) \in Harmless
  /\ CheckDownloads \in Harmless
  /\ \A x \in Users : PeerSocket(x) \in Harmless /\ Start(x) \in Harmless
  /\ \A o \in Loops, w \in SUBSET Users, i \in Nat \ {0}, e \in Nat : LoopFrom(o, w, i, e) \in Harmless
  /\ Allow \in Harmless
  /\ \A list \in Seq(Entries) : LoadRest(list) \in Harmless
<1> USE CallTypes DEF Harmless
<1>1. \A d \in Downloads, s \in FailedStates \union {"QueuedRemotely", "Offline"} : SetState(d, s) \in Harmless
  BY DEF SetState, TrStates, ActiveStates, FailedStates
<1>2. \A d \in Downloads, o \in DownOps \ {"pushRest", "accept", "attach", "remove", "abortRest"} : Do(o, d) \in Harmless
  BY DEF Do, DownOps
<1>3. \A i \in Nat \ {0} : CheckFrom(i) \in Harmless
  BY DEF CheckFrom
<1>4. CheckDownloads \in Harmless
  BY <1>3 DEF CheckDownloads
<1>5. \A x \in Users : PeerSocket(x) \in Harmless /\ Start(x) \in Harmless
  BY DEF PeerSocket, Start
<1>6. \A o \in Loops, w \in SUBSET Users, i \in Nat \ {0}, e \in Nat : LoopFrom(o, w, i, e) \in Harmless
  BY DEF LoopFrom
<1>7. Allow \in Harmless
  BY DEF Allow
<1>8. \A list \in Seq(Entries) : LoadRest(list) \in Harmless
  BY DEF LoadRest
<1> QED BY <1>1, <1>2, <1>3, <1>4, <1>5, <1>6, <1>7, <1>8

LEMMA FewHarmless ==
  /\ <<>> \in Seq(Harmless)
  /\ \A a \in Harmless : <<a>> \in Seq(Harmless)
  /\ \A a, b \in Harmless : <<a, b>> \in Seq(Harmless)
  /\ \A a, b, c \in Harmless : <<a, b, c>> \in Seq(Harmless)
  OBVIOUS

LEMMA MoreHarmless ==
  ASSUME NEW s \in Seq(Harmless), NEW t \in Seq(Harmless)
  PROVE  s \o t \in Seq(Harmless) /\ \A c \in Harmless : Append(s, c) \in Seq(Harmless)
  BY ConcatProperties, AppendProperties

\* What such a list holds none of.
LEMMA HarmlessHolds ==
  ASSUME NEW s \in Seq(Harmless)
  PROVE  s \in Seq(Call) /\ \A d : ~Among(s, Finishers(d)) /\ ~Among(s, Takers(d)) /\ ~Among(s, Aborters(d))
<1>1. \A k \in 1 .. Len(s) : s[k] \in Harmless
  BY ElementOfSeq
<1>2. s \in Seq(Call)
  BY DEF Harmless
<1>3. \A d : ~Among(s, Finishers(d))
  BY <1>1 DEF Among, Finishers, Harmless
<1>4. \A d : ~Among(s, Takers(d))
  BY <1>1 DEF Among, Takers, Harmless
<1>5. \A d : ~Among(s, Aborters(d))
  BY <1>1 DEF Among, Aborters, Harmless
<1> QED BY <1>2, <1>3, <1>4, <1>5

\* What drops a socket, makes a download fail, or makes it give way.
LEMMA DropHarmless ==
  ASSUME NEW d \in Downloads
  PROVE  /\ DropSocket(d) \in Seq(Harmless)
         /\ \A s \in FailedStates : Fail(d, s) \in Seq(Harmless)
<1>1. DropSocket(d) \in Seq(Harmless)
  <2>1. (IF socket[d] = "none" THEN <<>> ELSE <<Do("disconnected", d)>>) \in Seq(Harmless)
    BY HarmlessCalls, FewHarmless DEF DownOps
  <2>2. <<Do("release", d)>> \in Seq(Harmless)
    BY HarmlessCalls, FewHarmless DEF DownOps
  <2> QED BY <2>1, <2>2, MoreHarmless DEF DropSocket
<1>2. ASSUME NEW s \in FailedStates
      PROVE  Fail(d, s) \in Seq(Harmless)
  <2>1. <<Do("unenqueue", d), SetState(d, s)>> \in Seq(Harmless)
    BY HarmlessCalls, FewHarmless DEF DownOps
  <2> QED BY <1>1, <2>1, MoreHarmless DEF Fail
<1> QED BY <1>1, <1>2

LEMMA PreemptHarmless ==
  ASSUME DownloadAssumption, TypeOK, NEW d \in Downloads
  PROVE  PreemptCalls(d) \in Seq(Harmless)
<1> DEFINE other == downloading[UserOf[d]]
           t == <<SetState(other, "QueuedRemotely"), Do("unenqueue", other), Do("enqueue", other)>>
<1>1. CASE other \in {d, NoDownload}
  BY <1>1, FewHarmless DEF PreemptCalls
<1>2. CASE other \notin {d, NoDownload}
  <2>1. other \in Downloads
    BY <1>2 DEF DownloadAssumption, TypeOK
  <2>2. PreemptCalls(d) = DropSocket(other) \o t
    BY <1>2 DEF PreemptCalls
  <2> HIDE DEF other
  <2>3. t \in Seq(Harmless)
    BY <2>1, HarmlessCalls, FewHarmless DEF DownOps
  <2> HIDE DEF t
  <2> QED BY <2>1, <2>2, <2>3, DropHarmless, MoreHarmless
<1> QED BY <1>1, <1>2

LEMMA UserHarmless ==
  ASSUME DownloadAssumption, TypeOK, NEW x \in Users
  PROVE  ReadyCalls(x) \in Seq(Harmless) /\ OfflineCalls(x) \in Seq(Harmless) /\ UnavailableCalls(x) \in Seq(Harmless)
<1>1. Loop("requeueOffline", {x}) \in Harmless /\ Loop("peerOffline", {x}) \in Harmless /\ Start(x) \in Harmless
  <2>1. {x} \in SUBSET Users /\ "requeueOffline" \in Loops /\ "peerOffline" \in Loops /\ 1 \in Nat \ {0}
    BY DEF Loops
  <2>2. Len(downloads) \in Nat
    BY LenProperties DEF TypeOK
  <2> QED BY <2>1, <2>2, HarmlessCalls DEF Loop
<1>2. ReadyCalls(x) \in Seq(Harmless) /\ OfflineCalls(x) \in Seq(Harmless)
  BY <1>1, FewHarmless DEF ReadyCalls, OfflineCalls
<1>3. UnavailableCalls(x) \in Seq(Harmless)
  <2>1. downloading[x] # NoDownload => downloading[x] \in Downloads
    BY DEF TypeOK
  <2>2. "CannotConnect" \in FailedStates
    BY DEF FailedStates
  <2> QED BY <2>1, <2>2, DropHarmless, FewHarmless DEF UnavailableCalls
<1> QED BY <1>2, <1>3

\* A call returns that changes nothing on disk or of the downloads, and takes or ends none
\* of them that it was not about.
LEMMA CalmDisk ==
  ASSUME TypeOK, Disk, NEW op, Running(op), NEW now \in Seq(Call), Return(now),
         UNCHANGED <<downloads, state, complete, whole, atDest, saved, unsaved>>, allowUpdate' => allowUpdate \/ Among(now, Savers),
         Top \in Savers => Among(now, Savers) /\ \A d \in Downloads : Top \notin Adders(d),
         \A d \in Downloads : Among(now, Finishers(d)) => Settled(d),
         \/ TakenIsKept'
         \/ \A d \in Downloads : ~Settled(d) =>
              /\ Among(now, Takers(d)) => Top \in Takers(d)
              /\ Among(now, Aborters(d)) => Top \in Aborters(d)
  PROVE  Disk'
<1>1. Known' = Known
  BY DEF Known
<1>2. \A d : Settled(d)' <=> Settled(d)
  BY DEF Settled
<1>3. WholeIsComplete'
  BY <1>1 DEF Disk, WholeIsComplete
<1>4. \A d : Adders(d) \subseteq Savers
  BY DEF Adders, Savers
<1>5. SavedNow => SavedNow'
  BY <1>1, <1>2, SavedStays DEF Disk
<1> QED BY <1>1, <1>2, <1>3, <1>4, <1>5, DiskStep

LEMMA QuietDisk ==
  ASSUME TypeOK, Disk, NEW op, Running(op), op \notin {"setState", "check", "disconnected", "addRest", "erase", "allow"},
         NEW now \in Seq(Harmless), Return(now),
         UNCHANGED <<downloads, state, complete, whole, atDest, saved, unsaved>>, allowUpdate' => allowUpdate
  PROVE  Disk'
<1>1. Top \notin Savers
  BY TopType DEF Savers
<1>2. now \in Seq(Call) /\ \A d : ~Among(now, Finishers(d)) /\ ~Among(now, Takers(d)) /\ ~Among(now, Aborters(d))
  BY HarmlessHolds
<1> QED BY <1>1, <1>2, CalmDisk

\* A handler that no other waits for takes none that is aborted.
LEMMA LastTakes ==
  ASSUME TypeOK, StackInvariant, NEW op \in LastOps, Running(op), NEW now \in Seq(Call), Return(now),
         \A d \in Downloads : Among(now, Takers(d)) =>
           ~Among(now, Aborters(d)) /\ ~(d \in Known' /\ state'[d] = "Aborted")
  PROVE  TakenIsKept'
<1>1. calls \in Seq(Call) /\ calls # <<>> /\ Top.op = op
  BY TopType
<1>2. Top = calls[1] /\ Len(calls) \in Nat \ {0}
  BY <1>1, HeadTailProperties, LenProperties DEF Top
<1>3. Len(calls) = 1
  <2>1. 1 \in 1 .. Len(calls)
    BY <1>2
  <2> QED BY <1>1, <1>2, <2>1 DEF StackInvariant, LastIsLast
<1>4. \A S : ~Below(S)
  <2>1. \A k \in 2 .. Len(calls) : FALSE
    BY <1>3
  <2> QED BY <2>1 DEF Below
<1>5. \A S : Stacked(S)' <=> Among(now, S)
  BY <1>1, <1>4, StackedNow
<1> QED BY <1>5 DEF TakenIsKept, Doomed

\* A list that neither takes nor finishes a download.
Sparing == {c \in Call : \A d : c \notin Takers(d) /\ c \notin Finishers(d)}

LEMMA SparingHolds ==
  /\ Harmless \subseteq Sparing
  /\ \A e \in Entries : [op |-> "loadState", entry |-> e] \in Sparing
  /\ \A d \in Downloads : SetState(d, "Aborted") \in Sparing /\ Do("remove", d) \in Sparing /\ Do("abortRest", d) \in Sparing
  /\ \A s \in Seq(Sparing) : \A d : ~Among(s, Takers(d)) /\ ~Among(s, Finishers(d))
<1>1. Harmless \subseteq Sparing
  BY DEF Harmless, Sparing, Takers, Finishers
<1>2. \A e \in Entries : [op |-> "loadState", entry |-> e] \in Sparing
  BY CallTypes DEF Sparing, Takers, Finishers
<1>3. \A d \in Downloads : SetState(d, "Aborted") \in Sparing /\ Do("remove", d) \in Sparing /\ Do("abortRest", d) \in Sparing
  <2>1. "Aborted" \in TrStates /\ "Aborted" \notin ActiveStates
    BY DEF TrStates, ActiveStates
  <2> QED BY <2>1, CallTypes DEF Sparing, Takers, Finishers, SetState, Do, DownOps
<1>4. ASSUME NEW s \in Seq(Sparing)
      PROVE  \A d : ~Among(s, Takers(d)) /\ ~Among(s, Finishers(d))
  <2>1. \A k \in 1 .. Len(s) : s[k] \in Sparing
    BY ElementOfSeq
  <2> QED BY <2>1 DEF Among, Sparing
<1> QED BY <1>1, <1>2, <1>3, <1>4

\* Loading the list.
LEMMA LoadDisk ==
  ASSUME TypeOK, StackInvariant, Disk, DoLoad \/ DoLoadRest \/ DoLoadState \/ DoAllow
  PROVE  Disk'
<1> USE DEF objects, disk
<1>1. CASE DoLoad
  <2> DEFINE now == IF hasFile THEN <<LoadRest(saved)>> ELSE <<>>
  <2>1. /\ Running("load") /\ Return(now) /\ allowUpdate' = FALSE
        /\ UNCHANGED <<downloads, state, complete, whole, atDest, saved, unsaved>>
    BY <1>1 DEF DoLoad
  <2>2. now \in Seq(Harmless)
    BY HarmlessCalls, FewHarmless DEF TypeOK
  <2> HIDE DEF now
  <2> QED BY <2>1, <2>2, QuietDisk
<1>2. CASE DoLoadRest
  <2> DEFINE rest == Top.list
             a == Do("add", Head(rest).download)
             b == [op |-> "loadState", entry |-> Head(rest)]
             c == LoadRest(Tail(rest))
             now == IF rest = <<>> THEN <<Allow>> ELSE <<a, b, c>>
  <2>1. /\ Running("loadRest") /\ Top.op = "loadRest" /\ Return(now)
        /\ UNCHANGED <<downloads, state, complete, whole, atDest, saved, unsaved, allowUpdate>>
    <3>1. Running("loadRest")
      BY <1>2 DEF DoLoadRest
    <3> QED BY <1>2, <3>1, TopType DEF DoLoadRest
  <2>2. rest \in Seq(Entries)
    BY <2>1, TopType, CallFields
  <2>3. Allow \in Sparing /\ (rest # <<>> => a \in Sparing /\ b \in Sparing /\ c \in Sparing)
    <3> HIDE DEF rest
    <3>1. rest # <<>> => Head(rest) \in Entries /\ Tail(rest) \in Seq(Entries)
      BY <2>2, HeadTailProperties
    <3>2. rest # <<>> => Head(rest).download \in Downloads
      BY <3>1 DEF Entries
    <3>3. Allow \in Sparing
      BY HarmlessCalls, SparingHolds
    <3>4. rest # <<>> => a \in Sparing
      BY <3>2, HarmlessCalls, SparingHolds DEF DownOps
    <3>5. rest # <<>> => b \in Sparing
      BY <3>1, SparingHolds
    <3>6. rest # <<>> => c \in Sparing
      BY <3>1, HarmlessCalls, SparingHolds
    <3> QED BY <3>3, <3>4, <3>5, <3>6
  <2> HIDE DEF a, b, c, rest
  <2>4. now \in Seq(Sparing)
    BY <2>3
  <2>5. now \in Seq(Call)
    BY <2>3 DEF Sparing
  <2> HIDE DEF now
  <2>6. TakenIsKept'
    BY <2>1, <2>4, <2>5, SparingHolds, LastTakes DEF LastOps
  <2>7. Top \notin Savers
    BY <2>1 DEF Savers
  <2> QED BY <2>1, <2>4, <2>5, <2>6, <2>7, SparingHolds, CalmDisk
<1>3. CASE DoLoadState
  <2> DEFINE d == Top.entry.download
             s == IF Top.entry.aborted THEN "Aborted" ELSE "Offline"
             a == SetState(d, s)
             b == Do("touch", d)
             now == IF d \in Known THEN <<a, b>> ELSE <<>>
  <2>1. /\ Running("loadState") /\ Top \in Call /\ Top.op = "loadState" /\ Return(now)
        /\ UNCHANGED <<downloads, state, complete, whole, atDest, saved, unsaved, allowUpdate>>
    <3>1. Running("loadState")
      BY <1>3 DEF DoLoadState
    <3> QED BY <1>3, <3>1, TopType DEF DoLoadState
  <2>2. d \in Downloads /\ s \in {"Aborted", "Offline"}
    BY <2>1, CallFields DEF Entries
  <2>3. Top \in Aborters(d) /\ Top \notin Savers
    BY <2>1 DEF Aborters, Savers
  <2> HIDE DEF d, s
  <2>4. a \in Sparing /\ b \in Sparing
    <3>1. SetState(d, "Aborted") \in Sparing
      BY <2>2, SparingHolds
    <3>2. SetState(d, "Offline") \in Sparing
      BY <2>2, HarmlessCalls, SparingHolds
    <3>3. b \in Sparing
      BY <2>2, HarmlessCalls, SparingHolds DEF DownOps
    <3> QED BY <2>2, <3>1, <3>2, <3>3
  <2>5. \A x : (a \in Aborters(x) => x = d) /\ b \notin Aborters(x)
    BY DEF Aborters, SetState, Do
  <2> HIDE DEF a, b
  <2>6. now \in Seq(Sparing) /\ \A k \in 1 .. Len(now) : now[k] = a \/ now[k] = b
    BY <2>4
  <2>7. now \in Seq(Call)
    BY <2>6 DEF Sparing
  <2> HIDE DEF now
  <2>8. \A x : Among(now, Aborters(x)) => x = d
    BY <2>5, <2>6 DEF Among
  <2> QED BY <2>1, <2>3, <2>6, <2>7, <2>8, SparingHolds, CalmDisk
<1>4. CASE DoAllow
  <2> DEFINE now == <<CheckDownloads>>
  <2>1. /\ Running("allow") /\ Top.op = "allow" /\ Return(now)
        /\ UNCHANGED <<downloads, state, complete, whole, atDest, saved, unsaved>>
    <3>1. Running("allow")
      BY <1>4 DEF DoAllow
    <3> QED BY <1>4, <3>1, TopType DEF DoAllow
  <2>2. CheckDownloads \in Harmless /\ CheckDownloads \in Savers
    BY CallTypes, HarmlessCalls DEF Savers, CheckDownloads, CheckFrom
  <2>3. now \in Seq(Harmless) /\ Among(now, Savers)
    <3>1. 1 \in 1 .. Len(now) /\ now[1] = CheckDownloads
      OBVIOUS
    <3> QED BY <2>2, <3>1 DEF Among
  <2>4. \A x : Top \notin Adders(x)
    BY <2>1 DEF Adders
  <2> HIDE DEF now
  <2> QED BY <2>1, <2>3, <2>4, HarmlessHolds, CalmDisk
<1> QED BY <1>1, <1>2, <1>3, <1>4

-----------------------------------------------------------------------------
(* The steps of the handlers that set a state or drop a socket.            *)

LEMMA TopStacked ==
  ASSUME TypeOK, NEW op, Running(op), NEW S, Top \in S
  PROVE  Stacked(S)
<1>1. Top = calls[1] /\ Len(calls) \in Nat /\ calls # <<>>
  BY TopType, HeadTailProperties, LenProperties DEF Top
<1>2. 1 \in 1 .. Len(calls)
  BY <1>1, TopType, LenProperties
<1> QED BY <1>1, <1>2 DEF Stacked, Among

LEMMA AftermathLists ==
  ASSUME NEW d \in Downloads, NEW s \in TrStates
  PROVE  /\ s \in ActiveStates => Aftermath(d, s) = <<>>
         /\ s \notin ActiveStates =>
              \/ Aftermath(d, s) = <<CheckDownloads>>
              \/ s = "Finished" /\ Aftermath(d, s) = <<CheckDownloads, Do("remove", d)>>
<1> DEFINE a == CheckDownloads
           b == Do("remove", d)
<1>1. a \in Call /\ b \in Call
  BY CallTypes DEF DownOps
<1>2. <<a>> \o <<>> = <<a>> /\ <<a>> \o <<b>> = <<a, b>> /\ <<>> \o <<>> = <<>>
  <2> HIDE DEF a, b
  <2>1. <<a>> \o <<>> = <<a>>
    BY <1>1
  <2>2. <<a>> \o <<b>> = <<a, b>>
    BY <1>1, OneMore, AppendIsConcat, FewCalls
  <2>3. <<>> \o <<>> = <<>>
    BY FewCalls, ConcatEmptySeq
  <2> QED BY <2>1, <2>2, <2>3
<1>3. s \in ActiveStates => s # "Finished"
  BY DEF ActiveStates
<1> DEFINE f == IF s \in ActiveStates THEN <<>> ELSE <<a>>
           g == IF s = "Finished" /\ s # state[d] /\ config.options.autoClear THEN <<b>> ELSE <<>>
<1>4. Aftermath(d, s) = f \o g
  BY DEF Aftermath
<1>5. CASE s \in ActiveStates
  <2>1. f = <<>> /\ g = <<>>
    BY <1>3, <1>5
  <2> HIDE DEF a, b, f, g
  <2> QED BY <1>2, <1>4, <1>5, <2>1
<1>6. CASE s \notin ActiveStates
  <2>1. f = <<a>> /\ (g = <<>> \/ (s = "Finished" /\ g = <<b>>))
    BY <1>6
  <2>2. Aftermath(d, s) = <<a>> \/ (s = "Finished" /\ Aftermath(d, s) = <<a, b>>)
    <3> HIDE DEF a, b, f, g
    <3> QED BY <1>2, <1>4, <2>1
  <2> QED BY <1>6, <2>2
<1> QED BY <1>5, <1>6

\* What a list of one or two calls holds.
LEMMA FewAmong ==
  /\ \A S : ~Among(<<>>, S)
  /\ \A a \in Call : \A S : Among(<<a>>, S) <=> a \in S
  /\ \A a, b \in Call : \A S : Among(<<a, b>>, S) <=> a \in S \/ b \in S
<1>1. \A S : ~Among(<<>>, S)
  BY DEF Among
<1>2. ASSUME NEW a \in Call
      PROVE  \A S : Among(<<a>>, S) <=> a \in S
  <2>1. Len(<<a>>) = 1 /\ <<a>>[1] = a /\ 1 \in 1 .. 1 /\ \A k \in 1 .. 1 : k = 1
    OBVIOUS
  <2> QED BY <2>1 DEF Among
<1>3. ASSUME NEW a \in Call, NEW b \in Call
      PROVE  \A S : Among(<<a, b>>, S) <=> a \in S \/ b \in S
  <2>1. /\ Len(<<a, b>>) = 2 /\ <<a, b>>[1] = a /\ <<a, b>>[2] = b
        /\ 1 \in 1 .. 2 /\ 2 \in 1 .. 2 /\ \A k \in 1 .. 2 : k = 1 \/ k = 2
    OBVIOUS
  <2> QED BY <2>1 DEF Among
<1> QED BY <1>1, <1>2, <1>3

\* The calls that check, erase or remove, among the others.
LEMMA CheckSaves ==
  /\ CheckDownloads \in Call /\ CheckDownloads \in Savers
  /\ \A x : CheckDownloads \notin Finishers(x) /\ CheckDownloads \notin Takers(x) /\ CheckDownloads \notin Aborters(x)
  /\ \A d, x : /\ Do("remove", d) \notin Finishers(x) /\ Do("remove", d) \notin Takers(x)
               /\ Do("remove", d) \in Aborters(x) => x = d
<1>1. CheckDownloads \in Call /\ CheckDownloads.op = "check"
  BY CallTypes DEF CheckDownloads, CheckFrom
<1>2. \A d : Do("remove", d).op = "remove" /\ Do("remove", d).down = d
  BY DEF Do
<1> QED BY <1>1, <1>2 DEF Savers, Finishers, Takers, Aborters

LEMMA SetStateDisk ==
  ASSUME TypeOK, Disk, DoSetState
  PROVE  Disk'
<1> DEFINE d == Top.down
           s == Top.st
           now == Aftermath(d, s)
<1>1. /\ Running("setState") /\ Top.op = "setState" /\ Top \in Call /\ Return(now)
      /\ UNCHANGED <<downloads, allowUpdate, whole, atDest, saved, unsaved>> /\ Known' = Known
      /\ state' = [state EXCEPT ![d] = s] /\ complete' = [complete EXCEPT ![d] = @ \/ s = "Finished"]
  <2>1. Running("setState")
    BY DEF DoSetState
  <2> QED BY <2>1, TopType DEF DoSetState, disk, Known
<1>2. d \in Downloads /\ s \in TrStates
  BY <1>1, TopType, CallFields
<1>3. now \in Seq(Call)
  BY <1>2, HandlerCalls
<1>4. state'[d] = s /\ \A x \in Downloads : x # d => state'[x] = state[x]
  BY <1>1, <1>2 DEF TypeOK
<1>5. \A x \in Downloads : (complete[x] => complete'[x]) /\ (complete'[x] => complete[x] \/ (x = d /\ s = "Finished"))
  BY <1>1, <1>2 DEF TypeOK
<1>6. \A x : Settled(x)' <=> Settled(x)
  BY <1>1 DEF Settled
<1>7. WholeIsComplete'
  <2>1. Known \subseteq Downloads
    BY ElementOfSeq DEF Known, Range, TypeOK
  <2> QED BY <1>1, <1>5, <2>1 DEF Disk, WholeIsComplete
<1>8. \A x \in Downloads : x = d /\ s = "Finished" <=> Top \in Finishers(x)
  BY <1>1, <1>2 DEF Finishers
<1>9. \A x \in Downloads : Top \in Finishers(x) => Settled(x)
  BY <1>1, TopStacked DEF Disk, FinishedIsSettled
<1>10. \A x \in Downloads : Top \notin Adders(x)
  BY <1>1 DEF Adders
<1>11. CASE s \in ActiveStates
  <2>1. now = <<>>
    BY <1>2, <1>11, AftermathLists
  <2>2. s # "Aborted" /\ s # "Finished"
    BY <1>11 DEF ActiveStates
  <2>3. Top \notin Savers
    BY <1>1, <1>11 DEF Savers
  <2>4. d \in Known /\ state[d] = "Aborted" => Settled(d)
    <3>1. Top \in Takers(d)
      BY <1>1, <1>11 DEF Takers
    <3>2. Stacked(Takers(d))
      BY <1>1, <3>1, TopStacked
    <3> QED BY <1>2, <3>2 DEF Disk, TakenIsKept, Doomed
  <2> HIDE DEF d, s, now
  <2>5. SavedNow => SavedNow'
    <3>1. Known \subseteq Downloads
      BY ElementOfSeq DEF Known, Range, TypeOK
    <3>2. \A x \in Known : state'[x] = "Finished" => state[x] = "Finished"
      BY <1>4, <2>2, <3>1
    <3>3. \A x \in Known : ~Settled(x)' => (state'[x] = "Aborted" <=> state[x] = "Aborted")
      BY <1>4, <1>6, <2>2, <2>4, <3>1
    <3> QED BY <1>1, <1>6, <3>2, <3>3, SavedStays DEF Disk
  <2>6. \A S : ~Among(now, S)
    BY <2>1, FewAmong
  <2> QED BY <1>1, <1>3, <1>4, <1>5, <1>6, <1>7, <1>8, <1>9, <1>10, <2>2, <2>3, <2>5, <2>6, DiskStep
<1>12. CASE s \notin ActiveStates
  <2>1. Among(now, Savers)
    BY <1>2, <1>12, AftermathLists, FewAmong, CheckSaves, CallTypes DEF DownOps
  <2>2. \A x : ~Among(now, Finishers(x)) /\ ~Among(now, Takers(x))
    BY <1>2, <1>12, AftermathLists, FewAmong, CheckSaves, CallTypes DEF DownOps
  <2>3. \A x : Among(now, Aborters(x)) => x = d /\ s = "Finished"
    BY <1>2, <1>12, AftermathLists, FewAmong, CheckSaves, CallTypes DEF DownOps
  <2>4. s = "Aborted" => Top \in Aborters(d)
    BY <1>1 DEF Aborters
  <2> HIDE DEF d, s, now
  <2>5. \A x \in Downloads : ~Settled(x)' =>
          /\ ~Among(now, Aborters(x))
          /\ x \in Known' /\ state'[x] = "Aborted" => (x \in Known /\ state[x] = "Aborted") \/ Top \in Aborters(x)
    BY <1>1, <1>4, <1>6, <1>8, <1>9, <2>3, <2>4
  <2> QED BY <1>1, <1>3, <1>4, <1>5, <1>6, <1>7, <1>8, <1>9, <1>10, <2>1, <2>2, <2>5, DiskStep
<1> QED BY <1>11, <1>12

\* A call returns that has looked at the incomplete file of a download.
LEMMA SeenDisk ==
  ASSUME TypeOK, Disk, NEW op, Running(op), NEW now \in Seq(Call), Return(now),
         UNCHANGED <<downloads, state, whole, atDest, saved, unsaved, allowUpdate>>,
         NEW d \in Downloads, NEW v \in BOOLEAN, complete' = [complete EXCEPT ![d] = v],
         whole[d] => v, v => Settled(d),
         \A x \in Downloads : Top \in Adders(x) => x = d,
         Top \in Savers => Among(now, Savers),
         \A x \in Downloads : Among(now, Finishers(x)) => Settled(x),
         \/ TakenIsKept'
         \/ \A x \in Downloads : ~Settled(x) =>
              /\ Among(now, Takers(x)) => Top \in Takers(x)
              /\ Among(now, Aborters(x)) => Top \in Aborters(x)
  PROVE  Disk'
<1>1. Known' = Known
  BY DEF Known
<1>2. \A x : Settled(x)' <=> Settled(x)
  BY DEF Settled
<1>3. complete'[d] = v /\ \A x \in Downloads : x # d => complete'[x] = complete[x]
  BY DEF TypeOK
<1>4. WholeIsComplete'
  <2>1. Known \subseteq Downloads
    BY ElementOfSeq DEF Known, Range, TypeOK
  <2> QED BY <1>1, <1>3, <2>1 DEF Disk, WholeIsComplete
<1>5. SavedNow => SavedNow'
  BY <1>1, <1>2, SavedStays DEF Disk
<1>6. \A x \in Downloads : complete'[x] => Settled(x)' \/ (complete[x] /\ Top \notin Adders(x))
  BY <1>2, <1>3
<1> QED BY <1>1, <1>2, <1>4, <1>5, <1>6, DiskStep

LEMMA SetterDisk ==
  ASSUME TypeOK, StackInvariant, Disk,
         DoSetState \/ DoDisconnected \/ DoRelease \/ DoClosed \/ DoEnqueue \/ DoTouch
  PROVE  Disk'
<1> USE DEF objects, disk
<1> DEFINE d == Top.down
<1>0. <<>> \in Seq(Harmless) /\ <<>> \in Seq(Call)
  BY FewHarmless, FewCalls
<1>1. CASE DoSetState
  BY <1>1, SetStateDisk
<1>2. CASE DoDisconnected
  <2> DEFINE s == IF complete[d] THEN "Finished" ELSE "ConnectionClosed"
             c == SetState(d, s)
  <2>1. /\ Running("disconnected") /\ Top.op = "disconnected" /\ Return(<<c>>)
        /\ UNCHANGED <<downloads, state, complete, whole, atDest, saved, unsaved, allowUpdate>>
    <3>1. Running("disconnected")
      BY <1>2 DEF DoDisconnected
    <3> QED BY <1>2, <3>1, TopType DEF DoDisconnected
  <2>2. d \in Downloads
    BY <2>1, TopType, CallFields DEF DownOps
  <2>3. complete[d] => Settled(d)
    <3>1. calls \in Seq(Call) /\ Len(calls) \in Nat /\ Top = calls[1] /\ ~Nested(Top)
      BY <2>1, TopType, HeadTailProperties, LenProperties DEF Top, Nested
    <3>2. ASSUME NEW k \in 1 .. Len(calls), calls[k] \in Adders(d)
          PROVE  FALSE
      <4>1. Partial(calls[k]) /\ calls[k].op = "addRest"
        BY <3>2 DEF Adders, Partial
      <4>2. k # 1
        BY <2>1, <3>1, <4>1
      <4>3. 1 \in 1 .. k - 1
        BY <3>1, <4>2
      <4> QED BY <3>1, <4>1, <4>3 DEF StackInvariant, PartialIsCovered
    <3>3. ~Stacked(Adders(d))
      BY <3>2 DEF Stacked, Among
    <3> QED BY <2>2, <3>3 DEF Disk, CompleteIsSettled
  <2>4. c.op = "setState" /\ c.down = d /\ c.st = s /\ s \in {"Finished", "ConnectionClosed"} /\ s \notin ActiveStates
    BY DEF SetState, ActiveStates
  <2>5. c \in Call
    BY <2>2, StateNames, CallTypes
  <2>6. /\ c \in Savers /\ \A x : c \notin Takers(x) /\ c \notin Aborters(x)
        /\ \A x \in Downloads : c \in Finishers(x) => Settled(x)
    <3>1. s = "Finished" => Settled(d)
      BY <2>3
    <3> HIDE DEF c, s
    <3> QED BY <2>4, <2>5, <3>1 DEF Savers, Takers, Aborters, Finishers
  <2> DEFINE now == <<c>>
  <2> HIDE DEF c
  <2>7. /\ now \in Seq(Call) /\ Among(now, Savers) /\ \A x : ~Among(now, Takers(x)) /\ ~Among(now, Aborters(x))
        /\ \A x \in Downloads : Among(now, Finishers(x)) => Settled(x)
    BY <2>5, <2>6, FewAmong
  <2>8. \A x : Top \notin Adders(x)
    BY <2>1 DEF Adders
  <2>9. Return(now)
    BY <2>1
  <2> HIDE DEF now
  <2> QED BY <2>1, <2>7, <2>8, <2>9, CalmDisk
<1>3. CASE DoRelease
  <2>1. /\ Running("release") /\ Return(<<>>)
        /\ UNCHANGED <<downloads, state, complete, whole, atDest, saved, unsaved, allowUpdate>>
    BY <1>3 DEF DoRelease
  <2> QED BY <1>0, <2>1, QuietDisk
<1>4. CASE DoClosed
  <2>1. /\ Running("closed") /\ Return(<<>>)
        /\ UNCHANGED <<downloads, state, complete, whole, atDest, saved, unsaved, allowUpdate>>
    BY <1>4 DEF DoClosed
  <2> QED BY <1>0, <2>1, QuietDisk
<1>5. CASE DoEnqueue
  <2>1. /\ Running("unenqueue") \/ Running("enqueue")
        /\ Return(<<>>) /\ UNCHANGED <<downloads, state, complete, whole, atDest, saved, unsaved, allowUpdate>>
    BY <1>5 DEF DoEnqueue
  <2> QED BY <1>0, <2>1, QuietDisk
<1>6. CASE DoTouch
  <2>1. /\ Running("touch") /\ Top.op = "touch" /\ Return(<<>>)
        /\ UNCHANGED <<downloads, state, whole, atDest, saved, unsaved, allowUpdate>>
    <3>1. Running("touch")
      BY <1>6 DEF DoTouch
    <3> QED BY <1>6, <3>1, TopType DEF DoTouch
  <2>2. CASE UNCHANGED complete
    BY <1>0, <2>1, <2>2, QuietDisk
  <2>3. CASE complete' = [complete EXCEPT ![d] = whole[d] \/ state[d] = "Finished"]
    <3> DEFINE v == whole[d] \/ state[d] = "Finished"
    <3>1. d \in Downloads
      BY <2>1, TopType, CallFields DEF DownOps
    <3>2. v \in BOOLEAN /\ (whole[d] => v) /\ (v => Settled(d))
      BY <3>1 DEF Disk, FinishedIsSettled, Settled
    <3>3. complete' = [complete EXCEPT ![d] = v]
      BY <2>3
    <3>4. Top \notin Savers /\ \A x : Top \notin Adders(x)
      BY <2>1 DEF Savers, Adders
    <3> HIDE DEF d, v
    <3>5. \A S : ~Among(<<>>, S)
      BY FewAmong
    <3> QED BY <1>0, <2>1, <3>1, <3>2, <3>3, <3>4, <3>5, SeenDisk
  <2> QED BY <1>6, <2>2, <2>3 DEF DoTouch
<1> QED BY <1>1, <1>2, <1>3, <1>4, <1>5, <1>6

-----------------------------------------------------------------------------
(* checkDownloads, the peer sockets and the loops.                         *)

LEMMA CheckDisk ==
  ASSUME DownloadAssumption, TypeOK, TypeOK', Disk, DoCheckDownloads
  PROVE  Disk'
<1> DEFINE wanted == {j \in Top.i .. Len(downloads) : Wanted(downloads[j])}
<1>1. /\ Running("check") /\ Top.op = "check" /\ Top.i \in Nat \ {0}
      /\ UNCHANGED <<downloads, state, complete, whole, atDest, allowUpdate>> /\ Known' = Known
  <2>1. Running("check")
    BY DEF DoCheckDownloads
  <2> QED BY <2>1, TopType, CallFields DEF DoCheckDownloads, objects, Known
<1>2. \A x : Settled(x)' <=> Settled(x)
  BY <1>1 DEF Settled
<1>3. \A x : Top \notin Adders(x)
  BY <1>1 DEF Adders
<1>4. WholeIsComplete'
  BY <1>1 DEF Disk, WholeIsComplete
<1>5. ASSUME NEW now \in Seq(Harmless), Return(now), allowUpdate' => SavedNow' \/ Among(now, Savers)
      PROVE  Disk'
  BY <1>1, <1>2, <1>3, <1>4, <1>5, HarmlessHolds, DiskStep
<1>6. ASSUME Return(<<>>), allowUpdate' => SavedNow'
      PROVE  Disk'
  BY <1>5, <1>6, FewHarmless
<1>7. CASE ~allowUpdate /\ Return(<<>>)
  BY <1>1, <1>6, <1>7
<1>8. CASE Return(<<>>) /\ Save(downloads)
  <2>1. Save(downloads')
    BY <1>1, <1>8
  <2> QED BY <1>1, <1>6, <1>8, <2>1, SavedByList
<1>9. ASSUME NEW j \in First(wanted), Return(AskAndGoOn(j))
      PROVE  Disk'
  <2> DEFINE a == PeerSocket(UserOf[downloads[j]])
             b == CheckFrom(j + 1)
             now == <<a, b>>
  <2>1. Len(downloads) \in Nat
    BY LenProperties DEF TypeOK
  <2>2. j \in wanted
    BY FirstElement
  <2>3. j \in 1 .. Len(downloads) /\ j + 1 \in Nat \ {0}
    BY <1>1, <2>1, <2>2
  <2>4. UserOf[downloads[j]] \in Users
    BY <2>3, ListElement DEF DownloadAssumption
  <2>5. a \in Harmless /\ b \in Harmless /\ a \in Call /\ b \in Call /\ b \in Savers
    BY <2>3, <2>4, CallTypes, HarmlessCalls DEF Savers, CheckFrom
  <2>6. Return(now)
    BY <1>9 DEF AskAndGoOn
  <2> HIDE DEF a, b
  <2>7. now \in Seq(Harmless) /\ Among(now, Savers)
    BY <2>5, FewHarmless, FewAmong
  <2> HIDE DEF now
  <2> QED BY <1>5, <2>6, <2>7
<1> QED BY <1>7, <1>8, <1>9 DEF DoCheckDownloads

LEMMA PeerDisk ==
  ASSUME DownloadAssumption, TypeOK, Disk, DoPeerSocket \/ DoStart
  PROVE  Disk'
<1> USE DEF objects, disk
<1>0. <<>> \in Seq(Harmless) /\ <<>> \in Seq(Call)
  BY FewHarmless, FewCalls
<1>1. CASE DoPeerSocket
  <2> DEFINE x == Top.user
  <2>1. /\ Running("peerSocket")
        /\ UNCHANGED <<downloads, state, complete, whole, atDest, saved, unsaved, allowUpdate>>
    BY <1>1 DEF DoPeerSocket
  <2>2. x \in Users
    BY <2>1, TopType, CallFields
  <2>3. Return(<<>>) \/ Return(ReadyCalls(x)) \/ Return(OfflineCalls(x))
    BY <1>1 DEF DoPeerSocket
  <2> HIDE DEF x
  <2>4. ASSUME NEW now \in Seq(Harmless), Return(now)
        PROVE  Disk'
    BY <2>1, <2>4, QuietDisk
  <2> QED BY <1>0, <2>2, <2>3, <2>4, UserHarmless
<1>2. CASE DoStart
  <2> DEFINE first == Initiated(Top.user)
  <2>1. /\ Running("start") /\ Top.op = "start" /\ Return(<<>>)
        /\ UNCHANGED <<downloads, complete, whole, atDest, saved, unsaved, allowUpdate>> /\ Known' = Known
    <3>1. Running("start")
      BY <1>2 DEF DoStart
    <3> QED BY <1>2, <3>1, TopType DEF DoStart, Known
  <2>2. \A d \in Downloads : state'[d] = IF d \in first THEN "Initiating" ELSE state[d]
    BY <1>2 DEF DoStart
  <2>3. \A d \in first : state[d] = "QueuedRemotely"
    BY FirstElement DEF Initiated, WantedQueued
  <2> HIDE DEF first
  <2>4. \A d \in Downloads : /\ state'[d] = "Finished" <=> state[d] = "Finished"
                             /\ state'[d] = "Aborted" <=> state[d] = "Aborted"
    BY <2>2, <2>3
  <2>5. \A d : Settled(d)' <=> Settled(d)
    BY <2>1 DEF Settled
  <2>6. Top \notin Savers /\ \A d : Top \notin Adders(d)
    BY <2>1 DEF Savers, Adders
  <2>7. WholeIsComplete'
    BY <2>1 DEF Disk, WholeIsComplete
  <2>8. Known \subseteq Downloads
    BY ElementOfSeq DEF Known, Range, TypeOK
  <2>9. SavedNow => SavedNow'
    BY <2>1, <2>4, <2>5, <2>8, SavedStays DEF Disk
  <2>10. \A S : ~Among(<<>>, S)
    BY FewAmong
  <2> QED BY <1>0, <2>1, <2>4, <2>5, <2>6, <2>7, <2>9, <2>10, DiskStep
<1> QED BY <1>1, <1>2

LEMMA LoopDisk ==
  ASSUME DownloadAssumption, TypeOK, Disk, DoLoop
  PROVE  Disk'
<1> DEFINE over == Top.over
           last == IF Top.end < Len(downloads) THEN Top.end ELSE Len(downloads)
           hits == {j \in Top.i .. last : Selected(over, Top.who, downloads[j])}
           now(j) == Append(IterationCalls(over, downloads[j]), LoopFrom(over, Top.who, j + 1, Top.end))
<1>1. Running("loop") /\ UNCHANGED <<downloads, state, complete, whole, atDest, saved, unsaved, allowUpdate>>
  BY DEF DoLoop, disk
<1>2. over \in Loops /\ Top.who \in SUBSET Users /\ Top.i \in Nat \ {0} /\ Top.end \in Nat /\ Len(downloads) \in Nat
  BY <1>1, TopType, CallFields, LenProperties DEF TypeOK
<1>3. Return(<<>>) \/ \E j \in First(hits) : Return(now(j))
  BY DEF DoLoop
<1>4. CASE Return(<<>>)
  BY <1>1, <1>4, FewHarmless, QuietDisk
<1>5. ASSUME NEW j \in First(hits), Return(now(j))
      PROVE  Disk'
  <2> DEFINE d == downloads[j]
             n == now(j)
             c == LoopFrom(over, Top.who, j + 1, Top.end)
  <2>1. j \in Nat \ {0} /\ j \in 1 .. Len(downloads)
    <3>1. j \in hits
      BY FirstElement
    <3> QED BY <1>2, <3>1
  <2>2. d \in Downloads
    BY <2>1, ListElement
  <2>3. c \in Harmless
    BY <1>2, <2>1, HarmlessCalls
  <2>4. IterationCalls(over, d) \in Seq(Harmless)
    BY <1>2, <2>2, HarmlessCalls, FewHarmless DEF IterationCalls, Loops, DownOps
  <2>5. n = Append(IterationCalls(over, d), c) /\ Return(n)
    BY <1>5
  <2> HIDE DEF c, d, over, n
  <2>6. n \in Seq(Harmless)
    BY <2>3, <2>4, <2>5, MoreHarmless
  <2> QED BY <1>1, <2>5, <2>6, QuietDisk
<1> QED BY <1>3, <1>4, <1>5

-----------------------------------------------------------------------------
(* add, abort and remove.                                                  *)

\* Calls that may abort d, and neither take nor finish any.
Ending(d) == {c \in Sparing : \A x : c \in Aborters(x) => x = d}

LEMMA EndingHolds ==
  ASSUME NEW d \in Downloads, NEW s \in Seq(Ending(d))
  PROVE  /\ s \in Seq(Call)
         /\ \A x : ~Among(s, Finishers(x)) /\ ~Among(s, Takers(x)) /\ (Among(s, Aborters(x)) => x = d)
<1>1. \A k \in 1 .. Len(s) : s[k] \in Ending(d)
  BY ElementOfSeq
<1>2. s \in Seq(Call)
  BY DEF Ending, Sparing
<1> QED BY <1>1, <1>2 DEF Among, Ending, Sparing

LEMMA AbortEnds ==
  ASSUME NEW d \in Downloads
  PROVE  /\ AbortCalls(d) \in Seq(Ending(d)) /\ Append(AbortCalls(d), Do("erase", d)) \in Seq(Ending(d))
         /\ <<>> \in Seq(Ending(d)) /\ <<SetState(d, "Aborted")>> \in Seq(Ending(d)) /\ <<Do("remove", d)>> \in Seq(Ending(d))
<1>1. Harmless \subseteq Ending(d)
  BY SparingHolds DEF Ending, Harmless, Aborters
<1>2. DropSocket(d) \in Seq(Ending(d))
  BY <1>1, DropHarmless
<1> DEFINE u == Do("unenqueue", d)
           r == Do("abortRest", d)
           e == Do("erase", d)
           m == Do("remove", d)
           a == SetState(d, "Aborted")
<1>3. u \in Ending(d) /\ e \in Ending(d)
  BY <1>1, HarmlessCalls DEF DownOps
<1>4. r \in Ending(d) /\ m \in Ending(d)
  BY SparingHolds DEF Ending, Aborters, Do
<1>5. a \in Ending(d)
  BY SparingHolds DEF Ending, Aborters, SetState
<1>6. AbortCalls(d) = DropSocket(d) \o <<u, r>>
  BY DEF AbortCalls
<1> HIDE DEF u, r, e, m, a
<1>7. <<u, r>> \in Seq(Ending(d)) /\ <<>> \in Seq(Ending(d)) /\ <<a>> \in Seq(Ending(d)) /\ <<m>> \in Seq(Ending(d))
  BY <1>3, <1>4, <1>5
<1>8. AbortCalls(d) \in Seq(Ending(d))
  BY <1>2, <1>6, <1>7, ConcatProperties
<1>9. Append(AbortCalls(d), e) \in Seq(Ending(d))
  BY <1>3, <1>8, AppendProperties
<1> QED BY <1>7, <1>8, <1>9 DEF e, m, a

LEMMA AddDisk ==
  ASSUME TypeOK, Disk, DoAdd
  PROVE  Disk'
<1> DEFINE d == Top.down
           a == SetState(d, "QueuedRemotely")
           b == Do("addRest", d)
           now == <<a, b>>
<1>1. /\ Running("add") /\ Top.op = "add" /\ UNCHANGED <<whole, atDest, saved, unsaved, allowUpdate>>
  <2>1. Running("add")
    BY DEF DoAdd
  <2> QED BY <2>1, TopType DEF DoAdd, disk
<1>2. d \in Downloads
  BY <1>1, TopType, CallFields DEF DownOps
<1>3. CASE Return(<<>>) /\ UNCHANGED objects
  <2>1. UNCHANGED <<downloads, state, complete>>
    BY <1>3 DEF objects
  <2> QED BY <1>1, <1>3, <2>1, FewHarmless, QuietDisk
<1>4. CASE /\ downloads' = (IF d \notin Known THEN Append(downloads, d) ELSE downloads)
           /\ state' = (IF d \notin Known THEN [state EXCEPT ![d] = "Offline"] ELSE state)
           /\ complete' = (IF d \notin Known THEN [complete EXCEPT ![d] = TRUE] ELSE complete)
           /\ Return(<<SetState(d, "QueuedRemotely"), Do("addRest", d)>>)
  <2>1. a \in Harmless /\ b \in Harmless /\ a \in Call /\ b \in Call /\ b \in Savers /\ b \in Adders(d)
    BY <1>2, HarmlessCalls, CallTypes, StateNames DEF Savers, Adders, DownOps, Do
  <2>2. Return(now)
    BY <1>4
  <2>3. Known' \subseteq Known \union {d}
    <3>1. CASE d \notin Known
      <4>1. downloads \in Seq(Downloads) /\ downloads' = Append(downloads, d)
        BY <1>4, <3>1 DEF TypeOK
      <4> QED BY <1>2, <4>1, AppendProperties, LenProperties DEF Known, Range
    <3>2. CASE d \in Known
      BY <1>4, <3>2 DEF Known
    <3> QED BY <3>1, <3>2
  <2>4. /\ \A x \in Downloads : x # d \/ d \in Known => state'[x] = state[x] /\ complete'[x] = complete[x]
        /\ d \notin Known => state'[d] = "Offline" /\ complete'[d] = TRUE
    BY <1>2, <1>4 DEF TypeOK
  <2> HIDE DEF d, a, b
  <2>5. now \in Seq(Harmless) /\ Among(now, Savers) /\ Among(now, Adders(d))
    BY <2>1, FewHarmless, FewAmong
  <2> HIDE DEF now
  <2>6. \A x : Settled(x)' <=> Settled(x)
    BY <1>1 DEF Settled
  <2>7. Top \notin Savers /\ \A x : Top \notin Adders(x)
    BY <1>1 DEF Savers, Adders
  <2>8. Known \subseteq Downloads
    BY ElementOfSeq DEF Known, Range, TypeOK
  <2>9. WholeIsComplete'
    BY <1>1, <1>2, <2>3, <2>4, <2>8 DEF Disk, WholeIsComplete
  <2>10. \A x \in Downloads : state'[x] = "Finished" => state[x] = "Finished"
    BY <2>4
  <2>11. \A x \in Downloads : complete'[x] => Among(now, Adders(x)) \/ complete[x]
    BY <2>4, <2>5
  <2>12. \A x \in Downloads : x \in Known' /\ state'[x] = "Aborted" => x \in Known /\ state[x] = "Aborted"
    BY <2>3, <2>4
  <2> QED BY <1>1, <2>2, <2>5, <2>6, <2>7, <2>9, <2>10, <2>11, <2>12, HarmlessHolds, DiskStep
<1> QED BY <1>3, <1>4 DEF DoAdd, Found

LEMMA RemoveDisk ==
  ASSUME TypeOK, TypeOK', Disk, DoAddRest \/ DoAbortRest \/ DoRemove \/ DoErase
  PROVE  Disk'
<1> USE DEF objects, disk
<1> DEFINE d == Top.down
<1>0. d \in Downloads
  <2>1. Running("addRest") \/ Running("abortRest") \/ Running("remove") \/ Running("erase")
    BY DEF DoAddRest, DoAbortRest, DoRemove, DoErase
  <2> QED BY <2>1, TopType, CallFields DEF DownOps
<1>1. CASE DoAddRest
  <2> DEFINE c == CheckDownloads
             f == SetState(d, "Finished")
             v == whole[d]
             now == (IF atDest[d] THEN <<f>> ELSE <<>>) \o <<c>>
  <2>1. /\ Running("addRest") /\ Top.op = "addRest" /\ Return(now) /\ complete' = [complete EXCEPT ![d] = v]
        /\ UNCHANGED <<downloads, state, whole, atDest, saved, unsaved, allowUpdate>>
    <3>1. Running("addRest")
      BY <1>1 DEF DoAddRest
    <3> QED BY <1>1, <3>1, TopType DEF DoAddRest
  <2>2. c \in Call /\ f \in Call
    BY <1>0, CallTypes, StateNames
  <2>3. /\ f.op = "setState" /\ f.down = d /\ f.st = "Finished"
        /\ \A x : (f \in Finishers(x) => x = d) /\ f \notin Takers(x) /\ f \notin Aborters(x)
    BY DEF SetState, Finishers, Takers, Aborters, ActiveStates
  <2>4. v \in BOOLEAN /\ (v => Settled(d)) /\ (atDest[d] => Settled(d))
    BY <1>0 DEF TypeOK, Settled
  <2>5. \A x : Top \in Adders(x) => x = d
    BY DEF Adders
  <2>6. c \in Savers /\ \A x : c \notin Finishers(x) /\ c \notin Takers(x) /\ c \notin Aborters(x)
    BY CheckSaves
  <2>a. whole[d] => v
    OBVIOUS
  <2> HIDE DEF c, f, v, d
  <2>7. now = <<c>> \/ (atDest[d] /\ now = <<f, c>>)
    <3>1. <<f>> \o <<c>> = <<f, c>>
      BY <2>2, OneMore, AppendIsConcat, FewCalls
    <3>2. <<>> \o <<c>> = <<c>>
      BY <2>2, FewCalls, ConcatEmptySeq
    <3> QED BY <3>1, <3>2
  <2> HIDE DEF now
  <2>8. now \in Seq(Call) /\ Among(now, Savers) /\ \A x : ~Among(now, Takers(x)) /\ ~Among(now, Aborters(x))
    <3>1. now \in Seq(Call)
      BY <2>2, <2>7, FewCalls
    <3>2. \A S : Among(now, S) => c \in S \/ f \in S
      BY <2>2, <2>7, FewAmong
    <3>3. Among(now, Savers)
      BY <2>2, <2>6, <2>7, FewAmong
    <3> QED BY <2>3, <2>6, <3>1, <3>2, <3>3
  <2>9. \A x \in Downloads : Among(now, Finishers(x)) => Settled(x)
    BY <2>2, <2>3, <2>4, <2>6, <2>7, FewAmong
  <2> QED BY <1>0, <2>1, <2>4, <2>5, <2>a, <2>8, <2>9, SeenDisk
<1>2. ASSUME NEW op \in {"abortRest", "remove"}, Running(op), NEW now \in Seq(Ending(d)), Return(now),
             UNCHANGED <<downloads, state, complete, whole, atDest, saved, unsaved, allowUpdate>>
      PROVE  Disk'
  <2>1. Top \notin Savers /\ Top \in Aborters(d)
    BY <1>2, TopType DEF Savers, Aborters
  <2> HIDE DEF d
  <2> QED BY <1>0, <1>2, <2>1, EndingHolds, CalmDisk
<1>3. CASE DoAbortRest
  <2>1. Running("abortRest") /\ UNCHANGED <<downloads, state, complete, whole, atDest, saved, unsaved, allowUpdate>>
    BY <1>3 DEF DoAbortRest
  <2>2. Return(<<>>) \/ Return(<<SetState(d, "Aborted")>>)
    BY <1>3 DEF DoAbortRest
  <2> HIDE DEF d
  <2> QED BY <1>0, <1>2, <2>1, <2>2, AbortEnds
<1>4. CASE DoRemove
  <2>1. Running("remove") /\ UNCHANGED <<downloads, state, complete, whole, atDest, saved, unsaved, allowUpdate>>
    BY <1>4 DEF DoRemove
  <2>2. Return(<<>>) \/ Return(Append(AbortCalls(d), Do("erase", d)))
    BY <1>4 DEF DoRemove
  <2> HIDE DEF d
  <2> QED BY <1>0, <1>2, <2>1, <2>2, AbortEnds
<1>5. CASE DoErase
  <2>1. /\ Running("erase") /\ Top.op = "erase" /\ Return(<<>>)
        /\ UNCHANGED <<state, complete, whole, atDest, allowUpdate>> /\ Save(downloads')
    <3>1. Running("erase")
      BY <1>5 DEF DoErase
    <3> QED BY <1>5, <3>1, TopType DEF DoErase
  <2>2. Known' \subseteq Known
    <3>1. CASE \E k \in 1 .. Len(downloads) : downloads[k] = d /\ downloads' = RemoveAt(downloads, k)
      <4>1. PICK k \in 1 .. Len(downloads) : downloads' = RemoveAt(downloads, k)
        BY <3>1
      <4>2. Range(RemoveAt(downloads, k)) \subseteq Known
        BY ListShrinks DEF TypeOK
      <4> QED BY <4>1, <4>2 DEF Known
    <3>2. CASE UNCHANGED downloads
      BY <3>2 DEF Known
    <3> QED BY <1>5, <3>1, <3>2 DEF DoErase
  <2>3. SavedNow'
    BY <2>1, SavedByList
  <2>4. \A x : Settled(x)' <=> Settled(x)
    BY <2>1 DEF Settled
  <2>5. \A x : Top \notin Adders(x)
    BY <2>1 DEF Adders
  <2>6. WholeIsComplete'
    BY <2>1, <2>2 DEF Disk, WholeIsComplete
  <2>7. <<>> \in Seq(Call) /\ \A S : ~Among(<<>>, S)
    BY FewCalls, FewAmong
  <2> HIDE DEF d
  <2> QED BY <2>1, <2>2, <2>3, <2>4, <2>5, <2>6, <2>7, DiskStep
<1> QED BY <1>1, <1>3, <1>4, <1>5

-----------------------------------------------------------------------------
(* A transfer offered by the peer.                                         *)

\* Calls that may take d, and neither abort nor finish any.
Taking(d) == {c \in Call : \A x : c \notin Finishers(x) /\ c \notin Aborters(x) /\ (c \in Takers(x) => x = d)}

LEMMA TakingHolds ==
  ASSUME NEW d \in Downloads, NEW s \in Seq(Taking(d))
  PROVE  /\ s \in Seq(Call)
         /\ \A x : ~Among(s, Finishers(x)) /\ ~Among(s, Aborters(x)) /\ (Among(s, Takers(x)) => x = d)
<1>1. \A k \in 1 .. Len(s) : s[k] \in Taking(d)
  BY ElementOfSeq
<1>2. s \in Seq(Call)
  BY DEF Taking
<1> QED BY <1>1, <1>2 DEF Among, Taking

LEMMA OfferTakes ==
  ASSUME DownloadAssumption, TypeOK, NEW d \in Downloads
  PROVE  /\ Append(PreemptCalls(d), Do("accept", d)) \in Seq(Taking(d))
         /\ (IF socket[d] = "none" THEN <<>> ELSE <<Do("disconnected", d)>>) \o <<Do("attach", d)>> \in Seq(Taking(d))
         /\ <<>> \in Seq(Taking(d)) /\ <<Do("accept", d)>> \in Seq(Taking(d)) /\ <<SetState(d, "Waiting")>> \in Seq(Taking(d))
<1>1. Harmless \subseteq Taking(d)
  BY DEF Taking, Harmless, Finishers, Aborters, Takers
<1> DEFINE a == Do("accept", d)
           t == Do("attach", d)
           w == SetState(d, "Waiting")
           h == Do("disconnected", d)
<1>2. h \in Taking(d)
  BY <1>1, HarmlessCalls DEF DownOps
<1>3. a \in Taking(d) /\ t \in Taking(d)
  BY CallTypes DEF Taking, Finishers, Aborters, Takers, Do, DownOps
<1>4. w \in Taking(d)
  BY CallTypes, StateNames DEF Taking, Finishers, Aborters, Takers, SetState
<1>5. PreemptCalls(d) \in Seq(Taking(d))
  BY <1>1, PreemptHarmless
<1> HIDE DEF a, t, w, h
<1>6. <<>> \in Seq(Taking(d)) /\ <<a>> \in Seq(Taking(d)) /\ <<t>> \in Seq(Taking(d)) /\ <<w>> \in Seq(Taking(d)) /\ <<h>> \in Seq(Taking(d))
  BY <1>2, <1>3, <1>4
<1>7. Append(PreemptCalls(d), a) \in Seq(Taking(d))
  BY <1>3, <1>5, AppendProperties
<1>8. (IF socket[d] = "none" THEN <<>> ELSE <<h>>) \o <<t>> \in Seq(Taking(d))
  BY <1>6, ConcatProperties
<1> QED BY <1>6, <1>7, <1>8 DEF a, t, w, h

LEMMA OfferDisk ==
  ASSUME DownloadAssumption, TypeOK, StackInvariant, Disk,
         DoOfferRest \/ DoPushRest \/ DoAccept \/ DoAttach \/ DoRename
  PROVE  Disk'
<1> USE DEF objects, disk
<1> DEFINE d == Top.down
<1>0. d \in Downloads
  <2>1. Running("offerRest") \/ Running("pushRest") \/ Running("accept") \/ Running("attach") \/ Running("rename")
    BY DEF DoOfferRest, DoPushRest, DoAccept, DoAttach, DoRename
  <2> QED BY <2>1, TopType, CallFields DEF DownOps
<1>1. CASE DoOfferRest
  <2>1. Running("offerRest") /\ UNCHANGED <<downloads, state, complete, whole, atDest, saved, unsaved, allowUpdate>>
    BY <1>1 DEF DoOfferRest
  <2>2. \/ Return(<<>>)
        \/ state[d] \in OfferableStates /\ Return(Append(PreemptCalls(d), Do("accept", d)))
    BY <1>1 DEF DoOfferRest
  <2>3. Top \notin Savers /\ "offerRest" \in LastOps
    BY <2>1, TopType DEF Savers, LastOps
  <2>4. state[d] \in OfferableStates => state[d] # "Aborted"
    BY DEF OfferableStates, FailedStates
  <2> HIDE DEF d
  <2>5. ASSUME NEW now \in Seq(Taking(d)), Return(now), state[d] # "Aborted"
        PROVE  Disk'
    <3>1. now \in Seq(Call) /\ \A x : ~Among(now, Finishers(x)) /\ ~Among(now, Aborters(x)) /\ (Among(now, Takers(x)) => x = d)
      BY <1>0, TakingHolds
    <3>2. TakenIsKept'
      BY <2>1, <2>3, <2>5, <3>1, LastTakes
    <3> QED BY <2>1, <2>3, <2>5, <3>1, <3>2, CalmDisk
  <2>6. CASE Return(<<>>)
    BY <2>1, <2>6, FewHarmless, QuietDisk
  <2> QED BY <1>0, <2>2, <2>4, <2>5, <2>6, OfferTakes
<1>2. ASSUME NEW op \in {"pushRest", "attach"}, Running(op), NEW now \in Seq(Taking(d)), Return(now),
             UNCHANGED <<downloads, state, complete, whole, atDest, saved, unsaved, allowUpdate>>
      PROVE  Disk'
  <2>1. Top \notin Savers /\ Top \in Takers(d)
    BY <1>2, TopType DEF Savers, Takers
  <2> HIDE DEF d
  <2> QED BY <1>0, <1>2, <2>1, TakingHolds, CalmDisk
<1>3. CASE DoPushRest
  <2>1. Running("pushRest") /\ UNCHANGED <<downloads, state, complete, whole, atDest, saved, unsaved, allowUpdate>>
    BY <1>3 DEF DoPushRest
  <2>2. Return(<<>>) \/ Return(<<Do("accept", d)>>)
    BY <1>3 DEF DoPushRest
  <2> HIDE DEF d
  <2> QED BY <1>0, <1>2, <2>1, <2>2, OfferTakes
<1>4. CASE DoAttach
  <2>1. Running("attach") /\ UNCHANGED <<downloads, state, complete, whole, atDest, saved, unsaved, allowUpdate>>
    BY <1>4 DEF DoAttach
  <2>2. Return(<<>>) \/ Return(<<SetState(d, "Waiting")>>)
    BY <1>4 DEF DoAttach
  <2> HIDE DEF d
  <2> QED BY <1>0, <1>2, <2>1, <2>2, OfferTakes
<1>5. CASE DoAccept
  <2> DEFINE v == whole[d] \/ state[d] = "Finished"
             now == (IF socket[d] = "none" THEN <<>> ELSE <<Do("disconnected", d)>>) \o <<Do("attach", d)>>
  <2>1. /\ Running("accept") /\ Top.op = "accept" /\ Return(now) /\ complete' = [complete EXCEPT ![d] = v]
        /\ UNCHANGED <<downloads, state, whole, atDest, saved, unsaved, allowUpdate>>
    <3>1. Running("accept")
      BY <1>5 DEF DoAccept
    <3> QED BY <1>5, <3>1, TopType DEF DoAccept
  <2>2. v \in BOOLEAN /\ (whole[d] => v) /\ (v => Settled(d))
    BY <1>0 DEF Disk, FinishedIsSettled, Settled
  <2>3. Top \notin Savers /\ Top \in Takers(d) /\ \A x : Top \notin Adders(x)
    BY <2>1, TopType DEF Savers, Takers, Adders
  <2>4. now \in Seq(Taking(d))
    BY <1>0, OfferTakes
  <2> HIDE DEF d, v, now
  <2>5. now \in Seq(Call) /\ \A x : ~Among(now, Finishers(x)) /\ ~Among(now, Aborters(x)) /\ (Among(now, Takers(x)) => x = d)
    BY <1>0, <2>4, TakingHolds
  <2> QED BY <1>0, <2>1, <2>2, <2>3, <2>5, SeenDisk
<1>6. CASE DoRename
  <2>1. /\ Running("rename") /\ Top.op = "rename" /\ Return(<<>>)
        /\ UNCHANGED <<downloads, state, complete, saved, unsaved, allowUpdate>> /\ Known' = Known
    <3>1. Running("rename")
      BY <1>6 DEF DoRename
    <3> QED BY <1>6, <3>1, TopType DEF DoRename, Known
  <2>2. \A x \in Downloads : (Settled(x) => Settled(x)') /\ (whole'[x] => whole[x])
    <3>1. CASE UNCHANGED <<atDest, whole>>
      BY <3>1 DEF Settled
    <3>2. CASE atDest' = [atDest EXCEPT ![d] = TRUE] /\ whole' = [whole EXCEPT ![d] = FALSE]
      BY <1>0, <3>2 DEF Settled, TypeOK
    <3> QED BY <1>6, <3>1, <3>2 DEF DoRename
  <2>3. Top \notin Savers /\ \A x : Top \notin Adders(x)
    BY <2>1 DEF Savers, Adders
  <2>4. Known \subseteq Downloads
    BY ElementOfSeq DEF Known, Range, TypeOK
  <2>5. WholeIsComplete'
    BY <2>1, <2>2, <2>4 DEF Disk, WholeIsComplete
  <2>6. SavedNow => SavedNow'
    BY <2>1, <2>2, SavedStays DEF Disk
  <2>7. <<>> \in Seq(Call) /\ \A S : ~Among(<<>>, S)
    BY FewCalls, FewAmong
  <2> HIDE DEF d
  <2> QED BY <2>1, <2>2, <2>3, <2>5, <2>6, <2>7, DiskStep
<1> QED BY <1>1, <1>3, <1>4, <1>5, <1>6

-----------------------------------------------------------------------------
(* Events.                                                                 *)

\* An event finds nothing pending.
LEMMA EventDisk ==
  ASSUME TypeOK, Disk, calls = <<>>, NEW now \in Seq(Call), calls' = now,
         UNCHANGED <<downloads, state, saved, unsaved>>, allowUpdate' => allowUpdate,
         \A d \in Downloads : Settled(d) => Settled(d)',
         \A d \in Downloads : complete'[d] => complete[d] \/ Settled(d)',
         WholeIsComplete',
         \A d \in Downloads : Among(now, Finishers(d)) => Settled(d)',
         \A d \in Downloads : Among(now, Takers(d)) =>
           Settled(d)' \/ (~Among(now, Aborters(d)) /\ ~(d \in Known /\ state[d] = "Aborted"))
  PROVE  Disk'
<1>1. \A S : Stacked(S)' <=> Among(now, S)
  BY DEF Stacked, Among
<1>2. \A S : ~Stacked(S)
  BY FewAmong DEF Stacked
<1>3. Known' = Known
  BY DEF Known
<1>4. FinishedIsSettled'
  BY <1>1 DEF Disk, FinishedIsSettled
<1>5. CompleteIsSettled'
  BY <1>2 DEF Disk, CompleteIsSettled
<1>6. TakenIsKept'
  BY <1>1, <1>3 DEF TakenIsKept, Doomed
<1>7. SavePending'
  <2>1. SavedNow => SavedNow'
    BY <1>3, SavedStays DEF Disk
  <2> QED BY <1>2, <2>1 DEF Disk, SavePending
<1> QED BY <1>4, <1>5, <1>6, <1>7 DEF Disk

LEMMA CalmEvent ==
  ASSUME TypeOK, Disk, calls = <<>>, NEW now \in Seq(Call), calls' = now,
         UNCHANGED <<downloads, state, complete, whole, atDest, saved, unsaved>>, allowUpdate' => allowUpdate,
         \A d \in Downloads : Among(now, Finishers(d)) => Settled(d),
         \A d \in Downloads : Among(now, Takers(d)) => ~Among(now, Aborters(d)) /\ ~(d \in Known /\ state[d] = "Aborted")
  PROVE  Disk'
<1>1. \A d : Settled(d)' <=> Settled(d)
  BY DEF Settled
<1>2. WholeIsComplete'
  BY DEF Disk, WholeIsComplete, Known
<1> QED BY <1>1, <1>2, EventDisk

LEMMA HarmlessEvent ==
  ASSUME TypeOK, Disk, calls = <<>>, NEW now \in Seq(Harmless), calls' = now,
         UNCHANGED <<downloads, state, complete, whole, atDest, saved, unsaved>>, allowUpdate' => allowUpdate
  PROVE  Disk'
  BY HarmlessHolds, CalmEvent

\* The local user, and the folders it asked for.
LEMMA LocalEventDisk ==
  ASSUME DownloadAssumption, TypeOK, Disk, NEW d \in Downloads,
         AddDownload(d) \/ AbortDownload(d) \/ RemoveDownload(d) \/ UpdateDownload(d) \/ FolderContents(d)
  PROVE  Disk'
<1> USE DEF objects, disk, Event, Idle
<1> DEFINE a == Do("add", d)
           t == Do("touch", d)
           p == PeerSocket(UserOf[d])
<1>1. calls = <<>> /\ UNCHANGED <<downloads, state, complete, whole, atDest, saved, unsaved>> /\ (allowUpdate' => allowUpdate)
  BY DEF AddDownload, AbortDownload, RemoveDownload, UpdateDownload, FolderContents
<1>2. a \in Harmless /\ t \in Harmless /\ p \in Harmless /\ Allow \in Harmless
  BY HarmlessCalls DEF DownOps, DownloadAssumption
<1>3. CASE AddDownload(d) \/ UpdateDownload(d) \/ FolderContents(d)
  <2>1. calls' \in {<<a, t>>, <<p, t>>, <<a, t, Allow>>}
    BY <1>3 DEF AddDownload, UpdateDownload, FolderContents
  <2> HIDE DEF a, t, p
  <2>2. <<a, t>> \in Seq(Harmless) /\ <<p, t>> \in Seq(Harmless) /\ <<a, t, Allow>> \in Seq(Harmless)
    BY <1>2, FewHarmless
  <2> QED BY <1>1, <2>1, <2>2, HarmlessEvent
<1>4. CASE AbortDownload(d) \/ RemoveDownload(d)
  <2>1. calls' \in {AbortCalls(d), <<Do("remove", d)>>}
    BY <1>4 DEF AbortDownload, RemoveDownload
  <2>2. calls' \in Seq(Ending(d))
    BY <2>1, AbortEnds
  <2>3. PICK now \in Seq(Ending(d)) : calls' = now
    BY <2>2
  <2>4. now \in Seq(Call) /\ \A x : ~Among(now, Finishers(x)) /\ ~Among(now, Takers(x))
    BY EndingHolds
  <2> QED BY <1>1, <2>3, <2>4, CalmEvent
<1> QED BY <1>3, <1>4

\* The messages of a peer. One that is pushed is none of the downloads there are.
LEMMA MessageDisk ==
  ASSUME DownloadAssumption, TypeOK, Disk, NEW d \in Downloads,
         OfferReceived(d) \/ PushReceived(d) \/ RefusalReceived(d)
  PROVE  Disk'
<1> USE DEF objects, disk, Event, Idle
<1>1. calls = <<>> /\ UNCHANGED <<downloads, state, complete, whole, atDest, saved, unsaved, allowUpdate>>
  BY DEF OfferReceived, PushReceived, RefusalReceived
<1>2. CASE OfferReceived(d)
  <2> DEFINE f == SetState(d, "Finished")
             o == Do("offerRest", d)
             now == (IF atDest[d] THEN <<f>> ELSE <<>>) \o <<o>>
  <2>1. calls' = now
    BY <1>2 DEF OfferReceived
  <2>2. f \in Call /\ o \in Call
    BY CallTypes, StateNames DEF DownOps
  <2>3. /\ \A x : (f \in Finishers(x) => x = d) /\ f \notin Takers(x)
        /\ \A x : o \notin Finishers(x) /\ o \notin Takers(x)
    BY DEF SetState, Do, Finishers, Takers, ActiveStates
  <2>4. atDest[d] => Settled(d)
    BY DEF Settled
  <2> HIDE DEF f, o
  <2>5. now = <<o>> \/ (atDest[d] /\ now = <<f, o>>)
    <3>1. <<f>> \o <<o>> = <<f, o>>
      BY <2>2, OneMore, AppendIsConcat, FewCalls
    <3>2. <<>> \o <<o>> = <<o>>
      BY <2>2, FewCalls, ConcatEmptySeq
    <3> QED BY <3>1, <3>2
  <2> HIDE DEF now
  <2>6. now \in Seq(Call) /\ \A S : Among(now, S) => o \in S \/ (atDest[d] /\ f \in S)
    <3>1. <<o>> \in Seq(Call) /\ <<f, o>> \in Seq(Call)
      BY <2>2
    <3>2. now \in Seq(Call)
      BY <2>5, <3>1
    <3> QED BY <2>2, <2>5, <3>2, FewAmong
  <2>7. \A x \in Downloads : (Among(now, Finishers(x)) => Settled(x)) /\ ~Among(now, Takers(x))
    BY <2>3, <2>4, <2>6
  <2> QED BY <1>1, <2>1, <2>6, <2>7, CalmEvent
<1>3. CASE PushReceived(d)
  <2> DEFINE a == Do("add", d)
             t == Do("touch", d)
             p == Do("pushRest", d)
             now == PreemptCalls(d) \o <<a, t, p>>
  <2>1. calls' = now /\ d \notin Known
    BY <1>3 DEF PushReceived
  <2>2. Harmless \subseteq Taking(d)
    BY DEF Taking, Harmless, Finishers, Aborters, Takers
  <2>3. a \in Taking(d) /\ t \in Taking(d)
    BY <2>2, HarmlessCalls DEF DownOps
  <2>4. p \in Taking(d)
    BY CallTypes DEF Taking, Finishers, Aborters, Takers, Do, DownOps
  <2>5. PreemptCalls(d) \in Seq(Taking(d))
    BY <2>2, PreemptHarmless
  <2> HIDE DEF a, t, p
  <2>6. <<a, t, p>> \in Seq(Taking(d))
    BY <2>3, <2>4
  <2>7. now \in Seq(Taking(d))
    BY <2>5, <2>6, ConcatProperties
  <2> HIDE DEF now
  <2>8. /\ now \in Seq(Call)
        /\ \A x : ~Among(now, Finishers(x)) /\ ~Among(now, Aborters(x)) /\ (Among(now, Takers(x)) => x = d)
    BY <2>7, TakingHolds
  <2> QED BY <1>1, <2>1, <2>8, CalmEvent
<1>4. CASE RefusalReceived(d)
  <2>1. calls' = Fail(d, "RemoteError") /\ "RemoteError" \in FailedStates
    BY <1>4 DEF RefusalReceived, FailedStates
  <2> QED BY <1>1, <2>1, DropHarmless, HarmlessEvent
<1> QED BY <1>2, <1>3, <1>4

\* The transfer sockets and the timers. The last of the data is on disk before the
\* download is set Finished.
LEMMA TransferDisk ==
  ASSUME DownloadAssumption, TypeOK, Disk, NEW d \in Downloads,
         TicketReceived(d) \/ DataReceived(d) \/ SocketLost(d)
  PROVE  Disk'
<1> USE DEF objects, disk, Event, Idle
<1> DEFINE a == Do("disconnected", d)
           b == Do("closed", d)
           r == Do("rename", d)
           t == Do("touch", d)
           s == SetState(d, "Transferring")
           f == SetState(d, "Finished")
<1>1. calls = <<>> /\ UNCHANGED <<downloads, state, atDest, saved, unsaved, allowUpdate>> /\ Known' = Known
  BY DEF TicketReceived, DataReceived, SocketLost, Known
<1>2. /\ a \in Harmless /\ b \in Harmless /\ r \in Harmless /\ t \in Harmless
      /\ a \in Call /\ b \in Call /\ r \in Call /\ t \in Call
  <2>1. a \in Harmless /\ b \in Harmless /\ r \in Harmless /\ t \in Harmless
    BY HarmlessCalls DEF DownOps
  <2> QED BY <2>1 DEF Harmless
<1>3. Known \subseteq Downloads
  BY ElementOfSeq DEF Known, Range, TypeOK
<1>4. CASE TicketReceived(d)
  <2>1. calls' \in {<<s>>, <<a, s, b>>} /\ state[d] = "Waiting" /\ whole' = whole
    BY <1>4 DEF TicketReceived
  <2>2. UNCHANGED complete \/ complete' = [complete EXCEPT ![d] = whole[d]]
    BY <1>4 DEF TicketReceived
  <2>3. Harmless \subseteq Taking(d)
    BY DEF Taking, Harmless, Finishers, Aborters, Takers
  <2>4. s \in Taking(d)
    BY CallTypes, StateNames DEF Taking, Finishers, Aborters, Takers, SetState
  <2> HIDE DEF a, b, s
  <2>5. <<s>> \in Seq(Taking(d)) /\ <<a, s, b>> \in Seq(Taking(d))
    BY <1>2, <2>3, <2>4
  <2>6. PICK now \in Seq(Taking(d)) : calls' = now
    BY <2>1, <2>5
  <2>7. /\ now \in Seq(Call)
        /\ \A x : ~Among(now, Finishers(x)) /\ ~Among(now, Aborters(x)) /\ (Among(now, Takers(x)) => x = d)
    BY TakingHolds
  <2>8. \A x : Settled(x)' <=> Settled(x)
    BY <1>1, <2>1 DEF Settled
  <2>9. \A x \in Downloads : /\ complete'[x] => complete[x] \/ Settled(x)'
                             /\ whole[x] /\ complete[x] => complete'[x]
    BY <2>1, <2>2, <2>8 DEF Settled, TypeOK
  <2>10. WholeIsComplete'
    BY <1>1, <1>3, <2>1, <2>9 DEF Disk, WholeIsComplete
  <2> QED BY <1>1, <2>1, <2>6, <2>7, <2>8, <2>9, <2>10, EventDisk
<1>5. CASE DataReceived(d)
  <2>1. CASE calls' \in {<<t>>, <<a, b>>} /\ UNCHANGED <<complete, whole>>
    <3> HIDE DEF a, b, t
    <3>1. <<t>> \in Seq(Harmless) /\ <<a, b>> \in Seq(Harmless)
      BY <1>2, FewHarmless
    <3> QED BY <1>1, <2>1, <3>1, HarmlessEvent
  <2>2. CASE /\ calls' = <<f, r, a, b>>
             /\ complete' = [complete EXCEPT ![d] = TRUE] /\ whole' = [whole EXCEPT ![d] = TRUE]
    <3> DEFINE now == <<f, r, a, b>>
               Kept == {c \in Call : \A x : c \notin Takers(x) /\ (c \in Finishers(x) => x = d)}
    <3>1. Harmless \subseteq Kept
      BY DEF Harmless, Finishers, Takers
    <3>2. f \in Kept
      BY CallTypes, StateNames DEF SetState, Finishers, Takers, ActiveStates
    <3>3. r \in Kept /\ a \in Kept /\ b \in Kept
      <4> HIDE DEF Kept
      <4> QED BY <1>2, <3>1
    <3>4. calls' = now
      BY <2>2
    <3> HIDE DEF f, r, a, b
    <3>5. now \in Seq(Kept)
      <4> HIDE DEF Kept
      <4> QED BY <3>2, <3>3
    <3> HIDE DEF now
    <3>6. /\ now \in Seq(Call) /\ \A x : ~Among(now, Takers(x)) /\ (Among(now, Finishers(x)) => x = d)
      <4>1. \A k \in 1 .. Len(now) : now[k] \in Kept
        <5> HIDE DEF Kept
        <5> QED BY <3>5, ElementOfSeq
      <4>2. now \in Seq(Call)
        BY <3>5
      <4> QED BY <4>1, <4>2 DEF Among
    <3>7. /\ whole'[d] = TRUE /\ complete'[d] = TRUE
          /\ \A x \in Downloads : x # d => whole'[x] = whole[x] /\ complete'[x] = complete[x]
      BY <2>2 DEF TypeOK
    <3>8. Settled(d)' /\ \A x \in Downloads : Settled(x) => Settled(x)'
      BY <1>1, <3>7 DEF Settled
    <3>9. WholeIsComplete'
      BY <1>1, <1>3, <3>7 DEF Disk, WholeIsComplete
    <3>10. \A x \in Downloads : complete'[x] => complete[x] \/ Settled(x)'
      BY <3>7, <3>8
    <3> QED BY <1>1, <3>4, <3>6, <3>8, <3>9, <3>10, EventDisk
  <2> QED BY <1>5, <2>1, <2>2 DEF DataReceived
<1>6. CASE SocketLost(d)
  <2>1. calls' = <<a, b>> /\ UNCHANGED <<complete, whole>>
    BY <1>6 DEF SocketLost
  <2> HIDE DEF a, b
  <2>2. <<a, b>> \in Seq(Harmless)
    BY <1>2, FewHarmless
  <2> QED BY <1>1, <2>1, <2>2, HarmlessEvent
<1> QED BY <1>4, <1>5, <1>6

LEMMA DownloadEventDisk ==
  ASSUME DownloadAssumption, TypeOK, Disk, NEW d \in Downloads, DownloadEvent(d)
  PROVE  Disk'
<1> USE DEF objects, disk, Event, Idle
<1>1. CASE \E timer \in {"tracked", "earlier"} : InitTimedOut(d, timer)
  <2>1. /\ calls = <<>> /\ UNCHANGED <<downloads, state, complete, whole, atDest, saved, unsaved, allowUpdate>>
        /\ calls' \in {<<SetState(d, "QueuedRemotely")>>, <<>>}
    BY <1>1 DEF InitTimedOut
  <2>2. <<SetState(d, "QueuedRemotely")>> \in Seq(Harmless) /\ <<>> \in Seq(Harmless)
    BY HarmlessCalls, FewHarmless
  <2> QED BY <2>1, <2>2, HarmlessEvent
<1>2. CASE Retry(d)
  <2>1. /\ calls = <<>> /\ UNCHANGED <<downloads, state, complete, whole, atDest, saved, unsaved, allowUpdate>>
        /\ calls' = <<Do("add", d)>>
    BY <1>2 DEF Retry
  <2>2. <<Do("add", d)>> \in Seq(Harmless)
    BY HarmlessCalls, FewHarmless DEF DownOps
  <2> QED BY <2>1, <2>2, HarmlessEvent
<1> QED BY <1>1, <1>2, LocalEventDisk, MessageDisk, TransferDisk DEF DownloadEvent

LEMMA UserEventDisk ==
  ASSUME DownloadAssumption, TypeOK, Disk, NEW x \in Users, UserEvent(x)
  PROVE  Disk'
<1>1. calls = <<>> /\ UNCHANGED <<downloads, state, complete, whole, atDest, saved, unsaved, allowUpdate>>
  BY DEF UserEvent, AddFolder, PeerReady, PeerConnecting, PeerUnavailable, PeerOffline, PeerLost, Event, Idle, objects, disk
<1>2. calls' \in {<<>>, <<PeerSocket(x)>>, ReadyCalls(x), UnavailableCalls(x), OfflineCalls(x)}
  BY DEF UserEvent, AddFolder, PeerReady, PeerConnecting, PeerUnavailable, PeerOffline, PeerLost, Event
<1>3. <<>> \in Seq(Harmless) /\ <<PeerSocket(x)>> \in Seq(Harmless)
  BY HarmlessCalls, FewHarmless
<1> QED BY <1>1, <1>2, <1>3, UserHarmless, HarmlessEvent

\* A process that starts knows no download, and loads the list before it may save it.
Fresh ==
  /\ downloads = <<>> /\ state = [d \in Downloads |-> "Offline"] /\ complete = Never /\ ~allowUpdate
  /\ calls = <<[op |-> "load"]>>

LEMMA StartsOnDisk == Fresh => Disk
<1> SUFFICES ASSUME Fresh
             PROVE  Disk
  OBVIOUS
<1> USE DEF Fresh
<1> DEFINE c == [op |-> "load"]
<1>1. c \in Call /\ c.op = "load"
  BY CallTypes
<1>2. \A d : c \notin Finishers(d) /\ c \notin Takers(d)
  BY <1>1 DEF Finishers, Takers
<1>3. calls = <<c>>
  OBVIOUS
<1> HIDE DEF c
<1>4. \A d : ~Stacked(Finishers(d)) /\ ~Stacked(Takers(d))
  BY <1>1, <1>2, <1>3, FewAmong DEF Stacked
<1>5. FinishedIsSettled
  BY <1>4 DEF FinishedIsSettled
<1>6. CompleteIsSettled
  BY DEF CompleteIsSettled, Never
<1>7. WholeIsComplete
  BY DEF WholeIsComplete, Known, Range
<1>8. TakenIsKept
  BY <1>4 DEF TakenIsKept
<1> QED BY <1>5, <1>6, <1>7, <1>8 DEF Disk, SavePending

LEMMA GlobalEventDisk ==
  ASSUME DownloadAssumption, TypeOK, Disk, GlobalEvent
  PROVE  Disk'
<1>1. CASE LoggedIn \/ LoggedOut \/ \E n \in Slots : SetSlots(n)
  <2>1. calls = <<>> /\ UNCHANGED <<downloads, state, complete, whole, atDest, saved, unsaved, allowUpdate>>
    BY <1>1 DEF LoggedIn, LoggedOut, SetSlots, Event, Idle, objects, disk
  <2>2. calls' \in {<<CheckDownloads>>, <<Loop("logout", Users)>>}
    BY <1>1 DEF LoggedIn, LoggedOut, SetSlots, Event
  <2>3. CheckDownloads \in Harmless /\ Loop("logout", Users) \in Harmless
    <3>1. Users \in SUBSET Users /\ "logout" \in Loops /\ 1 \in Nat \ {0} /\ Len(downloads) \in Nat
      BY LenProperties DEF Loops, TypeOK
    <3> QED BY <3>1, HarmlessCalls DEF Loop
  <2> QED BY <2>1, <2>2, <2>3, FewHarmless, HarmlessEvent
<1>2. CASE Shutdown \/ Crash
  <2>1. Fresh'
    BY <1>2 DEF Shutdown, Crash, Restart, Fresh, Never
  <2>2. Fresh' => Disk'
    BY StartsOnDisk, PTL
  <2> QED BY <2>1, <2>2
<1> QED BY <1>1, <1>2 DEF GlobalEvent

-----------------------------------------------------------------------------
(* The disk, in every state.                                               *)

LEMMA StepOnDisk ==
  ASSUME DownloadAssumption, TypeOK, TypeOK', StackInvariant, Disk, Step
  PROVE  Disk'
BY LoadDisk, SetterDisk, CheckDisk, PeerDisk, LoopDisk, AddDisk, RemoveDisk, OfferDisk DEF Step

LEMMA DiskHolds == Spec => []Disk
<1> USE DownloadAssumption
<1>1. Init => Disk
  BY StartsOnDisk DEF Init, Fresh
<1>2. ListingInvariant /\ ListingInvariant' /\ Disk /\ [Next]_vars => Disk'
  <2> SUFFICES ASSUME ListingInvariant, ListingInvariant', Disk, [Next]_vars
               PROVE  Disk'
    OBVIOUS
  <2>1. TypeOK /\ TypeOK' /\ StackInvariant
    BY DEF ListingInvariant
  <2>2. CASE UNCHANGED vars
    <3>1. UNCHANGED <<downloads, state, complete, whole, atDest, saved, unsaved, allowUpdate, calls>>
      BY <2>2 DEF vars, objects, disk
    <3>2. Known' = Known /\ (\A d : Settled(d)' <=> Settled(d)) /\ (\A d : EntryOf(d)' = EntryOf(d))
          /\ \A S : Stacked(S)' <=> Stacked(S)
      BY <3>1 DEF Known, Settled, EntryOf, Stacked, Among
    <3>3. SavedNow' <=> SavedNow
      BY <3>1, <3>2 DEF SavedNow, ListIsRight
    <3> QED BY <3>1, <3>2, <3>3 DEF Disk, FinishedIsSettled, CompleteIsSettled, WholeIsComplete, TakenIsKept, Doomed, SavePending
  <2> QED BY <2>1, <2>2, StepOnDisk, DownloadEventDisk, UserEventDisk, GlobalEventDisk DEF Next
<1> QED BY <1>1, <1>2, ListingInvariantHolds, PTL DEF Spec

\* Between events, unless the last save failed, the saved list is what a restart needs: every
\* path that changes which downloads it holds, or their marks, reaches a checkDownloads that
\* saves it, and none that skips it takes an aborted download up again unless its data is all
\* here.
THEOREM SavedStaysCurrent == Spec => []SavedIsCurrent
<1>1. TypeOK /\ Disk => SavedIsCurrent
  <2> SUFFICES ASSUME TypeOK, Disk, Idle, allowUpdate, ~unsaved
               PROVE  /\ \A d \in Known : state[d] # "Finished" /\ ~complete[d] /\ ~atDest[d] => EntryOf(d) \in Range(saved)
                      /\ \A e \in Range(saved) : e.download \in Known /\ state[e.download] # "Finished"
    BY DEF SavedIsCurrent
  <2>1. ~Stacked(Savers)
    BY FewAmong DEF Stacked, Idle
  <2>2. SavedNow
    BY <2>1 DEF Disk, SavePending
  <2>3. \A d \in Known : ~complete[d] /\ ~atDest[d] => ~Settled(d)
    BY DEF Disk, WholeIsComplete, Settled
  <2> QED BY <2>2, <2>3 DEF SavedNow, ListIsRight
<1>2. ListingInvariant => TypeOK
  BY DEF ListingInvariant
<1> QED BY <1>1, <1>2, ListingInvariantHolds, DiskHolds, PTL
=============================================================================
