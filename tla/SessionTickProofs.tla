-------------------------- MODULE SessionTickProofs --------------------------
(***************************************************************************)
(* What SessionTick guarantees for every library, every set of operations  *)
(* and every cap: its type invariant, that a pause of the kill switch or   *)
(* of the queue can always be undone, that the kill switch stops all       *)
(* traffic as long as nobody resumes anything, and that a pass of the      *)
(* download queue that works on accurate statuses is exact.                *)
(***************************************************************************)
EXTENDS SessionTick, TLAPS, FiniteSetTheorems, FunctionTheorems, SequenceTheorems

-----------------------------------------------------------------------------
(* The operators that the model is built from *)

\* cachedStatus() always returns a status.
LEMMA CachedStatusType ==
  ASSUME TypeOK, NEW t \in Torrents
  PROVE  CachedStatus(t) \in Status
BY DEF TypeOK, CachedStatus, LiveStatus, Status

\* A removal from the list and a move within it leave a list of torrents.
LEMMA ListOperations ==
  ASSUME NEW s \in Seq(Torrents), NEW i \in 1..Len(s)
  PROVE  /\ RemoveAt(s, i) \in Seq(Torrents)
         /\ \A j \in 1..Len(s) : InsertAt(RemoveAt(s, i), j, s[i]) \in Seq(Torrents)
<1>1. RemoveAt(s, i) \in Seq(Torrents) /\ Len(RemoveAt(s, i)) = Len(s) - 1
  <2>. DEFINE a == SubSeq(s, 1, i-1)
              b == SubSeq(s, i+1, Len(s))
  <2>1. a \in Seq(Torrents) /\ Len(a) = i - 1
    OBVIOUS
  <2>2. b \in Seq(Torrents) /\ Len(b) = Len(s) - i
    OBVIOUS
  <2>. HIDE DEF a, b
  <2>3. a \o b \in Seq(Torrents) /\ Len(a \o b) = Len(a) + Len(b)
    BY <2>1, <2>2
  <2>4. (i - 1) + (Len(s) - i) = Len(s) - 1
    OBVIOUS
  <2>5. Len(a \o b) = Len(s) - 1
    BY <2>1, <2>2, <2>3, <2>4
  <2>6. a \o b \in Seq(Torrents)
    BY <2>3
  <2>7. RemoveAt(s, i) = a \o b
    BY DEF RemoveAt, a, b
  <2>. QED BY <2>5, <2>6, <2>7, Zenon
<1>2. ASSUME NEW j \in 1..Len(s)
      PROVE  InsertAt(RemoveAt(s, i), j, s[i]) \in Seq(Torrents)
  <2>. DEFINE r == RemoveAt(s, i)
  <2>1. r \in Seq(Torrents) /\ Len(r) = Len(s) - 1
    BY <1>1
  <2>. HIDE DEF r
  <2>2. SubSeq(r, 1, j-1) \in Seq(Torrents) /\ SubSeq(r, j, Len(r)) \in Seq(Torrents)
    BY <2>1
  <2>3. InsertAt(r, j, s[i]) \in Seq(Torrents)
    BY <2>2 DEF InsertAt
  <2>. QED BY <2>3 DEF r
<1>. QED BY <1>1, <1>2

\* Pausing and resuming leave a paused flag for every torrent.
LEMMA PauseType ==
  ASSUME NEW S, PauseOnly(S) \/ ResumeOnly(S)
  PROVE  paused' \in [Torrents -> BOOLEAN]
BY DEF PauseOnly, ResumeOnly

\* What enforceDownloadQueue pauses and resumes are torrents with a valid handle.
LEMMA QueueListType ==
  ASSUME TypeOK, NEW fast
  PROVE  Over(fast) \subseteq Torrents \cap valid
BY DEF TypeOK, Over, At, ActiveIndices, InList

-----------------------------------------------------------------------------
(* Type correctness *)

\* The session starts in a well-typed state.
LEMMA InitType == Init => TypeOK
<1>. SUFFICES ASSUME Init PROVE TypeOK
  OBVIOUS
<1>1. Range(Library) \subseteq Torrents
  BY LibraryAssumption DEF Range
<1>2. state \in [Torrents -> State]
  BY LoadedAssumption DEF Init, State
<1>3. bound \in BOOLEAN /\ ksEnabled \in BOOLEAN /\ autoResume \in BOOLEAN /\ proxied \in BOOLEAN
  BY DEF Init
<1>4. torrents \in Seq(Torrents) /\ maxActive \in 0..MaxCap
  BY LibraryAssumption, MaxCapAssumption DEF Init
<1>. QED
  BY <1>1, <1>2, <1>3, <1>4 DEF Init, TypeOK, Steps

\* Every step keeps it.
LEMMA NextType == TypeOK /\ [Next]_vars => TypeOK'
<1>. SUFFICES ASSUME TypeOK, [Next]_vars PROVE TypeOK'
  OBVIOUS
<1>. USE DEF TypeOK, Steps, lt, kill, queue, alert
<1>1. ASSUME NEW inTime \in BOOLEAN, TickStarts(inTime) PROVE TypeOK'
  BY <1>1 DEF TickStarts, LiveStatus, Status
<1>2. ASSUME NEW t \in Torrents, NEW stop \in BOOLEAN, OnTorrentFinished(t, stop) PROVE TypeOK'
  BY <1>2, PauseType DEF OnTorrentFinished
<1>3. ASSUME OnDiskFull PROVE TypeOK'
  BY <1>3, PauseType DEF OnDiskFull
<1>4. ASSUME NEW t \in Torrents, NEW eighth \in BOOLEAN, OnTorrentFault(t, eighth) PROVE TypeOK'
  BY <1>4, PauseType DEF OnTorrentFault
<1>5. ASSUME AlertsEnd PROVE TypeOK'
  BY <1>5, CachedStatusType DEF AlertsEnd
<1>6. ASSUME CheckSeeds PROVE TypeOK'
  BY <1>6, PauseType DEF CheckSeeds, MarkCompleted
<1>7. ASSUME NEW free \in {"critical", "low", "ample"}, CheckDisk(free) PROVE TypeOK'
  BY <1>7, PauseType DEF CheckDisk
<1>8. ASSUME CheckInterface PROVE TypeOK'
  BY <1>8, PauseType DEF CheckInterface, ReleaseKillSwitch
<1>9. ASSUME NEW size \in {"under", "over", "panic"}, CheckMemory(size) PROVE TypeOK'
  BY <1>9, PauseType DEF CheckMemory
<1>10. ASSUME NEW fast \in SUBSET Torrents, EnforceQueue(fast) PROVE TypeOK'
  <2>1. Over(fast) \subseteq Torrents
    BY QueueListType
  <2>2. lastFast' \in [Torrents -> {"none", "recent", "old"}]
    BY <1>10 DEF EnforceQueue, Stamp
  <2>3. queuePaused' \subseteq Torrents
    BY <1>10, <2>1 DEF EnforceQueue
  <2>4. paused' \in [Torrents -> BOOLEAN]
    BY <1>10 DEF EnforceQueue
  <2>. QED
    BY <1>10, <2>2, <2>3, <2>4 DEF EnforceQueue
<1>11. ASSUME NEW t \in Torrents, NEW st \in {"metadata", "downloading"},
                NEW stopped \in BOOLEAN, NEW seen \in BOOLEAN, AddTorrent(t, st, stopped, seen) PROVE TypeOK'
  BY <1>11 DEF AddTorrent, State, Status
<1>12. ASSUME NEW i \in 1..Len(torrents), RemoveTorrent(i) PROVE TypeOK'
  BY <1>12, ListOperations DEF RemoveTorrent
<1>13. ASSUME NEW i \in 1..Len(torrents), PauseTorrent(i) PROVE TypeOK'
  BY <1>13, PauseType DEF PauseTorrent
<1>14. ASSUME NEW i \in 1..Len(torrents), ResumeTorrent(i) PROVE TypeOK'
  BY <1>14, PauseType DEF ResumeTorrent
<1>15. ASSUME NEW i \in 1..Len(torrents), NEW on \in BOOLEAN, SetForceStart(i, on) PROVE TypeOK'
  BY <1>15, PauseType DEF SetForceStart
<1>16. ASSUME NEW i \in 1..Len(torrents), UserMarksCompleted(i) PROVE TypeOK'
  BY <1>16, PauseType DEF UserMarksCompleted, MarkCompleted
<1>17. ASSUME NEW i \in 1..Len(torrents), NEW j \in 1..Len(torrents), SetTorrentQueuePosition(i, j) PROVE TypeOK'
  BY <1>17, ListOperations DEF SetTorrentQueuePosition
<1>18. ASSUME PauseAll PROVE TypeOK'
  BY <1>18, PauseType DEF PauseAll
<1>19. ASSUME ResumeAll PROVE TypeOK'
  BY <1>19, PauseType DEF ResumeAll
<1>20. ASSUME NEW n \in 0..MaxCap, SetMaxActiveDownloads(n) PROVE TypeOK'
  BY <1>20 DEF SetMaxActiveDownloads
<1>21. ASSUME NEW b \in BOOLEAN, SetOutgoingInterface(b) PROVE TypeOK'
  BY <1>21, PauseType DEF SetOutgoingInterface, ReleaseKillSwitch
<1>22. ASSUME NEW on \in BOOLEAN, SetKillSwitchEnabled(on) PROVE TypeOK'
  BY <1>22, PauseType, ZenonT(60) DEF SetKillSwitchEnabled, ReleaseKillSwitch
<1>23. ASSUME NEW on \in BOOLEAN, SetAutoResumeOnReconnect(on) PROVE TypeOK'
  BY <1>23 DEF SetAutoResumeOnReconnect
<1>24. ASSUME NEW on \in BOOLEAN, SetVpnProxy(on) PROVE TypeOK'
  BY <1>24, PauseType, ZenonT(60) DEF SetVpnProxy, ReleaseKillSwitch
<1>25. ASSUME NEW t \in Torrents, Progress(t) PROVE TypeOK'
  BY <1>25 DEF Progress, State
<1>26. ASSUME InterfaceChanges PROVE TypeOK'
  BY <1>26 DEF InterfaceChanges
<1>27. ASSUME NEW S \in SUBSET Torrents, MinutePasses(S) PROVE TypeOK'
  BY <1>27 DEF MinutePasses
<1>28. CASE UNCHANGED vars
  BY <1>28 DEF vars
<1>. QED
  BY <1>1, <1>2, <1>3, <1>4, <1>5, <1>6, <1>7, <1>8, <1>9, <1>10, <1>11, <1>12, <1>13, <1>14, <1>15, <1>16, <1>17, <1>18, <1>19, <1>20, <1>21, <1>22, <1>23, <1>24, <1>25, <1>26, <1>27, <1>28
  DEF Next, Tick, User, Environment

\* Every variable keeps its type for every library, cap and set of operations:
\* in particular the cap is never above the largest value the user gives, and
\* the queue, the kill switch and the completed set hold only torrents.
THEOREM TypeCorrect == Spec => []TypeOK
BY InitType, NextType, PTL DEF Spec

-----------------------------------------------------------------------------
(* Pauses can be undone *)

\* No step leaves a torrent on the kill switch's list while the kill switch is
\* off, or a removed torrent on its list or the queue's.
LEMMA NextOwner ==
  TypeOK /\ PausesHaveAnOwner /\ [Next]_vars => PausesHaveAnOwner'
<1>. SUFFICES ASSUME TypeOK, PausesHaveAnOwner, [Next]_vars PROVE PausesHaveAnOwner'
  OBVIOUS
<1>. USE DEF PausesHaveAnOwner, lt, kill, queue, alert
<1>1. ASSUME NEW inTime \in BOOLEAN, TickStarts(inTime) PROVE PausesHaveAnOwner'
  BY <1>1 DEF TickStarts
<1>2. ASSUME NEW t \in Torrents, NEW stop \in BOOLEAN, OnTorrentFinished(t, stop) PROVE PausesHaveAnOwner'
  BY <1>2 DEF OnTorrentFinished
<1>3. ASSUME OnDiskFull PROVE PausesHaveAnOwner'
  BY <1>3 DEF OnDiskFull
<1>4. ASSUME NEW t \in Torrents, NEW eighth \in BOOLEAN, OnTorrentFault(t, eighth) PROVE PausesHaveAnOwner'
  BY <1>4 DEF OnTorrentFault
<1>5. ASSUME AlertsEnd PROVE PausesHaveAnOwner'
  BY <1>5 DEF AlertsEnd
<1>6. ASSUME CheckSeeds PROVE PausesHaveAnOwner'
  BY <1>6 DEF CheckSeeds
<1>7. ASSUME NEW free \in {"critical", "low", "ample"}, CheckDisk(free) PROVE PausesHaveAnOwner'
  BY <1>7 DEF CheckDisk
<1>8. ASSUME CheckInterface PROVE PausesHaveAnOwner'
  BY <1>8 DEF CheckInterface, ReleaseKillSwitch
<1>9. ASSUME NEW size \in {"under", "over", "panic"}, CheckMemory(size) PROVE PausesHaveAnOwner'
  BY <1>9 DEF CheckMemory
<1>10. ASSUME NEW fast \in SUBSET Torrents, EnforceQueue(fast) PROVE PausesHaveAnOwner'
  BY <1>10, QueueListType DEF EnforceQueue
<1>11. ASSUME NEW t \in Torrents, NEW st \in {"metadata", "downloading"},
                NEW stopped \in BOOLEAN, NEW seen \in BOOLEAN, AddTorrent(t, st, stopped, seen) PROVE PausesHaveAnOwner'
  BY <1>11 DEF AddTorrent
<1>12. ASSUME NEW i \in 1..Len(torrents), RemoveTorrent(i) PROVE PausesHaveAnOwner'
  BY <1>12 DEF RemoveTorrent
<1>13. ASSUME NEW i \in 1..Len(torrents), PauseTorrent(i) PROVE PausesHaveAnOwner'
  BY <1>13 DEF PauseTorrent
<1>14. ASSUME NEW i \in 1..Len(torrents), ResumeTorrent(i) PROVE PausesHaveAnOwner'
  BY <1>14 DEF ResumeTorrent
<1>15. ASSUME NEW i \in 1..Len(torrents), NEW on \in BOOLEAN, SetForceStart(i, on) PROVE PausesHaveAnOwner'
  BY <1>15 DEF SetForceStart
<1>16. ASSUME NEW i \in 1..Len(torrents), UserMarksCompleted(i) PROVE PausesHaveAnOwner'
  BY <1>16 DEF UserMarksCompleted
<1>17. ASSUME NEW i \in 1..Len(torrents), NEW j \in 1..Len(torrents), SetTorrentQueuePosition(i, j) PROVE PausesHaveAnOwner'
  BY <1>17 DEF SetTorrentQueuePosition
<1>18. ASSUME PauseAll PROVE PausesHaveAnOwner'
  BY <1>18 DEF PauseAll
<1>19. ASSUME ResumeAll PROVE PausesHaveAnOwner'
  BY <1>19 DEF ResumeAll
<1>20. ASSUME NEW n \in 0..MaxCap, SetMaxActiveDownloads(n) PROVE PausesHaveAnOwner'
  BY <1>20 DEF SetMaxActiveDownloads
<1>21. ASSUME NEW b \in BOOLEAN, SetOutgoingInterface(b) PROVE PausesHaveAnOwner'
  BY <1>21 DEF SetOutgoingInterface, ReleaseKillSwitch
<1>22. ASSUME NEW on \in BOOLEAN, SetKillSwitchEnabled(on) PROVE PausesHaveAnOwner'
  BY <1>22 DEF SetKillSwitchEnabled, ReleaseKillSwitch
<1>23. ASSUME NEW on \in BOOLEAN, SetAutoResumeOnReconnect(on) PROVE PausesHaveAnOwner'
  BY <1>23 DEF SetAutoResumeOnReconnect
<1>24. ASSUME NEW on \in BOOLEAN, SetVpnProxy(on) PROVE PausesHaveAnOwner'
  BY <1>24 DEF SetVpnProxy, ReleaseKillSwitch
<1>25. ASSUME NEW t \in Torrents, Progress(t) PROVE PausesHaveAnOwner'
  BY <1>25 DEF Progress
<1>26. ASSUME InterfaceChanges PROVE PausesHaveAnOwner'
  BY <1>26 DEF InterfaceChanges
<1>27. ASSUME NEW S \in SUBSET Torrents, MinutePasses(S) PROVE PausesHaveAnOwner'
  BY <1>27 DEF MinutePasses
<1>28. CASE UNCHANGED vars
  BY <1>28 DEF vars
<1>. QED
  BY <1>1, <1>2, <1>3, <1>4, <1>5, <1>6, <1>7, <1>8, <1>9, <1>10, <1>11, <1>12, <1>13, <1>14, <1>15, <1>16, <1>17, <1>18, <1>19, <1>20, <1>21, <1>22, <1>23, <1>24, <1>25, <1>26, <1>27, <1>28
  DEF Next, Tick, User, Environment

\* PausesHaveAnOwner for every library, cap and set of operations: a pause of
\* the kill switch or of the queue always has an owner that can undo it, and
\* neither ever holds the handle of a removed torrent.
THEOREM OwnersAlways == Spec => []PausesHaveAnOwner
<1>1. Init => PausesHaveAnOwner
  BY DEF Init, PausesHaveAnOwner
<1>. QED BY <1>1, InitType, NextType, NextOwner, PTL DEF Spec

-----------------------------------------------------------------------------
(* The kill switch *)

\* Nobody asks for a torrent to run: the queue is off and no operation adds,
\* resumes or force-starts a torrent.
Undisturbed == MaxCap = 0 /\ Ops \cap {"add", "resume", "force"} = {}

\* Then no step lets a torrent run while the kill switch is active.
LEMMA NextHolds ==
  ASSUME Undisturbed
  PROVE  TypeOK /\ KillSwitchHolds /\ [Next]_vars => KillSwitchHolds'
<1>. SUFFICES ASSUME TypeOK, KillSwitchHolds, [Next]_vars PROVE KillSwitchHolds'
  OBVIOUS
<1>. USE DEF KillSwitchHolds, Running, lt, kill, queue, alert
<1>1. ASSUME NEW inTime \in BOOLEAN, TickStarts(inTime) PROVE KillSwitchHolds'
  BY <1>1 DEF TickStarts
<1>2. ASSUME NEW t \in Torrents, NEW stop \in BOOLEAN, OnTorrentFinished(t, stop) PROVE KillSwitchHolds'
  BY <1>2 DEF OnTorrentFinished, PauseOnly
<1>3. ASSUME OnDiskFull PROVE KillSwitchHolds'
  BY <1>3 DEF OnDiskFull, PauseOnly
<1>4. ASSUME NEW t \in Torrents, NEW eighth \in BOOLEAN, OnTorrentFault(t, eighth) PROVE KillSwitchHolds'
  BY <1>4 DEF OnTorrentFault, PauseOnly
<1>5. ASSUME AlertsEnd PROVE KillSwitchHolds'
  BY <1>5 DEF AlertsEnd
<1>6. ASSUME CheckSeeds PROVE KillSwitchHolds'
  BY <1>6 DEF CheckSeeds, PauseOnly, MarkCompleted
<1>7. ASSUME NEW free \in {"critical", "low", "ample"}, CheckDisk(free) PROVE KillSwitchHolds'
  BY <1>7 DEF CheckDisk, PauseOnly
<1>8. ASSUME CheckInterface PROVE KillSwitchHolds'
  BY <1>8 DEF CheckInterface, ReleaseKillSwitch, PauseOnly
<1>9. ASSUME NEW size \in {"under", "over", "panic"}, CheckMemory(size) PROVE KillSwitchHolds'
  BY <1>9 DEF CheckMemory, PauseOnly
<1>10. ASSUME NEW fast \in SUBSET Torrents, EnforceQueue(fast) PROVE KillSwitchHolds'
  BY <1>10, Undisturbed DEF EnforceQueue, Undisturbed, TypeOK
<1>11. ASSUME NEW t \in Torrents, NEW st \in {"metadata", "downloading"},
                NEW stopped \in BOOLEAN, NEW seen \in BOOLEAN, AddTorrent(t, st, stopped, seen) PROVE KillSwitchHolds'
  BY <1>11, Undisturbed DEF AddTorrent, Undisturbed, UserMay
<1>12. ASSUME NEW i \in 1..Len(torrents), RemoveTorrent(i) PROVE KillSwitchHolds'
  BY <1>12 DEF RemoveTorrent, TypeOK
<1>13. ASSUME NEW i \in 1..Len(torrents), PauseTorrent(i) PROVE KillSwitchHolds'
  BY <1>13 DEF PauseTorrent, PauseOnly
<1>14. ASSUME NEW i \in 1..Len(torrents), ResumeTorrent(i) PROVE KillSwitchHolds'
  BY <1>14, Undisturbed DEF ResumeTorrent, Undisturbed, UserMay
<1>15. ASSUME NEW i \in 1..Len(torrents), NEW on \in BOOLEAN, SetForceStart(i, on) PROVE KillSwitchHolds'
  BY <1>15, Undisturbed DEF SetForceStart, Undisturbed, UserMay
<1>16. ASSUME NEW i \in 1..Len(torrents), UserMarksCompleted(i) PROVE KillSwitchHolds'
  BY <1>16 DEF UserMarksCompleted, PauseOnly, MarkCompleted
<1>17. ASSUME NEW i \in 1..Len(torrents), NEW j \in 1..Len(torrents), SetTorrentQueuePosition(i, j) PROVE KillSwitchHolds'
  BY <1>17 DEF SetTorrentQueuePosition
<1>18. ASSUME PauseAll PROVE KillSwitchHolds'
  BY <1>18 DEF PauseAll, PauseOnly
<1>19. ASSUME ResumeAll PROVE KillSwitchHolds'
  BY <1>19, Undisturbed DEF ResumeAll, Undisturbed, UserMay
<1>20. ASSUME NEW n \in 0..MaxCap, SetMaxActiveDownloads(n) PROVE KillSwitchHolds'
  BY <1>20 DEF SetMaxActiveDownloads
<1>21. ASSUME NEW b \in BOOLEAN, SetOutgoingInterface(b) PROVE KillSwitchHolds'
  BY <1>21 DEF SetOutgoingInterface, ReleaseKillSwitch, ResumeOnly
<1>22. ASSUME NEW on \in BOOLEAN, SetKillSwitchEnabled(on) PROVE KillSwitchHolds'
  BY <1>22 DEF SetKillSwitchEnabled, ReleaseKillSwitch, ResumeOnly
<1>23. ASSUME NEW on \in BOOLEAN, SetAutoResumeOnReconnect(on) PROVE KillSwitchHolds'
  BY <1>23 DEF SetAutoResumeOnReconnect
<1>24. ASSUME NEW on \in BOOLEAN, SetVpnProxy(on) PROVE KillSwitchHolds'
  BY <1>24 DEF SetVpnProxy, ReleaseKillSwitch, ResumeOnly
<1>25. ASSUME NEW t \in Torrents, Progress(t) PROVE KillSwitchHolds'
  BY <1>25 DEF Progress
<1>26. ASSUME InterfaceChanges PROVE KillSwitchHolds'
  BY <1>26 DEF InterfaceChanges
<1>27. ASSUME NEW S \in SUBSET Torrents, MinutePasses(S) PROVE KillSwitchHolds'
  BY <1>27 DEF MinutePasses
<1>28. CASE UNCHANGED vars
  BY <1>28 DEF vars
<1>. QED
  BY <1>1, <1>2, <1>3, <1>4, <1>5, <1>6, <1>7, <1>8, <1>9, <1>10, <1>11, <1>12, <1>13, <1>14, <1>15, <1>16, <1>17, <1>18, <1>19, <1>20, <1>21, <1>22, <1>23, <1>24, <1>25, <1>26, <1>27, <1>28
  DEF Next, Tick, User, Environment

\* With the queue off and nobody resuming, the active kill switch stops every
\* torrent whatever the disk guard, the memory guard, the seed limits, stale
\* statuses and the changes of its own settings do.
THEOREM KillSwitchStopsAll == Undisturbed => (Spec => []KillSwitchHolds)
<1>. SUFFICES ASSUME Undisturbed PROVE Spec => []KillSwitchHolds
  OBVIOUS
<1>1. Init => KillSwitchHolds
  BY DEF Init, KillSwitchHolds
<1>2. TypeOK /\ KillSwitchHolds /\ [Next]_vars => KillSwitchHolds'
  BY NextHolds
<1>. QED BY <1>1, <1>2, InitType, NextType, PTL DEF Spec

-----------------------------------------------------------------------------
(* The download queue: counting *)

\* Positions of a finite set of indices are counted from 0 upwards.
LEMMA BeforeCounts ==
  ASSUME NEW S, S \subseteq Nat, IsFiniteSet(S)
  PROVE  /\ \A i \in S : Before(S, i) \in 0..Cardinality(S) - 1
         /\ \A i, j \in S : i < j => Before(S, i) < Before(S, j)
<1>. DEFINE P(i) == {k \in S : k < i}
<1>1. \A i : IsFiniteSet(P(i)) /\ Cardinality(P(i)) \in Nat
  BY FS_Subset, FS_CardinalityType
<1>2. Cardinality(S) \in Nat
  BY FS_CardinalityType
<1>3. ASSUME NEW i \in S PROVE Before(S, i) \in 0..Cardinality(S) - 1
  <2>1. P(i) \in SUBSET S /\ i \notin P(i)
    OBVIOUS
  <2>2. Cardinality(P(i)) <= Cardinality(S) /\ Cardinality(P(i)) # Cardinality(S)
    BY <2>1, FS_Subset
  <2>. HIDE DEF P
  <2>3. Cardinality(P(i)) \in 0..Cardinality(S) - 1
    BY <1>1, <1>2, <2>2
  <2>. QED BY <2>3 DEF Before, P
<1>4. ASSUME NEW i \in S, NEW j \in S, i < j PROVE Before(S, i) < Before(S, j)
  <2>1. P(i) \in SUBSET P(j)
    <3>1. i \in Nat /\ j \in Nat /\ \A k \in S : k \in Nat
      OBVIOUS
    <3>2. \A k \in S : k < i => k < j
      BY <1>4, <3>1
    <3>. QED BY <3>2
  <2>2. i \in P(j) /\ i \notin P(i)
    <3>1. i \in Nat /\ ~(i < i)
      OBVIOUS
    <3>. QED BY <1>4, <3>1
  <2>. HIDE DEF P
  <2>3. Cardinality(P(i)) <= Cardinality(P(j)) /\ Cardinality(P(i)) # Cardinality(P(j))
    BY <1>1, <2>1, <2>2, FS_Subset
  <2>4. Cardinality(P(i)) < Cardinality(P(j))
    BY <1>1, <2>3
  <2>. QED BY <2>4 DEF Before, P
<1>. QED BY <1>3, <1>4

\* The first n of them are n, or all when there are not so many.
LEMMA FirstOnes ==
  ASSUME NEW S, S \subseteq Nat, IsFiniteSet(S), NEW n \in Nat
  PROVE  Cardinality({i \in S : Before(S, i) < n})
           = IF Cardinality(S) < n THEN Cardinality(S) ELSE n
<1>. DEFINE c == Cardinality(S)
            K == {i \in S : Before(S, i) < n}
            f == [i \in S |-> Before(S, i)]
            g == [i \in K |-> Before(S, i)]
<1>1. c \in Nat
  BY FS_CardinalityType
<1>2. \A i \in S : Before(S, i) \in 0..c - 1
  BY BeforeCounts
<1>3. \A i, j \in S : Before(S, i) = Before(S, j) => i = j
  <2>. SUFFICES ASSUME NEW i \in S, NEW j \in S, i # j PROVE Before(S, i) # Before(S, j)
    OBVIOUS
  <2>1. i \in Nat /\ j \in Nat
    OBVIOUS
  <2>2. Before(S, i) \in Int /\ Before(S, j) \in Int
    BY <1>1, <1>2
  <2>3. i < j \/ j < i
    BY <2>1
  <2>4. Before(S, i) < Before(S, j) \/ Before(S, j) < Before(S, i)
    BY <2>3, BeforeCounts
  <2>. QED BY <2>2, <2>4
<1>4. CASE c < n
  <2>1. \A i \in S : Before(S, i) < n
    BY <1>1, <1>2, <1>4
  <2>2. K = S
    BY <2>1
  <2>. QED BY <1>4, <2>2
<1>5. CASE n <= c
  <2>1. f \in [S -> 0..c-1]
    BY <1>2
  <2>2. f \in Injection(S, 0..c-1)
    BY <1>3, <2>1 DEF Injection, IsInjective
  <2>3. IsFiniteSet(0..c-1) /\ Cardinality(0..c-1) = c
    <3>1. c - 1 \in Int /\ (IF 0 > c - 1 THEN 0 ELSE (c - 1) - 0 + 1) = c
      BY <1>1
    <3>. HIDE DEF c
    <3>. QED BY <3>1, FS_Interval
  <2>4. f \in Surjection(S, 0..c-1)
    BY <2>2, <2>3, FS_Injection
  <2>5. \A k \in 0..c-1 : \E i \in S : Before(S, i) = k
    <3>1. \A k \in 0..c-1 : \E i \in S : f[i] = k
      <4>. HIDE DEF f, c
      <4>. QED BY <2>4, Fun_SurjectionProperties
    <3>. QED BY <3>1
  <2>6. g \in Injection(K, 0..n-1)
    <3>1. \A i \in K : Before(S, i) \in 0..n-1
      BY <1>1, <1>2
    <3>2. g \in [K -> 0..n-1]
      BY <3>1
    <3>. QED BY <1>3, <3>2 DEF Injection, IsInjective
  <2>7. \A k \in 0..n-1 : \E i \in K : Before(S, i) = k
    <3>. SUFFICES ASSUME NEW k \in 0..n-1 PROVE \E i \in K : Before(S, i) = k
      OBVIOUS
    <3>1. k \in 0..c-1 /\ k < n
      BY <1>1, <1>5
    <3>. QED BY <2>5, <3>1
  <2>8. g \in Surjection(K, 0..n-1)
    <3>1. g \in [K -> 0..n-1]
      BY <2>6 DEF Injection
    <3>2. \A k \in 0..n-1 : \E i \in K : g[i] = k
      BY <2>7
    <3>. HIDE DEF g, K
    <3>. QED BY <3>1, <3>2, Fun_IsSurj
  <2>9. IsFiniteSet(0..n-1) /\ Cardinality(0..n-1) = n
    BY FS_Interval
  <2>10. Cardinality(K) = n
    <3>. HIDE DEF g, K
    <3>. QED BY <2>6, <2>8, <2>9, FS_Injection
  <2>. QED BY <1>1, <1>5, <2>10
<1>. QED BY <1>1, <1>4, <1>5

\* Torrents are listed once: as many torrents as indices.
LEMMA AtCounts ==
  ASSUME torrents \in Seq(Torrents), IsInjective(torrents), NEW S, S \subseteq InList
  PROVE  /\ IsFiniteSet(S) /\ IsFiniteSet(At(S))
         /\ Cardinality(At(S)) = Cardinality(S)
<1>. DEFINE f == [i \in S |-> torrents[i]]
<1>1. S \subseteq 1..Len(torrents) /\ Len(torrents) \in Nat
  BY DEF InList
<1>2. DOMAIN torrents = 1..Len(torrents)
  OBVIOUS
<1>3. IsFiniteSet(S)
  <2>1. IsFiniteSet(1..Len(torrents))
    BY <1>1, FS_Interval
  <2>. QED BY <1>1, <2>1, FS_Subset
<1>4. f \in Injection(S, At(S))
  <2>1. f \in [S -> At(S)]
    BY DEF At
  <2>. QED BY <1>1, <1>2, <2>1 DEF Injection, IsInjective
<1>5. f \in Surjection(S, At(S))
  <2>1. f \in [S -> At(S)]
    BY DEF At
  <2>2. \A t \in At(S) : \E i \in S : f[i] = t
    BY DEF At
  <2>. HIDE DEF f
  <2>. QED BY <2>1, <2>2, Fun_IsSurj
<1>. HIDE DEF f
<1>. QED BY <1>3, <1>4, <1>5, FS_Surjection

\* What a pass leaves running of the torrents it schedules: the first maxActive
\* of the active ones, and the queued ones that fill up the rest.
Kept(fast) == {i \in ActiveIndices(fast) : Before(ActiveIndices(fast), i) < maxActive}
Filled(fast) == {i \in QueuedIndices :
                   Before(QueuedIndices, i) + Cardinality(ActiveIndices(fast)) < maxActive}

\* They are at most maxActive, and exactly as many when a torrent is left out.
LEMMA PassFills ==
  ASSUME TypeOK, IsInjective(torrents), NEW fast
  PROVE  LET running == Kept(fast) \cup Filled(fast)
             all == ActiveIndices(fast) \cup QueuedIndices
         IN  /\ IsFiniteSet(At(running))
             /\ Cardinality(At(running)) <= maxActive
             /\ all # running => Cardinality(At(running)) = maxActive
<1>. DEFINE A == ActiveIndices(fast)
            Q == QueuedIndices
            K == Kept(fast)
            W == Filled(fast)
            a == Cardinality(A)
            q == Cardinality(Q)
            m == maxActive
<1>1. torrents \in Seq(Torrents) /\ m \in Nat
  BY MaxCapAssumption DEF TypeOK
<1>2. A \subseteq InList /\ Q \subseteq InList /\ A \cap Q = {}
  BY DEF ActiveIndices, QueuedIndices
<1>3. IsFiniteSet(A) /\ IsFiniteSet(Q) /\ A \subseteq Nat /\ Q \subseteq Nat
  <2>1. IsFiniteSet(A) /\ IsFiniteSet(Q)
    BY <1>1, <1>2, AtCounts
  <2>2. InList \subseteq Nat
    BY DEF InList
  <2>. QED BY <1>2, <2>1, <2>2
<1>4. a \in Nat /\ q \in Nat
  BY <1>3, FS_CardinalityType
<1>5. K \subseteq A /\ W \subseteq Q
  BY DEF Kept, Filled
<1>6. Cardinality(K) = IF a < m THEN a ELSE m
  BY <1>1, <1>3, FirstOnes DEF Kept
<1>7. a < m => K = A
  <2>. SUFFICES ASSUME a < m PROVE K = A
    OBVIOUS
  <2>1. \A i \in A : Before(A, i) \in 0..a-1
    BY <1>3, BeforeCounts
  <2>2. \A i \in A : Before(A, i) < m
    BY <1>1, <1>4, <2>1
  <2>. QED BY <2>2 DEF Kept
<1>8. \A i \in Q : Before(Q, i) \in 0..q-1
  BY <1>3, BeforeCounts
<1>9. ~(a < m) => Cardinality(W) = 0
  <2>. SUFFICES ASSUME ~(a < m) PROVE Cardinality(W) = 0
    OBVIOUS
  <2>1. \A i \in Q : ~(Before(Q, i) + a < m)
    BY <1>1, <1>4, <1>8
  <2>2. W = {}
    BY <2>1 DEF Filled
  <2>. QED BY <2>2, FS_EmptySet
<1>10. a < m => /\ Cardinality(W) = IF q < m - a THEN q ELSE m - a
                /\ q < m - a => W = Q
  <2>. SUFFICES ASSUME a < m
                PROVE /\ Cardinality(W) = IF q < m - a THEN q ELSE m - a
                      /\ q < m - a => W = Q
    OBVIOUS
  <2>. DEFINE n == m - a
  <2>1. n \in Nat
    BY <1>1, <1>4
  <2>2. \A i \in Q : Before(Q, i) + a < m <=> Before(Q, i) < n
    BY <1>1, <1>4, <1>8
  <2>3. W = {i \in Q : Before(Q, i) < n}
    BY <2>2 DEF Filled
  <2>4. q < n => \A i \in Q : Before(Q, i) < n
    BY <1>4, <1>8, <2>1
  <2>5. q < n => W = Q
    BY <2>3, <2>4
  <2>. HIDE DEF n, Q, W
  <2>6. Cardinality(W) = IF Cardinality(Q) < n THEN Cardinality(Q) ELSE n
    BY <1>3, <2>1, <2>3, FirstOnes
  <2>. QED BY <2>5, <2>6 DEF n
<1>11. Cardinality(K \cup W) = Cardinality(K) + Cardinality(W)
  <2>1. K \cap W = {}
    BY <1>2, <1>5
  <2>2. IsFiniteSet(K) /\ IsFiniteSet(W)
    BY <1>3, <1>5, FS_Subset
  <2>3. Cardinality(K) \in Nat /\ Cardinality(W) \in Nat
    BY <2>2, FS_CardinalityType
  <2>4. Cardinality(K \cup W) = Cardinality(K) + Cardinality(W) - Cardinality({})
    <3>. HIDE DEF K, W
    <3>. QED BY <2>1, <2>2, FS_Union
  <2>. QED BY <2>3, <2>4, FS_EmptySet
<1>12. /\ Cardinality(K \cup W) <= m
       /\ (K # A \/ W # Q) => Cardinality(K \cup W) = m
  <2>. HIDE DEF A, Q, K, W, a, q, m
  <2>1. CASE a < m
    BY <1>1, <1>4, <1>6, <1>7, <1>10, <1>11, <2>1
  <2>2. CASE ~(a < m)
    BY <1>1, <1>4, <1>6, <1>9, <1>11, <2>2
  <2>. QED BY <2>1, <2>2
<1>13. /\ IsFiniteSet(At(K \cup W))
       /\ Cardinality(At(K \cup W)) = Cardinality(K \cup W)
  <2>1. K \cup W \subseteq InList
    BY <1>2, <1>5
  <2>. QED BY <1>1, <2>1, AtCounts
<1>14. A \cup Q # K \cup W => K # A \/ W # Q
  OBVIOUS
<1>. QED BY <1>12, <1>13, <1>14, Zenon

-----------------------------------------------------------------------------
(* The list *)

\* Every torrent with a valid handle is in the list, once, and no other is.
ListIsExact == IsInjective(torrents) /\ Range(torrents) = valid

\* Taking an element out of a list of distinct ones leaves the others.
LEMMA RemovalIsExact ==
  ASSUME NEW s \in Seq(Torrents), IsInjective(s), NEW i \in 1..Len(s)
  PROVE  /\ IsInjective(RemoveAt(s, i)) /\ Range(RemoveAt(s, i)) = Range(s) \ {s[i]}
         /\ RemoveAt(s, i) \in Seq(Torrents) /\ Len(RemoveAt(s, i)) = Len(s) - 1
<1>. DEFINE r == RemoveAt(s, i)
<1>1. /\ r \in Seq(Torrents) /\ Len(r) = Len(s) - 1 /\ Len(s) \in Nat
      /\ \A k \in 1..Len(r) : r[k] = IF k < i THEN s[k] ELSE s[k + 1]
  <2>. DEFINE a == SubSeq(s, 1, i-1)
              b == SubSeq(s, i+1, Len(s))
  <2>1. i \in Nat /\ 1 <= i /\ i <= Len(s) /\ Len(s) \in Nat
    OBVIOUS
  <2>2. a \in Seq(Torrents) /\ Len(a) = i - 1 /\ \A k \in 1..i-1 : a[k] = s[k]
    OBVIOUS
  <2>3. /\ b \in Seq(Torrents) /\ Len(b) = Len(s) - i
        /\ \A k \in 1..Len(s) - i : b[k] = s[k + i]
    OBVIOUS
  <2>. HIDE DEF a, b
  <2>4. /\ a \o b \in Seq(Torrents) /\ Len(a \o b) = Len(a) + Len(b)
        /\ \A k \in 1..Len(a) + Len(b) :
             (a \o b)[k] = IF k <= Len(a) THEN a[k] ELSE b[k - Len(a)]
    BY <2>2, <2>3, ConcatProperties
  <2>5. Len(a \o b) = Len(s) - 1
    BY <2>1, <2>2, <2>3, <2>4
  <2>6. ASSUME NEW k \in 1..Len(s) - 1
        PROVE  (a \o b)[k] = IF k < i THEN s[k] ELSE s[k + 1]
    <3>1. CASE k < i
      <4>1. k \in 1..i-1 /\ k <= Len(a) /\ k \in 1..Len(a) + Len(b)
        BY <2>1, <2>2, <2>3, <3>1
      <4>. QED BY <2>2, <2>4, <3>1, <4>1
    <3>2. CASE ~(k < i)
      <4>1. /\ k - Len(a) \in 1..Len(s) - i /\ ~(k <= Len(a))
            /\ k \in 1..Len(a) + Len(b) /\ (k - Len(a)) + i = k + 1
        BY <2>1, <2>2, <2>3, <3>2
      <4>2. b[k - Len(a)] = s[k + 1]
        BY <2>3, <4>1
      <4>. QED BY <2>4, <3>2, <4>1, <4>2
    <3>. QED BY <3>1, <3>2
  <2>7. r = a \o b
    BY DEF RemoveAt, a, b
  <2>. HIDE DEF r
  <2>. QED BY <2>1, <2>4, <2>5, <2>6, <2>7
<1>2. DOMAIN s = 1..Len(s) /\ DOMAIN r = 1..Len(r)
  BY <1>1
<1>3. i \in Nat /\ i >= 1 /\ i <= Len(s)
  BY <1>1
<1>. HIDE DEF r
<1>4. ASSUME NEW j \in 1..Len(r), NEW k \in 1..Len(r), r[j] = r[k] PROVE j = k
  <2>. DEFINE x == IF j < i THEN j ELSE j + 1
              y == IF k < i THEN k ELSE k + 1
  <2>1. x \in 1..Len(s) /\ y \in 1..Len(s) /\ (x = y => j = k)
    BY <1>1, <1>3
  <2>2. r[j] = s[x] /\ r[k] = s[y]
    BY <1>1
  <2>. QED BY <1>2, <1>4, <2>1, <2>2 DEF IsInjective
<1>5. ASSUME NEW k \in 1..Len(r) PROVE r[k] \in Range(s) \ {s[i]}
  <2>. DEFINE y == IF k < i THEN k ELSE k + 1
  <2>1. y \in 1..Len(s) /\ y # i
    BY <1>1, <1>3
  <2>2. r[k] = s[y]
    BY <1>1
  <2>. QED BY <1>2, <2>1, <2>2 DEF Range, IsInjective
<1>6. ASSUME NEW y \in 1..Len(s), y # i PROVE \E k \in 1..Len(r) : r[k] = s[y]
  <2>1. CASE y < i
    <3>1. y \in 1..Len(r) /\ r[y] = s[y]
      BY <1>1, <1>3, <2>1
    <3>. QED BY <3>1
  <2>2. CASE y > i
    <3>1. y - 1 \in 1..Len(r) /\ r[y - 1] = s[y]
      BY <1>1, <1>3, <2>2
    <3>. QED BY <3>1
  <2>. QED BY <1>1, <1>3, <1>6, <2>1, <2>2
<1>7. Range(r) = Range(s) \ {s[i]}
  <2>1. Range(r) \subseteq Range(s) \ {s[i]}
    BY <1>2, <1>5 DEF Range
  <2>2. Range(s) \ {s[i]} \subseteq Range(r)
    BY <1>2, <1>6 DEF Range
  <2>. QED BY <2>1, <2>2
<1>8. IsInjective(r)
  BY <1>2, <1>4 DEF IsInjective
<1>. QED BY <1>1, <1>7, <1>8 DEF r

\* Putting one more in, at its end or at any place, adds just that one.
LEMMA InsertionIsExact ==
  ASSUME NEW s \in Seq(Torrents), IsInjective(s), NEW t \in Torrents, t \notin Range(s),
         NEW j \in 1..Len(s) + 1
  PROVE  LET r == InsertAt(s, j, t)
         IN  IsInjective(r) /\ Range(r) = Range(s) \cup {t}
<1>. DEFINE r == InsertAt(s, j, t)
<1>1. /\ r \in Seq(Torrents) /\ Len(r) = Len(s) + 1 /\ Len(s) \in Nat
      /\ \A k \in 1..Len(r) : r[k] = IF k < j THEN s[k] ELSE IF k = j THEN t ELSE s[k - 1]
  <2>. DEFINE a == SubSeq(s, 1, j-1)
              b == SubSeq(s, j, Len(s))
              c == a \o <<t>>
  <2>1. j \in Nat /\ 1 <= j /\ j <= Len(s) + 1 /\ Len(s) \in Nat
    OBVIOUS
  <2>2. a \in Seq(Torrents) /\ Len(a) = j - 1 /\ \A k \in 1..j-1 : a[k] = s[k]
    OBVIOUS
  <2>3. /\ b \in Seq(Torrents) /\ Len(b) = Len(s) - j + 1
        /\ \A k \in 1..Len(s) - j + 1 : b[k] = s[k + j - 1]
    OBVIOUS
  <2>. HIDE DEF a, b
  <2>4. /\ c \in Seq(Torrents) /\ Len(c) = j
        /\ \A k \in 1..j : c[k] = IF k < j THEN s[k] ELSE t
    BY <2>1, <2>2
  <2>. HIDE DEF c
  <2>5. /\ c \o b \in Seq(Torrents) /\ Len(c \o b) = Len(c) + Len(b)
        /\ \A k \in 1..Len(c) + Len(b) :
             (c \o b)[k] = IF k <= Len(c) THEN c[k] ELSE b[k - Len(c)]
    BY <2>3, <2>4, ConcatProperties
  <2>6. Len(c \o b) = Len(s) + 1
    BY <2>1, <2>3, <2>4, <2>5
  <2>7. ASSUME NEW k \in 1..Len(s) + 1
        PROVE  (c \o b)[k] = IF k < j THEN s[k] ELSE IF k = j THEN t ELSE s[k - 1]
    <3>1. k \in 1..Len(c) + Len(b) /\ k \in Nat
      BY <2>1, <2>3, <2>4
    <3>2. CASE k <= j
      <4>1. k \in 1..j /\ k <= Len(c)
        BY <2>1, <2>4, <3>2
      <4>2. (c \o b)[k] = IF k < j THEN s[k] ELSE t
        BY <2>4, <2>5, <3>1, <4>1
      <4>3. ~(k < j) => k = j
        BY <2>1, <3>1, <3>2
      <4>. QED BY <4>2, <4>3
    <3>3. CASE ~(k <= j)
      <4>1. /\ k - Len(c) \in 1..Len(s) - j + 1 /\ ~(k <= Len(c))
            /\ (k - Len(c)) + j - 1 = k - 1 /\ ~(k < j) /\ k # j
        BY <2>1, <2>3, <2>4, <3>3
      <4>2. b[k - Len(c)] = s[k - 1]
        BY <2>3, <4>1
      <4>. QED BY <2>5, <3>1, <4>1, <4>2
    <3>. QED BY <3>2, <3>3
  <2>8. r = c \o b
    BY DEF InsertAt, a, b, c
  <2>. HIDE DEF r
  <2>. QED BY <2>1, <2>5, <2>6, <2>7, <2>8
<1>2. DOMAIN s = 1..Len(s) /\ DOMAIN r = 1..Len(r)
  BY <1>1
<1>3. j \in Nat /\ j >= 1 /\ j <= Len(s) + 1
  BY <1>1
<1>. HIDE DEF r
<1>4. \A k \in 1..Len(s) : s[k] # t
  BY <1>2 DEF Range
<1>5. ASSUME NEW x \in 1..Len(r), NEW y \in 1..Len(r), r[x] = r[y] PROVE x = y
  <2>. DEFINE a == IF x < j THEN x ELSE x - 1
              b == IF y < j THEN y ELSE y - 1
  <2>1. CASE x = j
    <3>1. r[y] = t
      BY <1>1, <1>5, <2>1
    <3>2. y # j => b \in 1..Len(s) /\ r[y] = s[b]
      BY <1>1, <1>3
    <3>. QED BY <1>4, <2>1, <3>1, <3>2
  <2>2. CASE y = j
    <3>1. r[x] = t
      BY <1>1, <1>5, <2>2
    <3>2. x # j => a \in 1..Len(s) /\ r[x] = s[a]
      BY <1>1, <1>3
    <3>. QED BY <1>4, <2>2, <3>1, <3>2
  <2>3. CASE x # j /\ y # j
    <3>1. a \in 1..Len(s) /\ b \in 1..Len(s) /\ (a = b => x = y)
      BY <1>1, <1>3, <2>3
    <3>2. r[x] = s[a] /\ r[y] = s[b]
      BY <1>1, <2>3
    <3>. QED BY <1>2, <1>5, <3>1, <3>2 DEF IsInjective
  <2>. QED BY <2>1, <2>2, <2>3
<1>6. Range(r) \subseteq Range(s) \cup {t}
  <2>. SUFFICES ASSUME NEW x \in 1..Len(r) PROVE r[x] \in Range(s) \cup {t}
    BY <1>2 DEF Range
  <2>. DEFINE a == IF x < j THEN x ELSE x - 1
  <2>1. x # j => a \in 1..Len(s) /\ r[x] = s[a]
    BY <1>1, <1>3
  <2>2. x = j => r[x] = t
    BY <1>1, <1>3
  <2>. QED BY <1>2, <2>1, <2>2 DEF Range
<1>7. Range(s) \cup {t} \subseteq Range(r)
  <2>1. ASSUME NEW k \in 1..Len(s) PROVE \E x \in 1..Len(r) : r[x] = s[k]
    <3>1. CASE k < j
      <4>1. k \in 1..Len(r) /\ r[k] = s[k]
        BY <1>1, <1>3, <3>1
      <4>. QED BY <4>1
    <3>2. CASE k >= j
      <4>1. k + 1 \in 1..Len(r) /\ r[k + 1] = s[k]
        BY <1>1, <1>3, <3>2
      <4>. QED BY <4>1
    <3>. QED BY <1>1, <1>3, <3>1, <3>2
  <2>2. j \in 1..Len(r) /\ r[j] = t
    BY <1>1, <1>3
  <2>. QED BY <1>2, <2>1, <2>2 DEF Range
<1>8. IsInjective(r)
  BY <1>2, <1>5 DEF IsInjective
<1>. QED BY <1>6, <1>7, <1>8 DEF r

\* A torrent that is not in the list may be appended.
LEMMA AppendIsExact ==
  ASSUME NEW s \in Seq(Torrents), IsInjective(s), NEW t \in Torrents, t \notin Range(s)
  PROVE  IsInjective(Append(s, t)) /\ Range(Append(s, t)) = Range(s) \cup {t}
<1>1. /\ DOMAIN s = 1..Len(s) /\ Len(s) \in Nat
      /\ DOMAIN Append(s, t) = 1..Len(s) + 1
      /\ \A k \in 1..Len(s) : Append(s, t)[k] = s[k]
      /\ Append(s, t)[Len(s) + 1] = t
  OBVIOUS
<1>2. \A k \in 1..Len(s) : s[k] # t
  BY <1>1 DEF Range
<1>3. \A k \in 1..Len(s) + 1 : k \in 1..Len(s) \/ k = Len(s) + 1
  BY <1>1
<1>4. IsInjective(Append(s, t))
  BY <1>1, <1>2, <1>3 DEF IsInjective
<1>5. Range(Append(s, t)) = Range(s) \cup {t}
  <2>1. \A k \in 1..Len(s) : k \in 1..Len(s) + 1
    BY <1>1
  <2>2. Len(s) + 1 \in 1..Len(s) + 1
    BY <1>1
  <2>3. Range(Append(s, t)) \subseteq Range(s) \cup {t}
    BY <1>1, <1>3 DEF Range
  <2>4. Range(s) \cup {t} \subseteq Range(Append(s, t))
    BY <1>1, <2>1, <2>2 DEF Range
  <2>. QED BY <2>3, <2>4
<1>. QED BY <1>4, <1>5

\* Only an addition, a removal and a move change the list.
LEMMA NextList ==
  TypeOK /\ ListIsExact /\ [Next]_vars => ListIsExact'
<1>. SUFFICES ASSUME TypeOK, ListIsExact, [Next]_vars PROVE ListIsExact'
  OBVIOUS
<1>1. torrents \in Seq(Torrents) /\ IsInjective(torrents) /\ Range(torrents) = valid
  BY DEF TypeOK, ListIsExact
<1>2. CASE torrents' = torrents /\ valid' = valid
  BY <1>1, <1>2 DEF ListIsExact
<1>3. ASSUME NEW t \in Torrents, NEW st \in {"metadata", "downloading"},
             NEW stopped \in BOOLEAN, NEW seen \in BOOLEAN, AddTorrent(t, st, stopped, seen)
      PROVE  ListIsExact'
  <2>1. t \notin Range(torrents) /\ torrents' = Append(torrents, t) /\ valid' = valid \cup {t}
    BY <1>3 DEF AddTorrent
  <2>2. /\ IsInjective(Append(torrents, t))
        /\ Range(Append(torrents, t)) = Range(torrents) \cup {t}
    BY <1>1, <2>1, AppendIsExact
  <2>. QED BY <1>1, <2>1, <2>2 DEF ListIsExact
<1>4. ASSUME NEW i \in 1..Len(torrents), RemoveTorrent(i) PROVE ListIsExact'
  <2>1. torrents' = RemoveAt(torrents, i) /\ valid' = valid \ {torrents[i]}
    BY <1>4 DEF RemoveTorrent
  <2>2. /\ IsInjective(RemoveAt(torrents, i))
        /\ Range(RemoveAt(torrents, i)) = Range(torrents) \ {torrents[i]}
    BY <1>1, RemovalIsExact
  <2>. QED BY <1>1, <2>1, <2>2 DEF ListIsExact
<1>5. ASSUME NEW i \in 1..Len(torrents), NEW j \in 1..Len(torrents),
             SetTorrentQueuePosition(i, j)
      PROVE  ListIsExact'
  <2>. DEFINE r == RemoveAt(torrents, i)
              t == torrents[i]
  <2>1. torrents' = InsertAt(r, j, t) /\ valid' = valid
    BY <1>5 DEF SetTorrentQueuePosition, lt
  <2>2. /\ IsInjective(r) /\ Range(r) = Range(torrents) \ {t}
        /\ r \in Seq(Torrents) /\ Len(r) = Len(torrents) - 1
    BY <1>1, RemovalIsExact
  <2>3. t \in Torrents /\ t \in Range(torrents)
    BY <1>1 DEF Range
  <2>4. j \in 1..Len(r) + 1
    <3>1. Len(torrents) \in Nat
      BY <1>1
    <3>. QED BY <2>2, <3>1
  <2>. HIDE DEF r, t
  <2>5. IsInjective(InsertAt(r, j, t)) /\ Range(InsertAt(r, j, t)) = Range(r) \cup {t}
    BY <2>2, <2>3, <2>4, InsertionIsExact
  <2>6. Range(r) \cup {t} = valid
    BY <1>1, <2>2, <2>3
  <2>. QED BY <2>1, <2>5, <2>6 DEF ListIsExact
<1>6. \/ torrents' = torrents /\ valid' = valid
      \/ \E t \in Torrents, st \in {"metadata", "downloading"}, stopped, seen \in BOOLEAN :
           AddTorrent(t, st, stopped, seen)
      \/ \E i \in 1..Len(torrents) : RemoveTorrent(i)
      \/ \E i, j \in 1..Len(torrents) : SetTorrentQueuePosition(i, j)
  <2>1. CASE Tick
    BY <2>1 DEF Tick, TickStarts, OnTorrentFinished, OnDiskFull, OnTorrentFault, AlertsEnd,
      CheckSeeds, CheckDisk, CheckInterface, CheckMemory, EnforceQueue, lt
  <2>2. CASE Environment
    BY <2>2 DEF Environment, Progress, InterfaceChanges, MinutePasses, lt
  <2>3. CASE User
    BY <2>3 DEF User, PauseTorrent, ResumeTorrent, SetForceStart, UserMarksCompleted, PauseAll,
      ResumeAll, SetMaxActiveDownloads, SetOutgoingInterface, SetKillSwitchEnabled,
      SetAutoResumeOnReconnect, SetVpnProxy, lt
  <2>4. CASE UNCHANGED vars
    BY <2>4 DEF vars, lt
  <2>. QED BY <2>1, <2>2, <2>3, <2>4 DEF Next
<1>. QED BY <1>2, <1>3, <1>4, <1>5, <1>6

\* One pass of enforceDownloadQueue on accurate statuses: what it leaves running
\* is the kept and the filled torrents and those it does not count, and it leaves
\* a torrent waiting only when these are maxActive.
LEMMA QueuePass ==
  ASSUME TypeOK, ListIsExact, PausesHaveAnOwner, CacheIsAccurate, maxActive > 0,
         NEW fast, EnforceQueue(fast)
  PROVE  /\ WithinCap'
         /\ Waiting' # {} => Cardinality(RunningDownloads') >= maxActive
<1>. DEFINE A == ActiveIndices(fast)
            Q == QueuedIndices
            K == Kept(fast)
            W == Filled(fast)
            all == A \cup Q
            running == K \cup W
<1>1. /\ torrents \in Seq(Torrents) /\ IsInjective(torrents) /\ Range(torrents) = valid
      /\ DOMAIN torrents = 1..Len(torrents)
  BY DEF TypeOK, ListIsExact
<1>2. /\ IsFiniteSet(At(running)) /\ Cardinality(At(running)) <= maxActive
      /\ all # running => Cardinality(At(running)) = maxActive
  BY <1>1, PassFills
<1>3. /\ valid' = valid /\ state' = state /\ forceStart' = forceStart /\ maxActive' = maxActive
      /\ lastFast' = Stamp(fast)
      /\ queuePaused' = (queuePaused \cup Over(fast)) \ Promoted(fast)
      /\ \A t \in Torrents : paused'[t] <=> \/ paused[t] /\ t \notin Forced \cup Promoted(fast)
                                            \/ t \in Over(fast)
  BY DEF EnforceQueue, queue, TypeOK
<1>4. \A t \in valid : CachedStatus(t) = LiveStatus(t)
  BY DEF CacheIsAccurate, CachedStatus
<1>5. valid \subseteq Torrents /\ queuePaused' \subseteq valid
  <2>1. Over(fast) \subseteq valid
    BY QueueListType
  <2>. QED BY <1>3, <2>1 DEF TypeOK, PausesHaveAnOwner
<1>6. /\ \A i \in InList : torrents[i] \in valid
      /\ \A t \in valid : \E i \in InList : torrents[i] = t
      /\ \A i, j \in InList : torrents[i] = torrents[j] => i = j
  BY <1>1 DEF InList, Range, IsInjective
<1>7. /\ A \subseteq InList /\ Q \subseteq InList /\ K \subseteq A /\ W \subseteq Q
      /\ \A i \in A : /\ ~Exempt(torrents[i]) /\ Downloading(LiveStatus(torrents[i]))
                      /\ ~paused[torrents[i]]
      /\ \A i \in Q : /\ ~Exempt(torrents[i]) /\ Downloading(LiveStatus(torrents[i]))
                      /\ paused[torrents[i]]
  <2>1. A \subseteq InList /\ Q \subseteq InList /\ K \subseteq A /\ W \subseteq Q
    BY DEF ActiveIndices, QueuedIndices, Kept, Filled
  <2>2. \A i \in A : /\ ~Exempt(torrents[i]) /\ Downloading(CachedStatus(torrents[i]))
                     /\ ~CachedStatus(torrents[i]).paused
    BY DEF ActiveIndices
  <2>3. \A i \in Q : /\ ~Exempt(torrents[i]) /\ Downloading(CachedStatus(torrents[i]))
                     /\ CachedStatus(torrents[i]).paused
    BY DEF QueuedIndices
  <2>4. \A t : LiveStatus(t).paused = paused[t]
    BY DEF LiveStatus
  <2>. HIDE DEF A, Q, K, W
  <2>. QED BY <1>4, <1>6, <2>1, <2>2, <2>3, <2>4
<1>8. /\ Over(fast) = At(A \ K)
      /\ Promoted(fast) = At(W)
  <2>1. A \subseteq Nat /\ IsFiniteSet(A)
    <3>1. InList \subseteq Nat
      BY DEF InList
    <3>. QED BY <1>1, <1>7, <3>1, AtCounts
  <2>2. \A i \in A : Before(A, i) \in Int /\ maxActive \in Int
    <3>1. \A i \in A : Before(A, i) \in 0..Cardinality(A) - 1
      BY <2>1, BeforeCounts
    <3>2. Cardinality(A) \in Nat /\ maxActive \in Int
      BY <2>1, FS_CardinalityType, MaxCapAssumption DEF TypeOK
    <3>. QED BY <3>1, <3>2
  <2>3. \A i \in A : Before(A, i) >= maxActive <=> ~(Before(A, i) < maxActive)
    BY <2>2
  <2>4. A \ K = {i \in A : Before(A, i) >= maxActive}
    BY <2>3 DEF Kept
  <2>5. Over(fast) = At({i \in A : Before(A, i) >= maxActive})
    BY DEF Over
  <2>6. Promoted(fast) = At(W)
    BY DEF Promoted, Filled
  <2>. QED BY <2>4, <2>5, <2>6
<1>. HIDE DEF A, Q, K, W
<1>9. /\ \A i \in InList : torrents[i] \in Over(fast) <=> i \in A \ K
      /\ \A i \in InList : torrents[i] \in Promoted(fast) <=> i \in W
  BY <1>6, <1>7, <1>8 DEF At
<1>10. At(running) \subseteq RunningDownloads'
  <2>. SUFFICES ASSUME NEW t \in At(running) PROVE t \in RunningDownloads'
    OBVIOUS
  <2>0. PICK i \in running : torrents[i] = t
    BY DEF At
  <2>1. i \in InList /\ t \in valid /\ t \in Torrents /\ Downloading(LiveStatus(t))
    BY <1>5, <1>6, <1>7, <2>0
  <2>2. t \notin Over(fast)
    BY <1>7, <1>9, <2>0, <2>1
  <2>3. ~(paused[t] /\ t \notin Forced \cup Promoted(fast))
    BY <1>7, <1>9, <2>0, <2>1
  <2>4. ~paused'[t]
    BY <1>3, <2>1, <2>2, <2>3
  <2>. QED BY <1>3, <2>1, <2>4 DEF RunningDownloads, Downloading, LiveStatus
<1>11. \A t \in valid : Exempt(t) <=> t \in forceStart /\ state[t] # "metadata"
  BY <1>4 DEF Exempt, HasMetadata, LiveStatus
<1>12. Counted' \subseteq At(running)
  <2>. SUFFICES ASSUME NEW t \in Counted' PROVE \E i \in running : torrents[i] = t
    BY DEF At
  <2>1. /\ t \in valid /\ t \in Torrents /\ ~paused'[t]
        /\ Downloading(LiveStatus(t))
        /\ Stamp(fast)[t] = "recent"
        /\ ~Exempt(t)
    BY <1>3, <1>5, <1>11 DEF Counted, Downloading, LiveStatus
  <2>2. PICK i \in InList : torrents[i] = t
    BY <1>6, <2>1
  <2>3. t \notin Over(fast) /\ t \notin Forced
    BY <1>3, <2>1 DEF Forced
  <2>4. CASE paused[t]
    <3>1. t \in Promoted(fast)
      BY <1>3, <2>1, <2>3, <2>4
    <3>. QED BY <1>9, <2>2, <3>1
  <2>5. CASE ~paused[t]
    <3>1. i \in A
      BY <1>4, <2>1, <2>2, <2>5 DEF A, ActiveIndices, LiveStatus
    <3>. QED BY <1>9, <2>2, <2>3, <3>1
  <2>. QED BY <2>4, <2>5
<1>13. Waiting' # {} => all # running
  <2>. SUFFICES ASSUME NEW t \in Waiting' PROVE all # running
    OBVIOUS
  <2>1. /\ t \in queuePaused' /\ t \in valid /\ t \in Torrents /\ paused'[t]
        /\ Downloading(LiveStatus(t))
        /\ ~Exempt(t)
    BY <1>3, <1>5, <1>11 DEF Waiting, Downloading, LiveStatus
  <2>2. PICK i \in InList : torrents[i] = t
    BY <1>6, <2>1
  <2>3. CASE t \in Over(fast)
    <3>1. i \in A \ K /\ i \notin W
      BY <1>7, <1>9, <2>2, <2>3
    <3>. QED BY <3>1
  <2>4. CASE t \notin Over(fast)
    <3>1. paused[t] /\ t \notin Promoted(fast) /\ t \in queuePaused
      BY <1>3, <2>1, <2>4
    <3>2. i \in Q
      <4>1. Downloading(CachedStatus(t)) /\ CachedStatus(t) = LiveStatus(t)
        BY <1>4, <2>1
      <4>2. LiveStatus(t).paused = paused[t]
        BY DEF LiveStatus
      <4>3. CachedStatus(t).paused
        BY <3>1, <4>1, <4>2
      <4>. QED BY <2>1, <2>2, <3>1, <4>1, <4>3 DEF Q, QueuedIndices
    <3>3. i \notin W /\ i \notin K
      BY <1>7, <1>9, <2>2, <3>1, <3>2
    <3>. QED BY <3>2, <3>3
  <2>. QED BY <2>3, <2>4
<1>14. IsFiniteSet(RunningDownloads') /\ Cardinality(RunningDownloads') \in Nat
  <2>1. IsFiniteSet(At(InList))
    BY <1>1, AtCounts
  <2>2. RunningDownloads' \subseteq At(InList)
    BY <1>3, <1>6 DEF RunningDownloads, At
  <2>. QED BY <2>1, <2>2, FS_Subset, FS_CardinalityType
<1>15. WithinCap'
  <2>1. Cardinality(Counted') <= Cardinality(At(running))
    BY <1>2, <1>12, FS_Subset
  <2>2. IsFiniteSet(Counted')
    BY <1>2, <1>12, FS_Subset
  <2>3. Cardinality(Counted') \in Nat /\ Cardinality(At(running)) \in Nat /\ maxActive \in Int
    BY <1>2, <2>2, FS_CardinalityType, MaxCapAssumption DEF TypeOK
  <2>. HIDE DEF running
  <2>4. Cardinality(Counted') <= maxActive
    BY <1>2, <2>1, <2>3
  <2>. QED BY <1>3, <2>4 DEF WithinCap
<1>16. ASSUME Waiting' # {} PROVE Cardinality(RunningDownloads') >= maxActive
  <2>1. Cardinality(At(running)) = maxActive
    BY <1>2, <1>13, <1>16
  <2>2. Cardinality(At(running)) <= Cardinality(RunningDownloads')
    BY <1>10, <1>14, FS_Subset
  <2>. HIDE DEF running
  <2>3. maxActive \in Int
    BY MaxCapAssumption DEF TypeOK
  <2>. QED BY <1>14, <2>1, <2>2, <2>3
<1>. QED BY <1>15, <1>16

\* A pass ends where enforceDownloadQueue returns.
LEMMA PassEnds ==
  ASSUME [Next]_vars, step \in {"queue", "last"}, step' # step
  PROVE  \E fast \in SUBSET Torrents : EnforceQueue(fast)
<1>1. CASE Tick
  <2>1. ~CheckInterface
    BY DEF CheckInterface
  <2>. QED BY <1>1, <2>1 DEF Tick, TickStarts, OnTorrentFinished, OnDiskFull, OnTorrentFault,
    AlertsEnd, CheckSeeds, CheckDisk, CheckMemory
<1>2. CASE Environment
  BY <1>2 DEF Environment, Progress, InterfaceChanges, MinutePasses
<1>3. CASE User
  BY <1>3 DEF User, UserMay, AddTorrent, RemoveTorrent, PauseTorrent, ResumeTorrent,
    SetForceStart, UserMarksCompleted, SetTorrentQueuePosition, PauseAll, ResumeAll,
    SetMaxActiveDownloads, SetOutgoingInterface, SetKillSwitchEnabled,
    SetAutoResumeOnReconnect, SetVpnProxy
<1>4. CASE UNCHANGED vars
  BY <1>4 DEF vars
<1>. QED BY <1>1, <1>2, <1>3, <1>4 DEF Next

\* Every pass of enforceDownloadQueue over accurate statuses ends with at most
\* maxActiveDownloads downloads that count, and with nobody waiting while there
\* is a free slot: for every library, cap, choice of fast torrents and history.
THEOREM EveryPassIsExact == Spec => QueuePassIsExact
<1>1. Init => ListIsExact
  BY LibraryAssumption DEF Init, ListIsExact
<1>2. ASSUME TypeOK, ListIsExact, PausesHaveAnOwner, [Next]_vars
      PROVE  step' # step /\ step \in {"queue", "last"} /\ CacheIsAccurate /\ maxActive > 0 =>
               /\ WithinCap'
               /\ Waiting' # {} => Cardinality(RunningDownloads') >= maxActive
  BY <1>2, PassEnds, QueuePass
<1>3. Init => PausesHaveAnOwner
  BY DEF Init, PausesHaveAnOwner
<1>4. TypeOK /\ ListIsExact /\ PausesHaveAnOwner /\ [Next]_vars =>
        [step' # step /\ step \in {"queue", "last"} /\ CacheIsAccurate /\ maxActive > 0 =>
           /\ WithinCap'
           /\ Waiting' # {} => Cardinality(RunningDownloads') >= maxActive]_vars
  BY <1>2
<1>. QED BY <1>1, <1>3, <1>4, InitType, NextType, NextOwner, NextList, PTL
  DEF Spec, QueuePassIsExact
=============================================================================
