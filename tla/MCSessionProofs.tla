---------------------------- MODULE MCSessionProofs ----------------------------
(***************************************************************************)
(* What holds of the components that MCSession composes, for every value   *)
(* of its constants.  A behaviour is of one component, so each theorem     *)
(* rests on an invariant of that component's own steps, and its last step  *)
(* carries the invariant over to the composition.  The variables are those *)
(* of MCSession, in the order in which each component declares its own;    *)
(* the head of each section names them.                                    *)
(***************************************************************************)
EXTENDS MCSession, SequenceTheorems, FiniteSetTheorems, WellFoundedInduction, TLAPS

\* A behaviour stays of the component it is of.
LEMMA PartStays ==
  ASSUME [Next]_vars
  PROVE  part' = part
BY DEF Next, vars

-----------------------------------------------------------------------------
(* BandwidthSchedule: v1 normal, v2 alt, v3 altOn, v4 enabled, v5 window,
   v6 applied, v7 clock, v8 shown, v9 chosen *)

\* The remainder of a number that is less than one turn away
LEMMA TurnBack ==
  ASSUME NEW n \in Nat, NEW x \in Int, 0 - n < x, x < n
  PROVE  x % n = IF x < 0 THEN x + n ELSE x
OBVIOUS

\* The first launch has no limits at all.
LEMMA BandwidthInit ==
  ASSUME Bandwidth!Init
  PROVE  Bandwidth!TypeOK /\ Bandwidth!LimitIsApplied /\ v1 = v9
<1>1. 0 \in 0 .. Hours - 1
  BY WeekAssumption
<1>. QED
  BY <1>1, WeekAssumption DEF Bandwidth!Init, Bandwidth!TypeOK, Bandwidth!LimitIsApplied, Bandwidth!Unlimited, Bandwidth!Rates

\* Every step keeps the types: the clock stays within the week.
LEMMA BandwidthTypes ==
  ASSUME Bandwidth!TypeOK, Bandwidth!Next
  PROVE  Bandwidth!TypeOK'
<1>. USE DEF Bandwidth!TypeOK, Bandwidth!Rates, Bandwidth!speeds, Bandwidth!schedule
<1>1. CASE Bandwidth!SetLimit
  BY <1>1 DEF Bandwidth!SetLimit
<1>2. CASE Bandwidth!SetAltSpeedLimits
  BY <1>2 DEF Bandwidth!SetAltSpeedLimits
<1>3. CASE Bandwidth!SetSchedulerEnabled
  BY <1>3 DEF Bandwidth!SetSchedulerEnabled
<1>4. CASE Bandwidth!SetWindow
  BY <1>4 DEF Bandwidth!SetWindow
<1>5. CASE Bandwidth!SetAltSpeedsActive
  BY <1>5 DEF Bandwidth!SetAltSpeedsActive
<1>6. CASE Bandwidth!CheckBandwidthSchedule
  BY <1>6 DEF Bandwidth!CheckBandwidthSchedule, Bandwidth!InWindow
<1>7. CASE Bandwidth!HourPasses
  <2>1. v7' \in 0 .. Days * Hours - 1
    BY <1>7, WeekAssumption DEF Bandwidth!HourPasses
  <2>. QED BY <1>7, <2>1 DEF Bandwidth!HourPasses
<1>8. CASE Bandwidth!Relaunch
  BY <1>8 DEF Bandwidth!Relaunch
<1>. QED BY <1>1, <1>2, <1>3, <1>4, <1>5, <1>6, <1>7, <1>8 DEF Bandwidth!Next

\* The window that the code compares hours for is the arc of the clock.
LEMMA BandwidthArc ==
  ASSUME Bandwidth!TypeOK
  PROVE  Bandwidth!WindowIsAnArc
<1>1. ASSUME NEW x \in 0 .. Hours - 1, NEW y \in 0 .. Hours - 1
      PROVE  (x - y) % Hours = IF x < y THEN (x - y) + Hours ELSE x - y
  <2>1. x - y \in Int /\ 0 - Hours < x - y /\ x - y < Hours /\ Hours \in Nat
    BY WeekAssumption
  <2>2. (x - y) % Hours = IF x - y < 0 THEN (x - y) + Hours ELSE x - y
    BY <2>1, TurnBack, Zenon
  <2>. QED BY <2>2, WeekAssumption
<1>2. ASSUME NEW x \in 0 .. Hours - 1, NEW from \in 0 .. Hours - 1, NEW to \in 0 .. Hours - 1
      PROVE  (x - from) % Hours < (to - from) % Hours
               <=> IF from <= to THEN from <= x /\ x < to ELSE from <= x \/ x < to
  <2>1. (x - from) % Hours = IF x < from THEN (x - from) + Hours ELSE x - from
    BY <1>1
  <2>2. (to - from) % Hours = IF to < from THEN (to - from) + Hours ELSE to - from
    BY <1>1
  <2>. QED BY <2>1, <2>2, WeekAssumption
<1>3. /\ Bandwidth!Hour \in 0 .. Hours - 1
      /\ v5.from \in 0 .. Hours - 1
      /\ v5.to \in 0 .. Hours - 1
  BY WeekAssumption DEF Bandwidth!Hour, Bandwidth!TypeOK
<1>4. (Bandwidth!Hour - v5.from) % Hours < (v5.to - v5.from) % Hours
        <=> IF v5.from <= v5.to THEN v5.from <= Bandwidth!Hour /\ Bandwidth!Hour < v5.to
                                ELSE v5.from <= Bandwidth!Hour \/ Bandwidth!Hour < v5.to
  BY <1>2, <1>3
<1>. QED BY <1>4 DEF Bandwidth!WindowIsAnArc, Bandwidth!InWindow

\* Every step keeps what libtorrent enforces the limits in force, and the normal
\* limits those that the user set last.
LEMMA BandwidthSteps ==
  ASSUME Bandwidth!TypeOK, Bandwidth!LimitIsApplied, v1 = v9, Bandwidth!Next
  PROVE  Bandwidth!LimitIsApplied' /\ v1' = v9'
<1>. USE DEF Bandwidth!TypeOK, Bandwidth!LimitIsApplied, Bandwidth!Rates, Bandwidth!speeds,
  Bandwidth!schedule
<1>1. CASE Bandwidth!SetLimit
  BY <1>1 DEF Bandwidth!SetLimit
<1>2. CASE Bandwidth!SetAltSpeedLimits
  BY <1>2 DEF Bandwidth!SetAltSpeedLimits
<1>3. CASE Bandwidth!SetSchedulerEnabled
  BY <1>3 DEF Bandwidth!SetSchedulerEnabled
<1>4. CASE Bandwidth!SetWindow
  BY <1>4 DEF Bandwidth!SetWindow
<1>5. CASE Bandwidth!SetAltSpeedsActive
  BY <1>5 DEF Bandwidth!SetAltSpeedsActive
<1>6. CASE Bandwidth!CheckBandwidthSchedule
  BY <1>6 DEF Bandwidth!CheckBandwidthSchedule
<1>7. CASE Bandwidth!HourPasses
  BY <1>7 DEF Bandwidth!HourPasses
<1>8. CASE Bandwidth!Relaunch
  BY <1>8 DEF Bandwidth!Relaunch
<1>. QED BY <1>1, <1>2, <1>3, <1>4, <1>5, <1>6, <1>7, <1>8 DEF Bandwidth!Next

\* The inductive invariant: the normal limits are those that the user set last.
BandwidthInv ==
  part = "bandwidth" => Bandwidth!TypeOK /\ Bandwidth!LimitIsApplied /\ v1 = v9

\* The limits in force are the ones that the state asks for, after any mix of the
\* schedule, the button and the limits page (checkBandwidthSchedule,
\* setAltSpeedsActive, setDownloadLimit), and a window is the arc of its hours.
THEOREM LimitsRight == Spec => []LimitsAreRight
<1>1. Init => BandwidthInv
  <2>1. CASE part = "bandwidth"
    BY <2>1, BandwidthInit DEF Init, BandwidthInv
  <2>. QED BY <2>1 DEF BandwidthInv
<1>2. BandwidthInv /\ [Next]_vars => BandwidthInv'
  <2>. SUFFICES ASSUME BandwidthInv, [Next]_vars, part' = "bandwidth"
                PROVE  (Bandwidth!TypeOK /\ Bandwidth!LimitIsApplied /\ v1 = v9)'
    BY DEF BandwidthInv
  <2>1. part = "bandwidth"
    BY PartStays
  <2>2. CASE Bandwidth!Next
    BY <2>1, <2>2, BandwidthTypes, BandwidthSteps DEF BandwidthInv
  <2>3. CASE UNCHANGED vars
    BY <2>1, <2>3 DEF BandwidthInv, vars, Bandwidth!TypeOK, Bandwidth!LimitIsApplied
  <2>. QED BY <2>1, <2>2, <2>3 DEF Next
<1>3. BandwidthInv => LimitsAreRight
  BY BandwidthArc DEF BandwidthInv, LimitsAreRight, Bandwidth!LimitsAreRight
<1>. QED BY <1>1, <1>2, <1>3, PTL DEF Spec

-----------------------------------------------------------------------------
(* TrashRetries: v1 present, v2 open, v3 adopted, v4 jobs, v5 pending, v6 asked,
   v7 givenUp *)

\* At the first launch nothing is to go.
LEMMA TrashInit ==
  ASSUME Trash!Init
  PROVE  Trash!TypeOK /\ Trash!DeletionIsRemembered
BY DEF Trash!Init, Trash!TypeOK, Trash!DeletionIsRemembered

\* Every step keeps the types: no job outlives its last attempt.
LEMMA TrashTypes ==
  ASSUME Trash!TypeOK, Trash!Next
  PROVE  Trash!TypeOK'
<1>. USE DEF Trash!TypeOK, Trash!Kinds, Trash!Paths, Trash!Job
<1>1. ASSUME NEW t \in Owners, Trash!Add(t)
      PROVE  Trash!TypeOK'
  BY <1>1 DEF Trash!Add
<1>2. ASSUME NEW t \in Owners, NEW how \in Trash!Kinds \cup {"keep"}, Trash!Remove(t, how)
      PROVE  Trash!TypeOK'
  BY <1>2, AttemptsAssumption DEF Trash!Remove
<1>3. ASSUME NEW p \in Trash!Paths, Trash!LetsGo(p)
      PROVE  Trash!TypeOK'
  BY <1>3 DEF Trash!LetsGo
<1>4. ASSUME NEW j \in v4, Trash!JobFires(j)
      PROVE  Trash!TypeOK'
  <2>1. j.kind \in Trash!Kinds /\ j.targets \subseteq Trash!Paths /\ j.attempt \in 0 .. MaxAttempts
    OBVIOUS
  <2>. QED BY <1>4, <2>1, AttemptsAssumption DEF Trash!JobFires
<1>5. CASE Trash!Relaunch
  BY <1>5, AttemptsAssumption DEF Trash!Relaunch
<1>. QED BY <1>1, <1>2, <1>3, <1>4, <1>5 DEF Trash!Next

\* Every step keeps in the settings what is to go and still there.
LEMMA TrashSteps ==
  ASSUME Trash!TypeOK, Trash!DeletionIsRemembered, Trash!Next
  PROVE  Trash!DeletionIsRemembered'
<1>. USE DEF Trash!TypeOK, Trash!DeletionIsRemembered, Trash!Kinds
<1>1. ASSUME NEW t \in Owners, Trash!Add(t)
      PROVE  Trash!DeletionIsRemembered'
  BY <1>1 DEF Trash!Add
<1>2. ASSUME NEW t \in Owners, NEW how \in Trash!Kinds \cup {"keep"}, Trash!Remove(t, how)
      PROVE  Trash!DeletionIsRemembered'
  BY <1>2 DEF Trash!Remove
<1>3. ASSUME NEW p \in Trash!Paths, Trash!LetsGo(p)
      PROVE  Trash!DeletionIsRemembered'
  BY <1>3 DEF Trash!LetsGo
<1>4. ASSUME NEW j \in v4, Trash!JobFires(j)
      PROVE  Trash!DeletionIsRemembered'
  BY <1>4 DEF Trash!JobFires
<1>5. CASE Trash!Relaunch
  BY <1>5 DEF Trash!Relaunch
<1>. QED BY <1>1, <1>2, <1>3, <1>4, <1>5 DEF Trash!Next

\* A file that is to go is in the settings until it is gone, so that no quit and no
\* crash forgets one (retryTrash, the settings pendingTrashTargets), whatever the
\* files that torrents share, and also when one is added again while a job is due.
THEOREM DeletionRemembered == Spec => []DeletionGoesOn
<1>1. Init => DeletionGoesOn
  BY TrashInit DEF Init, DeletionGoesOn, Trash!DeletionGoesOn
<1>2. DeletionGoesOn /\ [Next]_vars => DeletionGoesOn'
  <2>. SUFFICES ASSUME DeletionGoesOn, [Next]_vars, part' = "trash"
                PROVE  (Trash!TypeOK /\ Trash!DeletionIsRemembered)'
    BY DEF DeletionGoesOn, Trash!DeletionGoesOn
  <2>1. part = "trash" /\ Trash!TypeOK /\ Trash!DeletionIsRemembered
    BY PartStays DEF DeletionGoesOn, Trash!DeletionGoesOn
  <2>2. CASE Trash!Next
    BY <2>1, <2>2, TrashTypes, TrashSteps
  <2>3. CASE UNCHANGED vars
    BY <2>1, <2>3 DEF vars, Trash!TypeOK, Trash!DeletionIsRemembered
  <2>. QED BY <2>1, <2>2, <2>3 DEF Next
<1>. QED BY <1>1, <1>2, PTL DEF Spec

-----------------------------------------------------------------------------
(* FinishMoves: v1 torrent, v2 moves, v3 alerts, v4 key, v5 intended, v6 stop,
   v7 muted, v8 config, v9 wish *)

\* At the first launch there is no torrent.
LEMMA FinishInit ==
  ASSUME Finish!Init
  PROVE  Finish!FinishInv
<1>. USE DEF Finish!Init, Finish!There, Finish!NoTorrent, Finish!NoWish, Finish!Hashes,
  Finish!Folders, Finish!None
<1>1. Finish!Typed
  <2>1. v1 \in Finish!Torrents
    BY DEF Finish!Torrents
  <2>2. v8 \in Finish!Configs
    BY DEF Finish!Configs
  <2>3. v9 \in Finish!Wishes
    BY DEF Finish!Wishes
  <2>. QED BY <2>1, <2>2, <2>3 DEF Finish!Typed
<1>2. Finish!AlertsInOrder
  BY DEF Finish!AlertsInOrder
<1>3. Finish!MovesAreFew
  BY DEF Finish!MovesAreFew
<1>4. Finish!StopIsNoted
  BY DEF Finish!StopIsNoted
<1>5. Finish!EndIsPrepared
  BY DEF Finish!EndIsPrepared
<1>. QED BY <1>1, <1>2, <1>3, <1>4, <1>5 DEF Finish!FinishInv

\* Every step keeps the types.
LEMMA FinishTypes ==
  ASSUME Finish!Typed, Finish!Next
  PROVE  Finish!Typed'
<1>. USE DEF Finish!Typed, Finish!Hashes, Finish!Folders, Finish!None, Finish!Handle
<1>1. CASE Finish!MetadataArrives
  <2>1. v1' \in Finish!Torrents
    BY <1>1 DEF Finish!MetadataArrives, Finish!Torrents
  <2>. QED BY <1>1, <2>1 DEF Finish!MetadataArrives
<1>2. CASE Finish!Completes
  <2>1. v1' \in Finish!Torrents
    BY <1>2 DEF Finish!Completes, Finish!Torrents
  <2>. QED BY <1>2, <2>1 DEF Finish!Completes
<1>3. CASE Finish!MoveIsMade
  <2>1. Head(v2) \in Finish!Folders /\ Tail(v2) \in Seq(Finish!Folders)
    BY <1>3 DEF Finish!MoveIsMade
  <2>2. v1' \in Finish!Torrents
    BY <1>3, <2>1 DEF Finish!MoveIsMade, Finish!Torrents
  <2>. QED BY <1>3, <2>1, <2>2 DEF Finish!MoveIsMade
<1>4. CASE Finish!MoveFails
  <2>1. v9' \in Finish!Wishes
    BY <1>4 DEF Finish!MoveFails, Finish!Wishes
  <2>. QED BY <1>4, <2>1 DEF Finish!MoveFails
<1>5. CASE Finish!OnMetadataReceived
  BY <1>5 DEF Finish!OnMetadataReceived, Finish!Best, Finish!Rekeyed
<1>6. CASE Finish!OnTorrentFinished
  <2>1. Finish!Destination \in Finish!Folders \cup {Finish!None} /\ Finish!Best \in Finish!Hashes
    BY DEF Finish!Destination, Finish!Best
  <2>2. v1' \in Finish!Torrents
    BY <1>6 DEF Finish!OnTorrentFinished, Finish!Torrents
  <2>3. v9' \in Finish!Wishes
    <3>1. ASSUME NEW n \in 0 .. 2
          PROVE  [v9 EXCEPT !.told = n] \in Finish!Wishes
      BY DEF Finish!Wishes
    <3>2. v9.told < 2 => v9.told + 1 \in 0 .. 2
      BY DEF Finish!Wishes
    <3>3. v9.told < 2 => [v9 EXCEPT !.told = @ + 1] \in Finish!Wishes
      BY <3>1, <3>2
    <3>. QED BY <1>6, <3>3 DEF Finish!OnTorrentFinished
  <2>4. v2' \in Seq(Finish!Folders)
    <3>1. Finish!Destination # Finish!None => Append(v2, Finish!Destination) \in Seq(Finish!Folders)
      BY <2>1
    <3>. QED BY <1>6, <3>1 DEF Finish!OnTorrentFinished
  <2>. QED BY <1>6, <2>1, <2>2, <2>3, <2>4 DEF Finish!OnTorrentFinished
<1>7. CASE Finish!OnStorageMovedFailed
  <2>1. v1' \in Finish!Torrents
    BY <1>7 DEF Finish!OnStorageMovedFailed, Finish!Torrents
  <2>. QED BY <1>7, <2>1 DEF Finish!OnStorageMovedFailed
<1>8. ASSUME NEW late \in BOOLEAN, Finish!Add(late)
      PROVE  Finish!Typed'
  <2>1. v1' \in Finish!Torrents
    <3>1. v1' = [state |-> "downloading", meta |-> ~late,
                 at |-> IF v8.temp THEN "temp" ELSE "home", payload |-> FALSE, paused |-> FALSE,
                 seen |-> TRUE]
      BY <1>8 DEF Finish!Add, Finish!NoTorrent
    <3>. QED BY <3>1 DEF Finish!Torrents
  <2>2. v9' \in Finish!Wishes
    <3>1. v8.auto \in BOOLEAN
      BY DEF Finish!Configs
    <3>2. v9' = [at |-> "home", stop |-> FALSE, auto |-> v8.auto, failed |-> FALSE, told |-> 0]
      BY <1>8 DEF Finish!Add, Finish!NoWish
    <3>. QED BY <3>1, <3>2 DEF Finish!Wishes
  <2>. QED BY <1>8, <2>1, <2>2 DEF Finish!Add, Finish!Best
<1>9. CASE Finish!RemoveTorrent
  <2>1. v1' \in Finish!Torrents /\ v9' \in Finish!Wishes
    BY <1>9 DEF Finish!RemoveTorrent, Finish!Torrents, Finish!Wishes, Finish!NoTorrent, Finish!NoWish
  <2>. QED BY <1>9, <2>1 DEF Finish!RemoveTorrent
<1>10. CASE Finish!SetTorrentCategory
  <2>1. v9' \in Finish!Wishes
    BY <1>10 DEF Finish!SetTorrentCategory, Finish!SeenDownloading, Finish!Wishes
  <2>. QED BY <1>10, <2>1 DEF Finish!SetTorrentCategory, Finish!SeenDownloading
<1>11. CASE Finish!MoveStorage
  <2>1. v9' \in Finish!Wishes
    BY <1>11 DEF Finish!MoveStorage, Finish!Wishes
  <2>. QED BY <1>11, <2>1 DEF Finish!MoveStorage
<1>12. ASSUME NEW on \in BOOLEAN, Finish!SetStopAfterDownload(on)
       PROVE  Finish!Typed'
  <2>1. v9' \in Finish!Wishes
    BY <1>12 DEF Finish!SetStopAfterDownload, Finish!Wishes
  <2>. QED BY <1>12, <2>1 DEF Finish!SetStopAfterDownload
<1>13. CASE Finish!SetAutoMove
  <2>1. v8' \in Finish!Configs /\ v9' \in Finish!Wishes
    BY <1>13 DEF Finish!SetAutoMove, Finish!Configs, Finish!Wishes, Finish!There, Finish!Settled
  <2>. QED BY <1>13, <2>1 DEF Finish!SetAutoMove
<1>14. CASE Finish!SetTempPath
  <2>1. v8' \in Finish!Configs
    BY <1>14 DEF Finish!SetTempPath, Finish!Configs
  <2>. QED BY <1>14, <2>1 DEF Finish!SetTempPath
<1>15. CASE Finish!Restart
  <2>1. Finish!Best \in Finish!Hashes
    BY DEF Finish!Best
  <2>2. v1' \in Finish!Torrents
    BY <1>15 DEF Finish!Restart, Finish!Torrents
  <2>. QED BY <1>15, <2>1, <2>2 DEF Finish!Restart
<1>16. CASE Finish!StatusUpdate
  <2>1. v1' \in Finish!Torrents
    BY <1>16 DEF Finish!StatusUpdate, Finish!Torrents
  <2>. QED BY <1>16, <2>1 DEF Finish!StatusUpdate
<1>. QED BY <1>1, <1>2, <1>3, <1>4, <1>5, <1>6, <1>7, <1>8, <1>9, <1>10, <1>11, <1>12, <1>13, <1>14, <1>15, <1>16 DEF Finish!Next

\* An alert that libtorrent posts waits, and so do those that waited.
LEMMA WaitsLonger ==
  ASSUME v3 \in Seq({"metadata", "finished", "failed"}), NEW a \in {"metadata", "finished", "failed"},
         v3' = Append(v3, a), NEW b
  PROVE  Finish!Waits(b)' <=> Finish!Waits(b) \/ a = b
BY DEF Finish!Waits

\* Those that waited are the one that is handled and those that wait after it.
LEMMA WaitsShorter ==
  ASSUME v3 \in Seq({"metadata", "finished", "failed"}), v3 # <<>>, v3' = Tail(v3), NEW b
  PROVE  Finish!Waits(b) <=> Head(v3) = b \/ Finish!Waits(b)'
<1>1. ASSUME NEW i \in DOMAIN v3, v3[i] = b
      PROVE  Head(v3) = b \/ \E k \in DOMAIN v3' : v3'[k] = b
  <2>1. CASE i = 1
    BY <1>1, <2>1
  <2>2. CASE i # 1
    <3>1. i - 1 \in DOMAIN v3' /\ v3'[i - 1] = v3[i]
      BY <2>2
    <3>. QED BY <1>1, <3>1
  <2>. QED BY <2>1, <2>2
<1>2. ASSUME NEW k \in DOMAIN v3'
      PROVE  k + 1 \in DOMAIN v3 /\ v3[k + 1] = v3'[k]
  OBVIOUS
<1>3. 1 \in DOMAIN v3 /\ v3[1] = Head(v3)
  OBVIOUS
<1>. QED BY <1>1, <1>2, <1>3 DEF Finish!Waits

\* What leaves the alerts alone leaves those that wait.
LEMMA WaitsSame ==
  ASSUME v3' = v3, NEW b
  PROVE  Finish!Waits(b)' <=> Finish!Waits(b)
BY DEF Finish!Waits

\* None waits where there is none.
LEMMA NoneWaits ==
  ASSUME v3 = <<>>, NEW b
  PROVE  ~Finish!Waits(b)
BY DEF Finish!Waits

\* The last move of several is still the last when the first one is made.
LEMMA LastOfTail ==
  ASSUME NEW S, NEW s \in Seq(S), s # <<>>
  PROVE  IF Tail(s) = <<>> THEN Head(s) = s[Len(s)] ELSE Tail(s)[Len(Tail(s))] = s[Len(s)]
<1>1. Len(s) \in Nat \ {0} /\ Tail(s) \in Seq(S) /\ Len(Tail(s)) = Len(s) - 1
  BY EmptySeq, HeadTailProperties
<1>2. \A i \in 1 .. Len(Tail(s)) : Tail(s)[i] = s[i + 1]
  BY HeadTailProperties
<1>3. CASE Tail(s) = <<>>
  <2>1. Len(s) = 1
    BY <1>1, <1>3, EmptySeq
  <2>. QED BY <1>3, <2>1
<1>4. CASE Tail(s) # <<>>
  <2>1. Len(Tail(s)) \in Nat \ {0}
    BY <1>1, <1>4, EmptySeq
  <2>. QED BY <1>1, <1>2, <1>4, <2>1
<1>. QED BY <1>3, <1>4

\* Alerts without an end among them are at most two, one of them of the metadata.
LEMMA FewAlerts ==
  ASSUME v3 \in Seq({"metadata", "finished", "failed"}),
         \A i \in DOMAIN v3 : v3[i] \in {"metadata", "failed"},
         \A i, j \in DOMAIN v3 : i < j => v3[i] # v3[j]
  PROVE  Len(v3) <= 1 + (IF Finish!Waits("metadata") THEN 1 ELSE 0)
<1>1. Len(v3) \in Nat
  OBVIOUS
<1>2. Len(v3) <= 2
  <2>. SUFFICES ASSUME Len(v3) > 2 PROVE FALSE
    BY <1>1
  <2>1. 1 \in DOMAIN v3 /\ 2 \in DOMAIN v3 /\ 3 \in DOMAIN v3
    OBVIOUS
  <2>2. v3[1] # v3[2] /\ v3[2] # v3[3] /\ v3[1] # v3[3]
    BY <2>1
  <2>. QED BY <2>1, <2>2
<1>3. ASSUME Len(v3) = 2
      PROVE  Finish!Waits("metadata")
  <2>1. 1 \in DOMAIN v3 /\ 2 \in DOMAIN v3 /\ v3[1] # v3[2]
    BY <1>3
  <2>. QED BY <2>1 DEF Finish!Waits
<1>4. \A n \in Nat : n <= 2 /\ n # 2 => n <= 1
  OBVIOUS
<1>5. CASE Finish!Waits("metadata")
  BY <1>1, <1>2, <1>5
<1>6. CASE ~Finish!Waits("metadata")
  <2>1. Len(v3) <= 1
    BY <1>1, <1>2, <1>3, <1>4, <1>6
  <2>. QED BY <1>6, <2>1
<1>. QED BY <1>5, <1>6

\* The end is handled: the alerts stay in order.
LEMMA EndInOrder ==
  ASSUME Finish!FinishInv, Finish!OnTorrentFinished
  PROVE  Finish!AlertsInOrder'
<1>. USE DEF Finish!FinishInv, Finish!Typed, Finish!AlertsInOrder, Finish!There
<1>1. v3 # <<>> /\ v1.state # "none" /\ v3' = Tail(v3)
  BY DEF Finish!OnTorrentFinished, Finish!Handle
<1>2. v1'.state = v1.state /\ v1'.meta = v1.meta
  BY DEF Finish!OnTorrentFinished, Finish!Torrents
<1>3. v9'.failed = v9.failed
  BY DEF Finish!OnTorrentFinished, Finish!Wishes
<1>. QED BY <1>1, <1>2, <1>3

\* A restart leaves no alert and no torrent where there was none.
LEMMA RestartInOrder ==
  ASSUME Finish!FinishInv, Finish!Restart
  PROVE  Finish!AlertsInOrder'
<1>. USE DEF Finish!FinishInv, Finish!Typed, Finish!AlertsInOrder, Finish!There
<1>1. v1.state = "none" => v1' = Finish!NoTorrent
  <2>1. ASSUME v1 = Finish!NoTorrent
        PROVE  v1' = Finish!NoTorrent
    BY <2>1 DEF Finish!Restart, Finish!NoTorrent
  <2>. QED BY <2>1
<1>2. v1'.state = "none" <=> v1.state = "none"
  BY DEF Finish!Restart, Finish!Torrents
<1>3. v2 = <<>> /\ v2' = v2 /\ v3 = <<>> /\ v3' = v3
  BY DEF Finish!Restart
<1>. QED BY <1>1, <1>2, <1>3

\* The metadata arrives: its alert is not one that may lead to a move.
LEMMA MetadataFewMoves ==
  ASSUME Finish!FinishInv, Finish!MetadataArrives
  PROVE  Finish!MovesAreFew'
<1>. USE DEF Finish!FinishInv, Finish!Typed, Finish!MovesAreFew
<1>1. ~Finish!Waits("metadata")
  BY DEF Finish!MetadataArrives, Finish!AlertsInOrder, Finish!Waits
<1>2. Finish!Waits("metadata")'
  BY WaitsLonger DEF Finish!MetadataArrives
<1>3. v1'.state = v1.state
  BY DEF Finish!MetadataArrives, Finish!Torrents
<1>. QED BY <1>1, <1>2, <1>3 DEF Finish!MetadataArrives

\* A move to a category's folder finds at most a failed move to be handled, and the
\* completion to come.
LEMMA CategoryFewMoves ==
  ASSUME Finish!FinishInv, Finish!SetTorrentCategory
  PROVE  Finish!MovesAreFew'
<1>. USE DEF Finish!FinishInv, Finish!Typed, Finish!MovesAreFew
<1>1. Finish!Waits("metadata")' <=> Finish!Waits("metadata")
  BY WaitsSame DEF Finish!SetTorrentCategory, Finish!SeenDownloading
<1>2. ASSUME NEW i \in DOMAIN v3
      PROVE  v3[i] \in {"metadata", "failed"}
  BY DEF Finish!SetTorrentCategory, Finish!SeenDownloading, Finish!AlertsInOrder
<1>3. Len(v3) <= 1 + (IF Finish!Waits("metadata") THEN 1 ELSE 0)
  <2>1. ASSUME NEW i \in DOMAIN v3, NEW j \in DOMAIN v3, i < j
        PROVE  v3[i] # v3[j]
    BY <1>2, <2>1 DEF Finish!AlertsInOrder
  <2>. QED BY <1>2, <2>1, FewAlerts
<1>4. Len(v2') <= 1 /\ v3' = v3 /\ v1' = v1
  BY DEF Finish!SetTorrentCategory, Finish!SeenDownloading, Finish!Folders
<1>. QED BY <1>1, <1>3, <1>4

\* The end is handled: it is the only one that waits, under the hash of the metadata,
\* and what it moves goes to where the user wants the torrent.
LEMMA EndHandled ==
  ASSUME Finish!FinishInv, Finish!OnTorrentFinished
  PROVE  Finish!StopIsNoted' /\ Finish!EndIsPrepared'
<1>. USE DEF Finish!FinishInv, Finish!Typed, Finish!There
<1>1. /\ v3 # <<>> /\ v3' = Tail(v3) /\ Head(v3) = "finished" /\ 1 \in DOMAIN v3 /\ v3[1] = "finished"
      /\ v4' = v4 /\ v6' = v6 /\ v7' = v7 /\ v8' = v8
  BY DEF Finish!OnTorrentFinished, Finish!Handle
<1>2. /\ v1'.state = v1.state /\ v1'.meta = v1.meta /\ v1'.payload = v1.payload /\ v1'.at = v1.at
      /\ v9'.failed = v9.failed /\ v9'.stop = v9.stop /\ v9'.at = v9.at /\ v9'.auto = v9.auto
  BY DEF Finish!OnTorrentFinished, Finish!Torrents, Finish!Wishes
<1>3. Finish!Waits("finished") /\ ~Finish!Waits("metadata") /\ ~Finish!Waits("metadata")'
  <2>1. Finish!Waits("finished")
    BY <1>1 DEF Finish!Waits
  <2>2. ~Finish!Waits("metadata")
    BY <1>1 DEF Finish!AlertsInOrder, Finish!Waits
  <2>. QED BY <2>1, <2>2, <1>1, WaitsShorter
<1>4. v4 = Finish!Best /\ Finish!Best' = Finish!Best /\ v1.meta /\ v1.state # "none"
  BY <1>1, <1>3 DEF Finish!StopIsNoted, Finish!AlertsInOrder, Finish!Best
<1>5. v1.payload => v1'.paused = (v1.paused \/ v4 \in v6)
  BY <1>4 DEF Finish!OnTorrentFinished, Finish!Torrents
<1>6. ~v1.payload => UNCHANGED <<v1, v2, v5, v9>>
  BY DEF Finish!OnTorrentFinished
<1>7. Finish!StopIsNoted'
  BY <1>1, <1>2, <1>3, <1>4, <1>5, <1>6 DEF Finish!StopIsNoted
<1>8. Finish!EndIsPrepared'
  <2>1. ~v8.temp => \A h \in Finish!Hashes : v5'[h] = Finish!None
    BY DEF Finish!OnTorrentFinished, Finish!EndIsPrepared
  <2>2. SUFFICES ASSUME ~v9.failed
                 PROVE  /\ v1.state = "checking" => ~v1.payload
                        /\ Finish!Waits("finished")' => v1.state = "done"
                        /\ ~Finish!EndsLater' /\ v9'.told = 1
                        /\ v9.auto \/ Finish!BoundFor' = v9.at
    BY <1>1, <1>2, <2>1 DEF Finish!EndIsPrepared
  <2>3. /\ v1.state = "done"
        /\ v1.state = "checking" => ~v1.payload
    BY <1>3, <1>4, <2>2 DEF Finish!EndIsPrepared
  <2>4. ~Finish!Waits("finished")'
    <3>1. ASSUME NEW k \in DOMAIN v3'
          PROVE  v3'[k] # "finished"
      <4>1. k + 1 \in DOMAIN v3 /\ v3[k + 1] = v3'[k] /\ 1 < k + 1
        BY <1>1
      <4>. QED BY <1>1, <2>2, <4>1, <1>4 DEF Finish!EndIsPrepared
    <3>. QED BY <3>1 DEF Finish!Waits
  <2>5. v9'.told = 1
    <3>1. CASE v1.payload
      <4>1. v9.told = 0 /\ v7 = {}
        BY <1>3, <1>4, <2>2, <3>1 DEF Finish!EndIsPrepared, Finish!EndsLater
      <4>. QED BY <3>1, <4>1, <1>4 DEF Finish!OnTorrentFinished, Finish!Wishes, Finish!EndIsPrepared, Finish!Hashes
    <3>2. CASE ~v1.payload
      BY <1>3, <1>4, <1>6, <2>2, <2>3, <3>2 DEF Finish!EndIsPrepared, Finish!EndsLater
    <3>. QED BY <3>1, <3>2
  <2>6. v9.auto \/ Finish!BoundFor' = v9.at
    <3>1. CASE v1.payload
      <4>1. ~v9.auto => ~v8.auto
        BY <1>3, <1>4, <2>2, <3>1 DEF Finish!EndIsPrepared, Finish!EndsLater
      <4>2. CASE v8.temp /\ ~v9.auto
        <5>1. v2 = <<>> /\ v5[v4] = v9.at /\ v5[v4] # Finish!None
          BY <1>3, <1>4, <2>2, <3>1, <4>2 DEF Finish!EndIsPrepared, Finish!EndsLater
        <5>2. v2' = Append(v2, v9.at)
          BY <3>1, <5>1, <1>4 DEF Finish!OnTorrentFinished, Finish!Destination
        <5>. QED BY <5>1, <5>2 DEF Finish!BoundFor
      <4>3. CASE ~v8.temp /\ ~v9.auto
        <5>1. Finish!Destination = Finish!None
          BY <4>1, <4>3 DEF Finish!Destination, Finish!EndIsPrepared, Finish!Best, Finish!Hashes
        <5>2. v2' = v2
          BY <3>1, <5>1 DEF Finish!OnTorrentFinished
        <5>. QED BY <1>2, <1>4, <2>2, <4>3, <5>2 DEF Finish!BoundFor, Finish!EndIsPrepared
      <4>. QED BY <4>2, <4>3 DEF Finish!Wishes
    <3>2. CASE ~v1.payload
      BY <1>3, <1>4, <1>6, <2>2, <2>3, <3>2 DEF Finish!EndIsPrepared, Finish!EndsLater, Finish!BoundFor
    <3>. QED BY <3>1, <3>2
  <2>. QED BY <1>2, <2>3, <2>4, <2>5, <2>6 DEF Finish!EndsLater
<1>. QED BY <1>7, <1>8

\* A move is made: what the others lead to stays.
LEMMA MoveMade ==
  ASSUME Finish!FinishInv, Finish!MoveIsMade
  PROVE  Finish!EndIsPrepared'
<1>. USE DEF Finish!FinishInv, Finish!Typed, Finish!There
<1>1. /\ v2 # <<>> /\ v2' = Tail(v2) /\ v3' = v3 /\ v4' = v4 /\ v5' = v5 /\ v7' = v7
      /\ v8' = v8 /\ v9' = v9
  BY DEF Finish!MoveIsMade
<1>2. /\ v1'.state = v1.state /\ v1'.payload = v1.payload /\ v1'.at = Head(v2)
  BY DEF Finish!MoveIsMade, Finish!Torrents
<1>3. \A b : Finish!Waits(b)' <=> Finish!Waits(b)
  BY <1>1, WaitsSame
<1>4. Finish!EndsLater' <=> Finish!EndsLater
  BY <1>2, <1>3 DEF Finish!EndsLater
<1>5. Finish!BoundFor' = Finish!BoundFor
  <2>1. v2 \in Seq(Finish!Folders)
    OBVIOUS
  <2>. QED BY <1>1, <1>2, <2>1, LastOfTail DEF Finish!BoundFor
<1>. QED BY <1>1, <1>2, <1>3, <1>4, <1>5 DEF Finish!EndIsPrepared, Finish!Hashes

\* Every step keeps the alerts in order.
LEMMA FinishAlertsInOrder ==
  ASSUME Finish!FinishInv, Finish!Next
  PROVE  Finish!AlertsInOrder'
<1>. USE DEF Finish!FinishInv, Finish!Typed, Finish!AlertsInOrder, Finish!There,
    Finish!Hashes, Finish!Folders, Finish!None,
  Finish!Torrents, Finish!Wishes, Finish!Configs
<1>1. CASE Finish!MetadataArrives
  BY <1>1 DEF Finish!MetadataArrives, Finish!Handle
<1>2. CASE Finish!Completes
  BY <1>2 DEF Finish!Completes, Finish!Handle
<1>3. CASE Finish!MoveIsMade
  BY <1>3 DEF Finish!MoveIsMade
<1>4. CASE Finish!MoveFails
  BY <1>4 DEF Finish!MoveFails, Finish!Handle
<1>5. CASE Finish!OnMetadataReceived
  BY <1>5 DEF Finish!OnMetadataReceived, Finish!Handle, Finish!Best, Finish!Rekeyed
<1>6. CASE Finish!OnTorrentFinished
  BY <1>6, EndInOrder
<1>7. CASE Finish!OnStorageMovedFailed
  BY <1>7 DEF Finish!OnStorageMovedFailed, Finish!Handle
<1>8. ASSUME NEW late \in BOOLEAN, Finish!Add(late)
      PROVE  Finish!AlertsInOrder'
  BY <1>8 DEF Finish!Add, Finish!Best, Finish!NoTorrent, Finish!NoWish
<1>9. CASE Finish!RemoveTorrent
  BY <1>9 DEF Finish!RemoveTorrent, Finish!NoTorrent, Finish!NoWish
<1>10. CASE Finish!SetTorrentCategory
  BY <1>10 DEF Finish!SetTorrentCategory, Finish!SeenDownloading
<1>11. CASE Finish!MoveStorage
  BY <1>11 DEF Finish!MoveStorage
<1>12. ASSUME NEW on \in BOOLEAN, Finish!SetStopAfterDownload(on)
      PROVE  Finish!AlertsInOrder'
  BY <1>12 DEF Finish!SetStopAfterDownload
<1>13. CASE Finish!SetAutoMove
  BY <1>13 DEF Finish!SetAutoMove, Finish!Settled
<1>14. CASE Finish!SetTempPath
  BY <1>14 DEF Finish!SetTempPath, Finish!InTemp
<1>15. CASE Finish!Restart
  BY <1>15, RestartInOrder
<1>16. CASE Finish!StatusUpdate
  BY <1>16 DEF Finish!StatusUpdate
<1>. QED BY <1>1, <1>2, <1>3, <1>4, <1>5, <1>6, <1>7, <1>8, <1>9, <1>10, <1>11, <1>12,
    <1>13, <1>14, <1>15, <1>16 DEF Finish!Next

\* Every step keeps the moves under way few.
LEMMA FinishMovesAreFew ==
  ASSUME Finish!FinishInv, Finish!Next
  PROVE  Finish!MovesAreFew'
<1>. USE DEF Finish!FinishInv, Finish!Typed, Finish!MovesAreFew, Finish!There,
    Finish!Hashes, Finish!Folders, Finish!None,
  Finish!Torrents, Finish!Wishes, Finish!Configs
<1>1. CASE Finish!MetadataArrives
  BY <1>1, MetadataFewMoves
<1>2. CASE Finish!Completes
  BY <1>2, WaitsLonger DEF Finish!Completes, Finish!Handle, Finish!AlertsInOrder
<1>3. CASE Finish!MoveIsMade
  BY <1>3, WaitsSame, NoneWaits DEF Finish!MoveIsMade, Finish!AlertsInOrder
<1>4. CASE Finish!MoveFails
  BY <1>4, WaitsLonger DEF Finish!MoveFails, Finish!Handle, Finish!AlertsInOrder
<1>5. CASE Finish!OnMetadataReceived
  BY <1>5, WaitsShorter DEF Finish!OnMetadataReceived, Finish!Handle, Finish!Best,
    Finish!Rekeyed, Finish!AlertsInOrder
<1>6. CASE Finish!OnTorrentFinished
  BY <1>6, WaitsShorter DEF Finish!OnTorrentFinished, Finish!Handle, Finish!Best,
    Finish!Destination, Finish!AlertsInOrder
<1>7. CASE Finish!OnStorageMovedFailed
  BY <1>7, WaitsShorter DEF Finish!OnStorageMovedFailed, Finish!Handle,
    Finish!AlertsInOrder
<1>8. ASSUME NEW late \in BOOLEAN, Finish!Add(late)
      PROVE  Finish!MovesAreFew'
  BY <1>8, WaitsSame, NoneWaits DEF Finish!Add, Finish!Best, Finish!NoTorrent,
    Finish!NoWish, Finish!AlertsInOrder
<1>9. CASE Finish!RemoveTorrent
  BY <1>9, WaitsSame, NoneWaits DEF Finish!RemoveTorrent, Finish!NoTorrent,
    Finish!NoWish, Finish!AlertsInOrder
<1>10. CASE Finish!SetTorrentCategory
  BY <1>10, CategoryFewMoves
<1>11. CASE Finish!MoveStorage
  BY <1>11, WaitsSame, NoneWaits DEF Finish!MoveStorage, Finish!AlertsInOrder
<1>12. ASSUME NEW on \in BOOLEAN, Finish!SetStopAfterDownload(on)
      PROVE  Finish!MovesAreFew'
  BY <1>12, WaitsSame, NoneWaits DEF Finish!SetStopAfterDownload, Finish!AlertsInOrder
<1>13. CASE Finish!SetAutoMove
  BY <1>13, WaitsSame, NoneWaits DEF Finish!SetAutoMove, Finish!Settled,
    Finish!AlertsInOrder
<1>14. CASE Finish!SetTempPath
  BY <1>14, WaitsSame, NoneWaits DEF Finish!SetTempPath, Finish!InTemp,
    Finish!AlertsInOrder
<1>15. CASE Finish!Restart
  BY <1>15, WaitsSame, NoneWaits DEF Finish!Restart, Finish!Best, Finish!InTemp,
    Finish!AlertsInOrder
<1>16. CASE Finish!StatusUpdate
  BY <1>16, WaitsSame, NoneWaits DEF Finish!StatusUpdate, Finish!AlertsInOrder
<1>. QED BY <1>1, <1>2, <1>3, <1>4, <1>5, <1>6, <1>7, <1>8, <1>9, <1>10, <1>11, <1>12,
    <1>13, <1>14, <1>15, <1>16 DEF Finish!Next

\* Every step keeps the wish to stop noted under the hash that the end is handled with.
LEMMA FinishStopIsNoted ==
  ASSUME Finish!FinishInv, Finish!Next
  PROVE  Finish!StopIsNoted'
<1>. USE DEF Finish!FinishInv, Finish!Typed, Finish!StopIsNoted, Finish!There,
    Finish!Hashes, Finish!Folders, Finish!None,
  Finish!Torrents, Finish!Wishes, Finish!Configs
<1>1. CASE Finish!MetadataArrives
  BY <1>1, WaitsLonger DEF Finish!MetadataArrives, Finish!Handle, Finish!AlertsInOrder,
    Finish!Best
<1>2. CASE Finish!Completes
  BY <1>2, WaitsLonger DEF Finish!Completes, Finish!Handle, Finish!AlertsInOrder,
    Finish!Best
<1>3. CASE Finish!MoveIsMade
  BY <1>3, WaitsSame, NoneWaits DEF Finish!MoveIsMade, Finish!AlertsInOrder, Finish!Best
<1>4. CASE Finish!MoveFails
  BY <1>4, WaitsLonger DEF Finish!MoveFails, Finish!Handle, Finish!AlertsInOrder,
    Finish!Best
<1>5. CASE Finish!OnMetadataReceived
  BY <1>5, WaitsShorter DEF Finish!OnMetadataReceived, Finish!Handle, Finish!Best,
    Finish!Rekeyed, Finish!AlertsInOrder, Finish!Best
<1>6. CASE Finish!OnTorrentFinished
  BY <1>6, EndHandled
<1>7. CASE Finish!OnStorageMovedFailed
  BY <1>7, WaitsShorter DEF Finish!OnStorageMovedFailed, Finish!Handle,
    Finish!AlertsInOrder, Finish!Best
<1>8. ASSUME NEW late \in BOOLEAN, Finish!Add(late)
      PROVE  Finish!StopIsNoted'
  BY <1>8, WaitsSame, NoneWaits DEF Finish!Add, Finish!Best, Finish!NoTorrent,
    Finish!NoWish, Finish!AlertsInOrder, Finish!Best
<1>9. CASE Finish!RemoveTorrent
  BY <1>9, WaitsSame, NoneWaits DEF Finish!RemoveTorrent, Finish!NoTorrent,
    Finish!NoWish, Finish!AlertsInOrder, Finish!Best
<1>10. CASE Finish!SetTorrentCategory
  BY <1>10, WaitsSame, NoneWaits DEF Finish!SetTorrentCategory, Finish!SeenDownloading, Finish!AlertsInOrder,
    Finish!Best
<1>11. CASE Finish!MoveStorage
  BY <1>11, WaitsSame, NoneWaits DEF Finish!MoveStorage, Finish!AlertsInOrder,
    Finish!Best
<1>12. ASSUME NEW on \in BOOLEAN, Finish!SetStopAfterDownload(on)
      PROVE  Finish!StopIsNoted'
  BY <1>12, WaitsSame, NoneWaits DEF Finish!SetStopAfterDownload, Finish!AlertsInOrder,
    Finish!Best
<1>13. CASE Finish!SetAutoMove
  BY <1>13, WaitsSame, NoneWaits DEF Finish!SetAutoMove, Finish!Settled,
    Finish!AlertsInOrder, Finish!Best
<1>14. CASE Finish!SetTempPath
  BY <1>14, WaitsSame, NoneWaits DEF Finish!SetTempPath, Finish!InTemp,
    Finish!AlertsInOrder, Finish!Best
<1>15. CASE Finish!Restart
  BY <1>15, WaitsSame, NoneWaits DEF Finish!Restart, Finish!Best, Finish!InTemp,
    Finish!AlertsInOrder, Finish!Best
<1>16. CASE Finish!StatusUpdate
  BY <1>16, WaitsSame, NoneWaits DEF Finish!StatusUpdate, Finish!AlertsInOrder, Finish!Best
<1>. QED BY <1>1, <1>2, <1>3, <1>4, <1>5, <1>6, <1>7, <1>8, <1>9, <1>10, <1>11, <1>12,
    <1>13, <1>14, <1>15, <1>16 DEF Finish!Next

\* Every step keeps the torrent's end prepared.
LEMMA FinishEndIsPrepared ==
  ASSUME Finish!FinishInv, Finish!Next
  PROVE  Finish!EndIsPrepared'
<1>. USE DEF Finish!FinishInv, Finish!Typed, Finish!EndIsPrepared, Finish!There,
    Finish!Hashes, Finish!Folders, Finish!None,
  Finish!Torrents, Finish!Wishes, Finish!Configs
<1>1. CASE Finish!MetadataArrives
  BY <1>1, WaitsLonger DEF Finish!MetadataArrives, Finish!Handle, Finish!AlertsInOrder,
    Finish!EndsLater, Finish!BoundFor, Finish!StopIsNoted
<1>2. CASE Finish!Completes
  BY <1>2, WaitsLonger DEF Finish!Completes, Finish!Handle, Finish!AlertsInOrder,
    Finish!EndsLater, Finish!BoundFor, Finish!StopIsNoted
<1>3. CASE Finish!MoveIsMade
  BY <1>3, MoveMade
<1>4. CASE Finish!MoveFails
  BY <1>4, WaitsLonger DEF Finish!MoveFails, Finish!Handle, Finish!AlertsInOrder,
    Finish!EndsLater, Finish!BoundFor, Finish!StopIsNoted
<1>5. CASE Finish!OnMetadataReceived
  BY <1>5, WaitsShorter DEF Finish!OnMetadataReceived, Finish!Handle, Finish!Best,
    Finish!Rekeyed, Finish!AlertsInOrder, Finish!EndsLater, Finish!BoundFor,
    Finish!StopIsNoted
<1>6. CASE Finish!OnTorrentFinished
  BY <1>6, EndHandled
<1>7. CASE Finish!OnStorageMovedFailed
  BY <1>7, WaitsShorter DEF Finish!OnStorageMovedFailed, Finish!Handle,
    Finish!AlertsInOrder, Finish!EndsLater, Finish!BoundFor, Finish!StopIsNoted
<1>8. ASSUME NEW late \in BOOLEAN, Finish!Add(late)
      PROVE  Finish!EndIsPrepared'
  BY <1>8, WaitsSame, NoneWaits DEF Finish!Add, Finish!Best, Finish!NoTorrent,
    Finish!NoWish, Finish!AlertsInOrder, Finish!EndsLater, Finish!BoundFor,
    Finish!StopIsNoted
<1>9. CASE Finish!RemoveTorrent
  BY <1>9, WaitsSame, NoneWaits DEF Finish!RemoveTorrent, Finish!NoTorrent,
    Finish!NoWish, Finish!AlertsInOrder, Finish!EndsLater, Finish!BoundFor,
    Finish!StopIsNoted
<1>10. CASE Finish!SetTorrentCategory
  BY <1>10, WaitsSame, NoneWaits DEF Finish!SetTorrentCategory, Finish!SeenDownloading, Finish!AlertsInOrder,
    Finish!EndsLater, Finish!BoundFor, Finish!StopIsNoted
<1>11. CASE Finish!MoveStorage
  BY <1>11, WaitsSame, NoneWaits DEF Finish!MoveStorage, Finish!AlertsInOrder,
    Finish!EndsLater, Finish!BoundFor, Finish!StopIsNoted
<1>12. ASSUME NEW on \in BOOLEAN, Finish!SetStopAfterDownload(on)
      PROVE  Finish!EndIsPrepared'
  BY <1>12, WaitsSame, NoneWaits DEF Finish!SetStopAfterDownload, Finish!AlertsInOrder,
    Finish!EndsLater, Finish!BoundFor, Finish!StopIsNoted
<1>13. CASE Finish!SetAutoMove
  BY <1>13, WaitsSame, NoneWaits DEF Finish!SetAutoMove, Finish!Settled,
    Finish!AlertsInOrder, Finish!EndsLater, Finish!BoundFor, Finish!StopIsNoted
<1>14. CASE Finish!SetTempPath
  BY <1>14, WaitsSame, NoneWaits DEF Finish!SetTempPath, Finish!InTemp,
    Finish!AlertsInOrder, Finish!EndsLater, Finish!BoundFor, Finish!StopIsNoted
<1>15. CASE Finish!Restart
  BY <1>15, WaitsSame, NoneWaits DEF Finish!Restart, Finish!Best, Finish!InTemp,
    Finish!AlertsInOrder, Finish!EndsLater, Finish!BoundFor, Finish!StopIsNoted
<1>16. CASE Finish!StatusUpdate
  BY <1>16, WaitsSame, NoneWaits DEF Finish!StatusUpdate, Finish!AlertsInOrder,
    Finish!EndsLater, Finish!BoundFor, Finish!StopIsNoted
<1>. QED BY <1>1, <1>2, <1>3, <1>4, <1>5, <1>6, <1>7, <1>8, <1>9, <1>10, <1>11, <1>12,
    <1>13, <1>14, <1>15, <1>16 DEF Finish!Next

\* The bound of the moves under way follows from that of what leads to them.
LEMMA FinishBounded ==
  ASSUME Finish!FinishInv
  PROVE  Len(v2) <= 3
<1>1. Len(v2) \in Nat /\ Len(v3) \in Nat
  BY DEF Finish!FinishInv, Finish!Typed
<1>2. Finish!Waits("metadata") => Len(v3) >= 1
  BY <1>1 DEF Finish!Waits, Finish!FinishInv, Finish!Typed
<1>3. \A m, a \in Nat, p, w \in {0, 1} : m + a + p <= 3 + w /\ (w = 1 => a >= 1) => m <= 3
  OBVIOUS
<1>. DEFINE p == IF v1.state \in {"downloading", "checking"} THEN 1 ELSE 0
            w == IF Finish!Waits("metadata") THEN 1 ELSE 0
<1>4. p \in {0, 1} /\ w \in {0, 1} /\ (w = 1 => Len(v3) >= 1)
  BY <1>2
<1>5. Len(v2) + Len(v3) + p <= 3 + w
  BY DEF Finish!FinishInv, Finish!MovesAreFew
<1>. HIDE DEF p, w
<1>. QED BY <1>1, <1>3, <1>4, <1>5

\* What comes to rest after the invariant's steps is as the user wanted it.
LEMMA FinishAtRest ==
  ASSUME Finish!FinishInv
  PROVE  Finish!FinishIsOrderly
<1>1. Finish!TypeOK
  BY FinishBounded DEF Finish!FinishInv, Finish!TypeOK
<1>2. Finish!Settled => ~Finish!EndsLater /\ ~Finish!Waits("finished") /\ Finish!There
  BY NoneWaits DEF Finish!Settled, Finish!EndsLater, Finish!There
<1>3. Finish!EndsWhereChosen
  BY <1>2 DEF Finish!EndsWhereChosen, Finish!FinishInv, Finish!EndIsPrepared, Finish!BoundFor,
    Finish!Settled
<1>4. Finish!StopsAsAsked
  BY <1>2 DEF Finish!StopsAsAsked, Finish!FinishInv, Finish!StopIsNoted
<1>5. Finish!ToldOnce
  BY <1>2 DEF Finish!ToldOnce, Finish!FinishInv, Finish!EndIsPrepared
<1>. QED BY <1>1, <1>3, <1>4, <1>5 DEF Finish!FinishIsOrderly

\* A finished torrent ends in the folder that the user chose, under either hash and
\* however often it is checked again, stops if it was to stop, and is told of once
\* (onTorrentFinished, onMetadataReceived, onStorageMovedFailed).
THEOREM FinishOrderly == Spec => []FinishIsOrderly
<1>. DEFINE Inv == part = "finish" => Finish!FinishInv
<1>1. Init => Inv
  BY FinishInit DEF Init
<1>2. Inv /\ [Next]_vars => Inv'
  <2>. SUFFICES ASSUME Inv, [Next]_vars, part' = "finish"
                PROVE  Finish!FinishInv'
    OBVIOUS
  <2>1. part = "finish" /\ Finish!FinishInv
    BY PartStays
  <2>2. CASE Finish!Next
    BY <2>1, <2>2, FinishTypes, FinishAlertsInOrder, FinishMovesAreFew, FinishStopIsNoted,
      FinishEndIsPrepared DEF Finish!FinishInv
  <2>3. CASE UNCHANGED vars
    BY <2>1, <2>3 DEF vars, Finish!FinishInv, Finish!Typed, Finish!AlertsInOrder,
      Finish!MovesAreFew, Finish!StopIsNoted, Finish!EndIsPrepared, Finish!There, Finish!Waits,
      Finish!Best, Finish!EndsLater, Finish!BoundFor
  <2>. QED BY <2>1, <2>2, <2>3 DEF Next
<1>3. Inv => FinishIsOrderly
  BY FinishAtRest DEF FinishIsOrderly
<1>. QED BY <1>1, <1>2, <1>3, PTL DEF Spec

-----------------------------------------------------------------------------
(* MissingFiles: v1 data, v2 path, v3 listed, v4 held, v5 written, v6 cached,
   v7 fresh, v8 looking, v9 notFound, v10 flagged, v11 seen, v12 acted,
   v13 setting, v14 wasGone, v15 user *)

\* At the start what is gone was there before, and nothing is being looked at.
LEMMA SearchInit ==
  ASSUME Missing!Init
  PROVE  Missing!SearchInv
<1>. USE DEF Missing!Init
<1>0. v1 = [t \in Searched |-> IF t \in v14 THEN "gone" ELSE v2[t]] /\ v14 \subseteq v5
  OBVIOUS
<1>1. Missing!TypeOK
  <2>1. v1 \in [Searched -> Places \cup {"gone"}]
    BY <1>0
  <2>2. v6 \in [Searched -> [path : Places, held : BOOLEAN]]
    OBVIOUS
  <2>3. v8 \in [on : BOOLEAN, at : Missing!Snapshots]
    <3>1. <<>> \in [{} -> Places]
      OBVIOUS
    <3>. QED BY <3>1 DEF Missing!Idle, Missing!Snapshots
  <2>. QED BY <2>1, <2>2, <2>3 DEF Missing!TypeOK
<1>2. Missing!DataIsInPlace
  BY <1>0 DEF Missing!DataIsInPlace
<1>3. Missing!MissedIsLookedForInPlace
  BY <1>0 DEF Missing!MissedIsLookedForInPlace, Missing!Idle
<1>4. Missing!LookIsOnce
  BY DEF Missing!LookIsOnce, Missing!Idle
<1>5. Missing!PausedIsRemembered
  BY <1>0 DEF Missing!PausedIsRemembered, Missing!Idle
<1>. QED BY <1>1, <1>2, <1>3, <1>4, <1>5 DEF Missing!SearchInv

\* Every step keeps the types; what a look has yet to visit shrinks with each visit.
LEMMA SearchTypes ==
  ASSUME Missing!TypeOK, Missing!Next
  PROVE  Missing!TypeOK'
<1>. USE DEF Missing!TypeOK, Missing!disk, Missing!status, Missing!thread, Missing!verdict
<1>1. ASSUME NEW t \in Searched, Missing!DataVanishes(t)
      PROVE  Missing!TypeOK'
  BY <1>1 DEF Missing!DataVanishes
<1>2. ASSUME NEW t \in Searched, Missing!DataReturns(t)
      PROVE  Missing!TypeOK'
  BY <1>2 DEF Missing!DataReturns
<1>3. ASSUME NEW t \in Searched, Missing!FirstBytes(t)
      PROVE  Missing!TypeOK'
  BY <1>3 DEF Missing!FirstBytes
<1>4. ASSUME NEW t \in Searched, Missing!UserPauses(t)
      PROVE  Missing!TypeOK'
  BY <1>4 DEF Missing!UserPauses
<1>5. ASSUME NEW t \in Searched, Missing!UserResumes(t)
      PROVE  Missing!TypeOK'
  BY <1>5 DEF Missing!UserResumes
<1>6. ASSUME NEW t \in Searched, Missing!Remove(t)
      PROVE  Missing!TypeOK'
  BY <1>6 DEF Missing!Remove
<1>7. ASSUME NEW t \in Searched, Missing!ContentPresent(t)
      PROVE  Missing!TypeOK'
  <2>. DEFINE left == [u \in DOMAIN v8.at \ {t} |-> v8.at[u]]
  <2>1. left \in Missing!Snapshots
    <3>1. PICK S \in SUBSET Searched : v8.at \in [S -> Places]
      BY DEF Missing!Snapshots
    <3>2. left \in [S \ {t} -> Places]
      BY <3>1
    <3>. QED BY <3>2 DEF Missing!Snapshots
  <2>2. v8' = [on |-> v8.on, at |-> left]
    BY <1>7 DEF Missing!ContentPresent
  <2>. HIDE DEF left
  <2>3. v8' \in [on : BOOLEAN, at : Missing!Snapshots]
    BY <2>1, <2>2
  <2>. QED BY <1>7, <2>3 DEF Missing!ContentPresent
<1>8. ASSUME NEW t \in Searched, NEW place \in Places, Missing!Move(t, place)
      PROVE  Missing!TypeOK'
  BY <1>8 DEF Missing!Move
<1>9. ASSUME NEW t \in Searched, NEW place \in Places, Missing!Add(t, place)
      PROVE  Missing!TypeOK'
  BY <1>9 DEF Missing!Add
<1>10. CASE Missing!StateUpdate
  BY <1>10 DEF Missing!StateUpdate
<1>11. CASE Missing!SetPauseOnMissingData
  BY <1>11 DEF Missing!SetPauseOnMissingData
<1>12. CASE Missing!CheckMissingFiles
  <2>1. [t \in Missing!Suspects |-> v6[t].path] \in [Missing!Suspects -> Places]
    BY DEF Missing!Suspects
  <2>2. [t \in Missing!Suspects |-> v6[t].path] \in Missing!Snapshots
    BY <2>1 DEF Missing!Snapshots, Missing!Suspects
  <2>3. [on |-> TRUE, at |-> [t \in Missing!Suspects |-> v6[t].path]]
          \in [on : BOOLEAN, at : Missing!Snapshots]
    BY <2>2
  <2>4. v8' \in [on : BOOLEAN, at : Missing!Snapshots]
    BY <1>12, <2>3 DEF Missing!CheckMissingFiles
  <2>. QED BY <1>12, <2>4 DEF Missing!CheckMissingFiles
<1>13. CASE Missing!Answer
  <2>1. v8' \in [on : BOOLEAN, at : Missing!Snapshots]
    <3>1. <<>> \in [{} -> Places]
      OBVIOUS
    <3>. QED BY <1>13, <3>1 DEF Missing!Answer, Missing!Idle, Missing!Snapshots
  <2>. QED BY <1>13, <2>1 DEF Missing!Answer, Missing!Confirmed, Missing!PausedNow
<1>. QED BY <1>1, <1>2, <1>3, <1>4, <1>5, <1>6, <1>7, <1>8, <1>9, <1>10, <1>11, <1>12, <1>13
     DEF Missing!Next

\* Every step keeps the relation between the data, the paths that the look was started
\* with, and what the last two looks found.
LEMMA SearchSteps ==
  ASSUME Missing!SearchInv, Missing!TypeOK', Missing!Next
  PROVE  Missing!SearchInv'
<1>. USE PlacesAssumption
     DEF Missing!SearchInv, Missing!TypeOK, Missing!DataIsInPlace,
       Missing!MissedIsLookedForInPlace, Missing!LookIsOnce,
       Missing!PausedIsRemembered, Missing!disk, Missing!status, Missing!thread, Missing!verdict
<1>1. ASSUME NEW t \in Searched, Missing!DataVanishes(t)
      PROVE  Missing!SearchInv'
  BY <1>1 DEF Missing!DataVanishes
<1>2. ASSUME NEW t \in Searched, Missing!DataReturns(t)
      PROVE  Missing!SearchInv'
  BY <1>2 DEF Missing!DataReturns
<1>3. ASSUME NEW t \in Searched, Missing!FirstBytes(t)
      PROVE  Missing!SearchInv'
  BY <1>3 DEF Missing!FirstBytes
<1>4. ASSUME NEW t \in Searched, Missing!UserPauses(t)
      PROVE  Missing!SearchInv'
  BY <1>4 DEF Missing!UserPauses
<1>5. ASSUME NEW t \in Searched, Missing!UserResumes(t)
      PROVE  Missing!SearchInv'
  BY <1>5 DEF Missing!UserResumes
<1>6. ASSUME NEW t \in Searched, Missing!Remove(t)
      PROVE  Missing!SearchInv'
  BY <1>6 DEF Missing!Remove
<1>7. ASSUME NEW t \in Searched, Missing!ContentPresent(t)
      PROVE  Missing!SearchInv'
  <2>. DEFINE left == [u \in DOMAIN v8.at \ {t} |-> v8.at[u]]
  <2>1. v8' = [on |-> v8.on, at |-> left]
    BY <1>7 DEF Missing!ContentPresent
  <2>2. DOMAIN v8'.at = DOMAIN v8.at \ {t} /\ v8'.on = v8.on
    BY <2>1
  <2>3. \A u \in DOMAIN v8'.at : v8'.at[u] = v8.at[u]
    BY <2>1, <2>2
  <2>4. v8.at[t] \in Places
    <3>1. PICK S \in SUBSET Searched : v8.at \in [S -> Places]
      BY DEF Missing!Snapshots
    <3>. QED BY <1>7, <3>1 DEF Missing!ContentPresent
  <2>. HIDE DEF left
  <2>5. Missing!DataIsInPlace'
    BY <1>7 DEF Missing!ContentPresent
  <2>6. Missing!MissedIsLookedForInPlace'
    BY <1>7, <2>2, <2>3 DEF Missing!ContentPresent
  <2>7. Missing!LookIsOnce'
    BY <1>7, <2>2 DEF Missing!ContentPresent
  <2>8. Missing!PausedIsRemembered'
    BY <1>7, <2>2, <2>4 DEF Missing!ContentPresent
  <2>. QED BY <2>5, <2>6, <2>7, <2>8
<1>8. ASSUME NEW t \in Searched, NEW place \in Places, Missing!Move(t, place)
      PROVE  Missing!SearchInv'
  BY <1>8 DEF Missing!Move
<1>9. ASSUME NEW t \in Searched, NEW place \in Places, Missing!Add(t, place)
      PROVE  Missing!SearchInv'
  BY <1>9 DEF Missing!Add
<1>10. CASE Missing!StateUpdate
  BY <1>10 DEF Missing!StateUpdate
<1>11. CASE Missing!SetPauseOnMissingData
  BY <1>11 DEF Missing!SetPauseOnMissingData
<1>12. CASE Missing!CheckMissingFiles
  BY <1>12 DEF Missing!CheckMissingFiles, Missing!Suspects
<1>13. CASE Missing!Answer
  <2>1. DOMAIN v8.at = {} /\ v8.on /\ ~v8'.on /\ ~v7'
    <3>1. v8.at = <<>> /\ v8.on /\ v8' = Missing!Idle /\ ~v7'
      BY <1>13 DEF Missing!Answer
    <3>2. DOMAIN << >> = {}
      BY EmptySeq
    <3>. QED BY <3>1, <3>2 DEF Missing!Idle
  <2>2. /\ v11' = v9 /\ UNCHANGED <<v1, v2, v3, v5, v14>>
        /\ v12' = (v12 \cap v9 \cap v11) \cup IF v13 THEN Missing!PausedNow ELSE {}
        /\ v4' = IF v13 THEN v4 \cup Missing!PausedNow ELSE v4
        /\ v15' = [t \in Searched |-> IF t \in v4' \ v4 /\ v1[t] = "gone" THEN "stopped" ELSE v15[t]]
    BY <1>13 DEF Missing!Answer, Missing!Confirmed
  <2>3. Missing!PausedNow \subseteq v9 \cap v11 \cap v3
    BY DEF Missing!PausedNow, Missing!Confirmed
  <2>4. Missing!PausedIsRemembered'
    <3>. SUFFICES ASSUME NEW t \in Searched, v15'[t] \in {"stopped", "resumed"}
                  PROVE  t \in v3 \cap v5 \cap v9 \cap v12' /\ v1[t] = "gone"
      BY <2>1, <2>2
    <3>1. CASE t \in v4' \ v4 /\ v1[t] = "gone"
      BY <2>1, <2>2, <2>3, <3>1
    <3>2. CASE v15'[t] = v15[t]
      BY <2>1, <2>2, <3>2
    <3>. QED BY <2>2, <3>1, <3>2
  <2>. QED BY <2>1, <2>2, <2>4
<1>. QED BY <1>1, <1>2, <1>3, <1>4, <1>5, <1>6, <1>7, <1>8, <1>9, <1>10, <1>11, <1>12, <1>13
     DEF Missing!Next

\* Paused is what was gone when it was looked at, and not what the user has resumed:
\* that was paused before, and is still missing.
LEMMA SearchActs ==
  ASSUME Missing!SearchInv
  PROVE  Missing!SearchStep
<1>. SUFFICES ASSUME Missing!Answer
              PROVE  /\ v4' \ v4 \subseteq v14
                     /\ \A t \in v4' \ v4 : v15[t] # "resumed"
  BY DEF Missing!SearchStep, Missing!PausesTheGone, Missing!ResumeIsNotFought
<1>1. v4' \ v4 \subseteq (v9 \cap v11) \ v12 /\ v8.on
  BY DEF Missing!Answer, Missing!PausedNow, Missing!Confirmed
<1>2. v9 \cap v11 \subseteq v14
  BY <1>1 DEF Missing!SearchInv, Missing!LookIsOnce
<1>3. \A t \in Searched : v15[t] = "resumed" => t \in v12
  BY DEF Missing!SearchInv, Missing!PausedIsRemembered
<1>. QED BY <1>1, <1>2, <1>3 DEF Missing!SearchInv, Missing!TypeOK

\* The look for missing files pauses only what was gone when the look visited it, and
\* pauses nothing a second time that the user resumed meanwhile (checkMissingFiles and
\* its answer), whatever is moved, removed or added while it runs.
THEOREM SearchFair == Spec => SearchIsFair
<1>. DEFINE Inv == part = "missing" => Missing!SearchInv
<1>1. Init => Inv
  BY SearchInit DEF Init
<1>2. Inv /\ [Next]_vars => Inv'
  <2>. SUFFICES ASSUME Inv, [Next]_vars, part' = "missing"
                PROVE  Missing!SearchInv'
    OBVIOUS
  <2>1. part = "missing" /\ Missing!SearchInv
    BY PartStays
  <2>2. CASE Missing!Next
    BY <2>1, <2>2, SearchTypes, SearchSteps DEF Missing!SearchInv
  <2>3. CASE UNCHANGED vars
    BY <2>1, <2>3 DEF vars, Missing!SearchInv, Missing!TypeOK, Missing!DataIsInPlace,
      Missing!MissedIsLookedForInPlace, Missing!LookIsOnce, Missing!PausedIsRemembered
  <2>. QED BY <2>1, <2>2, <2>3 DEF Next
<1>3. Inv => (part = "missing" => Missing!TypeOK)
  BY DEF Missing!SearchInv
<1>4. Inv => [part = "missing" => Missing!SearchStep]_vars
  BY SearchActs
<1>. QED BY <1>1, <1>2, <1>3, <1>4, PTL DEF Spec, SearchIsFair

-----------------------------------------------------------------------------
(* StreamWindows: v1 have, v2 plan, v3 reader, v4 guard, v5 paused, v6 listed,
   v7 disguised *)

\* A set of numbers that is not empty has a least one.
LEMMA Least ==
  ASSUME NEW S \in SUBSET Nat, S # {}
  PROVE  \E x \in S : \A y \in S : x <= y
<1>1. PICK x \in S : \A y \in S : ~ (<<y, x>> \in OpToRel(<, Nat))
  BY WFMin, NatLessThanWellFounded
<1>2. \A y \in S : ~(y < x)
  BY <1>1 DEF OpToRel
<1>. QED BY <1>2

\* A quotient is at most e exactly when the dividend is below the next multiple.
LEMMA DivEdge ==
  ASSUME NEW a \in Nat, NEW n \in Nat \ {0}, NEW e \in Int
  PROVE  /\ a \div n \in Nat
         /\ a \div n <= e <=> a < (e + 1) * n
<1>1. a % n \in 0 .. n - 1 /\ a = n * (a \div n) + (a % n) /\ a \div n \in Int
  BY Z3
<1>2. PICK q \in Int : q = a \div n
  BY <1>1
<1>3. PICK r \in 0 .. n - 1 : r = a % n
  BY <1>1
<1>4. a = n * q + r
  BY <1>1, <1>2, <1>3
<1>5. q >= 0
  <2>1. SUFFICES ASSUME q <= -1 PROVE FALSE
    OBVIOUS
  <2>2. n * q <= -n
    BY <2>1, Z3
  <2>. QED BY <1>4, <2>2, Z3
<1>6. (e + 1) * n = n * e + n
  BY Z3
<1>7. ASSUME q <= e PROVE a < (e + 1) * n
  <2>1. n * q <= n * e
    BY <1>7, Z3
  <2>. QED BY <1>4, <1>6, <2>1, Z3
<1>8. ASSUME q >= e + 1 PROVE ~(a < (e + 1) * n)
  <2>1. n * q >= n * e + n
    BY <1>8, Z3
  <2>. QED BY <1>4, <1>6, <2>1, Z3
<1>. QED BY <1>2, <1>5, <1>7, <1>8

\* A byte lies in a piece up to e exactly when it lies before that piece's end.
LEMMA PieceEdge ==
  ASSUME NEW b \in Nat, NEW e \in Int
  PROVE  /\ Stream!PieceOf(b) \in Nat
         /\ Stream!PieceOf(b) <= e <=> Offset + b < (e + 1) * PieceSize
BY DivEdge, BytesAssumption DEF Stream!PieceOf

\* Later bytes lie in the same piece or in later ones.
LEMMA PieceOrder ==
  ASSUME NEW a \in Nat, NEW b \in Nat, a <= b
  PROVE  Stream!PieceOf(a) <= Stream!PieceOf(b)
<1>1. PICK e \in Nat : e = Stream!PieceOf(b)
  BY PieceEdge
<1>2. PICK x \in Int : x = (e + 1) * PieceSize
  BY <1>1, BytesAssumption, Z3
<1>3. Offset + b < x
  BY <1>1, <1>2, PieceEdge
<1>4. Offset + a < x
  BY <1>3, <1>2, BytesAssumption
<1>. QED BY <1>1, <1>2, <1>4, PieceEdge

\* The bytes of the file lie in its pieces.
LEMMA PieceInFile ==
  ASSUME NEW b \in 0 .. FileSize - 1
  PROVE  Stream!PieceOf(b) \in Stream!Pieces
<1>1. 0 \in Nat /\ b \in Nat /\ FileSize - 1 \in Nat /\ 0 <= b /\ b <= FileSize - 1
  BY BytesAssumption
<1>2. Stream!PieceOf(0) \in Nat /\ Stream!PieceOf(b) \in Nat /\ Stream!PieceOf(FileSize - 1) \in Nat
  BY <1>1, PieceEdge
<1>. QED BY <1>1, <1>2, PieceOrder DEF Stream!Pieces, Stream!First, Stream!Last

\* The pieces of the file are an interval of numbers.
LEMMA PiecesAreNumbers ==
  /\ Stream!First \in Nat /\ Stream!Last \in Nat /\ Stream!First <= Stream!Last
  /\ Stream!Pieces = Stream!First .. Stream!Last
  /\ Stream!Pieces \subseteq Nat
<1>1. 0 \in Nat /\ FileSize - 1 \in Nat /\ 0 <= FileSize - 1
  BY BytesAssumption
<1>. QED BY <1>1, PieceEdge, PieceOrder DEF Stream!Pieces, Stream!First, Stream!Last

\* The gap-free run is an interval.

\* The pieces that are there without a gap are an interval, from the byte's own on.
LEMMA GapFreeInterval ==
  ASSUME NEW from \in 0 .. FileSize - 1, v1 \subseteq Stream!Pieces
  PROVE  \E e \in Int :
           /\ Stream!PieceOf(from) - 1 <= e /\ e <= Stream!Last
           /\ Stream!GapFree(from) = Stream!PieceOf(from) .. e
           /\ Stream!PieceOf(from) .. e \subseteq v1
           /\ e < Stream!Last => e + 1 \notin v1
<1>1. PICK p \in Nat : p = Stream!PieceOf(from)
  BY PieceEdge
<1>2. PICK l \in Nat : l = Stream!Last
  BY PiecesAreNumbers
<1>3. p <= l
  BY <1>1, <1>2, PieceInFile, PiecesAreNumbers
<1>. DEFINE G == {q \in p .. l + 1 : q = l + 1 \/ q \notin v1}
<1>4. Stream!GapFree(from) = {q \in p .. l : p .. q \subseteq v1}
  BY <1>1, <1>2 DEF Stream!GapFree
<1>5. l + 1 \in G /\ G \subseteq Nat
  BY <1>3
<1>6. PICK g \in G : \A y \in G : g <= y
  <2>. HIDE DEF G
  <2>. QED BY <1>5, Least
<1>7. g \in p .. l + 1 /\ (g = l + 1 \/ g \notin v1)
  BY <1>6
<1>8. \A q \in p .. g - 1 : q \in v1
  BY <1>6, <1>7
<1>9. Stream!GapFree(from) = p .. g - 1
  <2>1. ASSUME NEW q \in p .. l, p .. q \subseteq v1 PROVE q \in p .. g - 1
    BY <2>1, <1>7
  <2>2. ASSUME NEW q \in p .. g - 1 PROVE q \in p .. l /\ p .. q \subseteq v1
    BY <2>2, <1>7, <1>8
  <2>. QED BY <1>4, <2>1, <2>2
<1>. HIDE DEF G
<1>10. g - 1 \in Int /\ p - 1 <= g - 1 /\ g - 1 <= l /\ (g - 1 < l => (g - 1) + 1 \notin v1)
  BY <1>7
<1>. QED BY <1>1, <1>2, <1>8, <1>9, <1>10

\* The window's count of a set is the count of the library's theorems.
LEMMA SameCardinality == \A S : Stream!Cardinality(S) = Cardinality(S)
BY DEF Stream!Cardinality, Cardinality

\* The bytes counted as readable are exactly those from there on, up to the cap and the
\* end of the file, of pieces that are all there (streamContiguousAvailableBytes):
\* where a piece ends, where the file ends, and where the torrent has other files
\* before this one.
LEMMA RunExact ==
  ASSUME v1 \subseteq Stream!Pieces, NEW from \in 0 .. FileSize, NEW cap \in Nat \ {0}
  PROVE  /\ Stream!Run(from, cap) \in Nat
         /\ Stream!Run(from, cap) <= FileSize - from
         /\ Stream!Run(from, cap) =
              Stream!Cardinality({b \in from .. Stream!Lesser(from + cap, FileSize) - 1 :
                             \A a \in from .. b : Stream!PieceOf(a) \in v1})
<1>. DEFINE last == Stream!Lesser(from + cap, FileSize) - 1
            Read == {b \in from .. last : \A a \in from .. b : Stream!PieceOf(a) \in v1}
<1>0. FileSize \in Nat \ {0} /\ Offset \in Nat /\ PieceSize \in Nat \ {0}
  BY BytesAssumption
<1>1. last \in Int /\ last <= FileSize - 1 /\ (last = from + cap - 1 \/ last = FileSize - 1)
      /\ last <= from + cap - 1
  BY <1>0 DEF Stream!Lesser
<1>2. CASE from >= FileSize
  <2>1. Read = {}
    <3>. HIDE DEF last
    <3>. QED BY <1>0, <1>1, <1>2
  <2>2. Stream!Run(from, cap) = 0
    BY <1>2 DEF Stream!Run
  <2>. QED BY <1>2, <2>1, <2>2, FS_EmptySet, SameCardinality, <1>0
<1>3. CASE from < FileSize
  <2>1. from \in 0 .. FileSize - 1
    BY <1>3, <1>0
  <2>2. PICK e \in Int :
           /\ Stream!PieceOf(from) - 1 <= e /\ e <= Stream!Last
           /\ Stream!GapFree(from) = Stream!PieceOf(from) .. e
           /\ Stream!PieceOf(from) .. e \subseteq v1
           /\ e < Stream!Last => e + 1 \notin v1
    BY <2>1, GapFreeInterval
  <2>3. PICK p \in Nat : p = Stream!PieceOf(from)
    BY PieceEdge, <2>1
  <2>4. Stream!Cardinality(p .. e) = IF p > e THEN 0 ELSE e - p + 1
    BY FS_Interval, SameCardinality
  <2>5. CASE p > e
    <3>1. Stream!GapFree(from) = {}
      BY <2>2, <2>3, <2>5
    <3>2. Stream!Run(from, cap) = 0
      BY <3>1 DEF Stream!Run
    <3>3. p <= Stream!Last /\ Stream!Last \in Nat
      BY <2>1, <2>3, PieceInFile, PiecesAreNumbers
    <3>4. p \notin v1
      <4>1. e + 1 = p
        BY <2>2, <2>3, <2>5
      <4>. QED BY <2>2, <3>3, <4>1
    <3>5. Read = {}
      <4>. SUFFICES ASSUME NEW b \in from .. last PROVE \E a \in from .. b : Stream!PieceOf(a) \notin v1
        OBVIOUS
      <4>. QED BY <2>3, <3>4, <1>1
    <3>. QED BY <3>2, <3>5, FS_EmptySet, SameCardinality, <1>0, <1>3
  <2>6. CASE p <= e
    <3>1. PICK x \in Int : x = (e + 1) * PieceSize
      BY <1>0, Z3
    <3>2. \A b \in Nat : Stream!PieceOf(b) <= e <=> Offset + b < x
      BY <3>1, PieceEdge
    <3>3. Offset + from < x
      BY <2>1, <2>3, <2>6, <3>2
    <3>4. Stream!GapFree(from) # {} /\ p + Stream!Cardinality(Stream!GapFree(from)) = e + 1
      BY <2>2, <2>3, <2>4, <2>6
    <3>5. Stream!Run(from, cap) =
            Stream!Lesser(cap, Stream!Lesser(x, Offset + FileSize) - (Offset + from))
      <4>1. (Stream!PieceOf(from) + Stream!Cardinality(Stream!GapFree(from))) * PieceSize = x
        BY <2>3, <3>1, <3>4, Zenon
      <4>2. ~(from >= FileSize)
        BY <1>0, <1>3
      <4>. QED BY <3>4, <4>1, <4>2, Zenon DEF Stream!Run
    <3>. DEFINE end == Stream!Lesser(last, (x - Offset) - 1)
    <3>6. end \in Int /\ end >= from - 1 /\ end <= last /\ end <= (x - Offset) - 1
          /\ (end = last \/ end = (x - Offset) - 1)
      BY <1>0, <1>1, <1>3, <3>3 DEF Stream!Lesser
    <3>7. Read = from .. end
      <4>1. ASSUME NEW b \in from .. end
            PROVE  b \in from .. last /\ \A a \in from .. b : Stream!PieceOf(a) \in v1
        <5>1. b \in from .. last
          BY <3>6, <1>1
        <5>2. ASSUME NEW a \in from .. b PROVE Stream!PieceOf(a) \in v1
          <6>1. a \in Nat /\ from \in Nat /\ from <= a /\ Offset + a < x
            BY <3>6, <1>0
          <6>2. Stream!PieceOf(a) \in Nat /\ Stream!PieceOf(a) <= e /\ p <= Stream!PieceOf(a)
            BY <6>1, <3>2, <2>3, PieceOrder, PieceEdge
          <6>. QED BY <6>2, <2>2, <2>3
        <5>. QED BY <5>1, <5>2
      <4>2. ASSUME NEW b \in from .. last, b \notin from .. end
            PROVE  \E a \in from .. b : Stream!PieceOf(a) \notin v1
        <5>1. end = (x - Offset) - 1 /\ b >= x - Offset /\ x - Offset > from
          BY <4>2, <3>6, <3>3, <1>0, <1>1
        <5>2. PICK a \in Nat : a = x - Offset
          BY <5>1, <1>0
        <5>3. a \in from .. b /\ a <= FileSize - 1
          BY <5>1, <5>2, <1>1, <1>0
        <5>4. Stream!PieceOf(a) \in Nat /\ ~(Stream!PieceOf(a) <= e)
          BY <3>2, <5>2, PieceEdge, <1>0
        <5>5. Stream!PieceOf(a) <= e + 1
          <6>1. (e + 2) * PieceSize = x + PieceSize
            BY <3>1, <1>0, Z3
          <6>2. Offset + a < (e + 2) * PieceSize
            BY <5>2, <6>1, <1>0
          <6>3. (e + 1) + 1 = e + 2 /\ e + 1 \in Int
            OBVIOUS
          <6>. QED BY <6>2, <6>3, PieceEdge
        <5>6. Stream!PieceOf(a) <= Stream!Last /\ Stream!Last \in Nat
          BY <5>3, PieceInFile, PiecesAreNumbers
        <5>7. e < Stream!Last /\ Stream!PieceOf(a) = e + 1
          BY <5>4, <5>5, <5>6
        <5>. QED BY <5>3, <5>7, <2>2
      <4>. QED BY <4>1, <4>2, <3>6
    <3>8. Stream!Cardinality(from .. end) = end - from + 1
      <4>. HIDE DEF end
      <4>1. from \in Int /\ end \in Int
        BY <3>6
      <4>2. Cardinality(from .. end) = IF from > end THEN 0 ELSE end - from + 1
        BY <4>1, FS_Interval
      <4>. QED BY <3>6, <4>1, <4>2, SameCardinality
    <3>9. end - from + 1 = Stream!Lesser(cap, Stream!Lesser(x, Offset + FileSize) - (Offset + from))
      BY <1>0, <1>3, <3>3 DEF Stream!Lesser
    <3>10. end - from + 1 \in Nat /\ end - from + 1 <= FileSize - from
      BY <3>6, <1>1, <1>0
    <3>. HIDE DEF end
    <3>. QED BY <3>5, <3>7, <3>8, <3>9, <3>10
  <2>. QED BY <2>2, <2>3, <2>5, <2>6
<1>. QED BY <1>0, <1>2, <1>3

\* Moving the window leaves one that stands, and the deadlines at the end of the file
\* that are still due (setStreamWindow).
LEMMA WindowKept ==
  ASSUME v1 \subseteq Stream!Pieces, NEW marks \in Stream!Plans, Stream!Stands(marks),
         NEW byte \in 0 .. FileSize
  PROVE  /\ Stream!SetWindow(marks, byte) \in Stream!Plans
         /\ Stream!Stands(Stream!SetWindow(marks, byte))
         /\ \A p \in Stream!TailPieces : p \in marks.urgent =>
              p \in Stream!SetWindow(marks, byte).urgent \cup v1
<1>. DEFINE first == Stream!PieceOf(Stream!Lesser(byte, FileSize - 1))
            last == Stream!Lesser(first + Window - 1, Stream!Last)
            missing == (first .. last) \ v1
            w == marks.window
            jumped == w # Stream!NoWindow /\ (first < w.first \/ first > w.last)
            tail == [marks EXCEPT !.urgent = @ \cup missing]
            new == [window |-> [first |-> first, last |-> last, missing |-> Stream!Least(missing)],
                    urgent |-> (IF jumped THEN Stream!TailPieces \ v1 ELSE marks.urgent) \cup missing,
                    prio |-> IF w.first # first THEN Stream!Levels(first, last) ELSE marks.prio]
<1>1. \/ Stream!SetWindow(marks, byte) = marks
      \/ Stream!SetWindow(marks, byte) = tail
      \/ missing # {} /\ Stream!SetWindow(marks, byte) = new
  BY Zenon DEF Stream!SetWindow
<1>2. first \in Stream!Pieces
  <2>1. Stream!Lesser(byte, FileSize - 1) \in 0 .. FileSize - 1
    BY BytesAssumption DEF Stream!Lesser
  <2>. QED BY <2>1, PieceInFile
<1>3. first \in Nat /\ Stream!Last \in Nat /\ first <= last /\ last <= Stream!Last /\ last \in Nat
  <2>. HIDE DEF first
  <2>. QED BY <1>2, PiecesAreNumbers, BytesAssumption DEF Stream!Lesser
<1>4. last = Stream!Lesser(first + Window - 1, Stream!Last)
  OBVIOUS
<1>. HIDE DEF first, last
<1>5. first .. last \subseteq Stream!Pieces /\ missing \subseteq Stream!Pieces /\ last \in Stream!Pieces
  BY <1>2, <1>3, PiecesAreNumbers
<1>6. ASSUME missing # {}
      PROVE  Stream!Least(missing) \in missing /\ \A q \in missing : Stream!Least(missing) <= q
  <2>1. missing \subseteq Nat
    BY <1>5, PiecesAreNumbers
  <2>2. \E p \in missing : \A q \in missing : p <= q
    BY <1>6, <2>1, Least
  <2>. HIDE DEF missing
  <2>. QED BY <2>2 DEF Stream!Least
<1>7. /\ marks = [window |-> marks.window, urgent |-> marks.urgent, prio |-> marks.prio]
      /\ marks.window \in Stream!Windows /\ marks.urgent \subseteq Stream!Pieces
      /\ marks.prio \in [Stream!Pieces -> {0, 1, 4, 6, 7}]
  BY DEF Stream!Plans
<1>8. CASE Stream!SetWindow(marks, byte) = marks
  BY <1>8
<1>9. CASE Stream!SetWindow(marks, byte) = tail
  <2>1. tail = [window |-> marks.window, urgent |-> marks.urgent \cup missing, prio |-> marks.prio]
    BY <1>7
  <2>2. tail.window = marks.window /\ tail.urgent = marks.urgent \cup missing /\ tail.prio = marks.prio
    BY <2>1
  <2>3. tail \in Stream!Plans
    BY <2>1, <1>5, <1>7 DEF Stream!Plans
  <2>. HIDE DEF tail, missing
  <2>4. Stream!Stands(tail)
    BY <2>2 DEF Stream!Stands
  <2>. QED BY <1>9, <2>2, <2>3, <2>4
<1>10. CASE missing # {} /\ Stream!SetWindow(marks, byte) = new
  <2>. DEFINE least == Stream!Least(missing)
  <2>1. least \in missing /\ least \in Stream!Pieces /\ least \in first .. last
        /\ \A q \in missing : least <= q
    BY <1>5, <1>6, <1>10
  <2>2. /\ new.window = [first |-> first, last |-> last, missing |-> least]
        /\ new.urgent = (IF jumped THEN Stream!TailPieces \ v1 ELSE marks.urgent) \cup missing
        /\ new.prio = IF w.first # first THEN Stream!Levels(first, last) ELSE marks.prio
    OBVIOUS
  <2>3. new \in Stream!Plans
    <3>1. new.window \in Stream!Windows
      BY <1>2, <1>5, <2>1, <2>2 DEF Stream!Windows
    <3>2. Stream!Levels(first, last) \in [Stream!Pieces -> {0, 1, 4, 6, 7}]
      BY DEF Stream!Levels
    <3>3. new.prio \in [Stream!Pieces -> {0, 1, 4, 6, 7}]
      BY <1>7, <2>2, <3>2
    <3>4. new.urgent \subseteq Stream!Pieces
      BY <1>5, <1>7, <2>2 DEF Stream!TailPieces
    <3>. QED BY <2>2, <3>1, <3>3, <3>4 DEF Stream!Plans
  <2>4. first .. least - 1 \subseteq v1
    BY <1>3, <2>1
  <2>5. ASSUME v4 # "quarantined", NEW p \in least .. last, p \notin v1
        PROVE  p \in new.urgent /\ new.prio[p] = 7
    <3>1. p \in missing /\ p \in Stream!Pieces /\ p \in first .. last
      BY <1>3, <1>5, <2>1, <2>5
    <3>2. CASE w.first # first
      <4>1. Stream!Levels(first, last)[p] = 7
        BY <3>1 DEF Stream!Levels
      <4>. QED BY <2>2, <3>1, <3>2, <4>1
    <3>3. CASE w.first = first
      <4>1. w # Stream!NoWindow
        BY <1>3, <3>3 DEF Stream!NoWindow
      <4>2. w.last = last /\ w.missing \in first .. last /\ first .. w.missing - 1 \subseteq v1
        BY <3>3, <4>1, <1>4 DEF Stream!Stands
      <4>3. p \in w.missing .. w.last
        BY <1>3, <2>5, <3>1, <4>2
      <4>4. marks.prio[p] = 7
        BY <2>5, <4>1, <4>3 DEF Stream!Stands
      <4>. QED BY <2>2, <3>1, <3>3, <4>4
    <3>. QED BY <3>2, <3>3
  <2>. HIDE DEF new, least, missing, jumped
  <2>6. Stream!Stands(new)
    BY <1>4, <2>1, <2>2, <2>4, <2>5 DEF Stream!Stands
  <2>7. \A p \in Stream!TailPieces : p \in marks.urgent => p \in new.urgent \cup v1
    BY <2>2
  <2>. QED BY <1>10, <2>3, <2>6, <2>7
<1>. QED BY <1>1, <1>8, <1>9, <1>10

\* A connection before its first request

\* An idle connection has been sent nothing.
LEMMA ConnectionIdle ==
  Stream!Idle \in Stream!Connections /\ ~Stream!Idle.sent /\ ~Stream!Idle.admitted
BY BytesAssumption DEF Stream!Idle, Stream!Connections, Stream!Closed

\* At the start there is no window and no connection.
LEMMA StreamInit ==
  ASSUME Stream!Init
  PROVE  Stream!StreamInv
<1>. USE DEF Stream!Init, Stream!Idle, Stream!Closed
<1>1. Stream!Idle \in Stream!Connections
  BY ConnectionIdle
<1>2. v2 \in Stream!Plans
  BY DEF Stream!Plans, Stream!Windows
<1>3. v3 \in [Readers -> Stream!Connections]
  BY <1>1
<1>4. Stream!TypeOK
  BY <1>2, <1>3 DEF Stream!TypeOK
<1>5. Stream!Stands(v2)
  BY DEF Stream!Stands
<1>. QED BY <1>4, <1>5 DEF Stream!StreamInv, Stream!NothingLeaves

\* What the guard does with the marks keeps them sound, and their deadlines.

\* The guard's verdict keeps the window, and clears no disguised file.
LEMMA JudgedKept ==
  ASSUME Stream!TypeOK, Stream!NothingLeaves, NEW marks \in Stream!Plans, Stream!Stands(marks),
         Stream!Judged(marks), UNCHANGED <<v1, v7>>
  PROVE  /\ v2' \in Stream!Plans /\ Stream!Stands(v2)' /\ v2'.urgent = marks.urgent
         /\ v4' \in {"unknown", "cleared", "quarantined"} /\ v5' \in BOOLEAN
         /\ v7 => v4' # "cleared"
<1>. DEFINE unwanted == [marks EXCEPT !.prio = [p \in Stream!Pieces |-> 0]]
<1>1. /\ v4' \in {"unknown", "cleared", "quarantined"} /\ v5' \in BOOLEAN
      /\ v7 => v4' # "cleared"
  BY DEF Stream!Judged, Stream!TypeOK, Stream!NothingLeaves
<1>2. /\ marks = [window |-> marks.window, urgent |-> marks.urgent, prio |-> marks.prio]
      /\ marks.window \in Stream!Windows /\ marks.urgent \subseteq Stream!Pieces
  BY DEF Stream!Plans
<1>3. unwanted = [window |-> marks.window, urgent |-> marks.urgent,
                  prio |-> [p \in Stream!Pieces |-> 0]]
  BY <1>2
<1>4. unwanted \in Stream!Plans
  BY <1>2, <1>3 DEF Stream!Plans
<1>5. CASE v2' = unwanted /\ v4' = "quarantined"
  <2>1. v2'.window = marks.window /\ v2'.urgent = marks.urgent
    BY <1>3, <1>5
  <2>. HIDE DEF unwanted
  <2>2. Stream!Stands(v2)'
    BY <1>5, <2>1 DEF Stream!Stands
  <2>. QED BY <1>1, <1>4, <1>5, <2>1, <2>2
<1>6. CASE v2' = marks /\ (v4' = "quarantined" \/ v4 # "quarantined")
  <2>1. Stream!Stands(v2)'
    BY <1>6 DEF Stream!Stands
  <2>. QED BY <1>1, <1>6, <2>1
<1>. QED BY <1>5, <1>6 DEF Stream!Judged

\* A connection that is shut is one that was sent nothing.

\* A connection that is shut has been sent nothing more.
LEMMA ConnectionShut ==
  ASSUME NEW how \in {"no", "waited", "unwaited"}
  PROVE  /\ [Stream!Idle EXCEPT !.cut = how] \in Stream!Connections
         /\ ~[Stream!Idle EXCEPT !.cut = how].sent
         /\ ~[Stream!Idle EXCEPT !.cut = how].admitted
BY ConnectionIdle DEF Stream!Connections

\* A connection that is served goes on where the bytes it got end.

\* One that was served stands at the byte after the last it got.
LEMMA ConnectionServed ==
  ASSUME NEW next \in 0 .. FileSize
  PROVE  [Stream!Idle EXCEPT !.at = next, !.sent = TRUE, !.admitted = TRUE] \in Stream!Connections
<1>1. next \in 0 .. Stream!Closed
  BY BytesAssumption DEF Stream!Closed
<1>. QED BY <1>1, ConnectionIdle DEF Stream!Connections

\* That byte is in the file or right after it.
LEMMA NextByte ==
  ASSUME v1 \subseteq Stream!Pieces, NEW from \in 0 .. FileSize
  PROVE  from + Stream!Run(from, Chunk) \in 0 .. FileSize
<1>1. PICK n \in Nat : n = Stream!Run(from, Chunk) /\ n <= FileSize - from
  BY RunExact, BytesAssumption
<1>. QED BY <1>1, BytesAssumption

\* A step of the pump

\* The pump keeps all of it on whichever way it returns (StreamConnection::pump).
LEMMA PumpKept ==
  ASSUME Stream!TypeOK, Stream!NothingLeaves, NEW c \in Readers, NEW r \in Stream!Connections,
         v7 = FALSE \/ (r.sent = FALSE /\ r.admitted = FALSE), NEW marks \in Stream!Plans, Stream!Stands(marks),
         Stream!Pump(c, r, marks), UNCHANGED <<v1, v6, v7>>
  PROVE  /\ Stream!StreamInv'
         /\ \A p \in Stream!TailPieces : p \in marks.urgent => p \in v2'.urgent \cup v1
<1>. DEFINE Result == /\ v2' \in Stream!Plans /\ Stream!Stands(v2)'
                      /\ \A p \in Stream!TailPieces : p \in marks.urgent => p \in v2'.urgent \cup v1
            Guarded == /\ v4' \in {"unknown", "cleared", "quarantined"} /\ v5' \in BOOLEAN
                       /\ v7 => v4' # "cleared"
            Reads == /\ v3' \in [Readers -> Stream!Connections]
                     /\ v7 => \A d \in Readers : ~v3'[d].sent /\ ~v3'[d].admitted
<1>0. Result /\ Guarded /\ Reads =>
        /\ Stream!StreamInv'
        /\ \A p \in Stream!TailPieces : p \in marks.urgent => p \in v2'.urgent \cup v1
  BY DEF Stream!StreamInv, Stream!TypeOK, Stream!NothingLeaves
<1>. HIDE DEF Result, Guarded, Reads
<1>1. v1 \subseteq Stream!Pieces
  BY DEF Stream!TypeOK
<1>2. ASSUME Stream!Shut(c, "no") \/ Stream!Shut(c, "waited") \/ Stream!Shut(c, "unwaited")
             \/ v3' = [v3 EXCEPT ![c] = [r EXCEPT !.waits = TRUE]]
      PROVE  Reads
  <2>2. [r EXCEPT !.waits = TRUE] \in Stream!Connections
        /\ [r EXCEPT !.waits = TRUE].sent = r.sent /\ [r EXCEPT !.waits = TRUE].admitted = r.admitted
    BY DEF Stream!Connections
  <2>3. PICK new \in Stream!Connections :
          v3' = [v3 EXCEPT ![c] = new] /\ (v7 => ~new.sent /\ ~new.admitted)
    BY <1>2, <2>2, ConnectionShut DEF Stream!Shut
  <2>. QED BY <2>3 DEF Reads, Stream!TypeOK, Stream!NothingLeaves
<1>3. Stream!WaitOrGiveUp(c, r) => Reads
  BY <1>2 DEF Stream!WaitOrGiveUp
<1>4. UNCHANGED <<v4, v5>> => Guarded
  BY DEF Guarded, Stream!TypeOK, Stream!NothingLeaves
<1>5. ASSUME UNCHANGED v4, v2' = marks PROVE Result
  BY <1>5 DEF Result, Stream!Stands
<1>6. ASSUME UNCHANGED v4, NEW byte \in 0 .. FileSize, v2' = Stream!SetWindow(marks, byte) PROVE Result
  <2>1. /\ Stream!SetWindow(marks, byte) \in Stream!Plans
        /\ Stream!Stands(Stream!SetWindow(marks, byte))
        /\ \A p \in Stream!TailPieces : p \in marks.urgent =>
             p \in Stream!SetWindow(marks, byte).urgent \cup v1
    BY <1>1, WindowKept
  <2>. QED BY <1>6, <2>1 DEF Result, Stream!Stands
<1>7. r.at \in 0 .. FileSize + 1
  BY DEF Stream!Connections, Stream!Closed
<1>8. CASE ~v6 \/ r.at >= FileSize
  <2>1. Stream!Shut(c, "no") /\ v2' = marks /\ UNCHANGED <<v4, v5>>
    BY <1>8 DEF Stream!Pump
  <2>. QED BY <2>1, <1>0, <1>2, <1>4, <1>5
<1>9. CASE v6 /\ ~(r.at >= FileSize)
  <2>1. r.at \in 0 .. FileSize
    BY <1>7, <1>9, BytesAssumption
  <2>2. CASE Stream!WaitOrGiveUp(c, r) /\ v2' = Stream!SetWindow(marks, r.at) /\ UNCHANGED <<v4, v5>>
    BY <2>1, <2>2, <1>0, <1>3, <1>4, <1>6
  <2>3. CASE Stream!WaitOrGiveUp(c, r) /\ v2' = Stream!SetWindow(marks, 0) /\ UNCHANGED <<v4, v5>>
    <3>1. 0 \in 0 .. FileSize
      BY BytesAssumption
    <3>. QED BY <2>3, <3>1, <1>0, <1>3, <1>4, <1>6
  <2>4. ASSUME NEW now \in Stream!Plans, Stream!Stands(now), Stream!Judged(now),
               \A p \in Stream!TailPieces : p \in marks.urgent => p \in now.urgent \cup v1
        PROVE  Result /\ Guarded
    BY <2>4, JudgedKept DEF Result, Guarded
  <2>5. CASE Stream!Shut(c, "no") /\ Stream!Judged(marks)
    BY <2>4, <2>5, <1>0, <1>2
  <2>. DEFINE next == r.at + Stream!Run(r.at, Chunk)
              Step == /\ v3' = [v3 EXCEPT ![c] = [Stream!Idle EXCEPT !.at = next, !.sent = TRUE,
                                                                   !.admitted = TRUE]]
                      /\ \E now \in {marks, Stream!SetWindow(marks, next)} :
                           IF r.admitted THEN UNCHANGED <<v4, v5>> /\ v2' = now
                                         ELSE Stream!Judged(now)
  <2>6. CASE Step /\ (r.admitted \/ Stream!Verdict = "allow")
    <3>1. next \in 0 .. FileSize
      BY <1>1, <2>1, NextByte
    <3>2. ~v7
      BY <2>6 DEF Stream!Verdict, Stream!NothingLeaves
    <3>. HIDE DEF next
    <3>4. [Stream!Idle EXCEPT !.at = next, !.sent = TRUE, !.admitted = TRUE] \in Stream!Connections
      BY <3>1, ConnectionServed
    <3>5. Reads
      BY <2>6, <3>2, <3>4 DEF Reads, Stream!TypeOK
    <3>6. PICK now \in {marks, Stream!SetWindow(marks, next)} :
            IF r.admitted THEN UNCHANGED <<v4, v5>> /\ v2' = now ELSE Stream!Judged(now)
      BY <2>6
    <3>7. now \in Stream!Plans /\ Stream!Stands(now)
          /\ \A p \in Stream!TailPieces : p \in marks.urgent => p \in now.urgent \cup v1
      BY <1>1, <3>1, <3>6, WindowKept
    <3>8. CASE r.admitted
      BY <3>1, <3>5, <3>6, <3>8, <1>0, <1>4, <1>5, <1>6
    <3>9. CASE ~r.admitted
      BY <2>4, <3>5, <3>6, <3>7, <3>9, <1>0
    <3>. QED BY <3>8, <3>9
  <2>9. CASE Stream!ReadsNothing(c, r, marks) /\ (r.admitted \/ Stream!Verdict = "allow")
    <3>. DEFINE q == [r EXCEPT !.admitted = TRUE]
    <3>1. ~v7
      BY <2>9 DEF Stream!Verdict, Stream!NothingLeaves
    <3>2. /\ q \in Stream!Connections /\ [q EXCEPT !.waits = TRUE] \in Stream!Connections
          /\ [r EXCEPT !.admitted = TRUE, !.waits = TRUE] = [q EXCEPT !.waits = TRUE]
      BY DEF Stream!Connections
    <3>. HIDE DEF q
    <3>3. PICK new \in Stream!Connections : v3' = [v3 EXCEPT ![c] = new]
      BY <2>9, <3>2, ConnectionShut DEF Stream!ReadsNothing, Stream!WaitOrGiveUp, Stream!Shut, q
    <3>4. Reads
      BY <3>1, <3>3 DEF Reads, Stream!TypeOK
    <3>5. CASE r.admitted
      BY <2>9, <3>4, <3>5, <1>0, <1>4, <1>5 DEF Stream!ReadsNothing
    <3>6. CASE ~r.admitted
      BY <2>4, <2>9, <3>4, <3>6, <1>0 DEF Stream!ReadsNothing
    <3>. QED BY <3>5, <3>6
  <2>7. Stream!Verdict \in {"block", "allow", "wait"}
    BY DEF Stream!Verdict
  <2>8. r.admitted \in BOOLEAN
    BY DEF Stream!Connections
  <2>. QED BY <1>9, <2>2, <2>3, <2>5, <2>6, <2>7, <2>8, <2>9 DEF Stream!Pump, Stream!Reads
<1>. QED BY <1>8, <1>9

\* Every step keeps the invariant, and the deadlines at the end of the file.

\* Every step keeps the invariant, and no seek loses a deadline at the file's end.
LEMMA StreamSteps ==
  ASSUME Stream!StreamInv, Stream!Next
  PROVE  Stream!StreamInv' /\ Stream!TailSurvivesSeeks
<1>. DEFINE Kept == Stream!StreamInv' /\ Stream!TailSurvivesSeeks
<1>1. /\ Stream!TypeOK /\ Stream!Stands(v2) /\ Stream!NothingLeaves
      /\ v1 \subseteq Stream!Pieces /\ v2 \in Stream!Plans /\ v3 \in [Readers -> Stream!Connections]
  BY DEF Stream!StreamInv, Stream!TypeOK
<1>2. /\ v2 = [window |-> v2.window, urgent |-> v2.urgent, prio |-> v2.prio]
      /\ v2.window \in Stream!Windows /\ v2.urgent \subseteq Stream!Pieces
      /\ v2.prio \in [Stream!Pieces -> {0, 1, 4, 6, 7}]
  BY <1>1 DEF Stream!Plans
<1>3. ASSUME NEW c \in Readers, NEW start \in Starts, Stream!Begin(c, start)
      PROVE  Kept
  <2>1. start \in 0 .. FileSize
    BY BytesAssumption
  <2>. DEFINE marks == Stream!SetWindow(v2, start)
              r == [Stream!Idle EXCEPT !.at = start]
  <2>2. /\ marks \in Stream!Plans /\ Stream!Stands(marks)
        /\ \A p \in Stream!TailPieces : p \in v2.urgent => p \in marks.urgent \cup v1
    BY <1>1, <2>1, WindowKept
  <2>3. r \in Stream!Connections /\ r.sent = FALSE /\ r.admitted = FALSE
    <3>1. start \in 0 .. Stream!Closed
      BY <2>1, BytesAssumption DEF Stream!Closed
    <3>. QED BY <3>1, ConnectionIdle DEF Stream!Connections
  <2>4. Stream!Pump(c, r, marks) /\ UNCHANGED <<v1, v6, v7>>
    BY <1>3 DEF Stream!Begin
  <2>. HIDE DEF marks, r
  <2>5. Stream!StreamInv' /\ \A p \in Stream!TailPieces : p \in marks.urgent => p \in v2'.urgent \cup v1
    BY <1>1, <2>2, <2>3, <2>4, PumpKept
  <2>. QED BY <2>2, <2>4, <2>5 DEF Stream!TailSurvivesSeeks
<1>4. ASSUME NEW c \in Readers, Stream!Pumps(c)
      PROVE  Kept
  <2>1. v7 = FALSE \/ (v3[c].sent = FALSE /\ v3[c].admitted = FALSE)
    BY <1>1 DEF Stream!TypeOK, Stream!NothingLeaves, Stream!Connections
  <2>2. Stream!Pump(c, v3[c], v2) /\ UNCHANGED <<v1, v6, v7>> /\ v3[c] \in Stream!Connections
    BY <1>1, <1>4 DEF Stream!Pumps
  <2>3. Stream!StreamInv' /\ \A p \in Stream!TailPieces : p \in v2.urgent => p \in v2'.urgent \cup v1
    BY <1>1, <2>1, <2>2, PumpKept
  <2>. QED BY <2>2, <2>3 DEF Stream!TailSurvivesSeeks
<1>5. ASSUME UNCHANGED <<v1, v2, v4, v6, v7>>, v5' \in BOOLEAN,
             v3' \in [Readers -> Stream!Connections],
             \A c \in Readers : \/ (v3[c].sent <=> v3'[c].sent) /\ (v3[c].admitted <=> v3'[c].admitted)
                                \/ ~v3'[c].sent /\ ~v3'[c].admitted
      PROVE  Kept
  BY <1>1, <1>5 DEF Stream!StreamInv, Stream!TypeOK, Stream!Stands, Stream!NothingLeaves,
    Stream!TailSurvivesSeeks
<1>6. ASSUME NEW c \in Readers, Stream!PlayerCloses(c)
      PROVE  Kept
  <2>1. v3' = [v3 EXCEPT ![c] = [Stream!Idle EXCEPT !.cut = "no"]] /\ UNCHANGED <<v1, v2, v4, v5, v6, v7>>
    BY <1>6 DEF Stream!PlayerCloses, Stream!Shut
  <2>2. v5' \in BOOLEAN
    BY <1>1, <2>1 DEF Stream!TypeOK
  <2>. QED BY <1>1, <1>5, <2>1, <2>2, ConnectionShut
<1>7. ASSUME NEW c \in Readers, Stream!NinetySecondsPass(c)
      PROVE  Kept
  <2>1. v3' = [v3 EXCEPT ![c].quiet = TRUE] /\ UNCHANGED <<v1, v2, v4, v5, v6, v7>>
    BY <1>7 DEF Stream!NinetySecondsPass
  <2>2. v5' \in BOOLEAN
    BY <1>1, <2>1 DEF Stream!TypeOK
  <2>3. [v3[c] EXCEPT !.quiet = TRUE] \in Stream!Connections
        /\ [v3[c] EXCEPT !.quiet = TRUE].sent = v3[c].sent
        /\ [v3[c] EXCEPT !.quiet = TRUE].admitted = v3[c].admitted
    BY <1>1 DEF Stream!Connections
  <2>. QED BY <1>1, <1>5, <2>1, <2>2, <2>3
<1>8. CASE Stream!OnTorrentFinished
  <2>1. Stream!Judged(v2) /\ UNCHANGED <<v1, v3, v6, v7>>
    BY <1>8 DEF Stream!OnTorrentFinished
  <2>2. /\ v2' \in Stream!Plans /\ Stream!Stands(v2)' /\ v2'.urgent = v2.urgent
        /\ v4' \in {"unknown", "cleared", "quarantined"} /\ v5' \in BOOLEAN
        /\ v7 => v4' # "cleared"
    BY <1>1, <2>1, JudgedKept
  <2>. QED BY <1>1, <2>1, <2>2 DEF Stream!StreamInv, Stream!TypeOK, Stream!NothingLeaves,
         Stream!TailSurvivesSeeks
<1>9. CASE Stream!PrioritizeFilePieceBoundaries
  <2>. DEFINE prio == [v2.prio EXCEPT ![Stream!First] = 7, ![Stream!Last] = 7]
              urgent == v2.urgent \cup (Stream!TailPieces \ v1)
  <2>1. v2' = [window |-> v2.window, urgent |-> urgent, prio |-> prio]
    BY <1>2, <1>9 DEF Stream!PrioritizeFilePieceBoundaries
  <2>2. UNCHANGED <<v1, v3, v4, v5, v6, v7>>
    BY <1>9 DEF Stream!PrioritizeFilePieceBoundaries
  <2>3. /\ v2'.window = v2.window /\ v2.urgent \subseteq v2'.urgent
        /\ \A p \in Stream!Pieces : v2'.prio[p] = v2.prio[p] \/ v2'.prio[p] = 7
    BY <1>2, <2>1
  <2>4. v2' \in Stream!Plans
    <3>1. urgent \subseteq Stream!Pieces
      BY <1>2 DEF Stream!TailPieces
    <3>2. prio \in [Stream!Pieces -> {0, 1, 4, 6, 7}]
      BY <1>2
    <3>. QED BY <1>2, <2>1, <3>1, <3>2 DEF Stream!Plans
  <2>5. Stream!Stands(v2)'
    <3>1. v2.window # Stream!NoWindow => v2.window.missing .. v2.window.last \subseteq Stream!Pieces
      BY <1>2, PiecesAreNumbers DEF Stream!Windows
    <3>. QED BY <1>1, <2>2, <2>3, <3>1 DEF Stream!Stands
  <2>. QED BY <1>1, <2>2, <2>3, <2>4, <2>5 DEF Stream!StreamInv, Stream!TypeOK,
         Stream!NothingLeaves, Stream!TailSurvivesSeeks
<1>10. CASE Stream!RemoveTorrent
  <2>1. v2' = [window |-> Stream!NoWindow, urgent |-> {}, prio |-> [p \in Stream!Pieces |-> 4]]
    BY <1>10 DEF Stream!RemoveTorrent
  <2>2. v2' \in Stream!Plans
    BY <2>1 DEF Stream!Plans, Stream!Windows
  <2>3. Stream!Stands(v2)'
    BY <2>1 DEF Stream!Stands
  <2>. QED BY <1>1, <1>10, <2>2, <2>3 DEF Stream!RemoveTorrent, Stream!StreamInv, Stream!TypeOK,
         Stream!NothingLeaves, Stream!TailSurvivesSeeks
<1>11. CASE Stream!Resume
  BY <1>1, <1>5, <1>11 DEF Stream!Resume
<1>12. ASSUME NEW p \in Stream!Pieces, Stream!PieceFinishes(p)
       PROVE  Kept
  <2>1. v2' = [window |-> v2.window, urgent |-> v2.urgent \ {p}, prio |-> v2.prio]
    BY <1>2, <1>12 DEF Stream!PieceFinishes
  <2>2. v1' = v1 \cup {p} /\ UNCHANGED <<v3, v4, v5, v6, v7>>
    BY <1>12 DEF Stream!PieceFinishes
  <2>3. v2' \in Stream!Plans
    BY <1>2, <2>1 DEF Stream!Plans
  <2>4. Stream!Stands(v2)'
    BY <1>1, <2>1, <2>2 DEF Stream!Stands
  <2>. QED BY <1>1, <2>1, <2>2, <2>3, <2>4 DEF Stream!StreamInv, Stream!TypeOK,
         Stream!NothingLeaves, Stream!TailSurvivesSeeks
<1>. QED BY <1>3, <1>4, <1>6, <1>7, <1>8, <1>9, <1>10, <1>11, <1>12 DEF Stream!Next

\* What readers are promised follows from the invariant.

\* The invariant has what readers are promised.
LEMMA StreamPromises ==
  ASSUME Stream!StreamInv
  PROVE  Stream!StreamHolds
<1>1. Stream!TypeOK /\ v1 \subseteq Stream!Pieces
  BY DEF Stream!StreamInv, Stream!TypeOK
<1>2. Stream!RunIsExact
  <2>1. \A cap \in 1 .. FileSize : cap \in Nat \ {0}
    BY BytesAssumption
  <2>. QED BY <1>1, <2>1, RunExact DEF Stream!RunIsExact
<1>3. Stream!WindowIsUrgent
  BY DEF Stream!StreamInv, Stream!Stands, Stream!WindowIsUrgent
<1>4. Stream!GuardedFirst
  BY DEF Stream!StreamInv, Stream!NothingLeaves, Stream!GuardedFirst
<1>. QED BY <1>1, <1>2, <1>3, <1>4 DEF Stream!StreamHolds

\* A player gets exactly the bytes that are there; the window that stands is urgent in
\* each of its missing pieces; no byte of a disguised file leaves; and no seek costs a
\* deadline at the end of the file: for every size of pieces, file, chunk and window,
\* and any number of connections.
THEOREM StreamSound == Spec => StreamIsSound
<1>. DEFINE Inv == part = "stream" => Stream!StreamInv
<1>1. Init => Inv
  BY StreamInit DEF Init
<1>2. Inv /\ [Next]_vars => Inv' /\ [part = "stream" => Stream!TailSurvivesSeeks]_vars
  <2>. SUFFICES ASSUME Inv, [Next]_vars, part = "stream"
                PROVE  Stream!StreamInv' /\ (Stream!TailSurvivesSeeks \/ UNCHANGED vars)
    BY PartStays
  <2>1. CASE Stream!Next
    BY <2>1, StreamSteps
  <2>2. CASE UNCHANGED vars
    BY <2>2 DEF vars, Stream!StreamInv, Stream!TypeOK, Stream!Stands, Stream!NothingLeaves
  <2>. QED BY <2>1, <2>2 DEF Next
<1>3. Inv => (part = "stream" => Stream!StreamHolds)
  BY StreamPromises
<1>. QED BY <1>1, <1>2, <1>3, PTL DEF Spec, StreamIsSound

-----------------------------------------------------------------------------
(* RssFeeds: v1 feeds, v2 items, v3 links, v4 saved, v5 checks, v6 fetches,
   v7 checked, v8 asked, v9 handed, v10 dropped, v11 failed *)

\* So is that of the feeds.
LEMMA SameCountOfLinks == \A S : Rss!Cardinality(S) = Cardinality(S)
BY DEF Rss!Cardinality, Cardinality

\* The row of an address has that address, if any has.
LEMMA RowOfFeed ==
  ASSUME Rss!TypeOK, NEW url \in Urls
  PROVE  IF \E i \in DOMAIN v1 : v1[i].url = url
           THEN Rss!RowOf(url) \in DOMAIN v1 /\ v1[Rss!RowOf(url)].url = url
           ELSE Rss!RowOf(url) = 0
<1>. DEFINE I == {i \in 1 .. Len(v1) : v1[i].url = url}
<1>1. Rss!RowOf(url) = IF I # {} THEN Rss!Min(I) ELSE 0
  BY DEF Rss!RowOf, Rss!SelectInSeq
<1>2. DOMAIN v1 = 1 .. Len(v1) /\ Len(v1) \in Nat
  BY DEF Rss!TypeOK
<1>3. ASSUME I # {} PROVE Rss!Min(I) \in I
  <2>1. I \subseteq Nat
    BY <1>2
  <2>2. \E x \in I : \A y \in I : x <= y
    <3>. HIDE DEF I
    <3>. QED BY <1>3, <2>1, Least
  <2>. HIDE DEF I
  <2>. QED BY <2>2 DEF Rss!Min
<1>. QED BY <1>1, <1>2, <1>3

\* A sequence without one of its entries keeps the others, in their order.
LEMMA RowRemoved ==
  ASSUME NEW S, NEW s \in Seq(S), NEW i \in DOMAIN s
  PROVE  LET r == SubSeq(s, 1, i - 1) \o SubSeq(s, i + 1, Len(s))
         IN  /\ r \in Seq(S) /\ Len(r) = Len(s) - 1
             /\ \A j \in DOMAIN r : r[j] = IF j < i THEN s[j] ELSE s[j + 1]
             /\ \A j \in DOMAIN r : (IF j < i THEN j ELSE j + 1) \in DOMAIN s
             /\ \A k \in DOMAIN s : k # i => \E j \in DOMAIN r : r[j] = s[k]
<1>. DEFINE a == SubSeq(s, 1, i - 1)
            b == SubSeq(s, i + 1, Len(s))
            r == a \o b
<1>1. i \in 1 .. Len(s) /\ Len(s) \in Nat
  OBVIOUS
<1>2. /\ a \in Seq(S) /\ Len(a) = i - 1 /\ \A j \in 1 .. i - 1 : a[j] = s[j]
      /\ b \in Seq(S) /\ Len(b) = Len(s) - i /\ \A j \in 1 .. Len(s) - i : b[j] = s[i + j]
  BY <1>1
<1>. HIDE DEF a, b
<1>3. /\ r \in Seq(S) /\ Len(r) = Len(s) - 1
      /\ \A j \in 1 .. Len(s) - 1 : r[j] = IF j < i THEN s[j] ELSE s[j + 1]
  <2>1. /\ a \o b \in Seq(S) /\ Len(a \o b) = Len(a) + Len(b)
        /\ \A j \in 1 .. Len(a) + Len(b) : (a \o b)[j] = IF j <= Len(a) THEN a[j] ELSE b[j - Len(a)]
    BY <1>2, ConcatProperties
  <2>2. Len(a) + Len(b) = Len(s) - 1
    BY <1>1, <1>2
  <2>3. ASSUME NEW j \in 1 .. Len(s) - 1 PROVE (a \o b)[j] = IF j < i THEN s[j] ELSE s[j + 1]
    <3>1. CASE j < i
      <4>1. j \in 1 .. i - 1 /\ j <= Len(a) /\ j \in 1 .. Len(a) + Len(b)
        BY <1>1, <1>2, <2>2, <3>1
      <4>. QED BY <1>2, <2>1, <3>1, <4>1
    <3>2. CASE ~(j < i)
      <4>1. /\ j - Len(a) \in 1 .. Len(s) - i /\ ~(j <= Len(a)) /\ j \in 1 .. Len(a) + Len(b)
            /\ i + (j - Len(a)) = j + 1
        <5>1. j \in Int /\ i \in 1 .. Len(s) /\ Len(s) \in Nat /\ i <= j /\ 1 <= j /\ j <= Len(s) - 1
          BY <1>1, <3>2
        <5>2. j - (i - 1) \in 1 .. Len(s) - i /\ ~(j <= i - 1) /\ i + (j - (i - 1)) = j + 1
          BY <5>1
        <5>. QED BY <1>2, <2>2, <5>2
      <4>. QED BY <1>2, <2>1, <3>2, <4>1
    <3>. QED BY <3>1, <3>2
  <2>. QED BY <2>1, <2>2, <2>3
<1>4. ASSUME NEW k \in DOMAIN s, k # i PROVE \E j \in 1 .. Len(s) - 1 : r[j] = s[k]
  <2>1. CASE k < i
    <3>1. k \in 1 .. Len(s) - 1
      BY <1>1, <2>1
    <3>. QED BY <1>3, <2>1, <3>1
  <2>2. CASE k > i
    <3>1. k - 1 \in 1 .. Len(s) - 1 /\ ~(k - 1 < i) /\ (k - 1) + 1 = k
      BY <1>1, <2>2
    <3>. QED BY <1>3, <3>1
  <2>3. k < i \/ k > i
    BY <1>1, <1>4
  <2>. QED BY <2>1, <2>2, <2>3
<1>5. DOMAIN r = 1 .. Len(s) - 1
  BY <1>3
<1>. HIDE DEF r
<1>6. \A j \in DOMAIN r : (IF j < i THEN j ELSE j + 1) \in DOMAIN s
  BY <1>1, <1>5
<1>. QED BY <1>3, <1>4, <1>5, <1>6 DEF r, a, b

\* While the links are few enough, the settings keep all of them.

\* Up to the bound, all of the marks are kept.
LEMMA AllKept ==
  ASSUME NEW all \in SUBSET Links
  PROVE  Rss!Kept(all) = {all}
<1>1. Cardinality(all) \in Nat /\ Cardinality(all) <= Cardinality(Links) /\ Cardinality(Links) \in Nat
  BY LinksAssumption, FS_Subset, FS_CardinalityType
<1>. QED BY <1>1, LinksAssumption, SameCountOfLinks DEF Rss!Kept

\* At the start there is no feed and no mark.
LEMMA FeedsInit ==
  ASSUME Rss!Init
  PROVE  Rss!FeedsInv
BY DEF Rss!Init, Rss!FeedsInv, Rss!FeedsHold, Rss!TypeOK, Rss!ItemsAreTheFeeds,
  Rss!AddedStaysMarked, Rss!MarkedWasHanded, Rss!MarksAreSaved, Rss!AskedIsAccountedFor

\* What does not touch the marks

\* What is saved of the marks is all of them.
LEMMA MarksSaved ==
  ASSUME Rss!TypeOK, v3' \subseteq Links, v4' \in Rss!Kept(v3)'
  PROVE  v4' \subseteq Links /\ Rss!MarksAreSaved'
<1>1. v4' \in {v3'}
  BY AllKept DEF Rss!Kept
<1>. QED BY <1>1 DEF Rss!MarksAreSaved

\* Every step keeps the types.
LEMMA FeedsTypes ==
  ASSUME Rss!FeedsInv, Rss!Next
  PROVE  Rss!TypeOK'
<1>. DEFINE Row == [url : Urls, enabled : BOOLEAN, auto : BOOLEAN]
            Shown == SUBSET [link : Links, done : BOOLEAN]
<1>0. /\ v1 \in Seq(Row) /\ v2 \in Seq(Shown) /\ Len(v2) = Len(v1)
      /\ DOMAIN v1 = 1 .. Len(v1) /\ DOMAIN v2 = 1 .. Len(v1) /\ v3 \subseteq Links
      /\ \A i \in DOMAIN v1 : v1[i] \in Row /\ v1[i].url \in Urls /\ v2[i] \in Shown
  <2>1. v1 \in Seq(Row) /\ v2 \in Seq(Shown) /\ Len(v2) = Len(v1) /\ v3 \subseteq Links
    BY DEF Rss!FeedsInv, Rss!FeedsHold, Rss!TypeOK, Rss!ItemsAreTheFeeds
  <2>2. DOMAIN v1 = 1 .. Len(v1) /\ DOMAIN v2 = 1 .. Len(v1)
    BY <2>1
  <2>3. \A f \in Row : f.url \in Urls
    OBVIOUS
  <2>. HIDE DEF Row, Shown
  <2>4. \A i \in DOMAIN v1 : v1[i] \in Row /\ v2[i] \in Shown
    BY <2>1, <2>2
  <2>. QED BY <2>1, <2>2, <2>3, <2>4
<1>. USE DEF Rss!FeedsInv, Rss!FeedsHold, Rss!TypeOK, Rss!CheckFeeds, Rss!Handing
<1>1. ASSUME NEW url \in Urls, Rss!AddFeed(url)
      PROVE  Rss!TypeOK'
  <2>1. [url |-> url, enabled |-> TRUE, auto |-> FALSE] \in Row /\ {} \in Shown
    OBVIOUS
  <2>2. v1' \in Seq(Row) /\ v2' \in Seq(Shown)
    BY <1>1, <1>0, <2>1 DEF Rss!AddFeed
  <2>. QED BY <1>1, <2>2 DEF Rss!AddFeed
<1>2. ASSUME NEW url \in Urls, Rss!CheckAnswers(url)
      PROVE  Rss!TypeOK'
  <2>1. CASE Rss!RowOf(url) = 0
    BY <1>2, <2>1 DEF Rss!CheckAnswers
  <2>2. CASE Rss!RowOf(url) # 0
    <3>. DEFINE i == Rss!RowOf(url)
                new == Rss!Matching(i, url)
                now == {[x EXCEPT !.done = @ \/ x.link \in new] : x \in Rss!Listed(url)}
    <3>1. i \in DOMAIN v1
      BY <2>2, RowOfFeed
    <3>2. Rss!Listed(url) \subseteq [link : Links, done : BOOLEAN]
      <4>1. \A l \in Links : [link |-> l, done |-> l \in v3] \in [link : Links, done : BOOLEAN]
        OBVIOUS
      <4>. QED BY <4>1 DEF Rss!Listed, Rss!published
    <3>3. new \subseteq Links
      BY <3>2 DEF Rss!Matching
    <3>4. now \in Shown
      <4>1. \A x \in Rss!Listed(url) : [x EXCEPT !.done = @ \/ x.link \in new] \in [link : Links, done : BOOLEAN]
        BY <3>2
      <4>. QED BY <4>1
    <3>. HIDE DEF new, now, i
    <3>5. /\ v2' = [v2 EXCEPT ![i] = now] /\ v3' = v3 \cup new /\ v4' \in Rss!Kept(v3)'
          /\ v7' = v7 \cup {url} /\ v9' = v9 \cup (new \cap Magnets) /\ v6' = v6 \cup (new \ Magnets)
          /\ v5' = v5 \ {url} /\ UNCHANGED <<v1, v8, v10, v11>>
      BY <1>2, <2>2, Zenon DEF Rss!CheckAnswers, Rss!Stamped, i, new, now
    <3>6. v3' \subseteq Links
      BY <1>0, <3>3, <3>5
    <3>7. v4' \subseteq Links
      BY <3>5, <3>6, MarksSaved
    <3>8. v2' \in Seq(Shown)
      BY <1>0, <3>1, <3>4, <3>5
    <3>. QED BY <3>3, <3>5, <3>6, <3>7, <3>8
  <2>. QED BY <2>1, <2>2
<1>3. ASSUME NEW url \in Urls, Rss!CheckFails(url)
      PROVE  Rss!TypeOK'
  BY <1>0, <1>3 DEF Rss!CheckFails
<1>4. ASSUME NEW url \in Urls, Rss!IntervalPasses(url)
      PROVE  Rss!TypeOK'
  BY <1>4 DEF Rss!IntervalPasses
<1>5. ASSUME NEW i \in DOMAIN v1, Rss!RemoveFeed(i)
      PROVE  Rss!TypeOK'
  <2>1. v1' \in Seq(Row) /\ v2' \in Seq(Shown)
    BY <1>5, <1>0, RowRemoved DEF Rss!RemoveFeed, Rss!ItemsWithoutRow
  <2>2. v3' = v3 /\ v4' \in Rss!Kept(v3)'
    BY <1>5 DEF Rss!RemoveFeed
  <2>3. v4' \subseteq Links
    BY <1>0, <2>2, MarksSaved
  <2>. QED BY <1>5, <2>1, <2>3 DEF Rss!RemoveFeed
<1>6. ASSUME NEW i \in DOMAIN v1, Rss!CheckFeed(i)
      PROVE  Rss!TypeOK'
  BY <1>6, <1>0 DEF Rss!CheckFeed
<1>7. ASSUME NEW i \in DOMAIN v1, NEW enabled \in BOOLEAN, NEW auto \in BOOLEAN, Rss!UpdateFeed(i, enabled, auto)
      PROVE  Rss!TypeOK'
  <2>1. [v1[i] EXCEPT !.enabled = enabled] \in Row
        /\ [[v1[i] EXCEPT !.enabled = enabled] EXCEPT !.auto = auto] \in Row
    BY <1>0
  <2>2. v1' \in Seq(Row)
    BY <1>7, <1>0, <2>1 DEF Rss!UpdateFeed
  <2>3. v3' = v3 /\ v4' \in Rss!Kept(v3)'
    BY <1>7 DEF Rss!UpdateFeed
  <2>4. v4' \subseteq Links
    BY <1>0, <2>3, MarksSaved
  <2>. QED BY <1>7, <2>2, <2>4 DEF Rss!UpdateFeed
<1>8. ASSUME NEW i \in DOMAIN v1, NEW x \in v2[i], Rss!DownloadItem(i, x)
      PROVE  Rss!TypeOK'
  <2>1. x \in [link : Links, done : BOOLEAN] /\ x.link \in Links
    BY <1>0
  <2>2. (v2[i] \ {x}) \cup {[x EXCEPT !.done = TRUE]} \in Shown
    BY <1>0, <2>1
  <2>3. v2' \in Seq(Shown)
    BY <1>8, <1>0, <2>2 DEF Rss!DownloadItem
  <2>4. v3' = v3 \cup {x.link} /\ v4' \in Rss!Kept(v3)' /\ v3' \subseteq Links
    BY <1>8, <1>0, <2>1 DEF Rss!DownloadItem
  <2>5. v4' \subseteq Links
    BY <2>4, MarksSaved
  <2>. QED BY <1>8, <2>1, <2>3, <2>4, <2>5 DEF Rss!DownloadItem
<1>9. ASSUME NEW l \in Links, NEW good \in BOOLEAN, Rss!FetchEnds(l, good)
      PROVE  Rss!TypeOK'
  BY <1>9 DEF Rss!FetchEnds
<1>10. CASE Rss!CheckAllFeeds
  BY <1>10, <1>0 DEF Rss!CheckAllFeeds
<1>11. CASE Rss!Restart
  <2>1. v2' \in Seq(Shown)
    <3>1. [i \in 1 .. Len(v1) |-> {}] \in Seq(Shown)
      BY <1>0
    <3>. QED BY <1>11, <1>0, <3>1 DEF Rss!Restart
  <2>. QED BY <1>11, <1>0, <2>1 DEF Rss!Restart
<1>. QED BY <1>1, <1>2, <1>3, <1>4, <1>5, <1>6, <1>7, <1>8, <1>9, <1>10, <1>11
     DEF Rss!Next

\* Every step keeps the items with the feed they are of: rows that move up take theirs
\* along, and an answer finds its feed by the address.
LEMMA FeedsItems ==
  ASSUME Rss!FeedsInv, Rss!TypeOK', Rss!Next
  PROVE  Rss!ItemsAreTheFeeds'
<1>0. /\ Len(v2) = Len(v1) /\ Len(v1) \in Nat /\ DOMAIN v1 = 1 .. Len(v1) /\ DOMAIN v2 = 1 .. Len(v1)
      /\ \A i \in DOMAIN v1 : {x.link : x \in v2[i]} \subseteq Rss!published(v1[i].url)
  <2>1. /\ v1 \in Seq([url : Urls, enabled : BOOLEAN, auto : BOOLEAN])
        /\ v2 \in Seq(SUBSET [link : Links, done : BOOLEAN]) /\ Rss!ItemsAreTheFeeds
    BY DEF Rss!FeedsInv, Rss!FeedsHold, Rss!TypeOK
  <2>2. Len(v2) = Len(v1) /\ \A i \in DOMAIN v1 : {x.link : x \in v2[i]} \subseteq Rss!published(v1[i].url)
    BY <2>1 DEF Rss!ItemsAreTheFeeds
  <2>. QED BY <2>1, <2>2
<1>20. ASSUME UNCHANGED <<v1, v2>> PROVE Rss!ItemsAreTheFeeds'
  BY <1>0, <1>20 DEF Rss!ItemsAreTheFeeds
<1>. USE DEF Rss!ItemsAreTheFeeds
<1>1. ASSUME NEW url \in Urls, Rss!AddFeed(url)
      PROVE  Rss!ItemsAreTheFeeds'
  <2>1. v1' = Append(v1, [url |-> url, enabled |-> TRUE, auto |-> FALSE]) /\ v2' = Append(v2, {})
    BY <1>1 DEF Rss!AddFeed
  <2>2. v1 \in Seq([url : Urls, enabled : BOOLEAN, auto : BOOLEAN])
        /\ v2 \in Seq(SUBSET [link : Links, done : BOOLEAN])
    BY DEF Rss!FeedsInv, Rss!FeedsHold, Rss!TypeOK
  <2>3. /\ Len(v1') = Len(v1) + 1 /\ Len(v2') = Len(v1) + 1 /\ DOMAIN v1' = 1 .. Len(v1) + 1
        /\ v2'[Len(v1) + 1] = {}
        /\ \A j \in 1 .. Len(v1) : v1'[j] = v1[j] /\ v2'[j] = v2[j]
    BY <1>0, <2>1, <2>2
  <2>. QED BY <1>0, <2>3
<1>2. ASSUME NEW url \in Urls, Rss!CheckAnswers(url)
      PROVE  Rss!ItemsAreTheFeeds'
  <2>1. CASE Rss!RowOf(url) = 0
    BY <1>2, <1>20, <2>1 DEF Rss!CheckAnswers
  <2>2. CASE Rss!RowOf(url) # 0
    <3>. DEFINE i == Rss!RowOf(url)
                now == {[x EXCEPT !.done = @ \/ x.link \in Rss!Matching(i, url)] : x \in Rss!Listed(url)}
    <3>1. i \in DOMAIN v1 /\ v1[i].url = url
      BY <2>2, RowOfFeed DEF Rss!FeedsInv, Rss!FeedsHold
    <3>2. {x.link : x \in now} \subseteq Rss!published(url)
      <4>1. \A l \in Rss!published(url) : l \in Links
        BY DEF Rss!published
      <4>2. \A x \in Rss!Listed(url) : x \in [link : Links, done : BOOLEAN] /\ x.link \in Rss!published(url)
        <5>. SUFFICES ASSUME NEW l \in Rss!published(url)
                      PROVE  /\ [link |-> l, done |-> l \in v3] \in [link : Links, done : BOOLEAN]
                             /\ [link |-> l, done |-> l \in v3].link \in Rss!published(url)
          BY DEF Rss!Listed
        <5>. QED BY <4>1
      <4>3. ASSUME NEW y \in now PROVE y.link \in Rss!published(url)
        <5>1. PICK x \in Rss!Listed(url) : y = [x EXCEPT !.done = x.done \/ x.link \in Rss!Matching(i, url)]
          OBVIOUS
        <5>. QED BY <4>2, <5>1
      <4>. QED BY <4>3
    <3>. HIDE DEF now, i
    <3>3. v2' = [v2 EXCEPT ![i] = now] /\ v1' = v1
      BY <1>2, <2>2, Zenon DEF Rss!CheckAnswers, i, now
    <3>4. Len(v2') = Len(v2) /\ v2'[i] = now /\ \A j \in DOMAIN v1 : j # i => v2'[j] = v2[j]
      BY <1>0, <3>1, <3>3 DEF Rss!FeedsInv, Rss!FeedsHold, Rss!TypeOK
    <3>. QED BY <1>0, <3>1, <3>2, <3>3, <3>4
  <2>. QED BY <2>1, <2>2
<1>3. ASSUME NEW url \in Urls, Rss!CheckFails(url)
      PROVE  Rss!ItemsAreTheFeeds'
  BY <1>3, <1>20 DEF Rss!CheckFails
<1>4. ASSUME NEW url \in Urls, Rss!IntervalPasses(url)
      PROVE  Rss!ItemsAreTheFeeds'
  BY <1>4, <1>20 DEF Rss!IntervalPasses
<1>5. ASSUME NEW i \in DOMAIN v1, Rss!RemoveFeed(i)
      PROVE  Rss!ItemsAreTheFeeds'
  <2>1. v1 \in Seq([url : Urls, enabled : BOOLEAN, auto : BOOLEAN])
        /\ v2 \in Seq(SUBSET [link : Links, done : BOOLEAN])
    BY DEF Rss!FeedsInv, Rss!FeedsHold, Rss!TypeOK
  <2>2. v1' = SubSeq(v1, 1, i - 1) \o SubSeq(v1, i + 1, Len(v1))
        /\ v2' = SubSeq(v2, 1, i - 1) \o SubSeq(v2, i + 1, Len(v2))
    BY <1>5 DEF Rss!RemoveFeed, Rss!ItemsWithoutRow
  <2>3. /\ v1' \in Seq([url : Urls, enabled : BOOLEAN, auto : BOOLEAN]) /\ Len(v1') = Len(v1) - 1
        /\ \A j \in DOMAIN v1' : v1'[j] = IF j < i THEN v1[j] ELSE v1[j + 1]
        /\ \A j \in DOMAIN v1' : (IF j < i THEN j ELSE j + 1) \in DOMAIN v1
    BY <2>1, <2>2, RowRemoved
  <2>4. /\ v2' \in Seq(SUBSET [link : Links, done : BOOLEAN]) /\ Len(v2') = Len(v2) - 1
        /\ \A j \in DOMAIN v2' : v2'[j] = IF j < i THEN v2[j] ELSE v2[j + 1]
    <3>1. i \in DOMAIN v2
      BY <1>0
    <3>. QED BY <2>1, <2>2, <3>1, RowRemoved
  <2>5. DOMAIN v1' = DOMAIN v2'
    BY <1>0, <2>3, <2>4
  <2>6. ASSUME NEW j \in DOMAIN v1'
        PROVE  {x.link : x \in v2'[j]} \subseteq Rss!published(v1'[j].url)
    <3>1. CASE j < i
      BY <1>0, <2>3, <2>4, <2>5, <3>1
    <3>2. CASE ~(j < i)
      BY <1>0, <2>3, <2>4, <2>5, <3>2
    <3>. QED BY <3>1, <3>2
  <2>. QED BY <1>0, <2>3, <2>4, <2>6
<1>6. ASSUME NEW i \in DOMAIN v1, Rss!CheckFeed(i)
      PROVE  Rss!ItemsAreTheFeeds'
  BY <1>6, <1>20 DEF Rss!CheckFeed
<1>7. ASSUME NEW i \in DOMAIN v1, NEW enabled \in BOOLEAN, NEW auto \in BOOLEAN, Rss!UpdateFeed(i, enabled, auto)
      PROVE  Rss!ItemsAreTheFeeds'
  <2>1. /\ v2' = v2 /\ Len(v1') = Len(v1) /\ DOMAIN v1' = DOMAIN v1
        /\ \A j \in DOMAIN v1 : v1'[j].url = v1[j].url
    BY <1>7 DEF Rss!UpdateFeed, Rss!FeedsInv, Rss!FeedsHold, Rss!TypeOK
  <2>. QED BY <1>0, <2>1
<1>8. ASSUME NEW i \in DOMAIN v1, NEW x \in v2[i], Rss!DownloadItem(i, x)
      PROVE  Rss!ItemsAreTheFeeds'
  <2>1. v1' = v1 /\ v2' = [v2 EXCEPT ![i] = (v2[i] \ {x}) \cup {[x EXCEPT !.done = TRUE]}]
    BY <1>8 DEF Rss!DownloadItem
  <2>2. x \in [link : Links, done : BOOLEAN] /\ i \in DOMAIN v2
    BY <1>0 DEF Rss!FeedsInv, Rss!FeedsHold, Rss!TypeOK
  <2>3. [x EXCEPT !.done = TRUE].link = x.link
    BY <2>2
  <2>4. v2'[i] = (v2[i] \ {x}) \cup {[x EXCEPT !.done = TRUE]} /\ Len(v2') = Len(v2)
        /\ \A j \in DOMAIN v1 : j # i => v2'[j] = v2[j]
    BY <1>0, <2>1, <2>2 DEF Rss!FeedsInv, Rss!FeedsHold, Rss!TypeOK
  <2>5. {y.link : y \in v2'[i]} \subseteq Rss!published(v1[i].url)
    <3>1. \A y \in v2[i] : y.link \in Rss!published(v1[i].url)
      BY <1>0
    <3>2. \A y \in v2'[i] : y \in v2[i] \/ y = [x EXCEPT !.done = TRUE]
      BY <2>4
    <3>3. \A y \in v2'[i] : y.link \in Rss!published(v1[i].url)
      BY <2>3, <3>1, <3>2
    <3>. QED BY <3>3
  <2>. QED BY <1>0, <2>1, <2>4, <2>5
<1>9. ASSUME NEW l \in Links, NEW good \in BOOLEAN, Rss!FetchEnds(l, good)
      PROVE  Rss!ItemsAreTheFeeds'
  BY <1>9, <1>20 DEF Rss!FetchEnds
<1>10. CASE Rss!CheckAllFeeds
  BY <1>10, <1>20 DEF Rss!CheckAllFeeds
<1>11. CASE Rss!Restart
  <2>1. v1' = v1 /\ v2' = [j \in 1 .. Len(v1) |-> {}]
    BY <1>11, <1>0 DEF Rss!Restart
  <2>2. Len(v2') = Len(v1)
    BY <1>0, <2>1
  <2>. QED BY <1>0, <2>1, <2>2
<1>. QED BY <1>1, <1>2, <1>3, <1>4, <1>5, <1>6, <1>7, <1>8, <1>9, <1>10, <1>11
     DEF Rss!Next

\* Every step keeps the marks with what was handed to the engine.
LEMMA FeedsMarks ==
  ASSUME Rss!FeedsInv, Rss!TypeOK', Rss!Next
  PROVE  (Rss!AddedStaysMarked /\ Rss!MarkedWasHanded /\ Rss!MarksAreSaved)'
<1>0. v9 \cup v6 \subseteq v3 /\ v3 \subseteq v9 \cup v6 \cup v10 /\ v4 = v3
  BY DEF Rss!FeedsInv, Rss!FeedsHold, Rss!AddedStaysMarked, Rss!MarkedWasHanded, Rss!MarksAreSaved
<1>20. Rss!TypeOK /\ v3' \subseteq Links
  BY DEF Rss!FeedsInv, Rss!FeedsHold, Rss!TypeOK
<1>21. v4' \in Rss!Kept(v3)' => v4' = v3'
  BY <1>20, MarksSaved DEF Rss!MarksAreSaved
<1>. USE DEF Rss!AddedStaysMarked, Rss!MarkedWasHanded, Rss!MarksAreSaved, Rss!Handing
<1>1. ASSUME NEW url \in Urls, Rss!AddFeed(url)
      PROVE  (Rss!AddedStaysMarked /\ Rss!MarkedWasHanded /\ Rss!MarksAreSaved)'
  BY <1>0, <1>1 DEF Rss!AddFeed
<1>2. ASSUME NEW url \in Urls, Rss!CheckAnswers(url)
      PROVE  (Rss!AddedStaysMarked /\ Rss!MarkedWasHanded /\ Rss!MarksAreSaved)'
  <2>1. CASE Rss!RowOf(url) = 0
    BY <1>0, <1>2, <2>1 DEF Rss!CheckAnswers
  <2>2. CASE Rss!RowOf(url) # 0
    <3>. DEFINE new == Rss!Matching(Rss!RowOf(url), url)
    <3>. HIDE DEF new
    <3>1. /\ v3' = v3 \cup new /\ v4' \in Rss!Kept(v3)' /\ v10' = v10
          /\ v9' = v9 \cup (new \cap Magnets) /\ v6' = v6 \cup (new \ Magnets)
      BY <1>2, <2>2, Zenon DEF Rss!CheckAnswers, new
    <3>. QED BY <1>0, <1>21, <3>1
  <2>. QED BY <2>1, <2>2
<1>3. ASSUME NEW url \in Urls, Rss!CheckFails(url)
      PROVE  (Rss!AddedStaysMarked /\ Rss!MarkedWasHanded /\ Rss!MarksAreSaved)'
  BY <1>0, <1>3 DEF Rss!CheckFails
<1>4. ASSUME NEW url \in Urls, Rss!IntervalPasses(url)
      PROVE  (Rss!AddedStaysMarked /\ Rss!MarkedWasHanded /\ Rss!MarksAreSaved)'
  BY <1>0, <1>4 DEF Rss!IntervalPasses
<1>5. ASSUME NEW i \in DOMAIN v1, Rss!RemoveFeed(i)
      PROVE  (Rss!AddedStaysMarked /\ Rss!MarkedWasHanded /\ Rss!MarksAreSaved)'
  <2>1. v3' = v3 /\ v4' \in Rss!Kept(v3)' /\ UNCHANGED <<v6, v9, v10>>
    BY <1>5 DEF Rss!RemoveFeed
  <2>. QED BY <1>0, <1>21, <2>1
<1>6. ASSUME NEW i \in DOMAIN v1, Rss!CheckFeed(i)
      PROVE  (Rss!AddedStaysMarked /\ Rss!MarkedWasHanded /\ Rss!MarksAreSaved)'
  BY <1>0, <1>6 DEF Rss!CheckFeed
<1>7. ASSUME NEW i \in DOMAIN v1, NEW enabled \in BOOLEAN, NEW auto \in BOOLEAN, Rss!UpdateFeed(i, enabled, auto)
      PROVE  (Rss!AddedStaysMarked /\ Rss!MarkedWasHanded /\ Rss!MarksAreSaved)'
  <2>1. v3' = v3 /\ v4' \in Rss!Kept(v3)' /\ UNCHANGED <<v6, v9, v10>>
    BY <1>7 DEF Rss!UpdateFeed
  <2>. QED BY <1>0, <1>21, <2>1
<1>8. ASSUME NEW i \in DOMAIN v1, NEW x \in v2[i], Rss!DownloadItem(i, x)
      PROVE  (Rss!AddedStaysMarked /\ Rss!MarkedWasHanded /\ Rss!MarksAreSaved)'
  <2>1. /\ v3' = v3 \cup {x.link} /\ v4' \in Rss!Kept(v3)' /\ v10' = v10
        /\ v9' = v9 \cup ({x.link} \cap Magnets) /\ v6' = v6 \cup ({x.link} \ Magnets)
    BY <1>8 DEF Rss!DownloadItem
  <2>. QED BY <1>0, <1>21, <2>1
<1>9. ASSUME NEW l \in Links, NEW good \in BOOLEAN, Rss!FetchEnds(l, good)
      PROVE  (Rss!AddedStaysMarked /\ Rss!MarkedWasHanded /\ Rss!MarksAreSaved)'
  BY <1>0, <1>9 DEF Rss!FetchEnds
<1>10. CASE Rss!CheckAllFeeds
  BY <1>0, <1>10 DEF Rss!CheckAllFeeds
<1>11. CASE Rss!Restart
  BY <1>0, <1>11 DEF Rss!Restart
<1>. QED BY <1>1, <1>2, <1>3, <1>4, <1>5, <1>6, <1>7, <1>8, <1>9, <1>10, <1>11
     DEF Rss!Next

\* Every step keeps account of the feeds that were asked within their interval.
LEMMA FeedsAsked ==
  ASSUME Rss!FeedsInv, Rss!TypeOK', Rss!Next
  PROVE  Rss!AskedIsAccountedFor'
<1>0. /\ \A u \in v8 : (\E i \in DOMAIN v1 : v1[i].url = u) /\ u \in v7 \cup v5 \cup v11
      /\ v1 \in Seq([url : Urls, enabled : BOOLEAN, auto : BOOLEAN])
      /\ DOMAIN v1 = 1 .. Len(v1) /\ Len(v1) \in Nat /\ Rss!TypeOK
  BY DEF Rss!FeedsInv, Rss!FeedsHold, Rss!TypeOK, Rss!AskedIsAccountedFor
<1>. USE DEF Rss!AskedIsAccountedFor, Rss!CheckFeeds
<1>1. ASSUME NEW url \in Urls, Rss!AddFeed(url)
      PROVE  Rss!AskedIsAccountedFor'
  <2>1. v1' = Append(v1, [url |-> url, enabled |-> TRUE, auto |-> FALSE])
    BY <1>1 DEF Rss!AddFeed
  <2>2. /\ DOMAIN v1' = 1 .. Len(v1) + 1 /\ v1'[Len(v1) + 1].url = url
        /\ \A j \in 1 .. Len(v1) : v1'[j] = v1[j]
    BY <1>0, <2>1
  <2>3. Len(v1) + 1 \in 1 .. Len(v1) + 1 /\ 1 .. Len(v1) \subseteq 1 .. Len(v1) + 1
    BY <1>0
  <2>. QED BY <1>0, <1>1, <2>2, <2>3 DEF Rss!AddFeed
<1>2. ASSUME NEW url \in Urls, Rss!CheckAnswers(url)
      PROVE  Rss!AskedIsAccountedFor'
  <2>1. CASE Rss!RowOf(url) = 0
    <3>1. url \notin v8
      BY <1>0, <2>1, RowOfFeed
    <3>. QED BY <1>0, <1>2, <2>1, <3>1 DEF Rss!CheckAnswers
  <2>2. CASE Rss!RowOf(url) # 0
    <3>1. v7' = v7 \cup {url} /\ v5' = v5 \ {url} /\ UNCHANGED <<v1, v8, v11>>
      BY <1>2, <2>2, Zenon DEF Rss!CheckAnswers, Rss!Stamped
    <3>. QED BY <1>0, <3>1
  <2>. QED BY <2>1, <2>2
<1>3. ASSUME NEW url \in Urls, Rss!CheckFails(url)
      PROVE  Rss!AskedIsAccountedFor'
  BY <1>0, <1>3 DEF Rss!CheckFails
<1>4. ASSUME NEW url \in Urls, Rss!IntervalPasses(url)
      PROVE  Rss!AskedIsAccountedFor'
  BY <1>0, <1>4 DEF Rss!IntervalPasses
<1>5. ASSUME NEW i \in DOMAIN v1, Rss!RemoveFeed(i)
      PROVE  Rss!AskedIsAccountedFor'
  <2>1. v1' = SubSeq(v1, 1, i - 1) \o SubSeq(v1, i + 1, Len(v1))
    BY <1>5 DEF Rss!RemoveFeed
  <2>2. \A k \in DOMAIN v1 : k # i => \E j \in DOMAIN v1' : v1'[j] = v1[k]
    BY <1>0, <2>1, RowRemoved
  <2>3. /\ v8' = v8 \ {v1[i].url} /\ v7' = v7 \ {v1[i].url} /\ v11' = v11 \ {v1[i].url} /\ v5' = v5
    BY <1>5 DEF Rss!RemoveFeed
  <2>. QED BY <1>0, <2>2, <2>3
<1>6. ASSUME NEW i \in DOMAIN v1, Rss!CheckFeed(i)
      PROVE  Rss!AskedIsAccountedFor'
  BY <1>0, <1>6 DEF Rss!CheckFeed
<1>7. ASSUME NEW i \in DOMAIN v1, NEW enabled \in BOOLEAN, NEW auto \in BOOLEAN, Rss!UpdateFeed(i, enabled, auto)
      PROVE  Rss!AskedIsAccountedFor'
  <2>1. DOMAIN v1' = DOMAIN v1 /\ \A j \in DOMAIN v1 : v1'[j].url = v1[j].url
    BY <1>0, <1>7 DEF Rss!UpdateFeed
  <2>. QED BY <1>0, <1>7, <2>1 DEF Rss!UpdateFeed
<1>8. ASSUME NEW i \in DOMAIN v1, NEW x \in v2[i], Rss!DownloadItem(i, x)
      PROVE  Rss!AskedIsAccountedFor'
  BY <1>0, <1>8 DEF Rss!DownloadItem
<1>9. ASSUME NEW l \in Links, NEW good \in BOOLEAN, Rss!FetchEnds(l, good)
      PROVE  Rss!AskedIsAccountedFor'
  BY <1>0, <1>9 DEF Rss!FetchEnds
<1>10. CASE Rss!CheckAllFeeds
  BY <1>0, <1>10 DEF Rss!CheckAllFeeds
<1>11. CASE Rss!Restart
  BY <1>0, <1>11 DEF Rss!Restart
<1>. QED BY <1>1, <1>2, <1>3, <1>4, <1>5, <1>6, <1>7, <1>8, <1>9, <1>10, <1>11
     DEF Rss!Next

\* So the timer asks none of them again unless its check failed.
LEMMA FeedsTimer ==
  ASSUME Rss!FeedsInv
  PROVE  Rss!TimerHonoursIntervals
BY DEF Rss!FeedsInv, Rss!AskedIsAccountedFor, Rss!TimerHonoursIntervals, Rss!CheckAllFeeds,
  Rss!CheckFeeds

\* The items of a row are of that row's feed, what was added stays marked over a
\* restart, a marked link was handed over unless its fetch failed, and the timer
\* honours the interval of each feed (RssManager), as long as no more links were
\* downloaded than the settings keep.
THEOREM FeedsSound == Spec => FeedsAreSound
<1>. DEFINE Inv == part = "rss" => Rss!FeedsInv
<1>1. Init => Inv
  BY FeedsInit DEF Init
<1>2. Inv /\ [Next]_vars => Inv'
  <2>. SUFFICES ASSUME Inv, [Next]_vars, part' = "rss"
                PROVE  Rss!FeedsInv'
    OBVIOUS
  <2>1. part = "rss" /\ Rss!FeedsInv
    BY PartStays
  <2>2. CASE Rss!Next
    BY <2>1, <2>2, FeedsTypes, FeedsItems, FeedsMarks, FeedsAsked DEF Rss!FeedsInv, Rss!FeedsHold
  <2>3. CASE UNCHANGED vars
    BY <2>1, <2>3 DEF vars, Rss!FeedsInv, Rss!FeedsHold, Rss!TypeOK, Rss!ItemsAreTheFeeds,
      Rss!AddedStaysMarked, Rss!MarkedWasHanded, Rss!MarksAreSaved, Rss!AskedIsAccountedFor
  <2>. QED BY <2>1, <2>2, <2>3 DEF Next
<1>3. Inv => (part = "rss" => Rss!FeedsHold)
  BY DEF Rss!FeedsInv
<1>4. Inv => [part = "rss" => Rss!TimerHonoursIntervals]_vars
  BY FeedsTimer
<1>. QED BY <1>1, <1>2, <1>3, <1>4, PTL DEF Spec, FeedsAreSound

-----------------------------------------------------------------------------
(* StagedAdds: v1 entry, v2 news, v3 staged, v4 rows, v5 torrent, v6 alert,
   v7 saved, v8 choice *)

\* A step about one hash leaves the others as they are,
OtherHashesSame(h) ==
  \A g \in Waiting : g # h =>
    /\ v1'[g] = v1[g] /\ v4'[g] = v4[g] /\ v5'[g] = v5[g] /\ v7'[g] = v7[g] /\ v8'[g] = v8[g]
    /\ g \in v2' <=> g \in v2
    /\ g \in v3' <=> g \in v3
    /\ g \in v6' <=> g \in v6

\* ...and keeps the invariant when it keeps that hash's share of it.
LEMMA OneHash ==
  ASSUME NEW h \in Waiting, \A g \in Waiting : Staging!HashInv(g),
         OtherHashesSame(h), Staging!HashInv(h)'
  PROVE  \A g \in Waiting : Staging!HashInv(g)'
<1>1. ASSUME NEW g \in Waiting, g # h PROVE Staging!HashInv(g)'
  <2>1. /\ v1'[g] = v1[g] /\ v4'[g] = v4[g] /\ v5'[g] = v5[g] /\ v7'[g] = v7[g] /\ v8'[g] = v8[g]
        /\ g \in v2' <=> g \in v2
        /\ g \in v3' <=> g \in v3
        /\ g \in v6' <=> g \in v6
    BY <1>1 DEF OtherHashesSame
  <2>2. Staging!HashInv(g)
    OBVIOUS
  <2>. QED BY <2>1, <2>2 DEF Staging!HashInv, Staging!EntryIsStaged, Staging!NewsAreTrue,
       Staging!AddedIsSaved,
         Staging!IsAsChosen, Staging!IsHandled, Staging!Live, Staging!Valid
<1>. QED BY <1>1

\* At the first launch nothing waits and nothing is listed.
LEMMA WindowInit ==
  ASSUME Staging!Init
  PROVE  Staging!WindowInv
<1>. USE RowsAssumption DEF Staging!Init
<1>1. Staging!TypeOK
  <2>1. 0 \in 0 .. MaxRows
    OBVIOUS
  <2>. QED BY <2>1 DEF Staging!TypeOK, Staging!NoTorrent, Staging!NoFile, Staging!File,
       Staging!NoChoice
<1>2. ASSUME NEW h \in Waiting PROVE Staging!HashInv(h)
  BY DEF Staging!HashInv, Staging!EntryIsStaged, Staging!NewsAreTrue, Staging!AddedIsSaved,
         Staging!IsAsChosen, Staging!IsHandled, Staging!Live, Staging!Valid, Staging!NoTorrent,
         Staging!NoFile, Staging!File, Staging!NoChoice
<1>. QED BY <1>1, <1>2 DEF Staging!WindowInv

\* What is kept of each hash is what the window promises.
LEMMA WindowPromises ==
  ASSUME Staging!WindowInv
  PROVE  Staging!WindowIsHonest
<1>1. ASSUME NEW h \in Waiting
      PROVE  /\ Staging!IsAsChosen(h) /\ Staging!IsHandled(h)
             /\ ~v8[h].added => v4[h] = 0 /\ v7[h].what = "no" /\ (Staging!Live(h) => v5[h].upload)
             /\ Staging!Live(h) => v4[h] > 0 \/ (h \in v3 /\ v1[h] # "none")
  <2>1. v4[h] \in Nat
    BY RowsAssumption DEF Staging!WindowInv, Staging!TypeOK
  <2>2. Staging!HashInv(h)
    BY DEF Staging!WindowInv
  <2>3. Staging!Live(h) => v4[h] > 0 \/ (h \in v3 /\ v1[h] # "none")
    BY <2>1, <2>2 DEF Staging!HashInv, Staging!EntryIsStaged, Staging!AddedIsSaved
  <2>4. ~v8[h].added => v4[h] = 0 /\ v7[h].what = "no"
    BY <2>1, <2>2 DEF Staging!HashInv, Staging!AddedIsSaved
  <2>5. ~v8[h].added => (Staging!Live(h) => v5[h].upload)
    BY <2>2, <2>4 DEF Staging!HashInv, Staging!EntryIsStaged, Staging!AddedIsSaved
  <2>. QED BY <2>2, <2>3, <2>4, <2>5 DEF Staging!HashInv
<1>. QED BY <1>1 DEF Staging!WindowIsHonest, Staging!AddedAsChosen, Staging!MetadataIsHandled,
       Staging!WaitingLeavesNoTrace, Staging!NothingIsLeftBehind, Staging!WindowInv

\* Every step keeps the types.
LEMMA WindowTypes ==
  ASSUME Staging!WindowInv, Staging!Next
  PROVE  Staging!TypeOK'
<1>. DEFINE Torrent == [state : {"none", "live", "dying"}, upload : BOOLEAN,
                        meta : BOOLEAN, paused : BOOLEAN, some : BOOLEAN]
            File == [what : {"no", "magnet", "full"}, paused : BOOLEAN]
            Choice == [added : BOOLEAN, paused : BOOLEAN, some : BOOLEAN, now : BOOLEAN]
<1>0. /\ v1 \in [Waiting -> {"none", "fetching", "ready", "dup"}]
      /\ v2 \subseteq Waiting /\ v3 \subseteq Waiting /\ v6 \subseteq Waiting
      /\ v4 \in [Waiting -> 0 .. MaxRows] /\ v5 \in [Waiting -> Torrent]
      /\ v7 \in [Waiting -> File] /\ v8 \in [Waiting -> Choice]
  BY DEF Staging!WindowInv, Staging!TypeOK
<1>n. Staging!NoTorrent \in Torrent /\ Staging!NoFile \in File /\ Staging!NoChoice \in Choice
      /\ \A s \in {"magnet", "full"}, p \in BOOLEAN : Staging!File(s, p) \in File
  BY DEF Staging!NoTorrent, Staging!NoFile, Staging!File, Staging!NoChoice
<1>d. \A h \in Waiting : Staging!Dropped(h) \in Torrent
  BY <1>0 DEF Staging!Dropped
<1>a. \A h \in Waiting, upload \in BOOLEAN : Staging!Added(h, upload) \in Torrent
  BY <1>0, <1>n DEF Staging!Added, Staging!NoTorrent
<1>m. \A h \in Waiting, p \in BOOLEAN : v4[h] < MaxRows /\ Staging!AddMagnetWith(h, p) =>
        v4' \in [Waiting -> 0 .. MaxRows] /\ v5' \in [Waiting -> Torrent] /\ v7' \in [Waiting -> File]
  <2>. SUFFICES ASSUME NEW h \in Waiting, NEW p \in BOOLEAN, v4[h] < MaxRows,
       Staging!AddMagnetWith(h, p)
                PROVE  v4' \in [Waiting -> 0 .. MaxRows] /\ v5' \in [Waiting -> Torrent] /\ v7' \in [Waiting -> File]
    OBVIOUS
  <2>1. CASE Staging!IsDuplicate(h)
    BY <1>0, <2>1 DEF Staging!AddMagnetWith
  <2>2. CASE ~Staging!IsDuplicate(h)
    <3>1. v5' = [v5 EXCEPT ![h] = [Staging!Added(h,
         FALSE) EXCEPT !.paused = p]] /\ v4' = [v4 EXCEPT ![h] = @ + 1]
          /\ v7' = [v7 EXCEPT ![h] = Staging!File("magnet", p)]
      BY <2>2 DEF Staging!AddMagnetWith, Staging!Listed
    <3>2. [Staging!Added(h, FALSE) EXCEPT !.paused = p] \in Torrent
      BY <1>a
    <3>3. v4[h] + 1 \in 0 .. MaxRows
      BY <1>0, RowsAssumption
    <3>. QED BY <1>0, <1>n, <3>1, <3>2, <3>3
  <2>. QED BY <2>1, <2>2
<1>. HIDE DEF Torrent, File, Choice
<1>1. ASSUME NEW h \in Waiting, Staging!Dies(h) PROVE Staging!TypeOK'
  BY <1>0, <1>1, <1>n DEF Staging!Dies, Staging!TypeOK, Torrent, File, Choice
<1>2. ASSUME NEW h \in Waiting, Staging!MetadataArrives(h) PROVE Staging!TypeOK'
  <2>1. [v5[h] EXCEPT !.meta = TRUE] \in Torrent
    BY <1>0 DEF Torrent
  <2>2. v5' = [v5 EXCEPT ![h] = [v5[h] EXCEPT !.meta = TRUE]]
    BY <1>0, <1>2 DEF Staging!MetadataArrives
  <2>3. v5' \in [Waiting -> Torrent]
    BY <1>0, <2>1, <2>2
  <2>. QED BY <1>0, <1>2, <2>3 DEF Staging!MetadataArrives, Staging!TypeOK, Torrent, File, Choice
<1>3. ASSUME NEW h \in Waiting, Staging!OnMetadataAlert(h) PROVE Staging!TypeOK'
  <2>1. v5[h].paused \in BOOLEAN
    BY <1>0 DEF Torrent
  <2>. QED BY <1>0, <1>3, <1>n, <2>1 DEF Staging!OnMetadataAlert, Staging!TypeOK, Torrent, File,
       Choice
<1>4. ASSUME NEW h \in Waiting, Staging!OnStagedPreview(h) PROVE Staging!TypeOK'
  BY <1>0, <1>4 DEF Staging!OnStagedPreview, Staging!TypeOK, Torrent, File, Choice
<1>5. ASSUME NEW h \in Waiting, Staging!Enter(h) PROVE Staging!TypeOK'
  <2>1. v5' \in [Waiting -> Torrent] /\ v3' \subseteq Waiting /\ v2' \subseteq Waiting
    BY <1>0, <1>5, <1>a DEF Staging!Enter, Staging!StageMagnet
  <2>2. v1' \in [Waiting -> {"none", "fetching", "ready", "dup"}] /\ UNCHANGED <<v4, v6, v7, v8>>
    BY <1>0, <1>5 DEF Staging!Enter
  <2>. QED BY <1>0, <2>1, <2>2 DEF Staging!TypeOK, Torrent, File, Choice
<1>6. ASSUME NEW h \in Waiting, Staging!Leave(h) PROVE Staging!TypeOK'
  BY <1>0, <1>6, <1>d DEF Staging!Leave, Staging!DiscardStaged, Staging!TypeOK, Torrent, File,
       Choice
<1>7. ASSUME NEW h \in Waiting, Staging!Commit(h) PROVE Staging!TypeOK'
  <2>1. PICK opts \in Staging!Choices :
          /\ v4[h] < MaxRows /\ v1' = [v1 EXCEPT ![h] = "none"]
          /\ Staging!CommitStaged(h, opts) /\ v8' = [v8 EXCEPT ![h] = opts] /\ UNCHANGED <<v2, v6>>
    BY <1>7 DEF Staging!Commit
  <2>2. opts \in Choice /\ opts.paused \in BOOLEAN /\ opts.some \in BOOLEAN
    BY DEF Staging!Choices, Choice
  <2>3. v4' \in [Waiting -> 0 .. MaxRows] /\ v5' \in [Waiting -> Torrent] /\ v7' \in [Waiting -> File] /\ v3' \subseteq Waiting
    <3>1. CASE h \notin v3
      BY <1>0, <2>1, <3>1 DEF Staging!CommitStaged
    <3>2. CASE h \in v3 /\ Staging!Valid(h)
      <4>1. Staging!Promote(h, opts) /\ v3' = v3 \ {h}
        BY <2>1, <3>2 DEF Staging!CommitStaged
      <4>2. v4[h] + 1 \in 0 .. MaxRows
        BY <1>0, <2>1, RowsAssumption
      <4>3. /\ v5' = [v5 EXCEPT ![h] = [v5[h] EXCEPT !.upload = FALSE, !.paused = opts.paused,
                                                   !.some = v5[h].meta /\ opts.some]]
            /\ (v5[h].meta /\ opts.some) \in BOOLEAN
        BY <1>0, <4>1 DEF Staging!Promote
      <4>4. [v5[h] EXCEPT !.upload = FALSE, !.paused = opts.paused,
                          !.some = v5[h].meta /\ opts.some] \in Torrent
        <5>1. v5[h] \in Torrent
          BY <1>0
        <5>. DEFINE some == v5[h].meta /\ opts.some
        <5>2. some \in BOOLEAN
          OBVIOUS
        <5>. HIDE DEF some
        <5>3. [v5[h] EXCEPT !.upload = FALSE, !.paused = opts.paused, !.some = some] \in Torrent
          BY <2>2, <5>1, <5>2 DEF Torrent
        <5>. QED BY <5>3 DEF some
      <4>5. v5' \in [Waiting -> Torrent]
        BY <1>0, <4>3, <4>4
      <4>6. v7' \in [Waiting -> File]
        BY <1>0, <1>n, <2>2, <4>1 DEF Staging!Promote
      <4>. QED BY <1>0, <4>1, <4>2, <4>5, <4>6 DEF Staging!Promote, Staging!Listed
    <3>3. CASE h \in v3 /\ ~Staging!Valid(h)
      BY <1>0, <1>m, <2>1, <2>2, <3>3 DEF Staging!CommitStaged
    <3>. QED BY <3>1, <3>2, <3>3
  <2>. QED BY <1>0, <2>1, <2>2, <2>3 DEF Staging!TypeOK, Torrent, File, Choice
<1>8. ASSUME NEW h \in Waiting, Staging!AddMagnet(h) PROVE Staging!TypeOK'
  <2>1. v4' \in [Waiting -> 0 .. MaxRows] /\ v5' \in [Waiting -> Torrent] /\ v7' \in [Waiting -> File]
    BY <1>8, <1>m DEF Staging!AddMagnet
  <2>2. v8' \in [Waiting -> Choice]
    BY <1>0, <1>8, <1>n DEF Staging!AddMagnet, Choice
  <2>. QED BY <1>0, <1>8, <2>1, <2>2 DEF Staging!AddMagnet, Staging!TypeOK, Torrent, File, Choice
<1>9. ASSUME NEW h \in Waiting, Staging!RemoveTorrent(h) PROVE Staging!TypeOK'
  <2>1. v4[h] - 1 \in 0 .. MaxRows
    BY <1>0, <1>9, RowsAssumption DEF Staging!RemoveTorrent
  <2>. QED BY <1>0, <1>9, <1>n, <1>d, <2>1 DEF Staging!RemoveTorrent, Staging!TypeOK, Torrent,
       File, Choice
<1>10. CASE Staging!Restart
  <2>1. v1' \in [Waiting -> {"none", "fetching", "ready", "dup"}]
    BY <1>0, <1>10 DEF Staging!Restart
  <2>2. v4' \in [Waiting -> 0 .. MaxRows]
    <3>1. 0 \in 0 .. MaxRows /\ 1 \in 0 .. MaxRows
      BY RowsAssumption
    <3>. QED BY <1>10, <3>1 DEF Staging!Restart
  <2>3. v5' \in [Waiting -> Torrent]
    BY <1>0, <1>10, <1>n DEF Staging!Restart, Torrent, File
  <2>4. v8' \in [Waiting -> Choice]
    BY <1>0, <1>10 DEF Staging!Restart, Choice
  <2>. QED BY <1>0, <1>10, <2>1, <2>2, <2>3, <2>4 DEF Staging!Restart, Staging!TypeOK, Torrent,
       File, Choice
<1>. QED BY <1>1, <1>2, <1>3, <1>4, <1>5, <1>6, <1>7, <1>8, <1>9, <1>10 DEF Staging!Next

\* Every step about a hash leaves the others, and keeps that hash's share.
LEMMA HashSteps ==
  ASSUME Staging!WindowInv, NEW h \in Waiting,
         \/ Staging!Dies(h) \/ Staging!MetadataArrives(h) \/ Staging!OnMetadataAlert(h)
         \/ Staging!OnStagedPreview(h) \/ Staging!Enter(h) \/ Staging!Leave(h) \/ Staging!Commit(h)
         \/ Staging!AddMagnet(h) \/ Staging!RemoveTorrent(h)
  PROVE  OtherHashesSame(h) /\ Staging!HashInv(h)'
<1>0. /\ v1 \in [Waiting -> {"none", "fetching", "ready", "dup"}]
      /\ v2 \subseteq Waiting /\ v3 \subseteq Waiting /\ v6 \subseteq Waiting
      /\ v4 \in [Waiting -> 0 .. MaxRows] /\ v4[h] \in Nat
      /\ v5 \in [Waiting -> [state : {"none", "live", "dying"}, upload : BOOLEAN,
                             meta : BOOLEAN, paused : BOOLEAN, some : BOOLEAN]]
      /\ v7 \in [Waiting -> [what : {"no", "magnet", "full"}, paused : BOOLEAN]]
      /\ v8 \in [Waiting -> [added : BOOLEAN, paused : BOOLEAN, some : BOOLEAN, now : BOOLEAN]]
  BY RowsAssumption DEF Staging!WindowInv, Staging!TypeOK
<1>i. /\ v1[h] \in {"fetching", "ready"} <=> h \in v3
      /\ h \in v3 => v5[h].state = "live" /\ v5[h].upload /\ v4[h] = 0
      /\ h \in v6 \/ v1[h] = "ready" => v5[h].meta
      /\ v5[h].meta => v5[h].state # "none"
      /\ h \in v2 => v4[h] = 0 /\ v1[h] # "dup" /\ (v1[h] # "none" => v5[h].meta)
      /\ v4[h] <= 1
      /\ v8[h].added <=> v4[h] = 1
      /\ v7[h].what # "no" <=> v4[h] = 1
      /\ v5[h].state = "live" /\ v4[h] = 0 => h \in v3
      /\ v8[h].added => v5[h].state = "live" /\ ~v5[h].upload /\
           (v8[h].now => v5[h].paused = v8[h].paused /\ v5[h].some = v8[h].some)
      /\ v4[h] > 0 /\ v5[h].meta /\ h \notin v6 => v7[h].what = "full"
  BY DEF Staging!WindowInv, Staging!HashInv, Staging!EntryIsStaged, Staging!NewsAreTrue,
       Staging!AddedIsSaved,
         Staging!IsAsChosen, Staging!IsHandled, Staging!Live, Staging!Valid
<1>. USE DEF OtherHashesSame
<1>1. CASE Staging!Dies(h)
  <2>1. OtherHashesSame(h)
    BY <1>0, <1>1 DEF Staging!Dies, Staging!NoTorrent
  <2>2. Staging!HashInv(h)'
    BY <1>0, <1>i, <1>1 DEF Staging!Dies, Staging!NoTorrent, Staging!HashInv, Staging!EntryIsStaged,
         Staging!NewsAreTrue, Staging!AddedIsSaved, Staging!IsAsChosen, Staging!IsHandled,
              Staging!Live, Staging!Valid
  <2>. QED BY <2>1, <2>2
<1>2. CASE Staging!MetadataArrives(h)
  <2>1. OtherHashesSame(h)
    BY <1>0, <1>2 DEF Staging!MetadataArrives, Staging!Live
  <2>2. Staging!HashInv(h)'
    BY <1>0, <1>i, <1>2 DEF Staging!MetadataArrives, Staging!Live, Staging!HashInv,
         Staging!EntryIsStaged,
         Staging!NewsAreTrue, Staging!AddedIsSaved, Staging!IsAsChosen, Staging!IsHandled,
              Staging!Live, Staging!Valid
  <2>. QED BY <2>1, <2>2
<1>3. CASE Staging!OnMetadataAlert(h)
  <2>1. OtherHashesSame(h)
    BY <1>0, <1>3 DEF Staging!OnMetadataAlert, Staging!Live, Staging!Valid, Staging!File
  <2>2. /\ UNCHANGED <<v1, v3, v4, v5, v8>> /\ h \in v6 /\ h \notin v6'
        /\ h \in v2' <=> h \in v2 \/ (h \in v3 /\ v5[h].state # "none")
        /\ h \in v3 \/ v5[h].state # "live" => v7'[h] = v7[h]
        /\ h \notin v3 /\ v5[h].state = "live" => v7'[h].what = "full"
    BY <1>0, <1>3 DEF Staging!OnMetadataAlert, Staging!Live, Staging!Valid, Staging!File
  <2>3. /\ v7'[h].what # "no" <=> v4[h] = 1
        /\ v4[h] > 0 => v7'[h].what = "full"
    <3>1. v4[h] = 0 \/ v4[h] = 1
      BY <1>0, <1>i
    <3>2. CASE v4[h] = 0
      <4>1. v7'[h] = v7[h]
        BY <1>i, <2>2, <3>2
      <4>. QED BY <1>i, <3>2, <4>1
    <3>3. CASE v4[h] = 1
      <4>1. h \notin v3 /\ v5[h].state = "live"
        BY <1>i, <3>3
      <4>. QED BY <2>2, <3>3, <4>1
    <3>. QED BY <3>1, <3>2, <3>3
  <2>4. h \in v2' => v4[h] = 0 /\ v1[h] # "dup" /\ (v1[h] # "none" => v5[h].meta)
    BY <1>0, <1>i, <2>2
  <2>5. Staging!HashInv(h)'
    BY <1>i, <2>2, <2>3, <2>4 DEF Staging!HashInv, Staging!EntryIsStaged, Staging!NewsAreTrue,
         Staging!AddedIsSaved,
         Staging!IsAsChosen, Staging!IsHandled, Staging!Live, Staging!Valid
  <2>. QED BY <2>1, <2>5
<1>4. CASE Staging!OnStagedPreview(h)
  <2>1. OtherHashesSame(h)
    BY <1>0, <1>4 DEF Staging!OnStagedPreview
  <2>2. Staging!HashInv(h)'
    BY <1>0, <1>i, <1>4 DEF Staging!OnStagedPreview, Staging!HashInv, Staging!EntryIsStaged,
         Staging!NewsAreTrue, Staging!AddedIsSaved, Staging!IsAsChosen, Staging!IsHandled,
              Staging!Live, Staging!Valid
  <2>. QED BY <2>1, <2>2
<1>5. CASE Staging!Enter(h)
  <2>0. /\ v1[h] = "none" /\ v5[h].state # "dying" /\ h \notin v2 /\ h \notin v3
        /\ v1' = [v1 EXCEPT ![h] = IF v4[h] > 0 THEN "dup" ELSE "fetching"]
        /\ IF v4[h] > 0 THEN UNCHANGED <<v3, v5, v2>> ELSE Staging!StageMagnet(h)
        /\ UNCHANGED <<v4, v6, v7, v8>>
    BY <1>5, <1>i DEF Staging!Enter, Staging!Settled
  <2>1. CASE v4[h] > 0
    <3>1. OtherHashesSame(h) /\ v1'[h] = "dup" /\ UNCHANGED <<v2, v3, v4, v5, v6, v7, v8>>
      BY <1>0, <2>0, <2>1
    <3>2. Staging!HashInv(h)'
      BY <1>i, <2>0, <3>1 DEF Staging!HashInv, Staging!EntryIsStaged, Staging!NewsAreTrue,
           Staging!AddedIsSaved,
         Staging!IsAsChosen, Staging!IsHandled, Staging!Live, Staging!Valid
    <3>. QED BY <3>1, <3>2
  <2>2. CASE ~(v4[h] > 0)
    <3>1. v4[h] = 0 /\ v5[h].state = "none" /\ ~v5[h].meta /\ h \notin v6 /\ ~v8[h].added /\ v7[h].what = "no"
      <4>1. v4[h] = 0
        BY <1>0, <2>2
      <4>2. v5[h].state \in {"none", "live", "dying"}
        BY <1>0
      <4>. QED BY <1>i, <2>0, <4>1, <4>2
    <3>2. /\ v3' = v3 \cup {h} /\ v2' = v2
          /\ v5' = [v5 EXCEPT ![h] = [Staging!NoTorrent EXCEPT !.state = "live", !.upload = TRUE]]
      BY <2>0, <2>2, <3>1 DEF Staging!StageMagnet, Staging!IsDuplicate, Staging!Added, Staging!Valid
    <3>3. OtherHashesSame(h)
      BY <1>0, <2>0, <3>2
    <3>4. v1'[h] = "fetching" /\ h \in v3' /\ v5'[h].state = "live" /\ v5'[h].upload /\ ~v5'[h].meta
      BY <1>0, <2>0, <2>2, <3>2 DEF Staging!NoTorrent
    <3>5. Staging!HashInv(h)'
      BY <2>0, <3>1, <3>2, <3>4 DEF Staging!HashInv, Staging!EntryIsStaged, Staging!NewsAreTrue,
           Staging!AddedIsSaved,
         Staging!IsAsChosen, Staging!IsHandled, Staging!Live, Staging!Valid
    <3>. QED BY <3>3, <3>5
  <2>. QED BY <2>1, <2>2
<1>6. CASE Staging!Leave(h)
  <2>1. OtherHashesSame(h)
    BY <1>0, <1>6 DEF Staging!Leave, Staging!DiscardStaged, Staging!Dropped
  <2>2. Staging!HashInv(h)'
    BY <1>0, <1>i, <1>6 DEF Staging!Leave, Staging!DiscardStaged, Staging!Dropped, Staging!HashInv,
         Staging!EntryIsStaged,
         Staging!NewsAreTrue, Staging!AddedIsSaved, Staging!IsAsChosen, Staging!IsHandled,
              Staging!Live, Staging!Valid
  <2>. QED BY <2>1, <2>2
<1>7. CASE Staging!Commit(h)
  <2>1. PICK opts \in Staging!Choices :
          /\ v1[h] \in {"fetching", "ready"} /\ h \notin v2 /\ v1' = [v1 EXCEPT ![h] = "none"]
          /\ opts.some => v1[h] = "ready"
          /\ Staging!CommitStaged(h, opts) /\ v8' = [v8 EXCEPT ![h] = opts] /\ UNCHANGED <<v2, v6>>
    BY <1>7 DEF Staging!Commit, Staging!Settled
  <2>2. opts.added /\ opts.paused \in BOOLEAN /\ opts.some \in BOOLEAN
    BY DEF Staging!Choices
  <2>3. /\ h \in v3 /\ v4[h] = 0 /\ v5[h].state = "live" /\ v7[h].what = "no"
        /\ opts.some => v5[h].meta
    BY <1>0, <1>i, <2>1
  <2>4. Staging!Promote(h, opts) /\ v3' = v3 \ {h}
    BY <2>1, <2>3 DEF Staging!CommitStaged, Staging!Valid
  <2>5. /\ v4' = [v4 EXCEPT ![h] = @ + 1]
        /\ v5' = [v5 EXCEPT ![h] = [v5[h] EXCEPT !.upload = FALSE, !.paused = opts.paused,
                                                 !.some = v5[h].meta /\ opts.some]]
        /\ v7' = [v7 EXCEPT ![h] = IF ~v5[h].meta THEN Staging!File("magnet", TRUE)
                                                  ELSE Staging!File("full", opts.paused)]
    BY <1>0, <2>3, <2>4 DEF Staging!Promote, Staging!Listed, Staging!Live
  <2>6. OtherHashesSame(h)
    BY <1>0, <2>1, <2>4, <2>5
  <2>7. v1'[h] = "none" /\ v4'[h] = 1 /\ v8'[h] = opts /\ h \notin v3'
    BY <1>0, <2>1, <2>3, <2>4, <2>5
  <2>8. /\ v5'[h].state = "live" /\ v5'[h].upload = FALSE /\ v5'[h].meta = v5[h].meta
        /\ v5'[h].paused = opts.paused /\ v5'[h].some = (v5[h].meta /\ opts.some)
    BY <1>0, <2>3, <2>5
  <2>9. v5'[h].some = opts.some
    BY <2>2, <2>3, <2>8
  <2>10. v7'[h].what = IF v5[h].meta THEN "full" ELSE "magnet"
    BY <1>0, <2>5 DEF Staging!File
  <2>11. Staging!HashInv(h)'
    BY <1>i, <2>1, <2>2, <2>7, <2>8, <2>9, <2>10 DEF Staging!HashInv, Staging!EntryIsStaged,
         Staging!NewsAreTrue, Staging!AddedIsSaved,
         Staging!IsAsChosen, Staging!IsHandled, Staging!Live, Staging!Valid
  <2>. QED BY <2>6, <2>11
<1>8. CASE Staging!AddMagnet(h)
  <2>0. /\ v5[h].state # "dying" /\ h \notin v2 /\ h \notin v3
        /\ Staging!AddMagnetWith(h, FALSE)
        /\ v8' = IF Staging!IsDuplicate(h) THEN v8 ELSE [v8 EXCEPT ![h] = [Staging!NoChoice EXCEPT !.added = TRUE]]
        /\ UNCHANGED <<v1, v2, v3, v6>>
    BY <1>8 DEF Staging!AddMagnet, Staging!Settled
  <2>1. CASE Staging!IsDuplicate(h)
    <3>1. UNCHANGED <<v1, v2, v3, v4, v5, v6, v7, v8>>
      BY <2>0, <2>1 DEF Staging!AddMagnetWith
    <3>2. Staging!HashInv(h)'
      BY <1>i, <3>1 DEF Staging!HashInv, Staging!EntryIsStaged, Staging!NewsAreTrue,
           Staging!AddedIsSaved,
         Staging!IsAsChosen, Staging!IsHandled, Staging!Live, Staging!Valid
    <3>. QED BY <3>1, <3>2
  <2>2. CASE ~Staging!IsDuplicate(h)
    <3>1. v4[h] = 0 /\ v5[h].state = "none" /\ ~v5[h].meta /\ h \notin v6
      <4>1. v5[h].state \in {"none", "live", "dying"}
        BY <1>0
      <4>2. v4[h] = 0
        BY <1>0, <1>i, <2>2 DEF Staging!IsDuplicate, Staging!Valid
      <4>. QED BY <1>i, <2>0, <4>1, <4>2
    <3>2. /\ v4' = [v4 EXCEPT ![h] = @ + 1]
          /\ v5' = [v5 EXCEPT ![h] = [[Staging!NoTorrent EXCEPT !.state = "live", !.upload = FALSE]
                                        EXCEPT !.paused = FALSE]]
          /\ v7' = [v7 EXCEPT ![h] = Staging!File("magnet", FALSE)]
          /\ v8' = [v8 EXCEPT ![h] = [Staging!NoChoice EXCEPT !.added = TRUE]]
      BY <2>0, <2>2, <3>1 DEF Staging!AddMagnetWith, Staging!Listed, Staging!Added, Staging!Valid
    <3>3. OtherHashesSame(h)
      BY <1>0, <2>0, <3>2
    <3>4. v4'[h] = 1 /\ v7'[h].what = "magnet" /\ v8'[h].added /\ v8'[h].paused = FALSE /\ v8'[h].some = FALSE
      BY <1>0, <3>1, <3>2 DEF Staging!File, Staging!NoChoice
    <3>5. /\ v5'[h].state = "live" /\ v5'[h].upload = FALSE /\ v5'[h].meta = FALSE
          /\ v5'[h].paused = FALSE /\ v5'[h].some = FALSE
      BY <1>0, <3>2 DEF Staging!NoTorrent
    <3>6. v1[h] \notin {"fetching", "ready"}
      BY <1>i, <2>0
    <3>7. v1'[h] \notin {"fetching", "ready"} /\ h \notin v2' /\ h \notin v3' /\ h \notin v6'
      BY <2>0, <3>1, <3>6
    <3>8. Staging!EntryIsStaged(h)' /\ Staging!NewsAreTrue(h)'
      BY <3>5, <3>7 DEF Staging!EntryIsStaged, Staging!NewsAreTrue, Staging!Live, Staging!Valid
    <3>9. Staging!AddedIsSaved(h)'
      BY <3>4 DEF Staging!AddedIsSaved, Staging!Live
    <3>10. Staging!IsAsChosen(h)'
      BY <3>4, <3>5 DEF Staging!IsAsChosen, Staging!Live
    <3>11. Staging!IsHandled(h)'
      BY <3>5 DEF Staging!IsHandled
    <3>12. Staging!HashInv(h)'
      BY <3>8, <3>9, <3>10, <3>11 DEF Staging!HashInv
    <3>. QED BY <3>3, <3>12
  <2>. QED BY <2>1, <2>2
<1>9. CASE Staging!RemoveTorrent(h)
  <2>1. OtherHashesSame(h)
    BY <1>0, <1>9 DEF Staging!RemoveTorrent, Staging!Dropped, Staging!NoFile, Staging!File,
         Staging!NoChoice
  <2>2. Staging!HashInv(h)'
    BY <1>0, <1>i, <1>9 DEF Staging!RemoveTorrent, Staging!Dropped, Staging!NoFile, Staging!File,
         Staging!NoChoice, Staging!HashInv, Staging!EntryIsStaged,
         Staging!NewsAreTrue, Staging!AddedIsSaved, Staging!IsAsChosen, Staging!IsHandled,
              Staging!Live, Staging!Valid
  <2>. QED BY <2>1, <2>2
<1>. QED BY <1>1, <1>2, <1>3, <1>4, <1>5, <1>6, <1>7, <1>8, <1>9

\* What is saved is listed again, put in order or not, and nothing waits.
LEMMA WindowRestarts ==
  ASSUME Staging!WindowInv, Staging!Restart
  PROVE  \A h \in Waiting : Staging!HashInv(h)'
<1>. SUFFICES ASSUME NEW h \in Waiting PROVE Staging!HashInv(h)'
  OBVIOUS
<1>1. /\ v4[h] \in Nat /\ v7[h].what \in {"no", "magnet", "full"}
      /\ v8[h].added <=> v4[h] = 1
      /\ v7[h].what # "no" <=> v4[h] = 1
  BY RowsAssumption DEF Staging!WindowInv, Staging!TypeOK, Staging!HashInv, Staging!AddedIsSaved
<1>2. /\ v1'[h] = "none" /\ h \notin v2' /\ h \notin v3' /\ h \notin v6' /\ v7' = v7
      /\ v4'[h] = IF v7[h].what = "no" THEN 0 ELSE 1
  BY DEF Staging!Restart
<1>3. v8'[h].added = v8[h].added /\ v8'[h].now = FALSE
  BY DEF Staging!Restart, Staging!WindowInv, Staging!TypeOK
<1>4. /\ v5'[h].state = IF v7[h].what = "no" THEN "none" ELSE "live"
      /\ v5'[h].upload = FALSE /\ v5'[h].meta = (v7[h].what = "full")
  BY DEF Staging!Restart, Staging!NoTorrent
<1>5. Staging!EntryIsStaged(h)' /\ Staging!NewsAreTrue(h)'
  BY <1>2, <1>4 DEF Staging!EntryIsStaged, Staging!NewsAreTrue, Staging!Live, Staging!Valid
<1>6. Staging!AddedIsSaved(h)'
  BY <1>1, <1>2, <1>3, <1>4 DEF Staging!AddedIsSaved, Staging!Live
<1>7. Staging!IsAsChosen(h)'
  BY <1>1, <1>2, <1>3, <1>4 DEF Staging!IsAsChosen, Staging!Live
<1>8. Staging!IsHandled(h)'
  BY <1>2, <1>4 DEF Staging!IsHandled
<1>. QED BY <1>5, <1>6, <1>7, <1>8 DEF Staging!HashInv

\* A step about one hash leaves the rest; only a restart is about all of them.
LEMMA WindowSteps ==
  ASSUME Staging!WindowInv, Staging!Next
  PROVE  Staging!WindowInv'
<1>0. \A h \in Waiting : Staging!HashInv(h)
  BY DEF Staging!WindowInv
<1>1. ASSUME NEW h \in Waiting,
             \/ Staging!Dies(h) \/ Staging!MetadataArrives(h) \/ Staging!OnMetadataAlert(h)
             \/ Staging!OnStagedPreview(h) \/ Staging!Enter(h) \/ Staging!Leave(h) \/ Staging!Commit(h)
             \/ Staging!AddMagnet(h) \/ Staging!RemoveTorrent(h)
      PROVE  \A g \in Waiting : Staging!HashInv(g)'
  <2>1. OtherHashesSame(h) /\ Staging!HashInv(h)'
    BY <1>1, HashSteps
  <2>. QED BY <1>0, <2>1, OneHash
<1>2. ASSUME Staging!Restart PROVE \A h \in Waiting : Staging!HashInv(h)'
  BY <1>2, WindowRestarts
<1>3. \A h \in Waiting : Staging!HashInv(h)'
  BY <1>1, <1>2 DEF Staging!Next
<1>. QED BY <1>3, WindowTypes DEF Staging!WindowInv

\* A magnet downloads nothing, is in no list and comes back after no restart until the
\* user adds it; then it is in the list once, saved, put in order whenever its metadata
\* comes, and as the user chose; and libtorrent keeps none that neither the list nor the
\* window knows (stageMagnet, commitStaged, discardStaged, handleMetadataAlert).
THEOREM WindowHonest == Spec => []WindowIsHonest
<1>. DEFINE Inv == part = "staging" => Staging!WindowInv
<1>1. Init => Inv
  BY WindowInit DEF Init
<1>2. Inv /\ [Next]_vars => Inv'
  <2>. SUFFICES ASSUME Inv, [Next]_vars, part' = "staging"
                PROVE  Staging!WindowInv'
    OBVIOUS
  <2>1. part = "staging" /\ Staging!WindowInv
    BY PartStays
  <2>2. CASE Staging!Next
    BY <2>1, <2>2, WindowSteps
  <2>3. CASE UNCHANGED vars
    BY <2>1, <2>3 DEF vars, Staging!WindowInv, Staging!TypeOK, Staging!HashInv,
         Staging!EntryIsStaged,
         Staging!NewsAreTrue, Staging!AddedIsSaved, Staging!IsAsChosen, Staging!IsHandled,
              Staging!Live, Staging!Valid
  <2>. QED BY <2>1, <2>2, <2>3 DEF Next
<1>3. Inv => WindowIsHonest
  BY WindowPromises DEF WindowIsHonest
<1>. QED BY <1>1, <1>2, <1>3, PTL DEF Spec
==============================================================================
