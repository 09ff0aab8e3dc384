----------------------------- MODULE SessionTick -----------------------------
(***************************************************************************)
(* Who may pause and who may resume a torrent: the 1 s tick of             *)
(* SessionManager (updateStats) with the seed limits, the disk-pressure    *)
(* pause, the interface kill switch, the memory guard and the download     *)
(* queue it runs in that order, the alert handlers that pause torrents,    *)
(* and the user operations that come between two ticks.                    *)
(*                                                                         *)
(* All of SessionManager runs on one Qt thread, so a tick is never         *)
(* interrupted by a user operation: step is the part of updateStats that   *)
(* runs next and the user's operations wait for "idle".  libtorrent runs   *)
(* on its own threads: its actions interleave with everything.             *)
(*                                                                         *)
(* Data left out: names, sizes and rates (a rate is the choice of which    *)
(* torrents are above 10 KB/s), clocks (a time stamp is "recent" or        *)
(* "old"), and messages to the user.                                       *)
(***************************************************************************)
EXTENDS Naturals, Sequences, FiniteSets, SequencesExt

CONSTANTS
  Torrents,   \* the info-hashes (each stands for its handle while present)
  None,       \* no cached status
  Library,    \* what loadResumeData restored, in list order
  Loaded,     \* the states in which it may restore them
  Saved,      \* the settings that the last run saved as on, or not empty
  Ops,        \* the operations and faults that a run exercises
  MaxCap      \* largest value given to setMaxActiveDownloads

ASSUME NoneAssumption == None \notin [state : {"metadata", "downloading", "seeding", "spent"},
                                      paused : BOOLEAN]
ASSUME MaxCapAssumption == MaxCap \in Nat
ASSUME LibraryAssumption == Library \in Seq(Torrents) /\ IsInjective(Library)
ASSUME LoadedAssumption == Loaded \subseteq {"metadata", "downloading", "seeding"}

\* libtorrent's state of a torrent.  "metadata": a magnet without metadata;
\* "spent": seeding, with its ratio or time limit reached.
State == {"metadata", "downloading", "seeding", "spent"}
Status == [state : State, paused : BOOLEAN]
\* "last": the queue's turn, in a tick that has asked the program to quit, and
\* "gone": it has quit
Steps == {"idle", "alerts", "seeds", "disk", "interface", "memory", "queue", "last", "gone"}

VARIABLES
  torrents,      \* m_torrents: the list, in queue order
  valid,         \* torrents whose handle is valid
  state, paused, \* libtorrent's own state of each torrent
  cache,         \* m_statusCache
  snapshot,      \* a state_update_alert that missed its tick, per torrent
  finished,      \* torrent_finished_alerts not yet processed
  queuePaused,   \* m_queuePaused
  lastFast,      \* m_lastFastAt: "none", "recent" (at most 60 s ago) or "old"
  forceStart,    \* m_forceStartHashes
  completed,     \* m_completedTorrents
  maxActive,     \* m_maxActiveDownloads, 0 is no limit
  bound,         \* m_outgoingInterface is not empty
  ifaceUp,       \* that interface is up and has an address
  ksEnabled, ksActive, ksPaused, autoResume, \* m_killSwitch..., m_autoResume
  proxied,       \* m_vpnProxyPort > 0
  diskPaused,    \* m_diskAutoPaused
  step,          \* where updateStats is
  manual         \* history: torrents whose last operation by the user was a pause

lt == <<state, paused, valid>>
kill == <<bound, ksEnabled, ksActive, ksPaused, autoResume, proxied>>
queue == <<queuePaused, lastFast, forceStart, maxActive>>
alert == <<cache, snapshot, finished>>
vars == <<torrents, lt, alert, queue, completed, kill, ifaceUp, diskPaused, step, manual>>

-----------------------------------------------------------------------------
(* Reading statuses *)

LiveStatus(t) == [state |-> state[t], paused |-> paused[t]]

\* cachedStatus(): the cached status, a live one when there is none yet.
CachedStatus(t) == IF cache[t] = None THEN LiveStatus(t) ELSE cache[t]

HasMetadata(st) == st.state # "metadata"
Downloading(st) == st.state \in {"metadata", "downloading"}
Running(t) == t \in valid /\ ~paused[t]

\* h.pause() and h.resume() on every torrent of S whose handle is valid
PauseOnly(S) == paused' = [t \in Torrents |-> paused[t] \/ t \in S \cap valid]
ResumeOnly(S) == paused' = [t \in Torrents |-> paused[t] /\ t \notin S \cap valid]

-----------------------------------------------------------------------------
TypeOK ==
  /\ torrents \in Seq(Torrents)
  /\ valid \subseteq Torrents
  /\ state \in [Torrents -> State]
  /\ paused \in [Torrents -> BOOLEAN]
  /\ cache \in [Torrents -> Status \cup {None}]
  /\ snapshot \in [Torrents -> Status \cup {None}]
  /\ finished \subseteq Torrents
  /\ queuePaused \subseteq Torrents
  /\ lastFast \in [Torrents -> {"none", "recent", "old"}]
  /\ forceStart \subseteq Torrents
  /\ completed \subseteq Torrents
  /\ maxActive \in 0..MaxCap
  /\ bound \in BOOLEAN /\ ifaceUp \in BOOLEAN /\ proxied \in BOOLEAN
  /\ ksEnabled \in BOOLEAN /\ ksActive \in BOOLEAN /\ autoResume \in BOOLEAN
  /\ ksPaused \subseteq Torrents
  /\ diskPaused \in BOOLEAN
  /\ step \in Steps
  /\ manual \subseteq Torrents

\* The session has just started: the torrents of the last run are loaded,
\* paused or not, and the settings are whatever it saved, with the hashes that
\* were force-started and completed.
Init ==
  /\ torrents = Library
  /\ valid = Range(Library)
  /\ state \in [Torrents -> Loaded]
  /\ paused \in [Torrents -> BOOLEAN]
  /\ \A t \in Torrents \ Range(Library) : paused[t]
  /\ cache = [t \in Torrents |-> None]
  /\ snapshot = [t \in Torrents |-> None]
  /\ finished = {}
  /\ queuePaused = {}
  /\ lastFast = [t \in Torrents |-> "none"]
  /\ forceStart \in SUBSET (IF "forceStart" \in Saved THEN Range(Library) ELSE {})
  /\ completed \in SUBSET (IF "completed" \in Saved
                            THEN {t \in Range(Library) : state[t] # "metadata"} ELSE {})
  /\ maxActive = MaxCap
  /\ bound = ("interface" \in Saved)
  /\ ifaceUp = TRUE
  /\ ksEnabled = ("killSwitch" \in Saved)
  /\ ksActive = FALSE
  /\ ksPaused = {}
  /\ autoResume = ("autoResume" \in Saved)
  /\ proxied = ("vpnHold" \in Saved)
  /\ diskPaused = FALSE
  /\ step = "idle"
  /\ manual = {}

-----------------------------------------------------------------------------
(* libtorrent, on its own threads.  A tick reads libtorrent through the     *)
(* cache, which is constant once the alerts are processed, and the kill     *)
(* switch reads only the paused flags: progress in the middle of a tick is   *)
(* the same as progress just before or just after it.                       *)

\* A magnet receives its metadata; a download completes; a seed reaches the
\* user's ratio or time limit.
Progress(t) ==
  /\ step = "idle"
  /\ Running(t)
  /\ \/ /\ state[t] = "metadata"
        /\ state' = [state EXCEPT ![t] = "downloading"]
        /\ UNCHANGED finished
     \/ /\ state[t] = "downloading"
        /\ state' = [state EXCEPT ![t] = "seeding"]
        /\ finished' = finished \cup {t}
     \/ /\ state[t] = "seeding" /\ "seedLimits" \in Ops
        /\ state' = [state EXCEPT ![t] = "spent"]
        /\ UNCHANGED finished
  /\ UNCHANGED <<torrents, valid, paused, cache, snapshot, queue,
                 completed, kill, ifaceUp, diskPaused, step, manual>>

\* The network adapter goes down or comes back.
InterfaceChanges ==
  /\ step = "idle"
  /\ "interface" \in Ops
  /\ ifaceUp' = ~ifaceUp
  /\ UNCHANGED <<torrents, lt, alert, queue, completed, kill, diskPaused, step, manual>>

\* More than 60 s pass in which the torrents of S stay below 10 KB/s.
MinutePasses(S) ==
  /\ step = "idle"
  /\ "stalls" \in Ops
  /\ S # {}
  /\ \A t \in S : lastFast[t] = "recent"
  /\ lastFast' = [t \in Torrents |-> IF t \in S THEN "old" ELSE lastFast[t]]
  /\ UNCHANGED <<torrents, lt, alert, queuePaused, forceStart, maxActive, completed,
                 kill, ifaceUp, diskPaused, step, manual>>

-----------------------------------------------------------------------------
(* The tick: updateStats *)

\* The timer fires: ask libtorrent for statuses (post_torrent_updates), then
\* process the alerts, onStateUpdate first.  libtorrent answers with the
\* statuses of this moment.  The answer arrives in time, or it is left for the
\* next tick and this one works with the last answer that did arrive.
TickStarts(inTime) ==
  /\ step = "idle"
  /\ step' = "alerts"
  /\ LET answer == [t \in Torrents |-> IF t \in valid THEN LiveStatus(t) ELSE None]
     IN  /\ cache' = [t \in Torrents |->
                        IF t \notin valid THEN None
                        ELSE IF inTime THEN answer[t]
                        ELSE IF snapshot[t] # None THEN snapshot[t] ELSE cache[t]]
         /\ snapshot' = IF inTime THEN [t \in Torrents |-> None] ELSE answer
  /\ UNCHANGED <<torrents, lt, finished, queue, completed, kill, ifaceUp, diskPaused,
                 manual>>

\* onTorrentFinished.  stop: the global or per-torrent stop-after-download
\* setting, for a torrent that downloaded anything in this session.
OnTorrentFinished(t, stop) ==
  /\ step = "alerts"
  /\ t \in finished
  /\ finished' = finished \ {t}
  /\ IF t \in valid
     THEN /\ PauseOnly(IF stop THEN {t} ELSE {})
          /\ queuePaused' = queuePaused \ {t}
     ELSE UNCHANGED <<paused, queuePaused>>
  /\ UNCHANGED <<torrents, valid, state, cache, snapshot, lastFast, forceStart,
                 maxActive, completed, kill, ifaceUp, diskPaused, step, manual>>

\* onFileError when the disk is full: pause every torrent that the cache shows
\* downloading and not paused.
OnDiskFull ==
  /\ step = "alerts"
  /\ "fileErrors" \in Ops
  /\ PauseOnly({t \in Torrents : /\ CachedStatus(t).state = "downloading"
                                 /\ ~CachedStatus(t).paused})
  /\ UNCHANGED <<torrents, valid, state, alert, queue, completed, kill, ifaceUp,
                 diskPaused, step, manual>>

\* onFileError for one torrent, and onTorrentError: a finished torrent is
\* paused at once on a file error, any torrent by noteTorrentFault after
\* eight clustered errors.
OnTorrentFault(t, eighth) ==
  /\ step = "alerts"
  /\ "fileErrors" \in Ops
  /\ t \in valid
  /\ eighth \/ state[t] \in {"seeding", "spent"}
  /\ PauseOnly({t})
  /\ UNCHANGED <<torrents, valid, state, alert, queue, completed, kill, ifaceUp,
                 diskPaused, step, manual>>

\* processAlerts returns: the batch is done, or the cap of 1000 is reached and
\* the rest waits.  checkSeedingLimits then reads every status, which fills
\* the missing cache entries.
AlertsEnd ==
  /\ step = "alerts"
  /\ step' = "seeds"
  /\ cache' = [t \in Torrents |-> IF t \in valid THEN CachedStatus(t) ELSE cache[t]]
  /\ UNCHANGED <<torrents, lt, snapshot, finished, queue, completed, kill,
                 ifaceUp, diskPaused, manual>>

\* markCompleted on each torrent of S that is not marked yet
MarkCompleted(S) ==
  LET new == {t \in S \cap valid : HasMetadata(CachedStatus(t))} \ completed
  IN  /\ completed' = completed \cup new
      /\ PauseOnly(new)

\* checkSeedRatios, checkSeedingLimits, checkAutoComplete
CheckSeeds ==
  /\ step = "seeds"
  /\ step' = "disk"
  /\ MarkCompleted({t \in Torrents : CachedStatus(t).state = "spent" /\ ~CachedStatus(t).paused})
  /\ UNCHANGED <<torrents, valid, state, alert, queue, kill, ifaceUp, diskPaused, manual>>

\* The disk-pressure block of updateStats.  free: below 512 MB, at least 2 GB,
\* or between.
CheckDisk(free) ==
  /\ step = "disk"
  /\ step' = "interface"
  /\ free = "critical" => "lowDisk" \in Ops
  /\ IF free = "critical" /\ ~diskPaused
     THEN /\ PauseOnly({t \in Torrents : /\ Downloading(CachedStatus(t))
                                         /\ ~CachedStatus(t).paused})
          /\ diskPaused' = TRUE
     ELSE /\ diskPaused' = (diskPaused /\ free # "ample")
          /\ UNCHANGED paused
  /\ UNCHANGED <<torrents, valid, state, alert, queue, completed, kill, ifaceUp, manual>>

\* setOutgoingInterface: resume what the kill switch paused, then bind
ReleaseKillSwitch ==
  /\ ksActive' = FALSE
  /\ ResumeOnly(ksPaused)
  /\ ksPaused' = {}

\* Mutant: the kill switch goes by the cached statuses.
CheckInterfaceCached ==
  /\ step = "interface"
  /\ step' = "memory"
  /\ IF bound /\ ksEnabled /\ ~proxied /\ ifaceUp = ksActive
     THEN IF ksActive THEN ReleaseKillSwitch
          ELSE /\ ksActive' = TRUE
               /\ ksPaused' = {t \in valid : ~CachedStatus(t).paused}
               /\ PauseOnly(ksPaused')
     ELSE UNCHANGED <<ksActive, ksPaused, paused>>
  /\ UNCHANGED <<torrents, valid, state, alert, queue, completed, bound, ksEnabled,
                 autoResume, proxied, ifaceUp, diskPaused, manual>>

\* Mutant: only a change of the settings releases the kill switch.
CheckInterfaceNoReturn ==
  /\ step = "interface"
  /\ step' = "memory"
  /\ IF bound /\ ksEnabled /\ ~proxied /\ ~ifaceUp /\ ~ksActive
     THEN /\ ksActive' = TRUE
          /\ ksPaused' = {t \in valid : ~paused[t]}
          /\ PauseOnly(valid)
     ELSE UNCHANGED <<ksActive, ksPaused, paused>>
  /\ UNCHANGED <<torrents, valid, state, alert, queue, completed, bound, ksEnabled,
                 autoResume, proxied, ifaceUp, diskPaused, manual>>

\* checkInterfaceStatus
CheckInterface ==
  /\ step = "interface"
  /\ step' = "memory"
  /\ CASE bound /\ ksEnabled /\ ~proxied /\ ~ifaceUp /\ ~ksActive ->
            /\ ksActive' = TRUE
            /\ ksPaused' = {t \in valid : ~paused[t]}
            /\ PauseOnly(valid)
       [] bound /\ ksEnabled /\ ~proxied /\ ifaceUp /\ ksActive ->
            \* setOutgoingInterface has emptied ksPaused before autoResume is read
            ReleaseKillSwitch
       [] OTHER -> UNCHANGED <<ksActive, ksPaused, paused>>
  /\ UNCHANGED <<torrents, valid, state, alert, queue, completed, bound, ksEnabled,
                 autoResume, proxied, ifaceUp, diskPaused, manual>>

\* checkMemoryGuard: over the cap, pauseAll (at most once in five minutes); at
\* twice the cap, save and quit, which the event loop does after this tick.
CheckMemory(size) ==
  /\ step = "memory"
  /\ step' = IF size = "panic" THEN "last" ELSE "queue"
  /\ size # "under" => "memory" \in Ops
  /\ PauseOnly(IF size = "over" THEN valid ELSE {})
  /\ UNCHANGED <<torrents, valid, state, alert, queue, completed, kill, ifaceUp, diskPaused, manual>>

-----------------------------------------------------------------------------
(* enforceDownloadQueue *)

\* Force-started torrents that enforceDownloadQueue leaves alone: a torrent
\* without metadata has no hash yet and is not recognised.
Exempt(t) == t \in forceStart /\ HasMetadata(CachedStatus(t))

InList == {i \in 1..Len(torrents) : torrents[i] \in valid}

\* The stamps after this pass, when exactly the torrents of fast are above
\* 10 KB/s
Stamp(fast) ==
  [t \in Torrents |->
     IF /\ t \in valid /\ ~Exempt(t)
        /\ Downloading(CachedStatus(t)) /\ ~CachedStatus(t).paused
        /\ (lastFast[t] = "none" \/ t \in fast)
     THEN "recent" ELSE lastFast[t]]

ActiveIndices(fast) ==
  {i \in InList : LET t == torrents[i] IN
     /\ ~Exempt(t) /\ Downloading(CachedStatus(t)) /\ ~CachedStatus(t).paused
     /\ Stamp(fast)[t] # "old"}

QueuedIndices ==
  {i \in InList : LET t == torrents[i] IN
     /\ ~Exempt(t) /\ Downloading(CachedStatus(t)) /\ CachedStatus(t).paused
     /\ t \in queuePaused}

\* how many indices of S come before i
Before(S, i) == Cardinality({j \in S : j < i})

\* the torrents at the indices of S
At(S) == {torrents[i] : i \in S}

\* Mutant: the pass keeps one download too many.
OverByOne(fast) ==
  At({i \in ActiveIndices(fast) : Before(ActiveIndices(fast), i) > maxActive})

\* The downloads beyond the cap, and the waiting ones that get a free slot
Over(fast) ==
  At({i \in ActiveIndices(fast) : Before(ActiveIndices(fast), i) >= maxActive})

Promoted(fast) ==
  At({i \in QueuedIndices :
        Before(QueuedIndices, i) + Cardinality(ActiveIndices(fast)) < maxActive})

Forced == {t \in valid : Exempt(t) /\ CachedStatus(t).paused}

EnforceQueue(fast) ==
  /\ step \in {"queue", "last"}
  /\ step' = IF step = "last" THEN "gone" ELSE "idle"
  /\ IF maxActive = 0
     THEN UNCHANGED <<paused, queuePaused, lastFast>>
     ELSE /\ lastFast' = Stamp(fast)
          /\ queuePaused' = (queuePaused \cup Over(fast)) \ Promoted(fast)
          /\ paused' = [t \in Torrents |->
                          \/ paused[t] /\ t \notin Forced \cup Promoted(fast)
                          \/ t \in Over(fast)]
  /\ UNCHANGED <<torrents, valid, state, alert, forceStart, maxActive, completed, kill,
                 ifaceUp, diskPaused, manual>>

Tick ==
  \/ \E inTime \in BOOLEAN : TickStarts(inTime)
  \/ \E t \in Torrents, stop \in BOOLEAN : OnTorrentFinished(t, stop)
  \/ OnDiskFull
  \/ \E t \in Torrents, eighth \in BOOLEAN : OnTorrentFault(t, eighth)
  \/ AlertsEnd
  \/ CheckSeeds
  \/ \E free \in {"critical", "low", "ample"} : CheckDisk(free)
  \/ CheckInterface
  \/ \E size \in {"under", "over", "panic"} : CheckMemory(size)
  \/ \E fast \in SUBSET Torrents : EnforceQueue(fast)

-----------------------------------------------------------------------------
(* The user's operations, between two ticks *)

UserMay(op) == step = "idle" /\ op \in Ops

\* addTorrent, addTorrentInfo (stopped: its paused option), addMagnet.  The
\* list view may read the new row's status at once, which caches it.
AddTorrent(t, st, stopped, seen) ==
  /\ UserMay("add")
  /\ t \notin Range(torrents)   \* isDuplicate
  /\ st = "metadata" => ~stopped
  /\ torrents' = Append(torrents, t)
  /\ valid' = valid \cup {t}
  /\ state' = [state EXCEPT ![t] = st]
  /\ paused' = [paused EXCEPT ![t] = stopped]
  /\ cache' = [cache EXCEPT ![t] = IF seen THEN [state |-> st, paused |-> stopped] ELSE None]
  /\ UNCHANGED <<snapshot, finished, queue, completed, kill, ifaceUp,
                 diskPaused, step, manual>>

\* Mutant: the kill switch keeps the removed torrent's handle.
RemoveTorrentOnly(i) ==
  /\ UserMay("remove")
  /\ i \in 1..Len(torrents)
  /\ LET t == torrents[i] IN
       /\ torrents' = RemoveAt(torrents, i)
       /\ valid' = valid \ {t}
       /\ paused' = [paused EXCEPT ![t] = TRUE]
       /\ cache' = [cache EXCEPT ![t] = None]
       /\ snapshot' = [snapshot EXCEPT ![t] = None]
       /\ finished' = finished \ {t}
       /\ queuePaused' = queuePaused \ {t}
       /\ lastFast' = [lastFast EXCEPT ![t] = "none"]
       /\ forceStart' = forceStart \ {t}
       /\ completed' = completed \ {t}
  /\ manual' = manual \ {torrents[i]}
  /\ UNCHANGED <<state, maxActive, kill, ifaceUp, diskPaused, step>>

\* removeTorrent: the torrent leaves every set, its alerts in flight carry an
\* invalid handle from now on.
RemoveTorrent(i) ==
  /\ UserMay("remove")
  /\ i \in 1..Len(torrents)
  /\ LET t == torrents[i] IN
       /\ torrents' = RemoveAt(torrents, i)
       /\ valid' = valid \ {t}
       /\ paused' = [paused EXCEPT ![t] = TRUE]
       /\ cache' = [cache EXCEPT ![t] = None]
       /\ snapshot' = [snapshot EXCEPT ![t] = None]
       /\ finished' = finished \ {t}
       /\ queuePaused' = queuePaused \ {t}
       /\ ksPaused' = ksPaused \ {t}
       /\ lastFast' = [lastFast EXCEPT ![t] = "none"]
       /\ forceStart' = forceStart \ {t}
       /\ completed' = completed \ {t}
  /\ manual' = manual \ {torrents[i]}
  /\ UNCHANGED <<state, maxActive, bound, ksEnabled, ksActive, autoResume,
                 proxied, ifaceUp, diskPaused, step>>

\* pauseTorrent, stopSeedingTorrent
PauseTorrent(i) ==
  /\ UserMay("pause")
  /\ i \in InList
  /\ PauseOnly({torrents[i]})
  /\ manual' = manual \cup {torrents[i]}
  /\ UNCHANGED <<torrents, valid, state, alert, queue, completed, kill, ifaceUp,
                 diskPaused, step>>

\* resumeTorrent: a completed torrent is unmarked (unmarkCompleted)
ResumeTorrent(i) ==
  /\ UserMay("resume")
  /\ i \in InList
  /\ ResumeOnly({torrents[i]})
  /\ completed' = IF HasMetadata(CachedStatus(torrents[i]))
                  THEN completed \ {torrents[i]} ELSE completed
  /\ manual' = manual \ {torrents[i]}
  /\ UNCHANGED <<torrents, valid, state, alert, queue, kill, ifaceUp, diskPaused, step>>

PauseAll ==
  /\ UserMay("pause")
  /\ PauseOnly(valid)
  /\ manual' = manual \cup valid
  /\ UNCHANGED <<torrents, valid, state, alert, queue, completed, kill, ifaceUp,
                 diskPaused, step>>

ResumeAll ==
  /\ UserMay("resume")
  /\ ResumeOnly(valid)
  /\ manual' = {}
  /\ UNCHANGED <<torrents, valid, state, alert, queue, completed, kill, ifaceUp,
                 diskPaused, step>>

\* setForceStart.  torrentHash knows a magnet's hash from its URI.
SetForceStart(i, on) ==
  /\ UserMay("force")
  /\ i \in InList
  /\ LET t == torrents[i] IN
       IF on
       THEN /\ forceStart' = forceStart \cup {t}
            /\ ResumeOnly({t})
            /\ queuePaused' = queuePaused \ {t}
       ELSE /\ forceStart' = forceStart \ {t}
            /\ UNCHANGED <<paused, queuePaused>>
  /\ manual' = IF on THEN manual \ {torrents[i]} ELSE manual
  /\ UNCHANGED <<torrents, valid, state, alert, lastFast, maxActive, completed, kill,
                 ifaceUp, diskPaused, step>>

\* markCompleted from the context menu
UserMarksCompleted(i) ==
  /\ UserMay("complete")
  /\ i \in InList
  /\ MarkCompleted({torrents[i]})
  /\ UNCHANGED <<torrents, valid, state, alert, queue, kill, ifaceUp, diskPaused, step, manual>>

\* setTorrentQueuePosition
SetTorrentQueuePosition(i, j) ==
  /\ UserMay("move")
  /\ i \in 1..Len(torrents) /\ j \in 1..Len(torrents) /\ i # j
  /\ torrents' = InsertAt(RemoveAt(torrents, i), j, torrents[i])
  /\ UNCHANGED <<lt, alert, queue, completed, kill, ifaceUp, diskPaused, step, manual>>

\* Mutant: the cap is stored one too high.
SetMaxActiveOffByOne(n) ==
  /\ UserMay("limit")
  /\ maxActive' = n + 1
  /\ UNCHANGED <<torrents, lt, alert, queuePaused, lastFast, forceStart, completed, kill,
                 ifaceUp, diskPaused, step, manual>>

SetMaxActiveDownloads(n) ==
  /\ UserMay("limit")
  /\ maxActive' = n
  /\ UNCHANGED <<torrents, lt, alert, queuePaused, lastFast, forceStart, completed, kill,
                 ifaceUp, diskPaused, step, manual>>

\* setOutgoingInterface: to an interface, or to "any"
SetOutgoingInterface(b) ==
  /\ UserMay("bind")
  /\ bound' = b
  /\ ReleaseKillSwitch
  /\ UNCHANGED <<torrents, valid, state, alert, queue, completed, ksEnabled, autoResume,
                 proxied, ifaceUp, diskPaused, step, manual>>

SetKillSwitchEnabled(on) ==
  /\ UserMay("killSwitch")
  /\ ksEnabled' = on
  /\ IF on THEN UNCHANGED <<ksActive, ksPaused, paused>> ELSE ReleaseKillSwitch
  /\ UNCHANGED <<torrents, valid, state, alert, queue, completed, bound, autoResume,
                 proxied, ifaceUp, diskPaused, step, manual>>

SetAutoResumeOnReconnect(on) ==
  /\ UserMay("killSwitch")
  /\ autoResume' = on
  /\ UNCHANGED <<torrents, lt, alert, queue, completed, bound, ksEnabled, ksActive,
                 ksPaused, proxied, ifaceUp, diskPaused, step, manual>>

\* setVpnProxy: when the proxy is lifted the interface is bound again
SetVpnProxy(on) ==
  /\ UserMay("vpn")
  /\ proxied' = on
  /\ IF proxied /\ ~on THEN ReleaseKillSwitch ELSE UNCHANGED <<ksActive, ksPaused, paused>>
  /\ UNCHANGED <<torrents, valid, state, alert, queue, completed, bound, ksEnabled,
                 autoResume, ifaceUp, diskPaused, step, manual>>

User ==
  \/ \E t \in Torrents, st \in {"metadata", "downloading"}, stopped, seen \in BOOLEAN :
       AddTorrent(t, st, stopped, seen)
  \/ \E i \in 1..Len(torrents) :
       \/ RemoveTorrent(i)
       \/ PauseTorrent(i)
       \/ ResumeTorrent(i)
       \/ \E on \in BOOLEAN : SetForceStart(i, on)
       \/ UserMarksCompleted(i)
       \/ \E j \in 1..Len(torrents) : SetTorrentQueuePosition(i, j)
  \/ PauseAll
  \/ ResumeAll
  \/ \E n \in 0..MaxCap : SetMaxActiveDownloads(n)
  \/ \E b \in BOOLEAN : SetOutgoingInterface(b)
  \/ \E on \in BOOLEAN :
       \/ SetKillSwitchEnabled(on)
       \/ SetAutoResumeOnReconnect(on)
       \/ SetVpnProxy(on)

Environment ==
  \/ \E t \in Torrents : Progress(t)
  \/ InterfaceChanges
  \/ \E S \in SUBSET Torrents : MinutePasses(S)

Next == Tick \/ User \/ Environment

Spec == Init /\ [][Next]_vars

\* The steps that move updateStats forward: the 1 s timer keeps firing and a
\* tick runs to its end.
Advance ==
  \/ \E inTime \in BOOLEAN : TickStarts(inTime)
  \/ AlertsEnd \/ CheckSeeds \/ CheckInterface
  \/ \E free \in {"critical", "low", "ample"} : CheckDisk(free)
  \/ \E size \in {"under", "over", "panic"} : CheckMemory(size)
  \/ \E fast \in SUBSET Torrents : EnforceQueue(fast)

FairSpec == Spec /\ WF_vars(Advance)

-----------------------------------------------------------------------------
(* Properties *)

\* Whatever the kill switch paused can still be released: torrents are on its
\* list only while it is active, it is active only while it is enabled and an
\* interface is chosen (the two settings whose change releases it), and
\* neither its list nor the queue's holds the handle of a removed torrent.
PausesHaveAnOwner ==
  /\ ksPaused # {} => ksActive
  /\ ksActive => ksEnabled /\ bound
  /\ ksPaused \cup queuePaused \subseteq valid

\* While the kill switch is active no torrent runs: "If the VPN drops,
\* torrents stop instead of carrying on over your normal connection."
KillSwitchHolds == ksActive => \A t \in Torrents : ~Running(t)

\* With autoResumeOnReconnect off, the return of the interface resumes
\* nothing ("re-apply binding and optionally resume").
AutoResumeIsOptional ==
  [][step = "interface" /\ ~autoResume => \A t \in valid : paused[t] => paused'[t]]_vars

\* A torrent that the user paused by hand stays paused until the user resumes
\* it ("Resumes only the torrents the kill switch paused - not the ones you
\* paused manually.").
ManualPauseKept == \A t \in manual : paused[t]

\* A force-started torrent is never paused by the queue ("they neither count
\* against the cap nor get auto-paused").
ForceStartExempt == forceStart \cap queuePaused = {}

\* The cache agrees with libtorrent about every torrent.
CacheIsAccurate == \A t \in valid : cache[t] = LiveStatus(t)

\* The downloads that the queue counts, and the ones that it keeps waiting
Counted == {t \in valid : /\ ~paused[t] /\ Downloading(LiveStatus(t))
                          /\ lastFast[t] = "recent"
                          /\ ~(t \in forceStart /\ state[t] # "metadata")}
Waiting == {t \in queuePaused : /\ paused[t] /\ Downloading(LiveStatus(t))
                                /\ ~(t \in forceStart /\ state[t] # "metadata")}
RunningDownloads == {t \in valid : ~paused[t] /\ Downloading(LiveStatus(t))}

WithinCap == maxActive > 0 => Cardinality(Counted) <= maxActive

\* A pass of enforceDownloadQueue that works on accurate statuses leaves at
\* most maxActive counted downloads, and leaves nobody waiting while there is
\* a free slot.
QueuePassIsExact ==
  [][step' # step /\ step \in {"queue", "last"} /\ CacheIsAccurate /\ maxActive > 0 =>
       /\ WithinCap'
       /\ Waiting' # {} => Cardinality(RunningDownloads') >= maxActive]_vars

\* The queue recovers from the stale statuses it works on: once only ticks
\* happen, the cap is in the end respected for good.
QueueSettles ==
  <>[][Tick]_vars => <>[]WithinCap

\* What the kill switch paused is not paused for ever: once the interface is
\* back for good, the list is emptied.
KillSwitchReleases ==
  <>[](ifaceUp /\ bound /\ ksEnabled /\ ~proxied) => <>[](ksPaused = {})

\* A completed torrent is frozen: once its ratio or time limit has marked it,
\* it does not go on seeding (it is paused, or it has been unmarked).
CompletedIsFrozen == []<>(\A t \in completed : paused[t])
=============================================================================
