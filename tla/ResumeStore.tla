----------------------------- MODULE ResumeStore -----------------------------
(***************************************************************************)
(* How the list of torrents survives a restart: the .resume files of       *)
(* SessionManager, the requests for them and libtorrent's answers, the     *)
(* history of removed torrents, the flush at exit and the crash-loop guard *)
(* at start.                                                               *)
(*                                                                         *)
(* Data left out: a resume file is the three things that a restart can get *)
(* wrong, whether there is metadata, why the torrent is paused (in the     *)
(* file: that it is), and how many pieces it has.                          *)
(***************************************************************************)
EXTENDS Naturals, Sequences, FiniteSets, SequencesExt

CONSTANTS
  Torrents,   \* torrents, each with one hash or (Hybrid) two
  Hybrid,     \* the ones whose magnet link gives another hash than get_best()
  None,       \* no file, or a list entry whose handle is dead
  Ops,        \* the operations that a run exercises
  GuardMax,   \* m_removedHashes is cleared above this size (500 in the code)
  MaxPieces,  \* bound: pieces per torrent
  MaxAlerts,  \* bound: alerts in flight when the user makes another request
  MaxList     \* bound: list entries

ASSUME BoundAssumption == /\ GuardMax \in Nat /\ MaxPieces \in Nat
                          /\ MaxAlerts \in Nat /\ MaxList \in Nat
ASSUME LibraryAssumption == IsFiniteSet(Torrents)
ASSUME HybridAssumption == Hybrid \subseteq Torrents

\* Why a torrent does not run: nothing stops it, the user, updateStats for want
\* of disk space, or loadResumeData because its data is missing.
Reason == {"runs", "user", "disk", "missing"}
Content == [meta : BOOLEAN, run : Reason, pieces : 0..MaxPieces]

\* A resume file is named by the hash that is known when it is written.
Keys == Torrents \X {"uri", "best"}
Key(t, meta) == <<t, IF t \in Hybrid /\ ~meta THEN "uri" ELSE "best">>
KeysOf(t) == {k \in Keys : k[1] = t}

ASSUME NoneAssumption == None \notin Torrents /\ None \notin Content

\* What an alert reports ("dead": something of a torrent that is gone)
Kinds == {"saved", "failed", "metadata", "piece", "dead"}
Alert == [kind : Kinds, t : Torrents, data : Content]

VARIABLES
  phase,        \* "down", "loading", "running" or "flushing"
  torrents,     \* m_torrents
  meta,         \* torrents with metadata (libtorrent's state)
  cachedMeta,   \* those of them that m_statusCache shows with metadata
  run, pieces,  \* why each torrent is paused, how many pieces it has
  uriKnown,     \* m_magnetHashes has the torrent
  removed,      \* m_removedHashes: hashes
  outstanding,  \* m_resumeOutstanding
  alerts,       \* alerts that libtorrent has posted, in order
  file, history,\* the .resume files in resume/ and in removed/, per hash
  starting,     \* the setting startupInProgress
  gone,         \* history: torrents that the user removed and did not add again
  promised      \* history: the contents that the last shutdown set out to save

memory == <<torrents, meta, cachedMeta, run, pieces, uriKnown, removed, outstanding, alerts>>
disk == <<file, history, starting>>
ghosts == <<gone, promised>>
vars == <<phase, memory, disk, ghosts>>

Valid == Range(torrents) \ {None}
Live(t) == [meta |-> t \in meta, run |-> run[t], pieces |-> pieces[t]]
HasFile(t) == \E k \in KeysOf(t) : file[k] # None
Stored == {t \in Torrents : HasFile(t)}

TypeOK ==
  /\ phase \in {"down", "loading", "running", "flushing"}
  /\ torrents \in Seq(Torrents \cup {None})
  /\ meta \subseteq Torrents /\ cachedMeta \subseteq meta
  /\ run \in [Torrents -> Reason]
  /\ pieces \in [Torrents -> 0..MaxPieces]
  /\ uriKnown \subseteq Torrents
  /\ removed \subseteq Keys
  /\ outstanding \in Nat
  /\ alerts \in Seq(Alert)
  /\ file \in [Keys -> Content \cup {None}]
  /\ history \in [Keys -> Content \cup {None}]
  /\ starting \in BOOLEAN
  /\ gone \subseteq Torrents
  /\ promised \in [Torrents -> Content \cup {None}]

Init ==
  /\ phase = "down"
  /\ torrents = <<>> /\ meta = {} /\ cachedMeta = {} /\ uriKnown = {}
  /\ run = [t \in Torrents |-> "runs"] /\ pieces = [t \in Torrents |-> 0]
  /\ removed = {} /\ outstanding = 0 /\ alerts = <<>>
  /\ file = [k \in Keys |-> None]
  /\ history = [k \in Keys |-> None]
  /\ starting = FALSE
  /\ gone = {}
  /\ promised = [t \in Torrents |-> None]

-----------------------------------------------------------------------------
(* Requests and answers.  libtorrent carries out the calls in the order in  *)
(* which they are made, so that a save answers with the state at the call;  *)
(* only its alert comes later.                                              *)

UserMay(op) ==
  /\ phase = "running" /\ op \in Ops
  /\ Len(alerts) < MaxAlerts

\* The entries of the torrents of S, in list order: the n-th of them is the one
\* with n of them up to it.
Entries(S) ==
  LET I == {i \in 1..Len(torrents) : torrents[i] \in S}
      nth(n) == CHOOSE i \in I : Cardinality({j \in I : j <= i}) = n
  IN  [n \in 1..Cardinality(I) |-> torrents[nth(n)]]

\* The answers to saves of the entries q, with the contents c.  Without
\* metadata (fails), libtorrent may or may not produce resume data.
Answers(q, c, fails) ==
  [i \in 1..Len(q) |->
     [kind |-> IF fails /\ ~c[q[i]].meta THEN "failed" ELSE "saved",
      t |-> q[i], data |-> c[q[i]]]]

Contents == [t \in Torrents |-> Live(t)]

\* The alerts once the handle of t is dead: the answers to saves carry their
\* data, the handlers of the others see that the handle is not valid.
Orphaned(t) ==
  [i \in 1..Len(alerts) |->
     IF alerts[i].t = t /\ alerts[i].kind \in {"metadata", "piece"}
     THEN [alerts[i] EXCEPT !.kind = "dead"]
     ELSE alerts[i]]

-----------------------------------------------------------------------------
(* libtorrent *)

\* A running magnet receives its metadata.
MetadataArrives(t) ==
  /\ phase = "running"
  /\ Len(alerts) < MaxAlerts
  /\ t \in Valid \ meta
  /\ run[t] = "runs"
  /\ meta' = meta \cup {t}
  /\ alerts' = Append(alerts, [kind |-> "metadata", t |-> t, data |-> Live(t)])
  /\ UNCHANGED <<phase, torrents, cachedMeta, run, pieces, uriKnown, removed, outstanding,
                 disk, ghosts>>

PieceArrives(t) ==
  /\ phase \in {"running", "flushing"}
  /\ Len(alerts) < MaxAlerts
  /\ t \in Valid \cap meta
  /\ run[t] = "runs"
  /\ pieces[t] < MaxPieces
  /\ pieces' = [pieces EXCEPT ![t] = @ + 1]
  /\ alerts' = Append(alerts, [kind |-> "piece", t |-> t, data |-> Live(t)])
  /\ UNCHANGED <<phase, torrents, meta, cachedMeta, run, uriKnown, removed, outstanding,
                 disk, ghosts>>

\* A tick refreshes m_statusCache.
StatusUpdate ==
  /\ phase = "running"
  /\ cachedMeta' = meta
  /\ UNCHANGED <<phase, torrents, meta, run, pieces, uriKnown, removed, outstanding, alerts,
                 disk, ghosts>>

-----------------------------------------------------------------------------
(* processAlerts, one alert at a time: a call handles as many as happen to  *)
(* have arrived.  flushResumeDataBlocking calls it too.                     *)

Processing(kind) ==
  /\ phase \in {"running", "flushing"}
  /\ alerts # <<>>
  /\ Head(alerts).kind = kind

\* Mutants: an answer is not counted; the count may go below zero.
NoneLess == UNCHANGED outstanding
LessUnchecked == outstanding' = outstanding - 1

OneLess == outstanding' = IF outstanding > 0 THEN outstanding - 1 ELSE 0

\* Whether a write succeeds.  QSaveFile keeps the old file when it does not.
Writes == IF "unwritable" \in Ops THEN BOOLEAN ELSE {TRUE}

\* Mutant: resume data of a removed torrent is written.
WrittenAlways(key, c, ok) == [file EXCEPT ![key] = c]

\* persistResumeAlert
Written(key, c, ok) == IF key \in removed \/ ~ok THEN file ELSE [file EXCEPT ![key] = c]

\* The answer counts whether or not it could be written.
OnResumeDataReady(ok) ==
  /\ Processing("saved")
  /\ file' = Written(Key(Head(alerts).t, Head(alerts).data.meta), Head(alerts).data, ok)
  /\ alerts' = Tail(alerts)
  /\ OneLess
  /\ UNCHANGED <<phase, torrents, meta, cachedMeta, run, pieces, uriKnown, removed,
                 history, starting, ghosts>>

OnResumeDataFailed ==
  /\ Processing("failed")
  /\ alerts' = Tail(alerts)
  /\ OneLess
  /\ UNCHANGED <<phase, torrents, meta, cachedMeta, run, pieces, uriKnown, removed,
                 disk, ghosts>>

\* Mutant: the magnet's file goes even when it is the file under get_best().
StaleAlways(t) == {Key(t, FALSE) : x \in {t} \cap uriKnown}

\* The file under a hash that the torrent no longer has
Stale(t) == {Key(t, FALSE) : x \in {t} \cap uriKnown} \ {Key(t, TRUE)}

\* handleMetadata: the file under the hash of the magnet link goes, the file
\* under get_best() is asked for.
OnMetadataReceived ==
  /\ Processing("metadata")
  /\ LET t == Head(alerts).t IN
       /\ file' = [k \in Keys |-> IF k \in Stale(t) THEN None ELSE file[k]]
       /\ alerts' = Tail(alerts) \o Answers(<<t>>, Contents, FALSE)
       /\ outstanding' = outstanding + 1
  /\ UNCHANGED <<phase, torrents, meta, cachedMeta, run, pieces, uriKnown, removed,
                 history, starting, ghosts>>

\* onPieceFinished.  due: the torrent's last save is at least 60 s old.
OnPieceFinished(due) ==
  /\ Processing("piece")
  /\ LET q == IF due THEN <<Head(alerts).t>> ELSE <<>> IN
       /\ alerts' = Tail(alerts) \o Answers(q, Contents, FALSE)
       /\ outstanding' = outstanding + Len(q)
  /\ UNCHANGED <<phase, torrents, meta, cachedMeta, run, pieces, uriKnown, removed,
                 disk, ghosts>>

\* onPieceFinished and onMetadataReceived return when the handle is not valid.
OnDeadHandle ==
  /\ Processing("dead")
  /\ alerts' = Tail(alerts)
  /\ UNCHANGED <<phase, torrents, meta, cachedMeta, run, pieces, uriKnown, removed,
                 outstanding, disk, ghosts>>

-----------------------------------------------------------------------------
(* Adding *)

\* isDuplicate compares both hashes: a hybrid magnet without its metadata is
\* not recognised as the torrent with it, and the other way round.
IsDuplicate(t, withMeta) == t \in Valid /\ (t \in Hybrid => (withMeta <=> t \in meta))

\* m_session.add_torrent: a torrent that is there already stays as it is.
Added(t, c) ==
  IF t \in Valid
  THEN UNCHANGED <<meta, cachedMeta, run, pieces>>
  ELSE /\ meta' = IF c.meta THEN meta \cup {t} ELSE meta \ {t}
       /\ cachedMeta' = IF c.meta THEN cachedMeta \cup {t} ELSE cachedMeta \ {t}
       /\ run' = [run EXCEPT ![t] = c.run]
       /\ pieces' = [pieces EXCEPT ![t] = c.pieces]

\* addTorrent; addTorrentInfo, which may add it paused
AddTorrent(t, why) ==
  /\ UserMay("add")
  /\ Len(torrents) < MaxList
  /\ ~IsDuplicate(t, TRUE)
  /\ Key(t, TRUE) \in removed => "readd" \in Ops
  /\ LET c == IF t \in Valid THEN Live(t) ELSE [meta |-> TRUE, run |-> why, pieces |-> 0] IN
       /\ Added(t, c)
       /\ torrents' = Append(torrents, t)
       /\ alerts' = alerts \o Answers(<<t>>, [Contents EXCEPT ![t] = c], FALSE)
  /\ outstanding' = outstanding + 1
  /\ gone' = gone \ {t}
  /\ UNCHANGED <<phase, uriKnown, removed, disk, promised>>

\* Mutant: a magnet is stored only when its metadata is there.
PersistNothing(t, c, ok) == UNCHANGED file

PersistMagnetParams(t, c, ok) == file' = IF ok THEN [file EXCEPT ![Key(t, FALSE)] = c] ELSE file

AddMagnet(t, ok) ==
  /\ UserMay("magnet")
  /\ Len(torrents) < MaxList
  /\ ~IsDuplicate(t, FALSE)
  /\ Key(t, FALSE) \in removed => "readd" \in Ops
  /\ LET c == [meta |-> FALSE, run |-> "runs", pieces |-> 0] IN
       /\ Added(t, c)
       /\ torrents' = Append(torrents, t)
       /\ uriKnown' = uriKnown \cup {t}
       /\ PersistMagnetParams(t, c, ok)
  /\ gone' = gone \ {t}
  /\ UNCHANGED <<phase, removed, outstanding, alerts, history, starting, promised>>

LiftGuard(t, withMeta) == IF withMeta THEN removed \ {Key(t, TRUE)} ELSE removed

\* restoreRemoved, restoreFromResumeData
Restore(k, fails) ==
  /\ UserMay("restore")
  /\ Len(torrents) < MaxList
  /\ history[k] # None
  /\ LET t == k[1]
         c == IF t \in Valid THEN Live(t) ELSE history[k]
     IN  /\ Added(t, c)
         /\ torrents' = Append(torrents, t)
         /\ alerts' = alerts \o Answers(<<t>>, [Contents EXCEPT ![t] = c], fails)
         /\ outstanding' = outstanding + 1
         /\ removed' = LiftGuard(t, c.meta)
         /\ gone' = gone \ {t}
  /\ history' = [history EXCEPT ![k] = None]
  /\ UNCHANGED <<phase, uriKnown, file, starting, promised>>

-----------------------------------------------------------------------------
(* Removing *)

\* What is left of the history after pruneRemovedHistory: the entries of old,
\* beyond the newest fifty or older than thirty days, go.
Pruned(h, old) == [k \in Keys |-> IF k \in old THEN None ELSE h[k]]

Noted(k) == LET r == removed \cup {k} IN IF Cardinality(r) > GuardMax THEN {} ELSE r

\* removeTorrent.  Without metadata the hash comes from m_magnetHashes, and
\* is all zeros when it is not there.
RemoveTorrent(i, old) ==
  /\ UserMay("remove")
  /\ i \in 1..Len(torrents)
  /\ IF torrents[i] = None
     THEN /\ torrents' = RemoveAt(torrents, i)
          /\ UNCHANGED <<file, history, removed, alerts, uriKnown, meta, cachedMeta, gone>>
     ELSE LET t == torrents[i]
              k == Key(t, t \in meta)
              known == t \in meta \cup uriKnown
          IN  /\ torrents' = [j \in 1..Len(torrents) - 1 |->
                                LET e == RemoveAt(torrents, i)[j] IN
                                IF e = t THEN None ELSE e]
              /\ file' = IF known THEN [file EXCEPT ![k] = None] ELSE file
              /\ history' = IF known THEN Pruned([history EXCEPT ![k] = file[k]], old \ {k})
                            ELSE Pruned(history, old)
              /\ removed' = IF known THEN Noted(k) ELSE removed
              /\ alerts' = Orphaned(t)
              /\ uriKnown' = uriKnown \ {t}
              /\ meta' = meta \ {t} /\ cachedMeta' = cachedMeta \ {t}
              /\ gone' = gone \cup {t}
  /\ UNCHANGED <<phase, run, pieces, outstanding, starting, promised>>

ClearRemovedHistory ==
  /\ UserMay("restore")
  /\ history' = [k \in Keys |-> None]
  /\ UNCHANGED <<phase, memory, file, starting, ghosts>>

-----------------------------------------------------------------------------
(* Pausing and saving *)

\* pauseTorrent, resumeTorrent, pauseAll and resumeAll save what they changed
\* but do not count the request.
SetRun(S, why, fails) ==
  /\ UserMay("pause")
  /\ run' = [t \in Torrents |-> IF t \in S THEN why ELSE run[t]]
  /\ alerts' = alerts \o Answers(Entries(S), [t \in Torrents |-> [Live(t) EXCEPT !.run = why]],
                                 fails)
  /\ UNCHANGED <<phase, torrents, meta, cachedMeta, uriKnown, removed, pieces, outstanding,
                 disk, ghosts>>

\* The disk-pressure pause of updateStats, which saves nothing
PauseForDisk ==
  /\ UserMay("disk")
  /\ run' = [t \in Torrents |-> IF t \in Valid /\ run[t] = "runs" THEN "disk" ELSE run[t]]
  /\ UNCHANGED <<phase, torrents, meta, cachedMeta, pieces, uriKnown, removed, outstanding,
                 alerts, disk, ghosts>>

\* Mutant: the count starts again with every batch.
SavingAfresh ==
  LET q == Entries(Valid \cap cachedMeta) IN
  /\ alerts' = alerts \o Answers(q, Contents, FALSE)
  /\ outstanding' = Len(q)

\* saveResumeData: every valid entry that the cache shows with metadata
Saving ==
  LET q == Entries(Valid \cap cachedMeta) IN
  /\ alerts' = alerts \o Answers(q, Contents, FALSE)
  /\ outstanding' = outstanding + Len(q)

SaveResumeData ==
  /\ UserMay("save")
  /\ Saving
  /\ UNCHANGED <<phase, torrents, meta, cachedMeta, run, pieces, uriKnown, removed, disk, ghosts>>

-----------------------------------------------------------------------------
(* The end and the start of a run *)

\* ~SessionManager: flushResumeDataBlocking begins.
Quit ==
  /\ phase = "running" /\ "quit" \in Ops
  /\ phase' = "flushing"
  /\ Saving
  /\ promised' = [t \in Torrents |-> IF t \in Valid \cap cachedMeta THEN Live(t) ELSE None]
  /\ UNCHANGED <<torrents, meta, cachedMeta, run, pieces, uriKnown, removed, disk, gone>>

\* What is in memory is gone with the process.
Forget ==
  /\ torrents' = <<>> /\ meta' = {} /\ cachedMeta' = {} /\ uriKnown' = {}
  /\ run' = [t \in Torrents |-> "runs"] /\ pieces' = [t \in Torrents |-> 0]
  /\ removed' = {} /\ outstanding' = 0 /\ alerts' = <<>>
  /\ promised' = [t \in Torrents |-> None]

\* It ends when nothing is outstanding, or at its deadline; the rest of the
\* alerts is lost.
FlushEnds(late) ==
  /\ phase = "flushing"
  /\ late \/ outstanding = 0
  /\ phase' = "down"
  /\ Forget
  /\ UNCHANGED <<disk, gone>>

\* The process dies, or is killed.
Crash ==
  /\ phase # "down" /\ "crash" \in Ops
  /\ phase' = "down"
  /\ Forget
  /\ UNCHANGED <<disk, gone>>

\* The constructor.  A start after one that died while it loaded loads nothing.
Start ==
  /\ phase = "down"
  /\ phase' = IF starting THEN "running" ELSE "loading"
  /\ starting' = ~starting
  /\ UNCHANGED <<memory, file, history, ghosts>>

\* What loadResumeData makes of a file: it takes it as it is; pieces that it
\* lists are missing on disk, and it loads the torrent paused; the file is
\* damaged, and it takes the torrent_info that is left in it or sets the file
\* aside; or add_torrent refuses it, and the file stays.
Fate == {"taken", "missing", "recovered", "setAside", "refused"}
Fates == IF "damage" \in Ops THEN [Keys -> Fate] ELSE {[k \in Keys |-> "taken"]}

Fitting(fate) ==
  \A k \in Keys : file[k] # None =>
    /\ fate[k] \in {"missing", "recovered"} => file[k].meta
    /\ fate[k] = "missing" => file[k].pieces > 0

\* How the torrent of file k is added.  The re-check after a recovery finds the
\* pieces again.
Read(fate, k) ==
  CASE fate[k] = "missing"   -> [file[k] EXCEPT !.run = "missing"]
    [] fate[k] = "recovered" -> [file[k] EXCEPT !.run = "runs"]
    [] OTHER -> file[k]

\* loadResumeData: every file that is added is a list entry; of two files of one
\* torrent the first that is added decides (best: whether that is the one under
\* get_best()).
LoadResumeData(best, old, fate) ==
  /\ phase = "loading"
  /\ phase' = "running"
  /\ starting' = FALSE
  /\ history' = Pruned(history, old)
  /\ Fitting(fate)
  /\ file' = [k \in Keys |-> IF fate[k] = "setAside" THEN None ELSE file[k]]
  /\ LET keys == {k \in Keys : file[k] # None /\ fate[k] \notin {"setAside", "refused"}}
         order == SetToSeq(keys)
         loaded == {k[1] : k \in keys}
         first(t) == IF Cardinality(keys \cap KeysOf(t)) = 1
                     THEN Read(fate, CHOOSE k \in keys \cap KeysOf(t) : TRUE)
                     ELSE Read(fate, <<t, IF best THEN "best" ELSE "uri">>)
     IN  /\ torrents' = [i \in 1..Len(order) |-> order[i][1]]
         /\ meta' = {t \in loaded : first(t).meta}
         /\ cachedMeta' = meta'
         /\ run' = [t \in Torrents |-> IF t \in loaded THEN first(t).run ELSE "runs"]
         /\ pieces' = [t \in Torrents |-> IF t \in loaded THEN first(t).pieces ELSE 0]
         /\ uriKnown' = {k[1] : k \in {x \in keys : ~file[x].meta}}
  /\ UNCHANGED <<removed, outstanding, alerts, ghosts>>

Libtorrent == StatusUpdate \/ \E t \in Torrents : MetadataArrives(t) \/ PieceArrives(t)

ProcessAlerts ==
  \/ OnResumeDataFailed \/ OnMetadataReceived \/ OnDeadHandle
  \/ \E ok \in Writes : OnResumeDataReady(ok)
  \/ \E due \in BOOLEAN : OnPieceFinished(due)

\* The entries that a prune may drop
Old == IF "expire" \in Ops THEN SUBSET {k \in Keys : history[k] # None} ELSE {{}}

User ==
  \/ \E t \in Torrents, ok \in Writes : AddMagnet(t, ok)
  \/ \E t \in Torrents, why \in {"runs", "user"} : AddTorrent(t, why)
  \/ \E k \in Keys, fails \in BOOLEAN : Restore(k, fails)
  \/ \E i \in 1..Len(torrents), old \in Old : RemoveTorrent(i, old)
  \/ ClearRemovedHistory
  \/ \E S \in {{t} : t \in Valid} \cup {Valid}, why \in {"runs", "user"}, fails \in BOOLEAN :
       SetRun(S, why, fails)

Session ==
  \/ PauseForDisk \/ SaveResumeData \/ Quit \/ Crash \/ Start
  \/ \E late \in BOOLEAN : FlushEnds(late)
  \/ \E best \in BOOLEAN, old \in Old, fate \in Fates : LoadResumeData(best, old, fate)

Next == Libtorrent \/ ProcessAlerts \/ User \/ Session

Spec == Init /\ [][Next]_vars

-----------------------------------------------------------------------------
(* Properties *)

\* A save of t is still to be answered.
Pending(t) == \E i \in 1..Len(alerts) : alerts[i].kind \in {"saved", "metadata"} /\ alerts[i].t = t

\* A torrent of the list has a resume file unless its save is on its way ("so
\* a freshly-added, never-downloaded torrent survives a restart").
ListedIsStored ==
  phase \in {"running", "flushing"} => \A t \in Valid : HasFile(t) \/ Pending(t)

\* A torrent that the user removed has no resume file: no alert that was in
\* flight brings it back ("would otherwise re-create the .resume file").
RemovedStaysRemoved == \A t \in gone : ~HasFile(t)

\* A torrent that has a resume file keeps one as long as it is in the list, so
\* that no crash can drop it.
StoredStaysStored == [][\A t \in Torrents : HasFile(t) /\ t \notin gone' => HasFile(t)']_vars

\* A torrent has one resume file, not one for each hash ("so the next launch
\* doesn't double-load the torrent").
OneFilePerTorrent == \A t \in Torrents : Cardinality({k \in KeysOf(t) : file[k] # None}) <= 1

\* No two list entries share a handle ("two tiles reading one handle").
NoTwoTiles ==
  \A i, j \in 1..Len(torrents) : torrents[i] # None /\ torrents[i] = torrents[j] => i = j

\* An entry that the user removes can be restored from the history.
RemovedIsRestorable ==
  [][\A t \in Torrents : t \in gone' \ gone => \E k \in KeysOf(t) : history'[k] # None]_vars

\* The flush at exit waits only while there is an answer to wait for.
FlushAwaitsAnAnswer ==
  outstanding <= Cardinality({i \in 1..Len(alerts) : alerts[i].kind \in {"saved", "failed"}})

\* When the flush stops because nothing is outstanding, every torrent it set
\* out to save is on disk as it was, or newer.
FlushIsComplete ==
  phase = "flushing" /\ outstanding = 0 =>
    \A t \in Torrents : promised[t] # None =>
      LET f == file[Key(t, TRUE)] IN
      f # None /\ f.run = promised[t].run /\ f.pieces >= promised[t].pieces

\* The pause for want of disk space is not saved ("runtime-only pause (not
\* persisted)").
DiskPauseIsNotSaved == \A k \in Keys : file[k] # None => file[k].run # "disk"

\* The promise to the user, with what this model is to each of its variables
Library == INSTANCE TorrentLibrary WITH
  up <- phase \in {"running", "flushing"}, listed <- Valid, stored <- Stored
ImplementsLibrary == Library!Spec

\* In every state what is listed is safe from a crash, and the flush at exit has
\* something to wait for.
StoreIsSound == TypeOK /\ ListedIsStored /\ FlushAwaitsAnAnswer
=============================================================================
