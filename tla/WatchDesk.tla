----------------------------- MODULE WatchDesk -----------------------------
(***************************************************************************)
(* Watching what is still coming: the wait for a file that was picked in a *)
(* list of releases, the choice of that file in a pack, the window that    *)
(* waits and the windows that play, and the adding of one file of a pack.  *)
(*                                                                         *)
(* A tick of the poll is as long as the shortest of its limits.  Of a file *)
(* nothing is here, its start, or all of it.                               *)
(***************************************************************************)
EXTENDS Naturals, FiniteSets

CONSTANTS
  Hashes,
  Files,        \* 1 .. n: the videos of every pack, the first is the largest
  TailFirst,    \* the files whose end is needed before they play
  Fakes,        \* the files the guard finds to be something else
  MaxAsks,      \* what the user does at most, and the swarm unless it "flaps"
  WatchOps      \* odd cases: "same", "switch", "full", "again", "partial", "quick", "restart",
                \* "over", "flaps"

VARIABLES
  torrent,      \* what the engine holds, and whether anybody has it to give
  watch,        \* m_pendingWatch, m_watchTargets, m_watchPrepped, m_watchNoPeersSince
  pick,         \* m_pendingFilePick
  pickedFiles,  \* m_pickedFiles
  held,         \* MediaGuard::m_quarantined
  waiting,      \* the window that waits, and whether it says there is no source
  players,      \* the files that play, each in a window of its own
  asks,         \* what the user did so far
  alone,        \* history: the polls of this watch at which nobody was there
  owed,         \* history: files added one by one, or the pack added whole
  wrong         \* history: a watch opened another file than it was for, or
                \* said too early that there is no source

vars == <<torrent, watch, pick, pickedFiles, held, waiting, players, asks, alone, owed, wrong>>

NoRow == 1      \* 20 s
NoPeers == 2    \* 45 s
NoMeta == 3     \* 120 s
NoList == 4     \* 600 s

None == 0
Gone == [here |-> FALSE, meta |-> FALSE, paused |-> FALSE, swarm |-> TRUE,
         prio |-> [f \in Files |-> 4], have |-> [f \in Files |-> 0], near |-> {}]
NoWatch == [on |-> FALSE, age |-> 0, target |-> None, picked |-> None,
            prepped |-> FALSE, quiet |-> FALSE, since |-> 0]
NoPick == [on |-> FALSE, age |-> 0, target |-> None]
NoWindow == [on |-> FALSE, hash |-> CHOOSE h \in Hashes : TRUE, told |-> FALSE]

Init ==
  /\ torrent = [h \in Hashes |-> Gone]
  /\ watch = [h \in Hashes |-> NoWatch]
  /\ pick = [h \in Hashes |-> NoPick]
  /\ pickedFiles = [h \in Hashes |-> {}]
  /\ held = {} /\ waiting = NoWindow /\ players = {} /\ asks = 0
  /\ alone = [h \in Hashes |-> 0]
  /\ owed = [h \in Hashes |-> {}]
  /\ wrong = [file |-> FALSE, early |-> FALSE]

Peers(t) == t.here /\ t.swarm /\ ~t.paused
Here(t) == t.here /\ t.meta
Fewer(n, m) == IF n < m THEN n ELSE m

\* StreamGate::ready
Ready(t, f) == t.have[f] = 2 \/ (t.have[f] = 1 /\ f \notin TailFirst)

\* Everything that is wanted is here
Completed(t) == Here(t) /\ \A f \in Files : t.prio[f] = 0 \/ t.have[f] = 2

\* EpisodeGroup::pickFile, bestVideoFile: the file asked for, or the largest;
\* a file that was set aside is no video any more
BestVideo(h) == LET fs == {f \in Files : <<h, f>> \notin held}
                IN IF fs = {} THEN None ELSE CHOOSE f \in fs : \A g \in fs : f <= g
PickFile(h, target) == IF target # None /\ <<h, target>> \notin held THEN target
                       ELSE BestVideo(h)

------------------------------------------------------------------------------
\* The guard at the door of the player

HeldOf(h) == {q \in held : q[1] = h}

\* guardRefuses, with what it sets aside
Caught(t, h, f) == HeldOf(h) = {} /\ f \in Fakes /\ t[h].have[f] >= 1
Refuses(t, h, f) == HeldOf(h) # {} \/ Caught(t, h, f)

\* MediaGuard::quarantine
SetAside(t, h, f) == [t EXCEPT ![h].paused = TRUE, ![h].prio[f] = 0]

Unwatched(h) == [watch EXCEPT ![h] = NoWatch]

\* closePlayersFor, with what a waiting window does when it closes
ClosedFor(h, w) ==
  /\ players' = {p \in players : p[1] # h}
  /\ IF waiting.on /\ waiting.hash = h
     THEN waiting' = NoWindow /\ watch' = [w EXCEPT ![h] = NoWatch]
     ELSE waiting' = waiting /\ watch' = w

\* prepStream
Prepped(t, f) == [t EXCEPT !.paused = FALSE,
                           !.prio = [g \in Files |-> IF g = f THEN 7 ELSE 0]]

\* openPlayer: the window that waited for it plays it
Opened(h, f) ==
  /\ players' = players \cup {<<h, f>>}
  /\ waiting' = IF waiting.on /\ waiting.hash = h THEN NoWindow ELSE waiting

\* playByHashFile, when torrents and windows are t and w
PlayByHashFile(t, w, h, f) ==
  IF Refuses(t, h, f)
  THEN /\ torrent' = IF Caught(t, h, f) THEN SetAside(t, h, f) ELSE t
       /\ held' = IF Caught(t, h, f) THEN held \cup {<<h, f>>} ELSE held
       /\ ClosedFor(h, w)
  ELSE /\ torrent' = [t EXCEPT ![h] = Prepped(@, f)]
       /\ Opened(h, f)
       /\ watch' = w /\ held' = held

------------------------------------------------------------------------------
\* What the user asks for

Asked == asks < MaxAsks /\ asks' = asks + 1

\* Nothing is remembered of a torrent that was removed
Fresh(h) == torrent[h].here \/ (~watch[h].on /\ pickedFiles[h] = {} /\ ~pick[h].on)
            \/ "again" \in WatchOps

\* addMagnet of what is not there
Added(t) == IF t.here THEN t ELSE [Gone EXCEPT !.here = TRUE, !.swarm = t.swarm, !.have = t.have]

\* openWaiting and watchWhenReady: a window that waits takes the new wait
AddAndWatch(h, target) ==
  /\ Asked
  /\ Fresh(h)
  /\ "switch" \in WatchOps \/ ~waiting.on \/ waiting.hash = h
  /\ "same" \in WatchOps \/ ~watch[h].on \/ watch[h].target = target
  /\ "over" \in WatchOps \/ ~pick[h].on
  /\ torrent' = [torrent EXCEPT ![h] = Added(@)]
  /\ waiting' = [on |-> TRUE, hash |-> h, told |-> FALSE]
  /\ watch' = [watch EXCEPT ![h] = [@ EXCEPT !.on = TRUE, !.age = 0, !.target = target,
                                             !.picked = None]]
  /\ UNCHANGED <<pick, pickedFiles, held, players, alone, owed, wrong>>

\* An addon's row of one episode: pickFileWhenReady, if the pack is not there whole
AddOne(h, f) ==
  LET hadTorrent == torrent[h].here
      taken == ~hadTorrent \/ pickedFiles[h] # {}
  IN /\ Asked /\ Fresh(h)
     /\ taken \/ owed[h] = {0} \/ "partial" \in WatchOps
     /\ ~pick[h].on \/ "quick" \in WatchOps
     /\ "over" \in WatchOps \/ (~watch[h].on /\ \A g \in Files : <<h, g>> \notin players)
     /\ torrent' = [torrent EXCEPT ![h] = Added(@)]
     /\ pick' = IF taken THEN [pick EXCEPT ![h] = [on |-> TRUE, age |-> 0, target |-> f]]
                ELSE pick
     /\ owed' = IF owed[h] = {0} THEN owed ELSE [owed EXCEPT ![h] = @ \cup {f}]
     /\ UNCHANGED <<watch, pickedFiles, held, waiting, players, alone, wrong>>

AddWhole(h) ==
  /\ Asked
  /\ Fresh(h)
  /\ ~torrent[h].here
  /\ torrent' = [torrent EXCEPT ![h] = Added(@)]
  /\ owed' = [owed EXCEPT ![h] = {0}]
  /\ UNCHANGED <<watch, pick, pickedFiles, held, waiting, players, alone, wrong>>

\* cancelWait, or the closing of the window that waits: cancelWatch
CancelWait ==
  /\ waiting.on
  /\ waiting' = NoWindow
  /\ watch' = Unwatched(waiting.hash)
  /\ alone' = [alone EXCEPT ![waiting.hash] = 0]
  /\ UNCHANGED <<torrent, pick, pickedFiles, held, players, asks, owed, wrong>>

\* playBetter: the wait ends before the other release is added, and a release
\* that does not fit on the disk is only asked about
PlayBetter ==
  /\ "full" \in WatchOps /\ waiting.on
  /\ watch' = Unwatched(waiting.hash)
  /\ alone' = [alone EXCEPT ![waiting.hash] = 0]
  /\ UNCHANGED <<torrent, pick, pickedFiles, held, waiting, players, asks, owed, wrong>>

\* Play in the list: whatever waits for the torrent gives way
Play(h, f) ==
  /\ Asked
  /\ Here(torrent[h])
  /\ "over" \in WatchOps \/ ~watch[h].on
  /\ PlayByHashFile(torrent, watch, h, f)
  /\ owed' = [owed EXCEPT ![h] = {}]
  /\ UNCHANGED <<pick, pickedFiles, alone, wrong>>

\* nextEpisode: the videos go by season and episode; none after the last
NextEpisode(f) == IF f + 1 \in Files THEN f + 1 ELSE None

\* playNext: the next file of the pack in the same window
PlayNext(h, f) ==
  LET next == NextEpisode(f)
  IN /\ Asked
     /\ <<h, f>> \in players /\ next # None
     /\ "over" \in WatchOps \/ ~watch[h].on
     /\ IF ~torrent[h].here THEN UNCHANGED <<torrent, held, players, waiting, watch, owed>>
        ELSE IF Refuses(torrent, h, next)
        THEN PlayByHashFile(torrent, watch, h, next) /\ owed' = owed
        ELSE /\ torrent' = [torrent EXCEPT ![h] = Prepped(@, next)]
             /\ players' = (players \ {<<h, f>>}) \cup {<<h, next>>}
             /\ owed' = [owed EXCEPT ![h] = {}]
             /\ UNCHANGED <<held, waiting, watch>>
     /\ UNCHANGED <<pick, pickedFiles, alone, wrong>>

ClosePlayer(p) ==
  /\ players' = players \ {p}
  /\ UNCHANGED <<torrent, watch, pick, pickedFiles, held, waiting, asks, alone, owed, wrong>>

PauseTorrent(h) ==
  /\ Asked
  /\ torrent[h].here /\ ~torrent[h].paused
  /\ torrent' = [torrent EXCEPT ![h].paused = TRUE]
  /\ UNCHANGED <<watch, pick, pickedFiles, held, waiting, players, alone, owed, wrong>>

\* Removed by hand; the files may stay on the disk
RemoveTorrent(h) ==
  /\ Asked
  /\ torrent[h].here
  /\ \E stay \in (IF "again" \in WatchOps THEN BOOLEAN ELSE {FALSE}) :
       torrent' = [torrent EXCEPT ![h] = [Gone EXCEPT !.swarm = torrent[h].swarm,
                                          !.have = IF stay THEN torrent[h].have ELSE @]]
  /\ players' = {p \in players : p[1] # h}
  /\ held' = held \ HeldOf(h)
  /\ owed' = [owed EXCEPT ![h] = {}]
  /\ UNCHANGED <<watch, pick, pickedFiles, waiting, alone, wrong>>

\* The torrents and their priorities are kept, the rest is memory
Restart ==
  /\ Asked
  /\ "restart" \in WatchOps \/ \A h \in Hashes : ~pick[h].on
  /\ watch' = [h \in Hashes |-> NoWatch]
  /\ pick' = [h \in Hashes |-> NoPick]
  /\ pickedFiles' = [h \in Hashes |-> {}]
  /\ waiting' = NoWindow /\ players' = {}
  /\ alone' = [h \in Hashes |-> 0]
  /\ torrent' = [h \in Hashes |-> [torrent[h] EXCEPT !.near = {}]]
  /\ UNCHANGED <<held, owed, wrong>>

------------------------------------------------------------------------------
\* The swarm

PeersChange(h) ==
  /\ IF "flaps" \in WatchOps THEN UNCHANGED asks ELSE Asked
  /\ torrent' = [torrent EXCEPT ![h].swarm = ~@]
  /\ UNCHANGED <<watch, pick, pickedFiles, held, waiting, players, alone, owed, wrong>>

MetadataArrives(h) ==
  /\ Peers(torrent[h]) /\ ~torrent[h].meta
  /\ torrent' = [torrent EXCEPT ![h].meta = TRUE]
  /\ UNCHANGED <<watch, pick, pickedFiles, held, waiting, players, asks, alone, owed, wrong>>

\* The start comes if the file is wanted or has deadlines, the rest if it is wanted
DataArrives(h, f) ==
  LET t == torrent[h]
  IN /\ Peers(t) /\ t.meta /\ t.have[f] < 2
     /\ t.prio[f] > 0 \/ (t.have[f] = 0 /\ f \in t.near)
     /\ torrent' = [torrent EXCEPT ![h].have[f] = @ + 1]
     /\ UNCHANGED <<watch, pick, pickedFiles, held, waiting, players, asks, alone, owed, wrong>>

------------------------------------------------------------------------------
\* The polls

\* pollPendingFilePick: only the files that were added one by one are wanted
PickPoll(h) ==
  LET p == pick[h]
      f == PickFile(h, p.target)
      all == pickedFiles[h] \cup {f}
      age == Fewer(p.age + 1, NoList + 1)
  IN IF ~p.on THEN [t |-> torrent[h], pick |-> p, files |-> pickedFiles[h]]
     ELSE IF ~Here(torrent[h])
     THEN [t |-> torrent[h], files |-> pickedFiles[h],
           pick |-> IF p.age > NoList THEN NoPick ELSE [p EXCEPT !.age = age]]
     ELSE IF f = None THEN [t |-> torrent[h], pick |-> NoPick, files |-> pickedFiles[h]]
     ELSE [t |-> [torrent[h] EXCEPT !.prio = [g \in Files |-> IF g \in all THEN 4 ELSE 0]],
           pick |-> NoPick, files |-> all]

\* watchFile: the first answer is kept
WatchFile(h, t, w) == IF ~Here(t) THEN None
                      ELSE IF w.picked # None THEN w.picked ELSE PickFile(h, w.target)

NothingNew(w, t) == [w |-> w, t |-> t, told |-> FALSE, early |-> FALSE, plays |-> None]

\* Nobody to get it from, since the limit or longer
Quiet(t, w) == IF Peers(t) THEN [w EXCEPT !.quiet = FALSE, !.since = 0]
               ELSE [w EXCEPT !.quiet = TRUE]

\* One hash of pollPendingWatch, d after the one before
WatchPoll(h, t, d) ==
  LET w0 == watch[h]
      w1 == [w0 EXCEPT !.age = Fewer(@ + d, NoMeta + 1),
                       !.since = IF w0.quiet THEN Fewer(@ + d, NoPeers) ELSE 0]
      f == WatchFile(h, t, w1)
      w2 == IF t.here THEN Quiet(t, w1) ELSE w1
      w3 == [w2 EXCEPT !.picked = f, !.prepped = TRUE]
      t3 == IF w2.prepped THEN t ELSE Prepped(t, f)
  IN IF ~w0.on THEN NothingNew(w0, t)
     ELSE IF t.here /\ w2.quiet /\ w2.since >= NoPeers
     THEN [NothingNew(NoWatch, t) EXCEPT !.told = TRUE, !.early = alone[h] + d < NoPeers]
     ELSE IF f = None
     THEN IF w2.age > NoMeta \/ (~t.here /\ w2.age > NoRow)
          THEN [NothingNew(NoWatch, t) EXCEPT !.told = TRUE]
          ELSE NothingNew(w2, t)
     ELSE IF Completed(t) \/ Ready(t, f)
     THEN [NothingNew(NoWatch, t3) EXCEPT !.plays = f]
     ELSE NothingNew(w3, [t3 EXCEPT !.near = @ \cup {f}])

\* What became of the watches: the windows told, and at most one that plays
Polled(h, p, d) ==
  LET r == WatchPoll(h, p.t, d)
      t == [torrent EXCEPT ![h] = r.t]
      w == [watch EXCEPT ![h] = r.w]
  IN /\ pick' = [pick EXCEPT ![h] = p.pick]
     /\ pickedFiles' = [pickedFiles EXCEPT ![h] = p.files]
     /\ alone' = [alone EXCEPT ![h] = IF ~r.w.on \/ Peers(p.t) THEN 0
                                      ELSE Fewer(@ + d, NoPeers)]
     /\ wrong' = [file |-> wrong.file \/ (r.plays # None /\
                             r.plays # PickFile(h, watch[h].target)
                             /\ <<h, watch[h].target>> \notin held),
                  early |-> wrong.early \/ r.early]
     /\ owed' = IF r.t.prio # p.t.prio THEN [owed EXCEPT ![h] = {}] ELSE owed
     /\ IF r.plays # None THEN PlayByHashFile(t, w, h, r.plays)
        ELSE /\ torrent' = t /\ watch' = w
             /\ waiting' = IF r.told /\ waiting.hash = h THEN [waiting EXCEPT !.told = waiting.on]
                           ELSE waiting
             /\ UNCHANGED <<held, players>>
     /\ UNCHANGED asks

\* onWatchTick on the engine's tick: the pick goes before the watch
Tick(h) ==
  /\ pick[h].on \/ watch[h].on
  /\ Polled(h, PickPoll(h), 1)

\* m_watchFast in between
FastPoll(h) ==
  /\ watch[h].on
  /\ Polled(h, [t |-> torrent[h], pick |-> pick[h], files |-> pickedFiles[h]], 0)

Next ==
  \/ \E h \in Hashes : \/ \E f \in Files \cup {None} : AddAndWatch(h, f)
                       \/ \E f \in Files : AddOne(h, f) \/ Play(h, f) \/ PlayNext(h, f)
                                           \/ DataArrives(h, f)
                       \/ AddWhole(h) \/ PauseTorrent(h) \/ RemoveTorrent(h)
                       \/ PeersChange(h) \/ MetadataArrives(h)
                       \/ Tick(h) \/ FastPoll(h)
  \/ \E p \in players : ClosePlayer(p)
  \/ CancelWait \/ PlayBetter \/ Restart

Spec ==
  /\ Init /\ [][Next]_vars
  /\ \A h \in Hashes : WF_vars(Tick(h))
  /\ \A h \in Hashes, f \in Files : WF_vars(DataArrives(h, f))

------------------------------------------------------------------------------
Torrents == [here : BOOLEAN, meta : BOOLEAN, paused : BOOLEAN, swarm : BOOLEAN,
             prio : [Files -> {0, 4, 7}], have : [Files -> 0..2], near : SUBSET Files]
Watches == [on : BOOLEAN, age : 0..NoMeta+1, target : Files \cup {None},
            picked : Files \cup {None}, prepped : BOOLEAN, quiet : BOOLEAN, since : 0..NoPeers]
Picks == [on : BOOLEAN, age : 0..NoList+1, target : Files \cup {None}]

TypeOK ==
  /\ torrent \in [Hashes -> Torrents] /\ watch \in [Hashes -> Watches]
  /\ pick \in [Hashes -> Picks] /\ pickedFiles \in [Hashes -> SUBSET Files]
  /\ held \subseteq Hashes \X Files /\ players \subseteq Hashes \X Files
  /\ waiting \in [on : BOOLEAN, hash : Hashes, told : BOOLEAN]
  /\ asks \in 0..MaxAsks
  /\ alone \in [Hashes -> 0..NoPeers]
  /\ owed \in [Hashes -> SUBSET (Files \cup {None})]
  /\ wrong \in [file : BOOLEAN, early : BOOLEAN]

\* A window that waits, and does not say there is no source, waits for a watch
\* that goes on, and every watch has its window: whatever ends a watch fills the
\* window, tells or closes it, and whatever ends the wait ends the watch
WaitingIsWatched ==
  \A h \in Hashes : watch[h].on <=> waiting.on /\ waiting.hash = h /\ ~waiting.told

\* A watch opens the file it is for, and says that nobody has it only when
\* nobody had it for as long as it must be, since this watch began
WatchIsTrue == ~wrong.file /\ ~wrong.early

\* What a watch waits for is fetched, and first, unless the user does otherwise
WaitedIsFetched ==
  \A h \in Hashes : LET w == watch[h]
                    IN w.on /\ w.prepped /\ Here(torrent[h])
                       => torrent[h].prio[WatchFile(h, torrent[h], w)] = 7

\* Files that were added one by one are all wanted once the list is known, and a
\* pack that was added whole is wanted whole
OwedIsWanted(h) ==
  LET t == torrent[h]
  IN Here(t) /\ ~pick[h].on =>
       \A f \in Files : f \in owed[h] \/ 0 \in owed[h] =>
         t.prio[f] > 0 \/ t.have[f] = 2 \/ <<h, f>> \in held
PicksAreWanted == \A h \in Hashes : OwedIsWanted(h)

WatchIsSound == WaitingIsWatched /\ WatchIsTrue /\ WaitedIsFetched /\ PicksAreWanted

\* A watch ends: what it is for plays, or it is said that nobody has it
Watching(h) == watch[h].on
WatchEnds == \A h \in Hashes : Watching(h) ~> ~Watching(h)

------------------------------------------------------------------------------
\* Why it is sound: what every step keeps

\* Of one torrent: a watch that is over left nothing, a file that it has found is the one
\* it is for, and once that file was asked for it is all that is wanted.
WatchKept(h) ==
  LET t == torrent[h]
      w == watch[h]
      f == PickFile(h, w.target)
  IN /\ ~w.on => w = NoWatch
     /\ w.on => ~pick[h].on
     /\ w.on /\ w.quiet => w.since <= alone[h]
     /\ w.on /\ t.here /\ w.picked # None => w.picked = f
     /\ w.on /\ t.here /\ w.prepped => f # None /\ t.prio = Prepped(t, f).prio

\* Files were picked only from a list that is known, and what is owed is picked, waits
\* for the list, or was found to be something else.
PicksKept(h) ==
  LET t == torrent[h]
      p == pick[h]
  IN /\ ~t.here => owed[h] = {}
     /\ t.here /\ ~t.meta => pickedFiles[h] = {} /\ \A f \in Files : t.prio[f] = 4
     /\ 0 \in owed[h] => owed[h] = {0} /\ ~p.on /\ pickedFiles[h] = {}
     /\ p.on \/ pickedFiles[h] # {} =>
          \A f \in owed[h] : f \in pickedFiles[h] \/ <<h, f>> \in held \/ (p.on /\ f = p.target)

PlayersAreHere == \A p \in players : Here(torrent[p[1]])

DeskInv ==
  /\ TypeOK /\ WatchIsSound /\ PlayersAreHere
  /\ \A h \in Hashes : WatchKept(h) /\ PicksKept(h)
=============================================================================
