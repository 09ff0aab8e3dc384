------------------------------ MODULE FinishMoves -----------------------------
(***************************************************************************)
(* Where a download ends.  With a temporary folder set, a torrent is       *)
(* downloaded there and the folder the user chose is remembered under the  *)
(* torrent's hash until it finishes; a category with a folder of its own   *)
(* changes what is remembered.  The hash itself changes on the way: a      *)
(* hybrid magnet is known by its first hash until the metadata is there.   *)
(* The same handler tells the user, and stops the torrent when that was    *)
(* asked for.                                                              *)
(*                                                                         *)
(* One torrent: nothing here relates two of them.  Data left out: files    *)
(* and names.  A folder is one of a handful of places.                     *)
(***************************************************************************)
EXTENDS Naturals, Sequences

CONSTANT FinishOps
  \* "toggle": the temporary folder is set and unset while the torrent is there;
  \* "restart": the app is restarted while the torrent is in the temporary folder;
  \* "readd": a torrent that was complete at the launch is removed and added again;
  \* "move": the user moves the torrent before it has finished;
  \* "lag": the torrent finishes and the cached status does not say so yet

VARIABLES
  torrent,  \* libtorrent's torrent; seen: cachedStatus shows it downloading
  moves,    \* the moves libtorrent has not made yet
  alerts,   \* alerts the session has not handled yet: "metadata", "finished", "failed"
  key,      \* m_magnetHashes, or the hash that the metadata gives
  intended, \* m_torrentIntendedPath
  stop,     \* m_perTorrentStopAfter: the hashes with a yes
  muted,    \* m_completedAtStartup
  config,   \* the temporary folder is set; the automatic move is on; the torrent has
            \* two hashes
  wish      \* history: where the user wants it, whether it is to stop, whether the
            \* automatic move may have a say, whether libtorrent could not make a move,
            \* and how often its end was told

finish == <<torrent, moves, alerts, key, intended, stop, muted, config, wish>>

Hashes == {"v1", "v2"}
Folders == {"home", "category", "auto", "temp", "elsewhere"}
None == "none"

NoTorrent == [state |-> "none", meta |-> FALSE, at |-> "home", payload |-> FALSE,
              paused |-> FALSE, seen |-> FALSE]
NoWish == [at |-> "home", stop |-> FALSE, auto |-> FALSE, failed |-> FALSE, told |-> 0]

Torrents == [state : {"none", "downloading", "checking", "done"}, meta : BOOLEAN,
             at : Folders, payload : BOOLEAN, paused : BOOLEAN, seen : BOOLEAN]
Wishes == [at : Folders, stop : BOOLEAN, auto : BOOLEAN, failed : BOOLEAN, told : 0 .. 2]
Configs == [temp : BOOLEAN, auto : BOOLEAN, hybrid : BOOLEAN]

Typed ==
  /\ torrent \in Torrents
  /\ moves \in Seq(Folders)
  /\ alerts \in Seq({"metadata", "finished", "failed"})
  /\ key \in Hashes /\ stop \subseteq Hashes /\ muted \subseteq Hashes
  /\ intended \in [Hashes -> Folders \cup {None}]
  /\ config \in Configs
  /\ wish \in Wishes

TypeOK == Typed /\ Len(moves) <= 3

Init ==
  /\ torrent = NoTorrent /\ moves = <<>> /\ alerts = <<>>
  /\ key = "v1" /\ intended = [h \in Hashes |-> None]
  /\ stop = {} /\ muted = {}
  /\ config \in [temp : BOOLEAN, auto : {FALSE}, hybrid : BOOLEAN]
  /\ wish = NoWish

There == torrent.state # "none"
Settled == torrent.state = "done" /\ alerts = <<>> /\ moves = <<>>
InTemp == torrent.at = "temp" \/ \E h \in Hashes : intended[h] # None

\* What get_best() says of it once the metadata is there
Best == IF config.hybrid THEN "v2" ELSE "v1"

-----------------------------------------------------------------------------
(* libtorrent *)

MetadataArrives ==
  /\ torrent.state = "downloading" /\ ~torrent.meta
  /\ torrent' = [torrent EXCEPT !.meta = TRUE]
  /\ alerts' = Append(alerts, "metadata")
  /\ UNCHANGED <<moves, key, intended, stop, muted, config, wish>>

\* All of it is there: downloaded, or found by a check
Completes ==
  /\ torrent.meta /\ torrent.state \in {"downloading", "checking"}
  /\ torrent' = [torrent EXCEPT !.payload = @ \/ torrent.state = "downloading", !.state = "done"]
  /\ alerts' = Append(alerts, "finished")
  /\ UNCHANGED <<moves, key, intended, stop, muted, config, wish>>

MoveIsMade ==
  /\ moves # <<>>
  /\ torrent' = [torrent EXCEPT !.at = Head(moves)]
  /\ moves' = Tail(moves)
  /\ UNCHANGED <<alerts, key, intended, stop, muted, config, wish>>

\* Bound: once for each torrent
MoveFails ==
  /\ moves # <<>> /\ ~wish.failed
  /\ moves' = Tail(moves)
  /\ alerts' = Append(alerts, "failed")
  /\ wish' = [wish EXCEPT !.failed = TRUE]
  /\ UNCHANGED <<torrent, key, intended, stop, muted, config>>

-----------------------------------------------------------------------------
(* The session's handlers *)

\* onStateUpdate
StatusUpdate ==
  /\ There
  /\ torrent' = [torrent EXCEPT !.seen = torrent.state = "downloading"]
  /\ UNCHANGED <<moves, alerts, key, intended, stop, muted, config, wish>>

Handle(alert) ==
  /\ alerts # <<>> /\ Head(alerts) = alert
  /\ alerts' = Tail(alerts)

Rekeyed(map, old, new) == [map EXCEPT ![new] = map[old], ![old] = None]

\* Mutant: the folder stays under the magnet's first hash.
OnMetadataReceivedKeepsPath ==
  /\ Handle("metadata")
  /\ key' = Best
  /\ stop' = IF key \in stop /\ Best # key THEN (stop \ {key}) \cup {Best} ELSE stop
  /\ UNCHANGED <<torrent, moves, intended, muted, config, wish>>

\* Mutant: so does the wish to stop.
OnMetadataReceivedKeepsStop ==
  /\ Handle("metadata")
  /\ key' = Best
  /\ intended' = IF Best # key /\ intended[key] # None THEN Rekeyed(intended, key, Best) ELSE intended
  /\ UNCHANGED <<torrent, moves, stop, muted, config, wish>>

\* What was noted under the magnet's hash moves to the hash of the metadata.
OnMetadataReceived ==
  /\ Handle("metadata")
  /\ key' = Best
  /\ intended' = IF Best # key /\ intended[key] # None THEN Rekeyed(intended, key, Best) ELSE intended
  /\ stop' = IF key \in stop /\ Best # key THEN (stop \ {key}) \cup {Best} ELSE stop
  /\ UNCHANGED <<torrent, moves, muted, config, wish>>

\* The folder remembered for it, else the automatic move's, else none
Destination == IF intended[Best] # None THEN intended[Best]
               ELSE IF config.auto THEN "auto" ELSE None

\* Mutant: a torrent that a check found complete is taken for a download.
OnTorrentFinishedAny ==
  /\ Handle("finished")
  /\ moves' = IF Destination # None THEN Append(moves, Destination) ELSE moves
  /\ intended' = [intended EXCEPT ![Best] = None]
  /\ torrent' = [torrent EXCEPT !.paused = @ \/ Best \in stop]
  /\ wish' = IF Best \notin muted /\ wish.told < 2 THEN [wish EXCEPT !.told = @ + 1] ELSE wish
  /\ UNCHANGED <<key, stop, muted, config>>

\* Only what was downloaded since the launch is moved, stopped and told.
OnTorrentFinished ==
  /\ Handle("finished")
  /\ IF torrent.payload
       THEN /\ moves' = IF Destination # None THEN Append(moves, Destination) ELSE moves
            /\ intended' = [intended EXCEPT ![Best] = None]
            /\ torrent' = [torrent EXCEPT !.paused = @ \/ Best \in stop]
            /\ wish' = IF Best \notin muted /\ wish.told < 2
                       THEN [wish EXCEPT !.told = @ + 1] ELSE wish
       ELSE UNCHANGED <<moves, intended, torrent, wish>>
  /\ UNCHANGED <<key, stop, muted, config>>

\* The torrent is checked again.
OnStorageMovedFailed ==
  /\ Handle("failed")
  /\ torrent' = IF torrent.meta THEN [torrent EXCEPT !.state = "checking"] ELSE torrent
  /\ UNCHANGED <<moves, key, intended, stop, muted, config, wish>>

-----------------------------------------------------------------------------
(* The user *)

\* A file has its metadata and one hash; a magnet has neither.  A hybrid file's hash
\* is the second one from the start.
Add(magnet) ==
  /\ ~There
  /\ "readd" \in FinishOps \/ muted = {}
  /\ key' = IF magnet THEN "v1" ELSE Best
  /\ torrent' = [NoTorrent EXCEPT !.state = "downloading", !.seen = TRUE, !.meta = ~magnet,
                                  !.at = IF config.temp THEN "temp" ELSE "home"]
  /\ intended' = IF config.temp THEN [intended EXCEPT ![key'] = "home"] ELSE intended
  /\ wish' = [NoWish EXCEPT !.auto = config.auto]
  /\ UNCHANGED <<moves, alerts, stop, muted, config>>

\* The folder remembered for the torrent stays; so does what mutes it.
RemoveTorrent ==
  /\ There /\ moves = <<>> /\ alerts = <<>>
  /\ torrent' = NoTorrent
  /\ stop' = stop \ {key}
  /\ wish' = NoWish
  /\ UNCHANGED <<moves, alerts, key, intended, muted, config>>

\* What setTorrentCategory goes by is the cached status.
SeenDownloading ==
  There /\ torrent.seen /\ ("lag" \in FinishOps \/ torrent.state = "downloading")

\* Mutant: a torrent in the temporary folder is moved at once.
SetTorrentCategoryAtOnce ==
  /\ SeenDownloading /\ Len(moves) < 1
  /\ moves' = Append(moves, "category")
  /\ wish' = [wish EXCEPT !.at = "category"]
  /\ UNCHANGED <<torrent, alerts, key, intended, stop, muted, config>>

\* To a category with a folder of its own, while it downloads
SetTorrentCategory ==
  /\ SeenDownloading /\ Len(moves) < 1
  /\ IF config.temp THEN intended' = [intended EXCEPT ![key] = "category"] /\ UNCHANGED moves
                    ELSE moves' = Append(moves, "category") /\ UNCHANGED intended
  /\ wish' = [wish EXCEPT !.at = "category"]
  /\ UNCHANGED <<torrent, alerts, key, stop, muted, config>>

\* Once it has finished, or before when it is told to
MoveStorage ==
  /\ There /\ Len(moves) < 1 /\ alerts = <<>>
  /\ torrent.state = "done" \/ "move" \in FinishOps
  /\ moves' = Append(moves, "elsewhere")
  /\ wish' = [wish EXCEPT !.at = "elsewhere", !.auto = @ /\ torrent.state # "done"]
  /\ UNCHANGED <<torrent, alerts, key, intended, stop, muted, config>>

SetStopAfterDownload(on) ==
  /\ There /\ torrent.state = "downloading"
  /\ stop' = IF on THEN stop \cup {key} ELSE stop \ {key}
  /\ wish' = [wish EXCEPT !.stop = on]
  /\ UNCHANGED <<torrent, moves, alerts, key, intended, muted, config>>

SetAutoMove ==
  /\ config' = [config EXCEPT !.auto = ~@]
  /\ wish' = [wish EXCEPT !.auto = @ \/ (There /\ ~Settled)]
  /\ UNCHANGED <<torrent, moves, alerts, key, intended, stop, muted>>

SetTempPath ==
  /\ "toggle" \in FinishOps \/ (~There /\ ~InTemp)
  /\ config' = [config EXCEPT !.temp = ~@]
  /\ UNCHANGED <<torrent, moves, alerts, key, intended, stop, muted, wish>>

\* Quit and launch: what is complete is noted as such and checked, moves have ended,
\* and nothing remembers a folder.
Restart ==
  /\ alerts = <<>> /\ moves = <<>>
  /\ "restart" \in FinishOps \/ ~InTemp
  /\ intended' = [h \in Hashes |-> None]
  /\ muted' = IF torrent.state = "done" THEN {Best} ELSE {}
  /\ torrent' = [torrent EXCEPT !.payload = FALSE, !.seen = torrent.state = "downloading",
                                !.state = IF @ = "done" THEN "checking" ELSE @]
  /\ UNCHANGED <<moves, alerts, key, stop, config, wish>>

Next ==
  \/ MetadataArrives \/ Completes \/ MoveIsMade \/ MoveFails
  \/ StatusUpdate \/ OnMetadataReceived \/ OnTorrentFinished \/ OnStorageMovedFailed
  \/ \E magnet \in BOOLEAN : Add(magnet)
  \/ RemoveTorrent \/ SetTorrentCategory \/ MoveStorage
  \/ \E on \in BOOLEAN : SetStopAfterDownload(on)
  \/ SetAutoMove \/ SetTempPath \/ Restart

Spec == Init /\ [][Next]_finish

-----------------------------------------------------------------------------
(* Properties *)

\* When everything has come to rest a finished torrent is where the user chose it to
\* be, whatever folder it was downloaded to, whatever hash it had then, and however
\* often it was checked again; unless the automatic move was on at some time, or a
\* move could not be made.
EndsWhereChosen == Settled /\ ~wish.auto /\ ~wish.failed => torrent.at = wish.at

\* A torrent that was to stop when downloaded is paused then, under either hash.
StopsAsAsked == Settled /\ torrent.payload /\ wish.stop => torrent.paused

\* A download's end is told once: not never, and not again by the next launch's check.
ToldOnce == Settled /\ ~wish.failed /\ (torrent.payload \/ wish.told > 0) => wish.told = 1

\* How a download ends, once all has come to rest
FinishIsOrderly == TypeOK /\ EndsWhereChosen /\ StopsAsAsked /\ ToldOnce

\* Not kept by the code: it is told once, too, when the torrent is checked again
\* because its files could not be moved.
ToldOnceInAll == wish.told < 2

-----------------------------------------------------------------------------
(* The inductive invariant of the proofs, for FinishOps = {} *)

Waits(alert) == \E i \in DOMAIN alerts : alerts[i] = alert

\* libtorrent tells first of the metadata, then of the end, and once of a failed move;
\* what is not there has nothing under way.
AlertsInOrder ==
  /\ ~There => torrent = NoTorrent /\ moves = <<>> /\ alerts = <<>>
  /\ \A i \in DOMAIN alerts :
       /\ alerts[i] \in {"metadata", "finished"} => torrent.meta
       /\ alerts[i] = "finished" => torrent.state # "downloading"
       /\ alerts[i] = "failed" => wish.failed
  /\ \A i, j \in DOMAIN alerts : i < j =>
       /\ alerts[j] = "metadata" => alerts[i] = "failed"
       /\ alerts[j] = "failed" => alerts[i] # "failed"

\* Each move under way, alert to come and completion to come is at most one move.
MovesAreFew ==
  Len(moves) + Len(alerts) + (IF torrent.state \in {"downloading", "checking"} THEN 1 ELSE 0)
    <= 3 + (IF Waits("metadata") THEN 1 ELSE 0)

\* The wish to stop is noted under the hash that the end will be handled with.
StopIsNoted ==
  /\ There /\ torrent.meta /\ ~Waits("metadata") => key = Best
  /\ There /\ wish.stop => key \in stop
  /\ torrent.state = "downloading" => ~torrent.payload
  /\ torrent.payload /\ wish.stop => torrent.paused \/ Waits("finished")

\* The download has not ended, or its end has not been handled.
EndsLater == torrent.state = "downloading" \/ (torrent.payload /\ Waits("finished"))

\* Where the moves under way take the torrent
BoundFor == IF moves = <<>> THEN torrent.at ELSE moves[Len(moves)]

\* While no move fails, the end is told when it is handled, and what then remains to
\* be moved goes where the user wants it.
EndIsPrepared ==
  /\ ~config.temp => \A h \in Hashes : intended[h] = None
  /\ There /\ ~wish.failed =>
       /\ torrent.state = "checking" => ~torrent.payload
       /\ Waits("finished") => torrent.state = "done"
       /\ \A i, j \in DOMAIN alerts : i < j => "finished" \notin {alerts[i]} \cap {alerts[j]}
       /\ IF EndsLater
          THEN /\ wish.told = 0 /\ muted = {}
               /\ ~wish.auto => ~config.auto
               /\ config.temp => /\ moves = <<>> /\ torrent.at = "temp"
                                 /\ intended[key] # None
                                 /\ wish.auto \/ intended[key] = wish.at
          ELSE wish.told = 1
       /\ wish.auto \/ (EndsLater /\ config.temp) \/ BoundFor = wish.at

FinishInv == Typed /\ AlertsInOrder /\ MovesAreFew /\ StopIsNoted /\ EndIsPrepared
=============================================================================
