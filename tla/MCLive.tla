-------------------------------- MODULE MCLive --------------------------------
(***************************************************************************)
(* What must happen in the end, in the components of MCSession and         *)
(* MCServices that promise it, and in direct downloads, at bounds small    *)
(* enough for the whole graph.                                             *)
(* A behaviour is one of one component, chosen at the start.               *)
(***************************************************************************)
EXTENDS Integers

CONSTANTS file1, file2, film, game, none, p1, p2, place1, place2, r1, r2, s1, s2, source1,
  torrent1

VARIABLES
  part,  \* which component this behaviour is of
  \* and the variables of that component, in the order in which it declares them
  v1, v2, v3, v4, v5, v6, v7, v8, v9, v10, v11, v12, v13, v14, v15

Bandwidth == INSTANCE BandwidthSchedule WITH
  Days <- 2, Hours <- 2, Limits <- {0}, AltLimits <- {0, 2}, normal <- v1, alt <- v2,
  altOn <- v3, enabled <- v4, window <- v5, applied <- v6, clock <- v7, shown <- v8,
  chosen <- v9
Missing == INSTANCE MissingFiles WITH
  Torrents <- {torrent1}, Places <- {place1, place2}, ProbeOps <- {}, data <- v1,
  path <- v2, listed <- v3, held <- v4, written <- v5, cached <- v6, fresh <- v7,
  looking <- v8, notFound <- v9, flagged <- v10, seen <- v11, acted <- v12,
  setting <- v13, wasGone <- v14, user <- v15
Trash == INSTANCE TrashRetries WITH
  Owners <- {torrent1}, FilesOf <- [t \in {torrent1} |-> {file1, file2}],
  MaxAttempts <- 1, Early <- FALSE, present <- v1, open <- v2, adopted <- v3,
  jobs <- v4, pending <- v5, asked <- v6, givenUp <- v7
Stream == INSTANCE StreamWindows WITH
  PieceSize <- 2, Offset <- 1, Size <- 4, Chunk <- 2, Window <- 2, Tail <- 1,
  Head <- 2, Readers <- {r1, r2}, Starts <- {0, 3}, StreamOps <- {}, have <- v1,
  plan <- v2, reader <- v3, guard <- v4, paused <- v5, listed <- v6, disguised <- v7
Feed == INSTANCE MediaFeed WITH
  Size <- 12, Window <- 8, KeepBehind <- 1, NearAhead <- 2, ReadAhead <- 1,
  Jumps <- {0, 9}, Ends <- 1, FeedOps <- {"deaf"}, at <- v1, question <- v2,
  answer <- v3, failed <- v4, buf <- v5, reader <- v6, reply <- v7, retried <- v8,
  ends <- v9
Frames == INSTANCE MediaRing WITH
  Slots <- {s1, s2}, Sizes <- {1, 2}, MaxRings <- 2, MaxFlight <- 3, memory <- v1,
  uiRing <- v2, ring <- v3, asked <- v4, toUi <- v5, toDecoder <- v6, next <- v7,
  shown <- v8
Control == INSTANCE MediaControl WITH
  Sources <- {source1}, MaxWire <- 3, MaxGens <- 2, ControlOps <- {}, player <- v1,
  channel <- v2, feeds <- v3, restart <- v4, wire <- v5, decoder <- v6
Desk == INSTANCE WatchDesk WITH
  Hashes <- {torrent1}, Files <- {1, 2}, TailFirst <- {2}, Fakes <- {2},
  MaxAsks <- 2, WatchOps <- {}, torrent <- v1, watch <- v2, pick <- v3,
  pickedFiles <- v4, held <- v5, waiting <- v6, players <- v7, asks <- v8,
  alone <- v9, owed <- v10, wrong <- v11
Search == INSTANCE SearchPage WITH
  Providers <- {p1, p2}, MaxSearches <- 2, MaxNames <- 1, SearchOps <- {"fails"},
  page <- v1, made <- v2, pending <- v3, rows <- v4, asked <- v5, index <- v6,
  waiting <- v7, titles <- v8, get <- v9, added <- v10, orderly <- v11
Resolver == INSTANCE MetadataResolver WITH
  Films <- {}, Games <- {film, game}, MaxWords <- 1, MaxUnderWay <- 2, queue <- v1,
  collections <- v2, requestInFlight <- v3, net <- v4, limiter <- v5, token <- v6,
  igdbPending <- v7, manual <- v8, cache <- v9, askedOf <- v10, word <- v11,
  words <- v12, happened <- v13
Install == INSTANCE GameInstall WITH
  Slots <- {s1, s2}, InstallOps <- {}, config <- v1, torrent <- v2, app <- v3,
  disk <- v4, machine <- v5, halfRun <- v6, unfair <- v7, owned <- v8
Fetch == INSTANCE HttpDownload WITH
  Downloads <- {torrent1}, FileName <- [d \in {torrent1} |-> d], Conns <- 2,
  Servers <- {"ranges"}, Sizes <- {3}, MaxChunk <- 2, Inodes <- {1, 2, 3}, None <- none,
  Ops <- {"pause", "fail", "short", "diskfull"}, up <- v1, dl <- v2, saved <- v3,
  saveDue <- v4, path <- v5, file <- v6, remote <- v7, spoilt <- v8

vars == <<part, v1, v2, v3, v4, v5, v6, v7, v8, v9, v10, v11, v12, v13, v14, v15>>

Init ==
  \/ part = "bandwidth" /\ Bandwidth!Init
     /\ v10 = 0 /\ v11 = 0 /\ v12 = 0 /\ v13 = 0 /\ v14 = 0 /\ v15 = 0
  \/ part = "missing" /\ Missing!Init
  \/ part = "trash" /\ Trash!Init
     /\ v8 = 0 /\ v9 = 0 /\ v10 = 0 /\ v11 = 0 /\ v12 = 0 /\ v13 = 0 /\ v14 = 0 /\ v15 = 0
  \/ part = "stream" /\ Stream!Init
     /\ v8 = 0 /\ v9 = 0 /\ v10 = 0 /\ v11 = 0 /\ v12 = 0 /\ v13 = 0 /\ v14 = 0 /\ v15 = 0
  \/ part = "feed" /\ Feed!Init
     /\ v10 = 0 /\ v11 = 0 /\ v12 = 0 /\ v13 = 0 /\ v14 = 0 /\ v15 = 0
  \/ part = "frames" /\ Frames!Init
     /\ v9 = 0 /\ v10 = 0 /\ v11 = 0 /\ v12 = 0 /\ v13 = 0 /\ v14 = 0 /\ v15 = 0
  \/ part = "control" /\ Control!Init
     /\ v7 = 0 /\ v8 = 0 /\ v9 = 0 /\ v10 = 0 /\ v11 = 0 /\ v12 = 0 /\ v13 = 0 /\ v14 = 0 /\ v15 = 0
  \/ part = "desk" /\ Desk!Init
     /\ v12 = 0 /\ v13 = 0 /\ v14 = 0 /\ v15 = 0
  \/ part = "search" /\ Search!Init
     /\ v12 = 0 /\ v13 = 0 /\ v14 = 0 /\ v15 = 0
  \/ part = "resolver" /\ Resolver!Init
     /\ v14 = 0 /\ v15 = 0
  \/ part = "install" /\ Install!Init
     /\ v9 = 0 /\ v10 = 0 /\ v11 = 0 /\ v12 = 0 /\ v13 = 0 /\ v14 = 0 /\ v15 = 0
  \/ part = "fetch" /\ Fetch!Init
     /\ v9 = 0 /\ v10 = 0 /\ v11 = 0 /\ v12 = 0 /\ v13 = 0 /\ v14 = 0 /\ v15 = 0

BandwidthMoves == part = "bandwidth" /\ UNCHANGED <<part, v10, v11, v12, v13, v14, v15>>
MissingMoves == part = "missing" /\ UNCHANGED <<part>>
TrashMoves == part = "trash" /\ UNCHANGED <<part, v8, v9, v10, v11, v12, v13, v14, v15>>
StreamMoves == part = "stream" /\ UNCHANGED <<part, v8, v9, v10, v11, v12, v13, v14, v15>>
FeedMoves == part = "feed" /\ UNCHANGED <<part, v10, v11, v12, v13, v14, v15>>
FramesMoves == part = "frames" /\ UNCHANGED <<part, v9, v10, v11, v12, v13, v14, v15>>
ControlMoves == part = "control" /\ UNCHANGED <<part, v7, v8, v9, v10, v11, v12, v13, v14, v15>>
DeskMoves == part = "desk" /\ UNCHANGED <<part, v12, v13, v14, v15>>
SearchMoves == part = "search" /\ UNCHANGED <<part, v12, v13, v14, v15>>
ResolverMoves == part = "resolver" /\ UNCHANGED <<part, v14, v15>>
InstallMoves == part = "install" /\ UNCHANGED <<part, v9, v10, v11, v12, v13, v14, v15>>
FetchMoves == part = "fetch" /\ UNCHANGED <<part, v9, v10, v11, v12, v13, v14, v15>>

Next ==
  \/ BandwidthMoves /\ Bandwidth!Next
  \/ MissingMoves /\ Missing!Next
  \/ TrashMoves /\ Trash!Next
  \/ StreamMoves /\ Stream!Next
  \/ FeedMoves /\ Feed!Next
  \/ FramesMoves /\ Frames!Next
  \/ ControlMoves /\ Control!Next
  \/ DeskMoves /\ Desk!Next
  \/ SearchMoves /\ Search!Next
  \/ ResolverMoves /\ Resolver!Next
  \/ InstallMoves /\ Install!Next
  \/ FetchMoves /\ Fetch!Next

\* A behaviour is of one component: each line is the fairness of one step of it.
Fairness ==
  /\ WF_vars(\/ BandwidthMoves /\ Bandwidth!CheckBandwidthSchedule
             \/ MissingMoves /\ Missing!StateUpdate
             \/ TrashMoves /\ Trash!JobFor(file1)
             \/ StreamMoves /\ Stream!Pumps(r1)
             \/ FeedMoves /\ Feed!OnHttpData
             \/ FramesMoves /\ Frames!AttachRing
             \/ ControlMoves /\ Control!FeedAnswers
             \/ DeskMoves /\ Desk!Tick(torrent1)
             \/ SearchMoves /\ Search!AnswerComes
             \/ ResolverMoves /\ Resolver!QueryAnswers
             \/ InstallMoves /\ Install!JobsEnd
             \/ FetchMoves /\ Fetch!TimePasses(torrent1))
  /\ WF_vars(\/ MissingMoves /\ Missing!Searches
             \/ TrashMoves /\ Trash!JobFor(file2)
             \/ StreamMoves /\ Stream!Pumps(r2)
             \/ FeedMoves /\ Feed!BytesArrive
             \/ FramesMoves /\ Frames!Release
             \/ ControlMoves /\ Control!Hello
             \/ DeskMoves /\ \E f \in {1, 2} : Desk!DataArrives(torrent1, f)
             \/ ResolverMoves /\ Resolver!RateLimiterFires
             \/ InstallMoves /\ Install!ChainsEnd
             \/ FetchMoves /\ Fetch!GivesUp(torrent1))
  /\ WF_vars(\/ FramesMoves /\ Frames!ShareRing
             \/ ControlMoves /\ Control!OnChildLost
             \/ ResolverMoves /\ Resolver!PosterEndsFor(film))
  /\ WF_vars(\/ FramesMoves /\ Frames!RingReady
             \/ ControlMoves /\ Control!RestartInSoftware
             \/ ResolverMoves /\ Resolver!PosterEndsFor(game))
  /\ WF_vars(\/ FramesMoves /\ Frames!ShowFrame
             \/ ControlMoves /\ Control!SaysHello
             \/ ResolverMoves /\ Resolver!TokenRequestEnds)
  /\ WF_vars(\/ ControlMoves /\ Control!Obeys)
  /\ SF_vars(StreamMoves /\ Stream!UrgentPieceFinishes)

Spec == Init /\ [][Next]_vars /\ Fairness

-----------------------------------------------------------------------------
(* What is checked, as stated and explained in each module.  A behaviour is of  *)
(* one component, so what lags is a thing of that component.                    *)

SessionLags(i) ==
  \/ part = "bandwidth" /\ Bandwidth!OutOfStep(i = 1)
  \/ part = "missing" /\ Missing!Unflagged(torrent1) /\ i = 1
  \/ part = "missing" /\ Missing!StillFlagged(torrent1) /\ i = 2
  \/ part = "trash" /\ Trash!Undeleted(IF i = 1 THEN file1 ELSE file2)

\* The schedule rules, what is lost is flagged, what is to be deleted goes.
SessionGetsOn == \A i \in 1 .. 2 : SessionLags(i) ~> ~SessionLags(i)

PlayerLags(i) ==
  \/ part = "stream" /\ Stream!Starves(IF i = 1 THEN r1 ELSE r2)
  \/ part = "feed" /\ Feed!Unanswered
  \/ part = "frames" /\ Frames!Outgrown
  \/ part = "control" /\ Control!NotPlaying
  \/ part = "desk" /\ Desk!Watching(torrent1)

\* Readers and the decoder's questions are served, a larger picture gets its room,
\* what is to play plays or is said to fail, and a wait ends.
PlayerGetsOn == \A i \in 1 .. 2 : PlayerLags(i) ~> ~PlayerLags(i)

ServicesLag(i) ==
  \/ part = "search" /\ Search!Unfinished
  \/ part = "resolver" /\ Resolver!Unlinked(IF i = 1 THEN film ELSE game)
  \/ part = "install" /\ Install!Unpacking

\* A search, a re-link and an unpacking end.
ServicesGetOn == \A i \in 1 .. 2 : ServicesLag(i) ~> ~ServicesLag(i)

FetchLags == part = "fetch" /\ Fetch!InFlight(torrent1)

\* A download does not stay in its running state for ever: it completes, is
\* stopped, or the sampler gives it up (the stall detection of start()).
FetchEnds == FetchLags ~> ~FetchLags
=============================================================================
