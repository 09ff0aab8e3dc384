------------------------------ MODULE MCSession ------------------------------
(***************************************************************************)
(* The components of the session, and of playback, that share no state in  *)
(* what is modelled of them. A behaviour is one of one component, chosen   *)
(* at the start, so one run checks each of them in full and no product of  *)
(* them.                                                                   *)
(***************************************************************************)
EXTENDS Integers, FiniteSets

CONSTANTS
  Days, Hours, Limits, AltLimits,          \* of BandwidthSchedule
  Owners, TrashFiles, MaxAttempts, Early,  \* of TrashRetries
  Searched, Places,                        \* of MissingFiles
  PieceSize, Offset, FileSize, Chunk, Window, EndPieces, HeadBytes, Readers, Starts,  \* of StreamWindows
  Urls, Links, Magnets, Wanted, Publishes, KeepLinks,  \* of RssFeeds
  Waiting, MaxRows,                        \* of StagedAdds
  MediaSize, MediaWindow, KeepBehind, NearAhead, ReadAhead, Jumps, EarlyEnds,  \* of MediaFeed
  Slots, Sizes, MaxRings, MaxFlight,       \* of MediaRing
  Sources, MaxWire, MaxGens,               \* of MediaControl
  Watched, Videos, TailFirst, Fakes, MaxAsks,  \* of WatchDesk
  \* and what the other components are checked with
  file1, file2, link, magnet, torrent1, u1, u2

ASSUME WeekAssumption == Days \in Nat \ {0} /\ Hours \in Nat \ {0}
ASSUME AttemptsAssumption == MaxAttempts \in Nat
ASSUME PlacesAssumption == "gone" \notin Places
ASSUME BytesAssumption ==
  /\ PieceSize \in Nat \ {0} /\ Offset \in Nat /\ FileSize \in Nat \ {0}
  /\ Chunk \in Nat \ {0} /\ Window \in Nat \ {0} /\ EndPieces \in Nat /\ HeadBytes \in Nat
  /\ Starts \subseteq 0 .. FileSize - 1
ASSUME LinksAssumption == KeepLinks \in Nat /\ IsFiniteSet(Links) /\ Cardinality(Links) <= KeepLinks

ASSUME RowsAssumption == MaxRows \in Nat \ {0}
ASSUME MediaAssumption ==
  /\ MediaSize \in Nat \ {0} /\ MediaWindow \in Nat \ {0} /\ ReadAhead \in Nat \ {0}
  /\ {KeepBehind, NearAhead, EarlyEnds} \subseteq Nat /\ Jumps \subseteq 0 .. MediaSize
ASSUME RingsAssumption ==
  /\ MaxRings \in Nat /\ MaxFlight \in Nat /\ Sizes \subseteq Nat \ {0}
  /\ \E n \in Sizes : \A m \in Sizes : m <= n
ASSUME ControlAssumption == MaxWire \in Nat /\ MaxGens \in Nat
ASSUME DeskAssumption == Watched # {} /\ Videos \subseteq Nat \ {0} /\ MaxAsks \in Nat

\* For TLC: a torrent of two files, and what two feeds publish
TwoFiles == [t \in {torrent1} |-> {file1, file2}]
TwoFeeds == {<<u1, magnet>>, <<u2, magnet>>, <<u2, link>>}

VARIABLES
  part,  \* which component this behaviour is of
  \* and the variables of that component, in the order in which it declares them
  v1, v2, v3, v4, v5, v6, v7, v8, v9, v10, v11, v12, v13, v14, v15

Bandwidth == INSTANCE BandwidthSchedule WITH
  normal <- v1, alt <- v2, altOn <- v3, enabled <- v4, window <- v5, applied <- v6,
  clock <- v7, shown <- v8, chosen <- v9
Staging == INSTANCE StagedAdds WITH
  Hashes <- Waiting, MaxRows <- MaxRows, WindowOps <- {}, entry <- v1,
  news <- v2, staged <- v3, rows <- v4, torrent <- v5, alert <- v6, saved <- v7,
  choice <- v8
Missing == INSTANCE MissingFiles WITH
  Torrents <- Searched, Places <- Places, ProbeOps <- {}, data <- v1,
  path <- v2, listed <- v3, held <- v4, written <- v5, cached <- v6, fresh <- v7,
  looking <- v8, notFound <- v9, flagged <- v10, seen <- v11, acted <- v12,
  setting <- v13, wasGone <- v14, user <- v15
Trash == INSTANCE TrashRetries WITH
  FilesOf <- TrashFiles, present <- v1, open <- v2, adopted <- v3, jobs <- v4,
  pending <- v5, asked <- v6, givenUp <- v7
Finish == INSTANCE FinishMoves WITH
  FinishOps <- {}, torrent <- v1, moves <- v2, alerts <- v3, key <- v4,
  intended <- v5, stop <- v6, muted <- v7, config <- v8, wish <- v9
Rss == INSTANCE RssFeeds WITH
  Urls <- Urls, Links <- Links, Magnets <- Magnets, Wanted <- Wanted,
  Publishes <- Publishes, KeepLinks <- KeepLinks,
  feeds <- v1, items <- v2, links <- v3, saved <- v4, checks <- v5, fetches <- v6,
  checked <- v7, asked <- v8, handed <- v9, dropped <- v10, failed <- v11
Stream == INSTANCE StreamWindows WITH
  PieceSize <- PieceSize, Offset <- Offset, Size <- FileSize, Chunk <- Chunk,
  Window <- Window, Tail <- EndPieces, Head <- HeadBytes, Readers <- Readers, Starts <- Starts,
  StreamOps <- {"missing", "short"}, have <- v1,
  plan <- v2, reader <- v3, guard <- v4, paused <- v5, listed <- v6, disguised <- v7
Feed == INSTANCE MediaFeed WITH
  Size <- MediaSize, Window <- MediaWindow, KeepBehind <- KeepBehind, NearAhead <- NearAhead,
  ReadAhead <- ReadAhead, Jumps <- Jumps, Ends <- EarlyEnds, FeedOps <- {"deaf"}, at <- v1, question <- v2,
  answer <- v3, failed <- v4, buf <- v5, reader <- v6, reply <- v7, retried <- v8,
  ends <- v9
Frames == INSTANCE MediaRing WITH
  Slots <- Slots, Sizes <- Sizes, MaxRings <- MaxRings, MaxFlight <- MaxFlight, memory <- v1,
  uiRing <- v2, ring <- v3, asked <- v4, toUi <- v5, toDecoder <- v6, next <- v7,
  shown <- v8
Control == INSTANCE MediaControl WITH
  Sources <- Sources, MaxWire <- MaxWire, MaxGens <- MaxGens, ControlOps <- {},
  player <- v1, channel <- v2, feeds <- v3, restart <- v4, wire <- v5, decoder <- v6
Desk == INSTANCE WatchDesk WITH
  Hashes <- Watched, Files <- Videos, TailFirst <- TailFirst, Fakes <- Fakes,
  MaxAsks <- MaxAsks, WatchOps <- {"flaps"}, torrent <- v1, watch <- v2, pick <- v3,
  pickedFiles <- v4, held <- v5, waiting <- v6, players <- v7, asks <- v8,
  alone <- v9, owed <- v10, wrong <- v11

vars == <<part, v1, v2, v3, v4, v5, v6, v7, v8, v9, v10, v11, v12, v13, v14, v15>>

Init ==
  \/ part = "bandwidth" /\ Bandwidth!Init
     /\ v10 = 0 /\ v11 = 0 /\ v12 = 0 /\ v13 = 0 /\ v14 = 0 /\ v15 = 0
  \/ part = "staging" /\ Staging!Init
     /\ v9 = 0 /\ v10 = 0 /\ v11 = 0 /\ v12 = 0 /\ v13 = 0 /\ v14 = 0 /\ v15 = 0
  \/ part = "missing" /\ Missing!Init
  \/ part = "trash" /\ Trash!Init
     /\ v8 = 0 /\ v9 = 0 /\ v10 = 0 /\ v11 = 0 /\ v12 = 0 /\ v13 = 0 /\ v14 = 0 /\ v15 = 0
  \/ part = "finish" /\ Finish!Init
     /\ v10 = 0 /\ v11 = 0 /\ v12 = 0 /\ v13 = 0 /\ v14 = 0 /\ v15 = 0
  \/ part = "rss" /\ Rss!Init
     /\ v12 = 0 /\ v13 = 0 /\ v14 = 0 /\ v15 = 0
  \/ part = "stream" /\ Stream!Init
     /\ v8 = 0 /\ v9 = 0 /\ v10 = 0 /\ v11 = 0 /\ v12 = 0 /\ v13 = 0 /\ v14 = 0 /\ v15 = 0
  \/ part = "feed" /\ Feed!Init
     /\ v10 = 0 /\ v11 = 0 /\ v12 = 0 /\ v13 = 0 /\ v14 = 0 /\ v15 = 0
  \/ part = "frames" /\ Frames!Init
     /\ v9 = 0 /\ v10 = 0 /\ v11 = 0 /\ v12 = 0 /\ v13 = 0 /\ v14 = 0 /\ v15 = 0
  \/ part = "control" /\ Control!Init
     /\ v7 = 0 /\ v8 = 0 /\ v9 = 0 /\ v10 = 0 /\ v11 = 0 /\ v12 = 0 /\ v13 = 0 /\ v14 = 0 /\ v15 = 0
  \/ part = "desk" /\ Desk!Init
     /\ v12 = 0 /\ v13 = 0 /\ v14 = 0 /\ v15 = 0


Next ==
  \/ part = "bandwidth" /\ UNCHANGED <<part, v10, v11, v12, v13, v14, v15>> /\ Bandwidth!Next
  \/ part = "staging" /\ UNCHANGED <<part, v9, v10, v11, v12, v13, v14, v15>> /\ Staging!Next
  \/ part = "missing" /\ UNCHANGED <<part>> /\ Missing!Next
  \/ part = "trash" /\ UNCHANGED <<part, v8, v9, v10, v11, v12, v13, v14, v15>> /\ Trash!Next
  \/ part = "finish" /\ UNCHANGED <<part, v10, v11, v12, v13, v14, v15>> /\ Finish!Next
  \/ part = "rss" /\ UNCHANGED <<part, v12, v13, v14, v15>> /\ Rss!Next
  \/ part = "stream" /\ UNCHANGED <<part, v8, v9, v10, v11, v12, v13, v14, v15>> /\ Stream!Next
  \/ part = "feed" /\ UNCHANGED <<part, v10, v11, v12, v13, v14, v15>> /\ Feed!Next
  \/ part = "frames" /\ UNCHANGED <<part, v9, v10, v11, v12, v13, v14, v15>> /\ Frames!Next
  \/ part = "control" /\ UNCHANGED <<part, v7, v8, v9, v10, v11, v12, v13, v14, v15>> /\ Control!Next
  \/ part = "desk" /\ UNCHANGED <<part, v12, v13, v14, v15>> /\ Desk!Next

Spec == Init /\ [][Next]_vars

-----------------------------------------------------------------------------
(* What is checked, as stated and explained in each module *)

\* The limit in force is the one the state asks for, after any mix of the schedule,
\* the button and the limits page; windows are as long as their hours say.
LimitsAreRight == part = "bandwidth" => Bandwidth!LimitsAreRight

\* The search for missing files pauses only torrents whose data was really gone,
\* and not again what the user resumed.
SearchIsFair ==
  /\ [](part = "missing" => Missing!TypeOK)
  /\ [][part = "missing" => Missing!SearchStep]_vars

\* A file that is to go is deleted, due for another try, or in the settings for the
\* next launch.
DeletionGoesOn == part = "trash" => Trash!DeletionGoesOn

\* A finished torrent ends in the folder the user chose, stops if it was to stop,
\* and is told of once.
FinishIsOrderly == part = "finish" => Finish!FinishIsOrderly

\* Items are of their feed, what was added stays marked, and the timer asks a feed
\* only after its interval.
FeedsAreSound ==
  /\ [](part = "rss" => Rss!FeedsHold)
  /\ [][part = "rss" => Rss!TimerHonoursIntervals]_vars

\* Readers get exactly the bytes that are there, a window's pieces have deadlines,
\* and nothing of a disguised file is sent.
StreamIsSound ==
  /\ [](part = "stream" => Stream!StreamHolds)
  /\ [][part = "stream" => Stream!TailSurvivesSeeks]_vars

\* What is entered in the add window leaves no trace while it waits, and is added
\* as the user chose.
WindowIsHonest == part = "staging" => Staging!WindowIsHonest

\* The player shows the pictures that were announced, made of the bytes that were
\* asked for, does what was wanted last, and opens what was waited for.
PlayerIsTrue ==
  /\ part = "feed" => Feed!TypeOK
  /\ part = "feed" => Feed!AnswersAreTrue
  /\ part = "frames" => Frames!FramesAreSound
  /\ part = "control" => Control!TypeOK
  /\ part = "control" => Control!PlaysWhatIsWanted
  /\ part = "desk" => Desk!WatchIsSound
=============================================================================
