------------------------------ MODULE MCServices ------------------------------
(***************************************************************************)
(* The services around the session. A behaviour is one of one component,   *)
(* chosen at the start, so one run checks each of them in full and no      *)
(* product of them.                                                        *)
(***************************************************************************)
EXTENDS Integers

CONSTANTS d1, film, game, link, p1, p2, s1, s2, t1, t2, t3, torrent1, u1, u2

VARIABLES
  part,  \* which component this behaviour is of
  \* and the variables of that component, in the order in which it declares them
  v1, v2, v3, v4, v5, v6, v7, v8, v9, v10, v11, v12, v13, v14, v15, v16, v17

Search == INSTANCE SearchPage WITH
  Providers <- {p1, p2}, MaxSearches <- 2, MaxNames <- 2,
  SearchOps <- {"hasty", "fails", "cached"}, page <- v1, made <- v2, pending <- v3,
  rows <- v4, asked <- v5, index <- v6, waiting <- v7, titles <- v8, get <- v9,
  added <- v10, orderly <- v11
Resolver == INSTANCE MetadataResolver WITH
  Films <- {film}, Games <- {game}, MaxWords <- 1, MaxUnderWay <- 2, queue <- v1,
  collections <- v2, requestInFlight <- v3, net <- v4, limiter <- v5, token <- v6,
  igdbPending <- v7, manual <- v8, cache <- v9, askedOf <- v10, word <- v11,
  words <- v12, happened <- v13
Library == INSTANCE LibraryRows WITH
  Torrents <- {t1, t2, t3}, Files <- {d1}, MaxRows <- 3, torrents <- v1, files <- v2,
  shown <- v3, rows <- v4, picked <- v5, happened <- v6
Start == INSTANCE AppStart WITH
  Slots <- {s1, s2}, Links <- {link}, StartOps <- {}, proc <- v1, server <- v2,
  inbox <- v3, waiting <- v4, boot <- v5, soft <- v6, log <- v7, added <- v8,
  bad <- v9, died <- v10
Install == INSTANCE GameInstall WITH
  Slots <- {s1, s2}, InstallOps <- {}, config <- v1, torrent <- v2, app <- v3,
  disk <- v4, machine <- v5, halfRun <- v6, unfair <- v7, owned <- v8
Play == INSTANCE GamePlay WITH
  Games <- {game}, Unlocks <- {torrent1}, MaxClock <- 3, MaxPids <- 2,
  SaveEvery <- 2, PlayOps <- {}, clock <- v1, procs <- v2, pids <- v3, open <- v4,
  follows <- v5, restored <- v6, savedAt <- v7, kept <- v8, log <- v9, files <- v10,
  watch <- v11, announce <- v12, asked <- v13, ledger <- v14, ran <- v15,
  told <- v16, wrong <- v17
Upd == INSTANCE Updates WITH
  Releases <- {[base |-> 1, pre |-> 0, size |-> 3], [base |-> 2, pre |-> 1, size |-> 4],
              [base |-> 2, pre |-> 0, size |-> 5], [base |-> 3, pre |-> 0, size |-> 0]},
  FirstApp <- [base |-> 1, pre |-> 0, size |-> 3], MaxChecks <- 3, MaxRuns <- 2,
  UpdateOps <- {}, mirror <- v1, track <- v2, app <- v3, checks <- v4, silent <- v5,
  latest <- v6, status <- v7, noticed <- v8, dialog <- v9, downloads <- v10,
  launched <- v11, manual <- v12, sizeless <- v13
Debrid == INSTANCE DebridStream WITH
  Providers <- {p1, p2}, RealDebrid <- p1, Magnets <- {film, game},
  Tokens <- {t1, t2}, Premium <- {t1},
  FileLists <- [{1, 2} -> [video : BOOLEAN, bytes : {1, 2}, selected : BOOLEAN]],
  MaxPolls <- 2, DebridOps <- {}, active <- v1, token <- v2, authed <- v3,
  checks <- v4, job <- v5, replies <- v6, asked <- v7, outcome <- v8
Lists == INSTANCE GameSources WITH
  Urls <- {u1, u2}, Seed <- u1, Catalogs <- {0, 3}, PageSize <- 2, GameOps <- {},
  sources <- v1, lists <- v2, cache <- v3, games <- v4, replies <- v5,
  refreshes <- v6, query <- v7, page <- v8
Addons == INSTANCE SourceAddons WITH
  Curated <- {u1}, Local <- {u1}, Urls <- {u1, u2}, Defaults <- {p1, p2},
  Legacy <- {p2}, Presets <- {p2}, Ids <- {t1, t2}, MaxAsks <- 2, MaxAddons <- 2,
  AddonOps <- {}, addons <- v1, language <- v2, manifests <- v3, providers <- v4,
  seeded <- v5, ask <- v6, replies <- v7, finished <- v8, choice <- v9,
  dropped <- v10
Adds == INSTANCE AddDesk WITH
  Lines <- {[kind |-> "magnet", of |-> film], [kind |-> "link", of |-> film], [kind |-> "file", of |-> game]},
  FilesOf <- [t \in {film, game} |-> IF t = film THEN {1, 2} ELSE {1}],
  SizeOf <- [t \in {film, game} |-> IF t = film THEN 1 ELSE 2],
  TypeOf <- [t \in {film, game} |-> IF t = film THEN "video" ELSE "game"],
  MaxItems <- 2, AddOps <- {}, opened <- v1, items <- v2, previews <- v3, sel <- v4,
  text <- v5, due <- v6, dest <- v7, asks <- v8, staged <- v9, library <- v10,
  queue <- v11, fetched <- v12, ticks <- v13, slips <- v14

vars == <<part, v1, v2, v3, v4, v5, v6, v7, v8, v9, v10, v11, v12, v13, v14, v15,
          v16, v17>>

Init ==
  \/ part = "search" /\ Search!Init
     /\ v12 = 0 /\ v13 = 0 /\ v14 = 0 /\ v15 = 0 /\ v16 = 0 /\ v17 = 0
  \/ part = "resolver" /\ Resolver!Init
     /\ v14 = 0 /\ v15 = 0 /\ v16 = 0 /\ v17 = 0
  \/ part = "library" /\ Library!Init
     /\ v7 = 0 /\ v8 = 0 /\ v9 = 0 /\ v10 = 0 /\ v11 = 0 /\ v12 = 0 /\ v13 = 0 /\ v14 = 0 /\ v15 = 0 /\ v16 = 0 /\ v17 = 0
  \/ part = "start" /\ Start!Init
     /\ v11 = 0 /\ v12 = 0 /\ v13 = 0 /\ v14 = 0 /\ v15 = 0 /\ v16 = 0 /\ v17 = 0
  \/ part = "install" /\ Install!Init
     /\ v9 = 0 /\ v10 = 0 /\ v11 = 0 /\ v12 = 0 /\ v13 = 0 /\ v14 = 0 /\ v15 = 0 /\ v16 = 0 /\ v17 = 0
  \/ part = "play" /\ Play!Init
  \/ part = "upd" /\ Upd!Init
     /\ v14 = 0 /\ v15 = 0 /\ v16 = 0 /\ v17 = 0
  \/ part = "debrid" /\ Debrid!Init
     /\ v9 = 0 /\ v10 = 0 /\ v11 = 0 /\ v12 = 0 /\ v13 = 0 /\ v14 = 0 /\ v15 = 0 /\ v16 = 0 /\ v17 = 0
  \/ part = "gamelists" /\ Lists!Init
     /\ v9 = 0 /\ v10 = 0 /\ v11 = 0 /\ v12 = 0 /\ v13 = 0 /\ v14 = 0 /\ v15 = 0 /\ v16 = 0 /\ v17 = 0
  \/ part = "addon" /\ Addons!Init
     /\ v11 = 0 /\ v12 = 0 /\ v13 = 0 /\ v14 = 0 /\ v15 = 0 /\ v16 = 0 /\ v17 = 0
  \/ part = "adds" /\ Adds!Init
     /\ v15 = 0 /\ v16 = 0 /\ v17 = 0

Next ==
  \/ part = "search" /\ UNCHANGED <<part, v12, v13, v14, v15, v16, v17>> /\ Search!Next
  \/ part = "resolver" /\ UNCHANGED <<part, v14, v15, v16, v17>> /\ Resolver!Next
  \/ part = "library" /\ UNCHANGED <<part, v7, v8, v9, v10, v11, v12, v13, v14, v15, v16, v17>> /\ Library!Next
  \/ part = "start" /\ UNCHANGED <<part, v11, v12, v13, v14, v15, v16, v17>> /\ Start!Next
  \/ part = "install" /\ UNCHANGED <<part, v9, v10, v11, v12, v13, v14, v15, v16, v17>> /\ Install!Next
  \/ part = "play" /\ UNCHANGED <<part>> /\ Play!Next
  \/ part = "upd" /\ UNCHANGED <<part, v14, v15, v16, v17>> /\ Upd!Next
  \/ part = "debrid" /\ UNCHANGED <<part, v9, v10, v11, v12, v13, v14, v15, v16, v17>> /\ Debrid!Next
  \/ part = "gamelists" /\ UNCHANGED <<part, v9, v10, v11, v12, v13, v14, v15, v16, v17>> /\ Lists!Next
  \/ part = "addon" /\ UNCHANGED <<part, v11, v12, v13, v14, v15, v16, v17>> /\ Addons!Next
  \/ part = "adds" /\ UNCHANGED <<part, v15, v16, v17>> /\ Adds!Next

Spec == Init /\ [][Next]_vars

-----------------------------------------------------------------------------
(* What is checked, as stated and explained in each module *)

\* A search that is over shows the rows of every source that answered, and Get and
\* watch adds a magnet of its own search.
SearchIsSound == part = "search" => Search!SearchIsSound

\* One look-up is under way at a time, and what is kept for a torrent is the user's
\* last decision for it.
ResolverIsSound == part = "resolver" => Resolver!ResolverIsSound

\* The rows of the views are the items listed, and the selection stays on the items
\* picked; the list of the add window is what was entered, and the button adds it all
\* with the files that were ticked.
LibraryIsSound ==
  /\ [](part = "library" => Library!LibraryHolds)
  /\ [][part = "library" => Library!RemovesThePicked]_vars
  /\ [](part = "adds" => Adds!TypeOK /\ Adds!AddingIsSound)

\* What starts is one session, which knows how the starts before it ended; what
\* replaces it is a whole and newer one.
ApplicationIsSound ==
  /\ part = "start" => Start!TypeOK
  /\ part = "start" => Start!StartIsSound
  /\ part = "upd" => Upd!TypeOK
  /\ part = "upd" => Upd!UpdatesAreSound

\* What plays from elsewhere, or is looked for there, is what was asked for last.
SourcesAreSound ==
  /\ part = "debrid" => Debrid!TypeOK
  /\ part = "debrid" => Debrid!DebridIsSound
  /\ part = "gamelists" => Lists!TypeOK
  /\ part = "gamelists" => Lists!GamesAreListed
  /\ part = "addon" => Addons!TypeOK
  /\ part = "addon" => Addons!AddonsAreSound

\* A game that is installed is whole, and what was played and unlocked is counted
\* and told once.
GamesAreSound ==
  /\ part = "install" => Install!InstallIsSound
  /\ part = "play" => Play!PlayIsSound
=============================================================================
