------------------------------ MODULE SearchPage ------------------------------
(* The Find page: a typed query is resolved to titles, a picked title (or the  *)
(* raw query) is looked for in every source at once, and "Get & Watch" adds    *)
(* the best release once the sources have answered.  Every search has a number *)
(* here; the program has only the query, and a source's answer carries         *)
(* neither.  Queries, rows and ranking are abstracted: a row is known by the   *)
(* search it answers and the source it came from, the pick is any row.         *)
EXTENDS Integers, FiniteSets

CONSTANTS
    Providers,     \* enabled search providers, the legacy torrent search being one
    MaxSearches,   \* bound: searches made in a behaviour
    MaxNames,      \* bound: names one title is hunted under
    SearchOps      \* any of "hasty" (a search before the last was answered),
                   \* "fails" (a provider fails), "cached" (catalogs read at once)

VARIABLES
    page,      \* what the page shows: mode, aggregate, picked, game, ...
    made,      \* searches made so far: the number of the latest
    pending,   \* m_pendingSources
    rows,      \* m_results: [of, via]
    asked,     \* requests on the network
    index,     \* game catalogs: "none" configured, "cold", "loaded"
    waiting,   \* m_pendingGameQuery, 0 when empty
    titles,    \* DiscoveryService's title search: the query, the services to
               \* answer, and the searches its m_searchWorks were found for
    get,       \* the Get & Watch in progress: the search it waits for, or 0
    added,     \* history: magnets added for a Get, [want, got, short]
    orderly    \* history: no search, and no way back from a Get, was begun before
               \* the last one was answered; no provider failed; no cached catalog

search == <<page, made, pending, rows, asked, index, waiting, titles, get, added, orderly>>

Request(kind, via, of, name) == [kind |-> kind, via |-> via, of |-> of, name |-> name]
Sources(n, name) == {Request("source", p, n, name) : p \in Providers}
FromCatalogs(n) == {[of |-> n, via |-> "catalogs"]}

\* Something SearchOps allows and an orderly behaviour does not have.
Disorder(op, happens) == (happens => op \in SearchOps) /\ orderly' = (orderly /\ ~happens)

NewSearch == made < MaxSearches /\ made' = made + 1

TypeOK ==
    /\ page \in [mode : {"torrent", "titles", "all", "games"}, aggregate : BOOLEAN,
                 picked : BOOLEAN, grid : 0..MaxSearches, cache : BOOLEAN,
                 back : BOOLEAN, names : 0..MaxNames, hunt : 0..MaxSearches,
                 searching : BOOLEAN]
    /\ made \in 0..MaxSearches
    /\ pending \in Int
    /\ rows \subseteq [of : 1..MaxSearches, via : Providers \cup {"catalogs", "titles"}]
    /\ asked \subseteq [kind : {"source", "titles", "details", "games"},
                        via : Providers \cup {"-", "tmdb", "igdb"}, of : 0..MaxSearches, name : 0..MaxNames]
    /\ index \in {"none", "cold", "loaded"}
    /\ waiting \in 0..MaxSearches
    /\ titles \in [query : 0..MaxSearches, pending : Int, works : SUBSET (1..MaxSearches)]
    /\ get \in 0..MaxSearches
    /\ added \subseteq [want : 1..MaxSearches, got : 1..MaxSearches, short : BOOLEAN]
    /\ orderly \in BOOLEAN

Init ==
    /\ page = [mode |-> "torrent", aggregate |-> FALSE, picked |-> FALSE, grid |-> 0,
               cache |-> FALSE, back |-> FALSE, names |-> 0, hunt |-> 0, searching |-> FALSE]
    /\ made = 0 /\ pending = 0 /\ rows = {} /\ asked = {}
    /\ index \in {"none", "cold", "loaded"}
    /\ waiting = 0 /\ titles = [query |-> 0, pending |-> 0, works |-> {}]
    /\ get = 0 /\ added = {} /\ orderly = TRUE

------------------------------------------------------------------------------
\* gwResolve: the flow ends; the pick, if there is one, is added.
Resolve(listed, out) ==
    /\ get' = 0
    /\ \/ UNCHANGED added
       \/ \E r \in listed :
             added' = added \cup {[want |-> get, got |-> r.of,
                                   short |-> \E q \in out : q.kind = "source" /\ q.of = get]}

\* Plausible faults of finishAggregateSource and its callers.
FinishAggregateSourceLate(c, listed, out) ==
    /\ pending' = pending - c
    /\ page' = [page EXCEPT !.searching = @ /\ pending - c >= 0]
    /\ IF pending - c < 0 /\ get # 0 THEN Resolve(listed, out)
       ELSE UNCHANGED <<get, added>>
FinishAggregateSourceEager(c, listed, out) ==
    /\ pending' = pending - c
    /\ page' = [page EXCEPT !.searching = @ /\ pending - c > 0]
    /\ IF get # 0 THEN Resolve(listed, out) ELSE UNCHANGED <<get, added>>

\* finishAggregateSource, called c times: the search has settled once the count
\* is not above zero; "listed" and "out" are the rows and requests by then.
FinishAggregateSource(c, listed, out) ==
    /\ pending' = pending - c
    /\ page' = [page EXCEPT !.searching = @ /\ pending - c > 0]
    /\ IF pending - c <= 0 /\ get # 0 THEN Resolve(listed, out)
       ELSE UNCHANGED <<get, added>>

\* search("all"): the titles first.
SearchTitles ==
    /\ NewSearch /\ Disorder("hasty", asked # {})
    /\ page' = [page EXCEPT !.mode = "titles", !.aggregate = FALSE, !.picked = FALSE,
                            !.back = FALSE, !.grid = made + 1, !.cache = FALSE,
                            !.names = 0, !.hunt = 0, !.searching = TRUE]
    /\ rows' = {} /\ waiting' = 0
    /\ titles' = [query |-> made + 1, pending |-> 2, works |-> {}]
    /\ asked' = asked \cup {Request("titles", s, made + 1, 0) : s \in {"tmdb", "igdb"}}
    /\ UNCHANGED <<pending, index, get, added>>

\* search("provider:..") and search("legacy"): one source, its rows replace.
SearchOne(p) ==
    /\ NewSearch /\ Disorder("hasty", asked # {})
    /\ page' = [page EXCEPT !.mode = "torrent", !.aggregate = FALSE, !.picked = FALSE,
                            !.hunt = 0, !.searching = TRUE]
    /\ rows' = {} /\ waiting' = 0
    /\ asked' = asked \cup {Request("source", p, made + 1, 1)}
    /\ UNCHANGED <<pending, index, titles, get, added>>

\* search("games"), with catalogs configured.
SearchGames ==
    /\ NewSearch /\ Disorder("hasty", asked # {})
    /\ index # "none"
    /\ LET loaded == index = "loaded"
       IN  /\ page' = [page EXCEPT !.mode = "games", !.aggregate = FALSE, !.picked = FALSE,
                                   !.hunt = 0, !.searching = ~loaded]
           /\ rows' = IF loaded THEN FromCatalogs(made + 1) ELSE {}
           /\ waiting' = IF loaded THEN 0 ELSE made + 1
           /\ asked' = IF loaded THEN asked
                       ELSE {q \in asked : q.kind # "games"} \cup {Request("games", "-", 0, 0)}
    /\ UNCHANGED <<pending, index, titles, get, added>>

------------------------------------------------------------------------------
\* rawAggregateSearch and searchSourcesForWork: every source at once.  The game
\* catalogs count as a source while they load; catalogs read from the cache
\* answer inside refresh(), before any other source has been asked.
AllSources(from, n, picked, games, wanted) ==
    LET details == picked /\ ~games /\ ~wanted
        load == games /\ index = "cold"
        first == games /\ index = "loaded"
        base == [from EXCEPT !.mode = "all", !.aggregate = TRUE, !.picked = picked,
                             !.names = 1, !.hunt = IF details THEN n ELSE 0]
        net == asked \cup Sources(n, 1)
                     \cup (IF details THEN {Request("details", "-", n, 0)} ELSE {})
        flow == IF wanted THEN n ELSE get
    IN  \/ /\ Disorder("hasty", asked # {})
           /\ page' = [base EXCEPT !.searching = TRUE]
           /\ pending' = Cardinality(Providers) + (IF load THEN 1 ELSE 0)
           /\ rows' = IF first THEN FromCatalogs(n) ELSE {}
           /\ waiting' = IF load THEN n ELSE 0
           /\ asked' = IF load
                       THEN {q \in net : q.kind # "games"} \cup {Request("games", "-", 0, 0)}
                       ELSE net
           /\ get' = flow
           /\ UNCHANGED <<index, titles, added>>
        \/ /\ load
           /\ asked # {} => "hasty" \in SearchOps
           /\ Disorder("cached", TRUE)
           /\ page' = [base EXCEPT !.searching = picked]   \* only huntUnder reopens
           /\ pending' = Cardinality(Providers)
           /\ rows' = FromCatalogs(n)
           /\ waiting' = 0 /\ index' = "loaded" /\ UNCHANGED titles
           /\ asked' = net
           /\ get' = 0
           /\ \/ UNCHANGED added
              \/ flow # 0 /\ added' = added \cup {[want |-> flow, got |-> n, short |-> TRUE]}

\* searchRaw: the query of the last grid, whatever the page shows by now
SearchRaw ==
    /\ page.grid # 0 /\ NewSearch
    /\ AllSources([page EXCEPT !.back = page.cache], made + 1, FALSE, index # "none", FALSE)

\* activateResult on a row of the grid.
ActivateTitle(game) ==
    /\ page.mode = "titles" /\ rows # {} /\ NewSearch
    /\ AllSources([page EXCEPT !.back = TRUE], made + 1, TRUE, game, FALSE)

\* openTitle, from a shelf or the library: there is no grid to return to.
OpenTitle(game) ==
    /\ NewSearch
    /\ AllSources([page EXCEPT !.back = TRUE, !.grid = 0, !.cache = FALSE],
                  made + 1, TRUE, game, FALSE)

\* getAndWatch: the title comes from a shelf, so no details are fetched for it.
GetAndWatch(game) ==
    /\ NewSearch
    /\ AllSources(page, made + 1, TRUE, game, TRUE)

CancelGetAndWatch ==
    /\ get # 0
    /\ get' = 0
    /\ UNCHANGED <<page, made, pending, rows, asked, index, waiting, titles, added, orderly>>

\* back, from the sources to the grid.  A Get in progress has a notice of its
\* own to be cancelled from.
Back ==
    /\ page.back
    /\ Disorder("hasty", get # 0)
    /\ page' = [page EXCEPT !.mode = "titles", !.aggregate = FALSE, !.picked = FALSE,
                            !.back = FALSE, !.hunt = 0, !.searching = FALSE]
    /\ rows' = IF page.cache THEN {[of |-> page.grid, via |-> "titles"]} ELSE {}
    /\ UNCHANGED <<made, pending, asked, index, waiting, titles, get, added>>

------------------------------------------------------------------------------
\* torrentSearchResults, then torrentSearchFinished: whoever asked, the rows go
\* where the page is.
SourceAnswers(r) ==
    LET rest == asked \ {r}
        row  == [of |-> r.of, via |-> r.via]
        lists == page.mode \in {"torrent", "games", "all"}
        next == IF ~lists THEN rows ELSE IF page.aggregate THEN rows \cup {row} ELSE {row}
    IN  /\ r \in asked /\ r.kind = "source"
        /\ asked' = rest
        /\ rows' = next
        /\ IF page.aggregate THEN FinishAggregateSource(1, next, rest)
           ELSE /\ page' = [page EXCEPT !.searching = FALSE]
                /\ UNCHANGED <<pending, get, added>>
        /\ UNCHANGED <<made, index, waiting, titles, orderly>>

\* torrentSearchError, then torrentSearchFinished: both take a source off.
SourceFails(r) ==
    /\ r \in asked /\ r.kind = "source"
    /\ Disorder("fails", TRUE)
    /\ asked' = asked \ {r}
    /\ IF page.aggregate THEN FinishAggregateSource(2, rows, asked \ {r})
       ELSE /\ page' = [page EXCEPT !.searching = FALSE]
            /\ UNCHANGED <<pending, get, added>>
    /\ UNCHANGED <<made, rows, index, waiting, titles>>

\* GameSourceManager::refreshed, with or without games.
GamesRefreshed(count) ==
    LET r == Request("games", "-", 0, 0)
        rest == asked \ {r}
        listed == IF count THEN rows \cup FromCatalogs(waiting) ELSE rows
    IN  /\ r \in asked
        /\ asked' = rest
        /\ index' = IF count THEN "loaded" ELSE index
        /\ waiting' = 0
        /\ CASE waiting = 0 -> UNCHANGED <<page, pending, rows, get, added>>
             [] waiting # 0 /\ page.aggregate ->
                  /\ rows' = listed
                  /\ FinishAggregateSource(1, listed, rest)
             [] waiting # 0 /\ ~page.aggregate /\ page.mode = "games" ->
                  /\ rows' = IF count THEN FromCatalogs(waiting) ELSE rows
                  /\ page' = [page EXCEPT !.searching = FALSE]
                  /\ UNCHANGED <<pending, get, added>>
             [] OTHER -> UNCHANGED <<page, pending, rows, get, added>>
        /\ UNCHANGED <<made, titles, orderly>>

TitlesAnswerEarly(r, found) ==   \* the first service's answer is taken for both
    LET works == IF found THEN titles.works \cup {r.of} ELSE titles.works
    IN  /\ r \in asked /\ r.kind = "titles"
        /\ asked' = asked \ {r}
        /\ titles' = [titles EXCEPT !.pending = @ - 1, !.works = works]
        /\ IF titles.query = page.grid /\ page.mode = "titles"
           THEN /\ rows' = {[of |-> k, via |-> "titles"] : k \in works}
                /\ page' = [page EXCEPT !.searching = FALSE, !.cache = works # {}]
           ELSE UNCHANGED <<rows, page>>
        /\ UNCHANGED <<made, pending, index, waiting, get, added, orderly>>

\* A title service's reply, whichever search it is for, then maybeFinishSearch
\* and titleResults: only for the grid's own query, while the grid is shown.
TitlesAnswer(r, found) ==
    LET works == IF found THEN titles.works \cup {r.of} ELSE titles.works
    IN  /\ r \in asked /\ r.kind = "titles"
        /\ asked' = asked \ {r}
        /\ titles' = [titles EXCEPT !.pending = @ - 1, !.works = works]
        /\ IF titles.pending <= 1 /\ titles.query = page.grid /\ page.mode = "titles"
           THEN /\ rows' = {[of |-> k, via |-> "titles"] : k \in works}
                /\ page' = [page EXCEPT !.searching = FALSE, !.cache = works # {}]
           ELSE UNCHANGED <<rows, page>>
        /\ UNCHANGED <<made, pending, index, waiting, get, added, orderly>>

DetailsAnswerQuietly(r, more) ==   \* a settled search is not opened again
    LET hunts == more /\ r.of = page.hunt /\ page.picked /\ page.mode = "all"
                      /\ page.names < MaxNames
        name == page.names + 1
    IN  /\ r \in asked /\ r.kind = "details"
        /\ asked' = (asked \ {r}) \cup (IF hunts THEN Sources(r.of, name) ELSE {})
        /\ pending' = IF hunts THEN pending + Cardinality(Providers) ELSE pending
        /\ page' = IF hunts THEN [page EXCEPT !.names = name] ELSE page
        /\ UNCHANGED <<made, rows, index, waiting, titles, get, added, orderly>>

\* workDetailsReady: the title's other names, hunted under as well; a search
\* that had settled is open again.
DetailsAnswer(r, more) ==
    LET hunts == more /\ r.of = page.hunt /\ page.picked /\ page.mode = "all"
                      /\ page.names < MaxNames
        name == page.names + 1
    IN  /\ r \in asked /\ r.kind = "details"
        /\ asked' = (asked \ {r}) \cup (IF hunts THEN Sources(r.of, name) ELSE {})
        /\ IF hunts
           THEN /\ pending' = pending + Cardinality(Providers)
                /\ page' = [page EXCEPT !.names = name, !.searching = @ \/ pending = 0]
           ELSE UNCHANGED <<pending, page>>
        /\ UNCHANGED <<made, rows, index, waiting, titles, get, added, orderly>>

Answers(r) ==
    \/ SourceAnswers(r)
    \/ SourceFails(r)
    \/ \E found \in BOOLEAN : TitlesAnswer(r, found)
    \/ \E more \in BOOLEAN : DetailsAnswer(r, more)
    \/ r.kind = "games" /\ \E count \in BOOLEAN : GamesRefreshed(count)

UserActs ==
    \/ SearchTitles \/ SearchGames \/ SearchRaw \/ Back \/ CancelGetAndWatch
    \/ \E p \in Providers : SearchOne(p)
    \/ \E game \in BOOLEAN : (game => index # "none") /\ 
          (ActivateTitle(game) \/ OpenTitle(game) \/ GetAndWatch(game))

AnswerComes == \E r \in asked : Answers(r)

Next == UserActs \/ AnswerComes

\* Every request has a transfer timeout, so it is answered or fails.
Fairness == WF_search(AnswerComes)
Spec == Init /\ [][Next]_search /\ Fairness

------------------------------------------------------------------------------
(* Whatever the order of searches and answers, "searching" ends.               *)
Unfinished == page.searching
SearchEnds == Unfinished ~> ~Unfinished

(* In an orderly behaviour the search of every source goes on exactly while    *)
(* one of them is to answer, late names included, and lists its own rows only; *)
(* a grid is complete when it stops searching.                                 *)
SearchIsWhole ==
    orderly =>
        /\ page.aggregate =>
              /\ page.searching <=> \E r \in asked : r.kind = "source" \/ (r.kind = "games" /\ waiting # 0)
              /\ \A r \in rows : r.of = made
        /\ page.mode = "titles" /\ ~page.searching =>
              \A r \in asked : r.kind = "titles" => r.of # page.grid

(* In an orderly behaviour Get & Watch adds a release of the title it was      *)
(* asked for, once every source has answered.                                  *)
GetTakesItsOwn == orderly => \A a \in added : a.got = a.want /\ ~a.short

(* What an orderly behaviour shows and adds                                    *)
SearchIsSound == TypeOK /\ SearchIsWhole /\ GetTakesItsOwn

(* The same, of every behaviour: statements the code does not keep.  A grid     *)
(* also lists what an earlier query found.                                     *)
GridIsOwn == page.mode = "titles" => \A r \in rows : r.of = page.grid
AllAreWaitedFor ==
    page.aggregate => (page.searching <=> \E r \in asked : r.kind = "source" \/ (r.kind = "games" /\ waiting # 0))
RowsAreOfTheSearch == page.mode = "all" => \A r \in rows : r.of = made
GetIsNotAnothers == \A a \in added : a.got = a.want
GetSeesEverySource == \A a \in added : ~a.short
==============================================================================
