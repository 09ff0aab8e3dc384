---------------------------- MODULE GameSources ----------------------------
(***************************************************************************)
(* The lists of games: each source is read from its cache or fetched, and  *)
(* what they list is one index, which a search waits for and a page shows. *)
(* A refresh leaves the answers to the one before it without effect.       *)
(***************************************************************************)
EXTENDS Integers, FiniteSets, Functions

CONSTANTS
  Urls, Seed,   \* Seed is the source of the first start
  Catalogs,     \* how many games a source may list
  PageSize,
  GameOps       \* odd cases: "offline", "torn"

VARIABLES
  sources,      \* m_sources, saved at every change
  lists,        \* what the servers list
  cache,        \* by source: its age and the games in it
  games,        \* m_games: how many of each source
  replies,      \* requests under way, and whether they are of the last refresh
  refreshes,    \* history: refreshed, counted since the last refresh; refreshes
                \* that nobody asked for; whether one calls itself for ever
  query,        \* m_pendingGameQuery: a search waits for the index
  page          \* FindCatalogBrowse: visible, pageIndex, the rows it has

vars == <<sources, lists, cache, games, replies, refreshes, query, page>>

Total(g) == FoldFunction(+, 0, g)
Live(rs) == {r \in rs : r.live}
Rows(g, i) == LET left == Total(g) - i * PageSize
              IN IF left < 0 THEN 0 ELSE IF left > PageSize THEN PageSize ELSE left
Nothing == [u \in Urls |-> 0]

\* The first start adds the catalogue of the program
Init ==
  /\ sources = {Seed} /\ lists \in [Urls -> Catalogs]
  /\ cache = [u \in Urls |-> [age |-> "none", n |-> 0]]
  /\ games = Nothing /\ replies = {}
  /\ refreshes = [told |-> 1, unasked |-> 0, endless |-> FALSE]
  /\ query = FALSE /\ page = [open |-> FALSE, index |-> 0, rows |-> 0]

------------------------------------------------------------------------------
\* refresh: what is in a fresh cache is indexed at once, the others are fetched
Read(force, srcs) == {u \in srcs : ~force /\ cache[u].age = "fresh"}

Refreshed(force, srcs) ==
  [games |-> [u \in Urls |-> IF u \in Read(force, srcs) THEN cache[u].n ELSE 0],
   replies |-> {[url |-> r.url, live |-> FALSE] : r \in replies} \cup
               {[url |-> u, live |-> TRUE] : u \in srcs \ Read(force, srcs)}]

\* The signal refreshed: a search that waits has its rows, and a visible page is
\* read again, which refreshes once more while there is no game
Emits(at, srcs) ==
  LET again == Refreshed(FALSE, srcs)
      empty == page.open /\ Total(at.games) = 0 /\ srcs # {}
  IN /\ query' = FALSE
     /\ IF empty
        THEN /\ games' = again.games
             /\ replies' = again.replies
             /\ refreshes' = [told |-> IF Live(again.replies) = {} THEN 1 ELSE 0,
                              unasked |-> IF refreshes.unasked < 3 THEN refreshes.unasked + 1 ELSE 3,
                              endless |-> Live(again.replies) = {} /\ Total(again.games) = 0]
             /\ UNCHANGED page
        ELSE /\ games' = at.games /\ replies' = at.replies
             /\ refreshes' = [refreshes EXCEPT !.told = @ + 1]
             /\ page' = IF page.open THEN [page EXCEPT !.rows = Rows(at.games, page.index)] ELSE page

\* A refresh the user asked for, in one way or another
Refresh(force, srcs, waits) ==
  LET at == Refreshed(force, srcs)
  IN IF Live(at.replies) = {}
     THEN /\ query' = FALSE
          /\ games' = at.games /\ replies' = at.replies
          /\ refreshes' = [told |-> 1, unasked |-> 0,
                           endless |-> page.open /\ srcs # {} /\ Total(at.games) = 0]
          /\ page' = IF page.open THEN [page EXCEPT !.rows = Rows(at.games, page.index)] ELSE page
     ELSE /\ games' = at.games /\ replies' = at.replies
          /\ refreshes' = [told |-> 0, unasked |-> 0, endless |-> FALSE]
          /\ query' = (query \/ waits)
          /\ UNCHANGED page

------------------------------------------------------------------------------
AddGameSource(u) ==
  /\ sources' = sources \cup {u}
  /\ Refresh(FALSE, sources', FALSE)
  /\ UNCHANGED <<lists, cache>>

RemoveGameSource(u) ==
  /\ u \in sources /\ sources' = sources \ {u}
  /\ Refresh(FALSE, sources', FALSE)
  /\ UNCHANGED <<lists, cache>>

RefreshGames ==
  /\ sources # {}
  /\ Refresh(TRUE, sources, FALSE)
  /\ UNCHANGED <<sources, lists, cache>>

\* runGameSearch, or a search that waits for the index
Search ==
  /\ IF Total(games) > 0 \/ sources = {}
     THEN /\ query' = FALSE
          /\ UNCHANGED <<games, replies, refreshes, page>>
     ELSE Refresh(FALSE, sources, TRUE)
  /\ UNCHANGED <<sources, lists, cache>>

\* reload: ensureGamesIndexed, then browseGames
OpenPage(i) ==
  /\ ~page.open
  /\ IF Total(games) = 0 /\ sources # {}
     THEN LET at == Refreshed(FALSE, sources)
          IN /\ games' = at.games /\ replies' = at.replies
             /\ refreshes' = [told |-> IF Live(at.replies) = {} THEN 1 ELSE 0, unasked |-> 0,
                              endless |-> Live(at.replies) = {} /\ Total(at.games) = 0]
             /\ query' = (query /\ Live(at.replies) # {})
             /\ page' = [open |-> TRUE, index |-> i, rows |-> Rows(at.games, i)]
     ELSE /\ page' = [open |-> TRUE, index |-> i, rows |-> Rows(games, i)]
          /\ UNCHANGED <<games, replies, refreshes, query>>
  /\ UNCHANGED <<sources, lists, cache>>

ClosePage ==
  /\ page.open /\ page' = [open |-> FALSE, index |-> 0, rows |-> 0]
  /\ UNCHANGED <<sources, lists, cache, games, replies, refreshes, query>>

GoPage(delta) ==
  LET i == page.index + delta
  IN /\ page.open /\ i >= 0 /\ i * PageSize < Total(games)
     /\ page' = [page EXCEPT !.index = i, !.rows = Rows(games, i)]
     /\ UNCHANGED <<sources, lists, cache, games, replies, refreshes, query>>

\* The reply to fetchSource; one of an older refresh is dropped
AnswerComes(r) ==
  LET u == r.url
      rest == replies \ {r}
      Indexed(n) == [games |-> [games EXCEPT ![u] = @ + n], replies |-> rest]
  IN /\ r \in replies
     /\ \E came \in {"list", "nothing"} :
          /\ cache' = IF r.live /\ came = "list" /\ lists[u] > 0
                      THEN [cache EXCEPT ![u] = [age |-> "fresh", n |-> lists[u]]] ELSE cache
          /\ came = "nothing" => \/ "offline" \in GameOps \/ ~page.open \/ ~r.live
                                 \/ cache[u].n > 0
          /\ came = "list" /\ page.open /\ r.live => "offline" \in GameOps \/ lists[u] > 0
          /\ IF ~r.live
             THEN /\ replies' = rest /\ UNCHANGED <<games, refreshes, query, page>>
             ELSE LET at == Indexed(IF came = "list" THEN lists[u] ELSE cache[u].n)
                  IN IF Live(rest) = {} THEN Emits(at, sources)
                     ELSE /\ games' = at.games /\ replies' = rest
                          /\ UNCHANGED <<refreshes, query, page>>
     /\ UNCHANGED <<sources, lists>>

------------------------------------------------------------------------------
ListsChange(u, n) ==
  /\ lists' = [lists EXCEPT ![u] = n]
  /\ UNCHANGED <<sources, cache, games, replies, refreshes, query, page>>

SixHoursPass(u) ==
  /\ cache[u].age = "fresh" /\ cache' = [cache EXCEPT ![u].age = "stale"]
  /\ UNCHANGED <<sources, lists, games, replies, refreshes, query, page>>

\* Left and started again; a cache may have been cut short in the writing
Restart ==
  /\ games' = Nothing /\ replies' = {} /\ query' = FALSE
  /\ refreshes' = [told |-> 1, unasked |-> 0, endless |-> FALSE]
  /\ page' = [open |-> FALSE, index |-> 0, rows |-> 0]
  /\ \/ UNCHANGED cache
     \/ /\ "torn" \in GameOps
        /\ \E u \in Urls : /\ cache[u].age = "fresh"
                           /\ cache' = [cache EXCEPT ![u].n = 0]
  /\ UNCHANGED <<sources, lists>>

Next ==
  \/ \E u \in Urls : AddGameSource(u) \/ RemoveGameSource(u) \/ SixHoursPass(u)
  \/ RefreshGames \/ Search \/ OpenPage(0) \/ ClosePage
  \/ GoPage(1) \/ GoPage(-1)
  \/ \E r \in replies : AnswerComes(r)
  \/ \E u \in Urls, n \in Catalogs : ListsChange(u, n)
  \/ Restart

Spec == Init /\ [][Next]_vars

------------------------------------------------------------------------------
TypeOK ==
  /\ sources \subseteq Urls /\ lists \in [Urls -> Catalogs]
  /\ cache \in [Urls -> [age : {"none", "fresh", "stale"}, n : Catalogs \cup {0}]]
  /\ replies \subseteq [url : Urls, live : BOOLEAN]
  /\ query \in BOOLEAN /\ page.open \in BOOLEAN

\* Each source that is listed is in the index once, and no other; refreshed is
\* told once, when the last answer is in
IndexIsWhole ==
  /\ \A u \in Urls : games[u] \in Catalogs \cup {0} /\ (games[u] > 0 => u \in sources)
  /\ refreshes.told = IF Live(replies) = {} THEN 1 ELSE 0
  /\ \A r \in Live(replies) : r.url \in sources /\ games[r.url] = 0

\* A search that waits has an answer to wait for
QueryIsAnswered == query => Live(replies) # {}

\* The page shows the games of its place in the index
PageIsTrue == page.open /\ Live(replies) = {} /\ Total(games) > 0
                => page.rows = Rows(games, page.index)

\* While there are games the page shows some
PageHasRows == page.open /\ Live(replies) = {} /\ Total(games) > 0 => page.rows > 0

\* A page that finds no game asks again a bounded number of times
AsksEnd == refreshes.unasked <= 1 /\ ~refreshes.endless

GamesAreListed == IndexIsWhole /\ QueryIsAnswered /\ PageIsTrue /\ AsksEnd
=============================================================================
