------------------------------- MODULE RssFeeds -------------------------------
(* RssManager: feeds and their items by row, checks in flight by address, the  *)
(* links already downloaded, and the .torrent files fetched for them.          *)
EXTENDS Integers, Sequences, SequencesExt, FiniteSets

CONSTANTS
    Urls,      \* addresses of feeds
    Links,     \* what they publish
    Magnets,   \* the links that go straight to the engine; a .torrent is fetched first
    Wanted,    \* the links the filter of a feed matches
    Publishes, \* <<feed, link>>: what the servers list
    KeepLinks  \* bound: downloaded links kept on the disk (5000 in the code)

VARIABLES
    feeds,     \* m_feeds, saved at every change: [url, enabled, auto]
    items,     \* m_items: by row, the links listed, and whether marked downloaded
    links,     \* m_downloadedLinks
    saved,     \* rssDownloadedLinks on the disk
    checks,    \* feeds being fetched, by address
    fetches,   \* .torrent files being fetched
    checked,   \* feeds whose interval since lastChecked has not passed
    asked,     \* history: feeds whose interval since they were asked has not passed
    handed,    \* history: links that reached the engine
    dropped,   \* history: links whose fetch failed or was cut off
    failed     \* history: feeds whose check failed

rss == <<feeds, items, links, saved, checks, fetches, checked, asked, handed, dropped, failed>>

published(url) == {l \in Links : <<url, l>> \in Publishes}

RowOf(url) == SelectInSeq(feeds, LAMBDA f : f.url = url)

TypeOK ==
    /\ feeds \in Seq([url : Urls, enabled : BOOLEAN, auto : BOOLEAN])
    /\ items \in Seq(SUBSET [link : Links, done : BOOLEAN])
    /\ links \subseteq Links /\ saved \subseteq Links /\ handed \subseteq Links
    /\ checks \subseteq Urls /\ checked \subseteq Urls /\ asked \subseteq Urls
    /\ fetches \subseteq Links \ Magnets
    /\ dropped \subseteq Links /\ failed \subseteq Urls

Init ==
    /\ feeds = <<>> /\ items = <<>> /\ links = {} /\ saved = {} /\ checks = {} /\ fetches = {}
    /\ checked = {} /\ asked = {} /\ handed = {}
    /\ dropped = {} /\ failed = {}

\* What saveFeeds keeps of a set without an order.
Kept(all) == IF Cardinality(all) <= KeepLinks THEN {all}
             ELSE {s \in SUBSET all : Cardinality(s) = KeepLinks}

CheckFeeds(urls) == /\ checks' = checks \cup urls /\ asked' = asked \cup urls

------------------------------------------------------------------------------
\* addFeed: listed, saved and checked at once; it starts enabled, with no rule.
AddFeed(url) ==
    /\ RowOf(url) = 0
    /\ feeds' = Append(feeds, [url |-> url, enabled |-> TRUE, auto |-> FALSE])
    /\ items' = Append(items, {})
    /\ CheckFeeds({url})
    /\ UNCHANGED <<links, saved, fetches, checked, handed, dropped, failed>>

\* removeFeed: the rows below it move up, their items with them.
ItemsWithoutLastRow(i) == SubSeq(items, 1, Len(items) - 1)

ItemsWithoutRow(i) == SubSeq(items, 1, i - 1) \o SubSeq(items, i + 1, Len(items))

RemoveFeed(i) ==
    /\ feeds' = SubSeq(feeds, 1, i - 1) \o SubSeq(feeds, i + 1, Len(feeds))
    /\ items' = ItemsWithoutRow(i)
    /\ saved' \in Kept(links)
    /\ asked' = asked \ {feeds[i].url} /\ checked' = checked \ {feeds[i].url}
    /\ failed' = failed \ {feeds[i].url}
    /\ UNCHANGED <<links, checks, fetches, handed, dropped>>

\* setFeedEnabled and updateFeed: the page edits a copy of the feed as it is now.
UpdateFeed(i, enabled, auto) ==
    /\ feeds' = [feeds EXCEPT ![i].enabled = enabled, ![i].auto = auto]
    /\ saved' \in Kept(links)
    /\ UNCHANGED <<items, links, checks, fetches, checked, asked, handed, dropped, failed>>

\* checkAllFeeds, by the timer or the page; checkFeed, by the page; the feeds
\* without items 1.5 s after the start.
CheckAllFeeds ==
    /\ CheckFeeds({feeds[i].url : i \in {j \in DOMAIN feeds :
                       feeds[j].enabled /\ feeds[j].url \notin checked}})
    /\ UNCHANGED <<feeds, items, links, saved, fetches, checked, handed, dropped, failed>>

CheckFeed(i) ==
    /\ CheckFeeds({feeds[i].url})
    /\ UNCHANGED <<feeds, items, links, saved, fetches, checked, handed, dropped, failed>>

IntervalPasses(url) ==
    /\ url \in checked \cup asked /\ url \notin checks
    /\ checked' = checked \ {url} /\ asked' = asked \ {url} /\ failed' = failed \ {url}
    /\ UNCHANGED <<feeds, items, links, saved, checks, fetches, handed, dropped>>

\* A fault: marked while there is no engine to hand it to.
HandingToNobody(new) ==
    /\ links' = links \cup new
    /\ UNCHANGED <<handed, fetches>>

\* addFromLink for each of these: magnets reach the engine, the others are fetched.
Handing(new) ==
    /\ handed' = handed \cup (new \cap Magnets)
    /\ fetches' = fetches \cup (new \ Magnets)
    /\ links' = links \cup new

\* parseFeedXml: what the feed lists now, marked by what was downloaded.
Listed(url) == {[link |-> l, done |-> l \in links] : l \in published(url)}

\* lastChecked is set; a fault leaves it.
StampedNever(url) == checked

Stamped(url) == checked \cup {url}

\* autoDownloadMatching: what the rule of a feed wants of its new items.
Matching(i, url) ==
    IF feeds[i].auto THEN {x.link : x \in {y \in Listed(url) : ~y.done}} \cap Wanted ELSE {}

\* The answer to a check, for the feed of that address wherever it is now.
CheckAnswers(url) ==
    LET i == RowOf(url)
        new == Matching(i, url)
    IN  /\ url \in checks /\ checks' = checks \ {url}
        /\ IF i = 0 THEN UNCHANGED <<items, links, saved, fetches, checked, handed>>
           ELSE /\ checked' = Stamped(url)
                /\ items' = [items EXCEPT ![i] =
                                {[x EXCEPT !.done = @ \/ x.link \in new] : x \in Listed(url)}]
                /\ Handing(new)
                /\ saved' \in Kept(links \cup new)
        /\ UNCHANGED <<feeds, asked, dropped, failed>>

CheckFails(url) ==
    /\ url \in checks /\ checks' = checks \ {url}
    /\ failed' = IF url \in asked THEN failed \cup {url} ELSE failed
    /\ UNCHANGED <<feeds, items, links, saved, fetches, checked, asked, handed, dropped>>

\* A fault: the mark is not saved.
DownloadItemUnsaved(i, x) ==
    /\ x \in items[i]
    /\ items' = [items EXCEPT ![i] = (@ \ {x}) \cup {[x EXCEPT !.done = TRUE]}]
    /\ Handing({x.link})
    /\ UNCHANGED <<feeds, saved, checks, checked, asked, dropped, failed>>

\* downloadItem: the user takes an item.
DownloadItem(i, x) ==
    /\ x \in items[i]
    /\ items' = [items EXCEPT ![i] = (@ \ {x}) \cup {[x EXCEPT !.done = TRUE]}]
    /\ Handing({x.link})
    /\ saved' \in Kept(links \cup {x.link})
    /\ UNCHANGED <<feeds, checks, checked, asked, dropped, failed>>

\* The .torrent arrives and is added; or there is none, or a page instead of it.
FetchEnds(link, good) ==
    /\ link \in fetches /\ fetches' = fetches \ {link}
    /\ handed' = IF good THEN handed \cup {link} ELSE handed
    /\ dropped' = IF good THEN dropped ELSE dropped \cup {link}
    /\ UNCHANGED <<feeds, items, links, saved, checks, checked, asked, failed>>

\* Quit and start: the items are not kept, the requests are gone, the marks are
\* those on the disk; the feeds without items are checked.
Restart ==
    /\ items' = [i \in DOMAIN feeds |-> {}]
    /\ links' = saved
    /\ fetches' = {}
    /\ checks' = {feeds[i].url : i \in {j \in DOMAIN feeds : feeds[j].enabled}}
    /\ asked' = {}
    /\ dropped' = dropped \cup fetches
    /\ UNCHANGED <<feeds, saved, checked, handed, failed>>

Next ==
    \/ \E u \in Urls : AddFeed(u) \/ CheckAnswers(u) \/ CheckFails(u) \/ IntervalPasses(u)
    \/ \E i \in DOMAIN feeds :
          \/ RemoveFeed(i) \/ CheckFeed(i)
          \/ \E enabled, auto \in BOOLEAN : UpdateFeed(i, enabled, auto)
          \/ \E x \in items[i] : DownloadItem(i, x)
    \/ \E l \in Links, good \in BOOLEAN : FetchEnds(l, good)
    \/ CheckAllFeeds \/ Restart

Spec == Init /\ [][Next]_rss

------------------------------------------------------------------------------
\* The items of a row were published by the feed of that row, whatever was
\* removed above it while its answer was on the way.
ItemsAreTheFeeds ==
    /\ Len(items) = Len(feeds)
    /\ \A i \in DOMAIN feeds : {x.link : x \in items[i]} \subseteq published(feeds[i].url)

\* What was added, or is being fetched, stays marked, also over a restart: no
\* rule adds it a second time when two feeds publish it or answers overlap.
AddedStaysMarked == handed \cup fetches \subseteq links

\* A link marked as downloaded reached the engine or is being fetched, unless
\* its fetch failed or was cut off.
MarkedWasHanded == links \subseteq handed \cup fetches \cup dropped

\* A feed is asked again by the timer only after its interval, unless its last
\* check failed.
TimerHonoursIntervals ==
    CheckAllFeeds => \A u \in checks' \ checks :
        u \in asked => u \in failed \cup checks

\* Feeds, items and marks stay together.
FeedsHold == TypeOK /\ ItemsAreTheFeeds /\ AddedStaysMarked /\ MarkedWasHanded
FeedsAreSound == []FeedsHold /\ [][TimerHonoursIntervals]_rss

\* With no condition: a marked link reached the engine; the interval is kept.
MarkedReachesTheEngine == links \subseteq handed \cup fetches
TimerKeepsIntervals == [][CheckAllFeeds => (checks' \ checks) \cap asked = {}]_rss

------------------------------------------------------------------------------
\* Why they are sound: what every step keeps, while the links are no more than the
\* settings keep.

\* The disk has every mark.
MarksAreSaved == saved = links

\* A feed that was asked within its interval is listed, and its check is under way,
\* was stamped, or failed.
AskedIsAccountedFor ==
    \A u \in asked : /\ \E i \in DOMAIN feeds : feeds[i].url = u
                     /\ u \in checked \cup checks \cup failed

FeedsInv == FeedsHold /\ MarksAreSaved /\ AskedIsAccountedFor
==============================================================================
