--------------------------- MODULE MetadataResolver ---------------------------
(* Names, posters and collections of the torrents: one queue of lookups, one   *)
(* request at a time with a pause after each, a poster downloaded beside it,   *)
(* and the IGDB token games wait for.  The hops of one lookup (search, details,*)
(* English overview, the shortened title, the shop) are one request here: the  *)
(* flag m_requestInFlight stays up from the first to the last.  Two requests   *)
(* for the same lookup are one.                                                *)
EXTENDS Integers, Sequences, SequencesExt, FiniteSets

CONSTANTS
    Films, Games,   \* torrents, by what their name and files say they are
    MaxWords,       \* bound: decisions of the user (another title, no cover)
    MaxUnderWay     \* bound: lookups and requests under way

Hashes == Films \cup Games
None == [by |-> -1, title |-> FALSE, art |-> FALSE, film |-> "no"]

VARIABLES
    queue,       \* m_queue: lookups [hash, by], "by" the decision it serves
    collections, \* m_collectionQueue
    requestInFlight,
    net,         \* requests out: [stage, hash, by, got]
    limiter,     \* m_rateLimiter is running
    token,       \* the IGDB token is valid
    igdbPending, \* lookups waiting for the token
    manual,      \* m_manualQueries
    cache,       \* m_cache, as on the disk
    askedOf,     \* m_collectionAsked
    word,        \* history: the user's last decision for a torrent, 0 for none
    words,       \* decisions made so far
    happened     \* history: "hasty", a torrent was decided on or listed while it was
                 \* being looked up; "bare", a torrent whose re-link has no art was
                 \* listed again; "token", a game had to wait for the token; "false",
                 \* a re-link was reported missing by a lookup not its own

resolver == <<queue, collections, requestInFlight, net, limiter, token, igdbPending,
              manual, cache, askedOf, word, words, happened>>

\* "film": the entry is a film with an id whose collection is due, or answered.
Results == [by : -1..MaxWords, title : BOOLEAN, art : BOOLEAN, film : {"no", "due", "done"}]
Lookups == [hash : Hashes, by : 0..MaxWords]
Request(stage, l, got) == [stage |-> stage, hash |-> l.hash, by |-> l.by, got |-> got]
TokenRequest == [stage |-> "token", hash |-> "-", by |-> 0, got |-> None]
Queries == {r \in net : r.stage \in {"query", "collection"}}

TypeOK ==
    /\ queue \in Seq(Lookups) /\ igdbPending \in Seq(Lookups)
    /\ collections \in Seq(Hashes)
    /\ \A r \in net :
          \/ r = TokenRequest
          \/ /\ r.stage \in {"query", "poster", "collection"}
             /\ r.hash \in Hashes /\ r.by \in 0..MaxWords /\ r.got \in Results
    /\ requestInFlight \in BOOLEAN /\ limiter \in BOOLEAN /\ token \in BOOLEAN
    /\ manual \subseteq Hashes /\ askedOf \subseteq Films
    /\ cache \in [Hashes -> Results]
    /\ word \in [Hashes -> 0..MaxWords] /\ words \in 0..MaxWords
    /\ happened \subseteq {"hasty", "bare", "token", "false"}

Init ==
    /\ queue = <<>> /\ collections = <<>> /\ igdbPending = <<>>
    /\ net = {} /\ requestInFlight = FALSE /\ limiter = FALSE /\ token \in BOOLEAN
    /\ manual = {} /\ askedOf = {}
    /\ cache = [h \in Hashes |-> None]
    /\ word = [h \in Hashes |-> 0] /\ words = 0 /\ happened = {}

BeingLookedUp(h) ==
    \/ \E i \in DOMAIN queue : queue[i].hash = h
    \/ \E i \in DOMAIN igdbPending : igdbPending[i].hash = h
    \/ \E r \in net : r.hash = h
    \/ h \in manual
    \/ \E i \in DOMAIN collections : collections[i] = h

UnderWay == Len(queue) + Len(igdbPending) + Len(collections) + Cardinality(net)

Haste(h) == IF BeingLookedUp(h) THEN {"hasty"} ELSE {}

------------------------------------------------------------------------------
\* processQueue, the lookups and collections being q and c: lookups first; a
\* game without a token waits for it and lets the flag fall.
ProcessQueue(q, c, hap) ==
    IF requestInFlight
    THEN /\ queue' = q /\ collections' = c /\ happened' = hap
         /\ UNCHANGED <<requestInFlight, igdbPending, net>>
    ELSE IF q # <<>>
    THEN /\ queue' = Tail(q) /\ collections' = c
         /\ IF Head(q).hash \in Games /\ ~token
            THEN /\ igdbPending' = Append(igdbPending, Head(q))
                 /\ net' = net \cup {TokenRequest}           \* ensureIgdbToken
                 /\ happened' = hap \cup {"token"}
                 /\ UNCHANGED requestInFlight
            ELSE /\ requestInFlight' = TRUE
                 /\ net' = net \cup {Request("query", Head(q), None)}
                 /\ happened' = hap
                 /\ UNCHANGED igdbPending
    ELSE LET isDue(h) == cache[h].film = "due"
             due == {i \in DOMAIN c : isDue(c[i])}
             first == CHOOSE i \in due : \A j \in due : i <= j
         IN  /\ queue' = q /\ happened' = hap /\ UNCHANGED igdbPending
             /\ IF due = {}
                THEN /\ collections' = <<>>
                     /\ UNCHANGED <<requestInFlight, net>>
                ELSE /\ collections' = SubSeq(c, first + 1, Len(c))
                     /\ requestInFlight' = TRUE
                     /\ net' = net \cup {[stage |-> "collection", hash |-> c[first],
                                          by |-> 0, got |-> cache[c[first]]]}

ProcessUnlessResting(q, c, hap) ==
    IF limiter THEN /\ queue' = q /\ collections' = c /\ happened' = hap
                    /\ UNCHANGED <<requestInFlight, igdbPending, net>>
    ELSE ProcessQueue(q, c, hap)

\* With art, or blank on purpose: not looked up again.
SettledByArt(c) == c.art

Settled(c) == c.art \/ (c.by >= 0 /\ ~c.title)

\* resolve, batchResolve: a torrent is added, or listed at the start.  Only the
\* collection of a settled one may be due; a title without art is looked up
\* again, by the name of the torrent.
Resolve(h) ==
    LET c == cache[h]
        bare == IF c.title /\ ~c.art /\ c.by > 0 THEN {"bare"} ELSE {}
        now == happened \cup Haste(h) \cup bare
    IN  /\ UnderWay < MaxUnderWay
        /\ IF Settled(c)
           THEN /\ c.film = "due" /\ h \notin askedOf        \* queueCollectionCheck
                /\ askedOf' = askedOf \cup {h}
                /\ ProcessUnlessResting(queue, Append(collections, h), now)
           ELSE /\ UNCHANGED askedOf
                /\ ProcessUnlessResting(Append(queue, [hash |-> h, by |-> 0]), collections, now)
        /\ UNCHANGED <<limiter, token, manual, cache, word, words>>

Decision(h) ==
    /\ words < MaxWords /\ words' = words + 1
    /\ word' = [word EXCEPT ![h] = words + 1]

\* resolveManual: the user names the torrent.
ResolveManual(h) ==
    /\ UnderWay < MaxUnderWay
    /\ Decision(h)
    /\ cache' = [cache EXCEPT ![h] = None]
    /\ manual' = manual \cup {h}
    /\ ProcessUnlessResting(Append(queue, [hash |-> h, by |-> words + 1]), collections,
                            happened \cup Haste(h))
    /\ UNCHANGED <<limiter, token, askedOf>>

\* clearMetadata: "No cover" keeps what the torrent is; metadataReady is
\* emitted, which clears the re-link.
ClearMetadata(h) ==
    /\ Decision(h)
    /\ happened' = happened \cup Haste(h)
    /\ cache' = [cache EXCEPT ![h] =
                    [by |-> words + 1, title |-> FALSE, art |-> FALSE,
                     film |-> IF cache[h].film = "no" THEN "no" ELSE "due"]]
    /\ manual' = manual \ {h}
    /\ UNCHANGED <<queue, collections, requestInFlight, net, limiter, token, igdbPending,
                   askedOf>>

------------------------------------------------------------------------------
\* metadataReady closes the re-link.
MetadataReadyUnheard(h) == manual

MetadataReady(h) == manual \ {h}

\* finishLookup: a re-link that is still open was missed; then the pause.
FinishLookupMerely(h, open, own) ==
    /\ manual' = open \ {h}
    /\ word' = IF h \in open THEN [word EXCEPT ![h] = 0] ELSE word
    /\ happened' = IF h \in open /\ ~own THEN happened \cup {"false"} ELSE happened

\* A fault: the pause, and the next lookup with it, is not started.
FinishLookupAtOnce(h, open, own) == FinishLookupMerely(h, open, own) /\ UNCHANGED limiter

FinishLookup(h, open, own) == FinishLookupMerely(h, open, own) /\ limiter' = TRUE

\* The result is kept, saved and announced.
Store(h, result) ==
    /\ cache' = [cache EXCEPT ![h] = result]
    /\ FinishLookup(h, MetadataReady(h), FALSE)

QueryMisses(r) ==
    /\ r \in net /\ r.stage = "query"
    /\ net' = net \ {r} /\ requestInFlight' = FALSE
    /\ FinishLookup(r.hash, manual, r.by = word[r.hash])
    /\ UNCHANGED <<queue, collections, token, igdbPending, cache, askedOf, words>>

\* The lookup found its title; the poster, if there is one, is fetched beside
\* the queue, which the flag no longer holds.
QueryHits(r, poster, film) ==
    LET result == [by |-> r.by, title |-> TRUE, art |-> FALSE, film |-> film]
    IN  /\ r \in net /\ r.stage = "query" /\ (film # "no" <=> r.hash \in Films)
        /\ requestInFlight' = FALSE
        /\ IF poster
           THEN /\ net' = (net \ {r}) \cup {[r EXCEPT !.stage = "poster", !.got = result]}
                /\ UNCHANGED <<cache, manual, limiter, word, happened>>
           ELSE net' = net \ {r} /\ Store(r.hash, result)
        /\ UNCHANGED <<queue, collections, token, igdbPending, askedOf, words>>

PosterEnds(r, saved) ==
    /\ r \in net /\ r.stage = "poster"
    /\ net' = net \ {r}
    /\ Store(r.hash, [r.got EXCEPT !.art = saved])
    /\ UNCHANGED <<queue, collections, requestInFlight, token, igdbPending, askedOf, words>>

\* The collection of a film already shown: what was cached when it was asked
\* for is written back, with the collection.
CollectionAnswers(r, answered) ==
    /\ r \in net /\ r.stage = "collection"
    /\ net' = net \ {r} /\ requestInFlight' = FALSE
    /\ cache' = IF answered THEN [cache EXCEPT ![r.hash] = [r.got EXCEPT !.film = "done"]] ELSE cache
    /\ FinishLookup(r.hash, manual, FALSE)
    /\ UNCHANGED <<queue, collections, token, igdbPending, askedOf, words>>

\* The token: every game that waited is asked for at once; a refusal does nothing.
TokenAnswers(granted) ==
    LET waiting == {Request("query", igdbPending[i], None) : i \in DOMAIN igdbPending}
    IN  /\ TokenRequest \in net
        /\ IF granted
           THEN /\ token' = TRUE /\ igdbPending' = <<>>
                /\ net' = (net \ {TokenRequest}) \cup waiting
                /\ requestInFlight' = (requestInFlight \/ waiting # {})
           ELSE /\ net' = net \ {TokenRequest} /\ UNCHANGED <<token, igdbPending, requestInFlight>>
        /\ UNCHANGED <<queue, collections, limiter, manual, cache, askedOf, word, words, happened>>

TokenExpires ==
    /\ token /\ token' = FALSE
    /\ UNCHANGED <<queue, collections, requestInFlight, net, limiter, igdbPending, manual,
                   cache, askedOf, word, words, happened>>

\* A fault: the pause over, the next lookup starts whatever is under way.
RateLimiterFiresBlindly ==
    /\ limiter
    /\ limiter' = FALSE
    /\ queue # <<>> /\ queue' = Tail(queue)
    /\ requestInFlight' = TRUE
    /\ net' = net \cup {Request("query", Head(queue), None)}
    /\ UNCHANGED <<collections, token, igdbPending, manual, cache, askedOf, word, words, happened>>

RateLimiterFires ==
    /\ limiter
    /\ limiter' = FALSE
    /\ ProcessQueue(queue, collections, happened)
    /\ UNCHANGED <<token, manual, cache, askedOf, word, words>>

QueryAnswers ==
    \E r \in net :
        \/ QueryMisses(r)
        \/ \E poster \in BOOLEAN, film \in {"no", "due", "done"} : QueryHits(r, poster, film)
        \/ \E answered \in BOOLEAN : CollectionAnswers(r, answered)

PosterEndsFor(h) == \E r \in net, saved \in BOOLEAN : r.hash = h /\ PosterEnds(r, saved)
TokenRequestEnds == \E granted \in BOOLEAN : TokenAnswers(granted)

Next ==
    \/ \E h \in Hashes : Resolve(h) \/ ResolveManual(h) \/ ClearMetadata(h)
    \/ QueryAnswers \/ RateLimiterFires \/ TokenExpires
    \/ \E h \in Hashes : PosterEndsFor(h)
    \/ TokenRequestEnds

\* Every request has a transfer timeout, and the limiter is a timer.
Fairness ==
    /\ WF_resolver(QueryAnswers) /\ WF_resolver(RateLimiterFires)
    /\ (\A h \in Hashes : WF_resolver(PosterEndsFor(h))) /\ WF_resolver(TokenRequestEnds)
Spec == Init /\ [][Next]_resolver /\ Fairness

------------------------------------------------------------------------------
\* One query is out at a time, unless games had to wait for the token:
\* processQueue, fetchTmdbMovieDetails and the limiter keep the queue serialized
\* (a poster is fetched beside it).
QueriesAreSerial == "token" \notin happened => Cardinality(Queries) <= 1

\* What is shown of a torrent serves the user's last decision on it, once no
\* re-link is open and nothing about it was asked during a lookup or, for a
\* re-link without art, asked again: a re-link persists, "No cover" stays.
LastWordWins ==
    \A h \in Hashes :
        (word[h] > 0 /\ h \notin manual /\ happened \cap {"hasty", "bare"} = {})
        => cache[h].by = word[h]

\* A re-link is told that it matched nothing by its own lookup only.
MissIsItsOwn == "hasty" \notin happened => "false" \notin happened

\* A re-link comes to an end, with a match or a miss, unless a game had to wait
\* for the token: whatever a lookup meets, the next one gets its turn.
Unlinked(h) == h \in manual /\ "token" \notin happened
RelinkEnds == \A h \in Hashes : Unlinked(h) ~> ~Unlinked(h)

\* The queue is serial and the user's word is the last.
ResolverIsSound == TypeOK /\ QueriesAreSerial /\ LastWordWins /\ MissIsItsOwn

\* What the comments say with no condition: one query at a time; a re-link or
\* "No cover" is never overridden; every lookup comes to its end.
OneQueryAtATime == Cardinality(Queries) <= 1
RelinkPersists ==
    \A h \in Hashes : (word[h] > 0 /\ h \notin manual /\ ~BeingLookedUp(h)) => cache[h].by = word[h]
EveryRelinkEnds == \A h \in Hashes : (h \in manual) ~> (h \notin manual)
==============================================================================
