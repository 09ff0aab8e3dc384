---------------------------- MODULE SourceAddons ----------------------------
(***************************************************************************)
(* The add-ons that find titles and streams, the search sources, and how   *)
(* both are seeded; and what the add-ons are asked: an ask goes to every   *)
(* one that is on, its answers count down, and those to an older ask have  *)
(* no effect.                                                              *)
(***************************************************************************)
EXTENDS Integers, FiniteSets, SequencesExt

CONSTANTS
  Curated,      \* curatedCatalog: the add-ons of the program, by url
  Local,        \* those that are on in their own language only
  Urls,         \* with the user's own
  Defaults,     \* defaultProviders, the search sources of the program
  Legacy,       \* those of an older program, which are not to come back
  Presets,      \* providerCatalog: what may be added
  Ids,          \* what streams are asked for
  MaxAsks, MaxAddons,
  AddonOps      \* odd cases: "hasty", "seeds", "language"

VARIABLES
  addons,       \* m_addons, saved at every change: [url, enabled]
  language,     \* whether the content language is that of the local add-ons
  manifests,    \* fetchManifest: how many are under way, by url
  providers,    \* m_searchProviders, saved at every change
  seeded,       \* seededProviderIds
  ask,          \* m_streamGen with its subject, m_pendingStreams, m_streamResults
  replies,      \* requests under way: [gen, of, url]
  finished,     \* history: by ask, how often its end was told
  choice,       \* history: what the user last chose for an add-on
  dropped       \* history: the sources the user removed

vars == <<addons, language, manifests, providers, seeded, ask, replies, finished, choice, dropped>>

asking == <<ask, replies, finished>>
listing == <<addons, language, manifests, providers, seeded, choice, dropped>>

Listed(url) == \E i \in DOMAIN addons : addons[i].url = url

\* syncCuratedAddons: what is missing is added, and each is switched by the language
WantOn(url, here) == url \notin Local \/ here

Synced(list, here) ==
  LET missing == SetToSeq({u \in Curated : \A i \in DOMAIN list : list[i].url # u})
      all == list \o [i \in DOMAIN missing |-> [url |-> missing[i], enabled |-> TRUE]]
  IN [i \in DOMAIN all |-> IF all[i].url \in Curated
                           THEN [all[i] EXCEPT !.enabled = WantOn(all[i].url, here)] ELSE all[i]]

Unchosen == \A u \in Curated : choice[u] = "none"

\* installDefaultProviders: each once, and the legacy ones never
SeededNow(old) == old \cup Legacy \cup Defaults
NewDefaults(list, old) == SetToSeq({p \in Defaults \ (old \cup Legacy) : p \notin Range(list)})

Init ==
  /\ language \in BOOLEAN
  /\ addons = Synced(<<>>, language)
  /\ manifests = [u \in Urls |-> 0]
  /\ providers = NewDefaults(<<>>, {}) /\ seeded = SeededNow({})
  /\ ask = [gen |-> 0, of |-> "nothing", pending |-> 0, results |-> {}]
  /\ replies = {} /\ finished = [g \in 1..MaxAsks |-> 0]
  /\ choice = [u \in Urls |-> "none"] /\ dropped = {}

------------------------------------------------------------------------------
AddAddon(url) ==
  /\ ~Listed(url) /\ Len(addons) + manifests[url] < MaxAddons /\ manifests[url] < 2
  /\ "hasty" \in AddonOps \/ manifests[url] = 0
  /\ manifests' = [manifests EXCEPT ![url] = @ + 1]
  /\ UNCHANGED <<addons, language, providers, seeded, choice, dropped, asking>>

\* fetchManifest's answer; the list is not asked again
ManifestComes(url, good) ==
  /\ manifests[url] > 0 /\ manifests' = [manifests EXCEPT ![url] = @ - 1]
  /\ addons' = IF good THEN Append(addons, [url |-> url, enabled |-> TRUE]) ELSE addons
  /\ choice' = IF good THEN [choice EXCEPT ![url] = "on"] ELSE choice
  /\ UNCHANGED <<language, providers, seeded, dropped, asking>>

RemoveAddon(i) ==
  /\ addons' = RemoveAt(addons, i)
  /\ choice' = [choice EXCEPT ![addons[i].url] = "gone"]
  /\ UNCHANGED <<language, manifests, providers, seeded, dropped, asking>>

SetAddonEnabled(i, on) ==
  /\ addons' = [addons EXCEPT ![i].enabled = on]
  /\ choice' = [choice EXCEPT ![addons[i].url] = IF on THEN "on" ELSE "off"]
  /\ UNCHANGED <<language, manifests, providers, seeded, dropped, asking>>

\* The setting contentLanguage
SetLanguage ==
  /\ "language" \in AddonOps \/ Unchosen
  /\ language' = ~language /\ addons' = Synced(addons, ~language)
  /\ UNCHANGED <<manifests, providers, seeded, choice, dropped, asking>>

AddCatalogSource(p) ==
  /\ p \notin Range(providers) /\ providers' = Append(providers, p)
  /\ dropped' = dropped \ {p}
  /\ UNCHANGED <<addons, language, manifests, seeded, choice, asking>>

RemoveSearchProvider(i) ==
  /\ providers' = RemoveAt(providers, i) /\ dropped' = dropped \cup {providers[i]}
  /\ UNCHANGED <<addons, language, manifests, seeded, choice, asking>>

\* The next start, perhaps of a program with a newer seed
Restart(newSeed) ==
  /\ newSeed => "seeds" \in AddonOps \/ Unchosen
  /\ manifests' = [u \in Urls |-> 0]
  /\ addons' = IF newSeed THEN Synced(addons, language) ELSE addons
  /\ providers' = providers \o NewDefaults(providers, seeded) /\ seeded' = SeededNow(seeded)
  /\ ask' = [ask EXCEPT !.of = "nothing", !.pending = 0, !.results = {}] /\ replies' = {}
  /\ finished' = IF ask.pending > 0 THEN [finished EXCEPT ![ask.gen] = 1] ELSE finished
  /\ UNCHANGED <<language, choice, dropped>>

------------------------------------------------------------------------------
\* getStreams, searchCatalog: one request to each add-on that is on
Asked == {addons[i].url : i \in {j \in DOMAIN addons : addons[j].enabled}}

GetStreams(id) ==
  LET gen == ask.gen + 1
      to == {i \in DOMAIN addons : addons[i].enabled}
  IN /\ gen <= MaxAsks
     /\ ask' = [gen |-> gen, of |-> id, pending |-> Cardinality(to), results |-> {}]
     /\ replies' = replies \cup {[gen |-> gen, of |-> id, url |-> addons[i].url] : i \in to}
     /\ finished' = IF to = {} THEN [finished EXCEPT ![gen] = @ + 1] ELSE finished
     /\ UNCHANGED listing

\* applyStreamReply, applyCatalogReply; an answer that failed counts, too
ReplyComes(r, good) ==
  /\ r \in replies /\ replies' = replies \ {r}
  /\ IF r.gen # ask.gen
     THEN UNCHANGED <<ask, finished>>
     ELSE /\ ask' = [ask EXCEPT !.pending = @ - 1,
                                !.results = IF good THEN @ \cup {<<r.of, r.url>>} ELSE @]
          /\ finished' = IF ask.pending <= 1 THEN [finished EXCEPT ![r.gen] = @ + 1] ELSE finished
  /\ UNCHANGED listing

Next ==
  \/ \E u \in Urls : AddAddon(u) \/ \E good \in BOOLEAN : ManifestComes(u, good)
  \/ \E i \in DOMAIN addons : RemoveAddon(i) \/ \E on \in BOOLEAN : SetAddonEnabled(i, on)
  \/ SetLanguage
  \/ \E p \in Presets : AddCatalogSource(p)
  \/ \E i \in DOMAIN providers : RemoveSearchProvider(i)
  \/ \E new \in BOOLEAN : Restart(new)
  \/ \E id \in Ids : GetStreams(id)
  \/ \E r \in replies, good \in BOOLEAN : ReplyComes(r, good)

Spec == Init /\ [][Next]_vars

------------------------------------------------------------------------------
TypeOK ==
  /\ addons \in Seq([url : Urls, enabled : BOOLEAN]) /\ Len(addons) <= MaxAddons
  /\ manifests \in [Urls -> 0..2]
  /\ Range(providers) \subseteq Defaults \cup Presets
  /\ ask.gen \in 0..MaxAsks /\ ask.pending \in 0..MaxAddons

\* No add-on and no source is listed twice
ListedOnce ==
  /\ \A i, j \in DOMAIN addons : addons[i].url = addons[j].url => i = j
  /\ IsInjective(providers)

\* What is listed is of the ask that was last; its end is told once, when its
\* last answer is in
StreamsAreAsked ==
  /\ \A s \in ask.results : s[1] = ask.of
  /\ ask.gen > 0 => finished[ask.gen] = IF ask.pending = 0 THEN 1 ELSE 0
  /\ \A g \in 1..MaxAsks : finished[g] <= 1
  /\ ask.pending = Cardinality({r \in replies : r.gen = ask.gen})

\* What the user switched, or removed, stays so
ChoiceStays ==
  \A u \in Urls : /\ choice[u] = "gone" => ~Listed(u)
                  /\ \A i \in DOMAIN addons : addons[i].url = u /\ choice[u] # "none"
                       => addons[i].enabled = (choice[u] = "on")

\* A source the user removed comes back when the user adds it, and only then
RemovedStaysRemoved == dropped \cap Range(providers) = {}

\* Every source of the program is offered at first
DefaultsAreInstalled == Defaults \subseteq Range(providers) \cup dropped

AddonsAreSound == ListedOnce /\ StreamsAreAsked /\ ChoiceStays /\ RemovedStaysRemoved
=============================================================================
