------------------------------ MODULE EngineLink ------------------------------
(***************************************************************************)
(* The torrent engine in a process of its own: IpcEngine in the app,       *)
(* EngineHost in the engine, and the local socket between them.  The app   *)
(* reads the list from the last snapshot pushed to it and names a torrent  *)
(* by its index; it sends requests and blocks, with the socket the only    *)
(* thing it listens to, so that the handlers of events run in the middle   *)
(* of a call and may make calls of their own.  It keeps the piece map of   *)
(* each streamed file.                                                     *)
(*                                                                         *)
(* Data left out: the rows of the snapshot, the arguments and answers of   *)
(* queries and settings, the geometry of a file (a torrent has one file).  *)
(* Frames are whole, except that a crash may cut the last one.             *)
(***************************************************************************)
EXTENDS Naturals, Sequences, FiniteSets, SequencesExt, FiniteSetsExt

CONSTANTS
  Torrents,    \* the info-hashes
  None,        \* no piece map; an answer without one
  Pieces,      \* the pieces of a torrent's file
  Library,     \* what the engine loads the first time
  Ops,         \* the operations and faults that a run exercises
  ReplyMax,    \* m_replies is cleared above this size (64 in the code)
  MaxRespawns, \* kMaxRespawns (5 in the code)
  MaxDepth,    \* bound: calls within calls
  MaxFrames    \* bound: frames on their way when the engine sends by itself,
               \* or when a call gives up

ASSUME NoneAssumption == None \notin [of : Torrents, have : SUBSET Pieces]
ASSUME BoundAssumption == {ReplyMax, MaxRespawns, MaxDepth, MaxFrames} \subseteq Nat
ASSUME LibraryAssumption == Library \in Seq(Torrents) /\ IsInjective(Library)

VARIABLES
  \* the engine
  list,      \* m_torrents
  have,      \* libtorrent's pieces of each torrent
  streamed,  \* m_streamed
  \* the socket
  toEngine,  \* requests that EngineHost has not dispatched
  toUi,      \* frames that the app has not read
  cut,       \* a part of a frame comes after those
  \* the app
  link,      \* "on", "broken" (the engine died), "off" (a respawn is due), "lost"
  respawns,  \* m_respawnCount
  snap,      \* m_snap.hashes
  gotSnap,   \* m_gotSnapshot
  geo,       \* m_streamGeo
  buf,       \* m_buf: whole frames
  torn,      \* m_buf starts with a part of a frame
  replies,   \* m_replies
  stack,     \* the app's calls under way, outermost first
  todo       \* the removals that a loop in the app has yet to call

engine == <<list, have, streamed>>
socket == <<toEngine, toUi, cut>>
view == <<snap, gotSnap, geo>>
input == <<buf, torn, replies>>
vars == <<engine, socket, link, respawns, view, input, stack, todo>>

Map == [of : Torrents, have : SUBSET Pieces]
Whats == {"query", "geometry", "remove", "move"}

\* What the app's stack holds: start() awaiting the first snapshot, request()
\* awaiting a reply, pumpSocket() (inHandler: a handler of an event runs).
Start == [at |-> "start"]
Call(id, what, t) == [at |-> "call", id |-> id, what |-> what, t |-> t]
Drain(inHandler) == [at |-> "drain", inHandler |-> inHandler]

Top == IF stack = <<>> THEN [at |-> "loop"] ELSE Last(stack)
Popped == Front(stack)

IdsInUse ==
  {toEngine[i].id : i \in 1..Len(toEngine)} \cup {r.id : r \in replies}
    \cup {stack[i].id : i \in {j \in 1..Len(stack) : stack[j].at = "call"}}
    \cup {f.id : f \in {g \in Range(buf \o toUi) : g.kind = "reply"}}

TypeOK ==
  /\ list \in Seq(Torrents)
  /\ have \in [Torrents -> SUBSET Pieces]
  /\ streamed \subseteq Torrents
  /\ \A r \in Range(toEngine) : r.what \in Whats /\ r.id \in Nat
  /\ \A f \in Range(toUi \o buf) : f.kind \in {"reply", "snapshot", "piece", "removed"}
  /\ {cut, torn, gotSnap} \subseteq BOOLEAN
  /\ link \in {"on", "broken", "off", "lost"}
  /\ respawns \in 0..MaxRespawns + 1
  /\ snap \in Seq(Torrents)
  /\ geo \in [Torrents -> Map \cup {None}]
  /\ \A r \in replies : r.id \in Nat /\ r.what \in Whats /\ r.body \in Map \cup {None}
  /\ Len(stack) <= 2 * MaxDepth + 2

\* The engine loads the files of the last run in the order of their names.
Loaded(S) == SetToSeq(S)

\* The app has just reached the first engine.
Init ==
  /\ list = Library
  /\ have = [t \in Torrents |-> {}]
  /\ streamed = {}
  /\ toEngine = <<>>
  /\ toUi = <<[kind |-> "snapshot", list |-> Library]>>
  /\ cut = FALSE /\ torn = FALSE
  /\ link = "on" /\ respawns = 0
  /\ snap = <<>> /\ gotSnap = FALSE
  /\ geo = [t \in Torrents |-> None]
  /\ buf = <<>> /\ replies = {}
  /\ stack = <<Start>>
  /\ todo = <<>>

-----------------------------------------------------------------------------
(* The app: calls *)

\* Code of the app runs: at the top of its event loop, or in an event's handler.
CodeRuns ==
  \/ Top.at \in {"loop", "start"}
  \/ Top.at = "drain" /\ Top.inHandler
Depth == Cardinality({j \in 1..Len(stack) : stack[j].at = "call"})

\* Mutant: the number of a request is free again when its wait is over.
RequestReuses(what, i, t, meant, fresh) ==
  IF link # "on"
  THEN UNCHANGED <<toEngine, replies, stack>>
  ELSE LET id == Depth + 1 IN
       /\ replies' = IF Cardinality(replies) > ReplyMax THEN {} ELSE replies
       /\ toEngine' = Append(toEngine, [id |-> id, what |-> what, i |-> i,
                                        meant |-> meant, fresh |-> fresh])
       /\ stack' = Append(stack, Call(id, what, t))

\* request(): one that cannot be sent returns at once.
Request(what, i, t, meant, fresh) ==
  IF link # "on"
  THEN UNCHANGED <<toEngine, replies, stack>>
  ELSE LET id == Min(1..Cardinality(IdsInUse) + 1 \ IdsInUse) IN
       /\ replies' = IF Cardinality(replies) > ReplyMax THEN {} ELSE replies
       /\ toEngine' = Append(toEngine, [id |-> id, what |-> what, i |-> i,
                                        meant |-> meant, fresh |-> fresh])
       /\ stack' = Append(stack, Call(id, what, t))

\* A query or a setting, as the handlers of most events make
Query ==
  /\ "query" \in Ops /\ CodeRuns /\ todo = <<>> /\ Depth < MaxDepth
  /\ link = "on"
  /\ Request("query", 0, None, None, FALSE)
  /\ UNCHANGED <<engine, toUi, cut, link, respawns, view, buf, torn, todo>>

\* The stream server's pump asks for the piece map: streamGeo names the map
\* after the hash that the snapshot has at that index.
StreamGeo(i) ==
  /\ "stream" \in Ops /\ CodeRuns /\ Top.at # "start" /\ todo = <<>> /\ Depth < MaxDepth
  /\ link = "on"
  /\ i \in 1..Len(snap)
  /\ geo[snap[i]] = None
  /\ Request("geometry", i, snap[i], snap[i], FALSE)
  /\ UNCHANGED <<engine, toUi, cut, link, respawns, view, buf, torn, todo>>

\* The queue order is changed by hand.
Move(i) ==
  /\ "move" \in Ops /\ stack = <<>> /\ todo = <<>>
  /\ link = "on"
  /\ i \in 2..Len(snap)
  /\ Request("move", i, None, snap[i], FALSE)
  /\ UNCHANGED <<engine, toUi, cut, link, respawns, view, buf, torn, todo>>

\* The indices of S, highest first, and (a mutant) lowest first
Downward(S) ==
  CHOOSE q \in [1..Cardinality(S) -> S] :
    \A j, k \in 1..Cardinality(S) : j < k => q[j] > q[k]
Upward(S) == Reverse(Downward(S))

\* The list on the screen is the engine's.
Accurate == snap = list /\ toEngine = <<>>

\* Mutant: the lowest row goes first.
RemoveRowsUpward(S) ==
  /\ "rows" \in Ops /\ stack = <<>> /\ todo = <<>> /\ link = "on"
  /\ S # {} /\ S \subseteq 1..Len(snap)
  /\ todo' = [k \in 1..Cardinality(S) |->
                [by |-> "row", i |-> Upward(S)[k], meant |-> snap[Upward(S)[k]],
                 fresh |-> Accurate]]
  /\ UNCHANGED <<engine, socket, link, respawns, view, input, stack>>

\* removeSelectedRows
RemoveRows(S) ==
  /\ "rows" \in Ops /\ stack = <<>> /\ todo = <<>> /\ link = "on"
  /\ S # {} /\ S \subseteq 1..Len(snap)
  /\ todo' = [k \in 1..Cardinality(S) |->
                [by |-> "row", i |-> Downward(S)[k], meant |-> snap[Downward(S)[k]],
                 fresh |-> Accurate]]
  /\ UNCHANGED <<engine, socket, link, respawns, view, input, stack>>

\* removeTorrentsByHash
RemoveByHash(hashes) ==
  /\ "hashes" \in Ops /\ stack = <<>> /\ todo = <<>> /\ link = "on"
  /\ hashes # {} /\ hashes \subseteq Range(snap)
  /\ todo' = [k \in 1..Cardinality(hashes) |->
                [by |-> "hash", i |-> 0, meant |-> SetToSeq(hashes)[k], fresh |-> Accurate]]
  /\ UNCHANGED <<engine, socket, link, respawns, view, input, stack>>

\* The next removal of the loop.  By hash, the index is looked up now.
RemoveNext ==
  /\ stack = <<>> /\ todo # <<>>
  /\ todo' = Tail(todo)
  /\ LET r == Head(todo)
         at == {i \in 1..Len(snap) : snap[i] = r.meant}
     IN  IF r.by = "hash" /\ at = {}
         THEN UNCHANGED <<toEngine, replies, stack>>
         ELSE Request("remove", IF r.by = "row" THEN r.i ELSE Min(at), None, r.meant, r.fresh)
  /\ UNCHANGED <<engine, toUi, cut, link, respawns, view, buf, torn>>

\* The wait of request() ends: with the reply, after 5 s, or because the
\* socket is closed.  A piece map that came is kept.
Return(r) ==
  /\ Top.at = "call"
  /\ r \in replies /\ r.id = Top.id
  /\ replies' = replies \ {r}
  /\ geo' = IF Top.what = "geometry" /\ r.body # None THEN [geo EXCEPT ![Top.t] = r.body] ELSE geo
  /\ stack' = Popped
  /\ UNCHANGED <<engine, socket, link, respawns, snap, gotSnap, buf, torn, todo>>

ReturnEmpty ==
  /\ Top.at = "call"
  /\ \A r \in replies : r.id # Top.id
  /\ link = "broken" \/ ("slow" \in Ops /\ Len(toEngine \o toUi) <= MaxFrames)
  /\ stack' = Popped
  /\ UNCHANGED <<engine, socket, link, respawns, view, input, todo>>

-----------------------------------------------------------------------------
(* The app: frames *)

\* pumpSocket(): n frames have arrived, all in one piece.  What follows a part
\* of a frame of another engine is read at the wrong offset and is lost.
Read(n, part) ==
  /\ Top.at \in {"loop", "start", "call"}
  /\ stack = <<>> => todo = <<>>
  /\ n \in 0..Len(toUi)
  /\ part => cut /\ n = Len(toUi)
  /\ n > 0 \/ part
  /\ toUi' = SubSeq(toUi, n + 1, Len(toUi))
  /\ buf' = IF torn THEN buf ELSE buf \o SubSeq(toUi, 1, n)
  /\ cut' = (cut /\ ~part)
  /\ torn' = (torn \/ part)
  /\ stack' = Append(stack, Drain(FALSE))
  /\ UNCHANGED <<engine, toEngine, link, respawns, view, replies, todo>>

\* Mutant: the piece maps survive a removal.
RemovedKept == UNCHANGED geo

\* dispatchEvent on torrentRemoved
Removed == geo' = [t \in Torrents |-> None]

\* handleFrame, dispatchEvent
HandleFrame ==
  /\ Top.at = "drain" /\ buf # <<>>
  /\ buf' = Tail(buf)
  /\ LET f == Head(buf) IN
       /\ stack' = Append(Popped, Drain(f.kind # "reply"))
       /\ CASE f.kind = "reply" ->
                 /\ replies' = replies \cup {[id |-> f.id, what |-> f.what, body |-> f.body]}
                 /\ UNCHANGED view
            [] f.kind = "snapshot" ->
                 /\ snap' = f.list /\ gotSnap' = TRUE
                 /\ UNCHANGED <<geo, replies>>
            [] f.kind = "piece" ->
                 /\ geo' = IF geo[f.t] = None THEN geo
                           ELSE [geo EXCEPT ![f.t].have = @ \cup {f.p}]
                 /\ UNCHANGED <<snap, gotSnap, replies>>
            [] f.kind = "removed" ->
                 /\ Removed
                 /\ UNCHANGED <<snap, gotSnap, replies>>
  /\ UNCHANGED <<engine, socket, link, respawns, torn, todo>>

DrainEnds ==
  /\ Top.at = "drain" /\ buf = <<>>
  /\ stack' = Popped
  /\ UNCHANGED <<engine, socket, link, respawns, view, input, todo>>

-----------------------------------------------------------------------------
(* The app: the engine's process *)

\* Mutant: an engine that keeps dying is started for ever.
OnProcFinishedForever(late) ==
  /\ link = "broken" /\ stack = <<>> /\ todo = <<>>
  /\ toEngine' = <<>> /\ toUi' = <<>> /\ cut' = FALSE
  /\ gotSnap' = FALSE
  /\ respawns' = (IF late THEN 0 ELSE respawns) + 1
  /\ link' = "off"
  /\ UNCHANGED <<engine, snap, geo, input, stack, todo>>

\* Mutant: the old snapshot counts as the new engine's.
OnProcFinishedKeeps(late) ==
  /\ link = "broken" /\ stack = <<>> /\ todo = <<>>
  /\ toEngine' = <<>> /\ toUi' = <<>> /\ cut' = FALSE
  /\ respawns' = (IF late THEN 0 ELSE respawns) + 1
  /\ link' = IF respawns' > MaxRespawns THEN "lost" ELSE "off"
  /\ UNCHANGED <<engine, view, input, stack, todo>>

\* onProcFinished.  late: more than 30 s after the first death that counts
OnProcFinished(late) ==
  /\ link = "broken" /\ stack = <<>> /\ todo = <<>>
  /\ toEngine' = <<>> /\ toUi' = <<>> /\ cut' = FALSE
  /\ gotSnap' = FALSE
  /\ respawns' = (IF late THEN 0 ELSE respawns) + 1
  /\ link' = IF respawns' > MaxRespawns THEN "lost" ELSE "off"
  /\ UNCHANGED <<engine, snap, geo, input, stack, todo>>

\* Mutant: the app does not try again to reach an engine that is not up yet.
StartEngineTriesOnce(inTime) ==
  /\ link = "off" /\ stack = <<>> /\ todo = <<>>
  /\ list' = Loaded(Range(list))
  /\ streamed' = {}
  /\ IF inTime
     THEN /\ link' = "on"
          /\ toUi' = <<[kind |-> "snapshot", list |-> list']>>
          /\ stack' = <<Start>>
     ELSE /\ link' = "lost"
          /\ UNCHANGED <<toUi, stack>>
  /\ UNCHANGED <<have, toEngine, cut, respawns, view, input, todo>>

\* start(), half a second later.  The new engine loads the torrents, listens,
\* and greets the app with a snapshot; or it takes more than 5 s, and the app
\* does not try again.
StartEngine(inTime) ==
  /\ link = "off" /\ stack = <<>> /\ todo = <<>>
  /\ inTime \/ "late" \in Ops
  /\ list' = Loaded(Range(list))
  /\ streamed' = {}
  /\ IF inTime
     THEN /\ link' = "on"
          /\ toUi' = <<[kind |-> "snapshot", list |-> list']>>
          /\ stack' = <<Start>>
     ELSE /\ link' = "lost"
          /\ UNCHANGED <<toUi, stack>>
  /\ UNCHANGED <<have, toEngine, cut, respawns, view, input, todo>>

\* start() returns with the first snapshot, after 2 s, or when the socket closes.
StartEnds ==
  /\ Top.at = "start"
  /\ gotSnap \/ link = "broken" \/ "slow" \in Ops
  /\ stack' = Popped
  /\ UNCHANGED <<engine, socket, link, respawns, view, input, todo>>

\* Giving up: the app stays up without an engine.
StaysUp ==
  /\ link = "lost" /\ stack = <<>> /\ todo = <<>>
  /\ UNCHANGED vars

-----------------------------------------------------------------------------
(* The engine *)

Running == link = "on"
MaySend == Running /\ Len(toUi) < MaxFrames

Reply(r, body) == [kind |-> "reply", id |-> r.id, what |-> r.what, body |-> body]

\* Mutant: the torrent is not registered.
Unregistered(t) == UNCHANGED streamed

\* streamGeometry: the torrent is registered before its pieces are read.
Registered(t) == streamed' = streamed \cup {t}

\* EngineHost::dispatch, with removeTorrent, setTorrentQueuePosition and
\* streamGeometry of the session
Dispatch ==
  /\ Running /\ toEngine # <<>>
  /\ toEngine' = Tail(toEngine)
  /\ LET r == Head(toEngine)
         there == r.i \in 1..Len(list)
     IN  CASE r.what = "remove" /\ there ->
                /\ list' = RemoveAt(list, r.i)
                /\ streamed' = streamed \ {list[r.i]}
                /\ toUi' = toUi \o <<[kind |-> "removed"], Reply(r, None)>>
           [] r.what = "move" /\ there ->
                /\ list' = InsertAt(RemoveAt(list, r.i), 1, list[r.i])
                /\ toUi' = Append(toUi, Reply(r, None))
                /\ UNCHANGED streamed
           [] r.what = "geometry" /\ there ->
                /\ Registered(list[r.i])
                /\ toUi' = Append(toUi, Reply(r, [of |-> list[r.i], have |-> have[list[r.i]]]))
                /\ UNCHANGED list
           [] OTHER ->
                /\ toUi' = Append(toUi, Reply(r, None))
                /\ UNCHANGED <<list, streamed>>
  /\ UNCHANGED <<have, cut, link, respawns, view, input, stack, todo>>

\* Mutant: the snapshot is pushed to a new connection only.
TickSilent == MaySend /\ UNCHANGED vars

\* The session's tick: torrentsUpdated, then pushSnapshot
Tick ==
  /\ MaySend
  /\ toUi' = Append(toUi, [kind |-> "snapshot", list |-> list])
  /\ UNCHANGED <<engine, toEngine, cut, link, respawns, view, input, stack, todo>>

\* onPieceFinished
PieceFinished(t, p) ==
  /\ "stream" \in Ops /\ MaySend
  /\ t \in Range(list) /\ p \in Pieces \ have[t]
  /\ have' = [have EXCEPT ![t] = @ \cup {p}]
  /\ toUi' = IF t \in streamed THEN Append(toUi, [kind |-> "piece", t |-> t, p |-> p]) ELSE toUi
  /\ UNCHANGED <<list, streamed, toEngine, cut, link, respawns, view, input, stack, todo>>

\* A torrent is added, by RSS or by hand; its files are not there (any more).
AddTorrent(t) ==
  /\ "add" \in Ops /\ Running
  /\ t \notin Range(list)
  /\ list' = Append(list, t)
  /\ have' = [have EXCEPT ![t] = {}]
  /\ UNCHANGED <<streamed, socket, link, respawns, view, input, stack, todo>>

\* The engine dies.  Of what it sent, n frames reach the app, and perhaps a
\* part of the next.
EngineDies(n, part) ==
  /\ "die" \in Ops /\ link = "on"
  /\ n \in 0..Len(toUi)
  /\ part => "tear" \in Ops /\ n < Len(toUi)
  /\ link' = "broken"
  /\ toUi' = SubSeq(toUi, 1, n)
  /\ cut' = part
  /\ UNCHANGED <<engine, toEngine, respawns, view, input, stack, todo>>

-----------------------------------------------------------------------------

App ==
  \/ Query
  \/ \E i \in 1..Len(snap) : StreamGeo(i) \/ Move(i)
  \/ \E S \in SUBSET (1..Len(snap)) : RemoveRows(S)
  \/ \E S \in SUBSET Torrents : RemoveByHash(S)

AppGoesOn ==
  \/ RemoveNext
  \/ \E r \in replies : Return(r)
  \/ ReturnEmpty
  \/ \E n \in 0..Len(toUi), part \in BOOLEAN : Read(n, part)
  \/ HandleFrame \/ DrainEnds
  \/ \E late \in BOOLEAN : OnProcFinished(late)
  \/ StartEngine(TRUE) \/ StartEngine(FALSE) \/ StartEnds

Engine ==
  \/ Dispatch \/ Tick
  \/ \E t \in Torrents : AddTorrent(t) \/ \E p \in Pieces : PieceFinished(t, p)
  \/ \E n \in 0..Len(toUi), part \in BOOLEAN : EngineDies(n, part)

Next == App \/ AppGoesOn \/ StaysUp \/ Engine

Spec == Init /\ [][Next]_vars

\* The app's event loop and its waits go on, and the engine's session ticks
\* and dispatches.
Fairness == WF_vars(AppGoesOn) /\ WF_vars(Dispatch) /\ SF_vars(Tick)

FairSpec == Spec /\ Fairness

-----------------------------------------------------------------------------
(* Properties *)

\* A removal is on its way to the app.
RemovalComes == \E f \in Range(buf \o toUi) : f.kind = "removed"

\* A piece map that the app keeps for a torrent is that torrent's (streamGeo:
\* the map is named by the snapshot's hash and asked for by its index).
GeometryIsOurs == \A t \in Torrents : geo[t] # None => geo[t].of = t

\* The map never claims a piece that the torrent does not have: the stream
\* server would serve bytes that are not there ("a torrent re-added later under
\* the same hash starts from nothing").
MapIsSound ==
  \A t \in Torrents : geo[t] # None /\ ~RemovalComes => geo[t].have \subseteq have[geo[t].of]

\* The engine tells the app of the pieces of every torrent that it keeps a map
\* of ("kept current by pieceFinished").
MapIsRegistered ==
  link = "on" =>
    \A t \in Torrents : geo[t] # None /\ ~RemovalComes => geo[t].of \in streamed

\* The map is current: a piece that the torrent has and the map lacks is on its
\* way ("kept current by pieceFinished").
MapIsCurrent ==
  \A t \in Torrents : geo[t] # None /\ link = "on" =>
    \A p \in have[t] \ geo[t].have :
      RemovalComes \/ \E f \in Range(buf \o toUi) : f.kind = "piece" /\ f.t = t /\ f.p = p

\* The torrent that this step removes
Victims == Range(list) \ Range(list')

\* The rows that are removed while the list on the screen is the engine's are
\* the ones that were selected ("Highest index first, so erasing earlier rows
\* doesn't shift the ones we haven't removed yet").
SelectedRowsGo ==
  [][Victims # {} /\ Head(toEngine).fresh => Victims = {Head(toEngine).meant}]_vars

\* A torrent that is removed is the one that the user meant ("resolves the hash
\* to its current engine index, then removeTorrent()").
RemovesWhatWasMeant == [][Victims # {} => Victims = {Head(toEngine).meant}]_vars

\* An answer that a call still waits for is not thrown away ("Prune orphaned
\* replies (a reply that landed after its request timed out)").
AnswerIsKept ==
  [][\A r \in replies : (\E c \in Range(stack) \cap Range(stack') : c.at = "call" /\ c.id = r.id)
                          => r \in replies']_vars

\* A call returns with the answer to what it asked, also when answers come too
\* late for the calls that they belong to ("only the matching Reply ends it").
AnswersItsCall ==
  [][\A r \in replies \ replies' :
       stack' = Popped => Top.at = "call" /\ r.what = Top.what]_vars

\* The app's list comes to be the engine's, once nothing changes it.
SnapshotConverges ==
  <>[](link = "on") /\ <>[][UNCHANGED list]_vars => <>[](snap = list)

\* An engine that dies is started again and reached, unless it keeps dying
\* ("an engine crash can't close the window - it restarts automatically").
EngineComesBack == link = "off" ~> link = "on"

\* The app's piece maps are true of the pieces, and the engine keeps them so.
MapIsKept == MapIsSound /\ MapIsRegistered

\* What belongs to one engine or one torrent is not taken for another's.
NothingIsMixedUp == TypeOK /\ GeometryIsOurs

\* After a crash the app has an engine and that engine's list again.
EngineRecovers == SnapshotConverges /\ EngineComesBack
=============================================================================
