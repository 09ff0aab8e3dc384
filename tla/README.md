# BATorrent, specified in TLA+

BATorrent is a Qt desktop client: a torrent session on top of libtorrent, direct
HTTP downloads beside it, a VPN tunnel of its own, an embedded player that
streams what is still downloading, and a QML interface. This directory holds TLA+
models of the parts in which timing, faults and restarts decide what the user
gets, the TLC runs that check them, and proofs for TLAPS.

Paths below are relative to the repository's `src/`.

## 1. Inventory

| Component | State it keeps | Operations and what drives them | What is hard, and what makes it correct |
|---|---|---|---|
| **Session tick** (`torrent/sessionmanager_tick.cpp`, `_network`, `_alerts_finish`, `_pertorrent`) | the list, a cache of statuses up to two ticks old, and for each reason to pause (queue, kill switch, disk, memory, seed limits) who was paused for it | the 1 s timer, libtorrent's alerts, the user | Five owners pause and resume the same torrents on stale statuses. Every pause must have an owner that can undo it; the kill switch stops everything; the cap is met and no slot is wasted. |
| **Resume store** (`_persistence`, `sessionresume`, `_lifecycle`, `_alerts`) | `.resume` files by hash, the removed-history, the counter of saves in flight, the crash-loop mark | adds, removals and restores; libtorrent's answers come later; a flush with a time limit at exit; crashes | A late answer must not bring a removed torrent back or overwrite newer data; a crash must not lose a torrent; a torrent has two hashes when hybrid. |
| **VPN** (`services/vpn`, `app/vpnwiring.cpp`, `tools/batwg`) | the manager's state, the profile in use, the retry timer, the helper process, settings that hold the session over a restart | clicks, the helper's lines and exit, timers, engine respawns | With the kill switch, traffic never goes around a tunnel that dropped; Disconnect sticks; a held session can be let go; a drop is retried. |
| **Engine split** (`ipc/ipcengine`, `enginehost`, `ipcprotocol`) | in the app a snapshot of the list, answers, a piece map per streamed file, a byte buffer; in the engine the registered streams | blocking calls that dispatch events while they wait; crash and respawn | Index against a stale list, nested calls, late answers, torn frames, what survives the engine it came from. |
| **HTTP downloads** (`services/downloads`) | ranges with offsets, the open `.part` file and its buffer, a sidecar file of the list | probe, ranged requests, answers in any order, pause and resume, a stall detector, exit and launch | A byte is written once and at its place; a file that is called complete is; what is saved is not ahead of the disk. |
| **Staging for the add window** (`_staging`, `AddDownloadDialog.qml`) | handles in upload mode without a list entry, the window's items | enter, confirm, discard, metadata alert, another way in | confirm against the alert; a magnet that waits is neither saved nor listed; one that is added is as the user chose. |
| **Bandwidth scheduler** (`_scheduler`, `bandwidthschedule.h`) | schedule, turtle toggle, normal and alternative limits, what is applied | each tick, the button, the limits page, a relaunch | four writers of one limit; windows over midnight and the week's end. The limit in force is the one asked for. |
| **Missing-files probe** (`_tick`, `contentprobe`) | what the last look missed, what it paused, an answer from a thread | periodic; moves, resumes and removals | the answer is about an older state: it must pause only what is gone and not fight the user. |
| **Trash** (`_security`, `_lifecycle`), extraction (`_extract`) | targets, attempts, what the settings keep for the next launch | removal, a timer per retry, launch | files are still open when they are to go; the torrent may come back. |
| **End of a download** (`_alerts_finish`, `_categories`, `_info`) | remembered folders, stop wishes and marks by hash; moves under way | finish, metadata and move alerts; categories | the hash changes with the metadata; a check ends in a second finish alert. |
| **Streaming** (`_streaming`, `streamgate.h`, `webui/streamserver.cpp`, `mediaguard.cpp`) | deadline windows, readers, waits, verdicts | HTTP range requests, pieces, the guard | seeks and several readers on one set of deadlines; no byte of a disguised file; a reader gets on. |
| **Media decoder process** (`ipc/media*`, `remotesource`, `isolatedmediaplayer`) | a window of bytes and a question; a ring of shared frames; commands and feeds by generation | play, seek, reads ahead, frames, decoder crash | bytes of another place, torn or lost frames, everyone waiting on everyone. |
| Web server, pairing (`webui/webserver.cpp`) | sessions, pending pairings | HTTP | expiry. |
| **Library rows** (`qmlpostermodel`, `_selection`, `_queue`, `httpmergeengine`) | rows shown, selected row numbers | adds, removals, queue moves, refreshes | row numbers shift under the views and the selection. |
| **Search page** (`bridges/search`) | one count of sources to answer, rows, titles, Get and watch | answers of several services, some inside the call | answers of older searches, failures, caches. |
| **Metadata resolver** (`metadataresolver.cpp`) | queue, limiter, token, manual queries, cache | network answers, a 300 ms timer, the user | a user's decision against a look-up under way. |
| **RSS** (`rssmanager.cpp`) | feeds, items by row, seen links | timer, network answers, the user | a feed goes while its answer is under way; one link in several feeds. |
| **Add window** (`AddDownloadDialog.qml`, `_addwindow`) | lines, previews, ticks, folder, requests | paste, drop, clipboard, answers, the button | one torrent by several ways, answers in any order, a timer between text and list. |
| **Watching** (`_watch`, `_playback`, players) | waits, picks, what is held back, open players | clicks, a poll per second, the guard | a wait for what is gone, unwanted or a fake. |
| **Application start and updates** (`app/`, `updater.cpp`) | server name, boot marks; status, dialog, download | launches, crashes, checks | a second instance, a crash at start, half a download. |
| **Debrid, game lists, add-ons** (`integrations`, `discovery`) | tokens, jobs, caches, lists, generations | network answers, settings, restarts | late answers, choices against defaults. |
| **Games** (`_gameinstall`, `services/games`) | state of the card, mark on the disk, followed processes, counted time | threads, installers, polls, restarts | half-unpacked games, time counted twice, unlocks missed. |
| Other bridges (`bridges/`) | filters, presentation | QML | - |
| Subtitles, GeoIP, Discord (`services/`) | caches, request queues | network answers, timers | late answers. |
| Security and platform services | settings, secrets, logs | system calls | - |

How they meet: everything of the session runs on one Qt thread, so handlers are
atomic; concurrency comes from libtorrent's threads (alerts, status updates), from
child processes (engine, batwg, decoder), from timers, and from handlers that run
inside a blocking call. The VPN acts on the session with `setVpnProxy` and
`setVpnAnnouncePort`; the tick consults both. The tick's pauses are what the
resume store saves. The engine split puts a socket between the interface and all
of this.

## 2. Modules

| Module | Models | Lines of |
|---|---|---|
| `SessionTick` | the tick, step by step, with the user and libtorrent between two ticks | `sessionmanager_tick.cpp`, `_network`, `_alerts_finish`, `_pertorrent`, `_lifecycle` |
| `SessionTickProofs` | theorems on `SessionTick` | |
| `TorrentLibrary` | abstract: what the user is promised about added and removed torrents over restarts | |
| `ResumeStore` | the resume files and the answers in flight; implements `TorrentLibrary` | `_persistence`, `sessionresume`, `_lifecycle`, `_alerts` |
| `ResumeStoreProofs`, `MCResumeStoreProofs` | theorems on `ResumeStore`, and what they give for one instance of `MCResumeStore` | |
| `WgTunnel` | the userspace tunnel and its child | `wgtunnel_userspace.cpp` |
| `VpnLink` | VpnManager and VpnWiring on top of `WgTunnel` | `vpnmanager.cpp`, `vpnwiring.cpp`, `_network` |
| `VpnLinkProofs` | theorems on `VpnLink` | |
| `EngineLink` | both ends of the engine's socket | `ipcengine.cpp`, `enginehost.cpp` |
| `EngineLinkProofs` | theorems on `EngineLink` | |
| `RangePlan` | how a file is cut into ranges | `rangeplan.h` |
| `HttpDownload` | a direct download, the list of them, the `.part` file and the sidecar | `httpdownload.cpp`, `httpdownloadmanager.cpp` |
| `HttpDownloadProofs` | theorems on `RangePlan` and on the types, the ranges and the bytes of `HttpDownload` | |
| `BandwidthSchedule` | the limits and who sets them | `sessionmanager_scheduler.cpp`, `bandwidthschedule.h`, `_limits` |
| `StagedAdds` | magnets that wait in the add window | `sessionmanager_staging.cpp`, `AddDownloadDialog.qml` |
| `AddDesk` | the add window's list, ticks, folder and paste field | `AddDownloadDialog.qml`, `qmlsessionbridge_addwindow.cpp`, `_add` |
| `MissingFiles` | the search for data that went away | `sessionmanager_tick.cpp`, `contentprobe.cpp` |
| `TrashRetries` | deletion of a removed torrent's files | `sessionmanager_security.cpp`, `_lifecycle` |
| `FinishMoves` | folders, stop wishes and news at a download's end | `_alerts_finish`, `_alerts`, `_categories` |
| `StreamWindows` | readers of a file that is still downloading | `_streaming`, `streamgate.h`, `streamserver.cpp`, `mediaguard.cpp` |
| `MediaFeed`, `MediaRing`, `MediaControl` | the decoder's bytes, its frames, and its commands | `mediafeed.cpp`, `remotesource.cpp`, `mediahost.cpp`, `isolatedmediaplayer.cpp` |
| `WatchDesk` | the wait for what is to be watched, and the players | `qmlsessionbridge_watch.cpp`, `_playback`, `MainWindowLoaders.qml` |
| `SearchPage` | searches over several sources | `bridges/search`, `addonmanager.cpp`, `gamesourcemanager.cpp` |
| `MetadataResolver` | look-ups of posters and names | `metadataresolver.cpp` |
| `LibraryRows` | the merged list, the views' rows, the selection | `httpmergeengine.cpp`, `qmlpostermodel.cpp`, `qmlsessionbridge_*` |
| `RssFeeds` | feeds, items and seen links | `rssmanager.cpp` |
| `AppStart` | one instance, links handed over, failed starts | `singleinstance.cpp`, `boothealth.cpp`, `qmlboot.cpp` |
| `Updates` | releases, checks, the dialog, download and launch | `updater.cpp`, `qmlupdaterbridge.cpp`, `UpdateDialog.qml` |
| `DebridStream` | a magnet streamed by one of two services | `realdebrid.cpp`, `torbox.cpp`, `debridmanager.cpp` |
| `GameSources` | lists of games, their cache and the page of them | `gamesourcemanager.cpp`, `qmlsearchbridge_games.cpp` |
| `SourceAddons` | add-ons and providers, and a question to all of them | `addonmanager.cpp`, `addonfinish.cpp` |
| `GameInstall` | unpacking and installing a game | `qmlsessionbridge_gameinstall.cpp`, `archiveextractor.cpp` |
| `GamePlay` | time played, unlocks found and told | `services/games`, `qmlsessionbridge_play*` |
| `MCSession`, `MCServices`, `MCLive` | instances of these, one behaviour each | |
| `MCSessionProofs` | theorems on `MCSession`: the limits, the trash, the end of a download, missing files, streaming, feeds, magnets that wait | |
| `MCPlayerProofs` | theorems on `MCSession`: the decoder's bytes, frames and commands, and watching | |

`MC<module>` instantiates each for TLC; `MCResumeStore` and `MCEngineStream` hold two
instances each, of which a behaviour is one. A constant `Ops` names the operations and
faults that a run exercises, so that one module serves several questions; an
operation outside `Ops` is simply never called. A variable whose comment starts
with *history* is not in the program: it remembers what the user last asked, and
only properties read it. Definitions whose comment starts with *Mutant* are
plausible bugs of the definition that follows; nothing uses them except the check
that each property can fail.

### SessionTick
`updateStats` is cut into its parts (`step`: alerts, seeds, disk, interface,
memory, queue) so that libtorrent may act between two of them; the user's
operations and the setters wait for `idle` because they share the thread. Each
torrent has libtorrent's own state and a cached one, and a state update may miss
its tick (`snapshot`). Rates are the choice of which torrents are above 10 KB/s;
a time stamp is recent or old. Init has what the settings bring back from the last run
(force-started and completed hashes, the interface, the kill switch), as the constant
`Saved` says. A memory panic saves and quits: the tick it is in goes on to its end
(`step` is "last") and nothing follows it, so the run `tick_owners` has states without
a successor and does not look for deadlocks.

### ResumeStore
A resume file is abstracted to what a restart can get wrong (metadata or not, why
it is paused, how many pieces), and is named by the hash known when it was written;
a hybrid torrent has two. libtorrent's answers are a queue of alerts, in order; when a
torrent is removed its news are of a dead handle (`dead`), and the answers to its
saves still come. A write may fail ("unwritable"), which the answer's count does not
see, and at a launch a file may have been damaged ("damage"): each file is taken, loaded
paused because its data is gone, recovered from its metadata, set aside or refused by
libtorrent (`Fate`). The passing runs have neither; section 5 says what the two break.
`TorrentLibrary` is the promise: a torrent that is stored stays stored until it is
removed, a removed one is not stored, and a run starts with the stored ones.
`ImplementsLibrary` checks it with the mapping `listed <- Valid, stored <- Stored`.

### VpnLink
`WgTunnel` gives the calls (`Up`, `Down`), the child's behaviour and the signals
posted to the event loop. `VpnLink` adds the manager's handlers of those signals,
the retry timer, the launch, the wiring's resync, the settings, and the engine
process. Only the SOCKS tunnel is modelled, the one that ships. Assumed: a click
does not fall between a posted signal and its delivery nor into the 500 ms after
the launch (`Idle`), and Disconnect is offered only when the state is not
disconnected (`SettingsVpnCard.qml:143-163`, `VpnDropBanner.qml:43-55`).

### EngineLink
The app's blocking calls are an explicit stack: `start()` waiting for its first
snapshot, a call waiting for its answer, a pump that dispatches frames. A handler
of an event runs with the pump on top and may call again (`MaxDepth`). Frames are
whole, except that a crash may cut the last one; what follows a cut frame in
`m_buf` is misread and counts as lost. A request's number is the least one not in
use: the code's 32-bit counter does not come back to a number in use. The engine
orders its list by file name when it loads, which is any fixed order here. A
removal's loop is one run of the event loop (`todo`), so nothing but what a call
lets in comes between.

### HttpDownload
A byte is its position in the server's file, so what is in the `.part` file is right
where it is its own position; holes and bytes of error pages are marked. The disk
has names and files apart, so that an open file may lose its name, and QFile's
buffer is explicit. A handler is a sequence of steps on a *situation* (the
download's record, the names, the files), in the order of the code: `Failing` is
`fail()`, `Completing` is `maybeComplete()`, and so on. The server answers requests
in any order and in chunks of any size, cut short if it likes, and may send an error
page. 

A write waits in the buffer until the next seek, flush or close, and is counted in
`received` at once. Each of these may find the disk full and leave any number of the
last bytes in the buffer (`Flushed`, with `left`): a flush and a failing seek keep them
for the next try, a close drops them (`Closed`, `lost`), and `maybeComplete`, `pause` and
`fail` do not look at the result. A seek that fails makes the download fail although the
chunk that finds no room was the one before, which stays counted (`WriteFails`).

The history variable `spoilt` has the downloads whose `.part` file somebody deleted,
those that a crash left with a sidecar ahead of the file, and those whose file was closed
on a full disk with counted bytes in the buffer: for these the code keeps no promise, and
goes on behind the hole or calls the preallocated file completed (`CompletedIsWhole` and
`ReceivedStays`, section 5). For all others, those that met a full disk and found
room before the file was closed among them, the run `http_download` shows that it keeps
it, with a server that honours ranges and names with one download each; the other kinds
of server, error pages and shared names are in the module, and section 5 says what goes
wrong with them.

### The smaller components
The modules from `BandwidthSchedule` on have one component each. Their
headers say what data they leave out; constants named `...Ops` have what a run
exercises of the odd cases. They share no variable: what one does to another in the
program is an action of the environment in the other (a removal in `StagedAdds`,
`TrashRetries`, `StreamWindows`). So they are checked side by side and not in
product: `MCSession`, `MCServices` and `MCLive` instantiate several, `part` says
which of them a behaviour is of, and `v1`, `v2`, ... are that component's variables.
A property of the sum is the property of the module, of the behaviours that are of
it; what must come about is stated of the thing that lags in them.

* `BandwidthSchedule`: the clock is an hour of a week of `Days` days, so a window
  over midnight and over the week's end is among the few that there are.
* `StagedAdds`: libtorrent drops a torrent some time after `remove_torrent`, and
  until then gives its dying handle to whoever adds the hash again.
* `MissingFiles`: a status is as old as the last `StateUpdate`; the two looks are
  two answers of a thread, each about the places it was given.
* `TrashRetries`: a path is open until libtorrent lets go of it; a job holds its
  targets and its attempt, and the settings hold what is pending.
* `FinishMoves`: a hybrid magnet has one hash before its metadata and another after;
  alerts are handled in order, moves are made in order and may fail. A category goes by
  the status of the last update (`seen`), which "lag" lets be older than the state.
* `StreamWindows`: pieces straddle the ends of the file (`Offset`), two readers share
  one set of deadlines. A file whose pieces are there may not open ("missing"), which is
  waited for as a piece is, or read nothing now and then ("short") or always ("empty"),
  which is tried again without end; `session` has the first two, and with the last a
  reader does not get on (section 5). `live` has none: there the disk gives what it has.
* `MediaFeed`: `buf` is a window of the file, `reader` what the decoder asks for;
  every reply may end early.
* `MediaRing`: both ends of two ordered channels and the shared slots between them.
* `MediaControl`: sources and feeds by generation, a process that may end at any time.
* `SearchPage`: every request is in `asked` with the search it is for, which the code
  does not know; `orderly` remembers that no answer came later than the next search.
* `MetadataResolver`: `happened` remembers the rare events that some statements except.
* `LibraryRows`: the poster model's rows are what the views show until it is refreshed.
* `RssFeeds`: items are kept by row number, as in the code; a link may be in two feeds.
* `AddDesk`: a line is a torrent and the way it is entered, so the same torrent may
  come as a file, a link and a magnet; `slips` remembers what a press of the button lost.
* `WatchDesk`: a poll is a step (`Tick`); the wait's age and the answers of the guard
  decide between two polls; `owed` is what the user was promised.
* `AppStart`: a launch is a process that asks, listens, loads, shows and closes; the
  settings and the log outlive it.
* `Updates`, `DebridStream`, `GameSources`, `SourceAddons`: every request is in the
  state with what it was made for, which the code mostly does not keep.
  `Updates`: what comes may be whole, of the same size and another content, or of
  another size; only the size is compared, and `InstallerFits` says no more.
* `GameInstall`: threads look at the folder and answer later; the disk has archives,
  mark, executable and half-unpacked files apart. An installer that fails may leave an
  executable behind, which the poll takes for the game (`ReadyIsInstalled`, section 5).
* `GamePlay`: a clock of few ticks, process numbers that are used again.

## 3. Runs

The runs show that the properties hold for every behaviour within the bounds. What
comments and texts of the repository say and the code does not keep is in section 5,
each with what makes TLC print the behaviour.

| Run | Module | Checks | Shows |
|---|---|---|---|
| `tick_owners` | MCSessionTick | `PausesHaveAnOwner` | One torrent under every operation that adds, removes, pauses or resumes it, under faults, low disk or memory and a memory panic, which quits, with force-started and completed torrents of the last run, a kill switch that engages and a cap of one: nothing stays on the kill switch's or the queue's list without a way off it. |
| `tick_live` | MCSessionTick | `TypeOK`, `QueuePassIsExact`, `QueueSettles`, `KillSwitchReleases` | Two torrents, a cap that changes, stalls, reordering, an interface that comes and goes and late statuses: a queue pass on accurate statuses leaves no more of the downloads that count running than the cap has room for, and none of those it paused waiting while fewer downloads than the cap run (those that stall or are force-started do not count); under the fairness of the 1 s timer the cap is respected for good once the user stops acting, and what the kill switch paused is released once the interface is back for good. |
| `resume` | MCResumeStore | `FlushIsComplete`, `RemovedStaysRemoved`, `KeptIsStored`, `KeptAsPromised` | Two torrents saved in batches that overlap the shutdown's own, removed, expired and restored from the history, with saves that fail; and one torrent added from a file or a magnet that gets its metadata, paused, saved and removed, with late answers, a flush at exit, crashes and restarts. What is listed is stored or about to be, the flush ends when what it promised is on disk, the file of a removed torrent never comes back, and the store keeps the abstract library's promise. |
| `vpn` | VpnLink | `LinkIsSound`, `HoldCanBeLifted`, `FailsClosed`, `DisconnectSticks`, `NothingHangs` | Two profiles, a tunnel that drops, fails or forwards a port, files that disappear, an engine that is respawned, the app closed and started again, and the user's clicks in every order: traffic never goes around a tunnel that the kill switch holds, a held session has a way out, a Disconnect sticks, and under the backstops of the helper and the timers a try ends and a drop is tried again. |
| `engine_stream` | MCEngineStream | `MapIsKept`, `AnswersItsCall`, `RespawnMixesNothingUp` | One torrent streamed, removed and added again, with answers later than 5 s and calls made from inside event handlers; and two torrents added and streamed while the engine dies, sometimes in the middle of a frame, and is started again, perhaps too late, with the list in another order. The app's piece map never claims a piece that is not there, the engine reports the pieces of whatever the app keeps a map of, no call returns with the answer to another, and nothing of one engine or torrent is taken for another's. |
| `engine_live` | MCEngineStream | `SelectedRowsGo`, `EngineRecovers` | Three torrents, any selection removed, the order changed by hand, crashes between two removals of one loop: the rows that were selected are the ones that go; and under the fairness of the two event loops the app's list becomes the engine's and a dead engine is started and reached again. |
| `http_download` | MCHttpDownload | `WholeUnlessSpoilt`, `CountedIsThere`, `SegmentsTile` | One download in two ranges from a server that honours them, paused, resumed, removed, cut short, refused, stalled, quit and crashed at any byte, with a disk that may be full at every write, seek, flush and close: the ranges tile the file; and unless the .part file was deleted, a crash left the sidecar ahead of it, or it was closed with counted bytes that the full disk did not take, what is called completed is the server's file, and neither the offsets in memory nor those that an exit saves are ahead of what is in the file or waits for it in the buffer. |
| `session` | MCSession | `LimitsAreRight`, `WindowIsHonest`, `SearchIsFair`, `DeletionGoesOn`, `FinishIsOrderly`, `StreamIsSound`, `PlayerIsTrue`, `FeedsAreSound` | The smaller parts of the session and of its player, each on its own: bandwidth schedule, the magnets that wait in the add window, missing files, deletions, moves at a download's end, RSS feeds, stream windows, the decoder's feed, frames and control, the wait for what is to be watched. |
| `services` | MCServices | `SearchIsSound`, `ResolverIsSound`, `LibraryIsSound`, `ApplicationIsSound`, `SourcesAreSound`, `GamesAreSound` | The services around the session, each on its own: search page, metadata, the library's rows, the add window's list, the start of the application and its updates, debrid, game lists, add-ons, games that are installed and played. |
| `live` | MCLive | `SessionGetsOn`, `PlayerGetsOn`, `ServicesGetOn`, `FetchEnds` | What must come about in these parts and in a direct download, under the fairness of their timers, processes and answers. |


### Bounds and why they are enough
Torrents are interchangeable except for their place in the list, so two show every
interaction between two torrents and three are used where an index shift must hit
an innocent third. The download cap is 1: with two torrents that is the first
value that makes the queue choose. `MaxPieces`, `MaxAlerts`, `MaxList`, `MaxFrames`
and `MaxDepth` bound queues that the environment fills; each is at least what one
overtaking needs (two alerts in flight, a frame behind an answer, a call within a
call). `GuardMax` (500 in the code), `ReplyMax` (64) and `MaxRespawns` (5) are the
code's own limits: runs use small values so that the limit is reached, or the real
one when the run is not about it. A download has 3 bytes in 2 ranges (4 connections in
the code): one range is longer than the other, and a chunk may fill a range or stop
in the middle of it; three files for each download (`DiskAssumption`) are enough for a
`.part` file, one that lost its name while open, and the finished one.

The smaller components: two of each thing that can be confused with another of its
kind (hashes, paths, readers, sources, feeds, links, slots), three torrents where a
selection must shift under an innocent one. A file of 6 bytes in pieces of 2 that
begin at byte 1 has a first, a middle and a last piece and one shared at each end. The
feed's window of 8 over 16 bytes is left by the jumps in both directions and reached by
reading ahead. Two attempts of a deletion (10 in the code) have a first and a last one.
The bounds on rows, messages, generations and searches (`MaxRows`, `MaxWire`,
`MaxFlight`, `MaxGens`, `MaxSearches`, `MaxUnderWay`) let one thing overtake another
once; the live instances are smaller where a cycle repeats what one item shows.

### Fairness
`SessionTick`: the 1 s timer fires and a tick that began ends (`WF` of `Advance`);
nothing is assumed of libtorrent or the user. `VpnLink`: the helper comes up or
exits (the 25 s and 40 s backstops of `wgtunnel_userspace.cpp`), a stopped helper
exits (it is killed after 3 s), its exit is reaped, posted signals are delivered,
timers fire. `EngineLink`: the app's event loop and waits go on, the engine
dispatches, and its session ticks again and again while it is alive (`SF`: a crash
interrupts it). `HttpDownload` (as a part of `MCLive`): the sampler, a timer of 1 s that runs as long as the
download, sees that 30 s passed without a byte and acts. `MCLive`: timers fire, posted
events and messages are delivered, network requests end (they have transfer
timeouts), a decoder that lives obeys, the player reads what it was sent, and a piece
that is urgent arrives in the end (`SF`: the user may pause). Searches are made one
after the other, a move is finished before the user makes the next, and the 1 s status
update comes between two searches for missing files, which are 10 s apart. No fairness is assumed of clicks, faults or drops.

## 4. Proofs

Every theorem holds for all values of the constants that meet the assumptions of its
module (`ASSUME`) and of its statement: any set of torrents, profiles or downloads,
any list, any limit, any number of messages on their way, any set of operations and
faults. Each module proves one inductive invariant, made of named parts, with one step
for each action of `Next` and one lemma for each operator that several actions use.
TLC checked the parts of each invariant on small instances first.

| Module | Theorem | Of the run's property |
|---|---|---|
| `SessionTickProofs` | `TypeCorrect`, `OwnersAlways`, `EveryPassIsExact`, `KillSwitchStopsAll` | `TypeOK`, `PausesHaveAnOwner`, `QueuePassIsExact`, `KillSwitchHolds` |
| `ResumeStoreProofs` | `TypeCorrect`, `FlushWaitsForAnswers`, `StoreSound`, `StoredForGood` | (parts of the next ones) |
| | `RemovedForGood`, `FlushComplete`, `LibraryKept` | `RemovedStaysRemoved`, `FlushIsComplete`, `ImplementsLibrary` |
| `MCResumeStoreProofs` | `KeptSound`, `KeptPromise` | `KeptIsStored`, `KeptAsPromised` |
| `VpnLinkProofs` | `LinkSound`, `HeldIsLifted`, `DropFailsClosed`, `DisconnectHolds` | `LinkIsSound`, `HoldCanBeLifted`, `FailsClosed`, `DisconnectSticks` |
| `EngineLinkProofs` | `CallsGetTheirAnswers`, `MapsAreTrue`, `OneMapIsTrue`, `SelectedRowsAreRemoved` | `AnswersItsCall`, `MapIsKept`, `MapIsKept`, `SelectedRowsGo` |
| `HttpDownloadProofs` | `PlanTiles`, `TypeCorrect`, `RangesCover`, `CountedHolds`, `CompletedWhole` | `SegmentsTile`, `CountedIsThere`, `WholeUnlessSpoilt` |
| `MCSessionProofs` | `LimitsRight`, `DeletionRemembered`, `FinishOrderly` | `LimitsAreRight`, `DeletionGoesOn`, `FinishIsOrderly` |
| | `SearchFair`, `StreamSound`, `FeedsSound`, `WindowHonest` | `SearchIsFair`, `StreamIsSound`, `FeedsAreSound`, `WindowIsHonest` |
| `MCPlayerProofs` | `PlayerTrue` | `PlayerIsTrue` |

### SessionTick
`TypeOK` is inductive; the lemmas say that a removal from the list and a move in it
leave a list of torrents. `OwnersAlways`: what is on the kill switch's list is there
because it is active, enabled and bound, and the handles of removed torrents are on no
list. `KillSwitchStopsAll` assumes that no operation in `Ops` adds, resumes or
force-starts, that no interface is saved at start and that there is no cap. The run
`tick_kill_leaks` shows that the assumption on the cap is needed.

`EveryPassIsExact` has no conditions but those of the property: a pass of
`enforceDownloadQueue` that works on accurate statuses leaves at most the cap of
counted downloads running, and leaves a torrent waiting only when at least as many
downloads run as the cap says. A download that has stalled for a minute and one that is
force-started do not count, so more than the cap may run. The code counts as it walks down the list; `Before` counts the indices before one, and the
lemma `FirstOnes` says that the first n of a set of indices are n, or all when there are
fewer. `PassFills` adds the active torrents that are kept and the queued ones that fill
up the rest. What carries the count from indices to torrents is `ListIsExact`: the list
holds every torrent with a valid handle, once. It is invariant because a duplicate is
not added and a move takes a torrent out before it puts it in again (`RemovalIsExact`,
`InsertionIsExact`).

### ResumeStore
`TypeCorrect` and `FlushWaitsForAnswers` (`m_resumeOutstanding` is at most the number
of answers in flight, so the flush never waits for an answer that nobody sends) hold
without conditions. The others hold under conditions that the code needs, because it
does not keep them otherwise; section 5 has the behaviour for each:

* `Plain`: no hybrid torrents, whose file changes its name with the metadata
  (`StoredStaysStored`, `OneFilePerTorrent`), not magnets together with restores
  from the history, whose hash is not known until then (`RemovedStaysRemoved`), and no
  file that something else damages (`StoredStaysStored`, with "damage").
* `Roomy`: `m_removedHashes` has room for all torrents, since it is emptied as a whole
  at its limit (`RemovedStaysRemoved`, with a limit of 1).
* no additions of torrents removed in the same run, whose saves are dropped
  (`ListedIsStored`): for `StoreSound` and `FlushComplete`.
* no pauses, whose saves are not counted (`FlushIsComplete`): for `FlushComplete`.
* a disk that takes every write (`ListedIsStored`, with "unwritable"): for `StoreSound`
  and `FlushComplete`.

The invariant has eight parts: `Idle` (outside a run nothing is listed, in flight or
guarded), `Alive` (news in flight are of listed torrents), `Hashes` (nothing is named
by another hash), `Known` (a listed torrent can be removed by its hash, and without
magnets everything has its metadata), `Guarded` (an alert is of a listed torrent, or
of a removed one whose answers the guard drops), `Kept` (a listed torrent has its file
or an alert that leads to one), `Flushing` (while the flush waits, what it set out to
save is on disk or on its way, and no answer behind it is older) and `Counted`. The
count alone is not inductive: that no answer is outstanding at a launch needs `Idle`,
and that a saved torrent is not dropped needs `Kept`.

`LibraryKept` is the refinement: with `listed <- Valid` and `stored <- Stored`, the
initial states of `ResumeStore` are initial states of `TorrentLibrary`, and each step
is a step of it or changes neither. `MCResumeStoreProofs` instantiates these theorems
for the instance of `MCResumeStore` in which one torrent meets magnets, pauses and
crashes, and gets the two properties that the run checks of it.

### VpnLink
The four theorems have no conditions. The invariant `Inv` relates the manager's state
to the child process (`Manager`), says which signals may be posted (`Posted`), that the
launch comes first (`Launching`), that a Disconnect is remembered until it is carried
out (`Deliberate`), what a hold means (`Holding`), what the session was told (`Told`),
that nothing tries after a Disconnect (`Quiet`) and that a drop leaves a try due
(`RetryIsDue`, part of `LinkIsSound`). `DropFailsClosed` and `DisconnectHolds` are
action properties: with the invariant in the first state, no step of any actor exposes
a session whose tunnel was up, and none starts a try after a Disconnect.

### EngineLink
* `CallsGetTheirAnswers` has no condition: a call returns with the answer to its own
  question, whatever times out, dies, comes back or arrives late, and however calls
  nest. `Matched` says of every request and answer on its way that it means the same as
  the waiting call of its number; a new request is given a number that nothing uses.
* `MapsAreTrue` says that the piece maps claim no piece that is not there and that new
  pieces are reported for them. It assumes that the engine does not die, for the maps
  outlive it (`MapIsRegistered`, section 5), and that each map is of the torrent it is
  named after (`GeometryIsOurs`), because a map is named by the snapshot's hash and
  asked for by index, and the two may differ after a removal (section 5). `OneMapIsTrue`
  needs no such condition where there is one torrent, which is the setting of the run's
  first instance. The invariant `Maps` follows a map from the request on: what is
  awaited has no removal behind it (`AllAwaited`), a piece that is announced is there
  unless a removal is announced after it (`Announced`), and the maps are true unless
  a removal is still on its way to clear them (`AllTrue`).
* `SelectedRowsAreRemoved`: rows selected on an accurate list are the ones that go,
  for a selection of any size. `Rows` says that a removal that is asked for aims at its
  torrent once those before it are done (`InLine`), and so do the removals that the loop
  has still to ask for (`ToCome`); that needs the order from the highest row down.
  Removal by hash is excluded: it looks hashes up in a stale list and removes other
  torrents (run `engine_hashes`).

### HttpDownload
`PlanTiles`: for every size and every number of connections the ranges of
`planSegments` are not empty, lie side by side and cover the file. The code adds
lengths up in a loop; the model has the sum in closed form, and TLC compares the two for
small values (`LoopAssumption` of `MCHttpDownload`). `RangesCover` carries this through
every handler, for servers of all kinds and every fault. The proofs follow the
module: there is a lemma for each step from situation to situation, which says what
the step makes and that it leaves the ranges as they are (`Kin`), one for each handler,
and one, `BecomesKeeps`, from a handler's last situation to the state.

`CountedHolds` and `CompletedWhole` are about bytes and hold under `Orderly`: servers
honour ranges, send no error pages as data, and no two downloads save to one name; each
of the three is needed (section 5). They hold for a disk that may be full at any write,
seek, flush and close, and except what is `spoilt`: the downloads whose `.part` file was
deleted, which a crash left behind the sidecar, or whose file was closed before its
buffer was empty; each exception is needed too. In the proof a handler that closes the
file on a full disk is `lost`, and says nothing of the bytes from then on (`Cut`); one
that keeps the file open leaves what found no room in the buffer, where `Honest` still
counts it. The invariant `Faithful` says who owns which file
(`Owned`), that the sidecar is no further on than the list (`InStep`), that ranges,
requests and buffers fit the server's file (`Counted`), that the bytes counted are in
the file or the buffer (`Honest`), and the same of the sidecar while the program does
not run (`SavedIsThere`). A handler touches the files of its own download only
(`Frame`) and leaves that download `Sound`. `DiskAssumption` says that there is always
room for one more file.

### The components of the session
`MCSession` gives the components their constants; the theorems of `MCSessionProofs` and
`MCPlayerProofs` hold for all values that meet its assumptions, and the run has small
ones. `WeekAssumption`: a week has days and a day has hours. `AttemptsAssumption`,
`ControlAssumption`, `RowsAssumption` and `RingsAssumption`: bounds are numbers, and of the sizes of
pictures there is a largest. `PlacesAssumption`: "gone" is not the name of a place.
`BytesAssumption` and `MediaAssumption`: sizes are positive, and players start and jump
inside the file. `DeskAssumption`: there is a torrent, and files are numbered from 1.
`LinksAssumption` is the one that the code needs: the settings keep the links of all that
the feeds publish (5000 in the code). With more, `saveFeeds` keeps any 5000 of a set
without an order, and a link whose mark went is added again after a restart.

A behaviour is of one component (`PartStays`), so an invariant of the component is one
of the composition: it holds at the start, the component's steps keep it, and a step of
the others changes none of its variables. The invariants are stated in the components,
below their properties:

* `LimitsRight`. The code looks the day up in a mask and compares the hour with the
  window's two, with an end before the start for a window over midnight. `BandwidthArc`
  says that this is the arc of the clock from start to end, on the days that are ticked,
  for days of any number of hours; the limit in force is then the one asked for, whoever
  wrote last.
* `DeletionRemembered`. The property is inductive: what was asked to go and is still
  there stays in the settings, whatever is added, removed and retried.
* `FinishOrderly` (`FinishInv`). The alert of the metadata comes before that of the end
  (`AlertsInOrder`), so a wish to stop is noted by the hash that the end is handled with
  (`StopIsNoted`); before its end is handled, a download is told of by nobody and its
  place is noted, and afterwards the last move under way goes where the user chose
  (`EndIsPrepared`).
* `SearchFair` (`SearchInv`). An action property: it needs what an answer in the making
  has yet to look at and what it missed (`LookIsOnce`), and that a torrent which the search
  paused and the user resumed is still missed by every answer (`PausedIsRemembered`).
* `StreamSound` (`StreamInv`). `RunExact` is the arithmetic: the run of bytes that is
  counted from a piece's start over whole pieces is the run that is there, with a file
  that begins and ends inside pieces, for every size. The window that stands is urgent
  (`WindowKept`), and a connection sends what was judged (`PumpKept`).
* `FeedsSound` (`FeedsInv`). The disk has every mark (`MarksAreSaved`); a feed asked within
  its interval is listed and accounted for (`AskedIsAccountedFor`); rows of items stay next
  to their feeds when one is taken out (`RowRemoved`).
* `WindowHonest` (`WindowInv`). Of each hash: the session holds as staged what an entry
  of the window waits for and nothing of the list (`EntryIsStaged`), metadata is told of
  when it is there and to an entry that waits or is gone (`NewsAreTrue`), and what was
  added, listed and saved is the same (`AddedIsSaved`). A step about one hash leaves the
  others (`OneHash`).
* `PlayerTrue`, of four components. `FeedInv`: the buffer holds the bytes of the place that
  it says, and a reply goes on where the buffer and what waits to be read end; so an
  answer is of the place of its question. `FramesInv`: no frame or release is about
  a segment later than the decoder's own, later segments are on their way to it one after
  the other (`SegmentsInOrder`), and no two messages are about one slot (`SlotsAreHeld`);
  `PicturesAreWhole` alone is not inductive, since a late release could free a slot in
  use. `ControlInv`: what is unread, read by the decoder as it is, comes to what the
  player wants (`LastDecides`, `LastOpens`). `DeskInv`: a watch that is over leaves nothing, a file that
  it found is the one it is for, and what was promised is picked, waits for the list or
  turned out to be something else (`WatchKept`, `PicksKept`); a step is about one torrent
  (`OneTorrent`). The odd cases of `...Ops` that the run leaves out, because the code does
  not keep the property in them (section 5), are left out of the theorem too.

### What stays with TLC
Liveness under fairness (`QueueSettles`, `KillSwitchReleases`, `NothingHangs`,
`EngineRecovers`, `FetchEnds`, and the run `live`): the installed provers have neither
`ENABLED` nor the rules for `WF` and `SF`. `LoopAssumption`: a loop over data needs
induction with an operator as parameter. Only model-checked so far:
`RespawnMixesNothingUp` of `MCEngineStream` and the properties of `MCServices`. Among them
the list of the add window (`AddDesk`) is beyond the provers: what is dropped or pasted
goes into the list line by line, which the module says with a fold over a sequence, and
what a fold comes to needs induction over data too.

## 5. Statements the code does not keep

What comments, texts or tests of the repository say, or a reader of the code would
expect, and the code does not do. Two have a run whose property TLC must find
violated:

* `tick_kill_leaks` (`KillSwitchHolds`, `src/torrent/sessionmanager_tick.cpp:369`): With a download cap, the queue pass of the same tick resumes a torrent that waits for a slot while the kill switch is active. enforceDownloadQueue resumes a queue-paused torrent (and, at tick.cpp:325, a force-started one) without asking whether the kill switch is active: the interface goes down while one torrent runs and another waits; checkInterfaceStatus pauses the running one; the queue pass of a later tick sees a free slot and resumes the waiting one, which runs while killSwitchActive is true. src/translations/en.json:892 says "If the VPN drops, torrents stop instead of carrying on over your normal connection."
* `engine_hashes` (`RemovesWhatWasMeant`, `src/ipc/ipcengine.cpp:220`): Make Room's removal of two torrents by hash deletes a torrent that was not chosen. With the engine in its own process torrentIndexByInfoHash reads the last snapshot pushed by the session's tick, and a removal pushes none: removeTorrentsByHash (bridges/session/qmlsessionbridge_freeup.cpp:157-162) looks the second hash up in a list that still has the first torrent, so the index it sends is one too high and the engine removes the torrent after the one that was chosen, with its files if asked. src/src/bridges/session/qmlsessionbridge.h:144-145 says of removeTorrentByHash, which removeTorrentsByHash repeats for each of its hashes, that it "resolves the hash to its current engine index, then removeTorrent()".

Each of the others is a property of the module that is named: with the module's
specification, the property and the values given for the constants (the rest as in the
`MC` module of the component), TLC prints the behaviour.

* `AutoResumeIsOptional` of MCSessionTick (`src/torrent/sessionmanager_network.cpp:162`; `Torrents = {t1}; Library <- One; Loaded = {"downloading"}; Saved = {"interface", "killSwitch"}; Ops = {"interface"}; MaxCap = 0`): The return of the interface resumes the torrents although autoResumeOnReconnect is off. checkInterfaceStatus calls setOutgoingInterface, which resumes everything on m_killSwitchPaused and empties the list (sessionmanager_network.cpp:37-88); the block that reads m_autoResume after it finds an empty list, so the setting has no effect. src/src/torrent/sessionmanager_network.cpp:162 says "Interface came back: re-apply binding and optionally resume".
* `ManualPauseKept` of MCSessionTick (`src/torrent/sessionmanager_network.cpp:150`; `Torrents = {t1}; Library <- One; Loaded = {"downloading"}; Saved = {"interface", "killSwitch", "autoResume"}; Ops = {"interface", "pause"}; MaxCap = 0`): A torrent that the user pauses while the kill switch is active is resumed when the interface returns. pauseTorrent does not take the torrent off m_killSwitchPaused, so a torrent that was running when the kill switch engaged and that the user pauses before the interface is back is resumed with the others. src/translations/en.json:826 says "Resumes only the torrents the kill switch paused — not the ones you paused manually."
* `ForceStartExempt` of MCSessionTick (`src/torrent/sessionmanager_tick.cpp:321`; `Torrents = {t1, t2}; Library <- Two; Loaded = {"metadata"}; Saved = {}; Ops = {"force"}; MaxCap = 1`): A force-started magnet without metadata is paused by the queue. enforceDownloadQueue looks a torrent's hash up in m_forceStartHashes only when the status has metadata, while setForceStart stores the hash a magnet has from its URI: until the metadata is there the magnet counts against the cap and is paused. src/src/torrent/sessionmanager_tick.cpp:318-319 says force-started torrents "neither count against the cap nor get auto-paused".
* `CompletedIsFrozen` of MCSessionTick (`src/torrent/sessionmanager_lifecycle.cpp:419`; `FairSpec`, `Torrents = {t1}; Library <- One; Loaded = {"seeding"}; Saved = {}; Ops = {"seedLimits", "resume"}; MaxCap = 0`): Resume All sets a completed torrent seeding again for good and leaves it marked completed. resumeAll resumes every torrent without unmarkCompleted; markCompleted ignores a torrent that is marked already, so neither the ratio nor the time limit stops it again: it seeds on, marked completed. src/src/torrent/sessionmanager_lifecycle.cpp:402-403 says of the single resume that "Resume on a completed torrent un-marks it" because the "frozen" flag has to clear.
* `ListedIsStored` of ResumeStore (`src/torrent/sessionmanager_persistence.cpp:185`; `Torrents = {t1}; Hybrid = {}; Ops = {"add", "remove", "readd"}; GuardMax = 500; MaxPieces = 0; MaxAlerts = 2; MaxList = 2`): A torrent that is removed and added again in one run is never stored again. addTorrent and addTorrentInfo do not take the hash out of m_removedHashes (only restoreFromResumeData does, sessionmanager_persistence.cpp:41-76), so persistResumeAlert drops every save of a torrent that was removed earlier in the run and then added again: after a restart it is gone from the list. src/src/torrent/sessionmanager.h:502-503 says of the save on add "so a freshly-added, never-downloaded torrent survives a restart".
* `RemovedStaysRemoved` of ResumeStore (`src/torrent/sessionmanager_lifecycle.cpp:284`; `Torrents = {t1, t2}; Hybrid = {}; Ops = {"magnet", "remove", "restore", "crash"}; GuardMax = 500; MaxPieces = 0; MaxAlerts = 2; MaxList = 2`): A magnet restored from the history without its metadata is not known by hash, and its removal leaves the file. restoreFromResumeData does not fill m_magnetHashes, so removing the restored magnet before its metadata arrives finds no hash: the answer to its save is not in m_removedHashes and writes the .resume file of a torrent that the user removed. src/src/torrent/sessionmanager.h:615-617 says the set is there to drop the alerts "which would otherwise re-create the .resume file we just deleted".
* `RemovedStaysRemoved` of ResumeStore (`src/torrent/sessionmanager_lifecycle.cpp:320`; `Torrents = {t1, t2}; Hybrid = {}; Ops = {"add", "remove"}; GuardMax = 1; MaxPieces = 0; MaxAlerts = 2; MaxList = 2`): The removal that overflows m_removedHashes empties it, and saves in flight write the files of removed torrents. removeTorrent clears the whole of m_removedHashes, the hash it has just inserted included, when it exceeds 500 entries; a save in flight of any of them then re-creates the file. The run uses a limit of 1. src/src/torrent/sessionmanager.h:615-617 says the set is there to "drop in-flight save_resume_data_alerts that arrive after removeTorrent, which would otherwise re-create the .resume file we just deleted".
* `StoredStaysStored` of ResumeStore (`src/torrent/sessionmanager_alerts.cpp:292`; `Torrents = {t1}; Hybrid = {t1}; Ops = {"magnet"}; GuardMax = 500; MaxPieces = 0; MaxAlerts = 2; MaxList = 2`): When a hybrid magnet gets its metadata its only file is deleted before the new one is written. handleMetadata removes the .resume file under the hash of the magnet link at once and only asks libtorrent for the file under the new hash: a crash before the answer loses the torrent. src/src/torrent/sessionmanager.h:506-507 says "without this a crash mid-fetch silently drops the torrent from the list".
* `OneFilePerTorrent` of ResumeStore (`src/torrent/sessionmanager_alerts.cpp:285`; `Torrents = {t1}; Hybrid = {t1}; Ops = {"magnet", "save"}; GuardMax = 500; MaxPieces = 0; MaxAlerts = 2; MaxList = 2`): A save of a hybrid magnet that was asked for before its metadata and answered after it leaves two files. AddMagnet of a hybrid link while the torrent is already there with its metadata is not recognised as a duplicate (the hashes differ) and writes a second .resume file under the link's hash, which nothing removes as no further metadata alert comes. src/src/torrent/sessionmanager_alerts.cpp:285-286 says "drop the stale file so the next launch doesn't double-load the torrent".
* `NoTwoTiles` of ResumeStore (`src/torrent/sessionmanager_persistence.cpp:443`; `Torrents = {t1}; Hybrid = {}; Ops = {"add", "remove", "restore", "readd"}; GuardMax = 500; MaxPieces = 0; MaxAlerts = 2; MaxList = 2`): A torrent that was removed, added again and then restored from the history is listed twice. restoreRemoved does not call isDuplicate: restoring from the history a torrent that was added again meanwhile appends the same handle to m_torrents. src/src/torrent/sessionmanager_lifecycle.cpp:183 says of the check in addMagnet that it prevents "two tiles reading one handle".
* `RemovedIsRestorable` of ResumeStore (`src/torrent/sessionmanager_lifecycle.cpp:294`; `Torrents = {t1}; Hybrid = {}; Ops = {"add", "remove"}; GuardMax = 500; MaxPieces = 0; MaxAlerts = 2; MaxList = 2`): A torrent removed before its first save is written cannot be restored. removeTorrent copies the .resume file into the history, and before the first save is answered there is none: nothing is kept. src/src/torrent/sessionmanager.h:283-285 says the history holds "the last N removed torrents' resume snapshots, so the user can re-add even after closing the undo toast".
* `FlushIsComplete` of ResumeStore (`src/torrent/sessionmanager_lifecycle.cpp:390`; `Torrents = {t1, t2}; Hybrid = {}; Ops = {"add", "pause", "quit"}; GuardMax = 500; MaxPieces = 1; MaxAlerts = 2; MaxList = 2`): Saves that pauseTorrent asks for are not counted, and their answers end the flush early. pauseTorrent, resumeTorrent, pauseAll and resumeAll ask for saves without adding to m_resumeOutstanding, but every answer subtracts one: their answers use up the shutdown's reservation and flushResumeDataBlocking returns before its own saves are written. src/src/torrent/sessionmanager_persistence.cpp:139-141 says the counter must not "let flushResumeDataBlocking exit before our writes actually land".
* `DiskPauseIsNotSaved` of ResumeStore (`src/torrent/sessionmanager_tick.cpp:191`; `Torrents = {t1}; Hybrid = {}; Ops = {"add", "disk", "save"}; GuardMax = 500; MaxPieces = 0; MaxAlerts = 2; MaxList = 2`): The runtime-only pause for want of disk space is saved by the next periodic save. updateStats pauses with h.pause() and relies on not saving; the next saveResumeData writes the paused flag all the same, and after a restart m_diskAutoPaused is false, so nothing resumes the torrent. src/src/torrent/sessionmanager_tick.cpp:191 says "runtime-only pause (not persisted): recovers on disk free".
* `ListedIsStored` of ResumeStore (`src/torrent/sessionmanager_persistence.cpp:90`; `Torrents = {t1}; Hybrid = {}; Ops = {"unwritable", "magnet"}; GuardMax = 500; MaxPieces = 0; MaxAlerts = 2; MaxList = 2`): A magnet whose file cannot be written is listed, and gone after a restart. persistMagnetParams returns when its file does not open and ignores the result of commit(); the periodic save skips a torrent without metadata, so nothing tries again. src/src/torrent/sessionmanager.h:506-507 says of it "without this a crash mid-fetch silently drops the torrent from the list".
* `StoredStaysStored` of ResumeStore (`src/torrent/sessionmanager_persistence.cpp:230`; `Torrents = {t1}; Hybrid = {}; Ops = {"add", "damage", "crash"}; GuardMax = 500; MaxPieces = 1; MaxAlerts = 2; MaxList = 2`): A resume file that cannot be parsed and has no metadata in it is set aside, and its torrent is dropped. loadResumeData renames a damaged file of which not even the metadata can be read, so the torrent is no longer in the list. Nothing else can be made of such a file; src/src/torrent/sessionmanager_persistence.cpp:223-224 says of the others "Better to lose the user's queue position than to silently drop their torrent".
* `NothingAroundTheTunnel` of VpnLink (`src/torrent/sessionmanager.cpp:340`; `Profiles = {p1}; Ops = {"engine"}`): An engine that is respawned while the VPN is connected, with the kill switch off, starts its session with no proxy. SessionManager's constructor points the session at the held proxy only when both vpnHold and the kill switch are set, and loads its torrents; the tunnel's proxy is set by VpnWiring::resync only after the UI has reached the new engine (src/src/app/appservices.cpp:147-151). In between, with the kill switch off, the session goes out directly while the page says connected. src/src/app/vpnwiring.cpp:16-17 says "Up: the session sends everything through it".
* `DisconnectSurvivesQuit` of VpnLink (`src/app/vpnwiring.cpp:74`; `Profiles = {p1}; Ops = {"relaunch"}`): Disconnect followed at once by quitting the app: the next launch connects again. vpnHold is cleared only when the tunnel reports disconnected; ~UserspaceWgTunnel (src/src/services/vpn/wgtunnel_userspace.cpp:22-29) ends batwg without the signal, so a quit between the click and the answer leaves vpnHold set and the next launch holds the session and reconnects. src/src/app/vpnwiring.cpp:17-18 says "Down on purpose: the session goes back to the way it was".
* `GeometryIsOurs` of MCEngineLink (`src/ipc/ipcengine.cpp:403`; `Torrents = {t1, t2}; Library <- Two; Pieces = {1}; Ops = {"stream", "rows"}; ReplyMax = 64; MaxRespawns = 1; MaxDepth = 1; MaxFrames = 2`): After a removal, the piece map of one torrent is kept under the hash of another. streamGeo names the map after the hash that its snapshot has at the index, and the engine answers for the torrent it has at that index: between a removal and the next snapshot they differ, and the map of one torrent stays under the other's hash until the next removal. src/src/webui/streamserver.cpp:152-153 says the index "can shift if torrents are removed/reordered mid-stream; the hash is the stable identity".
* `MapIsCurrent` of MCEngineLink (`src/ipc/ipcengine.cpp:203`; `Torrents = {t1}; Library <- One; Pieces = {1}; Ops = {"stream"}; ReplyMax = 64; MaxRespawns = 1; MaxDepth = 1; MaxFrames = 2`): A piece that finishes right after the map was made is lost when both messages are read in one go. request() drains every frame that has arrived before it looks for its answer: a pieceFinished behind the answer is dispatched while streamGeo has not stored the map yet, finds no map, and the bit is never set; the stream waits for a piece that is there. src/src/ipc/ipcengine.h:142-143 says the map is "answered locally once fetched" and "kept current by pieceFinished".
* `MapIsRegistered` of MCEngineLink (`src/ipc/ipcengine.cpp:105`; `Torrents = {t1}; Library <- One; Pieces = {1}; Ops = {"stream", "die"}; ReplyMax = 64; MaxRespawns = 1; MaxDepth = 1; MaxFrames = 2`): After the engine was started again, nothing keeps the piece maps current. onProcFinished and start keep m_streamGeo, and the new engine's m_streamed is empty: streamGeometry, which registers a torrent, is not called again for a file whose map is kept, so no pieceFinished comes for it. src/src/ipc/ipcengine.h:142-143 says the map is "answered locally once fetched" and "kept current by pieceFinished".
* `SnapshotConverges` of MCEngineLink (`src/ipc/ipcengine.cpp:87`; `FairSpec`, `Torrents = {t1}; Library <- One; Pieces = {1}; Ops = {"add", "die", "tear"}; ReplyMax = 64; MaxRespawns = 1; MaxDepth = 1; MaxFrames = 2`): An engine that dies in the middle of a frame leaves the app deaf to its successor. Neither onProcFinished nor start clears m_buf (EngineHost::onNewConnection clears its own): the rest of a cut frame stays in front of what the new engine sends, every frame is read at the wrong offset and no snapshot arrives. src/translations/en.json:849 says "an engine crash can't close the window — it restarts automatically".
* `EngineComesBack` of MCEngineLink (`src/ipc/ipcengine.cpp:105`; `FairSpec`, `Torrents = {t1}; Library <- One; Pieces = {1}; Ops = {"die", "late"}; ReplyMax = 64; MaxRespawns = 1; MaxDepth = 1; MaxFrames = 2`): An engine that needs more than 5 s to listen after a crash is never connected to. start() gives up after 5 s with false, and the timer that called it ignores that: the engine loads the torrents before it listens, its process goes on, and the app stays without an engine until it is restarted. src/translations/en.json:2135 says "The torrent engine stopped and is starting again".
* `AnswerIsKept` of MCEngineLink (`src/ipc/ipcengine.cpp:190`; `Torrents = {t1}; Library <- One; Pieces = {1}; Ops = {"query", "slow"}; ReplyMax = 1; MaxRespawns = 1; MaxDepth = 2; MaxFrames = 2`): The pruning of orphaned answers throws away the answer to a call that still waits. request() clears the whole of m_replies once more than 64 are there; when it is called by the handler of an event that was read behind an outer call's answer, that answer goes too and the outer call waits its 5 s and returns nothing. src/src/ipc/ipcengine.cpp:188-189 says it is to "Prune orphaned replies (a reply that landed after its request timed out)".
* `CompletedIsWhole` of MCHttpDownload (`src/services/downloads/httpdownload.cpp:223`; `Downloads = {d1}; FileName <- OwnNames; Conns = 1; Servers = {"ranges"}; Sizes = {2}; MaxChunk = 2; Inodes = {1, 2, 3}; Ops = {"pause", "errorpage"}`): An error page is written into the file and counted, and the download completes with it after a resume. onSegmentReadyRead writes and counts whatever arrives; that the answer is an error is looked at only in onSegmentFinished. The download fails then, but the page's bytes stay counted in `received`, the resume asks for the rest, and the sum is the file's size. src/src/services/downloads/httpdownload.cpp:266-267 says "a truncated download or an HTML error page (200) must not be renamed to the real name and handed to the user as the file".
* `CompletedIsWhole` of MCHttpDownload (`src/services/downloads/httpdownload.cpp:204`; `Downloads = {d1}; FileName <- OwnNames; Conns = 2; Servers = {"whole"}; Sizes = {2}; MaxChunk = 2; Inodes = {1, 2, 3}; Ops = {"pause"}`): A server without ranges sends its file from the start after a resume, and the bytes are written behind the old ones. Without a Range header the answer starts at byte 0, while onSegmentReadyRead goes on at start + received: a pause after some bytes, a resume, and an answer that is cut off at the right length give a file with its beginning twice and the right size. src/src/services/downloads/httpdownload.cpp:266-267 says "a truncated download or an HTML error page (200) must not be renamed to the real name and handed to the user as the file".
* `CompletedIsWhole` of MCHttpDownload (`src/services/downloads/httpdownload.cpp:195`; `Downloads = {d1}; FileName <- OwnNames; Conns = 2; Servers = {"unsized"}; Sizes = {2}; MaxChunk = 2; Inodes = {1, 2, 3}; Ops = {}`): A download of unknown size completes at once, with an empty file. The one range of a download of unknown size is 0..-1, whose size is 0, so it is done before it has begun: spawnSegment sends nothing and maybeComplete renames the empty .part file. src/src/services/downloads/httpdownload.cpp:250 says "Unknown-size single stream: the total is whatever arrived."
* `CompletedIsWhole` of MCHttpDownload (`src/services/downloads/httpdownloadmanager.cpp:114`; `Downloads = {d1}; FileName <- OwnNames; Conns = 2; Servers = {"ranges"}; Sizes = {2}; MaxChunk = 2; Inodes = {1, 2, 3}; Ops = {"pause", "crash"}`): After a crash the resume goes on from offsets whose bytes were still in a buffer. save() writes the offsets of a running download without flushing its file: a crash right after it loses the bytes in QFile's buffer, the resume starts behind them, and as the file was preallocated its size is right. src/src/services/downloads/httpdownload.cpp:266-267 says "a truncated download or an HTML error page (200) must not be renamed to the real name and handed to the user as the file".
* `CompletedIsWhole` of MCHttpDownload (`src/services/downloads/httpdownload.cpp:262`; `Downloads = {d1}; FileName <- OwnNames; Conns = 2; Servers = {"ranges"}; Sizes = {3}; MaxChunk = 2; Inodes = {1, 2, 3}; Ops = {"diskfull"}`): A download that ends on a full disk is called completed with its last bytes missing. A small chunk waits in QFile's buffer and is counted; maybeComplete looks at the results of flush() and close() no more than the counts do, and as the file was preallocated its size is right too. src/src/services/downloads/httpdownload.cpp:266-267 says "a truncated download or an HTML error page (200) must not be renamed to the real name and handed to the user as the file".
* `ReceivedStays` of MCHttpDownload (`src/services/downloads/httpdownload.cpp:226`; `Downloads = {d1}; FileName <- OwnNames; Conns = 2; Servers = {"ranges"}; Sizes = {3}; MaxChunk = 2; Inodes = {1, 2, 3}; Ops = {"diskfull"}`): A download that fails on a full disk goes on behind bytes that were never written. The seek of the next chunk is what fails, when the chunk before it was counted; fail() closes the file (httpdownload.cpp:84) and drops the buffer, the counts stay, and a resume asks for what comes after them. src/src/services/downloads/httpdownload.h:10-11 says "resumable across restarts via the per-segment received offsets".
* `CompletedIsWhole` of MCHttpDownload (`src/services/downloads/httpdownload.cpp:58`; `Downloads = {d1, d2}; FileName <- OneName; Conns = 1; Servers = {"ranges"}; Sizes = {1}; MaxChunk = 2; Inodes = {1, 2, 3, 4, 5, 6}; Ops = {}`): Two downloads of one name write into one .part file. partPath is made of the file's name alone: two downloads with the same name in one directory write into one file, and the one that completes last has removed the other's. src/src/services/downloads/httpdownload.h:35 says the id is "a stable key (used for the .part name and the sidecar file)".
* `CompletedIsWhole` of MCHttpDownload (`src/services/downloads/httpdownload.cpp:187`; `Downloads = {d1}; FileName <- OwnNames; Conns = 2; Servers = {"ranges"}; Sizes = {2}; MaxChunk = 2; Inodes = {1, 2, 3}; Ops = {"pause", "quit", "unlink"}`): A .part file that was deleted while its download was paused is made again with holes, and renamed. beginSegments opens the .part file whether it is there or not, resizes it, and goes on from the saved offsets; nothing compares what was received with what is on the disk. src/src/services/downloads/httpdownload.cpp:266-267 says "a truncated download or an HTML error page (200) must not be renamed to the real name and handed to the user as the file".
* `FailedCanGoOn` of MCHttpDownload (`src/services/downloads/httpdownload.cpp:269`; `Downloads = {d1}; FileName <- OwnNames; Conns = 2; Servers = {"whole"}; Sizes = {2}; MaxChunk = 2; Inodes = {1, 2, 3}; Ops = {"pause"}`): A download without ranges that got too many bytes fails again at every resume. When all ranges are done and the sum is wrong, fail() leaves the counts as they are: resume finds all of them done, asks for nothing and fails again. src/src/services/downloads/httpdownload.h:10-11 says "Pause/resume/cancel; resumable across restarts via the per-segment received offsets".
* `ProbeEnds` of MCHttpDownload (`src/services/downloads/httpdownload.cpp:136`; `FairSpec`, `Downloads = {d1}; FileName <- OwnNames; Conns = 2; Servers = {"ranges"}; Sizes = {2}; MaxChunk = 2; Inodes = {1, 2, 3}; Ops = {"pause"}`): A server that accepts the probe and never answers keeps the download in its probe for ever. The sampler that detects stalls is started by beginSegments and looks at state Downloading only, and prepare() turns Qt's own timeout off. src/src/services/downloads/httpdownload.cpp:27-28 says "we do our own stall detection instead".
* `ButtonIsTrue` of BandwidthSchedule (`src/torrent/sessionmanager_scheduler.cpp:141`; `Days = 2; Hours = 2; Limits = {0, 1}; AltLimits = {0, 2}`): The toolbar's button is told of its own clicks only. checkBandwidthSchedule switches the alternative speeds without a signal, so the button shows the last click; src/src/qml/views/Toolbar.qml:260 binds it to altSpeedsActive.
* `ButtonStays` of BandwidthSchedule (`src/torrent/sessionmanager_scheduler.cpp:141`; `Days = 2; Hours = 2; Limits = {0, 1}; AltLimits = {0, 2}`): With the schedule on, a click on the button lasts for one tick. The next tick puts the schedule's state back. src/src/torrent/sessionmanager.h:401-402 says of the button "flip alt speed limits on/off independent of the scheduler".
* `AltEnds` of BandwidthSchedule (`src/torrent/sessionmanager_scheduler.cpp:121`; `Days = 2; Hours = 2; Limits = {0, 1}; AltLimits = {0, 2}`): Alternative limits that are set to none while the schedule has them on stay in force. checkBandwidthSchedule returns at once when both alternative limits are 0, also when they are on and the window is over.
* `ListedOnce` of StagedAdds (`src/torrent/sessionmanager_staging.cpp:123`; `Hashes = {a}; MaxRows = 2; WindowOps = {"overlap"}`): A magnet that waits in the window and comes in by another way is listed twice. commitStaged does not ask isDuplicate. src/src/torrent/sessionmanager_lifecycle.cpp:180-187 says why two tiles on one handle must not be.
* `AddedAsChosen` of StagedAdds (`src/torrent/sessionmanager_staging.cpp:115`; `Hashes = {a}; MaxRows = 2; WindowOps = {"respawn"}`): A magnet that waits while the engine is started again is lost by the Add button. commitStaged returns for a hash that is not staged; its comment says "never staged (or already gone): a plain add".
* `AddedAsChosen` of StagedAdds (`src/torrent/sessionmanager_staging.cpp:73`; `Hashes = {a}; MaxRows = 2; WindowOps = {"hasty"}`): A magnet that is added right after it was removed gets the handle of the torrent that is going. add_torrent gives back the old handle, which is_valid until libtorrent has dropped it.
* `StartsAgain` of StagedAdds (`src/torrent/sessionmanager_persistence.cpp:86`; `Hashes = {a}; MaxRows = 2; WindowOps = {}`): A magnet without metadata comes back paused after a restart. The file is written from the parsed link, whose default flags are paused and auto-managed; the comment at src/src/torrent/sessionmanager_persistence.cpp:81-83 takes downloading on for what happens.
* `SettingIsNotFought` of MissingFiles (`src/torrent/sessionmanager_limits.cpp:278`; `Torrents = {a}; Places = {p, q}; ProbeOps = {}`): A resumed torrent is paused again once the setting was switched off and on. setPauseOnMissingData empties m_missingPaused. Its comment says "Turning it back on must not immediately re-pause what the user resumed while it was off: only a fresh disappearance should act" (src/src/torrent/sessionmanager_limits.cpp:276-277).
* `PausesOnlyTheGone` of MissingFiles (`src/torrent/sessionmanager_tick.cpp:126`; `Torrents = {a}; Places = {p, q}; ProbeOps = {"readd"}`): A torrent that is removed and added again elsewhere while the search runs is paused for the old place. The answer is matched by hash only.
* `PausesOnlyTheGone` of MissingFiles (`src/torrent/sessionmanager_tick.cpp:97`; `Torrents = {a}; Places = {p, q}; ProbeOps = {"slow"}`): A torrent whose data came back while the second look was under way is paused. The answer of the second look is acted on whenever it comes; the data may be back by then.
* `EndsWhereChosen` of FinishMoves (`src/torrent/sessionmanager_categories.cpp:52`; `FinishOps = {"toggle"}`): A torrent in the temporary folder that gets a category after that folder was switched off is moved there, and at its end moved away again. setTorrentCategory goes by the setting of now and leaves the folder that m_torrentIntendedPath remembers, which wins at the end.
* `EndsWhereChosen` of FinishMoves (`src/torrent/sessionmanager.cpp:258`; `FinishOps = {"restart"}`): A torrent in the temporary folder stays there when the program was closed before its end. m_torrentIntendedPath is not saved. src/src/torrent/sessionmanager_persistence.cpp:81-83 takes "downloading straight to the destination" for the fallback, which only a magnet's first file gives.
* `EndsWhereChosen` of FinishMoves (`src/torrent/sessionmanager_info.cpp:193`; `FinishOps = {"move"}`): A torrent that the user moves while it downloads to the temporary folder is moved away at its end. moveStorage leaves m_torrentIntendedPath alone.
* `EndsWhereChosen` of FinishMoves (`src/torrent/sessionmanager_categories.cpp:47`; `FinishOps = {"lag"}`): A torrent that ends in the second before its category is set goes by the status of before. setTorrentCategory goes by the cached status, which may still say downloading: the folder is noted, or a move is begun, for a torrent that has ended; what was noted is never used.
* `ToldOnce` of FinishMoves (`src/torrent/sessionmanager_alerts_finish.cpp:70`; `FinishOps = {"readd"}`): A torrent that was complete at launch, is removed, added again and downloaded again is not told of. m_completedAtStartup keeps the hash of a torrent that was complete at launch after its removal.
* `ToldOnceInAll` of FinishMoves (`src/torrent/sessionmanager_alerts.cpp:144`; `FinishOps = {}`): A download whose files cannot be moved is told of twice. The check after a failed move ends in a second torrent_finished_alert.
* `CutAfterWaiting` of StreamWindows (`src/webui/streamserver.cpp:213`; `PieceSize = 2; Offset = 1; Size = 6; Chunk = 2; Window = 2; Tail = 1; Head = 2; Readers = {r1, r2}; Starts = {0, 3, 5}; StreamOps = {"paused"}`): A reader whose player paused for more than 90 s is cut off at the first missing piece. m_noProgress is not restarted by bytes that the player did not take.
* `ReaderGetsOn` of StreamWindows (`src/webui/streamserver.cpp:183`; `PieceSize = 2; Offset = 1; Size = 6; Chunk = 2; Window = 2; Tail = 1; Head = 2; Readers = {r1, r2}; Starts = {0, 3, 5}; StreamOps = {"empty"}`): A file that opens and reads nothing keeps its reader waiting for ever. pump closes the file and starts the retry timer without waitOrGiveUp, so the 90 s that end every other wait are never looked at; the comment says "file lagged / renamed under us: reopen next tick".
* `QuarantinedStaysUnwanted` of StreamWindows (`src/torrent/sessionmanager_streaming.cpp:49`; `PieceSize = 2; Offset = 1; Size = 6; Chunk = 2; Window = 2; Tail = 1; Head = 2; Readers = {r1, r2}; Starts = {0, 3, 5}; StreamOps = {}`): Opening another file of the torrent, or a window over it, gives a file that was put away its priority back. prioritizeFilePieceBoundaries sets the priorities of pieces that two files share.
* `QuestionsAreAnswered` of MediaFeed (`src/ipc/mediafeed.cpp:89`; `Size = 16; Window = 8; KeepBehind = 1; NearAhead = 2; ReadAhead = 1; Jumps = {0, 6, 9, 11}; Ends = 1; FeedOps = {"ahead"}`): A question right behind the buffer waits for bytes that a full buffer keeps out. servePending frees room only behind the answered place; the comment says it "also frees room for what's coming" (src/src/ipc/mediafeed.cpp:89).
* `PositionIsItsOwn` of MediaControl (`src/bridges/isolatedmediaplayer.cpp:114`; `Sources = {x, y}; MaxWire = 3; MaxGens = 3; ControlOps = {"hurry"}`): A source that is set while another one opens starts at the other's place. m_pendingSeek is not dropped by setSource.
* `AllAreWaitedFor` of SearchPage (`src/bridges/search/qmlsearchbridge.cpp:120`; `Providers = {p1, p2}; MaxSearches = 2; MaxNames = 1; SearchOps = {"fails"}`): A source that fails twice, or for an older search, ends the search of the others. torrentSearchError counts as an answer of the current search; the comment says "one provider failing ≠ whole search".
* `RowsAreOfTheSearch` of SearchPage (`src/bridges/search/qmlsearchbridge.cpp:109`; `Providers = {p1, p2}; MaxSearches = 2; MaxNames = 1; SearchOps = {"hasty"}`): Answers to an older search are listed under the new one. The answers carry no mark of their search.
* `GridIsOwn` of SearchPage (`src/bridges/search/qmlsearchbridge_work.cpp:200`; `Providers = {p1, p2}; MaxSearches = 2; MaxNames = 1; SearchOps = {"hasty"}`): A titles grid shows works of the query before. titlesReady does not name its query.
* `GetIsNotAnothers` of SearchPage (`src/bridges/search/qmlsearchbridge_getwatch.cpp:76`; `Providers = {p1, p2}; MaxSearches = 2; MaxNames = 1; SearchOps = {"hasty"}`): Get and watch adds a release of another title. It resolves from whatever rows are there when the pending count reaches 0.
* `GetSeesEverySource` of SearchPage (`src/bridges/search/qmlsearchbridge_getwatch.cpp:51`; `Providers = {p1, p2}; MaxSearches = 2; MaxNames = 1; SearchOps = {"cached"}`): Get and watch decides before its sources have answered. An answer from the cache comes inside the call and brings the count to 0 before the next source is counted.
* `OneQueryAtATime` of MetadataResolver (`src/services/metadata/metadataresolver.cpp:630`; `Films = {f}; Games = {g}; MaxWords = 1; MaxUnderWay = 2`): Games that waited for the token are all asked for at once. ensureIgdbToken runs every pending look-up when the token comes, which the limiter and m_requestInFlight are there to prevent.
* `RelinkPersists` of MetadataResolver (`src/services/metadata/metadataresolver.cpp:247`; `Films = {f}; Games = {g}; MaxWords = 1; MaxUnderWay = 2`): The automatic answer that was under way overwrites the user's re-link. resolveManual does not stop the look-up under way. Its comment says "so it persists and auto-resolve never clobbers it" (src/src/services/metadata/metadataresolver.cpp:240-241).
* `EveryRelinkEnds` of MetadataResolver (`src/services/metadata/metadataresolver.cpp:619`; `Films = {f}; Games = {g}; MaxWords = 1; MaxUnderWay = 2`): A failed request for the token leaves the look-up that waits for it, and the queue behind it, waiting for ever. ensureIgdbToken returns on an error with m_igdbPending and m_requestInFlight as they are. src/src/services/metadata/metadataresolver.cpp:156-157 says of finishLookup "which every lookup ends on".
* `AlwaysShowsWhatIsListed` of LibraryRows (`src/bridges/qmlpostermodel.cpp:415`; `Torrents = {t1, t2}; Files = {d1}; MaxRows = 3`): A torrent that is added while direct downloads are listed shows a download's tile in its place. torrents are in front of the downloads in the merged list, so an insert at the end shifts what the views show until the next full refresh; the comment says "appends always land at the end, so an incremental insert is correct".
* `SelectionIsByItem` of LibraryRows (`src/bridges/session/qmlsessionbridge_selection.cpp:213`; `Torrents = {t1, t2}; Files = {d1}; MaxRows = 3`): Rows that are picked and then shifted by an added torrent are not those picked. The selection is kept by row; src/src/qml/views/LibraryController.qml:103-106 says "The session's selection is by torrent, so while every row is still there it is right".
* `NothingElseIsDeleted` of TrashRetries (`src/torrent/sessionmanager_security.cpp:228`; `Owners = {a}; FilesOf = [t \in {a} |-> {file1, file2}]; MaxAttempts = 2; Early = TRUE`): A file that another torrent has taken over is deleted by a retry of the deletion of the torrent that had it. doDeleteTorrentFiles goes by paths and does not ask who has them now, so a torrent that is added again before the retry loses its files. src/src/torrent/sessionmanager_security.cpp:230-231 says of its last try "give up and leave the files on disk (never force-delete)".
* `MarkedReachesTheEngine` of RssFeeds (`src/services/integrations/rssmanager.cpp:301`; `Urls = {u1, u2}; Links = {magnet, link}; Magnets = {magnet}; Wanted = {magnet, link}; Publishes = {<<u1, magnet>>, <<u2, magnet>>, <<u2, link>>}; KeepLinks = 2`): A link whose torrent could not be fetched or added stays marked as downloaded. The link enters the seen-set when the fetch is asked for, and a failure does not take it out.
* `TimerKeepsIntervals` of RssFeeds (`src/services/integrations/rssmanager.cpp:176`; `Urls = {u1, u2}; Links = {magnet, link}; Magnets = {magnet}; Wanted = {magnet, link}; Publishes = {<<u1, magnet>>, <<u2, magnet>>, <<u2, link>>}; KeepLinks = 2`): A feed whose check failed is asked again by the timer before its interval. A failed answer returns before lastChecked is set. src/src/services/integrations/rssmanager.cpp:139-140 says "honor each feed's own checkIntervalMin here".
* `OneSession` of AppStart (`src/app/singleinstance.cpp:42`; `StartOps = {"race"}`): Two launches that ask before either listens both become the session. claim removes the server's name and listens without asking again.
* `NobodyIsTurnedAway` of AppStart (`src/app/singleinstance.cpp:30`; `StartOps = {"race"}`): A launch while the program closes is handed to the process that goes, and ends. forwardToRunning returns once the bytes are written; the server lives until the process has gone.
* `HiddenIsNotBroken` of AppStart (`src/app/boothealth.cpp:30`; `StartOps = {"hidden"}`): A start in the tray that is closed before its window was ever shown counts as a failed start. Only the first frame marks the start as good.
* `ReadyIsInstalled` of GameInstall (`src/bridges/session/qmlsessionbridge_gameinstall.cpp:441`; `InstallOps = {}`): After an installer that failed, an executable that it left behind is taken for the game. pollInstallWatch looks for any executable where the installer was to install and in the torrent's folder, and does not ask how the installer ended.
* `OneInstaller` of GameInstall (`src/bridges/session/qmlsessionbridge_gameinstall.cpp:62`; `InstallOps = {"auto"}`): With extraction on its own, the installer of a game is run twice. The extraction at a download's end and the request to install both look at the folder on threads of their own, and each answer goes on to the installer.
* `FailureIsItsOwn` of GameInstall (`src/bridges/session/qmlsessionbridge_gameinstall.cpp:579`; `InstallOps = {"again"}`): A second request to install a game is given up at once for the failure of the first. pollPendingInstall reads the state that the first request left in m_gameInstallState.
* `HalfIsNotRun` of GameInstall (`src/bridges/session/qmlsessionbridge_gameinstall.cpp:66`; `InstallOps = {"deletes"}`): A folder whose unpacked files the user deletes while a thread looks at it is run as the thread saw it. src/src/bridges/session/qmlsessionbridge_gameinstall.cpp:66-68 says "What is on disk decides whether to unpack, not a memory of having done it: the user may have deleted the extracted folder since"; what decides is what was on the disk when the thread looked.
* `UnlocksAreTold` of GamePlay (`src/services/games/achievementwatch.cpp:46`; `PlayOps = {"torn"}`): An unlock is not told when the look-up after it reads the file while it is written. The watch has the unlock in seen; the look-up that is to announce it announces what it finds itself.
* `WaitedIsFetched` of WatchDesk (`src/bridges/session/qmlsessionbridge_watch.cpp:81`; `WatchOps = {"flaps", "same"}`): A second file of a torrent that is picked while the first is waited for is not fetched the player's way. m_watchPrepped has the hash already; the comment at src/src/bridges/session/qmlsessionbridge_watch.cpp:80 says "fetch it the player's way now".
* `PicksAreWanted` of WatchDesk (`src/bridges/session/qmlsessionbridge_playback.cpp:138`; `WatchOps = {"flaps", "partial"}`): One file that is picked of a torrent of which only a watched file is wanted stays unwanted. A torrent that is there and was not picked from is taken for whole: the comment says "already here in full (the whole pack was added before): leave it whole".
* `StatusIsTrue` of Updates (`src/bridges/qmlupdaterbridge.cpp:19`; `UpdateOps = {"idle"}`): After an update that was installed, the page still says that it is available. The bridge restores lastUpdateStatus as it is, until the next check ends.
* `OutcomeIsAwaited` of DebridStream (`src/services/integrations/realdebrid.cpp:140`; `DebridOps = {"late"}`): The answer to a magnet that was cancelled is taken for the next one's. onAddMagnet takes the id of whatever answer comes; cancelStream does not abort the request.
* `AuthedIsTrue` of DebridStream (`src/services/integrations/realdebrid.cpp:81`; `DebridOps = {"tokens"}`): The answer about an old token signs the new one in. checkAccount's answer does not say which token it is about.
* `AsksEnd` of GameSources (`src/bridges/search/qmlsearchbridge_games.cpp:84`; `GameOps = {"offline"}`): Without a network and without a cached list, the page of games asks again and again. An empty index is asked for again by each answer that leaves it empty (src/src/qml/views/FindCatalogBrowse.qml:61).
* `ListedOnce` of SourceAddons (`src/services/discovery/addonmanager.cpp:241`; `AddonOps = {"hasty"}`): An add-on that is added twice before its manifest came is listed twice. addAddon looks at the list, and the manifest's answer appends without a look.
* `ChoiceStays` of SourceAddons (`src/services/discovery/addonmanager.cpp:102`; `AddonOps = {"language"}`): A change of language switches an add-on on that the user switched off. syncCuratedAddons does not know a user's choice from its own; src/src/services/discovery/addonmanager.cpp:85 says "install missing curated free addons for existing users".
* `SelectionIsOwn` of AddDesk (`src/qml/dialogs/AddDownloadDialog.qml:171`; `AddOps = {"edit"}`): After an edit of the paste field, the ticks of another torrent are those of the one that is left. syncPaste does not make the selection again for an item that is alone then; removeAt does.
* `AddedAsEntered` of AddDesk (`src/qml/dialogs/AddDownloadDialog.qml:362`; `AddOps = {"another"}`): Ticks are forgotten when a second item is added to the list. commit hands priorities over for a single item only.
* `AddedAsEntered` of AddDesk (`src/qml/dialogs/AddDownloadDialog.qml:185`; `AddOps = {"hasty"}`): A line that is pasted less than 250 ms before the button is pressed is lost. commit does not run the timer's syncPaste.
* `FolderIsOfTheBiggest` of AddDesk (`src/qml/dialogs/AddDownloadDialog.qml:154`; `AddOps = {"folder"}`): After the biggest item is removed, the folder is still the one for it. removeAt does not call pickDest, whose comment says "The biggest item decides for a mixed list" (src/src/qml/dialogs/AddDownloadDialog.qml:319-320).
* `NothingStaysStaged` of AddDesk (`src/qml/dialogs/AddDownloadDialog.qml:150`; `AddOps = {"elsewhere"}`): A magnet that waits in the window and is added elsewhere stays with the engine when the window closes. drop leaves alone what is marked as a duplicate.
* `FolderIsOfTheAdded` of AddDesk (`src/qml/dialogs/AddDownloadDialog.qml:321`; `AddOps = {}`): A duplicate, which is not added, decides the folder of the others. pickDest looks at items of every state.


## 6. Not modelled

| Component | Status | |
|---|---|---|
| Session tick: download queue, kill switch, disk and memory pauses, seed limits | partly | updateStats and what it calls to pause or resume a torrent, with every user operation that touches the same lists. The search for missing files and the bandwidth schedule, which the same timer runs, are modules of their own; what updateStats counts is left out. |
| Resume store: .resume files, duplicates, removed-history, crash guard | partly | Adds, alerts, saves, flushes, removals, restores, crashes and restarts, shown to implement an abstract library. The repair of a corrupt file and the contents of the resume data are left out. |
| VPN: manager, userspace tunnel, wiring to the session | partly | Connect, disconnect, retry, import and removal of profiles, launch, engine deaths and the kill switch over the SOCKS tunnel. Tunnels through the system's own WireGuard tools are not modelled. |
| System WireGuard tunnels and the configuration parser | not_modelled | Run the system's tools and parse a text file: no state of their own. |
| batwg, the helper process of the userspace tunnel | not_modelled | Not under src/src: its exit, its ready line and its forwarded port appear as external actions of WgTunnel. |
| Engine split: IpcEngine, EngineHost, the local socket | partly | Calls, nested event dispatch, timeouts, crashes, respawns, snapshots and piece maps. Of the calls, those on the list and the piece map have an effect; the others are queries without one. Serialisation is the identity on what the model keeps. |
| HTTP downloads: segments, manager, merged list | partly | HttpDownload and HttpDownloadManager: every operation, fault and restart. The merged list is in LibraryRows; the resolver of file hosts is left out, it holds no state. |
| Staging of magnets for the add window | partly | Every operation on a staged magnet, with libtorrent below it (StagedAdds), and the list of the add window with its paste field, ticks, folder, answers and the queue of dropped files (AddDesk). Posters and the groups that a preview makes of a torrent's files are left out. |
| Bandwidth scheduler and alternative speeds | partly | The schedule, the button, the limits and the relaunch. The watched folder, which shares the source file, is not modelled. |
| Missing-files probe and content probe | modelled | checkMissingFiles with its two looks on a thread, pauseMissing and what the user and the disk do meanwhile; contentPresent is whether the data is at one of the places it looks in. |
| Extraction, trash and blocklist of the session | partly | The deletion and its retries over removals, adds and restarts. Extraction runs a program over files; the blocklist is a filter handed to libtorrent. |
| Streaming windows, stream gate and stream server | partly | Readers, windows, deadlines, the run of bytes that is there and the guard's verdict; the wait until a file can be played (WatchDesk). Parsing of the request and the lookup of the file are left out. |
| Session settings: limits, categories, statistics, configuration, proxy, import | partly | Categories with folders, the temporary and the automatic folder, moves and stop wishes at a download's end (FinishMoves); rate limits (BandwidthSchedule); the missing-files setting; the status cache (SessionTick). The other setters and readers are not modelled. |
| Pure helpers of the session | not_modelled | String and tree handling without state. |
| libtorrent | not_modelled | An external library: its handles, alerts and auto-management appear as actions of the modules that use them. |
| Media decoder process: channel, feed, host, shared segment, sandbox | partly | The feed of bytes, the ring of frames, and control with the decoder's death and restart. Framing of messages, pixel formats and the sandbox of the operating system are left out. |
| Web server and pairing | not_modelled | Request handlers over the session; sessions and pairing may follow. |
| Session bridge | partly | Selection by row, queue buttons and removals, with the poster model and the merged list (LibraryRows); removals over the engine's socket (EngineLink); waits, picks and players (WatchDesk); the add window (AddDesk); extraction and installers (GameInstall). The rest presents the session to QML. |
| Search bridge | partly | Searches over all sources and titles, failures, answers from a cache, Get and watch (SearchPage); the page of games (GameSources); what a result that is activated leads to (WatchDesk). Sorting, grouping, covers and next episodes are not modelled. |
| Other bridges | partly | The settings of sources (SourceAddons) and the update dialog's bridge (Updates). The others present services to QML. |
| Discovery: add-ons, catalogues, game sources | partly | Game lists with their cache (GameSources); add-ons, defaults and providers over languages and restarts, and a question put to all of them (SourceAddons); how searches answer, fail or answer from a cache (SearchPage). Requests and parsers are left out. |
| Metadata: names, releases, posters | partly | The resolver's queue, limiter, token, re-links and posters. Names and matches are pure functions on strings; the other services are not modelled. |
| Integrations: debrid, RSS, updater, GeoIP, game install, Discord | partly | RSS: feeds, checks, rules, seen links, restarts. The updater: releases, tracks, dialog, download, launch. Debrid: both providers, tokens, polls, choice of the file. Game install: extraction, installers, marks. GeoIP and Discord are not modelled. |
| Games and achievements | partly | Processes that are followed, the time that is counted and kept, unlocks that are found and told. Parsers of third-party formats are left out. |
| Subtitles | not_modelled | Parsers and one request. |
| Security services: archives, media guard, secrets, blocklist, crash handler | partly | The media guard's verdict and quarantine (StreamWindows, WatchDesk); what an extraction leaves behind (GameInstall). The others are scanners over file contents and calls of the system. |
| Platform services: settings, log, autostart, translations, sounds | not_modelled | I/O; the settings that the VPN reads are part of VpnLink. |
| Application start: single instance, boot health, wiring | partly | One instance per user, links handed over, the count of failed starts and software rendering (AppStart); vpnwiring (VpnLink). What else is connected at the start is left out. |
| QML user interface | partly | The state that dialogs, pages and players keep of their own: the add window (AddDesk), players (WatchDesk), the update dialog (Updates), the page of games (GameSources). The rest is presentation. |
| Build, packaging, translations, tests, benchmark | not_modelled | Not part of the running program; tests and texts were read with the code. |


## 7. Plan

1. Theorems: `RespawnMixesNothingUp` of `MCEngineStream`, and of `MCServices` the resolver
   and the games first.
2. Composition of `SessionTick` and `ResumeStore`: which pauses a restart keeps.
3. The web server's sessions and pairing, subtitles, the settings of the session.
