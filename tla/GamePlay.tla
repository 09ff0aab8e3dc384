------------------------------ MODULE GamePlay ------------------------------
(***************************************************************************)
(* What is known of games that run: their processes are followed by a poll *)
(* also from one run of the application to the next, the time is credited  *)
(* when they end, and what is unlocked meanwhile is told and written down. *)
(*                                                                         *)
(* The poll is the clock: a tick of it is as long as the shortest session  *)
(* that counts.  Processes start and end between its ticks.  The build is  *)
(* the one for Windows.                                                    *)
(***************************************************************************)
EXTENDS Naturals, Sequences, FiniteSets

CONSTANTS
  Games, Unlocks,
  MaxClock, MaxPids,
  SaveEvery,    \* ticks between the notes that a game was seen alive
  PlayOps       \* odd cases: "unseen", "torn", "locked"

VARIABLES
  clock,
  procs,        \* the processes: a game for each pid, and whether they run
  pids,         \* pids given out
  open,         \* the application runs
  follows,      \* m_runningGames and m_gameStartMs
  restored,     \* m_runningRestored
  savedAt,      \* m_runningSavedMs
  kept,         \* runningGames of the settings
  log,          \* PlayLog: the ticks credited to each game, and its launches
  files,        \* what the game's own files say is unlocked
  watch,        \* AchievementWatch: what was seen, or not watched
  announce,     \* m_achAnnounce
  asked,        \* m_waiting: the look-ups under way
  ledger,       \* the record in memory, and the one on disk
  ran,          \* history: the ticks in which each game ran, and its starts
  told,         \* history: the unlocks told, and those since the game was set up
  wrong         \* history: an unlock was told twice, or one was missed

vars == <<clock, procs, pids, open, follows, restored, savedAt, kept, log, files, watch,
          announce, asked, ledger, ran, told, wrong>>

played == <<files, watch, announce, asked, ledger, told, wrong>>
counted == <<clock, procs, pids, follows, restored, savedAt, kept, log, ran>>

NotHere == [pid |-> 0, start |-> 0, seen |-> 0]
Unwatched == [on |-> FALSE, seen |-> {}, base |-> {}]

Init ==
  /\ clock = 0 /\ pids = 0 /\ procs = {}
  /\ open = TRUE /\ restored = FALSE /\ savedAt = 0
  /\ follows = [g \in Games |-> NotHere]
  /\ kept = [g \in Games |-> NotHere]
  /\ log = [g \in Games |-> [ticks |-> <<>>, launches |-> 0]]
  /\ files = [g \in Games |-> {}]
  /\ watch = [g \in Games |-> Unwatched]
  /\ announce = [g \in Games |-> {}]
  /\ asked = {}
  /\ ledger = [loaded |-> FALSE, has |-> [g \in Games |-> {}], disk |-> [g \in Games |-> {}]]
  /\ ran = [g \in Games |-> [ticks |-> {}, starts |-> 0]]
  /\ told = [g \in Games |-> [ever |-> {}, since |-> {}]]
  /\ wrong = FALSE

Alive(pid) == \E p \in procs : p.pid = pid
Under(g) == {p \in procs : p.game = g}
Followed(g) == follows[g].pid # 0

------------------------------------------------------------------------------
\* Processes of games

Started(g) ==
  /\ pids < MaxPids /\ clock < MaxClock
  /\ pids' = pids + 1
  /\ procs' = procs \cup {[pid |-> pids + 1, game |-> g]}
  /\ ran' = [ran EXCEPT ![g] = [ticks |-> @.ticks \cup {clock},
                                starts |-> @.starts + 1]]

\* What is unlocked when a watch starts is no news
Watched(g) == [on |-> TRUE, seen |-> files[g], base |-> files[g]]

\* One process of a game at a time, unless there are some that nobody sees
Alone(g) == Under(g) = {} \/ "unseen" \in PlayOps

\* launchGame, and followRunningGame unless the game is followed already
LaunchGame(g) ==
  /\ open /\ Alone(g) /\ Started(g)
  /\ log' = [log EXCEPT ![g].launches = @ + 1]
  /\ IF Followed(g) THEN UNCHANGED <<follows, kept, watch>>
     ELSE LET f == [pid |-> pids + 1, start |-> clock, seen |-> clock]
          IN /\ follows' = [follows EXCEPT ![g] = f]
             /\ kept' = [kept EXCEPT ![g] = f]
             /\ watch' = [watch EXCEPT ![g] = Watched(g)]
  /\ UNCHANGED <<clock, open, restored, savedAt, files, announce, asked, ledger, told, wrong>>

UserStarts(g) ==
  /\ Alone(g) /\ Started(g)
  /\ UNCHANGED <<clock, open, follows, restored, savedAt, kept, log>> /\ UNCHANGED played

\* A launcher starts the game proper and ends
HandsOff(p) ==
  /\ open \/ "unseen" \in PlayOps
  /\ Followed(p.game) \/ "unseen" \in PlayOps
  /\ pids < MaxPids
  /\ pids' = pids + 1
  /\ procs' = (procs \ {p}) \cup {[pid |-> pids + 1, game |-> p.game]}
  /\ UNCHANGED <<clock, open, follows, restored, savedAt, kept, log, ran>> /\ UNCHANGED played

ProcessEnds(p) ==
  /\ procs' = procs \ {p}
  /\ UNCHANGED <<clock, pids, open, follows, restored, savedAt, kept, log, ran>>
  /\ UNCHANGED played

Unlock(g, u) ==
  /\ Under(g) # {}
  /\ u \notin files[g] /\ clock < MaxClock
  /\ files' = [files EXCEPT ![g] = @ \cup {u}]
  /\ UNCHANGED <<open, watch, announce, asked, ledger, told, wrong>> /\ UNCHANGED counted

------------------------------------------------------------------------------
\* The look at the files, and the look-up of names

\* A file that is being written may be read in part
Reads(g) == IF "torn" \in PlayOps THEN SUBSET files[g] ELSE {files[g]}

\* request: one look-up for all who wait for it
Requested(who) == asked \cup who

\* AchievementWatch::check, with the request that follows
Checked(w, ann, g, now) ==
  [watch |-> [w EXCEPT ![g].seen = now],
   announce |-> [ann EXCEPT ![g] = @ \cup (now \ w[g].seen)],
   asks |-> IF now \ w[g].seen # {} THEN {g} ELSE {}]

CheckNow(g) ==
  /\ open /\ watch[g].on
  /\ \E now \in Reads(g) :
       LET c == Checked(watch, announce, g, now)
       IN /\ now # watch[g].seen
          /\ watch' = c.watch /\ announce' = c.announce /\ asked' = Requested(c.asks)
  /\ UNCHANGED <<open, files, ledger, told, wrong>> /\ UNCHANGED counted

UserOpensPage(g) ==
  /\ open /\ g \notin asked
  /\ asked' = Requested({g})
  /\ UNCHANGED <<open, files, watch, announce, ledger, told, wrong>> /\ UNCHANGED counted

\* AchievementLedger::merged; a record that cannot be read is an empty one
Merged(g, now, readable) ==
  LET has == IF ledger.loaded THEN ledger.has
             ELSE IF readable THEN ledger.disk ELSE [x \in Games |-> {}]
      new == [has EXCEPT ![g] = @ \cup now]
  IN [loaded |-> TRUE, has |-> new, disk |-> IF new = has THEN ledger.disk ELSE new]

\* onAchievementsLookedUp
Tells(g, unlocked) ==
  LET all == announce[g] \cap unlocked
  IN /\ told' = [told EXCEPT ![g] = [ever |-> @.ever \cup all, since |-> @.since \cup all]]
     /\ wrong' = (wrong \/ all \cap told[g].since # {})
     /\ announce' = [announce EXCEPT ![g] = {}]

\* finish
LookUpEnds(g) ==
  /\ open /\ g \in asked
  /\ \E now \in Reads(g), readable \in {TRUE} \cup {"locked" \notin PlayOps} :
       LET m == Merged(g, now, readable)
       IN ledger' = m /\ Tells(g, m.has[g])
  /\ asked' = asked \ {g}
  /\ UNCHANGED <<open, files, watch>> /\ UNCHANGED counted

\* A new copy of the game: its files begin anew
Reinstalls(g) ==
  /\ Under(g) = {} /\ ~watch[g].on /\ announce[g] = {} /\ files[g] # {}
  /\ files' = [files EXCEPT ![g] = {}]
  /\ told' = [told EXCEPT ![g].since = {}]
  /\ UNCHANGED <<open, watch, announce, asked, ledger, wrong>> /\ UNCHANGED counted

------------------------------------------------------------------------------
\* The poll

\* PlayLog::recordSession: a session too short is none
Credit(l, start, end) ==
  IF end > start THEN [l EXCEPT !.ticks = Append(@, <<start, end>>)] ELSE l

\* What the poll has of one game
Of(g) == [f |-> follows[g], k |-> kept[g], l |-> log[g], w |-> watch[g],
          a |-> announce[g], asks |-> FALSE, lost |-> FALSE]

Follow(o, g, f) == [o EXCEPT !.f = f, !.k = f, !.w = Watched(g)]

\* Mutant: what ended while closed is credited up to now
RestoredToNow(o, g, now) ==
  IF restored \/ o.k.pid = 0 THEN o
  ELSE IF Alive(o.k.pid) THEN Follow(o, g, [o.k EXCEPT !.seen = now])
  ELSE [o EXCEPT !.k = NotHere, !.l = Credit(@, o.k.start, now)]

\* restoreRunningGames
Restored(o, g, now) ==
  IF restored \/ o.k.pid = 0 THEN o
  ELSE IF Alive(o.k.pid) THEN Follow(o, g, [o.k EXCEPT !.seen = now])
  ELSE [o EXCEPT !.k = NotHere,
                 !.l = IF o.k.seen > o.k.start THEN Credit(@, o.k.start, o.k.seen) ELSE @]

\* noticeOutsideLaunches
Noticed(o, g, now) ==
  IF o.f.pid # 0 \/ Under(g) = {} THEN o
  ELSE LET p == CHOOSE x \in Under(g) : TRUE
       IN Follow([o EXCEPT !.l.launches = @ + 1], g, [pid |-> p.pid, start |-> now, seen |-> now])

\* stopAchievementWatch: one last look
Stopped(o, g, now) ==
  LET new == IF o.w.on THEN files[g] \ o.w.seen ELSE {}
  IN [o EXCEPT !.w = Unwatched, !.a = @ \cup new, !.asks = new # {},
               !.lost = o.w.on /\ ~(files[g] \subseteq o.w.base \cup o.a \cup new
                                                        \cup told[g].since)]

\* pollRunningGames of one game that is followed
Polled(o, g, now) ==
  IF o.f.pid = 0 THEN o
  ELSE IF Alive(o.f.pid)
    THEN IF now - savedAt >= SaveEvery THEN [o EXCEPT !.k = [@ EXCEPT !.seen = now]] ELSE o
  ELSE IF Under(g) # {}
    THEN LET next == CHOOSE x \in Under(g) : TRUE
             f == [o.f EXCEPT !.pid = next.pid, !.seen = now]
         IN [o EXCEPT !.f = f, !.k = f]
  ELSE Stopped([o EXCEPT !.f = NotHere, !.k = NotHere, !.l = Credit(@, o.f.start, now)], g, now)

Runs(g) == IF Under(g) # {} THEN {clock + 1} ELSE {}

Poll ==
  /\ open /\ clock < MaxClock
  /\ LET now == clock + 1
         O == [g \in Games |-> Polled(Noticed(Restored(Of(g), g, now), g, now), g, now)]
     IN /\ clock' = now
        /\ follows' = [g \in Games |-> O[g].f]
        /\ kept' = [g \in Games |-> O[g].k]
        /\ log' = [g \in Games |-> O[g].l]
        /\ watch' = [g \in Games |-> O[g].w]
        /\ announce' = [g \in Games |-> O[g].a]
        /\ asked' = Requested({g \in Games : O[g].asks})
        /\ wrong' = (wrong \/ \E g \in Games : O[g].lost)
        /\ savedAt' = IF now - savedAt >= SaveEvery THEN now ELSE savedAt
  /\ restored' = TRUE
  /\ ran' = [g \in Games |-> [ran[g] EXCEPT !.ticks = @ \cup Runs(g)]]
  /\ UNCHANGED <<procs, pids, open, files, ledger, told>>

TimePasses ==
  /\ ~open /\ clock < MaxClock
  /\ clock' = clock + 1
  /\ ran' = [g \in Games |-> [ran[g] EXCEPT !.ticks = @ \cup Runs(g)]]
  /\ UNCHANGED <<procs, pids, open, follows, restored, savedAt, kept, log>> /\ UNCHANGED played

\* Also a crash.  Not between a hand-over and the poll that sees it.
Closes ==
  /\ open
  /\ "unseen" \in PlayOps \/ \A g \in Games : Followed(g) => Alive(follows[g].pid) \/ Under(g) = {}
  /\ open' = FALSE /\ restored' = FALSE /\ savedAt' = 0
  /\ follows' = [g \in Games |-> NotHere]
  /\ watch' = [g \in Games |-> Unwatched]
  /\ announce' = [g \in Games |-> {}] /\ asked' = {}
  /\ ledger' = [ledger EXCEPT !.loaded = FALSE, !.has = [g \in Games |-> {}]]
  /\ UNCHANGED <<clock, procs, pids, kept, log, files, ran, told, wrong>>

Opens ==
  /\ ~open /\ open' = TRUE
  /\ UNCHANGED counted /\ UNCHANGED played

Next ==
  \/ \E g \in Games : \/ LaunchGame(g) \/ UserStarts(g) \/ CheckNow(g) \/ UserOpensPage(g)
                       \/ LookUpEnds(g) \/ Reinstalls(g)
                       \/ \E u \in Unlocks : Unlock(g, u)
  \/ \E p \in procs : HandsOff(p) \/ ProcessEnds(p)
  \/ Poll \/ TimePasses \/ Closes \/ Opens

Spec == Init /\ [][Next]_vars

------------------------------------------------------------------------------
\* What is followed has a pid that was given out, and is noted in the settings.
TypeOK ==
  /\ clock \in 0..MaxClock /\ pids \in 0..MaxPids
  /\ procs \subseteq [pid : 1..pids, game : Games]
  /\ \A g \in Games :
       /\ {follows[g].pid, kept[g].pid} \subseteq 0..pids
       /\ Followed(g) /\ restored => kept[g].pid = follows[g].pid /\ kept[g].start = follows[g].start
       /\ files[g] \subseteq Unlocks /\ announce[g] \subseteq Unlocks

\* Time that is credited was played, and no part of it is credited twice,
\* through hand-overs, closings and crashes.
Spans(g) == 1..Len(log[g].ticks)
Span(g, i) == log[g].ticks[i][1]..(log[g].ticks[i][2] - 1)

PlayedIsReal ==
  \A g \in Games : \A i \in Spans(g) :
    /\ Span(g, i) \subseteq ran[g].ticks
    /\ \A j \in Spans(g) : i # j => Span(g, i) \cap Span(g, j) = {}

\* A start is counted once, from the application or outside it.
LaunchesAreReal == \A g \in Games : log[g].launches <= ran[g].starts

\* An unlock is told once, and none of a session that is followed to its end is
\* missed; what waits for its name has a look-up under way.
UnlocksAreTold ==
  /\ ~wrong
  /\ \A g \in Games : announce[g] # {} => g \in asked

\* What was told is in the record, whatever becomes of the game's files.
ToldIsWritten == \A g \in Games : told[g].ever \subseteq ledger.disk[g]

\* All of this of games that run.
PlayIsSound == TypeOK /\ PlayedIsReal /\ LaunchesAreReal /\ UnlocksAreTold /\ ToldIsWritten

==============================================================================
