----------------------------- MODULE GameInstall -----------------------------
(***************************************************************************)
(* "Install" and "Get & Install" of one game: a look at the folder on a    *)
(* thread, the archives unpacked, the installer run and watched, and the   *)
(* request that is polled until the game plays or the user is told why not.*)
(*                                                                         *)
(* The build is the one for Windows.  What is in the torrent is fixed: the *)
(* game itself or its setup, as files or in archives.                      *)
(***************************************************************************)
EXTENDS Naturals, FiniteSets

CONSTANTS
  Slots,        \* threads, and unpackings, at a time
  InstallOps    \* odd cases: "auto", "impatient", "again", "deep",
                \* "deletes", "drive"

VARIABLES
  config,       \* what the torrent holds, and the settings
  torrent,      \* of the session: "gone", "loads" or "done"
  app,          \* the bridge's tables, its threads and the extractor's chains
  disk,         \* the torrent's folder, its mark, and the settings on disk
  machine,      \* installers that run, what a failed one left, whether the game is
                \* installed, and runs
  halfRun,      \* history: something half unpacked was run or taken as the game
  unfair,       \* history: a request was failed for what came before it
  owned         \* history: the library showed the game where it was installed

vars == <<config, torrent, app, disk, machine, halfRun, unfair, owned>>

NoJob == [kind |-> "none", sees |-> "unseen"]

\* overlay is m_gameInstallState, unpacked m_extracted, pending and kicked are
\* m_pendingInstall (with its age) and m_installStarted, watch is m_installWatch
NewApp == [overlay |-> "none", unpacked |-> FALSE, pending |-> "none", kicked |-> FALSE,
           watch |-> "none", jobs |-> [s \in Slots |-> NoJob],
           chains |-> [s \in Slots |-> "none"], exclusion |-> FALSE, fresh |-> FALSE]

Init ==
  /\ config \in [kind : {"game", "setup"},
                 layout : {"files", "archives"} \cup (InstallOps \cap {"deep"}),
                 silent : BOOLEAN, dir : BOOLEAN, autoInstall : BOOLEAN,
                 autoExtract : BOOLEAN, deleteAfter : BOOLEAN]
  /\ config.autoExtract => "auto" \in InstallOps
  /\ config.deleteAfter => "deletes" \in InstallOps
  /\ config.kind = "game" => config.silent /\ config.dir
  /\ config.layout = "files" => ~config.autoExtract /\ ~config.deleteAfter
  /\ torrent = "loads"
  /\ app = NewApp
  /\ disk = [arc |-> FALSE, marker |-> FALSE, got |-> "none", exe |-> "none",
             kept |-> FALSE]
  /\ machine = [installers |-> 0, left |-> "none", installed |-> FALSE, away |-> FALSE,
                plays |-> FALSE]
  /\ halfRun = FALSE /\ unfair = FALSE /\ owned = FALSE

World == [app |-> app, disk |-> disk, machine |-> machine]
Become(w) == app' = w.app /\ disk' = w.disk /\ machine' = w.machine

Busy(a) == \E s \in Slots : a.jobs[s].kind # "none"
Free(a) == \E s \in Slots : a.jobs[s].kind = "none"

StartJob(a, kind) ==
  LET s == CHOOSE x \in Slots : a.jobs[x].kind = "none"
  IN [a EXCEPT !.jobs[s] = [kind |-> kind, sees |-> "unseen"]]

Done == torrent = "done"

\* torrentHasArchives: from the file list, whatever became of the files
HasArchives == config.layout # "files"

\* extract looks for archives in the folder itself, and says nothing if there
\* are none
Extract(w) ==
  LET s == CHOOSE x \in Slots : w.app.chains[x] = "none"
  IN IF w.disk.arc /\ config.layout # "deep"
       THEN [w EXCEPT !.app.chains[s] = "starts", !.disk.marker = TRUE]
       ELSE w

FinalizeInstall(w) == [w EXCEPT !.app = StartJob(@, "final")]

\* installGame
Install(w) ==
  IF torrent # "done" \/ w.app.overlay \in {"extracting", "installing"} THEN w
  ELSE IF HasArchives
    THEN [w EXCEPT !.app = StartJob([@ EXCEPT !.overlay = "extracting"], "probe")]
    ELSE FinalizeInstall(w)

ExeExists(w) ==
  \/ w.disk.exe = "inside" /\ (w.disk.got # "none" \/ w.machine.left = "folder")
  \/ /\ w.disk.exe = "outside" /\ ~w.machine.away
     /\ w.machine.installed \/ w.machine.left = "target"
  \/ w.disk.exe = "picked"

\* GameInstall::derive
InstallState(w) ==
  IF w.machine.plays THEN "plays"
  ELSE IF w.app.overlay # "none" THEN w.app.overlay
  ELSE IF ExeExists(w) THEN "ready"
  ELSE IF Done THEN "toInstall" ELSE "loads"

\* A setup may lie beside the archives it belongs to; autodetect finds it there
Sees == IF disk.got = "none"
          THEN {"nothing"} \cup (IF HasArchives /\ Done /\ config.kind = "setup"
                                   THEN {"setup"} ELSE {})
        ELSE IF disk.got = "part" THEN {"nothing", config.kind}
        ELSE {config.kind}

------------------------------------------------------------------------------
\* What the user and the session do

\* handleFinished unpacks if it is set to, and then tells the bridge
TorrentFinishes ==
  /\ torrent = "loads"
  /\ torrent' = "done"
  /\ LET d == IF HasArchives THEN [disk EXCEPT !.arc = TRUE] ELSE [disk EXCEPT !.got = "whole"]
         w == [World EXCEPT !.disk = d]
         x == IF config.autoExtract THEN Extract(w) ELSE w
     IN /\ Free(app) /\ \E s \in Slots : app.chains[s] = "none"
        /\ Become(IF app.pending = "none" /\ config.autoInstall
                       /\ app.overlay \notin {"extracting", "installing"}
                    THEN IF HasArchives
                           THEN [x EXCEPT !.app = StartJob([@ EXCEPT !.overlay = "extracting"], "probe")]
                           ELSE FinalizeInstall(x)
                    ELSE x)
  /\ UNCHANGED <<config, halfRun, unfair, owned>>

\* Unless the user is impatient, nobody asks for what is under way
Calm ==
  \/ "impatient" \in InstallOps
  \/ /\ ~Busy(app) /\ ~app.exclusion /\ machine.installers = 0
     /\ app.pending = "none" /\ \A s \in Slots : app.chains[s] = "none"

\* The card has an Install for these states only
UserInstalls ==
  /\ InstallState(World) \in {"toInstall", "failed"}
  /\ Free(app)
  /\ Calm
  /\ Become(Install(World))
  /\ UNCHANGED <<config, torrent, halfRun, unfair, owned>>

\* installGameExcluded: the question to Windows takes its time
UserExcludes ==
  /\ InstallState(World) \in {"toInstall", "failed"} /\ ~app.exclusion
  /\ Calm
  /\ app' = [app EXCEPT !.exclusion = TRUE]
  /\ UNCHANGED <<config, torrent, disk, machine, halfRun, unfair, owned>>

ExclusionAnswers ==
  /\ app.exclusion /\ Free(app)
  /\ Become(Install([World EXCEPT !.app.exclusion = FALSE]))
  /\ UNCHANGED <<config, torrent, halfRun, unfair, owned>>

InstallWhenReady ==
  /\ torrent # "gone" /\ app.pending = "none" /\ Calm
  /\ "again" \in InstallOps \/ app.overlay \notin {"failed", "setup"}
  /\ app' = [app EXCEPT !.pending = "new", !.kicked = FALSE, !.fresh = FALSE]
  /\ UNCHANGED <<config, torrent, disk, machine, halfRun, unfair, owned>>

CancelInstall ==
  /\ app.pending # "none"
  /\ app' = [app EXCEPT !.pending = "none", !.kicked = FALSE]
  /\ UNCHANGED <<config, torrent, disk, machine, halfRun, unfair, owned>>

\* setGameExe
UserPicksExe ==
  /\ app.overlay # "none" /\ disk.exe = "none" /\ Calm
  /\ app' = [app EXCEPT !.overlay = "none"]
  /\ disk' = [disk EXCEPT !.exe = "picked"]
  /\ UNCHANGED <<config, torrent, machine, halfRun, unfair, owned>>

\* With its files, which are not deleted while something works on them
TorrentGoes ==
  /\ Done /\ \A s \in Slots : app.chains[s] = "none"
  /\ torrent' = "gone"
  /\ disk' = [disk EXCEPT !.arc = FALSE, !.marker = FALSE, !.got = "none"]
  /\ machine' = [machine EXCEPT !.left = IF @ = "folder" THEN "none" ELSE @]
  /\ UNCHANGED <<config, app, halfRun, unfair, owned>>

TorrentComesAgain ==
  /\ torrent = "gone" /\ "again" \in InstallOps
  /\ torrent' = "loads"
  /\ UNCHANGED <<config, app, disk, machine, halfRun, unfair, owned>>

UserDeletesUnpacked ==
  /\ "deletes" \in InstallOps /\ HasArchives
  /\ disk.got = "whole" /\ \A s \in Slots : app.chains[s] = "none"
  /\ disk' = [disk EXCEPT !.got = "none"]
  /\ UNCHANGED <<config, torrent, app, machine, halfRun, unfair, owned>>

Restart ==
  /\ app # NewApp
  /\ "impatient" \in InstallOps \/ machine.installers = 0
  /\ app' = NewApp
  /\ UNCHANGED <<config, torrent, disk, machine, halfRun, unfair, owned>>

------------------------------------------------------------------------------
\* The threads

\* Mutant: the look at the folder goes past the mark
LooksPastTheMark(s) ==
  /\ app.jobs[s].kind # "none" /\ app.jobs[s].sees = "unseen"
  /\ \E x \in Sees : app' = [app EXCEPT !.jobs[s].sees = x]
  /\ UNCHANGED <<config, torrent, disk, machine, halfRun, unfair, owned>>

JobLooks(s) ==
  /\ app.jobs[s].kind # "none" /\ app.jobs[s].sees = "unseen"
  /\ \E x \in Sees :
       app' = [app EXCEPT !.jobs[s].sees =
                 IF app.jobs[s].kind = "probe" /\ disk.marker THEN "nothing" ELSE x]
  /\ UNCHANGED <<config, torrent, disk, machine, halfRun, unfair, owned>>

\* The probe's answer, in installGame
ProbeAnswers(s) ==
  LET j == app.jobs[s]
      w == [World EXCEPT !.app.jobs[s] = NoJob]
  IN /\ j.kind = "probe" /\ j.sees # "unseen"
     /\ \E c \in Slots : app.chains[c] = "none"
     /\ Become(IF j.sees = "game" \/ (j.sees = "setup" /\ app.unpacked)
                 THEN FinalizeInstall([w EXCEPT !.app.unpacked = TRUE])
               ELSE IF torrent = "gone" THEN [w EXCEPT !.app.overlay = "none"]
               ELSE Extract(w))
     /\ UNCHANGED <<config, torrent, halfRun, unfair, owned>>

\* installedGameExe: what the machine says of installed programs, by the
\* torrent's name
Found == machine.installed /\ ~machine.away /\ torrent # "gone"

\* runInstaller: unattended into the folder the user chose, which is asked for
\* if there is none, or guided
Unattended == config.silent /\ config.dir /\ torrent # "gone"
Asks == config.silent /\ ~Unattended

RunInstaller(w) ==
  [w EXCEPT !.app.overlay = "installing", !.app.watch = "runs", !.machine.installers = @ + 1]

InstallerFails(w) ==
  [w EXCEPT !.app.overlay = IF config.silent THEN "failed" ELSE "setup", !.app.fresh = TRUE]

\* The end of finalizeInstall
FinalAnswers(s) ==
  LET j == app.jobs[s]
      w == [World EXCEPT !.app.jobs[s] = NoJob]
      half == disk.got = "part" \/ (HasArchives /\ disk.got = "none" /\ torrent # "gone")
  IN /\ j.kind = "final" /\ j.sees # "unseen"
     /\ machine.installers < 2
     /\ CASE j.sees = "nothing" ->
               /\ Become([w EXCEPT !.app.overlay = "setup", !.app.fresh = TRUE])
               /\ UNCHANGED halfRun
          [] j.sees = "game" ->
               /\ Become([w EXCEPT !.app.overlay = "none", !.disk.exe = "inside"])
               /\ halfRun' = (halfRun \/ half)
          [] j.sees = "setup" /\ Found ->
               /\ Become([w EXCEPT !.app.overlay = "none", !.disk.exe = "outside"])
               /\ UNCHANGED halfRun
          [] j.sees = "setup" /\ ~Found /\ Asks ->
               /\ Become([w EXCEPT !.app.overlay = "none"])
               /\ UNCHANGED halfRun
          [] OTHER ->
               \/ /\ torrent # "gone"
                  /\ Become(RunInstaller(w)) /\ halfRun' = (halfRun \/ half)
               \/ Become(InstallerFails(w)) /\ UNCHANGED halfRun
     /\ UNCHANGED <<config, torrent, unfair, owned>>

------------------------------------------------------------------------------
\* The extractor's chain of archives and passwords

ChainUnpacks(s) ==
  /\ app.chains[s] = "starts"
  /\ app' = [app EXCEPT !.chains[s] = "unpacks"]
  /\ disk' = [disk EXCEPT !.got = "part"]
  /\ UNCHANGED <<config, torrent, machine, halfRun, unfair, owned>>

\* Mutant: only a good end is told
ToldIfGood(w, ok) ==
  IF ok /\ w.app.overlay = "extracting"
    THEN FinalizeInstall([w EXCEPT !.app.unpacked = TRUE]) ELSE w

\* onExtractionCompleted
Completed(w, ok) ==
  LET a == IF ok THEN [w.app EXCEPT !.unpacked = TRUE] ELSE w.app
      x == [w EXCEPT !.app = a]
  IN IF a.overlay # "extracting" THEN x
     ELSE IF ok THEN FinalizeInstall(x)
     ELSE [x EXCEPT !.app.overlay = "failed", !.app.fresh = TRUE]

ChainEnds(s) ==
  /\ app.chains[s] = "unpacks" /\ Free(app)
  /\ LET w == [World EXCEPT !.app.chains[s] = "none"]
     IN \/ Become(Completed([w EXCEPT !.disk.got = "whole", !.disk.marker = FALSE,
                                      !.disk.arc = ~config.deleteAfter], TRUE))
        \/ Become(Completed(w, FALSE))
  /\ UNCHANGED <<config, torrent, halfRun, unfair, owned>>

------------------------------------------------------------------------------
\* The installer and the game, and what the bridge's tick sees of them

\* One that fails may leave an executable where the poll looks.
Leavings == {machine.left} \cup (IF config.silent THEN {"target"} ELSE {})
                          \cup (IF torrent = "done" THEN {"folder"} ELSE {})

InstallerEnds ==
  /\ machine.installers > 0
  /\ \/ machine' = [machine EXCEPT !.installers = @ - 1, !.installed = TRUE]
     \/ \E left \in Leavings :
          machine' = [machine EXCEPT !.installers = @ - 1, !.left = left]
  /\ UNCHANGED <<config, torrent, app, disk, halfRun, unfair, owned>>

\* Whichever executable is found, in the folder installed to or in the torrent's, is
\* the game's.  A second copy of the installer that runs counts as the first
PollInstallWatch ==
  /\ app.watch = "runs" /\ machine.installers = 0
  /\ LET target == /\ config.silent /\ ~machine.away
                   /\ machine.installed \/ machine.left = "target"
         exe == IF Found \/ target THEN "outside"
                ELSE IF torrent = "done" /\ machine.left = "folder" THEN "inside" ELSE "none"
     IN /\ app' = [app EXCEPT !.watch = "none", !.overlay = IF exe # "none" THEN "none" ELSE "setup",
                              !.fresh = @ \/ exe = "none"]
        /\ disk' = [disk EXCEPT !.exe = IF exe # "none" THEN exe ELSE @]
  /\ UNCHANGED <<config, torrent, machine, halfRun, unfair, owned>>

GameEnds ==
  /\ machine.plays
  /\ machine' = [machine EXCEPT !.plays = FALSE]
  /\ UNCHANGED <<config, torrent, app, disk, halfRun, unfair, owned>>

UserUninstalls ==
  /\ machine.installed /\ ~machine.plays /\ machine.installers = 0
  /\ machine' = [machine EXCEPT !.installed = FALSE]
  /\ owned' = FALSE
  /\ UNCHANGED <<config, torrent, app, disk, halfRun, unfair>>

DriveGoesOrComes ==
  /\ "drive" \in InstallOps /\ ~machine.plays /\ machine.installers = 0
  /\ machine' = [machine EXCEPT !.away = ~@]
  /\ UNCHANGED <<config, torrent, app, disk, halfRun, unfair, owned>>

\* gameLibrary notes a game that has an exe while its torrent is here
LibraryShows ==
  /\ torrent # "gone" /\ disk.exe # "none"
  /\ disk' = [disk EXCEPT !.kept = TRUE]
  /\ owned' = (disk.exe = "outside" /\ machine.installed)
  /\ UNCHANGED <<config, torrent, app, machine, halfRun, unfair>>

ForgetGame ==
  /\ torrent = "gone" /\ disk.kept
  /\ disk' = [disk EXCEPT !.kept = FALSE, !.exe = "none"]
  /\ owned' = FALSE
  /\ UNCHANGED <<config, torrent, app, machine, halfRun, unfair>>

\* pollRunningGames drops the path of a game that is not there
ClearStaleExe ==
  /\ disk.exe # "none" /\ ~ExeExists(World)
  /\ app.overlay = "none" /\ ~machine.plays
  /\ disk' = [disk EXCEPT !.exe = "none"]
  /\ UNCHANGED <<config, torrent, app, machine, halfRun, unfair, owned>>

RequestAges ==
  /\ app.pending \in {"new", "stale"}
  /\ app' = [app EXCEPT !.pending = IF @ = "new" THEN "stale" ELSE "late"]
  /\ UNCHANGED <<config, torrent, disk, machine, halfRun, unfair, owned>>

Answered(a) == [a EXCEPT !.pending = "none", !.kicked = FALSE]

\* nextPendingAction: what the poll does about a request
NextPendingAction(w) ==
  LET st == InstallState(w)
      a == w.app
  IN IF torrent = "gone" THEN IF a.pending = "new" THEN "wait" ELSE "timeout"
     ELSE CASE st = "ready" -> "launch"
            [] st = "plays" -> "finish"
            [] st \in {"setup", "failed"} -> "fail"
            [] Done /\ a.pending = "late" /\ st \notin {"ready", "plays"} -> "timeout"
            [] Done /\ ~a.kicked /\ st \notin {"extracting", "installing"} -> "kick"
            [] OTHER -> "wait"

PollPendingInstall ==
  /\ app.pending # "none"
  /\ LET act == NextPendingAction(World)
     IN /\ act # "wait"
        /\ CASE act = "kick" -> Free(app) /\ Become(Install([World EXCEPT !.app.kicked = TRUE]))
             [] act = "launch" -> \E ok \in BOOLEAN :
                                    Become([World EXCEPT !.app = Answered(@), !.machine.plays = ok])
             [] OTHER -> Become([World EXCEPT !.app = Answered(@)])
        /\ unfair' = (unfair \/ (act = "fail" /\ ~app.fresh))
  /\ UNCHANGED <<config, torrent, halfRun, owned>>

Next ==
  \/ TorrentFinishes \/ UserInstalls \/ UserExcludes \/ ExclusionAnswers
  \/ InstallWhenReady \/ CancelInstall \/ UserPicksExe
  \/ TorrentGoes \/ TorrentComesAgain \/ UserDeletesUnpacked \/ Restart
  \/ \E s \in Slots : \/ JobLooks(s) \/ ProbeAnswers(s) \/ FinalAnswers(s)
                      \/ ChainUnpacks(s) \/ ChainEnds(s)
  \/ InstallerEnds \/ PollInstallWatch \/ GameEnds \/ UserUninstalls
  \/ DriveGoesOrComes \/ LibraryShows \/ ForgetGame
  \/ ClearStaleExe \/ RequestAges \/ PollPendingInstall

Spec == Init /\ [][Next]_vars

\* Threads, the extractor and installers end
JobsEnd == \E s \in Slots : JobLooks(s) \/ ProbeAnswers(s) \/ FinalAnswers(s)
ChainsEnd == \E s \in Slots : ChainUnpacks(s) \/ ChainEnds(s)

------------------------------------------------------------------------------
\* The tables hold what they may hold.
TypeOK ==
  /\ torrent \in {"gone", "loads", "done"}
  /\ app.overlay \in {"none", "extracting", "installing", "setup", "failed"}
  /\ app.pending \in {"none", "new", "stale", "late"}
  /\ app.watch \in {"none", "runs"}
  /\ app.jobs \in [Slots -> [kind : {"none", "probe", "final"},
                             sees : {"unseen", "nothing", "game", "setup"}]]
  /\ app.chains \in [Slots -> {"none", "starts", "unpacks"}]
  /\ {app.unpacked, app.kicked, app.exclusion, app.fresh} \subseteq BOOLEAN
  /\ disk \in [arc : BOOLEAN, marker : BOOLEAN, got : {"none", "part", "whole"},
               exe : {"none", "inside", "outside", "picked"}, kept : BOOLEAN]
  /\ machine \in [installers : 0..2, left : {"none", "target", "folder"}, installed : BOOLEAN, away : BOOLEAN, plays : BOOLEAN]

\* At most one copy of the installer runs.
OneInstaller == machine.installers <= 1

\* What a closed or failed unpacking left is never run and never taken for the
\* game (the mark in the folder and m_extracted are there for this).
HalfIsNotRun == ~halfRun

\* What is half unpacked has its mark, so that the next launch knows.
HalfIsMarked == disk.got = "part" => disk.marker

\* A request fails for what happened after it was made.
FailureIsItsOwn == ~unfair

\* While the card says that it unpacks or installs, something does.
CardIsBusy ==
  /\ app.overlay = "extracting" => Busy(app) \/ \E s \in Slots : app.chains[s] # "none"
  /\ app.overlay = "installing" => app.watch = "runs"

\* A game that is installed outlives its torrent in the library.
InLibrary == torrent # "gone" \/ (disk.kept /\ ExeExists(World))
InstalledStays == owned /\ ~machine.away => InLibrary

\* All of this of the installation.
InstallIsSound ==
  /\ TypeOK /\ OneInstaller /\ HalfIsNotRun /\ HalfIsMarked /\ FailureIsItsOwn /\ CardIsBusy
  /\ InstalledStays

\* Not kept by the code: a game that an installer was to bring is called ready only
\* once the installer has brought it.
ReadyIsInstalled ==
  InstallState(World) = "ready" /\ disk.exe = "outside" => machine.installed

\* "Extracting..." ends, one way or the other.
Unpacking == app.overlay = "extracting"
UnpackingEnds == Unpacking ~> ~Unpacking

==============================================================================
