------------------------------ MODULE Updates ------------------------------
(***************************************************************************)
(* Looking for a newer version, telling of it, fetching its installer and  *)
(* starting it.  Checks may overlap, and one updater serves them all: what *)
(* the last answer said is what a download is weighed against.             *)
(*                                                                         *)
(* A release is a version, beta numbers included, and what its asset is.   *)
(***************************************************************************)
EXTENDS Naturals, Sequences, FiniteSets

CONSTANTS
  Releases,     \* [base, pre, size]: pre is 0 for a final release, size 0 unknown
  FirstApp,     \* the release that runs at first
  MaxChecks, MaxRuns,
  UpdateOps     \* odd cases: "idle"

VARIABLES
  mirror,       \* what is published
  track,        \* updateTrack: FALSE is stable, TRUE is beta
  app,          \* the release that runs, and how often one was started
  checks,       \* the replies that are awaited, by number
  silent,       \* m_silent
  latest,       \* m_latestVersion and m_expectedSize
  status,       \* lastUpdateStatus and lastUpdateLatest, which outlive the run
  noticed,      \* updateNoticeFor
  dialog,       \* the window: open, the release offered, downloading, an error
  downloads,    \* the releases being fetched
  launched,     \* history: the installer that was started, and what had come for it
  manual,       \* history: checks the user asked for, and those that were shown
  sizeless      \* history: an answer gave no size

vars == <<mirror, track, app, checks, silent, latest, status, noticed, dialog, downloads,
          launched, manual, sizeless>>

None == [base |-> 0, pre |-> 0, size |-> 0]

\* compareVersions: a beta is less than its release, and betas go by their
\* letters, as words do
Digits(n) == IF n < 10 THEN <<n>> ELSE <<n \div 10, n % 10>>
WordLess(v, w) ==
  \/ \E i \in 1..Len(w) : /\ i <= Len(v) => v[i] < w[i]
                          /\ i <= Len(v) + 1
                          /\ \A j \in 1..(i - 1) : v[j] = w[j]
PreLess(m, n) == IF m = 0 THEN FALSE ELSE IF n = 0 THEN TRUE
                 ELSE WordLess(Digits(m), Digits(n))
VersionLess(v, w) == v.base < w.base \/ (v.base = w.base /\ PreLess(v.pre, w.pre))

\* pickRelease: the highest of those that may be offered
Usable(rs, beta) == {r \in rs : beta \/ r.pre = 0}
Picked(rs, beta) == LET us == Usable(rs, beta)
                    IN IF us = {} THEN None
                       ELSE CHOOSE r \in us : \A s \in us : ~VersionLess(r, s)

Closed == [open |-> FALSE, of |-> None, downloading |-> FALSE, error |-> FALSE]

Init ==
  /\ mirror = {FirstApp} /\ track \in BOOLEAN
  /\ app = [of |-> FirstApp, runs |-> 1, on |-> TRUE]
  /\ checks = {1} /\ silent = TRUE
  /\ latest = None
  /\ status = [is |-> "checking", of |-> None]
  /\ noticed = None /\ dialog = Closed /\ downloads = {}
  /\ launched = [of |-> None, came |-> "whole"]
  /\ manual = [asked |-> {}, shown |-> {}, n |-> 1]
  /\ sizeless = FALSE

------------------------------------------------------------------------------
Publish(r) ==
  /\ r \notin mirror
  /\ mirror' = mirror \cup {r}
  /\ UNCHANGED <<track, app, checks, silent, latest, status, noticed, dialog, downloads,
                 launched, manual, sizeless>>

SetTrack ==
  /\ app.on
  /\ track' = ~track
  /\ UNCHANGED <<mirror, app, checks, silent, latest, status, noticed, dialog, downloads,
                 launched, manual, sizeless>>

\* An answer is shown to whoever asked: noteNone and showNone
SaysNone(quiet) ==
  /\ status' = [is |-> "current", of |-> app.of]
  /\ dialog' = IF quiet THEN dialog ELSE [Closed EXCEPT !.open = TRUE]
  /\ UNCHANGED noticed

\* check and checkForUpdate, as the user asks for it.  The window is modal while
\* it downloads, the menu is not
UserChecks ==
  LET n == manual.n + 1
  IN /\ app.on /\ n <= MaxChecks
     /\ silent' = FALSE
     /\ \/ /\ checks' = checks \cup {n}
           /\ status' = [status EXCEPT !.is = "checking"]
           /\ manual' = [manual EXCEPT !.n = n, !.asked = @ \cup {n}]
           /\ UNCHANGED <<dialog, noticed>>
        \/ /\ SaysNone(FALSE)                       \* the channel is "disabled"
           /\ manual' = [manual EXCEPT !.n = n]
           /\ UNCHANGED checks
     /\ UNCHANGED <<mirror, track, app, latest, downloads, launched, sizeless>>

\* errorOccurred: only a check that was looked for is noted, and the window says so
Error ==
  /\ status' = IF status.is = "checking" THEN [status EXCEPT !.is = "failed"] ELSE status
  /\ dialog' = IF ~silent \/ dialog.open
               THEN [dialog EXCEPT !.downloading = FALSE, !.error = TRUE, !.open = TRUE]
               ELSE dialog

Fails(n) == Error /\ manual' = [manual EXCEPT !.shown = IF silent THEN @ ELSE @ \cup {n}]

CheckFails(n) ==
  /\ checks' = checks \ {n}
  /\ Fails(n)
  /\ UNCHANGED <<mirror, track, app, silent, latest, noticed, downloads, launched, sizeless>>

\* A newer release without an asset for this platform: the window gets an error, and
\* a download under way is weighed against the size of before
NoAsset(n) ==
  LET r == Picked(mirror, track)
  IN /\ r # None /\ VersionLess(app.of, r)
     /\ checks' = checks \ {n}
     /\ latest' = [r EXCEPT !.size = latest.size]
     /\ Fails(n)
     /\ UNCHANGED <<mirror, track, app, silent, noticed, downloads, launched, sizeless>>

\* parseReleaseInfo, noteFound and onUpdateFound
Answer(n) ==
  LET r == Picked(mirror, track)
      newer == VersionLess(app.of, r)
  IN /\ checks' = checks \ {n}
     /\ manual' = [manual EXCEPT !.shown = IF silent THEN @ ELSE @ \cup {n}]
     /\ IF r = None \/ ~newer
        THEN /\ latest' = IF r = None THEN latest ELSE [r EXCEPT !.size = latest.size]
             /\ SaysNone(silent) /\ UNCHANGED sizeless
        ELSE /\ latest' = r
             /\ sizeless' = (sizeless \/ r.size = 0)
             /\ status' = [is |-> "available", of |-> r]
             /\ dialog' = [open |-> dialog.open \/ ~silent, of |-> r,
                           downloading |-> FALSE, error |-> FALSE]
             /\ noticed' = IF silent THEN r ELSE noticed
     /\ UNCHANGED <<mirror, track, app, silent, downloads, launched>>

CheckEnds(n) == app.on /\ n \in checks /\ (Answer(n) \/ NoAsset(n) \/ CheckFails(n))

UserOpens ==
  /\ app.on /\ ~dialog.open
  /\ dialog' = [dialog EXCEPT !.open = TRUE]
  /\ UNCHANGED <<mirror, track, app, checks, silent, latest, status, noticed, downloads,
                 launched, manual, sizeless>>

UserCloses ==
  /\ dialog.open /\ ~dialog.downloading
  /\ dialog' = [dialog EXCEPT !.open = FALSE]
  /\ UNCHANGED <<mirror, track, app, checks, silent, latest, status, noticed, downloads,
                 launched, manual, sizeless>>

\* Install: downloadAndInstall
Install ==
  /\ app.on /\ dialog.open /\ dialog.of # None /\ ~dialog.downloading
  /\ dialog' = [dialog EXCEPT !.downloading = TRUE, !.error = FALSE]
  /\ downloads' = downloads \cup {dialog.of}
  /\ UNCHANGED <<mirror, track, app, checks, silent, latest, status, noticed, launched,
                 manual, sizeless>>

\* onDownloadFinished and launchUpdaterScript: what came is of the size that the last
\* answer gave, whatever its content, or goes; the script may fail to be written
DownloadEnds(r) ==
  /\ app.on
  /\ downloads' = downloads \ {r}
  /\ \E came \in {"failed", "whole", "alike", "other"} :
       LET fits == latest.size = 0 \/ (came \in {"whole", "alike"} /\ r.size = latest.size)
       IN \/ /\ came # "failed" /\ fits
             /\ launched' = [of |-> r, came |-> came]
             /\ app' = [app EXCEPT !.on = FALSE]
             /\ UNCHANGED <<dialog, status>>
          \/ Error /\ UNCHANGED <<launched, app>>
  /\ UNCHANGED <<mirror, track, checks, silent, latest, noticed, manual, sizeless>>

\* The next start: what an installer left, and the check made then
Restart(autoCheck) ==
  LET n == manual.n + 1
  IN /\ app.runs < MaxRuns
     /\ autoCheck => n <= MaxChecks
     /\ app' = [of |-> IF ~app.on /\ launched.came = "whole" THEN launched.of ELSE app.of,
                runs |-> app.runs + 1, on |-> TRUE]
     /\ checks' = (IF autoCheck THEN {n} ELSE {}) /\ silent' = autoCheck
     /\ manual' = [asked |-> {}, shown |-> {}, n |-> IF autoCheck THEN n ELSE manual.n]
     /\ latest' = None
     /\ dialog' = Closed /\ downloads' = {}
     /\ status' = IF autoCheck THEN [status EXCEPT !.is = "checking"]
                  ELSE IF status.is = "checking" THEN [status EXCEPT !.is = "never"] ELSE status
     /\ UNCHANGED <<mirror, track, noticed, launched, sizeless>>

Next ==
  \/ \E r \in Releases : Publish(r)
  \/ SetTrack \/ UserChecks
  \/ \E n \in 1..MaxChecks : CheckEnds(n)
  \/ UserOpens \/ UserCloses \/ Install
  \/ \E r \in downloads : DownloadEnds(r)
  \/ Restart(TRUE)
  \/ ("idle" \in UpdateOps \/ app.on) /\ Restart(FALSE)

Spec == Init /\ [][Next]_vars

------------------------------------------------------------------------------
TypeOK ==
  /\ mirror \subseteq Releases /\ track \in BOOLEAN
  /\ app \in [of : Releases, runs : 1..MaxRuns, on : BOOLEAN]
  /\ checks \subseteq 1..MaxChecks /\ silent \in BOOLEAN
  /\ status.is \in {"never", "checking", "failed", "available", "current"}
  /\ downloads \subseteq Releases

\* What is started has the size of the release that was offered, unless a mirror told
\* no size, and is newer than what runs.  (The code compares nothing but the size.)
InstallerFits ==
  ~app.on => /\ launched.came # "other" \/ sizeless
             /\ VersionLess(app.of, launched.of)

\* A check that was asked for is answered in the window, whatever other check
\* was under way
AskedIsShown == \A n \in manual.asked : n \in checks \/ n \in manual.shown

\* "Available" is said of what is newer than what runs
StatusIsTrue == status.is = "available" => VersionLess(app.of, status.of)

\* Of two betas of a version the one with the higher number is picked
NewestIsPicked ==
  LET r == Picked(mirror, track)
  IN \A s \in Usable(mirror, track) : s.base = r.base /\ s.pre # 0 /\ r.pre # 0 => s.pre <= r.pre

UpdatesAreSound == InstallerFits /\ AskedIsShown /\ StatusIsTrue
=============================================================================
