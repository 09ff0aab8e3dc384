------------------------------ MODULE StagedAdds -------------------------------
(***************************************************************************)
(* The Add download window and the magnets that wait in it.  A magnet that *)
(* the user enters is handed to libtorrent in upload mode, outside of the  *)
(* session's list, to fetch its metadata and nothing else (staged).  The   *)
(* window's button promotes it into the list with the user's choices; an   *)
(* entry that leaves the window discards it.  Meanwhile metadata arrives,  *)
(* the same magnet comes in by another way (a link, the clipboard, the web *)
(* page), listed torrents are removed, and libtorrent takes its time to    *)
(* drop a torrent: until then the same hash gives back the dying handle.   *)
(*                                                                         *)
(* Data left out: files, names and paths.  A torrent is its hash.  How a   *)
(* resume file is written is in ResumeStore; here it is there or not.      *)
(***************************************************************************)
EXTENDS Naturals

CONSTANTS
  Hashes,
  MaxRows,  \* bound: rows of one hash that are looked at
  WindowOps \* "overlap": other ways in while the magnet waits in the window;
            \* "hasty": acts before libtorrent has dropped the torrent and before
            \*          the last preview arrived;
            \* "respawn": the engine process is started again behind an open window

VARIABLES
  entry,    \* the window's items: "none", "fetching", "ready" or "dup"
  news,     \* hashes whose stagedPreview is on its way to the window
  staged,   \* m_staged
  rows,     \* how many rows of m_torrents hold the hash's handle
  torrent,  \* libtorrent's torrents
  alert,    \* hashes with a metadata_received_alert that is not processed yet
  saved,    \* the resume file: "no", "magnet" (no metadata) or "full", and its paused flag
  choice    \* history: added and not removed since, what the user chose then, and
            \* whether that was in this run

staging == <<entry, news, staged, rows, torrent, alert, saved, choice>>

\* What the window offers; some: not all of the files
Choices == [added : {TRUE}, paused : BOOLEAN, some : BOOLEAN, now : {TRUE}]
NoChoice == [added |-> FALSE, paused |-> FALSE, some |-> FALSE, now |-> TRUE]
File(what, paused) == [what |-> what, paused |-> paused]
NoFile == File("no", FALSE)
NoTorrent == [state |-> "none", upload |-> FALSE, meta |-> FALSE,
              paused |-> FALSE, some |-> FALSE]

TypeOK ==
  /\ entry \in [Hashes -> {"none", "fetching", "ready", "dup"}]
  /\ news \subseteq Hashes /\ staged \subseteq Hashes /\ alert \subseteq Hashes
  /\ rows \in [Hashes -> 0 .. MaxRows]
  /\ torrent \in [Hashes -> [state : {"none", "live", "dying"}, upload : BOOLEAN,
                             meta : BOOLEAN, paused : BOOLEAN, some : BOOLEAN]]
  /\ saved \in [Hashes -> [what : {"no", "magnet", "full"}, paused : BOOLEAN]]
  /\ choice \in [Hashes -> [added : BOOLEAN, paused : BOOLEAN, some : BOOLEAN, now : BOOLEAN]]

Init ==
  /\ entry = [h \in Hashes |-> "none"] /\ news = {} /\ staged = {} /\ alert = {}
  /\ rows = [h \in Hashes |-> 0]
  /\ torrent = [h \in Hashes |-> NoTorrent]
  /\ saved = [h \in Hashes |-> NoFile]
  /\ choice = [h \in Hashes |-> NoChoice]

-----------------------------------------------------------------------------
(* libtorrent *)

Valid(h) == torrent[h].state # "none"
Live(h) == torrent[h].state = "live"
Settled(h) == "hasty" \in WindowOps \/ (torrent[h].state # "dying" /\ h \notin news)

\* add_torrent: a hash that it still has gives back the handle it has
Added(h, upload) == IF Valid(h) THEN torrent[h]
                    ELSE [NoTorrent EXCEPT !.state = "live", !.upload = upload]

\* remove_torrent returns before the torrent is gone
Dropped(h) == IF Live(h) THEN [torrent[h] EXCEPT !.state = "dying"] ELSE torrent[h]

Dies(h) ==
  /\ torrent[h].state = "dying"
  /\ torrent' = [torrent EXCEPT ![h] = NoTorrent]
  /\ alert' = alert \ {h}     \* its handle names nothing any more
  /\ UNCHANGED <<entry, news, staged, rows, saved, choice>>

MetadataArrives(h) ==
  /\ Live(h) /\ ~torrent[h].meta /\ ~torrent[h].paused
  /\ torrent' = [torrent EXCEPT ![h].meta = TRUE]
  /\ alert' = alert \cup {h}
  /\ UNCHANGED <<entry, news, staged, rows, saved, choice>>

-----------------------------------------------------------------------------
(* The session *)

\* isDuplicate asks the list, not libtorrent
IsDuplicate(h) == rows[h] > 0 /\ Valid(h)

Listed(h) == rows' = [rows EXCEPT ![h] = @ + 1]

\* Mutant: a metadata alert is handled before the window is asked.
OnMetadataAlertOfAny(h) ==
  /\ h \in alert
  /\ alert' = alert \ {h}
  /\ news' = IF h \in staged THEN news \cup {h} ELSE news
  /\ saved' = IF Live(h) THEN [saved EXCEPT ![h] = File("full", torrent[h].paused)] ELSE saved
  /\ UNCHANGED <<entry, staged, rows, torrent, choice>>

\* A staged torrent's metadata goes to the window; any other is put in order
\* (.!bt names, a private torrent's flags, the scan) and saved.
OnMetadataAlert(h) ==
  /\ h \in alert
  /\ alert' = alert \ {h}
  /\ news' = IF h \in staged /\ Valid(h) THEN news \cup {h} ELSE news
  /\ saved' = IF h \notin staged /\ Live(h) THEN [saved EXCEPT ![h] = File("full", torrent[h].paused)] ELSE saved
  /\ UNCHANGED <<entry, staged, rows, torrent, choice>>

StageMagnet(h) ==
  /\ IF IsDuplicate(h) \/ h \in staged
       THEN UNCHANGED <<staged, torrent>>
       ELSE /\ staged' = staged \cup {h}
            /\ torrent' = [torrent EXCEPT ![h] = Added(h, TRUE)]
  /\ news' = IF ~IsDuplicate(h) /\ h \in staged /\ torrent[h].meta THEN news \cup {h} ELSE news

DiscardStaged(h) ==
  /\ staged' = staged \ {h}
  /\ torrent' = IF h \in staged THEN [torrent EXCEPT ![h] = Dropped(h)] ELSE torrent

\* addMagnet, then pauseTorrent when the window said so
AddMagnetWith(h, paused) ==
  IF IsDuplicate(h)
    THEN UNCHANGED <<rows, torrent, saved>>
    ELSE /\ torrent' = [torrent EXCEPT ![h] = [Added(h, FALSE) EXCEPT !.paused = paused]]
         /\ Listed(h)
         /\ saved' = [saved EXCEPT ![h] = File("magnet", paused)]

\* Mutant: the metadata that came while the magnet waited is not put in order.
PromoteUnhandled(h, opts) ==
  /\ torrent' = [torrent EXCEPT ![h].upload = FALSE, ![h].paused = opts.paused,
                                ![h].some = torrent[h].meta /\ opts.some]
  /\ Listed(h)
  /\ saved' = [saved EXCEPT ![h] = File("magnet", TRUE)]

\* Mutant: the torrent is listed as it waited.
PromoteAsItWaited(h, opts) ==
  /\ Listed(h)
  /\ saved' = [saved EXCEPT ![h] = IF torrent[h].meta THEN File("full", opts.paused)
                                                     ELSE File("magnet", TRUE)]
  /\ UNCHANGED torrent

\* The waiting torrent is promoted as it is.  Without metadata the file is written
\* from the link, which libtorrent parses into a paused torrent.
Promote(h, opts) ==
  /\ torrent' = [torrent EXCEPT ![h].upload = FALSE, ![h].paused = opts.paused,
                                ![h].some = torrent[h].meta /\ opts.some]
  /\ Listed(h)
  /\ saved' = [saved EXCEPT ![h] = IF ~torrent[h].meta THEN File("magnet", TRUE)
                                   ELSE IF Live(h) THEN File("full", opts.paused) ELSE @]

CommitStaged(h, opts) ==
  /\ staged' = staged \ {h}
  /\ IF h \notin staged THEN UNCHANGED <<rows, torrent, saved>>
     ELSE IF Valid(h) THEN Promote(h, opts) ELSE AddMagnetWith(h, opts.paused)

-----------------------------------------------------------------------------
(* The window *)

Enter(h) ==
  /\ entry[h] = "none" /\ Settled(h)
  /\ entry' = [entry EXCEPT ![h] = IF rows[h] > 0 THEN "dup" ELSE "fetching"]
  /\ IF rows[h] > 0 THEN UNCHANGED <<staged, torrent, news>> ELSE StageMagnet(h)
  /\ UNCHANGED <<rows, alert, saved, choice>>

\* Mutant: an entry whose preview came leaves its magnet with libtorrent.
LeaveReady(h) ==
  /\ entry[h] # "none"
  /\ entry' = [entry EXCEPT ![h] = "none"]
  /\ IF entry[h] = "fetching" THEN DiscardStaged(h) ELSE UNCHANGED <<staged, torrent>>
  /\ UNCHANGED <<news, rows, alert, saved, choice>>

\* An entry is taken out, its line is deleted, or the window is closed
Leave(h) ==
  /\ entry[h] # "none"
  /\ entry' = [entry EXCEPT ![h] = "none"]
  /\ IF entry[h] # "dup" THEN DiscardStaged(h) ELSE UNCHANGED <<staged, torrent>>
  /\ UNCHANGED <<news, rows, alert, saved, choice>>

OnStagedPreview(h) ==
  /\ h \in news
  /\ news' = news \ {h}
  /\ entry' = [entry EXCEPT ![h] = IF @ = "none" THEN @
                                   ELSE IF rows[h] > 0 THEN "dup" ELSE "ready"]
  /\ UNCHANGED <<staged, rows, torrent, alert, saved, choice>>

\* The button acts on every entry; hashes do not meet, so an entry is a step.
\* Files are chosen from a preview.
Commit(h) ==
  \E opts \in Choices :
    /\ entry[h] \in {"fetching", "ready"} /\ Settled(h)
    /\ opts.some => entry[h] = "ready"
    /\ rows[h] < MaxRows
    /\ entry' = [entry EXCEPT ![h] = "none"]
    /\ CommitStaged(h, opts)
    /\ choice' = [choice EXCEPT ![h] = opts]
    /\ UNCHANGED <<news, alert>>

-----------------------------------------------------------------------------
(* Around the window *)

AddMagnet(h) ==
  /\ Settled(h) /\ rows[h] < MaxRows
  /\ "overlap" \in WindowOps \/ h \notin staged
  /\ AddMagnetWith(h, FALSE)
  /\ choice' = IF IsDuplicate(h) THEN choice
               ELSE [choice EXCEPT ![h] = [NoChoice EXCEPT !.added = TRUE]]
  /\ UNCHANGED <<entry, news, staged, alert>>

RemoveTorrent(h) ==
  /\ rows[h] > 0
  /\ rows' = [rows EXCEPT ![h] = @ - 1]
  /\ torrent' = [torrent EXCEPT ![h] = Dropped(h)]
  /\ saved' = [saved EXCEPT ![h] = NoFile]
  /\ choice' = [choice EXCEPT ![h] = NoChoice]
  /\ UNCHANGED <<entry, news, staged, alert>>

\* What is saved is loaded.  The window ends with the app, not with the engine.
Restart ==
  /\ entry' \in {[h \in Hashes |-> "none"]} \cup {e \in {entry} : "respawn" \in WindowOps}
  /\ rows' = [h \in Hashes |-> IF saved[h].what = "no" THEN 0 ELSE 1]
  /\ torrent' = [h \in Hashes |->
       IF saved[h].what = "no" THEN NoTorrent
       ELSE [NoTorrent EXCEPT !.state = "live", !.meta = saved[h].what = "full",
                              !.paused = saved[h].paused, !.some = torrent[h].some]]
  /\ staged' = {} /\ alert' = {} /\ news' = {}
  /\ choice' = [h \in Hashes |-> [choice[h] EXCEPT !.now = FALSE]]
  /\ UNCHANGED saved

Next ==
  \/ \E h \in Hashes :
       \/ Dies(h) \/ MetadataArrives(h) \/ OnMetadataAlert(h) \/ OnStagedPreview(h)
       \/ Enter(h) \/ Leave(h) \/ Commit(h) \/ AddMagnet(h) \/ RemoveTorrent(h)
  \/ Restart

Spec == Init /\ [][Next]_staging

-----------------------------------------------------------------------------
(* Properties *)

\* A magnet that was added, from the window with or without its metadata or by
\* another way, is in the list once, alive and out of upload mode, and in a resume
\* file; until the program is closed it is started or not, and with all files or
\* some, as the user chose.
IsAsChosen(h) ==
  choice[h].added =>
    /\ rows[h] = 1
    /\ Live(h) /\ ~torrent[h].upload
    /\ saved[h].what # "no"
    /\ choice[h].now => /\ torrent[h].paused = choice[h].paused
                        /\ torrent[h].some = choice[h].some
AddedAsChosen == \A h \in Hashes : IsAsChosen(h)

\* Whenever the metadata comes, before the button, after it, or between libtorrent's
\* receipt and the session's alert, a listed torrent ends up put in order and saved.
IsHandled(h) == rows[h] > 0 /\ torrent[h].meta /\ h \notin alert => saved[h].what = "full"
MetadataIsHandled == \A h \in Hashes : IsHandled(h)

\* A magnet that waits or was discarded downloads nothing, is in no list and
\* does not come back after a restart.
WaitingLeavesNoTrace ==
  \A h \in Hashes : ~choice[h].added =>
    /\ rows[h] = 0 /\ saved[h].what = "no"
    /\ Live(h) => torrent[h].upload

\* libtorrent keeps no magnet that neither the list nor the window knows.
NothingIsLeftBehind ==
  \A h \in Hashes : Live(h) => rows[h] > 0 \/ (h \in staged /\ entry[h] # "none")

\* What waits and what was added, in every state
WindowIsHonest ==
  TypeOK /\ AddedAsChosen /\ MetadataIsHandled /\ WaitingLeavesNoTrace /\ NothingIsLeftBehind

\* Not kept by the code: no hash is listed twice.
ListedOnce == \A h \in Hashes : rows[h] <= 1

\* Not kept by the code: a magnet that was added to be started is started again with
\* the program.
StartsAgain == \A h \in Hashes : choice[h].added /\ Live(h) => torrent[h].paused = choice[h].paused

-----------------------------------------------------------------------------
(* Why the window is honest: what every step keeps of each hash, for WindowOps = {} *)

\* The session holds for the window what an entry waits for, and nothing of the list.
EntryIsStaged(h) ==
  /\ entry[h] \in {"fetching", "ready"} <=> h \in staged
  /\ h \in staged => Live(h) /\ torrent[h].upload /\ rows[h] = 0

\* What is said of metadata is so, and is said only to an entry that waits or is gone.
NewsAreTrue(h) ==
  /\ h \in alert \/ entry[h] = "ready" => torrent[h].meta
  /\ torrent[h].meta => Valid(h)
  /\ h \in news => /\ rows[h] = 0 /\ entry[h] # "dup"
                   /\ entry[h] # "none" => torrent[h].meta

\* Added, listed and saved are one, and what lives is listed or staged.
AddedIsSaved(h) ==
  /\ rows[h] <= 1
  /\ choice[h].added <=> rows[h] = 1
  /\ saved[h].what # "no" <=> rows[h] = 1
  /\ Live(h) /\ rows[h] = 0 => h \in staged

HashInv(h) ==
  EntryIsStaged(h) /\ NewsAreTrue(h) /\ AddedIsSaved(h) /\ IsAsChosen(h) /\ IsHandled(h)

WindowInv == TypeOK /\ \A h \in Hashes : HashInv(h)
=============================================================================
