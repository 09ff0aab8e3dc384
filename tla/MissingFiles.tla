----------------------------- MODULE MissingFiles ------------------------------
(***************************************************************************)
(* The search for torrents whose data is gone from disk.  The session's    *)
(* timer takes down where each torrent keeps its data, a thread looks      *)
(* there, and its answer is acted upon later, on the session's thread.  A  *)
(* torrent that two answers in a row miss is flagged and, if the setting   *)
(* says so, paused, once: when the user resumes it the search leaves it    *)
(* alone until its data was there again.  Meanwhile the data is moved, a   *)
(* drive goes and comes back, the user pauses, resumes, removes and adds.  *)
(*                                                                         *)
(* Data left out: names and their variants.  What is looked at is a place. *)
(* Torrents do not meet but in the list that the thread is given, so some  *)
(* of the list is enough: the rest is the case that there is something to  *)
(* look at although none of these needs it.                                *)
(***************************************************************************)
EXTENDS FiniteSets, Naturals

CONSTANTS
  Torrents,
  Places,
  ProbeOps  \* "readd": a torrent is removed and added while the thread looks
            \* "slow": a look takes as long as the time between two searches

VARIABLES
  data,      \* where the data of a torrent is: a place, or "gone"
  path,      \* libtorrent's save path
  listed,    \* torrents in m_torrents
  held,      \* torrents that are paused
  written,   \* torrents with total_wanted_done > 0
  cached,    \* m_statusCache: the path and the pause of a torrent
  fresh,     \* a state update came since the last answer: they come every second, and
             \* searches begin ten seconds apart
  looking,   \* the thread: what is left to look at, as torrent -> path, or idle
  notFound,  \* what the thread did not find
  flagged,   \* m_missingHashes
  seen,      \* m_missingSeen
  acted,     \* m_missingPaused
  setting,   \* m_pauseOnMissingData
  wasGone,   \* history: torrents whose data was gone at some moment since they were added
             \* and since it was there when they were last looked at
  user       \* history, for torrents that the search paused and whose data was not there
             \* since: "stopped", or "resumed" when the user resumed it; the same with
             \* "Before" when the setting was switched off since; else "-"

disk == <<data, path>>
status == <<listed, held, written, cached, fresh>>
thread == <<looking, notFound>>
verdict == <<flagged, seen, acted>>
missing == <<disk, status, thread, verdict, setting, wasGone, user>>

Idle == [on |-> FALSE, at |-> <<>>]
Snapshots == UNION {[S -> Places] : S \in SUBSET Torrents}

TypeOK ==
  /\ data \in [Torrents -> Places \cup {"gone"}] /\ path \in [Torrents -> Places]
  /\ cached \in [Torrents -> [path : Places, held : BOOLEAN]]
  /\ {listed, held, written, notFound, flagged, seen, acted, wasGone} \subseteq SUBSET Torrents
  /\ looking \in [on : BOOLEAN, at : Snapshots]
  /\ {fresh, setting} \subseteq BOOLEAN
  /\ user \in [Torrents -> {"-", "stopped", "resumed", "stoppedBefore", "resumedBefore"}]

\* A launch: what was downloaded and is gone loads paused and flagged, if the
\* setting says so.
Init ==
  /\ path \in [Torrents -> Places]
  /\ written \in SUBSET Torrents
  /\ \E gone \in SUBSET written :
       /\ data = [t \in Torrents |-> IF t \in gone THEN "gone" ELSE path[t]]
       /\ setting \in BOOLEAN
       /\ held = IF setting THEN gone ELSE {}
       /\ flagged = held /\ seen = held /\ acted = held
       /\ wasGone = gone
  /\ listed = Torrents
  /\ cached = [t \in Torrents |-> [path |-> path[t], held |-> t \in held]]
  /\ fresh = TRUE
  /\ looking = Idle /\ notFound = {}
  /\ user = [t \in Torrents |-> IF t \in held THEN "stopped" ELSE "-"]

-----------------------------------------------------------------------------
(* The disk, libtorrent and the user *)

DataVanishes(t) ==
  /\ t \in written /\ data[t] # "gone"
  /\ data' = [data EXCEPT ![t] = "gone"]
  /\ wasGone' = wasGone \cup {t}
  /\ UNCHANGED <<path, status, thread, verdict, setting, user>>

\* The drive is back, or libtorrent downloads it again
DataReturns(t) ==
  /\ data[t] = "gone"
  /\ data' = [data EXCEPT ![t] = path[t]]
  /\ user' = [user EXCEPT ![t] = "-"]
  /\ UNCHANGED <<path, status, thread, verdict, setting, wasGone>>

\* move_storage: the status says so with the next update.  Two moves of a torrent are
\* further apart than two searches.
Move(t, place) ==
  /\ t \in listed /\ data[t] # "gone" /\ place # path[t]
  /\ t \notin seen \cup notFound
  /\ path' = [path EXCEPT ![t] = place]
  /\ data' = [data EXCEPT ![t] = place]
  /\ UNCHANGED <<status, thread, verdict, setting, wasGone, user>>

FirstBytes(t) ==
  /\ t \in listed \ (written \cup held)
  /\ written' = written \cup {t}
  /\ data' = [data EXCEPT ![t] = path[t]]
  /\ UNCHANGED <<path, listed, held, cached, fresh, thread, verdict, setting, wasGone, user>>

StateUpdate ==
  /\ cached' = [t \in Torrents |-> [path |-> path[t], held |-> t \in held]]
  /\ fresh' = TRUE
  /\ UNCHANGED <<disk, listed, held, written, thread, verdict, setting, wasGone, user>>

UserPauses(t) ==
  /\ t \in listed \ held
  /\ held' = held \cup {t}
  /\ UNCHANGED <<disk, listed, written, cached, fresh, thread, verdict, setting, wasGone, user>>

UserResumes(t) ==
  /\ t \in listed \cap held
  /\ held' = held \ {t}
  /\ user' = [user EXCEPT ![t] = CASE @ = "stopped" -> "resumed"
                                       [] @ = "stoppedBefore" -> "resumedBefore"
                                       [] OTHER -> @]
  /\ UNCHANGED <<disk, listed, written, cached, fresh, thread, verdict, setting, wasGone>>

\* Nothing of the search's is cleared
Remove(t) ==
  /\ t \in listed
  /\ listed' = listed \ {t}
  /\ held' = held \ {t} /\ written' = written \ {t}
  /\ user' = [user EXCEPT ![t] = "-"]
  /\ UNCHANGED <<disk, cached, fresh, thread, verdict, setting, wasGone>>

\* A torrent without a status in the cache is asked for it
Add(t, place) ==
  /\ t \notin listed
  /\ "readd" \in ProbeOps \/ ~looking.on
  /\ listed' = listed \cup {t}
  /\ path' = [path EXCEPT ![t] = place] /\ data' = [data EXCEPT ![t] = place]
  /\ cached' = [cached EXCEPT ![t] = [path |-> place, held |-> FALSE]]
  /\ wasGone' = wasGone \ {t}
  /\ UNCHANGED <<held, written, fresh, thread, verdict, setting, user>>

\* Switched off, the search forgets what it paused
SetPauseOnMissingData ==
  /\ setting' = ~setting
  /\ acted' = IF setting' THEN acted ELSE {}
  /\ user' = [t \in Torrents |-> CASE setting /\ user[t] = "stopped" -> "stoppedBefore"
                                   [] setting /\ user[t] = "resumed" -> "resumedBefore"
                                   [] OTHER -> user[t]]
  /\ UNCHANGED <<disk, status, thread, flagged, seen, wasGone>>

-----------------------------------------------------------------------------
(* The search *)

\* What is worth a look, and where: read on the session's thread
Suspects == listed \cap written

CheckMissingFiles ==
  /\ ~looking.on /\ fresh
  /\ notFound' = {}
  /\ \/ /\ Suspects = {}
        /\ flagged' = {} /\ seen' = {}
        /\ UNCHANGED looking
     \/ \* something is worth a look: one of these, or a torrent outside of them
        /\ looking' = [on |-> TRUE, at |-> [t \in Suspects |-> cached[t].path]]
        /\ UNCHANGED <<flagged, seen>>
  /\ UNCHANGED <<disk, status, acted, setting, wasGone, user>>

\* The thread looks at one torrent after the other
ContentPresent(t) ==
  /\ t \in DOMAIN looking.at
  /\ looking' = [looking EXCEPT !.at = [u \in DOMAIN @ \ {t} |-> @[u]]]
  /\ notFound' = IF data[t] = looking.at[t] THEN notFound ELSE notFound \cup {t}
  /\ wasGone' = IF data[t] = "gone" THEN wasGone ELSE wasGone \ {t}
  /\ UNCHANGED <<disk, status, verdict, setting, user>>

\* Mutant: one answer is believed.
ConfirmedAtOnce == notFound

Confirmed == notFound \cap seen

\* Mutant: a torrent that was paused once is paused again.
PausedNowAlways == {t \in Confirmed \cap listed : ~cached[t].held}

\* pauseMissing: what it stops
PausedNow == {t \in Confirmed \cap listed : ~cached[t].held} \ acted

\* Mutant: the answer is merged into what is flagged.
AnswerMerged ==
  /\ looking.on /\ looking.at = <<>>
  /\ looking' = Idle
  /\ seen' = notFound /\ flagged' = flagged \cup Confirmed
  /\ held' = IF setting THEN held \cup PausedNow ELSE held
  /\ acted' = (acted \cap Confirmed) \cup IF setting THEN PausedNow ELSE {}
  /\ fresh' = ("slow" \in ProbeOps)
  /\ user' = [t \in Torrents |-> IF t \in held' \ held /\ data[t] = "gone" THEN "stopped" ELSE user[t]]
  /\ UNCHANGED <<disk, listed, written, cached, notFound, setting, wasGone>>

Answer ==
  /\ looking.on /\ looking.at = <<>>
  /\ looking' = Idle
  /\ seen' = notFound /\ flagged' = Confirmed
  /\ held' = IF setting THEN held \cup PausedNow ELSE held
  /\ acted' = (acted \cap Confirmed) \cup IF setting THEN PausedNow ELSE {}
  /\ fresh' = ("slow" \in ProbeOps)
  /\ user' = [t \in Torrents |-> IF t \in held' \ held /\ data[t] = "gone" THEN "stopped" ELSE user[t]]
  /\ UNCHANGED <<disk, listed, written, cached, notFound, setting, wasGone>>

Next ==
  \/ \E t \in Torrents :
       \/ DataVanishes(t) \/ DataReturns(t) \/ FirstBytes(t)
       \/ UserPauses(t) \/ UserResumes(t) \/ Remove(t) \/ ContentPresent(t)
       \/ \E place \in Places : Move(t, place) \/ Add(t, place)
  \/ StateUpdate \/ SetPauseOnMissingData \/ CheckMissingFiles \/ Answer

Searches == CheckMissingFiles \/ Answer \/ \E t \in Torrents : ContentPresent(t)

\* Updates come every second, and the thread looks and answers.
Fairness == WF_missing(StateUpdate) /\ WF_missing(Searches)

Spec == Init /\ [][Next]_missing /\ Fairness

-----------------------------------------------------------------------------
(* Properties *)

\* The search stops no torrent whose data was there at the last look and since,
\* whatever was moved while it looked or while the status was old.
PausesTheGone == Answer => held' \ held \subseteq wasGone
PausesOnlyTheGone == [][PausesTheGone]_missing

\* A torrent that the user resumed after the search paused it is left alone until
\* its data was there again.
ResumeIsNotFought == Answer => \A t \in held' \ held : user[t] # "resumed"

\* What is gone is flagged, and what is back is not flagged for good.
Unflagged(t) == t \in Suspects \ flagged /\ data[t] = "gone"
StillFlagged(t) == t \in flagged /\ data[t] = path[t]
FlagFollows ==
  \A t \in Torrents : (Unflagged(t) ~> ~Unflagged(t)) /\ (StillFlagged(t) ~> ~StillFlagged(t))

\* The search acts on what is gone and leaves the user's decisions alone.
SearchStep == PausesTheGone /\ ResumeIsNotFought
SearchIsFair == []TypeOK /\ [][SearchStep]_missing

\* Not kept by the code: nor is it paused again when the setting was off in between.
SettingIsNotFought ==
  [][Answer => \A t \in held' \ held : user[t] \notin {"resumed", "resumedBefore"}]_missing

-----------------------------------------------------------------------------
(* Why it is fair: what every step keeps, while no torrent is added during a look *)
(* and an update comes before the next one                                        *)

\* Data that is there is in the torrent's folder, and data that is gone was gone.
DataIsInPlace ==
  \A t \in Torrents : (data[t] = "gone" /\ t \in wasGone) \/ data[t] = path[t]

\* Where a torrent is looked for that was missed before: it has not moved since.
MissedIsLookedForInPlace ==
  \A t \in seen :
    /\ ~looking.on /\ fresh => cached[t].path = path[t]
    /\ looking.on /\ t \in DOMAIN looking.at => looking.at[t] = path[t]

\* One answer: each torrent is looked at once, and is still one with data or not listed;
\* what two answers in a row miss was gone.
LookIsOnce ==
  looking.on =>
    /\ DOMAIN looking.at \cap notFound = {}
    /\ (DOMAIN looking.at \cup notFound) \cap listed \subseteq written
    /\ notFound \cap seen \subseteq wasGone

\* A torrent that the search paused, and whose data has not come back, is missed by
\* every answer and remembered as paused.
PausedIsRemembered ==
  \A t \in Torrents : user[t] \in {"stopped", "resumed"} =>
    /\ t \in listed \cap written \cap seen \cap acted
    /\ data[t] = "gone"
    /\ looking.on => t \in DOMAIN looking.at \cup notFound

SearchInv ==
  /\ TypeOK
  /\ DataIsInPlace /\ MissedIsLookedForInPlace /\ LookIsOnce /\ PausedIsRemembered
=============================================================================
