---------------------------- MODULE TorrentLibrary ----------------------------
(***************************************************************************)
(* What the user is promised about the list of torrents: a torrent that is *)
(* added may be stored at any time and stays stored until it is removed; a *)
(* removed torrent is no longer stored; and a run of the program starts    *)
(* with the stored torrents (or with none, after a start that crashed).    *)
(***************************************************************************)
CONSTANT Torrents

VARIABLES up, listed, stored

vars == <<up, listed, stored>>

Init == up = FALSE /\ listed = {} /\ stored \in SUBSET Torrents

Start ==
  /\ ~up
  /\ up' = TRUE
  /\ listed' \in {stored, {}}
  /\ UNCHANGED stored

\* A torrent may be stored by the addition itself.
Add(t) ==
  /\ up
  /\ t \notin listed
  /\ listed' = listed \cup {t}
  /\ stored' \in {stored, stored \cup {t}}
  /\ UNCHANGED up

Store(t) ==
  /\ up
  /\ t \in listed
  /\ stored' = stored \cup {t}
  /\ UNCHANGED <<up, listed>>

Remove(t) ==
  /\ up
  /\ t \in listed
  /\ listed' = listed \ {t}
  /\ stored' = stored \ {t}
  /\ UNCHANGED up

\* A crash, or a shutdown that runs out of time
Crash == up /\ up' = FALSE /\ listed' = {} /\ UNCHANGED stored

Next == Start \/ Crash \/ \E t \in Torrents : Add(t) \/ Store(t) \/ Remove(t)

Spec == Init /\ [][Next]_vars
=============================================================================
