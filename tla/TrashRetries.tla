----------------------------- MODULE TrashRetries ------------------------------
(***************************************************************************)
(* Files that the user removes together with a torrent.  libtorrent lets   *)
(* go of them some time after the removal, so the session tries again and  *)
(* again, a little later each time, and gives up after MaxAttempts; the    *)
(* settings keep what is still to be done, and the next launch takes it    *)
(* up.  Meanwhile the same torrent may be added and removed again.         *)
(*                                                                         *)
(* Data left out: what a torrent's files are called.  Files(t) are the     *)
(* paths that removing it would delete, with the names of unfinished files *)
(* and libtorrent's own side file.                                         *)
(***************************************************************************)
EXTENDS Naturals

CONSTANTS
  Owners,      \* torrents
  FilesOf,     \* their files: a function from torrents to sets of paths
  MaxAttempts, \* a job's last attempt (10 in the code)
  Early        \* a torrent may be added again while a job for its files is due

Paths == UNION {FilesOf[t] : t \in Owners}
Kinds == {"trash", "delete"}

VARIABLES
  present,  \* paths that exist
  open,     \* paths that libtorrent holds open
  adopted,  \* torrents in m_torrents
  jobs,     \* the single shots that are due
  pending,  \* the settings pendingTrashTargets and pendingDeleteTargets
  asked,    \* history: paths the user wants gone
  givenUp   \* history: paths a job of this run gave up

trash == <<present, open, adopted, jobs, pending, asked, givenUp>>

Job(kind, targets, attempt) == [kind |-> kind, targets |-> targets, attempt |-> attempt]

TypeOK ==
  /\ {present, open, asked, givenUp} \subseteq SUBSET Paths
  /\ adopted \subseteq Owners
  /\ \A j \in jobs : j.kind \in Kinds /\ j.targets \subseteq Paths /\ j.attempt \in 0 .. MaxAttempts
  /\ pending \in [Kinds -> SUBSET Paths]

Init ==
  /\ adopted = Owners /\ present = Paths /\ open = Paths
  /\ jobs = {} /\ asked = {} /\ givenUp = {}
  /\ pending = [k \in Kinds |-> {}]

\* Its files are written, or taken over as they are
Add(t) ==
  /\ t \notin adopted
  /\ Early \/ \A j \in jobs : j.targets \cap FilesOf[t] = {}
  /\ adopted' = adopted \cup {t}
  /\ present' = present \cup FilesOf[t] /\ open' = open \cup FilesOf[t]
  /\ asked' = asked \ FilesOf[t] /\ givenUp' = givenUp \ FilesOf[t]
  /\ UNCHANGED <<jobs, pending>>

\* Mutant: what is to be done is not saved.
RemoveUnsaved(t, how) ==
  /\ t \in adopted
  /\ adopted' = adopted \ {t}
  /\ IF how = "keep" THEN UNCHANGED <<jobs, asked>>
     ELSE /\ jobs' = jobs \cup {Job(how, FilesOf[t], 0)}
          /\ asked' = asked \cup FilesOf[t]
  /\ UNCHANGED <<present, open, pending, givenUp>>

Remove(t, how) ==
  /\ t \in adopted
  /\ adopted' = adopted \ {t}
  /\ IF how = "keep" THEN UNCHANGED <<jobs, pending, asked>>
     ELSE /\ jobs' = jobs \cup {Job(how, FilesOf[t], 0)}
          /\ pending' = [pending EXCEPT ![how] = @ \cup FilesOf[t]]
          /\ asked' = asked \cup FilesOf[t]
  /\ UNCHANGED <<present, open, givenUp>>

\* Some time after the removal, and also when a torrent is paused or has many files
LetsGo(p) ==
  /\ p \in open
  /\ open' = open \ {p}
  /\ UNCHANGED <<present, adopted, jobs, pending, asked, givenUp>>

\* Mutant: everything that was tried counts as done.
JobFiresForgets(j) ==
  /\ j \in jobs
  /\ LET remaining == j.targets \cap present \cap open
     IN  /\ present' = present \ (j.targets \ remaining)
         /\ pending' = [pending EXCEPT ![j.kind] = @ \ j.targets]
         /\ jobs' = IF remaining = {} \/ j.attempt = MaxAttempts THEN jobs \ {j}
                    ELSE (jobs \ {j}) \cup {Job(j.kind, remaining, j.attempt + 1)}
         /\ givenUp' = IF j.attempt = MaxAttempts THEN givenUp \cup remaining ELSE givenUp
  /\ UNCHANGED <<open, adopted, asked>>

\* Mutant: a job is not tried again.
JobFiresOnce(j) ==
  /\ j \in jobs
  /\ LET remaining == j.targets \cap present \cap open
     IN  /\ present' = present \ (j.targets \ remaining)
         /\ pending' = [pending EXCEPT ![j.kind] = @ \ (j.targets \ remaining)]
  /\ jobs' = jobs \ {j}
  /\ UNCHANGED <<open, adopted, asked, givenUp>>

\* Mutant: the last attempt passes unnoticed.
JobFiresAgain(j) ==
  /\ j \in jobs
  /\ LET remaining == j.targets \cap present \cap open
     IN  /\ present' = present \ (j.targets \ remaining)
         /\ pending' = [pending EXCEPT ![j.kind] = @ \ (j.targets \ remaining)]
         /\ jobs' = IF remaining = {} THEN jobs \ {j}
                    ELSE (jobs \ {j}) \cup {Job(j.kind, remaining, j.attempt + 1)}
  /\ UNCHANGED <<open, adopted, asked, givenUp>>

\* What is held open stays; what is not there any more counts as done
JobFires(j) ==
  /\ j \in jobs
  /\ LET remaining == j.targets \cap present \cap open
     IN  /\ present' = present \ (j.targets \ remaining)
         /\ pending' = [pending EXCEPT ![j.kind] = @ \ (j.targets \ remaining)]
         /\ jobs' = IF remaining = {} \/ j.attempt = MaxAttempts THEN jobs \ {j}
                    ELSE (jobs \ {j}) \cup {Job(j.kind, remaining, j.attempt + 1)}
         /\ givenUp' = IF j.attempt = MaxAttempts THEN givenUp \cup remaining ELSE givenUp
  /\ UNCHANGED <<open, adopted, asked>>

\* Quit or crash, and a launch: the timers are gone, and so is whatever held a
\* file open that no torrent has.
Relaunch ==
  /\ jobs' = {Job(k, pending[k], 0) : k \in {l \in Kinds : pending[l] # {}}}
  /\ open' = UNION {FilesOf[t] : t \in adopted} \cap present
  /\ givenUp' = {}
  /\ UNCHANGED <<present, adopted, pending, asked>>

Next ==
  \/ \E t \in Owners : Add(t) \/ \E how \in Kinds \cup {"keep"} : Remove(t, how)
  \/ \E p \in Paths : LetsGo(p)
  \/ \E j \in jobs : JobFires(j)
  \/ Relaunch

\* Timers fire.
JobFor(p) == \E j \in jobs : p \in j.targets /\ JobFires(j)
Fairness == \A p \in Paths : WF_trash(JobFor(p))

Spec == Init /\ [][Next]_trash /\ Fairness

-----------------------------------------------------------------------------
(* Properties *)

\* A file that is to go and is still there is in the settings, so whenever the app
\* quits or crashes the next launch tries again; unless the torrent was added again
\* and then removed to keep its files.
DeletionIsRemembered == \A p \in asked \cap present : \E k \in Kinds : p \in pending[k]

\* Removed and not added again, a file is gone in the end, or a job gave it up.
Undeleted(p) == p \in (asked \cap present) \ givenUp
DeletionEnds == \A p \in Paths : Undeleted(p) ~> ~Undeleted(p)

\* The jobs, the settings and the files fit together, so that no launch forgets one.
DeletionGoesOn == TypeOK /\ DeletionIsRemembered

\* Not kept by the code: no file of a torrent that is in the list is deleted.
NothingElseIsDeleted == [][\A t \in adopted : FilesOf[t] \cap present \subseteq present']_trash
=============================================================================
