---------------------------- MODULE MCResumeStore ----------------------------
(***************************************************************************)
(* Two instances, of which a behaviour is one: two torrents, saved in      *)
(* batches, removed and restored; and one torrent under crashes and        *)
(* restarts.  The second is an instance of the module of the proofs, so    *)
(* that its theorems speak of it (MCResumeStoreProofs).                    *)
(***************************************************************************)
EXTENDS ResumeStore
CONSTANTS t1, t2

ASSUME InstanceAssumption == t1 \in Torrents

VARIABLES
  part,  \* which instance this behaviour is of
  keepsPhase, keepsTorrents, keepsMeta, keepsCachedMeta, keepsRun, keepsPieces,
  keepsUriKnown, keepsRemoved, keepsOutstanding, keepsAlerts, keepsFile,
  keepsHistory, keepsStarting, keepsGone, keepsPromised

Keeps == INSTANCE ResumeStoreProofs WITH
  Torrents <- {t1},
  Ops <- {"add", "magnet", "remove", "pause", "disk", "save", "quit", "crash"},
  MaxAlerts <- 3, MaxList <- 2, phase <- keepsPhase,
  torrents <- keepsTorrents, meta <- keepsMeta, cachedMeta <- keepsCachedMeta,
  run <- keepsRun, pieces <- keepsPieces, uriKnown <- keepsUriKnown,
  removed <- keepsRemoved, outstanding <- keepsOutstanding, alerts <- keepsAlerts,
  file <- keepsFile, history <- keepsHistory, starting <- keepsStarting,
  gone <- keepsGone, promised <- keepsPromised

keeps == <<keepsPhase, keepsTorrents, keepsMeta, keepsCachedMeta, keepsRun,
           keepsPieces, keepsUriKnown, keepsRemoved, keepsOutstanding, keepsAlerts,
           keepsFile, keepsHistory, keepsStarting, keepsGone, keepsPromised>>

EitherInit ==
  /\ part \in {"flush", "keeps"}
  /\ Init
  /\ Keeps!Init

EitherNext ==
  \/ part = "flush" /\ UNCHANGED <<part, keeps>> /\ Next
  \/ part = "keeps" /\ UNCHANGED <<part, vars>> /\ Keeps!Next

EitherSpec == EitherInit /\ [][EitherNext]_<<part, vars, keeps>>

\* With one torrent under crashes, what is listed is stored and the flush waits
\* only for answers that come.
KeptIsStored == Keeps!StoreIsSound

\* And the store keeps what the abstract library promises.
KeptAsPromised == Keeps!ImplementsLibrary
=============================================================================
