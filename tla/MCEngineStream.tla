---------------------------- MODULE MCEngineStream ----------------------------
(***************************************************************************)
(* Two instances of EngineLink, of which a behaviour is one: a stream over *)
(* calls that nest and answers that come late, and an engine that dies and *)
(* is started again.                                                       *)
(***************************************************************************)
EXTENDS MCEngineLink

VARIABLES
  part,  \* which instance this behaviour is of
  respawnList, respawnHave, respawnStreamed, respawnToEngine, respawnToUi,
  respawnCut, respawnLink, respawnRespawns, respawnSnap, respawnGotSnap, respawnGeo,
  respawnBuf, respawnTorn, respawnReplies, respawnStack, respawnTodo

Respawn == INSTANCE EngineLink WITH
  Torrents <- {t1, t2}, Library <- Later, Pieces <- {1},
  Ops <- {"stream", "query", "add", "die", "tear", "late"}, ReplyMax <- 1,
  MaxRespawns <- 2, MaxDepth <- 1, MaxFrames <- 1, list <- respawnList,
  have <- respawnHave, streamed <- respawnStreamed, toEngine <- respawnToEngine,
  toUi <- respawnToUi, cut <- respawnCut, link <- respawnLink,
  respawns <- respawnRespawns, snap <- respawnSnap, gotSnap <- respawnGotSnap,
  geo <- respawnGeo, buf <- respawnBuf, torn <- respawnTorn,
  replies <- respawnReplies, stack <- respawnStack, todo <- respawnTodo

respawn == <<respawnList, respawnHave, respawnStreamed, respawnToEngine, respawnToUi,
             respawnCut, respawnLink, respawnRespawns, respawnSnap, respawnGotSnap,
             respawnGeo, respawnBuf, respawnTorn, respawnReplies, respawnStack,
             respawnTodo>>

EitherInit ==
  /\ part \in {"plain", "respawn"}
  /\ Init
  /\ Respawn!Init

EitherNext ==
  \/ part = "plain" /\ UNCHANGED <<part, respawn>> /\ Next
  \/ part = "respawn" /\ UNCHANGED <<part, vars>> /\ Respawn!Next

EitherSpec == EitherInit /\ [][EitherNext]_<<part, vars, respawn>>

\* The first instance alone, under the fairness of the two event loops
OneInit == EitherInit /\ part = "plain"

EitherFairSpec == OneInit /\ [][EitherNext]_<<part, vars, respawn>> /\ Fairness

\* With the engine dying and started again, what belongs to one engine or torrent
\* is not taken for another's.
RespawnMixesNothingUp == Respawn!NothingIsMixedUp
=============================================================================
