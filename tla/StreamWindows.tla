----------------------------- MODULE StreamWindows ----------------------------
(***************************************************************************)
(* Watching a file while it downloads.  Each connection of the player      *)
(* reads from its own place; what it lacks is asked of libtorrent with a   *)
(* deadline, in a window of pieces that the connections of one torrent     *)
(* share: a seek throws away the other's deadlines, a look at the end of   *)
(* the file does not.  Before the first byte leaves, the guard judges the  *)
(* start of the file, and puts away what only claims to be a video.        *)
(*                                                                         *)
(* One file of one torrent, read to its end.  Data left out: bytes, names, *)
(* headers, rates.  A deadline is there or not, whatever its time.         *)
(***************************************************************************)
EXTENDS Integers, FiniteSets

CONSTANTS
  PieceSize, Offset, Size, \* bytes in a piece; before the file in the torrent; in it
  Chunk, Window, Tail,     \* kChunk in bytes; windowPieces and kTailPieces in pieces
  Head,                    \* headWanted: what the guard has to read, in bytes
  Readers,                 \* the player's connections
  Starts,                  \* where they begin to read
  StreamOps                \* "paused": 90 s may pass also while the player does not read;
                           \* "missing": a file may fail to open; "short": to be read,
                           \* and "empty": it always does

PieceOf(byte) == (Offset + byte) \div PieceSize
First == PieceOf(0)
Last == PieceOf(Size - 1)
Pieces == First .. Last
TailPieces == {p \in Pieces : p > Last - Tail}

VARIABLES
  have,     \* pieces of the file that libtorrent has
  plan,     \* m_streamWindows' entry, the deadlines and the priorities
  reader,   \* the connections
  guard,    \* MediaGuard: "unknown", "cleared" or "quarantined"
  paused,   \* libtorrent's torrent is paused
  listed,   \* the torrent is in the session
  disguised \* what the file is: fixed

stream == <<have, plan, reader, guard, paused, listed, disguised>>

NoWindow == [first |-> -1, last |-> -1, missing |-> -1]
Closed == Size + 1
Idle == [at |-> Closed, sent |-> FALSE, admitted |-> FALSE, quiet |-> FALSE, waits |-> FALSE,
         cut |-> "no"]

Windows == {NoWindow} \cup [first : Pieces, last : Pieces, missing : Pieces]
Plans == [window : Windows, urgent : SUBSET Pieces, prio : [Pieces -> {0, 1, 4, 6, 7}]]
Connections == [at : 0 .. Closed, sent : BOOLEAN, admitted : BOOLEAN, quiet : BOOLEAN,
                waits : BOOLEAN, cut : {"no", "waited", "unwaited"}]

TypeOK ==
  /\ have \subseteq Pieces /\ plan \in Plans
  /\ reader \in [Readers -> Connections]
  /\ guard \in {"unknown", "cleared", "quarantined"}
  /\ {paused, listed, disguised} \subseteq BOOLEAN

Init ==
  /\ have = {}
  /\ plan = [window |-> NoWindow, urgent |-> {}, prio |-> [p \in Pieces |-> 4]]
  /\ reader = [c \in Readers |-> Idle]
  /\ guard = "unknown" /\ paused = FALSE /\ listed = TRUE /\ disguised \in BOOLEAN

Least(S) == CHOOSE p \in S : \A q \in S : p <= q
Lesser(i, j) == IF i <= j THEN i ELSE j

-----------------------------------------------------------------------------
(* Bytes that can be read *)

\* The pieces from the byte's on, without a gap
GapFree(from) == {p \in PieceOf(from) .. Last : PieceOf(from) .. p \subseteq have}

\* Mutant: the last piece counts in full, beyond the end of the file.
RunUnclipped(from, cap) ==
  IF from >= Size \/ GapFree(from) = {} THEN 0
  ELSE Lesser(cap, (PieceOf(from) + Cardinality(GapFree(from))) * PieceSize - (Offset + from))

\* streamContiguousAvailableBytes, and contiguousRun of the other process
Run(from, cap) ==
  IF from >= Size \/ GapFree(from) = {} THEN 0
  ELSE Lesser(cap, Lesser((PieceOf(from) + Cardinality(GapFree(from))) * PieceSize, Offset + Size)
                     - (Offset + from))

-----------------------------------------------------------------------------
(* The window *)

\* Mutant: the deadlines at the end of the file go with the old window's.
SetWindowDropsTail(marks, byte) ==
  LET first == PieceOf(Lesser(byte, Size - 1))
      last == Lesser(first + Window - 1, Last)
      missing == (first .. last) \ have
      w == marks.window
      jumped == w # NoWindow /\ (first < w.first \/ first > w.last)
  IN  IF missing = {} \/ (w.first = first /\ w.missing = Least(missing)) THEN marks
      ELSE [window |-> [first |-> first, last |-> last, missing |-> Least(missing)],
            urgent |-> (IF jumped THEN {} ELSE marks.urgent) \cup missing,
            prio |-> marks.prio]

\* Mutant: a window that has moved keeps the priorities of the old one.
LevelsKept(first, last) == plan.prio

\* After the reader, before it, and at the end of the file
Levels(first, last) ==
  [p \in Pieces |-> IF p > Last - Tail \/ p \in first .. last THEN 7
                    ELSE IF p < first THEN 1
                    ELSE IF p <= last + 10 * Window THEN 6 ELSE 4]

\* What is missing of the window gets a deadline.  A read at the end of the file does
\* not move the window; one outside of it clears the old deadlines, those at the end
\* of the file excepted.
SetWindow(marks, byte) ==
  LET first == PieceOf(Lesser(byte, Size - 1))
      last == Lesser(first + Window - 1, Last)
      missing == (first .. last) \ have
      w == marks.window
      jumped == w # NoWindow /\ (first < w.first \/ first > w.last)
  IN  IF missing = {} \/ (w.first = first /\ w.missing = Least(missing)) THEN marks
      ELSE IF first \in TailPieces /\ w # NoWindow
        THEN [marks EXCEPT !.urgent = @ \cup missing]
      ELSE [window |-> [first |-> first, last |-> last, missing |-> Least(missing)],
            urgent |-> (IF jumped THEN TailPieces \ have ELSE marks.urgent) \cup missing,
            prio |-> IF w.first # first THEN Levels(first, last) ELSE marks.prio]

-----------------------------------------------------------------------------
(* The guard *)

\* Mutant: what is not there yet is let through.
VerdictHasty == IF guard = "quarantined" THEN "block"
                ELSE IF guard = "cleared" \/ Run(0, Head) < Head THEN "allow"
                ELSE IF disguised THEN "block" ELSE "allow"

Verdict == IF guard = "quarantined" THEN "block"
           ELSE IF guard = "cleared" THEN "allow"
           ELSE IF Run(0, Head) < Head THEN "wait"
           ELSE IF disguised THEN "block" ELSE "allow"

\* The verdict is kept; a disguised file is paused, unwanted and renamed.
Judged(marks) ==
  /\ guard' = IF Run(0, Head) < Head \/ guard # "unknown" THEN guard
              ELSE IF disguised THEN "quarantined" ELSE "cleared"
  /\ paused' = (paused \/ (guard' # guard /\ guard' = "quarantined"))
  /\ plan' = IF guard' # guard /\ guard' = "quarantined"
             THEN [marks EXCEPT !.prio = [p \in Pieces |-> 0]] ELSE marks

OnTorrentFinished ==
  /\ listed /\ have = Pieces /\ guard = "unknown"
  /\ Judged(plan)
  /\ UNCHANGED <<have, reader, listed, disguised>>

-----------------------------------------------------------------------------
(* A connection *)

Open(c) == reader[c].at <= Size
Shut(c, how) == reader' = [reader EXCEPT ![c] = [Idle EXCEPT !.cut = how]]

\* No progress for 90 s ends it, else the timer runs the pump again.
WaitOrGiveUp(c, r) ==
  IF r.quiet THEN Shut(c, IF r.waits THEN "waited" ELSE "unwaited")
  ELSE reader' = [reader EXCEPT ![c] = [r EXCEPT !.waits = TRUE]]

\* Mutant: what the reader lacks is asked for once, when it begins to read.
PumpOnce(c, r, marks) ==
  IF ~listed \/ r.at >= Size THEN Shut(c, "no") /\ plan' = marks /\ UNCHANGED <<guard, paused>>
  ELSE IF Run(r.at, Chunk) = 0
    THEN WaitOrGiveUp(c, r) /\ plan' = marks /\ UNCHANGED <<guard, paused>>
  ELSE IF ~r.admitted /\ Verdict = "wait"
    THEN WaitOrGiveUp(c, r) /\ plan' = SetWindow(marks, 0) /\ UNCHANGED <<guard, paused>>
  ELSE IF ~r.admitted /\ Verdict = "block" THEN Shut(c, "no") /\ Judged(marks)
  ELSE /\ reader' = [reader EXCEPT ![c] = [Idle EXCEPT !.at = r.at + Run(r.at, Chunk),
                                                       !.sent = TRUE, !.admitted = TRUE]]
       /\ IF r.admitted THEN UNCHANGED <<guard, paused>> /\ plan' = marks ELSE Judged(marks)

\* What is there goes out, once the guard has let it.  The window follows the reader
\* once a second, so now and then.
Reads(c, r, marks) ==
  LET next == r.at + Run(r.at, Chunk)
  IN  /\ reader' = [reader EXCEPT ![c] = [Idle EXCEPT !.at = next, !.sent = TRUE,
                                                      !.admitted = TRUE]]
      /\ \E now \in {marks, SetWindow(marks, next)} :
           IF r.admitted THEN UNCHANGED <<guard, paused>> /\ plan' = now ELSE Judged(now)

\* What is there cannot be had from the disk: a file that does not open is waited for
\* as a piece is; one that reads nothing is closed and tried again, without end.
ReadsNothing(c, r, marks) ==
  /\ \/ "missing" \in StreamOps /\ WaitOrGiveUp(c, [r EXCEPT !.admitted = TRUE])
     \/ /\ StreamOps \cap {"short", "empty"} # {}
        /\ reader' = [reader EXCEPT ![c] = [r EXCEPT !.admitted = TRUE, !.waits = TRUE]]
  /\ IF r.admitted THEN UNCHANGED <<guard, paused>> /\ plan' = marks ELSE Judged(marks)

\* One step of the pump for the connection r, with the deadlines as marks has them.
Pump(c, r, marks) ==
  IF ~listed \/ r.at >= Size THEN Shut(c, "no") /\ plan' = marks /\ UNCHANGED <<guard, paused>>
  ELSE IF Run(r.at, Chunk) = 0
    THEN WaitOrGiveUp(c, r) /\ plan' = SetWindow(marks, r.at) /\ UNCHANGED <<guard, paused>>
  ELSE IF ~r.admitted /\ Verdict = "wait"
    THEN WaitOrGiveUp(c, r) /\ plan' = SetWindow(marks, 0) /\ UNCHANGED <<guard, paused>>
  ELSE IF ~r.admitted /\ Verdict = "block" THEN Shut(c, "no") /\ Judged(marks)
  ELSE \/ "empty" \notin StreamOps /\ Reads(c, r, marks)
       \/ ReadsNothing(c, r, marks)

\* A request: refused for a file that was put away
Begin(c, start) ==
  /\ ~Open(c) /\ listed /\ guard # "quarantined"
  /\ Pump(c, [Idle EXCEPT !.at = start], SetWindow(plan, start))
  /\ UNCHANGED <<have, listed, disguised>>

\* The timer, a piece that finished, or a socket that drained
Pumps(c) ==
  /\ Open(c)
  /\ Pump(c, reader[c], plan)
  /\ UNCHANGED <<have, listed, disguised>>

PlayerCloses(c) ==
  /\ Open(c)
  /\ Shut(c, "no")
  /\ UNCHANGED <<have, plan, guard, paused, listed, disguised>>

NinetySecondsPass(c) ==
  /\ Open(c) /\ ~reader[c].quiet
  /\ reader[c].waits \/ "paused" \in StreamOps
  /\ reader' = [reader EXCEPT ![c].quiet = TRUE]
  /\ UNCHANGED <<have, plan, guard, paused, listed, disguised>>

-----------------------------------------------------------------------------
(* The session, the user and libtorrent *)

\* Playing a file asks for both of its ends first.
PrioritizeFilePieceBoundaries ==
  /\ listed /\ guard # "quarantined"
  /\ plan' = [plan EXCEPT !.prio[First] = 7, !.prio[Last] = 7, !.urgent = @ \cup (TailPieces \ have)]
  /\ UNCHANGED <<have, reader, guard, paused, listed, disguised>>

RemoveTorrent ==
  /\ listed
  /\ listed' = FALSE
  /\ plan' = [window |-> NoWindow, urgent |-> {}, prio |-> [p \in Pieces |-> 4]]
  /\ UNCHANGED <<have, reader, guard, paused, disguised>>

\* The user resumes what the guard paused.
Resume ==
  /\ paused
  /\ paused' = FALSE
  /\ UNCHANGED <<have, plan, reader, guard, listed, disguised>>

PieceFinishes(p) ==
  /\ listed /\ ~paused /\ p \notin have /\ (plan.prio[p] > 0 \/ p \in plan.urgent)
  /\ have' = have \cup {p}
  /\ plan' = [plan EXCEPT !.urgent = @ \ {p}]
  /\ UNCHANGED <<reader, guard, paused, listed, disguised>>

Next ==
  \/ \E c \in Readers : \/ \E start \in Starts : Begin(c, start)
                        \/ Pumps(c) \/ PlayerCloses(c) \/ NinetySecondsPass(c)
  \/ OnTorrentFinished \/ PrioritizeFilePieceBoundaries \/ RemoveTorrent \/ Resume
  \/ \E p \in Pieces : PieceFinishes(p)

\* The pump's timer runs.  Pieces with deadlines are fetched, unless the torrent is
\* paused.
UrgentPieceFinishes == \E p \in plan.urgent : PieceFinishes(p)
Fairness == (\A c \in Readers : WF_stream(Pumps(c))) /\ SF_stream(UrgentPieceFinishes)

Spec == Init /\ [][Next]_stream /\ Fairness

-----------------------------------------------------------------------------
(* Properties *)

\* What is said to be readable is exactly the bytes, from there on and inside the
\* file, of pieces that are there: at piece edges, at the file's end, at any cap.
RunIsExact ==
  \A from \in 0 .. Size, cap \in 1 .. Size :
    Run(from, cap) = Cardinality({b \in from .. Lesser(from + cap, Size) - 1 :
                                    \A a \in from .. b : PieceOf(a) \in have})

\* Whatever the readers did to each other's windows, each missing piece of the one
\* that stands has a deadline and the highest priority.
WindowIsUrgent ==
  plan.window # NoWindow /\ guard # "quarantined" =>
    \A p \in plan.window.missing .. plan.window.last : p \notin have =>
      p \in plan.urgent /\ plan.prio[p] = 7

\* A deadline at the end of the file lasts until the piece is there: no seek costs it.
TailSurvivesSeeks ==
  listed' => \A p \in TailPieces : p \in plan.urgent => p \in plan.urgent' \cup have'

\* Not a byte of a disguised file leaves, not on a connection that began elsewhere in
\* the file or before the guard could judge it.
GuardedFirst == disguised => \A c \in Readers : ~reader[c].sent

\* A reader that waits is served, or let go: no other reader's seeks starve it of
\* deadlines.  Unless the guard has paused the torrent.
Starves(c) == reader[c].waits /\ ~paused
ReaderGetsOn == \A c \in Readers : Starves(c) ~> ~Starves(c)

\* What readers are promised in every state and over every seek
StreamHolds == TypeOK /\ RunIsExact /\ WindowIsUrgent /\ GuardedFirst
StreamIsSound == []StreamHolds /\ [][TailSurvivesSeeks]_stream

\* Not kept by the code: the no-progress timeout cuts off a reader only when it has
\* waited that long for a piece.
CutAfterWaiting == \A c \in Readers : reader[c].cut # "unwaited"

\* Not kept by the code: a file that was put away stays unwanted.
QuarantinedStaysUnwanted == guard = "quarantined" => \A p \in Pieces : plan.prio[p] = 0

-----------------------------------------------------------------------------
(* Why it is sound: what every step keeps *)

\* A window is as long as it may be inside the file; what lies in it before the first
\* piece that was missing is there; what is missing of it has a deadline and, unless
\* the file was put away, the highest priority.
Stands(marks) ==
  LET w == marks.window
  IN  w # NoWindow =>
        /\ w.last = Lesser(w.first + Window - 1, Last)
        /\ w.missing \in w.first .. w.last
        /\ w.first .. w.missing - 1 \subseteq have
        /\ guard # "quarantined" =>
             \A p \in w.missing .. w.last : p \notin have =>
               p \in marks.urgent /\ marks.prio[p] = 7

\* A disguised file is never cleared, and nobody was sent a byte of it.
NothingLeaves ==
  disguised =>
    /\ guard # "cleared"
    /\ \A c \in Readers : ~reader[c].sent /\ ~reader[c].admitted

StreamInv == TypeOK /\ Stands(plan) /\ NothingLeaves
=============================================================================
