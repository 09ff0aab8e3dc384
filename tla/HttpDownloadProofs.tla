------------------------- MODULE HttpDownloadProofs -------------------------
(***************************************************************************)
(* What is proved of HttpDownload for any number of downloads, sizes,      *)
(* connections and files.  Whatever the servers, the names and the faults: *)
(* the types, and that the ranges of a download tile its file.  A          *)
(* handler's steps are taken one at a time, from situation to situation.   *)
(* Where servers honour ranges and names differ: what is counted is        *)
(* written or waits to be, what the sidecar says is on the disk, and what  *)
(* is complete is the server's file.  The invariant is Faithful; a handler *)
(* of one download keeps it if the situation that it leaves is Sound.      *)
(***************************************************************************)
EXTENDS HttpDownload, TLAPS, FiniteSetTheorems, SequenceTheorems, WellFoundedInduction

-----------------------------------------------------------------------------
(* The plan: planSegments cuts every file into ranges that are not empty,  *)
(* side by side, and together the whole file.                              *)

\* There is a range, and no more of them than bytes (planSegments clamps n).
LEMMA PartsBounded ==
  ASSUME NEW total \in Nat \ {0}, NEW conns \in Int
  PROVE  Parts(total, conns) \in 1 .. total
BY DEF Parts

\* The ranges are as long as the quotient, or one byte longer; with the
\* remainder they make up the file.
LEMMA Quotient ==
  ASSUME NEW total \in Nat \ {0}, NEW n \in 1 .. total
  PROVE  /\ total \div n \in Nat \ {0}
         /\ total % n \in 0 .. (n - 1)
         /\ total = n * (total \div n) + (total % n)
<1>1. total % n \in 0 .. (n - 1) /\ total = n * (total \div n) + (total % n)
  BY Z3
<1>2. total \div n \in Int
  OBVIOUS
<1>3. total \div n >= 1
  <2>1. SUFFICES ASSUME total \div n <= 0 PROVE FALSE
    BY <1>2
  <2>2. n * (total \div n) <= 0
    BY <1>2, <2>1, Z3
  <2> QED BY <1>1, <1>2, <2>2
<1> QED BY <1>1, <1>2, <1>3

\* A range begins where the one before it ends.
LEMMA Adjacent ==
  ASSUME NEW total \in Nat \ {0}, NEW n \in 1 .. total, NEW i \in Nat
  PROVE  First(total, n, i + 1) = First(total, n, i) + Length(total, n, i)
<1>1. PICK q \in Int : q = total \div n
  BY Quotient
<1>2. PICK r \in Int : r = total % n
  BY Quotient
<1>3. (i + 1) * q = i * q + q
  BY Z3
<1> DEFINE rest(k) == IF k < r THEN k ELSE r
<1>4. First(total, n, i + 1) = (i * q + q) + rest(i + 1)
  BY <1>1, <1>2, <1>3 DEF First
<1>5. First(total, n, i) = i * q + rest(i) /\ Length(total, n, i) = q + (IF i < r THEN 1 ELSE 0)
  BY <1>1, <1>2 DEF First, Length
<1>6. rest(i + 1) = rest(i) + (IF i < r THEN 1 ELSE 0)
  BY <1>2
<1>7. i * q \in Int
  BY <1>1, Z3
<1> QED BY <1>4, <1>5, <1>6, <1>7

\* The first range begins at byte 0, and the last one ends with the file.
LEMMA FirstAndLast ==
  ASSUME NEW total \in Nat \ {0}, NEW n \in 1 .. total
  PROVE  First(total, n, 0) = 0 /\ First(total, n, n) = total
<1>1. total \div n \in Nat /\ total % n \in 0 .. (n - 1)
      /\ total = n * (total \div n) + (total % n)
  BY Quotient
<1>2. 0 * (total \div n) = 0
  BY <1>1, Z3
<1> QED BY <1>1, <1>2 DEF First

\* The plan of planSegments tiles the file: for every size and every number of
\* connections no byte is fetched twice and none is left out.
THEOREM PlanTiles ==
  ASSUME NEW total \in Nat \ {0}, NEW conns \in Int
  PROVE  Tiles(planSegments(total, conns), total)
<1> DEFINE n == Parts(total, conns)
           segs == planSegments(total, conns)
<1>1. n \in 1 .. total
  BY PartsBounded
<1>2. segs = [i \in 1..n |-> [start |-> First(total, n, i - 1),
                              end |-> First(total, n, i - 1) + Length(total, n, i - 1) - 1]]
  BY DEF planSegments
<1>3. \A i \in 0 .. n : First(total, n, i) \in Int /\ Length(total, n, i) \in Nat \ {0}
  <2>1. TAKE i \in 0 .. n
  <2>2. PICK q \in Nat \ {0} : q = total \div n
    BY <1>1, Quotient
  <2>3. i * q \in Int /\ total % n \in Int
    BY <1>1, <2>2, Quotient, Z3
  <2> QED BY <2>2, <2>3 DEF First, Length
<1> HIDE DEF n, segs
<1>4. Len(segs) = n /\ DOMAIN segs = 1..n
  BY <1>1, <1>2
<1>5. segs[1].start = 0
  BY <1>1, <1>2, FirstAndLast
<1>6. segs[n].end = total - 1
  <2>1. First(total, n, (n - 1) + 1) = First(total, n, n - 1) + Length(total, n, n - 1)
    BY <1>1, Adjacent
  <2>2. (n - 1) + 1 = n
    BY <1>1
  <2>3. segs[n].end = First(total, n, n - 1) + Length(total, n, n - 1) - 1
    BY <1>1, <1>2
  <2>4. n - 1 \in 0..n /\ n \in 0..n
    BY <1>1
  <2> QED BY <1>1, <1>3, <2>1, <2>2, <2>3, <2>4, FirstAndLast
<1>7. \A i \in 1..n : segs[i].start <= segs[i].end
  <2>1. TAKE i \in 1..n
  <2>2. i - 1 \in 0..n
    BY <1>1
  <2>3. /\ segs[i].start = First(total, n, i - 1)
        /\ segs[i].end = First(total, n, i - 1) + Length(total, n, i - 1) - 1
    BY <1>2
  <2> QED BY <1>3, <2>2, <2>3
<1>8. \A i \in 2..n : segs[i].start = segs[i - 1].end + 1
  <2>1. TAKE i \in 2..n
  <2>2. First(total, n, (i - 2) + 1) = First(total, n, i - 2) + Length(total, n, i - 2)
    BY <1>1, Adjacent
  <2>3. (i - 2) + 1 = i - 1 /\ (i - 1) - 1 = i - 2 /\ i - 1 \in 1..n /\ i - 2 \in 0..n
    BY <1>1
  <2>4. /\ segs[i].start = First(total, n, i - 1)
        /\ segs[i - 1].end = First(total, n, i - 2) + Length(total, n, i - 2) - 1
    BY <1>2, <2>3
  <2> QED BY <1>3, <2>2, <2>3, <2>4
<1> QED BY <1>4, <1>5, <1>6, <1>7, <1>8 DEF Tiles, segs

-----------------------------------------------------------------------------
(* Situations and the steps of a handler, each as the record that it makes *)

Situation(s) ==
  /\ s = [r |-> s.r, path |-> s.path, file |-> s.file, lost |-> s.lost]
  /\ s.r \in Download /\ s.lost \in BOOLEAN
  /\ s.path \in [Paths -> Inodes \cup {None}]
  /\ s.file = [i \in Inodes |-> s.file[i]]
  /\ s.r.buffer # None => s.r.inode # None

\* The files, with what the open one's buffer holds
Poured(s) ==
  IF s.r.buffer = None THEN s.file
  ELSE [s.file EXCEPT ![s.r.inode] = Written(@, s.r.buffer.at, s.r.buffer.bytes)]

\* A record, a directory and files make a situation.
LEMMA Made ==
  ASSUME NEW s, Situation(s), NEW r \in Download, NEW p \in [Paths -> Inodes \cup {None}],
         NEW f, f = [i \in Inodes |-> f[i]], r.buffer # None => r.inode # None
  PROVE  Situation([r |-> r, path |-> p, file |-> f, lost |-> s.lost])
BY DEF Situation

\* QFile's flush changes the file that is open and no other.
LEMMA PouredIs ==
  ASSUME NEW s, Situation(s)
  PROVE  /\ Poured(s) = [i \in Inodes |-> Poured(s)[i]]
         /\ \A i \in Inodes : i # s.r.inode => Poured(s)[i] = s.file[i]
         /\ s.r.buffer # None => /\ s.r.inode \in Inodes
              /\ Poured(s)[s.r.inode]
                   = Written(s.file[s.r.inode], s.r.buffer.at, s.r.buffer.bytes)
<1>1. s.r.buffer # None => s.r.inode \in Inodes
  BY DEF Situation, Download
<1> QED BY <1>1 DEF Situation, Poured

\* Aborting the requests leaves the ranges and what they received.
LEMMA SegsAborted ==
  ASSUME NEW segs \in Seq(Segment)
  PROVE  /\ Aborted(segs) \in Seq(Segment)
         /\ Len(Aborted(segs)) = Len(segs) /\ DOMAIN Aborted(segs) = DOMAIN segs
         /\ \A i \in DOMAIN segs :
              /\ Aborted(segs)[i].start = segs[i].start /\ Aborted(segs)[i].end = segs[i].end
              /\ Aborted(segs)[i].received = segs[i].received
              /\ Aborted(segs)[i].reply = None
<1>2. DOMAIN segs = 1 .. Len(segs) /\ Len(segs) \in Nat
  OBVIOUS
<1>3. \A i \in DOMAIN segs : segs[i] \in Segment
  BY <1>2
<1>1. ASSUME NEW i \in DOMAIN segs
      PROVE  LET g == [segs[i] EXCEPT !.reply = None] IN
             /\ g \in Segment /\ g.start = segs[i].start /\ g.end = segs[i].end
             /\ g.received = segs[i].received /\ g.reply = None
  <2>1. segs[i] \in Segment
    BY <1>3, <1>1
  <2> QED BY <2>1 DEF Segment
<1>4. \A i \in DOMAIN segs : Aborted(segs)[i] = [segs[i] EXCEPT !.reply = None]
  BY DEF Aborted
<1>5. Aborted(segs) \in [1 .. Len(segs) -> Segment]
  BY <1>1, <1>2 DEF Aborted
<1>6. /\ Aborted(segs) \in Seq(Segment) /\ Len(Aborted(segs)) = Len(segs)
      /\ DOMAIN Aborted(segs) = DOMAIN segs
  BY <1>2, <1>5
<1> QED BY <1>1, <1>4, <1>6

\* A buffer is not empty, and the whole of it is a part of it.
LEMMA BufferIs ==
  ASSUME NEW b \in Buffer
  PROVE  /\ b.at \in Nat /\ b.bytes \in Seq({Junk} \cup Nat) /\ Len(b.bytes) \in Nat \ {0}
         /\ SubSeq(b.bytes, 1, Len(b.bytes)) = b.bytes /\ b # None
<1>1. b.at \in Nat /\ b.bytes \in Seq({Junk} \cup Nat) /\ b.bytes # <<>> /\ b # None
  BY NoneAssumption DEF Buffer
<1>2. Len(b.bytes) \in Nat \ {0} /\ SubSeq(b.bytes, 1, Len(b.bytes)) = b.bytes
  BY <1>1
<1> QED BY <1>1, <1>2

\* QFile::flush, when there is room, as a situation
LEMMA FlushedIs ==
  ASSUME NEW s, Situation(s)
  PROVE  /\ Flushed(s, 0) = [r |-> [s.r EXCEPT !.buffer = None],
                             path |-> s.path, file |-> Poured(s),
                             lost |-> s.lost]
         /\ Situation(Flushed(s, 0))
<1> DEFINE r == [s.r EXCEPT !.buffer = None]
<1>1. Flushed(s, 0) = [r |-> r, path |-> s.path, file |-> Poured(s), lost |-> s.lost]
  <2>1. s = [r |-> s.r, path |-> s.path, file |-> s.file, lost |-> s.lost] /\ s.r \in Download
    BY DEF Situation
  <2>2. CASE s.r.buffer = None
    <3>1. [s.r EXCEPT !.buffer = None] = s.r
      BY <2>1, <2>2 DEF Download
    <3> QED BY <2>1, <2>2, <3>1 DEF Flushed, Poured
  <2>3. CASE s.r.buffer # None
    <3> DEFINE b == s.r.buffer
               w == [s.file EXCEPT ![s.r.inode] = Written(@, b.at, b.bytes)]
    <3>1. b \in Buffer
      BY <2>1, <2>3 DEF Download
    <3>2. Len(b.bytes) \in Nat \ {0} /\ SubSeq(b.bytes, 1, Len(b.bytes)) = b.bytes
      BY <3>1, BufferIs
    <3>3. ~(0 >= Len(b.bytes)) /\ Len(b.bytes) - 0 = Len(b.bytes)
      BY <3>2
    <3>4. Flushed(s, 0) = [s EXCEPT !.file[s.r.inode] = Written(@, b.at, b.bytes), !.r.buffer = None]
      BY <2>3, <3>2, <3>3 DEF Flushed
    <3>5. Poured(s) = w
      BY <2>3 DEF Poured
    <3>6. Flushed(s, 0) = [r |-> r, path |-> s.path, file |-> w, lost |-> s.lost]
      BY <2>1, <3>4
    <3> QED BY <3>5, <3>6
  <2> QED BY <2>2, <2>3
<1>2. r \in Download /\ r.buffer = None /\ s.path \in [Paths -> Inodes \cup {None}]
  BY DEF Situation, Download
<1> HIDE DEF r
<1>3. Situation([r |-> r, path |-> s.path, file |-> Poured(s), lost |-> s.lost])
  BY <1>2, PouredIs, Made
<1> QED BY <1>1, <1>3 DEF r

\* Letting the open file go, in a situation f
LEMMA LetGo ==
  ASSUME NEW f, f = [r |-> f.r, path |-> f.path, file |-> f.file, lost |-> f.lost]
  PROVE  \A l : [f EXCEPT !.r.inode = None, !.r.buffer = None, !.lost = l]
                = [r |-> [[f.r EXCEPT !.inode = None] EXCEPT !.buffer = None], path |-> f.path,
                   file |-> f.file, lost |-> l]
<1> TAKE l
<1> DEFINE q1 == [f.r EXCEPT !.inode = None]
           q2 == [q1 EXCEPT !.buffer = None]
           f1 == [r |-> q1, path |-> f.path, file |-> f.file, lost |-> f.lost]
           f2 == [r |-> q2, path |-> f.path, file |-> f.file, lost |-> f.lost]
<1>1. [f EXCEPT !.r.inode = None] = f1
  OBVIOUS
<1>2. [f1 EXCEPT !.r.buffer = None] = f2
  <2> HIDE DEF q1
  <2> QED OBVIOUS
<1>3. [f2 EXCEPT !.lost = l] = [r |-> q2, path |-> f.path, file |-> f.file, lost |-> l]
  <2> HIDE DEF q2
  <2> QED OBVIOUS
<1>4. [f EXCEPT !.r.inode = None, !.r.buffer = None, !.lost = l]
      = [[[f EXCEPT !.r.inode = None] EXCEPT !.r.buffer = None] EXCEPT !.lost = l]
  OBVIOUS
<1> HIDE DEF f1, f2
<1> QED BY <1>1, <1>2, <1>3, <1>4

\* QFile::close: the buffer is written and the file let go.
LEMMA ClosedIs ==
  ASSUME NEW s, Situation(s)
  PROVE  /\ Closed(s, 0) = [r |-> [s.r EXCEPT !.buffer = None, !.inode = None],
                         path |-> s.path, file |-> Poured(s), lost |-> s.lost]
         /\ Situation(Closed(s, 0))
<1> DEFINE r == [s.r EXCEPT !.buffer = None, !.inode = None]
<1>1. [s.r EXCEPT !.buffer = None] \in Download
  BY DEF Situation, Download
<1>2. Closed(s, 0) = [r |-> r, path |-> s.path, file |-> Poured(s), lost |-> s.lost]
  <2> DEFINE q == [s.r EXCEPT !.buffer = None]
             f == [r |-> q, path |-> s.path, file |-> Poured(s), lost |-> s.lost]
  <2>1. Flushed(s, 0) = f /\ f.r = q
    BY FlushedIs
  <2>2. q.buffer = None /\ [[q EXCEPT !.inode = None] EXCEPT !.buffer = None] = r
    BY DEF Situation, Download
  <2>3. (s.lost \/ f.r.buffer # None) = s.lost
    <3>1. s.lost \in BOOLEAN /\ f.r.buffer = None
      BY <2>1, <2>2 DEF Situation
    <3> QED BY <3>1, Zenon
  <2>4. Closed(s, 0) = [f EXCEPT !.r.inode = None, !.r.buffer = None,
                                !.lost = @ \/ f.r.buffer # None]
    BY <2>1 DEF Closed
  <2> HIDE DEF q, r
  <2>5. \A l : [f EXCEPT !.r.inode = None, !.r.buffer = None, !.lost = l]
        = [r |-> [[q EXCEPT !.inode = None] EXCEPT !.buffer = None], path |-> s.path,
           file |-> Poured(s), lost |-> l]
    <3>1. f = [r |-> f.r, path |-> f.path, file |-> f.file, lost |-> f.lost]
          /\ f.r = q /\ f.path = s.path /\ f.file = Poured(s)
      OBVIOUS
    <3> HIDE DEF f
    <3> QED BY <3>1, LetGo
  <2>6. Closed(s, 0) = [f EXCEPT !.r.inode = None, !.r.buffer = None, !.lost = s.lost]
    <3>1. f.lost = s.lost
      OBVIOUS
    <3> HIDE DEF f
    <3> QED BY <2>3, <2>4, <3>1
  <2> QED BY <2>2, <2>5, <2>6
<1>3. r \in Download /\ r.buffer = None /\ s.path \in [Paths -> Inodes \cup {None}]
  BY DEF Situation, Download
<1> HIDE DEF r
<1>4. Situation([r |-> r, path |-> s.path, file |-> Poured(s), lost |-> s.lost])
  BY <1>3, PouredIs, Made
<1> QED BY <1>2, <1>4 DEF r

\* fail(): requests aborted, file closed, state Failed
LEMMA FailingIs ==
  ASSUME NEW s, Situation(s)
  PROVE  /\ Failing(s, 0) = [r |-> [s.r EXCEPT !.buffer = None, !.inode = None, !.state = "Failed",
                                            !.segs = Aborted(s.r.segs)],
                          path |-> s.path, file |-> Poured(s), lost |-> s.lost]
         /\ Situation(Failing(s, 0))
<1> DEFINE r == [s.r EXCEPT !.buffer = None, !.inode = None, !.state = "Failed",
                            !.segs = Aborted(s.r.segs)]
<1>1. Failing(s, 0) = [r |-> r, path |-> s.path, file |-> Poured(s), lost |-> s.lost]
  <2>1. Failing(s, 0) = [[r |-> [s.r EXCEPT !.buffer = None, !.inode = None],
                       path |-> s.path, file |-> Poured(s), lost |-> s.lost]
                        EXCEPT !.r.segs = Aborted(@), !.r.state = "Failed"]
    BY ClosedIs DEF Failing
  <2> DEFINE q == [s.r EXCEPT !.buffer = None, !.inode = None]
  <2>2. q \in Download /\ q.segs = s.r.segs
    BY DEF Situation, Download
  <2>3. [q EXCEPT !.segs = Aborted(s.r.segs), !.state = "Failed"] = r
    BY DEF Situation, Download
  <2> HIDE DEF q, r
  <2>4. [[r |-> q, path |-> s.path, file |-> Poured(s), lost |-> s.lost]
           EXCEPT !.r.segs = Aborted(@), !.r.state = "Failed"]
        = [r |-> [q EXCEPT !.segs = Aborted(q.segs), !.state = "Failed"],
           path |-> s.path, file |-> Poured(s), lost |-> s.lost]
    <3>1. [[r |-> q,
            path |-> s.path, file |-> Poured(s), lost |-> s.lost] EXCEPT !.r.segs = Aborted(@)]
          = [r |-> [q EXCEPT !.segs = Aborted(q.segs)],
             path |-> s.path, file |-> Poured(s), lost |-> s.lost]
      OBVIOUS
    <3>2. \A z : [[r |-> z, path |-> s.path,
                   file |-> Poured(s), lost |-> s.lost] EXCEPT !.r.state = "Failed"]
               = [r |-> [z EXCEPT !.state = "Failed"],
                  path |-> s.path, file |-> Poured(s), lost |-> s.lost]
      OBVIOUS
    <3>3. [[q EXCEPT !.segs = Aborted(q.segs)] EXCEPT !.state = "Failed"]
          = [q EXCEPT !.segs = Aborted(q.segs), !.state = "Failed"]
      OBVIOUS
    <3> QED BY <3>1, <3>2, <3>3
  <2> QED BY <2>1, <2>2, <2>3, <2>4 DEF q
<1>2. s.r.segs \in Seq(Segment)
  BY DEF Situation, Download
<1>3. r \in Download /\ r.buffer = None /\ s.path \in [Paths -> Inodes \cup {None}]
  BY <1>2, SegsAborted DEF Situation, Download
<1> HIDE DEF r
<1>4. Situation([r |-> r, path |-> s.path, file |-> Poured(s), lost |-> s.lost])
  BY <1>3, PouredIs, Made
<1> QED BY <1>1, <1>4 DEF r

\* openPart: the .part file is there, open and as long as the download
LEMMA OpenedIs ==
  ASSUME NEW d \in Downloads, NEW s, Situation(s), s.r.inode = None, Part(d) \in Paths,
         NEW i \in Inodes, i = IF s.path[Part(d)] # None THEN s.path[Part(d)] ELSE Free
  PROVE  /\ Opened(d, s) =
              [r |-> [s.r EXCEPT !.inode = i], path |-> [s.path EXCEPT ![Part(d)] = i],
               file |-> [s.file EXCEPT ![i] = IF s.r.total > 0 THEN Resized(@, s.r.total) ELSE @], lost |-> s.lost]
         /\ Situation(Opened(d, s))
<1> DEFINE r == [s.r EXCEPT !.inode = i]
           p == [s.path EXCEPT ![Part(d)] = i]
           f == [s.file EXCEPT ![i] = IF s.r.total > 0 THEN Resized(@, s.r.total) ELSE @]
<1>1. Opened(d, s) = [r |-> r, path |-> p, file |-> f, lost |-> s.lost]
  <2>1. Opened(d, s) = [s EXCEPT !.r.inode = i, !.path[Part(d)] = i,
           !.file[i] = IF s.r.total > 0 THEN Resized(s.file[i], s.r.total) ELSE s.file[i]]
    BY Zenon DEF Opened
  <2>2. s = [r |-> s.r, path |-> s.path, file |-> s.file, lost |-> s.lost]
    BY DEF Situation
  <2> QED BY <2>1, <2>2
<1>2. r \in Download /\ (r.buffer # None => r.inode # None)
  BY NoneAssumption DEF Situation, Download
<1>3. p \in [Paths -> Inodes \cup {None}] /\ f = [j \in Inodes |-> f[j]]
  BY DEF Situation
<1> HIDE DEF r, p, f
<1>4. Situation([r |-> r, path |-> p, file |-> f, lost |-> s.lost])
  BY <1>2, <1>3, Made
<1> QED BY <1>1, <1>4 DEF r, p, f

\* q has the ranges of r, and the bytes that r counts for them.
Kin(q, r) ==
  /\ q.total = r.total /\ q.ranges = r.ranges
  /\ Len(q.segs) = Len(r.segs) /\ DOMAIN q.segs = DOMAIN r.segs
  /\ \A i \in DOMAIN r.segs :
       /\ q.segs[i].start = r.segs[i].start /\ q.segs[i].end = r.segs[i].end
       /\ q.segs[i].received = r.segs[i].received

\* A range that is not done asks for the rest of it.
LEMMA RequestIs ==
  ASSUME NEW d \in Downloads, remote[d] \in Remote, NEW r, NEW g \in Segment
  PROVE  /\ Request(d, r, g) \in Segment
         /\ Request(d, r, g).start = g.start /\ Request(d, r, g).end = g.end
         /\ Request(d, r, g).received = g.received
         /\ Request(d, r, g).reply # None => g.reply = Request(d, r, g).reply \/ g.reply = None
<1> DEFINE q1 == [at |-> g.start + g.received, upto |-> g.end + 1, body |-> "none"]
           q2 == [at |-> 0, upto |-> remote[d].size, body |-> "none"]
<1>1. CASE g.reply # None \/ Done(g)
  BY <1>1 DEF Request
<1>2. CASE ~(g.reply # None \/ Done(g)) /\ r.ranges /\ g.end >= 0
  <2>1. Request(d, r, g) = [g EXCEPT !.reply = q1]
    BY <1>2 DEF Request
  <2>2. q1 \in Reply
    BY <1>2 DEF Segment, Reply
  <2> HIDE DEF q1
  <2> QED BY <1>2, <2>1, <2>2 DEF Segment
<1>3. CASE ~(g.reply # None \/ Done(g)) /\ ~(r.ranges /\ g.end >= 0)
  <2>1. Request(d, r, g) = [g EXCEPT !.reply = q2]
    BY <1>3 DEF Request
  <2>2. q2 \in Reply
    BY BoundAssumption DEF Reply, Remote
  <2> HIDE DEF q2
  <2> QED BY <1>3, <2>1, <2>2 DEF Segment
<1> QED BY <1>1, <1>2, <1>3

\* Every range asks, and the ranges stay as they are.
LEMMA RequestedIs ==
  ASSUME NEW d \in Downloads, remote[d] \in Remote, NEW s, Situation(s)
  PROVE  LET segs == [i \in DOMAIN s.r.segs |-> Request(d, s.r, s.r.segs[i])] IN
         /\ Requested(d, s) =
              [r |-> [s.r EXCEPT !.segs = segs], path |-> s.path, file |-> s.file, lost |-> s.lost]
         /\ segs \in Seq(Segment)
         /\ Situation(Requested(d, s)) /\ Kin(Requested(d, s).r, s.r)
<1> DEFINE segs == [i \in DOMAIN s.r.segs |-> Request(d, s.r, s.r.segs[i])]
           r == [s.r EXCEPT !.segs = segs]
<1>1. Requested(d, s) = [r |-> r, path |-> s.path, file |-> s.file, lost |-> s.lost]
  BY DEF Requested, Situation
<1>2. /\ s.r.segs \in Seq(Segment) /\ DOMAIN s.r.segs = 1 .. Len(s.r.segs)
      /\ Len(s.r.segs) \in Nat
  BY DEF Situation, Download
<1>3. \A i \in DOMAIN s.r.segs : s.r.segs[i] \in Segment
  BY <1>2
<1>4. /\ segs \in Seq(Segment) /\ Len(segs) = Len(s.r.segs)
      /\ \A i \in DOMAIN s.r.segs :
           /\ segs[i].start = s.r.segs[i].start /\ segs[i].end = s.r.segs[i].end
           /\ segs[i].received = s.r.segs[i].received
  BY <1>2, <1>3, RequestIs
<1> HIDE DEF segs
<1>5. r \in Download /\ (r.buffer # None => r.inode # None)
  BY <1>4 DEF Situation, Download
<1>6. Kin(r, s.r)
  <2>1. r.segs = segs /\ r.total = s.r.total /\ r.ranges = s.r.ranges
    BY DEF Situation, Download
  <2>2. DOMAIN segs = 1 .. Len(segs)
    BY <1>4
  <2> QED BY <1>2, <1>4, <2>1, <2>2 DEF Kin
<1> HIDE DEF r
<1>7. Situation([r |-> r, path |-> s.path, file |-> s.file, lost |-> s.lost])
  BY <1>5, Made DEF Situation
<1> QED BY <1>1, <1>4, <1>6, <1>7 DEF r, segs

\* A record is kin to one with the same ranges and size.
LEMMA KinItself ==
  ASSUME NEW r \in Download, NEW q \in Download, q.segs = r.segs, q.total = r.total,
         q.ranges = r.ranges
  PROVE  Kin(q, r)
BY DEF Kin

\* Kinship is transitive.
LEMMA KinKin ==
  ASSUME NEW x, NEW y, NEW z, Kin(x, y), Kin(y, z)
  PROVE  Kin(x, z)
<1>1. /\ x.total = z.total /\ x.ranges = z.ranges
      /\ Len(x.segs) = Len(z.segs) /\ DOMAIN x.segs = DOMAIN z.segs
      /\ DOMAIN x.segs = DOMAIN y.segs
  BY DEF Kin
<1>2. ASSUME NEW i \in DOMAIN z.segs
      PROVE  /\ x.segs[i].start = z.segs[i].start /\ x.segs[i].end = z.segs[i].end
             /\ x.segs[i].received = z.segs[i].received
  BY <1>1, <1>2 DEF Kin
<1> QED BY <1>1, <1>2 DEF Kin

\* A failure leaves the ranges and the size.
LEMMA FailingKin ==
  ASSUME NEW s, Situation(s)
  PROVE  Kin(Failing(s, 0).r, s.r)
<1> DEFINE q == [s.r EXCEPT !.buffer = None, !.inode = None, !.state = "Failed",
                            !.segs = Aborted(s.r.segs)]
<1>1. s.r \in Download /\ s.r.segs \in Seq(Segment)
  BY DEF Situation, Download
<1>2. Failing(s, 0).r = q
  <2>1. Failing(s, 0) = [r |-> q, path |-> s.path, file |-> Poured(s), lost |-> s.lost]
    BY FailingIs
  <2> HIDE DEF q
  <2> QED BY <2>1
<1>3. q.segs = Aborted(s.r.segs) /\ q.total = s.r.total /\ q.ranges = s.r.ranges
  BY <1>1 DEF Download
<1> HIDE DEF q
<1> QED BY <1>1, <1>2, <1>3, SegsAborted DEF Kin

\* What maybeComplete makes of a download whose ranges are done: failed, failed
\* with the old file gone, or completed
Refused(s) == Failing(Closed(s, 0), 0)
Gone(d, s) == Failing([Closed(s, 0) EXCEPT !.path[Final(d)] = None], 0)
Renamed(d, s) ==
  [Closed(s, 0) EXCEPT !.path[Final(d)] = s.path[Part(d)], !.path[Part(d)] = None,
                    !.r.segs = Aborted(@), !.r.state = "Completed"]

\* maybeComplete has four outcomes.
LEMMA CompletingIs ==
  ASSUME NEW d \in Downloads, NEW s, Situation(s), NEW inUse
  PROVE  \/ Completing(d, s, inUse, 0) = s
         \/ AllDone(s.r.segs) /\ Completing(d, s, inUse, 0) = Refused(s)
         \/ AllDone(s.r.segs) /\ s.path[Part(d)] = None /\ Completing(d, s, inUse, 0) = Gone(d, s)
         \/ AllDone(s.r.segs) /\ s.path[Part(d)] # None /\ Completing(d, s, inUse, 0) = Renamed(d, s)
<1>1. Closed(s, 0).path = s.path
  <2> DEFINE q == [s.r EXCEPT !.buffer = None, !.inode = None]
  <2>1. Closed(s, 0) = [r |-> q, path |-> s.path, file |-> Poured(s), lost |-> s.lost]
    BY ClosedIs
  <2> HIDE DEF q
  <2> QED BY <2>1
<1> QED BY <1>1, Zenon DEF Completing, Refused, Gone, Renamed

\* The finished file is removed before the rename.
LEMMA GoneIs ==
  ASSUME NEW d \in Downloads, NEW s, Situation(s), Final(d) \in Paths
  PROVE  LET c == [Closed(s, 0) EXCEPT !.path[Final(d)] = None] IN
         /\ c = [r |-> [s.r EXCEPT !.buffer = None, !.inode = None],
                 path |-> [s.path EXCEPT ![Final(d)] = None], file |-> Poured(s), lost |-> s.lost]
         /\ Situation(c)
<1> DEFINE r == [s.r EXCEPT !.buffer = None, !.inode = None]
           p == [s.path EXCEPT ![Final(d)] = None]
<1>1. [Closed(s, 0) EXCEPT !.path[Final(d)] = None] = [r |-> r, path |-> p,
                                                       file |-> Poured(s), lost |-> s.lost]
  <2>1. Closed(s, 0) = [r |-> r, path |-> s.path, file |-> Poured(s), lost |-> s.lost]
    BY ClosedIs
  <2> HIDE DEF r
  <2> QED BY <2>1
<1>2. r \in Download /\ r.buffer = None
  BY DEF Situation, Download
<1>3. p \in [Paths -> Inodes \cup {None}]
  BY DEF Situation
<1> HIDE DEF r, p
<1>4. Situation([r |-> r, path |-> p, file |-> Poured(s), lost |-> s.lost])
  BY <1>2, <1>3, PouredIs, Made
<1> QED BY <1>1, <1>4 DEF r, p

\* The rename: the .part file gets the download's name.
LEMMA RenamedIs ==
  ASSUME NEW d \in Downloads, NEW s, Situation(s), Final(d) \in Paths, Part(d) \in Paths
  PROVE  /\ Renamed(d, s) =
              [r |-> [s.r EXCEPT !.buffer = None, !.inode = None, !.state = "Completed",
                                 !.segs = Aborted(s.r.segs)],
               path |-> [s.path EXCEPT ![Final(d)] = s.path[Part(d)], ![Part(d)] = None],
               file |-> Poured(s), lost |-> s.lost]
         /\ Situation(Renamed(d, s)) /\ Kin(Renamed(d, s).r, s.r)
<1> DEFINE q == [s.r EXCEPT !.buffer = None, !.inode = None]
           r == [s.r EXCEPT !.buffer = None, !.inode = None, !.state = "Completed",
                            !.segs = Aborted(s.r.segs)]
           p == [s.path EXCEPT ![Final(d)] = s.path[Part(d)], ![Part(d)] = None]
<1>1. q \in Download /\ q.segs = s.r.segs
  BY DEF Situation, Download
<1>2. [q EXCEPT !.segs = Aborted(s.r.segs), !.state = "Completed"] = r
  BY DEF Situation, Download
<1>3. s.r.segs \in Seq(Segment)
  BY DEF Situation, Download
<1>4. r \in Download /\ r.buffer = None /\ r.segs = Aborted(s.r.segs)
      /\ r.total = s.r.total /\ r.ranges = s.r.ranges
  BY <1>3, SegsAborted DEF Situation, Download
<1>5. p \in [Paths -> Inodes \cup {None}]
  BY DEF Situation
<1>6. Renamed(d, s) = [r |-> r, path |-> p, file |-> Poured(s), lost |-> s.lost]
  <2>1. Closed(s, 0) = [r |-> q, path |-> s.path, file |-> Poured(s), lost |-> s.lost]
    BY ClosedIs
  <2> HIDE DEF q, r
  <2>2. \A a : [[r |-> q, path |-> s.path, file |-> Poured(s), lost |-> s.lost]
           EXCEPT !.path[Final(d)] = s.path[Part(d)], !.path[Part(d)] = None,
                  !.r.segs = a, !.r.state = "Completed"]
        = [r |-> [q EXCEPT !.segs = a, !.state = "Completed"],
           path |-> p, file |-> Poured(s), lost |-> s.lost]
    <3> TAKE a
    <3>1. [[r |-> q, path |-> s.path, file |-> Poured(s), lost |-> s.lost]
             EXCEPT !.path[Final(d)] = s.path[Part(d)], !.path[Part(d)] = None]
          = [r |-> q, path |-> p, file |-> Poured(s), lost |-> s.lost]
      <4>1. \A x, y, z : [[r |-> q,
                           path |-> x, file |-> Poured(s), lost |-> s.lost] EXCEPT !.path[y] = z]
                       = [r |-> q,
                          path |-> [x EXCEPT ![y] = z], file |-> Poured(s), lost |-> s.lost]
        OBVIOUS
      <4>2. p = [[s.path EXCEPT ![Final(d)] = s.path[Part(d)]] EXCEPT ![Part(d)] = None]
        OBVIOUS
      <4> DEFINE m == [s.path EXCEPT ![Final(d)] = s.path[Part(d)]]
                 X == [r |-> q, path |-> s.path, file |-> Poured(s), lost |-> s.lost]
      <4>3. [X EXCEPT !.path[Final(d)] = s.path[Part(d)]] = [r |-> q, path |-> m,
                                                             file |-> Poured(s), lost |-> s.lost]
        BY <4>1
      <4>4. [X EXCEPT !.path[Final(d)] = s.path[Part(d)], !.path[Part(d)] = None]
            = [[X EXCEPT !.path[Final(d)] = s.path[Part(d)]] EXCEPT !.path[Part(d)] = None]
        OBVIOUS
      <4>5. p = [m EXCEPT ![Part(d)] = None]
        BY <4>2
      <4> HIDE DEF p, m
      <4>6. [[r |-> q,
              path |-> m, file |-> Poured(s), lost |-> s.lost] EXCEPT !.path[Part(d)] = None]
            = [r |-> q, path |-> p, file |-> Poured(s), lost |-> s.lost]
        BY <4>1, <4>5
      <4> QED BY <4>3, <4>4, <4>6
    <3> HIDE DEF p
    <3>2. [[r |-> q, path |-> p,
            file |-> Poured(s), lost |-> s.lost] EXCEPT !.r.segs = a, !.r.state = "Completed"]
          = [r |-> [q EXCEPT !.segs = a, !.state = "Completed"],
             path |-> p, file |-> Poured(s), lost |-> s.lost]
      <4>1. [[r |-> q, path |-> p, file |-> Poured(s), lost |-> s.lost] EXCEPT !.r.segs = a]
            = [r |-> [q EXCEPT !.segs = a], path |-> p, file |-> Poured(s), lost |-> s.lost]
        OBVIOUS
      <4>2. \A z : [[r |-> z, path |-> p,
                     file |-> Poured(s), lost |-> s.lost] EXCEPT !.r.state = "Completed"]
                 = [r |-> [z EXCEPT !.state = "Completed"],
                    path |-> p, file |-> Poured(s), lost |-> s.lost]
        OBVIOUS
      <4>3. [[q EXCEPT !.segs = a] EXCEPT !.state = "Completed"]
            = [q EXCEPT !.segs = a, !.state = "Completed"]
        OBVIOUS
      <4> QED BY <4>1, <4>2, <4>3
    <3> QED BY <3>1, <3>2
  <2>3. Renamed(d, s) = [Closed(s, 0) EXCEPT !.path[Final(d)] = s.path[Part(d)],
           !.path[Part(d)] = None, !.r.segs = Aborted(s.r.segs), !.r.state = "Completed"]
    <3>1. Closed(s, 0).r.segs = s.r.segs
      BY <1>1, <2>1
    <3> QED BY <3>1 DEF Renamed
  <2> QED BY <1>2, <2>1, <2>2, <2>3
<1> HIDE DEF q, r, p
<1>9. Kin(r, s.r)
  BY <1>3, <1>4, SegsAborted DEF Kin
<1>10. Situation([r |-> r, path |-> p, file |-> Poured(s), lost |-> s.lost])
  BY <1>4, <1>5, PouredIs, Made
<1> QED BY <1>6, <1>9, <1>10 DEF r, p

-----------------------------------------------------------------------------
(* A disk that is full: what does not find room is cut off the buffer, and *)
(* what is left of it is written.                                          *)

Short(b, left) ==
  IF left >= Len(b.bytes) THEN None
  ELSE [at |-> b.at, bytes |-> SubSeq(b.bytes, 1, Len(b.bytes) - left)]

Cut(s, left) ==
  IF left = 0 \/ s.r.buffer = None THEN s
  ELSE [r |-> [s.r EXCEPT !.buffer = Short(s.r.buffer, left)], path |-> s.path, file |-> s.file,
        lost |-> TRUE]

\* What is left of a buffer is a buffer, or nothing.
LEMMA ShortIs ==
  ASSUME NEW b \in Buffer, NEW left \in Nat
  PROVE  /\ Short(b, left) \in Buffer \cup {None}
         /\ left >= Len(b.bytes) => Short(b, left) = None
         /\ left < Len(b.bytes) =>
              /\ Short(b, left) \in Buffer /\ Short(b, left) # None /\ Short(b, left).at = b.at
              /\ Short(b, left).bytes = SubSeq(b.bytes, 1, Len(b.bytes) - left)
              /\ Len(Short(b, left).bytes) = Len(b.bytes) - left
              /\ \A k \in 1 .. (Len(b.bytes) - left) : Short(b, left).bytes[k] = b.bytes[k]
<1>1. b.at \in Nat /\ b.bytes \in Seq({Junk} \cup Nat) /\ Len(b.bytes) \in Nat \ {0}
  BY BufferIs
<1>2. ASSUME left < Len(b.bytes)
      PROVE  LET a == SubSeq(b.bytes, 1, Len(b.bytes) - left) IN
             /\ a \in Seq({Junk} \cup Nat) \ {<<>>} /\ Len(a) = Len(b.bytes) - left
             /\ \A k \in 1 .. (Len(b.bytes) - left) : a[k] = b.bytes[k]
  <2> DEFINE a == SubSeq(b.bytes, 1, Len(b.bytes) - left)
  <2>1. Len(b.bytes) - left \in 1 .. Len(b.bytes)
    BY <1>1, <1>2
  <2>2. \A k \in 1 .. Len(b.bytes) : b.bytes[k] \in {Junk} \cup Nat
    BY <1>1
  <2>3. /\ a \in Seq({Junk} \cup Nat) /\ Len(a) = Len(b.bytes) - left
        /\ \A k \in 1 .. (Len(b.bytes) - left) : a[k] = b.bytes[k]
    BY <1>1, <2>1, <2>2, SubSeqProperties
  <2>4. a # <<>>
    <3> HIDE DEF a
    <3> QED BY <2>1, <2>3
  <2> QED BY <2>3, <2>4
<1>3. CASE left >= Len(b.bytes)
  BY <1>1, <1>3 DEF Short
<1>4. CASE left < Len(b.bytes)
  <2> DEFINE a == SubSeq(b.bytes, 1, Len(b.bytes) - left)
             c == [at |-> b.at, bytes |-> a]
  <2>1. Short(b, left) = c
    BY <1>1, <1>4 DEF Short
  <2>2. a \in Seq({Junk} \cup Nat) \ {<<>>}
    BY <1>2, <1>4
  <2> HIDE DEF a
  <2>3. c \in Buffer
    BY <1>1, <2>2 DEF Buffer
  <2>4. c # None /\ c.at = b.at /\ c.bytes = a
    BY <2>3, NoneAssumption
  <2> HIDE DEF c
  <2> QED BY <1>1, <1>2, <1>4, <2>1, <2>3, <2>4 DEF a
<1> QED BY <1>1, <1>3, <1>4

\* A situation with less in its buffer is one.
LEMMA CutIs ==
  ASSUME NEW s, Situation(s), NEW left \in Nat
  PROVE  /\ Situation(Cut(s, left)) /\ Kin(Cut(s, left).r, s.r)
         /\ Cut(s, left).path = s.path /\ Cut(s, left).file = s.file
         /\ Cut(s, left).r.segs = s.r.segs /\ Cut(s, left).r.total = s.r.total
         /\ Cut(s, left).r.state = s.r.state /\ Cut(s, left).r.inode = s.r.inode
         /\ Cut(s, left).r.buffer = None
              \/ /\ s.r.buffer # None
                 /\ Cut(s, left).r.buffer \in {s.r.buffer, Short(s.r.buffer, left)}
         /\ s.lost => Cut(s, left).lost
         /\ Cut(s, left) = s \/ Cut(s, left).lost
<1>1. s.r \in Download /\ s.lost \in BOOLEAN
  BY DEF Situation
<1>2. CASE left = 0 \/ s.r.buffer = None
  <2>1. Cut(s, left) = s
    BY <1>2 DEF Cut
  <2> QED BY <1>1, <2>1, KinItself
<1>3. CASE ~(left = 0 \/ s.r.buffer = None)
  <2> DEFINE b == Short(s.r.buffer, left)
             u == [s.r EXCEPT !.buffer = b]
             t == [r |-> u, path |-> s.path, file |-> s.file, lost |-> TRUE]
  <2>1. Cut(s, left) = t
    BY <1>3 DEF Cut
  <2>2. s.r.buffer \in Buffer /\ s.r.inode # None
    BY <1>1, <1>3 DEF Download, Situation
  <2>3. b \in Buffer \cup {None}
    BY <2>2, ShortIs
  <2> HIDE DEF b
  <2>4. /\ u \in Download /\ u.segs = s.r.segs /\ u.total = s.r.total /\ u.ranges = s.r.ranges
        /\ u.state = s.r.state /\ u.inode = s.r.inode /\ u.buffer = b
    BY <1>1, <2>3 DEF Download
  <2> HIDE DEF u
  <2>5. Situation(t)
    <3>1. t.r = u /\ t.path = s.path /\ t.file = s.file /\ t.lost = TRUE
      OBVIOUS
    <3>2. t = [r |-> t.r, path |-> t.path, file |-> t.file, lost |-> t.lost]
      OBVIOUS
    <3> HIDE DEF t
    <3>3. t.path \in [Paths -> Inodes \cup {None}] /\ t.file = [i \in Inodes |-> t.file[i]]
      BY <3>1 DEF Situation
    <3> QED BY <2>2, <2>4, <3>1, <3>2, <3>3 DEF Situation
  <2>6. t.r = u /\ t.path = s.path /\ t.file = s.file /\ t.lost
    OBVIOUS
  <2> HIDE DEF t
  <2>7. Kin(u, s.r)
    BY <1>1, <2>4, KinItself
  <2> QED BY <1>3, <2>1, <2>4, <2>5, <2>6, <2>7 DEF b
<1> QED BY <1>2, <1>3

\* What a flush on a full disk leaves behind is a buffer.
LEMMA RestIs ==
  ASSUME NEW s, Situation(s), NEW left \in Nat, left # 0, s.r.buffer # None,
         left < Len(s.r.buffer.bytes)
  PROVE  LET b == s.r.buffer
             fits == Len(b.bytes) - left
             first == SubSeq(b.bytes, 1, fits)
             rest == [at |-> b.at + fits, bytes |-> SubSeq(b.bytes, fits + 1, Len(b.bytes))]
         IN  /\ rest \in Buffer /\ rest # None /\ fits \in Nat \ {0} /\ b \in Buffer
             /\ rest.at = b.at + fits /\ Len(rest.bytes) = left
             /\ \A k \in 1 .. left : rest.bytes[k] = b.bytes[fits + k]
             /\ Len(first) = fits /\ \A k \in 1 .. fits : first[k] = b.bytes[k]
             /\ Flushed(s, left) =
                  [r |-> [s.r EXCEPT !.buffer = rest], path |-> s.path,
                   file |-> [s.file EXCEPT ![s.r.inode] = Written(@, b.at, first)], lost |-> s.lost]
<1> DEFINE b == s.r.buffer
           fits == Len(b.bytes) - left
           first == SubSeq(b.bytes, 1, fits)
           tail == SubSeq(b.bytes, fits + 1, Len(b.bytes))
           rest == [at |-> b.at + fits, bytes |-> tail]
<1>1. /\ s.r \in Download /\ b \in Buffer
      /\ s = [r |-> s.r, path |-> s.path, file |-> s.file, lost |-> s.lost]
  BY DEF Situation, Download
<1>2. b.at \in Nat /\ b.bytes \in Seq({Junk} \cup Nat) /\ Len(b.bytes) \in Nat \ {0}
  BY <1>1, BufferIs
<1>3. fits \in Nat \ {0} /\ fits < Len(b.bytes) /\ Len(b.bytes) - fits = left
  BY <1>2
<1>4. Flushed(s, left) = [s EXCEPT !.file[s.r.inode] = Written(@, b.at, first), !.r.buffer = rest]
  <2>1. ~(s.r.buffer = None \/ left >= Len(s.r.buffer.bytes))
    BY <1>2
  <2> QED BY <2>1 DEF Flushed
<1>5. \A k \in 1 .. Len(b.bytes) : b.bytes[k] \in {Junk} \cup Nat
  BY <1>2
<1> HIDE DEF fits
<1>6. /\ tail \in Seq({Junk} \cup Nat) /\ Len(tail) = left
      /\ \A k \in 1 .. left : tail[k] = b.bytes[fits + k]
  <2>1. /\ tail \in Seq({Junk} \cup Nat) /\ Len(tail) = Len(b.bytes) - (fits + 1) + 1
        /\ \A k \in 1 .. Len(b.bytes) - (fits + 1) + 1 : tail[k] = b.bytes[(fits + 1) + k - 1]
    BY <1>2, <1>3, <1>5, SubSeqProperties
  <2>2. \A k \in 1 .. left : (fits + 1) + k - 1 = fits + k
    BY <1>3
  <2>3. Len(b.bytes) - (fits + 1) + 1 = left
    BY <1>2, <1>3
  <2>4. \A k \in 1 .. left : tail[k] = b.bytes[fits + k]
    BY <2>1, <2>2, <2>3
  <2> QED BY <2>1, <2>3, <2>4
<1>7. Len(first) = fits /\ \A k \in 1 .. fits : first[k] = b.bytes[k]
  BY <1>2, <1>3, <1>5, SubSeqProperties
<1>8. tail \in Seq({Junk} \cup Nat) \ {<<>>} /\ Len(tail) = left
  BY <1>6
<1> HIDE DEF tail, first
<1>10. rest \in Buffer
  BY <1>2, <1>3, <1>8 DEF Buffer
<1>11. rest # None /\ rest.at = b.at + fits /\ rest.bytes = tail
  BY <1>10, NoneAssumption
<1> HIDE DEF rest
<1>9. [s EXCEPT !.file[s.r.inode] = Written(@, b.at, first), !.r.buffer = rest]
       = [r |-> [s.r EXCEPT !.buffer = rest], path |-> s.path,
          file |-> [s.file EXCEPT ![s.r.inode] = Written(@, b.at, first)], lost |-> s.lost]
  <2> DEFINE f == [s.file EXCEPT ![s.r.inode] = Written(@, b.at, first)]
             m == [s EXCEPT !.file[s.r.inode] = Written(@, b.at, first)]
  <2>1. m = [r |-> s.r, path |-> s.path, file |-> f, lost |-> s.lost]
    BY <1>1
  <2>2. [s EXCEPT !.file[s.r.inode] = Written(@, b.at, first), !.r.buffer = rest]
        = [m EXCEPT !.r.buffer = rest]
    OBVIOUS
  <2> HIDE DEF f, m
  <2>3. [m EXCEPT !.r.buffer = rest]
        = [r |-> [s.r EXCEPT !.buffer = rest], path |-> s.path, file |-> f, lost |-> s.lost]
    BY <2>1
  <2> QED BY <2>2, <2>3 DEF f
<1> QED BY <1>1, <1>3, <1>4, <1>6, <1>7, <1>9, <1>10, <1>11, Zenon DEF fits, first, tail, rest

\* Closing on a full disk is closing with less in the buffer.
LEMMA ClosedCut ==
  ASSUME NEW s, Situation(s), NEW left \in Nat
  PROVE  Closed(s, left) = Closed(Cut(s, left), 0)
<1>1. CASE left = 0
  BY <1>1 DEF Cut
<1>2. CASE s.r.buffer = None
  <2>1. Cut(s, left) = s /\ Flushed(s, left) = s /\ Flushed(s, 0) = s
    BY <1>2 DEF Cut, Flushed
  <2> QED BY <2>1 DEF Closed
<1>3. CASE left # 0 /\ s.r.buffer # None
  <2> DEFINE b == s.r.buffer
             u == [s.r EXCEPT !.buffer = Short(b, left)]
             t == [r |-> u, path |-> s.path, file |-> s.file, lost |-> TRUE]
             v == [s.r EXCEPT !.buffer = None, !.inode = None]
  <2>1. /\ s.r \in Download /\ s.lost \in BOOLEAN
        /\ s = [r |-> s.r, path |-> s.path, file |-> s.file, lost |-> s.lost]
    BY DEF Situation
  <2>2. b \in Buffer /\ b # None
    BY <1>3, <2>1 DEF Download
  <2>3. Cut(s, left) = t /\ Situation(t)
    BY <1>3, CutIs DEF Cut
  <2>4. u.inode = s.r.inode /\ u.buffer = Short(b, left)
    BY <2>1 DEF Download
  <2>5. [u EXCEPT !.buffer = None, !.inode = None] = v
    BY <2>1 DEF Download
  <2>6. Closed(t, 0) = [r |-> v, path |-> s.path, file |-> Poured(t), lost |-> TRUE]
    <3>1. t.r = u /\ t.path = s.path /\ t.lost = TRUE
      OBVIOUS
    <3> HIDE DEF t, u, v
    <3> QED BY <2>3, <2>5, <3>1, ClosedIs
  <2>7. Closed(s, left) = [r |-> v, path |-> s.path, file |-> Flushed(s, left).file, lost |-> TRUE]
        /\ Flushed(s, left).file = Poured(t)
    <3>1. CASE left >= Len(b.bytes)
      <4>1. Flushed(s, left) = s
        BY <3>1 DEF Flushed
      <4>2. Poured(t) = s.file
        <5>1. t.r.buffer = None
          BY <2>2, <2>4, <3>1, ShortIs
        <5> QED BY <5>1 DEF Poured
      <4>3. (s.lost \/ s.r.buffer # None) = TRUE
        BY <2>2
      <4>4. Closed(s, left) = [s EXCEPT !.r.inode = None, !.r.buffer = None,
                                        !.lost = @ \/ s.r.buffer # None]
        BY <4>1 DEF Closed
      <4>5. \A l : [s EXCEPT !.r.inode = None, !.r.buffer = None, !.lost = l]
                   = [r |-> v, path |-> s.path, file |-> s.file, lost |-> l]
        BY <2>1, LetGo
      <4>6. Closed(s, left) = [s EXCEPT !.r.inode = None, !.r.buffer = None, !.lost = TRUE]
        BY <4>3, <4>4
      <4>7. Closed(s, left) = [r |-> v, path |-> s.path, file |-> s.file, lost |-> TRUE]
        BY <4>5, <4>6
      <4> QED BY <4>1, <4>2, <4>7
    <3>2. CASE left < Len(b.bytes)
      <4> DEFINE fits == Len(b.bytes) - left
                 rest == [at |-> b.at + fits, bytes |-> SubSeq(b.bytes, fits + 1, Len(b.bytes))]
                 w == [s.file EXCEPT ![s.r.inode] = Written(@, b.at, SubSeq(b.bytes, 1, fits))]
                 x == [s.r EXCEPT !.buffer = rest]
                 f == [r |-> x, path |-> s.path, file |-> w, lost |-> s.lost]
      <4>1. Flushed(s, left) = f /\ rest # None
        BY <1>3, <2>2, <3>2, RestIs
      <4>2. x.buffer = rest /\ [[x EXCEPT !.inode = None] EXCEPT !.buffer = None] = v
            /\ x = [s.r EXCEPT !.buffer = x.buffer]
        BY <2>1 DEF Download
      <4>3. Poured(t) = w
        <5>1. /\ t.r.buffer # None /\ t.r.buffer.at = b.at
              /\ t.r.buffer.bytes = SubSeq(b.bytes, 1, fits)
          BY <2>2, <2>4, <3>2, ShortIs
        <5>2. t.r.inode = s.r.inode /\ t.file = s.file
          BY <2>4
        <5> HIDE DEF t
        <5> QED BY <5>1, <5>2 DEF Poured
      <4> HIDE DEF rest, w
      <4>4. (f.lost \/ f.r.buffer # None) = TRUE
        BY <4>1, <4>2
      <4>5. Closed(s, left) = [f EXCEPT !.r.inode = None, !.r.buffer = None,
                                        !.lost = @ \/ f.r.buffer # None]
        BY <4>1 DEF Closed
      <4>6. Closed(s, left) = [f EXCEPT !.r.inode = None, !.r.buffer = None, !.lost = TRUE]
        BY <4>4, <4>5
      <4> HIDE DEF x
      <4>7. f = [r |-> f.r, path |-> f.path, file |-> f.file, lost |-> f.lost]
            /\ f.r = x /\ f.path = s.path /\ f.file = w
        OBVIOUS
      <4> HIDE DEF f
      <4>8. Closed(s, left) = [r |-> [[x EXCEPT !.inode = None] EXCEPT !.buffer = None],
                               path |-> s.path, file |-> w, lost |-> TRUE]
        BY <4>6, <4>7, LetGo
      <4> QED BY <4>1, <4>2, <4>3, <4>7, <4>8
    <3>3. left \in Nat /\ Len(b.bytes) \in Nat
      BY <2>2, BufferIs
    <3> QED BY <3>1, <3>2, <3>3
  <2> QED BY <2>3, <2>6, <2>7
<1> QED BY <1>1, <1>2, <1>3

\* So is failing.
LEMMA FailingCut ==
  ASSUME NEW s, Situation(s), NEW left \in Nat
  PROVE  Failing(s, left) = Failing(Cut(s, left), 0)
BY ClosedCut DEF Failing

\* Without a buffer there is nothing to lose.
LEMMA FailingNone ==
  ASSUME NEW s, Situation(s), s.r.buffer = None, NEW left \in Nat
  PROVE  Failing(s, left) = Failing(s, 0)
<1>1. Cut(s, left) = s
  BY DEF Cut
<1> QED BY <1>1, FailingCut

-----------------------------------------------------------------------------
(* There is room for another file. *)

\* A download has two names of its own.
LEMMA PathsOf ==
  ASSUME NEW d \in Downloads
  PROVE  Part(d) \in Paths /\ Final(d) \in Paths
BY NameAssumption DEF Part, Final, Paths, Range

\* There is always a file that nobody names or has open (DiskAssumption).
LEMMA FreeIs ==
  ASSUME TypeOK, NEW d \in Downloads, dl[d].inode = None
  PROVE  /\ Free \in Inodes
         /\ \A p \in Paths : path[p] # Free
         /\ \A e \in Listed : dl[e].inode # Free
<1> DEFINE K == Downloads \X {"part", "final", "open"}
           L == K \ {<<d, "open">>}
           h == [k \in L |-> IF k[2] = "open" THEN dl[k[1]].inode
                             ELSE path[<<FileName[k[1]], k[2]>>]]
           Used(i) == i \in Range(path) \/ \E e \in Listed : dl[e].inode = i
<1>1. IsFiniteSet(L) /\ Cardinality(L) = 3 * Cardinality(Downloads) - 1
  <2>1. IsFiniteSet({"part", "final", "open"}) /\ Cardinality({"part", "final", "open"}) = 3
    <3> DEFINE S == {"part"}
               T == S \cup {"final"}
    <3>2. IsFiniteSet(S) /\ Cardinality(S) = 1
      BY FS_Singleton
    <3>3. "final" \notin S /\ "open" \notin T
      OBVIOUS
    <3>4. ({"part"} \cup {"final"}) \cup {"open"} = T \cup {"open"}
      OBVIOUS
    <3> HIDE DEF S
    <3>6. IsFiniteSet(T) /\ Cardinality(T) = 2
      BY <3>2, <3>3, FS_AddElement
    <3> HIDE DEF T
    <3>7. IsFiniteSet(T \cup {"open"}) /\ Cardinality(T \cup {"open"}) = 3
      BY <3>3, <3>6, FS_AddElement
    <3>5. ({"part"} \cup {"final"}) \cup {"open"} = {"part", "final", "open"}
      OBVIOUS
    <3> QED BY <3>4, <3>5, <3>7
  <2>2. IsFiniteSet(K) /\ Cardinality(K) = Cardinality(Downloads) * 3
    BY <2>1, DiskAssumption, FS_Product
  <2>3. <<d, "open">> \in K
    OBVIOUS
  <2>4. Cardinality(Downloads) \in Nat
    BY DiskAssumption, FS_CardinalityType
  <2> HIDE DEF K
  <2>5. IsFiniteSet(L) /\ Cardinality(L) = Cardinality(K) - 1
    BY <2>2, <2>3, FS_RemoveElement
  <2> HIDE DEF L
  <2> QED BY <2>2, <2>4, <2>5
<1>2. ASSUME NEW i \in Inodes, Used(i)
      PROVE  \E k \in L : h[k] = i
  <2>1. CASE i \in Range(path)
    <3>1. PICK p \in Paths : path[p] = i
      BY <2>1 DEF Range, TypeOK
    <3>2. PICK e \in Downloads, w \in {"part", "final"} : p = <<FileName[e], w>>
      BY NameAssumption DEF Paths, Range
    <3>3. <<e, w>> \in L /\ h[<<e, w>>] = i
      BY <3>1, <3>2
    <3> QED BY <3>3
  <2>2. CASE \E e \in Listed : dl[e].inode = i
    <3>1. PICK e \in Listed : dl[e].inode = i
      BY <2>2
    <3>2. e # d
      BY <3>1, NoneAssumption
    <3>3. <<e, "open">> \in L
      BY <3>1, <3>2 DEF Listed
    <3>4. h[<<e, "open">>] = i
      BY <3>1, <3>3
    <3> QED BY <3>3, <3>4
  <2> QED BY <1>2, <2>1, <2>2
<1>3. \E i \in Inodes : ~Used(i)
  <2> SUFFICES ASSUME \A i \in Inodes : Used(i) PROVE FALSE
    OBVIOUS
  <2> DEFINE g == [i \in Inodes |-> CHOOSE k \in L : h[k] = i]
  <2>1. \A i \in Inodes : \E k \in L : h[k] = i
    BY <1>2
  <2> HIDE DEF L, h
  <2>2. \A i \in Inodes : g[i] \in L /\ h[g[i]] = i
    BY <2>1
  <2> HIDE DEF g
  <2>3. g \in [Inodes -> L]
    BY <2>2 DEF g
  <2>4. g \in Injection(Inodes, L)
    <3>1. \A i, j \in Inodes : g[i] = g[j] => i = j
      BY <2>2
    <3> QED BY <2>3, <3>1 DEF Injection, IsInjective
  <2>5. Cardinality(Inodes) <= Cardinality(L)
    BY <1>1, <2>4, FS_Injection
  <2>6. Cardinality(Inodes) \in Nat /\ Cardinality(Downloads) \in Nat
    BY DiskAssumption, FS_CardinalityType
  <2> QED BY <1>1, <2>5, <2>6, DiskAssumption
<1>4. Free \in Inodes /\ ~Used(Free)
  BY <1>3, Zenon DEF Free
<1> QED BY <1>4, Zenon DEF Range, TypeOK

-----------------------------------------------------------------------------
(* The ranges of a download, whatever the server *)

\* The ranges tile a file of known size; a stream of unknown size is one range
\* from the first byte.
Tiled(r) ==
  IF r.total > 0 THEN r.segs # <<>> => Tiles(r.segs, r.total)
  ELSE Len(r.segs) <= 1 /\ (r.segs # <<>> => r.segs[1].start = 0)

\* Requests are open only while the download runs, and its file is then open too.
Calm(r) ==
  /\ \A i \in DOMAIN r.segs : r.segs[i].reply # None => r.state = "Downloading"
  /\ r.state = "Downloading" => r.inode # None

Fine(s) == Situation(s) /\ Tiled(s.r) /\ Calm(s.r)

\* A tiling depends on where ranges begin and end and on nothing else.
LEMMA TilesSame ==
  ASSUME NEW a \in Seq(Segment), NEW b \in Seq(Segment), Len(a) = Len(b), b # <<>>,
         \A i \in DOMAIN b : a[i].start = b[i].start /\ a[i].end = b[i].end,
         NEW total, Tiles(b, total)
  PROVE  Tiles(a, total)
<1>1. /\ DOMAIN a = 1 .. Len(b) /\ DOMAIN b = 1 .. Len(b) /\ Len(b) \in Nat /\ Len(b) >= 1
      /\ 1 \in DOMAIN b /\ Len(b) \in DOMAIN b
  OBVIOUS
<1>2. \A i \in 2 .. Len(b) : a[i].start = a[i - 1].end + 1
  <2> TAKE i \in 2 .. Len(b)
  <2>1. i \in DOMAIN b /\ i - 1 \in DOMAIN b
    BY <1>1
  <2>2. \A j \in 2 .. Len(b) : b[j].start = b[j - 1].end + 1
    BY DEF Tiles
  <2> QED BY <2>1, <2>2
<1>3. b[1].start = 0 /\ b[Len(b)].end = total - 1 /\ \A i \in DOMAIN b : b[i].start <= b[i].end
  BY DEF Tiles
<1>4. a[1].start = 0 /\ a[Len(a)].end = total - 1 /\ \A i \in DOMAIN a : a[i].start <= a[i].end
  BY <1>1, <1>3
<1> QED BY <1>1, <1>2, <1>4 DEF Tiles

\* So does a download's.
LEMMA TiledSame ==
  ASSUME NEW q \in Download, NEW r \in Download, Tiled(r), q.total = r.total,
         Len(q.segs) = Len(r.segs),
         \A j \in DOMAIN r.segs :
           q.segs[j].start = r.segs[j].start /\ q.segs[j].end = r.segs[j].end
  PROVE  Tiled(q)
<1>1. /\ q.segs \in Seq(Segment) /\ r.segs \in Seq(Segment)
      /\ DOMAIN r.segs = 1 .. Len(r.segs) /\ Len(r.segs) \in Nat
      /\ (q.segs = <<>> <=> r.segs = <<>>)
  BY DEF Download
<1>2. CASE r.total > 0
  BY <1>1, <1>2, TilesSame DEF Tiled
<1>3. CASE ~(r.total > 0)
  <2>1. r.segs # <<>> => 1 \in DOMAIN r.segs
    BY <1>1
  <2> QED BY <1>1, <1>3, <2>1 DEF Tiled
<1> QED BY <1>2, <1>3

\* So kinship keeps it.
LEMMA TiledKin ==
  ASSUME NEW q \in Download, NEW r \in Download, Kin(q, r), Tiled(r)
  PROVE  Tiled(q)
BY TiledSame DEF Kin

\* A download that stopped has no request open.
LEMMA AbortedCalm ==
  ASSUME NEW r \in Download, NEW q \in Download, q.segs = Aborted(r.segs),
         q.state # "Downloading"
  PROVE  Calm(q)
<1>1. r.segs \in Seq(Segment)
  BY DEF Download
<1> QED BY <1>1, SegsAborted DEF Calm

\* A failed download is in order.
LEMMA FailedFine ==
  ASSUME NEW s, Situation(s), Tiled(s.r)
  PROVE  Fine(Failing(s, 0))
<1> DEFINE q == [s.r EXCEPT !.buffer = None, !.inode = None, !.state = "Failed",
                            !.segs = Aborted(s.r.segs)]
<1>1. Failing(s, 0).r = q
  <2>1. Failing(s, 0) = [r |-> q, path |-> s.path, file |-> Poured(s), lost |-> s.lost]
    BY FailingIs
  <2> HIDE DEF q
  <2> QED BY <2>1
<1>2. q.segs = Aborted(s.r.segs) /\ s.r \in Download /\ q.state = "Failed"
  BY DEF Situation, Download
<1> HIDE DEF q
<1>3. Situation(Failing(s, 0)) /\ q \in Download
  BY <1>1, FailingIs DEF Situation
<1>4. Tiled(q)
  BY <1>1, <1>2, <1>3, FailingKin, TiledKin
<1> QED BY <1>1, <1>2, <1>3, <1>4, AbortedCalm DEF Fine

\* Also when the disk is full.
LEMMA FailingFine ==
  ASSUME NEW s, Situation(s), Tiled(s.r), NEW left \in Nat
  PROVE  Fine(Failing(s, left))
<1>1. Situation(Cut(s, left)) /\ Kin(Cut(s, left).r, s.r)
  BY CutIs
<1>2. Cut(s, left).r \in Download /\ s.r \in Download
  BY <1>1 DEF Situation
<1>3. Tiled(Cut(s, left).r)
  BY <1>1, <1>2, TiledKin
<1> QED BY <1>1, <1>3, FailedFine, FailingCut

\* Closing the file leaves the ranges.
LEMMA ClosedKin ==
  ASSUME NEW s, Situation(s)
  PROVE  Kin(Closed(s, 0).r, s.r)
<1> DEFINE q == [s.r EXCEPT !.buffer = None, !.inode = None]
<1>1. Closed(s, 0).r = q
  <2>1. Closed(s, 0) = [r |-> q, path |-> s.path, file |-> Poured(s), lost |-> s.lost]
    BY ClosedIs
  <2> HIDE DEF q
  <2> QED BY <2>1
<1>2. q \in Download /\ s.r \in Download /\ q.segs = s.r.segs /\ q.total = s.r.total
      /\ q.ranges = s.r.ranges
  BY DEF Situation, Download
<1> HIDE DEF q
<1> QED BY <1>1, <1>2, KinItself

\* maybeComplete on a full disk is maybeComplete with less in the buffer.
LEMMA CompletingCut ==
  ASSUME NEW d \in Downloads, NEW s, Situation(s), NEW inUse, NEW left \in Nat
  PROVE  Completing(d, s, inUse, left) \in {s, Completing(d, Cut(s, left), inUse, 0)}
<1> DEFINE c == Closed(s, left)
           t == Cut(s, left)
           g == [c EXCEPT !.path[Final(d)] = None]
<1>1. /\ Situation(t) /\ t.path = s.path /\ t.r.segs = s.r.segs /\ t.r.total = s.r.total
      /\ c = Closed(t, 0)
  BY CutIs, ClosedCut
<1>2. Situation(c) /\ c.r.buffer = None
  <2> DEFINE q == [t.r EXCEPT !.buffer = None, !.inode = None]
  <2>1. c = [r |-> q, path |-> t.path, file |-> Poured(t), lost |-> t.lost] /\ Situation(c)
    BY <1>1, ClosedIs
  <2>2. q.buffer = None
    BY <1>1 DEF Situation, Download
  <2> HIDE DEF q, c
  <2> QED BY <2>1, <2>2
<1>3. Situation(g) /\ g.r.buffer = None
  <2>1. g = [Closed(t, 0) EXCEPT !.path[Final(d)] = None]
    BY <1>1
  <2>2. Situation(g)
    BY <1>1, <2>1, GoneIs, PathsOf
  <2>3. g.r = c.r
    <3>1. c = [r |-> c.r, path |-> c.path, file |-> c.file, lost |-> c.lost]
      BY <1>2 DEF Situation
    <3> HIDE DEF c
    <3> QED BY <3>1
  <2> QED BY <1>2, <2>2, <2>3
<1>4. Failing(c, left) = Failing(c, 0) /\ Failing(g, left) = Failing(g, 0)
  BY <1>2, <1>3, FailingNone
<1>5. Completing(d, s, inUse, left) =
        IF ~AllDone(s.r.segs) THEN s
        ELSE IF s.r.total > 0 /\ receivedBytes(s.r.segs) # s.r.total THEN Failing(c, left)
        ELSE IF inUse THEN Failing(c, left)
        ELSE IF s.path[Part(d)] = None THEN Failing(g, left)
        ELSE [c EXCEPT !.path[Final(d)] = c.path[Part(d)], !.path[Part(d)] = None,
                       !.r.segs = Aborted(@), !.r.state = "Completed"]
  BY DEF Completing
<1>6. Completing(d, t, inUse, 0) =
        IF ~AllDone(t.r.segs) THEN t
        ELSE IF t.r.total > 0 /\ receivedBytes(t.r.segs) # t.r.total THEN Failing(c, 0)
        ELSE IF inUse THEN Failing(c, 0)
        ELSE IF t.path[Part(d)] = None THEN Failing(g, 0)
        ELSE [c EXCEPT !.path[Final(d)] = c.path[Part(d)], !.path[Part(d)] = None,
                       !.r.segs = Aborted(@), !.r.state = "Completed"]
  BY <1>1 DEF Completing
<1> HIDE DEF c, t, g
<1> QED BY <1>1, <1>4, <1>5, <1>6, Zenon DEF t

\* Whatever maybeComplete comes to, the download is in order.
LEMMA CompletedFine ==
  ASSUME NEW d \in Downloads, NEW s, Fine(s), NEW inUse
  PROVE  Fine(Completing(d, s, inUse, 0))
<1>1. Part(d) \in Paths /\ Final(d) \in Paths /\ Situation(s) /\ Tiled(s.r) /\ s.r \in Download
  BY PathsOf DEF Fine, Situation
<1>2. Fine(Refused(s))
  <2>1. Situation(Closed(s, 0)) /\ Closed(s, 0).r \in Download
    BY <1>1, ClosedIs DEF Situation
  <2>2. Tiled(Closed(s, 0).r)
    BY <1>1, <2>1, ClosedKin, TiledKin
  <2> QED BY <2>1, <2>2, FailingFine DEF Refused
<1>3. Fine(Gone(d, s))
  <2> DEFINE c == [Closed(s, 0) EXCEPT !.path[Final(d)] = None]
             q == [s.r EXCEPT !.buffer = None, !.inode = None]
  <2>1. Situation(c) /\ c = [r |-> q, path |-> [s.path EXCEPT ![Final(d)] = None],
                             file |-> Poured(s), lost |-> s.lost]
    BY <1>1, GoneIs
  <2>2. q.segs = s.r.segs /\ q.total = s.r.total /\ q.ranges = s.r.ranges
    BY <1>1 DEF Download
  <2>3. Gone(d, s) = Failing(c, 0)
    BY DEF Gone
  <2> HIDE DEF c, q
  <2>4. c.r = q
    BY <2>1
  <2>5. c.r \in Download
    BY <2>1 DEF Situation
  <2>6. Tiled(c.r)
    BY <1>1, <2>2, <2>4, <2>5, KinItself, TiledKin
  <2> QED BY <2>1, <2>3, <2>6, FailingFine
<1>4. Fine(Renamed(d, s))
  <2> DEFINE q == [s.r EXCEPT !.buffer = None, !.inode = None, !.state = "Completed",
                              !.segs = Aborted(s.r.segs)]
  <2>1. /\ Situation(Renamed(d, s)) /\ Kin(Renamed(d, s).r, s.r)
        /\ Renamed(d, s) =
             [r |-> q, path |-> [s.path EXCEPT ![Final(d)] = s.path[Part(d)], ![Part(d)] = None],
              file |-> Poured(s), lost |-> s.lost]
    BY <1>1, RenamedIs
  <2>2. q.segs = Aborted(s.r.segs) /\ q.state = "Completed"
    BY <1>1 DEF Download
  <2> HIDE DEF q
  <2>3. Renamed(d, s).r = q
    BY <2>1
  <2>4. q \in Download
    BY <2>1, <2>3 DEF Situation
  <2> QED BY <1>1, <2>1, <2>2, <2>3, <2>4, TiledKin, AbortedCalm DEF Fine
<1> QED BY <1>1, <1>2, <1>3, <1>4, CompletingIs

\* Also when the disk is full.
LEMMA CompletingFine ==
  ASSUME NEW d \in Downloads, NEW s, Fine(s), NEW inUse, NEW left \in Nat
  PROVE  Fine(Completing(d, s, inUse, left))
<1>1. Situation(s) /\ Situation(Cut(s, left)) /\ Kin(Cut(s, left).r, s.r)
      /\ Cut(s, left).r.segs = s.r.segs /\ Cut(s, left).r.state = s.r.state
      /\ Cut(s, left).r.inode = s.r.inode
  BY CutIs DEF Fine
<1>2. Cut(s, left).r \in Download /\ s.r \in Download
  BY <1>1 DEF Situation
<1>3. Fine(Cut(s, left))
  BY <1>1, <1>2, TiledKin DEF Fine, Calm
<1> QED BY <1>1, <1>3, CompletedFine, CompletingCut

\* What beginSegments makes of a download whose file is open
Running(s, chances) == [s EXCEPT !.r.state = "Downloading", !.r.kicked = chances]

\* startSegments, when the file is open: the state is Downloading.
LEMMA RunningIs ==
  ASSUME NEW s, Situation(s), s.r.inode # None, NEW b \in BOOLEAN
  PROVE  /\ Running(s, b) = [r |-> [s.r EXCEPT !.state = "Downloading", !.kicked = b],
                             path |-> s.path, file |-> s.file, lost |-> s.lost]
         /\ Situation(Running(s, b)) /\ Kin(Running(s, b).r, s.r)
         /\ Running(s, b).r.state = "Downloading" /\ Running(s, b).r.inode = s.r.inode
<1> DEFINE u == [s.r EXCEPT !.state = "Downloading", !.kicked = b]
<1>1. Running(s, b) = [r |-> u, path |-> s.path, file |-> s.file, lost |-> s.lost]
  <2>1. \A x, y, z : [[r |-> x,
                       path |-> y, file |-> z, lost |-> s.lost] EXCEPT !.r.state = "Downloading"]
                     = [r |-> [x EXCEPT !.state = "Downloading"],
                        path |-> y, file |-> z, lost |-> s.lost]
    OBVIOUS
  <2>2. \A x, y, z : [[r |-> x, path |-> y, file |-> z, lost |-> s.lost] EXCEPT !.r.kicked = b]
                     = [r |-> [x EXCEPT !.kicked = b], path |-> y, file |-> z, lost |-> s.lost]
    OBVIOUS
  <2>3. u = [[s.r EXCEPT !.state = "Downloading"] EXCEPT !.kicked = b]
    OBVIOUS
  <2>4. s = [r |-> s.r, path |-> s.path, file |-> s.file, lost |-> s.lost]
    BY DEF Situation
  <2> HIDE DEF u
  <2>5. Running(s, b) = [[s EXCEPT !.r.state = "Downloading"] EXCEPT !.r.kicked = b]
    BY DEF Running
  <2>6. [s EXCEPT !.r.state = "Downloading"]
          = [r |-> [s.r EXCEPT !.state = "Downloading"],
             path |-> s.path, file |-> s.file, lost |-> s.lost]
    BY <2>1, <2>4
  <2> QED BY <2>2, <2>3, <2>5, <2>6
<1>2. u \in Download /\ u.segs = s.r.segs /\ u.total = s.r.total /\ u.ranges = s.r.ranges
      /\ u.state = "Downloading" /\ u.inode # None /\ u.inode = s.r.inode /\ s.r \in Download
  BY DEF Situation, Download
<1> HIDE DEF u
<1>3. Situation([r |-> u, path |-> s.path, file |-> s.file, lost |-> s.lost])
  BY <1>2, Made DEF Situation
<1>4. Running(s, b).r = u
  BY <1>1
<1> QED BY <1>1, <1>2, <1>3, <1>4, KinItself DEF u

\* The download of a situation is one of the list, and its server has a file.
LEMMA BeginningFine ==
  ASSUME TypeOK, NEW d \in Downloads, remote[d] # None,
         NEW s, Situation(s), Tiled(s.r), Calm(s.r),
         s.path = path, s.r.inode = dl[d].inode,
         NEW opens, NEW inUse, NEW left \in Nat
  PROVE  Fine(Beginning(d, s, opens, inUse, left))
<1>1. remote[d] \in Remote
  BY DEF TypeOK
<1>2. CASE s.r.inode = None /\ ~opens
  BY <1>2, FailingFine DEF Beginning
<1>3. CASE ~(s.r.inode = None /\ ~opens)
  <2> DEFINE w == Opened(d, s)
             o == Running(w, FALSE)
  <2>1. Situation(w) /\ w.r \in Download
        /\ w.r.inode # None /\ w.r.segs = s.r.segs /\ w.r.total = s.r.total /\ w.r.ranges = s.r.ranges
    <3>1. CASE s.r.inode # None
      BY <3>1 DEF Opened, Situation
    <3>2. CASE s.r.inode = None
      <4> DEFINE i == IF s.path[Part(d)] # None THEN s.path[Part(d)] ELSE Free
                 r == [s.r EXCEPT !.inode = i]
      <4>1. i \in Inodes
        BY <3>2, FreeIs, PathsOf DEF TypeOK
      <4>2. r.segs = s.r.segs /\ r.total = s.r.total /\ r.ranges = s.r.ranges /\ r.inode = i
        BY DEF Situation, Download
      <4> HIDE DEF i
      <4>3. /\ Situation(w)
            /\ w = [r |-> r, path |-> [s.path EXCEPT ![Part(d)] = i],
                    file |-> [s.file EXCEPT ![i] = IF s.r.total > 0 THEN Resized(@, s.r.total)
                                                   ELSE @], lost |-> s.lost]
        BY <3>2, <4>1, PathsOf, OpenedIs DEF i
      <4> HIDE DEF r, w
      <4>4. w.r = r
        BY <4>3
      <4> QED BY <4>1, <4>2, <4>3, <4>4, NoneAssumption DEF Situation
    <3> QED BY <3>1, <3>2
  <2> HIDE DEF w
  <2>5. Situation(o) /\ Kin(o.r, w.r) /\ o.r.state = "Downloading" /\ o.r.inode # None
    BY <2>1, RunningIs
  <2>11. Beginning(d, s, opens, inUse, left) = Completing(d, Requested(d, o), inUse, left)
    BY <1>3, Zenon DEF Beginning, Running, w
  <2> HIDE DEF o
  <2>6. Situation(o) /\ s.r \in Download /\ o.r \in Download
    BY <2>5 DEF Situation
  <2>7. Tiled(o.r) /\ o.r.state = "Downloading"
    BY <2>1, <2>5, <2>6, KinItself, TiledKin
  <2>8. Situation(Requested(d, o)) /\ Kin(Requested(d, o).r, o.r)
    BY <1>1, <2>6, RequestedIs
  <2>9. Requested(d, o).r.state = "Downloading" /\ Requested(d, o).r.inode # None
    <3> DEFINE segs == [i \in DOMAIN o.r.segs |-> Request(d, o.r, o.r.segs[i])]
               q == [o.r EXCEPT !.segs = segs]
    <3>1. Requested(d, o) = [r |-> q, path |-> o.path, file |-> o.file, lost |-> o.lost]
      BY <1>1, <2>6, RequestedIs
    <3>2. q.state = "Downloading" /\ q.inode # None
      BY <2>5, <2>7, <2>6 DEF Situation, Download
    <3> HIDE DEF q
    <3> QED BY <3>1, <3>2
  <2>10. Fine(Requested(d, o))
    <3>1. Requested(d, o).r \in Download /\ o.r \in Download
      BY <2>6, <2>8 DEF Situation
    <3> QED BY <2>7, <2>8, <2>9, <3>1, TiledKin DEF Fine, Calm
  <2> QED BY <2>10, <2>11, CompletingFine
<1> QED BY <1>2, <1>3

\* What the handlers change of a download before they go on: the new start of
\* one, the plan of a probe, a pause, a second chance
Awake(s, quiet) == [s EXCEPT !.r.quiet = quiet]
Planned(s, total, segs, ranges) ==
  [s EXCEPT !.r.total = total, !.r.segs = segs, !.r.ranges = ranges]
Pausing(s) == [s EXCEPT !.r.segs = Aborted(@), !.r.state = "Paused"]
Kicked(s, kicked, quiet) == [s EXCEPT !.r.kicked = kicked, !.r.quiet = quiet]

\* The stall clock is set.
LEMMA AwakeIs ==
  ASSUME NEW s, Situation(s), NEW b \in BOOLEAN
  PROVE  /\ Awake(s, b) = [r |-> [s.r EXCEPT !.quiet = b],
                           path |-> s.path, file |-> s.file, lost |-> s.lost]
         /\ Situation(Awake(s, b)) /\ Kin(Awake(s, b).r, s.r)
         /\ Awake(s, b).r.segs = s.r.segs /\ Awake(s, b).r.state = s.r.state
         /\ Awake(s, b).r.inode = s.r.inode /\ Awake(s, b).path = s.path
         /\ Awake(s, b).r.total = s.r.total
<1> DEFINE u == [s.r EXCEPT !.quiet = b]
<1>1. Awake(s, b) = [r |-> u, path |-> s.path, file |-> s.file, lost |-> s.lost]
  <2>1. s = [r |-> s.r, path |-> s.path, file |-> s.file, lost |-> s.lost]
    BY DEF Situation
  <2> QED BY <2>1 DEF Awake
<1>2. u \in Download /\ u.segs = s.r.segs /\ u.total = s.r.total /\ u.ranges = s.r.ranges
      /\ u.state = s.r.state /\ u.inode = s.r.inode /\ s.r \in Download
      /\ (u.buffer # None => u.inode # None)
  BY DEF Situation, Download
<1> HIDE DEF u
<1>3. Situation([r |-> u, path |-> s.path, file |-> s.file, lost |-> s.lost])
  BY <1>2, Made DEF Situation
<1>4. Awake(s, b).r = u /\ Awake(s, b).path = s.path
  BY <1>1
<1> QED BY <1>1, <1>2, <1>3, <1>4, KinItself DEF u

\* The probe's result: the size and the plan
LEMMA PlannedIs ==
  ASSUME NEW s, Situation(s), NEW total \in {-1} \cup Nat, NEW segs \in Seq(Segment),
         NEW b \in BOOLEAN
  PROVE  /\ Situation(Planned(s, total, segs, b))
         /\ Planned(s, total, segs, b).r \in Download
         /\ Planned(s, total, segs, b).r.buffer = s.r.buffer
         /\ Planned(s, total, segs, b).file = s.file
         /\ Planned(s, total, segs, b).r.total = total
         /\ Planned(s, total, segs, b).r.segs = segs
         /\ Planned(s, total, segs, b).r.ranges = b
         /\ Planned(s, total, segs, b).r.inode = s.r.inode
         /\ Planned(s, total, segs, b).r.state = s.r.state
         /\ Planned(s, total, segs, b).path = s.path
<1> DEFINE u == [s.r EXCEPT !.total = total, !.segs = segs, !.ranges = b]
<1>1. Planned(s, total, segs, b) = [r |-> u, path |-> s.path, file |-> s.file, lost |-> s.lost]
  <2>1. s = [r |-> s.r, path |-> s.path, file |-> s.file, lost |-> s.lost]
    BY DEF Situation
  <2>2. \A x, y, z : [[r |-> x, path |-> y, file |-> z, lost |-> s.lost] EXCEPT !.r.total = total]
                     = [r |-> [x EXCEPT !.total = total], path |-> y, file |-> z, lost |-> s.lost]
    OBVIOUS
  <2>3. \A x, y, z : [[r |-> x, path |-> y, file |-> z, lost |-> s.lost] EXCEPT !.r.segs = segs]
                     = [r |-> [x EXCEPT !.segs = segs], path |-> y, file |-> z, lost |-> s.lost]
    OBVIOUS
  <2>4. \A x, y, z : [[r |-> x, path |-> y, file |-> z, lost |-> s.lost] EXCEPT !.r.ranges = b]
                     = [r |-> [x EXCEPT !.ranges = b], path |-> y, file |-> z, lost |-> s.lost]
    OBVIOUS
  <2>5. u = [[[s.r EXCEPT !.total = total] EXCEPT !.segs = segs] EXCEPT !.ranges = b]
    OBVIOUS
  <2> HIDE DEF u
  <2>6. Planned(s, total, segs, b)
          = [[[s EXCEPT !.r.total = total] EXCEPT !.r.segs = segs] EXCEPT !.r.ranges = b]
    BY DEF Planned
  <2>7. [s EXCEPT !.r.total = total]
          = [r |-> [s.r EXCEPT !.total = total], path |-> s.path, file |-> s.file, lost |-> s.lost]
    BY <2>1, <2>2
  <2>8. [[s EXCEPT !.r.total = total] EXCEPT !.r.segs = segs]
          = [r |-> [[s.r EXCEPT !.total = total] EXCEPT !.segs = segs],
             path |-> s.path, file |-> s.file, lost |-> s.lost]
    <3> DEFINE m == [s EXCEPT !.r.total = total]
               v == [s.r EXCEPT !.total = total]
    <3>1. m = [r |-> v, path |-> s.path, file |-> s.file, lost |-> s.lost]
      BY <2>7
    <3> HIDE DEF m, v
    <3>2. [m EXCEPT !.r.segs = segs]
            = [r |-> [v EXCEPT !.segs = segs], path |-> s.path, file |-> s.file, lost |-> s.lost]
      BY <2>3, <3>1
    <3> QED BY <3>2 DEF m, v
  <2> QED BY <2>4, <2>5, <2>6, <2>8
<1>2. u \in Download /\ u.segs = segs /\ u.total = total /\ u.ranges = b
      /\ u.state = s.r.state /\ u.inode = s.r.inode
      /\ (u.buffer # None => u.inode # None) /\ u.buffer = s.r.buffer
  BY DEF Situation, Download
<1> HIDE DEF u
<1>3. Situation([r |-> u, path |-> s.path, file |-> s.file, lost |-> s.lost])
  BY <1>2, Made DEF Situation
<1>4. Planned(s, total, segs, b).r = u /\ Planned(s, total, segs, b).path = s.path
      /\ Planned(s, total, segs, b).file = s.file
  BY <1>1
<1> QED BY <1>1, <1>2, <1>3, <1>4

\* pause(): requests aborted, state Paused
LEMMA PausingIs ==
  ASSUME NEW s, Situation(s)
  PROVE  /\ Pausing(s) = [r |-> [s.r EXCEPT !.segs = Aborted(s.r.segs), !.state = "Paused"],
                          path |-> s.path, file |-> s.file, lost |-> s.lost]
         /\ Situation(Pausing(s)) /\ Kin(Pausing(s).r, s.r) /\ Calm(Pausing(s).r)
<1> DEFINE a == Aborted(s.r.segs)
           u == [s.r EXCEPT !.segs = a, !.state = "Paused"]
<1>1. s.r \in Download /\ s.r.segs \in Seq(Segment)
  BY DEF Situation, Download
<1>2. a \in Seq(Segment)
  BY <1>1, SegsAborted
<1>3. Pausing(s) = [r |-> u, path |-> s.path, file |-> s.file, lost |-> s.lost]
  <2>1. s = [r |-> s.r, path |-> s.path, file |-> s.file, lost |-> s.lost]
    BY DEF Situation
  <2>2. \A x, y, z : [[r |-> x, path |-> y, file |-> z, lost |-> s.lost] EXCEPT !.r.segs = a]
                     = [r |-> [x EXCEPT !.segs = a], path |-> y, file |-> z, lost |-> s.lost]
    OBVIOUS
  <2>3. \A x, y, z : [[r |-> x,
                       path |-> y, file |-> z, lost |-> s.lost] EXCEPT !.r.state = "Paused"]
                     = [r |-> [x EXCEPT !.state = "Paused"],
                        path |-> y, file |-> z, lost |-> s.lost]
    OBVIOUS
  <2>4. u = [[s.r EXCEPT !.segs = a] EXCEPT !.state = "Paused"]
    OBVIOUS
  <2>5. Pausing(s) = [[s EXCEPT !.r.segs = a] EXCEPT !.r.state = "Paused"]
    BY DEF Pausing
  <2> HIDE DEF u, a
  <2>6. [s EXCEPT !.r.segs = a]
          = [r |-> [s.r EXCEPT !.segs = a], path |-> s.path, file |-> s.file, lost |-> s.lost]
    BY <2>1, <2>2
  <2> QED BY <2>3, <2>4, <2>5, <2>6
<1> HIDE DEF a
<1>4. u \in Download /\ u.segs = a /\ u.total = s.r.total /\ u.ranges = s.r.ranges
      /\ u.state = "Paused"
      /\ (u.buffer # None => u.inode # None)
  BY <1>1, <1>2 DEF Situation, Download
<1> HIDE DEF u
<1>5. Situation([r |-> u, path |-> s.path, file |-> s.file, lost |-> s.lost])
  BY <1>4, Made DEF Situation
<1>6. Pausing(s).r = u
  BY <1>3
<1>7. Kin(u, s.r)
  BY <1>1, <1>4, SegsAborted DEF Kin, a
<1>8. Calm(u)
  BY <1>1, <1>4, AbortedCalm DEF a
<1> QED BY <1>3, <1>5, <1>6, <1>7, <1>8 DEF u, a

\* The stall detector asks again, or gives up.
LEMMA KickedIs ==
  ASSUME NEW s, Situation(s), NEW b \in BOOLEAN, NEW c \in BOOLEAN
  PROVE  /\ Kicked(s, b, c) = [r |-> [s.r EXCEPT !.kicked = b, !.quiet = c],
                               path |-> s.path, file |-> s.file, lost |-> s.lost]
         /\ Situation(Kicked(s, b, c)) /\ Kin(Kicked(s, b, c).r, s.r)
         /\ Kicked(s, b, c).r.inode = s.r.inode
         /\ Kicked(s, b, c).r.segs = s.r.segs /\ Kicked(s, b, c).r.state = s.r.state
<1> DEFINE u == [s.r EXCEPT !.kicked = b, !.quiet = c]
<1>1. Kicked(s, b, c) = [r |-> u, path |-> s.path, file |-> s.file, lost |-> s.lost]
  <2>1. s = [r |-> s.r, path |-> s.path, file |-> s.file, lost |-> s.lost]
    BY DEF Situation
  <2>2. \A x, y, z : [[r |-> x, path |-> y, file |-> z, lost |-> s.lost] EXCEPT !.r.kicked = b]
                     = [r |-> [x EXCEPT !.kicked = b], path |-> y, file |-> z, lost |-> s.lost]
    OBVIOUS
  <2>3. \A x, y, z : [[r |-> x, path |-> y, file |-> z, lost |-> s.lost] EXCEPT !.r.quiet = c]
                     = [r |-> [x EXCEPT !.quiet = c], path |-> y, file |-> z, lost |-> s.lost]
    OBVIOUS
  <2>4. u = [[s.r EXCEPT !.kicked = b] EXCEPT !.quiet = c]
    OBVIOUS
  <2>5. Kicked(s, b, c) = [[s EXCEPT !.r.kicked = b] EXCEPT !.r.quiet = c]
    BY DEF Kicked
  <2> HIDE DEF u
  <2>6. [s EXCEPT !.r.kicked = b]
          = [r |-> [s.r EXCEPT !.kicked = b], path |-> s.path, file |-> s.file, lost |-> s.lost]
    BY <2>1, <2>2
  <2> QED BY <2>3, <2>4, <2>5, <2>6
<1>2. u \in Download /\ u.segs = s.r.segs /\ u.total = s.r.total /\ u.ranges = s.r.ranges
      /\ u.state = s.r.state /\ u.inode = s.r.inode /\ s.r \in Download /\ (u.buffer # None => u.inode # None)
  BY DEF Situation, Download
<1> HIDE DEF u
<1>3. Situation([r |-> u, path |-> s.path, file |-> s.file, lost |-> s.lost])
  BY <1>2, Made DEF Situation
<1>4. Kicked(s, b, c).r = u
  BY <1>1
<1> QED BY <1>1, <1>2, <1>3, <1>4, KinItself DEF u

\* Bytes that came, a request that ended, a stream whose size is known now
Brought(s, i, buffer, seg, quiet) ==
  [s EXCEPT !.r.buffer = buffer, !.r.segs[i] = seg, !.r.quiet = quiet]
Rested(s, i) == [s EXCEPT !.r.segs[i].reply = None]
Measured(s, i, n) == [s EXCEPT !.r.total = n, !.r.segs[i].end = n - 1]

\* One range is changed, the others are not.
LEMMA SegPut ==
  ASSUME NEW segs \in Seq(Segment), NEW i \in DOMAIN segs, NEW g \in Segment
  PROVE  /\ [segs EXCEPT ![i] = g] \in Seq(Segment) /\ segs[i] \in Segment
         /\ Len([segs EXCEPT ![i] = g]) = Len(segs)
         /\ DOMAIN [segs EXCEPT ![i] = g] = DOMAIN segs
         /\ DOMAIN segs = 1 .. Len(segs) /\ Len(segs) \in Nat
<1>1. DOMAIN segs = 1 .. Len(segs) /\ Len(segs) \in Nat
  OBVIOUS
<1>2. \A j \in DOMAIN segs : segs[j] \in Segment
  BY <1>1
<1>3. [segs EXCEPT ![i] = g] \in [1 .. Len(segs) -> Segment]
  BY <1>1, <1>2
<1> QED BY <1>1, <1>2, <1>3

\* A chunk: it is in the buffer, and its range has received that much.
LEMMA BroughtIs ==
  ASSUME NEW s, Situation(s), s.r.inode # None, NEW i \in DOMAIN s.r.segs,
         NEW buffer \in Buffer, NEW g \in Segment, NEW b \in BOOLEAN
  PROVE  /\ Situation(Brought(s, i, buffer, g, b))
         /\ Brought(s, i, buffer, g, b).path = s.path
         /\ Brought(s, i, buffer, g, b).file = s.file /\ Brought(s, i, buffer, g, b).lost = s.lost
         /\ Brought(s, i, buffer, g, b).r.total = s.r.total
         /\ Brought(s, i, buffer, g, b).r.ranges = s.r.ranges
         /\ Brought(s, i, buffer, g, b).r.state = s.r.state
         /\ Brought(s, i, buffer, g, b).r.inode = s.r.inode
         /\ Brought(s, i, buffer, g, b).r.buffer = buffer
         /\ Brought(s, i, buffer, g, b).r.segs = [s.r.segs EXCEPT ![i] = g]
<1> DEFINE a == [s.r.segs EXCEPT ![i] = g]
           u == [s.r EXCEPT !.buffer = buffer, !.segs = a, !.quiet = b]
<1>1. s.r \in Download /\ s.r.segs \in Seq(Segment)
  BY DEF Situation, Download
<1>2. a \in Seq(Segment)
  BY <1>1, SegPut
<1>3. Brought(s, i, buffer, g, b) = [r |-> u, path |-> s.path, file |-> s.file, lost |-> s.lost]
  <2>1. s = [r |-> s.r, path |-> s.path, file |-> s.file, lost |-> s.lost]
    BY DEF Situation
  <2>2. \A x, y, z : [[r |-> x, path |-> y, file |-> z, lost |-> s.lost] EXCEPT !.r.buffer = buffer]
                     = [r |-> [x EXCEPT !.buffer = buffer], path |-> y, file |-> z, lost |-> s.lost]
    OBVIOUS
  <2>3. \A x, y, z : [[r |-> x, path |-> y, file |-> z, lost |-> s.lost] EXCEPT !.r.segs[i] = g]
                     = [r |-> [x EXCEPT !.segs = [x.segs EXCEPT ![i] = g]],
                        path |-> y, file |-> z, lost |-> s.lost]
    OBVIOUS
  <2>4. \A x, y, z : [[r |-> x, path |-> y, file |-> z, lost |-> s.lost] EXCEPT !.r.quiet = b]
                     = [r |-> [x EXCEPT !.quiet = b], path |-> y, file |-> z, lost |-> s.lost]
    OBVIOUS
  <2> DEFINE v == [s.r EXCEPT !.buffer = buffer]
             w == [v EXCEPT !.segs = a]
             m == [s EXCEPT !.r.buffer = buffer]
             n == [m EXCEPT !.r.segs[i] = g]
  <2>5. u = [w EXCEPT !.quiet = b]
    OBVIOUS
  <2>6. v.segs = s.r.segs
    BY <1>1 DEF Download
  <2>7. Brought(s, i, buffer, g, b) = [n EXCEPT !.r.quiet = b]
    BY DEF Brought
  <2>8. m = [r |-> v, path |-> s.path, file |-> s.file, lost |-> s.lost]
    BY <2>1, <2>2
  <2> HIDE DEF u, v, m
  <2>9. n = [r |-> w, path |-> s.path, file |-> s.file, lost |-> s.lost]
    BY <2>3, <2>6, <2>8
  <2> HIDE DEF w, n
  <2> QED BY <2>4, <2>5, <2>7, <2>9
<1> HIDE DEF a
<1>4. u \in Download /\ u.segs = a /\ u.total = s.r.total /\ u.ranges = s.r.ranges
      /\ u.state = s.r.state /\ u.inode = s.r.inode /\ u.buffer = buffer /\ u.inode # None
  BY <1>1, <1>2 DEF Situation, Download
<1> HIDE DEF u
<1>5. Situation([r |-> u, path |-> s.path, file |-> s.file, lost |-> s.lost])
  BY <1>4, Made DEF Situation
<1>6. /\ Brought(s, i, buffer, g, b).r = u /\ Brought(s, i, buffer, g, b).path = s.path
      /\ Brought(s, i, buffer, g, b).file = s.file /\ Brought(s, i, buffer, g, b).lost = s.lost
  BY <1>3
<1> QED BY <1>3, <1>4, <1>5, <1>6 DEF a

\* An answer has ended: its range has no request.
LEMMA RestedIs ==
  ASSUME NEW s, Situation(s), NEW i \in DOMAIN s.r.segs
  PROVE  /\ Rested(s, i).path = s.path /\ Rested(s, i).file = s.file
         /\ Rested(s, i).lost = s.lost
         /\ Rested(s, i).r.inode = s.r.inode /\ Rested(s, i).r.buffer = s.r.buffer
         /\ Situation(Rested(s, i)) /\ Kin(Rested(s, i).r, s.r)
         /\ Rested(s, i).r.state = s.r.state
         /\ Rested(s, i).r.segs =
              [s.r.segs EXCEPT ![i] = [s.r.segs[i] EXCEPT !.reply = None]]
<1> DEFINE g == [s.r.segs[i] EXCEPT !.reply = None]
           a == [s.r.segs EXCEPT ![i] = g]
           u == [s.r EXCEPT !.segs = a]
<1>1. s.r \in Download /\ s.r.segs \in Seq(Segment)
  BY DEF Situation, Download
<1>2. s.r.segs[i] \in Segment
  BY <1>1
<1>3. g \in Segment /\ g.start = s.r.segs[i].start /\ g.end = s.r.segs[i].end
      /\ g.received = s.r.segs[i].received
  BY <1>2 DEF Segment
<1>4. Rested(s, i) = [r |-> u, path |-> s.path, file |-> s.file, lost |-> s.lost]
  <2>1. s = [r |-> s.r, path |-> s.path, file |-> s.file, lost |-> s.lost]
    BY DEF Situation
  <2>2. Rested(s, i) = [s EXCEPT !.r = [s.r EXCEPT !.segs = a]]
    BY <2>1 DEF Rested
  <2> HIDE DEF a
  <2> QED BY <2>1, <2>2
<1> HIDE DEF g
<1>5. a \in Seq(Segment) /\ Len(a) = Len(s.r.segs) /\ DOMAIN a = DOMAIN s.r.segs
  BY <1>1, <1>3, SegPut
<1>6. \A j \in DOMAIN s.r.segs :
        /\ a[j].start = s.r.segs[j].start /\ a[j].end = s.r.segs[j].end
        /\ a[j].received = s.r.segs[j].received
  BY <1>3
<1> HIDE DEF a
<1>7. u \in Download /\ u.segs = a /\ u.total = s.r.total /\ u.ranges = s.r.ranges
      /\ u.state = s.r.state /\ (u.buffer # None => u.inode # None)
      /\ u.inode = s.r.inode /\ u.buffer = s.r.buffer
  BY <1>1, <1>5 DEF Situation, Download
<1> HIDE DEF u
<1>8. Situation([r |-> u, path |-> s.path, file |-> s.file, lost |-> s.lost])
  BY <1>7, Made DEF Situation
<1>9. Rested(s, i).r = u /\ Rested(s, i).path = s.path /\ Rested(s, i).file = s.file
      /\ Rested(s, i).lost = s.lost
  BY <1>4
<1>10. Kin(u, s.r)
  BY <1>5, <1>6, <1>7 DEF Kin
<1> QED BY <1>4, <1>7, <1>8, <1>9, <1>10 DEF a, g

\* A download without a size has one when its only answer ends.
LEMMA MeasuredIs ==
  ASSUME NEW s, Situation(s), NEW i \in DOMAIN s.r.segs, NEW n \in Nat
  PROVE  /\ Situation(Measured(s, i, n))
         /\ Measured(s, i, n).r.inode = s.r.inode
         /\ Measured(s, i, n).r.total = n /\ Measured(s, i, n).r.state = s.r.state
         /\ Measured(s, i, n).r.segs =
              [s.r.segs EXCEPT ![i] = [s.r.segs[i] EXCEPT !.end = n - 1]]
<1> DEFINE g == [s.r.segs[i] EXCEPT !.end = n - 1]
           a == [s.r.segs EXCEPT ![i] = g]
           u == [s.r EXCEPT !.total = n, !.segs = a]
<1>1. s.r \in Download /\ s.r.segs \in Seq(Segment)
  BY DEF Situation, Download
<1>2. s.r.segs[i] \in Segment
  BY <1>1
<1>3. g \in Segment
  BY <1>2 DEF Segment
<1>4. Measured(s, i, n) = [r |-> u, path |-> s.path, file |-> s.file, lost |-> s.lost]
  <2>1. s = [r |-> s.r, path |-> s.path, file |-> s.file, lost |-> s.lost]
    BY DEF Situation
  <2> DEFINE v == [s.r EXCEPT !.total = n]
             m == [s EXCEPT !.r.total = n]
  <2>2. m = [r |-> v, path |-> s.path, file |-> s.file, lost |-> s.lost]
    BY <2>1
  <2>3. v.segs = s.r.segs
    BY <1>1 DEF Download
  <2>4. u = [v EXCEPT !.segs = a]
    OBVIOUS
  <2>5. Measured(s, i, n) = [m EXCEPT !.r.segs[i].end = n - 1]
    BY DEF Measured
  <2> HIDE DEF u, v, m
  <2>6. [m EXCEPT !.r.segs[i].end = n - 1]
          = [m EXCEPT !.r = [m.r EXCEPT !.segs = [m.r.segs EXCEPT ![i] = [m.r.segs[i] EXCEPT !.end = n - 1]]]]
    OBVIOUS
  <2>7. m.r = v
    BY <2>2
  <2>8. [m EXCEPT !.r.segs[i].end = n - 1] = [m EXCEPT !.r = [v EXCEPT !.segs = a]]
    BY <2>3, <2>6, <2>7
  <2> HIDE DEF a
  <2> QED BY <2>2, <2>4, <2>5, <2>8
<1> HIDE DEF g
<1>5. a \in Seq(Segment)
  BY <1>1, <1>3, SegPut
<1> HIDE DEF a
<1>6. u \in Download /\ u.segs = a /\ u.total = n /\ u.state = s.r.state
      /\ u.inode = s.r.inode
      /\ (u.buffer # None => u.inode # None)
  BY <1>1, <1>5 DEF Situation, Download
<1> HIDE DEF u
<1>7. Situation([r |-> u, path |-> s.path, file |-> s.file, lost |-> s.lost])
  BY <1>6, Made DEF Situation
<1>8. Measured(s, i, n).r = u
  BY <1>4
<1> QED BY <1>4, <1>6, <1>7, <1>8 DEF a, g

Known == \A d \in Downloads : dl[d] # None \/ saved[d] # None => remote[d] # None

\* The types, the servers that downloads have, and the ranges
Ranges ==
  /\ TypeOK /\ Known
  /\ file = [i \in Inodes |-> file[i]]
  /\ \A d \in Listed : Tiled(dl[d]) /\ Calm(dl[d])
  /\ \A d \in Downloads : saved[d] # None =>
       Tiled(saved[d]) /\ \A i \in DOMAIN saved[d].segs : saved[d].segs[i].reply = None

\* Every download is in order between two handlers.
LEMMA AtFine ==
  ASSUME Ranges, NEW d \in Listed
  PROVE  /\ Fine(At(d)) /\ At(d).r = dl[d] /\ At(d).path = path /\ At(d).file = file
         /\ dl[d] \in Download /\ d \in Downloads /\ remote[d] # None /\ remote[d] \in Remote
         /\ dl[d].segs \in Seq(Segment) /\ up
<1>1. At(d) = [r |-> dl[d], path |-> path, file |-> file, lost |-> FALSE]
  BY DEF At
<1>2. d \in Downloads /\ dl[d] \in Download /\ dl[d] # None
  BY DEF Listed, Ranges, TypeOK
<1>3. Situation([r |-> dl[d], path |-> path, file |-> file, lost |-> FALSE])
  <2>1. /\ path \in [Paths -> Inodes \cup {None}] /\ file = [i \in Inodes |-> file[i]]
        /\ dl[d].buffer # None => dl[d].inode # None
    BY DEF Ranges, TypeOK
  <2> QED BY <1>2, <2>1 DEF Situation
<1>4. At(d).r = dl[d] /\ At(d).path = path /\ At(d).file = file
  BY <1>1
<1>5. Tiled(dl[d]) /\ Calm(dl[d])
  BY DEF Ranges
<1>6. remote[d] # None /\ remote[d] \in Remote
  BY <1>2 DEF Ranges, Known, TypeOK
<1>7. dl[d].segs \in Seq(Segment) /\ up
  BY <1>2 DEF Download, Ranges, TypeOK
<1> QED BY <1>1, <1>2, <1>3, <1>4, <1>5, <1>6, <1>7 DEF Fine

\* A handler of one download keeps the invariant if it leaves that one in order.
LEMMA BecomesKeeps ==
  ASSUME Ranges, NEW d \in Listed, NEW s, Fine(s), Becomes(d, s)
  PROVE  Ranges'
<1>1. d \in Downloads /\ dl[d] # None /\ up
  BY DEF Listed, Ranges, TypeOK
<1>2. s.r \in Download /\ s.r # None /\ Tiled(s.r) /\ Calm(s.r)
      /\ s.path \in [Paths -> Inodes \cup {None}] /\ (s.r.buffer # None => s.r.inode # None)
  BY NoneAssumption DEF Fine, Situation
<1>3. dl' = [dl EXCEPT ![d] = s.r] /\ path' = s.path
      /\ file' = Kept(s.file, s.path, dl') /\ UNCHANGED <<up, saved, remote>>
      /\ spoilt' \in {spoilt, spoilt \cup {d}}
  BY DEF Becomes
<1>4. dl \in [Downloads -> Download \cup {None}]
  BY DEF Ranges, TypeOK
<1>5. Listed' = Listed
  BY <1>1, <1>2, <1>3, <1>4 DEF Listed
<1>6. \A e \in Downloads : dl'[e] = IF e = d THEN s.r ELSE dl[e]
  BY <1>3, <1>4
<1>7. DOMAIN file' = Inodes /\ file' = [i \in Inodes |-> file'[i]]
  BY <1>3 DEF Kept
<1>8. saveDue' \in BOOLEAN
  BY DEF Becomes
<1>9. TypeOK'
  <2>1. dl' \in [Downloads -> Download \cup {None}]
    BY <1>2, <1>3, <1>4
  <2>2. \A e \in Listed' :
          /\ \A i \in DOMAIN dl'[e].segs :
               dl'[e].segs[i].reply # None => dl'[e].state = "Downloading"
          /\ dl'[e].buffer # None => dl'[e].inode # None
    <3> TAKE e \in Listed'
    <3>1. e \in Downloads /\ e \in Listed
      BY <1>5 DEF Listed
    <3>2. CASE e = d
      BY <1>2, <1>6, <3>1, <3>2 DEF Calm
    <3>3. CASE e # d
      BY <1>6, <3>1, <3>3 DEF Ranges, TypeOK
    <3> QED BY <3>2, <3>3
  <2> QED BY <1>1, <1>2, <1>3, <1>5, <1>7, <1>8, <2>1, <2>2 DEF Ranges, TypeOK
<1>10. Known'
  BY <1>1, <1>3, <1>6 DEF Ranges, Known
<1>11. \A e \in Listed' : (Tiled(dl[e]) /\ Calm(dl[e]))'
  <2> TAKE e \in Listed'
  <2>1. e \in Downloads /\ e \in Listed
    BY <1>5 DEF Listed
  <2>2. Tiled(dl'[e]) /\ Calm(dl'[e])
    BY <1>2, <1>6, <2>1 DEF Ranges
  <2> QED BY <2>2
<1>12. \A e \in Downloads : saved'[e] # None =>
         Tiled(saved'[e]) /\ \A i \in DOMAIN saved'[e].segs : saved'[e].segs[i].reply = None
  BY <1>3 DEF Ranges
<1> QED BY <1>7, <1>9, <1>10, <1>11, <1>12 DEF Ranges

-----------------------------------------------------------------------------
(* Every step keeps the types and the ranges. *)

\* What aborts, flushes or closes only is still fine.
LEMMA FlushedFine ==
  ASSUME NEW s, Fine(s)
  PROVE  /\ Fine(Flushed(s, 0)) /\ Flushed(s, 0).r.segs = s.r.segs /\ Flushed(s, 0).r.inode = s.r.inode
         /\ Flushed(s, 0).r.buffer = None /\ Flushed(s, 0).r.state = s.r.state
         /\ Flushed(s, 0).r.total = s.r.total
<1> DEFINE q == [s.r EXCEPT !.buffer = None]
<1>1. Situation(s) /\ s.r \in Download
  BY DEF Fine, Situation
<1>2. Flushed(s, 0) = [r |-> q, path |-> s.path,
                       file |-> Poured(s), lost |-> s.lost] /\ Situation(Flushed(s, 0))
  BY <1>1, FlushedIs
<1>3. q \in Download /\ q.segs = s.r.segs /\ q.inode = s.r.inode /\ q.buffer = None
      /\ q.state = s.r.state /\ q.total = s.r.total /\ q.ranges = s.r.ranges
  BY <1>1 DEF Download
<1> HIDE DEF q
<1>4. Flushed(s, 0).r = q
  BY <1>2
<1>5. Tiled(q) /\ Calm(q)
  BY <1>1, <1>3, KinItself, TiledKin DEF Fine, Calm
<1> QED BY <1>2, <1>3, <1>4, <1>5 DEF Fine

\* Also when the disk is full: what does not fit stays.
LEMMA PartlyFine ==
  ASSUME NEW s, Fine(s), NEW left \in Nat
  PROVE  /\ Fine(Flushed(s, left)) /\ Flushed(s, left).r.state = s.r.state
         /\ Kin(Flushed(s, left).r, s.r)
<1>1. Situation(s) /\ s.r \in Download
  BY DEF Fine, Situation
<1>2. CASE left = 0
  <2>1. Fine(Flushed(s, 0)) /\ Flushed(s, 0).r.state = s.r.state
    BY FlushedFine
  <2> DEFINE q == [s.r EXCEPT !.buffer = None]
  <2>2. Flushed(s, 0) = [r |-> q, path |-> s.path, file |-> Poured(s), lost |-> s.lost]
    BY <1>1, FlushedIs
  <2>3. q \in Download /\ q.segs = s.r.segs /\ q.total = s.r.total /\ q.ranges = s.r.ranges
    BY <1>1 DEF Download
  <2> HIDE DEF q
  <2>4. Flushed(s, 0).r = q
    BY <2>2
  <2>5. Kin(q, s.r)
    BY <1>1, <2>3, KinItself
  <2> QED BY <1>2, <2>1, <2>4, <2>5
<1>3. CASE left # 0 /\ (s.r.buffer = None \/ left >= Len(s.r.buffer.bytes))
  <2>1. Flushed(s, left) = s
    BY <1>3 DEF Flushed
  <2> QED BY <1>1, <2>1, KinItself
<1>4. CASE left # 0 /\ s.r.buffer # None /\ left < Len(s.r.buffer.bytes)
  <2> DEFINE b == s.r.buffer
             fits == Len(b.bytes) - left
             w == [s.file EXCEPT ![s.r.inode] = Written(@, b.at, SubSeq(b.bytes, 1, fits))]
  <2> DEFINE rest == [at |-> b.at + fits, bytes |-> SubSeq(b.bytes, fits + 1, Len(b.bytes))]
             q == [s.r EXCEPT !.buffer = rest]
  <2>1. /\ rest \in Buffer
        /\ Flushed(s, left) = [r |-> q, path |-> s.path, file |-> w, lost |-> s.lost]
    BY <1>1, <1>4, RestIs
  <2> HIDE DEF rest, fits
  <2>2. s.r.inode # None /\ w = [i \in Inodes |-> w[i]]
    BY <1>1, <1>4 DEF Situation
  <2>3. /\ q \in Download /\ q.segs = s.r.segs /\ q.total = s.r.total /\ q.ranges = s.r.ranges
        /\ q.state = s.r.state /\ q.inode = s.r.inode
    BY <1>1, <2>1 DEF Download
  <2> HIDE DEF q, w
  <2>4. Situation([r |-> q, path |-> s.path, file |-> w, lost |-> s.lost])
    BY <1>1, <2>2, <2>3, Made DEF Situation
  <2>5. Flushed(s, left).r = q
    BY <2>1
  <2>6. Kin(q, s.r)
    BY <1>1, <2>3, KinItself
  <2>7. Tiled(q) /\ Calm(q)
    BY <1>1, <2>3, <2>6, TiledKin DEF Fine, Calm
  <2> QED BY <2>1, <2>3, <2>4, <2>5, <2>6, <2>7 DEF Fine
<1>5. s.r.buffer # None => Len(s.r.buffer.bytes) \in Nat
  <2>1. s.r.buffer # None => s.r.buffer \in Buffer
    BY <1>1 DEF Download
  <2> QED BY <2>1, BufferIs
<1> QED BY <1>2, <1>3, <1>4, <1>5

\* What does not fit is a number of bytes.
LEMMA LeftsAre ==
  ASSUME Ranges, NEW d \in Downloads
  PROVE  Lefts(Waiting(d)) \subseteq Nat
<1>1. dl[d] # None /\ dl[d].buffer # None => dl[d].buffer \in Buffer
  BY DEF Ranges, TypeOK, Download
<1>2. Waiting(d) \in Nat
  BY <1>1, BufferIs DEF Waiting
<1> QED BY <1>2 DEF Lefts

\* resume(): the file opened or not, planned or not, probed again or not
LEMMA StartingFine ==
  ASSUME Ranges, NEW d \in Listed, NEW opens, NEW inUse, NEW left \in Nat,
         dl[d].state \in {"Paused", "Failed"}
  PROVE  Fine(Starting(d, At(d), opens, inUse, left))
<1> DEFINE s == At(d)
           t == Awake(s, FALSE)
<1>1. Fine(s) /\ Situation(s) /\ s.r = dl[d] /\ s.path = path /\ dl[d] \in Download
      /\ d \in Downloads /\ remote[d] # None
  BY AtFine DEF Fine
<1> HIDE DEF s
<1>2. /\ Situation(t) /\ Kin(t.r, s.r) /\ t.r.segs = s.r.segs /\ t.r.state = s.r.state
      /\ t.r.inode = s.r.inode /\ t.path = s.path /\ t.r.total = s.r.total
  BY <1>1, AwakeIs
<1>3. t.r \in Download
  BY <1>2 DEF Situation
<1>4. Tiled(t.r) /\ Calm(t.r)
  BY <1>1, <1>2, <1>3, TiledKin DEF Fine, Calm
<1>5. Starting(d, s, opens, inUse, left) =
        IF s.r.total > 0 /\ s.r.segs # <<>> THEN Beginning(d, t, opens, inUse, left)
        ELSE [t EXCEPT !.r.state = "Probing"]
  BY Zenon DEF Starting, Awake
<1> HIDE DEF t
<1>6. Fine(Beginning(d, t, opens, inUse, left))
  BY <1>1, <1>2, <1>4, BeginningFine DEF Ranges
<1>7. Fine([t EXCEPT !.r.state = "Probing"])
  <2> DEFINE u == [t.r EXCEPT !.state = "Probing"]
             p == [t EXCEPT !.r.state = "Probing"]
  <2>1. p = [r |-> u, path |-> t.path, file |-> t.file, lost |-> t.lost]
    BY <1>2 DEF Situation
  <2>2. u \in Download /\ u.segs = t.r.segs /\ u.total = t.r.total /\ u.ranges = t.r.ranges
        /\ (u.buffer # None => u.inode # None) /\ u.state = "Probing"
    BY <1>2, <1>3 DEF Download, Situation
  <2> HIDE DEF u
  <2>3. Situation([r |-> u, path |-> t.path, file |-> t.file, lost |-> t.lost])
    BY <1>2, <2>2, Made DEF Situation
  <2>4. Tiled(u)
    BY <1>3, <1>4, <2>2, KinItself, TiledKin
  <2>5. Calm(u)
    BY <1>1, <1>2, <1>4, <2>2 DEF Calm
  <2>6. p.r = u
    BY <2>1
  <2> QED BY <2>1, <2>3, <2>4, <2>5, <2>6 DEF Fine
<1> QED BY <1>5, <1>6, <1>7 DEF s

\* The handlers of one download, one lemma each (pause)
LEMMA PauseKeeps ==
  ASSUME Ranges, NEW d \in Downloads, NEW left \in Nat, Pause(d, left)
  PROVE  Ranges'
<1> DEFINE f == Flushed(At(d), left)
<1>1. d \in Listed
  BY DEF Pause, Listed
<1>2. Fine(f)
  BY <1>1, AtFine, PartlyFine
<1>3. Becomes(d, Pausing(f))
  BY Zenon DEF Pause, Pausing
<1> HIDE DEF f
<1>4. Situation(Pausing(f)) /\ Kin(Pausing(f).r, f.r) /\ Calm(Pausing(f).r)
  BY <1>2, PausingIs DEF Fine
<1>5. f.r \in Download /\ Pausing(f).r \in Download
  BY <1>2, <1>4 DEF Fine, Situation
<1>6. Fine(Pausing(f))
  BY <1>2, <1>4, <1>5, TiledKin DEF Fine
<1> QED BY <1>1, <1>3, <1>6, BecomesKeeps

\* resume, retry and the resumption after a launch
LEMMA ResumeKeeps ==
  ASSUME Ranges, NEW d \in Downloads, NEW opens, NEW inUse, NEW left \in Nat,
         Resume(d, opens, inUse, left)
  PROVE  Ranges'
<1>1. d \in Listed /\ dl[d].state \in {"Paused", "Failed"}
  BY DEF Resume, Listed
<1>2. Becomes(d, Starting(d, At(d), opens, inUse, left))
  BY DEF Resume
<1> QED BY <1>1, <1>2, StartingFine, BecomesKeeps

\* A failure takes the requests with it.
LEMMA FailureKeeps ==
  ASSUME Ranges, NEW d \in Listed, NEW left \in Nat, Becomes(d, Failing(At(d), left))
  PROVE  Ranges'
BY AtFine, FailingFine, BecomesKeeps DEF Fine

\* onSampleTick, after 30 s without a byte
LEMMA StalledKeeps ==
  ASSUME Ranges, NEW d \in Downloads, NEW left \in Nat, Stalled(d, left)
  PROVE  Ranges'
<1> DEFINE s == At(d)
           q == Requested(d, s)
           k == Kicked(q, TRUE, FALSE)
<1>1. d \in Listed /\ dl[d].state = "Downloading"
  BY DEF Stalled, Listed
<1>2. Becomes(d, IF dl[d].kicked THEN Failing(s, left) ELSE k)
  BY Zenon DEF Stalled, Kicked
<1>3. Fine(s) /\ Situation(s) /\ s.r = dl[d] /\ remote[d] \in Remote
  BY <1>1, AtFine DEF Fine
<1>4. CASE dl[d].kicked
  BY <1>1, <1>2, <1>4, FailureKeeps
<1>5. CASE ~dl[d].kicked
  <2> HIDE DEF s
  <2>1. Situation(q) /\ Kin(q.r, s.r) /\ q.r.state = "Downloading" /\ q.r.inode # None
    <3> DEFINE segs == [i \in DOMAIN s.r.segs |-> Request(d, s.r, s.r.segs[i])]
               r == [s.r EXCEPT !.segs = segs]
    <3>1. Situation(q) /\ Kin(q.r, s.r) /\ q = [r |-> r,
                                                path |-> s.path, file |-> s.file, lost |-> s.lost]
      BY <1>3, RequestedIs
    <3>2. r.state = "Downloading" /\ r.inode # None
      BY <1>1, <1>3 DEF Situation, Download, Fine, Calm
    <3> HIDE DEF r, q
    <3> QED BY <3>1, <3>2
  <2> HIDE DEF q
  <2>2. Situation(k) /\ Kin(k.r, q.r) /\ k.r.state = "Downloading" /\ k.r.inode # None
    BY <2>1, KickedIs
  <2> HIDE DEF k
  <2>3. Kin(k.r, s.r) /\ k.r \in Download /\ s.r \in Download
    BY <1>3, <2>1, <2>2, KinKin DEF Situation
  <2>4. Fine(k)
    BY <1>3, <2>2, <2>3, TiledKin DEF Fine, Calm
  <2> QED BY <1>1, <1>2, <1>5, <2>4, BecomesKeeps
<1> QED BY <1>4, <1>5

\* The plan has at least one range.
LEMMA PlanTyped ==
  ASSUME NEW total \in Nat \ {0}, NEW conns \in Int
  PROVE  /\ planSegments(total, conns) \in Seq([start : Nat, end : Nat])
         /\ planSegments(total, conns) # <<>>
<1> DEFINE n == Parts(total, conns)
           segs == planSegments(total, conns)
<1>1. n \in 1 .. total
  BY PartsBounded
<1>2. segs = [i \in 1..n |-> [start |-> First(total, n, i - 1),
                              end |-> First(total, n, i - 1) + Length(total, n, i - 1) - 1]]
  BY DEF planSegments
<1>3. \A i \in 0 .. n : First(total, n, i) \in Nat /\ Length(total, n, i) \in Nat \ {0}
  <2>1. TAKE i \in 0 .. n
  <2>2. PICK q \in Nat \ {0} : q = total \div n
    BY <1>1, Quotient
  <2>3. i * q \in Nat
    <3>1. i \in Nat
      BY <1>1
    <3> QED BY <2>2, <3>1, Z3
  <2>4. total % n \in Nat
    BY <1>1, Quotient
  <2> QED BY <2>2, <2>3, <2>4 DEF First, Length
<1> HIDE DEF n, segs
<1>4. \A i \in 1..n : [start |-> First(total, n, i - 1),
                       end |-> First(total, n, i - 1) + Length(total, n, i - 1) - 1]
                      \in [start : Nat, end : Nat]
  <2> TAKE i \in 1..n
  <2>1. i - 1 \in 0..n
    BY <1>1
  <2> QED BY <1>3, <2>1
<1> DEFINE S == [start : Nat, end : Nat]
<1>5. \A i \in 1..n : segs[i] \in S
  BY <1>2, <1>4
<1>6. segs # <<>> /\ DOMAIN segs = 1..n /\ segs = [i \in 1..n |-> segs[i]]
  BY <1>1, <1>2
<1> HIDE DEF S
<1>7. segs \in [1..n -> S]
  BY <1>5, <1>6
<1>8. segs \in Seq(S)
  BY <1>1, <1>7
<1> QED BY <1>6, <1>8 DEF segs, S

\* What the probe plans: nothing asked for and nothing counted yet
LEMMA FreshPlan ==
  ASSUME Ranges, NEW d \in Listed
  PROVE  LET total == IF remote[d].kind = "unsized" THEN -1 ELSE remote[d].size
             plan == IF remote[d].kind = "ranges" THEN planSegments(total, Conns)
                     ELSE <<[start |-> 0, end |-> IF total > 0 THEN total - 1 ELSE -1]>>
             segs == [i \in DOMAIN plan |-> [start |-> plan[i].start, end |-> plan[i].end,
                                            received |-> 0, reply |-> None]]
         IN  /\ total \in {-1} \cup Nat /\ segs \in Seq(Segment)
             /\ \A i \in DOMAIN segs : segs[i].reply = None /\ segs[i].received = 0
             /\ IF total > 0 THEN segs # <<>> /\ Tiles(segs, total)
                ELSE Len(segs) = 1 /\ segs[1].start = 0
<1> DEFINE total == IF remote[d].kind = "unsized" THEN -1 ELSE remote[d].size
           plan == IF remote[d].kind = "ranges" THEN planSegments(total, Conns)
                   ELSE <<[start |-> 0, end |-> IF total > 0 THEN total - 1 ELSE -1]>>
           segs == [i \in DOMAIN plan |-> [start |-> plan[i].start, end |-> plan[i].end,
                                          received |-> 0, reply |-> None]]
           P == [start : Nat, end : {-1} \cup Nat]
<1>1. remote[d] \in Remote
  BY AtFine
<1>2. total \in {-1} \cup Nat /\ (remote[d].kind # "unsized" => total \in Nat \ {0})
  BY <1>1, BoundAssumption DEF Remote
<1>3. /\ plan \in Seq(P) /\ plan # <<>>
      /\ total > 0 => Tiles(plan, total)
      /\ ~(total > 0) => Len(plan) = 1 /\ plan[1].start = 0
  <2> HIDE DEF total
  <2>1. CASE remote[d].kind = "ranges"
    <3>1. total \in Nat \ {0} /\ Conns \in Int /\ plan = planSegments(total, Conns)
      BY <1>2, <2>1, BoundAssumption
    <3>2. plan \in Seq([start : Nat, end : Nat]) /\ plan # <<>> /\ Tiles(plan, total)
      BY <3>1, PlanTyped, PlanTiles
    <3> HIDE DEF plan
    <3> DEFINE S == [start : Nat, end : Nat]
    <3>3. S \subseteq P
      OBVIOUS
    <3>5. plan \in Seq(S)
      BY <3>2
    <3> HIDE DEF S, P
    <3>4. plan \in Seq(P)
      BY <3>3, <3>5
    <3> QED BY <3>1, <3>2, <3>4
  <2>2. CASE remote[d].kind # "ranges"
    <3> DEFINE g == [start |-> 0, end |-> IF total > 0 THEN total - 1 ELSE -1]
    <3>1. plan = <<g>>
      BY <2>2
    <3>2. g \in P /\ g.start = 0 /\ (total > 0 => g.end = total - 1)
      BY <1>2
    <3> HIDE DEF plan, g
    <3>3. plan \in Seq(P) /\ plan # <<>> /\ Len(plan) = 1 /\ plan[1] = g
          /\ DOMAIN plan = {1}
      BY <3>1, <3>2
    <3>4. total > 0 => Tiles(plan, total)
      BY <1>2, <3>2, <3>3 DEF Tiles
    <3> QED BY <3>2, <3>3, <3>4
  <2> QED BY <2>1, <2>2
<1> HIDE DEF plan, total
<1>4. DOMAIN plan = 1 .. Len(plan) /\ Len(plan) \in Nat /\ \A i \in DOMAIN plan : plan[i] \in P
  <2> HIDE DEF P
  <2>1. DOMAIN plan = 1 .. Len(plan) /\ Len(plan) \in Nat
    BY <1>3
  <2> QED BY <1>3, <2>1
<1>5. \A i \in DOMAIN plan :
        [start |-> plan[i].start, end |-> plan[i].end, received |-> 0, reply |-> None] \in Segment
  BY <1>4 DEF Segment
<1>6. segs \in Seq(Segment) /\ Len(segs) = Len(plan) /\ DOMAIN segs = DOMAIN plan
  BY <1>4, <1>5
<1>7. \A i \in DOMAIN plan : segs[i].start = plan[i].start /\ segs[i].end = plan[i].end
                             /\ segs[i].reply = None /\ segs[i].received = 0
  OBVIOUS
<1> HIDE DEF segs
<1>8. Len(plan) >= 1
  BY <1>3, <1>4
<1>9. total > 0 => Tiles(segs, total)
  <2> HAVE total > 0
  <2>1. \A i \in 2 .. Len(segs) : segs[i].start = segs[i - 1].end + 1
    <3> TAKE i \in 2 .. Len(segs)
    <3>1. i \in DOMAIN plan /\ i - 1 \in DOMAIN plan /\ i \in 2 .. Len(plan)
      BY <1>4, <1>6
    <3> QED BY <1>3, <1>7, <3>1 DEF Tiles
  <2>2. 1 \in DOMAIN plan /\ Len(segs) \in DOMAIN plan
    BY <1>4, <1>6, <1>8
  <2> QED BY <1>3, <1>6, <1>7, <2>1, <2>2 DEF Tiles
<1>10. ~(total > 0) => Len(segs) = 1 /\ segs[1].start = 0
  BY <1>3, <1>4, <1>6, <1>7, <1>8
<1>11. segs # <<>>
  BY <1>6, <1>8
<1> QED BY <1>2, <1>6, <1>7, <1>9, <1>10, <1>11 DEF segs, plan, total

\* onProbeFinished: a plan, one range of unknown size, or a failure
LEMMA ProbeFinishedKeeps ==
  ASSUME Ranges, NEW d \in Downloads, NEW opens, NEW inUse, NEW left \in Nat,
         ProbeFinished(d, opens, inUse, left)
  PROVE  Ranges'
<1> DEFINE total == IF remote[d].kind = "unsized" THEN -1 ELSE remote[d].size
           plan == IF remote[d].kind = "ranges" THEN planSegments(total, Conns)
                   ELSE <<[start |-> 0, end |-> IF total > 0 THEN total - 1 ELSE -1]>>
           segs == [i \in DOMAIN plan |-> [start |-> plan[i].start, end |-> plan[i].end,
                                          received |-> 0, reply |-> None]]
           ranged == remote[d].kind = "ranges"
           s == At(d)
           p == Planned(s, total, segs, ranged)
<1>1. d \in Listed /\ dl[d].state = "Probing"
  BY DEF ProbeFinished, Listed
<1>2. /\ total \in {-1} \cup Nat /\ segs \in Seq(Segment)
      /\ \A i \in DOMAIN segs : segs[i].reply = None
      /\ IF total > 0 THEN segs # <<>> /\ Tiles(segs, total)
         ELSE Len(segs) = 1 /\ segs[1].start = 0
  BY <1>1, FreshPlan, Zenon
<1>3. Becomes(d, Beginning(d, p, opens, inUse, left))
  BY Zenon DEF ProbeFinished, Planned
<1>4. ranged \in BOOLEAN
  OBVIOUS
<1>5. Situation(s) /\ s.path = path /\ s.r = dl[d] /\ remote[d] # None
  BY <1>1, AtFine DEF Fine
<1> HIDE DEF total, segs, ranged, s
<1>6. /\ Situation(p) /\ p.path = s.path
      /\ p.r.total = total /\ p.r.segs = segs /\ p.r.inode = s.r.inode
      /\ p.r.state = s.r.state
  <2>1. \A b \in BOOLEAN :
          /\ Situation(Planned(s, total, segs, b)) /\ Planned(s, total, segs, b).path = s.path
          /\ Planned(s, total, segs, b).r.total = total
          /\ Planned(s, total, segs, b).r.segs = segs
          /\ Planned(s, total, segs, b).r.inode = s.r.inode
          /\ Planned(s, total, segs, b).r.state = s.r.state
    <3>1. Situation(s) /\ total \in {-1} \cup Nat /\ segs \in Seq(Segment)
      BY <1>2, <1>5
    <3> QED BY <3>1, PlannedIs, Z3
  <2> QED BY <1>4, <2>1, Zenon
<1> HIDE DEF p
<1>7. Tiled(p.r) /\ Calm(p.r)
  BY <1>1, <1>2, <1>5, <1>6 DEF Tiled, Calm
<1>8. Fine(Beginning(d, p, opens, inUse, left))
  BY <1>5, <1>6, <1>7, BeginningFine DEF Ranges
<1> QED BY <1>1, <1>3, <1>8, BecomesKeeps

\* A range of a download that runs: its request, and the file is open.
LEMMA FetchingIs ==
  ASSUME Ranges, NEW d \in Downloads, NEW i, Fetching(d, i)
  PROVE  /\ d \in Listed /\ i \in DOMAIN dl[d].segs /\ dl[d].state = "Downloading"
         /\ dl[d].segs[i] \in Segment /\ dl[d].segs[i].reply \in Reply
<1>1. d \in Listed /\ i \in DOMAIN dl[d].segs /\ dl[d].state = "Downloading"
      /\ dl[d].segs[i].reply # None
  BY DEF Fetching, Listed
<1>2. dl[d].segs \in Seq(Segment)
  BY <1>1, AtFine
<1>3. dl[d].segs[i] \in Segment
  BY <1>1, <1>2
<1> QED BY <1>1, <1>3 DEF Segment

\* Another count or reply leaves the ranges as they are.
LEMMA SegKin ==
  ASSUME NEW segs \in Seq(Segment), NEW i \in DOMAIN segs, NEW g \in Segment,
         g.start = segs[i].start, g.end = segs[i].end
  PROVE  \A j \in DOMAIN segs : /\ [segs EXCEPT ![i] = g][j].start = segs[j].start
                                /\ [segs EXCEPT ![i] = g][j].end = segs[j].end
OBVIOUS

\* A range and its request, n bytes on
Moved(seg, n, body) ==
  [seg EXCEPT !.received = @ + n, !.reply = [seg.reply EXCEPT !.at = @ + n, !.body = body]]

\* A range moves on by what came.
LEMMA MovedIs ==
  ASSUME NEW seg \in Segment, seg.reply \in Reply, NEW n \in Nat, NEW body \in {"data", "error"}
  PROVE  /\ Moved(seg, n, body) \in Segment
         /\ Moved(seg, n, body).start = seg.start /\ Moved(seg, n, body).end = seg.end
         /\ Moved(seg, n, body).received = seg.received + n
         /\ Moved(seg, n, body).reply # None
         /\ Moved(seg, n, body).reply.at = seg.reply.at + n
         /\ Moved(seg, n, body).reply.upto = seg.reply.upto
         /\ Moved(seg, n, body).reply.body = body
<1> DEFINE q == seg.reply
           p == [q EXCEPT !.at = @ + n, !.body = body]
<1>5. q \in Reply
  OBVIOUS
<1> HIDE DEF q
<1>1. p = [at |-> q.at + n, upto |-> q.upto, body |-> body]
  <2> DEFINE v == [q EXCEPT !.at = @ + n]
  <2>1. v = [at |-> q.at + n, upto |-> q.upto, body |-> q.body]
    BY <1>5 DEF Reply
  <2>2. p = [v EXCEPT !.body = body]
    OBVIOUS
  <2> HIDE DEF v, p
  <2> QED BY <2>1, <2>2
<1>2. p \in Reply /\ p # None
  <2>1. q.at + n \in Nat /\ q.upto \in Nat /\ body \in {"none", "data", "error"}
    BY <1>5 DEF Reply
  <2>2. p \in Reply
    BY <1>1, <2>1 DEF Reply
  <2> QED BY <2>2, NoneAssumption
<1>3. p.at = q.at + n /\ p.upto = q.upto /\ p.body = body
  BY <1>1
<1> HIDE DEF p
<1> DEFINE g == [seg EXCEPT !.received = @ + n, !.reply = p]
<1>4. g \in Segment /\ g.start = seg.start /\ g.end = seg.end
      /\ g.received = seg.received + n /\ g.reply = p
  <2> DEFINE v == [seg EXCEPT !.received = @ + n]
  <2>1. v = [start |-> seg.start, end |-> seg.end, received |-> seg.received + n,
             reply |-> seg.reply]
    BY DEF Segment
  <2>2. g = [v EXCEPT !.reply = p]
    OBVIOUS
  <2> HIDE DEF v, g
  <2>3. g = [start |-> seg.start, end |-> seg.end, received |-> seg.received + n, reply |-> p]
    BY <2>1, <2>2
  <2>4. seg.start \in Nat /\ seg.end \in {-1} \cup Nat /\ seg.received + n \in Nat
    BY DEF Segment
  <2>5. g \in Segment
    BY <1>2, <2>3, <2>4 DEF Segment
  <2> QED BY <2>3, <2>5
<1>6. Moved(seg, n, body) = g
  BY DEF Moved, p, q
<1> HIDE DEF g
<1> QED BY <1>2, <1>3, <1>4, <1>6 DEF q

\* A range that is the only one is the first.
LEMMA OnlyOne ==
  ASSUME NEW segs \in Seq(Segment), NEW i \in DOMAIN segs, Len(segs) <= 1
  PROVE  /\ i = 1 /\ Len(segs) = 1 /\ DOMAIN segs = {1} /\ segs # <<>> /\ segs[1] \in Segment
         /\ \A g \in Segment : /\ [segs EXCEPT ![i] = g] \in Seq(Segment)
                               /\ Len([segs EXCEPT ![i] = g]) = 1
                               /\ [segs EXCEPT ![i] = g][1] = g
<1>1. Len(segs) \in Nat /\ DOMAIN segs = 1 .. Len(segs)
  OBVIOUS
<1>2. i \in 1 .. Len(segs)
  BY <1>1
<1>3. i = 1 /\ Len(segs) = 1
  BY <1>1, <1>2
<1>4. DOMAIN segs = {1} /\ segs # <<>> /\ segs[1] \in Segment
  BY <1>1, <1>3
<1>5. ASSUME NEW g \in Segment
      PROVE  /\ [segs EXCEPT ![i] = g] \in Seq(Segment) /\ Len([segs EXCEPT ![i] = g]) = 1
             /\ [segs EXCEPT ![i] = g][1] = g
  BY <1>3, <1>4, SegPut
<1> QED BY <1>3, <1>4, <1>5

\* A single range over the whole file tiles it.
LEMMA OneTiled ==
  ASSUME NEW r, r.total \in Nat, r.segs \in Seq(Segment), Len(r.segs) = 1,
         NEW g \in Segment, r.segs[1] = g, g.start = 0, g.end = r.total - 1
  PROVE  Tiled(r)
<1>1. \A segs \in Seq(Segment) : Len(segs) = 1 => DOMAIN segs = {1}
  OBVIOUS
<1>2. DOMAIN r.segs = {1}
  BY <1>1
<1> DEFINE t == r.total
           segs == r.segs
<1>3. t \in Nat /\ DOMAIN segs = {1} /\ Len(segs) = 1 /\ segs[1].start = 0 /\ segs[1].end = t - 1
  BY <1>2
<1> HIDE DEF t, segs
<1>4. t > 0 => Tiles(segs, t)
  BY <1>3 DEF Tiles
<1> QED BY <1>3, <1>4 DEF Tiled, t, segs

\* onSegmentReadyRead, with the restart when the server ignores the range
LEMMA ReadyReadKeeps ==
  ASSUME Ranges, NEW d \in Downloads, NEW i, NEW n \in 1 .. MaxChunk,
         NEW body \in {"data", "error"}, NEW left \in Nat, ReadyRead(d, i, n, body, left)
  PROVE  Ranges'
<1> DEFINE seg == dl[d].segs[i]
           q == seg.reply
           bytes == [k \in 1..n |-> IF body = "data" THEN q.at + k - 1 ELSE Junk]
           buffer == [at |-> seg.start + seg.received, bytes |-> bytes]
           g == Moved(seg, n, body)
           f == Flushed(At(d), 0)
           s == Brought(f, i, buffer, g, FALSE)
<1>1. d \in Listed /\ i \in DOMAIN dl[d].segs /\ dl[d].state = "Downloading"
      /\ seg \in Segment /\ q \in Reply
  <2>1. Fetching(d, i)
    BY Zenon DEF ReadyRead
  <2> QED BY <2>1, FetchingIs
<1>12. n \in Nat \ {0}
  BY BoundAssumption
<1>2. /\ Becomes(d, IF seg.end >= 0 /\ seg.start + seg.received + n > seg.end + 1
                    THEN Failing(s, left) ELSE s)
      /\ seg.reply # None
  BY Zenon DEF ReadyRead, Brought, Moved, Fetching
<1>3. Fine(f) /\ f.r.segs = dl[d].segs /\ f.r.state = dl[d].state /\ f.r.inode = dl[d].inode
      /\ f.r.total = dl[d].total /\ dl[d].segs \in Seq(Segment) /\ dl[d] \in Download
  BY <1>1, AtFine, FlushedFine
<1>4. buffer \in Buffer
  <2>1. bytes \in Seq({Junk} \cup Nat) \ {<<>>}
    <3>1. \A k \in 1..n : (IF body = "data" THEN q.at + k - 1 ELSE Junk) \in {Junk} \cup Nat
      BY <1>1, <1>12 DEF Reply
    <3>2. bytes \in [1..n -> {Junk} \cup Nat]
      BY <3>1
    <3> HIDE DEF bytes
    <3>3. bytes \in Seq({Junk} \cup Nat) /\ Len(bytes) = n
      BY <1>12, <3>2
    <3> QED BY <1>12, <3>3
  <2>2. seg.start + seg.received \in Nat
    BY <1>1 DEF Segment
  <2> HIDE DEF bytes
  <2> QED BY <2>1, <2>2 DEF Buffer
<1>5. g \in Segment /\ g.start = seg.start /\ g.end = seg.end
  <2> HIDE DEF seg
  <2> QED BY <1>1, <1>12, MovedIs DEF q
<1>6. dl[d].inode # None
  BY <1>1 DEF Ranges, Calm
<1> HIDE DEF g, buffer, f
<1>7. f.r.inode # None /\ i \in DOMAIN f.r.segs /\ f.r.segs \in Seq(Segment) /\ Situation(f)
      /\ f.r \in Download
  BY <1>1, <1>3, <1>6 DEF Fine, Situation
<1>8. /\ Situation(s) /\ s.r.total = f.r.total /\ s.r.state = f.r.state
      /\ s.r.segs = [f.r.segs EXCEPT ![i] = g] /\ s.r.inode = f.r.inode
  <2>1. \A b \in BOOLEAN :
          /\ Situation(Brought(f, i, buffer, g, b))
          /\ Brought(f, i, buffer, g, b).r.total = f.r.total
          /\ Brought(f, i, buffer, g, b).r.state = f.r.state
          /\ Brought(f, i, buffer, g, b).r.segs = [f.r.segs EXCEPT ![i] = g]
          /\ Brought(f, i, buffer, g, b).r.inode = f.r.inode
    BY <1>4, <1>5, <1>7, BroughtIs, Z3
  <2> QED BY <2>1, Zenon
<1> HIDE DEF s
<1>9. Tiled(s.r)
  <2>1. /\ Len(s.r.segs) = Len(f.r.segs)
        /\ \A j \in DOMAIN f.r.segs : /\ s.r.segs[j].start = f.r.segs[j].start
                                      /\ s.r.segs[j].end = f.r.segs[j].end
    BY <1>3, <1>5, <1>7, <1>8, SegPut, SegKin
  <2>2. s.r \in Download /\ Tiled(f.r)
    BY <1>3, <1>8 DEF Situation, Fine
  <2> QED BY <1>7, <1>8, <2>1, <2>2, TiledSame
<1>10. Calm(s.r)
  BY <1>1, <1>3, <1>6, <1>8 DEF Calm
<1>11. Fine(s) /\ Fine(Failing(s, left))
  BY <1>8, <1>9, <1>10, FailingFine DEF Fine
<1> QED BY <1>1, <1>2, <1>11, BecomesKeeps

\* onSegmentFinished: the size is known at last, a retry, a failure, the end
LEMMA SegmentFinishedKeeps ==
  ASSUME Ranges, NEW d \in Downloads, NEW i, NEW inUse, NEW left \in Nat,
         SegmentFinished(d, i, inUse, left)
  PROVE  Ranges'
<1> DEFINE seg == dl[d].segs[i]
           s == Rested(At(d), i)
           m == Measured(s, i, seg.received)
<1>1. d \in Listed /\ i \in DOMAIN dl[d].segs /\ dl[d].state = "Downloading"
      /\ seg \in Segment /\ seg.reply \in Reply
  BY FetchingIs DEF SegmentFinished
<1>2. Becomes(d, Completing(d, IF dl[d].total <= 0 /\ seg.end < 0 THEN m ELSE s, inUse, left))
  BY Zenon DEF SegmentFinished, Rested, Measured
<1>3. Fine(At(d)) /\ At(d).r = dl[d] /\ Situation(At(d)) /\ dl[d] \in Download
      /\ dl[d].segs \in Seq(Segment)
  BY <1>1, AtFine DEF Fine
<1>4. /\ Situation(s) /\ Kin(s.r, dl[d]) /\ s.r.state = "Downloading"
      /\ s.r.segs = [dl[d].segs EXCEPT ![i] = [seg EXCEPT !.reply = None]]
      /\ s.r.inode = dl[d].inode
  BY <1>1, <1>3, RestedIs
<1>5. Fine(s)
  <2>1. s.r \in Download
    BY <1>4 DEF Situation
  <2>2. Tiled(s.r)
    BY <1>3, <1>4, <2>1, TiledKin DEF Fine
  <2> QED BY <1>1, <1>3, <1>4, <2>2 DEF Fine, Calm
<1>6. CASE ~(dl[d].total <= 0 /\ seg.end < 0)
  BY <1>1, <1>2, <1>5, <1>6, CompletingFine, BecomesKeeps
<1>7. CASE dl[d].total <= 0 /\ seg.end < 0
  <2> HIDE DEF s
  <2>1. s.r.segs \in Seq(Segment) /\ i \in DOMAIN s.r.segs /\ s.r.total = dl[d].total
    BY <1>1, <1>4 DEF Kin, Situation, Download
  <2> DEFINE n == seg.received
             g == [s.r.segs[i] EXCEPT !.end = n - 1]
  <2>2. n \in Nat
    BY <1>1 DEF Segment
  <2>3. /\ Situation(m) /\ m.r.total = n /\ m.r.state = "Downloading" /\ m.r.inode = s.r.inode
        /\ m.r.segs = [s.r.segs EXCEPT ![i] = g]
    <3>1. Situation(s) /\ i \in DOMAIN s.r.segs /\ n \in Nat
      BY <1>4, <2>1, <2>2
    <3> HIDE DEF n
    <3>2. /\ Situation(Measured(s, i, n)) /\ Measured(s, i, n).r.inode = s.r.inode
          /\ Measured(s, i, n).r.total = n /\ Measured(s, i, n).r.state = s.r.state
          /\ Measured(s, i, n).r.segs = [s.r.segs EXCEPT ![i] = g]
      BY <3>1, MeasuredIs
    <3>3. m = Measured(s, i, n)
      BY DEF n
    <3> QED BY <1>4, <3>2, <3>3
  <2> HIDE DEF m
  <2>4. ~(s.r.total > 0) /\ Len(s.r.segs) <= 1 /\ (s.r.segs # <<>> => s.r.segs[1].start = 0)
    <3>1. dl[d].total \in Int
      BY <1>3 DEF Download
    <3> QED BY <1>5, <1>7, <2>1, <3>1 DEF Fine, Tiled
  <2>5. i = 1 /\ s.r.segs # <<>> /\ s.r.segs[1] \in Segment
    BY <2>1, <2>4, OnlyOne
  <2>6. s.r.segs[1] \in Segment /\ s.r.segs[1].start = 0
    BY <2>4, <2>5
  <2>7. g \in Segment /\ g.start = 0 /\ g.end = n - 1 /\ g.reply = s.r.segs[1].reply
    <3>1. i = 1 /\ s.r.segs[1].received \in Nat /\ s.r.segs[1].reply \in Reply \cup {None}
      BY <2>5, <2>6 DEF Segment
    <3> HIDE DEF n
    <3>2. n - 1 \in {-1} \cup Nat
      BY <2>2
    <3> QED BY <2>6, <3>1, <3>2 DEF Segment
  <2> HIDE DEF g, n
  <2>8. m.r.segs \in Seq(Segment) /\ Len(m.r.segs) = 1 /\ m.r.segs[1] = g
    BY <2>1, <2>3, <2>4, <2>7, OnlyOne
  <2>9. Tiled(m.r)
    BY <2>2, <2>3, <2>7, <2>8, OneTiled
  <2>10. Calm(m.r)
    BY <1>4, <1>5, <2>3 DEF Fine, Calm
  <2>11. Fine(m)
    BY <2>3, <2>9, <2>10 DEF Fine
  <2> QED BY <1>1, <1>2, <1>7, <2>11, CompletingFine, BecomesKeeps
<1> QED BY <1>6, <1>7

\* addDownload: a new download has no ranges yet.
LEMMA AddDownloadKeeps ==
  ASSUME Ranges, NEW d \in Downloads, NEW size \in Sizes, NEW kind \in Servers,
         AddDownload(d, size, kind)
  PROVE  Ranges'
<1> DEFINE new == [state |-> "Probing", total |-> -1, ranges |-> FALSE, segs |-> <<>>,
                   inode |-> None, buffer |-> None, quiet |-> FALSE, kicked |-> FALSE]
<1>1. /\ up /\ dl[d] = None /\ saved[d] = None
      /\ dl' = [dl EXCEPT ![d] = new]
      /\ remote' = [remote EXCEPT ![d] = [size |-> size, kind |-> kind]]
      /\ saveDue' = TRUE /\ spoilt' = spoilt \ {d} /\ UNCHANGED <<up, saved, path, file>>
  BY Zenon DEF AddDownload
<1>2. /\ new \in Download /\ new # None /\ new.segs = <<>> /\ new.state = "Probing"
      /\ new.total = -1 /\ new.buffer = None
  <2>1. <<>> \in Seq(Segment)
    OBVIOUS
  <2>2. new \in Download
    BY <2>1 DEF Download
  <2> QED BY <2>2, NoneAssumption
<1> HIDE DEF new
<1>3. Tiled(new) /\ Calm(new)
  BY <1>2 DEF Tiled, Calm
<1>4. [size |-> size, kind |-> kind] \in Remote /\ [size |-> size, kind |-> kind] # None
  <2>1. [size |-> size, kind |-> kind] \in Remote
    BY DEF Remote
  <2> QED BY <2>1, NoneAssumption
<1>5. /\ dl' \in [Downloads -> Download \cup {None}]
      /\ remote' \in [Downloads -> Remote \cup {None}]
  BY <1>1, <1>2, <1>4 DEF Ranges, TypeOK
<1>6. \A e \in Downloads : dl'[e] = IF e = d THEN new ELSE dl[e]
  BY <1>1 DEF Ranges, TypeOK
<1>7. \A e \in Downloads : remote[e] # None => remote'[e] # None
  BY <1>1, <1>4 DEF Ranges, TypeOK
<1>8. remote'[d] # None
  BY <1>1, <1>4 DEF Ranges, TypeOK
<1>9. \A e \in Listed' : e \in Downloads /\ (e # d => e \in Listed)
  BY <1>6 DEF Listed
<1>10. \A e \in Listed' :
         /\ \A i \in DOMAIN dl'[e].segs : dl'[e].segs[i].reply # None => dl'[e].state = "Downloading"
         /\ dl'[e].buffer # None => dl'[e].inode # None
         /\ Tiled(dl'[e]) /\ Calm(dl'[e])
  <2> TAKE e \in Listed'
  <2>1. CASE e = d
    BY <1>2, <1>3, <1>6, <2>1
  <2>2. CASE e # d
    BY <1>6, <1>9, <2>2 DEF Ranges, TypeOK
  <2> QED BY <2>1, <2>2
<1>11. TypeOK'
  BY <1>1, <1>5, <1>10 DEF Ranges, TypeOK
<1>12. Known'
  BY <1>1, <1>6, <1>7, <1>8 DEF Ranges, Known
<1> QED BY <1>1, <1>10, <1>11, <1>12 DEF Ranges

\* Steps that take downloads away or keep their ranges: what remains is as before.
LEMMA FewerKeeps ==
  ASSUME Ranges, up' \in BOOLEAN, saveDue' \in BOOLEAN, ~up' => Listed' = {} /\ ~saveDue',
         dl' \in [Downloads -> Download \cup {None}],
         remote' \in [Downloads -> Remote \cup {None}],
         saved' \in [Downloads -> Saved \cup {None}],
         path' \in [Paths -> Inodes \cup {None}],
         spoilt' \subseteq Downloads,
         file' = [i \in Inodes |-> file'[i]],
         Known',
         \A e \in Listed' : /\ Tiled(dl'[e]) /\ Calm(dl'[e])
                            /\ dl'[e].buffer # None => dl'[e].inode # None,
         \A e \in Downloads : saved'[e] # None =>
           Tiled(saved'[e]) /\ \A i \in DOMAIN saved'[e].segs : saved'[e].segs[i].reply = None
  PROVE  Ranges'
<1>1. DOMAIN file' = Inodes
  OBVIOUS
<1>2. \A e \in Listed' :
        \A i \in DOMAIN dl'[e].segs : dl'[e].segs[i].reply # None => dl'[e].state = "Downloading"
  BY DEF Calm
<1>3. TypeOK'
  BY <1>1, <1>2 DEF TypeOK
<1> QED BY <1>3 DEF Ranges

\* remove, with or without the files
LEMMA RemoveKeeps ==
  ASSUME Ranges, NEW d \in Downloads, NEW deleteFiles \in BOOLEAN, NEW left \in Nat,
         Remove(d, deleteFiles, left)
  PROVE  Ranges'
<1> DEFINE c == Closed(At(d), left)
<1>1. d \in Listed
  BY DEF Remove, Listed
<1>2. /\ up /\ dl' = [dl EXCEPT ![d] = None]
      /\ path' = IF deleteFiles THEN [c.path EXCEPT ![Part(d)] = None, ![Final(d)] = None]
                 ELSE c.path
      /\ file' = Kept(c.file, path', dl')
      /\ remote' = [remote EXCEPT ![d] = IF saved[d] = None THEN None ELSE @]
      /\ spoilt' = (IF saved[d] = None THEN spoilt \ {d} ELSE spoilt)
      /\ saveDue' = TRUE /\ UNCHANGED <<up, saved>>
  BY Zenon DEF Remove, UserMay
<1>3. Situation(c)
  <2>1. Situation(Cut(At(d), left)) /\ Situation(At(d))
    BY <1>1, AtFine, CutIs DEF Fine
  <2> QED BY <2>1, ClosedIs, ClosedCut
<1>4. c.path \in [Paths -> Inodes \cup {None}]
  BY <1>3 DEF Situation
<1> HIDE DEF c
<1>5. path' \in [Paths -> Inodes \cup {None}]
  BY <1>2, <1>4, PathsOf
<1>6. file' = [i \in Inodes |-> file'[i]]
  BY <1>2 DEF Kept
<1>7. \A e \in Downloads : dl'[e] = IF e = d THEN None ELSE dl[e]
  BY <1>2 DEF Ranges, TypeOK
<1>8. /\ dl' \in [Downloads -> Download \cup {None}]
      /\ remote' \in [Downloads -> Remote \cup {None}]
  BY <1>2 DEF Ranges, TypeOK
<1>9. \A e \in Listed' : e \in Listed /\ dl'[e] = dl[e]
  BY <1>7 DEF Listed
<1>10. Known'
  BY <1>2, <1>7 DEF Ranges, Known, TypeOK
<1>11. \A e \in Listed' : /\ Tiled(dl'[e]) /\ Calm(dl'[e])
                          /\ dl'[e].buffer # None => dl'[e].inode # None
  BY <1>9 DEF Ranges, TypeOK
<1>12. spoilt' \subseteq Downloads
  BY <1>2 DEF Ranges, TypeOK
<1> QED BY <1>2, <1>5, <1>6, <1>8, <1>10, <1>11, <1>12, FewerKeeps DEF Ranges, TypeOK

\* Time goes by without a byte.
LEMMA TimePassesKeeps ==
  ASSUME Ranges, NEW d \in Downloads, TimePasses(d)
  PROVE  Ranges'
<1>1. d \in Listed /\ dl[d] \in Download
  BY AtFine DEF TimePasses, Listed
<1> DEFINE u == [dl[d] EXCEPT !.quiet = TRUE]
<1>2. dl' = [dl EXCEPT ![d] = u] /\ UNCHANGED <<up, saved, saveDue, path, file, remote, spoilt>>
  BY DEF TimePasses
<1>3. /\ u \in Download /\ u.segs = dl[d].segs /\ u.total = dl[d].total /\ u.state = dl[d].state
      /\ u.ranges = dl[d].ranges
      /\ u.inode = dl[d].inode /\ u.buffer = dl[d].buffer
  BY <1>1 DEF Download
<1> HIDE DEF u
<1>4. Tiled(u) /\ Calm(u)
  <2>1. Tiled(dl[d]) /\ Calm(dl[d])
    BY <1>1 DEF Ranges
  <2> QED BY <1>1, <1>3, <2>1, KinItself, TiledKin DEF Calm
<1>5. \A e \in Downloads : dl'[e] = IF e = d THEN u ELSE dl[e]
  BY <1>2 DEF Ranges, TypeOK
<1>6. u # None
  BY <1>3, NoneAssumption
<1>7. Listed' = Listed /\ d \in Downloads /\ dl[d] # None
  BY <1>1, <1>5, <1>6 DEF Listed
<1>8. dl' \in [Downloads -> Download \cup {None}]
  BY <1>2, <1>3 DEF Ranges, TypeOK
<1>9. \A e \in Listed' : /\ Tiled(dl'[e]) /\ Calm(dl'[e])
                         /\ dl'[e].buffer # None => dl'[e].inode # None
  <2> TAKE e \in Listed'
  <2>1. e \in Downloads /\ e \in Listed
    BY <1>7 DEF Listed
  <2>2. dl[e].buffer # None => dl[e].inode # None
    BY <2>1 DEF Ranges, TypeOK
  <2> QED BY <1>3, <1>4, <1>5, <2>1, <2>2 DEF Ranges
<1>10. Known'
  BY <1>2, <1>5, <1>7 DEF Ranges, Known
<1> QED BY <1>2, <1>7, <1>8, <1>9, <1>10, FewerKeeps DEF Ranges, TypeOK

\* What save() writes of a download: its ranges without their requests
LEMMA EntryIs ==
  ASSUME NEW r \in Download
  PROVE  /\ Entry(r) \in Saved /\ Entry(r) # None
         /\ Entry(r).total = r.total /\ Entry(r).ranges = r.ranges
         /\ Entry(r).segs = Aborted(r.segs)
         /\ Entry(r).state = "Completed" <=> r.state = "Completed"
         /\ Tiled(r) => Tiled(Entry(r))
         /\ \A i \in DOMAIN Entry(r).segs : Entry(r).segs[i].reply = None
<1>1. /\ Aborted(r.segs) \in Seq(Segment) /\ r.segs \in Seq(Segment)
      /\ Len(Aborted(r.segs)) = Len(r.segs) /\ DOMAIN Aborted(r.segs) = DOMAIN r.segs
      /\ \A i \in DOMAIN r.segs :
           /\ Aborted(r.segs)[i].start = r.segs[i].start
           /\ Aborted(r.segs)[i].end = r.segs[i].end
           /\ Aborted(r.segs)[i].reply = None
  BY SegsAborted DEF Download
<1> DEFINE w == IF r.state = "Completed" THEN "Completed" ELSE "Paused"
           a == Aborted(r.segs)
<1>2. w \in {"Paused", "Completed"} /\ (w = "Completed" <=> r.state = "Completed")
  OBVIOUS
<1>3. r.total \in {-1} \cup Nat /\ r.ranges \in BOOLEAN
  BY DEF Download
<1>4. Entry(r) = [total |-> r.total, ranges |-> r.ranges, segs |-> a, state |-> w]
  BY DEF Entry
<1> HIDE DEF w
<1>5. /\ Entry(r) \in Saved /\ Entry(r).total = r.total /\ Entry(r).ranges = r.ranges
      /\ Entry(r).segs = a /\ Entry(r).state = w
  <2> HIDE DEF a
  <2>1. a \in Seq(Segment)
    BY <1>1 DEF a
  <2> QED BY <1>2, <1>3, <1>4, <2>1 DEF Saved
<1>6. Entry(r) # None
  BY <1>5, NoneAssumption
<1>7. ASSUME Tiled(r) PROVE Tiled(Entry(r))
  <2> DEFINE q == [r EXCEPT !.segs = a]
  <2>1. q \in Download /\ q.segs = a /\ q.total = r.total
    BY <1>1 DEF Download
  <2> HIDE DEF q
  <2>2. Tiled(q)
    BY <1>1, <1>7, <2>1, TiledSame
  <2> QED BY <1>5, <2>1, <2>2 DEF Tiled
<1> QED BY <1>1, <1>2, <1>5, <1>6, <1>7

\* The sidecar as save() writes it
LEMMA EntriesAre ==
  ASSUME Ranges
  PROVE  /\ Entries \in [Downloads -> Saved \cup {None}]
         /\ \A e \in Downloads : Entries[e] # None =>
              /\ dl[e] # None /\ Tiled(Entries[e])
              /\ \A i \in DOMAIN Entries[e].segs : Entries[e].segs[i].reply = None
<1>1. \A e \in Downloads : dl[e] # None => dl[e] \in Download /\ Tiled(dl[e])
  BY DEF Ranges, TypeOK, Listed
<1>2. \A e \in Downloads : Entries[e] = IF dl[e] = None THEN None ELSE Entry(dl[e])
  BY DEF Entries
<1>3. \A e \in Downloads : Entries[e] \in Saved \cup {None}
  BY <1>1, <1>2, EntryIs
<1>4. Entries = [e \in Downloads |-> Entries[e]]
  BY DEF Entries
<1>5. Entries \in [Downloads -> Saved \cup {None}]
  BY <1>3, <1>4
<1> QED BY <1>1, <1>2, <1>5, EntryIs

\* save() writes the list as it is.
LEMMA SaveKeeps ==
  ASSUME Ranges, Save
  PROVE  Ranges'
<1>1. /\ up /\ saved' = Entries /\ saveDue' = FALSE
      /\ remote' = [d \in Downloads |-> IF dl[d] = None THEN None ELSE remote[d]]
      /\ UNCHANGED <<up, dl, path, file, spoilt>>
  BY DEF Save
<1>2. remote' \in [Downloads -> Remote \cup {None}]
  BY <1>1 DEF Ranges, TypeOK
<1>3. Known'
  BY <1>1, EntriesAre DEF Ranges, Known
<1>4. Listed' = Listed
  BY <1>1 DEF Listed
<1>5. \A e \in Listed' : /\ Tiled(dl'[e]) /\ Calm(dl'[e])
                         /\ dl'[e].buffer # None => dl'[e].inode # None
  BY <1>1, <1>4 DEF Ranges, TypeOK
<1>6. /\ saved' \in [Downloads -> Saved \cup {None}]
      /\ \A e \in Downloads : saved'[e] # None =>
           Tiled(saved'[e]) /\ \A i \in DOMAIN saved'[e].segs : saved'[e].segs[i].reply = None
  BY <1>1, EntriesAre
<1> QED BY <1>1, <1>2, <1>3, <1>5, <1>6, FewerKeeps DEF Ranges, TypeOK

\* Exit and crash: the downloads are gone, the sidecar stays.
LEMMA StoppedKeeps ==
  ASSUME Ranges, NEW left, Stopped(left), spoilt' \subseteq Downloads,
         saved' = saved \/ saved' = Entries
  PROVE  Ranges'
<1>1. /\ up' = FALSE /\ saveDue' = FALSE /\ dl' = [d \in Downloads |-> None]
      /\ UNCHANGED <<path, remote>>
  BY DEF Stopped
<1>2. file' = [i \in Inodes |-> file'[i]]
  BY DEF Stopped, Kept
<1>3. Listed' = {}
  BY <1>1 DEF Listed
<1>4. /\ saved' \in [Downloads -> Saved \cup {None}]
      /\ \A e \in Downloads : saved'[e] # None =>
           Tiled(saved'[e]) /\ \A i \in DOMAIN saved'[e].segs : saved'[e].segs[i].reply = None
  BY EntriesAre DEF Ranges, TypeOK
<1>5. \A e \in Downloads : saved'[e] # None => remote[e] # None
  BY EntriesAre DEF Ranges, Known
<1>6. Known'
  BY <1>1, <1>5 DEF Known
<1> QED BY <1>1, <1>2, <1>3, <1>4, <1>6, FewerKeeps DEF Ranges, TypeOK

\* restoreState: what the sidecar says, with nothing under way
LEMMA LaunchKeeps ==
  ASSUME Ranges, Launch
  PROVE  Ranges'
<1> DEFINE woken(q) == [state |-> q.state, total |-> q.total, ranges |-> q.ranges,
                        segs |-> q.segs, inode |-> None, buffer |-> None,
                        quiet |-> FALSE, kicked |-> FALSE]
<1>1. /\ up' = TRUE
      /\ dl' = [d \in Downloads |-> IF saved[d] = None THEN None ELSE woken(saved[d])]
      /\ remote' = [d \in Downloads |-> IF saved[d] = None THEN None ELSE remote[d]]
      /\ UNCHANGED <<saved, saveDue, path, file, spoilt>>
  BY Zenon DEF Launch
<1>2. ASSUME NEW q \in Saved, Tiled(q), \A i \in DOMAIN q.segs : q.segs[i].reply = None
      PROVE  /\ woken(q) \in Download /\ woken(q) # None
             /\ Tiled(woken(q)) /\ Calm(woken(q)) /\ woken(q).buffer = None
  <2>1. woken(q) \in Download
    BY DEF Saved, Download
  <2>2. /\ woken(q).segs = q.segs /\ woken(q).total = q.total
        /\ woken(q).state = q.state /\ woken(q).buffer = None
    OBVIOUS
  <2>3. q.state # "Downloading"
    BY DEF Saved
  <2> HIDE DEF woken
  <2>4. Tiled(woken(q))
    BY <1>2, <2>2 DEF Tiled
  <2>5. Calm(woken(q))
    BY <1>2, <2>2, <2>3 DEF Calm
  <2> QED BY <2>1, <2>2, <2>4, <2>5, NoneAssumption
<1> HIDE DEF woken
<1>3. \A e \in Downloads : saved[e] # None =>
        /\ woken(saved[e]) \in Download /\ woken(saved[e]) # None
        /\ Tiled(woken(saved[e])) /\ Calm(woken(saved[e])) /\ woken(saved[e]).buffer = None
  BY <1>2 DEF Ranges, TypeOK
<1>4. dl' \in [Downloads -> Download \cup {None}]
  BY <1>1, <1>3
<1>5. remote' \in [Downloads -> Remote \cup {None}]
  BY <1>1 DEF Ranges, TypeOK
<1>6. \A e \in Listed' : /\ Tiled(dl'[e]) /\ Calm(dl'[e])
                         /\ dl'[e].buffer # None => dl'[e].inode # None
  BY <1>1, <1>3 DEF Listed
<1>7. Known'
  BY <1>1 DEF Ranges, Known
<1> QED BY <1>1, <1>4, <1>5, <1>6, <1>7, FewerKeeps DEF Ranges, TypeOK

\* Somebody deletes a .part file.
LEMMA PartDeletedKeeps ==
  ASSUME Ranges, NEW d \in Downloads, PartDeleted(d)
  PROVE  Ranges'
<1>1. /\ path' = [path EXCEPT ![Part(d)] = None] /\ spoilt' = spoilt \cup {d}
      /\ UNCHANGED <<up, dl, saved, saveDue, remote>>
  BY DEF PartDeleted
<1>2. file' = [i \in Inodes |-> file'[i]]
  BY DEF PartDeleted, Kept
<1>3. Listed' = Listed
  BY <1>1 DEF Listed
<1>4. Known'
  BY <1>1 DEF Ranges, Known
<1>5. path' \in [Paths -> Inodes \cup {None}]
  BY <1>1 DEF Ranges, TypeOK
<1>6. \A e \in Listed' : /\ Tiled(dl'[e]) /\ Calm(dl'[e])
                         /\ dl'[e].buffer # None => dl'[e].inode # None
  BY <1>1, <1>3 DEF Ranges, TypeOK
<1>7. /\ up' \in BOOLEAN /\ saveDue' \in BOOLEAN /\ (~up' => Listed' = {} /\ ~saveDue')
      /\ dl' \in [Downloads -> Download \cup {None}]
      /\ remote' \in [Downloads -> Remote \cup {None}]
      /\ saved' \in [Downloads -> Saved \cup {None}] /\ spoilt' \subseteq Downloads
  BY <1>1, <1>3 DEF Ranges, TypeOK
<1>8. \A e \in Downloads : saved'[e] # None =>
         Tiled(saved'[e]) /\ \A i \in DOMAIN saved'[e].segs : saved'[e].segs[i].reply = None
  BY <1>1 DEF Ranges
<1> QED BY <1>2, <1>4, <1>5, <1>6, <1>7, <1>8, FewerKeeps

\* At first there is no download.
LEMMA RangesStart == Init => Ranges
<1> SUFFICES ASSUME Init PROVE Ranges
  OBVIOUS
<1>1. Listed = {} /\ up = TRUE /\ saveDue = FALSE /\ spoilt = {}
  BY DEF Init, Listed
<1>2. /\ dl \in [Downloads -> Download \cup {None}]
      /\ saved \in [Downloads -> Saved \cup {None}]
      /\ remote \in [Downloads -> Remote \cup {None}]
      /\ path \in [Paths -> Inodes \cup {None}]
      /\ DOMAIN file = Inodes /\ file = [i \in Inodes |-> file[i]]
  BY DEF Init
<1>3. Known /\ \A d \in Downloads : saved[d] = None
  BY DEF Init, Known
<1> QED BY <1>1, <1>2, <1>3 DEF Ranges, TypeOK

\* Every step keeps the ranges.
LEMMA RangesStep == Ranges /\ [Next]_vars => Ranges'
<1> SUFFICES ASSUME Ranges, [Next]_vars PROVE Ranges'
  OBVIOUS
<1>1. CASE User
  <2>1. CASE \E d \in Downloads, size \in Sizes, kind \in Servers : AddDownload(d, size, kind)
    BY <2>1, AddDownloadKeeps
  <2>2. ASSUME NEW d \in Downloads, NEW left \in Nat, Pause(d, left) PROVE Ranges'
    BY <2>2, PauseKeeps
  <2>3. ASSUME NEW d \in Downloads, NEW left \in Nat, NEW opens \in Opens, NEW inUse \in InUse(d),
               Resume(d, opens, inUse, left)
        PROVE  Ranges'
    BY <2>3, ResumeKeeps
  <2>4. ASSUME NEW d \in Downloads, NEW left \in Nat, NEW deleteFiles \in Deletes,
               Remove(d, deleteFiles, left)
        PROVE  Ranges'
    <3>1. Deletes \subseteq BOOLEAN
      BY DEF Deletes
    <3> QED BY <2>4, <3>1, RemoveKeeps
  <2> QED BY <1>1, <2>1, <2>2, <2>3, <2>4, LeftsAre DEF User
<1>2. ASSUME NEW d \in Downloads, Answer(d) PROVE Ranges'
  <2>1. ASSUME NEW left \in Nat, NEW opens \in Opens, NEW inUse \in InUse(d),
               ProbeFinished(d, opens, inUse, left)
        PROVE  Ranges'
    BY <2>1, ProbeFinishedKeeps
  <2>2. ASSUME NEW left \in Nat, ProbeFails(d, left) PROVE Ranges'
    <3>1. d \in Listed /\ Becomes(d, Failing(At(d), left))
      BY <2>2 DEF ProbeFails, Listed
    <3> QED BY <3>1, FailureKeeps
  <2>3. ASSUME NEW i \in 1..Conns, NEW n \in 1..MaxChunk, NEW body \in {"data", "error"},
               NEW left \in Nat, ReadyRead(d, i, n, body, left)
        PROVE  Ranges'
    BY <2>3, ReadyReadKeeps
  <2>4. ASSUME NEW left \in Nat, NEW i \in 1..Conns, WriteFails(d, i, left) \/ SegmentFails(d, i, left)
        PROVE  Ranges'
    <3>1. d \in Listed /\ Becomes(d, Failing(At(d), left))
      BY <2>4 DEF WriteFails, SegmentFails, Fetching, Listed
    <3> QED BY <3>1, FailureKeeps
  <2>5. ASSUME NEW left \in Nat, NEW i \in 1..Conns, NEW inUse \in InUse(d),
               SegmentFinished(d, i, inUse, left)
        PROVE  Ranges'
    BY <2>5, SegmentFinishedKeeps
  <2>6. Lefts(Waiting(d)) \subseteq Nat /\ \A n \in 1..MaxChunk : Lefts(n) \subseteq Nat
    BY LeftsAre DEF Lefts
  <2> QED BY <1>2, <2>1, <2>2, <2>3, <2>4, <2>5, <2>6 DEF Answer
<1>3. ASSUME NEW d \in Downloads, Sampler(d) PROVE Ranges'
  BY <1>3, TimePassesKeeps, StalledKeeps, LeftsAre DEF Sampler, GivesUp
<1>4. ASSUME NEW d \in Downloads, PartDeleted(d) PROVE Ranges'
  BY <1>4, PartDeletedKeeps
<1>5. CASE Program
  <2>1. CASE Save
    BY <2>1, SaveKeeps
  <2>2. ASSUME NEW left, Quit(left) PROVE Ranges'
    <3>1. /\ Stopped(left) /\ (saved' = saved \/ saved' = Entries)
          /\ spoilt' = spoilt \cup Losing(left)
      BY <2>2, Zenon DEF Quit
    <3>2. spoilt' \subseteq Downloads
      BY <3>1 DEF Ranges, TypeOK, Losing, Listed
    <3> QED BY <3>1, <3>2, StoppedKeeps, Zenon
  <2>3. ASSUME NEW left, Crash(left) PROVE Ranges'
    <3>1. Stopped(left) /\ saved' = saved /\ spoilt' \subseteq Downloads
      BY <2>3 DEF Crash, Ranges, TypeOK
    <3> QED BY <3>1, StoppedKeeps
  <2>4. CASE Launch
    BY <2>4, LaunchKeeps
  <2> QED BY <1>5, <2>1, <2>2, <2>3, <2>4 DEF Program
<1>6. CASE UNCHANGED vars
  <2>1. /\ up' = up /\ dl' = dl /\ saved' = saved /\ saveDue' = saveDue /\ path' = path
        /\ file' = file /\ remote' = remote /\ spoilt' = spoilt
    BY <1>6 DEF vars
  <2>2. Listed' = Listed
    BY <2>1 DEF Listed
  <2>3. Known'
    BY <2>1 DEF Ranges, Known
  <2> QED BY <2>1, <2>2, <2>3, FewerKeeps DEF Ranges, TypeOK
<1> QED BY <1>1, <1>2, <1>3, <1>4, <1>5, <1>6 DEF Next

\* The invariant holds in every reachable state.
LEMMA RangesHold == Spec => []Ranges
BY RangesStart, RangesStep, PTL DEF Spec

\* The types of the state, for every server, operation and fault: requests are
\* open only while their download runs, what waits in a buffer has a file, and a
\* program that does not run has no downloads and owes no save.
THEOREM TypeCorrect == Spec => []TypeOK
<1>1. Ranges => TypeOK
  BY DEF Ranges
<1> QED BY <1>1, RangesHold, PTL

\* Whatever the server, the failures, pauses, restarts and crashes: the ranges of
\* a download whose size is known are side by side and cover its file.
THEOREM RangesCover == Spec => []SegmentsTile
<1>1. Ranges => SegmentsTile
  BY DEF Ranges, SegmentsTile, Tiled
<1> QED BY <1>1, RangesHold, PTL

-----------------------------------------------------------------------------
(* Tilings: every byte of the file is in a range, and no range goes past it *)

\* A set of numbers has a least one.
LEMMA Least ==
  ASSUME NEW S \in SUBSET Nat, S # {}
  PROVE  \E x \in S : \A y \in S : x <= y
<1>1. PICK x \in S : \A y \in S : ~ (<<y, x>> \in OpToRel(<, Nat))
  BY WFMin, NatLessThanWellFounded
<1>2. \A y \in S : ~(y < x)
  BY <1>1 DEF OpToRel
<1> QED BY <1>2

\* No range ends after the file does.
LEMMA TilesBound ==
  ASSUME NEW segs \in Seq(Segment), segs # <<>>, NEW total \in Nat, Tiles(segs, total)
  PROVE  \A i \in DOMAIN segs : segs[i].end <= total - 1
<1> DEFINE n == Len(segs)
           S == {k \in 0 .. (n - 1) : segs[n - k].end > total - 1}
<1>1. n \in Nat /\ n >= 1 /\ DOMAIN segs = 1 .. n
  OBVIOUS
<1>2. \A i \in 1 .. n : segs[i] \in Segment
  BY <1>1
<1>3. \A i \in 1 .. n : segs[i].start \in Int /\ segs[i].end \in Int
  BY <1>2 DEF Segment
<1>4. SUFFICES ASSUME S # {} PROVE FALSE
  <2>1. ASSUME NEW i \in 1 .. n, segs[i].end > total - 1 PROVE S # {}
    <3>1. n - i \in 0 .. (n - 1) /\ n - (n - i) = i
      BY <1>1
    <3> QED BY <2>1, <3>1
  <2> QED BY <1>1, <1>3, <1>4, <2>1
<1>5. S \subseteq Nat
  BY <1>1
<1>6. PICK k \in S : \A y \in S : k <= y
  <2> HIDE DEF S
  <2> QED BY <1>4, <1>5, Least
<1>13. segs[n].end = total - 1
  BY DEF Tiles
<1> HIDE DEF n
<1>14. k \in 0 .. (n - 1) /\ segs[n - k].end > total - 1
  BY <1>6
<1>15. PICK j \in 1 .. n : j = n - k
  BY <1>1, <1>14
<1>7. j \in 1 .. n /\ segs[j].end > total - 1 /\ k \in 0 .. (n - 1)
  BY <1>14, <1>15
<1>8. j # n
  BY <1>7, <1>13
<1>9. j + 1 \in 2 .. n /\ (j + 1) - 1 = j /\ k - 1 \in 0 .. (n - 1) /\ n - (k - 1) = j + 1
  BY <1>1, <1>7, <1>8, <1>15
<1>10. segs[j + 1].start = segs[j].end + 1 /\ segs[j + 1].start <= segs[j + 1].end
  <2>1. \A i \in 2 .. n : segs[i].start = segs[i - 1].end + 1
    BY DEF Tiles, n
  <2>2. segs[j + 1].start = segs[(j + 1) - 1].end + 1
    BY <1>9, <2>1
  <2>3. j + 1 \in DOMAIN segs
    BY <1>1, <1>9
  <2> QED BY <1>9, <2>2, <2>3 DEF Tiles
<1>11. segs[n - (k - 1)].end > total - 1
  <2>1. j + 1 \in 1 .. n
    BY <1>1, <1>9
  <2> QED BY <1>3, <1>7, <1>9, <1>10, <2>1
<1>12. k - 1 \in S
  BY <1>9, <1>11
<1> QED BY <1>6, <1>7, <1>12

\* Every byte of the file is in a range.
LEMMA TilesCover ==
  ASSUME NEW segs \in Seq(Segment), segs # <<>>, NEW total \in Nat, Tiles(segs, total),
         NEW p \in 0 .. (total - 1)
  PROVE  \E i \in DOMAIN segs : segs[i].start <= p /\ p <= segs[i].end
<1> DEFINE n == Len(segs)
           S == {j \in 1 .. n : p <= segs[j].end}
<1>1. n \in Nat /\ n >= 1 /\ DOMAIN segs = 1 .. n
  OBVIOUS
<1>2. \A i \in 1 .. n : segs[i] \in Segment
  BY <1>1
<1>3. \A i \in 1 .. n : segs[i].start \in Int /\ segs[i].end \in Int
  BY <1>2 DEF Segment
<1>4. n \in S
  BY <1>1 DEF Tiles
<1>5. S \subseteq Nat
  BY <1>1
<1>6. PICK j \in S : \A y \in S : j <= y
  <2> HIDE DEF S
  <2> QED BY <1>4, <1>5, Least
<1>7. j \in 1 .. n /\ p <= segs[j].end
  BY <1>6
<1>8. CASE j = 1
  BY <1>1, <1>7, <1>8 DEF Tiles
<1>9. CASE j # 1
  <2>1. j \in 2 .. n /\ j - 1 \in 1 .. n /\ j - 1 < j
    BY <1>1, <1>7, <1>9
  <2>2. j - 1 \notin S
    BY <1>6, <2>1
  <2>3. segs[j - 1].end < p
    BY <1>3, <2>1, <2>2
  <2>4. segs[j].start = segs[j - 1].end + 1
    BY <2>1 DEF Tiles
  <2>5. segs[j].start <= p
    BY <1>3, <2>1, <2>3, <2>4
  <2> QED BY <1>1, <1>7, <2>5
<1> QED BY <1>8, <1>9

-----------------------------------------------------------------------------
(* What a file holds: byte p of content c is the server's. *)

Good(c, p) == p \in DOMAIN c /\ c[p] = p

\* A function from the positions of a file of that size
Shaped(c, total) == c = [p \in 0 .. (total - 1) |-> c[p]]

\* A buffer holds bytes of the server's file, for their places.
Filled(b, total) ==
  /\ b.at + Len(b.bytes) <= total
  /\ \A k \in 1 .. Len(b.bytes) : b.bytes[k] = b.at + k - 1

\* Writing a buffer puts its bytes at their places and spoils none.
LEMMA WrittenIs ==
  ASSUME NEW b \in Buffer, NEW total \in Nat, Filled(b, total), NEW c
  PROVE  /\ Shaped(c, total) => Shaped(Written(c, b.at, b.bytes), total)
         /\ \A p \in Int : Good(c, p) => Good(Written(c, b.at, b.bytes), p)
         /\ \A p \in b.at .. (b.at + Len(b.bytes) - 1) : Good(Written(c, b.at, b.bytes), p)
<1> DEFINE at == b.at
           n == Len(b.bytes)
           bytes == b.bytes
           w == Written(c, at, bytes)
           D == DOMAIN c \cup 0 .. (at + n - 1)
<1>1. at \in Nat /\ n \in Nat /\ at + n <= total /\ \A k \in 1 .. n : bytes[k] = at + k - 1
  BY DEF Buffer, Filled
<1>2. w = [p \in D |-> IF p >= at /\ p < at + n THEN bytes[p - at + 1]
                       ELSE IF p \in DOMAIN c THEN c[p] ELSE Hole]
  BY DEF Written
<1> HIDE DEF at, n, bytes, w
<1>3. ASSUME Shaped(c, total) PROVE Shaped(w, total)
  <2>1. D = 0 .. (total - 1)
    <3>1. DOMAIN c = 0 .. (total - 1)
      BY <1>3 DEF Shaped
    <3> QED BY <1>1, <3>1
  <2>2. DOMAIN w = 0 .. (total - 1) /\ w = [p \in DOMAIN w |-> w[p]]
    BY <1>2, <2>1
  <2> QED BY <2>2 DEF Shaped
<1>4. ASSUME NEW p \in at .. (at + n - 1) PROVE Good(w, p)
  <2>1. p \in D /\ p >= at /\ p < at + n /\ p - at + 1 \in 1 .. n
    BY <1>1
  <2>2. w[p] = bytes[p - at + 1]
    BY <1>2, <2>1
  <2>3. bytes[p - at + 1] = p
    BY <1>1, <2>1
  <2> QED BY <1>2, <2>1, <2>2, <2>3 DEF Good
<1>5. ASSUME NEW p \in Int, Good(c, p) PROVE Good(w, p)
  <2>1. CASE p >= at /\ p < at + n
    <3>1. p \in at .. (at + n - 1)
      BY <1>1, <2>1
    <3> QED BY <1>4, <3>1
  <2>2. CASE ~(p >= at /\ p < at + n)
    <3>1. p \in D /\ w[p] = c[p]
      BY <1>2, <1>5, <2>2 DEF Good
    <3> QED BY <1>2, <1>5, <3>1 DEF Good
  <2> QED BY <2>1, <2>2
<1> QED BY <1>3, <1>4, <1>5 DEF at, n, bytes, w

\* Making the file as long as the download spoils no byte in it.
LEMMA ResizedIs ==
  ASSUME NEW c, NEW total \in Nat
  PROVE  /\ Shaped(Resized(c, total), total)
         /\ \A p \in 0 .. (total - 1) : Good(c, p) => Good(Resized(c, total), p)
BY DEF Resized, Shaped, Good

-----------------------------------------------------------------------------
(* The bytes, where servers honour ranges and names differ *)

\* Servers honour ranges and send no error pages as data; no two downloads save
\* to one name.  Without each of these, what follows is not true of the code.
Orderly ==
  /\ Servers = {"ranges"}
  /\ "errorpage" \notin Ops
  /\ \A d, e \in Downloads : FileName[d] = FileName[e] => d = e

\* The ranges of r, a download of a server s or what the sidecar says of it, and
\* the bytes counted for each of them
Ranged(r, s) ==
  /\ \/ r.segs = <<>> /\ r.total = -1
     \/ r.segs # <<>> /\ r.total = s.size /\ Tiles(r.segs, r.total) /\ r.ranges
  /\ \A i \in DOMAIN r.segs : r.segs[i].received <= r.segs[i].end + 1 - r.segs[i].start

\* A request brings the bytes that its range lacks.
Asking(r) ==
  \A i \in DOMAIN r.segs : LET g == r.segs[i] IN
    g.reply # None => /\ g.reply.body # "error"
                      /\ g.reply.at = g.start + g.received /\ g.reply.upto = g.end + 1

\* The open file is as long as the server's, and the buffer holds bytes of it.
Sized(r, files) ==
  /\ r.inode # None => r.total > 0 /\ Shaped(files[r.inode], r.total)
  /\ r.buffer # None => Filled(r.buffer, r.total)

Counted(r, files, server) == Ranged(r, server) /\ Asking(r) /\ Sized(r, files)

\* What has been written for r, whose .part file is the one given
Held(r, part, files) ==
  IF r.inode = None THEN IF part = None THEN <<>> ELSE files[part]
  ELSE IF r.buffer = None THEN files[r.inode]
  ELSE Written(files[r.inode], r.buffer.at, r.buffer.bytes)

\* The open file is the one of that name, and holds what is counted; or the
\* download is complete, and its file is the server's.
Honest(d, r, names, files, server) ==
  /\ r.inode # None => names[Part(d)] = r.inode
  /\ IF r.state = "Completed"
     THEN /\ names[Final(d)] # None
          /\ files[names[Final(d)]] = [p \in 0 .. (server.size - 1) |-> p]
     ELSE Right(Held(r, names[Part(d)], files), r.segs)

\* A file has one name, and one download that has it open: the one whose .part
\* file it is, or was when it still had that name.
Owned ==
  /\ \A p, q \in Paths : path[p] # None /\ path[p] = path[q] => p = q
  /\ \A d \in Listed, e \in Listed : dl[d].inode # None /\ dl[d].inode = dl[e].inode => d = e
  /\ \A d \in Listed, p \in Paths : path[p] # None /\ path[p] = dl[d].inode => p = Part(d)

\* q, of the sidecar or of an earlier moment, counts no more than r does.
Follows(q, r) ==
  /\ r.state = "Completed" <=> q.state = "Completed"
  /\ q.total = r.total /\ DOMAIN q.segs = DOMAIN r.segs
  /\ \A i \in DOMAIN r.segs :
       q.segs[i].start = r.segs[i].start /\ q.segs[i].received <= r.segs[i].received

\* Without a save that is due, the sidecar knows every download.
InStep ==
  up /\ ~saveDue => \A d \in Downloads :
    IF dl[d] = None THEN saved[d] = None
    ELSE saved[d] # None /\ Follows(saved[d], dl[d])

Faithful ==
  /\ Ranges /\ Owned /\ InStep
  /\ \A d \in Listed : Counted(dl[d], file, remote[d])
  /\ \A d \in Listed \ spoilt : Honest(d, dl[d], path, file, remote[d])
  /\ \A d \in Downloads : saved[d] # None => Ranged(saved[d], remote[d])
  /\ SavedIsThere

\* The files that a handler of d has nothing to do with
Others(d) ==
  {path[p] : p \in Paths \ {Part(d), Final(d)}} \cup {dl[e].inode : e \in Listed \ {d}}

\* What a handler of d makes leaves them alone.
Frame(d, s) ==
  /\ \A p \in Paths : p \notin {Part(d), Final(d)} => s.path[p] = path[p]
  /\ \A i \in Inodes : i \in Others(d) => s.file[i] = file[i]
  /\ s.path[Part(d)] # None => s.path[Part(d)] \notin Others(d)
  /\ s.path[Final(d)] # None =>
       s.path[Final(d)] \notin Others(d) \cup {s.path[Part(d)], s.r.inode}
  /\ s.r.inode # None => s.r.inode \notin Others(d)

Sound(d, s) ==
  /\ Situation(s) /\ Frame(d, s)
  /\ Counted(s.r, s.file, remote[d])
  /\ d \notin spoilt /\ ~s.lost => Honest(d, s.r, s.path, s.file, remote[d])

\* Names that differ have .part files and finished files that differ.
LEMMA PartAndFinal ==
  ASSUME Orderly, NEW d \in Downloads, NEW e \in Downloads
  PROVE  /\ Part(d) # Final(e) /\ (Part(d) = Part(e) <=> d = e)
         /\ Final(d) = Final(e) <=> d = e
BY DEF Orderly, Part, Final

\* Every download is sound between two handlers.
LEMMA AtSound ==
  ASSUME Faithful, Orderly, NEW d \in Listed
  PROVE  Sound(d, At(d))
<1>1. /\ At(d).r = dl[d] /\ At(d).path = path /\ At(d).file = file /\ d \in Downloads
      /\ path \in [Paths -> Inodes \cup {None}] /\ Situation(At(d))
  BY AtFine DEF Faithful, Ranges, TypeOK, Fine
<1>2. Part(d) \in Paths /\ Final(d) \in Paths /\ Part(d) # Final(d)
  BY <1>1, PathsOf, PartAndFinal
<1>3. Counted(dl[d], file, remote[d]) /\ (d \notin spoilt => Honest(d, dl[d], path, file, remote[d]))
  BY DEF Faithful
<1>4. path[Part(d)] # None => path[Part(d)] \notin Others(d)
  <2>1. \A p \in Paths \ {Part(d), Final(d)} : path[Part(d)] # None => path[p] # path[Part(d)]
    BY <1>2 DEF Faithful, Owned
  <2>2. \A e \in Listed \ {d} : path[Part(d)] # None => dl[e].inode # path[Part(d)]
    <3> TAKE e \in Listed \ {d}
    <3>1. e \in Downloads /\ Part(e) # Part(d)
      BY <1>1, PartAndFinal DEF Listed
    <3> QED BY <1>2, <3>1 DEF Faithful, Owned
  <2> QED BY <2>1, <2>2 DEF Others
<1>5. path[Final(d)] # None => path[Final(d)] \notin Others(d) \cup {path[Part(d)], dl[d].inode}
  <2>1. \A p \in Paths \ {Part(d), Final(d)} : path[Final(d)] # None => path[p] # path[Final(d)]
    BY <1>2 DEF Faithful, Owned
  <2>2. \A e \in Listed : path[Final(d)] # None => dl[e].inode # path[Final(d)]
    <3> TAKE e \in Listed
    <3>1. e \in Downloads /\ Part(e) # Final(d)
      BY <1>1, PartAndFinal DEF Listed
    <3> QED BY <1>2, <3>1 DEF Faithful, Owned
  <2>3. path[Final(d)] # None => path[Final(d)] # path[Part(d)]
    BY <1>2 DEF Faithful, Owned
  <2> QED BY <2>1, <2>2, <2>3 DEF Others
<1>6. dl[d].inode # None => dl[d].inode \notin Others(d)
  <2>1. \A p \in Paths \ {Part(d), Final(d)} : dl[d].inode # None => path[p] # dl[d].inode
    BY <1>2 DEF Faithful, Owned
  <2>2. \A e \in Listed \ {d} : dl[d].inode # None => dl[e].inode # dl[d].inode
    BY DEF Faithful, Owned
  <2> QED BY <2>1, <2>2 DEF Others
<1> QED BY <1>1, <1>3, <1>4, <1>5, <1>6 DEF Sound, Frame

-----------------------------------------------------------------------------
(* What keeps a situation sound *)

\* Kin records count the same bytes.
LEMMA RightKin ==
  ASSUME NEW c, NEW q, NEW r, Kin(q, r), Right(c, r.segs)
  PROVE  Right(c, q.segs)
<1>1. DOMAIN q.segs = DOMAIN r.segs
  BY DEF Kin
<1> SUFFICES ASSUME NEW i \in DOMAIN r.segs,
                    NEW p \in q.segs[i].start .. (q.segs[i].start + q.segs[i].received - 1)
             PROVE  p \in DOMAIN c /\ c[p] = p
  BY <1>1 DEF Right
<1>2. q.segs[i].start = r.segs[i].start /\ q.segs[i].received = r.segs[i].received
  BY DEF Kin
<1>3. p \in r.segs[i].start .. (r.segs[i].start + r.segs[i].received - 1)
  BY <1>2
<1> QED BY <1>3 DEF Right

\* Kin records have their ranges within the server's file.
LEMMA RangedKin ==
  ASSUME NEW q \in Download, NEW r \in Download, NEW server, Kin(q, r), Ranged(r, server)
  PROVE  Ranged(q, server)
<1>1. /\ q.total = r.total /\ q.ranges = r.ranges /\ DOMAIN q.segs = DOMAIN r.segs
      /\ Len(q.segs) = Len(r.segs)
  BY DEF Kin
<1>2. q.segs \in Seq(Segment) /\ r.segs \in Seq(Segment)
  BY DEF Download
<1>3. q.segs = <<>> <=> r.segs = <<>>
  BY <1>1, <1>2
<1>4. \A i \in DOMAIN q.segs : q.segs[i].received <= q.segs[i].end + 1 - q.segs[i].start
  <2> TAKE i \in DOMAIN q.segs
  <2>1. /\ q.segs[i].start = r.segs[i].start /\ q.segs[i].end = r.segs[i].end
        /\ q.segs[i].received = r.segs[i].received
    BY <1>1 DEF Kin
  <2> QED BY <1>1, <2>1 DEF Ranged
<1>5. CASE r.segs = <<>> /\ r.total = -1
  BY <1>1, <1>3, <1>4, <1>5 DEF Ranged
<1>6. CASE r.segs # <<>> /\ r.total = server.size /\ Tiles(r.segs, r.total) /\ r.ranges
  <2>1. Tiles(q.segs, q.total)
    <3>1. \A i \in DOMAIN r.segs :
            q.segs[i].start = r.segs[i].start /\ q.segs[i].end = r.segs[i].end
      BY DEF Kin
    <3> QED BY <1>1, <1>2, <1>6, <3>1, TilesSame
  <2> QED BY <1>1, <1>3, <1>4, <1>6, <2>1 DEF Ranged
<1> QED BY <1>5, <1>6 DEF Ranged

\* A handler that changes neither names nor files of others keeps to itself.
LEMMA FrameKept ==
  ASSUME NEW d \in Downloads, NEW s, NEW t, Situation(s), Frame(d, s),
         t.path = s.path, t.r.inode = s.r.inode \/ t.r.inode = None,
         \A i \in Inodes : i # s.r.inode => t.file[i] = s.file[i]
  PROVE  Frame(d, t)
<1>1. \A i \in Inodes : i \in Others(d) => i # s.r.inode
  BY NoneAssumption DEF Frame
<1>2. t.path[Final(d)] # None =>
        t.path[Final(d)] \notin Others(d) \cup {t.path[Part(d)], t.r.inode}
  BY DEF Frame
<1> QED BY <1>1, <1>2 DEF Frame

\* The same files and counts
LEMMA SameSound ==
  ASSUME NEW d \in Downloads, NEW s, NEW t, Situation(s), Situation(t), Sound(d, s),
         t.path = s.path, t.file = s.file, s.lost => t.lost, t.r.inode = s.r.inode, t.r.buffer = s.r.buffer,
         Kin(t.r, s.r), Asking(t.r),
         s.r.state # "Completed", t.r.state # "Completed"
  PROVE  Sound(d, t)
<1>1. s.r \in Download /\ t.r \in Download
  BY DEF Situation
<1>2. Frame(d, t)
  BY FrameKept DEF Sound
<1>3. Ranged(t.r, remote[d])
  BY <1>1, RangedKin DEF Sound, Counted
<1>4. Sized(t.r, t.file)
  <2>1. t.r.total = s.r.total
    BY DEF Kin
  <2> QED BY <2>1 DEF Sound, Counted, Sized
<1>5. d \notin spoilt /\ ~t.lost => Honest(d, t.r, t.path, t.file, remote[d])
  <2> HAVE d \notin spoilt /\ ~t.lost
  <2>1. Honest(d, s.r, s.path, s.file, remote[d])
    BY DEF Sound
  <2>2. Held(t.r, t.path[Part(d)], t.file) = Held(s.r, s.path[Part(d)], s.file)
    BY DEF Held
  <2>3. Right(Held(s.r, s.path[Part(d)], s.file), s.r.segs)
    BY <2>1 DEF Honest
  <2>4. Right(Held(t.r, t.path[Part(d)], t.file), t.r.segs)
    BY <2>2, <2>3, RightKin
  <2> QED BY <2>1, <2>4 DEF Honest
<1> QED BY <1>2, <1>3, <1>4, <1>5 DEF Sound, Counted

\* What the open file holds with its buffer
LEMMA PouredSized ==
  ASSUME NEW s, Situation(s), Sized(s.r, s.file), s.r.inode # None
  PROVE  /\ Shaped(Poured(s)[s.r.inode], s.r.total) /\ s.r.inode \in Inodes
         /\ \A part : Held(s.r, part, s.file) = Poured(s)[s.r.inode]
<1>1. s.r.total \in Nat /\ s.r.inode \in Inodes /\ s.r.buffer \in Buffer \cup {None}
  BY DEF Situation, Download, Sized
<1>2. CASE s.r.buffer = None
  BY <1>1, <1>2 DEF Poured, Sized, Held
<1>3. CASE s.r.buffer # None
  <2>1. Poured(s)[s.r.inode] = Written(s.file[s.r.inode], s.r.buffer.at, s.r.buffer.bytes)
    BY <1>3, PouredIs
  <2>2. Shaped(s.file[s.r.inode], s.r.total) /\ Filled(s.r.buffer, s.r.total)
        /\ s.r.buffer \in Buffer
    BY <1>1, <1>3 DEF Sized
  <2>3. Shaped(Written(s.file[s.r.inode], s.r.buffer.at, s.r.buffer.bytes), s.r.total)
    BY <1>1, <2>2, WrittenIs
  <2> QED BY <1>1, <1>3, <2>1, <2>3 DEF Held
<1> QED BY <1>2, <1>3

\* The buffer goes to the open file, which may be closed then.
LEMMA PouredSound ==
  ASSUME NEW d \in Downloads, NEW s, NEW t, Situation(s), Situation(t), Sound(d, s),
         t.path = s.path, t.file = Poured(s), s.lost => t.lost, t.r.buffer = None,
         t.r.inode = s.r.inode \/ t.r.inode = None,
         Kin(t.r, s.r), Asking(t.r),
         s.r.state # "Completed", t.r.state # "Completed"
  PROVE  Sound(d, t)
<1>1. s.r \in Download /\ t.r \in Download
  BY DEF Situation
<1>2. Frame(d, t)
  BY PouredIs, FrameKept DEF Sound
<1>3. Ranged(t.r, remote[d]) /\ Sized(s.r, s.file)
  BY <1>1, RangedKin DEF Sound, Counted
<1>4. Sized(t.r, t.file)
  <2>1. t.r.total = s.r.total
    BY DEF Kin
  <2> QED BY <1>3, <2>1, PouredSized DEF Sized
<1>5. d \notin spoilt /\ ~t.lost => Honest(d, t.r, t.path, t.file, remote[d])
  <2> HAVE d \notin spoilt /\ ~t.lost
  <2>1. Honest(d, s.r, s.path, s.file, remote[d])
    BY DEF Sound
  <2>2. Right(Held(s.r, s.path[Part(d)], s.file), s.r.segs)
    BY <2>1 DEF Honest
  <2>3. Held(t.r, t.path[Part(d)], t.file) = Held(s.r, s.path[Part(d)], s.file)
    <3>1. CASE s.r.inode = None
      <4>1. t.r.inode = None /\ s.r.buffer = None
        BY <3>1 DEF Situation
      <4> QED BY <3>1, <4>1 DEF Held, Poured
    <3>2. CASE s.r.inode # None
      <4>1. s.path[Part(d)] = s.r.inode
        BY <2>1, <3>2 DEF Honest
      <4>2. Held(s.r, s.path[Part(d)], s.file) = Poured(s)[s.r.inode]
        BY <1>3, <3>2, PouredSized
      <4> QED BY <3>2, <4>1, <4>2 DEF Held
    <3> QED BY <3>1, <3>2
  <2>4. Right(Held(t.r, t.path[Part(d)], t.file), t.r.segs)
    BY <2>2, <2>3, RightKin
  <2> QED BY <2>1, <2>4 DEF Honest
<1> QED BY <1>2, <1>3, <1>4, <1>5 DEF Sound, Counted

\* A download without requests asks for nothing wrong.
LEMMA AbortedAsks ==
  ASSUME NEW r \in Download, NEW q, q.segs = Aborted(r.segs)
  PROVE  Asking(q)
<1>1. r.segs \in Seq(Segment)
  BY DEF Download
<1> QED BY <1>1, SegsAborted DEF Asking

\* The ranges and the state that a closed file leaves
LEMMA ClosedSound ==
  ASSUME NEW d \in Downloads, NEW s, Situation(s), Sound(d, s), s.r.state # "Completed"
  PROVE  /\ Sound(d, Closed(s, 0)) /\ Situation(Closed(s, 0)) /\ Kin(Closed(s, 0).r, s.r)
         /\ Closed(s, 0).r.state = s.r.state /\ Closed(s, 0).r.inode = None
         /\ Closed(s, 0).r.buffer = None /\ Closed(s, 0).path = s.path /\ Closed(s, 0).file = Poured(s)
         /\ Closed(s, 0).r.segs = s.r.segs /\ Closed(s, 0).lost = s.lost
<1> DEFINE q == [s.r EXCEPT !.buffer = None, !.inode = None]
<1>1. /\ Situation(Closed(s, 0)) /\ Kin(Closed(s, 0).r, s.r)
      /\ Closed(s, 0) = [r |-> q, path |-> s.path, file |-> Poured(s), lost |-> s.lost]
  BY ClosedIs, ClosedKin
<1>2. q.state = s.r.state /\ q.inode = None /\ q.buffer = None /\ q.segs = s.r.segs
  BY DEF Situation, Download
<1> HIDE DEF q
<1>3. Closed(s, 0).r = q /\ Closed(s, 0).path = s.path /\ Closed(s, 0).file = Poured(s)
      /\ Closed(s, 0).lost = s.lost
  BY <1>1
<1>4. Asking(q)
  BY <1>2 DEF Asking, Sound, Counted
<1> QED BY <1>1, <1>2, <1>3, <1>4, PouredSound

\* A failure keeps what is counted: the buffer is written on the way.
LEMMA FailedSound ==
  ASSUME NEW d \in Downloads, NEW s, Situation(s), Sound(d, s), s.r.state # "Completed"
  PROVE  Sound(d, Failing(s, 0)) /\ Failing(s, 0).r.state = "Failed"
<1> DEFINE q == [s.r EXCEPT !.buffer = None, !.inode = None, !.state = "Failed",
                            !.segs = Aborted(s.r.segs)]
<1>1. /\ Situation(Failing(s, 0)) /\ Kin(Failing(s, 0).r, s.r)
      /\ Failing(s, 0) = [r |-> q, path |-> s.path, file |-> Poured(s), lost |-> s.lost]
  BY FailingIs, FailingKin
<1>2. q.state = "Failed" /\ q.inode = None /\ q.buffer = None /\ q.segs = Aborted(s.r.segs)
      /\ s.r \in Download
  BY DEF Situation, Download
<1> HIDE DEF q
<1>3. Failing(s, 0).r = q /\ Failing(s, 0).path = s.path /\ Failing(s, 0).file = Poured(s)
      /\ Failing(s, 0).lost = s.lost
  BY <1>1
<1>4. Asking(q)
  BY <1>2, AbortedAsks
<1> QED BY <1>1, <1>2, <1>3, <1>4, PouredSound

\* On a full disk the file is given up with what it has not got.
LEMMA CutSound ==
  ASSUME NEW d \in Downloads, NEW s, Situation(s), Sound(d, s), s.r.state # "Completed",
         NEW left \in Nat
  PROVE  Sound(d, Cut(s, left)) /\ Situation(Cut(s, left))
         /\ Cut(s, left).r.state = s.r.state /\ Cut(s, left).r.inode = s.r.inode
         /\ Cut(s, left).r.segs = s.r.segs /\ Cut(s, left).path = s.path
<1> DEFINE t == Cut(s, left)
<1>1. /\ Situation(t) /\ Kin(t.r, s.r) /\ t.path = s.path /\ t.file = s.file
      /\ t.r.segs = s.r.segs /\ t.r.total = s.r.total /\ t.r.state = s.r.state
      /\ t.r.inode = s.r.inode
      /\ \/ t.r.buffer = None
         \/ s.r.buffer # None /\ t.r.buffer \in {s.r.buffer, Short(s.r.buffer, left)}
      /\ t = s \/ t.lost
  BY CutIs
<1> HIDE DEF t
<1>2. t.r \in Download /\ s.r \in Download
  BY <1>1 DEF Situation
<1>3. Frame(d, t)
  BY <1>1, FrameKept DEF Sound
<1>4. Ranged(t.r, remote[d])
  BY <1>1, <1>2, RangedKin DEF Sound, Counted
<1>5. Asking(t.r)
  BY <1>1 DEF Asking, Sound, Counted
<1>6. t.r.buffer # None => Filled(t.r.buffer, t.r.total)
  <2> SUFFICES ASSUME t.r.buffer # None PROVE Filled(t.r.buffer, s.r.total)
    BY <1>1
  <2>1. s.r.buffer # None /\ t.r.buffer \in {s.r.buffer, Short(s.r.buffer, left)}
    BY <1>1
  <2>2. Filled(s.r.buffer, s.r.total) /\ s.r.buffer \in Buffer
    BY <1>2, <2>1 DEF Sound, Counted, Sized, Download
  <2>3. ASSUME NEW b \in Buffer, NEW total, total \in Int, Filled(b, total), Short(b, left) # None
        PROVE  Filled(Short(b, left), total)
    <3>1. b.at \in Nat /\ Len(b.bytes) \in Nat
      BY BufferIs
    <3>2. left < Len(b.bytes)
      BY <2>3, <3>1, ShortIs
    <3>3. /\ Short(b, left).at = b.at /\ Len(Short(b, left).bytes) = Len(b.bytes) - left
          /\ \A k \in 1 .. (Len(b.bytes) - left) : Short(b, left).bytes[k] = b.bytes[k]
      BY <3>2, ShortIs
    <3>4. b.at + (Len(b.bytes) - left) <= total
      BY <2>3, <3>1, <3>2 DEF Filled
    <3>5. \A k \in 1 .. (Len(b.bytes) - left) : b.bytes[k] = b.at + k - 1
      BY <2>3, <3>1, <3>2 DEF Filled
    <3> QED BY <3>3, <3>4, <3>5 DEF Filled
  <2>4. s.r.total \in Int
    BY <1>2 DEF Download
  <2>5. CASE t.r.buffer = s.r.buffer
    BY <2>2, <2>5
  <2>6. CASE t.r.buffer = Short(s.r.buffer, left)
    BY <2>2, <2>3, <2>4, <2>6
  <2> QED BY <2>1, <2>5, <2>6
<1>7. Sized(t.r, t.file)
  BY <1>1, <1>6 DEF Sized, Sound, Counted
<1>8. d \notin spoilt /\ ~t.lost => Honest(d, t.r, t.path, t.file, remote[d])
  BY <1>1 DEF Sound
<1>9. Sound(d, t)
  BY <1>1, <1>3, <1>4, <1>5, <1>7, <1>8 DEF Sound, Counted
<1> QED BY <1>1, <1>9 DEF t

\* A failure on a full disk
LEMMA FailingSound ==
  ASSUME NEW d \in Downloads, NEW s, Situation(s), Sound(d, s), s.r.state # "Completed",
         NEW left \in Nat
  PROVE  Sound(d, Failing(s, left)) /\ Failing(s, left).r.state = "Failed"
<1>1. /\ Sound(d, Cut(s, left)) /\ Situation(Cut(s, left))
      /\ Cut(s, left).r.state # "Completed"
  BY CutSound
<1>2. Failing(s, left) = Failing(Cut(s, left), 0)
  BY FailingCut
<1> QED BY <1>1, <1>2, FailedSound

\* So does a flush.
LEMMA FlushedSound ==
  ASSUME NEW d \in Downloads, NEW s, Situation(s), Sound(d, s), s.r.state # "Completed"
  PROVE  /\ Sound(d, Flushed(s, 0)) /\ Situation(Flushed(s, 0)) /\ Flushed(s, 0).r.state = s.r.state
         /\ Flushed(s, 0).r.buffer = None /\ Flushed(s, 0).r.inode = s.r.inode
         /\ Flushed(s, 0).r.segs = s.r.segs /\ Flushed(s, 0).r.total = s.r.total
         /\ Flushed(s, 0).lost = s.lost
<1> DEFINE q == [s.r EXCEPT !.buffer = None]
           f == Flushed(s, 0)
<1>1. f = [r |-> q, path |-> s.path, file |-> Poured(s), lost |-> s.lost] /\ Situation(f)
  BY FlushedIs
<1>2. /\ q.segs = s.r.segs /\ q.total = s.r.total /\ q.ranges = s.r.ranges
      /\ q.inode = s.r.inode /\ q.buffer = None /\ q.state = s.r.state /\ s.r \in Download
  BY DEF Situation, Download
<1> HIDE DEF q, f
<1>3. f.r = q /\ f.lost = s.lost /\ f.path = s.path /\ f.file = Poured(s) /\ f.r \in Download
  BY <1>1 DEF Situation
<1>4. Kin(q, s.r)
  BY <1>2, <1>3, KinItself
<1>5. Asking(q)
  BY <1>2 DEF Asking, Sound, Counted
<1>6. Sound(d, f)
  BY <1>1, <1>2, <1>3, <1>4, <1>5, PouredSound
<1> QED BY <1>1, <1>2, <1>3, <1>6 DEF f

\* And what a flush on a full disk leaves in the buffer is where it was counted.
LEMMA PartlySound ==
  ASSUME NEW d \in Downloads, NEW s, Situation(s), Sound(d, s), s.r.state # "Completed",
         NEW left \in Nat
  PROVE  /\ Sound(d, Flushed(s, left)) /\ Situation(Flushed(s, left))
         /\ Flushed(s, left).r.state = s.r.state
<1>1. s.r \in Download /\ (s.r.buffer # None => s.r.buffer \in Buffer)
  BY DEF Situation, Download
<1>2. CASE left = 0
  BY <1>2, FlushedSound
<1>3. CASE left # 0 /\ (s.r.buffer = None \/ left >= Len(s.r.buffer.bytes))
  <2>1. Flushed(s, left) = s
    BY <1>3 DEF Flushed
  <2> QED BY <2>1
<1>4. CASE left # 0 /\ s.r.buffer # None /\ left < Len(s.r.buffer.bytes)
  <2> DEFINE b == s.r.buffer
             i == s.r.inode
             n == Len(b.bytes)
             fits == Len(b.bytes) - left
             first == SubSeq(b.bytes, 1, fits)
             rest == [at |-> b.at + fits, bytes |-> SubSeq(b.bytes, fits + 1, Len(b.bytes))]
             w == [s.file EXCEPT ![i] = Written(@, b.at, first)]
             q == [s.r EXCEPT !.buffer = rest]
             t == Flushed(s, left)
  <2>1. /\ rest \in Buffer /\ rest # None /\ fits \in Nat \ {0} /\ b \in Buffer
        /\ rest.at = b.at + fits /\ Len(rest.bytes) = left
        /\ \A k \in 1 .. left : rest.bytes[k] = b.bytes[fits + k]
        /\ Len(first) = fits /\ \A k \in 1 .. fits : first[k] = b.bytes[k]
        /\ t = [r |-> q, path |-> s.path, file |-> w, lost |-> s.lost]
    BY <1>4, RestIs
  <2>0. b.at \in Nat /\ n \in Nat
    BY <1>1, <1>4, BufferIs
  <2> HIDE DEF first, rest, t
  <2>2. b.at \in Nat /\ n \in Nat /\ fits + left = n /\ fits \in Nat /\ rest.at = b.at + fits
    <3>1. fits \in Nat /\ rest.at = b.at + fits
      BY <2>1
    <3> HIDE DEF b
    <3>2. fits + left = n
      BY <2>0
    <3> QED BY <2>0, <3>1, <3>2
  <2> HIDE DEF fits, n
  <2>3. /\ q \in Download /\ q.segs = s.r.segs /\ q.total = s.r.total /\ q.ranges = s.r.ranges
        /\ q.state = s.r.state /\ q.inode = i /\ q.buffer = rest
    BY <1>1, <2>1 DEF Download
  <2>4. /\ i # None /\ i \in Inodes /\ s.file = [j \in Inodes |-> s.file[j]]
    BY <1>1, <1>4 DEF Situation, Download
  <2>5. /\ w = [j \in Inodes |-> w[j]] /\ w[i] = Written(s.file[i], b.at, first)
        /\ \A j \in Inodes : j # i => w[j] = s.file[j]
    BY <2>4
  <2> HIDE DEF q, w
  <2>6. t.r = q /\ t.path = s.path /\ t.file = w /\ t.lost = s.lost
    BY <2>1
  <2>7. Situation(t)
    BY <1>1, <2>1, <2>3, <2>4, <2>5, Made DEF Situation
  <2>8. Kin(q, s.r)
    BY <1>1, <2>3, KinItself
  <2>9. Frame(d, t)
    BY <2>3, <2>5, <2>6, FrameKept DEF Sound
  <2>10. Ranged(q, remote[d]) /\ Asking(q)
    <3>1. Asking(q)
      BY <2>3 DEF Asking, Sound, Counted
    <3> QED BY <1>1, <2>3, <2>8, <3>1, RangedKin DEF Sound, Counted
  <2>11. Shaped(s.file[i], s.r.total) /\ s.r.total \in Nat /\ Filled(b, s.r.total)
    <3>1. s.r.total > 0 /\ s.r.total \in {-1} \cup Nat
      BY <1>1, <2>4 DEF Download, Sound, Counted, Sized
    <3> QED BY <1>4, <2>4, <3>1 DEF Sound, Counted, Sized
  <2>12. b.at + n <= s.r.total /\ \A k \in 1 .. n : b.bytes[k] = b.at + k - 1
    BY <2>11 DEF Filled, n
  <2>13. Filled(rest, s.r.total)
    <3>1. \A k \in 1 .. left : rest.bytes[k] = rest.at + k - 1
      <4> TAKE k \in 1 .. left
      <4>1. fits + k \in 1 .. n /\ rest.bytes[k] = b.bytes[fits + k]
        BY <2>1, <2>2
      <4>2. b.bytes[fits + k] = b.at + (fits + k) - 1
        BY <2>12, <4>1
      <4>3. b.at + (fits + k) - 1 = rest.at + k - 1
        <5> HIDE DEF b
        <5> QED BY <2>2
      <4> QED BY <4>1, <4>2, <4>3
    <3>2. rest.at + left <= s.r.total
      <4>1. b.at + n <= s.r.total
        BY <2>12
      <4>2. rest.at + left = b.at + n
        <5> HIDE DEF b
        <5> QED BY <2>2
      <4> QED BY <4>1, <4>2
    <3> QED BY <2>1, <3>1, <3>2 DEF Filled
  <2> DEFINE c == s.file[i]
             D == DOMAIN c
             all == Written(c, b.at, b.bytes)
             one == Written(c, b.at, first)
             two == Written(one, rest.at, rest.bytes)
  <2>14. one = [p \in D \cup 0 .. (b.at + fits - 1) |->
                  IF p >= b.at /\ p < b.at + fits THEN first[p - b.at + 1]
                  ELSE IF p \in D THEN c[p] ELSE Hole]
    BY <2>1 DEF Written
  <2>15. two = [p \in DOMAIN one \cup 0 .. (rest.at + left - 1) |->
                  IF p >= rest.at /\ p < rest.at + left THEN rest.bytes[p - rest.at + 1]
                  ELSE IF p \in DOMAIN one THEN one[p] ELSE Hole]
    BY <2>1 DEF Written
  <2>16. all = [p \in D \cup 0 .. (b.at + n - 1) |->
                  IF p >= b.at /\ p < b.at + n THEN b.bytes[p - b.at + 1]
                  ELSE IF p \in D THEN c[p] ELSE Hole]
    BY DEF Written, n
  <2>17. D = 0 .. (s.r.total - 1)
    BY <2>11 DEF Shaped
  <2> HIDE DEF c, D, all, one, two
  <2>18. D \cup 0 .. (b.at + fits - 1) = D /\ D \cup 0 .. (rest.at + left - 1) = D
         /\ D \cup 0 .. (b.at + n - 1) = D
    <3> DEFINE total == s.r.total
               x == b.at + fits - 1
               y == rest.at + left - 1
               z == b.at + n - 1
    <3>1. x < total /\ y < total /\ z < total /\ x \in Int /\ y \in Int /\ z \in Int
          /\ total \in Nat
      <4>1. b.at + n <= total /\ total \in Nat
        BY <2>11, <2>12
      <4> HIDE DEF b, total
      <4> QED BY <2>2, <4>1
    <3> HIDE DEF total, x, y, z
    <3>2. D = 0 .. (total - 1)
      BY <2>17 DEF total
    <3>3. D \cup 0 .. x = D /\ D \cup 0 .. y = D /\ D \cup 0 .. z = D
      BY <3>1, <3>2
    <3> QED BY <3>3, Zenon DEF x, y, z
  <2>19. DOMAIN one = D /\ DOMAIN two = D /\ DOMAIN all = D
    BY <2>14, <2>15, <2>16, <2>18
  <2>20. Shaped(one, s.r.total)
    BY <2>14, <2>17, <2>18, <2>19 DEF Shaped
  <2>21. two = all
    <3>1. ASSUME NEW p \in D PROVE two[p] = all[p]
      <4>1. p \in Int
        BY <2>11, <2>17
      <4>2. CASE p < b.at
        <5>1. ~(p >= rest.at) /\ ~(p >= b.at)
          BY <2>1, <2>2, <4>1, <4>2
        <5>2. two[p] = one[p] /\ one[p] = c[p] /\ all[p] = c[p]
          BY <2>14, <2>15, <2>16, <2>18, <2>19, <5>1
        <5> QED BY <5>2
      <4>3. CASE p >= b.at /\ p < b.at + fits
        <5>1. ~(p >= rest.at) /\ p < b.at + n /\ p - b.at + 1 \in 1 .. fits
          BY <2>1, <2>2, <4>1, <4>3
        <5>2. two[p] = one[p] /\ one[p] = first[p - b.at + 1] /\ all[p] = b.bytes[p - b.at + 1]
          BY <2>14, <2>15, <2>16, <2>18, <2>19, <4>3, <5>1
        <5> QED BY <2>1, <5>1, <5>2
      <4>4. CASE p >= b.at + fits /\ p < b.at + n
        <5>1. p >= rest.at /\ p < rest.at + left /\ p >= b.at
              /\ p - rest.at + 1 \in 1 .. left /\ fits + (p - rest.at + 1) = p - b.at + 1
          <6> HIDE DEF b
          <6> QED BY <2>2, <4>1, <4>4
        <5>2. two[p] = rest.bytes[p - rest.at + 1] /\ all[p] = b.bytes[p - b.at + 1]
          BY <2>15, <2>16, <2>18, <2>19, <4>4, <5>1
        <5>3. rest.bytes[p - rest.at + 1] = b.bytes[fits + (p - rest.at + 1)]
          BY <2>1, <5>1
        <5> QED BY <5>1, <5>2, <5>3
      <4>5. CASE p >= b.at + n
        <5>1. ~(p < rest.at + left) /\ ~(p < b.at + fits) /\ ~(p < b.at + n)
          BY <2>1, <2>2, <4>1, <4>5
        <5>2. two[p] = one[p] /\ one[p] = c[p] /\ all[p] = c[p]
          BY <2>14, <2>15, <2>16, <2>18, <2>19, <5>1
        <5> QED BY <5>2
      <4> QED BY <2>1, <2>2, <4>1, <4>2, <4>3, <4>4, <4>5
    <3>2. two = [p \in D |-> two[p]] /\ all = [p \in D |-> all[p]]
      BY <2>15, <2>16, <2>18, <2>19
    <3> QED BY <3>1, <3>2
  <2>22. Held(q, s.path[Part(d)], w) = Held(s.r, s.path[Part(d)], s.file)
    <3>1. Held(q, s.path[Part(d)], w) = two
      BY <2>1, <2>3, <2>4, <2>5 DEF Held, two, one, c
    <3>2. Held(s.r, s.path[Part(d)], s.file) = all
      BY <1>4, <2>4 DEF Held, all, c
    <3> QED BY <2>21, <3>1, <3>2
  <2>23. Counted(q, w, remote[d])
    <3>1. s.r.total > 0
      BY <2>4 DEF Sound, Counted, Sized
    <3>2. Shaped(w[i], s.r.total)
      BY <2>5, <2>20 DEF one, c
    <3> QED BY <2>3, <2>10, <2>13, <3>1, <3>2 DEF Counted, Sized
  <2>24. d \notin spoilt /\ ~s.lost => Honest(d, q, s.path, w, remote[d])
    <3> HAVE d \notin spoilt /\ ~s.lost
    <3>1. Honest(d, s.r, s.path, s.file, remote[d])
      BY DEF Sound
    <3>2. Right(Held(s.r, s.path[Part(d)], s.file), s.r.segs)
      BY <3>1 DEF Honest
    <3> QED BY <2>3, <2>22, <3>1, <3>2 DEF Honest
  <2> QED BY <2>3, <2>6, <2>7, <2>9, <2>23, <2>24 DEF Sound, t
<1>5. s.r.buffer # None => Len(s.r.buffer.bytes) \in Nat
  BY <1>1, BufferIs
<1> QED BY <1>2, <1>3, <1>4, <1>5

\* What is counted is in the file's range.
LEMMA CountedFits ==
  ASSUME NEW r, r.segs \in Seq(Segment), NEW server \in Remote, Ranged(r, server),
         NEW i \in DOMAIN r.segs,
         NEW p \in r.segs[i].start .. (r.segs[i].start + r.segs[i].received - 1)
  PROVE  p \in 0 .. (r.total - 1)
<1>1. r.segs # <<>> /\ DOMAIN r.segs = 1 .. Len(r.segs)
  OBVIOUS
<1>2. r.total = server.size /\ Tiles(r.segs, r.total)
  BY <1>1 DEF Ranged
<1>3. r.total \in Nat
  BY <1>2, BoundAssumption DEF Remote
<1>4. r.segs[i] \in Segment
  BY <1>1
<1>5. r.segs[i].end <= r.total - 1
  BY <1>1, <1>2, <1>3, TilesBound
<1>6. r.segs[i].received <= r.segs[i].end + 1 - r.segs[i].start
  BY DEF Ranged
<1>7. r.segs[i].start \in Nat /\ r.segs[i].received \in Nat /\ r.segs[i].end \in Int
  BY <1>4 DEF Segment
<1> DEFINE a == r.segs[i].start
           b == r.segs[i].received
           e == r.segs[i].end
           t == r.total
<1>8. /\ a \in Nat /\ b \in Nat /\ e \in Int /\ t \in Nat /\ e <= t - 1 /\ b <= e + 1 - a
      /\ p \in a .. (a + b - 1)
  BY <1>3, <1>5, <1>6, <1>7
<1> HIDE DEF a, b, e, t
<1>9. p \in 0 .. (t - 1)
  BY <1>8
<1> QED BY <1>9 DEF t

\* A download that knows its size has ranges.
LEMMA KnownSize ==
  ASSUME NEW r, NEW server \in Remote, Ranged(r, server), r.total > 0
  PROVE  r.segs # <<>> /\ r.total = server.size /\ r.total \in Nat /\ Tiles(r.segs, r.total)
         /\ r.ranges
<1>1. server.size \in Nat
  BY BoundAssumption DEF Remote
<1>2. ~(r.total = -1)
  OBVIOUS
<1> QED BY <1>1, <1>2 DEF Ranged

\* openPart finds the bytes counted, or makes a file for a download without any.
LEMMA OpenedSound ==
  ASSUME Faithful, Orderly, NEW d \in Listed, NEW s, Situation(s), Sound(d, s),
         s.path = path, s.r.inode = None, dl[d].inode = None,
         s.r.total > 0, s.r.state # "Completed"
  PROVE  /\ Sound(d, Opened(d, s)) /\ Situation(Opened(d, s))
         /\ Opened(d, s).r.inode # None /\ Opened(d, s).r.segs = s.r.segs
         /\ Opened(d, s).r.total = s.r.total /\ Opened(d, s).r.ranges = s.r.ranges
         /\ Opened(d, s).r.state = s.r.state
<1> DEFINE w == Opened(d, s)
           i == IF s.path[Part(d)] # None THEN s.path[Part(d)] ELSE Free
           r == [s.r EXCEPT !.inode = i]
           f == [s.file EXCEPT ![i] = IF s.r.total > 0 THEN Resized(@, s.r.total) ELSE @]
           n == [s.path EXCEPT ![Part(d)] = i]
<1>1. /\ d \in Downloads /\ remote[d] \in Remote /\ s.r \in Download
      /\ s.path \in [Paths -> Inodes \cup {None}] /\ s.file = [j \in Inodes |-> s.file[j]]
      /\ Part(d) \in Paths /\ Final(d) \in Paths /\ Part(d) # Final(d)
  BY AtFine, PathsOf, PartAndFinal DEF Faithful, Situation
<1>2. /\ i \in Inodes /\ i # None /\ i \notin Others(d)
      /\ s.path[Final(d)] # None => s.path[Final(d)] # i
  <2>1. CASE s.path[Part(d)] # None
    <3>1. s.path[Part(d)] \in Inodes
      BY <1>1, <2>1
    <3>2. s.path[Part(d)] \notin Others(d)
      BY <2>1 DEF Sound, Frame
    <3>3. s.path[Final(d)] # None => s.path[Final(d)] # s.path[Part(d)]
      BY DEF Sound, Frame
    <3> QED BY <2>1, <3>1, <3>2, <3>3
  <2>2. CASE s.path[Part(d)] = None
    <3>1. /\ Free \in Inodes /\ \A p \in Paths : path[p] # Free
          /\ \A e \in Listed : dl[e].inode # Free
      BY <1>1, FreeIs DEF Faithful, Ranges
    <3>2. Free \notin Others(d)
      BY <3>1 DEF Others
    <3> QED BY <1>1, <2>2, <3>1, <3>2, NoneAssumption
  <2> QED BY <2>1, <2>2
<1>3. r.inode = i /\ r.segs = s.r.segs /\ r.total = s.r.total /\ r.ranges = s.r.ranges
      /\ r.state = s.r.state /\ r.buffer = s.r.buffer
  BY <1>1 DEF Download
<1>4. s.r.buffer = None
  BY DEF Situation
<1>5. s.r.segs # <<>> /\ s.r.total = remote[d].size /\ s.r.total \in Nat
  BY <1>1, KnownSize DEF Sound, Counted
<1>6. f[i] = Resized(s.file[i], s.r.total) /\ \A j \in Inodes : j # i => f[j] = s.file[j]
  BY <1>1, <1>2
<1>7. n[Part(d)] = i /\ \A p \in Paths : p # Part(d) => n[p] = s.path[p]
  BY <1>1
<1>8. Situation(w) /\ w = [r |-> r, path |-> n, file |-> f, lost |-> s.lost]
  BY <1>1, <1>2, OpenedIs
<1> HIDE DEF w, i, r, f, n
<1>9. w.r = r /\ w.path = n /\ w.file = f /\ w.lost = s.lost
  BY <1>8
<1>10. Frame(d, w)
  <2>1. \A p \in Paths : p \notin {Part(d), Final(d)} => n[p] = path[p]
    BY <1>7 DEF Sound, Frame
  <2>2. \A j \in Inodes : j \in Others(d) => f[j] = file[j]
    BY <1>2, <1>6 DEF Sound, Frame
  <2>3. n[Final(d)] # None => n[Final(d)] \notin Others(d) \cup {n[Part(d)], r.inode}
    BY <1>1, <1>2, <1>3, <1>7 DEF Sound, Frame
  <2> QED BY <1>2, <1>3, <1>7, <1>9, <2>1, <2>2, <2>3 DEF Frame
<1>11. Counted(r, f, remote[d])
  <2>1. Ranged(r, remote[d]) /\ Asking(r)
    BY <1>3 DEF Sound, Counted, Ranged, Asking
  <2>2. Shaped(f[i], r.total)
    BY <1>3, <1>5, <1>6, ResizedIs
  <2> QED BY <1>3, <1>4, <2>1, <2>2 DEF Counted, Sized
<1>12. d \notin spoilt /\ ~s.lost => Honest(d, r, n, f, remote[d])
  <2> HAVE d \notin spoilt /\ ~s.lost
  <2>1. Right(Held(s.r, s.path[Part(d)], s.file), s.r.segs)
    BY DEF Sound, Honest
  <2>2. Right(f[i], s.r.segs)
    <3> SUFFICES ASSUME NEW k \in DOMAIN s.r.segs,
                        NEW p \in s.r.segs[k].start .. (s.r.segs[k].start + s.r.segs[k].received - 1)
                 PROVE  p \in DOMAIN f[i] /\ f[i][p] = p
      BY DEF Right
    <3>1. s.r.segs \in Seq(Segment) /\ Ranged(s.r, remote[d])
      BY <1>1 DEF Download, Sound, Counted
    <3>2. p \in 0 .. (s.r.total - 1)
      BY <1>1, <3>1, CountedFits
    <3>3. Good(Held(s.r, s.path[Part(d)], s.file), p)
      BY <2>1 DEF Right, Good
    <3>4. Good(s.file[i], p)
      <4>1. s.path[Part(d)] # None
        BY <3>3 DEF Held, Good
      <4> QED BY <3>3, <4>1 DEF Held, i
    <3>5. Good(f[i], p)
      BY <1>5, <1>6, <3>2, <3>4, ResizedIs
    <3> QED BY <3>5 DEF Good
  <2>3. Held(r, n[Part(d)], f) = f[i]
    BY <1>2, <1>3, <1>4 DEF Held
  <2> QED BY <1>3, <1>7, <2>2, <2>3 DEF Honest
<1> QED BY <1>2, <1>3, <1>8, <1>9, <1>10, <1>11, <1>12 DEF Sound, w

\* A range asks for the bytes from where its file ends.
LEMMA RequestAsks ==
  ASSUME NEW d \in Downloads, remote[d] \in Remote, NEW r \in Download,
         Ranged(r, remote[d]), Asking(r), NEW q,
         q.segs = [i \in DOMAIN r.segs |-> Request(d, r, r.segs[i])]
  PROVE  Asking(q)
<1> SUFFICES ASSUME NEW i \in DOMAIN r.segs, Request(d, r, r.segs[i]).reply # None
             PROVE  LET g == Request(d, r, r.segs[i]) IN
                    /\ g.reply.body # "error"
                    /\ g.reply.at = g.start + g.received /\ g.reply.upto = g.end + 1
  BY DEF Asking
<1> DEFINE g == r.segs[i]
<1>1. r.segs \in Seq(Segment) /\ g \in Segment /\ r.segs # <<>>
  BY DEF Download
<1>2. CASE g.reply # None \/ Done(g)
  <2>1. Request(d, r, g) = g
    BY <1>2 DEF Request
  <2> QED BY <2>1 DEF Asking
<1>3. CASE ~(g.reply # None \/ Done(g))
  <2>1. r.ranges /\ Tiles(r.segs, r.total)
    BY <1>1 DEF Ranged
  <2>2. g.start <= g.end /\ g.start \in Nat /\ g.end \in Int
    BY <1>1, <2>1 DEF Tiles, Segment
  <2>3. g.end >= 0
    BY <2>2
  <2> DEFINE p == [at |-> g.start + g.received, upto |-> g.end + 1, body |-> "none"]
  <2>4. Request(d, r, g) = [g EXCEPT !.reply = p]
    BY <1>3, <2>1, <2>3 DEF Request
  <2>5. p.at = g.start + g.received /\ p.upto = g.end + 1 /\ p.body = "none"
    OBVIOUS
  <2> HIDE DEF p, g
  <2>6. Request(d, r, g).reply = p /\ Request(d, r, g).start = g.start
        /\ Request(d, r, g).end = g.end /\ Request(d, r, g).received = g.received
    BY <1>1, <2>4 DEF Segment
  <2> QED BY <2>5, <2>6 DEF g
<1> QED BY <1>2, <1>3

\* So every range does.
LEMMA RequestedSound ==
  ASSUME NEW d \in Downloads, remote[d] \in Remote, NEW s, Situation(s), Sound(d, s),
         s.r.state # "Completed"
  PROVE  /\ Sound(d, Requested(d, s)) /\ Situation(Requested(d, s))
         /\ Requested(d, s).r.state = s.r.state /\ Requested(d, s).r.inode = s.r.inode
         /\ Kin(Requested(d, s).r, s.r)
         /\ Requested(d, s).path = s.path /\ Requested(d, s).file = s.file
         /\ Requested(d, s).lost = s.lost
<1> DEFINE segs == [i \in DOMAIN s.r.segs |-> Request(d, s.r, s.r.segs[i])]
           q == [s.r EXCEPT !.segs = segs]
           t == Requested(d, s)
<1>1. /\ t = [r |-> q, path |-> s.path, file |-> s.file, lost |-> s.lost]
      /\ Situation(t) /\ Kin(t.r, s.r) /\ segs \in Seq(Segment)
  BY RequestedIs, Zenon
<1>2. q.segs = segs /\ q.state = s.r.state /\ q.inode = s.r.inode /\ q.buffer = s.r.buffer
  <2> HIDE DEF segs
  <2> QED BY DEF Situation, Download
<1>3. Asking(q)
  <2>1. s.r \in Download /\ Ranged(s.r, remote[d]) /\ Asking(s.r)
    BY DEF Situation, Sound, Counted
  <2> HIDE DEF q
  <2> QED BY <1>2, <2>1, RequestAsks
<1> HIDE DEF q, t
<1>4. t.r = q /\ t.path = s.path /\ t.file = s.file /\ t.lost = s.lost
  BY <1>1
<1>5. Sound(d, t)
  BY <1>1, <1>2, <1>3, <1>4, SameSound
<1> QED BY <1>1, <1>2, <1>4, <1>5 DEF t

\* A rename that fails leaves a failed download.
LEMMA GoneSound ==
  ASSUME Orderly, NEW d \in Downloads, NEW s, Situation(s), Sound(d, s), s.r.state # "Completed"
  PROVE  Sound(d, Gone(d, s)) /\ Gone(d, s).r.state = "Failed"
<1> DEFINE c == [Closed(s, 0) EXCEPT !.path[Final(d)] = None]
           q == [s.r EXCEPT !.buffer = None, !.inode = None]
           n == [s.path EXCEPT ![Final(d)] = None]
<1>1. Part(d) \in Paths /\ Final(d) \in Paths /\ Part(d) # Final(d)
  BY PathsOf, PartAndFinal
<1>2. Situation(c) /\ c = [r |-> q, path |-> n, file |-> Poured(s), lost |-> s.lost]
  BY <1>1, GoneIs
<1>3. Sound(d, Closed(s, 0)) /\ Situation(Closed(s, 0)) /\ Closed(s, 0).r.state = s.r.state
      /\ Closed(s, 0).r.inode = None /\ Closed(s, 0).path = s.path /\ Closed(s, 0).file = Poured(s)
      /\ Closed(s, 0).r = q /\ Closed(s, 0).lost = s.lost
  <2>1. Closed(s, 0) = [r |-> q, path |-> s.path, file |-> Poured(s), lost |-> s.lost]
    BY ClosedIs
  <2> HIDE DEF q
  <2>2. Closed(s, 0).r = q
    BY <2>1
  <2> QED BY <2>2, ClosedSound
<1>4. n[Final(d)] = None /\ \A p \in Paths : p # Final(d) => n[p] = s.path[p]
  BY <1>1 DEF Situation
<1>5. Gone(d, s) = Failing(c, 0)
  BY DEF Gone
<1> HIDE DEF c, q, n
<1>6. c.r = q /\ c.path = n /\ c.file = Poured(s) /\ c.lost = s.lost
  BY <1>2
<1>7. Frame(d, c)
  BY <1>1, <1>3, <1>4, <1>6 DEF Sound, Frame
<1>8. Counted(c.r, c.file, remote[d])
  BY <1>3, <1>6 DEF Sound
<1>9. d \notin spoilt /\ ~c.lost => Honest(d, c.r, c.path, c.file, remote[d])
  BY <1>1, <1>3, <1>4, <1>6 DEF Sound, Honest
<1> QED BY <1>2, <1>3, <1>5, <1>6, <1>7, <1>8, <1>9, FailedSound DEF Sound

\* The ranges are done: the file is the server's.
LEMMA DoneIsWhole ==
  ASSUME NEW segs \in Seq(Segment), segs # <<>>, NEW total \in Nat, Tiles(segs, total),
         AllDone(segs), NEW c, Shaped(c, total), Right(c, segs)
  PROVE  c = [p \in 0 .. (total - 1) |-> p]
<1>1. ASSUME NEW p \in 0 .. (total - 1) PROVE c[p] = p
  <2>1. PICK i \in DOMAIN segs : segs[i].start <= p /\ p <= segs[i].end
    BY TilesCover
  <2>2. segs[i] \in Segment
    <3>1. DOMAIN segs = 1 .. Len(segs)
      OBVIOUS
    <3> QED BY <3>1
  <2> DEFINE a == segs[i].start
             b == segs[i].received
             e == segs[i].end
  <2>3. a \in Nat /\ b \in Nat /\ e \in Int /\ b >= e - a + 1 /\ a <= p /\ p <= e
    BY <2>1, <2>2 DEF Segment, AllDone, Done
  <2> HIDE DEF a, b, e
  <2>4. p \in a .. (a + b - 1)
    BY <2>3
  <2> QED BY <2>4 DEF Right, a, b
<1> QED BY <1>1 DEF Shaped

\* All ranges done: the .part file is whole when it is renamed.
LEMMA RenamedSound ==
  ASSUME Orderly, NEW d \in Downloads, remote[d] \in Remote, NEW s, Situation(s), Sound(d, s),
         s.r.state # "Completed", s.r.inode # None, AllDone(s.r.segs), s.path[Part(d)] # None
  PROVE  Sound(d, Renamed(d, s)) /\ Renamed(d, s).r.state = "Completed"
<1> DEFINE q == [s.r EXCEPT !.buffer = None, !.inode = None, !.state = "Completed",
                            !.segs = Aborted(s.r.segs)]
           n == [s.path EXCEPT ![Final(d)] = s.path[Part(d)], ![Part(d)] = None]
           w == Renamed(d, s)
<1>1. Part(d) \in Paths /\ Final(d) \in Paths /\ Part(d) # Final(d) /\ s.r \in Download
  BY PathsOf, PartAndFinal DEF Situation
<1>2. /\ Situation(w) /\ Kin(w.r, s.r)
      /\ w = [r |-> q, path |-> n, file |-> Poured(s), lost |-> s.lost]
  BY <1>1, RenamedIs
<1>3. q.segs = Aborted(s.r.segs) /\ q.state = "Completed" /\ q.inode = None /\ q.buffer = None
  BY <1>1 DEF Download
<1>4. n[Final(d)] = s.path[Part(d)] /\ n[Part(d)] = None
      /\ \A p \in Paths : p \notin {Part(d), Final(d)} => n[p] = s.path[p]
  BY <1>1 DEF Situation
<1> HIDE DEF q, n, w
<1>5. w.r = q /\ w.path = n /\ w.file = Poured(s) /\ w.lost = s.lost /\ q \in Download
  BY <1>2 DEF Situation
<1>6. Frame(d, w)
  <2>1. s.r.inode \notin Others(d)
    BY DEF Sound, Frame
  <2>2. \A i \in Inodes : i \in Others(d) => Poured(s)[i] = file[i]
    BY <2>1, PouredIs DEF Sound, Frame
  <2>3. n[Final(d)] \notin Others(d) \cup {n[Part(d)], q.inode}
    BY <1>3, <1>4 DEF Sound, Frame
  <2> QED BY <1>3, <1>4, <1>5, <2>2, <2>3 DEF Sound, Frame
<1>7. Counted(q, Poured(s), remote[d])
  <2>1. Ranged(q, remote[d])
    BY <1>1, <1>2, <1>5, RangedKin DEF Sound, Counted
  <2>2. Asking(q)
    BY <1>1, <1>3, AbortedAsks
  <2> QED BY <1>3, <2>1, <2>2 DEF Counted, Sized
<1>8. d \notin spoilt /\ ~s.lost => Honest(d, q, n, Poured(s), remote[d])
  <2> HAVE d \notin spoilt /\ ~s.lost
  <2>1. s.r.total > 0 /\ Sized(s.r, s.file) /\ Ranged(s.r, remote[d])
    BY DEF Sound, Counted, Sized
  <2>2. s.r.segs # <<>> /\ s.r.total = remote[d].size /\ s.r.total \in Nat
        /\ Tiles(s.r.segs, s.r.total)
    BY <2>1, KnownSize
  <2>3. s.path[Part(d)] = s.r.inode /\ Right(Held(s.r, s.path[Part(d)], s.file), s.r.segs)
    BY DEF Sound, Honest
  <2>4. Shaped(Poured(s)[s.r.inode], s.r.total) /\ Right(Poured(s)[s.r.inode], s.r.segs)
    BY <2>1, <2>3, PouredSized
  <2>5. Poured(s)[s.r.inode] = [p \in 0 .. (s.r.total - 1) |-> p]
    <3>1. s.r.segs \in Seq(Segment)
      BY <1>1 DEF Download
    <3> QED BY <2>2, <2>4, <3>1, DoneIsWhole
  <2> QED BY <1>3, <1>4, <2>2, <2>3, <2>5 DEF Honest
<1> QED BY <1>2, <1>3, <1>5, <1>6, <1>7, <1>8 DEF Sound, w

\* Whatever maybeComplete comes to, nothing false is called complete.
LEMMA CompletedSound ==
  ASSUME Orderly, NEW d \in Downloads, remote[d] \in Remote, NEW s, Situation(s), Sound(d, s),
         s.r.state # "Completed", s.r.inode # None, NEW inUse
  PROVE  /\ Sound(d, Completing(d, s, inUse, 0))
         /\ \/ Completing(d, s, inUse, 0) = s
            \/ Completing(d, s, inUse, 0).r.state \in {"Failed", "Completed"}
<1>1. Sound(d, Refused(s)) /\ Refused(s).r.state = "Failed"
  BY ClosedSound, FailedSound DEF Refused
<1>2. Sound(d, Gone(d, s)) /\ Gone(d, s).r.state = "Failed"
  BY GoneSound
<1>3. AllDone(s.r.segs) /\ s.path[Part(d)] # None =>
        Sound(d, Renamed(d, s)) /\ Renamed(d, s).r.state = "Completed"
  BY RenamedSound
<1> QED BY <1>1, <1>2, <1>3, CompletingIs

\* Also on a full disk, where it gives up the file with what it has not got
LEMMA CompletingSound ==
  ASSUME Orderly, NEW d \in Downloads, remote[d] \in Remote, NEW s, Situation(s), Sound(d, s),
         s.r.state # "Completed", s.r.inode # None, NEW inUse, NEW left \in Nat
  PROVE  /\ Sound(d, Completing(d, s, inUse, left))
         /\ \/ Completing(d, s, inUse, left) = s
            \/ Completing(d, s, inUse, left).r.state \in {"Failed", "Completed"}
<1> DEFINE t == Cut(s, left)
           e == Completing(d, t, inUse, 0)
<1>1. /\ Sound(d, t) /\ Situation(t) /\ t.r.state # "Completed" /\ t.r.inode # None
      /\ t.r.segs = s.r.segs
  BY CutSound
<1>2. CASE ~AllDone(s.r.segs)
  <2>1. Completing(d, s, inUse, left) = s
    BY <1>2 DEF Completing
  <2> QED BY <2>1
<1>3. CASE AllDone(s.r.segs)
  <2>1. Completing(d, s, inUse, left) \in {s, e}
    BY CompletingCut
  <2> HIDE DEF t
  <2>2. Sound(d, e)
    BY <1>1, CompletedSound
  <2>3. e.r.state \in {"Failed", "Completed"}
    <3>1. Failing(Closed(t, 0), 0).r.state = "Failed"
      BY <1>1, ClosedSound, FailedSound
    <3>2. Gone(d, t).r.state = "Failed"
      BY <1>1, GoneSound
    <3>3. t.path[Part(d)] # None => Renamed(d, t).r.state = "Completed"
      BY <1>1, <1>3, RenamedSound
    <3>4. Closed(t, 0).path = t.path
      BY <1>1, ClosedSound
    <3>5. \/ e = Failing(Closed(t, 0), 0)
          \/ e = Gone(d, t)
          \/ t.path[Part(d)] # None /\ e = Renamed(d, t)
      BY <1>1, <1>3, <3>4, Zenon DEF Completing, Gone, Renamed
    <3> QED BY <3>1, <3>2, <3>3, <3>5
  <2> QED BY <2>1, <2>2, <2>3
<1> QED BY <1>2, <1>3

\* Downloading goes on with the file that is open.
LEMMA RunningSound ==
  ASSUME NEW d \in Downloads, NEW s, Situation(s), Sound(d, s), s.r.state # "Completed",
         s.r.inode # None, NEW b \in BOOLEAN
  PROVE  /\ Sound(d, Running(s, b)) /\ Situation(Running(s, b))
         /\ Running(s, b).r.state = "Downloading" /\ Running(s, b).r.inode # None
<1> DEFINE u == [s.r EXCEPT !.state = "Downloading", !.kicked = b]
           t == Running(s, b)
<1>1. /\ t = [r |-> u, path |-> s.path, file |-> s.file, lost |-> s.lost]
      /\ Situation(t) /\ Kin(t.r, s.r) /\ t.r.state = "Downloading" /\ t.r.inode = s.r.inode
  BY RunningIs, Zenon
<1>2. u.segs = s.r.segs /\ u.buffer = s.r.buffer
  BY DEF Situation, Download
<1> HIDE DEF u, t
<1>3. t.r = u /\ t.path = s.path /\ t.file = s.file /\ t.lost = s.lost
  BY <1>1
<1>4. Asking(t.r)
  BY <1>2, <1>3 DEF Asking, Sound, Counted
<1> QED BY <1>1, <1>2, <1>3, <1>4, SameSound DEF t

\* beginSegments, for a download whose size is known
LEMMA BeginningSound ==
  ASSUME Faithful, Orderly, NEW d \in Listed, NEW s, Situation(s), Sound(d, s),
         s.path = path, s.r.inode = dl[d].inode, s.r.total > 0, s.r.state # "Completed",
         NEW opens, NEW inUse, NEW left \in Nat
  PROVE  /\ Sound(d, Beginning(d, s, opens, inUse, left))
         /\ Beginning(d, s, opens, inUse, left).r.state \in {"Downloading", "Failed", "Completed"}
<1>1. d \in Downloads /\ remote[d] \in Remote
  BY AtFine DEF Faithful
<1>2. CASE s.r.inode = None /\ ~opens
  BY <1>1, <1>2, FailingSound DEF Beginning
<1>3. CASE ~(s.r.inode = None /\ ~opens)
  <2> DEFINE w == Opened(d, s)
             o == Running(w, FALSE)
             q == Requested(d, o)
  <2>1. Sound(d, w) /\ Situation(w) /\ w.r.inode # None /\ w.r.state # "Completed"
    <3>1. CASE s.r.inode # None
      BY <3>1 DEF Opened
    <3>2. CASE s.r.inode = None
      BY <3>2, OpenedSound
    <3> QED BY <3>1, <3>2
  <2>2. Beginning(d, s, opens, inUse, left) = Completing(d, q, inUse, left)
    BY <1>3, Zenon DEF Beginning, Running, w, o, q
  <2> HIDE DEF w
  <2>3. Sound(d, o) /\ Situation(o) /\ o.r.state = "Downloading" /\ o.r.inode # None
    <3>1. \A b \in BOOLEAN :
            /\ Sound(d, Running(w, b)) /\ Situation(Running(w, b))
            /\ Running(w, b).r.state = "Downloading" /\ Running(w, b).r.inode # None
      BY <1>1, <2>1, RunningSound
    <3> QED BY <3>1, Zenon
  <2> HIDE DEF o
  <2>4. Sound(d, q) /\ Situation(q) /\ q.r.state = "Downloading" /\ q.r.inode # None
    BY <1>1, <2>3, RequestedSound
  <2> HIDE DEF q
  <2>5. /\ Sound(d, Completing(d, q, inUse, left))
        /\ \/ Completing(d, q, inUse, left) = q
           \/ Completing(d, q, inUse, left).r.state \in {"Failed", "Completed"}
    BY <1>1, <2>4, CompletingSound
  <2> QED BY <2>2, <2>4, <2>5
<1> QED BY <1>2, <1>3

\* resume() goes on from offsets that are in the file, or starts again.
LEMMA StartingSound ==
  ASSUME Faithful, Orderly, NEW d \in Listed, NEW opens, NEW inUse, NEW left \in Nat,
         dl[d].state \in {"Paused", "Failed"}
  PROVE  /\ Sound(d, Starting(d, At(d), opens, inUse, left))
         /\ Starting(d, At(d), opens, inUse, left).r.state
              \in {"Probing", "Downloading", "Failed", "Completed"}
<1> DEFINE s == At(d)
           t == Awake(s, FALSE)
<1>1. Situation(s) /\ s.r = dl[d] /\ s.path = path /\ dl[d] \in Download
      /\ d \in Downloads /\ Sound(d, s)
  BY AtFine, AtSound DEF Fine, Faithful
<1>2. Starting(d, s, opens, inUse, left) =
        IF s.r.total > 0 /\ s.r.segs # <<>> THEN Beginning(d, t, opens, inUse, left)
        ELSE [t EXCEPT !.r.state = "Probing"]
  BY Zenon DEF Starting, Awake
<1> HIDE DEF s
<1>3. /\ Situation(t) /\ t.r.segs = s.r.segs /\ t.r.state = s.r.state
      /\ t.r.inode = s.r.inode /\ t.path = s.path /\ t.r.total = s.r.total
      /\ Sound(d, t) /\ t.r.state # "Completed"
  <2>1. ASSUME NEW b \in BOOLEAN
        PROVE  LET v == Awake(s, b) IN
               /\ Situation(v) /\ v.r.segs = s.r.segs /\ v.r.state = s.r.state
               /\ v.r.inode = s.r.inode /\ v.path = s.path /\ v.r.total = s.r.total
               /\ Sound(d, v)
    <3> DEFINE u == [s.r EXCEPT !.quiet = b]
               v == Awake(s, b)
    <3>1. /\ v = [r |-> u, path |-> s.path, file |-> s.file, lost |-> s.lost]
          /\ Situation(v) /\ Kin(v.r, s.r)
          /\ v.r.segs = s.r.segs /\ v.r.state = s.r.state
          /\ v.r.inode = s.r.inode /\ v.path = s.path /\ v.r.total = s.r.total
      BY <1>1, AwakeIs, Zenon
    <3>2. u.buffer = s.r.buffer
      BY <1>1 DEF Download
    <3> HIDE DEF u, v
    <3>3. v.r = u /\ v.file = s.file /\ v.lost = s.lost
      BY <3>1
    <3>4. Asking(v.r)
      BY <1>1, <3>1 DEF Asking, Sound, Counted
    <3>5. Sound(d, v)
      BY <1>1, <3>1, <3>2, <3>3, <3>4, SameSound
    <3> QED BY <3>1, <3>5 DEF v
  <2>2. s.r.state # "Completed"
    BY <1>1
  <2> QED BY <2>1, <2>2, Zenon
<1> HIDE DEF t
<1>4. CASE s.r.total > 0 /\ s.r.segs # <<>>
  <2>1. /\ Sound(d, Beginning(d, t, opens, inUse, left))
        /\ Beginning(d, t, opens, inUse, left).r.state \in {"Downloading", "Failed", "Completed"}
    BY <1>1, <1>3, <1>4, BeginningSound
  <2> QED BY <1>2, <1>4, <2>1 DEF s
<1>5. CASE ~(s.r.total > 0 /\ s.r.segs # <<>>)
  <2> DEFINE u == [t.r EXCEPT !.state = "Probing"]
             p == [t EXCEPT !.r.state = "Probing"]
  <2>1. p = [r |-> u, path |-> t.path, file |-> t.file, lost |-> t.lost]
    BY <1>3 DEF Situation
  <2>2. u \in Download /\ u.segs = t.r.segs /\ u.total = t.r.total /\ u.ranges = t.r.ranges
        /\ u.inode = t.r.inode /\ u.buffer = t.r.buffer /\ u.state = "Probing" /\ t.r \in Download
    BY <1>3 DEF Download, Situation
  <2> HIDE DEF u, p
  <2>3. Situation([r |-> u, path |-> t.path, file |-> t.file, lost |-> t.lost])
    BY <1>3, <2>2, Made DEF Situation
  <2>4. p.r = u /\ p.path = t.path /\ p.file = t.file /\ p.lost = t.lost
    BY <2>1
  <2>5. Asking(u)
    BY <1>3, <2>2 DEF Asking, Sound, Counted
  <2>6. Kin(u, t.r)
    BY <2>2, KinItself
  <2>7. Sound(d, p)
    BY <1>1, <1>3, <2>1, <2>2, <2>3, <2>4, <2>5, <2>6, SameSound
  <2> QED BY <1>2, <1>5, <2>2, <2>4, <2>7 DEF s, p
<1> QED BY <1>4, <1>5

-----------------------------------------------------------------------------
(* A handler whose situation is sound keeps everything faithful. *)

\* While the state is the same, a handler takes no count back: the sidecar that
\* followed the download still does.
Steady(d, s) ==
  s.r.state = dl[d].state /\ s.r.state # "Failed" => Follows(dl[d], s.r)

\* One record follows another when it counts no more; that is transitive.
LEMMA FollowsFollows ==
  ASSUME NEW x, NEW y, NEW z, Follows(x, y), Follows(y, z),
         x.segs \in Seq(Segment), y.segs \in Seq(Segment), z.segs \in Seq(Segment)
  PROVE  Follows(x, z)
<1>1. DOMAIN x.segs = DOMAIN y.segs /\ DOMAIN y.segs = DOMAIN z.segs
  BY DEF Follows
<1>2. ASSUME NEW i \in DOMAIN z.segs
      PROVE  x.segs[i].start = z.segs[i].start /\ x.segs[i].received <= z.segs[i].received
  <2>1. x.segs[i] \in Segment /\ y.segs[i] \in Segment /\ z.segs[i] \in Segment
    <3>1. \A segs \in Seq(Segment) : DOMAIN segs = 1 .. Len(segs)
      OBVIOUS
    <3>2. \A segs \in Seq(Segment) : \A j \in DOMAIN segs : segs[j] \in Segment
      BY <3>1
    <3> QED BY <1>1, <1>2, <3>2
  <2>2. x.segs[i].received \in Nat /\ y.segs[i].received \in Nat /\ z.segs[i].received \in Nat
    BY <2>1 DEF Segment
  <2>3. /\ x.segs[i].start = y.segs[i].start /\ x.segs[i].received <= y.segs[i].received
        /\ y.segs[i].start = z.segs[i].start /\ y.segs[i].received <= z.segs[i].received
    BY <1>1, <1>2 DEF Follows
  <2> QED BY <2>2, <2>3
<1> QED BY <1>1, <1>2 DEF Follows

\* What counts no more is right where the other is.
LEMMA RightFollows ==
  ASSUME NEW c, NEW q, NEW r, Follows(q, r), Right(c, r.segs),
         q.segs \in Seq(Segment), r.segs \in Seq(Segment)
  PROVE  Right(c, q.segs)
<1>1. DOMAIN q.segs = DOMAIN r.segs
  BY DEF Follows
<1> SUFFICES ASSUME NEW i \in DOMAIN q.segs,
                    NEW p \in q.segs[i].start .. (q.segs[i].start + q.segs[i].received - 1)
             PROVE  p \in DOMAIN c /\ c[p] = p
  BY DEF Right
<1>2. q.segs[i] \in Segment /\ r.segs[i] \in Segment
  <2>1. \A segs \in Seq(Segment) : DOMAIN segs = 1 .. Len(segs)
    OBVIOUS
  <2>2. \A segs \in Seq(Segment) : \A j \in DOMAIN segs : segs[j] \in Segment
    BY <2>1
  <2> QED BY <1>1, <2>2
<1> DEFINE a == q.segs[i].start
           b == q.segs[i].received
           m == r.segs[i].received
<1>3. a \in Nat /\ b \in Nat /\ m \in Nat /\ b <= m /\ r.segs[i].start = a /\ p \in a .. (a + b - 1)
  BY <1>1, <1>2 DEF Segment, Follows
<1> HIDE DEF a, b
<1>4. p \in a .. (a + m - 1)
  <2> HIDE DEF m
  <2> QED BY <1>3
<1>5. p \in r.segs[i].start .. (r.segs[i].start + r.segs[i].received - 1)
  BY <1>3, <1>4
<1> QED BY <1>1, <1>5 DEF Right

\* What Honest and Sized say depends on a download's own names and files only.
LEMMA HonestSame ==
  ASSUME NEW d, NEW r, NEW names, NEW files, NEW server, NEW others, NEW after,
         Honest(d, r, names, files, server),
         others[Part(d)] = names[Part(d)], others[Final(d)] = names[Final(d)],
         names[Part(d)] # None => after[names[Part(d)]] = files[names[Part(d)]],
         names[Final(d)] # None => after[names[Final(d)]] = files[names[Final(d)]],
         r.inode # None => after[r.inode] = files[r.inode]
  PROVE  Honest(d, r, others, after, server)
<1>1. Held(r, others[Part(d)], after) = Held(r, names[Part(d)], files)
  BY DEF Held
<1> QED BY <1>1 DEF Honest

\* What is counted depends on the download's own file only.
LEMMA CountedSame ==
  ASSUME NEW r, NEW files, NEW server, NEW after, Counted(r, files, server),
         r.inode # None => after[r.inode] = files[r.inode]
  PROVE  Counted(r, after, server)
BY DEF Counted, Sized

\* The names and files of the others, after a handler of d or its removal
LEMMA OthersFaithful ==
  ASSUME Faithful, Orderly, NEW d \in Downloads, NEW s, Frame(d, s),
         path' = s.path, path' \in [Paths -> Inodes \cup {None}],
         file' = Kept(s.file, s.path, dl'),
         \A e \in Downloads : e # d => dl'[e] = dl[e],
         dl'[d] # None => dl'[d].inode = s.r.inode /\ s.r.inode \in Inodes \cup {None}
  PROVE  /\ Owned'
         /\ \A e \in Listed \ {d} : Counted(dl[e], file', remote[e])
         /\ \A e \in (Listed \ {d}) \ spoilt : Honest(e, dl[e], path', file', remote[e])
         /\ \A i \in Inodes : (\E p \in Paths : path'[p] = i) \/ (dl'[d] # None /\ dl'[d].inode = i)
              => file'[i] = s.file[i]
<1>1. Part(d) \in Paths /\ Final(d) \in Paths /\ Part(d) # Final(d)
  BY PathsOf, PartAndFinal
<1>2. \A p \in Paths \ {Part(d), Final(d)} : path'[p] = path[p] /\ path[p] \in Others(d)
  BY DEF Frame, Others
<1>3. \A e \in Listed' : e \in Downloads /\ (e # d => e \in Listed /\ dl'[e] = dl[e]
                                                /\ dl[e].inode \in Others(d))
  BY DEF Listed, Others
<1>4. /\ path'[Part(d)] # None => path'[Part(d)] \notin Others(d)
      /\ path'[Final(d)] # None => path'[Final(d)] \notin Others(d) \cup {path'[Part(d)], s.r.inode}
      /\ s.r.inode # None => s.r.inode \notin Others(d)
  BY DEF Frame
<1>5. \A p, q \in Paths : path'[p] # None /\ path'[p] = path'[q] => p = q
  <2> TAKE p, q \in Paths
  <2> HAVE path'[p] # None /\ path'[p] = path'[q]
  <2>1. CASE p \notin {Part(d), Final(d)} /\ q \notin {Part(d), Final(d)}
    BY <1>2, <2>1 DEF Faithful, Owned
  <2>2. CASE p \in {Part(d), Final(d)} /\ q \notin {Part(d), Final(d)}
    BY <1>2, <1>4, <2>2
  <2>3. CASE p \notin {Part(d), Final(d)} /\ q \in {Part(d), Final(d)}
    BY <1>2, <1>4, <2>3
  <2>4. CASE p \in {Part(d), Final(d)} /\ q \in {Part(d), Final(d)}
    BY <1>4, <2>4
  <2> QED BY <2>1, <2>2, <2>3, <2>4
<1>6. \A x \in Listed', y \in Listed' : dl'[x].inode # None /\ dl'[x].inode = dl'[y].inode => x = y
  <2> TAKE x \in Listed', y \in Listed'
  <2> HAVE dl'[x].inode # None /\ dl'[x].inode = dl'[y].inode
  <2>1. CASE x # d /\ y # d
    BY <1>3, <2>1 DEF Faithful, Owned
  <2>2. CASE x = d /\ y # d
    BY <1>3, <1>4, <2>2 DEF Listed
  <2>3. CASE x # d /\ y = d
    BY <1>3, <1>4, <2>3 DEF Listed
  <2> QED BY <2>1, <2>2, <2>3
<1>7. \A x \in Listed', p \in Paths : path'[p] # None /\ path'[p] = dl'[x].inode => p = Part(x)
  <2> TAKE x \in Listed', p \in Paths
  <2> HAVE path'[p] # None /\ path'[p] = dl'[x].inode
  <2>1. CASE x = d /\ p \notin {Part(d), Final(d)}
    BY <1>2, <1>3, <1>4, <2>1 DEF Listed
  <2>2. CASE x = d /\ p \in {Part(d), Final(d)}
    BY <1>3, <1>4, <2>2 DEF Listed
  <2>3. CASE x # d /\ p \notin {Part(d), Final(d)}
    BY <1>2, <1>3, <2>3 DEF Faithful, Owned
  <2>4. CASE x # d /\ p \in {Part(d), Final(d)}
    BY <1>3, <1>4, <2>4
  <2> QED BY <2>1, <2>2, <2>3, <2>4
<1>8. \A i \in Inodes : (\E p \in Paths : path'[p] = i) \/ (\E e \in Downloads : dl'[e] # None /\ dl'[e].inode = i)
        => file'[i] = s.file[i]
  BY DEF Kept, Range
<1>9. \A i \in Inodes : i \in Others(d) => s.file[i] = file[i]
  BY DEF Frame
<1>10. \A e \in Listed \ {d} :
         dl[e].inode # None => file'[dl[e].inode] = file[dl[e].inode]
  <2> TAKE e \in Listed \ {d}
  <2> HAVE dl[e].inode # None
  <2>1. e \in Downloads /\ dl'[e] = dl[e] /\ dl'[e] # None /\ dl[e].inode \in Others(d)
    BY DEF Listed, Others
  <2>2. dl[e].inode \in Inodes
    <3>1. dl[e] \in Download
      BY AtFine DEF Faithful
    <3> QED BY <3>1 DEF Download
  <2> QED BY <1>8, <1>9, <2>1, <2>2
<1>11. \A p \in Paths \ {Part(d), Final(d)} : path[p] # None => file'[path[p]] = file[path[p]]
  <2> TAKE p \in Paths \ {Part(d), Final(d)}
  <2> HAVE path[p] # None
  <2>1. path'[p] = path[p] /\ path[p] \in Others(d) /\ path[p] \in Inodes
    BY <1>2
  <2> QED BY <1>8, <1>9, <2>1
<1>12. ASSUME NEW e \in Listed \ {d} PROVE Counted(dl[e], file', remote[e])
  BY <1>10, CountedSame DEF Faithful
<1>13. ASSUME NEW e \in (Listed \ {d}) \ spoilt PROVE Honest(e, dl[e], path', file', remote[e])
  <2>1. e \in Downloads /\ Honest(e, dl[e], path, file, remote[e])
    BY DEF Listed, Faithful
  <2>2. Part(e) \in Paths \ {Part(d), Final(d)} /\ Final(e) \in Paths \ {Part(d), Final(d)}
    BY <2>1, PathsOf, PartAndFinal
  <2>3. path'[Part(e)] = path[Part(e)] /\ path'[Final(e)] = path[Final(e)]
    BY <1>2, <2>2
  <2>4. /\ path[Part(e)] # None => file'[path[Part(e)]] = file[path[Part(e)]]
        /\ path[Final(e)] # None => file'[path[Final(e)]] = file[path[Final(e)]]
    BY <1>11, <2>2
  <2> QED BY <1>10, <2>1, <2>3, <2>4, HonestSame
<1>14. Owned'
  BY <1>5, <1>6, <1>7 DEF Owned
<1> QED BY <1>8, <1>12, <1>13, <1>14

\* A handler of one download keeps the invariant if it leaves that one sound and
\* the sidecar's entry of it no further on.
LEMMA BecomesFaithful ==
  ASSUME Faithful, Orderly, NEW d \in Listed, NEW s, Sound(d, s), Steady(d, s), Becomes(d, s),
         Ranges'
  PROVE  Faithful'
<1>1. /\ d \in Downloads /\ up /\ s.r \in Download /\ s.r # None
      /\ s.path \in [Paths -> Inodes \cup {None}]
  BY AtFine, NoneAssumption DEF Faithful, Sound, Situation
<1>2. /\ dl' = [dl EXCEPT ![d] = s.r] /\ path' = s.path
      /\ file' = Kept(s.file, s.path, dl')
      /\ saveDue' = (saveDue \/ s.r.state # dl[d].state \/ s.r.state = "Failed")
      /\ up' = up /\ saved' = saved /\ remote' = remote
      /\ spoilt' = IF s.lost THEN spoilt \cup {d} ELSE spoilt
  BY DEF Becomes
<1>3. \A e \in Downloads : dl'[e] = IF e = d THEN s.r ELSE dl[e]
  BY <1>1, <1>2 DEF Faithful, Ranges, TypeOK
<1>4. Listed' = Listed /\ dl'[d] # None /\ dl'[d] = s.r
  BY <1>1, <1>3 DEF Listed
<1>5. s.r.inode \in Inodes \cup {None}
  BY <1>1 DEF Download
<1>6. /\ Owned'
      /\ \A e \in Listed \ {d} : Counted(dl[e], file', remote[e])
      /\ \A e \in (Listed \ {d}) \ spoilt : Honest(e, dl[e], path', file', remote[e])
      /\ \A i \in Inodes : (\E p \in Paths : path'[p] = i) \/ (dl'[d] # None /\ dl'[d].inode = i)
           => file'[i] = s.file[i]
  <2>1. \A e \in Downloads : e # d => dl'[e] = dl[e]
    BY <1>3
  <2> QED BY <1>1, <1>2, <1>4, <1>5, <2>1, OthersFaithful, ZenonT(60) DEF Sound
<1>7. s.r.inode # None => file'[s.r.inode] = s.file[s.r.inode]
  BY <1>4, <1>5, <1>6
<1>8. Counted(s.r, file', remote[d])
  BY <1>7, CountedSame DEF Sound
<1>9. d \notin spoilt /\ ~s.lost => Honest(d, s.r, path', file', remote[d])
  <2> HAVE d \notin spoilt /\ ~s.lost
  <2>1. Honest(d, s.r, s.path, s.file, remote[d])
    BY DEF Sound
  <2>2. Part(d) \in Paths /\ Final(d) \in Paths
    BY <1>1, PathsOf
  <2>3. /\ s.path[Part(d)] # None => file'[s.path[Part(d)]] = s.file[s.path[Part(d)]]
        /\ s.path[Final(d)] # None => file'[s.path[Final(d)]] = s.file[s.path[Final(d)]]
    BY <1>1, <1>2, <1>6, <2>2
  <2>4. path'[Part(d)] = s.path[Part(d)] /\ path'[Final(d)] = s.path[Final(d)]
    BY <1>2
  <2> QED BY <1>7, <2>1, <2>3, <2>4, HonestSame
<1>10. \A e \in Listed' : Counted(dl'[e], file', remote'[e])
  BY <1>2, <1>3, <1>4, <1>6, <1>8 DEF Listed
<1>11. \A e \in Listed' \ spoilt' : Honest(e, dl'[e], path', file', remote'[e])
  BY <1>2, <1>3, <1>4, <1>6, <1>9 DEF Listed
<1>12. ASSUME up', ~saveDue', NEW e \in Downloads
       PROVE  IF dl'[e] = None THEN saved'[e] = None
              ELSE saved'[e] # None /\ Follows(saved'[e], dl'[e])
  <2>1. ~saveDue /\ s.r.state = dl[d].state /\ s.r.state # "Failed"
    BY <1>2, <1>12
  <2>2. IF dl[e] = None THEN saved[e] = None ELSE saved[e] # None /\ Follows(saved[e], dl[e])
    BY <1>1, <2>1 DEF Faithful, InStep
  <2>3. CASE e # d
    BY <1>2, <1>3, <2>2, <2>3
  <2>4. CASE e = d
    <3>1. saved[d] # None /\ Follows(saved[d], dl[d]) /\ Follows(dl[d], s.r)
      BY <2>1, <2>2, <2>4 DEF Steady, Listed
    <3>2. saved[d].segs \in Seq(Segment)
      BY <1>1, <3>1 DEF Faithful, Ranges, TypeOK, Saved
    <3>3. dl[d].segs \in Seq(Segment) /\ s.r.segs \in Seq(Segment)
      BY <1>1, AtFine DEF Faithful, Download
    <3>4. Follows(saved[d], s.r)
      BY <3>1, <3>2, <3>3, FollowsFollows
    <3> QED BY <1>2, <1>4, <2>4, <3>1, <3>4
  <2> QED BY <2>3, <2>4
<1>13. InStep'
  BY <1>12 DEF InStep
<1>14. \A e \in Downloads : saved'[e] # None => Ranged(saved'[e], remote'[e])
  BY <1>2 DEF Faithful
<1>15. SavedIsThere'
  BY <1>1, <1>2 DEF SavedIsThere
<1> QED BY <1>6, <1>10, <1>11, <1>13, <1>14, <1>15 DEF Faithful

\* A failure asks nothing of the sidecar.
LEMMA FailingSteady ==
  ASSUME NEW d, NEW s, s.r.state = "Failed"
  PROVE  Steady(d, s)
BY DEF Steady

\* Kin records count the same.
LEMMA KinFollows ==
  ASSUME NEW q \in Download, NEW r \in Download, Kin(q, r), q.state = r.state
  PROVE  Follows(q, r) /\ Follows(r, q)
<1>1. \A segs \in Seq(Segment) : \A i \in DOMAIN segs : segs[i] \in Segment
  <2>1. \A segs \in Seq(Segment) : DOMAIN segs = 1 .. Len(segs)
    OBVIOUS
  <2> QED BY <2>1
<1>2. \A i \in DOMAIN r.segs : r.segs[i].received \in Nat /\ r.segs[i].received <= r.segs[i].received
  <2>1. r.segs \in Seq(Segment)
    BY DEF Download
  <2>2. \A i \in DOMAIN r.segs : r.segs[i].received \in Nat
    BY <1>1, <2>1 DEF Segment
  <2>3. \A n \in Nat : n <= n
    OBVIOUS
  <2> QED BY <2>2, <2>3
<1> QED BY <1>2 DEF Kin, Follows

\* A failure of a download that is not complete
LEMMA FailureFaithful ==
  ASSUME Faithful, Orderly, NEW d \in Listed, NEW left \in Nat, dl[d].state # "Completed", Ranges',
         Becomes(d, Failing(At(d), left))
  PROVE  Faithful'
<1>1. Sound(d, At(d)) /\ Situation(At(d)) /\ At(d).r.state # "Completed" /\ d \in Downloads
  BY AtSound, AtFine DEF Faithful, Fine
<1> QED BY <1>1, FailingSound, FailingSteady, BecomesFaithful

\* The handlers of one download, one lemma each (resume, retry, after a launch)
LEMMA ResumeFaithful ==
  ASSUME Faithful, Orderly, NEW d \in Downloads, NEW opens, NEW inUse, NEW left \in Nat,
         Resume(d, opens, inUse, left), Ranges'
  PROVE  Faithful'
<1> DEFINE s == Starting(d, At(d), opens, inUse, left)
<1>1. d \in Listed /\ dl[d].state \in {"Paused", "Failed"} /\ Becomes(d, s)
  BY DEF Resume, Listed
<1>2. Sound(d, s) /\ s.r.state \in {"Probing", "Downloading", "Failed", "Completed"}
  BY <1>1, StartingSound
<1> HIDE DEF s
<1>3. Steady(d, s)
  BY <1>1, <1>2 DEF Steady
<1> QED BY <1>1, <1>2, <1>3, BecomesFaithful

\* pause
LEMMA PauseFaithful ==
  ASSUME Faithful, Orderly, NEW d \in Downloads, NEW left \in Nat, Pause(d, left), Ranges'
  PROVE  Faithful'
<1> DEFINE a == At(d)
           f == Flushed(a, left)
           t == Pausing(f)
<1>1. d \in Listed /\ dl[d].state \in {"Downloading", "Probing"} /\ Becomes(d, t)
  BY Zenon DEF Pause, Pausing, Listed
<1>2. Fine(a) /\ a.r = dl[d] /\ Sound(d, a) /\ dl[d] \in Download
  BY <1>1, AtFine, AtSound DEF Faithful
<1> HIDE DEF a
<1>3. Sound(d, f) /\ Situation(f) /\ f.r.state = dl[d].state
  BY <1>1, <1>2, PartlySound DEF Sound
<1> HIDE DEF f
<1>4. Sound(d, t) /\ t.r.state = "Paused"
  <2> DEFINE u == [f.r EXCEPT !.segs = Aborted(f.r.segs), !.state = "Paused"]
  <2>1. /\ t = [r |-> u, path |-> f.path, file |-> f.file, lost |-> f.lost]
        /\ Situation(t) /\ Kin(t.r, f.r)
    BY <1>3, PausingIs
  <2>2. /\ u.segs = Aborted(f.r.segs) /\ u.state = "Paused" /\ u.inode = f.r.inode
        /\ u.buffer = f.r.buffer /\ f.r \in Download
    BY <1>3 DEF Situation, Download
  <2> HIDE DEF u, t
  <2>3. t.r = u /\ t.path = f.path /\ t.file = f.file /\ t.lost = f.lost
    BY <2>1
  <2>4. Asking(u)
    BY <2>2, AbortedAsks
  <2>5. f.r.state # "Completed" /\ Situation(f)
    BY <1>1, <1>3
  <2> QED BY <1>3, <2>1, <2>2, <2>3, <2>4, <2>5, SameSound
<1> HIDE DEF t
<1>5. Steady(d, t)
  BY <1>1, <1>4 DEF Steady
<1> QED BY <1>1, <1>4, <1>5, BecomesFaithful

\* onSampleTick, after 30 s without a byte
LEMMA StalledFaithful ==
  ASSUME Faithful, Orderly, NEW d \in Downloads, NEW left \in Nat, Stalled(d, left), Ranges'
  PROVE  Faithful'
<1> DEFINE s == At(d)
           q == Requested(d, s)
           k == Kicked(q, TRUE, FALSE)
<1>1. d \in Listed /\ dl[d].state = "Downloading"
  BY DEF Stalled, Listed
<1>2. Becomes(d, IF dl[d].kicked THEN Failing(s, left) ELSE k)
  BY Zenon DEF Stalled, Kicked
<1>3. Sound(d, s) /\ Situation(s) /\ s.r = dl[d] /\ remote[d] \in Remote
  BY <1>1, AtFine, AtSound DEF Fine, Faithful
<1>4. CASE dl[d].kicked
  BY <1>1, <1>2, <1>4, FailureFaithful
<1>5. CASE ~dl[d].kicked
  <2> HIDE DEF s
  <2>1. Sound(d, q) /\ Situation(q) /\ q.r.state = "Downloading" /\ Kin(q.r, s.r)
    BY <1>1, <1>3, RequestedSound
  <2> HIDE DEF q
  <2>2. /\ Situation(k) /\ Kin(k.r, q.r) /\ k.r.inode = q.r.inode /\ k.r.segs = q.r.segs
        /\ k.r.state = q.r.state /\ k.r.buffer = q.r.buffer
        /\ k.path = q.path /\ k.file = q.file /\ k.lost = q.lost
    <3>1. ASSUME NEW b \in BOOLEAN, NEW c \in BOOLEAN
          PROVE  LET v == Kicked(q, b, c) IN
                 /\ Situation(v) /\ Kin(v.r, q.r) /\ v.r.inode = q.r.inode /\ v.r.segs = q.r.segs
                 /\ v.r.state = q.r.state /\ v.r.buffer = q.r.buffer
                 /\ v.path = q.path /\ v.file = q.file /\ v.lost = q.lost
      <4> DEFINE v == Kicked(q, b, c)
                 u == [q.r EXCEPT !.kicked = b, !.quiet = c]
      <4>1. /\ v = [r |-> u, path |-> q.path, file |-> q.file, lost |-> q.lost]
            /\ Situation(v) /\ Kin(v.r, q.r) /\ v.r.inode = q.r.inode /\ v.r.segs = q.r.segs
            /\ v.r.state = q.r.state
        BY <2>1, KickedIs, Zenon
      <4>2. u.buffer = q.r.buffer
        BY <2>1 DEF Situation, Download
      <4> HIDE DEF u, v
      <4>3. v.r = u /\ v.path = q.path /\ v.file = q.file /\ v.lost = q.lost
        BY <4>1
      <4> QED BY <4>1, <4>2, <4>3 DEF v
    <3> QED BY <3>1, Zenon
  <2> HIDE DEF k
  <2>3. Asking(k.r)
    BY <2>1, <2>2 DEF Asking, Sound, Counted
  <2>4. Sound(d, k)
    BY <1>1, <2>1, <2>2, <2>3, SameSound
  <2>5. Steady(d, k)
    <3>1. k.r \in Download /\ q.r \in Download /\ s.r \in Download
      BY <1>3, <2>1, <2>2 DEF Situation
    <3>2. Kin(k.r, s.r)
      BY <2>1, <2>2, KinKin
    <3> QED BY <1>1, <1>3, <2>1, <2>2, <3>1, <3>2, KinFollows DEF Steady
  <2> QED BY <1>1, <1>2, <1>5, <2>4, <2>5, BecomesFaithful
<1> QED BY <1>4, <1>5

\* A server has a file of some size.
LEMMA RemoteIs ==
  ASSUME NEW server \in Remote
  PROVE  /\ server.size \in Nat /\ server.size > 0 /\ ~(server.size <= 0)
         /\ server.kind \in Servers
<1>1. server.size \in Sizes /\ server.kind \in Servers
  BY DEF Remote
<1>2. server.size \in Nat /\ server.size # 0
  BY <1>1, BoundAssumption
<1> QED BY <1>1, <1>2

\* What the probe plans, where the server honours ranges
LEMMA PlannedSound ==
  ASSUME Faithful, Orderly, NEW d \in Listed, dl[d].state = "Probing",
         NEW segs \in Seq(Segment), segs # <<>>, Tiles(segs, remote[d].size),
         \A i \in DOMAIN segs : segs[i].reply = None /\ segs[i].received = 0,
         NEW p, Situation(p), p.path = path, p.file = file, p.r.buffer = dl[d].buffer,
         p.r.total = remote[d].size, p.r.segs = segs, p.r.ranges = TRUE,
         p.r.inode = dl[d].inode, p.r.state = "Probing"
  PROVE  Sound(d, p)
<1>1. Sound(d, At(d)) /\ At(d).r = dl[d] /\ At(d).path = path /\ At(d).file = file
      /\ Situation(At(d)) /\ remote[d] \in Remote /\ d \in Downloads /\ ~At(d).lost
  BY AtFine, AtSound DEF Faithful, Fine, At
<1>2. Frame(d, p)
  BY <1>1, FrameKept DEF Sound
<1>3. \A i \in DOMAIN segs : segs[i] \in Segment
  <2>1. DOMAIN segs = 1 .. Len(segs)
    OBVIOUS
  <2> QED BY <2>1
<1>4. Ranged(p.r, remote[d])
  <2>1. \A i \in DOMAIN segs : 0 <= segs[i].end + 1 - segs[i].start
    <3> TAKE i \in DOMAIN segs
    <3>1. segs[i].start <= segs[i].end /\ segs[i].start \in Int /\ segs[i].end \in Int
      BY <1>3 DEF Tiles, Segment
    <3> QED BY <3>1
  <2> QED BY <2>1 DEF Ranged
<1>5. Asking(p.r)
  BY DEF Asking
<1>6. dl[d].total > 0 => dl[d].total = remote[d].size
  BY <1>1, KnownSize DEF Sound, Counted
<1>7. Sized(p.r, p.file)
  <2>1. Sized(dl[d], file) /\ (dl[d].buffer # None => dl[d].inode # None)
    BY <1>1 DEF Sound, Counted, Situation
  <2>2. dl[d].inode # None => dl[d].total = remote[d].size /\ remote[d].size > 0
    BY <1>6, <2>1 DEF Sized
  <2> QED BY <2>1, <2>2 DEF Sized
<1>8. d \notin spoilt => Honest(d, p.r, p.path, p.file, remote[d])
  <2> HAVE d \notin spoilt
  <2>1. dl[d].inode # None => path[Part(d)] = dl[d].inode
    BY <1>1 DEF Sound, Honest
  <2>2. \A c : Right(c, segs)
    <3>1. \A i \in DOMAIN segs : segs[i].start .. (segs[i].start + segs[i].received - 1) = {}
      <4> TAKE i \in DOMAIN segs
      <4>1. segs[i].start \in Int /\ segs[i].received = 0
        BY <1>3 DEF Segment
      <4> QED BY <4>1
    <3> QED BY <3>1 DEF Right
  <2> QED BY <2>1, <2>2 DEF Honest
<1> QED BY <1>2, <1>4, <1>5, <1>7, <1>8 DEF Sound, Counted

\* onProbeFinished: the plan begins with nothing received.
LEMMA ProbeFinishedFaithful ==
  ASSUME Faithful, Orderly, NEW d \in Downloads, NEW opens, NEW inUse, NEW left \in Nat,
         ProbeFinished(d, opens, inUse, left), Ranges'
  PROVE  Faithful'
<1> DEFINE total == IF remote[d].kind = "unsized" THEN -1 ELSE remote[d].size
           plan == IF remote[d].kind = "ranges" THEN planSegments(total, Conns)
                   ELSE <<[start |-> 0, end |-> IF total > 0 THEN total - 1 ELSE -1]>>
           segs == [i \in DOMAIN plan |-> [start |-> plan[i].start, end |-> plan[i].end,
                                          received |-> 0, reply |-> None]]
           ranged == remote[d].kind = "ranges"
           s == At(d)
           p == Planned(s, total, segs, ranged)
<1>1. d \in Listed /\ dl[d].state = "Probing"
  BY DEF ProbeFinished, Listed
<1>2. /\ total \in {-1} \cup Nat /\ segs \in Seq(Segment)
      /\ \A i \in DOMAIN segs : segs[i].reply = None /\ segs[i].received = 0
      /\ IF total > 0 THEN segs # <<>> /\ Tiles(segs, total)
         ELSE Len(segs) = 1 /\ segs[1].start = 0
  BY <1>1, FreshPlan, Zenon DEF Faithful
<1>3. Becomes(d, Beginning(d, p, opens, inUse, left))
  BY Zenon DEF ProbeFinished, Planned
<1>4. Situation(s) /\ s.path = path /\ s.r = dl[d] /\ s.file = file /\ remote[d] \in Remote
  BY <1>1, AtFine DEF Fine, Faithful
<1>5. remote[d].kind = "ranges" /\ remote[d].size \in Nat /\ remote[d].size > 0
  BY <1>4, RemoteIs DEF Orderly
<1>6. ranged = TRUE /\ total = remote[d].size
  BY <1>5
<1>7. Becomes(d, Beginning(d, Planned(s, total, segs, TRUE), opens, inUse, left))
  BY <1>3, <1>6
<1> HIDE DEF total, segs, ranged, s, p
<1>8. ASSUME NEW b \in BOOLEAN, b = TRUE
      PROVE  LET v == Planned(s, total, segs, b) IN
             /\ Sound(d, v) /\ Situation(v) /\ v.path = path
             /\ v.r.total > 0 /\ v.r.inode = dl[d].inode /\ v.r.state # "Completed"
  <2> DEFINE v == Planned(s, total, segs, b)
  <2>1. /\ Situation(v) /\ v.r.buffer = s.r.buffer /\ v.file = s.file /\ v.r.total = total
        /\ v.r.segs = segs /\ v.r.ranges = b /\ v.r.inode = s.r.inode /\ v.r.state = s.r.state
        /\ v.path = s.path
    BY <1>2, <1>4, PlannedIs, Z3
  <2> HIDE DEF v
  <2>2. v.r.ranges = TRUE
    BY <1>8, <2>1, Zenon
  <2>3. Sound(d, v)
    BY <1>1, <1>2, <1>4, <1>5, <1>6, <2>1, <2>2, PlannedSound
  <2> QED BY <1>1, <1>4, <1>5, <1>6, <2>1, <2>3 DEF v
<1> DEFINE v == Planned(s, total, segs, TRUE)
<1>9. /\ Sound(d, v) /\ Situation(v) /\ v.path = path
      /\ v.r.total > 0 /\ v.r.inode = dl[d].inode /\ v.r.state # "Completed"
  BY <1>8, Zenon
<1> HIDE DEF v
<1> DEFINE e == Beginning(d, v, opens, inUse, left)
<1>10. Sound(d, e) /\ e.r.state \in {"Downloading", "Failed", "Completed"}
  BY <1>1, <1>9, BeginningSound
<1>11. Becomes(d, e)
  BY <1>7 DEF v
<1> HIDE DEF e
<1>12. Steady(d, e)
  BY <1>1, <1>10 DEF Steady
<1> QED BY <1>1, <1>10, <1>11, <1>12, BecomesFaithful

\* onSegmentFinished: the last range done leads to maybeComplete.
LEMMA SegmentFinishedFaithful ==
  ASSUME Faithful, Orderly, NEW d \in Downloads, NEW i, NEW inUse, NEW left \in Nat,
         SegmentFinished(d, i, inUse, left), Ranges'
  PROVE  Faithful'
<1> DEFINE seg == dl[d].segs[i]
           s == Rested(At(d), i)
           m == Measured(s, i, seg.received)
           e == Completing(d, s, inUse, left)
<1>1. d \in Listed /\ i \in DOMAIN dl[d].segs /\ dl[d].state = "Downloading"
  BY FetchingIs DEF SegmentFinished, Faithful
<1>2. Becomes(d, Completing(d, IF dl[d].total <= 0 /\ seg.end < 0 THEN m ELSE s, inUse, left))
  BY Zenon DEF SegmentFinished, Rested, Measured
<1>3. /\ Situation(At(d)) /\ Sound(d, At(d)) /\ At(d).r = dl[d] /\ dl[d] \in Download
      /\ remote[d] \in Remote /\ dl[d].inode # None
  BY <1>1, AtFine, AtSound DEF Faithful, Fine, Calm
<1>4. ~(dl[d].total <= 0)
  <2>1. Ranged(dl[d], remote[d]) /\ dl[d].segs # <<>>
    BY <1>1, <1>3 DEF Sound, Counted
  <2>2. dl[d].total = remote[d].size
    BY <2>1 DEF Ranged
  <2> QED BY <1>3, <2>2, RemoteIs
<1>5. Becomes(d, e)
  BY <1>2, <1>4, Zenon
<1>6. /\ Situation(s) /\ Kin(s.r, dl[d]) /\ s.r.state = "Downloading"
      /\ s.r.inode = dl[d].inode /\ s.r.buffer = At(d).r.buffer
      /\ s.r.segs = [dl[d].segs EXCEPT ![i] = [dl[d].segs[i] EXCEPT !.reply = None]]
      /\ s.path = At(d).path /\ s.file = At(d).file /\ s.lost = At(d).lost
  BY <1>1, <1>3, RestedIs
<1> HIDE DEF s, m
<1>7. Asking(s.r)
  <2>1. dl[d].segs \in Seq(Segment)
    BY <1>3 DEF Download
  <2>2. DOMAIN s.r.segs = DOMAIN dl[d].segs
    BY <1>6
  <2>3. \A j \in DOMAIN dl[d].segs : j # i => s.r.segs[j] = dl[d].segs[j]
    BY <1>6
  <2>4. s.r.segs[i].reply = None
    <3>1. dl[d].segs[i] \in Segment
      <4>1. DOMAIN dl[d].segs = 1 .. Len(dl[d].segs)
        BY <2>1
      <4> QED BY <1>1, <2>1, <4>1
    <3>2. [dl[d].segs[i] EXCEPT !.reply = None].reply = None
      BY <3>1 DEF Segment
    <3>3. s.r.segs[i] = [dl[d].segs[i] EXCEPT !.reply = None]
      BY <1>1, <1>6
    <3> QED BY <3>2, <3>3
  <2>5. Asking(dl[d])
    BY <1>3 DEF Sound, Counted
  <2> QED BY <2>2, <2>3, <2>4, <2>5 DEF Asking
<1>8. Sound(d, s)
  BY <1>1, <1>3, <1>6, <1>7, SameSound
<1>9. Sound(d, e) /\ (e = s \/ e.r.state \in {"Failed", "Completed"})
  BY <1>3, <1>6, <1>8, CompletingSound
<1>10. s.r \in Download /\ Follows(dl[d], s.r)
  BY <1>1, <1>3, <1>6, KinFollows DEF Situation
<1> HIDE DEF e
<1>11. Steady(d, e)
  BY <1>1, <1>9, <1>10 DEF Steady
<1> QED BY <1>1, <1>5, <1>9, <1>11, BecomesFaithful

\* The bytes that came, for their places, in the open file's buffer
LEMMA BroughtSound ==
  ASSUME NEW d \in Downloads, remote[d] \in Remote, NEW f, Situation(f), Sound(d, f),
         f.r.state = "Downloading", f.r.inode # None, f.r.buffer = None,
         NEW i \in DOMAIN f.r.segs, f.r.segs[i].reply \in Reply,
         NEW n \in Nat \ {0}, f.r.segs[i].reply.at + n <= f.r.segs[i].reply.upto,
         NEW buffer \in Buffer,
         buffer.at = f.r.segs[i].start + f.r.segs[i].received,
         buffer.bytes = [k \in 1 .. n |-> f.r.segs[i].reply.at + k - 1],
         NEW b \in BOOLEAN
  PROVE  LET s == Brought(f, i, buffer, Moved(f.r.segs[i], n, "data"), b) IN
         /\ Sound(d, s) /\ s.r.state = "Downloading" /\ Follows(f.r, s.r)
<1> DEFINE seg == f.r.segs[i]
           g == Moved(seg, n, "data")
           s == Brought(f, i, buffer, g, b)
<1>1. f.r \in Download /\ f.r.segs \in Seq(Segment)
  BY DEF Situation, Download
<1>2. seg \in Segment
  <2>1. DOMAIN f.r.segs = 1 .. Len(f.r.segs)
    BY <1>1
  <2> QED BY <1>1, <2>1
<1>3. /\ g \in Segment /\ g.start = seg.start /\ g.end = seg.end
      /\ g.received = seg.received + n /\ g.reply # None
      /\ g.reply.at = seg.reply.at + n /\ g.reply.upto = seg.reply.upto
      /\ g.reply.body = "data"
  BY <1>2, MovedIs
<1> HIDE DEF g
<1>4. /\ Situation(s) /\ s.path = f.path /\ s.file = f.file /\ s.lost = f.lost /\ s.r.total = f.r.total
      /\ s.r.ranges = f.r.ranges /\ s.r.state = f.r.state /\ s.r.inode = f.r.inode
      /\ s.r.buffer = buffer /\ s.r.segs = [f.r.segs EXCEPT ![i] = g]
  BY <1>3, BroughtIs
<1> HIDE DEF s
<1>5. /\ s.r.segs \in Seq(Segment) /\ Len(s.r.segs) = Len(f.r.segs)
      /\ DOMAIN s.r.segs = DOMAIN f.r.segs
      /\ \A j \in DOMAIN f.r.segs : /\ s.r.segs[j].start = f.r.segs[j].start
                                    /\ s.r.segs[j].end = f.r.segs[j].end
      /\ \A j \in DOMAIN f.r.segs : j # i => s.r.segs[j] = f.r.segs[j]
      /\ s.r.segs[i] = g /\ f.r.segs # <<>>
  BY <1>1, <1>3, <1>4, SegPut, SegKin, SMTT(40)
<1>6. /\ Ranged(f.r, remote[d]) /\ Asking(f.r) /\ Sized(f.r, f.file)
  BY DEF Sound, Counted
<1>7. /\ f.r.total > 0 /\ f.r.total = remote[d].size /\ f.r.total \in Nat
      /\ Tiles(f.r.segs, f.r.total) /\ f.r.ranges
  BY <1>6, KnownSize DEF Sized
<1>8. seg.reply.at = seg.start + seg.received /\ seg.reply.upto = seg.end + 1
  <2>1. seg.reply # None
    BY NoneAssumption
  <2> QED BY <1>6, <2>1 DEF Asking
<1>9. /\ seg.start \in Nat /\ seg.received \in Nat /\ seg.end \in Int /\ n \in Nat
      /\ seg.start + seg.received + n <= seg.end + 1 /\ seg.end <= f.r.total - 1
  <2>1. seg.end <= f.r.total - 1
    BY <1>1, <1>5, <1>7, TilesBound
  <2> QED BY <1>2, <1>8, <2>1 DEF Segment
<1> DEFINE at == seg.start + seg.received
<1>10. at \in Nat /\ at + n <= f.r.total
  <2> DEFINE a == seg.start
             c == seg.received
             e == seg.end
             t == f.r.total
  <2>1. /\ a \in Nat /\ c \in Nat /\ e \in Int /\ n \in Nat /\ t \in Nat
        /\ a + c + n <= e + 1 /\ e <= t - 1
    BY <1>7, <1>9
  <2> HIDE DEF a, c, e, t
  <2>2. a + c \in Nat /\ a + c + n <= t
    BY <2>1
  <2> QED BY <2>2 DEF a, c, t
<1>11. Filled(buffer, f.r.total) /\ Len(buffer.bytes) = n /\ buffer.at = at
  <2>1. Len(buffer.bytes) = n
    BY <1>9
  <2>2. \A k \in 1 .. n : buffer.bytes[k] = at + k - 1
    BY <1>8, <1>9
  <2> HIDE DEF at
  <2> QED BY <1>10, <2>1, <2>2 DEF Filled, at
<1>12. Frame(d, s)
  BY <1>4, FrameKept DEF Sound
<1>13. Counted(s.r, s.file, remote[d])
  <2>1. Tiles(s.r.segs, s.r.total)
    <3>1. \A j \in DOMAIN f.r.segs :
            s.r.segs[j].start = f.r.segs[j].start /\ s.r.segs[j].end = f.r.segs[j].end
      BY <1>5
    <3>2. Tiles(s.r.segs, f.r.total)
      <4> DEFINE x == s.r.segs
                 y == f.r.segs
                 t == f.r.total
      <4>1. /\ x \in Seq(Segment) /\ y \in Seq(Segment) /\ Len(x) = Len(y) /\ y # <<>>
            /\ Tiles(y, t)
            /\ \A j \in DOMAIN y : x[j].start = y[j].start /\ x[j].end = y[j].end
        BY <1>1, <1>5, <1>7, <3>1
      <4> HIDE DEF x, y, t
      <4>2. Tiles(x, t)
        BY <4>1, TilesSame
      <4> QED BY <4>2 DEF x, t
    <3> QED BY <1>4, <3>2
  <2>2. \A j \in DOMAIN s.r.segs : s.r.segs[j].received <= s.r.segs[j].end + 1 - s.r.segs[j].start
    <3> TAKE j \in DOMAIN s.r.segs
    <3>1. CASE j = i
      <4> DEFINE a == seg.start
                 c == seg.received
                 e == seg.end
      <4>1. /\ a \in Nat /\ c \in Nat /\ e \in Int /\ n \in Nat /\ a + c + n <= e + 1
            /\ s.r.segs[j] = g /\ g.start = a /\ g.end = e /\ g.received = c + n
        BY <1>3, <1>5, <1>9, <3>1
      <4> HIDE DEF a, c, e
      <4>2. c + n <= e + 1 - a
        BY <4>1
      <4> QED BY <4>1, <4>2
    <3>2. CASE j # i
      <4>1. f.r.segs[j].received <= f.r.segs[j].end + 1 - f.r.segs[j].start
        BY <1>5, <1>6 DEF Ranged
      <4> QED BY <1>5, <3>2, <4>1
    <3> QED BY <3>1, <3>2
  <2>3. s.r.segs # <<>>
    BY <1>1, <1>5
  <2>4. Ranged(s.r, remote[d])
    BY <1>4, <1>7, <2>1, <2>2, <2>3 DEF Ranged
  <2>5. Asking(s.r)
    <3> DEFINE a == seg.start
               c == seg.received
    <3>2. /\ a \in Nat /\ c \in Nat /\ n \in Nat /\ seg.reply.at = a + c
          /\ g.start = a /\ g.received = c + n /\ g.reply.at = seg.reply.at + n
      BY <1>3, <1>8, <1>9
    <3>3. g.reply.at = g.start + g.received
      <4> HIDE DEF a, c
      <4>1. (a + c) + n = a + (c + n)
        BY <3>2
      <4> QED BY <3>2, <4>1
    <3>1. g.reply.at = g.start + g.received /\ g.reply.upto = g.end + 1 /\ g.reply.body # "error"
      BY <1>3, <1>8, <3>3
    <3>4. \A j \in DOMAIN f.r.segs : j # i => LET k == s.r.segs[j] IN
            k.reply # None => /\ k.reply.body # "error"
                              /\ k.reply.at = k.start + k.received /\ k.reply.upto = k.end + 1
      BY <1>5, <1>6 DEF Asking
    <3>5. LET k == s.r.segs[i] IN
            /\ k.reply.body # "error"
            /\ k.reply.at = k.start + k.received /\ k.reply.upto = k.end + 1
      BY <1>5, <3>1
    <3> QED BY <1>5, <3>4, <3>5, Zenon DEF Asking
  <2>6. Sized(s.r, s.file)
    BY <1>4, <1>6, <1>11 DEF Sized
  <2> QED BY <2>4, <2>5, <2>6 DEF Counted
<1>14. d \notin spoilt /\ ~s.lost => Honest(d, s.r, s.path, s.file, remote[d])
  <2> HAVE d \notin spoilt /\ ~s.lost
  <2> DEFINE c == f.file[f.r.inode]
             w == Written(c, buffer.at, buffer.bytes)
  <2>1. f.path[Part(d)] = f.r.inode /\ Right(c, f.r.segs)
    BY <1>4 DEF Sound, Honest, Held
  <2>2. Held(s.r, s.path[Part(d)], s.file) = w
    <3>1. buffer # None
      BY NoneAssumption
    <3> QED BY <1>4, <3>1 DEF Held
  <2>3. /\ \A p \in Int : Good(c, p) => Good(w, p)
        /\ \A p \in at .. (at + n - 1) : Good(w, p)
    <3> HIDE DEF c
    <3>1. /\ \A p \in Int : Good(c, p) => Good(w, p)
          /\ \A p \in buffer.at .. (buffer.at + Len(buffer.bytes) - 1) : Good(w, p)
      BY <1>7, <1>11, WrittenIs, Zenon
    <3> HIDE DEF w, at
    <3> QED BY <1>11, <3>1
  <2> HIDE DEF c, w
  <2>4. Right(w, s.r.segs)
    <3> SUFFICES ASSUME NEW j \in DOMAIN s.r.segs,
                        NEW p \in s.r.segs[j].start .. (s.r.segs[j].start + s.r.segs[j].received - 1)
                 PROVE  Good(w, p)
      BY DEF Right, Good
    <3>1. CASE j # i
      <4>1. p \in f.r.segs[j].start .. (f.r.segs[j].start + f.r.segs[j].received - 1)
            /\ j \in DOMAIN f.r.segs
        BY <1>5, <3>1
      <4>2. Good(c, p)
        BY <2>1, <4>1 DEF Right, Good
      <4> QED BY <2>3, <4>2
    <3>2. CASE j = i
      <4>1. p \in seg.start .. (seg.start + (seg.received + n) - 1)
        BY <1>3, <1>5, <3>2
      <4>2. p \in seg.start .. (seg.start + seg.received - 1) \/ p \in at .. (at + n - 1)
        <5> HIDE DEF seg
        <5> QED BY <1>9, <4>1
      <4>3. p \in seg.start .. (seg.start + seg.received - 1) => Good(c, p)
        BY <2>1 DEF Right, Good
      <4> QED BY <2>3, <4>2, <4>3
    <3> QED BY <3>1, <3>2
  <2> QED BY <1>4, <2>1, <2>2, <2>4 DEF Honest
<1>15. Follows(f.r, s.r)
  <2>1. \A j \in DOMAIN f.r.segs : f.r.segs[j] \in Segment
    <3>1. DOMAIN f.r.segs = 1 .. Len(f.r.segs)
      BY <1>1
    <3> QED BY <1>1, <3>1
  <2>2. ASSUME NEW j \in DOMAIN s.r.segs
        PROVE  f.r.segs[j].start = s.r.segs[j].start
               /\ f.r.segs[j].received <= s.r.segs[j].received
    <3>1. CASE j = i
      <4>1. seg.received <= seg.received + n
        BY <1>9
      <4> QED BY <1>3, <1>5, <3>1, <4>1
    <3>2. CASE j # i
      <4>1. f.r.segs[j].received \in Nat
        BY <1>5, <2>1, <2>2 DEF Segment
      <4> QED BY <1>5, <3>2, <4>1
    <3> QED BY <3>1, <3>2
  <2> QED BY <1>4, <1>5, <2>2 DEF Follows
<1> QED BY <1>4, <1>12, <1>13, <1>14, <1>15 DEF Sound, s, g

\* onSegmentReadyRead: what is counted is in the buffer or in the file.
LEMMA ReadyReadFaithful ==
  ASSUME Faithful, Orderly, NEW d \in Downloads, NEW i, NEW n \in 1 .. MaxChunk,
         NEW body \in {"data", "error"}, NEW left \in Nat, ReadyRead(d, i, n, body, left), Ranges'
  PROVE  Faithful'
<1> DEFINE seg == dl[d].segs[i]
           q == seg.reply
           bytes == [k \in 1..n |-> q.at + k - 1]
           buffer == [at |-> seg.start + seg.received, bytes |-> bytes]
           f == Flushed(At(d), 0)
           s == Brought(f, i, buffer, Moved(seg, n, "data"), FALSE)
<1>1. d \in Listed /\ i \in DOMAIN dl[d].segs /\ dl[d].state = "Downloading"
      /\ seg \in Segment /\ q \in Reply
  <2>1. Fetching(d, i)
    BY Zenon DEF ReadyRead
  <2> QED BY <2>1, FetchingIs DEF Faithful
<1>2. body = "data"
  <2>1. body = "error" => "errorpage" \in Ops
    BY Zenon DEF ReadyRead
  <2> QED BY <2>1 DEF Orderly
<1>3. /\ Becomes(d, IF seg.end >= 0 /\ seg.start + seg.received + n > seg.end + 1
                    THEN Failing(s, left) ELSE s)
      /\ q.at + n <= q.upto
  <2> DEFINE bs == [k \in 1..n |-> IF body = "data" THEN q.at + k - 1 ELSE Junk]
  <2>1. bs = bytes
    BY <1>2
  <2>2. /\ Becomes(d, IF seg.end >= 0 /\ seg.start + seg.received + n > seg.end + 1
                      THEN Failing(Brought(f, i, [at |-> seg.start + seg.received, bytes |-> bs],
                                           Moved(seg, n, body), FALSE), left)
                      ELSE Brought(f, i, [at |-> seg.start + seg.received, bytes |-> bs],
                                   Moved(seg, n, body), FALSE))
        /\ body = "data" => q.at + n <= q.upto
    BY Zenon DEF ReadyRead, Brought, Moved
  <2> HIDE DEF bs, bytes
  <2> QED BY <1>2, <2>1, <2>2, Zenon
<1>4. n \in Nat \ {0}
  BY BoundAssumption
<1>5. q.at = seg.start + seg.received /\ q.upto = seg.end + 1
  <2>1. q # None /\ Asking(dl[d])
    BY <1>1, NoneAssumption DEF Faithful, Counted
  <2> QED BY <1>1, <2>1 DEF Asking
<1>6. Becomes(d, s)
  <2>1. ~(seg.start + seg.received + n > seg.end + 1)
    <3> DEFINE a == seg.start
               c == seg.received
               e == seg.end
               x == q.at
    <3>1. /\ a \in Nat /\ c \in Nat /\ e \in Int /\ n \in Nat
          /\ x + n <= e + 1 /\ x = a + c
      BY <1>1, <1>3, <1>4, <1>5, SMTT(40) DEF Segment
    <3> HIDE DEF a, c, e, x
    <3>2. ~(a + c + n > e + 1)
      BY <3>1
    <3> QED BY <3>2 DEF a, c, e
  <2> QED BY <1>3, <2>1, Zenon
<1>7. /\ Sound(d, f) /\ Situation(f) /\ f.r.state = dl[d].state /\ f.r.buffer = None
      /\ f.r.inode = dl[d].inode /\ f.r.segs = dl[d].segs /\ f.r.total = dl[d].total
      /\ dl[d].inode # None /\ remote[d] \in Remote /\ dl[d] \in Download
  <2>1. Sound(d, At(d)) /\ At(d).r = dl[d] /\ Situation(At(d)) /\ remote[d] \in Remote
        /\ dl[d] \in Download
    BY <1>1, AtSound, AtFine DEF Faithful, Fine
  <2>2. dl[d].inode # None
    BY <1>1 DEF Faithful, Ranges, Calm
  <2> QED BY <1>1, <2>1, <2>2, FlushedSound
<1>8. buffer \in Buffer /\ buffer.at = seg.start + seg.received /\ buffer.bytes = bytes
  <2>1. bytes \in Seq({Junk} \cup Nat) \ {<<>>}
    <3>1. \A k \in 1..n : q.at + k - 1 \in {Junk} \cup Nat
      BY <1>1, <1>4 DEF Reply
    <3>2. bytes \in [1..n -> {Junk} \cup Nat]
      BY <3>1
    <3> HIDE DEF bytes
    <3>3. bytes \in Seq({Junk} \cup Nat) /\ Len(bytes) = n
      BY <1>4, <3>2
    <3> QED BY <1>4, <3>3
  <2>2. seg.start + seg.received \in Nat
    BY <1>1 DEF Segment
  <2> HIDE DEF bytes
  <2> QED BY <2>1, <2>2 DEF Buffer
<1> HIDE DEF f, buffer, s
<1>9. ASSUME NEW b \in BOOLEAN
      PROVE  LET v == Brought(f, i, buffer, Moved(seg, n, "data"), b) IN
             Sound(d, v) /\ v.r.state = "Downloading" /\ Follows(f.r, v.r)
  <2>1. i \in DOMAIN f.r.segs /\ f.r.segs[i] = seg
    BY <1>1, <1>7
  <2>2. f.r.segs[i].reply.at + n <= f.r.segs[i].reply.upto /\ f.r.segs[i].reply \in Reply
    BY <1>1, <1>3, <2>1
  <2>3. /\ buffer.at = f.r.segs[i].start + f.r.segs[i].received
        /\ buffer.bytes = [k \in 1 .. n |-> f.r.segs[i].reply.at + k - 1]
    BY <1>8, <2>1
  <2> HIDE DEF seg
  <2>4. /\ f.r.inode # None /\ f.r.state = "Downloading" /\ f.r.buffer = None
        /\ Situation(f) /\ Sound(d, f) /\ remote[d] \in Remote /\ buffer \in Buffer
    BY <1>1, <1>7, <1>8
  <2> HIDE DEF bytes, q
  <2>5. LET v == Brought(f, i, buffer, Moved(f.r.segs[i], n, "data"), b) IN
        Sound(d, v) /\ v.r.state = "Downloading" /\ Follows(f.r, v.r)
    BY <1>4, <2>1, <2>2, <2>3, <2>4, BroughtSound
  <2> QED BY <2>1, <2>5
<1>10. Sound(d, s) /\ s.r.state = "Downloading" /\ Follows(f.r, s.r)
  BY <1>9, Zenon DEF s
<1>11. Steady(d, s)
  <2>1. Follows(dl[d], s.r)
    BY <1>7, <1>10 DEF Follows
  <2> QED BY <1>1, <1>10, <2>1 DEF Steady
<1> QED BY <1>1, <1>6, <1>10, <1>11, BecomesFaithful

-----------------------------------------------------------------------------
(* The other steps *)

\* What only sets a clock keeps the invariant.
LEMMA QuietFaithful ==
  ASSUME Faithful, Ranges', up' = up, saved' = saved, saveDue' = saveDue, path' = path,
         file' = file, remote' = remote, spoilt' = spoilt,
         \A e \in Downloads : dl'[e] = None <=> dl[e] = None,
         \A e \in Downloads : dl[e] # None =>
           /\ dl'[e].state = dl[e].state /\ dl'[e].total = dl[e].total
           /\ dl'[e].ranges = dl[e].ranges /\ dl'[e].segs = dl[e].segs
           /\ dl'[e].inode = dl[e].inode /\ dl'[e].buffer = dl[e].buffer
  PROVE  Faithful'
<1>1. Listed' = Listed /\ \A e \in Listed : e \in Downloads /\ dl[e] # None
  BY DEF Listed
<1>2. Owned'
  BY <1>1 DEF Faithful, Owned
<1>3. ASSUME NEW e \in Listed PROVE Counted(dl'[e], file', remote'[e])
  <2>1. Ranged(dl[e], remote[e]) /\ Asking(dl[e]) /\ Sized(dl[e], file)
    BY DEF Faithful, Counted
  <2>2. Ranged(dl'[e], remote'[e])
    BY <1>1, <2>1 DEF Ranged
  <2>3. Asking(dl'[e])
    BY <1>1, <2>1 DEF Asking
  <2>4. Sized(dl'[e], file')
    BY <1>1, <2>1 DEF Sized
  <2> QED BY <2>2, <2>3, <2>4 DEF Counted
<1>4. ASSUME NEW e \in Listed \ spoilt PROVE Honest(e, dl'[e], path', file', remote'[e])
  <2>1. Honest(e, dl[e], path, file, remote[e])
    BY DEF Faithful
  <2>2. Held(dl'[e], path[Part(e)], file) = Held(dl[e], path[Part(e)], file)
    BY <1>1 DEF Held
  <2> QED BY <1>1, <2>1, <2>2 DEF Honest
<1>5. InStep'
  <2> SUFFICES ASSUME up', ~saveDue', NEW e \in Downloads
               PROVE  IF dl'[e] = None THEN saved'[e] = None
                      ELSE saved'[e] # None /\ Follows(saved'[e], dl'[e])
    BY DEF InStep
  <2>1. IF dl[e] = None THEN saved[e] = None ELSE saved[e] # None /\ Follows(saved[e], dl[e])
    BY DEF Faithful, InStep
  <2>2. dl[e] # None => Follows(saved[e], dl'[e])
    BY <2>1 DEF Follows
  <2> QED BY <2>1, <2>2
<1>6. SavedIsThere'
  BY DEF Faithful, SavedIsThere, Ahead, Whole, OnDisk
<1>7. \A e \in Downloads : saved'[e] # None => Ranged(saved'[e], remote'[e])
  BY DEF Faithful
<1> QED BY <1>1, <1>2, <1>3, <1>4, <1>5, <1>6, <1>7 DEF Faithful

\* Time goes by without a byte.
LEMMA TimePassesFaithful ==
  ASSUME Faithful, NEW d \in Downloads, TimePasses(d), Ranges'
  PROVE  Faithful'
<1>1. d \in Listed /\ dl[d] \in Download
  BY AtFine DEF TimePasses, Listed, Faithful
<1> DEFINE u == [dl[d] EXCEPT !.quiet = TRUE]
<1>2. dl' = [dl EXCEPT ![d] = u] /\ UNCHANGED <<up, saved, saveDue, path, file, remote, spoilt>>
  BY DEF TimePasses
<1>3. /\ u \in Download /\ u.segs = dl[d].segs /\ u.total = dl[d].total /\ u.state = dl[d].state
      /\ u.ranges = dl[d].ranges
      /\ u.inode = dl[d].inode /\ u.buffer = dl[d].buffer
  BY <1>1 DEF Download
<1> HIDE DEF u
<1>4. u # None /\ dl[d] # None
  BY <1>1, <1>3, NoneAssumption
<1>5. \A e \in Downloads : dl'[e] = IF e = d THEN u ELSE dl[e]
  BY <1>2 DEF Faithful, Ranges, TypeOK
<1> QED BY <1>2, <1>3, <1>4, <1>5, QuietFaithful

\* A new download counts nothing.
LEMMA AddDownloadFaithful ==
  ASSUME Faithful, NEW d \in Downloads, NEW size, NEW kind,
         AddDownload(d, size, kind), Ranges'
  PROVE  Faithful'
<1> DEFINE new == [state |-> "Probing", total |-> -1, ranges |-> FALSE, segs |-> <<>>,
                   inode |-> None, buffer |-> None, quiet |-> FALSE, kicked |-> FALSE]
           server == [size |-> size, kind |-> kind]
<1>1. /\ up /\ dl[d] = None /\ saved[d] = None
      /\ dl' = [dl EXCEPT ![d] = new] /\ remote' = [remote EXCEPT ![d] = server]
      /\ saveDue' = TRUE /\ spoilt' = spoilt \ {d} /\ UNCHANGED <<up, saved, path, file>>
  BY Zenon DEF AddDownload
<1>2. /\ new.segs = <<>> /\ new.state = "Probing" /\ new.total = -1
      /\ new.inode = None /\ new.buffer = None
  OBVIOUS
<1> HIDE DEF new, server
<1>3. \A e \in Downloads : /\ dl'[e] = IF e = d THEN new ELSE dl[e]
                           /\ remote'[e] = IF e = d THEN server ELSE remote[e]
  BY <1>1 DEF Faithful, Ranges, TypeOK
<1>4. \A e \in Listed' : e \in Downloads /\ (e # d => e \in Listed /\ dl'[e] = dl[e])
                         /\ (e = d => dl'[e] = new)
  BY <1>3 DEF Listed
<1>5. Counted(new, file, server)
  BY <1>2 DEF Counted, Ranged, Asking, Sized
<1>6. Honest(d, new, path, file, server)
  BY <1>2 DEF Honest, Right
<1>7. \A e \in Listed' : Counted(dl'[e], file', remote'[e])
  BY <1>1, <1>3, <1>4, <1>5 DEF Faithful
<1>8. \A e \in Listed' \ spoilt' : Honest(e, dl'[e], path', file', remote'[e])
  BY <1>1, <1>3, <1>4, <1>6 DEF Faithful
<1>9. Owned'
  BY <1>1, <1>2, <1>4 DEF Faithful, Owned
<1>10. InStep' /\ SavedIsThere'
  BY <1>1 DEF InStep, SavedIsThere
<1>11. \A e \in Downloads : saved'[e] # None => Ranged(saved'[e], remote'[e])
  BY <1>1, <1>3 DEF Faithful
<1> QED BY <1>7, <1>8, <1>9, <1>10, <1>11 DEF Faithful

\* remove: no other download has the names that go.
LEMMA RemoveFaithful ==
  ASSUME Faithful, Orderly, NEW d \in Downloads, NEW deleteFiles, NEW left \in Nat,
         Remove(d, deleteFiles, left), Ranges'
  PROVE  Faithful'
<1> DEFINE c == Closed(At(d), left)
           s == [r |-> c.r, path |-> path', file |-> c.file, lost |-> c.lost]
<1>1. d \in Listed
  BY DEF Remove, Listed
<1>2. /\ up /\ dl' = [dl EXCEPT ![d] = None]
      /\ path' = IF deleteFiles THEN [c.path EXCEPT ![Part(d)] = None, ![Final(d)] = None]
                 ELSE c.path
      /\ file' = Kept(c.file, path', dl')
      /\ remote' = [remote EXCEPT ![d] = IF saved[d] = None THEN None ELSE @]
      /\ spoilt' = (IF saved[d] = None THEN spoilt \ {d} ELSE spoilt)
      /\ saveDue' = TRUE /\ UNCHANGED <<up, saved>>
  BY Zenon DEF Remove, UserMay
<1> DEFINE a == Cut(At(d), left)
<1>3. Frame(d, a) /\ Situation(a) /\ c = Closed(a, 0)
  <2>1. Sound(d, At(d)) /\ Situation(At(d))
    BY <1>1, AtFine, AtSound DEF Faithful, Fine
  <2>2. /\ Situation(a) /\ a.path = At(d).path /\ a.file = At(d).file
        /\ a.r.inode = At(d).r.inode
    BY <2>1, CutIs
  <2> HIDE DEF a
  <2>3. Frame(d, a)
    BY <2>1, <2>2, FrameKept DEF Sound
  <2>4. c = Closed(a, 0)
    BY <2>1, ClosedCut DEF a
  <2> QED BY <2>2, <2>3, <2>4
<1> HIDE DEF a
<1> DEFINE u == [a.r EXCEPT !.buffer = None, !.inode = None]
<1>4. c = [r |-> u, path |-> a.path, file |-> Poured(a), lost |-> a.lost] /\ Situation(c)
  BY <1>3, ClosedIs
<1>5. u.inode = None
  BY <1>3 DEF Situation, Download
<1>6. \A i \in Inodes : i # a.r.inode => Poured(a)[i] = a.file[i]
  BY <1>3, PouredIs, Zenon
<1> HIDE DEF u, c
<1>7. c.r = u /\ c.path = a.path /\ c.file = Poured(a)
  BY <1>4
<1>8. Frame(d, c)
  BY <1>3, <1>5, <1>6, <1>7, FrameKept
<1>9. s.r.inode = None /\ s.path = path' /\ s.file = c.file
  BY <1>5, <1>7
<1> HIDE DEF s
<1>10. Part(d) \in Paths /\ Final(d) \in Paths /\ c.path \in [Paths -> Inodes \cup {None}]
  BY <1>4, PathsOf DEF Situation
<1>11. \A p \in Paths : \/ path'[p] = c.path[p]
                        \/ p \in {Part(d), Final(d)} /\ path'[p] = None
  BY <1>2, <1>10
<1>12. path' \in [Paths -> Inodes \cup {None}]
  BY <1>2, <1>10
<1>13. Frame(d, s)
  BY <1>5, <1>7, <1>8, <1>9, <1>10, <1>11, NoneAssumption DEF Frame
<1>14. \A e \in Downloads : /\ dl'[e] = IF e = d THEN None ELSE dl[e]
                            /\ e # d \/ saved[e] # None => remote'[e] = remote[e]
  BY <1>2 DEF Faithful, Ranges, TypeOK
<1>15. /\ Owned'
       /\ \A e \in Listed \ {d} : Counted(dl[e], file', remote[e])
       /\ \A e \in (Listed \ {d}) \ spoilt : Honest(e, dl[e], path', file', remote[e])
  <2>1. dl'[d] = None /\ \A e \in Downloads : e # d => dl'[e] = dl[e]
    BY <1>14
  <2>2. path' = s.path /\ file' = Kept(s.file, s.path, dl')
    BY <1>2, <1>9
  <2> QED BY <1>12, <1>13, <2>1, <2>2, OthersFaithful
<1>16. \A e \in Listed' : e \in Listed \ {d} /\ dl'[e] = dl[e] /\ remote'[e] = remote[e]
  BY <1>14 DEF Listed
<1>17. \A e \in Listed' \ spoilt' : e \in (Listed \ {d}) \ spoilt
  BY <1>2, <1>16
<1>18. InStep' /\ SavedIsThere'
  BY <1>2 DEF InStep, SavedIsThere
<1>19. \A e \in Downloads : saved'[e] # None => Ranged(saved'[e], remote'[e])
  BY <1>2, <1>14 DEF Faithful
<1>20. \A e \in Listed' : Counted(dl'[e], file', remote'[e])
  BY <1>15, <1>16
<1>21. \A e \in Listed' \ spoilt' : Honest(e, dl'[e], path', file', remote'[e])
  BY <1>15, <1>16, <1>17
<1> QED BY <1>15, <1>18, <1>19, <1>20, <1>21 DEF Faithful

\* What the sidecar is told of a download counts what the download counts.
LEMMA EntryFollows ==
  ASSUME NEW r \in Download
  PROVE  /\ Follows(Entry(r), r)
         /\ \A server : Ranged(r, server) => Ranged(Entry(r), server)
<1>1. /\ Entry(r) \in Saved /\ Entry(r).total = r.total /\ Entry(r).ranges = r.ranges
      /\ Entry(r).segs = Aborted(r.segs)
      /\ Entry(r).state = "Completed" <=> r.state = "Completed"
  BY EntryIs
<1>2. /\ Aborted(r.segs) \in Seq(Segment) /\ r.segs \in Seq(Segment)
      /\ Len(Aborted(r.segs)) = Len(r.segs) /\ DOMAIN Aborted(r.segs) = DOMAIN r.segs
      /\ \A i \in DOMAIN r.segs :
           /\ Aborted(r.segs)[i].start = r.segs[i].start
           /\ Aborted(r.segs)[i].end = r.segs[i].end
           /\ Aborted(r.segs)[i].received = r.segs[i].received
  BY SegsAborted DEF Download
<1> DEFINE q == Entry(r)
<1>3. /\ q.total = r.total /\ q.ranges = r.ranges /\ DOMAIN q.segs = DOMAIN r.segs
      /\ q.segs \in Seq(Segment) /\ Len(q.segs) = Len(r.segs)
      /\ q.state = "Completed" <=> r.state = "Completed"
      /\ \A i \in DOMAIN r.segs :
           /\ q.segs[i].start = r.segs[i].start /\ q.segs[i].end = r.segs[i].end
           /\ q.segs[i].received = r.segs[i].received
  BY <1>1, <1>2
<1> HIDE DEF q
<1>4. ASSUME NEW i \in DOMAIN r.segs PROVE q.segs[i].received <= r.segs[i].received
  <2>1. r.segs[i] \in Segment
    <3>1. DOMAIN r.segs = 1 .. Len(r.segs)
      BY <1>2
    <3> QED BY <1>2, <3>1
  <2>2. r.segs[i].received \in Nat
    BY <2>1 DEF Segment
  <2> QED BY <1>3, <2>2
<1>5. Follows(q, r)
  BY <1>3, <1>4 DEF Follows
<1>6. ASSUME NEW server, Ranged(r, server) PROVE Ranged(q, server)
  <2>1. CASE r.segs = <<>> /\ r.total = -1
    BY <1>3, <1>6, <2>1 DEF Ranged
  <2>2. CASE r.segs # <<>> /\ r.total = server.size /\ Tiles(r.segs, r.total) /\ r.ranges
    <3>1. \A j \in DOMAIN r.segs : q.segs[j].start = r.segs[j].start /\ q.segs[j].end = r.segs[j].end
      BY <1>3
    <3>2. Tiles(q.segs, r.total)
      BY <1>2, <1>3, <2>2, <3>1, TilesSame
    <3>3. q.segs # <<>>
      BY <1>2, <1>3, <2>2
    <3> QED BY <1>3, <1>6, <2>2, <3>2, <3>3 DEF Ranged
  <2> QED BY <1>6, <2>1, <2>2 DEF Ranged
<1> QED BY <1>5, <1>6 DEF q

\* The sidecar's new entries, in step with the downloads
LEMMA EntriesFollow ==
  ASSUME Faithful, NEW e \in Downloads
  PROVE  IF dl[e] = None THEN Entries[e] = None
         ELSE Entries[e] # None /\ Follows(Entries[e], dl[e]) /\ Ranged(Entries[e], remote[e])
<1>1. Entries[e] = IF dl[e] = None THEN None ELSE Entry(dl[e])
  BY DEF Entries
<1>2. ASSUME dl[e] # None
      PROVE  dl[e] \in Download /\ Ranged(dl[e], remote[e])
  <2>1. e \in Listed
    BY <1>2 DEF Listed
  <2>2. dl[e] \in Download
    BY <2>1, AtFine DEF Faithful
  <2> QED BY <2>1, <2>2 DEF Faithful, Counted
<1> QED BY <1>1, <1>2, EntryIs, EntryFollows

\* save() writes what is counted; what the buffer holds may be lost in a crash.
LEMMA SaveFaithful ==
  ASSUME Faithful, Save, Ranges'
  PROVE  Faithful'
<1>1. /\ up /\ saved' = Entries /\ saveDue' = FALSE
      /\ remote' = [d \in Downloads |-> IF dl[d] = None THEN None ELSE remote[d]]
      /\ UNCHANGED <<up, dl, path, file, spoilt>>
  BY DEF Save
<1>2. Listed' = Listed /\ \A e \in Listed : e \in Downloads /\ remote'[e] = remote[e]
  BY <1>1 DEF Listed
<1>3. Owned'
  BY <1>1, <1>2 DEF Faithful, Owned
<1>4. \A e \in Listed' : Counted(dl'[e], file', remote'[e])
  BY <1>1, <1>2 DEF Faithful
<1>5. \A e \in Listed' \ spoilt' : Honest(e, dl'[e], path', file', remote'[e])
  BY <1>1, <1>2 DEF Faithful
<1>6. InStep'
  BY <1>1, EntriesFollow DEF InStep
<1>7. ASSUME NEW e \in Downloads, saved'[e] # None PROVE Ranged(saved'[e], remote'[e])
  <2>1. saved'[e] = Entries[e]
    BY <1>1
  <2>2. dl[e] # None /\ Ranged(Entries[e], remote[e])
    BY <1>7, <2>1, EntriesFollow
  <2>3. remote'[e] = remote[e]
    BY <1>1, <2>2
  <2> QED BY <2>1, <2>2, <2>3
<1>8. SavedIsThere'
  BY <1>1 DEF SavedIsThere
<1> QED BY <1>3, <1>4, <1>5, <1>6, <1>7, <1>8 DEF Faithful

\* When the program stops, only what the disk and the sidecar have is left.
LEMMA StoppedFaithful ==
  ASSUME Faithful, NEW left, Stopped(left), Ranges', SavedIsThere',
         saved' = saved \/ saved' = Entries
  PROVE  Faithful'
<1>1. /\ up' = FALSE /\ dl' = [d \in Downloads |-> None] /\ UNCHANGED <<path, remote>>
  BY DEF Stopped
<1>2. Listed' = {}
  BY <1>1 DEF Listed
<1>3. Owned'
  BY <1>1, <1>2 DEF Faithful, Owned
<1>4. InStep'
  BY <1>1 DEF InStep
<1>5. \A e \in Downloads : saved'[e] # None => Ranged(saved'[e], remote'[e])
  BY <1>1, EntriesFollow DEF Faithful
<1> QED BY <1>2, <1>3, <1>4, <1>5 DEF Faithful

\* An exit writes what the buffers hold: of what a download has counted, nothing
\* is lost with it.
LEMMA PouredOut ==
  ASSUME Faithful, Orderly, NEW left, Stopped(left), NEW d \in Listed
  PROVE  /\ path[Final(d)] # None => file'[path[Final(d)]] = file[path[Final(d)]]
         /\ d \notin spoilt /\ (dl[d].buffer # None => left[d] = 0) =>
              (IF path[Part(d)] = None THEN <<>> ELSE file'[path[Part(d)]])
                = Held(dl[d], path[Part(d)], file)
<1> DEFINE Buffered == {e \in Listed : dl[e].buffer # None}
           After(i) == IF \E e \in Buffered : dl[e].inode = i
                       THEN LET e == CHOOSE e \in Buffered : dl[e].inode = i
                            IN  Flushed(At(e), left[e]).file[i]
                       ELSE file[i]
<1>1. file' = Kept([i \in Inodes |-> After(i)], path, dl') /\ path' = path
  BY Zenon DEF Stopped
<1> HIDE DEF Buffered, After
<1>2. /\ Part(d) \in Paths /\ Final(d) \in Paths /\ d \in Downloads
      /\ path \in [Paths -> Inodes \cup {None}] /\ dl[d] \in Download /\ dl[d] # None
  <2>1. d \in Downloads /\ dl[d] # None
    BY DEF Listed
  <2>2. dl[d] \in Download
    BY AtFine DEF Faithful
  <2> QED BY <2>1, <2>2, PathsOf DEF Faithful, Ranges, TypeOK
<1>3. ASSUME NEW p \in Paths, path[p] # None
      PROVE  path[p] \in Inodes /\ file'[path[p]] = After(path[p])
  <2>1. path[p] \in Inodes
    BY <1>2, <1>3
  <2>2. path[p] \in Range(path)
    BY <1>2 DEF Range
  <2> HIDE DEF After
  <2> QED BY <1>1, <2>1, <2>2 DEF Kept
<1>4. \A e \in Listed, p \in Paths : path[p] # None /\ path[p] = dl[e].inode => p = Part(e)
  BY DEF Faithful, Owned
<1>5. \A e \in Listed : e \in Downloads
  BY DEF Listed
<1>6. ASSUME path[Final(d)] # None
      PROVE  file'[path[Final(d)]] = file[path[Final(d)]]
  <2>1. ~ \E e \in Buffered : dl[e].inode = path[Final(d)]
    BY <1>2, <1>4, <1>5, <1>6, PartAndFinal DEF Buffered
  <2>2. After(path[Final(d)]) = file[path[Final(d)]]
    BY <2>1, Zenon DEF After
  <2> QED BY <1>2, <1>3, <1>6, <2>2
<1>7. ASSUME d \notin spoilt, dl[d].buffer # None => left[d] = 0
      PROVE  (IF path[Part(d)] = None THEN <<>> ELSE file'[path[Part(d)]])
                = Held(dl[d], path[Part(d)], file)
  <2> DEFINE i == path[Part(d)]
  <2>1. dl[d].inode # None => i = dl[d].inode
    BY <1>7 DEF Faithful, Honest
  <2>2. dl[d].buffer # None => dl[d].inode # None
    BY DEF Faithful, Ranges, TypeOK
  <2>3. ASSUME i # None, NEW e \in Buffered, dl[e].inode = i PROVE e = d
    <3>1. e \in Listed /\ Part(d) = Part(e) /\ e \in Downloads
      BY <1>2, <1>4, <1>5, <2>3 DEF Buffered
    <3> QED BY <1>2, <3>1, PartAndFinal
  <2>4. CASE i = None
    BY <2>1, <2>4 DEF Held
  <2>5. CASE i # None /\ dl[d].buffer = None
    <3>1. ~ \E e \in Buffered : dl[e].inode = i
      BY <2>3, <2>5 DEF Buffered
    <3>2. After(i) = file[i]
      BY <3>1, Zenon DEF After
    <3>3. file'[i] = file[i]
      BY <1>2, <1>3, <2>5, <3>2
    <3> QED BY <2>1, <2>5, <3>3 DEF Held
  <2>6. CASE i # None /\ dl[d].buffer # None
    <3>1. d \in Buffered /\ dl[d].inode = i
      BY <2>1, <2>2, <2>6 DEF Buffered
    <3>2. (CHOOSE e \in Buffered : dl[e].inode = i) = d
      BY <2>3, <2>6, <3>1
    <3>3. After(i) = Written(file[i], dl[d].buffer.at, dl[d].buffer.bytes)
      <4>1. After(i) = Flushed(At(d), left[d]).file[i] /\ left[d] = 0
        BY <1>7, <2>6, <3>1, <3>2, Zenon DEF After
      <4>2. Situation(At(d)) /\ At(d).r = dl[d] /\ At(d).file = file
        BY AtFine DEF Faithful, Fine
      <4> DEFINE q == [At(d).r EXCEPT !.buffer = None]
      <4>3. Flushed(At(d), 0)
              = [r |-> q, path |-> At(d).path, file |-> Poured(At(d)), lost |-> At(d).lost]
        BY <4>2, FlushedIs
      <4> HIDE DEF q
      <4>4. Flushed(At(d), 0).file = Poured(At(d))
        BY <4>3
      <4>5. Poured(At(d))[dl[d].inode] = Written(file[dl[d].inode], dl[d].buffer.at, dl[d].buffer.bytes)
        BY <2>2, <2>6, <4>2, PouredIs
      <4> QED BY <3>1, <4>1, <4>4, <4>5
    <3>4. file'[i] = After(i)
      BY <1>2, <1>3, <2>6
    <3> QED BY <2>6, <3>1, <3>3, <3>4 DEF Held
  <2> QED BY <2>4, <2>5, <2>6
<1> QED BY <1>6, <1>7

\* Exit: the list is written if that is due, and the buffers are.
LEMMA QuitFaithful ==
  ASSUME Faithful, Orderly, NEW left \in [Downloads -> Nat], Quit(left), Ranges'
  PROVE  Faithful'
<1>1. /\ up /\ saved' = (IF saveDue THEN Entries ELSE saved) /\ Stopped(left)
      /\ spoilt' = spoilt \cup Losing(left)
  BY Zenon DEF Quit, UserMay
<1>2. up' = FALSE /\ path' = path /\ remote' = remote
  BY <1>1, Zenon DEF Stopped
<1>3. ASSUME NEW d \in Downloads \ spoilt', saved'[d] # None
      PROVE  IF saved'[d].state = "Completed"
             THEN /\ path'[Final(d)] # None
                  /\ file'[path'[Final(d)]] = [p \in 0 .. (remote'[d].size - 1) |-> p]
             ELSE Right(IF path'[Part(d)] = None THEN <<>> ELSE file'[path'[Part(d)]],
                        saved'[d].segs)
  <2>1. dl[d] # None /\ Follows(saved'[d], dl[d])
    <3>1. CASE saveDue
      BY <1>1, <1>3, <3>1, EntriesFollow
    <3>2. CASE ~saveDue
      BY <1>1, <1>3, <3>2 DEF Faithful, InStep
    <3> QED BY <3>1, <3>2
  <2>2. d \in Listed \ spoilt /\ Honest(d, dl[d], path, file, remote[d])
    BY <1>1, <2>1 DEF Listed, Faithful
  <2>6. dl[d].buffer # None => left[d] = 0
    BY <1>1, <2>2 DEF Losing
  <2>3. saved'[d].state = "Completed" <=> dl[d].state = "Completed"
    BY <2>1 DEF Follows
  <2>4. CASE dl[d].state = "Completed"
    <3>1. path[Final(d)] # None /\ file[path[Final(d)]] = [p \in 0 .. (remote[d].size - 1) |-> p]
      BY <2>2, <2>4 DEF Honest
    <3>2. file'[path[Final(d)]] = file[path[Final(d)]]
      BY <1>1, <2>2, <3>1, PouredOut
    <3> QED BY <1>2, <2>3, <2>4, <3>1, <3>2
  <2>5. CASE dl[d].state # "Completed"
    <3>1. Right(Held(dl[d], path[Part(d)], file), dl[d].segs)
      BY <2>2, <2>5 DEF Honest
    <3>2. saved'[d].segs \in Seq(Segment)
      BY <1>3 DEF Ranges, TypeOK, Saved
    <3>3. dl[d].segs \in Seq(Segment)
      BY <2>2, AtFine DEF Faithful
    <3>4. Right(Held(dl[d], path[Part(d)], file), saved'[d].segs)
      BY <2>1, <3>1, <3>2, <3>3, RightFollows
    <3>5. (IF path[Part(d)] = None THEN <<>> ELSE file'[path[Part(d)]])
            = Held(dl[d], path[Part(d)], file)
      BY <1>1, <2>2, <2>6, PouredOut
    <3> QED BY <1>2, <2>3, <2>5, <3>4, <3>5
  <2> QED BY <2>4, <2>5
<1>4. SavedIsThere'
  BY <1>1, <1>3 DEF SavedIsThere, Ahead, Whole, OnDisk
<1>5. saved' = saved \/ saved' = Entries
  BY <1>1
<1> QED BY <1>1, <1>4, <1>5, StoppedFaithful, Zenon

\* Crash: downloads with a sidecar ahead of their file are the spoilt ones.
LEMMA CrashFaithful ==
  ASSUME Faithful, NEW left, Crash(left), Ranges'
  PROVE  Faithful'
<1>1. /\ Stopped(left) /\ saved' = saved
      /\ spoilt' = spoilt \cup {d \in Downloads : Ahead(d)'}
  BY Zenon DEF Crash
<1>2. SavedIsThere'
  BY <1>1 DEF SavedIsThere
<1> QED BY <1>1, <1>2, StoppedFaithful, Zenon

\* restoreState: the offsets are those of the sidecar, and in the file.
LEMMA LaunchFaithful ==
  ASSUME Faithful, Launch, Ranges'
  PROVE  Faithful'
<1> DEFINE woken(q) == [state |-> q.state, total |-> q.total, ranges |-> q.ranges,
                        segs |-> q.segs, inode |-> None, buffer |-> None,
                        quiet |-> FALSE, kicked |-> FALSE]
<1>1. /\ ~up /\ up' = TRUE
      /\ dl' = [d \in Downloads |-> IF saved[d] = None THEN None ELSE woken(saved[d])]
      /\ remote' = [d \in Downloads |-> IF saved[d] = None THEN None ELSE remote[d]]
      /\ UNCHANGED <<saved, saveDue, path, file, spoilt>>
  BY Zenon DEF Launch
<1>2. ASSUME NEW q
      PROVE  /\ woken(q).state = q.state /\ woken(q).total = q.total
             /\ woken(q).ranges = q.ranges /\ woken(q).segs = q.segs
             /\ woken(q).inode = None /\ woken(q).buffer = None
  OBVIOUS
<1> HIDE DEF woken
<1>3. \A e \in Listed' : /\ e \in Downloads /\ saved[e] # None /\ dl'[e] = woken(saved[e])
                         /\ remote'[e] = remote[e]
  BY <1>1 DEF Listed
<1>4. Owned'
  BY <1>1, <1>2, <1>3 DEF Faithful, Owned
<1>5. ASSUME NEW e \in Listed' PROVE Counted(dl'[e], file', remote'[e])
  <2>1. Ranged(saved[e], remote[e])
    BY <1>3 DEF Faithful
  <2>2. \A i \in DOMAIN saved[e].segs : saved[e].segs[i].reply = None
    BY <1>3 DEF Faithful, Ranges
  <2>3. Ranged(dl'[e], remote'[e])
    BY <1>2, <1>3, <2>1 DEF Ranged
  <2>4. Asking(dl'[e])
    BY <1>2, <1>3, <2>2 DEF Asking
  <2>5. Sized(dl'[e], file')
    BY <1>2, <1>3 DEF Sized
  <2> QED BY <2>3, <2>4, <2>5 DEF Counted
<1>6. ASSUME NEW e \in Listed' \ spoilt' PROVE Honest(e, dl'[e], path', file', remote'[e])
  <2>1. e \in Downloads \ spoilt /\ saved[e] # None
    BY <1>1, <1>3
  <2>2. IF saved[e].state = "Completed"
        THEN /\ path[Final(e)] # None
             /\ file[path[Final(e)]] = [p \in 0 .. (remote[e].size - 1) |-> p]
        ELSE Right(IF path[Part(e)] = None THEN <<>> ELSE file[path[Part(e)]], saved[e].segs)
    BY <1>1, <2>1 DEF Faithful, SavedIsThere, Ahead, Whole, OnDisk
  <2>3. /\ dl'[e].inode = None /\ dl'[e].state = saved[e].state /\ dl'[e].segs = saved[e].segs
        /\ remote'[e] = remote[e] /\ path' = path /\ file' = file
    BY <1>1, <1>2, <1>3
  <2>4. Held(dl'[e], path[Part(e)], file) = IF path[Part(e)] = None THEN <<>> ELSE file[path[Part(e)]]
    BY <2>3 DEF Held
  <2> QED BY <2>2, <2>3, <2>4 DEF Honest
<1>7. InStep'
  <2> SUFFICES ASSUME NEW e \in Downloads
               PROVE  IF dl'[e] = None THEN saved'[e] = None
                      ELSE saved'[e] # None /\ Follows(saved'[e], dl'[e])
    BY DEF InStep
  <2>1. CASE saved[e] = None
    BY <1>1, <2>1
  <2>2. CASE saved[e] # None
    <3>1. dl'[e] = woken(saved[e]) /\ saved'[e] = saved[e]
      BY <1>1, <2>2
    <3>2. dl'[e] # None
      <4>1. saved[e].segs \in Seq(Segment) /\ saved[e] \in Saved
        BY <2>2 DEF Faithful, Ranges, TypeOK, Saved
      <4>2. woken(saved[e]) \in Download
        BY <4>1 DEF woken, Saved, Download
      <4> QED BY <3>1, <4>2, NoneAssumption
    <3>3. \A i \in DOMAIN saved[e].segs : saved[e].segs[i].received <= saved[e].segs[i].received
      <4>1. saved[e].segs \in Seq(Segment)
        BY <2>2 DEF Faithful, Ranges, TypeOK, Saved
      <4>2. \A segs \in Seq(Segment) : DOMAIN segs = 1 .. Len(segs)
        OBVIOUS
      <4>3. \A segs \in Seq(Segment) : \A j \in DOMAIN segs : segs[j] \in Segment
        BY <4>2
      <4>4. \A i \in DOMAIN saved[e].segs : saved[e].segs[i].received \in Nat
        BY <4>1, <4>3 DEF Segment
      <4>5. \A n \in Nat : n <= n
        OBVIOUS
      <4> QED BY <4>4, <4>5
    <3>4. Follows(saved[e], woken(saved[e]))
      BY <1>2, <3>3 DEF Follows
    <3> QED BY <2>2, <3>1, <3>2, <3>4
  <2> QED BY <2>1, <2>2
<1>8. \A e \in Downloads : saved'[e] # None => Ranged(saved'[e], remote'[e])
  BY <1>1 DEF Faithful
<1>9. SavedIsThere'
  BY <1>1 DEF SavedIsThere
<1> QED BY <1>4, <1>5, <1>6, <1>7, <1>8, <1>9 DEF Faithful

\* Who lost the .part file is spoilt.
LEMMA PartDeletedFaithful ==
  ASSUME Faithful, Orderly, NEW d \in Downloads, PartDeleted(d), Ranges'
  PROVE  Faithful'
<1>1. /\ path' = [path EXCEPT ![Part(d)] = None] /\ spoilt' = spoilt \cup {d}
      /\ file' = Kept(file, path', dl) /\ UNCHANGED <<up, dl, saved, saveDue, remote>>
  BY Zenon DEF PartDeleted
<1>2. path \in [Paths -> Inodes \cup {None}] /\ Part(d) \in Paths
  BY PathsOf DEF Faithful, Ranges, TypeOK
<1>3. \A p \in Paths : path'[p] = IF p = Part(d) THEN None ELSE path[p]
  BY <1>1, <1>2
<1>4. Listed' = Listed /\ \A e \in Listed : e \in Downloads /\ dl[e] # None
  BY <1>1 DEF Listed
<1>5. path' \in [Paths -> Inodes \cup {None}]
  BY <1>1, <1>2
<1>6. ASSUME NEW p \in Paths, path'[p] # None
      PROVE  path'[p] = path[p] /\ file'[path[p]] = file[path[p]]
  <2>1. path'[p] \in Inodes /\ path'[p] \in Range(path') /\ path'[p] = path[p]
    BY <1>3, <1>5, <1>6 DEF Range
  <2> QED BY <1>1, <2>1 DEF Kept
<1>7. ASSUME NEW e \in Listed, dl[e].inode # None
      PROVE  file'[dl[e].inode] = file[dl[e].inode]
  <2>1. dl[e] \in Download
    BY AtFine DEF Faithful
  <2>2. dl[e].inode \in Inodes
    BY <1>7, <2>1 DEF Download
  <2> QED BY <1>1, <1>4, <2>2 DEF Kept
<1>8. Owned'
  BY <1>1, <1>3, <1>4 DEF Faithful, Owned
<1>9. ASSUME NEW e \in Listed PROVE Counted(dl[e], file', remote[e])
  BY <1>7, CountedSame DEF Faithful
<1>10. ASSUME NEW e \in Downloads \ {d}
       PROVE  /\ Part(e) \in Paths /\ Final(e) \in Paths
              /\ path'[Part(e)] = path[Part(e)] /\ path'[Final(e)] = path[Final(e)]
              /\ path[Part(e)] # None => file'[path[Part(e)]] = file[path[Part(e)]]
              /\ path[Final(e)] # None => file'[path[Final(e)]] = file[path[Final(e)]]
  <2>1. Part(e) \in Paths /\ Final(e) \in Paths /\ Part(e) # Part(d) /\ Final(e) # Part(d)
    BY PathsOf, PartAndFinal
  <2> QED BY <1>3, <1>6, <2>1
<1>11. ASSUME NEW e \in Listed \ spoilt' PROVE Honest(e, dl[e], path', file', remote[e])
  <2>1. e \in Downloads \ {d} /\ e \in Listed \ spoilt
    BY <1>1, <1>4
  <2>2. Honest(e, dl[e], path, file, remote[e])
    BY <2>1 DEF Faithful
  <2> QED BY <1>7, <1>10, <2>1, <2>2, HonestSame
<1>12. InStep'
  BY <1>1 DEF Faithful, InStep
<1>13. SavedIsThere'
  <2> SUFFICES ASSUME ~up', NEW e \in Downloads \ spoilt' PROVE ~Ahead(e)'
    BY DEF SavedIsThere
  <2>1. e \in Downloads \ {d} /\ e \in Downloads \ spoilt /\ ~up
    BY <1>1
  <2>2. ~Ahead(e)
    BY <2>1 DEF Faithful, SavedIsThere
  <2>3. saved' = saved /\ remote' = remote
    BY <1>1
  <2> QED BY <1>10, <2>1, <2>2, <2>3 DEF Ahead, Whole, OnDisk
<1> QED BY <1>1, <1>4, <1>8, <1>9, <1>11, <1>12, <1>13 DEF Faithful

\* At first there is no download.
LEMMA FaithfulStart == Init => Faithful
<1> SUFFICES ASSUME Init PROVE Faithful
  OBVIOUS
<1>1. Ranges
  BY RangesStart
<1>2. Listed = {} /\ up = TRUE /\ \A d \in Downloads : dl[d] = None /\ saved[d] = None
  BY DEF Init, Listed
<1>3. Owned
  BY <1>2 DEF Init, Owned
<1>4. InStep
  BY <1>2 DEF InStep
<1>5. SavedIsThere
  BY <1>2 DEF SavedIsThere
<1> QED BY <1>1, <1>2, <1>3, <1>4, <1>5 DEF Faithful

\* Every step keeps the invariant.
LEMMA FaithfulStep ==
  ASSUME Faithful, Orderly, [Next]_vars
  PROVE  Faithful'
<1>0. Ranges /\ Ranges'
  BY RangesStep DEF Faithful
<1>1. CASE User
  <2>1. CASE \E d \in Downloads, size \in Sizes, kind \in Servers : AddDownload(d, size, kind)
    BY <1>0, <2>1, AddDownloadFaithful
  <2>2. ASSUME NEW d \in Downloads, NEW left \in Nat, Pause(d, left) PROVE Faithful'
    BY <1>0, <2>2, PauseFaithful
  <2>3. ASSUME NEW d \in Downloads, NEW left \in Nat, NEW opens \in Opens, NEW inUse \in InUse(d),
               Resume(d, opens, inUse, left)
        PROVE  Faithful'
    BY <1>0, <2>3, ResumeFaithful
  <2>4. ASSUME NEW d \in Downloads, NEW left \in Nat, NEW deleteFiles \in Deletes,
               Remove(d, deleteFiles, left)
        PROVE  Faithful'
    BY <1>0, <2>4, RemoveFaithful
  <2> QED BY <1>0, <1>1, <2>1, <2>2, <2>3, <2>4, LeftsAre DEF User
<1>2. ASSUME NEW d \in Downloads, Answer(d) PROVE Faithful'
  <2>1. ASSUME NEW left \in Nat, NEW opens \in Opens, NEW inUse \in InUse(d),
               ProbeFinished(d, opens, inUse, left)
        PROVE  Faithful'
    BY <1>0, <2>1, ProbeFinishedFaithful
  <2>2. ASSUME NEW left \in Nat, ProbeFails(d, left) PROVE Faithful'
    <3>1. d \in Listed /\ dl[d].state # "Completed" /\ Becomes(d, Failing(At(d), left))
      BY <2>2 DEF ProbeFails, Listed
    <3> QED BY <1>0, <3>1, FailureFaithful
  <2>3. ASSUME NEW i \in 1..Conns, NEW n \in 1..MaxChunk, NEW body \in {"data", "error"},
               NEW left \in Nat, ReadyRead(d, i, n, body, left)
        PROVE  Faithful'
    BY <1>0, <2>3, ReadyReadFaithful
  <2>4. ASSUME NEW left \in Nat, NEW i \in 1..Conns,
               WriteFails(d, i, left) \/ SegmentFails(d, i, left)
        PROVE  Faithful'
    <3>1. d \in Listed /\ dl[d].state # "Completed" /\ Becomes(d, Failing(At(d), left))
      BY <2>4 DEF WriteFails, SegmentFails, Fetching, Listed
    <3> QED BY <1>0, <3>1, FailureFaithful
  <2>5. ASSUME NEW left \in Nat, NEW i \in 1..Conns, NEW inUse \in InUse(d),
               SegmentFinished(d, i, inUse, left)
        PROVE  Faithful'
    BY <1>0, <2>5, SegmentFinishedFaithful
  <2>6. Lefts(Waiting(d)) \subseteq Nat /\ \A n \in 1..MaxChunk : Lefts(n) \subseteq Nat
    BY <1>0, LeftsAre DEF Lefts
  <2> QED BY <1>2, <2>1, <2>2, <2>3, <2>4, <2>5, <2>6 DEF Answer
<1>3. ASSUME NEW d \in Downloads, Sampler(d) PROVE Faithful'
  BY <1>0, <1>3, TimePassesFaithful, StalledFaithful, LeftsAre DEF Sampler, GivesUp
<1>4. ASSUME NEW d \in Downloads, PartDeleted(d) PROVE Faithful'
  BY <1>0, <1>4, PartDeletedFaithful
<1>5. CASE Program
  <2>1. CASE Save
    BY <1>0, <2>1, SaveFaithful
  <2>2. ASSUME NEW left \in [Downloads -> Lefts(MaxChunk)], Quit(left) PROVE Faithful'
    <3>1. Lefts(MaxChunk) \subseteq Nat
      BY BoundAssumption DEF Lefts
    <3>2. left \in [Downloads -> Nat]
      BY <3>1
    <3> QED BY <1>0, <2>2, <3>2, QuitFaithful
  <2>3. ASSUME NEW left, Crash(left) PROVE Faithful'
    BY <1>0, <2>3, CrashFaithful
  <2>4. CASE Launch
    BY <1>0, <2>4, LaunchFaithful
  <2> QED BY <1>5, <2>1, <2>2, <2>3, <2>4 DEF Program
<1>6. CASE UNCHANGED vars
  <2>1. /\ up' = up /\ dl' = dl /\ saved' = saved /\ saveDue' = saveDue /\ path' = path
        /\ file' = file /\ remote' = remote /\ spoilt' = spoilt
    BY <1>6 DEF vars
  <2> QED BY <1>0, <2>1, QuietFaithful
<1> QED BY <1>1, <1>2, <1>3, <1>4, <1>5, <1>6 DEF Next

\* The invariant holds in every reachable state.
LEMMA FaithfulHolds ==
  ASSUME Orderly
  PROVE  Spec => []Faithful
<1>1. Faithful /\ [Next]_vars => Faithful'
  BY FaithfulStep
<1> QED BY <1>1, FaithfulStart, PTL DEF Spec

\* Where servers honour ranges and send no error pages as data, and names differ:
\* whatever fails, is stopped, exits or crashes, the offsets from which a download
\* would go on are never ahead of its file, and what the sidecar says is on the
\* disk while the program does not run; except for a download whose .part file was
\* deleted, that a crash caught ahead of the disk, or whose file was closed while the
\* disk was full, with counted bytes unwritten (onSegmentReadyRead, save, restoreState).
THEOREM CountedHolds ==
  ASSUME Orderly
  PROVE  Spec => []CountedIsThere
<1>1. ASSUME Faithful PROVE CountedIsThere
  <2>1. ASSUME NEW d \in Listed \ spoilt, dl[d].state # "Completed"
        PROVE  Right(InHand(d), dl[d].segs)
    <3>1. Right(Held(dl[d], path[Part(d)], file), dl[d].segs)
      BY <1>1, <2>1 DEF Faithful, Honest
    <3>2. InHand(d) = Held(dl[d], path[Part(d)], file)
      BY DEF InHand, Held, OnDisk
    <3> QED BY <3>1, <3>2
  <2> QED BY <1>1, <2>1 DEF CountedIsThere, ReceivedIsThere, Faithful, Ranges
<1> QED BY <1>1, FaithfulHolds, PTL

\* There, what a download calls completed is byte for byte what the server has,
\* with the same three exceptions (maybeComplete and everything that leads to it).
THEOREM CompletedWhole ==
  ASSUME Orderly
  PROVE  Spec => []WholeUnlessSpoilt
<1>1. ASSUME Faithful PROVE WholeUnlessSpoilt
  BY <1>1 DEF Faithful, Honest, WholeUnlessSpoilt, Whole
<1> QED BY <1>1, FaithfulHolds, PTL
=============================================================================
