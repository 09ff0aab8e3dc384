---------------------------- MODULE HttpDownload ----------------------------
(***************************************************************************)
(* Direct downloads: HttpDownload (probe, ranged requests into a .part     *)
(* file, rename) and HttpDownloadManager (the list and its sidecar file),  *)
(* with the server, the disk, the user, exits and crashes around them.     *)
(*                                                                         *)
(* Data left out: a byte is its position in the server's file, so that a   *)
(* byte is right where it is its own position.  The name that a            *)
(* Content-Disposition gives, rates, and the address are left out.  Every  *)
(* write waits in QFile's buffer until the next seek, flush or close; one  *)
(* that goes past the buffer is a crash that loses nothing.  A full disk   *)
(* leaves the last bytes of the buffer there, and what a write of its own  *)
(* left behind before it failed is fetched again.                          *)
(***************************************************************************)
EXTENDS RangePlan, Sequences, FiniteSets, Functions

CONSTANTS
  Downloads, \* ids
  FileName,  \* the name that each download saves to
  Conns,     \* m_conns (4 in the code)
  Servers,   \* how servers answer: "ranges", "whole" (no ranges), "unsized"
  Sizes,     \* bound: the sizes of the files that servers have
  MaxChunk,  \* bound: bytes that arrive at once
  Inodes,    \* bound: files on the disk
  None,      \* nothing: no download, reply, file or buffer
  Ops        \* the operations and faults that a run exercises

ASSUME BoundAssumption == Conns \in Int /\ Sizes \subseteq Nat \ {0} /\ MaxChunk \in Nat \ {0}
ASSUME NameAssumption == DOMAIN FileName = Downloads
ASSUME ServerAssumption == Servers \subseteq {"ranges", "whole", "unsized"}

Hole == -1   \* a byte that was never written
Junk == -2   \* a byte of an error page

VARIABLES
  up,       \* the program runs
  dl,       \* m_items: each download's fields, or None
  saved,    \* the sidecar's entry for each download, or None
  saveDue,  \* m_saveTimer is active
  path,     \* the disk's directory: which file has a name
  file,     \* what the files hold
  remote,   \* the server that a download talks to
  spoilt    \* history: downloads whose .part file somebody deleted, which a crash
            \* left with a sidecar that is ahead of the disk, or whose file was
            \* closed with bytes in its buffer that found no room

vars == <<up, dl, saved, saveDue, path, file, remote, spoilt>>

\* received: bytes written for the range.  reply: the request in flight, the
\* next byte that it brings, the byte it ends before, and what it has brought.
Reply == [at : Nat, upto : Nat, body : {"none", "data", "error"}]
Segment == [start : Nat, end : {-1} \cup Nat, received : Nat, reply : Reply \cup {None}]

\* What the open file has not written yet, and where it goes
Buffer == [at : Nat, bytes : Seq({Junk} \cup Nat) \ {<<>>}]

\* The fields of HttpDownload; quiet: no byte came for 30 s; kicked: m_stallRetried
Download ==
  [state : {"Probing", "Downloading", "Paused", "Completed", "Failed"},
   total : {-1} \cup Nat, ranges : BOOLEAN, segs : Seq(Segment),
   inode : Inodes \cup {None}, buffer : Buffer \cup {None},
   quiet : BOOLEAN, kicked : BOOLEAN]

\* A download in the sidecar, and the server of one
Saved ==
  [state : {"Paused", "Completed"}, total : {-1} \cup Nat, ranges : BOOLEAN,
   segs : Seq(Segment)]
Remote == [size : Sizes, kind : Servers]

ASSUME NoneAssumption ==
  None \notin Inodes \cup Reply \cup Buffer \cup Download \cup Saved \cup Remote

\* There is always room for another file: a download has at most two names and
\* one file open that has lost its name.
ASSUME DiskAssumption ==
  /\ IsFiniteSet(Downloads) /\ IsFiniteSet(Inodes)
  /\ Cardinality(Inodes) >= 3 * Cardinality(Downloads)

Listed == {d \in Downloads : dl[d] # None}
Part(d) == <<FileName[d], "part">>
Final(d) == <<FileName[d], "final">>
Paths == Range(FileName) \X {"part", "final"}

Done(s) == s.received >= s.end - s.start + 1
AllDone(segs) == \A i \in DOMAIN segs : Done(segs[i])

Init ==
  /\ up = TRUE
  /\ dl = [d \in Downloads |-> None]
  /\ saved = [d \in Downloads |-> None]
  /\ saveDue = FALSE
  /\ path = [p \in Paths |-> None]
  /\ file = [i \in Inodes |-> <<>>]
  /\ remote = [d \in Downloads |-> None]
  /\ spoilt = {}

-----------------------------------------------------------------------------
(* A handler works on one download r and on the disk: a situation.  The    *)
(* operators below are its steps, from one situation to the next.  lost:   *)
(* the handler closed the file before its buffer was empty.                *)

At(d) == [r |-> dl[d], path |-> path, file |-> file, lost |-> FALSE]

\* What is in no directory and open nowhere is gone.
Kept(f, names, downloads) ==
  [i \in Inodes |-> IF \/ i \in Range(names)
                       \/ \E d \in Downloads : downloads[d] # None /\ downloads[d].inode = i
                    THEN f[i] ELSE <<>>]

\* setState and fail start the timer of the sidecar.
Becomes(d, s) ==
  /\ dl' = [dl EXCEPT ![d] = s.r]
  /\ path' = s.path
  /\ file' = Kept(s.file, s.path, dl')
  /\ saveDue' = (saveDue \/ s.r.state # dl[d].state \/ s.r.state = "Failed")
  /\ spoilt' = IF s.lost THEN spoilt \cup {d} ELSE spoilt
  /\ UNCHANGED <<up, saved, remote>>

\* A file is a function from its positions; a write past the end leaves holes.
Written(content, at, bytes) ==
  [p \in DOMAIN content \cup 0 .. (at + Len(bytes) - 1) |->
     IF p >= at /\ p < at + Len(bytes) THEN bytes[p - at + 1]
     ELSE IF p \in DOMAIN content THEN content[p] ELSE Hole]

Resized(content, total) ==
  [p \in 0 .. (total - 1) |-> IF p \in DOMAIN content THEN content[p] ELSE Hole]

\* The last `left` bytes of the buffer find no room: what did not go out stays in
\* the buffer, to go out with the next seek, flush or close.
Flushed(s, left) ==
  IF s.r.buffer = None \/ left >= Len(s.r.buffer.bytes) THEN s
  ELSE LET b == s.r.buffer
           fits == Len(b.bytes) - left
       IN  [s EXCEPT !.file[s.r.inode] = Written(@, b.at, SubSeq(b.bytes, 1, fits)),
                     !.r.buffer = IF left = 0 THEN None
                                  ELSE [at |-> b.at + fits,
                                        bytes |-> SubSeq(b.bytes, fits + 1, Len(b.bytes))]]

\* close() says nothing of a flush that failed, and its buffer is gone.
Closed(s, left) ==
  LET f == Flushed(s, left)
  IN  [f EXCEPT !.r.inode = None, !.r.buffer = None, !.lost = @ \/ f.r.buffer # None]

Aborted(segs) == [i \in DOMAIN segs |-> [segs[i] EXCEPT !.reply = None]]

\* abortReplies.  A reply that is aborted says finished() at once, but its
\* range has forgotten it by then.
Failing(s, left) ==
  [Closed(s, left) EXCEPT !.r.segs = Aborted(@), !.r.state = "Failed"]

Free == CHOOSE i \in Inodes : i \notin Range(path)
                              /\ \A d \in Listed : dl[d].inode # i

Opened(d, s) ==
  IF s.r.inode # None THEN s
  ELSE LET i == IF s.path[Part(d)] # None THEN s.path[Part(d)] ELSE Free
           c == IF s.r.total > 0 THEN Resized(s.file[i], s.r.total) ELSE s.file[i]
       IN  [s EXCEPT !.r.inode = i, !.path[Part(d)] = i, !.file[i] = c]

\* Mutant: a request starts where its range does.
RequestFromStart(d, r, s) ==
  IF s.reply # None \/ Done(s) THEN s
  ELSE IF r.ranges /\ s.end >= 0
  THEN [s EXCEPT !.reply = [at |-> s.start, upto |-> s.end + 1, body |-> "none"]]
  ELSE [s EXCEPT !.reply = [at |-> 0, upto |-> remote[d].size, body |-> "none"]]

\* spawnSegment.  Without a Range header the server sends its file from the start.
Request(d, r, s) ==
  IF s.reply # None \/ Done(s) THEN s
  ELSE IF r.ranges /\ s.end >= 0
  THEN [s EXCEPT !.reply = [at |-> s.start + s.received, upto |-> s.end + 1, body |-> "none"]]
  ELSE [s EXCEPT !.reply = [at |-> 0, upto |-> remote[d].size, body |-> "none"]]

Requested(d, s) ==
  [s EXCEPT !.r.segs = [i \in DOMAIN s.r.segs |-> Request(d, s.r, s.r.segs[i])]]

receivedBytes(segs) == FoldFunction(LAMBDA s, n : s.received + n, 0, segs)

\* maybeComplete.  It goes by the counts: a request that has brought all of its
\* own and has not finished yet is ignored from then on, and so is a flush that
\* fails.  inUse: another program has the old file open, so that it cannot be removed.
Completing(d, s, inUse, left) ==
  IF ~AllDone(s.r.segs) THEN s
  ELSE LET c == Closed(s, left)
       IN  IF s.r.total > 0 /\ receivedBytes(s.r.segs) # s.r.total THEN Failing(c, left)
           ELSE IF inUse THEN Failing(c, left)
           ELSE IF s.path[Part(d)] = None THEN Failing([c EXCEPT !.path[Final(d)] = None], left)
           ELSE [c EXCEPT !.path[Final(d)] = c.path[Part(d)], !.path[Part(d)] = None,
                          !.r.segs = Aborted(@), !.r.state = "Completed"]

\* beginSegments
Beginning(d, s, opens, inUse, left) ==
  IF s.r.inode = None /\ ~opens THEN Failing(s, left)
  ELSE LET o == [Opened(d, s) EXCEPT !.r.state = "Downloading", !.r.kicked = FALSE]
       IN  Completing(d, Requested(d, o), inUse, left)

\* start(): the probe is left out when the ranges are known.
Starting(d, s, opens, inUse, left) ==
  LET t == [s EXCEPT !.r.quiet = FALSE] IN
  IF s.r.total > 0 /\ s.r.segs # <<>> THEN Beginning(d, t, opens, inUse, left)
  ELSE [t EXCEPT !.r.state = "Probing"]

\* Whether a removal deletes the files.
Deletes == {TRUE} \cup {FALSE : o \in Ops \cap {"keep"}}

\* The faults that a step may meet: open fails, the old file is in use, bytes that
\* wait in the buffer find no room.
Opens == {TRUE} \cup {FALSE : o \in Ops \cap {"openfails"}}
InUse(d) == {FALSE} \cup {TRUE : o \in {o \in Ops : o = "inuse" /\ path[Final(d)] # None}}
Lefts(bytes) == {0} \cup {n \in 1..bytes : "diskfull" \in Ops}
Waiting(d) == IF dl[d] = None \/ dl[d].buffer = None THEN 0 ELSE Len(dl[d].buffer.bytes)

-----------------------------------------------------------------------------
(* The user and the list *)

UserMay(op) == up /\ op \in Ops

\* add(): an id is new, so nothing on the disk remembers it.
AddDownload(d, size, kind) ==
  /\ up
  /\ dl[d] = None /\ saved[d] = None
  /\ remote' = [remote EXCEPT ![d] = [size |-> size, kind |-> kind]]
  /\ dl' = [dl EXCEPT ![d] = [state |-> "Probing", total |-> -1, ranges |-> FALSE,
                             segs |-> <<>>, inode |-> None, buffer |-> None,
                             quiet |-> FALSE, kicked |-> FALSE]]
  /\ saveDue' = TRUE
  /\ spoilt' = spoilt \ {d}
  /\ UNCHANGED <<up, saved, path, file>>

\* pause(): the file stays open, with what its flush could not write.
Pause(d, left) ==
  /\ UserMay("pause")
  /\ dl[d] # None /\ dl[d].state \in {"Downloading", "Probing"}
  /\ Becomes(d, [Flushed(At(d), left) EXCEPT !.r.segs = Aborted(@), !.r.state = "Paused"])

Resume(d, opens, inUse, left) ==
  /\ UserMay("pause")
  /\ dl[d] # None /\ dl[d].state \in {"Paused", "Failed"}
  /\ Becomes(d, Starting(d, At(d), opens, inUse, left))

\* remove(), with cancel(): deleteFiles takes the .part and the finished file.
Remove(d, deleteFiles, left) ==
  /\ UserMay("remove")
  /\ dl[d] # None
  /\ LET c == Closed(At(d), left) IN
       /\ dl' = [dl EXCEPT ![d] = None]
       /\ path' = IF deleteFiles
                   THEN [c.path EXCEPT ![Part(d)] = None, ![Final(d)] = None]
                   ELSE c.path
       /\ file' = Kept(c.file, path', dl')
  /\ remote' = [remote EXCEPT ![d] = IF saved[d] = None THEN None ELSE @]
  /\ spoilt' = IF saved[d] = None THEN spoilt \ {d} ELSE spoilt
  /\ saveDue' = TRUE
  /\ UNCHANGED <<up, saved>>

-----------------------------------------------------------------------------
(* The server *)

\* onProbeFinished: the ranges are planned, or there is one stream, whose end
\* is -1 when the size is not known either.
ProbeFinished(d, opens, inUse, left) ==
  /\ up
  /\ dl[d] # None /\ dl[d].state = "Probing"
  /\ LET total == IF remote[d].kind = "unsized" THEN -1 ELSE remote[d].size
         plan == IF remote[d].kind = "ranges" THEN planSegments(total, Conns)
                 ELSE <<[start |-> 0, end |-> IF total > 0 THEN total - 1 ELSE -1]>>
         segs == [i \in DOMAIN plan |-> [start |-> plan[i].start, end |-> plan[i].end,
                                        received |-> 0, reply |-> None]]
     IN  Becomes(d, Beginning(d, [At(d) EXCEPT !.r.total = total, !.r.segs = segs,
                                               !.r.ranges = remote[d].kind = "ranges"],
                              opens, inUse, left))

ProbeFails(d, left) ==
  /\ up /\ "fail" \in Ops
  /\ dl[d] # None /\ dl[d].state = "Probing"
  /\ Becomes(d, Failing(At(d), left))

Fetching(d, i) ==
  /\ up
  /\ dl[d] # None /\ dl[d].state = "Downloading"
  /\ i \in DOMAIN dl[d].segs /\ dl[d].segs[i].reply # None

\* onSegmentReadyRead, for n bytes of the file or of an error page.  The seek
\* flushes what the write before it left in the buffer.
ReadyRead(d, i, n, body, left) ==
  /\ Fetching(d, i)
  /\ LET seg == dl[d].segs[i]
         q == seg.reply
         bytes == [k \in 1..n |-> IF body = "data" THEN q.at + k - 1 ELSE Junk]
         s == [Flushed(At(d), 0) EXCEPT
                 !.r.buffer = [at |-> seg.start + seg.received, bytes |-> bytes],
                 !.r.segs[i] = [seg EXCEPT !.received = @ + n,
                                           !.reply = [q EXCEPT !.at = @ + n, !.body = body]],
                 !.r.quiet = FALSE]
     IN  /\ q.body \in {"none", body}
         /\ body = "data" => q.at + n <= q.upto
         /\ body = "error" => "errorpage" \in Ops /\ q.body = "none"
         /\ Becomes(d, IF seg.end >= 0 /\ seg.start + seg.received + n > seg.end + 1
                       THEN Failing(s, left) ELSE s)

\* Mutant: what could not be written counts as received.
WriteFailsCounted(d, i, left) ==
  /\ "diskfull" \in Ops
  /\ Fetching(d, i)
  /\ Becomes(d, Failing([At(d) EXCEPT !.r.segs[i].received = @ + 1], left))

\* The disk is full.  Nothing of the chunk counts; but when it is the seek that
\* fails, on the chunk before it, that one was counted.
WriteFails(d, i, left) ==
  /\ "diskfull" \in Ops
  /\ Fetching(d, i)
  /\ Becomes(d, Failing(At(d), left))

\* onSegmentFinished without an error: everything came, or the server sent a
\* shorter range than it was asked for.
SegmentFinished(d, i, inUse, left) ==
  /\ Fetching(d, i)
  /\ LET seg == dl[d].segs[i]
         s == [At(d) EXCEPT !.r.segs[i].reply = None]
     IN  /\ seg.reply.body # "error"
         /\ seg.reply.at = seg.reply.upto \/ "short" \in Ops
         /\ Becomes(d, Completing(d,
              IF dl[d].total <= 0 /\ seg.end < 0
              THEN [s EXCEPT !.r.total = seg.received, !.r.segs[i].end = seg.received - 1]
              ELSE s, inUse, left))

\* onSegmentFinished with an error.
SegmentFails(d, i, left) ==
  /\ "fail" \in Ops \/ (Fetching(d, i) /\ dl[d].segs[i].reply.body = "error")
  /\ Fetching(d, i)
  /\ Becomes(d, Failing(At(d), left))

-----------------------------------------------------------------------------
(* The sampler *)

\* 30 s without a byte.
TimePasses(d) ==
  /\ up
  /\ dl[d] # None /\ dl[d].state = "Downloading" /\ ~dl[d].quiet
  /\ dl' = [dl EXCEPT ![d].quiet = TRUE]
  /\ UNCHANGED <<up, saved, saveDue, path, file, remote, spoilt>>

\* Mutant: the download is given another chance every time.
StalledKicksOn(d, left) ==
  /\ up
  /\ dl[d] # None /\ dl[d].state = "Downloading" /\ dl[d].quiet
  /\ Becomes(d, [Requested(d, At(d)) EXCEPT !.r.quiet = FALSE])

\* Once per start, the ranges without a request ask again; then it fails.
Stalled(d, left) ==
  /\ up
  /\ dl[d] # None /\ dl[d].state = "Downloading" /\ dl[d].quiet
  /\ Becomes(d, IF dl[d].kicked THEN Failing(At(d), left)
                ELSE [Requested(d, At(d)) EXCEPT !.r.kicked = TRUE, !.r.quiet = FALSE])

-----------------------------------------------------------------------------
(* The sidecar, exits and crashes *)

OnDisk(d) == IF path[Part(d)] = None THEN <<>> ELSE file[path[Part(d)]]

\* toState: a download in flight is paused.
Entry(r) ==
  [total |-> r.total, ranges |-> r.ranges, segs |-> Aborted(r.segs),
   state |-> IF r.state = "Completed" THEN "Completed" ELSE "Paused"]

Entries == [d \in Downloads |-> IF dl[d] = None THEN None ELSE Entry(dl[d])]

Save ==
  /\ up /\ saveDue
  /\ saved' = Entries
  /\ saveDue' = FALSE
  /\ remote' = [d \in Downloads |-> IF dl[d] = None THEN None ELSE remote[d]]
  /\ UNCHANGED <<up, dl, path, file, spoilt>>

Right(content, segs) ==
  \A i \in DOMAIN segs : \A p \in segs[i].start .. (segs[i].start + segs[i].received - 1) :
    p \in DOMAIN content /\ content[p] = p

Whole(d) ==
  LET f == path[Final(d)] IN f # None /\ file[f] = [p \in 0 .. (remote[d].size - 1) |-> p]

\* The sidecar would go on from bytes that the .part file does not have, or
\* calls a file complete that is not there.
Ahead(d) ==
  saved[d] # None /\ ~IF saved[d].state = "Completed" THEN Whole(d)
                      ELSE Right(OnDisk(d), saved[d].segs)

\* Every open file is closed; of its buffer, all but the last left[d] bytes are written.
Stopped(left) ==
  /\ up' = FALSE
  /\ saveDue' = FALSE
  /\ dl' = [d \in Downloads |-> None]
  /\ LET Buffered == {d \in Listed : dl[d].buffer # None}
         After(i) == IF \E d \in Buffered : dl[d].inode = i
                     THEN LET d == CHOOSE d \in Buffered : dl[d].inode = i
                          IN  Flushed(At(d), left[d]).file[i]
                     ELSE file[i]
     IN  file' = Kept([i \in Inodes |-> After(i)], path, dl')
  /\ UNCHANGED <<path, remote>>

\* Downloads whose file is closed before its buffer is empty
Losing(left) == {d \in Listed : dl[d].buffer # None /\ left[d] > 0}

\* ~HttpDownloadManager, and the files of its downloads with it.
Quit(left) ==
  /\ UserMay("quit")
  /\ saved' = IF saveDue THEN Entries ELSE saved
  /\ Stopped(left)
  /\ spoilt' = spoilt \cup Losing(left)

\* Nothing waits in a buffer when the last chunk was too large for it.
Crash(left) ==
  /\ UserMay("crash")
  /\ Stopped(left)
  /\ UNCHANGED saved
  /\ spoilt' = spoilt \cup {d \in Downloads : Ahead(d)'}

\* load(), restoreState
Launch ==
  /\ ~up
  /\ up' = TRUE
  /\ dl' = [d \in Downloads |->
              IF saved[d] = None THEN None
              ELSE [state |-> saved[d].state, total |-> saved[d].total,
                    ranges |-> saved[d].ranges, segs |-> saved[d].segs, inode |-> None,
                    buffer |-> None, quiet |-> FALSE, kicked |-> FALSE]]
  /\ remote' = [d \in Downloads |-> IF saved[d] = None THEN None ELSE remote[d]]
  /\ UNCHANGED <<saved, saveDue, path, file, spoilt>>

\* Somebody deletes the .part file.
PartDeleted(d) ==
  /\ "unlink" \in Ops
  /\ path[Part(d)] # None
  /\ path' = [path EXCEPT ![Part(d)] = None]
  /\ file' = Kept(file, path', dl)
  /\ spoilt' = spoilt \cup {d}
  /\ UNCHANGED <<up, dl, saved, saveDue, remote>>

User ==
  \/ \E d \in Downloads, size \in Sizes, kind \in Servers : AddDownload(d, size, kind)
  \/ \E d \in Downloads : \E left \in Lefts(Waiting(d)) :
       \/ Pause(d, left)
       \/ \E opens \in Opens, inUse \in InUse(d) : Resume(d, opens, inUse, left)
       \/ \E deleteFiles \in Deletes : Remove(d, deleteFiles, left)

Answer(d) ==
  \/ \E left \in Lefts(Waiting(d)) :
       \/ \E opens \in Opens, inUse \in InUse(d) : ProbeFinished(d, opens, inUse, left)
       \/ ProbeFails(d, left)
       \/ \E i \in 1..Conns :
            \/ WriteFails(d, i, left)
            \/ \E inUse \in InUse(d) : SegmentFinished(d, i, inUse, left)
            \/ SegmentFails(d, i, left)
  \/ \E i \in 1..Conns, n \in 1..MaxChunk, body \in {"data", "error"} :
       \E left \in Lefts(n) : ReadyRead(d, i, n, body, left)

GivesUp(d) == \E left \in Lefts(Waiting(d)) : Stalled(d, left)
Sampler(d) == TimePasses(d) \/ GivesUp(d)

Program ==
  \/ Save \/ Launch
  \/ \E left \in [Downloads -> Lefts(MaxChunk)] :
       (\A d \in Downloads : left[d] <= Waiting(d)) /\ Quit(left)
  \/ \E left \in [Downloads -> 0 .. MaxChunk] :
       (\A d \in Downloads : left[d] \in {0, Waiting(d)}) /\ Crash(left)

Next ==
  \/ User
  \/ \E d \in Downloads : Answer(d) \/ Sampler(d) \/ PartDeleted(d)
  \/ Program

Spec == Init /\ [][Next]_vars

\* The sampler is a timer of 1 s that runs as long as the download does.
Fairness == \A d \in Downloads : WF_vars(TimePasses(d)) /\ WF_vars(GivesUp(d))

FairSpec == Spec /\ Fairness

-----------------------------------------------------------------------------
(* Properties *)

\* The state, its invariants of type: a range's request is open only while its
\* download runs, and what waits in a buffer has a file to go to.
TypeOK ==
  /\ up \in BOOLEAN /\ saveDue \in BOOLEAN
  /\ dl \in [Downloads -> Download \cup {None}]
  /\ saved \in [Downloads -> Saved \cup {None}]
  /\ remote \in [Downloads -> Remote \cup {None}]
  /\ spoilt \subseteq Downloads
  /\ path \in [Paths -> Inodes \cup {None}]
  /\ DOMAIN file = Inodes
  /\ ~up => Listed = {} /\ ~saveDue
  /\ \A d \in Listed :
       /\ \A i \in DOMAIN dl[d].segs :
            dl[d].segs[i].reply # None => dl[d].state = "Downloading"
       /\ dl[d].buffer # None => dl[d].inode # None

InHand(d) ==
  IF dl[d].inode = None THEN OnDisk(d)
  ELSE IF dl[d].buffer = None THEN file[dl[d].inode]
  ELSE Written(file[dl[d].inode], dl[d].buffer.at, dl[d].buffer.bytes)

\* What a download calls completed is, under its final name, byte for byte what
\* the server has, unless its .part file was deleted, a crash left the sidecar ahead
\* of it, or the file was closed while the disk was full, with bytes of it that were
\* counted and not written (maybeComplete and everything that leads to it).
WholeUnlessSpoilt ==
  \A d \in Listed \ spoilt : dl[d].state = "Completed" => Whole(d)

\* Without exception (httpdownload.cpp:266-267, "a truncated download or an HTML
\* error page (200) must not be renamed to the real name").
CompletedIsWhole == \A d \in Listed : dl[d].state = "Completed" => Whole(d)

\* The offsets from which an unfinished download would go on are never ahead of
\* what it has written or is about to write, whatever failed or was stopped, and also
\* when the disk was full in a pause (onSegmentReadyRead, fail, pause, restoreState);
\* except when what the disk did not take was given up with the file.
ReceivedIsThere ==
  \A d \in Listed \ spoilt : dl[d].state # "Completed" => Right(InHand(d), dl[d].segs)

\* Not kept by the code: the offsets are never ahead (httpdownload.h:10-11,
\* "resumable across restarts via the per-segment received offsets").
ReceivedStays ==
  \A d \in Listed : dl[d].state # "Completed" => Right(InHand(d), dl[d].segs)

\* When the program is not running, the sidecar is not ahead of the disk: what
\* it says of an unfinished download is in the .part file, and the file of a
\* finished one is there (save, toState, ~HttpDownloadManager).
SavedIsThere == ~up => \A d \in Downloads \ spoilt : ~Ahead(d)

\* The ranges of a download are side by side and cover the file: no byte is
\* fetched twice and none is left out (planSegments, restoreState).
SegmentsTile ==
  \A d \in Listed : dl[d].total > 0 /\ dl[d].segs # <<>> => Tiles(dl[d].segs, dl[d].total)

\* A download that failed can still be completed: not every range is done with
\* the wrong number of bytes, which every resume would find again (maybeComplete).
FailedCanGoOn ==
  \A d \in Listed : dl[d].state = "Failed" /\ dl[d].total > 0 /\ AllDone(dl[d].segs) =>
    receivedBytes(dl[d].segs) = dl[d].total

\* A download does not stay in its running state for ever: it completes, is
\* stopped, or the sampler gives it up (the stall detection of start()).
InFlight(d) == dl[d] # None /\ dl[d].state = "Downloading"
FetchEnds == \A d \in Downloads : InFlight(d) ~> ~InFlight(d)

\* Nor does it stay in its probe for ever.
ProbeEnds ==
  \A d \in Downloads :
    (dl[d] # None /\ dl[d].state = "Probing") ~> ~(dl[d] # None /\ dl[d].state = "Probing")

\* In every state the bytes that are counted, in memory and in what an exit saves,
\* are in the file.
CountedIsThere == TypeOK /\ ReceivedIsThere /\ SavedIsThere
=============================================================================
