---------------------------- MODULE MCPlayerProofs ----------------------------
(***************************************************************************)
(* What MCSession promises of the player, for every value of its           *)
(* constants: the feed that the decoder reads, the frames that it shows,   *)
(* the commands that it is given, and the window that watches for a file   *)
(* to play.  The theorem is one, over the invariants of the four           *)
(* components, which MediaFeed, MediaRing, MediaControl and WatchDesk      *)
(* state.  v1, v2, ... are the variables of MCSession, in the order in     *)
(* which each component declares its own; the head of each section names   *)
(* them.                                                                   *)
(***************************************************************************)
EXTENDS MCSession, SequenceTheorems, FiniteSetTheorems, WellFoundedInduction, TLAPS

-----------------------------------------------------------------------------
(* MediaFeed: v1 at, v2 question, v3 answer, v4 failed, v5 buf, v6 reader, v7 reply,
   v8 retried, v9 ends *)

\* At the start there is no question, no reply, and an empty buffer.
LEMMA FeedInit ==
  ASSUME Feed!Init
  PROVE  Feed!FeedInv
<1>. USE MediaAssumption DEF Feed!Init
<1>1. Feed!TypeOK
  <2>1. /\ 0 \in 0 .. MediaSize /\ 0 \in 0 .. MediaWindow /\ 0 \in 0 .. ReadAhead
        /\ -1 \in -1 .. MediaSize
    OBVIOUS
  <2>2. 0 \in 0 .. EarlyEnds
    OBVIOUS
  <2>. QED BY <2>1, <2>2 DEF Feed!TypeOK, Feed!NoReply, Feed!Questions, Feed!Buffers,
    Feed!Replies, Feed!Answers
<1>2. Feed!AnswersAreTrue
  BY DEF Feed!AnswersAreTrue
<1>3. Feed!BufferIsTrue
  BY DEF Feed!BufferIsTrue, Feed!NoReply, Feed!BufEnd
<1>. QED BY <1>1, <1>2, <1>3 DEF Feed!FeedInv

\* Trimming takes the same from the start, the length and the place the bytes are from.
LEMMA TrimKeeps ==
  ASSUME NEW b \in Feed!Buffers,
         b.start + b.len <= MediaSize, b.len > 0 => b.real = b.start,
         NEW readerAt \in 0 .. MediaSize, NEW q \in Feed!Questions
  PROVE  \E t \in Feed!Buffers :
           /\ t = Feed!Trimmed(b, readerAt, q)
           /\ t.start + t.len = b.start + b.len
           /\ t.real = t.start <=> b.real = b.start
           /\ t.len > 0 => b.len > 0
<1>. DEFINE keepFrom == IF q = Feed!No THEN readerAt - KeepBehind
                        ELSE Feed!Lesser(readerAt - KeepBehind, q.offset)
            drop == Feed!Lesser(Feed!Greater(keepFrom - b.start, 0), b.len)
            t == Feed!Trimmed(b, readerAt, q)
<1>1. keepFrom \in Int
  BY MediaAssumption DEF Feed!Lesser, Feed!Questions
<1>2. b.start \in 0 .. MediaSize /\ b.len \in 0 .. MediaWindow /\ b.real \in 0 .. MediaSize
  BY DEF Feed!Buffers, Feed!Replies, Feed!Answers
<1>3. drop \in 0 .. b.len
  <2>. HIDE DEF keepFrom
  <2>. QED BY <1>1, <1>2, MediaAssumption DEF Feed!Lesser, Feed!Greater
<1>4. t = b \/ t = [start |-> b.start + drop, len |-> b.len - drop, real |-> b.real + drop]
  BY DEF Feed!Trimmed
<1>. HIDE DEF keepFrom, drop, t
<1>5. CASE t = b
  BY <1>2, <1>5 DEF t
<1>6. CASE t = [start |-> b.start + drop, len |-> b.len - drop, real |-> b.real + drop]
  <2>1. /\ t.start = b.start + drop /\ t.len = b.len - drop /\ t.real = b.real + drop
    BY <1>6
  <2>2. t.len > 0 => b.len > 0
    BY <1>2, <1>3, <2>1, MediaAssumption
  <2>3. b.start + drop \in 0 .. MediaSize /\ b.len - drop \in 0 .. MediaWindow
    BY <1>2, <1>3, MediaAssumption
  <2>4. b.real + drop \in 0 .. MediaSize
    BY <1>2, <1>3, MediaAssumption
  <2>5. t.start + t.len = b.start + b.len /\ (t.real = t.start <=> b.real = b.start)
    BY <1>2, <1>3, <2>1, MediaAssumption
  <2>. QED BY <1>6, <2>2, <2>3, <2>4, <2>5 DEF t, Feed!Buffers, Feed!Replies, Feed!Answers
<1>. QED BY <1>4, <1>5, <1>6 DEF t

\* A new reply starts with an empty buffer.
LEMMA Restarted ==
  ASSUME NEW offset \in 0 .. MediaSize - 1, Feed!StreamFrom(offset)
  PROVE  /\ Feed!BufferIsTrue' /\ v6' \in 0 .. MediaSize
         /\ v5' \in Feed!Buffers
         /\ v7' \in Feed!Replies
<1>1. PICK real \in {offset, 0} :
        /\ v7' = [next |-> real, waiting |-> 0, ended |-> FALSE, up |-> TRUE, checked |-> FALSE]
        /\ v5' = [start |-> offset, len |-> 0, real |-> real]
  BY DEF Feed!StreamFrom
<1>2. v6' = offset
  BY DEF Feed!StreamFrom
<1>3. {offset, real, 0} \subseteq 0 .. MediaSize /\ 0 \in 0 .. MediaWindow
  BY MediaAssumption
<1>4. /\ v5'.start = offset /\ v5'.len = 0 /\ v5'.real = real
      /\ v7'.next = real /\ v7'.waiting = 0 /\ v7'.checked = FALSE
  BY <1>1
<1>5. Feed!BufferIsTrue'
  BY <1>3, <1>4 DEF Feed!BufferIsTrue, Feed!BufEnd
<1>. QED BY <1>1, <1>2, <1>3, <1>5 DEF Feed!Buffers, Feed!Replies, Feed!Answers

\* Serving a question keeps all of it, from a buffer that holds what it says and a reply
\* that goes on at its end.
LEMMA Served ==
  ASSUME Feed!FeedInv, NEW q \in Feed!Questions,
         NEW b \in Feed!Buffers,
         NEW r \in Feed!Replies,
         b.start + b.len <= MediaSize, b.len > 0 \/ r.checked => b.real = b.start,
         r.up /\ b.real = b.start => r.next = b.start + b.len + r.waiting,
         Feed!Serve(q, b, r), UNCHANGED <<v1, v9>>
  PROVE  Feed!FeedInv'
<1>. DEFINE there == Feed!Lesser(q.length, Feed!BufEnd(b) - q.offset)
            inside == q # Feed!No /\ q.offset >= b.start /\ q.offset < Feed!BufEnd(b)
<1>0. b.len > 0 => b.real = b.start
  OBVIOUS
<1>1. /\ v1 \in 0 .. MediaSize /\ v6 \in 0 .. MediaSize /\ v3 \in Feed!Answers /\ v4 \in BOOLEAN
      /\ v8 \in -1 .. MediaSize /\ v9 \in 0 .. EarlyEnds /\ Feed!AnswersAreTrue
  BY DEF Feed!FeedInv, Feed!TypeOK
<1>2. Feed!No \in Feed!Questions
  BY DEF Feed!Questions
<1>3. ASSUME q # Feed!No
      PROVE  /\ q.offset \in 0 .. MediaSize - 1 /\ q.length \in 1 .. ReadAhead
             /\ q.offset + q.length <= MediaSize
  BY <1>3 DEF Feed!Questions
<1>4. ASSUME NEW at \in 0 .. MediaSize, NEW asked \in Feed!Questions, v5' = Feed!Trimmed(b, at, asked), v7' = r
      PROVE  v5' \in Feed!Buffers /\ v7' \in Feed!Replies /\ Feed!BufferIsTrue'
  <2>1. \E t \in Feed!Buffers :
          /\ t = Feed!Trimmed(b, at, asked) /\ t.start + t.len = b.start + b.len
          /\ (t.real = t.start <=> b.real = b.start) /\ (t.len > 0 => b.len > 0)
    BY <1>0, <1>4, TrimKeeps
  <2>2. PICK t \in Feed!Buffers :
          /\ v5' = t /\ t.start + t.len = b.start + b.len
          /\ (t.real = t.start <=> b.real = b.start) /\ (t.len > 0 => b.len > 0)
    BY <1>4, <2>1
  <2>. QED BY <1>4, <2>2 DEF Feed!BufferIsTrue, Feed!BufEnd
<1>5. CASE inside
  <2>1. /\ v3' = [offset |-> q.offset, length |-> there, real |-> b.real + (q.offset - b.start)]
        /\ v2' = Feed!No /\ v8' = -1 /\ v6' = q.offset + there
        /\ v5' = Feed!Trimmed(b, v6', Feed!No) /\ v7' = r /\ v4' = v4
    BY <1>5 DEF Feed!Serve
  <2>2. b.start \in 0 .. MediaSize /\ b.len \in 0 .. MediaWindow /\ b.real \in 0 .. MediaSize
    BY DEF Feed!Buffers, Feed!Replies, Feed!Answers
  <2>3. there \in 1 .. ReadAhead /\ q.offset + there <= MediaSize /\ b.len > 0
    BY <1>3, <1>5, <2>2, MediaAssumption DEF Feed!Lesser, Feed!BufEnd
  <2>4. b.real + (q.offset - b.start) = q.offset
    BY <1>3, <1>5, <2>2, <2>3
  <2>. HIDE DEF there
  <2>5. v3' \in Feed!Answers /\ Feed!AnswersAreTrue'
    <3>1. v3'.offset = q.offset /\ v3'.length = there /\ v3'.real = q.offset
      BY <2>1, <2>4
    <3>2. q.offset \in 0 .. MediaSize /\ there \in 0 .. ReadAhead
      BY <1>3, <1>5, <2>3, MediaAssumption
    <3>. QED BY <2>1, <2>3, <2>4, <3>1, <3>2, MediaAssumption DEF Feed!AnswersAreTrue,
      Feed!Buffers, Feed!Replies, Feed!Answers
  <2>6. v6' \in 0 .. MediaSize
    BY <1>3, <1>5, <2>1, <2>3, MediaAssumption
  <2>7. v5' \in Feed!Buffers /\ v7' \in Feed!Replies /\ Feed!BufferIsTrue'
    BY <1>2, <1>4, <2>1, <2>6
  <2>8. -1 \in -1 .. MediaSize
    BY MediaAssumption
  <2>. QED BY <1>1, <1>2, <2>1, <2>5, <2>6, <2>7, <2>8 DEF Feed!FeedInv, Feed!TypeOK
<1>6. CASE ~inside /\ q # Feed!No /\ Feed!Drained(r) /\ v8 # q.offset
  <2>1. v8' = q.offset /\ v2' = q /\ Feed!StreamFrom(q.offset) /\ UNCHANGED <<v3, v4>>
    BY <1>6 DEF Feed!Serve
  <2>2. q.offset \in 0 .. MediaSize - 1 /\ q.offset \in -1 .. MediaSize
    BY <1>3, <1>6, MediaAssumption
  <2>3. Feed!BufferIsTrue' /\ v6' \in 0 .. MediaSize /\ v5' \in Feed!Buffers /\ v7' \in Feed!Replies
    BY <2>1, <2>2, Restarted
  <2>4. Feed!AnswersAreTrue'
    BY <1>1, <2>1 DEF Feed!AnswersAreTrue
  <2>. QED BY <1>1, <2>1, <2>2, <2>3, <2>4 DEF Feed!FeedInv, Feed!TypeOK
<1>7. CASE ~inside /\ (q = Feed!No \/ ~Feed!Drained(r) \/ v8 = q.offset)
  <2>1. /\ v2' \in {q, Feed!No} /\ v4' \in {v4, TRUE} /\ v7' = r /\ UNCHANGED <<v3, v6, v8>>
        /\ \E asked \in {q, Feed!No} : v5' = Feed!Trimmed(b, v6, asked)
    BY <1>7 DEF Feed!Serve
  <2>2. v5' \in Feed!Buffers /\ v7' \in Feed!Replies /\ Feed!BufferIsTrue'
    BY <1>1, <1>2, <1>4, <2>1
  <2>3. Feed!AnswersAreTrue'
    BY <1>1, <2>1 DEF Feed!AnswersAreTrue
  <2>. QED BY <1>1, <1>2, <2>1, <2>2, <2>3 DEF Feed!FeedInv, Feed!TypeOK
<1>. QED BY <1>5, <1>6, <1>7

\* Every step keeps the feed's invariant.
LEMMA FeedSteps ==
  ASSUME Feed!FeedInv, Feed!Next
  PROVE  Feed!FeedInv'
<1>1. /\ Feed!TypeOK /\ Feed!AnswersAreTrue /\ Feed!BufferIsTrue
  BY DEF Feed!FeedInv
<1>2. CASE Feed!Request
  <2>. DEFINE q == [offset |-> v1, length |-> Feed!Lesser(ReadAhead, MediaSize - v1)]
  <2>1. v1 \in 0 .. MediaSize - 1
    BY <1>1, <1>2, MediaAssumption DEF Feed!Request, Feed!TypeOK
  <2>2. q \in Feed!Questions
    <3>1. q.offset = v1 /\ q.length = Feed!Lesser(ReadAhead, MediaSize - v1)
      OBVIOUS
    <3>2. q.length \in 1 .. ReadAhead /\ q.offset + q.length <= MediaSize
      BY <2>1, <3>1, MediaAssumption DEF Feed!Lesser
    <3>. QED BY <2>1, <3>1, <3>2 DEF Feed!Questions
  <2>3. /\ UNCHANGED <<v1, v9>>
        /\ \/ Feed!Serve(q, v5, v7)
           \/ Feed!StreamFrom(v1) /\ v2' = q /\ UNCHANGED <<v3, v4, v8>>
    BY <1>2 DEF Feed!Request
  <2>. HIDE DEF q
  <2>4. CASE Feed!Serve(q, v5, v7)
    BY <1>1, <2>2, <2>3, <2>4, Served DEF Feed!TypeOK, Feed!BufferIsTrue, Feed!BufEnd
  <2>5. CASE Feed!StreamFrom(v1) /\ v2' = q /\ UNCHANGED <<v3, v4, v8>>
    <3>1. Feed!AnswersAreTrue'
      BY <1>1, <2>5 DEF Feed!AnswersAreTrue
    <3>. QED BY <1>1, <2>1, <2>2, <2>3, <2>5, <3>1, Restarted DEF Feed!FeedInv, Feed!TypeOK
  <2>. QED BY <2>3, <2>4, <2>5
<1>3. CASE Feed!OnHttpData
  <2>1. CASE ~Feed!StartsAtBuffer
    <3>1. /\ v7' = Feed!NoReply /\ v2' = Feed!No /\ v4' \in BOOLEAN
          /\ UNCHANGED <<v1, v3, v5, v6, v8, v9>>
      BY <1>1, <1>3, <2>1 DEF Feed!OnHttpData, Feed!TypeOK
    <3>2. Feed!NoReply \in Feed!Replies
      <4>1. 0 \in 0 .. MediaSize /\ 0 \in 0 .. MediaWindow
        BY MediaAssumption
      <4>. QED BY <4>1 DEF Feed!NoReply, Feed!Buffers, Feed!Replies, Feed!Answers
    <3>3. Feed!BufferIsTrue' /\ Feed!AnswersAreTrue'
      BY <1>1, <3>1 DEF Feed!BufferIsTrue, Feed!AnswersAreTrue, Feed!BufEnd, Feed!NoReply
    <3>. QED BY <1>1, <3>1, <3>2, <3>3 DEF Feed!FeedInv, Feed!TypeOK, Feed!Questions
  <2>2. CASE Feed!StartsAtBuffer
    <3>. DEFINE n == Feed!Lesser(MediaWindow - v5.len, v7.waiting)
                b == [v5 EXCEPT !.len = @ + n]
                r == [v7 EXCEPT !.waiting = @ - n, !.checked = TRUE]
    <3>1. Feed!Serve(v2, b, r) /\ UNCHANGED <<v1, v9>> /\ v7.up
      BY <1>3, <2>2 DEF Feed!OnHttpData
    <3>2. /\ v5.start \in 0 .. MediaSize /\ v5.len \in 0 .. MediaWindow
          /\ v5.real \in 0 .. MediaSize
          /\ v7.next \in 0 .. MediaSize /\ v7.waiting \in 0 .. MediaWindow
          /\ v7.ended \in BOOLEAN /\ v7.up \in BOOLEAN
      BY <1>1 DEF Feed!TypeOK, Feed!Buffers, Feed!Replies, Feed!Answers
    <3>3. n \in 0 .. v7.waiting /\ v5.len + n \in 0 .. MediaWindow
      BY <3>2, MediaAssumption DEF Feed!Lesser
    <3>4. v5.real = v5.start /\ v7.next = v5.start + v5.len + v7.waiting
      BY <1>1, <2>2, <3>1 DEF Feed!StartsAtBuffer, Feed!BufferIsTrue, Feed!BufEnd
    <3>5. /\ b.start = v5.start /\ b.len = v5.len + n /\ b.real = v5.real
          /\ b \in Feed!Buffers
      <4>. HIDE DEF n
      <4>. QED BY <1>1, <3>3 DEF Feed!TypeOK, Feed!Buffers, Feed!Replies, Feed!Answers
    <3>6. /\ r.next = v7.next /\ r.waiting = v7.waiting - n /\ r.up = v7.up
          /\ r \in Feed!Replies
      <4>. HIDE DEF n
      <4>1. v7.waiting - n \in 0 .. MediaWindow
        BY <3>2, <3>3, MediaAssumption
      <4>. QED BY <1>1, <4>1 DEF Feed!TypeOK, Feed!Buffers, Feed!Replies, Feed!Answers
    <3>. HIDE DEF n, b, r
    <3>7. b.start + b.len <= MediaSize /\ b.real = b.start /\ r.next = b.start + b.len + r.waiting
      BY <3>2, <3>3, <3>4, <3>5, <3>6, MediaAssumption
    <3>8. v2 \in Feed!Questions
      BY <1>1 DEF Feed!TypeOK
    <3>. QED BY <3>1, <3>5, <3>6, <3>7, <3>8, Served
  <2>. QED BY <2>1, <2>2
<1>4. CASE Feed!BytesArrive
  <2>. DEFINE r == [v7 EXCEPT !.next = @ + 1, !.waiting = @ + 1, !.ended = v7.next + 1 = MediaSize]
  <2>1. /\ v7' = r /\ UNCHANGED <<v1, v2, v3, v4, v5, v6, v8, v9>> /\ v7.waiting < MediaWindow
        /\ v7.next < MediaSize
    BY <1>4 DEF Feed!BytesArrive
  <2>2. /\ v7.next \in 0 .. MediaSize /\ v7.waiting \in 0 .. MediaWindow
    BY <1>1 DEF Feed!TypeOK, Feed!Buffers, Feed!Replies, Feed!Answers
  <2>3. v7.next + 1 \in 0 .. MediaSize /\ v7.waiting + 1 \in 0 .. MediaWindow
    BY <2>1, <2>2, MediaAssumption
  <2>4. /\ r \in Feed!Replies
        /\ r.next = v7.next + 1 /\ r.waiting = v7.waiting + 1 /\ r.up = v7.up
        /\ r.checked = v7.checked
    BY <1>1, <2>3 DEF Feed!TypeOK, Feed!Buffers, Feed!Replies, Feed!Answers
  <2>. HIDE DEF r
  <2>5. v5.start \in 0 .. MediaSize /\ v5.len \in 0 .. MediaWindow
    BY <1>1 DEF Feed!TypeOK, Feed!Buffers, Feed!Replies, Feed!Answers
  <2>6. Feed!BufferIsTrue' /\ Feed!AnswersAreTrue'
    BY <1>1, <2>1, <2>2, <2>4, <2>5 DEF Feed!BufferIsTrue, Feed!AnswersAreTrue, Feed!BufEnd
  <2>. QED BY <1>1, <2>1, <2>4, <2>6 DEF Feed!FeedInv, Feed!TypeOK
<1>5. CASE Feed!ServerEndsReply
  <2>1. /\ v7' = [v7 EXCEPT !.ended = TRUE] /\ UNCHANGED <<v1, v2, v3, v4, v5, v6, v8>>
        /\ v9' = v9 + 1 /\ v9 < EarlyEnds
    BY <1>5 DEF Feed!ServerEndsReply
  <2>2. v9' \in 0 .. EarlyEnds
    BY <1>1, <2>1, MediaAssumption DEF Feed!TypeOK
  <2>3. /\ v7' \in Feed!Replies
        /\ v7'.next = v7.next /\ v7'.waiting = v7.waiting /\ v7'.up = v7.up
        /\ v7'.checked = v7.checked
    BY <1>1, <2>1 DEF Feed!TypeOK, Feed!Buffers, Feed!Replies, Feed!Answers
  <2>4. Feed!BufferIsTrue' /\ Feed!AnswersAreTrue'
    BY <1>1, <2>1, <2>3 DEF Feed!BufferIsTrue, Feed!AnswersAreTrue, Feed!BufEnd
  <2>. QED BY <1>1, <2>1, <2>2, <2>3, <2>4 DEF Feed!FeedInv, Feed!TypeOK
<1>6. CASE Feed!DecoderReads
  <2>1. /\ v1' \in {v3.offset + v3.length} \cup Jumps /\ v3' = [v3 EXCEPT !.length = 0]
        /\ UNCHANGED <<v2, v4, v5, v6, v7, v8, v9>>
    BY <1>6 DEF Feed!DecoderReads
  <2>2. v3.offset \in 0 .. MediaSize /\ v3.length \in 0 .. ReadAhead
    BY <1>1 DEF Feed!TypeOK, Feed!Buffers, Feed!Replies, Feed!Answers
  <2>3. v1' \in 0 .. MediaSize
    BY <1>1, <2>1, <2>2, MediaAssumption DEF Feed!AnswersAreTrue
  <2>4. /\ v3' \in Feed!Answers
        /\ v3'.offset = v3.offset /\ v3'.length = 0
    <3>1. 0 \in 0 .. ReadAhead
      BY MediaAssumption
    <3>. QED BY <1>1, <2>1, <3>1 DEF Feed!TypeOK, Feed!Buffers, Feed!Replies, Feed!Answers
  <2>5. Feed!BufferIsTrue' /\ Feed!AnswersAreTrue'
    BY <1>1, <2>1, <2>2, <2>4, MediaAssumption DEF Feed!BufferIsTrue, Feed!AnswersAreTrue,
      Feed!BufEnd
  <2>. QED BY <1>1, <2>1, <2>3, <2>4, <2>5 DEF Feed!FeedInv, Feed!TypeOK
<1>. QED BY <1>2, <1>3, <1>4, <1>5, <1>6 DEF Feed!Next

-----------------------------------------------------------------------------
(* MediaRing: v1 memory, v2 uiRing, v3 ring, v4 asked, v5 toUi, v6 toDecoder, v7 next,
   v8 shown *)

\* The sizes of pictures lie between 1 and the largest.
LEMMA LargestSize ==
  Frames!Largest \in Nat \ {0} /\ \A n \in Sizes : n \in 1 .. Frames!Largest /\ n \in 0 .. Frames!Largest
<1>1. PICK n \in Sizes : \A m \in Sizes : m <= n
  BY RingsAssumption
<1>2. Frames!Largest \in Sizes /\ \A m \in Sizes : m <= Frames!Largest
  BY <1>1 DEF Frames!Largest
<1>. QED BY <1>2, RingsAssumption

\* At the start there is no segment, and nothing under way.
LEMMA FramesInit ==
  ASSUME Frames!Init
  PROVE  Frames!FramesInv
<1>. USE RingsAssumption, LargestSize DEF Frames!Init, Frames!Blank, Frames!NoRing
<1>1. Frames!TypeOK
  BY DEF Frames!TypeOK
<1>2. Frames!PicturesAreWhole /\ Frames!NoSlotIsLost
  BY DEF Frames!PicturesAreWhole, Frames!NoSlotIsLost
<1>3. Frames!SegmentsInOrder /\ Frames!SlotsAreHeld
  BY DEF Frames!SegmentsInOrder, Frames!SlotsAreHeld, Frames!FrameOf, Frames!ReleaseOf,
    Frames!RingAt
<1>. QED BY <1>1, <1>2, <1>3 DEF Frames!FramesInv, Frames!FramesAreSound

\* Append adds one at the end and leaves the others where they are.
LEMMA Longer ==
  ASSUME NEW S, NEW s \in Seq(S), NEW e \in S
  PROVE  /\ Append(s, e) \in Seq(S) /\ Len(Append(s, e)) = Len(s) + 1 /\ Len(s) \in Nat
         /\ Append(s, e)[Len(s) + 1] = e
         /\ \A i \in 1 .. Len(s) : Append(s, e)[i] = s[i]
  OBVIOUS

\* So does Tail.
LEMMA Shorter ==
  ASSUME NEW S, NEW s \in Seq(S), s # <<>>
  PROVE  /\ Tail(s) \in Seq(S) /\ Len(Tail(s)) = Len(s) - 1 /\ Len(s) \in Nat \ {0}
         /\ Head(s) = s[1] /\ s[1] \in S
         /\ \A i \in 1 .. Len(s) - 1 : Tail(s)[i] = s[i + 1]
  OBVIOUS

\* With room for one more, the messages under way stay within their bound.
LEMMA Fits ==
  ASSUME NEW S, NEW s \in Seq(S), NEW e \in S, Len(s) < MaxFlight
  PROVE  Append(s, e) \in Seq(S) /\ Len(Append(s, e)) <= MaxFlight
<1>1. Append(s, e) \in Seq(S) /\ Len(Append(s, e)) = Len(s) + 1 /\ Len(s) \in Nat
  BY Longer
<1>. QED BY <1>1, RingsAssumption

\* Every step keeps the types.
LEMMA FramesTypes ==
  ASSUME Frames!TypeOK, Frames!Next
  PROVE  Frames!TypeOK'
<1>. USE RingsAssumption
<1>0. /\ v1 \in [1 .. MaxRings -> [Slots -> 0 .. 2]] 
      /\ v2.id \in 0 .. MaxRings /\ v2.bytes \in 0 .. Frames!Largest
      /\ v3.id \in 0 .. MaxRings /\ v3.bytes \in 0 .. Frames!Largest
      /\ v3.busy \subseteq Slots /\ v3.failed \in BOOLEAN
      /\ v5 \in Seq(Frames!UiMessages) /\ v6 \in Seq(Frames!DecoderMessages)
      /\ v4 \in 0 .. Frames!Largest /\ v7 \in {0, 1}
      /\ Len(v5) <= MaxFlight /\ Len(v6) <= MaxFlight
  BY DEF Frames!TypeOK, Frames!Rings, Frames!Blank
<1>1. ASSUME NEW size \in Sizes, Frames!OnFrame(size) PROVE Frames!TypeOK'
  <2>1. CASE v3.id = Frames!NoRing \/ size > v3.bytes
    <3>1. [what |-> "needRing", bytes |-> size] \in Frames!UiMessages
      BY DEF Frames!UiMessages
    <3>2. v5' \in Seq(Frames!UiMessages) /\ Len(v5') <= MaxFlight
      <4>1. Len(v5) < MaxFlight /\ v5' \in {v5, Append(v5, [what |-> "needRing", bytes |-> size])}
        BY <1>1, <2>1 DEF Frames!OnFrame, Frames!Room
      <4>. DEFINE e == [what |-> "needRing", bytes |-> size]
      <4>2. e \in Frames!UiMessages /\ v5' \in {v5, Append(v5, e)}
        BY <3>1, <4>1
      <4>. HIDE DEF e
      <4>3. Append(v5, e) \in Seq(Frames!UiMessages) /\ Len(Append(v5, e)) <= MaxFlight
        BY <1>0, <4>1, <4>2, Fits
      <4>. QED BY <1>0, <4>2, <4>3
    <3>3. v4' \in 0 .. Frames!Largest
      BY <1>0, <1>1, <2>1, LargestSize DEF Frames!OnFrame
    <3>. QED BY <1>1, <2>1, <3>2, <3>3 DEF Frames!OnFrame, Frames!TypeOK
  <2>2. CASE ~(v3.id = Frames!NoRing \/ size > v3.bytes)
    <3>1. PICK s \in Slots \ v3.busy :
            /\ v1' = [v1 EXCEPT ![v3.id][s] = v7]
            /\ v3' = [v3 EXCEPT !.busy = @ \cup {s}]
            /\ v5' = Append(v5, [what |-> "frame", ring |-> v3.id, slot |-> s, number |-> v7])
      BY <1>1, <2>2 DEF Frames!OnFrame
    <3>2. v3.id \in Frames!Rings
      BY <1>0, <2>2 DEF Frames!Rings, Frames!NoRing
    <3>3. [what |-> "frame", ring |-> v3.id, slot |-> s, number |-> v7] \in Frames!UiMessages
      BY <1>0, <3>2 DEF Frames!UiMessages
    <3>4. v5' \in Seq(Frames!UiMessages) /\ Len(v5') <= MaxFlight
      BY <1>0, <1>1, <3>1, <3>3, Longer DEF Frames!OnFrame, Frames!Room
    <3>5. v1' \in [Frames!Rings -> [Slots -> 0 .. Frames!Blank]]
      BY <1>0, <3>1, <3>2 DEF Frames!Rings, Frames!Blank
    <3>6. v3' \in [id : 0 .. MaxRings, bytes : 0 .. Frames!Largest, busy : SUBSET Slots, failed : BOOLEAN]
      BY <3>1 DEF Frames!TypeOK
    <3>7. v7' \in {0, 1}
      BY <1>0, <1>1, <2>2 DEF Frames!OnFrame
    <3>. QED BY <1>1, <2>2, <3>4, <3>5, <3>6, <3>7 DEF Frames!OnFrame, Frames!TypeOK
  <2>. QED BY <2>1, <2>2
<1>2. CASE Frames!AttachRing
  <2>1. v6 # <<>> /\ v6' = Tail(v6) /\ Head(v6).what = "ring"
    BY <1>2 DEF Frames!AttachRing, Frames!Take
  <2>2. v6' \in Seq(Frames!DecoderMessages) /\ Len(v6') <= MaxFlight
    BY <1>0, <2>1, Shorter
  <2>3. Head(v6).ring \in Frames!Rings /\ Head(v6).bytes \in Sizes
    BY <1>0, <2>1, Shorter DEF Frames!DecoderMessages
  <2>4. [what |-> "ringReady", ring |-> Head(v6).ring] \in Frames!UiMessages
    BY <2>3 DEF Frames!UiMessages
  <2>5. v5' \in Seq(Frames!UiMessages) /\ Len(v5') <= MaxFlight
    <3>1. /\ Len(v5) < MaxFlight
          /\ v5' \in {v5, Append(v5, [what |-> "ringReady", ring |-> Head(v6).ring])}
      BY <1>2 DEF Frames!AttachRing, Frames!Room
    <3>. DEFINE e == [what |-> "ringReady", ring |-> Head(v6).ring]
    <3>2. e \in Frames!UiMessages /\ v5' \in {v5, Append(v5, e)}
      BY <2>4, <3>1
    <3>. HIDE DEF e
    <3>3. Append(v5, e) \in Seq(Frames!UiMessages) /\ Len(Append(v5, e)) <= MaxFlight
      BY <1>0, <3>1, <3>2, Fits
    <3>. QED BY <1>0, <3>2, <3>3
  <2>6. v3' \in [id : 0 .. MaxRings, bytes : 0 .. Frames!Largest, busy : SUBSET Slots, failed : BOOLEAN]
    <3>0. \A r \in Frames!Rings : r \in 0 .. MaxRings
      BY RingsAssumption DEF Frames!Rings
    <3>1. Head(v6).ring \in 0 .. MaxRings /\ Head(v6).bytes \in 0 .. Frames!Largest
      BY <2>3, <3>0, LargestSize
    <3>. QED BY <1>2, <3>1 DEF Frames!AttachRing, Frames!TypeOK
  <2>. QED BY <1>2, <2>2, <2>5, <2>6 DEF Frames!AttachRing, Frames!TypeOK
<1>3. CASE Frames!Release
  <2>1. v6 # <<>> /\ v6' = Tail(v6)
    BY <1>3 DEF Frames!Release, Frames!Take
  <2>2. v6' \in Seq(Frames!DecoderMessages) /\ Len(v6') <= MaxFlight
    BY <1>0, <2>1, Shorter
  <2>3. v3' \in [id : 0 .. MaxRings, bytes : 0 .. Frames!Largest, busy : SUBSET Slots, failed : BOOLEAN]
    BY <1>3 DEF Frames!Release, Frames!TypeOK
  <2>. QED BY <1>3, <2>2, <2>3 DEF Frames!Release, Frames!TypeOK
<1>4. CASE Frames!ShareRing
  <2>1. v5 # <<>> /\ v5' = Tail(v5) /\ Head(v5).what = "needRing" /\ Len(v6) < MaxFlight
    BY <1>4 DEF Frames!ShareRing, Frames!Receive, Frames!Room
  <2>2. v5' \in Seq(Frames!UiMessages) /\ Len(v5') <= MaxFlight
    BY <1>0, <2>1, Shorter
  <2>3. CASE UNCHANGED <<v2, v6>>
    BY <1>4, <2>2, <2>3 DEF Frames!ShareRing, Frames!TypeOK
  <2>4. CASE v2.id # MaxRings /\ v2' = [id |-> v2.id + 1, bytes |-> Head(v5).bytes]
             /\ v6' = Append(v6, [what |-> "ring", ring |-> v2.id + 1, bytes |-> Head(v5).bytes])
    <3>1. Head(v5).bytes \in Sizes
      BY <1>0, <2>1, Shorter DEF Frames!UiMessages
    <3>2. v2.id + 1 \in Frames!Rings /\ v2.id + 1 \in 0 .. MaxRings
      BY <1>0, <2>4 DEF Frames!Rings
    <3>3. [what |-> "ring", ring |-> v2.id + 1, bytes |-> Head(v5).bytes] \in Frames!DecoderMessages
      BY <3>1, <3>2 DEF Frames!DecoderMessages
    <3>4. v6' \in Seq(Frames!DecoderMessages) /\ Len(v6') <= MaxFlight
      BY <1>0, <2>1, <2>4, <3>3, Longer
    <3>5. v2' \in [id : 0 .. MaxRings, bytes : 0 .. Frames!Largest]
      BY <2>4, <3>1, <3>2, LargestSize
    <3>. QED BY <1>4, <2>2, <3>4, <3>5 DEF Frames!ShareRing, Frames!TypeOK
  <2>. QED BY <1>4, <2>3, <2>4 DEF Frames!ShareRing
<1>5. CASE Frames!RingReady
  <2>1. v5 # <<>> /\ v5' = Tail(v5)
    BY <1>5 DEF Frames!RingReady, Frames!Receive
  <2>2. v5' \in Seq(Frames!UiMessages) /\ Len(v5') <= MaxFlight
    BY <1>0, <2>1, Shorter
  <2>. QED BY <1>5, <2>2 DEF Frames!RingReady, Frames!TypeOK
<1>6. CASE Frames!ShowFrame
  <2>1. v5 # <<>> /\ v5' = Tail(v5) /\ Head(v5).what = "frame" /\ Len(v6) < MaxFlight
    BY <1>6 DEF Frames!ShowFrame, Frames!Receive, Frames!Room
  <2>2. v5' \in Seq(Frames!UiMessages) /\ Len(v5') <= MaxFlight
    BY <1>0, <2>1, Shorter
  <2>3. Head(v5).ring \in Frames!Rings /\ Head(v5).slot \in Slots /\ Head(v5).number \in {0, 1}
    BY <1>0, <2>1, Shorter DEF Frames!UiMessages
  <2>4. [what |-> "release", ring |-> Head(v5).ring, slot |-> Head(v5).slot] \in Frames!DecoderMessages
    BY <2>3 DEF Frames!DecoderMessages
  <2>5. v6' \in Seq(Frames!DecoderMessages) /\ Len(v6') <= MaxFlight
    BY <1>0, <1>6, <2>1, <2>4, Longer DEF Frames!ShowFrame
  <2>6. v8' \in [number : 0 .. Frames!Blank, copy : 0 .. Frames!Blank]
    <3>1. CASE Head(v5).ring = v2.id
      <4>1. v1[v2.id][Head(v5).slot] \in 0 .. 2
        BY <1>0, <2>3, <3>1 DEF Frames!Rings
      <4>. QED BY <1>6, <2>3, <3>1, <4>1 DEF Frames!ShowFrame, Frames!Blank
    <3>2. CASE Head(v5).ring # v2.id
      BY <1>6, <3>2 DEF Frames!ShowFrame, Frames!TypeOK
    <3>. QED BY <3>1, <3>2
  <2>. QED BY <1>6, <2>2, <2>5, <2>6 DEF Frames!ShowFrame, Frames!TypeOK
<1>. QED BY <1>1, <1>2, <1>3, <1>4, <1>5, <1>6 DEF Frames!Next

\* Taking a message that is no picture keeps the order and the slots.
LEMMA AnswerTaken ==
  ASSUME Frames!FramesInv, v5 # <<>>, v5' = Tail(v5), Head(v5).what # "frame",
         UNCHANGED <<v1, v2, v3, v6, v8>>
  PROVE  /\ Frames!SegmentsInOrder' /\ Frames!SlotsAreHeld'
         /\ Frames!PicturesAreWhole' /\ Frames!NoSlotIsLost'
<1>0. /\ Frames!SegmentsInOrder /\ Frames!SlotsAreHeld
      /\ Frames!PicturesAreWhole /\ Frames!NoSlotIsLost
  BY DEF Frames!FramesInv, Frames!FramesAreSound
<1>t. /\ v1 \in [1 .. MaxRings -> [Slots -> 0 .. 2]] 
      /\ v2.id \in 0 .. MaxRings
      /\ v3.id \in 0 .. MaxRings /\ v3.busy \subseteq Slots
      /\ v5 \in Seq(Frames!UiMessages) /\ v6 \in Seq(Frames!DecoderMessages)
      /\ Len(v5) \in Nat /\ Len(v6) \in Nat
  BY DEF Frames!FramesInv, Frames!FramesAreSound, Frames!TypeOK, Frames!Rings, Frames!Blank
<1>2. /\ Len(v5') = Len(v5) - 1 /\ Head(v5) = v5[1] /\ 1 \in 1 .. Len(v5)
      /\ v5[1] \in Frames!UiMessages
      /\ \A i \in 1 .. Len(v5') : v5'[i] = v5[i + 1] /\ i + 1 \in 1 .. Len(v5) /\ 1 # i + 1
  BY <1>t, Shorter
<1>3. \A i, j \in 1 .. Len(v5') : i # j => i + 1 # j + 1
  OBVIOUS
<1>4. /\ \A i \in 1 .. Len(v5) : i # 1 => i - 1 \in 1 .. Len(v5') /\ v5'[i - 1] = v5[i]
  <2>1. \A i \in 1 .. Len(v5) : i # 1 => i - 1 \in 1 .. Len(v5') /\ (i - 1) + 1 = i
    BY <1>t, <1>2
  <2>. QED BY <1>2, <2>1
<1>5. \A i \in 1 .. Len(v5') : \A r \in Frames!Rings : Frames!FrameOf(i, r)' =>
        i + 1 \in 1 .. Len(v5) /\ Frames!FrameOf(i + 1, r) /\ v5'[i] = v5[i + 1]
  BY <1>2 DEF Frames!FrameOf
<1>6. \A i \in 1 .. Len(v5') : Frames!FrameOf(i, v3.id)' =>
        i + 1 \in 1 .. Len(v5) /\ Frames!FrameOf(i + 1, v3.id) /\ v5'[i] = v5[i + 1]
  BY <1>2 DEF Frames!FrameOf
<1>7. Frames!SegmentsInOrder'
  <2>1. /\ \A i \in 1 .. Len(v6) : \A r \in Frames!Rings : Frames!ReleaseOf(i, r)' <=> Frames!ReleaseOf(i, r)
        /\ \A i \in 1 .. Len(v6) : Frames!RingAt(i)' <=> Frames!RingAt(i)
    BY DEF Frames!ReleaseOf, Frames!RingAt
  <2>. QED BY <1>0, <1>5, <2>1 DEF Frames!SegmentsInOrder
<1>8. Frames!SlotsAreHeld'
  <2>1. \A i \in 1 .. Len(v6) : Frames!ReleaseOf(i, v3.id)' <=> Frames!ReleaseOf(i, v3.id)
    BY DEF Frames!ReleaseOf
  <2>2. \A i \in 1 .. Len(v5') : Frames!FrameOf(i, v3.id)' =>
          v5'[i].slot \in v3.busy /\ v1[v3.id][v5'[i].slot] = v5'[i].number
    BY <1>0, <1>6 DEF Frames!SlotsAreHeld
  <2>3. \A i, j \in 1 .. Len(v5') :
          Frames!FrameOf(i, v3.id)' /\ Frames!FrameOf(j, v3.id)' /\ i # j =>
            v5'[i].slot # v5'[j].slot
    BY <1>0, <1>3, <1>6 DEF Frames!SlotsAreHeld
  <2>4. \A i \in 1 .. Len(v5'), j \in 1 .. Len(v6) :
          Frames!FrameOf(i, v3.id)' /\ Frames!ReleaseOf(j, v3.id) => v5'[i].slot # v6[j].slot
    BY <1>0, <1>6 DEF Frames!SlotsAreHeld
  <2>. QED BY <1>0, <2>1, <2>2, <2>3, <2>4 DEF Frames!SlotsAreHeld
<1>9. Frames!NoSlotIsLost'
  <2>1. \A i \in 1 .. Len(v5) : v5[i].what = "frame" =>
          i - 1 \in 1 .. Len(v5') /\ v5'[i - 1] = v5[i]
    BY <1>2, <1>4
  <2>2. ASSUME NEW x \in v3.busy, NEW i \in 1 .. Len(v5),
               v5[i].what = "frame" /\ v5[i].ring = v3.id /\ v5[i].slot = x
        PROVE  \E j \in 1 .. Len(v5') : v5'[j].what = "frame" /\ v5'[j].ring = v3.id /\ v5'[j].slot = x
    BY <2>1, <2>2
  <2>. QED BY <1>0, <2>2 DEF Frames!NoSlotIsLost
<1>10. Frames!PicturesAreWhole'
  BY <1>0 DEF Frames!PicturesAreWhole
<1>. QED BY <1>7, <1>8, <1>9, <1>10

\* Every step keeps the order of the segments, the slots that are held, and with them
\* the picture that is shown (MediaFrameRing, MediaSession's frame and ring handlers).
LEMMA FramesSteps ==
  ASSUME Frames!FramesInv, Frames!Next
  PROVE  /\ Frames!SegmentsInOrder' /\ Frames!SlotsAreHeld'
         /\ Frames!PicturesAreWhole' /\ Frames!NoSlotIsLost'
<1>0. /\ Frames!SegmentsInOrder /\ Frames!SlotsAreHeld
      /\ Frames!PicturesAreWhole /\ Frames!NoSlotIsLost
  BY DEF Frames!FramesInv, Frames!FramesAreSound
<1>t. /\ v1 \in [1 .. MaxRings -> [Slots -> 0 .. 2]] 
      /\ v2.id \in 0 .. MaxRings
      /\ v3.id \in 0 .. MaxRings /\ v3.busy \subseteq Slots
      /\ v5 \in Seq(Frames!UiMessages) /\ v6 \in Seq(Frames!DecoderMessages)
      /\ Len(v5) \in Nat /\ Len(v6) \in Nat
  BY DEF Frames!FramesInv, Frames!FramesAreSound, Frames!TypeOK, Frames!Rings, Frames!Blank
<1>1. ASSUME NEW size \in Sizes, Frames!OnFrame(size)
      PROVE /\ Frames!SegmentsInOrder' /\ Frames!SlotsAreHeld' /\ Frames!PicturesAreWhole'
            /\ Frames!NoSlotIsLost'
  <2>1. CASE v3.id = Frames!NoRing \/ size > v3.bytes
    <3>. DEFINE e == [what |-> "needRing", bytes |-> size]
    <3>1. UNCHANGED <<v1, v2, v3, v6, v8>> /\ v5' \in {v5, Append(v5, e)} /\ e.what = "needRing"
      BY <1>1, <2>1 DEF Frames!OnFrame
    <3>2. e \in Frames!UiMessages
      BY <1>1 DEF Frames!UiMessages
    <3>. HIDE DEF e
    <3>3. CASE v5' = v5
      BY <1>0, <3>1, <3>3 DEF Frames!SegmentsInOrder, Frames!SlotsAreHeld,
        Frames!PicturesAreWhole, Frames!NoSlotIsLost, Frames!FrameOf, Frames!ReleaseOf,
        Frames!RingAt
    <3>4. CASE v5' = Append(v5, e)
      <4>1. /\ Len(v5') = Len(v5) + 1 /\ v5'[Len(v5) + 1] = e
            /\ \A i \in 1 .. Len(v5) : v5'[i] = v5[i]
        BY <1>t, <3>2, <3>4, Longer
      <4>2. \A i \in 1 .. Len(v5') : v5'[i].what = "frame" => i \in 1 .. Len(v5) /\ v5'[i] = v5[i]
        BY <1>t, <3>1, <4>1
      <4>3. Frames!SegmentsInOrder'
        BY <1>0, <1>t, <3>1, <4>2 DEF Frames!SegmentsInOrder, Frames!FrameOf, Frames!ReleaseOf,
          Frames!RingAt
      <4>4. Frames!SlotsAreHeld'
        <5>1. \A i \in 1 .. Len(v5') : Frames!FrameOf(i, v3.id)' =>
                i \in 1 .. Len(v5) /\ Frames!FrameOf(i, v3.id) /\ v5'[i] = v5[i]
          BY <3>1, <4>2 DEF Frames!FrameOf
        <5>2. \A i \in 1 .. Len(v6) : Frames!ReleaseOf(i, v3.id)' => Frames!ReleaseOf(i, v3.id)
          BY <3>1 DEF Frames!ReleaseOf
        <5>. QED BY <1>0, <3>1, <5>1, <5>2 DEF Frames!SlotsAreHeld
      <4>5. Frames!PicturesAreWhole' /\ Frames!NoSlotIsLost'
        <5>1. \A i \in 1 .. Len(v5) : i \in 1 .. Len(v5')
          BY <1>t, <4>1
        <5>. QED BY <1>0, <3>1, <4>1, <5>1 DEF Frames!PicturesAreWhole, Frames!NoSlotIsLost
      <4>. QED BY <4>3, <4>4, <4>5
    <3>. QED BY <3>1, <3>3, <3>4
  <2>2. CASE ~(v3.id = Frames!NoRing \/ size > v3.bytes)
    <3>1. PICK s \in Slots \ v3.busy :
            /\ v1' = [v1 EXCEPT ![v3.id][s] = v7]
            /\ v3' = [v3 EXCEPT !.busy = @ \cup {s}]
            /\ v5' = Append(v5, [what |-> "frame", ring |-> v3.id, slot |-> s, number |-> v7])
            /\ UNCHANGED <<v2, v6, v8>>
      BY <1>1, <2>2 DEF Frames!OnFrame
    <3>. DEFINE e == [what |-> "frame", ring |-> v3.id, slot |-> s, number |-> v7]
    <3>2. v3.id \in 1 .. MaxRings
      BY <1>t, <2>2, RingsAssumption DEF Frames!NoRing
    <3>3. /\ v3'.id = v3.id /\ v3'.busy = v3.busy \cup {s}
          /\ v1'[v3.id][s] = v7 /\ \A x \in Slots \ {s} : v1'[v3.id][x] = v1[v3.id][x]
      <4>1. v3'.id = v3.id /\ v3'.busy = v3.busy \cup {s}
        BY <3>1 DEF Frames!FramesInv, Frames!FramesAreSound, Frames!TypeOK
      <4>. QED BY <1>t, <3>1, <3>2, <4>1
    <3>4. e \in Frames!UiMessages
      BY <3>2 DEF Frames!UiMessages, Frames!Rings, Frames!FramesInv, Frames!FramesAreSound,
        Frames!TypeOK
    <3>5. e.what = "frame" /\ e.ring = v3.id /\ e.slot = s /\ e.number = v7 /\ v5' = Append(v5, e)
      BY <3>1
    <3>. HIDE DEF e
    <3>6. /\ Len(v5') = Len(v5) + 1 /\ v5'[Len(v5) + 1] = e
          /\ \A i \in 1 .. Len(v5) : v5'[i] = v5[i]
      BY <1>t, <3>4, <3>5, Longer
    <3>7. \A i \in 1 .. Len(v5') : (i \in 1 .. Len(v5) /\ v5'[i] = v5[i]) \/ (i = Len(v5) + 1 /\ v5'[i] = e)
      <4>1. \A i \in 1 .. Len(v5) + 1 : i \in 1 .. Len(v5) \/ i = Len(v5) + 1
        BY <1>t
      <4>2. \A i \in 1 .. Len(v5') : i \in 1 .. Len(v5) \/ i = Len(v5) + 1
        BY <3>6, <4>1
      <4>3. \A i : i = Len(v5) + 1 => v5'[i] = e
        BY <3>6
      <4>. QED BY <3>6, <4>2, <4>3
    <3>8. \A i \in 1 .. Len(v5) : Frames!FrameOf(i, v3.id) => v5[i].slot # s
      BY <1>0, <3>1 DEF Frames!SlotsAreHeld
    <3>9. \A i \in 1 .. Len(v6) : Frames!ReleaseOf(i, v3.id) => v6[i].slot # s
      BY <1>0, <3>1 DEF Frames!SlotsAreHeld
    <3>10. Frames!SegmentsInOrder'
      BY <1>0, <1>t, <3>1, <3>2, <3>3, <3>5, <3>7 DEF Frames!SegmentsInOrder, Frames!FrameOf,
        Frames!ReleaseOf, Frames!RingAt
    <3>11. Frames!SlotsAreHeld'
      <4>1. \A i \in 1 .. Len(v5') : Frames!FrameOf(i, v3.id)' =>
              v5'[i].slot \in v3'.busy /\ v1'[v3.id][v5'[i].slot] = v5'[i].number
        BY <1>0, <1>t, <3>3, <3>5, <3>7, <3>8 DEF Frames!SlotsAreHeld, Frames!FrameOf
      <4>2. \A i, j \in 1 .. Len(v5') :
              Frames!FrameOf(i, v3.id)' /\ Frames!FrameOf(j, v3.id)' /\ i # j =>
                v5'[i].slot # v5'[j].slot
        BY <1>0, <1>t, <3>3, <3>5, <3>7, <3>8 DEF Frames!SlotsAreHeld, Frames!FrameOf
      <4>3. \A i \in 1 .. Len(v5'), j \in 1 .. Len(v6) :
              Frames!FrameOf(i, v3.id)' /\ Frames!ReleaseOf(j, v3.id) => v5'[i].slot # v6[j].slot
        <5>1. \A i \in 1 .. Len(v5') : Frames!FrameOf(i, v3.id)' =>
                \/ i \in 1 .. Len(v5) /\ Frames!FrameOf(i, v3.id) /\ v5'[i] = v5[i]
                \/ v5'[i].slot = s
          BY <3>3, <3>5, <3>7 DEF Frames!FrameOf
        <5>. QED BY <1>0, <3>9, <5>1 DEF Frames!SlotsAreHeld
      <4>. QED BY <1>0, <3>1, <3>3, <4>1, <4>2, <4>3 DEF Frames!SlotsAreHeld, Frames!ReleaseOf,
        Frames!FrameOf
    <3>12. Frames!PicturesAreWhole'
      BY <1>0, <3>1 DEF Frames!PicturesAreWhole
    <3>13. Frames!NoSlotIsLost'
      <4>1. Len(v5) + 1 \in 1 .. Len(v5')
        BY <1>t, <3>6
      <4>2. \A i \in 1 .. Len(v5) : i \in 1 .. Len(v5')
        BY <1>t, <3>6
      <4>. QED BY <1>0, <3>1, <3>3, <3>5, <3>6, <4>1, <4>2 DEF Frames!NoSlotIsLost
    <3>. QED BY <3>10, <3>11, <3>12, <3>13
  <2>. QED BY <2>1, <2>2
<1>2. CASE Frames!AttachRing
  <2>1. /\ v6 # <<>> /\ v6' = Tail(v6) /\ Head(v6).what = "ring"
        /\ UNCHANGED <<v1, v2, v8>>
    BY <1>2 DEF Frames!AttachRing, Frames!Take
  <2>2. /\ Len(v6') = Len(v6) - 1 /\ Head(v6) = v6[1] /\ 1 \in 1 .. Len(v6)
        /\ \A i \in 1 .. Len(v6') : v6'[i] = v6[i + 1] /\ i + 1 \in 1 .. Len(v6) /\ 1 < i + 1
    BY <1>t, <2>1, Shorter
  <2>3. Frames!RingAt(1) /\ v3.id < v6[1].ring /\ v6[1].ring <= v2.id /\ v6[1].ring \in Frames!Rings
    <3>1. v6[1] \in Frames!DecoderMessages /\ v6[1].what = "ring"
      BY <1>t, <2>1, <2>2, Shorter
    <3>. QED BY <1>0, <2>1, <2>2, <3>1 DEF Frames!SegmentsInOrder, Frames!RingAt,
      Frames!DecoderMessages
  <2>4. CASE v3' = [v3 EXCEPT !.failed = TRUE] /\ v5' = v5
    <3>1. v3'.id = v3.id /\ v3'.busy = v3.busy
      BY <2>4 DEF Frames!FramesInv, Frames!FramesAreSound, Frames!TypeOK
    <3>2. Frames!SegmentsInOrder'
      BY <1>0, <2>1, <2>2, <2>4, <3>1 DEF Frames!SegmentsInOrder, Frames!FrameOf,
        Frames!ReleaseOf, Frames!RingAt
    <3>3. \A i \in 1 .. Len(v6') : Frames!ReleaseOf(i, v3.id)' =>
            i + 1 \in 1 .. Len(v6) /\ Frames!ReleaseOf(i + 1, v3.id) /\ v6'[i] = v6[i + 1]
      BY <2>2, <3>1 DEF Frames!ReleaseOf
    <3>4. \A i \in 1 .. Len(v5) : Frames!FrameOf(i, v3.id)' => Frames!FrameOf(i, v3.id)
      BY <2>4, <3>1 DEF Frames!FrameOf
    <3>5. \A i, j \in 1 .. Len(v6') : i # j => i + 1 # j + 1
      OBVIOUS
    <3>6. Frames!SlotsAreHeld'
      BY <1>0, <2>1, <2>2, <2>4, <3>1, <3>3, <3>4, <3>5 DEF Frames!SlotsAreHeld
    <3>7. Frames!NoSlotIsLost'
      <4>1. \A i \in 1 .. Len(v6) : v6[i].what = "release" =>
              i - 1 \in 1 .. Len(v6') /\ v6'[i - 1] = v6[i]
        <5>1. \A i \in 1 .. Len(v6) : v6[i].what = "release" => i # 1
          BY <2>3 DEF Frames!RingAt
        <5>2. \A i \in 1 .. Len(v6) : i # 1 => i - 1 \in 1 .. Len(v6') /\ (i - 1) + 1 = i
          BY <1>t, <2>2
        <5>. QED BY <2>2, <5>1, <5>2
      <4>. QED BY <1>0, <2>4, <3>1, <4>1 DEF Frames!NoSlotIsLost
    <3>8. Frames!PicturesAreWhole'
      BY <1>0, <2>1 DEF Frames!PicturesAreWhole
    <3>. QED BY <3>2, <3>6, <3>7, <3>8
  <2>5. CASE /\ v3' = [v3 EXCEPT !.id = Head(v6).ring, !.bytes = Head(v6).bytes, !.busy = {}]
             /\ v5' = Append(v5, [what |-> "ringReady", ring |-> Head(v6).ring])
    <3>. DEFINE e == [what |-> "ringReady", ring |-> Head(v6).ring]
    <3>1. v3'.id = v6[1].ring /\ v3'.busy = {}
      BY <2>2, <2>5 DEF Frames!FramesInv, Frames!FramesAreSound, Frames!TypeOK
    <3>2. e \in Frames!UiMessages /\ e.what = "ringReady" /\ v5' = Append(v5, e)
      BY <2>2, <2>3, <2>5 DEF Frames!UiMessages
    <3>. HIDE DEF e
    <3>3. /\ Len(v5') = Len(v5) + 1 /\ v5'[Len(v5) + 1] = e
          /\ \A i \in 1 .. Len(v5) : v5'[i] = v5[i]
      BY <1>t, <3>2, Longer
    <3>4. \A i \in 1 .. Len(v5') : v5'[i].what = "frame" => i \in 1 .. Len(v5) /\ v5'[i] = v5[i]
      BY <1>t, <3>2, <3>3
    <3>5. v3.id \in Int /\ v6[1].ring \in Int /\ v3.id < v6[1].ring
      BY <1>t, <2>3, RingsAssumption DEF Frames!Rings
    <3>6. \A i \in 1 .. Len(v5') : \A r \in Frames!Rings : Frames!FrameOf(i, r)' => r <= v3.id
      BY <1>0, <3>4 DEF Frames!SegmentsInOrder, Frames!FrameOf
    <3>7. \A i \in 1 .. Len(v6') : \A r \in Frames!Rings : Frames!ReleaseOf(i, r)' => r <= v3.id
      BY <1>0, <2>2 DEF Frames!SegmentsInOrder, Frames!ReleaseOf
    <3>8. /\ \A i \in 1 .. Len(v5') : ~Frames!FrameOf(i, v3.id)'
          /\ \A i \in 1 .. Len(v6') : ~Frames!ReleaseOf(i, v3.id)'
      BY <2>3, <3>1, <3>5, <3>6, <3>7
    <3>9. Frames!SegmentsInOrder'
      <4>1. \A i \in 1 .. Len(v6') : Frames!RingAt(i)' =>
              /\ Frames!RingAt(i + 1) /\ v6'[i] = v6[i + 1]
              /\ v6[1].ring < v6'[i].ring /\ v6'[i].ring <= v2.id
        BY <1>0, <2>2, <2>3 DEF Frames!SegmentsInOrder, Frames!RingAt
      <4>2. \A i, j \in 1 .. Len(v6') : Frames!RingAt(i)' /\ Frames!RingAt(j)' /\ i < j =>
              v6'[i].ring < v6'[j].ring
        <5>1. \A i, j \in 1 .. Len(v6') : i < j => i + 1 < j + 1
          OBVIOUS
        <5>. QED BY <1>0, <2>2, <4>1, <5>1 DEF Frames!SegmentsInOrder
      <4>3. \A r \in Frames!Rings : r <= v3.id => r <= v3'.id
        BY <3>1, <3>5, RingsAssumption DEF Frames!Rings
      <4>. QED BY <2>1, <2>3, <3>1, <3>6, <3>7, <4>1, <4>2, <4>3 DEF Frames!SegmentsInOrder
    <3>10. Frames!SlotsAreHeld'
      BY <3>8 DEF Frames!SlotsAreHeld
    <3>11. Frames!NoSlotIsLost' /\ Frames!PicturesAreWhole'
      BY <1>0, <2>1, <3>1 DEF Frames!NoSlotIsLost, Frames!PicturesAreWhole
    <3>. QED BY <3>9, <3>10, <3>11
  <2>. QED BY <1>2, <2>4, <2>5 DEF Frames!AttachRing
<1>3. CASE Frames!Release
  <2>1. v6 # <<>> /\ v6' = Tail(v6) /\ Head(v6).what = "release" /\ UNCHANGED <<v1, v2, v5, v8>>
    BY <1>3 DEF Frames!Release, Frames!Take
  <2>2. /\ Len(v6') = Len(v6) - 1 /\ Head(v6) = v6[1] /\ 1 \in 1 .. Len(v6)
        /\ \A i \in 1 .. Len(v6') : v6'[i] = v6[i + 1] /\ i + 1 \in 1 .. Len(v6) /\ 1 # i + 1
    BY <1>t, <2>1, Shorter
  <2>3. /\ v3'.id = v3.id
        /\ v3'.busy = IF Frames!ReleaseOf(1, v3.id) THEN v3.busy \ {v6[1].slot} ELSE v3.busy
    BY <1>3, <2>1, <2>2 DEF Frames!Release, Frames!ReleaseOf, Frames!FramesInv,
      Frames!FramesAreSound, Frames!TypeOK
  <2>4. Frames!SegmentsInOrder'
    <3>1. \A i, j \in 1 .. Len(v6') : i < j => i + 1 < j + 1
      OBVIOUS
    <3>2. \A i \in 1 .. Len(v6') : Frames!RingAt(i)' => Frames!RingAt(i + 1) /\ v6'[i] = v6[i + 1]
      BY <2>2 DEF Frames!RingAt
    <3>3. \A i \in 1 .. Len(v6') : \A r \in Frames!Rings : Frames!ReleaseOf(i, r)' =>
            Frames!ReleaseOf(i + 1, r)
      BY <2>2 DEF Frames!ReleaseOf
    <3>4. \A i \in 1 .. Len(v5) : \A r \in Frames!Rings : Frames!FrameOf(i, r)' =>
            Frames!FrameOf(i, r)
      BY <2>1 DEF Frames!FrameOf
    <3>. QED BY <1>0, <2>1, <2>2, <2>3, <3>1, <3>2, <3>3, <3>4 DEF Frames!SegmentsInOrder
  <2>5. \A i \in 1 .. Len(v6') : Frames!ReleaseOf(i, v3.id)' =>
          i + 1 \in 1 .. Len(v6) /\ Frames!ReleaseOf(i + 1, v3.id) /\ v6'[i] = v6[i + 1]
    BY <2>2, <2>3 DEF Frames!ReleaseOf
  <2>6. \A i \in 1 .. Len(v5) : Frames!FrameOf(i, v3.id)' => Frames!FrameOf(i, v3.id)
    BY <2>1, <2>3 DEF Frames!FrameOf
  <2>7. Frames!SlotsAreHeld'
    <3>1. \A i, j \in 1 .. Len(v6') : i # j => i + 1 # j + 1
      OBVIOUS
    <3>2. \A i \in 1 .. Len(v5) : Frames!FrameOf(i, v3.id)' => v5[i].slot \in v3'.busy
      BY <1>0, <2>2, <2>3, <2>6 DEF Frames!SlotsAreHeld
    <3>3. \A i \in 1 .. Len(v6') : Frames!ReleaseOf(i, v3.id)' => v6'[i].slot \in v3'.busy
      BY <1>0, <2>2, <2>3, <2>5 DEF Frames!SlotsAreHeld
    <3>4. \A i \in 1 .. Len(v5) : Frames!FrameOf(i, v3.id)' => v1[v3.id][v5[i].slot] = v5[i].number
      BY <1>0, <2>6 DEF Frames!SlotsAreHeld
    <3>5. \A i, j \in 1 .. Len(v5) :
            Frames!FrameOf(i, v3.id)' /\ Frames!FrameOf(j, v3.id)' /\ i # j =>
              v5[i].slot # v5[j].slot
      BY <1>0, <2>6 DEF Frames!SlotsAreHeld
    <3>6. \A i, j \in 1 .. Len(v6') :
            Frames!ReleaseOf(i, v3.id)' /\ Frames!ReleaseOf(j, v3.id)' /\ i # j =>
              v6'[i].slot # v6'[j].slot
      BY <1>0, <2>5, <3>1 DEF Frames!SlotsAreHeld
    <3>7. \A i \in 1 .. Len(v5), j \in 1 .. Len(v6') :
            Frames!FrameOf(i, v3.id)' /\ Frames!ReleaseOf(j, v3.id)' => v5[i].slot # v6'[j].slot
      BY <1>0, <2>5, <2>6 DEF Frames!SlotsAreHeld
    <3>. QED BY <2>1, <2>3, <3>2, <3>3, <3>4, <3>5, <3>6, <3>7 DEF Frames!SlotsAreHeld
  <2>8. Frames!NoSlotIsLost'
    <3>1. \A i \in 1 .. Len(v6) : i # 1 => i - 1 \in 1 .. Len(v6') /\ v6'[i - 1] = v6[i]
      <4>1. \A i \in 1 .. Len(v6) : i # 1 => i - 1 \in 1 .. Len(v6') /\ (i - 1) + 1 = i
        BY <1>t, <2>2
      <4>. QED BY <2>2, <4>1
    <3>2. ASSUME NEW s \in v3'.busy
          PROVE  \/ \E i \in 1 .. Len(v5) : v5[i].what = "frame" /\ v5[i].ring = v3.id /\ v5[i].slot = s
                 \/ \E i \in 1 .. Len(v6') : v6'[i].what = "release" /\ v6'[i].ring = v3.id /\ v6'[i].slot = s
      <4>1. s \in v3.busy
        BY <2>3, <3>2
      <4>2. CASE \E i \in 1 .. Len(v5) : v5[i].what = "frame" /\ v5[i].ring = v3.id /\ v5[i].slot = s
        BY <4>2
      <4>3. CASE \E i \in 1 .. Len(v6) : v6[i].what = "release" /\ v6[i].ring = v3.id /\ v6[i].slot = s
        <5>1. PICK i \in 1 .. Len(v6) : v6[i].what = "release" /\ v6[i].ring = v3.id /\ v6[i].slot = s
          BY <4>3
        <5>2. i # 1
          BY <2>2, <2>3, <3>2, <5>1 DEF Frames!ReleaseOf
        <5>. QED BY <3>1, <5>1, <5>2
      <4>. QED BY <1>0, <4>1, <4>2, <4>3 DEF Frames!NoSlotIsLost
    <3>. QED BY <2>1, <2>3, <3>2 DEF Frames!NoSlotIsLost
  <2>9. Frames!PicturesAreWhole'
    BY <1>0, <2>1 DEF Frames!PicturesAreWhole
  <2>. QED BY <2>4, <2>7, <2>8, <2>9
<1>4. CASE Frames!ShareRing
  <2>1. /\ v5 # <<>> /\ v5' = Tail(v5) /\ Head(v5).what = "needRing" /\ UNCHANGED <<v1, v3, v8>>
    BY <1>4 DEF Frames!ShareRing, Frames!Receive
  <2>2. /\ Len(v5') = Len(v5) - 1 /\ Head(v5) = v5[1] /\ 1 \in 1 .. Len(v5)
        /\ v5[1] \in Frames!UiMessages
        /\ \A i \in 1 .. Len(v5') : v5'[i] = v5[i + 1] /\ i + 1 \in 1 .. Len(v5) /\ 1 # i + 1
    BY <1>t, <2>1, Shorter
  <2>3. \A i, j \in 1 .. Len(v5') : i # j => i + 1 # j + 1
    OBVIOUS
  <2>4. /\ \A i \in 1 .. Len(v5) : i # 1 => i - 1 \in 1 .. Len(v5') /\ v5'[i - 1] = v5[i]
    <3>1. \A i \in 1 .. Len(v5) : i # 1 => i - 1 \in 1 .. Len(v5') /\ (i - 1) + 1 = i
      BY <1>t, <2>2
    <3>. QED BY <2>2, <3>1
  <2>5. \A i \in 1 .. Len(v5') : \A r \in Frames!Rings : Frames!FrameOf(i, r)' =>
          i + 1 \in 1 .. Len(v5) /\ Frames!FrameOf(i + 1, r) /\ v5'[i] = v5[i + 1]
    BY <2>2 DEF Frames!FrameOf
  <2>6. \A i \in 1 .. Len(v5') : Frames!FrameOf(i, v3.id)' =>
          i + 1 \in 1 .. Len(v5) /\ Frames!FrameOf(i + 1, v3.id) /\ v5'[i] = v5[i + 1]
    BY <2>1, <2>2 DEF Frames!FrameOf
  <2>7. CASE UNCHANGED <<v2, v6>>
    BY <2>1, <2>7, AnswerTaken
  <2>8. CASE /\ v2.id # MaxRings /\ v2' = [id |-> v2.id + 1, bytes |-> Head(v5).bytes]
             /\ v6' = Append(v6, [what |-> "ring", ring |-> v2.id + 1, bytes |-> Head(v5).bytes])
    <3>. DEFINE e == [what |-> "ring", ring |-> v2.id + 1, bytes |-> Head(v5).bytes]
    <3>1. Head(v5).bytes \in Sizes
      BY <2>1, <2>2 DEF Frames!UiMessages
    <3>2. v2.id + 1 \in Frames!Rings
      BY <1>t, <2>8, RingsAssumption DEF Frames!Rings
    <3>3. e \in Frames!DecoderMessages
      BY <3>1, <3>2 DEF Frames!DecoderMessages
    <3>4. v6' = Append(v6, e) /\ e.what = "ring" /\ e.ring = v2.id + 1 /\ v2'.id = v2.id + 1
      BY <2>8
    <3>. HIDE DEF e
    <3>5. /\ Len(v6') = Len(v6) + 1 /\ v6'[Len(v6) + 1] = e
          /\ \A i \in 1 .. Len(v6) : v6'[i] = v6[i]
      BY <1>t, <3>3, <3>4, Longer
    <3>6. \A i \in 1 .. Len(v6') : (i \in 1 .. Len(v6) /\ v6'[i] = v6[i] /\ i < Len(v6) + 1) \/ (i = Len(v6) + 1 /\ v6'[i] = e)
      <4>1. \A i \in 1 .. Len(v6) + 1 : (i \in 1 .. Len(v6) /\ i < Len(v6) + 1) \/ i = Len(v6) + 1
        BY <1>t
      <4>2. \A i \in 1 .. Len(v6') : (i \in 1 .. Len(v6) /\ i < Len(v6) + 1) \/ i = Len(v6) + 1
        BY <3>5, <4>1
      <4>3. \A i : i = Len(v6) + 1 => v6'[i] = e
        BY <3>5
      <4>. QED BY <3>5, <4>2, <4>3
    <3>7. \A i \in 1 .. Len(v6') : \A r \in Frames!Rings : Frames!ReleaseOf(i, r)' =>
            i \in 1 .. Len(v6) /\ Frames!ReleaseOf(i, r) /\ v6'[i] = v6[i]
      BY <3>4, <3>6 DEF Frames!ReleaseOf
    <3>8. Frames!SegmentsInOrder'
      <4>1. v3.id <= v2'.id /\ v3.id < v2.id + 1 /\ v2.id <= v2'.id
        BY <1>0, <1>t, <3>4, RingsAssumption DEF Frames!SegmentsInOrder
      <4>2. \A r \in Frames!Rings : r <= v2.id => r <= v2'.id /\ r < v2.id + 1
        BY <1>t, <3>4, RingsAssumption DEF Frames!Rings
      <4>3. \A i \in 1 .. Len(v6) : Frames!RingAt(i) => v6[i].ring \in Frames!Rings
        <5>1. \A i \in 1 .. Len(v6) : v6[i] \in Frames!DecoderMessages
          BY <1>t
        <5>. QED BY <5>1 DEF Frames!RingAt, Frames!DecoderMessages
      <4>4. \A i \in 1 .. Len(v6') : Frames!RingAt(i)' =>
              \/ i \in 1 .. Len(v6) /\ Frames!RingAt(i) /\ v6'[i] = v6[i]
              \/ i = Len(v6) + 1 /\ v6'[i].ring = v2.id + 1
        BY <3>4, <3>6 DEF Frames!RingAt
      <4>5. \A i \in 1 .. Len(v6') : Frames!RingAt(i)' =>
              v3.id < v6'[i].ring /\ v6'[i].ring <= v2'.id
        <5>1. v2.id + 1 <= v2'.id
          BY <1>t, <3>4
        <5>. QED BY <1>0, <3>4, <4>1, <4>2, <4>3, <4>4, <5>1 DEF Frames!SegmentsInOrder
      <4>6. \A i, j \in 1 .. Len(v6') : Frames!RingAt(i)' /\ Frames!RingAt(j)' /\ i < j =>
              v6'[i].ring < v6'[j].ring
        <5>1. \A i \in 1 .. Len(v6') : ~(Len(v6) + 1 < i)
          BY <1>t, <3>5
        <5>. QED BY <1>0, <4>2, <4>3, <4>4, <5>1 DEF Frames!SegmentsInOrder
      <4>. QED BY <1>0, <2>1, <2>5, <3>7, <4>1, <4>5, <4>6 DEF Frames!SegmentsInOrder
    <3>9. Frames!SlotsAreHeld'
      <4>1. \A i \in 1 .. Len(v6') : Frames!ReleaseOf(i, v3.id)' =>
              i \in 1 .. Len(v6) /\ Frames!ReleaseOf(i, v3.id) /\ v6'[i] = v6[i]
        BY <2>1, <3>4, <3>6 DEF Frames!ReleaseOf
      <4>2. \A i \in 1 .. Len(v5') : Frames!FrameOf(i, v3.id)' =>
              v5'[i].slot \in v3.busy /\ v1[v3.id][v5'[i].slot] = v5'[i].number
        BY <1>0, <2>6 DEF Frames!SlotsAreHeld
      <4>3. \A i, j \in 1 .. Len(v5') :
              Frames!FrameOf(i, v3.id)' /\ Frames!FrameOf(j, v3.id)' /\ i # j =>
                v5'[i].slot # v5'[j].slot
        BY <1>0, <2>3, <2>6 DEF Frames!SlotsAreHeld
      <4>4. \A i \in 1 .. Len(v5'), j \in 1 .. Len(v6') :
              Frames!FrameOf(i, v3.id)' /\ Frames!ReleaseOf(j, v3.id)' => v5'[i].slot # v6'[j].slot
        BY <1>0, <2>6, <4>1 DEF Frames!SlotsAreHeld
      <4>5. \A i, j \in 1 .. Len(v6') :
              Frames!ReleaseOf(i, v3.id)' /\ Frames!ReleaseOf(j, v3.id)' /\ i # j =>
                v6'[i].slot # v6'[j].slot
        BY <1>0, <4>1 DEF Frames!SlotsAreHeld
      <4>6. \A i \in 1 .. Len(v6') : Frames!ReleaseOf(i, v3.id)' => v6'[i].slot \in v3.busy
        BY <1>0, <4>1 DEF Frames!SlotsAreHeld
      <4>. QED BY <2>1, <4>2, <4>3, <4>4, <4>5, <4>6 DEF Frames!SlotsAreHeld
    <3>10. Frames!NoSlotIsLost'
      <4>1. \A i \in 1 .. Len(v6) : i \in 1 .. Len(v6')
        BY <1>t, <3>5
      <4>2. \A i \in 1 .. Len(v5) : v5[i].what = "frame" =>
              i - 1 \in 1 .. Len(v5') /\ v5'[i - 1] = v5[i]
        BY <2>1, <2>2, <2>4
      <4>3. ASSUME NEW x \in v3.busy, NEW i \in 1 .. Len(v5),
                   v5[i].what = "frame" /\ v5[i].ring = v3.id /\ v5[i].slot = x
            PROVE  \E j \in 1 .. Len(v5') : v5'[j].what = "frame" /\ v5'[j].ring = v3.id /\ v5'[j].slot = x
        BY <4>2, <4>3
      <4>4. ASSUME NEW x \in v3.busy, NEW i \in 1 .. Len(v6),
                   v6[i].what = "release" /\ v6[i].ring = v3.id /\ v6[i].slot = x
            PROVE  \E j \in 1 .. Len(v6') : v6'[j].what = "release" /\ v6'[j].ring = v3.id /\ v6'[j].slot = x
        BY <3>5, <4>1, <4>4
      <4>. QED BY <1>0, <2>1, <4>3, <4>4 DEF Frames!NoSlotIsLost
    <3>11. Frames!PicturesAreWhole'
      BY <1>0, <2>1 DEF Frames!PicturesAreWhole
    <3>. QED BY <3>8, <3>9, <3>10, <3>11
  <2>. QED BY <1>4, <2>1, <2>7, <2>8 DEF Frames!ShareRing
<1>5. CASE Frames!RingReady
  BY <1>5, AnswerTaken DEF Frames!RingReady, Frames!Receive
<1>6. CASE Frames!ShowFrame
  <2>1. /\ v5 # <<>> /\ v5' = Tail(v5) /\ Head(v5).what = "frame" /\ UNCHANGED <<v1, v2, v3>>
    BY <1>6 DEF Frames!ShowFrame, Frames!Receive
  <2>2. /\ Len(v5') = Len(v5) - 1 /\ Head(v5) = v5[1] /\ 1 \in 1 .. Len(v5)
        /\ v5[1] \in Frames!UiMessages
        /\ \A i \in 1 .. Len(v5') : v5'[i] = v5[i + 1] /\ i + 1 \in 1 .. Len(v5) /\ 1 # i + 1
    BY <1>t, <2>1, Shorter
  <2>3. \A i, j \in 1 .. Len(v5') : i # j => i + 1 # j + 1
    OBVIOUS
  <2>4. /\ \A i \in 1 .. Len(v5) : i # 1 => i - 1 \in 1 .. Len(v5') /\ v5'[i - 1] = v5[i]
    <3>1. \A i \in 1 .. Len(v5) : i # 1 => i - 1 \in 1 .. Len(v5') /\ (i - 1) + 1 = i
      BY <1>t, <2>2
    <3>. QED BY <2>2, <3>1
  <2>5. \A i \in 1 .. Len(v5') : \A r \in Frames!Rings : Frames!FrameOf(i, r)' =>
          i + 1 \in 1 .. Len(v5) /\ Frames!FrameOf(i + 1, r) /\ v5'[i] = v5[i + 1]
    BY <2>2 DEF Frames!FrameOf
  <2>6. \A i \in 1 .. Len(v5') : Frames!FrameOf(i, v3.id)' =>
          i + 1 \in 1 .. Len(v5) /\ Frames!FrameOf(i + 1, v3.id) /\ v5'[i] = v5[i + 1]
    BY <2>1, <2>2 DEF Frames!FrameOf
  <2>. DEFINE e == [what |-> "release", ring |-> v5[1].ring, slot |-> v5[1].slot]
  <2>7. /\ v5[1].what = "frame" /\ v5[1].ring \in Frames!Rings /\ v5[1].slot \in Slots
        /\ v5[1].number \in {0, 1}
    BY <2>1, <2>2 DEF Frames!UiMessages
  <2>8. e \in Frames!DecoderMessages
    BY <2>7 DEF Frames!DecoderMessages
  <2>9. v6' = Append(v6, e) /\ e.what = "release" /\ e.ring = v5[1].ring /\ e.slot = v5[1].slot
    BY <1>6, <2>2 DEF Frames!ShowFrame
  <2>. HIDE DEF e
  <2>10. /\ Len(v6') = Len(v6) + 1 /\ v6'[Len(v6) + 1] = e
         /\ \A i \in 1 .. Len(v6) : v6'[i] = v6[i]
    BY <1>t, <2>8, <2>9, Longer
  <2>11. \A i \in 1 .. Len(v6') : (i \in 1 .. Len(v6) /\ v6'[i] = v6[i]) \/ (i = Len(v6) + 1 /\ v6'[i] = e)
    <3>1. \A i \in 1 .. Len(v6) + 1 : i \in 1 .. Len(v6) \/ i = Len(v6) + 1
      BY <1>t
    <3>2. \A i \in 1 .. Len(v6') : i \in 1 .. Len(v6) \/ i = Len(v6) + 1
      BY <2>10, <3>1
    <3>3. \A i : i = Len(v6) + 1 => v6'[i] = e
      BY <2>10
    <3>. QED BY <2>10, <3>2, <3>3
  <2>12. \A i \in 1 .. Len(v6) : i \in 1 .. Len(v6') /\ Len(v6) + 1 \in 1 .. Len(v6')
    BY <1>t, <2>10
  <2>13. Frames!SegmentsInOrder'
    <3>1. \A i \in 1 .. Len(v6') : Frames!RingAt(i)' =>
            i \in 1 .. Len(v6) /\ Frames!RingAt(i) /\ v6'[i] = v6[i]
      BY <2>9, <2>11 DEF Frames!RingAt
    <3>2. v5[1].ring <= v3.id
      BY <1>0, <2>2, <2>7 DEF Frames!SegmentsInOrder, Frames!FrameOf
    <3>3. \A i \in 1 .. Len(v6') : \A r \in Frames!Rings : Frames!ReleaseOf(i, r)' => r <= v3.id
      BY <1>0, <2>9, <2>11, <3>2 DEF Frames!SegmentsInOrder, Frames!ReleaseOf
    <3>. QED BY <1>0, <2>1, <2>5, <3>1, <3>3 DEF Frames!SegmentsInOrder
  <2>14. Frames!SlotsAreHeld'
    <3>1. \A i \in 1 .. Len(v6') : Frames!ReleaseOf(i, v3.id)' =>
            \/ i \in 1 .. Len(v6) /\ Frames!ReleaseOf(i, v3.id) /\ v6'[i] = v6[i]
            \/ i = Len(v6) + 1 /\ v6'[i].slot = v5[1].slot /\ Frames!FrameOf(1, v3.id)
      BY <2>1, <2>2, <2>7, <2>9, <2>11 DEF Frames!ReleaseOf, Frames!FrameOf
    <3>2. \A i \in 1 .. Len(v5') : Frames!FrameOf(i, v3.id)' =>
            v5'[i].slot \in v3.busy /\ v1[v3.id][v5'[i].slot] = v5'[i].number
      BY <1>0, <2>6 DEF Frames!SlotsAreHeld
    <3>3. \A i, j \in 1 .. Len(v5') :
            Frames!FrameOf(i, v3.id)' /\ Frames!FrameOf(j, v3.id)' /\ i # j =>
              v5'[i].slot # v5'[j].slot
      BY <1>0, <2>3, <2>6 DEF Frames!SlotsAreHeld
    <3>4. \A i \in 1 .. Len(v6') : Frames!ReleaseOf(i, v3.id)' => v6'[i].slot \in v3.busy
      BY <1>0, <2>2, <3>1 DEF Frames!SlotsAreHeld
    <3>5. \A i, j \in 1 .. Len(v6') :
            Frames!ReleaseOf(i, v3.id)' /\ Frames!ReleaseOf(j, v3.id)' /\ i # j =>
              v6'[i].slot # v6'[j].slot
      BY <1>0, <2>2, <3>1 DEF Frames!SlotsAreHeld
    <3>6. \A i \in 1 .. Len(v5') : Frames!FrameOf(i, v3.id)' =>
            v5'[i].slot # v5[1].slot \/ ~Frames!FrameOf(1, v3.id)
      BY <1>0, <2>2, <2>6 DEF Frames!SlotsAreHeld
    <3>7. \A i \in 1 .. Len(v5'), j \in 1 .. Len(v6') :
            Frames!FrameOf(i, v3.id)' /\ Frames!ReleaseOf(j, v3.id)' => v5'[i].slot # v6'[j].slot
      BY <1>0, <2>6, <3>1, <3>6 DEF Frames!SlotsAreHeld
    <3>. QED BY <2>1, <3>2, <3>3, <3>4, <3>5, <3>7 DEF Frames!SlotsAreHeld
  <2>15. Frames!NoSlotIsLost'
    <3>1. Len(v6) + 1 \in 1 .. Len(v6')
      BY <1>t, <2>10
    <3>2. \A i \in 1 .. Len(v6) : i \in 1 .. Len(v6')
      BY <1>t, <2>10
    <3>3. ASSUME NEW x \in v3.busy
          PROVE  \/ \E i \in 1 .. Len(v5') : v5'[i].what = "frame" /\ v5'[i].ring = v3.id /\ v5'[i].slot = x
                 \/ \E i \in 1 .. Len(v6') : v6'[i].what = "release" /\ v6'[i].ring = v3.id /\ v6'[i].slot = x
      <4>1. CASE \E i \in 1 .. Len(v5) : v5[i].what = "frame" /\ v5[i].ring = v3.id /\ v5[i].slot = x
        <5>1. PICK i \in 1 .. Len(v5) : v5[i].what = "frame" /\ v5[i].ring = v3.id /\ v5[i].slot = x
          BY <4>1
        <5>2. CASE i = 1
          BY <2>9, <2>10, <3>1, <5>1, <5>2
        <5>3. CASE i # 1
          BY <2>4, <5>1, <5>3
        <5>. QED BY <5>2, <5>3
      <4>2. CASE \E i \in 1 .. Len(v6) : v6[i].what = "release" /\ v6[i].ring = v3.id /\ v6[i].slot = x
        BY <2>10, <3>2, <4>2
      <4>. QED BY <1>0, <3>3, <4>1, <4>2 DEF Frames!NoSlotIsLost
    <3>. QED BY <2>1, <3>3 DEF Frames!NoSlotIsLost
  <2>16. Frames!PicturesAreWhole'
    <3>1. CASE v5[1].ring = v2.id
      <4>1. v8' = [number |-> v5[1].number, copy |-> v1[v2.id][v5[1].slot]]
        BY <1>6, <2>2, <3>1 DEF Frames!ShowFrame
      <4>2. v5[1].ring <= v3.id /\ v3.id <= v2.id
        BY <1>0, <2>2, <2>7 DEF Frames!SegmentsInOrder, Frames!FrameOf
      <4>3. v3.id = v2.id
        BY <1>t, <3>1, <4>2, RingsAssumption
      <4>4. v1[v3.id][v5[1].slot] = v5[1].number
        BY <1>0, <2>2, <2>7, <3>1, <4>3 DEF Frames!SlotsAreHeld, Frames!FrameOf
      <4>. QED BY <4>1, <4>3, <4>4 DEF Frames!PicturesAreWhole
    <3>2. CASE v5[1].ring # v2.id
      BY <1>0, <1>6, <2>2, <3>2 DEF Frames!ShowFrame, Frames!PicturesAreWhole
    <3>. QED BY <3>1, <3>2
  <2>. QED BY <2>13, <2>14, <2>15, <2>16
<1>. QED BY <1>1, <1>2, <1>3, <1>4, <1>5, <1>6 DEF Frames!Next

-----------------------------------------------------------------------------
(* MediaControl: v1 player, v2 channel, v3 feeds, v4 restart, v5 wire, v6 decoder *)

\* What comes after what in two sequences on end.
LEMMA OnEnd ==
  ASSUME NEW S, NEW s \in Seq(S), NEW t \in Seq(S)
  PROVE  /\ s \o t \in Seq(S) /\ Len(s) \in Nat /\ Len(t) \in Nat /\ Len(s \o t) = Len(s) + Len(t)
         /\ \A i \in 1 .. Len(s) : i \in 1 .. Len(s \o t) /\ (s \o t)[i] = s[i]
         /\ \A i \in 1 .. Len(t) : Len(s) + i \in 1 .. Len(s \o t) /\ (s \o t)[Len(s) + i] = t[i]
         /\ \A i \in 1 .. Len(s \o t) : i \in 1 .. Len(s) \/ (i - Len(s) \in 1 .. Len(t) /\ (s \o t)[i] = t[i - Len(s)])
<1>1. Len(s) \in Nat /\ Len(t) \in Nat
  OBVIOUS
<1>2. /\ s \o t \in Seq(S) /\ Len(s \o t) = Len(s) + Len(t)
      /\ \A i \in 1 .. Len(s) + Len(t) : (s \o t)[i] = IF i <= Len(s) THEN s[i] ELSE t[i - Len(s)]
  BY ConcatProperties
<1>3. \A i \in 1 .. Len(s) + Len(t) : i \in 1 .. Len(s) \/ (i - Len(s) \in 1 .. Len(t) /\ ~(i <= Len(s)))
  BY <1>1
<1>4. \A i \in 1 .. Len(s) : i \in 1 .. Len(s) + Len(t) /\ i <= Len(s)
  BY <1>1
<1>5. \A i \in 1 .. Len(t) : Len(s) + i \in 1 .. Len(s) + Len(t) /\ ~(Len(s) + i <= Len(s)) /\ (Len(s) + i) - Len(s) = i
  BY <1>1
<1>. QED BY <1>1, <1>2, <1>3, <1>4, <1>5

\* A command that opens nothing leaves what will be open.
LEMMA StillOpens ==
  ASSUME NEW p, NEW d, NEW cs \in Seq(Control!Commands), NEW ns \in Seq(Control!Commands),
         \A i \in 1 .. Len(ns) : ns[i].do # "open",
         Control!WillOpen(p, d, cs)
  PROVE  Control!WillOpen(p, d, cs \o ns)
<1>. DEFINE all == cs \o ns
<1>1. /\ Len(cs) \in Nat
      /\ \A i \in 1 .. Len(cs) : i \in 1 .. Len(all) /\ all[i] = cs[i]
      /\ \A i \in 1 .. Len(all) : i \in 1 .. Len(cs) \/ (i - Len(cs) \in 1 .. Len(ns) /\ all[i] = ns[i - Len(cs)])
  BY OnEnd
<1>. HIDE DEF all
<1>2. \A i \in 1 .. Len(all) : (i \in 1 .. Len(cs) /\ all[i] = cs[i]) \/ all[i].do # "open"
  BY <1>1
<1>3. Control!WillOpen(p, d, all)
  BY <1>1, <1>2 DEF Control!WillOpen
<1>. QED BY <1>3 DEF all

\* A seek leaves what will be done.
LEMMA StillDoes ==
  ASSUME NEW p, NEW d, NEW cs \in Seq(Control!Commands), NEW ns \in Seq(Control!Commands),
         \A i \in 1 .. Len(ns) : ns[i].do = "seek",
         Control!WillDo(p, d, cs)
  PROVE  Control!WillDo(p, d, cs \o ns)
<1>. DEFINE all == cs \o ns
<1>1. /\ Len(cs) \in Nat
      /\ \A i \in 1 .. Len(cs) : i \in 1 .. Len(all) /\ all[i] = cs[i]
      /\ \A i \in 1 .. Len(all) : i \in 1 .. Len(cs) \/ (i - Len(cs) \in 1 .. Len(ns) /\ all[i] = ns[i - Len(cs)])
  BY OnEnd
<1>. HIDE DEF all
<1>2. \A i \in 1 .. Len(all) : (i \in 1 .. Len(cs) /\ all[i] = cs[i]) \/ all[i].do = "seek"
  BY <1>1
<1>3. Control!WillDo(p, d, all)
  BY <1>1, <1>2 DEF Control!WillDo
<1>. QED BY <1>3 DEF all

\* What comes last decides what will be done.
LEMMA LastDecides ==
  ASSUME NEW p, NEW d, NEW cs \in Seq(Control!Commands), NEW c \in Control!Commands,
         Control!Gives(c) = p.want
  PROVE  Control!WillDo(p, d, cs \o <<c>>)
<1>. DEFINE all == cs \o <<c>>
<1>0. <<c>> \in Seq(Control!Commands) /\ Len(<<c>>) = 1 /\ <<c>>[1] = c
  OBVIOUS
<1>1. /\ Len(cs) \in Nat /\ Len(all) = Len(cs) + 1
      /\ all[Len(cs) + 1] = c
  <2>1. Len(cs) + 1 \in 1 .. Len(all) /\ all[Len(cs) + 1] = <<c>>[1]
    BY <1>0, OnEnd
  <2>. QED BY <1>0, <2>1, OnEnd
<1>. HIDE DEF all
<1>2. \A j \in 1 .. Len(all) : ~(j > Len(cs) + 1)
  BY <1>1
<1>3. Len(cs) + 1 \in 1 .. Len(all)
  BY <1>1
<1>4. Control!WillDo(p, d, all)
  BY <1>1, <1>2, <1>3 DEF Control!WillDo
<1>. QED BY <1>4 DEF all

\* An open that comes last decides what will be open.
LEMMA LastOpens ==
  ASSUME NEW p, NEW d, NEW cs \in Seq(Control!Commands), NEW c \in Control!Commands,
         c.do = "open", c.gen = p.gen, c.source = p.source
  PROVE  Control!WillOpen(p, d, cs \o <<c>>)
<1>. DEFINE all == cs \o <<c>>
<1>0. <<c>> \in Seq(Control!Commands) /\ Len(<<c>>) = 1 /\ <<c>>[1] = c
  OBVIOUS
<1>1. /\ Len(cs) \in Nat /\ Len(all) = Len(cs) + 1
      /\ all[Len(cs) + 1] = c
  <2>1. Len(cs) + 1 \in 1 .. Len(all) /\ all[Len(cs) + 1] = <<c>>[1]
    BY <1>0, OnEnd
  <2>. QED BY <1>0, <2>1, OnEnd
<1>. HIDE DEF all
<1>2. \A j \in 1 .. Len(all) : ~(j > Len(cs) + 1)
  BY <1>1
<1>3. Len(cs) + 1 \in 1 .. Len(all)
  BY <1>1
<1>4. Control!WillOpen(p, d, all)
  BY <1>1, <1>2, <1>3 DEF Control!WillOpen
<1>. QED BY <1>4 DEF all

\* A command that is obeyed does what it was there for.
LEMMA Obeyed ==
  ASSUME NEW p, NEW d, NEW e, NEW cs \in Seq(Control!Commands), cs # <<>>,
         p.want \in Control!States,
         Control!WillOpen(p, d, cs), Control!WillDo(p, d, cs),
         IF Head(cs).do = "open"
           THEN e.gen = Head(cs).gen /\ e.source = Head(cs).source /\ e.does = "stopped"
           ELSE e.gen = d.gen /\ e.source = d.source
                /\ e.does = IF Head(cs).do = "seek" THEN d.does ELSE Head(cs).do
  PROVE  Control!WillOpen(p, e, Tail(cs)) /\ Control!WillDo(p, e, Tail(cs))
<1>. DEFINE ts == Tail(cs)
<1>1. /\ Len(ts) = Len(cs) - 1 /\ Len(cs) \in Nat \ {0} /\ Head(cs) = cs[1]
      /\ \A i \in 1 .. Len(cs) - 1 : ts[i] = cs[i + 1]
  OBVIOUS
<1>. HIDE DEF ts
<1>2. /\ 1 \in 1 .. Len(cs)
      /\ \A i \in 1 .. Len(cs) : i = 1 \/ (i - 1 \in 1 .. Len(ts) /\ ts[i - 1] = cs[i] /\ i > 1)
  <2>1. \A i \in 1 .. Len(cs) : i = 1 \/ (i - 1 \in 1 .. Len(cs) - 1 /\ (i - 1) + 1 = i /\ i > 1)
    BY <1>1
  <2>. QED BY <1>1, <2>1
<1>3. /\ \A i \in 1 .. Len(ts) : i + 1 \in 1 .. Len(cs) /\ ts[i] = cs[i + 1] /\ i + 1 > 1
      /\ \A i, j \in 1 .. Len(ts) : j > i => j + 1 > i + 1
  BY <1>1
<1>4. Control!WillOpen(p, e, ts)
  <2>1. CASE \E i \in 1 .. Len(cs) :
               /\ cs[i].do = "open" /\ cs[i].gen = p.gen /\ cs[i].source = p.source
               /\ \A j \in 1 .. Len(cs) : j > i => cs[j].do # "open"
    <3>1. PICK i \in 1 .. Len(cs) :
               /\ cs[i].do = "open" /\ cs[i].gen = p.gen /\ cs[i].source = p.source
               /\ \A j \in 1 .. Len(cs) : j > i => cs[j].do # "open"
      BY <2>1
    <3>2. CASE i = 1
      <4>1. \A j \in 1 .. Len(ts) : ts[j].do # "open"
        BY <1>3, <3>1, <3>2
      <4>. QED BY <1>1, <3>1, <3>2, <4>1 DEF Control!WillOpen
    <3>3. CASE i # 1
      <4>1. i - 1 \in 1 .. Len(ts) /\ ts[i - 1] = cs[i]
        BY <1>2, <3>3
      <4>2. \A j \in 1 .. Len(ts) : j > i - 1 => ts[j].do # "open"
        <5>1. \A j \in 1 .. Len(ts) : j > i - 1 => j + 1 > i
          OBVIOUS
        <5>. QED BY <1>3, <3>1, <5>1
      <4>. QED BY <3>1, <4>1, <4>2 DEF Control!WillOpen
    <3>. QED BY <3>2, <3>3
  <2>2. CASE /\ \A j \in 1 .. Len(cs) : cs[j].do # "open"
             /\ d.gen = p.gen /\ d.source = p.source
    BY <1>1, <1>2, <1>3, <2>2 DEF Control!WillOpen
  <2>. QED BY <2>1, <2>2 DEF Control!WillOpen
<1>5. Control!WillDo(p, e, ts)
  <2>1. CASE \E i \in 1 .. Len(cs) :
               /\ Control!Gives(cs[i]) = p.want
               /\ \A j \in 1 .. Len(cs) : j > i => cs[j].do = "seek"
    <3>1. PICK i \in 1 .. Len(cs) :
               /\ Control!Gives(cs[i]) = p.want
               /\ \A j \in 1 .. Len(cs) : j > i => cs[j].do = "seek"
      BY <2>1
    <3>2. CASE i = 1
      <4>1. \A j \in 1 .. Len(ts) : ts[j].do = "seek"
        BY <1>3, <3>1, <3>2
      <4>2. e.does = p.want
        BY <1>1, <3>1, <3>2 DEF Control!Gives, Control!States
      <4>. QED BY <4>1, <4>2 DEF Control!WillDo
    <3>3. CASE i # 1
      <4>1. i - 1 \in 1 .. Len(ts) /\ ts[i - 1] = cs[i]
        BY <1>2, <3>3
      <4>2. \A j \in 1 .. Len(ts) : j > i - 1 => ts[j].do = "seek"
        <5>1. \A j \in 1 .. Len(ts) : j > i - 1 => j + 1 > i
          OBVIOUS
        <5>. QED BY <1>3, <3>1, <5>1
      <4>. QED BY <3>1, <4>1, <4>2 DEF Control!WillDo
    <3>. QED BY <3>2, <3>3
  <2>2. CASE (\A j \in 1 .. Len(cs) : cs[j].do = "seek") /\ d.does = p.want
    BY <1>1, <1>2, <1>3, <2>2 DEF Control!WillDo
  <2>. QED BY <2>1, <2>2 DEF Control!WillDo
<1>. QED BY <1>4, <1>5 DEF ts

\* At the start no decoder runs.
LEMMA ControlInit ==
  ASSUME Control!Init
  PROVE  Control!ControlInv
<1>. USE DEF Control!Init
<1>0. Control!NoDecoder \in Control!Decoders /\ Control!Down \in Control!Channels
  BY ControlAssumption DEF Control!NoDecoder, Control!Decoders, Control!States, Control!None,
    Control!Start,
     Control!Down, Control!Channels
<1>1. Control!TypeOK
  BY <1>0, ControlAssumption DEF Control!TypeOK, Control!Players, Control!Restarts,
    Control!States, Control!None, Control!Down
<1>2. Control!ChannelIsThere /\ Control!UnreadTells
  BY DEF Control!ChannelIsThere, Control!UnreadTells, Control!NoDecoder
<1>. QED BY <1>1, <1>2 DEF Control!ControlInv

\* What is sent comes after what is unread.
LEMMA Sent ==
  ASSUME Control!TypeOK, Control!ChannelIsThere, NEW ns \in Seq(Control!Commands), Control!Send(ns)
  PROVE  /\ v2' \in Control!Channels /\ v5' \in Seq(Control!Commands)
         /\ Len(v2'.waiting) <= MaxWire /\ Len(v5') <= MaxWire
         /\ v2'.up = v2.up /\ v2'.ready = v2.ready /\ (~v2'.ready => v5' = <<>>)
         /\ v6.alive => Control!Unread' = Control!Unread \o ns
<1>1. /\ v2 \in Control!Channels /\ v2.up \in BOOLEAN /\ v2.ready \in BOOLEAN
      /\ v2.waiting \in Seq(Control!Commands)
      /\ v5 \in Seq(Control!Commands) /\ Len(v2.waiting) <= MaxWire /\ Len(v5) <= MaxWire
      /\ Len(ns) \in Nat
  BY DEF Control!TypeOK, Control!Channels
<1>2. /\ v5 \o ns \in Seq(Control!Commands) /\ Len(v5 \o ns) = Len(v5) + Len(ns)
      /\ v2.waiting \o ns \in Seq(Control!Commands)
      /\ Len(v2.waiting \o ns) = Len(v2.waiting) + Len(ns)
  BY <1>1, OnEnd
<1>3. CASE v2.ready
  <2>1. /\ v2' = v2 /\ v5' \in {v5, v5 \o ns} /\ (v6.alive =>
             v5' = v5 \o ns) /\ Len(v5) + Len(ns) <= MaxWire
    BY <1>3 DEF Control!Send
  <2>. QED BY <1>1, <1>2, <1>3, <2>1 DEF Control!Unread
<1>4. CASE ~v2.ready
  <2>1. /\ v5' = v5 /\ Len(v2.waiting) + Len(ns) <= MaxWire
        /\ v2' = [v2 EXCEPT !.waiting = IF v2.up THEN v2.waiting \o ns ELSE v2.waiting]
    BY <1>4 DEF Control!Send
  <2>2. /\ v2' \in Control!Channels /\ v2'.up = v2.up /\ v2'.ready = v2.ready
        /\ v2'.waiting = IF v2.up THEN v2.waiting \o ns ELSE v2.waiting
    BY <1>1, <1>2, <2>1 DEF Control!Channels
  <2>3. v6.alive => v2.up
    BY DEF Control!ChannelIsThere
  <2>. QED BY <1>1, <1>2, <1>4, <2>1, <2>2, <2>3 DEF Control!Unread, Control!ChannelIsThere
<1>. QED BY <1>3, <1>4

\* A source that is opened waits for its feed; nothing is promised before.
LEMMA SourceOpened ==
  ASSUME Control!ControlInv, NEW p \in Control!Players, Control!OpenSource(p), v4' \in Control!Restarts
  PROVE  Control!ControlInv'
<1>0. Control!TypeOK /\ Control!ChannelIsThere
  BY DEF Control!ControlInv
<1>1. CASE /\ p.gen < MaxGens
           /\ v1' = [p EXCEPT !.gen = @ + 1, !.opened = FALSE]
           /\ v3' = "asking"
           /\ IF v2.up THEN UNCHANGED <<v2, v5, v6>>
              ELSE /\ v2' = [Control!Down EXCEPT !.up = TRUE]
                   /\ v6' = [Control!NoDecoder EXCEPT !.alive = TRUE]
                   /\ v5' = <<>>
  <2>1. p.gen + 1 \in 0 .. MaxGens
    BY <1>1, ControlAssumption DEF Control!Players
  <2>2. v1' \in Control!Players
    BY <1>1, <2>1 DEF Control!Players
  <2>3. CASE v2.up
    BY <1>0, <1>1, <2>2, <2>3 DEF Control!ControlInv, Control!TypeOK, Control!ChannelIsThere,
      Control!UnreadTells
  <2>4. CASE ~v2.up
    <3>0. /\ v2' = [Control!Down EXCEPT !.up = TRUE]
          /\ v6' = [Control!NoDecoder EXCEPT !.alive = TRUE] /\ v5' = <<>>
      BY <1>1, <2>4
    <3>1. v2' \in Control!Channels /\ v2'.up = TRUE /\ v2'.waiting = <<>>
      <4>1. Control!Down \in Control!Channels /\ Control!Down.waiting = <<>>
        <5>1. <<>> \in Seq(Control!Commands)
          OBVIOUS
        <5>. QED BY <5>1 DEF Control!Channels, Control!Down
      <4>. QED BY <3>0, <4>1 DEF Control!Channels
    <3>2. v6' \in Control!Decoders
      <4>1. Control!NoDecoder \in Control!Decoders
        BY ControlAssumption DEF Control!NoDecoder, Control!Decoders, Control!States,
          Control!None, Control!Start
      <4>. QED BY <3>0, <4>1 DEF Control!Decoders
    <3>. QED BY <1>0, <1>1, <2>2, <2>4, <3>1, <3>2, ControlAssumption
             DEF Control!ControlInv, Control!TypeOK, Control!ChannelIsThere, Control!UnreadTells
  <2>. QED BY <2>3, <2>4
<1>2. CASE /\ ~v2.up
           /\ v1' = [p EXCEPT !.failed = TRUE, !.opened = FALSE]
           /\ v3' = "none" /\ v5' = <<>>
           /\ UNCHANGED <<v2, v6>>
  <2>1. v1' \in Control!Players
    BY <1>2 DEF Control!Players
  <2>. QED BY <1>0, <1>2, <2>1, ControlAssumption DEF Control!ControlInv, Control!TypeOK,
    Control!ChannelIsThere, Control!UnreadTells
<1>. QED BY <1>1, <1>2 DEF Control!OpenSource

\* A decoder that is torn down takes with it what is unread.
LEMMA TornDown ==
  ASSUME Control!ControlInv, NEW p \in Control!Players, Control!Teardown(p), v4' \in Control!Restarts
  PROVE  Control!ControlInv'
<1>1. /\ Control!NoDecoder \in Control!Decoders /\ Control!Down \in Control!Channels
      /\ Control!Down.waiting = <<>>
  BY ControlAssumption DEF Control!NoDecoder, Control!Decoders, Control!States, Control!None,
    Control!Start,
     Control!Down, Control!Channels
<1>2. v1' \in Control!Players
  BY DEF Control!Teardown, Control!Players
<1>. QED BY <1>1, <1>2, ControlAssumption
     DEF Control!Teardown, Control!ControlInv, Control!TypeOK, Control!ChannelIsThere,
       Control!UnreadTells, Control!NoDecoder

\* What is sent when the feed is ready opens the source, and what was wanted meanwhile
\* comes last.
LEMMA OpeningTells ==
  ASSUME Control!TypeOK, NEW p, NEW d, NEW cs \in Seq(Control!Commands), NEW ns,
         p.gen = v1.gen, p.source = v1.source, p.want = v1.want,
         ns = <<Control!OpenCommand>> \o Control!SeekCommands
                \o (IF v1.want = "stopped" THEN <<>> ELSE <<Control!Do(v1.want)>>)
  PROVE  /\ ns \in Seq(Control!Commands) /\ Control!WillOpen(p, d, cs \o ns)
         /\ Control!WillDo(p, d, cs \o ns)
<1>. DEFINE a == <<Control!OpenCommand>>
            b == Control!SeekCommands
            c == IF v1.want = "stopped" THEN <<>> ELSE <<Control!Do(v1.want)>>
<1>0. /\ v1.gen \in 0 .. MaxGens /\ v1.source \in Sources \cup {Control!None}
      /\ v1.want \in Control!States /\ v1.seek \in Sources \cup {Control!None}
  BY DEF Control!TypeOK, Control!Players
<1>1. /\ Control!OpenCommand \in Control!Commands /\ Control!OpenCommand.do = "open"
      /\ Control!OpenCommand.gen = v1.gen /\ Control!OpenCommand.source = v1.source
      /\ a \in Seq(Control!Commands)
  BY <1>0 DEF Control!OpenCommand, Control!Commands
<1>2. /\ b \in Seq(Control!Commands)
      /\ \A i \in 1 .. Len(b) : b[i].do = "seek"
  <2>1. CASE v1.seek = Control!None
    BY <2>1 DEF Control!SeekCommands
  <2>2. CASE v1.seek # Control!None
    <3>1. Control!Seek(v1.seek) \in Control!Commands /\ Control!Seek(v1.seek).do = "seek"
      BY <1>0, ControlAssumption DEF Control!Seek, Control!Commands
    <3>2. b = <<Control!Seek(v1.seek)>>
      BY <2>2 DEF Control!SeekCommands
    <3>. QED BY <3>1, <3>2
  <2>. QED BY <2>1, <2>2
<1>3. v1.want # "stopped" =>
        Control!Do(v1.want) \in Control!Commands /\ Control!Do(v1.want).do = v1.want
  BY <1>0, ControlAssumption DEF Control!Do, Control!Commands
<1>4. c \in Seq(Control!Commands) /\ (v1.want # "stopped" => c = <<Control!Do(v1.want)>>) /\ (v1.want = "stopped" => c = <<>>)
  BY <1>3
<1>5. \A i \in 1 .. Len(c) : c[i].do # "open"
  BY <1>0, <1>3, <1>4 DEF Control!States
<1>6. Control!WillOpen(p, d, cs \o a) /\ cs \o a \in Seq(Control!Commands)
  BY <1>1, LastOpens
<1>7. v1.want = "stopped" => Control!WillDo(p, d, cs \o a)
  BY <1>1, LastDecides DEF Control!Gives
<1>. DEFINE one == cs \o a
            two == one \o b
            all == two \o c
<1>8. Control!WillOpen(p, d, one) /\ one \in Seq(Control!Commands) /\ (v1.want = "stopped" =>
        Control!WillDo(p, d, one))
  BY <1>6, <1>7
<1>. HIDE DEF a, b, c, one
<1>9. /\ Control!WillOpen(p, d, two) /\ two \in Seq(Control!Commands)
      /\ v1.want = "stopped" => Control!WillDo(p, d, two)
  <2>1. two \in Seq(Control!Commands)
    BY <1>2, <1>8, OnEnd
  <2>2. Control!WillOpen(p, d, two)
    BY <1>2, <1>8, StillOpens
  <2>3. v1.want = "stopped" => Control!WillDo(p, d, two)
    BY <1>2, <1>8, StillDoes
  <2>. QED BY <2>1, <2>2, <2>3
<1>. HIDE DEF two
<1>10. Control!WillOpen(p, d, all) /\ all \in Seq(Control!Commands)
  BY <1>4, <1>5, <1>9, StillOpens, OnEnd
<1>11. Control!WillDo(p, d, all)
  <2>1. CASE v1.want = "stopped"
    <3>1. all = two
      BY <1>4, <1>9, <2>1
    <3>. QED BY <1>9, <2>1, <3>1
  <2>2. CASE v1.want # "stopped"
    <3>1. Control!Gives(Control!Do(v1.want)) = p.want
      BY <1>0, <1>3, <2>2 DEF Control!Gives, Control!States
    <3>2. c = <<Control!Do(v1.want)>> /\ Control!Do(v1.want) \in Control!Commands
      BY <1>3, <1>4, <2>2
    <3>3. Control!WillDo(p, d, two \o <<Control!Do(v1.want)>>)
      BY <1>9, <3>1, <3>2, LastDecides
    <3>. QED BY <3>2, <3>3
  <2>. QED BY <2>1, <2>2
<1>12. all = cs \o ((a \o b) \o c) /\ (a \o b) \o c \in Seq(Control!Commands)
  <2>1. a \in Seq(Control!Commands) /\ b \in Seq(Control!Commands) /\ c \in Seq(Control!Commands)
    BY <1>1, <1>2, <1>4
  <2>2. a \o b \in Seq(Control!Commands) /\ (a \o b) \o c \in Seq(Control!Commands)
    BY <2>1, OnEnd
  <2>3. (cs \o a) \o b = cs \o (a \o b)
    BY <2>1, ConcatAssociative
  <2>4. (cs \o (a \o b)) \o c = cs \o ((a \o b) \o c)
    BY <2>1, <2>2, ConcatAssociative
  <2>. QED BY <2>2, <2>3, <2>4 DEF one, two
<1>. QED BY <1>10, <1>11, <1>12 DEF a, b, c

\* Every step keeps it: what is not yet read, with the decoder as it is, comes to what
\* the player wants.
LEMMA ControlSteps ==
  ASSUME Control!ControlInv, Control!Next
  PROVE  Control!ControlInv'
<1>0. /\ Control!TypeOK /\ Control!ChannelIsThere /\ Control!UnreadTells
      /\ v1 \in Control!Players /\ v6 \in Control!Decoders /\ v4 \in Control!Restarts
      /\ v2 \in Control!Channels
      /\ v5 \in Seq(Control!Commands) /\ v2.waiting \in Seq(Control!Commands)
      /\ Control!Unread \in Seq(Control!Commands)
      /\ v2.up \in BOOLEAN /\ v2.ready \in BOOLEAN
  BY DEF Control!ControlInv, Control!TypeOK, Control!Channels, Control!Unread
<1>1. ASSUME NEW source \in Sources \cup {Control!None}, Control!SetSource(source)
      PROVE  Control!ControlInv'
  <2>. DEFINE p == [v1 EXCEPT !.source = source, !.failed = FALSE]
  <2>1. p \in Control!Players
    BY <1>0, <1>1 DEF Control!Players
  <2>2. v4' \in Control!Restarts /\ (Control!Teardown(p) \/ Control!OpenSource(p))
    BY <1>0, <1>1 DEF Control!SetSource, Control!Restarts
  <2>. HIDE DEF p
  <2>. QED BY <2>1, <2>2, SourceOpened, TornDown
\* What the user wants and has sent.
<1>2. ASSUME NEW what \in Control!States, v1' = [v1 EXCEPT !.want = what], UNCHANGED <<v3, v4, v6>>,
             IF v1.opened THEN Control!Send(<<Control!Do(what)>>) ELSE UNCHANGED <<v2, v5>>
      PROVE  Control!ControlInv'
  <2>1. /\ v1' \in Control!Players /\ v1'.gen = v1.gen /\ v1'.source = v1.source
        /\ v1'.want = what /\ v1'.opened = v1.opened
    BY <1>0, <1>2 DEF Control!Players
  <2>2. CASE ~v1.opened
    BY <1>0, <1>2, <2>1, <2>2 DEF Control!ControlInv, Control!TypeOK, Control!ChannelIsThere,
      Control!UnreadTells
  <2>3. CASE v1.opened
    <3>. DEFINE c == Control!Do(what)
    <3>1. c \in Control!Commands /\ c.do = what /\ <<c>> \in Seq(Control!Commands)
      BY <1>2, ControlAssumption DEF Control!Do, Control!Commands
    <3>2. Control!Send(<<c>>)
      BY <1>2, <2>3
    <3>3. Control!Gives(c) = what /\ c.do # "open"
      BY <1>2, <3>1 DEF Control!Gives, Control!States
    <3>. HIDE DEF c
    <3>4. /\ v2' \in Control!Channels /\ v5' \in Seq(Control!Commands)
          /\ Len(v2'.waiting) <= MaxWire /\ Len(v5') <= MaxWire
          /\ v2'.up = v2.up /\ v2'.ready = v2.ready /\ (~v2'.ready => v5' = <<>>)
          /\ v6.alive => Control!Unread' = Control!Unread \o <<c>>
      BY <1>0, <3>1, <3>2, Sent
    <3>5. Control!WillDo(v1', v6, Control!Unread \o <<c>>)
      BY <1>0, <2>1, <3>1, <3>3, LastDecides
    <3>6. ASSUME v3 = "ready", v6.alive PROVE Control!WillOpen(v1', v6, Control!Unread \o <<c>>)
      <4>1. Control!WillOpen(v1', v6, Control!Unread)
        BY <1>0, <2>1, <3>6 DEF Control!UnreadTells, Control!WillOpen
      <4>2. \A i \in 1 .. Len(<<c>>) : <<c>>[i].do # "open"
        BY <3>3
      <4>. QED BY <1>0, <3>1, <4>1, <4>2, StillOpens
    <3>. QED BY <1>0, <1>2, <2>1, <2>3, <3>4, <3>5, <3>6
             DEF Control!ControlInv, Control!TypeOK, Control!ChannelIsThere, Control!UnreadTells
  <2>. QED BY <2>2, <2>3
<1>3. CASE Control!Play
  <2>. DEFINE p == [v1 EXCEPT !.want = "playing"]
  <2>1. CASE ~v2.up
    <3>1. [p EXCEPT !.failed = FALSE] \in Control!Players
      BY <1>0 DEF Control!Players, Control!States
    <3>2. Control!OpenSource([p EXCEPT !.failed = FALSE]) /\ v4' = v4
      BY <1>3, <2>1 DEF Control!Play
    <3>. QED BY <1>0, <3>1, <3>2, SourceOpened
  <2>2. CASE v2.up
    BY <1>2, <1>3, <2>2 DEF Control!Play, Control!States
  <2>. QED BY <1>0, <2>1, <2>2
<1>4. ASSUME NEW how \in {"paused", "stopped"}, Control!Halt(how) PROVE Control!ControlInv'
  BY <1>2, <1>4 DEF Control!Halt, Control!States
<1>5. CASE Control!SetPosition
  <2>1. CASE ~v1.opened
    <3>1. v1' = [v1 EXCEPT !.seek = v1.source] /\ UNCHANGED <<v2, v3, v4, v5, v6>>
      BY <1>5, <2>1 DEF Control!SetPosition
    <3>2. v1' \in Control!Players /\ v1'.opened = v1.opened
      BY <1>0, <3>1 DEF Control!Players
    <3>. QED BY <1>0, <2>1, <3>1, <3>2 DEF Control!ControlInv, Control!TypeOK,
      Control!ChannelIsThere, Control!UnreadTells
  <2>2. CASE v1.opened
    <3>. DEFINE c == Control!Seek(v1.source)
    <3>1. c \in Control!Commands /\ c.do = "seek" /\ <<c>> \in Seq(Control!Commands)
      BY <1>0, ControlAssumption DEF Control!Seek, Control!Commands, Control!Players
    <3>2. Control!Send(<<c>>) /\ UNCHANGED <<v1, v3, v4, v6>>
      BY <1>5, <2>2 DEF Control!SetPosition
    <3>3. \A i \in 1 .. Len(<<c>>) : <<c>>[i].do = "seek" /\ <<c>>[i].do # "open"
      BY <3>1
    <3>. HIDE DEF c
    <3>4. /\ v2' \in Control!Channels /\ v5' \in Seq(Control!Commands)
          /\ Len(v2'.waiting) <= MaxWire /\ Len(v5') <= MaxWire
          /\ v2'.up = v2.up /\ v2'.ready = v2.ready /\ (~v2'.ready => v5' = <<>>)
          /\ v6.alive => Control!Unread' = Control!Unread \o <<c>>
      BY <1>0, <3>1, <3>2, Sent
    <3>5. ASSUME v3 = "ready", v6.alive
          PROVE  /\ Control!WillOpen(v1, v6, Control!Unread \o <<c>>)
                 /\ Control!WillDo(v1, v6, Control!Unread \o <<c>>)
      BY <1>0, <3>1, <3>3, <3>5, StillOpens, StillDoes DEF Control!UnreadTells
    <3>. QED BY <1>0, <2>2, <3>2, <3>4, <3>5
             DEF Control!ControlInv, Control!TypeOK, Control!ChannelIsThere, Control!UnreadTells
  <2>. QED BY <2>1, <2>2
<1>6. CASE Control!FeedReady
  <2>. DEFINE ns == <<Control!OpenCommand>> \o Control!SeekCommands
                      \o (IF v1.want = "stopped" THEN <<>> ELSE <<Control!Do(v1.want)>>)
  <2>1. /\ v1' = [v1 EXCEPT !.opened = TRUE, !.seek = Control!None] /\ Control!Send(ns)
        /\ v3' = "ready" /\ UNCHANGED <<v4, v6>>
    BY <1>6 DEF Control!FeedReady
  <2>2. /\ v1' \in Control!Players /\ v1'.gen = v1.gen /\ v1'.source = v1.source
        /\ v1'.want = v1.want
        /\ v1'.opened = TRUE
    BY <1>0, <2>1 DEF Control!Players
  <2>. HIDE DEF ns
  <2>3. /\ ns \in Seq(Control!Commands)
        /\ Control!WillOpen(v1', v6, Control!Unread \o ns)
        /\ Control!WillDo(v1', v6, Control!Unread \o ns)
    BY <1>0, <2>2, OpeningTells DEF ns
  <2>4. /\ v2' \in Control!Channels /\ v5' \in Seq(Control!Commands)
        /\ Len(v2'.waiting) <= MaxWire /\ Len(v5') <= MaxWire
        /\ v2'.up = v2.up /\ v2'.ready = v2.ready /\ (~v2'.ready => v5' = <<>>)
        /\ v6.alive => Control!Unread' = Control!Unread \o ns
    BY <1>0, <2>1, <2>3, Sent
  <2>. QED BY <1>0, <2>1, <2>2, <2>3, <2>4
           DEF Control!ControlInv, Control!TypeOK, Control!ChannelIsThere, Control!UnreadTells
<1>7. CASE Control!FeedFails
  <2>1. v1' \in Control!Players
    BY <1>0, <1>7 DEF Control!FeedFails, Control!Players
  <2>. QED BY <1>0, <1>7, <2>1 DEF Control!FeedFails, Control!ControlInv, Control!TypeOK,
    Control!ChannelIsThere, Control!UnreadTells
<1>8. CASE Control!Hello
  <2>1. /\ v2' = [v2 EXCEPT !.ready = TRUE, !.waiting = <<>>] /\ v5' = v2.waiting /\ ~v2.ready
        /\ UNCHANGED <<v1, v3, v4, v6>>
    BY <1>8 DEF Control!Hello
  <2>2. <<>> \in Seq(Control!Commands) /\ Len(<<>>) = 0
    OBVIOUS
  <2>3. v2' \in Control!Channels /\ v2'.ready = TRUE /\ v2'.waiting = <<>> /\ v2'.up = v2.up
    BY <1>0, <2>1, <2>2 DEF Control!Channels
  <2>4. Control!Unread' = Control!Unread
    BY <2>1, <2>3 DEF Control!Unread
  <2>. QED BY <1>0, <2>1, <2>2, <2>3, <2>4, ControlAssumption
           DEF Control!ControlInv, Control!TypeOK, Control!ChannelIsThere, Control!UnreadTells
<1>9. CASE Control!OnChildLost
  <2>1. [v1 EXCEPT !.failed = TRUE] \in Control!Players
    BY <1>0 DEF Control!Players
  <2>2. Control!Teardown([v1 EXCEPT !.failed = TRUE]) /\ v4' = v4
    BY <1>9 DEF Control!OnChildLost
  <2>. QED BY <1>0, <2>1, <2>2, TornDown
<1>10. CASE Control!NoPicture
  <2>1. v4' \in Control!Restarts /\ UNCHANGED <<v1, v2, v3, v5, v6>>
    BY <1>0, <1>10 DEF Control!NoPicture, Control!Restarts, Control!Players
  <2>. QED BY <1>0, <2>1 DEF Control!ControlInv, Control!TypeOK, Control!ChannelIsThere,
    Control!UnreadTells, Control!Unread
<1>11. CASE Control!RestartInSoftware
  <2>1. v4' \in Control!Restarts
    BY <1>0, <1>11 DEF Control!RestartInSoftware, Control!Restarts, Control!None
  <2>2. CASE Control!Teardown([v1 EXCEPT !.failed = TRUE])
    <3>1. [v1 EXCEPT !.failed = TRUE] \in Control!Players
      BY <1>0 DEF Control!Players
    <3>. QED BY <2>1, <2>2, <3>1, TornDown
  <2>3. CASE /\ v1.gen < MaxGens
             /\ v1' = [v1 EXCEPT !.gen = @ + 1, !.opened = FALSE, !.seek = v4.at]
             /\ v3' = "asking" /\ v2' = [Control!Down EXCEPT !.up = TRUE]
             /\ v6' = [Control!NoDecoder EXCEPT !.alive = TRUE] /\ v5' = <<>>
    <3>1. v1.gen + 1 \in 0 .. MaxGens /\ v4.at \in Sources \cup {Control!None}
      BY <1>0, <2>3, ControlAssumption DEF Control!Players, Control!Restarts
    <3>2. v1' \in Control!Players
      BY <1>0, <2>3, <3>1 DEF Control!Players
    <3>3. v2' \in Control!Channels /\ v2'.up = TRUE /\ v2'.waiting = <<>>
      <4>1. Control!Down \in Control!Channels /\ Control!Down.waiting = <<>>
        <5>1. <<>> \in Seq(Control!Commands)
          OBVIOUS
        <5>. QED BY <5>1 DEF Control!Channels, Control!Down
      <4>. QED BY <2>3, <4>1 DEF Control!Channels
    <3>4. v6' \in Control!Decoders
      <4>1. Control!NoDecoder \in Control!Decoders
        BY ControlAssumption DEF Control!NoDecoder, Control!Decoders, Control!States,
          Control!None, Control!Start
      <4>. QED BY <2>3, <4>1 DEF Control!Decoders
    <3>. QED BY <2>1, <2>3, <3>2, <3>3, <3>4, ControlAssumption
             DEF Control!ControlInv, Control!TypeOK, Control!ChannelIsThere, Control!UnreadTells
  <2>. QED BY <1>11, <2>2, <2>3 DEF Control!RestartInSoftware
\* What the decoder notes about itself.
<1>12. ASSUME UNCHANGED <<v1, v2, v3, v4, v5>>, v6' \in Control!Decoders, v6'.alive = v6.alive,
              v6'.gen = v6.gen, v6'.source = v6.source, v6'.does = v6.does
       PROVE  Control!ControlInv'
  <2>1. Control!Unread' = Control!Unread
    BY <1>12 DEF Control!Unread
  <2>2. v3 = "ready" /\ v6.alive =>
          Control!WillOpen(v1, v6', Control!Unread) /\ Control!WillDo(v1, v6', Control!Unread)
    BY <1>0, <1>12 DEF Control!UnreadTells, Control!WillOpen, Control!WillDo
  <2>. QED BY <1>0, <1>12, <2>1, <2>2 DEF Control!ControlInv, Control!TypeOK,
    Control!ChannelIsThere, Control!UnreadTells
<1>13. CASE Control!SaysHello
  BY <1>0, <1>12, <1>13 DEF Control!SaysHello, Control!Decoders
<1>14. CASE Control!PictureMissing
  BY <1>0, <1>12, <1>14 DEF Control!PictureMissing, Control!Decoders
<1>15. CASE Control!Crashes
  <2>1. v6' \in Control!Decoders /\ v6'.alive = FALSE /\ v5' = <<>> /\ UNCHANGED <<v1, v2, v3, v4>>
    BY <1>0, <1>15 DEF Control!Crashes, Control!Decoders
  <2>. QED BY <1>0, <2>1, ControlAssumption DEF Control!ControlInv, Control!TypeOK,
    Control!ChannelIsThere, Control!UnreadTells
<1>16. CASE Control!Obeys
  <2>1. v6.alive /\ v5 # <<>> /\ v5' = Tail(v5) /\ UNCHANGED <<v1, v2, v3, v4>> /\ v2.ready
    BY <1>0, <1>16 DEF Control!Obeys, Control!ChannelIsThere
  <2>2. v5' \in Seq(Control!Commands) /\ Len(v5') <= MaxWire /\ Head(v5) \in Control!Commands
    <3>1. /\ v5' \in Seq(Control!Commands) /\ Len(v5') = Len(v5) - 1 /\ Len(v5) \in Nat
          /\ Head(v5) \in Control!Commands
      BY <1>0, <2>1
    <3>. QED BY <1>0, <3>1, ControlAssumption DEF Control!TypeOK
  <2>3. /\ v6' = CASE Head(v5).do = "open" -> [v6 EXCEPT !.gen = Head(v5).gen, !.source = Head(v5).source,
                                                          !.does = "stopped", !.at = Control!Start]
                    [] Head(v5).do = "seek" -> [v6 EXCEPT !.at = Head(v5).source]
                    [] OTHER -> [v6 EXCEPT !.does = Head(v5).do]
    BY <1>16 DEF Control!Obeys
  <2>4. /\ v6' \in Control!Decoders /\ v6'.alive = v6.alive
        /\ IF Head(v5).do = "open"
             THEN v6'.gen = Head(v5).gen /\ v6'.source = Head(v5).source /\ v6'.does = "stopped"
             ELSE v6'.gen = v6.gen /\ v6'.source = v6.source
                  /\ v6'.does = IF Head(v5).do = "seek" THEN v6.does ELSE Head(v5).do
    <3>1. CASE Head(v5).do = "open"
      BY <1>0, <2>2, <2>3, <3>1 DEF Control!Decoders, Control!Commands, Control!States
    <3>2. CASE Head(v5).do = "seek"
      BY <1>0, <2>2, <2>3, <3>2 DEF Control!Decoders, Control!Commands
    <3>3. CASE Head(v5).do # "open" /\ Head(v5).do # "seek"
      BY <1>0, <2>2, <2>3, <3>3 DEF Control!Decoders, Control!Commands
    <3>. QED BY <3>1, <3>2, <3>3
  <2>5. ASSUME v3 = "ready"
        PROVE Control!WillOpen(v1, v6', Tail(v5)) /\ Control!WillDo(v1, v6', Tail(v5))
    <3>1. Control!WillOpen(v1, v6, v5) /\ Control!WillDo(v1, v6, v5)
      BY <1>0, <2>1, <2>5 DEF Control!UnreadTells, Control!Unread
    <3>2. v1.want \in Control!States
      BY <1>0 DEF Control!Players
    <3>. QED BY <1>0, <2>1, <2>4, <3>1, <3>2, Obeyed
  <2>. QED BY <1>0, <2>1, <2>2, <2>4, <2>5
           DEF Control!ControlInv, Control!TypeOK, Control!ChannelIsThere, Control!UnreadTells,
             Control!Unread
<1>. QED BY <1>1, <1>3, <1>4, <1>5, <1>6, <1>7, <1>8, <1>9, <1>10, <1>11, <1>13, <1>14, <1>15, <1>16
         DEF Control!Next

\* With nothing unread it plays what is wanted.
LEMMA ControlPromises ==
  ASSUME Control!ControlInv
  PROVE  Control!TypeOK /\ Control!PlaysWhatIsWanted
<1>1. v3 = "ready" /\ v2.ready /\ v5 = <<>> /\ v6.alive =>
        Control!WillOpen(v1, v6, <<>>) /\ Control!WillDo(v1, v6, <<>>)
  BY DEF Control!ControlInv, Control!UnreadTells, Control!Unread
<1>. QED BY <1>1 DEF Control!ControlInv, Control!PlaysWhatIsWanted, Control!WillOpen, Control!WillDo

-----------------------------------------------------------------------------
(* WatchDesk: v1 torrent, v2 watch, v3 pick, v4 pickedFiles, v5 held, v6 waiting,
   v7 players, v8 asks, v9 alone, v10 owed, v11 wrong *)

\* A set of numbers that is not empty has a least one.
LEMMA Least ==
  ASSUME NEW S \in SUBSET Nat, S # {}
  PROVE  \E x \in S : \A y \in S : x <= y
<1>1. PICK x \in S : \A y \in S : ~ (<<y, x>> \in OpToRel(<, Nat))
  BY WFMin, NatLessThanWellFounded
<1>2. \A y \in S : ~(y < x)
  BY <1>1 DEF OpToRel
<1>. QED BY <1>2

\* A file that is found is one of the pack that was not set aside; with none found all of
\* them were.
LEMMA FileFound ==
  ASSUME NEW h, NEW target \in Videos \cup {Desk!None}
  PROVE  /\ Desk!PickFile(h, target) \in Videos \cup {Desk!None}
         /\ Desk!PickFile(h, target) = Desk!None => \A f \in Videos : <<h, f>> \in v5
         /\ target # Desk!None /\ <<h, target>> \notin v5 => Desk!PickFile(h, target) = target
<1>. DEFINE fs == {f \in Videos : <<h, f>> \notin v5}
<1>1. Desk!BestVideo(h) = IF fs = {} THEN Desk!None ELSE CHOOSE f \in fs : \A g \in fs : f <= g
  BY Zenon DEF Desk!BestVideo
<1>2. fs # {} => \E f \in fs : \A g \in fs : f <= g
  BY Least, DeskAssumption
<1>3. fs # {} => Desk!BestVideo(h) \in fs
  BY <1>1, <1>2
<1>4. \A f \in fs : f \in Videos /\ f # Desk!None
  BY DeskAssumption DEF Desk!None
<1>5. Desk!BestVideo(h) \in Videos \cup {Desk!None} /\ (Desk!BestVideo(h) = Desk!None => fs = {})
  BY <1>1, <1>3, <1>4
<1>. QED BY <1>5 DEF Desk!PickFile

\* The lowest number of some; BestVideo of WatchDesk takes it of the files that are left.
Lowest(fs) == IF fs = {} THEN 0 ELSE CHOOSE f \in fs : \A g \in fs : f <= g

\* What is found changes only when a file of the same torrent is set aside.
LEMMA FoundAgain ==
  ASSUME NEW h, \A f \in Videos : <<h, f>> \in v5' <=> <<h, f>> \in v5
  PROVE  \A x \in Videos \cup {Desk!None} : Desk!PickFile(h, x)' = Desk!PickFile(h, x)
<1>1. {f \in Videos : <<h, f>> \notin v5'} = {f \in Videos : <<h, f>> \notin v5}
  OBVIOUS
<1>2. Desk!BestVideo(h)' = Desk!BestVideo(h)
  <2>. DEFINE fs == {f \in Videos : <<h, f>> \notin v5}
              fs1 == {f \in Videos : <<h, f>> \notin v5'}
  <2>1. Desk!BestVideo(h) = Lowest(fs)
    BY Zenon DEF Desk!BestVideo, Desk!None, Lowest
  <2>2. Desk!BestVideo(h)' = Lowest(fs1)
    BY Zenon DEF Desk!BestVideo, Desk!None, Lowest
  <2>3. fs1 = fs
    BY <1>1
  <2>. QED BY <2>1, <2>2, <2>3
<1>3. ASSUME NEW x \in Videos \cup {Desk!None} PROVE Desk!PickFile(h, x)' = Desk!PickFile(h, x)
  <2>1. CASE x = Desk!None
    BY <1>2, <2>1 DEF Desk!PickFile
  <2>2. CASE x # Desk!None
    BY <1>2, <1>3, <2>2 DEF Desk!PickFile
  <2>. QED BY <2>1, <2>2
<1>. QED BY <1>3

\* At the first launch nothing is watched, picked or owed.
LEMMA DeskInit ==
  ASSUME Desk!Init
  PROVE  Desk!DeskInv
<1>. USE DEF Desk!Init
<1>1. /\ Desk!Gone \in Desk!Torrents /\ Desk!NoWatch \in Desk!Watches
      /\ Desk!NoPick \in Desk!Picks /\ Desk!NoWindow.hash \in Watched
  BY DeskAssumption DEF Desk!Gone, Desk!Torrents, Desk!NoWatch, Desk!Watches, Desk!NoPick,
    Desk!Picks, Desk!NoWindow,
     Desk!None, Desk!NoPeers, Desk!NoMeta, Desk!NoList
<1>2. Desk!TypeOK
  BY <1>1, DeskAssumption DEF Desk!TypeOK, Desk!NoWindow, Desk!NoPeers
<1>3. Desk!WaitingIsWatched /\ Desk!WatchIsTrue /\ Desk!WaitedIsFetched /\ Desk!PlayersAreHere
  BY DEF Desk!WaitingIsWatched, Desk!WatchIsTrue, Desk!WaitedIsFetched, Desk!PlayersAreHere,
    Desk!NoWatch, Desk!NoWindow
<1>4. Desk!PicksAreWanted
  BY DEF Desk!PicksAreWanted, Desk!OwedIsWanted
<1>5. ASSUME NEW h \in Watched PROVE Desk!WatchKept(h) /\ Desk!PicksKept(h)
  BY <1>5 DEF Desk!WatchKept, Desk!PicksKept, Desk!NoWatch, Desk!NoPick, Desk!Gone
<1>. QED BY <1>2, <1>3, <1>4, <1>5 DEF Desk!DeskInv, Desk!WatchIsSound

\* A torrent that a step is not about keeps all that is kept of it.
LEMMA OthersKept ==
  ASSUME Desk!TypeOK, NEW h \in Watched, Desk!WatchKept(h), Desk!PicksKept(h), Desk!OwedIsWanted(h),
         v1'[h] = v1[h], v2'[h] = v2[h], v3'[h] = v3[h], v4'[h] = v4[h], v9'[h] = v9[h], v10'[h] = v10[h],
         \A f \in Videos : <<h, f>> \in v5' <=> <<h, f>> \in v5
  PROVE  Desk!WatchKept(h)' /\ Desk!PicksKept(h)' /\ Desk!OwedIsWanted(h)'
<1>1. v2[h].target \in Videos \cup {Desk!None} /\ v10[h] \subseteq Videos \cup {0}
  BY DEF Desk!TypeOK, Desk!Watches, Desk!None
<1>2. Desk!PickFile(h, v2[h].target)' = Desk!PickFile(h, v2[h].target)
  <2>1. \A x \in Videos \cup {Desk!None} : Desk!PickFile(h, x)' = Desk!PickFile(h, x)
    BY FoundAgain
  <2>. QED BY <1>1, <2>1
<1>3. Desk!WatchKept(h)'
  BY <1>2 DEF Desk!WatchKept, Desk!Prepped
<1>4. Desk!PicksKept(h)'
  BY <1>1 DEF Desk!PicksKept
<1>5. Desk!OwedIsWanted(h)'
  BY DEF Desk!OwedIsWanted, Desk!Here
<1>. QED BY <1>3, <1>4, <1>5

\* One poll of a watch that has found nothing but the file it is for: it goes on, it ends
\* and tells, or it ends and plays that file, which then is all that is wanted; and it
\* tells that nobody has the file only after the limit (pollPendingWatch).
LEMMA WatchPolled ==
  ASSUME Desk!TypeOK, NEW h \in Watched, NEW t \in Desk!Torrents, NEW d \in {0, 1}, NEW r,
         r = Desk!WatchPoll(h, t, d), NEW w0, w0 = v2[h],
         NEW found, found = Desk!PickFile(h, w0.target),
         w0.on /\ t.here /\ w0.picked # Desk!None => w0.picked = found,
         w0.on /\ t.here /\ w0.prepped => found # Desk!None /\ t.prio = Desk!Prepped(t, found).prio,
         w0.on /\ w0.quiet => w0.since <= v9[h]
  PROVE  /\ /\ r.w \in Desk!Watches /\ r.t \in Desk!Torrents
            /\ r.t.here = t.here /\ r.t.meta = t.meta /\ r.t.have = t.have
            /\ r.plays \in Videos \cup {Desk!None} /\ r.told \in BOOLEAN /\ ~r.early
         /\ ~w0.on => r.w = w0 /\ r.t = t /\ ~r.told /\ r.plays = Desk!None
         /\ w0.on => \/ r.w.on /\ ~r.told /\ r.plays = Desk!None
                     \/ r.w = Desk!NoWatch /\ (r.told \/ r.plays # Desk!None)
         /\ r.plays # Desk!None =>
              /\ w0.on /\ r.w = Desk!NoWatch /\ Desk!Here(t)
              /\ r.plays = found
              /\ r.t.prio = Desk!Prepped(t, r.plays).prio
         /\ w0.on /\ r.w.on =>
              /\ r.w.target = w0.target
              /\ t.here /\ r.w.picked # Desk!None => r.w.picked = found
              /\ t.here /\ r.w.prepped =>
                   found # Desk!None /\ r.t.prio = Desk!Prepped(t, found).prio
              /\ r.w.quiet => ~Desk!Peers(t) /\ r.w.since <= Desk!Fewer(v9[h] + d, Desk!NoPeers)
         /\ r.t.prio # t.prio => Desk!Here(t)
<1>. DEFINE w1 == [w0 EXCEPT !.age = Desk!Fewer(@ + d, Desk!NoMeta + 1),
                             !.since = IF w0.quiet THEN Desk!Fewer(@ + d, Desk!NoPeers) ELSE 0]
            f == Desk!WatchFile(h, t, w1)
            w2 == IF t.here THEN Desk!Quiet(t, w1) ELSE w1
            w3 == [w2 EXCEPT !.picked = f, !.prepped = TRUE]
            t3 == IF w2.prepped THEN t ELSE Desk!Prepped(t, f)
            Kept == /\ r.w \in Desk!Watches /\ r.t \in Desk!Torrents
                    /\ r.t.here = t.here /\ r.t.meta = t.meta /\ r.t.have = t.have
                    /\ r.plays \in Videos \cup {Desk!None} /\ r.told \in BOOLEAN /\ ~r.early
            Idle == ~w0.on => r.w = w0 /\ r.t = t /\ ~r.told /\ r.plays = Desk!None
            Ends == w0.on => \/ r.w.on /\ ~r.told /\ r.plays = Desk!None
                             \/ r.w = Desk!NoWatch /\ (r.told \/ r.plays # Desk!None)
            Plays == r.plays # Desk!None =>
                       /\ w0.on /\ r.w = Desk!NoWatch /\ Desk!Here(t)
                       /\ r.plays = found
                       /\ r.t.prio = Desk!Prepped(t, r.plays).prio
            GoesOn == w0.on /\ r.w.on =>
                        /\ r.w.target = w0.target
                        /\ t.here /\ r.w.picked # Desk!None => r.w.picked = found
                        /\ t.here /\ r.w.prepped =>
                             found # Desk!None /\ r.t.prio = Desk!Prepped(t, found).prio
                        /\ r.w.quiet =>
                             ~Desk!Peers(t) /\ r.w.since <= Desk!Fewer(v9[h] + d, Desk!NoPeers)
            Changes == r.t.prio # t.prio => Desk!Here(t)
            Good == Kept /\ Idle /\ Ends /\ Plays /\ GoesOn /\ Changes
<1>1. r = IF ~w0.on THEN Desk!NothingNew(w0, t)
          ELSE IF t.here /\ w2.quiet /\ w2.since >= Desk!NoPeers
          THEN [Desk!NothingNew(Desk!NoWatch, t) EXCEPT !.told = TRUE, !.early = v9[h] + d < Desk!NoPeers]
          ELSE IF f = Desk!None
          THEN IF w2.age > Desk!NoMeta \/ (~t.here /\ w2.age > Desk!NoRow)
               THEN [Desk!NothingNew(Desk!NoWatch, t) EXCEPT !.told = TRUE]
               ELSE Desk!NothingNew(w2, t)
          ELSE IF Desk!Completed(t) \/ Desk!Ready(t, f)
          THEN [Desk!NothingNew(Desk!NoWatch, t3) EXCEPT !.plays = f]
          ELSE Desk!NothingNew(w3, [t3 EXCEPT !.near = @ \cup {f}])
  BY DEF Desk!WatchPoll
<1>2. /\ w0 \in Desk!Watches /\ w0.target \in Videos \cup {Desk!None} /\ w0.age \in 0 .. 4
      /\ w0.since \in 0 .. 2
      /\ w0.quiet \in BOOLEAN /\ w0.prepped \in BOOLEAN /\ w0.picked \in Videos \cup {Desk!None}
      /\ v9[h] \in 0 .. 2 /\ w0.on \in BOOLEAN
  BY DEF Desk!TypeOK, Desk!Watches, Desk!NoMeta, Desk!NoPeers
<1>3. found \in Videos \cup {Desk!None}
  BY <1>2, FileFound
<1>4. /\ w1 \in Desk!Watches /\ w1.on = w0.on /\ w1.target = w0.target /\ w1.picked = w0.picked
      /\ w1.prepped = w0.prepped /\ w1.quiet = w0.quiet
      /\ w1.since = IF w0.quiet THEN Desk!Fewer(w0.since + d, 2) ELSE 0
  <2>1. Desk!Fewer(w0.age + d, Desk!NoMeta + 1) \in 0 .. Desk!NoMeta + 1
    BY <1>2 DEF Desk!Fewer, Desk!NoMeta
  <2>2. (IF w0.quiet THEN Desk!Fewer(w0.since + d, Desk!NoPeers) ELSE 0) \in 0 .. Desk!NoPeers
    BY <1>2 DEF Desk!Fewer, Desk!NoPeers
  <2>. QED BY <1>2, <2>1, <2>2 DEF Desk!Watches, Desk!NoPeers
<1>. HIDE DEF w1
<1>5. /\ w2 \in Desk!Watches /\ w2.on = w0.on /\ w2.target = w0.target /\ w2.picked = w0.picked
      /\ w2.prepped = w0.prepped
      /\ w2.quiet /\ t.here => ~Desk!Peers(t)
      /\ w2.quiet /\ w0.quiet => w2.since = Desk!Fewer(w0.since + d, 2)
      /\ w2.quiet /\ ~w0.quiet => w2.since = 0
  <2>1. CASE ~t.here
    BY <1>4, <2>1 DEF Desk!Peers
  <2>2. CASE t.here /\ Desk!Peers(t)
    <3>1. w2 = [w1 EXCEPT !.quiet = FALSE, !.since = 0]
      BY <2>2 DEF Desk!Quiet
    <3>. HIDE DEF w2
    <3>0. 0 \in 0 .. Desk!NoPeers
      BY DEF Desk!NoPeers
    <3>2. /\ w2.on = w1.on /\ w2.target = w1.target /\ w2.picked = w1.picked
          /\ w2.prepped = w1.prepped
          /\ w2.quiet = FALSE
      BY <1>4, <3>1 DEF Desk!Watches
    <3>3. w2 \in Desk!Watches
      BY <1>4, <3>0, <3>1 DEF Desk!Watches
    <3>. QED BY <1>4, <3>2, <3>3
  <2>3. CASE t.here /\ ~Desk!Peers(t)
    <3>1. w2 = [w1 EXCEPT !.quiet = TRUE]
      BY <2>3 DEF Desk!Quiet
    <3>. HIDE DEF w2
    <3>. QED BY <1>2, <1>4, <2>3, <3>1 DEF Desk!Watches
  <2>. QED BY <2>1, <2>2, <2>3
<1>6. /\ Desk!Here(t) => f = (IF w0.picked # Desk!None THEN w0.picked ELSE found)
      /\ ~Desk!Here(t) => f = Desk!None
  BY <1>4 DEF Desk!WatchFile
<1>7. f # Desk!None /\ w0.on => Desk!Here(t) /\ f = found /\ f \in Videos
  BY <1>3, <1>6 DEF Desk!Here
<1>. HIDE DEF w2, f
<1>8. w2.quiet => w2.since <= Desk!Fewer(v9[h] + d, 2) \/ ~w0.on
  BY <1>2, <1>5 DEF Desk!Fewer
<1>9. w0.on /\ t.here /\ w2.quiet /\ w2.since >= 2 => ~(v9[h] + d < 2)
  BY <1>2, <1>5, <1>8 DEF Desk!Fewer
<1>10. f # Desk!None /\ w0.on =>
         /\ t3 \in Desk!Torrents /\ t3.here = t.here /\ t3.meta = t.meta /\ t3.have = t.have
         /\ t3.prio = Desk!Prepped(t, found).prio
  <2>. SUFFICES ASSUME f # Desk!None, w0.on
                PROVE  /\ t3 \in Desk!Torrents /\ t3.here = t.here /\ t3.meta = t.meta
                       /\ t3.have = t.have
                       /\ t3.prio = Desk!Prepped(t, found).prio
    OBVIOUS
  <2>1. CASE w2.prepped
    BY <1>5, <1>7, <2>1 DEF Desk!Here
  <2>2. CASE ~w2.prepped
    BY <1>7, <2>2 DEF Desk!Prepped, Desk!Torrents
  <2>. QED BY <2>1, <2>2
<1>. HIDE DEF t3
<1>a. /\ w0.on /\ t.here /\ w0.picked # Desk!None => w0.picked = found
      /\ w0.on /\ t.here /\ w0.prepped => found # Desk!None /\ t.prio = Desk!Prepped(t, found).prio
  OBVIOUS
<1>11. ASSUME ~w0.on PROVE Good
  <2>1. r.w = w0 /\ r.t = t /\ r.told = FALSE /\ r.early = FALSE /\ r.plays = Desk!None
    BY <1>1, <1>11 DEF Desk!NothingNew
  <2>. QED BY <1>2, <1>11, <2>1
<1>12. ASSUME w0.on /\ t.here /\ w2.quiet /\ w2.since >= Desk!NoPeers PROVE Good
  <2>1. /\ r.w = Desk!NoWatch /\ r.t = t /\ r.told = TRUE /\ r.early = (v9[h] + d < 2)
        /\ r.plays = Desk!None
    BY <1>1, <1>12 DEF Desk!NothingNew, Desk!NoPeers
  <2>2. Desk!NoWatch \in Desk!Watches /\ Desk!NoWatch.on = FALSE
    BY DEF Desk!NoWatch, Desk!Watches, Desk!NoPeers, Desk!NoMeta, Desk!None
  <2>. QED BY <1>9, <1>12, <2>1, <2>2 DEF Desk!NoPeers
<1>13. ASSUME w0.on /\ ~(t.here /\ w2.quiet /\ w2.since >= Desk!NoPeers) /\ f = Desk!None PROVE Good
  <2>1. \/ r = [Desk!NothingNew(Desk!NoWatch, t) EXCEPT !.told = TRUE]
        \/ r = Desk!NothingNew(w2, t)
    BY <1>1, <1>13
  <2>2. Desk!NoWatch \in Desk!Watches /\ Desk!NoWatch.on = FALSE
    BY DEF Desk!NoWatch, Desk!Watches, Desk!NoPeers, Desk!NoMeta, Desk!None
  <2>3. CASE r = [Desk!NothingNew(Desk!NoWatch, t) EXCEPT !.told = TRUE]
    <3>1. r.w = Desk!NoWatch /\ r.t = t /\ r.told = TRUE /\ r.early = FALSE /\ r.plays = Desk!None
      BY <2>3 DEF Desk!NothingNew
    <3>. QED BY <1>13, <2>2, <3>1
  <2>4. CASE r = Desk!NothingNew(w2, t)
    <3>1. r.w = w2 /\ r.t = t /\ r.told = FALSE /\ r.early = FALSE /\ r.plays = Desk!None
      BY <2>4 DEF Desk!NothingNew
    <3>2. w2.quiet => ~Desk!Peers(t) /\ w2.since <= Desk!Fewer(v9[h] + d, Desk!NoPeers)
      BY <1>5, <1>8, <1>13 DEF Desk!NoPeers, Desk!Peers
    <3>3. t.here /\ w2.picked # Desk!None => w2.picked = found
      BY <1>5, <1>13, <1>a
    <3>4. t.here /\ w2.prepped => found # Desk!None /\ t.prio = Desk!Prepped(t, found).prio
      BY <1>5, <1>13, <1>a
    <3>5. w2 \in Desk!Watches /\ w2.on /\ w2.target = w0.target
      BY <1>5, <1>13
    <3>6. /\ r.w \in Desk!Watches /\ r.t \in Desk!Torrents /\ r.w.on /\ r.plays = Desk!None
          /\ ~r.told /\ ~r.early
      BY <3>1, <3>5
    <3>7. r.w.target = w0.target /\ (r.w.quiet =>
            ~Desk!Peers(t) /\ r.w.since <= Desk!Fewer(v9[h] + d, Desk!NoPeers))
      BY <3>1, <3>2, <3>5
    <3>8. t.here /\ r.w.picked # Desk!None => r.w.picked = found
      BY <3>1, <3>3
    <3>9. t.here /\ r.w.prepped =>
            /\ found # Desk!None
            /\ r.t.prio = Desk!Prepped(t, found).prio
      BY <3>1, <3>4
    <3>10. Kept /\ Idle /\ Ends /\ Plays /\ Changes
      BY <1>13, <3>1, <3>6
    <3>11. GoesOn
      BY <3>7, <3>8, <3>9
    <3>. HIDE DEF Kept, Idle, Ends, Plays, GoesOn, Changes
    <3>. QED BY <3>10, <3>11
  <2>. QED BY <2>1, <2>3, <2>4
<1>14. ASSUME w0.on /\ ~(t.here /\ w2.quiet /\ w2.since >= Desk!NoPeers) /\ f # Desk!None
             /\ (Desk!Completed(t) \/ Desk!Ready(t, f))
       PROVE  Good
  <2>1. r = [Desk!NothingNew(Desk!NoWatch, t3) EXCEPT !.plays = f]
    BY <1>1, <1>14
  <2>2. r.w = Desk!NoWatch /\ r.t = t3 /\ r.told = FALSE /\ r.early = FALSE /\ r.plays = f
    BY <2>1 DEF Desk!NothingNew
  <2>3. Desk!NoWatch \in Desk!Watches /\ Desk!NoWatch.on = FALSE
    BY DEF Desk!NoWatch, Desk!Watches, Desk!NoPeers, Desk!NoMeta, Desk!None
  <2>. QED BY <1>7, <1>10, <1>14, <2>2, <2>3
<1>15. ASSUME w0.on /\ ~(t.here /\ w2.quiet /\ w2.since >= Desk!NoPeers) /\ f # Desk!None
             /\ ~(Desk!Completed(t) \/ Desk!Ready(t, f))
       PROVE  Good
  <2>. DEFINE t4 == [t3 EXCEPT !.near = @ \cup {f}]
  <2>1. r = Desk!NothingNew(w3, t4)
    BY <1>1, <1>15
  <2>2. /\ t4 \in Desk!Torrents /\ t4.here = t.here /\ t4.meta = t.meta /\ t4.have = t.have
        /\ t4.prio = Desk!Prepped(t, found).prio
    BY <1>7, <1>10, <1>15 DEF Desk!Torrents
  <2>3. /\ w3 \in Desk!Watches /\ w3.on = TRUE /\ w3.target = w0.target /\ w3.picked = f
        /\ w3.quiet = w2.quiet
        /\ w3.since = w2.since
    BY <1>5, <1>7, <1>15 DEF Desk!Watches
  <2>. HIDE DEF w3, t4
  <2>4. r.w = w3 /\ r.t = t4 /\ r.told = FALSE /\ r.early = FALSE /\ r.plays = Desk!None
    BY <2>1 DEF Desk!NothingNew
  <2>5. w2.quiet => ~Desk!Peers(t) /\ w2.since <= Desk!Fewer(v9[h] + d, Desk!NoPeers)
    BY <1>5, <1>8, <1>15 DEF Desk!NoPeers, Desk!Peers
  <2>6. Desk!Here(t) /\ f = found /\ found # Desk!None
    BY <1>7, <1>15
  <2>7. /\ r.w \in Desk!Watches /\ r.t \in Desk!Torrents /\ r.w.on /\ r.plays = Desk!None
        /\ ~r.told /\ ~r.early
    BY <2>2, <2>3, <2>4
  <2>8. r.w.target = w0.target /\ (r.w.quiet =>
          ~Desk!Peers(t) /\ r.w.since <= Desk!Fewer(v9[h] + d, Desk!NoPeers))
    BY <2>3, <2>4, <2>5
  <2>9. t.here /\ r.w.picked # Desk!None => r.w.picked = found
    BY <2>3, <2>4, <2>6
  <2>10. t.here /\ r.w.prepped =>
           /\ found # Desk!None
           /\ r.t.prio = Desk!Prepped(t, found).prio
    BY <2>2, <2>4, <2>6
  <2>11. r.t.here = t.here /\ r.t.meta = t.meta /\ r.t.have = t.have
    BY <2>2, <2>4
  <2>12. Kept /\ Idle /\ Ends /\ Plays /\ Changes
    BY <1>15, <2>4, <2>6, <2>7, <2>11
  <2>13. GoesOn
    BY <2>8, <2>9, <2>10
  <2>. HIDE DEF Kept, Idle, Ends, Plays, GoesOn, Changes
  <2>. QED BY <2>12, <2>13
<1>16. Good
  <2>. HIDE DEF Good
  <2>. QED BY <1>2, <1>11, <1>12, <1>13, <1>14, <1>15
<1>17. Kept /\ Idle /\ Ends /\ Plays /\ GoesOn /\ Changes
  <2>. HIDE DEF Kept, Idle, Ends, Plays, GoesOn, Changes
  <2>. QED BY <1>16
<1>. QED BY <1>17, Zenon DEF Kept, Idle, Ends, Plays, GoesOn, Changes

\* After a step, too, a file that is found is one of the pack.
LEMMA FoundNext ==
  ASSUME NEW h, NEW x, x \in Videos \cup {Desk!None}
  PROVE  Desk!PickFile(h, x)' \in Videos \cup {Desk!None}
<1>. DEFINE fs == {f \in Videos : <<h, f>> \notin v5'}
<1>1. Desk!BestVideo(h)' = Lowest(fs)
  BY Zenon DEF Desk!BestVideo, Desk!None, Lowest
<1>2. fs # {} => \E f \in fs : \A g \in fs : f <= g
  BY Least, DeskAssumption
<1>3. fs # {} => Lowest(fs) \in fs
  BY <1>2 DEF Lowest
<1>4. Desk!BestVideo(h)' \in Videos \cup {Desk!None}
  BY <1>1, <1>3 DEF Lowest, Desk!None
<1>. QED BY <1>4 DEF Desk!PickFile

\* A file that was asked for comes first, after a step too.
LEMMA FetchedNext ==
  ASSUME Desk!TypeOK', \A h \in Watched : Desk!WatchKept(h)'
  PROVE  Desk!WaitedIsFetched'
<1>1. ASSUME NEW h \in Watched, v2'[h].on, v2'[h].prepped, Desk!Here(v1'[h])
      PROVE  v1'[h].prio[Desk!WatchFile(h, v1[h], v2[h])'] = 7
  <2>. DEFINE f == Desk!PickFile(h, v2[h].target)'
  <2>1. v2'[h].target \in Videos \cup {Desk!None}
    BY <1>1 DEF Desk!TypeOK, Desk!Watches
  <2>2. f \in Videos \cup {Desk!None}
    BY <2>1, FoundNext
  <2>3. /\ v2'[h].picked # Desk!None => v2'[h].picked = f
        /\ f # Desk!None /\ v1'[h].prio = Desk!Prepped(v1[h], Desk!PickFile(h, v2[h].target))'.prio
    BY <1>1 DEF Desk!WatchKept, Desk!Here
  <2>4. Desk!WatchFile(h, v1[h], v2[h])' = f
    BY <1>1, <2>3 DEF Desk!WatchFile
  <2>5. f \in Videos
    BY <2>2, <2>3
  <2>6. v1'[h].prio = [g \in Videos |-> IF g = f THEN 7 ELSE 0]
    BY <1>1, <2>3 DEF Desk!Prepped, Desk!TypeOK, Desk!Torrents
  <2>. HIDE DEF f
  <2>. QED BY <2>4, <2>5, <2>6
<1>. QED BY <1>1 DEF Desk!WaitedIsFetched

\* A step is about the torrent h alone.
OthersSame(h) ==
  \A g \in Watched \ {h} : /\ v1'[g] = v1[g] /\ v2'[g] = v2[g] /\ v3'[g] = v3[g] /\ v4'[g] = v4[g]
                           /\ v9'[g] = v9[g] /\ v10'[g] = v10[g]
                           /\ \A f \in Videos : <<g, f>> \in v5' <=> <<g, f>> \in v5

\* A step that is about one torrent keeps the invariant when it keeps that torrent's share
\* of it and what all torrents share.
LEMMA OneTorrent ==
  ASSUME Desk!DeskInv, NEW h \in Watched,
         OthersSame(h),
         Desk!TypeOK', Desk!WaitingIsWatched', Desk!WatchIsTrue', Desk!PlayersAreHere',
         Desk!WatchKept(h)', Desk!PicksKept(h)', Desk!OwedIsWanted(h)'
  PROVE  Desk!DeskInv'
<1>1. \A g \in Watched : Desk!WatchKept(g)' /\ Desk!PicksKept(g)' /\ Desk!OwedIsWanted(g)'
  <2>1. ASSUME NEW g \in Watched, g # h
        PROVE Desk!WatchKept(g)' /\ Desk!PicksKept(g)' /\ Desk!OwedIsWanted(g)'
    <3>1. Desk!TypeOK /\ Desk!WatchKept(g) /\ Desk!PicksKept(g) /\ Desk!OwedIsWanted(g)
      BY <2>1 DEF Desk!DeskInv, Desk!WatchIsSound, Desk!PicksAreWanted
    <3>2. g \in Watched \ {h}
      BY <2>1
    <3>. QED BY <2>1, <3>1, <3>2, OthersKept DEF OthersSame
  <2>. QED BY <2>1
<1>2. Desk!WaitedIsFetched'
  BY <1>1, FetchedNext
<1>. QED BY <1>1, <1>2 DEF Desk!DeskInv, Desk!WatchIsSound, Desk!PicksAreWanted

\* Playing a file of a list: it plays, or it is refused and what waits for the torrent closes.
LEMMA FilePlayed ==
  ASSUME Desk!TypeOK, NEW h \in Watched, NEW f \in Videos, NEW t \in [Watched -> Desk!Torrents],
         NEW w \in [Watched -> Desk!Watches], w[h] = Desk!NoWatch,
         Desk!PlayByHashFile(t, w, h, f)
  PROVE  /\ v1' \in [Watched -> Desk!Torrents] /\ v5 \subseteq v5'
         /\ v5' \subseteq Watched \X Videos
         /\ v7' \subseteq v7 \cup {<<h, f>>} /\ v2' = w
         /\ v6' = IF v6.on /\ v6.hash = h THEN Desk!NoWindow ELSE v6
         /\ \A g \in Watched \ {h} : /\ v1'[g] = t[g]
                                     /\ \A x \in Videos : <<g, x>> \in v5' <=> <<g, x>> \in v5
         /\ v1'[h].here = t[h].here /\ v1'[h].meta = t[h].meta /\ v1'[h].have = t[h].have
         /\ IF Desk!Refuses(t, h, f) THEN \A x \in Videos : v1'[h].prio[x] = t[h].prio[x] \/ <<h, x>> \in v5'
            ELSE v1'[h].prio = Desk!Prepped(t[h], f).prio
<1>1. CASE Desk!Refuses(t, h, f)
  <2>1. /\ v1' = IF Desk!Caught(t, h, f) THEN Desk!SetAside(t, h, f) ELSE t
        /\ v5' = IF Desk!Caught(t, h, f) THEN v5 \cup {<<h, f>>} ELSE v5
        /\ Desk!ClosedFor(h, w)
    BY <1>1 DEF Desk!PlayByHashFile
  <2>2. v2' = w /\ v6' = (IF v6.on /\ v6.hash = h THEN Desk!NoWindow ELSE v6) /\ v7' \subseteq v7
    BY <2>1 DEF Desk!ClosedFor
  <2>3. CASE ~Desk!Caught(t, h, f)
    BY <1>1, <2>1, <2>2, <2>3 DEF Desk!TypeOK
  <2>4. CASE Desk!Caught(t, h, f)
    <3>. DEFINE e == [t[h] EXCEPT !.paused = TRUE, !.prio[f] = 0]
    <3>1. /\ e \in Desk!Torrents /\ e.here = t[h].here /\ e.meta = t[h].meta /\ e.have = t[h].have
          /\ \A x \in Videos : e.prio[x] = t[h].prio[x] \/ x = f
      BY DEF Desk!Torrents
    <3>2. v1' = [t EXCEPT ![h] = e] /\ v5' = v5 \cup {<<h, f>>}
      BY <2>1, <2>4 DEF Desk!SetAside
    <3>. HIDE DEF e
    <3>. QED BY <1>1, <2>2, <3>1, <3>2 DEF Desk!TypeOK
  <2>. QED BY <2>3, <2>4
<1>2. CASE ~Desk!Refuses(t, h, f)
  <2>1. v1' = [t EXCEPT ![h] = Desk!Prepped(t[h], f)] /\ Desk!Opened(h, f) /\ v2' = w /\ v5' = v5
    BY <1>2 DEF Desk!PlayByHashFile
  <2>2. /\ Desk!Prepped(t[h], f) \in Desk!Torrents /\ Desk!Prepped(t[h], f).here = t[h].here
        /\ Desk!Prepped(t[h], f).meta = t[h].meta /\ Desk!Prepped(t[h], f).have = t[h].have
    BY DEF Desk!Prepped, Desk!Torrents
  <2>3. v6' = (IF v6.on /\ v6.hash = h THEN Desk!NoWindow ELSE v6) /\ v7' = v7 \cup {<<h, f>>}
    BY <2>1 DEF Desk!Opened
  <2>. QED BY <1>2, <2>1, <2>2, <2>3 DEF Desk!TypeOK
<1>. QED BY <1>1, <1>2

\* What a poll of the pick of a torrent leaves.
PickedWell(h, p) ==
  /\ p.t \in Desk!Torrents /\ p.pick \in Desk!Picks /\ p.files \subseteq Videos
  /\ p.t.here = v1[h].here /\ p.t.meta = v1[h].meta /\ p.t.have = v1[h].have
  /\ ~v3[h].on \/ ~Desk!Here(v1[h]) => p.t = v1[h]
  /\ p.pick.on => v3[h].on
  /\ v1[h].here /\ ~v1[h].meta => p.files = {}
  /\ 0 \in v10[h] => ~p.pick.on /\ p.files = {}
  /\ p.pick.on \/ p.files # {} =>
       \A f \in v10[h] : f \in p.files \/ <<h, f>> \in v5 \/ (p.pick.on /\ f = p.pick.target)
  /\ Desk!Here(p.t) /\ ~p.pick.on =>
       \A f \in Videos : f \in v10[h] \/ 0 \in v10[h] =>
         p.t.prio[f] > 0 \/ p.t.have[f] = 2 \/ <<h, f>> \in v5

\* A poll of a pick leaves it so (pollPendingFilePick).
LEMMA PickPolled ==
  ASSUME Desk!TypeOK, NEW h \in Watched, Desk!PicksKept(h), Desk!OwedIsWanted(h)
  PROVE  PickedWell(h, Desk!PickPoll(h))
<1>. DEFINE p == v3[h]
            f == Desk!PickFile(h, p.target)
            all == v4[h] \cup {f}
            age == Desk!Fewer(p.age + 1, Desk!NoList + 1)
            prio == [g \in Videos |-> IF g \in all THEN 4 ELSE 0]
            q == Desk!PickPoll(h)
<1>1. q = IF ~p.on THEN [t |-> v1[h], pick |-> p, files |-> v4[h]]
          ELSE IF ~Desk!Here(v1[h])
          THEN [t |-> v1[h], files |-> v4[h], pick |-> IF p.age > Desk!NoList THEN Desk!NoPick ELSE [p EXCEPT !.age = age]]
          ELSE IF f = Desk!None THEN [t |-> v1[h], pick |-> Desk!NoPick, files |-> v4[h]]
          ELSE [t |-> [v1[h] EXCEPT !.prio = prio], pick |-> Desk!NoPick, files |-> all]
  BY DEF Desk!PickPoll
<1>2. /\ p \in Desk!Picks /\ p.target \in Videos \cup {Desk!None} /\ p.age \in 0 .. 5
      /\ v1[h] \in Desk!Torrents
      /\ v4[h] \subseteq Videos /\ v10[h] \subseteq Videos \cup {0}
  BY DEF Desk!TypeOK, Desk!Picks, Desk!NoList, Desk!None
<1>3. /\ f \in Videos \cup {Desk!None}
      /\ f = Desk!None => \A x \in Videos : <<h, x>> \in v5
      /\ p.target # Desk!None /\ <<h, p.target>> \notin v5 => f = p.target
  BY <1>2, FileFound
<1>4. Desk!NoPick \in Desk!Picks /\ Desk!NoPick.on = FALSE
  BY DEF Desk!NoPick, Desk!Picks, Desk!None, Desk!NoList
<1>5. /\ ~v1[h].here => v10[h] = {}
      /\ v1[h].here /\ ~v1[h].meta => v4[h] = {}
      /\ 0 \in v10[h] => ~p.on /\ v4[h] = {}
      /\ p.on \/ v4[h] # {} =>
           \A x \in v10[h] : x \in v4[h] \/ <<h, x>> \in v5 \/ (p.on /\ x = p.target)
  BY DEF Desk!PicksKept
<1>6. Desk!Here(v1[h]) /\ ~p.on => \A x \in Videos : x \in v10[h] \/ 0 \in v10[h] =>
        v1[h].prio[x] > 0 \/ v1[h].have[x] = 2 \/ <<h, x>> \in v5
  BY DEF Desk!OwedIsWanted
<1>. HIDE DEF f, q
<1>7. CASE ~p.on
  <2>1. q.t = v1[h] /\ q.pick = p /\ q.files = v4[h]
    BY <1>1, <1>7
  <2>. HIDE DEF p
  <2>. QED BY <1>2, <1>5, <1>6, <1>7, <2>1 DEF PickedWell, p, q
<1>8. CASE p.on /\ ~Desk!Here(v1[h])
  <2>. DEFINE e == [p EXCEPT !.age = age]
  <2>1. age \in 0 .. Desk!NoList + 1
    BY <1>2 DEF Desk!NoList, Desk!Fewer
  <2>2. e \in Desk!Picks /\ e.on = p.on /\ e.target = p.target
    <3>. HIDE DEF age, p
    <3>. QED BY <1>2, <2>1 DEF Desk!Picks
  <2>. HIDE DEF e
  <2>3. q.t = v1[h] /\ q.files = v4[h] /\ (q.pick = Desk!NoPick \/ q.pick = e)
    BY <1>1, <1>8 DEF e
  <2>4. v1[h].here => ~v1[h].meta
    BY <1>8 DEF Desk!Here
  <2>. QED BY <1>2, <1>4, <1>5, <1>8, <2>2, <2>3, <2>4 DEF PickedWell, q
<1>9. CASE p.on /\ Desk!Here(v1[h]) /\ f = Desk!None
  <2>1. q.t = v1[h] /\ q.pick = Desk!NoPick /\ q.files = v4[h]
    BY <1>1, <1>9
  <2>2. \A x \in v10[h] : <<h, x>> \in v5
    BY <1>2, <1>3, <1>5, <1>9
  <2>. QED BY <1>2, <1>3, <1>4, <1>5, <1>9, <2>1, <2>2 DEF PickedWell, Desk!Here, q
<1>10. CASE p.on /\ Desk!Here(v1[h]) /\ f # Desk!None
  <2>. DEFINE e == [v1[h] EXCEPT !.prio = prio]
  <2>1. prio \in [Videos -> {0, 4, 7}] /\ all \subseteq Videos
    BY <1>2, <1>3, <1>10
  <2>2. /\ e \in Desk!Torrents /\ e.here = v1[h].here /\ e.meta = v1[h].meta
        /\ e.have = v1[h].have /\ e.prio = prio
    <3>. HIDE DEF prio
    <3>. QED BY <1>2, <2>1 DEF Desk!Torrents
  <2>3. q.t = e /\ q.pick = Desk!NoPick /\ q.files = all
    BY <1>1, <1>10
  <2>4. \A x \in v10[h] : x \in all \/ <<h, x>> \in v5
    BY <1>2, <1>3, <1>5, <1>10, DeskAssumption DEF Desk!None
  <2>5. \A x \in all : prio[x] = 4
    BY <2>1
  <2>6. 0 \notin v10[h]
    BY <1>5, <1>10
  <2>. HIDE DEF e, prio, all
  <2>7. \A x \in Videos : x \in v10[h] \/ 0 \in v10[h] => q.t.prio[x] > 0 \/ <<h, x>> \in v5
    BY <2>2, <2>3, <2>4, <2>5, <2>6
  <2>8. v1[h].here /\ v1[h].meta
    BY <1>10 DEF Desk!Here
  <2>9. q.t \in Desk!Torrents /\ q.pick \in Desk!Picks /\ q.files \subseteq Videos
    BY <1>4, <2>1, <2>2, <2>3
  <2>10. /\ q.t.here = v1[h].here /\ q.t.meta = v1[h].meta /\ q.t.have = v1[h].have
         /\ q.pick.on = FALSE
    BY <1>4, <2>2, <2>3
  <2>11. \A x \in v10[h] : x \in q.files \/ <<h, x>> \in v5
    BY <2>3, <2>4
  <2>. QED BY <1>10, <2>6, <2>7, <2>8, <2>9, <2>10, <2>11 DEF PickedWell, q
<1>. QED BY <1>7, <1>8, <1>9, <1>10 DEF q

\* One tick for a torrent, the pick before the watch, keeps the invariant (onWatchTick).
LEMMA PollKeeps ==
  ASSUME Desk!DeskInv, NEW h \in Watched, NEW d \in {0, 1}, NEW p, PickedWell(h, p),
         v2[h].on => p.t = v1[h] /\ ~p.pick.on, Desk!Polled(h, p, d)
  PROVE  Desk!DeskInv'
<1>. DEFINE r == Desk!WatchPoll(h, p.t, d)
            found == Desk!PickFile(h, v2[h].target)
            t == [v1 EXCEPT ![h] = r.t]
            w == [v2 EXCEPT ![h] = r.w]
            w0 == v2[h]
            prio == Desk!Prepped(p.t, found).prio
            prioThen == Desk!Prepped(v1[h], Desk!PickFile(h, v2[h].target))'.prio
<1>1. Desk!TypeOK /\ Desk!WatchKept(h) /\ Desk!PicksKept(h) /\ Desk!OwedIsWanted(h)
  BY DEF Desk!DeskInv, Desk!WatchIsSound, Desk!PicksAreWanted
<1>2. /\ v1[h] \in Desk!Torrents /\ v9[h] \in 0 .. 2 /\ v10[h] \subseteq Videos \cup {0}
      /\ w0 \in Desk!Watches
      /\ w0.target \in Videos \cup {Desk!None} /\ w0.on \in BOOLEAN
  BY <1>1 DEF Desk!TypeOK, Desk!None, Desk!NoPeers, Desk!Watches
<1>3. /\ p.t \in Desk!Torrents /\ p.pick \in Desk!Picks /\ p.files \subseteq Videos
      /\ p.t.here = v1[h].here /\ p.t.meta = v1[h].meta /\ p.t.have = v1[h].have
      /\ ~Desk!Here(v1[h]) => p.t = v1[h]
      /\ 0 \in v10[h] => ~p.pick.on /\ p.files = {}
      /\ v1[h].here /\ ~v1[h].meta => p.files = {}
  BY DEF PickedWell
<1>4. /\ w0.on /\ p.t.here /\ w0.picked # Desk!None => w0.picked = found
      /\ w0.on /\ p.t.here /\ w0.prepped => found # Desk!None /\ p.t.prio = prio
      /\ w0.on /\ w0.quiet => w0.since <= v9[h]
      /\ ~w0.on => w0 = Desk!NoWatch
  <2>1. CASE w0.on
    BY <1>1, <2>1 DEF Desk!WatchKept
  <2>2. CASE ~w0.on
    BY <1>1, <2>2 DEF Desk!WatchKept
  <2>. QED BY <2>1, <2>2
<1>5. found \in Videos \cup {Desk!None}
  BY <1>2, FileFound
<1>. HIDE DEF found, r, w0
<1>6. /\ /\ r.w \in Desk!Watches /\ r.t \in Desk!Torrents
         /\ r.t.here = p.t.here /\ r.t.meta = p.t.meta /\ r.t.have = p.t.have
         /\ r.plays \in Videos \cup {Desk!None} /\ r.told \in BOOLEAN /\ ~r.early
      /\ ~w0.on => r.w = w0 /\ r.t = p.t /\ ~r.told /\ r.plays = Desk!None
      /\ w0.on => \/ r.w.on /\ ~r.told /\ r.plays = Desk!None
                  \/ r.w = Desk!NoWatch /\ (r.told \/ r.plays # Desk!None)
      /\ r.plays # Desk!None =>
           /\ w0.on /\ r.w = Desk!NoWatch /\ Desk!Here(p.t)
           /\ r.plays = found
           /\ r.t.prio = Desk!Prepped(p.t, r.plays).prio
      /\ w0.on /\ r.w.on =>
           /\ r.w.target = w0.target
           /\ p.t.here /\ r.w.picked # Desk!None => r.w.picked = found
           /\ p.t.here /\ r.w.prepped =>
                found # Desk!None /\ r.t.prio = Desk!Prepped(p.t, found).prio
           /\ r.w.quiet => ~Desk!Peers(p.t) /\ r.w.since <= Desk!Fewer(v9[h] + d, Desk!NoPeers)
      /\ r.t.prio # p.t.prio => Desk!Here(p.t)
  <2>1. r = Desk!WatchPoll(h, p.t, d) /\ w0 = v2[h] /\ found = Desk!PickFile(h, w0.target)
    BY DEF r, w0, found
  <2>. QED BY <1>1, <1>3, <1>4, <2>1, WatchPolled
<1>7. /\ v3' = [v3 EXCEPT ![h] = p.pick]
      /\ v4' = [v4 EXCEPT ![h] = p.files]
      /\ v9' = [v9 EXCEPT ![h] = IF ~r.w.on \/ Desk!Peers(p.t) THEN 0 ELSE Desk!Fewer(v9[h] + d, Desk!NoPeers)]
      /\ v11' = [file |-> v11.file \/ (r.plays # Desk!None /\ r.plays # found /\ <<h, v2[h].target>> \notin v5),
                 early |-> v11.early \/ r.early]
      /\ v10' = IF r.t.prio # p.t.prio THEN [v10 EXCEPT ![h] = {}] ELSE v10
      /\ IF r.plays # Desk!None THEN Desk!PlayByHashFile(t, w, h, r.plays)
         ELSE /\ v1' = t /\ v2' = w
              /\ v6' = IF r.told /\ v6.hash = h THEN [v6 EXCEPT !.told = v6.on] ELSE v6
              /\ UNCHANGED <<v5, v7>>
      /\ UNCHANGED v8
  BY <1>1, Zenon DEF Desk!Polled, r, found
<1>8. /\ t \in [Watched -> Desk!Torrents] /\ w \in [Watched -> Desk!Watches] /\ t[h] = r.t
      /\ w[h] = r.w
  BY <1>1, <1>6 DEF Desk!TypeOK
<1>. DEFINE Plays == /\ v1' \in [Watched -> Desk!Torrents] /\ v5 \subseteq v5' /\ v5' \subseteq Watched \X Videos
                     /\ v7' \subseteq v7 \cup {<<h, r.plays>>} /\ v2' = w
                     /\ v6' = IF v6.on /\ v6.hash = h THEN Desk!NoWindow ELSE v6
                     /\ \A g \in Watched \ {h} : /\ v1'[g] = t[g]
                                                 /\ \A x \in Videos : <<g, x>> \in v5' <=> <<g, x>> \in v5
                     /\ v1'[h].here = t[h].here /\ v1'[h].meta = t[h].meta
                     /\ v1'[h].have = t[h].have
                     /\ \/ v1'[h].prio = Desk!Prepped(t[h], r.plays).prio
                        \/ \A x \in Videos : v1'[h].prio[x] = t[h].prio[x] \/ <<h, x>> \in v5'
<1>9. r.plays # Desk!None => Plays
  <2>. SUFFICES ASSUME r.plays # Desk!None PROVE Plays
    OBVIOUS
  <2>1. r.plays \in Videos /\ w[h] = Desk!NoWatch /\ Desk!PlayByHashFile(t, w, h, r.plays)
    BY <1>6, <1>7, <1>8
  <2>. HIDE DEF t, w
  <2>. QED BY <1>1, <1>8, <2>1, FilePlayed
<1>10. r.plays = Desk!None => /\ v1' = t /\ v2' = w /\ v5' = v5 /\ v7' = v7
                              /\ v6' = IF r.told /\ v6.hash = h THEN [v6 EXCEPT !.told = v6.on] ELSE v6
  BY <1>7
<1>11. /\ v1' \in [Watched -> Desk!Torrents] /\ v2' = w /\ v5 \subseteq v5'
       /\ v5' \subseteq Watched \X Videos
       /\ \A g \in Watched \ {h} : /\ v1'[g] = v1[g] /\ v2'[g] = v2[g]
                                   /\ \A x \in Videos : <<g, x>> \in v5' <=> <<g, x>> \in v5
       /\ v1'[h].here = v1[h].here /\ v1'[h].meta = v1[h].meta /\ v1'[h].have = v1[h].have
       /\ v7' \subseteq Watched \X Videos
  <2>1. CASE r.plays # Desk!None
    <3>1. /\ v1' \in [Watched -> Desk!Torrents] /\ v2' = w /\ v5 \subseteq v5'
          /\ v5' \subseteq Watched \X Videos
          /\ v7' \subseteq v7 \cup {<<h, r.plays>>} /\ r.plays \in Videos
          /\ v7 \subseteq Watched \X Videos
          /\ v1'[h].here = r.t.here /\ v1'[h].meta = r.t.meta /\ v1'[h].have = r.t.have
      BY <1>1, <1>6, <1>8, <1>9, <2>1 DEF Desk!TypeOK
    <3>2. \A g \in Watched \ {h} : /\ v1'[g] = v1[g] /\ v2'[g] = v2[g]
                                   /\ \A x \in Videos : <<g, x>> \in v5' <=> <<g, x>> \in v5
      BY <1>1, <1>9, <2>1 DEF Desk!TypeOK
    <3>. QED BY <1>3, <1>6, <3>1, <3>2
  <2>2. CASE r.plays = Desk!None
    BY <1>1, <1>3, <1>6, <1>8, <1>10, <2>2 DEF Desk!TypeOK
  <2>. QED BY <2>1, <2>2
<1>12. v6' \in [on : BOOLEAN, hash : Watched, told : BOOLEAN]
  <2>1. Desk!NoWindow \in [on : BOOLEAN, hash : Watched, told : BOOLEAN]
    BY DeskAssumption DEF Desk!NoWindow
  <2>2. v6 \in [on : BOOLEAN, hash : Watched, told : BOOLEAN]
    BY <1>1 DEF Desk!TypeOK
  <2>3. r.plays # Desk!None => v6' = Desk!NoWindow \/ v6' = v6
    BY <1>9
  <2>. QED BY <1>10, <2>1, <2>2, <2>3
<1>13. Desk!TypeOK'
  <2>1. v2' \in [Watched -> Desk!Watches]
    BY <1>8, <1>11
  <2>2. v3' \in [Watched -> Desk!Picks] /\ v4' \in [Watched -> SUBSET Videos]
    BY <1>1, <1>3, <1>7 DEF Desk!TypeOK
  <2>3. v9' \in [Watched -> 0 .. Desk!NoPeers]
    <3>1. Desk!Fewer(v9[h] + d, Desk!NoPeers) \in 0 .. Desk!NoPeers /\ 0 \in 0 .. Desk!NoPeers
      BY <1>2 DEF Desk!Fewer, Desk!NoPeers
    <3>2. v9 \in [Watched -> 0 .. Desk!NoPeers]
      BY <1>1 DEF Desk!TypeOK
    <3>. QED BY <1>7, <3>1, <3>2
  <2>4. v10' \in [Watched -> SUBSET (Videos \cup {Desk!None})]
    BY <1>1, <1>7 DEF Desk!TypeOK
  <2>5. v11' \in [file : BOOLEAN, early : BOOLEAN] /\ v8' \in 0 .. MaxAsks
    BY <1>1, <1>6, <1>7 DEF Desk!TypeOK
  <2>. HIDE DEF w, t
  <2>. QED BY <1>11, <1>12, <2>1, <2>2, <2>3, <2>4, <2>5 DEF Desk!TypeOK
<1>14. Desk!WatchIsTrue'
  <2>1. ~v11.file /\ ~v11.early
    BY DEF Desk!DeskInv, Desk!WatchIsSound, Desk!WatchIsTrue
  <2>2. v11'.file = (v11.file \/ (r.plays # Desk!None /\ r.plays # found /\ <<h, v2[h].target>> \notin v5))
    BY <1>7
  <2>3. v11'.early = (v11.early \/ r.early)
    BY <1>7
  <2>. QED BY <1>6, <2>1, <2>2, <2>3 DEF Desk!WatchIsTrue
<1>15. v2'[h] = r.w
  BY <1>8, <1>11
<1>16. Desk!WaitingIsWatched'
  <2>1. \A g \in Watched : v2[g].on <=> v6.on /\ v6.hash = g /\ ~v6.told
    BY DEF Desk!DeskInv, Desk!WatchIsSound, Desk!WaitingIsWatched
  <2>2. v6 \in [on : BOOLEAN, hash : Watched, told : BOOLEAN] /\ Desk!NoWindow.on = FALSE /\ Desk!NoWatch.on = FALSE
    BY <1>1 DEF Desk!TypeOK, Desk!NoWindow, Desk!NoWatch
  <2>3. ASSUME NEW g \in Watched PROVE v2'[g].on <=> v6'.on /\ v6'.hash = g /\ ~v6'.told
    <3>1. CASE r.plays # Desk!None
      <4>1. v6' = IF v6.on /\ v6.hash = h THEN Desk!NoWindow ELSE v6
        BY <1>9, <3>1
      <4>2. v2'[h].on = FALSE /\ v2[h].on
        BY <1>6, <1>15, <2>2, <3>1 DEF w0
      <4>3. g # h => v2'[g] = v2[g]
        BY <1>11
      <4>. QED BY <2>1, <2>2, <2>3, <4>1, <4>2, <4>3
    <3>2. CASE r.plays = Desk!None /\ r.told
      <4>1. v6' = IF v6.hash = h THEN [v6 EXCEPT !.told = v6.on] ELSE v6
        BY <1>10, <3>2
      <4>2. v2'[h].on = FALSE /\ v2[h].on
        BY <1>6, <1>15, <2>2, <3>2 DEF w0
      <4>3. v6'.on = v6.on /\ v6'.hash = v6.hash /\ v6'.told = (IF v6.hash = h THEN v6.on ELSE v6.told)
        BY <2>2, <4>1
      <4>4. g # h => v2'[g] = v2[g]
        BY <1>11
      <4>. QED BY <2>1, <2>2, <2>3, <4>2, <4>3, <4>4
    <3>3. CASE r.plays = Desk!None /\ ~r.told
      <4>1. v6' = v6
        BY <1>10, <3>3
      <4>2. v2'[h].on = v2[h].on
        BY <1>2, <1>6, <1>15, <3>3 DEF w0, Desk!Watches
      <4>3. g # h => v2'[g] = v2[g]
        BY <1>11
      <4>. QED BY <2>1, <2>3, <4>1, <4>2, <4>3
    <3>. QED BY <1>6, <3>1, <3>2, <3>3
  <2>. QED BY <2>3 DEF Desk!WaitingIsWatched
<1>17. Desk!PlayersAreHere'
  <2>1. \A q \in v7 : Desk!Here(v1[q[1]])
    BY DEF Desk!DeskInv, Desk!PlayersAreHere
  <2>2. \A g \in Watched : Desk!Here(v1'[g]) = Desk!Here(v1[g])
    BY <1>11 DEF Desk!Here
  <2>3. v7' \subseteq v7 \/ (v7' \subseteq v7 \cup {<<h, r.plays>>} /\ Desk!Here(v1[h]))
    BY <1>3, <1>6, <1>9, <1>10 DEF Desk!Here
  <2>4. \A q \in v7' : Desk!Here(v1[q[1]]) /\ q[1] \in Watched
    BY <1>11, <2>1, <2>3
  <2>. QED BY <2>2, <2>4 DEF Desk!PlayersAreHere, Desk!Here
<1>18. r.w.on =>
         /\ w0.on /\ r.plays = Desk!None /\ v1' = t /\ v5' = v5 /\ p.t = v1[h] /\ ~p.pick.on
         /\ r.w.target = w0.target
  BY <1>4, <1>6, <1>10 DEF w0, Desk!NoWatch
<1>19. r.w.on => Desk!PickFile(h, v2[h].target)' = found
  <2>. SUFFICES ASSUME r.w.on PROVE Desk!PickFile(h, v2[h].target)' = found
    OBVIOUS
  <2>1. v2'[h].target = v2[h].target /\ v5' = v5
    BY <1>15, <1>18 DEF w0
  <2>2. \A x \in Videos \cup {Desk!None} : Desk!PickFile(h, x)' = Desk!PickFile(h, x)
    BY <1>18, FoundAgain
  <2>. QED BY <1>2, <2>1, <2>2 DEF found, w0
<1>20. r.w.on => prioThen = prio
  BY <1>18, <1>19 DEF Desk!Prepped
<1>21. Desk!WatchKept(h)'
  <2>1. ~r.w.on => r.w = Desk!NoWatch
    BY <1>4, <1>6
  <2>2. r.w.on => ~v3'[h].on
    BY <1>1, <1>7, <1>18 DEF Desk!TypeOK
  <2>3. r.w.on /\ r.w.quiet => r.w.since <= v9'[h]
    BY <1>1, <1>6, <1>7, <1>18 DEF Desk!TypeOK
  <2>4. r.w.on => v1'[h].prio = r.t.prio
    BY <1>8, <1>18
  <2>5. r.w.on /\ v1'[h].here /\ r.w.picked # Desk!None => r.w.picked = found
    BY <1>3, <1>6, <1>11, <1>18
  <2>6. r.w.on /\ v1'[h].here /\ r.w.prepped => found # Desk!None /\ v1'[h].prio = prio
    BY <1>3, <1>6, <1>11, <1>18, <2>4
  <2>. HIDE DEF t, w, prio, prioThen
  <2>7. r.w.on => prioThen = prio
    BY <1>20
  <2>. QED BY <1>15, <1>19, <2>1, <2>2, <2>3, <2>5, <2>6, <2>7 DEF Desk!WatchKept, prioThen
<1>22. v3'[h] = p.pick /\ v4'[h] = p.files /\ v10'[h] \subseteq v10[h] /\ (v10'[h] = v10[h] \/ v10'[h] = {})
       /\ (r.t.prio # p.t.prio => v10'[h] = {})
  BY <1>1, <1>7 DEF Desk!TypeOK
<1>23. Desk!PicksKept(h)'
  <2>1. ~v1[h].here => v10[h] = {}
    BY <1>1 DEF Desk!PicksKept
  <2>2. ~v1'[h].here => v10'[h] = {}
    BY <1>11, <1>22, <2>1
  <2>3. v1'[h].here /\ ~v1'[h].meta => v4'[h] = {} /\ \A f \in Videos : v1'[h].prio[f] = 4
    <3>. SUFFICES ASSUME v1'[h].here, ~v1'[h].meta
                  PROVE v4'[h] = {} /\ \A f \in Videos : v1'[h].prio[f] = 4
      OBVIOUS
    <3>1. v1[h].here /\ ~v1[h].meta /\ p.t = v1[h] /\ ~Desk!Here(p.t)
      BY <1>3, <1>11 DEF Desk!Here
    <3>2. r.plays = Desk!None /\ r.t.prio = v1[h].prio
      BY <1>6, <3>1
    <3>3. v1'[h] = r.t
      BY <1>8, <1>10, <3>2
    <3>4. \A f \in Videos : v1[h].prio[f] = 4
      BY <1>1, <3>1 DEF Desk!PicksKept
    <3>. QED BY <1>3, <1>22, <3>1, <3>2, <3>3, <3>4
  <2>4. 0 \in v10'[h] => v10'[h] = {0} /\ ~v3'[h].on /\ v4'[h] = {}
    <3>1. 0 \in v10[h] => v10[h] = {0}
      BY <1>1 DEF Desk!PicksKept
    <3>. QED BY <1>3, <1>22, <3>1
  <2>5. v3'[h].on \/ v4'[h] # {} =>
          \A f \in v10'[h] : f \in v4'[h] \/ <<h, f>> \in v5' \/ (v3'[h].on /\ f = v3'[h].target)
    <3>1. p.pick.on \/ p.files # {} =>
            \A f \in v10[h] : f \in p.files \/ <<h, f>> \in v5 \/ (p.pick.on /\ f = p.pick.target)
      BY DEF PickedWell
    <3>. QED BY <1>11, <1>22, <3>1
  <2>. HIDE DEF t, w
  <2>. QED BY <2>2, <2>3, <2>4, <2>5 DEF Desk!PicksKept
<1>24. Desk!OwedIsWanted(h)'
  <2>. SUFFICES ASSUME Desk!Here(v1'[h]), ~v3'[h].on, NEW x \in Videos, x \in v10'[h] \/ 0 \in v10'[h]
                PROVE  v1'[h].prio[x] > 0 \/ v1'[h].have[x] = 2 \/ <<h, x>> \in v5'
    BY DEF Desk!OwedIsWanted
  <2>1. p.t.prio[x] > 0 \/ p.t.have[x] = 2 \/ <<h, x>> \in v5
    BY <1>3, <1>11, <1>22 DEF PickedWell, Desk!Here
  <2>2. r.t.prio = p.t.prio
    BY <1>22
  <2>3. v1'[h].prio[x] = r.t.prio[x] \/ <<h, x>> \in v5'
    <3>1. CASE r.plays = Desk!None
      BY <1>8, <1>10, <3>1
    <3>2. CASE r.plays # Desk!None
      <4>1. v1'[h].prio = Desk!Prepped(r.t, r.plays).prio \/ v1'[h].prio[x] = r.t.prio[x] \/ <<h, x>> \in v5'
        BY <1>8, <1>9, <3>2
      <4>2. r.t.prio = Desk!Prepped(p.t, r.plays).prio
        BY <1>6, <3>2
      <4>3. Desk!Prepped(r.t, r.plays).prio = Desk!Prepped(p.t, r.plays).prio
        BY <1>3, <1>6 DEF Desk!Prepped, Desk!Torrents
      <4>. QED BY <4>1, <4>2, <4>3
    <3>. QED BY <3>1, <3>2
  <2>. QED BY <1>3, <1>11, <2>1, <2>2, <2>3
<1>25. OthersSame(h)
  BY <1>1, <1>7, <1>11 DEF Desk!TypeOK, OthersSame
<1>. QED BY <1>13, <1>14, <1>16, <1>17, <1>21, <1>23, <1>24, <1>25, OneTorrent

\* So do the tick of the engine and the fast one in between.
LEMMA TickKeeps ==
  ASSUME Desk!DeskInv, NEW h \in Watched, Desk!Tick(h) \/ Desk!FastPoll(h)
  PROVE  Desk!DeskInv'
<1>1. Desk!TypeOK /\ Desk!WatchKept(h) /\ Desk!PicksKept(h) /\ Desk!OwedIsWanted(h)
  BY DEF Desk!DeskInv, Desk!WatchIsSound, Desk!PicksAreWanted
<1>2. v1[h] \in Desk!Torrents /\ v3[h] \in Desk!Picks /\ v4[h] \subseteq Videos
  BY <1>1 DEF Desk!TypeOK
<1>3. v2[h].on => ~v3[h].on
  BY <1>1 DEF Desk!WatchKept
<1>4. CASE Desk!Tick(h)
  <2>. DEFINE p == Desk!PickPoll(h)
  <2>1. PickedWell(h, p)
    BY <1>1, PickPolled
  <2>2. v2[h].on => p.t = v1[h] /\ ~p.pick.on
    BY <1>3, <2>1 DEF PickedWell
  <2>3. Desk!Polled(h, p, 1)
    BY <1>4 DEF Desk!Tick
  <2>. HIDE DEF p
  <2>. QED BY <2>1, <2>2, <2>3, PollKeeps
<1>5. CASE Desk!FastPoll(h)
  <2>. DEFINE p == [t |-> v1[h], pick |-> v3[h], files |-> v4[h]]
  <2>1. p.t = v1[h] /\ p.pick = v3[h] /\ p.files = v4[h]
    OBVIOUS
  <2>2. Desk!Polled(h, p, 0) /\ v2[h].on
    BY <1>5 DEF Desk!FastPoll
  <2>. HIDE DEF p
  <2>3. PickedWell(h, p)
    BY <1>1, <1>2, <2>1 DEF PickedWell, Desk!PicksKept, Desk!OwedIsWanted
  <2>. QED BY <1>3, <2>1, <2>2, <2>3, PollKeeps
<1>. QED BY <1>4, <1>5

\* Nothing of what the run leaves out happens.
LEMMA OddCases ==
  /\ "same" \notin {"flaps"} /\ "switch" \notin {"flaps"} /\ "full" \notin {"flaps"}
  /\ "again" \notin {"flaps"}
  /\ "partial" \notin {"flaps"} /\ "quick" \notin {"flaps"} /\ "restart" \notin {"flaps"}
  /\ "over" \notin {"flaps"}
OBVIOUS

\* One more of what the user does at most.
LEMMA AskedOnce ==
  ASSUME Desk!TypeOK, Desk!Asked \/ UNCHANGED v8
  PROVE  v8' \in 0 .. MaxAsks
BY DeskAssumption DEF Desk!TypeOK, Desk!Asked

\* A torrent that is added is here, and is as it was if it was here before.
LEMMA TorrentAdded ==
  ASSUME Desk!TypeOK, NEW h \in Watched
  PROVE  /\ Desk!Added(v1[h]) \in Desk!Torrents /\ Desk!Added(v1[h]).here
         /\ v1[h].here => Desk!Added(v1[h]) = v1[h]
         /\ ~v1[h].here =>
              Desk!Added(v1[h]).meta = FALSE /\ \A f \in Videos : Desk!Added(v1[h]).prio[f] = 4
<1>. DEFINE t == v1[h]
            e == [Desk!Gone EXCEPT !.here = TRUE, !.swarm = t.swarm, !.have = t.have]
<1>1. t \in Desk!Torrents
  BY DEF Desk!TypeOK
<1>2. Desk!Gone \in Desk!Torrents /\ Desk!Gone.meta = FALSE /\ Desk!Gone.prio = [f \in Videos |-> 4]
  BY DEF Desk!Gone, Desk!Torrents
<1>3. t.swarm \in BOOLEAN /\ t.have \in [Videos -> 0 .. 2]
  BY <1>1 DEF Desk!Torrents
<1>4. e \in Desk!Torrents /\ e.here = TRUE /\ e.meta = FALSE /\ e.prio = [f \in Videos |-> 4]
  <2>. HIDE DEF t
  <2>. QED BY <1>2, <1>3 DEF Desk!Torrents
<1>5. Desk!Added(t) = IF t.here THEN t ELSE e
  BY DEF Desk!Added
<1>. HIDE DEF e
<1>. QED BY <1>1, <1>4, <1>5

\* Adding a release to watch it, for one of its files, or whole keeps the invariant.
LEMMA AddKeeps ==
  ASSUME Desk!DeskInv, NEW h \in Watched,
         \/ \E f \in Videos \cup {Desk!None} : Desk!AddAndWatch(h, f)
         \/ \E f \in Videos : Desk!AddOne(h, f)
         \/ Desk!AddWhole(h)
  PROVE  Desk!DeskInv'
<1>1. /\ Desk!TypeOK /\ Desk!WatchKept(h) /\ Desk!PicksKept(h) /\ Desk!OwedIsWanted(h)
      /\ Desk!WaitingIsWatched /\ Desk!WatchIsTrue /\ Desk!PlayersAreHere
  BY DEF Desk!DeskInv, Desk!WatchIsSound, Desk!PicksAreWanted
<1>. DEFINE t == Desk!Added(v1[h])
<1>2. /\ t \in Desk!Torrents /\ t.here
      /\ v1[h].here => t = v1[h]
      /\ ~v1[h].here => t.meta = FALSE /\ \A f \in Videos : t.prio[f] = 4
  BY <1>1, TorrentAdded
<1>3. /\ v1' = [v1 EXCEPT ![h] = t] /\ Desk!Fresh(h) /\ Desk!Asked
      /\ v4' = v4 /\ v5' = v5 /\ v7' = v7 /\ v9' = v9 /\ v11' = v11
  BY DEF Desk!AddAndWatch, Desk!AddOne, Desk!AddWhole
<1>. HIDE DEF t
<1>4. v8' \in 0 .. MaxAsks
  BY <1>1, <1>3, AskedOnce
<1>5. v1' \in [Watched -> Desk!Torrents] /\ v1'[h] = t /\ \A g \in Watched \ {h} : v1'[g] = v1[g]
  BY <1>1, <1>2, <1>3 DEF Desk!TypeOK
<1>6. ~v1[h].here => ~v2[h].on /\ v4[h] = {} /\ ~v3[h].on /\ v10[h] = {}
  BY <1>1, <1>3 DEF Desk!Fresh, Desk!PicksKept
<1>7. Desk!PlayersAreHere' /\ Desk!WatchIsTrue'
  <2>1. \A g \in Watched : Desk!Here(v1[g]) => Desk!Here(v1'[g])
    BY <1>2, <1>5 DEF Desk!Here
  <2>2. \A q \in v7 : q[1] \in Watched
    BY <1>1 DEF Desk!TypeOK
  <2>. QED BY <1>1, <1>3, <2>1, <2>2 DEF Desk!PlayersAreHere, Desk!WatchIsTrue, Desk!Here
<1>8. \A f \in Videos : <<h, f>> \in v5' <=> <<h, f>> \in v5
  BY <1>3
<1>9. t.here /\ ~t.meta => v4[h] = {} /\ \A f \in Videos : t.prio[f] = 4
  BY <1>1, <1>2, <1>6 DEF Desk!PicksKept
<1>10. ASSUME NEW target \in Videos \cup {Desk!None}, Desk!AddAndWatch(h, target)
       PROVE Desk!DeskInv'
  <2>. DEFINE w == [v2[h] EXCEPT !.on = TRUE, !.age = 0, !.target = target, !.picked = Desk!None]
              old == Desk!Prepped(v1[h], Desk!PickFile(h, v2[h].target)).prio
              now == Desk!Prepped(v1[h], Desk!PickFile(h, v2[h].target))'.prio
  <2>1. /\ ~v6.on \/ v6.hash = h
        /\ ~v2[h].on \/ v2[h].target = target
        /\ ~v3[h].on
        /\ v6' = [on |-> TRUE, hash |-> h, told |-> FALSE]
        /\ v2' = [v2 EXCEPT ![h] = w] /\ v3' = v3 /\ v10' = v10
    BY <1>10, OddCases DEF Desk!AddAndWatch
  <2>2. /\ w \in Desk!Watches /\ w.on = TRUE /\ w.target = target /\ w.picked = Desk!None
        /\ w.prepped = v2[h].prepped /\ w.quiet = v2[h].quiet /\ w.since = v2[h].since
    <3>1. /\ v2[h] \in Desk!Watches /\ 0 \in 0 .. Desk!NoMeta + 1
          /\ Desk!None \in Videos \cup {Desk!None}
      BY <1>1 DEF Desk!TypeOK, Desk!NoMeta
    <3>. QED BY <1>10, <3>1 DEF Desk!Watches
  <2>. HIDE DEF w
  <2>3. v2' \in [Watched -> Desk!Watches] /\ v2'[h] = w /\ \A g \in Watched \ {h} : v2'[g] = v2[g]
    BY <1>1, <2>1, <2>2 DEF Desk!TypeOK
  <2>4. Desk!TypeOK'
    BY <1>1, <1>3, <1>4, <1>5, <2>1, <2>3 DEF Desk!TypeOK
  <2>5. Desk!WaitingIsWatched'
    <3>1. \A g \in Watched : v2[g].on <=> v6.on /\ v6.hash = g /\ ~v6.told
      BY <1>1 DEF Desk!WaitingIsWatched
    <3>2. v6'.on /\ v6'.hash = h /\ ~v6'.told
      BY <2>1
    <3>. QED BY <2>1, <2>2, <2>3, <3>1, <3>2 DEF Desk!WaitingIsWatched
  <2>6. Desk!WatchKept(h)'
    <3>1. ~v2[h].on => v2[h].prepped = FALSE /\ v2[h].quiet = FALSE
      BY <1>1 DEF Desk!WatchKept, Desk!NoWatch
    <3>2. w.quiet => w.since <= v9'[h]
      BY <1>1, <1>3, <2>2, <3>1 DEF Desk!WatchKept
    <3>3. v2[h].on => v2[h].target = target /\ v1[h].here
      BY <1>6, <2>1
    <3>4. Desk!PickFile(h, target)' = Desk!PickFile(h, target)
      <4>1. \A x \in Videos \cup {Desk!None} : Desk!PickFile(h, x)' = Desk!PickFile(h, x)
        BY <1>8, FoundAgain
      <4>. QED BY <1>10, <4>1
    <3>5. w.prepped => Desk!PickFile(h, target)' # Desk!None /\ v1'[h].prio = old
      BY <1>1, <1>2, <1>5, <2>2, <3>1, <3>3, <3>4 DEF Desk!WatchKept
    <3>6. w.prepped => now = old
      <4>. SUFFICES ASSUME w.prepped PROVE now = old
        OBVIOUS
      <4>1. v2[h].target = target /\ v2'[h].target = target /\ v1'[h] = v1[h]
        BY <1>2, <1>5, <2>2, <2>3, <3>1, <3>3
      <4>. QED BY <3>4, <4>1 DEF Desk!Prepped
    <3>7. v2'[h].target = target
      BY <2>2, <2>3
    <3>. HIDE DEF old, now
    <3>8. w.prepped => v1'[h].prio = now
      BY <3>5, <3>6
    <3>. QED BY <2>1, <2>2, <2>3, <3>2, <3>5, <3>7, <3>8 DEF Desk!WatchKept, now
  <2>7. Desk!PicksKept(h)'
    BY <1>1, <1>2, <1>3, <1>5, <1>6, <1>9, <2>1 DEF Desk!PicksKept
  <2>8. Desk!OwedIsWanted(h)'
    BY <1>1, <1>2, <1>3, <1>5, <2>1 DEF Desk!OwedIsWanted, Desk!Here
  <2>9. OthersSame(h)
    BY <1>3, <1>5, <2>1, <2>3 DEF OthersSame
  <2>. QED BY <1>7, <2>4, <2>5, <2>6, <2>7, <2>8, <2>9, OneTorrent
<1>11. ASSUME ~v2[h].on, v2' = v2, v6' = v6 PROVE Desk!WatchKept(h)' /\ Desk!WaitingIsWatched'
  BY <1>1, <1>11 DEF Desk!WatchKept, Desk!WaitingIsWatched
<1>12. ASSUME NEW f \in Videos, Desk!AddOne(h, f) PROVE Desk!DeskInv'
  <2>. DEFINE taken == ~v1[h].here \/ v4[h] # {}
              e == [on |-> TRUE, age |-> 0, target |-> f]
  <2>1. /\ taken \/ v10[h] = {0}
        /\ ~v3[h].on /\ ~v2[h].on
        /\ v3' = (IF taken THEN [v3 EXCEPT ![h] = e] ELSE v3)
        /\ v10' = (IF v10[h] = {0} THEN v10 ELSE [v10 EXCEPT ![h] = v10[h] \cup {f}])
        /\ v2' = v2 /\ v6' = v6
    BY <1>12, OddCases DEF Desk!AddOne
  <2>2. e \in Desk!Picks /\ e.on = TRUE /\ e.target = f
    BY DEF Desk!Picks, Desk!NoList
  <2>3. /\ v3' \in [Watched -> Desk!Picks] /\ v3'[h] = (IF taken THEN e ELSE v3[h])
        /\ \A g \in Watched \ {h} : v3'[g] = v3[g]
    BY <1>1, <2>1, <2>2 DEF Desk!TypeOK
  <2>4. /\ v10' \in [Watched -> SUBSET (Videos \cup {Desk!None})]
        /\ v10'[h] = (IF v10[h] = {0} THEN v10[h] ELSE v10[h] \cup {f})
        /\ \A g \in Watched \ {h} : v10'[g] = v10[g]
    BY <1>1, <2>1 DEF Desk!TypeOK
  <2>. HIDE DEF e
  <2>5. Desk!TypeOK'
    BY <1>1, <1>3, <1>4, <1>5, <2>1, <2>3, <2>4 DEF Desk!TypeOK
  <2>6. 0 \in v10[h] => v10[h] = {0} /\ v4[h] = {} /\ v1[h].here
    BY <1>1, <1>6 DEF Desk!PicksKept
  <2>7. f # 0
    BY DeskAssumption
  <2>8. v4[h] # {} => \A x \in v10[h] : x \in v4[h] \/ <<h, x>> \in v5
    BY <1>1, <2>1 DEF Desk!PicksKept
  <2>9. Desk!PicksKept(h)'
    <3>1. v4'[h] = v4[h] /\ v5' = v5
      BY <1>3
    <3>2. 0 \in v10'[h] => v10'[h] = {0} /\ ~v3'[h].on /\ v4'[h] = {}
      BY <2>1, <2>3, <2>4, <2>6, <2>7, <3>1
    <3>3. v3'[h].on \/ v4'[h] # {} =>
            \A x \in v10'[h] : x \in v4'[h] \/ <<h, x>> \in v5' \/ (v3'[h].on /\ x = v3'[h].target)
      <4>1. CASE taken
        BY <1>6, <2>2, <2>3, <2>4, <2>6, <2>8, <3>1, <4>1
      <4>2. CASE ~taken
        BY <2>1, <2>3, <3>1, <4>2
      <4>. QED BY <4>1, <4>2
    <3>. HIDE DEF taken
    <3>. QED BY <1>2, <1>5, <1>9, <3>1, <3>2, <3>3 DEF Desk!PicksKept
  <2>10. Desk!OwedIsWanted(h)'
    <3>1. CASE taken
      BY <2>2, <2>3, <3>1 DEF Desk!OwedIsWanted
    <3>2. CASE ~taken
      BY <1>1, <1>2, <1>3, <1>5, <2>1, <2>3, <2>4, <3>2 DEF Desk!OwedIsWanted, Desk!Here
    <3>. QED BY <3>1, <3>2
  <2>11. Desk!WatchKept(h)' /\ Desk!WaitingIsWatched'
    BY <1>11, <2>1
  <2>12. OthersSame(h)
    BY <1>3, <1>5, <2>1, <2>3, <2>4 DEF OthersSame
  <2>. QED BY <1>7, <2>5, <2>9, <2>10, <2>11, <2>12, OneTorrent
<1>13. ASSUME Desk!AddWhole(h) PROVE Desk!DeskInv'
  <2>1. ~v1[h].here /\ v10' = [v10 EXCEPT ![h] = {0}] /\ v2' = v2 /\ v3' = v3 /\ v6' = v6
    BY <1>13 DEF Desk!AddWhole
  <2>2. v10' \in [Watched -> SUBSET (Videos \cup {Desk!None})] /\ v10'[h] = {0} /\ \A g \in Watched \ {h} : v10'[g] = v10[g]
    BY <1>1, <2>1 DEF Desk!TypeOK, Desk!None
  <2>3. Desk!TypeOK'
    BY <1>1, <1>3, <1>4, <1>5, <2>1, <2>2 DEF Desk!TypeOK
  <2>4. Desk!WatchKept(h)' /\ Desk!WaitingIsWatched'
    BY <1>6, <1>11, <2>1
  <2>5. Desk!PicksKept(h)'
    BY <1>2, <1>3, <1>5, <1>6, <1>9, <2>1, <2>2 DEF Desk!PicksKept
  <2>6. Desk!OwedIsWanted(h)'
    BY <1>2, <1>5, <2>1 DEF Desk!OwedIsWanted, Desk!Here
  <2>7. OthersSame(h)
    BY <1>3, <1>5, <2>1, <2>2 DEF OthersSame
  <2>. QED BY <1>7, <2>3, <2>4, <2>5, <2>6, <2>7, OneTorrent
<1>. QED BY <1>10, <1>12, <1>13

\* Playing a file, or the next one, keeps it: the torrent has no watch then.
LEMMA PlayKeeps ==
  ASSUME Desk!DeskInv, NEW h \in Watched, NEW f \in Videos, Desk!Play(h, f) \/ Desk!PlayNext(h, f)
  PROVE  Desk!DeskInv'
<1>1. /\ Desk!TypeOK /\ Desk!WatchKept(h) /\ Desk!PicksKept(h) /\ Desk!OwedIsWanted(h)
      /\ Desk!WaitingIsWatched /\ Desk!WatchIsTrue /\ Desk!PlayersAreHere
  BY DEF Desk!DeskInv, Desk!WatchIsSound, Desk!PicksAreWanted
<1>2. Desk!Asked /\ ~v2[h].on /\ v3' = v3 /\ v4' = v4 /\ v9' = v9 /\ v11' = v11
  BY OddCases DEF Desk!Play, Desk!PlayNext
<1>3. v8' \in 0 .. MaxAsks
  BY <1>1, <1>2, AskedOnce
<1>4. v2[h] = Desk!NoWatch /\ Desk!NoWatch.on = FALSE
  BY <1>1, <1>2 DEF Desk!WatchKept, Desk!NoWatch
<1>5. Desk!Here(v1[h]) /\ v1[h] \in Desk!Torrents
  <2>1. CASE Desk!Play(h, f)
    BY <1>1, <2>1 DEF Desk!Play, Desk!TypeOK
  <2>2. CASE Desk!PlayNext(h, f)
    <3>. DEFINE q == <<h, f>>
    <3>1. q \in v7 /\ q[1] = h
      BY <2>2 DEF Desk!PlayNext
    <3>. HIDE DEF q
    <3>. QED BY <1>1, <3>1 DEF Desk!PlayersAreHere, Desk!TypeOK
  <2>. QED BY <2>1, <2>2
\* What follows when the file is given to the player by its torrent and number.
<1>6. ASSUME NEW x \in Videos, Desk!PlayByHashFile(v1, v2, h, x),
             v10' = [v10 EXCEPT ![h] = {}] \/ (v10' = v10 /\ Desk!Refuses(v1, h, x))
      PROVE  Desk!DeskInv'
  <2>1. /\ v1' \in [Watched -> Desk!Torrents] /\ v5 \subseteq v5' /\ v5' \subseteq Watched \X Videos
        /\ v7' \subseteq v7 \cup {<<h, x>>} /\ v2' = v2
        /\ v6' = IF v6.on /\ v6.hash = h THEN Desk!NoWindow ELSE v6
        /\ \A g \in Watched \ {h} : /\ v1'[g] = v1[g]
                                    /\ \A y \in Videos : <<g, y>> \in v5' <=> <<g, y>> \in v5
        /\ v1'[h].here = v1[h].here /\ v1'[h].meta = v1[h].meta /\ v1'[h].have = v1[h].have
        /\ IF Desk!Refuses(v1, h, x) THEN \A y \in Videos : v1'[h].prio[y] = v1[h].prio[y] \/ <<h, y>> \in v5'
           ELSE v1'[h].prio = Desk!Prepped(v1[h], x).prio
    <3>1. v1 \in [Watched -> Desk!Torrents] /\ v2 \in [Watched -> Desk!Watches]
      BY <1>1 DEF Desk!TypeOK
    <3>. QED BY <1>1, <1>4, <1>6, <3>1, FilePlayed
  <2>2. /\ v10' \in [Watched -> SUBSET (Videos \cup {Desk!None})] /\ v10'[h] \subseteq v10[h]
        /\ v10'[h] = {} \/ (v10'[h] = v10[h] /\ Desk!Refuses(v1, h, x))
        /\ \A g \in Watched \ {h} : v10'[g] = v10[g]
    BY <1>1, <1>6 DEF Desk!TypeOK
  <2>3. v6 \in [on : BOOLEAN, hash : Watched, told : BOOLEAN]
        /\ Desk!NoWindow \in [on : BOOLEAN, hash : Watched, told : BOOLEAN] /\ Desk!NoWindow.on = FALSE
    BY <1>1, DeskAssumption DEF Desk!TypeOK, Desk!NoWindow
  <2>4. Desk!TypeOK'
    <3>1. v6' \in [on : BOOLEAN, hash : Watched, told : BOOLEAN]
      BY <2>1, <2>3
    <3>2. v7' \subseteq Watched \X Videos
      BY <1>1, <2>1 DEF Desk!TypeOK
    <3>. QED BY <1>1, <1>2, <1>3, <2>1, <2>2, <3>1, <3>2 DEF Desk!TypeOK
  <2>5. Desk!WaitingIsWatched'
    <3>1. \A g \in Watched : v2[g].on <=> v6.on /\ v6.hash = g /\ ~v6.told
      BY <1>1 DEF Desk!WaitingIsWatched
    <3>2. ASSUME NEW g \in Watched PROVE v2'[g].on <=> v6'.on /\ v6'.hash = g /\ ~v6'.told
      <4>1. v2'[g].on = v2[g].on
        BY <2>1
      <4>. QED BY <1>4, <2>1, <2>3, <3>1, <4>1
    <3>. QED BY <3>2 DEF Desk!WaitingIsWatched
  <2>6. Desk!PlayersAreHere' /\ Desk!WatchIsTrue'
    <3>1. \A g \in Watched : Desk!Here(v1'[g]) = Desk!Here(v1[g])
      BY <2>1 DEF Desk!Here
    <3>2. \A q \in v7' : Desk!Here(v1[q[1]]) /\ q[1] \in Watched
      BY <1>1, <1>5, <2>1 DEF Desk!PlayersAreHere, Desk!TypeOK
    <3>. QED BY <1>1, <1>2, <3>1, <3>2 DEF Desk!PlayersAreHere, Desk!WatchIsTrue, Desk!Here
  <2>7. Desk!WatchKept(h)'
    BY <1>4, <2>1 DEF Desk!WatchKept, Desk!NoWatch
  <2>8. Desk!PicksKept(h)'
    <3>1. v1'[h].here /\ v1'[h].meta
      BY <1>5, <2>1 DEF Desk!Here
    <3>2. v3'[h] = v3[h] /\ v4'[h] = v4[h]
      BY <1>2
    <3>3. 0 \in v10'[h] => v10'[h] = {0} /\ ~v3'[h].on /\ v4'[h] = {}
      BY <1>1, <2>2, <3>2 DEF Desk!PicksKept
    <3>4. v3'[h].on \/ v4'[h] # {} =>
            \A y \in v10'[h] : y \in v4'[h] \/ <<h, y>> \in v5' \/ (v3'[h].on /\ y = v3'[h].target)
      BY <1>1, <2>1, <2>2, <3>2 DEF Desk!PicksKept
    <3>. QED BY <3>1, <3>3, <3>4 DEF Desk!PicksKept
  <2>9. Desk!OwedIsWanted(h)'
    <3>1. CASE v10'[h] = {}
      BY <3>1 DEF Desk!OwedIsWanted
    <3>2. CASE v10'[h] = v10[h] /\ Desk!Refuses(v1, h, x)
      BY <1>1, <1>2, <1>5, <2>1, <3>2 DEF Desk!OwedIsWanted, Desk!Here
    <3>. QED BY <2>2, <3>1, <3>2
  <2>10. OthersSame(h)
    BY <1>2, <2>1, <2>2 DEF OthersSame
  <2>. QED BY <2>4, <2>5, <2>6, <2>7, <2>8, <2>9, <2>10, OneTorrent
<1>7. CASE Desk!Play(h, f)
  <2>1. Desk!PlayByHashFile(v1, v2, h, f) /\ v10' = [v10 EXCEPT ![h] = {}]
    BY <1>7 DEF Desk!Play
  <2>. QED BY <1>6, <2>1
<1>8. CASE Desk!PlayNext(h, f)
  <2>. DEFINE next == Desk!NextEpisode(f)
              e == Desk!Prepped(v1[h], next)
  <2>1. next \in Videos /\ <<h, f>> \in v7
    BY <1>8 DEF Desk!PlayNext, Desk!NextEpisode
  <2>2. \/ Desk!PlayByHashFile(v1, v2, h, next) /\ v10' = v10 /\ Desk!Refuses(v1, h, next)
        \/ /\ v1' = [v1 EXCEPT ![h] = e] /\ v7' = (v7 \ {<<h, f>>}) \cup {<<h, next>>}
           /\ v10' = [v10 EXCEPT ![h] = {}] /\ v5' = v5 /\ v6' = v6 /\ v2' = v2
    BY <1>5, <1>8 DEF Desk!PlayNext, Desk!Here
  <2>. HIDE DEF next
  <2>3. CASE Desk!PlayByHashFile(v1, v2, h, next) /\ v10' = v10 /\ Desk!Refuses(v1, h, next)
    BY <1>6, <2>1, <2>3
  <2>4. CASE /\ v1' = [v1 EXCEPT ![h] = e] /\ v7' = (v7 \ {<<h, f>>}) \cup {<<h, next>>}
             /\ v10' = [v10 EXCEPT ![h] = {}] /\ v5' = v5 /\ v6' = v6 /\ v2' = v2
    <3>1. /\ e \in Desk!Torrents /\ e.here = v1[h].here /\ e.meta = v1[h].meta
      BY <1>5, <2>1 DEF Desk!Prepped, Desk!Torrents
    <3>. HIDE DEF e
    <3>2. v1' \in [Watched -> Desk!Torrents] /\ v1'[h] = e /\ \A g \in Watched \ {h} : v1'[g] = v1[g]
      BY <1>1, <2>4, <3>1 DEF Desk!TypeOK
    <3>3. /\ v10' \in [Watched -> SUBSET (Videos \cup {Desk!None})] /\ v10'[h] = {}
          /\ \A g \in Watched \ {h} : v10'[g] = v10[g]
      BY <1>1, <2>4 DEF Desk!TypeOK
    <3>4. Desk!TypeOK'
      BY <1>1, <1>2, <1>3, <2>1, <2>4, <3>2, <3>3 DEF Desk!TypeOK
    <3>5. Desk!WaitingIsWatched' /\ Desk!WatchIsTrue'
      BY <1>1, <1>2, <2>4 DEF Desk!WaitingIsWatched, Desk!WatchIsTrue
    <3>6. Desk!PlayersAreHere'
      <4>1. \A g \in Watched : Desk!Here(v1'[g]) = Desk!Here(v1[g])
        BY <3>1, <3>2 DEF Desk!Here
      <4>2. \A q \in v7' : Desk!Here(v1[q[1]]) /\ q[1] \in Watched
        BY <1>1, <1>5, <2>4 DEF Desk!PlayersAreHere, Desk!TypeOK
      <4>. QED BY <4>1, <4>2 DEF Desk!PlayersAreHere, Desk!Here
    <3>7. Desk!WatchKept(h)'
      BY <1>4, <2>4 DEF Desk!WatchKept, Desk!NoWatch
    <3>8. Desk!PicksKept(h)' /\ Desk!OwedIsWanted(h)'
      BY <1>5, <3>1, <3>2, <3>3 DEF Desk!PicksKept, Desk!OwedIsWanted, Desk!Here
    <3>9. OthersSame(h)
      BY <1>2, <2>4, <3>2, <3>3 DEF OthersSame
    <3>. QED BY <3>4, <3>5, <3>6, <3>7, <3>8, <3>9, OneTorrent
  <2>. QED BY <2>2, <2>3, <2>4
<1>. QED BY <1>7, <1>8

\* The torrent alone changes, and its watches, picks and windows see no difference.
LEMMA SwarmKeeps ==
  ASSUME Desk!DeskInv, NEW h \in Watched, NEW t \in Desk!Torrents,
         v1' = [v1 EXCEPT ![h] = t], Desk!Asked \/ UNCHANGED v8,
         UNCHANGED <<v2, v3, v4, v5, v6, v7, v9, v10, v11>>,
         t.here = v1[h].here, t.prio = v1[h].prio,
         v1[h].meta => t.meta, t.meta /\ ~v1[h].meta => v1[h].here,
         \A f \in Videos : v1[h].have[f] = 2 => t.have[f] = 2
  PROVE  Desk!DeskInv'
<1>1. /\ Desk!TypeOK /\ Desk!WatchKept(h) /\ Desk!PicksKept(h) /\ Desk!OwedIsWanted(h)
      /\ Desk!WaitingIsWatched /\ Desk!WatchIsTrue /\ Desk!PlayersAreHere
  BY DEF Desk!DeskInv, Desk!WatchIsSound, Desk!PicksAreWanted
<1>2. v8' \in 0 .. MaxAsks
  BY <1>1, AskedOnce
<1>3. v1' \in [Watched -> Desk!Torrents] /\ v1'[h] = t /\ \A g \in Watched \ {h} : v1'[g] = v1[g]
  BY <1>1 DEF Desk!TypeOK
<1>4. Desk!TypeOK' /\ Desk!WaitingIsWatched' /\ Desk!WatchIsTrue'
  BY <1>1, <1>2, <1>3 DEF Desk!TypeOK, Desk!WaitingIsWatched, Desk!WatchIsTrue
<1>5. Desk!PlayersAreHere'
  <2>1. \A g \in Watched : Desk!Here(v1[g]) => Desk!Here(v1'[g])
    BY <1>3 DEF Desk!Here
  <2>2. \A q \in v7 : Desk!Here(v1[q[1]]) /\ q[1] \in Watched
    BY <1>1 DEF Desk!PlayersAreHere, Desk!TypeOK
  <2>. QED BY <2>1, <2>2 DEF Desk!PlayersAreHere, Desk!Here
<1>6. Desk!PickFile(h, v2[h].target)' = Desk!PickFile(h, v2[h].target)
  <2>1. \A x \in Videos \cup {Desk!None} : Desk!PickFile(h, x)' = Desk!PickFile(h, x)
    BY FoundAgain
  <2>2. v2[h].target \in Videos \cup {Desk!None}
    BY <1>1 DEF Desk!TypeOK, Desk!Watches
  <2>. QED BY <2>1, <2>2
<1>7. Desk!Prepped(v1[h], Desk!PickFile(h, v2[h].target))'.prio = Desk!Prepped(v1[h], Desk!PickFile(h, v2[h].target)).prio
  <2>1. \A s \in Desk!Torrents, f \in Videos \cup {Desk!None} : Desk!Prepped(s, f).prio = [g \in Videos |-> IF g = f THEN 7 ELSE 0]
    BY DEF Desk!Prepped, Desk!Torrents
  <2>2. v2[h].target \in Videos \cup {Desk!None} /\ v1[h] \in Desk!Torrents
    BY <1>1 DEF Desk!TypeOK, Desk!Watches
  <2>3. Desk!PickFile(h, v2[h].target) \in Videos \cup {Desk!None}
    BY <2>2, FileFound
  <2>. QED BY <1>3, <1>6, <2>1, <2>2, <2>3 DEF Desk!Prepped
<1>8. Desk!WatchKept(h)'
  BY <1>1, <1>3, <1>6, <1>7 DEF Desk!WatchKept
<1>9. Desk!PicksKept(h)'
  BY <1>1, <1>3 DEF Desk!PicksKept
<1>10. Desk!OwedIsWanted(h)'
  <2>1. v1[h].here /\ ~v1[h].meta => \A f \in Videos : v1[h].prio[f] = 4
    BY <1>1 DEF Desk!PicksKept
  <2>. QED BY <1>1, <1>3, <2>1 DEF Desk!OwedIsWanted, Desk!Here
<1>11. OthersSame(h)
  BY <1>3 DEF OthersSame
<1>. QED BY <1>4, <1>5, <1>8, <1>9, <1>10, <1>11, OneTorrent

\* A pause, peers that come and go, the list of files and the data keep it.
LEMMA SwarmSteps ==
  ASSUME Desk!DeskInv, NEW h \in Watched,
         \/ Desk!PauseTorrent(h) \/ Desk!PeersChange(h) \/ Desk!MetadataArrives(h)
         \/ \E f \in Videos : Desk!DataArrives(h, f)
  PROVE  Desk!DeskInv'
<1>. DEFINE s == v1[h]
<1>1. Desk!TypeOK /\ s \in Desk!Torrents
  BY DEF Desk!DeskInv, Desk!TypeOK
<1>2. CASE Desk!PauseTorrent(h)
  <2>. DEFINE t == [s EXCEPT !.paused = TRUE]
  <2>1. /\ t \in Desk!Torrents /\ t.here = s.here /\ t.prio = s.prio /\ t.meta = s.meta
        /\ t.have = s.have
    BY <1>1 DEF Desk!Torrents
  <2>2. /\ v1' = [v1 EXCEPT ![h] = t] /\ Desk!Asked
        /\ UNCHANGED <<v2, v3, v4, v5, v6, v7, v9, v10, v11>>
    BY <1>2 DEF Desk!PauseTorrent
  <2>. HIDE DEF t
  <2>. QED BY <2>1, <2>2, SwarmKeeps
<1>3. CASE Desk!PeersChange(h)
  <2>. DEFINE t == [s EXCEPT !.swarm = ~s.swarm]
  <2>1. /\ t \in Desk!Torrents /\ t.here = s.here /\ t.prio = s.prio /\ t.meta = s.meta
        /\ t.have = s.have
    BY <1>1 DEF Desk!Torrents
  <2>2. v1' = [v1 EXCEPT ![h] = t] /\ (Desk!Asked \/ UNCHANGED v8) /\ UNCHANGED <<v2, v3, v4, v5, v6, v7, v9, v10, v11>>
    BY <1>3 DEF Desk!PeersChange
  <2>. HIDE DEF t
  <2>. QED BY <2>1, <2>2, SwarmKeeps
<1>4. CASE Desk!MetadataArrives(h)
  <2>. DEFINE t == [s EXCEPT !.meta = TRUE]
  <2>1. /\ t \in Desk!Torrents /\ t.here = s.here /\ t.prio = s.prio /\ t.meta = TRUE
        /\ t.have = s.have
    BY <1>1 DEF Desk!Torrents
  <2>2. /\ v1' = [v1 EXCEPT ![h] = t] /\ UNCHANGED <<v2, v3, v4, v5, v6, v7, v8, v9, v10, v11>>
        /\ s.here
    BY <1>4 DEF Desk!MetadataArrives, Desk!Peers
  <2>. HIDE DEF t
  <2>. QED BY <2>1, <2>2, SwarmKeeps
<1>5. ASSUME NEW f \in Videos, Desk!DataArrives(h, f) PROVE Desk!DeskInv'
  <2>. DEFINE t == [s EXCEPT !.have[f] = s.have[f] + 1]
  <2>1. s.have[f] < 2 /\ s.have \in [Videos -> 0 .. 2]
    BY <1>1, <1>5 DEF Desk!DataArrives, Desk!Torrents
  <2>2. /\ t \in Desk!Torrents /\ t.here = s.here /\ t.prio = s.prio /\ t.meta = s.meta
        /\ \A g \in Videos : s.have[g] = 2 => t.have[g] = 2
    BY <1>1, <2>1 DEF Desk!Torrents
  <2>3. v1' = [v1 EXCEPT ![h] = t] /\ UNCHANGED <<v2, v3, v4, v5, v6, v7, v8, v9, v10, v11>>
    BY <1>5 DEF Desk!DataArrives
  <2>. HIDE DEF t
  <2>. QED BY <2>2, <2>3, SwarmKeeps
<1>. QED BY <1>2, <1>3, <1>4, <1>5

\* Removing a torrent keeps it: nothing is owed of it any more.
LEMMA RemoveKeeps ==
  ASSUME Desk!DeskInv, NEW h \in Watched, Desk!RemoveTorrent(h)
  PROVE  Desk!DeskInv'
<1>1. /\ Desk!TypeOK /\ Desk!WatchKept(h) /\ Desk!PicksKept(h) /\ Desk!OwedIsWanted(h)
      /\ Desk!WaitingIsWatched /\ Desk!WatchIsTrue /\ Desk!PlayersAreHere
  BY DEF Desk!DeskInv, Desk!WatchIsSound, Desk!PicksAreWanted
<1>. DEFINE t == [Desk!Gone EXCEPT !.swarm = v1[h].swarm, !.have = Desk!Gone.have]
<1>2. /\ Desk!Asked /\ v1' = [v1 EXCEPT ![h] = t] /\ v7' = {q \in v7 : q[1] # h} /\ v5' = v5 \ Desk!HeldOf(h)
      /\ v10' = [v10 EXCEPT ![h] = {}] /\ UNCHANGED <<v2, v3, v4, v6, v9, v11>>
  BY OddCases DEF Desk!RemoveTorrent
<1>3. t \in Desk!Torrents /\ t.here = FALSE
  <2>1. Desk!Gone \in Desk!Torrents /\ v1[h] \in Desk!Torrents /\ Desk!Gone.here = FALSE
    BY <1>1 DEF Desk!TypeOK, Desk!Gone, Desk!Torrents
  <2>. QED BY <2>1 DEF Desk!Torrents
<1>. HIDE DEF t
<1>4. v1' \in [Watched -> Desk!Torrents] /\ v1'[h] = t /\ \A g \in Watched \ {h} : v1'[g] = v1[g]
  BY <1>1, <1>2, <1>3 DEF Desk!TypeOK
<1>5. /\ v10' \in [Watched -> SUBSET (Videos \cup {Desk!None})] /\ v10'[h] = {}
      /\ \A g \in Watched \ {h} : v10'[g] = v10[g]
  BY <1>1, <1>2 DEF Desk!TypeOK
<1>6. v8' \in 0 .. MaxAsks
  BY <1>1, <1>2, AskedOnce
<1>7. Desk!TypeOK' /\ Desk!WaitingIsWatched' /\ Desk!WatchIsTrue'
  BY <1>1, <1>2, <1>4, <1>5, <1>6 DEF Desk!TypeOK, Desk!WaitingIsWatched, Desk!WatchIsTrue
<1>8. Desk!PlayersAreHere'
  <2>1. \A q \in v7' : Desk!Here(v1[q[1]]) /\ q[1] \in Watched \ {h}
    BY <1>1, <1>2 DEF Desk!PlayersAreHere, Desk!TypeOK
  <2>. QED BY <1>4, <2>1 DEF Desk!PlayersAreHere, Desk!Here
<1>9. Desk!WatchKept(h)' /\ Desk!PicksKept(h)' /\ Desk!OwedIsWanted(h)'
  BY <1>1, <1>2, <1>3, <1>4, <1>5 DEF Desk!WatchKept, Desk!PicksKept, Desk!OwedIsWanted, Desk!Here
<1>10. OthersSame(h)
  BY <1>2, <1>4, <1>5 DEF Desk!HeldOf, OthersSame
<1>. QED BY <1>7, <1>8, <1>9, <1>10, OneTorrent

\* Cancelling a wait ends the watch with its window.
LEMMA CancelKeeps ==
  ASSUME Desk!DeskInv, Desk!CancelWait
  PROVE  Desk!DeskInv'
<1>0. PICK h \in Watched : h = v6.hash
  BY DEF Desk!DeskInv, Desk!TypeOK
<1>1. /\ Desk!TypeOK /\ Desk!WaitingIsWatched /\ Desk!WatchIsTrue /\ Desk!PlayersAreHere
  BY DEF Desk!DeskInv, Desk!WatchIsSound, Desk!TypeOK
<1>2. Desk!PicksKept(h) /\ Desk!OwedIsWanted(h)
  BY <1>1 DEF Desk!DeskInv, Desk!WatchIsSound, Desk!PicksAreWanted
<1>3. /\ v6.on /\ v6' = Desk!NoWindow /\ v2' = [v2 EXCEPT ![h] = Desk!NoWatch]
      /\ v9' = [v9 EXCEPT ![h] = 0]
      /\ UNCHANGED <<v1, v3, v4, v5, v7, v8, v10, v11>>
  BY <1>0 DEF Desk!CancelWait, Desk!Unwatched
<1>4. /\ Desk!NoWatch \in Desk!Watches /\ Desk!NoWatch.on = FALSE /\ Desk!NoWindow.on = FALSE
      /\ Desk!NoWindow \in [on : BOOLEAN, hash : Watched, told : BOOLEAN]
  BY DeskAssumption DEF Desk!NoWatch, Desk!Watches, Desk!NoPeers, Desk!NoMeta, Desk!None,
    Desk!NoWindow
<1>5. v2' \in [Watched -> Desk!Watches] /\ v2'[h] = Desk!NoWatch /\ \A g \in Watched \ {h} : v2'[g] = v2[g]
  BY <1>1, <1>3, <1>4 DEF Desk!TypeOK
<1>6. v9' \in [Watched -> 0 .. Desk!NoPeers] /\ \A g \in Watched \ {h} : v9'[g] = v9[g]
  BY <1>1, <1>3 DEF Desk!TypeOK, Desk!NoPeers
<1>7. Desk!TypeOK' /\ Desk!WatchIsTrue' /\ Desk!PlayersAreHere'
  BY <1>1, <1>3, <1>4, <1>5, <1>6 DEF Desk!TypeOK, Desk!WatchIsTrue, Desk!PlayersAreHere, Desk!Here
<1>8. Desk!WaitingIsWatched'
  <2>1. \A g \in Watched : v2[g].on => g = v6.hash
    BY <1>1 DEF Desk!WaitingIsWatched
  <2>2. \A g \in Watched : ~v2'[g].on
    BY <1>0, <1>4, <1>5, <2>1
  <2>. QED BY <1>3, <1>4, <2>2 DEF Desk!WaitingIsWatched
<1>9. Desk!WatchKept(h)'
  BY <1>4, <1>5 DEF Desk!WatchKept, Desk!NoWatch
<1>10. Desk!PicksKept(h)' /\ Desk!OwedIsWanted(h)'
  <2>1. v1'[h] = v1[h] /\ v3'[h] = v3[h] /\ v4'[h] = v4[h] /\ v5' = v5 /\ v10'[h] = v10[h]
    BY <1>3
  <2>2. Desk!PicksKept(h)'
    BY <1>2, <1>3 DEF Desk!PicksKept
  <2>. QED BY <1>2, <1>3, <2>2 DEF Desk!OwedIsWanted, Desk!Here
<1>11. OthersSame(h)
  BY <1>3, <1>5, <1>6 DEF OthersSame
<1>. QED BY <1>1, <1>7, <1>8, <1>9, <1>10, <1>11, OneTorrent

\* Closing a player touches no watch.
LEMMA CloseKeeps ==
  ASSUME Desk!DeskInv, NEW p \in v7, Desk!ClosePlayer(p)
  PROVE  Desk!DeskInv'
<1>1. v7' = v7 \ {p} /\ UNCHANGED <<v1, v2, v3, v4, v5, v6, v8, v9, v10, v11>>
  BY DEF Desk!ClosePlayer
<1>2. /\ Desk!TypeOK /\ Desk!WaitingIsWatched /\ Desk!WatchIsTrue /\ Desk!PlayersAreHere
      /\ \A g \in Watched : Desk!WatchKept(g) /\ Desk!PicksKept(g) /\ Desk!OwedIsWanted(g)
  BY DEF Desk!DeskInv, Desk!WatchIsSound, Desk!PicksAreWanted
<1>3. Desk!TypeOK' /\ Desk!WaitingIsWatched' /\ Desk!WatchIsTrue' /\ Desk!PlayersAreHere'
  BY <1>1, <1>2 DEF Desk!TypeOK, Desk!WaitingIsWatched, Desk!WatchIsTrue, Desk!PlayersAreHere,
    Desk!Here
<1>4. PICK h \in Watched : TRUE
  BY DeskAssumption
<1>5. \A g \in Watched : /\ v1'[g] = v1[g] /\ v2'[g] = v2[g] /\ v3'[g] = v3[g] /\ v4'[g] = v4[g]
                         /\ v9'[g] = v9[g] /\ v10'[g] = v10[g]
                         /\ \A y \in Videos : <<g, y>> \in v5' <=> <<g, y>> \in v5
  BY <1>1
<1>6. Desk!WatchKept(h)' /\ Desk!PicksKept(h)' /\ Desk!OwedIsWanted(h)'
  BY <1>2, <1>5, OthersKept
<1>. QED BY <1>3, <1>5, <1>6, OneTorrent DEF OthersSame

\* A restart forgets the watches and their windows together.
LEMMA RestartKeeps ==
  ASSUME Desk!DeskInv, Desk!Restart
  PROVE  Desk!DeskInv'
<1>1. /\ Desk!TypeOK /\ Desk!WatchIsTrue
      /\ \A g \in Watched : Desk!PicksKept(g) /\ Desk!OwedIsWanted(g)
  BY DEF Desk!DeskInv, Desk!WatchIsSound, Desk!PicksAreWanted
<1>2. /\ Desk!Asked /\ \A h \in Watched : ~v3[h].on
      /\ v2' = [h \in Watched |-> Desk!NoWatch] /\ v3' = [h \in Watched |-> Desk!NoPick]
      /\ v4' = [h \in Watched |-> {}] /\ v6' = Desk!NoWindow /\ v7' = {}
      /\ v9' = [h \in Watched |-> 0]
      /\ v1' = [h \in Watched |-> [v1[h] EXCEPT !.near = {}]] /\ UNCHANGED <<v5, v10, v11>>
  BY OddCases DEF Desk!Restart
<1>3. /\ Desk!NoWatch \in Desk!Watches /\ Desk!NoWatch.on = FALSE /\ Desk!NoWindow.on = FALSE
      /\ Desk!NoWindow \in [on : BOOLEAN, hash : Watched, told : BOOLEAN]
      /\ Desk!NoPick \in Desk!Picks /\ Desk!NoPick.on = FALSE
  BY DeskAssumption DEF Desk!NoWatch, Desk!Watches, Desk!NoPeers, Desk!NoMeta, Desk!None,
    Desk!NoWindow,
     Desk!NoPick, Desk!Picks, Desk!NoList
<1>4. ASSUME NEW g \in Watched
      PROVE  /\ v1'[g] \in Desk!Torrents /\ v1'[g].here = v1[g].here /\ v1'[g].meta = v1[g].meta
             /\ v1'[g].prio = v1[g].prio /\ v1'[g].have = v1[g].have
  <2>1. v1[g] \in Desk!Torrents /\ v1'[g] = [v1[g] EXCEPT !.near = {}]
    BY <1>1, <1>2 DEF Desk!TypeOK
  <2>. QED BY <2>1 DEF Desk!Torrents
<1>5. v8' \in 0 .. MaxAsks
  BY <1>1, <1>2, AskedOnce
<1>6. Desk!TypeOK'
  <2>1. v1' \in [Watched -> Desk!Torrents]
    BY <1>2, <1>4
  <2>. QED BY <1>1, <1>2, <1>3, <1>5, <2>1 DEF Desk!TypeOK, Desk!NoPeers
<1>7. Desk!WaitingIsWatched' /\ Desk!WatchIsTrue' /\ Desk!PlayersAreHere'
  BY <1>1, <1>2, <1>3 DEF Desk!WaitingIsWatched, Desk!WatchIsTrue, Desk!PlayersAreHere
<1>8. \A g \in Watched : Desk!WatchKept(g)'
  BY <1>2, <1>3 DEF Desk!WatchKept
<1>9. \A g \in Watched : Desk!PicksKept(g)'
  <2>1. ASSUME NEW g \in Watched PROVE Desk!PicksKept(g)'
    <3>1. v3'[g].on = FALSE /\ v4'[g] = {} /\ v10'[g] = v10[g]
      BY <1>2, <1>3
    <3>. QED BY <1>1, <1>4, <3>1 DEF Desk!PicksKept
  <2>. QED BY <2>1
<1>10. \A g \in Watched : Desk!OwedIsWanted(g)'
  <2>1. ASSUME NEW g \in Watched PROVE Desk!OwedIsWanted(g)'
    BY <1>1, <1>2, <1>4 DEF Desk!OwedIsWanted, Desk!Here
  <2>. QED BY <2>1
<1>11. Desk!WaitedIsFetched'
  BY <1>6, <1>8, FetchedNext
<1>. QED BY <1>6, <1>7, <1>8, <1>9, <1>10, <1>11 DEF Desk!DeskInv, Desk!WatchIsSound,
  Desk!PicksAreWanted

\* Every step of the desk keeps its invariant.
LEMMA DeskSteps ==
  ASSUME Desk!DeskInv, Desk!Next
  PROVE  Desk!DeskInv'
<1>1. ASSUME NEW h \in Watched,
             \/ \E f \in Videos \cup {Desk!None} : Desk!AddAndWatch(h, f)
             \/ \E f \in Videos : \/ Desk!AddOne(h, f) \/ Desk!Play(h, f) \/ Desk!PlayNext(h, f)
                                  \/ Desk!DataArrives(h, f)
             \/ Desk!AddWhole(h) \/ Desk!PauseTorrent(h) \/ Desk!RemoveTorrent(h)
             \/ Desk!PeersChange(h) \/ Desk!MetadataArrives(h)
             \/ Desk!Tick(h) \/ Desk!FastPoll(h)
      PROVE  Desk!DeskInv'
  BY <1>1, AddKeeps, PlayKeeps, SwarmSteps, RemoveKeeps, TickKeeps
<1>2. ~Desk!PlayBetter
  BY OddCases DEF Desk!PlayBetter
<1>. QED BY <1>1, <1>2, CloseKeeps, CancelKeeps, RestartKeeps DEF Desk!Next

-----------------------------------------------------------------------------
(* The four components of the player together *)

\* A behaviour stays of the component it is of.
LEMMA PartStays ==
  ASSUME [Next]_vars
  PROVE  part' = part
BY DEF Next, vars

\* A step of nothing keeps the invariant of the feed,
LEMMA FeedStays ==
  ASSUME Feed!FeedInv, UNCHANGED vars
  PROVE  Feed!FeedInv'
BY DEF vars, Feed!FeedInv, Feed!TypeOK, Feed!AnswersAreTrue, Feed!BufferIsTrue, Feed!BufEnd

\* of the frames,
LEMMA FramesStay ==
  ASSUME Frames!FramesInv, UNCHANGED vars
  PROVE  Frames!FramesInv'
<1>. USE DEF vars
<1>1. Frames!TypeOK' /\ Frames!PicturesAreWhole' /\ Frames!NoSlotIsLost'
  BY DEF Frames!FramesInv, Frames!FramesAreSound, Frames!TypeOK, Frames!PicturesAreWhole,
    Frames!NoSlotIsLost
<1>2. Frames!SegmentsInOrder'
  BY DEF Frames!FramesInv, Frames!SegmentsInOrder, Frames!FrameOf, Frames!ReleaseOf, Frames!RingAt
<1>3. Frames!SlotsAreHeld'
  BY DEF Frames!FramesInv, Frames!SlotsAreHeld, Frames!FrameOf, Frames!ReleaseOf
<1>. QED BY <1>1, <1>2, <1>3 DEF Frames!FramesInv, Frames!FramesAreSound

\* of the control,
LEMMA ControlStays ==
  ASSUME Control!ControlInv, UNCHANGED vars
  PROVE  Control!ControlInv'
BY DEF vars, Control!ControlInv, Control!TypeOK, Control!ChannelIsThere, Control!UnreadTells,
  Control!Unread,
   Control!WillOpen, Control!WillDo

\* and of the desk.
LEMMA DeskStays ==
  ASSUME Desk!DeskInv, UNCHANGED vars
  PROVE  Desk!DeskInv'
<1>1. UNCHANGED <<v1, v2, v3, v4, v5, v6, v7, v8, v9, v10, v11>>
  BY DEF vars
<1>2. /\ Desk!TypeOK /\ Desk!WaitingIsWatched /\ Desk!WatchIsTrue /\ Desk!PlayersAreHere
      /\ \A g \in Watched : Desk!WatchKept(g) /\ Desk!PicksKept(g) /\ Desk!OwedIsWanted(g)
  BY DEF Desk!DeskInv, Desk!WatchIsSound, Desk!PicksAreWanted
<1>3. Desk!TypeOK' /\ Desk!WaitingIsWatched' /\ Desk!WatchIsTrue' /\ Desk!PlayersAreHere'
  BY <1>1, <1>2 DEF Desk!TypeOK, Desk!WaitingIsWatched, Desk!WatchIsTrue, Desk!PlayersAreHere,
    Desk!Here
<1>4. PICK h \in Watched : TRUE
  BY DeskAssumption
<1>5. \A g \in Watched : /\ v1'[g] = v1[g] /\ v2'[g] = v2[g] /\ v3'[g] = v3[g] /\ v4'[g] = v4[g]
                         /\ v9'[g] = v9[g] /\ v10'[g] = v10[g]
                         /\ \A y \in Videos : <<g, y>> \in v5' <=> <<g, y>> \in v5
  BY <1>1
<1>6. Desk!WatchKept(h)' /\ Desk!PicksKept(h)' /\ Desk!OwedIsWanted(h)'
  BY <1>2, <1>5, OthersKept
<1>. QED BY <1>3, <1>5, <1>6, OneTorrent DEF OthersSame

\* Answers hold the bytes of the place they are for; the picture on the screen is the one
\* that was announced and no slot is lost; a decoder that has read its commands plays what
\* is wanted; and a watch has its window, opens the file it is for, fetches it first, and
\* says that nobody has it only after the limit, while what was picked file by file stays
\* wanted: for every size of file, buffer and segments, and any number of slots, rings,
\* openings, torrents and files.
THEOREM PlayerTrue == Spec => []PlayerIsTrue
<1>. DEFINE Inv == /\ part = "feed" => Feed!FeedInv
                   /\ part = "frames" => Frames!FramesInv
                   /\ part = "control" => Control!ControlInv
                   /\ part = "desk" => Desk!DeskInv
<1>1. Init => Inv
  <2>. SUFFICES ASSUME Init PROVE Inv
    OBVIOUS
  <2>1. part = "feed" => Feed!FeedInv
    BY FeedInit DEF Init
  <2>2. part = "frames" => Frames!FramesInv
    BY FramesInit DEF Init
  <2>3. part = "control" => Control!ControlInv
    BY ControlInit DEF Init
  <2>4. part = "desk" => Desk!DeskInv
    BY DeskInit DEF Init
  <2>. QED BY <2>1, <2>2, <2>3, <2>4
<1>2. Inv /\ [Next]_vars => Inv'
  <2>. SUFFICES ASSUME Inv, [Next]_vars PROVE Inv'
    OBVIOUS
  <2>0. part' = part
    BY PartStays
  <2>1. ASSUME part = "feed" PROVE Feed!FeedInv'
    <3>1. Feed!Next \/ UNCHANGED vars
      BY <2>1 DEF Next
    <3>. QED BY <2>1, <3>1, FeedSteps, FeedStays
  <2>2. ASSUME part = "frames" PROVE Frames!FramesInv'
    <3>1. Frames!Next \/ UNCHANGED vars
      BY <2>2 DEF Next
    <3>2. CASE Frames!Next
      BY <2>2, <3>2, FramesTypes, FramesSteps DEF Frames!FramesInv, Frames!FramesAreSound
    <3>. QED BY <2>2, <3>1, <3>2, FramesStay
  <2>3. ASSUME part = "control" PROVE Control!ControlInv'
    <3>1. Control!Next \/ UNCHANGED vars
      BY <2>3 DEF Next
    <3>. QED BY <2>3, <3>1, ControlSteps, ControlStays
  <2>4. ASSUME part = "desk" PROVE Desk!DeskInv'
    <3>1. Desk!Next \/ UNCHANGED vars
      BY <2>4 DEF Next
    <3>. QED BY <2>4, <3>1, DeskSteps, DeskStays
  <2>. QED BY <2>0, <2>1, <2>2, <2>3, <2>4
<1>3. Inv => PlayerIsTrue
  BY ControlPromises DEF PlayerIsTrue, Feed!FeedInv, Frames!FramesInv, Desk!DeskInv
<1>. QED BY <1>1, <1>2, <1>3, PTL DEF Spec
==============================================================================
