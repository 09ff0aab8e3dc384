------------------------------- MODULE MediaFeed ------------------------------
(***************************************************************************)
(* How the sandboxed decoder gets its bytes.  It reads a device that asks  *)
(* the other process for a stretch of the file; there a feed holds one     *)
(* reply of the local stream server, with a window of bytes ahead of the   *)
(* reader.  A place far from the window costs a new reply, one that is     *)
(* just ahead is waited for, one that a reply ended before is asked for    *)
(* once more.                                                              *)
(*                                                                         *)
(* The decoder reads from one thread, so one question is out at a time.    *)
(* Data left out: the bytes.  Offsets and lengths are in units of what the *)
(* device asks for at least, which is also the shortest answer here.       *)
(***************************************************************************)
EXTENDS Integers

CONSTANTS
  Size,       \* of the file
  Window,     \* kWindow: what the feed holds
  KeepBehind, \* kKeepBehind
  NearAhead,  \* kNearAhead
  ReadAhead,  \* kReadAhead: the length the device asks for
  Jumps,      \* where a seek may go to
  Ends,       \* bound: how often the server ends a reply early
  FeedOps     \* "ahead": seeks just past the window, to where it will not reach;
              \* "deaf": the server may not understand Range

VARIABLES
  at,      \* where the decoder reads
  question,\* the request that is out: its offset and length, or No
  answer,  \* the last answer: the offset it is for, its length, the bytes it really has
  failed,  \* RemoteSource::m_failed
  buf,     \* m_bufStart and the length of m_buf; real: where its bytes are from
  reader,  \* m_readerAt
  reply,   \* the reply: where it really starts, what is there and not read, ended
  retried, \* m_retriedAt
  ends     \* replies that ended early

feed == <<at, question, answer, failed, buf, reader, reply, retried, ends>>

No == [offset |-> -1, length |-> 0]
NoReply == [next |-> 0, waiting |-> 0, ended |-> TRUE, up |-> FALSE, checked |-> FALSE]

Questions == {No} \cup {q \in [offset : 0 .. Size - 1, length : 1 .. ReadAhead] :
                          q.offset + q.length <= Size}

Answers == [offset : 0 .. Size, length : 0 .. ReadAhead, real : 0 .. Size]
Buffers == [start : 0 .. Size, len : 0 .. Window, real : 0 .. Size]
Replies == [next : 0 .. Size, waiting : 0 .. Window, ended : BOOLEAN, up : BOOLEAN,
            checked : BOOLEAN]

TypeOK ==
  /\ at \in 0 .. Size /\ reader \in 0 .. Size
  /\ question \in Questions /\ answer \in Answers /\ failed \in BOOLEAN
  /\ buf \in Buffers /\ reply \in Replies
  /\ retried \in -1 .. Size /\ ends \in 0 .. Ends

Init ==
  /\ at = 0 /\ question = No /\ failed = FALSE
  /\ answer = [offset |-> 0, length |-> 0, real |-> 0]
  /\ buf = [start |-> 0, len |-> 0, real |-> 0] /\ reader = 0
  /\ reply = NoReply /\ retried = -1 /\ ends = 0

Lesser(i, j) == IF i <= j THEN i ELSE j
Greater(i, j) == IF i >= j THEN i ELSE j
BufEnd(b) == b.start + b.len

-----------------------------------------------------------------------------
(* The feed *)

\* streamFrom: the old reply goes, with all that it brought.  A server that does not
\* understand Range begins at 0 and says so.
StreamFrom(offset) ==
  /\ \E real \in {offset} \cup (IF "deaf" \in FeedOps THEN {0} ELSE {}) :
       /\ reply' = [next |-> real, waiting |-> 0, ended |-> FALSE, up |-> TRUE, checked |-> FALSE]
       /\ buf' = [start |-> offset, len |-> 0, real |-> real]
  /\ reader' = offset

\* Mutant: what is dropped is not counted.
TrimmedUncounted(b, readerAt, asked) ==
  LET keepFrom == IF asked = No THEN readerAt - KeepBehind
                  ELSE Lesser(readerAt - KeepBehind, asked.offset)
      drop == Lesser(Greater(keepFrom - b.start, 0), b.len)
  IN  IF drop < Window \div 4 THEN b
      ELSE [start |-> b.start, len |-> b.len - drop, real |-> b.real + drop]

\* trimBuffer: what lies well behind the reader is dropped, in big steps.
Trimmed(b, readerAt, asked) ==
  LET keepFrom == IF asked = No THEN readerAt - KeepBehind
                  ELSE Lesser(readerAt - KeepBehind, asked.offset)
      drop == Lesser(Greater(keepFrom - b.start, 0), b.len)
  IN  IF drop < Window \div 4 THEN b
      ELSE [start |-> b.start + drop, len |-> b.len - drop, real |-> b.real + drop]

\* Mutant: a reply that ends before the place is not asked for again, nor refused.
DrainedGivesNothing(r) == ~r.up

\* Finished, and all of it read
Drained(r) == ~r.up \/ (r.ended /\ r.waiting = 0)

\* servePending with a buffer b, a reply r and a question q: answered from the
\* buffer, asked again once when the reply is at its end, else refused.
Serve(q, b, r) ==
  LET there == Lesser(q.length, BufEnd(b) - q.offset)
      inside == q # No /\ q.offset >= b.start /\ q.offset < BufEnd(b)
  IN  IF inside
        THEN /\ answer' = [offset |-> q.offset, length |-> there,
                           real |-> b.real + (q.offset - b.start)]
             /\ question' = No /\ retried' = -1
             /\ reader' = q.offset + there
             /\ buf' = Trimmed(b, reader', No) /\ reply' = r
             /\ UNCHANGED failed
      ELSE IF q # No /\ Drained(r) /\ retried # q.offset
        THEN /\ retried' = q.offset /\ question' = q
             /\ StreamFrom(q.offset)
             /\ UNCHANGED <<answer, failed>>
      ELSE IF q # No /\ Drained(r)
        THEN /\ question' = No /\ failed' = TRUE
             /\ buf' = Trimmed(b, reader, No) /\ reply' = r
             /\ UNCHANGED <<answer, reader, retried>>
      ELSE /\ question' = q
           /\ buf' = Trimmed(b, reader, q) /\ reply' = r
           /\ UNCHANGED <<answer, failed, reader, retried>>

\* A place inside the window, or near enough ahead, is served or waited for.
Request ==
  LET q == [offset |-> at, length |-> Lesser(ReadAhead, Size - at)]
      near == reply.up /\ at >= BufEnd(buf) /\ at <= BufEnd(buf) + NearAhead
  IN  /\ question = No /\ ~failed /\ at < Size
      /\ answer.length = 0 \/ at \notin answer.offset .. answer.offset + answer.length - 1
      /\ "ahead" \in FeedOps \/ ~near \/ at < Trimmed(buf, reader, q).start + Window
      /\ IF (at >= buf.start /\ at < BufEnd(buf)) \/ near
           THEN Serve(q, buf, reply)
           ELSE StreamFrom(at) /\ question' = q /\ UNCHANGED <<answer, failed, retried>>
      /\ UNCHANGED <<at, ends>>

\* Mutant: a reply is taken to start where it was asked to.
StartsAtBufferAssumed == TRUE

\* 206 from the asked place, or 200 when that was the start
StartsAtBuffer == reply.checked \/ buf.real = buf.start

\* readyRead, finished or the 20 ms poll: what came goes to the buffer as far as
\* there is room.  A reply from elsewhere is dropped and the question refused.
OnHttpData ==
  /\ reply.up
  /\ IF ~StartsAtBuffer
       THEN /\ reply' = NoReply /\ question' = No
            /\ failed' = (failed \/ question # No)
            /\ UNCHANGED <<answer, buf, reader, retried>>
       ELSE LET n == Lesser(Window - buf.len, reply.waiting)
            IN  Serve(question, [buf EXCEPT !.len = @ + n],
                      [reply EXCEPT !.waiting = @ - n, !.checked = TRUE])
  /\ UNCHANGED <<at, ends>>

-----------------------------------------------------------------------------
(* The stream server and the decoder *)

\* The read buffer of the reply is capped.
BytesArrive ==
  /\ reply.up /\ ~reply.ended /\ reply.waiting < Window
  /\ reply' = [reply EXCEPT !.next = @ + 1, !.waiting = @ + 1, !.ended = reply.next + 1 = Size]
  /\ reply.next < Size
  /\ UNCHANGED <<at, question, answer, failed, buf, reader, retried, ends>>

\* It gives up after 90 s without progress.
ServerEndsReply ==
  /\ reply.up /\ ~reply.ended /\ ends < Ends
  /\ reply' = [reply EXCEPT !.ended = TRUE]
  /\ ends' = ends + 1
  /\ UNCHANGED <<at, question, answer, failed, buf, reader, retried>>

\* The answer is used up, and the decoder reads on or seeks.
DecoderReads ==
  /\ question = No /\ ~failed /\ answer.length > 0 /\ at = answer.offset
  /\ at' \in {answer.offset + answer.length} \cup Jumps
  /\ answer' = [answer EXCEPT !.length = 0]
  /\ UNCHANGED <<question, failed, buf, reader, reply, retried, ends>>

Next == Request \/ OnHttpData \/ BytesArrive \/ ServerEndsReply \/ DecoderReads

\* The network delivers, and the event loop runs.
Fairness == WF_feed(OnHttpData) /\ WF_feed(BytesArrive)

Spec == Init /\ [][Next]_feed /\ Fairness

-----------------------------------------------------------------------------
(* Properties *)

\* The bytes of an answer are those of the place it is for, wherever replies began
\* and however much was dropped; and they are not more than asked for.
AnswersAreTrue ==
  /\ answer.real = answer.offset \/ answer.length = 0
  /\ answer.length <= ReadAhead /\ answer.offset + answer.length <= Size

\* A question is answered or refused, when the server ends a reply or does not, and
\* wherever the decoder seeks: it does not sit out its two minutes.
Unanswered == question # No
QuestionsAreAnswered == Unanswered ~> ~Unanswered

-----------------------------------------------------------------------------
(* Why they are true: what every step keeps *)

\* The buffer holds bytes of the place that it says, inside the file, and the reply
\* goes on where the buffer and what waits to be read end, unless the server did not
\* understand the request, in which case the buffer is empty and the reply unchecked.
BufferIsTrue ==
  /\ BufEnd(buf) <= Size
  /\ buf.len > 0 \/ reply.checked => buf.real = buf.start
  /\ reply.up /\ buf.real = buf.start => reply.next = BufEnd(buf) + reply.waiting

FeedInv == TypeOK /\ AnswersAreTrue /\ BufferIsTrue
=============================================================================
