------------------------------- MODULE MediaRing ------------------------------
(***************************************************************************)
(* How decoded pictures reach the screen.  The decoder process writes them *)
(* into the slots of a memory segment that the UI made for it, says which  *)
(* slot, and does not write there again before the UI has copied the       *)
(* picture and said so.  When pictures grow the decoder asks for a larger  *)
(* segment; segments have generations, because messages about the old one  *)
(* are still under way when the new one is there.                          *)
(*                                                                         *)
(* Data left out: what is in a picture.  It has a number and a size; a     *)
(* segment's slots hold pictures up to a size.                             *)
(***************************************************************************)
EXTENDS Naturals, Sequences

CONSTANTS
  Slots,       \* kSlots: a set of slots
  Sizes,       \* what pictures may be large
  MaxRings,    \* bound: segments made
  MaxFlight    \* bound: messages under way in one direction

VARIABLES
  memory,  \* what the slots of each segment hold: a picture's number, or Torn
  uiRing,  \* the UI's segment and its m_slotBytes
  ring,    \* the decoder's segment, m_slotBytes and m_busy; history: it could not map one
  asked,   \* m_ringAsked
  toUi, toDecoder, \* the messages
  next,    \* the number of the next picture: 0 or 1
  shown    \* the last picture shown, and what the UI's copy holds

frames == <<memory, uiRing, ring, asked, toUi, toDecoder, next, shown>>

Blank == 2
NoRing == 0
Rings == 1 .. MaxRings
Largest == CHOOSE n \in Sizes : \A m \in Sizes : m <= n

UiMessages ==
  [what : {"needRing"}, bytes : Sizes] \cup [what : {"ringReady"}, ring : Rings]
    \cup [what : {"frame"}, ring : Rings, slot : Slots, number : {0, 1}]
DecoderMessages ==
  [what : {"ring"}, ring : Rings, bytes : Sizes] \cup [what : {"release"}, ring : Rings, slot : Slots]

TypeOK ==
  /\ memory \in [Rings -> [Slots -> 0 .. Blank]]
  /\ uiRing \in [id : 0 .. MaxRings, bytes : 0 .. Largest]
  /\ ring \in [id : 0 .. MaxRings, bytes : 0 .. Largest, busy : SUBSET Slots, failed : BOOLEAN]
  /\ asked \in 0 .. Largest /\ next \in {0, 1}
  /\ shown \in [number : 0 .. Blank, copy : 0 .. Blank]
  /\ toUi \in Seq(UiMessages) /\ toDecoder \in Seq(DecoderMessages)
  /\ Len(toUi) <= MaxFlight /\ Len(toDecoder) <= MaxFlight

Init ==
  /\ memory = [r \in Rings |-> [s \in Slots |-> Blank]]
  /\ uiRing = [id |-> NoRing, bytes |-> 0]
  /\ ring = [id |-> NoRing, bytes |-> 0, busy |-> {}, failed |-> FALSE]
  /\ asked = 0 /\ toUi = <<>> /\ toDecoder = <<>> /\ next = 0
  /\ shown = [number |-> Blank, copy |-> Blank]

Room(messages) == Len(messages) < MaxFlight

-----------------------------------------------------------------------------
(* The decoder *)

\* A picture that fits goes to a free slot, and with none free is dropped; one that
\* does not fit is dropped and a larger segment asked for, once.
OnFrame(size) ==
  /\ Room(toUi)
  /\ IF ring.id = NoRing \/ size > ring.bytes
       THEN /\ asked' = IF size > asked THEN size ELSE asked
            /\ toUi' = IF size > asked THEN Append(toUi, [what |-> "needRing", bytes |-> size])
                       ELSE toUi
            /\ UNCHANGED <<memory, ring, next>>
       ELSE /\ \E s \in Slots \ ring.busy :
                 /\ memory' = [memory EXCEPT ![ring.id][s] = next]
                 /\ ring' = [ring EXCEPT !.busy = @ \cup {s}]
                 /\ toUi' = Append(toUi, [what |-> "frame", ring |-> ring.id, slot |-> s,
                                          number |-> next])
            /\ next' = 1 - next
            /\ UNCHANGED asked
  /\ UNCHANGED <<uiRing, toDecoder, shown>>

Take(what) ==
  /\ toDecoder # <<>> /\ Head(toDecoder).what = what
  /\ toDecoder' = Tail(toDecoder)

\* A segment that cannot be mapped leaves the old one in use.
AttachRing ==
  /\ Take("ring") /\ Room(toUi)
  /\ \/ /\ ring' = [ring EXCEPT !.id = Head(toDecoder).ring, !.bytes = Head(toDecoder).bytes,
                               !.busy = {}]
        /\ toUi' = Append(toUi, [what |-> "ringReady", ring |-> Head(toDecoder).ring])
     \/ ring' = [ring EXCEPT !.failed = TRUE] /\ UNCHANGED toUi
  /\ UNCHANGED <<memory, uiRing, asked, next, shown>>

\* Mutant: a slot is free again whichever segment the release is about.
ReleaseAny ==
  /\ Take("release")
  /\ ring' = [ring EXCEPT !.busy = @ \ {Head(toDecoder).slot}]
  /\ UNCHANGED <<memory, uiRing, asked, toUi, next, shown>>

Release ==
  /\ Take("release")
  /\ ring' = IF Head(toDecoder).ring = ring.id
             THEN [ring EXCEPT !.busy = @ \ {Head(toDecoder).slot}] ELSE ring
  /\ UNCHANGED <<memory, uiRing, asked, toUi, next, shown>>

-----------------------------------------------------------------------------
(* The UI *)

Receive(what) ==
  /\ toUi # <<>> /\ Head(toUi).what = what
  /\ toUi' = Tail(toUi)

\* Mutant: the segment is made just as large as the one there is.
ShareRingSameSize ==
  /\ Receive("needRing") /\ Room(toDecoder)
  /\ IF Head(toUi).bytes <= uiRing.bytes \/ uiRing.id = MaxRings
       THEN UNCHANGED <<uiRing, toDecoder>>
       ELSE LET size == IF uiRing.bytes = 0 THEN Head(toUi).bytes ELSE uiRing.bytes
            IN  /\ uiRing' = [id |-> uiRing.id + 1, bytes |-> size]
                /\ toDecoder' = Append(toDecoder, [what |-> "ring", ring |-> uiRing.id + 1,
                                                   bytes |-> size])
  /\ UNCHANGED <<memory, ring, asked, next, shown>>

\* A larger segment of the next generation takes the place of the old one.
ShareRing ==
  /\ Receive("needRing") /\ Room(toDecoder)
  /\ IF Head(toUi).bytes <= uiRing.bytes \/ uiRing.id = MaxRings
       THEN UNCHANGED <<uiRing, toDecoder>>
       ELSE /\ uiRing' = [id |-> uiRing.id + 1, bytes |-> Head(toUi).bytes]
            /\ toDecoder' = Append(toDecoder, [what |-> "ring", ring |-> uiRing.id + 1,
                                               bytes |-> Head(toUi).bytes])
  /\ UNCHANGED <<memory, ring, asked, next, shown>>

RingReady ==
  /\ Receive("ringReady")
  /\ UNCHANGED <<memory, uiRing, ring, asked, toDecoder, next, shown>>

\* Mutant: the slot is given back before the picture is copied out of it.
ShowFrameLate ==
  /\ toUi # <<>> /\ Head(toUi).what = "frame" /\ Room(toDecoder)
  /\ LET f == Head(toUi)
         sent == \E i \in 1 .. Len(toDecoder) : toDecoder[i] = [what |-> "release",
                                                  ring |-> f.ring, slot |-> f.slot]
     IN  IF ~sent /\ f.ring = ring.id /\ f.slot \in ring.busy
           THEN /\ toDecoder' = Append(toDecoder, [what |-> "release", ring |-> f.ring,
                                                   slot |-> f.slot])
                /\ UNCHANGED <<toUi, shown>>
           ELSE /\ toUi' = Tail(toUi)
                /\ shown' = IF f.ring = uiRing.id
                            THEN [number |-> f.number, copy |-> memory[uiRing.id][f.slot]]
                            ELSE shown
                /\ UNCHANGED toDecoder
  /\ UNCHANGED <<memory, uiRing, ring, asked, next>>

\* Mutant: a slot of a segment that is not in use any more is not given back.
ShowFrameOfNow ==
  /\ Receive("frame") /\ Room(toDecoder)
  /\ LET f == Head(toUi)
     IN  IF f.ring = uiRing.id
         THEN /\ shown' = [number |-> f.number, copy |-> memory[uiRing.id][f.slot]]
              /\ toDecoder' = Append(toDecoder, [what |-> "release", ring |-> f.ring,
                                                 slot |-> f.slot])
         ELSE UNCHANGED <<shown, toDecoder>>
  /\ UNCHANGED <<memory, uiRing, ring, asked, next>>

\* Only a picture in the segment of now is copied; the slot is given back anyhow.
ShowFrame ==
  /\ Receive("frame") /\ Room(toDecoder)
  /\ LET f == Head(toUi)
     IN  /\ shown' = IF f.ring = uiRing.id
                     THEN [number |-> f.number, copy |-> memory[uiRing.id][f.slot]] ELSE shown
         /\ toDecoder' = Append(toDecoder, [what |-> "release", ring |-> f.ring, slot |-> f.slot])
  /\ UNCHANGED <<memory, uiRing, ring, asked, next>>

Next ==
  \/ \E size \in Sizes : OnFrame(size)
  \/ AttachRing \/ Release \/ ShareRing \/ RingReady \/ ShowFrame

\* Each process reads what the other sends.
Fairness ==
  /\ WF_frames(AttachRing) /\ WF_frames(Release)
  /\ WF_frames(ShareRing) /\ WF_frames(RingReady) /\ WF_frames(ShowFrame)

Spec == Init /\ [][Next]_frames /\ Fairness

-----------------------------------------------------------------------------
(* Properties *)

\* What the screen shows is the picture that was announced: its slot was not written
\* again in between, not when the segment was changed while it was under way.
PicturesAreWhole == shown.copy = shown.number

\* A slot that is not free is one the UI knows of: its picture or its release is
\* under way, so a slot is never lost, whatever became of the segment.
NoSlotIsLost ==
  \A s \in ring.busy :
    \/ \E i \in 1 .. Len(toUi) : toUi[i].what = "frame" /\ toUi[i].ring = ring.id /\ toUi[i].slot = s
    \/ \E i \in 1 .. Len(toDecoder) : toDecoder[i].what = "release"
                                      /\ toDecoder[i].ring = ring.id /\ toDecoder[i].slot = s

\* A picture too large for the segment is asked for a larger one that then comes:
\* the decoder is not left dropping each picture of that size.  Unless it could not
\* map one: it does not ask for the same size again.
Outgrown == asked > ring.bytes /\ ~ring.failed
LargerRingComes == Outgrown ~> ~Outgrown

\* The frames and the slots they are in, in every state
FramesAreSound == TypeOK /\ PicturesAreWhole /\ NoSlotIsLost

-----------------------------------------------------------------------------
(* Why they are sound: what every step keeps *)

FrameOf(i, r) == i \in 1 .. Len(toUi) /\ toUi[i].what = "frame" /\ toUi[i].ring = r
ReleaseOf(i, r) == i \in 1 .. Len(toDecoder) /\ toDecoder[i].what = "release" /\ toDecoder[i].ring = r
RingAt(i) == i \in 1 .. Len(toDecoder) /\ toDecoder[i].what = "ring"

\* The decoder is never ahead of the UI: no message is about a segment later than its
\* own, but for the later segments that are on their way to it, one after the other.
SegmentsInOrder ==
  /\ ring.id <= uiRing.id
  /\ \A i \in 1 .. Len(toUi) : \A r \in Rings : FrameOf(i, r) => r <= ring.id
  /\ \A i \in 1 .. Len(toDecoder) : \A r \in Rings : ReleaseOf(i, r) => r <= ring.id
  /\ \A i \in 1 .. Len(toDecoder) :
       RingAt(i) => ring.id < toDecoder[i].ring /\ toDecoder[i].ring <= uiRing.id
  /\ \A i, j \in 1 .. Len(toDecoder) :
       RingAt(i) /\ RingAt(j) /\ i < j => toDecoder[i].ring < toDecoder[j].ring

\* A picture under way is in its slot, which is not free, and no two messages are
\* about the same slot of the segment that is in use.
SlotsAreHeld ==
  /\ \A i \in 1 .. Len(toUi) : FrameOf(i, ring.id) =>
       toUi[i].slot \in ring.busy /\ memory[ring.id][toUi[i].slot] = toUi[i].number
  /\ \A i \in 1 .. Len(toDecoder) : ReleaseOf(i, ring.id) => toDecoder[i].slot \in ring.busy
  /\ \A i, j \in 1 .. Len(toUi) :
       FrameOf(i, ring.id) /\ FrameOf(j, ring.id) /\ i # j => toUi[i].slot # toUi[j].slot
  /\ \A i, j \in 1 .. Len(toDecoder) :
       ReleaseOf(i, ring.id) /\ ReleaseOf(j, ring.id) /\ i # j =>
         toDecoder[i].slot # toDecoder[j].slot
  /\ \A i \in 1 .. Len(toUi), j \in 1 .. Len(toDecoder) :
       FrameOf(i, ring.id) /\ ReleaseOf(j, ring.id) => toUi[i].slot # toDecoder[j].slot

FramesInv == FramesAreSound /\ SegmentsInOrder /\ SlotsAreHeld
=============================================================================
