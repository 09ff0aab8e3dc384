----------------------------- MODULE MediaControl -----------------------------
(***************************************************************************)
(* The player's side of the decoder process.  The process is started for   *)
(* the first source, told what to do once it has said hello, and started   *)
(* again after a crash when the user plays on, or in software mode when    *)
(* sound plays without a picture.  A source is opened when its feed knows  *)
(* its size; what the user wants meanwhile is remembered and sent then.    *)
(*                                                                         *)
(* Data left out: pictures and bytes (MediaRing, MediaFeed), volume,       *)
(* tracks.  A position is the source it was meant for, or the start.       *)
(***************************************************************************)
EXTENDS Naturals, Sequences

CONSTANTS
  Sources,   \* what the user may play
  MaxWire,   \* bound: commands under way
  MaxGens,   \* bound: sources opened
  ControlOps \* "hurry": a source is changed before the one before has been opened,
             \*          or while the restart is queued

VARIABLES
  player,  \* m_source, m_wantState, m_sourceGen, m_opened, m_pendingSeek, m_state's error
  channel, \* m_channel is there; m_ready; the commands that wait for the hello
  feeds,   \* the feed: "none", "asking" or "ready"
  restart, \* m_softwareDecode; the queued restart's position, or None
  wire,    \* commands on their way to the decoder
  decoder  \* the process: alive, said hello, what it has open and does

control == <<player, channel, feeds, restart, wire, decoder>>

None == "none"
Start == "start"
States == {"stopped", "playing", "paused"}
NoDecoder == [alive |-> FALSE, hello |-> FALSE, gen |-> 0, source |-> None, does |-> "stopped",
              at |-> Start, picture |-> TRUE]
Down == [up |-> FALSE, ready |-> FALSE, waiting |-> <<>>]

Commands == [do : {"open", "seek"} \cup States, gen : 0 .. MaxGens, source : Sources \cup {None}]
Players == [source : Sources \cup {None}, want : States, gen : 0 .. MaxGens,
            opened : BOOLEAN, seek : Sources \cup {None}, failed : BOOLEAN]
Decoders == [alive : BOOLEAN, hello : BOOLEAN, gen : 0 .. MaxGens, source : Sources \cup {None},
             does : States, at : Sources \cup {None, Start}, picture : BOOLEAN]
Channels == [up : BOOLEAN, ready : BOOLEAN, waiting : Seq(Commands)]
Restarts == [software : BOOLEAN, at : Sources \cup {None}]

TypeOK ==
  /\ player \in Players /\ decoder \in Decoders /\ channel \in Channels /\ restart \in Restarts
  /\ feeds \in {"none", "asking", "ready"}
  /\ wire \in Seq(Commands)
  /\ Len(channel.waiting) <= MaxWire /\ Len(wire) <= MaxWire

Init ==
  /\ player = [source |-> None, want |-> "stopped", gen |-> 0, opened |-> FALSE, seek |-> None,
               failed |-> FALSE]
  /\ channel = Down /\ feeds = "none" /\ wire = <<>> /\ decoder = NoDecoder
  /\ restart = [software |-> FALSE, at |-> None]

-----------------------------------------------------------------------------
(* Pieces of the player's handlers *)

Send(commands) ==
  IF channel.ready
    THEN /\ Len(wire) + Len(commands) <= MaxWire
         /\ wire' = IF decoder.alive THEN wire \o commands ELSE wire
         /\ UNCHANGED channel
    ELSE /\ Len(channel.waiting) + Len(commands) <= MaxWire
         /\ channel' = [channel EXCEPT !.waiting = IF channel.up THEN @ \o commands ELSE @]
         /\ UNCHANGED wire

Do(what) == [do |-> what, gen |-> 0, source |-> None]
Seek(source) == [do |-> "seek", gen |-> 0, source |-> source]

\* ensureChild then startFeed: with a process there, only the feed is new.  It may
\* be that no process can be started.
OpenSource(p) ==
  \/ /\ p.gen < MaxGens
     /\ player' = [p EXCEPT !.gen = @ + 1, !.opened = FALSE]
     /\ feeds' = "asking"
     /\ IF channel.up THEN UNCHANGED <<channel, wire, decoder>>
        ELSE /\ channel' = [Down EXCEPT !.up = TRUE]
             /\ decoder' = [NoDecoder EXCEPT !.alive = TRUE]
             /\ wire' = <<>>
  \/ /\ ~channel.up
     /\ player' = [p EXCEPT !.failed = TRUE, !.opened = FALSE]
     /\ feeds' = "none" /\ wire' = <<>>
     /\ UNCHANGED <<channel, decoder>>

Teardown(p) ==
  /\ player' = [p EXCEPT !.opened = FALSE]
  /\ feeds' = "none" /\ channel' = Down /\ wire' = <<>> /\ decoder' = NoDecoder

Quiet == "hurry" \in ControlOps \/ (player.seek = None /\ restart.at = None)

-----------------------------------------------------------------------------
(* The user *)

SetSource(source) ==
  /\ source # player.source /\ Quiet
  /\ restart' = [restart EXCEPT !.software = FALSE]
  /\ LET p == [player EXCEPT !.source = source, !.failed = FALSE]
     IN  IF source = None THEN Teardown(p) ELSE OpenSource(p)

\* After a crash, a new process for the same source
Play ==
  /\ player.source # None
  /\ LET p == [player EXCEPT !.want = "playing"]
     IN  IF ~channel.up THEN OpenSource([p EXCEPT !.failed = FALSE])
         ELSE /\ player' = p
              /\ IF player.opened THEN Send(<<Do("playing")>>) ELSE UNCHANGED <<channel, wire>>
              /\ UNCHANGED <<feeds, decoder>>
  /\ UNCHANGED restart

\* pause or stop
Halt(how) ==
  /\ player' = [player EXCEPT !.want = how]
  /\ IF player.opened THEN Send(<<Do(how)>>) ELSE UNCHANGED <<channel, wire>>
  /\ UNCHANGED <<feeds, restart, decoder>>

SetPosition ==
  /\ player.source # None
  /\ IF player.opened THEN Send(<<Seek(player.source)>>) /\ UNCHANGED player
     ELSE /\ player' = [player EXCEPT !.seek = player.source]
          /\ UNCHANGED <<channel, wire>>
  /\ UNCHANGED <<feeds, restart, decoder>>

-----------------------------------------------------------------------------
(* The player's callbacks *)

OpenCommand == [do |-> "open", gen |-> player.gen, source |-> player.source]
SeekCommands == IF player.seek = None THEN <<>> ELSE <<Seek(player.seek)>>

\* Mutant: what was wanted while the source was not open is forgotten.
FeedReadyForgets ==
  /\ feeds = "asking"
  /\ feeds' = "ready"
  /\ player' = [player EXCEPT !.opened = TRUE, !.seek = None]
  /\ Send(<<OpenCommand>> \o SeekCommands)
  /\ UNCHANGED <<restart, decoder>>

FeedReady ==
  /\ feeds = "asking"
  /\ feeds' = "ready"
  /\ player' = [player EXCEPT !.opened = TRUE, !.seek = None]
  /\ Send(<<OpenCommand>> \o SeekCommands
          \o (IF player.want = "stopped" THEN <<>> ELSE <<Do(player.want)>>))
  /\ UNCHANGED <<restart, decoder>>

FeedFails ==
  /\ feeds = "asking"
  /\ feeds' = "none"
  /\ player' = [player EXCEPT !.failed = TRUE]
  /\ UNCHANGED <<channel, restart, wire, decoder>>

\* Mutant: commands from before the hello are lost.
HelloForgets ==
  /\ decoder.hello /\ ~channel.ready /\ channel.up
  /\ channel' = [channel EXCEPT !.ready = TRUE, !.waiting = <<>>]
  /\ UNCHANGED <<player, feeds, restart, wire, decoder>>

Hello ==
  /\ decoder.hello /\ ~channel.ready /\ channel.up
  /\ channel' = [channel EXCEPT !.ready = TRUE, !.waiting = <<>>]
  /\ wire' = channel.waiting
  /\ UNCHANGED <<player, feeds, restart, decoder>>

\* The socket is gone or the process has ended.
OnChildLost ==
  /\ channel.up /\ ~decoder.alive
  /\ Teardown([player EXCEPT !.failed = TRUE])
  /\ UNCHANGED restart

\* checkPicture: sound, and no picture for some seconds
NoPicture ==
  /\ decoder.alive /\ ~decoder.picture /\ decoder.does = "playing"
  /\ ~restart.software
  /\ restart' = [software |-> TRUE, at |-> player.source]
  /\ UNCHANGED <<player, channel, feeds, wire, decoder>>

\* The queued restart: teardown, a new process and the position again
RestartInSoftware ==
  /\ restart.at # None
  /\ restart' = [restart EXCEPT !.at = None]
  /\ \/ /\ player.gen < MaxGens
        /\ player' = [player EXCEPT !.gen = @ + 1, !.opened = FALSE, !.seek = restart.at]
        /\ feeds' = "asking" /\ channel' = [Down EXCEPT !.up = TRUE]
        /\ decoder' = [NoDecoder EXCEPT !.alive = TRUE] /\ wire' = <<>>
     \/ Teardown([player EXCEPT !.failed = TRUE])

-----------------------------------------------------------------------------
(* The decoder *)

SaysHello ==
  /\ decoder.alive /\ ~decoder.hello
  /\ decoder' = [decoder EXCEPT !.hello = TRUE]
  /\ UNCHANGED <<player, channel, feeds, restart, wire>>

\* A source that is opened begins stopped, at its start.
Obeys ==
  /\ decoder.alive /\ wire # <<>>
  /\ wire' = Tail(wire)
  /\ LET c == Head(wire)
     IN  decoder' = CASE c.do = "open" -> [decoder EXCEPT !.gen = c.gen, !.source = c.source,
                                                          !.does = "stopped", !.at = Start]
                      [] c.do = "seek" -> [decoder EXCEPT !.at = c.source]
                      [] OTHER -> [decoder EXCEPT !.does = c.do]
  /\ UNCHANGED <<player, channel, feeds, restart>>

PictureMissing ==
  /\ decoder.alive /\ decoder.picture /\ ~restart.software
  /\ decoder' = [decoder EXCEPT !.picture = FALSE]
  /\ UNCHANGED <<player, channel, feeds, restart, wire>>

Crashes ==
  /\ decoder.alive
  /\ decoder' = [decoder EXCEPT !.alive = FALSE]
  /\ wire' = <<>>
  /\ UNCHANGED <<player, channel, feeds, restart>>

Next ==
  \/ \E source \in Sources \cup {None} : SetSource(source)
  \/ Play \/ (\E how \in {"paused", "stopped"} : Halt(how)) \/ SetPosition
  \/ FeedReady \/ FeedFails \/ Hello \/ OnChildLost \/ NoPicture \/ RestartInSoftware
  \/ SaysHello \/ Obeys \/ PictureMissing \/ Crashes

\* The feed answers, timers fire, and each process reads what it is sent.
FeedAnswers == FeedReady \/ FeedFails
Fairness ==
  /\ WF_control(FeedAnswers) /\ WF_control(Hello) /\ WF_control(OnChildLost)
  /\ WF_control(RestartInSoftware) /\ WF_control(SaysHello) /\ WF_control(Obeys)

Spec == Init /\ [][Next]_control /\ Fairness

-----------------------------------------------------------------------------
(* Properties *)

\* Once all commands have arrived, the decoder has open what the user chose last and
\* does what he wanted last: over sources changed early, crashes and restarts.
PlaysWhatIsWanted ==
  feeds = "ready" /\ channel.ready /\ wire = <<>> /\ decoder.alive =>
    /\ decoder.gen = player.gen /\ decoder.source = player.source
    /\ decoder.does = player.want

\* A source that is to play does, or the user is told, or wants something else.
NotPlaying ==
  /\ player.source # None /\ player.want = "playing" /\ ~player.failed
  /\ ~(decoder.alive /\ decoder.source = player.source /\ decoder.does = "playing")
WantedPlays == NotPlaying ~> ~NotPlaying

\* Not kept by the code: a source is not opened at a place of another one.
PositionIsItsOwn == decoder.at \in {Start, decoder.source}

-----------------------------------------------------------------------------
(* Why it plays what is wanted: what every step keeps *)

\* What the decoder has yet to read, in the channel or on the wire
Unread == IF channel.ready THEN wire ELSE channel.waiting

\* With the commands cs read, a decoder d has open what the player p has...
WillOpen(p, d, cs) ==
  \/ \E i \in 1 .. Len(cs) :
       /\ cs[i].do = "open" /\ cs[i].gen = p.gen /\ cs[i].source = p.source
       /\ \A j \in 1 .. Len(cs) : j > i => cs[j].do # "open"
  \/ /\ \A j \in 1 .. Len(cs) : cs[j].do # "open"
     /\ d.gen = p.gen /\ d.source = p.source

\* ...and does what p wants.
Gives(c) == IF c.do = "open" THEN "stopped" ELSE c.do
WillDo(p, d, cs) ==
  \/ \E i \in 1 .. Len(cs) :
       /\ Gives(cs[i]) = p.want
       /\ \A j \in 1 .. Len(cs) : j > i => cs[j].do = "seek"
  \/ (\A j \in 1 .. Len(cs) : cs[j].do = "seek") /\ d.does = p.want

\* A decoder has a channel, and nothing is on the wire before its hello.
ChannelIsThere == (decoder.alive => channel.up) /\ (~channel.ready => wire = <<>>)

\* Once the feed is ready, a command is sent at once: what is unread tells the decoder
\* that lives all that the player wants.
UnreadTells ==
  feeds = "ready" =>
    player.opened /\ (decoder.alive => WillOpen(player, decoder, Unread) /\ WillDo(player, decoder, Unread))

ControlInv == TypeOK /\ ChannelIsThere /\ UnreadTells
=============================================================================
