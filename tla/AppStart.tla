------------------------------ MODULE AppStart ------------------------------
(***************************************************************************)
(* How a launch becomes the running application: it hands what it brings   *)
(* to an instance that is running, or claims the name for itself; it looks *)
(* at the marks of the starts before it and may ask the user how to go on; *)
(* the first frame clears the marks.  The log says at the next start       *)
(* whether the last session was closed.                                    *)
(*                                                                         *)
(* A launch that was forwarded frees its slot; the settings and the log    *)
(* outlive every process.  A line that is added is in the session whatever *)
(* the session does with it.                                               *)
(***************************************************************************)
EXTENDS Naturals, FiniteSets

CONSTANTS
  Slots,     \* processes at a time
  Links,     \* magnets and files that a launch may bring
  StartOps   \* odd cases: "race", "hidden", "talk"

VARIABLES
  proc,      \* the processes
  server,    \* whose server has the name, or "none"
  inbox,     \* messages written to each server and not read
  waiting,   \* m_pending: lines that came before there was a session
  boot,      \* bootInProgress and bootCrashes of the settings
  soft,      \* graphicsApi is "software"
  log,       \* what the tail of the log shows: an opening without a closing,
             \* with one, or no opening
  added,     \* how often each link was added
  bad,       \* history: starts without a frame since the last frame, up to 2
  died       \* history: the last session that opened the log was not closed

vars == <<proc, server, inbox, waiting, boot, soft, log, added, bad, died>>

Idle == [stage |-> "none", brings |-> {}, shown |-> FALSE, seen |-> FALSE,
         told |-> FALSE, asked |-> FALSE, before |-> 0, crashed |-> FALSE]

\* Past the claim, and before its end
Working == {"checks", "recovery", "loads", "up"}
Stage(s) == proc[s].stage
Lives(s) == Stage(s) \in Working \cup {"closes"}

Init ==
  /\ proc = [s \in Slots |-> Idle]
  /\ server = "none"
  /\ inbox = [s \in Slots |-> {}] /\ waiting = [s \in Slots |-> {}]
  /\ boot = [inProgress |-> FALSE, crashes |-> 0]
  /\ soft = FALSE /\ log = "closed"
  /\ added = [k \in Links |-> 0]
  /\ bad = 0 /\ died = FALSE

\* Unless launches race, no process does a thing between a launch's question,
\* its answer and its claim, or between its own last line and its end.
Calm(stages) == "race" \in StartOps \/ \A s \in Slots : Stage(s) \notin stages

\* Logger::init comes before the question whether another instance runs
Launched(s, b) ==
  /\ proc' = [proc EXCEPT ![s] = [Idle EXCEPT !.stage = "asks", !.brings = b,
                                              !.told = log = "open", !.crashed = died]]
  /\ log' = "open"

Launch(s) ==
  /\ Stage(s) = "none" /\ Calm({"closes"})
  /\ \E b \in {{}} \cup {{k} : k \in Links} :
        /\ \A k \in b : added[k] = 0 /\ \A t \in Slots : k \notin proc[t].brings \cup waiting[t]
                                                            \cup UNION inbox[t]
        /\ Launched(s, b)
  /\ UNCHANGED <<server, inbox, waiting, boot, soft, added, bad, died>>

\* forwardToRunning connects if a process listens, also one that is about to go
Forward(s) ==
  /\ Stage(s) = "asks"
  /\ Calm({"closes"})
  /\ IF server # "none"
       THEN /\ inbox' = [inbox EXCEPT ![server] = @ \cup {proc[s].brings}]
            /\ proc' = [proc EXCEPT ![s] = Idle]
       ELSE /\ proc' = [proc EXCEPT ![s].stage = "claims"]
            /\ UNCHANGED inbox
  /\ UNCHANGED <<server, waiting, boot, soft, log, added, bad, died>>

\* claim removes the name, whoever has it
Claim(s) ==
  /\ Stage(s) = "claims"
  /\ proc' = [proc EXCEPT ![s].stage = "checks"]
  /\ server' = s
  /\ died' = TRUE
  /\ UNCHANGED <<inbox, waiting, boot, soft, log, added, bad>>

CheckCrashSentinel(s) ==
  /\ Stage(s) = "checks"
  /\ LET crashes == IF boot.inProgress THEN boot.crashes + 1 ELSE boot.crashes
         ask == crashes >= 2 IN
     /\ boot' = [inProgress |-> TRUE, crashes |-> IF ask THEN 2 ELSE crashes]
     /\ proc' = [proc EXCEPT ![s].stage = IF ask THEN "recovery" ELSE "loads",
                             ![s].asked = ask, ![s].before = bad]
  /\ UNCHANGED <<server, inbox, waiting, soft, log, added, bad, died>>

ContinueAnyway(s) ==
  /\ Stage(s) = "recovery"
  /\ proc' = [proc EXCEPT ![s].stage = "loads"]
  /\ UNCHANGED <<server, inbox, waiting, boot, soft, log, added, bad, died>>

\* main returns before the log is closed; the server goes with its last object
Returns(s) == proc' = [proc EXCEPT ![s].stage = "closes"]

DownloadLatest(s) ==
  /\ Stage(s) = "recovery"
  /\ Returns(s)
  /\ UNCHANGED <<server, inbox, waiting, boot, soft, log, added, bad, died>>

\* The settings and the resume files go, and a new process is started
ResetSettings(s) ==
  /\ Stage(s) = "recovery"
  /\ \E t \in Slots :
        /\ Stage(t) = "none"
        /\ proc' = [proc EXCEPT ![s].stage = "closes", ![s].seen = TRUE,
                                ![t] = [Idle EXCEPT !.stage = "asks", !.told = log = "open",
                                                    !.crashed = TRUE]]
  /\ boot' = [inProgress |-> FALSE, crashes |-> 0]
  /\ soft' = FALSE
  /\ log' = "open"
  /\ bad' = 0
  /\ UNCHANGED <<server, inbox, waiting, added, died>>

\* The window is there: lines that waited and those of the command line are added
Load(s) ==
  /\ Stage(s) = "loads"
  /\ \E hidden \in IF "hidden" \in StartOps THEN BOOLEAN ELSE {FALSE} :
        proc' = [proc EXCEPT ![s].stage = "up", ![s].brings = {}, ![s].shown = ~hidden]
  /\ added' = [k \in Links |-> added[k] + (IF k \in waiting[s] THEN 1 ELSE 0)
                                        + (IF k \in proc[s].brings THEN 1 ELSE 0)]
  /\ waiting' = [waiting EXCEPT ![s] = {}]
  /\ UNCHANGED <<server, inbox, boot, soft, log, bad, died>>

\* The interface does not load, or the engine's library is another version
LoadFails(s) ==
  /\ Stage(s) = "loads"
  /\ Returns(s)
  /\ UNCHANGED <<server, inbox, waiting, boot, soft, log, added, bad, died>>

\* Mutant: the count stays
FirstFrameCounts(s) ==
  /\ Stage(s) = "up" /\ proc[s].shown /\ ~proc[s].seen
  /\ proc' = [proc EXCEPT ![s].seen = TRUE]
  /\ boot' = [boot EXCEPT !.inProgress = FALSE]
  /\ bad' = 0
  /\ UNCHANGED <<server, inbox, waiting, soft, log, added, died>>

\* markBootHealthy, at the first frame of a window that is shown
FirstFrame(s) ==
  /\ Stage(s) = "up" /\ proc[s].shown /\ ~proc[s].seen
  /\ proc' = [proc EXCEPT ![s].seen = TRUE]
  /\ boot' = [inProgress |-> FALSE, crashes |-> 0]
  /\ bad' = 0
  /\ UNCHANGED <<server, inbox, waiting, soft, log, added, died>>

\* No frame within 10 s, or a scene graph error
NoFrame(s) ==
  /\ Stage(s) = "up" /\ ~proc[s].seen /\ ~soft
  /\ soft' = TRUE
  /\ UNCHANGED <<proc, server, inbox, waiting, boot, log, added, bad, died>>

\* The event loop ends, main closes the log and returns
Quits(s) ==
  /\ Returns(s)
  /\ log' = IF log = "gone" THEN "gone" ELSE "closed"
  /\ died' = FALSE

UserQuits(s) ==
  /\ Stage(s) = "up"
  /\ Quits(s)
  /\ UNCHANGED <<server, inbox, waiting, boot, soft, added, bad>>

\* A message is read by an event loop: the application's, or that of a message
\* box, in which a quit request has no effect.
ReadMessage(s) ==
  /\ Stage(s) \in {"recovery", "up"}
  /\ \E m \in inbox[s] :
        /\ inbox' = [inbox EXCEPT ![s] = @ \ {m}]
        /\ \/ /\ "quit" \in m /\ Stage(s) = "up"
              /\ Quits(s)
              /\ UNCHANGED <<waiting, added>>
           \/ /\ "quit" \in m /\ Stage(s) # "up"
              /\ UNCHANGED <<proc, log, died, waiting, added>>
           \/ /\ "quit" \notin m /\ Stage(s) = "up"
              /\ proc' = [proc EXCEPT ![s].shown = TRUE]
              /\ added' = [k \in Links |-> added[k] + IF k \in m THEN 1 ELSE 0]
              /\ UNCHANGED <<log, died, waiting>>
           \/ /\ "quit" \notin m /\ Stage(s) # "up"
              /\ waiting' = [waiting EXCEPT ![s] = @ \cup m]
              /\ UNCHANGED <<proc, log, died, added>>
  /\ UNCHANGED <<server, boot, soft, bad>>

\* BATorrent --quit: opens no log
AskToQuit ==
  /\ server # "none"
  /\ inbox' = [inbox EXCEPT ![server] = @ \cup {{"quit"}}]
  /\ UNCHANGED <<proc, server, waiting, boot, soft, log, added, bad, died>>

\* The process is gone, with its server and what it did not read
Gone(s) ==
  /\ proc' = [proc EXCEPT ![s] = Idle]
  /\ server' = IF server = s THEN "none" ELSE server
  /\ inbox' = [inbox EXCEPT ![s] = {}] /\ waiting' = [waiting EXCEPT ![s] = {}]
  /\ bad' = IF proc[s].seen \/ bad = 2 THEN bad ELSE bad + 1

Exit(s) ==
  /\ Stage(s) = "closes"
  /\ Gone(s)
  /\ UNCHANGED <<boot, soft, log, added, died>>

Crash(s) ==
  /\ Stage(s) \in {"recovery", "loads", "up"}
  /\ Gone(s)
  /\ UNCHANGED <<boot, soft, log, added, died>>

\* 64 KB of messages, a rotation or a clear push the opening out of the tail
Talk(s) ==
  /\ "talk" \in StartOps
  /\ Stage(s) = "up" /\ log # "gone"
  /\ log' = "gone"
  /\ UNCHANGED <<proc, server, inbox, waiting, boot, soft, added, bad, died>>

Next ==
  \/ \E s \in Slots : Forward(s) \/ Claim(s) \/ Exit(s)
  \/ /\ Calm({"asks", "claims"})
     /\ \/ \E s \in Slots :
              \/ Launch(s) \/ CheckCrashSentinel(s) \/ Load(s) \/ LoadFails(s)
              \/ ContinueAnyway(s) \/ DownloadLatest(s) \/ ResetSettings(s)
              \/ FirstFrame(s) \/ NoFrame(s) \/ ReadMessage(s)
              \/ UserQuits(s) \/ Crash(s) \/ Talk(s)
        \/ AskToQuit

Spec == Init /\ [][Next]_vars

-----------------------------------------------------------------------------
(* Properties *)

\* Types of the variables.
TypeOK ==
  /\ \A s \in Slots : Stage(s) \in {"none", "asks", "claims", "closes"} \cup Working
  /\ server \in Slots \cup {"none"} /\ (server # "none" => Lives(server))
  /\ boot \in [inProgress : BOOLEAN, crashes : 0 .. 2]
  /\ soft \in BOOLEAN /\ log \in {"open", "closed", "gone"}

\* Two processes never work on one session, if no launch overlaps another's claim.
OneSession == Cardinality({s \in Slots : Stage(s) \in Working}) <= 1

\* The user is asked how to go on when, and only when, two starts or more
\* since the last frame ended without one, whatever was forwarded between.
RecoveryIsEarned ==
  \A s \in Slots : Stage(s) \in {"recovery", "loads", "up"} => (proc[s].asked <=> proc[s].before >= 2)

\* What a launch brought is added at most once, and waits for nothing that is up.
BroughtOnce ==
  /\ \A k \in Links : added[k] <= 1
  /\ \A s \in Slots : Stage(s) = "up" => waiting[s] = {} /\ proc[s].brings = {}

\* A session that was not closed is told of by the next.
CrashIsTold == \A s \in Slots : Stage(s) \in Working /\ proc[s].crashed => proc[s].told

StartIsSound == OneSession /\ RecoveryIsEarned /\ BroughtOnce /\ CrashIsTold

\* Not kept by the code: a launch is forwarded to a process that goes on.
NobodyIsTurnedAway ==
  [][\A s \in Slots : Stage(s) = "asks" /\ proc'[s].stage = "none" => Stage(server) # "closes"]_vars

\* Not kept by the code: a start in the tray is no failed start.
HiddenIsNotBroken ==
  [][\A s \in Slots : Stage(s) = "up" /\ ~proc[s].shown =>
        soft' = soft /\ (Stage(s)' = "none" => bad' = bad)]_vars
=============================================================================
