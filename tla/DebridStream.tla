---------------------------- MODULE DebridStream ----------------------------
(***************************************************************************)
(* A magnet played through a caching service: sent, looked at until it is  *)
(* there, its best file unlocked, opened in the player.  One job per       *)
(* service, of which one is active; an answer carries no mark of its job.  *)
(***************************************************************************)
EXTENDS Integers, SequencesExt

CONSTANTS
  Providers, RealDebrid,   \* RealDebrid is the one where files are selected first
  Magnets, Tokens, Premium,
  FileLists,    \* what a torrent holds: [video, bytes, selected]
  MaxPolls,     \* kMaxPolls, 400 in the code
  DebridOps     \* odd cases: "late", "tokens"

VARIABLES
  active,       \* m_active
  token, authed,
  checks,       \* checkAccount: the tokens whose answer is awaited
  job,          \* by service: m_busy, m_jobId, m_filesSelected, m_pollTries, m_pollTimer
  replies,      \* requests under way: [p, step, of, best]
  asked,        \* history: the magnet the user waits for
  outcome       \* history: what the user was told last, of which magnet, and
                \* which one was waited for

vars == <<active, token, authed, checks, job, replies, asked, outcome>>

None == "none"
Idle == [busy |-> FALSE, id |-> None, selected |-> FALSE, polls |-> 0, timer |-> FALSE]

Init ==
  /\ active \in Providers
  /\ token = [p \in Providers |-> None] /\ authed = [p \in Providers |-> FALSE]
  /\ checks = [p \in Providers |-> {}]
  /\ job = [p \in Providers |-> Idle] /\ replies = {}
  /\ asked = [p \in Providers |-> None]
  /\ outcome = [told |-> "nothing", of |-> None, awaited |-> None, best |-> TRUE]

------------------------------------------------------------------------------
\* bestRealDebridLinkIndex: links go by selected file, in file order
Scan(seen, f) ==
  IF ~f.selected THEN seen
  ELSE [n |-> seen.n + 1,
        any |-> IF f.bytes > seen.anyBytes THEN seen.n + 1 ELSE seen.any,
        anyBytes |-> IF f.bytes > seen.anyBytes THEN f.bytes ELSE seen.anyBytes,
        video |-> IF f.video /\ f.bytes > seen.videoBytes THEN seen.n + 1 ELSE seen.video,
        videoBytes |-> IF f.video /\ f.bytes > seen.videoBytes THEN f.bytes ELSE seen.videoBytes]

BestLinkIndex(files) ==
  LET seen == FoldLeft(Scan, [n |-> 0, any |-> 0, anyBytes |-> -1, video |-> 0,
                              videoBytes |-> -1], files)
  IN IF seen.video > 0 THEN seen.video ELSE seen.any

Selected(files) == SelectSeq(files, LAMBDA f : f.selected)

\* bestTorBoxFile: files carry their own number, and all of them count
BestOf(p, files) ==
  IF p = RealDebrid THEN files ELSE [i \in DOMAIN files |-> [files[i] EXCEPT !.selected = TRUE]]

\* What is wanted: no video is larger, or there is none and no file is larger
IsBest(f, files) ==
  LET all == {files[i] : i \in DOMAIN files}
      videos == {g \in all : g.video}
  IN IF videos = {} THEN \A g \in all : g.bytes <= f.bytes
     ELSE f.video /\ \A g \in videos : g.bytes <= f.bytes

------------------------------------------------------------------------------
Reply(p, step, of, best) == [p |-> p, step |-> step, of |-> of, best |-> best]

\* loadToken is this at the start; clearToken is the empty one
SetToken(t) ==
  /\ "tokens" \in DebridOps \/ checks[active] = {}
  /\ token' = [token EXCEPT ![active] = t]
  /\ authed' = [authed EXCEPT ![active] = FALSE]
  /\ checks' = [checks EXCEPT ![active] = IF t = None THEN @ ELSE @ \cup {t}]
  /\ UNCHANGED <<active, job, replies, asked, outcome>>

CheckAccountEnds(p, t) ==
  /\ t \in checks[p] /\ checks' = [checks EXCEPT ![p] = @ \ {t}]
  /\ \E arrived \in BOOLEAN : authed' = [authed EXCEPT ![p] = arrived /\ t \in Premium]
  /\ UNCHANGED <<active, token, job, replies, asked, outcome>>

\* A job of a service at a time
StreamMagnet(m) ==
  /\ token[active] # None /\ ~job[active].busy
  /\ job' = [job EXCEPT ![active] = [Idle EXCEPT !.busy = TRUE, !.timer = @]]
  /\ replies' = replies \cup {Reply(active, "add", m, TRUE)}
  /\ asked' = [asked EXCEPT ![active] = m]
  /\ UNCHANGED <<active, token, authed, checks, outcome>>

\* failJob; only the active service is heard
FailJob(p, of) ==
  /\ job' = [job EXCEPT ![p] = [@ EXCEPT !.busy = FALSE, !.id = None, !.timer = FALSE]]
  /\ outcome' = IF p = active
                THEN [told |-> "failed", of |-> of, awaited |-> asked[p], best |-> TRUE] ELSE outcome
  /\ asked' = [asked EXCEPT ![p] = None]

Stopped(p) == [job EXCEPT ![p] = [@ EXCEPT !.busy = FALSE, !.id = None, !.timer = FALSE]]

\* A service is left alone while it answers
Quiet(p) == "late" \in DebridOps \/ \A r \in replies : r.p # p

CancelStream ==
  /\ job[active].busy /\ Quiet(active)
  /\ job' = Stopped(active) /\ asked' = [asked EXCEPT ![active] = None]
  /\ UNCHANGED <<active, token, authed, checks, replies, outcome>>

\* A fault: the service that is left goes on
SetProviderIdOnly(p) ==
  /\ p # active
  /\ active' = p
  /\ UNCHANGED <<token, authed, checks, job, replies, asked, outcome>>

SetProviderId(p) ==
  /\ p # active /\ (job[active].busy => Quiet(active))
  /\ IF job[active].busy THEN /\ job' = Stopped(active)
                              /\ asked' = [asked EXCEPT ![active] = None]
                         ELSE UNCHANGED <<job, asked>>
  /\ active' = p
  /\ UNCHANGED <<token, authed, checks, replies, outcome>>

------------------------------------------------------------------------------
\* onAddMagnet, onCreate: neither asks whether the job was cancelled
OnAddMagnet(r) ==
  /\ r.step = "add" /\ replies' = replies \ {r}
  /\ \/ /\ job' = [job EXCEPT ![r.p] = [@ EXCEPT !.id = r.of, !.timer = TRUE]]
        /\ UNCHANGED <<asked, outcome>>
     \/ FailJob(r.p, r.of)

PollJob(p) ==
  LET j == job[p]
  IN /\ j.timer
     /\ IF j.id = None
        THEN job' = [job EXCEPT ![p].timer = FALSE] /\ UNCHANGED <<replies, asked, outcome>>
        ELSE IF j.polls >= MaxPolls THEN FailJob(p, j.id) /\ UNCHANGED replies
        ELSE /\ job' = [job EXCEPT ![p] = [@ EXCEPT !.timer = FALSE, !.polls = @ + 1]]
             /\ replies' = replies \cup {Reply(p, "info", j.id, TRUE)}
             /\ UNCHANGED <<asked, outcome>>
     /\ UNCHANGED <<active, token, authed, checks>>

PollAgain(p) == job' = [job EXCEPT ![p].timer = TRUE] /\ UNCHANGED <<asked, outcome>>

\* onJobInfo: what the service says of the job, or no answer
OnJobInfo(r) ==
  LET p == r.p
      rest == replies \ {r}
  IN /\ r.step = "info"
     /\ \/ /\ job[p].id = None
           /\ replies' = rest /\ UNCHANGED <<job, asked, outcome>>
        \/ /\ job[p].id # None                              \* no answer, or still caching
           /\ replies' = rest /\ PollAgain(p)
        \/ /\ job[p].id # None                              \* waiting_files_selection
           /\ p = RealDebrid /\ ~job[p].selected
           /\ job' = [job EXCEPT ![p].selected = TRUE]
           /\ replies' = rest \cup {Reply(p, "select", job[p].id, TRUE)}
           /\ UNCHANGED <<asked, outcome>>
        \/ /\ job[p].id # None                              \* an error of the service
           /\ FailJob(p, r.of) /\ replies' = rest
        \/ /\ job[p].id # None                              \* downloaded
           /\ p = RealDebrid => job[p].selected
           /\ \E files \in FileLists :
                LET held == BestOf(p, files)
                    i == BestLinkIndex(held)
                IN IF i = 0 THEN FailJob(p, r.of) /\ replies' = rest
                   ELSE /\ replies' = rest \cup
                             {Reply(p, "link", IF p = RealDebrid THEN r.of ELSE job[p].id,
                                    IsBest(Selected(held)[i], Selected(held)))}
                        /\ UNCHANGED <<job, asked, outcome>>

\* selectFiles: the looks go on whatever the answer
OnSelectFiles(r) ==
  /\ r.step = "select" /\ replies' = replies \ {r}
  /\ IF job[r.p].id # None THEN PollAgain(r.p) ELSE UNCHANGED <<job, asked, outcome>>

\* onUnrestrict, onRequestLink: streamReady, and the player opens
OnUnrestrict(r) ==
  LET p == r.p
  IN /\ r.step = "link" /\ replies' = replies \ {r}
     /\ \/ /\ job' = [job EXCEPT ![p] = [@ EXCEPT !.busy = FALSE, !.id = None]]
           /\ outcome' = IF p = active
                         THEN [told |-> "opened", of |-> r.of, awaited |-> asked[p], best |-> r.best]
                         ELSE outcome
           /\ asked' = [asked EXCEPT ![p] = None]
        \/ FailJob(p, r.of)

ReplyComes(r) ==
  /\ r \in replies
  /\ OnAddMagnet(r) \/ OnJobInfo(r) \/ OnSelectFiles(r) \/ OnUnrestrict(r)
  /\ UNCHANGED <<active, token, authed, checks>>

Next ==
  \/ \E t \in Tokens \cup {None} : SetToken(t)
  \/ \E p \in Providers, t \in Tokens : CheckAccountEnds(p, t)
  \/ \E m \in Magnets : StreamMagnet(m)
  \/ CancelStream
  \/ \E p \in Providers : SetProviderId(p) \/ PollJob(p)
  \/ \E r \in replies : ReplyComes(r)

Spec == Init /\ [][Next]_vars

------------------------------------------------------------------------------
TypeOK ==
  /\ active \in Providers /\ token \in [Providers -> Tokens \cup {None}]
  /\ checks \in [Providers -> SUBSET Tokens] /\ authed \in [Providers -> BOOLEAN]
  /\ \A p \in Providers : /\ job[p].id \in Magnets \cup {None} /\ job[p].polls \in 0..MaxPolls
                          /\ {job[p].busy, job[p].selected, job[p].timer} \subseteq BOOLEAN
  /\ asked \in [Providers -> Magnets \cup {None}]

\* What opens, or is said to have failed, is what the user waits for, and what
\* opens is the best file of it
OutcomeIsAwaited == outcome.of = outcome.awaited /\ outcome.best

\* A job that is under way has a look or an answer before it, one that is not has
\* neither, and only the active service works
BusyGoesOn ==
  \A p \in Providers :
    /\ job[p].busy <=> job[p].timer \/ \E r \in replies : r.p = p
    /\ job[p].busy => p = active /\ asked[p] # None
    /\ Cardinality({r \in replies : r.p = p}) + (IF job[p].timer THEN 1 ELSE 0) <= 1

\* The account that is shown is that of the token that is used
AuthedIsTrue == \A p \in Providers : authed[p] => token[p] \in Premium

DebridIsSound == OutcomeIsAwaited /\ BusyGoesOn /\ AuthedIsTrue
=============================================================================
