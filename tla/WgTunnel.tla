------------------------------- MODULE WgTunnel -------------------------------
(***************************************************************************)
(* UserspaceWgTunnel and its child process batwg: the calls up() and       *)
(* down(), what the child does, and the signals that come of it.  A signal *)
(* is handled by its receiver within the same step, except for the ones of *)
(* a call without a child: those are posted to the event loop (queued).    *)
(*                                                                         *)
(* Data left out: the configuration, the SOCKS port and its credentials.   *)
(***************************************************************************)
EXTENDS Sequences

VARIABLES
  child,     \* m_proc: "none" (null), "starting", "serving", or "exited" and not reaped
  config,    \* the profile that the child was started with
  ready,     \* m_ready
  stopping,  \* m_stopping
  final,     \* m_final
  fwd,       \* m_fwd is not 0
  queued     \* signals posted with singleShot(0)

tunnel == <<child, config, ready, stopping, final, fwd, queued>>

TunnelInit ==
  /\ child = "none" /\ config = "none"
  /\ ready = FALSE /\ stopping = FALSE /\ final = FALSE /\ fwd = FALSE
  /\ queued = <<>>

TunnelTypeOK(Profiles) ==
  /\ child \in {"none", "starting", "serving", "exited"}
  /\ config \in Profiles \cup {"none"}
  /\ ready => child \in {"serving", "exited"}
  /\ {ready, stopping, final, fwd} \subseteq BOOLEAN
  /\ queued \in Seq({"failed", "disconnected"})

-----------------------------------------------------------------------------
(* The calls *)

\* Mutant: a missing helper is only logged.
UpSilently(p, present) ==
  IF child # "none" \/ ~present THEN UNCHANGED tunnel
  ELSE /\ child' = "starting" /\ config' = p
       /\ ready' = FALSE /\ stopping' = FALSE /\ final' = FALSE
       /\ UNCHANGED <<fwd, queued>>

\* up(): nothing happens while there is a child.  present: batwg is there.
Up(p, present) ==
  IF child # "none" THEN UNCHANGED tunnel
  ELSE IF ~present
  THEN /\ final' = TRUE
       /\ queued' = Append(queued, "failed")
       /\ UNCHANGED <<child, config, ready, stopping, fwd>>
  ELSE /\ child' = "starting" /\ config' = p
       /\ ready' = FALSE /\ stopping' = FALSE /\ final' = FALSE
       /\ UNCHANGED <<fwd, queued>>

\* Mutant: down() without a child says nothing.
DownSilently ==
  /\ stopping' = (stopping \/ child # "none")
  /\ UNCHANGED <<child, config, ready, final, fwd, queued>>

\* down(): closing its input is the child's cue to stop.
Down ==
  IF child = "none"
  THEN /\ queued' = Append(queued, "disconnected")
       /\ UNCHANGED <<child, config, ready, stopping, final, fwd>>
  ELSE /\ stopping' = TRUE
       /\ UNCHANGED <<child, config, ready, final, fwd, queued>>

-----------------------------------------------------------------------------
(* The child *)

\* The event "ready"; connected is signalled unless the tunnel is stopping.
BecomesReady ==
  /\ child = "starting"
  /\ child' = "serving"
  /\ ready' = TRUE

\* The event "fwd"
Forwards(on) ==
  /\ child = "serving"
  /\ fwd' = on
  /\ UNCHANGED <<child, config, ready, stopping, final, queued>>

\* The child ends: it was told to, it gave up, it went stale or it crashed; or
\* the 40 s backstop or the kill of down() ended it.  bad: its last word was
\* that the configuration is not valid.
ChildExits(bad) ==
  /\ child \in {"starting", "serving"}
  /\ bad => child = "starting"
  /\ child' = "exited"
  /\ final' = (final \/ bad)
  /\ UNCHANGED <<config, ready, stopping, fwd, queued>>

\* Mutant: the proxy of a child that is gone is still offered.
ReapedReady ==
  /\ child = "exited"
  /\ child' = "none" /\ config' = "none"
  /\ stopping' = FALSE /\ fwd' = FALSE
  /\ UNCHANGED <<ready, final, queued>>

\* finish(): the child is reaped.  The receiver handles disconnected when the
\* tunnel was stopping and failed when it was not.
Reaped ==
  /\ child = "exited"
  /\ child' = "none" /\ config' = "none"
  /\ ready' = FALSE /\ stopping' = FALSE /\ fwd' = FALSE
  /\ UNCHANGED <<final, queued>>

\* The event loop delivers a posted signal.
Delivered(signal) ==
  /\ queued # <<>>
  /\ Head(queued) = signal
  /\ queued' = Tail(queued)
  /\ UNCHANGED <<child, config, ready, stopping, final, fwd>>
=============================================================================
