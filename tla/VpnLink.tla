------------------------------- MODULE VpnLink --------------------------------
(***************************************************************************)
(* The VPN from the user's click to the torrent session: VpnManager's      *)
(* state machine and its retries on top of WgTunnel, and VpnWiring, which  *)
(* points the session at the tunnel's proxy, at a proxy that is not there  *)
(* (holding its traffic), or at none.  VpnManager and VpnWiring run on the *)
(* GUI thread; the session may run in an engine process of its own that    *)
(* dies and is started again.                                              *)
(*                                                                         *)
(* Data left out: names, countries and delays.  Only the tunnel by way of  *)
(* a proxy is modelled (viaSocks), which is the one that ships.            *)
(***************************************************************************)
EXTENDS WgTunnel, Naturals, FiniteSets

CONSTANTS
  Profiles,  \* the profile ids
  Ops        \* the operations and faults that a run exercises

ASSUME ProfilesAssumption == "none" \notin Profiles

VARIABLES
  state,       \* m_state
  keepUp,      \* m_keepUp
  retry,       \* m_retryTimer is running
  retryId,     \* m_retryId
  active,      \* m_activeId
  userDown,    \* m_userDown
  fwdPort,     \* m_fwdPort is not 0
  known,       \* m_profiles
  broken,      \* profiles whose .conf is missing or not valid any more
  launch,      \* the single shot that calls connectLastUsed at launch is due
  last,        \* the setting vpnLastProfileId
  hold,        \* the setting vpnHold
  killSwitch,  \* the setting killSwitchEnabled
  autoConnect, \* the setting vpnAutoConnect
  engine,      \* "up", "down", or "fresh": started, and not told anything yet
  proxy,       \* the session's m_vpnProxyPort: "off", "hold" (port 1), "vpn",
               \* or "none" while there is no session
  announce,    \* the session's m_vpnAnnouncePort is not 0
  helper,      \* batwg is where the app looks for it
  off,         \* history: the user's last word was Disconnect, and no launch connected since
  wanted       \* history: the tunnel was up (in the last run, when hold is saved) and
               \* neither a Disconnect nor a drop without the kill switch ended that

manager == <<state, keepUp, retry, retryId, active, userDown, fwdPort>>
profiles == <<known, broken>>
session == <<engine, proxy, announce>>
settings == <<killSwitch, autoConnect>>
surroundings == <<profiles, helper, settings>>
vars == <<tunnel, manager, launch, last, hold, session, surroundings, off, wanted>>

States == {"disconnected", "connecting", "connected", "failed"}

TypeOK ==
  /\ TunnelTypeOK(Profiles)
  /\ state \in States
  /\ {keepUp, retry, userDown, fwdPort, launch, hold, killSwitch, autoConnect, announce,
      helper, off, wanted} \subseteq BOOLEAN
  /\ {retryId, active, last} \subseteq Profiles \cup {"none"}
  /\ known \subseteq Profiles /\ broken \subseteq Profiles
  /\ engine \in {"up", "down", "fresh"}
  /\ proxy \in {"none", "off", "hold", "vpn"}

\* The proxy that SessionManager's constructor reads from the settings
InitialProxy == IF hold /\ killSwitch THEN "hold" ELSE "off"

\* A launch: the session reads its settings, then wireSocks decides whether the
\* VPN is reconnected.
Init ==
  /\ TunnelInit
  /\ state = "disconnected"
  /\ keepUp = FALSE /\ retry = FALSE /\ userDown = FALSE /\ fwdPort = FALSE
  /\ retryId = "none" /\ active = "none"
  /\ known = Profiles /\ broken = {}
  /\ last \in Profiles \cup {"none"}
  /\ hold \in BOOLEAN /\ killSwitch \in BOOLEAN /\ autoConnect \in BOOLEAN
  /\ hold => last # "none"
  /\ launch = (last # "none" /\ (hold \/ autoConnect))
  /\ engine = "up"
  /\ proxy = InitialProxy
  /\ announce = FALSE
  /\ helper = TRUE
  /\ off = FALSE
  /\ wanted = hold

-----------------------------------------------------------------------------
(* The session: what applySetting reaches.  An engine that is down hears     *)
(* nothing.                                                                 *)

Reached == engine = "up"

\* setVpnProxy, then setVpnAnnouncePort when a port is given
Point(to, port) ==
  /\ proxy' = IF Reached THEN to ELSE proxy
  /\ announce' = IF ~Reached THEN announce
                 ELSE to = "vpn" /\ (announce \/ port)
  /\ UNCHANGED engine

Announce(on) ==
  /\ announce' = IF Reached THEN on ELSE announce
  /\ UNCHANGED <<engine, proxy>>

-----------------------------------------------------------------------------
(* VpnWiring's handlers *)

InterfaceUp(port) ==
  /\ Point("vpn", port)
  /\ hold' = TRUE

\* Mutant: a drop lifts the proxy whatever the kill switch says.
InterfaceDownOpen(deliberate) ==
  /\ Point("off", FALSE)
  /\ hold' = FALSE

InterfaceDown(deliberate) ==
  IF ~deliberate /\ killSwitch
  THEN Point("hold", FALSE) /\ UNCHANGED hold
  ELSE Point("off", FALSE) /\ hold' = FALSE

-----------------------------------------------------------------------------
(* VpnManager's handlers of the tunnel's signals *)

OnConnected ==
  IF state # "connecting"
  THEN \* stale: the user cancelled while the tunnel came up
       /\ stopping' = TRUE
       /\ UNCHANGED <<manager, session, hold>>
  ELSE /\ state' = "connected" /\ keepUp' = TRUE /\ retry' = FALSE
       /\ InterfaceUp(fwdPort)
       /\ UNCHANGED <<stopping, retryId, active, userDown, fwdPort>>

OnDisconnected ==
  /\ state' = "disconnected"
  /\ userDown' = FALSE
  /\ InterfaceDown(userDown)
  /\ UNCHANGED <<keepUp, retry, retryId, active>>

\* Mutant: a drop is not followed by another try.
OnFailedOnce ==
  /\ state' = "failed"
  /\ userDown' = FALSE
  /\ InterfaceDown(FALSE)
  /\ UNCHANGED <<keepUp, retry, retryId, active>>

\* with scheduleRetry
OnFailed ==
  /\ state' = "failed"
  /\ retry' = (retry \/ (keepUp /\ ~final))
  /\ userDown' = FALSE
  /\ InterfaceDown(FALSE)
  /\ UNCHANGED <<keepUp, retryId, active>>

-----------------------------------------------------------------------------
(* VpnManager's operations *)

\* Mutant: connectProfile starts over while a try or a tunnel is under way.
ConnectAnyway(p, keep) ==
  /\ keepUp' = keep
  /\ retry' = FALSE
  /\ retryId' = p
  /\ IF p \in known \ broken
     THEN /\ active' = p /\ last' = p /\ state' = "connecting"
          /\ Up(p, helper)
     ELSE /\ state' = "failed"
          /\ UNCHANGED <<tunnel, active, last>>
  /\ UNCHANGED <<userDown, fwdPort>>

\* connectProfile, on a manager with the given keepUp.  An unknown, missing or
\* broken profile fails at once and schedules nothing.
ConnectProfile(p, keep) ==
  IF state \in {"connecting", "connected"}
  THEN /\ keepUp' = keep
       /\ UNCHANGED <<tunnel, state, retry, retryId, active, userDown, fwdPort, last>>
  ELSE /\ keepUp' = keep
       /\ retry' = FALSE
       /\ retryId' = p
       /\ IF p \in known \ broken
          THEN /\ active' = p /\ last' = p /\ state' = "connecting"
               /\ Up(p, helper)
          ELSE /\ state' = "failed"
               /\ UNCHANGED <<tunnel, active, last>>
       /\ UNCHANGED <<userDown, fwdPort>>

\* Mutant: Disconnect forgets the try that is due.
DisconnectOnly ==
  /\ IF state = "disconnected"
     THEN UNCHANGED <<tunnel, state, active, userDown, session, hold>>
     ELSE /\ active' = "none"
          /\ userDown' = TRUE
          /\ Down
          /\ IF state = "failed" THEN state' = "disconnected" /\ InterfaceDown(TRUE)
             ELSE UNCHANGED <<state, session, hold>>
  /\ UNCHANGED <<keepUp, retry, retryId, fwdPort>>

\* disconnectVpn
DisconnectVpn ==
  /\ keepUp' = FALSE
  /\ retry' = FALSE
  /\ IF state = "disconnected"
     THEN UNCHANGED <<tunnel, state, active, userDown, session, hold>>
     ELSE /\ active' = "none"
          /\ userDown' = TRUE
          /\ Down
          /\ IF state = "failed" THEN state' = "disconnected" /\ InterfaceDown(TRUE)
             ELSE UNCHANGED <<state, session, hold>>
  /\ UNCHANGED <<retryId, fwdPort>>

-----------------------------------------------------------------------------
(* What the user does.  A click finds the signals already delivered that an  *)
(* earlier one posted, and does not fall in the half second after launch.    *)

Idle == queued = <<>> /\ ~launch

\* A profile of the list, or of the big button: shown unless the VPN is up
Connect(p) ==
  /\ Idle /\ p \in known
  /\ ConnectProfile(p, keepUp)
  /\ off' = (off /\ state \in {"connecting", "connected"})
  /\ UNCHANGED <<launch, hold, session, surroundings, wanted>>

\* connectLastUsed, the banner's Reconnect and the single shot at launch
ConnectLastUsed ==
  IF last \in known
  THEN ConnectProfile(last, TRUE)
  ELSE UNCHANGED <<tunnel, manager, last>>

Reconnect ==
  /\ Idle /\ state \in {"disconnected", "failed"}
  /\ ConnectLastUsed
  /\ off' = FALSE
  /\ UNCHANGED <<launch, hold, session, surroundings, wanted>>

\* The buttons are there unless the VPN is disconnected.
Disconnect ==
  /\ Idle /\ state # "disconnected"
  /\ DisconnectVpn
  /\ off' = TRUE
  /\ wanted' = FALSE
  /\ UNCHANGED <<launch, last, surroundings>>

\* The active one is disconnected first.
RemoveProfile(p) ==
  /\ "profiles" \in Ops /\ Idle /\ p \in known
  /\ IF active = p
     THEN DisconnectVpn /\ off' = TRUE /\ wanted' = FALSE
     ELSE UNCHANGED <<tunnel, manager, hold, session, off, wanted>>
  /\ known' = known \ {p}
  /\ broken' = broken \ {p}
  /\ UNCHANGED <<launch, last, helper, settings>>

\* An import makes an id of its own: none that anything still refers to.
ImportConfig(p) ==
  /\ "profiles" \in Ops /\ Idle
  /\ p \notin known \cup {active, retryId, last, config}
  /\ known' = known \cup {p}
  /\ UNCHANGED <<tunnel, manager, broken, launch, last, hold, session, helper, settings, off, wanted>>

\* The session saves the setting: nothing is saved while there is none.
SetKillSwitch ==
  /\ "killSwitch" \in Ops /\ Idle /\ Reached
  /\ killSwitch' = ~killSwitch
  /\ UNCHANGED <<tunnel, manager, profiles, launch, last, hold, session, helper, autoConnect, off, wanted>>

SetAutoConnect ==
  /\ "autoConnect" \in Ops /\ Idle
  /\ autoConnect' = ~autoConnect
  /\ UNCHANGED <<tunnel, manager, profiles, launch, last, hold, session, helper, killSwitch, off, wanted>>

-----------------------------------------------------------------------------
(* The tunnel's signals and the manager's timers *)

BatwgReady ==
  /\ BecomesReady
  /\ IF stopping THEN UNCHANGED <<stopping, manager, session, hold>> ELSE OnConnected
  /\ wanted' = (wanted \/ state' = "connected")
  /\ UNCHANGED <<config, final, fwd, queued, launch, last, surroundings, off>>

\* forwardedPort, then the wiring tells the session of it while connected
BatwgForwards(on) ==
  /\ "forward" \in Ops
  /\ Forwards(on)
  /\ fwdPort' = on
  /\ IF fwdPort # on /\ state = "connected" THEN Announce(on) ELSE UNCHANGED session
  /\ UNCHANGED <<state, keepUp, retry, retryId, active, userDown, launch, last, hold,
                 surroundings, off, wanted>>

BatwgExits ==
  /\ \E bad \in BOOLEAN : ChildExits(bad)
  /\ UNCHANGED <<manager, launch, last, hold, session, surroundings, off, wanted>>

\* finish(): the forwarded port is withdrawn first.
BatwgReaped ==
  /\ Reaped
  /\ IF stopping THEN OnDisconnected ELSE OnFailed
  /\ fwdPort' = FALSE
  /\ wanted' = (wanted /\ killSwitch)
  /\ UNCHANGED <<launch, last, surroundings, off>>

SignalDelivered ==
  /\ \/ Delivered("disconnected") /\ OnDisconnected
     \/ Delivered("failed") /\ OnFailed
  /\ wanted' = (wanted /\ killSwitch)
  /\ UNCHANGED <<fwdPort, launch, last, surroundings, off>>

\* Mutant: the timer tries again only from the disconnected state.
RetryFiresDisconnected ==
  /\ retry
  /\ IF keepUp /\ state = "disconnected" /\ retryId \in known
     THEN ConnectProfile(retryId, keepUp)
     ELSE /\ retry' = FALSE
          /\ UNCHANGED <<tunnel, state, keepUp, retryId, active, userDown, fwdPort, last>>
  /\ UNCHANGED <<launch, hold, session, surroundings, off, wanted>>

RetryFires ==
  /\ retry
  /\ IF keepUp /\ state \in {"failed", "disconnected"} /\ retryId \in known
     THEN ConnectProfile(retryId, keepUp)
     ELSE /\ retry' = FALSE
          /\ UNCHANGED <<tunnel, state, keepUp, retryId, active, userDown, fwdPort, last>>
  /\ UNCHANGED <<launch, hold, session, surroundings, off, wanted>>

LaunchFires ==
  /\ launch
  /\ launch' = FALSE
  /\ ConnectLastUsed
  /\ off' = FALSE
  /\ UNCHANGED <<hold, session, surroundings, wanted>>

-----------------------------------------------------------------------------
(* The engine process, the disk and the app itself *)

EngineDies ==
  /\ "engine" \in Ops
  /\ engine \in {"up", "fresh"}
  /\ engine' = "down" /\ proxy' = "none" /\ announce' = FALSE
  /\ UNCHANGED <<tunnel, manager, launch, last, hold, surroundings, off, wanted>>

\* SessionManager's constructor
EngineStarts ==
  /\ engine = "down"
  /\ engine' = "fresh" /\ proxy' = InitialProxy
  /\ UNCHANGED <<tunnel, manager, launch, last, hold, announce, surroundings, off, wanted>>

\* Mutant: a respawned engine is told of the tunnel only while it is up.
ResyncUpOnly ==
  /\ engine = "fresh"
  /\ engine' = "up"
  /\ IF state = "connected" /\ ready
     THEN proxy' = "vpn" /\ announce' = fwdPort
     ELSE proxy' = "off" /\ announce' = FALSE
  /\ UNCHANGED <<tunnel, manager, launch, last, hold, surroundings, off, wanted>>

\* Mutant: a respawned engine is not told of the forwarded port.
ResyncProxyOnly ==
  /\ engine = "fresh"
  /\ engine' = "up"
  /\ announce' = FALSE
  /\ proxy' = IF state = "connected" /\ ready THEN "vpn" ELSE InitialProxy
  /\ UNCHANGED <<tunnel, manager, launch, last, hold, surroundings, off, wanted>>

\* resync, when the engine is reached again
Resync ==
  /\ engine = "fresh"
  /\ engine' = "up"
  /\ IF state = "connected" /\ ready
     THEN proxy' = "vpn" /\ announce' = fwdPort
     ELSE proxy' = InitialProxy /\ announce' = FALSE
  /\ UNCHANGED <<tunnel, manager, launch, last, hold, surroundings, off, wanted>>

\* A .conf is edited or deleted, or batwg is (what a virus scanner does)
FileGoes ==
  /\ \/ \E p \in known \ broken : "broken" \in Ops /\ broken' = broken \cup {p} /\ UNCHANGED helper
     \/ "helper" \in Ops /\ helper /\ helper' = FALSE /\ UNCHANGED broken
  /\ UNCHANGED <<tunnel, manager, known, launch, last, hold, session, settings, off, wanted>>

\* Mutant: a launch keeps holding for a VPN that cannot come back.
RelaunchHeld ==
  /\ "relaunch" \in Ops
  /\ \E gone \in SUBSET broken : known' = known \ gone /\ broken' = broken \ gone
  /\ child' = "none" /\ config' = "none" /\ queued' = <<>>
  /\ ready' = FALSE /\ stopping' = FALSE /\ final' = FALSE /\ fwd' = FALSE
  /\ state' = "disconnected" /\ retryId' = "none" /\ active' = "none"
  /\ keepUp' = FALSE /\ retry' = FALSE /\ userDown' = FALSE /\ fwdPort' = FALSE
  /\ engine' = "up" /\ announce' = FALSE /\ proxy' = InitialProxy
  /\ launch' = (last \in known' /\ helper /\ (hold \/ autoConnect))
  /\ wanted' = hold
  /\ UNCHANGED <<last, hold, helper, settings, off>>

\* The app ends, batwg with it, and is started again: load() drops the profiles
\* whose .conf is gone, then wireSocks lets go of a VPN that cannot come back.
Relaunch ==
  /\ "relaunch" \in Ops
  /\ \E gone \in SUBSET broken : known' = known \ gone /\ broken' = broken \ gone
  /\ child' = "none" /\ config' = "none" /\ queued' = <<>>
  /\ ready' = FALSE /\ stopping' = FALSE /\ final' = FALSE /\ fwd' = FALSE
  /\ state' = "disconnected" /\ retryId' = "none" /\ active' = "none"
  /\ keepUp' = FALSE /\ retry' = FALSE /\ userDown' = FALSE /\ fwdPort' = FALSE
  /\ engine' = "up" /\ announce' = FALSE
  /\ LET possible == last \in known' /\ helper
     IN /\ hold' = (hold /\ possible)
        /\ launch' = (possible /\ (hold \/ autoConnect))
        /\ proxy' = IF possible THEN InitialProxy ELSE "off"
  /\ wanted' = hold'
  /\ UNCHANGED <<last, helper, settings, off>>

-----------------------------------------------------------------------------

Next ==
  \/ \E p \in Profiles : Connect(p) \/ RemoveProfile(p) \/ ImportConfig(p)
  \/ Reconnect \/ Disconnect \/ SetKillSwitch \/ SetAutoConnect
  \/ BatwgReady \/ (\E on \in BOOLEAN : BatwgForwards(on))
  \/ BatwgExits \/ BatwgReaped \/ SignalDelivered
  \/ RetryFires \/ LaunchFires
  \/ EngineDies \/ EngineStarts \/ Resync \/ FileGoes \/ Relaunch

Spec == Init /\ [][Next]_vars

\* batwg ends a try within 25 s or is killed after 40, and is killed 3 s after it
\* was told to stop; the event loop delivers and its timers fire.
Fairness ==
  /\ WF_vars(child = "starting" /\ (BatwgReady \/ BatwgExits))
  /\ WF_vars(stopping /\ BatwgExits)
  /\ WF_vars(BatwgReaped)
  /\ WF_vars(SignalDelivered)
  /\ WF_vars(RetryFires)
  /\ WF_vars(LaunchFires)

FairSpec == Spec /\ Fairness

-----------------------------------------------------------------------------
(* Properties *)

Exposed == engine # "down" /\ proxy = "off" /\ killSwitch /\ wanted

\* With the kill switch on, a session whose tunnel was up goes out directly only
\* after the person disconnects: not after a drop, not from an engine that was
\* started again, not on the next launch (VpnWiring's interfaceDown and resync,
\* SessionManager's constructor).  Turning the switch on is the one exception:
\* it does not stop what already goes out.
FailsClosed == [][wanted /\ Exposed' => Exposed \/ ~killSwitch]_vars

\* While the page says connected and the engine is reached, the session goes
\* through batwg, and batwg serves the profile the page shows.
ConnectedIsTunneled ==
  state = "connected" /\ engine = "up" =>
    /\ proxy = "vpn"
    /\ ready \/ child = "exited"
    /\ ~stopping => config = active

\* The session announces a port exactly while the VPN is connected and forwards
\* one: a port that is gone, or another tunnel's, is never announced
\* (setVpnAnnouncePort, and setVpnProxy that resets it).
AnnouncedPortIsOurs == engine = "up" => announce = (state = "connected" /\ fwdPort)

\* A session that is held can be let go: the page offers Disconnect, or the
\* launch, a signal or the resync of a respawned engine that moves it on is due
\* ("Disconnect lifts it", VpnWiring).
HoldCanBeLifted ==
  proxy = "hold" /\ state = "disconnected" => launch \/ queued # <<>> \/ engine = "fresh"

\* After a drop, a try is due as long as the app is to keep the VPN up and a try
\* can help (scheduleRetry and stopRetry).
RetryIsDue ==
  state = "failed" /\ keepUp /\ ~final /\ retryId \in known \ broken => retry

\* After Disconnect the app does not connect by itself: no try that was due then
\* is made (stopRetry, and connectProfile's checks).
DisconnectSticks ==
  [][off /\ off' => ~(state # "connecting" /\ state' = "connecting")]_vars

\* Nor does the next launch connect, unless the person asked for that ("Down on
\* purpose: the session goes back to the way it was").
DisconnectSurvivesQuit ==
  [][off /\ launch /\ ~launch' /\ ~autoConnect => state' # "connecting"]_vars

\* What goes out around the tunnel while the page says connected: the session
\* of a respawned engine too ("Up: the session sends everything through it").
NothingAroundTheTunnel == state = "connected" => proxy # "off"

\* A try ends, with a tunnel or without: nothing waits for batwg for ever.
TryEnds == state = "connecting" ~> state # "connecting"

\* A Disconnect is carried out, and its mark does not outlive it: the next drop
\* is not taken for a deliberate one.
DisconnectEnds == userDown ~> ~userDown

\* A VPN that dropped is tried again, as long as the app is to keep it up.
DropIsRetried ==
  (state = "failed" /\ keepUp /\ ~final /\ retryId \in known \ broken)
    ~> (state = "connecting" \/ ~keepUp \/ retryId \notin known \ broken)

\* In every state the manager, the tunnel and the session agree.
LinkIsSound == TypeOK /\ ConnectedIsTunneled /\ AnnouncedPortIsOurs /\ RetryIsDue

\* A try, a Disconnect and a drop all come to an end.
NothingHangs == TryEnds /\ DisconnectEnds /\ DropIsRetried
=============================================================================
