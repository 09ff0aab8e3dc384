----------------------------- MODULE VpnLinkProofs -----------------------------
(***************************************************************************)
(* What is proved of VpnLink, for every set of profiles and operations: in *)
(* each state the manager, the tunnel, the session and the marks that the  *)
(* user's words leave agree (Inv), and two steps that never happen.        *)
(***************************************************************************)
EXTENDS VpnLink, TLAPS

\* Nothing is under way with the tunnel unless the manager says so.
Manager ==
  /\ state \in {"disconnected", "failed"} => child = "none"
  /\ state = "connected" => ready /\ child \in {"serving", "exited"}
  /\ state = "connecting" /\ child = "none" => queued = <<"failed">>
  /\ child = "none" => ~stopping
  /\ child # "none" /\ ~stopping => config = active

\* A posted signal finds the manager as the call that posted it left it.
Posted ==
  \/ queued = <<>>
  \/ queued = <<"failed">> /\ state = "connecting" /\ child = "none" /\ ~retry /\ ~launch
  \/ queued = <<"disconnected">> /\ state = "disconnected" /\ ~retry /\ ~launch

\* The launch is the first thing that happens.
Launching == launch => state = "disconnected" /\ queued = <<>> /\ ~retry /\ last \in known

\* A Disconnect is remembered until it is carried out.
Deliberate == userDown <=> stopping \/ queued = <<"disconnected">>

\* What the kill switch holds for.
Holding ==
  /\ wanted => hold /\ ~userDown
  /\ hold /\ state = "disconnected" => launch

\* What the session was told.
Told ==
  /\ engine = "down" => proxy = "none"
  /\ engine = "up" => /\ state = "connected" => proxy = "vpn"
                      /\ announce <=> (state = "connected" /\ fwdPort)
                      /\ proxy = "hold" /\ state = "disconnected" => launch

\* After Disconnect, nothing tries again.
Quiet == off => ~keepUp /\ ~retry /\ (state \in {"connecting", "connected"} => stopping)

\* TypeOK, variable by variable; Posted says what may be queued.
TunnelTypes ==
  /\ child \in {"none", "starting", "serving", "exited"}
  /\ config \in Profiles \cup {"none"}
  /\ ready => child \in {"serving", "exited"}
  /\ ready \in BOOLEAN /\ stopping \in BOOLEAN /\ final \in BOOLEAN /\ fwd \in BOOLEAN

ManagerTypes ==
  /\ state \in {"disconnected", "connecting", "connected", "failed"}
  /\ keepUp \in BOOLEAN /\ retry \in BOOLEAN /\ userDown \in BOOLEAN /\ fwdPort \in BOOLEAN
  /\ retryId \in Profiles \cup {"none"} /\ active \in Profiles \cup {"none"}

SettingTypes ==
  /\ hold \in BOOLEAN /\ killSwitch \in BOOLEAN /\ autoConnect \in BOOLEAN
  /\ helper \in BOOLEAN /\ launch \in BOOLEAN /\ off \in BOOLEAN /\ wanted \in BOOLEAN
  /\ last \in Profiles \cup {"none"}
  /\ known \subseteq Profiles /\ broken \subseteq Profiles

SessionTypes ==
  /\ engine \in {"up", "down", "fresh"}
  /\ proxy \in {"none", "off", "hold", "vpn"}
  /\ announce \in BOOLEAN

Inv == /\ TunnelTypes /\ ManagerTypes /\ SettingTypes /\ SessionTypes
       /\ Manager /\ Posted /\ Launching /\ Deliberate /\ Holding /\ Told /\ Quiet /\ RetryIsDue

-----------------------------------------------------------------------------

\* What the queue's one signal is.
LEMMA QueueFacts ==
  /\ \A s : Append(<<>>, s) = <<s>> /\ <<s>> # <<>> /\ Head(<<s>>) = s /\ Tail(<<s>>) = <<>>
  /\ <<"failed">> # <<"disconnected">>
  /\ <<>> \in Seq({"failed", "disconnected"})
  /\ <<"failed">> \in Seq({"failed", "disconnected"})
  /\ <<"disconnected">> \in Seq({"failed", "disconnected"})
  OBVIOUS

\* Connect: connectProfile, with the helper, the file and the profile there or not
LEMMA ConnectKeeps ==
  ASSUME Inv, NEW p \in Profiles, Connect(p)
  PROVE  Inv'
<1>1. SessionTypes'
  BY DEF Inv, SessionTypes, Connect, session
<1>2. TunnelTypes'
  BY DEF Inv, TunnelTypes, Connect, ConnectProfile, Up, tunnel
<1>3. ManagerTypes'
  BY DEF Inv, ManagerTypes, Connect, ConnectProfile
<1>4. SettingTypes'
  BY DEF Inv, SettingTypes, Connect, ConnectProfile, profiles, settings, surroundings
<1>5. Manager'
  BY DEF Inv, Manager, ManagerTypes, Connect, ConnectProfile, Up, Idle, tunnel
<1>6. Posted'
  BY DEF Inv, Posted, Connect, ConnectProfile, Up, Idle, tunnel
<1>7. Launching'
  BY DEF Inv, Launching, Connect, Idle
<1>8. Deliberate'
  BY DEF Inv, Deliberate, SessionTypes, Manager, Told, Connect, ConnectProfile, Up, Idle,
     tunnel
<1>9. Holding'
  BY DEF Inv, Holding, Connect, ConnectProfile
<1>10. Told'
  BY DEF Inv, Told, Connect, ConnectProfile, session
<1>11. Quiet'
  BY DEF Inv, Quiet, Connect, ConnectProfile, tunnel
<1>12. RetryIsDue'
  BY DEF Inv, RetryIsDue, Connect, ConnectProfile, profiles, surroundings
<1> QED BY <1>1, <1>2, <1>3, <1>4, <1>5, <1>6, <1>7, <1>8, <1>9, <1>10, <1>11, <1>12 DEF Inv

\* Reconnect: the profile that was used last
LEMMA ReconnectKeeps ==
  ASSUME Inv, Reconnect
  PROVE  Inv'
<1>1. SessionTypes'
  BY DEF Inv, SessionTypes, Reconnect, session
<1>2. TunnelTypes'
  BY DEF Inv, TunnelTypes, SettingTypes, Reconnect, ConnectLastUsed, ConnectProfile, Up,
     tunnel
<1>3. ManagerTypes'
  BY DEF Inv, ManagerTypes, SettingTypes, Reconnect, ConnectLastUsed, ConnectProfile,
     manager
<1>4. SettingTypes'
  BY DEF Inv, SettingTypes, Reconnect, ConnectLastUsed, ConnectProfile, profiles, settings,
     surroundings
<1>5. Manager'
  BY DEF Inv, Manager, Reconnect, ConnectLastUsed, ConnectProfile, Up, Idle, tunnel,
     manager
<1>6. Posted'
  BY DEF Inv, Posted, Reconnect, ConnectLastUsed, ConnectProfile, Up, Idle, tunnel
<1>7. Launching'
  BY DEF Inv, Launching, Reconnect, Idle
<1>8. Deliberate'
  BY DEF Inv, Deliberate, Manager, Reconnect, ConnectLastUsed, ConnectProfile, Up, Idle,
     tunnel, manager
<1>9. Holding'
  BY DEF Inv, Holding, Reconnect, ConnectLastUsed, ConnectProfile, manager
<1>10. Told'
  BY DEF Inv, Told, Reconnect, ConnectLastUsed, ConnectProfile, manager, session
<1>11. Quiet'
  BY DEF Inv, Quiet, Reconnect
<1>12. RetryIsDue'
  BY DEF Inv, RetryIsDue, Reconnect, ConnectLastUsed, ConnectProfile, tunnel, manager,
     profiles, surroundings
<1> QED BY <1>1, <1>2, <1>3, <1>4, <1>5, <1>6, <1>7, <1>8, <1>9, <1>10, <1>11, <1>12 DEF Inv

\* Disconnect: what tries is stopped, what holds is let go
LEMMA DisconnectKeeps ==
  ASSUME Inv, Disconnect
  PROVE  Inv'
<1>1. TunnelTypes'
  BY DEF Inv, TunnelTypes, Disconnect, DisconnectVpn, Down
<1>2. ManagerTypes'
  BY DEF Inv, ManagerTypes, Disconnect, DisconnectVpn
<1>3. SettingTypes'
  BY DEF Inv, SettingTypes, Disconnect, DisconnectVpn, InterfaceDown, profiles, settings,
     surroundings
<1>4. SessionTypes'
  BY DEF Inv, SessionTypes, Disconnect, DisconnectVpn, InterfaceDown, Point, session
<1>5. Manager'
  BY DEF Inv, Manager, Disconnect, DisconnectVpn, Down, Idle
<1>6. Posted'
  BY DEF Inv, Posted, ManagerTypes, Manager, Disconnect, DisconnectVpn, Down,
     InterfaceDown, Point, Idle
<1>7. Launching'
  BY DEF Inv, Launching, Disconnect
<1>8. Deliberate'
  BY DEF Inv, Deliberate, Disconnect, DisconnectVpn, Down, Idle
<1>9. Holding'
  BY DEF Inv, Holding, Disconnect, DisconnectVpn, InterfaceDown
<1>10. Told'
  BY DEF Inv, Told, Disconnect, DisconnectVpn, InterfaceDown, Point, Reached, session
<1>11. Quiet'
  BY DEF Inv, Quiet, Manager, Disconnect, DisconnectVpn, Down, Idle
<1>12. RetryIsDue'
  BY DEF Inv, RetryIsDue, Disconnect, DisconnectVpn
<1> QED BY <1>1, <1>2, <1>3, <1>4, <1>5, <1>6, <1>7, <1>8, <1>9, <1>10, <1>11, <1>12 DEF Inv

\* The profile in use is disconnected before it is removed.
LEMMA RemoveProfileKeeps ==
  ASSUME Inv, NEW p \in Profiles, RemoveProfile(p)
  PROVE  Inv'
<1>1. TunnelTypes'
  BY DEF Inv, TunnelTypes, RemoveProfile, DisconnectVpn, Down, tunnel
<1>2. ManagerTypes'
  BY DEF Inv, ManagerTypes, RemoveProfile, DisconnectVpn, manager
<1>3. SettingTypes'
  BY DEF Inv, SettingTypes, Posted, Launching, RemoveProfile, DisconnectVpn, InterfaceDown,
     Idle, settings
<1>4. SessionTypes'
  BY DEF Inv, SessionTypes, RemoveProfile, DisconnectVpn, InterfaceDown, Point, session
<1>5. Manager'
  BY DEF Inv, Manager, RemoveProfile, DisconnectVpn, Down, Idle, tunnel, manager
<1>6. Posted'
  BY DEF Inv, Posted, ManagerTypes, Manager, RemoveProfile, DisconnectVpn, Down,
     InterfaceDown, Point, Idle, tunnel
<1>7. Launching'
  BY DEF Inv, Launching, RemoveProfile, Idle
<1>8. Deliberate'
  BY DEF Inv, Deliberate, TunnelTypes, ManagerTypes, SessionTypes, RemoveProfile,
     DisconnectVpn, Down, InterfaceDown, Point, Idle, tunnel, manager
<1>9. Holding'
  BY DEF Inv, Holding, RemoveProfile, DisconnectVpn, InterfaceDown, manager
<1>10. Told'
  BY DEF Inv, Told, RemoveProfile, DisconnectVpn, InterfaceDown, Point, Reached, manager,
     session
<1>11. Quiet'
  BY DEF Inv, Quiet, Manager, RemoveProfile, DisconnectVpn, Down, Idle, tunnel, manager
<1>12. RetryIsDue'
  BY DEF Inv, RetryIsDue, RemoveProfile, DisconnectVpn, tunnel, manager
<1> QED BY <1>1, <1>2, <1>3, <1>4, <1>5, <1>6, <1>7, <1>8, <1>9, <1>10, <1>11, <1>12 DEF Inv

\* A profile that is imported is not in use.
LEMMA ImportConfigKeeps ==
  ASSUME Inv, NEW p \in Profiles, ImportConfig(p)
  PROVE  Inv'
<1>1. TunnelTypes' /\ ManagerTypes' /\ SessionTypes' /\ Manager' /\ Posted' /\ Deliberate' /\ Holding' /\ Told' /\ Quiet'
  BY DEF Inv, TunnelTypes, ManagerTypes, SessionTypes, Manager, Posted, Deliberate,
     Holding, Told, Quiet, ImportConfig, tunnel, manager, session
<1>2. SettingTypes'
  BY DEF Inv, SettingTypes, ImportConfig, settings
<1>3. Launching'
  BY DEF Inv, Launching, ImportConfig, Idle
<1>4. RetryIsDue'
  BY DEF Inv, RetryIsDue, ImportConfig, tunnel, manager
<1> QED BY <1>1, <1>2, <1>3, <1>4 DEF Inv

\* The switch changes what a drop will do and nothing at once.
LEMMA SetKillSwitchKeeps ==
  ASSUME Inv, SetKillSwitch
  PROVE  Inv'
<1>1. TunnelTypes' /\ ManagerTypes' /\ SessionTypes' /\ Manager' /\ Posted' /\ Launching' /\ Deliberate' /\ Holding' /\ Told' /\ Quiet' /\ RetryIsDue'
  BY DEF Inv, TunnelTypes, ManagerTypes, SessionTypes, Manager, Posted, Launching,
     Deliberate, Holding, Told, Quiet, RetryIsDue, SetKillSwitch, tunnel, manager,
     profiles, session
<1>2. SettingTypes'
  BY DEF Inv, SettingTypes, SetKillSwitch, profiles
<1> QED BY <1>1, <1>2 DEF Inv

\* Auto-connect is looked at by the next launch only.
LEMMA SetAutoConnectKeeps ==
  ASSUME Inv, SetAutoConnect
  PROVE  Inv'
<1>1. TunnelTypes' /\ ManagerTypes' /\ SessionTypes' /\ Manager' /\ Posted' /\ Launching' /\ Deliberate' /\ Holding' /\ Told' /\ Quiet' /\ RetryIsDue'
  BY DEF Inv, TunnelTypes, ManagerTypes, SessionTypes, Manager, Posted, Launching,
     Deliberate, Holding, Told, Quiet, RetryIsDue, SetAutoConnect, tunnel, manager,
     profiles, session
<1>2. SettingTypes'
  BY DEF Inv, SettingTypes, SetAutoConnect, profiles
<1> QED BY <1>1, <1>2 DEF Inv

\* batwg prints that it serves: the tunnel is up.
LEMMA BatwgReadyKeeps ==
  ASSUME Inv, BatwgReady
  PROVE  Inv'
<1>1. TunnelTypes'
  BY DEF Inv, TunnelTypes, BatwgReady, BecomesReady, OnConnected
<1>2. ManagerTypes'
  BY DEF Inv, ManagerTypes, BatwgReady, OnConnected, manager
<1>3. SettingTypes'
  BY DEF Inv, SettingTypes, BatwgReady, OnConnected, InterfaceUp, profiles, settings,
     surroundings
<1>4. SessionTypes'
  BY DEF Inv, SessionTypes, BatwgReady, OnConnected, InterfaceUp, Point, session
<1>5. Manager'
  BY DEF Inv, Manager, BatwgReady, BecomesReady, OnConnected, manager
<1>6. Posted'
  BY DEF Inv, Posted, Manager, BatwgReady, BecomesReady
<1>7. Launching'
  BY DEF Inv, Launching, Manager, BatwgReady, BecomesReady
<1>8. Deliberate'
  BY DEF Inv, Deliberate, ManagerTypes, Manager, BatwgReady, BecomesReady, OnConnected,
     manager
<1>9. Holding'
  BY DEF Inv, Holding, TunnelTypes, Manager, Posted, Launching, Deliberate, BatwgReady,
     BecomesReady, OnConnected, InterfaceUp, manager
<1>10. Told'
  BY DEF Inv, Told, ManagerTypes, BatwgReady, OnConnected, InterfaceUp, Point, Reached,
     manager, session
<1>11. Quiet'
  BY DEF Inv, Quiet, BatwgReady, OnConnected, manager
<1>12. RetryIsDue'
  BY DEF Inv, RetryIsDue, Manager, BatwgReady, BecomesReady, OnConnected, manager
<1> QED BY <1>1, <1>2, <1>3, <1>4, <1>5, <1>6, <1>7, <1>8, <1>9, <1>10, <1>11, <1>12 DEF Inv

\* batwg prints a forwarded port, or that it is gone: the session is told.
LEMMA BatwgForwardsKeeps ==
  ASSUME Inv, NEW on \in BOOLEAN, BatwgForwards(on)
  PROVE  Inv'
<1>1. SettingTypes' /\ Manager' /\ Posted' /\ Launching' /\ Deliberate' /\ Holding' /\ Quiet' /\ RetryIsDue'
  BY DEF Inv, SettingTypes, Manager, Posted, Launching, Deliberate, Holding, Quiet,
     RetryIsDue, BatwgForwards, Forwards, profiles, settings, surroundings
<1>2. TunnelTypes'
  BY DEF Inv, TunnelTypes, BatwgForwards, Forwards
<1>3. ManagerTypes'
  BY DEF Inv, ManagerTypes, BatwgForwards
<1>4. SessionTypes'
  BY DEF Inv, SessionTypes, BatwgForwards, Announce, session
<1>5. Told'
  BY DEF Inv, Told, BatwgForwards, Announce, Reached, session
<1> QED BY <1>1, <1>2, <1>3, <1>4, <1>5 DEF Inv

\* batwg exits; nobody knows until it is reaped.
LEMMA BatwgExitsKeeps ==
  ASSUME Inv, BatwgExits
  PROVE  Inv'
<1>1. ManagerTypes' /\ SettingTypes' /\ SessionTypes' /\ Launching' /\ Deliberate' /\ Holding' /\ Told' /\ Quiet'
  BY DEF Inv, ManagerTypes, SettingTypes, SessionTypes, Launching, Deliberate, Holding,
     Told, Quiet, BatwgExits, ChildExits, manager, profiles, session, settings,
     surroundings
<1>2. TunnelTypes'
  BY DEF Inv, TunnelTypes, BatwgExits, ChildExits
<1>3. Manager'
  BY DEF Inv, Manager, BatwgExits, ChildExits, manager
<1>4. Posted'
  BY DEF Inv, Posted, Manager, BatwgExits, ChildExits
<1>5. RetryIsDue'
  BY DEF Inv, RetryIsDue, Manager, BatwgExits, ChildExits, manager
<1> QED BY <1>1, <1>2, <1>3, <1>4, <1>5 DEF Inv

\* The exit is reaped: a drop, a failure or what Disconnect waited for
LEMMA BatwgReapedKeeps ==
  ASSUME Inv, BatwgReaped
  PROVE  Inv'
<1>1. TunnelTypes'
  BY DEF Inv, TunnelTypes, BatwgReaped, Reaped
<1>2. ManagerTypes'
  BY DEF Inv, ManagerTypes, BatwgReaped, OnDisconnected, OnFailed
<1>3. SettingTypes'
  BY DEF Inv, SettingTypes, BatwgReaped, OnDisconnected, OnFailed, InterfaceDown, profiles,
     settings, surroundings
<1>4. SessionTypes'
  BY DEF Inv, SessionTypes, BatwgReaped, OnDisconnected, OnFailed, InterfaceDown, Point
<1>5. Manager'
  BY DEF Inv, Manager, BatwgReaped, Reaped, OnDisconnected, OnFailed
<1>6. Posted'
  BY DEF Inv, Posted, Manager, BatwgReaped, Reaped
<1>7. Launching'
  BY DEF Inv, Launching, Manager, BatwgReaped, Reaped
<1>8. Deliberate'
  BY DEF Inv, Deliberate, SessionTypes, Manager, Posted, Quiet, RetryIsDue, BatwgReaped,
     Reaped, OnDisconnected, OnFailed, InterfaceDown, Point
<1>9. Holding'
  BY DEF Inv, Holding, Deliberate, BatwgReaped, OnDisconnected, OnFailed, InterfaceDown
<1>10. Told'
  BY DEF Inv, Told, Deliberate, BatwgReaped, OnDisconnected, OnFailed, InterfaceDown,
     Point, Reached
<1>11. Quiet'
  BY DEF Inv, Quiet, BatwgReaped, OnDisconnected, OnFailed
<1>12. RetryIsDue'
  BY DEF Inv, RetryIsDue, BatwgReaped, Reaped, OnDisconnected, OnFailed
<1> QED BY <1>1, <1>2, <1>3, <1>4, <1>5, <1>6, <1>7, <1>8, <1>9, <1>10, <1>11, <1>12 DEF Inv

\* A posted signal finds the manager as the call left it (Posted).
LEMMA SignalDeliveredKeeps ==
  ASSUME Inv, SignalDelivered
  PROVE  Inv'
<1>0. queued' = <<>>
  BY QueueFacts DEF Inv, Posted, SignalDelivered, Delivered
<1>1. TunnelTypes'
  BY DEF Inv, TunnelTypes, SignalDelivered, Delivered, InterfaceDown, Point
<1>2. ManagerTypes'
  BY DEF Inv, ManagerTypes, SignalDelivered, OnDisconnected, OnFailed
<1>3. SettingTypes'
  BY DEF Inv, SettingTypes, SignalDelivered, OnDisconnected, OnFailed, InterfaceDown,
     profiles, settings, surroundings
<1>4. SessionTypes'
  BY DEF Inv, SessionTypes, SignalDelivered, OnDisconnected, OnFailed, InterfaceDown, Point
<1>5. Manager'
  BY <1>0 DEF Inv, Manager, Posted, SignalDelivered, Delivered, OnDisconnected, OnFailed,
     InterfaceDown, Point
<1>6. Posted'
  BY <1>0 DEF Inv, Posted, SignalDelivered
<1>7. Launching'
  BY <1>0 DEF Inv, Launching, SignalDelivered, Delivered
<1>8. Deliberate'
  BY <1>0 DEF Inv, Deliberate, Manager, Posted, SignalDelivered, Delivered, OnDisconnected,
     OnFailed, InterfaceDown, Point
<1>9. Holding'
  BY DEF Inv, Holding, ManagerTypes, Posted, SignalDelivered, Delivered, OnDisconnected,
     OnFailed, InterfaceDown, Point
<1>10. Told'
  BY DEF Inv, Told, ManagerTypes, Posted, Deliberate, SignalDelivered, Delivered,
     OnDisconnected, OnFailed, InterfaceDown, Point, Reached
<1>11. Quiet'
  BY DEF Inv, Quiet, SignalDelivered, OnDisconnected, OnFailed
<1>12. RetryIsDue'
  BY DEF Inv, RetryIsDue, SignalDelivered, Delivered, OnDisconnected, OnFailed
<1> QED BY <1>1, <1>2, <1>3, <1>4, <1>5, <1>6, <1>7, <1>8, <1>9, <1>10, <1>11, <1>12 DEF Inv

\* The timer of a drop tries its profile again.
LEMMA RetryFiresKeeps ==
  ASSUME Inv, RetryFires
  PROVE  Inv'
<1>1. SessionTypes'
  BY DEF Inv, SessionTypes, RetryFires, session
<1>2. TunnelTypes'
  BY DEF Inv, TunnelTypes, ManagerTypes, RetryFires, ConnectProfile, Up, tunnel
<1>3. ManagerTypes'
  BY DEF Inv, ManagerTypes, RetryFires, ConnectProfile
<1>4. SettingTypes'
  BY DEF Inv, SettingTypes, RetryFires, ConnectProfile, profiles, settings, surroundings
<1>5. Manager'
  BY QueueFacts DEF Inv, Manager, Posted, RetryFires, ConnectProfile, Up, tunnel
<1>6. Posted'
  BY QueueFacts DEF Inv, Posted, Launching, RetryFires, ConnectProfile, Up, tunnel
<1>7. Launching'
  BY DEF Inv, Launching, RetryFires
<1>8. Deliberate'
  BY QueueFacts DEF Inv, Deliberate, Manager, Posted, RetryFires, ConnectProfile, Up,
     tunnel
<1>9. Holding'
  BY DEF Inv, Holding, RetryFires, ConnectProfile
<1>10. Told'
  BY DEF Inv, Told, RetryFires, ConnectProfile, session
<1>11. Quiet'
  BY DEF Inv, Quiet, RetryFires
<1>12. RetryIsDue'
  BY DEF Inv, RetryIsDue, RetryFires, ConnectProfile, profiles, surroundings
<1> QED BY <1>1, <1>2, <1>3, <1>4, <1>5, <1>6, <1>7, <1>8, <1>9, <1>10, <1>11, <1>12 DEF Inv

\* The 500 ms after a launch are over.
LEMMA LaunchFiresKeeps ==
  ASSUME Inv, LaunchFires
  PROVE  Inv'
<1>1. SessionTypes'
  BY DEF Inv, SessionTypes, LaunchFires, session
<1>2. TunnelTypes'
  BY DEF Inv, TunnelTypes, SettingTypes, LaunchFires, ConnectLastUsed, ConnectProfile, Up,
     tunnel
<1>3. ManagerTypes'
  BY DEF Inv, ManagerTypes, SettingTypes, Launching, LaunchFires, ConnectLastUsed,
     ConnectProfile
<1>4. SettingTypes'
  BY DEF Inv, SettingTypes, LaunchFires, ConnectLastUsed, ConnectProfile, profiles,
     settings, surroundings
<1>5. Manager'
  BY DEF Inv, Manager, Launching, LaunchFires, ConnectLastUsed, ConnectProfile, Up, tunnel
<1>6. Posted'
  BY DEF Inv, Posted, LaunchFires, ConnectLastUsed, ConnectProfile, Up, tunnel
<1>7. Launching'
  BY DEF Inv, Launching, LaunchFires
<1>8. Deliberate'
  BY DEF Inv, Deliberate, ManagerTypes, Manager, Posted, Launching, Told, Quiet,
     RetryIsDue, LaunchFires, ConnectLastUsed, ConnectProfile, Up, tunnel
<1>9. Holding'
  BY DEF Inv, Holding, Launching, LaunchFires, ConnectLastUsed, ConnectProfile
<1>10. Told'
  BY DEF Inv, Told, Launching, LaunchFires, ConnectLastUsed, ConnectProfile, session
<1>11. Quiet'
  BY DEF Inv, Quiet, LaunchFires
<1>12. RetryIsDue'
  BY DEF Inv, RetryIsDue, Launching, LaunchFires, ConnectLastUsed, ConnectProfile,
     profiles, surroundings
<1> QED BY <1>1, <1>2, <1>3, <1>4, <1>5, <1>6, <1>7, <1>8, <1>9, <1>10, <1>11, <1>12 DEF Inv

\* An engine that dies takes its proxy along.
LEMMA EngineDiesKeeps ==
  ASSUME Inv, EngineDies
  PROVE  Inv'
<1>1. TunnelTypes' /\ ManagerTypes' /\ SettingTypes' /\ Manager' /\ Posted' /\ Launching' /\ Deliberate' /\ Holding' /\ Quiet' /\ RetryIsDue'
  BY DEF Inv, TunnelTypes, ManagerTypes, SettingTypes, Manager, Posted, Launching,
     Deliberate, Holding, Quiet, RetryIsDue, EngineDies, tunnel, manager, profiles,
     settings, surroundings
<1>2. SessionTypes'
  BY DEF Inv, SessionTypes, EngineDies
<1>3. Told'
  BY DEF Inv, Told, EngineDies
<1> QED BY <1>1, <1>2, <1>3 DEF Inv

\* An engine that starts has the proxy of the settings, before the resync.
LEMMA EngineStartsKeeps ==
  ASSUME Inv, EngineStarts
  PROVE  Inv'
<1>1. TunnelTypes' /\ ManagerTypes' /\ SettingTypes' /\ Manager' /\ Posted' /\ Launching' /\ Deliberate' /\ Holding' /\ Quiet' /\ RetryIsDue'
  BY DEF Inv, TunnelTypes, ManagerTypes, SettingTypes, Manager, Posted, Launching,
     Deliberate, Holding, Quiet, RetryIsDue, EngineStarts, tunnel, manager, profiles,
     settings, surroundings
<1>2. SessionTypes'
  BY DEF Inv, SessionTypes, EngineStarts, InitialProxy
<1>3. Told'
  BY DEF Inv, Told, EngineStarts
<1> QED BY <1>1, <1>2, <1>3 DEF Inv

\* resync tells the session what the manager's state asks for.
LEMMA ResyncKeeps ==
  ASSUME Inv, Resync
  PROVE  Inv'
<1>1. TunnelTypes' /\ ManagerTypes' /\ SettingTypes' /\ Manager' /\ Posted' /\ Launching' /\ Deliberate' /\ Holding' /\ Quiet' /\ RetryIsDue'
  BY DEF Inv, TunnelTypes, ManagerTypes, SettingTypes, Manager, Posted, Launching,
     Deliberate, Holding, Quiet, RetryIsDue, Resync, tunnel, manager, profiles, settings,
     surroundings
<1>2. SessionTypes'
  BY DEF Inv, SessionTypes, ManagerTypes, Resync, InitialProxy
<1>3. Told'
  BY DEF Inv, Told, Manager, Holding, Resync, InitialProxy, manager
<1> QED BY <1>1, <1>2, <1>3 DEF Inv

\* The helper or a configuration disappears from the disk.
LEMMA FileGoesKeeps ==
  ASSUME Inv, FileGoes
  PROVE  Inv'
<1>1. TunnelTypes' /\ ManagerTypes' /\ SessionTypes' /\ Manager' /\ Posted' /\ Launching' /\ Deliberate' /\ Holding' /\ Told' /\ Quiet'
  BY DEF Inv, TunnelTypes, ManagerTypes, SessionTypes, Manager, Posted, Launching,
     Deliberate, Holding, Told, Quiet, FileGoes, tunnel, manager, session
<1>2. SettingTypes'
  BY DEF Inv, SettingTypes, FileGoes, settings
<1>3. RetryIsDue'
  BY DEF Inv, RetryIsDue, FileGoes, tunnel, manager
<1> QED BY <1>1, <1>2, <1>3 DEF Inv

\* A launch: only the settings are left of what was.
LEMMA RelaunchKeeps ==
  ASSUME Inv, Relaunch
  PROVE  Inv'
<1>1. TunnelTypes'
  BY DEF Inv, TunnelTypes, Relaunch
<1>2. ManagerTypes'
  BY DEF Inv, ManagerTypes, Relaunch
<1>3. SettingTypes'
  BY DEF Inv, SettingTypes, Relaunch, settings
<1>4. SessionTypes'
  BY DEF Inv, SessionTypes, Relaunch, InitialProxy
<1>5. Manager'
  BY DEF Inv, Manager, Relaunch
<1>6. Posted'
  BY DEF Inv, Posted, Relaunch
<1>7. Launching'
  BY DEF Inv, Launching, Relaunch
<1>8. Deliberate'
  BY DEF Inv, Deliberate, Relaunch
<1>9. Holding'
  BY DEF Inv, Holding, Relaunch
<1>10. Told'
  BY DEF Inv, Told, Relaunch, InitialProxy
<1>11. Quiet'
  BY DEF Inv, Quiet, Relaunch
<1>12. RetryIsDue'
  BY DEF Inv, RetryIsDue, Relaunch
<1> QED BY <1>1, <1>2, <1>3, <1>4, <1>5, <1>6, <1>7, <1>8, <1>9, <1>10, <1>11, <1>12 DEF Inv

-----------------------------------------------------------------------------

\* The first launch
LEMMA InitHolds == Init => Inv
<1> SUFFICES ASSUME Init PROVE Inv
  OBVIOUS
<1>1. TunnelTypes /\ ManagerTypes /\ SettingTypes /\ SessionTypes
  BY DEF Init, TunnelInit, InitialProxy, TunnelTypes, ManagerTypes, SettingTypes, SessionTypes
<1>2. Manager /\ Posted /\ Deliberate /\ Quiet /\ RetryIsDue
  BY QueueFacts DEF Init, TunnelInit, Manager, Posted, Deliberate, Quiet, RetryIsDue
<1>3. Launching /\ Holding /\ Told
  BY DEF Init, TunnelInit, InitialProxy, Launching, Holding, Told
<1> QED BY <1>1, <1>2, <1>3 DEF Inv

\* Every step keeps the invariant.
LEMMA NextKeeps ==
  ASSUME Inv, [Next]_vars
  PROVE  Inv'
<1>1. CASE UNCHANGED vars
  BY <1>1 DEF Inv, TunnelTypes, ManagerTypes, SettingTypes, SessionTypes, Manager, Posted,
     Launching, Deliberate, Holding, Told, Quiet, RetryIsDue, vars, tunnel, manager, session,
     surroundings, profiles, settings
<1>2. ASSUME NEW p \in Profiles, Connect(p) \/ RemoveProfile(p) \/ ImportConfig(p)
      PROVE  Inv'
  BY <1>2, ConnectKeeps, RemoveProfileKeeps, ImportConfigKeeps
<1>3. ASSUME NEW on \in BOOLEAN, BatwgForwards(on) PROVE Inv'
  BY <1>3, BatwgForwardsKeeps
<1>4. CASE Reconnect \/ Disconnect \/ SetKillSwitch \/ SetAutoConnect
  BY <1>4, ReconnectKeeps, DisconnectKeeps, SetKillSwitchKeeps, SetAutoConnectKeeps
<1>5. CASE BatwgReady \/ BatwgExits \/ BatwgReaped \/ SignalDelivered
  BY <1>5, BatwgReadyKeeps, BatwgExitsKeeps, BatwgReapedKeeps, SignalDeliveredKeeps
<1>6. CASE RetryFires \/ LaunchFires
  BY <1>6, RetryFiresKeeps, LaunchFiresKeeps
<1>7. CASE EngineDies \/ EngineStarts \/ Resync \/ FileGoes \/ Relaunch
  BY <1>7, EngineDiesKeeps, EngineStartsKeeps, ResyncKeeps, FileGoesKeeps, RelaunchKeeps
<1> QED BY <1>1, <1>2, <1>3, <1>4, <1>5, <1>6, <1>7 DEF Next

\* The manager, the tunnel and the session agree in every state, whatever the
\* user, batwg, the engine process, the disk and the timers do, in which order.
LEMMA InvHolds == Spec => []Inv
<1>1. Inv /\ [Next]_vars => Inv'
  BY NextKeeps
<1> QED BY InitHolds, <1>1, PTL DEF Spec

\* The parts of the invariant give every variable its type.
LEMMA TypesSound == Inv => TypeOK
<1> SUFFICES ASSUME Inv PROVE TypeOK
  OBVIOUS
<1>1. queued \in Seq({"failed", "disconnected"})
  BY QueueFacts DEF Inv, Posted
<1>2. TunnelTypeOK(Profiles)
  BY <1>1 DEF Inv, TunnelTypes, TunnelTypeOK
<1> QED BY <1>2 DEF Inv, TypeOK, States, ManagerTypes, SettingTypes, SessionTypes

\* A VPN that the page calls connected carries the session's traffic through the
\* tunnel of the profile it shows, the session announces a port exactly while
\* the tunnel forwards one, and a drop leaves a try due (VpnManager, VpnWiring).
THEOREM LinkSound == Spec => []LinkIsSound
<1>1. Inv => ConnectedIsTunneled
  BY DEF Inv, Manager, Told, ConnectedIsTunneled
<1>2. Inv => AnnouncedPortIsOurs
  <2> SUFFICES ASSUME Inv, engine = "up" PROVE announce = (state = "connected" /\ fwdPort)
    BY DEF AnnouncedPortIsOurs
  <2>1. announce \in BOOLEAN /\ fwdPort \in BOOLEAN
    BY DEF Inv, SessionTypes, ManagerTypes
  <2> QED BY <2>1 DEF Inv, Told
<1>3. Inv => RetryIsDue
  BY DEF Inv
<1> QED BY InvHolds, TypesSound, <1>1, <1>2, <1>3, PTL DEF LinkIsSound

\* A session that is held has a way out: where the page says disconnected, the
\* launch, a posted signal or a resync that moves it on is due.
THEOREM HeldIsLifted == Spec => []HoldCanBeLifted
<1>1. Inv => HoldCanBeLifted
  BY DEF Inv, SessionTypes, Told, HoldCanBeLifted
<1> QED BY InvHolds, <1>1, PTL

\* What exposes a session is Disconnect, or the switch that is off.
LEMMA StepFailsClosed ==
  ASSUME Inv, [Next]_vars
  PROVE  wanted /\ Exposed' => Exposed \/ ~killSwitch
<1> DEFINE Goal == wanted /\ Exposed' => Exposed \/ ~killSwitch
<1> SUFFICES Goal
  OBVIOUS
<1>1. CASE UNCHANGED vars
  BY <1>1 DEF Inv, Holding, SettingTypes, Exposed, vars, session, surroundings, settings
<1>2. ASSUME NEW p \in Profiles, Connect(p) \/ ImportConfig(p) PROVE Goal
  BY <1>2 DEF Inv, Holding, SettingTypes, Exposed, Connect, ImportConfig, session,
     surroundings, settings
<1>3. ASSUME NEW p \in Profiles, RemoveProfile(p) PROVE Goal
  BY <1>3 DEF Inv, Holding, SettingTypes, Exposed, RemoveProfile, settings, session
<1>4. ASSUME NEW on \in BOOLEAN, BatwgForwards(on) PROVE Goal
  BY <1>4 DEF Inv, Holding, SettingTypes, Exposed, BatwgForwards, Announce, session,
     surroundings, settings
<1>5. CASE Reconnect \/ RetryFires \/ LaunchFires
  BY <1>5 DEF Inv, Holding, SettingTypes, Exposed, Reconnect, RetryFires, LaunchFires,
     session, surroundings, settings
<1>6. CASE Disconnect
  BY <1>6 DEF Inv, Holding, SettingTypes, Exposed, Disconnect
<1>7. CASE SetKillSwitch \/ SetAutoConnect
  BY <1>7 DEF Inv, Holding, SettingTypes, Exposed, SetKillSwitch, SetAutoConnect, session
<1>8. CASE BatwgReady
  BY <1>8 DEF Inv, Holding, SettingTypes, Exposed, BatwgReady, OnConnected, InterfaceUp,
     Point, session, surroundings, settings
<1>9. CASE BatwgExits \/ FileGoes
  BY <1>9 DEF Inv, Holding, SettingTypes, Exposed, BatwgExits, FileGoes, session,
     surroundings, settings
<1>10. CASE BatwgReaped
  BY <1>10 DEF Inv, Holding, SettingTypes, Exposed, BatwgReaped, Reaped, OnDisconnected,
     OnFailed, InterfaceDown, Point, Deliberate, surroundings, settings
<1>11. CASE SignalDelivered
  BY <1>11 DEF Inv, Holding, SettingTypes, Exposed, SignalDelivered, Delivered,
     OnDisconnected, OnFailed, InterfaceDown, Point, Deliberate, surroundings, settings
<1>12. CASE EngineDies \/ EngineStarts \/ Resync
  BY <1>12 DEF Inv, Holding, SettingTypes, Exposed, EngineDies, EngineStarts, Resync,
     InitialProxy, surroundings, settings
<1>13. CASE Relaunch
  BY <1>13 DEF Inv, Holding, SettingTypes, Exposed, Relaunch, InitialProxy, settings
<1> QED BY <1>1, <1>2, <1>3, <1>4, <1>5, <1>6, <1>7, <1>8, <1>9, <1>10, <1>11, <1>12, <1>13 DEF Next

\* With the kill switch on, no step of any of the actors exposes a session whose
\* tunnel was up: not a drop, not an engine that is started again, not the next
\* launch (VpnWiring's interfaceDown and resync, SessionManager's constructor).
THEOREM DropFailsClosed == Spec => FailsClosed
<1>1. Inv /\ [Next]_vars => [wanted /\ Exposed' => Exposed \/ ~killSwitch]_vars
  BY StepFailsClosed
<1> QED BY <1>1, InvHolds, PTL DEF Spec, FailsClosed

\* After a Disconnect only a click or a launch starts a try.
LEMMA StepSticks ==
  ASSUME Inv, [Next]_vars
  PROVE  off /\ off' => ~(state # "connecting" /\ state' = "connecting")
<1> DEFINE Goal == off /\ off' => ~(state # "connecting" /\ state' = "connecting")
<1> SUFFICES Goal
  OBVIOUS
<1>1. CASE UNCHANGED vars
  BY <1>1 DEF Inv, Quiet, vars, manager
<1>2. ASSUME NEW p \in Profiles, Connect(p) PROVE Goal
  BY <1>2 DEF Inv, Quiet, Connect, ConnectProfile
<1>3. ASSUME NEW p \in Profiles, RemoveProfile(p) PROVE Goal
  BY <1>3 DEF Inv, Quiet, RemoveProfile, DisconnectVpn, manager
<1>4. ASSUME NEW p \in Profiles, ImportConfig(p) PROVE Goal
  BY <1>4 DEF Inv, Quiet, ImportConfig, manager
<1>5. ASSUME NEW on \in BOOLEAN, BatwgForwards(on) PROVE Goal
  BY <1>5 DEF Inv, Quiet, BatwgForwards
<1>6. CASE Reconnect \/ LaunchFires
  BY <1>6 DEF Inv, Quiet, Reconnect, LaunchFires
<1>7. CASE Disconnect
  BY <1>7 DEF Inv, Quiet, Disconnect, DisconnectVpn
<1>8. CASE RetryFires
  BY <1>8 DEF Inv, Quiet, RetryFires
<1>9. CASE SetKillSwitch \/ SetAutoConnect
  BY <1>9 DEF Inv, Quiet, SetKillSwitch, SetAutoConnect, manager
<1>10. CASE BatwgReady
  BY <1>10 DEF Inv, Quiet, BatwgReady, OnConnected, manager
<1>11. CASE BatwgReaped \/ SignalDelivered
  BY <1>11 DEF Inv, Quiet, BatwgReaped, SignalDelivered, OnDisconnected, OnFailed
<1>12. CASE BatwgExits \/ FileGoes
  BY <1>12 DEF Inv, Quiet, BatwgExits, FileGoes, manager
<1>13. CASE EngineDies \/ EngineStarts \/ Resync
  BY <1>13 DEF Inv, Quiet, EngineDies, EngineStarts, Resync, manager
<1>14. CASE Relaunch
  BY <1>14 DEF Inv, Quiet, Relaunch
<1> QED BY <1>1, <1>2, <1>3, <1>4, <1>5, <1>6, <1>7, <1>8, <1>9, <1>10, <1>11, <1>12, <1>13, <1>14 DEF Next

\* A Disconnect sticks: from then on no step starts a try until the user, or a
\* launch, asks for one.  What DisconnectVpn stops (keepUp, the timer) nothing but
\* ConnectProfile starts again, and its callers are all asked for.
THEOREM DisconnectHolds == Spec => DisconnectSticks
<1>1. Inv /\ [Next]_vars => [off /\ off' => ~(state # "connecting" /\ state' = "connecting")]_vars
  BY StepSticks
<1> QED BY <1>1, InvHolds, PTL DEF Spec, DisconnectSticks
=============================================================================
