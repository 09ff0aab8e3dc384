-------------------------- MODULE BandwidthSchedule ---------------------------
(***************************************************************************)
(* The session's rate limits and their three owners: the user's normal     *)
(* limits, the alternative ones that the turtle button switches on, and    *)
(* the schedule, which the session's timer consults once a second.         *)
(*                                                                         *)
(* Data left out: what a rate is in bytes.  The code's week has 7 days of  *)
(* 24 hours.                                                               *)
(***************************************************************************)
EXTENDS Integers

CONSTANTS
  Days, Hours,  \* how many days a week has, and how many hours a day
  Limits,       \* rates in KB/s; 0 is no limit
  AltLimits     \* those that the alternative limits are chosen from

VARIABLES
  normal,    \* m_normalDownLimit, m_normalUpLimit
  alt,       \* m_altDownLimit, m_altUpLimit
  altOn,     \* m_altSpeedsActive
  enabled,   \* m_schedulerEnabled
  window,    \* m_scheduleDays (as a set), m_scheduleFromHour, m_scheduleToHour
  applied,   \* libtorrent's download_rate_limit and upload_rate_limit
  clock,     \* the hour of the week
  shown,     \* what the toolbar last heard by altSpeedsActiveChanged
  chosen     \* history: the normal limits that the user set last

speeds == <<normal, alt, altOn, applied>>
schedule == <<enabled, window>>
bandwidth == <<speeds, schedule, clock, shown, chosen>>

Rates(of) == [{"down", "up"} -> of]
Unlimited == [way \in {"down", "up"} |-> 0]

TypeOK ==
  /\ {normal, chosen} \subseteq Rates(Limits \cup {0})
  /\ alt \in Rates(AltLimits \cup {0}) /\ applied \in Rates(Limits \cup AltLimits \cup {0})
  /\ {altOn, enabled, shown} \subseteq BOOLEAN
  /\ window \in [days : SUBSET (0 .. Days - 1), from : 0 .. Hours - 1, to : 0 .. Hours - 1]
  /\ clock \in 0 .. Days * Hours - 1

Day == clock \div Hours
Hour == clock % Hours

\* Mutant: the hour at which the window ends still belongs to it.
InWindowClosed ==
  /\ Day \in window.days
  /\ IF window.from <= window.to THEN window.from <= Hour /\ Hour <= window.to
                                 ELSE window.from <= Hour \/ Hour < window.to

InWindow ==
  /\ Day \in window.days
  /\ IF window.from <= window.to THEN window.from <= Hour /\ Hour < window.to
                                 ELSE window.from <= Hour \/ Hour < window.to

Init ==
  /\ normal = Unlimited /\ alt = Unlimited /\ applied = Unlimited /\ chosen = Unlimited
  /\ altOn = FALSE /\ enabled = FALSE /\ shown = FALSE
  /\ window = [days |-> {}, from |-> 0, to |-> 0]
  /\ clock \in 0 .. Days * Hours - 1

-----------------------------------------------------------------------------
(* The user *)

\* Mutant: the new limit is applied even while the alternative ones rule.
SetLimitAtOnce ==
  \E way \in {"down", "up"}, kbps \in Limits :
    /\ normal' = [normal EXCEPT ![way] = kbps]
    /\ chosen' = [chosen EXCEPT ![way] = kbps]
    /\ applied' = [applied EXCEPT ![way] = kbps]
    /\ UNCHANGED <<alt, altOn, schedule, clock, shown>>

SetLimit ==
  \E way \in {"down", "up"}, kbps \in Limits :
    /\ normal' = [normal EXCEPT ![way] = kbps]
    /\ chosen' = [chosen EXCEPT ![way] = kbps]
    /\ applied' = IF altOn THEN applied ELSE [applied EXCEPT ![way] = kbps]
    /\ UNCHANGED <<alt, altOn, schedule, clock, shown>>

SetAltSpeedLimits ==
  /\ alt' \in Rates(AltLimits)
  /\ applied' = IF altOn THEN alt' ELSE applied
  /\ UNCHANGED <<normal, altOn, schedule, clock, shown, chosen>>

\* To take the schedule away brings the normal limits back, also when it was
\* the button that switched.
SetSchedulerEnabled ==
  /\ enabled' \in BOOLEAN
  /\ LET ends == ~enabled' /\ altOn
     IN  /\ altOn' = (altOn /\ ~ends)
         /\ applied' = IF ends THEN normal ELSE applied
  /\ UNCHANGED <<normal, alt, window, clock, shown, chosen>>

SetWindow ==
  /\ \/ \E d \in SUBSET (0 .. Days - 1) : window' = [window EXCEPT !.days = d]
     \/ \E h \in 0 .. Hours - 1 : window' = [window EXCEPT !.from = h]
     \/ \E h \in 0 .. Hours - 1 : window' = [window EXCEPT !.to = h]
  /\ UNCHANGED <<speeds, enabled, clock, shown, chosen>>

\* The button asks for the opposite of what rules, whatever it shows
SetAltSpeedsActive ==
  /\ altOn' = ~altOn
  /\ applied' = IF altOn' THEN alt ELSE normal
  /\ shown' = altOn'
  /\ UNCHANGED <<normal, alt, schedule, clock, chosen>>

-----------------------------------------------------------------------------
(* The timer and the clock *)

\* Mutant: the alternative limits are set like the user's own.
CheckBandwidthScheduleSetting ==
  /\ enabled /\ alt # Unlimited
  /\ InWindow # altOn
  /\ altOn' = InWindow
  /\ normal' = IF InWindow THEN alt ELSE normal
  /\ applied' = normal'
  /\ UNCHANGED <<alt, schedule, clock, shown, chosen>>

\* Mutant: the schedule only ever switches the alternative limits on.
CheckBandwidthScheduleOnly ==
  /\ enabled /\ alt # Unlimited
  /\ InWindow /\ ~altOn
  /\ altOn' = TRUE
  /\ applied' = alt
  /\ UNCHANGED <<normal, alt, schedule, clock, shown, chosen>>

CheckBandwidthSchedule ==
  /\ enabled /\ alt # Unlimited
  /\ InWindow # altOn
  /\ altOn' = InWindow
  /\ applied' = IF InWindow THEN alt ELSE normal
  /\ UNCHANGED <<normal, alt, schedule, clock, shown, chosen>>

HourPasses ==
  /\ clock' = (clock + 1) % (Days * Hours)
  /\ UNCHANGED <<speeds, schedule, shown, chosen>>

\* The settings are saved as they are set; which limits ruled is not.
Relaunch ==
  /\ altOn' = FALSE /\ shown' = FALSE
  /\ applied' = normal
  /\ UNCHANGED <<normal, alt, schedule, clock, chosen>>

Next ==
  \/ SetLimit \/ SetAltSpeedLimits \/ SetSchedulerEnabled \/ SetWindow \/ SetAltSpeedsActive
  \/ CheckBandwidthSchedule \/ HourPasses \/ Relaunch

\* The timer's tick
Fairness == WF_bandwidth(CheckBandwidthSchedule)

Spec == Init /\ [][Next]_bandwidth /\ Fairness

-----------------------------------------------------------------------------
(* Properties *)

\* Whatever the order in which the user, the button and the schedule act, what
\* libtorrent enforces is the alternative limits while they are on and otherwise the
\* limits that the user set last, also when they were set while the others ruled.
LimitIsApplied == applied = IF altOn THEN alt ELSE chosen

\* The window is the arc of the clock that starts at its first hour and ends before
\* its last one, around midnight when need be, on the days that are ticked.
WindowIsAnArc ==
  InWindow <=> /\ Day \in window.days
               /\ (Hour - window.from) % Hours < (window.to - window.from) % Hours

InForce == enabled /\ alt # Unlimited

\* A schedule in force has the alternative limits on in its window and off
\* outside it, one tick later, however the user toggles them.
OutOfStep(on) == InForce /\ InWindow = on /\ altOn # on
ScheduleRules == \A on \in BOOLEAN : OutOfStep(on) ~> ~OutOfStep(on)

\* The limits in every state, whatever the window
LimitsAreRight == TypeOK /\ LimitIsApplied /\ WindowIsAnArc

\* Not kept by the code: the button shows whether the alternative limits are on.
ButtonIsTrue == shown = altOn

\* Not kept by the code: the button acts "independent of the scheduler".
ButtonStays == [][CheckBandwidthSchedule => ~shown]_bandwidth

\* Not kept by the code: limits that the schedule switched on end with its window.
AltEnds == (enabled /\ ~InWindow) ~> (~altOn \/ ~enabled \/ InWindow)
=============================================================================
