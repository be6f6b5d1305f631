--------------------------- MODULE MaintenanceWindow ---------------------------
(***************************************************************************)
(* When a staged model may be activated (config.py, in_maintenance_window):*)
(* a window HH:MM-HH:MM of local time, which wraps around midnight if it   *)
(* starts later than it ends, or no window at all, which is always open.   *)
(* The clock shows finer times than the window: TicksPerMinute of them in  *)
(* a minute.                                                               *)
(***************************************************************************)
EXTENDS Naturals

CONSTANTS
  HoursPerDay, MinutesPerHour, TicksPerMinute, \* 24, 60, and 60 * 10^6
  Always                                       \* the empty setting

ASSUME ClockAssumption ==
  /\ HoursPerDay \in Nat \ {0} /\ MinutesPerHour \in Nat \ {0} /\ TicksPerMinute \in Nat \ {0}

VARIABLES
  window, \* the setting, fixed when the process starts
  now     \* local time, in ticks since midnight

windowVars == <<window, now>>

Day == HoursPerDay * MinutesPerHour * TicksPerMinute

(* Any other hour or minute makes time() raise, and each activation with it. *)
TimesOfDay == [hour : 0..(HoursPerDay - 1), minute : 0..(MinutesPerHour - 1)]

Windows == [start : TimesOfDay, end : TimesOfDay] \union {Always}

Ticks(t) == (t.hour * MinutesPerHour + t.minute) * TicksPerMinute

(* Mutant: the clock is cut to whole minutes, as the window is. *)
BetweenMinutes(start, end, t) ==
  LET m == (t \div TicksPerMinute) * TicksPerMinute
  IN  IF start <= end THEN start <= m /\ m <= end ELSE m >= start \/ m <= end

(* Mutant: a window around midnight has to hold at both ends. *)
BetweenBoth(start, end, t) == start <= t /\ t <= end

Between(start, end, t) ==
  IF start <= end THEN start <= t /\ t <= end ELSE t >= start \/ t <= end

InMaintenanceWindow ==
  window # Always => Between(Ticks(window.start), Ticks(window.end), now)

WindowInit ==
  /\ window \in Windows
  /\ now \in 0..(Day - 1)

Tick ==
  /\ now' = (now + 1) % Day
  /\ UNCHANGED window

WindowSpec == WindowInit /\ [][Tick]_windowVars

-------------------------------------------------------------------------------
(* Ticks from one time of day to the next occurrence of another. *)
Until(from, to) == IF from <= to THEN to - from ELSE to + Day - from

(* The window is the stretch of the day that begins at its start and       *)
(* reaches to the next occurrence of its end, both included, whether or    *)
(* not midnight lies between.                                              *)
WindowIsStretch ==
  window # Always =>
    LET start == Ticks(window.start)
        end   == Ticks(window.end)
    IN  InMaintenanceWindow <=> Until(start, now) <= Until(start, end)

(* F9: while the clock runs, activation becomes possible at the start of   *)
(* the window and at no other time, and impossible right after its end.    *)
OpensAndCloses ==
  [][window # Always =>
       /\ ~InMaintenanceWindow /\ InMaintenanceWindow' => now' = Ticks(window.start)
       /\ InMaintenanceWindow /\ ~InMaintenanceWindow' => now = Ticks(window.end)]_windowVars

(* F9: a staged model is held, not shut out: every window opens again and  *)
(* again, however short it is and wherever midnight lies.                  *)
OpensEveryDay == []<>InMaintenanceWindow
===============================================================================
