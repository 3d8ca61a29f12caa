----------------------------- MODULE DrawdownOps -----------------------------
(***************************************************************************)
(* The arithmetic and the state ladder of risk/drawdown.py as operators on *)
(* a tracker record, so that the tracker alone (DrawdownTracker) and the   *)
(* forward runner (ForwardRunner) take the same steps.                     *)
(*                                                                         *)
(* Money is an integer.  A ratio such as daily_dd >= 0.025 is compared by  *)
(* cross-multiplication against a numerator over Scale, so no rounding is  *)
(* introduced.  A timestamp is a tick; a day is TicksPerDay ticks and a    *)
(* week DaysPerWeek days.                                                  *)
(***************************************************************************)
EXTENDS Integers

CONSTANTS
    Scale,             \* denominator of every configured ratio
    MaxDaily,          \* max_daily_drawdown * Scale
    MaxWeekly,         \* max_weekly_drawdown * Scale
    DailyLockout,      \* daily_loss_lockout * Scale
    BreakerThreshold,  \* circuit_breaker_threshold * Scale (0 = disabled)
    CooldownTicks,     \* circuit_breaker_cooldown_days in ticks (0 = for good)
    DampenAfter,       \* consecutive_loss_dampen_after
    TicksPerDay,
    DaysPerWeek

ASSUME RatioAssumption ==
    /\ Scale \in Nat \ {0}
    /\ MaxDaily \in Nat
    /\ MaxWeekly \in Nat
    /\ DailyLockout \in Nat
    /\ BreakerThreshold \in Nat

ASSUME CalendarAssumption ==
    /\ CooldownTicks \in Nat
    /\ DampenAfter \in Nat \ {0}
    /\ TicksPerDay \in Nat \ {0}
    /\ DaysPerWeek \in Nat \ {0}

OpStates == {"active", "throttled", "locked", "stopped"}
Halted   == {"locked", "stopped"}

NoDay   == -1          \* _current_day before the first update
NoUntil == -1          \* _cb_cooldown_until is None

DayOf(ts)  == ts \div TicksPerDay
WeekOf(ts) == DayOf(ts) \div DaysPerWeek

(***************************************************************************)
(* _state_transitions is kept as the one count a property is about: how    *)
(* many of its entries are cooldown expiries (resumes).  The activation    *)
(* counts of the report, which nothing reads back, are left out.           *)
(***************************************************************************)
Tracker == [peak: Int, dayStart: Int, weekStart: Int,
            day: Int, week: Int, losses: Nat, state: OpStates,
            until: Int, fired: BOOLEAN, fires: Nat, resumes: Nat]

NewTracker(equity) ==
    [peak |-> equity, dayStart |-> equity, weekStart |-> equity,
     day |-> NoDay, week |-> NoDay, losses |-> 0, state |-> "active",
     until |-> NoUntil, fired |-> FALSE, fires |-> 0,
     resumes |-> 0]

(***************************************************************************)
(* Drawdown of eq from ref, and the test "drawdown >= num / den".          *)
(* A reference that is not positive counts as no drawdown.                 *)
(***************************************************************************)
Loss(ref, eq) == IF ref > eq THEN ref - eq ELSE 0

DrawdownAtLeast(ref, eq, num, den) ==
    IF ref > 0 THEN Loss(ref, eq) * den >= num * ref ELSE num = 0

BreakerTrips(ref, eq) ==
    BreakerThreshold > 0 /\ DrawdownAtLeast(ref, eq, BreakerThreshold, Scale)

LockoutHit(t, eq) == DrawdownAtLeast(t.dayStart, eq, DailyLockout, Scale)

\* daily >= 0.75 * max_daily_drawdown or weekly >= 0.75 * max_weekly_drawdown
NearLimit(t, eq) ==
    \/ DrawdownAtLeast(t.dayStart, eq, 3 * MaxDaily, 4 * Scale)
    \/ DrawdownAtLeast(t.weekStart, eq, 3 * MaxWeekly, 4 * Scale)

------------------------------------------------------------------------------
RecordResult(t, lost) == [t EXCEPT !.losses = IF lost THEN @ + 1 ELSE 0]

Transition(t, s) == [t EXCEPT !.state = s]

\* Mutant: a new day lifts a stop as well as a lock.
RollDayLiftsStop(t, eq, ts) ==
    IF DayOf(ts) = t.day THEN t
    ELSE LET d == [t EXCEPT !.dayStart = eq, !.day = DayOf(ts)]
         IN  IF d.state \in Halted THEN Transition(d, "active") ELSE d

RollDay(t, eq, ts) ==
    IF DayOf(ts) = t.day THEN t
    ELSE LET d == [t EXCEPT !.dayStart = eq, !.day = DayOf(ts)]
         IN  IF d.state = "locked" THEN Transition(d, "active") ELSE d

RollWeek(t, eq, ts) ==
    IF WeekOf(ts) = t.week THEN t
    ELSE [t EXCEPT !.weekStart = eq, !.week = WeekOf(ts)]

RollPeak(t, eq) == IF eq > t.peak THEN [t EXCEPT !.peak = eq] ELSE t

Rolled(t, eq, ts) == RollPeak(RollWeek(RollDay(t, eq, ts), eq, ts), eq)

\* Mutant: the expiry is not compared with the clock.
CooldownAlwaysOver(t, ts) == t.state = "stopped" /\ t.until # NoUntil

CooldownOver(t, ts) ==
    /\ t.state = "stopped"
    /\ CooldownTicks > 0
    /\ t.until # NoUntil
    /\ ts >= t.until

\* Mutant: the expiry survives the resume.
ResumeKeepsExpiry(t, eq, ts) ==
    IF CooldownOver(t, ts)
    THEN [Transition(t, "active") EXCEPT !.peak = eq, !.resumes = @ + 1]
    ELSE t

\* Mutant: the high-water mark survives the resume.
ResumeKeepsPeak(t, eq, ts) ==
    IF CooldownOver(t, ts)
    THEN [Transition(t, "active") EXCEPT !.until = NoUntil, !.resumes = @ + 1]
    ELSE t

Resume(t, eq, ts) ==
    IF CooldownOver(t, ts)
    THEN [Transition(t, "active") EXCEPT !.peak = eq, !.until = NoUntil,
                                         !.resumes = @ + 1]
    ELSE t

FireBreaker(t, ts) ==
    [Transition(t, "stopped") EXCEPT
        !.fired = TRUE, !.fires = @ + 1,
        !.until = IF CooldownTicks > 0 THEN ts + CooldownTicks ELSE @]

\* Mutant: the warning level is tested before the lockout.
NextRungWarnFirst(t, eq) ==
    CASE NearLimit(t, eq)   -> "throttled"
      [] ~NearLimit(t, eq)  -> IF LockoutHit(t, eq) THEN "locked" ELSE "active"

\* Mutant: normal conditions lift a lock at once.
NextRungForgetsLock(t, eq) ==
    CASE LockoutHit(t, eq)                       -> "locked"
      [] ~LockoutHit(t, eq) /\ NearLimit(t, eq)  -> "throttled"
      [] ~LockoutHit(t, eq) /\ ~NearLimit(t, eq) -> "active"

NextRung(t, eq) ==
    CASE LockoutHit(t, eq)                          -> "locked"
      [] ~LockoutHit(t, eq) /\ NearLimit(t, eq)     -> "throttled"
      [] ~LockoutHit(t, eq) /\ ~NearLimit(t, eq)    ->
            IF t.state = "locked" THEN "locked" ELSE "active"

\* Mutant: the daily lockout is tested before the breaker.
ClimbLockoutFirst(t, hwm, eq, ts) ==
    CASE t.state = "stopped"                        -> t
      [] t.state # "stopped" /\ LockoutHit(t, eq)   -> Transition(t, "locked")
      [] t.state # "stopped" /\ ~LockoutHit(t, eq)  ->
            IF BreakerTrips(hwm, eq) THEN FireBreaker(t, ts)
            ELSE Transition(t, NextRung(t, eq))

\* hwm is the high-water mark the peak drawdown was computed from, before
\* Resume may have replaced it.
Climb(t, hwm, eq, ts) ==
    CASE t.state = "stopped"                            -> t
      [] t.state # "stopped" /\ BreakerTrips(hwm, eq)   -> FireBreaker(t, ts)
      [] t.state # "stopped" /\ ~BreakerTrips(hwm, eq)  ->
            Transition(t, NextRung(t, eq))

Updated(t, eq, ts) ==
    LET r == Rolled(t, eq, ts)
    IN  Climb(Resume(r, eq, ts), r.peak, eq, ts)

------------------------------------------------------------------------------
(***************************************************************************)
(* The throttle factor of a snapshot, as far as its readers tell it apart: *)
(* 0.0, strictly between 0 and 1, or 1.0.  The dampen factor is in (0, 1). *)
(***************************************************************************)
Throttles == {"zero", "reduced", "full"}

AtLimit(t, eq) ==
    \/ MaxDaily > 0 /\ DrawdownAtLeast(t.dayStart, eq, MaxDaily, Scale)
    \/ MaxWeekly > 0 /\ DrawdownAtLeast(t.weekStart, eq, MaxWeekly, Scale)

Below(t, eq) ==
    \/ MaxDaily > 0 /\ Loss(t.dayStart, eq) > 0 /\ t.dayStart > 0
    \/ MaxWeekly > 0 /\ Loss(t.weekStart, eq) > 0 /\ t.weekStart > 0

ThrottleOf(t, eq) ==
    CASE t.state \in Halted \/ AtLimit(t, eq)  -> "zero"
      [] OTHER -> IF Below(t, eq) \/ t.losses >= DampenAfter
                  THEN "reduced" ELSE "full"
==============================================================================
