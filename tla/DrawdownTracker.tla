--------------------------- MODULE DrawdownTracker ---------------------------
(***************************************************************************)
(* DrawdownTracker of risk/drawdown.py driven by its clients: a sequence   *)
(* of update(equity, timestamp) calls at non-decreasing timestamps, mixed  *)
(* with record_trade_result calls.                                         *)
(***************************************************************************)
EXTENDS DrawdownOps

CONSTANTS
    Equities,        \* the account equities an update can be given
    InitialEquity,
    MaxGap,          \* bound: ticks between two updates
    MaxTime,         \* bound: last tick of a behaviour
    MaxLosses        \* bound: losing trades counted in a row

ASSUME EquityAssumption ==
    /\ Equities \subseteq Int
    /\ InitialEquity \in Equities

ASSUME BoundAssumption ==
    /\ MaxGap \in Nat
    /\ MaxTime \in Nat
    /\ MaxLosses \in Nat

VARIABLES
    trk,        \* the tracker's fields
    equity,     \* equity of the last update
    now,        \* timestamp of the last update
    throttle    \* throttle_factor of the last snapshot

vars == <<trk, equity, now, throttle>>

TypeOK ==
    /\ trk \in Tracker
    /\ equity \in Equities
    /\ now \in Nat
    /\ throttle \in Throttles

Init ==
    /\ trk = NewTracker(InitialEquity)
    /\ equity = InitialEquity
    /\ now = 0
    /\ throttle = "full"

Update(eq, ts) ==
    /\ now <= ts /\ ts <= MaxTime
    /\ trk' = Updated(trk, eq, ts)
    /\ equity' = eq
    /\ now' = ts
    /\ throttle' = ThrottleOf(trk', eq)

RecordTradeResult(lost) ==
    /\ trk.losses < MaxLosses
    /\ trk' = RecordResult(trk, lost)
    /\ UNCHANGED <<equity, now, throttle>>

Next ==
    \/ \E eq \in Equities, gap \in 0 .. MaxGap : Update(eq, now + gap)
    \/ \E lost \in BOOLEAN : RecordTradeResult(lost)

Spec == Init /\ [][Next]_vars

------------------------------------------------------------------------------
(* Safety *)

\* Once an update has been seen, a tracker that is not stopped is less than
\* the breaker threshold below its high-water mark (drawdown.py:180).
BreakerHolds ==
    trk.day # NoDay /\ trk.state # "stopped" => ~BreakerTrips(trk.peak, equity)

\* New risk is permitted (active or throttled) only while the loss of the day
\* is under the lockout (drawdown.py:193).
LockoutHolds ==
    trk.day # NoDay /\ trk.state \notin Halted => ~LockoutHit(trk, equity)

\* A stop always has its cooldown ahead of it and no other state keeps one: a
\* configured cooldown can neither be lost nor left over (drawdown.py:174,185).
StopHasCooldown ==
    IF trk.state = "stopped" /\ CooldownTicks > 0
    THEN trk.until \in (now + 1) .. (now + CooldownTicks)
    ELSE trk.until = NoUntil

\* Every firing but a pending one was followed by a resume, and two firings
\* are a full cooldown apart; with no cooldown the first is the last.
BreakerRate ==
    /\ trk.fires = trk.resumes + (IF trk.state = "stopped" THEN 1 ELSE 0)
    /\ trk.fired <=> trk.fires > 0
    /\ CooldownTicks = 0 => trk.resumes = 0
    /\ trk.resumes * CooldownTicks <= now

\* While the ladder halts trading, and whenever a daily or weekly limit is
\* reached on any rung, the snapshot's throttle sizes new trades at zero.
HaltedTakesNoRisk ==
    trk.day # NoDay /\ (trk.state \in Halted \/ AtLimit(trk, equity))
        => throttle = "zero"

\* A lock of the day is never lifted to "active" that day: only to "throttled"
\* (the loss shrank) or to "stopped" (drawdown.py:205 skips LOCKED).
LockNotForgotten ==
    [][trk.state = "locked" /\ trk'.day = trk.day => trk'.state # "active"]_vars

\* A stop is left only at or after the expiry that was set when it fired, and
\* the high-water mark then restarts from the equity of that moment.
StopServed ==
    [][trk.state = "stopped" /\ trk'.state # "stopped"
        => /\ CooldownTicks > 0 /\ now' >= trk.until
           /\ trk'.peak = equity']_vars

\* The rungs, the cooldown and the day behave as RiskLadder promises.
Ladder == INSTANCE RiskLadder WITH
            Cooldown <- CooldownTicks, DayTicks <- TicksPerDay,
            rung <- trk.state, until <- trk.until, clock <- now, day <- trk.day

ImplementsLadder == Ladder!Spec

\* Strengthening of BreakerRate: the expiry of a pending stop pays for every
\* resume so far and for the one it will bring.
StopPaid ==
    trk.state = "stopped" /\ CooldownTicks > 0
        => (trk.resumes + 1) * CooldownTicks <= trk.until

IndInv ==
    /\ TypeOK
    /\ BreakerHolds /\ LockoutHolds /\ HaltedTakesNoRisk
    /\ StopHasCooldown /\ BreakerRate /\ StopPaid

------------------------------------------------------------------------------
(* Statements of the documentation that the code does not keep *)

\* drawdown.py:162-163, "reset HWM to current equity to avoid immediate
\* re-trigger from the same drawdown": the update that ends a cooldown does not
\* open the breaker again.
ResumeDoesNotRetrigger ==
    [][trk'.resumes > trk.resumes => trk'.fires = trk.fires]_vars
==============================================================================
