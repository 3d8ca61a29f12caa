---------------------------- MODULE DrawdownProofs ----------------------------
(***************************************************************************)
(* Proofs about DrawdownTracker for every ratio, calendar and set of       *)
(* equities the assumptions allow.                                         *)
(***************************************************************************)
EXTENDS DrawdownTracker, LadderLemmas

(***************************************************************************)
(* The inductive invariant.                                                *)
(***************************************************************************)

\* A new tracker is active, unfired and has no cooldown.
LEMMA InitIndInv == Init => IndInv
<1> SUFFICES ASSUME Init PROVE IndInv
    OBVIOUS
<1>1. /\ trk \in Tracker
      /\ trk.day = NoDay /\ trk.state = "active" /\ trk.until = NoUntil
      /\ trk.fires = 0 /\ ~trk.fired /\ trk.resumes = 0
    BY EquityAssumption
    DEF Init, NewTracker, Tracker, OpStates, NoDay, NoUntil
<1>2. equity \in Equities /\ now = 0 /\ throttle = "full"
    BY EquityAssumption DEF Init
<1>3. TypeOK
    BY <1>1, <1>2 DEF TypeOK, Throttles
<1>4. StopHasCooldown /\ StopPaid
    BY <1>1 DEF StopHasCooldown, StopPaid
<1>5. BreakerRate
    <2>1. 0 * CooldownTicks <= 0
        BY CalendarAssumption
    <2> QED  BY <1>1, <1>2, <2>1 DEF BreakerRate
<1> QED  BY <1>1, <1>3, <1>4, <1>5
         DEF IndInv, BreakerHolds, LockoutHolds, HaltedTakesNoRisk

\* update() keeps the invariant, whatever the equity and the timestamp.
LEMMA UpdateIndInv ==
    ASSUME IndInv, NEW eq \in Equities, NEW ts \in Nat, Update(eq, ts)
    PROVE  IndInv'
<1>1. /\ trk \in Tracker /\ eq \in Int /\ now \in Nat /\ now <= ts
      /\ trk' = Updated(trk, eq, ts) /\ equity' = eq /\ now' = ts
      /\ throttle' = ThrottleOf(trk', eq)
    BY EquityAssumption DEF IndInv, TypeOK, Update
<1>2. /\ trk' \in Tracker
      /\ Waits(trk, eq, ts) \/ Opens(trk, eq, ts) \/ Moves(trk, eq, ts)
    BY <1>1, UpdateOutcome
<1>3. CooldownTicks \in Nat
    BY CalendarAssumption
<1>4. Waits(trk, eq, ts) =>
      /\ trk'.state = "stopped" /\ trk'.until = trk.until
      /\ trk'.fires = trk.fires /\ trk'.fired = trk.fired
      /\ trk'.resumes = trk.resumes
    <2>1. trk' \in Tracker => LET r == Rolled(trk, eq, ts) IN
            /\ r.until = trk.until /\ r.fires = trk.fires
            /\ r.fired = trk.fired /\ r.resumes = trk.resumes
            /\ (trk.state = "stopped" => r.state = "stopped")
        BY <1>1, RolledFacts
    <2> QED  BY <1>1, <1>2, <2>1 DEF Waits
<1>5. TypeOK'
    <2>1. throttle' \in Throttles
        BY <1>1 DEF ThrottleOf, Throttles
    <2> QED  BY <1>1, <1>2, <2>1 DEF TypeOK
<1>6. BreakerHolds'
    BY <1>1, <1>2, <1>4 DEF BreakerHolds, Opens, Moves
<1>7. LockoutHolds'
    BY <1>1, <1>2, <1>4 DEF LockoutHolds, Opens, Moves, Halted
<1>8. HaltedTakesNoRisk'
    BY <1>1 DEF HaltedTakesNoRisk, ThrottleOf
<1>9. /\ trk.until \in Int /\ trk.resumes \in Nat /\ trk.fires \in Nat
      /\ NoUntil = -1
    BY <1>1 DEF Tracker, NoUntil
<1>10. StopHasCooldown'
    <2>1. CASE Waits(trk, eq, ts)
        <3>1. trk.state = "stopped" /\ ~CooldownOver(trk, ts)
            BY <2>1 DEF Waits
        <3> QED  BY <1>1, <1>3, <1>4, <1>9, <2>1, <3>1
                 DEF IndInv, StopHasCooldown, CooldownOver
    <2>2. CASE Opens(trk, eq, ts)
        BY <1>1, <1>3, <1>9, <2>2
        DEF IndInv, StopHasCooldown, CooldownOver, Opens
    <2>3. CASE Moves(trk, eq, ts)
        BY <1>1, <1>3, <1>9, <2>3 DEF IndInv, StopHasCooldown, Moves
    <2> QED  BY <1>2, <2>1, <2>2, <2>3
<1>11. StopPaid' /\ BreakerRate'
    <2>1. /\ trk.resumes * CooldownTicks <= now
          /\ trk.fires = trk.resumes
                + (IF trk.state = "stopped" THEN 1 ELSE 0)
          /\ trk.fired <=> trk.fires > 0
          /\ CooldownTicks = 0 => trk.resumes = 0
        BY DEF IndInv, BreakerRate
    <2> DEFINE paid == trk.resumes * CooldownTicks
    <2>2. /\ paid \in Nat
          /\ (trk.resumes + 1) * CooldownTicks = paid + CooldownTicks
          /\ (trk.resumes + 2) * CooldownTicks
                = paid + CooldownTicks + CooldownTicks
        BY <1>3, <1>9
    <2>3. CASE Waits(trk, eq, ts)
        <3>1. StopPaid'
            BY <1>4, <2>3 DEF IndInv, StopPaid, Waits
        <3>2. trk'.resumes * CooldownTicks <= now'
            BY <1>1, <1>3, <1>4, <1>9, <2>1, <2>2, <2>3
        <3> QED  BY <1>4, <2>1, <2>3, <3>1, <3>2 DEF BreakerRate, Waits
    <2>4. CASE Opens(trk, eq, ts) /\ trk.state # "stopped"
        <3>1. /\ trk'.resumes = trk.resumes /\ trk'.fires = trk.fires + 1
              /\ trk'.fired /\ trk'.state = "stopped"
              /\ CooldownTicks > 0 => trk'.until = ts + CooldownTicks
            BY <1>1, <1>9, <2>4 DEF Opens
        <3>2. trk'.resumes * CooldownTicks <= now'
            BY <1>1, <1>3, <1>9, <2>1, <2>2, <3>1
        <3>3. CooldownTicks > 0
                => (trk'.resumes + 1) * CooldownTicks <= trk'.until
            BY <1>1, <1>3, <1>9, <2>1, <2>2, <3>1
        <3> QED  BY <1>9, <2>1, <2>4, <3>1, <3>2, <3>3
                 DEF StopPaid, BreakerRate
    <2>5. CASE Opens(trk, eq, ts) /\ trk.state = "stopped"
        <3>1. /\ CooldownTicks > 0 /\ ts >= trk.until
              /\ trk'.resumes = trk.resumes + 1 /\ trk'.fires = trk.fires + 1
              /\ trk'.fired /\ trk'.state = "stopped"
              /\ trk'.until = ts + CooldownTicks
            BY <1>1, <2>5 DEF Opens, CooldownOver
        <3>2. paid + CooldownTicks <= trk.until
            BY <2>2, <2>5, <3>1 DEF IndInv, StopPaid
        <3>3. (trk'.resumes + 1) * CooldownTicks <= trk'.until
            BY <1>1, <1>3, <1>9, <2>2, <3>1, <3>2
        <3>4. trk'.resumes * CooldownTicks <= now'
            BY <1>1, <1>3, <1>9, <2>2, <3>1, <3>2
        <3> QED  BY <1>9, <2>1, <2>5, <3>1, <3>3, <3>4
                 DEF StopPaid, BreakerRate
    <2>6. CASE Moves(trk, eq, ts) /\ trk.state # "stopped"
        <3>1. /\ trk'.resumes = trk.resumes /\ trk'.fires = trk.fires
              /\ trk'.fired = trk.fired /\ trk'.state # "stopped"
            BY <1>1, <1>9, <2>6 DEF Moves
        <3>2. trk'.resumes * CooldownTicks <= now'
            BY <1>1, <1>3, <1>9, <2>1, <2>2, <3>1
        <3> QED  BY <1>9, <2>1, <2>6, <3>1, <3>2 DEF StopPaid, BreakerRate
    <2>7. CASE Moves(trk, eq, ts) /\ trk.state = "stopped"
        <3>1. /\ CooldownTicks > 0 /\ ts >= trk.until
              /\ trk'.resumes = trk.resumes + 1 /\ trk'.fires = trk.fires
              /\ trk'.fired = trk.fired /\ trk'.state # "stopped"
            BY <1>1, <2>7 DEF Moves, CooldownOver
        <3>2. paid + CooldownTicks <= trk.until
            BY <2>2, <2>7, <3>1 DEF IndInv, StopPaid
        <3>3. trk'.resumes * CooldownTicks <= now'
            BY <1>1, <1>3, <1>9, <2>2, <3>1, <3>2
        <3> QED  BY <1>9, <2>1, <2>7, <3>1, <3>3 DEF StopPaid, BreakerRate
    <2> QED  BY <1>2, <2>3, <2>4, <2>5, <2>6, <2>7
<1> QED  BY <1>5, <1>6, <1>7, <1>8, <1>10, <1>11 DEF IndInv

\* record_trade_result() touches the loss streak alone (drawdown.py:82-86).
LEMMA RecordFacts ==
    ASSUME TypeOK, NEW lost \in BOOLEAN, RecordTradeResult(lost)
    PROVE  /\ trk' = [trk EXCEPT !.losses = trk'.losses]
           /\ trk'.losses \in Nat
           /\ UNCHANGED <<equity, now, throttle>>
BY DEF TypeOK, RecordTradeResult, RecordResult, Tracker

LEMMA RecordIndInv ==
    ASSUME IndInv, NEW lost \in BOOLEAN, RecordTradeResult(lost)
    PROVE  IndInv'
<1>1. /\ trk \in Tracker
      /\ trk' = [trk EXCEPT !.losses = trk'.losses]
      /\ trk'.losses \in Nat
      /\ UNCHANGED <<equity, now, throttle>>
    BY RecordFacts DEF IndInv, TypeOK
<1>2. /\ trk' \in Tracker
      /\ trk'.peak = trk.peak /\ trk'.dayStart = trk.dayStart
      /\ trk'.weekStart = trk.weekStart /\ trk'.day = trk.day
      /\ trk'.state = trk.state /\ trk'.until = trk.until
      /\ trk'.fired = trk.fired /\ trk'.fires = trk.fires
      /\ trk'.resumes = trk.resumes
    BY <1>1 DEF Tracker
<1>3. LockoutHit(trk', equity') = LockoutHit(trk, equity)
    BY <1>1, <1>2 DEF LockoutHit
<1>4. AtLimit(trk', equity') = AtLimit(trk, equity)
    BY <1>1, <1>2 DEF AtLimit
<1> QED  BY <1>1, <1>2, <1>3, <1>4
         DEF IndInv, TypeOK, BreakerHolds, LockoutHolds, HaltedTakesNoRisk,
             StopHasCooldown, BreakerRate, StopPaid

LEMMA StepIndInv == IndInv /\ [Next]_vars => IndInv'
<1> SUFFICES ASSUME IndInv, [Next]_vars PROVE IndInv'
    OBVIOUS
<1>1. CASE \E eq \in Equities, gap \in 0 .. MaxGap : Update(eq, now + gap)
    <2>1. PICK eq \in Equities, gap \in 0 .. MaxGap : Update(eq, now + gap)
        BY <1>1
    <2>2. now + gap \in Nat
        BY BoundAssumption DEF IndInv, TypeOK
    <2> QED  BY <2>1, <2>2, UpdateIndInv
<1>2. CASE \E lost \in BOOLEAN : RecordTradeResult(lost)
    BY <1>2, RecordIndInv
<1>3. CASE UNCHANGED vars
    BY <1>3 DEF vars, IndInv, TypeOK, BreakerHolds, LockoutHolds,
        HaltedTakesNoRisk, StopHasCooldown, BreakerRate, StopPaid
<1> QED  BY <1>1, <1>2, <1>3 DEF Next

(***************************************************************************)
(* The theorems.                                                           *)
(***************************************************************************)

\* The invariant holds in every reachable state of the tracker.
THEOREM IndInvHolds == Spec => []IndInv
<1>1. Init => IndInv
    BY InitIndInv
<1>2. IndInv /\ [Next]_vars => IndInv'
    BY StepIndInv
<1> QED  BY <1>1, <1>2, PTL DEF Spec

\* The tracker's fields, the clock and the throttle keep their types.
THEOREM TypeCorrect == Spec => []TypeOK
<1>1. IndInv => TypeOK
    BY DEF IndInv
<1> QED  BY <1>1, IndInvHolds, PTL

\* A tracker that is not stopped is within the breaker threshold of its
\* high-water mark, for every threshold.
THEOREM BreakerSafety == Spec => []BreakerHolds
<1>1. IndInv => BreakerHolds
    BY DEF IndInv
<1> QED  BY <1>1, IndInvHolds, PTL

\* New risk is permitted only while the day's loss is under the lockout.
THEOREM LockoutSafety == Spec => []LockoutHolds
<1>1. IndInv => LockoutHolds
    BY DEF IndInv
<1> QED  BY <1>1, IndInvHolds, PTL

\* A configured cooldown is neither lost nor left over.
THEOREM CooldownSafety == Spec => []StopHasCooldown
<1>1. IndInv => StopHasCooldown
    BY DEF IndInv
<1> QED  BY <1>1, IndInvHolds, PTL

\* Firings and resumes alternate and are a cooldown apart.
THEOREM RateSafety == Spec => []BreakerRate
<1>1. IndInv => BreakerRate
    BY DEF IndInv
<1> QED  BY <1>1, IndInvHolds, PTL

\* What a step of the tracker is, for the properties of steps.
LEMMA StepCases ==
    ASSUME IndInv, [Next]_vars
    PROVE  \/ \E eq \in Equities, ts \in Nat :
                /\ eq \in Int /\ now <= ts /\ now' = ts /\ equity' = eq
                /\ trk' = Updated(trk, eq, ts)
                /\ trk'.day = DayOf(ts)
                /\ \/ /\ Waits(trk, eq, ts)
                      /\ trk'.state = "stopped" /\ trk'.until = trk.until
                   \/ Opens(trk, eq, ts)
                   \/ Moves(trk, eq, ts)
           \/ /\ trk'.state = trk.state /\ trk'.until = trk.until
              /\ trk'.day = trk.day /\ now' = now
<1>1. CASE \E eq \in Equities, gap \in 0 .. MaxGap : Update(eq, now + gap)
    <2>1. PICK eq \in Equities, gap \in 0 .. MaxGap : Update(eq, now + gap)
        BY <1>1
    <2> DEFINE ts == now + gap
    <2>2. /\ ts \in Nat /\ eq \in Int /\ trk \in Tracker
          /\ now <= ts /\ now' = ts /\ equity' = eq
          /\ trk' = Updated(trk, eq, ts)
        BY <2>1, BoundAssumption, EquityAssumption DEF IndInv, TypeOK, Update
    <2> HIDE DEF ts
    <2>3. /\ trk'.day = DayOf(ts)
          /\ Waits(trk, eq, ts) \/ Opens(trk, eq, ts) \/ Moves(trk, eq, ts)
        BY <2>2, UpdateOutcome
    <2>4. Waits(trk, eq, ts)
            => trk'.state = "stopped" /\ trk'.until = trk.until
        BY <2>2, RolledFacts DEF Waits
    <2> QED  BY <2>2, <2>3, <2>4
<1>2. CASE \E lost \in BOOLEAN : RecordTradeResult(lost)
    <2>1. /\ trk \in Tracker
          /\ trk' = [trk EXCEPT !.losses = trk'.losses]
          /\ now' = now
        BY <1>2, RecordFacts DEF IndInv, TypeOK
    <2> QED  BY <2>1 DEF Tracker
<1>3. CASE UNCHANGED vars
    BY <1>3 DEF vars
<1> QED  BY <1>1, <1>2, <1>3 DEF Next

\* No step leaves a stop before its expiry, nor without restarting the
\* high-water mark.
THEOREM StopIsServed == Spec => StopServed
<1> DEFINE P == trk.state = "stopped" /\ trk'.state # "stopped"
                    => /\ CooldownTicks > 0 /\ now' >= trk.until
                       /\ trk'.peak = equity'
<1>1. IndInv /\ [Next]_vars => [P]_vars
    <2> SUFFICES ASSUME IndInv, [Next]_vars,
                        trk.state = "stopped", trk'.state # "stopped"
                 PROVE  /\ CooldownTicks > 0 /\ now' >= trk.until
                        /\ trk'.peak = equity'
        OBVIOUS
    <2>1. PICK eq \in Equities, ts \in Nat :
            /\ now' = ts /\ equity' = eq
            /\ trk' = Updated(trk, eq, ts)
            /\ Moves(trk, eq, ts)
        BY StepCases DEF Opens
    <2> QED  BY <2>1 DEF Moves, CooldownOver
<1> QED  BY <1>1, IndInvHolds, PTL DEF Spec, StopServed

\* No step lifts a lock to "active" within its day.
THEOREM LockIsNotForgotten == Spec => LockNotForgotten
<1> DEFINE P == trk.state = "locked" /\ trk'.day = trk.day
                    => trk'.state # "active"
<1>1. IndInv /\ [Next]_vars => [P]_vars
    <2> SUFFICES ASSUME IndInv, [Next]_vars,
                        trk.state = "locked", trk'.day = trk.day
                 PROVE  trk'.state # "active"
        OBVIOUS
    <2> QED  BY StepCases DEF Waits, Opens, Moves
<1> QED  BY <1>1, IndInvHolds, PTL DEF Spec, LockNotForgotten

\* The tracker implements the ladder of RiskLadder.
THEOREM TrackerImplementsLadder == Spec => ImplementsLadder
<1>1. Init => Ladder!Init
    <2> SUFFICES ASSUME Init PROVE Ladder!Init
        OBVIOUS
    <2>1. trk = NewTracker(InitialEquity) /\ now = 0
        BY DEF Init
    <2> QED  BY <2>1 DEF NewTracker, NoDay, NoUntil, Ladder!Init, Ladder!None
<1>2. IndInv /\ IndInv' /\ [Next]_vars => [Ladder!Next]_Ladder!ladder
    <2> SUFFICES ASSUME IndInv, IndInv', [Next]_vars
                 PROVE  [Ladder!Next]_Ladder!ladder
        OBVIOUS
    <2>1. CASE /\ trk'.state = trk.state /\ trk'.until = trk.until
               /\ trk'.day = trk.day /\ now' = now
        BY <2>1 DEF Ladder!ladder
    <2>2. CASE \E eq \in Equities, ts \in Nat :
                /\ now <= ts /\ now' = ts
                /\ trk' = Updated(trk, eq, ts)
                /\ trk'.day = DayOf(ts)
                /\ \/ /\ Waits(trk, eq, ts)
                      /\ trk'.state = "stopped" /\ trk'.until = trk.until
                   \/ Opens(trk, eq, ts)
                   \/ Moves(trk, eq, ts)
        <3>1. PICK eq \in Equities, ts \in Nat :
                /\ now <= ts /\ now' = ts
                /\ trk' = Updated(trk, eq, ts)
                /\ trk'.day = DayOf(ts)
                /\ \/ /\ Waits(trk, eq, ts)
                      /\ trk'.state = "stopped" /\ trk'.until = trk.until
                   \/ Opens(trk, eq, ts)
                   \/ Moves(trk, eq, ts)
            BY <2>2
        <3>2. Ladder!Advance
            BY <3>1 DEF Ladder!Advance, DayOf
        <3>3. trk.state = "stopped" => (CooldownOver(trk, ts) <=> Ladder!Due)
            BY <3>1 DEF CooldownOver, Ladder!Due, NoUntil, Ladder!None
        <3>4. trk.state # "stopped" \/ CooldownTicks = 0 => trk.until = NoUntil
            BY CalendarAssumption DEF IndInv, StopHasCooldown
        <3>5. CASE Waits(trk, eq, ts)
            <4>1. Ladder!Wait
                BY <3>1, <3>2, <3>3, <3>5, StepCases
                DEF Waits, Opens, Moves, Ladder!Wait
            <4> QED  BY <4>1 DEF Ladder!Next
        <3>6. CASE Opens(trk, eq, ts)
            <4>1. Ladder!Stop
                BY <3>1, <3>2, <3>3, <3>4, <3>6, CalendarAssumption
                DEF Opens, Ladder!Stop, NoUntil, Ladder!None
            <4> QED  BY <4>1 DEF Ladder!Next
        <3>7. CASE Moves(trk, eq, ts)
            <4>1. trk'.until = NoUntil
                BY <3>1, <3>4, <3>7 DEF Moves
            <4>2. Ladder!Move
                BY <3>1, <3>2, <3>3, <3>7, <4>1
                DEF Moves, Ladder!Move, Ladder!Trading, OpStates,
                    NoUntil, Ladder!None
            <4> QED  BY <4>2 DEF Ladder!Next
        <3> QED  BY <3>1, <3>5, <3>6, <3>7
    <2> QED  BY <2>1, <2>2, StepCases
<1> QED  BY <1>1, <1>2, IndInvHolds, PTL DEF Spec, ImplementsLadder, Ladder!Spec
===============================================================================
