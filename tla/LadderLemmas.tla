---------------------------- MODULE LadderLemmas ----------------------------
(***************************************************************************)
(* Lemmas about the operators of DrawdownOps: what update() does to a      *)
(* tracker, for any ratios and any calendar.  The proofs about the tracker *)
(* alone and about the runner rest on them.                                *)
(***************************************************************************)
EXTENDS DrawdownOps, TLAPS

(***************************************************************************)
(* update() first rolls the day, the week and the peak.                    *)
(***************************************************************************)

\* A timestamp of the model has an integer day and week.
LEMMA CalendarType ==
    ASSUME NEW ts \in Nat
    PROVE  DayOf(ts) \in Nat /\ WeekOf(ts) \in Nat
BY CalendarAssumption DEF DayOf, WeekOf

\* Rolling keeps a tracker a tracker, sets the day, and touches neither the
\* breaker nor any rung but a lock, which a new day lifts (drawdown.py:93-107).
LEMMA RolledFacts ==
    ASSUME NEW t \in Tracker, NEW eq \in Int, NEW ts \in Nat
    PROVE  LET r == Rolled(t, eq, ts)
           IN  /\ r \in Tracker
               /\ r.day = DayOf(ts)
               /\ r.until = t.until
               /\ r.fires = t.fires
               /\ r.fired = t.fired
               /\ r.resumes = t.resumes
               /\ \/ r.state = t.state /\ ~(t.state = "locked" /\ t.day # DayOf(ts))
                  \/ t.state = "locked" /\ t.day # DayOf(ts) /\ r.state = "active"
<1>1. DayOf(ts) \in Int /\ WeekOf(ts) \in Int
    BY CalendarType
<1> DEFINE d == RollDay(t, eq, ts)
           w == RollWeek(d, eq, ts)
           r == RollPeak(w, eq)
<1>2. /\ d \in Tracker
      /\ d.day = DayOf(ts)
      /\ d.until = t.until
      /\ d.fires = t.fires
      /\ d.fired = t.fired
      /\ d.resumes = t.resumes
      /\ \/ d.state = t.state /\ ~(t.state = "locked" /\ t.day # DayOf(ts))
         \/ t.state = "locked" /\ t.day # DayOf(ts) /\ d.state = "active"
    BY <1>1 DEF RollDay, Transition, Tracker, OpStates
<1>3. /\ w \in Tracker
      /\ w = [d EXCEPT !.weekStart = w.weekStart, !.week = w.week]
    <2> HIDE DEF d
    <2> QED  BY <1>1, <1>2 DEF RollWeek, Tracker
<1>4. /\ r \in Tracker
      /\ r = [w EXCEPT !.peak = r.peak]
    <2> HIDE DEF w
    <2> QED  BY <1>3 DEF RollPeak, Tracker
<1>5. /\ r.day = d.day
      /\ r.until = d.until
      /\ r.fires = d.fires
      /\ r.fired = d.fired
      /\ r.resumes = d.resumes
      /\ r.state = d.state
    <2> HIDE DEF d, w, r
    <2> QED  BY <1>2, <1>3, <1>4 DEF Tracker
<1> QED
    <2>1. Rolled(t, eq, ts) = r
        BY DEF Rolled
    <2> HIDE DEF d, w, r
    <2> QED  BY <2>1, <1>2, <1>4, <1>5

(***************************************************************************)
(* The three outcomes of an update: a stop waits out its cooldown, the     *)
(* breaker opens, or the rung moves.                                       *)
(***************************************************************************)
Waits(t, eq, ts) ==
    /\ t.state = "stopped" /\ ~CooldownOver(t, ts)
    /\ Updated(t, eq, ts) = Rolled(t, eq, ts)

Opens(t, eq, ts) ==
    LET u == Updated(t, eq, ts)
    IN  /\ t.state = "stopped" => CooldownOver(t, ts)
        /\ u.state = "stopped"
        /\ u.fired /\ u.fires = t.fires + 1
        /\ u.resumes = t.resumes + (IF t.state = "stopped" THEN 1 ELSE 0)
        /\ u.until = IF CooldownTicks > 0 THEN ts + CooldownTicks
                     ELSE t.until

Moves(t, eq, ts) ==
    LET u == Updated(t, eq, ts)
    IN  /\ t.state = "stopped" => CooldownOver(t, ts) /\ u.peak = eq
        /\ ~BreakerTrips(u.peak, eq)
        /\ u.state \in OpStates \ {"stopped"}
        /\ u.state \notin Halted => ~LockoutHit(u, eq)
        /\ (t.state = "locked" /\ t.day = DayOf(ts)) => u.state # "active"
        /\ u.fired = t.fired /\ u.fires = t.fires
        /\ u.resumes = t.resumes + (IF t.state = "stopped" THEN 1 ELSE 0)
        /\ u.until = IF t.state = "stopped" THEN NoUntil ELSE t.until

\* An account at its own high-water mark is not in drawdown.
LEMMA NoLossNoTrip ==
    ASSUME NEW eq \in Int
    PROVE  ~BreakerTrips(eq, eq)
<1>1. CASE eq > 0 /\ BreakerThreshold > 0
    <2>1. BreakerThreshold * eq > 0
        BY <1>1, RatioAssumption
    <2>2. Loss(eq, eq) * Scale = 0
        BY RatioAssumption DEF Loss
    <2> QED  BY <1>1, <2>1, <2>2, RatioAssumption
             DEF BreakerTrips, DrawdownAtLeast
<1>2. CASE ~(eq > 0 /\ BreakerThreshold > 0)
    BY <1>2, RatioAssumption DEF BreakerTrips, DrawdownAtLeast
<1> QED  BY <1>1, <1>2

\* The next rung is never "stopped", permits risk only under the lockout, and
\* keeps a lock from turning "active".
LEMMA NextRungFacts ==
    ASSUME NEW t, NEW eq
    PROVE  /\ NextRung(t, eq) \in OpStates \ {"stopped"}
           /\ NextRung(t, eq) \notin Halted => ~LockoutHit(t, eq)
           /\ t.state = "locked" => NextRung(t, eq) # "active"
BY DEF NextRung, OpStates, Halted

\* update() always ends in one of the three outcomes, with a well-formed
\* tracker whose day is that of the timestamp (drawdown.py:88-209).
LEMMA UpdateOutcome ==
    ASSUME NEW t \in Tracker, NEW eq \in Int, NEW ts \in Nat
    PROVE  /\ Updated(t, eq, ts) \in Tracker
           /\ Updated(t, eq, ts).day = DayOf(ts)
           /\ Waits(t, eq, ts) \/ Opens(t, eq, ts) \/ Moves(t, eq, ts)
<1> DEFINE r == Rolled(t, eq, ts)
           s == Resume(r, eq, ts)
           u == Updated(t, eq, ts)
<1>1. /\ r \in Tracker
      /\ r.day = DayOf(ts)
      /\ r.until = t.until
      /\ r.fires = t.fires
      /\ r.fired = t.fired
      /\ r.resumes = t.resumes
      /\ \/ r.state = t.state /\ ~(t.state = "locked" /\ t.day # DayOf(ts))
         \/ t.state = "locked" /\ t.day # DayOf(ts) /\ r.state = "active"
    BY RolledFacts
<1>2. u = Climb(s, r.peak, eq, ts)
    BY DEF Updated
<1>3. CooldownOver(r, ts) <=> CooldownOver(t, ts)
    <2> HIDE DEF r
    <2> QED  BY <1>1 DEF CooldownOver
<1>4. /\ s \in Tracker
      /\ s.day = DayOf(ts)
      /\ s.fires = t.fires
      /\ s.fired = t.fired
      /\ IF CooldownOver(t, ts)
         THEN /\ s.state = "active" /\ s.until = NoUntil /\ s.peak = eq
              /\ s.resumes = t.resumes + 1
         ELSE s = r
    <2> HIDE DEF r
    <2>1. CASE CooldownOver(t, ts)
        <3>1. s = [[r EXCEPT !.state = "active"] EXCEPT
                      !.peak = eq, !.until = NoUntil, !.resumes = r.resumes + 1]
            BY <1>1, <1>3, <2>1 DEF Resume, Transition, Tracker
        <3> HIDE DEF s
        <3>2. /\ s.state = "active" /\ s.until = NoUntil /\ s.peak = eq
              /\ s.resumes = r.resumes + 1
            BY <1>1, <3>1 DEF Tracker
        <3>3. s.day = r.day /\ s.fires = r.fires /\ s.fired = r.fired
            BY <1>1, <3>1 DEF Tracker
        <3>4. s \in Tracker
            <4> DEFINE a == [r EXCEPT !.state = "active"]
                       b == [a EXCEPT !.peak = eq]
                       c == [b EXCEPT !.until = NoUntil]
            <4>1. a \in Tracker
                BY <1>1 DEF Tracker, OpStates
            <4>2. b \in Tracker
                <5> HIDE DEF a
                <5> QED  BY <4>1 DEF Tracker
            <4>3. c \in Tracker
                <5> HIDE DEF b
                <5> QED  BY <4>2 DEF Tracker, NoUntil
            <4>4. s = [c EXCEPT !.resumes = r.resumes + 1]
                BY <3>1
            <4>5. r.resumes + 1 \in Nat
                BY <1>1 DEF Tracker
            <4> HIDE DEF c
            <4> QED  BY <4>3, <4>4, <4>5 DEF Tracker
        <3> QED  BY <1>1, <2>1, <3>2, <3>3, <3>4
    <2>2. CASE ~CooldownOver(t, ts)
        BY <1>1, <1>3, <2>2 DEF Resume
    <2> QED  BY <2>1, <2>2
<1>5. CooldownOver(t, ts) => t.state = "stopped"
    BY DEF CooldownOver
<1> HIDE DEF r, s, u
<1>6. CASE s.state = "stopped"
    <2>1. ~CooldownOver(t, ts) /\ s = r
        BY <1>4, <1>6
    <2>2. t.state = "stopped"
        BY <1>1, <1>6, <2>1
    <2>3. u = r
        BY <1>2, <1>6, <2>1 DEF Climb
    <2> QED  BY <1>1, <2>1, <2>2, <2>3 DEF Waits, r, u
<1>7. CASE s.state # "stopped" /\ BreakerTrips(r.peak, eq)
    <2>1. u = FireBreaker(s, ts)
        BY <1>2, <1>7 DEF Climb
    <2>2. /\ u \in Tracker
          /\ u.day = s.day
          /\ u.state = "stopped"
          /\ u.fired /\ u.fires = s.fires + 1
          /\ u.resumes = s.resumes
          /\ u.until = IF CooldownTicks > 0 THEN ts + CooldownTicks ELSE s.until
        <3>1. u = [[s EXCEPT !.state = "stopped"] EXCEPT
                      !.fired = TRUE, !.fires = s.fires + 1,
                      !.until = IF CooldownTicks > 0
                                THEN ts + CooldownTicks ELSE s.until]
            BY <1>4, <2>1 DEF FireBreaker, Transition, Tracker
        <3> HIDE DEF u
        <3>2. u \in Tracker
            <4> DEFINE v == IF CooldownTicks > 0
                            THEN ts + CooldownTicks ELSE s.until
                       a == [s EXCEPT !.state = "stopped"]
                       b == [a EXCEPT !.fired = TRUE]
                       c == [b EXCEPT !.fires = s.fires + 1]
            <4>1. v \in Int /\ s.fires + 1 \in Nat
                BY <1>4, CalendarAssumption DEF Tracker
            <4>2. a \in Tracker
                BY <1>4 DEF Tracker, OpStates
            <4>3. b \in Tracker
                <5> HIDE DEF a
                <5> QED  BY <4>2 DEF Tracker
            <4>4. c \in Tracker
                <5> HIDE DEF b
                <5> QED  BY <4>1, <4>3 DEF Tracker
            <4>5. u = [c EXCEPT !.until = v]
                BY <3>1
            <4> HIDE DEF c, v
            <4> QED  BY <4>1, <4>4, <4>5 DEF Tracker
        <3>3. u.day = s.day /\ u.state = "stopped" /\ u.resumes = s.resumes
            BY <1>4, <3>1 DEF Tracker
        <3>4. u.fired /\ u.fires = s.fires + 1
            BY <1>4, <3>1 DEF Tracker
        <3>5. u.until = IF CooldownTicks > 0 THEN ts + CooldownTicks ELSE s.until
            BY <1>4, <3>1 DEF Tracker
        <3> QED  BY <3>2, <3>3, <3>4, <3>5
    <2>3. t.state = "stopped" => CooldownOver(t, ts)
        BY <1>1, <1>4, <1>7
    <2>4. CooldownOver(t, ts) => CooldownTicks > 0
        BY DEF CooldownOver
    <2>5. Opens(t, eq, ts)
        BY <1>1, <1>4, <1>5, <2>2, <2>3, <2>4 DEF Opens, u, Tracker
    <2> QED  BY <1>4, <2>2, <2>5 DEF u
<1>8. CASE s.state # "stopped" /\ ~BreakerTrips(r.peak, eq)
    <2>1. u = Transition(s, NextRung(s, eq))
        BY <1>2, <1>8 DEF Climb
    <2>2. /\ NextRung(s, eq) \in OpStates \ {"stopped"}
          /\ NextRung(s, eq) \notin Halted => ~LockoutHit(s, eq)
          /\ s.state = "locked" => NextRung(s, eq) # "active"
        BY NextRungFacts
    <2>3. /\ u \in Tracker
          /\ u.state = NextRung(s, eq)
          /\ u = [s EXCEPT !.state = u.state]
        <3> DEFINE n == NextRung(s, eq)
        <3>1. n \in OpStates
            BY <2>2
        <3> HIDE DEF n
        <3> QED  BY <1>4, <2>1, <3>1 DEF Transition, Tracker, n
    <2>4. /\ u.day = s.day /\ u.dayStart = s.dayStart /\ u.peak = s.peak
          /\ u.fired = s.fired /\ u.fires = s.fires
          /\ u.resumes = s.resumes /\ u.until = s.until
        BY <1>4, <2>3 DEF Tracker
    <2>5. LockoutHit(u, eq) <=> LockoutHit(s, eq)
        BY <2>4 DEF LockoutHit
    <2>6. t.state = "stopped" => CooldownOver(t, ts)
        BY <1>1, <1>4, <1>8
    <2>7. ~BreakerTrips(u.peak, eq)
        BY <1>4, <1>8, <2>4, NoLossNoTrip
    <2>8. (t.state = "locked" /\ t.day = DayOf(ts)) => s.state = "locked"
        BY <1>1, <1>4, <1>5
    <2>9. Moves(t, eq, ts)
        BY <1>1, <1>4, <1>5, <2>2, <2>3, <2>4, <2>5, <2>6, <2>7, <2>8
        DEF Moves, u, Tracker
    <2> QED  BY <1>4, <2>3, <2>4, <2>9 DEF u
<1> QED  BY <1>6, <1>7, <1>8

(***************************************************************************)
(* What an order may rely on: the equity was positive, above the lockout   *)
(* and the breaker, and the peak has seen it.                              *)
(***************************************************************************)
Sound(t, eq) ==
    /\ eq > 0 /\ t.state \notin Halted
    /\ ~LockoutHit(t, eq) /\ ~BreakerTrips(t.peak, eq)
    /\ eq <= t.peak

\* Rolling raises the peak to the equity, and starts the day at it or not at all.
LEMMA RolledReferences ==
    ASSUME NEW t \in Tracker, NEW eq \in Int, NEW ts \in Nat
    PROVE  LET r == Rolled(t, eq, ts)
           IN  /\ eq <= r.peak
               /\ r.peak = t.peak \/ t.peak < eq
               /\ r.dayStart \in {t.dayStart, eq}
<1> DEFINE d == RollDay(t, eq, ts)
           w == RollWeek(d, eq, ts)
<1>1. DayOf(ts) \in Int /\ WeekOf(ts) \in Int
    BY CalendarType
<1>2. d \in Tracker /\ d.peak = t.peak /\ d.dayStart \in {t.dayStart, eq}
    BY <1>1 DEF RollDay, Transition, Tracker, OpStates
<1> HIDE DEF d
<1>3. w \in Tracker /\ w.peak = d.peak /\ w.dayStart = d.dayStart
    BY <1>1, <1>2 DEF RollWeek, Tracker
<1> HIDE DEF w
<1>4. /\ eq <= RollPeak(w, eq).peak
      /\ RollPeak(w, eq).peak = w.peak \/ w.peak < eq
      /\ RollPeak(w, eq).dayStart = w.dayStart
    BY <1>3 DEF RollPeak, Tracker
<1> QED  BY <1>2, <1>3, <1>4 DEF Rolled, d, w

\* The loss streak is the results' alone: no update touches it.
LEMMA UpdateKeepsLosses ==
    ASSUME NEW t \in Tracker, NEW eq \in Int, NEW ts \in Nat
    PROVE  Updated(t, eq, ts).losses = t.losses
<1> DEFINE d == RollDay(t, eq, ts)
           w == RollWeek(d, eq, ts)
           r == Rolled(t, eq, ts)
           s == Resume(r, eq, ts)
<1>1. DayOf(ts) \in Int /\ WeekOf(ts) \in Int
    BY CalendarType
<1>2. d \in Tracker /\ d.losses = t.losses
    BY <1>1 DEF RollDay, Transition, Tracker, OpStates
<1> HIDE DEF d
<1>3. w \in Tracker /\ w.losses = d.losses
    BY <1>1, <1>2 DEF RollWeek, Tracker
<1> HIDE DEF w
<1>4. r = RollPeak(w, eq)
    BY DEF Rolled, d, w
<1> HIDE DEF r
<1>5. r \in Tracker /\ r.losses = w.losses
    BY <1>3, <1>4 DEF RollPeak, Tracker
<1>6. s \in Tracker /\ s.losses = r.losses
    <2> DEFINE a == [r EXCEPT !.state = "active"]
               b == [a EXCEPT !.peak = eq]
               c == [b EXCEPT !.until = NoUntil]
    <2>1. a \in Tracker /\ a.losses = r.losses /\ a.resumes = r.resumes
        BY <1>5 DEF Tracker, OpStates
    <2>2. b \in Tracker /\ b.losses = r.losses /\ b.resumes = r.resumes
        <3> HIDE DEF a
        <3> QED  BY <2>1 DEF Tracker
    <2>3. c \in Tracker /\ c.losses = r.losses /\ c.resumes = r.resumes
        <3> HIDE DEF b
        <3> QED  BY <2>2 DEF Tracker, NoUntil
    <2>4. s = IF CooldownOver(r, ts) THEN [c EXCEPT !.resumes = r.resumes + 1] ELSE r
        BY <1>5 DEF Resume, Transition, Tracker
    <2>5. r.resumes + 1 \in Nat
        BY <1>5 DEF Tracker
    <2> HIDE DEF c, s
    <2> QED  BY <1>5, <2>3, <2>4, <2>5 DEF Tracker
<1> HIDE DEF s
<1>7. Climb(s, r.peak, eq, ts).losses = s.losses
    BY <1>6 DEF Climb, FireBreaker, Transition, Tracker
<1> QED  BY <1>2, <1>3, <1>5, <1>6, <1>7 DEF Updated, r, s

\* A stop lasts until its cooldown is over.
LEMMA StopStays ==
    ASSUME NEW t \in Tracker, NEW eq \in Int, NEW ts \in Nat,
           t.state = "stopped", CooldownTicks = 0 \/ ts < t.until
    PROVE  Updated(t, eq, ts).state = "stopped" /\ Updated(t, eq, ts).until = t.until
<1>1. ~CooldownOver(t, ts)
    BY CalendarAssumption DEF CooldownOver, Tracker
<1>2. Waits(t, eq, ts)
    BY <1>1, UpdateOutcome DEF Opens, Moves
<1>3. Rolled(t, eq, ts).until = t.until /\ Rolled(t, eq, ts).state = "stopped"
    BY RolledFacts
<1> QED  BY <1>2, <1>3 DEF Waits

\* A tracker that is not halted is climbed from where it rolled to.
LEMMA UnhaltedUpdate ==
    ASSUME NEW t \in Tracker, NEW eq \in Int, NEW ts \in Nat, t.state \notin Halted
    PROVE  LET r == Rolled(t, eq, ts)
               u == Updated(t, eq, ts)
           IN  /\ r \in Tracker
               /\ BreakerTrips(r.peak, eq) => u.state = "stopped"
               /\ ~BreakerTrips(r.peak, eq) =>
                     u.state = NextRung(r, eq) /\ u.peak = r.peak /\ u.dayStart = r.dayStart
               /\ r.state \notin Halted
<1> DEFINE r == Rolled(t, eq, ts)
<1>1. r \in Tracker /\ r.state \notin Halted
    BY RolledFacts DEF Halted
<1> HIDE DEF r
<1>2. Resume(r, eq, ts) = r
    BY <1>1 DEF Resume, CooldownOver, Halted
<1>3. Updated(t, eq, ts) = Climb(r, r.peak, eq, ts)
    BY <1>2 DEF Updated, r
<1>4. r.state # "stopped"
    BY <1>1 DEF Halted
<1>5. BreakerTrips(r.peak, eq) => Climb(r, r.peak, eq, ts).state = "stopped"
    BY <1>1, <1>4 DEF Climb, FireBreaker, Transition, Tracker
<1>6. ~BreakerTrips(r.peak, eq) => Climb(r, r.peak, eq, ts) = [r EXCEPT !.state = NextRung(r, eq)]
    BY <1>4 DEF Climb, Transition
<1>7. LET u == [r EXCEPT !.state = NextRung(r, eq)]
      IN  u.state = NextRung(r, eq) /\ u.peak = r.peak /\ u.dayStart = r.dayStart
    BY <1>1 DEF Tracker
<1> QED  BY <1>1, <1>3, <1>5, <1>6, <1>7 DEF r

\* An update of a tracker that was not halted, and is not, leaves it sound.
LEMMA UpdateSound ==
    ASSUME NEW t \in Tracker, NEW eq \in Int, NEW ts \in Nat, eq > 0,
           t.state \notin Halted, Updated(t, eq, ts).state \notin Halted
    PROVE  Sound(Updated(t, eq, ts), eq)
<1> DEFINE r == Rolled(t, eq, ts)
           u == Updated(t, eq, ts)
<1>1. /\ ~BreakerTrips(r.peak, eq)
      /\ u.state = NextRung(r, eq) /\ u.peak = r.peak /\ u.dayStart = r.dayStart
    BY UnhaltedUpdate DEF Halted
<1>2. eq <= r.peak
    BY RolledReferences
<1> HIDE DEF r, u
<1>3. u.state \notin Halted
    BY DEF u
<1>4. ~LockoutHit(r, eq)
    BY <1>1, <1>3, NextRungFacts
<1> QED  BY <1>1, <1>2, <1>3, <1>4 DEF Sound, LockoutHit, u

\* At the equity it is sound at, a tracker stays sound whatever day comes.
LEMMA SoundUpdate ==
    ASSUME NEW t \in Tracker, NEW eq \in Int, NEW ts \in Nat, Sound(t, eq)
    PROVE  Sound(Updated(t, eq, ts), eq)
<1> DEFINE r == Rolled(t, eq, ts)
           u == Updated(t, eq, ts)
<1>1. r.peak = t.peak /\ eq <= r.peak /\ r.dayStart \in {t.dayStart, eq} /\ t.peak \in Int
    BY RolledReferences DEF Sound, Tracker
<1>2. ~BreakerTrips(r.peak, eq)
    BY <1>1 DEF Sound
<1>3. u.state = NextRung(r, eq) /\ u.peak = r.peak /\ u.dayStart = r.dayStart /\ r.state \notin Halted
    BY <1>2, UnhaltedUpdate DEF Sound
<1> HIDE DEF r, u
<1>4. ~LockoutHit(r, eq)
    <2>1. DailyLockout # 0 /\ DailyLockout \in Nat /\ Scale \in Nat \ {0}
        BY RatioAssumption DEF Sound, LockoutHit, DrawdownAtLeast, Loss, Tracker
    <2>2. CASE r.dayStart = t.dayStart
        BY <2>2 DEF Sound, LockoutHit
    <2>3. CASE r.dayStart = eq
        <3>1. eq > 0 /\ Loss(eq, eq) = 0
            BY DEF Sound, Loss
        <3>2. DailyLockout * eq > 0
            BY <2>1, <3>1
        <3>3. ~DrawdownAtLeast(eq, eq, DailyLockout, Scale)
            BY <2>1, <3>1, <3>2 DEF DrawdownAtLeast
        <3> QED  BY <2>3, <3>3 DEF LockoutHit
    <2> QED  BY <1>1, <2>2, <2>3
<1>5. NextRung(r, eq) \notin Halted
    BY <1>3, <1>4 DEF NextRung, Halted
<1> QED  BY <1>1, <1>2, <1>3, <1>4, <1>5 DEF Sound, LockoutHit, u
==============================================================================
