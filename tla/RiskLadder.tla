------------------------------ MODULE RiskLadder ------------------------------
(***************************************************************************)
(* What the operational state of the risk layer promises to its clients,   *)
(* with no mention of equity or drawdown: which rung may follow which, and *)
(* when.  A stop is left only when its cooldown is over, a lock is lifted  *)
(* to "active" only by a new day, and a clock never runs backwards.        *)
(***************************************************************************)
EXTENDS Integers

CONSTANTS Cooldown,      \* ticks a stop lasts, 0 for good
          DayTicks       \* ticks in a day

VARIABLES rung, until, clock, day
ladder == <<rung, until, clock, day>>

None    == -1
Trading == {"active", "throttled"}

Init == rung = "active" /\ until = None /\ clock = 0 /\ day = None

\* The cooldown is over at the new time.
Due == Cooldown > 0 /\ until # None /\ clock' >= until

\* The clock never runs backwards and the day is the one it shows.
Advance == clock' \in Nat /\ clock' >= clock /\ day' = clock' \div DayTicks

\* The breaker opens; it can open again only once the last cooldown is over.
Stop ==
    /\ Advance
    /\ rung = "stopped" => Due
    /\ rung' = "stopped"
    /\ until' = IF Cooldown > 0 THEN clock' + Cooldown ELSE None

Wait ==
    /\ Advance
    /\ rung = "stopped" /\ ~Due
    /\ UNCHANGED <<rung, until>>

\* Drawdown is measured: the rung moves, except that a lock of this day is
\* never lifted straight to "active", nor a pending stop to anything.
Move ==
    /\ Advance
    /\ rung = "stopped" => Due
    /\ rung' \in Trading \cup {"locked"}
    /\ (rung = "locked" /\ day' = day) => rung' # "active"
    /\ until' = None

Next == Stop \/ Wait \/ Move

Spec == Init /\ [][Next]_ladder
===============================================================================
