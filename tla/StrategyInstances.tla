-------------------------- MODULE StrategyInstances --------------------------
(***************************************************************************)
(* The state machines of the three intraday strategies, alpha/intraday/:   *)
(* one instance per liquidity level (or side of an opening range), moved   *)
(* by one bar at a time.  What prices do is abstracted to the set of       *)
(* instances a bar may make of one; bars are numbered, and each stage that *)
(* does not wait forever counts its bars from one the instance remembers.  *)
(*                                                                         *)
(* A terminal instance is taken out of the tracker before process_bar      *)
(* returns, so a level without an instance is one whose instance is Idle.  *)
(***************************************************************************)
EXTENDS Integers

CONSTANTS
    Window,    \* of each family, the stages that time out and their bars
    Closes     \* closes beyond a level that are an acceptance

Families == {"sweep_reversal", "acceptance", "opening_range"}

Stages == {"idle", "level_available", "level_breached", "reclaim_confirmed",
           "mss_confirmed", "displacement_confirmed", "acceptance_confirmed",
           "range_complete", "breakout_confirmed", "order_pending"}

(* The stages of each family that time out.                                 *)
Timed == [
    sweep_reversal |-> {"level_breached", "reclaim_confirmed", "mss_confirmed",
                        "displacement_confirmed", "order_pending"},
    acceptance     |-> {"level_breached", "acceptance_confirmed", "order_pending"},
    opening_range  |-> {"breakout_confirmed", "order_pending"}]

ASSUME WindowAssumption ==
    /\ DOMAIN Window = Families
    /\ \A f \in Families : Window[f] \in [Timed[f] -> Nat \ {0}]
    /\ Closes \in Nat \ {0}

\* created: the bar time it was registered at; at: the bar its stage's window
\* is counted from (in order_pending the bar of the gap); sweep: the bar that
\* broke the level; after: gaps count from the bar after this one.
Instance == [stage : Stages, created : Nat, at : Nat, sweep : Nat, after : Nat]

Idle == [stage |-> "idle", created |-> 0, at |-> 0, sweep |-> 0, after |-> 0]

Registered(stage, time) == [Idle EXCEPT !.stage = stage, !.created = time]

Enter(i, stage, bar)  == [i EXCEPT !.stage = stage, !.at = bar]
Broken(i, stage, bar) == [Enter(i, stage, bar) EXCEPT !.sweep = bar, !.after = bar]

Overdue(family, i, bar) ==
    /\ i.stage \in DOMAIN Window[family]
    /\ bar - i.at > Window[family][i.stage]

(* find_qualifying_fvg takes the first gap after a bar; a gap is known one  *)
(* bar after its middle candle.                                             *)
OrderMoves(i, bar) == {Enter(i, "order_pending", g) : g \in i.after + 1 .. bar - 1}

SweepMoves(i, bar) ==
    CASE i.stage = "level_available" -> {i, Broken(i, "level_breached", bar)}
      [] i.stage = "level_breached"  -> {i, Enter(i, "reclaim_confirmed", bar)}
      [] i.stage = "reclaim_confirmed" ->
            {i, [Enter(i, "mss_confirmed", bar) EXCEPT !.after = bar]}
      [] i.stage = "mss_confirmed" ->
            {i, Idle, Enter(i, "displacement_confirmed", bar)} \cup OrderMoves(i, bar)
      [] i.stage = "displacement_confirmed" -> {i} \cup OrderMoves(i, bar)
      [] OTHER -> {i}

AcceptanceMoves(i, bar) ==
    CASE i.stage = "level_available" -> {i, Broken(i, "level_breached", bar)}
      [] i.stage = "level_breached" /\ bar >= i.sweep + Closes - 1 ->
            {i, Enter(i, "acceptance_confirmed", bar)}
      [] i.stage = "acceptance_confirmed" -> {i, Idle} \cup OrderMoves(i, bar)
      [] OTHER -> {i}

(* The two instances of a range see one close: it breaks their own side,    *)
(* the other side or none.                                                  *)
OpeningMoves(i, side, broken, bar) ==
    CASE i.stage = "range_complete" /\ broken = side ->
            {i, Broken(i, "breakout_confirmed", bar)}
      [] i.stage = "range_complete" /\ broken \notin {side, "none"} -> {Idle}
      [] i.stage = "breakout_confirmed" -> {i} \cup OrderMoves(i, bar)
      [] OTHER -> {i}

(* One bar of _advance_active: what instance i of a level may become.       *)
(* pastCutoff is asked by the opening range only, before anything else.     *)
Advances(family, i, level, broken, pastCutoff, bar) ==
    IF \/ Overdue(family, i, bar)
       \/ family = "opening_range" /\ pastCutoff
    THEN {Idle}
    ELSE CASE family = "sweep_reversal" -> SweepMoves(i, bar)
           [] family = "acceptance"     -> AcceptanceMoves(i, bar)
           [] family = "opening_range"  -> OpeningMoves(i, level, broken, bar)
==============================================================================
