--------------------------- MODULE IntradayEngine ----------------------------
(***************************************************************************)
(* The bar loop of the intraday back test, backtesting/intraday_engine.py, *)
(* with the runtimes of alpha/intraday/factory.py and the lifecycle policy *)
(* of research/strategy_alpha_execution.py: what one bar does to pending   *)
(* orders, open positions, the funnel counters and the strategy instances, *)
(* in the order of the loop, for one pair (pairs share nothing but lists). *)
(*                                                                         *)
(* Time is counted in bars of five minutes from a midnight; data may lack  *)
(* bars, so the next bar may start later than this one ends.  A phase is a *)
(* method of the engine that the loop always calls next.                   *)
(***************************************************************************)
EXTENDS StrategyInstances, Sequences, FiniteSets

CONSTANTS
    Lists,         \* the families of the runtimes registered, in their order
    Session,       \* of each runtime
    Levels,        \* liquidity levels of the structure snapshots
    Opens, Closing,\* of each session, the tick of the day it starts and ends
    RangeEnd,      \* of each session, the tick its opening range is complete
    DayTicks,      \* ticks in a day
    Roll,          \* the tick of the day the FX day ends, 17:00 New York
    WeekDays, Friday,  \* days in a week, and the day its FX week closes
    MinWarmup, Warmup, \* warmup_bars of the default and the amended policy
    Policies,      \* the policies tried
    Starts, LastTick, MaxGap, MaxOrders
                   \* bounds: first and last bar, gaps between bars, orders

Sessions == DOMAIN Opens

(* The two policies in use: no rules of its own, and the amended protocol.  *)
DefaultPolicy == [timeExits |-> FALSE, single |-> FALSE, swap |-> TRUE,
                  inSession |-> FALSE, warmup |-> MinWarmup]
AmendedPolicy == [timeExits |-> TRUE, single |-> TRUE, swap |-> FALSE,
                  inSession |-> TRUE, warmup |-> Warmup]

ASSUME EngineAssumption ==
    /\ DayTicks \in Nat \ {0} /\ WeekDays \in Nat \ {0}
    /\ IsFiniteSet(Levels) /\ Lists \subseteq Seq(Families)
    /\ \A L \in Lists : \A r \in DOMAIN L : r \in DOMAIN Session /\ Session[r] \in Sessions
    /\ \A s \in Sessions : /\ Opens[s] \in Nat /\ Closing[s] \in Nat /\ RangeEnd[s] \in Nat
                           /\ Opens[s] < Closing[s] /\ Closing[s] < Roll
    /\ Roll \in 1 .. DayTicks - 1
    /\ Friday \in 0 .. WeekDays - 1 /\ Warmup \in Nat /\ MinWarmup \in Nat /\ MaxGap \in Nat \ {0}
    /\ LastTick \in Nat /\ MaxOrders \in Nat /\ Starts \subseteq 0 .. LastTick
    /\ Policies \subseteq {DefaultPolicy, AmendedPolicy}

NoBar == -1        \* there is no such bar

VARIABLES
    policy, family,\* policy and runtimes' families, fixed for a run
    bar, now,      \* index and start of this bar
    prev, upcoming,\* start of the bar before (_prev_bar_times) and of the next
    phase, turn,   \* the method that runs next, and the runtime whose turn it is
    orders,        \* portfolio: pending orders
    touched,       \* orders process_pending_orders marked filled, not handled yet
    positions,     \* portfolio: open positions
    inst,          \* of each runtime and level, its active instance
    range, day,    \* of each runtime: its range of the day, the day it is in
    swept,         \* levels the snapshots show as swept
    funnel         \* EventFunnel of each runtime

market  == <<bar, now, prev, upcoming>>
machine == <<inst, range, day, swept>>
setup   == <<policy, family>>
vars == <<setup, market, phase, turn, orders, touched, positions, machine, funnel>>

Runtimes    == DOMAIN family
LevelsOf(r) == IF family[r] = "opening_range" THEN {"long", "short"} ELSE Levels

Exits == {"stop", "session", "week", "final"}

Order    == [rt : Runtimes, level : UNION {LevelsOf(r) : r \in Runtimes},
             created : Nat, expires : Nat]
Position == [order : Order, opened : Nat, swaps : Nat]
Funnel   == [accepted : Nat, filled : Nat, cancelled : Nat, expired : Nat,
             closed : Nat, exits : [Exits -> Nat]]
NoEvents == [accepted |-> 0, filled |-> 0, cancelled |-> 0, expired |-> 0,
             closed |-> 0, exits |-> [e \in Exits |-> 0]]

TypeOK ==
    /\ policy \in Policies /\ family \in Lists
    /\ bar \in Nat /\ now \in Nat /\ prev \in Nat \cup {NoBar}
    /\ upcoming \in Nat \cup {NoBar}
    /\ upcoming = NoBar \/ now < upcoming
    /\ prev = NoBar \/ prev < now
    /\ phase \in {"exits", "orders", "fills", "time", "swap", "bars", "done"}
    /\ turn \in 1 .. Len(family) + 1
    /\ orders \subseteq Order /\ touched \subseteq Order
    /\ positions \subseteq Position
    /\ DOMAIN inst = Runtimes
    /\ \A r \in Runtimes : inst[r] \in [LevelsOf(r) -> Instance]
    /\ range \in [Runtimes -> {"none", "tracked", "processed"}]
    /\ day \in [Runtimes -> Nat \cup {NoBar}]
    /\ swept \subseteq Levels
    /\ funnel \in [Runtimes -> Funnel]

------------------------------------------------------------------------------
(* Clocks.                                                                  *)

Day(t)  == t \div DayTicks
Tick(t) == t % DayTicks

Cutoff(t, s)       == Day(t) * DayTicks + Closing[s]          \* amended_session_cutoff
InSession(t, s)    == Opens[s] <= Tick(t) /\ Tick(t) < Closing[s]
FxWeekClose(t)     == (Day(t) + ((Friday - Day(t)) % WeekDays)) * DayTicks + Roll
FxDay(t)           == (t + DayTicks - Roll) \div DayTicks
CrossesRollover(a, b) == FxDay(b) > FxDay(a)

(* Mutant: a boundary inside a gap of the data is not seen.                 *)
ReachesBoundaryNoGap(b) == now + 1 >= b

(* _reaches_boundary: this bar is the last one that starts before it.       *)
ReachesBoundary(b) ==
    \/ now + 1 >= b
    \/ now < b /\ upcoming # NoBar /\ upcoming >= b

Later(t) == {u \in t + 1 .. t + MaxGap : u <= LastTick} \cup {NoBar}

------------------------------------------------------------------------------
(* Bookkeeping of the funnels.                                              *)

CountOf(S, r) == Cardinality({o \in S : o.rt = r})

Count(f, field, S) == [r \in Runtimes |-> [f[r] EXCEPT ![field] = @ + CountOf(S, r)]]

HeldBy(P, r) == Cardinality({p \in P : p.order.rt = r})

(* _close_position, for the positions P that exit for one reason.           *)
Closed(f, P, reason) ==
    [r \in Runtimes |-> [f[r] EXCEPT !.closed = @ + HeldBy(P, r),
                                     !.exits[reason] = @ + HeldBy(P, r)]]

------------------------------------------------------------------------------
Init ==
    /\ policy \in Policies /\ family \in Lists
    /\ bar = 0 /\ now \in Starts
    /\ prev = NoBar /\ upcoming \in Later(now)
    /\ phase = "exits" /\ turn = 1
    /\ orders = {} /\ touched = {} /\ positions = {}
    /\ inst = [r \in Runtimes |-> [l \in LevelsOf(r) |-> Idle]]
    /\ range = [r \in Runtimes |-> "none"]
    /\ day = [r \in Runtimes |-> NoBar]
    /\ swept = {}
    /\ funnel = [r \in Runtimes |-> NoEvents]

(* The positions whose stop or target this bar reaches are closed.          *)
ProcessExits ==
    /\ phase = "exits"
    /\ \E hit \in SUBSET positions :
        /\ positions' = positions \ hit
        /\ funnel' = Closed(funnel, hit, "stop")
    /\ phase' = "orders"
    /\ UNCHANGED <<setup, market, turn, orders, touched, machine>>

(* Mutant: the bar at which an order expires may still fill it.             *)
ExpiredAfter == {o \in orders : now > o.expires}

Expired == {o \in orders : now >= o.expires}

(* _expire_orders, then process_pending_orders: the orders the bar touches. *)
TouchOrders ==
    /\ phase = "orders"
    /\ \E t \in SUBSET (orders \ Expired) :
        /\ touched' = t
        /\ orders' = (orders \ Expired) \ t
    /\ funnel' = Count(funnel, "expired", Expired)
    /\ phase' = "fills"
    /\ UNCHANGED <<setup, market, turn, positions, machine>>

(* Orders fill in the order they were accepted.                             *)
Before(o, p) == \/ o.created < p.created
                \/ o.created = p.created /\ o.rt < p.rt
NextFill == {o \in touched : \A p \in touched : ~Before(p, o)}

(* Mutant: only positions of earlier bars count.                            *)
OverlapsEarlier == policy.single /\ \E p \in positions : p.opened < now

Overlaps == policy.single /\ positions # {}

(* Mutant: a refused overlap is not counted as cancelled.                   *)
RejectOverlapUncounted ==
    /\ phase = "fills" /\ Overlaps
    /\ \E o \in NextFill : touched' = touched \ {o}
    /\ UNCHANGED <<setup, market, phase, turn, orders, positions, machine, funnel>>

RejectOverlap ==
    /\ phase = "fills" /\ Overlaps
    /\ \E o \in NextFill :
        /\ touched' = touched \ {o}
        /\ funnel' = Count(funnel, "cancelled", {o})
    /\ UNCHANGED <<setup, market, phase, turn, orders, positions, machine>>

(* A fill opens a position; the same bar may close it again.                *)
FillOrder ==
    /\ phase = "fills" /\ ~Overlaps
    /\ \E o \in NextFill, stopped \in BOOLEAN :
        LET p == [order |-> o, opened |-> now, swaps |-> 0]
            f == Count(funnel, "filled", {o})
        IN  /\ touched' = touched \ {o}
            /\ positions' = IF stopped THEN positions ELSE positions \cup {p}
            /\ funnel' = IF stopped THEN Closed(f, {p}, "stop") ELSE f
    /\ UNCHANGED <<setup, market, phase, turn, orders, machine>>

AllFilled ==
    /\ phase = "fills" /\ touched = {} /\ phase' = "time"
    /\ UNCHANGED <<setup, market, turn, orders, touched, positions, machine, funnel>>

AtCutoff(r, t) == ReachesBoundary(Cutoff(t, Session[r]))

DueSession == {p \in positions : AtCutoff(p.order.rt, p.opened)}
DueWeek    == IF ReachesBoundary(FxWeekClose(now)) THEN positions \ DueSession ELSE {}
DueFinal   == IF upcoming = NoBar THEN positions \ (DueSession \cup DueWeek) ELSE {}
LateOrders == {o \in orders : AtCutoff(o.rt, o.created)}

(* _process_protocol_time_exits_bidask: positions first, then orders.       *)
ProcessTimeExits ==
    /\ phase = "time" /\ policy.timeExits
    /\ positions' = positions \ (DueSession \cup DueWeek \cup DueFinal)
    /\ orders' = orders \ LateOrders
    /\ funnel' = Count(Closed(Closed(Closed(funnel, DueSession, "session"),
                              DueWeek, "week"), DueFinal, "final"),
                       "cancelled", LateOrders)
    /\ phase' = "swap"
    /\ UNCHANGED <<setup, market, turn, touched, machine>>

NoTimeExits ==
    /\ phase = "time" /\ ~policy.timeExits /\ phase' = "swap"
    /\ UNCHANGED <<setup, market, turn, orders, touched, positions, machine, funnel>>

(* _process_swap, for every position open after this bar's fills; then the  *)
(* snapshot of this bar, which may show more levels as swept.               *)
ProcessSwap ==
    /\ phase = "swap"
    /\ positions' = IF policy.swap /\ prev # NoBar /\ CrossesRollover(prev, now)
                    THEN {[p EXCEPT !.swaps = @ + 1] : p \in positions}
                    ELSE positions
    /\ swept' \in {swept \cup more : more \in SUBSET Levels}
    /\ phase' = "bars" /\ turn' = 1
    /\ UNCHANGED <<setup, market, orders, touched, inst, range, day, funnel>>

------------------------------------------------------------------------------
(* A runtime's bar.                                                         *)

Eligible(r) ==
    /\ bar >= policy.warmup
    /\ policy.inSession => InSession(now, Session[r])

NewDay(r) == day[r] # Day(now)

(* Mutant: the detector lives on over the night.                            *)
KeptOvernight(r, l) == inst[r][l]

(* AmendedSessionRuntime starts every local day with a fresh detector.      *)
Kept(r, l) == IF NewDay(r) /\ policy.inSession THEN Idle ELSE inst[r][l]

(* _update_ranges and _check_new_ranges: a range is of one day; the bars    *)
(* inside its window track it and the first one after completes it.         *)
RangeBefore(r) == IF NewDay(r) THEN "none" ELSE range[r]
RangeAfter(r) ==
    LET s == Session[r] IN
    CASE Opens[s] <= Tick(now) /\ Tick(now) < RangeEnd[s] /\ RangeBefore(r) = "none" -> "tracked"
      [] Tick(now) >= RangeEnd[s] /\ RangeBefore(r) = "tracked" -> "processed"
      [] OTHER -> RangeBefore(r)
Completes(r) == RangeBefore(r) = "tracked" /\ RangeAfter(r) = "processed"

(* _check_new_levels, or the range that completes if its size is accepted.  *)
(* An instance left from an earlier day's range is dropped by a new one.    *)
Known(r, l, fits) ==
    IF family[r] = "opening_range"
    THEN IF Completes(r) /\ fits THEN Registered("range_complete", now) ELSE Kept(r, l)
    ELSE IF Kept(r, l) = Idle /\ l \notin swept
         THEN Registered("level_available", now) ELSE Kept(r, l)

(* The instances of r after this bar.                                       *)
NextInstances(r, fits, broken) ==
    LET s == Session[r]
        Of(l) == Advances(family[r], Known(r, l, fits), l, broken,
                          Tick(now) >= Closing[s], bar)
    IN  {g \in [LevelsOf(r) -> UNION {Of(l) : l \in LevelsOf(r)}] :
            \A l \in LevelsOf(r) : g[l] \in Of(l)}

Signals(r, fits, g) ==
    {l \in LevelsOf(r) : /\ g[l].stage = "order_pending"
                         /\ Known(r, l, fits).stage # "order_pending"}

NewOrder(r, l) == [rt |-> r, level |-> l, created |-> now,
                   expires |-> now + Window[family[r]]["order_pending"]]

(* Intents at the session's end are refused; of the others those with sound *)
(* prices and a size become orders.                                         *)
Acceptable(r, S) ==
    IF policy.timeExits /\ AtCutoff(r, now) THEN {{}} ELSE SUBSET S

OnBar(r) ==
    /\ phase = "bars" /\ turn = r /\ Eligible(r)
    /\ \E fits \in BOOLEAN, broken \in {"none", "long", "short"} :
       \E g \in NextInstances(r, fits, broken) :
       \E A \in Acceptable(r, Signals(r, fits, g)) :
        LET new == {NewOrder(r, l) : l \in A} IN
        /\ funnel[r].accepted + Cardinality(A) <= MaxOrders
        /\ inst' = [inst EXCEPT ![r] = g]
        /\ orders' = orders \cup new
        /\ funnel' = Count(funnel, "accepted", new)
    /\ range' = [range EXCEPT ![r] = RangeAfter(r)]
    /\ day' = [day EXCEPT ![r] = Day(now)]
    /\ turn' = turn + 1
    /\ UNCHANGED <<setup, market, phase, touched, positions, swept>>

(* During warmup, or outside its session, a runtime is not called.          *)
SkipBar(r) ==
    /\ phase = "bars" /\ turn = r /\ ~Eligible(r)
    /\ turn' = turn + 1
    /\ UNCHANGED <<setup, market, phase, orders, touched, positions, machine, funnel>>

NextBar ==
    /\ phase = "bars" /\ turn = Len(family) + 1 /\ upcoming # NoBar
    /\ bar' = bar + 1 /\ prev' = now /\ now' = upcoming
    /\ upcoming' \in Later(upcoming)
    /\ phase' = "exits"
    /\ UNCHANGED <<setup, turn, orders, touched, positions, machine, funnel>>

(* After the last bar the amended policy cancels what is still pending.     *)
Finish ==
    /\ phase = "bars" /\ turn = Len(family) + 1 /\ upcoming = NoBar
    /\ orders' = IF policy.timeExits THEN {} ELSE orders
    /\ funnel' = IF policy.timeExits THEN Count(funnel, "cancelled", orders) ELSE funnel
    /\ phase' = "done"
    /\ UNCHANGED <<setup, market, turn, touched, positions, machine>>

Terminated == phase = "done" /\ UNCHANGED vars

Next ==
    \/ ProcessExits \/ TouchOrders \/ RejectOverlap \/ FillOrder \/ AllFilled
    \/ ProcessTimeExits \/ NoTimeExits \/ ProcessSwap
    \/ \E r \in Runtimes : OnBar(r) \/ SkipBar(r)
    \/ NextBar \/ Finish \/ Terminated

Spec == Init /\ [][Next]_vars

------------------------------------------------------------------------------
(* Properties.                                                              *)

WeekCloses == {FxWeekClose(t) : t \in 0 .. LastTick}

(* "Overnight, rollover, and weekend carry are prohibited": under the       *)
(* amended policy no bar starts with a position opened before its session's *)
(* cutoff, the week's close or a rollover that has come, nor with an order  *)
(* of a session that is over, and nothing survives the last bar.            *)
NothingCarried ==
    policy.timeExits =>
      /\ phase = "exits" =>
            /\ \A p \in positions :
                /\ now < Cutoff(p.opened, Session[p.order.rt])
                /\ ~CrossesRollover(p.opened, now)
                /\ ~\E w \in WeekCloses : p.opened < w /\ w <= now
            /\ \A o \in orders : now < Cutoff(o.created, Session[o.rt])
      /\ phase = "done" => positions = {} /\ orders = {}

(* Every order a runtime placed is pending, filled, cancelled or expired,   *)
(* every fill is an open position or a close, and every close has one       *)
(* reason: the counts a report reconciles hold between any two steps.       *)
FunnelsAddUp ==
    \A r \in Runtimes :
        /\ funnel[r].accepted =
             CountOf(orders \cup touched, r)
             + funnel[r].filled + funnel[r].cancelled + funnel[r].expired
        /\ funnel[r].filled = HeldBy(positions, r) + funnel[r].closed
        /\ funnel[r].closed = funnel[r].exits["stop"] + funnel[r].exits["session"]
             + funnel[r].exits["week"] + funnel[r].exits["final"]

(* With single_position_per_pair two runtimes whose limits one bar touches  *)
(* never hold the pair together.                                            *)
OnePositionPerPair ==
    policy.single => \A p, q \in positions : p = q

(* A position is opened by an order of an earlier bar that had not expired. *)
FillsAreLive ==
    \A p \in positions : p.order.created < p.opened /\ p.opened < p.order.expires

(* An order rests on a sweep or break, a gap after it and no bar later than *)
(* its own, all within the windows its family allows, and, in the amended   *)
(* protocol, on levels taken up on the day it is placed.                    *)
Longest(f) ==
    CASE f = "sweep_reversal" -> Window[f]["level_breached"] + Window[f]["reclaim_confirmed"]
                + Window[f]["mss_confirmed"] + Window[f]["displacement_confirmed"]
      [] f = "acceptance" -> Window[f]["level_breached"] + Window[f]["acceptance_confirmed"]
      [] f = "opening_range" -> Window[f]["breakout_confirmed"]

SignalIsCausal ==
    [][ \A o \in orders' \ orders :
          LET i == inst'[o.rt][o.level] IN
            /\ i.sweep < i.at /\ i.at < bar
            /\ bar - i.sweep <= Longest(family[o.rt])
            /\ policy.inSession => Day(i.created) = Day(now) ]_vars

(* swap.py: "Computes swap charges for positions held across rollover": a   *)
(* position has been charged once for every rollover it was held across.    *)
Rollovers(a, b) == FxDay(b) - FxDay(a)

SwapIsForHolding ==
    policy.swap /\ phase = "bars" =>
        \A p \in positions : p.swaps = Rollovers(p.opened, now)

(* state_machine.py: a lifecycle goes "to ORDER_PENDING, FILLED, and        *)
(* terminal states": an instance does not give its order up as expired      *)
(* while the position that order opened is still held.                      *)
ExpiredIsUnfilled ==
    [][ \A r \in Runtimes : \A l \in LevelsOf(r) :
          inst[r][l].stage = "order_pending" /\ inst'[r][l] = Idle /\ ~NewDay(r)
            => ~\E p \in positions : /\ p.order.rt = r /\ p.order.level = l
                                     /\ p.order.created >= inst[r][l].created ]_vars
==============================================================================
