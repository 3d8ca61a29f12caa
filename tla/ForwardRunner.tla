---------------------------- MODULE ForwardRunner ----------------------------
(***************************************************************************)
(* ForwardPaperRunner (live/forward_runner.py) with its PaperBroker, its   *)
(* drawdown tracker, its two stateful constraints and its checkpoint file, *)
(* one pair, bar after bar; the process may be stopped, or die between any *)
(* two writes and in the middle of one, and is started again from the file *)
(* (scripts/run_live_forward_service.py).                                  *)
(*                                                                         *)
(* A bar is processed in the steps between which something is written.     *)
(* What the market and the strategy decide is chosen: which positions a    *)
(* bar closes and for how much, which candidates pass the checks that look *)
(* at the candidate alone.  A position is a direction and whether it has   *)
(* units: the allocator may scale them to zero.                            *)
(***************************************************************************)
EXTENDS DrawdownOps, Sequences, SequencesExt, FiniteSets

CONSTANTS
    Capital,             \* initial_capital
    Results,             \* what a position of some units may close for
    MaxConcurrent,       \* max_concurrent_positions
    MaxPerPair,          \* max_per_pair_positions
    MaxDirectional,      \* max_directional_concentration * 100
    MaxTradesPerDay,     \* max_trades_per_day
    CheckpointInterval,  \* _CHECKPOINT_INTERVAL
    MaxTime,             \* bound: tick of the last bar
    MaxSkip,             \* bound: ticks without a bar between two bars
    MaxRestarts,         \* bound: times the service is started again
    Fails                \* whether a step may raise and the process die,
                         \* or it is only stopped between bars

ASSUME RunnerAssumption ==
    /\ Capital \in Nat \ {0}
    /\ Results \subseteq Int
    /\ MaxConcurrent \in Nat \ {0} /\ MaxPerPair \in Nat \ {0}
    /\ MaxDirectional \in 0 .. 100
    /\ MaxTradesPerDay \in Nat \ {0}
    /\ CheckpointInterval \in Nat \ {0}
    /\ MaxTime \in Nat /\ MaxSkip \in Nat /\ MaxRestarts \in Nat
    /\ Fails \in BOOLEAN

VARIABLES
    dd,        \* _dd_tracker
    cash,      \* the broker's cash, which is also the equity it reports
    open,      \* its open positions
    pending,   \* its pending orders
    trades,    \* MaxDailyTradesConstraint: its day and count
    daystop,   \* DailyStopConstraint: its day and flag
    bars,      \* _bars_processed
    lastDay,   \* _last_day
    pc, todo,  \* the step of the bar, and the fills or intents it still has
    now,       \* timestamp of the bar
    disk,      \* state.json: a checkpoint, Nothing, or Torn
    restarts,  \* times started again (bookkeeping)
    seen       \* bookkeeping: entries of the day, the day last locked, and
               \* whether the breaker ever fired

memory == <<dd, cash, open, pending, trades, daystop, bars, lastDay>>
vars   == <<memory, pc, todo, now, disk, restarts, seen>>

Directions == {"long", "short"}
Position   == [dir: Directions, sized: BOOLEAN]

Nothing == [kind |-> "nothing"]
Torn    == [kind |-> "torn"]

Checkpoint == [kind |-> "saved", dd |-> dd, cash |-> cash, open |-> open,
               pending |-> pending, bars |-> bars]

TypeOK ==
    /\ dd \in Tracker
    /\ cash \in Int
    /\ open \in Seq(Position) /\ pending \in Seq(Position)
    /\ trades \in [day: Int, count: Nat]
    /\ daystop \in [day: Int, locked: BOOLEAN]
    /\ bars \in Nat /\ lastDay \in Int /\ now \in Nat
    /\ pc \in {"idle", "boundary", "broker", "fills", "signals", "orders",
               "interval", "down"}
    /\ restarts \in 0 .. MaxRestarts
    /\ disk.kind \in {"nothing", "torn", "saved"}

\* A runner just constructed, with the tracker and the bars a checkpoint gave it.
Fresh(tracker, processed) ==
    /\ dd' = tracker
    /\ cash' = Capital
    /\ open' = << >> /\ pending' = << >>
    /\ trades' = [day |-> NoDay, count |-> 0]
    /\ daystop' = [day |-> NoDay, locked |-> FALSE]
    /\ bars' = processed /\ lastDay' = NoDay
    /\ pc' = "idle" /\ todo' = << >>

Init ==
    /\ dd = NewTracker(Capital)
    /\ cash = Capital
    /\ open = << >> /\ pending = << >>
    /\ trades = [day |-> NoDay, count |-> 0]
    /\ daystop = [day |-> NoDay, locked |-> FALSE]
    /\ bars = 0 /\ lastDay = NoDay
    /\ pc = "idle" /\ todo = << >>
    /\ now = 0 /\ disk = Nothing /\ restarts = 0
    /\ seen = [day |-> NoDay, entries |-> 0, lockDay |-> NoDay, tripped |-> FALSE]

\* The bookkeeping of a tracker update.
Noted(t, ts) ==
    [seen EXCEPT !.lockDay = IF t.state = "locked" THEN DayOf(ts) ELSE @,
                 !.tripped = @ \/ t.state = "stopped"]

------------------------------------------------------------------------------
(* A bar: the risk state, the day boundary, the broker, the fills *)

Bar ==
    /\ pc = "idle"
    /\ \E skipped \in 0 .. MaxSkip : now' = now + 1 + skipped
    /\ now' <= MaxTime
    /\ bars' = bars + 1
    /\ dd' = Updated(dd, cash, now')
    /\ seen' = Noted(dd', now')
    /\ lastDay' = DayOf(now')
    /\ pc' = IF lastDay \notin {NoDay, lastDay'} THEN "boundary" ELSE "broker"
    /\ UNCHANGED <<cash, open, pending, trades, daystop, todo, disk, restarts>>

DayBoundary ==
    /\ pc = "boundary"
    /\ disk' = Checkpoint
    /\ pc' = "broker"
    /\ UNCHANGED <<memory, todo, now, restarts, seen>>

ResultsOf(p) == IF p.sized THEN Results ELSE {0}

\* PaperBroker.process_bar, exits first: of the open positions some meet their
\* exit, and what they close for is cash at once.
CloseOne ==
    /\ pc = "broker"
    /\ \E i \in DOMAIN open : \E pnl \in ResultsOf(open[i]) :
          /\ cash' = cash + pnl
          /\ open' = RemoveAt(open, i)
          /\ todo' = Append(todo, [kind |-> "exit", pnl |-> pnl])
    /\ UNCHANGED <<dd, pending, trades, daystop, bars, lastDay, pc, now, disk, restarts, seen>>

\* Then every pending market order fills.  What is to do are the fills, the exits
\* and then the entries.
FillPending ==
    /\ pc = "broker"
    /\ open' = open \o pending
    /\ todo' = todo \o [k \in DOMAIN pending |-> [kind |-> "entry", pnl |-> 0]]
    /\ pending' = << >>
    /\ pc' = "fills"
    /\ UNCHANGED <<dd, cash, trades, daystop, bars, lastDay, now, disk, restarts, seen>>

\* Mutant: the count starts again at every bar.
TradesOnBar(day) == [day |-> day, count |-> 0]

\* _maybe_reset of the two constraints.
TradesOn(day)  == IF trades.day = day THEN trades ELSE [day |-> day, count |-> 0]
DaystopOn(day) == IF daystop.day = day THEN daystop ELSE [day |-> day, locked |-> FALSE]

EntryFill ==
    /\ pc = "fills" /\ todo # << >> /\ Head(todo).kind = "entry"
    /\ trades' = [TradesOn(DayOf(now)) EXCEPT !.count = @ + 1]
    /\ seen' = [seen EXCEPT !.day = DayOf(now),
                            !.entries = IF seen.day = DayOf(now) THEN @ + 1 ELSE 1]
    /\ todo' = Tail(todo)
    /\ UNCHANGED <<dd, cash, open, pending, daystop, bars, lastDay, pc, now, disk, restarts>>

\* Mutant: a result is not saved before the interval is over.
ExitFillUnsaved ==
    /\ pc = "fills" /\ todo # << >> /\ Head(todo).kind = "exit"
    /\ dd' = RecordResult(dd, Head(todo).pnl < 0)
    /\ todo' = Tail(todo)
    /\ UNCHANGED <<cash, open, pending, trades, daystop, bars, lastDay, pc, now, restarts, seen>>
    /\ UNCHANGED disk

ExitFill ==
    /\ pc = "fills" /\ todo # << >> /\ Head(todo).kind = "exit"
    /\ dd' = RecordResult(dd, Head(todo).pnl < 0)
    /\ todo' = Tail(todo)
    /\ UNCHANGED <<cash, open, pending, trades, daystop, bars, lastDay, pc, now, restarts, seen>>
    /\ disk' = Checkpoint'

------------------------------------------------------------------------------
(* The signals of the bar *)

\* No signals while trading is halted, before the warm-up is full or when the
\* strategy has no candidate.
NoSignal ==
    /\ pc = "fills" /\ todo = << >>
    /\ pc' = "interval"
    /\ UNCHANGED <<memory, todo, now, disk, restarts, seen>>

\* What select_candidates asks of a candidate, with the positions held or
\* already selected.
Count(held, dir) == Cardinality({i \in DOMAIN held : held[i].dir = dir})

\* Mutant: the positions of the pair are left to the review, which counts those
\* of one direction.
AdmitsAnyPair(held, dir) ==
    /\ Len(held) < MaxConcurrent
    /\ held # << >> => (Count(held, dir) + 1) * 100 <= MaxDirectional * (Len(held) + 1)

Admits(held, dir) ==
    /\ Len(held) < MaxConcurrent
    /\ Len(held) < MaxPerPair
    /\ held # << >> => (Count(held, dir) + 1) * 100 <= MaxDirectional * (Len(held) + 1)

Taken(sel, dir, sized) ==
    IF Admits(open \o sel, dir) THEN Append(sel, [dir |-> dir, sized |-> sized]) ELSE sel

\* The loop over the candidates, of which there are at most two.
Selected(dirs, sized) ==
    CASE Len(dirs) = 0 -> << >>
      [] Len(dirs) = 1 -> Taken(<< >>, dirs[1], sized)
      [] Len(dirs) = 2 -> Taken(Taken(<< >>, dirs[1], sized), dirs[2], sized)

\* Candidates of distinct directions, best first.
CandidateLists == {s \in SeqOf(Directions, 2) : \A i, j \in DOMAIN s : s[i] = s[j] => i = j}

\* Mutant: the candidates are reviewed with the tracker of the bar's start.
NotRefreshed == dd

\* The tracker is updated once more, with the results of this bar.
Refreshed == Updated(dd, cash, now)

\* There are candidates, of which the review leaves those whose direction has room
\* on the pair; the halted states reject them all.
Signals ==
    /\ pc = "fills" /\ todo = << >>
    /\ dd.state \notin Halted
    /\ dd' = Refreshed
    /\ seen' = Noted(dd', now)
    /\ daystop' = [DaystopOn(DayOf(now)) EXCEPT !.locked = @ \/ LockoutHit(dd', cash)]
    /\ trades' = TradesOn(DayOf(now))
    /\ \E reviewed \in CandidateLists :
          /\ \A i \in DOMAIN reviewed : Count(open, reviewed[i]) < MaxPerPair
          /\ todo' = IF \/ dd'.state \in Halted \/ daystop'.locked
                        \/ trades'.count >= MaxTradesPerDay \/ cash <= 0
                     THEN << >>
                     ELSE Selected(reviewed, ThrottleOf(dd', cash) # "zero")
    /\ pc' = "orders"
    /\ UNCHANGED <<cash, open, pending, bars, lastDay, now, disk, restarts>>

SubmitOrder ==
    /\ pc = "orders" /\ todo # << >>
    /\ pending' = Append(pending, Head(todo))
    /\ todo' = Tail(todo)
    /\ UNCHANGED <<dd, cash, open, trades, daystop, bars, lastDay, pc, now, restarts, seen>>
    /\ disk' = Checkpoint'

OrdersDone ==
    /\ pc = "orders" /\ todo = << >>
    /\ pc' = "interval"
    /\ UNCHANGED <<memory, todo, now, disk, restarts, seen>>

\* Mutant: one bar late.
SaveIsDueLate == bars % (CheckpointInterval + 1) = 0

SaveIsDue == bars % CheckpointInterval = 0

Interval ==
    /\ pc = "interval"
    /\ disk' = IF SaveIsDue THEN Checkpoint ELSE disk
    /\ pc' = "idle"
    /\ UNCHANGED <<memory, todo, now, restarts, seen>>

------------------------------------------------------------------------------
(* Stop, death and restart *)

\* start() ends in stop(), which writes a last checkpoint: after a bar when a
\* signal came or the feed ended, in the middle of one when a step of it raised.
Stop ==
    /\ pc = "idle" \/ (Fails /\ pc # "down")
    /\ disk' = Checkpoint
    /\ pc' = "down"
    /\ UNCHANGED <<memory, todo, now, restarts, seen>>

\* The file is truncated and written in place, by a step of the bar that saves or
\* by stop() after any of them raised, so a kill may tear it anywhere.
Die ==
    /\ Fails /\ pc # "down"
    /\ pc' = "down"
    /\ disk' = disk \/ disk' = Torn
    /\ UNCHANGED <<memory, todo, now, restarts, seen>>

OrElse(x, default) == IF x = 0 THEN default ELSE x

\* Mutant: the loss streak is saved and not read back.
RestoredNoStreak(c) ==
    [c.dd EXCEPT !.peak = OrElse(@, c.cash), !.dayStart = OrElse(@, c.cash),
                 !.weekStart = OrElse(@, c.cash), !.losses = 0]

\* Mutant: the state is left to be found again from the equity.
RestoredActive(c) ==
    [c.dd EXCEPT !.peak = OrElse(@, c.cash), !.dayStart = OrElse(@, c.cash),
                 !.weekStart = OrElse(@, c.cash), !.state = "active"]

\* restore_drawdown_tracker.  The history of states starts empty, which only
\* reports read; its count (resumes) is kept.
Restored(c) ==
    [c.dd EXCEPT !.peak = OrElse(@, c.cash), !.dayStart = OrElse(@, c.cash),
                 !.weekStart = OrElse(@, c.cash)]

\* The service starts fresh when the file is missing or does not load.  The
\* broker is a new one either way.
Restart ==
    /\ pc = "down" /\ restarts < MaxRestarts
    /\ restarts' = restarts + 1
    /\ IF disk.kind = "saved" THEN Fresh(Restored(disk), disk.bars)
                              ELSE Fresh(NewTracker(Capital), 0)
    /\ UNCHANGED <<now, disk, seen>>

Process ==
    \/ Bar \/ DayBoundary \/ CloseOne \/ FillPending \/ EntryFill \/ ExitFill
    \/ NoSignal \/ Signals \/ SubmitOrder \/ OrdersDone \/ Interval

Next == Process \/ Stop \/ Die \/ Restart

Fairness == WF_vars(Process)

Spec == Init /\ [][Next]_vars /\ Fairness

------------------------------------------------------------------------------
(* Properties *)

\* No order fills on a bar that finds trading halted, although every order was
\* submitted a bar earlier and nothing cancels it: the results a halt would come
\* from are in the second update, before the order is made.
NoEntryWhileHalted ==
    pc = "broker" /\ pending # << >> => dd.state \notin Halted

\* Positions and the orders that will open more never exceed the limits, though
\* orders are checked one bar before they fill.
PositionLimits ==
    /\ Len(open) + Len(pending) <= MaxConcurrent
    /\ Len(open) + Len(pending) <= MaxPerPair

\* constraints.py:142, "Caps trades opened per calendar day": trades count when
\* they fill, a bar after they were checked, so a day of one session has fewer
\* than max_per_pair_positions entries over the cap, however the fills, the
\* checks and midnight fall.
DailyTradesBounded ==
    restarts = 0 => seen.entries < MaxTradesPerDay + MaxPerPair

\* Between two bars of the first session the file has all that was traded: the
\* cash, and every order that will fill.
TradesAreSaved ==
    pc = "idle" /\ restarts = 0 =>
        /\ cash = (IF disk.kind = "saved" THEN disk.cash ELSE Capital)
        /\ pending # << >> => disk.kind = "saved" /\ disk.pending = pending

\* Between two bars, of whatever session, a file that loads is short of fewer bars
\* than the checkpoint interval and of no loss the streak counts.
CheckpointIsRecent ==
    pc = "idle" /\ disk.kind # "torn" =>
        LET saved == IF disk.kind = "saved" THEN disk
                     ELSE [bars |-> 0, dd |-> NewTracker(Capital)]
        IN  /\ bars - saved.bars < CheckpointInterval
            /\ saved.dd.losses = dd.losses

\* A runner that went down right after a checkpoint, by a stop or by a crash,
\* comes back with the tracker it had, to the last field: but for a reference
\* equity of exactly 0, which restore_drawdown_tracker takes for one that was
\* not saved, and then the other fields are still the same.
References == {"peak", "dayStart", "weekStart"}
StopKeepsTracker ==
    [][pc = "down" /\ pc' = "idle" /\ disk = Checkpoint =>
         /\ DOMAIN dd' = DOMAIN dd
         /\ \A f \in DOMAIN dd :
              dd'[f] = dd[f] \/ (f \in References /\ dd[f] = 0)]_vars

\* A stop that reached the file is served whatever crashes and restarts follow:
\* as long as the file says stopped and its cooldown is not over, no order is
\* made.
SavedStopIsServed ==
    [][/\ disk.kind = "saved" /\ disk.dd.state = "stopped"
       /\ CooldownTicks = 0 \/ now < disk.dd.until
       => Len(pending') <= Len(pending)]_vars

\* The rungs, the cooldown and the day behave as RiskLadder promises for as long
\* as a session lasts, though the tracker is updated at the start of a bar and
\* again, with the results of the bar, before its candidates, and whatever a
\* checkpoint gave it to begin with.  (A restart is no step of the ladder: the
\* file may be older than the rung that was lost.)
Ladder == INSTANCE RiskLadder WITH
            Cooldown <- CooldownTicks, DayTicks <- TicksPerDay,
            rung <- dd.state, until <- dd.until, clock <- now, day <- dd.day

SessionsFollowLadder ==
    [][pc # "down" => Ladder!Next \/ UNCHANGED Ladder!ladder]_vars

------------------------------------------------------------------------------
(* Statements of the documentation that the code does not keep *)

\* config.py:172, circuit_breaker_cooldown_days, "0=permanent stop": once the
\* breaker has fired with no cooldown, no order is ever made again.
StopIsForever ==
    [][CooldownTicks = 0 /\ seen.tripped => Len(pending') <= Len(pending)]_vars

\* constraints.py:175, "no new trades after daily_loss_lockout pct": on a day
\* that was locked no order is made any more.
NoOrderAfterLock ==
    [][Len(pending') > Len(pending) => seen.lockDay # DayOf(now)]_vars
==============================================================================
