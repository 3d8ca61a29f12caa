# A verification project for FX-smc-bot

TLA+ models of the stateful core of `fx_smc_bot`, the TLC configurations that
check them, and TLAPS proofs of what matters most. Paths such as
`risk/drawdown.py` are relative to `src/src/fx_smc_bot/`.

## The system

The repository is a research and paper-trading platform for FX strategies. Most
of its files are batch studies over historical prices (research, gates, results,
documents). The part that runs for weeks, keeps state, fails and is restarted,
and the event loop whose order of steps decides what a study measures, are
small; they are what this project is about.

| Component | State it keeps | Operations | What is hard | What makes it correct |
|---|---|---|---|---|
| Drawdown tracker, `risk/drawdown.py` | operational state, peak, day and week start, loss streak, cooldown expiry | `update`, `record_trade_result` | day rolls, cooldowns and losses in any order, stale drawdowns, equity at or below 0 | a loss of the limit's size always halts; a stop is served; a lock lasts |
| Forward runner, `live/forward_runner.py`, `live/state.py` | bars, day, tracker, constraints, `state.json` | a bar; start, stop, restore | writes between steps, death in the middle of one, restarts, orders that fill a bar after their checks | halted means no entries; the file is recent and obeyed |
| Paper broker, `live/broker.py` | cash, positions, pending orders | `submit_order`, `process_bar` | exits before entries of one bar | limits hold when orders fill |
| Constraints and selection, `risk/constraints.py`, `portfolio/selector.py`, `alpha/review.py` | count of the day, daily stop | `record_trade`, `update`, `check` | counters that see a trade late | caps per day, per pair, in all |
| Feeds, feed health, bar buffers, `data/providers/*`, `live/feed_health.py`, `data/models.py` | newest bar given, errors in a row, poll clock, two buffers | `poll_next_bar`, `fetch_history`, `validate_bar`, `append_bar`, the runner's loop and `_sync_htf_to` | lagging and partial answers, failures in a row, two time frames, a signal or a kill anywhere | buffers in order without holes; a signal stops the loop; an outage does not hold it |
| Broker gateway, `live/broker_gateway.py` | armed, killed, submitted ids, log | `arm`, `disarm`, `kill`, `submit_order`, `cancel_order`, `process_bar`, `reconcile` | lost answers and retries, an account that moves by itself | nothing after a kill; bounded, single submission; limits |
| OANDA adapter, `live/oanda_broker.py` | known trades | orders, positions, transaction poll | a poll of 20 fills, trades opened and closed between two polls | each close delivered, once |
| Intraday strategies, `alpha/intraday/*` | an instance per level or range side, its stage and the bars its windows count from | `process_bar`, expiry, reset | windows, gaps known a bar late, day changes in the middle of a pattern | a signal rests on events before it, within their windows |
| Intraday engine, `backtesting/intraday_engine.py`, `execution/*`, `research/strategy_alpha_execution.py` | pending orders, positions, funnel counters, the previous bar | a bar: exits, fills, time exits, swap, signals, expiry | several runtimes on one pair, gaps over cutoffs, rollovers and week ends | nothing is carried; counters reconcile; one position per pair |
| Month checkpoints, `data/daily_checkpoint.py` | day files, month manifest, compacted file | daily job, bulk job, repair | kills between writes, partial downloads, several kinds of job on one month | nothing acquired is lost; compacted means whole |
| Partition lock, `data/concurrent_acquisition.py` | a lock file | `acquire`, `release` | check and write are several system calls; killed owners; reused pids | one worker per partition; stale locks are recovered |
| Acquisition runner, `scripts/run_persistent_acquisition.py` | a queue rebuilt from manifests | one pass over the partitions, then it exits | it normalises manifests outside the lock | a pass asks for every partition that is not complete |
| Older paper runner, safety controls, alerts, journal, monitor, health report (`live/*`) | watchdog, deduplication, logs | a bar, an alert | late bars, silent alerts | not modelled (plan below) |
| Signals on prices, sizing, older back test, research, ML, gates | none that outlives a call | pure computations on prices | numeric | not modelled: no protocol to check |

The runner calls the tracker, the broker, the review and the selector in one
thread; only the process boundary (death, restart, the checkpoint file) and the
provider are concurrent with it. The gateway runs in one thread against an account
that moves on its own. The engine is sequential: what is hard in it is the order
of its steps within a bar and the long sequences of bars. Acquisition runs several
processes with a pool of threads each, over shared files.

## Modules

**`DrawdownOps`** is the tracker as operators on a record (`Tracker`), one per
piece of `update`: `Rolled` (day, week and peak), `Resume` (cooldown expiry),
`Climb` (breaker, lockout, warning, recovery), `Updated` (all of `update`),
`RecordResult`, and `ThrottleOf`. Ratios are integers over `Scale`; time is in
ticks, `TicksPerDay` to a day. It declares no variable, so that both the tracker
alone and the runner use the same definitions.

**`DrawdownTracker`** is the tracker driven by any series of equities and trade
results. **`RiskLadder`** is the abstract specification: rungs, a cooldown that is
served, a lock that its day does not lift outright. `ImplementsLadder` maps the
tracker to it, and `SessionsFollowLadder` of `ForwardRunner` the tracker of every
session, with its two updates a bar.

**`ForwardRunner`** is the runner with its paper broker, constraints and file. A
bar is cut at every write and every event: `Bar` (first tracker update),
`DayBoundary` (checkpoint of a new day), `CloseOne` and `FillPending`
(`process_bar`: exits one by one, then the pending orders), `EntryFill` and
`ExitFill` (the fills handed back), `NoSignal` or `Signals` (second update, review,
daily stop, selection), `SubmitOrder` and `OrdersDone`, `Interval` (periodic
checkpoint). `Stop` writes a last checkpoint, `Die` does not and may leave the file
torn, at any step, as `stop()` saves after any step that raised; `Restart` is the
service script: it restores the tracker and the bar count from a file that loads
(`live/state.py:161` takes a saved reference of 0 for a missing one), and starts fresh
otherwise. Prices are abstracted: which positions close, for how much, and which
candidates exist is chosen.

**`LiveFeeds`** is how a bar comes to that pipeline: the service's three kinds of
feed with their warm-up, the loop (`poll`, `bars`, `sync`, `bar`), `validate_bar`,
`_sync_htf_to`, the buffers, the signal, death and restart. A bar is named by the
time it opens. The provider answers, fails, lags by up to `Lag` bars or leaves a
bar out; it is never promised to answer. Weekend closure is left out, an exception
while parsing is `Die`, and what the bar then does is `ForwardRunner`'s.

**`StrategyInstances`** is the three state machines as operators: for a family and
a stage, the set of instances one bar may make of one (`Advances`). Windows count
bars from the one an instance remembers. **`IntradayEngine`** EXTENDS it with the
bar loop: a phase per method (`ProcessExits`, `TouchOrders`, `FillOrder` and
`RejectOverlap`, `ProcessTimeExits`, `ProcessSwap`, the runtimes one after the
other, `NextBar`, `Finish`), pending orders, positions and the `EventFunnel` of
each runtime, under the default and the amended policy. One clock serves session,
New York and UTC days; one pair (pairs share only the lists); the counters of
intents that never became orders and the close flags that the midpoint mode
ignores are left out; an instance of an old range leaves when a new day's range
completes; the levels of the structure are formed from the start.

**`OandaBroker`** is the adapter over an external account (`book`, `fillLog`);
**`BrokerGateway`** EXTENDS it with the gateway: a submit in progress is `call`,
and each attempt is an action, so that the account moves between attempts. Four
kinds of failure (`FaultKinds`) are independent switches.

**`MonthCheckpoint`** is one month of one pair and side: `dayFile`, `monthFile`
and the manifest on `disk`, and one job at a time with its copy `mem`. Every
`os.replace` and every `unlink` is an action and `Crash` may fall between any two.

**`PartitionLock`** is one lock file, system call by system call, with inodes:
a worker writes to the file it opened, not to the one at the path.

**`LadderLemmas`**, **`DrawdownProofs`**, **`RunnerProofs`**, **`FeedProofs`**,
**`GatewayProofs`**, **`EngineProofs`**, **`MonthProofs`** and **`LockProofs`** hold
the proofs (below). The `MC*` modules give the constants their values. Definitions
commented "Mutant:" are wrong variants of the definition after them; no
specification uses them, and PROJECT.json says which property each of them breaks.

## Runs

| Run | Shows |
|---|---|
| `drawdown_cooldown` | the tracker over five days of two bars: rungs agree with losses, cooldowns are served, and it implements `RiskLadder`, which includes that a lock is not forgotten |
| `forward_sessions` | sessions of up to eight bars over three days that may raise, die in the middle of a write and be restarted: position limits and trades per day hold, no order fills on a halted bar, nothing traded is missing from the file between bars, the file is less than an interval old, a stop in it is obeyed, and between restarts the tracker follows `RiskLadder` |
| `live_feeds` | all three kinds of feed with lags, holes, failures, a signal and a restart: buffers in order and without holes of the loop's own making, at most the bar in hand after a signal, and neither a signal nor an outage leaves the session hanging |
| `intraday_engine` | twelve bars over two days with gaps, both policies, an acceptance and an opening-range runtime on one pair, and a sweep runtime: nothing carried, funnels reconcile, one position per pair, fills are of live orders, signals rest on earlier events within their windows |
| `gateway_faults` | all failures at once: bounded attempts that end at the first answer, nothing sent after a kill, what the kill leaves, limits, closes delivered once, every call returns |
| `month_jobs` | three kinds of job, killed anywhere: rows promised are on disk, a compacted month is whole, progress is durable, and for an operator who relaunches the runner the month becomes whole |
| `lock_races` | three threads of two processes: exclusion until acquires overlap, files left only by the killed, stale locks recovered |
| `drawdown_retrigger_doc`, `gateway_duplicate_doc`, `lock_race_doc`, `forward_crash_doc`, `feeds_htf_doc` | counterexamples to statements of the documentation (see "What the code does not keep") |

### Bounds and why they are enough

* *Tracker*: equities flat, at a warning loss, a lockout loss, a weekly warning,
  a limit, a breaker loss, and 0; gaps up to three ticks, so that a day or two
  may have no bar; ten ticks fit a firing, a full cooldown and a second firing.
  The proofs remove these bounds.
* *Runner*: `MaxTime` of eight bars, three a day, with up to two missing
  (`MaxSkip`), and one restart: three days, so that a count outlives a midnight
  and a cooldown of one day ends. Results are of the sizes that move the tracker
  from rung to rung. Two directions and two positions per pair make every limit
  bind; the checkpoint interval of 3 stands for 10, so that bars fall on and off
  it.
* *Feeds*: two LTF bars to an HTF bar stand for four, two failures in a row for
  the configured maximum, a poll window of 3 and a history of 4 for five days, and
  buffers of 4 and 3 bars, so that warm-up alone fills one and polls turn it over;
  answers lag up to two bars; five bars and one restart.
* *Engine*: days of nine bars with sessions of seven and six, a week of two days
  and gaps of up to two bars, so that a cutoff, a rollover, a week's end and a
  range's end each fall on a bar, between two and in a gap; twelve bars and two
  orders per runtime give every order time to fill, expire and be cancelled.
* *Gateway*: `MaxRequests` calls of `MaxRetries` attempts and `MaxBook` orders:
  one more order than calls, so a retry can duplicate. `FillWindow` of 3 stands
  for `count=20`: fills leave the window. Two orders of two units on a limit of
  three make the exposure bind.
* *Month*: two business days and a closed one between them: a day before and
  after every crash.
* *Lock*: two threads of one process and one of another: a race within a process,
  one between processes, and a third to find what they left.

CHECK_DEADLOCK is FALSE only for the runner and the feeds: a session may end, and
their clock is bounded. In the engine `Terminated` stands for a run that is over.

### Fairness

* The gateway's call in progress goes on (`WF` on its attempts): each HTTP call
  has a timeout, so it returns or raises.
* A job of a month that runs goes on (`WF` on `Work`): its downloads are
  subprocesses with a timeout and a bounded number of attempts
  (`data/dukascopy_node_provider.py:166`, 245). Nothing in the code starts a job
  again: `run_persistent_acquisition.py:347` makes one pass over the partitions and
  exits, `start_acquisition.ps1` launches it once, and `--retry-failed` leaves out
  days that failed for good. `EventuallyWhole` is therefore a statement about an
  operator, and says so in its antecedent: who launches the full runner again and
  again (`Relaunched`), with a provider that delivers a day asked for again and
  again (`Delivered`), once kills and bulk jobs are over (`Undisturbed`), gets the
  whole month. What one job does, without any of this, is proved
  (`JobsAreFinite`, `JobsAccountForEveryDay`).
* Threads of running processes run. That they ask for the partition is the
  antecedent of `StaleLockRecovered`: one worker that goes on asking is enough.
* The runner's process takes its steps while a bar can be had; the loop over the
  feeds runs and its poll intervals pass (`WF` on `Runner` and on `Elapse`). The
  provider is promised nothing.
* The engine has none: it is a finite computation and only safety is claimed.

## Proofs

TLAPS checks every theorem below for all values of the constants, under the
`ASSUME` that the module of the constants states (`DrawdownAssumption`,
`LockAssumption`, `WindowAssumption` and the like), and under nothing else. TLC
evaluates the assumptions on every run. Each argument is an inductive invariant
made of named parts; the type invariants are parts of them, are proved too, and
are in no run's list of properties.

**Tracker** (`DrawdownProofs`). The breaker and the lockout are not inductive: what
makes them so is that the references `update` compares with are those of the same
day and week, and that a stop has its expiry (`StopPaid`). `LadderLemmas` holds the
facts of one `update` (`RolledFacts`, `UpdateOutcome`, `UpdateKeepsLosses`,
`UpdateSound`), shared with the runner. Theorems: `BreakerSafety`, `LockoutSafety`,
`CooldownSafety`, `RateSafety`, `StopIsServed`, `LockIsNotForgotten`, and
`TrackerImplementsLadder`, the refinement of `RiskLadder`.

**Runner** (`RunnerProofs`). Each bar updates the tracker twice and the fills fall
between. `SoundInv`: while orders rest, the tracker is one that the next update at
the same cash cannot halt, so an order that passed its checks fills on a bar that
is not halted. `LimitInv` counts planned, resting and open positions together
(`Planned`), because the selector's limits are about positions and orders fill
one bar later. `DayInv` adds the entries that may still fill on this bar
(`EntriesLeft`) to the day's count. `SavedInv` relates the file to the trades,
`RecentInv` says no multiple of the interval lies between the bars of the file
and of the session, `StopInv` carries a stop from the file through `Restart`, and
`ExpiryInv` says, of the tracker and of the file, that only a stop that will end
has an expiry, which a step of the ladder needs.
Theorems: `HaltsReachOrders`, `SavedStopsAreServed`, `LimitsHold`,
`TradesReachTheFile`, `CheckpointsAreRecent`, `DailyTradesAreBounded`,
`TrackersComeBack`, `SessionsClimbTheLadder`.

**Feeds** (`FeedProofs`). `InOrder` lists a set of bars by their ranks, so what it
returns follows from counting the bars below each one. `OrderInv`: the buffers rise, and
what is on its way to one (the batch, the polls to come) is later than its end.
`GapInv`: from the buffer to a bar on its way nothing is missing but what an answer
left out, and the newest bar the feed gave is in the buffer or on its way, so that
the next poll asks for every later one. `StopInv` is about the signal. `Work` is the number of
steps the loop has left after one, and needs only `HtfInv`. Theorems:
`BuffersStayInOrder`, `NoBarIsLost`, `SignalsStopTheLoop`, `SignalLeavesFiniteWork`,
`OutagesAreCounted`.

**Engine** (`EngineProofs`). `LiveInv` (an order on the book is unexpired when the
bar reaches it), `CarryInv` with `SameFxDay` (a position outlives neither its New
York day's cutoff nor the week, whatever bars are missing), `CountAdds` and
`ClosedAdds` (a funnel's counters after one order moves), and `ChainInv`: the stages
an instance has been through are in the order of its family, each within the
window that `process_bar` counts from the one before (`AdvancesChain`, `KnownChain`
for gaps that are known a bar late). Theorems: `FillsLive`, `OnePosition`,
`NothingIsCarried`, `FunnelsReconcile`, `SignalsAreCausal`.

**Gateway** (`GatewayProofs`). The account moves by itself between two attempts, so
everything rests on what it may do to one order (`MayBecome`) and on
`AccountFacts`, `AcceptFacts` and `CancelledFacts`. `RequestInv` bounds the orders
made from one request by the attempts made, `AnswerInv` relates an answer to the
call's end, `ReportInv` orders the fill log against the adapter's cursor, `KillInv`
is about every id the gateway was answered with. `ExposureInv` adds to what
is open the order that the call in progress may still add, so that the limits hold
at the fill as they did at the check. Exposure is a fold over a set of orders: what the
proof needs of it (adding one order, removing one, comparing two sums) is derived
from the well-order of cardinalities, by taking a smallest set without the property.
Theorems: `LimitsAreKept`, `CallsUseUpTheirTries`, `NothingIsSentAfterKill`, `RetriesAreBounded`, `CallsStopAtAnswer`,
`ClosesReportedOnce`, `ClosesAreTracked`, `KillLeavesTheUnknown`.

**Month** (`MonthProofs`). `RowsInv`: the rows that the manifest on disk promises
are among those the job's copy promises, and these among the day files, at every
point between two writes. `FileInv`: when the copy equals the manifest, that the
compacted flag is down while the month file is rewritten, and what the month
file holds when it is up. `NormalisedFacts` says what the repair that every job
starts with may add and remove. `OutcomeInv`: the days a job has been through are
in its copy (`Tried`), and one that is about to end without a compacted month has
recorded why. `StepsLeft` bounds what a job still does. Theorems:
`PromisedRowsExist`, `CompactedMonthsAreWhole`, `NothingAcquiredIsLost`,
`DailyJobLeavesNoHole`, `JobsAreFinite`, `JobsAccountForEveryDay`.

**Lock** (`LockProofs`). `LockExcludesUnraced`: until two acquires overlap, two
workers never both hold the lock (`LockInv`, which holds while `raced` is false).
With races, `AnswerInv` still says, until a pid is reused, that a file at the path
while nobody is busy is that of a killed owner: `FilesAreLeftByTheKilled`; and a thread that reads such a file is not
turned away by it: `StaleLocksTurnNobodyAway`. `InodesSuffice` is a
pigeonhole argument: with more inodes than threads a free one always exists.

### Only model-checked

Every safety invariant and every action property that a passing run checks is a
theorem. Liveness is left to TLC, because the prover has no `ENABLED` and so no
fairness. What is safe about each of these properties is a theorem, and TLC adds
that the steps are taken:

| Property | Proved of it | Left to TLC |
|---|---|---|
| `CallReturns` | each attempt uses up a try, and nothing gives one back (`CallsUseUpTheirTries`) | that attempts are made |
| `SignalEnds` | each step of the loop lowers `Work` (`SignalLeavesFiniteWork`) | that the loop goes on |
| `OutageEnds` | a failed poll counts up, and the one over the maximum ends the session (`OutagesAreCounted`) | that polls are made while nothing is answered |
| `EventuallyWhole` | a job ends within `3 * NumDays + 6` steps, with a failed day to show when a month that has rows is not compacted (`JobsAreFinite`, `JobsAccountForEveryDay`) | that an operator's relaunches ask for the days which failed until they come |
| `StaleLockRecovered` | a stale file turns nobody away (`StaleLocksTurnNobodyAway`) | that a thread which goes on asking gets in, or another does |

No module declares a recursive operator.

## What the code does not keep

Each of these was met while modelling. With a run, and a finding in PROJECT.json:

1. *A cooldown's end may fire the breaker again* (`drawdown_retrigger_doc`). The
   drawdown tested at `risk/drawdown.py:180` was computed before line 168 reset
   the peak, against the comment at 162.
2. *Duplicate prevention never matches* (`gateway_duplicate_doc`).
   `live/broker_gateway.py:159` looks for a key of the order in a set of ids.
3. *Two workers get one lock* (`lock_race_doc`): the test and the write at
   `data/concurrent_acquisition.py:105` are apart, against the comment at 95.
4. *A permanent stop is forgotten by a crash* (`forward_crash_doc`): transitions
   write no checkpoint, and `state.json` is truncated in place
   (`live/state.py:65`).
5. *The HTF buffer runs ahead of the bar* (`feeds_htf_doc`): `_sync_htf_to`
   appends a bar before it compares it with `up_to`
   (`live/forward_runner.py:236`), so the buffer gets one that opens after the bar
   being processed, against the docstring at 218 and 225.

Without a run; where a definition is named, it is in its module and false of the
code:

6. *The bulk job compacts a month with a hole* (`NoSilentHole`),
   `data/daily_checkpoint.py:556`. A daily job run after it repairs it
   (`DailyLeavesNoHole`, `EventuallyWhole`).
7. *Orders on a day that was locked* (`NoOrderAfterLock`): the tracker turns
   `LOCKED` into `THROTTLED` within the day (`risk/drawdown.py:199`, against
   `docs/PAPER_TRADING_GUIDE.md:51`), and the daily stop is fed only on bars with
   candidates.
8. *Swap is charged to positions opened on the bar after the rollover and not to
   those that exit on it* (`SwapIsForHolding`), `backtesting/intraday_engine.py:1040`
   against `execution/swap.py:35`.
9. *An instance can expire while its position is held* (`ExpiredIsUnfilled`): its
   window goes on counting after its order filled, and its level is free for
   another one.
10. *The HTF feed is never polled again* after a disconnection or a failed warm-up,
    and what an answer holds after the first bar that is not earlier than the LTF
    bar is dropped (`live/forward_runner.py:230`).
11. *A failed warm-up makes old bars new*: a first poll then processes bars of up to
    five days as if they had just closed.
12. *A restart resumes from the warm-up's last bar*, not from the checkpoint's
    `last_bar_timestamp` (against `deploy/docs/recovery_and_resume_protocol.md`); with
    a replay feed it resumes from the first bar.
13. *A first poll that fails with no warm-up ends the session at once*: the feed
    looks exhausted.

As conditions of the properties that do hold:

* An order accepted while its answer was lost survives the kill switch
  (`KillCancelsKnown` is of orders the gateway was answered about).
* Resting limit orders are outside the pre-trade check and fill over the limits
  (`WithinLimits` is claimed of market orders only).
* A limit order that fills and closes between two position queries is never
  reported (`CloseTracked` is claimed of market orders only).
* A fill that closes several trades reports the first one only
  (`live/oanda_broker.py:286` reads `tradesClosed[0]`): `NewlyClosed` gives each
  close a fill of its own, and `CloseTracked` is claimed of such closes.
* A stale lock whose pid was reused is not recovered (`StaleLockRecovered`).
* A live owner of another user counts as dead: `os.kill` raises `PermissionError`,
  an `OSError` (`data/concurrent_acquisition.py:47`). `PidExists` is of processes of
  one user, as the launch script starts them.
* A month that failed is not asked for again by the code (`EventuallyWhole` is
  claimed for an operator who relaunches the runner).
* A resumed session has the initial capital and no positions: the file holds
  them, `_restore` does not read them (`StopKeepsTracker` is about the tracker).
* A reference equity of exactly 0 in the file is taken for a missing one
  (`live/state.py:161` to 163), so the tracker comes back with the equity instead
  (`StopKeepsTracker` excepts it).
* Two orders of one bar pass the daily cap together, and a restart recounts
  (`DailyTradesBounded` states the cap the code keeps, within a session).

## Not modelled

Within the components that are modelled: prices, spreads, swap amounts and sizes
(numeric policy, no protocol); the moment between `read_text` and `pid_exists` of
one acquire (`Read` is both: an owner that ends in it is one whose file was read
later, or whose thread is turned away once more); pause and resume of the runner, which nothing
calls; scheduled reports and telemetry; `close_trade` and `close_all` of the
adapter; two workers sharing the temporary file of one manifest, which needs the
composition planned below; the acquisition runner beyond its jobs and locks.

Components: the older paper runner, safety controls and watchdog, alerts,
journal, monitor, health report, drift detector and the demo broker; the signals
on prices, the older back test, research, ML and gates.

The last group is most of the repository by lines. Its files are scripts that read
prices, compute a table and write a report: no state outlives a run, nothing is
retried, restarted or shared, and what they compute is statistics over floating
point data. There is no behaviour there for a model checker to explore, so the
models cover a small share of the repository's lines and most of its protocols.

## Plan

Done: tracker, ladder and proofs; gateway and adapter with proofs; month with
proofs; lock with proofs; runner with proofs; feeds with proofs; strategies and engine with
proofs. Next, in order:

1. `SharedMonth`: month and lock composed, two workers, manifests written
   through one temporary name, the completeness test outside the lock.
2. `Watchdog`: `live/safety.py` with the feed and the alert deduplication.
3. The older `live/runner.py`.
4. Restarts over a replay feed, with the runner's file.
5. Several pairs in the engine.
