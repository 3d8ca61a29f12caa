---------------------------- MODULE RunnerProofs ----------------------------
(***************************************************************************)
(* ForwardRunner for any limits, ratios, calendar and results: no order    *)
(* fills on a halted bar, a stop the file holds is served through crashes  *)
(* and restarts, positions and the trades of a day stay within the limits, *)
(* and the file is as recent as the checkpoints promise.                   *)
(***************************************************************************)
EXTENDS ForwardRunner, LadderLemmas, FiniteSetTheorems, SequenceTheorems

Item == [kind: {"exit", "entry"}, pnl: Int]

TypeInv ==
    /\ TypeOK
    /\ seen \in [day: Int, entries: Nat, lockDay: Int, tripped: BOOLEAN]
    /\ disk.kind = "saved" => disk.dd \in Tracker /\ disk.cash \in Int /\ disk.bars \in Nat
    /\ pc \in {"idle", "boundary", "interval"} => todo = << >>
    /\ pc \in {"broker", "fills"} => todo \in Seq(Item)
    /\ pc = "orders" => todo \in Seq(Position)

\* Orders rest, or are about to be made.
Ordered == pending # << >> \/ (pc = "orders" /\ todo # << >>)

SoundInv ==
    /\ pc = "fills" => pending = << >>
    /\ pc = "broker" /\ pending # << >> => dd.state \notin Halted
    /\ pc \in {"idle", "boundary", "interval", "orders"} /\ Ordered => Sound(dd, cash)

\* The file holds a stop whose cooldown is not over.
Serving ==
    /\ disk.kind = "saved" /\ disk.dd.state = "stopped"
    /\ CooldownTicks = 0 \/ now < disk.dd.until

StopInv ==
    Serving /\ pc # "down" => dd.state = "stopped" /\ dd.until = disk.dd.until

\* Orders that the review let through and are not made yet.
Planned == IF pc = "orders" THEN Len(todo) ELSE 0

LimitInv ==
    /\ Len(open) + Len(pending) + Planned <= MaxConcurrent
    /\ Len(open) + Len(pending) + Planned <= MaxPerPair

Bound == MaxTradesPerDay + MaxPerPair

\* Of what is to do all but the last n are exits.
EntriesLeft(n) == \A i \in 1 .. Len(todo) - n : todo[i].kind = "exit"

DayInv ==
    restarts = 0 =>
        /\ seen.day <= DayOf(now) /\ trades.day <= DayOf(now)
        /\ seen.entries < Bound
        /\ trades.day = DayOf(now) /\ seen.day # DayOf(now) => trades.count = 0
        /\ seen.day = DayOf(now) => trades = [day |-> seen.day, count |-> seen.entries]
        /\ pc # "fills" /\ seen.day = DayOf(now) =>
              seen.entries + Len(pending) + Planned < Bound
        /\ pc = "broker" => EntriesLeft(0)
        /\ pc = "fills" => \E n \in 0 .. Len(todo) :
              /\ n <= MaxPerPair /\ EntriesLeft(n)
              /\ seen.day = DayOf(now) => seen.entries + n < Bound

FileCash == IF disk.kind = "saved" THEN disk.cash ELSE Capital

SavedInv ==
    restarts = 0 /\ pc # "down" =>
        /\ disk.kind # "torn"
        /\ \/ FileCash = cash
           \/ pc \in {"broker", "fills"} /\ \E i \in 1 .. Len(todo) : todo[i].kind = "exit"
        /\ pending # << >> => disk.kind = "saved" /\ disk.pending = pending

SavedBars   == IF disk.kind = "saved" THEN disk.bars ELSE 0
SavedLosses == IF disk.kind = "saved" THEN disk.dd.losses ELSE 0

RecentInv ==
    pc # "down" /\ disk.kind # "torn" =>
        /\ SavedLosses = dd.losses
        /\ SavedBars <= bars
        /\ \A m \in SavedBars + 1 .. bars :
              m % CheckpointInterval = 0 => m = bars /\ pc # "idle"

------------------------------------------------------------------------------
(* Lemmas about the operators.                                              *)

LEMMA NewTrackerType == NewTracker(Capital) \in Tracker
BY RunnerAssumption DEF NewTracker, Tracker, OpStates, NoDay, NoUntil

\* A restored tracker keeps its state, its expiry and its streak.
LEMMA RestoredFacts ==
    ASSUME NEW c, c.dd \in Tracker, c.cash \in Int
    PROVE  /\ Restored(c) \in Tracker
           /\ Restored(c).state = c.dd.state
           /\ Restored(c).until = c.dd.until
           /\ Restored(c).losses = c.dd.losses
<1> DEFINE p == OrElse(c.dd.peak, c.cash)
           d == OrElse(c.dd.dayStart, c.cash)
           w == OrElse(c.dd.weekStart, c.cash)
<1>1. p \in Int /\ d \in Int /\ w \in Int
  BY DEF OrElse, Tracker
<1>2. Restored(c) = [c.dd EXCEPT !.peak = p, !.dayStart = d, !.weekStart = w]
  BY DEF Restored, Tracker
<1> HIDE DEF p, d, w
<1> QED  BY <1>1, <1>2 DEF Tracker

\* A result changes the loss streak and nothing else.
LEMMA RecordFacts ==
    ASSUME NEW t \in Tracker, NEW lost \in BOOLEAN
    PROVE  /\ RecordResult(t, lost) \in Tracker
           /\ RecordResult(t, lost).state = t.state
           /\ RecordResult(t, lost).until = t.until
BY DEF RecordResult, Tracker

LEMMA RemoveAtFacts ==
    ASSUME NEW S, NEW s \in Seq(S), NEW i \in 1 .. Len(s)
    PROVE  RemoveAt(s, i) \in Seq(S) /\ Len(RemoveAt(s, i)) = Len(s) - 1
<1> DEFINE a == SubSeq(s, 1, i - 1)
           b == SubSeq(s, i + 1, Len(s))
<1>1. Len(s) \in Nat /\ \A j \in 1 .. Len(s) : s[j] \in S
  BY LenProperties, ElementOfSeq
<1>2. a \in Seq(S) /\ Len(a) = IF 1 <= i - 1 THEN i - 1 ELSE 0
  <2>1. 1 \in Int /\ i - 1 \in Int /\ \A j \in 1 .. i - 1 : s[j] \in S
    BY <1>1
  <2>2. Len(a) = IF 1 <= i - 1 THEN (i - 1) - 1 + 1 ELSE 0
    BY <2>1, SubSeqProperties
  <2>3. a \in Seq(S)
    BY <2>1, SubSeqProperties
  <2> HIDE DEF a
  <2> QED  BY <2>2, <2>3, <1>1
<1>3. b \in Seq(S) /\ Len(b) = IF i + 1 <= Len(s) THEN Len(s) - i ELSE 0
  <2>1. i + 1 \in Int /\ Len(s) \in Int /\ \A j \in i + 1 .. Len(s) : s[j] \in S
    BY <1>1
  <2>2. Len(b) = IF i + 1 <= Len(s) THEN Len(s) - (i + 1) + 1 ELSE 0
    BY <2>1, SubSeqProperties
  <2>3. b \in Seq(S)
    BY <2>1, SubSeqProperties
  <2> HIDE DEF b
  <2> QED  BY <2>2, <2>3, <1>1
<1>4. RemoveAt(s, i) = a \o b
  BY DEF RemoveAt
<1> HIDE DEF a, b
<1>5. a \o b \in Seq(S) /\ Len(a \o b) = Len(a) + Len(b)
  BY <1>2, <1>3, ConcatProperties
<1>6. Len(a) = i - 1 /\ Len(b) = Len(s) - i
  BY <1>1, <1>2, <1>3
<1> QED  BY <1>1, <1>4, <1>5, <1>6

\* The fills of the pending orders are entries, one for each.
LEMMA EntriesFacts ==
    ASSUME NEW s \in Seq(Position)
    PROVE  LET e == [k \in DOMAIN s |-> [kind |-> "entry", pnl |-> 0]]
           IN  /\ e \in Seq(Item) /\ Len(e) = Len(s)
               /\ \A k \in 1 .. Len(s) : e[k].kind = "entry"
<1> DEFINE e == [k \in DOMAIN s |-> [kind |-> "entry", pnl |-> 0]]
<1>1. Len(s) \in Nat /\ DOMAIN s = 1 .. Len(s)
  BY LenProperties
<1>2. e \in [1 .. Len(s) -> Item]
  BY <1>1 DEF Item
<1>3. e \in Seq(Item)
  BY <1>1, <1>2, SeqDef
<1>4. \A k \in 1 .. Len(s) : e[k].kind = "entry"
  BY <1>1
<1> HIDE DEF e
<1>5. Len(e) = Len(s)
  BY <1>1, <1>2, <1>3, LenProperties
<1> QED  BY <1>3, <1>4, <1>5 DEF e

\* One candidate more is selected only where both limits have room for it.
LEMMA TakenFacts ==
    ASSUME NEW sel \in Seq(Position), NEW dir \in Directions, NEW sized \in BOOLEAN,
           open \in Seq(Position),
           Len(open) + Len(sel) <= MaxConcurrent, Len(open) + Len(sel) <= MaxPerPair
    PROVE  /\ Taken(sel, dir, sized) \in Seq(Position)
           /\ Len(open) + Len(Taken(sel, dir, sized)) <= MaxConcurrent
           /\ Len(open) + Len(Taken(sel, dir, sized)) <= MaxPerPair
<1> DEFINE p == [dir |-> dir, sized |-> sized]
<1>1. Len(open) \in Nat /\ Len(sel) \in Nat /\ p \in Position
  BY LenProperties DEF Position
<1>2. Len(open \o sel) = Len(open) + Len(sel)
  BY ConcatProperties
<1>3. Append(sel, p) \in Seq(Position) /\ Len(Append(sel, p)) = Len(sel) + 1
  BY <1>1, AppendProperties
<1>4. CASE Admits(open \o sel, dir)
  <2>1. Len(open) + Len(sel) < MaxConcurrent /\ Len(open) + Len(sel) < MaxPerPair
    BY <1>2, <1>4 DEF Admits
  <2>2. Taken(sel, dir, sized) = Append(sel, p)
    BY <1>4 DEF Taken
  <2> QED  BY <2>1, <2>2, <1>1, <1>3, RunnerAssumption
<1>5. CASE ~Admits(open \o sel, dir)
  BY <1>5 DEF Taken
<1> QED  BY <1>4, <1>5

LEMMA SelectedFacts ==
    ASSUME NEW dirs \in CandidateLists, NEW sized \in BOOLEAN,
           open \in Seq(Position), Len(open) <= MaxConcurrent, Len(open) <= MaxPerPair
    PROVE  /\ Selected(dirs, sized) \in Seq(Position)
           /\ Len(open) + Len(Selected(dirs, sized)) <= MaxConcurrent
           /\ Len(open) + Len(Selected(dirs, sized)) <= MaxPerPair
<1>1. PICK m \in 0 .. 2 : dirs \in [1 .. m -> Directions]
  BY DEF CandidateLists, SeqOf
<1>2. dirs \in Seq(Directions)
  BY <1>1, SeqDef
<1>3. Len(dirs) = m
  BY <1>1, <1>2, LenProperties
<1>4. << >> \in Seq(Position) /\ Len(<< >>) = 0 /\ Len(open) \in Nat
  BY EmptySeq, LenProperties
<1>5. CASE m = 0
  <2>1. Selected(dirs, sized) = << >>
    BY <1>3, <1>5 DEF Selected
  <2> QED  BY <2>1, <1>4, RunnerAssumption
<1> DEFINE one == Taken(<< >>, dirs[1], sized)
<1>6. m > 0 => /\ one \in Seq(Position)
               /\ Len(open) + Len(one) <= MaxConcurrent
               /\ Len(open) + Len(one) <= MaxPerPair
  <2>1. SUFFICES ASSUME m > 0
                 PROVE  /\ one \in Seq(Position)
                        /\ Len(open) + Len(one) <= MaxConcurrent
                        /\ Len(open) + Len(one) <= MaxPerPair
    OBVIOUS
  <2>2. dirs[1] \in Directions
    BY <1>1, <2>1
  <2>3. Len(open) + Len(<< >>) <= MaxConcurrent /\ Len(open) + Len(<< >>) <= MaxPerPair
    BY <1>4, RunnerAssumption
  <2> QED  BY <2>2, <2>3, <1>4, TakenFacts
<1> HIDE DEF one
<1>7. CASE m = 1
  BY <1>3, <1>6, <1>7 DEF Selected, one
<1>8. CASE m = 2
  <2>1. dirs[2] \in Directions
    BY <1>1, <1>8
  <2>2. Selected(dirs, sized) = Taken(one, dirs[2], sized)
    BY <1>3, <1>8 DEF Selected, one
  <2>3. one \in Seq(Position) /\ Len(open) + Len(one) <= MaxConcurrent /\ Len(open) + Len(one) <= MaxPerPair
    BY <1>6, <1>8
  <2>4. /\ Taken(one, dirs[2], sized) \in Seq(Position)
        /\ Len(open) + Len(Taken(one, dirs[2], sized)) <= MaxConcurrent
        /\ Len(open) + Len(Taken(one, dirs[2], sized)) <= MaxPerPair
    BY <2>1, <2>3, TakenFacts
  <2> QED  BY <2>2, <2>4
<1> QED  BY <1>1, <1>5, <1>7, <1>8

\* Without the limits: what is selected are positions.
LEMMA SelectedType ==
    ASSUME NEW dirs \in CandidateLists, NEW sized \in BOOLEAN
    PROVE  Selected(dirs, sized) \in Seq(Position)
<1>1. PICK m \in 0 .. 2 : dirs \in [1 .. m -> Directions]
  BY DEF CandidateLists, SeqOf
<1>2. dirs \in Seq(Directions)
  BY <1>1, SeqDef
<1>3. Len(dirs) = m
  BY <1>1, <1>2, LenProperties
<1>4. << >> \in Seq(Position)
  BY EmptySeq
<1>5. \A sel \in Seq(Position), d \in Directions : Taken(sel, d, sized) \in Seq(Position)
  BY AppendProperties DEF Taken, Position
<1>6. CASE m = 0
  BY <1>3, <1>4, <1>6 DEF Selected
<1> DEFINE one == Taken(<< >>, dirs[1], sized)
<1>7. m > 0 => one \in Seq(Position)
  <2>1. m > 0 => dirs[1] \in Directions
    BY <1>1
  <2> QED  BY <2>1, <1>4, <1>5
<1> HIDE DEF one
<1>8. CASE m = 1
  BY <1>3, <1>7, <1>8 DEF Selected, one
<1>9. CASE m = 2
  <2>1. dirs[2] \in Directions
    BY <1>1, <1>9
  <2>2. Taken(one, dirs[2], sized) \in Seq(Position)
    BY <2>1, <1>5, <1>7, <1>9
  <2> QED  BY <2>2, <1>3, <1>9 DEF Selected, one
<1> QED  BY <1>1, <1>6, <1>8, <1>9

\* An exit takes a position away, and its result is on the cash and on the list.
LEMMA CloseFacts ==
    ASSUME CloseOne
    PROVE  \E i \in DOMAIN open, pnl \in Int :
              /\ cash' = cash + pnl
              /\ open' = RemoveAt(open, i)
              /\ todo' = Append(todo, [kind |-> "exit", pnl |-> pnl])
<1>1. PICK i \in DOMAIN open : \E pnl \in ResultsOf(open[i]) :
         /\ cash' = cash + pnl
         /\ open' = RemoveAt(open, i)
         /\ todo' = Append(todo, [kind |-> "exit", pnl |-> pnl])
  BY DEF CloseOne
<1>2. ResultsOf(open[i]) \subseteq Int
  BY RunnerAssumption DEF ResultsOf
<1> QED  BY <1>1, <1>2

\* What the bookkeeping notes of an entry.
LEMMA EntryNoted ==
    ASSUME EntryFill, DayOf(now) \in Int,
           seen \in [day: Int, entries: Nat, lockDay: Int, tripped: BOOLEAN]
    PROVE  /\ seen' \in [day: Int, entries: Nat, lockDay: Int, tripped: BOOLEAN]
           /\ seen'.day = DayOf(now)
           /\ seen'.entries = IF seen.day = DayOf(now) THEN seen.entries + 1 ELSE 1
<1> DEFINE n == IF seen.day = DayOf(now) THEN seen.entries + 1 ELSE 1
           d == [seen EXCEPT !.day = DayOf(now)]
<1>1. n \in Nat
  OBVIOUS
<1>2. d \in [day: Int, entries: Nat, lockDay: Int, tripped: BOOLEAN]
      /\ d.day = DayOf(now) /\ d.entries = seen.entries
  OBVIOUS
<1>3. seen' = [d EXCEPT !.entries = n]
  BY DEF EntryFill
<1> HIDE DEF n, d
<1>4. /\ seen' \in [day: Int, entries: Nat, lockDay: Int, tripped: BOOLEAN]
      /\ seen'.day = DayOf(now) /\ seen'.entries = n
  BY <1>1, <1>2, <1>3
<1> QED  BY <1>4 DEF n

LEMMA UpdateType ==
    ASSUME NEW t \in Tracker, NEW eq \in Int, NEW ts \in Nat
    PROVE  Updated(t, eq, ts) \in Tracker
BY UpdateOutcome

LEMMA NotedType ==
    ASSUME NEW t, NEW ts \in Nat,
           seen \in [day: Int, entries: Nat, lockDay: Int, tripped: BOOLEAN]
    PROVE  /\ Noted(t, ts) \in [day: Int, entries: Nat, lockDay: Int, tripped: BOOLEAN]
           /\ Noted(t, ts).day = seen.day /\ Noted(t, ts).entries = seen.entries
<1> DEFINE l == IF t.state = "locked" THEN DayOf(ts) ELSE seen.lockDay
           b == seen.tripped \/ t.state = "stopped"
<1>1. DayOf(ts) \in Int
  BY CalendarType
<1>2. l \in Int
  BY <1>1
<1>3. b \in BOOLEAN
  BY Zenon
<1>4. Noted(t, ts) = [seen EXCEPT !.lockDay = l, !.tripped = b]
  BY DEF Noted
<1> HIDE DEF l, b
<1> QED  BY <1>2, <1>3, <1>4

------------------------------------------------------------------------------
(* Types.                                                                   *)

LEMMA TypeInit == Init => TypeInv
<1>1. << >> \in Seq(Position)
  BY EmptySeq
<1>2. << >> \in Seq(Item)
  BY EmptySeq
<1> QED  BY <1>1, <1>2, NewTrackerType, RunnerAssumption
         DEF Init, TypeInv, TypeOK, Nothing, NoDay

LEMMA TypeStep == TypeInv /\ [Next]_vars => TypeInv'
<1> SUFFICES ASSUME TypeInv, [Next]_vars
             PROVE  TypeInv'
  OBVIOUS
<1> USE DEF TypeInv, TypeOK
<1>0. /\ << >> \in Seq(Position) /\ << >> \in Seq(Item)
      /\ DayOf(now) \in Int /\ cash \in Int /\ now \in Nat
  BY EmptySeq, CalendarType
<1>1. CASE Bar
  <2>1. now' \in Nat /\ bars' \in Nat
    BY <1>1, RunnerAssumption DEF Bar
  <2>2. dd' \in Tracker
    BY <1>1, <2>1, UpdateType DEF Bar
  <2>3. DayOf(now') \in Int
    BY <2>1, CalendarType
  <2>4. seen' \in [day: Int, entries: Nat, lockDay: Int, tripped: BOOLEAN]
    BY <1>1, <2>1, NotedType DEF Bar
  <2> QED  BY <1>0, <1>1, <2>1, <2>2, <2>3, <2>4 DEF Bar
<1>2. CASE DayBoundary
  BY <1>0, <1>2 DEF DayBoundary, memory, Checkpoint
<1>3. CASE CloseOne
  <2>1. PICK i \in DOMAIN open, pnl \in Int :
           /\ cash' = cash + pnl
           /\ open' = RemoveAt(open, i)
           /\ todo' = Append(todo, [kind |-> "exit", pnl |-> pnl])
    BY <1>3, CloseFacts DEF CloseOne
  <2>2. pnl \in Int
    BY <2>1
  <2>3. i \in 1 .. Len(open)
    BY LenProperties
  <2>4. open' \in Seq(Position)
    BY <2>1, <2>3, RemoveAtFacts
  <2>5. [kind |-> "exit", pnl |-> pnl] \in Item /\ todo \in Seq(Item)
    BY <1>3, <2>2 DEF Item, CloseOne
  <2>6. todo' \in Seq(Item)
    BY <2>1, <2>5, AppendProperties
  <2> QED  BY <1>3, <2>1, <2>2, <2>4, <2>6 DEF CloseOne
<1>4. CASE FillPending
  <2> DEFINE e == [k \in DOMAIN pending |-> [kind |-> "entry", pnl |-> 0]]
  <2>1. e \in Seq(Item)
    BY EntriesFacts
  <2>2. open \o pending \in Seq(Position)
    BY ConcatProperties
  <2> HIDE DEF e
  <2>3. todo \o e \in Seq(Item)
    BY <1>4, <2>1, ConcatProperties DEF FillPending
  <2>4. todo' = todo \o e
    BY <1>4 DEF FillPending, e
  <2> QED  BY <1>0, <1>4, <2>2, <2>3, <2>4 DEF FillPending
<1>5. CASE EntryFill
  <2>1. Tail(todo) \in Seq(Item)
    BY <1>5, HeadTailProperties DEF EntryFill
  <2>2. trades' \in [day: Int, count: Nat]
    <3> DEFINE o == TradesOn(DayOf(now))
    <3>1. o \in [day: Int, count: Nat]
      BY <1>0 DEF TradesOn
    <3>2. trades' = [o EXCEPT !.count = @ + 1]
      BY <1>5 DEF EntryFill
    <3> HIDE DEF o
    <3>3. o.count + 1 \in Nat
      BY <3>1
    <3> QED  BY ONLY <3>1, <3>2, <3>3
  <2>3. seen' \in [day: Int, entries: Nat, lockDay: Int, tripped: BOOLEAN]
    BY <1>0, <1>5, EntryNoted
  <2> QED  BY <1>5, <2>1, <2>2, <2>3 DEF EntryFill
<1>6. CASE ExitFill
  <2>1. Tail(todo) \in Seq(Item)
    BY <1>6, HeadTailProperties DEF ExitFill
  <2>2. (Head(todo).pnl < 0) \in BOOLEAN
    OBVIOUS
  <2>3. dd' \in Tracker
    BY <1>6, <2>2, RecordFacts DEF ExitFill
  <2> QED  BY <1>6, <2>1, <2>3 DEF ExitFill, Checkpoint
<1>7. CASE NoSignal
  BY <1>7 DEF NoSignal, memory
<1>8. CASE Signals
  <2>1. dd' \in Tracker
    BY <1>0, <1>8, UpdateType DEF Signals, Refreshed
  <2>2. seen' \in [day: Int, entries: Nat, lockDay: Int, tripped: BOOLEAN]
    BY <1>0, <1>8, NotedType DEF Signals
  <2>3. daystop' \in [day: Int, locked: BOOLEAN]
    <3> DEFINE o == DaystopOn(DayOf(now))
               l == o.locked \/ LockoutHit(dd', cash)
    <3>1. o \in [day: Int, locked: BOOLEAN]
      BY <1>0 DEF DaystopOn
    <3>2. l \in BOOLEAN
      BY Zenon
    <3>3. daystop' = [o EXCEPT !.locked = l]
      BY <1>8 DEF Signals
    <3> HIDE DEF o, l
    <3> QED  BY <3>1, <3>2, <3>3
  <2>4. trades' \in [day: Int, count: Nat]
    BY <1>0, <1>8 DEF Signals, TradesOn
  <2>5. todo' \in Seq(Position)
    BY <1>0, <1>8, SelectedType DEF Signals
  <2> QED  BY <1>8, <2>1, <2>2, <2>3, <2>4, <2>5 DEF Signals
<1>9. CASE SubmitOrder
  <2>1. Head(todo) \in Position /\ Tail(todo) \in Seq(Position)
    BY <1>9, HeadTailProperties DEF SubmitOrder
  <2>2. Append(pending, Head(todo)) \in Seq(Position)
    BY <2>1, AppendProperties
  <2> QED  BY <1>9, <2>1, <2>2 DEF SubmitOrder, Checkpoint
<1>10. CASE OrdersDone
  BY <1>10 DEF OrdersDone, memory
<1>11. CASE Interval
  BY <1>11 DEF Interval, memory, Checkpoint
<1>12. CASE Stop
  BY <1>12 DEF Stop, memory, Checkpoint
<1>13. CASE Die
  BY <1>13 DEF Die, memory, Torn
<1>14. CASE Restart
  <2>1. restarts' \in 0 .. MaxRestarts
    BY <1>14, RunnerAssumption DEF Restart
  <2>2. dd' \in Tracker /\ bars' \in Nat
    BY <1>14, RestoredFacts, NewTrackerType DEF Restart, Fresh
  <2>3. /\ cash' = Capital /\ open' = << >> /\ pending' = << >> /\ todo' = << >>
        /\ trades' = [day |-> NoDay, count |-> 0]
        /\ daystop' = [day |-> NoDay, locked |-> FALSE]
        /\ lastDay' = NoDay /\ pc' = "idle"
        /\ UNCHANGED <<now, disk, seen>>
    BY <1>14 DEF Restart, Fresh
  <2> QED  BY <1>0, <2>1, <2>2, <2>3, RunnerAssumption DEF NoDay
<1>15. CASE UNCHANGED vars
  BY <1>15 DEF vars, memory
<1> QED  BY <1>1, <1>2, <1>3, <1>4, <1>5, <1>6, <1>7, <1>8, <1>9, <1>10, <1>11,
            <1>12, <1>13, <1>14, <1>15 DEF Next, Process

\* The state of a session and of its file is well formed (forward_runner.py:65-142,
\* live/state.py:83-140).
THEOREM TypeCorrect == Spec => []TypeOK
<1>1. TypeInv => TypeOK
  BY DEF TypeInv
<1> QED  BY <1>1, TypeInit, TypeStep, PTL DEF Spec

------------------------------------------------------------------------------
(* No order fills on a halted bar: orders rest only on a tracker that is    *)
(* sound at the cash there was when it was made, and the next update is at  *)
(* the same cash.                                                           *)

LEMMA SoundStep ==
    ASSUME TypeInv, SoundInv, [Next]_vars
    PROVE  SoundInv'
<1>0. dd \in Tracker /\ cash \in Int /\ now \in Nat
  BY DEF TypeInv, TypeOK
<1>1. CASE Bar
  <2>1. now' \in Nat /\ dd' = Updated(dd, cash, now') /\ cash' = cash /\ pending' = pending
        /\ todo' = todo /\ pc = "idle" /\ pc' \in {"boundary", "broker"}
    BY <1>0, <1>1, RunnerAssumption DEF Bar
  <2>2. CASE pending # << >>
    <3>1. Sound(dd, cash)
      BY <2>1, <2>2 DEF SoundInv, Ordered
    <3>2. Sound(dd', cash)
      BY <1>0, <2>1, <3>1, SoundUpdate
    <3> QED  BY <2>1, <3>2 DEF SoundInv, Sound
  <2>3. CASE pending = << >>
    BY <2>1, <2>3 DEF SoundInv, Ordered
  <2> QED  BY <2>2, <2>3
<1>2. CASE DayBoundary
  BY <1>2 DEF DayBoundary, memory, SoundInv, Ordered, Sound
<1>3. CASE CloseOne
  BY <1>3 DEF CloseOne, SoundInv
<1>4. CASE FillPending
  BY <1>4 DEF FillPending, SoundInv
<1>5. CASE EntryFill
  BY <1>5 DEF EntryFill, SoundInv
<1>6. CASE ExitFill
  BY <1>6 DEF ExitFill, SoundInv
<1>7. CASE NoSignal
  BY <1>7 DEF NoSignal, memory, SoundInv, Ordered
<1>8. CASE Signals
  <2>1. pending = << >> /\ pending' = << >> /\ pc' = "orders" /\ cash' = cash
        /\ dd.state \notin Halted /\ dd' = Updated(dd, cash, now)
    BY <1>8 DEF Signals, SoundInv, Refreshed
  <2>2. todo' # << >> => cash > 0 /\ dd'.state \notin Halted
    <3>1. todo' # << >> => ~(dd'.state \in Halted \/ daystop'.locked
                             \/ trades'.count >= MaxTradesPerDay \/ cash <= 0)
      BY <1>8 DEF Signals
    <3> QED  BY <1>0, <3>1
  <2>3. todo' # << >> => Sound(dd', cash)
    BY <1>0, <2>1, <2>2, UpdateSound
  <2> QED  BY <2>1, <2>3 DEF SoundInv, Ordered
<1>9. CASE SubmitOrder
  BY <1>9 DEF SubmitOrder, SoundInv, Ordered
<1>10. CASE OrdersDone
  BY <1>10 DEF OrdersDone, memory, SoundInv, Ordered
<1>11. CASE Interval
  BY <1>11 DEF Interval, memory, SoundInv, Ordered
<1>12. CASE Stop
  BY <1>12 DEF Stop, SoundInv
<1>13. CASE Die
  BY <1>13 DEF Die, SoundInv
<1>14. CASE Restart
  <2>1. pc' = "idle" /\ pending' = << >>
    BY <1>14 DEF Restart, Fresh
  <2> QED  BY <2>1 DEF SoundInv, Ordered
<1>15. CASE UNCHANGED vars
  BY <1>15 DEF vars, memory, SoundInv, Ordered
<1> QED  BY <1>1, <1>2, <1>3, <1>4, <1>5, <1>6, <1>7, <1>8, <1>9, <1>10, <1>11,
            <1>12, <1>13, <1>14, <1>15 DEF Next, Process

LEMMA SoundInit == Init => SoundInv
BY DEF Init, SoundInv, Ordered

\* No order fills on a bar that finds trading halted (forward_runner.py:306-316,
\* 447-511).
THEOREM HaltsReachOrders == Spec => []NoEntryWhileHalted
<1>1. SoundInv => NoEntryWhileHalted
  BY DEF SoundInv, NoEntryWhileHalted
<1>2. TypeInv /\ SoundInv /\ [Next]_vars => SoundInv'
  BY SoundStep
<1> QED  BY <1>1, <1>2, TypeInit, TypeStep, SoundInit, PTL DEF Spec

------------------------------------------------------------------------------
(* A stop the file holds is served: while its cooldown runs the tracker is  *)
(* stopped too, with the file's expiry, in every session.                   *)

LEMMA StopStep ==
    ASSUME TypeInv, StopInv, [Next]_vars
    PROVE  StopInv'
<1> SUFFICES ASSUME Serving', pc' # "down"
             PROVE  dd'.state = "stopped" /\ dd'.until = disk'.dd.until
  BY DEF StopInv
<1>0. dd \in Tracker /\ cash \in Int /\ now \in Nat
  BY DEF TypeInv, TypeOK
<1>1. CASE Bar
  <2>1. now' \in Nat /\ now < now' /\ dd' = Updated(dd, cash, now') /\ disk' = disk /\ pc = "idle"
    BY <1>0, <1>1, RunnerAssumption DEF Bar
  <2>2. disk.dd \in Tracker
    BY <2>1 DEF Serving, TypeInv
  <2>3. disk.dd.until \in Int
    BY <2>2 DEF Tracker
  <2>4. Serving /\ (CooldownTicks = 0 \/ now' < disk.dd.until)
    BY <1>0, <2>1, <2>3 DEF Serving
  <2>5. dd.state = "stopped" /\ dd.until = disk.dd.until
    BY <2>1, <2>4 DEF StopInv
  <2> QED  BY <1>0, <2>1, <2>4, <2>5, StopStays
<1>2. CASE DayBoundary
  BY <1>2 DEF DayBoundary, memory, Checkpoint, Serving
<1>3. CASE CloseOne
  BY <1>3 DEF CloseOne, StopInv, Serving
<1>4. CASE FillPending
  BY <1>4 DEF FillPending, StopInv, Serving
<1>5. CASE EntryFill
  BY <1>5 DEF EntryFill, StopInv, Serving
<1>6. CASE ExitFill
  BY <1>6 DEF ExitFill, Checkpoint, Serving
<1>7. CASE NoSignal
  BY <1>7 DEF NoSignal, memory, StopInv, Serving
<1>8. CASE Signals
  BY <1>8 DEF Signals, StopInv, Serving, Halted
<1>9. CASE SubmitOrder
  BY <1>9 DEF SubmitOrder, Checkpoint, Serving
<1>10. CASE OrdersDone
  BY <1>10 DEF OrdersDone, memory, StopInv, Serving
<1>11. CASE Interval
  BY <1>11 DEF Interval, memory, Checkpoint, StopInv, Serving
<1>12. CASE Stop
  BY <1>12 DEF Stop
<1>13. CASE Die
  BY <1>13 DEF Die
<1>14. CASE Restart
  <2>1. disk' = disk /\ disk.kind = "saved" /\ disk.dd.state = "stopped"
    BY <1>14 DEF Restart, Serving
  <2>2. dd' = Restored(disk)
    BY <1>14, <2>1 DEF Restart, Fresh
  <2>3. disk.dd \in Tracker /\ disk.cash \in Int
    BY <2>1 DEF TypeInv
  <2> QED  BY <2>1, <2>2, <2>3, RestoredFacts
<1>15. CASE UNCHANGED vars
  BY <1>15 DEF vars, memory, StopInv, Serving
<1> QED  BY <1>1, <1>2, <1>3, <1>4, <1>5, <1>6, <1>7, <1>8, <1>9, <1>10, <1>11,
            <1>12, <1>13, <1>14, <1>15 DEF Next, Process

LEMMA StopInit == Init => StopInv
BY DEF Init, StopInv, Serving, Nothing

\* The pending orders grow only where an order is made, on a tracker that is not
\* halted.
LEMMA OrdersNeedNoHalt ==
    ASSUME TypeInv, SoundInv, [Next]_vars
    PROVE  \/ Len(pending') <= Len(pending)
           \/ pc = "orders" /\ dd.state \notin Halted
<1>0. pending \in Seq(Position) /\ Len(pending) \in Nat /\ Len(<< >>) = 0
  BY LenProperties, EmptySeq DEF TypeInv, TypeOK
<1>1. CASE pending' = pending \/ pending' = << >>
  BY <1>0, <1>1
<1>2. CASE SubmitOrder
  BY <1>2 DEF SubmitOrder, SoundInv, Ordered, Sound
<1>3. ~SubmitOrder => pending' = pending \/ pending' = << >>
  BY DEF Next, Process, vars, memory, Bar, DayBoundary, CloseOne, FillPending, EntryFill,
         ExitFill, NoSignal, Signals, OrdersDone, Interval, Stop, Die, Restart, Fresh
<1> QED  BY <1>1, <1>2, <1>3

\* While a stop that reached the file runs, no order is made, whatever crashes and
\* restarts follow (live/state.py:143-172, drawdown.py:109-131).
THEOREM SavedStopsAreServed == Spec => SavedStopIsServed
<1>1. ASSUME TypeInv, SoundInv, StopInv, [Next]_vars
      PROVE  /\ disk.kind = "saved" /\ disk.dd.state = "stopped"
             /\ CooldownTicks = 0 \/ now < disk.dd.until
             => Len(pending') <= Len(pending)
  <2>1. Serving /\ pc # "down" => dd.state = "stopped"
    BY <1>1 DEF StopInv
  <2>2. \/ Len(pending') <= Len(pending)
        \/ pc = "orders" /\ dd.state \notin Halted
    BY <1>1, OrdersNeedNoHalt
  <2> QED  BY <2>1, <2>2 DEF Serving, Halted
<1>2. TypeInv /\ SoundInv /\ [Next]_vars => SoundInv'
  BY SoundStep
<1>3. TypeInv /\ StopInv /\ [Next]_vars => StopInv'
  BY StopStep
<1> QED  BY <1>1, <1>2, <1>3, TypeInit, TypeStep, SoundInit, StopInit, PTL
         DEF Spec, SavedStopIsServed

------------------------------------------------------------------------------
(* What a session that starts again knows.                                  *)

\* restore_drawdown_tracker changes no field of a tracker but a reference of 0.
LEMMA RestoredFields ==
    ASSUME NEW c, c.dd \in Tracker
    PROVE  /\ DOMAIN Restored(c) = DOMAIN c.dd
           /\ \A f \in DOMAIN c.dd :
                Restored(c)[f] = c.dd[f] \/ (f \in References /\ c.dd[f] = 0)
<1> DEFINE t == c.dd
           p == OrElse(t.peak, c.cash)
           d == OrElse(t.dayStart, c.cash)
           w == OrElse(t.weekStart, c.cash)
<1>1. /\ p = t.peak \/ t.peak = 0
      /\ d = t.dayStart \/ t.dayStart = 0
      /\ w = t.weekStart \/ t.weekStart = 0
  BY DEF OrElse
<1>2. Restored(c) = [t EXCEPT !.peak = p, !.dayStart = d, !.weekStart = w]
  BY DEF Restored, Tracker
<1>3. t \in Tracker
  OBVIOUS
<1> HIDE DEF t, p, d, w
<1>4. /\ DOMAIN t = {"peak", "dayStart", "weekStart", "day", "week", "losses", "state",
                     "until", "fired", "fires", "resumes"}
      /\ DOMAIN Restored(c) = DOMAIN t
  BY <1>2, <1>3 DEF Tracker
<1>5. ASSUME NEW f \in DOMAIN t
      PROVE  Restored(c)[f] = t[f] \/ (f \in References /\ t[f] = 0)
  <2>1. CASE f \in References
    BY <1>1, <1>2, <1>3, <1>4, <2>1 DEF References, Tracker
  <2>2. CASE f \notin References
    BY <1>2, <1>3, <1>4, <2>2 DEF References
  <2> QED  BY <2>1, <2>2
<1> QED  BY <1>4, <1>5 DEF t

\* A runner that is started again from a checkpoint of the tracker it went down
\* with has it back, but for references of 0 (live/state.py:159-172).
THEOREM TrackersComeBack == Spec => StopKeepsTracker
<1>1. ASSUME TypeInv, [Next]_vars, pc = "down", pc' = "idle", disk = Checkpoint
      PROVE  /\ DOMAIN dd' = DOMAIN dd
             /\ \A f \in DOMAIN dd :
                  dd'[f] = dd[f] \/ (f \in References /\ dd[f] = 0)
  <2>1. Restart
    BY <1>1 DEF Next, Process, vars, Bar, DayBoundary, CloseOne, FillPending, EntryFill,
                ExitFill, NoSignal, Signals, SubmitOrder, OrdersDone, Interval, Stop, Die
  <2>2. disk.kind = "saved" /\ disk.dd = dd
    BY <1>1 DEF Checkpoint
  <2>3. dd' = Restored(disk)
    BY <2>1, <2>2 DEF Restart, Fresh
  <2>4. disk.dd \in Tracker
    BY <1>1, <2>2 DEF TypeInv, TypeOK
  <2>5. /\ DOMAIN Restored(disk) = DOMAIN disk.dd
        /\ \A f \in DOMAIN disk.dd :
             Restored(disk)[f] = disk.dd[f] \/ (f \in References /\ disk.dd[f] = 0)
    BY <2>4, RestoredFields
  <2> QED  BY <2>2, <2>3, <2>5
<1> QED  BY <1>1, TypeInit, TypeStep, PTL DEF Spec, StopKeepsTracker

------------------------------------------------------------------------------
(* The ladder, as long as a session lasts.                                  *)

\* Only a stop that will end has an expiry.
Expiry(t) == t.state # "stopped" \/ CooldownTicks = 0 => t.until = NoUntil

ExpiryInv == Expiry(dd) /\ (disk.kind = "saved" => Expiry(disk.dd))

\* An update is a step of the ladder.
LEMMA UpdateClimbs ==
    ASSUME dd \in Tracker, Expiry(dd), NEW eq \in Int,
           now \in Nat, now' \in Nat, now <= now', dd' = Updated(dd, eq, now')
    PROVE  Ladder!Next /\ Expiry(dd)'
<1>1. /\ dd'.day = DayOf(now')
      /\ Waits(dd, eq, now') \/ Opens(dd, eq, now') \/ Moves(dd, eq, now')
  BY UpdateOutcome
<1>2. Ladder!Advance
  BY <1>1 DEF Ladder!Advance, DayOf
<1>3. dd.state = "stopped" => (CooldownOver(dd, now') <=> Ladder!Due)
  BY DEF CooldownOver, Ladder!Due, NoUntil, Ladder!None
<1>4. dd.state # "stopped" \/ CooldownTicks = 0 => dd.until = NoUntil
  BY DEF Expiry
<1>5. CASE Waits(dd, eq, now')
  <2>1. dd.state = "stopped" /\ ~CooldownOver(dd, now') /\ dd' = Rolled(dd, eq, now')
    BY <1>5 DEF Waits
  <2>2. dd'.until = dd.until /\ dd'.state = dd.state
    BY <2>1, RolledFacts
  <2>3. Ladder!Wait
    BY <1>2, <1>3, <2>1, <2>2 DEF Ladder!Wait
  <2>4. Expiry(dd)'
    BY <1>4, <2>1, <2>2 DEF Expiry
  <2> QED  BY <2>3, <2>4 DEF Ladder!Next
<1>6. CASE Opens(dd, eq, now')
  <2>1. Ladder!Stop
    BY <1>2, <1>3, <1>4, <1>6, CalendarAssumption
    DEF Opens, Ladder!Stop, NoUntil, Ladder!None
  <2>2. Expiry(dd)'
    BY <1>4, <1>6, CalendarAssumption DEF Opens, Expiry
  <2> QED  BY <2>1, <2>2 DEF Ladder!Next
<1>7. CASE Moves(dd, eq, now')
  <2>1. dd'.until = NoUntil
    BY <1>4, <1>7 DEF Moves
  <2>2. Ladder!Move
    BY <1>1, <1>2, <1>3, <1>7, <2>1
    DEF Moves, Ladder!Move, Ladder!Trading, OpStates, NoUntil, Ladder!None
  <2>3. Expiry(dd)'
    BY <2>1 DEF Expiry
  <2> QED  BY <2>2, <2>3 DEF Ladder!Next
<1> QED  BY <1>1, <1>5, <1>6, <1>7

\* The steps of the runner, as the ladder sees them.
LEMMA RunnerClimbs ==
    ASSUME TypeInv, ExpiryInv, [Next]_vars
    PROVE  /\ pc # "down" => Ladder!Next \/ UNCHANGED Ladder!ladder
           /\ ExpiryInv'
<1>1. /\ dd \in Tracker /\ cash \in Int /\ now \in Nat
      /\ disk.kind = "saved" => disk.dd \in Tracker /\ disk.cash \in Int
  BY DEF TypeInv, TypeOK
<1>2. Checkpoint.kind = "saved" /\ Checkpoint.dd = dd
  BY DEF Checkpoint
<1>3. CASE Bar
  <2>1. dd' = Updated(dd, cash, now') /\ disk' = disk
    BY <1>3 DEF Bar
  <2>2. now' \in Nat /\ now <= now'
    BY <1>1, <1>3, RunnerAssumption DEF Bar
  <2>3. Ladder!Next /\ Expiry(dd)'
    BY <1>1, <2>1, <2>2, UpdateClimbs DEF ExpiryInv
  <2> QED  BY <2>1, <2>3 DEF ExpiryInv, Expiry
<1>4. CASE Signals
  <2>1. dd' = Updated(dd, cash, now') /\ disk' = disk /\ now' = now
    BY <1>4 DEF Signals, Refreshed
  <2>2. Ladder!Next /\ Expiry(dd)'
    BY <1>1, <2>1, UpdateClimbs DEF ExpiryInv
  <2> QED  BY <2>1, <2>2 DEF ExpiryInv, Expiry
<1>5. CASE Restart
  <2>1. pc = "down" /\ disk' = disk
    BY <1>5 DEF Restart
  <2>2. CASE disk.kind = "saved"
    <3>1. dd' = Restored(disk)
      BY <1>5, <2>2 DEF Restart, Fresh
    <3>2. dd'.state = disk.dd.state /\ dd'.until = disk.dd.until
      BY <1>1, <2>2, <3>1, RestoredFacts
    <3> QED  BY <2>1, <2>2, <3>2 DEF ExpiryInv, Expiry
  <2>3. CASE disk.kind # "saved"
    <3>1. dd' = NewTracker(Capital)
      BY <1>5, <2>3 DEF Restart, Fresh
    <3>2. dd'.until = NoUntil
      BY <3>1 DEF NewTracker
    <3> QED  BY <2>1, <2>3, <3>2 DEF ExpiryInv, Expiry
  <2> QED  BY <2>2, <2>3
<1>6. CASE ExitFill
  <2>1. dd'.state = dd.state /\ dd'.until = dd.until /\ dd'.day = dd.day /\ now' = now
    BY <1>1, <1>6 DEF ExitFill, RecordResult, Tracker
  <2>2. disk'.kind = "saved" => disk'.dd = dd'
    BY <1>6 DEF ExitFill, Checkpoint
  <2>3. Expiry(dd)'
    BY <2>1 DEF ExpiryInv, Expiry
  <2> QED  BY <2>1, <2>2, <2>3 DEF ExpiryInv, Expiry, Ladder!ladder
<1>7. CASE /\ UNCHANGED <<dd, now>>
           /\ disk' \in {disk, Checkpoint, Checkpoint', Torn}
  <2>1. disk'.kind = "saved" => disk' = disk \/ disk'.dd = dd
    BY <1>7 DEF Checkpoint, Torn
  <2> QED  BY <1>7, <2>1 DEF ExpiryInv, Expiry, Ladder!ladder
<1>8. \/ Bar \/ Signals \/ Restart \/ ExitFill
      \/ UNCHANGED <<dd, now>> /\ disk' \in {disk, Checkpoint, Checkpoint', Torn}
  BY DEF Next, Process, vars, memory, DayBoundary, CloseOne, FillPending, EntryFill,
         NoSignal, SubmitOrder, OrdersDone, Interval, Stop, Die
<1> QED  BY <1>3, <1>4, <1>5, <1>6, <1>7, <1>8

\* As long as a session lasts the runner's tracker takes only the steps of
\* RiskLadder: two updates a bar, the results between them and what a checkpoint
\* restored notwithstanding (forward_runner.py:303 and 448).
THEOREM SessionsClimbTheLadder == Spec => SessionsFollowLadder
<1>1. Init => ExpiryInv
  BY DEF Init, ExpiryInv, Expiry, NewTracker, Nothing
<1>2. TypeInv /\ ExpiryInv /\ [Next]_vars => ExpiryInv'
  BY RunnerClimbs
<1>3. TypeInv /\ ExpiryInv /\ [Next]_vars =>
        (pc # "down" => Ladder!Next \/ UNCHANGED Ladder!ladder)
  BY RunnerClimbs
<1> QED  BY <1>1, <1>2, <1>3, TypeInit, TypeStep, PTL DEF Spec, SessionsFollowLadder

------------------------------------------------------------------------------
(* The limits hold for positions, orders that rest and orders about to be   *)
(* made together.                                                           *)

LEMMA LimitInit == Init => LimitInv
<1>1. Len(<< >>) = 0
  BY EmptySeq
<1> QED  BY <1>1, RunnerAssumption DEF Init, LimitInv, Planned

LEMMA LimitStep ==
    ASSUME TypeInv, SoundInv, LimitInv, [Next]_vars
    PROVE  LimitInv'
<1>0. /\ open \in Seq(Position) /\ Len(open) \in Nat
      /\ pending \in Seq(Position) /\ Len(pending) \in Nat
      /\ Len(<< >>) = 0 /\ Planned \in Nat
      /\ MaxConcurrent \in Nat /\ MaxPerPair \in Nat
  <2>1. open \in Seq(Position) /\ pending \in Seq(Position)
    BY DEF TypeInv, TypeOK
  <2>2. Planned \in Nat
    BY LenProperties DEF Planned, TypeInv
  <2> QED  BY <2>1, <2>2, LenProperties, EmptySeq, RunnerAssumption
<1>1. ASSUME UNCHANGED <<open, pending>>, pc' # "orders"
      PROVE  LimitInv'
  <2>1. open' = open /\ pending' = pending
    BY <1>1
  <2>2. Planned' = 0
    BY <1>1 DEF Planned
  <2>3. /\ Len(open) + Len(pending) <= MaxConcurrent
        /\ Len(open) + Len(pending) <= MaxPerPair
    BY <1>0 DEF LimitInv
  <2> QED  BY <1>0, <2>1, <2>2, <2>3 DEF LimitInv
<1>2. CASE CloseOne
  <2>1. PICK i \in DOMAIN open : open' = RemoveAt(open, i)
    BY <1>2 DEF CloseOne
  <2>2. i \in 1 .. Len(open)
    BY <1>0, LenProperties
  <2>3. Len(open') = Len(open) - 1
    BY <1>0, <2>1, <2>2, RemoveAtFacts
  <2>4. pending' = pending /\ pc' = "broker"
    BY <1>2 DEF CloseOne
  <2>5. Planned' = 0
    BY <2>4 DEF Planned
  <2>6. /\ Len(open) + Len(pending) <= MaxConcurrent
        /\ Len(open) + Len(pending) <= MaxPerPair
    BY <1>0 DEF LimitInv
  <2>7. Len(open') + Len(pending') + Planned' = Len(open) + Len(pending) - 1
    BY <1>0, <2>3, <2>4, <2>5
  <2> QED  BY <1>0, <2>6, <2>7 DEF LimitInv
<1>3. CASE FillPending
  <2>1. Len(open') = Len(open) + Len(pending)
    BY <1>0, <1>3, ConcatProperties DEF FillPending
  <2>2. pending' = << >> /\ pc' = "fills"
    BY <1>3 DEF FillPending
  <2>3. Planned' = 0
    BY <2>2 DEF Planned
  <2>4. /\ Len(open) + Len(pending) <= MaxConcurrent
        /\ Len(open) + Len(pending) <= MaxPerPair
    BY <1>0 DEF LimitInv
  <2>5. Len(open') + Len(pending') + Planned' = Len(open) + Len(pending)
    BY <1>0, <2>1, <2>2, <2>3
  <2> QED  BY <1>0, <2>4, <2>5 DEF LimitInv
<1>4. CASE Signals
  <2>1. pending' = << >> /\ open' = open /\ pc' = "orders" /\ pc = "fills" /\ pending = << >>
    BY <1>4 DEF Signals, SoundInv
  <2>2. Len(open) <= MaxConcurrent /\ Len(open) <= MaxPerPair
    BY <1>0, <2>1 DEF LimitInv, Planned
  <2>3. /\ Len(open) + Len(todo') <= MaxConcurrent
        /\ Len(open) + Len(todo') <= MaxPerPair
        /\ Len(todo') \in Nat
    <3>1. CASE todo' = << >>
      BY <1>0, <2>2, <3>1
    <3>2. CASE todo' # << >>
      <4>1. PICK dirs \in CandidateLists, sized \in BOOLEAN : todo' = Selected(dirs, sized)
        BY <1>4, <3>2 DEF Signals
      <4>2. todo' \in Seq(Position)
        BY <4>1, SelectedType
      <4> QED  BY <1>0, <2>2, <4>1, <4>2, SelectedFacts, LenProperties
    <3> QED  BY <3>1, <3>2
  <2> QED  BY <1>0, <2>1, <2>3 DEF LimitInv, Planned
<1>5. CASE SubmitOrder
  <2>1. todo \in Seq(Position) /\ todo # << >> /\ pc = "orders"
    BY <1>5 DEF SubmitOrder, TypeInv
  <2>2. Head(todo) \in Position /\ Len(Tail(todo)) = Len(todo) - 1 /\ Len(todo) \in Nat
    BY <2>1, HeadTailProperties, LenProperties
  <2>3. Len(Append(pending, Head(todo))) = Len(pending) + 1
    BY <1>0, <2>2, AppendProperties
  <2> QED  BY <1>0, <1>5, <2>1, <2>2, <2>3 DEF SubmitOrder, LimitInv, Planned
<1>6. CASE Restart
  <2>1. open' = << >> /\ pending' = << >> /\ pc' = "idle"
    BY <1>6 DEF Restart, Fresh
  <2> QED  BY <1>0, <2>1 DEF LimitInv, Planned
<1>7. CASE UNCHANGED vars
  BY <1>7 DEF vars, memory, LimitInv, Planned
<1>8. ~(CloseOne \/ FillPending \/ Signals \/ SubmitOrder \/ Restart \/ UNCHANGED vars)
      => UNCHANGED <<open, pending>> /\ pc' # "orders"
  BY DEF Next, Process, memory, Bar, DayBoundary, EntryFill, ExitFill, NoSignal, OrdersDone,
         Interval, Stop, Die
<1> QED  BY <1>1, <1>2, <1>3, <1>4, <1>5, <1>6, <1>7, <1>8

\* The positions and the orders that will open more never exceed the limits
\* (selector.py:69-105, constraints.py:43-138).
THEOREM LimitsHold == Spec => []PositionLimits
<1>1. TypeInv /\ LimitInv => PositionLimits
  <2> SUFFICES ASSUME TypeInv, LimitInv
               PROVE  PositionLimits
    OBVIOUS
  <2>1. Len(open) \in Nat /\ Len(pending) \in Nat /\ Planned \in Nat
        /\ MaxConcurrent \in Nat /\ MaxPerPair \in Nat
    BY LenProperties, RunnerAssumption DEF Planned, TypeInv, TypeOK
  <2> QED  BY <2>1 DEF LimitInv, PositionLimits
<1>2. TypeInv /\ SoundInv /\ [Next]_vars => SoundInv'
  BY SoundStep
<1>3. TypeInv /\ SoundInv /\ LimitInv /\ [Next]_vars => LimitInv'
  BY LimitStep
<1> QED  BY <1>1, <1>2, <1>3, TypeInit, TypeStep, SoundInit, LimitInit, PTL DEF Spec

------------------------------------------------------------------------------
(* The file of the first session is complete between bars: cash that is not *)
(* in it belongs to an exit whose fill is still to be handled.              *)

LEMMA SavedInit == Init => SavedInv
BY DEF Init, SavedInv, FileCash, Nothing

LEMMA SavedStep ==
    ASSUME TypeInv, SoundInv, SavedInv, [Next]_vars
    PROVE  SavedInv'
<1> SUFFICES ASSUME restarts' = 0, pc' # "down"
             PROVE  /\ disk'.kind # "torn"
                    /\ \/ FileCash' = cash'
                       \/ pc' \in {"broker", "fills"} /\ \E i \in 1 .. Len(todo') : todo'[i].kind = "exit"
                    /\ pending' # << >> => disk'.kind = "saved" /\ disk'.pending = pending'
  BY DEF SavedInv
<1>0. restarts = 0 /\ pc # "down" /\ ~Restart /\ ~Stop /\ ~Die
  <2>1. ~Restart
    BY DEF Restart, TypeInv, TypeOK
  <2>2. ~Stop /\ ~Die
    BY DEF Stop, Die
  <2> QED  BY <2>1, <2>2 DEF Next, Process, Bar, DayBoundary, CloseOne, FillPending, EntryFill,
              ExitFill, NoSignal, Signals, SubmitOrder, OrdersDone, Interval, vars
<1>1. /\ disk.kind # "torn"
      /\ \/ FileCash = cash
         \/ pc \in {"broker", "fills"} /\ \E i \in 1 .. Len(todo) : todo[i].kind = "exit"
      /\ pending # << >> => disk.kind = "saved" /\ disk.pending = pending
  BY <1>0 DEF SavedInv
<1>2. Len(<< >>) = 0
  BY EmptySeq
<1>3. pc \in {"broker", "fills"} => todo \in Seq(Item) /\ Len(todo) \in Nat
  BY LenProperties DEF TypeInv
<1>4. CASE disk' = Checkpoint'
  BY <1>4 DEF Checkpoint, FileCash
<1>5. CASE UNCHANGED <<disk, cash, pending, todo>> /\ (pc \in {"broker", "fills"} => todo = << >>)
  BY <1>1, <1>2, <1>5 DEF FileCash
<1>6. CASE CloseOne
  <2>1. PICK i \in DOMAIN open, pnl \in Int : todo' = Append(todo, [kind |-> "exit", pnl |-> pnl])
    BY <1>6, CloseFacts
  <2> DEFINE e == [kind |-> "exit", pnl |-> pnl]
  <2>2. e \in Item /\ e.kind = "exit" /\ todo \in Seq(Item) /\ Len(todo) \in Nat
    BY <1>3, <1>6 DEF CloseOne, Item
  <2> HIDE DEF e
  <2>3. Len(todo') = Len(todo) + 1 /\ todo'[Len(todo) + 1] = e
    BY <2>1, <2>2, AppendProperties DEF e
  <2>4. Len(todo) + 1 \in 1 .. Len(todo') /\ todo'[Len(todo) + 1].kind = "exit"
    BY <2>2, <2>3
  <2> QED  BY <1>1, <1>6, <2>4 DEF CloseOne
<1>7. CASE FillPending
  <2> DEFINE e == [k \in DOMAIN pending |-> [kind |-> "entry", pnl |-> 0]]
  <2>1. pending \in Seq(Position) /\ todo \in Seq(Item) /\ Len(todo) \in Nat /\ pc = "broker"
    BY <1>3, <1>7 DEF FillPending, TypeInv, TypeOK
  <2>2. e \in Seq(Item) /\ Len(e) \in Nat
    BY <2>1, EntriesFacts, LenProperties
  <2> HIDE DEF e
  <2>3. todo' = todo \o e
    BY <1>7 DEF FillPending, e
  <2>4. /\ Len(todo') = Len(todo) + Len(e)
        /\ \A i \in 1 .. Len(todo) : i \in 1 .. Len(todo') /\ todo'[i] = todo[i]
    BY <2>1, <2>2, <2>3, ConcatProperties
  <2>5. FileCash' = FileCash /\ cash' = cash /\ disk' = disk /\ pending' = << >> /\ pc' = "fills"
    BY <1>7 DEF FillPending, FileCash
  <2> QED  BY <1>1, <2>4, <2>5
<1>8. CASE EntryFill
  <2>1. todo \in Seq(Item) /\ todo # << >> /\ Head(todo).kind = "entry" /\ pc = "fills"
        /\ Len(todo) \in Nat /\ Head(todo) = todo[1]
    BY <1>3, <1>8 DEF EntryFill
  <2>2. Len(Tail(todo)) = Len(todo) - 1 /\ \A i \in 1 .. Len(Tail(todo)) : Tail(todo)[i] = todo[i + 1]
    BY <2>1, HeadTailProperties
  <2>3. ASSUME NEW i \in 1 .. Len(todo), todo[i].kind = "exit"
        PROVE  i - 1 \in 1 .. Len(Tail(todo)) /\ Tail(todo)[i - 1].kind = "exit"
    <3>1. i # 1
      BY <2>1, <2>3
    <3>2. i - 1 \in 1 .. Len(Tail(todo)) /\ (i - 1) + 1 = i
      BY <2>1, <2>2, <3>1
    <3> QED  BY <2>2, <2>3, <3>2
  <2>4. FileCash' = FileCash /\ cash' = cash /\ disk' = disk /\ pending' = pending /\ pc' = "fills"
        /\ todo' = Tail(todo)
    BY <1>8 DEF EntryFill, FileCash
  <2> QED  BY <1>1, <2>3, <2>4
<1>9. CASE Signals
  <2>1. pc = "fills" /\ pending = << >> /\ pending' = << >> /\ todo = << >>
        /\ cash' = cash /\ disk' = disk
    BY <1>9 DEF Signals, SoundInv
  <2> QED  BY <1>1, <1>2, <2>1 DEF FileCash
<1>10. CASE Interval
  <2>1. UNCHANGED <<disk, cash, pending, todo>> \/ disk' = Checkpoint'
    BY <1>10 DEF Interval, memory, Checkpoint
  <2>2. pc = "interval"
    BY <1>10 DEF Interval
  <2> QED  BY <1>4, <1>5, <2>1, <2>2
<1>11. CASE DayBoundary \/ ExitFill \/ SubmitOrder
  BY <1>4, <1>11 DEF DayBoundary, ExitFill, SubmitOrder, memory, Checkpoint
<1>12. CASE Bar \/ NoSignal \/ OrdersDone \/ UNCHANGED vars
  <2>1. CASE UNCHANGED vars
    BY <1>1, <2>1 DEF vars, memory, FileCash
  <2>2. CASE Bar \/ NoSignal \/ OrdersDone
    BY <1>5, <2>2 DEF Bar, NoSignal, OrdersDone, memory
  <2> QED  BY <1>12, <2>1, <2>2
<1> QED  BY <1>0, <1>6, <1>7, <1>8, <1>9, <1>10, <1>11, <1>12 DEF Next, Process

\* Between two bars of the first session the file has the cash and every order
\* that will fill (forward_runner.py:329-368, 485-511).
THEOREM TradesReachTheFile == Spec => []TradesAreSaved
<1>1. SavedInv => TradesAreSaved
  BY DEF SavedInv, TradesAreSaved, FileCash
<1>2. TypeInv /\ SoundInv /\ [Next]_vars => SoundInv'
  BY SoundStep
<1>3. TypeInv /\ SoundInv /\ SavedInv /\ [Next]_vars => SavedInv'
  BY SavedStep
<1> QED  BY <1>1, <1>2, <1>3, TypeInit, TypeStep, SoundInit, SavedInit, PTL DEF Spec

------------------------------------------------------------------------------
(* The file is recent: the bars after the one it was written at hold no     *)
(* multiple of the interval, and its loss streak is the tracker's.          *)

\* A number less its remainder is a multiple.
LEMMA MultipleBelow ==
    ASSUME NEW b \in Nat, NEW c \in Nat, c > 0
    PROVE  /\ (b - (b % c)) % c = 0
           /\ b % c \in Int /\ 0 <= b % c /\ b % c < c
BY SMT

\* Of as many bars in a row as the interval is long one is a multiple of it.
LEMMA MultipleInReach ==
    ASSUME NEW a \in Nat, NEW b \in Nat, a + CheckpointInterval <= b
    PROVE  \E m \in a + 1 .. b : m % CheckpointInterval = 0
<1>1. CheckpointInterval \in Nat /\ CheckpointInterval > 0
  BY RunnerAssumption
<1>2. /\ (b - (b % CheckpointInterval)) % CheckpointInterval = 0
      /\ b % CheckpointInterval \in Int /\ 0 <= b % CheckpointInterval
      /\ b % CheckpointInterval < CheckpointInterval
  BY <1>1, MultipleBelow, Zenon
<1>3. \A r \in Int : 0 <= r /\ r < CheckpointInterval => b - r \in a + 1 .. b
  BY <1>1
<1>4. b - (b % CheckpointInterval) \in a + 1 .. b
  BY <1>2, <1>3, Zenon
<1> QED  BY <1>2, <1>4, Zenon

LEMMA RecentInit == Init => RecentInv
BY DEF Init, RecentInv, SavedBars, SavedLosses, Nothing, NewTracker

LEMMA RecentStep ==
    ASSUME TypeInv, RecentInv, [Next]_vars
    PROVE  RecentInv'
<1> SUFFICES ASSUME pc' # "down", disk'.kind # "torn"
             PROVE  /\ SavedLosses' = dd'.losses
                    /\ SavedBars' <= bars'
                    /\ \A m \in SavedBars' + 1 .. bars' :
                          m % CheckpointInterval = 0 => m = bars' /\ pc' # "idle"
  BY DEF RecentInv
<1>0. dd \in Tracker /\ cash \in Int /\ now \in Nat /\ bars \in Nat /\ SavedBars \in Nat
  BY DEF TypeInv, TypeOK, SavedBars
<1>1. pc # "down" /\ disk.kind # "torn" =>
         /\ SavedLosses = dd.losses
         /\ SavedBars <= bars
         /\ \A m \in SavedBars + 1 .. bars : m % CheckpointInterval = 0 => m = bars /\ pc # "idle"
  BY DEF RecentInv
<1>2. ASSUME disk' = Checkpoint', bars' \in Nat
      PROVE  /\ SavedLosses' = dd'.losses
             /\ SavedBars' <= bars'
             /\ \A m \in SavedBars' + 1 .. bars' :
                   m % CheckpointInterval = 0 => m = bars' /\ pc' # "idle"
  <2>1. SavedLosses' = dd'.losses /\ SavedBars' = bars'
    BY <1>2 DEF Checkpoint, SavedLosses, SavedBars
  <2>2. \A k \in Nat : k <= k /\ k + 1 .. k = {}
    OBVIOUS
  <2> QED  BY <1>2, <2>1, <2>2
<1>3. ASSUME UNCHANGED <<disk, bars>>, dd'.losses = dd.losses, pc # "down", pc # "idle", pc' # "idle"
      PROVE  /\ SavedLosses' = dd'.losses
             /\ SavedBars' <= bars'
             /\ \A m \in SavedBars' + 1 .. bars' :
                   m % CheckpointInterval = 0 => m = bars' /\ pc' # "idle"
  BY <1>1, <1>3 DEF SavedLosses, SavedBars
<1>4. CASE Bar
  <2>1. /\ disk' = disk /\ bars' = bars + 1 /\ pc = "idle" /\ pc' # "idle"
        /\ dd' = Updated(dd, cash, now') /\ now' \in Nat
    BY <1>0, <1>4, RunnerAssumption DEF Bar
  <2>2. dd'.losses = dd.losses
    BY <1>0, <2>1, UpdateKeepsLosses
  <2>3. SavedLosses' = SavedLosses /\ SavedBars' = SavedBars
    BY <2>1 DEF SavedLosses, SavedBars
  <2>4. SavedLosses = dd.losses /\ SavedBars <= bars
        /\ \A m \in SavedBars + 1 .. bars : m % CheckpointInterval # 0
    BY <1>1, <2>1
  <2>5. \A m \in SavedBars + 1 .. bars + 1 : m # bars + 1 => m \in SavedBars + 1 .. bars
    BY <1>0
  <2> QED  BY <1>0, <2>1, <2>2, <2>3, <2>4, <2>5
<1>5. CASE Signals
  <2>1. dd' = Updated(dd, cash, now) /\ UNCHANGED <<disk, bars>> /\ pc = "fills" /\ pc' = "orders"
    BY <1>5 DEF Signals, Refreshed
  <2>2. dd'.losses = dd.losses
    BY <1>0, <2>1, UpdateKeepsLosses
  <2> QED  BY <1>3, <2>1, <2>2
<1>6. CASE Interval
  <2>1. CASE SaveIsDue
    <3>1. disk' = Checkpoint' /\ bars' \in Nat
      BY <1>0, <1>6, <2>1 DEF Interval, memory, Checkpoint
    <3> QED  BY <1>2, <3>1
  <2>2. CASE ~SaveIsDue
    <3>1. disk' = disk /\ bars' = bars /\ dd' = dd /\ pc = "interval"
      BY <1>6, <2>2 DEF Interval, memory
    <3>2. SavedLosses' = SavedLosses /\ SavedBars' = SavedBars
      BY <3>1 DEF SavedLosses, SavedBars
    <3>3. bars % CheckpointInterval # 0
      BY <2>2 DEF SaveIsDue
    <3>4. SavedLosses = dd.losses /\ SavedBars <= bars
          /\ \A m \in SavedBars + 1 .. bars : m % CheckpointInterval = 0 => m = bars
      BY <1>1, <3>1
    <3>5. \A m \in SavedBars + 1 .. bars : m % CheckpointInterval # 0
      BY <3>3, <3>4
    <3> QED  BY <3>1, <3>2, <3>4, <3>5
  <2> QED  BY <2>1, <2>2
<1>7. CASE DayBoundary \/ ExitFill \/ SubmitOrder
  <2>1. disk' = Checkpoint' /\ bars' \in Nat
    BY <1>0, <1>7 DEF DayBoundary, ExitFill, SubmitOrder, memory, Checkpoint
  <2> QED  BY <1>2, <2>1
<1>8. CASE CloseOne \/ FillPending \/ EntryFill \/ NoSignal \/ OrdersDone
  <2>1. UNCHANGED <<disk, bars, dd>> /\ pc \notin {"down", "idle"} /\ pc' # "idle"
    BY <1>8 DEF CloseOne, FillPending, EntryFill, NoSignal, OrdersDone, memory
  <2> QED  BY <1>3, <2>1
<1>9. CASE Restart
  <2>1. CASE disk.kind = "saved"
    <3>1. disk' = disk /\ dd' = Restored(disk) /\ bars' = disk.bars
      BY <1>9, <2>1 DEF Restart, Fresh
    <3>2. disk.dd \in Tracker /\ disk.cash \in Int /\ disk.bars \in Nat
      BY <2>1 DEF TypeInv
    <3>3. dd'.losses = disk.dd.losses
      BY <3>1, <3>2, RestoredFacts
    <3>4. SavedLosses' = disk.dd.losses /\ SavedBars' = disk.bars
      BY <2>1, <3>1 DEF SavedLosses, SavedBars
    <3> QED  BY <3>1, <3>2, <3>3, <3>4
  <2>2. CASE disk.kind # "saved"
    <3>1. disk' = disk /\ dd' = NewTracker(Capital) /\ bars' = 0
      BY <1>9, <2>2 DEF Restart, Fresh
    <3>2. SavedLosses' = 0 /\ SavedBars' = 0
      BY <2>2, <3>1 DEF SavedLosses, SavedBars
    <3> QED  BY <3>1, <3>2 DEF NewTracker
  <2> QED  BY <2>1, <2>2
<1>10. CASE Stop \/ Die
  BY <1>10 DEF Stop, Die
<1>11. CASE UNCHANGED vars
  BY <1>1, <1>11 DEF vars, memory, SavedLosses, SavedBars
<1> QED  BY <1>4, <1>5, <1>6, <1>7, <1>8, <1>9, <1>10, <1>11 DEF Next, Process

\* Between two bars a file that loads is short of fewer bars than the checkpoint
\* interval, and of no loss of the streak (forward_runner.py:287, 329-368).
THEOREM CheckpointsAreRecent == Spec => []CheckpointIsRecent
<1>1. TypeInv /\ RecentInv => CheckpointIsRecent
  <2> SUFFICES ASSUME TypeInv, RecentInv, pc = "idle", disk.kind # "torn"
               PROVE  bars - SavedBars < CheckpointInterval /\ SavedLosses = dd.losses
    BY DEF CheckpointIsRecent, SavedBars, SavedLosses, NewTracker
  <2>1. bars \in Nat /\ SavedBars \in Nat /\ CheckpointInterval \in Nat
    BY RunnerAssumption DEF TypeInv, TypeOK, SavedBars
  <2>2. /\ SavedLosses = dd.losses
        /\ \A m \in SavedBars + 1 .. bars : m % CheckpointInterval # 0
    BY DEF RecentInv
  <2>3. ~(SavedBars + CheckpointInterval <= bars)
    BY <2>1, <2>2, MultipleInReach
  <2> QED  BY <2>1, <2>2, <2>3
<1>2. TypeInv /\ RecentInv /\ [Next]_vars => RecentInv'
  BY RecentStep
<1> QED  BY <1>1, <1>2, TypeInit, TypeStep, RecentInit, PTL DEF Spec

------------------------------------------------------------------------------
(* The trades of a day: entries of the day and orders that may still become *)
(* entries of it stay below the cap and the room of a review.               *)

LEMMA DayMonotonic ==
    ASSUME NEW a \in Nat, NEW b \in Nat, a <= b
    PROVE  DayOf(a) <= DayOf(b)
BY CalendarAssumption, SMTT(30) DEF DayOf

LEMMA DayInit == Init => DayInv
<1>1. ASSUME Init PROVE DayInv
  <2>1. DayOf(now) \in Nat /\ seen.day = -1 /\ seen.entries = 0 /\ trades.day = -1
    BY <1>1, CalendarType DEF Init, NoDay
  <2>2. pc = "idle" /\ MaxTradesPerDay + MaxPerPair \in Nat \ {0}
    BY <1>1, RunnerAssumption DEF Init
  <2> QED  BY <2>1, <2>2 DEF DayInv, Bound
<1> QED  BY <1>1

LEMMA DayStep ==
    ASSUME TypeInv, SoundInv, LimitInv, DayInv, [Next]_vars
    PROVE  DayInv'
<1> SUFFICES ASSUME restarts' = 0
             PROVE  /\ seen'.day <= DayOf(now') /\ trades'.day <= DayOf(now')
                    /\ seen'.entries < Bound
                    /\ trades'.day = DayOf(now') /\ seen'.day # DayOf(now') => trades'.count = 0
                    /\ seen'.day = DayOf(now') => trades' = [day |-> seen'.day, count |-> seen'.entries]
                    /\ pc' # "fills" /\ seen'.day = DayOf(now') =>
                          seen'.entries + Len(pending') + Planned' < Bound
                    /\ pc' = "broker" => EntriesLeft(0)'
                    /\ pc' = "fills" => \E n \in 0 .. Len(todo') :
                          /\ n <= MaxPerPair /\ \A i \in 1 .. Len(todo') - n : todo'[i].kind = "exit"
                          /\ seen'.day = DayOf(now') => seen'.entries + n < Bound
  BY DEF DayInv, EntriesLeft, Bound
<1>0. /\ seen \in [day: Int, entries: Nat, lockDay: Int, tripped: BOOLEAN]
      /\ trades \in [day: Int, count: Nat]
      /\ now \in Nat /\ DayOf(now) \in Int /\ cash \in Int /\ dd \in Tracker
      /\ Bound \in Nat /\ Planned \in Nat /\ Len(pending) \in Nat /\ Len(open) \in Nat
      /\ MaxTradesPerDay \in Nat \ {0} /\ MaxPerPair \in Nat \ {0}
      /\ Len(<< >>) = 0 /\ Bound = MaxTradesPerDay + MaxPerPair
  <2>1. Planned \in Nat /\ Len(pending) \in Nat /\ Len(open) \in Nat
    BY LenProperties DEF Planned, TypeInv, TypeOK
  <2> QED  BY <2>1, CalendarType, EmptySeq, RunnerAssumption DEF TypeInv, TypeOK, Bound
<1>1. restarts = 0 /\ ~Restart
  <2>1. ~Restart
    BY DEF Restart, TypeInv, TypeOK
  <2> QED  BY <2>1 DEF Next, Process, Bar, DayBoundary, CloseOne, FillPending, EntryFill,
              ExitFill, NoSignal, Signals, SubmitOrder, OrdersDone, Interval, Stop, Die, vars
<1>2. /\ seen.day <= DayOf(now) /\ trades.day <= DayOf(now)
      /\ seen.entries < Bound
      /\ trades.day = DayOf(now) /\ seen.day # DayOf(now) => trades.count = 0
      /\ seen.day = DayOf(now) => trades = [day |-> seen.day, count |-> seen.entries]
      /\ pc # "fills" /\ seen.day = DayOf(now) =>
            seen.entries + Len(pending) + Planned < Bound
      /\ pc = "broker" => EntriesLeft(0)
      /\ pc = "fills" => \E n \in 0 .. Len(todo) :
            /\ n <= MaxPerPair /\ EntriesLeft(n)
            /\ seen.day = DayOf(now) => seen.entries + n < Bound
  BY <1>1 DEF DayInv
<1>3. ASSUME UNCHANGED <<seen, now, trades, pending>>, pc # "fills", pc' \notin {"fills", "broker", "orders"}
      PROVE  DayInv'
  <2>1. Planned' = 0
    BY <1>3 DEF Planned
  <2>2. seen.day = DayOf(now) => seen.entries + Len(pending) + 0 < Bound
    BY <1>0, <1>2, <1>3
  <2> QED  BY <1>2, <1>3, <2>1, <2>2 DEF DayInv, Bound
<1>4. CASE Bar
  <2>1. now' \in Nat /\ now <= now' /\ seen'.day = seen.day /\ seen'.entries = seen.entries
    BY <1>0, <1>4, RunnerAssumption, NotedType DEF Bar
  <2>2. DayOf(now) <= DayOf(now') /\ DayOf(now') \in Int
    BY <1>0, <2>1, DayMonotonic, CalendarType
  <2>3. /\ seen.day \in Int /\ (seen.day = DayOf(now') => seen.day = DayOf(now))
        /\ trades.day \in Int /\ (trades.day = DayOf(now') => trades.day = DayOf(now) /\ DayOf(now') = DayOf(now))
        /\ seen.day <= DayOf(now') /\ trades.day <= DayOf(now')
    BY <1>0, <1>2, <2>2
  <2>4. UNCHANGED <<trades, pending, todo>> /\ pc = "idle" /\ pc' \in {"boundary", "broker"} /\ todo = << >>
    BY <1>4 DEF Bar, TypeInv
  <2>5. Planned = 0 /\ Planned' = 0
    BY <2>4 DEF Planned
  <2>6. EntriesLeft(0)'
    BY <1>0, <2>4 DEF EntriesLeft
  <2> QED  BY <1>0, <1>2, <2>1, <2>2, <2>3, <2>4, <2>5, <2>6
<1>5. CASE DayBoundary
  <2>1. UNCHANGED <<seen, now, trades, pending, todo>> /\ pc = "boundary" /\ pc' = "broker" /\ todo = << >>
    BY <1>5 DEF DayBoundary, memory, TypeInv
  <2>2. Planned = 0 /\ Planned' = 0
    BY <2>1 DEF Planned
  <2>3. EntriesLeft(0)'
    BY <1>0, <2>1 DEF EntriesLeft
  <2> QED  BY <1>2, <2>1, <2>2, <2>3
<1>6. CASE CloseOne
  <2>1. PICK i \in DOMAIN open, pnl \in Int : todo' = Append(todo, [kind |-> "exit", pnl |-> pnl])
    BY <1>6, CloseFacts
  <2> DEFINE e == [kind |-> "exit", pnl |-> pnl]
  <2>2. e \in Item /\ e.kind = "exit" /\ todo \in Seq(Item) /\ Len(todo) \in Nat
    BY <1>6, LenProperties DEF CloseOne, Item, TypeInv
  <2> HIDE DEF e
  <2>3. /\ Len(todo') = Len(todo) + 1 /\ todo'[Len(todo) + 1] = e
        /\ \A k \in 1 .. Len(todo) : todo'[k] = todo[k]
    BY <2>1, <2>2, AppendProperties DEF e
  <2>4. UNCHANGED <<seen, now, trades, pending>> /\ pc = "broker" /\ pc' = "broker"
    BY <1>6 DEF CloseOne
  <2>5. \A k \in 1 .. Len(todo) : todo[k].kind = "exit"
    BY <1>2, <2>2, <2>4 DEF EntriesLeft
  <2>6. EntriesLeft(0)'
    BY <2>2, <2>3, <2>5 DEF EntriesLeft
  <2>7. Planned = 0 /\ Planned' = 0
    BY <2>4 DEF Planned
  <2> QED  BY <1>2, <2>4, <2>6, <2>7
<1>7. CASE FillPending
  <2> DEFINE e == [k \in DOMAIN pending |-> [kind |-> "entry", pnl |-> 0]]
             n == Len(pending)
  <2>1. pending \in Seq(Position) /\ todo \in Seq(Item) /\ Len(todo) \in Nat
    BY <1>7, LenProperties DEF FillPending, TypeInv, TypeOK
  <2>2. e \in Seq(Item) /\ Len(e) = n
    BY <2>1, EntriesFacts
  <2> HIDE DEF e
  <2>3. todo' = todo \o e
    BY <1>7 DEF FillPending, e
  <2>4. /\ Len(todo') = Len(todo) + n
        /\ \A i \in 1 .. Len(todo) : todo'[i] = todo[i]
    <3>1. /\ Len(todo \o e) = Len(todo) + Len(e)
          /\ \A i \in 1 .. Len(todo) + Len(e) :
                (todo \o e)[i] = IF i <= Len(todo) THEN todo[i] ELSE e[i - Len(todo)]
      BY <2>1, <2>2, ConcatProperties
    <3>2. \A i \in 1 .. Len(todo) : i \in 1 .. Len(todo) + Len(e) /\ i <= Len(todo)
      BY <1>0, <2>1, <2>2
    <3> QED  BY <2>2, <2>3, <3>1, <3>2
  <2>5. UNCHANGED <<seen, now, trades>> /\ pc = "broker" /\ pc' = "fills"
    BY <1>7 DEF FillPending
  <2>6. \A i \in 1 .. Len(todo) : todo[i].kind = "exit"
    BY <1>2, <2>1, <2>5 DEF EntriesLeft
  <2>7. n \in 0 .. Len(todo') /\ Len(todo') - n = Len(todo)
    BY <1>0, <2>1, <2>4
  <2>8. Planned = 0
    BY <2>5 DEF Planned
  <2>9. n <= MaxPerPair /\ (seen.day = DayOf(now) => seen.entries + n < Bound)
    BY <1>0, <1>2, <2>5, <2>8 DEF LimitInv
  <2>10. \A i \in 1 .. Len(todo') - n : todo'[i].kind = "exit"
    BY <2>4, <2>6, <2>7
  <2> QED  BY <1>2, <2>5, <2>7, <2>9, <2>10
<1>8. CASE EntryFill
  <2>1. /\ pc = "fills" /\ pc' = "fills" /\ todo # << >> /\ Head(todo).kind = "entry"
        /\ todo' = Tail(todo) /\ now' = now
        /\ trades' = [TradesOn(DayOf(now)) EXCEPT !.count = @ + 1]
    BY <1>8 DEF EntryFill
  <2>2. todo \in Seq(Item) /\ Len(todo) \in Nat /\ Len(todo) >= 1 /\ Head(todo) = todo[1]
    BY <2>1, EmptySeq, LenProperties DEF TypeInv
  <2>3. Len(todo') = Len(todo) - 1
    BY <2>1, <2>2, HeadTailProperties
  <2>4. /\ seen'.day = DayOf(now)
        /\ seen'.entries = IF seen.day = DayOf(now) THEN seen.entries + 1 ELSE 1
    BY <1>0, <1>8, EntryNoted
  <2>5. PICK n \in 0 .. Len(todo) :
           /\ n <= MaxPerPair /\ EntriesLeft(n)
           /\ seen.day = DayOf(now) => seen.entries + n < Bound
    BY <1>2, <2>1
  <2>6. n = Len(todo)
    <3>1. Len(todo) - n >= 1 => todo[1].kind = "exit"
      BY <2>2, <2>5 DEF EntriesLeft
    <3>2. todo[1].kind # "exit"
      BY <2>1, <2>2
    <3> QED  BY <2>2, <2>5, <3>1, <3>2
  <2>7. n - 1 \in 0 .. Len(todo') /\ n - 1 <= MaxPerPair /\ Len(todo') - (n - 1) = 0
    BY <1>0, <2>2, <2>3, <2>5, <2>6
  <2>8. seen'.entries \in Nat /\ seen'.entries + (n - 1) < Bound /\ seen'.entries < Bound
    <3> DEFINE m == seen'.entries
    <3>1. n \in Nat /\ n >= 1 /\ n <= MaxPerPair
      BY <2>2, <2>5, <2>6
    <3>2. seen.entries \in Nat /\ Bound \in Int
      BY <1>0
    <3>3. ASSUME seen.day = DayOf(now) PROVE m \in Nat /\ m + (n - 1) < Bound
      <4>1. m = seen.entries + 1 /\ seen.entries + n < Bound
        BY <2>4, <2>5, <3>3
      <4> HIDE DEF m
      <4> QED  BY <3>1, <3>2, <4>1
    <3>4. ASSUME seen.day # DayOf(now) PROVE m \in Nat /\ m + (n - 1) < Bound
      <4>1. m = 1 /\ n < Bound
        BY <1>0, <2>4, <3>1, <3>4
      <4> HIDE DEF m
      <4> QED  BY <3>1, <3>2, <4>1
    <3>5. m \in Nat /\ m + (n - 1) < Bound
      BY <3>3, <3>4
    <3> HIDE DEF m
    <3>6. m < Bound
      BY <3>1, <3>2, <3>5
    <3> QED  BY <3>5, <3>6 DEF m
  <2>9. trades' = [day |-> seen'.day, count |-> seen'.entries]
    <3>1. CASE seen.day = DayOf(now)
      <4>1. trades = [day |-> seen.day, count |-> seen.entries]
        BY <1>2, <3>1
      <4>2. TradesOn(DayOf(now)) = [day |-> DayOf(now), count |-> seen.entries]
        BY <3>1, <4>1 DEF TradesOn
      <4>3. trades' = [day |-> DayOf(now), count |-> seen.entries + 1]
        BY <2>1, <4>2
      <4> QED  BY <2>4, <3>1, <4>3
    <3>2. CASE seen.day # DayOf(now)
      <4>1. TradesOn(DayOf(now)) = [day |-> DayOf(now), count |-> 0]
        BY <1>0, <1>2, <3>2 DEF TradesOn
      <4>2. trades' = [day |-> DayOf(now), count |-> 1]
        BY <2>1, <4>1
      <4> QED  BY <2>4, <3>2, <4>2
    <3> QED  BY <3>1, <3>2
  <2>10. \A i \in 1 .. Len(todo') - (n - 1) : todo'[i].kind = "exit"
    BY <2>7
  <2>11. \E k \in 0 .. Len(todo') :
            /\ k <= MaxPerPair /\ \A i \in 1 .. Len(todo') - k : todo'[i].kind = "exit"
            /\ seen'.day = DayOf(now') => seen'.entries + k < Bound
    BY <2>7, <2>8, <2>10
  <2>12. trades'.day = DayOf(now) /\ seen'.day = DayOf(now) /\ DayOf(now') = DayOf(now) /\ DayOf(now) \in Int
    BY <1>0, <2>1, <2>4, <2>9
  <2>13. /\ seen'.day <= DayOf(now') /\ trades'.day <= DayOf(now')
         /\ seen'.entries < Bound
         /\ trades'.day = DayOf(now') /\ seen'.day # DayOf(now') => trades'.count = 0
    BY <2>8, <2>12
  <2>14. pc' = "fills" /\ pc' # "broker"
    BY <2>1
  <2> QED  BY <2>9, <2>11, <2>13, <2>14, Zenon
<1>9. CASE ExitFill
  <2>1. /\ pc = "fills" /\ pc' = "fills" /\ todo # << >> /\ Head(todo).kind = "exit"
        /\ todo' = Tail(todo) /\ UNCHANGED <<now, trades, seen>>
    BY <1>9 DEF ExitFill
  <2>2. todo \in Seq(Item) /\ Len(todo) \in Nat /\ Len(todo) >= 1
    BY <2>1, EmptySeq, LenProperties DEF TypeInv
  <2>3. Len(todo') = Len(todo) - 1 /\ \A i \in 1 .. Len(todo') : todo'[i] = todo[i + 1]
    BY <2>1, <2>2, HeadTailProperties
  <2>4. PICK n \in 0 .. Len(todo) :
           /\ n <= MaxPerPair /\ EntriesLeft(n)
           /\ seen.day = DayOf(now) => seen.entries + n < Bound
    BY <1>2, <2>1
  <2> DEFINE k == IF n <= Len(todo') THEN n ELSE Len(todo')
  <2>5. k \in 0 .. Len(todo') /\ k <= n /\ k \in Nat
    BY <2>2, <2>3, <2>4
  <2>6. \A i \in 1 .. Len(todo') - k : todo'[i].kind = "exit"
    <3>1. \A i \in 1 .. Len(todo') - k : i + 1 \in 1 .. Len(todo) - n /\ i \in 1 .. Len(todo')
      BY <2>2, <2>3, <2>4
    <3> QED  BY <2>3, <2>4, <3>1 DEF EntriesLeft
  <2>7. k <= MaxPerPair /\ (seen.day = DayOf(now) => seen.entries + k < Bound)
    <3> HIDE DEF k
    <3> QED  BY <1>0, <2>4, <2>5
  <2> HIDE DEF k
  <2> QED  BY <1>2, <2>1, <2>5, <2>6, <2>7
<1>10. CASE NoSignal
  <2>1. UNCHANGED <<seen, now, trades, pending>> /\ pc = "fills" /\ pc' = "interval" /\ pending = << >>
    BY <1>10 DEF NoSignal, memory, SoundInv
  <2>2. Planned' = 0 /\ Len(pending') = 0
    BY <1>0, <2>1 DEF Planned
  <2> QED  BY <1>0, <1>2, <2>1, <2>2
<1>11. CASE Signals
  <2>1. pc = "fills" /\ pc' = "orders" /\ pending = << >> /\ pending' = << >> /\ open' = open /\ now' = now
        /\ trades' = TradesOn(DayOf(now)) /\ seen' = Noted(dd', now)
    BY <1>11 DEF Signals, SoundInv
  <2>2. seen'.day = seen.day /\ seen'.entries = seen.entries
    BY <1>0, <2>1, NotedType
  <2>3. seen.day = DayOf(now) => trades' = [day |-> seen.day, count |-> seen.entries]
    BY <1>2, <2>1 DEF TradesOn
  <2>4. Planned' = Len(todo') /\ Planned' \in Nat /\ Planned' <= MaxPerPair
    <3>1. LimitInv' /\ TypeInv'
      BY LimitStep, TypeStep
    <3>2. Planned' = Len(todo')
      BY <2>1 DEF Planned
    <3>3. Len(todo') \in Nat
      BY <2>1, <3>1, LenProperties DEF TypeInv
    <3>4. Len(open) + 0 + Planned' <= MaxPerPair
      BY <1>0, <2>1, <3>1 DEF LimitInv
    <3> QED  BY <1>0, <3>2, <3>3, <3>4
  <2>5. seen.day = DayOf(now) => seen.entries + 0 + Planned' < Bound
    <3>1. CASE todo' = << >>
      BY <1>0, <1>2, <2>4, <3>1
    <3>2. CASE todo' # << >>
      <4>1. ~(trades'.count >= MaxTradesPerDay)
        BY <1>11, <3>2 DEF Signals
      <4>2. seen.day = DayOf(now) => trades'.count = seen.entries
        BY <2>3
      <4> QED  BY <1>0, <2>4, <4>1, <4>2
    <3> QED  BY <3>1, <3>2
  <2>6. Len(pending') = 0
    BY <1>0, <2>1
  <2>7. /\ trades'.day = DayOf(now)
        /\ seen.day # DayOf(now) => trades'.count = 0
    BY <1>0, <1>2, <2>1 DEF TradesOn
  <2> QED  BY <1>0, <1>2, <2>1, <2>2, <2>3, <2>5, <2>6, <2>7
<1>12. CASE SubmitOrder
  <2>1. todo \in Seq(Position) /\ todo # << >> /\ pc = "orders" /\ pc' = "orders" /\ pending \in Seq(Position)
        /\ UNCHANGED <<seen, now, trades>> /\ pending' = Append(pending, Head(todo)) /\ todo' = Tail(todo)
    BY <1>12 DEF SubmitOrder, TypeInv, TypeOK
  <2>2. Head(todo) \in Position /\ Len(todo') = Len(todo) - 1 /\ Len(todo) \in Nat
    BY <2>1, HeadTailProperties, LenProperties
  <2>3. Len(pending') = Len(pending) + 1
    BY <2>1, <2>2, AppendProperties
  <2>4. Planned = Len(todo) /\ Planned' = Len(todo')
    BY <2>1 DEF Planned
  <2>5. Len(pending') + Planned' = Len(pending) + Planned /\ Len(pending') \in Nat /\ Planned' \in Int
    BY <1>0, <2>2, <2>3, <2>4
  <2>6. seen.day = DayOf(now) => seen.entries + Len(pending') + Planned' < Bound
    <3>1. pc # "fills" /\ (seen.day = DayOf(now) => seen.entries + Len(pending) + Planned < Bound)
      BY <1>2, <2>1
    <3>2. seen.entries \in Nat /\ Planned \in Nat /\ Len(pending) \in Nat /\ Bound \in Nat
      BY <1>0
    <3> QED  BY <2>5, <3>1, <3>2
  <2> QED  BY <1>2, <2>1, <2>6
<1>13. CASE OrdersDone
  <2>1. UNCHANGED <<seen, now, trades, pending>> /\ pc = "orders" /\ pc' = "interval"
    BY <1>13 DEF OrdersDone, memory
  <2> QED  BY <1>1, <1>3, <2>1 DEF DayInv, Bound
<1>14. CASE Interval
  <2>1. UNCHANGED <<seen, now, trades, pending>> /\ pc = "interval" /\ pc' = "idle"
    BY <1>14 DEF Interval, memory
  <2> QED  BY <1>1, <1>3, <2>1 DEF DayInv, Bound
<1>15. CASE Stop \/ Die
  <2>1. UNCHANGED <<seen, now, trades, pending>> /\ pc' = "down"
    BY <1>15 DEF Stop, Die, memory
  <2>2. pc = "fills" => pending = << >>
    BY DEF SoundInv
  <2>3. Planned' = 0
    BY <2>1 DEF Planned
  <2>4. seen.day = DayOf(now) => seen.entries + Len(pending) + 0 < Bound
    BY <1>0, <1>2, <2>2
  <2> QED  BY <1>2, <2>1, <2>3, <2>4
<1>16. CASE UNCHANGED vars
  BY <1>1, <1>2, <1>16 DEF vars, memory, Planned, EntriesLeft
<1> QED  BY <1>1, <1>4, <1>5, <1>6, <1>7, <1>8, <1>9, <1>10, <1>11, <1>12, <1>13, <1>14,
            <1>15, <1>16 DEF Next, Process

\* A day of one session has fewer than max_per_pair_positions entries over the cap
\* (constraints.py:142-160).
THEOREM DailyTradesAreBounded == Spec => []DailyTradesBounded
<1>1. DayInv => DailyTradesBounded
  BY DEF DayInv, DailyTradesBounded, Bound
<1>2. TypeInv /\ SoundInv /\ [Next]_vars => SoundInv'
  BY SoundStep
<1>3. TypeInv /\ SoundInv /\ LimitInv /\ [Next]_vars => LimitInv'
  BY LimitStep
<1>4. TypeInv /\ SoundInv /\ LimitInv /\ DayInv /\ [Next]_vars => DayInv'
  BY DayStep
<1> QED  BY <1>1, <1>2, <1>3, <1>4, TypeInit, TypeStep, SoundInit, LimitInit, DayInit, PTL
         DEF Spec
==============================================================================
