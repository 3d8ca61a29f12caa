----------------------------- MODULE LiveFeeds -----------------------------
(***************************************************************************)
(* How bars reach ForwardPaperRunner: the loop of live/forward_runner.py   *)
(* with the two feeds it polls, the warm-up history the service script     *)
(* loads, the feed health check, the two bar buffers and the shutdown      *)
(* signal; the process may die and is started again.  What a bar does to   *)
(* the account is ForwardRunner's.                                         *)
(*                                                                         *)
(* Time is counted in bars of the lower time frame (LTF); a bar is named   *)
(* by its timestamp, the time it opens: LTF bar b is complete at b + 1,    *)
(* and the bar of the higher time frame (HTF) that opens at h at h + Ratio.*)
(***************************************************************************)
EXTENDS Integers, Sequences, FiniteSets, FiniteSetsExt

CONSTANTS
    Kinds,         \* the feeds tried: "live" (Yahoo), "replay", "files"
    Ratio,         \* LTF bars in an HTF bar
    MaxErrors,     \* polls in a row that may fail before a feed disconnects
    Window,        \* LTF bars the range of a poll reaches back (5 days)
    History,       \* LTF bars of the warm-up history
    Capacity, HtfCapacity, \* of the two buffers
    Lag,           \* bound: bars an answer of the provider may lag behind
    MaxTime,       \* bound: LTF bars; in replay the length of the file
    MaxRestarts    \* bound: times the service is started again

ASSUME FeedsAssumption ==
    /\ Kinds \subseteq {"live", "replay", "files"}
    /\ Ratio \in Nat \ {0} /\ MaxErrors \in Nat
    /\ Window \in Nat \ {0} /\ History \in Nat \ {0}
    /\ Capacity \in Nat \ {0} /\ HtfCapacity \in Nat \ {0}
    /\ Lag \in Nat /\ MaxTime \in Nat /\ MaxRestarts \in Nat

None == -1         \* no timestamp

VARIABLES
    kind,          \* the feed of this service
    now,           \* LTF bars complete so far
    ltf, htf,      \* the feeds: newest bar given, connected, errors in a row,
                   \* and whether the poll interval has passed
    buf, hbuf,     \* the buffers, oldest bar first
    pc,            \* where the loop is
    running,       \* _running, cleared by a signal
    batch, again,  \* bars polled and not looked at yet; those of them a
                   \* second file repeats
    cur,           \* the bar being processed
    lastTs,        \* last_ts of the loop
    accepted,      \* _last_accepted_time of the health monitor
    restarts,      \* times started again (bookkeeping)
    unseen, late   \* LTF bars an answer left out though it showed a later
                   \* one, and bars since a signal (bookkeeping)

feeds  == <<ltf, htf>>
bufs   == <<buf, hbuf>>
loop   == <<batch, again, cur, lastTs, accepted>>
vars   == <<kind, now, feeds, bufs, pc, running, loop, restarts, unseen, late>>

Feed == [last : Int, connected : BOOLEAN, errors : Nat, due : BOOLEAN]
NewFeed == [last |-> None, connected |-> FALSE, errors |-> 0, due |-> TRUE]

TypeOK ==
    /\ kind \in Kinds /\ now \in 0 .. MaxTime
    /\ ltf \in Feed /\ htf \in Feed
    /\ buf \in Seq(Nat) /\ Len(buf) <= Capacity
    /\ hbuf \in Seq(Nat) /\ Len(hbuf) <= HtfCapacity
    /\ pc \in {"poll", "bars", "sync", "bar", "ended", "down"}
    /\ running \in BOOLEAN
    /\ batch \subseteq Nat /\ again \subseteq Nat
    /\ cur \in Int /\ lastTs \in Int /\ accepted \in Int
    /\ restarts \in 0 .. MaxRestarts
    /\ unseen \subseteq Nat /\ late \in Nat

------------------------------------------------------------------------------
(* Buffers and feeds.                                                       *)

(* BarBuffer.append_bar: the oldest bar leaves a full buffer.               *)
Appended(s, b, capacity) ==
    LET t == Append(s, b)
    IN  IF Len(t) <= capacity THEN t ELSE Tail(t)

(* The bars S, oldest first.                                                *)
InOrder(S) ==
    [i \in 1 .. Cardinality(S) |->
        CHOOSE b \in S : Cardinality({c \in S : c < b}) = i - 1]

AppendAll(s, S, capacity) ==
    LET t == s \o InOrder(S)
    IN  IF Len(t) <= capacity THEN t ELSE SubSeq(t, Len(t) - capacity + 1, Len(t))

LastOf(s) == IF s = <<>> THEN None ELSE s[Len(s)]

(* Bars of a time frame (step bars long) that are complete at t, opened not *)
(* more than back bars before now.                                          *)
Complete(step, t, back) ==
    {b \in (IF now > back THEN now - back ELSE 0) .. MaxTime :
        b % step = 0 /\ b + step <= t}

(* The bars an answer may show: the provider may lag, and a bar may be null.*)
Answers(step, back) ==
    UNION {{Complete(step, t, back)} \cup
           {Complete(step, t, back) \ {b} : b \in Complete(step, t, back)}
             : t \in {u \in 0 .. now : u >= now - Lag}}

(* Mutant: the bar it already gave is new.                                  *)
NewInAgain(f, since, S) == {b \in S : b >= f.last /\ b >= since}

(* _parse_chart: what is later than the last bar given and than since.      *)
NewIn(f, since, S) == {b \in S : b > f.last /\ b > since}

(* Mutant: the newest bar of the answer counts as given, complete or not.   *)
GaveNewest(f, S) == IF S = {} THEN f.last ELSE Max(S) + 1

Gave(f, S) == IF S = {} THEN f.last ELSE Max(S)

Answered(f, S) == [last |-> Gave(f, S), connected |-> TRUE, errors |-> 0, due |-> FALSE]

(* Mutant: a feed that fails for ever stays connected.                      *)
FailedForEver(f) == [f EXCEPT !.errors = IF @ <= MaxErrors THEN @ + 1 ELSE @, !.due = FALSE]

(* A poll that fails: after MaxErrors of them the feed is not connected.    *)
Failed(f) == [f EXCEPT !.errors = IF @ <= MaxErrors THEN @ + 1 ELSE @,
                       !.connected = @ /\ f.errors < MaxErrors,
                       !.due = FALSE]

(* ReplayFeedProvider: the bars of the file, one a poll.                    *)
FileBars(step) == {b \in 0 .. MaxTime - 1 : b % step = 0}

------------------------------------------------------------------------------
(* A session starts.                                                        *)

(* fetch_history of one feed: an answer, or none.                           *)
Histories(step) ==
    {[feed |-> Answered(NewFeed, S), bars |-> S] : S \in Answers(step, History)}
    \cup {[feed |-> NewFeed, bars |-> {}]}

(* Only the live feeds have a history; without LTF bars the HTF bars that   *)
(* were fetched are not loaded either, though their feed has given them.    *)
Beginnings ==
    IF kind # "live"
    THEN {[ltf |-> NewFeed, htf |-> NewFeed, bars |-> {}, hbars |-> {}]}
    ELSE {[ltf |-> [l.feed EXCEPT !.due = TRUE], htf |-> [h.feed EXCEPT !.due = TRUE],
           bars |-> l.bars, hbars |-> IF l.bars = {} THEN {} ELSE h.bars]
             : l \in Histories(1), h \in Histories(Ratio)}

Holes(S) == {b \in 0 .. MaxTime : \E x, y \in S : x < b /\ b < y /\ b \notin S}

Init ==
    /\ kind \in Kinds
    /\ now \in IF kind = "replay" THEN {MaxTime} ELSE 0 .. MaxTime
    /\ \E s \in Beginnings :
        /\ ltf = s.ltf /\ htf = s.htf
        /\ buf = AppendAll(<<>>, s.bars, Capacity)
        /\ hbuf = AppendAll(<<>>, s.hbars, HtfCapacity)
        /\ unseen = Holes(s.bars)
    /\ pc = "poll" /\ running = TRUE
    /\ batch = {} /\ again = {} /\ cur = None
    /\ lastTs = LastOf(buf) /\ accepted = None
    /\ restarts = 0 /\ late = 0

(* The container is started again, whether the session ended or was killed. *)
Restart ==
    /\ pc = "down" /\ restarts < MaxRestarts
    /\ \E s \in Beginnings :
        /\ ltf' = s.ltf /\ htf' = s.htf
        /\ buf' = AppendAll(<<>>, s.bars, Capacity)
        /\ hbuf' = AppendAll(<<>>, s.hbars, HtfCapacity)
        /\ unseen' = Holes(s.bars)
    /\ pc' = "poll" /\ running' = TRUE
    /\ batch' = {} /\ again' = {} /\ cur' = None
    /\ lastTs' = LastOf(buf') /\ accepted' = None
    /\ restarts' = restarts + 1 /\ late' = 0
    /\ UNCHANGED <<kind, now>>

------------------------------------------------------------------------------
(* The loop polls the LTF feed.                                             *)

Polling == pc = "poll" /\ running

(* Bars later than this one's last that the answer S skipped.               *)
Skipped(S, new) == {b \in lastTs + 1 .. Max(new) : b \notin S}

PollAnswered ==
    /\ Polling /\ kind = "live" /\ ltf.due
    /\ \E S \in Answers(1, Window) :
        LET new == NewIn(ltf, lastTs, S) IN
        /\ ltf' = Answered(ltf, new)
        /\ batch' = new
        /\ unseen' = IF new = {} THEN unseen ELSE unseen \cup Skipped(S, new)
        /\ pc' = IF new = {} THEN "poll" ELSE "bars"
    /\ UNCHANGED <<kind, now, htf, bufs, running, again, cur, lastTs, accepted, restarts, late>>

(* "Feed disconnected": the loop ends once the feed is not connected.       *)
PollFailed ==
    /\ Polling /\ kind = "live" /\ ltf.due
    /\ ltf' = Failed(ltf)
    /\ pc' = IF ltf'.connected THEN "poll" ELSE "ended"
    /\ UNCHANGED <<kind, now, htf, bufs, running, loop, restarts, unseen, late>>

PollReplay ==
    /\ Polling /\ kind = "replay"
    /\ LET left == NewIn(ltf, lastTs, FileBars(1)) IN
        IF left = {}
        THEN pc' = "ended" /\ UNCHANGED <<ltf, batch>>
        ELSE /\ pc' = "bars" /\ batch' = {Min(left)}
             /\ ltf' = [ltf EXCEPT !.last = Min(left)]
    /\ UNCHANGED <<kind, now, htf, bufs, running, again, cur, lastTs, accepted,
                    restarts, unseen, late>>

(* FileWatchFeedProvider: new files may hold any complete bars, and one in  *)
(* two of them.                                                             *)
PollFiles ==
    /\ Polling /\ kind = "files"
    /\ \E S \in SUBSET {b \in 0 .. now - 1 : b > lastTs} :
       \E A \in {{}} \cup {{b} : b \in S} :
        /\ S # {}
        /\ batch' = S /\ again' = A
        /\ unseen' = unseen \cup Skipped(S, S)
    /\ pc' = "bars"
    /\ UNCHANGED <<kind, now, feeds, bufs, running, cur, lastTs, accepted, restarts, late>>

(* The watched directory is gone.                                           *)
FilesGone ==
    /\ Polling /\ kind = "files" /\ pc' = "ended"
    /\ UNCHANGED <<kind, now, feeds, bufs, running, loop, restarts, unseen, late>>

------------------------------------------------------------------------------
(* The bars of a batch, in order.                                           *)

NextBar == Min(batch \cup again)

Taken ==
    /\ batch' = batch \ {NextBar}
    /\ again' = IF NextBar \in batch THEN again ELSE again \ {NextBar}

(* validate_bar refuses what is not later than the bar it last accepted.    *)
Refuse ==
    /\ pc = "bars" /\ batch \cup again # {} /\ NextBar <= accepted
    /\ Taken
    /\ UNCHANGED <<kind, now, feeds, bufs, pc, running, cur, lastTs, accepted,
                    restarts, unseen, late>>

Accept ==
    /\ pc = "bars" /\ batch \cup again # {} /\ NextBar > accepted
    /\ Taken
    /\ accepted' = NextBar /\ cur' = NextBar /\ pc' = "sync"
    /\ UNCHANGED <<kind, now, feeds, bufs, running, lastTs, restarts, unseen, late>>

BatchDone ==
    /\ pc = "bars" /\ batch \cup again = {} /\ pc' = "poll"
    /\ UNCHANGED <<kind, now, feeds, bufs, running, loop, restarts, unseen, late>>

(* _sync_htf_to(up_to = cur): polls until a bar is not earlier than cur,    *)
(* and returns there, with the rest of the answer in hand.                  *)
Kept(S) == {h \in S : \A g \in S : g < h => g < cur}

SyncAnswered ==
    /\ pc = "sync" /\ kind = "live" /\ htf.connected /\ htf.due
    /\ \E S \in Answers(Ratio, Window) :
        LET new == NewIn(htf, LastOf(hbuf), S) IN
        /\ htf' = Answered(htf, new)
        /\ hbuf' = AppendAll(hbuf, Kept(new), HtfCapacity)
        /\ pc' = IF new = {} \/ Max(new) >= cur THEN "bar" ELSE "sync"
    /\ UNCHANGED <<kind, now, ltf, buf, running, loop, restarts, unseen, late>>

SyncFailed ==
    /\ pc = "sync" /\ kind = "live" /\ htf.connected /\ htf.due
    /\ htf' = Failed(htf) /\ pc' = "bar"
    /\ UNCHANGED <<kind, now, ltf, bufs, running, loop, restarts, unseen, late>>

HtfLeft == NewIn(htf, LastOf(hbuf), FileBars(Ratio))

SyncReplay ==
    /\ pc = "sync" /\ kind = "replay" /\ HtfLeft # {}
    /\ LET h == Min(HtfLeft) IN
        /\ htf' = [htf EXCEPT !.last = h]
        /\ hbuf' = Appended(hbuf, h, HtfCapacity)
        /\ pc' = IF h >= cur THEN "bar" ELSE "sync"
    /\ UNCHANGED <<kind, now, ltf, buf, running, loop, restarts, unseen, late>>

(* No HTF feed, one that is not connected or used up, or one polled too     *)
(* recently: a feed that is not connected is not polled ever again.         *)
NoSync ==
    /\ pc = "sync"
    /\ CASE kind = "live"   -> ~(htf.connected /\ htf.due)
         [] kind = "replay" -> HtfLeft = {}
         [] kind = "files"  -> TRUE
    /\ pc' = "bar"
    /\ UNCHANGED <<kind, now, feeds, bufs, running, loop, restarts, unseen, late>>

(* Mutant: the rest of the batch is processed before the flag is looked at. *)
AfterBatch == "bars"

AfterBar == IF running THEN "bars" ELSE "ended"

(* append_bar and _process_bar; the loop looks at the flag after each bar.  *)
ProcessBar ==
    /\ pc = "bar"
    /\ buf' = Appended(buf, cur, Capacity)
    /\ lastTs' = cur
    /\ late' = IF running THEN 0 ELSE late + 1
    /\ pc' = AfterBar
    /\ UNCHANGED <<kind, now, feeds, hbuf, running, batch, again, cur, accepted,
                    restarts, unseen>>

(* Mutant: a signal is forgotten while no data arrive.                      *)
LeaveNever == FALSE

Leave ==
    /\ pc = "poll" /\ ~running /\ pc' = "ended"
    /\ UNCHANGED <<kind, now, feeds, bufs, running, loop, restarts, unseen, late>>

------------------------------------------------------------------------------
(* Surroundings.                                                            *)

Up == pc \notin {"ended", "down"}

Signal ==
    /\ Up /\ running /\ running' = FALSE
    /\ UNCHANGED <<kind, now, feeds, bufs, pc, loop, restarts, unseen, late>>

(* The process is killed, or exits after the loop: its memory is gone.      *)
Die ==
    /\ pc # "down" /\ pc' = "down"
    /\ ltf' = NewFeed /\ htf' = NewFeed /\ buf' = <<>> /\ hbuf' = <<>>
    /\ running' = FALSE /\ batch' = {} /\ again' = {}
    /\ cur' = None /\ lastTs' = None /\ accepted' = None
    /\ unseen' = {} /\ late' = 0
    /\ UNCHANGED <<kind, now, restarts>>

BarCompletes ==
    /\ now < MaxTime /\ now' = now + 1
    /\ UNCHANGED <<kind, feeds, bufs, pc, running, loop, restarts, unseen, late>>

(* The poll interval of a feed passes.                                      *)
Elapse ==
    /\ kind = "live"
    /\ \/ ~ltf.due /\ ltf' = [ltf EXCEPT !.due = TRUE] /\ UNCHANGED htf
       \/ ~htf.due /\ htf' = [htf EXCEPT !.due = TRUE] /\ UNCHANGED ltf
    /\ UNCHANGED <<kind, now, bufs, pc, running, loop, restarts, unseen, late>>

Runner ==
    \/ PollAnswered \/ PollFailed \/ PollReplay \/ PollFiles \/ FilesGone
    \/ Refuse \/ Accept \/ BatchDone
    \/ SyncAnswered \/ SyncFailed \/ SyncReplay \/ NoSync \/ ProcessBar \/ Leave

Next == Runner \/ Signal \/ Die \/ Restart \/ BarCompletes \/ Elapse

(* The process is scheduled and its clock runs; nothing else is promised,   *)
(* not that the provider ever answers.                                      *)
Fairness == WF_vars(Runner) /\ WF_vars(Elapse)

Spec == Init /\ [][Next]_vars /\ Fairness

------------------------------------------------------------------------------
(* Properties.                                                              *)

(* Both buffers hold bars in the order of their time, each once: warm-up    *)
(* and polls, batches, refused bars and rejected answers notwithstanding    *)
(* (structure detection and ATR read the buffer as a series).               *)
Increasing(s) == \A i, j \in DOMAIN s : i < j => s[i] < s[j]
BufferInOrder == Increasing(buf) /\ Increasing(hbuf)

(* Between two bars of the LTF buffer none is missing, but what an answer   *)
(* of the provider itself left out: no bar is lost by the loop, by a bar    *)
(* that was not complete when it was shown, or by the poll interval.        *)
NoneMissed ==
    \A i \in 2 .. Len(buf) : \A b \in buf[i - 1] + 1 .. buf[i] - 1 : b \in unseen

(* "graceful shutdown": once the signal came at most the bar in hand is     *)
(* processed, however many the batch still holds.                           *)
StopIsPrompt == late <= 1

(* A signal ends the session, whatever the feeds do.                        *)
SignalEnds == (Up /\ ~running) ~> ~Up

(* A feed that stops answering does not hold the session for ever: it       *)
(* answers again or the session ends (and the container starts another).    *)
OutageEnds == []<>(~Up \/ ltf.errors = 0)

(* forward_runner.py: "Drain HTF feed of all bars with timestamps <= up_to" *)
(* "so that the buffer always reflects the market state as of up_to": no    *)
(* HTF bar that opens later than the bar being processed is in the buffer.  *)
HtfUpTo == pc = "bar" => \A i \in DOMAIN hbuf : hbuf[i] <= cur
==============================================================================
