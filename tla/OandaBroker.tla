----------------------------- MODULE OandaBroker -----------------------------
(***************************************************************************)
(* The OANDA account (external) and the adapter of live/oanda_broker.py    *)
(* over it.  Every adapter method is one HTTP call made synchronously by   *)
(* the client; between two calls the account moves on its own: a limit     *)
(* order fills, a stop or a target closes a trade.                         *)
(*                                                                         *)
(* An order and the trade it opens carry the same number here; the adapter *)
(* tells them apart, and so do the sets below (known holds trades only).   *)
(***************************************************************************)
EXTENDS Integers, Sequences, SequencesExt, FiniteSets

CONSTANTS
    Orders,        \* the distinct order requests a client may make
    LimitOrders,   \* those of type LIMIT; the others are MARKET, fill-or-kill
    Faults,        \* which HTTP failures may happen, a subset of FaultKinds
    FillWindow,    \* count=20 of the transactions poll
    MaxBook        \* bound: orders the account ever accepts

FaultKinds == {"refused",    \* a submit fails before the account accepts it
               "lost",       \* the account accepts, the answer never arrives
               "read",       \* a position or transaction query fails
               "cancel"}     \* a cancel request fails

ASSUME OandaAssumption ==
    /\ LimitOrders \subseteq Orders
    /\ Faults \subseteq FaultKinds
    /\ FillWindow \in Nat \ {0}
    /\ MaxBook \in Nat

VARIABLES
    book,        \* orders the account accepted, in order: the order, its state
                 \* and req, the number of the client's request it came from
    fillLog,     \* the account's ORDER_FILL transactions, oldest first
    known,       \* _known_trade_ids
    reported     \* trade ids returned as fills by process_bar, in order

broker == <<book, fillLog, known, reported>>

OrderStates == {"pending", "open", "closed", "cancelled"}
FillKinds   == {"opens", "closes"}

BrokerType ==
    /\ book \in Seq([order: Orders, state: OrderStates, req: Nat])
    /\ fillLog \in Seq([id: Nat, kind: FillKinds])
    /\ known \subseteq DOMAIN book
    /\ reported \in Seq(DOMAIN book)

BrokerInit ==
    /\ book = << >>
    /\ fillLog = << >>
    /\ known = {}
    /\ reported = << >>

InState(s)   == {i \in DOMAIN book : book[i].state = s}
OpenTrades   == InState("open")
PendingIds   == InState("pending")
NextId       == Len(book) + 1

------------------------------------------------------------------------------
(* The account (external) *)

\* A limit order rests; a fill-or-kill market order fills or is cancelled.
FirstState(o) == IF o \in LimitOrders THEN {"pending"} ELSE {"open", "cancelled"}

Accept(o, s, req) ==
    /\ Len(book) < MaxBook
    /\ s \in FirstState(o)
    /\ book' = Append(book, [order |-> o, state |-> s, req |-> req])
    /\ fillLog' = IF s = "open"
                  THEN Append(fillLog, [id |-> NextId, kind |-> "opens"])
                  ELSE fillLog

LimitFills ==
    \E i \in PendingIds :
        /\ book' = [book EXCEPT ![i].state = "open"]
        /\ fillLog' = Append(fillLog, [id |-> i, kind |-> "opens"])
        /\ UNCHANGED <<known, reported>>

TradeCloses ==
    \E i \in OpenTrades :
        /\ book' = [book EXCEPT ![i].state = "closed"]
        /\ fillLog' = Append(fillLog, [id |-> i, kind |-> "closes"])
        /\ UNCHANGED <<known, reported>>

AccountMoves == LimitFills \/ TradeCloses

------------------------------------------------------------------------------
(* The adapter *)

\* Mutant: the trade an answer names is not remembered.
SubmitAnsweredUnknown(o, req) ==
    /\ \E s \in FirstState(o) : Accept(o, s, req)
    /\ UNCHANGED <<known, reported>>

\* submit_order returns an id: a filled trade becomes known, and a market order
\* the account killed is answered like one that rests.
SubmitAnswered(o, req) ==
    \E s \in FirstState(o) :
        /\ Accept(o, s, req)
        /\ known' = IF s = "open" THEN known \cup {NextId} ELSE known
        /\ UNCHANGED reported

\* submit_order raises although the account has the order.
SubmitLost(o, req) ==
    /\ "lost" \in Faults
    /\ \E s \in FirstState(o) : Accept(o, s, req)
    /\ UNCHANGED <<known, reported>>

\* submit_order raises and the account has nothing.
SubmitRefused ==
    /\ "refused" \in Faults
    /\ UNCHANGED broker

\* get_positions: the open trades, all of them known from now on, or, when the
\* query fails, the empty list.
PositionsRead(seen, knownAfter) ==
    \/ seen = OpenTrades /\ knownAfter = known \cup OpenTrades
    \/ "read" \in Faults /\ seen = {} /\ knownAfter = known

\* The transactions a poll returns are the last FillWindow fills.
Polled == {fillLog[j] : j \in {k \in DOMAIN fillLog : k + FillWindow > Len(fillLog)}}

\* Mutant: the trades a fill opened are taken with those it closed.
NewlyFilled == {f.id : f \in Polled} \cap known

\* process_bar: the polled closes of known trades.
NewlyClosed == {f.id : f \in {g \in Polled : g.kind = "closes"}} \cap known

\* cancel_order on a set of ids: those pending are cancelled, or the request
\* fails; the outcome of a failed request is unknown at the account.
Cancelled(ids) ==
    book' = [i \in DOMAIN book |->
                IF i \in ids \cap PendingIds
                THEN [book[i] EXCEPT !.state = "cancelled"] ELSE book[i]]

------------------------------------------------------------------------------
\* A close reaches the client at most once, only closed trades do, and one that
\* was reported is never waited for again, although get_positions keeps adding
\* to the known trades.
ReportedOnce ==
    \A i \in DOMAIN reported :
        /\ book[reported[i]].state = "closed"
        /\ reported[i] \notin known
        /\ \A j \in DOMAIN reported : reported[i] = reported[j] => i = j
==============================================================================
