---------------------------- MODULE BrokerGateway ----------------------------
(***************************************************************************)
(* live/broker_gateway.py over the OANDA adapter: arming, the kill switch, *)
(* the pre-trade check and the retry loop.  The gateway runs in one        *)
(* thread; a submit is split at each adapter call, because the account     *)
(* moves between two attempts (the loop sleeps) but no other gateway       *)
(* method runs.                                                            *)
(***************************************************************************)
EXTENDS OandaBroker

CONSTANTS
    UnitsOf,         \* units of each order request
    MaxPositions,    \* GatewayConfig.max_positions
    MaxExposure,     \* GatewayConfig.max_exposure_units
    MaxOrderUnits,   \* GatewayConfig.max_order_units
    MaxRetries,      \* GatewayConfig.max_retries
    MaxRequests      \* bound: submit_order calls that reach the adapter

ASSUME GatewayAssumption ==
    /\ UnitsOf \in [Orders -> Int]
    /\ MaxPositions \in Nat
    /\ MaxExposure \in Nat
    /\ MaxOrderUnits \in Nat
    /\ MaxRetries \in Nat \ {0}
    /\ MaxRequests \in Nat

VARIABLES
    armed,       \* _armed
    killed,      \* _killed
    submitted,   \* _submitted_order_ids
    logged,      \* ids _order_log records as submitted
    call,        \* the submit_order call in its retry loop, or Idle
    requests,    \* submit_order calls that passed the checks (bookkeeping)
    unheard      \* bookkeeping of failures: blind, once a query of the checks
                 \* failed or an answer was lost, and the ids whose cancel
                 \* failed in kill

gateway == <<armed, killed, submitted, logged, call, requests, unheard>>
vars    == <<broker, gateway>>

Idle == [order |-> "none", req |-> 0, attempt |-> 0]

TypeOK ==
    /\ BrokerType
    /\ armed \in BOOLEAN /\ killed \in BOOLEAN
    /\ submitted \subseteq DOMAIN book /\ logged \subseteq DOMAIN book
    /\ requests \in 0 .. MaxRequests
    /\ call \in {Idle} \cup [order: Orders, req: 1 .. MaxRequests,
                             attempt: 0 .. MaxRetries - 1]
    /\ unheard \in [blind: BOOLEAN, kept: SUBSET DOMAIN book]

Init ==
    /\ BrokerInit
    /\ armed = FALSE /\ killed = FALSE
    /\ submitted = {} /\ logged = {}
    /\ call = Idle /\ requests = 0
    /\ unheard = [blind |-> FALSE, kept |-> {}]

------------------------------------------------------------------------------
(* Arming and the kill switch *)

\* Mutant: the kill switch does not keep the gateway from arming.
ArmAnyTime ==
    /\ call = Idle
    /\ armed' = TRUE
    /\ UNCHANGED <<broker, killed, submitted, logged, call, requests, unheard>>

Arm ==
    /\ call = Idle /\ ~killed
    /\ armed' = TRUE
    /\ UNCHANGED <<broker, killed, submitted, logged, call, requests, unheard>>

Disarm ==
    /\ call = Idle
    /\ armed' = FALSE
    /\ UNCHANGED <<broker, killed, submitted, logged, call, requests, unheard>>

\* Mutant: trades are cancelled, not resting orders.
KillTrades ==
    /\ call = Idle
    /\ killed' = TRUE
    /\ armed' = FALSE
    /\ Cancelled(submitted \cap known)
    /\ UNCHANGED <<fillLog, known, reported, submitted, logged, call, requests, unheard>>

\* Every id the gateway holds is cancelled, or the attempt fails and is skipped.
Kill ==
    /\ call = Idle
    /\ killed' = TRUE
    /\ armed' = FALSE
    /\ \E done \in SUBSET submitted :
        /\ "cancel" \notin Faults => done = submitted
        /\ Cancelled(done)
        /\ unheard' = [unheard EXCEPT !.kept = submitted \ done]
    /\ UNCHANGED <<fillLog, known, reported, submitted, logged, call, requests>>

------------------------------------------------------------------------------
(* Orders *)

Exposure(ids) == SumFunction([i \in ids |-> UnitsOf[book[i].order]])

\* Mutant: the exposure is checked without the order's own units.
PreTradeCheckWithout(o, seen) ==
    /\ Cardinality(seen) < MaxPositions
    /\ Exposure(seen) <= MaxExposure
    /\ UnitsOf[o] <= MaxOrderUnits
    /\ UnitsOf[o] > 0

\* The check sees the positions the adapter returned, not the pending orders.
PreTradeCheck(o, seen) ==
    /\ Cardinality(seen) < MaxPositions
    /\ Exposure(seen) + UnitsOf[o] <= MaxExposure
    /\ UnitsOf[o] <= MaxOrderUnits
    /\ UnitsOf[o] > 0

\* The key of the duplicate test is built from the order, while the set holds
\* the ids the adapter returned.
IsDuplicate(o) == o \in submitted

SubmitOrder(o) ==
    /\ call = Idle /\ armed /\ ~killed
    /\ requests < MaxRequests
    /\ \E seen \in {OpenTrades, {}}, after \in {known, known \cup OpenTrades} :
        /\ PositionsRead(seen, after)
        /\ known' = after
        /\ unheard' = [unheard EXCEPT !.blind = @ \/ seen # OpenTrades]
        /\ IF PreTradeCheck(o, seen) /\ ~IsDuplicate(o)
           THEN /\ requests' = requests + 1
                /\ call' = [order |-> o, req |-> requests + 1, attempt |-> 0]
           ELSE UNCHANGED <<requests, call>>
    /\ UNCHANGED <<book, fillLog, reported, armed, killed, submitted, logged>>

\* Mutant: the loop goes on after an answer.
AnsweredGoesOn ==
    /\ call # Idle
    /\ SubmitAnswered(call.order, call.req)
    /\ submitted' = submitted \cup {NextId}
    /\ logged' = logged \cup {NextId}
    /\ call' = IF call.attempt < MaxRetries - 1
               THEN [call EXCEPT !.attempt = @ + 1] ELSE Idle
    /\ UNCHANGED <<armed, killed, requests, unheard>>

Answered ==
    /\ call # Idle
    /\ SubmitAnswered(call.order, call.req)
    /\ submitted' = submitted \cup {NextId}
    /\ logged' = logged \cup {NextId}
    /\ call' = Idle
    /\ UNCHANGED <<armed, killed, requests, unheard>>

\* Mutant: one attempt too many.
FailedOnceMore ==
    /\ call # Idle
    /\ SubmitLost(call.order, call.req) \/ SubmitRefused
    /\ call' = IF call.attempt < MaxRetries
               THEN [call EXCEPT !.attempt = @ + 1] ELSE Idle
    /\ unheard' = [unheard EXCEPT !.blind = @ \/ book' # book]
    /\ UNCHANGED <<armed, killed, submitted, logged, requests>>

\* Mutant: the attempts are not counted.
FailedForever ==
    /\ call # Idle
    /\ SubmitLost(call.order, call.req) \/ SubmitRefused
    /\ unheard' = [unheard EXCEPT !.blind = @ \/ book' # book]
    /\ UNCHANGED <<armed, killed, submitted, logged, call, requests>>

\* The adapter raised: back off and try again, or give up.
Failed ==
    /\ call # Idle
    /\ SubmitLost(call.order, call.req) \/ SubmitRefused
    /\ call' = IF call.attempt < MaxRetries - 1
               THEN [call EXCEPT !.attempt = @ + 1] ELSE Idle
    /\ unheard' = [unheard EXCEPT !.blind = @ \/ book' # book]
    /\ UNCHANGED <<armed, killed, submitted, logged, requests>>

\* A cancel whose answer fails may still have reached the account.
CancelOrder(id) ==
    /\ call = Idle /\ ~killed
    /\ id \in PendingIds
    /\ \/ Cancelled({id}) /\ submitted' = submitted \ {id}
       \/ /\ "cancel" \in Faults
          /\ \E done \in SUBSET {id} : Cancelled(done)
          /\ UNCHANGED submitted
    /\ UNCHANGED <<fillLog, known, reported, armed, killed, logged, call, requests, unheard>>

\* Closes are collected; after any, reconcile() reads the positions once more.
ProcessBar ==
    /\ call = Idle
    /\ NewlyClosed # {}
    /\ reported' = reported \o SetToSeq(NewlyClosed)
    /\ known' \in {(known \ NewlyClosed) \cup OpenTrades}
                    \cup (IF "read" \in Faults THEN {known \ NewlyClosed} ELSE {})
    /\ UNCHANGED <<book, fillLog, gateway>>

\* get_positions, and reconcile called on its own.
GetPositions ==
    /\ call = Idle
    /\ \E after \in {known, known \cup OpenTrades} :
        /\ \E seen \in {OpenTrades, {}} : PositionsRead(seen, after)
        /\ known' = after
    /\ UNCHANGED <<book, fillLog, reported, gateway>>

Client ==
    \/ Arm \/ Disarm \/ Kill \/ ProcessBar \/ GetPositions
    \/ \E o \in Orders : SubmitOrder(o)
    \/ \E id \in logged : CancelOrder(id)

Account == AccountMoves /\ UNCHANGED gateway

Next == Client \/ Answered \/ Failed \/ Account

\* A call in progress runs on: its adapter calls return or time out.
Fairness == WF_vars(Answered \/ Failed)

Spec == Init /\ [][Next]_vars /\ Fairness

------------------------------------------------------------------------------
(* Properties *)

\* After the kill switch, and whenever it is not armed, nothing the gateway
\* does puts an order on the account; and it can never be armed again.
NothingAfterKill ==
    [][/\ Len(book') > Len(book) => armed /\ ~killed
       /\ killed => killed' /\ ~armed']_vars

\* However its attempts fail, one submit_order call leaves at most max_retries
\* orders on the account, all of the order it was given.
AtMostRetries ==
    \A r \in 1 .. requests :
        LET made == {i \in DOMAIN book : book[i].req = r}
        IN  /\ Cardinality(made) <= MaxRetries
            /\ \A i, j \in made : book[i].order = book[j].order

\* A call ends with the first answer: no attempt follows one whose id was
\* recorded.
StopsAtAnswer ==
    \A i \in logged, j \in DOMAIN book : book[j].req = book[i].req => j <= i

\* Every submit_order call returns.
CallReturns == [](call # Idle => <>(call = Idle))

\* As long as no limit order was made, no query failed and no answer was lost,
\* the account never holds more trades, nor more units, than the configuration
\* allows, though it fills between the check and the order.
WithinLimits ==
    ~unheard.blind /\ (\A i \in DOMAIN book : book[i].order \notin LimitOrders)
        => /\ Cardinality(OpenTrades) <= MaxPositions
           /\ Exposure(OpenTrades) <= MaxExposure

\* After the kill switch an order rests on the account only if its cancel failed
\* in the kill or the gateway was never answered about it.
KillCancelsKnown == killed => PendingIds \subseteq unheard.kept \cup (DOMAIN book \ logged)

\* A market trade whose order was answered and that closed since was delivered
\* to the client or is one the next poll looks for, whatever failed in between
\* (oanda_broker.py:269, "trades closed by OANDA since last check").
CloseTracked ==
    {i \in InState("closed") \cap logged : book[i].order \notin LimitOrders}
        \subseteq known \cup Range(reported)

------------------------------------------------------------------------------
(* Statements of the documentation that the code does not keep *)

\* broker_gateway.py:6 and :157, "duplicate prevention": of two submissions of
\* one order, while the first rests or is open, the second is not sent.
NoDuplicates ==
    \A i, j \in (PendingIds \cup OpenTrades) \cap logged :
        book[i].order = book[j].order /\ book[i].req # book[j].req => i = j

\* broker_gateway.py:102, "cancel all pending": after the kill switch no order
\* rests on the account, as long as every cancel it makes succeeds.
KillCancelsAll == killed /\ unheard.kept = {} => PendingIds = {}
==============================================================================
