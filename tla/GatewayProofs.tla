---------------------------- MODULE GatewayProofs ----------------------------
(***************************************************************************)
(* BrokerGateway for any orders, limits, retries and faults: types, what   *)
(* is never sent, how much one call may leave on the account, and what the *)
(* client is told of it.                                                   *)
(***************************************************************************)
EXTENDS BrokerGateway, FiniteSetTheorems, SequenceTheorems, WellFoundedInduction, TLAPS

Entry == [order: Orders, state: OrderStates, req: Nat]
Fill  == [id: Nat, kind: FillKinds]

------------------------------------------------------------------------------
(* Lemmas about the account.                                                *)

\* An order the account accepts is the last of its book, all else is as it was.
LEMMA AcceptFacts ==
    ASSUME BrokerType, NEW o \in Orders, NEW s, NEW r \in Nat, Accept(o, s, r)
    PROVE  /\ book' \in Seq(Entry)
           /\ fillLog' \in Seq(Fill)
           /\ s \in OrderStates
           /\ DOMAIN book' = DOMAIN book \cup {NextId}
           /\ NextId \notin DOMAIN book
           /\ \A i \in DOMAIN book : book'[i] = book[i]
           /\ book'[NextId] = [order |-> o, state |-> s, req |-> r]
           /\ \A j \in DOMAIN fillLog' :
                 fillLog'[j].kind = "closes" => j \in DOMAIN fillLog /\ fillLog'[j] = fillLog[j]
<1> DEFINE e == [order |-> o, state |-> s, req |-> r]
           f == [id |-> NextId, kind |-> "opens"]
<1>1. s \in OrderStates /\ e \in Entry
  BY DEF Accept, FirstState, OrderStates, Entry
<1>2. book \in Seq(Entry) /\ Len(book) \in Nat /\ DOMAIN book = 1 .. Len(book)
  BY DEF BrokerType, Entry
<1>3. book' = Append(book, e)
  BY DEF Accept
<1>4. /\ book' \in Seq(Entry) /\ Len(book') = Len(book) + 1
      /\ \A i \in 1 .. Len(book) : book'[i] = book[i]
      /\ book'[Len(book) + 1] = e
  BY <1>1, <1>2, <1>3, AppendProperties
<1>5. DOMAIN book' = 1 .. Len(book) + 1
  BY <1>4, LenProperties
<1>6. f \in Fill /\ fillLog \in Seq(Fill) /\ DOMAIN fillLog = 1 .. Len(fillLog) /\ Len(fillLog) \in Nat
  BY <1>2, LenProperties DEF BrokerType, Fill, FillKinds, NextId
<1>7. fillLog' = Append(fillLog, f) \/ fillLog' = fillLog
  BY DEF Accept
<1>8. /\ fillLog' \in Seq(Fill)
      /\ \A j \in DOMAIN fillLog' :
             fillLog'[j].kind = "closes" => j \in DOMAIN fillLog /\ fillLog'[j] = fillLog[j]
  <2>1. CASE fillLog' = Append(fillLog, f)
    <3>1. /\ fillLog' \in Seq(Fill) /\ Len(fillLog') = Len(fillLog) + 1
          /\ \A j \in 1 .. Len(fillLog) : fillLog'[j] = fillLog[j]
          /\ fillLog'[Len(fillLog) + 1] = f
      BY <2>1, <1>6, AppendProperties
    <3>2. DOMAIN fillLog' = 1 .. Len(fillLog) + 1
      BY <3>1, LenProperties
    <3> QED  BY <3>1, <3>2, <1>6
  <2>2. CASE fillLog' = fillLog
    BY <2>2, <1>6
  <2> QED  BY <2>1, <2>2, <1>7
<1> QED  BY <1>1, <1>2, <1>4, <1>5, <1>8 DEF NextId

\* A cancel changes nothing but the state of resting orders it names.
LEMMA CancelledFacts ==
    ASSUME BrokerType, NEW ids, Cancelled(ids)
    PROVE  /\ book' \in Seq(Entry)
           /\ DOMAIN book' = DOMAIN book
           /\ \A i \in DOMAIN book :
                 /\ book'[i].order = book[i].order /\ book'[i].req = book[i].req
                 /\ book'[i].state = IF i \in ids /\ book[i].state = "pending"
                                     THEN "cancelled" ELSE book[i].state
<1>1. book \in Seq(Entry) /\ Len(book) \in Nat /\ DOMAIN book = 1 .. Len(book)
  BY DEF BrokerType, Entry
<1>2. \A i \in DOMAIN book : book[i] \in Entry
  BY <1>1, ElementOfSeq
<1>3. DOMAIN book' = DOMAIN book
  BY DEF Cancelled
<1>4. \A i \in DOMAIN book :
         /\ book'[i] \in Entry
         /\ book'[i].order = book[i].order /\ book'[i].req = book[i].req
         /\ book'[i].state = IF i \in ids /\ book[i].state = "pending"
                             THEN "cancelled" ELSE book[i].state
  BY <1>2 DEF Cancelled, Entry, OrderStates, PendingIds, InState
<1>5. book' = [i \in DOMAIN book |-> book'[i]]
  BY <1>3 DEF Cancelled
<1>6. book' \in [1 .. Len(book) -> Entry]
  BY <1>1, <1>4, <1>5
<1>7. book' \in Seq(Entry)
  BY <1>1, <1>6, SeqDef
<1> QED  BY <1>3, <1>4, <1>7

\* The account moves one order along, and logs it.
LEMMA AccountFacts ==
    ASSUME BrokerType, AccountMoves
    PROVE  \E i \in DOMAIN book, s \in {"open", "closed"} :
             /\ book[i].state = IF s = "open" THEN "pending" ELSE "open"
             /\ book' = [book EXCEPT ![i].state = s]
             /\ book' \in Seq(Entry) /\ DOMAIN book' = DOMAIN book
             /\ book'[i].state = s
             /\ \A j \in DOMAIN book :
                   /\ book'[j].order = book[j].order /\ book'[j].req = book[j].req
                   /\ j # i => book'[j] = book[j]
             /\ fillLog' \in Seq(Fill)
             /\ \A j \in DOMAIN fillLog' : fillLog'[j].kind = "closes" =>
                   \/ j \in DOMAIN fillLog /\ fillLog'[j] = fillLog[j]
                   \/ s = "closed" /\ fillLog'[j].id = i
             /\ UNCHANGED <<known, reported>>
<1>1. book \in Seq(Entry) /\ Len(book) \in Nat /\ DOMAIN book = 1 .. Len(book)
  BY DEF BrokerType, Entry
<1>2. PICK i \in DOMAIN book, s \in {"open", "closed"} :
         /\ book[i].state = IF s = "open" THEN "pending" ELSE "open"
         /\ book' = [book EXCEPT ![i].state = s]
         /\ fillLog' = Append(fillLog, [id |-> i, kind |-> IF s = "open" THEN "opens" ELSE "closes"])
         /\ UNCHANGED <<known, reported>>
  BY DEF AccountMoves, LimitFills, TradeCloses, PendingIds, OpenTrades, InState
<1> DEFINE f == [id |-> i, kind |-> IF s = "open" THEN "opens" ELSE "closes"]
           e == [book[i] EXCEPT !.state = s]
<1>3. book[i] \in Entry /\ e \in Entry /\ e.state = s
      /\ e.order = book[i].order /\ e.req = book[i].req
  <2>1. book[i] \in Entry
    BY <1>1, ElementOfSeq
  <2> QED  BY <2>1 DEF Entry, OrderStates
<1>4. book' = [book EXCEPT ![i] = e]
  BY <1>2
<1>5. /\ book' \in Seq(Entry) /\ Len(book') = Len(book)
      /\ \A j \in 1 .. Len(book) : book'[j] = IF j = i THEN e ELSE book[j]
  BY <1>1, <1>3, <1>4, ExceptSeq
<1>6. DOMAIN book' = DOMAIN book
  BY <1>1, <1>5, LenProperties
<1>7. f \in Fill /\ fillLog \in Seq(Fill) /\ DOMAIN fillLog = 1 .. Len(fillLog) /\ Len(fillLog) \in Nat
  BY <1>1, LenProperties DEF BrokerType, Fill, FillKinds
<1>8. /\ fillLog' \in Seq(Fill) /\ Len(fillLog') = Len(fillLog) + 1
      /\ \A j \in 1 .. Len(fillLog) : fillLog'[j] = fillLog[j]
      /\ fillLog'[Len(fillLog) + 1] = f
  BY <1>2, <1>7, AppendProperties
<1>9. DOMAIN fillLog' = 1 .. Len(fillLog) + 1
  BY <1>8, LenProperties
<1>10. \A j \in DOMAIN fillLog' : fillLog'[j].kind = "closes" =>
          \/ j \in DOMAIN fillLog /\ fillLog'[j] = fillLog[j]
          \/ s = "closed" /\ fillLog'[j].id = i
  BY <1>7, <1>8, <1>9
<1>11. \A j \in DOMAIN book : /\ book'[j].order = book[j].order /\ book'[j].req = book[j].req
                              /\ j # i => book'[j] = book[j]
  BY <1>1, <1>3, <1>5
<1>12. book'[i].state = s
  BY <1>1, <1>3, <1>5
<1> WITNESS i \in DOMAIN book, s \in {"open", "closed"}
<1> QED  BY <1>2, <1>5, <1>6, <1>8, <1>10, <1>11, <1>12

\* SetToSeq lists the elements of a finite set, each once.
LEMMA ListFacts ==
    ASSUME NEW S, IsFiniteSet(S)
    PROVE  /\ SetToSeq(S) \in Seq(S)
           /\ \A x \in S : \E k \in DOMAIN SetToSeq(S) : SetToSeq(S)[k] = x
           /\ \A j, k \in DOMAIN SetToSeq(S) : SetToSeq(S)[j] = SetToSeq(S)[k] => j = k
<1> DEFINE n == Cardinality(S)
           f == SetToSeq(S)
<1>1. n \in Nat /\ ExistsBijection(1 .. n, S)
  BY FS_CardinalityType
<1>2. \E g \in [1 .. n -> S] : IsInjective(g)
  BY <1>1 DEF ExistsBijection, Bijection, Injection
<1>3. f \in [1 .. n -> S] /\ IsInjective(f)
  BY <1>2 DEF SetToSeq
<1>4. f \in Injection(1 .. n, S)
  BY <1>3 DEF Injection
<1>5. IsFiniteSet(1 .. n) /\ Cardinality(1 .. n) = n
  BY <1>1, FS_Interval
<1>6. f \in Surjection(1 .. n, S)
  BY <1>4, <1>5, FS_Injection
<1>7. f \in Seq(S)
  BY <1>1, <1>3, SeqDef
<1> QED  BY <1>3, <1>6, <1>7 DEF Surjection, IsInjective

------------------------------------------------------------------------------
(* Types.                                                                   *)

CallType ==
    call \in {Idle} \cup [order: Orders, req: 1 .. MaxRequests, attempt: 0 .. MaxRetries - 1]

LEMMA FillsFinite ==
    ASSUME BrokerType PROVE IsFiniteSet(NewlyClosed) /\ NewlyClosed \subseteq known
                            /\ NewlyClosed \subseteq DOMAIN book
<1>1. Len(book) \in Nat /\ DOMAIN book = 1 .. Len(book)
  BY DEF BrokerType
<1>2. IsFiniteSet(DOMAIN book)
  BY <1>1, FS_Interval
<1>3. NewlyClosed \subseteq known /\ known \subseteq DOMAIN book
  BY DEF NewlyClosed, BrokerType
<1> QED  BY <1>2, <1>3, FS_Subset

\* An attempt that put an order on the account keeps the account's types.
LEMMA AcceptType ==
    ASSUME BrokerType, NEW o \in Orders, NEW r \in Nat, NEW s, Accept(o, s, r),
           UNCHANGED reported, known' \in {known, known \cup {NextId}}
    PROVE  BrokerType' /\ DOMAIN book \subseteq DOMAIN book' /\ NextId \in DOMAIN book'
<1>1. /\ book' \in Seq(Entry) /\ fillLog' \in Seq(Fill)
      /\ DOMAIN book' = DOMAIN book \cup {NextId}
  BY AcceptFacts
<1>2. reported \in Seq(DOMAIN book')
  BY <1>1, SeqMonotonic DEF BrokerType
<1> QED  BY <1>1, <1>2 DEF BrokerType, Entry, Fill

LEMMA InitType == Init => TypeOK
<1> SUFFICES ASSUME Init PROVE TypeOK
  OBVIOUS
<1>1. BrokerType
  BY DEF Init, BrokerInit, BrokerType
<1>2. call \in {Idle} /\ requests \in 0 .. MaxRequests
  BY GatewayAssumption DEF Init
<1>3. unheard \in [blind: BOOLEAN, kept: SUBSET DOMAIN book]
  BY DEF Init
<1>4. armed \in BOOLEAN /\ killed \in BOOLEAN /\ submitted = {} /\ logged = {}
  BY DEF Init
<1> QED  BY <1>1, <1>2, <1>3, <1>4 DEF TypeOK

LEMMA NextType == TypeOK /\ [Next]_vars => TypeOK'
<1> SUFFICES ASSUME TypeOK, [Next]_vars PROVE TypeOK'
  OBVIOUS
<1> USE DEF TypeOK
<1>0. NextId \notin DOMAIN book
  BY LenProperties DEF BrokerType, NextId
<1>1. CASE Arm \/ Disarm
  BY <1>1 DEF Arm, Disarm, BrokerType, broker
<1>2. CASE Kill
  <2>1. PICK done \in SUBSET submitted :
          Cancelled(done) /\ unheard' = [unheard EXCEPT !.kept = submitted \ done]
    BY <1>2 DEF Kill
  <2>2. book' \in Seq(Entry) /\ DOMAIN book' = DOMAIN book
    BY <2>1, CancelledFacts
  <2>3. BrokerType'
    BY <1>2, <2>2 DEF Kill, BrokerType, Entry
  <2>4. unheard' \in [blind: BOOLEAN, kept: SUBSET DOMAIN book']
    BY <2>1, <2>2
  <2> QED  BY <1>2, <2>2, <2>3, <2>4 DEF Kill
<1>3. CASE ProcessBar
  <2>1. IsFiniteSet(NewlyClosed) /\ NewlyClosed \subseteq DOMAIN book
    BY FillsFinite
  <2>2. SetToSeq(NewlyClosed) \in Seq(DOMAIN book)
    BY <2>1, ListFacts, SeqMonotonic
  <2>3. reported' \in Seq(DOMAIN book)
    BY <1>3, <2>2, ConcatProperties DEF ProcessBar, BrokerType
  <2>4. known' \subseteq DOMAIN book
    BY <1>3 DEF ProcessBar, BrokerType, OpenTrades, InState
  <2> QED  BY <1>3, <2>3, <2>4 DEF ProcessBar, BrokerType, gateway
<1>4. CASE GetPositions
  BY <1>4 DEF GetPositions, BrokerType, OpenTrades, InState, gateway
<1>5. ASSUME NEW o \in Orders, SubmitOrder(o) PROVE TypeOK'
  <2>1. BrokerType'
    BY <1>5 DEF SubmitOrder, BrokerType, OpenTrades, InState
  <2>2. requests' \in 0 .. MaxRequests /\ CallType'
    BY <1>5, GatewayAssumption DEF SubmitOrder, CallType, Idle
  <2>3. unheard' \in [blind: BOOLEAN, kept: SUBSET DOMAIN book]
    BY <1>5 DEF SubmitOrder
  <2> QED  BY <1>5, <2>1, <2>2, <2>3 DEF SubmitOrder, CallType
<1>6. ASSUME NEW id \in logged, CancelOrder(id) PROVE TypeOK'
  <2>1. PICK done \in SUBSET {id} : Cancelled(done)
    BY <1>6 DEF CancelOrder
  <2>2. book' \in Seq(Entry) /\ DOMAIN book' = DOMAIN book
    BY <2>1, CancelledFacts
  <2>3. BrokerType'
    BY <1>6, <2>2 DEF CancelOrder, BrokerType, Entry
  <2> QED  BY <1>6, <2>2, <2>3 DEF CancelOrder
<1>7. CASE Answered
  <2>1. call \in [order: Orders, req: 1 .. MaxRequests, attempt: 0 .. MaxRetries - 1]
    BY <1>7 DEF Answered
  <2>2. PICK s \in FirstState(call.order) :
          /\ Accept(call.order, s, call.req)
          /\ known' \in {known, known \cup {NextId}} /\ UNCHANGED reported
    BY <1>7 DEF Answered, SubmitAnswered
  <2>3. BrokerType' /\ DOMAIN book \subseteq DOMAIN book' /\ NextId \in DOMAIN book'
    BY <2>1, <2>2, AcceptType
  <2> QED  BY <1>7, <2>3 DEF Answered, Idle
<1>8. CASE Failed
  <2>1. call \in [order: Orders, req: 1 .. MaxRequests, attempt: 0 .. MaxRetries - 1]
    BY <1>8 DEF Failed
  <2>2. CallType'
    BY <1>8, <2>1, GatewayAssumption DEF Failed, CallType, Idle
  <2>3. BrokerType' /\ DOMAIN book \subseteq DOMAIN book'
    <3>1. CASE SubmitLost(call.order, call.req)
      BY <2>1, <3>1, AcceptType DEF SubmitLost
    <3>2. CASE SubmitRefused
      BY <3>2 DEF SubmitRefused, broker, BrokerType
    <3> QED  BY <1>8, <3>1, <3>2 DEF Failed
  <2>4. unheard' \in [blind: BOOLEAN, kept: SUBSET DOMAIN book']
    BY <1>8, <2>3 DEF Failed
  <2> QED  BY <1>8, <2>2, <2>3, <2>4 DEF Failed, CallType
<1>9. CASE Account
  <2>1. /\ book' \in Seq(Entry) /\ DOMAIN book' = DOMAIN book /\ fillLog' \in Seq(Fill)
        /\ UNCHANGED <<known, reported>>
    BY <1>9, AccountFacts DEF Account
  <2>2. BrokerType'
    BY <2>1 DEF BrokerType, Entry, Fill
  <2> QED  BY <1>9, <2>1, <2>2 DEF Account, gateway
<1>10. CASE UNCHANGED vars
  BY <1>10 DEF vars, broker, gateway, BrokerType
<1> QED  BY <1>1, <1>2, <1>3, <1>4, <1>5, <1>6, <1>7, <1>8, <1>9, <1>10 DEF Next, Client

\* Every reachable state of the gateway has its type, for any bounds.
THEOREM TypeCorrect == Spec => []TypeOK
BY InitType, NextType, PTL DEF Spec

------------------------------------------------------------------------------
(* What a step does to the book: an attempt adds an order, or orders move.  *)

Grows ==
    /\ call # Idle /\ (Answered \/ Failed)
    /\ DOMAIN book' = DOMAIN book \cup {NextId} /\ NextId \notin DOMAIN book
    /\ \A i \in DOMAIN book : book'[i] = book[i] /\ i < NextId
    /\ book'[NextId].order = call.order /\ book'[NextId].req = call.req
    /\ book'[NextId].state \in FirstState(call.order)
    /\ \A j \in DOMAIN fillLog' :
          fillLog'[j].kind = "closes" => j \in DOMAIN fillLog /\ fillLog'[j] = fillLog[j]

MayBecome(s, t) ==
    \/ s = t
    \/ s = "pending" /\ t \in {"open", "cancelled"}
    \/ s = "open" /\ t = "closed"

Moves ==
    /\ DOMAIN book' = DOMAIN book
    /\ \A i \in DOMAIN book : /\ book'[i].order = book[i].order /\ book'[i].req = book[i].req
                              /\ MayBecome(book[i].state, book'[i].state)

\* An attempt of a call in progress.
LEMMA AttemptStep ==
    ASSUME TypeOK, Answered \/ Failed
    PROVE  /\ call # Idle /\ call \in [order: Orders, req: 1 .. MaxRequests, attempt: 0 .. MaxRetries - 1]
           /\ Grows \/ (Failed /\ UNCHANGED broker)
<1>1. /\ call # Idle
      /\ call \in [order: Orders, req: 1 .. MaxRequests, attempt: 0 .. MaxRetries - 1]
  BY DEF TypeOK, Answered, Failed
<1>2. ASSUME NEW s \in FirstState(call.order), Accept(call.order, s, call.req) PROVE Grows
  <2> DEFINE o == call.order
             r == call.req
  <2>1. BrokerType /\ o \in Orders /\ r \in Nat /\ Accept(o, s, r)
    BY <1>1, <1>2 DEF TypeOK
  <2> HIDE DEF o, r
  <2>2. /\ DOMAIN book' = DOMAIN book \cup {NextId}
        /\ NextId \notin DOMAIN book
        /\ \A i \in DOMAIN book : book'[i] = book[i]
        /\ book'[NextId] = [order |-> o, state |-> s, req |-> r]
        /\ \A j \in DOMAIN fillLog' :
              fillLog'[j].kind = "closes" => j \in DOMAIN fillLog /\ fillLog'[j] = fillLog[j]
    BY <2>1, AcceptFacts
  <2>3. \A i \in DOMAIN book : i < NextId
    BY <2>1, LenProperties DEF BrokerType, NextId
  <2> QED  BY <1>1, <1>2, <2>2, <2>3 DEF Grows, o, r
<1>3. \/ \E s \in FirstState(call.order) : Accept(call.order, s, call.req)
      \/ Failed /\ UNCHANGED broker
  BY DEF Answered, Failed, SubmitAnswered, SubmitLost, SubmitRefused
<1> QED  BY <1>1, <1>2, <1>3

\* What moves an order: a kill or a cancel, or the account.
LEMMA MoveStep ==
    ASSUME TypeOK, [Next]_vars, ~(Answered \/ Failed)
    PROVE  Moves
<1> USE DEF MayBecome
<1>0. BrokerType
  BY DEF TypeOK
<1>1. CASE Kill
  <2>1. \E done : Cancelled(done)
    BY <1>1 DEF Kill
  <2> QED  BY <1>0, <2>1, CancelledFacts DEF Moves
<1>2. ASSUME NEW id \in logged, CancelOrder(id) PROVE Moves
  <2>1. \E done : Cancelled(done)
    BY <1>2 DEF CancelOrder
  <2> QED  BY <1>0, <2>1, CancelledFacts DEF Moves
<1>3. CASE Account
  <2>1. PICK i \in DOMAIN book, s \in {"open", "closed"} :
          /\ book[i].state = IF s = "open" THEN "pending" ELSE "open"
          /\ DOMAIN book' = DOMAIN book /\ book'[i].state = s
          /\ \A j \in DOMAIN book : /\ book'[j].order = book[j].order /\ book'[j].req = book[j].req
                                    /\ j # i => book'[j] = book[j]
    BY <1>0, <1>3, AccountFacts DEF Account
  <2> QED  BY <2>1 DEF Moves
<1>4. CASE UNCHANGED book
  BY <1>4 DEF Moves
<1>5. \/ Kill \/ (\E id \in logged : CancelOrder(id)) \/ Account \/ UNCHANGED book
  BY DEF Next, Client, Arm, Disarm, ProcessBar, GetPositions, SubmitOrder, vars, broker
<1> QED  BY <1>1, <1>2, <1>3, <1>4, <1>5

------------------------------------------------------------------------------
(* Nothing is sent after a kill.                                            *)

\* A call in progress has the gateway armed: nothing else of it runs meanwhile.
ArmedInv == (call # Idle => armed /\ ~killed) /\ (killed => ~armed)

LEMMA ArmedStep == TypeOK /\ ArmedInv /\ [Next]_vars => ArmedInv'
<1> SUFFICES ASSUME TypeOK, ArmedInv, [Next]_vars PROVE ArmedInv'
  OBVIOUS
<1>1. CASE Answered \/ Failed
  BY <1>1 DEF Answered, Failed, ArmedInv
<1>2. CASE \E o \in Orders : SubmitOrder(o)
  BY <1>2 DEF SubmitOrder, ArmedInv
<1>3. CASE Arm \/ Disarm \/ Kill
  BY <1>3 DEF Arm, Disarm, Kill, ArmedInv
<1>4. CASE UNCHANGED <<armed, killed, call>>
  BY <1>4 DEF ArmedInv
<1> QED  BY <1>1, <1>2, <1>3, <1>4
         DEF Next, Client, CancelOrder, ProcessBar, GetPositions, Account, gateway, vars

LEMMA KillStep == TypeOK /\ ArmedInv /\ [Next]_vars =>
                     (/\ Len(book') > Len(book) => armed /\ ~killed
                      /\ killed => killed' /\ ~armed')
<1> SUFFICES ASSUME TypeOK, ArmedInv, [Next]_vars
             PROVE  /\ Len(book') > Len(book) => armed /\ ~killed
                    /\ killed => killed' /\ ~armed'
  OBVIOUS
<1>1. CASE Answered \/ Failed
  BY <1>1 DEF Answered, Failed, ArmedInv
<1>2. CASE ~(Answered \/ Failed)
  <2>1. DOMAIN book' = DOMAIN book
    BY <1>2, MoveStep DEF Moves
  <2>2. DOMAIN book = 1 .. Len(book) /\ DOMAIN book' = 1 .. Len(book')
        /\ Len(book) \in Nat /\ Len(book') \in Nat
    BY NextType DEF TypeOK, BrokerType
  <2>3. ~(Len(book') > Len(book))
    BY <2>1, <2>2
  <2>4. killed => killed' /\ ~armed'
    BY <1>2 DEF Next, Client, Arm, Disarm, Kill, SubmitOrder, CancelOrder, ProcessBar,
                GetPositions, Account, gateway, vars, ArmedInv
  <2> QED  BY <2>3, <2>4
<1> QED  BY <1>1, <1>2

\* After the kill switch, and unarmed, the gateway puts no order on the account.
THEOREM NothingIsSentAfterKill == Spec => NothingAfterKill
<1>1. Init => ArmedInv
  BY DEF Init, ArmedInv
<1>2. TypeOK /\ ArmedInv /\ [Next]_vars =>
        [/\ Len(book') > Len(book) => armed /\ ~killed
         /\ killed => killed' /\ ~armed']_vars
  BY KillStep
<1> QED  BY <1>1, <1>2, InitType, NextType, ArmedStep, PTL DEF Spec, NothingAfterKill

------------------------------------------------------------------------------
(* How much one call leaves on the account.                                 *)

Made(r) == {i \in DOMAIN book : book[i].req = r}

\* Orders are of requests made; the call in progress is the last of them, and
\* has made no more orders than it had attempts.
RequestInv ==
    /\ \A i \in DOMAIN book : book[i].req \in 1 .. requests
    /\ call # Idle => call.req = requests
    /\ \A r \in 1 .. requests :
          /\ Cardinality(Made(r)) <= IF call # Idle /\ call.req = r THEN call.attempt ELSE MaxRetries
          /\ \A i, j \in Made(r) : book[i].order = book[j].order
    /\ call # Idle => \A i \in Made(call.req) : book[i].order = call.order

LEMMA MadeFinite == ASSUME BrokerType, NEW r
                    PROVE  IsFiniteSet(Made(r)) /\ Cardinality(Made(r)) \in Nat
<1>1. Len(book) \in Nat /\ DOMAIN book = 1 .. Len(book)
  BY DEF BrokerType
<1>2. IsFiniteSet(DOMAIN book)
  BY <1>1, FS_Interval
<1>3. IsFiniteSet(Made(r))
  BY <1>2, FS_Subset DEF Made
<1> QED  BY <1>3, FS_CardinalityType

LEMMA RequestStep == TypeOK /\ RequestInv /\ [Next]_vars => RequestInv'
<1> SUFFICES ASSUME TypeOK, RequestInv, [Next]_vars PROVE RequestInv'
  OBVIOUS
<1> DEFINE After(r) == {i \in DOMAIN book' : book'[i].req = r}
<1>a. \A r : Made(r)' = After(r)
  BY DEF Made
<1> HIDE DEF After
<1>0. requests \in Nat /\ BrokerType /\ MaxRetries \in Nat \ {0}
  BY GatewayAssumption DEF TypeOK
<1>1. CASE Answered \/ Failed
  <2>1. /\ call # Idle /\ call \in [order: Orders, req: 1 .. MaxRequests, attempt: 0 .. MaxRetries - 1]
        /\ Grows \/ (Failed /\ UNCHANGED broker)
    BY <1>1, AttemptStep
  <2>2. /\ requests' = requests /\ call.req = requests /\ requests \in 1 .. requests
        /\ \/ call' = Idle
           \/ /\ call' # Idle /\ call'.req = call.req /\ call'.order = call.order
              /\ call'.attempt = call.attempt + 1
    BY <1>1, <2>1 DEF Answered, Failed, RequestInv, Idle
  <2>3. \A r \in 1 .. requests : /\ IsFiniteSet(Made(r)) /\ Cardinality(Made(r)) \in Nat
    BY <1>0, MadeFinite
  <2>4. \A r \in 1 .. requests :
           After(r) = Made(r) \/ (r = call.req /\ After(r) = Made(r) \cup {NextId})
    BY <2>1 DEF Made, After, Grows, broker
  <2>5. \A r \in 1 .. requests :
           \/ Cardinality(After(r)) = Cardinality(Made(r)) /\ After(r) = Made(r)
           \/ r = call.req /\ Cardinality(After(r)) <= Cardinality(Made(r)) + 1
    <3> SUFFICES ASSUME NEW r \in 1 .. requests, r = call.req, After(r) = Made(r) \cup {NextId}
                 PROVE  Cardinality(After(r)) <= Cardinality(Made(r)) + 1
      BY <2>4
    <3>1. IsFiniteSet(Made(r)) /\ Cardinality(Made(r)) \in Nat
      BY <2>3
    <3> QED  BY <3>1, FS_AddElement
  <2>6. \A r \in 1 .. requests :
           Cardinality(After(r)) <= IF call' # Idle /\ call'.req = r THEN call'.attempt ELSE MaxRetries
    <3> SUFFICES ASSUME NEW r \in 1 .. requests
                 PROVE  Cardinality(After(r)) <=
                          IF call' # Idle /\ call'.req = r THEN call'.attempt ELSE MaxRetries
      OBVIOUS
    <3>1. CASE r = call.req
      <4>1. Cardinality(Made(r)) <= call.attempt /\ call.attempt \in 0 .. MaxRetries - 1
        BY <2>1, <3>1 DEF RequestInv
      <4>2. Cardinality(Made(r)) \in Nat /\ Cardinality(After(r)) <= Cardinality(Made(r)) + 1
        BY <2>3, <2>5
      <4>3. Cardinality(After(r)) <= call.attempt + 1 /\ Cardinality(After(r)) <= MaxRetries
        <5>1. Cardinality(After(r)) \in Nat
          BY <1>a, <2>3, <2>4, FS_AddElement, FS_CardinalityType
        <5> QED  BY <1>0, <4>1, <4>2, <5>1
      <4> QED  BY <2>2, <4>3
    <3>2. CASE r # call.req
      <4>1. Cardinality(Made(r)) <= MaxRetries
        BY <3>2 DEF RequestInv
      <4> QED  BY <2>2, <2>5, <3>2, <4>1
    <3> QED  BY <3>1, <3>2
  <2>7. \A r \in 1 .. requests : \A i \in After(r) :
           \/ i \in Made(r) /\ book'[i].order = book[i].order
           \/ r = call.req /\ book'[i].order = call.order
    BY <2>1 DEF Made, After, Grows, broker
  <2>8. \A i \in After(call.req) : book'[i].order = call.order
    BY <2>1, <2>2, <2>7 DEF RequestInv
  <2>9. \A r \in 1 .. requests : \A i, j \in After(r) : book'[i].order = book'[j].order
    <3> SUFFICES ASSUME NEW r \in 1 .. requests, NEW i \in After(r), NEW j \in After(r)
                 PROVE  book'[i].order = book'[j].order
      OBVIOUS
    <3>1. CASE r = call.req
      BY <2>8, <3>1
    <3>2. CASE r # call.req
      BY <2>7, <3>2 DEF RequestInv
    <3> QED  BY <3>1, <3>2
  <2>10. \A i \in DOMAIN book' : book'[i].req \in 1 .. requests
    BY <2>1, <2>2 DEF RequestInv, Grows, broker
  <2>11. call' # Idle => /\ call'.req = requests'
                         /\ \A i \in After(call'.req) : book'[i].order = call'.order
    BY <2>2, <2>8
  <2>12. requests' = requests
    BY <2>2
  <2> QED  BY <1>a, <2>6, <2>9, <2>10, <2>11, <2>12 DEF RequestInv
<1>2. ASSUME ~(Answered \/ Failed) PROVE RequestInv'
  <2>1. Moves
    BY <1>2, MoveStep
  <2>2. \A r : After(r) = Made(r)
    BY <2>1 DEF Made, After, Moves
  <2>0. \A r : \A i, j \in Made(r) : book[i].order = book[j].order
                                     => book'[i].order = book'[j].order
    BY <2>1 DEF Made, Moves
  <2>3. CASE UNCHANGED <<requests, call>>
    <3>1. \A i \in DOMAIN book' : book'[i].req \in 1 .. requests
      BY <2>1 DEF RequestInv, Moves
    <3>2. \A r \in 1 .. requests : \A i, j \in After(r) : book'[i].order = book'[j].order
      BY <2>0, <2>2 DEF RequestInv
    <3>3. call # Idle => \A i \in After(call.req) : book'[i].order = call.order
      BY <2>1, <2>2 DEF RequestInv, Moves, Made
    <3> QED  BY <1>a, <2>2, <2>3, <3>1, <3>2, <3>3 DEF RequestInv
  <2>4. CASE \E o \in Orders : SubmitOrder(o) /\ requests' = requests + 1
                               /\ call' = [order |-> o, req |-> requests + 1, attempt |-> 0]
    <3>1. call = Idle /\ Made(requests + 1) = {}
      BY <1>0, <2>4 DEF SubmitOrder, RequestInv, Made
    <3>2. \A r \in 1 .. requests + 1 : r \in 1 .. requests \/ r = requests + 1
      BY <1>0
    <3>3. call' # Idle /\ call'.req = requests + 1 /\ call'.attempt = 0
      BY <1>0, <2>4 DEF Idle
    <3>4. Cardinality({}) = 0
      BY FS_EmptySet
    <3>5. \A i \in DOMAIN book' : book'[i].req \in 1 .. requests + 1
      BY <1>0, <2>1 DEF RequestInv, Moves
    <3>6. ASSUME NEW r \in 1 .. requests + 1
          PROVE  /\ Cardinality(After(r)) <= IF call' # Idle /\ call'.req = r THEN call'.attempt ELSE MaxRetries
                 /\ \A i, j \in After(r) : book'[i].order = book'[j].order
      <4>1. CASE r = requests + 1
        <5>1. After(r) = {}
          BY <2>2, <3>1, <4>1
        <5> QED  BY <3>3, <3>4, <4>1, <5>1
      <4>2. CASE r \in 1 .. requests
        <5>1. r # requests + 1 /\ After(r) = Made(r)
          BY <1>0, <2>2, <4>2
        <5>2. Cardinality(Made(r)) <= MaxRetries
          BY <3>1, <4>2 DEF RequestInv
        <5>3. \A i, j \in Made(r) : book'[i].order = book'[j].order
          BY <2>0, <4>2 DEF RequestInv
        <5> QED  BY <3>3, <5>1, <5>2, <5>3
      <4> QED  BY <3>2, <4>1, <4>2
    <3>7. call' # Idle => \A i \in After(call'.req) : book'[i].order = call'.order
      BY <2>2, <3>1, <3>3
    <3> QED  BY <1>a, <2>4, <3>3, <3>5, <3>6, <3>7 DEF RequestInv
  <2>5. UNCHANGED <<requests, call>> \/ \E o \in Orders :
          SubmitOrder(o) /\ requests' = requests + 1
          /\ call' = [order |-> o, req |-> requests + 1, attempt |-> 0]
    BY <1>2 DEF Next, Client, Arm, Disarm, Kill, CancelOrder, ProcessBar, GetPositions,
                SubmitOrder, Account, gateway, vars
  <2> QED  BY <2>3, <2>4, <2>5
<1> QED  BY <1>1, <1>2

\* However its attempts fail, one call leaves at most MaxRetries orders.
THEOREM RetriesAreBounded == Spec => []AtMostRetries
<1>1. Init => RequestInv
  BY DEF Init, BrokerInit, RequestInv
<1>2. TypeOK /\ RequestInv => AtMostRetries
  <2> SUFFICES ASSUME TypeOK, RequestInv, NEW r \in 1 .. requests
               PROVE  /\ Cardinality(Made(r)) <= MaxRetries
                      /\ \A i, j \in Made(r) : book[i].order = book[j].order
    BY DEF AtMostRetries, Made
  <2>1. Cardinality(Made(r)) \in Nat
    BY MadeFinite DEF TypeOK
  <2>2. call # Idle => call.attempt \in 0 .. MaxRetries - 1
    BY DEF TypeOK
  <2> QED  BY <2>1, <2>2, GatewayAssumption DEF RequestInv
<1> QED  BY <1>1, <1>2, InitType, NextType, RequestStep, PTL DEF Spec

------------------------------------------------------------------------------
(* A call ends with its first answer.                                       *)

AnswerInv ==
    /\ StopsAtAnswer
    /\ call # Idle => \A i \in logged : book[i].req # call.req

LEMMA CallStays == TypeOK /\ (Answered \/ Failed) => call' = Idle \/ call'.req = call.req
<1> SUFFICES ASSUME TypeOK, Answered \/ Failed, call' # Idle PROVE call'.req = call.req
  OBVIOUS
<1>1. call \in [order: Orders, req: 1 .. MaxRequests, attempt: 0 .. MaxRetries - 1]
  BY AttemptStep
<1>2. call' = [call EXCEPT !.attempt = @ + 1]
  BY DEF Answered, Failed
<1> QED  BY <1>1, <1>2

LEMMA AnswerStep == TypeOK /\ RequestInv /\ AnswerInv /\ [Next]_vars => AnswerInv'
<1> SUFFICES ASSUME TypeOK, RequestInv, AnswerInv, [Next]_vars PROVE AnswerInv'
  OBVIOUS
<1>0. logged \subseteq DOMAIN book
  BY DEF TypeOK
<1>1. CASE Grows
  <2>1. \A i \in logged : book'[i] = book[i] /\ book[i].req # call.req
    BY <1>0, <1>1 DEF Grows, AnswerInv
  <2>2. logged' = logged \/ (logged' = logged \cup {NextId} /\ call' = Idle)
    <3>1. Answered \/ Failed
      BY <1>1 DEF Grows
    <3> QED  BY <3>1 DEF Answered, Failed
  <2>3. call' = Idle \/ call'.req = call.req
    <3>1. Answered \/ Failed
      BY <1>1 DEF Grows
    <3> QED  BY <3>1, CallStays
  <2>4. ASSUME NEW i \in logged', NEW j \in DOMAIN book', book'[j].req = book'[i].req
        PROVE  j <= i
    <3>1. CASE i \in logged /\ j \in DOMAIN book
      BY <1>1, <2>1, <2>4, <3>1 DEF Grows, AnswerInv, StopsAtAnswer
    <3>2. CASE i \in logged /\ j = NextId
      BY <1>1, <2>1, <2>4, <3>2 DEF Grows
    <3>3. CASE i = NextId
      <4>1. NextId \in Int
        BY LenProperties DEF TypeOK, BrokerType, NextId
      <4>2. DOMAIN book \subseteq Int
        BY LenProperties DEF TypeOK, BrokerType
      <4> QED  BY <1>1, <3>3, <4>1, <4>2 DEF Grows
    <3> QED  BY <1>1, <2>2, <2>4, <3>1, <3>2, <3>3 DEF Grows
  <2>5. call' # Idle => \A i \in logged' : book'[i].req # call'.req
    BY <2>1, <2>2, <2>3
  <2> QED  BY <2>4, <2>5 DEF AnswerInv, StopsAtAnswer
<1>2. CASE Failed /\ UNCHANGED broker
  <2>1. UNCHANGED <<book, logged>> /\ call # Idle /\ (call' = Idle \/ call'.req = call.req)
    BY <1>2, CallStays DEF Failed, broker
  <2> QED  BY <2>1 DEF AnswerInv, StopsAtAnswer
<1>3. CASE ~(Answered \/ Failed)
  <2>1. Moves
    BY <1>3, MoveStep
  <2>2. UNCHANGED logged
    BY <1>3 DEF Next, Client, Arm, Disarm, Kill, CancelOrder, ProcessBar, GetPositions,
                SubmitOrder, Account, gateway, vars
  <2>3. call' = call \/ call'.req = requests + 1
    <3>1. ASSUME NEW q \in Orders, SubmitOrder(q) PROVE call' = call \/ call'.req = requests + 1
      BY <3>1 DEF SubmitOrder
    <3> QED  BY <1>3, <3>1 DEF Next, Client, Arm, Disarm, Kill, CancelOrder, ProcessBar, GetPositions,
                SubmitOrder, Account, gateway, vars
  <2>4. \A i \in logged : book'[i].req = book[i].req /\ book[i].req \in 1 .. requests
    BY <1>0, <2>1 DEF Moves, RequestInv
  <2>5. requests \in Nat
    BY DEF TypeOK
  <2>6. call' # Idle => \A i \in logged' : book'[i].req # call'.req
    BY <2>2, <2>3, <2>4, <2>5 DEF AnswerInv
  <2>7. StopsAtAnswer'
    BY <1>0, <2>1, <2>2 DEF AnswerInv, StopsAtAnswer, Moves
  <2> QED  BY <2>6, <2>7 DEF AnswerInv
<1> QED  BY <1>1, <1>2, <1>3, AttemptStep

\* No attempt follows one whose id was recorded.
THEOREM CallsStopAtAnswer == Spec => []StopsAtAnswer
<1>1. Init => RequestInv
  BY DEF Init, BrokerInit, RequestInv
<1>2. Init => AnswerInv
  BY DEF Init, BrokerInit, AnswerInv, StopsAtAnswer
<1>3. AnswerInv => StopsAtAnswer
  BY DEF AnswerInv
<1> QED  BY <1>1, <1>2, <1>3, InitType, NextType, RequestStep, AnswerStep, PTL DEF Spec

------------------------------------------------------------------------------
(* What the client is told.                                                 *)

\* The log's closes are of closed trades, only limit orders rest, and a market
\* trade that was answered is known or was reported.
ReportInv ==
    /\ ReportedOnce
    /\ \A j \in DOMAIN fillLog : fillLog[j].kind = "closes" =>
          fillLog[j].id \in DOMAIN book /\ book[fillLog[j].id].state = "closed"
    /\ \A i \in DOMAIN book : book[i].state = "pending" => book[i].order \in LimitOrders
    /\ \A i \in logged :
          book[i].order \notin LimitOrders /\ book[i].state \in {"open", "closed"} =>
              i \in known \/ \E k \in DOMAIN reported : reported[k] = i

LEMMA ReportStep == TypeOK /\ ReportInv /\ [Next]_vars => ReportInv'
<1> SUFFICES ASSUME TypeOK, ReportInv, [Next]_vars PROVE ReportInv'
  OBVIOUS
<1>0. /\ logged \subseteq DOMAIN book /\ known \subseteq DOMAIN book
      /\ \A k \in DOMAIN reported : reported[k] \in DOMAIN book
      /\ BrokerType
  BY ElementOfSeq, LenProperties DEF TypeOK, BrokerType
<1>1. CASE Grows
  <2>1. /\ \A i \in DOMAIN book : book'[i] = book[i]
        /\ NextId \notin DOMAIN book /\ DOMAIN book' = DOMAIN book \cup {NextId}
        /\ book'[NextId].order = call.order /\ book'[NextId].state \in FirstState(call.order)
    BY <1>1 DEF Grows
  <2>2. /\ reported' = reported /\ known \subseteq known' /\ known' \subseteq known \cup {NextId}
        /\ logged' \subseteq logged \cup {NextId}
    BY <1>1 DEF Grows, Answered, Failed, SubmitAnswered, SubmitLost, SubmitRefused, broker
  <2>3. NextId \in logged' /\ book'[NextId].state = "open" => NextId \in known'
    <3>1. CASE Answered
      <4>1. PICK s \in FirstState(call.order) :
               /\ book' = Append(book, [order |-> call.order, state |-> s, req |-> call.req])
               /\ known' = IF s = "open" THEN known \cup {NextId} ELSE known
        BY <3>1 DEF Answered, SubmitAnswered, Accept
      <4>2. book'[NextId].state = s
        <5> DEFINE e == [order |-> call.order, state |-> s, req |-> call.req]
        <5>1. e \in Entry /\ book \in Seq(Entry)
          BY <1>0, <1>1, AttemptStep DEF Grows, Entry, FirstState, OrderStates, BrokerType
        <5>2. book' = Append(book, e)
          BY <4>1
        <5>3. book'[Len(book) + 1] = e
          BY <5>1, <5>2, AppendProperties
        <5> QED  BY <5>3 DEF NextId
      <4> QED  BY <4>1, <4>2
    <3>2. CASE Failed
      BY <3>2, <1>0, <2>1 DEF Failed
    <3> QED  BY <1>1, <3>1, <3>2 DEF Grows
  <2>4. ReportedOnce'
    BY <1>0, <2>1, <2>2 DEF ReportInv, ReportedOnce
  <2>5. \A j \in DOMAIN fillLog' : fillLog'[j].kind = "closes" =>
          fillLog'[j].id \in DOMAIN book' /\ book'[fillLog'[j].id].state = "closed"
    BY <1>1, <2>1 DEF Grows, ReportInv
  <2>6. \A i \in DOMAIN book' : book'[i].state = "pending" => book'[i].order \in LimitOrders
    BY <2>1 DEF ReportInv, FirstState
  <2>7. book'[NextId].state = "closed" => FALSE
    BY <2>1 DEF FirstState
  <2>8. ASSUME NEW i \in logged', book'[i].order \notin LimitOrders, book'[i].state \in {"open", "closed"}
        PROVE  i \in known' \/ \E k \in DOMAIN reported' : reported'[k] = i
    <3>1. CASE i = NextId
      BY <2>3, <2>7, <2>8, <3>1
    <3>2. CASE i \in logged
      BY <1>0, <2>1, <2>2, <2>8, <3>2 DEF ReportInv
    <3> QED  BY <2>2, <3>1, <3>2
  <2> QED  BY <2>4, <2>5, <2>6, <2>8 DEF ReportInv
<1>2. CASE ProcessBar
  <2> DEFINE n == SetToSeq(NewlyClosed)
  <2>1. /\ IsFiniteSet(NewlyClosed) /\ NewlyClosed \subseteq known
    BY <1>0, FillsFinite
  <2>2. /\ n \in Seq(NewlyClosed)
        /\ \A x \in NewlyClosed : \E k \in DOMAIN n : n[k] = x
        /\ \A j, k \in DOMAIN n : n[j] = n[k] => j = k
    BY <2>1, ListFacts
  <2>3. \A x \in NewlyClosed : book[x].state = "closed"
    BY DEF NewlyClosed, Polled, ReportInv
  <2>4. /\ UNCHANGED <<book, fillLog, logged>> /\ reported' = reported \o n
        /\ known' \subseteq (known \ NewlyClosed) \cup OpenTrades /\ known \ NewlyClosed \subseteq known'
    BY <1>2 DEF ProcessBar, gateway
  <2> HIDE DEF n
  <2>5. n \in Seq(DOMAIN book) /\ reported \in Seq(DOMAIN book) /\ \A k \in DOMAIN n : n[k] \in NewlyClosed
    BY <1>0, <2>1, <2>2, SeqMonotonic, ElementOfSeq, LenProperties DEF BrokerType
  <2>6. /\ Len(reported) \in Nat /\ Len(n) \in Nat /\ DOMAIN reported = 1 .. Len(reported)
        /\ DOMAIN n = 1 .. Len(n) /\ DOMAIN reported' = 1 .. Len(reported) + Len(n)
        /\ \A k \in 1 .. Len(reported) + Len(n) :
              reported'[k] = IF k <= Len(reported) THEN reported[k] ELSE n[k - Len(reported)]
    BY <2>4, <2>5, ConcatProperties, LenProperties
  <2>7. ASSUME NEW k \in DOMAIN reported'
        PROVE  \/ k \in DOMAIN reported /\ reported'[k] = reported[k] /\ reported[k] \notin NewlyClosed
               \/ k - Len(reported) \in DOMAIN n /\ reported'[k] = n[k - Len(reported)]
                  /\ k > Len(reported) /\ reported'[k] \in NewlyClosed
    BY <2>1, <2>5, <2>6 DEF ReportInv, ReportedOnce
  <2>8. ReportedOnce'
    <3>1. ASSUME NEW k \in DOMAIN reported'
          PROVE  book'[reported'[k]].state = "closed" /\ reported'[k] \notin known'
      <4>1. book[reported'[k]].state = "closed"
        BY <2>3, <2>7 DEF ReportInv, ReportedOnce
      <4>2. reported'[k] \notin known \/ reported'[k] \in NewlyClosed
        BY <2>7 DEF ReportInv, ReportedOnce
      <4> QED  BY <2>4, <4>1, <4>2 DEF OpenTrades, InState
    <3>2. ASSUME NEW j \in DOMAIN reported', NEW k \in DOMAIN reported', reported'[j] = reported'[k]
          PROVE  j = k
      <4>1. CASE j \in DOMAIN reported /\ k \in DOMAIN reported
        BY <2>6, <3>2, <4>1 DEF ReportInv, ReportedOnce
      <4>2. CASE j \notin DOMAIN reported /\ k \notin DOMAIN reported
        BY <2>2, <2>6, <2>7, <3>2, <4>2
      <4> QED  BY <2>6, <2>7, <3>2, <4>1, <4>2
    <3> QED  BY <3>1, <3>2 DEF ReportedOnce
  <2>9. ASSUME NEW i \in logged', book'[i].order \notin LimitOrders, book'[i].state \in {"open", "closed"}
        PROVE  i \in known' \/ \E k \in DOMAIN reported' : reported'[k] = i
    <3>1. CASE i \in NewlyClosed
      <4>1. PICK k \in DOMAIN n : n[k] = i
        BY <2>2, <3>1
      <4>2. Len(reported) + k \in DOMAIN reported' /\ reported'[Len(reported) + k] = i
        BY <2>6, <4>1
      <4> QED  BY <4>2
    <3>2. CASE i \in known \ NewlyClosed
      BY <2>4, <3>2
    <3>3. CASE \E k \in DOMAIN reported : reported[k] = i
      BY <2>6, <3>3
    <3> QED  BY <2>4, <2>9, <3>1, <3>2, <3>3 DEF ReportInv
  <2> QED  BY <2>4, <2>8, <2>9 DEF ReportInv
<1>3. ASSUME ~(Answered \/ Failed), ~ProcessBar PROVE ReportInv'
  <2>1. Moves
    BY <1>3, MoveStep
  <2>2. UNCHANGED <<logged, reported>> /\ known \subseteq known' /\ known' \subseteq known \cup OpenTrades
    BY <1>3 DEF Next, Client, Arm, Disarm, Kill, CancelOrder, GetPositions, SubmitOrder, Account,
                AccountMoves, LimitFills, TradeCloses, PositionsRead, gateway, broker, vars
  <2>3. \A j \in DOMAIN fillLog' : fillLog'[j].kind = "closes" =>
          \/ j \in DOMAIN fillLog /\ fillLog'[j] = fillLog[j]
          \/ fillLog'[j].id \in DOMAIN book /\ book'[fillLog'[j].id].state = "closed"
    <3>1. CASE Account
      <4>1. AccountMoves
        BY <3>1 DEF Account
      <4>2. PICK i \in DOMAIN book, s \in {"open", "closed"} :
              /\ book'[i].state = s
              /\ \A j \in DOMAIN fillLog' : fillLog'[j].kind = "closes" =>
                    \/ j \in DOMAIN fillLog /\ fillLog'[j] = fillLog[j]
                    \/ s = "closed" /\ fillLog'[j].id = i
        BY <1>0, <4>1, AccountFacts
      <4> QED  BY <4>2
    <3>2. CASE UNCHANGED fillLog
      BY <3>2
    <3> QED  BY <1>3, <3>1, <3>2 DEF Next, Client, Arm, Disarm, Kill, CancelOrder, GetPositions,
                SubmitOrder, broker, vars
  <2>4. \A i \in DOMAIN book : book[i].state = "closed" => book'[i].state = "closed"
    BY <2>1 DEF Moves, MayBecome
  <2>5. ReportedOnce'
    <3>1. ASSUME NEW k \in DOMAIN reported
          PROVE  book[reported[k]].state = "closed" /\ reported[k] \notin known /\ reported[k] \in DOMAIN book
      BY <1>0 DEF ReportInv, ReportedOnce
    <3>2. \A k \in DOMAIN reported : book'[reported[k]].state = "closed" /\ reported[k] \notin known'
      BY <2>2, <2>4, <3>1 DEF OpenTrades, InState
    <3> QED  BY <2>2, <3>2 DEF ReportInv, ReportedOnce
  <2>6. \A j \in DOMAIN fillLog' : fillLog'[j].kind = "closes" =>
          fillLog'[j].id \in DOMAIN book' /\ book'[fillLog'[j].id].state = "closed"
    BY <2>1, <2>3, <2>4 DEF ReportInv, Moves
  <2>7. \A i \in DOMAIN book' : book'[i].state = "pending" => book'[i].order \in LimitOrders
    BY <2>1 DEF ReportInv, Moves, MayBecome
  <2>8. \A i \in logged' : book'[i].order \notin LimitOrders /\ book'[i].state \in {"open", "closed"} =>
              i \in known' \/ \E k \in DOMAIN reported' : reported'[k] = i
    BY <1>0, <2>1, <2>2 DEF ReportInv, Moves, MayBecome
  <2> QED  BY <2>5, <2>6, <2>7, <2>8 DEF ReportInv
<1>4. CASE Failed /\ UNCHANGED broker
  <2>1. UNCHANGED <<book, fillLog, known, reported, logged>>
    BY <1>4 DEF Failed, broker
  <2> QED  BY <2>1 DEF ReportInv, ReportedOnce
<1> QED  BY <1>1, <1>2, <1>3, <1>4, AttemptStep

LEMMA InitReport == Init => ReportInv
BY DEF Init, BrokerInit, ReportInv, ReportedOnce

\* A close reaches the client at most once and only closed trades do, however
\* often get_positions adds to the known trades.
THEOREM ClosesReportedOnce == Spec => []ReportedOnce
<1>1. ReportInv => ReportedOnce
  BY DEF ReportInv
<1> QED  BY <1>1, InitType, NextType, InitReport, ReportStep, PTL DEF Spec

\* A market trade that was answered and closed was delivered or is still waited
\* for, whatever failed in between.
THEOREM ClosesAreTracked == Spec => []CloseTracked
<1>1. TypeOK /\ ReportInv => CloseTracked
  BY DEF TypeOK, ReportInv, CloseTracked, InState, Range
<1> QED  BY <1>1, InitType, NextType, InitReport, ReportStep, PTL DEF Spec

------------------------------------------------------------------------------
(* What the kill switch leaves.                                             *)

\* What was answered and rests is held for the kill to cancel.
KillInv ==
    /\ KillCancelsKnown
    /\ PendingIds \cap logged \subseteq submitted

LEMMA KillInvStep == TypeOK /\ ArmedInv /\ KillInv /\ [Next]_vars => KillInv'
<1> SUFFICES ASSUME TypeOK, ArmedInv, KillInv, [Next]_vars PROVE KillInv'
  OBVIOUS
<1>0. logged \subseteq DOMAIN book /\ BrokerType
  BY DEF TypeOK
<1>1. CASE Answered \/ Failed
  <2>1. ~killed'
    BY <1>1 DEF Answered, Failed, ArmedInv
  <2>2. \/ logged' = logged /\ submitted' = submitted
        \/ logged' = logged \cup {NextId} /\ submitted' = submitted \cup {NextId}
    BY <1>1 DEF Answered, Failed
  <2>3. \A i \in DOMAIN book : book'[i] = book[i]
    BY <1>1, AttemptStep DEF Grows, broker
  <2>4. PendingIds' \cap logged' \subseteq submitted'
    BY <1>0, <2>2, <2>3 DEF KillInv, PendingIds, InState
  <2> QED  BY <2>1, <2>4 DEF KillInv, KillCancelsKnown
<1>2. ASSUME ~(Answered \/ Failed) PROVE KillInv'
  <2>1. Moves
    BY <1>2, MoveStep
  <2>2. PendingIds' \subseteq PendingIds /\ DOMAIN book' = DOMAIN book
    BY <2>1 DEF Moves, MayBecome, PendingIds, InState
  <2>3. UNCHANGED logged
    BY <1>2 DEF Next, Client, Arm, Disarm, Kill, CancelOrder, ProcessBar, GetPositions,
                SubmitOrder, Account, gateway, vars
  <2>4. CASE Kill
    <3>1. PICK done \in SUBSET submitted :
            Cancelled(done) /\ unheard' = [unheard EXCEPT !.kept = submitted \ done]
      BY <2>4 DEF Kill
    <3>2. submitted' = submitted /\ unheard'.kept = submitted \ done
      BY <2>4, <3>1 DEF Kill, TypeOK
    <3>3. PendingIds' \cap done = {}
      BY <1>0, <2>2, <3>1, CancelledFacts DEF PendingIds, InState
    <3> QED  BY <2>2, <2>3, <3>2, <3>3 DEF KillInv, KillCancelsKnown, PendingIds, InState
  <2>5. ASSUME NEW id \in logged, CancelOrder(id) PROVE KillInv'
    <3>1. ~killed' /\ submitted \ {id} \subseteq submitted'
      BY <2>5 DEF CancelOrder
    <3>2. Cancelled({id}) \/ submitted' = submitted
      BY <2>5 DEF CancelOrder
    <3>3. Cancelled({id}) => id \notin PendingIds'
      BY <1>0, <2>2, CancelledFacts DEF PendingIds, InState
    <3> QED  BY <2>2, <2>3, <3>1, <3>2, <3>3 DEF KillInv, KillCancelsKnown
  <2>6. CASE UNCHANGED <<killed, submitted>> /\ unheard'.kept = unheard.kept
    BY <2>2, <2>3, <2>6 DEF KillInv, KillCancelsKnown
  <2>7. \/ Kill \/ (\E id \in logged : CancelOrder(id))
        \/ UNCHANGED <<killed, submitted>> /\ unheard'.kept = unheard.kept
    <3>1. ASSUME NEW q \in Orders, SubmitOrder(q)
          PROVE  UNCHANGED <<killed, submitted>> /\ unheard'.kept = unheard.kept
      BY <3>1 DEF SubmitOrder, TypeOK
    <3> QED  BY <1>2, <3>1 DEF Next, Client, Arm, Disarm, ProcessBar, GetPositions, Account, gateway, vars
  <2> QED  BY <2>4, <2>5, <2>6, <2>7
<1> QED  BY <1>1, <1>2

\* After the kill switch an order rests only if its cancel failed in the kill, or
\* the gateway was never answered about it.
THEOREM KillLeavesTheUnknown == Spec => []KillCancelsKnown
<1>1. Init => ArmedInv /\ KillInv
  BY DEF Init, BrokerInit, ArmedInv, KillInv, KillCancelsKnown
<1>2. KillInv => KillCancelsKnown
  BY DEF KillInv
<1> QED  BY <1>1, <1>2, InitType, NextType, ArmedStep, KillInvStep, PTL DEF Spec

------------------------------------------------------------------------------
(* Sums over a finite set.  The smallest subset for which a statement fails *)
(* is what an induction over the set would come to.                         *)

\* Of any subsets of a finite set one has no other below it.
LEMMA SmallestSubset ==
  ASSUME NEW S, IsFiniteSet(S), NEW B \in SUBSET SUBSET S, B # {}
  PROVE  \E T \in B : \A U \in B : U \subseteq T => U = T
<1>1. IsWellFoundedOn(StrictSubsetOrdering(S), FiniteSubsetsOf(S))
  BY FS_StrictSubsetOrderingWellFounded
<1>2. B \subseteq FiniteSubsetsOf(S)
  BY FS_Subset DEF FiniteSubsetsOf
<1>3. PICK T \in B : \A U \in B : ~(<<U, T>> \in StrictSubsetOrdering(S))
  BY <1>1, <1>2, WFMin
<1> QED BY <1>2, <1>3 DEF StrictSubsetOrdering, FiniteSubsetsOf

\* g adds the values of w over every subset of S, one element after the other.
Taken(s) == CHOOSE x \in s : TRUE
AddsUp(w, S, g) ==
  g = [s \in SUBSET S |-> IF s = {} THEN 0 ELSE w[Taken(s)] + g[s \ {Taken(s)}]]

LEMMA AddsUpOnce ==
  ASSUME NEW w, NEW S, IsFiniteSet(S), NEW T, NEW g, NEW h,
         AddsUp(w, S, g), AddsUp(w, T, h)
  PROVE  \A s \in SUBSET (S \cap T) : g[s] = h[s]
<1> DEFINE B == {s \in SUBSET S : s \subseteq T /\ g[s] # h[s]}
<1> SUFFICES ASSUME B # {} PROVE FALSE
  OBVIOUS
<1>1. PICK s \in B : \A u \in B : u \subseteq s => u = s
  <2>1. B \in SUBSET SUBSET S
    OBVIOUS
  <2> HIDE DEF B
  <2> QED BY <2>1, SmallestSubset
<1>2. s # {} /\ Taken(s) \in s
  BY <1>1 DEF AddsUp, Taken
<1>3. g[s \ {Taken(s)}] = h[s \ {Taken(s)}]
  BY <1>1, <1>2
<1> QED BY <1>1, <1>2, <1>3 DEF AddsUp

LEMMA AddsUpExists ==
  ASSUME NEW w, NEW S, IsFiniteSet(S)
  PROVE  \E g : AddsUp(w, S, g)
<1> DEFINE B == {s \in SUBSET S : ~\E g : AddsUp(w, s, g)}
<1> SUFFICES ASSUME B # {} PROVE FALSE
  OBVIOUS
<1>1. PICK T \in B : \A u \in B : u \subseteq T => u = T
  <2>1. B \in SUBSET SUBSET S
    OBVIOUS
  <2> HIDE DEF B
  <2> QED BY <2>1, SmallestSubset
<1> DEFINE G(s) == CHOOSE g : AddsUp(w, s, g)
           f == [s \in SUBSET T |->
                   IF s = {} THEN 0 ELSE w[Taken(s)] + G(s \ {Taken(s)})[s \ {Taken(s)}]]
<1>2. \A s \in SUBSET T : s # T => AddsUp(w, s, G(s))
  BY <1>1
<1>3. ASSUME NEW s \in SUBSET T, s # {}
      PROVE  f[s \ {Taken(s)}] = G(s \ {Taken(s)})[s \ {Taken(s)}]
  <2> DEFINE t == s \ {Taken(s)}
             u == t \ {Taken(t)}
  <2>1. Taken(s) \in s /\ t # T /\ t \subseteq T
    BY <1>3 DEF Taken
  <2>2. AddsUp(w, t, G(t))
    BY <2>1, <1>2
  <2>3. CASE t = {}
    <3>1. f[t] = 0
      BY <2>1, <2>3
    <3>2. G(t)[t] = 0
      <4> HIDE DEF G, t
      <4> QED BY <2>2, <2>3 DEF AddsUp
    <3> QED BY <3>1, <3>2
  <2>4. CASE t # {}
    <3>1. Taken(t) \in t /\ u # T /\ u \subseteq T /\ u \subseteq t
      BY <2>1, <2>4 DEF Taken
    <3>2. AddsUp(w, u, G(u))
      BY <3>1, <1>2
    <3>3. G(t)[u] = G(u)[u]
      <4>1. IsFiniteSet(t)
        BY <2>1, <1>1, FS_Subset
      <4>2. u \in SUBSET (t \cap u)
        BY <3>1
      <4> HIDE DEF G, t, u
      <4> QED BY <2>2, <3>2, <4>1, <4>2, AddsUpOnce
    <3>4. G(t)[t] = w[Taken(t)] + G(t)[u]
      <4>1. u = t \ {Taken(t)}
        OBVIOUS
      <4> HIDE DEF G, t, u
      <4> QED BY <2>2, <2>4, <4>1 DEF AddsUp
    <3>5. f[t] = w[Taken(t)] + G(u)[u]
      <4> HIDE DEF G
      <4> QED BY <2>1, <2>4
    <3> QED BY <3>3, <3>4, <3>5
  <2> QED BY <2>3, <2>4
<1>4. AddsUp(w, T, f)
  <2>1. \A s \in SUBSET T : f[s] = IF s = {} THEN 0 ELSE w[Taken(s)] + f[s \ {Taken(s)}]
    <3> HIDE DEF G
    <3> QED BY <1>3
  <2>2. f = [s \in SUBSET T |-> f[s]]
    <3> HIDE DEF G
    <3> QED OBVIOUS
  <2> HIDE DEF f
  <2> QED BY <2>1, <2>2 DEF AddsUp
<1> QED BY <1>1, <1>4

\* A sum over a finite set is the element that is taken first and the sum of
\* the others.
LEMMA SumIsStepwise ==
  ASSUME NEW w, NEW S, IsFiniteSet(S)
  PROVE  /\ S = {} => SumFunctionOnSet(w, S) = 0
         /\ S # {} => SumFunctionOnSet(w, S) =
                        w[Taken(S)] + SumFunctionOnSet(w, S \ {Taken(S)})
<1> DEFINE G(s) == CHOOSE g : AddsUp(w, s, g)
<1>1. \A s : SumFunctionOnSet(w, s) = G(s)[s]
  BY DEF SumFunctionOnSet, FoldFunctionOnSet, MapThenFoldSet, AddsUp, Taken
<1>2. AddsUp(w, S, G(S))
  BY AddsUpExists
<1>3. CASE S = {}
  <2> HIDE DEF G
  <2> QED BY <1>1, <1>2, <1>3 DEF AddsUp
<1>4. CASE S # {}
  <2> DEFINE t == S \ {Taken(S)}
  <2>1. AddsUp(w, t, G(t))
    BY AddsUpExists, FS_Subset
  <2>2. G(S)[t] = G(t)[t]
    <3>1. t \in SUBSET (S \cap t)
      OBVIOUS
    <3> HIDE DEF G, t
    <3> QED BY <1>2, <2>1, <3>1, AddsUpOnce
  <2>3. G(S)[S] = w[Taken(S)] + G(S)[t]
    <3> HIDE DEF G
    <3> QED BY <1>2, <1>4 DEF AddsUp
  <2> HIDE DEF G
  <2> QED BY <1>1, <2>2, <2>3, <1>4
<1> QED BY <1>3, <1>4

LEMMA SumType ==
  ASSUME NEW S, IsFiniteSet(S), NEW w, \A x \in S : w[x] \in Int
  PROVE  SumFunctionOnSet(w, S) \in Int
<1> DEFINE V(s) == SumFunctionOnSet(w, s)
           B == {s \in SUBSET S : V(s) \notin Int}
<1> SUFFICES ASSUME B # {} PROVE FALSE
  OBVIOUS
<1>1. PICK T \in B : \A u \in B : u \subseteq T => u = T
  <2>1. B \in SUBSET SUBSET S
    OBVIOUS
  <2> HIDE DEF B
  <2> QED BY <2>1, SmallestSubset
<1>2. IsFiniteSet(T) /\ T \subseteq S /\ V(T) \notin Int
  BY <1>1, FS_Subset
<1>3. T # {}
  <2>1. T = {} => V(T) = 0
    BY <1>2, SumIsStepwise
  <2> QED BY <1>2, <2>1
<1>4. Taken(T) \in T
  BY <1>3 DEF Taken
<1>5. V(T \ {Taken(T)}) \in Int
  BY <1>1, <1>2, <1>4
<1>6. V(T) = w[Taken(T)] + V(T \ {Taken(T)})
  BY <1>2, <1>3, SumIsStepwise
<1> HIDE DEF V
<1> QED BY <1>2, <1>4, <1>5, <1>6

\* Any element may be the one that is taken.
LEMMA SumWithout ==
  ASSUME NEW S, IsFiniteSet(S), NEW w, \A y \in S : w[y] \in Int
  PROVE  \A x \in S : SumFunctionOnSet(w, S) = w[x] + SumFunctionOnSet(w, S \ {x})
<1> DEFINE V(s) == SumFunctionOnSet(w, s)
           B == {s \in SUBSET S : \E x \in s : V(s) # w[x] + V(s \ {x})}
<1> SUFFICES ASSUME B # {} PROVE FALSE
  OBVIOUS
<1>1. PICK T \in B : \A u \in B : u \subseteq T => u = T
  <2>1. B \in SUBSET SUBSET S
    OBVIOUS
  <2> HIDE DEF B
  <2> QED BY <2>1, SmallestSubset
<1>2. PICK x \in T : V(T) # w[x] + V(T \ {x})
  BY <1>1
<1>3. IsFiniteSet(T) /\ T \subseteq S
  BY <1>1, FS_Subset
<1>4. \A s \in SUBSET T : V(s) \in Int
  BY <1>3, FS_Subset, SumType
<1>5. PICK c \in T : V(T) = w[c] + V(T \ {c})
  BY <1>2, <1>3, SumIsStepwise DEF Taken
<1>6. c # x
  BY <1>2, <1>5
<1>7. \A y, z \in T : y # z => V(T \ {y}) = w[z] + V((T \ {y}) \ {z})
  <2> SUFFICES ASSUME NEW y \in T, NEW z \in T, y # z
               PROVE  V(T \ {y}) = w[z] + V((T \ {y}) \ {z})
    OBVIOUS
  <2>1. T \ {y} \in SUBSET S /\ T \ {y} \notin B
    <3> HIDE DEF B
    <3> QED BY <1>1, <1>3
  <2> QED BY <2>1
<1> DEFINE R == (T \ {x}) \ {c}
<1>8. V(T \ {c}) = w[x] + V(R) /\ V(T \ {x}) = w[c] + V(R)
  <2>1. (T \ {c}) \ {x} = R
    OBVIOUS
  <2>2. V(T \ {c}) = w[x] + V((T \ {c}) \ {x}) /\ V(T \ {x}) = w[c] + V(R)
    BY <1>6, <1>7
  <2> HIDE DEF R, V
  <2> QED BY <2>1, <2>2
<1>9. V(R) \in Int /\ w[x] \in Int /\ w[c] \in Int
  BY <1>3, <1>4
<1> HIDE DEF V, R
<1>10. V(T) = w[x] + V(T \ {x})
  BY <1>5, <1>8, <1>9
<1> QED BY <1>2, <1>10

\* What a sum adds up is all it depends on.
LEMMA SumSame ==
  ASSUME NEW S, IsFiniteSet(S), NEW v, NEW w, \A x \in S : v[x] = w[x]
  PROVE  SumFunctionOnSet(v, S) = SumFunctionOnSet(w, S)
<1> DEFINE V(s) == SumFunctionOnSet(v, s)
           W(s) == SumFunctionOnSet(w, s)
           B == {s \in SUBSET S : V(s) # W(s)}
<1> SUFFICES ASSUME B # {} PROVE FALSE
  OBVIOUS
<1>1. PICK T \in B : \A u \in B : u \subseteq T => u = T
  <2>1. B \in SUBSET SUBSET S
    OBVIOUS
  <2> HIDE DEF B
  <2> QED BY <2>1, SmallestSubset
<1>2. IsFiniteSet(T) /\ T \subseteq S /\ V(T) # W(T)
  BY <1>1, FS_Subset
<1>3. T # {} /\ Taken(T) \in T
  BY <1>2, SumIsStepwise DEF Taken
<1>4. V(T \ {Taken(T)}) = W(T \ {Taken(T)})
  BY <1>1, <1>2, <1>3
<1>5. V(T) = v[Taken(T)] + V(T \ {Taken(T)}) /\ W(T) = w[Taken(T)] + W(T \ {Taken(T)})
  BY <1>2, <1>3, SumIsStepwise
<1> HIDE DEF V, W
<1> QED BY <1>2, <1>3, <1>4, <1>5

\* A part of a sum is no more than the sum, where nothing is negative.
LEMMA SumOfPart ==
  ASSUME NEW S, IsFiniteSet(S), NEW w, \A x \in S : w[x] \in Nat, NEW P \in SUBSET S
  PROVE  SumFunctionOnSet(w, P) <= SumFunctionOnSet(w, S)
<1> DEFINE V(s) == SumFunctionOnSet(w, s)
           B == {s \in SUBSET S : P \subseteq s /\ ~(V(P) <= V(s))}
<1> SUFFICES ASSUME B # {} PROVE FALSE
  OBVIOUS
<1>1. PICK T \in B : \A u \in B : u \subseteq T => u = T
  <2>1. B \in SUBSET SUBSET S
    OBVIOUS
  <2> HIDE DEF B
  <2> QED BY <2>1, SmallestSubset
<1>2. IsFiniteSet(T) /\ T \subseteq S /\ P \subseteq T /\ ~(V(P) <= V(T))
  BY <1>1, FS_Subset
<1>3. \A s \in SUBSET T : V(s) \in Int
  BY <1>2, FS_Subset, SumType
<1>4. PICK x \in T : x \notin P
  <2>1. T # P
    BY <1>2, <1>3
  <2> QED BY <1>2, <2>1
<1>5. V(T) = w[x] + V(T \ {x})
  BY <1>2, SumWithout
<1>6. V(P) <= V(T \ {x})
  BY <1>1, <1>2, <1>4
<1>7. w[x] \in Nat /\ V(T \ {x}) \in Int /\ V(P) \in Int
  BY <1>2, <1>3
<1> HIDE DEF V
<1> QED BY <1>2, <1>5, <1>6, <1>7
------------------------------------------------------------------------------
(* Positions and exposure.                                                  *)

MarketOnly == \A i \in DOMAIN book : book[i].order \notin LimitOrders

\* While no query and no answer was lost, the call in progress has sent nothing
\* that is on the account, and what its check saw is all that was ever open.
ExposureInv ==
    /\ \A i \in DOMAIN book : /\ UnitsOf[book[i].order] > 0
                              /\ book[i].state = "pending" => book[i].order \in LimitOrders
    /\ call # Idle => UnitsOf[call.order] > 0
    /\ ~unheard.blind /\ MarketOnly =>
          /\ Cardinality(OpenTrades) <= MaxPositions
          /\ Exposure(OpenTrades) <= MaxExposure
          /\ call # Idle => /\ Cardinality(OpenTrades) < MaxPositions
                            /\ Exposure(OpenTrades) + UnitsOf[call.order] <= MaxExposure

Units(b) == [i \in DOMAIN b |-> UnitsOf[b[i].order]]

\* The exposure of some orders of a book is a sum of the units of the book.
LEMMA ExposureFacts ==
    ASSUME NEW b \in Seq(Entry), NEW ids \in SUBSET DOMAIN b
    PROVE  /\ IsFiniteSet(ids) /\ Cardinality(ids) \in Nat
           /\ SumFunction([i \in ids |-> UnitsOf[b[i].order]]) = SumFunctionOnSet(Units(b), ids)
           /\ Units(b) \in [DOMAIN b -> Int]
           /\ SumFunctionOnSet(Units(b), ids) \in Int
<1>1. Len(b) \in Nat /\ DOMAIN b = 1 .. Len(b)
  BY LenProperties
<1>2. IsFiniteSet(ids) /\ Cardinality(ids) \in Nat
  <2>1. IsFiniteSet(DOMAIN b)
    BY <1>1, FS_Interval
  <2> QED  BY <2>1, FS_Subset, FS_CardinalityType
<1>3. \A i \in DOMAIN b : UnitsOf[b[i].order] \in Int
  <2>1. \A i \in DOMAIN b : b[i] \in Entry
    BY <1>1, ElementOfSeq
  <2> QED  BY <2>1, GatewayAssumption DEF Entry
<1>4. Units(b) \in [DOMAIN b -> Int]
  BY <1>3 DEF Units
<1> DEFINE e == [i \in ids |-> UnitsOf[b[i].order]]
<1>5. \A i \in ids : e[i] = Units(b)[i]
  BY DEF Units
<1>6. SumFunctionOnSet(e, ids) = SumFunctionOnSet(Units(b), ids)
  <2> HIDE DEF e
  <2> QED  BY <1>2, <1>5, SumSame
<1>7. SumFunction(e) = SumFunctionOnSet(e, ids)
  BY DEF SumFunction
<1>8. SumFunctionOnSet(Units(b), ids) \in Int
  BY <1>2, <1>4, SumType
<1> QED  BY <1>2, <1>4, <1>6, <1>7, <1>8

\* Where orders move without limit orders, trades only close: there are no more
\* of them, and of no more units.
LEMMA ClosingFacts ==
    ASSUME BrokerType, BrokerType', Moves, ExposureInv, MarketOnly
    PROVE  /\ Cardinality(OpenTrades') <= Cardinality(OpenTrades)
           /\ Exposure(OpenTrades)' <= Exposure(OpenTrades)
<1> DEFINE S == OpenTrades
           T == OpenTrades'
           w == Units(book)
<1>1. T \subseteq S /\ S \subseteq DOMAIN book /\ DOMAIN book' = DOMAIN book
  BY DEF Moves, MayBecome, OpenTrades, InState, ExposureInv, MarketOnly
<1>2. \A i \in DOMAIN book : book'[i].order = book[i].order
  BY DEF Moves
<1>3. Units(book') = w
  BY <1>1, <1>2 DEF Units
<1>0. book \in Seq(Entry) /\ book' \in Seq(Entry)
  BY DEF BrokerType, Entry
<1>4. /\ IsFiniteSet(S) /\ Exposure(S) = SumFunctionOnSet(w, S) /\ w \in [DOMAIN book -> Int]
  BY <1>0, <1>1, ExposureFacts DEF Exposure
<1>5. Exposure(OpenTrades)' = SumFunctionOnSet(Units(book'), T)
  BY <1>0, <1>1, ExposureFacts DEF Exposure
<1>6. \A i \in S : w[i] \in Nat
  BY <1>1, <1>4 DEF ExposureInv, Units
<1>7. SumFunctionOnSet(w, T) <= SumFunctionOnSet(w, S)
  <2> HIDE DEF w, S, T
  <2> QED  BY <1>1, <1>4, <1>6, SumOfPart
<1> QED  BY <1>1, <1>3, <1>4, <1>5, <1>7, FS_Subset
\* An attempt that reached the account added at most the units the check allowed.
LEMMA GrowthFacts ==
    ASSUME BrokerType, BrokerType', Grows, ExposureInv
    PROVE  /\ Cardinality(OpenTrades') <= Cardinality(OpenTrades) + 1
           /\ Exposure(OpenTrades)' <= Exposure(OpenTrades) + UnitsOf[call.order]
<1> DEFINE S == OpenTrades
           T == OpenTrades'
           v == Units(book)
           w == Units(book')
           u == UnitsOf[call.order]
<1>1. book \in Seq(Entry) /\ book' \in Seq(Entry)
  BY DEF BrokerType, Entry
<1>2. /\ S \subseteq DOMAIN book /\ T \subseteq DOMAIN book'
      /\ T = S \/ T = S \cup {NextId}
      /\ NextId \notin S
  BY DEF Grows, OpenTrades, InState
<1>3. /\ \A i \in S : v[i] = w[i]
      /\ NextId \in DOMAIN book' /\ w[NextId] = u
  BY <1>2 DEF Grows, Units
<1>4. /\ IsFiniteSet(S) /\ Cardinality(S) \in Nat
      /\ Exposure(S) = SumFunctionOnSet(v, S) /\ SumFunctionOnSet(v, S) \in Int
  BY <1>1, <1>2, ExposureFacts DEF Exposure
<1>5. /\ IsFiniteSet(T) /\ w \in [DOMAIN book' -> Int]
      /\ Exposure(OpenTrades)' = SumFunctionOnSet(w, T)
  BY <1>1, <1>2, ExposureFacts DEF Exposure
<1>6. u \in Int /\ u > 0
  <2>1. u > 0
    BY DEF ExposureInv, Grows
  <2> QED  BY <1>3, <1>5, <2>1
<1>7. SumFunctionOnSet(v, S) = SumFunctionOnSet(w, S)
  BY <1>3, <1>4, SumSame
<1>8. CASE T = S
  BY <1>4, <1>5, <1>6, <1>7, <1>8
<1>9. CASE T = S \cup {NextId}
  <2>1. Cardinality(T) = Cardinality(S) + 1
    BY <1>2, <1>4, <1>9, FS_AddElement
  <2>2. T \ {NextId} = S /\ NextId \in T
    BY <1>2, <1>9
  <2>3. \A i \in T : w[i] \in Int
    BY <1>2, <1>5
  <2>4. SumFunctionOnSet(w, T) = w[NextId] + SumFunctionOnSet(w, T \ {NextId})
    BY <1>5, <2>2, <2>3, SumWithout
  <2> QED  BY <1>3, <1>4, <1>5, <1>6, <1>7, <2>1, <2>2, <2>4
<1> QED  BY <1>2, <1>8, <1>9

LEMMA ExposureStep == TypeOK /\ ExposureInv /\ [Next]_vars => ExposureInv'
<1> SUFFICES ASSUME TypeOK, ExposureInv, [Next]_vars PROVE ExposureInv'
  OBVIOUS
<1>0. BrokerType /\ BrokerType' /\ TypeOK'
  BY NextType DEF TypeOK
<1>1. /\ MaxPositions \in Nat /\ MaxExposure \in Nat
      /\ Cardinality(OpenTrades) \in Nat /\ Exposure(OpenTrades) \in Int
      /\ Cardinality(OpenTrades') \in Nat /\ Exposure(OpenTrades)' \in Int
  <2>1. book \in Seq(Entry) /\ book' \in Seq(Entry)
    BY <1>0 DEF BrokerType, Entry
  <2>2. OpenTrades \in SUBSET DOMAIN book /\ OpenTrades' \in SUBSET DOMAIN book'
    BY DEF OpenTrades, InState
  <2> QED  BY <2>1, <2>2, ExposureFacts, GatewayAssumption DEF Exposure
<1>2. CASE Grows /\ (Answered \/ Failed)
  <2>1. \A i \in DOMAIN book' : /\ UnitsOf[book'[i].order] > 0
                                /\ book'[i].state = "pending" => book'[i].order \in LimitOrders
    BY <1>2 DEF Grows, ExposureInv, FirstState
  <2>2. call' # Idle => UnitsOf[call'.order] > 0
    BY <1>0, <1>2 DEF Answered, Failed, ExposureInv, TypeOK, Idle
  <2>3. MarketOnly' => MarketOnly
    BY <1>2 DEF Grows, MarketOnly
  <2>4. CASE Answered
    <3>1. call' = Idle /\ unheard' = unheard
      BY <2>4 DEF Answered
    <3>2. UnitsOf[call.order] \in Int
      BY <2>4, <1>0, GatewayAssumption DEF Answered, TypeOK
    <3>3. ~unheard.blind /\ MarketOnly => /\ Cardinality(OpenTrades') <= MaxPositions
                                          /\ Exposure(OpenTrades)' <= MaxExposure
      BY <1>0, <1>1, <1>2, <3>2, GrowthFacts DEF ExposureInv, Grows
    <3> QED  BY <2>1, <2>2, <2>3, <3>1, <3>3 DEF ExposureInv
  <2>5. CASE Failed
    <3>1. book' # book
      BY <1>2 DEF Grows
    <3>2. unheard'.blind
      BY <2>5, <3>1 DEF Failed, TypeOK
    <3> QED  BY <2>1, <2>2, <3>2 DEF ExposureInv
  <2> QED  BY <1>2, <2>4, <2>5
<1>3. CASE Failed /\ UNCHANGED broker
  <2>1. book' = book /\ (unheard'.blind => unheard.blind) /\ (unheard.blind => unheard'.blind)
    BY <1>3 DEF Failed, broker, TypeOK
  <2>2. call # Idle /\ (call' = Idle \/ call'.order = call.order)
    BY <1>3 DEF Failed, TypeOK, Idle
  <2>3. /\ OpenTrades' = OpenTrades /\ Exposure(OpenTrades)' = Exposure(OpenTrades)
        /\ MarketOnly' = MarketOnly
    BY <2>1 DEF OpenTrades, InState, Exposure, MarketOnly
  <2> QED  BY <2>1, <2>2, <2>3 DEF ExposureInv
<1>4. ASSUME NEW o \in Orders, SubmitOrder(o) PROVE ExposureInv'
  <2>1. PICK seen \in {OpenTrades, {}} :
          /\ unheard'.blind = (unheard.blind \/ seen # OpenTrades)
          /\ \/ PreTradeCheck(o, seen) /\ call'.order = o
             \/ call' = call
    <3>1. PICK seen \in {OpenTrades, {}} :
            /\ unheard' = [unheard EXCEPT !.blind = @ \/ seen # OpenTrades]
            /\ \/ /\ PreTradeCheck(o, seen)
                  /\ call' = [order |-> o, req |-> requests + 1, attempt |-> 0]
               \/ call' = call
      BY <1>4, Zenon DEF SubmitOrder
    <3>2. unheard'.blind = (unheard.blind \/ seen # OpenTrades)
      BY <3>1 DEF TypeOK
    <3>3. (PreTradeCheck(o, seen) /\ call'.order = o) \/ call' = call
      BY <3>1
    <3> QED  BY <3>2, <3>3
  <2>2. call = Idle /\ book' = book
    BY <1>4 DEF SubmitOrder
  <2>3. /\ OpenTrades' = OpenTrades /\ Exposure(OpenTrades)' = Exposure(OpenTrades)
        /\ MarketOnly' = MarketOnly
    BY <2>2 DEF OpenTrades, InState, Exposure, MarketOnly
  <2>4. CASE PreTradeCheck(o, seen) /\ call'.order = o
    <3>1. UnitsOf[o] > 0
      BY <2>4 DEF PreTradeCheck
    <3>2. ~unheard'.blind => /\ Cardinality(OpenTrades) < MaxPositions
                             /\ Exposure(OpenTrades) + UnitsOf[o] <= MaxExposure
      BY <2>1, <2>4 DEF PreTradeCheck
    <3> QED  BY <2>1, <2>2, <2>3, <2>4, <3>1, <3>2 DEF ExposureInv
  <2>5. CASE call' = call
    BY <2>1, <2>2, <2>3, <2>5 DEF ExposureInv
  <2> QED  BY <2>1, <2>4, <2>5
<1>5. CASE Moves /\ UNCHANGED call /\ unheard'.blind = unheard.blind
  <2>1. \A i \in DOMAIN book' : /\ UnitsOf[book'[i].order] > 0
                                /\ book'[i].state = "pending" => book'[i].order \in LimitOrders
    BY <1>5 DEF Moves, MayBecome, ExposureInv
  <2>2. MarketOnly' => MarketOnly
    BY <1>5 DEF Moves, MarketOnly
  <2>3. MarketOnly => /\ Cardinality(OpenTrades') <= Cardinality(OpenTrades)
                      /\ Exposure(OpenTrades)' <= Exposure(OpenTrades)
    BY <1>0, <1>5, ClosingFacts
  <2>4. call # Idle => UnitsOf[call.order] \in Int
    BY <1>0, GatewayAssumption DEF TypeOK
  <2>5. ~unheard.blind /\ MarketOnly =>
          /\ Cardinality(OpenTrades') <= MaxPositions
          /\ Exposure(OpenTrades)' <= MaxExposure
          /\ call # Idle => /\ Cardinality(OpenTrades') < MaxPositions
                            /\ Exposure(OpenTrades)' + UnitsOf[call.order] <= MaxExposure
    BY <1>1, <2>3, <2>4 DEF ExposureInv
  <2>6. call # Idle => UnitsOf[call.order] > 0
    BY DEF ExposureInv
  <2> QED  BY <1>5, <2>1, <2>2, <2>5, <2>6 DEF ExposureInv
<1>6. CASE Answered \/ Failed
  BY <1>2, <1>3, <1>6, AttemptStep
<1>7. CASE ~(Answered \/ Failed) /\ ~(\E o \in Orders : SubmitOrder(o))
  <2>1. UNCHANGED call /\ unheard'.blind = unheard.blind
    BY <1>7 DEF Next, Client, Arm, Disarm, Kill, CancelOrder, ProcessBar, GetPositions,
                Account, gateway, vars, TypeOK
  <2> QED  BY <1>5, <1>7, <2>1, MoveStep
<1> QED  BY <1>4, <1>6, <1>7

\* Without limit orders, and until a query or an answer is lost, the account is
\* within the limits of the configuration, whatever the orders, their units and
\* the attempts that fail.
THEOREM LimitsAreKept == Spec => []WithinLimits
<1>1. Init => ExposureInv
  <2> SUFFICES ASSUME Init PROVE ExposureInv
    OBVIOUS
  <2>1. book \in Seq(Entry) /\ OpenTrades = {} /\ OpenTrades \in SUBSET DOMAIN book
    BY DEF Init, BrokerInit, OpenTrades, InState
  <2>2. Cardinality({}) = 0 /\ IsFiniteSet({})
    BY FS_EmptySet
  <2>3. Exposure(OpenTrades) = 0
    BY <2>1, <2>2, ExposureFacts, SumIsStepwise DEF Exposure
  <2> QED  BY <2>1, <2>2, <2>3, GatewayAssumption DEF Init, BrokerInit, ExposureInv
<1>2. ExposureInv => WithinLimits
  BY DEF ExposureInv, WithinLimits, MarketOnly
<1> QED  BY <1>1, <1>2, InitType, NextType, ExposureStep, PTL DEF Spec

------------------------------------------------------------------------------
(* The part of CallReturns that needs no fairness.                          *)

\* The attempts a call has left, 0 when none is in progress.
TriesLeft == IF call = Idle THEN 0 ELSE MaxRetries - call.attempt

LEMMA TriesType == TypeOK => TriesLeft \in Nat /\ (call # Idle => TriesLeft > 0)
  BY GatewayAssumption DEF TypeOK, TriesLeft

LEMMA TriesStep ==
    ASSUME TypeOK, [Next]_vars, call # Idle
    PROVE  /\ TriesLeft' <= TriesLeft
           /\ Answered \/ Failed => TriesLeft' < TriesLeft
<1>1. /\ call \in [order: Orders, req: 1 .. MaxRequests, attempt: 0 .. MaxRetries - 1]
      /\ TriesLeft = MaxRetries - call.attempt /\ TriesLeft > 0
  BY TriesType DEF TypeOK, TriesLeft
<1>2. CASE Answered
  <2>1. TriesLeft' = 0
    BY <1>2 DEF Answered, TriesLeft
  <2> QED  BY <1>1, <2>1, GatewayAssumption
<1>3. CASE Failed
  <2>1. CASE call' = Idle
    <3>1. TriesLeft' = 0
      BY <2>1 DEF TriesLeft
    <3> QED  BY <1>1, <3>1, GatewayAssumption
  <2>2. CASE call' # Idle
    <3>1. call' = [call EXCEPT !.attempt = @ + 1]
      BY <1>3, <2>2 DEF Failed
    <3>2. call'.attempt = call.attempt + 1
      BY <1>1, <3>1
    <3>3. TriesLeft' = MaxRetries - call'.attempt
      BY <2>2 DEF TriesLeft
    <3> QED  BY <1>1, <3>2, <3>3, GatewayAssumption
  <2> QED  BY <2>1, <2>2
<1>4. CASE ~(Answered \/ Failed)
  <2>1. call' = call
    BY <1>4 DEF Next, Client, Account, Arm, Disarm, Kill, ProcessBar, GetPositions,
                SubmitOrder, CancelOrder, gateway, vars
  <2> QED  BY <1>1, <1>4, <2>1, GatewayAssumption DEF TriesLeft
<1> QED  BY <1>2, <1>3, <1>4

\* Every attempt of a call, answered or failed, brings it nearer to its return,
\* and nothing the account does meanwhile gives it another one: a call has
\* returned after MaxRetries attempts.
THEOREM CallsUseUpTheirTries ==
    Spec => /\ [](TriesLeft \in Nat /\ (call # Idle => TriesLeft > 0))
            /\ [][call # Idle => /\ TriesLeft' <= TriesLeft
                                 /\ Answered \/ Failed => TriesLeft' < TriesLeft]_vars
<1> DEFINE P == call # Idle => /\ TriesLeft' <= TriesLeft
                               /\ Answered \/ Failed => TriesLeft' < TriesLeft
           T == TriesLeft \in Nat /\ (call # Idle => TriesLeft > 0)
<1>1. TypeOK /\ [Next]_vars => P
  BY TriesStep
<1>2. TypeOK => T
  BY TriesType
<1> HIDE DEF P, T
<1>3. Spec => [][P]_vars
  BY <1>1, TypeCorrect, PTL DEF Spec
<1>4. Spec => []T
  BY <1>2, TypeCorrect, PTL
<1> QED  BY <1>3, <1>4 DEF P, T
==============================================================================
