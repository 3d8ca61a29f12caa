----------------------------- MODULE EngineProofs -----------------------------
(***************************************************************************)
(* IntradayEngine for any runtimes, levels, sessions, data and windows:    *)
(* types, the lifecycle of orders and positions, the funnels, and what the *)
(* amended policy promises about carrying nothing past a session.          *)
(***************************************************************************)
EXTENDS IntradayEngine, FiniteSetTheorems, TLAPS

Finite == IsFiniteSet(orders) /\ IsFiniteSet(touched) /\ IsFiniteSet(positions)

TypeInv == TypeOK /\ Finite

------------------------------------------------------------------------------
(* Instances and counts.                                                    *)

\* Every bar of every family makes an instance of an instance.
LEMMA AdvancesType ==
    ASSUME NEW f \in Families, NEW i \in Instance, NEW l, NEW b, NEW past \in BOOLEAN,
           NEW n \in Nat, NEW j \in Advances(f, i, l, b, past, n)
    PROVE  j \in Instance
<1>1. Idle \in Instance
  BY DEF Idle, Instance, Stages
<1>2. \A s \in Stages : \A k \in Nat : Enter(i, s, k) \in Instance
  BY DEF Enter, Instance
<1>3. \A s \in Stages : Broken(i, s, n) \in Instance
  BY DEF Broken, Enter, Instance
<1>4. \A g \in OrderMoves(i, n) : g \in Instance
  <2>1. \A g \in i.after + 1 .. n - 1 : g \in Nat
    BY DEF Instance
  <2> QED  BY <1>2, <2>1 DEF OrderMoves, Stages
<1>5. [Enter(i, "mss_confirmed", n) EXCEPT !.after = n] \in Instance
  BY DEF Enter, Instance, Stages
<1>6. \A g \in SweepMoves(i, n) : g \in Instance
  BY <1>1, <1>2, <1>3, <1>4, <1>5 DEF SweepMoves, Stages
<1>7. \A g \in AcceptanceMoves(i, n) : g \in Instance
  BY <1>1, <1>2, <1>3, <1>4 DEF AcceptanceMoves, Stages
<1>8. \A g \in OpeningMoves(i, l, b, n) : g \in Instance
  BY <1>1, <1>3, <1>4 DEF OpeningMoves, Stages
<1> QED  BY <1>1, <1>6, <1>7, <1>8 DEF Advances, Families

\* The orders of a runtime in a finite set are counted by a number, and the
\* counts of disjoint sets add up.
LEMMA CountType ==
    ASSUME NEW S, IsFiniteSet(S), NEW r PROVE CountOf(S, r) \in Nat
<1>1. IsFiniteSet({o \in S : o.rt = r})
  BY FS_Subset
<1> QED  BY <1>1, FS_CardinalityType DEF CountOf

LEMMA CountUnion ==
    ASSUME NEW S, NEW T, IsFiniteSet(S), IsFiniteSet(T), S \cap T = {}, NEW r
    PROVE  CountOf(S \cup T, r) = CountOf(S, r) + CountOf(T, r)
<1> DEFINE s == {o \in S : o.rt = r}
           t == {o \in T : o.rt = r}
<1>1. IsFiniteSet(s) /\ IsFiniteSet(t)
  BY FS_Subset
<1>2. s \cap t = {} /\ {o \in S \cup T : o.rt = r} = s \cup t
  OBVIOUS
<1>3. Cardinality(s \cup t) = Cardinality(s) + Cardinality(t) - Cardinality({})
  BY <1>1, <1>2, FS_Union
<1>4. Cardinality(s) \in Nat /\ Cardinality(t) \in Nat
  BY <1>1, FS_CardinalityType
<1>5. /\ CountOf(S, r) = Cardinality(s) /\ CountOf(T, r) = Cardinality(t)
      /\ CountOf(S \cup T, r) = Cardinality(s \cup t)
  BY <1>2 DEF CountOf
<1>6. Cardinality({}) = 0
  BY FS_EmptySet
<1> HIDE DEF s, t
<1> QED  BY <1>3, <1>4, <1>5, <1>6

LEMMA HeldType ==
    ASSUME NEW S, IsFiniteSet(S), NEW r PROVE HeldBy(S, r) \in Nat
<1>1. IsFiniteSet({p \in S : p.order.rt = r})
  BY FS_Subset
<1> QED  BY <1>1, FS_CardinalityType DEF HeldBy

LEMMA HeldUnion ==
    ASSUME NEW S, NEW T, IsFiniteSet(S), IsFiniteSet(T), S \cap T = {}, NEW r
    PROVE  HeldBy(S \cup T, r) = HeldBy(S, r) + HeldBy(T, r)
<1> DEFINE s == {p \in S : p.order.rt = r}
           t == {p \in T : p.order.rt = r}
<1>1. IsFiniteSet(s) /\ IsFiniteSet(t)
  BY FS_Subset
<1>2. s \cap t = {} /\ {p \in S \cup T : p.order.rt = r} = s \cup t
  OBVIOUS
<1>3. Cardinality(s \cup t) = Cardinality(s) + Cardinality(t) - Cardinality({})
  BY <1>1, <1>2, FS_Union
<1>4. Cardinality(s) \in Nat /\ Cardinality(t) \in Nat
  BY <1>1, FS_CardinalityType
<1>5. /\ HeldBy(S, r) = Cardinality(s) /\ HeldBy(T, r) = Cardinality(t)
      /\ HeldBy(S \cup T, r) = Cardinality(s \cup t)
  BY <1>2 DEF HeldBy
<1>6. Cardinality({}) = 0
  BY FS_EmptySet
<1> HIDE DEF s, t
<1> QED  BY <1>3, <1>4, <1>5, <1>6

\* A charge of swap changes no position's owner, and opens or closes none.
LEMMA ChargeKeeps ==
    ASSUME IsFiniteSet(positions), positions \subseteq Position
    PROVE  LET charged == {[p EXCEPT !.swaps = @ + 1] : p \in positions}
           IN  /\ IsFiniteSet(charged) /\ charged \subseteq Position
               /\ \A r : HeldBy(charged, r) = HeldBy(positions, r)
<1> DEFINE up(p) == [p EXCEPT !.swaps = @ + 1]
           charged == {up(p) : p \in positions}
           f == [p \in positions |-> up(p)]
<1>1. \A p \in positions : /\ up(p) \in Position
                           /\ up(p).order = p.order /\ up(p).opened = p.opened
                           /\ up(p).swaps = p.swaps + 1
  BY DEF Position
<1>2. \A p, q \in positions : up(p) = up(q) => p = q
  BY <1>1 DEF Position
<1>3. f \in Surjection(positions, charged)
  BY DEF Surjection
<1>4. IsFiniteSet(charged)
  BY <1>3, FS_Surjection
<1>5. ASSUME NEW r PROVE HeldBy(charged, r) = HeldBy(positions, r)
  <2> DEFINE a == {p \in positions : p.order.rt = r}
             b == {p \in charged : p.order.rt = r}
             g == [p \in a |-> up(p)]
  <2>1. g \in Bijection(a, b)
    <3>1. \A p \in a : g[p] \in b
      BY <1>1
    <3>2. \A q \in b : \E p \in a : g[p] = q
      BY <1>1
    <3>3. \A p, q \in a : g[p] = g[q] => p = q
      BY <1>2
    <3> HIDE DEF a, b
    <3>4. g \in [a -> b]
      BY <3>1
    <3> HIDE DEF g
    <3> QED  BY <3>2, <3>3, <3>4 DEF Bijection, Injection, IsInjective, Surjection
  <2>2. IsFiniteSet(a)
    BY FS_Subset
  <2>3. ExistsBijection(a, b)
    BY <2>1 DEF ExistsBijection
  <2> HIDE DEF a, b
  <2>4. Cardinality(a) = Cardinality(b)
    BY <2>2, <2>3, FS_Bijection
  <2> QED  BY <2>4 DEF a, b, HeldBy
<1> QED  BY <1>1, <1>4, <1>5

------------------------------------------------------------------------------
(* Types.                                                                   *)

LEMMA DivType ==
    ASSUME NEW a \in Nat, NEW d \in Nat \ {0} PROVE a \div d \in Nat
OBVIOUS

LEMMA FunnelCount ==
    ASSUME NEW f \in [Runtimes -> Funnel], NEW S, IsFiniteSet(S),
           NEW field \in {"accepted", "cancelled", "expired", "filled"}
    PROVE  Count(f, field, S) \in [Runtimes -> Funnel]
<1>1. \A r : CountOf(S, r) \in Nat
  BY CountType
<1> QED  BY <1>1 DEF Count, Funnel

LEMMA FunnelClosed ==
    ASSUME NEW f \in [Runtimes -> Funnel], NEW P, IsFiniteSet(P), NEW why \in Exits
    PROVE  Closed(f, P, why) \in [Runtimes -> Funnel]
<1>1. \A r : HeldBy(P, r) \in Nat
  BY HeldType
<1>2. \A r \in Runtimes : [f[r] EXCEPT !.closed = @ + HeldBy(P, r),
                                   !.exits[why] = @ + HeldBy(P, r)] \in Funnel
  <2> TAKE r \in Runtimes
  <2> DEFINE n == HeldBy(P, r)
  <2>1. n \in Nat /\ f[r] \in Funnel
    BY <1>1
  <2> HIDE DEF n
  <2>2. /\ [f[r].exits EXCEPT ![why] = f[r].exits[why] + n] \in [Exits -> Nat]
        /\ f[r].closed + n \in Nat
    BY <2>1 DEF Funnel
  <2>3. [f[r] EXCEPT !.closed = @ + n, !.exits[why] = @ + n] =
           [f[r] EXCEPT !.closed = f[r].closed + n,
                        !.exits = [f[r].exits EXCEPT ![why] = f[r].exits[why] + n]]
    BY <2>1 DEF Funnel
  <2>4. [f[r] EXCEPT !.closed = @ + n, !.exits[why] = @ + n] \in Funnel
    BY <2>1, <2>2, <2>3 DEF Funnel
  <2> QED  BY <2>4 DEF n
<1> QED  BY <1>2 DEF Closed

LEMMA EngineTypeInit == Init => TypeInv
<1> SUFFICES ASSUME Init PROVE TypeInv
  OBVIOUS
<1> USE DEF Init
<1>1. IsFiniteSet({})
  BY FS_EmptySet
<1>2. NoEvents \in Funnel
  BY DEF NoEvents, Funnel
<1>3. Idle \in Instance
  BY DEF Idle, Instance, Stages
<1>4. now \in Nat /\ upcoming \in Nat \cup {NoBar} /\ (upcoming = NoBar \/ now < upcoming)
  BY EngineAssumption DEF Later
<1>5. family \in Seq(Families)
  BY EngineAssumption
<1>6. turn \in 1 .. Len(family) + 1
  BY <1>5
<1> QED  BY <1>1, <1>2, <1>3, <1>4, <1>6 DEF TypeInv, TypeOK, Finite

\* Every action keeps the types and the finiteness.
LEMMA EngineTypeStep == TypeInv /\ [Next]_vars => TypeInv'
<1> SUFFICES ASSUME TypeInv, [Next]_vars PROVE TypeInv'
  OBVIOUS
<1> USE DEF TypeInv
<1>0. /\ family \in Seq(Families) /\ Len(family) \in Nat /\ Runtimes = 1 .. Len(family)
      /\ \A r \in Runtimes : family[r] \in Families
  BY EngineAssumption DEF TypeOK, Runtimes
<1>1. CASE ProcessExits
  <2>1. PICK hit \in SUBSET positions : /\ positions' = positions \ hit
                                       /\ funnel' = Closed(funnel, hit, "stop")
    BY <1>1 DEF ProcessExits
  <2>2. IsFiniteSet(hit) /\ IsFiniteSet(positions')
    BY <2>1, FS_Subset DEF Finite
  <2>3. funnel' \in [Runtimes -> Funnel]
    BY <2>1, <2>2, FunnelClosed DEF TypeOK, Exits
  <2> QED  BY <1>1, <2>1, <2>2, <2>3
           DEF ProcessExits, TypeOK, Finite, setup, market, machine, Runtimes, LevelsOf, Order, Position, Funnel
<1>2. CASE TouchOrders
  <2>1. PICK t \in SUBSET (orders \ Expired) :
           touched' = t /\ orders' = (orders \ Expired) \ t
    BY <1>2 DEF TouchOrders
  <2>2. IsFiniteSet(Expired) /\ IsFiniteSet(touched') /\ IsFiniteSet(orders')
    BY <2>1, FS_Subset DEF Finite, Expired
  <2>3. funnel' \in [Runtimes -> Funnel]
    BY <1>2, <2>2, FunnelCount DEF TouchOrders, TypeOK
  <2> QED  BY <1>2, <2>1, <2>2, <2>3
           DEF TouchOrders, TypeOK, Finite, setup, market, machine, Runtimes, LevelsOf, Order, Position, Funnel
<1>3. CASE RejectOverlap
  <2>1. PICK o \in NextFill : touched' = touched \ {o} /\ funnel' = Count(funnel, "cancelled", {o})
    BY <1>3 DEF RejectOverlap
  <2>2. IsFiniteSet({o}) /\ IsFiniteSet(touched')
    BY <2>1, FS_RemoveElement, FS_Singleton DEF Finite
  <2>3. funnel' \in [Runtimes -> Funnel] /\ touched' \subseteq Order
    BY <2>1, <2>2, FunnelCount DEF TypeOK
  <2>4. UNCHANGED <<policy, family, bar, now, prev, upcoming, phase, turn, orders, positions,
                    inst, range, day, swept>>
    BY <1>3 DEF RejectOverlap, setup, market, machine
  <2> QED  BY <2>2, <2>3, <2>4
           DEF TypeOK, Finite, Runtimes, LevelsOf, Order, Position, Funnel
<1>4. CASE FillOrder
  <2>1. PICK o \in NextFill, stopped \in BOOLEAN :
           LET p == [order |-> o, opened |-> now, swaps |-> 0]
               f == Count(funnel, "filled", {o})
           IN  /\ touched' = touched \ {o}
               /\ positions' = IF stopped THEN positions ELSE positions \cup {p}
               /\ funnel' = IF stopped THEN Closed(f, {p}, "stop") ELSE f
    BY <1>4 DEF FillOrder
  <2> DEFINE p == [order |-> o, opened |-> now, swaps |-> 0]
             f == Count(funnel, "filled", {o})
  <2>2. /\ IsFiniteSet({o}) /\ IsFiniteSet({p}) /\ IsFiniteSet(touched')
        /\ IsFiniteSet(positions \cup {p})
    <3> HIDE DEF p
    <3> QED  BY <2>1, FS_RemoveElement, FS_AddElement, FS_Singleton DEF Finite
  <2>3. f \in [Runtimes -> Funnel]
    BY <2>2, FunnelCount DEF TypeOK
  <2>4. Closed(f, {p}, "stop") \in [Runtimes -> Funnel]
    BY <2>2, <2>3, FunnelClosed DEF Exits
  <2>5. funnel' \in [Runtimes -> Funnel]
    BY <2>1, <2>3, <2>4
  <2>6. p \in Position
    BY DEF TypeOK, NextFill, Position
  <2>7. positions' \subseteq Position /\ IsFiniteSet(positions')
    BY <2>1, <2>2, <2>6 DEF TypeOK, Finite
  <2>8. touched' \subseteq Order
    BY <2>1 DEF TypeOK
  <2>9. UNCHANGED <<policy, family, bar, now, prev, upcoming, phase, turn, orders,
                    inst, range, day, swept>>
    BY <1>4 DEF FillOrder, setup, market, machine
  <2> QED  BY <2>2, <2>5, <2>7, <2>8, <2>9
           DEF TypeOK, Finite, Runtimes, LevelsOf, Order, Position, Funnel
<1>5. CASE AllFilled
  BY <1>5 DEF AllFilled, TypeOK, Finite, setup, market, machine, Runtimes, LevelsOf, Order, Position, Funnel
<1>6. CASE ProcessTimeExits
  <2>1. /\ IsFiniteSet(DueSession) /\ IsFiniteSet(DueWeek) /\ IsFiniteSet(DueFinal)
        /\ IsFiniteSet(LateOrders) /\ IsFiniteSet(orders') /\ IsFiniteSet(positions')
    <3>1. /\ DueSession \subseteq positions /\ DueWeek \subseteq positions
          /\ DueFinal \subseteq positions /\ positions' \subseteq positions
          /\ LateOrders \subseteq orders /\ orders' \subseteq orders
      BY <1>6 DEF ProcessTimeExits, DueSession, DueWeek, DueFinal, LateOrders
    <3> QED  BY <3>1, FS_Subset DEF Finite
  <2>6. positions' \subseteq Position /\ orders' \subseteq Order
    BY <1>6 DEF ProcessTimeExits, TypeOK
  <2>2. Closed(funnel, DueSession, "session") \in [Runtimes -> Funnel]
    BY <2>1, FunnelClosed DEF TypeOK, Exits
  <2>3. Closed(Closed(funnel, DueSession, "session"), DueWeek, "week") \in [Runtimes -> Funnel]
    BY <2>1, <2>2, FunnelClosed DEF Exits
  <2>4. Closed(Closed(Closed(funnel, DueSession, "session"), DueWeek, "week"), DueFinal, "final")
           \in [Runtimes -> Funnel]
    BY <2>1, <2>3, FunnelClosed DEF Exits
  <2>5. funnel' \in [Runtimes -> Funnel]
    BY <1>6, <2>1, <2>4, FunnelCount DEF ProcessTimeExits
  <2>7. /\ UNCHANGED <<policy, family, bar, now, prev, upcoming, turn, touched,
                       inst, range, day, swept>>
        /\ phase' = "swap"
    BY <1>6 DEF ProcessTimeExits, setup, market, machine
  <2> QED  BY <2>1, <2>5, <2>6, <2>7
           DEF TypeOK, Finite, Runtimes, LevelsOf, Order, Position, Funnel
<1>7. CASE NoTimeExits
  BY <1>7 DEF NoTimeExits, TypeOK, Finite, setup, market, machine, Runtimes, LevelsOf, Order, Position, Funnel
<1>8. CASE ProcessSwap
  <2>1. IsFiniteSet(positions') /\ positions' \subseteq Position
    BY <1>8, ChargeKeeps DEF ProcessSwap, TypeOK, Finite
  <2>2. swept' \subseteq Levels /\ turn' \in 1 .. Len(family) + 1
    BY <1>8, <1>0 DEF ProcessSwap, TypeOK
  <2>3. /\ UNCHANGED <<policy, family, bar, now, prev, upcoming, orders, touched,
                       inst, range, day, funnel>>
        /\ phase' = "bars"
    BY <1>8 DEF ProcessSwap, setup, market
  <2> QED  BY <2>1, <2>2, <2>3
           DEF TypeOK, Finite, Runtimes, LevelsOf, Order, Position, Funnel
<1>9. ASSUME NEW r \in Runtimes, OnBar(r) PROVE TypeInv'
  <2>1. PICK fits \in BOOLEAN, broken \in {"none", "long", "short"} :
        \E g \in NextInstances(r, fits, broken) :
        \E A \in Acceptable(r, Signals(r, fits, g)) :
           /\ inst' = [inst EXCEPT ![r] = g]
           /\ orders' = orders \cup {NewOrder(r, l) : l \in A}
           /\ funnel' = Count(funnel, "accepted", {NewOrder(r, l) : l \in A})
    BY <1>9 DEF OnBar
  <2>2. PICK g \in NextInstances(r, fits, broken) :
        \E A \in Acceptable(r, Signals(r, fits, g)) :
           /\ inst' = [inst EXCEPT ![r] = g]
           /\ orders' = orders \cup {NewOrder(r, l) : l \in A}
           /\ funnel' = Count(funnel, "accepted", {NewOrder(r, l) : l \in A})
    BY <2>1
  <2>3. PICK A \in Acceptable(r, Signals(r, fits, g)) :
           /\ inst' = [inst EXCEPT ![r] = g]
           /\ orders' = orders \cup {NewOrder(r, l) : l \in A}
           /\ funnel' = Count(funnel, "accepted", {NewOrder(r, l) : l \in A})
    BY <2>2
  <2> DEFINE new == {NewOrder(r, l) : l \in A}
  <2>4. A \subseteq LevelsOf(r) /\ IsFiniteSet(LevelsOf(r))
    <3>1. A \subseteq LevelsOf(r)
      BY DEF Acceptable, Signals
    <3>2. IsFiniteSet({"long"} \cup {"short"})
      BY FS_Singleton, FS_AddElement
    <3>3. {"long", "short"} = {"long"} \cup {"short"}
      OBVIOUS
    <3> QED  BY <3>1, <3>2, <3>3, EngineAssumption DEF LevelsOf
  <2>5. IsFiniteSet(new)
    <3> DEFINE h == [l \in A |-> NewOrder(r, l)]
    <3>1. h \in Surjection(A, new)
      BY DEF Surjection
    <3>2. IsFiniteSet(A)
      BY <2>4, FS_Subset
    <3> QED  BY <3>1, <3>2, FS_Surjection
  <2>6. new \subseteq Order
    <3>1. family[r] \in Families /\ Window[family[r]]["order_pending"] \in Nat
      BY <1>0, WindowAssumption DEF Timed, Families
    <3>2. now + Window[family[r]]["order_pending"] \in Nat
      BY <3>1 DEF TypeOK
    <3>3. \A l \in A : l \in UNION {LevelsOf(s) : s \in Runtimes}
      BY <2>4
    <3> QED  BY <3>2, <3>3 DEF NewOrder, Order, TypeOK
  <2>7. g \in [LevelsOf(r) -> Instance]
    <3>1. \A l \in LevelsOf(r) : Known(r, l, fits) \in Instance
      BY DEF Known, Kept, Registered, Idle, Instance, Stages, TypeOK
    <3>2. ASSUME NEW l \in LevelsOf(r) PROVE g[l] \in Instance
      <4> DEFINE past == Tick(now) >= Closing[Session[r]]
      <4>1. past \in BOOLEAN /\ g[l] \in Advances(family[r], Known(r, l, fits), l, broken, past, bar)
        BY DEF NextInstances
      <4> HIDE DEF past
      <4>2. bar \in Nat /\ family[r] \in Families
        BY <1>0 DEF TypeOK
      <4> QED  BY <3>1, <4>1, <4>2, AdvancesType
    <3>3. DOMAIN g = LevelsOf(r) /\ g = [l \in LevelsOf(r) |-> g[l]]
      BY DEF NextInstances
    <3> QED  BY <3>2, <3>3
  <2>8. funnel' \in [Runtimes -> Funnel]
    BY <2>3, <2>5, FunnelCount DEF TypeOK
  <2>9. orders' \subseteq Order /\ IsFiniteSet(orders')
    BY <2>3, <2>5, <2>6, FS_Union DEF TypeOK, Finite
  <2>10. DOMAIN inst' = Runtimes /\ \A s \in Runtimes : inst'[s] \in [LevelsOf(s) -> Instance]
    BY <2>3, <2>7 DEF TypeOK
  <2>11. range' \in [Runtimes -> {"none", "tracked", "processed"}]
    BY <1>9 DEF OnBar, RangeAfter, RangeBefore, TypeOK
  <2>12. Day(now) \in Nat
    BY EngineAssumption, DivType DEF Day, TypeOK
  <2>13. day' \in [Runtimes -> Nat \cup {NoBar}]
    BY <1>9, <2>12 DEF OnBar, TypeOK
  <2>14. turn' \in 1 .. Len(family) + 1
    BY <1>9, <1>0 DEF OnBar
  <2>15. UNCHANGED <<policy, family, bar, now, prev, upcoming, phase, touched, positions, swept>>
    BY <1>9 DEF OnBar, setup, market
  <2> QED  BY <2>8, <2>9, <2>10, <2>11, <2>13, <2>14, <2>15
           DEF TypeOK, Finite, Runtimes, LevelsOf, Order, Position, Funnel
<1>10. ASSUME NEW r \in Runtimes, SkipBar(r) PROVE TypeInv'
  <2>1. turn' \in 1 .. Len(family) + 1
    BY <1>10, <1>0 DEF SkipBar
  <2> QED  BY <1>10, <2>1
           DEF SkipBar, TypeOK, Finite, setup, market, machine, Runtimes, LevelsOf, Order, Position, Funnel
<1>11. CASE NextBar
  <2>1. /\ bar' \in Nat /\ now' \in Nat /\ prev' \in Nat /\ prev' < now'
        /\ upcoming' \in Nat \cup {NoBar} /\ (upcoming' = NoBar \/ now' < upcoming')
    <3>1. bar \in Nat /\ now \in Nat /\ upcoming \in Nat \cup {NoBar} /\ (upcoming = NoBar \/ now < upcoming)
      BY DEF TypeOK
    <3>2. LastTick \in Nat /\ MaxGap \in Nat
      BY EngineAssumption
    <3>3. /\ upcoming # NoBar /\ bar' = bar + 1 /\ prev' = now /\ now' = upcoming
          /\ upcoming' \in {u \in upcoming + 1 .. upcoming + MaxGap : u <= LastTick} \cup {NoBar}
      BY <1>11 DEF NextBar, Later
    <3> QED  BY <3>1, <3>2, <3>3 DEF NoBar
  <2> QED  BY <1>11, <2>1
           DEF NextBar, TypeOK, Finite, setup, machine, Runtimes, LevelsOf, Order, Position, Funnel
<1>12. CASE Finish
  <2>1. IsFiniteSet(orders') /\ orders' \subseteq Order
    BY <1>12, FS_EmptySet DEF Finish, Finite, TypeOK
  <2>2. funnel' \in [Runtimes -> Funnel]
    BY <1>12, FunnelCount DEF Finish, TypeOK, Finite
  <2> QED  BY <1>12, <2>1, <2>2
           DEF Finish, TypeOK, Finite, setup, market, machine, Runtimes, LevelsOf, Order, Position, Funnel
<1>13. CASE UNCHANGED vars
  BY <1>13 DEF vars, TypeOK, Finite, setup, market, machine, Runtimes, LevelsOf, Order, Position, Funnel
<1> QED  BY <1>1, <1>2, <1>3, <1>4, <1>5, <1>6, <1>7, <1>8, <1>9, <1>10, <1>11, <1>12, <1>13
         DEF Next, Terminated

\* The engine's state is of its types for every run.
THEOREM EngineTypes == Spec => []TypeInv
BY EngineTypeInit, EngineTypeStep, PTL DEF Spec
------------------------------------------------------------------------------
(* The lifecycle of orders and positions.                                   *)

\* A touched order is handled before its bar goes on; an order of this bar was
\* placed by a runtime whose turn is over; no order is at two places at once.
LiveInv ==
    /\ phase # "fills" => touched = {}
    /\ \A o \in orders : \/ o.created < now
                         \/ /\ o.created = now
                            /\ phase = "done" \/ (phase = "bars" /\ o.rt < turn)
    /\ \A o \in touched : o.created < now /\ now < o.expires
    /\ \A p \in positions : /\ p.order.created < p.opened
                            /\ p.opened < p.order.expires /\ p.opened <= now
    /\ orders \cap touched = {}
    /\ \A p \in positions : p.order \notin orders \cup touched

LEMMA LiveInit == Init => LiveInv
BY DEF Init, LiveInv

LEMMA LiveStep == TypeInv /\ LiveInv /\ [Next]_vars => LiveInv'
<1> SUFFICES ASSUME TypeInv, LiveInv, [Next]_vars PROVE LiveInv'
  OBVIOUS
<1>a. Runtimes = 1 .. Len(family) /\ Len(family) \in Nat
  BY EngineAssumption DEF TypeInv, TypeOK, Runtimes
<1>b. \A o \in orders : o.rt \in Int
  BY <1>a DEF TypeInv, TypeOK, Order
<1>0. /\ now \in Nat
      /\ \A o \in orders \cup touched : o \in Order /\ o.created \in Nat /\ o.expires \in Nat
      /\ \A p \in positions : /\ p \in Position /\ p.opened \in Nat
                              /\ p.order.created \in Nat /\ p.order.expires \in Nat
  BY DEF TypeInv, TypeOK, Order, Position
<1>1. CASE ProcessExits
  BY <1>1 DEF ProcessExits, LiveInv, setup, market
<1>2. CASE TouchOrders
  <2>1. PICK t \in SUBSET (orders \ Expired) :
           touched' = t /\ orders' = (orders \ Expired) \ t
    BY <1>2 DEF TouchOrders
  <2>2. \A o \in orders \ Expired : now < o.expires
    BY <1>0 DEF Expired
  <2> QED  BY <1>2, <2>1, <2>2 DEF TouchOrders, LiveInv, market
<1>3. CASE RejectOverlap
  BY <1>3 DEF RejectOverlap, LiveInv, market
<1>4. CASE FillOrder
  <2>1. PICK o \in NextFill, stopped \in BOOLEAN :
           /\ touched' = touched \ {o}
           /\ positions' \subseteq positions \cup {[order |-> o, opened |-> now, swaps |-> 0]}
    BY <1>4 DEF FillOrder
  <2>2. o \in touched /\ o \notin orders
    BY DEF NextFill, LiveInv
  <2>3. UNCHANGED <<now, phase, turn, orders>> /\ phase = "fills"
    BY <1>4 DEF FillOrder, market
  <2> QED  BY <1>0, <2>1, <2>2, <2>3 DEF LiveInv
<1>5. CASE AllFilled
  BY <1>5 DEF AllFilled, LiveInv, market
<1>6. CASE ProcessTimeExits
  BY <1>6 DEF ProcessTimeExits, LiveInv, market
<1>7. CASE NoTimeExits
  BY <1>7 DEF NoTimeExits, LiveInv, market
<1>8. CASE ProcessSwap
  <2>1. \A p \in positions' : \E q \in positions : p.order = q.order /\ p.opened = q.opened
    BY <1>0, <1>8 DEF ProcessSwap, Position
  <2>2. UNCHANGED <<now, orders, touched>> /\ phase = "swap" /\ phase' = "bars"
    BY <1>8 DEF ProcessSwap, market
  <2> QED  BY <2>1, <2>2 DEF LiveInv
<1>9. ASSUME NEW r \in Runtimes, OnBar(r) PROVE LiveInv'
  <2>1. PICK A : orders' = orders \cup {NewOrder(r, l) : l \in A}
    BY <1>9 DEF OnBar
  <2>2. \A l : NewOrder(r, l).created = now /\ NewOrder(r, l).rt = r
    BY DEF NewOrder
  <2>3. /\ UNCHANGED <<now, phase, touched, positions>>
        /\ phase = "bars" /\ turn = r /\ turn' = turn + 1 /\ touched = {} /\ turn \in Int
    BY <1>9 DEF OnBar, market, LiveInv, TypeInv, TypeOK
  <2> QED  BY <1>b, <1>0, <2>1, <2>2, <2>3 DEF LiveInv
<1>10. ASSUME NEW r \in Runtimes, SkipBar(r) PROVE LiveInv'
  <2>1. turn \in Int
    BY DEF TypeInv, TypeOK
  <2> QED  BY <1>10, <1>b, <2>1 DEF SkipBar, LiveInv, market
<1>11. CASE NextBar
  <2>1. now < upcoming /\ now' = upcoming /\ upcoming \in Nat
    BY <1>11 DEF NextBar, TypeInv, TypeOK
  <2> QED  BY <1>0, <1>11, <2>1 DEF NextBar, LiveInv
<1>12. CASE Finish
  BY <1>12 DEF Finish, LiveInv, market
<1>13. CASE UNCHANGED vars
  BY <1>13 DEF vars, LiveInv, market
<1> QED  BY <1>1, <1>2, <1>3, <1>4, <1>5, <1>6, <1>7, <1>8, <1>9, <1>10, <1>11, <1>12, <1>13
         DEF Next, Terminated

LEMMA EngineLives == Spec => [](TypeInv /\ LiveInv)
BY EngineTypeInit, EngineTypeStep, LiveInit, LiveStep, PTL DEF Spec

\* No order fills at the bar it was placed, nor once it has expired.
THEOREM FillsLive == Spec => []FillsAreLive
<1>1. LiveInv => FillsAreLive
  BY DEF LiveInv, FillsAreLive
<1> QED  BY <1>1, EngineLives, PTL

------------------------------------------------------------------------------
(* One position per pair.                                                   *)

LEMMA SetupFixed == [Next]_vars => policy' = policy /\ family' = family
BY DEF Next, vars, setup, ProcessExits, TouchOrders, RejectOverlap, FillOrder, AllFilled,
       ProcessTimeExits, NoTimeExits, ProcessSwap, OnBar, SkipBar, NextBar, Finish, Terminated

LEMMA OneStep == OnePositionPerPair /\ [Next]_vars => OnePositionPerPair'
<1> SUFFICES ASSUME OnePositionPerPair, [Next]_vars PROVE OnePositionPerPair'
  OBVIOUS
<1>1. policy' = policy
  BY SetupFixed
<1>2. CASE FillOrder
  <2>1. PICK p : positions' \subseteq positions \cup {p}
    BY <1>2 DEF FillOrder
  <2>2. policy.single => positions = {}
    BY <1>2 DEF FillOrder, Overlaps
  <2> QED  BY <1>1, <2>1, <2>2 DEF OnePositionPerPair
<1>3. CASE ProcessSwap
  BY <1>1, <1>3 DEF ProcessSwap, OnePositionPerPair
<1>4. CASE ~FillOrder /\ ~ProcessSwap
  <2>1. positions' \subseteq positions
    BY <1>4 DEF Next, vars, ProcessExits, TouchOrders, RejectOverlap, AllFilled,
         ProcessTimeExits, NoTimeExits, OnBar, SkipBar, NextBar, Finish, Terminated
  <2> QED  BY <1>1, <2>1 DEF OnePositionPerPair
<1> QED  BY <1>2, <1>3, <1>4

\* Under single_position_per_pair no two positions are ever open together.
THEOREM OnePosition == Spec => []OnePositionPerPair
<1>1. Init => OnePositionPerPair
  BY DEF Init, OnePositionPerPair
<1> QED  BY <1>1, OneStep, PTL DEF Spec
------------------------------------------------------------------------------
(* Nothing is carried past a session.                                       *)

LEMMA DivTimes ==
    ASSUME NEW t \in Nat, NEW d \in Nat \ {0}
    PROVE  /\ t \div d \in Nat /\ (t \div d) * d \in Nat
           /\ (t \div d) * d <= t /\ t < (t \div d) * d + d
OBVIOUS

LEMMA DivUnique ==
    ASSUME NEW t \in Nat, NEW d \in Nat \ {0}, NEW k \in Nat, k * d <= t, t < k * d + d
    PROVE  t \div d = k
OBVIOUS

LEMMA TimesLess ==
    ASSUME NEW a \in Int, NEW b \in Int, NEW d \in Nat \ {0}, a < b
    PROVE  a * d + d <= b * d
<1>1. (b - a) * d >= d
  OBVIOUS
<1>2. (b - a) * d = b * d - a * d
  OBVIOUS
<1> QED  BY <1>1, <1>2

\* A time between one of a day and that day's cutoff is of the same FX day,
\* and no FX week closes in between.
LEMMA SameFxDay ==
    ASSUME NEW a \in Nat, NEW b \in Nat, NEW c \in Nat, c < Roll,
           a <= b, b < Day(a) * DayTicks + c
    PROVE  ~CrossesRollover(a, b) /\ \A t \in Nat : ~(a < FxWeekClose(t) /\ FxWeekClose(t) <= b)
<1> DEFINE D == Day(a)
           M == D * DayTicks
<1>0. /\ DayTicks \in Nat \ {0} /\ Roll \in Nat /\ Roll < DayTicks /\ WeekDays \in Nat \ {0}
      /\ Friday \in Int
  BY EngineAssumption
<1>1. D \in Nat /\ M \in Nat /\ M <= a
  BY <1>0, DivTimes DEF Day
<1>2. \A t \in {a, b} : FxDay(t) = D
  <2> TAKE t \in {a, b}
  <2>1. /\ t + DayTicks - Roll \in Nat
        /\ M <= t + DayTicks - Roll /\ t + DayTicks - Roll < M + DayTicks
    <3> HIDE DEF D
    <3>1. t < M + c
      BY <1>1 DEF D
    <3> HIDE DEF M
    <3> QED  BY <1>0, <1>1, <3>1
  <2> HIDE DEF D
  <2> QED  BY <1>0, <1>1, <2>1, DivUnique DEF FxDay
<1>3. ~CrossesRollover(a, b)
  BY <1>1, <1>2 DEF CrossesRollover
<1>4. ASSUME NEW t \in Nat, a < FxWeekClose(t), FxWeekClose(t) <= b PROVE FALSE
  <2> DEFINE k == Day(t) + ((Friday - Day(t)) % WeekDays)
  <2>1. k \in Int /\ FxWeekClose(t) = k * DayTicks + Roll
    <3>1. Day(t) \in Nat
      BY <1>0, DivTimes DEF Day
    <3> QED  BY <1>0, <3>1 DEF FxWeekClose
  <2> HIDE DEF k, D
  <2>2. k * DayTicks \in Int /\ k * DayTicks + Roll <= b /\ a < k * DayTicks + Roll
    BY <1>0, <1>4, <2>1
  <2>3. b < M + c
    BY DEF D
  <2>4. CASE k < D
    <3>1. k * DayTicks + DayTicks <= M
      BY <1>0, <1>1, <2>1, <2>4, TimesLess
    <3> HIDE DEF M
    <3> QED  BY <1>0, <1>1, <2>2, <3>1
  <2>5. CASE k >= D
    <3>1. k = D \/ M + DayTicks <= k * DayTicks
      BY <1>0, <1>1, <2>1, <2>5, TimesLess
    <3>2. M <= k * DayTicks
      BY <1>0, <1>1, <2>2, <3>1
    <3> HIDE DEF M
    <3> QED  BY <1>0, <1>1, <2>2, <2>3, <3>2
  <2> QED  BY <1>1, <2>1, <2>4, <2>5
<1> QED  BY <1>3, <1>4

\* What a bar of the amended policy leaves is not at its session's end, so the
\* next bar, if there is one, starts before it.
CarryInv ==
    policy.timeExits =>
      /\ phase \in {"swap", "bars"} =>
            /\ \A p \in positions : ~AtCutoff(p.order.rt, p.opened)
            /\ \A o \in orders : ~AtCutoff(o.rt, o.created)
            /\ upcoming = NoBar => positions = {}
      /\ phase = "exits" =>
            /\ \A p \in positions : now < Cutoff(p.opened, Session[p.order.rt])
            /\ \A o \in orders : now < Cutoff(o.created, Session[o.rt])
      /\ phase = "done" => positions = {} /\ orders = {}

LEMMA CutoffType ==
    ASSUME TypeInv, NEW t \in Nat, NEW r \in Runtimes
    PROVE  Cutoff(t, Session[r]) \in Nat /\ Closing[Session[r]] \in Nat /\ Closing[Session[r]] < Roll
<1>1. Session[r] \in Sessions
  BY EngineAssumption DEF TypeInv, TypeOK, Runtimes
<1>2. /\ Closing[Session[r]] \in Nat /\ Closing[Session[r]] < Roll
  BY <1>1, EngineAssumption
<1>3. Day(t) * DayTicks \in Nat
  BY EngineAssumption, DivTimes DEF Day
<1> QED  BY <1>2, <1>3 DEF Cutoff

LEMMA CarryStep == TypeInv /\ CarryInv /\ [Next]_vars => CarryInv'
<1> SUFFICES ASSUME TypeInv, CarryInv, [Next]_vars, policy.timeExits,
                    policy' = policy
             PROVE  CarryInv'
  BY SetupFixed DEF CarryInv
<1>1. CASE ProcessExits \/ TouchOrders \/ RejectOverlap \/ FillOrder \/ AllFilled \/ NoTimeExits
  BY <1>1 DEF ProcessExits, TouchOrders, RejectOverlap, FillOrder, AllFilled, NoTimeExits, CarryInv
<1>2. CASE ProcessTimeExits
  <2>1. /\ UNCHANGED <<now, upcoming>> /\ phase' = "swap"
        /\ positions' = positions \ (DueSession \cup DueWeek \cup DueFinal)
        /\ orders' = orders \ LateOrders
    BY <1>2 DEF ProcessTimeExits, market
  <2>2. \A r, t : AtCutoff(r, t)' = AtCutoff(r, t)
    BY <2>1 DEF AtCutoff, ReachesBoundary
  <2>3. \A p \in positions' : ~AtCutoff(p.order.rt, p.opened)
    BY <2>1 DEF DueSession
  <2>4. \A o \in orders' : ~AtCutoff(o.rt, o.created)
    BY <2>1 DEF LateOrders
  <2>5. upcoming = NoBar => positions' = {}
    BY <2>1 DEF DueFinal
  <2> QED  BY <2>1, <2>2, <2>3, <2>4, <2>5 DEF CarryInv
<1>3. CASE ProcessSwap
  <2>1. /\ UNCHANGED <<now, upcoming, orders>> /\ phase = "swap" /\ phase' = "bars"
    BY <1>3 DEF ProcessSwap, market
  <2>2. \A r, t : AtCutoff(r, t)' = AtCutoff(r, t)
    BY <2>1 DEF AtCutoff, ReachesBoundary
  <2>3. \A p \in positions' : \E q \in positions : p.order = q.order /\ p.opened = q.opened
    BY <1>3 DEF ProcessSwap, TypeInv, TypeOK, Position
  <2> QED  BY <2>1, <2>2, <2>3 DEF CarryInv
<1>4. ASSUME NEW r \in Runtimes, OnBar(r) PROVE CarryInv'
  <2>1. PICK A, S : /\ A \in Acceptable(r, S)
                    /\ orders' = orders \cup {NewOrder(r, l) : l \in A}
    BY <1>4 DEF OnBar
  <2>2. \A l : NewOrder(r, l).created = now /\ NewOrder(r, l).rt = r
    BY DEF NewOrder
  <2>3. AtCutoff(r, now) => A = {}
    BY <2>1 DEF Acceptable
  <2>4. UNCHANGED <<now, upcoming, phase, positions>> /\ phase = "bars"
    BY <1>4 DEF OnBar, market
  <2>5. \A q, t : AtCutoff(q, t)' = AtCutoff(q, t)
    BY <2>4 DEF AtCutoff, ReachesBoundary
  <2>6. \A o \in orders' : ~AtCutoff(o.rt, o.created)
    BY <2>1, <2>2, <2>3, <2>4 DEF CarryInv
  <2> QED  BY <2>4, <2>5, <2>6 DEF CarryInv
<1>5. ASSUME NEW r \in Runtimes, SkipBar(r) PROVE CarryInv'
  <2>1. UNCHANGED <<now, upcoming, phase, positions, orders>>
    BY <1>5 DEF SkipBar, market
  <2>2. \A q, t : AtCutoff(q, t)' = AtCutoff(q, t) /\ Cutoff(t, q)' = Cutoff(t, q)
    BY <2>1 DEF AtCutoff, ReachesBoundary, Cutoff
  <2> QED  BY <2>1, <2>2 DEF CarryInv, Cutoff
<1>6. CASE NextBar
  <2>1. /\ phase = "bars" /\ phase' = "exits" /\ now' = upcoming /\ upcoming # NoBar
        /\ UNCHANGED <<orders, positions>> /\ now \in Nat /\ upcoming \in Nat
    BY <1>6 DEF NextBar, TypeInv, TypeOK
  <2>2. ASSUME NEW q \in Runtimes, NEW t \in Nat, ~AtCutoff(q, t)
        PROVE  upcoming < Cutoff(t, Session[q])
    <3>1. Cutoff(t, Session[q]) \in Nat
      BY CutoffType
    <3> QED  BY <2>1, <2>2, <3>1 DEF AtCutoff, ReachesBoundary
  <2>3. \A p \in positions : p.order.rt \in Runtimes /\ p.opened \in Nat
    BY DEF TypeInv, TypeOK, Position, Order
  <2>4. \A o \in orders : o.rt \in Runtimes /\ o.created \in Nat
    BY DEF TypeInv, TypeOK, Order
  <2> QED  BY <2>1, <2>2, <2>3, <2>4 DEF CarryInv
<1>7. CASE Finish
  BY <1>7 DEF Finish, CarryInv, market
<1>8. CASE UNCHANGED vars
  BY <1>8 DEF vars, CarryInv, market, AtCutoff, ReachesBoundary
<1> QED  BY <1>1, <1>2, <1>3, <1>4, <1>5, <1>6, <1>7, <1>8 DEF Next, Terminated

\* "Overnight, rollover, and weekend carry are prohibited", whatever bars the
\* data lacks.
THEOREM NothingIsCarried == Spec => []NothingCarried
<1>1. Init => CarryInv
  BY DEF Init, CarryInv
<1>2. TypeInv /\ LiveInv /\ CarryInv => NothingCarried
  <2> SUFFICES ASSUME TypeInv, LiveInv, CarryInv, policy.timeExits PROVE NothingCarried
    BY DEF NothingCarried
  <2>1. ASSUME phase = "exits", NEW p \in positions
        PROVE  /\ now < Cutoff(p.opened, Session[p.order.rt])
               /\ ~CrossesRollover(p.opened, now)
               /\ ~\E w \in WeekCloses : p.opened < w /\ w <= now
    <3>1. now < Cutoff(p.opened, Session[p.order.rt]) /\ p.opened <= now
      BY <2>1 DEF CarryInv, LiveInv
    <3>2. p.opened \in Nat /\ now \in Nat /\ p.order.rt \in Runtimes
      BY DEF TypeInv, TypeOK, Position, Order
    <3>3. Closing[Session[p.order.rt]] \in Nat /\ Closing[Session[p.order.rt]] < Roll
      BY <3>2, CutoffType
    <3>4. /\ ~CrossesRollover(p.opened, now)
          /\ \A t \in Nat : ~(p.opened < FxWeekClose(t) /\ FxWeekClose(t) <= now)
      BY <3>1, <3>2, <3>3, SameFxDay DEF Cutoff
    <3>5. 0 .. LastTick \subseteq Nat
      BY EngineAssumption
    <3> QED  BY <3>1, <3>4, <3>5 DEF WeekCloses
  <2> QED  BY <2>1 DEF NothingCarried, CarryInv
<1> QED  BY <1>1, <1>2, CarryStep, EngineLives, EngineTypeInit, EngineTypeStep, PTL DEF Spec
------------------------------------------------------------------------------
(* The funnels.                                                             *)

\* FunnelsAddUp for a runtime with o orders to come and h positions.
Adds(f, o, h) ==
    /\ f.accepted = o + f.filled + f.cancelled + f.expired
    /\ f.filled = h + f.closed
    /\ f.closed = f.exits["stop"] + f.exits["session"] + f.exits["week"] + f.exits["final"]

\* What the two kinds of book-keeping do to one runtime's sums.
LEMMA CountAdds ==
    ASSUME NEW f \in [Runtimes -> Funnel], NEW S, IsFiniteSet(S), NEW r \in Runtimes,
           NEW o \in Int, NEW h \in Int, Adds(f[r], o, h)
    PROVE  LET c == CountOf(S, r) IN
           /\ Adds(Count(f, "accepted", S)[r], o + c, h)
           /\ Adds(Count(f, "filled", S)[r], o - c, h + c)
           /\ Adds(Count(f, "cancelled", S)[r], o - c, h)
           /\ Adds(Count(f, "expired", S)[r], o - c, h)
<1> DEFINE c == CountOf(S, r)
<1>1. c \in Nat
  BY CountType
<1>2. /\ f[r] \in Funnel
      /\ f[r].accepted \in Nat /\ f[r].filled \in Nat /\ f[r].cancelled \in Nat
      /\ f[r].expired \in Nat /\ f[r].closed \in Nat
      /\ f[r].exits["stop"] \in Nat /\ f[r].exits["session"] \in Nat
      /\ f[r].exits["week"] \in Nat /\ f[r].exits["final"] \in Nat
  BY DEF Funnel, Exits
<1>3. \A field : Count(f, field, S)[r] = [f[r] EXCEPT ![field] = @ + c]
  BY DEF Count
<1> HIDE DEF c
<1>4. Adds([f[r] EXCEPT !.accepted = @ + c], o + c, h)
  BY <1>1, <1>2 DEF Adds, Funnel
<1>5. Adds([f[r] EXCEPT !.filled = @ + c], o - c, h + c)
  BY <1>1, <1>2 DEF Adds, Funnel
<1>6. Adds([f[r] EXCEPT !.cancelled = @ + c], o - c, h)
  BY <1>1, <1>2 DEF Adds, Funnel
<1>7. Adds([f[r] EXCEPT !.expired = @ + c], o - c, h)
  BY <1>1, <1>2 DEF Adds, Funnel
<1> QED  BY <1>3, <1>4, <1>5, <1>6, <1>7 DEF c

LEMMA ClosedAdds ==
    ASSUME NEW f \in [Runtimes -> Funnel], NEW P, IsFiniteSet(P), NEW r \in Runtimes,
           NEW why \in Exits, NEW o \in Int, NEW h \in Int, Adds(f[r], o, h)
    PROVE  Adds(Closed(f, P, why)[r], o, h - HeldBy(P, r))
<1> DEFINE n == HeldBy(P, r)
           g == Closed(f, P, why)[r]
           e == f[r].exits
<1>1. n \in Nat
  BY HeldType
<1>2. /\ f[r] \in Funnel /\ e \in [Exits -> Nat]
      /\ f[r].filled \in Nat /\ f[r].closed \in Nat
  BY DEF Funnel
<1>3. g = [f[r] EXCEPT !.closed = @ + n, !.exits[why] = @ + n]
  BY DEF Closed
<1> HIDE DEF n, g
<1>4. /\ g.accepted = f[r].accepted /\ g.filled = f[r].filled
      /\ g.cancelled = f[r].cancelled /\ g.expired = f[r].expired
      /\ g.closed = f[r].closed + n /\ g.exits = [e EXCEPT ![why] = @ + n]
  BY <1>2, <1>3 DEF Funnel
<1>5. /\ f[r].filled = h + f[r].closed
      /\ f[r].closed = e["stop"] + e["session"] + e["week"] + e["final"]
      /\ f[r].accepted = o + f[r].filled + f[r].cancelled + f[r].expired
  BY DEF Adds
<1> HIDE DEF e
<1>6. g.exits["stop"] + g.exits["session"] + g.exits["week"] + g.exits["final"]
         = f[r].closed + n
  <2>1. why \in {"stop", "session", "week", "final"}
    BY DEF Exits
  <2>2. \A x \in Exits : /\ e[x] \in Nat
                         /\ g.exits[x] = IF x = why THEN e[x] + n ELSE e[x]
    BY <1>2, <1>4
  <2>3. "stop" \in Exits /\ "session" \in Exits /\ "week" \in Exits /\ "final" \in Exits
    BY DEF Exits
  <2> QED  BY <1>1, <1>5, <2>1, <2>2, <2>3
<1>7. g.filled = (h - n) + g.closed
  BY <1>1, <1>2, <1>4, <1>5
<1>8. g.accepted = o + g.filled + g.cancelled + g.expired
  BY <1>4, <1>5
<1>9. g.closed = g.exits["stop"] + g.exits["session"] + g.exits["week"] + g.exits["final"]
  BY <1>4, <1>6
<1>10. Adds(g, o, h - n)
  BY <1>7, <1>8, <1>9 DEF Adds
<1> QED  BY <1>10 DEF g, n

LEMMA BooksStep == TypeInv /\ LiveInv /\ FunnelsAddUp /\ [Next]_vars => FunnelsAddUp'
<1> SUFFICES ASSUME TypeInv, LiveInv, FunnelsAddUp, [Next]_vars, NEW r \in Runtimes
             PROVE  Adds(funnel'[r], CountOf(orders' \cup touched', r), HeldBy(positions', r))
  BY SetupFixed DEF FunnelsAddUp, Adds, CountOf, HeldBy, Runtimes
<1> DEFINE o == CountOf(orders \cup touched, r)
           h == HeldBy(positions, r)
<1>a. Adds(funnel[r], o, h)
  BY DEF FunnelsAddUp, Adds
<1>b. /\ funnel \in [Runtimes -> Funnel] /\ funnel[r] \in Funnel
      /\ IsFiniteSet(orders) /\ IsFiniteSet(touched) /\ IsFiniteSet(positions)
      /\ IsFiniteSet(orders \cup touched)
  BY FS_Union DEF TypeInv, TypeOK, Finite
<1>c. o \in Nat /\ h \in Nat
  BY <1>b, CountType, HeldType
<1> HIDE DEF o, h
<1>t. "stop" \in Exits /\ "session" \in Exits /\ "week" \in Exits /\ "final" \in Exits
  BY DEF Exits
<1>1. CASE ProcessExits
  <2>1. PICK hit \in SUBSET positions : /\ positions' = positions \ hit
                                       /\ funnel' = Closed(funnel, hit, "stop")
    BY <1>1 DEF ProcessExits
  <2>2. UNCHANGED <<orders, touched>>
    BY <1>1 DEF ProcessExits
  <2>3. IsFiniteSet(hit) /\ IsFiniteSet(positions') /\ positions = positions' \cup hit
    BY <1>b, <2>1, FS_Subset
  <2>4. h = HeldBy(positions', r) + HeldBy(hit, r)
    BY <2>1, <2>3, HeldUnion DEF h
  <2>5. HeldBy(hit, r) \in Nat /\ HeldBy(positions', r) \in Nat
    BY <2>3, HeldType
  <2>6. Adds(funnel'[r], o, h - HeldBy(hit, r))
    BY <1>a, <1>b, <1>c, <1>t, <2>1, <2>3, ClosedAdds
  <2>7. h - HeldBy(hit, r) = HeldBy(positions', r)
    BY <1>c, <2>4, <2>5
  <2> QED  BY <2>2, <2>6, <2>7 DEF o
<1>2. CASE TouchOrders
  <2>1. PICK t \in SUBSET (orders \ Expired) :
           touched' = t /\ orders' = (orders \ Expired) \ t
    BY <1>2 DEF TouchOrders
  <2>2. /\ UNCHANGED positions /\ funnel' = Count(funnel, "expired", Expired) /\ touched = {}
    BY <1>2 DEF TouchOrders, LiveInv
  <2>3. Expired \subseteq orders
    BY DEF Expired
  <2>4. /\ IsFiniteSet(Expired) /\ IsFiniteSet(orders \ Expired)
        /\ orders' \cup touched' = orders \ Expired
        /\ orders \cup touched = (orders \ Expired) \cup Expired
    BY <1>b, <2>1, <2>2, <2>3, FS_Subset
  <2>5. o = CountOf(orders \ Expired, r) + CountOf(Expired, r)
    BY <2>4, CountUnion DEF o
  <2>6. CountOf(Expired, r) \in Nat /\ CountOf(orders \ Expired, r) \in Nat
    BY <2>4, CountType
  <2>7. Adds(funnel'[r], o - CountOf(Expired, r), h)
    BY <1>a, <1>b, <1>c, <2>2, <2>4, CountAdds
  <2>8. o - CountOf(Expired, r) = CountOf(orders \ Expired, r)
    BY <1>c, <2>5, <2>6
  <2> QED  BY <2>2, <2>4, <2>7, <2>8 DEF h
<1>3. CASE RejectOverlap
  <2>1. PICK x \in NextFill : touched' = touched \ {x} /\ funnel' = Count(funnel, "cancelled", {x})
    BY <1>3 DEF RejectOverlap
  <2>2. UNCHANGED <<orders, positions>>
    BY <1>3 DEF RejectOverlap
  <2>3. /\ x \in touched /\ x \notin orders
    BY DEF NextFill, LiveInv
  <2>4. /\ IsFiniteSet({x}) /\ IsFiniteSet(orders' \cup touched')
        /\ orders \cup touched = (orders' \cup touched') \cup {x}
        /\ (orders' \cup touched') \cap {x} = {}
    BY <1>b, <2>1, <2>2, <2>3, FS_Subset, FS_Singleton
  <2>5. o = CountOf(orders' \cup touched', r) + CountOf({x}, r)
    BY <2>4, CountUnion DEF o
  <2>6. CountOf({x}, r) \in Nat /\ CountOf(orders' \cup touched', r) \in Nat
    BY <2>4, CountType
  <2>7. Adds(funnel'[r], o - CountOf({x}, r), h)
    BY <1>a, <1>b, <1>c, <2>1, <2>4, CountAdds
  <2>8. o - CountOf({x}, r) = CountOf(orders' \cup touched', r)
    BY <1>c, <2>5, <2>6
  <2> QED  BY <2>2, <2>7, <2>8 DEF h
<1>4. CASE FillOrder
  <2>1. PICK x \in NextFill, stopped \in BOOLEAN :
           LET p == [order |-> x, opened |-> now, swaps |-> 0]
               f == Count(funnel, "filled", {x})
           IN  /\ touched' = touched \ {x}
               /\ positions' = IF stopped THEN positions ELSE positions \cup {p}
               /\ funnel' = IF stopped THEN Closed(f, {p}, "stop") ELSE f
    BY <1>4 DEF FillOrder
  <2> DEFINE p == [order |-> x, opened |-> now, swaps |-> 0]
             f == Count(funnel, "filled", {x})
  <2>2. UNCHANGED orders
    BY <1>4 DEF FillOrder
  <2>3. /\ x \in touched /\ x \notin orders /\ p \notin positions
    BY DEF NextFill, LiveInv
  <2>4. /\ IsFiniteSet({x}) /\ IsFiniteSet(orders' \cup touched')
        /\ orders \cup touched = (orders' \cup touched') \cup {x}
        /\ (orders' \cup touched') \cap {x} = {}
    BY <1>b, <2>1, <2>2, <2>3, FS_Subset, FS_Singleton
  <2>5. o = CountOf(orders' \cup touched', r) + CountOf({x}, r)
    BY <2>4, CountUnion DEF o
  <2>6. CountOf({x}, r) \in Nat /\ CountOf(orders' \cup touched', r) \in Nat
    BY <2>4, CountType
  <2>7. CountOf({x}, r) = HeldBy({p}, r)
    <3>1. CASE x.rt = r
      <4>1. {y \in {x} : y.rt = r} = {x} /\ {q \in {p} : q.order.rt = r} = {p}
        BY <3>1
      <4> QED  BY <4>1, FS_Singleton DEF CountOf, HeldBy
    <3>2. CASE x.rt # r
      <4>1. {y \in {x} : y.rt = r} = {} /\ {q \in {p} : q.order.rt = r} = {}
        BY <3>2
      <4> QED  BY <4>1 DEF CountOf, HeldBy
    <3> QED  BY <3>1, <3>2
  <2>8. IsFiniteSet({p}) /\ positions \cap {p} = {}
    <3> HIDE DEF p
    <3> QED  BY <2>3, FS_Singleton
  <2>9. HeldBy(positions \cup {p}, r) = h + HeldBy({p}, r)
    BY <1>b, <2>8, HeldUnion DEF h
  <2>10. f \in [Runtimes -> Funnel]
    BY <1>b, <2>4, FunnelCount
  <2>11. Adds(f[r], o - CountOf({x}, r), h + CountOf({x}, r))
    BY <1>a, <1>b, <1>c, <2>4, CountAdds
  <2> HIDE DEF p, f
  <2>12. o - CountOf({x}, r) = CountOf(orders' \cup touched', r)
    BY <1>c, <2>5, <2>6
  <2>13. CASE stopped
    <3>1. positions' = positions /\ funnel' = Closed(f, {p}, "stop")
      BY <2>1, <2>13 DEF p, f
    <3>2. Adds(funnel'[r], o - CountOf({x}, r), (h + CountOf({x}, r)) - HeldBy({p}, r))
      BY <1>c, <1>t, <2>6, <2>8, <2>10, <2>11, <3>1, ClosedAdds
    <3>3. (h + CountOf({x}, r)) - HeldBy({p}, r) = h
      BY <1>c, <2>6, <2>7
    <3> QED  BY <2>12, <3>1, <3>2, <3>3 DEF h
  <2>14. CASE ~stopped
    <3>1. positions' = positions \cup {p} /\ funnel' = f
      BY <2>1, <2>14 DEF p, f
    <3> QED  BY <2>7, <2>9, <2>11, <2>12, <3>1
  <2> QED  BY <2>13, <2>14
<1>5. CASE AllFilled \/ NoTimeExits \/ NextBar \/ UNCHANGED vars
  <2>1. UNCHANGED <<orders, touched, positions, funnel>>
    BY <1>5 DEF AllFilled, NoTimeExits, NextBar, vars
  <2> QED  BY <1>a, <2>1 DEF o, h
<1>6. CASE ProcessTimeExits
  <2> DEFINE rest == positions \ (DueSession \cup DueWeek \cup DueFinal)
             f1 == Closed(funnel, DueSession, "session")
             f2 == Closed(f1, DueWeek, "week")
             f3 == Closed(f2, DueFinal, "final")
  <2>1. /\ positions' = rest /\ orders' = orders \ LateOrders /\ touched' = touched
        /\ funnel' = Count(f3, "cancelled", LateOrders) /\ touched = {}
    BY <1>6 DEF ProcessTimeExits, LiveInv
  <2>2. /\ DueSession \subseteq positions /\ DueWeek \subseteq positions \ DueSession
        /\ DueFinal \subseteq positions \ (DueSession \cup DueWeek) /\ LateOrders \subseteq orders
    BY DEF DueSession, DueWeek, DueFinal, LateOrders
  <2>3. /\ IsFiniteSet(DueSession) /\ IsFiniteSet(DueWeek) /\ IsFiniteSet(DueFinal)
        /\ IsFiniteSet(LateOrders) /\ IsFiniteSet(orders') /\ IsFiniteSet(rest)
    BY <1>b, <2>1, <2>2, FS_Subset
  <2>4. h = HeldBy(rest, r) + HeldBy(DueFinal, r) + HeldBy(DueWeek, r) + HeldBy(DueSession, r)
    <3>1. IsFiniteSet(rest \cup DueFinal) /\ IsFiniteSet((rest \cup DueFinal) \cup DueWeek)
      BY <2>3, FS_Union
    <3>2. HeldBy(rest \cup DueFinal, r) = HeldBy(rest, r) + HeldBy(DueFinal, r)
      BY <2>3, HeldUnion
    <3>3. HeldBy((rest \cup DueFinal) \cup DueWeek, r)
             = HeldBy(rest \cup DueFinal, r) + HeldBy(DueWeek, r)
      BY <2>2, <2>3, <3>1, HeldUnion
    <3>4. HeldBy(((rest \cup DueFinal) \cup DueWeek) \cup DueSession, r)
             = HeldBy((rest \cup DueFinal) \cup DueWeek, r) + HeldBy(DueSession, r)
      BY <2>2, <2>3, <3>1, HeldUnion
    <3>5. positions = ((rest \cup DueFinal) \cup DueWeek) \cup DueSession
      BY <2>2
    <3> QED  BY <3>2, <3>3, <3>4, <3>5 DEF h
  <2>5. /\ HeldBy(rest, r) \in Nat /\ HeldBy(DueFinal, r) \in Nat /\ HeldBy(DueWeek, r) \in Nat
        /\ HeldBy(DueSession, r) \in Nat /\ CountOf(LateOrders, r) \in Nat /\ CountOf(orders', r) \in Nat
    BY <2>3, HeldType, CountType
  <2>6. o = CountOf(orders', r) + CountOf(LateOrders, r)
    <3>1. orders \cup touched = orders' \cup LateOrders /\ orders' \cap LateOrders = {}
      BY <2>1, <2>2
    <3> QED  BY <2>3, <3>1, CountUnion DEF o
  <2> HIDE DEF rest
  <2>7. /\ f1 \in [Runtimes -> Funnel] /\ f2 \in [Runtimes -> Funnel] /\ f3 \in [Runtimes -> Funnel]
    BY <1>b, <1>t, <2>3, FunnelClosed
  <2>8. Adds(f1[r], o, h - HeldBy(DueSession, r))
    BY <1>a, <1>b, <1>c, <1>t, <2>3, ClosedAdds
  <2>9. Adds(f2[r], o, h - HeldBy(DueSession, r) - HeldBy(DueWeek, r))
    <3> HIDE DEF f1
    <3> QED  BY <1>c, <1>t, <2>3, <2>5, <2>7, <2>8, ClosedAdds
  <2>10. Adds(f3[r], o, h - HeldBy(DueSession, r) - HeldBy(DueWeek, r) - HeldBy(DueFinal, r))
    <3> HIDE DEF f2
    <3> QED  BY <1>c, <1>t, <2>3, <2>5, <2>7, <2>9, ClosedAdds
  <2>11. Adds(funnel'[r], o - CountOf(LateOrders, r),
              h - HeldBy(DueSession, r) - HeldBy(DueWeek, r) - HeldBy(DueFinal, r))
    <3> HIDE DEF f3
    <3> QED  BY <1>c, <2>1, <2>3, <2>5, <2>7, <2>10, CountAdds
  <2>12. orders' \cup touched' = orders'
    BY <2>1
  <2>13. /\ o - CountOf(LateOrders, r) = CountOf(orders', r)
         /\ h - HeldBy(DueSession, r) - HeldBy(DueWeek, r) - HeldBy(DueFinal, r) = HeldBy(rest, r)
    BY <1>c, <2>4, <2>5, <2>6
  <2> QED  BY <2>1, <2>11, <2>12, <2>13
<1>7. CASE ProcessSwap
  <2>1. HeldBy(positions', r) = h
    BY <1>7, <1>b, ChargeKeeps DEF ProcessSwap, TypeInv, TypeOK, h
  <2>2. UNCHANGED <<orders, touched, funnel>>
    BY <1>7 DEF ProcessSwap
  <2> QED  BY <1>a, <2>1, <2>2 DEF o
<1>8. ASSUME NEW q \in Runtimes, OnBar(q) \/ SkipBar(q)
      PROVE  Adds(funnel'[r], CountOf(orders' \cup touched', r), HeldBy(positions', r))
  <2>1. CASE SkipBar(q)
    <3>1. UNCHANGED <<orders, touched, positions, funnel>>
      BY <2>1 DEF SkipBar
    <3> QED  BY <1>a, <3>1 DEF o, h
  <2>2. CASE OnBar(q)
    <3>1. PICK A : /\ orders' = orders \cup {NewOrder(q, l) : l \in A}
                   /\ funnel' = Count(funnel, "accepted", {NewOrder(q, l) : l \in A})
      BY <2>2 DEF OnBar
    <3> DEFINE new == {NewOrder(q, l) : l \in A}
    <3>2. IsFiniteSet(orders')
      BY EngineTypeStep DEF TypeInv, Finite
    <3>3. IsFiniteSet(new)
      BY <3>1, <3>2, FS_Subset
    <3>4. new \cap (orders \cup touched) = {}
      <4>1. \A x \in new : x.created = now /\ x.rt = q
        BY DEF NewOrder
      <4>2. phase = "bars" /\ turn = q /\ touched = {} /\ turn \in Int /\ now \in Nat
        BY <2>2 DEF OnBar, LiveInv, TypeInv, TypeOK
      <4> HIDE DEF new
      <4> QED  BY <4>1, <4>2 DEF LiveInv
    <3> HIDE DEF new
    <3>5. UNCHANGED <<touched, positions>>
      BY <2>2 DEF OnBar
    <3>6. orders' \cup touched' = (orders \cup touched) \cup new
      BY <3>1, <3>5 DEF new
    <3>7. CountOf(orders' \cup touched', r) = o + CountOf(new, r)
      BY <1>b, <3>3, <3>4, <3>6, CountUnion DEF o
    <3>8. CountOf(new, r) \in Nat /\ funnel' = Count(funnel, "accepted", new)
      BY <3>1, <3>3, CountType DEF new
    <3>9. Adds(funnel'[r], o + CountOf(new, r), h)
      BY <1>a, <1>b, <1>c, <3>3, <3>8, CountAdds
    <3> QED  BY <3>5, <3>7, <3>9 DEF h
  <2> QED  BY <1>8, <2>1, <2>2
<1>9. CASE Finish
  <2>1. touched = {} /\ UNCHANGED <<touched, positions>>
    BY <1>9 DEF Finish, LiveInv
  <2>2. CASE policy.timeExits
    <3>1. orders' \cup touched' = {} /\ funnel' = Count(funnel, "cancelled", orders)
      BY <1>9, <2>1, <2>2 DEF Finish
    <3>2. CountOf(orders' \cup touched', r) = 0 /\ o = CountOf(orders, r)
      <4>1. {x \in {} : x.rt = r} = {} /\ orders \cup touched = orders
        BY <2>1
      <4> QED  BY <3>1, <4>1, FS_EmptySet DEF CountOf, o
    <3>3. Adds(funnel'[r], o - CountOf(orders, r), h)
      <4>1. funnel \in [Runtimes -> Funnel] /\ IsFiniteSet(orders)
        BY <1>b
      <4>2. o \in Int /\ h \in Int /\ Adds(funnel[r], o, h)
        BY <1>a, <1>c
      <4>3. Adds(Count(funnel, "cancelled", orders)[r], o - CountOf(orders, r), h)
        BY <4>1, <4>2, CountAdds
      <4> QED  BY <3>1, <4>3
    <3>4. o - CountOf(orders, r) = 0
      BY <1>c, <3>2
    <3> QED  BY <2>1, <3>2, <3>3, <3>4 DEF h
  <2>3. CASE ~policy.timeExits
    <3>1. UNCHANGED <<orders, funnel>>
      BY <1>9, <2>3 DEF Finish
    <3> QED  BY <1>a, <2>1, <3>1 DEF o, h
  <2> QED  BY <2>2, <2>3
<1> QED  BY <1>1, <1>2, <1>3, <1>4, <1>5, <1>6, <1>7, <1>8, <1>9 DEF Next, Terminated

\* Whatever happens, the funnels of all runtimes reconcile.
THEOREM FunnelsReconcile == Spec => []FunnelsAddUp
<1>1. Init => FunnelsAddUp
  <2> SUFFICES ASSUME Init PROVE FunnelsAddUp
    OBVIOUS
  <2>1. ASSUME NEW r \in Runtimes
        PROVE  Adds(funnel[r], CountOf(orders \cup touched, r), HeldBy(positions, r))
    <3>1. {x \in {} : x.rt = r} = {} /\ {x \in {} : x.order.rt = r} = {}
      OBVIOUS
    <3>2. CountOf({}, r) = 0 /\ HeldBy({}, r) = 0
      BY <3>1, FS_EmptySet DEF CountOf, HeldBy
    <3>3. orders \cup touched = {} /\ positions = {} /\ funnel[r] = NoEvents
      BY DEF Init
    <3>4. NoEvents.exits \in [Exits -> {0}]
      BY DEF NoEvents
    <3>5. Adds(NoEvents, 0, 0)
      BY <3>4 DEF Adds, NoEvents, Exits
    <3> QED  BY <3>2, <3>3, <3>5
  <2> QED  BY <2>1 DEF FunnelsAddUp, Adds
<1> QED  BY <1>1, BooksStep, EngineLives, EngineTypeInit, EngineTypeStep, PTL DEF Spec

------------------------------------------------------------------------------
(* Signals rest on what came before them.                                   *)

\* How far behind the sweep or break an instance's stage can be.
Chained(f, i) ==
    /\ i.sweep <= i.after
    /\ i.stage \in {"level_breached", "breakout_confirmed"} => i.at = i.sweep
    /\ f = "sweep_reversal" =>
          /\ i.stage = "reclaim_confirmed" =>
                i.at - i.sweep <= Window[f]["level_breached"]
          /\ i.stage = "mss_confirmed" =>
                i.at - i.sweep <= Window[f]["level_breached"] + Window[f]["reclaim_confirmed"]
          /\ i.stage = "displacement_confirmed" =>
                i.at - i.sweep <= Window[f]["level_breached"]
                   + Window[f]["reclaim_confirmed"] + Window[f]["mss_confirmed"]
    /\ f = "acceptance" /\ i.stage = "acceptance_confirmed" =>
          i.at - i.sweep <= Window[f]["level_breached"]

\* An order just found: a gap after the sweep and before this bar, in time.
Causal(f, j, n) == j.sweep < j.at /\ j.at < n /\ n - j.sweep <= Longest(f)

LEMMA WindowTypes ==
    /\ Window["sweep_reversal"]["level_breached"] \in Nat
    /\ Window["sweep_reversal"]["reclaim_confirmed"] \in Nat
    /\ Window["sweep_reversal"]["mss_confirmed"] \in Nat
    /\ Window["sweep_reversal"]["displacement_confirmed"] \in Nat
    /\ Window["acceptance"]["level_breached"] \in Nat
    /\ Window["acceptance"]["acceptance_confirmed"] \in Nat
    /\ Window["opening_range"]["breakout_confirmed"] \in Nat
    /\ \A f \in Families : DOMAIN Window[f] = Timed[f]
<1>1. \A f \in Families : Window[f] \in [Timed[f] -> Nat \ {0}]
  BY WindowAssumption
<1>2. /\ Window["sweep_reversal"] \in [Timed["sweep_reversal"] -> Nat \ {0}]
      /\ Window["acceptance"] \in [Timed["acceptance"] -> Nat \ {0}]
      /\ Window["opening_range"] \in [Timed["opening_range"] -> Nat \ {0}]
  BY <1>1 DEF Families
<1>3. /\ Timed["sweep_reversal"] = {"level_breached", "reclaim_confirmed", "mss_confirmed",
                                    "displacement_confirmed", "order_pending"}
      /\ Timed["acceptance"] = {"level_breached", "acceptance_confirmed", "order_pending"}
      /\ Timed["opening_range"] = {"breakout_confirmed", "order_pending"}
  BY DEF Timed
<1> QED  BY <1>1, <1>2, <1>3

\* One bar keeps the chain, the creation and what is behind this bar, and an
\* order it finds is causal.
LEMMA AdvancesChain ==
    ASSUME NEW f \in Families, NEW i \in Instance, NEW l, NEW b, NEW past \in BOOLEAN,
           NEW n \in Nat, NEW j \in Advances(f, i, l, b, past, n),
           Chained(f, i), i.sweep <= n
    PROVE  /\ Chained(f, j) /\ j.sweep <= n
           /\ j.stage = "idle" \/ j.created = i.created
           /\ i.stage = "idle" => j.stage = "idle"
           /\ j.stage = "order_pending" /\ i.stage # "order_pending" => Causal(f, j, n)
<1> DEFINE Good(k) ==
       /\ Chained(f, k) /\ k.sweep <= n
       /\ k.stage = "idle" \/ k.created = i.created
       /\ k.stage = "order_pending" /\ i.stage # "order_pending" => Causal(f, k, n)
<1>0. /\ i.at \in Nat /\ i.sweep \in Nat /\ i.after \in Nat /\ i.stage \in Stages
      /\ i = [stage |-> i.stage, created |-> i.created, at |-> i.at,
              sweep |-> i.sweep, after |-> i.after]
  BY DEF Instance
<1>1. Good(Idle)
  BY DEF Idle, Chained
<1>2. Good(i)
  OBVIOUS
<1>3. Good(Broken(i, "level_breached", n)) /\ Good(Broken(i, "breakout_confirmed", n))
  BY <1>0 DEF Broken, Enter, Chained
<1>4. ~Overdue(f, i, n) /\ i.stage \in Timed[f] => n - i.at <= Window[f][i.stage]
  <2>1. i.stage \in Timed[f] => Window[f][i.stage] \in Nat
    BY WindowAssumption
  <2> QED  BY <1>0, <2>1, WindowTypes DEF Overdue
<1>5. ASSUME NEW k \in OrderMoves(i, n), n - i.sweep <= Longest(f)
      PROVE  Good(k)
  <2>1. PICK g \in i.after + 1 .. n - 1 : k = Enter(i, "order_pending", g)
    BY DEF OrderMoves
  <2>2. /\ k.stage = "order_pending" /\ k.at = g /\ k.sweep = i.sweep
        /\ k.after = i.after /\ k.created = i.created
    BY <1>0, <2>1 DEF Enter
  <2>3. k.sweep < k.at /\ k.at < n
    BY <1>0, <2>2 DEF Chained
  <2> QED  BY <1>5, <2>2, <2>3 DEF Chained, Causal
<1>6. ASSUME Overdue(f, i, n) \/ (f = "opening_range" /\ past) PROVE Good(j)
  <2>1. j = Idle
    BY <1>6 DEF Advances
  <2> HIDE DEF Good
  <2> QED  BY <1>1, <2>1
<1>7. ASSUME ~Overdue(f, i, n), f = "sweep_reversal", j \in SweepMoves(i, n) PROVE Good(j)
  <2>0. /\ i.stage \in {"level_breached", "reclaim_confirmed", "mss_confirmed",
                        "displacement_confirmed"} => n - i.at <= Window[f][i.stage]
        /\ Longest(f) = Window[f]["level_breached"] + Window[f]["reclaim_confirmed"]
                          + Window[f]["mss_confirmed"] + Window[f]["displacement_confirmed"]
    BY <1>4, <1>7 DEF Timed, Longest
  <2>1. CASE i.stage = "level_available"
    BY <1>2, <1>3, <1>7, <2>1 DEF SweepMoves
  <2>2. CASE i.stage = "level_breached"
    <3> DEFINE k == Enter(i, "reclaim_confirmed", n)
    <3>1. n - i.sweep <= Window[f]["level_breached"]
      BY <2>0, <2>2 DEF Chained
    <3>2. /\ k.stage = "reclaim_confirmed" /\ k.at = n /\ k.sweep = i.sweep
          /\ k.after = i.after /\ k.created = i.created
      BY <1>0 DEF Enter
    <3>3. Good(k)
      <4> HIDE DEF k
      <4> QED  BY <3>1, <3>2, <1>7 DEF Chained
    <3> QED  BY <1>2, <1>7, <2>2, <3>3 DEF SweepMoves
  <2>3. CASE i.stage = "reclaim_confirmed"
    <3> DEFINE k == [Enter(i, "mss_confirmed", n) EXCEPT !.after = n]
    <3>1. n - i.sweep <= Window[f]["level_breached"] + Window[f]["reclaim_confirmed"]
      BY <1>0, <1>7, <2>0, <2>3, WindowTypes DEF Chained
    <3>2. /\ k.stage = "mss_confirmed" /\ k.at = n /\ k.sweep = i.sweep
          /\ k.after = n /\ k.created = i.created
      BY <1>0 DEF Enter
    <3>3. Good(k)
      <4> HIDE DEF k
      <4> QED  BY <3>1, <3>2, <1>7 DEF Chained
    <3> QED  BY <1>2, <1>7, <2>3, <3>3 DEF SweepMoves
  <2>4. CASE i.stage = "mss_confirmed"
    <3> DEFINE k == Enter(i, "displacement_confirmed", n)
    <3>1. n - i.sweep <= Window[f]["level_breached"] + Window[f]["reclaim_confirmed"]
                           + Window[f]["mss_confirmed"]
      BY <1>0, <1>7, <2>0, <2>4, WindowTypes DEF Chained
    <3>2. /\ k.stage = "displacement_confirmed" /\ k.at = n /\ k.sweep = i.sweep
          /\ k.after = i.after /\ k.created = i.created
      BY <1>0 DEF Enter
    <3>3. Good(k)
      <4> HIDE DEF k
      <4> QED  BY <3>1, <3>2, <1>7 DEF Chained
    <3>4. n - i.sweep <= Longest(f)
      BY <1>0, <1>7, <2>0, <3>1, WindowTypes
    <3>5. j \in {i, Idle, k} \/ j \in OrderMoves(i, n)
      BY <1>7, <2>4 DEF SweepMoves
    <3> QED  BY <1>1, <1>2, <1>5, <3>3, <3>4, <3>5
  <2>5. CASE i.stage = "displacement_confirmed"
    <3>1. n - i.sweep <= Longest(f)
      BY <1>0, <1>7, <2>0, <2>5, WindowTypes DEF Chained
    <3>2. j = i \/ j \in OrderMoves(i, n)
      BY <1>7, <2>5 DEF SweepMoves
    <3> QED  BY <1>2, <1>5, <3>1, <3>2
  <2>6. CASE i.stage \notin {"level_available", "level_breached", "reclaim_confirmed",
                             "mss_confirmed", "displacement_confirmed"}
    BY <1>2, <1>7, <2>6 DEF SweepMoves
  <2> QED  BY <2>1, <2>2, <2>3, <2>4, <2>5, <2>6
<1>8. ASSUME ~Overdue(f, i, n), f = "acceptance", j \in AcceptanceMoves(i, n) PROVE Good(j)
  <2>0. /\ i.stage \in {"level_breached", "acceptance_confirmed"}
              => n - i.at <= Window[f][i.stage]
        /\ Longest(f) = Window[f]["level_breached"] + Window[f]["acceptance_confirmed"]
    BY <1>4, <1>8 DEF Timed, Longest
  <2>1. CASE i.stage = "level_available"
    BY <1>2, <1>3, <1>8, <2>1 DEF AcceptanceMoves
  <2>2. CASE i.stage = "level_breached"
    <3> DEFINE k == Enter(i, "acceptance_confirmed", n)
    <3>1. n - i.sweep <= Window[f]["level_breached"]
      BY <2>0, <2>2 DEF Chained
    <3>2. /\ k.stage = "acceptance_confirmed" /\ k.at = n /\ k.sweep = i.sweep
          /\ k.after = i.after /\ k.created = i.created
      BY <1>0 DEF Enter
    <3>3. Good(k)
      <4> HIDE DEF k
      <4> QED  BY <3>1, <3>2, <1>8 DEF Chained
    <3>4. j = i \/ j = k
      BY <1>8, <2>2 DEF AcceptanceMoves
    <3> QED  BY <1>2, <3>3, <3>4
  <2>3. CASE i.stage = "acceptance_confirmed"
    <3>1. n - i.sweep <= Longest(f)
      BY <1>0, <1>8, <2>0, <2>3, WindowTypes DEF Chained
    <3>2. j \in {i, Idle} \/ j \in OrderMoves(i, n)
      BY <1>8, <2>3 DEF AcceptanceMoves
    <3> QED  BY <1>1, <1>2, <1>5, <3>1, <3>2
  <2>4. CASE i.stage \notin {"level_available", "level_breached", "acceptance_confirmed"}
    BY <1>2, <1>8, <2>4 DEF AcceptanceMoves
  <2> QED  BY <2>1, <2>2, <2>3, <2>4
<1>9. ASSUME ~Overdue(f, i, n), f = "opening_range", j \in OpeningMoves(i, l, b, n)
      PROVE  Good(j)
  <2>1. CASE i.stage = "range_complete"
    BY <1>1, <1>2, <1>3, <1>9, <2>1 DEF OpeningMoves
  <2>2. CASE i.stage = "breakout_confirmed"
    <3>1. n - i.at <= Window[f]["breakout_confirmed"] /\ Longest(f) = Window[f]["breakout_confirmed"]
      BY <1>4, <1>9, <2>2 DEF Timed, Longest
    <3>2. n - i.sweep <= Longest(f)
      BY <2>2, <3>1 DEF Chained
    <3>3. j = i \/ j \in OrderMoves(i, n)
      BY <1>9, <2>2 DEF OpeningMoves
    <3> QED  BY <1>2, <1>5, <3>2, <3>3
  <2>3. CASE i.stage \notin {"range_complete", "breakout_confirmed"}
    BY <1>2, <1>9, <2>3 DEF OpeningMoves
  <2> QED  BY <2>1, <2>2, <2>3
<1>10. \/ f = "sweep_reversal" /\ j \in SweepMoves(i, n)
       \/ f = "acceptance" /\ j \in AcceptanceMoves(i, n)
       \/ f = "opening_range" /\ j \in OpeningMoves(i, l, b, n)
       \/ Overdue(f, i, n) \/ (f = "opening_range" /\ past)
  BY DEF Advances, Families
<1>11. i.stage = "idle" => j.stage = "idle"
  BY <1>10 DEF SweepMoves, AcceptanceMoves, OpeningMoves, Advances, Idle
<1> HIDE DEF Good
<1>12. Good(j)
  BY <1>6, <1>7, <1>8, <1>9, <1>10
<1> QED  BY <1>11, <1>12 DEF Good

\* Instances are chained and, in the amended protocol, of the day of their
\* runtime.
ChainInv ==
    \A r \in Runtimes : \A l \in LevelsOf(r) :
        /\ Chained(family[r], inst[r][l])
        /\ inst[r][l].sweep <= bar
        /\ policy.inSession /\ inst[r][l].stage # "idle" => Day(inst[r][l].created) = day[r]

\* What a runtime's bar starts from.
LEMMA KnownChain ==
    ASSUME TypeInv, ChainInv, NEW r \in Runtimes, NEW l \in LevelsOf(r), NEW fits \in BOOLEAN
    PROVE  /\ Known(r, l, fits) \in Instance
           /\ Chained(family[r], Known(r, l, fits))
           /\ Known(r, l, fits).sweep <= bar
           /\ policy.inSession /\ Known(r, l, fits).stage # "idle"
                 => Day(Known(r, l, fits).created) = Day(now)
<1>0. bar \in Nat /\ now \in Nat /\ inst[r][l] \in Instance
  BY DEF TypeInv, TypeOK
<1>1. ASSUME NEW s \in {"range_complete", "level_available"}
      PROVE  /\ Registered(s, now) \in Instance
             /\ Chained(family[r], Registered(s, now))
             /\ Registered(s, now).sweep <= bar
             /\ Registered(s, now).created = now
  <2>1. Registered(s, now) \in Instance
    BY <1>0 DEF Registered, Idle, Instance, Stages
  <2>2. /\ Registered(s, now).stage = s /\ Registered(s, now).created = now
        /\ Registered(s, now).sweep = 0 /\ Registered(s, now).after = 0
    BY DEF Registered, Idle
  <2> QED  BY <1>0, <2>1, <2>2 DEF Chained
<1>2. /\ Idle \in Instance /\ Chained(family[r], Idle) /\ Idle.sweep <= bar
      /\ Idle.stage = "idle"
  BY <1>0 DEF Idle, Instance, Stages, Chained
<1>3. \/ Kept(r, l) = Idle
      \/ Kept(r, l) = inst[r][l] /\ (policy.inSession => day[r] = Day(now))
  BY DEF Kept, NewDay
<1>4. /\ Kept(r, l) \in Instance
      /\ Chained(family[r], Kept(r, l))
      /\ Kept(r, l).sweep <= bar
      /\ policy.inSession /\ Kept(r, l).stage # "idle" => Day(Kept(r, l).created) = Day(now)
  BY <1>0, <1>2, <1>3 DEF ChainInv
<1>5. \/ Known(r, l, fits) = Kept(r, l)
      \/ Known(r, l, fits) = Registered("range_complete", now)
      \/ Known(r, l, fits) = Registered("level_available", now)
  BY DEF Known
<1> QED  BY <1>1, <1>4, <1>5

\* A runtime's bar: its instances stay chained and its new orders are causal.
LEMMA BarChain ==
    ASSUME TypeInv, ChainInv, NEW r \in Runtimes, NEW fits \in BOOLEAN,
           NEW b \in {"none", "long", "short"}, NEW g \in NextInstances(r, fits, b),
           NEW l \in LevelsOf(r)
    PROVE  /\ Chained(family[r], g[l]) /\ g[l].sweep <= bar
           /\ policy.inSession /\ g[l].stage # "idle" => Day(g[l].created) = Day(now)
           /\ l \in Signals(r, fits, g) => Causal(family[r], g[l], bar)
<1> DEFINE past == Tick(now) >= Closing[Session[r]]
           i == Known(r, l, fits)
<1>1. past \in BOOLEAN /\ g[l] \in Advances(family[r], i, l, b, past, bar)
  BY DEF NextInstances
<1>2. bar \in Nat /\ family[r] \in Families
  BY EngineAssumption DEF TypeInv, TypeOK, Runtimes
<1>3. /\ i \in Instance /\ Chained(family[r], i) /\ i.sweep <= bar
      /\ policy.inSession /\ i.stage # "idle" => Day(i.created) = Day(now)
  BY KnownChain
<1>4. l \in Signals(r, fits, g) => g[l].stage = "order_pending" /\ i.stage # "order_pending"
  BY DEF Signals
<1> HIDE DEF past, i
<1>5. /\ Chained(family[r], g[l]) /\ g[l].sweep <= bar
      /\ g[l].stage = "idle" \/ g[l].created = i.created
      /\ i.stage = "idle" => g[l].stage = "idle"
      /\ g[l].stage = "order_pending" /\ i.stage # "order_pending"
            => Causal(family[r], g[l], bar)
  BY <1>1, <1>2, <1>3, AdvancesChain
<1> QED  BY <1>3, <1>4, <1>5

LEMMA ChainStep == TypeInv /\ ChainInv /\ [Next]_vars => ChainInv'
<1> SUFFICES ASSUME TypeInv, ChainInv, [Next]_vars PROVE ChainInv'
  OBVIOUS
<1>0. bar \in Nat /\ policy' = policy /\ family' = family /\ Runtimes' = Runtimes
      /\ \A r : LevelsOf(r)' = LevelsOf(r)
  BY SetupFixed DEF TypeInv, TypeOK, Runtimes, LevelsOf
<1>1. ASSUME NEW r \in Runtimes, OnBar(r) PROVE ChainInv'
  <2>1. PICK fits \in BOOLEAN, b \in {"none", "long", "short"} :
        \E g \in NextInstances(r, fits, b) : inst' = [inst EXCEPT ![r] = g]
    BY <1>1 DEF OnBar
  <2>2. PICK g \in NextInstances(r, fits, b) : inst' = [inst EXCEPT ![r] = g]
    BY <2>1
  <2>3. bar' = bar /\ day' = [day EXCEPT ![r] = Day(now)]
    BY <1>1 DEF OnBar, market
  <2>4. ASSUME NEW s \in Runtimes, NEW l \in LevelsOf(s)
        PROVE  /\ Chained(family[s], inst'[s][l])
               /\ inst'[s][l].sweep <= bar
               /\ policy.inSession /\ inst'[s][l].stage # "idle"
                     => Day(inst'[s][l].created) = day'[s]
    <3>1. CASE s = r
      <4>1. inst'[s][l] = g[l] /\ day'[s] = Day(now)
        BY <2>2, <2>3, <3>1 DEF TypeInv, TypeOK
      <4>2. l \in LevelsOf(r)
        BY <3>1
      <4>3. /\ Chained(family[r], g[l]) /\ g[l].sweep <= bar
            /\ policy.inSession /\ g[l].stage # "idle" => Day(g[l].created) = Day(now)
        BY <4>2, BarChain
      <4> QED  BY <3>1, <4>1, <4>3
    <3>2. CASE s # r
      <4>1. inst'[s] = inst[s] /\ day'[s] = day[s]
        BY <2>2, <2>3, <3>2 DEF TypeInv, TypeOK
      <4> QED  BY <4>1 DEF ChainInv
    <3> QED  BY <3>1, <3>2
  <2> QED  BY <1>0, <2>3, <2>4 DEF ChainInv
<1>2. ASSUME UNCHANGED <<inst, day>>, bar' \in Nat, bar <= bar' PROVE ChainInv'
  <2>1. ASSUME NEW r \in Runtimes, NEW l \in LevelsOf(r)
        PROVE  inst[r][l].sweep <= bar'
    <3>1. inst[r][l].sweep \in Nat /\ inst[r][l].sweep <= bar
      BY DEF ChainInv, TypeInv, TypeOK, Instance
    <3> QED  BY <1>0, <1>2, <3>1
  <2> QED  BY <1>0, <1>2, <2>1 DEF ChainInv
<1>3. CASE ~\E r \in Runtimes : OnBar(r)
  <2>1. UNCHANGED <<inst, day>> /\ (bar' = bar \/ bar' = bar + 1)
    BY <1>3 DEF Next, vars, setup, market, machine, ProcessExits, TouchOrders, RejectOverlap,
       FillOrder, AllFilled, ProcessTimeExits, NoTimeExits, ProcessSwap, SkipBar, NextBar,
       Finish, Terminated
  <2> QED  BY <1>0, <1>2, <2>1
<1> QED  BY <1>1, <1>3

\* An order rests on a sweep or break, a gap after it and no bar later than its
\* own, within the windows of its family, and in the amended protocol on levels
\* of its own day, for any windows, sessions, gaps and policies.
THEOREM SignalsAreCausal == Spec => SignalIsCausal
<1>1. Init => ChainInv
  BY DEF Init, ChainInv, Chained, Idle
<1>2. ASSUME TypeInv, ChainInv, [Next]_vars, NEW o \in orders' \ orders
      PROVE  LET i == inst'[o.rt][o.level] IN
               /\ i.sweep < i.at /\ i.at < bar
               /\ bar - i.sweep <= Longest(family[o.rt])
               /\ policy.inSession => Day(i.created) = Day(now)
  <2>1. PICK r \in Runtimes : OnBar(r)
    BY <1>2 DEF Next, vars, ProcessExits, TouchOrders, RejectOverlap, FillOrder, AllFilled,
       ProcessTimeExits, NoTimeExits, ProcessSwap, SkipBar, NextBar, Finish, Terminated
  <2>2. PICK fits \in BOOLEAN, b \in {"none", "long", "short"} :
        \E g \in NextInstances(r, fits, b) :
        \E A \in Acceptable(r, Signals(r, fits, g)) :
           /\ inst' = [inst EXCEPT ![r] = g]
           /\ orders' = orders \cup {NewOrder(r, l) : l \in A}
    BY <2>1 DEF OnBar
  <2>3. PICK g \in NextInstances(r, fits, b) :
        \E A \in Acceptable(r, Signals(r, fits, g)) :
           /\ inst' = [inst EXCEPT ![r] = g]
           /\ orders' = orders \cup {NewOrder(r, l) : l \in A}
    BY <2>2
  <2>4. PICK A \in Acceptable(r, Signals(r, fits, g)) :
           /\ inst' = [inst EXCEPT ![r] = g]
           /\ orders' = orders \cup {NewOrder(r, l) : l \in A}
    BY <2>3
  <2>5. PICK l \in A : o = NewOrder(r, l)
    BY <1>2, <2>4
  <2>6. l \in Signals(r, fits, g) /\ l \in LevelsOf(r) /\ g[l].stage # "idle"
    BY DEF Acceptable, Signals
  <2>7. o.rt = r /\ o.level = l /\ inst'[o.rt][o.level] = g[l]
    BY <1>2, <2>4, <2>5 DEF NewOrder, TypeInv, TypeOK
  <2>8. /\ Causal(family[r], g[l], bar)
        /\ policy.inSession => Day(g[l].created) = Day(now)
    BY <1>2, <2>6, BarChain
  <2> QED  BY <2>7, <2>8 DEF Causal
<1>3. TypeInv /\ ChainInv /\ [Next]_vars =>
         [ \A o \in orders' \ orders :
             LET i == inst'[o.rt][o.level] IN
               /\ i.sweep < i.at /\ i.at < bar
               /\ bar - i.sweep <= Longest(family[o.rt])
               /\ policy.inSession => Day(i.created) = Day(now) ]_vars
  BY <1>2
<1> QED  BY <1>1, <1>3, ChainStep, EngineTypeInit, EngineTypeStep, PTL DEF Spec, SignalIsCausal
===============================================================================
