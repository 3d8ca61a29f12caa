----------------------------- MODULE FeedProofs ------------------------------
(***************************************************************************)
(* LiveFeeds for any feeds, answers, batches and buffers: its types, the   *)
(* order of the bars in the buffers, what may be missing between two of    *)
(* them, and the loop's answer to a signal.                                *)
(***************************************************************************)
EXTENDS LiveFeeds, FiniteSetTheorems, SequenceTheorems, TLAPS

------------------------------------------------------------------------------
(* Bars in order.                                                           *)

Earlier(S, b) == {c \in S : c < b}

\* The place of a bar among others is the number of those before it: every
\* place is taken, once.
LEMMA PlaceFacts ==
    ASSUME NEW S \in SUBSET Nat, IsFiniteSet(S)
    PROVE  /\ Cardinality(S) \in Nat
           /\ \A b \in S : Cardinality(Earlier(S, b)) \in 0 .. Cardinality(S) - 1
           /\ \A b, c \in S : b < c => Cardinality(Earlier(S, b)) < Cardinality(Earlier(S, c))
           /\ \A i \in 1 .. Cardinality(S) : \E b \in S : Cardinality(Earlier(S, b)) = i - 1
<1> DEFINE n == Cardinality(S)
           place(b) == Cardinality(Earlier(S, b))
<1>1. n \in Nat
  BY FS_CardinalityType
<1>2. \A b \in S : /\ Earlier(S, b) \subseteq S /\ IsFiniteSet(Earlier(S, b))
                   /\ place(b) \in Nat
  BY FS_Subset, FS_CardinalityType DEF Earlier
<1>3. ASSUME NEW b \in S PROVE place(b) \in 0 .. n - 1
  <2>1. Earlier(S, b) # S /\ Earlier(S, b) \in SUBSET S
    BY DEF Earlier
  <2>2. place(b) <= n /\ place(b) # n
    BY <2>1, FS_Subset
  <2> QED  BY <1>1, <1>2, <2>2
<1>4. ASSUME NEW b \in S, NEW c \in S, b < c PROVE place(b) < place(c)
  <2>1. Earlier(S, b) \in SUBSET Earlier(S, c) /\ b \in Earlier(S, c) /\ b \notin Earlier(S, b)
    <3>1. b \in Nat /\ c \in Nat /\ S \subseteq Nat
      OBVIOUS
    <3>2. (\A d \in S : d < b => d < c) /\ ~(b < b)
      BY <3>1, <1>4
    <3> QED  BY <3>1, <3>2, <1>4 DEF Earlier
  <2>2. place(b) <= place(c) /\ place(b) # place(c)
    BY <1>2, <2>1, FS_Subset
  <2> QED  BY <1>2, <2>2
<1> DEFINE f == [b \in S |-> place(b) + 1]
<1>5. f \in [S -> 1 .. n]
  BY <1>1, <1>3
<1>6. \A b, c \in S : f[b] = f[c] => b = c
  <2> SUFFICES ASSUME NEW b \in S, NEW c \in S, b < c PROVE f[b] # f[c]
    OBVIOUS
  <2> QED  BY <1>2, <1>4
<1>7. f \in Surjection(S, 1 .. n)
  <2>1. f \in Injection(S, 1 .. n)
    BY <1>5, <1>6 DEF Injection, IsInjective
  <2>2. IsFiniteSet(1 .. n) /\ Cardinality(1 .. n) = n
    BY <1>1, FS_Interval
  <2> HIDE DEF f
  <2> QED  BY <2>1, <2>2, FS_Injection
<1>8. \A i \in 1 .. n : \E b \in S : place(b) = i - 1
  <2> SUFFICES ASSUME NEW i \in 1 .. n PROVE \E b \in S : place(b) = i - 1
    OBVIOUS
  <2>1. PICK b \in S : f[b] = i
    <3> HIDE DEF f
    <3> QED  BY <1>7 DEF Surjection
  <2> QED  BY <1>2, <2>1
<1> QED  BY <1>1, <1>3, <1>4, <1>8

\* InOrder lists the bars of a set from the oldest to the newest, each once.
LEMMA InOrderFacts ==
    ASSUME NEW S \in SUBSET Nat, IsFiniteSet(S)
    PROVE  /\ InOrder(S) \in Seq(S) /\ InOrder(S) \in Seq(Nat)
           /\ Len(InOrder(S)) = Cardinality(S)
           /\ \A i, j \in 1 .. Cardinality(S) : i < j => InOrder(S)[i] < InOrder(S)[j]
           /\ \A b \in S : \E i \in 1 .. Cardinality(S) : InOrder(S)[i] = b
<1> DEFINE n == Cardinality(S)
           s == InOrder(S)
           place(b) == Cardinality(Earlier(S, b))
<1>1. /\ n \in Nat
      /\ \A b \in S : place(b) \in 0 .. n - 1
      /\ \A b, c \in S : b < c => place(b) < place(c)
      /\ \A i \in 1 .. n : \E b \in S : place(b) = i - 1
  BY PlaceFacts
<1>2. \A i \in 1 .. n : s[i] \in S /\ place(s[i]) = i - 1
  <2> SUFFICES ASSUME NEW i \in 1 .. n PROVE s[i] \in S /\ place(s[i]) = i - 1
    OBVIOUS
  <2>1. s[i] = CHOOSE b \in S : place(b) = i - 1
    BY DEF InOrder, Earlier
  <2> HIDE DEF place, s
  <2> QED  BY <1>1, <2>1
<1> DEFINE g(i) == CHOOSE b \in S : Cardinality({c \in S : c < b}) = i - 1
<1>3. s = [i \in 1 .. n |-> g(i)]
  BY Zenon DEF InOrder
<1> HIDE DEF s, place, g
<1>4. s \in [1 .. n -> S]
  BY <1>2, <1>3
<1>5. s \in Seq(S) /\ Len(s) = n
  <2>1. s \in Seq(S)
    BY <1>1, <1>4, SeqDef
  <2> QED  BY <1>1, <1>4, <2>1, LenProperties
<1>6. \A i, j \in 1 .. n : i < j => s[i] < s[j]
  <2> SUFFICES ASSUME NEW i \in 1 .. n, NEW j \in 1 .. n, i < j PROVE s[i] < s[j]
    OBVIOUS
  <2>1. s[i] \in S /\ s[j] \in S /\ place(s[i]) = i - 1 /\ place(s[j]) = j - 1
    BY <1>2
  <2>2. i - 1 < j - 1 /\ i \in Nat /\ j \in Nat
    BY <1>1
  <2>3. s[i] # s[j]
    <3> SUFFICES ASSUME s[i] = s[j] PROVE FALSE
      OBVIOUS
    <3>1. i - 1 = j - 1
      BY <2>1
    <3> QED  BY <3>1, <2>2
  <2>4. ~(s[j] < s[i])
    <3> SUFFICES ASSUME s[j] < s[i] PROVE FALSE
      OBVIOUS
    <3>1. place(s[j]) < place(s[i])
      BY <1>1, <2>1
    <3>2. j - 1 < i - 1
      BY <3>1, <2>1
    <3> QED  BY <3>2, <2>2
  <2>5. s[i] \in Nat /\ s[j] \in Nat
    BY <2>1
  <2> QED  BY <2>3, <2>4, <2>5
<1>7. ASSUME NEW b \in S PROVE \E i \in 1 .. n : s[i] = b
  <2> DEFINE i == place(b) + 1
  <2>1. i \in 1 .. n /\ place(b) \in 0 .. n - 1
    BY <1>1
  <2>2. s[i] \in S /\ place(s[i]) = place(b)
    BY <1>2, <2>1
  <2>3. ~(place(b) < place(b))
    BY <2>1
  <2>4. ~(s[i] < b)
    <3> SUFFICES ASSUME s[i] < b PROVE FALSE
      OBVIOUS
    <3>1. place(s[i]) < place(b)
      BY <1>1, <2>2
    <3> QED  BY <3>1, <2>2, <2>3
  <2>5. ~(b < s[i])
    <3> SUFFICES ASSUME b < s[i] PROVE FALSE
      OBVIOUS
    <3>1. place(b) < place(s[i])
      BY <1>1, <2>2
    <3> QED  BY <3>1, <2>2, <2>3
  <2>6. s[i] \in Nat /\ b \in Nat
    BY <2>2
  <2>7. s[i] = b
    BY <2>4, <2>5, <2>6
  <2> QED  BY <2>1, <2>7
<1>8. s \in Seq(Nat)
  BY <1>5, SeqMonotonic
<1> QED  BY <1>5, <1>6, <1>7, <1>8 DEF s

\* What lies between 0 and the last bar is finite: the first and the last bar
\* of a set of bars exist.
LEMMA FirstAndLast ==
    ASSUME NEW S \in SUBSET Nat, IsFiniteSet(S), S # {}
    PROVE  /\ Min(S) \in S /\ \A b \in S : Min(S) <= b
           /\ Max(S) \in S /\ \A b \in S : Max(S) >= b
<1> DEFINE n == Cardinality(S)
           s == InOrder(S)
<1>1. /\ \A i, j \in 1 .. n : i < j => s[i] < s[j]
      /\ \A b \in S : \E i \in 1 .. n : s[i] = b
      /\ \A i \in 1 .. n : s[i] \in S
  BY InOrderFacts
<1>2. n \in Nat /\ n # 0
  BY FS_CardinalityType, FS_EmptySet
<1> HIDE DEF n, s
<1>3. \E m \in S : \A b \in S : m <= b
  <2>1. s[1] \in S /\ 1 \in 1 .. n
    BY <1>1, <1>2
  <2>2. ASSUME NEW b \in S PROVE s[1] <= b
    <3>1. PICK i \in 1 .. n : s[i] = b
      BY <1>1
    <3>2. CASE i = 1
      BY <2>1, <3>1, <3>2
    <3>3. CASE 1 < i
      <4>1. s[1] < s[i]
        BY <1>1, <2>1, <3>3
      <4>2. s[1] \in Nat /\ b \in Nat
        BY <2>1
      <4> QED  BY <3>1, <4>1, <4>2
    <3> QED  BY <1>2, <3>2, <3>3
  <2> QED  BY <2>1, <2>2
<1>4. \E m \in S : \A b \in S : m >= b
  <2>1. s[n] \in S /\ n \in 1 .. n
    BY <1>1, <1>2
  <2>2. ASSUME NEW b \in S PROVE s[n] >= b
    <3>1. PICK i \in 1 .. n : s[i] = b
      BY <1>1
    <3>2. CASE i = n
      BY <2>1, <3>1, <3>2
    <3>3. CASE i < n
      <4>1. s[i] < s[n]
        BY <1>1, <2>1, <3>3
      <4>2. s[n] \in Nat /\ b \in Nat
        BY <2>1
      <4> QED  BY <3>1, <4>1, <4>2
    <3> QED  BY <1>2, <3>2, <3>3
  <2> QED  BY <2>1, <2>2
<1>5. Min(S) \in S /\ \A b \in S : Min(S) <= b
  BY <1>3, Zenon DEF Min
<1>6. Max(S) \in S /\ \A b \in S : Max(S) >= b
  BY <1>4, Zenon DEF Max
<1> QED  BY <1>5, <1>6

\* Sets of bars up to the bound are finite sets of timestamps.
LEMMA BarSets ==
    ASSUME NEW S \in SUBSET (0 .. MaxTime)
    PROVE  S \in SUBSET Nat /\ IsFiniteSet(S)
<1>1. IsFiniteSet(0 .. MaxTime) /\ 0 .. MaxTime \subseteq Nat
  BY FeedsAssumption, FS_Interval
<1>2. IsFiniteSet(S)
  BY <1>1, FS_Subset
<1> QED  BY <1>1, <1>2

------------------------------------------------------------------------------
(* Buffers.                                                                 *)

\* The last bar of a series is the newest.
LEMMA LastIsNewest ==
    ASSUME NEW s \in Seq(Nat), Increasing(s), NEW i \in 1 .. Len(s)
    PROVE  LastOf(s) \in Nat /\ s[i] \in Nat /\ s[i] <= LastOf(s)
<1>1. Len(s) \in Nat /\ DOMAIN s = 1 .. Len(s) /\ Len(s) \in 1 .. Len(s)
  OBVIOUS
<1>2. s # <<>> /\ s[i] \in Nat /\ s[Len(s)] \in Nat
  BY <1>1, EmptySeq
<1>3. LastOf(s) = s[Len(s)]
  BY <1>2 DEF LastOf
<1>4. i < Len(s) => s[i] < s[Len(s)]
  BY <1>1 DEF Increasing
<1> QED  BY <1>1, <1>2, <1>3, <1>4

\* The newest bars of a series are a series: what a buffer drops is at its
\* front, and bars next to each other in the rest were so before.
LEMMA NewestOf ==
    ASSUME NEW t \in Seq(Nat), NEW r \in Seq(Nat), NEW k \in Nat,
           Len(r) = Len(t) - k, t = <<>> \/ k < Len(t),
           \A i \in 1 .. Len(r) : r[i] = t[i + k]
    PROVE  /\ LastOf(r) = LastOf(t)
           /\ Increasing(t) => Increasing(r)
           /\ \A i \in 2 .. Len(r) :
                \E j \in 2 .. Len(t) : r[i - 1] = t[j - 1] /\ r[i] = t[j]
<1>1. Len(t) \in Nat /\ Len(r) \in Nat /\ DOMAIN t = 1 .. Len(t) /\ DOMAIN r = 1 .. Len(r)
  OBVIOUS
<1>2. LastOf(r) = LastOf(t)
  <2>1. CASE t = <<>>
    <3>1. Len(t) = 0
      BY <2>1
    <3>2. Len(r) = 0
      BY <1>1, <3>1
    <3> QED  BY <2>1, <3>2, EmptySeq DEF LastOf
  <2>2. CASE t # <<>> /\ k < Len(t)
    <3>1. Len(r) \in 1 .. Len(r) /\ Len(r) + k = Len(t)
      BY <1>1, <2>2
    <3>2. r[Len(r)] = t[Len(r) + k]
      BY <3>1
    <3>3. r # <<>>
      BY <1>1, <3>1, EmptySeq
    <3> QED  BY <2>2, <3>1, <3>2, <3>3 DEF LastOf
  <2> QED  BY <2>1, <2>2
<1>3. ASSUME Increasing(t) PROVE Increasing(r)
  <2> SUFFICES ASSUME NEW i \in 1 .. Len(r), NEW j \in 1 .. Len(r), i < j PROVE r[i] < r[j]
    BY <1>1 DEF Increasing
  <2>1. i + k \in 1 .. Len(t) /\ j + k \in 1 .. Len(t) /\ i + k < j + k
    BY <1>1
  <2>2. t[i + k] < t[j + k]
    BY <1>1, <1>3, <2>1 DEF Increasing
  <2> QED  BY <2>2
<1>4. ASSUME NEW i \in 2 .. Len(r)
      PROVE  \E j \in 2 .. Len(t) : r[i - 1] = t[j - 1] /\ r[i] = t[j]
  <2>1. i + k \in 2 .. Len(t) /\ i \in 1 .. Len(r) /\ i - 1 \in 1 .. Len(r)
    BY <1>1
  <2>2. (i - 1) + k = (i + k) - 1
    BY <1>1
  <2> QED  BY <2>1, <2>2
<1> QED  BY <1>2, <1>3, <1>4

\* A buffer that takes one bar.
LEMMA AppendedFacts ==
    ASSUME NEW s \in Seq(Nat), NEW b \in Nat, NEW capacity \in Nat \ {0},
           Len(s) <= capacity
    PROVE  LET r == Appended(s, b, capacity) IN
           /\ r \in Seq(Nat) /\ Len(r) <= capacity /\ LastOf(r) = b
           /\ Increasing(s) /\ LastOf(s) < b => Increasing(r)
           /\ \A i \in 2 .. Len(r) :
                \/ \E j \in 2 .. Len(s) : r[i - 1] = s[j - 1] /\ r[i] = s[j]
                \/ s # <<>> /\ r[i - 1] = LastOf(s) /\ r[i] = b
<1> DEFINE r == Appended(s, b, capacity)
           t == Append(s, b)
<1>1. /\ t \in Seq(Nat) /\ Len(t) = Len(s) + 1 /\ t[Len(t)] = b
      /\ \A i \in 1 .. Len(s) : t[i] = s[i]
      /\ Len(s) \in Nat /\ DOMAIN t = 1 .. Len(t) /\ DOMAIN s = 1 .. Len(s)
  OBVIOUS
<1>2. LastOf(t) = b
  <2>1. Len(t) # 0
    BY <1>1
  <2>2. t # <<>>
    BY <2>1
  <2> QED  BY <1>1, <2>2 DEF LastOf
<1>3. ASSUME Increasing(s), LastOf(s) < b PROVE Increasing(t)
  <2> SUFFICES ASSUME NEW i \in 1 .. Len(t), NEW j \in 1 .. Len(t), i < j PROVE t[i] < t[j]
    BY <1>1 DEF Increasing
  <2>1. i \in 1 .. Len(s) /\ t[i] = s[i] /\ s[i] \in Nat
    BY <1>1
  <2>2. CASE j \in 1 .. Len(s)
    BY <1>1, <1>3, <2>1, <2>2 DEF Increasing
  <2>3. CASE j = Len(t)
    <3>1. s[i] <= LastOf(s) /\ LastOf(s) \in Nat
      BY <1>3, <2>1, LastIsNewest
    <3>2. t[j] = b
      BY <1>1, <2>3
    <3> QED  BY <1>3, <2>1, <3>1, <3>2
  <2> QED  BY <1>1, <2>2, <2>3
<1>4. ASSUME NEW i \in 2 .. Len(t)
      PROVE  \/ \E j \in 2 .. Len(s) : t[i - 1] = s[j - 1] /\ t[i] = s[j]
             \/ s # <<>> /\ t[i - 1] = LastOf(s) /\ t[i] = b
  <2>1. i - 1 \in 1 .. Len(s) /\ s # <<>>
    BY <1>1
  <2> HIDE DEF t, r
  <2>2. CASE i \in 2 .. Len(s)
    <3>1. i \in 1 .. Len(s) /\ \A x \in 1 .. Len(s) : t[x] = s[x]
      BY <1>1, <2>2
    <3>2. t[i - 1] = s[i - 1] /\ t[i] = s[i]
      BY <2>1, <3>1, Zenon
    <3> QED  BY <2>2, <3>2
  <2>3. CASE i = Len(t)
    <3>1. i - 1 = Len(s)
      BY <1>1, <2>3
    <3>2. t[i - 1] = s[Len(s)]
      BY <1>1, <2>1, <3>1
    <3> QED  BY <1>1, <2>1, <2>3, <3>2 DEF LastOf
  <2> QED  BY <1>1, <2>2, <2>3
<1>5. CASE Len(t) <= capacity
  <2>1. r = t
    BY <1>5 DEF Appended
  <2> HIDE DEF r, t
  <2> QED  BY <1>1, <1>2, <1>3, <1>4, <1>5, <2>1 DEF r
<1>6. CASE ~(Len(t) <= capacity)
  <2>1. r = Tail(t)
    BY <1>6 DEF Appended
  <2>2. t # <<>> /\ 1 < Len(t) /\ Len(t) = capacity + 1
    BY <1>1, <1>6
  <2>3. /\ r \in Seq(Nat) /\ Len(r) = Len(t) - 1
        /\ \A i \in 1 .. Len(r) : r[i] = t[i + 1]
        /\ 1 \in Nat
    <3> HIDE DEF t, r
    <3> QED  BY <1>1, <2>1, <2>2, HeadTailProperties
  <2> HIDE DEF r, t
  <2>4. /\ LastOf(r) = LastOf(t)
        /\ Increasing(t) => Increasing(r)
        /\ \A i \in 2 .. Len(r) :
             \E j \in 2 .. Len(t) : r[i - 1] = t[j - 1] /\ r[i] = t[j]
    <3>1. PICK k \in Nat : k = 1
      OBVIOUS
    <3>2. /\ Len(r) = Len(t) - k /\ k < Len(t)
          /\ \A i \in 1 .. Len(r) : r[i] = t[i + k]
      BY <2>2, <2>3, <3>1
    <3> QED  BY <1>1, <2>3, <3>2, NewestOf
  <2>5. Len(r) <= capacity
    BY <2>2, <2>3
  <2>6. ASSUME NEW i \in 2 .. Len(r)
        PROVE  \/ \E j \in 2 .. Len(s) : r[i - 1] = s[j - 1] /\ r[i] = s[j]
               \/ s # <<>> /\ r[i - 1] = LastOf(s) /\ r[i] = b
    <3>1. PICK j \in 2 .. Len(t) : r[i - 1] = t[j - 1] /\ r[i] = t[j]
      BY <2>4
    <3> QED  BY <1>4, <3>1
  <2> QED  BY <1>2, <1>3, <2>3, <2>4, <2>5, <2>6 DEF r
<1> QED  BY <1>5, <1>6

\* A buffer that takes the bars of an answer.
LEMMA AppendAllFacts ==
    ASSUME NEW s \in Seq(Nat), NEW S \in SUBSET Nat, IsFiniteSet(S),
           NEW capacity \in Nat \ {0}
    PROVE  LET r == AppendAll(s, S, capacity)
               t == s \o InOrder(S)
           IN  /\ r \in Seq(Nat) /\ Len(r) <= capacity /\ LastOf(r) = LastOf(t)
               /\ Increasing(s) /\ (\A b \in S : LastOf(s) < b) => Increasing(r)
               /\ \A i \in 2 .. Len(r) :
                    \E j \in 2 .. Len(t) : r[i - 1] = t[j - 1] /\ r[i] = t[j]
<1> DEFINE r == AppendAll(s, S, capacity)
           u == InOrder(S)
           t == s \o u
<1>1. /\ u \in Seq(Nat) /\ u \in Seq(S)
      /\ \A i, j \in 1 .. Len(u) : i < j => u[i] < u[j]
  BY InOrderFacts
<1> HIDE DEF u
<1>2. /\ t \in Seq(Nat) /\ Len(t) = Len(s) + Len(u)
      /\ \A i \in 1 .. Len(s) : t[i] = s[i]
      /\ \A i \in 1 .. Len(u) : t[Len(s) + i] = u[i]
      /\ Len(s) \in Nat /\ Len(u) \in Nat /\ DOMAIN t = 1 .. Len(t) /\ DOMAIN s = 1 .. Len(s)
  BY <1>1
<1>3. ASSUME Increasing(s), \A b \in S : LastOf(s) < b PROVE Increasing(t)
  <2> SUFFICES ASSUME NEW i \in 1 .. Len(t), NEW j \in 1 .. Len(t), i < j PROVE t[i] < t[j]
    BY <1>2 DEF Increasing
  <2> HIDE DEF t
  <2>1. CASE i \in 1 .. Len(s) /\ j \in 1 .. Len(s)
    BY <1>2, <1>3, <2>1 DEF Increasing
  <2>2. CASE i \notin 1 .. Len(s) /\ j \notin 1 .. Len(s)
    <3> DEFINE x == i - Len(s)
               y == j - Len(s)
    <3>1. x \in 1 .. Len(u) /\ y \in 1 .. Len(u) /\ x < y /\ Len(s) + x = i /\ Len(s) + y = j
      BY <1>2, <2>2
    <3> HIDE DEF x, y
    <3>2. t[i] = u[x] /\ t[j] = u[y]
      BY <1>2, <3>1
    <3> QED  BY <1>1, <3>1, <3>2
  <2>3. CASE i \in 1 .. Len(s) /\ j \notin 1 .. Len(s)
    <3> DEFINE y == j - Len(s)
    <3>1. y \in 1 .. Len(u) /\ Len(s) + y = j
      BY <1>2, <2>3
    <3> HIDE DEF y
    <3>2. t[i] = s[i] /\ t[j] = u[y] /\ u[y] \in S /\ s[i] \in Nat
      BY <1>1, <1>2, <2>3, <3>1
    <3>3. s[i] <= LastOf(s) /\ LastOf(s) \in Nat
      BY <1>3, <2>3, LastIsNewest
    <3>4. LastOf(s) < u[y] /\ u[y] \in Nat
      BY <1>3, <3>2
    <3> QED  BY <3>2, <3>3, <3>4
  <2>4. CASE i \notin 1 .. Len(s) /\ j \in 1 .. Len(s)
    BY <1>2, <2>4
  <2> QED  BY <2>1, <2>2, <2>3, <2>4
<1>4. CASE Len(t) <= capacity
  <2>1. r = t
    BY <1>4 DEF AppendAll, u
  <2> HIDE DEF r, t
  <2>2. \A i \in 2 .. Len(t) : \E j \in 2 .. Len(t) : t[i - 1] = t[j - 1] /\ t[i] = t[j]
    OBVIOUS
  <2> QED  BY <1>2, <1>3, <1>4, <2>1, <2>2 DEF r, t, u
<1>5. CASE ~(Len(t) <= capacity)
  <2> DEFINE k == Len(t) - capacity
  <2>1. r = SubSeq(t, k + 1, Len(t))
    BY <1>5 DEF AppendAll, u
  <2> HIDE DEF t, r
  <2>2. k \in Nat /\ k < Len(t) /\ k + 1 \in 1 .. Len(t) + 1 /\ Len(t) - k = capacity
    BY <1>2, <1>5
  <2>3. /\ r \in Seq(Nat) /\ Len(r) = Len(t) - k
        /\ \A i \in 1 .. Len(r) : r[i] = t[i + k]
    <3> HIDE DEF k
    <3>1. k + 1 \in Int /\ Len(t) \in Int /\ \A i \in k + 1 .. Len(t) : i \in DOMAIN t
      BY <1>2, <2>2
    <3>2. \A i \in k + 1 .. Len(t) : t[i] \in Nat
      BY <1>2, <3>1
    <3>3. /\ r \in Seq(Nat)
          /\ Len(r) = Len(t) - (k + 1) + 1
          /\ \A i \in 1 .. Len(t) - (k + 1) + 1 : r[i] = t[(k + 1) + i - 1]
      BY <1>2, <2>1, <2>2, <3>1, <3>2, SubSeqProperties
    <3>4. Len(t) - (k + 1) + 1 = Len(t) - k /\ \A i \in Int : (k + 1) + i - 1 = i + k
      BY <1>2, <2>2
    <3>5. Len(r) = Len(t) - k
      BY <3>3, <3>4
    <3>6. ASSUME NEW i \in 1 .. Len(r) PROVE r[i] = t[i + k]
      <4>1. (k + 1) + i - 1 = i + k /\ i \in 1 .. Len(t) - (k + 1) + 1
        BY <3>3, <3>4
      <4>2. r[i] = t[(k + 1) + i - 1]
        BY <3>3, <4>1
      <4> QED  BY <4>1, <4>2
    <3> QED  BY <3>3, <3>5, <3>6
  <2>4. Len(r) <= capacity
    BY <2>2, <2>3
  <2> HIDE DEF k
  <2>5. /\ LastOf(r) = LastOf(t)
        /\ Increasing(t) => Increasing(r)
        /\ \A i \in 2 .. Len(r) :
             \E j \in 2 .. Len(t) : r[i - 1] = t[j - 1] /\ r[i] = t[j]
    BY <1>2, <2>2, <2>3, NewestOf
  <2> QED  BY <1>3, <2>3, <2>4, <2>5 DEF r, t, u
<1> QED  BY <1>4, <1>5

\* A buffer filled from a history is its newest bars: what is missing between
\* two of them is what the history left out.
LEMMA HistoryFacts ==
    ASSUME NEW S \in SUBSET (0 .. MaxTime), NEW capacity \in Nat \ {0}
    PROVE  LET r == AppendAll(<<>>, S, capacity) IN
           /\ r \in Seq(Nat) /\ Len(r) <= capacity /\ Increasing(r)
           /\ LastOf(r) = IF S = {} THEN None ELSE Max(S)
           /\ \A i \in 2 .. Len(r) : \A b \in r[i - 1] + 1 .. r[i] - 1 : b \in Holes(S)
<1> DEFINE r == AppendAll(<<>>, S, capacity)
           n == Cardinality(S)
           u == InOrder(S)
<1>1. S \in SUBSET Nat /\ IsFiniteSet(S) /\ n \in Nat
  BY BarSets, FS_CardinalityType
<1>2. /\ u \in Seq(Nat) /\ Len(u) = n /\ (\A i \in 1 .. n : u[i] \in S)
      /\ \A i, j \in 1 .. n : i < j => u[i] < u[j]
      /\ \A b \in S : \E i \in 1 .. n : u[i] = b
  BY <1>1, InOrderFacts
<1> HIDE DEF u, n
<1>3. <<>> \o u = u /\ <<>> \in Seq(Nat) /\ Increasing(<<>>) /\ LastOf(<<>>) = -1
  BY <1>2 DEF Increasing, LastOf, None
<1>4. \A b \in S : LastOf(<<>>) < b
  BY <1>1, <1>3
<1>5. /\ r \in Seq(Nat) /\ Len(r) <= capacity /\ LastOf(r) = LastOf(u) /\ Increasing(r)
      /\ \A i \in 2 .. Len(r) :
           \E j \in 2 .. Len(u) : r[i - 1] = u[j - 1] /\ r[i] = u[j]
  <2>1. /\ r \in Seq(Nat) /\ Len(r) <= capacity
        /\ LastOf(r) = LastOf(<<>> \o InOrder(S)) /\ Increasing(r)
        /\ \A i \in 2 .. Len(r) : \E j \in 2 .. Len(<<>> \o InOrder(S)) :
             r[i - 1] = (<<>> \o InOrder(S))[j - 1] /\ r[i] = (<<>> \o InOrder(S))[j]
    BY <1>1, <1>3, <1>4, AppendAllFacts
  <2>2. <<>> \o InOrder(S) = u
    BY <1>3 DEF u
  <2> HIDE DEF r
  <2> QED  BY <2>1, <2>2
<1> HIDE DEF r
<1>6. LastOf(u) = IF S = {} THEN None ELSE Max(S)
  <2>1. CASE S = {}
    <3>1. Len(u) = 0
      BY <1>2, <2>1, FS_EmptySet DEF n
    <3> QED  BY <1>2, <2>1, <3>1, EmptySeq DEF LastOf
  <2>2. CASE S # {}
    <3>1. n # 0
      BY <1>1, <2>2, FS_EmptySet DEF n
    <3>2. n \in 1 .. n /\ u # <<>> /\ u[n] \in S
      BY <1>1, <1>2, <3>1
    <3>3. Max(S) \in S /\ \A b \in S : Max(S) >= b
      BY <1>1, <2>2, FirstAndLast
    <3>4. PICK i \in 1 .. n : u[i] = Max(S)
      BY <1>2, <3>3
    <3>5. CASE i < n
      <4>1. u[i] < u[n] /\ u[i] >= u[n] /\ u[i] \in Nat /\ u[n] \in Nat
        BY <1>1, <1>2, <3>2, <3>3, <3>4, <3>5
      <4> QED  BY <4>1
    <3>6. CASE i = n
      BY <1>2, <2>2, <3>2, <3>4, <3>6 DEF LastOf
    <3> QED  BY <1>1, <3>5, <3>6
  <2> QED  BY <2>1, <2>2
<1>7. ASSUME NEW i \in 2 .. Len(r), NEW b \in r[i - 1] + 1 .. r[i] - 1
      PROVE  b \in Holes(S)
  <2>1. PICK j \in 2 .. n : r[i - 1] = u[j - 1] /\ r[i] = u[j]
    BY <1>2, <1>5
  <2>2. j \in 1 .. n /\ j - 1 \in 1 .. n /\ j \in Nat
    BY <1>1
  <2> DEFINE x == u[j - 1]
             y == u[j]
  <2>3. x \in S /\ y \in S /\ x \in 0 .. MaxTime /\ y \in 0 .. MaxTime
    BY <1>2, <2>2
  <2>4. b \in x + 1 .. y - 1
    BY <2>1
  <2>5. ASSUME b \in S PROVE FALSE
    <3>1. PICK k \in 1 .. n : u[k] = b
      BY <1>2, <2>5
    <3> HIDE DEF x, y
    <3>2. x < b /\ b < y /\ ~(b < x) /\ ~(y < b) /\ b # x /\ b # y
      BY <2>3, <2>4
    <3>3. ~(k < j - 1) /\ k # j - 1 /\ ~(j < k) /\ k # j
      BY <1>2, <2>2, <3>1, <3>2 DEF x, y
    <3> QED  BY <1>1, <2>2, <3>3
  <2> HIDE DEF x, y
  <2>6. b \in 0 .. MaxTime /\ x < b /\ b < y
    BY <2>3, <2>4, FeedsAssumption
  <2> QED  BY <2>3, <2>5, <2>6 DEF Holes
<1> QED  BY <1>5, <1>6, <1>7 DEF r

------------------------------------------------------------------------------
(* The invariant.                                                           *)

\* The bar or bars that were polled and are not in the buffer yet.
Pending == batch \cup (IF pc \in {"sync", "bar"} THEN {cur} ELSE {})

Typed == TypeOK /\ batch \cup again \subseteq 0 .. MaxTime

\* The loop's last_ts is the newest bar of the buffer.  What is polled is later;
\* what a second file repeats is refused, as the bar it repeats was accepted.
OrderInv ==
    /\ LastOf(buf) = lastTs
    /\ Increasing(buf) /\ Increasing(hbuf)
    /\ pc = "poll" => batch = {} /\ again = {}
    /\ pc \in {"poll", "bars"} => accepted <= lastTs
    /\ pc = "bars" => \A b \in batch \cup again : b > lastTs \/ b <= accepted
    /\ pc \in {"sync", "bar"} =>
        cur > lastTs /\ accepted = cur /\ \A b \in batch \cup again : b >= cur

\* The newest bar the feed gave is in the buffer or on its way there, so that a
\* poll asks for every later one; from the buffer to a bar on its way none is
\* missing but what an answer left out.
GapInv ==
    /\ ltf.last <= lastTs \/ ltf.last \in Pending
    /\ \A b \in again \ batch : b <= accepted
    /\ Up => \A x \in Pending : \A b \in lastTs + 1 .. x : b \in Pending \cup unseen
    /\ NoneMissed

Inv == Typed /\ OrderInv /\ GapInv

\* A buffer's newest bar is a timestamp, or None when it is empty.
LEMMA LastType ==
    ASSUME NEW s \in Seq(Nat)
    PROVE  LastOf(s) \in Int /\ LastOf(s) >= -1
<1>1. CASE s = <<>>
  BY <1>1 DEF LastOf, None
<1>2. CASE s # <<>>
  <2>1. Len(s) \in 1 .. Len(s)
    BY <1>2, EmptySeq
  <2> QED  BY <1>2, <2>1 DEF LastOf
<1> QED  BY <1>1, <1>2

\* An answer holds bars up to the bound.
LEMMA AnswersType ==
    ASSUME NEW step, NEW back \in Nat, now \in 0 .. MaxTime, NEW S \in Answers(step, back)
    PROVE  S \in SUBSET (0 .. MaxTime)
<1>1. \A t : Complete(step, t, back) \subseteq 0 .. MaxTime
  BY FeedsAssumption DEF Complete
<1> QED  BY <1>1 DEF Answers

\* A feed that answered has given the newest bar of the answer.
LEMMA AnsweredFacts ==
    ASSUME NEW f \in Feed, NEW S \in SUBSET (0 .. MaxTime)
    PROVE  /\ Answered(f, S) \in Feed
           /\ Answered(f, S).last = IF S = {} THEN f.last ELSE Max(S)
           /\ S # {} => Max(S) \in S /\ \A b \in S : Max(S) >= b
<1>1. S # {} => Max(S) \in S /\ \A b \in S : Max(S) >= b
  BY BarSets, FirstAndLast
<1>2. Gave(f, S) \in Int
  <2>1. f.last \in Int
    BY DEF Feed
  <2>2. S # {} => Max(S) \in 0 .. MaxTime
    BY <1>1
  <2> QED  BY <2>1, <2>2 DEF Gave
<1> QED  BY <1>1, <1>2 DEF Answered, Gave, Feed

\* A feed whose poll failed, one that gave a bar and one that may poll again.
LEMMA FeedFacts ==
    ASSUME NEW f \in Feed
    PROVE  /\ Failed(f) \in Feed /\ Failed(f).last = f.last
           /\ [f EXCEPT !.due = TRUE] \in Feed /\ [f EXCEPT !.due = TRUE].last = f.last
           /\ [f EXCEPT !.due = TRUE].errors = f.errors
           /\ \A b \in Nat : [f EXCEPT !.last = b] \in Feed /\ [f EXCEPT !.last = b].last = b
<1> DEFINE e == IF f.errors <= MaxErrors THEN f.errors + 1 ELSE f.errors
           c == f.connected /\ f.errors < MaxErrors
<1>1. e \in Nat
  BY FeedsAssumption DEF Feed
<1>2. c \in BOOLEAN
  OBVIOUS
<1>3. Failed(f) = [f EXCEPT !.errors = e, !.connected = c, !.due = FALSE]
  BY DEF Failed
<1> HIDE DEF e, c
<1>4. Failed(f) \in Feed /\ Failed(f).last = f.last
  BY <1>1, <1>2, <1>3 DEF Feed
<1>5. \A b \in Nat : [f EXCEPT !.last = b] \in Feed /\ [f EXCEPT !.last = b].last = b
  BY DEF Feed
<1>6. /\ [f EXCEPT !.due = TRUE] \in Feed /\ [f EXCEPT !.due = TRUE].last = f.last
      /\ [f EXCEPT !.due = TRUE].errors = f.errors
  BY DEF Feed
<1> QED  BY <1>4, <1>5, <1>6

\* A session starts with the bars of the history, and the feed has given the
\* newest of them.
LEMMA BeginningFacts ==
    ASSUME now \in 0 .. MaxTime, NEW s \in Beginnings
    PROVE  /\ s.ltf \in Feed /\ s.htf \in Feed
           /\ s.bars \in SUBSET (0 .. MaxTime) /\ s.hbars \in SUBSET (0 .. MaxTime)
           /\ s.ltf.last = IF s.bars = {} THEN None ELSE Max(s.bars)
           /\ s.htf.last \in -1 .. MaxTime
           /\ s.ltf.errors = 0
<1>1. NewFeed \in Feed /\ NewFeed.last = None /\ NewFeed.errors = 0
  BY DEF NewFeed, Feed, None
<1>2. ASSUME NEW step, NEW h \in Histories(step)
      PROVE  /\ h.feed \in Feed /\ h.bars \in SUBSET (0 .. MaxTime)
             /\ h.feed.last = IF h.bars = {} THEN None ELSE Max(h.bars)
             /\ h.feed.errors = 0
  <2>1. CASE h = [feed |-> NewFeed, bars |-> {}]
    BY <1>1, <2>1
  <2>2. ASSUME NEW S \in Answers(step, History),
               h = [feed |-> Answered(NewFeed, S), bars |-> S]
        PROVE  /\ h.feed \in Feed /\ h.bars \in SUBSET (0 .. MaxTime)
               /\ h.feed.last = IF h.bars = {} THEN None ELSE Max(h.bars)
               /\ h.feed.errors = 0
    <3>1. S \in SUBSET (0 .. MaxTime)
      BY FeedsAssumption, AnswersType
    <3>2. h.feed = Answered(NewFeed, S) /\ h.bars = S
      BY <2>2
    <3>3. h.feed.errors = 0
      BY <3>2 DEF Answered
    <3> QED  BY <1>1, <3>1, <3>2, <3>3, AnsweredFacts
  <2> QED  BY <2>1, <2>2 DEF Histories
<1>3. ASSUME NEW f \in Feed
      PROVE  /\ [f EXCEPT !.due = TRUE] \in Feed /\ [f EXCEPT !.due = TRUE].last = f.last
             /\ [f EXCEPT !.due = TRUE].errors = f.errors
  BY FeedFacts
<1>4. CASE kind # "live"
  <2>1. NewFeed.last \in -1 .. MaxTime
    BY <1>1, FeedsAssumption DEF None
  <2> QED  BY <1>1, <1>4, <2>1 DEF Beginnings
<1>5. CASE kind = "live"
  <2>1. PICK l \in Histories(1), h \in Histories(Ratio) :
          s = [ltf |-> [l.feed EXCEPT !.due = TRUE], htf |-> [h.feed EXCEPT !.due = TRUE],
               bars |-> l.bars, hbars |-> IF l.bars = {} THEN {} ELSE h.bars]
    BY <1>5, SMT DEF Beginnings
  <2>2. /\ s.ltf = [l.feed EXCEPT !.due = TRUE] /\ s.htf = [h.feed EXCEPT !.due = TRUE]
        /\ s.bars = l.bars /\ s.hbars \in {{}, h.bars}
    BY <2>1
  <2>3. s.htf.last \in -1 .. MaxTime
    <3>1. h.bars \in SUBSET (0 .. MaxTime) /\ s.htf.last = h.feed.last
          /\ h.feed.last = IF h.bars = {} THEN None ELSE Max(h.bars)
      BY <1>2, <1>3, <2>2
    <3>2. h.bars # {} => Max(h.bars) \in 0 .. MaxTime
      BY <3>1, BarSets, FirstAndLast
    <3> QED  BY <3>1, <3>2, FeedsAssumption DEF None
  <2> QED  BY <1>2, <1>3, <2>2, <2>3
<1> QED  BY <1>4, <1>5

\* The buffers of a session that starts, and what the history left out.
LEMMA StartFacts ==
    ASSUME now \in 0 .. MaxTime, NEW s \in Beginnings,
           NEW b, b = AppendAll(<<>>, s.bars, Capacity),
           NEW h, h = AppendAll(<<>>, s.hbars, HtfCapacity)
    PROVE  /\ b \in Seq(Nat) /\ Len(b) <= Capacity /\ Increasing(b)
           /\ h \in Seq(Nat) /\ Len(h) <= HtfCapacity /\ Increasing(h)
           /\ s.ltf.last = LastOf(b) /\ LastOf(b) >= -1 /\ LastOf(b) \in Int
           /\ \A i \in 2 .. Len(b) : \A x \in b[i - 1] + 1 .. b[i] - 1 : x \in Holes(s.bars)
           /\ Holes(s.bars) \subseteq Nat
<1>1. /\ s.bars \in SUBSET (0 .. MaxTime) /\ s.hbars \in SUBSET (0 .. MaxTime)
      /\ s.ltf.last = IF s.bars = {} THEN None ELSE Max(s.bars)
  BY BeginningFacts
<1>2. /\ b \in Seq(Nat) /\ Len(b) <= Capacity /\ Increasing(b)
      /\ LastOf(b) = IF s.bars = {} THEN None ELSE Max(s.bars)
      /\ \A i \in 2 .. Len(b) : \A x \in b[i - 1] + 1 .. b[i] - 1 : x \in Holes(s.bars)
  BY <1>1, HistoryFacts, FeedsAssumption
<1>3. h \in Seq(Nat) /\ Len(h) <= HtfCapacity /\ Increasing(h)
  BY <1>1, HistoryFacts, FeedsAssumption
<1>4. Holes(s.bars) \subseteq Nat
  BY FeedsAssumption DEF Holes
<1> QED  BY <1>1, <1>2, <1>3, <1>4, LastType

------------------------------------------------------------------------------
(* The invariant holds.                                                     *)

LEMMA InitInv == Init => Inv
<1> SUFFICES ASSUME Init PROVE Inv
  OBVIOUS
<1> USE FeedsAssumption
<1>1. PICK s \in Beginnings :
        /\ ltf = s.ltf /\ htf = s.htf
        /\ buf = AppendAll(<<>>, s.bars, Capacity)
        /\ hbuf = AppendAll(<<>>, s.hbars, HtfCapacity)
        /\ unseen = Holes(s.bars)
  BY DEF Init
<1>2. now \in 0 .. MaxTime /\ kind \in Kinds
  BY DEF Init
<1>3. /\ buf \in Seq(Nat) /\ Len(buf) <= Capacity /\ Increasing(buf)
      /\ hbuf \in Seq(Nat) /\ Len(hbuf) <= HtfCapacity /\ Increasing(hbuf)
      /\ ltf.last = LastOf(buf) /\ LastOf(buf) >= -1 /\ LastOf(buf) \in Int
      /\ \A i \in 2 .. Len(buf) : \A x \in buf[i - 1] + 1 .. buf[i] - 1 : x \in unseen
      /\ unseen \subseteq Nat
  BY <1>1, <1>2, StartFacts
<1>4. ltf \in Feed /\ htf \in Feed
  BY <1>1, <1>2, BeginningFacts
<1>5. Typed
  BY <1>2, <1>3, <1>4 DEF Typed, TypeOK, Init, None
<1>6. OrderInv
  BY <1>3 DEF OrderInv, Init, None
<1>7. GapInv
  BY <1>3 DEF GapInv, NoneMissed, Pending, Init
<1> QED  BY <1>5, <1>6, <1>7 DEF Inv

LEMMA RestartInv == Inv /\ Restart => Inv'
<1> SUFFICES ASSUME Inv, Restart PROVE Inv'
  OBVIOUS
<1> USE FeedsAssumption
<1>1. PICK s \in Beginnings :
        /\ ltf' = s.ltf /\ htf' = s.htf
        /\ buf' = AppendAll(<<>>, s.bars, Capacity)
        /\ hbuf' = AppendAll(<<>>, s.hbars, HtfCapacity)
        /\ unseen' = Holes(s.bars)
  BY DEF Restart
<1>2. now \in 0 .. MaxTime /\ kind \in Kinds /\ restarts \in 0 .. MaxRestarts
  BY DEF Inv, Typed, TypeOK
<1>3. /\ buf' \in Seq(Nat) /\ Len(buf') <= Capacity /\ Increasing(buf')
      /\ hbuf' \in Seq(Nat) /\ Len(hbuf') <= HtfCapacity /\ Increasing(hbuf')
      /\ ltf'.last = LastOf(buf') /\ LastOf(buf') >= -1 /\ LastOf(buf') \in Int
      /\ \A i \in 2 .. Len(buf') : \A x \in buf'[i - 1] + 1 .. buf'[i] - 1 : x \in unseen'
      /\ unseen' \subseteq Nat
  BY <1>1, <1>2, StartFacts
<1>4. ltf' \in Feed /\ htf' \in Feed
  BY <1>1, <1>2, BeginningFacts
<1>5. Typed'
  BY <1>2, <1>3, <1>4 DEF Typed, TypeOK, Restart, None
<1>6. OrderInv'
  BY <1>3 DEF OrderInv, Restart, None, Increasing, LastOf
<1>7. GapInv'
  BY <1>3 DEF GapInv, NoneMissed, Pending, Restart, Increasing, LastOf
<1> QED  BY <1>5, <1>6, <1>7 DEF Inv

\* A poll asks for what is later than the newest bar of the buffer: the bars it
\* gives are all later, and every other bar up to the last of them is missing in
\* the answer.
LEMMA PollInv ==
    ASSUME Inv, pc = "poll", NEW S \in SUBSET (0 .. MaxTime)
    PROVE  LET new == NewIn(ltf, lastTs, S) IN
           /\ new \in SUBSET (0 .. MaxTime) /\ \A b \in new : b > lastTs
           /\ \A x \in new : \A b \in lastTs + 1 .. x : b \in new \/ b \notin S
           /\ batch = {} /\ again = {} /\ accepted <= lastTs /\ ltf.last <= lastTs
           /\ lastTs \in Int /\ lastTs >= -1 /\ ltf.last \in Int
<1>1. batch = {} /\ again = {} /\ accepted <= lastTs /\ ltf.last <= lastTs
  BY DEF Inv, OrderInv, GapInv, Pending
<1>2. lastTs \in Int /\ lastTs >= -1 /\ ltf.last \in Int
  BY LastType DEF Inv, Typed, TypeOK, OrderInv, Feed
<1>3. \A b \in S : b > lastTs => b > ltf.last
  BY <1>1, <1>2
<1> DEFINE new == NewIn(ltf, lastTs, S)
<1>4. new \in SUBSET (0 .. MaxTime) /\ \A b \in new : b > lastTs
  BY DEF NewIn
<1>5. ASSUME NEW x \in new, NEW b \in lastTs + 1 .. x PROVE b \in new \/ b \notin S
  <2>1. b > lastTs
    BY <1>2, <1>4
  <2> QED  BY <1>3, <2>1 DEF NewIn
<1> HIDE DEF new
<1> QED  BY <1>1, <1>2, <1>4, <1>5 DEF new

LEMMA PollAnsweredInv == Inv /\ PollAnswered => Inv'
<1> SUFFICES ASSUME Inv, PollAnswered PROVE Inv'
  OBVIOUS
<1> USE FeedsAssumption
<1>1. pc = "poll" /\ now \in 0 .. MaxTime /\ ltf \in Feed
  BY DEF PollAnswered, Polling, Inv, Typed, TypeOK
<1>2. PICK S \in Answers(1, Window) :
        /\ ltf' = Answered(ltf, NewIn(ltf, lastTs, S))
        /\ batch' = NewIn(ltf, lastTs, S)
        /\ unseen' = IF NewIn(ltf, lastTs, S) = {} THEN unseen
                     ELSE unseen \cup Skipped(S, NewIn(ltf, lastTs, S))
        /\ pc' = IF NewIn(ltf, lastTs, S) = {} THEN "poll" ELSE "bars"
  BY DEF PollAnswered
<1> DEFINE new == NewIn(ltf, lastTs, S)
<1>3. /\ new \in SUBSET (0 .. MaxTime) /\ \A b \in new : b > lastTs
      /\ \A x \in new : \A b \in lastTs + 1 .. x : b \in new \/ b \notin S
      /\ batch = {} /\ again = {} /\ accepted <= lastTs /\ ltf.last <= lastTs
      /\ lastTs \in Int /\ lastTs >= -1 /\ ltf.last \in Int
  <2>1. S \in SUBSET (0 .. MaxTime)
    BY <1>1, AnswersType
  <2> QED  BY <1>1, <2>1, PollInv
<1>4. /\ ltf' \in Feed /\ ltf'.last = IF new = {} THEN ltf.last ELSE Max(new)
      /\ new # {} => Max(new) \in new /\ \A b \in new : Max(new) >= b
  BY <1>1, <1>2, <1>3, AnsweredFacts
<1> HIDE DEF new
<1>5. UNCHANGED <<kind, now, htf, buf, hbuf, running, again, cur, lastTs, accepted, restarts, late>>
  BY DEF PollAnswered, bufs
<1>6. /\ unseen \subseteq unseen' /\ unseen' \subseteq Nat
      /\ \A x \in new : \A b \in lastTs + 1 .. x : b \in new \cup unseen'
  <2>1. CASE new = {}
    BY <1>2, <2>1 DEF new, Inv, Typed, TypeOK
  <2>2. CASE new # {}
    <3>1. unseen' = unseen \cup Skipped(S, new)
      BY <1>2, <2>2 DEF new
    <3>2. Max(new) \in Int
      <4>1. Max(new) \in 0 .. MaxTime
        BY <1>3, <1>4, <2>2
      <4> QED  BY <4>1
    <3>3. Skipped(S, new) \subseteq Nat
      BY <1>3, <3>2 DEF Skipped
    <3>4. ASSUME NEW x \in new, NEW b \in lastTs + 1 .. x, b \notin new
          PROVE  b \in Skipped(S, new)
      <4>1. b \notin S
        BY <1>3, <3>4
      <4>2. x \in Int /\ b \in Int /\ lastTs + 1 <= b /\ b <= x /\ x <= Max(new)
        BY <1>3, <1>4, <2>2
      <4> QED  BY <1>3, <3>2, <4>1, <4>2 DEF Skipped
    <3> QED  BY <3>1, <3>3, <3>4 DEF Inv, Typed, TypeOK
  <2> QED  BY <2>1, <2>2
<1>7. batch' = new /\ pc' \in {"poll", "bars"} /\ (pc' = "poll" => new = {})
  BY <1>2 DEF new
<1>8. Typed'
  BY <1>3, <1>4, <1>5, <1>6, <1>7 DEF Inv, Typed, TypeOK
<1>9. OrderInv'
  BY <1>3, <1>5, <1>7 DEF Inv, OrderInv, Increasing, LastOf
<1>10. GapInv'
  <2>1. ltf'.last <= lastTs \/ ltf'.last \in new
    BY <1>3, <1>4
  <2>2. Pending' = new
    BY <1>7 DEF Pending
  <2>3. NoneMissed'
    BY <1>5, <1>6 DEF Inv, GapInv, NoneMissed
  <2> QED  BY <1>3, <1>5, <1>6, <2>1, <2>2, <2>3 DEF GapInv
<1> QED  BY <1>8, <1>9, <1>10 DEF Inv

LEMMA PollReplayInv == Inv /\ PollReplay => Inv'
<1> SUFFICES ASSUME Inv, PollReplay PROVE Inv'
  OBVIOUS
<1> USE FeedsAssumption
<1> DEFINE left == NewIn(ltf, lastTs, FileBars(1))
<1>1. pc = "poll" /\ ltf \in Feed
  BY DEF PollReplay, Polling, Inv, Typed, TypeOK
<1>2. FileBars(1) = 0 .. MaxTime - 1
  BY DEF FileBars
<1>3. /\ left \in SUBSET (0 .. MaxTime) /\ \A b \in left : b > lastTs
      /\ \A x \in left : \A b \in lastTs + 1 .. x : b \in left \/ b \notin 0 .. MaxTime - 1
      /\ batch = {} /\ again = {} /\ accepted <= lastTs /\ ltf.last <= lastTs
      /\ lastTs \in Int /\ lastTs >= -1 /\ ltf.last \in Int
      /\ left \subseteq 0 .. MaxTime - 1
  <2>1. FileBars(1) \in SUBSET (0 .. MaxTime)
    BY <1>2
  <2>2. left \subseteq FileBars(1)
    BY DEF NewIn
  <2> HIDE DEF left
  <2> QED  BY <1>1, <1>2, <2>1, <2>2, PollInv DEF left
<1>4. UNCHANGED <<kind, now, htf, buf, hbuf, running, again, cur, lastTs, accepted,
                   restarts, unseen, late>>
  BY DEF PollReplay, bufs
<1>5. left # {} => Min(left) \in left /\ \A b \in left : Min(left) <= b
  BY <1>3, BarSets, FirstAndLast
<1>6. CASE left = {}
  <2>1. pc' = "ended" /\ UNCHANGED <<ltf, batch>>
    BY <1>6 DEF PollReplay
  <2>2. Typed'
    BY <1>4, <2>1 DEF Inv, Typed, TypeOK
  <2>3. OrderInv'
    BY <1>4, <2>1 DEF Inv, OrderInv, Increasing, LastOf
  <2>4. GapInv'
    BY <1>1, <1>3, <1>4, <2>1 DEF Inv, GapInv, NoneMissed, Pending, Up
  <2> QED  BY <2>2, <2>3, <2>4 DEF Inv
<1>7. CASE left # {}
  <2> DEFINE m == Min(left)
  <2>1. pc' = "bars" /\ batch' = {m} /\ ltf' = [ltf EXCEPT !.last = m]
    BY <1>7 DEF PollReplay
  <2>2. m \in left /\ m \in 0 .. MaxTime /\ m > lastTs /\ m \in Nat
    BY <1>3, <1>5, <1>7
  <2>3. \A b \in lastTs + 1 .. m : b = m
    <3> SUFFICES ASSUME NEW b \in lastTs + 1 .. m PROVE b = m
      OBVIOUS
    <3>1. b \in 0 .. MaxTime - 1
      BY <1>3, <2>2
    <3>2. b \in left
      BY <1>3, <2>2, <3>1
    <3> QED  BY <1>3, <1>5, <2>2, <3>2
  <2> HIDE DEF m, left
  <2>4. ltf' \in Feed /\ ltf'.last = m
    BY <1>1, <2>1, <2>2 DEF Feed
  <2>5. Typed'
    BY <1>3, <1>4, <2>1, <2>2, <2>4 DEF Inv, Typed, TypeOK
  <2>6. OrderInv'
    BY <1>3, <1>4, <2>1, <2>2 DEF Inv, OrderInv, Increasing, LastOf
  <2>7. Pending' = {m}
    BY <2>1 DEF Pending
  <2>8. NoneMissed'
    BY <1>4 DEF Inv, GapInv, NoneMissed
  <2>9. GapInv'
    BY <1>3, <1>4, <2>3, <2>4, <2>7, <2>8 DEF GapInv
  <2> QED  BY <2>5, <2>6, <2>9 DEF Inv
<1> QED  BY <1>6, <1>7

LEMMA PollFilesInv == Inv /\ PollFiles => Inv'
<1> SUFFICES ASSUME Inv, PollFiles PROVE Inv'
  OBVIOUS
<1> USE FeedsAssumption
<1>1. pc = "poll" /\ now \in 0 .. MaxTime
  BY DEF PollFiles, Polling, Inv, Typed, TypeOK
<1>2. PICK S \in SUBSET {b \in 0 .. now - 1 : b > lastTs} :
        \E A \in {{}} \cup {{b} : b \in S} :
          S # {} /\ batch' = S /\ again' = A /\ unseen' = unseen \cup Skipped(S, S)
  BY DEF PollFiles
<1>3. S \in SUBSET (0 .. MaxTime) /\ again' \subseteq S /\ \A b \in S : b > lastTs
  <2>1. 0 .. now - 1 \subseteq 0 .. MaxTime
    BY <1>1
  <2>2. again' \subseteq S
    BY <1>2
  <2> QED  BY <1>2, <2>1, <2>2
<1>4. /\ batch = {} /\ again = {} /\ accepted <= lastTs /\ ltf.last <= lastTs
      /\ lastTs \in Int /\ lastTs >= -1 /\ ltf.last \in Int
  <2>1. {} \in SUBSET (0 .. MaxTime)
    OBVIOUS
  <2> QED  BY <1>1, <2>1, PollInv
<1>5. Max(S) \in S /\ \A b \in S : Max(S) >= b
  BY <1>2, <1>3, BarSets, FirstAndLast
<1>6. pc' = "bars" /\ UNCHANGED <<kind, now, ltf, htf, buf, hbuf, running, cur, lastTs,
                                  accepted, restarts, late>>
  BY DEF PollFiles, feeds, bufs
<1>7. Max(S) \in Nat /\ Skipped(S, S) \subseteq Nat
  <2>1. Max(S) \in 0 .. MaxTime
    BY <1>3, <1>5
  <2> QED  BY <1>4, <2>1 DEF Skipped
<1>8. ASSUME NEW x \in S, NEW b \in lastTs + 1 .. x, b \notin S
      PROVE  b \in Skipped(S, S)
  <2>1. x \in Int /\ b \in Int /\ lastTs + 1 <= b /\ b <= x /\ x <= Max(S)
    BY <1>3, <1>4, <1>5
  <2> QED  BY <1>4, <1>7, <1>8, <2>1 DEF Skipped
<1>9. Typed'
  <2>1. batch' \cup again' \subseteq 0 .. MaxTime /\ unseen' \subseteq Nat
    BY <1>2, <1>3, <1>7 DEF Inv, Typed, TypeOK
  <2>2. batch' \subseteq Nat /\ again' \subseteq Nat
    BY <2>1
  <2> QED  BY <1>6, <2>1, <2>2 DEF Inv, Typed, TypeOK
<1>10. OrderInv'
  BY <1>2, <1>3, <1>4, <1>6 DEF Inv, OrderInv, Increasing, LastOf
<1>11. Pending' = S
  BY <1>2, <1>6 DEF Pending
<1>12. NoneMissed'
  BY <1>2, <1>6 DEF Inv, GapInv, NoneMissed
<1>13. GapInv'
  BY <1>2, <1>3, <1>4, <1>6, <1>8, <1>11, <1>12 DEF GapInv
<1> QED  BY <1>9, <1>10, <1>13 DEF Inv

\* The next bar of a batch is its earliest.
LEMMA NextBarFacts ==
    ASSUME Inv, batch \cup again # {}
    PROVE  /\ NextBar \in batch \cup again /\ NextBar \in 0 .. MaxTime
           /\ \A b \in batch \cup again : NextBar <= b
<1>1. batch \cup again \in SUBSET (0 .. MaxTime)
  BY DEF Inv, Typed
<1>2. batch \cup again \in SUBSET Nat /\ IsFiniteSet(batch \cup again)
  BY <1>1, BarSets
<1>3. NextBar \in batch \cup again /\ \A b \in batch \cup again : NextBar <= b
  BY <1>2, FirstAndLast DEF NextBar
<1> QED  BY <1>1, <1>3

LEMMA RefuseInv == Inv /\ Refuse => Inv'
<1> SUFFICES ASSUME Inv, Refuse PROVE Inv'
  OBVIOUS
<1> DEFINE n == NextBar
<1>1. /\ n \in batch \cup again /\ n \in 0 .. MaxTime
      /\ \A b \in batch \cup again : n <= b
      /\ n <= accepted /\ pc = "bars"
  BY NextBarFacts DEF Refuse
<1>2. /\ batch' = batch \ {n}
      /\ again' = IF n \in batch THEN again ELSE again \ {n}
  BY DEF Refuse, Taken
<1> HIDE DEF n
<1>3. UNCHANGED <<kind, now, ltf, htf, buf, hbuf, pc, running, cur, lastTs, accepted,
                   restarts, unseen, late>>
  BY DEF Refuse, feeds, bufs
<1>4. /\ accepted <= lastTs /\ lastTs \in Int /\ accepted \in Int /\ ltf.last \in Int
      /\ batch \subseteq 0 .. MaxTime
  BY <1>1 DEF Inv, Typed, TypeOK, OrderInv, Feed
<1>5. n <= lastTs /\ n \in Int
  BY <1>1, <1>4
<1>6. Pending = batch /\ Pending' = batch \ {n}
  BY <1>1, <1>2, <1>3 DEF Pending
<1>7. Typed'
  BY <1>2, <1>3 DEF Inv, Typed, TypeOK
<1>8. OrderInv'
  BY <1>1, <1>2, <1>3 DEF Inv, OrderInv, Increasing, LastOf
<1>9. GapInv'
  <2>1. ltf.last <= lastTs \/ ltf.last \in Pending'
    BY <1>5, <1>6 DEF Inv, GapInv
  <2>2. \A b \in again' \ batch' : b <= accepted
    BY <1>1, <1>2 DEF Inv, GapInv
  <2>3. \A x \in Pending' : \A b \in lastTs + 1 .. x : b \in Pending' \cup unseen
    <3> SUFFICES ASSUME NEW x \in batch, NEW b \in lastTs + 1 .. x
                 PROVE  b \in (batch \ {n}) \cup unseen
      BY <1>6
    <3>1. b \in batch \cup unseen
      BY <1>1, <1>6 DEF Inv, GapInv, Up
    <3>2. b # n
      BY <1>4, <1>5
    <3> QED  BY <3>1, <3>2
  <2>4. NoneMissed'
    BY <1>3 DEF Inv, GapInv, NoneMissed
  <2> QED  BY <1>3, <2>1, <2>2, <2>3, <2>4 DEF GapInv
<1> QED  BY <1>7, <1>8, <1>9 DEF Inv

LEMMA AcceptInv == Inv /\ Accept => Inv'
<1> SUFFICES ASSUME Inv, Accept PROVE Inv'
  OBVIOUS
<1> DEFINE n == NextBar
<1>1. /\ n \in batch \cup again /\ n \in 0 .. MaxTime
      /\ \A b \in batch \cup again : n <= b
      /\ n > accepted /\ pc = "bars"
  BY NextBarFacts DEF Accept
<1>2. /\ batch' = batch \ {n}
      /\ again' = IF n \in batch THEN again ELSE again \ {n}
      /\ accepted' = n /\ cur' = n /\ pc' = "sync"
  BY DEF Accept, Taken
<1> HIDE DEF n
<1>3. UNCHANGED <<kind, now, ltf, htf, buf, hbuf, running, lastTs, restarts, unseen, late>>
  BY DEF Accept, feeds, bufs
<1>4. lastTs \in Int /\ accepted \in Int /\ n \in Int /\ ~(n <= accepted)
  BY <1>1 DEF Inv, Typed, TypeOK
<1>5. n > lastTs /\ n \in batch
  BY <1>1, <1>4 DEF Inv, OrderInv, GapInv
<1>6. Pending = batch /\ Pending' = batch
  BY <1>1, <1>2, <1>5 DEF Pending
<1>7. Typed'
  BY <1>1, <1>2, <1>3 DEF Inv, Typed, TypeOK
<1>8. OrderInv'
  <2>1. again' = again
    BY <1>2, <1>5
  <2>2. \A b \in batch' \cup again' : b >= n
    BY <1>1, <1>2, <1>4, <2>1 DEF Inv, Typed
  <2> QED  BY <1>2, <1>3, <1>5, <2>2 DEF Inv, OrderInv, Increasing, LastOf
<1>9. GapInv'
  <2>1. \A b \in again' \ batch' : b <= n
    <3> SUFFICES ASSUME NEW b \in again \ batch PROVE b <= n
      BY <1>2, <1>4, <1>5
    <3>1. b <= accepted /\ b \in 0 .. MaxTime
      BY DEF Inv, GapInv, Typed
    <3> QED  BY <1>1, <1>4, <3>1
  <2>2. NoneMissed'
    BY <1>3 DEF Inv, GapInv, NoneMissed
  <2> QED  BY <1>1, <1>2, <1>3, <1>6, <2>1, <2>2 DEF Inv, GapInv, Up
<1> QED  BY <1>7, <1>8, <1>9 DEF Inv

LEMMA ProcessBarInv == Inv /\ ProcessBar => Inv'
<1> SUFFICES ASSUME Inv, ProcessBar PROVE Inv'
  OBVIOUS
<1> USE FeedsAssumption
<1>1. /\ pc = "bar" /\ buf' = Appended(buf, cur, Capacity) /\ lastTs' = cur
      /\ late' \in Nat /\ pc' \in {"bars", "ended"}
  BY DEF ProcessBar, AfterBar, Inv, Typed, TypeOK
<1>2. UNCHANGED <<kind, now, ltf, htf, hbuf, running, batch, again, cur, accepted,
                   restarts, unseen>>
  BY DEF ProcessBar, feeds
<1>3. /\ cur > lastTs /\ accepted = cur /\ (\A b \in batch \cup again : b >= cur)
      /\ LastOf(buf) = lastTs /\ Increasing(buf) /\ Increasing(hbuf)
  BY <1>1 DEF Inv, OrderInv
<1>4. /\ buf \in Seq(Nat) /\ Len(buf) <= Capacity /\ cur \in Int /\ lastTs \in Int
      /\ batch \cup again \subseteq 0 .. MaxTime /\ ltf.last \in Int
  BY DEF Inv, Typed, TypeOK, Feed
<1>5. lastTs >= -1 /\ cur \in Nat
  BY <1>3, <1>4, LastType
<1>6. /\ buf' \in Seq(Nat) /\ Len(buf') <= Capacity /\ LastOf(buf') = cur /\ Increasing(buf')
      /\ \A i \in 2 .. Len(buf') :
           \/ \E j \in 2 .. Len(buf) : buf'[i - 1] = buf[j - 1] /\ buf'[i] = buf[j]
           \/ buf # <<>> /\ buf'[i - 1] = LastOf(buf) /\ buf'[i] = cur
  <2> DEFINE r == Appended(buf, cur, Capacity)
  <2>1. /\ r \in Seq(Nat) /\ Len(r) <= Capacity /\ LastOf(r) = cur
        /\ Increasing(buf) /\ LastOf(buf) < cur => Increasing(r)
        /\ \A i \in 2 .. Len(r) :
             \/ \E j \in 2 .. Len(buf) : r[i - 1] = buf[j - 1] /\ r[i] = buf[j]
             \/ buf # <<>> /\ r[i - 1] = LastOf(buf) /\ r[i] = cur
    BY <1>4, <1>5, AppendedFacts
  <2>2. LastOf(buf) < cur
    BY <1>3, <1>4
  <2> HIDE DEF r
  <2>3. buf' = r
    BY <1>1 DEF r
  <2> QED  BY <1>3, <2>1, <2>2, <2>3
<1>7. Pending = batch \cup {cur} /\ Pending' = batch
  BY <1>1, <1>2 DEF Pending
<1>8. \A x \in batch \cup {cur} : \A b \in lastTs + 1 .. x : b \in batch \cup {cur} \cup unseen
  BY <1>1, <1>7 DEF Inv, GapInv, Up
<1>9. Typed'
  BY <1>1, <1>2, <1>6 DEF Inv, Typed, TypeOK
<1>10. OrderInv'
  BY <1>1, <1>2, <1>3, <1>4, <1>6 DEF OrderInv, Increasing
<1>11. GapInv'
  <2>1. ltf.last <= cur \/ ltf.last \in batch
    <3>1. ltf.last <= lastTs \/ ltf.last = cur \/ ltf.last \in batch
      BY <1>7 DEF Inv, GapInv
    <3> QED  BY <1>3, <1>4, <3>1
  <2>2. \A x \in batch : \A b \in cur + 1 .. x : b \in batch \cup unseen
    <3> SUFFICES ASSUME NEW x \in batch, NEW b \in cur + 1 .. x PROVE b \in batch \cup unseen
      OBVIOUS
    <3>1. x \in Int
      BY <1>4
    <3>2. b \in lastTs + 1 .. x /\ b # cur
      BY <1>3, <1>4, <3>1
    <3> QED  BY <1>8, <3>2
  <2>3. NoneMissed'
    <3> SUFFICES ASSUME NEW i \in 2 .. Len(buf'), NEW b \in buf'[i - 1] + 1 .. buf'[i] - 1
                 PROVE  b \in unseen
      BY <1>2 DEF NoneMissed
    <3>1. CASE \E j \in 2 .. Len(buf) : buf'[i - 1] = buf[j - 1] /\ buf'[i] = buf[j]
      BY <3>1 DEF Inv, GapInv, NoneMissed
    <3>2. CASE buf'[i - 1] = LastOf(buf) /\ buf'[i] = cur
      <4>1. b \in lastTs + 1 .. cur - 1
        BY <1>3, <3>2
      <4>2. b \in lastTs + 1 .. cur /\ b # cur /\ ~(b >= cur)
        BY <1>4, <4>1
      <4> QED  BY <1>3, <1>8, <4>2
    <3> QED  BY <1>6, <3>1, <3>2
  <2> QED  BY <1>1, <1>2, <1>7, <2>1, <2>2, <2>3 DEF Inv, GapInv, Up
<1> QED  BY <1>9, <1>10, <1>11 DEF Inv

\* A step that takes bars into the HTF buffer keeps the rest.
LEMMA HtfStep ==
    ASSUME Inv, pc = "sync", pc' \in {"sync", "bar"},
           htf' \in Feed, hbuf' \in Seq(Nat), Len(hbuf') <= HtfCapacity, Increasing(hbuf)',
           UNCHANGED <<kind, now, ltf, buf, running, loop, restarts, unseen, late>>
    PROVE  Inv'
<1>1. Typed'
  BY DEF Inv, Typed, TypeOK, loop
<1>2. OrderInv'
  BY DEF Inv, OrderInv, Increasing, LastOf, loop
<1>3. GapInv'
  BY DEF Inv, GapInv, NoneMissed, Pending, Up, loop
<1> QED  BY <1>1, <1>2, <1>3 DEF Inv

LEMMA SyncInv == Inv /\ (SyncAnswered \/ SyncFailed \/ SyncReplay \/ NoSync) => Inv'
<1> SUFFICES ASSUME Inv, SyncAnswered \/ SyncFailed \/ SyncReplay \/ NoSync PROVE Inv'
  OBVIOUS
<1> USE FeedsAssumption
<1>1. /\ hbuf \in Seq(Nat) /\ Len(hbuf) <= HtfCapacity /\ Increasing(hbuf) /\ htf \in Feed
      /\ now \in 0 .. MaxTime
  BY DEF Inv, Typed, TypeOK, OrderInv
<1>2. CASE SyncAnswered
  <2>1. PICK S \in Answers(Ratio, Window) :
          /\ htf' = Answered(htf, NewIn(htf, LastOf(hbuf), S))
          /\ hbuf' = AppendAll(hbuf, Kept(NewIn(htf, LastOf(hbuf), S)), HtfCapacity)
          /\ pc' \in {"sync", "bar"}
    BY <1>2 DEF SyncAnswered
  <2> DEFINE new == NewIn(htf, LastOf(hbuf), S)
  <2>2. S \in SUBSET (0 .. MaxTime)
    BY <1>1, AnswersType
  <2>3. new \in SUBSET (0 .. MaxTime) /\ \A b \in new : LastOf(hbuf) < b
    <3>1. LastOf(hbuf) \in Int
      BY <1>1, LastType
    <3> QED  BY <2>2, <3>1 DEF NewIn
  <2> HIDE DEF new
  <2>4. Kept(new) \subseteq new
    BY DEF Kept
  <2>5. Kept(new) \in SUBSET Nat /\ IsFiniteSet(Kept(new))
    BY <2>3, <2>4, BarSets
  <2>6. hbuf' \in Seq(Nat) /\ Len(hbuf') <= HtfCapacity /\ Increasing(hbuf')
    BY <1>1, <2>1, <2>3, <2>4, <2>5, AppendAllFacts DEF new
  <2>7. htf' \in Feed
    BY <1>1, <2>1, <2>3, AnsweredFacts DEF new
  <2> QED  BY <1>2, <2>1, <2>6, <2>7, HtfStep DEF SyncAnswered, Increasing
<1>3. CASE SyncFailed
  <2>1. htf' \in Feed
    BY <1>1, <1>3, FeedFacts DEF SyncFailed
  <2> QED  BY <1>1, <1>3, <2>1, HtfStep DEF SyncFailed, Increasing, bufs
<1>4. CASE SyncReplay
  <2> DEFINE h == Min(HtfLeft)
  <2>1. /\ htf' = [htf EXCEPT !.last = h] /\ hbuf' = Appended(hbuf, h, HtfCapacity)
        /\ pc' \in {"sync", "bar"} /\ HtfLeft # {}
    BY <1>4 DEF SyncReplay
  <2>2. HtfLeft \in SUBSET (0 .. MaxTime)
    BY DEF HtfLeft, NewIn, FileBars
  <2>3. h \in HtfLeft
    BY <2>1, <2>2, BarSets, FirstAndLast
  <2>4. h \in Nat /\ LastOf(hbuf) < h
    <3>1. h \in Nat /\ h > LastOf(hbuf)
      BY <2>2, <2>3 DEF HtfLeft, NewIn
    <3>2. LastOf(hbuf) \in Int
      BY <1>1, LastType
    <3> QED  BY <3>1, <3>2
  <2> HIDE DEF h
  <2>5. hbuf' \in Seq(Nat) /\ Len(hbuf') <= HtfCapacity /\ Increasing(hbuf')
    BY <1>1, <2>1, <2>4, AppendedFacts
  <2>6. htf' \in Feed
    BY <1>1, <2>1, <2>4, FeedFacts
  <2> QED  BY <1>4, <2>1, <2>5, <2>6, HtfStep DEF SyncReplay, Increasing
<1>5. CASE NoSync
  BY <1>1, <1>5, HtfStep DEF NoSync, Increasing, bufs, feeds
<1> QED  BY <1>2, <1>3, <1>4, <1>5

\* The steps that touch neither buffers nor batches.
LEMMA OtherInv ==
    ASSUME Inv,
           \/ PollFailed \/ FilesGone \/ BatchDone \/ Leave
           \/ Signal \/ BarCompletes \/ Elapse \/ UNCHANGED vars
    PROVE  Inv'
<1> USE FeedsAssumption
<1>1. /\ ltf' \in Feed /\ htf' \in Feed /\ ltf'.last = ltf.last /\ now' \in 0 .. MaxTime
      /\ running' \in BOOLEAN /\ pc' \in {"poll", "bars", "sync", "bar", "ended", "down"}
      /\ pc' = pc \/ pc' = "ended" \/ (pc = "bars" /\ pc' = "poll" /\ batch \cup again = {})
      /\ pc' = "ended" => pc \in {"poll", "ended"}
      /\ UNCHANGED <<kind, buf, hbuf, loop, restarts, unseen, late>>
  <2>1. ltf \in Feed /\ htf \in Feed /\ now \in 0 .. MaxTime /\ running \in BOOLEAN
        /\ pc \in {"poll", "bars", "sync", "bar", "ended", "down"}
    BY DEF Inv, Typed, TypeOK
  <2>2. CASE PollFailed
    <3>1. /\ ltf' = Failed(ltf) /\ pc = "poll" /\ pc' \in {"poll", "ended"}
          /\ UNCHANGED <<kind, now, htf, buf, hbuf, running, loop, restarts, unseen, late>>
      BY <2>2 DEF PollFailed, Polling, bufs
    <3> QED  BY <2>1, <3>1, FeedFacts
  <2>3. CASE FilesGone \/ BatchDone \/ Leave
    BY <2>1, <2>3 DEF FilesGone, Polling, BatchDone, Leave, feeds, bufs
  <2>4. CASE Signal \/ BarCompletes
    <3>1. now' = now \/ (now < MaxTime /\ now' = now + 1)
      BY <2>4 DEF Signal, BarCompletes
    <3>2. running' = running \/ running' = FALSE
      BY <2>4 DEF Signal, BarCompletes
    <3>3. now' \in 0 .. MaxTime
      BY <2>1, <3>1
    <3>4. running' \in BOOLEAN
      BY <2>1, <3>2
    <3>5. UNCHANGED <<kind, ltf, htf, buf, hbuf, pc, loop, restarts, unseen, late>>
      BY <2>4 DEF Signal, BarCompletes, feeds, bufs
    <3> QED  BY <2>1, <3>3, <3>4, <3>5
  <2>5. CASE Elapse
    <3>1. UNCHANGED <<kind, now, buf, hbuf, pc, running, loop, restarts, unseen, late>>
      BY <2>5 DEF Elapse, bufs
    <3>2. \/ ltf' = [ltf EXCEPT !.due = TRUE] /\ htf' = htf
          \/ htf' = [htf EXCEPT !.due = TRUE] /\ ltf' = ltf
      BY <2>5 DEF Elapse
    <3>3. ltf' \in Feed /\ htf' \in Feed /\ ltf'.last = ltf.last
      BY <2>1, <3>2, FeedFacts
    <3> QED  BY <2>1, <3>1, <3>3
  <2>6. CASE UNCHANGED vars
    BY <2>1, <2>6 DEF vars, feeds, bufs
  <2> QED  BY <2>2, <2>3, <2>4, <2>5, <2>6
<1>2. Typed'
  BY <1>1 DEF Inv, Typed, TypeOK, loop
<1>3. OrderInv'
  BY <1>1 DEF Inv, OrderInv, Increasing, LastOf, loop
<1>4. GapInv'
  <2>1. Pending' = Pending
    BY <1>1 DEF Pending, loop
  <2>2. NoneMissed'
    BY <1>1 DEF Inv, GapInv, NoneMissed
  <2>3. Up' => Up
    BY <1>1 DEF Up
  <2> QED  BY <1>1, <2>1, <2>2, <2>3 DEF Inv, GapInv, loop
<1> QED  BY <1>2, <1>3, <1>4 DEF Inv

LEMMA DieInv == Inv /\ Die => Inv'
<1> SUFFICES ASSUME Inv, Die PROVE Inv'
  OBVIOUS
<1>1. NewFeed \in Feed /\ NewFeed.last = None
  BY DEF NewFeed, Feed, None
<1>2. /\ pc' = "down" /\ buf' = <<>> /\ hbuf' = <<>> /\ batch' = {} /\ again' = {}
      /\ ltf' = NewFeed /\ htf' = NewFeed /\ lastTs' = None /\ accepted' = None /\ cur' = None
      /\ running' = FALSE /\ unseen' = {} /\ late' = 0 /\ UNCHANGED <<kind, now, restarts>>
  BY DEF Die
<1>3. <<>> \in Seq(Nat) /\ Len(<<>>) = 0
  BY EmptySeq
<1>4. Typed'
  <2>1. /\ <<>> \in Seq(Nat) /\ Len(<<>>) <= Capacity /\ Len(<<>>) <= HtfCapacity
        /\ -1 \in Int /\ 0 \in Nat
    BY <1>3, FeedsAssumption
  <2>2. /\ kind' \in Kinds /\ now' \in 0 .. MaxTime /\ restarts' \in 0 .. MaxRestarts
    BY <1>2 DEF Inv, Typed, TypeOK
  <2>3. TypeOK'
    BY <1>1, <1>2, <2>1, <2>2 DEF TypeOK, None
  <2> QED  BY <1>2, <2>3 DEF Typed
<1>5. OrderInv'
  BY <1>2, <1>3 DEF OrderInv, Increasing, LastOf
<1>6. GapInv'
  BY <1>1, <1>2, <1>3 DEF GapInv, NoneMissed, Pending, Up, None
<1> QED  BY <1>4, <1>5, <1>6 DEF Inv

LEMMA InvStep == Inv /\ [Next]_vars => Inv'
<1> SUFFICES ASSUME Inv, [Next]_vars PROVE Inv'
  OBVIOUS
<1>1. CASE PollAnswered \/ PollReplay \/ PollFiles
  BY <1>1, PollAnsweredInv, PollReplayInv, PollFilesInv
<1>2. CASE Refuse \/ Accept \/ ProcessBar
  BY <1>2, RefuseInv, AcceptInv, ProcessBarInv
<1>3. CASE SyncAnswered \/ SyncFailed \/ SyncReplay \/ NoSync
  BY <1>3, SyncInv
<1>4. CASE \/ PollFailed \/ FilesGone \/ BatchDone \/ Leave
           \/ Signal \/ BarCompletes \/ Elapse \/ UNCHANGED vars
  BY <1>4, OtherInv
<1>5. CASE Die \/ Restart
  BY <1>5, DieInv, RestartInv
<1> QED  BY <1>1, <1>2, <1>3, <1>4, <1>5 DEF Next, Runner

THEOREM InvHolds == Spec => []Inv
<1> QED  BY InitInv, InvStep, PTL DEF Spec

\* Every variable keeps its type, and no buffer outgrows its capacity.
THEOREM TypeCorrect == Spec => []TypeOK
<1>1. Inv => TypeOK
  BY DEF Inv, Typed
<1> QED  BY <1>1, InvHolds, PTL

\* Both buffers stay in the order of time, each bar once, whatever the
\* histories, the answers, the failed polls, the files and the restarts.
THEOREM BuffersStayInOrder == Spec => []BufferInOrder
<1>1. Inv => BufferInOrder
  BY DEF Inv, OrderInv, BufferInOrder
<1> QED  BY <1>1, InvHolds, PTL

\* What is missing between two bars of the LTF buffer, an answer left out: the
\* loop loses none, however late an answer is and whatever was refused.
THEOREM NoBarIsLost == Spec => []NoneMissed
<1>1. Inv => NoneMissed
  BY DEF Inv, GapInv
<1> QED  BY <1>1, InvHolds, PTL

------------------------------------------------------------------------------
(* The signal.                                                               *)

\* While the loop is up no bar was processed after the signal: the one in hand
\* is processed on the way out.
StopInv ==
    /\ late \in {0, 1}
    /\ Up => late = 0

LEMMA StopStep == StopInv /\ [Next]_vars => StopInv'
<1> SUFFICES ASSUME StopInv, [Next]_vars PROVE StopInv'
  OBVIOUS
<1> USE DEF StopInv, Up
<1>1. CASE PollAnswered \/ PollFailed \/ PollReplay \/ PollFiles \/ FilesGone
  BY <1>1 DEF PollAnswered, PollFailed, PollReplay, PollFiles, FilesGone, Polling, loop
<1>2. CASE Refuse \/ Accept \/ BatchDone
  BY <1>2 DEF Refuse, Accept, BatchDone
<1>3. CASE SyncAnswered \/ SyncFailed \/ SyncReplay \/ NoSync
  BY <1>3 DEF SyncAnswered, SyncFailed, SyncReplay, NoSync
<1>4. CASE ProcessBar
  BY <1>4 DEF ProcessBar, AfterBar
<1>5. CASE Leave \/ Signal \/ Elapse \/ BarCompletes
  BY <1>5 DEF Leave, Signal, Elapse, BarCompletes
<1>6. CASE Die \/ Restart
  BY <1>6 DEF Die, Restart
<1>7. CASE UNCHANGED vars
  BY <1>7 DEF vars
<1> QED
  BY <1>1, <1>2, <1>3, <1>4, <1>5, <1>6, <1>7 DEF Next, Runner

\* After a signal at most the bar in hand is processed, whatever the batch still
\* holds and however feeds answer, fail and are started again.
THEOREM SignalsStopTheLoop == Spec => []StopIsPrompt
<1>1. Init => StopInv
  BY DEF Init, StopInv
<1>2. StopInv => StopIsPrompt
  BY DEF StopInv, StopIsPrompt
<1> QED  BY <1>1, <1>2, StopStep, PTL DEF Spec

------------------------------------------------------------------------------
(* The part of SignalEnds and OutageEnds that needs no fairness: what the    *)
(* loop has left to do, and how often it lets the provider fail.             *)

\* The steps left at most once the signal came: the bars of the batch, then
\* the polls of the HTF feed for one of them, each of which gives a later bar.
Work ==
    CASE ~Up          -> 0
      [] pc = "poll"  -> 1
      [] pc = "bar"   -> 1
      [] pc = "sync"  -> 2 + MaxTime - htf.last
      [] pc = "bars"  -> MaxTime + 4 + Cardinality(batch) + Cardinality(again)

HtfInv == htf.last \in -1 .. MaxTime

LEMMA HtfInvStep == Inv /\ HtfInv /\ [Next]_vars => HtfInv'
<1> SUFFICES ASSUME Inv, HtfInv, [Next]_vars PROVE HtfInv'
  OBVIOUS
<1> USE FeedsAssumption
<1>1. /\ hbuf \in Seq(Nat) /\ htf \in Feed /\ ltf \in Feed /\ now \in 0 .. MaxTime
  BY DEF Inv, Typed, TypeOK
<1>2. CASE SyncAnswered
  <2>1. PICK S \in Answers(Ratio, Window) : htf' = Answered(htf, NewIn(htf, LastOf(hbuf), S))
    BY <1>2 DEF SyncAnswered
  <2> DEFINE new == NewIn(htf, LastOf(hbuf), S)
  <2>2. new \in SUBSET (0 .. MaxTime)
    BY <1>1, AnswersType DEF NewIn
  <2> HIDE DEF new
  <2>3. htf'.last = htf.last \/ htf'.last \in new
    BY <1>1, <2>1, <2>2, AnsweredFacts DEF new
  <2>4. \A x \in new : x \in -1 .. MaxTime
    BY <2>2
  <2>5. CASE htf'.last \in new
    BY <2>4, <2>5 DEF HtfInv
  <2>6. CASE htf'.last = htf.last
    BY <2>6 DEF HtfInv
  <2> QED  BY <2>3, <2>5, <2>6
<1>3. CASE SyncReplay
  <2> DEFINE h == Min(HtfLeft)
  <2>1. htf' = [htf EXCEPT !.last = h] /\ HtfLeft # {}
    BY <1>3 DEF SyncReplay
  <2>2. HtfLeft \in SUBSET (0 .. MaxTime)
    BY DEF HtfLeft, NewIn, FileBars
  <2>3. h \in HtfLeft
    BY <2>1, <2>2, BarSets, FirstAndLast
  <2> HIDE DEF h
  <2> QED  BY <1>1, <2>1, <2>2, <2>3, FeedFacts DEF HtfInv
<1>4. CASE SyncFailed
  BY <1>1, <1>4, FeedFacts DEF SyncFailed, HtfInv
<1>5. CASE Elapse
  <2>1. htf' = htf \/ htf' = [htf EXCEPT !.due = TRUE]
    BY <1>5 DEF Elapse
  <2> QED  BY <1>1, <2>1, FeedFacts DEF HtfInv
<1>6. CASE Die
  BY <1>6 DEF Die, HtfInv, NewFeed, None
<1>7. CASE Restart
  <2>1. PICK s \in Beginnings : htf' = s.htf
    BY <1>7 DEF Restart
  <2> QED  BY <1>1, <2>1, BeginningFacts DEF HtfInv
<1>8. CASE \/ PollAnswered \/ PollFailed \/ PollReplay \/ PollFiles \/ FilesGone
           \/ Refuse \/ Accept \/ BatchDone \/ NoSync \/ ProcessBar \/ Leave
           \/ Signal \/ BarCompletes \/ UNCHANGED vars
  <2>1. htf' = htf
    BY <1>8 DEF PollAnswered, PollFailed, PollReplay, PollFiles, FilesGone, Refuse, Accept,
                BatchDone, NoSync, ProcessBar, Leave, Signal, BarCompletes, vars, feeds
  <2> QED  BY <2>1 DEF HtfInv
<1> QED  BY <1>2, <1>3, <1>4, <1>5, <1>6, <1>7, <1>8 DEF Next, Runner

\* A batch that gives up a bar is shorter by it.
LEMMA TakenFacts ==
    ASSUME Inv, batch \cup again # {}, Taken
    PROVE  /\ Cardinality(batch) \in Nat /\ Cardinality(again) \in Nat
           /\ Cardinality(batch') \in Nat /\ Cardinality(again') \in Nat
           /\ Cardinality(batch') + Cardinality(again') < Cardinality(batch) + Cardinality(again)
<1>1. batch \in SUBSET (0 .. MaxTime) /\ again \in SUBSET (0 .. MaxTime)
  BY DEF Inv, Typed
<1>2. IsFiniteSet(batch) /\ IsFiniteSet(again)
  BY <1>1, BarSets
<1>3. NextBar \in batch \cup again
  <2>1. batch \cup again \in SUBSET (0 .. MaxTime)
    BY <1>1
  <2>2. Min(batch \cup again) \in batch \cup again
    BY <2>1, BarSets, FirstAndLast
  <2> QED  BY <2>2 DEF NextBar
<1>4. Cardinality(batch) \in Nat /\ Cardinality(again) \in Nat
  BY <1>2, FS_CardinalityType
<1>5. CASE NextBar \in batch
  <2>1. batch' = batch \ {NextBar} /\ again' = again
    BY <1>5 DEF Taken
  <2>2. Cardinality(batch \ {NextBar}) = Cardinality(batch) - 1
    BY <1>2, <1>5, FS_RemoveElement
  <2>3. IsFiniteSet(batch \ {NextBar})
    BY <1>2, FS_RemoveElement
  <2>4. Cardinality(batch') \in Nat
    BY <2>1, <2>3, FS_CardinalityType
  <2> QED  BY <1>4, <2>1, <2>2, <2>4
<1>6. CASE NextBar \notin batch
  <2>1. batch' = batch \ {NextBar} /\ again' = again \ {NextBar} /\ NextBar \in again
    BY <1>3, <1>6 DEF Taken
  <2>2. batch' = batch
    BY <1>6, <2>1
  <2>3. Cardinality(again \ {NextBar}) = Cardinality(again) - 1 /\ IsFiniteSet(again \ {NextBar})
    BY <1>2, <2>1, FS_RemoveElement
  <2>4. Cardinality(again') \in Nat
    BY <2>1, <2>3, FS_CardinalityType
  <2> QED  BY <1>4, <2>1, <2>2, <2>3, <2>4
<1> QED  BY <1>5, <1>6

LEMMA WorkType == Inv /\ HtfInv => Work \in Nat
<1> SUFFICES ASSUME Inv, HtfInv PROVE Work \in Nat
  OBVIOUS
<1>1. Cardinality(batch) \in Nat /\ Cardinality(again) \in Nat
  <2>1. batch \in SUBSET (0 .. MaxTime) /\ again \in SUBSET (0 .. MaxTime)
    BY DEF Inv, Typed
  <2> QED  BY <2>1, BarSets, FS_CardinalityType
<1>2. pc \in {"poll", "bars", "sync", "bar", "ended", "down"} /\ MaxTime \in Nat
  BY FeedsAssumption DEF Inv, Typed, TypeOK
<1> QED  BY <1>1, <1>2 DEF Work, Up, HtfInv

\* The measure in each place of the loop.
LEMMA WorkAt ==
    /\ pc \in {"ended", "down"} => Work = 0
    /\ pc \in {"poll", "bar"} => Work = 1
    /\ pc = "sync" => Work = 2 + MaxTime - htf.last
    /\ pc = "bars" => Work = MaxTime + 4 + Cardinality(batch) + Cardinality(again)
  BY DEF Work, Up

\* After the signal a step of the loop leaves less to do, and no other step
\* leaves more.
LEMMA WorkStep ==
    ASSUME Inv, HtfInv, [Next]_vars, Up, ~running
    PROVE  Work' <= Work /\ (Runner => Work' < Work)
<1> USE FeedsAssumption
<1>1. /\ pc \in {"poll", "bars", "sync", "bar"}
      /\ htf \in Feed /\ hbuf \in Seq(Nat) /\ now \in 0 .. MaxTime
      /\ htf.last \in -1 .. MaxTime /\ htf'.last \in -1 .. MaxTime
  BY HtfInvStep DEF Inv, Typed, TypeOK, HtfInv, Up
<1>2. Work \in Nat /\ Work' \in Nat
  <2>1. Inv' /\ HtfInv'
    BY InvStep, HtfInvStep
  <2>2. (Inv /\ HtfInv => Work \in Nat)'
    BY WorkType, PTL
  <2> QED  BY <2>1, <2>2, WorkType
<1>3. /\ pc' \in {"ended", "down"} => Work' = 0
      /\ pc' \in {"poll", "bar"} => Work' = 1
      /\ pc' = "sync" => Work' = 2 + MaxTime - htf'.last
      /\ pc' = "bars" => Work' = MaxTime + 4 + Cardinality(batch') + Cardinality(again')
  BY DEF Work, Up
<1>4. Cardinality(batch) \in Nat /\ Cardinality(again) \in Nat
  <2>1. batch \in SUBSET (0 .. MaxTime) /\ again \in SUBSET (0 .. MaxTime)
    BY DEF Inv, Typed
  <2> QED  BY <2>1, BarSets, FS_CardinalityType
<1> HIDE DEF Work
<1>5. CASE Runner
  <2>1. CASE pc = "poll"
    <3>1. pc' = "ended"
      BY <1>5, <2>1 DEF Runner, PollAnswered, PollFailed, PollReplay, PollFiles, FilesGone,
                        Polling, Refuse, Accept, BatchDone, SyncAnswered, SyncFailed,
                        SyncReplay, NoSync, ProcessBar, Leave
    <3> QED  BY <1>2, <1>3, <2>1, <3>1, WorkAt
  <2>2. CASE pc = "bar"
    <3>1. pc' = "ended"
      BY <1>5, <2>2 DEF Runner, PollAnswered, PollFailed, PollReplay, PollFiles, FilesGone,
                        Polling, Refuse, Accept, BatchDone, SyncAnswered, SyncFailed,
                        SyncReplay, NoSync, ProcessBar, AfterBar, Leave
    <3> QED  BY <1>2, <1>3, <2>2, <3>1, WorkAt
  <2>3. CASE pc = "bars"
    <3>1. Refuse \/ Accept \/ BatchDone
      BY <1>5, <2>3 DEF Runner, PollAnswered, PollFailed, PollReplay, PollFiles, FilesGone,
                        Polling, SyncAnswered, SyncFailed, SyncReplay, NoSync, ProcessBar, Leave
    <3>2. Work = MaxTime + 4 + Cardinality(batch) + Cardinality(again)
      BY <2>3, WorkAt
    <3>3. CASE BatchDone
      BY <1>2, <1>3, <1>4, <3>2, <3>3 DEF BatchDone
    <3>4. CASE Refuse \/ Accept
      <4>1. /\ Cardinality(batch') \in Nat /\ Cardinality(again') \in Nat
            /\ Cardinality(batch') + Cardinality(again') < Cardinality(batch) + Cardinality(again)
        BY <3>4, TakenFacts DEF Refuse, Accept
      <4>2. pc' = "bars" \/ (pc' = "sync" /\ htf' = htf)
        BY <2>3, <3>4 DEF Refuse, Accept, feeds
      <4>3. CASE pc' = "bars"
        <5>1. Work' = MaxTime + 4 + Cardinality(batch') + Cardinality(again')
          BY <1>3, <4>3
        <5> QED  BY <1>4, <3>2, <4>1, <5>1
      <4>4. CASE pc' = "sync" /\ htf' = htf
        <5>1. Work' = 2 + MaxTime - htf'.last
          BY <1>3, <4>4
        <5>2. htf'.last >= -1 /\ htf'.last \in Int /\ MaxTime \in Nat
          BY <1>1
        <5>3. Work' <= MaxTime + 3
          BY <5>1, <5>2
        <5>4. Work >= MaxTime + 4
          BY <1>4, <3>2, <5>2
        <5> QED  BY <1>2, <5>2, <5>3, <5>4
      <4> QED  BY <4>2, <4>3, <4>4
    <3> QED  BY <3>1, <3>3, <3>4
  <2>4. CASE pc = "sync"
    <3>1. Work = 2 + MaxTime - htf.last
      BY <2>4, WorkAt
    <3>2. pc' = "bar" \/ (pc' = "sync" /\ htf'.last > htf.last)
      <4>1. SyncAnswered \/ SyncFailed \/ SyncReplay \/ NoSync
        BY <1>5, <2>4 DEF Runner, PollAnswered, PollFailed, PollReplay, PollFiles, FilesGone,
                          Polling, Refuse, Accept, BatchDone, ProcessBar, Leave
      <4>2. CASE SyncAnswered
        <5>1. PICK S \in Answers(Ratio, Window) :
                LET new == NewIn(htf, LastOf(hbuf), S)
                IN  /\ htf' = Answered(htf, new)
                    /\ pc' = IF new = {} \/ Max(new) >= cur THEN "bar" ELSE "sync"
          BY <4>2 DEF SyncAnswered
        <5> DEFINE new == NewIn(htf, LastOf(hbuf), S)
        <5>2. new \in SUBSET (0 .. MaxTime) /\ \A b \in new : b > htf.last
          BY <1>1, AnswersType DEF NewIn
        <5>3. pc' = "bar" \/ (pc' = "sync" /\ new # {})
          BY <5>1
        <5>4. htf' = Answered(htf, new)
          BY <5>1
        <5> HIDE DEF new
        <5>5. ASSUME new # {} PROVE htf'.last \in new
          <6>1. Max(new) \in new
            BY <5>2, <5>5, BarSets, FirstAndLast
          <6>2. htf'.last = Max(new)
            BY <5>4, <5>5 DEF Answered, Gave
          <6> QED  BY <6>1, <6>2
        <5> QED  BY <5>2, <5>3, <5>5
      <4>3. CASE SyncReplay
        <5> DEFINE h == Min(HtfLeft)
        <5>1. /\ htf' = [htf EXCEPT !.last = h] /\ HtfLeft # {}
              /\ pc' \in {"sync", "bar"}
          BY <4>3 DEF SyncReplay
        <5>2. HtfLeft \in SUBSET (0 .. MaxTime) /\ \A b \in HtfLeft : b > htf.last
          BY DEF HtfLeft, NewIn, FileBars
        <5>3. h \in HtfLeft
          BY <5>1, <5>2, BarSets, FirstAndLast
        <5> HIDE DEF h
        <5>4. htf'.last = h
          BY <1>1, <5>1, <5>2, <5>3, FeedFacts
        <5> QED  BY <5>1, <5>2, <5>3, <5>4
      <4> QED  BY <4>1, <4>2, <4>3 DEF SyncFailed, NoSync
    <3> QED  BY <1>1, <1>2, <1>3, <3>1, <3>2
  <2> QED  BY <1>1, <1>2, <2>1, <2>2, <2>3, <2>4
<1>6. CASE Signal \/ Restart
  BY <1>6 DEF Signal, Restart, Up
<1>7. CASE Die
  <2>1. Work' = 0
    BY <1>3, <1>7 DEF Die
  <2>2. Work > 0
    BY <1>1, <1>4, WorkAt, FeedsAssumption
  <2> QED  BY <1>2, <2>1, <2>2
<1>8. CASE BarCompletes \/ Elapse \/ UNCHANGED vars
  <2>1. pc' = pc /\ batch' = batch /\ again' = again
    BY <1>8 DEF BarCompletes, Elapse, vars, loop
  <2>2. htf'.last = htf.last
    <3>1. htf' = htf \/ htf' = [htf EXCEPT !.due = TRUE]
      BY <1>8 DEF BarCompletes, Elapse, vars, feeds
    <3> QED  BY <1>1, <3>1, FeedFacts
  <2>3. Work' = Work
    BY <2>1, <2>2 DEF Work, Up
  <2>4. ~Runner \/ Runner
    OBVIOUS
  <2> QED  BY <1>2, <1>5, <2>3
<1> QED  BY <1>5, <1>6, <1>7, <1>8 DEF Next

\* Once the signal came the session has a number of steps left that every step
\* of the loop lowers and nothing else raises, whatever the feeds answer: it ends
\* as soon as the loop has taken them.
THEOREM SignalLeavesFiniteWork ==
    Spec => /\ [](Work \in Nat)
            /\ [][Up /\ ~running => Work' <= Work /\ (Runner => Work' < Work)]_vars
<1> DEFINE P == Up /\ ~running => Work' <= Work /\ (Runner => Work' < Work)
<1>1. Init => HtfInv
  <2> SUFFICES ASSUME Init PROVE HtfInv
    OBVIOUS
  <2>1. PICK s \in Beginnings : htf = s.htf
    BY DEF Init
  <2>2. now \in 0 .. MaxTime
    BY FeedsAssumption DEF Init
  <2> QED  BY <2>1, <2>2, BeginningFacts DEF HtfInv
<1>2. Inv /\ HtfInv /\ [Next]_vars => P
  BY WorkStep
<1>3. Inv /\ HtfInv => Work \in Nat
  BY WorkType
<1> HIDE DEF P
<1>4. Spec => [](Inv /\ HtfInv)
  BY <1>1, InvHolds, HtfInvStep, PTL DEF Spec
<1>5. Spec => [](Work \in Nat)
  BY <1>3, <1>4, PTL
<1>6. Spec => [][P]_vars
  BY <1>2, <1>4, PTL DEF Spec
<1> QED  BY <1>5, <1>6 DEF P

\* A session that is up has not seen more failures in a row than the feed
\* allows before it disconnects.
Patient == Up => ltf.errors <= MaxErrors

LEMMA FailedErrors ==
    ASSUME NEW f \in Feed, f.errors <= MaxErrors
    PROVE  /\ Failed(f).errors = f.errors + 1
           /\ Failed(f).connected => f.errors < MaxErrors
  BY DEF Failed, Feed

LEMMA PatientStep == Inv /\ Patient /\ [Next]_vars => Patient'
<1> SUFFICES ASSUME Inv, Patient, [Next]_vars, Up' PROVE ltf'.errors <= MaxErrors
  BY DEF Patient
<1> USE FeedsAssumption
<1>1. ltf \in Feed /\ htf \in Feed /\ now \in 0 .. MaxTime
  BY DEF Inv, Typed, TypeOK
<1>2. CASE PollAnswered
  <2>1. \E S : ltf' = Answered(ltf, S)
    BY <1>2 DEF PollAnswered
  <2> QED  BY <2>1 DEF Answered
<1>3. CASE PollFailed
  <2>1. pc = "poll" /\ ltf' = Failed(ltf) /\ ltf'.connected
    BY <1>3 DEF PollFailed, Polling, Up
  <2>2. ltf.errors <= MaxErrors /\ ltf.errors \in Nat
    BY <1>1, <2>1 DEF Patient, Up, Feed
  <2> QED  BY <1>1, <2>1, <2>2, FailedErrors
<1>4. CASE PollReplay
  <2>1. Up /\ (ltf' = ltf \/ \E b : ltf' = [ltf EXCEPT !.last = b])
    BY <1>4 DEF PollReplay, Polling, Up
  <2>2. ltf'.errors = ltf.errors
    BY <1>1, <2>1 DEF Feed
  <2> QED  BY <2>1, <2>2 DEF Patient
<1>5. CASE Elapse
  <2>1. Up /\ (ltf' = ltf \/ ltf' = [ltf EXCEPT !.due = TRUE])
    BY <1>5 DEF Elapse, Up
  <2>2. ltf'.errors = ltf.errors
    BY <1>1, <2>1, FeedFacts
  <2> QED  BY <2>1, <2>2 DEF Patient
<1>6. CASE Restart
  <2>1. PICK s \in Beginnings : ltf' = s.ltf
    BY <1>6 DEF Restart
  <2> QED  BY <1>1, <2>1, BeginningFacts
<1>7. CASE Die
  BY <1>7 DEF Die, Up
<1>8. CASE \/ PollFiles \/ FilesGone \/ Refuse \/ Accept \/ BatchDone \/ SyncAnswered
           \/ SyncFailed \/ SyncReplay \/ NoSync \/ ProcessBar \/ Leave
           \/ Signal \/ BarCompletes \/ UNCHANGED vars
  <2>1. ltf' = ltf
    BY <1>8 DEF PollFiles, FilesGone, Refuse, Accept, BatchDone, SyncAnswered, SyncFailed,
                SyncReplay, NoSync, ProcessBar, Leave, Signal, BarCompletes, vars, feeds
  <2>2. Up
    BY <1>8 DEF PollFiles, FilesGone, Polling, Refuse, Accept, BatchDone, SyncAnswered,
                SyncFailed, SyncReplay, NoSync, ProcessBar, Leave, Signal, BarCompletes,
                vars, Up
  <2> QED  BY <2>1, <2>2 DEF Patient
<1> QED  BY <1>2, <1>3, <1>4, <1>5, <1>6, <1>7, <1>8 DEF Next, Runner

\* An outage is counted poll by poll, and the one that goes over MaxErrors ends
\* the session: no session outlives more failures in a row, of any feed.
THEOREM OutagesAreCounted ==
    Spec => /\ []Patient
            /\ [][PollFailed => /\ ltf'.errors = ltf.errors + 1
                                /\ ltf.errors = MaxErrors => pc' = "ended"]_vars
<1> DEFINE P == PollFailed => /\ ltf'.errors = ltf.errors + 1
                              /\ ltf.errors = MaxErrors => pc' = "ended"
<1>1. Init => Patient
  <2> SUFFICES ASSUME Init PROVE Patient
    OBVIOUS
  <2>1. PICK s \in Beginnings : ltf = s.ltf
    BY DEF Init
  <2>2. now \in 0 .. MaxTime
    BY FeedsAssumption DEF Init
  <2> QED  BY <2>1, <2>2, BeginningFacts, FeedsAssumption DEF Patient
<1>2. Inv /\ Patient /\ [Next]_vars => P
  <2> SUFFICES ASSUME Inv, Patient, PollFailed
               PROVE  /\ ltf'.errors = ltf.errors + 1
                      /\ ltf.errors = MaxErrors => pc' = "ended"
    OBVIOUS
  <2>1. /\ pc = "poll" /\ ltf' = Failed(ltf) /\ ltf \in Feed
        /\ pc' = IF ltf'.connected THEN "poll" ELSE "ended"
    BY DEF PollFailed, Polling, Inv, Typed, TypeOK
  <2>2. ltf.errors <= MaxErrors /\ ltf.errors \in Nat
    BY <2>1 DEF Patient, Up, Feed
  <2>3. /\ ltf'.errors = ltf.errors + 1
        /\ ltf'.connected => ltf.errors < MaxErrors
    BY <2>1, <2>2, FailedErrors
  <2> QED  BY <2>1, <2>2, <2>3, FeedsAssumption
<1> HIDE DEF P
<1>3. Spec => [](Inv /\ Patient)
  BY <1>1, InvHolds, PatientStep, PTL DEF Spec
<1>4. Spec => []Patient
  BY <1>3, PTL
<1>5. Spec => [][P]_vars
  BY <1>2, <1>3, PTL DEF Spec
<1> QED  BY <1>4, <1>5 DEF P
==============================================================================
