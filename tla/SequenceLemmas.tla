--------------------------- MODULE SequenceLemmas ---------------------------
(***************************************************************************)
(* Facts about sequences, numbers, balances and sums that the proofs share. *)
(***************************************************************************)
EXTENDS Sums, Sequences, TLAPS, FiniteSetTheorems, SequenceTheorems, WellFoundedInduction

\* Appending to a sequence, as a function.
LEMMA AppendIsFunction ==
  ASSUME NEW S, NEW q \in Seq(S), NEW e
  PROVE  Append(q, e) = [k \in 1..(Len(q) + 1) |-> IF k = Len(q) + 1 THEN e ELSE q[k]]
<1> DEFINE T == S \cup {e}
           r == [k \in 1..(Len(q) + 1) |-> IF k = Len(q) + 1 THEN e ELSE q[k]]
<1>1. q \in Seq(T) /\ e \in T /\ Len(q) \in Nat
  OBVIOUS
<1> HIDE DEF T
<1>2. /\ Append(q, e) \in Seq(T) /\ Len(Append(q, e)) = Len(q) + 1
      /\ \A k \in 1..(Len(q) + 1) : Append(q, e)[k] = r[k]
  BY <1>1
<1>3. Append(q, e) = [k \in 1..(Len(q) + 1) |-> Append(q, e)[k]]
  BY <1>2, LenProperties
<1> QED BY <1>2, <1>3

(***************************************************************************)
(* Induction on the natural numbers for a set: a set that holds 0 and is   *)
(* closed under successor holds every natural number.  It follows from the *)
(* well-foundedness of strict inclusion among the subsets of 1..m.         *)
(***************************************************************************)
LEMMA NatSetInduction ==
  ASSUME NEW S, 0 \in S, \A n \in Nat : n \in S => n+1 \in S,
         NEW m \in Nat
  PROVE  m \in S
<1> DEFINE B == 1..m
           F == {T \in SUBSET B : \A k \in Nat : T = 1..k => k \in S}
           Bad == (SUBSET B) \ F
           R == StrictSubsetOrdering(B)
<1>1. SUFFICES ASSUME m \notin S PROVE FALSE
  OBVIOUS
<1>0. IsFiniteSet(B)
  <2>1. 1 \in Int /\ m \in Int
    OBVIOUS
  <2> QED BY <2>1, FS_Interval
<1> HIDE DEF B
<1>2. IsWellFoundedOn(R, SUBSET B)
  BY <1>0, FS_StrictSubsetOrderingWellFounded, FS_FiniteSubsetsOfFinite
<1> USE DEF B
<1>3. Bad \subseteq SUBSET B /\ Bad # {}
  BY <1>1
<1> HIDE DEF R, Bad
<1>4. PICK T \in Bad : \A U \in Bad : ~ (<<U, T>> \in R)
  BY <1>2, <1>3, WFMin
<1>5. PICK k \in Nat : T = 1..k /\ k \notin S
  BY <1>4 DEF Bad
<1>6. k # 0 /\ k-1 \in Nat /\ (k-1)+1 = k
  BY <1>5
<1>7. k-1 \notin S
  BY <1>5, <1>6
<1>8. DEFINE U == 1..(k-1)
<1>9. U \subseteq T /\ k \in T /\ k \notin U /\ T \subseteq B
  BY <1>4, <1>5, <1>6 DEF Bad
<1>10. <<U, T>> \in R
  BY <1>9 DEF R, StrictSubsetOrdering
<1>11. U \in Bad
  BY <1>9, <1>7, <1>6 DEF Bad
<1> QED BY <1>4, <1>10, <1>11

\* A set of natural numbers that is not empty has a least element.
LEMMA LeastNatural ==
  ASSUME NEW T, T \subseteq Nat, T # {}
  PROVE  \E k \in T : \A m \in T : k <= m
<1> DEFINE S == {n \in Nat : \A m \in T : n <= m}
<1>1. SUFFICES ASSUME \A k \in T : k \notin S PROVE FALSE
  OBVIOUS
<1>2. 0 \in S
  OBVIOUS
<1>3. \A n \in Nat : n \in S => n + 1 \in S
  <2> SUFFICES ASSUME NEW n \in Nat, n \in S, NEW m \in T PROVE n + 1 <= m
    OBVIOUS
  <2>1. n <= m /\ m \in Nat /\ n \notin T
    BY <1>1
  <2> QED BY <2>1
<1>4. \A n \in Nat : n \in S
  <2> HIDE DEF S
  <2> QED BY <1>2, <1>3, NatSetInduction
<1> QED BY <1>1, <1>4

\* An entry put in front of the p-th one.
LEMMA InsertIsShift ==
  ASSUME NEW S, NEW s \in Seq(S), NEW e \in S, NEW p \in 1..Len(s)
  PROVE  LET t == SubSeq(s, 1, p - 1) \o <<e>> \o SubSeq(s, p, Len(s))
         IN /\ t \in Seq(S) /\ Len(t) = Len(s) + 1 /\ t[p] = e
            /\ \A k \in 1..(p - 1) : t[k] = s[k]
            /\ \A k \in p..Len(s) : t[k + 1] = s[k]
<1> DEFINE u == SubSeq(s, 1, p - 1)
           v == SubSeq(s, p, Len(s))
           ue == u \o <<e>>
           t == ue \o v
<1>0. Len(s) \in Nat /\ p \in Nat /\ p >= 1 /\ p <= Len(s)
  OBVIOUS
<1>1. u \in Seq(S) /\ Len(u) = p - 1 /\ \A k \in 1..(p - 1) : u[k] = s[k]
  <2>1. 1 \in Int /\ p - 1 \in Int /\ \A i \in 1..(p - 1) : s[i] \in S
    BY <1>0
  <2>2. /\ u \in Seq(S) /\ Len(u) = IF 1 <= p - 1 THEN (p - 1) - 1 + 1 ELSE 0
        /\ \A i \in 1..((p - 1) - 1 + 1) : u[i] = s[1 + i - 1]
    BY <2>1, SubSeqProperties
  <2> HIDE DEF u
  <2>3. (p - 1) - 1 + 1 = p - 1 /\ \A i \in 1..(p - 1) : 1 + i - 1 = i
    BY <1>0
  <2> QED BY <1>0, <2>2, <2>3
<1>2. v \in Seq(S) /\ Len(v) = Len(s) - p + 1 /\ \A k \in 1..(Len(s) - p + 1) : v[k] = s[p + k - 1]
  <2>1. p \in Int /\ Len(s) \in Int /\ \A i \in p..Len(s) : s[i] \in S
    BY <1>0
  <2>2. /\ v \in Seq(S) /\ Len(v) = IF p <= Len(s) THEN Len(s) - p + 1 ELSE 0
        /\ \A i \in 1..(Len(s) - p + 1) : v[i] = s[p + i - 1]
    BY <2>1, SubSeqProperties
  <2> HIDE DEF v
  <2> QED BY <1>0, <2>2
<1> HIDE DEF u, v
<1>3. <<e>> \in Seq(S) /\ Len(<<e>>) = 1 /\ <<e>>[1] = e
  OBVIOUS
<1>4. /\ ue \in Seq(S) /\ Len(ue) = p
      /\ \A k \in 1..p : ue[k] = IF k <= p - 1 THEN u[k] ELSE <<e>>[k - (p - 1)]
  <2>1. /\ ue \in Seq(S) /\ Len(ue) = Len(u) + Len(<<e>>)
        /\ \A k \in 1..(Len(u) + Len(<<e>>)) :
             ue[k] = IF k <= Len(u) THEN u[k] ELSE <<e>>[k - Len(u)]
    BY <1>1, <1>3, ConcatProperties
  <2> HIDE DEF ue
  <2> QED BY <1>0, <1>1, <1>3, <2>1
<1>5. ue[p] = e /\ \A k \in 1..(p - 1) : ue[k] = s[k]
  <2>1. p - (p - 1) = 1 /\ ~ (p <= p - 1) /\ p \in 1..p
    BY <1>0
  <2>2. \A k \in 1..(p - 1) : k \in 1..p /\ k <= p - 1
    BY <1>0
  <2> HIDE DEF ue
  <2> QED BY <1>1, <1>3, <1>4, <2>1, <2>2
<1> HIDE DEF ue
<1>6. /\ t \in Seq(S) /\ Len(t) = p + (Len(s) - p + 1)
      /\ \A k \in 1..(p + (Len(s) - p + 1)) : t[k] = IF k <= p THEN ue[k] ELSE v[k - p]
  <2>1. /\ t \in Seq(S) /\ Len(t) = Len(ue) + Len(v)
        /\ \A k \in 1..(Len(ue) + Len(v)) : t[k] = IF k <= Len(ue) THEN ue[k] ELSE v[k - Len(ue)]
    BY <1>2, <1>4, ConcatProperties
  <2> HIDE DEF t
  <2> QED BY <1>2, <1>4, <2>1
<1> HIDE DEF t
<1>7. p + (Len(s) - p + 1) = Len(s) + 1
  BY <1>0
<1>8. t[p] = e /\ \A k \in 1..(p - 1) : t[k] = s[k]
  <2>1. p \in 1..(Len(s) + 1) /\ \A k \in 1..(p - 1) : k \in 1..(Len(s) + 1) /\ k <= p
    BY <1>0
  <2> QED BY <1>5, <1>6, <1>7, <2>1
<1>9. \A k \in p..Len(s) : t[k + 1] = s[k]
  <2> SUFFICES ASSUME NEW k \in p..Len(s) PROVE t[k + 1] = s[k]
    OBVIOUS
  <2>1. k + 1 \in 1..(Len(s) + 1) /\ ~ (k + 1 <= p) /\ (k + 1) - p \in 1..(Len(s) - p + 1)
        /\ p + ((k + 1) - p) - 1 = k
    BY <1>0
  <2>2. t[k + 1] = v[(k + 1) - p]
    BY <1>6, <1>7, <2>1
  <2>3. v[(k + 1) - p] = s[p + ((k + 1) - p) - 1]
    BY <1>2, <2>1
  <2> QED BY <2>1, <2>2, <2>3
<1> QED BY <1>6, <1>7, <1>8, <1>9 DEF t, ue, u, v

\* A recursion on the numbers up to n: one step is f of the number and the value before.
Recursion(g, X, a, f, n) ==
  /\ g \in [0..n -> X] /\ g[0] = a
  /\ \A i \in 1..n : g[i] = f[<<i, g[i - 1]>>]

\* Every recursion has a function.
LEMMA RecursionExists ==
  ASSUME NEW X, NEW a \in X, NEW f \in [Nat \X X -> X], NEW n \in Nat
  PROVE  \E g : Recursion(g, X, a, f, n)
<1> DEFINE Has(m) == \E g \in [0..m -> X] : g[0] = a /\ \A i \in 1..m : g[i] = f[<<i, g[i - 1]>>]
           S == {m \in Nat : Has(m)}
<1>1. 0 \in S
  <2> DEFINE g == [i \in 0..0 |-> a]
  <2>1. g \in [0..0 -> X] /\ g[0] = a /\ \A i \in 1..0 : g[i] = f[<<i, g[i - 1]>>]
    OBVIOUS
  <2> HIDE DEF g
  <2> QED BY <2>1
<1>2. ASSUME NEW m \in Nat, m \in S PROVE m + 1 \in S
  <2>1. PICK g \in [0..m -> X] : g[0] = a /\ \A i \in 1..m : g[i] = f[<<i, g[i - 1]>>]
    BY <1>2
  <2> DEFINE h == [i \in 0..(m + 1) |-> IF i = m + 1 THEN f[<<m + 1, g[m]>>] ELSE g[i]]
  <2>2. g[m] \in X /\ f[<<m + 1, g[m]>>] \in X
    OBVIOUS
  <2>3. h \in [0..(m + 1) -> X] /\ h[0] = a
    BY <2>1, <2>2
  <2>4. ASSUME NEW i \in 1..(m + 1) PROVE h[i] = f[<<i, h[i - 1]>>]
    <3>1. CASE i = m + 1
      <4>1. h[i] = f[<<m + 1, g[m]>>] /\ h[i - 1] = g[m]
        BY <3>1
      <4> QED BY <3>1, <4>1
    <3>2. CASE i # m + 1
      <4>1. i \in 1..m /\ h[i] = g[i] /\ h[i - 1] = g[i - 1]
        BY <3>2
      <4> QED BY <2>1, <4>1
    <3> QED BY <3>1, <3>2
  <2> HIDE DEF h
  <2> QED BY <2>3, <2>4
<1> HIDE DEF S
<1>3. n \in S
  BY <1>1, <1>2, NatSetInduction
<1> QED BY <1>3 DEF S, Recursion

\* What a recursion starts with and keeps, it has at each of its steps.
LEMMA RecursionStays ==
    ASSUME NEW X, NEW n \in Nat, NEW g, g[0] \in X,
           \A k \in 1..n : g[k - 1] \in X => g[k] \in X
    PROVE  g[n] \in X
<1> DEFINE S == {k \in Nat : k <= n => g[k] \in X}
<1>1. 0 \in S
  OBVIOUS
<1>2. ASSUME NEW k \in Nat, k \in S PROVE k + 1 \in S
  <2>1. k + 1 <= n => k + 1 \in 1..n /\ (k + 1) - 1 = k /\ k <= n
    OBVIOUS
  <2> QED BY <1>2, <2>1
<1>3. n \in S
  <2> HIDE DEF S
  <2> QED BY <1>1, <1>2, NatSetInduction
<1> QED BY <1>3

\* A function on 1..n is a sequence.
LEMMA FunctionIsSequence ==
    ASSUME NEW S, NEW n \in Nat, NEW q \in [1..n -> S]
    PROVE  q \in Seq(S) /\ Len(q) = n
<1>1. q \in Seq(S)
  OBVIOUS
<1> QED BY <1>1

-----------------------------------------------------------------------------
(* Numbers.                                                                *)

\* A product grows with its factor.
LEMMA ProductOrder ==
  ASSUME NEW a \in Int, NEW b \in Int, NEW h \in Nat, a <= b
  PROVE  a * h <= b * h
OBVIOUS

\* A number rounded down to a multiple of h.
LEMMA RoundedDown ==
  ASSUME NEW t \in Nat, NEW h \in Nat \ {0}
  PROVE  /\ t \div h \in Nat /\ (t \div h) * h \in Nat
         /\ (t \div h) * h <= t /\ t < (t \div h) * h + h
<1>1. t \div h \in Int
  OBVIOUS
<1>2. t = h * (t \div h) + (t % h) /\ 0 <= t % h /\ t % h < h
  OBVIOUS
<1>3. t \div h >= 0
  OBVIOUS
<1>4. h * (t \div h) = (t \div h) * h
  BY <1>1
<1> QED BY <1>1, <1>2, <1>3, <1>4

\* Multiples leave no rest.
LEMMA MultipleHasNoRest ==
  ASSUME NEW m \in Nat, NEW h \in Nat \ {0}
  PROVE  (m * h) % h = 0
OBVIOUS

\* A number lies between two multiples in one place only.
LEMMA OneMultipleBelow ==
  ASSUME NEW k \in Nat, NEW m \in Nat, NEW t \in Nat, NEW h \in Nat \ {0},
         k * h <= t, t < k * h + h, m * h <= t, t < m * h + h
  PROVE  k = m
<1>1. CASE k + 1 <= m
  <2>1. (k + 1) * h <= m * h
    BY <1>1, ProductOrder
  <2> QED BY <2>1
<1>2. CASE m + 1 <= k
  <2>1. (m + 1) * h <= k * h
    BY <1>2, ProductOrder
  <2> QED BY <2>1
<1> QED BY <1>1, <1>2

\* A quotient is the greatest number of wholes.
LEMMA QuotientOrder ==
  ASSUME NEW k \in Nat, NEW t \in Nat, NEW h \in Nat \ {0}
  PROVE  /\ k * h <= t => k <= t \div h
         /\ t < k * h => t \div h < k
<1> DEFINE q == t \div h
<1>1. q \in Nat /\ q * h \in Nat /\ q * h <= t /\ t < q * h + h
  BY RoundedDown
<1> HIDE DEF q
<1>2. ASSUME k * h <= t PROVE k <= q
  <2>1. CASE q + 1 <= k
    <3>1. (q + 1) * h <= k * h
      BY <1>1, <2>1, ProductOrder
    <3> QED BY <1>1, <1>2, <3>1
  <2> QED BY <1>1, <2>1
<1>3. ASSUME t < k * h PROVE q < k
  <2>1. CASE k <= q
    <3>1. k * h <= q * h
      BY <1>1, <2>1, ProductOrder
    <3> QED BY <1>1, <1>3, <3>1
  <2> QED BY <1>1, <2>1
<1> QED BY <1>2, <1>3 DEF q

\* Products of natural numbers.
LEMMA ProductNat ==
  ASSUME NEW a \in Nat, NEW b \in Nat
  PROVE  a * b \in Nat /\ a * b = b * a /\ (a > 0 /\ b > 0 => a * b > 0)
OBVIOUS

\* A factor of both sides of a product.
LEMMA Distributed ==
  ASSUME NEW a \in Int, NEW b \in Int, NEW c \in Int
  PROVE  a * (b + c) = a * b + a * c /\ (b + c) * a = b * a + c * a
OBVIOUS

\* What comes out of reserves along their curve: less than there is, and never more
\* than the product of the reserves allows.
LEMMA CurveBounds ==
  ASSUME NEW r \in Nat, NEW s \in Nat \ {0}, NEW m \in Nat
  PROVE  LET q == (r * m) \div (s + m)
         IN  q \in Nat /\ q * (s + m) <= r * m /\ q <= r /\ (r > 0 => q < r)
<1> DEFINE q == (r * m) \div (s + m)
<1>1. r * m \in Nat /\ s + m \in Nat \ {0}
  BY ProductNat
<1>2. q \in Nat /\ q * (s + m) \in Nat /\ q * (s + m) <= r * m
  BY <1>1, RoundedDown
<1>3. r * (s + m) = r * s + r * m /\ r * s \in Nat /\ (r > 0 => r * s > 0)
  BY ProductNat, Distributed
<1>4. ASSUME r > 0 PROVE q < r
  <2>1. r * m < r * (s + m)
    BY <1>1, <1>3, <1>4
  <2> QED BY <1>1, <2>1, QuotientOrder
<1>5. ASSUME r = 0 PROVE q = 0
  <2>1. r * m = 0
    BY <1>5
  <2> QED BY <1>1, <2>1
<1> HIDE DEF q
<1>6. q \in Nat /\ q * (s + m) <= r * m /\ q <= r /\ (r > 0 => q < r)
  BY <1>2, <1>4, <1>5
<1> QED BY <1>6 DEF q

\* More of the one token in, more of the other beside it or less of the one there give
\* at least as much.
LEMMA CurveOrder ==
  ASSUME NEW r \in Nat, NEW r2 \in Nat, NEW s \in Nat, NEW s2 \in Nat \ {0},
         NEW m \in Nat, NEW m2 \in Nat, r <= r2, s2 <= s, m <= m2
  PROVE  (r * m) \div (s + m) <= (r2 * m2) \div (s2 + m2)
<1> DEFINE q == (r * m) \div (s + m)
<1>1. q \in Nat /\ q * (s + m) <= r * m /\ q <= r
  <2>1. s \in Nat \ {0}
    OBVIOUS
  <2> QED BY <2>1, CurveBounds
<1> HIDE DEF q
<1>2. q * (s + m) = q * s + q * m /\ q * (s2 + m2) = q * s2 + q * m2
  BY <1>1, Distributed
<1>3. q * s2 <= q * s
  <2>1. s2 * q <= s * q
    BY <1>1, ProductOrder
  <2> QED BY <1>1, <2>1, ProductNat
<1>4. DEFINE d == m2 - m
<1>5. d \in Nat /\ m2 = m + d
  OBVIOUS
<1> HIDE DEF d
<1>6. q * m2 = q * m + q * d /\ r * m2 = r * m + r * d
  BY <1>1, <1>5, Distributed
<1>7. q * d <= r * d
  BY <1>1, <1>5, ProductOrder
<1>8. r * m2 <= r2 * m2
  BY ProductOrder
<1>9. q * (s2 + m2) <= r2 * m2
  <2>1. /\ q * s2 \in Nat /\ q * s \in Nat /\ q * m \in Nat /\ q * d \in Nat /\ r * d \in Nat
        /\ r * m \in Nat /\ r * m2 \in Nat /\ r2 * m2 \in Nat /\ q * m2 \in Nat
    BY <1>1, <1>5, ProductNat
  <2> QED BY <2>1, <1>1, <1>2, <1>3, <1>6, <1>7, <1>8
<1>10. r2 * m2 \in Nat /\ s2 + m2 \in Nat \ {0}
  BY ProductNat
<1> QED BY <1>1, <1>9, <1>10, QuotientOrder DEF q

\* A part of a number, and of a greater one.
LEMMA QuotientGrows ==
  ASSUME NEW t \in Nat, NEW t2 \in Nat, NEW h \in Nat \ {0}, t <= t2
  PROVE  t \div h \in Nat /\ t \div h <= t2 \div h
<1>1. t \div h \in Nat /\ (t \div h) * h \in Nat /\ (t \div h) * h <= t2
  BY RoundedDown
<1> QED BY <1>1, QuotientOrder

\* A fee rounded down leaves at least the rest rounded down.
LEMMA FeeAndRest ==
  ASSUME NEW a \in Nat, NEW unit \in Nat \ {0}, NEW t \in 0..unit
  PROVE  /\ (a * t) \div unit \in 0..a
         /\ (a * (unit - t)) \div unit \in Nat
         /\ (a * (unit - t)) \div unit <= a - ((a * t) \div unit)
<1> DEFINE fee == (a * t) \div unit
<1>1. t \in Nat /\ unit - t \in Nat /\ unit \in Nat /\ t + (unit - t) = unit
  OBVIOUS
<1>2. a * t \in Nat /\ a * (unit - t) \in Nat /\ a * unit \in Nat /\ a * unit = a * t + a * (unit - t)
  <2>1. a * t \in Nat /\ a * (unit - t) \in Nat /\ a * unit \in Nat
    BY <1>1, ProductNat
  <2>2. a * (t + (unit - t)) = a * t + a * (unit - t)
    BY <1>1, Distributed
  <2> QED BY <1>1, <2>1, <2>2
<1>3. fee \in Nat /\ fee * unit \in Nat /\ fee * unit <= a * t
  BY <1>2, RoundedDown
<1>4. fee < a + 1
  <2>1. a * t < (a + 1) * unit
    <3>1. (a + 1) * unit = a * unit + unit
      BY <1>1, <1>2, Distributed
    <3> QED BY <1>1, <1>2, <3>1
  <2> QED BY <1>2, <2>1, QuotientOrder
<1> HIDE DEF fee
<1>5. a * (unit - t) < (a - fee + 1) * unit
  <2>1. (a - fee + 1) * unit = a * unit - fee * unit + unit
    BY <1>1, <1>3
  <2> QED BY <1>1, <1>2, <1>3, <2>1
<1>6. (a * (unit - t)) \div unit < a - fee + 1
  <2>1. a - fee + 1 \in Nat
    BY <1>3, <1>4
  <2> QED BY <1>2, <1>5, <2>1, QuotientOrder
<1>7. (a * (unit - t)) \div unit \in Nat
  BY <1>2, RoundedDown
<1>8. fee \in 0..a
  BY <1>3, <1>4
<1> QED BY <1>3, <1>6, <1>7, <1>8 DEF fee

\* What the two sides of a pool keep, the pool keeps.
LEMMA BothSides ==
  ASSUME NEW a \in Nat, NEW b \in Nat, NEW c \in Nat, NEW d \in Nat, NEW t \in Nat, NEW t2 \in Nat,
         c * t2 <= a * t, d * t2 <= b * t
  PROVE  a * b * t * t >= c * d * t2 * t2
<1>1. /\ a * t \in Nat /\ b * t \in Nat /\ c * t2 \in Nat /\ d * t2 \in Nat
  BY ProductNat
<1>2. (c * t2) * (d * t2) <= (a * t) * (d * t2)
  BY <1>1, ProductOrder
<1>3. (a * t) * (d * t2) <= (a * t) * (b * t)
  <2>1. (d * t2) * (a * t) <= (b * t) * (a * t)
    BY <1>1, ProductOrder
  <2> QED BY <1>1, <2>1, ProductNat
<1>4. (c * t2) * (d * t2) = c * d * t2 * t2
  OBVIOUS
<1>5. (a * t) * (b * t) = a * b * t * t
  OBVIOUS
<1>6. (c * t2) * (d * t2) \in Nat /\ (a * t) * (d * t2) \in Nat /\ (a * t) * (b * t) \in Nat
  BY <1>1, ProductNat
<1>7. (c * t2) * (d * t2) <= (a * t) * (b * t)
  <2> DEFINE x == (c * t2) * (d * t2)
             y == (a * t) * (d * t2)
             z == (a * t) * (b * t)
  <2>1. x \in Nat /\ y \in Nat /\ z \in Nat /\ x <= y /\ y <= z
    BY <1>2, <1>3, <1>6
  <2> HIDE DEF x, y, z
  <2>2. x <= z
    BY <2>1
  <2> QED BY <2>2 DEF x, z
<1> QED BY <1>4, <1>5, <1>6, <1>7

\* A swap does not shrink the product of the reserves.
LEMMA SwapKeepsProduct ==
  ASSUME NEW r \in Nat, NEW s \in Nat \ {0}, NEW m \in Nat
  PROVE  LET q == (r * m) \div (s + m)
         IN  q \in 0..r /\ (s + m) * (r - q) >= s * r
<1> DEFINE q == (r * m) \div (s + m)
<1>1. q \in Nat /\ q * (s + m) <= r * m /\ q <= r
  BY CurveBounds
<1> HIDE DEF q
<1>2. (s + m) * (r - q) = (s + m) * r - q * (s + m)
  BY <1>1
<1>3. (s + m) * r = s * r + r * m
  OBVIOUS
<1>4. s * r \in Nat /\ r * m \in Nat /\ q * (s + m) \in Nat
  BY <1>1, ProductNat
<1>5. (s + m) * (r - q) >= s * r
  BY <1>1, <1>2, <1>3, <1>4
<1>6. q \in 0..r
  BY <1>1
<1> QED BY <1>5, <1>6 DEF q

\* A deposit earns shares of its weaker side, so that neither side grows less than
\* the shares.
LEMMA DepositKeepsSide ==
  ASSUME NEW r \in Nat \ {0}, NEW a \in Nat, NEW t \in Nat, NEW h \in Nat,
         h <= (a * t) \div r
  PROVE  r * (t + h) <= (r + a) * t
<1> DEFINE q == (a * t) \div r
<1>1. a * t \in Nat
  BY ProductNat
<1>2. q \in Nat /\ q * r \in Nat /\ q * r <= a * t
  BY <1>1, RoundedDown
<1>3. h * r <= q * r
  BY <1>2, ProductOrder
<1> HIDE DEF q
<1>4. r * (t + h) = r * t + h * r /\ (r + a) * t = r * t + a * t
  OBVIOUS
<1>5. r * t \in Nat /\ h * r \in Nat
  BY ProductNat
<1> QED BY <1>1, <1>2, <1>3, <1>4, <1>5

\* A burn takes no more of a side than its part of the shares, and leaves some.
LEMMA BurnKeepsSide ==
  ASSUME NEW r \in Nat, NEW t \in Nat \ {0}, NEW h \in 0..t
  PROVE  LET w == (h * r) \div t
         IN  /\ w \in 0..r /\ r * (t - h) <= (r - w) * t
             /\ r > 0 /\ h < t => w < r
<1> DEFINE w == (h * r) \div t
<1>1. h \in Nat /\ h * r \in Nat /\ r * h = h * r /\ r * t \in Nat /\ (r + 1) * t = r * t + t
  BY ProductNat
<1>2. w \in Nat /\ w * t \in Nat /\ w * t <= h * r
  BY <1>1, RoundedDown
<1>3. h * r <= t * r /\ t * r = r * t
  BY <1>1, ProductOrder
<1>4. w < r + 1
  BY <1>1, <1>3, QuotientOrder
<1>5. ASSUME r > 0, h < t PROVE w < r
  <2>1. (h + 1) * r <= t * r /\ (h + 1) * r = h * r + r
    BY <1>1, <1>5, ProductOrder
  <2>2. h * r < r * t
    BY <1>1, <1>3, <1>5, <2>1
  <2> QED BY <1>1, <2>2, QuotientOrder
<1> HIDE DEF w
<1>6. r * (t - h) = r * t - h * r /\ (r - w) * t = r * t - w * t
  BY <1>1, <1>2
<1>7. r * (t - h) <= (r - w) * t
  BY <1>1, <1>2, <1>6
<1>8. w \in 0..r
  BY <1>2, <1>4
<1> QED BY <1>5, <1>7, <1>8 DEF w

-----------------------------------------------------------------------------
(* Balances.                                                               *)

\* A covered transfer between two accounts moves the amount and nothing else.
LEMMA MovedAmount ==
  ASSUME NEW D, NEW E, NEW bal \in [D -> [E -> Nat]], NEW x \in D,
         NEW from \in E, NEW to \in E, from # to, NEW amount \in Nat, bal[x][from] >= amount,
         NEW after, after = [bal EXCEPT ![x][from] = @ - amount, ![x][to] = @ + amount]
  PROVE  /\ after \in [D -> [E -> Nat]]
         /\ \A a \in D, h \in E :
              after[a][h] = IF a = x /\ h = from THEN bal[a][h] - amount
                            ELSE IF a = x /\ h = to THEN bal[a][h] + amount
                            ELSE bal[a][h]
<1>1. bal[x][from] - amount \in Nat /\ bal[x][to] + amount \in Nat
  OBVIOUS
<1>2. after = [bal EXCEPT ![x] = [bal[x] EXCEPT ![from] = @ - amount, ![to] = @ + amount]]
  OBVIOUS
<1>3. after[x] = [bal[x] EXCEPT ![from] = @ - amount, ![to] = @ + amount]
  BY <1>2
<1>4. \A a \in D : a # x => after[a] = bal[a]
  BY <1>2
<1>5. \A h \in E :
        after[x][h] = IF h = from THEN bal[x][h] - amount
                      ELSE IF h = to THEN bal[x][h] + amount
                      ELSE bal[x][h]
  BY <1>3
<1>6. after[x] \in [E -> Nat]
  BY <1>1, <1>3
<1>7. after \in [D -> [E -> Nat]]
  BY <1>2, <1>3, <1>6
<1> QED BY <1>4, <1>5, <1>7

-----------------------------------------------------------------------------
(* Sums, for any number of entries.                                         *)

\* g is the recursion of PartialSums over 0..n.
IsPartialSums(g, f, n) ==
  g = [i \in 0..n |-> IF i = 0 THEN 0 ELSE g[i - 1] + f[i]]

\* The recursion of PartialSums has a solution, with integer values.
LEMMA PartialSumsExist ==
  ASSUME NEW n \in Nat, NEW f, \A i \in 1..n : f[i] \in Int
  PROVE  \E g \in [0..n -> Int] : IsPartialSums(g, f, n)
<1> DEFINE Has(m) == \E g \in [0..m -> Int] : IsPartialSums(g, f, m)
           S == {m \in Nat : m <= n => Has(m)}
<1>1. 0 \in S
  <2> DEFINE g == [i \in 0..0 |-> 0]
  <2>1. g \in [0..0 -> Int] /\ IsPartialSums(g, f, 0)
    BY DEF IsPartialSums
  <2> QED BY <2>1
<1>2. ASSUME NEW m \in Nat, m \in S PROVE m + 1 \in S
  <2> SUFFICES ASSUME m + 1 <= n PROVE Has(m + 1)
    OBVIOUS
  <2>1. PICK g \in [0..m -> Int] : IsPartialSums(g, f, m)
    BY <1>2
  <2> DEFINE h == [i \in 0..(m + 1) |-> IF i = m + 1 THEN g[m] + f[m + 1] ELSE g[i]]
  <2>2. f[m + 1] \in Int /\ m \in 0..m
    OBVIOUS
  <2>3. h \in [0..(m + 1) -> Int]
    BY <2>1, <2>2
  <2>4. ASSUME NEW i \in 0..(m + 1)
        PROVE  h[i] = IF i = 0 THEN 0 ELSE h[i - 1] + f[i]
    <3>1. CASE i = m + 1
      BY <3>1, <2>1, <2>2
    <3>2. CASE i # m + 1
      <4>1. i \in 0..m /\ (i # 0 => i - 1 \in 0..m /\ i - 1 # m + 1)
        BY <3>2
      <4> QED BY <4>1, <2>1 DEF IsPartialSums
    <3> QED BY <3>1, <3>2
  <2>5. IsPartialSums(h, f, m + 1)
    BY <2>3, <2>4 DEF IsPartialSums
  <2> QED BY <2>3, <2>5
<1>3. n \in S
  <2> HIDE DEF S
  <2> QED BY <1>1, <1>2, NatSetInduction
<1> QED BY <1>3

\* PartialSums solves its recursion: it can be unfolded.
LEMMA PartialSumsDef ==
  ASSUME NEW n \in Nat, NEW f, \A i \in 1..n : f[i] \in Int
  PROVE  /\ PartialSums(f, n) \in [0..n -> Int]
         /\ PartialSums(f, n)[0] = 0
         /\ \A i \in 1..n : PartialSums(f, n)[i] = PartialSums(f, n)[i - 1] + f[i]
<1> DEFINE s == PartialSums(f, n)
<1>1. \E g : IsPartialSums(g, f, n)
  BY PartialSumsExist
<1>2. IsPartialSums(s, f, n)
  BY <1>1 DEF PartialSums, IsPartialSums
<1>3. PICK g \in [0..n -> Int] : IsPartialSums(g, f, n)
  BY PartialSumsExist
<1> HIDE DEF s
<1>4. \A i \in 0..n : s[i] = g[i]
  <2> DEFINE S == {m \in Nat : m <= n => s[m] = g[m]}
  <2>1. 0 \in S
    BY <1>2, <1>3 DEF IsPartialSums
  <2>2. ASSUME NEW m \in Nat, m \in S PROVE m + 1 \in S
    <3> SUFFICES ASSUME m + 1 <= n PROVE s[m + 1] = g[m + 1]
      OBVIOUS
    <3>1. m + 1 \in 0..n /\ m + 1 # 0 /\ (m + 1) - 1 = m
      OBVIOUS
    <3>2. s[m + 1] = s[m] + f[m + 1]
      BY <3>1, <1>2 DEF IsPartialSums
    <3>3. g[m + 1] = g[m] + f[m + 1]
      BY <3>1, <1>3 DEF IsPartialSums
    <3> QED BY <3>2, <3>3, <2>2
  <2>3. \A m \in Nat : m \in S
    <3> HIDE DEF S
    <3> QED BY <2>1, <2>2, NatSetInduction
  <2> QED BY <2>3
<1>5. s = g
  BY <1>2, <1>3, <1>4 DEF IsPartialSums
<1> QED BY <1>3, <1>5 DEF IsPartialSums, s

\* The sum of no entries is 0.
LEMMA TotalEmpty == ASSUME NEW f PROVE Total(f, 0) = 0
  BY PartialSumsDef DEF Total

\* A sum of integers is an integer.
LEMMA TotalInt ==
  ASSUME NEW n \in Nat, NEW f, \A i \in 1..n : f[i] \in Int
  PROVE  Total(f, n) \in Int
  BY PartialSumsDef DEF Total

\* One more entry adds its value.
LEMMA TotalStep ==
  ASSUME NEW n \in Nat, NEW f, \A i \in 1..(n + 1) : f[i] \in Int
  PROVE  Total(f, n + 1) = Total(f, n) + f[n + 1]
<1> DEFINE s == PartialSums(f, n)
           t == PartialSums(f, n + 1)
           S == {m \in Nat : m <= n => s[m] = t[m]}
<1>1. /\ s \in [0..n -> Int] /\ s[0] = 0
      /\ \A i \in 1..n : s[i] = s[i - 1] + f[i]
  BY PartialSumsDef
<1>2. /\ t \in [0..(n + 1) -> Int] /\ t[0] = 0
      /\ \A i \in 1..(n + 1) : t[i] = t[i - 1] + f[i]
  <2>1. n + 1 \in Nat
    OBVIOUS
  <2> QED BY <2>1, PartialSumsDef
<1> HIDE DEF s, t
<1>3. \A m \in Nat : m \in S => m + 1 \in S
  <2> SUFFICES ASSUME NEW m \in Nat, s[m] = t[m], m + 1 <= n PROVE s[m + 1] = t[m + 1]
    OBVIOUS
  <2>1. m + 1 \in 1..n /\ m + 1 \in 1..(n + 1) /\ (m + 1) - 1 = m
    OBVIOUS
  <2> QED BY <2>1, <1>1, <1>2
<1>4. n \in S
  <2>1. 0 \in S
    BY <1>1, <1>2
  <2> HIDE DEF S
  <2> QED BY <2>1, <1>3, NatSetInduction
<1>5. t[n + 1] = t[n] + f[n + 1]
  <2>1. n + 1 \in 1..(n + 1) /\ (n + 1) - 1 = n
    OBVIOUS
  <2> QED BY <2>1, <1>2
<1> QED BY <1>4, <1>5 DEF Total, s, t

\* A sum depends only on its entries.
LEMMA TotalSame ==
  ASSUME NEW n \in Nat, NEW f, NEW g, \A i \in 1..n : f[i] \in Int /\ g[i] = f[i]
  PROVE  Total(g, n) = Total(f, n)
<1> DEFINE S == {m \in Nat : m <= n => Total(g, m) = Total(f, m)}
<1>1. 0 \in S
  BY TotalEmpty
<1>2. \A m \in Nat : m \in S => m + 1 \in S
  <2> SUFFICES ASSUME NEW m \in Nat, m + 1 <= n, Total(g, m) = Total(f, m)
               PROVE  Total(g, m + 1) = Total(f, m + 1)
    OBVIOUS
  <2>1. \A i \in 1..(m + 1) : f[i] \in Int /\ g[i] \in Int
    OBVIOUS
  <2>2. Total(g, m + 1) = Total(g, m) + g[m + 1] /\ Total(f, m + 1) = Total(f, m) + f[m + 1]
    BY <2>1, TotalStep
  <2>3. g[m + 1] = f[m + 1]
    OBVIOUS
  <2> QED BY <2>2, <2>3
<1>3. n \in S
  <2> HIDE DEF S
  <2> QED BY <1>1, <1>2, NatSetInduction
<1> QED BY <1>3

\* Changing one entry moves the sum by the difference.
LEMMA TotalUpdate ==
  ASSUME NEW n \in Nat, NEW f, NEW g, NEW k \in 1..n,
         \A i \in 1..n : f[i] \in Int,
         \A i \in 1..n : i # k => g[i] = f[i],
         g[k] \in Int
  PROVE  Total(g, n) = Total(f, n) + g[k] - f[k]
<1> DEFINE S == {m \in Nat : k <= m /\ m <= n => Total(g, m) = Total(f, m) + g[k] - f[k]}
<1>0. \A i \in 1..n : g[i] \in Int
  OBVIOUS
<1>1. 0 \in S
  OBVIOUS
<1>2. \A m \in Nat : m \in S => m + 1 \in S
  <2> SUFFICES ASSUME NEW m \in Nat, m \in S, k <= m + 1, m + 1 <= n
               PROVE  Total(g, m + 1) = Total(f, m + 1) + g[k] - f[k]
    OBVIOUS
  <2>1. \A i \in 1..(m + 1) : f[i] \in Int /\ g[i] \in Int
    BY <1>0
  <2>2. Total(g, m + 1) = Total(g, m) + g[m + 1] /\ Total(f, m + 1) = Total(f, m) + f[m + 1]
    BY <2>1, TotalStep
  <2>3. Total(g, m) \in Int /\ Total(f, m) \in Int
    BY <2>1, TotalInt
  <2>4. f[m + 1] \in Int /\ g[m + 1] \in Int /\ f[k] \in Int /\ g[k] \in Int
    BY <2>1
  <2>5. CASE k = m + 1
    <3>1. \A i \in 1..m : f[i] \in Int /\ g[i] = f[i]
      BY <2>5
    <3>2. Total(g, m) = Total(f, m)
      BY <3>1, TotalSame
    <3> QED BY <3>2, <2>2, <2>3, <2>4, <2>5
  <2>6. CASE k # m + 1
    <3>1. k <= m /\ m <= n
      BY <2>6
    <3>2. Total(g, m) = Total(f, m) + g[k] - f[k]
      BY <3>1
    <3>3. g[m + 1] = f[m + 1]
      BY <2>6
    <3> QED BY <3>2, <3>3, <2>2, <2>3, <2>4
  <2> QED BY <2>5, <2>6
<1>3. n \in S
  <2> HIDE DEF S
  <2> QED BY <1>1, <1>2, NatSetInduction
<1> QED BY <1>3

\* A sum of naturals is a natural and no entry exceeds it.
LEMMA TotalDominates ==
  ASSUME NEW n \in Nat, NEW f, \A i \in 1..n : f[i] \in Nat
  PROVE  /\ Total(f, n) \in Nat
         /\ \A i \in 1..n : f[i] <= Total(f, n)
<1> DEFINE S == {m \in Nat : m <= n => /\ Total(f, m) \in Nat
                                       /\ \A i \in 1..m : f[i] <= Total(f, m)}
<1>1. 0 \in S
  BY TotalEmpty
<1>2. \A m \in Nat : m \in S => m + 1 \in S
  <2> SUFFICES ASSUME NEW m \in Nat, m \in S, m + 1 <= n
               PROVE  /\ Total(f, m + 1) \in Nat
                      /\ \A i \in 1..(m + 1) : f[i] <= Total(f, m + 1)
    OBVIOUS
  <2>1. \A i \in 1..(m + 1) : f[i] \in Nat
    OBVIOUS
  <2>2. Total(f, m + 1) = Total(f, m) + f[m + 1]
    BY <2>1, TotalStep
  <2>3. Total(f, m) \in Nat /\ \A i \in 1..m : f[i] <= Total(f, m)
    OBVIOUS
  <2> QED BY <2>1, <2>2, <2>3
<1>3. n \in S
  <2> HIDE DEF S
  <2> QED BY <1>1, <1>2, NatSetInduction
<1> QED BY <1>3

\* A sum whose entries are at most those of two others together.
LEMMA TotalBelow ==
  ASSUME NEW n \in Nat, NEW f, NEW g, NEW h,
         \A i \in 1..n : f[i] \in Int /\ g[i] \in Int /\ h[i] \in Int /\ h[i] <= f[i] + g[i]
  PROVE  Total(h, n) <= Total(f, n) + Total(g, n)
<1> DEFINE S == {m \in Nat : m <= n => Total(h, m) <= Total(f, m) + Total(g, m)}
<1>1. 0 \in S
  BY TotalEmpty
<1>2. \A m \in Nat : m \in S => m + 1 \in S
  <2> SUFFICES ASSUME NEW m \in Nat, m \in S, m + 1 <= n
               PROVE  Total(h, m + 1) <= Total(f, m + 1) + Total(g, m + 1)
    OBVIOUS
  <2>1. \A i \in 1..(m + 1) : f[i] \in Int /\ g[i] \in Int /\ h[i] \in Int
    OBVIOUS
  <2>2. /\ Total(h, m + 1) = Total(h, m) + h[m + 1] /\ Total(f, m + 1) = Total(f, m) + f[m + 1]
        /\ Total(g, m + 1) = Total(g, m) + g[m + 1]
    BY <2>1, TotalStep
  <2>3. Total(h, m) \in Int /\ Total(f, m) \in Int /\ Total(g, m) \in Int
    BY <2>1, TotalInt
  <2>4. h[m + 1] <= f[m + 1] + g[m + 1] /\ m + 1 \in 1..(m + 1)
    OBVIOUS
  <2>5. Total(h, m) <= Total(f, m) + Total(g, m)
    OBVIOUS
  <2> QED BY <2>1, <2>2, <2>3, <2>4, <2>5
<1>3. n \in S
  <2> HIDE DEF S
  <2> QED BY <1>1, <1>2, NatSetInduction
<1> QED BY <1>3

\* A sum whose entries are at most those of another.
LEMMA TotalOrder ==
  ASSUME NEW n \in Nat, NEW f, NEW h,
         \A i \in 1..n : f[i] \in Int /\ h[i] \in Int /\ h[i] <= f[i]
  PROVE  Total(h, n) <= Total(f, n)
<1> DEFINE S == {m \in Nat : m <= n => Total(h, m) <= Total(f, m)}
<1>1. 0 \in S
  BY TotalEmpty
<1>2. \A m \in Nat : m \in S => m + 1 \in S
  <2> SUFFICES ASSUME NEW m \in Nat, m \in S, m + 1 <= n
               PROVE  Total(h, m + 1) <= Total(f, m + 1)
    OBVIOUS
  <2>1. \A i \in 1..(m + 1) : f[i] \in Int /\ h[i] \in Int
    OBVIOUS
  <2>2. Total(h, m + 1) = Total(h, m) + h[m + 1] /\ Total(f, m + 1) = Total(f, m) + f[m + 1]
    BY <2>1, TotalStep
  <2>3. Total(h, m) \in Int /\ Total(f, m) \in Int
    BY <2>1, TotalInt
  <2>4. h[m + 1] <= f[m + 1] /\ m + 1 \in 1..(m + 1)
    OBVIOUS
  <2>5. Total(h, m) <= Total(f, m)
    OBVIOUS
  <2> QED BY <2>1, <2>2, <2>3, <2>4, <2>5
<1>3. n \in S
  <2> HIDE DEF S
  <2> QED BY <1>1, <1>2, NatSetInduction
<1> QED BY <1>3

\* A sum of nothing.
LEMMA TotalOfZeros ==
  ASSUME NEW n \in Nat, NEW f, \A i \in 1..n : f[i] = 0
  PROVE  Total(f, n) = 0
<1> DEFINE S == {m \in Nat : m <= n => Total(f, m) = 0}
<1>1. 0 \in S
  BY TotalEmpty
<1>2. \A m \in Nat : m \in S => m + 1 \in S
  <2> SUFFICES ASSUME NEW m \in Nat, m \in S, m + 1 <= n PROVE Total(f, m + 1) = 0
    OBVIOUS
  <2>1. \A i \in 1..(m + 1) : f[i] \in Int
    OBVIOUS
  <2>2. Total(f, m + 1) = Total(f, m) + f[m + 1]
    BY <2>1, TotalStep
  <2> QED BY <2>2
<1>3. n \in S
  <2> HIDE DEF S
  <2> QED BY <1>1, <1>2, NatSetInduction
<1> QED BY <1>3

\* One more entry that counts nothing leaves the sum as it was.
LEMMA TotalAppendZero ==
  ASSUME NEW n \in Nat, NEW f, NEW g, \A k \in 1..n : f[k] \in Int /\ g[k] = f[k],
         g[n + 1] = 0
  PROVE  Total(g, n + 1) = Total(f, n)
<1>1. Total(g, n) = Total(f, n) /\ Total(f, n) \in Int
  BY TotalSame, TotalInt
<1>2. \A k \in 1..(n + 1) : g[k] \in Int
  OBVIOUS
<1>3. Total(g, n + 1) = Total(g, n) + g[n + 1]
  BY <1>2, TotalStep
<1> QED BY <1>1, <1>3

\* A finite set has an enumeration.
LEMMA EnumerationExists ==
  ASSUME NEW S, IsFiniteSet(S)
  PROVE  /\ Cardinality(S) \in Nat
         /\ Enumeration(S) \in [1..Cardinality(S) -> S]
         /\ \A x \in S : \E k \in 1..Cardinality(S) : Enumeration(S)[k] = x
         /\ \A j, k \in 1..Cardinality(S) : Enumeration(S)[j] = Enumeration(S)[k] => j = k
<1> DEFINE n == Cardinality(S)
           Lists(e) == /\ \A x \in S : \E k \in DOMAIN e : e[k] = x
                       /\ \A j, k \in DOMAIN e : e[j] = e[k] => j = k
<1>1. n \in Nat /\ ExistsBijection(1..n, S)
  BY FS_CardinalityType
<1>2. \E e \in [1..n -> S] : Lists(e)
  <2>1. PICK e : e \in Bijection(1..n, S)
    BY <1>1 DEF ExistsBijection
  <2>2. e \in [1..n -> S] /\ DOMAIN e = 1..n
    BY <2>1 DEF Bijection, Injection
  <2>3. \A x \in S : \E k \in 1..n : e[k] = x
    BY <2>1 DEF Bijection, Surjection
  <2>4. \A j, k \in 1..n : e[j] = e[k] => j = k
    BY <2>1, <2>2 DEF Bijection, Injection, IsInjective
  <2> QED BY <2>2, <2>3, <2>4
<1>3. Enumeration(S) = CHOOSE e \in [1..n -> S] : Lists(e)
  BY DEF Enumeration
<1> HIDE DEF Lists
<1>4. Enumeration(S) \in [1..n -> S] /\ Lists(Enumeration(S))
  BY <1>2, <1>3
<1> QED BY <1>1, <1>4 DEF Lists

\* The sum over a set is a natural number that no member exceeds.
LEMMA SetTotalDominates ==
  ASSUME NEW S, IsFiniteSet(S), NEW f, \A x \in S : f[x] \in Nat
  PROVE  SetTotal(f, S) \in Nat /\ \A x \in S : f[x] <= SetTotal(f, S)
<1> DEFINE n == Cardinality(S)
           e == Enumeration(S)
           g == [k \in 1..n |-> f[e[k]]]
<1>1. n \in Nat /\ e \in [1..n -> S] /\ \A x \in S : \E k \in 1..n : e[k] = x
  BY EnumerationExists
<1>2. SetTotal(f, S) = Total(g, n)
  BY DEF SetTotal
<1> HIDE DEF n, e
<1>3. \A k \in 1..n : g[k] \in Nat
  BY <1>1
<1>4. Total(g, n) \in Nat /\ \A k \in 1..n : g[k] <= Total(g, n)
  <2> HIDE DEF g
  <2> QED BY <1>1, <1>3, TotalDominates
<1>5. \A x \in S : f[x] <= Total(g, n)
  BY <1>1, <1>4
<1> QED BY <1>2, <1>4, <1>5

\* The sum over a set follows the change of one member.
LEMMA SetTotalUpdate ==
  ASSUME NEW S, IsFiniteSet(S), NEW f, NEW h, NEW y \in S,
         \A x \in S : f[x] \in Int, h[y] \in Int,
         \A x \in S : x # y => h[x] = f[x]
  PROVE  SetTotal(h, S) = SetTotal(f, S) + h[y] - f[y]
<1> DEFINE n == Cardinality(S)
           e == Enumeration(S)
           g == [k \in 1..n |-> f[e[k]]]
           g1 == [k \in 1..n |-> h[e[k]]]
<1>1. n \in Nat /\ e \in [1..n -> S] /\ \A j, k \in 1..n : e[j] = e[k] => j = k
  BY EnumerationExists
<1>2. PICK i \in 1..n : e[i] = y
  BY EnumerationExists
<1>3. SetTotal(f, S) = Total(g, n) /\ SetTotal(h, S) = Total(g1, n)
  BY DEF SetTotal
<1> HIDE DEF n, e
<1>4. \A k \in 1..n : g[k] \in Int
  BY <1>1
<1>5. \A k \in 1..n : k # i => g1[k] = g[k]
  BY <1>1, <1>2
<1>6. g1[i] = h[y] /\ g[i] = f[y] /\ g1[i] \in Int
  BY <1>1, <1>2
<1> HIDE DEF g, g1
<1>7. Total(g1, n) = Total(g, n) + g1[i] - g[i]
  <2>1. n \in Nat /\ i \in 1..n /\ g1[i] \in Int
    BY <1>1, <1>6
  <2> QED BY ONLY <2>1, <1>4, <1>5, TotalUpdate
<1> QED BY <1>3, <1>6, <1>7

\* Sums of the same numbers, and of zeros.
LEMMA SetTotalSame ==
  ASSUME NEW S, IsFiniteSet(S), NEW f, NEW h, \A x \in S : f[x] \in Int /\ h[x] = f[x]
  PROVE  SetTotal(h, S) = SetTotal(f, S)
<1> DEFINE n == Cardinality(S)
           e == Enumeration(S)
           g == [k \in 1..n |-> f[e[k]]]
           g1 == [k \in 1..n |-> h[e[k]]]
<1>1. n \in Nat /\ e \in [1..n -> S]
  BY EnumerationExists
<1>2. SetTotal(f, S) = Total(g, n) /\ SetTotal(h, S) = Total(g1, n)
  BY DEF SetTotal
<1> HIDE DEF n, e
<1>3. \A k \in 1..n : g[k] \in Int /\ g1[k] = g[k]
  BY <1>1
<1> HIDE DEF g, g1
<1> QED BY <1>1, <1>2, <1>3, TotalSame

LEMMA SetTotalZero ==
  ASSUME NEW S, IsFiniteSet(S), NEW f, \A x \in S : f[x] = 0
  PROVE  SetTotal(f, S) = 0
<1> DEFINE n == Cardinality(S)
           e == Enumeration(S)
           g == [k \in 1..n |-> f[e[k]]]
           Z == {m \in Nat : m <= n => Total(g, m) = 0}
<1>1. n \in Nat /\ e \in [1..n -> S]
  BY EnumerationExists
<1>2. SetTotal(f, S) = Total(g, n)
  BY DEF SetTotal
<1> HIDE DEF n, e
<1>3. \A k \in 1..n : g[k] = 0
  BY <1>1
<1> HIDE DEF g
<1>4. 0 \in Z
  BY TotalEmpty
<1>5. ASSUME NEW m \in Nat, m \in Z PROVE m + 1 \in Z
  <2> SUFFICES ASSUME m + 1 <= n PROVE Total(g, m + 1) = 0
    OBVIOUS
  <2>1. \A k \in 1..(m + 1) : g[k] \in Int
    BY <1>1, <1>3
  <2>2. Total(g, m + 1) = Total(g, m) + g[m + 1]
    BY <2>1, TotalStep
  <2>3. Total(g, m) = 0 /\ g[m + 1] = 0
    BY <1>1, <1>3, <1>5
  <2> QED BY <2>2, <2>3
<1>6. n \in Z
  <2> HIDE DEF Z
  <2> QED BY <1>1, <1>4, <1>5, NatSetInduction
<1> QED BY <1>1, <1>2, <1>6

\* A sum whose entries grow by multiples.
LEMMA TotalPlus ==
  ASSUME NEW n \in Nat, NEW f, NEW g, NEW h, NEW a \in Int,
         \A i \in 1..n : f[i] \in Int /\ g[i] \in Int /\ h[i] = f[i] + a * g[i]
  PROVE  Total(h, n) = Total(f, n) + a * Total(g, n)
<1> DEFINE S == {m \in Nat : m <= n => Total(h, m) = Total(f, m) + a * Total(g, m)}
<1>1. 0 \in S
  <2>1. a * 0 = 0
    OBVIOUS
  <2> QED BY <2>1, TotalEmpty
<1>2. \A m \in Nat : m \in S => m + 1 \in S
  <2> SUFFICES ASSUME NEW m \in Nat, m \in S, m + 1 <= n
               PROVE  Total(h, m + 1) = Total(f, m + 1) + a * Total(g, m + 1)
    OBVIOUS
  <2>0. \A i \in 1..(m + 1) : f[i] \in Int /\ g[i] \in Int
    OBVIOUS
  <2>1. \A i \in 1..(m + 1) : h[i] \in Int
    <3> SUFFICES ASSUME NEW i \in 1..(m + 1) PROVE h[i] \in Int
      OBVIOUS
    <3>1. h[i] = f[i] + a * g[i] /\ f[i] \in Int /\ g[i] \in Int
      OBVIOUS
    <3>2. a * g[i] \in Int
      BY <3>1
    <3> QED BY <3>1, <3>2
  <2>2. /\ Total(h, m + 1) = Total(h, m) + h[m + 1] /\ Total(f, m + 1) = Total(f, m) + f[m + 1]
        /\ Total(g, m + 1) = Total(g, m) + g[m + 1]
    BY <2>0, <2>1, TotalStep
  <2>3. Total(f, m) \in Int /\ Total(g, m) \in Int
    BY <2>0, TotalInt
  <2>4. h[m + 1] = f[m + 1] + a * g[m + 1] /\ f[m + 1] \in Int /\ g[m + 1] \in Int
    OBVIOUS
  <2>5. Total(h, m) = Total(f, m) + a * Total(g, m)
    OBVIOUS
  <2>6. a * (Total(g, m) + g[m + 1]) = a * Total(g, m) + a * g[m + 1]
    BY <2>3, <2>4, Distributed
  <2>7. a * Total(g, m) \in Int /\ a * g[m + 1] \in Int
    BY <2>3, <2>4
  <2> QED BY <2>2, <2>3, <2>4, <2>5, <2>6, <2>7
<1>3. n \in S
  <2> HIDE DEF S
  <2> QED BY <1>1, <1>2, NatSetInduction
<1> QED BY <1>3

\* The same of the sum over a set.
LEMMA SetTotalPlus ==
  ASSUME NEW S, IsFiniteSet(S), NEW f, NEW g, NEW h, NEW a \in Int,
         \A x \in S : f[x] \in Int /\ g[x] \in Int /\ h[x] = f[x] + a * g[x]
  PROVE  SetTotal(h, S) = SetTotal(f, S) + a * SetTotal(g, S)
<1> DEFINE n == Cardinality(S)
           e == Enumeration(S)
           f1 == [k \in 1..n |-> f[e[k]]]
           g1 == [k \in 1..n |-> g[e[k]]]
           h1 == [k \in 1..n |-> h[e[k]]]
<1>1. n \in Nat /\ e \in [1..n -> S]
  BY EnumerationExists
<1>2. SetTotal(f, S) = Total(f1, n) /\ SetTotal(g, S) = Total(g1, n) /\ SetTotal(h, S) = Total(h1, n)
  BY DEF SetTotal
<1> HIDE DEF n, e
<1>3. \A k \in 1..n : f1[k] \in Int /\ g1[k] \in Int /\ h1[k] = f1[k] + a * g1[k]
  BY <1>1
<1> HIDE DEF f1, g1, h1
<1> QED BY <1>1, <1>2, <1>3, TotalPlus

\* A sum over a set whose entries are at most those of another.
LEMMA SetTotalOrder ==
  ASSUME NEW S, IsFiniteSet(S), NEW f, NEW h,
         \A x \in S : f[x] \in Int /\ h[x] \in Int /\ h[x] <= f[x]
  PROVE  SetTotal(h, S) <= SetTotal(f, S)
<1> DEFINE n == Cardinality(S)
           e == Enumeration(S)
           f1 == [k \in 1..n |-> f[e[k]]]
           h1 == [k \in 1..n |-> h[e[k]]]
<1>1. n \in Nat /\ e \in [1..n -> S]
  BY EnumerationExists
<1>2. SetTotal(f, S) = Total(f1, n) /\ SetTotal(h, S) = Total(h1, n)
  BY DEF SetTotal
<1> HIDE DEF n, e
<1>3. \A k \in 1..n : f1[k] \in Int /\ h1[k] \in Int /\ h1[k] <= f1[k]
  BY <1>1
<1> HIDE DEF f1, h1
<1> QED BY <1>1, <1>2, <1>3, TotalOrder

\* A sum of integers over a set is an integer.
LEMMA SetTotalInt ==
  ASSUME NEW S, IsFiniteSet(S), NEW f, \A x \in S : f[x] \in Int
  PROVE  SetTotal(f, S) \in Int
<1> DEFINE n == Cardinality(S)
           e == Enumeration(S)
           f1 == [k \in 1..n |-> f[e[k]]]
<1>1. n \in Nat /\ e \in [1..n -> S]
  BY EnumerationExists
<1>2. SetTotal(f, S) = Total(f1, n)
  BY DEF SetTotal
<1> HIDE DEF n, e
<1>3. \A k \in 1..n : f1[k] \in Int
  BY <1>1
<1> HIDE DEF f1
<1> QED BY <1>1, <1>2, <1>3, TotalInt

\* A sum with one more entry.
LEMMA TotalGrows ==
  ASSUME NEW n \in Nat, NEW f, NEW g, \A k \in 1..n : f[k] \in Int /\ g[k] = f[k],
         g[n + 1] \in Int
  PROVE  Total(g, n + 1) = Total(f, n) + g[n + 1]
<1>1. Total(g, n) = Total(f, n)
  BY TotalSame
<1>2. \A k \in 1..(n + 1) : g[k] \in Int
  OBVIOUS
<1> QED BY <1>1, <1>2, TotalStep

-----------------------------------------------------------------------------
(* The part of a list at a set of places.                                  *)

\* PartialPicks solves its recursion: it can be unfolded.
LEMMA PartialPicksDef ==
    ASSUME NEW S, NEW s \in Seq(S), NEW T
    PROVE  LET p == PartialPicks(s, T)
           IN  /\ p \in [0..Len(s) -> Seq(S)] /\ p[0] = <<>>
               /\ \A n \in 1..Len(s) : p[n] = IF n \in T THEN Append(p[n - 1], s[n]) ELSE p[n - 1]
<1> DEFINE N == Len(s)
           Next(n, q) == IF n \in T THEN Append(q, s[n]) ELSE q
           IsPick(g) == g = [n \in 0..N |-> IF n = 0 THEN <<>> ELSE Next(n, g[n - 1])]
           p == CHOOSE g : IsPick(g)
<1>1. N \in Nat /\ \A n \in 1..N : s[n] \in S
  OBVIOUS
<1>2. \A n \in 1..N, q \in Seq(S) : Next(n, q) \in Seq(S)
  BY <1>1, AppendProperties
<1>3. \E g : IsPick(g) /\ g \in [0..N -> Seq(S)]
  <2> DEFINE f == [x \in Nat \X Seq(S) |-> IF x[1] \in 1..N THEN Next(x[1], x[2]) ELSE x[2]]
  <2> HIDE DEF Next, N
  <2>1. f \in [Nat \X Seq(S) -> Seq(S)] /\ <<>> \in Seq(S)
    BY <1>2
  <2>2. \A n \in 1..N, q \in Seq(S) : f[<<n, q>>] = Next(n, q)
    BY <1>1
  <2> HIDE DEF f
  <2>3. PICK g : Recursion(g, Seq(S), <<>>, f, N)
    BY <1>1, <2>1, RecursionExists
  <2>4. ASSUME NEW n \in 0..N
        PROVE  g[n] = IF n = 0 THEN <<>> ELSE Next(n, g[n - 1])
    <3>1. CASE n = 0
      BY <2>3, <3>1 DEF Recursion
    <3>2. CASE n # 0
      <4>1. n \in 1..N /\ n - 1 \in 0..N
        BY <1>1, <3>2
      <4> QED BY <2>2, <2>3, <3>2, <4>1 DEF Recursion
    <3> QED BY <3>1, <3>2
  <2>5. g = [n \in 0..N |-> IF n = 0 THEN <<>> ELSE Next(n, g[n - 1])] /\ g \in [0..N -> Seq(S)]
    BY <2>3, <2>4 DEF Recursion
  <2> QED BY <2>5
<1>4. IsPick(p)
  BY <1>3
<1>5. PartialPicks(s, T) = p
  BY DEF PartialPicks
<1> HIDE DEF p, Next, N
<1>6. p[0] = <<>> /\ \A n \in 1..N : p[n] = Next(n, p[n - 1])
  <2>1. 0 \in 0..N /\ \A n \in 1..N : n \in 0..N /\ n # 0
    BY <1>1
  <2> QED BY <1>4, <2>1
<1>7. p \in [0..N -> Seq(S)]
  <2>1. \A n \in 0..N : p[n] \in Seq(S)
    <3> TAKE m \in 0..N
    <3> DEFINE X == Seq(S)
    <3>1. p[0] \in X /\ \A k \in 1..m : p[k - 1] \in X => p[k] \in X
      <4>1. \A k \in 1..m : k \in 1..N
        BY <1>1
      <4> QED BY <1>2, <1>6, <4>1
    <3> HIDE DEF X
    <3>2. m \in Nat
      BY <1>1
    <3>3. p[m] \in X
      BY <3>1, <3>2, RecursionStays
    <3> QED BY <3>3 DEF X
  <2>2. DOMAIN p = 0..N /\ p = [n \in 0..N |-> p[n]]
    BY <1>4
  <2> HIDE DEF IsPick
  <2> QED BY <2>1, <2>2
<1> QED BY <1>5, <1>6, <1>7 DEF Next, N

\* The places the entries were picked from: e of them, up to place n, in their order.
Places(q, e, s, T, n) ==
    /\ e \in [1..Len(q) -> {i \in T : i \in 1..n}]
    /\ \A k \in 1..Len(q) : q[k] = s[e[k]]
    /\ \A j, k \in 1..Len(q) : j < k => e[j] < e[k]
    /\ \A i \in T : i \in 1..n => \E k \in 1..Len(q) : e[k] = i

LEMMA OnePlaceMore ==
    ASSUME NEW S, NEW s \in Seq(S), NEW T, NEW q \in Seq(S), NEW n \in Nat, n + 1 \in 1..Len(s),
           NEW e, Places(q, e, s, T, n)
    PROVE  /\ n + 1 \in T => \E d : Places(Append(q, s[n + 1]), d, s, T, n + 1)
           /\ n + 1 \notin T => Places(q, e, s, T, n + 1)
<1>1. CASE n + 1 \in T
  <2> DEFINE m == Len(q)
             t == Append(q, s[n + 1])
             d == [k \in 1..m + 1 |-> IF k = m + 1 THEN n + 1 ELSE e[k]]
  <2>1. m \in Nat /\ Len(t) = m + 1 /\ t[m + 1] = s[n + 1] /\ \A k \in 1..m : t[k] = q[k]
    OBVIOUS
  <2>0. e \in [1..m -> {i \in T : i \in 1..n}]
    BY DEF Places
  <2> HIDE DEF m
  <2>2. /\ \A k \in 1..m : e[k] \in T /\ e[k] \in 1..n /\ d[k] = e[k]
        /\ d[m + 1] = n + 1 /\ \A k \in 1..m + 1 : k \in 1..m \/ k = m + 1
    BY <2>0, <2>1
  <2>3. d \in [1..m + 1 -> {i \in T : i \in 1..n + 1}]
    <3>1. d = [k \in 1..m + 1 |-> d[k]]
      OBVIOUS
    <3> HIDE DEF d
    <3>2. \A k \in 1..m + 1 : d[k] \in T /\ d[k] \in 1..n + 1
      <4> TAKE k \in 1..m + 1
      <4>1. CASE k \in 1..m
        <5>1. e[k] \in T /\ e[k] \in 1..n /\ d[k] = e[k]
          BY <2>2, <4>1
        <5> QED BY <5>1
      <4>2. CASE k = m + 1
        BY <1>1, <2>2, <4>2
      <4> QED BY <2>2, <4>1, <4>2
    <3> QED BY <3>1, <3>2
  <2> HIDE DEF d, t
  <2>4. \A k \in 1..m + 1 : t[k] = s[d[k]]
    BY <2>1, <2>2 DEF Places, m
  <2>5. \A j, k \in 1..m + 1 : j < k => d[j] < d[k]
    <3> SUFFICES ASSUME NEW j \in 1..m + 1, NEW k \in 1..m + 1, j < k PROVE d[j] < d[k]
      OBVIOUS
    <3>1. j \in 1..m
      BY <2>1
    <3>2. CASE k = m + 1
      BY <2>2, <3>1, <3>2
    <3>3. CASE k \in 1..m
      BY <2>2, <3>1, <3>3 DEF Places, m
    <3> QED BY <2>2, <3>2, <3>3
  <2>6. ASSUME NEW i \in T, i \in 1..n + 1 PROVE \E k \in 1..m + 1 : d[k] = i
    <3>1. CASE i = n + 1
      BY <2>1, <2>2, <3>1
    <3>2. CASE i # n + 1
      <4>1. i \in 1..n
        BY <2>6, <3>2
      <4>2. PICK k \in 1..m : e[k] = i
        BY <4>1 DEF Places, m
      <4>3. k \in 1..m + 1
        BY <2>1
      <4>4. d[k] = i
        BY <2>2, <4>2
      <4> QED BY <4>3, <4>4
    <3> QED BY <3>1, <3>2
  <2>7. Places(t, d, s, T, n + 1)
    BY <2>1, <2>3, <2>4, <2>5, <2>6 DEF Places
  <2> QED BY <1>1, <2>7 DEF t
<1>2. CASE n + 1 \notin T
  <2>1. \A i \in T : i \in 1..n + 1 <=> i \in 1..n
    BY <1>2
  <2>2. {i \in T : i \in 1..n + 1} = {i \in T : i \in 1..n}
    BY <2>1
  <2> QED BY <1>2, <2>1, <2>2 DEF Places
<1> QED BY <1>1, <1>2

\* The entries at a set of places: each of them, in the order of the places.
LEMMA PickedIs ==
    ASSUME NEW S, NEW s \in Seq(S), NEW T, T \subseteq 1..Len(s)
    PROVE  /\ Picked(s, T) \in Seq(S)
           /\ \E e : Places(Picked(s, T), e, s, T, Len(s))
<1> DEFINE p == PartialPicks(s, T)
           N == Len(s)
<1>1. N \in Nat /\ p \in [0..N -> Seq(S)] /\ p[0] = <<>>
      /\ \A n \in 1..N : p[n] = IF n \in T THEN Append(p[n - 1], s[n]) ELSE p[n - 1]
  BY PartialPicksDef
<1> HIDE DEF p
<1> DEFINE Q == {n \in Nat : n <= N => \E e : Places(p[n], e, s, T, n)}
<1>2. 0 \in Q
  <2>1. Places(<<>>, <<>>, s, T, 0)
    BY DEF Places
  <2> QED BY <1>1, <2>1
<1>3. ASSUME NEW n \in Nat, n \in Q PROVE n + 1 \in Q
  <2> SUFFICES ASSUME n + 1 <= N PROVE \E e : Places(p[n + 1], e, s, T, n + 1)
    OBVIOUS
  <2>1. n + 1 \in 1..N /\ (n + 1) - 1 = n /\ n \in 0..N /\ n <= N
    BY <1>1
  <2>2. PICK e : Places(p[n], e, s, T, n)
    BY <1>3, <2>1
  <2>3. p[n] \in Seq(S) /\ p[n + 1] = IF n + 1 \in T THEN Append(p[n], s[n + 1]) ELSE p[n]
    BY <1>1, <2>1
  <2> HIDE DEF Q
  <2> QED BY <2>1, <2>2, <2>3, OnePlaceMore DEF N
<1> HIDE DEF Q
<1>4. N \in Q
  BY <1>1, <1>2, <1>3, NatSetInduction
<1>5. \E e : Places(p[N], e, s, T, N)
  BY <1>1, <1>4 DEF Q
<1> QED BY <1>1, <1>5 DEF Picked, p, N

\* g are the values of what is picked from s, and h those at its places.
PickedValues(S, s, T, f, g, h) ==
    /\ s \in Seq(S) /\ f \in [S -> Int]
    /\ \A k \in 1..Len(Picked(s, T)) : g[k] = f[Picked(s, T)[k]]
    /\ \A i \in 1..Len(s) : h[i] = IF i \in T THEN f[s[i]] ELSE 0

\* What is picked sums to the values at its places.
LEMMA PickedTotal ==
    ASSUME NEW S, NEW s, NEW T, NEW f, NEW g, NEW h, PickedValues(S, s, T, f, g, h)
    PROVE  Total(g, Len(Picked(s, T))) = Total(h, Len(s))
<1>0. /\ s \in Seq(S) /\ f \in [S -> Int]
      /\ \A k \in 1..Len(Picked(s, T)) : g[k] = f[Picked(s, T)[k]]
      /\ \A i \in 1..Len(s) : h[i] = IF i \in T THEN f[s[i]] ELSE 0
  BY DEF PickedValues
<1> DEFINE p == PartialPicks(s, T)
           N == Len(s)
           V(q) == [k \in 1..Len(q) |-> f[q[k]]]
<1>1. N \in Nat /\ p \in [0..N -> Seq(S)] /\ p[0] = <<>>
      /\ \A n \in 1..N : p[n] = IF n \in T THEN Append(p[n - 1], s[n]) ELSE p[n - 1]
  BY <1>0, PartialPicksDef
<1>2. \A i \in 1..N : s[i] \in S /\ h[i] = (IF i \in T THEN f[s[i]] ELSE 0) /\ h[i] \in Int
  BY <1>0
<1> HIDE DEF p
<1> DEFINE Q == {n \in Nat : n <= N => Total(V(p[n]), Len(p[n])) = Total(h, n)}
<1>3. 0 \in Q
  <2>1. Total(h, 0) = 0 /\ Total(V(<<>>), 0) = 0
    BY TotalEmpty
  <2> QED BY <1>1, <2>1
<1>4. ASSUME NEW n \in Nat, n \in Q PROVE n + 1 \in Q
  <2> SUFFICES ASSUME n + 1 <= N
               PROVE  Total(V(p[n + 1]), Len(p[n + 1])) = Total(h, n + 1)
    OBVIOUS
  <2> DEFINE q == p[n]
             r == p[n + 1]
             m == Len(q)
  <2>1. n + 1 \in 1..N /\ (n + 1) - 1 = n /\ n \in 0..N /\ n <= N
    BY <1>1
  <2>2. q \in Seq(S) /\ r = IF n + 1 \in T THEN Append(q, s[n + 1]) ELSE q
    BY <1>1, <2>1
  <2>3. Total(V(q), m) = Total(h, n)
    BY <1>4, <2>1
  <2>4. Total(h, n + 1) = Total(h, n) + h[n + 1]
    <3>1. \A i \in 1..n + 1 : h[i] \in Int
      BY <1>2, <2>1
    <3> QED BY <3>1, TotalStep
  <2>5. Total(h, n) \in Int
    <3>1. \A i \in 1..n : h[i] \in Int
      BY <1>2, <2>1
    <3> QED BY <3>1, TotalInt
  <2> HIDE DEF q, r, Q
  <2>6. CASE n + 1 \in T
    <3>1. m \in Nat /\ Len(r) = m + 1 /\ r[m + 1] = s[n + 1] /\ \A k \in 1..m : r[k] = q[k]
      BY <1>2, <2>1, <2>2, <2>6
    <3>2. \A k \in 1..m + 1 : V(r)[k] \in Int
      <4>1. r \in Seq(S)
        BY <1>2, <2>1, <2>2, <2>6
      <4> QED BY <1>0, <3>1, <4>1
    <3>3. V(r)[m + 1] = h[n + 1]
      BY <1>2, <2>1, <2>6, <3>1
    <3>4. \A k \in 1..m : V(r)[k] = V(q)[k] /\ V(q)[k] \in Int
      BY <1>0, <2>2, <3>1
    <3> HIDE DEF V
    <3>5. Total(V(r), m + 1) = Total(V(r), m) + V(r)[m + 1]
      BY <3>1, <3>2, TotalStep
    <3>6. Total(V(r), m) = Total(V(q), m)
      BY <3>1, <3>4, TotalSame
    <3> QED BY <2>3, <2>4, <3>1, <3>3, <3>5, <3>6 DEF q, r
  <2>7. CASE n + 1 \notin T
    <3>1. h[n + 1] = 0 /\ r = q
      BY <1>2, <2>1, <2>2, <2>7
    <3> HIDE DEF V
    <3> QED BY <2>3, <2>4, <2>5, <3>1 DEF q, r
  <2> QED BY <2>6, <2>7
<1>5. N \in Q
  <2> HIDE DEF Q
  <2> QED BY <1>1, <1>3, <1>4, NatSetInduction
<1>6. Total(V(p[N]), Len(p[N])) = Total(h, N) /\ p[N] \in Seq(S)
  BY <1>1, <1>5
<1> DEFINE r == p[N]
<1>7. r = Picked(s, T)
  BY DEF Picked, p, N
<1> HIDE DEF r
<1>8. \A k \in 1..Len(r) : V(r)[k] \in Int /\ g[k] = V(r)[k]
  BY <1>0, <1>6, <1>7 DEF r
<1>9. Len(r) \in Nat
  BY <1>6 DEF r
<1> DEFINE v == V(r)
<1>10. Total(v, Len(r)) = Total(h, N)
  BY <1>6 DEF r
<1> HIDE DEF v, V
<1>11. \A k \in 1..Len(r) : v[k] \in Int /\ g[k] = v[k]
  BY <1>8 DEF v
<1>12. Total(g, Len(r)) = Total(v, Len(r))
  BY <1>9, <1>11, TotalSame
<1> QED BY <1>7, <1>10, <1>12

\* A list and its continuation sum to the sum of both.
\* h is f up to n, and g from there.
Follows(h, f, n, g, m) ==
    /\ \A i \in 1..n : f[i] \in Int /\ h[i] = f[i]
    /\ \A i \in 1..m : g[i] \in Int /\ h[n + i] = g[i]

LEMMA TotalConcat ==
    ASSUME NEW n \in Nat, NEW m \in Nat, NEW f, NEW g, NEW h, Follows(h, f, n, g, m)
    PROVE  Total(h, n + m) = Total(f, n) + Total(g, m)
<1> DEFINE S == {k \in Nat : k <= m => Total(h, n + k) = Total(f, n) + Total(g, k)}
<1>0. /\ \A i \in 1..n : f[i] \in Int /\ h[i] = f[i]
      /\ \A i \in 1..m : g[i] \in Int /\ h[n + i] = g[i]
  BY DEF Follows
<1>1. Total(f, n) \in Int /\ Total(h, n) = Total(f, n)
  BY <1>0, TotalInt, TotalSame
<1>2. 0 \in S
  <2>1. n + 0 = n /\ Total(g, 0) = 0
    BY TotalEmpty
  <2> QED BY <1>1, <2>1
<1>3. ASSUME NEW k \in Nat, k \in S PROVE k + 1 \in S
  <2> SUFFICES ASSUME k + 1 <= m PROVE Total(h, n + (k + 1)) = Total(f, n) + Total(g, k + 1)
    OBVIOUS
  <2>1. Total(h, n + k) = Total(f, n) + Total(g, k)
    BY <1>3
  <2>2. k + 1 \in 1..m /\ \A i \in 1..k + 1 : i \in 1..m
    OBVIOUS
  <2>3. Total(g, k) \in Int /\ Total(g, k + 1) = Total(g, k) + g[k + 1]
    <3>1. \A i \in 1..k + 1 : g[i] \in Int
      BY <1>0, <2>2
    <3>2. \A i \in 1..k : g[i] \in Int
      BY <3>1
    <3> QED BY <3>1, <3>2, TotalInt, TotalStep
  <2>4. \A i \in 1..(n + k) + 1 : h[i] \in Int
    <3> TAKE i \in 1..(n + k) + 1
    <3>1. CASE i <= n
      BY <1>0, <3>1
    <3>2. CASE i > n
      <4>1. i - n \in 1..m /\ n + (i - n) = i
        BY <2>2, <3>2
      <4>2. h[n + (i - n)] \in Int
        BY <1>0, <4>1
      <4> QED BY <4>1, <4>2
    <3> QED BY <3>1, <3>2
  <2>5. Total(h, (n + k) + 1) = Total(h, n + k) + h[(n + k) + 1]
    <3>1. n + k \in Nat
      OBVIOUS
    <3> QED BY <2>4, <3>1, TotalStep
  <2>6. n + (k + 1) = (n + k) + 1 /\ h[n + (k + 1)] = g[k + 1] /\ g[k + 1] \in Int
    BY <1>0, <2>2
  <2> QED BY <1>1, <2>1, <2>3, <2>5, <2>6
<1> HIDE DEF S
<1>4. m \in S
  BY <1>2, <1>3, NatSetInduction
<1> QED BY <1>4 DEF S

\* The entries of a list without repetition are as many as its places.
LEMMA DistinctEntries ==
    ASSUME NEW S, NEW s \in Seq(S), \A i, j \in 1..Len(s) : s[i] = s[j] => i = j
    PROVE  Cardinality({s[i] : i \in DOMAIN s}) = Len(s)
<1> DEFINE T == {s[i] : i \in DOMAIN s}
           f == [i \in 1..Len(s) |-> s[i]]
<1>1. Len(s) \in Nat /\ DOMAIN s = 1..Len(s)
  OBVIOUS
<1>2. f \in [1..Len(s) -> T] /\ \A i \in 1..Len(s) : f[i] = s[i]
  BY <1>1
<1>3. \A t \in T : \E i \in 1..Len(s) : s[i] = t
  BY <1>1
<1> HIDE DEF T, f
<1>4. f \in Bijection(1..Len(s), T)
  BY <1>2, <1>3 DEF Bijection, Injection, IsInjective, Surjection
<1>5. ExistsBijection(1..Len(s), T)
  BY <1>4 DEF ExistsBijection
<1> QED BY <1>1, <1>5, FS_CountingElements DEF T

\* T are the places of s from one on, and r is what stands there.
LastPlaces(T, s) ==
    T \subseteq 1..Len(s) /\ \A i \in T : \A j \in 1..Len(s) : i <= j => j \in T
EndOf(r, s) ==
    \E c \in 0..Len(s) : Len(r) = Len(s) - c /\ \A k \in 1..Len(s) - c : r[k] = s[c + k]

\* What is picked from some place on is the end of the list.
LEMMA PickedEnd ==
    ASSUME NEW S, NEW s \in Seq(S), NEW T, LastPlaces(T, s)
    PROVE  Picked(s, T) \in Seq(S) /\ EndOf(Picked(s, T), s)
<1> DEFINE q == Picked(s, T)
           n == Len(s)
           m == Len(q)
<1>1. q \in Seq(S) /\ \E e : Places(q, e, s, T, n)
  BY PickedIs DEF LastPlaces
<1> HIDE DEF q
<1>2. PICK e : Places(q, e, s, T, n)
  BY <1>1
<1>3. /\ m \in Nat /\ n \in Nat
      /\ \A k \in 1..m : e[k] \in T /\ e[k] \in 1..n /\ q[k] = s[e[k]]
      /\ \A j, k \in 1..m : j < k => e[j] < e[k]
      /\ \A i \in T : \E k \in 1..m : e[k] = i
  <2>1. e \in [1..m -> {i \in T : i \in 1..n}] /\ \A k \in 1..m : q[k] = s[e[k]]
    BY <1>2 DEF Places
  <2>2. \A k \in 1..m : e[k] \in {i \in T : i \in 1..n}
    BY <2>1
  <2>3. m \in Nat /\ n \in Nat
    BY <1>1
  <2>4. /\ \A j, k \in 1..m : j < k => e[j] < e[k]
        /\ \A i \in T : i \in 1..n => \E k \in 1..m : e[k] = i
    BY <1>2 DEF Places
  <2>5. \A i \in T : i \in 1..n
    BY DEF LastPlaces
  <2> QED BY <2>1, <2>2, <2>3, <2>4, <2>5
<1> HIDE DEF m, n
<1>4. \A i \in T : \A j \in 1..n : i <= j => j \in T
  BY DEF LastPlaces, n
<1>5. CASE m = 0
  <2>1. n \in 0..n /\ m = n - n /\ \A k \in 1..n - n : q[k] = s[n + k]
    BY <1>3, <1>5
  <2> QED BY <1>1, <2>1 DEF EndOf, q, m, n
<1>6. CASE m # 0
  <2>1. 1 \in 1..m /\ m \in 1..m
    BY <1>3, <1>6
  <2> DEFINE c == e[1] - 1
  <2>2. c \in 0..n
    BY <1>3, <2>1
  <2>3. ASSUME NEW k \in Nat, k + 1 \in 1..m, k \in 1..m PROVE e[k + 1] = e[k] + 1
    <3>0. \A j \in 1..m : e[j] \in T /\ e[j] \in 1..n
      BY <1>3
    <3>9. \A j, l \in 1..m : j < l => e[j] < e[l]
      BY <1>3
    <3>8. k \in 1..m /\ k + 1 \in 1..m /\ k < k + 1
      BY <2>3
    <3>1. e[k] \in T /\ e[k] \in 1..n
      BY <3>0, <3>8
    <3>10. e[k + 1] \in 1..n
      BY <3>0, <3>8
    <3>11. e[k] < e[k + 1]
      BY <3>9, <3>8
    <3>2. e[k] + 1 \in 1..n /\ e[k] <= e[k] + 1
      BY <1>3, <3>1, <3>10, <3>11
    <3>3. e[k] + 1 \in T
      BY <1>4, <3>1, <3>2
    <3>4. PICK l \in 1..m : e[l] = e[k] + 1
      <4>1. \A i \in T : \E l \in 1..m : e[l] = i
        BY <1>3
      <4> QED BY <4>1, <3>3
    <3>5. ~(l < k) /\ l # k
      <4>1. l < k => e[l] < e[k]
        BY <3>9, <3>8
      <4>2. l = k => e[l] = e[k]
        OBVIOUS
      <4> QED BY <4>1, <4>2, <3>1, <3>4
    <3>6. l = k + 1 \/ k + 1 < l
      BY <3>5, <3>8
    <3>7. k + 1 < l => e[k + 1] < e[l]
      BY <3>9, <3>8
    <3> QED BY <3>1, <3>10, <3>11, <3>4, <3>6, <3>7
  <2> HIDE DEF c
  <2> DEFINE G == {k \in Nat : k \in 1..m => e[k] = c + k}
  <2>4. 0 \in G
    OBVIOUS
  <2>5. ASSUME NEW k \in Nat, k \in G PROVE k + 1 \in G
    <3> SUFFICES ASSUME k + 1 \in 1..m PROVE e[k + 1] = c + (k + 1)
      OBVIOUS
    <3>1. CASE k = 0
      <4>1. e[1] = c + 1
        BY <1>3, <2>1 DEF c
      <4> QED BY <3>1, <4>1
    <3>2. CASE k # 0
      <4>1. k \in 1..m
        BY <1>3, <3>2
      <4>2. e[k] = c + k /\ e[k + 1] = e[k] + 1
        BY <2>3, <2>5, <4>1
      <4> QED BY <2>2, <4>2
    <3> QED BY <3>1, <3>2
  <2> HIDE DEF G
  <2>6. \A k \in Nat : k \in G
    <3> TAKE k \in Nat
    <3> QED BY <2>4, <2>5, NatSetInduction
  <2>7. \A k \in 1..m : e[k] = c + k
    BY <2>6 DEF G
  <2>8. e[m] = n
    <3>0. \A j \in 1..m : e[j] \in T /\ e[j] \in 1..n
      BY <1>3
    <3>9. \A j, l \in 1..m : j < l => e[j] < e[l]
      BY <1>3
    <3>1. e[m] \in T /\ e[m] \in 1..n
      BY <3>0, <2>1
    <3>2. n \in 1..n /\ e[m] <= n
      BY <1>3, <3>1
    <3>3. PICK l \in 1..m : e[l] = n
      <4>1. \A i \in T : \E l \in 1..m : e[l] = i
        BY <1>3
      <4>2. n \in T
        BY <1>4, <3>1, <3>2
      <4> QED BY <4>1, <4>2
    <3>4. l = m \/ l < m
      BY <1>3
    <3>5. l < m => e[l] < e[m]
      BY <3>9, <2>1
    <3> QED BY <3>1, <3>2, <3>3, <3>4, <3>5
  <2>9. m = n - c
    BY <1>3, <2>1, <2>2, <2>7, <2>8
  <2>10. \A k \in 1..n - c : q[k] = s[c + k]
    BY <1>3, <2>7, <2>9
  <2> QED BY <1>1, <2>2, <2>9, <2>10 DEF EndOf, q, m, n
<1> QED BY <1>5, <1>6

\* The mean of some numbers lies between their bounds.
LEMMA MeanInside ==
    ASSUME NEW n \in Nat \ {0}, NEW f, NEW lo \in Nat, NEW hi \in Nat,
           \A i \in 1..n : f[i] \in Nat /\ lo <= f[i] /\ f[i] <= hi
    PROVE  lo <= Total(f, n) \div n /\ Total(f, n) \div n <= hi /\ Total(f, n) \div n \in Nat
<1> DEFINE S == {m \in Nat : m <= n => /\ Total(f, m) \in Nat
                                       /\ lo * m <= Total(f, m) /\ Total(f, m) <= hi * m}
<1>1. 0 \in S
  BY TotalEmpty
<1>2. ASSUME NEW m \in Nat, m \in S PROVE m + 1 \in S
  <2> SUFFICES ASSUME m + 1 <= n
               PROVE  /\ Total(f, m + 1) \in Nat
                      /\ lo * (m + 1) <= Total(f, m + 1) /\ Total(f, m + 1) <= hi * (m + 1)
    OBVIOUS
  <2>1. \A i \in 1..(m + 1) : f[i] \in Int
    OBVIOUS
  <2>2. Total(f, m + 1) = Total(f, m) + f[m + 1]
    BY <2>1, TotalStep
  <2>3. f[m + 1] \in Nat /\ lo <= f[m + 1] /\ f[m + 1] <= hi
    OBVIOUS
  <2>4. lo * (m + 1) = lo * m + lo /\ hi * (m + 1) = hi * m + hi /\ lo * m \in Nat /\ hi * m \in Nat
    <3>1. lo * (m + 1) = lo * m + lo * 1 /\ hi * (m + 1) = hi * m + hi * 1
      BY Distributed
    <3> QED BY <3>1, ProductNat
  <2>5. Total(f, m) \in Nat /\ lo * m <= Total(f, m) /\ Total(f, m) <= hi * m
    BY <1>2
  <2> DEFINE t == Total(f, m)
             u == Total(f, m + 1)
             a == lo * m
             b == hi * m
  <2>6. /\ u = t + f[m + 1] /\ t \in Nat /\ a \in Nat /\ b \in Nat /\ a <= t /\ t <= b
        /\ lo * (m + 1) = a + lo /\ hi * (m + 1) = b + hi
    BY <2>2, <2>4, <2>5
  <2> HIDE DEF t, u, a, b
  <2>7. u \in Nat /\ a + lo <= u /\ u <= b + hi
    BY <2>3, <2>6
  <2> QED BY <2>6, <2>7 DEF u
<1> HIDE DEF S
<1>3. n \in S
  BY <1>1, <1>2, NatSetInduction
<1> DEFINE t == Total(f, n)
<1>4. t \in Nat /\ lo * n <= t /\ t <= hi * n
  BY <1>3 DEF S
<1> HIDE DEF t
<1>5. lo <= t \div n
  BY <1>4, QuotientOrder
<1>6. t \div n \in Nat
  BY <1>4, RoundedDown
<1>7. t < (hi + 1) * n
  <2>1. (hi + 1) * n = hi * n + 1 * n
    BY Distributed
  <2>2. hi * n \in Nat /\ 1 * n = n
    BY ProductNat
  <2> QED BY <1>4, <2>1, <2>2
<1>8. t \div n < hi + 1
  <2>1. hi + 1 \in Nat
    OBVIOUS
  <2> QED BY <1>4, <1>7, <2>1, QuotientOrder
<1> QED BY <1>5, <1>6, <1>8 DEF t

\* Two parts of a list that follow on each other.
LEMMA PartsJoin ==
    ASSUME NEW S, NEW s \in Seq(S), NEW a \in 0..Len(s), NEW b \in 0..Len(s), a <= b
    PROVE  SubSeq(s, 1, a) \o SubSeq(s, a + 1, b) = SubSeq(s, 1, b)
<1> DEFINE u == SubSeq(s, 1, a)
           v == SubSeq(s, a + 1, b)
           w == SubSeq(s, 1, b)
           n == Len(s)
<1>0. n \in Nat /\ a \in Nat /\ b \in Nat /\ a <= n /\ b <= n /\ \A i \in 1..n : s[i] \in S
  OBVIOUS
<1> HIDE DEF n
<1>1. u \in Seq(S) /\ Len(u) = a /\ \A i \in 1..a : u[i] = s[i]
  <2>1. \A i \in 1..a : s[i] \in S
    BY <1>0
  <2>2. u \in Seq(S) /\ Len(u) = (IF 1 <= a THEN a - 1 + 1 ELSE 0) /\ \A i \in 1..a - 1 + 1 : u[i] = s[1 + i - 1]
    BY <1>0, <2>1, SubSeqProperties
  <2> HIDE DEF u
  <2>3. a - 1 + 1 = a /\ \A i \in 1..a : 1 + i - 1 = i
    BY <1>0
  <2> QED BY <1>0, <2>2, <2>3
<1>2. w \in Seq(S) /\ Len(w) = b /\ \A i \in 1..b : w[i] = s[i]
  <2>1. \A i \in 1..b : s[i] \in S
    BY <1>0
  <2>2. w \in Seq(S) /\ Len(w) = (IF 1 <= b THEN b - 1 + 1 ELSE 0) /\ \A i \in 1..b - 1 + 1 : w[i] = s[1 + i - 1]
    BY <1>0, <2>1, SubSeqProperties
  <2> HIDE DEF w
  <2>3. b - 1 + 1 = b /\ \A i \in 1..b : 1 + i - 1 = i
    BY <1>0
  <2> QED BY <1>0, <2>2, <2>3
<1>3. v \in Seq(S) /\ Len(v) = b - a /\ \A i \in 1..b - a : v[i] = s[a + i]
  <2>1. a + 1 \in Int /\ \A i \in a + 1..b : s[i] \in S
    BY <1>0
  <2>2. /\ v \in Seq(S) /\ Len(v) = (IF a + 1 <= b THEN b - (a + 1) + 1 ELSE 0)
        /\ \A i \in 1..b - (a + 1) + 1 : v[i] = s[(a + 1) + i - 1]
    BY <1>0, <2>1, SubSeqProperties
  <2> HIDE DEF v
  <2>3. b - (a + 1) + 1 = b - a /\ \A i \in 1..b - a : (a + 1) + i - 1 = a + i
    BY <1>0
  <2> QED BY <1>0, <2>2, <2>3
<1> HIDE DEF u, v, w
<1> DEFINE t == u \o v
<1>4. /\ t \in Seq(S) /\ Len(t) = a + (b - a)
      /\ \A i \in 1..a + (b - a) : t[i] = IF i <= a THEN u[i] ELSE v[i - a]
  <2>1. u \in Seq(S) /\ v \in Seq(S)
    BY <1>1, <1>3
  <2>2. /\ t \in Seq(S) /\ Len(t) = Len(u) + Len(v)
        /\ \A i \in 1..Len(u) + Len(v) : t[i] = IF i <= Len(u) THEN u[i] ELSE v[i - Len(u)]
    BY <2>1, ConcatProperties
  <2> HIDE DEF t
  <2>3. Len(u) = a /\ Len(v) = b - a
    BY <1>1, <1>3
  <2> QED BY <2>2, <2>3
<1>5. a + (b - a) = b
  BY <1>0
<1> HIDE DEF t
<1>6. ASSUME NEW i \in 1..b PROVE t[i] = w[i]
  <2>1. CASE i <= a
    <3>1. i \in 1..a
      BY <1>0, <2>1
    <3> QED BY <1>1, <1>2, <1>4, <1>5, <2>1, <3>1
  <2>2. CASE ~(i <= a)
    <3>1. i - a \in 1..b - a /\ a + (i - a) = i
      BY <1>0, <2>2
    <3>2. t[i] = v[i - a] /\ v[i - a] = s[a + (i - a)]
      BY <1>3, <1>4, <1>5, <2>2, <3>1
    <3> QED BY <1>2, <3>1, <3>2
  <2> QED BY <2>1, <2>2
<1>7. t = w
  BY <1>2, <1>4, <1>5, <1>6, SeqEqual
<1> QED BY <1>7 DEF t, u, v, w

\* An entry put in at any place of a list, also after its end.
Inserted(s, k, e) == SubSeq(s, 1, k) \o <<e>> \o SubSeq(s, k + 1, Len(s))

\* t is s with e behind its first k entries.
PutAfter(t, s, k, e) ==
    /\ Len(t) = Len(s) + 1 /\ t[k + 1] = e
    /\ \A i \in 1..k : t[i] = s[i]
    /\ \A i \in k + 1..Len(s) : t[i + 1] = s[i]

LEMMA InsertAnywhere ==
    ASSUME NEW S, NEW s \in Seq(S), NEW e \in S, NEW k \in 0..Len(s)
    PROVE  Inserted(s, k, e) \in Seq(S) /\ PutAfter(Inserted(s, k, e), s, k, e)
<1> DEFINE t == SubSeq(s, 1, k) \o <<e>> \o SubSeq(s, k + 1, Len(s))
           n == Len(s)
<1>0. n \in Nat /\ k \in Nat /\ k <= n
  OBVIOUS
<1>1. CASE k < n
  <2>1. k + 1 \in 1..Len(s) /\ (k + 1) - 1 = k
    BY <1>0, <1>1
  <2>0. PICK p \in 1..Len(s) : p = k + 1
    BY <2>1
  <2> DEFINE r == SubSeq(s, 1, p - 1) \o <<e>> \o SubSeq(s, p, Len(s))
  <2>2. /\ r \in Seq(S) /\ Len(r) = Len(s) + 1 /\ r[p] = e
        /\ \A i \in 1..(p - 1) : r[i] = s[i]
        /\ \A i \in p..Len(s) : r[i + 1] = s[i]
    BY InsertIsShift
  <2>3. r = t
    BY <2>0, <2>1
  <2> HIDE DEF r, t
  <2>4. /\ t \in Seq(S) /\ Len(t) = Len(s) + 1 /\ t[k + 1] = e
        /\ \A i \in 1..k : t[i] = s[i]
        /\ \A i \in k + 1..Len(s) : t[i + 1] = s[i]
    BY <2>0, <2>1, <2>2, <2>3
  <2>5. PutAfter(t, s, k, e)
    BY ONLY <2>4 DEF PutAfter
  <2>6. t = Inserted(s, k, e)
    BY DEF t, Inserted
  <2> QED BY ONLY <2>4, <2>5, <2>6
<1>2. CASE k = n
  <2>1. SubSeq(s, 1, k) = s /\ SubSeq(s, k + 1, Len(s)) = <<>>
    BY <1>0, <1>2
  <2>2. t = Append(s, e)
    <3>1. s \o <<e>> \in Seq(S)
      OBVIOUS
    <3>2. (s \o <<e>>) \o <<>> = s \o <<e>>
      BY <3>1
    <3>3. s \o <<e>> = Append(s, e)
      OBVIOUS
    <3> QED BY <2>1, <3>2, <3>3
  <2> HIDE DEF t
  <2>3. /\ t \in Seq(S) /\ Len(t) = n + 1 /\ t[n + 1] = e /\ \A i \in 1..n : t[i] = s[i]
    BY <1>0, <2>2
  <2>4. k + 1..Len(s) = {}
    BY <1>0, <1>2
  <2>5. PutAfter(t, s, k, e)
    BY <1>2, <2>3, <2>4 DEF PutAfter
  <2>6. t = Inserted(s, k, e)
    BY DEF t, Inserted
  <2> QED BY ONLY <2>3, <2>5, <2>6
<1>3. k < n \/ k = n
  BY <1>0
<1> HIDE DEF t, n
<1> QED BY <1>1, <1>2, <1>3

\* A list without the entry at one of its places.
LEMMA RemoveAnywhere ==
    ASSUME NEW S, NEW s \in Seq(S), NEW k \in 1..Len(s)
    PROVE  LET t == SubSeq(s, 1, k - 1) \o SubSeq(s, k + 1, Len(s))
           IN  /\ t \in Seq(S) /\ Len(t) = Len(s) - 1
               /\ \A i \in 1..k - 1 : t[i] = s[i]
               /\ \A i \in k..Len(s) - 1 : t[i] = s[i + 1]
<1> DEFINE u == SubSeq(s, 1, k - 1)
           v == SubSeq(s, k + 1, Len(s))
           t == u \o v
<1>1. Len(s) \in Nat /\ k \in Nat /\ k >= 1 /\ k <= Len(s)
  OBVIOUS
<1>2. /\ u \in Seq(S) /\ Len(u) = k - 1 /\ \A i \in 1..k - 1 : u[i] = s[i]
  BY <1>1
<1>3. /\ v \in Seq(S) /\ Len(v) = Len(s) - k /\ \A i \in 1..Len(s) - k : v[i] = s[k + i]
  <2>1. v \in Seq(S) /\ Len(v) = Len(s) - k
    BY <1>1
  <2>2. \A i \in 1..Len(s) - k : v[i] = s[(k + 1) + i - 1]
    BY <1>1
  <2>3. \A i \in 1..Len(s) - k : (k + 1) + i - 1 = k + i
    BY <1>1
  <2> QED BY <2>1, <2>2, <2>3
<1> HIDE DEF u, v
<1>4. /\ t \in Seq(S) /\ Len(t) = Len(u) + Len(v)
      /\ \A i \in 1..Len(u) + Len(v) : t[i] = IF i <= Len(u) THEN u[i] ELSE v[i - Len(u)]
  BY <1>2, <1>3, ConcatProperties
<1> HIDE DEF t
<1>5. Len(t) = Len(s) - 1
  BY <1>1, <1>2, <1>3, <1>4
<1>6. ASSUME NEW i \in 1..k - 1 PROVE t[i] = s[i]
  <2>1. i \in 1..Len(t) /\ i <= Len(u)
    BY <1>1, <1>2, <1>5
  <2> QED BY <1>2, <1>4, <2>1
<1>7. ASSUME NEW i \in k..Len(s) - 1 PROVE t[i] = s[i + 1]
  <2>1. i \in 1..Len(t) /\ ~(i <= Len(u)) /\ i - Len(u) \in 1..Len(s) - k
        /\ k + (i - Len(u)) = i + 1
    BY <1>1, <1>2, <1>5
  <2> QED BY <1>3, <1>4, <2>1
<1> QED BY <1>4, <1>5, <1>6, <1>7 DEF t, u, v

\* The entries of a list.
LEMMA ItsEntries ==
    ASSUME NEW S, NEW q \in Seq(S)
    PROVE  DOMAIN q = 1..Len(q) /\ \A i \in DOMAIN q : q[i] \in S
OBVIOUS
=============================================================================
