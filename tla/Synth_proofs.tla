----------------------------- MODULE Synth_proofs -----------------------------
(***************************************************************************)
(* Proofs about a synth job for any requests, any batch limit and any      *)
(* source: what it is given is given back, every track is delivered with   *)
(* its own latent, every forward pass reads what belongs to its step, the  *)
(* DiT is conditioned on whole frames of its own request, and a repaint    *)
(* changes its region and nothing else.                                    *)
(***************************************************************************)
EXTENDS SynthShape, FiniteSetTheorems, SequenceTheorems, WellFoundedInduction, TLAPS

-----------------------------------------------------------------------------
(* Recursion over 0 .. n.                                                    *)

LEMMA SmallestOf ==
  ASSUME NEW T \in SUBSET Nat, T # {}
  PROVE  \E x \in T : \A y \in T : x <= y
<1>1. \E x \in T : \A y \in T : ~(<<y, x>> \in OpToRel(<, Nat))
  BY WFMin, NatLessThanWellFounded
<1>2. \A x, y \in Nat : <<y, x>> \in OpToRel(<, Nat) <=> y < x
  BY SMT DEF OpToRel
<1>3. ASSUME NEW x \in T, NEW y \in T, ~(<<y, x>> \in OpToRel(<, Nat)) PROVE ~(y < x)
  BY <1>2, <1>3
<1>4. \A x, y \in T : ~(y < x) => x <= y
  OBVIOUS
<1> QED
  BY <1>1, <1>3, <1>4

\* What holds of 0, and of k when it holds of k - 1, holds up to n.
LEMMA Induction ==
  ASSUME NEW n \in Nat, NEW T \in SUBSET (0 .. n), 0 \in T,
         \A k \in 1 .. n : k - 1 \in T => k \in T
  PROVE  T = 0 .. n
<1> DEFINE Rest == (0 .. n) \ T
<1>1. ASSUME Rest # {} PROVE FALSE
  <2>1. Rest \in SUBSET Nat
    OBVIOUS
  <2>2. PICK m \in Rest : \A y \in Rest : m <= y
    <3> HIDE DEF Rest
    <3> QED
      BY <1>1, <2>1, SmallestOf
  <2>3. m \in 1 .. n /\ m - 1 \in 0 .. n /\ ~(m <= m - 1)
    OBVIOUS
  <2>4. m - 1 \in T
    BY <2>2, <2>3
  <2> QED
    BY <2>3, <2>4
<1> QED
  BY <1>1

\* What the steps of a recursive function are.
Unwinds(f, n, base, next) ==
    /\ f[0] = base
    /\ \A k \in 1 .. n : f[k] = next[<<k, f[k - 1]>>]

LEMMA Recursion ==
  ASSUME NEW n \in Nat, NEW V, NEW base \in V, NEW next \in [(1 .. n) \X V -> V]
  PROVE  \E f \in [0 .. n -> V] : Unwinds(f, n, base, next)
<1> DEFINE Good(m) == \E f \in [0 .. m -> V] : Unwinds(f, m, base, next)
           T == {m \in 0 .. n : Good(m)}
<1>1. Good(0)
  <2> DEFINE f == [k \in 0 .. 0 |-> base]
  <2>1. f \in [0 .. 0 -> V] /\ f[0] = base
    OBVIOUS
  <2>2. Unwinds(f, 0, base, next)
    BY <2>1 DEF Unwinds
  <2> QED
    BY <2>1, <2>2
<1>2. ASSUME NEW m \in 1 .. n, Good(m - 1) PROVE Good(m)
  <2>1. PICK g \in [0 .. m - 1 -> V] : Unwinds(g, m - 1, base, next)
    BY <1>2
  <2> DEFINE e == next[<<m, g[m - 1]>>]
             f == [k \in 0 .. m |-> IF k = m THEN e ELSE g[k]]
  <2>2. m \in Nat \ {0} /\ m - 1 \in 0 .. m - 1 /\ g[m - 1] \in V
    BY <2>1
  <2>3. e \in V
    BY <2>2
  <2> HIDE DEF e
  <2>4. f \in [0 .. m -> V] /\ f[m] = e /\ \A k \in 0 .. m - 1 : f[k] = g[k]
    BY <2>1, <2>2, <2>3
  <2> HIDE DEF f
  <2>5. f[0] = base
    BY <2>1, <2>2, <2>4 DEF Unwinds
  <2>6. ASSUME NEW k \in 1 .. m PROVE f[k] = next[<<k, f[k - 1]>>]
    <3>1. CASE k = m
      BY <3>1, <2>2, <2>4 DEF e
    <3>2. CASE k # m
      <4>1. k \in 1 .. m - 1 /\ k \in 0 .. m - 1 /\ k - 1 \in 0 .. m - 1
        BY <3>2, <2>2
      <4>2. g[k] = next[<<k, g[k - 1]>>]
        BY <4>1, <2>1 DEF Unwinds
      <4> QED
        BY <4>1, <4>2, <2>4
    <3> QED
      BY <3>1, <3>2
  <2> QED
    BY <2>4, <2>5, <2>6 DEF Unwinds
<1> HIDE DEF Good
<1>3. T \in SUBSET (0 .. n) /\ 0 \in T /\ \A k \in 1 .. n : k - 1 \in T => k \in T
  BY <1>1, <1>2
<1>4. T = 0 .. n
  <2> HIDE DEF T
  <2> QED
    BY <1>3, Induction
<1>5. Good(n)
  BY <1>4
<1> QED
  BY <1>5 DEF Good

-----------------------------------------------------------------------------
(* Quotients and products.                                                   *)

LEMMA DivRange ==
  ASSUME NEW a \in Int, NEW d \in Nat \ {0}
  PROVE  /\ a \div d \in Int /\ d * (a \div d) <= a /\ a < d * (a \div d) + d
OBVIOUS

LEMMA DivUnique ==
  ASSUME NEW a \in Int, NEW d \in Nat \ {0}, NEW q \in Int, d * q <= a, a < d * q + d
  PROVE  a \div d = q
OBVIOUS

LEMMA ModRange ==
  ASSUME NEW a \in Int, NEW d \in Nat \ {0}
  PROVE  a % d = a - d * (a \div d) /\ a % d \in 0 .. d - 1
OBVIOUS

LEMMA TimesMono ==
  ASSUME NEW a \in Int, NEW b \in Int, NEW d \in Nat, a <= b
  PROVE  a * d <= b * d
OBVIOUS

LEMMA TimesLess ==
  ASSUME NEW a \in Int, NEW b \in Int, NEW d \in Nat \ {0}, a * d < b * d
  PROVE  a < b
OBVIOUS

LEMMA DivPlus ==
  ASSUME NEW a \in Int, NEW k \in Int, NEW d \in Nat \ {0}
  PROVE  (a + k * d) \div d = a \div d + k
BY DivRange, DivUnique

LEMMA Dist ==
  ASSUME NEW a \in Int, NEW k \in Int, NEW d \in Int
  PROVE  (a + k) * d = a * d + k * d /\ (a - k) * d = a * d - k * d
OBVIOUS

-----------------------------------------------------------------------------
(* The expansion of the requests.                                            *)

SumOf(s) == CHOOSE f : f = [n \in 0 .. Len(s) |-> IF n = 0 THEN 0 ELSE f[n - 1] + Clamp(s[n])]

LEMMA ClampRange ==
  ASSUME NEW n \in Int
  PROVE  Clamp(n) \in 1 .. Limit
BY LimitAssumption DEF Clamp, Least

LEMMA ClampNat ==
  ASSUME NEW s \in Seq(Int), NEW k \in 1 .. Len(s)
  PROVE  Clamp(s[k]) \in Nat \ {0} /\ Clamp(s[k]) <= Limit
<1>1. s[k] \in Int
  OBVIOUS
<1>2. Clamp(s[k]) \in 1 .. Limit
  BY <1>1, ClampRange
<1> QED
  BY <1>2, LimitAssumption

LEMMA Sums ==
  ASSUME NEW s \in Seq(Int)
  PROVE  /\ SumOf(s) \in [0 .. Len(s) -> Nat]
         /\ SumOf(s)[0] = 0
         /\ \A k \in 1 .. Len(s) : SumOf(s)[k] = SumOf(s)[k - 1] + Clamp(s[k])
         /\ TotalAlloc(s) = Least(SumOf(s)[Len(s)], Limit)
<1> DEFINE n == Len(s)
           next == [x \in (1 .. n) \X Nat |-> x[2] + Clamp(s[x[1]])]
           IsSum(f) == f = [k \in 0 .. Len(s) |-> IF k = 0 THEN 0 ELSE f[k - 1] + Clamp(s[k])]
<1>1. n \in Nat /\ \A k \in 1 .. n : Clamp(s[k]) \in Nat
  <2>1. n \in Nat
    OBVIOUS
  <2> QED
    BY <2>1, ClampNat
<1>2. next \in [(1 .. n) \X Nat -> Nat]
  <2>1. ASSUME NEW x \in (1 .. n) \X Nat PROVE x[2] + Clamp(s[x[1]]) \in Nat
    <3>1. x[1] \in 1 .. n /\ x[2] \in Nat
      OBVIOUS
    <3> QED
      BY <3>1, <1>1
  <2> QED
    BY <2>1
<1>3. PICK f \in [0 .. n -> Nat] : Unwinds(f, n, 0, next)
  <2> HIDE DEF n, next
  <2> QED
    BY <1>1, <1>2, Recursion
<1>4. f[0] = 0 /\ \A k \in 1 .. n : f[k] = f[k - 1] + Clamp(s[k])
  <2>1. \A k \in 1 .. n : k - 1 \in 0 .. n
    BY <1>1
  <2> QED
    BY <1>3, <2>1 DEF Unwinds
<1>5. IsSum(f)
  BY <1>3, <1>4
<1>6. IsSum(SumOf(s))
  BY <1>5, Zenon DEF SumOf
<1>7. TotalAlloc(s) = Least(SumOf(s)[Len(s)], Limit)
  BY Zenon DEF TotalAlloc, SumOf
<1> DEFINE g == SumOf(s)
<1>8. DOMAIN g = 0 .. n /\ g[0] = 0 /\ \A k \in 1 .. n : g[k] = g[k - 1] + Clamp(s[k])
  <2> HIDE DEF g
  <2>1. g = [k \in 0 .. n |-> IF k = 0 THEN 0 ELSE g[k - 1] + Clamp(s[k])]
    BY <1>6 DEF g
  <2> HIDE DEF n
  <2> QED
    BY <2>1, <1>1
<1> DEFINE T == {k \in 0 .. n : g[k] \in Nat}
<1>9. T = 0 .. n
  <2>1. T \in SUBSET (0 .. n) /\ 0 \in T
    BY <1>1, <1>8
  <2>2. ASSUME NEW k \in 1 .. n, k - 1 \in T PROVE k \in T
    BY <2>2, <1>1, <1>8
  <2> HIDE DEF T, n
  <2> QED
    BY <2>1, <2>2, <1>1, Induction
<1>10. g \in [0 .. n -> Nat]
  <2>1. \A k \in 0 .. n : g[k] \in Nat
    BY <1>9
  <2>2. g = [k \in DOMAIN g |-> g[k]]
    BY <1>6
  <2> HIDE DEF g, n
  <2> QED
    BY <2>1, <2>2, <1>8
<1> QED
  BY <1>7, <1>8, <1>10

LEMMA TotalRange ==
  ASSUME NEW s \in Seq(Int), s # <<>>
  PROVE  TotalAlloc(s) \in 1 .. Limit
<1>1. Len(s) \in 1 .. Len(s) /\ Len(s) - 1 \in 0 .. Len(s) /\ s[Len(s)] \in Int
  OBVIOUS
<1>2. SumOf(s)[Len(s)] \in Nat \ {0}
  <2>1. SumOf(s)[Len(s)] = SumOf(s)[Len(s) - 1] + Clamp(s[Len(s)])
    BY <1>1, Sums
  <2>2. SumOf(s)[Len(s) - 1] \in Nat
    BY <1>1, Sums
  <2>3. Clamp(s[Len(s)]) \in 1 .. Limit
    BY <1>1, ClampRange
  <2> DEFINE a == SumOf(s)[Len(s) - 1]
             c == Clamp(s[Len(s)])
  <2> HIDE DEF a, c
  <2>4. a + c \in Nat \ {0}
    BY <2>2, <2>3, LimitAssumption DEF a, c
  <2> QED
    BY <2>1, <2>4 DEF a, c
<1> QED
  BY <1>2, Sums, LimitAssumption DEF Least

LEMMA VariantsSeq ==
  ASSUME NEW r \in Nat, NEW m \in Nat
  PROVE  /\ Variants(r, m) \in Seq(Nat \X Nat)
         /\ Len(Variants(r, m)) = m
         /\ \A i \in 1 .. m : Variants(r, m)[i] = <<r, i - 1>>
<1>1. \A i \in 1 .. m : <<r, i - 1>> \in Nat \X Nat
  OBVIOUS
<1>2. Variants(r, m) \in [1 .. m -> Nat \X Nat]
  BY <1>1 DEF Variants
<1>3. \A i \in 1 .. m : Variants(r, m)[i] = <<r, i - 1>>
  BY DEF Variants
<1>4. Variants(r, m) \in Seq(Nat \X Nat)
  BY <1>2
<1> QED
  BY <1>2, <1>3, <1>4

FlatOf(s) ==
    CHOOSE f : f = [n \in 0 .. Len(s) |->
        IF n = 0 THEN <<>>
        ELSE IF Len(f[n - 1]) >= TotalAlloc(s) THEN f[n - 1]
        ELSE f[n - 1] \o Variants(n, Least(Clamp(s[n]), TotalAlloc(s) - Len(f[n - 1])))]

\* The batch b with the tracks of request k.
Grown(s, k, b) ==
    IF Len(b) >= TotalAlloc(s) THEN b
    ELSE b \o Variants(k, Least(Clamp(s[k]), TotalAlloc(s) - Len(b)))

LEMMA GrownSeq ==
  ASSUME NEW s \in Seq(Int), s # <<>>, NEW k \in 1 .. Len(s), NEW b \in Seq(Nat \X Nat)
  PROVE  Grown(s, k, b) \in Seq(Nat \X Nat)
<1>1. CASE Len(b) >= TotalAlloc(s)
  BY <1>1 DEF Grown
<1>2. CASE ~(Len(b) >= TotalAlloc(s))
  <2> DEFINE m == Least(Clamp(s[k]), TotalAlloc(s) - Len(b))
  <2>1. TotalAlloc(s) \in Nat /\ Len(b) \in Nat
    BY TotalRange, LimitAssumption
  <2>2. Clamp(s[k]) \in Nat
    BY ClampNat
  <2>3. m \in Nat
    BY <1>2, <2>1, <2>2 DEF Least
  <2>4. k \in Nat /\ Grown(s, k, b) = b \o Variants(k, m)
    BY <1>2 DEF Grown
  <2> HIDE DEF m
  <2>5. Variants(k, m) \in Seq(Nat \X Nat)
    BY <2>3, <2>4, VariantsSeq
  <2> QED
    BY <2>4, <2>5, ConcatProperties
<1> QED
  BY <1>1, <1>2

LEMMA Flats ==
  ASSUME NEW s \in Seq(Int), s # <<>>
  PROVE  /\ FlatOf(s)[0] = <<>>
         /\ \A k \in 1 .. Len(s) : FlatOf(s)[k] = Grown(s, k, FlatOf(s)[k - 1])
         /\ Expand(s) = FlatOf(s)[Len(s)]
<1> DEFINE n == Len(s)
           V == Seq(Nat \X Nat)
           next == [x \in (1 .. n) \X V |-> Grown(s, x[1], x[2])]
           IsFlat(f) == f = [k \in 0 .. Len(s) |->
              IF k = 0 THEN <<>>
              ELSE IF Len(f[k - 1]) >= TotalAlloc(s) THEN f[k - 1]
              ELSE f[k - 1] \o Variants(k, Least(Clamp(s[k]), TotalAlloc(s) - Len(f[k - 1])))]
<1>1. n \in Nat /\ <<>> \in V
  OBVIOUS
<1>2. next \in [(1 .. n) \X V -> V]
  <2>1. ASSUME NEW x \in (1 .. n) \X V PROVE Grown(s, x[1], x[2]) \in V
    <3>1. x[1] \in 1 .. n /\ x[2] \in V
      OBVIOUS
    <3> QED
      BY <3>1, GrownSeq
  <2> QED
    BY <2>1
<1>3. PICK f \in [0 .. n -> V] : Unwinds(f, n, <<>>, next)
  <2> HIDE DEF n, next, V
  <2> QED
    BY <1>1, <1>2, Recursion
<1>4. f[0] = <<>> /\ \A k \in 1 .. n : f[k] = Grown(s, k, f[k - 1])
  <2>1. \A k \in 1 .. n : k - 1 \in 0 .. n
    BY <1>1
  <2>2. \A k \in 1 .. n : f[k - 1] \in V
    <3> HIDE DEF V, n
    <3> QED
      BY <2>1
  <2>3. ASSUME NEW k \in 1 .. n PROVE f[k] = Grown(s, k, f[k - 1])
    <3>1. f[k] = next[<<k, f[k - 1]>>]
      BY <1>3 DEF Unwinds
    <3>2. <<k, f[k - 1]>> \in (1 .. n) \X V
      BY <2>2
    <3> QED
      BY <3>1, <3>2
  <2> QED
    BY <1>3, <2>3 DEF Unwinds
<1>5. IsFlat(f)
  <2>1. ASSUME NEW k \in 0 .. n
        PROVE f[k] = IF k = 0 THEN <<>>
              ELSE IF Len(f[k - 1]) >= TotalAlloc(s) THEN f[k - 1]
              ELSE f[k - 1] \o Variants(k, Least(Clamp(s[k]), TotalAlloc(s) - Len(f[k - 1])))
    <3>1. k = 0 \/ k \in 1 .. n
      BY <1>1
    <3> QED
      BY <3>1, <1>4 DEF Grown
  <2> QED
    BY <2>1, <1>3
<1>6. IsFlat(FlatOf(s))
  BY <1>5, Zenon DEF FlatOf
<1>7. Expand(s) = FlatOf(s)[Len(s)]
  BY Zenon DEF Expand, FlatOf
<1> DEFINE g == FlatOf(s)
<1>8. g[0] = <<>> /\ \A k \in 1 .. n : g[k] = Grown(s, k, g[k - 1])
  <2>1. 0 \in 0 .. n /\ \A k \in 1 .. n : k \in 0 .. n /\ k # 0
    BY <1>1
  <2>2. \A k \in 0 .. n : g[k] = IF k = 0 THEN <<>>
              ELSE IF Len(g[k - 1]) >= TotalAlloc(s) THEN g[k - 1]
              ELSE g[k - 1] \o Variants(k, Least(Clamp(s[k]), TotalAlloc(s) - Len(g[k - 1])))
    BY <1>6
  <2> HIDE DEF g, n
  <2> QED
    BY <2>1, <2>2 DEF Grown
<1> QED
  BY <1>7, <1>8

\* Track p of the batch has as many tracks before it as the requests want there.
Placed(s, p, k) ==
    /\ p \in (1 .. Len(s)) \X Nat
    /\ p[2] < Clamp(s[p[1]])
    /\ SumOf(s)[p[1] - 1] + p[2] + 1 = k

PlacedUpTo(s, m, b) ==
    /\ b \in Seq(Nat \X Nat)
    /\ Len(b) = Least(SumOf(s)[m], TotalAlloc(s))
    /\ \A k \in 1 .. Len(b) : Placed(s, b[k], k)

LEMMA GrownPlaced ==
  ASSUME NEW s \in Seq(Int), s # <<>>, NEW m \in 1 .. Len(s), NEW b,
         PlacedUpTo(s, m - 1, b)
  PROVE  PlacedUpTo(s, m, Grown(s, m, b))
<1> DEFINE W == TotalAlloc(s)
           S == SumOf(s)
           c == Clamp(s[m])
<1>1. m - 1 \in 0 .. Len(s) /\ m \in Nat
  OBVIOUS
<1>2. W \in Nat /\ c \in Nat \ {0}
  BY TotalRange, LimitAssumption, ClampNat
<1>3. S[m - 1] \in Nat /\ S[m] = S[m - 1] + c
  BY <1>1, Sums
<1>4. b \in Seq(Nat \X Nat) /\ Len(b) = Least(S[m - 1], W) /\ Len(b) \in Nat
  BY DEF PlacedUpTo
<1>5. \A k \in 1 .. Len(b) : Placed(s, b[k], k)
  BY DEF PlacedUpTo
<1> DEFINE d == Least(c, W - Len(b))
<1>6. Grown(s, m, b) = IF Len(b) >= W THEN b ELSE b \o Variants(m, d)
  BY DEF Grown
<1> HIDE DEF W, S, c
<1>7. CASE Len(b) >= W
  <2>1. Len(b) = Least(S[m], W)
    BY <1>7, <1>2, <1>3, <1>4 DEF Least
  <2> QED
    BY <2>1, <1>4, <1>5, <1>6, <1>7 DEF PlacedUpTo, W, S
<1>8. CASE ~(Len(b) >= W)
  <2>1. d \in Nat /\ Len(b) = S[m - 1] /\ Len(b) + d = Least(S[m], W) /\ d <= c
    <3>1. /\ Len(b) \in Nat /\ S[m - 1] \in Nat /\ W \in Nat /\ c \in Nat \ {0}
          /\ S[m] = S[m - 1] + c /\ ~(Len(b) >= W)
      BY <1>8, <1>2, <1>3, <1>4
    <3>2. Len(b) = S[m - 1]
      BY <3>1, <1>4 DEF Least
    <3> QED
      BY ONLY <3>1, <3>2 DEF Least
  <2> HIDE DEF d
  <2>2. /\ Variants(m, d) \in Seq(Nat \X Nat) /\ Len(Variants(m, d)) = d
        /\ \A i \in 1 .. d : Variants(m, d)[i] = <<m, i - 1>>
    BY <2>1, <1>1, VariantsSeq
  <2> DEFINE v == Variants(m, d)
             e == b \o v
  <2>3. /\ e \in Seq(Nat \X Nat) /\ Len(e) = Len(b) + d
        /\ \A k \in 1 .. Len(b) + d : e[k] = IF k <= Len(b) THEN b[k] ELSE v[k - Len(b)]
    <3>1. v \in Seq(Nat \X Nat) /\ Len(v) = d
      BY <2>2
    <3> HIDE DEF v
    <3> QED
      BY ONLY <3>1, <1>4, ConcatProperties
  <2>4. ASSUME NEW k \in 1 .. Len(e) PROVE Placed(s, e[k], k)
    <3>1. k \in 1 .. Len(b) + d
      BY <2>3
    <3> HIDE DEF e
    <3>2. CASE k <= Len(b)
      <4>1. k \in 1 .. Len(b) /\ e[k] = b[k]
        BY <3>1, <3>2, <2>3
      <4> QED
        BY <4>1, <1>5
    <3>3. CASE ~(k <= Len(b))
      <4> DEFINE i == k - Len(b)
      <4>1. i \in 1 .. d /\ e[k] = v[i]
        <5>1. i \in 1 .. d
          BY <3>1, <3>3, <2>1, <1>4
        <5>2. e[k] = IF k <= Len(b) THEN b[k] ELSE v[k - Len(b)]
          BY <3>1, <2>3, Zenon
        <5> QED
          BY <3>3, <5>1, <5>2, Zenon
      <4>2. v[i] = <<m, i - 1>>
        <5> HIDE DEF i
        <5> QED
          BY <4>1, <2>2
      <4>3. i - 1 \in Nat /\ i - 1 < c /\ S[m - 1] + (i - 1) + 1 = k
        <5>1. S[m - 1] + i = k
          BY <2>1, <3>1, <1>3
        <5>2. i \in 1 .. d /\ d \in Nat /\ d <= c /\ c \in Nat /\ S[m - 1] \in Nat
          BY <4>1, <2>1, <1>2, <1>3
        <5> HIDE DEF i
        <5> QED
          BY ONLY <5>1, <5>2
      <4> HIDE DEF i, v
      <4>4. e[k] = <<m, i - 1>> /\ e[k] \in (1 .. Len(s)) \X Nat
        BY <4>1, <4>2, <4>3
      <4> QED
        BY <4>3, <4>4 DEF Placed, S, c
    <3> QED
      BY <3>2, <3>3
  <2>5. Grown(s, m, b) = e
    BY <1>6, <1>8
  <2> HIDE DEF e
  <2> QED
    BY <2>1, <2>3, <2>4, <2>5 DEF PlacedUpTo, W, S
<1> QED
  BY <1>7, <1>8

LEMMA Expansion ==
  ASSUME NEW s \in Seq(Int), s # <<>>
  PROVE  /\ Expand(s) \in Seq(Nat \X Nat)
         /\ Len(Expand(s)) = TotalAlloc(s)
         /\ \A k \in 1 .. Len(Expand(s)) : Placed(s, Expand(s)[k], k)
<1> DEFINE n == Len(s)
           T == {m \in 0 .. n : PlacedUpTo(s, m, FlatOf(s)[m])}
<1>1. n \in Nat /\ TotalAlloc(s) \in Nat
  BY TotalRange, LimitAssumption
<1>2. PlacedUpTo(s, 0, FlatOf(s)[0])
  <2>1. FlatOf(s)[0] = <<>> /\ SumOf(s)[0] = 0
    BY Flats, Sums
  <2>2. Least(0, TotalAlloc(s)) = 0
    BY <1>1 DEF Least
  <2> QED
    BY <2>1, <2>2 DEF PlacedUpTo
<1>3. ASSUME NEW m \in 1 .. n, m - 1 \in T PROVE m \in T
  <2>1. PlacedUpTo(s, m - 1, FlatOf(s)[m - 1])
    BY <1>3
  <2>2. FlatOf(s)[m] = Grown(s, m, FlatOf(s)[m - 1])
    BY Flats
  <2>3. PlacedUpTo(s, m, FlatOf(s)[m])
    BY <2>1, <2>2, GrownPlaced
  <2> QED
    BY <2>3
<1>4. T \in SUBSET (0 .. n) /\ 0 \in T
  BY <1>1, <1>2
<1>5. T = 0 .. n
  <2> HIDE DEF T, n
  <2> QED
    BY <1>1, <1>3, <1>4, Induction
<1>6. PlacedUpTo(s, n, FlatOf(s)[n])
  BY <1>1, <1>5
<1>7. SumOf(s)[n] \in Nat
  BY <1>1, Sums
<1>8. Least(SumOf(s)[n], TotalAlloc(s)) = TotalAlloc(s)
  BY <1>1, <1>7, Sums, LimitAssumption DEF Least
<1> QED
  BY <1>6, <1>8, Flats DEF PlacedUpTo

\* What the first r requests want, and the first c tracks of request r.
Rows(s, r) ==
    {p \in (1 .. Len(s)) \X (0 .. Limit - 1) : p[2] < Clamp(s[p[1]]) /\ p[1] <= r}
Row(r, c) == {r} \X (0 .. c - 1)

LEMMA RowsPlus ==
  ASSUME NEW s \in Seq(Int), NEW r \in 1 .. Len(s), NEW c \in Nat, NEW w \in Nat,
         IsFiniteSet(Rows(s, r - 1)), Cardinality(Rows(s, r - 1)) = w
  PROVE  /\ IsFiniteSet(Rows(s, r - 1) \cup Row(r, c))
         /\ Cardinality(Rows(s, r - 1) \cup Row(r, c)) = w + c
<1>1. IsFiniteSet({r}) /\ Cardinality({r}) = 1
  BY FS_Singleton
<1>2. IsFiniteSet(0 .. c - 1) /\ Cardinality(0 .. c - 1) = c
  <2>1. 0 \in Int /\ c - 1 \in Int /\ (IF 0 > c - 1 THEN 0 ELSE (c - 1) - 0 + 1) = c
    OBVIOUS
  <2> DEFINE d == c - 1
  <2> HIDE DEF d
  <2>2. IsFiniteSet(0 .. d) /\ Cardinality(0 .. d) = IF 0 > d THEN 0 ELSE d - 0 + 1
    BY <2>1, FS_Interval DEF d
  <2> QED
    BY <2>1, <2>2 DEF d
<1>3. IsFiniteSet(Row(r, c)) /\ Cardinality(Row(r, c)) = 1 * c
  <2> DEFINE A == {r}
             B == 0 .. c - 1
  <2>1. Row(r, c) = A \X B
    BY DEF Row
  <2>2. IsFiniteSet(A) /\ Cardinality(A) = 1 /\ IsFiniteSet(B) /\ Cardinality(B) = c
    BY <1>1, <1>2
  <2> HIDE DEF A, B
  <2> QED
    BY ONLY <2>1, <2>2, FS_Product
<1>4. Rows(s, r - 1) \cap Row(r, c) = {}
  BY DEF Rows, Row
<1> DEFINE A == Rows(s, r - 1)
           B == Row(r, c)
<1>5. IsFiniteSet(A) /\ IsFiniteSet(B) /\ A \cap B = {}
  BY <1>3, <1>4
<1> HIDE DEF A, B
<1>6. IsFiniteSet(A \cup B) /\ Cardinality(A \cup B) = Cardinality(A) + Cardinality(B) - Cardinality({})
  BY <1>5, FS_Union
<1> QED
  BY <1>3, <1>6, FS_EmptySet DEF A, B

LEMMA RowsCount ==
  ASSUME NEW s \in Seq(Int), NEW r \in 0 .. Len(s)
  PROVE  IsFiniteSet(Rows(s, r)) /\ Cardinality(Rows(s, r)) = SumOf(s)[r]
<1> DEFINE n == Len(s)
           T == {m \in 0 .. n : IsFiniteSet(Rows(s, m)) /\ Cardinality(Rows(s, m)) = SumOf(s)[m]}
<1>1. n \in Nat
  OBVIOUS
<1>2. 0 \in T
  <2>1. Rows(s, 0) = {}
    BY DEF Rows
  <2>2. SumOf(s)[0] = 0 /\ 0 \in 0 .. n
    BY <1>1, Sums
  <2> QED
    BY <2>1, <2>2, FS_EmptySet
<1>3. ASSUME NEW m \in 1 .. n, m - 1 \in T PROVE m \in T
  <2>1. SumOf(s)[m] = SumOf(s)[m - 1] + Clamp(s[m]) /\ SumOf(s)[m - 1] \in Nat
    BY <1>1, <1>3, Sums
  <2>2. Clamp(s[m]) \in Nat \ {0} /\ Clamp(s[m]) <= Limit /\ m \in 0 .. n
    BY ClampNat
  <2>3. Rows(s, m) = Rows(s, m - 1) \cup Row(m, Clamp(s[m]))
    <3>1. ASSUME NEW p \in Rows(s, m) PROVE p \in Rows(s, m - 1) \cup Row(m, Clamp(s[m]))
      <4>1. p \in (1 .. n) \X (0 .. Limit - 1) /\ p[2] < Clamp(s[p[1]]) /\ p[1] <= m
        BY DEF Rows
      <4>2. p = <<p[1], p[2]>> /\ p[1] \in 1 .. n /\ p[2] \in 0 .. Limit - 1
        BY <4>1
      <4>3. CASE p[1] = m
        <5>1. p[2] \in 0 .. Clamp(s[m]) - 1
          BY <4>1, <4>2, <4>3, <2>2, LimitAssumption
        <5> QED
          BY <4>2, <4>3, <5>1 DEF Row
      <4>4. CASE p[1] # m
        <5>1. p[1] <= m - 1
          BY <4>1, <4>2, <4>4
        <5> QED
          BY <4>1, <5>1 DEF Rows
      <4> QED
        BY <4>3, <4>4
    <3>2. ASSUME NEW p \in Rows(s, m - 1) PROVE p \in Rows(s, m)
      BY DEF Rows
    <3>3. ASSUME NEW p \in Row(m, Clamp(s[m])) PROVE p \in Rows(s, m)
      <4>1. p \in {m} \X (0 .. Clamp(s[m]) - 1)
        BY DEF Row
      <4>2. p[1] = m /\ p[2] \in 0 .. Clamp(s[m]) - 1 /\ p = <<p[1], p[2]>>
        BY <4>1
      <4>3. p[2] \in 0 .. Limit - 1 /\ p[2] < Clamp(s[m])
        BY <4>2, <2>2, LimitAssumption
      <4> QED
        BY <4>2, <4>3 DEF Rows
    <3> QED
      BY <3>1, <3>2, <3>3
  <2>4. IsFiniteSet(Rows(s, m - 1)) /\ Cardinality(Rows(s, m - 1)) = SumOf(s)[m - 1]
    BY <1>3
  <2> HIDE DEF T
  <2>5. IsFiniteSet(Rows(s, m)) /\ Cardinality(Rows(s, m)) = SumOf(s)[m]
    <3> DEFINE c == Clamp(s[m])
               x == SumOf(s)[m - 1]
    <3>1. /\ c \in Nat /\ x \in Nat /\ m \in Nat
          /\ Rows(s, m) = Rows(s, m - 1) \cup Row(m, c)
          /\ IsFiniteSet(Rows(s, m - 1)) /\ Cardinality(Rows(s, m - 1)) = x
          /\ SumOf(s)[m] = x + c
      BY <2>1, <2>2, <2>3, <2>4
    <3> HIDE DEF c, x
    <3>2. /\ IsFiniteSet(Rows(s, m - 1) \cup Row(m, c))
          /\ Cardinality(Rows(s, m - 1) \cup Row(m, c)) = x + c
      BY <3>1, RowsPlus, Zenon
    <3> QED
      BY <3>1, <3>2, Zenon
  <2> QED
    BY <2>2, <2>5 DEF T
<1>4. T \in SUBSET (0 .. n)
  OBVIOUS
<1>5. T = 0 .. n
  <2> HIDE DEF T, n
  <2> QED
    BY <1>1, <1>2, <1>3, <1>4, Induction
<1> QED
  BY <1>5

\* The batch is a prefix of what the requests want, in the requests' order.
LEMMA ExpandFits ==
  ASSUME sizes \in Seq(Int), sizes # <<>>, batch = Expand(sizes)
  PROVE  /\ Len(batch) = Least(Cardinality(Wanted), Limit)
         /\ \A n \in DOMAIN batch :
               /\ batch[n] \in Wanted
               /\ Cardinality({p \in Wanted : Earlier(p, batch[n])}) = n - 1
<1> DEFINE s == sizes
<1>1. Len(s) \in 0 .. Len(s) /\ Wanted = Rows(s, Len(s))
  <2>1. \A p \in (1 .. Len(s)) \X (0 .. Limit - 1) : p[1] <= Len(s)
    OBVIOUS
  <2> QED
    BY <2>1 DEF Wanted, Rows
<1>2. Cardinality(Wanted) = SumOf(s)[Len(s)]
  BY <1>1, RowsCount
<1>3. /\ batch \in Seq(Nat \X Nat) /\ Len(batch) = TotalAlloc(s)
      /\ \A k \in 1 .. Len(batch) : Placed(s, batch[k], k)
  BY Expansion
<1>4. Len(batch) = Least(Cardinality(Wanted), Limit)
  BY <1>2, <1>3, Sums
<1>5. ASSUME NEW k \in DOMAIN batch
      PROVE  batch[k] \in Wanted /\ Cardinality({p \in Wanted : Earlier(p, batch[k])}) = k - 1
  <2> DEFINE q == batch[k]
  <2>1. k \in 1 .. Len(batch) /\ Placed(s, q, k)
    BY <1>3
  <2>2. q \in (1 .. Len(s)) \X Nat /\ q[2] < Clamp(s[q[1]]) /\ SumOf(s)[q[1] - 1] + q[2] + 1 = k
    BY <2>1 DEF Placed
  <2> HIDE DEF q
  <2>3. PICK r \in 1 .. Len(s), i \in Nat : q = <<r, i>>
    BY <2>2
  <2>4. i < Clamp(s[r]) /\ SumOf(s)[r - 1] + i + 1 = k
    BY <2>2, <2>3
  <2>5. Clamp(s[r]) \in Nat /\ Clamp(s[r]) <= Limit
    BY ClampNat
  <2>6. i \in 0 .. Limit - 1
    BY <2>4, <2>5, LimitAssumption
  <2>7. q \in Wanted
    BY <2>3, <2>4, <2>6 DEF Wanted
  <2>8. {p \in Wanted : Earlier(p, q)} = Rows(s, r - 1) \cup Row(r, i)
    <3>1. ASSUME NEW p \in Wanted, Earlier(p, q) PROVE p \in Rows(s, r - 1) \cup Row(r, i)
      <4>1. p \in (1 .. Len(s)) \X (0 .. Limit - 1) /\ p[2] < Clamp(s[p[1]])
        BY DEF Wanted
      <4>2. p = <<p[1], p[2]>> /\ p[1] \in 1 .. Len(s) /\ p[2] \in 0 .. Limit - 1
        BY <4>1
      <4>3. CASE p[1] < r
        <5>1. p[1] <= r - 1
          BY <4>2, <4>3
        <5> QED
          BY <4>1, <5>1 DEF Rows
      <4>4. CASE p[1] = r /\ p[2] < i
        <5>1. p[2] \in 0 .. i - 1
          BY <4>2, <4>4
        <5> QED
          BY <4>2, <4>4, <5>1 DEF Row
      <4> QED
        BY <2>3, <3>1, <4>3, <4>4 DEF Earlier
    <3>2. ASSUME NEW p \in Rows(s, r - 1) PROVE p \in Wanted /\ Earlier(p, q)
      <4>1. p \in (1 .. Len(s)) \X (0 .. Limit - 1) /\ p[2] < Clamp(s[p[1]]) /\ p[1] <= r - 1
        BY DEF Rows
      <4>2. p[1] < r
        BY <4>1
      <4> QED
        BY <4>1, <4>2, <2>3 DEF Wanted, Earlier
    <3>3. ASSUME NEW p \in Row(r, i) PROVE p \in Wanted /\ Earlier(p, q)
      <4>1. p \in {r} \X (0 .. i - 1)
        BY DEF Row
      <4>2. p[1] = r /\ p[2] \in 0 .. i - 1 /\ p = <<p[1], p[2]>>
        BY <4>1
      <4>3. p[2] < i /\ p[2] \in 0 .. Limit - 1 /\ p[2] < Clamp(s[r])
        <5> DEFINE c == Clamp(s[r])
        <5>1. i < c /\ c \in Nat
          BY <2>4, <2>5
        <5> HIDE DEF c
        <5>2. p[2] < i /\ p[2] \in 0 .. Limit - 1 /\ p[2] < c
          BY <4>2, <2>6, <5>1, LimitAssumption
        <5> QED
          BY <5>2 DEF c
      <4> QED
        BY <4>2, <4>3, <2>3 DEF Wanted, Earlier
    <3> QED
      BY <3>1, <3>2, <3>3
  <2>9. r - 1 \in 0 .. Len(s) /\ SumOf(s)[r - 1] \in Nat
    <3>1. r - 1 \in 0 .. Len(s)
      OBVIOUS
    <3> QED
      BY <3>1, Sums
  <2>10. IsFiniteSet(Rows(s, r - 1)) /\ Cardinality(Rows(s, r - 1)) = SumOf(s)[r - 1]
    BY <2>9, RowsCount
  <2>11. Cardinality(Rows(s, r - 1) \cup Row(r, i)) = SumOf(s)[r - 1] + i
    BY <2>9, <2>10, RowsPlus
  <2>12. SumOf(s)[r - 1] + i = k - 1
    <3> DEFINE w == SumOf(s)[r - 1]
    <3>1. w \in Nat /\ w + i + 1 = k
      BY <2>4, <2>9
    <3> HIDE DEF w
    <3>2. w + i = k - 1
      BY <3>1
    <3> QED
      BY <3>2 DEF w
  <2> QED
    BY <2>7, <2>8, <2>11, <2>12 DEF q
<1> QED
  BY <1>4, <1>5

-----------------------------------------------------------------------------
(* The tracks that have audio.                                               *)

Joined(n, q) == IF n \in encoded THEN Append(q, n) ELSE q

PresentOf ==
    CHOOSE f : f = [n \in 0 .. Total |->
        IF n = 0 THEN <<>>
        ELSE IF n \in encoded THEN Append(f[n - 1], n) ELSE f[n - 1]]

LEMMA Presents ==
  ASSUME Total \in Nat
  PROVE  /\ PresentOf[0] = <<>>
         /\ \A n \in 1 .. Total : PresentOf[n] = Joined(n, PresentOf[n - 1])
         /\ Present = PresentOf[Total]
<1> DEFINE V == Seq(Nat)
           next == [x \in (1 .. Total) \X V |-> Joined(x[1], x[2])]
           IsPresent(f) == f = [n \in 0 .. Total |->
              IF n = 0 THEN <<>>
              ELSE IF n \in encoded THEN Append(f[n - 1], n) ELSE f[n - 1]]
<1>1. <<>> \in V
  OBVIOUS
<1>2. next \in [(1 .. Total) \X V -> V]
  <2>1. ASSUME NEW x \in (1 .. Total) \X V PROVE Joined(x[1], x[2]) \in V
    <3>1. x[1] \in Nat /\ x[2] \in V
      OBVIOUS
    <3> QED
      BY <3>1 DEF Joined
  <2> QED
    BY <2>1
<1>3. PICK f \in [0 .. Total -> V] : Unwinds(f, Total, <<>>, next)
  <2> HIDE DEF next, V
  <2> QED
    BY <1>1, <1>2, Recursion
<1>4. f[0] = <<>> /\ \A n \in 1 .. Total : f[n] = Joined(n, f[n - 1])
  <2>1. \A n \in 1 .. Total : n - 1 \in 0 .. Total
    OBVIOUS
  <2>2. \A n \in 1 .. Total : f[n - 1] \in V
    <3> HIDE DEF V
    <3> QED
      BY <2>1
  <2>3. ASSUME NEW n \in 1 .. Total PROVE f[n] = Joined(n, f[n - 1])
    <3>1. f[n] = next[<<n, f[n - 1]>>]
      BY <1>3 DEF Unwinds
    <3>2. <<n, f[n - 1]>> \in (1 .. Total) \X V
      BY <2>2
    <3> QED
      BY <3>1, <3>2
  <2> QED
    BY <1>3, <2>3 DEF Unwinds
<1>5. IsPresent(f)
  <2>1. ASSUME NEW n \in 0 .. Total
        PROVE f[n] = IF n = 0 THEN <<>>
              ELSE IF n \in encoded THEN Append(f[n - 1], n) ELSE f[n - 1]
    <3>1. n = 0 \/ n \in 1 .. Total
      OBVIOUS
    <3> QED
      BY <3>1, <1>4 DEF Joined
  <2> QED
    BY <2>1, <1>3
<1>6. IsPresent(PresentOf)
  BY <1>5, Zenon DEF PresentOf
<1>7. Present = PresentOf[Total]
  BY Zenon DEF Present, PresentOf
<1> DEFINE g == PresentOf
<1>8. g[0] = <<>> /\ \A n \in 1 .. Total : g[n] = Joined(n, g[n - 1])
  <2>1. 0 \in 0 .. Total /\ \A n \in 1 .. Total : n \in 0 .. Total /\ n # 0
    OBVIOUS
  <2>2. \A n \in 0 .. Total : g[n] = IF n = 0 THEN <<>>
              ELSE IF n \in encoded THEN Append(g[n - 1], n) ELSE g[n - 1]
    BY <1>6
  <2> HIDE DEF g
  <2> QED
    BY <2>1, <2>2 DEF Joined
<1> QED
  BY <1>7, <1>8

\* q lists the encoded tracks up to m.
Lists(q, m) ==
    /\ q \in Seq(1 .. m)
    /\ \A i, k \in 1 .. Len(q) : i < k => q[i] < q[k]
    /\ \A b \in 1 .. m : b \in encoded <=> \E i \in 1 .. Len(q) : q[i] = b

LEMMA JoinedLists ==
  ASSUME NEW m \in Nat \ {0}, NEW q, Lists(q, m - 1)
  PROVE  Lists(Joined(m, q), m)
<1>1. q \in Seq(1 .. m - 1) /\ Len(q) \in Nat /\ \A i \in 1 .. Len(q) : q[i] \in 1 .. m - 1
  BY DEF Lists
<1>2. q \in Seq(1 .. m)
  <2>1. 1 .. m - 1 \subseteq 1 .. m
    OBVIOUS
  <2> QED
    BY <1>1, <2>1, SeqMonotonic
<1>3. \A i, k \in 1 .. Len(q) : i < k => q[i] < q[k]
  BY DEF Lists
<1>4. \A b \in 1 .. m - 1 : b \in encoded <=> \E i \in 1 .. Len(q) : q[i] = b
  BY DEF Lists
<1>5. m \in 1 .. m /\ \A b \in 1 .. m : b = m \/ b \in 1 .. m - 1
  OBVIOUS
<1>6. CASE m \notin encoded
  <2>1. ASSUME NEW b \in 1 .. m
        PROVE  b \in encoded <=> \E i \in 1 .. Len(q) : q[i] = b
    <3>1. CASE b = m
      BY <3>1, <1>1, <1>6
    <3>2. CASE b \in 1 .. m - 1
      BY <3>2, <1>4
    <3> QED
      BY <3>1, <3>2, <1>5
  <2> QED
    BY <2>1, <1>2, <1>3, <1>6 DEF Lists, Joined
<1>7. CASE m \in encoded
  <2> DEFINE e == Append(q, m)
  <2>1. /\ e \in Seq(1 .. m) /\ Len(e) = Len(q) + 1
        /\ e[Len(q) + 1] = m /\ \A i \in 1 .. Len(q) : e[i] = q[i]
    <3> DEFINE R == 1 .. m
    <3>1. q \in Seq(R) /\ m \in R
      BY <1>2, <1>5
    <3> HIDE DEF R
    <3>2. /\ e \in Seq(R) /\ Len(e) = Len(q) + 1
          /\ e[Len(q) + 1] = m /\ \A i \in 1 .. Len(q) : e[i] = q[i]
      BY ONLY <3>1
    <3> QED
      BY <3>2 DEF R
  <2> HIDE DEF e
  <2>2. ASSUME NEW i \in 1 .. Len(e), NEW k \in 1 .. Len(e), i < k PROVE e[i] < e[k]
    <3>1. i \in 1 .. Len(q) /\ (k \in 1 .. Len(q) \/ k = Len(q) + 1)
      <4>1. Len(e) = Len(q) + 1 /\ Len(q) \in Nat
        BY <2>1, <1>1
      <4> DEFINE n == Len(q)
                 l == Len(e)
      <4>2. l = n + 1 /\ n \in Nat /\ i \in 1 .. l /\ k \in 1 .. l /\ i < k
        BY <4>1, <2>2
      <4> HIDE DEF n, l
      <4>3. i \in 1 .. n /\ (k \in 1 .. n \/ k = n + 1)
        BY ONLY <4>2
      <4> QED
        BY <4>3 DEF n
    <3>2. CASE k \in 1 .. Len(q)
      BY <3>1, <3>2, <2>1, <2>2, <1>3
    <3>3. CASE k = Len(q) + 1
      <4>1. e[i] = q[i] /\ e[k] = m /\ q[i] \in 1 .. m - 1
        BY <3>1, <3>3, <2>1, <1>1
      <4> QED
        BY <4>1
    <3> QED
      BY <3>1, <3>2, <3>3
  <2>3. ASSUME NEW b \in 1 .. m
        PROVE  b \in encoded <=> \E i \in 1 .. Len(e) : e[i] = b
    <3>1. CASE b = m
      <4>1. Len(q) + 1 \in 1 .. Len(e)
        BY <2>1, <1>1
      <4> QED
        BY <3>1, <4>1, <2>1, <1>7
    <3>2. CASE b \in 1 .. m - 1
      <4>1. \A i \in 1 .. Len(e) : i \in 1 .. Len(q) \/ i = Len(q) + 1
        BY <2>1, <1>1
      <4>2. \A i \in 1 .. Len(q) : i \in 1 .. Len(e)
        BY <2>1, <1>1
      <4>3. b # m
        BY <3>2
      <4> QED
        BY <3>2, <4>1, <4>2, <4>3, <2>1, <1>4
    <3> QED
      BY <3>1, <3>2, <1>5
  <2>4. Joined(m, q) = e
    BY <1>7 DEF Joined, e
  <2> QED
    BY <2>1, <2>2, <2>3, <2>4 DEF Lists
<1> QED
  BY <1>6, <1>7

LEMMA PresentLists ==
  ASSUME Total \in Nat
  PROVE  Lists(Present, Total)
<1> DEFINE T == {m \in 0 .. Total : Lists(PresentOf[m], m)}
<1>1. 0 \in T
  <2>1. PresentOf[0] = <<>>
    BY Presents
  <2>2. Lists(<<>>, 0)
    <3>1. <<>> \in Seq(1 .. 0) /\ Len(<<>>) = 0
      OBVIOUS
    <3> QED
      BY <3>1 DEF Lists
  <2>3. 0 \in 0 .. Total
    OBVIOUS
  <2> QED
    BY <2>1, <2>2, <2>3
<1>2. ASSUME NEW m \in 1 .. Total, m - 1 \in T PROVE m \in T
  <2>1. m \in Nat \ {0} /\ m \in 0 .. Total /\ Lists(PresentOf[m - 1], m - 1)
    BY <1>2
  <2>2. PresentOf[m] = Joined(m, PresentOf[m - 1])
    BY Presents
  <2>3. Lists(Joined(m, PresentOf[m - 1]), m)
    BY <2>1, JoinedLists
  <2> QED
    BY <2>1, <2>2, <2>3
<1>3. T \in SUBSET (0 .. Total)
  OBVIOUS
<1>4. T = 0 .. Total
  <2> HIDE DEF T
  <2> QED
    BY <1>1, <1>2, <1>3, Induction
<1> QED
  BY <1>4, Presents

-----------------------------------------------------------------------------
(* The job as SynthBatch has it: what is held where, and what was made.      *)

Asked == sizes \in Seq(Int) /\ sizes # <<>>

SlotStates == {"none", "pcm", "freed"}
Slots == audio \in [Tracks -> SlotStates] /\ track \in Nat \ {0}

\* A status is chosen, then stored: what was chosen stays right, whatever becomes
\* of the flag in between.
Settling ==
    /\ verdict # "running" => pc \in {"settle", "returned"}
    /\ status # "running" => pc = "returned" /\ status = verdict
    /\ pc = "settle" => verdict # "running"
    /\ pc = "returned" => status # "running"

HeldAt ==
    /\ inputs => pc \in {"start", "load", "dit", "decode", "failed"}
    /\ job => pc = "decode"

\* Decoded tracks wait for the encoder, which takes them one by one.
AudioAt ==
    \A b \in Tracks :
        /\ audio[b] = "pcm" =>
              b <= Total /\ (pc \in {"decode", "failed"} \/ (pc = "encode" /\ track <= b))
        /\ audio[b] = "freed" => pc \in {"encode", "finish", "settle", "returned"}

\* A track that the encoder took has its string, unless a cancel came between.
EncodedAt ==
    /\ \A b \in encoded : b \in Tracks /\ b <= Total /\ audio[b] = "freed"
    /\ verdict = "done" \/ (pc \in {"encode", "finish"} /\ ~cancel) =>
          \A b \in Tracks : audio[b] = "freed" => b \in encoded

BatchAt == batch = <<>> \/ batch = Expand(sizes)

LatentsAt == pc \in {"decode", "encode", "finish"} => latents = [b \in 1 .. Total |-> b]

Paired == body = [i \in DOMAIN Present |-> <<Present[i], Present[i]>>]
BodyAt ==
    /\ body = <<>> \/ Paired
    /\ pc = "finish" \/ verdict = "done" => Paired
    /\ pc \in {"start", "load", "dit", "decode", "encode"} => body = <<>>

BInv ==
    /\ Asked /\ Slots /\ Settling /\ HeldAt /\ AudioAt
    /\ EncodedAt /\ BatchAt /\ LatentsAt /\ BodyAt

LEMMA BatchInit == Init => BInv
<1> SUFFICES ASSUME Init PROVE BInv
  OBVIOUS
<1>1. Asked
  <2>1. PICK n \in 1 .. MaxRequests : sizes \in [1 .. n -> Sizes]
    BY DEF Init
  <2>2. n \in Nat \ {0} /\ sizes \in [1 .. n -> Int]
    <3>1. n \in Nat \ {0}
      BY SizesAssumption
    <3>2. \A k \in 1 .. n : sizes[k] \in Int
      BY <2>1, SizesAssumption
    <3> QED
      BY <2>1, <3>1, <3>2
  <2>3. sizes \in Seq(Int) /\ Len(sizes) = n
    BY <2>2
  <2> QED
    BY <2>2, <2>3 DEF Asked
<1>2. Slots
  BY DEF Init, Slots, SlotStates
<1>3. Settling /\ HeldAt /\ BatchAt /\ LatentsAt
  BY DEF Init, Settling, HeldAt, BatchAt, LatentsAt
<1>4. AudioAt /\ EncodedAt
  BY DEF Init, AudioAt, EncodedAt
<1>5. BodyAt
  BY DEF Init, BodyAt
<1> QED
  BY <1>1, <1>2, <1>3, <1>4, <1>5 DEF BInv

\* A step that leaves the slots, the encoded strings and the answer alone.
LEMMA SlotsUntouched ==
  ASSUME BInv, UNCHANGED <<sizes, audio, track, encoded, body>>
  PROVE  Asked' /\ Slots' /\ Total' = Total /\ (Paired => Paired')
<1>1. Total' = Total
  BY DEF Total, TotalAlloc
<1>2. Present' = Present
  BY <1>1 DEF Present
<1> QED
  BY <1>1, <1>2 DEF BInv, Asked, Slots, Paired

LEMMA StartHolds == BInv /\ Start => BInv'
<1> SUFFICES ASSUME BInv, Start PROVE BInv'
  OBVIOUS
<1>0. /\ UNCHANGED <<sizes, mp3, tiles, cancel, status, batch, job, latents, audio, track, tile,
                     encoded, body>>
      /\ pc = "start"
      /\ \/ inputs' = FALSE /\ verdict' = "cancelled" /\ pc' = "settle"
         \/ inputs' = inputs /\ verdict' = verdict /\ pc' = "load"
  BY DEF Start, Choose, jobInput
<1>1. Asked' /\ Slots' /\ Total' = Total /\ (Paired => Paired')
  BY <1>0, SlotsUntouched
<1>2. Settling' /\ HeldAt' /\ BatchAt' /\ LatentsAt'
  BY <1>0 DEF BInv, Settling, HeldAt, BatchAt, LatentsAt
<1>3. AudioAt' /\ EncodedAt'
  BY <1>0, <1>1 DEF BInv, AudioAt, EncodedAt
<1>4. BodyAt'
  BY <1>0, <1>1 DEF BInv, BodyAt
<1> QED
  BY <1>1, <1>2, <1>3, <1>4 DEF BInv

LEMMA LoadHolds == BInv /\ Load => BInv'
<1> SUFFICES ASSUME BInv, Load PROVE BInv'
  OBVIOUS
<1>0. /\ UNCHANGED <<sizes, mp3, tiles, cancel, status, job, latents, audio, track, tile, encoded,
                     body>>
      /\ pc = "load"
      /\ \/ inputs' = FALSE /\ verdict' = "failed" /\ pc' = "settle" /\ batch' = batch
         \/ inputs' = inputs /\ verdict' = verdict /\ pc' = "dit" /\ batch' = Expand(sizes)
  BY DEF Load, Choose, jobInput
<1>1. Asked' /\ Slots' /\ Total' = Total /\ (Paired => Paired')
  BY <1>0, SlotsUntouched
<1>2. Settling' /\ HeldAt' /\ BatchAt' /\ LatentsAt'
  BY <1>0 DEF BInv, Settling, HeldAt, BatchAt, LatentsAt
<1>3. AudioAt' /\ EncodedAt'
  BY <1>0, <1>1 DEF BInv, AudioAt, EncodedAt
<1>4. BodyAt'
  BY <1>0, <1>1 DEF BInv, BodyAt
<1> QED
  BY <1>1, <1>2, <1>3, <1>4 DEF BInv

LEMMA DitHolds == BInv /\ Dit => BInv'
<1> SUFFICES ASSUME BInv, Dit PROVE BInv'
  OBVIOUS
<1>0. /\ UNCHANGED <<sizes, mp3, cancel, verdict, status, inputs, batch, audio, track, tile,
                     encoded, body>>
      /\ pc = "dit"
      /\ \/ pc' = "failed" /\ job' = job
         \/ pc' = "decode" /\ latents' = [b \in 1 .. Total |-> b]
  BY DEF Dit, jobInput
<1>1. Asked' /\ Slots' /\ Total' = Total /\ (Paired => Paired')
  BY <1>0, SlotsUntouched
<1>2. Settling' /\ HeldAt' /\ BatchAt' /\ LatentsAt'
  BY <1>0, <1>1 DEF BInv, Settling, HeldAt, BatchAt, LatentsAt
<1>3. AudioAt' /\ EncodedAt'
  BY <1>0, <1>1 DEF BInv, AudioAt, EncodedAt
<1>4. BodyAt'
  BY <1>0, <1>1 DEF BInv, BodyAt
<1> QED
  BY <1>1, <1>2, <1>3, <1>4 DEF BInv

LEMMA CancelHolds == BInv /\ Cancel => BInv'
<1> SUFFICES ASSUME BInv, Cancel PROVE BInv'
  OBVIOUS
<1>0. /\ UNCHANGED <<sizes, mp3, tiles, verdict, status, pc, inputs, batch, job, latents, audio,
                     track, tile, encoded, body>>
      /\ cancel' = TRUE
  BY DEF Cancel, jobInput
<1>1. Asked' /\ Slots' /\ Total' = Total /\ (Paired => Paired')
  BY <1>0, SlotsUntouched
<1>2. Settling' /\ HeldAt' /\ BatchAt' /\ LatentsAt'
  BY <1>0, <1>1 DEF BInv, Settling, HeldAt, BatchAt, LatentsAt
<1>3. AudioAt' /\ EncodedAt'
  BY <1>0, <1>1 DEF BInv, AudioAt, EncodedAt
<1>4. BodyAt'
  BY <1>0, <1>1 DEF BInv, BodyAt
<1> QED
  BY <1>1, <1>2, <1>3, <1>4 DEF BInv

\* A decode fills the track's slot or gives up; either way no slot is lost.
LEMMA DecodeHolds ==
  ASSUME BInv, pc = "decode", track <= Total,
         UNCHANGED <<sizes, verdict, status, inputs, batch, latents, encoded, body, cancel>>,
         \/ pc' \in {"decode", "failed"} /\ UNCHANGED <<audio, track>> /\ (job' => pc' = "decode")
         \/ \E slot \in {"none", "pcm"} : audio' = [audio EXCEPT ![track] = slot]
                                           /\ track' = track + 1 /\ UNCHANGED <<pc, job>>
  PROVE  BInv'
<1>0. pc' \in {"decode", "failed"} /\ (job' => pc' = "decode")
  BY DEF BInv, HeldAt
<1>1. Total' = Total /\ Asked' /\ sizes' = sizes
  BY DEF BInv, Total, TotalAlloc, Asked
<1>2. Total \in Tracks /\ track \in Tracks /\ audio \in [Tracks -> SlotStates]
  <2>1. Total \in 1 .. Limit
    BY TotalRange DEF BInv, Asked, Total
  <2> QED
    BY <2>1, LimitAssumption DEF BInv, Slots, Tracks
<1>3. Slots'
  BY <1>2 DEF Slots, BInv, SlotStates, Tracks
<1>4. Settling' /\ HeldAt' /\ BatchAt'
  BY <1>0 DEF BInv, Settling, HeldAt, BatchAt
<1>5. LatentsAt'
  BY <1>0, <1>1 DEF BInv, LatentsAt
<1>6. \A b \in Tracks : audio[b] # "freed" /\ (audio[b] = "pcm" => b <= Total)
  BY DEF BInv, AudioAt
<1>7. \A b \in Tracks : audio'[b] # "freed" /\ (audio'[b] = "pcm" => b <= Total)
  BY <1>2, <1>6
<1>8. AudioAt'
  BY <1>0, <1>1, <1>7 DEF AudioAt
<1>9. encoded = {}
  BY <1>6 DEF BInv, EncodedAt
<1>10. EncodedAt'
  BY <1>7, <1>9 DEF EncodedAt
<1>11. BodyAt'
  BY <1>0 DEF BInv, BodyAt, Settling
<1> QED
  BY <1>1, <1>3, <1>4, <1>5, <1>8, <1>10, <1>11 DEF BInv

LEMMA DecodeTileHolds == BInv /\ DecodeTile => BInv'
<1> SUFFICES ASSUME BInv, DecodeTile PROVE BInv'
  OBVIOUS
<1>1. /\ pc = "decode" /\ track <= Total
      /\ UNCHANGED <<sizes, verdict, status, inputs, batch, latents, encoded, body, cancel>>
      /\ \/ pc' = pc /\ UNCHANGED <<audio, track>>
         \/ pc' = "failed" /\ job' = FALSE /\ UNCHANGED <<audio, track>>
         \/ audio' = [audio EXCEPT ![track] = "none"] /\ track' = track + 1 /\ UNCHANGED <<pc, job>>
  BY DEF DecodeTile, Decoding, GiveUp, NextTrack, jobInput
<1> QED
  BY <1>1, DecodeHolds

LEMMA KeepTrackHolds == BInv /\ KeepTrack => BInv'
<1> SUFFICES ASSUME BInv, KeepTrack PROVE BInv'
  OBVIOUS
<1>1. /\ pc = "decode" /\ track <= Total
      /\ UNCHANGED <<sizes, verdict, status, inputs, batch, latents, encoded, body, cancel>>
      /\ \E slot \in {"none", "pcm"} : audio' = [audio EXCEPT ![track] = slot]
                                           /\ track' = track + 1 /\ UNCHANGED <<pc, job>>
  BY DEF KeepTrack, Decoding, NextTrack, jobInput
<1> QED
  BY <1>1, DecodeHolds

LEMMA RunDoneHolds == BInv /\ RunDone => BInv'
<1> SUFFICES ASSUME BInv, RunDone PROVE BInv'
  OBVIOUS
<1>0. /\ UNCHANGED <<sizes, mp3, tiles, cancel, verdict, status, batch, latents, audio, tile,
                     encoded, body>>
      /\ pc = "decode" /\ track > Total
      /\ job' = FALSE /\ inputs' = FALSE /\ track' = 1 /\ pc' = "encode"
  BY DEF RunDone, jobInput
<1>1. Total' = Total /\ Asked'
  BY <1>0 DEF BInv, Total, TotalAlloc, Asked
<1>2. Slots'
  BY <1>0 DEF BInv, Slots
<1>3. Settling' /\ HeldAt' /\ BatchAt'
  BY <1>0 DEF BInv, Settling, HeldAt, BatchAt
<1>4. LatentsAt'
  BY <1>0, <1>1 DEF BInv, LatentsAt
<1>5. \A b \in Tracks : audio[b] # "freed" /\ (audio[b] = "pcm" => b <= Total)
  BY <1>0 DEF BInv, AudioAt
<1>6. \A b \in Tracks : 1 <= b
  BY LimitAssumption DEF Tracks
<1>7. AudioAt'
  BY <1>0, <1>1, <1>5, <1>6 DEF AudioAt
<1>8. EncodedAt'
  BY <1>0, <1>1, <1>5 DEF BInv, EncodedAt
<1>9. BodyAt'
  BY <1>0 DEF BInv, BodyAt, Settling
<1> QED
  BY <1>1, <1>2, <1>3, <1>4, <1>7, <1>8, <1>9 DEF BInv

LEMMA RunFailedHolds == BInv /\ RunFailed => BInv'
<1> SUFFICES ASSUME BInv, RunFailed PROVE BInv'
  OBVIOUS
<1>0. /\ UNCHANGED <<sizes, mp3, tiles, cancel, status, batch, job, latents, track, tile, encoded,
                     body>>
      /\ pc = "failed" /\ pc' = "settle"
      /\ inputs' = FALSE /\ verdict' \in {"cancelled", "failed"}
      /\ audio' = Freed(audio)
  BY DEF RunFailed, Choose, jobInput
<1>1. Total' = Total /\ Asked'
  BY <1>0 DEF BInv, Total, TotalAlloc, Asked
<1>2. /\ audio' \in [Tracks -> SlotStates]
      /\ \A b \in Tracks : audio'[b] # "pcm" /\ (audio[b] = "freed" => audio'[b] = "freed")
  BY <1>0 DEF BInv, Slots, SlotStates, Freed
<1>3. Slots'
  BY <1>0, <1>2 DEF BInv, Slots
<1>4. Settling' /\ HeldAt' /\ BatchAt' /\ LatentsAt'
  BY <1>0 DEF BInv, Settling, HeldAt, BatchAt, LatentsAt
<1>5. AudioAt'
  BY <1>0, <1>2 DEF AudioAt
<1>6. EncodedAt'
  BY <1>0, <1>1, <1>2 DEF BInv, EncodedAt
<1>7. BodyAt'
  <2>1. Present' = Present
    BY <1>0, <1>1 DEF Present
  <2> QED
    BY <1>0, <2>1 DEF BInv, BodyAt, Paired
<1> QED
  BY <1>1, <1>3, <1>4, <1>5, <1>6, <1>7 DEF BInv

LEMMA EncodeHolds == BInv /\ Encode => BInv'
<1> SUFFICES ASSUME BInv, Encode PROVE BInv'
  OBVIOUS
<1>0. /\ UNCHANGED <<sizes, mp3, tiles, cancel, verdict, status, pc, inputs, batch, job, latents,
                     tile, body>>
      /\ pc = "encode" /\ track <= Total /\ track' = track + 1
      /\ \/ audio[track] # "pcm" /\ UNCHANGED <<audio, encoded>>
         \/ /\ audio[track] = "pcm"
            /\ audio' = [audio EXCEPT ![track] = "freed"]
            /\ encoded' = IF mp3 /\ cancel THEN encoded ELSE encoded \cup {track}
  BY DEF Encode, jobInput
<1>1. Total' = Total /\ Asked'
  BY <1>0 DEF BInv, Total, TotalAlloc, Asked
<1>2. Total \in Tracks /\ track \in Tracks /\ audio \in [Tracks -> SlotStates]
  <2>1. Total \in 1 .. Limit
    BY TotalRange DEF BInv, Asked, Total
  <2> QED
    BY <1>0, <2>1, LimitAssumption DEF BInv, Slots, Tracks
<1>3. Slots'
  <2>1. track' \in Nat \ {0}
    BY <1>0 DEF BInv, Slots
  <2>2. audio' \in [Tracks -> SlotStates]
    BY <1>0, <1>2 DEF SlotStates
  <2> QED
    BY <2>1, <2>2 DEF Slots
<1>4. Settling' /\ HeldAt' /\ BatchAt'
  BY <1>0 DEF BInv, Settling, HeldAt, BatchAt
<1>5. LatentsAt'
  BY <1>0, <1>1 DEF BInv, LatentsAt
<1>6. \A b \in Tracks : audio[b] = "pcm" => track <= b /\ b <= Total
  BY <1>0 DEF BInv, AudioAt
<1>7. ASSUME NEW b \in Tracks, audio'[b] = "pcm" PROVE track' <= b /\ b <= Total
  <2>1. b # track /\ audio[b] = "pcm"
    BY <1>0, <1>2, <1>7
  <2>2. track <= b /\ b <= Total
    BY <1>6, <2>1
  <2>3. b \in Nat /\ track \in Nat /\ track' = track + 1
    BY <1>0, <1>2, LimitAssumption DEF Tracks
  <2> QED
    BY <2>1, <2>2, <2>3
<1>8. AudioAt'
  BY <1>0, <1>1, <1>7 DEF AudioAt
<1>9. EncodedAt'
  <2>1. \A b \in encoded : b \in Tracks /\ b <= Total /\ audio[b] = "freed"
    BY DEF BInv, EncodedAt
  <2>2. verdict # "done" /\ (~cancel => \A b \in Tracks : audio[b] = "freed" => b \in encoded)
    BY <1>0 DEF BInv, EncodedAt, Settling
  <2>3. \A b \in encoded' : b \in Tracks /\ b <= Total /\ audio'[b] = "freed"
    BY <1>0, <1>2, <2>1
  <2>4. ~cancel => \A b \in Tracks : audio'[b] = "freed" => b \in encoded'
    BY <1>0, <1>2, <2>2
  <2> QED
    BY <1>0, <1>1, <2>2, <2>3, <2>4 DEF EncodedAt
<1>10. BodyAt'
  BY <1>0 DEF BInv, BodyAt, Settling
<1> QED
  BY <1>1, <1>3, <1>4, <1>5, <1>8, <1>9, <1>10 DEF BInv

LEMMA BuildHolds == BInv /\ Build => BInv'
<1> SUFFICES ASSUME BInv, Build PROVE BInv'
  OBVIOUS
<1>0. /\ UNCHANGED <<sizes, mp3, tiles, cancel, verdict, status, inputs, batch, job, latents, audio,
                     track, tile, encoded>>
      /\ pc = "encode" /\ track > Total /\ body' = Pairs /\ pc' = "finish"
  BY DEF Build, jobInput
<1>1. Total' = Total /\ Asked'
  BY <1>0 DEF BInv, Total, TotalAlloc, Asked
<1>2. Slots'
  BY <1>0 DEF BInv, Slots
<1>3. Settling' /\ HeldAt' /\ BatchAt'
  BY <1>0 DEF BInv, Settling, HeldAt, BatchAt
<1>4. LatentsAt'
  BY <1>0, <1>1 DEF BInv, LatentsAt
<1>5. Total \in Nat /\ track \in Nat
  <2>1. Total \in 1 .. Limit
    BY TotalRange DEF BInv, Asked, Total
  <2> QED
    BY <2>1, LimitAssumption DEF BInv, Slots
<1>6. \A b \in Tracks : audio[b] # "pcm"
  <2>1. \A b \in Tracks : audio[b] = "pcm" => b <= Total /\ track <= b
    BY <1>0 DEF BInv, AudioAt
  <2>2. \A b \in Tracks : b \in Nat
    BY LimitAssumption DEF Tracks
  <2> QED
    BY <1>0, <1>5, <2>1, <2>2
<1>7. AudioAt'
  BY <1>0, <1>6 DEF AudioAt
<1>8. EncodedAt'
  BY <1>0, <1>1 DEF BInv, EncodedAt, Settling
<1>9. Paired'
  <2>1. Present' = Present
    BY <1>0, <1>1 DEF Present
  <2>2. \A i \in DOMAIN Present : Present[i] \in 1 .. Total
    BY <1>5, PresentLists DEF Lists
  <2>3. latents = [b \in 1 .. Total |-> b]
    BY <1>0 DEF BInv, LatentsAt
  <2>4. \A i \in DOMAIN Present : latents[Present[i]] = Present[i]
    BY <2>2, <2>3
  <2>5. Pairs = [i \in DOMAIN Present |-> <<Present[i], Present[i]>>]
    BY <2>4 DEF Pairs
  <2> QED
    BY <1>0, <2>1, <2>5 DEF Paired
<1>10. BodyAt'
  BY <1>0, <1>9 DEF BodyAt
<1> QED
  BY <1>1, <1>2, <1>3, <1>4, <1>7, <1>8, <1>10 DEF BInv

LEMMA FinishHolds == BInv /\ Finish => BInv'
<1> SUFFICES ASSUME BInv, Finish PROVE BInv'
  OBVIOUS
<1>0. /\ UNCHANGED <<sizes, mp3, tiles, cancel, status, inputs, batch, job, latents, audio, track,
                     tile, encoded, body>>
      /\ pc = "finish" /\ pc' = "settle"
      /\ verdict' = IF cancel THEN "cancelled" ELSE "done"
  BY DEF Finish, Choose, jobInput
<1>1. Asked' /\ Slots' /\ Total' = Total /\ (Paired => Paired')
  BY <1>0, SlotsUntouched
<1>2. Settling' /\ HeldAt' /\ BatchAt' /\ LatentsAt'
  BY <1>0, <1>1 DEF BInv, Settling, HeldAt, BatchAt, LatentsAt
<1>3. AudioAt' /\ EncodedAt'
  BY <1>0, <1>1 DEF BInv, AudioAt, EncodedAt
<1>4. BodyAt'
  BY <1>0, <1>1 DEF BInv, BodyAt
<1> QED
  BY <1>1, <1>2, <1>3, <1>4 DEF BInv

LEMMA SettleHolds == BInv /\ Settle => BInv'
<1> SUFFICES ASSUME BInv, Settle PROVE BInv'
  OBVIOUS
<1>0. /\ UNCHANGED <<sizes, mp3, tiles, cancel, verdict, inputs, batch, job, latents, audio, track,
                     tile, encoded, body>>
      /\ pc = "settle" /\ pc' = "returned" /\ status' = verdict
  BY DEF Settle, jobInput
<1>1. Asked' /\ Slots' /\ Total' = Total /\ (Paired => Paired')
  BY <1>0, SlotsUntouched
<1>2. Settling' /\ HeldAt' /\ BatchAt' /\ LatentsAt'
  BY <1>0, <1>1 DEF BInv, Settling, HeldAt, BatchAt, LatentsAt
<1>3. AudioAt' /\ EncodedAt'
  BY <1>0, <1>1 DEF BInv, AudioAt, EncodedAt
<1>4. BodyAt'
  BY <1>0, <1>1 DEF BInv, BodyAt
<1> QED
  BY <1>1, <1>2, <1>3, <1>4 DEF BInv

LEMMA BatchUntouched == BInv /\ UNCHANGED vars => BInv'
<1> SUFFICES ASSUME BInv, UNCHANGED vars PROVE BInv'
  OBVIOUS
<1>0. UNCHANGED <<sizes, mp3, tiles, cancel, verdict, status, pc, inputs, batch, job, latents, audio,
                  track, tile, encoded, body>>
  BY DEF vars
<1>1. Asked' /\ Slots' /\ Total' = Total /\ (Paired => Paired')
  BY <1>0, SlotsUntouched
<1>2. Settling' /\ HeldAt' /\ BatchAt' /\ LatentsAt'
  BY <1>0, <1>1 DEF BInv, Settling, HeldAt, BatchAt, LatentsAt
<1>3. AudioAt' /\ EncodedAt'
  BY <1>0, <1>1 DEF BInv, AudioAt, EncodedAt
<1>4. BodyAt'
  BY <1>0, <1>1 DEF BInv, BodyAt
<1> QED
  BY <1>1, <1>2, <1>3, <1>4 DEF BInv

\* The job in detail does what the job of SynthBatch may do.
LEMMA StepIsBatchStep == [JobNext]_jobVars => [Next]_vars
<1> SUFFICES ASSUME [JobNext]_jobVars PROVE [Next]_vars
  OBVIOUS
<1>1. CASE JobWorker
  <2>1. InDit \/ Phase1Ends \/ KeepTrack
           \/ Start \/ Load \/ DecodeTile \/ RunDone \/ RunFailed \/ Encode \/ Build \/ Finish \/ Settle
    BY <1>1, Zenon DEF JobWorker
  <2>2. InDit => UNCHANGED vars
    BY Zenon DEF InDit
  <2>3. Phase1Ends => Dit
    BY Zenon DEF Phase1Ends
  <2>4. UNCHANGED vars \/ Worker
    BY <2>1, <2>2, <2>3, Zenon DEF Worker
  <2> QED
    BY <2>4, Zenon DEF Next
<1>2. CASE Cancel \/ Returned
  BY <1>2 DEF Next
<1>3. CASE UNCHANGED jobVars
  BY <1>3 DEF jobVars
<1> QED
  BY <1>1, <1>2, <1>3 DEF JobNext

LEMMA BatchStep == BInv /\ [Next]_vars => BInv'
BY BatchUntouched, StartHolds, LoadHolds, DitHolds, DecodeTileHolds, KeepTrackHolds,
   RunDoneHolds, RunFailedHolds, EncodeHolds, BuildHolds, FinishHolds, SettleHolds, CancelHolds
   DEF Next, Worker, Returned

\* A settled job holds nothing: inputs, the DiT job and audio are freed on each
\* of its ways out (ace-server.cpp:719-748, 811-846, 875-915,
\* synth-batch-runner.h:28-93).
THEOREM SynthReleases == JobSpec => []Released
<1>1. JobInit => BInv
  BY BatchInit DEF JobInit
<1>2. BInv /\ [JobNext]_jobVars => BInv'
  BY StepIsBatchStep, BatchStep
<1>3. BInv => Released
  BY DEF BInv, Settling, HeldAt, AudioAt, Released
<1> QED
  BY <1>1, <1>2, <1>3, PTL DEF JobSpec

\* The batch is the one that was asked for, cut at the limit, and the answer
\* pairs each of its tracks with its own latent, in order, and leaves out none
\* that was decoded (ace-server.cpp:774-785, 851-912).
THEOREM SynthDelivers == JobSpec => []TracksDelivered
<1>1. JobInit => BInv
  BY BatchInit DEF JobInit
<1>2. BInv /\ [JobNext]_jobVars => BInv'
  BY StepIsBatchStep, BatchStep
<1>3. BInv => TracksDelivered
  <2> SUFFICES ASSUME BInv PROVE TracksDelivered
    OBVIOUS
  <2>1. BatchFits
    <3>1. sizes \in Seq(Int) /\ sizes # <<>> /\ (batch = <<>> \/ batch = Expand(sizes))
      BY DEF BInv, BatchAt, Asked
    <3>2. CASE batch = <<>>
      BY <3>2 DEF BatchFits
    <3>3. CASE batch = Expand(sizes)
      BY <3>1, <3>3, ExpandFits DEF BatchFits
    <3> QED
      BY <3>1, <3>2, <3>3
  <2>2. Lists(Present, Total)
    <3>1. Total \in 1 .. Limit
      BY TotalRange DEF BInv, Asked, Total
    <3>2. Total \in Nat
      BY <3>1, LimitAssumption
    <3> QED
      BY <3>2, PresentLists
  <2>3. /\ DOMAIN Present = 1 .. Len(Present)
        /\ \A i, k \in DOMAIN Present : i < k => Present[i] < Present[k]
        /\ \A b \in 1 .. Total : b \in encoded <=> \E i \in DOMAIN Present : Present[i] = b
        /\ \A i \in DOMAIN Present : Present[i] \in 1 .. Total
    <3> DEFINE q == Present
    <3> HIDE DEF q
    <3>1. q \in Seq(1 .. Total) /\ Lists(q, Total)
      BY <2>2 DEF Lists, q
    <3>2. DOMAIN q = 1 .. Len(q) /\ \A i \in DOMAIN q : q[i] \in 1 .. Total
      BY <3>1, ElementOfSeq, LenProperties
    <3>3. \A i, k \in DOMAIN q : i < k => q[i] < q[k]
      BY <3>1, <3>2 DEF Lists
    <3>4. \A b \in 1 .. Total : b \in encoded <=> \E i \in DOMAIN q : q[i] = b
      <4>1. \A b \in 1 .. Total : b \in encoded <=> \E i \in 1 .. Len(q) : q[i] = b
        BY <3>1, Zenon DEF Lists
      <4> QED
        BY <3>2, <4>1, Zenon
    <3> QED
      BY <3>2, <3>3, <3>4, Zenon DEF q
  <2>4. PairsMatch
    <3>1. CASE body = <<>>
      BY <3>1 DEF PairsMatch
    <3>2. CASE Paired
      <4>1. DOMAIN body = DOMAIN Present
            /\ \A i \in DOMAIN Present : body[i] = <<Present[i], Present[i]>>
        BY <3>2, Zenon DEF Paired
      <4> QED
        BY <4>1, <2>3 DEF PairsMatch
    <3> QED
      BY <3>1, <3>2 DEF BInv, BodyAt
  <2>5. DoneIsComplete
    <3> SUFFICES ASSUME status = "done"
                 PROVE  {body[i][1] : i \in DOMAIN body} = {b \in Tracks : audio[b] = "freed"}
      BY DEF DoneIsComplete
    <3>0. verdict = "done"
      BY DEF BInv, Settling
    <3>1. Paired
      BY <3>0 DEF BInv, BodyAt
    <3>2. DOMAIN body = DOMAIN Present
          /\ \A i \in DOMAIN Present : body[i] = <<Present[i], Present[i]>>
      BY <3>1, Zenon DEF Paired
    <3>3. \A b : b \in encoded <=> b \in Tracks /\ audio[b] = "freed"
      BY <3>0 DEF BInv, EncodedAt
    <3>4. \A b \in encoded : b \in 1 .. Total
      <4>1. \A b \in encoded : b \in Tracks /\ b <= Total
        BY DEF BInv, EncodedAt
      <4>2. Total \in 1 .. Limit
        BY TotalRange DEF BInv, Asked, Total
      <4> QED
        BY <4>1, <4>2, LimitAssumption DEF Tracks
    <3>5. \A b : b \in encoded <=> \E i \in DOMAIN Present : Present[i] = b
      BY <3>4, <2>3, Zenon
    <3>6. \A i \in DOMAIN body : body[i][1] = Present[i]
      BY <3>2
    <3>7. \A b : b \in {body[i][1] : i \in DOMAIN body} <=> \E i \in DOMAIN body : body[i][1] = b
      BY Zenon
    <3>8. \A b : (\E i \in DOMAIN body : body[i][1] = b) <=> (\E i \in DOMAIN Present : Present[i] = b)
      BY <3>2, <3>6, Zenon
    <3>9. \A b : b \in {c \in Tracks : audio[c] = "freed"} <=> b \in Tracks /\ audio[b] = "freed"
      BY Zenon
    <3>10. \A b : b \in {body[i][1] : i \in DOMAIN body} <=> b \in {c \in Tracks : audio[c] = "freed"}
      BY <3>3, <3>5, <3>7, <3>8, <3>9, Zenon
    <3> QED
      BY <3>10, Zenon
  <2> QED
    BY <2>1, <2>4, <2>5 DEF TracksDelivered
<1> QED
  BY <1>1, <1>2, <1>3, PTL DEF JobSpec

-----------------------------------------------------------------------------
(* What the graph of the sampler reads.                                      *)

AskFits == ask \in Asks /\ canvas.steps \in Int /\ Total \in Nat \ {0}

Buffers == {Cover, Plain, Null, Scratch}
Devices(n) ==
    [enc : Buffers, null : Buffers, mask : Buffers, const : {"own", Scratch}, input : Buffers,
     t : [1 .. n -> Int]]

\* The call is under way.
Sampling == at \in {"top", "cond", "uncond", "solve"}

PlanFits ==
    /\ plan.n \in Nat \ {0} /\ plan.cover \in Int /\ step \in Int
    /\ dev \in Devices(plan.n)

Late == plan.cover >= 0 /\ step >= plan.cover

\* The conditioning is that of the step from its top on; before it, it may be
\* the one from before the switch.
HostFits ==
    /\ host \in {Cover, Plain}
    /\ host = Plain => Late
    /\ at # "top" /\ Late => host = Plain

\* What a direct graph does not upload again is there.
Stands ==
    plan.direct =>
        /\ dev.mask = host /\ dev.const = "own"
        /\ ~TwoPass => dev.enc = host /\ dev.null = Null

Reads ==
    /\ dev.mask = host /\ dev.input = host /\ dev.const = "own" /\ dev.t[1] = step
    /\ at = "cond" => dev.enc = host /\ dev.null = Null
    /\ at = "uncond" => dev.enc = Null /\ TwoPass

SInv ==
    /\ at \in {"idle", "failed", "done"} \/ Sampling
    /\ Sampling => PlanFits /\ HostFits
    /\ at \in {"top", "solve"} => Stands
    /\ at \in {"cond", "uncond"} => Reads

LEMMA GenerateHolds ==
  ASSUME NEW p, p.n \in Nat \ {0}, p.cover \in Int, Generate(p)
  PROVE  SInv'
<1>1. plan' = p /\ step' = 0 /\ host' = Cover
  BY DEF Generate
<1>2. CASE at' = "failed"
  BY <1>2 DEF SInv, Sampling
<1>3. CASE /\ at' = "top"
           /\ dev' = [enc |-> Cover, null |-> Null, mask |-> Cover, const |-> "own",
                      input |-> Scratch, t |-> [b \in 1 .. p.n |-> NoTime]]
  <2>1. dev' \in Devices(p.n)
    BY <1>3 DEF Devices, Buffers, NoTime
  <2>2. PlanFits'
    BY <1>1, <2>1 DEF PlanFits
  <2>3. HostFits'
    BY <1>1, <1>3 DEF HostFits, Cover, Plain
  <2>4. Stands'
    BY <1>1, <1>3 DEF Stands
  <2> QED
    BY <1>3, <2>2, <2>3, <2>4 DEF SInv, Sampling
<1> QED
  BY <1>2, <1>3 DEF Generate

LEMMA StepTopHolds ==
  ASSUME SInv, NEW c, StepTop(c)
  PROVE  SInv'
<1>1. at = "top" /\ plan' = plan /\ step' = step /\ PlanFits /\ HostFits /\ Stands
  BY DEF StepTop, SInv, Sampling
<1>2. CASE at' = "failed"
  BY <1>2 DEF SInv, Sampling
<1>3. CASE /\ at' = "cond" /\ host' = Switch(host) /\ dev' = Upload(dev, host')
  <2>1. host' \in {Cover, Plain} /\ (host' = Plain <=> Late)
    BY <1>1, <1>3 DEF Switch, HostFits, Late
  <2>2. dev \in Devices(plan.n) /\ step \in Int /\ {Cover, Plain, Null} \subseteq Buffers
    BY <1>1 DEF PlanFits, Buffers
  <2>3. dev' = [enc   |-> IF ~plan.direct \/ TwoPass \/ host' # host THEN host' ELSE dev.enc,
                null  |-> IF ~plan.direct \/ TwoPass \/ host' # host THEN Null ELSE dev.null,
                mask  |-> IF ~plan.direct \/ host' # host THEN host' ELSE dev.mask,
                const |-> IF ~plan.direct THEN "own" ELSE dev.const,
                input |-> host',
                t     |-> [b \in 1 .. plan.n |-> step]]
    BY <1>3, <2>2 DEF Upload, Devices
  <2>4. dev' \in Devices(plan.n)
    BY <2>1, <2>2, <2>3 DEF Devices
  <2>5. PlanFits'
    BY <1>1, <2>4 DEF PlanFits
  <2>6. HostFits'
    BY <1>1, <1>3, <2>1 DEF HostFits, Late
  <2>7. dev'.mask = host' /\ dev'.input = host' /\ dev'.const = "own"
    BY <1>1, <2>3 DEF Stands
  <2>8. dev'.enc = host' /\ dev'.null = Null
    BY <1>1, <2>3 DEF Stands
  <2>9. dev'.t[1] = step'
    <3>1. 1 \in 1 .. plan.n
      BY <1>1 DEF PlanFits
    <3> QED
      BY <1>1, <2>3, <3>1
  <2>10. Reads'
    BY <1>3, <2>7, <2>8, <2>9 DEF Reads
  <2> QED
    BY <1>3, <2>5, <2>6, <2>10 DEF SInv, Sampling
<1> QED
  BY <1>2, <1>3 DEF StepTop

\* A computation leaves a direct graph its conditioning, masks and constants.
LEMMA ComputeLeaves ==
  ASSUME PlanFits, NEW d \in AfterCompute(dev)
  PROVE  /\ d \in Devices(plan.n)
         /\ plan.direct => d.enc = dev.enc /\ d.null = dev.null /\ d.mask = dev.mask
                           /\ d.const = dev.const
<1>1. dev \in Devices(plan.n)
  BY DEF PlanFits
<1>2. CASE d = dev
  BY <1>1, <1>2
<1>3. CASE plan.direct /\ d = [dev EXCEPT !.t = [b \in DOMAIN dev.t |-> NoTime], !.input = Scratch]
  <2>1. d = [enc |-> dev.enc, null |-> dev.null, mask |-> dev.mask, const |-> dev.const,
             input |-> Scratch, t |-> [b \in 1 .. plan.n |-> NoTime]]
    BY <1>1, <1>3 DEF Devices
  <2> QED
    BY <1>1, <2>1 DEF Devices, Buffers, NoTime
<1>4. CASE ~plan.direct /\ d = [NoDevice EXCEPT !.t = [b \in DOMAIN dev.t |-> NoTime]]
  <2>1. d = [enc |-> Scratch, null |-> Scratch, mask |-> Scratch, const |-> Scratch,
             input |-> Scratch, t |-> [b \in 1 .. plan.n |-> NoTime]]
    <3>1. DOMAIN dev.t = 1 .. plan.n
      BY <1>1 DEF Devices
    <3> QED
      BY <1>4, <3>1 DEF NoDevice
  <2> DEFINE none == [b \in 1 .. plan.n |-> NoTime]
  <2>2. none \in [1 .. plan.n -> Int]
    BY DEF NoTime
  <2> HIDE DEF none
  <2>3. d = [enc |-> Scratch, null |-> Scratch, mask |-> Scratch, const |-> Scratch,
             input |-> Scratch, t |-> none]
    BY <2>1 DEF none
  <2>4. d \in Devices(plan.n)
    BY <2>2, <2>3 DEF Devices, Buffers
  <2> QED
    BY <1>4, <2>4, Zenon
<1> QED
  BY <1>2, <1>3, <1>4 DEF AfterCompute, Clobbered

LEMMA CondPassHolds == SInv /\ CondPass => SInv'
<1> SUFFICES ASSUME SInv, CondPass PROVE SInv'
  OBVIOUS
<1>1. at = "cond" /\ plan' = plan /\ step' = step /\ host' = host /\ PlanFits /\ HostFits /\ Reads
  BY DEF CondPass, SInv, Sampling
<1>2. PICK d \in AfterCompute(dev) :
         IF TwoPass THEN dev' = UploadNull(d) /\ at' = "uncond" ELSE dev' = d /\ at' = "solve"
  BY DEF CondPass
<1>3. /\ d \in Devices(plan.n)
      /\ plan.direct => d.enc = dev.enc /\ d.null = dev.null /\ d.mask = dev.mask
                           /\ d.const = dev.const
  BY <1>1, ComputeLeaves
<1>4. HostFits' /\ TwoPass' = TwoPass
  BY <1>1, <1>2 DEF HostFits, Late, TwoPass
<1>5. CASE TwoPass
  <2>1. dev' = UploadNull(d) /\ at' = "uncond"
    BY <1>2, <1>5
  <2>2. dev' = [enc |-> Null, null |-> d.null,
                mask |-> IF plan.direct THEN d.mask ELSE host,
                const |-> IF plan.direct THEN d.const ELSE "own",
                input |-> host,
                t |-> [b \in 1 .. plan.n |-> IF b = 1 THEN step ELSE d.t[b]]]
    BY <2>1, <1>3 DEF UploadNull, Devices
  <2>3. host \in Buffers /\ Null \in Buffers /\ step \in Int
    BY <1>1 DEF HostFits, PlanFits, Buffers
  <2>4. dev' \in Devices(plan.n)
    BY <2>2, <2>3, <1>3 DEF Devices
  <2>5. PlanFits'
    BY <1>1, <2>4 DEF PlanFits
  <2>6. dev'.mask = host /\ dev'.input = host /\ dev'.const = "own" /\ dev'.enc = Null
    BY <1>1, <1>3, <2>2 DEF Reads
  <2>7. dev'.t[1] = step
    BY <1>1, <2>2 DEF PlanFits
  <2>8. Reads'
    BY <1>1, <1>4, <1>5, <2>1, <2>6, <2>7 DEF Reads
  <2> QED
    BY <1>4, <2>1, <2>5, <2>8 DEF SInv, Sampling
<1>6. CASE ~TwoPass
  <2>1. dev' = d /\ at' = "solve"
    BY <1>2, <1>6
  <2>2. PlanFits'
    BY <1>1, <1>3, <2>1 DEF PlanFits
  <2>3. Stands'
    BY <1>1, <1>3, <1>4, <2>1 DEF Stands, Reads
  <2> QED
    BY <1>4, <2>1, <2>2, <2>3 DEF SInv, Sampling
<1> QED
  BY <1>5, <1>6

LEMMA UncondPassHolds == SInv /\ UncondPass => SInv'
<1> SUFFICES ASSUME SInv, UncondPass PROVE SInv'
  OBVIOUS
<1>1. /\ at = "uncond" /\ at' = "solve" /\ plan' = plan /\ step' = step /\ host' = host
      /\ PlanFits /\ HostFits /\ Reads /\ TwoPass
  BY DEF UncondPass, SInv, Sampling, Reads
<1>2. /\ dev' \in Devices(plan.n)
      /\ plan.direct => dev'.mask = dev.mask /\ dev'.const = dev.const
  BY <1>1, ComputeLeaves DEF UncondPass
<1>3. PlanFits' /\ HostFits' /\ TwoPass'
  BY <1>1, <1>2 DEF PlanFits, HostFits, Late, TwoPass
<1>4. Stands'
  BY <1>1, <1>2, <1>3 DEF Stands, Reads
<1> QED
  BY <1>1, <1>3, <1>4 DEF SInv, Sampling

LEMMA SolveHolds == SInv /\ Solve => SInv'
<1> SUFFICES ASSUME SInv, Solve PROVE SInv'
  OBVIOUS
<1>1. /\ at = "solve" /\ UNCHANGED <<plan, host, dev>>
      /\ PlanFits /\ HostFits /\ Stands
  BY DEF Solve, SInv, Sampling
<1>2. CASE at' = "done"
  BY <1>2 DEF SInv, Sampling
<1>3. CASE at' = "top" /\ step' = step + 1
  <2>1. PlanFits'
    BY <1>1, <1>3 DEF PlanFits
  <2>2. HostFits'
    BY <1>1, <1>3 DEF HostFits, Late, PlanFits
  <2>3. Stands'
    BY <1>1 DEF Stands, TwoPass
  <2> QED
    BY <1>3, <2>1, <2>2, <2>3 DEF SInv, Sampling
<1> QED
  BY <1>2, <1>3 DEF Solve

LEMMA SamplerUntouched == SInv /\ UNCHANGED samplerVars => SInv'
BY DEF samplerVars, SInv, Sampling, PlanFits, HostFits, Late, Stands, Reads, TwoPass

LEMMA AskFitsInit == JobInit => AskFits
<1> SUFFICES ASSUME JobInit PROVE AskFits
  OBVIOUS
<1>1. ask \in Asks /\ canvas.steps \in Int
  BY DEF JobInit, ShapeInit
<1>2. BInv
  BY BatchInit DEF JobInit
<1>3. Total \in 1 .. Limit
  BY <1>2, TotalRange DEF BInv, Asked, Total
<1> QED
  BY <1>1, <1>3, LimitAssumption DEF AskFits

LEMMA AskType ==
  ASSUME ask \in Asks
  PROVE  /\ ask.n \in Nat /\ ask.custom \in Nat
         /\ ask.start \in Int /\ ask.end \in Int /\ ask.dur \in Int /\ ask.steps \in Int
         /\ ask.strength \in Int /\ ask.noise \in BOOLEAN
         /\ ask.codes \in [1 .. MaxRequests -> Int]
         /\ ask.task \in {"text2music", "cover", "cover-nofsq", "extract", "complete",
                          "repaint", "lego"}
         /\ ask.src \in {"none", "audio", "latents"}
BY AsksAssumption

\* The steps of the shape, one by one.
LEMMA JobCases ==
  ASSUME [JobNext]_jobVars
  PROVE  \/ (Pad \/ EncodeSource \/ Fsq \/ AdjustRegion \/ ResolveT \/ EncodeText \/ BuildContext)
               /\ UNCHANGED samplerVars /\ UNCHANGED vars
         \/ InitNoise /\ UNCHANGED vars
         \/ DitStep /\ UNCHANGED vars
         \/ DitEnds /\ UNCHANGED vars
         \/ KeepTrack /\ Decode /\ UNCHANGED samplerVars
         \/ [Next]_vars /\ UNCHANGED <<shapeVars, samplerVars>>
<1>1. CASE JobWorker
  <2>1. \/ InDit /\ Phase1 /\ UNCHANGED samplerVars
        \/ InDit /\ InitNoise
        \/ InDit /\ DitStep
        \/ InDit /\ DitEnds
        \/ Phase1Ends /\ UNCHANGED <<shapeVars, samplerVars>>
        \/ KeepTrack /\ Decode /\ UNCHANGED samplerVars
        \/ (Start \/ Load \/ DecodeTile \/ RunDone \/ RunFailed \/ Encode \/ Build \/ Finish \/ Settle)
              /\ UNCHANGED <<shapeVars, samplerVars>>
    BY <1>1, Zenon DEF JobWorker
  <2>2. InDit => UNCHANGED vars
    BY Zenon DEF InDit
  <2>3. Phase1Ends => [Next]_vars
    BY Zenon DEF Phase1Ends, Next, Worker
  <2>4. (Start \/ Load \/ DecodeTile \/ RunDone \/ RunFailed \/ Encode \/ Build \/ Finish \/ Settle) => [Next]_vars
    BY Zenon DEF Next, Worker
  <2> QED
    BY <2>1, <2>2, <2>3, <2>4, Zenon DEF Phase1
<1>2. CASE (Cancel \/ Returned) /\ UNCHANGED <<shapeVars, samplerVars>>
  BY <1>2, Zenon DEF Next
<1>3. CASE UNCHANGED jobVars
  <2>1. UNCHANGED <<shapeVars, samplerVars>> /\ UNCHANGED vars
    BY <1>3 DEF jobVars
  <2> QED
    BY <2>1, Zenon
<1> QED
  BY <1>1, <1>2, <1>3, Zenon DEF JobNext

LEMMA SizesStay == [JobNext]_jobVars => sizes' = sizes
<1> SUFFICES ASSUME [Next]_vars PROVE sizes' = sizes
  BY StepIsBatchStep
<1> QED
  BY DEF Next, Worker, vars, jobInput, Start, Load, Dit, DecodeTile, KeepTrack, RunDone,
         RunFailed, Encode, Build, Finish, Settle, Choose, Cancel, Returned

LEMMA AskFitsStep == AskFits /\ [JobNext]_jobVars => AskFits'
<1> SUFFICES ASSUME AskFits, [JobNext]_jobVars PROVE AskFits'
  OBVIOUS
<1>1. sizes' = sizes
  BY SizesStay
<1>2. Total' = Total
  BY <1>1 DEF Total, TotalAlloc
<1>3. ask' = ask /\ (canvas' = canvas \/ canvas'.steps = StepCount)
  <2>1. Pad \/ EncodeSource \/ Fsq \/ AdjustRegion \/ EncodeText \/ BuildContext
          => ask' = ask /\ canvas' = canvas
    BY Zenon DEF Pad, EncodeSource, Fsq, AdjustRegion, EncodeText, BuildContext
  <2>2. ResolveT => ask' = ask /\ canvas'.steps = StepCount
    BY DEF ResolveT
  <2>3. InitNoise \/ DitStep \/ DitEnds \/ Decode \/ UNCHANGED shapeVars
          => ask' = ask /\ canvas' = canvas
    BY Zenon DEF InitNoise, DitStep, DitEnds, Decode, shapeVars
  <2>4. UNCHANGED <<shapeVars, samplerVars>> => UNCHANGED shapeVars
    BY Zenon
  <2> QED
    BY <2>1, <2>2, <2>3, <2>4, JobCases, Zenon
<1>4. StepCount \in Int
  BY ShapeAssumption, AskType DEF AskFits, StepCount, Least
<1> QED
  BY <1>2, <1>3, <1>4 DEF AskFits

LEMMA SamplerStep == AskFits /\ SInv /\ [JobNext]_jobVars => SInv'
<1> SUFFICES ASSUME AskFits, SInv, [JobNext]_jobVars PROVE SInv'
  OBVIOUS
<1>1. CASE UNCHANGED samplerVars
  BY <1>1, SamplerUntouched
<1>2. CASE InitNoise
  <2>1. PICK guidance \in Guidance, direct \in BOOLEAN, first \in 0 .. canvas.steps - 1 \cup {0} :
           Generate(PlanOf(canvas.steps - first, guidance, direct))
    BY <1>2 DEF InitNoise
  <2> DEFINE p == PlanOf(canvas.steps - first, guidance, direct)
  <2>2. first \in Int /\ canvas.steps - first \in Int
    BY DEF AskFits
  <2>3. CoverSteps(canvas.steps - first) \in Int
    BY <2>2, AskType DEF AskFits, CoverSteps
  <2>4. p.n \in Nat \ {0} /\ p.cover \in Int
    BY <2>3 DEF AskFits, PlanOf
  <2> HIDE DEF p
  <2> QED
    BY <2>1, <2>4, GenerateHolds DEF p
<1>3. CASE DitStep
  BY <1>3, StepTopHolds, CondPassHolds, UncondPassHolds, SolveHolds DEF DitStep, Sample
<1>4. CASE DitEnds
  <2>1. at' = "idle"
    BY <1>4 DEF DitEnds
  <2> QED
    BY <2>1 DEF SInv, Sampling
<1> QED
  BY <1>1, <1>2, <1>3, <1>4, JobCases

\* Every forward pass reads the conditioning, the masks and the context of its
\* own step and pass, for every schedule, guidance and cover step, whatever the
\* computation before it left in the tensors (dit-sampler.h:427-487, 568-602).
THEOREM PassesReadOwn == JobSpec => []PassReadsOwn
<1>1. JobInit => AskFits /\ SInv
  <2>1. JobInit => SInv
    BY DEF JobInit, SamplerInit, SInv, Sampling
  <2> QED
    BY <2>1, AskFitsInit
<1>2. AskFits /\ SInv /\ [JobNext]_jobVars => (AskFits /\ SInv)'
  BY AskFitsStep, SamplerStep
<1>3. AskFits /\ SInv => PassReadsOwn
  <2> SUFFICES ASSUME SInv PROVE PassReadsOwn
    OBVIOUS
  <2>1. CASE at \in {"cond", "uncond"}
    <3>1. HostFits /\ Reads
      BY <2>1 DEF SInv, Sampling
    <3>2. host = Due
      BY <2>1, <3>1 DEF HostFits, Late, Due
    <3> QED
      BY <2>1, <3>1, <3>2 DEF Reads, PassReadsOwn
  <2>2. CASE ~(at \in {"cond", "uncond"})
    BY <2>2 DEF PassReadsOwn
  <2> QED
    BY <2>1, <2>2
<1> QED
  BY <1>1, <1>2, <1>3, PTL DEF JobSpec

-----------------------------------------------------------------------------
(* The tiles of the VAE.                                                     *)

LEMMA MaxOfTwo ==
  ASSUME NEW a \in Int, NEW b \in Int
  PROVE  Max({a, b}) = IF a >= b THEN a ELSE b
<1> DEFINE m == IF a >= b THEN a ELSE b
<1>1. m \in {a, b} /\ \A y \in {a, b} : m >= y
  OBVIOUS
<1>2. \A x \in {a, b} : (\A y \in {a, b} : x >= y) => x = m
  OBVIOUS
<1>3. Max({a, b}) \in {a, b} /\ \A y \in {a, b} : Max({a, b}) >= y
  BY <1>1 DEF Max
<1> QED
  BY <1>2, <1>3

LEMMA MinOfTwo ==
  ASSUME NEW a \in Int, NEW b \in Int
  PROVE  Min({a, b}) = Least(a, b)
<1> DEFINE m == IF a <= b THEN a ELSE b
<1>1. m \in {a, b} /\ \A y \in {a, b} : m <= y
  OBVIOUS
<1>2. \A x \in {a, b} : (\A y \in {a, b} : x <= y) => x = m
  OBVIOUS
<1>3. Min({a, b}) \in {a, b} /\ \A y \in {a, b} : Min({a, b}) <= y
  BY <1>1 DEF Min
<1>4. m = Least(a, b)
  BY DEF Least
<1> QED
  BY <1>2, <1>3, <1>4

HalvedOf(chunk) ==
    CHOOSE f : f = [k \in 0 .. Overlap |->
        IF k = 0 THEN Overlap
        ELSE IF chunk - 2 * f[k - 1] > 0 THEN f[k - 1] ELSE f[k - 1] \div 2]

\* A tile has a core.
LEMMA OverlapFits ==
  ASSUME NEW chunk \in Nat \ {0}
  PROVE  OverlapOf(chunk) \in Nat /\ chunk - 2 * OverlapOf(chunk) > 0
<1> DEFINE n == Overlap
           turn(h) == IF chunk - 2 * h > 0 THEN h ELSE h \div 2
           next == [x \in (1 .. n) \X Nat |-> turn(x[2])]
           IsHalved(f) == f = [k \in 0 .. Overlap |->
              IF k = 0 THEN Overlap
              ELSE IF chunk - 2 * f[k - 1] > 0 THEN f[k - 1] ELSE f[k - 1] \div 2]
<1>1. n \in Nat
  BY TilingAssumption
<1>2. next \in [(1 .. n) \X Nat -> Nat]
  <2>1. ASSUME NEW x \in (1 .. n) \X Nat PROVE turn(x[2]) \in Nat
    <3>1. x[2] \in Nat
      OBVIOUS
    <3> QED
      BY <3>1
  <2> HIDE DEF turn
  <2> QED
    BY <2>1
<1>3. PICK f \in [0 .. n -> Nat] : Unwinds(f, n, n, next)
  <2> HIDE DEF n, next
  <2> QED
    BY <1>1, <1>2, Recursion
<1>4. IsHalved(f)
  <2>1. ASSUME NEW k \in 1 .. n PROVE f[k] = turn(f[k - 1])
    <3>1. k - 1 \in 0 .. n /\ <<k, f[k - 1]>> \in (1 .. n) \X Nat
      BY <1>1
    <3>2. f[k] = next[<<k, f[k - 1]>>]
      BY <1>3 DEF Unwinds
    <3> QED
      BY <3>1, <3>2
  <2>2. f[0] = n
    BY <1>3 DEF Unwinds
  <2>3. ASSUME NEW k \in 0 .. n PROVE f[k] = IF k = 0 THEN n ELSE turn(f[k - 1])
    <3>1. k = 0 \/ k \in 1 .. n
      BY <1>1
    <3> HIDE DEF turn
    <3> QED
      BY <2>1, <2>2, <3>1
  <2> QED
    BY <1>3, <2>3
<1>5. IsHalved(HalvedOf(chunk))
  BY <1>4, Zenon DEF HalvedOf
<1>6. OverlapOf(chunk) = HalvedOf(chunk)[Overlap]
  BY Zenon DEF OverlapOf, HalvedOf
<1> DEFINE g == HalvedOf(chunk)
           T == {k \in 0 .. n : g[k] \in Nat /\ (chunk - 2 * g[k] > 0 \/ g[k] <= n - k)}
<1>7. \A k \in 0 .. n : g[k] = IF k = 0 THEN n ELSE turn(g[k - 1])
  BY <1>5
<1>8. 0 \in T
  BY <1>1, <1>7
<1>9. ASSUME NEW k \in 1 .. n, k - 1 \in T PROVE k \in T
  <2> DEFINE h == g[k - 1]
  <2>1. h \in Nat /\ (chunk - 2 * h > 0 \/ h <= n - (k - 1)) /\ k \in 0 .. n
    BY <1>1, <1>9
  <2>2. g[k] = turn(h)
    BY <1>1, <1>7
  <2> HIDE DEF h, g
  <2>3. turn(h) \in Nat /\ (chunk - 2 * turn(h) > 0 \/ turn(h) <= n - k)
    <3>1. CASE chunk - 2 * h > 0
      BY <2>1, <3>1
    <3>2. CASE ~(chunk - 2 * h > 0)
      <4>1. turn(h) = h \div 2 /\ h >= 1
        BY <2>1, <3>2
      <4>2. h \div 2 \in Nat /\ h \div 2 <= h - 1
        BY <2>1, <4>1
      <4> HIDE DEF turn
      <4> QED
        BY <1>1, <2>1, <3>2, <4>1, <4>2
    <3> QED
      BY <3>1, <3>2
  <2> HIDE DEF turn
  <2> QED
    BY <2>1, <2>2, <2>3
<1>10. T \in SUBSET (0 .. n)
  OBVIOUS
<1>11. T = 0 .. n
  <2> HIDE DEF T, n
  <2> QED
    BY <1>1, <1>8, <1>9, <1>10, Induction
<1>12. g[n] \in Nat /\ (chunk - 2 * g[n] > 0 \/ g[n] <= 0)
  <2>1. n \in T
    BY <1>1, <1>11
  <2> HIDE DEF g
  <2> QED
    BY <1>1, <2>1
<1> QED
  BY <1>6, <1>12

\* The first n values of v.
Prefix(v, n) == [j \in 1 .. n |-> v[j]]
Piece(v, a, c) == [j \in 1 .. c - a |-> v[a + j]]

LEMMA PrefixSeq ==
  ASSUME NEW V, NEW v \in [Nat -> V], NEW n \in Nat
  PROVE  Prefix(v, n) \in Seq(V) /\ Len(Prefix(v, n)) = n
                /\ \A j \in 1 .. n : Prefix(v, n)[j] = v[j]
<1>1. Prefix(v, n) \in [1 .. n -> V]
  BY DEF Prefix
<1>2. Prefix(v, n) \in Seq(V) /\ Len(Prefix(v, n)) = n
  BY <1>1
<1> QED
  BY <1>2 DEF Prefix

LEMMA PieceSeq ==
  ASSUME NEW V, NEW v \in [Nat -> V], NEW a \in Nat, NEW c \in Nat, a <= c
  PROVE  Piece(v, a, c) \in Seq(V) /\ Len(Piece(v, a, c)) = c - a
                /\ \A j \in 1 .. c - a : Piece(v, a, c)[j] = v[a + j]
<1>1. c - a \in Nat /\ \A j \in 1 .. c - a : v[a + j] \in V
  OBVIOUS
<1>2. Piece(v, a, c) \in [1 .. c - a -> V]
  BY <1>1 DEF Piece
<1>3. Piece(v, a, c) \in Seq(V) /\ Len(Piece(v, a, c)) = c - a
  BY <1>1, <1>2
<1> QED
  BY <1>3 DEF Piece

LEMMA Joins ==
  ASSUME NEW V, NEW v \in [Nat -> V], NEW a \in Nat, NEW c \in Nat, a <= c
  PROVE  Prefix(v, a) \o Piece(v, a, c) = Prefix(v, c)
<1> DEFINE s == Prefix(v, a)
           t == Piece(v, a, c)
           u == Prefix(v, c)
<1>1. s \in Seq(V) /\ Len(s) = a /\ \A j \in 1 .. a : s[j] = v[j]
  BY PrefixSeq
<1>2. t \in Seq(V) /\ Len(t) = c - a /\ \A j \in 1 .. c - a : t[j] = v[a + j]
  BY PieceSeq
<1>3. u \in Seq(V) /\ Len(u) = c /\ \A j \in 1 .. c : u[j] = v[j]
  BY PrefixSeq
<1> HIDE DEF s, t, u
<1>4. /\ s \o t \in Seq(V) /\ Len(s \o t) = Len(s) + Len(t)
      /\ \A j \in 1 .. Len(s) + Len(t) : (s \o t)[j] = IF j <= Len(s) THEN s[j] ELSE t[j - Len(s)]
  <2>1. s \in Seq(V) /\ t \in Seq(V)
    BY <1>1, <1>2
  <2> QED
    BY ONLY <2>1, ConcatProperties
<1>5. Len(s \o t) = c
  BY <1>1, <1>2, <1>4
<1>6. ASSUME NEW j \in 1 .. c PROVE (s \o t)[j] = u[j]
  <2>1. (s \o t)[j] = IF j <= a THEN s[j] ELSE t[j - a]
    BY <1>1, <1>2, <1>4
  <2>2. CASE j <= a
    BY <2>1, <2>2, <1>1, <1>3
  <2>3. CASE ~(j <= a)
    <3>1. j - a \in 1 .. c - a /\ a + (j - a) = j
      BY <2>3
    <3>2. t[j - a] = v[a + (j - a)]
      BY <1>2, <3>1
    <3> QED
      BY <2>1, <2>3, <3>1, <3>2, <1>3
  <2> QED
    BY <2>2, <2>3
<1>7. s \o t = u
  BY <1>3, <1>4, <1>5, <1>6, SeqEqual
<1> QED
  BY <1>7 DEF s, t, u

FlatOfPieces(p) ==
    CHOOSE f : f = [i \in 1 .. Len(p) |-> IF i = 1 THEN p[i] ELSE f[i - 1] \o p[i]]

\* Pieces that begin where the one before them ends are one.
LEMMA FlattenPieces ==
  ASSUME NEW V, NEW v \in [Nat -> V], NEW m \in Nat \ {0}, NEW b \in [0 .. m -> Nat],
         b[0] = 0, \A i \in 1 .. m : b[i - 1] <= b[i],
         NEW p, Len(p) = m, \A i \in 1 .. m : p[i] = Piece(v, b[i - 1], b[i])
  PROVE  FlattenSeq(p) = Prefix(v, b[m])
<1> DEFINE Sticks(f) == f = [i \in 1 .. Len(p) |-> IF i = 1 THEN p[i] ELSE f[i - 1] \o p[i]]
           g == FlatOfPieces(p)
           f == [i \in 1 .. m |-> Prefix(v, b[i])]
<1>1. \A i \in 1 .. m : i - 1 \in 0 .. m /\ i \in 0 .. m
  OBVIOUS
<1>2. ASSUME NEW i \in 1 .. m
      PROVE  Prefix(v, b[i - 1]) \o p[i] = Prefix(v, b[i])
  <2> DEFINE a == b[i - 1]
             c == b[i]
  <2>1. a \in Nat /\ c \in Nat /\ a <= c /\ p[i] = Piece(v, a, c)
    BY <1>1
  <2> HIDE DEF a, c
  <2>2. Prefix(v, a) \o p[i] = Prefix(v, c)
    BY ONLY v \in [Nat -> V], <2>1, Joins
  <2> QED
    BY <2>2 DEF a, c
<1>3. p[1] = Prefix(v, b[1])
  <2>1. 1 \in 1 .. m /\ 1 - 1 = 0
    OBVIOUS
  <2>2. p[1] = Piece(v, 0, b[1]) /\ b[1] \in Nat
    BY <2>1
  <2>3. Piece(v, 0, b[1]) = Prefix(v, b[1])
    BY <2>2 DEF Piece, Prefix
  <2> QED
    BY <2>2, <2>3
<1>4. Sticks(f)
  <2>1. ASSUME NEW i \in 1 .. m
        PROVE  Prefix(v, b[i]) = IF i = 1 THEN p[i] ELSE f[i - 1] \o p[i]
    <3>1. CASE i = 1
      BY <3>1, <1>3
    <3>2. CASE i # 1
      <4>1. i - 1 \in 1 .. m
        BY <3>2
      <4>2. f[i - 1] = Prefix(v, b[i - 1])
        BY <4>1
      <4> QED
        BY <3>2, <4>2, <1>2
    <3> QED
      BY <3>1, <3>2
  <2> QED
    BY <2>1
<1>5. Sticks(g)
  <2> HIDE DEF f
  <2> QED
    BY <1>4, Zenon DEF FlatOfPieces
<1>6. FlattenSeq(p) = g[m]
  <2>1. Len(p) # 0
    OBVIOUS
  <2>2. FlattenSeq(p) = g[Len(p)]
    BY <2>1, Zenon DEF FlattenSeq, FlatOfPieces
  <2> QED
    BY <2>2
<1> HIDE DEF g
<1>7. \A i \in 1 .. m : g[i] = IF i = 1 THEN p[i] ELSE g[i - 1] \o p[i]
  BY <1>5
<1> DEFINE T == {i \in 0 .. m : i = 0 \/ g[i] = Prefix(v, b[i])}
<1>8. 0 \in T
  OBVIOUS
<1>9. ASSUME NEW i \in 1 .. m, i - 1 \in T PROVE i \in T
  <2>1. CASE i = 1
    BY <2>1, <1>3, <1>7
  <2>2. CASE i # 1
    <3>1. g[i - 1] = Prefix(v, b[i - 1])
      BY <1>9, <2>2
    <3>2. g[i] = g[i - 1] \o p[i]
      BY <1>7, <2>2
    <3> QED
      BY <3>1, <3>2, <1>1, <1>2
  <2> QED
    BY <2>1, <2>2
<1>10. T \in SUBSET (0 .. m)
  OBVIOUS
<1>11. T = 0 .. m
  <2> HIDE DEF T
  <2> QED
    BY <1>8, <1>9, <1>10, Induction
<1>12. g[m] = Prefix(v, b[m])
  <2>1. m \in 0 .. m /\ m # 0
    OBVIOUS
  <2>2. m \in T
    <3> HIDE DEF T
    <3> QED
      BY <2>1, <1>11
  <2> QED
    BY <2>1, <2>2
<1> QED
  BY <1>6, <1>12

\* The ends of the cores.
Ends(n, d) == [i \in 0 .. TilesNeeded(n, d) |-> Least(i * d, n)]

LEMMA TilesGrid ==
  ASSUME NEW n \in Nat \ {0}, NEW d \in Nat \ {0}
  PROVE  /\ TilesNeeded(n, d) \in Nat \ {0}
         /\ Ends(n, d) \in [0 .. TilesNeeded(n, d) -> Nat]
         /\ Ends(n, d)[0] = 0 /\ Ends(n, d)[TilesNeeded(n, d)] = n
         /\ \A i \in 1 .. TilesNeeded(n, d) :
               /\ Ends(n, d)[i - 1] = (i - 1) * d /\ Ends(n, d)[i] = Least(i * d, n)
               /\ (i - 1) * d < n /\ Ends(n, d)[i - 1] <= Ends(n, d)[i]
               /\ (i - 1) * d \in Nat /\ i * d \in Nat /\ i * d = (i - 1) * d + d
<1> DEFINE m == TilesNeeded(n, d)
           b == Ends(n, d)
<1>1. m \in Int /\ d * m <= n + d - 1 /\ n + d - 1 < d * m + d
  BY DivRange DEF TilesNeeded
<1>2. m \in Nat \ {0} /\ n <= m * d /\ (m - 1) * d < n
  <2> HIDE DEF m
  <2>1. d * m = m * d /\ (m - 1) * d = m * d - d /\ 0 * d = 0
    BY <1>1, Dist
  <2>2. n <= m * d /\ (m - 1) * d < n
    BY <1>1, <2>1
  <2>3. 0 * d < m * d
    BY <1>1, <2>1, <2>2
  <2>4. 0 < m
    BY <1>1, <2>3, TimesLess
  <2> QED
    BY <1>1, <2>2, <2>4
<1> HIDE DEF m
<1>3. ASSUME NEW i \in 0 .. m PROVE i * d \in Nat
  OBVIOUS
<1>4. b = [i \in 0 .. m |-> Least(i * d, n)]
  BY DEF Ends, m
<1>5. \A i \in 0 .. m : Least(i * d, n) \in Nat
  BY <1>3 DEF Least
<1>6. b \in [0 .. m -> Nat]
  BY <1>4, <1>5
<1>7. 0 * d = 0 /\ 0 \in 0 .. m /\ m \in 0 .. m
  BY <1>2
<1>8. b[0] = 0 /\ b[m] = n
  <2>1. b[0] = Least(0 * d, n) /\ b[m] = Least(m * d, n)
    BY <1>4, <1>7
  <2>2. m * d \in Nat
    BY <1>3, <1>7
  <2> QED
    BY <1>2, <1>7, <2>1, <2>2 DEF Least
<1>9. ASSUME NEW i \in 1 .. m
      PROVE  /\ b[i - 1] = (i - 1) * d /\ b[i] = Least(i * d, n)
             /\ (i - 1) * d < n /\ b[i - 1] <= b[i]
             /\ (i - 1) * d \in Nat /\ i * d \in Nat /\ i * d = (i - 1) * d + d
  <2>1. i - 1 \in 0 .. m /\ i \in 0 .. m /\ i - 1 <= m - 1 /\ i - 1 \in Int /\ m - 1 \in Int
    BY <1>2
  <2>2. (i - 1) * d <= (m - 1) * d
    BY <2>1, TimesMono
  <2>3. (i - 1) * d \in Nat /\ i * d \in Nat /\ (m - 1) * d \in Int
    BY <2>1, <1>3
  <2>4. (i - 1) * d < n
    BY <1>2, <2>2, <2>3
  <2>5. i * d = (i - 1) * d + d
    BY Dist
  <2>6. b[i - 1] = Least((i - 1) * d, n) /\ b[i] = Least(i * d, n)
    BY <1>4, <2>1
  <2> DEFINE x == (i - 1) * d
             y == i * d
  <2> HIDE DEF x, y
  <2>7. x \in Nat /\ y \in Nat /\ x < n /\ y = x + d /\ b[i - 1] = Least(x, n) /\ b[i] = Least(y, n)
    BY <2>3, <2>4, <2>5, <2>6 DEF x, y
  <2>8. b[i - 1] = x /\ b[i] = Least(y, n) /\ x < n /\ b[i - 1] <= b[i]
    BY <2>7 DEF Least
  <2> QED
    BY <2>7, <2>8 DEF x, y
<1> QED
  BY <1>2, <1>6, <1>8, <1>9 DEF m

LEMMA TileFits ==
  ASSUME NEW n \in Nat \ {0}, NEW d \in Nat \ {0}, NEW o \in Nat, NEW i \in 1 .. TilesNeeded(n, d)
  PROVE  \E w0, w1 \in Nat :
            /\ TileOf(i - 1, n, d, o) = [core |-> [from |-> Ends(n, d)[i - 1], to |-> Ends(n, d)[i]],
                                         window |-> [from |-> w0, to |-> w1]]
            /\ w0 = IF Ends(n, d)[i - 1] - o >= 0 THEN Ends(n, d)[i - 1] - o ELSE 0
            /\ Ends(n, d)[i] <= w1 /\ w1 <= n
<1> DEFINE x == (i - 1) * d
           y == Least(i * d, n)
           w0 == IF x - o >= 0 THEN x - o ELSE 0
           w1 == Least(y + o, n)
<1>1. /\ Ends(n, d)[i - 1] = x /\ Ends(n, d)[i] = y
      /\ x \in Nat /\ i * d \in Nat /\ ((i - 1) + 1) * d = i * d
  <2>1. (i - 1) + 1 = i
    BY TilesGrid
  <2> QED
    BY <2>1, TilesGrid
<1>2. y \in Nat /\ y <= n
  BY <1>1 DEF Least
<1>3. Min({i * d, n}) = y
  BY <1>1, MinOfTwo
<1> HIDE DEF x, y
<1>4. Max({x - o, 0}) = w0
  BY <1>1, MaxOfTwo
<1>5. Min({y + o, n}) = w1
  BY <1>2, MinOfTwo
<1>6. w0 \in Nat /\ w1 \in Nat /\ y <= w1 /\ w1 <= n
  BY <1>1, <1>2 DEF Least
<1>7. TileOf(i - 1, n, d, o) = [core |-> [from |-> x, to |-> y], window |-> [from |-> w0, to |-> w1]]
  <2> HIDE DEF w0, w1
  <2>1. (i - 1) * d = x /\ Min({((i - 1) + 1) * d, n}) = y
    BY <1>1, <1>3 DEF x
  <2> QED
    BY <1>4, <1>5, <2>1, Zenon DEF TileOf
<1> QED
  BY <1>1, <1>6, <1>7

Before == [j \in Nat |-> j - 1]

\* The tiles of a decode come to every frame, once and in order.
LEMMA DecodeWhole ==
  ASSUME NEW T \in Nat, NEW chunk \in Candidates
  PROVE  DecodeOrder(T, chunk) = [j \in 1 .. T |-> j - 1]
<1> DEFINE o == OverlapOf(chunk)
           d == StrideOf(chunk)
           m == TilesNeeded(T, d)
           b == Ends(T, d)
           p == [i \in 1 .. m |-> DecodeCore(TileOf(i - 1, T, d, o))]
<1>1. chunk \in Nat \ {0}
  BY TilingAssumption
<1>2. o \in Nat /\ d \in Nat \ {0}
  <2> HIDE DEF o
  <2>1. o \in Nat /\ chunk - 2 * o > 0
    BY <1>1, OverlapFits DEF o
  <2> QED
    BY <1>1, <2>1 DEF StrideOf, o
<1>3. CASE T <= chunk
  BY <1>3 DEF DecodeOrder
<1>4. CASE ~(T <= chunk)
  <2>1. T \in Nat \ {0}
    BY <1>1, <1>4
  <2>2. DecodeOrder(T, chunk) = FlattenSeq(p)
    BY <1>4 DEF DecodeOrder
  <2> HIDE DEF d, o
  <2>3. /\ m \in Nat \ {0} /\ b \in [0 .. m -> Nat] /\ b[0] = 0 /\ b[m] = T
        /\ \A i \in 1 .. m : b[i - 1] <= b[i]
    BY <1>2, <2>1, TilesGrid
  <2>4. Before \in [Nat -> Int]
    BY DEF Before
  <2>5. ASSUME NEW i \in 1 .. m
        PROVE  DecodeCore(TileOf(i - 1, T, d, o)) = Piece(Before, b[i - 1], b[i])
    <3>1. PICK w0, w1 \in Nat :
             TileOf(i - 1, T, d, o) = [core |-> [from |-> b[i - 1], to |-> b[i]],
                                       window |-> [from |-> w0, to |-> w1]]
      <4>1. d \in Nat \ {0} /\ o \in Nat /\ T \in Nat \ {0} /\ i \in 1 .. TilesNeeded(T, d)
        BY <1>2, <2>1
      <4>2. \E w0, w1 \in Nat :
            /\ TileOf(i - 1, T, d, o) = [core |-> [from |-> Ends(T, d)[i - 1], to |-> Ends(T, d)[i]],
                                         window |-> [from |-> w0, to |-> w1]]
            /\ w0 = IF Ends(T, d)[i - 1] - o >= 0 THEN Ends(T, d)[i - 1] - o ELSE 0
            /\ Ends(T, d)[i] <= w1 /\ w1 <= T
        BY <4>1, TileFits, Zenon
      <4> QED
        BY <4>2, Zenon
    <3> DEFINE x == b[i - 1]
               y == b[i]
    <3>2. x \in Nat /\ y \in Nat /\ x <= y
      <4> HIDE DEF b, m
      <4>1. i - 1 \in 0 .. m /\ i \in 0 .. m
        BY <2>3
      <4> QED
        BY <2>3, <4>1
    <3> HIDE DEF x, y
    <3>3. DecodeCore(TileOf(i - 1, T, d, o))
             = [j \in 1 .. (w1 - w0) - (w1 - y) - (x - w0) |-> w0 + (x - w0) + j - 1]
      BY <3>1 DEF DecodeCore, x, y
    <3>4. (w1 - w0) - (w1 - y) - (x - w0) = y - x
      BY <3>2
    <3>5. \A j \in 1 .. y - x : w0 + (x - w0) + j - 1 = Before[x + j]
      BY <3>2 DEF Before
    <3>6. DecodeCore(TileOf(i - 1, T, d, o)) = [j \in 1 .. y - x |-> w0 + (x - w0) + j - 1]
      BY <3>3, <3>4
    <3>7. [j \in 1 .. y - x |-> w0 + (x - w0) + j - 1] = [j \in 1 .. y - x |-> Before[x + j]]
      BY <3>5
    <3> QED
      BY <3>6, <3>7 DEF Piece, x, y
  <2>6. Len(p) = m /\ \A i \in 1 .. m : p[i] = Piece(Before, b[i - 1], b[i])
    BY <2>3, <2>5
  <2> HIDE DEF p, m, b
  <2>7. FlattenSeq(p) = Prefix(Before, b[m])
    BY <2>3, <2>4, <2>6, FlattenPieces
  <2>8. Prefix(Before, T) = [j \in 1 .. T |-> j - 1]
    BY DEF Prefix, Before
  <2> QED
    BY <2>2, <2>3, <2>7, <2>8
<1> QED
  BY <1>3, <1>4

FirstSample == [j \in Nat |-> (j - 1) * SamplesPerFrame]

\* A core whose ends are samples x and y keeps the frames between them.
LEMMA CoreFrames ==
  ASSUME NEW f0 \in Nat, NEW y \in Nat, NEW w0 \in Nat, NEW w1 \in Nat,
         f0 * SamplesPerFrame <= y, y <= w1, w0 <= f0
  PROVE  LET S == SamplesPerFrame
             t == [core |-> [from |-> f0 * S, to |-> y], window |-> [from |-> w0 * S, to |-> w1]]
         IN  f0 <= y \div S /\ EncodeCore(t) = Piece(FirstSample, f0, y \div S)
<1> DEFINE S == SamplesPerFrame
           x == f0 * S
           w == w0 * S
           q == y \div S
           r == w1 \div S
           t == [core |-> [from |-> x, to |-> y], window |-> [from |-> w, to |-> w1]]
<1>1. S \in Nat \ {0}
  BY TilingAssumption
<1> HIDE DEF S
<1>2. q \in Int /\ r \in Int /\ S * q <= y /\ y < S * q + S /\ S * r <= w1 /\ w1 < S * r + S
  BY <1>1, DivRange
<1>3. x \in Nat /\ w \in Nat /\ x <= y
  BY <1>1 DEF S
<1>4. f0 <= q
  <2>1. f0 * S < (q + 1) * S
    <3>1. (q + 1) * S = q * S + 1 * S /\ q * S = S * q /\ 1 * S = S
      BY <1>1, <1>2, Dist
    <3> HIDE DEF q
    <3> QED
      BY <1>1, <1>2, <1>3, <3>1
  <2> HIDE DEF q
  <2>2. f0 < q + 1
    BY <1>1, <1>2, <2>1, TimesLess
  <2> QED
    BY <1>2, <2>2
<1>5. q <= r
  <2>1. q * S < (r + 1) * S
    <3>1. (r + 1) * S = r * S + 1 * S /\ q * S = S * q /\ r * S = S * r /\ 1 * S = S
      BY <1>1, <1>2, Dist
    <3> HIDE DEF q, r
    <3> QED
      BY <1>1, <1>2, <1>3, <3>1
  <2> HIDE DEF q, r
  <2>2. q < r + 1
    BY <1>1, <1>2, <2>1, TimesLess
  <2> QED
    BY <1>2, <2>2
<1>6. (x - w) \div S = f0 - w0
  <2>1. x - w = (f0 - w0) * S
    BY <1>1, Dist
  <2> DEFINE k == f0 - w0
  <2>2. k \in Int
    OBVIOUS
  <2> HIDE DEF k
  <2>3. (k * S) \div S = k
    <3>1. S * k <= k * S /\ k * S < S * k + S /\ k * S \in Int
      BY <1>1, <2>2
    <3> QED
      BY <1>1, <2>2, <3>1, DivUnique
  <2> QED
    BY <2>1, <2>3 DEF k
<1>7. (y - w) \div S = q - w0 /\ (w1 - w) \div S = r - w0
  <2> DEFINE z == (-w0) * S
  <2>1. z = -w
    BY <1>1
  <2>1a. y - w = y + z /\ w1 - w = w1 + z
    <3> HIDE DEF z, w
    <3> QED
      BY <1>3, <2>1
  <2>2. (y + (-w0) * S) \div S = y \div S + (-w0) /\ (w1 + (-w0) * S) \div S = w1 \div S + (-w0)
    <3> DEFINE k == -w0
    <3>1. k \in Int /\ y \in Int /\ w1 \in Int
      OBVIOUS
    <3> HIDE DEF k
    <3>2. (y + k * S) \div S = y \div S + k /\ (w1 + k * S) \div S = w1 \div S + k
      BY <1>1, <3>1, DivPlus, Zenon
    <3> QED
      BY <3>2 DEF k
  <2>3. y \div S + (-w0) = q - w0 /\ w1 \div S + (-w0) = r - w0
    <3> HIDE DEF S
    <3> QED
      BY <1>2
  <2> HIDE DEF w
  <2> QED
    BY <2>1a, <2>2, <2>3 DEF z
<1>8. x \div S = f0
  <2>1. S * f0 <= x /\ x < S * f0 + S
    BY <1>1
  <2> QED
    BY <1>1, <1>3, <2>1, DivUnique
<1>9. Min({(w1 - w) \div S, (y - w) \div S}) = q - w0
  <2> HIDE DEF q, r
  <2>1. q - w0 \in Int /\ r - w0 \in Int /\ q - w0 <= r - w0
    BY <1>2, <1>5
  <2> DEFINE a == q - w0
             c == r - w0
  <2> HIDE DEF a, c
  <2>2. Min({c, a}) = a
    BY <2>1, MinOfTwo DEF Least, a, c
  <2> QED
    BY <1>7, <2>2 DEF a, c
<1>10. Max({0, (q - w0) - (f0 - w0)}) = q - f0
  <2> HIDE DEF q
  <2>1. (q - w0) - (f0 - w0) = q - f0 /\ q - f0 \in Nat
    BY <1>2, <1>4
  <2> DEFINE a == q - f0
  <2> HIDE DEF a
  <2>2. Max({0, a}) = a
    BY <2>1, MaxOfTwo DEF a
  <2> QED
    BY <2>1, <2>2 DEF a
<1> DEFINE length == IF q = f0 THEN 0 ELSE Max({0, (q - w0) - (f0 - w0)})
<1>11. length = q - f0
  <2> HIDE DEF q
  <2> QED
    BY <1>2, <1>10
<1>12. EncodeCore(t) = [j \in 1 .. length |-> w + ((f0 - w0) + j - 1) * S]
  <2>1. /\ t.core.from = x /\ t.core.to = y /\ t.window.from = w /\ t.window.to = w1
    OBVIOUS
  <2> HIDE DEF t, x, w, length
  <2>2. EncodeCore(t) = [j \in 1 .. IF y \div S = x \div S THEN 0
                                    ELSE Max({0, Min({(w1 - w) \div S, (y - w) \div S}) - (x - w) \div S})
                         |-> w + ((x - w) \div S + j - 1) * S]
    BY <2>1 DEF EncodeCore, S
  <2>3. (IF y \div S = x \div S THEN 0
         ELSE Max({0, Min({(w1 - w) \div S, (y - w) \div S}) - (x - w) \div S})) = length
    BY <1>6, <1>8, <1>9 DEF length
  <2> QED
    BY <1>6, <2>2, <2>3
<1>13. \A j \in 1 .. q - f0 : w + ((f0 - w0) + j - 1) * S = FirstSample[f0 + j]
  <2> SUFFICES ASSUME NEW j \in 1 .. q - f0
               PROVE  w0 * S + ((f0 - w0) + j - 1) * S = FirstSample[f0 + j]
    OBVIOUS
  <2>1. f0 + j \in Nat /\ j \in Int
    <3> HIDE DEF q
    <3> QED
      BY <1>2
  <2>2. FirstSample[f0 + j] = ((f0 + j) - 1) * S
    BY <2>1 DEF FirstSample, S
  <2> DEFINE k == (f0 - w0) + j - 1
  <2>3. k \in Int /\ w0 + k = (f0 + j) - 1
    BY <2>1
  <2> HIDE DEF k
  <2>4. (w0 + k) * S = w0 * S + k * S
    BY <1>1, <2>3, Dist
  <2> QED
    BY <2>2, <2>3, <2>4 DEF k
<1>14. EncodeCore(t) = Piece(FirstSample, f0, q)
  <2> HIDE DEF t, w, q, length
  <2> QED
    BY <1>11, <1>12, <1>13 DEF Piece
<1> QED
  BY <1>4, <1>14 DEF S

\* The tiles of an encode come to every whole frame, once and in order.
LEMMA EncodeWhole ==
  ASSUME NEW n \in Nat, NEW chunk \in Candidates
  PROVE  EncodeOrder(n, chunk) = [j \in 1 .. n \div SamplesPerFrame |-> (j - 1) * SamplesPerFrame]
<1> DEFINE S == SamplesPerFrame
           o == OverlapOf(chunk)
           k == StrideOf(chunk)
           d == k * S
           m == TilesNeeded(n, d)
           e == Ends(n, d)
           b == [i \in 0 .. m |-> e[i] \div S]
           p == [i \in 1 .. m |-> EncodeCore(TileOf(i - 1, n, d, o * S))]
<1>1. chunk \in Nat \ {0} /\ S \in Nat \ {0}
  BY TilingAssumption
<1>2. o \in Nat /\ k \in Nat \ {0}
  <2> HIDE DEF o
  <2>1. o \in Nat /\ chunk - 2 * o > 0
    BY <1>1, OverlapFits DEF o
  <2> QED
    BY <1>1, <2>1 DEF StrideOf, o
<1>3. CASE n <= chunk * SamplesPerFrame
  BY <1>3 DEF EncodeOrder
<1>4. CASE ~(n <= chunk * SamplesPerFrame)
  <2>1. n \in Nat \ {0}
    <3>1. chunk * S \in Nat
      BY <1>1
    <3> QED
      BY <1>4, <3>1
  <2>2. EncodeOrder(n, chunk) = FlattenSeq(p)
    BY <1>4 DEF EncodeOrder
  <2>3. d \in Nat \ {0} /\ o * S \in Nat
    <3> HIDE DEF o, k, S
    <3> QED
      BY <1>1, <1>2
  <2> HIDE DEF o, k, S
  <2>4. /\ m \in Nat \ {0} /\ e \in [0 .. m -> Nat] /\ e[0] = 0 /\ e[m] = n
        /\ \A i \in 1 .. m : e[i - 1] = (i - 1) * d /\ e[i - 1] <= e[i]
    <3> HIDE DEF d
    <3> QED
      BY <2>1, <2>3, TilesGrid
  <2>5. FirstSample \in [Nat -> Int]
    BY <1>1 DEF FirstSample, S
  <2>6. ASSUME NEW i \in 1 .. m
        PROVE  b[i - 1] <= b[i] /\ p[i] = Piece(FirstSample, b[i - 1], b[i])
    <3> DEFINE f0 == (i - 1) * k
               y == e[i]
               u == IF f0 >= o THEN f0 - o ELSE 0
    <3>1. i - 1 \in 0 .. m /\ i \in 0 .. m /\ i - 1 \in Nat
      <4> HIDE DEF m
      <4> QED
        BY <2>4
    <3>2. f0 \in Nat /\ (i - 1) * d = f0 * S
      <4> DEFINE z == i - 1
      <4>1. z \in Nat
        BY <3>1
      <4> HIDE DEF z
      <4>2. z * k \in Nat /\ z * (k * S) = (z * k) * S
        BY <1>1, <1>2, <4>1
      <4> QED
        BY <4>2 DEF z
    <3>3. e[i - 1] = f0 * S /\ y \in Nat /\ f0 * S <= y
      <4> HIDE DEF e, m, d
      <4> QED
        BY <2>4, <3>1, <3>2
    <3>4. u \in Nat /\ u <= f0 /\ u * S = IF f0 * S - o * S >= 0 THEN f0 * S - o * S ELSE 0
      <4> HIDE DEF f0
      <4>1. (f0 - o) * S = f0 * S - o * S
        BY <1>1, <1>2, <3>2, Dist
      <4>2. CASE f0 >= o
        <5>1. (f0 - o) * S >= 0
          BY <1>1, <1>2, <3>2, <4>2
        <5> QED
          BY <1>2, <3>2, <4>1, <4>2, <5>1
      <4>3. CASE ~(f0 >= o)
        <5>1. f0 * S < o * S
          <6>1. o - f0 \in Nat \ {0}
            BY <1>2, <3>2, <4>3
          <6>2. (o - f0) * S > 0
            BY <1>1, <6>1
          <6>3. (o - f0) * S = o * S - f0 * S
            BY <1>1, <1>2, <3>2, Dist
          <6>4. f0 * S \in Int /\ o * S \in Int
            BY <1>1, <1>2, <3>2
          <6> QED
            BY <6>2, <6>3, <6>4
        <5>2. f0 * S \in Int /\ o * S \in Int /\ 0 * S = 0
          BY <1>1, <1>2, <3>2
        <5> QED
          BY <3>2, <4>3, <5>1, <5>2
      <4> QED
        BY <4>2, <4>3
    <3>5. PICK w0, w1 \in Nat :
            /\ TileOf(i - 1, n, d, o * S) = [core |-> [from |-> e[i - 1], to |-> e[i]],
                                             window |-> [from |-> w0, to |-> w1]]
            /\ w0 = IF e[i - 1] - o * S >= 0 THEN e[i - 1] - o * S ELSE 0
            /\ e[i] <= w1 /\ w1 <= n
      <4> HIDE DEF d
      <4>1. d \in Nat \ {0} /\ o * S \in Nat /\ n \in Nat \ {0} /\ i \in 1 .. TilesNeeded(n, d)
        BY <2>1, <2>3
      <4> DEFINE os == o * S
      <4> HIDE DEF os
      <4>2. os \in Nat
        BY <4>1 DEF os
      <4>3. \E w0, w1 \in Nat :
            /\ TileOf(i - 1, n, d, os) = [core |-> [from |-> Ends(n, d)[i - 1], to |-> Ends(n, d)[i]],
                                         window |-> [from |-> w0, to |-> w1]]
            /\ w0 = IF Ends(n, d)[i - 1] - os >= 0 THEN Ends(n, d)[i - 1] - os ELSE 0
            /\ Ends(n, d)[i] <= w1 /\ w1 <= n
        BY <4>1, <4>2, TileFits, Zenon
      <4> QED
        BY <4>3, Zenon DEF os
    <3> HIDE DEF f0, u, y
    <3>6. w0 = u * S /\ y <= w1
      <4> HIDE DEF e
      <4> QED
        BY <3>3, <3>4, <3>5 DEF y
    <3> DEFINE t == [core |-> [from |-> f0 * S, to |-> y], window |-> [from |-> u * S, to |-> w1]]
    <3>7. f0 <= y \div S /\ EncodeCore(t) = Piece(FirstSample, f0, y \div S)
      <4>1. f0 \in Nat /\ y \in Nat /\ u \in Nat /\ w1 \in Nat /\ f0 * SamplesPerFrame <= y
            /\ y <= w1 /\ u <= f0
        BY <3>2, <3>3, <3>4, <3>6 DEF S
      <4> QED
        BY <4>1, CoreFrames, Zenon DEF S
    <3>8. TileOf(i - 1, n, d, o * S) = t
      <4> HIDE DEF e, d
      <4> QED
        BY <3>3, <3>5, <3>6, Zenon DEF y
    <3>9. b[i] = y \div S
      BY <3>1 DEF y
    <3>10. b[i - 1] = f0
      <4>1. b[i - 1] = (f0 * S) \div S
        <5> HIDE DEF e, m
        <5> QED
          BY <3>1, <3>3, Zenon
      <4>2. S * f0 <= f0 * S /\ f0 * S < S * f0 + S /\ f0 * S \in Int
        BY <1>1, <3>2
      <4>3. (f0 * S) \div S = f0
        BY <1>1, <3>2, <4>2, DivUnique
      <4> QED
        BY <4>1, <4>3
    <3>11. p[i] = EncodeCore(TileOf(i - 1, n, d, o * S))
      OBVIOUS
    <3> HIDE DEF t, b, p, d, m
    <3> QED
      BY <3>7, <3>8, <3>9, <3>10, <3>11
  <2>7. b \in [0 .. m -> Nat] /\ b[0] = 0 /\ b[m] = n \div S /\ Len(p) = m
    <3>1. \A i \in 0 .. m : e[i] \div S \in Nat
      <4> HIDE DEF e, m
      <4>1. ASSUME NEW x \in Nat PROVE x \div S \in Nat
        BY <1>1
      <4> QED
        BY <2>4, <4>1
    <3>2. 0 \div S = 0
      BY <1>1
    <3>3. 0 \in 0 .. m /\ m \in 0 .. m
      <4> HIDE DEF m
      <4> QED
        BY <2>4
    <3>4. Len(p) = m
      <4> HIDE DEF m
      <4> QED
        BY <2>4
    <3> HIDE DEF e, m, p
    <3> QED
      BY <2>4, <3>1, <3>2, <3>3, <3>4
  <2> HIDE DEF p, m, b, d, e
  <2>8. FlattenSeq(p) = Prefix(FirstSample, b[m])
    <3>1. /\ FirstSample \in [Nat -> Int] /\ m \in Nat \ {0}
          /\ b \in [0 .. m -> Nat] /\ b[0] = 0 /\ Len(p) = m
      BY <2>4, <2>5, <2>7
    <3>2. \A i \in 1 .. m : b[i - 1] <= b[i]
      BY <2>6
    <3>3. \A i \in 1 .. m : p[i] = Piece(FirstSample, b[i - 1], b[i])
      BY <2>6
    <3> QED
      BY ONLY <3>1, <3>2, <3>3, FlattenPieces
  <2>9. Prefix(FirstSample, n \div S) = [j \in 1 .. n \div S |-> (j - 1) * S]
    <3>1. \A j \in 1 .. n \div S : FirstSample[j] = (j - 1) * S
      BY <1>1 DEF FirstSample, S
    <3> QED
      BY <3>1 DEF Prefix
  <2> QED
    BY <2>2, <2>7, <2>8, <2>9 DEF S
<1> QED
  BY <1>3, <1>4

-----------------------------------------------------------------------------
(* What the source comes to: all of it follows from what was asked.          *)

PadOf == IF HaveRegion THEN LeftPad ELSE 0

SourceOf ==
    IF ~NeedsSource THEN <<>>
    ELSE IF ask.src = "latents"
    THEN IF HaveRegion THEN SilentFrames(Frames(LeftPad)) \o SourceFrames
                                \o SilentFrames(Frames(RightPad))
         ELSE SourceFrames
    ELSE IF HaveRegion THEN SilentSamples(LeftPad) \o SourceAudio
                                \o SilentSamples(RightPad)
         ELSE SourceAudio

CoverOf ==
    IF ask.src = "audio"
    THEN [j \in 1 .. Len(SourceOf) \div SamplesPerFrame |->
             VaeFrame(SourceOf, (j - 1) * SamplesPerFrame)]
    ELSE SourceOf

Degraded == [j \in DOMAIN CoverOf |-> [CoverOf[j] EXCEPT !.kind = "fsq"]]

Places == Nat \cup {Silent}
Plains(places) == {Frame("vae", of) : of \in [1 .. SamplesPerFrame -> places]}

LEMMA ThreeParts ==
  ASSUME NEW V, NEW r \in Seq(V), NEW s \in Seq(V), NEW t \in Seq(V),
         NEW all, all = r \o s \o t
  PROVE  /\ all \in Seq(V)
         /\ Len(all) = Len(r) + Len(s) + Len(t)
         /\ \A i \in 1 .. Len(r) + Len(s) + Len(t) :
               all[i] = IF i <= Len(r) THEN r[i]
                        ELSE IF i <= Len(r) + Len(s) THEN s[i - Len(r)]
                        ELSE t[i - Len(r) - Len(s)]
<1>1. r \o s \in Seq(V) /\ Len(r \o s) = Len(r) + Len(s)
  OBVIOUS
<1>2. \A i \in 1 .. Len(r) + Len(s) : (r \o s)[i] = IF i <= Len(r) THEN r[i] ELSE s[i - Len(r)]
  OBVIOUS
<1>3. Len(r) \in Nat /\ Len(s) \in Nat /\ Len(t) \in Nat
  OBVIOUS
<1> DEFINE u == r \o s
<1> HIDE DEF u
<1>4. u \o t \in Seq(V) /\ Len(u \o t) = Len(u) + Len(t)
  BY <1>1 DEF u
<1>5. \A i \in 1 .. Len(u) + Len(t) : (u \o t)[i] = IF i <= Len(u) THEN u[i] ELSE t[i - Len(u)]
  BY <1>1 DEF u
<1>6. ASSUME NEW i \in 1 .. Len(r) + Len(s) + Len(t)
      PROVE  (u \o t)[i] = IF i <= Len(r) THEN r[i]
                           ELSE IF i <= Len(r) + Len(s) THEN s[i - Len(r)]
                           ELSE t[i - Len(r) - Len(s)]
  <2>1. Len(u) = Len(r) + Len(s)
    BY <1>1 DEF u
  <2>2. \A k \in 1 .. Len(r) + Len(s) : u[k] = IF k <= Len(r) THEN r[k] ELSE s[k - Len(r)]
    BY <1>2 DEF u
  <2>3. (u \o t)[i] = IF i <= Len(r) + Len(s) THEN u[i] ELSE t[i - (Len(r) + Len(s))]
    BY <1>3, <1>5, <2>1
  <2>4. i - (Len(r) + Len(s)) = i - Len(r) - Len(s)
    BY <1>3
  <2> QED
    BY <1>3, <2>2, <2>3, <2>4
<1> QED
  BY <1>1, <1>4, <1>6 DEF u

LEMMA PadsAreNat ==
  ASSUME ask \in Asks
  PROVE  /\ LeftPad \in Nat /\ RightPad \in Nat /\ SourceLength \in Nat
         /\ Frames(LeftPad) \in Nat /\ Frames(RightPad) \in Nat
         /\ LeftPad = (IF ask.start < 0 THEN -ask.start ELSE 0)
         /\ ask.n \div SamplesPerFrame \in Nat
<1> DEFINE S == SamplesPerFrame
<1>1. S \in Nat \ {0} /\ ask.n \in Nat /\ ask.start \in Int /\ ask.end \in Int
  BY TilingAssumption, AskType
<1> HIDE DEF S
<1>2. ASSUME NEW x \in Nat PROVE x \div S \in Nat
  BY <1>1
<1>3. ask.n \div S \in Nat
  BY <1>1, <1>2
<1>4. SourceLength \in Nat
  <2> DEFINE f == ask.n \div S
  <2>1. Len(SourceFrames) = f
    <3>1. f \in Nat
      BY <1>3
    <3> HIDE DEF f
    <3>2. SourceFrames = [j \in 1 .. f |-> VaeFrame(SourceAudio, (j - 1) * S)]
      BY DEF SourceFrames, f, S
    <3> QED
      BY <3>1, <3>2
  <2>2. f * S \in Nat
    <3> HIDE DEF f
    <3> QED
      BY <1>1, <1>3 DEF f
  <2> QED
    BY <1>1, <2>1, <2>2 DEF SourceLength, S
<1>5. LeftPad \in Nat /\ LeftPad = IF ask.start < 0 THEN -ask.start ELSE 0
  <2>1. Max({0, -ask.start}) = IF 0 >= -ask.start THEN 0 ELSE -ask.start
    BY <1>1, MaxOfTwo
  <2> QED
    BY <1>1, <2>1 DEF LeftPad
<1>6. RightPad \in Nat
  <2> DEFINE e == (IF ask.end < 0 THEN SourceLength ELSE ask.end) - SourceLength
  <2>1. e \in Int
    BY <1>1, <1>4
  <2> HIDE DEF e
  <2>2. Max({0, e}) = IF 0 >= e THEN 0 ELSE e
    BY <2>1, MaxOfTwo
  <2>3. RightPad = Max({0, e})
    BY DEF RightPad, e
  <2> QED
    BY <2>1, <2>2, <2>3
<1>7. ASSUME NEW x \in Nat PROVE Frames(x) \in Nat
  <2> DEFINE a == 2 * x + S
             d == 2 * S
  <2>1. a \in Nat /\ d \in Nat \ {0}
    BY <1>1
  <2>2. Frames(x) = a \div d
    BY DEF Frames, S
  <2> HIDE DEF a, d
  <2>3. a \div d \in Nat
    BY <2>1
  <2> QED
    BY <2>2, <2>3
<1> QED
  BY <1>3, <1>4, <1>5, <1>6, <1>7 DEF S

LEMMA AudioPlaced ==
  ASSUME ask \in Asks, ask.src = "audio", NeedsSource
  PROVE  /\ SourceOf \in Seq(Places)
         /\ Len(SourceOf) \in Nat
         /\ \A p \in 0 .. Len(SourceOf) - 1 : SourceOf[p + 1] = Original(p - PadOf)
<1> DEFINE n == ask.n
           l == LeftPad
           r == RightPad
<1>1. n \in Nat /\ l \in Nat /\ r \in Nat /\ SourceLength = n
  BY AskType, PadsAreNat DEF SourceLength
<1>2. /\ SourceAudio = [i \in 1 .. n |-> i - 1]
      /\ SilentSamples(l) = [i \in 1 .. l |-> Silent] /\ SilentSamples(r) = [i \in 1 .. r |-> Silent]
  BY DEF SourceAudio, SilentSamples
<1> HIDE DEF n, l, r
<1> DEFINE a == SilentSamples(l)
           b == SourceAudio
           c == SilentSamples(r)
<1>3. /\ a \in Seq(Places) /\ b \in Seq(Places) /\ c \in Seq(Places)
      /\ Len(a) = l /\ Len(b) = n /\ Len(c) = r
      /\ (\A i \in 1 .. l : a[i] = Silent) /\ (\A i \in 1 .. n : b[i] = i - 1)
      /\ \A i \in 1 .. r : c[i] = Silent
  BY <1>1, <1>2 DEF Places
<1> HIDE DEF a, b, c
<1>4. CASE HaveRegion
  <2>1. SourceOf = a \o b \o c /\ PadOf = l
    BY <1>4 DEF SourceOf, PadOf, a, b, c, l, r
  <2> DEFINE u == a \o b \o c
  <2>a. u = a \o b \o c
    OBVIOUS
  <2> HIDE DEF u
  <2>b. /\ u \in Seq(Places) /\ Len(u) = Len(a) + Len(b) + Len(c)
        /\ \A i \in 1 .. Len(a) + Len(b) + Len(c) :
              u[i] = IF i <= Len(a) THEN a[i]
                     ELSE IF i <= Len(a) + Len(b) THEN b[i - Len(a)]
                     ELSE c[i - Len(a) - Len(b)]
    <3>1. a \in Seq(Places) /\ b \in Seq(Places) /\ c \in Seq(Places)
      BY <1>3
    <3> QED
      BY <2>a, <3>1, ThreeParts
  <2>2. /\ u \in Seq(Places) /\ Len(u) = l + n + r
        /\ \A i \in 1 .. l + n + r :
              u[i] = IF i <= l THEN a[i] ELSE IF i <= l + n THEN b[i - l] ELSE c[i - l - n]
    BY <1>3, <2>b
  <2>3. ASSUME NEW p \in 0 .. l + n + r - 1
        PROVE  u[p + 1] = Original(p - l)
    <3>1. u[p + 1] = IF p + 1 <= l THEN a[p + 1]
                                 ELSE IF p + 1 <= l + n THEN b[p + 1 - l] ELSE c[p + 1 - l - n]
      BY <1>1, <2>2
    <3>2. CASE p + 1 <= l
      BY <1>1, <1>3, <3>1, <3>2 DEF Original
    <3>3. CASE ~(p + 1 <= l) /\ p + 1 <= l + n
      BY <1>1, <1>3, <3>1, <3>3 DEF Original
    <3>4. CASE ~(p + 1 <= l) /\ ~(p + 1 <= l + n)
      BY <1>1, <1>3, <3>1, <3>4 DEF Original
    <3> QED
      BY <3>2, <3>3, <3>4
  <2>4. SourceOf = u
    BY <2>1, <2>a, Zenon
  <2>5. PadOf = l
    BY <2>1
  <2> QED
    BY <1>1, <2>2, <2>3, <2>4, <2>5
<1>5. CASE ~HaveRegion
  <2>1. SourceOf = b /\ PadOf = 0
    BY <1>5 DEF SourceOf, PadOf, b
  <2>2. ASSUME NEW p \in 0 .. n - 1 PROVE b[p + 1] = Original(p - 0)
    BY <1>1, <1>3 DEF Original
  <2> QED
    BY <1>1, <1>3, <2>1, <2>2
<1> QED
  BY <1>4, <1>5

\* The frame of the source's own first sample, and what is at each frame of
\* latents that were sent.
Origin == IF HaveRegion THEN Frames(LeftPad) ELSE 0
SentFrame(t) ==
    Frame("vae", [k \in 1 .. SamplesPerFrame |-> Original((t - Origin) * SamplesPerFrame + k - 1)])

LEMMA FrameTimes ==
  ASSUME NEW t \in Int, NEW m \in Int, t < m
  PROVE  t * SamplesPerFrame + SamplesPerFrame <= m * SamplesPerFrame
<1> DEFINE S == SamplesPerFrame
<1>1. S \in Nat \ {0}
  BY TilingAssumption
<1> HIDE DEF S
<1>2. (t + 1) * S = t * S + S
  BY <1>1
<1>3. (t + 1) * S <= m * S
  BY <1>1, TimesMono
<1> QED
  BY <1>2, <1>3 DEF S

LEMMA LatentsPlaced ==
  ASSUME ask \in Asks, ask.src = "latents", NeedsSource
  PROVE  /\ SourceOf \in Seq(Plains(Int))
         /\ Len(SourceOf) <= MaxT => \A t \in 0 .. Len(SourceOf) - 1 : SourceOf[t + 1] = SentFrame(t)
<1> DEFINE S == SamplesPerFrame
           n == ask.n
           f == n \div S
           l == Frames(LeftPad)
           r == Frames(RightPad)
           a == SilentFrames(l)
           b == SourceFrames
           c == SilentFrames(r)
           V == Plains(Int)
<1>1. /\ S \in Nat \ {0} /\ n \in Nat /\ f \in Nat /\ l \in Nat /\ r \in Nat /\ MaxT \in Nat
  BY TilingAssumption, ShapeAssumption, AskType, PadsAreNat
<1>2. f * S <= n
  <2>1. S * f <= n
    BY <1>1, DivRange
  <2> QED
    BY <1>1, <2>1
<1>3. /\ a = [j \in 1 .. l |-> SilenceAt(j - 1)] /\ c = [j \in 1 .. r |-> SilenceAt(j - 1)]
      /\ b = [j \in 1 .. f |-> VaeFrame(SourceAudio, (j - 1) * S)]
  BY DEF SilentFrames, SourceFrames
<1>4. Silence \in V /\ BeyondFrame \in V
  BY DEF Silence, BeyondFrame, Steady, Plains, Silent, Beyond
<1>5. \A i \in Int : SilenceAt(i) \in V
  BY <1>4 DEF SilenceAt
<1>6. ASSUME NEW j \in 1 .. f
      PROVE  b[j] = Frame("vae", [k \in 1 .. S |-> (j - 1) * S + k - 1])
             /\ b[j] \in V /\ (j - 1) * S \in Nat /\ (j - 1) * S + S <= f * S
  <2> HIDE DEF S, f, n
  <2>1. (j - 1) * S \in Nat /\ (j - 1) * S + S <= f * S
    BY <1>1, FrameTimes DEF S
  <2>2. ASSUME NEW k \in 1 .. S
        PROVE  SourceAudio[(j - 1) * S + k] = (j - 1) * S + k - 1 /\ (j - 1) * S + k - 1 \in Int
    <3> DEFINE x == (j - 1) * S
    <3>1. x \in Nat /\ x + S <= n
      <4> DEFINE y == f * S
      <4>1. y \in Int /\ y <= n /\ x + S <= y
        BY <1>1, <1>2, <2>1
      <4> HIDE DEF x, y
      <4> QED
        BY <1>1, <2>1, <4>1 DEF x
    <3> HIDE DEF x
    <3>2. x + k \in 1 .. n
      BY <1>1, <3>1
    <3> QED
      BY <1>1, <3>1, <3>2 DEF SourceAudio, n, x
  <2>3. [k \in 1 .. S |-> SourceAudio[(j - 1) * S + k]] = [k \in 1 .. S |-> (j - 1) * S + k - 1]
    BY <2>2
  <2>4. b[j] = Frame("vae", [k \in 1 .. S |-> SourceAudio[(j - 1) * S + k]])
    BY <1>3 DEF VaeFrame, S
  <2>5. [k \in 1 .. S |-> (j - 1) * S + k - 1] \in [1 .. S -> Int]
    BY <2>2
  <2>6. b[j] = Frame("vae", [k \in 1 .. S |-> (j - 1) * S + k - 1])
    BY <2>3, <2>4
  <2> QED
    BY <2>1, <2>5, <2>6 DEF Plains, S
<1>7. /\ a \in Seq(V) /\ b \in Seq(V) /\ c \in Seq(V)
      /\ Len(a) = l /\ Len(b) = f /\ Len(c) = r
      /\ (\A i \in 1 .. l : a[i] = SilenceAt(i - 1)) /\ \A i \in 1 .. r : c[i] = SilenceAt(i - 1)
  <2> HIDE DEF V, l, r, f
  <2>1. a \in [1 .. l -> V] /\ c \in [1 .. r -> V]
    BY <1>1, <1>3, <1>5
  <2>2. b \in [1 .. f -> V]
    <3>1. DOMAIN b = 1 .. f /\ \A j \in 1 .. f : b[j] \in V
      BY <1>3, <1>6
    <3>2. b = [j \in 1 .. f |-> b[j]]
      BY <1>3, Zenon
    <3> QED
      BY <3>1, <3>2
  <2>3. (\A i \in 1 .. l : a[i] = SilenceAt(i - 1)) /\ \A i \in 1 .. r : c[i] = SilenceAt(i - 1)
    BY <1>3
  <2> HIDE DEF a, b, c
  <2> QED
    BY <1>1, <2>1, <2>2, <2>3
<1>8. SourceLength = f * S
  BY <1>7 DEF SourceLength
<1>9. ASSUME NEW t \in Int, t < Origin PROVE SentFrame(t) = Silence
  <2> DEFINE o == Origin
             x == (t - o) * S
  <2>0. o \in Int
    BY <1>1 DEF Origin
  <2> HIDE DEF o, S
  <2>1. x \in Int /\ x + S <= 0
    <3>1. t - o \in Int /\ t - o < 0 /\ 0 * S = 0
      BY <1>1, <1>9, <2>0 DEF o
    <3> QED
      BY <1>1, <3>1, FrameTimes DEF S
  <2> HIDE DEF x
  <2>2. \A k \in 1 .. S : Original(x + k - 1) = Silent
    BY <1>1, <2>1 DEF Original
  <2>3. SentFrame(t) = Frame("vae", [k \in 1 .. S |-> Original(x + k - 1)])
    BY DEF SentFrame, x, o, S
  <2>4. [k \in 1 .. S |-> Original(x + k - 1)] = [k \in 1 .. S |-> Silent]
    BY <2>2
  <2> QED
    BY <2>3, <2>4 DEF Silence, Steady, S
<1>10. ASSUME NEW t \in Int, t >= Origin + f PROVE SentFrame(t) = Silence
  <2> DEFINE o == Origin
             x == (t - o) * S
             y == f * S
  <2>0. o \in Int
    BY <1>1 DEF Origin
  <2>1. x \in Int /\ y \in Int /\ x >= y
    <3> HIDE DEF o, S, f
    <3>1. t - o \in Int /\ f <= t - o
      BY <1>1, <1>10, <2>0 DEF o
    <3> QED
      BY <1>1, <3>1, TimesMono
  <2> HIDE DEF x, y, o, S
  <2>2. \A k \in 1 .. S : Original(x + k - 1) = Silent
    <3>1. SourceLength = y
      BY <1>8 DEF y, S
    <3> QED
      BY <1>1, <2>1, <3>1 DEF Original
  <2>3. SentFrame(t) = Frame("vae", [k \in 1 .. S |-> Original(x + k - 1)])
    BY DEF SentFrame, x, o, S
  <2>4. [k \in 1 .. S |-> Original(x + k - 1)] = [k \in 1 .. S |-> Silent]
    BY <2>2
  <2> QED
    BY <2>3, <2>4 DEF Silence, Steady, S
<1>11. ASSUME NEW t \in Int, t >= Origin, t < Origin + f
       PROVE  t - Origin + 1 \in 1 .. f /\ b[t - Origin + 1] = SentFrame(t)
  <2> DEFINE o == Origin
             j == t - o + 1
             x == (j - 1) * S
             y == f * S
  <2>0. o \in Int
    BY <1>1 DEF Origin
  <2>1. j \in 1 .. f /\ j - 1 = t - o
    <3> HIDE DEF o, f
    <3> QED
      BY <1>1, <1>11, <2>0 DEF o
  <2> HIDE DEF j
  <2>2. b[j] = Frame("vae", [k \in 1 .. S |-> x + k - 1]) /\ x \in Nat /\ x + S <= y
    BY <1>6, <2>1
  <2>3. y \in Int
    BY <1>1
  <2> HIDE DEF x, y, o, S
  <2>4. ASSUME NEW k \in 1 .. S PROVE Original(x + k - 1) = x + k - 1
    <3>1. SourceLength = y
      BY <1>8 DEF y, S
    <3>2. x + k - 1 \in 0 .. y - 1
      BY <1>1, <2>2, <2>3
    <3> QED
      BY <3>1, <3>2 DEF Original
  <2>5. SentFrame(t) = Frame("vae", [k \in 1 .. S |-> Original(x + k - 1)])
    BY <2>1 DEF SentFrame, x, o, S
  <2>6. [k \in 1 .. S |-> Original(x + k - 1)] = [k \in 1 .. S |-> x + k - 1]
    BY <2>4
  <2> QED
    BY <2>1, <2>2, <2>5, <2>6 DEF j, o
<1> HIDE DEF a, b, c, V, l, r, f
<1>12. CASE HaveRegion
  <2>1. SourceOf = a \o b \o c /\ Origin = l
    BY <1>12 DEF SourceOf, Origin, a, b, c, l, r
  <2> DEFINE u == a \o b \o c
  <2>a. u = a \o b \o c
    OBVIOUS
  <2> HIDE DEF u
  <2>b. /\ u \in Seq(V) /\ Len(u) = Len(a) + Len(b) + Len(c)
        /\ \A i \in 1 .. Len(a) + Len(b) + Len(c) :
              u[i] = IF i <= Len(a) THEN a[i]
                     ELSE IF i <= Len(a) + Len(b) THEN b[i - Len(a)]
                     ELSE c[i - Len(a) - Len(b)]
    <3>1. a \in Seq(V) /\ b \in Seq(V) /\ c \in Seq(V)
      BY <1>7
    <3> QED
      BY <2>a, <3>1, ThreeParts
  <2>2. /\ u \in Seq(V) /\ Len(u) = l + f + r
        /\ \A i \in 1 .. l + f + r :
              u[i] = IF i <= l THEN a[i] ELSE IF i <= l + f THEN b[i - l] ELSE c[i - l - f]
    BY <1>7, <2>b
  <2>3. ASSUME l + f + r <= MaxT, NEW t \in 0 .. l + f + r - 1
        PROVE  u[t + 1] = SentFrame(t)
    <3>1. u[t + 1] = IF t + 1 <= l THEN a[t + 1]
                                 ELSE IF t + 1 <= l + f THEN b[t + 1 - l] ELSE c[t + 1 - l - f]
      <4> DEFINE i == t + 1
      <4>1. i \in 1 .. l + f + r
        BY <1>1
      <4> HIDE DEF i
      <4>2. \A k \in 1 .. l + f + r :
               u[k] = IF k <= l THEN a[k] ELSE IF k <= l + f THEN b[k - l] ELSE c[k - l - f]
        BY <2>2
      <4>3. u[i] = IF i <= l THEN a[i] ELSE IF i <= l + f THEN b[i - l] ELSE c[i - l - f]
        BY <4>1, <4>2
      <4> QED
        BY <1>1, <4>3 DEF i
    <3>2. CASE t < l
      <4>1. a[t + 1] = SilenceAt(t + 1 - 1) /\ t + 1 - 1 \in 0 .. MaxT - 1 /\ t + 1 <= l
        BY <1>1, <1>7, <2>3, <3>2
      <4>2. SentFrame(t) = Silence
        BY <1>9, <2>1, <3>2
      <4> QED
        BY <3>1, <4>1, <4>2 DEF SilenceAt
    <3>3. CASE l <= t /\ t < l + f
      <4>1. ~(t + 1 <= l) /\ t + 1 <= l + f /\ t + 1 - l = t - l + 1
        BY <1>1, <3>3
      <4>2. b[t - l + 1] = SentFrame(t)
        BY <1>1, <1>11, <2>1, <3>3
      <4>3. u[t + 1] = b[t + 1 - l]
        BY ONLY <3>1, <4>1
      <4> QED
        BY ONLY <4>1, <4>2, <4>3
    <3>4. CASE l + f <= t
      <4>0. /\ l \in Nat /\ f \in Nat /\ r \in Nat /\ MaxT \in Nat
            /\ l + f + r <= MaxT /\ t \in 0 .. l + f + r - 1
        BY <1>1, <2>3
      <4>1. /\ ~(t + 1 <= l) /\ ~(t + 1 <= l + f)
            /\ t + 1 - l - f \in 1 .. r /\ (t + 1 - l - f) - 1 \in 0 .. MaxT - 1
        BY ONLY <4>0, <3>4
      <4>2. c[t + 1 - l - f] = SilenceAt((t + 1 - l - f) - 1)
        <5> DEFINE x == t + 1 - l - f
        <5>1. \A i \in 1 .. r : c[i] = SilenceAt(i - 1)
          BY <1>7
        <5>2. x \in 1 .. r
          BY <4>1
        <5> HIDE DEF x
        <5>3. c[x] = SilenceAt(x - 1)
          BY ONLY <5>1, <5>2
        <5> QED
          BY <5>3 DEF x
      <4>3. SentFrame(t) = Silence
        BY <1>1, <1>10, <2>1, <3>4
      <4> QED
        BY <3>1, <4>1, <4>2, <4>3 DEF SilenceAt
    <3> QED
      BY <1>1, <3>2, <3>3, <3>4
  <2>4. SourceOf = u
    BY <2>1, <2>a, Zenon
  <2>5. u \in Seq(Plains(Int))
    BY <2>2, Zenon DEF V
  <2>6. Len(u) = l + f + r
    BY <2>2
  <2>7. Len(u) <= MaxT => \A t \in 0 .. Len(u) - 1 : u[t + 1] = SentFrame(t)
    BY <1>1, <2>3, <2>6
  <2> QED
    BY <2>4, <2>5, <2>7, Zenon
<1>13. CASE ~HaveRegion
  <2>1. SourceOf = b /\ Origin = 0
    BY <1>13 DEF SourceOf, Origin, b
  <2>2. ASSUME NEW t \in 0 .. f - 1 PROVE b[t + 1] = SentFrame(t)
    <3>1. t \in Int /\ t >= Origin /\ t < Origin + f /\ t - Origin + 1 = t + 1
      BY <1>1, <2>1
    <3> QED
      BY <1>11, <3>1
  <2> QED
    BY <1>7, <2>1, <2>2 DEF V
<1> QED
  BY <1>12, <1>13

\* What the encoder is to make, or what was sent, is whole: silence and samples
\* of the source.
LEMMA CoverPlain ==
  ASSUME ask \in Asks, NeedsSource => ask.src # "none"
  PROVE  /\ Len(CoverOf) \in Nat /\ DOMAIN CoverOf = 1 .. Len(CoverOf)
         /\ Len(CoverOf) <= MaxT => \A j \in 1 .. Len(CoverOf) : CoverOf[j] \in Plains(Places)
<1> DEFINE S == SamplesPerFrame
           n == Len(SourceOf)
           q == n \div S
<1>1. S \in Nat \ {0}
  BY TilingAssumption
<1>2. CASE ~NeedsSource
  <2>1. SourceOf = <<>>
    BY <1>2 DEF SourceOf
  <2>2. 0 \div S = 0
    BY <1>1
  <2>3. Len(SourceOf) \div S = 0
    BY <2>1, <2>2
  <2>4. CoverOf = IF ask.src = "audio" THEN [j \in 1 .. Len(SourceOf) \div S |-> VaeFrame(SourceOf, (j - 1) * S)]
                  ELSE SourceOf
    BY DEF CoverOf
  <2>5. CASE ask.src = "audio"
    <3>1. CoverOf = [j \in 1 .. 0 |-> VaeFrame(SourceOf, (j - 1) * S)]
      BY <2>3, <2>4, <2>5
    <3> HIDE DEF S
    <3>2. Len(CoverOf) = 0 /\ DOMAIN CoverOf = 1 .. 0
      BY <3>1
    <3> QED
      BY <3>2
  <2>6. CASE ask.src # "audio"
    <3>1. CoverOf = <<>>
      BY <2>1, <2>4, <2>6
    <3> QED
      BY <3>1
  <2> QED
    BY <2>5, <2>6
<1>3. CASE NeedsSource /\ ask.src = "audio"
  <2>1. /\ SourceOf \in Seq(Places) /\ n \in Nat
    BY <1>3, AudioPlaced
  <2>2. q \in Nat /\ q * S <= n
    <3> HIDE DEF n, S
    <3>1. q \in Int /\ S * q <= n /\ n < S * q + S
      BY <1>1, <2>1, DivRange
    <3>2. q \in Nat
      BY <1>1, <2>1
    <3> HIDE DEF q
    <3> QED
      BY <1>1, <3>1, <3>2
  <2>3. CoverOf = [j \in 1 .. q |-> VaeFrame(SourceOf, (j - 1) * S)]
    BY <1>3 DEF CoverOf
  <2> HIDE DEF q
  <2>4. Len(CoverOf) = q /\ DOMAIN CoverOf = 1 .. q
    BY <2>2, <2>3
  <2>5. ASSUME NEW j \in 1 .. q PROVE CoverOf[j] \in Plains(Places)
    <3> DEFINE x == (j - 1) * S
    <3>1. x \in Nat /\ x + S <= n
      <4>1. x \in Nat
        BY <1>1
      <4>2. x + S <= q * S
        BY <2>2, FrameTimes
      <4>3. q * S \in Int
        BY <1>1, <2>2
      <4> HIDE DEF x, S, n
      <4> QED
        BY <1>1, <2>1, <2>2, <4>1, <4>2, <4>3
    <3>2. CoverOf[j] = Frame("vae", [k \in 1 .. S |-> SourceOf[x + k]])
      BY <2>3 DEF VaeFrame
    <3> HIDE DEF x, S
    <3>3. ASSUME NEW k \in 1 .. S PROVE SourceOf[x + k] \in Places
      <4>1. x + k \in 1 .. n
        <5> HIDE DEF n
        <5> QED
          BY <1>1, <2>1, <3>1
      <4> QED
        BY <2>1, <4>1
    <3>4. [k \in 1 .. S |-> SourceOf[x + k]] \in [1 .. S -> Places]
      BY <3>3
    <3> QED
      BY <3>2, <3>4 DEF Plains, S
  <2> QED
    BY <2>2, <2>4, <2>5
<1>4. CASE NeedsSource /\ ask.src = "latents"
  <2>1. CoverOf = SourceOf
    BY <1>4 DEF CoverOf
  <2>2. /\ SourceOf \in Seq(Plains(Int))
        /\ n <= MaxT => \A t \in 0 .. n - 1 : SourceOf[t + 1] = SentFrame(t)
    BY <1>4, LatentsPlaced
  <2>3. n \in Nat /\ DOMAIN SourceOf = 1 .. n
    BY <2>2
  <2>4. Origin \in Int
    BY PadsAreNat DEF Origin
  <2>5. ASSUME NEW t \in Int PROVE SentFrame(t) \in Plains(Places)
    <3> DEFINE x == (t - Origin) * S
    <3>1. x \in Int
      BY <1>1, <2>4
    <3>2. SentFrame(t) = Frame("vae", [k \in 1 .. S |-> Original(x + k - 1)])
      BY DEF SentFrame
    <3> HIDE DEF x, S
    <3>3. ASSUME NEW k \in 1 .. S PROVE Original(x + k - 1) \in Places
      <4>1. SourceLength \in Nat
        BY PadsAreNat
      <4>2. x + k - 1 \in Int
        BY <1>1, <3>1
      <4> QED
        BY <4>1, <4>2 DEF Original, Places
    <3>4. [k \in 1 .. S |-> Original(x + k - 1)] \in [1 .. S -> Places]
      BY <3>3
    <3> QED
      BY <3>2, <3>4 DEF Plains, S
  <2> HIDE DEF n
  <2>6. ASSUME n <= MaxT, NEW j \in 1 .. n PROVE SourceOf[j] \in Plains(Places)
    <3>1. j - 1 \in 0 .. n - 1 /\ j - 1 \in Int /\ (j - 1) + 1 = j
      BY <2>3
    <3>2. SourceOf[(j - 1) + 1] = SentFrame(j - 1)
      BY <2>2, <2>6, <3>1
    <3> QED
      BY <2>5, <3>1, <3>2
  <2> QED
    BY <2>1, <2>3, <2>6 DEF n
<1> QED
  BY <1>2, <1>3, <1>4, AskType

\* However the audio is tiled, its frames are those of one encode.
LEMMA EncodedIsCover ==
  ASSUME ask \in Asks, NeedsSource => ask.src # "none", ask.src = "audio", source = SourceOf,
         NEW chunk \in Candidates
  PROVE  Encoded(EncodeOrder(Len(source), chunk)) = CoverOf
<1> DEFINE S == SamplesPerFrame
           n == Len(source)
           q == n \div S
           order == EncodeOrder(n, chunk)
<1>1. n \in Nat
  <2>1. CASE NeedsSource
    BY <2>1, AudioPlaced
  <2>2. CASE ~NeedsSource
    <3>1. source = <<>>
      BY <2>2 DEF SourceOf
    <3> QED
      BY <3>1
  <2> QED
    BY <2>1, <2>2
<1> HIDE DEF n
<1>2. order = [j \in 1 .. q |-> (j - 1) * S]
  BY <1>1, EncodeWhole
<1> HIDE DEF order, q, S
<1>3. DOMAIN order = 1 .. q /\ \A j \in 1 .. q : order[j] = (j - 1) * S
  BY <1>2
<1>4. Encoded(order) = [j \in 1 .. q |-> VaeFrame(source, (j - 1) * S)]
  BY <1>3 DEF Encoded
<1>5. CoverOf = [j \in 1 .. q |-> VaeFrame(source, (j - 1) * S)]
  BY DEF CoverOf, q, n, S
<1> QED
  BY <1>4, <1>5 DEF order, n

LEMMA NoCover ==
  ASSUME ~NeedsSource
  PROVE  Len(CoverOf) = 0
<1> DEFINE S == SamplesPerFrame
<1>1. S \in Nat \ {0}
  BY TilingAssumption
<1>2. SourceOf = <<>>
  BY DEF SourceOf
<1>3. Len(SourceOf) \div S = 0
  <2>1. 0 \div S = 0
    BY <1>1
  <2> QED
    BY <1>2, <2>1
<1>4. CASE ask.src = "audio"
  <2>1. CoverOf = [j \in 1 .. 0 |-> VaeFrame(SourceOf, (j - 1) * S)]
    BY <1>3, <1>4 DEF CoverOf
  <2> HIDE DEF S
  <2> QED
    BY <2>1
<1>5. CASE ask.src # "audio"
  BY <1>2, <1>5 DEF CoverOf
<1> QED
  BY <1>4, <1>5

LEMMA MaxIsNat ==
  ASSUME NEW n \in Nat, NEW f \in [1 .. n -> Int]
  PROVE  Max({0} \cup {f[b] : b \in 1 .. n}) \in Nat
<1> DEFINE R(m) == {0} \cup {f[b] : b \in 1 .. m}
           Top(m) == \E x \in R(m) : \A y \in R(m) : x >= y
           T == {m \in 0 .. n : Top(m)}
<1>1. ASSUME NEW m \in 0 .. n PROVE R(m) \subseteq Int
  <2>1. \A b \in 1 .. m : b \in 1 .. n
    OBVIOUS
  <2>2. \A b \in 1 .. m : f[b] \in Int
    BY <2>1
  <2> QED
    BY <2>2
<1>2. Top(0)
  <2>1. R(0) = {0}
    OBVIOUS
  <2> QED
    BY <2>1
<1>3. ASSUME NEW m \in 1 .. n, Top(m - 1) PROVE Top(m)
  <2>1. PICK x \in R(m - 1) : \A y \in R(m - 1) : x >= y
    BY <1>3
  <2>2. R(m) = R(m - 1) \cup {f[m]} /\ f[m] \in Int /\ x \in Int /\ m - 1 \in 0 .. n
    <3>1. 1 .. m = (1 .. (m - 1)) \cup {m} /\ m - 1 \in 0 .. n /\ f[m] \in Int
      OBVIOUS
    <3>2. x \in Int
      BY <1>1, <3>1
    <3> QED
      BY <3>1, <3>2
  <2> DEFINE z == IF x >= f[m] THEN x ELSE f[m]
             P == R(m - 1)
             Q == R(m)
             last == f[m]
  <2>3. P \subseteq Int
    BY <1>1, <2>2
  <2> HIDE DEF P, Q, last
  <2>4. Q = P \cup {last} /\ last \in Int /\ x \in Int /\ x \in P /\ \A y \in P : x >= y
    BY <2>1, <2>2 DEF P, Q, last
  <2>5. (IF x >= last THEN x ELSE last) \in Q
        /\ \A y \in Q : (IF x >= last THEN x ELSE last) >= y
    <3>1. CASE x >= last
      BY <2>3, <2>4, <3>1
    <3>2. CASE ~(x >= last)
      <4>1. last > x
        BY <2>4, <3>2
      <4>2. \A y \in P : last >= y
        BY <2>3, <2>4, <4>1
      <4> QED
        BY <2>4, <3>2, <4>2
    <3> QED
      BY <3>1, <3>2
  <2>6. \E v \in Q : \A y \in Q : v >= y
    BY <2>5
  <2> QED
    BY <2>6 DEF Q
<1>4. T = 0 .. n
  <2>1. 0 \in T
    BY <1>2
  <2>2. \A k \in 1 .. n : k - 1 \in T => k \in T
    <3> SUFFICES ASSUME NEW k \in 1 .. n, k - 1 \in T PROVE k \in T
      OBVIOUS
    <3>1. Top(k - 1)
      OBVIOUS
    <3>2. Top(k)
      BY <1>3, <3>1
    <3> HIDE DEF Top
    <3> QED
      BY <3>2
  <2>3. T \in SUBSET (0 .. n)
    OBVIOUS
  <2> HIDE DEF T
  <2> QED
    BY <2>1, <2>2, <2>3, Induction
<1>5. Top(n)
  <2>1. n \in T
    <3> HIDE DEF T
    <3> QED
      BY <1>4
  <2> QED
    BY <2>1
<1> DEFINE A == R(n)
<1>6. A \subseteq Int /\ 0 \in A /\ \E x \in A : \A y \in A : x >= y
  <2>1. n \in 0 .. n
    OBVIOUS
  <2>2. A \subseteq Int
    <3> HIDE DEF R
    <3> QED
      BY <1>1, <2>1
  <2>3. 0 \in A
    OBVIOUS
  <2>4. \E x \in A : \A y \in A : x >= y
    <3> HIDE DEF R
    <3> QED
      BY <1>5
  <2> QED
    BY <2>2, <2>3, <2>4
<1> HIDE DEF A
<1>7. Max(A) \in A /\ \A y \in A : Max(A) >= y
  BY <1>6 DEF Max
<1> QED
  BY <1>6, <1>7 DEF A

\* What a frame of the conditioning must not be.
LEMMA PlainsHeard ==
  ASSUME NEW x \in Plains(Places)
  PROVE  /\ x # BeyondFrame /\ x.kind = "vae"
         /\ [x EXCEPT !.kind = "fsq"] # BeyondFrame /\ [x EXCEPT !.kind = "fsq"].kind = "fsq"
<1> DEFINE S == SamplesPerFrame
<1>1. PICK of \in [1 .. S -> Places] : x = Frame("vae", of)
  BY DEF Plains
<1>2. 1 \in 1 .. S
  BY TilingAssumption
<1>3. x = [kind |-> "vae", of |-> of]
  BY <1>1 DEF Frame
<1> DEFINE out == [k \in 1 .. S |-> Beyond]
<1>4. BeyondFrame = [kind |-> "vae", of |-> out]
  BY DEF BeyondFrame, Frame, Steady
<1>5. of # out
  <2>1. of[1] \in Places
    BY <1>2
  <2>2. out[1] = -3
    BY <1>2 DEF Beyond
  <2>3. -3 \notin Places
    BY DEF Places, Silent
  <2> HIDE DEF out
  <2> QED
    BY <2>1, <2>2, <2>3, Zenon
<1>6. x # BeyondFrame /\ x.kind = "vae"
  <2>1. x.of = of /\ BeyondFrame.of = out /\ x.kind = "vae"
    BY <1>3, <1>4, Zenon
  <2> QED
    BY <1>5, <2>1, Zenon
<1>7. [x EXCEPT !.kind = "fsq"].kind = "fsq"
  <2>1. "kind" \in DOMAIN x
    BY <1>3
  <2> QED
    BY <2>1
<1>8. BeyondFrame.kind = "vae"
  BY <1>4, Zenon
<1> QED
  BY <1>6, <1>7, <1>8

LEMMA SilenceHeard ==
  ASSUME NEW i \in 0 .. MaxT - 1
  PROVE  SilenceAt(i) \in Plains(Places)
<1>1. [k \in 1 .. SamplesPerFrame |-> Silent] \in [1 .. SamplesPerFrame -> Places]
  BY DEF Places
<1> QED
  BY <1>1 DEF SilenceAt, Silence, Steady, Plains

-----------------------------------------------------------------------------
(* The shape, from the padding of the source to the audio of a track.        *)

AfterPad == {"encode", "fsq", "region", "params", "text", "context", "noise", "dit"}
AfterEncode == {"fsq", "region", "params", "text", "context", "noise", "dit"}
AfterRegion == {"params", "text", "context", "noise", "dit", "done"}
AfterLength == {"text", "context", "noise", "dit", "done"}

\* Phase 1 is all within the runner's first phase, and only its success leads
\* to a decode.
StageAt ==
    /\ stage \in {"pad", "failed", "done"} \cup AfterPad
    /\ stage \in AfterPad => pc = "dit"
    /\ pc \in {"start", "load"} => stage = "pad"
    /\ pc \in {"decode", "encode", "finish"} => stage = "done"

OrderAt == Len(sizes) <= MaxRequests /\ (pc = "dit" => batch = Expand(sizes))

SourceAt ==
    /\ ask \in Asks
    /\ stage \notin {"pad", "failed"} => (NeedsSource => ask.src # "none")
    /\ stage \in AfterPad => pad = PadOf /\ source = SourceOf
    /\ stage = "done" /\ IsRepaint =>
          pad = PadOf /\ source = IF ask.src = "audio" THEN SourceOf ELSE <<>>

CoverAt ==
    /\ stage \in AfterEncode =>
          /\ cover = CoverOf \/ (RoundTrips /\ cover = Degraded)
          /\ clean = IF RoundTrips THEN CoverOf ELSE <<>>
    /\ stage = "fsq" => RoundTrips /\ cover = CoverOf
    /\ stage = "done" /\ IsRepaint => cover = CoverOf

RegionAt ==
    stage \in AfterRegion /\ IsRepaint =>
        /\ region = <<AskedFrom + PadOf, AskedTo + PadOf>>
        /\ region[1] < region[2]

CanvasAt == stage \in AfterLength => canvas.T \in 0 .. MaxT /\ Len(CoverOf) <= canvas.T

ContextAt ==
    /\ context # <<>> => stage \in {"noise", "dit"}
    /\ blend # <<>> => stage = "dit"
    /\ ConditioningFits

Straight(n) == [j \in 1 .. n |-> j - 1]

WaveAt == wave # <<>> => stage = "done" /\ wave = DecodedWave(Straight(canvas.T))

ShapeInv ==
    /\ StageAt /\ OrderAt /\ SourceAt /\ CoverAt
    /\ RegionAt /\ CanvasAt /\ ContextAt /\ WaveAt

\* What follows from what was asked stays as it is.
LEMMA AskedSame ==
  ASSUME ask' = ask
  PROVE  /\ PadOf' = PadOf /\ SourceOf' = SourceOf /\ CoverOf' = CoverOf /\ Degraded' = Degraded
         /\ IsRepaint' = IsRepaint /\ HaveRegion' = HaveRegion /\ NeedsSource' = NeedsSource
         /\ RoundTrips' = RoundTrips /\ UseSourceContext' = UseSourceContext
         /\ AskedFrom' = AskedFrom /\ AskedTo' = AskedTo
<1>1. /\ IsRepaint' = IsRepaint /\ HaveRegion' = HaveRegion /\ NeedsSource' = NeedsSource
      /\ RoundTrips' = RoundTrips /\ UseSourceContext' = UseSourceContext
  BY Zenon DEF IsRepaint, HaveRegion, IsLegoRegion, NeedsSource, RoundTrips, UseSourceContext
<1>2. SourceAudio' = SourceAudio
  BY DEF SourceAudio
<1>3. SourceFrames' = SourceFrames
  BY <1>2, Zenon DEF SourceFrames, VaeFrame
<1>4. SourceLength' = SourceLength
  BY <1>3, Zenon DEF SourceLength
<1>5. LeftPad' = LeftPad /\ RightPad' = RightPad
  BY <1>4, Zenon DEF LeftPad, RightPad
<1>6. PadOf' = PadOf
  BY <1>1, <1>5, Zenon DEF PadOf
<1>7. SourceOf' = SourceOf
  BY <1>1, <1>2, <1>3, <1>5, Zenon DEF SourceOf, SilentFrames, SilentSamples, Frames
<1>8. CoverOf' = CoverOf
  BY <1>7, Zenon DEF CoverOf, VaeFrame
<1>9. Degraded' = Degraded
  BY <1>8, Zenon DEF Degraded
<1>10. AskedFrom' = AskedFrom /\ AskedTo' = AskedTo
  BY <1>4, Zenon DEF AskedFrom, AskedTo
<1> QED
  BY <1>1, <1>6, <1>7, <1>8, <1>9, <1>10

LEMMA WaveSame ==
  ASSUME ask' = ask, source' = source, cover' = cover, region' = region, canvas' = canvas
  PROVE  DecodedWave(Straight(canvas.T))' = DecodedWave(Straight(canvas.T))
<1>1. IsRepaint' = IsRepaint /\ HaveRegion' = HaveRegion
  BY AskedSame
<1>2. RegionFrames' = RegionFrames
  BY <1>1, Zenon DEF RegionFrames
<1>3. \A t : SplicedLatent(t)' = SplicedLatent(t)
  BY <1>1, <1>2, Zenon DEF SplicedLatent, InRegion
<1>4. \A i : FromSource(i)' = FromSource(i)
  BY <1>2, Zenon DEF FromSource
<1>5. Straight(canvas.T)' = Straight(canvas.T)
  BY Zenon DEF Straight
<1> QED
  BY <1>3, <1>4, <1>5, Zenon DEF DecodedWave

\* A step that leaves the shape alone, and the batch if a context was built.
LEMMA ShapeKept ==
  ASSUME ShapeInv, UNCHANGED shapeVars, StageAt', OrderAt', context = <<>> \/ batch' = batch
  PROVE  ShapeInv'
<1>1. /\ ask' = ask /\ stage' = stage /\ pad' = pad /\ source' = source /\ cover' = cover
      /\ clean' = clean /\ region' = region /\ canvas' = canvas /\ context' = context
      /\ blend' = blend /\ wave' = wave
  BY Zenon DEF shapeVars
<1>2. /\ PadOf' = PadOf /\ SourceOf' = SourceOf /\ CoverOf' = CoverOf /\ Degraded' = Degraded
      /\ IsRepaint' = IsRepaint /\ HaveRegion' = HaveRegion /\ NeedsSource' = NeedsSource
      /\ RoundTrips' = RoundTrips /\ AskedFrom' = AskedFrom /\ AskedTo' = AskedTo
  BY <1>1, AskedSame
<1>3. SourceAt'
  BY <1>1, <1>2, Zenon DEF ShapeInv, SourceAt
<1>4. CoverAt' /\ RegionAt' /\ CanvasAt'
  BY <1>1, <1>2, Zenon DEF ShapeInv, CoverAt, RegionAt, CanvasAt
<1>5. ContextAt'
  <2>1. ConditioningFits'
    <3>1. CASE batch' = batch
      BY <1>1, <3>1, Zenon DEF ShapeInv, ContextAt, ConditioningFits
    <3>2. CASE context = <<>>
      <4>1. DOMAIN context' = {}
        BY <1>1, <3>2
      <4> QED
        BY <1>1, <4>1, Zenon DEF ShapeInv, ContextAt, ConditioningFits
    <3> QED
      BY <3>1, <3>2
  <2> QED
    BY <1>1, <2>1, Zenon DEF ShapeInv, ContextAt
<1>6. WaveAt'
  BY <1>1, WaveSame, Zenon DEF ShapeInv, WaveAt
<1> QED
  BY <1>3, <1>4, <1>5, <1>6, Zenon DEF ShapeInv

LEMMA ShapeInit0 == JobInit => ShapeInv
<1> SUFFICES ASSUME JobInit PROVE ShapeInv
  OBVIOUS
<1>1. /\ ask \in Asks /\ stage = "pad" /\ context = <<>> /\ blend = <<>> /\ wave = <<>>
      /\ pc = "start" /\ batch = <<>>
  BY DEF JobInit, Init, ShapeInit
<1>2. Len(sizes) <= MaxRequests
  <2>1. PICK n \in 1 .. MaxRequests : sizes \in [1 .. n -> Sizes]
    BY DEF JobInit, Init
  <2>2. n \in Nat /\ n <= MaxRequests
    BY SizesAssumption
  <2>3. Len(sizes) = n
    BY <2>1, <2>2
  <2> QED
    BY <2>2, <2>3
<1>3. ConditioningFits
  <2>1. DOMAIN context = {} /\ DOMAIN blend = {}
    BY <1>1
  <2> QED
    BY <2>1, Zenon DEF ConditioningFits
<1> QED
  BY <1>1, <1>2, <1>3
     DEF ShapeInv, StageAt, OrderAt, SourceAt, CoverAt, RegionAt, CanvasAt, ContextAt, WaveAt,
         AfterPad, AfterEncode, AfterRegion, AfterLength

\* The steps of the job once more, each with the part of phase 1 it is in.
LEMMA JobSteps ==
  ASSUME [JobNext]_jobVars
  PROVE  \/ (Pad \/ EncodeSource \/ Fsq \/ AdjustRegion \/ ResolveT \/ EncodeText \/ BuildContext)
               /\ pc = "dit" /\ UNCHANGED vars
         \/ (InitNoise \/ DitStep \/ DitEnds) /\ pc = "dit" /\ UNCHANGED vars
         \/ Phase1Ends /\ UNCHANGED shapeVars
         \/ KeepTrack /\ Decode
         \/ (Start \/ Load \/ DecodeTile \/ RunDone \/ RunFailed \/ Encode \/ Build \/ Finish \/ Settle
               \/ Cancel \/ UNCHANGED vars) /\ UNCHANGED shapeVars
<1>0. UNCHANGED <<shapeVars, samplerVars>> => UNCHANGED shapeVars
  BY Zenon
<1>1. CASE JobWorker
  <2>1. InDit => pc = "dit" /\ UNCHANGED vars
    BY Zenon DEF InDit
  <2> QED
    BY <1>0, <1>1, <2>1, Zenon DEF JobWorker, Phase1
<1>2. CASE (Cancel \/ Returned) /\ UNCHANGED <<shapeVars, samplerVars>>
  BY <1>0, <1>2, Zenon DEF Returned
<1>3. CASE UNCHANGED jobVars
  BY <1>3, Zenon DEF jobVars
<1> QED
  BY <1>1, <1>2, <1>3, Zenon DEF JobNext

\* The worker outside phase 1.
LEMMA WorkerShape ==
  ASSUME ShapeInv, UNCHANGED shapeVars,
         Start \/ Load \/ DecodeTile \/ RunDone \/ RunFailed \/ Encode \/ Build \/ Finish \/ Settle
            \/ Cancel \/ UNCHANGED vars
  PROVE  ShapeInv'
<1>1. stage' = stage /\ context' = context
  BY Zenon DEF shapeVars
<1>2. StageAt /\ OrderAt
  BY Zenon DEF ShapeInv
<1>3. CASE Load
  <2>1. pc = "load" /\ sizes' = sizes /\ pc' \in {"settle", "dit"}
        /\ (pc' = "dit" => batch' = Expand(sizes))
    BY <1>3 DEF Load, Choose, jobInput
  <2>2. stage = "pad"
    BY <1>2, <2>1 DEF StageAt
  <2>3. context = <<>>
    BY <2>2 DEF ShapeInv, ContextAt
  <2>4. StageAt'
    BY <1>1, <2>1, <2>2 DEF StageAt, AfterPad
  <2>5. Expand(sizes)' = Expand(sizes)
    BY <2>1, Zenon
  <2>6. OrderAt'
    BY <1>2, <2>1, <2>5 DEF OrderAt
  <2> QED
    BY <2>3, <2>4, <2>6, ShapeKept
<1>4. CASE ~Load
  <2>1. sizes' = sizes /\ batch' = batch
    BY <1>4, Zenon DEF Start, DecodeTile, RunDone, RunFailed, Encode, Build, Finish, Settle,
                    Cancel, vars, jobInput
  <2>2. \/ pc' = pc
        \/ pc = "start" /\ pc' \in {"settle", "load"}
        \/ pc = "decode" /\ pc' \in {"failed", "encode"}
        \/ pc = "failed" /\ pc' = "settle"
        \/ pc = "encode" /\ pc' = "finish"
        \/ pc = "finish" /\ pc' = "settle"
        \/ pc = "settle" /\ pc' = "returned"
    <3>1. Start => pc = "start" /\ pc' \in {"settle", "load"}
      BY DEF Start, Choose
    <3>2. DecodeTile => pc' = pc \/ (pc = "decode" /\ pc' \in {"failed", "encode"})
      BY DEF DecodeTile, Decoding, GiveUp, NextTrack
    <3>3. RunDone => pc = "decode" /\ pc' \in {"failed", "encode"}
      BY DEF RunDone
    <3>4. RunFailed => pc = "failed" /\ pc' = "settle"
      BY DEF RunFailed, Choose
    <3>5. Encode \/ Cancel \/ UNCHANGED vars => pc' = pc
      BY Zenon DEF Encode, Cancel, vars
    <3>6. Build => pc = "encode" /\ pc' = "finish"
      BY DEF Build
    <3>7. Finish => pc = "finish" /\ pc' = "settle"
      BY DEF Finish, Choose
    <3>8. Settle => pc = "settle" /\ pc' = "returned"
      BY DEF Settle
    <3> QED
      BY <1>4, <3>1, <3>2, <3>3, <3>4, <3>5, <3>6, <3>7, <3>8, Zenon
  <2>3. StageAt'
    BY <1>1, <1>2, <2>2 DEF StageAt, AfterPad
  <2>4. Expand(sizes)' = Expand(sizes)
    BY <2>1, Zenon
  <2>5. pc' = "dit" => pc = "dit"
    BY <2>2
  <2>6. OrderAt'
    BY <1>2, <2>1, <2>4, <2>5 DEF OrderAt
  <2> QED
    BY <2>1, <2>3, <2>6, ShapeKept
<1> QED
  BY <1>3, <1>4

\* Phase 1 ends as its sampler did.
LEMMA Phase1Shape ==
  ASSUME ShapeInv, BInv, UNCHANGED shapeVars, Phase1Ends
  PROVE  ShapeInv'
<1>1. stage' = stage /\ stage \in {"done", "failed"} /\ (job' = (stage = "done"))
  BY Zenon DEF shapeVars, Phase1Ends
<1>2. StageAt /\ OrderAt
  BY Zenon DEF ShapeInv
<1>3. pc = "dit" /\ sizes' = sizes /\ batch' = batch
  BY DEF Phase1Ends, Dit, jobInput
<1>4. ~job
  BY <1>3 DEF BInv, HeldAt
<1>5. (pc' = "failed" /\ job' = job) \/ (pc' = "decode" /\ job' = TRUE)
  BY DEF Phase1Ends, Dit
<1>6. pc' = "decode" => stage = "done"
  BY <1>1, <1>4, <1>5
<1>7. StageAt'
  BY <1>1, <1>2, <1>5, <1>6 DEF StageAt, AfterPad
<1>8. OrderAt'
  <2>1. pc' # "dit"
    BY <1>5
  <2> QED
    BY <1>2, <1>3, <2>1 DEF OrderAt
<1> QED
  BY <1>3, <1>7, <1>8, ShapeKept

LEMMA DecodeShape ==
  ASSUME ShapeInv, KeepTrack, Decode
  PROVE  ShapeInv'
<1>1. /\ ask' = ask /\ stage' = stage /\ pad' = pad /\ source' = source /\ cover' = cover
      /\ clean' = clean /\ region' = region /\ canvas' = canvas /\ context' = context
      /\ blend' = blend
  BY Zenon DEF Decode
<1>2. pc' = pc /\ batch' = batch /\ sizes' = sizes /\ pc = "decode"
  BY DEF KeepTrack, NextTrack, Decoding, jobInput
<1>3. /\ PadOf' = PadOf /\ SourceOf' = SourceOf /\ CoverOf' = CoverOf /\ Degraded' = Degraded
      /\ IsRepaint' = IsRepaint /\ HaveRegion' = HaveRegion /\ NeedsSource' = NeedsSource
      /\ RoundTrips' = RoundTrips /\ AskedFrom' = AskedFrom /\ AskedTo' = AskedTo
  BY <1>1, AskedSame
<1>4. StageAt'
  BY <1>1, <1>2, Zenon DEF ShapeInv, StageAt
<1>5. OrderAt'
  BY <1>2 DEF ShapeInv, OrderAt
<1>6. SourceAt'
  BY <1>1, <1>3, Zenon DEF ShapeInv, SourceAt
<1>7. CoverAt' /\ RegionAt' /\ CanvasAt'
  BY <1>1, <1>3, Zenon DEF ShapeInv, CoverAt, RegionAt, CanvasAt
<1>8. ContextAt'
  <2>1. ConditioningFits'
    BY <1>1, <1>2, Zenon DEF ShapeInv, ContextAt, ConditioningFits
  <2> QED
    BY <1>1, <2>1, Zenon DEF ShapeInv, ContextAt
<1>9. WaveAt'
  <2>1. stage = "done"
    BY <1>2 DEF ShapeInv, StageAt
  <2>2. canvas.T \in 0 .. MaxT
    BY <2>1 DEF ShapeInv, CanvasAt, AfterLength
  <2>3. wave' = wave \/ \E chunk \in TileChoices : wave' = DecodedWave(DecodeOrders[canvas.T][chunk])
    BY Zenon DEF Decode
  <2>4. ASSUME NEW chunk \in TileChoices
        PROVE  DecodeOrders[canvas.T][chunk] = Straight(canvas.T)
    <3>1. chunk \in Candidates /\ canvas.T \in Nat
      BY <2>2, ShapeAssumption DEF TileChoices
    <3>2. DecodeOrders[canvas.T][chunk] = DecodeOrder(canvas.T, chunk)
      BY <2>2, <3>1, Zenon DEF DecodeOrders
    <3> QED
      BY <3>1, <3>2, DecodeWhole, Zenon DEF Straight
  <2>5. DecodedWave(Straight(canvas.T))' = DecodedWave(Straight(canvas.T))
    BY <1>1, WaveSame
  <2>6. wave' # <<>> => wave' = DecodedWave(Straight(canvas.T))
    BY <2>3, <2>4, Zenon DEF ShapeInv, WaveAt
  <2> QED
    BY <1>1, <2>1, <2>5, <2>6, Zenon DEF WaveAt
<1> QED
  BY <1>4, <1>5, <1>6, <1>7, <1>8, <1>9, Zenon DEF ShapeInv

-----------------------------------------------------------------------------
(* The ops of phase 1.                                                       *)

LEMMA Phase1Frame ==
  ASSUME ShapeInv, pc = "dit", UNCHANGED vars, wave' = wave, stage # "done",
         stage' \in {"failed", "done"} \cup AfterPad
  PROVE  StageAt' /\ OrderAt' /\ WaveAt' /\ pc' = pc /\ batch' = batch /\ sizes' = sizes
<1>1. pc' = pc /\ batch' = batch /\ sizes' = sizes
  BY DEF vars, jobInput
<1>2. StageAt'
  BY <1>1 DEF StageAt, AfterPad
<1>3. OrderAt'
  <2>1. Expand(sizes)' = Expand(sizes)
    BY <1>1, Zenon
  <2> QED
    BY <1>1, <2>1, Zenon DEF ShapeInv, OrderAt
<1>4. WaveAt'
  BY Zenon DEF ShapeInv, WaveAt
<1> QED
  BY <1>1, <1>2, <1>3, <1>4

LEMMA EmptyContext ==
  ASSUME context' = <<>>, blend' = <<>>
  PROVE  ContextAt'
<1>1. DOMAIN context' = {} /\ DOMAIN blend' = {}
  OBVIOUS
<1>2. ConditioningFits'
  BY <1>1, Zenon DEF ConditioningFits
<1> QED
  BY <1>2 DEF ContextAt

LEMMA NotYet ==
  ASSUME ShapeInv, stage \notin {"noise", "dit"}
  PROVE  context = <<>> /\ blend = <<>>
BY DEF ShapeInv, ContextAt

\* Only a source task has a region, and no task with one goes through the FSQ.
LEMMA RepaintHas ==
  ASSUME ask \in Asks, IsRepaint
  PROVE  HaveRegion /\ NeedsSource /\ ~RoundTrips /\ ~Verbatim /\ UseSourceContext
BY DEF IsRepaint, HaveRegion, NeedsSource, RoundTrips, Verbatim, UseSourceContext

LEMMA PadShape ==
  ASSUME ShapeInv, Pad, pc = "dit", UNCHANGED vars
  PROVE  ShapeInv'
<1>1. /\ stage = "pad" /\ ask' = ask /\ cover' = cover /\ clean' = clean /\ region' = region
      /\ canvas' = canvas /\ context' = context /\ blend' = blend /\ wave' = wave
      /\ stage' \in {"failed", "encode"}
  BY DEF Pad, Fails
<1>2. /\ PadOf' = PadOf /\ SourceOf' = SourceOf /\ NeedsSource' = NeedsSource
  BY <1>1, AskedSame
<1>3. StageAt' /\ OrderAt' /\ WaveAt'
  BY <1>1, Phase1Frame DEF AfterPad
<1>4. SourceAt'
  <2>1. ask' \in Asks
    BY <1>1 DEF ShapeInv, SourceAt
  <2>2. stage' = "encode" =>
           (NeedsSource => ask.src # "none") /\ pad' = PadOf /\ source' = SourceOf
    <3>1. CASE NeedsSource /\ ask.src = "none"
      BY <3>1 DEF Pad, Fails
    <3>2. CASE ~(NeedsSource /\ ask.src = "none")
      <4>1. pad' = PadOf
        BY <3>2, Zenon DEF Pad, PadOf
      <4>2. source' = SourceOf
        BY <3>2, Zenon DEF Pad, SourceOf
      <4> QED
        BY <3>2, <4>1, <4>2
    <3> QED
      BY <3>1, <3>2
  <2>3. CASE stage' = "failed"
    BY <2>1, <2>3 DEF SourceAt, AfterPad
  <2>4. CASE stage' = "encode"
    <3>1. NeedsSource => ask.src # "none"
      BY <2>2, <2>4, Zenon
    <3>2. pad' = PadOf' /\ source' = SourceOf'
      BY <1>2, <2>2, <2>4, Zenon
    <3>3. NeedsSource' => ask'.src # "none"
      BY <1>1, <1>2, <3>1, Zenon
    <3>4. stage' # "done"
      BY <2>4
    <3> QED
      BY <2>1, <3>2, <3>3, <3>4, Zenon DEF SourceAt
  <2> QED
    BY <1>1, <2>3, <2>4
<1>5. CoverAt' /\ RegionAt' /\ CanvasAt'
  BY <1>1 DEF CoverAt, RegionAt, CanvasAt, AfterEncode, AfterRegion, AfterLength
<1>6. ContextAt'
  BY <1>1, NotYet, EmptyContext
<1> QED
  BY <1>3, <1>4, <1>5, <1>6, Zenon DEF ShapeInv

LEMMA EncodeShape ==
  ASSUME ShapeInv, EncodeSource, pc = "dit", UNCHANGED vars
  PROVE  ShapeInv'
<1>1. /\ stage = "encode" /\ ask' = ask /\ pad' = pad /\ source' = source /\ region' = region
      /\ canvas' = canvas /\ context' = context /\ blend' = blend /\ wave' = wave
      /\ stage' \in {"failed", "fsq", "params", "region"}
  BY DEF EncodeSource, Fails
<1>2. /\ PadOf' = PadOf /\ SourceOf' = SourceOf /\ CoverOf' = CoverOf /\ Degraded' = Degraded
      /\ IsRepaint' = IsRepaint /\ NeedsSource' = NeedsSource /\ RoundTrips' = RoundTrips
  BY <1>1, AskedSame
<1>3. StageAt' /\ OrderAt' /\ WaveAt'
  BY <1>1, Phase1Frame DEF AfterPad
<1>4. /\ ask \in Asks /\ (NeedsSource => ask.src # "none") /\ pad = PadOf /\ source = SourceOf
  BY <1>1 DEF ShapeInv, SourceAt, AfterPad
<1>5. SourceAt'
  BY <1>1, <1>2, <1>4 DEF SourceAt
<1>6. CASE stage' = "failed"
  <2>1. CoverAt' /\ RegionAt' /\ CanvasAt'
    BY <1>6 DEF CoverAt, RegionAt, CanvasAt, AfterEncode, AfterRegion, AfterLength
  <2>2. ContextAt'
    BY <1>1, NotYet, EmptyContext
  <2> QED
    BY <1>3, <1>5, <2>1, <2>2, Zenon DEF ShapeInv
<1>7. CASE stage' # "failed"
  <2>1. /\ stage' = IF RoundTrips THEN "fsq"
                    ELSE IF Verbatim \/ ~NeedsSource THEN "params" ELSE "region"
        /\ \/ ask.src # "audio" /\ cover' = source
           \/ /\ ask.src = "audio"
              /\ \E chunk \in TileChoices : cover' = Encoded(EncodeOrder(Len(source), chunk))
        /\ clean' = IF RoundTrips THEN cover' ELSE <<>>
    BY <1>7, Zenon DEF EncodeSource, Fails
  <2>2. cover' = CoverOf
    <3>1. CASE ask.src # "audio"
      BY <1>4, <2>1, <3>1, Zenon DEF CoverOf
    <3>2. CASE ask.src = "audio"
      <4>1. PICK chunk \in Candidates : cover' = Encoded(EncodeOrder(Len(source), chunk))
        BY <2>1, <3>2, Zenon DEF TileChoices
      <4> QED
        BY <1>4, <3>2, <4>1, EncodedIsCover, Zenon
    <3> QED
      BY <3>1, <3>2
  <2>3. CoverAt'
    <3>1. clean' = IF RoundTrips THEN CoverOf ELSE <<>>
      BY <2>1, <2>2, Zenon
    <3>2. stage' # "done" /\ (stage' = "fsq" => RoundTrips)
      BY <1>1, <2>1
    <3> QED
      BY <1>2, <2>2, <3>1, <3>2, Zenon DEF CoverAt
  <2>4. RegionAt'
    <3>1. IsRepaint => stage' = "region"
      BY <1>4, <2>1, RepaintHas
    <3> QED
      BY <1>2, <3>1 DEF RegionAt, AfterRegion
  <2>5. CanvasAt'
    BY <1>1 DEF CanvasAt, AfterLength
  <2>6. ContextAt'
    BY <1>1, NotYet, EmptyContext
  <2> QED
    BY <1>3, <1>5, <2>3, <2>4, <2>5, <2>6, Zenon DEF ShapeInv
<1> QED
  BY <1>6, <1>7

LEMMA FsqShape ==
  ASSUME ShapeInv, Fsq, pc = "dit", UNCHANGED vars
  PROVE  ShapeInv'
<1>1. /\ stage = "fsq" /\ ask' = ask /\ pad' = pad /\ source' = source /\ region' = region
      /\ clean' = clean /\ canvas' = canvas /\ context' = context /\ blend' = blend
      /\ wave' = wave /\ stage' = "params"
  BY DEF Fsq
<1>2. /\ PadOf' = PadOf /\ SourceOf' = SourceOf /\ CoverOf' = CoverOf /\ Degraded' = Degraded
      /\ IsRepaint' = IsRepaint /\ NeedsSource' = NeedsSource /\ RoundTrips' = RoundTrips
  BY <1>1, AskedSame
<1>3. StageAt' /\ OrderAt' /\ WaveAt'
  BY <1>1, Phase1Frame DEF AfterPad
<1>4. /\ ask \in Asks /\ (NeedsSource => ask.src # "none") /\ pad = PadOf /\ source = SourceOf
      /\ RoundTrips /\ cover = CoverOf /\ clean = CoverOf
  BY <1>1 DEF ShapeInv, SourceAt, CoverAt, AfterPad, AfterEncode
<1>5. SourceAt'
  BY <1>1, <1>2, <1>4 DEF SourceAt
<1>6. cover' = CoverOf \/ cover' = Degraded
  BY <1>4, Zenon DEF Fsq, Degraded
<1>7. CoverAt'
  BY <1>1, <1>2, <1>4, <1>6 DEF CoverAt
<1>8. ~IsRepaint
  BY <1>4, RepaintHas
<1>9. RegionAt' /\ CanvasAt'
  BY <1>1, <1>2, <1>8 DEF RegionAt, CanvasAt, AfterLength
<1>10. ContextAt'
  BY <1>1, NotYet, EmptyContext
<1> QED
  BY <1>3, <1>5, <1>7, <1>9, <1>10, Zenon DEF ShapeInv

LEMMA AdjustShape ==
  ASSUME ShapeInv, AdjustRegion, pc = "dit", UNCHANGED vars
  PROVE  ShapeInv'
<1>1. /\ stage = "region" /\ ask' = ask /\ pad' = pad /\ source' = source /\ cover' = cover
      /\ clean' = clean /\ canvas' = canvas /\ context' = context /\ blend' = blend
      /\ wave' = wave /\ stage' \in {"failed", "params"}
  BY DEF AdjustRegion, Fails
<1>2. /\ PadOf' = PadOf /\ SourceOf' = SourceOf /\ CoverOf' = CoverOf /\ Degraded' = Degraded
      /\ IsRepaint' = IsRepaint /\ NeedsSource' = NeedsSource /\ RoundTrips' = RoundTrips
      /\ AskedFrom' = AskedFrom /\ AskedTo' = AskedTo
  BY <1>1, AskedSame
<1>3. StageAt' /\ OrderAt' /\ WaveAt'
  BY <1>1, Phase1Frame DEF AfterPad
<1>4. /\ ask \in Asks /\ (NeedsSource => ask.src # "none") /\ pad = PadOf /\ source = SourceOf
      /\ (cover = CoverOf \/ (RoundTrips /\ cover = Degraded))
      /\ clean = IF RoundTrips THEN CoverOf ELSE <<>>
  BY <1>1 DEF ShapeInv, SourceAt, CoverAt, AfterPad, AfterEncode
<1>5. SourceAt'
  BY <1>1, <1>2, <1>4 DEF SourceAt
<1>6. CoverAt'
  BY <1>1, <1>2, <1>4, Zenon DEF CoverAt
<1>7. RegionAt'
  <2>1. ASSUME stage' = "params", IsRepaint
        PROVE  region' = <<AskedFrom + PadOf, AskedTo + PadOf>> /\ region'[1] < region'[2]
    <3>1. HaveRegion
      BY <1>4, <2>1, RepaintHas
    <3>2. ~(Adjusted[2] <= Adjusted[1]) /\ region' = Adjusted
      BY <2>1, <3>1 DEF AdjustRegion, Fails
    <3>3. PadOf \in Nat /\ SourceLength \in Nat /\ ask.start \in Int /\ ask.end \in Int
      BY <1>4, AskType, PadsAreNat DEF PadOf
    <3>4. Adjusted = <<AskedFrom + PadOf, AskedTo + PadOf>>
      BY <1>4, <3>3 DEF Adjusted, AskedFrom, AskedTo
    <3>5. AskedFrom + PadOf \in Int /\ AskedTo + PadOf \in Int
      BY <3>3 DEF AskedFrom, AskedTo
    <3> DEFINE x == AskedFrom + PadOf
               y == AskedTo + PadOf
    <3> HIDE DEF x, y
    <3>6. Adjusted = <<x, y>> /\ x \in Int /\ y \in Int
      BY <3>4, <3>5 DEF x, y
    <3>7. Adjusted[1] = x /\ Adjusted[2] = y
      BY <3>6
    <3> QED
      BY <3>2, <3>6, <3>7 DEF x, y
  <2> QED
    BY <1>1, <1>2, <2>1 DEF RegionAt, AfterRegion
<1>8. CanvasAt'
  BY <1>1 DEF CanvasAt, AfterLength
<1>9. ContextAt'
  BY <1>1, NotYet, EmptyContext
<1> QED
  BY <1>3, <1>5, <1>6, <1>7, <1>8, <1>9, Zenon DEF ShapeInv

\* The FSQ roundtrip changes no length.
LEMMA CoverLength ==
  ASSUME ask \in Asks, NeedsSource => ask.src # "none",
         cover = CoverOf \/ (RoundTrips /\ cover = Degraded)
  PROVE  /\ Len(cover) = Len(CoverOf) /\ Len(CoverOf) \in Nat
         /\ DOMAIN cover = 1 .. Len(CoverOf)
         /\ HaveCover => Len(CoverOf) \in Nat \ {0}
         /\ ~HaveCover => Len(CoverOf) = 0
<1> DEFINE n == Len(CoverOf)
<1>1. n \in Nat /\ DOMAIN CoverOf = 1 .. n
  BY CoverPlain
<1>2. Len(cover) = n /\ DOMAIN cover = 1 .. n
  <2>1. CASE cover = CoverOf
    BY <1>1, <2>1
  <2>2. CASE cover = Degraded
    <3>1. Degraded = [j \in 1 .. n |-> [CoverOf[j] EXCEPT !.kind = "fsq"]]
      BY <1>1 DEF Degraded
    <3> HIDE DEF n
    <3>2. cover = [j \in 1 .. n |-> [CoverOf[j] EXCEPT !.kind = "fsq"]]
      BY <2>2, <3>1
    <3> QED
      BY <1>1, <3>2
  <2> QED
    BY <2>1, <2>2
<1>3. ~HaveCover => n = 0
  <2> HIDE DEF n
  <2>1. cover = <<>> => Len(cover) = 0
    OBVIOUS
  <2> QED
    BY <1>2, <2>1 DEF HaveCover
<1>4. HaveCover => n # 0
  <2>1. ASSUME n = 0 PROVE cover = <<>>
    <3>1. DOMAIN cover = {}
      <4> HIDE DEF n
      <4> QED
        BY <1>2, <2>1
    <3>2. CASE cover = CoverOf
      <4>1. CoverOf = [j \in 1 .. n |-> CoverOf[j]]
        <5>1. CASE ask.src = "audio"
          <6>1. CoverOf = [j \in 1 .. Len(SourceOf) \div SamplesPerFrame |->
                              VaeFrame(SourceOf, (j - 1) * SamplesPerFrame)]
            BY <5>1 DEF CoverOf
          <6>2. DOMAIN CoverOf = 1 .. Len(SourceOf) \div SamplesPerFrame
            BY <6>1
          <6>3. CoverOf = [j \in DOMAIN CoverOf |-> CoverOf[j]]
            BY <6>1, Zenon
          <6> QED
            BY <1>1, <6>3
        <5>2. CASE ask.src # "audio" /\ NeedsSource
          <6>1. CoverOf \in Seq(Plains(Int))
            BY <5>2, AskType, LatentsPlaced DEF CoverOf
          <6> QED
            BY <6>1
        <5>3. CASE ask.src # "audio" /\ ~NeedsSource
          <6>1. CoverOf = <<>>
            BY <5>3 DEF CoverOf, SourceOf
          <6> QED
            BY <6>1
        <5> QED
          BY <5>1, <5>2, <5>3
      <4> QED
        BY <2>1, <3>2, <4>1
    <3>3. CASE cover = Degraded
      <4>1. cover = [j \in 1 .. 0 |-> [CoverOf[j] EXCEPT !.kind = "fsq"]]
        BY <1>1, <2>1, <3>3 DEF Degraded
      <4> QED
        BY <4>1
    <3> QED
      BY <3>2, <3>3
  <2> QED
    BY <2>1 DEF HaveCover
<1> QED
  BY <1>1, <1>2, <1>3, <1>4

\* Every track has a request, and that request its codes.
LEMMA CodesAreInt ==
  ASSUME ask \in Asks, Asked, OrderAt, pc = "dit"
  PROVE  Total \in Nat /\ \A b \in 1 .. Total : Codes(b) \in Int
<1>1. sizes \in Seq(Int) /\ sizes # <<>> /\ Len(sizes) <= MaxRequests /\ batch = Expand(sizes)
  BY DEF Asked, OrderAt
<1>2. /\ Len(batch) = Total
      /\ \A k \in 1 .. Total : batch[k] \in (1 .. Len(sizes)) \X Nat
  BY <1>1, Expansion DEF Placed, Total
<1>3. Total \in Nat
  BY <1>1, TotalRange, LimitAssumption DEF Total
<1>4. ASSUME NEW b \in 1 .. Total PROVE Codes(b) \in Int
  <2>1. batch[b] \in (1 .. Len(sizes)) \X Nat
    BY <1>2
  <2>2. batch[b][1] \in 1 .. Len(sizes)
    BY <2>1
  <2>3. Len(sizes) \in Nat /\ MaxRequests \in Nat
    BY <1>1, SizesAssumption
  <2>4. batch[b][1] \in 1 .. MaxRequests
    BY <1>1, <2>2, <2>3
  <2>5. ask.codes \in [1 .. MaxRequests -> Int]
    BY AskType
  <2> QED
    BY <2>4, <2>5 DEF Codes
<1> QED
  BY <1>3, <1>4

LEMMA LongestIsNat ==
  ASSUME ask \in Asks, Asked, OrderAt, pc = "dit"
  PROVE  LongestCodes \in Nat
<1>1. Total \in Nat /\ \A b \in 1 .. Total : Codes(b) \in Int
  BY CodesAreInt
<1> DEFINE f == [b \in 1 .. Total |-> Codes(b)]
<1>2. f \in [1 .. Total -> Int]
  BY <1>1
<1>3. {f[b] : b \in 1 .. Total} = {Codes(b) : b \in 1 .. Total}
  <2>1. \A b \in 1 .. Total : f[b] = Codes(b)
    OBVIOUS
  <2> HIDE DEF f
  <2> QED
    BY <2>1
<1> HIDE DEF f
<1>4. Max({0} \cup {f[b] : b \in 1 .. Total}) \in Nat
  BY <1>1, <1>2, MaxIsNat
<1> QED
  BY <1>3, <1>4 DEF LongestCodes

LEMMA ResolveShape ==
  ASSUME ShapeInv, BInv, ResolveT, pc = "dit", UNCHANGED vars
  PROVE  ShapeInv'
<1>1. /\ stage = "params" /\ ask' = ask /\ pad' = pad /\ source' = source /\ cover' = cover
      /\ clean' = clean /\ region' = region /\ context' = context /\ blend' = blend
      /\ wave' = wave /\ stage' \in {"failed", "text"}
  BY DEF ResolveT, Fails
<1>2. /\ PadOf' = PadOf /\ SourceOf' = SourceOf /\ CoverOf' = CoverOf /\ Degraded' = Degraded
      /\ IsRepaint' = IsRepaint /\ NeedsSource' = NeedsSource /\ RoundTrips' = RoundTrips
      /\ AskedFrom' = AskedFrom /\ AskedTo' = AskedTo
  BY <1>1, AskedSame
<1>3. StageAt' /\ OrderAt' /\ WaveAt'
  BY <1>1, Phase1Frame DEF AfterPad
<1>4. /\ ask \in Asks /\ (NeedsSource => ask.src # "none") /\ pad = PadOf /\ source = SourceOf
      /\ (cover = CoverOf \/ (RoundTrips /\ cover = Degraded))
      /\ clean = IF RoundTrips THEN CoverOf ELSE <<>>
  BY <1>1 DEF ShapeInv, SourceAt, CoverAt, AfterPad, AfterEncode
<1>5. SourceAt'
  BY <1>1, <1>2, <1>4 DEF SourceAt
<1>6. CoverAt'
  BY <1>1, <1>2, <1>4, Zenon DEF CoverAt
<1>7. RegionAt'
  <2>1. IsRepaint => region = <<AskedFrom + PadOf, AskedTo + PadOf>> /\ region[1] < region[2]
    BY <1>1 DEF ShapeInv, RegionAt, AfterRegion
  <2> QED
    BY <1>1, <1>2, <2>1, Zenon DEF RegionAt
<1>8. CanvasAt'
  <2>1. ASSUME stage' = "text" PROVE canvas'.T \in 0 .. MaxT /\ Len(CoverOf) <= canvas'.T
    <3> DEFINE have == LongestCodes > 0
               frames == IF UseSourceContext /\ HaveCover THEN Len(cover)
                         ELSE IF have THEN LongestCodes * CodeFrames
                         ELSE (IF ask.dur > 0 THEN ask.dur ELSE DefaultDur) \div SamplesPerFrame
               T == ((frames + Patch - 1) \div Patch) * Patch
    <3>1. canvas'.T = T /\ ~(T > MaxT)
      BY <2>1 DEF ResolveT, Fails
    <3>2. /\ Patch \in Nat \ {0} /\ MaxT \in Nat /\ CodeFrames \in Nat /\ DefaultDur \in Nat
          /\ SamplesPerFrame \in Nat \ {0} /\ ask.dur \in Int
      BY <1>4, ShapeAssumption, TilingAssumption, AskType
    <3>3. LongestCodes \in Nat
      BY <1>4, LongestIsNat DEF ShapeInv, BInv
    <3>4. /\ Len(cover) = Len(CoverOf) /\ Len(CoverOf) \in Nat
          /\ ~HaveCover => Len(CoverOf) = 0
      BY <1>4, CoverLength
    <3>5. ~NeedsSource => Len(CoverOf) = 0
      BY NoCover
    <3>6. frames \in Nat /\ Len(CoverOf) <= frames
      <4>1. CASE UseSourceContext /\ HaveCover
        BY <3>4, <4>1
      <4>2. CASE ~(UseSourceContext /\ HaveCover)
        <5>1. Len(CoverOf) = 0
          BY <3>4, <3>5, <4>2 DEF UseSourceContext
        <5>2. LongestCodes * CodeFrames \in Nat
          BY <3>2, <3>3
        <5> DEFINE dur == IF ask.dur > 0 THEN ask.dur ELSE DefaultDur
        <5>3. dur \in Nat
          BY <3>2
        <5> HIDE DEF dur
        <5>4. dur \div SamplesPerFrame \in Nat
          BY <3>2, <5>3
        <5>5. frames = IF have THEN LongestCodes * CodeFrames ELSE dur \div SamplesPerFrame
          BY <4>2 DEF dur
        <5> HIDE DEF frames, have
        <5> QED
          BY <5>1, <5>2, <5>4, <5>5
      <4> QED
        BY <4>1, <4>2
    <3> HIDE DEF frames
    <3>7. T \in Int /\ frames <= T
      <4> DEFINE q == (frames + Patch - 1) \div Patch
      <4>1. q \in Int /\ frames + Patch - 1 < Patch * q + Patch
        <5>1. frames + Patch - 1 \in Int
          BY <3>2, <3>6
        <5> QED
          BY <3>2, <5>1, DivRange
      <4> HIDE DEF q
      <4>2. q * Patch \in Int /\ q * Patch = Patch * q
        BY <3>2, <4>1
      <4>3. frames <= q * Patch
        BY <3>2, <3>6, <4>1, <4>2
      <4> QED
        BY <4>2, <4>3 DEF q
    <3> HIDE DEF T
    <3> QED
      BY <3>1, <3>2, <3>4, <3>6, <3>7
  <2> QED
    BY <1>1, <1>2, <2>1 DEF CanvasAt, AfterLength
<1>9. ContextAt'
  BY <1>1, NotYet, EmptyContext
<1> QED
  BY <1>3, <1>5, <1>6, <1>7, <1>8, <1>9, Zenon DEF ShapeInv

\* An op that only conditions the DiT.
LEMMA LateShape ==
  ASSUME ShapeInv, pc = "dit", UNCHANGED vars,
         stage \in {"text", "context", "noise", "dit"}, stage' \in {"context", "noise", "dit", "failed"},
         ask' = ask, pad' = pad, source' = source, cover' = cover, clean' = clean,
         region' = region, canvas' = canvas, wave' = wave, ContextAt'
  PROVE  ShapeInv'
<1>1. /\ PadOf' = PadOf /\ SourceOf' = SourceOf /\ CoverOf' = CoverOf /\ Degraded' = Degraded
      /\ IsRepaint' = IsRepaint /\ NeedsSource' = NeedsSource /\ RoundTrips' = RoundTrips
      /\ AskedFrom' = AskedFrom /\ AskedTo' = AskedTo
  BY AskedSame
<1>2. StageAt' /\ OrderAt' /\ WaveAt'
  BY Phase1Frame DEF AfterPad
<1>3. /\ ask \in Asks /\ (NeedsSource => ask.src # "none") /\ pad = PadOf /\ source = SourceOf
      /\ (cover = CoverOf \/ (RoundTrips /\ cover = Degraded))
      /\ clean = IF RoundTrips THEN CoverOf ELSE <<>>
  BY DEF ShapeInv, SourceAt, CoverAt, AfterPad, AfterEncode
<1>4. SourceAt'
  BY <1>1, <1>3 DEF SourceAt
<1>5. stage' # "fsq" /\ stage' # "done"
  OBVIOUS
<1>6. CoverAt'
  BY <1>1, <1>3, <1>5, Zenon DEF CoverAt
<1>7. RegionAt'
  <2>1. IsRepaint => region = <<AskedFrom + PadOf, AskedTo + PadOf>> /\ region[1] < region[2]
    BY DEF ShapeInv, RegionAt, AfterRegion
  <2> QED
    BY <1>1, <2>1, Zenon DEF RegionAt
<1>8. CanvasAt'
  <2>1. canvas.T \in 0 .. MaxT /\ Len(CoverOf) <= canvas.T
    BY DEF ShapeInv, CanvasAt, AfterLength
  <2> QED
    BY <1>1, <2>1, Zenon DEF CanvasAt
<1> QED
  BY <1>2, <1>4, <1>6, <1>7, <1>8, Zenon DEF ShapeInv

LEMMA TextShape ==
  ASSUME ShapeInv, EncodeText, pc = "dit", UNCHANGED vars
  PROVE  ShapeInv'
<1>1. /\ stage = "text" /\ stage' \in {"context", "failed"} /\ ask' = ask /\ pad' = pad
      /\ source' = source /\ cover' = cover /\ clean' = clean /\ region' = region
      /\ canvas' = canvas /\ context' = context /\ blend' = blend /\ wave' = wave
  BY DEF EncodeText
<1>2. ContextAt'
  BY <1>1, NotYet, EmptyContext
<1> QED
  BY <1>1, <1>2, LateShape

Heard(src, own) == src # BeyondFrame /\ (src.kind = "code" => src.of[1] = own)

LEMMA CoverHeard ==
  ASSUME ask \in Asks, NeedsSource => ask.src # "none",
         cover = CoverOf \/ (RoundTrips /\ cover = Degraded),
         Len(CoverOf) <= MaxT, NEW i \in 0 .. Len(CoverOf) - 1, NEW own
  PROVE  /\ Heard(At(cover, i), own)
         /\ At(CoverOf, i) # BeyondFrame /\ At(CoverOf, i).kind = "vae"
<1> DEFINE n == Len(CoverOf)
           x == CoverOf[i + 1]
<1>1. /\ n \in Nat /\ DOMAIN CoverOf = 1 .. n /\ DOMAIN cover = 1 .. n
  BY CoverPlain, CoverLength
<1>2. i + 1 \in 1 .. n
  <2> HIDE DEF n
  <2> QED
    BY <1>1
<1>3. x \in Plains(Places)
  BY <1>2, CoverPlain
<1>4. /\ x # BeyondFrame /\ x.kind = "vae"
      /\ [x EXCEPT !.kind = "fsq"] # BeyondFrame /\ [x EXCEPT !.kind = "fsq"].kind = "fsq"
  <2> HIDE DEF x
  <2> QED
    BY <1>3, PlainsHeard, Zenon
<1>5. At(CoverOf, i) = x
  BY <1>1, <1>2, Zenon DEF At
<1>6. At(cover, i) = x \/ At(cover, i) = [x EXCEPT !.kind = "fsq"]
  <2>1. At(cover, i) = cover[i + 1]
    BY <1>1, <1>2, Zenon DEF At
  <2>2. Degraded[i + 1] = [x EXCEPT !.kind = "fsq"]
    BY <1>1, <1>2, Zenon DEF Degraded
  <2> QED
    BY <2>1, <2>2, Zenon
<1> HIDE DEF x, n
<1>7. Heard(At(cover, i), own)
  <2>1. CASE At(cover, i) = x
    <3>1. x.kind # "code"
      BY <1>4
    <3> QED
      BY <1>4, <2>1, <3>1, Zenon DEF Heard
  <2>2. CASE At(cover, i) = [x EXCEPT !.kind = "fsq"]
    <3> DEFINE y == [x EXCEPT !.kind = "fsq"]
    <3>1. y # BeyondFrame /\ y.kind = "fsq"
      BY <1>4, Zenon
    <3> HIDE DEF y
    <3>2. y.kind # "code"
      BY <3>1
    <3> QED
      BY <2>2, <3>1, <3>2, Zenon DEF Heard, y
  <2> QED
    BY <1>6, <2>1, <2>2
<1> QED
  BY <1>4, <1>5, <1>7, Zenon

LEMMA SilenceIsHeard ==
  ASSUME NEW i \in 0 .. MaxT - 1, NEW own
  PROVE  Heard(SilenceAt(i), own)
<1> DEFINE x == SilenceAt(i)
<1>1. x \in Plains(Places)
  BY SilenceHeard
<1> HIDE DEF x
<1>2. x # BeyondFrame /\ x.kind = "vae"
  BY <1>1, PlainsHeard
<1> QED
  BY <1>2 DEF Heard, x

LEMMA ContextShape ==
  ASSUME ShapeInv, BInv, BuildContext, pc = "dit", UNCHANGED vars
  PROVE  ShapeInv'
<1>1. /\ stage = "context" /\ stage' \in {"noise", "failed"} /\ ask' = ask /\ pad' = pad
      /\ source' = source /\ cover' = cover /\ clean' = clean /\ region' = region
      /\ canvas' = canvas /\ blend' = blend /\ wave' = wave
  BY DEF BuildContext, Fails
<1>2. /\ ask \in Asks /\ (NeedsSource => ask.src # "none")
      /\ (cover = CoverOf \/ (RoundTrips /\ cover = Degraded))
      /\ canvas.T \in 0 .. MaxT /\ Len(CoverOf) <= canvas.T
  BY <1>1 DEF ShapeInv, SourceAt, CoverAt, CanvasAt, AfterPad, AfterEncode, AfterLength
<1>3. context = <<>> /\ blend' = <<>> /\ batch' = batch
  BY <1>1, NotYet DEF vars
<1>4. /\ Len(cover) = Len(CoverOf) /\ Len(CoverOf) \in Nat /\ MaxT \in Nat
      /\ CodeFrames \in Nat
  BY <1>2, CoverLength, ShapeAssumption
<1>5. Total \in Nat /\ \A b \in 1 .. Total : Codes(b) \in Int
  BY <1>2, CodesAreInt DEF ShapeInv, BInv
<1>6. ASSUME NEW t \in 0 .. canvas.T - 1, NEW own
      PROVE  Heard(CoverContext(t).src, own)
  <2>1. CoverContext(t).src = IF (IsRepaint /\ InRegion(t)) \/ t >= Len(cover)
                              THEN SilenceAt(t) ELSE At(cover, t)
    BY DEF CoverContext
  <2>2. t \in 0 .. MaxT - 1
    BY <1>2, <1>4
  <2>3. CASE (IsRepaint /\ InRegion(t)) \/ t >= Len(cover)
    BY <2>1, <2>2, <2>3, SilenceIsHeard
  <2>4. CASE ~((IsRepaint /\ InRegion(t)) \/ t >= Len(cover))
    <3>1. CoverContext(t).src = At(cover, t)
      BY <2>1, <2>4, Zenon
    <3>2. ~(t >= Len(CoverOf))
      BY <1>4, <2>4
    <3>3. t \in 0 .. Len(CoverOf) - 1 /\ Len(CoverOf) <= MaxT
      BY <1>2, <1>4, <3>2
    <3>4. Heard(At(cover, t), own)
      BY <1>2, <3>3, CoverHeard
    <3> QED
      BY <3>1, <3>4
  <2> QED
    BY <2>3, <2>4
<1>7. ASSUME NEW b \in 1 .. Total, NEW t \in 0 .. canvas.T - 1
      PROVE  Heard(CodeContext(b, t).src, batch[b][1])
  <2> DEFINE c == Max({0, Codes(b)})
             decoded == Least(c * CodeFrames, canvas.T)
             code == Frame("code", <<batch[b][1], t>>)
  <2>1. CodeContext(b, t).src = IF t < decoded THEN code ELSE SilenceAt(t - decoded)
    BY DEF CodeContext
  <2>2. c \in Nat
    <3> DEFINE x == Codes(b)
    <3>1. x \in Int
      BY <1>5
    <3> HIDE DEF x
    <3>2. Max({0, x}) = IF 0 >= x THEN 0 ELSE x
      BY <3>1, MaxOfTwo
    <3> QED
      BY <3>1, <3>2 DEF x
  <2> HIDE DEF c
  <2>3. c * CodeFrames \in Nat /\ canvas.T \in Nat
    BY <1>2, <1>4, <2>2
  <2>4. decoded \in 0 .. canvas.T
    <3> DEFINE p == c * CodeFrames
    <3>1. p \in Nat
      BY <2>3
    <3> HIDE DEF p
    <3>2. Least(p, canvas.T) \in 0 .. canvas.T
      BY <2>3, <3>1 DEF Least
    <3> QED
      BY <3>2 DEF p
  <2> HIDE DEF decoded
  <2>5. CASE t < decoded
    <3>1. code.kind = "code" /\ code.of[1] = batch[b][1]
      BY DEF Frame
    <3>2. BeyondFrame.kind = "vae"
      BY DEF BeyondFrame, Frame
    <3>3. code # BeyondFrame
      BY <3>1, <3>2
    <3> HIDE DEF code
    <3>4. CodeContext(b, t).src = code
      BY <2>1, <2>5, Zenon
    <3> QED
      BY <3>1, <3>3, <3>4, Zenon DEF Heard
  <2>6. CASE ~(t < decoded)
    <3>1. t - decoded \in 0 .. MaxT - 1
      BY <1>2, <1>4, <2>3, <2>4, <2>6
    <3>2. CodeContext(b, t).src = SilenceAt(t - decoded)
      BY <2>1, <2>6, Zenon
    <3> QED
      BY <3>1, <3>2, SilenceIsHeard
  <2> QED
    BY <2>5, <2>6
<1>8. CASE context' = context /\ stage' = "failed"
  <2>1. ContextAt'
    BY <1>3, <1>8, EmptyContext
  <2> QED
    BY <1>1, <2>1, LateShape
<1>9. CASE context' = [b \in 1 .. Total |-> [j \in 1 .. canvas.T |->
                IF UseSourceContext /\ HaveCover THEN CoverContext(j - 1)
                ELSE CodeContext(b, j - 1)]] /\ stage' = "noise"
  <2>1. DOMAIN context' = 1 .. Total /\ \A b \in 1 .. Total : DOMAIN context'[b] = 1 .. canvas.T
    BY <1>9, Zenon
  <2>2. ASSUME NEW b \in 1 .. Total, NEW j \in 1 .. canvas.T
        PROVE  Heard(context'[b][j].src, batch[b][1])
    <3>1. context'[b][j] = IF UseSourceContext /\ HaveCover THEN CoverContext(j - 1)
                           ELSE CodeContext(b, j - 1)
      BY <1>9, Zenon
    <3>2. j - 1 \in 0 .. canvas.T - 1
      BY <1>2, <1>4
    <3>3. Heard(CoverContext(j - 1).src, batch[b][1])
      BY <1>6, <3>2
    <3>4. Heard(CodeContext(b, j - 1).src, batch[b][1])
      BY <1>7, <3>2
    <3> QED
      BY <3>1, <3>3, <3>4, Zenon
  <2>3. ConditioningFits'
    <3>1. DOMAIN blend' = {}
      BY <1>3
    <3> QED
      BY <1>3, <2>1, <2>2, <3>1, Zenon DEF ConditioningFits, Heard
  <2>4. ContextAt'
    BY <1>3, <1>9, <2>3 DEF ContextAt
  <2> QED
    BY <1>1, <2>4, LateShape
<1> QED
  BY <1>8, <1>9, Zenon DEF BuildContext, Fails

LEMMA NoiseShape ==
  ASSUME ShapeInv, InitNoise, pc = "dit", UNCHANGED vars
  PROVE  ShapeInv'
<1>1. /\ stage = "noise" /\ stage' = "dit" /\ ask' = ask /\ pad' = pad
      /\ source' = source /\ cover' = cover /\ clean' = clean /\ region' = region
      /\ canvas' = canvas /\ context' = context /\ wave' = wave
  BY DEF InitNoise
<1>2. /\ ask \in Asks /\ (NeedsSource => ask.src # "none")
      /\ (cover = CoverOf \/ (RoundTrips /\ cover = Degraded))
      /\ clean = (IF RoundTrips THEN CoverOf ELSE <<>>)
      /\ canvas.T \in 0 .. MaxT /\ Len(CoverOf) <= canvas.T
  BY <1>1 DEF ShapeInv, SourceAt, CoverAt, CanvasAt, AfterPad, AfterEncode, AfterLength
<1>3. /\ batch' = batch /\ ConditioningFits
  BY DEF vars, ShapeInv, ContextAt
<1>4. /\ Len(cover) = Len(CoverOf) /\ Len(CoverOf) \in Nat /\ MaxT \in Nat
      /\ (HaveCover => Len(CoverOf) \in Nat \ {0})
  BY <1>2, CoverLength, ShapeAssumption
<1>5. \A j \in DOMAIN blend' : blend'[j].kind = "vae" /\ blend'[j] # BeyondFrame
  <2>1. CASE ~(UseSourceContext /\ HaveCover /\ ask.noise)
    <3>1. blend' = <<>>
      BY <2>1, Zenon DEF InitNoise
    <3>2. DOMAIN blend' = {}
      BY <3>1
    <3> QED
      BY <3>2
  <2>2. CASE UseSourceContext /\ HaveCover /\ ask.noise
    <3> DEFINE from == IF clean # <<>> THEN clean ELSE cover
               last == Len(cover) - 1
    <3>1. blend' = [j \in 1 .. canvas.T |-> At(from, Least(j - 1, last))]
      BY <2>2, Zenon DEF InitNoise
    <3>2. from = CoverOf
      <4>1. CASE RoundTrips /\ CoverOf # <<>>
        BY <1>2, <4>1, Zenon
      <4>2. CASE ~RoundTrips
        BY <1>2, <4>2
      <4>3. CASE CoverOf = <<>>
        <5>1. Len(CoverOf) = 0
          BY <4>3
        <5> QED
          BY <1>4, <2>2, <5>1
      <4> QED
        BY <4>1, <4>2, <4>3
    <3>3. ASSUME NEW j \in 1 .. canvas.T
          PROVE  blend'[j].kind = "vae" /\ blend'[j] # BeyondFrame
      <4> DEFINE i == Least(j - 1, last)
      <4>1. i \in 0 .. Len(CoverOf) - 1 /\ Len(CoverOf) <= MaxT
        BY <1>2, <1>4, <2>2 DEF Least
      <4>2. At(CoverOf, i) # BeyondFrame /\ At(CoverOf, i).kind = "vae"
        <5> HIDE DEF i
        <5> QED
          BY <1>2, <4>1, CoverHeard, Zenon
      <4>3. blend'[j] = At(from, i)
        BY <3>1, Zenon
      <4> HIDE DEF i, from
      <4> QED
        BY <3>2, <4>2, <4>3, Zenon
    <3>4. DOMAIN blend' = 1 .. canvas.T
      BY <3>1, Zenon
    <3> QED
      BY <3>3, <3>4, Zenon
  <2> QED
    BY <2>1, <2>2
<1>6. ConditioningFits'
  BY <1>1, <1>3, <1>5, Zenon DEF ConditioningFits
<1>7. ContextAt'
  BY <1>1, <1>6 DEF ContextAt
<1> QED
  BY <1>1, <1>7, LateShape

LEMMA DitStepShape ==
  ASSUME ShapeInv, DitStep, pc = "dit", UNCHANGED vars
  PROVE  ShapeInv'
<1>1. UNCHANGED shapeVars
  BY Zenon DEF DitStep
<1>2. UNCHANGED vars
  OBVIOUS
<1> QED
  BY <1>1, WorkerShape

LEMMA DitEndsShape ==
  ASSUME ShapeInv, DitEnds, pc = "dit", UNCHANGED vars
  PROVE  ShapeInv'
<1>1. /\ stage = "dit" /\ stage' \in {"done", "failed"} /\ ask' = ask /\ pad' = pad
      /\ region' = region /\ canvas' = canvas /\ wave' = wave
      /\ clean' = <<>> /\ context' = <<>> /\ blend' = <<>>
      /\ cover' = (IF HaveRegion THEN cover ELSE <<>>)
      /\ source' = (IF HaveRegion /\ ask.src = "audio" THEN source ELSE <<>>)
  BY DEF DitEnds
<1>2. /\ PadOf' = PadOf /\ SourceOf' = SourceOf /\ CoverOf' = CoverOf /\ Degraded' = Degraded
      /\ IsRepaint' = IsRepaint /\ NeedsSource' = NeedsSource /\ RoundTrips' = RoundTrips
      /\ AskedFrom' = AskedFrom /\ AskedTo' = AskedTo
  BY <1>1, AskedSame
<1>3. StageAt' /\ OrderAt' /\ WaveAt'
  BY <1>1, Phase1Frame
<1>4. /\ ask \in Asks /\ (NeedsSource => ask.src # "none") /\ pad = PadOf /\ source = SourceOf
      /\ (cover = CoverOf \/ (RoundTrips /\ cover = Degraded))
  BY <1>1 DEF ShapeInv, SourceAt, CoverAt, AfterPad, AfterEncode
<1>5. IsRepaint => HaveRegion /\ ~RoundTrips
  BY <1>4, RepaintHas
<1>6. SourceAt'
  BY <1>1, <1>2, <1>4, <1>5 DEF SourceAt, AfterPad
<1>7. CoverAt'
  BY <1>1, <1>2, <1>4, <1>5 DEF CoverAt, AfterEncode
<1>8. RegionAt'
  <2>1. IsRepaint => region = <<AskedFrom + PadOf, AskedTo + PadOf>> /\ region[1] < region[2]
    BY <1>1 DEF ShapeInv, RegionAt, AfterRegion
  <2> QED
    BY <1>1, <1>2, <2>1, Zenon DEF RegionAt
<1>9. CanvasAt'
  <2>1. canvas.T \in 0 .. MaxT /\ Len(CoverOf) <= canvas.T
    BY <1>1 DEF ShapeInv, CanvasAt, AfterLength
  <2> QED
    BY <1>1, <1>2, <2>1, Zenon DEF CanvasAt
<1>10. ContextAt'
  BY <1>1, EmptyContext
<1> QED
  BY <1>3, <1>6, <1>7, <1>8, <1>9, <1>10, Zenon DEF ShapeInv

LEMMA ShapeStep == BInv /\ ShapeInv /\ [JobNext]_jobVars => ShapeInv'
<1> SUFFICES ASSUME BInv, ShapeInv, [JobNext]_jobVars PROVE ShapeInv'
  OBVIOUS
<1>1. ASSUME pc = "dit", UNCHANGED vars,
             Pad \/ EncodeSource \/ Fsq \/ AdjustRegion \/ ResolveT \/ EncodeText \/ BuildContext
      PROVE  ShapeInv'
  BY <1>1, PadShape, EncodeShape, FsqShape, AdjustShape, ResolveShape, TextShape, ContextShape, Zenon
<1>2. ASSUME pc = "dit", UNCHANGED vars, InitNoise \/ DitStep \/ DitEnds
      PROVE  ShapeInv'
  BY <1>2, NoiseShape, DitStepShape, DitEndsShape, Zenon
<1> QED
  BY <1>1, <1>2, Phase1Shape, DecodeShape, WorkerShape, JobSteps, Zenon

\* No frame of the context or of the noise comes from beyond a buffer, codes are
\* the track's own request's, and the noise hears the clean source, whatever is
\* asked for and however long it is (pipeline-synth-ops.cpp:620-852).
THEOREM ConditioningIsWhole == JobSpec => []ConditioningFits
<1>1. JobInit => BInv /\ ShapeInv
  BY BatchInit, ShapeInit0 DEF JobInit
<1>2. BInv /\ ShapeInv /\ [JobNext]_jobVars => (BInv /\ ShapeInv)'
  BY BatchStep, StepIsBatchStep, ShapeStep
<1>3. ShapeInv => ConditioningFits
  BY DEF ShapeInv, ContextAt
<1> QED
  BY <1>1, <1>2, <1>3, PTL DEF JobSpec

-----------------------------------------------------------------------------
(* The region of a repaint.                                                  *)

\* Rounding the pad to frames moves the source by half a frame at most.
LEMMA PadRounds ==
  ASSUME NEW n \in Nat
  PROVE  /\ Frames(n) * SamplesPerFrame \in Int
         /\ 2 * (Frames(n) * SamplesPerFrame - n) <= SamplesPerFrame
         /\ Frames(n) * SamplesPerFrame - n <= SamplesPerFrame \div 2
         /\ 2 * (Frames(n) * SamplesPerFrame - n) > -SamplesPerFrame
         /\ n = 0 => Frames(n) * SamplesPerFrame = 0
<1> DEFINE S == SamplesPerFrame
           q == Frames(n)
           x == q * S
<1>1. S \in Nat \ {0}
  BY TilingAssumption
<1>2. q \in Int /\ (2 * S) * q <= 2 * n + S /\ 2 * n + S < (2 * S) * q + 2 * S
  <2>1. q = (2 * n + S) \div (2 * S)
    BY DEF Frames
  <2> HIDE DEF S, q
  <2>2. 2 * n + S \in Int /\ 2 * S \in Nat \ {0}
    BY <1>1
  <2> DEFINE u == 2 * n + S
             d == 2 * S
  <2>3. u \in Int /\ d \in Nat \ {0} /\ q = u \div d
    BY <2>1, <2>2
  <2> HIDE DEF u, d
  <2>4. q \in Int /\ d * q <= u /\ u < d * q + d
    BY <2>3, DivRange
  <2> QED
    BY <2>4 DEF u, d
<1> HIDE DEF S, q
<1>3. x \in Int /\ (2 * S) * q = 2 * x
  BY <1>1, <1>2
<1> HIDE DEF x
<1>4. 2 * x <= 2 * n + S /\ 2 * n + S < 2 * x + 2 * S
  BY <1>2, <1>3
<1>5. 2 * (x - n) <= S /\ 2 * (x - n) > -S
  BY <1>1, <1>3, <1>4
<1>6. x - n <= S \div 2
  BY <1>1, <1>3, <1>5
<1>7. n = 0 => x = 0
  <2>1. SUFFICES ASSUME n = 0 PROVE q = 0
    BY <1>1 DEF x
  <2>2. (2 * S) * q <= S /\ S < (2 * S) * q + 2 * S
    BY <1>1, <1>2, <2>1
  <2>3. q < 1
    <3>1. SUFFICES ASSUME q >= 1 PROVE FALSE
      BY <1>2
    <3>2. 1 * (2 * S) <= q * (2 * S)
      <4> DEFINE d == 2 * S
      <4>1. d \in Nat
        BY <1>1
      <4> HIDE DEF d
      <4>2. 1 * d <= q * d
        BY <1>2, <3>1, <4>1, TimesMono
      <4> QED
        BY <4>2 DEF d
    <3> QED
      BY <1>1, <1>2, <2>2, <3>2
  <2>4. q > -1
    <3>1. SUFFICES ASSUME q <= -1 PROVE FALSE
      BY <1>2
    <3>2. q * (2 * S) <= (-1) * (2 * S)
      <4> DEFINE d == 2 * S
      <4>1. d \in Nat
        BY <1>1
      <4> HIDE DEF d
      <4>2. q * d <= (-1) * d
        BY <1>2, <3>1, <4>1, TimesMono
      <4> QED
        BY <4>2 DEF d
    <3> QED
      BY <1>1, <1>2, <2>2, <3>2
  <2> QED
    BY <1>2, <2>3, <2>4
<1> QED
  BY <1>3, <1>5, <1>6, <1>7 DEF x, q, S

\* What a repaint is decoded from.
LEMMA RepaintAt ==
  ASSUME ShapeInv, IsRepaint, wave # <<>>
  PROVE  /\ ask \in Asks /\ HaveRegion /\ NeedsSource /\ ask.src \in {"audio", "latents"}
         /\ pad = PadOf /\ PadOf = LeftPad /\ cover = CoverOf
         /\ source = (IF ask.src = "audio" THEN SourceOf ELSE <<>>)
         /\ region = <<AskedFrom + PadOf, AskedTo + PadOf>>
         /\ canvas.T \in 0 .. MaxT /\ Len(CoverOf) <= canvas.T
         /\ wave = DecodedWave(Straight(canvas.T))
<1>1. stage = "done" /\ wave = DecodedWave(Straight(canvas.T))
  BY Zenon DEF ShapeInv, WaveAt
<1>2. ask \in Asks
  BY DEF ShapeInv, SourceAt
<1>3. HaveRegion /\ NeedsSource
  BY <1>2, RepaintHas
<1>4. pad = PadOf /\ source = (IF ask.src = "audio" THEN SourceOf ELSE <<>>)
  BY <1>1, Zenon DEF ShapeInv, SourceAt
<1>5. ask.src # "none"
  BY <1>1, <1>3 DEF ShapeInv, SourceAt
<1>6. ask.src \in {"audio", "latents"}
  BY <1>2, <1>5, AsksAssumption
<1>7. cover = CoverOf
  BY <1>1 DEF ShapeInv, CoverAt
<1>8. region = <<AskedFrom + PadOf, AskedTo + PadOf>>
  BY <1>1 DEF ShapeInv, RegionAt, AfterRegion
<1>9. canvas.T \in 0 .. MaxT /\ Len(CoverOf) <= canvas.T
  BY <1>1 DEF ShapeInv, CanvasAt, AfterLength
<1>10. PadOf = LeftPad
  BY <1>3 DEF PadOf
<1> QED
  BY <1>1, <1>2, <1>3, <1>4, <1>6, <1>7, <1>8, <1>9, <1>10

\* The region asked for is one of integers.
LEMMA AskedIsInt ==
  ASSUME ask \in Asks
  PROVE  AskedFrom \in Int /\ AskedTo \in Int
<1>1. ask.start \in Int /\ ask.end \in Int
  BY AskType
<1>2. SourceLength \in Int
  BY PadsAreNat
<1>3. AskedTo \in {ask.end, 0, SourceLength}
  BY Zenon DEF AskedTo
<1>4. AskedTo \in Int
  <2>1. 0 \in Int
    OBVIOUS
  <2> QED
    BY <1>1, <1>2, <1>3, <2>1, Zenon
<1> QED
  BY <1>1, <1>4, Zenon DEF AskedFrom

\* Sample p of a track is sample k of frame t.
LEMMA WaveRead ==
  ASSUME NEW T \in Nat, NEW p \in 0 .. T * SamplesPerFrame - 1,
         NEW t, t = p \div SamplesPerFrame, NEW k, k = p % SamplesPerFrame
  PROVE  /\ t \in 0 .. T - 1 /\ k \in 0 .. SamplesPerFrame - 1
         /\ t * SamplesPerFrame \in Int /\ p = t * SamplesPerFrame + k
         /\ DecodedWave(Straight(T))[p + 1] =
               IF FromSource(p + 1) THEN source[p + 1] ELSE SplicedLatent(t).of[k + 1]
         /\ Len(DecodedWave(Straight(T))) = T * SamplesPerFrame
<1> DEFINE S == SamplesPerFrame
           n == T * S
           st == Straight(T)
<1>1. S \in Nat \ {0} /\ n \in Nat
  BY TilingAssumption
<1>2. t \in Int /\ S * t <= p /\ p < S * t + S /\ k = p - S * t /\ k \in 0 .. S - 1
  <2>1. p \in Int
    OBVIOUS
  <2> HIDE DEF S
  <2>2. p \div S \in Int /\ S * (p \div S) <= p /\ p < S * (p \div S) + S
    BY <1>1, <2>1, DivRange
  <2>3. p % S = p - S * (p \div S) /\ p % S \in 0 .. S - 1
    BY <1>1, <2>1, ModRange
  <2>4. t = p \div S /\ k = p % S
    BY DEF S
  <2> QED
    BY <2>2, <2>3, <2>4
<1>3. S * t = t * S /\ t * S \in Int
  BY <1>1, <1>2
<1>4. t \in 0 .. T - 1
  <2>1. t * S < T * S
    BY <1>1, <1>2, <1>3
  <2> HIDE DEF S
  <2>2. t < T
    BY <1>1, <1>2, <2>1, TimesLess
  <2>3. t >= 0
    <3>1. SUFFICES ASSUME t + 1 <= 0 PROVE FALSE
      BY <1>2
    <3>2. (t + 1) * S <= 0 * S
      BY <1>1, <1>2, <3>1, TimesMono
    <3>3. (t + 1) * S = t * S + S /\ 0 * S = 0
      BY <1>1, <1>2
    <3>4. p >= 0 /\ p \in Int
      OBVIOUS
    <3> QED
      BY <1>1, <1>2, <1>3, <3>2, <3>3, <3>4
  <2> QED
    BY <1>2, <2>2, <2>3
<1>5. Len(st) = T /\ st[t + 1] = t
  <2>1. t + 1 \in 1 .. T
    BY <1>4
  <2> QED
    BY <2>1 DEF Straight
<1> DEFINE g == [i \in 1 .. n |->
                   IF FromSource(i) THEN source[i]
                   ELSE SplicedLatent(st[(i - 1) \div S + 1]).of[((i - 1) % S) + 1]]
<1>6. DecodedWave(st) = g
  BY <1>5 DEF DecodedWave
<1>7. p + 1 \in 1 .. n /\ p + 1 - 1 = p
  BY <1>1
<1>8. g[p + 1] = IF FromSource(p + 1) THEN source[p + 1] ELSE SplicedLatent(st[t + 1]).of[k + 1]
  <2> HIDE DEF st, n
  <2>1. t = (p + 1 - 1) \div S /\ k = (p + 1 - 1) % S
    BY <1>7
  <2> HIDE DEF S
  <2> QED
    BY <1>7, <2>1
<1>9. Len(g) = n
  <2> HIDE DEF n, st, S
  <2> QED
    BY <1>1
<1>10. p = t * S + k
  <2>1. p \in Int /\ k \in Int
    BY <1>2
  <2> DEFINE x == S * t
  <2>2. x \in Int /\ k = p - x
    BY <1>1, <1>2
  <2>3. p = x + k
    <3> HIDE DEF x
    <3> QED
      BY <2>1, <2>2
  <2> QED
    BY <1>3, <2>3
<1>11. DecodedWave(Straight(T)) = g /\ SamplesPerFrame = S /\ n = T * S
  BY <1>6
<1> HIDE DEF g, st, n, S
<1> QED
  BY <1>2, <1>3, <1>4, <1>5, <1>8, <1>9, <1>10, <1>11

\* Sample p of a repaint comes from the DiT in the region and from the source
\* outside of it: a frame of the region begins before its end and ends after
\* its beginning, a frame outside begins before it, or less than a frame before
\* its end.
LEMMA RepaintRead ==
  ASSUME ShapeInv, IsRepaint, wave # <<>>,
         NEW p \in 0 .. Least(Len(wave), SourceEnd) - 1,
         Len(wave) = canvas.T * SamplesPerFrame, SourceEnd \in Nat
  PROVE  /\ p \in Int /\ p >= 0 /\ Offset \in Int
         /\ \/ /\ wave[p + 1] = Generated
               /\ p + SamplesPerFrame > AskedFrom + PadOf /\ p < AskedTo + PadOf
            \/ /\ wave[p + 1] = Original(p - Offset)
               /\ p < AskedFrom + PadOf \/ p + SamplesPerFrame > AskedTo + PadOf
<1> DEFINE S == SamplesPerFrame
           T == canvas.T
           t == p \div S
           k == p % S
           r0 == RegionFrames[1]
           r1 == RegionFrames[2]
           a == AskedFrom + PadOf
           b == AskedTo + PadOf
           w == DecodedWave(Straight(T))
<1>1. /\ ask \in Asks /\ HaveRegion /\ NeedsSource /\ ask.src \in {"audio", "latents"}
      /\ pad = PadOf /\ PadOf = LeftPad /\ cover = CoverOf
      /\ source = (IF ask.src = "audio" THEN SourceOf ELSE <<>>)
      /\ region = <<a, b>> /\ T \in 0 .. MaxT /\ Len(CoverOf) <= T /\ wave = w
  BY RepaintAt
<1>2. S \in Nat \ {0} /\ T \in Nat /\ MaxT \in Nat
  BY <1>1, TilingAssumption, ShapeAssumption
<1>3. a \in Int /\ b \in Int /\ PadOf \in Nat
  <2>1. AskedFrom \in Int /\ AskedTo \in Int
    BY <1>1, AskedIsInt
  <2>2. PadOf \in Nat
    BY <1>1, PadsAreNat
  <2> QED
    BY ONLY <2>1, <2>2
<1>4. p \in Int /\ p >= 0 /\ p < T * S /\ p < SourceEnd
  <2> DEFINE l == Len(wave)
             e == SourceEnd
  <2>1. l = T * S /\ T * S \in Nat /\ e \in Nat /\ p \in 0 .. Least(l, e) - 1
    BY <1>2
  <2> HIDE DEF l, e, T, S
  <2> QED
    BY <2>1 DEF Least, e
<1>5. /\ t \in 0 .. T - 1 /\ k \in 0 .. S - 1 /\ t * S \in Int /\ p = t * S + k
      /\ w[p + 1] = IF FromSource(p + 1) THEN source[p + 1] ELSE SplicedLatent(t).of[k + 1]
  <2>1. p \in 0 .. T * S - 1
    <3>1. T * S \in Int
      BY <1>2
    <3> HIDE DEF T, S
    <3> QED
      BY <1>4, <3>1
  <2>2. t = p \div SamplesPerFrame /\ k = p % SamplesPerFrame
    BY DEF S
  <2>3. T \in Nat /\ p \in 0 .. T * SamplesPerFrame - 1
    BY <1>2, <2>1
  <2> HIDE DEF T, t, k
  <2>4. /\ t \in 0 .. T - 1 /\ k \in 0 .. SamplesPerFrame - 1
        /\ t * SamplesPerFrame \in Int /\ p = t * SamplesPerFrame + k
        /\ DecodedWave(Straight(T))[p + 1] =
              IF FromSource(p + 1) THEN source[p + 1] ELSE SplicedLatent(t).of[k + 1]
    BY <2>2, <2>3, WaveRead, SMTT(60)
  <2> QED
    BY <2>4, Zenon DEF S, w
<1>6. r0 = Least(Max({0, a \div S}), T) /\ r1 = Least(b \div S, T)
  BY <1>1 DEF RegionFrames
<1> HIDE DEF a, b, r0, r1, t, k, w, S, T
<1>7. /\ r0 \in Int /\ r1 \in Int
      /\ (p >= r0 * S /\ p < r1 * S) <=> (r0 <= t /\ t < r1)
      /\ (r0 <= t /\ t < r1) => p + S > a /\ p < b
      /\ ~(r0 <= t /\ t < r1) => p < a \/ p + S > b
  <2>1. t \in Int /\ 0 <= t /\ t < T /\ t * S <= p /\ p < t * S + S
    <3> DEFINE x == t * S
    <3>1. x \in Int /\ p = x + k
      BY <1>5
    <3> HIDE DEF x
    <3>2. x <= p /\ p < x + S
      BY <1>2, <1>5, <3>1
    <3> QED
      BY <1>2, <1>5, <3>2 DEF x
  <2>2. T \in Nat /\ S \in Nat \ {0} /\ a \in Int /\ b \in Int /\ p \in Int
    BY <1>2, <1>3, <1>4
  <2> DEFINE qa == a \div S
             qb == b \div S
             m == Max({0, qa})
  <2>3. qa = a \div S /\ qb = b \div S /\ m = Max({0, qa}) /\ r0 = Least(m, T) /\ r1 = Least(qb, T)
    BY <1>6
  <2> HIDE DEF qa, qb, m
  <2>4. qa \in Int /\ qb \in Int /\ qa * S <= a /\ a < qa * S + S /\ qb * S <= b /\ b < qb * S + S
    <3>1. qa \in Int /\ S * qa <= a /\ a < S * qa + S
      BY <2>2, <2>3, DivRange
    <3>2. qb \in Int /\ S * qb <= b /\ b < S * qb + S
      BY <2>2, <2>3, DivRange
    <3>3. S * qa = qa * S /\ S * qb = qb * S
      BY <2>2, <3>1, <3>2
    <3> QED
      BY <2>2, <3>1, <3>2, <3>3
  <2>5. m = IF 0 >= qa THEN 0 ELSE qa
    BY <2>3, <2>4, MaxOfTwo
  <2>6. /\ r0 \in Int /\ r1 \in Int
        /\ t < r0 <=> t < qa
        /\ t < r1 <=> t < qb
    <3>1. /\ r0 = IF m < T THEN m ELSE T
          /\ r1 = IF qb < T THEN qb ELSE T
      BY <2>3, Zenon DEF Least
    <3>2. r0 \in Int /\ (t < r0 <=> t < qa)
      BY <2>1, <2>2, <2>4, <2>5, <3>1
    <3>3. r1 \in Int /\ (t < r1 <=> t < qb)
      BY <2>1, <2>2, <2>4, <3>1
    <3> QED
      BY <3>2, <3>3
  <2>7. ASSUME NEW x \in Int
        PROVE  /\ t < x => t * S + S <= x * S
               /\ ~(t < x) => x * S <= t * S
    <3>1. (t + 1) * S = t * S + S
      BY <2>1, <2>2
    <3>2. t < x => (t + 1) * S <= x * S
      BY <2>1, <2>2, TimesMono
    <3>3. ~(t < x) => x * S <= t * S
      BY <2>1, <2>2, TimesMono
    <3> QED
      BY <2>1, <2>2, <3>1, <3>2, <3>3
  <2> DEFINE ts == t * S
             xa == qa * S
             xb == qb * S
             y0 == r0 * S
             y1 == r1 * S
  <2>8. /\ ts \in Int /\ xa \in Int /\ xb \in Int /\ y0 \in Int /\ y1 \in Int
        /\ xa <= a /\ a < xa + S /\ xb <= b /\ b < xb + S
        /\ ts <= p /\ p < ts + S
    BY <2>1, <2>2, <2>4, <2>6
  <2>9. /\ t < qa => ts + S <= xa
        /\ ~(t < qa) => xa <= ts
        /\ t < qb => ts + S <= xb
        /\ ~(t < qb) => xb <= ts
        /\ t < r0 => ts + S <= y0
        /\ ~(t < r0) => y0 <= ts
        /\ t < r1 => ts + S <= y1
        /\ ~(t < r1) => y1 <= ts
    BY <2>1, <2>2, <2>4, <2>6, <2>7
  <2> HIDE DEF ts, xa, xb, y0, y1
  <2>10. (r0 <= t) <=> ~(t < r0)
    BY <2>1, <2>2, <2>6
  <2>11. (p >= y0 /\ p < y1) <=> (r0 <= t /\ t < r1)
    BY <2>1, <2>2, <2>8, <2>9, <2>10
  <2>12. (r0 <= t /\ t < r1) => p + S > a /\ p < b
    BY <2>1, <2>2, <2>6, <2>8, <2>9, <2>10
  <2>13. ~(r0 <= t /\ t < r1) => p < a \/ p + S > b
    BY <2>1, <2>2, <2>6, <2>8, <2>9, <2>10
  <2> QED
    BY <2>1, <2>2, <2>6, <2>11, <2>12, <2>13 DEF y0, y1
<1>8. FromSource(p + 1) <=>
         source # <<>> /\ p + 1 <= Len(source) /\ ~(r0 <= t /\ t < r1)
  <2> DEFINE y0 == r0 * S
             y1 == r1 * S
  <2>1. y0 \in Int /\ y1 \in Int
    BY <1>2, <1>7
  <2>2. FromSource(p + 1) <=>
           source # <<>> /\ p + 1 <= Len(source) /\ ~(p + 1 > y0 /\ p + 1 <= y1)
    BY DEF FromSource, r0, r1, S
  <2>3. (p >= y0 /\ p < y1) <=> (r0 <= t /\ t < r1)
    BY <1>7
  <2> HIDE DEF y0, y1
  <2>4. (p + 1 > y0 /\ p + 1 <= y1) <=> (p >= y0 /\ p < y1)
    BY <1>4, <2>1
  <2> QED
    BY <2>2, <2>3, <2>4, Zenon
<1>9. InRegion(t) <=> r0 <= t /\ t < r1
  BY <1>1 DEF InRegion, r0, r1
<1>10. Offset \in Int
  <2>1. Frames(PadOf) * SamplesPerFrame \in Int
    BY <1>3, PadRounds
  <2> QED
    BY <1>1, <1>3, <2>1 DEF Offset
<1>11. CASE r0 <= t /\ t < r1
  <2>1. w[p + 1] = SplicedLatent(t).of[k + 1]
    BY <1>5, <1>8, <1>11, Zenon
  <2>2. SplicedLatent(t) = Gen
    BY <1>9, <1>11, Zenon DEF SplicedLatent
  <2>3. Gen.of[k + 1] = Generated
    <3>1. k + 1 \in 1 .. SamplesPerFrame
      BY <1>2, <1>5 DEF S
    <3> QED
      BY <3>1 DEF Gen, Frame, Steady
  <2>4. wave[p + 1] = Generated
    BY <1>1, <2>1, <2>2, <2>3, Zenon
  <2> QED
    BY <1>4, <1>7, <1>10, <1>11, <2>4 DEF S, a, b
<1>12. CASE ~(r0 <= t /\ t < r1)
  <2>1. CASE ask.src = "audio"
    <3>1. source = SourceOf /\ Offset = PadOf /\ SourceEnd = Len(source)
      BY <1>1, <2>1 DEF Offset, SourceEnd
    <3>2. /\ SourceOf \in Seq(Places) /\ Len(SourceOf) \in Nat
          /\ \A q \in 0 .. Len(SourceOf) - 1 : SourceOf[q + 1] = Original(q - PadOf)
      BY <1>1, <2>1, AudioPlaced
    <3>3. p \in 0 .. Len(SourceOf) - 1
      BY <1>4, <3>1, <3>2
    <3>4. source # <<>> /\ p + 1 <= Len(source)
      <4>1. Len(<<>>) = 0
        OBVIOUS
      <4> QED
        BY <1>4, <3>1, <3>2, <3>3, <4>1
    <3>5. w[p + 1] = source[p + 1]
      BY <1>5, <1>8, <1>12, <3>4, Zenon
    <3>6. wave[p + 1] = Original(p - Offset)
      BY <1>1, <3>1, <3>2, <3>3, <3>5, Zenon
    <3> QED
      BY <1>4, <1>7, <1>10, <1>12, <3>6 DEF S, a, b
  <2>2. CASE ask.src = "latents"
    <3> DEFINE n == Len(SourceOf)
    <3>1. source = <<>> /\ CoverOf = SourceOf /\ SourceEnd = n * S /\ Offset = Frames(PadOf) * S
      BY <1>1, <2>2 DEF CoverOf, SourceEnd, Offset, S
    <3>2. n \in Nat /\ n <= T /\ n <= MaxT
      <4>1. Len(CoverOf) \in Nat
        BY <1>1, <2>2, CoverPlain
      <4> QED
        BY <1>1, <1>2, <3>1, <4>1
    <3>3. \A q \in 0 .. n - 1 : SourceOf[q + 1] = SentFrame(q)
      BY <1>1, <2>2, <3>2, LatentsPlaced
    <3>4. t \in 0 .. n - 1
      <4> DEFINE x == t * S
                 y == n * S
      <4>1. x \in Int /\ y \in Int /\ p = x + k /\ p < y /\ k \in Int /\ k >= 0
        BY <1>2, <1>4, <1>5, <3>1, <3>2
      <4> HIDE DEF x, y, n
      <4>2. x < y
        BY ONLY <4>1
      <4>3. t < n
        BY <1>2, <1>5, <3>2, <4>2, TimesLess DEF x, y
      <4> QED
        BY <1>5, <3>2, <4>3
    <3>5. w[p + 1] = SplicedLatent(t).of[k + 1]
      BY <1>5, <1>8, <3>1, Zenon
    <3>6. SplicedLatent(t) = SentFrame(t)
      <4>1. t < Len(cover)
        BY <1>1, <3>1, <3>2, <3>4
      <4>2. SplicedLatent(t) = cover[t + 1]
        BY <1>1, <1>9, <1>12, <4>1, Zenon DEF SplicedLatent
      <4> QED
        BY <1>1, <3>1, <3>3, <3>4, <4>2, Zenon
    <3>7. SentFrame(t).of[k + 1] = Original(p - Offset)
      <4>1. k + 1 \in 1 .. S
        BY <1>2, <1>5
      <4>2. Origin = Frames(PadOf)
        BY <1>1 DEF Origin
      <4> DEFINE o == Frames(PadOf)
      <4>3. SentFrame(t).of[k + 1] = Original((t - o) * S + (k + 1) - 1)
        BY <4>1, <4>2 DEF SentFrame, Frame, S
      <4>4. o \in Int
        BY <1>1, PadsAreNat
      <4> HIDE DEF o
      <4>5. (t - o) * S = t * S - o * S /\ t * S \in Int /\ o * S \in Int
        BY <1>2, <1>5, <4>4, Dist
      <4> DEFINE x == t * S
                 y == o * S
                 z == (t - o) * S
      <4>6. z = x - y /\ x \in Int /\ y \in Int /\ p = x + k /\ Offset = y
        BY <1>5, <3>1, <4>5 DEF o
      <4> HIDE DEF x, y, z
      <4>7. z + (k + 1) - 1 = p - Offset
        BY <1>5, <4>6
      <4> QED
        BY <4>3, <4>7 DEF z
    <3>8. wave[p + 1] = Original(p - Offset)
      BY <1>1, <3>5, <3>6, <3>7, Zenon
    <3> QED
      BY <1>4, <1>7, <1>10, <1>12, <3>8 DEF S, a, b
  <2> QED
    BY <1>1, <2>1, <2>2
<1> QED
  BY <1>11, <1>12

LEMMA RegionDelivered ==
  ASSUME ShapeInv, IsRepaint, wave # <<>>
  PROVE  Delivered
<1> DEFINE S == SamplesPerFrame
           T == canvas.T
           d == Offset - PadOf
<1>1. /\ ask \in Asks /\ HaveRegion /\ NeedsSource /\ ask.src \in {"audio", "latents"}
      /\ pad = PadOf /\ PadOf = LeftPad /\ cover = CoverOf
      /\ source = (IF ask.src = "audio" THEN SourceOf ELSE <<>>)
      /\ T \in 0 .. MaxT /\ Len(CoverOf) <= T /\ wave = DecodedWave(Straight(T))
  BY RepaintAt
<1>2. S \in Nat \ {0} /\ T \in Nat /\ T * S \in Nat
  BY <1>1, TilingAssumption, ShapeAssumption
<1>3. AskedFrom \in Int /\ AskedTo \in Int /\ PadOf \in Nat
  BY <1>1, AskedIsInt, PadsAreNat
<1>4. PadOf = (IF ask.start < 0 THEN -ask.start ELSE 0) /\ AskedFrom = ask.start
  BY <1>1, PadsAreNat DEF AskedFrom
\* The wave covers the canvas, and its sample 0 is one of it if it has any.
<1>5. Len(wave) = T * S
  <2> DEFINE n == T * S
             g == [i \in 1 .. n |->
                     IF FromSource(i) THEN source[i]
                     ELSE SplicedLatent(Straight(T)[(i - 1) \div S + 1]).of[((i - 1) % S) + 1]]
  <2>1. Len(Straight(T)) = T
    BY <1>2 DEF Straight
  <2>2. wave = g
    BY <1>1, <2>1 DEF DecodedWave
  <2>3. n \in Nat
    BY <1>2
  <2> HIDE DEF n, S
  <2>4. Len(g) = n
    BY <2>3
  <2> QED
    BY <2>2, <2>4 DEF n
<1>6. /\ SourceEnd \in Nat
      /\ (SourceEnd \div S) * S <= T * S
  <2>1. Len(CoverOf) \in Nat
    BY <1>1, CoverPlain
  <2> HIDE DEF S, T
  <2>2. Len(CoverOf) * S <= T * S
    BY <1>1, <1>2, <2>1, TimesMono
  <2>3. CASE ask.src = "audio"
    <3>1. SourceEnd = Len(SourceOf) /\ Len(SourceOf) \in Nat
      BY <1>1, <2>3, AudioPlaced DEF SourceEnd
    <3> DEFINE q == Len(SourceOf) \div S
    <3>2. q \in Nat
      BY <1>2, <3>1
    <3>3. CoverOf = [j \in 1 .. q |-> VaeFrame(SourceOf, (j - 1) * S)]
      BY <2>3 DEF CoverOf, S
    <3>4. SourceEnd \div S = q
      BY <3>1
    <3> HIDE DEF q
    <3>5. Len(CoverOf) = q
      BY <3>2, <3>3
    <3> QED
      BY <2>2, <3>1, <3>4, <3>5
  <2>4. CASE ask.src = "latents"
    <3> DEFINE n == Len(CoverOf)
               e == n * S
    <3>1. SourceEnd = e
      BY <1>1, <2>4 DEF SourceEnd, S
    <3>2. n \in Nat
      BY <2>1
    <3> HIDE DEF n
    <3>3. e \in Nat
      BY <1>2, <3>2
    <3>4. e = S * n
      BY <1>2, <3>2
    <3> HIDE DEF e
    <3>5. e \div S = n
      BY <1>2, <3>2, <3>3, <3>4, DivUnique
    <3>6. n * S = e
      BY DEF e
    <3> QED
      BY <2>2, <3>1, <3>3, <3>5 DEF n
  <2> QED
    BY <1>1, <2>3, <2>4
\* How far the source has moved beyond its pad.
<1>7. /\ Offset \in Int /\ d \in Int
      /\ 2 * d <= S /\ 2 * d > -S /\ S + d <= Slack /\ (PadOf = 0 => d = 0)
  <2>1. /\ Frames(PadOf) * S \in Int
        /\ 2 * (Frames(PadOf) * S - PadOf) <= S
        /\ Frames(PadOf) * S - PadOf <= S \div 2
        /\ 2 * (Frames(PadOf) * S - PadOf) > -S
        /\ PadOf = 0 => Frames(PadOf) * S = 0
    BY <1>3, PadRounds
  <2> DEFINE o == Frames(PadOf) * S
  <2>2. /\ Offset = (IF ask.src = "audio" THEN PadOf ELSE o)
        /\ Slack = S + IF ask.src = "latents" THEN S \div 2 ELSE 0
    BY <1>1 DEF Offset, Slack
  <2>3. /\ o \in Int /\ 2 * (o - PadOf) <= S /\ o - PadOf <= S \div 2 /\ 2 * (o - PadOf) > -S
        /\ PadOf = 0 => o = 0
    BY <2>1
  <2> HIDE DEF o, S
  <2>4. S \div 2 \in Nat
    BY <1>2
  <2> QED
    BY <1>1, <1>2, <1>3, <2>2, <2>3, <2>4
<1> HIDE DEF d
<1>8. ASSUME NEW p \in 0 .. Least(Len(wave), SourceEnd) - 1
      PROVE  LET i == p - Offset
             IN  /\ (i < AskedFrom - SamplesPerFrame \/ i >= AskedTo + SamplesPerFrame)
                       => wave[p + 1] = Original(i)
                 /\ (i >= AskedFrom + SamplesPerFrame /\ i < AskedTo - Slack)
                       => wave[p + 1] = Generated
  <2> DEFINE i == p - Offset
  <2>1. /\ p \in Int /\ p >= 0
        /\ \/ /\ wave[p + 1] = Generated
              /\ p + S > AskedFrom + PadOf /\ p < AskedTo + PadOf
           \/ /\ wave[p + 1] = Original(i)
              /\ p < AskedFrom + PadOf \/ p + S > AskedTo + PadOf
    BY <1>5, <1>6, RepaintRead
  <2>2. Offset = PadOf + d /\ i = p - (PadOf + d) /\ Slack \in Int
    <3>1. Slack \in Int
      BY <1>2 DEF Slack
    <3> QED
      BY <1>3, <1>7, <2>1, <3>1 DEF d
  <2> HIDE DEF i, S
  <2>3. CASE wave[p + 1] = Generated /\ p + S > AskedFrom + PadOf /\ p < AskedTo + PadOf
    <3>1. ~(i < AskedFrom - S)
      <4>1. CASE PadOf = 0
        BY <1>2, <1>3, <1>7, <2>1, <2>2, <2>3, <4>1
      <4>2. CASE PadOf # 0
        <5>1. AskedFrom = -PadOf
          BY <1>3, <1>4, <4>2
        <5> QED
          BY <1>2, <1>3, <1>7, <2>1, <2>2, <5>1
      <4> QED
        BY <4>1, <4>2
    <3>2. ~(i >= AskedTo + S)
      BY <1>2, <1>3, <1>7, <2>1, <2>2, <2>3
    <3> QED
      BY <2>3, <3>1, <3>2, Zenon DEF i, S
  <2>4. CASE wave[p + 1] = Original(i) /\ (p < AskedFrom + PadOf \/ p + S > AskedTo + PadOf)
    <3>1. ~(i >= AskedFrom + S /\ i < AskedTo - Slack)
      BY <1>2, <1>3, <1>7, <2>1, <2>2, <2>4
    <3> QED
      BY <2>4, <3>1, Zenon DEF i, S
  <2> QED
    BY <2>1, <2>3, <2>4, Zenon
<1>9. (SourceEnd \div SamplesPerFrame) * SamplesPerFrame <= Len(wave)
  BY <1>5, <1>6
<1> QED
  BY <1>8, <1>9, Zenon DEF Delivered

\* A repaint changes what was asked and nothing else, whatever the region, the
\* source and the tiles of the two coders (pipeline-synth.cpp:146-228
\* and 433-485, pipeline-synth-ops.cpp:123-171 and 893-986).
THEOREM RegionIsKept == JobSpec => []RegionKept
<1>1. JobInit => BInv /\ ShapeInv
  BY BatchInit, ShapeInit0 DEF JobInit
<1>2. BInv /\ ShapeInv /\ [JobNext]_jobVars => (BInv /\ ShapeInv)'
  BY BatchStep, StepIsBatchStep, ShapeStep
<1>3. ShapeInv => RegionKept
  BY RegionDelivered DEF RegionKept
<1> QED
  BY <1>1, <1>2, <1>3, PTL DEF JobSpec
=============================================================================
