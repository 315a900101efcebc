-------------------------- MODULE Pipelines_proofs --------------------------
(***************************************************************************)
(* Proofs about Pipelines for any registry: a job opens its scopes one     *)
(* after the other, or around the same module, on every path of every      *)
(* task, so the store is never asked for a second module beside one that   *)
(* is held, and every way out gives back what was taken.                   *)
(***************************************************************************)
EXTENDS Pipelines, ModelStore_proofs, SequenceTheorems

-----------------------------------------------------------------------------
(* Programs.                                                                 *)

Steps == [op : {"take", "give"}, key : Keys \cup {NoKey}, loss : Int]

\* Between two steps of a program, D scopes are open, and when there are any
\* they are of the key K.  Two places are alike when a skip from one to the
\* other changes nothing of that.
Alike(D, K, i, j) == D[i] = D[j] /\ (D[i] > 0 => K[i] = K[j])

Opens(p, D, K, i) ==
    /\ p[i].op = "take" /\ p[i].key \in Keys
    /\ D[i - 1] > 0 => K[i - 1] = p[i].key
    /\ D[i] = D[i - 1] + 1 /\ K[i] = p[i].key
    /\ p[i].loss # Job =>
          p[i].loss \in Nat /\ i + p[i].loss <= Len(p) /\ Alike(D, K, i - 1, i + p[i].loss)

Closes(p, D, K, i) ==
    /\ p[i].op = "give"
    /\ D[i - 1] = D[i] + 1 /\ (D[i] > 0 => K[i] = K[i - 1])
    /\ p[i].loss # Job =>
          p[i].loss \in Nat /\ i + p[i].loss <= Len(p) /\ Alike(D, K, i, i + p[i].loss)

Fits(p, D, K) ==
    /\ p \in Seq(Steps)
    /\ \A i \in 0 .. Len(p) : D[i] \in Nat
    /\ D[Len(p)] = 0
    /\ \A i \in 1 .. Len(p) : Opens(p, D, K, i) \/ Closes(p, D, K, i)

\* A program that begins with no scope open and takes only keys of S.
Whole(p, S) ==
    /\ \E D, K : Fits(p, D, K) /\ D[0] = 0
    /\ \A i \in 1 .. Len(p) : p[i].op = "take" => p[i].key \in S

\* No skip passes over the taking of k, and without it the job fails.
Needed(p, k) ==
    \E i \in 1 .. Len(p) :
       /\ p[i] = Take(k, Job)
       /\ \A m \in 1 .. i - 1 : p[m].loss # Job => m + p[m].loss < i

-----------------------------------------------------------------------------
LEMMA StepFacts ==
  ASSUME NEW k \in Keys, NEW n \in Int
  PROVE  Take(k, n) \in Steps /\ Give(n) \in Steps
BY DEF Take, Give, Steps

LEMMA Joined ==
  ASSUME NEW S, NEW p \in Seq(S), NEW q \in Seq(S), NEW r, r = p \o q
  PROVE  /\ r \in Seq(S) /\ Len(r) = Len(p) + Len(q) /\ Len(p) \in Nat /\ Len(q) \in Nat
         /\ \A i \in 1 .. Len(p) : r[i] = p[i]
         /\ \A i \in 1 .. Len(q) : r[Len(p) + i] = q[i]
OBVIOUS

LEMMA Single ==
  ASSUME NEW S, NEW a \in S
  PROVE  <<a>> \in Seq(S) /\ Len(<<a>>) = 1 /\ <<a>>[1] = a
OBVIOUS

LEMMA Wrapped ==
  ASSUME NEW S, NEW p \in Seq(S), NEW a \in S, NEW b \in S, NEW r,
         r = <<a>> \o p \o <<b>>
  PROVE  /\ r \in Seq(S) /\ Len(r) = Len(p) + 2 /\ Len(p) \in Nat
         /\ r[1] = a /\ r[Len(p) + 2] = b
         /\ \A i \in 1 .. Len(p) : r[i + 1] = p[i]
<1> DEFINE q == <<a>> \o p
           n == Len(p)
<1>1. /\ q \in Seq(S) /\ Len(q) = n + 1 /\ n \in Nat /\ q[1] = a
      /\ \A i \in 1 .. n : q[i + 1] = p[i]
  OBVIOUS
<1>2. r = q \o <<b>>
  OBVIOUS
<1> HIDE DEF q, n
<1>3. r \in Seq(S) /\ Len(r) = n + 2 /\ r[n + 2] = b /\ \A i \in 1 .. n + 1 : r[i] = q[i]
  BY <1>1, <1>2
<1>4. \A i \in 1 .. n : r[i + 1] = p[i]
  BY <1>1, <1>3
<1> QED
  BY <1>1, <1>3, <1>4 DEF n

-----------------------------------------------------------------------------
LEMMA NothingFits == ASSUME NEW S PROVE Whole(<<>>, S)
<1> DEFINE D == [i \in 0 .. 0 |-> 0]
<1>1. Len(<<>>) = 0 /\ <<>> \in Seq(Steps)
  OBVIOUS
<1>2. Fits(<<>>, D, D) /\ D[0] = 0
  BY <1>1 DEF Fits
<1> QED
  BY <1>1, <1>2 DEF Whole

LEMMA JoinedFits ==
  ASSUME NEW S, NEW p, NEW q, Whole(p, S), Whole(q, S)
  PROVE  Whole(p \o q, S)
<1>1. PICK D1, K1 : Fits(p, D1, K1) /\ D1[0] = 0
  BY DEF Whole
<1>2. PICK D2, K2 : Fits(q, D2, K2) /\ D2[0] = 0
  BY DEF Whole
<1> DEFINE r == p \o q
           m == Len(p)
           n == Len(q)
           D == [i \in 0 .. m + n |-> IF i <= m THEN D1[i] ELSE D2[i - m]]
           K == [i \in 0 .. m + n |-> IF i <= m THEN K1[i] ELSE K2[i - m]]
<1>3. /\ r \in Seq(Steps) /\ Len(r) = m + n /\ m \in Nat /\ n \in Nat
      /\ \A i \in 1 .. m : r[i] = p[i]
      /\ \A i \in 1 .. n : r[m + i] = q[i]
  BY <1>1, <1>2, Joined DEF Fits
<1>4. /\ \A i \in 0 .. m : D1[i] \in Nat /\ D1[m] = 0
      /\ \A i \in 0 .. n : D2[i] \in Nat /\ D2[n] = 0
      /\ \A i \in 1 .. m : Opens(p, D1, K1, i) \/ Closes(p, D1, K1, i)
      /\ \A i \in 1 .. n : Opens(q, D2, K2, i) \/ Closes(q, D2, K2, i)
  BY <1>1, <1>2 DEF Fits
<1>5. /\ \A i \in 0 .. m : D[i] = D1[i] /\ K[i] = K1[i]
      /\ \A i \in 1 .. n : D[m + i] = D2[i] /\ K[m + i] = K2[i]
      /\ D[m] = 0 /\ D2[0] = 0 /\ D[0] = 0
  BY <1>1, <1>2, <1>3, <1>4
<1>m. m = Len(p) /\ n = Len(q)
  OBVIOUS
<1>w. /\ \A i \in 1 .. m : p[i].op = "take" => p[i].key \in S
      /\ \A i \in 1 .. n : q[i].op = "take" => q[i].key \in S
  BY DEF Whole
<1> HIDE DEF r, m, n, D, K
<1>6. ASSUME NEW i \in 1 .. m PROVE Opens(r, D, K, i) \/ Closes(r, D, K, i)
  <2>1. r[i] = p[i] /\ D[i] = D1[i] /\ D[i - 1] = D1[i - 1] /\ K[i] = K1[i] /\ K[i - 1] = K1[i - 1]
    BY <1>3, <1>5
  <2>2. ASSUME NEW l \in Nat, i + l <= m PROVE D[i + l] = D1[i + l] /\ K[i + l] = K1[i + l]
    BY <2>2, <1>3, <1>5
  <2>3. CASE Opens(p, D1, K1, i)
    <3> DEFINE l == p[i].loss
    <3>1. ASSUME l # Job
          PROVE  l \in Nat /\ i + l <= Len(r) /\ Alike(D, K, i - 1, i + l)
      <4>1. l \in Nat /\ i + l <= m /\ Alike(D1, K1, i - 1, i + l)
        BY <2>3, <3>1, <1>m DEF Opens
      <4> HIDE DEF l
      <4>2. D[i + l] = D1[i + l] /\ K[i + l] = K1[i + l]
        BY <2>2, <4>1
      <4> QED
        BY <4>1, <4>2, <2>1, <1>3 DEF Alike
    <3> QED
      BY <2>1, <2>3, <3>1 DEF Opens
  <2>4. CASE Closes(p, D1, K1, i)
    <3> DEFINE l == p[i].loss
    <3>1. ASSUME l # Job
          PROVE  l \in Nat /\ i + l <= Len(r) /\ Alike(D, K, i, i + l)
      <4>1. l \in Nat /\ i + l <= m /\ Alike(D1, K1, i, i + l)
        BY <2>4, <3>1, <1>m DEF Closes
      <4> HIDE DEF l
      <4>2. D[i + l] = D1[i + l] /\ K[i + l] = K1[i + l]
        BY <2>2, <4>1
      <4> QED
        BY <4>1, <4>2, <2>1, <1>3 DEF Alike
    <3> QED
      BY <2>1, <2>4, <3>1 DEF Closes
  <2> QED
    BY <2>3, <2>4, <1>4
<1>7. ASSUME NEW i \in 1 .. n PROVE Opens(r, D, K, m + i) \/ Closes(r, D, K, m + i)
  <2>1. /\ r[m + i] = q[i] /\ D[m + i] = D2[i] /\ K[m + i] = K2[i]
        /\ D[(m + i) - 1] = D2[i - 1] /\ (D2[i - 1] > 0 => K[(m + i) - 1] = K2[i - 1])
    <3>1. CASE i = 1
      <4>1. /\ r[m + 1] = q[1] /\ D[m + 1] = D2[1] /\ K[m + 1] = K2[1]
            /\ D[m] = 0 /\ D2[0] = 0
        BY <3>1, <1>3, <1>5
      <4>2. (m + 1) - 1 = m /\ 1 - 1 = 0
        BY ONLY <1>3
      <4> QED
        BY ONLY <3>1, <4>1, <4>2
    <3>2. CASE i # 1
      <4>1. i - 1 \in 1 .. n /\ m + (i - 1) = (m + i) - 1
        BY <3>2, <1>3
      <4> QED
        BY <4>1, <1>3, <1>5
    <3> QED
      BY <3>1, <3>2
  <2>2. ASSUME NEW l \in Nat, i + l <= n
        PROVE  D[(m + i) + l] = D2[i + l] /\ K[(m + i) + l] = K2[i + l] /\ (m + i) + l <= m + n
    <3>1. i + l \in 1 .. n /\ m + (i + l) = (m + i) + l
      BY <2>2, <1>3
    <3> QED
      BY <3>1, <1>3, <1>5
  <2>3. CASE Opens(q, D2, K2, i)
    <3> DEFINE l == q[i].loss
    <3>1. ASSUME l # Job
          PROVE  l \in Nat /\ (m + i) + l <= Len(r) /\ Alike(D, K, (m + i) - 1, (m + i) + l)
      <4>0. D2[i - 1] \in Nat
        BY <1>3, <1>4
      <4>1. l \in Nat /\ i + l <= n /\ Alike(D2, K2, i - 1, i + l)
        BY <2>3, <3>1, <1>m DEF Opens
      <4> HIDE DEF l
      <4>2. D[(m + i) + l] = D2[i + l] /\ K[(m + i) + l] = K2[i + l] /\ (m + i) + l <= m + n
        BY <2>2, <4>1
      <4> QED
        BY <4>1, <4>2, <2>1, <1>3 DEF Alike
    <3>2. D[(m + i) - 1] > 0 => K[(m + i) - 1] = q[i].key
      BY <2>1, <2>3, Zenon DEF Opens
    <3>3. /\ q[i].op = "take" /\ q[i].key \in Keys
          /\ D[m + i] = D[(m + i) - 1] + 1 /\ K[m + i] = q[i].key
      BY <2>1, <2>3 DEF Opens
    <3> QED
      BY <2>1, <3>1, <3>2, <3>3, Zenon DEF Opens
  <2>4. CASE Closes(q, D2, K2, i)
    <3>1. D2[i] \in Nat /\ D2[i - 1] \in Nat
      BY <1>3, <1>4
    <3> DEFINE l == q[i].loss
    <3>2. ASSUME l # Job
          PROVE  l \in Nat /\ (m + i) + l <= Len(r) /\ Alike(D, K, m + i, (m + i) + l)
      <4>1. l \in Nat /\ i + l <= n /\ Alike(D2, K2, i, i + l)
        BY <2>4, <3>2, <1>m DEF Closes
      <4> HIDE DEF l
      <4>2. D[(m + i) + l] = D2[i + l] /\ K[(m + i) + l] = K2[i + l] /\ (m + i) + l <= m + n
        BY <2>2, <4>1
      <4> QED
        BY <4>1, <4>2, <2>1, <1>3 DEF Alike
    <3>3. /\ q[i].op = "give" /\ D2[i - 1] = D2[i] + 1
          /\ D2[i] > 0 => K2[i] = K2[i - 1]
      BY <2>4 DEF Closes
    <3>4. D[(m + i) - 1] = D[m + i] + 1 /\ (D[m + i] > 0 => K[m + i] = K[(m + i) - 1])
      BY <2>1, <3>1, <3>3
    <3> QED
      BY <2>1, <3>2, <3>3, <3>4, Zenon DEF Closes
  <2> QED
    BY <2>3, <2>4, <1>4
<1>8. ASSUME NEW i \in 1 .. m + n
      PROVE  i \in 1 .. m \/ (i - m \in 1 .. n /\ m + (i - m) = i)
  BY <1>3
<1>9. \A i \in 1 .. Len(r) : Opens(r, D, K, i) \/ Closes(r, D, K, i)
  <2> SUFFICES ASSUME NEW i \in 1 .. m + n PROVE Opens(r, D, K, i) \/ Closes(r, D, K, i)
    BY <1>3
  <2>1. CASE i \in 1 .. m
    BY <2>1, <1>6
  <2>2. CASE i - m \in 1 .. n /\ m + (i - m) = i
    <3> DEFINE o == i - m
    <3>1. o \in 1 .. n /\ m + o = i
      BY <2>2
    <3> HIDE DEF o
    <3>2. Opens(r, D, K, m + o) \/ Closes(r, D, K, m + o)
      BY <3>1, <1>7
    <3> QED
      BY <3>1, <3>2, Zenon
  <2> QED
    BY <2>1, <2>2, <1>8
<1>10. \A i \in 0 .. Len(r) : D[i] \in Nat
  <2> SUFFICES ASSUME NEW i \in 0 .. m + n PROVE D[i] \in Nat
    BY <1>3
  <2>1. CASE i <= m
    BY <2>1, <1>3, <1>4, <1>5
  <2>2. CASE ~(i <= m)
    <3>1. i - m \in 1 .. n /\ m + (i - m) = i
      BY <2>2, <1>3
    <3> QED
      BY <3>1, <1>4, <1>5
  <2> QED
    BY <2>1, <2>2
<1>11. D[Len(r)] = 0
  BY <1>3, <1>4, <1>5
<1>12. Fits(r, D, K)
  BY <1>3, <1>9, <1>10, <1>11 DEF Fits
<1>13. \A i \in 1 .. Len(r) : r[i].op = "take" => r[i].key \in S
  <2> SUFFICES ASSUME NEW i \in 1 .. m + n, r[i].op = "take" PROVE r[i].key \in S
    BY <1>3
  <2>1. CASE i \in 1 .. m
    BY <2>1, <1>3, <1>w
  <2>2. CASE i - m \in 1 .. n /\ m + (i - m) = i
    BY <2>2, <1>3, <1>w
  <2> QED
    BY <2>1, <2>2, <1>8
<1>14. Whole(r, S)
  BY <1>5, <1>12, <1>13 DEF Whole
<1> QED
  BY <1>14 DEF r

\* A scope around a program that takes no other key.
LEMMA ScopeFits ==
  ASSUME NEW S, NEW k \in Keys, k \in S, NEW p, Whole(p, {k})
  PROVE  Whole(Scope(k, p), S)
<1>1. PICK D1, K1 : Fits(p, D1, K1) /\ D1[0] = 0
  BY DEF Whole
<1> DEFINE r == Scope(k, p)
           n == Len(p)
           D == [i \in 0 .. n + 2 |-> IF i = 0 \/ i = n + 2 THEN 0 ELSE D1[i - 1] + 1]
           K == [i \in 0 .. n + 2 |-> k]
<1>2. /\ r \in Seq(Steps) /\ Len(r) = n + 2 /\ n \in Nat
      /\ r[1] = Take(k, Job) /\ r[n + 2] = Give(Job)
      /\ \A i \in 1 .. n : r[i + 1] = p[i]
  BY <1>1, StepFacts, Wrapped DEF Fits, Scope, Job
<1>3. /\ \A i \in 0 .. n : D1[i] \in Nat
      /\ D1[0] = 0 /\ D1[n] = 0
      /\ \A i \in 1 .. n : Opens(p, D1, K1, i) \/ Closes(p, D1, K1, i)
      /\ \A i \in 1 .. n : p[i].op = "take" => p[i].key = k
  BY <1>1 DEF Fits, Whole
<1>4. /\ \A i \in 0 .. n : D[i + 1] = D1[i] + 1
      /\ D[0] = 0 /\ D[n + 2] = 0 /\ D[1] = 1 /\ D[n + 1] = 1
  BY <1>2, <1>3
<1>5. \A i \in 0 .. n + 2 : K[i] = k
  OBVIOUS
<1>n. n = Len(p)
  OBVIOUS
<1> HIDE DEF r, n, D, K
<1>6. Opens(r, D, K, 1)
  BY <1>2, <1>4, <1>5 DEF Opens, Take
<1>7. Closes(r, D, K, n + 2)
  <2>1. (n + 2) - 1 = n + 1
    BY <1>2
  <2> QED
    BY <2>1, <1>2, <1>4 DEF Closes, Give
<1>8. ASSUME NEW i \in 1 .. n PROVE Opens(r, D, K, i + 1) \/ Closes(r, D, K, i + 1)
  <2>1. /\ r[i + 1] = p[i] /\ D[i + 1] = D1[i] + 1 /\ D[(i + 1) - 1] = D1[i - 1] + 1
        /\ K[i + 1] = k /\ K[(i + 1) - 1] = k /\ D1[i] \in Nat /\ D1[i - 1] \in Nat
    <3>1. (i - 1) + 1 = (i + 1) - 1 /\ i - 1 \in 0 .. n /\ i + 1 \in 0 .. n + 2 /\ (i + 1) - 1 \in 0 .. n + 2
      BY <1>2
    <3> QED
      BY <3>1, <1>2, <1>3, <1>4, <1>5
  <2>2. ASSUME NEW l \in Nat, i + l <= n
        PROVE  /\ D[(i + 1) + l] = D1[i + l] + 1 /\ K[(i + 1) + l] = k
               /\ (i + 1) + l <= Len(r) /\ D1[i + l] \in Nat
    <3>0. n \in Nat
      BY <1>2
    <3>1. i + l \in 0 .. n /\ (i + l) + 1 = (i + 1) + l /\ (i + 1) + l \in 0 .. n + 2
      BY <2>2, <3>0
    <3> QED
      BY <3>1, <1>2, <1>3, <1>4, <1>5
  <2>3. CASE Opens(p, D1, K1, i)
    <3> DEFINE l == p[i].loss
    <3>1. ASSUME l # Job
          PROVE  l \in Nat /\ (i + 1) + l <= Len(r) /\ Alike(D, K, (i + 1) - 1, (i + 1) + l)
      <4>1. l \in Nat /\ i + l <= n /\ D1[i - 1] = D1[i + l]
        BY <2>3, <3>1, <1>n DEF Opens, Alike
      <4> HIDE DEF l
      <4> QED
        BY <4>1, <2>1, <2>2 DEF Alike
    <3>2. p[i].op = "take" /\ p[i].key \in Keys /\ p[i].key = k /\ D1[i] = D1[i - 1] + 1
      BY <2>3, <1>3 DEF Opens
    <3>3. D[i + 1] = D[(i + 1) - 1] + 1
      BY <3>2, <2>1
    <3> QED
      BY <2>1, <3>1, <3>2, <3>3, Zenon DEF Opens
  <2>4. CASE Closes(p, D1, K1, i)
    <3> DEFINE l == p[i].loss
    <3>1. ASSUME l # Job
          PROVE  l \in Nat /\ (i + 1) + l <= Len(r) /\ Alike(D, K, i + 1, (i + 1) + l)
      <4>1. l \in Nat /\ i + l <= n /\ D1[i] = D1[i + l]
        BY <2>4, <3>1, <1>n DEF Closes, Alike
      <4> HIDE DEF l
      <4> QED
        BY <4>1, <2>1, <2>2 DEF Alike
    <3>2. p[i].op = "give" /\ D1[i - 1] = D1[i] + 1
      BY <2>4 DEF Closes
    <3>3. D[(i + 1) - 1] = D[i + 1] + 1
      BY <3>2, <2>1
    <3> QED
      BY <2>1, <3>1, <3>2, <3>3, Zenon DEF Closes
  <2> QED
    BY <2>3, <2>4, <1>3
<1>9. ASSUME NEW i \in 1 .. Len(r)
      PROVE  i = 1 \/ i = n + 2 \/ (i - 1 \in 1 .. n /\ (i - 1) + 1 = i)
  BY <1>2
<1>10. \A i \in 1 .. Len(r) : Opens(r, D, K, i) \/ Closes(r, D, K, i)
  <2> SUFFICES ASSUME NEW i \in 1 .. Len(r) PROVE Opens(r, D, K, i) \/ Closes(r, D, K, i)
    OBVIOUS
  <2>1. CASE i - 1 \in 1 .. n /\ (i - 1) + 1 = i
    <3> DEFINE o == i - 1
    <3>1. o \in 1 .. n /\ o + 1 = i
      BY <2>1
    <3> HIDE DEF o
    <3>2. Opens(r, D, K, o + 1) \/ Closes(r, D, K, o + 1)
      BY <3>1, <1>8
    <3> QED
      BY <3>1, <3>2, Zenon
  <2> QED
    BY <2>1, <1>6, <1>7, <1>9, Zenon
<1>11. \A i \in 0 .. Len(r) : D[i] \in Nat
  <2> SUFFICES ASSUME NEW i \in 0 .. n + 2 PROVE D[i] \in Nat
    BY <1>2
  <2>1. i = 0 \/ i = n + 2 \/ (i - 1 \in 0 .. n /\ (i - 1) + 1 = i)
    BY <1>2
  <2> QED
    BY <2>1, <1>3, <1>4
<1>12. Fits(r, D, K)
  BY <1>2, <1>4, <1>10, <1>11 DEF Fits
<1>13. \A i \in 1 .. Len(r) : r[i].op = "take" => r[i].key \in S
  <2> SUFFICES ASSUME NEW i \in 1 .. Len(r), r[i].op = "take" PROVE r[i].key \in S
    OBVIOUS
  <2>1. CASE i = 1
    BY <2>1, <1>2 DEF Take
  <2>2. CASE i = n + 2
    BY <2>2, <1>2 DEF Give
  <2>3. CASE i - 1 \in 1 .. n /\ (i - 1) + 1 = i
    BY <2>3, <1>2, <1>3
  <2> QED
    BY <2>1, <2>2, <2>3, <1>9
<1>14. Whole(r, S)
  BY <1>4, <1>12, <1>13 DEF Whole
<1> QED
  BY <1>14 DEF r

\* A scope that may fail, and then skips the rest.
LEMMA AttemptFits ==
  ASSUME NEW S, NEW k \in Keys, k \in S, NEW p, Whole(p, S)
  PROVE  Whole(Attempt(k, p), S)
<1>1. PICK D1, K1 : Fits(p, D1, K1) /\ D1[0] = 0
  BY DEF Whole
<1> DEFINE r == Attempt(k, p)
           n == Len(p)
           D == [i \in 0 .. n + 2 |-> IF i < 2 THEN i ELSE D1[i - 2]]
           K == [i \in 0 .. n + 2 |-> IF i < 2 THEN k ELSE K1[i - 2]]
<1>n. n = Len(p)
  OBVIOUS
<1>2. /\ r \in Seq(Steps) /\ Len(r) = n + 2 /\ n \in Nat
      /\ r[1] = Take(k, 1 + n) /\ r[2] = Give(n)
      /\ \A i \in 1 .. n : r[i + 2] = p[i]
  <2> DEFINE a == Take(k, 1 + n)
             b == Give(n)
             q == <<a, b>>
  <2>0. n \in Nat /\ p \in Seq(Steps)
    BY <1>1 DEF Fits
  <2>1. a \in Steps /\ b \in Steps
    BY <2>0, StepFacts
  <2>2. r = q \o p
    BY DEF Attempt
  <2> HIDE DEF a, b
  <2>3. q \in Seq(Steps) /\ Len(q) = 2 /\ q[1] = a /\ q[2] = b
    BY <2>1
  <2> HIDE DEF q, r, n
  <2>4. /\ r \in Seq(Steps) /\ Len(r) = 2 + n
        /\ \A i \in 1 .. 2 : r[i] = q[i]
        /\ \A i \in 1 .. n : r[2 + i] = p[i]
    <3>1. /\ r \in Seq(Steps) /\ Len(r) = Len(q) + Len(p)
          /\ \A i \in 1 .. Len(q) : r[i] = q[i]
          /\ \A i \in 1 .. Len(p) : r[Len(q) + i] = p[i]
      <4>1. q \in Seq(Steps) /\ p \in Seq(Steps) /\ r = q \o p
        BY <2>0, <2>2, <2>3
      <4> QED
        BY <4>1, Joined
    <3> QED
      BY <3>1, <2>3, <1>n
  <2>5. \A i \in 1 .. n : 2 + i = i + 2
    BY <2>0
  <2>6. 2 + n = n + 2
    BY <2>0
  <2> QED
    BY <2>0, <2>3, <2>4, <2>5, <2>6 DEF a, b
<1>3. /\ \A i \in 0 .. n : D1[i] \in Nat
      /\ D1[0] = 0 /\ D1[n] = 0
      /\ \A i \in 1 .. n : Opens(p, D1, K1, i) \/ Closes(p, D1, K1, i)
      /\ \A i \in 1 .. n : p[i].op = "take" => p[i].key \in S
  BY <1>1 DEF Fits, Whole
<1>4. /\ \A i \in 0 .. n : D[i + 2] = D1[i] /\ K[i + 2] = K1[i]
      /\ D[0] = 0 /\ D[1] = 1 /\ D[2] = 0 /\ D[n + 2] = 0
      /\ K[1] = k
  BY <1>2, <1>3
<1> HIDE DEF r, n, D, K
<1>6. Opens(r, D, K, 1)
  <2>1. 1 + (1 + n) = n + 2 /\ 1 + n \in Nat
    BY <1>2
  <2> QED
    BY <2>1, <1>2, <1>4 DEF Opens, Take, Alike
<1>7. Closes(r, D, K, 2)
  <2>1. 2 + n = n + 2
    BY <1>2
  <2> QED
    BY <2>1, <1>2, <1>4 DEF Closes, Give, Alike
<1>8. ASSUME NEW i \in 1 .. n PROVE Opens(r, D, K, i + 2) \/ Closes(r, D, K, i + 2)
  <2>1. /\ r[i + 2] = p[i] /\ D[i + 2] = D1[i] /\ D[(i + 2) - 1] = D1[i - 1]
        /\ K[i + 2] = K1[i] /\ K[(i + 2) - 1] = K1[i - 1]
        /\ D1[i] \in Nat /\ D1[i - 1] \in Nat
    <3>1. (i - 1) + 2 = (i + 2) - 1 /\ i - 1 \in 0 .. n
      BY <1>2
    <3> QED
      BY <3>1, <1>2, <1>3, <1>4
  <2>2. ASSUME NEW l \in Nat, i + l <= n
        PROVE  /\ D[(i + 2) + l] = D1[i + l] /\ K[(i + 2) + l] = K1[i + l]
               /\ (i + 2) + l <= Len(r) /\ D1[i + l] \in Nat
    <3>0. n \in Nat
      BY <1>2
    <3>1. i + l \in 0 .. n /\ (i + l) + 2 = (i + 2) + l /\ (i + 2) + l <= n + 2
      BY <2>2, <3>0
    <3> QED
      BY <3>1, <1>2, <1>3, <1>4
  <2>3. CASE Opens(p, D1, K1, i)
    <3> DEFINE l == p[i].loss
    <3>1. ASSUME l # Job
          PROVE  l \in Nat /\ (i + 2) + l <= Len(r) /\ Alike(D, K, (i + 2) - 1, (i + 2) + l)
      <4>1. l \in Nat /\ i + l <= n /\ Alike(D1, K1, i - 1, i + l)
        BY <2>3, <3>1, <1>n DEF Opens
      <4> HIDE DEF l
      <4> QED
        BY <4>1, <2>1, <2>2 DEF Alike
    <3>2. /\ p[i].op = "take" /\ p[i].key \in Keys /\ D1[i] = D1[i - 1] + 1
          /\ D1[i - 1] > 0 => K1[i - 1] = p[i].key
          /\ K1[i] = p[i].key
      BY <2>3 DEF Opens
    <3> QED
      BY <2>1, <3>1, <3>2, Zenon DEF Opens
  <2>4. CASE Closes(p, D1, K1, i)
    <3> DEFINE l == p[i].loss
    <3>1. ASSUME l # Job
          PROVE  l \in Nat /\ (i + 2) + l <= Len(r) /\ Alike(D, K, i + 2, (i + 2) + l)
      <4>1. l \in Nat /\ i + l <= n /\ Alike(D1, K1, i, i + l)
        BY <2>4, <3>1, <1>n DEF Closes
      <4> HIDE DEF l
      <4> QED
        BY <4>1, <2>1, <2>2 DEF Alike
    <3>2. p[i].op = "give" /\ D1[i - 1] = D1[i] + 1 /\ (D1[i] > 0 => K1[i] = K1[i - 1])
      BY <2>4 DEF Closes
    <3> QED
      BY <2>1, <3>1, <3>2, Zenon DEF Closes
  <2> QED
    BY <2>3, <2>4, <1>3
<1>9. ASSUME NEW i \in 1 .. Len(r)
      PROVE  i = 1 \/ i = 2 \/ (i - 2 \in 1 .. n /\ (i - 2) + 2 = i)
  BY <1>2
<1>10. \A i \in 1 .. Len(r) : Opens(r, D, K, i) \/ Closes(r, D, K, i)
  <2> SUFFICES ASSUME NEW i \in 1 .. Len(r) PROVE Opens(r, D, K, i) \/ Closes(r, D, K, i)
    OBVIOUS
  <2>1. CASE i - 2 \in 1 .. n /\ (i - 2) + 2 = i
    <3> DEFINE o == i - 2
    <3>1. o \in 1 .. n /\ o + 2 = i
      BY <2>1
    <3> HIDE DEF o
    <3>2. Opens(r, D, K, o + 2) \/ Closes(r, D, K, o + 2)
      BY <3>1, <1>8
    <3> QED
      BY <3>1, <3>2, Zenon
  <2> QED
    BY <2>1, <1>6, <1>7, <1>9, Zenon
<1>11. \A i \in 0 .. Len(r) : D[i] \in Nat
  <2> SUFFICES ASSUME NEW i \in 0 .. n + 2 PROVE D[i] \in Nat
    BY <1>2
  <2>1. i = 0 \/ i = 1 \/ (i - 2 \in 0 .. n /\ (i - 2) + 2 = i)
    BY <1>2
  <2> QED
    BY <2>1, <1>3, <1>4
<1>12. Fits(r, D, K)
  BY <1>2, <1>4, <1>10, <1>11 DEF Fits
<1>13. \A i \in 1 .. Len(r) : r[i].op = "take" => r[i].key \in S
  <2> SUFFICES ASSUME NEW i \in 1 .. Len(r), r[i].op = "take" PROVE r[i].key \in S
    OBVIOUS
  <2>1. CASE i = 1
    BY <2>1, <1>2 DEF Take
  <2>2. CASE i = 2
    BY <2>2, <1>2 DEF Give
  <2>3. CASE i - 2 \in 1 .. n /\ (i - 2) + 2 = i
    BY <2>3, <1>2, <1>3
  <2> QED
    BY <2>1, <2>2, <2>3, <1>9
<1>14. Whole(r, S)
  BY <1>4, <1>12, <1>13 DEF Whole
<1> QED
  BY <1>14 DEF r

LEMMA WhenFits ==
  ASSUME NEW S, NEW b, NEW p, Whole(p, S)
  PROVE  Whole(When(b, p), S)
BY NothingFits DEF When

\* What is left of a program when its first m steps are done or skipped.
LEMMA RestFits ==
  ASSUME NEW p, NEW D, NEW K, Fits(p, D, K), NEW m \in 0 .. Len(p),
         NEW q \in Seq(Steps), Len(q) = Len(p) - m, \A i \in 1 .. Len(q) : q[i] = p[i + m]
  PROVE  \E D1, K1 : Fits(q, D1, K1) /\ D1[0] = D[m] /\ K1[0] = K[m]
<1> DEFINE n == Len(q)
           D1 == [i \in 0 .. n |-> D[i + m]]
           K1 == [i \in 0 .. n |-> K[i + m]]
<1>1. n \in Nat /\ m \in Nat /\ Len(p) \in Nat /\ n + m = Len(p)
  BY DEF Fits
<1>2. \A i \in 0 .. n : D1[i] = D[i + m] /\ K1[i] = K[i + m]
  OBVIOUS
<1>3. /\ \A i \in 0 .. Len(p) : D[i] \in Nat
      /\ D[Len(p)] = 0
      /\ \A i \in 1 .. Len(p) : Opens(p, D, K, i) \/ Closes(p, D, K, i)
  BY DEF Fits
<1>n. n = Len(q)
  OBVIOUS
<1> HIDE DEF n, D1, K1
<1>4. ASSUME NEW i \in 1 .. n PROVE Opens(q, D1, K1, i) \/ Closes(q, D1, K1, i)
  <2> DEFINE o == i + m
  <2>1. o \in 1 .. Len(p) /\ o - 1 = (i - 1) + m /\ i - 1 \in 0 .. n
    BY <1>1
  <2>2. /\ q[i] = p[o] /\ D1[i] = D[o] /\ D1[i - 1] = D[o - 1]
        /\ K1[i] = K[o] /\ K1[i - 1] = K[o - 1]
    BY <2>1, <1>1, <1>2, <1>n
  <2>3. ASSUME NEW l \in Nat, o + l <= Len(p)
        PROVE  i + l <= n /\ D1[i + l] = D[o + l] /\ K1[i + l] = K[o + l]
    <3>1. i + l \in 0 .. n /\ (i + l) + m = o + l
      BY <2>3, <1>1
    <3> QED
      BY <3>1, <1>2
  <2>4. Opens(p, D, K, o) \/ Closes(p, D, K, o)
    BY <2>1, <1>3
  <2> HIDE DEF o
  <2> DEFINE l == p[o].loss
  <2>5. CASE Opens(p, D, K, o)
    <3>1. ASSUME l # Job PROVE l \in Nat /\ i + l <= n /\ Alike(D1, K1, i - 1, i + l)
      <4>1. l \in Nat /\ o + l <= Len(p) /\ Alike(D, K, o - 1, o + l)
        BY <2>5, <3>1 DEF Opens
      <4> HIDE DEF l
      <4> QED
        BY <4>1, <2>2, <2>3 DEF Alike
    <3> QED
      BY <2>2, <2>5, <3>1, <1>n, Zenon DEF Opens
  <2>6. CASE Closes(p, D, K, o)
    <3>1. ASSUME l # Job PROVE l \in Nat /\ i + l <= n /\ Alike(D1, K1, i, i + l)
      <4>1. l \in Nat /\ o + l <= Len(p) /\ Alike(D, K, o, o + l)
        BY <2>6, <3>1 DEF Closes
      <4> HIDE DEF l
      <4> QED
        BY <4>1, <2>2, <2>3 DEF Alike
    <3> QED
      BY <2>2, <2>6, <3>1, <1>n, Zenon DEF Closes
  <2> QED
    BY <2>4, <2>5, <2>6
<1>5. ASSUME NEW i \in 0 .. n PROVE D1[i] \in Nat
  <2>1. i + m \in 0 .. Len(p)
    BY <1>1
  <2> QED
    BY <2>1, <1>2, <1>3
<1>6. D1[n] = 0 /\ D1[0] = D[m] /\ K1[0] = K[m]
  BY <1>1, <1>2, <1>3
<1>7. Fits(q, D1, K1)
  BY <1>4, <1>5, <1>6, <1>n DEF Fits
<1> QED
  BY <1>6, <1>7

LEMMA RestNeeds ==
  ASSUME NEW p, NEW k, NEW i \in 1 .. Len(p), p[i] = Take(k, Job),
         \A l \in 1 .. i - 1 : p[l].loss # Job => l + p[l].loss < i,
         NEW m \in 0 .. i - 1, p \in Seq(Steps),
         NEW q \in Seq(Steps), Len(q) = Len(p) - m, \A l \in 1 .. Len(q) : q[l] = p[l + m]
  PROVE  Needed(q, k)
<1> DEFINE o == i - m
<1>1. Len(p) \in Nat /\ i \in Nat /\ m \in Nat /\ o \in 1 .. Len(q) /\ o + m = i
  OBVIOUS
<1> HIDE DEF o
<1>2. q[o] = Take(k, Job)
  BY <1>1
<1>3. ASSUME NEW l \in 1 .. o - 1, q[l].loss # Job PROVE l + q[l].loss < o
  <2>1. l \in 1 .. Len(q) /\ l + m \in 1 .. i - 1 /\ l + m \in 1 .. Len(p)
    BY <1>1
  <2>2. q[l] = p[l + m] /\ p[l + m] \in Steps
    BY <2>1
  <2>3. p[l + m].loss \in Int
    BY <2>2 DEF Steps
  <2>4. (l + m) + p[l + m].loss < i
    BY <1>3, <2>1, <2>2
  <2> QED
    BY <1>1, <2>1, <2>2, <2>3, <2>4
<1> QED
  BY <1>1, <1>2, <1>3 DEF Needed

LEMMA NeededBefore ==
  ASSUME NEW p \in Seq(Steps), NEW q \in Seq(Steps), NEW k, Needed(p, k)
  PROVE  Needed(p \o q, k)
<1> DEFINE r == p \o q
<1>1. PICK i \in 1 .. Len(p) :
         /\ p[i] = Take(k, Job)
         /\ \A m \in 1 .. i - 1 : p[m].loss # Job => m + p[m].loss < i
  BY DEF Needed
<1>2. /\ Len(r) = Len(p) + Len(q) /\ Len(p) \in Nat /\ Len(q) \in Nat
      /\ \A l \in 1 .. Len(p) : r[l] = p[l]
  BY Joined
<1> HIDE DEF r
<1>3. i \in 1 .. Len(r) /\ r[i] = Take(k, Job)
  BY <1>1, <1>2
<1>4. ASSUME NEW m \in 1 .. i - 1, r[m].loss # Job PROVE m + r[m].loss < i
  BY <1>1, <1>2, <1>4
<1>5. Needed(r, k)
  BY <1>3, <1>4 DEF Needed
<1> QED
  BY <1>5 DEF r

LEMMA NeededAfter ==
  ASSUME NEW S, NEW q, Whole(q, S), NEW p \in Seq(Steps), NEW k, Needed(p, k)
  PROVE  Needed(q \o p, k)
<1> DEFINE r == q \o p
           n == Len(q)
<1>1. PICK i \in 1 .. Len(p) :
         /\ p[i] = Take(k, Job)
         /\ \A m \in 1 .. i - 1 : p[m].loss # Job => m + p[m].loss < i
  BY DEF Needed
<1>0. PICK D, K : Fits(q, D, K)
  BY DEF Whole
<1>2. /\ Len(r) = n + Len(p) /\ Len(p) \in Nat /\ n \in Nat
      /\ \A l \in 1 .. n : r[l] = q[l]
      /\ \A l \in 1 .. Len(p) : r[n + l] = p[l]
  BY <1>0, Joined DEF Fits
<1>3. ASSUME NEW l \in 1 .. n, q[l].loss # Job PROVE q[l].loss \in Nat /\ l + q[l].loss <= n
  <2>1. Opens(q, D, K, l) \/ Closes(q, D, K, l)
    BY <1>0 DEF Fits
  <2> QED
    BY <1>3, <2>1 DEF Opens, Closes
<1> HIDE DEF r, n
<1>4. n + i \in 1 .. Len(r) /\ r[n + i] = Take(k, Job)
  BY <1>1, <1>2
<1>5. ASSUME NEW m \in 1 .. (n + i) - 1, r[m].loss # Job PROVE m + r[m].loss < n + i
  <2>1. CASE m \in 1 .. n
    <3>1. r[m] = q[m]
      BY <2>1, <1>2
    <3>2. q[m].loss \in Nat /\ m + q[m].loss <= n
      BY <2>1, <3>1, <1>3, <1>5
    <3> QED
      BY <3>1, <3>2, <1>1, <1>2
  <2>2. CASE ~(m \in 1 .. n)
    <3> DEFINE l == m - n
    <3>1. l \in 1 .. i - 1 /\ l \in 1 .. Len(p) /\ n + l = m
      BY <2>2, <1>1, <1>2
    <3>2. p[l] \in Steps
      BY <3>1
    <3>3. p[l].loss \in Int
      BY <3>2 DEF Steps
    <3> HIDE DEF l
    <3>4. r[m] = p[l]
      BY <3>1, <1>2
    <3>5. l + p[l].loss < i
      BY <3>1, <3>4, <1>1, <1>5
    <3> QED
      BY <3>1, <3>3, <3>4, <3>5, <1>1, <1>2
  <2> QED
    BY <2>1, <2>2
<1>6. Needed(r, k)
  BY <1>4, <1>5 DEF Needed
<1> QED
  BY <1>6 DEF r

LEMMA ScopeNeeds ==
  ASSUME NEW k \in Keys
  PROVE  Scope(k, <<>>) \in Seq(Steps) /\ Needed(Scope(k, <<>>), k)
<1> DEFINE r == Scope(k, <<>>)
<1>1. r \in Seq(Steps) /\ Len(r) = 2 /\ r[1] = Take(k, Job)
  <2>1. Take(k, Job) \in Steps /\ Give(Job) \in Steps
    BY StepFacts DEF Job
  <2>2. <<>> \in Seq(Steps) /\ Len(<<>>) = 0
    OBVIOUS
  <2> HIDE DEF r
  <2>3. r = <<Take(k, Job)>> \o <<>> \o <<Give(Job)>>
    BY DEF r, Scope
  <2> QED
    BY <2>1, <2>2, <2>3, Wrapped
<1> HIDE DEF r
<1>2. Needed(r, k)
  BY <1>1 DEF Needed
<1> QED
  BY <1>1, <1>2 DEF r

-----------------------------------------------------------------------------
(* The tasks.                                                                *)

\* A job that a worker function began.
Begun(j) == j.task \in Tasks /\ Found(j) /\ j.adapter \in Adapters

\* What the names it will leave behind stand for.
Musts(j) ==
    (IF j.task \in {"lm", "understand"} THEN {Lm(j.lm)} ELSE {})
      \cup (IF j.task \in SynthTasks THEN {Dit(j.dit, j.adapter)} ELSE {})

LEMMA KeysThere ==
  /\ TextEnc \in Keys
  /\ \A n \in NamesIn(Lms) : Lm(n) \in Keys
  /\ \A v \in NamesIn(Vaes) : VaeEnc(v) \in Keys /\ VaeDec(v) \in Keys
  /\ \A d \in NamesIn(Dits) :
        /\ CondEnc(d) \in Keys /\ FsqTok(d) \in Keys /\ FsqDetok(d) \in Keys
        /\ \A a \in Adapters : Dit(d, a) \in Keys
<1>1. Keys = AllKeys
  BY KeysAssumption
<1>2. TextEnc \in AllKeys /\ \A n \in NamesIn(Lms) : Lm(n) \in AllKeys
  BY DEF AllKeys
<1>3. ASSUME NEW v \in NamesIn(Vaes) PROVE VaeEnc(v) \in AllKeys /\ VaeDec(v) \in AllKeys
  <2>1. {VaeEnc(v), VaeDec(v)} \in {{VaeEnc(w), VaeDec(w)} : w \in NamesIn(Vaes)}
    BY Zenon
  <2> QED
    BY <2>1 DEF AllKeys
<1>4. ASSUME NEW d \in NamesIn(Dits)
      PROVE  /\ CondEnc(d) \in AllKeys /\ FsqTok(d) \in AllKeys /\ FsqDetok(d) \in AllKeys
             /\ \A a \in Adapters : Dit(d, a) \in AllKeys
  <2> DEFINE Of(e) == {CondEnc(e), FsqTok(e), FsqDetok(e)} \cup {Dit(e, a) : a \in Adapters}
             Ds == UNION {Of(e) : e \in NamesIn(Dits)}
  <2>1. Of(d) \in {Of(e) : e \in NamesIn(Dits)}
    BY Zenon
  <2>2. Of(d) \subseteq Ds
    <3> HIDE DEF Of
    <3> QED
      BY <2>1
  <2>3. AllKeys = ({Lm(n) : n \in NamesIn(Lms)} \cup {TextEnc})
                    \cup (UNION {{VaeEnc(v), VaeDec(v)} : v \in NamesIn(Vaes)}) \cup Ds
    BY Zenon DEF AllKeys
  <2>4. /\ CondEnc(d) \in Of(d) /\ FsqTok(d) \in Of(d) /\ FsqDetok(d) \in Of(d)
        /\ \A a \in Adapters : Dit(d, a) \in Of(d)
    OBVIOUS
  <2> HIDE DEF Of, Ds
  <2>5. Ds \subseteq AllKeys
    BY <2>3
  <2> QED
    BY <2>2, <2>4, <2>5
<1> QED
  BY <1>1, <1>2, <1>3, <1>4

LEMMA PlainFits ==
  ASSUME NEW S, NEW k \in Keys, k \in S
  PROVE  Whole(Scope(k, <<>>), S)
<1>1. Whole(<<>>, {k})
  BY NothingFits
<1> QED
  BY <1>1, ScopeFits

LEMMA EncodesFits ==
  ASSUME NEW j, j.vae \in NamesIn(Vaes)
  PROVE  Whole(Encodes(j), Keys)
<1> DEFINE k == VaeEnc(j.vae)
           a == When(j.src = "audio", Scope(k, <<>>))
           b == When(j.ref = "audio", Attempt(k, <<>>))
           inner == a \o b
<1>1. k \in Keys /\ k \in {k}
  BY KeysThere
<1>2. Encodes(j) = When(inner # <<>>, Scope(k, inner))
  BY DEF Encodes
<1> HIDE DEF k
<1>3. Whole(a, {k})
  BY <1>1, PlainFits, WhenFits
<1>4. Whole(b, {k})
  <2>1. Whole(<<>>, {k})
    BY NothingFits
  <2>2. Whole(Attempt(k, <<>>), {k})
    BY <1>1, <2>1, AttemptFits
  <2> QED
    BY <2>2, WhenFits
<1> HIDE DEF a, b
<1>5. Whole(inner, {k})
  BY <1>3, <1>4, JoinedFits
<1> HIDE DEF inner
<1>6. Whole(Scope(k, inner), Keys)
  BY <1>1, <1>5, ScopeFits
<1> QED
  BY <1>2, <1>6, WhenFits

LEMMA RoundtripFits ==
  ASSUME NEW j, j.dit \in NamesIn(Dits)
  PROVE  Whole(Roundtrip(j), Keys)
<1>1. Whole(<<>>, Keys) /\ FsqTok(j.dit) \in Keys /\ FsqDetok(j.dit) \in Keys
  BY NothingFits, KeysThere
<1>2. Whole(Attempt(FsqDetok(j.dit), <<>>), Keys)
  BY <1>1, AttemptFits
<1>3. Whole(Attempt(FsqTok(j.dit), Attempt(FsqDetok(j.dit), <<>>)), Keys)
  BY <1>1, <1>2, AttemptFits
<1> QED
  BY <1>3 DEF Roundtrip

LEMMA SynthFits ==
  ASSUME NEW j, Begun(j), j.task \in SynthTasks
  PROVE  Whole(Synth(j), Keys) /\ Needed(Synth(j), Dit(j.dit, j.adapter))
<1>0. j.vae \in NamesIn(Vaes) /\ j.dit \in NamesIn(Dits) /\ j.adapter \in Adapters
  BY DEF Begun, Found, SynthTasks
<1>k. /\ TextEnc \in Keys /\ CondEnc(j.dit) \in Keys /\ FsqDetok(j.dit) \in Keys
      /\ Dit(j.dit, j.adapter) \in Keys /\ VaeDec(j.vae) \in Keys
  BY <1>0, KeysThere
<1> DEFINE a == Encodes(j)
           b == When(j.task = "cover", Roundtrip(j))
           c == Text(j)
           d == When(j.task = "text2music" /\ j.src = "codes", Scope(FsqDetok(j.dit), <<>>))
           e == Scope(Dit(j.dit, j.adapter), <<>>)
           f == Scope(VaeDec(j.vae), <<>>)
           ab == a \o b
           abc == ab \o c
           before == abc \o d
           upto == before \o e
<1>1. Synth(j) = upto \o f
  BY DEF Synth
<1>2. Whole(a, Keys)
  BY <1>0, EncodesFits
<1>3. Whole(b, Keys)
  BY <1>0, RoundtripFits, WhenFits
<1>4. Whole(c, Keys)
  <2>1. Whole(Scope(TextEnc, <<>>), Keys) /\ Whole(Scope(CondEnc(j.dit), <<>>), Keys)
    BY <1>k, PlainFits
  <2>2. Whole(Scope(TextEnc, <<>>) \o Scope(CondEnc(j.dit), <<>>), Keys)
    BY <2>1, JoinedFits
  <2> QED
    BY <2>2 DEF Text
<1>5. Whole(d, Keys)
  BY <1>k, PlainFits, WhenFits
<1>6. Whole(e, Keys) /\ e \in Seq(Steps) /\ Needed(e, Dit(j.dit, j.adapter))
  BY <1>k, PlainFits, ScopeNeeds
<1>7. Whole(f, Keys) /\ f \in Seq(Steps)
  BY <1>k, PlainFits, ScopeNeeds
<1> HIDE DEF a, b, c, d, e, f
<1>8. Whole(ab, Keys)
  BY <1>2, <1>3, JoinedFits
<1> HIDE DEF ab
<1>9. Whole(abc, Keys)
  BY <1>4, <1>8, JoinedFits
<1> HIDE DEF abc
<1>10. Whole(before, Keys)
  BY <1>5, <1>9, JoinedFits
<1> HIDE DEF before
<1>11. Whole(upto, Keys) /\ Needed(upto, Dit(j.dit, j.adapter))
  BY <1>6, <1>10, JoinedFits, NeededAfter
<1> HIDE DEF upto
<1>12. upto \in Seq(Steps)
  BY <1>11 DEF Whole, Fits
<1>13. Whole(upto \o f, Keys) /\ Needed(upto \o f, Dit(j.dit, j.adapter))
  BY <1>7, <1>11, <1>12, JoinedFits, NeededBefore
<1> QED
  BY <1>1, <1>13

LEMMA UnderstandFits ==
  ASSUME NEW j, Begun(j), j.task = "understand"
  PROVE  Whole(Understand(j), Keys) /\ Needed(Understand(j), Lm(j.lm))
<1>0. j.vae \in NamesIn(Vaes) /\ j.dit \in NamesIn(Dits) /\ j.lm \in NamesIn(Lms)
  BY DEF Begun, Found
<1>k. VaeEnc(j.vae) \in Keys /\ FsqTok(j.dit) \in Keys /\ Lm(j.lm) \in Keys
  BY <1>0, KeysThere
<1> DEFINE a == When(j.src = "audio", Scope(VaeEnc(j.vae), <<>>))
           b == Scope(FsqTok(j.dit), <<>>)
           c == Scope(Lm(j.lm), <<>>)
           ab == a \o b
<1>1. Understand(j) = ab \o c
  BY DEF Understand
<1>2. Whole(a, Keys) /\ Whole(b, Keys)
  BY <1>k, PlainFits, WhenFits
<1>3. Whole(c, Keys) /\ c \in Seq(Steps) /\ Needed(c, Lm(j.lm))
  BY <1>k, PlainFits, ScopeNeeds
<1> HIDE DEF a, b, c
<1>4. Whole(ab, Keys)
  BY <1>2, JoinedFits
<1> HIDE DEF ab
<1>5. Whole(ab \o c, Keys) /\ Needed(ab \o c, Lm(j.lm))
  BY <1>3, <1>4, JoinedFits, NeededAfter
<1> QED
  BY <1>1, <1>5

\* The program of every task opens scopes of one key at a time, and cannot
\* come to its end without the modules it leaves the names of.
LEMMA ProgramFits ==
  ASSUME NEW j, Begun(j)
  PROVE  Whole(Program(j), Keys) /\ \A k \in Musts(j) : Needed(Program(j), k)
<1>1. CASE j.task \in SynthTasks
  <2>1. Program(j) = Synth(j) /\ Musts(j) = {Dit(j.dit, j.adapter)}
    BY <1>1 DEF Program, SynthTasks, Musts
  <2> QED
    BY <1>1, <2>1, SynthFits
<1>2. CASE j.task = "understand"
  <2>1. Program(j) = Understand(j) /\ Musts(j) = {Lm(j.lm)}
    BY <1>2 DEF Program, SynthTasks, Musts
  <2> QED
    BY <1>2, <2>1, UnderstandFits
<1>3. CASE j.task = "lm"
  <2>1. Program(j) = Scope(Lm(j.lm), <<>>) /\ Musts(j) = {Lm(j.lm)}
    BY <1>3 DEF Program, SynthTasks, Musts
  <2>2. Lm(j.lm) \in Keys
    BY <1>3, KeysThere DEF Begun, Found
  <2> QED
    BY <2>1, <2>2, PlainFits, ScopeNeeds
<1>4. CASE j.task \in {"decode", "encode"}
  <2> DEFINE k == IF j.task = "decode" THEN VaeDec(j.vae) ELSE VaeEnc(j.vae)
  <2>1. Program(j) = Scope(k, <<>>) /\ Musts(j) = {}
    BY <1>4 DEF Program, SynthTasks, Musts
  <2>2. j.vae \in NamesIn(Vaes)
    BY <1>4 DEF Begun, Found
  <2>3. k \in Keys
    BY <2>2, KeysThere
  <2> HIDE DEF k
  <2> QED
    BY <2>1, <2>3, PlainFits
<1> QED
  BY <1>1, <1>2, <1>3, <1>4 DEF Begun, Tasks

-----------------------------------------------------------------------------
(* The worker.                                                               *)

\* The handles that are out are those of the open scopes, all of one module.
HeldByStack ==
    /\ stack \in Seq(Addrs)
    /\ \A i \in 1 .. Len(stack) : stack[i] = stack[1]
    /\ \A b \in Addrs : held[b] = IF stack # <<>> /\ b = stack[1] THEN Len(stack) ELSE 0

\* The rest of the program closes the scopes that are open.
Planned ==
    \E D, K : /\ Fits(prog, D, K)
              /\ D[0] = Len(stack)
              /\ D[0] > 0 => K[0] \in Keys /\ gpu[K[0]].ptr = stack[1]

\* Under EVICT_NEVER, what the job will be remembered for is loaded or will be.
Remembering ==
    policy = "never" => \A k \in Musts(job) : Loaded(k) \/ Needed(prog, k)

Remembered ==
    /\ loadedLm \in NamesIn(Lms) \cup {""} /\ loadedDit \in NamesIn(Dits) \cup {""}
    /\ loadedLm # "" \/ loadedDit # "" => policy = "never"
    /\ StickyLoaded

WInv ==
    /\ StoreInv
    /\ NeverAborts
    /\ HeldByStack
    /\ mode \in {"idle", "running", "unwinding"}
    /\ mode = "idle" => stack = <<>>
    /\ mode = "running" => Begun(job) /\ Planned /\ Remembering
    /\ Remembered

LEMMA MustsAreKeys == ASSUME NEW j, Begun(j) PROVE Musts(j) \subseteq Keys
<1>1. j.task \in {"lm", "understand"} => Lm(j.lm) \in Keys
  BY KeysThere DEF Begun, Found
<1>2. j.task \in SynthTasks => Dit(j.dit, j.adapter) \in Keys
  BY KeysThere DEF Begun, Found
<1> QED
  BY <1>1, <1>2 DEF Musts

\* With one of its scopes open, only the module of it is held; without, none is.
LEMMA OnlyHeld ==
  ASSUME StoreInv, HeldByStack, NEW k \in Keys, Loaded(k), gpu[k].refs > 0
  PROVE  stack # <<>> /\ gpu[k].ptr = stack[1] /\ gpu[k].refs = Len(stack)
<1>1. gpu[k].ptr \in Addrs /\ gpu[k].refs = held[gpu[k].ptr]
  BY DEF StoreInv, MapsAgree, RefsAreHolds
<1> QED
  BY <1>1 DEF HeldByStack

\* Nothing that was remembered is unloaded.
LEMMA RememberedStays ==
  ASSUME StoreInv, StoreNext \/ UNCHANGED storeVars, policy' = policy, Remembered,
         loadedLm' = loadedLm, loadedDit' = loadedDit
  PROVE  Remembered'
<1>1. ASSUME policy = "never", NEW k \in Keys, gpu[k].ptr # Null PROVE gpu'[k].ptr # Null
  BY <1>1, StoreStays DEF Loaded, Resident, storeVars
<1>2. ASSUME loadedLm # "" PROVE gpu'[Lm(loadedLm)].ptr # Null
  <2>1. policy = "never" /\ gpu[Lm(loadedLm)].ptr # Null /\ Lm(loadedLm) \in Keys
    BY <1>2, KeysThere DEF Remembered, StickyLoaded, Loaded
  <2> QED
    BY <2>1, <1>1
<1>3. ASSUME loadedDit # "" PROVE \E a \in Adapters : gpu'[Dit(loadedDit, a)].ptr # Null
  <2>1. policy = "never" /\ \E a \in Adapters : gpu[Dit(loadedDit, a)].ptr # Null
    BY <1>3 DEF Remembered, StickyLoaded, Loaded
  <2>2. \A a \in Adapters : Dit(loadedDit, a) \in Keys
    BY <1>3, KeysThere DEF Remembered
  <2> QED
    BY <2>1, <2>2, <1>1
<1>4. StickyLoaded'
  BY <1>2, <1>3 DEF StickyLoaded, Loaded, Lm, Dit, Key
<1> QED
  BY <1>4 DEF Remembered, NamesIn

LEMMA OneMore ==
  ASSUME NEW S, NEW s \in Seq(S), NEW e \in S, NEW t, t = Append(s, e)
  PROVE  /\ t \in Seq(S) /\ Len(t) = Len(s) + 1 /\ Len(s) \in Nat
         /\ t[Len(s) + 1] = e
         /\ \A l \in 1 .. Len(s) : t[l] = s[l]
OBVIOUS

LEMMA OneLess ==
  ASSUME NEW S, NEW s \in Seq(S), s # <<>>, NEW t, t = Front(s)
  PROVE  /\ t \in Seq(S) /\ Len(t) = Len(s) - 1 /\ Len(s) \in Nat \ {0}
         /\ \A l \in 1 .. Len(s) - 1 : t[l] = s[l]
         /\ Last(s) = s[Len(s)]
<1>1. Len(s) \in Nat \ {0}
  OBVIOUS
<1> DEFINE n == Len(s) - 1
<1>2. t = SubSeq(s, 1, n)
  BY DEF Front
<1>3. n \in Nat /\ n <= Len(s)
  BY <1>1
<1> HIDE DEF n
<1>4. t \in Seq(S) /\ Len(t) = n /\ \A l \in 1 .. n : t[l] = s[l]
  BY <1>2, <1>3
<1> QED
  BY <1>1, <1>4 DEF n, Last

\* The handle of the innermost scope is given back.
LEMMA TopReleased ==
  ASSUME StoreInv, HeldByStack, stack # <<>>, Release(Last(stack)), stack' = Front(stack)
  PROVE  /\ StoreNext /\ HeldByStack' /\ Len(stack') = Len(stack) - 1
         /\ policy' = policy /\ dead' = dead
         /\ \A k \in Keys : stack' # <<>> /\ gpu[k].ptr = stack[1] =>
               gpu'[k].ptr = gpu[k].ptr /\ stack'[1] = stack[1]
<1> DEFINE a == stack[1]
           n == Len(stack)
<1>1. /\ stack \in Seq(Addrs) /\ n \in Nat \ {0} /\ a \in Addrs /\ Last(stack) = a
      /\ stack' \in Seq(Addrs) /\ Len(stack') = n - 1
      /\ \A i \in 1 .. n - 1 : stack'[i] = a
  <2>1. stack \in Seq(Addrs) /\ \A i \in 1 .. Len(stack) : stack[i] = stack[1]
    BY DEF HeldByStack
  <2> QED
    BY <2>1, OneLess
<1>2. held[a] = n /\ \A b \in Addrs : b # a => held[b] = 0
  BY <1>1 DEF HeldByStack
<1>n. n = Len(stack)
  OBVIOUS
<1>a. a = stack[1]
  OBVIOUS
<1> HIDE DEF a, n
<1>3. held[a] > 0 /\ Release(a)
  BY <1>1, <1>2
<1>4. StoreNext
  BY <1>1, <1>3 DEF StoreNext
<1>5. /\ held' = [held EXCEPT ![a] = held[a] - 1] /\ policy' = policy /\ dead' = dead
      /\ held \in [Addrs -> Nat]
  BY <1>3 DEF Release, StoreInv, StoreTypeOK
<1>6. stack' # <<>> => n - 1 >= 1 /\ stack'[1] = a
  BY <1>1
<1>7. HeldByStack'
  <2>1. \A b \in Addrs : held'[b] = IF b = a THEN n - 1 ELSE 0
    BY <1>1, <1>2, <1>5
  <2>2. stack' = <<>> => n - 1 = 0
    BY <1>1
  <2>3. ASSUME NEW i \in 1 .. Len(stack') PROVE stack'[i] = stack'[1]
    BY <1>1
  <2>4. ASSUME NEW b \in Addrs
        PROVE  held'[b] = IF stack' # <<>> /\ b = stack'[1] THEN Len(stack') ELSE 0
    BY <1>1, <1>6, <2>1, <2>2
  <2> QED
    BY <1>1, <2>3, <2>4 DEF HeldByStack
<1>8. ASSUME NEW k \in Keys, stack' # <<>>, gpu[k].ptr = a PROVE gpu'[k].ptr = gpu[k].ptr
  <2>1. Loaded(k) /\ owner[a] = k /\ gpu[k].refs = n
    BY <1>1, <1>2, <1>8, NullAssumption DEF Loaded, StoreInv, MapsAgree, RefsAreHolds
  <2>2. gpu[k].refs # 1
    BY <2>1, <1>1, <1>6, <1>8
  <2>3. gpu' = [gpu EXCEPT ![k].refs = gpu[k].refs - 1]
    BY <2>1, <2>2, <1>3, NoKeyAssumption DEF Release
  <2> QED
    BY <2>3 DEF StoreInv, StoreTypeOK
<1> QED
  BY <1>1, <1>4, <1>5, <1>6, <1>7, <1>8, <1>n, <1>a

-----------------------------------------------------------------------------
LEMMA InitWorks == Init => WInv
<1> SUFFICES ASSUME Init PROVE WInv
  OBVIOUS
<1>0. /\ mode = "idle" /\ stack = <<>> /\ prog = <<>>
      /\ loadedLm = "" /\ loadedDit = "" /\ StoreInit
  BY DEF Init
<1>1. StoreInv /\ NeverAborts
  BY <1>0, StoreInitEstablishes DEF StoreInit, NeverAborts
<1>2. HeldByStack
  <2>1. stack \in Seq(Addrs) /\ \A i \in 1 .. Len(stack) : stack[i] = stack[1]
    <3>1. stack = <<>>
      BY <1>0
    <3>2. stack \in Seq(Addrs) /\ Len(stack) = 0
      BY <3>1
    <3> QED
      BY <3>2
  <2>2. \A b \in Addrs : held[b] = 0
    BY <1>0 DEF StoreInit
  <2> QED
    BY <1>0, <2>1, <2>2, Zenon DEF HeldByStack
<1>3. Remembered
  BY <1>0 DEF Remembered, StickyLoaded
<1> QED
  BY <1>0, <1>1, <1>2, <1>3 DEF WInv

LEMMA BeginWorks ==
  ASSUME WInv, NEW task \in Tasks, NEW src, NEW ref, NEW lm, NEW dit, NEW vae,
         NEW adapter \in Adapters, Begin(task, src, ref, lm, dit, vae, adapter)
  PROVE  WInv'
<1>0. /\ mode = "idle" /\ mode' = "running" /\ stack = <<>> /\ stack' = stack
      /\ UNCHANGED <<policy, gpu, owner, held, dead, loadedLm, loadedDit>>
  BY DEF Begin, storeVars, stickyVars, WInv
<1>1. /\ job'.task = task /\ job'.adapter = adapter /\ Found(job') /\ prog' = Program(job')
  BY DEF Begin
<1>2. Begun(job')
  BY <1>1 DEF Begun
<1>3. Whole(prog', Keys) /\ \A k \in Musts(job') : Needed(prog', k)
  BY <1>1, <1>2, ProgramFits
<1>4. PICK D, K : Fits(prog', D, K) /\ D[0] = 0
  BY <1>3 DEF Whole
<1>5. D[0] = Len(stack')
  BY <1>0, <1>4
<1>6. Planned'
  BY <1>4, <1>5 DEF Planned
<1>7. Remembering'
  BY <1>3 DEF Remembering
<1>8. StoreInv' /\ NeverAborts' /\ HeldByStack' /\ Remembered'
  BY <1>0 DEF WInv, StoreInv, StoreTypeOK, MapsAgree, NothingStray, RefsAreHolds,
              StrictKeepsOne, Resident, Loaded, NeverAborts, HeldByStack, Remembered, StickyLoaded
<1>9. Begun(job)'
  BY <1>2 DEF Begun, Found, NamesIn
<1> QED
  BY <1>0, <1>6, <1>7, <1>8, <1>9 DEF WInv

\* The first step of a program that fits, and what is left after it.
LEMMA FirstStep ==
  ASSUME NEW p, NEW D, NEW K, Fits(p, D, K), p # <<>>
  PROVE  /\ p \in Seq(Steps) /\ Len(p) \in Nat \ {0} /\ p[1] = Head(p)
         /\ Opens(p, D, K, 1) \/ Closes(p, D, K, 1)
         /\ D[0] \in Nat /\ D[1] \in Nat
         /\ Tail(p) \in Seq(Steps) /\ Len(Tail(p)) = Len(p) - 1
         /\ \A i \in 1 .. Len(Tail(p)) : Tail(p)[i] = p[i + 1]
<1>1. p \in Seq(Steps) /\ Len(p) \in Nat \ {0} /\ p[1] = Head(p)
  BY DEF Fits
<1>2. Opens(p, D, K, 1) \/ Closes(p, D, K, 1)
  BY <1>1 DEF Fits
<1>3. D[0] \in Nat /\ D[1] \in Nat
  BY <1>1 DEF Fits
<1>4. /\ Tail(p) \in Seq(Steps) /\ Len(Tail(p)) = Len(p) - 1
      /\ \A i \in 1 .. Len(Tail(p)) : Tail(p)[i] = p[i + 1]
  BY <1>1
<1> QED
  BY <1>1, <1>2, <1>3, <1>4

\* The module of the open scopes is loaded.
LEMMA OpenIsLoaded ==
  ASSUME StoreInv, HeldByStack, NEW k \in Keys, Len(stack) > 0, gpu[k].ptr = stack[1]
  PROVE  Loaded(k)
<1>1. stack[1] \in Addrs
  BY DEF HeldByStack
<1> QED
  BY <1>1, NullAssumption DEF Loaded

\* What the job is remembered for stays loaded, or is still ahead.
LEMMA RememberingStays ==
  ASSUME StoreInv, StoreNext \/ UNCHANGED storeVars, policy' = policy,
         Begun(job), job' = job, Remembering,
         \A k \in Musts(job) : Needed(prog, k) => Needed(prog', k) \/ Loaded(k)'
  PROVE  Remembering'
<1>1. ASSUME policy = "never", NEW k \in Musts(job)
      PROVE  gpu'[k].ptr # Null \/ Needed(prog', k)
  <2>1. k \in Keys
    BY MustsAreKeys
  <2>2. gpu[k].ptr # Null => gpu'[k].ptr # Null
    BY <1>1, <2>1, StoreStays DEF Loaded, Resident, storeVars
  <2>3. gpu[k].ptr # Null \/ Needed(prog, k)
    BY <1>1 DEF Remembering, Loaded
  <2> QED
    BY <2>2, <2>3 DEF Loaded
<1>2. policy' = "never" => \A k \in Musts(job') : gpu'[k].ptr # Null \/ Needed(prog', k)
  BY <1>1
<1> QED
  BY <1>2, Zenon DEF Remembering, Loaded, Musts, Needed

\* What is left after m steps, still needed unless the first of them took it.
LEMMA NeededOn ==
  ASSUME NEW p \in Seq(Steps), NEW k, Needed(p, k), NEW m \in 1 .. Len(p),
         m = 1 \/ (p[1].loss # Job /\ m = 1 + p[1].loss),
         NEW q \in Seq(Steps), Len(q) = Len(p) - m, \A l \in 1 .. Len(q) : q[l] = p[l + m]
  PROVE  Needed(q, k) \/ (m = 1 /\ p[1] = Take(k, Job))
<1>1. PICK i \in 1 .. Len(p) :
         /\ p[i] = Take(k, Job)
         /\ \A l \in 1 .. i - 1 : p[l].loss # Job => l + p[l].loss < i
  BY DEF Needed
<1>2. Len(p) \in Nat /\ i \in Nat \ {0} /\ m \in Nat \ {0}
  OBVIOUS
<1>3. CASE i = 1
  <2>1. p[1].loss = Job
    BY <1>1, <1>3 DEF Take
  <2> QED
    BY <1>1, <1>3, <2>1
<1>4. CASE i # 1
  <2>1. 1 \in 1 .. i - 1
    BY <1>2, <1>4
  <2>2. m \in 0 .. i - 1
    BY <2>1, <1>1, <1>2
  <2> QED
    BY <2>2, <1>1, RestNeeds
<1> QED
  BY <1>3, <1>4

\* The rest of the program is planned, with the scopes that are then open.
LEMMA StillPlanned ==
  ASSUME NEW D, NEW K, Fits(prog, D, K), NEW m \in 0 .. Len(prog),
         prog' \in Seq(Steps), Len(prog') = Len(prog) - m,
         \A i \in 1 .. Len(prog') : prog'[i] = prog[i + m],
         Len(stack') = D[m],
         D[m] > 0 => K[m] \in Keys /\ gpu'[K[m]].ptr = stack'[1]
  PROVE  Planned'
<1>1. PICK D1, K1 : Fits(prog', D1, K1) /\ D1[0] = D[m] /\ K1[0] = K[m]
  BY RestFits
<1>2. D1[0] > 0 => K1[0] \in Keys /\ gpu'[K1[0]].ptr = stack'[1]
  BY <1>1
<1>3. D1[0] = Len(stack')
  BY <1>1
<1> QED
  BY <1>1, <1>2, <1>3 DEF Planned

\* What a step of the worker that keeps the store's contract leaves alone.
LEMMA StoreKept ==
  ASSUME WInv, StoreNext \/ UNCHANGED storeVars, policy' = policy,
         loadedLm' = loadedLm, loadedDit' = loadedDit
  PROVE  StoreInv' /\ Remembered'
<1>1. StoreInv /\ Remembered
  BY DEF WInv
<1>2. StoreInv'
  BY <1>1, StoreStepKeeps
<1> QED
  BY <1>1, <1>2, RememberedStays

LEMMA RunsOn ==
  ASSUME WInv, mode = "running", mode' = "running", job' = job, StoreNext,
         policy' = policy, loadedLm' = loadedLm, loadedDit' = loadedDit,
         dead' # "abort", HeldByStack', Planned',
         \A k \in Musts(job) : Needed(prog, k) => Needed(prog', k) \/ Loaded(k)'
  PROVE  WInv'
<1>1. StoreInv /\ Begun(job) /\ Remembering
  BY DEF WInv
<1>2. StoreInv' /\ Remembered'
  BY StoreKept
<1>3. Remembering'
  BY <1>1, RememberingStays
<1>4. Begun(job)'
  BY <1>1 DEF Begun, Found, NamesIn
<1> QED
  BY <1>2, <1>3, <1>4 DEF WInv, NeverAborts

\* The handle of a newly opened scope joins those of the same module.
LEMMA TopTaken ==
  ASSUME StoreInv, HeldByStack, NEW a \in Addrs, stack # <<>> => stack[1] = a,
         held' = [held EXCEPT ![a] = held[a] + 1], stack' = Append(stack, a)
  PROVE  HeldByStack' /\ Len(stack') = Len(stack) + 1 /\ stack'[1] = a
<1> DEFINE n == Len(stack)
<1>1. /\ stack \in Seq(Addrs) /\ n \in Nat /\ (n = 0 <=> stack = <<>>)
      /\ \A i \in 1 .. n : stack[i] = stack[1]
  BY DEF HeldByStack
<1>2. /\ stack' \in Seq(Addrs) /\ Len(stack') = n + 1 /\ stack'[n + 1] = a
      /\ \A i \in 1 .. n : stack'[i] = stack[i]
  BY <1>1, OneMore
<1>3. held \in [Addrs -> Nat]
  BY DEF StoreInv, StoreTypeOK
<1>4. \A b \in Addrs : held[b] = IF stack # <<>> /\ b = stack[1] THEN n ELSE 0
  BY DEF HeldByStack
<1>n. n = Len(stack)
  OBVIOUS
<1> HIDE DEF n
<1>5. \A i \in 1 .. n + 1 : stack'[i] = a
  BY <1>1, <1>2
<1>6. stack' # <<>> /\ stack'[1] = a /\ 1 \in 1 .. n + 1
  BY <1>1, <1>2, <1>5
<1>7. \A b \in Addrs : held'[b] = IF b = a THEN n + 1 ELSE 0
  <2>1. held[a] = n
    BY <1>1, <1>4
  <2>2. \A b \in Addrs : b # a => held[b] = 0
    BY <1>4
  <2> QED
    BY <2>1, <2>2, <1>3
<1>8. \A i \in 1 .. Len(stack') : stack'[i] = stack'[1]
  BY <1>2, <1>5, <1>6
<1>9. \A b \in Addrs : held'[b] = IF stack' # <<>> /\ b = stack'[1] THEN Len(stack') ELSE 0
  BY <1>2, <1>6, <1>7
<1> QED
  BY <1>2, <1>6, <1>8, <1>9, <1>n DEF HeldByStack

LEMMA RequireKeeps == ASSUME WInv, Require PROVE WInv'
<1> DEFINE k == Head(prog).key
<1>0. /\ mode = "running" /\ prog # <<>> /\ Head(prog).op = "take"
      /\ mode' = mode /\ job' = job /\ loadedLm' = loadedLm /\ loadedDit' = loadedDit
  BY DEF Require, NextIs, stickyVars
<1>1. /\ \/ /\ Hit(k) \/ Load(k, AddressOf[k])
            /\ stack' = Append(stack, gpu'[k].ptr)
            /\ prog' = Tail(prog)
         \/ Clash(k)
  BY DEF Require
<1>2. StoreInv /\ HeldByStack /\ Begun(job) /\ NeverAborts
  BY <1>0 DEF WInv
<1>3. PICK D, K : /\ Fits(prog, D, K)
                  /\ D[0] = Len(stack)
                  /\ D[0] > 0 => K[0] \in Keys /\ gpu[K[0]].ptr = stack[1]
  BY <1>0 DEF WInv, Planned
<1>4. /\ prog \in Seq(Steps) /\ Len(prog) \in Nat \ {0} /\ prog[1] = Head(prog)
      /\ Opens(prog, D, K, 1) \/ Closes(prog, D, K, 1)
      /\ D[0] \in Nat /\ D[1] \in Nat
      /\ Tail(prog) \in Seq(Steps) /\ Len(Tail(prog)) = Len(prog) - 1
      /\ \A i \in 1 .. Len(Tail(prog)) : Tail(prog)[i] = prog[i + 1]
  BY <1>0, <1>3, FirstStep
<1>5. Opens(prog, D, K, 1)
  <2>1. prog[1].op # "give"
    BY <1>0, <1>4
  <2> QED
    BY <2>1, <1>4 DEF Closes
<1>6. k \in Keys /\ D[1] = D[0] + 1 /\ K[1] = k /\ (D[0] > 0 => K[0] = k)
  BY <1>4, <1>5 DEF Opens
<1> HIDE DEF k
<1>7. Len(stack) > 0 => Loaded(k) /\ gpu[k].ptr = stack[1]
  BY <1>2, <1>3, <1>6, OpenIsLoaded
<1>s. stack \in Seq(Addrs) /\ (stack # <<>> <=> Len(stack) > 0)
  BY <1>2 DEF HeldByStack
<1>8. ASSUME Clash(k) PROVE FALSE
  <2>1. PICK q \in Evictable(k) : gpu[q].refs > 0
    BY <1>8 DEF Clash
  <2>2. q \in Keys /\ Loaded(q) /\ q # k
    BY <2>1 DEF Evictable, Resident
  <2>3. stack # <<>>
    BY <1>2, <2>1, <2>2, OnlyHeld
  <2> QED
    BY <2>3, <1>7, <1>8, <1>s DEF Clash
<1> DEFINE a == gpu'[k].ptr
<1>9. /\ Hit(k) \/ Load(k, AddressOf[k])
      /\ stack' = Append(stack, a)
      /\ prog' = Tail(prog)
  BY <1>1, <1>8
<1>10. AddressOf[k] \in Addrs
  BY <1>6, AddressAssumption
<1>11. StoreNext /\ policy' = policy /\ dead' = dead
  BY <1>6, <1>9, <1>10 DEF StoreNext, Hit, Load
<1>12. a \in Addrs /\ held' = [held EXCEPT ![a] = held[a] + 1] /\ (Len(stack) > 0 => a = stack[1])
  <2>1. CASE Hit(k)
    <3>1. gpu' = [gpu EXCEPT ![k].refs = gpu[k].refs + 1] /\ Loaded(k)
          /\ held' = [held EXCEPT ![gpu[k].ptr] = held[gpu[k].ptr] + 1]
      BY <2>1 DEF Hit
    <3>2. a = gpu[k].ptr
      BY <3>1, <1>2, <1>6 DEF StoreInv, StoreTypeOK
    <3>3. a \in Addrs
      BY <3>1, <3>2, <1>2, <1>6 DEF StoreInv, MapsAgree
    <3> QED
      BY <3>1, <3>2, <3>3, <1>7
  <2>2. CASE Load(k, AddressOf[k])
    <3>1. /\ gpu' = [GpuWithout(Evictable(k)) EXCEPT ![k] = [ptr |-> AddressOf[k], refs |-> 1]]
          /\ ~Loaded(k)
          /\ held' = [held EXCEPT ![AddressOf[k]] = held[AddressOf[k]] + 1]
      BY <2>2 DEF Load
    <3>2. a = AddressOf[k]
      BY <3>1, <1>6 DEF GpuWithout
    <3> QED
      BY <3>1, <3>2, <1>7, <1>10
  <2> QED
    BY <1>9, <2>1, <2>2
<1>a. a = gpu'[k].ptr
  OBVIOUS
<1> HIDE DEF a
<1>13. HeldByStack' /\ Len(stack') = Len(stack) + 1 /\ stack'[1] = a
  BY <1>2, <1>9, <1>12, <1>s, TopTaken
<1>14. Planned'
  <2>1. /\ 1 \in 0 .. Len(prog) /\ prog' \in Seq(Steps) /\ Len(prog') = Len(prog) - 1
        /\ \A i \in 1 .. Len(prog') : prog'[i] = prog[i + 1]
    BY <1>4, <1>9
  <2>2. Len(stack') = D[1] /\ (D[1] > 0 => K[1] \in Keys /\ gpu'[K[1]].ptr = stack'[1])
    BY <1>3, <1>6, <1>13, <1>a
  <2> QED
    BY <1>3, <2>1, <2>2, StillPlanned
<1>15. ASSUME NEW q \in Musts(job), Needed(prog, q) PROVE Needed(prog', q) \/ Loaded(q)'
  <2>1. /\ 1 \in 1 .. Len(prog) /\ prog' \in Seq(Steps) /\ Len(prog') = Len(prog) - 1
        /\ \A i \in 1 .. Len(prog') : prog'[i] = prog[i + 1]
    BY <1>4, <1>9
  <2>2. Needed(prog', q) \/ prog[1] = Take(q, Job)
    BY <1>4, <1>15, <2>1, NeededOn
  <2>3. ASSUME prog[1] = Take(q, Job) PROVE q = k
    BY <2>3, <1>4 DEF Take, k
  <2>4. gpu'[k].ptr # Null
    BY <1>12, <1>a, NullAssumption
  <2> QED
    BY <2>2, <2>3, <2>4 DEF Loaded
<1>16. dead' # "abort"
  BY <1>2, <1>11 DEF NeverAborts
<1> QED
  BY <1>0, <1>11, <1>13, <1>14, <1>15, <1>16, RunsOn

\* A step after which no program runs.
LEMMA Leaves ==
  ASSUME WInv, mode' \in {"idle", "unwinding"}, StoreNext \/ UNCHANGED storeVars,
         policy' = policy, loadedLm' = loadedLm, loadedDit' = loadedDit,
         dead' # "abort", HeldByStack', mode' = "idle" => stack' = <<>>
  PROVE  WInv'
<1>1. StoreInv' /\ Remembered'
  BY StoreKept
<1> QED
  BY <1>1 DEF WInv, NeverAborts

LEMMA SkipsOver ==
  ASSUME NEW S, NEW p \in Seq(S), NEW n \in Nat, 1 + n <= Len(p),
         NEW q, q = SubSeq(p, n + 2, Len(p))
  PROVE  /\ q \in Seq(S) /\ Len(q) = Len(p) - (1 + n)
         /\ \A i \in 1 .. Len(q) : q[i] = p[i + (1 + n)]
<1> DEFINE a == n + 2
           b == Len(p)
<1>1. a \in Int /\ b \in Int /\ a <= b + 1 /\ b - a + 1 = Len(p) - (1 + n)
  OBVIOUS
<1>2. ASSUME NEW i \in a .. b PROVE p[i] \in S
  OBVIOUS
<1>3. ASSUME NEW i \in 1 .. b - a + 1 PROVE a + i - 1 = i + (1 + n)
  OBVIOUS
<1>4. q = SubSeq(p, a, b)
  OBVIOUS
<1> HIDE DEF a, b
<1>5. /\ q \in Seq(S)
      /\ Len(q) = IF a <= b THEN b - a + 1 ELSE 0
      /\ \A i \in 1 .. b - a + 1 : q[i] = p[a + i - 1]
  BY ONLY <1>1, <1>2, <1>4, SubSeqProperties
<1>6. Len(q) = b - a + 1
  BY ONLY <1>1, <1>5
<1> QED
  BY ONLY <1>1, <1>3, <1>5, <1>6

LEMMA RequireNullKeeps == ASSUME WInv, RequireNull PROVE WInv'
<1> DEFINE k == Head(prog).key
           l == Head(prog).loss
<1>0. /\ mode = "running" /\ prog # <<>> /\ Head(prog).op = "take" /\ LoadFails(k)
      /\ job' = job /\ stack' = stack /\ loadedLm' = loadedLm /\ loadedDit' = loadedDit
  BY DEF RequireNull, NextIs, stickyVars
<1>1. IF l = Job THEN mode' = "unwinding" /\ prog' = <<>>
                 ELSE prog' = Skip(l) /\ mode' = mode
  BY DEF RequireNull
<1>2. StoreInv /\ HeldByStack /\ Begun(job)
  BY <1>0 DEF WInv
<1>3. PICK D, K : /\ Fits(prog, D, K)
                  /\ D[0] = Len(stack)
                  /\ D[0] > 0 => K[0] \in Keys /\ gpu[K[0]].ptr = stack[1]
  BY <1>0 DEF WInv, Planned
<1>4. /\ prog \in Seq(Steps) /\ Len(prog) \in Nat \ {0} /\ prog[1] = Head(prog)
      /\ Opens(prog, D, K, 1) \/ Closes(prog, D, K, 1)
      /\ D[0] \in Nat
  BY <1>0, <1>3, FirstStep
<1>5. Opens(prog, D, K, 1)
  <2>1. prog[1].op # "give"
    BY <1>0, <1>4
  <2> QED
    BY <2>1, <1>4 DEF Closes
<1>6. /\ k \in Keys /\ D[1] = D[0] + 1 /\ K[1] = k /\ (D[0] > 0 => K[0] = k)
      /\ l # Job => l \in Nat /\ 1 + l <= Len(prog) /\ Alike(D, K, 0, 1 + l)
  BY <1>4, <1>5 DEF Opens
<1> HIDE DEF k, l
<1>7. StoreNext /\ policy' = policy /\ held' = held /\ dead' # "abort"
  BY <1>0, <1>6 DEF StoreNext, LoadFails
<1>8. Len(stack) = 0
  <2>1. Len(stack) > 0 => Loaded(k)
    BY <1>2, <1>3, <1>6, OpenIsLoaded
  <2>2. Len(stack) \in Nat
    BY <1>2 DEF HeldByStack
  <2> QED
    BY <2>1, <2>2, <1>0 DEF LoadFails
<1>9. HeldByStack'
  BY <1>0, <1>2, <1>7 DEF HeldByStack
<1>10. CASE l = Job
  BY <1>0, <1>1, <1>7, <1>9, <1>10, Leaves
<1>11. CASE l # Job
  <2> DEFINE m == 1 + l
  <2>1. l \in Nat /\ m <= Len(prog) /\ D[0] = D[m] /\ prog' = SubSeq(prog, l + 2, Len(prog))
    BY <1>1, <1>6, <1>11 DEF Skip, Alike
  <2>2. /\ prog' \in Seq(Steps) /\ Len(prog') = Len(prog) - m
        /\ \A i \in 1 .. Len(prog') : prog'[i] = prog[i + m]
    <3>1. prog \in Seq(Steps) /\ l \in Nat /\ 1 + l <= Len(prog)
      BY <2>1, <1>4
    <3> QED
      BY ONLY <3>1, <2>1, SkipsOver
  <2>3. m \in 1 .. Len(prog) /\ m \in 0 .. Len(prog) /\ m = 1 + l
    BY <2>1, <1>4
  <2> HIDE DEF m
  <2>4. Planned'
    <3>1. Len(stack') = D[m] /\ ~(D[m] > 0)
      BY <1>0, <1>3, <1>8, <2>1
    <3> QED
      BY <3>1, <1>3, <2>2, <2>3, StillPlanned
  <2>5. ASSUME NEW q \in Musts(job), Needed(prog, q) PROVE Needed(prog', q) \/ Loaded(q)'
    <3>1. prog[1].loss # Job /\ m = 1 + prog[1].loss
      BY <1>4, <1>11, <2>3 DEF l
    <3>2. prog[1] # Take(q, Job)
      BY <3>1 DEF Take
    <3> QED
      BY <1>4, <2>5, <2>2, <2>3, <3>1, <3>2, NeededOn
  <2> QED
    BY <1>0, <1>1, <1>7, <1>9, <1>11, <2>4, <2>5, RunsOn
<1> QED
  BY <1>10, <1>11

LEMMA ReleaseTopKeeps == ASSUME WInv, ReleaseTop PROVE WInv'
<1> DEFINE l == Head(prog).loss
<1>0. /\ mode = "running" /\ mode' = mode /\ prog # <<>> /\ Head(prog).op = "give"
      /\ Release(Last(stack)) /\ stack' = Front(stack)
      /\ job' = job /\ loadedLm' = loadedLm /\ loadedDit' = loadedDit
  BY DEF ReleaseTop, NextIs, stickyVars
<1>1. prog' = Tail(prog) \/ (l # Job /\ prog' = Skip(l))
  BY DEF ReleaseTop
<1>2. StoreInv /\ HeldByStack /\ Begun(job) /\ NeverAborts
  BY <1>0 DEF WInv
<1>3. PICK D, K : /\ Fits(prog, D, K)
                  /\ D[0] = Len(stack)
                  /\ D[0] > 0 => K[0] \in Keys /\ gpu[K[0]].ptr = stack[1]
  BY <1>0 DEF WInv, Planned
<1>4. /\ prog \in Seq(Steps) /\ Len(prog) \in Nat \ {0} /\ prog[1] = Head(prog)
      /\ Opens(prog, D, K, 1) \/ Closes(prog, D, K, 1)
      /\ D[0] \in Nat /\ D[1] \in Nat
      /\ Tail(prog) \in Seq(Steps) /\ Len(Tail(prog)) = Len(prog) - 1
      /\ \A i \in 1 .. Len(Tail(prog)) : Tail(prog)[i] = prog[i + 1]
  BY <1>0, <1>3, FirstStep
<1>5. Closes(prog, D, K, 1)
  <2>1. prog[1].op # "take"
    BY <1>0, <1>4
  <2> QED
    BY <2>1, <1>4 DEF Opens
<1>6. /\ D[0] = D[1] + 1 /\ (D[1] > 0 => K[1] = K[0])
      /\ l # Job => l \in Nat /\ 1 + l <= Len(prog) /\ Alike(D, K, 1, 1 + l)
  BY <1>4, <1>5 DEF Closes
<1> HIDE DEF l
<1>7. stack # <<>>
  <2>1. Len(stack) # 0
    BY <1>3, <1>4, <1>6
  <2> QED
    BY <2>1
<1>8. /\ StoreNext /\ HeldByStack' /\ Len(stack') = Len(stack) - 1
      /\ policy' = policy /\ dead' = dead
      /\ \A k \in Keys : stack' # <<>> /\ gpu[k].ptr = stack[1] =>
            gpu'[k].ptr = gpu[k].ptr /\ stack'[1] = stack[1]
  BY <1>0, <1>2, <1>7, TopReleased
<1>9. dead' # "abort"
  BY <1>2, <1>8 DEF NeverAborts
<1>10. Len(stack') = D[1] /\ (D[1] > 0 => K[1] \in Keys /\ gpu'[K[1]].ptr = stack'[1])
  <2>1. Len(stack') = D[1]
    <3>1. Len(stack') = Len(stack) - 1 /\ Len(stack) = D[1] + 1 /\ D[1] \in Nat
      BY <1>3, <1>4, <1>6, <1>8
    <3> QED
      BY <3>1
  <2>2. D[1] > 0 => stack' # <<>>
    BY <2>1
  <2>3. D[1] > 0 => K[1] \in Keys /\ gpu[K[1]].ptr = stack[1]
    BY <1>3, <1>4, <1>6
  <2> QED
    BY <2>1, <2>2, <2>3, <1>8
<1>11. \E m \in 1 .. Len(prog) :
          /\ m = 1 \/ (l # Job /\ m = 1 + l)
          /\ D[m] = D[1] /\ (D[1] > 0 => K[m] = K[1])
          /\ prog' \in Seq(Steps) /\ Len(prog') = Len(prog) - m
          /\ \A i \in 1 .. Len(prog') : prog'[i] = prog[i + m]
  <2>1. CASE prog' = Tail(prog)
    <3>1. 1 \in 1 .. Len(prog)
      BY <1>4
    <3> QED
      BY <3>1, <2>1, <1>4
  <2>2. CASE l # Job /\ prog' = Skip(l)
    <3> DEFINE m == 1 + l
    <3>1. l \in Nat /\ m <= Len(prog) /\ D[m] = D[1] /\ (D[1] > 0 => K[m] = K[1])
          /\ prog' = SubSeq(prog, l + 2, Len(prog))
      BY <2>2, <1>6 DEF Skip, Alike
    <3>2. /\ prog' \in Seq(Steps) /\ Len(prog') = Len(prog) - m
          /\ \A i \in 1 .. Len(prog') : prog'[i] = prog[i + m]
      <4>1. l + 2 = l + 2 /\ l \in Nat /\ 1 + l <= Len(prog) /\ prog \in Seq(Steps)
            /\ prog' = SubSeq(prog, l + 2, Len(prog))
        BY <3>1, <1>4
      <4> HIDE DEF m
      <4>2. /\ prog' \in Seq(Steps) /\ Len(prog') = Len(prog) - (1 + l)
            /\ \A i \in 1 .. Len(prog') : prog'[i] = prog[i + (1 + l)]
        BY <4>1, SkipsOver
      <4> QED
        BY <4>2 DEF m
    <3>3. m \in 1 .. Len(prog) /\ m = 1 + l
      BY <3>1, <1>4
    <3> HIDE DEF m
    <3> QED
      BY <2>2, <3>1, <3>2, <3>3
  <2> QED
    BY <1>1, <2>1, <2>2
<1>12. PICK m \in 1 .. Len(prog) :
          /\ m = 1 \/ (l # Job /\ m = 1 + l)
          /\ D[m] = D[1] /\ (D[1] > 0 => K[m] = K[1])
          /\ prog' \in Seq(Steps) /\ Len(prog') = Len(prog) - m
          /\ \A i \in 1 .. Len(prog') : prog'[i] = prog[i + m]
  BY <1>11
<1>13. Planned'
  <2>1. m \in 0 .. Len(prog) /\ Len(stack') = D[m]
        /\ (D[m] > 0 => K[m] \in Keys /\ gpu'[K[m]].ptr = stack'[1])
    BY <1>4, <1>10, <1>12
  <2> QED
    BY <2>1, <1>3, <1>12, StillPlanned
<1>14. ASSUME NEW q \in Musts(job), Needed(prog, q) PROVE Needed(prog', q) \/ Loaded(q)'
  <2>1. m = 1 \/ (prog[1].loss # Job /\ m = 1 + prog[1].loss)
    BY <1>4, <1>12 DEF l
  <2>2. prog[1] # Take(q, Job)
    BY <1>0, <1>4 DEF Take
  <2> QED
    BY <1>4, <1>12, <1>14, <2>1, <2>2, NeededOn
<1> QED
  BY <1>0, <1>8, <1>9, <1>13, <1>14, RunsOn

LEMMA JobFailsKeeps == ASSUME WInv, JobFails PROVE WInv'
<1>1. /\ mode' = "unwinding" /\ stack' = stack /\ UNCHANGED storeVars
      /\ loadedLm' = loadedLm /\ loadedDit' = loadedDit
  BY DEF JobFails, stickyVars
<1>2. policy' = policy /\ held' = held /\ dead' = dead
  BY <1>1 DEF storeVars
<1>3. HeldByStack' /\ dead' # "abort"
  BY <1>1, <1>2 DEF WInv, HeldByStack, NeverAborts
<1> QED
  BY <1>1, <1>2, <1>3, Leaves

LEMMA UnwindKeeps == ASSUME WInv, Unwind PROVE WInv'
<1>1. /\ stack # <<>> /\ Release(Last(stack)) /\ stack' = Front(stack)
      /\ mode = "unwinding" /\ mode' = mode /\ loadedLm' = loadedLm /\ loadedDit' = loadedDit
  BY DEF Unwind, stickyVars
<1>2. StoreInv /\ HeldByStack /\ dead # "abort"
  BY DEF WInv, NeverAborts
<1>3. StoreNext /\ HeldByStack' /\ policy' = policy /\ dead' = dead
  BY <1>1, <1>2, TopReleased
<1> QED
  BY <1>1, <1>2, <1>3, Leaves

LEMMA FailedKeeps == ASSUME WInv, Failed PROVE WInv'
<1>1. /\ mode' = "idle" /\ stack = <<>> /\ stack' = stack /\ UNCHANGED storeVars
      /\ loadedLm' = loadedLm /\ loadedDit' = loadedDit
  BY DEF Failed, stickyVars
<1>2. policy' = policy /\ held' = held /\ dead' = dead
  BY <1>1 DEF storeVars
<1>3. HeldByStack' /\ dead' # "abort"
  BY <1>1, <1>2 DEF WInv, HeldByStack, NeverAborts
<1> QED
  BY <1>1, <1>2, <1>3, Leaves

\* A job that came to its end has closed every scope, and under EVICT_NEVER
\* what it will be remembered for is loaded.
LEMMA AtTheEnd ==
  ASSUME WInv, mode = "running", prog = <<>>
  PROVE  stack = <<>> /\ (policy = "never" => \A k \in Musts(job) : Loaded(k))
<1>1. PICK D, K : Fits(prog, D, K) /\ D[0] = Len(stack)
  BY DEF WInv, Planned
<1>2. Len(prog) = 0
  OBVIOUS
<1>3. Len(stack) = 0 /\ stack \in Seq(Addrs)
  BY <1>1, <1>2 DEF Fits, WInv, HeldByStack
<1>4. stack = <<>>
  BY <1>3
<1>5. \A k : ~Needed(prog, k)
  BY <1>2 DEF Needed
<1> QED
  BY <1>4, <1>5 DEF WInv, Remembering

LEMMA SucceededKeeps == ASSUME WInv, Succeeded PROVE WInv'
<1> DEFINE lm == job.lm
           dit == job.dit
           task == job.task
<1>1. /\ mode = "running" /\ prog = <<>> /\ mode' = "idle" /\ UNCHANGED <<storeVars, stack>>
      /\ loadedLm' = IF task \in {"lm", "understand"}
                     THEN (IF policy = "never" THEN lm ELSE "") ELSE loadedLm
      /\ loadedDit' = IF task \in SynthTasks
                      THEN (IF policy = "never" THEN dit ELSE "") ELSE loadedDit
  BY DEF Succeeded
<1>2. policy' = policy /\ gpu' = gpu /\ held' = held /\ dead' = dead /\ stack' = stack
  BY <1>1 DEF storeVars
<1>3. stack = <<>> /\ (policy = "never" => \A k \in Musts(job) : Loaded(k))
  BY <1>1, AtTheEnd
<1>4. /\ task \in {"lm", "understand"} => lm \in NamesIn(Lms) /\ Lm(lm) \in Musts(job)
      /\ task \in SynthTasks => dit \in NamesIn(Dits) /\ Dit(dit, job.adapter) \in Musts(job)
      /\ job.adapter \in Adapters
  BY <1>1 DEF WInv, Begun, Found, Musts
<1>5. Remembered
  BY DEF WInv
<1> HIDE DEF lm, dit, task
<1>6. /\ loadedLm' \in NamesIn(Lms) \cup {""}
      /\ loadedLm' # "" => policy = "never" /\ Loaded(Lm(loadedLm'))
  BY <1>1, <1>3, <1>4, <1>5 DEF Remembered, StickyLoaded
<1>7. /\ loadedDit' \in NamesIn(Dits) \cup {""}
      /\ loadedDit' # "" => policy = "never" /\ \E a \in Adapters : Loaded(Dit(loadedDit', a))
  BY <1>1, <1>3, <1>4, <1>5 DEF Remembered, StickyLoaded
<1>8. StickyLoaded'
  BY <1>2, <1>6, <1>7 DEF StickyLoaded, Loaded, Lm, Dit, Key
<1>9. Remembered'
  BY <1>2, <1>6, <1>7, <1>8 DEF Remembered, NamesIn
<1>10. StoreInv' /\ NeverAborts' /\ HeldByStack'
  <2>1. StoreInv'
    BY <1>1, StoreStepKeeps DEF WInv
  <2> QED
    BY <2>1, <1>2 DEF WInv, NeverAborts, HeldByStack
<1> QED
  BY <1>1, <1>2, <1>3, <1>9, <1>10 DEF WInv

LEMMA StandsStill == ASSUME WInv, UNCHANGED vars PROVE WInv'
<1>1. /\ UNCHANGED storeVars /\ mode' = mode /\ job' = job /\ prog' = prog /\ stack' = stack
      /\ loadedLm' = loadedLm /\ loadedDit' = loadedDit
  BY DEF vars, workerVars, stickyVars
<1>2. policy' = policy /\ gpu' = gpu /\ held' = held /\ dead' = dead
  BY <1>1 DEF storeVars
<1>3. StoreInv' /\ Remembered'
  BY <1>1, <1>2, StoreKept
<1>4. NeverAborts' /\ HeldByStack'
  BY <1>1, <1>2 DEF WInv, NeverAborts, HeldByStack
<1>5. mode = "running" => Begun(job)' /\ Planned' /\ Remembering'
  BY <1>1, <1>2 DEF WInv, Begun, Found, NamesIn, Planned, Fits, Opens, Closes, Alike,
                    Remembering, Musts, Needed, Loaded
<1> QED
  BY <1>1, <1>3, <1>4, <1>5 DEF WInv

LEMMA WorkerStepKeeps == WInv /\ [Next]_vars => WInv'
<1> SUFFICES ASSUME WInv, [Next]_vars PROVE WInv'
  OBVIOUS
<1>1. ASSUME NEW task \in Tasks, NEW src, NEW ref, NEW lm, NEW dit, NEW vae,
             NEW adapter \in Adapters, Begin(task, src, ref, lm, dit, vae, adapter)
      PROVE  WInv'
  BY <1>1, BeginWorks
<1>2. CASE Require
  BY <1>2, RequireKeeps
<1>3. CASE RequireNull
  BY <1>3, RequireNullKeeps
<1>4. CASE ReleaseTop
  BY <1>4, ReleaseTopKeeps
<1>5. CASE JobFails \/ Unwind \/ Failed
  BY <1>5, JobFailsKeeps, UnwindKeeps, FailedKeeps
<1>6. CASE Succeeded
  BY <1>6, SucceededKeeps
<1>7. CASE Dead \/ UNCHANGED vars
  BY <1>7, StandsStill DEF Dead
<1> QED
  BY <1>1, <1>2, <1>3, <1>4, <1>5, <1>6, <1>7, Zenon DEF Next

\* Every program fits, on the path it takes, and the store is as its callers
\* believe it to be.
THEOREM WorkerInvariant == Spec => []WInv
<1> QED
  BY InitWorks, WorkerStepKeeps, PTL DEF Spec

LEMMA IdleHoldsNothing == WInv => IdleReleased
<1> SUFFICES ASSUME WInv, mode = "idle"
             PROVE  /\ \A a \in Addrs : held[a] = 0
                    /\ policy = "strict" => Resident = {}
  BY DEF IdleReleased
<1>1. stack = <<>>
  BY DEF WInv
<1>2. \A a \in Addrs : held[a] = 0
  BY <1>1 DEF WInv, HeldByStack
<1>3. ASSUME policy = "strict", NEW k \in Resident PROVE FALSE
  <2>1. k \in Keys /\ Loaded(k) /\ gpu[k].refs > 0
    BY <1>3 DEF WInv, StoreInv, StrictKeepsOne, Resident
  <2> QED
    BY <2>1, <1>1, OnlyHeld DEF WInv
<1> QED
  BY <1>2, <1>3

\* No job of any registry, whichever path it takes, makes the store abort or
\* leaves a handle behind, and a name that is remembered is of a module that
\* is loaded.
THEOREM WorkerSafety == Spec => [](NeverAborts /\ IdleReleased /\ StickyLoaded)
<1>1. WInv => NeverAborts /\ IdleReleased /\ StickyLoaded
  BY IdleHoldsNothing DEF WInv, Remembered
<1> QED
  BY WorkerInvariant, <1>1, PTL
=============================================================================
