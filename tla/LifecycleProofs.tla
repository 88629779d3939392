--------------------------- MODULE LifecycleProofs ---------------------------
(***************************************************************************)
(* Proofs about Lifecycle, for any tests and any number of failures.       *)
(*                                                                         *)
(* A call is the sequence of its steps, and what a failed step leaves of   *)
(* it is a subsequence (OutsideRest).  What holds of every call's steps,   *)
(* their kinds (Steps), their order (InOrder) and that no wait comes while *)
(* the queue does not exist (Served), is found once from the functions     *)
(* that make the call and survives every step of it, failed or not.        *)
(* Library relates what exists to the steps left: what a call still        *)
(* deletes exists, what it still creates does not.                         *)
(***************************************************************************)
EXTENDS Lifecycle, SequenceTheorems, WellFoundedInduction, TLAPS

-----------------------------------------------------------------------------
(* What a failed step leaves of a call.                                    *)

LessNat == {ss \in Nat \X Nat : ss[1] < ss[2]}

LEMMA LessNatWellFounded == IsWellFoundedOn(LessNat, Nat)
BY NatLessThanWellFounded DEF OpToRel, LessNat

LEMMA Least ==
  ASSUME NEW T, T \subseteq Nat, T # {}
  PROVE  \E x \in T : \A y \in T : x <= y
<1>1. PICK x \in T : \A y \in T : ~(<<y, x>> \in LessNat)
  BY LessNatWellFounded, WFMin, Zenon
<1>2. \A y \in T : ~(y < x)
  BY <1>1 DEF LessNat
<1> QED
  BY <1>2

-----------------------------------------------------------------------------
(* What a failed step leaves.                                              *)

Keeps(K, w, s, i) == IF w \subseteq s[i].within THEN K[i - 1] ELSE Append(K[i - 1], s[i])
Kept(K, w, s, n) == K = [i \in 0..n |-> IF i = 0 THEN <<>> ELSE Keeps(K, w, s, i)]

LEMMA OutsideIs ==
  ASSUME NEW w, NEW s
  PROVE  Outside(w, s) = (CHOOSE K : Kept(K, w, s, Len(s)))[Len(s)]
BY DEF Outside, Kept, Keeps

(* r is what is left of the first n steps of s, in their order.            *)
Left(r, w, s, n) ==
  \E f \in [1..Len(r) -> 1..n] :
    /\ \A i, j \in 1..Len(r) : i < j => f[i] < f[j]
    /\ \A i \in 1..Len(r) : r[i] = s[f[i]] /\ ~(w \subseteq s[f[i]].within)
    /\ \A j \in 1..n : w \subseteq s[j].within \/ \E i \in 1..Len(r) : f[i] = j

LEMMA LeftNext ==
  ASSUME NEW S, NEW s \in Seq(S), NEW w, NEW n \in Nat, n < Len(s), NEW r \in Seq(S), Left(r, w, s, n),
         NEW q, q = IF w \subseteq s[n + 1].within THEN r ELSE Append(r, s[n + 1])
  PROVE  q \in Seq(S) /\ Left(q, w, s, n + 1)
<1>1. PICK f \in [1..Len(r) -> 1..n] :
             /\ \A i, j \in 1..Len(r) : i < j => f[i] < f[j]
             /\ \A i \in 1..Len(r) : r[i] = s[f[i]] /\ ~(w \subseteq s[f[i]].within)
             /\ \A j \in 1..n : w \subseteq s[j].within \/ \E i \in 1..Len(r) : f[i] = j
  BY DEF Left
<1>2. Len(r) \in Nat /\ s[n + 1] \in S /\ \A j \in 1..(n + 1) : j \in 1..n \/ j = n + 1
  OBVIOUS
<1>3. CASE w \subseteq s[n + 1].within
  <2>1. q = r
    BY <1>3
  <2>2. f \in [1..Len(r) -> 1..(n + 1)]
    <3>1. \A i \in 1..Len(r) : f[i] \in 1..(n + 1)
      BY <1>1
    <3> QED
      BY <1>1, <3>1
  <2>3. \A j \in 1..(n + 1) : w \subseteq s[j].within \/ \E i \in 1..Len(r) : f[i] = j
    BY <1>1, <1>2, <1>3
  <2>4. Left(r, w, s, n + 1)
    BY <1>1, <2>2, <2>3 DEF Left
  <2> QED
    BY <2>1, <2>4
<1>4. CASE ~(w \subseteq s[n + 1].within)
  <2>1. /\ q \in Seq(S) /\ Len(q) = Len(r) + 1 /\ q[Len(r) + 1] = s[n + 1]
        /\ \A i \in 1..Len(r) : q[i] = r[i]
    BY <1>2, <1>4
  <2> DEFINE g == [i \in 1..Len(q) |-> IF i = Len(r) + 1 THEN n + 1 ELSE f[i]]
  <2>2. \A i \in 1..Len(q) : i = Len(r) + 1 \/ i \in 1..Len(r)
    BY <1>2, <2>1
  <2>3. /\ g[Len(r) + 1] = n + 1 /\ Len(r) + 1 \in 1..Len(q)
        /\ \A i \in 1..Len(r) : g[i] = f[i] /\ i \in 1..Len(q) /\ i # Len(r) + 1 /\ f[i] \in 1..n
    <3>1. Len(r) + 1 \in 1..Len(q) /\ \A i \in 1..Len(r) : i \in 1..Len(q) /\ i # Len(r) + 1
      BY <1>2, <2>1
    <3>2. g[Len(r) + 1] = n + 1
      BY <3>1
    <3>3. \A i \in 1..Len(r) : g[i] = f[i]
      BY <3>1
    <3> HIDE DEF g
    <3> QED
      BY <1>1, <3>1, <3>2, <3>3
  <2>4. g \in [1..Len(q) -> 1..(n + 1)]
    BY <1>1, <1>2, <2>1, <2>2
  <2> HIDE DEF g
  <2>5. \A i, j \in 1..Len(q) : i < j => g[i] < g[j]
    <3> SUFFICES ASSUME NEW i \in 1..Len(q), NEW j \in 1..Len(q), i < j PROVE g[i] < g[j]
      OBVIOUS
    <3>1. i \in 1..Len(r)
      BY <1>2, <2>1, <2>2
    <3>2. CASE j = Len(r) + 1
      BY <2>3, <3>1, <3>2
    <3>3. CASE j \in 1..Len(r)
      BY <1>1, <2>3, <3>1, <3>3
    <3> QED
      BY <2>2, <3>2, <3>3
  <2>6. \A i \in 1..Len(q) : q[i] = s[g[i]] /\ ~(w \subseteq s[g[i]].within)
    BY <1>1, <1>4, <2>1, <2>2, <2>3
  <2>7. \A j \in 1..(n + 1) : w \subseteq s[j].within \/ \E i \in 1..Len(q) : g[i] = j
    <3> SUFFICES ASSUME NEW j \in 1..(n + 1), ~(w \subseteq s[j].within)
                 PROVE  \E i \in 1..Len(q) : g[i] = j
      OBVIOUS
    <3>1. CASE j = n + 1
      BY <2>3, <3>1
    <3>2. CASE j \in 1..n
      BY <1>1, <2>3, <3>2
    <3> QED
      BY <1>2, <3>1, <3>2
  <2> QED
    BY <2>1, <2>4, <2>5, <2>6, <2>7 DEF Left
<1> QED
  BY <1>3, <1>4

LEMMA KeptExists ==
  ASSUME NEW S, NEW s \in Seq(S), NEW w
  PROVE  \A n \in 0..Len(s) :
           \E K : Kept(K, w, s, n) /\ \A i \in 0..n : K[i] \in Seq(S) /\ Left(K[i], w, s, i)
<1> DEFINE Good(K, n) == Kept(K, w, s, n) /\ \A i \in 0..n : K[i] \in Seq(S) /\ Left(K[i], w, s, i)
           T == {n \in 0..Len(s) : ~\E K : Good(K, n)}
<1> SUFFICES T = {}
  OBVIOUS
<1> SUFFICES ASSUME T # {} PROVE FALSE
  OBVIOUS
<1>1. Len(s) \in Nat
  OBVIOUS
<1>2. PICK n \in T : \A y \in T : n <= y
  <2>1. T \subseteq Nat
    BY <1>1
  <2> HIDE DEF T
  <2> QED
    BY <2>1, Least
<1>3. n \in 0..Len(s) /\ ~\E K : Good(K, n)
  OBVIOUS
<1>4. n # 0
  <2> SUFFICES ASSUME n = 0 PROVE FALSE
    OBVIOUS
  <2> DEFINE K == [i \in 0..0 |-> IF i = 0 THEN <<>> ELSE <<>>]
  <2>1. K[0] = <<>> /\ <<>> \in Seq(S) /\ Len(<<>>) = 0
    BY EmptySeq
  <2>2. K = [i \in 0..0 |-> IF i = 0 THEN <<>> ELSE Keeps(K, w, s, i)]
    <3> SUFFICES ASSUME NEW i \in 0..0 PROVE i = 0
      OBVIOUS
    <3> QED
      OBVIOUS
  <2>3. Left(<<>>, w, s, 0)
    <3>1. 1..0 = {} /\ 1..Len(<<>>) = {}
      BY <2>1
    <3> DEFINE f == [i \in 1..Len(<<>>) |-> i]
    <3>2. f \in [1..Len(<<>>) -> 1..0]
      BY <3>1
    <3> HIDE DEF f
    <3> QED
      BY <3>1, <3>2 DEF Left
  <2>4. Good(K, 0)
    <3> HIDE DEF K
    <3>1. \A i \in 0..0 : i = 0
      OBVIOUS
    <3> QED
      BY <2>1, <2>2, <2>3, <3>1 DEF Kept
  <2> HIDE DEF Good, K
  <2> QED
    BY <1>3, <2>4
<1>5. n - 1 \in 0..Len(s) /\ n - 1 \in Nat /\ n - 1 < Len(s) /\ (n - 1) + 1 = n
  BY <1>1, <1>3, <1>4
<1>6. \E K : Good(K, n - 1)
  <2>1. n - 1 \notin T
    <3> HIDE DEF T
    <3>1. ~(n <= n - 1)
      BY <1>5
    <3> QED
      BY <1>2, <3>1
  <2> HIDE DEF Good
  <2> QED
    BY <1>5, <2>1
<1>7. PICK K : Good(K, n - 1)
  <2> HIDE DEF Good
  <2> QED
    BY <1>6
<1> DEFINE q == IF w \subseteq s[n].within THEN K[n - 1] ELSE Append(K[n - 1], s[n])
           H == [i \in 0..n |-> IF i = n THEN q ELSE K[i]]
<1>8. n - 1 \in 0..(n - 1) /\ K[n - 1] \in Seq(S) /\ Left(K[n - 1], w, s, n - 1)
  <2>1. n - 1 \in 0..(n - 1)
    BY <1>5
  <2> QED
    BY <1>7, <2>1
<1>9. q \in Seq(S) /\ Left(q, w, s, n)
  <2> DEFINE r == K[n - 1]
             m == n - 1
  <2>1. q = IF w \subseteq s[m + 1].within THEN r ELSE Append(r, s[m + 1])
    BY <1>5
  <2>2. m \in Nat /\ m < Len(s) /\ m + 1 = n /\ r \in Seq(S) /\ Left(r, w, s, m)
    BY <1>5, <1>8
  <2> HIDE DEF q, r, m
  <2>3. q \in Seq(S) /\ Left(q, w, s, m + 1)
    BY <2>1, <2>2, LeftNext
  <2> QED
    BY <2>2, <2>3
<1>10. \A i \in 0..n : i = n \/ (i \in 0..(n - 1) /\ i # n)
  BY <1>5
<1>11. /\ H[n] = q /\ \A i \in 0..(n - 1) : H[i] = K[i]
       /\ H = [i \in 0..n |-> H[i]]
  <2> HIDE DEF q
  <2>1. \A i \in 0..(n - 1) : i \in 0..n /\ i # n
    BY <1>5
  <2>2. n \in 0..n
    BY <1>5
  <2> QED
    BY <2>1, <2>2
<1>12. ASSUME NEW i \in 0..n, i # 0 PROVE H[i] = Keeps(H, w, s, i) /\ H[0] = <<>>
  <2>1. i - 1 \in 0..(n - 1) /\ 0 \in 0..(n - 1)
    BY <1>5, <1>12
  <2>2. H[i - 1] = K[i - 1] /\ H[0] = K[0] /\ K[0] = <<>>
    <3>1. K[0] = <<>>
      BY <1>7, <2>1 DEF Kept
    <3> HIDE DEF H
    <3> QED
      BY <1>11, <2>1, <3>1
  <2>3. CASE i = n
    <3>1. H[i] = q
      <4> HIDE DEF H
      <4> QED
        BY <1>11, <2>3
    <3>2. q = Keeps(H, w, s, n)
      <4> HIDE DEF H
      <4> QED
        BY <2>2, <2>3 DEF Keeps
    <3> HIDE DEF H, q
    <3> QED
      BY <2>2, <2>3, <3>1, <3>2
  <2>4. CASE i # n
    <3>1. i \in 0..(n - 1)
      BY <1>10, <2>4
    <3>2. K[i] = Keeps(K, w, s, i)
      BY <1>7, <1>12, <3>1 DEF Kept
    <3>3. Keeps(K, w, s, i) = Keeps(H, w, s, i)
      <4> HIDE DEF H
      <4> QED
        BY <2>2 DEF Keeps
    <3> HIDE DEF H
    <3> QED
      BY <1>11, <2>2, <3>1, <3>2, <3>3
  <2> QED
    BY <2>3, <2>4
<1>13. H = [i \in 0..n |-> IF i = 0 THEN <<>> ELSE Keeps(H, w, s, i)]
  <2>1. n \in 0..n
    BY <1>5
  <2>2. \A i \in 0..n : H[i] = IF i = 0 THEN <<>> ELSE Keeps(H, w, s, i)
    <3> HIDE DEF H
    <3> QED
      BY <1>4, <1>12, <2>1
  <2> HIDE DEF H
  <2> QED
    BY <1>11, <2>2
<1>14. \A i \in 0..n : H[i] \in Seq(S) /\ Left(H[i], w, s, i)
  <2> HIDE DEF H, q
  <2>1. \A i \in 0..(n - 1) : K[i] \in Seq(S) /\ Left(K[i], w, s, i)
    BY <1>7
  <2> QED
    BY <1>9, <1>10, <1>11, <2>1
<1>15. Good(H, n)
  <2> HIDE DEF H
  <2> QED
    BY <1>13, <1>14 DEF Kept
<1> QED
  <2> HIDE DEF Good, H
  <2> QED
    BY <1>3, <1>15

(* The equation has one solution, so what the choice in Outside finds is   *)
(* what KeptExists describes.                                              *)
LEMMA KeptUnique ==
  ASSUME NEW w, NEW s, NEW n \in Nat, NEW K, NEW L, Kept(K, w, s, n), Kept(L, w, s, n)
  PROVE  \A i \in 0..n : K[i] = L[i]
<1> DEFINE T == {i \in 0..n : K[i] # L[i]}
<1> SUFFICES ASSUME T # {} PROVE FALSE
  OBVIOUS
<1>1. PICK i \in T : \A y \in T : i <= y
  <2>1. T \subseteq Nat
    OBVIOUS
  <2> HIDE DEF T
  <2> QED
    BY <2>1, Least
<1>2. /\ K[i] = IF i = 0 THEN <<>> ELSE Keeps(K, w, s, i)
      /\ L[i] = IF i = 0 THEN <<>> ELSE Keeps(L, w, s, i)
  BY DEF Kept
<1>3. CASE i = 0
  BY <1>2, <1>3
<1>4. CASE i # 0
  <2>1. i - 1 \in 0..n /\ ~(i <= i - 1)
    BY <1>4
  <2>2. K[i - 1] = L[i - 1]
    <3>1. i - 1 \notin T
      <4> HIDE DEF T
      <4> QED
        BY <1>1, <2>1
    <3> QED
      BY <2>1, <3>1
  <2> QED
    BY <1>2, <1>4, <2>2 DEF Keeps
<1> QED
  BY <1>3, <1>4

LEMMA OutsideLeft ==
  ASSUME NEW S, NEW s \in Seq(S), NEW w
  PROVE  Outside(w, s) \in Seq(S) /\ Left(Outside(w, s), w, s, Len(s))
<1>1. Len(s) \in Nat /\ Len(s) \in 0..Len(s)
  OBVIOUS
<1>2. PICK K : Kept(K, w, s, Len(s)) /\ \A i \in 0..Len(s) : K[i] \in Seq(S) /\ Left(K[i], w, s, i)
  BY <1>1, KeptExists
<1> DEFINE C == CHOOSE L : Kept(L, w, s, Len(s))
<1>3. Kept(C, w, s, Len(s))
  BY <1>2
<1>4. C[Len(s)] = K[Len(s)]
  <2> HIDE DEF C
  <2> QED
    BY <1>1, <1>2, <1>3, KeptUnique
<1>5. Outside(w, s) = K[Len(s)]
  BY <1>4, OutsideIs
<1> QED
  BY <1>1, <1>2, <1>5

(* r is what comes after the first step of s, without some steps that are  *)
(* not in K, in its order.                                                 *)
Rest(r, s, K) ==
  \E f \in [1..Len(r) -> 2..Len(s)] :
    /\ \A i, j \in 1..Len(r) : i < j => f[i] < f[j]
    /\ \A i \in 1..Len(r) : r[i] = s[f[i]]
    /\ \A j \in 2..Len(s) : s[j] \in K => \E i \in 1..Len(r) : f[i] = j

LEMMA TailIs ==
  ASSUME NEW S, NEW s \in Seq(S), s # <<>>
  PROVE  /\ Tail(s) \in Seq(S) /\ Len(s) \in Nat /\ Len(s) # 0 /\ Len(Tail(s)) = Len(s) - 1
         /\ Head(s) = s[1] /\ 1 \in 1..Len(s) /\ Head(s) \in S
         /\ \A i \in 1..Len(Tail(s)) : Tail(s)[i] = s[i + 1] /\ i + 1 \in 2..Len(s)
OBVIOUS

LEMMA TailRest ==
  ASSUME NEW S, NEW s \in Seq(S), s # <<>>
  PROVE  Tail(s) \in Seq(S) /\ Rest(Tail(s), s, S)
<1>1. /\ Tail(s) \in Seq(S) /\ Len(s) \in Nat /\ Len(s) # 0 /\ Len(Tail(s)) = Len(s) - 1
      /\ \A i \in 1..Len(Tail(s)) : Tail(s)[i] = s[i + 1] /\ i + 1 \in 2..Len(s)
  BY TailIs
<1> DEFINE f == [i \in 1..Len(Tail(s)) |-> i + 1]
<1>2. f \in [1..Len(Tail(s)) -> 2..Len(s)] /\ \A i \in 1..Len(Tail(s)) : f[i] = i + 1
  BY <1>1
<1> HIDE DEF f
<1>3. \A i, j \in 1..Len(Tail(s)) : i < j => f[i] < f[j]
  BY <1>2
<1>4. \A j \in 2..Len(s) : j - 1 \in 1..Len(Tail(s)) /\ f[j - 1] = j
  BY <1>1, <1>2
<1>5. \A j \in 2..Len(s) : \E i \in 1..Len(Tail(s)) : f[i] = j
  BY <1>4
<1> QED
  <2>1. \A i \in 1..Len(Tail(s)) : Tail(s)[i] = s[f[i]]
    BY <1>1, <1>2
  <2>2. \A j \in 2..Len(s) : s[j] \in S => \E i \in 1..Len(Tail(s)) : f[i] = j
    BY <1>5, Zenon
  <2> QED
    BY <1>1, <1>2, <1>3, <2>1, <2>2 DEF Rest

KeptBy(S, w) == { e \in S : ~(w \subseteq e.within) }

LEMMA OutsideRest ==
  ASSUME NEW S, NEW s \in Seq(S), s # <<>>, NEW w
  PROVE  /\ Outside(w, Tail(s)) \in Seq(S)
         /\ Rest(Outside(w, Tail(s)), s, KeptBy(S, w))
         /\ \A i \in 1..Len(Outside(w, Tail(s))) : ~(w \subseteq Outside(w, Tail(s))[i].within)
<1> DEFINE t == Tail(s)
           r == Outside(w, t)
<1>1. /\ t \in Seq(S) /\ Len(s) \in Nat /\ Len(s) # 0 /\ Len(t) = Len(s) - 1
      /\ \A i \in 1..Len(t) : t[i] = s[i + 1] /\ i + 1 \in 2..Len(s)
  BY TailIs
<1>2. r \in Seq(S) /\ Left(r, w, t, Len(t))
  <2> HIDE DEF t
  <2> QED
    BY <1>1, OutsideLeft
<1> HIDE DEF r, t
<1>3. PICK f \in [1..Len(r) -> 1..Len(t)] :
             /\ \A i, j \in 1..Len(r) : i < j => f[i] < f[j]
             /\ \A i \in 1..Len(r) : r[i] = t[f[i]] /\ ~(w \subseteq t[f[i]].within)
             /\ \A j \in 1..Len(t) : w \subseteq t[j].within \/ \E i \in 1..Len(r) : f[i] = j
  BY <1>2 DEF Left
<1> DEFINE g == [i \in 1..Len(r) |-> f[i] + 1]
<1>4. \A i \in 1..Len(r) : g[i] = f[i] + 1 /\ f[i] \in 1..Len(t) /\ g[i] \in 2..Len(s)
  BY <1>1, <1>3
<1>5. g \in [1..Len(r) -> 2..Len(s)]
  BY <1>4
<1> HIDE DEF g
<1>6. \A i, j \in 1..Len(r) : i < j => g[i] < g[j]
  BY <1>3, <1>4
<1>7. \A i \in 1..Len(r) : r[i] = s[g[i]]
  BY <1>1, <1>3, <1>4
<1>8. ASSUME NEW j \in 2..Len(s), ~(w \subseteq s[j].within)
      PROVE  \E i \in 1..Len(r) : g[i] = j
  <2>1. j - 1 \in 1..Len(t) /\ (j - 1) + 1 = j
    BY <1>1
  <2>2. t[j - 1] = s[j]
    BY <1>1, <2>1
  <2>3. PICK i \in 1..Len(r) : f[i] = j - 1
    BY <1>3, <1>8, <2>1, <2>2
  <2> QED
    BY <1>4, <2>1, <2>3
<1>9. Rest(r, s, KeptBy(S, w))
  <2>1. \A j \in 2..Len(s) : s[j] \in KeptBy(S, w) => ~(w \subseteq s[j].within)
    BY DEF KeptBy
  <2> HIDE DEF g
  <2>2. \A j \in 2..Len(s) : s[j] \in KeptBy(S, w) => \E i \in 1..Len(r) : g[i] = j
    BY <1>8, <2>1, Zenon
  <2> QED
    BY <1>5, <1>6, <1>7, <2>2 DEF Rest
<1>10. \A i \in 1..Len(r) : ~(w \subseteq r[i].within)
  BY <1>3
<1> QED
  BY <1>2, <1>9, <1>10 DEF r, t

(* A failure that no function ignores leaves nothing.                      *)
LEMMA OutsideNone ==
  ASSUME NEW S, NEW s \in Seq(S), s # <<>>
  PROVE  Outside({}, Tail(s)) = <<>>
<1> DEFINE r == Outside({}, Tail(s))
<1>1. r \in Seq(S) /\ \A i \in 1..Len(r) : FALSE
  BY OutsideRest
<1> HIDE DEF r
<1>2. Len(r) = 0
  BY <1>1
<1>3. r = <<>>
  BY <1>1, <1>2, EmptySeq
<1> QED
  BY <1>3 DEF r

-----------------------------------------------------------------------------
(* Steps, and what holds of a sequence of them.                            *)

(* The functions that initialise and release the middleware and the        *)
(* library pass on every failure of their own steps; a step inside one of  *)
(* Minor ends at most the functions around it that are in Minor too.       *)
Minor == {"SetConfig", "InitRouting", "HciRegister", "CeRegisterAID", "CeDeInit A", "CeDeInit F",
          "CeDeInit EE", "SetDiscoveryConfig", "ResetDiscoveryConfig", "P2pRoutingConfigure",
          "RoutingUpdate", "DiscoveryStop"}
Around == Minor \cup {"queue", "congestion", "thread", "MwDeInit", "ReInit"}

Registrations == {"ee", "hci", "aid", "felica", "disc", "poll", "listen", "p2pListen",
                  "uiccListen", "eseListen", "isoDepListen"}
Tests == Params \cup {{}}
Flags == {"jni", "init", "llcp", "handle", "idle", "llcpEnabled", "felicaHandle"}

AStep ==
  [op : {"create", "delete", "on", "off", "route", "ee", "config", "set", "mode", "routeP2p", "return"},
   x : OsalObjects \cup Base \cup LlcpEnds \cup Registrations \cup Flags
         \cup {"app", "prev", "disc", "protocols", "-"},
   to : {"-"} \cup BOOLEAN \cup (SUBSET {"ISO_DEP", "T3T"}) \cup Tests,
   within : SUBSET Around]

Typed(s) ==
  /\ s.op \in {"create", "delete"} => s.x \in OsalObjects
  /\ s.op = "on" => s.x \in Base \cup LlcpEnds \cup Registrations
  /\ s.op = "off" => s.x \in {"driver", "up"} \cup Registrations
  /\ s.op = "return" => s.x = "-"
  /\ s.op = "route" => s.to \in SUBSET {"ISO_DEP", "T3T"}
  /\ s.op = "set" => \/ s.x \in {"app", "prev", "disc"} /\ s.to \in Tests
                     \/ s.x = "protocols" /\ s.to \in SUBSET {"ISO_DEP"}
                     \/ s.x \in Flags /\ s.to \in BOOLEAN

IsSet(s, f) == s.op = "set" /\ s.x = f
LlcpOn(s) == s.op = "on" /\ s.x \in LlcpEnds
LlcpUp(s) == IsSet(s, "llcp") /\ s.to = TRUE
FlagSet(s) == IsSet(s, "init") \/ IsSet(s, "jni")

(* The steps on whose order and effect the other calls rely.               *)
Vital(s) == OfInit(s) \/ FlagSet(s) \/ IsSet(s, "handle") \/ (IsSet(s, "llcp") /\ s.to = FALSE)

Steps ==
  { s \in AStep : /\ Typed(s)
                  /\ Vital(s) => s.within \cap Minor = {}
                  /\ LlcpOn(s) \/ LlcpUp(s) \/ FlagSet(s) => s.within = {}
                  /\ IsSet(s, "handle") => s.to = TRUE }

(* A step that can keep those after it from being taken is not followed by *)
(* a vital one.                                                            *)
HciOn(s) == s.op = "on" /\ s.x = "hci"
Mild(s) == s.op = "set" \/ OfInit(s) \/ (s.within \cap Minor # {} /\ ~HciOn(s))

Before(a, b) ==
  /\ Vital(b) => Mild(a)
  /\ a.op = "create" /\ b.op \in {"create", "delete"} => a.x # b.x
  /\ a.op = "delete" /\ b.op = "delete" => a.x # b.x
  /\ b.op = "off" /\ b.x = "up" => ~LlcpOn(a) /\ ~LlcpUp(a)
  /\ LlcpOn(b) => ~LlcpUp(a)
  /\ FlagSet(a) => b.op \in {"set", "return"} /\ ~IsSet(b, "init")

InOrder(s) == \A i, j \in 1..Len(s) : i < j => Before(s[i], s[j])

Has(s, op, x) == \E i \in 1..Len(s) : s[i].op = op /\ s[i].x = x
HasSet(s, f, v) == \E i \in 1..Len(s) : IsSet(s[i], f) /\ s[i].to = v

(* A step that waits finds the queue: it exists, and is not deleted        *)
(* before, or it is created before.                                        *)
Served(s, exists) ==
  \A j \in 1..Len(s) : Waits(s[j]) =>
    \/ exists /\ \A k \in 1..Len(s) : k < j => ~(s[k].op = "delete" /\ s[k].x = "mwq")
    \/ \E k \in 1..Len(s) : k < j /\ s[k].op = "create" /\ s[k].x = "mwq"

-----------------------------------------------------------------------------
(* What is left of a sequence of steps.                                    *)

LEMMA RestOf ==
  ASSUME NEW S, NEW s \in Seq(S), NEW r \in Seq(S), NEW K, Rest(r, s, K)
  PROVE  /\ \A i \in 1..Len(r) : \E j \in 2..Len(s) : r[i] = s[j]
         /\ \A j \in 2..Len(s) : s[j] \in K => \E i \in 1..Len(r) : r[i] = s[j]
BY SMTT(30) DEF Rest

LEMMA RestInOrder ==
  ASSUME NEW S, NEW s \in Seq(S), NEW r \in Seq(S), NEW K, Rest(r, s, K), InOrder(s)
  PROVE  InOrder(r)
<1>1. PICK f \in [1..Len(r) -> 2..Len(s)] :
        /\ \A i, j \in 1..Len(r) : i < j => f[i] < f[j]
        /\ \A i \in 1..Len(r) : r[i] = s[f[i]]
  BY DEF Rest
<1>2. \A i \in 1..Len(r) : f[i] \in 1..Len(s)
  BY <1>1
<1> SUFFICES ASSUME NEW i \in 1..Len(r), NEW j \in 1..Len(r), i < j
             PROVE  Before(r[i], r[j])
  BY DEF InOrder
<1>3. f[i] < f[j] /\ f[i] \in 1..Len(s) /\ f[j] \in 1..Len(s) /\ r[i] = s[f[i]] /\ r[j] = s[f[j]]
  BY <1>1, <1>2
<1> QED
  BY <1>3 DEF InOrder

LEMMA RestHas ==
  ASSUME NEW S, NEW s \in Seq(S), NEW r \in Seq(S), NEW K, Rest(r, s, K), NEW op, NEW x
  PROVE  /\ Has(r, op, x) => Has(s, op, x)
         /\ /\ Has(s, op, x) /\ ~(s[1].op = op /\ s[1].x = x)
            /\ \A i \in 1..Len(s) : s[i].op = op /\ s[i].x = x => s[i] \in K
            => Has(r, op, x)
<1>1. \A j \in 2..Len(s) : j \in 1..Len(s)
  OBVIOUS
<1>2. \A j \in 1..Len(s) : j = 1 \/ j \in 2..Len(s)
  OBVIOUS
<1>3. Has(r, op, x) => Has(s, op, x)
  BY <1>1, RestOf DEF Has
<1>4. ASSUME Has(s, op, x), ~(s[1].op = op /\ s[1].x = x),
             \A i \in 1..Len(s) : s[i].op = op /\ s[i].x = x => s[i] \in K
      PROVE  Has(r, op, x)
  <2>1. PICK j \in 1..Len(s) : s[j].op = op /\ s[j].x = x
    BY <1>4 DEF Has
  <2>2. j \in 2..Len(s) /\ s[j] \in K
    BY <1>2, <1>4, <2>1
  <2>3. PICK i \in 1..Len(r) : r[i] = s[j]
    BY <2>2, RestOf
  <2> QED
    BY <2>1, <2>3 DEF Has
<1> QED
  BY <1>3, <1>4

LEMMA RestHasSet ==
  ASSUME NEW S, NEW s \in Seq(S), NEW r \in Seq(S), NEW K, Rest(r, s, K), NEW f, NEW v
  PROVE  /\ HasSet(r, f, v) => HasSet(s, f, v)
         /\ /\ HasSet(s, f, v) /\ ~(IsSet(s[1], f) /\ s[1].to = v)
            /\ \A i \in 1..Len(s) : IsSet(s[i], f) /\ s[i].to = v => s[i] \in K
            => HasSet(r, f, v)
<1>1. \A j \in 2..Len(s) : j \in 1..Len(s)
  OBVIOUS
<1>2. \A j \in 1..Len(s) : j = 1 \/ j \in 2..Len(s)
  OBVIOUS
<1>3. HasSet(r, f, v) => HasSet(s, f, v)
  BY <1>1, RestOf, SMTT(30) DEF HasSet
<1>4. ASSUME HasSet(s, f, v), ~(IsSet(s[1], f) /\ s[1].to = v),
             \A i \in 1..Len(s) : IsSet(s[i], f) /\ s[i].to = v => s[i] \in K
      PROVE  HasSet(r, f, v)
  <2>1. PICK j \in 1..Len(s) : IsSet(s[j], f) /\ s[j].to = v
    BY <1>4 DEF HasSet
  <2>2. j \in 2..Len(s) /\ s[j] \in K
    BY <1>2, <1>4, <2>1
  <2>3. PICK i \in 1..Len(r) : r[i] = s[j]
    BY <2>2, RestOf
  <2> QED
    BY <2>1, <2>3 DEF HasSet
<1> QED
  BY <1>3, <1>4

(* The first step of s is taken: it may create the queue or delete it.     *)
LEMMA RestServed ==
  ASSUME NEW S, NEW s \in Seq(S), s # <<>>, NEW r \in Seq(S), NEW K, Rest(r, s, K),
         \A i \in 1..Len(s) : s[i].op = "create" => s[i] \in K,
         NEW exists, NEW now, Served(s, exists),
         s[1].op = "create" /\ s[1].x = "mwq" =>
           now /\ \A i \in 1..Len(s) : ~(s[i].op = "delete" /\ s[i].x = "mwq"),
         ~(s[1].op \in {"create", "delete"} /\ s[1].x = "mwq") => (exists => now)
  PROVE  Served(r, now)
<1>1. PICK f \in [1..Len(r) -> 2..Len(s)] :
        /\ \A i, j \in 1..Len(r) : i < j => f[i] < f[j]
        /\ \A i \in 1..Len(r) : r[i] = s[f[i]]
        /\ \A j \in 2..Len(s) : s[j] \in K => \E i \in 1..Len(r) : f[i] = j
  BY DEF Rest
<1>2. \A i \in 1..Len(r) : f[i] \in 1..Len(s) /\ 1 < f[i]
  BY <1>1
<1>3. Len(s) \in Nat /\ 1 \in 1..Len(s)
  BY TailIs
<1> SUFFICES ASSUME NEW j \in 1..Len(r), Waits(r[j])
             PROVE  \/ now /\ \A k \in 1..Len(r) : k < j => ~(r[k].op = "delete" /\ r[k].x = "mwq")
                    \/ \E k \in 1..Len(r) : k < j /\ r[k].op = "create" /\ r[k].x = "mwq"
  BY DEF Served
<1>4. /\ f[j] \in 1..Len(s) /\ Waits(s[f[j]])
      /\ \/ exists /\ \A k \in 1..Len(s) : k < f[j] => ~(s[k].op = "delete" /\ s[k].x = "mwq")
         \/ \E k \in 1..Len(s) : k < f[j] /\ s[k].op = "create" /\ s[k].x = "mwq"
  BY <1>1, <1>2 DEF Served
<1>5. CASE exists /\ \A k \in 1..Len(s) : k < f[j] => ~(s[k].op = "delete" /\ s[k].x = "mwq")
  <2>1. \A k \in 1..Len(r) : k < j => ~(r[k].op = "delete" /\ r[k].x = "mwq")
    BY <1>1, <1>2, <1>5
  <2>2. ~(s[1].op = "delete" /\ s[1].x = "mwq")
    BY <1>2, <1>3, <1>5
  <2>3. now
    BY <1>5, <2>2
  <2> QED
    BY <2>1, <2>3
<1>6. ASSUME NEW k \in 1..Len(s), k < f[j], s[k].op = "create", s[k].x = "mwq"
      PROVE  \/ now /\ \A h \in 1..Len(r) : h < j => ~(r[h].op = "delete" /\ r[h].x = "mwq")
             \/ \E h \in 1..Len(r) : h < j /\ r[h].op = "create" /\ r[h].x = "mwq"
  <2>1. CASE k = 1
    <3>1. now /\ \A i \in 1..Len(s) : ~(s[i].op = "delete" /\ s[i].x = "mwq")
      BY <1>6, <2>1
    <3> QED
      BY <1>1, <1>2, <3>1
  <2>2. CASE k # 1
    <3>1. k \in 2..Len(s)
      BY <2>2
    <3>2. PICK i \in 1..Len(r) : f[i] = k
      BY <1>1, <1>6, <3>1
    <3>3. i < j
      BY <1>1, <1>2, <1>6, <3>2
    <3> QED
      BY <1>1, <1>6, <3>2, <3>3
  <2> QED
    BY <2>1, <2>2
<1> QED
  BY <1>4, <1>5, <1>6

-----------------------------------------------------------------------------
(* Sequences of steps put together.                                        *)

LEMMA CatIs ==
  ASSUME NEW S, NEW p \in Seq(S), NEW q \in Seq(S)
  PROVE  /\ p \o q \in Seq(S) /\ Len(p) \in Nat /\ Len(q) \in Nat /\ Len(p \o q) = Len(p) + Len(q)
         /\ \A i \in 1..Len(p) : (p \o q)[i] = p[i] /\ i \in 1..Len(p \o q)
         /\ \A i \in 1..Len(q) : (p \o q)[Len(p) + i] = q[i] /\ Len(p) + i \in 1..Len(p \o q)
         /\ \A i \in 1..Len(p \o q) :
              \/ i \in 1..Len(p) /\ (p \o q)[i] = p[i]
              \/ i - Len(p) \in 1..Len(q) /\ (p \o q)[i] = q[i - Len(p)]
<1>1. p \o q \in Seq(S) /\ Len(p) \in Nat /\ Len(q) \in Nat /\ Len(p \o q) = Len(p) + Len(q)
  OBVIOUS
<1>2. \A i \in 1..Len(p) : (p \o q)[i] = p[i] /\ i \in 1..Len(p \o q)
  OBVIOUS
<1>3. \A i \in 1..Len(q) : (p \o q)[Len(p) + i] = q[i] /\ Len(p) + i \in 1..Len(p \o q)
  OBVIOUS
<1>4. \A i \in 1..Len(p \o q) :
         \/ i \in 1..Len(p)
         \/ i - Len(p) \in 1..Len(q) /\ Len(p) + (i - Len(p)) = i
  BY <1>1
<1> QED
  BY <1>1, <1>2, <1>3, <1>4

LEMMA SeqIn ==
  ASSUME NEW A, NEW S, A \subseteq S, NEW p \in Seq(A)
  PROVE  p \in Seq(S) /\ \A i \in 1..Len(p) : p[i] \in A
OBVIOUS

LEMMA CatInOrder ==
  ASSUME NEW A, NEW B, NEW p \in Seq(A), NEW q \in Seq(B), InOrder(p), InOrder(q),
         \A a \in A : \A b \in B : Before(a, b)
  PROVE  InOrder(p \o q)
<1>1. p \in Seq(A \cup B) /\ q \in Seq(A \cup B)
  BY SeqIn
<1>2. \A i \in 1..Len(p) : p[i] \in A
  OBVIOUS
<1>3. \A i \in 1..Len(q) : q[i] \in B
  OBVIOUS
<1>4. /\ Len(p) \in Nat /\ Len(q) \in Nat /\ Len(p \o q) = Len(p) + Len(q)
      /\ \A i \in 1..Len(p \o q) :
              \/ i \in 1..Len(p) /\ (p \o q)[i] = p[i]
              \/ i - Len(p) \in 1..Len(q) /\ (p \o q)[i] = q[i - Len(p)]
  BY <1>1, CatIs
<1> SUFFICES ASSUME NEW i \in 1..Len(p \o q), NEW j \in 1..Len(p \o q), i < j
             PROVE  Before((p \o q)[i], (p \o q)[j])
  BY DEF InOrder
<1> DEFINE u == (p \o q)[i]
           v == (p \o q)[j]
           m == i - Len(p)
           n == j - Len(p)
<1>5. /\ (i \in 1..Len(p) /\ u = p[i]) \/ (m \in 1..Len(q) /\ u = q[m])
      /\ (j \in 1..Len(p) /\ v = p[j]) \/ (n \in 1..Len(q) /\ v = q[n])
      /\ m < n
      /\ ~(m \in 1..Len(q) /\ j \in 1..Len(p))
  BY <1>4
<1> HIDE DEF u, v, m, n
<1>6. Before(u, v)
  BY <1>2, <1>3, <1>5 DEF InOrder
<1> QED
  BY <1>6 DEF u, v

LEMMA FreeInOrder ==
  ASSUME NEW A, NEW p \in Seq(A), \A a, b \in A : Before(a, b)
  PROVE  InOrder(p)
<1>1. \A i \in 1..Len(p) : p[i] \in A
  OBVIOUS
<1> QED
  BY <1>1 DEF InOrder

LEMMA CatHas ==
  ASSUME NEW S, NEW p \in Seq(S), NEW q \in Seq(S), NEW op, NEW x
  PROVE  Has(p \o q, op, x) <=> Has(p, op, x) \/ Has(q, op, x)
<1>1. /\ \A i \in 1..Len(p) : (p \o q)[i] = p[i] /\ i \in 1..Len(p \o q)
      /\ \A i \in 1..Len(q) : (p \o q)[Len(p) + i] = q[i] /\ Len(p) + i \in 1..Len(p \o q)
      /\ \A i \in 1..Len(p \o q) :
              \/ i \in 1..Len(p) /\ (p \o q)[i] = p[i]
              \/ i - Len(p) \in 1..Len(q) /\ (p \o q)[i] = q[i - Len(p)]
  BY CatIs
<1>2. Has(p \o q, op, x) => Has(p, op, x) \/ Has(q, op, x)
  <2>1. ASSUME NEW i \in 1..Len(p \o q), (p \o q)[i].op = op, (p \o q)[i].x = x
        PROVE  Has(p, op, x) \/ Has(q, op, x)
    BY <1>1, <2>1 DEF Has
  <2> QED
    BY <2>1 DEF Has
<1>3. Has(p, op, x) => Has(p \o q, op, x)
  BY <1>1 DEF Has
<1>4. Has(q, op, x) => Has(p \o q, op, x)
  <2>1. ASSUME NEW i \in 1..Len(q), q[i].op = op, q[i].x = x PROVE Has(p \o q, op, x)
    <3>1. Len(p) + i \in 1..Len(p \o q) /\ (p \o q)[Len(p) + i] = q[i]
      BY <1>1
    <3> QED
      BY <2>1, <3>1 DEF Has
  <2> QED
    BY <2>1 DEF Has
<1> QED
  BY <1>2, <1>3, <1>4

LEMMA CatHasSet ==
  ASSUME NEW S, NEW p \in Seq(S), NEW q \in Seq(S), NEW f, NEW v
  PROVE  HasSet(p \o q, f, v) <=> HasSet(p, f, v) \/ HasSet(q, f, v)
<1>1. /\ \A i \in 1..Len(p) : (p \o q)[i] = p[i] /\ i \in 1..Len(p \o q)
      /\ \A i \in 1..Len(q) : (p \o q)[Len(p) + i] = q[i] /\ Len(p) + i \in 1..Len(p \o q)
      /\ \A i \in 1..Len(p \o q) :
              \/ i \in 1..Len(p) /\ (p \o q)[i] = p[i]
              \/ i - Len(p) \in 1..Len(q) /\ (p \o q)[i] = q[i - Len(p)]
  BY CatIs
<1>2. HasSet(p \o q, f, v) => HasSet(p, f, v) \/ HasSet(q, f, v)
  <2>1. ASSUME NEW i \in 1..Len(p \o q), IsSet((p \o q)[i], f), (p \o q)[i].to = v
        PROVE  HasSet(p, f, v) \/ HasSet(q, f, v)
    BY <1>1, <2>1 DEF HasSet
  <2> QED
    BY <2>1 DEF HasSet
<1>3. HasSet(p, f, v) => HasSet(p \o q, f, v)
  BY <1>1 DEF HasSet
<1>4. HasSet(q, f, v) => HasSet(p \o q, f, v)
  <2>1. ASSUME NEW i \in 1..Len(q), IsSet(q[i], f), q[i].to = v PROVE HasSet(p \o q, f, v)
    <3>1. Len(p) + i \in 1..Len(p \o q) /\ (p \o q)[Len(p) + i] = q[i]
      BY <1>1
    <3> QED
      BY <2>1, <3>1 DEF HasSet
  <2> QED
    BY <2>1 DEF HasSet
<1> QED
  BY <1>2, <1>3, <1>4

(* Steps put together find the queue: p creates it, p does not delete what *)
(* q needs, or q creates what it needs.                                    *)
LEMMA CatServed ==
  ASSUME NEW S, NEW p \in Seq(S), NEW q \in Seq(S), NEW exists, Served(p, exists),
         \/ Has(p, "create", "mwq")
         \/ ~Has(p, "delete", "mwq") /\ Served(q, exists)
         \/ Served(q, FALSE)
  PROVE  Served(p \o q, exists)
<1>1. /\ \A i \in 1..Len(p) : (p \o q)[i] = p[i] /\ i \in 1..Len(p \o q)
      /\ \A i \in 1..Len(q) : (p \o q)[Len(p) + i] = q[i] /\ Len(p) + i \in 1..Len(p \o q)
      /\ \A i \in 1..Len(p \o q) :
              \/ i \in 1..Len(p) /\ (p \o q)[i] = p[i]
              \/ i - Len(p) \in 1..Len(q) /\ (p \o q)[i] = q[i - Len(p)]
      /\ Len(p) \in Nat /\ Len(q) \in Nat
  BY CatIs
<1> DEFINE pq == p \o q
<1> HIDE DEF pq
<1> SUFFICES ASSUME NEW j \in 1..Len(pq), Waits(pq[j])
             PROVE  \/ exists /\ \A k \in 1..Len(pq) : k < j => ~(pq[k].op = "delete" /\ pq[k].x = "mwq")
                    \/ \E k \in 1..Len(pq) : k < j /\ pq[k].op = "create" /\ pq[k].x = "mwq"
  BY DEF Served, pq
<1>2. /\ \A i \in 1..Len(p) : pq[i] = p[i] /\ i \in 1..Len(pq)
      /\ \A i \in 1..Len(q) : pq[Len(p) + i] = q[i] /\ Len(p) + i \in 1..Len(pq)
      /\ \A i \in 1..Len(pq) :
              \/ i \in 1..Len(p) /\ pq[i] = p[i]
              \/ i - Len(p) \in 1..Len(q) /\ pq[i] = q[i - Len(p)]
  BY <1>1 DEF pq
<1>3. CASE j \in 1..Len(p) /\ pq[j] = p[j]
  <2>1. \/ exists /\ \A k \in 1..Len(p) : k < j => ~(p[k].op = "delete" /\ p[k].x = "mwq")
        \/ \E k \in 1..Len(p) : k < j /\ p[k].op = "create" /\ p[k].x = "mwq"
    BY <1>3 DEF Served
  <2>2. \A k \in 1..Len(pq) : k < j => k \in 1..Len(p) /\ pq[k] = p[k]
    BY <1>1, <1>2, <1>3
  <2> QED
    BY <1>2, <2>1, <2>2
<1>4. ASSUME j - Len(p) \in 1..Len(q), pq[j] = q[j - Len(p)]
      PROVE  \/ exists /\ \A k \in 1..Len(pq) : k < j => ~(pq[k].op = "delete" /\ pq[k].x = "mwq")
             \/ \E k \in 1..Len(pq) : k < j /\ pq[k].op = "create" /\ pq[k].x = "mwq"
  <2> DEFINE m == j - Len(p)
  <2>1. m \in 1..Len(q) /\ Waits(q[m]) /\ j = Len(p) + m
    BY <1>1, <1>4
  <2> HIDE DEF m
  <2>2. CASE Has(p, "create", "mwq")
    <3>1. PICK k \in 1..Len(p) : p[k].op = "create" /\ p[k].x = "mwq"
      BY <2>2 DEF Has
    <3>2. k < j
      BY <1>1, <2>1
    <3> QED
      BY <1>2, <3>1, <3>2
  <2>3. CASE ~Has(p, "delete", "mwq") /\ Served(q, exists)
    <3>1. \/ exists /\ \A k \in 1..Len(q) : k < m => ~(q[k].op = "delete" /\ q[k].x = "mwq")
          \/ \E k \in 1..Len(q) : k < m /\ q[k].op = "create" /\ q[k].x = "mwq"
      BY <2>1, <2>3 DEF Served
    <3>2. ASSUME exists, \A k \in 1..Len(q) : k < m => ~(q[k].op = "delete" /\ q[k].x = "mwq"),
                 NEW k \in 1..Len(pq), k < j
          PROVE  ~(pq[k].op = "delete" /\ pq[k].x = "mwq")
      <4>1. CASE k \in 1..Len(p) /\ pq[k] = p[k]
        BY <2>3, <4>1 DEF Has
      <4>2. CASE k - Len(p) \in 1..Len(q) /\ pq[k] = q[k - Len(p)]
        <5>1. k - Len(p) < m
          BY <1>1, <2>1, <3>2
        <5> QED
          BY <3>2, <4>2, <5>1
      <4> QED
        BY <1>2, <4>1, <4>2
    <3>3. ASSUME NEW k \in 1..Len(q), k < m, q[k].op = "create", q[k].x = "mwq"
          PROVE  \E h \in 1..Len(pq) : h < j /\ pq[h].op = "create" /\ pq[h].x = "mwq"
      <4>1. Len(p) + k \in 1..Len(pq) /\ pq[Len(p) + k] = q[k] /\ Len(p) + k < j
        BY <1>1, <1>2, <2>1, <3>3
      <4> QED
        BY <3>3, <4>1
    <3> QED
      BY <3>1, <3>2, <3>3
  <2>4. CASE Served(q, FALSE)
    <3>1. PICK k \in 1..Len(q) : k < m /\ q[k].op = "create" /\ q[k].x = "mwq"
      BY <2>1, <2>4 DEF Served
    <3>2. Len(p) + k \in 1..Len(pq) /\ pq[Len(p) + k] = q[k] /\ Len(p) + k < j
      BY <1>1, <1>2, <2>1, <3>1
    <3> QED
      BY <3>1, <3>2
  <2> QED
    BY <2>2, <2>3, <2>4
<1> QED
  BY <1>2, <1>3, <1>4

(* Steps that no other call relies on, among them those of Minor, and the  *)
(* steps that build up (C) and take down (D) the library.                  *)
Calm == { s \in Steps : ~Vital(s) /\ ~LlcpOn(s) /\ ~LlcpUp(s) }
Bland == { s \in Calm : ~HciOn(s) }
Minors == { s \in Bland : s.within \cap Minor # {} }
Build(C, D) ==
  { s \in Steps : /\ Mild(s) /\ ~LlcpOn(s) /\ ~LlcpUp(s) /\ ~FlagSet(s)
                  /\ s.op = "create" => s.x \in C
                  /\ s.op = "delete" => s.x \in D }

LEMMA OneStep ==
  ASSUME NEW S, NEW e \in S
  PROVE  <<e>> \in Seq(S) /\ Len(<<e>>) = 1 /\ <<e>>[1] = e /\ InOrder(<<e>>)
<1>1. <<e>> \in Seq(S) /\ Len(<<e>>) = 1 /\ <<e>>[1] = e
  OBVIOUS
<1> QED
  BY <1>1 DEF InOrder

LEMMA NoStep ==
  ASSUME NEW S, NEW exists
  PROVE  <<>> \in Seq(S) /\ InOrder(<<>>) /\ Served(<<>>, exists)
BY DEF InOrder, Served

LEMMA Joined ==
  ASSUME NEW S, NEW p \in Seq(S), NEW q \in Seq(S)
  PROVE  p \o q \in Seq(S)
OBVIOUS

LEMMA Maybe ==
  ASSUME NEW S, NEW p, NEW c, c => p \in Seq(S)
  PROVE  If(c, p) \in Seq(S)
BY DEF If

LEMMA BlandOn ==
  ASSUME NEW x \in Registrations
  PROVE  On(x) \in Seq(Calm) /\ (x # "hci" => On(x) \in Seq(Bland)) /\ Off(x) \in Seq(Bland)
<1>1. Step("on", x, "-") \in Calm /\ (x # "hci" => Step("on", x, "-") \in Bland)
  BY DEF Step, Bland, Calm, HciOn, Steps, AStep, Typed, Vital, LlcpOn, LlcpUp, FlagSet, IsSet, OfInit, Registrations, Base, LlcpEnds
<1>2. Step("off", x, "-") \in Bland
  BY DEF Step, Bland, Calm, HciOn, Steps, AStep, Typed, Vital, LlcpOn, LlcpUp, FlagSet, IsSet, OfInit, Registrations, Base, LlcpEnds
<1> QED
  BY <1>1, <1>2, OneStep DEF On, Off

LEMMA BlandRequests ==
  /\ EeRequest \in Seq(Bland) /\ Config \in Seq(Bland) /\ SetDtaMode \in Seq(Bland)
  /\ <<Step("routeP2p", "-", "-")>> \in Seq(Bland)
  /\ \A ps \in SUBSET {"ISO_DEP", "T3T"} : Route(ps) \in Seq(Bland)
  /\ <<Step("return", "-", "-")>> \in Seq(Bland)
<1>1. /\ Step("ee", "-", "-") \in Bland /\ Step("config", "-", "-") \in Bland
      /\ Step("mode", "-", "-") \in Bland /\ Step("routeP2p", "-", "-") \in Bland
      /\ Step("return", "-", "-") \in Bland
  BY DEF Step, Bland, Calm, HciOn, Steps, AStep, Typed, Vital, LlcpOn, LlcpUp, FlagSet, IsSet, OfInit
<1>2. ASSUME NEW ps \in SUBSET {"ISO_DEP", "T3T"} PROVE Step("route", "-", ps) \in Bland
  BY DEF Step, Bland, Calm, HciOn, Steps, AStep, Typed, Vital, LlcpOn, LlcpUp, FlagSet, IsSet, OfInit
<1> QED
  BY <1>1, <1>2, OneStep DEF EeRequest, Config, SetDtaMode, Route

LEMMA BlandSets ==
  /\ \A p \in Tests : Set("app", p) \in Seq(Bland) /\ Set("prev", p) \in Seq(Bland) /\ Set("disc", p) \in Seq(Bland)
  /\ \A q \in SUBSET {"ISO_DEP"} : Set("protocols", q) \in Seq(Bland)
  /\ \A f \in {"idle", "llcpEnabled", "felicaHandle"}, v \in BOOLEAN : Set(f, v) \in Seq(Bland)
<1>1. ASSUME NEW p \in Tests, NEW f \in {"app", "prev", "disc"} PROVE Step("set", f, p) \in Bland
  <2> DEFINE e == Step("set", f, p)
  <2>1. e \in AStep
    <3>1. p \in {"-"} \cup BOOLEAN \cup (SUBSET {"ISO_DEP", "T3T"}) \cup Tests
      OBVIOUS
    <3>2. f \in OsalObjects \cup Base \cup LlcpEnds \cup Registrations \cup Flags
                   \cup {"app", "prev", "disc", "protocols", "-"}
      OBVIOUS
    <3> QED
      BY <3>1, <3>2, Zenon DEF Step, AStep
  <2>2. e.op = "set" /\ e.x = f /\ e.to = p
    BY DEF Step
  <2> HIDE DEF e
  <2>3. e \in Bland
    BY <2>1, <2>2 DEF Bland, Calm, HciOn, Steps, Typed, Vital, LlcpOn, LlcpUp, FlagSet, IsSet, OfInit
  <2> QED
    BY <2>3 DEF e
<1>2. ASSUME NEW q \in SUBSET {"ISO_DEP"} PROVE Step("set", "protocols", q) \in Bland
  BY DEF Step, Bland, Calm, HciOn, Steps, AStep, Typed, Vital, LlcpOn, LlcpUp, FlagSet, IsSet, OfInit
<1>3. ASSUME NEW f \in {"idle", "llcpEnabled", "felicaHandle"}, NEW v \in BOOLEAN PROVE Step("set", f, v) \in Bland
  BY DEF Step, Bland, Calm, HciOn, Steps, AStep, Typed, Vital, LlcpOn, LlcpUp, FlagSet, IsSet, OfInit, Flags
<1>4. ASSUME NEW f, NEW v, Step("set", f, v) \in Bland PROVE Set(f, v) \in Seq(Bland)
  BY <1>4, OneStep DEF Set
<1> QED
  BY <1>1, <1>2, <1>3, <1>4

LEMMA BuildOne ==
  /\ \A x \in OsalObjects : Create(x) \in Seq(Build({x}, {})) /\ Delete(x) \in Seq(Build({}, {x}))
  /\ \A x \in Base : On(x) \in Seq(Build({}, {}))
  /\ \A x \in {"driver", "up"} : Off(x) \in Seq(Build({}, {}))
  /\ \A v \in BOOLEAN : Set("llcpEnabled", v) \in Seq(Build({}, {}))
  /\ Set("handle", TRUE) \in Seq(Build({}, {})) /\ Set("llcp", FALSE) \in Seq(Build({}, {}))
<1>1. ASSUME NEW x \in OsalObjects
      PROVE  Step("create", x, "-") \in Build({x}, {}) /\ Step("delete", x, "-") \in Build({}, {x})
  BY DEF Step, Build, Mild, HciOn, Steps, AStep, Typed, Vital, LlcpOn, LlcpUp, FlagSet, IsSet, OfInit
<1>2. ASSUME NEW x \in Base
      PROVE  Step("on", x, "-") \in Build({}, {})
  BY DEF Step, Build, Mild, HciOn, Steps, AStep, Typed, Vital, LlcpOn, LlcpUp, FlagSet, IsSet, OfInit, Base, LlcpEnds
<1>3. ASSUME NEW x \in {"driver", "up"}
      PROVE  Step("off", x, "-") \in Build({}, {})
  BY DEF Step, Build, Mild, HciOn, Steps, AStep, Typed, Vital, LlcpOn, LlcpUp, FlagSet, IsSet, OfInit, Base, LlcpEnds
<1>4. ASSUME NEW v \in BOOLEAN PROVE Step("set", "llcpEnabled", v) \in Build({}, {})
  BY DEF Step, Build, Mild, HciOn, Steps, AStep, Typed, Vital, LlcpOn, LlcpUp, FlagSet, IsSet, OfInit, Flags
<1>5. Step("set", "handle", TRUE) \in Build({}, {}) /\ Step("set", "llcp", FALSE) \in Build({}, {})
  BY DEF Step, Build, Mild, HciOn, Steps, AStep, Typed, Vital, LlcpOn, LlcpUp, FlagSet, IsSet, OfInit, Flags
<1> QED
  BY <1>1, <1>2, <1>3, <1>4, <1>5, OneStep DEF Create, Delete, On, Off, Set

-----------------------------------------------------------------------------
(* Steps whose failure a function ignores.                                 *)

More(e, f) == [e EXCEPT !.within = @ \cup {f}]

LEMMA WithinMore ==
  ASSUME NEW e \in AStep, NEW f
  PROVE  /\ More(e, f).op = e.op
         /\ More(e, f).x = e.x
         /\ More(e, f).to = e.to
         /\ More(e, f).within = e.within \cup {f}
BY DEF AStep, More

LEMMA WithinMoreIn ==
  ASSUME NEW e \in AStep, NEW f \in Around
  PROVE  More(e, f) \in AStep
BY DEF AStep, More

LEMMA IgnoringIs ==
  ASSUME NEW S, S \subseteq AStep, NEW T, NEW p \in Seq(S), NEW f,
         \A e \in S : More(e, f) \in T
  PROVE  /\ Ignoring(f, p) \in Seq(T) /\ Len(Ignoring(f, p)) = Len(p) /\ Len(p) \in Nat
         /\ \A i \in 1..Len(p) : /\ Ignoring(f, p)[i].op = p[i].op
                                /\ Ignoring(f, p)[i].x = p[i].x
                                /\ Ignoring(f, p)[i].to = p[i].to
                                /\ Ignoring(f, p)[i].within = p[i].within \cup {f}
<1> DEFINE g == [i \in 1..Len(p) |-> More(p[i], f)]
<1>1. \A i \in 1..Len(p) : p[i] \in S
  OBVIOUS
<1>2. g \in [1..Len(p) -> T] /\ Len(p) \in Nat
  BY <1>1
<1>3. g \in Seq(T) /\ Len(g) = Len(p)
  <2> HIDE DEF g
  <2> QED
    BY <1>2, LenProperties, SeqDef
<1>4. ASSUME NEW i \in 1..Len(p)
      PROVE  g[i].op = p[i].op /\ g[i].x = p[i].x /\ g[i].to = p[i].to /\ g[i].within = p[i].within \cup {f}
  <2>1. p[i] \in AStep /\ g[i] = More(p[i], f)
    BY <1>1
  <2> HIDE DEF g
  <2> QED
    BY <2>1, WithinMore
<1> HIDE DEF g
<1>5. Ignoring(f, p) = g
  BY DEF g, Ignoring, More
<1> QED
  BY <1>2, <1>3, <1>4, <1>5

LEMMA IgnoringMinors ==
  ASSUME NEW f \in Minor, NEW p \in Seq(Bland)
  PROVE  Ignoring(f, p) \in Seq(Minors)
<1>1. ASSUME NEW e \in Bland PROVE More(e, f) \in Minors
  <2> DEFINE d == More(e, f)
  <2>1. e \in AStep /\ f \in Around
    BY DEF Bland, Calm, Steps, Around
  <2>2. d \in AStep /\ d.op = e.op /\ d.x = e.x /\ d.to = e.to /\ d.within = e.within \cup {f}
    BY <2>1, WithinMore, WithinMoreIn
  <2> HIDE DEF d
  <2>3. d \in Bland
    BY <2>2 DEF Bland, Calm, HciOn, Steps, Typed, Vital, LlcpOn, LlcpUp, FlagSet, IsSet, OfInit
  <2> QED
    BY <2>2, <2>3 DEF Minors, d
<1>2. Bland \subseteq AStep
  BY DEF Bland, Calm, Steps
<1> QED
  BY <1>1, <1>2, IgnoringIs

LEMMA IgnoringCalm ==
  ASSUME NEW f \in Minor, NEW p \in Seq(Calm)
  PROVE  Ignoring(f, p) \in Seq(Calm)
<1>1. ASSUME NEW e \in Calm PROVE More(e, f) \in Calm
  <2> DEFINE d == More(e, f)
  <2>1. e \in AStep /\ f \in Around
    BY DEF Calm, Steps, Around
  <2>2. d \in AStep /\ d.op = e.op /\ d.x = e.x /\ d.to = e.to /\ d.within = e.within \cup {f}
    BY <2>1, WithinMore, WithinMoreIn
  <2> HIDE DEF d
  <2>3. d \in Calm
    BY <2>2 DEF Calm, Steps, Typed, Vital, LlcpOn, LlcpUp, FlagSet, IsSet, OfInit
  <2> QED
    BY <2>3 DEF d
<1>2. Calm \subseteq AStep
  BY DEF Calm, Steps
<1> QED
  BY <1>1, <1>2, IgnoringIs

LEMMA IgnoringBuild ==
  ASSUME NEW f \in Around \ Minor, NEW C, NEW D, NEW p \in Seq(Build(C, D)), InOrder(p)
  PROVE  Ignoring(f, p) \in Seq(Build(C, D)) /\ InOrder(Ignoring(f, p))
<1>1. ASSUME NEW e \in Build(C, D)
      PROVE  More(e, f) \in Build(C, D)
  <2> DEFINE d == More(e, f)
  <2>1. e \in AStep /\ f \in Around
    BY DEF Build, Steps, Around
  <2>2. d \in AStep /\ d.op = e.op /\ d.x = e.x /\ d.to = e.to /\ d.within = e.within \cup {f}
    BY <2>1, WithinMore, WithinMoreIn
  <2> HIDE DEF d
  <2>3. d.within \cap Minor = e.within \cap Minor
    BY <2>2
  <2>4. d \in Build(C, D)
    BY <2>2, <2>3 DEF Build, Steps, Typed, Vital, LlcpOn, LlcpUp, FlagSet, IsSet, OfInit, Mild, HciOn
  <2> QED
    BY <2>4 DEF d
<1> DEFINE q == Ignoring(f, p)
<1>2. Build(C, D) \subseteq AStep
  BY DEF Build, Steps
<1>3. /\ q \in Seq(Build(C, D)) /\ Len(q) = Len(p)
      /\ \A i \in 1..Len(p) : /\ q[i].op = p[i].op /\ q[i].x = p[i].x /\ q[i].to = p[i].to
                             /\ q[i].within = p[i].within \cup {f}
  BY <1>1, <1>2, IgnoringIs
<1> HIDE DEF q
<1>4. InOrder(q)
  <2> SUFFICES ASSUME NEW i \in 1..Len(p), NEW j \in 1..Len(p), i < j PROVE Before(q[i], q[j])
    BY <1>3 DEF InOrder
  <2>1. Before(p[i], p[j])
    BY DEF InOrder
  <2>2. /\ q[i].op = p[i].op /\ q[i].x = p[i].x /\ q[i].to = p[i].to /\ q[i].within \cap Minor = p[i].within \cap Minor
        /\ q[j].op = p[j].op /\ q[j].x = p[j].x /\ q[j].to = p[j].to
    BY <1>3
  <2> QED
    BY <2>1, <2>2 DEF Before, Vital, LlcpOn, LlcpUp, FlagSet, IsSet, OfInit, Mild, HciOn
<1> QED
  BY <1>3, <1>4 DEF q

(* What a step does and waits for does not depend on who ignores it.       *)
LEMMA IgnoringSame ==
  ASSUME NEW f, NEW p \in Seq(AStep)
  PROVE  /\ \A op, x : Has(Ignoring(f, p), op, x) <=> Has(p, op, x)
         /\ \A g, v : HasSet(Ignoring(f, p), g, v) <=> HasSet(p, g, v)
         /\ \A exists : Served(p, exists) => Served(Ignoring(f, p), exists)
<1> DEFINE q == Ignoring(f, p)
           T == {More(e, f) : e \in AStep}
<1>1. \A e \in AStep : More(e, f) \in T
  OBVIOUS
<1> HIDE DEF T
<1>2. Len(q) = Len(p) /\ \A i \in 1..Len(p) : q[i].op = p[i].op /\ q[i].x = p[i].x /\ q[i].to = p[i].to
  <2> DEFINE S == AStep
  <2>1. S \subseteq AStep /\ p \in Seq(S) /\ \A e \in S : More(e, f) \in T
    BY <1>1
  <2> HIDE DEF S
  <2>2. /\ q \in Seq(T) /\ Len(q) = Len(p)
        /\ \A i \in 1..Len(p) : /\ q[i].op = p[i].op /\ q[i].x = p[i].x /\ q[i].to = p[i].to
                               /\ q[i].within = p[i].within \cup {f}
    BY <2>1, IgnoringIs
  <2> QED
    BY <2>2
<1> HIDE DEF q
<1>3. \A op, x : Has(q, op, x) <=> Has(p, op, x)
  BY <1>2 DEF Has
<1>4. \A g, v : HasSet(q, g, v) <=> HasSet(p, g, v)
  BY <1>2 DEF HasSet, IsSet
<1>5. \A exists : Served(p, exists) => Served(q, exists)
  BY <1>2 DEF Served, Waits
<1> QED
  BY <1>3, <1>4, <1>5 DEF q

-----------------------------------------------------------------------------
(* Steps that neither build up nor take down.                              *)

LEMMA JoinedAll ==
  ASSUME NEW S, NEW a \in Seq(S), NEW b \in Seq(S), NEW c \in Seq(S)
  PROVE  /\ a \o b \in Seq(S) /\ a \o b \o c \in Seq(S)
         /\ \A d \in Seq(S) : a \o b \o c \o d \in Seq(S)
OBVIOUS

(* The functions whose steps no other call relies on.                      *)
LEMMA MinorsBland ==
  /\ Minors \subseteq Bland /\ Seq(Minors) \subseteq Seq(Bland)
  /\ Bland \subseteq Calm /\ Seq(Bland) \subseteq Seq(Calm)
<1>1. Minors \subseteq Bland /\ Bland \subseteq Calm
  BY DEF Minors, Bland
<1> QED
  BY <1>1, SeqIn

LEMMA MinorConfig ==
  /\ Ignoring("SetConfig", Config) \in Seq(Minors)
  /\ InitRouting \in Seq(Minors)
  /\ HciRegister \in Seq(Calm)
  /\ CeRegisterAID \in Seq(Minors)
  /\ RoutingUpdate \in Seq(Minors)
  /\ P2pRoutingConfigure \in Seq(Minors)
  /\ DiscoveryStop \in Seq(Minors)
<1>1. /\ {"SetConfig", "InitRouting", "HciRegister", "CeRegisterAID", "RoutingUpdate",
          "P2pRoutingConfigure", "DiscoveryStop"} \subseteq Minor
      /\ {"ee", "hci", "aid", "disc"} \subseteq Registrations
      /\ {} \in SUBSET {"ISO_DEP", "T3T"}
  BY DEF Minor, Registrations
<1>2. /\ Config \in Seq(Bland) /\ EeRequest \in Seq(Bland) /\ Route({}) \in Seq(Bland)
      /\ <<Step("routeP2p", "-", "-")>> \in Seq(Bland)
      /\ On("ee") \in Seq(Bland) /\ On("hci") \in Seq(Calm) /\ On("aid") \in Seq(Bland)
      /\ Off("disc") \in Seq(Bland)
  BY <1>1, BlandRequests, BlandOn
<1>3. On("ee") \o EeRequest \o Route({}) \in Seq(Bland)
  BY <1>2, Joined
<1> QED
  BY <1>1, <1>2, <1>3, IgnoringMinors, IgnoringCalm
     DEF InitRouting, HciRegister, CeRegisterAID, RoutingUpdate, P2pRoutingConfigure, DiscoveryStop

LEMMA BlandCe ==
  ASSUME NEW p, NEW app, NEW prev, NEW disc
  PROVE  /\ CeConfigure(p) \in Seq(Calm)
         /\ CeDeInit(app, prev, disc) \in Seq(Minors)
<1>1. /\ {"ee", "hci", "aid", "felica"} \subseteq Registrations
      /\ {{}, {"ISO_DEP"}} \subseteq SUBSET {"ISO_DEP"}
      /\ {{"ISO_DEP"}, {"T3T"}} \subseteq SUBSET {"ISO_DEP", "T3T"}
      /\ {"CeDeInit A", "CeDeInit F", "CeDeInit EE"} \subseteq Minor
  BY DEF Minor, Registrations
<1>2. \A x \in {"ee", "hci", "aid", "felica"} : (x # "hci" => On(x) \in Seq(Bland)) /\ Off(x) \in Seq(Bland)
  BY <1>1, BlandOn
<1>3. /\ EeRequest \in Seq(Bland) /\ Route({"ISO_DEP"}) \in Seq(Bland) /\ Route({"T3T"}) \in Seq(Bland)
      /\ Set("protocols", {}) \in Seq(Bland) /\ Set("protocols", {"ISO_DEP"}) \in Seq(Bland)
      /\ Set("felicaHandle", TRUE) \in Seq(Bland) /\ Set("felicaHandle", FALSE) \in Seq(Bland)
      /\ Ignoring("SetConfig", Config) \in Seq(Bland) /\ HciRegister \in Seq(Calm)
  BY <1>1, BlandRequests, BlandSets, MinorConfig, MinorsBland
<1>4. HceInit \o HceConfigure \in Seq(Bland)
  BY <1>2, <1>3 DEF HceInit, HceConfigure, HceConfigNciParams
<1>5. HceFInit \o HceFConfigure \in Seq(Bland)
  <2>1. HceFInit \in Seq(Bland) /\ HceFConfigure \in Seq(Bland)
    BY <1>2, <1>3, JoinedAll DEF HceFInit, HceFConfigure
  <2> QED
    BY <2>1
<1>6. EeInit \o EeConfigure \in Seq(Calm)
  BY <1>2, <1>3, MinorsBland DEF EeInit, EeConfigure, EeGetInfo
<1>7. CeConfigure(p) \in Seq(Calm)
  <2>1. /\ If("hceA" \in p, HceInit \o HceConfigure) \in Seq(Calm)
        /\ If("hceF" \in p, HceFInit \o HceFConfigure) \in Seq(Calm)
        /\ If("uicc" \in p, EeInit \o EeConfigure) \in Seq(Calm)
        /\ If("ese" \in p, EeInit \o EeConfigure) \in Seq(Calm)
    BY <1>4, <1>5, <1>6, Maybe, MinorsBland
  <2> QED
    BY <2>1 DEF CeConfigure
<1>8. HceDeInit(disc) \in Seq(Bland)
  <2>1. If(HostCE(disc), CeDeRegisterAID) \in Seq(Bland)
    BY <1>2, Maybe DEF CeDeRegisterAID
  <2> QED
    BY <1>2, <1>3, <2>1 DEF HceDeInit
<1>9. HceFDeInit \in Seq(Bland) /\ EeDeInit \in Seq(Bland)
  BY <1>2, <1>3, JoinedAll DEF HceFDeInit, EeDeInit
<1>10. CeDeInitHost(prev, disc) \in Seq(Bland)
  <2>1. /\ If("hceA" \in prev, HceDeInit(disc)) \in Seq(Bland)
        /\ If("hceF" \in prev, HceFDeInit) \in Seq(Bland)
    BY <1>8, <1>9, Maybe
  <2> QED
    BY <2>1 DEF CeDeInitHost
<1>11. /\ Ignoring("CeDeInit A", CeDeInitHost(prev, disc)) \in Seq(Minors)
       /\ Ignoring("CeDeInit F", CeDeInitHost(prev, disc)) \in Seq(Minors)
       /\ Ignoring("CeDeInit EE", EeDeInit) \in Seq(Minors)
  BY <1>1, <1>9, <1>10, IgnoringMinors
<1>12. /\ If("hceA" \in app, Ignoring("CeDeInit A", CeDeInitHost(prev, disc))) \in Seq(Minors)
       /\ If("hceF" \in app, Ignoring("CeDeInit F", CeDeInitHost(prev, disc))) \in Seq(Minors)
       /\ If(NfceeCE(app), Ignoring("CeDeInit EE", EeDeInit)) \in Seq(Minors)
  BY <1>11, Maybe
<1>13. CeDeInit(app, prev, disc) \in Seq(Minors)
  BY <1>12, JoinedAll DEF CeDeInit
<1> QED
  BY <1>7, <1>13

LEMMA BlandDiscovery ==
  ASSUME NEW p \in Tests, NEW disc
  PROVE  /\ MwEnableDiscovery(p) \in Seq(Bland)
         /\ MwDisableDiscovery(disc) \in Seq(Minors)
<1>1. {"poll", "p2pListen", "uiccListen", "eseListen", "isoDepListen", "listen", "disc", "aid"} \subseteq Registrations
  BY DEF Registrations
<1>2. \A x \in {"poll", "p2pListen", "uiccListen", "eseListen", "isoDepListen", "listen", "disc", "aid"} :
         x # "hci" /\ On(x) \in Seq(Bland) /\ Off(x) \in Seq(Bland)
  BY <1>1, BlandOn
<1>3. SetDiscoveryConfig(p) \in Seq(Minors)
  <2>1. Config \in Seq(Bland) /\ CeRegisterAID \in Seq(Bland)
    BY BlandRequests, MinorConfig, MinorsBland
  <2>2. SetIsoDepListenTech(p) \o CeRegisterAID \in Seq(Bland)
    BY <1>2, <2>1 DEF SetIsoDepListenTech, On, Off
  <2>3. /\ If(ListensP2p(p), On("p2pListen")) \in Seq(Bland)
        /\ If("uicc" \in p, On("uiccListen")) \in Seq(Bland)
        /\ If("ese" \in p, On("eseListen")) \in Seq(Bland)
        /\ If(HostCE(p), SetIsoDepListenTech(p) \o CeRegisterAID) \in Seq(Bland)
        /\ If("poll" \in p, On("poll")) \in Seq(Bland)
    BY <1>2, <2>2, Maybe
  <2> DEFINE l == If(ListensP2p(p), On("p2pListen")) \o If("uicc" \in p, On("uiccListen"))
                    \o If("ese" \in p, On("eseListen"))
                    \o If(HostCE(p), SetIsoDepListenTech(p) \o CeRegisterAID)
                    \o On("listen")
  <2>4. l \in Seq(Bland)
    BY <1>2, <2>3
  <2> HIDE DEF l
  <2>5. If(Listens(p), l) \in Seq(Bland)
    BY <2>4, Maybe
  <2>6. If("poll" \in p, On("poll")) \o If(Listens(p), l) \o Config \in Seq(Bland)
    BY <2>1, <2>3, <2>5
  <2>7. "SetDiscoveryConfig" \in Minor
    BY DEF Minor
  <2>8. Ignoring("SetDiscoveryConfig", If("poll" \in p, On("poll")) \o If(Listens(p), l) \o Config) \in Seq(Minors)
    BY <2>6, <2>7, IgnoringMinors
  <2> QED
    BY <2>8 DEF SetDiscoveryConfig, l
<1>4. ResetDiscoveryConfig(disc) \in Seq(Minors)
  <2>1. /\ If("p2p" \in disc, Off("p2pListen")) \in Seq(Bland)
        /\ If("uicc" \in disc, Off("uiccListen")) \in Seq(Bland)
        /\ If("ese" \in disc, Off("eseListen")) \in Seq(Bland)
        /\ If(HostCE(disc), CeDeRegisterAID) \in Seq(Bland)
    BY <1>2, Maybe DEF CeDeRegisterAID
  <2>2. Off("poll") \o Off("listen") \o If("p2p" \in disc, Off("p2pListen"))
          \o If("uicc" \in disc, Off("uiccListen")) \o If("ese" \in disc, Off("eseListen"))
          \o If(HostCE(disc), CeDeRegisterAID) \in Seq(Bland)
    BY <1>2, <2>1
  <2>3. "ResetDiscoveryConfig" \in Minor
    BY DEF Minor
  <2> QED
    BY <2>2, <2>3, IgnoringMinors DEF ResetDiscoveryConfig
<1>5. MwDisableDiscovery(disc) \in Seq(Minors)
  BY <1>4, MinorConfig DEF MwDisableDiscovery
<1>6. /\ SetDtaMode \in Seq(Bland) /\ RoutingUpdate \in Seq(Bland)
      /\ If("p2p" \in p, P2pRoutingConfigure) \in Seq(Bland)
      /\ Set("disc", p) \in Seq(Bland) /\ Set("idle", FALSE) \in Seq(Bland)
      /\ DiscoveryStart \in Seq(Bland)
  BY <1>2, BlandRequests, BlandSets, MinorConfig, MinorsBland, Maybe DEF DiscoveryStart
<1>7. SetDiscoveryConfig(p) \in Seq(Bland)
  BY <1>3, MinorsBland
<1>8. MwEnableDiscovery(p) \in Seq(Bland)
  <2> DEFINE m == SetDtaMode \o If("p2p" \in p, P2pRoutingConfigure) \o RoutingUpdate \o Set("disc", p)
  <2>1. m \in Seq(Bland)
    BY <1>6, JoinedAll
  <2>2. MwEnableDiscovery(p) = m \o SetDiscoveryConfig(p) \o DiscoveryStart \o Set("idle", FALSE)
    BY DEF MwEnableDiscovery
  <2> HIDE DEF m
  <2>3. m \o SetDiscoveryConfig(p) \o DiscoveryStart \in Seq(Bland)
    BY <1>6, <1>7, <2>1, JoinedAll
  <2>4. m \o SetDiscoveryConfig(p) \o DiscoveryStart \o Set("idle", FALSE) \in Seq(Bland)
    BY <1>6, <2>3, Joined
  <2> QED
    BY <2>2, <2>4
<1> QED
  BY <1>5, <1>8

-----------------------------------------------------------------------------
(* Sequences that build up and take down.                                  *)

(* p builds up C and takes down D, nothing twice.                          *)
Builds(p, C, D) ==
  /\ p \in Seq(Build(C, D)) /\ InOrder(p)
  /\ \A x \in C : Has(p, "create", x)
  /\ \A x \in D : Has(p, "delete", x)

LEMMA BuildMore ==
  ASSUME NEW C, NEW D, NEW E, NEW F, C \subseteq E, D \subseteq F
  PROVE  Build(C, D) \subseteq Build(E, F) /\ Seq(Build(C, D)) \subseteq Seq(Build(E, F))
<1>1. Build(C, D) \subseteq Build(E, F)
  BY DEF Build
<1> QED
  BY <1>1, SeqIn

LEMMA BuildsCat ==
  ASSUME NEW C, NEW D, NEW E, NEW F, NEW p, NEW q, Builds(p, C, D), Builds(q, E, F),
         C \cap E = {}, C \cap F = {}, D \cap F = {}
  PROVE  Builds(p \o q, C \cup E, D \cup F)
<1> DEFINE S == Build(C \cup E, D \cup F)
<1>1. p \in Seq(S) /\ q \in Seq(S)
  <2>1. Seq(Build(C, D)) \subseteq Seq(S) /\ Seq(Build(E, F)) \subseteq Seq(S)
    BY BuildMore
  <2> QED
    BY <2>1 DEF Builds
<1>2. p \o q \in Seq(S)
  <2> HIDE DEF S
  <2> QED
    BY <1>1
<1>3. InOrder(p \o q)
  <2>1. \A a \in Build(C, D) : \A b \in Build(E, F) : Before(a, b)
    <3> SUFFICES ASSUME NEW a \in Build(C, D), NEW b \in Build(E, F) PROVE Before(a, b)
      OBVIOUS
    <3>1. Mild(a) /\ ~LlcpOn(a) /\ ~LlcpUp(a) /\ ~FlagSet(a) /\ ~LlcpOn(b)
      BY DEF Build
    <3>2. a.op = "create" /\ b.op \in {"create", "delete"} => a.x # b.x
      BY DEF Build
    <3>3. a.op = "delete" /\ b.op = "delete" => a.x # b.x
      BY DEF Build
    <3> QED
      BY <3>1, <3>2, <3>3 DEF Before
  <2> QED
    BY <2>1, CatInOrder DEF Builds
<1> HIDE DEF S
<1>4. ASSUME NEW x \in C \cup E PROVE Has(p \o q, "create", x)
  BY <1>1, CatHas DEF Builds
<1>5. ASSUME NEW x \in D \cup F PROVE Has(p \o q, "delete", x)
  BY <1>1, CatHas DEF Builds
<1> QED
  BY <1>2, <1>3, <1>4, <1>5 DEF Builds, S

LEMMA BuildsPlain ==
  ASSUME NEW p
  PROVE  /\ p \in Seq(Build({}, {})) => Builds(p, {}, {})
         /\ p \in Seq(Minors) => Builds(p, {}, {})
<1>1. \A a, b \in Build({}, {}) : Before(a, b)
  BY DEF Build, Before
<1>2. p \in Seq(Build({}, {})) => Builds(p, {}, {})
  BY <1>1, FreeInOrder DEF Builds
<1>3. Minors \subseteq Build({}, {})
  BY DEF Minors, Bland, Calm, Build, Mild, Vital, OfInit
<1>4. p \in Seq(Minors) => p \in Seq(Build({}, {}))
  BY <1>3, SeqIn
<1> QED
  BY <1>2, <1>4

LEMMA BuildsThen ==
  ASSUME NEW C, NEW D, NEW p, NEW q, Builds(p, C, D), Builds(q, {}, {})
  PROVE  Builds(p \o q, C, D) /\ Builds(q \o p, C, D)
<1>1. C \cup {} = C /\ {} \cup C = C /\ D \cup {} = D /\ {} \cup D = D
  OBVIOUS
<1>2. Builds(p \o q, C \cup {}, D \cup {})
  BY BuildsCat
<1>3. Builds(q \o p, {} \cup C, {} \cup D)
  BY BuildsCat
<1> QED
  BY <1>1, <1>2, <1>3

LEMMA BuildsIgnoring ==
  ASSUME NEW C, NEW D, NEW p, Builds(p, C, D), NEW f \in Around \ Minor
  PROVE  Builds(Ignoring(f, p), C, D)
<1>1. p \in Seq(AStep)
  <2>1. Build(C, D) \subseteq AStep
    BY DEF Build, Steps
  <2> QED
    BY <2>1, SeqIn DEF Builds
<1> QED
  BY <1>1, IgnoringBuild, IgnoringSame DEF Builds

LEMMA SetHas ==
  ASSUME NEW f, NEW v
  PROVE  HasSet(Set(f, v), f, v) /\ \A g, u : HasSet(Set(f, v), g, u) => g = f /\ u = v
<1>1. /\ Len(Set(f, v)) = 1 /\ Set(f, v)[1].op = "set"
      /\ Set(f, v)[1].x = f /\ Set(f, v)[1].to = v
  BY DEF Set, Step
<1> QED
  BY <1>1 DEF HasSet, IsSet

LEMMA BuildsOne ==
  /\ \A x \in OsalObjects : Builds(Create(x), {x}, {}) /\ Builds(Delete(x), {}, {x})
  /\ \A x \in Base : Builds(On(x), {}, {})
  /\ \A x \in {"driver", "up"} : Builds(Off(x), {}, {}) /\ Has(Off(x), "off", x)
  /\ \A v \in BOOLEAN : Builds(Set("llcpEnabled", v), {}, {})
  /\ Builds(Set("handle", TRUE), {}, {}) /\ HasSet(Set("handle", TRUE), "handle", TRUE)
  /\ Builds(Set("llcp", FALSE), {}, {}) /\ HasSet(Set("llcp", FALSE), "llcp", FALSE)
  /\ \A f \in {"app", "prev"}, p \in Tests : Builds(Set(f, p), {}, {})
<1>1. ASSUME NEW x \in OsalObjects
      PROVE  Builds(Create(x), {x}, {}) /\ Builds(Delete(x), {}, {x})
  <2>1. Create(x) \in Seq(Build({x}, {})) /\ Delete(x) \in Seq(Build({}, {x}))
    BY BuildOne
  <2>2. InOrder(Create(x)) /\ InOrder(Delete(x))
    BY OneStep DEF Create, Delete
  <2>3. Has(Create(x), "create", x) /\ Has(Delete(x), "delete", x)
    <3>1. /\ Len(Create(x)) = 1 /\ Create(x)[1].op = "create" /\ Create(x)[1].x = x
          /\ Len(Delete(x)) = 1 /\ Delete(x)[1].op = "delete" /\ Delete(x)[1].x = x
      BY DEF Create, Delete, Step
    <3> QED
      BY <3>1 DEF Has
  <2> QED
    BY <2>1, <2>2, <2>3 DEF Builds
<1>2. \A x \in {"driver", "up"} : Has(Off(x), "off", x)
  <2> SUFFICES ASSUME NEW x \in {"driver", "up"} PROVE Has(Off(x), "off", x)
    OBVIOUS
  <2>1. Len(Off(x)) = 1 /\ Off(x)[1].op = "off" /\ Off(x)[1].x = x
    BY DEF Off, Step
  <2> QED
    BY <2>1 DEF Has
<1>3. HasSet(Set("handle", TRUE), "handle", TRUE) /\ HasSet(Set("llcp", FALSE), "llcp", FALSE)
  BY SetHas
<1>4. ASSUME NEW f \in {"app", "prev"}, NEW p \in Tests PROVE Builds(Set(f, p), {}, {})
  <2>1. Set(f, p) \in Seq(Bland) /\ Set(f, p) = <<Step("set", f, p)>>
    BY BlandSets DEF Set
  <2>2. Step("set", f, p) \in Bland /\ Step("set", f, p).op = "set"
    <3>1. <<Step("set", f, p)>>[1] = Step("set", f, p) /\ 1 \in 1..Len(<<Step("set", f, p)>>)
      OBVIOUS
    <3>2. Step("set", f, p) \in Bland
      BY <2>1, <3>1, SeqIn
    <3> QED
      BY <3>2 DEF Step
  <2>3. Step("set", f, p) \in Build({}, {})
    BY <2>2 DEF Build, Bland, Calm, Mild, HciOn, Vital
  <2> QED
    BY <2>1, <2>3, OneStep, BuildsPlain
<1> QED
  BY <1>1, <1>2, <1>3, <1>4, BuildOne, BuildsPlain

LEMMA BuildsMaybe ==
  ASSUME NEW c, NEW p, NEW C, NEW D, c => Builds(p, C, D)
  PROVE  Builds(If(c, p), IF c THEN C ELSE {}, IF c THEN D ELSE {})
<1>1. <<>> \in Seq(Build({}, {}))
  BY NoStep
<1>2. Builds(<<>>, {}, {})
  BY <1>1, BuildsPlain
<1> QED
  BY <1>2 DEF If

-----------------------------------------------------------------------------
(* Waits that are served; the middleware's own sequences.                  *)

LEMMA ServedAlways ==
  ASSUME NEW p, Served(p, FALSE)
  PROVE  Served(p, TRUE)
BY DEF Served

LEMMA ServedWhileThere ==
  ASSUME NEW p, ~Has(p, "delete", "mwq")
  PROVE  Served(p, TRUE)
BY DEF Has, Served

LEMMA ServedQuiet ==
  /\ \A x, v : /\ Served(Create(x), FALSE) /\ Served(Delete(x), FALSE)
               /\ Served(Set(x, v), FALSE)
  /\ Served(On("driver"), FALSE) /\ Served(Off("driver"), FALSE)
  /\ Served(<<Step("return", "-", "-")>>, FALSE)
<1>1. ASSUME NEW e, ~Waits(e) PROVE Served(<<e>>, FALSE)
  BY <1>1 DEF Served
<1>2. \A x, v : ~Waits(Step("create", x, "-")) /\ ~Waits(Step("delete", x, "-")) /\ ~Waits(Step("set", x, v))
  BY DEF Waits, Step
<1>3. ~Waits(Step("on", "driver", "-")) /\ ~Waits(Step("off", "driver", "-")) /\ ~Waits(Step("return", "-", "-"))
  BY DEF Waits, Step, Base
<1> QED
  BY <1>1, <1>2, <1>3 DEF Create, Delete, Set, On, Off

LEMMA BuildsSteps ==
  ASSUME NEW p, NEW C, NEW D, Builds(p, C, D)
  PROVE  /\ p \in Seq(Steps)
         /\ \A x : Has(p, "delete", x) => x \in D
         /\ \A x : Has(p, "create", x) => x \in C
<1>1. \A i \in 1..Len(p) : p[i] \in Build(C, D)
  BY DEF Builds
<1>2. Build(C, D) \subseteq Steps
  BY DEF Build
<1>3. p \in Seq(Steps)
  BY <1>2, SeqIn DEF Builds
<1> QED
  BY <1>1, <1>3 DEF Build, Has

(* Builds and Served of steps put together.                                *)
LEMMA BuildsServed ==
  ASSUME NEW C, NEW D, NEW E, NEW F, NEW p, NEW q, NEW exists,
         Builds(p, C, D), Builds(q, E, F), C \cap E = {}, C \cap F = {}, D \cap F = {},
         Served(p, exists),
         \/ "mwq" \in C \/ Served(q, FALSE)
         \/ "mwq" \notin D /\ Served(q, exists)
  PROVE  Builds(p \o q, C \cup E, D \cup F) /\ Served(p \o q, exists)
<1>1. Builds(p \o q, C \cup E, D \cup F)
  BY BuildsCat
<1>2. p \in Seq(Steps) /\ q \in Seq(Steps)
  BY BuildsSteps
<1>3. "mwq" \in C => Has(p, "create", "mwq")
  BY DEF Builds
<1>4. "mwq" \notin D => ~Has(p, "delete", "mwq")
  BY BuildsSteps
<1>5. Served(p \o q, exists)
  BY <1>2, <1>3, <1>4, CatServed
<1> QED
  BY <1>1, <1>5

LEMMA MwInitBuilds ==
  /\ Builds(MwInit, MwObjects, {}) /\ Served(MwInit, FALSE)
  /\ HasSet(MwInit, "handle", TRUE)
<1> DEFINE a == On("driver") \o Create("mwq")
           b == a \o Create("sem")
           c == b \o Create("intg")
           d == c \o StackInit
           e == d \o InitRouting
           f == e \o On("ndef")
           g == f \o Set("handle", TRUE)
<1>1. {"mwq", "sem", "intg"} \subseteq OsalObjects /\ {"driver", "up", "ndef", "p2p"} \subseteq Base
  BY DEF OsalObjects, Base
<1>2. /\ Builds(Create("mwq"), {"mwq"}, {}) /\ Builds(Create("sem"), {"sem"}, {})
      /\ Builds(Create("intg"), {"intg"}, {})
      /\ Builds(On("driver"), {}, {}) /\ Builds(StackInit, {}, {}) /\ Builds(On("ndef"), {}, {})
      /\ Builds(On("p2p"), {}, {}) /\ Builds(Set("handle", TRUE), {}, {})
      /\ HasSet(Set("handle", TRUE), "handle", TRUE)
      /\ Builds(InitRouting, {}, {})
  BY <1>1, BuildsOne, MinorConfig, BuildsPlain DEF StackInit
<1>3. Builds(a, {"mwq"}, {}) /\ Served(a, FALSE)
  <2>1. Served(On("driver"), FALSE) /\ Served(Create("mwq"), FALSE)
    BY ServedQuiet
  <2>2. Builds(a, {} \cup {"mwq"}, {} \cup {}) /\ Served(a, FALSE)
    <3>1. {} \cap {"mwq"} = {} /\ {} \cap {} = {}
      OBVIOUS
    <3> QED
      BY <1>2, <2>1, <3>1, BuildsServed
  <2> QED
    BY <2>2
<1> HIDE DEF a
<1>4. Builds(b, {"mwq", "sem"}, {}) /\ Served(b, FALSE)
  <2>1. Builds(b, {"mwq"} \cup {"sem"}, {} \cup {}) /\ Served(b, FALSE)
    <3>1. {"mwq"} \cap {"sem"} = {} /\ {"mwq"} \cap {} = {} /\ {} \cap {} = {} /\ "mwq" \in {"mwq"}
      OBVIOUS
    <3> QED
      BY <1>2, <1>3, <3>1, BuildsServed
  <2> QED
    BY <2>1
<1> HIDE DEF b
<1>5. Builds(c, MwObjects, {}) /\ Served(c, FALSE)
  <2>1. Builds(c, {"mwq", "sem"} \cup {"intg"}, {} \cup {}) /\ Served(c, FALSE)
    BY <1>2, <1>4, BuildsServed, ZenonT(40)
  <2> QED
    BY <2>1 DEF MwObjects
<1> HIDE DEF c
<1>6. ASSUME NEW p, NEW q, Builds(p, MwObjects, {}), Served(p, FALSE), Builds(q, {}, {})
      PROVE  Builds(p \o q, MwObjects, {}) /\ Served(p \o q, FALSE)
  <2>1. Builds(p \o q, MwObjects \cup {}, {} \cup {}) /\ Served(p \o q, FALSE)
    <3>1. "mwq" \in MwObjects
      BY DEF MwObjects
    <3> QED
      BY <1>6, <3>1, BuildsServed
  <2> QED
    BY <2>1
<1>7. Builds(d, MwObjects, {}) /\ Served(d, FALSE)
  BY <1>2, <1>5, <1>6
<1> HIDE DEF d
<1>8. Builds(e, MwObjects, {}) /\ Served(e, FALSE)
  BY <1>2, <1>6, <1>7
<1> HIDE DEF e
<1>9. Builds(f, MwObjects, {}) /\ Served(f, FALSE)
  BY <1>2, <1>6, <1>8
<1> HIDE DEF f
<1>10. Builds(g, MwObjects, {}) /\ Served(g, FALSE)
  BY <1>2, <1>6, <1>9
<1>11. HasSet(g, "handle", TRUE)
  <2>1. f \in Seq(Steps) /\ Set("handle", TRUE) \in Seq(Steps)
    BY <1>2, <1>9, BuildsSteps
  <2> QED
    BY <1>2, <2>1, CatHasSet
<1> HIDE DEF g
<1>12. Builds(g \o On("p2p"), MwObjects, {}) /\ Served(g \o On("p2p"), FALSE)
  BY <1>2, <1>6, <1>10
<1>13. HasSet(g \o On("p2p"), "handle", TRUE)
  <2>1. g \in Seq(Steps) /\ On("p2p") \in Seq(Steps)
    BY <1>2, <1>10, BuildsSteps
  <2> QED
    BY <1>11, <2>1, CatHasSet
<1>14. MwInit = g \o On("p2p")
  BY DEF MwInit, ConfigureDriver, a, b, c, d, e, f, g
<1> QED
  BY <1>12, <1>13, <1>14

LEMMA MwDeInitBuilds ==
  /\ Builds(MwDeInit, {}, MwObjects) /\ Served(MwDeInit, TRUE)
  /\ Has(MwDeInit, "off", "up") /\ Has(MwDeInit, "off", "driver")
<1> DEFINE a == Ignoring("SetConfig", Config) \o Set("llcpEnabled", FALSE)
           b == a \o StackDeInit
           c == b \o Off("driver")
           d == c \o Delete("intg")
           e == d \o Delete("sem")
<1>1. {"mwq", "sem", "intg"} \subseteq OsalObjects /\ FALSE \in BOOLEAN
  BY DEF OsalObjects
<1>2. /\ Builds(Delete("mwq"), {}, {"mwq"}) /\ Builds(Delete("sem"), {}, {"sem"})
      /\ Builds(Delete("intg"), {}, {"intg"})
      /\ Builds(Off("driver"), {}, {}) /\ Builds(StackDeInit, {}, {})
      /\ Has(Off("driver"), "off", "driver") /\ Has(StackDeInit, "off", "up")
      /\ Builds(Set("llcpEnabled", FALSE), {}, {})
      /\ Builds(Ignoring("SetConfig", Config), {}, {})
  BY <1>1, BuildsOne, MinorConfig, BuildsPlain DEF StackDeInit
<1>3. Builds(a, {}, {})
  BY <1>2, BuildsThen
<1> HIDE DEF a
<1>4. Builds(b, {}, {}) /\ Has(b, "off", "up")
  <2>1. Builds(b, {}, {})
    BY <1>2, <1>3, BuildsThen
  <2>2. a \in Seq(Steps) /\ StackDeInit \in Seq(Steps)
    BY <1>2, <1>3, BuildsSteps
  <2> QED
    BY <1>2, <2>1, <2>2, CatHas
<1> HIDE DEF b
<1>5. Builds(c, {}, {}) /\ Has(c, "off", "up") /\ Has(c, "off", "driver")
  <2>1. Builds(c, {}, {})
    BY <1>2, <1>4, BuildsThen
  <2>2. b \in Seq(Steps) /\ Off("driver") \in Seq(Steps)
    BY <1>2, <1>4, BuildsSteps
  <2> QED
    BY <1>2, <1>4, <2>1, <2>2, CatHas
<1> HIDE DEF c
<1>6. Builds(d, {}, {"intg"}) /\ Has(d, "off", "up") /\ Has(d, "off", "driver")
  <2>1. Builds(d, {} \cup {}, {} \cup {"intg"})
    BY <1>2, <1>5, BuildsCat
  <2>2. c \in Seq(Steps) /\ Delete("intg") \in Seq(Steps)
    BY <1>2, <1>5, BuildsSteps
  <2> QED
    BY <1>5, <2>1, <2>2, CatHas
<1> HIDE DEF d
<1>7. Builds(e, {}, {"intg", "sem"}) /\ Has(e, "off", "up") /\ Has(e, "off", "driver")
  <2>1. Builds(e, {} \cup {}, {"intg"} \cup {"sem"})
    BY <1>2, <1>6, BuildsCat
  <2>2. d \in Seq(Steps) /\ Delete("sem") \in Seq(Steps)
    BY <1>2, <1>6, BuildsSteps
  <2> QED
    BY <1>6, <2>1, <2>2, CatHas
<1> HIDE DEF e
<1>8. Served(e, TRUE)
  <2>1. ~Has(e, "delete", "mwq")
    <3>1. \A x : Has(e, "delete", x) => x \in {"intg", "sem"}
      BY <1>7, BuildsSteps
    <3> QED
      BY <3>1
  <2> QED
    BY <2>1, ServedWhileThere
<1>9. Builds(e \o Delete("mwq"), {}, MwObjects) /\ Served(e \o Delete("mwq"), TRUE)
  <2>1. Served(Delete("mwq"), FALSE)
    BY ServedQuiet
  <2>2. Builds(e \o Delete("mwq"), {} \cup {}, {"intg", "sem"} \cup {"mwq"}) /\ Served(e \o Delete("mwq"), TRUE)
    <3>1. {} \cap {} = {} /\ {} \cap {"mwq"} = {} /\ {"intg", "sem"} \cap {"mwq"} = {}
      OBVIOUS
    <3> QED
      BY <1>2, <1>7, <1>8, <2>1, <3>1, BuildsServed
  <2> QED
    BY <2>2 DEF MwObjects
<1>10. Has(e \o Delete("mwq"), "off", "up") /\ Has(e \o Delete("mwq"), "off", "driver")
  <2>1. e \in Seq(Steps) /\ Delete("mwq") \in Seq(Steps)
    BY <1>2, <1>7, BuildsSteps
  <2> QED
    BY <1>7, <2>1, CatHas
<1>11. MwDeInit = e \o Delete("mwq")
  BY DEF MwDeInit, a, b, c, d, e
<1> QED
  BY <1>9, <1>10, <1>11

(* The middleware is released and initialised again.                       *)
LEMMA ReInitBuilds ==
  ASSUME NEW p, Builds(p, {}, {})
  PROVE  Builds(p \o MwDeInit \o MwInit, MwObjects, MwObjects) /\ Served(p \o MwDeInit \o MwInit, TRUE)
<1>1. Builds(p \o MwDeInit, {}, MwObjects) /\ Served(p \o MwDeInit, TRUE)
  <2>1. Served(p, TRUE)
    <3>1. ~Has(p, "delete", "mwq")
      BY BuildsSteps
    <3> QED
      BY <3>1, ServedWhileThere
  <2>2. Builds(p \o MwDeInit, {} \cup {}, {} \cup MwObjects) /\ Served(p \o MwDeInit, TRUE)
    BY <2>1, MwDeInitBuilds, BuildsServed
  <2> QED
    BY <2>2
<1> DEFINE q == p \o MwDeInit
<1> HIDE DEF q
<1>2. Builds(q, {}, MwObjects) /\ Served(q, TRUE)
  BY <1>1 DEF q
<1>3. Builds(q \o MwInit, {} \cup MwObjects, MwObjects \cup {}) /\ Served(q \o MwInit, TRUE)
  BY <1>2, MwInitBuilds, BuildsServed
<1> QED
  BY <1>3 DEF q

-----------------------------------------------------------------------------
(* The steps of an initialisation and of a release.                        *)

Return == Step("return", "-", "-")

(* The steps of a call.                                                    *)
Allowed(name) ==
  { s \in Steps : /\ FlagSet(s) => \/ name = "init" /\ s.to = TRUE
                                   \/ name = "deinit" /\ s.to = FALSE
                  /\ LlcpUp(s) => name = "enable" }

LEMMA EndWith ==
  ASSUME NEW A, NEW p \in Seq(A), InOrder(p), NEW e, \A a \in A : Before(a, e)
  PROVE  /\ p \o <<e>> \in Seq(A \cup {e}) /\ InOrder(p \o <<e>>)
         /\ \A op, x : Has(p \o <<e>>, op, x) <=> Has(p, op, x) \/ (e.op = op /\ e.x = x)
         /\ \A f, v : HasSet(p \o <<e>>, f, v) <=> HasSet(p, f, v) \/ (IsSet(e, f) /\ e.to = v)
         /\ \A exists : Served(p, exists) /\ ~Waits(e) => Served(p \o <<e>>, exists)
<1>1. /\ <<e>> \in Seq({e}) /\ Len(<<e>>) = 1 /\ <<e>>[1] = e /\ InOrder(<<e>>)
  BY OneStep
<1> DEFINE q == <<e>>
<1> HIDE DEF q
<1>2. q \in Seq({e}) /\ Len(q) = 1 /\ q[1] = e /\ InOrder(q)
  BY <1>1 DEF q
<1>3. p \in Seq(A \cup {e}) /\ q \in Seq(A \cup {e})
  BY <1>2, SeqIn
<1>4. p \o q \in Seq(A \cup {e})
  BY <1>3, Joined
<1>5. InOrder(p \o q)
  <2>1. \A a \in A : \A b \in {e} : Before(a, b)
    OBVIOUS
  <2> QED
    BY <1>2, <2>1, CatInOrder
<1>6. \A op, x : Has(p \o q, op, x) <=> Has(p, op, x) \/ (e.op = op /\ e.x = x)
  <2>1. \A op, x : Has(q, op, x) <=> e.op = op /\ e.x = x
    BY <1>2 DEF Has
  <2>2. \A op, x : Has(p \o q, op, x) <=> Has(p, op, x) \/ Has(q, op, x)
    BY <1>3, CatHas
  <2> QED
    BY <2>1, <2>2
<1>7. \A f, v : HasSet(p \o q, f, v) <=> HasSet(p, f, v) \/ (IsSet(e, f) /\ e.to = v)
  <2>1. \A f, v : HasSet(q, f, v) <=> IsSet(e, f) /\ e.to = v
    BY <1>2 DEF HasSet
  <2>2. \A f, v : HasSet(p \o q, f, v) <=> HasSet(p, f, v) \/ HasSet(q, f, v)
    BY <1>3, CatHasSet
  <2> QED
    BY <2>1, <2>2
<1>8. ASSUME NEW exists, Served(p, exists), ~Waits(e) PROVE Served(p \o q, exists)
  <2>1. Served(q, FALSE)
    BY <1>2, <1>8 DEF Served
  <2> QED
    BY <1>3, <1>8, <2>1, CatServed
<1> QED
  BY <1>4, <1>5, <1>6, <1>7, <1>8 DEF q

(* How a library is built up or taken down is finished with its flags.     *)
LEMMA SetIs ==
  ASSUME NEW f, NEW v
  PROVE  /\ Step("set", f, v).op = "set" /\ Step("set", f, v).x = f /\ Step("set", f, v).to = v
         /\ Step("set", f, v).within = {} /\ ~Waits(Step("set", f, v))
         /\ \A g : IsSet(Step("set", f, v), g) <=> g = f
BY DEF Step, Waits, IsSet

LEMMA ReturnIs ==
  /\ Return.op = "return" /\ Return.x = "-" /\ ~Waits(Return) /\ ~Vital(Return) /\ ~LlcpOn(Return)
  /\ ~LlcpUp(Return) /\ ~FlagSet(Return) /\ \A g : ~IsSet(Return, g)
  /\ Return \in Steps
<1>1. Return.op = "return" /\ Return.x = "-"
  BY DEF Return, Step
<1>2. Return \in Bland
  <2>1. <<Step("return", "-", "-")>> \in Seq(Bland)
    BY BlandRequests
  <2>2. 1 \in 1..Len(<<Return>>) /\ <<Return>>[1] = Return
    OBVIOUS
  <2> QED
    BY <2>1, <2>2, SeqIn DEF Return
<1> QED
  BY <1>1, <1>2 DEF Bland, Calm, Waits, Vital, LlcpOn, LlcpUp, FlagSet, IsSet, OfInit

LEMMA BeforeReturn ==
  ASSUME NEW a
  PROVE  Before(a, Return)
BY ReturnIs DEF Before

LEMMA FlagStep ==
  ASSUME NEW f \in {"init", "jni"}, NEW v \in BOOLEAN
  PROVE  Step("set", f, v) \in Steps /\ FlagSet(Step("set", f, v)) /\ ~LlcpUp(Step("set", f, v))
<1> DEFINE e == Step("set", f, v)
<1>1. e \in AStep
  <2>1. v \in {"-"} \cup BOOLEAN \cup (SUBSET {"ISO_DEP", "T3T"}) \cup Tests
    BY Zenon
  <2>2. f \in OsalObjects \cup Base \cup LlcpEnds \cup Registrations \cup Flags
                 \cup {"app", "prev", "disc", "protocols", "-"}
    BY DEF Flags
  <2>3. {} \in SUBSET Around
    OBVIOUS
  <2> QED
    BY <2>1, <2>2, <2>3, Zenon DEF Step, AStep
<1>2. e.op = "set" /\ e.x = f /\ e.to = v /\ e.within = {}
  BY DEF Step
<1> HIDE DEF e
<1>3. e \in Steps /\ FlagSet(e) /\ ~LlcpUp(e)
  <2>1. Typed(e)
    BY <1>2 DEF Typed, Flags
  <2>2. FlagSet(e) /\ ~LlcpUp(e) /\ ~IsSet(e, "handle")
    BY <1>2 DEF FlagSet, LlcpUp, IsSet
  <2> QED
    BY <1>1, <1>2, <2>1, <2>2 DEF Steps
<1> QED
  BY <1>3 DEF e

LEMMA BeforeFlag ==
  ASSUME NEW a, Mild(a), NEW f, NEW v, ~(FlagSet(a) /\ f = "init")
  PROVE  Before(a, Step("set", f, v))
BY SetIs DEF Before, LlcpOn

(* What the library acquires before its flags are set.                     *)
DtaUp ==
  Ignoring("queue", Create("dtaq")) \o Ignoring("congestion", Create("congestq"))
    \o Ignoring("thread", Create("dta")) \o MwInit

LEMMA DtaUpBuilds ==
  Builds(DtaUp, OsalObjects, {}) /\ Served(DtaUp, FALSE) /\ HasSet(DtaUp, "handle", TRUE)
<1> DEFINE a == Ignoring("queue", Create("dtaq"))
           b == Ignoring("congestion", Create("congestq"))
           c == Ignoring("thread", Create("dta"))
           ab == a \o b
           abc == ab \o c
<1>1. {"dtaq", "congestq", "dta"} \subseteq OsalObjects /\ {"queue", "congestion", "thread"} \subseteq Around \ Minor
  BY DEF OsalObjects, Around, Minor
<1>2. Builds(a, {"dtaq"}, {}) /\ Builds(b, {"congestq"}, {}) /\ Builds(c, {"dta"}, {})
  BY <1>1, BuildsOne, BuildsIgnoring
<1>3. Served(a, FALSE) /\ Served(b, FALSE) /\ Served(c, FALSE)
  <2>1. ASSUME NEW x \in OsalObjects PROVE Create(x) \in Seq(AStep)
    <3>1. Create(x) \in Seq(Build({x}, {}))
      BY BuildOne
    <3>2. Build({x}, {}) \subseteq AStep
      BY DEF Build, Steps
    <3> QED
      BY <3>1, <3>2, SeqIn
  <2> QED
    BY <1>1, <2>1, IgnoringSame, ServedQuiet
<1> HIDE DEF a, b, c
<1>4. Builds(ab, {"dtaq", "congestq"}, {}) /\ Served(ab, FALSE)
  <2>1. {"dtaq"} \cap {"congestq"} = {} /\ {"dtaq"} \cap {} = {} /\ {} \cap {} = {}
    OBVIOUS
  <2>2. Builds(ab, {"dtaq"} \cup {"congestq"}, {} \cup {}) /\ Served(ab, FALSE)
    BY <1>2, <1>3, <2>1, BuildsServed
  <2> QED
    BY <2>2
<1> HIDE DEF ab
<1>5. Builds(abc, {"dtaq", "congestq", "dta"}, {}) /\ Served(abc, FALSE)
  <2>1. {"dtaq", "congestq"} \cap {"dta"} = {} /\ {"dtaq", "congestq"} \cap {} = {} /\ {} \cap {} = {}
    OBVIOUS
  <2>2. Builds(abc, {"dtaq", "congestq"} \cup {"dta"}, {} \cup {}) /\ Served(abc, FALSE)
    BY <1>2, <1>3, <1>4, <2>1, BuildsServed
  <2> QED
    BY <2>2
<1> HIDE DEF abc
<1>6. Builds(abc \o MwInit, OsalObjects, {}) /\ Served(abc \o MwInit, FALSE)
  <2>1. {"dtaq", "congestq", "dta"} \cap MwObjects = {} /\ {"dtaq", "congestq", "dta"} \cap {} = {} /\ {} \cap {} = {}
    BY DEF MwObjects
  <2>2. Builds(abc \o MwInit, {"dtaq", "congestq", "dta"} \cup MwObjects, {} \cup {}) /\ Served(abc \o MwInit, FALSE)
    BY <1>5, <2>1, MwInitBuilds, BuildsServed
  <2>3. {"dtaq", "congestq", "dta"} \cup MwObjects = OsalObjects
    BY DEF MwObjects, OsalObjects
  <2> QED
    BY <2>2, <2>3
<1>7. HasSet(abc \o MwInit, "handle", TRUE)
  <2>1. abc \in Seq(Steps) /\ MwInit \in Seq(Steps)
    BY <1>5, MwInitBuilds, BuildsSteps
  <2> QED
    BY <2>1, MwInitBuilds, CatHasSet
<1>8. DtaUp = abc \o MwInit
  BY DEF DtaUp, a, b, c, ab, abc
<1> QED
  BY <1>6, <1>7, <1>8

LEMMA AllowedBuild ==
  ASSUME NEW C, NEW D, NEW name
  PROVE  Build(C, D) \subseteq Allowed(name) /\ Return \in Allowed(name) /\ Calm \subseteq Allowed(name)
<1>1. Build(C, D) \subseteq Allowed(name)
  BY DEF Build, Allowed
<1>2. Return \in Allowed(name)
  BY ReturnIs DEF Allowed
<1>3. Calm \subseteq Allowed(name)
  BY DEF Calm, Allowed, Vital
<1> QED
  BY <1>1, <1>2, <1>3

(* The initialisation of a library that is not up.                         *)
LEMMA InitSteps ==
  ASSUME ~hdl.jni, ~hdl.init, NEW P, P = JniInit \o <<Return>>
  PROVE  /\ P \in Seq(Allowed("init")) /\ InOrder(P) /\ Served(P, FALSE)
         /\ \A x : Has(P, "create", x) <=> x \in OsalObjects
         /\ \A x : ~Has(P, "delete", x)
         /\ HasSet(P, "handle", TRUE) /\ HasSet(P, "init", TRUE) /\ HasSet(P, "jni", TRUE)
<1> DEFINE B == Build(OsalObjects, {})
           I == Step("set", "init", TRUE)
           J == Step("set", "jni", TRUE)
           p == DtaUp \o <<I>>
           q == p \o <<J>>
<1>1. P = q \o <<Return>>
  BY DEF JniInit, DtaInit, If, DtaUp, Set
<1>2. /\ DtaUp \in Seq(B) /\ InOrder(DtaUp) /\ Served(DtaUp, FALSE) /\ HasSet(DtaUp, "handle", TRUE)
      /\ \A x : Has(DtaUp, "create", x) <=> x \in OsalObjects
      /\ \A x : ~Has(DtaUp, "delete", x)
  <2>1. /\ \A x : Has(DtaUp, "create", x) => x \in OsalObjects
        /\ \A x : Has(DtaUp, "delete", x) => x \in {}
    BY DtaUpBuilds, BuildsSteps
  <2>2. \A x \in OsalObjects : Has(DtaUp, "create", x)
    BY DtaUpBuilds DEF Builds
  <2>3. DtaUp \in Seq(B) /\ InOrder(DtaUp)
    BY DtaUpBuilds DEF Builds
  <2> HIDE DEF B
  <2> QED
    BY <2>1, <2>2, <2>3, DtaUpBuilds
<1>3. /\ I.op = "set" /\ I.x = "init" /\ I.to = TRUE /\ J.op = "set" /\ J.x = "jni" /\ J.to = TRUE
      /\ ~Waits(I) /\ ~Waits(J) /\ \A g : (IsSet(I, g) <=> g = "init") /\ (IsSet(J, g) <=> g = "jni")
  BY SetIs, ZenonT(40)
<1>4. /\ \A a \in B : Before(a, I)
      /\ \A a \in B \cup {I} : Before(a, J)
  <2>1. \A a \in B : Mild(a) /\ ~FlagSet(a)
    BY DEF Build
  <2>2. Mild(I)
    BY <1>3 DEF Mild
  <2> HIDE DEF B
  <2>3. \A a \in B : Before(a, I)
    BY <2>1, BeforeFlag
  <2>4. \A a \in B : Before(a, J)
    BY <2>1, BeforeFlag
  <2>5. Before(I, J)
    BY <2>2, BeforeFlag
  <2> QED
    BY <2>3, <2>4, <2>5
<1>5. I \in Allowed("init") /\ J \in Allowed("init")
  <2>1. /\ I \in Steps /\ FlagSet(I) /\ ~LlcpUp(I)
        /\ J \in Steps /\ FlagSet(J) /\ ~LlcpUp(J)
    BY FlagStep
  <2> HIDE DEF I, J
  <2> QED
    BY <1>3, <2>1 DEF Allowed
<1> HIDE DEF B, I, J
<1>6. /\ p \in Seq(B \cup {I}) /\ InOrder(p) /\ Served(p, FALSE)
      /\ HasSet(p, "handle", TRUE) /\ HasSet(p, "init", TRUE)
      /\ \A x : Has(p, "create", x) <=> x \in OsalObjects
      /\ \A x : ~Has(p, "delete", x)
  <2>1. /\ p \in Seq(B \cup {I}) /\ InOrder(p)
        /\ \A op, x : Has(p, op, x) <=> Has(DtaUp, op, x) \/ (I.op = op /\ I.x = x)
        /\ \A f, v : HasSet(p, f, v) <=> HasSet(DtaUp, f, v) \/ (IsSet(I, f) /\ I.to = v)
        /\ \A exists : Served(DtaUp, exists) /\ ~Waits(I) => Served(p, exists)
    BY <1>2, <1>4, EndWith
  <2> HIDE DEF p
  <2>2. \A x : (Has(p, "create", x) <=> x \in OsalObjects) /\ ~Has(p, "delete", x)
    BY <1>2, <1>3, <2>1
  <2>3. HasSet(p, "handle", TRUE) /\ HasSet(p, "init", TRUE)
    BY <1>2, <1>3, <2>1
  <2> QED
    BY <1>2, <1>3, <2>1, <2>2, <2>3
<1> HIDE DEF p
<1>7. /\ q \in Seq(B \cup {I} \cup {J}) /\ InOrder(q) /\ Served(q, FALSE)
      /\ HasSet(q, "handle", TRUE) /\ HasSet(q, "init", TRUE) /\ HasSet(q, "jni", TRUE)
      /\ \A x : Has(q, "create", x) <=> x \in OsalObjects
      /\ \A x : ~Has(q, "delete", x)
  <2>1. /\ q \in Seq((B \cup {I}) \cup {J}) /\ InOrder(q)
        /\ \A op, x : Has(q, op, x) <=> Has(p, op, x) \/ (J.op = op /\ J.x = x)
        /\ \A f, v : HasSet(q, f, v) <=> HasSet(p, f, v) \/ (IsSet(J, f) /\ J.to = v)
        /\ \A exists : Served(p, exists) /\ ~Waits(J) => Served(q, exists)
    BY <1>4, <1>6, EndWith
  <2> HIDE DEF q
  <2>2. \A x : (Has(q, "create", x) <=> x \in OsalObjects) /\ ~Has(q, "delete", x)
    BY <1>3, <1>6, <2>1
  <2>3. HasSet(q, "handle", TRUE) /\ HasSet(q, "init", TRUE) /\ HasSet(q, "jni", TRUE)
    BY <1>3, <1>6, <2>1
  <2> QED
    BY <1>3, <1>6, <2>1, <2>2, <2>3
<1> HIDE DEF q
<1>8. /\ P \in Seq(B \cup {I} \cup {J} \cup {Return}) /\ InOrder(P) /\ Served(P, FALSE)
      /\ HasSet(P, "handle", TRUE) /\ HasSet(P, "init", TRUE) /\ HasSet(P, "jni", TRUE)
      /\ \A x : Has(P, "create", x) <=> x \in OsalObjects
      /\ \A x : ~Has(P, "delete", x)
  <2> DEFINE r == q \o <<Return>>
  <2>1. /\ r \in Seq((B \cup {I} \cup {J}) \cup {Return}) /\ InOrder(r)
        /\ \A op, x : Has(r, op, x) <=> Has(q, op, x) \/ (Return.op = op /\ Return.x = x)
        /\ \A f, v : HasSet(r, f, v) <=> HasSet(q, f, v) \/ (IsSet(Return, f) /\ Return.to = v)
        /\ \A exists : Served(q, exists) /\ ~Waits(Return) => Served(r, exists)
    BY <1>7, BeforeReturn, EndWith
  <2>0. P = r
    BY <1>1
  <2> HIDE DEF r
  <2>2. \A x : (Has(r, "create", x) <=> x \in OsalObjects) /\ ~Has(r, "delete", x)
    BY <1>7, <2>1, ReturnIs
  <2>3. HasSet(r, "handle", TRUE) /\ HasSet(r, "init", TRUE) /\ HasSet(r, "jni", TRUE)
    BY <1>7, <2>1
  <2> QED
    BY <1>7, <2>0, <2>1, <2>2, <2>3, ReturnIs
<1>9. B \cup {I} \cup {J} \cup {Return} \subseteq Allowed("init")
  BY <1>5, AllowedBuild DEF B
<1>10. P \in Seq(Allowed("init"))
  BY <1>8, <1>9, SeqIn
<1> QED
  BY <1>8, <1>10

(* What the library releases before its flags are cleared.                 *)
DtaDown ==
  Ignoring("MwDeInit", MwDeInit) \o Delete("dta") \o Delete("dtaq") \o Delete("congestq")

NoOn(p) == \A x : ~Has(p, "on", x)

LEMMA MwDeInitNoOn == MwDeInit \in Seq(Steps) /\ NoOn(MwDeInit)
<1>1. ASSUME NEW p \in Seq(Steps), NEW q \in Seq(Steps), NoOn(p), NoOn(q)
      PROVE  p \o q \in Seq(Steps) /\ NoOn(p \o q)
  BY <1>1, Joined, CatHas DEF NoOn
<1>2. ASSUME NEW e, e.op # "on" PROVE NoOn(<<e>>)
  BY <1>2 DEF NoOn, Has
<1>3. /\ NoOn(Off("up")) /\ NoOn(Off("driver")) /\ NoOn(Delete("intg")) /\ NoOn(Delete("sem"))
      /\ NoOn(Delete("mwq")) /\ NoOn(Set("llcpEnabled", FALSE)) /\ NoOn(Config)
  BY <1>2 DEF Off, Delete, Set, Config, Step
<1>4. /\ Off("up") \in Seq(Steps) /\ Off("driver") \in Seq(Steps) /\ Delete("intg") \in Seq(Steps)
      /\ Delete("sem") \in Seq(Steps) /\ Delete("mwq") \in Seq(Steps)
      /\ Set("llcpEnabled", FALSE) \in Seq(Steps) /\ Ignoring("SetConfig", Config) \in Seq(Steps)
      /\ Config \in Seq(AStep)
  <2>1. \A C, D : Seq(Build(C, D)) \subseteq Seq(Steps)
    <3>1. \A C, D : Build(C, D) \subseteq Steps
      BY DEF Build
    <3> QED
      BY <3>1, SeqIn
  <2>2. {"intg", "sem", "mwq"} \subseteq OsalObjects /\ FALSE \in BOOLEAN
    BY DEF OsalObjects
  <2>3. Minors \subseteq Steps /\ Bland \subseteq AStep
    BY DEF Minors, Bland, Calm, Steps
  <2>4. Ignoring("SetConfig", Config) \in Seq(Steps) /\ Config \in Seq(AStep)
    BY <2>3, MinorConfig, BlandRequests, SeqIn
  <2> QED
    BY <2>1, <2>2, <2>4, BuildOne
<1>5. NoOn(Ignoring("SetConfig", Config))
  BY <1>3, <1>4, IgnoringSame DEF NoOn
<1> DEFINE a == Ignoring("SetConfig", Config) \o Set("llcpEnabled", FALSE)
           b == a \o Off("up")
           c == b \o Off("driver")
           d == c \o Delete("intg")
           e == d \o Delete("sem")
<1>6. a \in Seq(Steps) /\ NoOn(a)
  BY <1>1, <1>3, <1>4, <1>5
<1> HIDE DEF a
<1>7. b \in Seq(Steps) /\ NoOn(b)
  BY <1>1, <1>3, <1>4, <1>6
<1> HIDE DEF b
<1>8. c \in Seq(Steps) /\ NoOn(c)
  BY <1>1, <1>3, <1>4, <1>7
<1> HIDE DEF c
<1>9. d \in Seq(Steps) /\ NoOn(d)
  BY <1>1, <1>3, <1>4, <1>8
<1> HIDE DEF d
<1>10. e \in Seq(Steps) /\ NoOn(e)
  BY <1>1, <1>3, <1>4, <1>9
<1> HIDE DEF e
<1>11. e \o Delete("mwq") \in Seq(Steps) /\ NoOn(e \o Delete("mwq"))
  BY <1>1, <1>3, <1>4, <1>10
<1>12. MwDeInit = e \o Delete("mwq")
  BY DEF MwDeInit, StackDeInit, a, b, c, d, e
<1> QED
  BY <1>11, <1>12

(* Steps that take the library down.                                       *)
Down(p) ==
  /\ \A x : (Has(p, "delete", x) <=> x \in OsalObjects) /\ ~Has(p, "create", x)
  /\ NoOn(p) /\ Has(p, "off", "up") /\ Has(p, "off", "driver")

LEMMA DtaDownBuilds ==
  Builds(DtaDown, {}, OsalObjects) /\ Served(DtaDown, TRUE) /\ Down(DtaDown)
<1> DEFINE a == Ignoring("MwDeInit", MwDeInit)
           b == a \o Delete("dta")
           c == b \o Delete("dtaq")
           d == c \o Delete("congestq")
<1>1. {"dtaq", "congestq", "dta"} \subseteq OsalObjects /\ "MwDeInit" \in Around \ Minor
  BY DEF OsalObjects, Around, Minor
<1>2. /\ Builds(Delete("dta"), {}, {"dta"}) /\ Builds(Delete("dtaq"), {}, {"dtaq"})
      /\ Builds(Delete("congestq"), {}, {"congestq"})
      /\ Served(Delete("dta"), FALSE) /\ Served(Delete("dtaq"), FALSE) /\ Served(Delete("congestq"), FALSE)
  BY <1>1, BuildsOne, ServedQuiet
<1>3. /\ Builds(a, {}, MwObjects) /\ Served(a, TRUE) /\ NoOn(a)
      /\ Has(a, "off", "up") /\ Has(a, "off", "driver")
  <2>1. MwDeInit \in Seq(AStep)
    <3>1. Steps \subseteq AStep
      BY DEF Steps
    <3> QED
      BY <3>1, MwDeInitNoOn, SeqIn
  <2>2. Builds(a, {}, MwObjects)
    BY <1>1, MwDeInitBuilds, BuildsIgnoring
  <2>3. Served(a, TRUE) /\ Has(a, "off", "up") /\ Has(a, "off", "driver")
    BY <2>1, MwDeInitBuilds, IgnoringSame
  <2>4. NoOn(a)
    BY <2>1, MwDeInitNoOn, IgnoringSame DEF NoOn
  <2> QED
    BY <2>2, <2>3, <2>4
<1> HIDE DEF a
<1>4. /\ NoOn(Delete("dta")) /\ NoOn(Delete("dtaq")) /\ NoOn(Delete("congestq"))
  BY DEF NoOn, Has, Delete, Step
<1>5. /\ Builds(b, {}, MwObjects \cup {"dta"}) /\ Served(b, TRUE) /\ NoOn(b)
      /\ Has(b, "off", "up") /\ Has(b, "off", "driver")
  <2>1. {} \cap {} = {} /\ {} \cap {"dta"} = {} /\ (MwObjects) \cap {"dta"} = {}
    BY DEF MwObjects
  <2>2. Builds(b, {} \cup {}, (MwObjects) \cup {"dta"}) /\ Served(b, TRUE)
    BY <1>2, <1>3, <2>1, BuildsServed
  <2>3. (MwObjects) \cup {"dta"} = MwObjects \cup {"dta"}
    OBVIOUS
  <2>4. a \in Seq(Steps) /\ Delete("dta") \in Seq(Steps)
    BY <1>2, <1>3, BuildsSteps
  <2>5. \A op, x : Has(b, op, x) <=> Has(a, op, x) \/ Has(Delete("dta"), op, x)
    BY <2>4, CatHas
  <2> QED
    BY <1>3, <1>4, <2>2, <2>3, <2>5 DEF NoOn
<1> HIDE DEF b
<1>6. /\ Builds(c, {}, MwObjects \cup {"dta", "dtaq"}) /\ Served(c, TRUE) /\ NoOn(c)
      /\ Has(c, "off", "up") /\ Has(c, "off", "driver")
  <2>1. {} \cap {} = {} /\ {} \cap {"dtaq"} = {} /\ (MwObjects \cup {"dta"}) \cap {"dtaq"} = {}
    BY DEF MwObjects
  <2>2. Builds(c, {} \cup {}, (MwObjects \cup {"dta"}) \cup {"dtaq"}) /\ Served(c, TRUE)
    BY <1>2, <1>5, <2>1, BuildsServed
  <2>3. (MwObjects \cup {"dta"}) \cup {"dtaq"} = MwObjects \cup {"dta", "dtaq"}
    OBVIOUS
  <2>4. b \in Seq(Steps) /\ Delete("dtaq") \in Seq(Steps)
    BY <1>2, <1>5, BuildsSteps
  <2>5. \A op, x : Has(c, op, x) <=> Has(b, op, x) \/ Has(Delete("dtaq"), op, x)
    BY <2>4, CatHas
  <2> QED
    BY <1>5, <1>4, <2>2, <2>3, <2>5 DEF NoOn
<1> HIDE DEF c
<1>7. /\ Builds(d, {}, MwObjects \cup {"dta", "dtaq", "congestq"}) /\ Served(d, TRUE) /\ NoOn(d)
      /\ Has(d, "off", "up") /\ Has(d, "off", "driver")
  <2>1. {} \cap {} = {} /\ {} \cap {"congestq"} = {} /\ (MwObjects \cup {"dta", "dtaq"}) \cap {"congestq"} = {}
    BY DEF MwObjects
  <2>2. Builds(d, {} \cup {}, (MwObjects \cup {"dta", "dtaq"}) \cup {"congestq"}) /\ Served(d, TRUE)
    BY <1>2, <1>6, <2>1, BuildsServed
  <2>3. (MwObjects \cup {"dta", "dtaq"}) \cup {"congestq"} = MwObjects \cup {"dta", "dtaq", "congestq"}
    OBVIOUS
  <2>4. c \in Seq(Steps) /\ Delete("congestq") \in Seq(Steps)
    BY <1>2, <1>6, BuildsSteps
  <2>5. \A op, x : Has(d, op, x) <=> Has(c, op, x) \/ Has(Delete("congestq"), op, x)
    BY <2>4, CatHas
  <2> QED
    BY <1>6, <1>4, <2>2, <2>3, <2>5 DEF NoOn
<1> HIDE DEF d
<1>8. MwObjects \cup {"dta", "dtaq", "congestq"} = OsalObjects
  BY DEF MwObjects, OsalObjects
<1>9. Builds(d, {}, OsalObjects)
  BY <1>7, <1>8
<1>10. \A x : (Has(d, "delete", x) <=> x \in OsalObjects) /\ ~Has(d, "create", x)
  <2>1. \A x \in OsalObjects : Has(d, "delete", x)
    BY <1>9 DEF Builds
  <2>2. \A x : (Has(d, "delete", x) => x \in OsalObjects) /\ (Has(d, "create", x) => x \in {})
    BY <1>9, BuildsSteps
  <2> QED
    BY <2>1, <2>2
<1>11. DtaDown = d
  BY DEF DtaDown, a, b, c, d
<1> QED
  BY <1>7, <1>9, <1>10, <1>11 DEF Down

(* The release of a library that is up.                                    *)
LEMMA DeInitSteps ==
  ASSUME hdl.jni, hdl.init, NEW P, P = JniDeInit \o <<Return>>
  PROVE  /\ P \in Seq(Allowed("deinit")) /\ InOrder(P) /\ Served(P, TRUE) /\ Down(P)
         /\ HasSet(P, "init", FALSE) /\ HasSet(P, "llcp", FALSE) /\ HasSet(P, "jni", FALSE)
<1> DEFINE B == Build({}, OsalObjects)
           I == Step("set", "init", FALSE)
           L == Step("set", "llcp", FALSE)
           J == Step("set", "jni", FALSE)
           p == DtaDown \o <<I>>
           q == p \o <<L>>
           r == q \o <<J>>
           s == r \o <<Return>>
<1>1. P = s
  BY DEF JniDeInit, DtaDeInit, If, DtaDown, Set
<1>2. DtaDown \in Seq(B) /\ InOrder(DtaDown) /\ Served(DtaDown, TRUE) /\ Down(DtaDown)
  <2>1. DtaDown \in Seq(B) /\ InOrder(DtaDown)
    BY DtaDownBuilds DEF Builds
  <2> HIDE DEF B
  <2> QED
    BY <2>1, DtaDownBuilds
<1>3. /\ I.op = "set" /\ I.x = "init" /\ I.to = FALSE /\ J.op = "set" /\ J.x = "jni" /\ J.to = FALSE
      /\ L.op = "set" /\ L.x = "llcp" /\ L.to = FALSE
      /\ ~Waits(I) /\ ~Waits(J) /\ ~Waits(L)
      /\ \A g : (IsSet(I, g) <=> g = "init") /\ (IsSet(J, g) <=> g = "jni") /\ (IsSet(L, g) <=> g = "llcp")
  BY SetIs, ZenonT(40)
<1>4. /\ \A a \in B : Before(a, I)
      /\ \A a \in B \cup {I} : Before(a, L)
      /\ \A a \in B \cup {I} \cup {L} : Before(a, J)
  <2>1. \A a \in B : Mild(a) /\ ~FlagSet(a)
    BY DEF Build
  <2>2. Mild(I) /\ Mild(L)
    BY <1>3 DEF Mild
  <2> HIDE DEF B
  <2>3. \A a \in B : Before(a, I)
    BY <2>1, BeforeFlag
  <2>4. \A a \in B : Before(a, L)
    BY <2>1, BeforeFlag
  <2>5. \A a \in B : Before(a, J)
    BY <2>1, BeforeFlag
  <2>6. Before(I, L) /\ Before(I, J) /\ Before(L, J)
    BY <2>2, BeforeFlag
  <2> QED
    BY <2>3, <2>4, <2>5, <2>6
<1>5. I \in Allowed("deinit") /\ L \in Allowed("deinit") /\ J \in Allowed("deinit")
  <2>1. /\ I \in Steps /\ FlagSet(I) /\ ~LlcpUp(I)
        /\ J \in Steps /\ FlagSet(J) /\ ~LlcpUp(J)
    BY FlagStep
  <2>2. L \in Build({}, {})
    <3>1. Set("llcp", FALSE) \in Seq(Build({}, {})) /\ Set("llcp", FALSE) = <<L>>
      BY BuildOne DEF Set
    <3>2. 1 \in 1..Len(<<L>>) /\ <<L>>[1] = L
      OBVIOUS
    <3> HIDE DEF L
    <3> QED
      BY <3>1, <3>2, SeqIn
  <2> HIDE DEF I, J, L
  <2> QED
    BY <1>3, <2>1, <2>2, AllowedBuild DEF Allowed
<1> HIDE DEF B, I, J, L
<1>6. /\ p \in Seq(B \cup {I}) /\ InOrder(p) /\ Served(p, TRUE) /\ Down(p)
      /\ HasSet(p, "init", FALSE)
  <2>1. /\ p \in Seq(B \cup {I}) /\ InOrder(p)
        /\ \A op, x : Has(p, op, x) <=> Has(DtaDown, op, x) \/ (I.op = op /\ I.x = x)
        /\ \A f, v : HasSet(p, f, v) <=> HasSet(DtaDown, f, v) \/ (IsSet(I, f) /\ I.to = v)
        /\ \A exists : Served(DtaDown, exists) /\ ~Waits(I) => Served(p, exists)
    BY <1>2, <1>4, EndWith
  <2> HIDE DEF p
  <2>2. Down(p)
    <3>1. \A y : (Has(p, "delete", y) <=> Has(DtaDown, "delete", y)) /\ (Has(p, "create", y) <=> Has(DtaDown, "create", y)) /\ (Has(p, "on", y) <=> Has(DtaDown, "on", y)) /\ (Has(p, "off", y) <=> Has(DtaDown, "off", y))
      BY <1>3, <2>1
    <3> QED
      BY <1>2, <3>1 DEF Down, NoOn
  <2>3. HasSet(p, "init", FALSE)
    BY <1>3, <1>2, <2>1
  <2> QED
    BY <1>3, <1>2, <2>1, <2>2, <2>3
<1> HIDE DEF p
<1>7. /\ q \in Seq(B \cup {I} \cup {L}) /\ InOrder(q) /\ Served(q, TRUE) /\ Down(q)
      /\ HasSet(q, "init", FALSE) /\ HasSet(q, "llcp", FALSE)
  <2>1. /\ q \in Seq((B \cup {I}) \cup {L}) /\ InOrder(q)
        /\ \A op, x : Has(q, op, x) <=> Has(p, op, x) \/ (L.op = op /\ L.x = x)
        /\ \A f, v : HasSet(q, f, v) <=> HasSet(p, f, v) \/ (IsSet(L, f) /\ L.to = v)
        /\ \A exists : Served(p, exists) /\ ~Waits(L) => Served(q, exists)
    BY <1>6, <1>4, EndWith
  <2> HIDE DEF q
  <2>2. Down(q)
    <3>1. \A y : (Has(q, "delete", y) <=> Has(p, "delete", y)) /\ (Has(q, "create", y) <=> Has(p, "create", y)) /\ (Has(q, "on", y) <=> Has(p, "on", y)) /\ (Has(q, "off", y) <=> Has(p, "off", y))
      BY <1>3, <2>1
    <3> QED
      BY <1>6, <3>1 DEF Down, NoOn
  <2>3. HasSet(q, "init", FALSE) /\ HasSet(q, "llcp", FALSE)
    BY <1>3, <1>6, <2>1
  <2> QED
    BY <1>3, <1>6, <2>1, <2>2, <2>3
<1> HIDE DEF q
<1>8. /\ r \in Seq(B \cup {I} \cup {L} \cup {J}) /\ InOrder(r) /\ Served(r, TRUE) /\ Down(r)
      /\ HasSet(r, "init", FALSE) /\ HasSet(r, "llcp", FALSE) /\ HasSet(r, "jni", FALSE)
  <2>1. /\ r \in Seq((B \cup {I} \cup {L}) \cup {J}) /\ InOrder(r)
        /\ \A op, x : Has(r, op, x) <=> Has(q, op, x) \/ (J.op = op /\ J.x = x)
        /\ \A f, v : HasSet(r, f, v) <=> HasSet(q, f, v) \/ (IsSet(J, f) /\ J.to = v)
        /\ \A exists : Served(q, exists) /\ ~Waits(J) => Served(r, exists)
    BY <1>7, <1>4, EndWith
  <2> HIDE DEF r
  <2>2. Down(r)
    <3>1. \A y : (Has(r, "delete", y) <=> Has(q, "delete", y)) /\ (Has(r, "create", y) <=> Has(q, "create", y)) /\ (Has(r, "on", y) <=> Has(q, "on", y)) /\ (Has(r, "off", y) <=> Has(q, "off", y))
      BY <1>3, <2>1
    <3> QED
      BY <1>7, <3>1 DEF Down, NoOn
  <2>3. HasSet(r, "init", FALSE) /\ HasSet(r, "llcp", FALSE) /\ HasSet(r, "jni", FALSE)
    BY <1>3, <1>7, <2>1
  <2> QED
    BY <1>3, <1>7, <2>1, <2>2, <2>3
<1> HIDE DEF r
<1>9. /\ s \in Seq(B \cup {I} \cup {L} \cup {J} \cup {Return}) /\ InOrder(s) /\ Served(s, TRUE) /\ Down(s)
      /\ HasSet(s, "init", FALSE) /\ HasSet(s, "llcp", FALSE) /\ HasSet(s, "jni", FALSE)
  <2>1. /\ s \in Seq((B \cup {I} \cup {L} \cup {J}) \cup {Return}) /\ InOrder(s)
        /\ \A op, x : Has(s, op, x) <=> Has(r, op, x) \/ (Return.op = op /\ Return.x = x)
        /\ \A f, v : HasSet(s, f, v) <=> HasSet(r, f, v) \/ (IsSet(Return, f) /\ Return.to = v)
        /\ \A exists : Served(r, exists) /\ ~Waits(Return) => Served(s, exists)
    BY <1>8, BeforeReturn, EndWith
  <2> HIDE DEF s
  <2>2. Down(s)
    <3>1. \A y : (Has(s, "delete", y) <=> Has(r, "delete", y)) /\ (Has(s, "create", y) <=> Has(r, "create", y)) /\ (Has(s, "on", y) <=> Has(r, "on", y)) /\ (Has(s, "off", y) <=> Has(r, "off", y))
      BY <1>3, <2>1, ReturnIs
    <3> QED
      BY <1>8, <3>1 DEF Down, NoOn
  <2>3. HasSet(s, "init", FALSE) /\ HasSet(s, "llcp", FALSE) /\ HasSet(s, "jni", FALSE)
    BY <1>3, <1>8, <2>1
  <2> QED
    BY <1>3, <1>8, <2>1, <2>2, <2>3, ReturnIs
<1>10. B \cup {I} \cup {L} \cup {J} \cup {Return} \subseteq Allowed("deinit")
  BY <1>5, AllowedBuild DEF B
<1>11. s \in Seq(Allowed("deinit"))
  <2> HIDE DEF s
  <2> QED
    BY <1>9, <1>10, SeqIn
<1> HIDE DEF s
<1> QED
  BY <1>1, <1>9, <1>11

-----------------------------------------------------------------------------
(* The steps of enabling, disabling and restarting a discovery.            *)

(* The steps of enabling a discovery after the configuration.              *)
Later == { s \in Steps : ~Vital(s) }

LEMMA LaterIs ==
  /\ Calm \subseteq Later /\ Later \subseteq Steps /\ Later \subseteq Allowed("enable")
  /\ \A a \in Later \cup Build(MwObjects, MwObjects), b \in Calm : Before(a, b)
  /\ \A a \in Build(MwObjects, MwObjects), b \in Later : Before(a, b)
<1>1. Calm \subseteq Later /\ Later \subseteq Steps
  BY DEF Calm, Later
<1>2. Later \subseteq Allowed("enable")
  BY DEF Later, Allowed, Vital
<1>3. ASSUME NEW a \in Later \cup Build(MwObjects, MwObjects), NEW b \in Calm PROVE Before(a, b)
  <2>1. ~FlagSet(a)
    BY DEF Later, Build, Vital
  <2>2. ~Vital(b) /\ ~LlcpOn(b) /\ b.op \notin {"create", "delete"} /\ ~(b.op = "off" /\ b.x = "up")
    BY DEF Calm, Vital, OfInit, Base
  <2> QED
    BY <2>1, <2>2 DEF Before
<1>4. ASSUME NEW a \in Build(MwObjects, MwObjects), NEW b \in Later PROVE Before(a, b)
  <2>1. ~FlagSet(a) /\ ~LlcpUp(a)
    BY DEF Build
  <2>2. ~Vital(b) /\ b.op \notin {"create", "delete"} /\ ~(b.op = "off" /\ b.x = "up")
    BY DEF Later, Vital, OfInit, Base
  <2> QED
    BY <2>1, <2>2 DEF Before
<1> QED
  BY <1>1, <1>2, <1>3, <1>4

LEMMA LaterMakesNone ==
  ASSUME NEW p \in Seq(Later)
  PROVE  /\ \A x : ~Has(p, "create", x) /\ ~Has(p, "delete", x)
         /\ ~Has(p, "off", "up")
<1>1. \A i \in 1..Len(p) : p[i] \in Later
  OBVIOUS
<1> QED
  BY <1>1 DEF Has, Later, Vital, OfInit, Base

LEMMA LlcpSteps ==
  /\ LlcpRegister \in Seq(Later) /\ InOrder(LlcpRegister)
  /\ \A e \in LlcpEnds : Has(LlcpRegister, "on", e)
<1> DEFINE F == { s \in Steps : ~Vital(s) /\ ~LlcpUp(s) }
           U == Step("set", "llcp", TRUE)
           m == Set("llcpEnabled", TRUE) \o Config
           a == m \o On("sdpClient")
           b == a \o On("clClient")
           c == b \o On("coClient")
           s == On("coServer") \o On("clServer")
           p == c \o s
<1>1. ASSUME NEW x \in LlcpEnds
      PROVE  On(x) \in Seq(F) /\ \A y : Has(On(x), "on", y) <=> y = x
  <2>1. Step("on", x, "-") \in F
    BY DEF Step, Steps, AStep, Typed, Vital, LlcpOn, LlcpUp, FlagSet, IsSet, OfInit, LlcpEnds, Base
  <2>2. /\ Len(On(x)) = 1 /\ On(x)[1].op = "on" /\ On(x)[1].x = x
    BY DEF On, Step
  <2> QED
    BY <2>1, <2>2, OneStep DEF On, Has
<1>2. m \in Seq(F)
  <2>1. Calm \subseteq F
    BY DEF Calm
  <2>2. Set("llcpEnabled", TRUE) \in Seq(Calm) /\ Config \in Seq(Calm)
    BY BlandSets, BlandRequests, MinorsBland
  <2>3. m \in Seq(Calm)
    BY <2>2, Joined
  <2> HIDE DEF F, m
  <2> QED
    BY <2>1, <2>3, SeqIn
<1>3. /\ U.op = "set" /\ U.x = "llcp" /\ U.to = TRUE /\ U.within = {} /\ ~Waits(U)
      /\ \A g : IsSet(U, g) <=> g = "llcp"
  BY SetIs
<1>4. U \in Later
  <2>1. U \in AStep
    <3>1. TRUE \in {"-"} \cup BOOLEAN \cup (SUBSET {"ISO_DEP", "T3T"}) \cup Tests
      BY Zenon
    <3>2. "llcp" \in OsalObjects \cup Base \cup LlcpEnds \cup Registrations \cup Flags
                   \cup {"app", "prev", "disc", "protocols", "-"}
      BY DEF Flags
    <3>3. {} \in SUBSET Around
      OBVIOUS
    <3> QED
      BY <3>1, <3>2, <3>3, Zenon DEF Step, AStep
  <2> HIDE DEF U
  <2>2. Typed(U)
    BY <1>3 DEF Typed, Flags
  <2>3. ~Vital(U) /\ ~LlcpOn(U) /\ ~FlagSet(U) /\ ~IsSet(U, "handle")
    BY <1>3 DEF Vital, OfInit, FlagSet, LlcpOn
  <2> QED
    BY <1>3, <2>1, <2>2, <2>3 DEF Later, Steps
<1>5. \A d \in F : Before(d, U)
  <2>1. ~Vital(U) /\ ~LlcpOn(U)
    BY <1>3, <1>4 DEF Later, LlcpOn
  <2> HIDE DEF U
  <2>2. \A d \in F : ~FlagSet(d)
    BY DEF Vital
  <2> HIDE DEF F
  <2> QED
    BY <1>3, <2>1, <2>2 DEF Before
<1>6. \A d, e \in F : Before(d, e)
  BY DEF Before, Vital, OfInit, Base
<1>7. F \subseteq Later
  BY DEF Later
<1> HIDE DEF F, U, m
<1>8. /\ "sdpClient" \in LlcpEnds /\ "clClient" \in LlcpEnds /\ "coClient" \in LlcpEnds
      /\ "coServer" \in LlcpEnds /\ "clServer" \in LlcpEnds
      /\ \A e \in LlcpEnds : e \in {"sdpClient", "clClient", "coClient", "coServer", "clServer"}
  BY DEF LlcpEnds
<1>9. a \in Seq(F) /\ Has(a, "on", "sdpClient")
  BY <1>1, <1>2, <1>8, Joined, CatHas
<1> HIDE DEF a
<1>10. b \in Seq(F) /\ Has(b, "on", "sdpClient") /\ Has(b, "on", "clClient")
  BY <1>1, <1>8, <1>9, Joined, CatHas
<1> HIDE DEF b
<1>11. c \in Seq(F) /\ \A e \in {"sdpClient", "clClient", "coClient"} : Has(c, "on", e)
  BY <1>1, <1>8, <1>10, Joined, CatHas
<1> HIDE DEF c
<1>12. s \in Seq(F) /\ \A e \in {"coServer", "clServer"} : Has(s, "on", e)
  BY <1>1, <1>8, Joined, CatHas
<1> HIDE DEF s
<1>13. p \in Seq(F) /\ \A e \in LlcpEnds : Has(p, "on", e)
  BY <1>8, <1>11, <1>12, Joined, CatHas
<1> HIDE DEF p
<1>14. InOrder(p)
  BY <1>6, <1>13, FreeInOrder
<1> DEFINE q == p \o <<U>>
<1>15. /\ q \in Seq(F \cup {U}) /\ InOrder(q)
       /\ \A op, x : Has(q, op, x) <=> Has(p, op, x) \/ (U.op = op /\ U.x = x)
  BY <1>5, <1>13, <1>14, EndWith
<1> HIDE DEF q
<1>16. q \in Seq(Later)
  <2>1. F \cup {U} \subseteq Later
    BY <1>4, <1>7
  <2> QED
    BY <1>15, <2>1, SeqIn
<1>17. LlcpRegister = q
  BY DEF LlcpRegister, LlcpInit, LlcpRegisterServers, Set, q, p, s, c, b, a, m, U
<1> QED
  BY <1>13, <1>15, <1>16, <1>17

(* Configuring: only for a controlled NFCEE is the middleware rebuilt.     *)
LEMMA UpdateBuilds ==
  ASSUME NEW p \in Tests
  PROVE  /\ Served(UpdateConfigPrams(p), TRUE)
         /\ Builds(UpdateConfigPrams(p), IF NfceeCE(p) THEN MwObjects ELSE {},
                                         IF NfceeCE(p) THEN MwObjects ELSE {})
<1> DEFINE cfg == Ignoring("SetConfig", Config)
           r == cfg \o MwDeInit \o MwInit
           a == If(NfceeCE(p), r)
           b == a \o cfg
           c == b \o Set("prev", p)
           M == IF NfceeCE(p) THEN MwObjects ELSE {}
<1>1. Builds(cfg, {}, {}) /\ Builds(Set("prev", p), {}, {}) /\ Builds(Set("app", p), {}, {})
  BY MinorConfig, BuildsPlain, BuildsOne
<1>2. Builds(r, MwObjects, MwObjects) /\ Served(r, TRUE)
  BY <1>1, ReInitBuilds
<1> HIDE DEF r, cfg
<1>3. Builds(a, M, M) /\ Served(a, TRUE)
  <2>1. Builds(a, M, M)
    BY <1>2, BuildsMaybe
  <2>2. Served(<<>>, TRUE)
    BY NoStep
  <2> QED
    BY <1>2, <2>1, <2>2 DEF If
<1>4. "mwq" \in M \/ "mwq" \notin M
  OBVIOUS
<1> HIDE DEF a, M
<1>5. ASSUME NEW q, NEW d, Builds(q, M, M), Served(q, TRUE), Builds(d, {}, {})
      PROVE  Builds(q \o d, M, M) /\ Served(q \o d, TRUE) /\ Builds(d \o q, M, M) /\ Served(d \o q, TRUE)
  <2>1. Builds(q \o d, M, M) /\ Builds(d \o q, M, M)
    BY <1>5, BuildsThen
  <2>2. q \in Seq(Steps) /\ d \in Seq(Steps)
    BY <1>5, BuildsSteps
  <2>3. ~Has(d, "delete", "mwq")
    <3>1. \A x : Has(d, "delete", x) => x \in {}
      BY <1>5, BuildsSteps
    <3> QED
      BY <3>1
  <2>4. Served(d, TRUE)
    BY <2>3, ServedWhileThere
  <2>5. Has(q, "create", "mwq") \/ ~Has(q, "delete", "mwq")
    <3>1. \A x : Has(q, "delete", x) => x \in M
      BY <1>5, BuildsSteps
    <3>2. \A x \in M : Has(q, "create", x)
      BY <1>5 DEF Builds
    <3> QED
      BY <3>1, <3>2
  <2>6. Served(q \o d, TRUE)
    BY <1>5, <2>2, <2>4, <2>5, CatServed
  <2>7. Served(d \o q, TRUE)
    BY <1>5, <2>2, <2>3, <2>4, CatServed
  <2> QED
    BY <2>1, <2>6, <2>7
<1>6. Builds(b, M, M) /\ Served(b, TRUE)
  BY <1>1, <1>3, <1>5
<1> HIDE DEF b
<1>7. Builds(c, M, M) /\ Served(c, TRUE)
  BY <1>1, <1>5, <1>6
<1> HIDE DEF c
<1>8. Builds(Set("app", p) \o c, M, M) /\ Served(Set("app", p) \o c, TRUE)
  BY <1>1, <1>5, <1>7
<1>9. UpdateConfigPrams(p) = Set("app", p) \o c
  BY DEF UpdateConfigPrams, ConfigParams, c, b, a, r, cfg
<1> QED
  BY <1>8, <1>9 DEF M

LEMMA EnableSteps ==
  ASSUME NEW p \in Tests, NEW P, P = EnableDiscovery(p) \o <<Return>>
  PROVE  /\ P \in Seq(Allowed("enable")) /\ InOrder(P) /\ Served(P, TRUE)
         /\ \A x : (Has(P, "delete", x) <=> Has(P, "create", x)) /\ (Has(P, "delete", x) => x \in OsalObjects)
         /\ HasSet(P, "llcp", TRUE) => \A e \in LlcpEnds : Has(P, "on", e)
<1> DEFINE M == IF NfceeCE(p) THEN MwObjects ELSE {}
           B == Build(MwObjects, MwObjects)
           u == UpdateConfigPrams(p)
           l == If("llcp" \in p /\ ~hdl.llcp, LlcpRegister)
           c == CeConfigure(p)
           d == MwEnableDiscovery(p)
           a == u \o l
           b == a \o c
           q == b \o d
           r == q \o <<Return>>
<1>1. P = r
  BY DEF EnableDiscovery
<1>2. u \in Seq(B) /\ InOrder(u) /\ Served(u, TRUE) /\ u \in Seq(Steps)
  <2>1. Builds(u, M, M) /\ Served(u, TRUE)
    BY UpdateBuilds
  <2>2. M \subseteq MwObjects
    OBVIOUS
  <2> HIDE DEF M, u, B
  <2>3. u \in Seq(Build(M, M)) /\ InOrder(u)
    BY <2>1 DEF Builds
  <2>4. Seq(Build(M, M)) \subseteq Seq(B)
    BY <2>2, BuildMore DEF B
  <2> QED
    BY <2>1, <2>3, <2>4, BuildsSteps
<1>3. \A x : (Has(u, "delete", x) <=> Has(u, "create", x)) /\ (Has(u, "delete", x) => x \in OsalObjects)
  <2>1. Builds(u, M, M)
    BY UpdateBuilds
  <2>2. M \subseteq OsalObjects
    BY DEF MwObjects, OsalObjects
  <2> HIDE DEF M, u
  <2>3. \A x : (Has(u, "delete", x) => x \in M) /\ (Has(u, "create", x) => x \in M)
    BY <2>1, BuildsSteps
  <2>4. \A x \in M : Has(u, "delete", x) /\ Has(u, "create", x)
    BY <2>1 DEF Builds
  <2> QED
    BY <2>2, <2>3, <2>4
<1>4. l \in Seq(Later) /\ InOrder(l)
  <2>1. <<>> \in Seq(Later) /\ InOrder(<<>>)
    BY NoStep
  <2> QED
    BY <2>1, LlcpSteps DEF If
<1>5. HasSet(l, "llcp", TRUE) => \A e \in LlcpEnds : Has(l, "on", e)
  <2>1. ~HasSet(<<>>, "llcp", TRUE)
    BY DEF HasSet
  <2> QED
    BY <2>1, LlcpSteps DEF If
<1>6. /\ c \in Seq(Calm) /\ InOrder(c) /\ d \in Seq(Calm) /\ InOrder(d)
      /\ c \in Seq(Later) /\ d \in Seq(Later)
  <2>1. c \in Seq(Calm) /\ d \in Seq(Calm)
    BY BlandCe, BlandDiscovery, MinorsBland
  <2>2. \A e, f \in Calm : Before(e, f)
    BY LaterIs
  <2> HIDE DEF c, d
  <2>3. InOrder(c) /\ InOrder(d)
    BY <2>1, <2>2, FreeInOrder
  <2> QED
    BY <2>1, <2>3, LaterIs, SeqIn
<1>7. ~HasSet(c, "llcp", TRUE) /\ ~HasSet(d, "llcp", TRUE)
  <2>1. ASSUME NEW s \in Seq(Calm) PROVE ~HasSet(s, "llcp", TRUE)
    <3>1. \A i \in 1..Len(s) : s[i] \in Calm
      OBVIOUS
    <3> QED
      BY <3>1 DEF HasSet, Calm, LlcpUp
  <2> HIDE DEF c, d
  <2> QED
    BY <1>6, <2>1
<1>8. ~HasSet(u, "llcp", TRUE)
  <2>1. \A i \in 1..Len(u) : u[i] \in B
    BY <1>2
  <2> HIDE DEF u
  <2> QED
    BY <2>1 DEF HasSet, Build, LlcpUp
<1> HIDE DEF u, l, c, d
<1>9. /\ \A x \in B, y \in Later : Before(x, y)
      /\ \A x \in B \cup Later, y \in Calm : Before(x, y)
  <2>1. /\ \A x \in Later \cup B, y \in Calm : Before(x, y)
        /\ \A x \in B, y \in Later : Before(x, y)
    BY LaterIs
  <2> HIDE DEF B
  <2> QED
    BY <2>1
<1>10. B \subseteq Steps /\ Later \subseteq Steps /\ Calm \subseteq Later
  BY LaterIs DEF Build
<1> HIDE DEF B, M
<1>11. ASSUME NEW s \in Seq(B \cup Later), NEW t \in Seq(Later), InOrder(s), InOrder(t),
              \A x \in B \cup Later, y \in Calm : Before(x, y), t \in Seq(Calm),
              Served(s, TRUE), \A x : Has(s, "delete", x) <=> Has(s, "create", x)
       PROVE  s \o t \in Seq(B \cup Later) /\ InOrder(s \o t)
  <2>1. t \in Seq(B \cup Later)
    BY SeqIn
  <2>2. s \o t \in Seq(B \cup Later)
    BY <2>1, Joined
  <2>3. InOrder(s \o t)
    BY <1>11, CatInOrder
  <2> QED
    BY <2>2, <2>3
<1>12. ASSUME NEW s \in Seq(Steps), NEW t \in Seq(Steps), t \in Seq(Later),
              Served(s, TRUE), \A x : Has(s, "delete", x) <=> Has(s, "create", x)
       PROVE  /\ Served(s \o t, TRUE)
              /\ \A x : /\ Has(s \o t, "delete", x) <=> Has(s, "delete", x)
                        /\ Has(s \o t, "create", x) <=> Has(s, "create", x)
  <2>1. \A x : ~Has(t, "create", x) /\ ~Has(t, "delete", x)
    BY <1>12, LaterMakesNone
  <2>2. Served(t, TRUE)
    BY <2>1, ServedWhileThere
  <2>3. Served(s \o t, TRUE)
    BY <1>12, <2>2, CatServed
  <2>4. \A op, x : Has(s \o t, op, x) <=> Has(s, op, x) \/ Has(t, op, x)
    BY CatHas
  <2> QED
    BY <2>1, <2>3, <2>4
<1>13. /\ u \in Seq(B \cup Later) /\ a \in Seq(B \cup Later) /\ InOrder(a)
       /\ l \in Seq(Steps) /\ a \in Seq(Steps)
  <2>1. u \in Seq(B \cup Later) /\ l \in Seq(B \cup Later) /\ l \in Seq(Steps)
    BY <1>2, <1>4, <1>10, SeqIn
  <2>2. a \in Seq(B \cup Later) /\ a \in Seq(Steps)
    BY <1>2, <2>1, Joined
  <2>3. InOrder(a)
    BY <1>2, <1>4, <1>9, CatInOrder
  <2> QED
    BY <2>1, <2>2, <2>3
<1>14. /\ Served(a, TRUE)
       /\ \A x : (Has(a, "delete", x) <=> Has(a, "create", x)) /\ (Has(a, "delete", x) => x \in OsalObjects)
       /\ HasSet(a, "llcp", TRUE) => \A e \in LlcpEnds : Has(a, "on", e)
  <2>1. Served(a, TRUE)
    BY <1>2, <1>3, <1>4, <1>12, <1>13
  <2>2. \A x : (Has(a, "delete", x) <=> Has(u, "delete", x)) /\ (Has(a, "create", x) <=> Has(u, "create", x))
    BY <1>2, <1>3, <1>4, <1>12, <1>13
  <2>3. /\ \A op, x : Has(a, op, x) <=> Has(u, op, x) \/ Has(l, op, x)
        /\ \A f, v : HasSet(a, f, v) <=> HasSet(u, f, v) \/ HasSet(l, f, v)
    BY <1>2, <1>13, CatHas, CatHasSet
  <2> HIDE DEF a
  <2>4. HasSet(a, "llcp", TRUE) => \A e \in LlcpEnds : Has(a, "on", e)
    BY <1>5, <1>8, <2>3
  <2> QED
    BY <1>3, <2>1, <2>2, <2>4
<1> HIDE DEF a
<1>15. ASSUME NEW s \in Seq(B \cup Later), NEW t \in Seq(Calm), s \in Seq(Steps), InOrder(s), InOrder(t),
              Served(s, TRUE), ~HasSet(t, "llcp", TRUE),
              \A x : (Has(s, "delete", x) <=> Has(s, "create", x)) /\ (Has(s, "delete", x) => x \in OsalObjects),
              HasSet(s, "llcp", TRUE) => \A e \in LlcpEnds : Has(s, "on", e)
       PROVE  /\ s \o t \in Seq(B \cup Later) /\ s \o t \in Seq(Steps)
              /\ InOrder(s \o t) /\ Served(s \o t, TRUE)
              /\ \A x : (Has(s \o t, "delete", x) <=> Has(s \o t, "create", x)) /\ (Has(s \o t, "delete", x) => x \in OsalObjects)
              /\ HasSet(s \o t, "llcp", TRUE) => \A e \in LlcpEnds : Has(s \o t, "on", e)
  <2>1. t \in Seq(Later) /\ t \in Seq(Steps)
    <3>1. t \in Seq(Later)
      BY <1>10, SeqIn
    <3> QED
      BY <1>10, <3>1, SeqIn
  <2> DEFINE st == s \o t
  <2>2. st \in Seq(B \cup Later) /\ InOrder(st)
    BY <1>9, <1>11, <1>15, <2>1
  <2>3. st \in Seq(Steps)
    BY <1>15, <2>1, Joined
  <2>4. /\ Served(st, TRUE)
        /\ \A x : (Has(st, "delete", x) <=> Has(s, "delete", x)) /\ (Has(st, "create", x) <=> Has(s, "create", x))
    BY <1>12, <1>15, <2>1
  <2>5. /\ \A op, x : Has(st, op, x) <=> Has(s, op, x) \/ Has(t, op, x)
        /\ \A f, v : HasSet(st, f, v) <=> HasSet(s, f, v) \/ HasSet(t, f, v)
    BY <1>15, <2>1, CatHas, CatHasSet
  <2> HIDE DEF st
  <2>6. HasSet(st, "llcp", TRUE) => \A e \in LlcpEnds : Has(st, "on", e)
    BY <1>15, <2>5
  <2>7. \A x : (Has(st, "delete", x) <=> Has(st, "create", x)) /\ (Has(st, "delete", x) => x \in OsalObjects)
    BY <1>15, <2>4
  <2> QED
    BY <2>2, <2>3, <2>4, <2>6, <2>7 DEF st
<1>16. /\ b \in Seq(B \cup Later) /\ b \in Seq(Steps)
       /\ InOrder(b) /\ Served(b, TRUE)
       /\ \A x : (Has(b, "delete", x) <=> Has(b, "create", x)) /\ (Has(b, "delete", x) => x \in OsalObjects)
       /\ HasSet(b, "llcp", TRUE) => \A e \in LlcpEnds : Has(b, "on", e)
  BY <1>6, <1>7, <1>13, <1>14, <1>15
<1> HIDE DEF b
<1>17. /\ q \in Seq(B \cup Later) /\ q \in Seq(Steps)
       /\ InOrder(q) /\ Served(q, TRUE)
       /\ \A x : (Has(q, "delete", x) <=> Has(q, "create", x)) /\ (Has(q, "delete", x) => x \in OsalObjects)
       /\ HasSet(q, "llcp", TRUE) => \A e \in LlcpEnds : Has(q, "on", e)
  BY <1>6, <1>7, <1>15, <1>16
<1> HIDE DEF q
<1>18. /\ r \in Seq(B \cup Later) /\ r \in Seq(Steps)
       /\ InOrder(r) /\ Served(r, TRUE)
       /\ \A x : (Has(r, "delete", x) <=> Has(r, "create", x)) /\ (Has(r, "delete", x) => x \in OsalObjects)
       /\ HasSet(r, "llcp", TRUE) => \A e \in LlcpEnds : Has(r, "on", e)
  <2>1. <<Return>> \in Seq(Calm) /\ InOrder(<<Return>>)
    BY BlandRequests, MinorsBland, OneStep DEF Return
  <2>2. ~HasSet(<<Return>>, "llcp", TRUE)
    <3>1. Len(<<Return>>) = 1 /\ <<Return>>[1] = Return
      OBVIOUS
    <3> QED
      BY <3>1, ReturnIs DEF HasSet
  <2> QED
    BY <1>15, <1>17, <2>1, <2>2
<1> HIDE DEF r
<1>19. r \in Seq(Allowed("enable"))
  <2>1. B \cup Later \subseteq Allowed("enable")
    BY LaterIs, AllowedBuild DEF B
  <2> QED
    BY <1>18, <2>1, SeqIn
<1> QED
  BY <1>1, <1>18, <1>19

(* The middleware is rebuilt to forget the LLCP registrations.             *)
LEMMA ForgetBuilds ==
  LET r == Ignoring("ReInit", ReInit \o Set("llcp", FALSE))
  IN  Builds(r, MwObjects, MwObjects) /\ Served(r, TRUE) /\ HasSet(r, "llcp", FALSE)
<1> DEFINE a == MwDeInit \o MwInit
           b == a \o Set("llcp", FALSE)
           r == Ignoring("ReInit", b)
<1>1. Builds(a, MwObjects, MwObjects) /\ Served(a, TRUE)
  <2>1. {} \cap MwObjects = {} /\ {} \cap {} = {} /\ MwObjects \cap {} = {}
    OBVIOUS
  <2>2. Builds(a, {} \cup MwObjects, MwObjects \cup {}) /\ Served(a, TRUE)
    BY <2>1, MwInitBuilds, MwDeInitBuilds, BuildsServed
  <2> QED
    BY <2>2
<1> HIDE DEF a
<1>2. Builds(b, MwObjects, MwObjects) /\ Served(b, TRUE) /\ HasSet(b, "llcp", FALSE)
  <2>1. Builds(Set("llcp", FALSE), {}, {}) /\ Served(Set("llcp", FALSE), FALSE)
    BY BuildsOne, ServedQuiet
  <2>2. Builds(b, MwObjects, MwObjects)
    BY <1>1, <2>1, BuildsThen
  <2>3. a \in Seq(Steps) /\ Set("llcp", FALSE) \in Seq(Steps)
    BY <1>1, <2>1, BuildsSteps
  <2>4. Served(b, TRUE)
    BY <1>1, <2>1, <2>3, CatServed
  <2>5. HasSet(b, "llcp", FALSE)
    BY <2>3, SetHas, CatHasSet
  <2> QED
    BY <2>2, <2>4, <2>5
<1> HIDE DEF b
<1>3. "ReInit" \in Around \ Minor
  BY DEF Around, Minor
<1>4. Builds(r, MwObjects, MwObjects)
  BY <1>2, <1>3, BuildsIgnoring
<1>5. b \in Seq(AStep)
  <2>1. b \in Seq(Steps) /\ Steps \subseteq AStep
    BY <1>2, BuildsSteps DEF Steps
  <2> QED
    BY <2>1, SeqIn
<1>6. Served(r, TRUE) /\ HasSet(r, "llcp", FALSE)
  BY <1>2, <1>5, IgnoringSame
<1> HIDE DEF r
<1>7. Ignoring("ReInit", ReInit \o Set("llcp", FALSE)) = r
  BY DEF r, b, a, ReInit
<1> QED
  BY <1>4, <1>6, <1>7

LEMMA DisableSteps ==
  ASSUME NEW P, P = DisableDiscovery \o <<Return>>
  PROVE  /\ P \in Seq(Allowed("disable")) /\ InOrder(P) /\ Served(P, TRUE)
         /\ \A x : (Has(P, "delete", x) <=> Has(P, "create", x)) /\ (Has(P, "delete", x) => x \in OsalObjects)
         /\ hdl.llcp => HasSet(P, "llcp", FALSE)
<1> DEFINE f == Ignoring("ReInit", ReInit \o Set("llcp", FALSE))
           M == IF hdl.llcp THEN MwObjects ELSE {}
           c == CeDeInit(hdl.app, hdl.prev, hdl.disc)
           d == MwDisableDiscovery(hdl.disc)
           l == If(hdl.llcp, f)
           a == c \o d
           q == a \o l
           r == q \o <<Return>>
<1>1. P = r
  BY DEF DisableDiscovery
<1>2. Builds(f, MwObjects, MwObjects) /\ Served(f, TRUE) /\ HasSet(f, "llcp", FALSE)
  BY ForgetBuilds
<1> HIDE DEF f
<1>3. Builds(l, M, M) /\ Served(l, TRUE) /\ (hdl.llcp => HasSet(l, "llcp", FALSE))
  <2>1. Builds(l, M, M)
    BY <1>2, BuildsMaybe
  <2>2. Served(<<>>, TRUE)
    BY NoStep
  <2> QED
    BY <1>2, <2>1, <2>2 DEF If
<1>4. M \subseteq OsalObjects
  BY DEF MwObjects, OsalObjects
<1>5. c \in Seq(Minors) /\ d \in Seq(Minors)
  <2>1. {} \in Tests
    BY DEF Tests
  <2> QED
    BY <2>1, BlandCe, BlandDiscovery
<1> HIDE DEF M, l, c, d
<1>6. Builds(a, {}, {})
  <2>1. a \in Seq(Minors)
    BY <1>5, Joined
  <2> QED
    BY <2>1, BuildsPlain
<1> HIDE DEF a
<1>7. Builds(q, M, M)
  BY <1>3, <1>6, BuildsThen
<1>8. a \in Seq(Steps) /\ l \in Seq(Steps)
  BY <1>3, <1>6, BuildsSteps
<1>9. Served(q, TRUE)
  <2>1. ~Has(a, "delete", "mwq")
    <3>1. \A x : Has(a, "delete", x) => x \in {}
      BY <1>6, BuildsSteps
    <3> QED
      BY <3>1
  <2>2. Served(a, TRUE)
    BY <2>1, ServedWhileThere
  <2> QED
    BY <1>3, <1>8, <2>1, <2>2, CatServed
<1>10. hdl.llcp => HasSet(q, "llcp", FALSE)
  BY <1>3, <1>8, CatHasSet
<1>11. \A x : (Has(q, "delete", x) <=> x \in M) /\ (Has(q, "create", x) <=> x \in M)
  <2>1. \A x : (Has(q, "delete", x) => x \in M) /\ (Has(q, "create", x) => x \in M)
    BY <1>7, BuildsSteps
  <2>2. \A x \in M : Has(q, "delete", x) /\ Has(q, "create", x)
    BY <1>7 DEF Builds
  <2> QED
    BY <2>1, <2>2
<1>12. q \in Seq(Build(M, M)) /\ InOrder(q)
  BY <1>7 DEF Builds
<1> HIDE DEF q
<1>13. /\ r \in Seq(Build(M, M) \cup {Return}) /\ InOrder(r)
       /\ \A op, x : Has(r, op, x) <=> Has(q, op, x) \/ (Return.op = op /\ Return.x = x)
       /\ \A g, v : HasSet(r, g, v) <=> HasSet(q, g, v) \/ (IsSet(Return, g) /\ Return.to = v)
       /\ \A exists : Served(q, exists) /\ ~Waits(Return) => Served(r, exists)
  BY <1>12, BeforeReturn, EndWith
<1> HIDE DEF r
<1>14. r \in Seq(Allowed("disable"))
  <2>1. Build(M, M) \cup {Return} \subseteq Allowed("disable")
    BY AllowedBuild
  <2> QED
    BY <1>13, <2>1, SeqIn
<1>15. \A x : (Has(r, "delete", x) <=> Has(q, "delete", x)) /\ (Has(r, "create", x) <=> Has(q, "create", x))
  BY <1>13, ReturnIs
<1>16. \A x : (Has(r, "delete", x) <=> Has(r, "create", x)) /\ (Has(r, "delete", x) => x \in OsalObjects)
  BY <1>4, <1>11, <1>15
<1>17. Served(r, TRUE) /\ (hdl.llcp => HasSet(r, "llcp", FALSE))
  BY <1>9, <1>10, <1>13, ReturnIs
<1> QED
  BY <1>1, <1>13, <1>14, <1>16, <1>17

LEMMA RestartSteps ==
  ASSUME hdl.prev \in Tests, NEW P, P = Restart \o <<Return>>
  PROVE  /\ P \in Seq(Allowed("restart")) /\ InOrder(P) /\ Served(P, TRUE)
         /\ \A x : ~Has(P, "delete", x) /\ ~Has(P, "create", x)
         /\ ~Has(P, "off", "up")
<1>1. P \in Seq(Calm)
  <2>1. MwDisableDiscovery(hdl.disc) \in Seq(Calm) /\ MwEnableDiscovery(hdl.prev) \in Seq(Calm)
    BY BlandDiscovery, MinorsBland
  <2>2. Restart \in Seq(Calm)
    BY <2>1, Joined DEF Restart
  <2>3. <<Return>> \in Seq(Calm)
    BY BlandRequests, MinorsBland DEF Return
  <2> QED
    BY <2>2, <2>3, Joined
<1>2. InOrder(P)
  <2>1. \A a, b \in Calm : Before(a, b)
    BY LaterIs
  <2> QED
    BY <1>1, <2>1, FreeInOrder
<1>3. P \in Seq(Later)
  BY <1>1, LaterIs, SeqIn
<1>4. /\ \A x : ~Has(P, "delete", x) /\ ~Has(P, "create", x)
      /\ ~Has(P, "off", "up")
  BY <1>3, LaterMakesNone
<1>5. Served(P, TRUE)
  BY <1>4, ServedWhileThere
<1>6. P \in Seq(Allowed("restart"))
  BY <1>1, AllowedBuild, SeqIn
<1> QED
  BY <1>2, <1>4, <1>5, <1>6

-----------------------------------------------------------------------------
(* What is left of the call that runs, and what a step does to it.         *)

HdlType ==
  [jni : BOOLEAN, init : BOOLEAN, llcp : BOOLEAN, app : Tests, handle : BOOLEAN, prev : Tests,
   disc : Tests, protocols : SUBSET {"ISO_DEP"}, idle : BOOLEAN, llcpEnabled : BOOLEAN,
   llcpMode : BOOLEAN, felicaHandle : BOOLEAN, aidHandle : {"-", "aid", "felica"}]

CallType ==
  [name : {"-", "init", "enable", "disable", "deinit", "restart"}, p : Tests,
   result : {"-", "ok", "failed"}, clean : BOOLEAN]

Types ==
  /\ osal \subseteq OsalObjects /\ lost \subseteq OsalObjects
  /\ stack \subseteq Base \cup LlcpEnds \cup Registrations
  /\ route \subseteq {"ISO_DEP", "T3T", "NFC_DEP"}
  /\ hdl \in HdlType /\ call \in CallType
  /\ faults \in 0..MaxFaults /\ ui \in {"stopped", "starting", "running", "gone"}
  /\ broken \in BOOLEAN

(* What is left of a call.                                                 *)
Steady == prog \in Seq(Allowed(call.name)) /\ InOrder(prog)

(* The call the user interface made.                                       *)
Asked ==
  /\ ui = "stopped" => call.name \in {"-", "disable", "deinit"}
  /\ ui = "starting" => call.name = "init"
  /\ ui = "running" => call.name \in {"enable", "restart"}
  /\ call.name = "-" => prog = <<>>

(* The flags of the JNI and dtaLib are set together.                       *)
Together ==
  /\ \A v \in BOOLEAN : HasSet(prog, "jni", v) => hdl.init = v \/ HasSet(prog, "init", v)
  /\ \A v \in BOOLEAN : HasSet(prog, "init", v) => HasSet(prog, "jni", v)
  /\ hdl.jni # hdl.init =>
       HasSet(prog, "jni", hdl.init) /\ \A i \in 1..Len(prog) : prog[i].op \in {"set", "return"}

Sound == Types /\ Steady /\ Asked /\ Together

-----------------------------------------------------------------------------
(* A step of a call is taken, or it fails.                                 *)

Taken ==
  /\ prog # <<>> /\ Effect(step) /\ ~Undefined(step) /\ prog' = Tail(prog)
  /\ call' \in {call, [call EXCEPT !.result = "ok"]} /\ UNCHANGED <<ui, faults, broken>>

(* It fails, and ends the functions around w: all but those that ignore    *)
(* the failure, or the call itself when the HCI is refused.                *)
Lapsed(w) ==
  /\ prog # <<>> /\ ~(step.op \in {"set", "return"} /\ ~Undefined(step))
  /\ NoEffect \/ (Effect(step) /\ ~Undefined(step))
  /\ w = step.within \/ (w = {} /\ HciOn(step))
  /\ prog' = Outside(w, Tail(prog)) /\ broken' = (broken \/ OfInit(step))
  /\ call' \in CallType /\ call'.name = call.name
  /\ faults' \in 0..MaxFaults /\ UNCHANGED ui

Ended ==
  /\ prog # <<>> /\ Undefined(step) /\ NoEffect /\ prog' = <<>> /\ ui' = "gone"
  /\ UNCHANGED <<faults, call, broken>>

LEMMA HeadIs ==
  ASSUME Steady, prog # <<>>
  PROVE  /\ step = prog[1] /\ 1 \in 1..Len(prog) /\ step \in Allowed(call.name) /\ step \in Steps /\ step \in AStep
         /\ Typed(step) /\ Len(prog) \in Nat
<1>1. step = prog[1] /\ 1 \in 1..Len(prog) /\ step \in Allowed(call.name) /\ Len(prog) \in Nat
  BY TailIs DEF Steady, step
<1> QED
  BY <1>1 DEF Allowed, Steps

LEMMA StepKinds ==
  ASSUME Sound
  PROVE  /\ Done => Taken
         /\ Fault => Lapsed(step.within)
         /\ HciRefused => Lapsed({})
         /\ Vain => Lapsed(step.within)
         /\ Misuse => Lapsed(step.within) \/ Ended
<1>1. Done => Taken
  BY DEF Done, Taken, Fine
<1>2. ASSUME NEW c \in CallType, NEW e, NEW t,
             e = [c EXCEPT !.clean = @ /\ t, !.result = IF prog' = <<>> THEN "failed" ELSE @]
      PROVE  e \in CallType /\ e.name = c.name
  <2>1. (c.clean /\ t) \in BOOLEAN
    OBVIOUS
  <2> QED
    BY <1>2, <2>1 DEF CallType
<1>3. ASSUME Failed PROVE call' \in CallType /\ call'.name = call.name
  BY <1>2, <1>3 DEF Failed, Sound, Types
<1>4. Fault => Lapsed(step.within)
  <2> SUFFICES ASSUME Fault PROVE Lapsed(step.within)
    OBVIOUS
  <2>1. step.op \notin {"set", "return"} /\ ~Undefined(step)
    BY DEF Fault, CanFail, Fine
  <2>2. faults' \in 0..MaxFaults
    <3>1. faults \in 0..MaxFaults /\ MaxFaults \in Nat
      BY LifecycleAssumption DEF Sound, Types
    <3> QED
      BY <3>1 DEF Fault
  <2>3. Failed
    BY DEF Fault
  <2> QED
    BY <1>3, <2>1, <2>2, <2>3 DEF Fault, Lapsed, Failed, AfterFailure
<1>5. Vain => Lapsed(step.within)
  <2> SUFFICES ASSUME Vain PROVE Lapsed(step.within)
    OBVIOUS
  <2>1. Failed /\ ~Undefined(step) /\ ~Fine(step) /\ prog # <<>>
    BY DEF Vain
  <2>2. Typed(step)
    BY <2>1, HeadIs DEF Sound
  <2>3. step.op \notin {"set"}
    <3> SUFFICES ASSUME step.op = "set" PROVE FALSE
      OBVIOUS
    <3>1. step.x \notin {"ndef", "p2p", "isoDepListen"}
      <4>1. step.x \in {"app", "prev", "disc", "protocols"} \cup Flags
        BY <2>2 DEF Typed
      <4> QED
        BY <4>1 DEF Flags
    <3> QED
      BY <2>1, <3>1 DEF Fine, AsksStack, AwaitsEe, Waits
  <2>4. step.op # "return"
    <3> SUFFICES ASSUME step.op = "return" PROVE FALSE
      OBVIOUS
    <3>1. step.x \notin {"ndef", "p2p", "isoDepListen"}
      BY <2>2 DEF Typed
    <3> QED
      BY <2>1, <3>1 DEF Fine, AsksStack, AwaitsEe, Waits
  <2> QED
    BY <1>3, <2>1, <2>3, <2>4 DEF Vain, Lapsed, Failed, AfterFailure, Sound, Types
<1>6. Misuse => Lapsed(step.within) \/ Ended
  <2> SUFFICES ASSUME Misuse PROVE Lapsed(step.within) \/ Ended
    OBVIOUS
  <2>1. CASE Failed
    BY <1>3, <2>1 DEF Misuse, Lapsed, Failed, AfterFailure, Sound, Types
  <2>2. CASE ~Failed
    BY <2>2 DEF Misuse, Ended
  <2> QED
    BY <2>1, <2>2
<1>7. HciRefused => Lapsed({})
  <2> SUFFICES ASSUME HciRefused PROVE Lapsed({})
    OBVIOUS
  <2>1. prog # <<>> /\ HciOn(step) /\ ~Undefined(step) /\ NoEffect /\ prog' = <<>>
    BY DEF HciRefused, HciOn, Fine
  <2>2. faults' \in 0..MaxFaults
    <3>1. faults \in 0..MaxFaults /\ MaxFaults \in Nat
      BY LifecycleAssumption DEF Sound, Types
    <3> QED
      BY <3>1 DEF HciRefused
  <2>3. call' \in CallType /\ call'.name = call.name
    BY DEF HciRefused, Sound, Types, CallType
  <2>4. prog' = Outside({}, Tail(prog))
    BY <2>1, OutsideNone DEF Sound, Steady
  <2>5. ~OfInit(step) /\ broken' = broken /\ broken \in BOOLEAN
    BY <2>1 DEF HciRefused, HciOn, OfInit, Base, Sound, Types
  <2> QED
    BY <2>1, <2>2, <2>3, <2>4, <2>5 DEF Lapsed, HciRefused, HciOn
<1> QED
  BY <1>1, <1>4, <1>5, <1>6, <1>7

LEMMA HdlTyped ==
  ASSUME NEW h \in HdlType, NEW f, NEW v,
         \/ f \in {"app", "prev", "disc"} /\ v \in Tests
         \/ f = "protocols" /\ v \in SUBSET {"ISO_DEP"}
         \/ f \in Flags /\ v \in BOOLEAN
  PROVE  /\ [h EXCEPT ![f] = v] \in HdlType
         /\ [h EXCEPT ![f] = v].jni = (IF f = "jni" THEN v ELSE h.jni)
         /\ [h EXCEPT ![f] = v].init = (IF f = "init" THEN v ELSE h.init)
         /\ [h EXCEPT ![f] = v].llcp = (IF f = "llcp" THEN v ELSE h.llcp)
         /\ [h EXCEPT ![f] = v].handle = (IF f = "handle" THEN v ELSE h.handle)
<1>1. CASE f \in {"app", "prev", "disc"} /\ v \in Tests
  BY <1>1 DEF HdlType
<1>2. CASE f = "protocols" /\ v \in SUBSET {"ISO_DEP"}
  BY <1>2 DEF HdlType
<1>3. CASE f \in {"jni", "init", "llcp", "handle"} /\ v \in BOOLEAN
  BY <1>3 DEF HdlType
<1>4. CASE f \in {"idle", "llcpEnabled", "llcpMode", "felicaHandle"} /\ v \in BOOLEAN
  BY <1>4 DEF HdlType
<1> QED
  BY <1>1, <1>2, <1>3, <1>4 DEF Flags

LEMMA HdlEffect ==
  ASSUME hdl \in HdlType, NEW s \in Steps, hdl' \in HdlAfter(s)
  PROVE  /\ hdl' \in HdlType
         /\ hdl'.jni = (IF IsSet(s, "jni") THEN s.to ELSE hdl.jni)
         /\ hdl'.init = (IF IsSet(s, "init") THEN s.to ELSE hdl.init)
         /\ hdl'.llcp = (IF IsSet(s, "llcp") THEN s.to ELSE hdl.llcp)
         /\ hdl'.handle = (IF IsSet(s, "handle") THEN s.to ELSE hdl.handle)
<1>1. CASE s.op = "set"
  <2>1. hdl' = [hdl EXCEPT ![s.x] = s.to]
    BY <1>1 DEF HdlAfter
  <2>2. \/ s.x \in {"app", "prev", "disc"} /\ s.to \in Tests
        \/ s.x = "protocols" /\ s.to \in SUBSET {"ISO_DEP"}
        \/ s.x \in Flags /\ s.to \in BOOLEAN
    BY <1>1 DEF Steps, Typed
  <2>3. \A g : IsSet(s, g) <=> s.x = g
    BY <1>1 DEF IsSet
  <2>4. /\ [hdl EXCEPT ![s.x] = s.to] \in HdlType
        /\ [hdl EXCEPT ![s.x] = s.to].jni = (IF s.x = "jni" THEN s.to ELSE hdl.jni)
        /\ [hdl EXCEPT ![s.x] = s.to].init = (IF s.x = "init" THEN s.to ELSE hdl.init)
        /\ [hdl EXCEPT ![s.x] = s.to].llcp = (IF s.x = "llcp" THEN s.to ELSE hdl.llcp)
        /\ [hdl EXCEPT ![s.x] = s.to].handle = (IF s.x = "handle" THEN s.to ELSE hdl.handle)
    BY <2>2, HdlTyped
  <2> QED
    BY <2>1, <2>3, <2>4
<1>2. CASE s.op # "set"
  <2>1. \A g : ~IsSet(s, g)
    BY <1>2 DEF IsSet
  <2>2. \/ hdl' = hdl
        \/ hdl' = [hdl EXCEPT !.llcpMode = hdl.llcpEnabled]
        \/ s.x \in {"aid", "felica"} /\ hdl' = [hdl EXCEPT !.aidHandle = s.x]
        \/ hdl' = [hdl EXCEPT !.idle = TRUE]
    BY <1>2 DEF HdlAfter
  <2>3. CASE hdl' = hdl
    BY <2>1, <2>3
  <2>4. CASE hdl' = [hdl EXCEPT !.llcpMode = hdl.llcpEnabled]
    BY <2>1, <2>4 DEF HdlType
  <2>5. CASE s.x \in {"aid", "felica"} /\ hdl' = [hdl EXCEPT !.aidHandle = s.x]
    BY <2>1, <2>5 DEF HdlType
  <2>6. CASE hdl' = [hdl EXCEPT !.idle = TRUE]
    BY <2>1, <2>6 DEF HdlType
  <2> QED
    BY <2>2, <2>3, <2>4, <2>5, <2>6
<1> QED
  BY <1>1, <1>2

LEMMA EffectTypes ==
  ASSUME Types, NEW s \in Steps, Effect(s)
  PROVE  /\ osal' \subseteq OsalObjects /\ lost' \subseteq OsalObjects
         /\ stack' \subseteq Base \cup LlcpEnds \cup Registrations
         /\ route' \subseteq {"ISO_DEP", "T3T", "NFC_DEP"} /\ hdl' \in HdlType
<1>1. Typed(s)
  BY DEF Steps
<1>2. osal' \subseteq OsalObjects /\ lost' \subseteq OsalObjects
  BY <1>1 DEF Effect, OsalAfter, Types, Typed
<1>3. stack' \subseteq Base \cup LlcpEnds \cup Registrations
  <2>1. \/ s.op = "on" /\ stack' = stack \cup {s.x}
        \/ stack' \subseteq stack
    BY DEF Effect, StackAfter
  <2> QED
    BY <1>1, <2>1 DEF Types, Typed
<1>4. route' \subseteq {"ISO_DEP", "T3T", "NFC_DEP"}
  <2>1. hdl.protocols \in SUBSET {"ISO_DEP"}
    BY DEF Types, HdlType
  <2> QED
    BY <1>1, <2>1 DEF Effect, RouteAfter, Types, Typed
<1>5. hdl' \in HdlType
  BY HdlEffect DEF Types, Effect
<1> QED
  BY <1>2, <1>3, <1>4, <1>5

(* What is left after a step.                                              *)
LEMMA RestAfter ==
  ASSUME Steady, prog # <<>>
  PROVE  /\ prog' = Tail(prog) =>
              prog' \in Seq(Allowed(call.name)) /\ Rest(prog', prog, Allowed(call.name)) /\ InOrder(prog')
         /\ \A w : prog' = Outside(w, Tail(prog)) =>
              /\ prog' \in Seq(Allowed(call.name)) /\ InOrder(prog')
              /\ Rest(prog', prog, KeptBy(Allowed(call.name), w))
              /\ \A i \in 1..Len(prog') : ~(w \subseteq prog'[i].within)
<1> SUFFICES ASSUME NEW w
             PROVE  /\ prog' = Tail(prog) =>
                         prog' \in Seq(Allowed(call.name)) /\ Rest(prog', prog, Allowed(call.name)) /\ InOrder(prog')
                    /\ prog' = Outside(w, Tail(prog)) =>
                         /\ prog' \in Seq(Allowed(call.name)) /\ InOrder(prog')
                         /\ Rest(prog', prog, KeptBy(Allowed(call.name), w))
                         /\ \A i \in 1..Len(prog') : ~(w \subseteq prog'[i].within)
  OBVIOUS
<1> DEFINE S == Allowed(call.name)
           t == Tail(prog)
           o == Outside(w, t)
<1>1. prog \in Seq(S) /\ InOrder(prog)
  BY DEF Steady
<1> HIDE DEF S
<1>2. t \in Seq(S) /\ Rest(t, prog, S)
  BY <1>1, TailRest
<1>3. o \in Seq(S) /\ Rest(o, prog, KeptBy(S, w)) /\ \A i \in 1..Len(o) : ~(w \subseteq o[i].within)
  BY <1>1, OutsideRest
<1> HIDE DEF t, o
<1>4. InOrder(t) /\ InOrder(o)
  BY <1>1, <1>2, <1>3, RestInOrder
<1>5. prog' = t => prog' \in Seq(S) /\ Rest(prog', prog, S) /\ InOrder(prog')
  BY <1>2, <1>4
<1>6. prog' = o => /\ prog' \in Seq(S) /\ InOrder(prog')
                   /\ Rest(prog', prog, KeptBy(S, w))
                   /\ \A i \in 1..Len(prog') : ~(w \subseteq prog'[i].within)
  BY <1>3, <1>4
<1> QED
  BY <1>5, <1>6 DEF S, t, o

(* Nothing that comes later is out of order with the step taken.           *)
LEMMA AfterHead ==
  ASSUME Steady, prog # <<>>, NEW r \in Seq(Allowed(call.name)), NEW K, Rest(r, prog, K)
  PROVE  \A i \in 1..Len(r) : Before(step, r[i]) /\ r[i] \in Allowed(call.name)
<1> SUFFICES ASSUME NEW i \in 1..Len(r) PROVE Before(step, r[i]) /\ r[i] \in Allowed(call.name)
  OBVIOUS
<1>1. PICK j \in 2..Len(prog) : r[i] = prog[j]
  BY RestOf DEF Steady
<1>2. Before(prog[1], prog[j])
  <2>1. 1 \in 1..Len(prog) /\ j \in 1..Len(prog) /\ 1 < j
    BY HeadIs
  <2> QED
    BY <2>1 DEF Steady, InOrder
<1> QED
  BY <1>1, <1>2, HeadIs

-----------------------------------------------------------------------------
(* A call begins.                                                          *)

LEMMA NothingSteps ==
  ASSUME NEW name, NEW P, P = <<>> \o <<Return>>
  PROVE  /\ P \in Seq(Allowed(name)) /\ InOrder(P) /\ Served(P, TRUE)
         /\ \A op, x : Has(P, op, x) => op = "return"
         /\ \A f, v : ~HasSet(P, f, v)
<1> DEFINE S == Allowed(name)
<1>1. Return \in S
  BY AllowedBuild
<1>2. P = <<Return>>
  BY <1>1 DEF Return, Step
<1> HIDE DEF S
<1>3. P \in Seq(S) /\ Len(P) = 1 /\ P[1] = Return /\ InOrder(P)
  BY <1>1, <1>2, OneStep
<1>4. \A i \in 1..Len(P) : P[i] = Return
  BY <1>3
<1>5. Served(P, TRUE)
  BY <1>4, ReturnIs DEF Served
<1>6. \A op, x : Has(P, op, x) => op = "return"
  BY <1>4, ReturnIs DEF Has
<1>7. \A f, v : ~HasSet(P, f, v)
  BY <1>4, ReturnIs DEF HasSet
<1> QED
  BY <1>3, <1>5, <1>6, <1>7 DEF S

LEMMA FlagsOf ==
  ASSUME NEW name, NEW P \in Seq(Allowed(name)), NEW f \in {"jni", "init"}, NEW v, HasSet(P, f, v)
  PROVE  (name = "init" /\ v = TRUE) \/ (name = "deinit" /\ v = FALSE)
<1> DEFINE S == Allowed(name)
<1>1. \A i \in 1..Len(P) : P[i] \in S
  <2> HIDE DEF S
  <2> QED
    BY DEF S
<1>2. PICK i \in 1..Len(P) : IsSet(P[i], f) /\ P[i].to = v
  BY DEF HasSet
<1>3. FlagSet(P[i]) /\ P[i] \in S
  BY <1>1, <1>2 DEF FlagSet
<1> QED
  BY <1>2, <1>3 DEF Allowed

LEMMA NoneLeft ==
  ASSUME Sound, prog = <<>>
  PROVE  /\ \A op, x : ~Has(prog, op, x)
         /\ \A f, v : ~HasSet(prog, f, v)
         /\ hdl.jni = hdl.init
<1>1. Len(prog) = 0
  OBVIOUS
<1>2. \A f, v : ~HasSet(prog, f, v)
  BY <1>1 DEF HasSet
<1>3. \A op, x : ~Has(prog, op, x)
  BY <1>1 DEF Has
<1> QED
  BY <1>2, <1>3 DEF Sound, Together

LEMMA CallSound ==
  ASSUME Sound, NEW name \in {"init", "enable", "disable", "deinit", "restart"}, NEW p \in Tests, NEW steps,
         Call(name, p, steps), NEW P, P = steps \o <<Return>>, P \in Seq(Allowed(name)), InOrder(P),
         name = "init" => (HasSet(P, "init", TRUE) <=> HasSet(P, "jni", TRUE)),
         name = "deinit" => (HasSet(P, "init", FALSE) <=> HasSet(P, "jni", FALSE)),
         ui' \in {"stopped", "starting", "running"},
         ui' = "stopped" => name \in {"disable", "deinit"},
         ui' = "starting" => name = "init",
         ui' = "running" => name \in {"enable", "restart"}
  PROVE  Sound'
<1>1. prog = <<>> /\ prog' = P
  BY DEF Call, Return
<1>2. hdl.jni = hdl.init
  BY <1>1, NoneLeft
<1>3. call' \in CallType /\ call'.name = name
  BY DEF Call, CallType
<1>4. Types'
  BY <1>3 DEF Types, Call, Sound
<1>5. Steady'
  BY <1>1, <1>3 DEF Steady
<1>6. Asked'
  BY <1>3 DEF Asked
<1>7. \A v \in BOOLEAN : HasSet(P, "jni", v) => HasSet(P, "init", v)
  BY FlagsOf
<1>8. \A v \in BOOLEAN : HasSet(P, "init", v) => HasSet(P, "jni", v)
  BY FlagsOf
<1>9. Together'
  BY <1>1, <1>2, <1>7, <1>8 DEF Together, Call
<1> QED
  BY <1>4, <1>5, <1>6, <1>9 DEF Sound

LEMMA CallsSound ==
  ASSUME Sound, (\E p \in Params : RunButton(p)) \/ ThenEnable \/ StopButton \/ ExitButton \/ RestartByThread
  PROVE  Sound'
<1>1. call.p \in Tests /\ {} \in Tests /\ Params \subseteq Tests /\ hdl.prev \in Tests
  BY DEF Sound, Types, CallType, HdlType, Tests
<1>2. ASSUME NEW p \in Params, RunButton(p) PROVE Sound'
  <2> DEFINE P == JniInit \o <<Return>>
  <2>1. hdl.jni = hdl.init
    BY <1>2, NoneLeft DEF RunButton, Call
  <2>2. P \in Seq(Allowed("init")) /\ InOrder(P)  /\ (HasSet(P, "init", TRUE) <=> HasSet(P, "jni", TRUE))
    <3>1. CASE hdl.jni
      <4>1. JniInit = <<>>
        BY <3>1 DEF JniInit, If
      <4> QED
        BY <4>1, NothingSteps
    <3>2. CASE ~hdl.jni
      BY <2>1, <3>2, InitSteps
    <3> QED
      BY <3>1, <3>2
  <2>3. Call("init", p, JniInit) /\ ui' = "starting"
    BY <1>2 DEF RunButton
  <2> HIDE DEF P
  <2> QED
    BY <1>1, <2>2, <2>3, CallSound DEF P
<1>3. ASSUME ThenEnable PROVE Sound'
  <2> DEFINE P == EnableDiscovery(call.p) \o <<Return>>
  <2>1. P \in Seq(Allowed("enable")) /\ InOrder(P)
    BY <1>1, EnableSteps
  <2>2. Call("enable", call.p, EnableDiscovery(call.p)) /\ ui' = "running"
    BY <1>3 DEF ThenEnable
  <2> HIDE DEF P
  <2> QED
    BY <1>1, <2>1, <2>2, CallSound DEF P
<1>4. ASSUME StopButton PROVE Sound'
  <2> DEFINE P == DisableDiscovery \o <<Return>>
  <2>1. P \in Seq(Allowed("disable")) /\ InOrder(P)
    BY DisableSteps
  <2>2. Call("disable", call.p, DisableDiscovery) /\ ui' = "stopped"
    BY <1>4 DEF StopButton
  <2> HIDE DEF P
  <2> QED
    BY <1>1, <2>1, <2>2, CallSound DEF P
<1>5. ASSUME ExitButton PROVE Sound'
  <2> DEFINE P == JniDeInit \o <<Return>>
  <2>1. hdl.jni /\ hdl.init
    BY <1>5, NoneLeft DEF ExitButton, Call, Sound, Types, HdlType
  <2>2. P \in Seq(Allowed("deinit")) /\ InOrder(P)  /\ (HasSet(P, "init", FALSE) <=> HasSet(P, "jni", FALSE))
    BY <2>1, DeInitSteps
  <2>3. Call("deinit", {}, JniDeInit) /\ ui' = "stopped"
    BY <1>5 DEF ExitButton
  <2> HIDE DEF P
  <2> QED
    BY <1>1, <2>2, <2>3, CallSound DEF P
<1>6. ASSUME RestartByThread PROVE Sound'
  <2> DEFINE P == Restart \o <<Return>>
  <2>1. P \in Seq(Allowed("restart")) /\ InOrder(P)
    BY <1>1, RestartSteps
  <2>2. Call("restart", call.p, Restart) /\ ui' = "running"
    BY <1>6 DEF RestartByThread
  <2> HIDE DEF P
  <2> QED
    BY <1>1, <2>1, <2>2, CallSound DEF P
<1> QED
  BY <1>2, <1>3, <1>4, <1>5, <1>6

-----------------------------------------------------------------------------
(* Every step keeps the types and the order of the steps left.             *)

LEMMA InitSound == Init => Sound
<1> SUFFICES ASSUME Init PROVE Sound
  OBVIOUS
<1>1. prog = <<>> /\ Len(prog) = 0 /\ call.name = "-" /\ ui = "stopped" /\ hdl.jni = hdl.init
  BY DEF Init
<1>2. {} \in Tests
  BY DEF Tests
<1>3. hdl \in HdlType
  BY <1>2 DEF Init, HdlType
<1>4. call \in CallType
  BY <1>2 DEF Init, CallType
<1>5. faults \in 0..MaxFaults
  BY LifecycleAssumption DEF Init
<1>6. Types
  BY <1>3, <1>4, <1>5 DEF Init, Types
<1>7. Steady
  <2> DEFINE S == Allowed(call.name)
  <2> HIDE DEF S
  <2>1. prog \in Seq(S) /\ InOrder(prog)
    BY <1>1, NoStep
  <2> QED
    BY <2>1 DEF Steady, S
<1>8. Asked
  BY <1>1 DEF Asked
<1>9. Together
  BY <1>1 DEF Together, HasSet
<1> QED
  BY <1>6, <1>7, <1>8, <1>9 DEF Sound

LEMMA SessionSound ==
  ASSUME Sound, SessionEnds
  PROVE  Sound'
<1>1. hdl \in HdlType /\ hdl' = [hdl EXCEPT !.idle = TRUE] /\ call' = call /\ prog' = prog /\ ui' = ui
  BY DEF SessionEnds, Sound, Types
<1>2. hdl' \in HdlType /\ hdl'.jni = hdl.jni /\ hdl'.init = hdl.init
  BY <1>1 DEF HdlType
<1>3. Types'
  BY <1>2 DEF SessionEnds, Sound, Types
<1>4. Steady' /\ Asked'
  BY <1>1 DEF Sound, Steady, Asked
<1>5. Together'
  BY <1>1, <1>2 DEF Sound, Together
<1> QED
  BY <1>3, <1>4, <1>5 DEF Sound

LEMMA TakenSound ==
  ASSUME Sound, Taken
  PROVE  Sound'
<1>1. Steady /\ prog # <<>> /\ prog' = Tail(prog) /\ ui' = ui /\ Effect(step)
  BY DEF Sound, Taken
<1>2. call' \in CallType /\ call'.name = call.name
  <2>1. call \in CallType
    BY DEF Sound, Types
  <2> QED
    BY <2>1 DEF Taken, CallType
<1>3. step \in Steps /\ step = prog[1] /\ step \in Allowed(call.name) /\ Typed(step) /\ Len(prog) \in Nat
  BY <1>1, HeadIs
<1>4. Types'
  BY <1>1, <1>2, <1>3, EffectTypes DEF Taken, Sound, Types
<1>5. prog' \in Seq(Allowed(call.name)) /\ Rest(prog', prog, Allowed(call.name)) /\ InOrder(prog')
  BY <1>1, RestAfter
<1>6. Steady'
  BY <1>2, <1>5 DEF Steady
<1>7. Asked'
  BY <1>1, <1>2 DEF Asked, Sound
<1>8. /\ hdl'.jni = (IF IsSet(step, "jni") THEN step.to ELSE hdl.jni)
      /\ hdl'.init = (IF IsSet(step, "init") THEN step.to ELSE hdl.init)
      /\ hdl.jni \in BOOLEAN /\ hdl.init \in BOOLEAN
  <2>1. hdl \in HdlType /\ hdl' \in HdlAfter(step)
    BY <1>1 DEF Sound, Types, Effect
  <2> QED
    BY <1>3, <2>1, HdlEffect DEF HdlType
<1>9. \A f, v : HasSet(prog', f, v) => HasSet(prog, f, v)
  BY <1>1, <1>5, RestHasSet DEF Steady
<1>10. \A f, v : HasSet(prog, f, v) => HasSet(prog', f, v) \/ (IsSet(step, f) /\ step.to = v)
  <2> DEFINE S == Allowed(call.name)
  <2>1. prog \in Seq(S) /\ prog' \in Seq(S) /\ Rest(prog', prog, S) /\ \A i \in 1..Len(prog) : prog[i] \in S
    <3> HIDE DEF S
    <3>1. prog \in Seq(S)
      BY <1>1 DEF Steady, S
    <3> QED
      BY <1>5, <3>1 DEF S
  <2> HIDE DEF S
  <2> QED
    BY <1>3, <2>1, RestHasSet
<1>11. \A i \in 1..Len(prog') : Before(step, prog'[i])
  BY <1>1, <1>5, AfterHead
<1>12. \A v \in BOOLEAN : IsSet(step, "jni") /\ step.to = v => hdl.init = v
  <2> SUFFICES ASSUME NEW v \in BOOLEAN, IsSet(step, "jni"), step.to = v PROVE hdl.init = v
    OBVIOUS
  <2>1. HasSet(prog, "jni", v)
    BY <1>1, <1>3, HeadIs DEF HasSet
  <2>2. ~HasSet(prog, "init", v)
    <3>1. ~HasSet(prog', "init", v)
      BY <1>11 DEF HasSet, Before, FlagSet
    <3> QED
      BY <1>10, <3>1 DEF IsSet
  <2> QED
    BY <2>1, <2>2 DEF Sound, Together
<1>13. ASSUME NEW v \in BOOLEAN, HasSet(prog', "jni", v) PROVE hdl'.init = v \/ HasSet(prog', "init", v)
  <2>1. HasSet(prog, "jni", v)
    BY <1>9, <1>13
  <2>2. hdl.init = v \/ HasSet(prog, "init", v)
    BY <2>1 DEF Sound, Together
  <2>3. CASE IsSet(step, "init")
    <3>1. FlagSet(step) /\ step.to = (call.name = "init") /\ call.name \in {"init", "deinit"}
      BY <1>3, <2>3 DEF Allowed, FlagSet
    <3>2. (call.name = "init" /\ v = TRUE) \/ (call.name = "deinit" /\ v = FALSE)
      BY <1>1, <2>1, FlagsOf DEF Steady
    <3> QED
      BY <1>8, <2>3, <3>1, <3>2
  <2>4. CASE ~IsSet(step, "init")
    BY <1>8, <1>10, <2>2, <2>4
  <2> QED
    BY <2>3, <2>4
<1>14. ASSUME NEW v \in BOOLEAN, HasSet(prog', "init", v) PROVE HasSet(prog', "jni", v)
  <2>1. HasSet(prog, "jni", v)
    BY <1>9, <1>14 DEF Sound, Together
  <2>2. ~IsSet(step, "jni")
    BY <1>11, <1>14 DEF HasSet, Before, FlagSet
  <2> QED
    BY <1>10, <2>1, <2>2
<1>15. hdl'.jni # hdl'.init =>
         HasSet(prog', "jni", hdl'.init) /\ \A i \in 1..Len(prog') : prog'[i].op \in {"set", "return"}
  <2> SUFFICES ASSUME hdl'.jni # hdl'.init
               PROVE  HasSet(prog', "jni", hdl'.init) /\ \A i \in 1..Len(prog') : prog'[i].op \in {"set", "return"}
    OBVIOUS
  <2>1. CASE IsSet(step, "jni")
    <3>1. hdl'.jni = step.to /\ step.to \in BOOLEAN
      BY <1>3, <1>8, <2>1 DEF Typed, IsSet, Flags
    <3>2. hdl'.init = hdl.init
      BY <1>8, <2>1 DEF IsSet
    <3> QED
      BY <1>12, <2>1, <3>1, <3>2
  <2>2. CASE IsSet(step, "init")
    <3>1. hdl'.init = step.to /\ step.to \in BOOLEAN /\ ~IsSet(step, "jni")
      BY <1>3, <1>8, <2>2 DEF Typed, IsSet, Flags
    <3>2. HasSet(prog, "init", step.to)
      BY <1>1, <1>3, <2>2, HeadIs DEF HasSet
    <3>3. HasSet(prog, "jni", step.to)
      BY <3>1, <3>2 DEF Sound, Together
    <3>4. HasSet(prog', "jni", step.to)
      BY <1>10, <3>1, <3>3
    <3>5. FlagSet(step)
      BY <2>2 DEF FlagSet
    <3> QED
      BY <1>11, <3>1, <3>4, <3>5 DEF Before
  <2>3. CASE ~IsSet(step, "jni") /\ ~IsSet(step, "init")
    <3>1. hdl'.jni = hdl.jni /\ hdl'.init = hdl.init
      BY <1>8, <2>3
    <3>2. HasSet(prog, "jni", hdl.init) /\ \A i \in 1..Len(prog) : prog[i].op \in {"set", "return"}
      BY <3>1 DEF Sound, Together
    <3>3. HasSet(prog', "jni", hdl'.init)
      BY <1>10, <2>3, <3>1, <3>2
    <3>4. \A i \in 1..Len(prog') : prog'[i].op \in {"set", "return"}
      <4>1. \A i \in 1..Len(prog') : \E j \in 2..Len(prog) : prog'[i] = prog[j]
        BY <1>1, <1>5, RestOf DEF Steady
      <4>2. \A j \in 2..Len(prog) : j \in 1..Len(prog)
        BY <1>3
      <4> QED
        BY <3>2, <4>1, <4>2
    <3> QED
      BY <3>3, <3>4
  <2> QED
    BY <2>1, <2>2, <2>3
<1>16. Together'
  BY <1>13, <1>14, <1>15 DEF Together
<1> QED
  BY <1>4, <1>6, <1>7, <1>16 DEF Sound

(* A failed step leaves the flags, and the steps that set them unless it   *)
(* ends the call.                                                          *)
LEMMA LapsedHdl ==
  ASSUME Sound, NEW w, Lapsed(w)
  PROVE  /\ hdl' \in HdlType /\ hdl'.jni = hdl.jni /\ hdl'.init = hdl.init
         /\ hdl'.llcp = hdl.llcp /\ hdl'.handle = hdl.handle
<1>1. step \in Steps /\ hdl \in HdlType
  BY HeadIs DEF Sound, Lapsed, Types
<1>2. CASE NoEffect
  BY <1>1, <1>2 DEF NoEffect
<1>3. CASE Effect(step) /\ ~Undefined(step)
  <2>1. step.op # "set" /\ hdl' \in HdlAfter(step)
    BY <1>3 DEF Lapsed, Effect
  <2>2. \A f : ~IsSet(step, f)
    BY <2>1 DEF IsSet
  <2> QED
    BY <1>1, <2>1, <2>2, HdlEffect
<1> QED
  BY <1>2, <1>3 DEF Lapsed

LEMMA LapsedProg ==
  ASSUME Sound, NEW w, Lapsed(w)
  PROVE  /\ prog' \in Seq(Allowed(call.name)) /\ InOrder(prog')
         /\ Rest(prog', prog, KeptBy(Allowed(call.name), w))
         /\ \A op, x : Has(prog', op, x) => Has(prog, op, x)
         /\ \A f, v : HasSet(prog', f, v) => HasSet(prog, f, v)
         /\ w = {} => prog' = <<>>
<1>1. Steady /\ prog # <<>> /\ prog' = Outside(w, Tail(prog))
  BY DEF Sound, Lapsed
<1>2. /\ prog' \in Seq(Allowed(call.name)) /\ InOrder(prog')
      /\ Rest(prog', prog, KeptBy(Allowed(call.name), w))
      /\ \A i \in 1..Len(prog') : ~(w \subseteq prog'[i].within)
  BY <1>1, RestAfter
<1> DEFINE S == Allowed(call.name)
           K == KeptBy(S, w)
<1>3. prog \in Seq(S) /\ prog' \in Seq(S) /\ Rest(prog', prog, K)
  BY <1>1, <1>2 DEF Steady
<1> HIDE DEF S, K
<1>4. \A op, x : Has(prog', op, x) => Has(prog, op, x)
  BY <1>3, RestHas
<1>5. \A f, v : HasSet(prog', f, v) => HasSet(prog, f, v)
  BY <1>3, RestHasSet
<1>6. w = {} => prog' = <<>>
  <2> SUFFICES ASSUME w = {} PROVE prog' = <<>>
    OBVIOUS
  <2>1. Len(prog') \in Nat /\ 1..Len(prog') = {}
    BY <1>2, <1>3
  <2>2. Len(prog') = 0
    BY <2>1
  <2> QED
    BY <1>3, <2>2, EmptySeq
<1> QED
  BY <1>2, <1>4, <1>5, <1>6

LEMMA LapsedFlags ==
  ASSUME Sound, NEW w, Lapsed(w), NEW f \in {"jni", "init"}, NEW v, HasSet(prog, f, v), prog' # <<>>
  PROVE  HasSet(prog', f, v)
<1>1. /\ prog' \in Seq(Allowed(call.name))
      /\ Rest(prog', prog, KeptBy(Allowed(call.name), w))
      /\ w # {}
  BY LapsedProg
<1>2. ~IsSet(step, f)
  <2> SUFFICES ASSUME IsSet(step, f) PROVE FALSE
    OBVIOUS
  <2>1. step \in Steps
    BY HeadIs DEF Sound, Lapsed
  <2>2. FlagSet(step)
    BY DEF FlagSet
  <2> QED
    BY <1>1, <2>1, <2>2 DEF Steps, Lapsed, FlagSet, IsSet, HciOn
<1> DEFINE S == Allowed(call.name)
           K == KeptBy(S, w)
<1>3. \A i \in 1..Len(prog) : IsSet(prog[i], f) => prog[i] \in K
  <2>1. \A i \in 1..Len(prog) : prog[i] \in S
    <3>1. prog \in Seq(S)
      BY DEF Sound, Steady
    <3> HIDE DEF S
    <3> QED
      BY <3>1
  <2>2. \A s \in S : IsSet(s, f) => s \in K
    BY <1>1 DEF KeptBy, Allowed, Steps, FlagSet
  <2> HIDE DEF S, K
  <2> QED
    BY <2>1, <2>2
<1>4. prog \in Seq(S) /\ prog' \in Seq(S) /\ Rest(prog', prog, K) /\ step = prog[1]
  BY <1>1, HeadIs DEF Sound, Steady, Lapsed
<1> HIDE DEF S, K
<1> QED
  BY <1>2, <1>3, <1>4, RestHasSet

LEMMA LapsedSound ==
  ASSUME Sound, NEW w, Lapsed(w)
  PROVE  Sound'
<1>1. call' \in CallType /\ call'.name = call.name /\ ui' = ui /\ faults' \in 0..MaxFaults
  BY DEF Lapsed
<1>2. hdl' \in HdlType /\ hdl'.jni = hdl.jni /\ hdl'.init = hdl.init
  BY LapsedHdl
<1>3. step \in Steps /\ prog # <<>> /\ Len(prog) \in Nat
  BY HeadIs DEF Sound, Lapsed
<1>4. Types'
  <2>1. broken' \in BOOLEAN
    BY DEF Lapsed, Sound, Types, OfInit
  <2>2. CASE NoEffect
    BY <1>1, <1>2, <2>1, <2>2 DEF Sound, Types, NoEffect
  <2>3. CASE Effect(step)
    BY <1>1, <1>2, <1>3, <2>1, <2>3, EffectTypes DEF Sound, Types
  <2> QED
    BY <2>2, <2>3 DEF Lapsed
<1>5. Steady'
  BY <1>1, LapsedProg DEF Steady
<1>6. prog = <<>> => prog' = <<>>
  BY <1>3
<1>7. Asked'
  BY <1>1, <1>3 DEF Sound, Asked
<1>8. hdl.jni = hdl.init
  <2> SUFFICES ASSUME hdl.jni # hdl.init PROVE FALSE
    OBVIOUS
  <2>1. HasSet(prog, "jni", hdl.init) /\ \A i \in 1..Len(prog) : prog[i].op \in {"set", "return"}
    BY DEF Sound, Together
  <2>2. call.name \in {"init", "deinit"}
    BY <2>1, FlagsOf DEF Sound, Steady
  <2>3. step.op \in {"set", "return"} /\ Typed(step)
    BY <1>3, <2>1, HeadIs DEF Sound
  <2>4. ~Undefined(step)
    BY <2>2, <2>3 DEF Undefined, Waits
  <2> QED
    BY <2>3, <2>4 DEF Lapsed
<1>9. ASSUME NEW v \in BOOLEAN, HasSet(prog', "jni", v) PROVE hdl'.init = v \/ HasSet(prog', "init", v)
  <2>1. prog' # <<>>
    BY <1>9 DEF HasSet
  <2>2. hdl.init = v \/ HasSet(prog, "init", v)
    BY <1>9, LapsedProg DEF Sound, Together
  <2> QED
    BY <1>2, <2>1, <2>2, LapsedFlags
<1>10. ASSUME NEW v \in BOOLEAN, HasSet(prog', "init", v) PROVE HasSet(prog', "jni", v)
  <2>1. prog' # <<>>
    BY <1>10 DEF HasSet
  <2>2. HasSet(prog, "jni", v)
    BY <1>10, LapsedProg DEF Sound, Together
  <2> QED
    BY <2>1, <2>2, LapsedFlags
<1>11. Together'
  BY <1>2, <1>8, <1>9, <1>10 DEF Together
<1> QED
  BY <1>4, <1>5, <1>7, <1>11 DEF Sound

LEMMA EndedSound ==
  ASSUME Sound, Ended
  PROVE  Sound'
<1>1. prog' = <<>> /\ call' = call /\ ui' = "gone" /\ hdl' = hdl /\ prog # <<>>
  BY DEF Ended, NoEffect
<1>2. Types'
  BY DEF Ended, Sound, Types, NoEffect
<1>3. Steady'
  <2> DEFINE S == Allowed(call.name)
  <2> HIDE DEF S
  <2>1. prog' \in Seq(S) /\ InOrder(prog')
    BY <1>1, NoStep
  <2> QED
    BY <1>1, <2>1 DEF Steady, S
<1>4. Asked'
  BY <1>1 DEF Sound, Asked
<1>5. hdl.jni = hdl.init
  <2> SUFFICES ASSUME hdl.jni # hdl.init PROVE FALSE
    OBVIOUS
  <2>1. HasSet(prog, "jni", hdl.init) /\ \A i \in 1..Len(prog) : prog[i].op \in {"set", "return"}
    BY DEF Sound, Together
  <2>2. call.name \in {"init", "deinit"}
    BY <2>1, FlagsOf DEF Sound, Steady
  <2>3. step.op \in {"set", "return"} /\ Typed(step)
    BY <1>1, <2>1, HeadIs DEF Sound
  <2> QED
    BY <2>2, <2>3 DEF Undefined, Waits, Ended
<1>6. Together'
  <2>1. Len(prog') = 0
    BY <1>1
  <2> QED
    BY <1>1, <1>5, <2>1 DEF Together, HasSet
<1> QED
  BY <1>2, <1>3, <1>4, <1>6 DEF Sound

LEMMA SoundStep == Sound /\ [Next]_vars => Sound'
<1> SUFFICES ASSUME Sound, [Next]_vars PROVE Sound'
  OBVIOUS
<1>1. CASE (\E p \in Params : RunButton(p)) \/ ThenEnable \/ StopButton \/ ExitButton \/ RestartByThread
  BY <1>1, CallsSound
<1>2. CASE SessionEnds
  BY <1>2, SessionSound
<1>3. CASE Done \/ Fault \/ HciRefused \/ Vain \/ Misuse
  BY <1>3, StepKinds, TakenSound, LapsedSound, EndedSound
<1>4. CASE UNCHANGED vars
  BY <1>4 DEF vars, Sound, Types, Steady, Asked, Together
<1> QED
  BY <1>1, <1>2, <1>3, <1>4 DEF Next

LEMMA SoundAlways == Spec => []Sound
<1> QED
  BY InitSound, SoundStep, PTL DEF Spec

(* Every field keeps its range, whatever fails: what exists, what the      *)
(* stack holds and the copies of the application's parameters that         *)
(* phDtaLib and phMwIf keep.                                               *)
THEOREM LifecycleTypes == Spec => []TypeOK
<1>1. Sound => TypeOK
  BY DEF Sound, Types, TypeOK, HdlType, CallType, Tests, Registrations
<1> QED
  BY <1>1, SoundAlways, PTL

-----------------------------------------------------------------------------
(* What exists between the calls and within them.                          *)

Gone == call.name \in {"-", "deinit"}

(* Between calls every object exists or none does; a call deletes what     *)
(* exists and creates what does not.                                       *)
Objects ==
  /\ lost = {}
  /\ \A x \in OsalObjects :
       /\ Has(prog, "delete", x) => x \in osal /\ (Gone \/ Has(prog, "create", x))
       /\ Has(prog, "create", x) => x \notin osal \/ Has(prog, "delete", x)
       /\ Gone => ~Has(prog, "create", x) /\ (x \notin osal \/ Has(prog, "delete", x))
       /\ ~Gone => x \in osal \/ Has(prog, "create", x)
  /\ Served(prog, "mwq" \in osal)

(* The JNI's state tells whether they exist.                               *)
Handles ==
  /\ Gone /\ hdl.jni => HasSet(prog, "jni", FALSE)
  /\ ~Gone /\ ~hdl.jni => HasSet(prog, "jni", TRUE)
  /\ call.name # "-" => hdl.handle \/ (call.name = "init" /\ HasSet(prog, "handle", TRUE))

(* The LLCP flag is set when the servers are registered.                   *)
Llcp ==
  /\ hdl.llcp => /\ LlcpEnds \subseteq stack \/ HasSet(prog, "llcp", FALSE)
                 /\ Has(prog, "off", "up") => HasSet(prog, "llcp", FALSE)
                 /\ call.name \in {"enable", "restart"} \/ HasSet(prog, "llcp", FALSE)
  /\ HasSet(prog, "llcp", TRUE) =>
       \A e \in LlcpEnds : Has(prog, "on", e) \/ (e \in stack /\ ~Has(prog, "off", "up"))

(* A release takes down the stack and then the driver.                     *)
Released ==
  call.name = "deinit" =>
    /\ NoOn(prog)
    /\ Has(prog, "off", "up") \/ stack \subseteq {"driver"}
    /\ Has(prog, "off", "driver") \/ "driver" \notin stack

Library == Objects /\ Handles /\ Llcp /\ Released

-----------------------------------------------------------------------------
(* A call begins with what the last one left.                              *)

(* Between calls.                                                          *)
LEMMA IdleLibrary ==
  ASSUME Sound, Library, prog = <<>>
  PROVE  /\ lost = {}
         /\ Gone => osal = {} /\ ~hdl.jni /\ ~hdl.init
         /\ ~Gone => osal = OsalObjects /\ hdl.jni /\ hdl.init
         /\ call.name # "-" => hdl.handle
         /\ hdl.llcp => LlcpEnds \subseteq stack /\ call.name \in {"enable", "restart"}
         /\ call.name = "deinit" => stack = {}
<1>1. /\ \A op, x : ~Has(prog, op, x)
      /\ \A f, v : ~HasSet(prog, f, v)
      /\ hdl.jni = hdl.init
  BY NoneLeft
<1>2. osal \subseteq OsalObjects /\ hdl.jni \in BOOLEAN /\ hdl.llcp \in BOOLEAN
  BY DEF Sound, Types, HdlType
<1>3. lost = {} /\ (Gone => osal = {}) /\ (~Gone => osal = OsalObjects)
  BY <1>1, <1>2 DEF Library, Objects
<1>4. (Gone => ~hdl.jni) /\ (~Gone => hdl.jni) /\ (call.name # "-" => hdl.handle)
  BY <1>1, <1>2 DEF Library, Handles
<1>5. hdl.llcp => LlcpEnds \subseteq stack /\ call.name \in {"enable", "restart"}
  BY <1>1 DEF Library, Llcp
<1>6. call.name = "deinit" => stack = {}
  BY <1>1 DEF Library, Released
<1> QED
  BY <1>1, <1>3, <1>4, <1>5, <1>6

LEMMA InitLibrary == Init => Library
<1> SUFFICES ASSUME Init PROVE Library
  OBVIOUS
<1>1. Len(prog) = 0 /\ call.name = "-" /\ ~hdl.jni /\ ~hdl.llcp /\ osal = {} /\ lost = {}
  BY DEF Init
<1>2. (\A op, x : ~Has(prog, op, x)) /\ (\A f, v : ~HasSet(prog, f, v))
  BY <1>1 DEF Has, HasSet
<1>3. Served(prog, "mwq" \in osal)
  BY <1>1 DEF Served
<1>4. Objects
  BY <1>1, <1>2, <1>3 DEF Objects, Gone
<1>5. Handles /\ Llcp /\ Released
  BY <1>1, <1>2 DEF Handles, Llcp, Released, Gone
<1> QED
  BY <1>4, <1>5 DEF Library

LEMMA LlcpUpOf ==
  ASSUME NEW name, NEW P \in Seq(Allowed(name)), HasSet(P, "llcp", TRUE)
  PROVE  name = "enable"
<1> DEFINE S == Allowed(name)
<1>1. \A i \in 1..Len(P) : P[i] \in S
  <2> HIDE DEF S
  <2> QED
    BY DEF S
<1>2. PICK i \in 1..Len(P) : IsSet(P[i], "llcp") /\ P[i].to = TRUE
  BY DEF HasSet
<1>3. LlcpUp(P[i]) /\ P[i] \in S
  BY <1>1, <1>2 DEF LlcpUp
<1> QED
  BY <1>3 DEF Allowed

LEMMA CallsLibrary ==
  ASSUME Sound, Library,
         (\E p \in Params : RunButton(p)) \/ ThenEnable \/ StopButton \/ ExitButton \/ RestartByThread
  PROVE  Library'
<1>1. prog = <<>> /\ UNCHANGED <<osal, lost, stack, hdl>>
  BY DEF RunButton, ThenEnable, StopButton, ExitButton, RestartByThread, Call
<1>2. /\ lost = {}
      /\ Gone => osal = {} /\ ~hdl.jni /\ ~hdl.init
      /\ ~Gone => osal = OsalObjects /\ hdl.jni /\ hdl.init
      /\ call.name # "-" => hdl.handle
      /\ hdl.llcp => LlcpEnds \subseteq stack /\ call.name \in {"enable", "restart"}
      /\ call.name = "deinit" => stack = {}
  BY <1>1, IdleLibrary
<1>3. call.p \in Tests /\ hdl.prev \in Tests /\ "mwq" \in OsalObjects
  BY DEF Sound, Types, CallType, HdlType, OsalObjects
<1>4. ASSUME NEW p \in Params, RunButton(p) PROVE Library'
  <2> DEFINE P == JniInit \o <<Return>>
  <2>1. prog' = P /\ call'.name = "init" /\ call.name \in {"-", "disable", "deinit"} /\ ~hdl.llcp
    BY <1>2, <1>4 DEF RunButton, Call, Return, Sound, Asked, Types, HdlType
  <2>2. P \in Seq(Allowed("init"))
    <3>1. CASE hdl.jni
      BY <3>1, NothingSteps DEF JniInit, If
    <3>2. CASE ~hdl.jni
      BY <1>2, <3>2, InitSteps
    <3> QED
      BY <3>1, <3>2
  <2>3. ~HasSet(P, "llcp", TRUE)
    BY <2>2, LlcpUpOf
  <2>4. CASE hdl.jni
    <3>1. JniInit = <<>>
      BY <2>4 DEF JniInit, If
    <3>2. /\ Served(P, TRUE)
          /\ \A op, x : Has(P, op, x) => op = "return"
          /\ \A f, v : ~HasSet(P, f, v)
      BY <3>1, NothingSteps
    <3>3. ~Gone /\ osal = OsalObjects /\ hdl.handle
      BY <1>2, <2>4 DEF Gone
    <3> HIDE DEF P
    <3>4. Objects'
      BY <1>1, <1>2, <1>3, <2>1, <3>2, <3>3 DEF Objects, Gone
    <3>5. Handles' /\ Llcp' /\ Released'
      BY <1>1, <2>1, <2>4, <3>2, <3>3 DEF Handles, Llcp, Released, Gone
    <3> QED
      BY <3>4, <3>5 DEF Library
  <2>5. CASE ~hdl.jni
    <3>1. /\ Served(P, FALSE)
          /\ \A x : Has(P, "create", x) <=> x \in OsalObjects
          /\ \A x : ~Has(P, "delete", x)
          /\ HasSet(P, "handle", TRUE) /\ HasSet(P, "init", TRUE) /\ HasSet(P, "jni", TRUE)
      BY <1>2, <2>5, InitSteps
    <3>2. osal = {} /\ Gone
      BY <1>2, <2>5
    <3> HIDE DEF P
    <3>3. Objects'
      <4>1. Served(P, "mwq" \in osal)
        <5>1. ("mwq" \in osal) = FALSE
          BY <3>2
        <5> QED
          BY <3>1, <5>1
      <4> QED
        BY <1>1, <1>2, <2>1, <3>1, <3>2, <4>1 DEF Objects, Gone
    <3>4. Handles' /\ Llcp' /\ Released'
      BY <1>1, <2>1, <2>3, <2>5, <3>1 DEF Handles, Llcp, Released, Gone
    <3> QED
      BY <3>3, <3>4 DEF Library
  <2> QED
    BY <2>4, <2>5
<1>5. ASSUME NEW name \in {"enable", "disable", "restart"}, NEW P, P \in Seq(Allowed(name)), Served(P, TRUE),
             prog' = P, call'.name = name, ~Gone,
             \A x : (Has(P, "delete", x) <=> Has(P, "create", x)) /\ (Has(P, "delete", x) => x \in OsalObjects),
             HasSet(P, "llcp", TRUE) => \A e \in LlcpEnds : Has(P, "on", e),
             hdl.llcp => \/ name = "disable" /\ HasSet(P, "llcp", FALSE)
                         \/ name = "restart" /\ ~Has(P, "off", "up")
      PROVE  Library'
  <2>1. osal = OsalObjects /\ hdl.jni /\ hdl.handle /\ (hdl.llcp => LlcpEnds \subseteq stack)
    BY <1>2, <1>5 DEF Gone
  <2>2. Objects'
    BY <1>1, <1>2, <1>3, <1>5, <2>1 DEF Objects, Gone
  <2>3. Handles'
    BY <1>1, <1>5, <2>1 DEF Handles, Gone
  <2>4. Llcp'
    BY <1>1, <1>5, <2>1 DEF Llcp
  <2>5. Released'
    BY <1>5 DEF Released
  <2> QED
    BY <2>2, <2>3, <2>4, <2>5 DEF Library
<1>6. ASSUME ThenEnable PROVE Library'
  <2> DEFINE P == EnableDiscovery(call.p) \o <<Return>>
  <2>1. prog' = P /\ call'.name = "enable" /\ call.name = "init"
    BY <1>6 DEF ThenEnable, Call, Return, Sound, Asked
  <2>2. ~Gone /\ ~hdl.llcp
    BY <1>2, <2>1 DEF Gone, Sound, Types, HdlType
  <2>3. /\ P \in Seq(Allowed("enable")) /\ Served(P, TRUE)
        /\ \A x : (Has(P, "delete", x) <=> Has(P, "create", x)) /\ (Has(P, "delete", x) => x \in OsalObjects)
        /\ HasSet(P, "llcp", TRUE) => \A e \in LlcpEnds : Has(P, "on", e)
    BY <1>3, EnableSteps
  <2> HIDE DEF P
  <2> QED
    BY <1>5, <2>1, <2>2, <2>3
<1>7. ASSUME StopButton PROVE Library'
  <2> DEFINE P == DisableDiscovery \o <<Return>>
  <2>1. prog' = P /\ call'.name = "disable" /\ call.name \in {"enable", "restart"}
    BY <1>7 DEF StopButton, Call, Return, Sound, Asked
  <2>2. ~Gone
    BY <2>1 DEF Gone
  <2>3. /\ P \in Seq(Allowed("disable")) /\ Served(P, TRUE)
        /\ \A x : (Has(P, "delete", x) <=> Has(P, "create", x)) /\ (Has(P, "delete", x) => x \in OsalObjects)
        /\ hdl.llcp => HasSet(P, "llcp", FALSE)
    BY DisableSteps
  <2>4. ~HasSet(P, "llcp", TRUE)
    BY <2>3, LlcpUpOf
  <2> HIDE DEF P
  <2>5. hdl.llcp => "disable" = "disable" /\ HasSet(P, "llcp", FALSE)
    BY <2>3
  <2> QED
    BY <1>5, <2>1, <2>2, <2>3, <2>4, <2>5
<1>8. ASSUME ExitButton PROVE Library'
  <2> DEFINE P == JniDeInit \o <<Return>>
  <2>1. prog' = P /\ call'.name = "deinit" /\ hdl.jni
    BY <1>8 DEF ExitButton, Call, Return
  <2>2. ~Gone /\ osal = OsalObjects /\ hdl.init /\ hdl.handle
    BY <1>2, <2>1 DEF Gone
  <2>3. /\ P \in Seq(Allowed("deinit")) /\ Served(P, TRUE) /\ Down(P)
        /\ HasSet(P, "init", FALSE) /\ HasSet(P, "llcp", FALSE) /\ HasSet(P, "jni", FALSE)
    BY <2>1, <2>2, DeInitSteps
  <2>4. ~HasSet(P, "llcp", TRUE)
    BY <2>3, LlcpUpOf
  <2> HIDE DEF P
  <2>5. Objects'
    BY <1>1, <1>2, <1>3, <2>1, <2>2, <2>3 DEF Objects, Gone, Down
  <2>6. Handles' /\ Llcp' /\ Released'
    BY <1>1, <2>1, <2>2, <2>3, <2>4 DEF Handles, Llcp, Released, Gone, Down
  <2> QED
    BY <2>5, <2>6 DEF Library
<1>9. ASSUME RestartByThread PROVE Library'
  <2> DEFINE P == Restart \o <<Return>>
  <2>1. prog' = P /\ call'.name = "restart" /\ call.name \in {"enable", "restart"}
    BY <1>9 DEF RestartByThread, Call, Return, Sound, Asked
  <2>2. ~Gone
    BY <2>1 DEF Gone
  <2>3. /\ P \in Seq(Allowed("restart")) /\ Served(P, TRUE)
        /\ \A x : ~Has(P, "delete", x) /\ ~Has(P, "create", x)
        /\ ~Has(P, "off", "up")
    BY <1>3, RestartSteps
  <2>4. ~HasSet(P, "llcp", TRUE)
    BY <2>3, LlcpUpOf
  <2> HIDE DEF P
  <2> QED
    BY <1>5, <2>1, <2>2, <2>3, <2>4
<1> QED
  BY <1>4, <1>6, <1>7, <1>8, <1>9

LEMMA SessionLibrary ==
  ASSUME Sound, Library, SessionEnds
  PROVE  Library'
<1>1. /\ prog' = prog /\ call' = call /\ osal' = osal /\ lost' = lost
      /\ stack' = stack \ {"disc"} /\ hdl' = [hdl EXCEPT !.idle = TRUE] /\ hdl \in HdlType
  BY DEF SessionEnds, Sound, Types
<1>2. hdl'.jni = hdl.jni /\ hdl'.llcp = hdl.llcp /\ hdl'.handle = hdl.handle
  BY <1>1 DEF HdlType
<1>3. Objects' /\ Handles' /\ Released'
  BY <1>1, <1>2 DEF Library, Objects, Handles, Released, Gone
<1>4. Llcp'
  <2>1. LlcpEnds \subseteq stack => LlcpEnds \subseteq stack'
    BY <1>1 DEF LlcpEnds
  <2>2. \A e \in LlcpEnds : e \in stack => e \in stack'
    BY <1>1 DEF LlcpEnds
  <2> QED
    BY <1>1, <1>2, <2>1, <2>2 DEF Library, Llcp
<1> QED
  BY <1>3, <1>4 DEF Library

-----------------------------------------------------------------------------
(* A step keeps account of what exists.                                    *)

(* No step of a call uses what does not exist.                             *)
LEMMA WellDefined ==
  ASSUME Sound, Library, prog # <<>>
  PROVE  ~Undefined(step)
<1>1. step = prog[1] /\ 1 \in 1..Len(prog) /\ Typed(step) /\ Len(prog) \in Nat
  BY HeadIs DEF Sound
<1>2. Waits(step) => "mwq" \in osal
  <2>1. Served(prog, "mwq" \in osal)
    BY DEF Library, Objects
  <2>2. \A k \in 1..Len(prog) : ~(k < 1)
    BY <1>1
  <2> QED
    BY <1>1, <2>1, <2>2 DEF Served
<1>3. step.op = "delete" => step.x \in osal
  <2> SUFFICES ASSUME step.op = "delete" PROVE step.x \in osal
    OBVIOUS
  <2>1. Has(prog, "delete", step.x) /\ step.x \in OsalObjects
    BY <1>1 DEF Has, Typed
  <2> QED
    BY <2>1 DEF Library, Objects
<1>4. call.name \in {"enable", "disable", "restart"} => hdl.handle
  BY DEF Library, Handles
<1> QED
  BY <1>2, <1>3, <1>4 DEF Undefined

LEMMA TakenRest ==
  ASSUME Sound, Taken
  PROVE  /\ step \in Steps /\ step = prog[1] /\ step \in Allowed(call.name) /\ Typed(step)
         /\ \A i \in 1..Len(prog') : Before(step, prog'[i]) /\ prog'[i] \in Allowed(call.name)
         /\ \A op, x : Has(prog', op, x) => Has(prog, op, x)
         /\ \A op, x : Has(prog, op, x) => Has(prog', op, x) \/ (step.op = op /\ step.x = x)
         /\ \A f, v : HasSet(prog', f, v) => HasSet(prog, f, v)
         /\ \A f, v : HasSet(prog, f, v) => HasSet(prog', f, v) \/ (IsSet(step, f) /\ step.to = v)
         /\ Has(prog, step.op, step.x)
         /\ \A f : IsSet(step, f) => HasSet(prog, f, step.to)
         /\ call'.name = call.name
<1>1. Steady /\ prog # <<>> /\ prog' = Tail(prog)
  BY DEF Sound, Taken
<1>2. step \in Steps /\ step = prog[1] /\ step \in Allowed(call.name) /\ Typed(step) /\ 1 \in 1..Len(prog)
  BY <1>1, HeadIs
<1>3. prog' \in Seq(Allowed(call.name)) /\ Rest(prog', prog, Allowed(call.name))
  BY <1>1, RestAfter
<1>4. \A i \in 1..Len(prog') : Before(step, prog'[i]) /\ prog'[i] \in Allowed(call.name)
  BY <1>1, <1>3, AfterHead
<1> DEFINE S == Allowed(call.name)
<1>5. prog \in Seq(S) /\ prog' \in Seq(S) /\ Rest(prog', prog, S) /\ \A i \in 1..Len(prog) : prog[i] \in S
  <2>1. prog \in Seq(S)
    BY <1>1 DEF Steady
  <2> HIDE DEF S
  <2> QED
    BY <1>3, <2>1 DEF S
<1> HIDE DEF S
<1>6. /\ \A op, x : Has(prog', op, x) => Has(prog, op, x)
      /\ \A op, x : Has(prog, op, x) => Has(prog', op, x) \/ (step.op = op /\ step.x = x)
  BY <1>2, <1>5, RestHas
<1>7. /\ \A f, v : HasSet(prog', f, v) => HasSet(prog, f, v)
      /\ \A f, v : HasSet(prog, f, v) => HasSet(prog', f, v) \/ (IsSet(step, f) /\ step.to = v)
  BY <1>2, <1>5, RestHasSet
<1>8. Has(prog, step.op, step.x) /\ \A f : IsSet(step, f) => HasSet(prog, f, step.to)
  BY <1>2 DEF Has, HasSet
<1>9. call'.name = call.name
  BY DEF Taken, Sound, Types, CallType
<1> QED
  BY <1>2, <1>4, <1>6, <1>7, <1>8, <1>9

LEMMA TakenServed ==
  ASSUME Sound, Taken, Library
  PROVE  Served(prog', "mwq" \in osal')
<1> DEFINE S == Allowed(call.name)
           before == "mwq" \in osal
           now == "mwq" \in osal'
<1>1. Steady /\ prog # <<>> /\ prog' = Tail(prog) /\ Effect(step) /\ step = prog[1]
  BY TakenRest DEF Sound, Taken
<1>2. prog \in Seq(S) /\ prog' \in Seq(S) /\ Rest(prog', prog, S)
  BY <1>1, RestAfter DEF Steady
<1>3. Served(prog, before)
  BY DEF Library, Objects
<1>4. osal' = OsalAfter(step)
  BY <1>1 DEF Effect
<1>5. prog[1].op = "create" /\ prog[1].x = "mwq" =>
        now /\ \A i \in 1..Len(prog) : ~(prog[i].op = "delete" /\ prog[i].x = "mwq")
  <2> SUFFICES ASSUME prog[1].op = "create" /\ prog[1].x = "mwq"
               PROVE  now /\ \A i \in 1..Len(prog) : ~(prog[i].op = "delete" /\ prog[i].x = "mwq")
    OBVIOUS
  <2>1. now
    BY <1>1, <1>4 DEF OsalAfter
  <2>2. \A i \in 1..Len(prog) : i > 1 => Before(prog[1], prog[i])
    <3>1. 1 \in 1..Len(prog)
      BY <1>1, HeadIs
    <3> QED
      BY <1>1, <3>1 DEF Steady, InOrder
  <2>3. \A i \in 1..Len(prog) : i > 1 \/ i = 1
    BY <1>1, HeadIs
  <2> QED
    BY <2>1, <2>2, <2>3 DEF Before
<1>6. ~(prog[1].op \in {"create", "delete"} /\ prog[1].x = "mwq") => (before => now)
  BY <1>1, <1>4 DEF OsalAfter
<1>7. \A i \in 1..Len(prog) : prog[i].op = "create" => prog[i] \in S
  <2>1. prog \in Seq(S)
    BY <1>2
  <2> HIDE DEF S
  <2> QED
    BY <2>1
<1> HIDE DEF S, before, now
<1>8. Served(prog', now)
  BY <1>1, <1>2, <1>3, <1>5, <1>6, <1>7, RestServed
<1> QED
  BY <1>8 DEF now

LEMMA TakenObjects ==
  ASSUME Sound, Taken, Library
  PROVE  Objects'
<1>1. /\ step \in Steps /\ Typed(step)
      /\ \A i \in 1..Len(prog') : Before(step, prog'[i])
      /\ \A op, x : Has(prog', op, x) => Has(prog, op, x)
      /\ \A op, x : Has(prog, op, x) => Has(prog', op, x) \/ (step.op = op /\ step.x = x)
      /\ Has(prog, step.op, step.x)
      /\ call'.name = call.name
  BY TakenRest
<1>2. Effect(step) /\ osal' = OsalAfter(step) /\ Gone' = Gone
  BY <1>1 DEF Taken, Effect, Gone
<1>3. Objects
  BY DEF Library
<1>4. \A x : step.op = "create" /\ step.x = x => ~Has(prog', "create", x) /\ ~Has(prog', "delete", x)
  BY <1>1 DEF Has, Before
<1>5. \A x : step.op = "delete" /\ step.x = x => ~Has(prog', "delete", x)
  BY <1>1 DEF Has, Before
<1>6. lost' = {}
  <2>1. step.op = "create" => step.x \notin osal
    <3> SUFFICES ASSUME step.op = "create" PROVE step.x \notin osal
      OBVIOUS
    <3>1. ~Has(prog, "delete", step.x)
      BY <1>1, <1>4
    <3>2. Has(prog, "create", step.x) /\ step.x \in OsalObjects
      BY <1>1 DEF Typed
    <3> QED
      BY <1>3, <3>1, <3>2 DEF Objects
  <2> QED
    BY <1>2, <1>3, <2>1 DEF Effect, Objects
<1>7. ASSUME NEW x \in OsalObjects
      PROVE  /\ Has(prog', "delete", x) => x \in osal' /\ (Gone \/ Has(prog', "create", x))
             /\ Has(prog', "create", x) => x \notin osal' \/ Has(prog', "delete", x)
             /\ Gone => ~Has(prog', "create", x) /\ (x \notin osal' \/ Has(prog', "delete", x))
             /\ ~Gone => x \in osal' \/ Has(prog', "create", x)
  <2>1. /\ Has(prog, "delete", x) => x \in osal /\ (Gone \/ Has(prog, "create", x))
        /\ Has(prog, "create", x) => x \notin osal \/ Has(prog, "delete", x)
        /\ Gone => ~Has(prog, "create", x) /\ (x \notin osal \/ Has(prog, "delete", x))
        /\ ~Gone => x \in osal \/ Has(prog, "create", x)
    BY <1>3 DEF Objects
  <2>2. CASE step.op = "create" /\ step.x = x
    <3>1. x \in osal' /\ ~Has(prog', "create", x) /\ ~Has(prog', "delete", x)
      BY <1>2, <1>4, <2>2 DEF OsalAfter
    <3>2. ~Gone
      BY <1>1, <2>1, <2>2
    <3> QED
      BY <3>1, <3>2
  <2>3. CASE step.op = "delete" /\ step.x = x
    <3>1. x \notin osal' /\ ~Has(prog', "delete", x)
      BY <1>2, <1>5, <2>3 DEF OsalAfter
    <3>2. Has(prog, "delete", x)
      BY <1>1, <2>3
    <3>3. ~Gone => Has(prog', "create", x)
      BY <1>1, <2>1, <2>3, <3>2
    <3> QED
      BY <1>1, <2>1, <3>1, <3>3
  <2>4. CASE ~(step.op \in {"create", "delete"} /\ step.x = x)
    <3>1. x \in osal' <=> x \in osal
      BY <1>2, <2>4 DEF OsalAfter
    <3>2. /\ Has(prog', "create", x) <=> Has(prog, "create", x)
          /\ Has(prog', "delete", x) <=> Has(prog, "delete", x)
      BY <1>1, <2>4
    <3> QED
      BY <2>1, <3>1, <3>2
  <2> QED
    BY <2>2, <2>3, <2>4
<1> QED
  BY <1>2, <1>6, <1>7, TakenServed DEF Objects

LEMMA TakenHandles ==
  ASSUME Sound, Taken, Library
  PROVE  Handles'
<1>1. /\ step \in Steps /\ step \in Allowed(call.name)
      /\ \A f, v : HasSet(prog, f, v) => HasSet(prog', f, v) \/ (IsSet(step, f) /\ step.to = v)
      /\ call'.name = call.name
  BY TakenRest
<1>2. hdl \in HdlType /\ hdl' \in HdlAfter(step)
  BY DEF Taken, Effect, Sound, Types
<1>3. /\ hdl'.jni = (IF IsSet(step, "jni") THEN step.to ELSE hdl.jni)
      /\ hdl'.handle = (IF IsSet(step, "handle") THEN step.to ELSE hdl.handle)
  BY <1>1, <1>2, HdlEffect
<1>4. Handles
  BY DEF Library
<1>5. IsSet(step, "jni") => (call.name = "init" /\ step.to = TRUE) \/ (call.name = "deinit" /\ step.to = FALSE)
  BY <1>1 DEF Allowed, FlagSet
<1>6. IsSet(step, "handle") => step.to = TRUE
  BY <1>1 DEF Steps
<1>7. ASSUME Gone, hdl'.jni PROVE HasSet(prog', "jni", FALSE)
  <2>1. ~IsSet(step, "jni")
    BY <1>3, <1>5, <1>7 DEF Gone
  <2>2. hdl.jni
    BY <1>3, <1>7, <2>1
  <2> QED
    BY <1>1, <1>4, <1>7, <2>1, <2>2 DEF Handles
<1>8. ASSUME ~Gone, ~hdl'.jni PROVE HasSet(prog', "jni", TRUE)
  <2>1. ~IsSet(step, "jni")
    BY <1>3, <1>5, <1>8 DEF Gone
  <2>2. ~hdl.jni
    BY <1>3, <1>8, <2>1
  <2> QED
    BY <1>1, <1>4, <1>8, <2>1, <2>2 DEF Handles
<1>9. ASSUME call.name # "-" PROVE hdl'.handle \/ (call.name = "init" /\ HasSet(prog', "handle", TRUE))
  <2>1. CASE IsSet(step, "handle")
    BY <1>3, <1>6, <2>1
  <2>2. CASE ~IsSet(step, "handle")
    BY <1>1, <1>3, <1>4, <1>9, <2>2 DEF Handles
  <2> QED
    BY <2>1, <2>2
<1> QED
  BY <1>1, <1>7, <1>8, <1>9 DEF Handles, Gone

(* A step but the one that takes the stack down leaves the LLCP's servers. *)
LEMMA ServersStay ==
  ASSUME Sound, NEW s \in Steps, Effect(s)
  PROVE  /\ ~(s.op = "off" /\ s.x = "up") => stack \cap LlcpEnds \subseteq stack'
         /\ LlcpOn(s) => s.x \in stack'
<1>1. Typed(s) /\ hdl.aidHandle \in {"-", "aid", "felica"}
  BY DEF Steps, Sound, Types, HdlType
<1>2. stack' = StackAfter(s)
  BY DEF Effect
<1>3. s.op = "off" => s.x \notin LlcpEnds
  BY <1>1 DEF Typed, Registrations, LlcpEnds
<1>4. hdl.aidHandle \notin LlcpEnds /\ "felica" \notin LlcpEnds /\ "disc" \notin LlcpEnds
  BY <1>1 DEF LlcpEnds
<1>5. LlcpOn(s) => s.x \in stack'
  BY <1>2 DEF StackAfter, LlcpOn
<1>6. ~(s.op = "off" /\ s.x = "up") => stack \cap LlcpEnds \subseteq stack'
  <2>1. CASE s.op = "on"
    BY <1>2, <2>1 DEF StackAfter
  <2>2. CASE s.op = "off" /\ s.x \notin {"up", "aid"}
    <3>1. stack' = stack \/ stack' = stack \ {s.x}
      BY <1>2, <2>2 DEF StackAfter
    <3> QED
      BY <1>3, <2>2, <3>1
  <2>3. CASE s.op = "off" /\ s.x = "aid"
    <3>1. stack' = stack \ {hdl.aidHandle}
      BY <1>2, <2>3 DEF StackAfter
    <3> QED
      BY <1>4, <3>1
  <2>4. CASE s.op \notin {"on", "off"}
    BY <1>2, <2>4 DEF StackAfter
  <2> QED
    BY <2>1, <2>2, <2>3, <2>4
<1> QED
  BY <1>5, <1>6

LEMMA TakenLlcp ==
  ASSUME Sound, Taken, Library
  PROVE  Llcp'
<1>1. /\ step \in Steps /\ step \in Allowed(call.name) /\ Typed(step)
      /\ \A i \in 1..Len(prog') : Before(step, prog'[i])
      /\ \A op, x : Has(prog', op, x) => Has(prog, op, x)
      /\ \A op, x : Has(prog, op, x) => Has(prog', op, x) \/ (step.op = op /\ step.x = x)
      /\ \A f, v : HasSet(prog', f, v) => HasSet(prog, f, v)
      /\ \A f, v : HasSet(prog, f, v) => HasSet(prog', f, v) \/ (IsSet(step, f) /\ step.to = v)
      /\ Has(prog, step.op, step.x)
      /\ \A f : IsSet(step, f) => HasSet(prog, f, step.to)
      /\ call'.name = call.name
  BY TakenRest
<1>2. hdl \in HdlType /\ hdl' \in HdlAfter(step) /\ Effect(step) /\ hdl.llcp \in BOOLEAN
  BY DEF Taken, Effect, Sound, Types, HdlType
<1>3. hdl'.llcp = (IF IsSet(step, "llcp") THEN step.to ELSE hdl.llcp)
  BY <1>1, <1>2, HdlEffect
<1>4. /\ ~(step.op = "off" /\ step.x = "up") => stack \cap LlcpEnds \subseteq stack'
      /\ LlcpOn(step) => step.x \in stack'
  BY <1>1, <1>2, ServersStay
<1>5. Llcp
  BY DEF Library
<1>6. IsSet(step, "llcp") => step.to \in BOOLEAN
  BY <1>1 DEF IsSet, Typed, Flags
<1>7. LlcpUp(step) => ~Has(prog', "off", "up") /\ \A e \in LlcpEnds : ~Has(prog', "on", e)
  BY <1>1 DEF Has, Before, LlcpOn
<1>8. \A e \in LlcpEnds : step.op = "on" /\ step.x = e => ~Has(prog', "off", "up")
  BY <1>1 DEF Has, Before, LlcpOn
<1>9. ASSUME LlcpUp(step)
      PROVE  LlcpEnds \subseteq stack' /\ ~Has(prog', "off", "up") /\ call'.name = "enable"
  <2>1. HasSet(prog, "llcp", TRUE) /\ step.op = "set"
    BY <1>1, <1>9 DEF LlcpUp, IsSet
  <2>2. \A e \in LlcpEnds : ~Has(prog, "on", e)
    BY <1>1, <1>7, <1>9, <2>1
  <2>3. LlcpEnds \subseteq stack
    BY <1>5, <2>1, <2>2 DEF Llcp
  <2> QED
    BY <1>1, <1>4, <1>7, <1>9, <2>1, <2>3 DEF Allowed
<1>10. ASSUME hdl'.llcp
       PROVE  /\ LlcpEnds \subseteq stack' \/ HasSet(prog', "llcp", FALSE)
              /\ Has(prog', "off", "up") => HasSet(prog', "llcp", FALSE)
              /\ call'.name \in {"enable", "restart"} \/ HasSet(prog', "llcp", FALSE)
  <2>1. CASE IsSet(step, "llcp")
    <3>1. LlcpUp(step)
      BY <1>3, <1>6, <1>10, <2>1 DEF LlcpUp
    <3> QED
      BY <1>9, <3>1
  <2>2. CASE ~IsSet(step, "llcp")
    <3>1. hdl.llcp
      BY <1>3, <1>10, <2>2
    <3>2. HasSet(prog, "llcp", FALSE) => HasSet(prog', "llcp", FALSE)
      BY <1>1, <2>2
    <3>3. /\ LlcpEnds \subseteq stack \/ HasSet(prog, "llcp", FALSE)
          /\ Has(prog, "off", "up") => HasSet(prog, "llcp", FALSE)
          /\ call.name \in {"enable", "restart"} \/ HasSet(prog, "llcp", FALSE)
      BY <1>5, <3>1 DEF Llcp
    <3>4. LlcpEnds \subseteq stack' \/ HasSet(prog', "llcp", FALSE)
      <4>1. CASE step.op = "off" /\ step.x = "up"
        BY <1>1, <3>2, <3>3, <4>1
      <4>2. CASE ~(step.op = "off" /\ step.x = "up")
        BY <1>4, <3>2, <3>3, <4>2
      <4> QED
        BY <4>1, <4>2
    <3> QED
      BY <1>1, <3>2, <3>3, <3>4
  <2> QED
    BY <2>1, <2>2
<1>11. ASSUME HasSet(prog', "llcp", TRUE), NEW e \in LlcpEnds
       PROVE  Has(prog', "on", e) \/ (e \in stack' /\ ~Has(prog', "off", "up"))
  <2>1. Has(prog, "on", e) \/ (e \in stack /\ ~Has(prog, "off", "up"))
    BY <1>1, <1>5, <1>11 DEF Llcp
  <2>2. CASE step.op = "on" /\ step.x = e
    <3>1. LlcpOn(step)
      BY <2>2 DEF LlcpOn
    <3> QED
      BY <1>4, <1>8, <2>2, <3>1
  <2>3. CASE ~(step.op = "on" /\ step.x = e)
    <3>1. CASE Has(prog, "on", e)
      BY <1>1, <2>3, <3>1
    <3>2. CASE e \in stack /\ ~Has(prog, "off", "up")
      <4>1. ~(step.op = "off" /\ step.x = "up")
        BY <1>1, <3>2
      <4> QED
        BY <1>1, <1>4, <3>2, <4>1
    <3> QED
      BY <2>1, <3>1, <3>2
  <2> QED
    BY <2>2, <2>3
<1> QED
  BY <1>10, <1>11 DEF Llcp

LEMMA TakenReleased ==
  ASSUME Sound, Taken, Library
  PROVE  Released'
<1>1. /\ \A op, x : Has(prog', op, x) => Has(prog, op, x)
      /\ \A op, x : Has(prog, op, x) => Has(prog', op, x) \/ (step.op = op /\ step.x = x)
      /\ Has(prog, step.op, step.x)
      /\ call'.name = call.name
  BY TakenRest
<1> SUFFICES ASSUME call.name = "deinit"
             PROVE  /\ NoOn(prog')
                    /\ Has(prog', "off", "up") \/ stack' \subseteq {"driver"}
                    /\ Has(prog', "off", "driver") \/ "driver" \notin stack'
  BY <1>1 DEF Released
<1>2. /\ NoOn(prog)
      /\ Has(prog, "off", "up") \/ stack \subseteq {"driver"}
      /\ Has(prog, "off", "driver") \/ "driver" \notin stack
  BY DEF Library, Released
<1>3. step.op # "on"
  BY <1>1, <1>2 DEF NoOn
<1>4. stack' = StackAfter(step)
  BY DEF Taken, Effect
<1>5. stack' \subseteq stack
  BY <1>3, <1>4 DEF StackAfter
<1>6. step.op = "off" /\ step.x = "up" => stack' \subseteq {"driver"}
  BY <1>4 DEF StackAfter
<1>7. step.op = "off" /\ step.x = "driver" => "driver" \notin stack'
  BY <1>4 DEF StackAfter
<1>8. NoOn(prog')
  BY <1>1, <1>2 DEF NoOn
<1> QED
  BY <1>1, <1>2, <1>5, <1>6, <1>7, <1>8

-----------------------------------------------------------------------------
(* A step that fails without breaking the library.                         *)

LEMMA LapsedVital ==
  ASSUME Sound, NEW w, Lapsed(w), Library, ~OfInit(step)
  PROVE  /\ step \in Steps /\ step.op \notin {"set", "return", "create", "delete"} /\ ~Undefined(step)
         /\ \A op, x : /\ Has(prog, op, x)
                       /\ op \in {"create", "delete"} \/ (op \in {"on", "off"} /\ x \in Base)
                       => Has(prog', op, x)
         /\ \A f, v : /\ HasSet(prog, f, v)
                      /\ f \in {"jni", "init", "handle"} \/ (f = "llcp" /\ v = FALSE)
                      => HasSet(prog', f, v)
         /\ Served(prog', "mwq" \in osal)
<1>1. prog # <<>> /\ Steady
  BY DEF Lapsed, Sound
<1>2. step = prog[1] /\ step \in Steps /\ 1 \in 1..Len(prog) /\ Len(prog) \in Nat
  BY <1>1, HeadIs
<1>3. ~Undefined(step)
  BY <1>1, WellDefined
<1>4. step.op \notin {"set", "return", "create", "delete"}
  BY <1>3 DEF Lapsed, OfInit
<1> DEFINE S == Allowed(call.name)
           K == KeptBy(S, w)
           e == "mwq" \in osal
<1>5. prog \in Seq(S) /\ prog' \in Seq(S) /\ Rest(prog', prog, K) /\ \A i \in 1..Len(prog) : prog[i] \in S
  <2>1. prog \in Seq(S) /\ prog' \in Seq(S) /\ Rest(prog', prog, K)
    BY <1>1, LapsedProg DEF Steady
  <2> HIDE DEF S, K
  <2> QED
    BY <2>1
<1>6. ASSUME NEW i \in 1..Len(prog), Vital(prog[i]) PROVE prog[i] \in K
  <2>1. i # 1
    BY <1>2, <1>4, <1>6 DEF Vital, FlagSet, IsSet
  <2>2. 1 < i
    BY <1>2, <2>1
  <2>3. Before(step, prog[i])
    BY <1>1, <1>2, <2>2 DEF Steady, InOrder
  <2>4. w \cap Minor # {}
    BY <1>4, <1>6, <2>3 DEF Before, Mild, Lapsed
  <2>5. prog[i] \in S /\ prog[i].within \cap Minor = {}
    BY <1>5, <1>6 DEF Allowed, Steps
  <2> QED
    BY <2>4, <2>5 DEF KeptBy
<1>7. Served(prog, e)
  BY DEF Library, Objects
<1>8. \A i \in 1..Len(prog) : prog[i].op = "create" => prog[i] \in K
  BY <1>6 DEF Vital, OfInit
<1>9. ASSUME NEW op, NEW x, Has(prog, op, x),
             op \in {"create", "delete"} \/ (op \in {"on", "off"} /\ x \in Base)
      PROVE  Has(prog', op, x)
  <2>1. \A s : s.op = op /\ s.x = x => OfInit(s)
    BY <1>9 DEF OfInit
  <2>2. ~(prog[1].op = op /\ prog[1].x = x)
    BY <1>2, <2>1
  <2>3. \A i \in 1..Len(prog) : prog[i].op = op /\ prog[i].x = x => prog[i] \in K
    BY <1>6, <2>1 DEF Vital
  <2> HIDE DEF S, K
  <2> QED
    BY <1>5, <1>9, <2>2, <2>3, RestHas
<1>10. ASSUME NEW f, NEW v, HasSet(prog, f, v),
              f \in {"jni", "init", "handle"} \/ (f = "llcp" /\ v = FALSE)
       PROVE  HasSet(prog', f, v)
  <2>1. ~(IsSet(prog[1], f) /\ prog[1].to = v)
    BY <1>2, <1>4 DEF IsSet
  <2>2. \A i \in 1..Len(prog) : IsSet(prog[i], f) /\ prog[i].to = v => prog[i] \in K
    BY <1>6, <1>10 DEF Vital, FlagSet
  <2> HIDE DEF S, K
  <2> QED
    BY <1>5, <1>10, <2>1, <2>2, RestHasSet
<1>11. Served(prog', e)
  <2>1. ~(prog[1].op \in {"create", "delete"})
    BY <1>2, <1>4
  <2>2. \A i \in 1..Len(prog) : prog[i].op = "create" => prog[i] \in K
    BY <1>8
  <2> HIDE DEF S, K, e
  <2> QED
    BY <1>1, <1>5, <1>7, <2>1, <2>2, RestServed
<1> QED
  BY <1>2, <1>3, <1>4, <1>9, <1>10, <1>11

LEMMA LapsedLibrary ==
  ASSUME Sound, NEW w, Lapsed(w), Library, ~OfInit(step)
  PROVE  Library'
<1>1. /\ step \in Steps /\ step.op \notin {"set", "return", "create", "delete"} /\ ~Undefined(step)
      /\ \A op, x : /\ Has(prog, op, x)
                    /\ op \in {"create", "delete"} \/ (op \in {"on", "off"} /\ x \in Base)
                    => Has(prog', op, x)
      /\ \A f, v : /\ HasSet(prog, f, v)
                   /\ f \in {"jni", "init", "handle"} \/ (f = "llcp" /\ v = FALSE)
                   => HasSet(prog', f, v)
      /\ Served(prog', "mwq" \in osal)
  BY LapsedVital
<1>2. /\ \A op, x : Has(prog', op, x) => Has(prog, op, x)
      /\ \A f, v : HasSet(prog', f, v) => HasSet(prog, f, v)
      /\ w = {} => prog' = <<>>
  BY LapsedProg
<1>3. hdl'.jni = hdl.jni /\ hdl'.llcp = hdl.llcp /\ hdl'.handle = hdl.handle
  BY LapsedHdl
<1>4. call'.name = call.name /\ prog # <<>>
  BY DEF Lapsed
<1>5. osal' = osal /\ lost' = lost
  BY <1>1 DEF Lapsed, NoEffect, Effect, OsalAfter
<1>6. ~(step.op = "off" /\ step.x = "up")
  BY DEF OfInit, Base
<1>7. stack \cap LlcpEnds \subseteq stack'
  <2>1. CASE NoEffect
    BY <2>1 DEF NoEffect
  <2>2. CASE Effect(step)
    BY <1>1, <1>6, <2>2, ServersStay
  <2> QED
    BY <2>1, <2>2 DEF Lapsed
<1>8. Objects'
  <2>1. \A x : Has(prog', "create", x) <=> Has(prog, "create", x)
    BY <1>1, <1>2
  <2>2. \A x : Has(prog', "delete", x) <=> Has(prog, "delete", x)
    BY <1>1, <1>2
  <2> QED
    BY <1>1, <1>4, <1>5, <2>1, <2>2 DEF Library, Objects, Gone
<1>9. Handles'
  <2>1. \A v : HasSet(prog', "jni", v) <=> HasSet(prog, "jni", v)
    BY <1>1, <1>2
  <2>2. HasSet(prog', "handle", TRUE) <=> HasSet(prog, "handle", TRUE)
    BY <1>1, <1>2
  <2> QED
    BY <1>3, <1>4, <2>1, <2>2 DEF Library, Handles, Gone
<1>10. Llcp'
  <2>1. HasSet(prog', "llcp", FALSE) <=> HasSet(prog, "llcp", FALSE)
    BY <1>1, <1>2
  <2>2. Has(prog', "off", "up") <=> Has(prog, "off", "up")
    BY <1>1, <1>2 DEF Base
  <2>3. ASSUME HasSet(prog', "llcp", TRUE), NEW e \in LlcpEnds, Has(prog, "on", e) PROVE Has(prog', "on", e)
    <3>1. prog' # <<>>
      BY <2>3 DEF HasSet
    <3>2. w # {} /\ w = step.within
      BY <1>2, <3>1 DEF Lapsed
    <3> DEFINE S == Allowed(call.name)
               K == KeptBy(S, w)
    <3>3. prog \in Seq(S) /\ prog' \in Seq(S) /\ Rest(prog', prog, K)
      BY LapsedProg DEF Sound, Steady
    <3>4. \A i \in 1..Len(prog) : prog[i] \in S
      <4> HIDE DEF S, K
      <4> QED
        BY <3>3
    <3>5. \A i \in 1..Len(prog) : prog[i].op = "on" /\ prog[i].x = e => prog[i] \in K
      <4>1. \A s \in S : s.op = "on" /\ s.x = e => s.within = {}
        BY DEF Allowed, Steps, LlcpOn
      <4>2. \A s \in S : s.within = {} => s \in K
        BY <3>2 DEF KeptBy
      <4> QED
        BY <3>4, <4>1, <4>2
    <3>6. ~(step.op = "on" /\ step.x = e)
      BY <1>1, <3>2 DEF Steps, LlcpOn
    <3>7. step = prog[1]
      BY <1>4, HeadIs DEF Sound
    <3> HIDE DEF S, K
    <3> QED
      BY <2>3, <3>3, <3>5, <3>6, <3>7, RestHas
  <2>4. Llcp
    BY DEF Library
  <2>5. ASSUME HasSet(prog', "llcp", TRUE), NEW e \in LlcpEnds
        PROVE  Has(prog', "on", e) \/ (e \in stack' /\ ~Has(prog', "off", "up"))
    <3>1. HasSet(prog, "llcp", TRUE)
      BY <1>2, <2>5
    <3>2. Has(prog, "on", e) \/ (e \in stack /\ ~Has(prog, "off", "up"))
      BY <2>4, <3>1 DEF Llcp
    <3> QED
      BY <1>7, <2>2, <2>3, <2>5, <3>2
  <2>6. hdl'.llcp => /\ LlcpEnds \subseteq stack' \/ HasSet(prog', "llcp", FALSE)
                     /\ Has(prog', "off", "up") => HasSet(prog', "llcp", FALSE)
                     /\ call'.name \in {"enable", "restart"} \/ HasSet(prog', "llcp", FALSE)
    BY <1>3, <1>4, <1>7, <2>1, <2>2, <2>4 DEF Llcp
  <2> QED
    BY <2>5, <2>6 DEF Llcp
<1>11. Released'
  <2> SUFFICES ASSUME call.name = "deinit"
               PROVE  /\ NoOn(prog')
                      /\ Has(prog', "off", "up") \/ stack' \subseteq {"driver"}
                      /\ Has(prog', "off", "driver") \/ "driver" \notin stack'
    BY <1>4 DEF Released
  <2>1. /\ NoOn(prog)
        /\ Has(prog, "off", "up") \/ stack \subseteq {"driver"}
        /\ Has(prog, "off", "driver") \/ "driver" \notin stack
    BY DEF Library, Released
  <2>2. step.op # "on"
    <3>1. Has(prog, step.op, step.x)
      BY <1>4, HeadIs DEF Has, Sound
    <3> QED
      BY <2>1, <3>1 DEF NoOn
  <2>3. stack' \subseteq stack
    BY <2>2 DEF Lapsed, NoEffect, Effect, StackAfter
  <2>4. Has(prog, "off", "up") => Has(prog', "off", "up")
    BY <1>1 DEF Base
  <2>5. Has(prog, "off", "driver") => Has(prog', "off", "driver")
    BY <1>1 DEF Base
  <2> QED
    BY <1>2, <2>1, <2>3, <2>4, <2>5 DEF NoOn
<1> QED
  BY <1>8, <1>9, <1>10, <1>11 DEF Library

LEMMA LibraryStep == Sound /\ (~broken => Library) /\ [Next]_vars => (~broken' => Library')
<1> SUFFICES ASSUME Sound, ~broken => Library, [Next]_vars, ~broken' PROVE Library'
  OBVIOUS
<1>1. CASE (\E p \in Params : RunButton(p)) \/ ThenEnable \/ StopButton \/ ExitButton \/ RestartByThread
  <2>1. broken' = broken
    BY <1>1 DEF RunButton, ThenEnable, StopButton, ExitButton, RestartByThread, Call
  <2> QED
    BY <1>1, <2>1, CallsLibrary
<1>2. CASE SessionEnds
  BY <1>2, SessionLibrary DEF SessionEnds
<1>3. CASE Done \/ Fault \/ HciRefused \/ Vain \/ Misuse
  <2>1. CASE Taken
    <3>1. Library
      BY <2>1 DEF Taken
    <3> QED
      BY <2>1, <3>1, TakenObjects, TakenHandles, TakenLlcp, TakenReleased DEF Library
  <2>2. ASSUME NEW w, Lapsed(w) PROVE Library'
    <3>1. ~broken /\ ~OfInit(step)
      BY <2>2 DEF Lapsed
    <3> QED
      BY <2>2, <3>1, LapsedLibrary
  <2>3. CASE Ended
    BY <2>3, WellDefined DEF Ended
  <2> QED
    BY <1>3, <2>1, <2>2, <2>3, StepKinds
<1>4. CASE UNCHANGED vars
  BY <1>4 DEF vars, Library, Objects, Handles, Llcp, Released, Gone
<1> QED
  BY <1>1, <1>2, <1>3, <1>4 DEF Next

LEMMA LibraryAlways == Spec => [](Sound /\ (~broken => Library))
<1>1. Init => Sound /\ (~broken => Library)
  BY InitSound, InitLibrary
<1>2. (Sound /\ (~broken => Library)) /\ [Next]_vars => (Sound /\ (~broken => Library))'
  BY SoundStep, LibraryStep
<1> QED
  BY <1>1, <1>2, PTL DEF Spec

(* No call creates a queue, semaphore or thread over one that exists: at   *)
(* most one DTA thread and one integration thread, unless a step of an     *)
(* initialisation or release failed.                                       *)
THEOREM LifecycleOneOfEach == Spec => []OneOfEach
<1>1. Sound /\ (~broken => Library) => OneOfEach
  BY DEF OneOfEach, Library, Objects
<1> QED
  BY <1>1, LibraryAlways, PTL

(* No call waits on a destroyed queue, deletes an object twice or follows  *)
(* the middleware handle before phMwIf_Init returned it.                   *)
THEOREM LifecycleNoUseAfterDestroy == Spec => []NoUseAfterDestroy
<1>1. Sound /\ (~broken => Library) => NoUseAfterDestroy
  BY WellDefined DEF NoUseAfterDestroy
<1> QED
  BY <1>1, LibraryAlways, PTL

(* The release by phDtaLib_DeInit leaves no object, and nothing in the     *)
(* stack.                                                                  *)
THEOREM LifecycleDeInitReleases == Spec => []DeInitReleases
<1>1. Sound /\ (~broken => Library) => DeInitReleases
  BY IdleLibrary DEF DeInitReleases, Idle, Gone
<1> QED
  BY <1>1, LibraryAlways, PTL

(* bLlcpInitialized tells what the stack has registered, and the JNI's     *)
(* state is dtaLib's bInitialized, although any step of a call may fail.   *)
THEOREM LifecycleFlagsTruthful == Spec => []FlagsTruthful
<1>1. Sound /\ (~broken => Library) => FlagsTruthful
  BY IdleLibrary, NoneLeft DEF FlagsTruthful, Idle
<1> QED
  BY <1>1, LibraryAlways, PTL

=============================================================================
