-------------------------- MODULE OsalLinkListProofs --------------------------
(***************************************************************************)
(* Proofs about OsalLinkList, for any number of nodes and any objects, of  *)
(* a list whose callers insert at the tail after they removed there.       *)
(*                                                                         *)
(* A traversal is a recursive function; what it returns is found by        *)
(* looking at the least place where it would leave the list.               *)
(***************************************************************************)
EXTENDS OsalLinkList, SequenceTheorems, FiniteSetTheorems, WellFoundedInduction, TLAPS

LessNat == {ss \in Nat \X Nat : ss[1] < ss[2]}

LEMMA LessNatWellFounded == IsWellFoundedOn(LessNat, Nat)
BY NatLessThanWellFounded DEF OpToRel, LessNat

LEMMA Least ==
  ASSUME NEW T, T \subseteq Nat, T # {}
  PROVE  \E x \in T : \A y \in T : x <= y
<1>1. PICK x \in T : \A y \in T : ~(<<y, x>> \in LessNat)
  BY LessNatWellFounded, WFMin, Zenon
<1>2. \A y \in T : ~(y < x)
  BY <1>1 DEF LessNat
<1> QED
  BY <1>2

-----------------------------------------------------------------------------
(* Traversals.                                                             *)

(* w is what the local function of Walk(n) has to be.                      *)
WalkTo(w, k) ==
  IF ps_next[Last(w[k - 1])] = NULL THEN w[k - 1]
  ELSE Append(w[k - 1], ps_next[Last(w[k - 1])])
Walks(w, n) ==
  w = [k \in 0 .. Cardinality(Nodes) |-> IF k = 0 THEN <<n>> ELSE WalkTo(w, k)]

LEMMA WalkIs ==
  ASSUME NEW n
  PROVE  Walk(n) = (CHOOSE w : Walks(w, n))[Cardinality(Nodes)]
BY DEF Walk, Walks, WalkTo

(* p is linked from its first node to its last, whose ps_next is NULL.     *)
Path(p) ==
  /\ p \in Seq(Nodes) /\ p # <<>>
  /\ \A i, j \in 1..Len(p) : p[i] = p[j] => i = j
  /\ \A i \in 1..Len(p) : ps_next[p[i]] = IF i = Len(p) THEN NULL ELSE p[i + 1]

(* Nodes that differ are not more than there are.                          *)
LEMMA DistinctFit ==
  ASSUME NEW p \in Seq(Nodes), \A i, j \in 1..Len(p) : p[i] = p[j] => i = j
  PROVE  Len(p) \in Nat /\ Len(p) <= Cardinality(Nodes) /\ Cardinality(Nodes) \in Nat
<1>1. Len(p) \in Nat /\ p \in [1..Len(p) -> Nodes]
  OBVIOUS
<1>2. IsFiniteSet(Nodes) /\ Cardinality(Nodes) \in Nat
  BY ListAssumption, FS_CardinalityType DEF ListAssumption
<1>3. IsFiniteSet(1..Len(p)) /\ Cardinality(1..Len(p)) = Len(p)
  BY <1>1, FS_Interval
<1>4. ~(Cardinality(Nodes) < Cardinality(1..Len(p)))
  <2> SUFFICES ASSUME Cardinality(Nodes) < Cardinality(1..Len(p)) PROVE FALSE
    OBVIOUS
  <2>1. \E x, y \in 1..Len(p) : x # y /\ p[x] = p[y]
    BY <1>1, <1>2, <1>3, FS_PigeonHole, Zenon
  <2> QED
    BY <2>1
<1> QED
  BY <1>1, <1>2, <1>3, <1>4

LEMMA PathFits ==
  ASSUME NEW p, Path(p)
  PROVE  Len(p) \in Nat /\ 0 < Len(p) /\ Len(p) <= Cardinality(Nodes) /\ Cardinality(Nodes) \in Nat
<1>1. Len(p) \in Nat /\ Len(p) <= Cardinality(Nodes) /\ Cardinality(Nodes) \in Nat
  BY DistinctFit DEF Path
<1>2. Len(p) # 0
  BY EmptySeq DEF Path
<1> QED
  BY <1>1, <1>2

(* The first nodes of a path, as many as k steps reach.                    *)
Reached(p, k) == IF k < Len(p) THEN SubSeq(p, 1, k + 1) ELSE p

LEMMA ReachedNext ==
  ASSUME NEW p, Path(p), NEW k \in Nat, k > 0
  PROVE  Reached(p, k) = IF ps_next[Last(Reached(p, k - 1))] = NULL THEN Reached(p, k - 1)
                         ELSE Append(Reached(p, k - 1), ps_next[Last(Reached(p, k - 1))])
<1>1. p \in Seq(Nodes) /\ Len(p) \in Nat /\ 0 < Len(p)
  BY PathFits DEF Path
<1>2. CASE k < Len(p)
  <2>1. Reached(p, k - 1) = SubSeq(p, 1, k)
    BY <1>1, <1>2 DEF Reached
  <2>2. Last(SubSeq(p, 1, k)) = p[k]
    BY <1>1, <1>2 DEF Last
  <2>3. ps_next[p[k]] = p[k + 1] /\ p[k + 1] \in Nodes
    BY <1>1, <1>2 DEF Path
  <2>4. p[k + 1] # NULL
    BY <2>3, ListAssumption DEF ListAssumption
  <2>5. Append(SubSeq(p, 1, k), p[k + 1]) = SubSeq(p, 1, k + 1)
    BY <1>1, <1>2
  <2> QED
    BY <1>2, <2>1, <2>2, <2>3, <2>4, <2>5 DEF Reached
<1>3. CASE ~(k < Len(p))
  <2>1. Reached(p, k - 1) = p
    <3>1. CASE k = Len(p)
      BY <1>1, <3>1, SubSeqFull DEF Reached
    <3>2. CASE k # Len(p)
      BY <1>1, <1>3, <3>2 DEF Reached
    <3> QED
      BY <3>1, <3>2
  <2>2. ps_next[Last(p)] = NULL
    BY <1>1 DEF Path, Last
  <2> QED
    BY <1>3, <2>1, <2>2 DEF Reached
<1> QED
  BY <1>2, <1>3

(* A traversal from the head of a path returns the path.                   *)
LEMMA WalkPath ==
  ASSUME NEW p, Path(p)
  PROVE  Walk(p[1]) = p
<1> DEFINE N == Cardinality(Nodes)
           W == [k \in 0..N |-> Reached(p, k)]
<1>1. N \in Nat /\ p \in Seq(Nodes) /\ Len(p) \in Nat /\ 0 < Len(p) /\ Len(p) <= N
  BY PathFits DEF Path
<1>2. Reached(p, 0) = <<p[1]>>
  <2>1. Reached(p, 0) = SubSeq(p, 1, 1)
    BY <1>1 DEF Reached
  <2>2. SubSeq(p, 1, 1) = Append(SubSeq(p, 1, 0), p[1]) /\ SubSeq(p, 1, 0) = <<>>
    BY <1>1
  <2> QED
    BY <2>1, <2>2
<1>3. \A k \in 1..N : W[k - 1] = Reached(p, k - 1) /\ W[k] = Reached(p, k) /\ k > 0
  BY <1>1
<1>4. W = [k \in 0..N |-> IF k = 0 THEN <<p[1]>> ELSE WalkTo(W, k)]
  <2> SUFFICES ASSUME NEW k \in 0..N, k # 0 PROVE Reached(p, k) = WalkTo(W, k)
    BY <1>2
  <2>1. k \in 1..N /\ k \in Nat
    BY <1>1
  <2>2. W[k - 1] = Reached(p, k - 1) /\ k > 0
    BY <1>3, <2>1
  <2> HIDE DEF W
  <2> QED
    BY <2>1, <2>2, ReachedNext DEF WalkTo
<1>5. Walks(W, p[1])
  BY <1>4 DEF Walks
<1>6. ASSUME NEW w, Walks(w, p[1]) PROVE w = W
  <2>1. w = [k \in 0..N |-> IF k = 0 THEN <<p[1]>> ELSE WalkTo(w, k)]
    BY <1>6 DEF Walks
  <2> DEFINE T == {k \in 0..N : w[k] # W[k]}
  <2>2. T = {}
    <3> SUFFICES ASSUME T # {} PROVE FALSE
      OBVIOUS
    <3>1. PICK k \in T : \A y \in T : k <= y
      <4>1. T \subseteq Nat
        BY <1>1
      <4> HIDE DEF T
      <4> QED
        BY <4>1, Least
    <3>2. k \in 0..N /\ w[k] # W[k]
      OBVIOUS
    <3>3. k # 0
      BY <1>1, <1>2, <2>1, <3>2
    <3>4. w[k] = WalkTo(w, k) /\ W[k] = WalkTo(W, k)
      <4> HIDE DEF W
      <4> QED
        BY <1>4, <2>1, <3>2, <3>3
    <3>5. w[k - 1] = W[k - 1]
      <4>1. k - 1 \in 0..N /\ ~(k <= k - 1)
        BY <1>1, <3>2, <3>3
      <4> HIDE DEF W
      <4> QED
        BY <3>1, <4>1
    <3> HIDE DEF W
    <3> QED
      BY <3>2, <3>4, <3>5 DEF WalkTo
  <2>3. \A k \in 0..N : w[k] = W[k]
    BY <2>2
  <2>4. W = [k \in 0..N |-> W[k]] /\ w = [k \in 0..N |-> w[k]]
    BY <2>1
  <2> HIDE DEF W
  <2> QED
    BY <2>3, <2>4
<1>7. (CHOOSE w : Walks(w, p[1])) = W
  <2> HIDE DEF W
  <2> QED
    BY <1>5, <1>6
<1>8. W[N] = p
  <2>1. W[N] = Reached(p, N)
    BY <1>1
  <2>2. ~(N < Len(p))
    BY <1>1
  <2> QED
    BY <2>1, <2>2 DEF Reached
<1> QED
  <2> HIDE DEF W
  <2> QED
    BY <1>7, <1>8, WalkIs

-----------------------------------------------------------------------------
(* The list is the sequence q of nodes.  What follows the last is NULL or, *)
(* while an insertion is owed, the node that was removed.                  *)
ListOf(q) ==
  /\ q \in Seq(Nodes)
  /\ \A i, j \in 1..Len(q) : q[i] = q[j] => i = j
  /\ \A i \in 1..Len(q) : q[i] \in allocated
  /\ \A i \in 1..(Len(q) - 1) : ps_next[q[i]] = q[i + 1]
  /\ dwNumNodes = Len(q)
  /\ Len(q) = 0 => psHead = NULL /\ psTail = NULL /\ ~owed
  /\ Len(q) > 0 =>
       /\ psHead = q[1] /\ psTail = q[Len(q)]
       /\ IF owed THEN /\ ps_next[psTail] \in Nodes \ allocated
                       /\ ps_next[ps_next[psTail]] = NULL
          ELSE ps_next[psTail] = NULL

Fields ==
  /\ allocated \in SUBSET Nodes
  /\ ps_next \in [Nodes -> Nodes \cup {NULL}] /\ pvData \in [Nodes -> Data \cup {NULL}]
  /\ got \in Data \cup {NULL}
  /\ owed \in BOOLEAN /\ badRead = FALSE

ListInvariant == Fields /\ \E q : ListOf(q)

LEMMA ListFacts ==
  ASSUME NEW q, Fields, ListOf(q)
  PROVE  /\ q \in Seq(Nodes) /\ Len(q) \in Nat
         /\ psHead = NULL <=> Len(q) = 0
         /\ psTail = NULL <=> Len(q) = 0
         /\ Len(q) > 0 => 1 \in 1..Len(q) /\ Len(q) \in 1..Len(q) /\ q[1] \in Nodes /\ q[Len(q)] \in Nodes
         /\ \A i \in 1..Len(q) : q[i] \in Nodes /\ q[i] # NULL
<1>1. q \in Seq(Nodes) /\ Len(q) \in Nat
  BY DEF ListOf
<1>2. \A i \in 1..Len(q) : q[i] \in Nodes /\ q[i] # NULL
  BY <1>1, ListAssumption DEF ListAssumption
<1>3. Len(q) > 0 => 1 \in 1..Len(q) /\ Len(q) \in 1..Len(q)
  BY <1>1
<1> QED
  BY <1>1, <1>2, <1>3 DEF ListOf

(* With nothing owed, a traversal of a list of nodes returns them.         *)
LEMMA WalkList ==
  ASSUME NEW q, Fields, ListOf(q), ~owed, psHead # NULL
  PROVE  Walk(psHead) = q /\ Len(q) > 0
<1>1. Len(q) > 0 /\ Len(q) \in Nat /\ psHead = q[1]
  BY ListFacts DEF ListOf
<1>2. Path(q)
  <2>1. q # <<>>
    BY <1>1
  <2>2. ASSUME NEW i \in 1..Len(q)
        PROVE  ps_next[q[i]] = IF i = Len(q) THEN NULL ELSE q[i + 1]
    <3>1. CASE i = Len(q)
      BY <1>1, <3>1 DEF ListOf
    <3>2. CASE i # Len(q)
      BY <1>1, <3>2 DEF ListOf
    <3> QED
      BY <3>1, <3>2
  <2> QED
    BY <2>1, <2>2 DEF Path, ListOf
<1> QED
  BY <1>1, <1>2, WalkPath

LEMMA ChainList ==
  ASSUME NEW q, Fields, ListOf(q)
  PROVE  Chain = q
<1>1. q \in Seq(Nodes) /\ Len(q) \in Nat
  BY ListFacts
<1>2. CASE psHead = NULL
  BY <1>1, <1>2, ListFacts, EmptySeq DEF Chain
<1>3. CASE psHead # NULL /\ ~owed
  BY <1>3, WalkList DEF Chain
<1>4. CASE psHead # NULL /\ owed
  <2> DEFINE x == ps_next[psTail]
             p == Append(q, x)
  <2>1. /\ Len(q) > 0 /\ psTail = q[Len(q)] /\ psHead = q[1]
        /\ x \in Nodes \ allocated /\ ps_next[x] = NULL
    BY <1>1, <1>4, ListFacts DEF ListOf
  <2>2. p \in Seq(Nodes) /\ Len(p) = Len(q) + 1 /\ p[Len(q) + 1] = x
        /\ \A i \in 1..Len(q) : p[i] = q[i]
    BY <1>1, <2>1
  <2>3. Path(p)
    <3>1. p # <<>>
      BY <1>1, <2>2
    <3>2. ASSUME NEW i \in 1..Len(p), NEW j \in 1..Len(p), p[i] = p[j] PROVE i = j
      <4>1. \A k \in 1..Len(q) : q[k] \in allocated
        BY DEF ListOf
      <4>2. CASE i \in 1..Len(q) /\ j \in 1..Len(q)
        BY <2>2, <3>2, <4>2 DEF ListOf
      <4>3. CASE i = Len(q) + 1 \/ j = Len(q) + 1
        BY <1>1, <2>1, <2>2, <3>2, <4>1, <4>3
      <4> QED
        BY <1>1, <2>2, <4>2, <4>3
    <3>3. ASSUME NEW i \in 1..Len(p)
          PROVE  ps_next[p[i]] = IF i = Len(p) THEN NULL ELSE p[i + 1]
      <4>1. CASE i = Len(q) + 1
        BY <2>1, <2>2, <4>1
      <4>2. CASE i = Len(q)
        BY <1>1, <2>1, <2>2, <4>2
      <4>3. CASE i \in 1..(Len(q) - 1)
        <5>1. ps_next[q[i]] = q[i + 1]
          BY <4>3 DEF ListOf
        <5> QED
          BY <1>1, <2>2, <4>3, <5>1
      <4> QED
        BY <1>1, <2>2, <4>1, <4>2, <4>3
    <3> HIDE DEF p
    <3> QED
      BY <2>2, <3>1, <3>2, <3>3 DEF Path
  <2>4. Walk(psHead) = p
    <3> HIDE DEF p
    <3>1. p[1] = q[1]
      BY <1>1, <2>1, <2>2
    <3> QED
      BY <2>1, <2>3, <3>1, WalkPath
  <2>5. Front(p) = q
    BY <1>1, <2>1 DEF Front
  <2> QED
    BY <1>4, <2>4, <2>5 DEF Chain
<1> QED
  BY <1>2, <1>3, <1>4

LEMMA ListInit == Init => ListInvariant
<1> SUFFICES ASSUME Init PROVE ListInvariant
  OBVIOUS
<1>1. Fields
  BY DEF Init, Fields
<1>2. <<>> \in Seq(Nodes) /\ Len(<<>>) = 0
  BY EmptySeq
<1>3. ListOf(<<>>)
  BY <1>2 DEF Init, ListOf
<1> QED
  BY <1>1, <1>3 DEF ListInvariant

-----------------------------------------------------------------------------
(* What each call makes of the list.                                       *)

LEMMA InsertTailList ==
  ASSUME NEW q, Fields, ListOf(q), NEW n \in Nodes, NEW d \in Data, InsertTail(n, d)
  PROVE  Fields' /\ ListOf(Append(q, n))'
<1> DEFINE r == Append(q, n)
<1>1. q \in Seq(Nodes) /\ Len(q) \in Nat /\ n \notin allocated
  BY ListFacts DEF InsertTail, NewNode
<1>2. r \in Seq(Nodes) /\ Len(r) = Len(q) + 1 /\ r[Len(q) + 1] = n /\ \A i \in 1..Len(q) : r[i] = q[i]
  BY <1>1
<1>3. \A i \in 1..Len(q) : q[i] \in allocated /\ q[i] \in Nodes
  BY ListFacts DEF ListOf
<1>4. Len(q) > 0 => psTail = q[Len(q)]
  BY DEF ListOf
<1>5. psTail = NULL <=> Len(q) = 0
  BY ListFacts
<1>6. Fields'
  <2>1. badRead' = FALSE
    <3>1. psTail # NULL => psTail \in allocated
      BY <1>1, <1>3, <1>4, <1>5
    <3> QED
      BY <3>1 DEF Fields, InsertTail, Reads
  <2> QED
    BY <2>1 DEF Fields, InsertTail, NewNode
<1>7. ASSUME NEW i \in 1..Len(r), NEW j \in 1..Len(r), r[i] = r[j] PROVE i = j
  <2>1. CASE i \in 1..Len(q) /\ j \in 1..Len(q)
    BY <1>2, <1>7, <2>1 DEF ListOf
  <2>2. CASE i = Len(q) + 1 \/ j = Len(q) + 1
    BY <1>1, <1>2, <1>3, <1>7, <2>2
  <2> QED
    BY <1>1, <1>2, <2>1, <2>2
<1>8. \A i \in 1..Len(r) : r[i] \in allocated'
  BY <1>1, <1>2, <1>3 DEF InsertTail, NewNode
<1>9. ASSUME NEW i \in 1..(Len(r) - 1) PROVE ps_next'[r[i]] = r[i + 1]
  <2>1. i \in 1..Len(q) /\ r[i] = q[i] /\ q[i] \in Nodes /\ q[i] # n
    BY <1>1, <1>2, <1>3
  <2>2. CASE i = Len(q)
    BY <1>2, <1>4, <2>1, <2>2 DEF InsertTail
  <2>3. CASE i # Len(q)
    <3>1. q[i] # psTail
      <4>1. Len(q) \in 1..Len(q) /\ psTail = q[Len(q)]
        BY <1>1, <1>4, <2>1
      <4> QED
        BY <2>1, <2>3, <4>1 DEF ListOf
    <3>2. ps_next[q[i]] = q[i + 1] /\ i + 1 \in 1..Len(q)
      BY <1>1, <2>1, <2>3 DEF ListOf
    <3>3. r[i + 1] = q[i + 1] /\ ps_next'[q[i]] = ps_next[q[i]]
      BY <1>2, <2>1, <3>1, <3>2 DEF InsertTail
    <3> QED
      BY <2>1, <3>2, <3>3
  <2> QED
    BY <2>2, <2>3
<1>10. dwNumNodes' = Len(r) /\ psTail' = r[Len(r)] /\ owed' = FALSE /\ ps_next'[n] = NULL
  BY <1>2 DEF InsertTail, ListOf
<1>11. psHead' = r[1]
  <2>1. CASE Len(q) = 0
    BY <1>2, <1>5, <2>1 DEF InsertTail
  <2>2. CASE Len(q) > 0
    BY <1>1, <1>2, <1>5, <2>2 DEF InsertTail, ListOf
  <2> QED
    BY <1>1, <2>1, <2>2
<1>12. Len(r) > 0 /\ Len(r) # 0
  BY <1>1, <1>2
<1>13. ps_next'[psTail'] = NULL
  BY <1>2, <1>10
<1> HIDE DEF r
<1>14. ListOf(r)'
  BY <1>2, <1>7, <1>8, <1>9, <1>10, <1>11, <1>12, <1>13 DEF ListOf
<1> QED
  BY <1>6, <1>14 DEF r

LEMMA InsertHeadList ==
  ASSUME NEW q, Fields, ListOf(q), NEW n \in Nodes, NEW d \in Data, InsertHead(n, d)
  PROVE  Fields' /\ ListOf(<<n>> \o q)'
<1> DEFINE r == <<n>> \o q
<1>1. q \in Seq(Nodes) /\ Len(q) \in Nat /\ n \notin allocated /\ ~owed
  BY ListFacts DEF InsertHead, NewNode
<1>2. r \in Seq(Nodes) /\ Len(r) = Len(q) + 1 /\ r[1] = n /\ \A i \in 2..Len(r) : r[i] = q[i - 1]
  BY <1>1
<1>3. \A i \in 1..Len(q) : q[i] \in allocated /\ q[i] \in Nodes
  BY ListFacts DEF ListOf
<1>4. psHead = NULL <=> Len(q) = 0
  BY ListFacts
<1>5. Fields'
  BY <1>3, <1>4, <1>1 DEF Fields, InsertHead, NewNode, ListOf
<1>6. ASSUME NEW i \in 1..Len(r), NEW j \in 1..Len(r), r[i] = r[j] PROVE i = j
  <2>1. CASE i = 1 \/ j = 1
    BY <1>1, <1>2, <1>3, <1>6, <2>1
  <2>2. CASE i # 1 /\ j # 1
    <3>1. i - 1 \in 1..Len(q) /\ j - 1 \in 1..Len(q) /\ q[i - 1] = q[j - 1]
      BY <1>1, <1>2, <1>6, <2>2
    <3>2. i - 1 = j - 1
      BY <3>1 DEF ListOf
    <3> QED
      BY <3>2
  <2> QED
    BY <2>1, <2>2
<1>7. \A i \in 1..Len(r) : r[i] \in allocated'
  BY <1>1, <1>2, <1>3 DEF InsertHead, NewNode
<1>8. ps_next' = [ps_next EXCEPT ![n] = psHead] /\ ps_next'[n] = psHead
  BY DEF InsertHead, Fields
<1>9. \A i \in 1..Len(q) : ps_next'[q[i]] = ps_next[q[i]]
  BY <1>1, <1>3, <1>8 DEF Fields
<1>10. ASSUME NEW i \in 1..(Len(r) - 1) PROVE ps_next'[r[i]] = r[i + 1]
  <2>1. CASE i = 1
    BY <1>1, <1>2, <1>8, <2>1 DEF ListOf
  <2>2. CASE i # 1
    <3>1. i - 1 \in 1..(Len(q) - 1) /\ i - 1 \in 1..Len(q) /\ i \in 2..Len(r) /\ i + 1 \in 2..Len(r)
      BY <1>1, <1>2, <2>2
    <3>2. ps_next[q[i - 1]] = q[i] /\ r[i] = q[i - 1] /\ r[i + 1] = q[i]
      BY <1>2, <3>1 DEF ListOf
    <3> QED
      BY <1>9, <3>1, <3>2
  <2> QED
    BY <2>1, <2>2
<1>11. dwNumNodes' = Len(r) /\ psHead' = r[1] /\ ~owed'
  BY <1>1, <1>2 DEF InsertHead, ListOf
<1>12. psTail' = r[Len(r)] /\ ps_next'[psTail'] = NULL
  <2>1. CASE Len(q) = 0
    BY <1>2, <1>4, <1>8, <2>1 DEF InsertHead
  <2>2. CASE Len(q) > 0
    <3>1. psTail' = psTail /\ psTail = q[Len(q)] /\ ps_next[psTail] = NULL
      BY <1>1, <1>4, <2>2 DEF InsertHead, ListOf
    <3>2. Len(r) \in 2..Len(r) /\ Len(q) \in 1..Len(q)
      BY <1>1, <1>2, <2>2
    <3> QED
      BY <1>2, <1>9, <3>1, <3>2
  <2> QED
    BY <1>1, <2>1, <2>2
<1>13. Len(r) > 0 /\ Len(r) # 0
  BY <1>1, <1>2
<1> HIDE DEF r
<1>14. ListOf(r)'
  BY <1>2, <1>6, <1>7, <1>10, <1>11, <1>12, <1>13 DEF ListOf
<1> QED
  BY <1>5, <1>14 DEF r

(* A node that is refused is not of the list.                              *)
LEMMA UnsupportedList ==
  ASSUME NEW q, Fields, ListOf(q), NEW n \in Nodes, NEW d \in Data, InsertUnsupported(n, d)
  PROVE  Fields' /\ ListOf(q)'
<1>1. q \in Seq(Nodes) /\ n \notin allocated /\ ~owed /\ ~owed'
  BY ListFacts DEF InsertUnsupported, NewNode
<1>2. \A i \in 1..Len(q) : q[i] \in allocated /\ q[i] \in Nodes
  BY ListFacts DEF ListOf
<1>3. Fields'
  BY DEF Fields, InsertUnsupported, NewNode
<1>4. \A i \in 1..Len(q) : ps_next'[q[i]] = ps_next[q[i]] /\ q[i] \in allocated'
  BY <1>1, <1>2 DEF Fields, InsertUnsupported, NewNode
<1>5. UNCHANGED <<psHead, psTail, dwNumNodes>>
  BY DEF InsertUnsupported
<1>6. \A i \in 1..(Len(q) - 1) : i \in 1..Len(q)
  BY ListFacts
<1>7. Len(q) > 0 => ps_next'[psTail'] = NULL
  <2> SUFFICES ASSUME Len(q) > 0 PROVE ps_next'[psTail'] = NULL
    OBVIOUS
  <2>1. Len(q) \in 1..Len(q)
    BY ListFacts
  <2> QED
    BY <1>1, <1>4, <1>5, <2>1 DEF ListOf
<1>8. \A i \in 1..(Len(q) - 1) : ps_next'[q[i]] = q[i + 1]
  BY <1>4, <1>6 DEF ListOf
<1>9. ListOf(q)'
  BY <1>1, <1>4, <1>5, <1>7, <1>8 DEF ListOf
<1> QED
  BY <1>3, <1>9

LEMMA EmptyList ==
  ASSUME NEW r, r = <<>>, psHead' = NULL, psTail' = NULL, dwNumNodes' = 0, ~owed'
  PROVE  ListOf(r)'
<1>1. r \in Seq(Nodes) /\ Len(r) = 0
  BY EmptySeq
<1> QED
  BY <1>1 DEF ListOf

LEMMA RemoveFromEmptyList ==
  ASSUME NEW q, Fields, ListOf(q), RemoveFromEmpty
  PROVE  Fields' /\ ListOf(q)' /\ q = <<>> /\ got' = NULL
<1>1. q = <<>> /\ ~owed
  BY ListFacts, EmptySeq DEF RemoveFromEmpty
<1>2. Len(<<>>) = 0
  BY EmptySeq
<1>3. psTail = NULL /\ dwNumNodes = 0
  BY <1>1, <1>2 DEF ListOf
<1> QED
  BY <1>1, <1>3, EmptyList DEF RemoveFromEmpty, Fields

LEMMA RemoveOnlyList ==
  ASSUME NEW q, Fields, ListOf(q), RemoveOnly
  PROVE  Fields' /\ ListOf(Tail(q))' /\ Len(q) = 1 /\ got' = pvData[q[1]]
         /\ Tail(q) = <<>> /\ allocated' = allocated \ {q[1]}
<1>1. Len(q) \in Nat /\ Len(q) > 0 /\ psHead = q[1] /\ q[1] \in allocated /\ q[1] \in Nodes
  BY ListFacts DEF RemoveOnly, ListOf
<1>2. Len(q) = 1
  <2> SUFFICES ASSUME Len(q) # 1 PROVE FALSE
    OBVIOUS
  <2>1. 1 \in 1..(Len(q) - 1) /\ 2 \in 1..Len(q)
    <3>1. \A l \in Nat : l > 0 /\ l # 1 => 1 \in 1..(l - 1) /\ 2 \in 1..l
      OBVIOUS
    <3> QED
      BY <1>1, <3>1, Zenon
  <2>2. ps_next[q[1]] = q[2] /\ q[2] # NULL
    BY <2>1, ListFacts DEF ListOf
  <2> QED
    BY <1>1, <2>2 DEF RemoveOnly
<1>3. Fields' /\ psHead' = NULL /\ psTail' = NULL /\ ~owed'
  BY <1>1 DEF RemoveOnly, Fields, Reads
<1>4. dwNumNodes' = 0
  BY <1>2 DEF RemoveOnly, ListOf
<1>5. Tail(q) = <<>>
  <2>1. q \in Seq(Nodes)
    BY ListFacts
  <2>2. Len(Tail(q)) = 0 /\ Tail(q) \in Seq(Nodes)
    BY <1>2, <2>1
  <2> QED
    BY <2>2, EmptySeq
<1> QED
  BY <1>1, <1>2, <1>3, <1>4, <1>5, EmptyList DEF RemoveOnly

LEMMA RemoveHeadList ==
  ASSUME NEW q, Fields, ListOf(q), RemoveHead
  PROVE  Fields' /\ ListOf(Tail(q))' /\ Len(q) > 0 /\ got' = pvData[q[1]]
         /\ allocated' = allocated \ {q[1]}
<1> DEFINE r == Tail(q)
<1>1. Len(q) \in Nat /\ Len(q) > 0 /\ psHead = q[1] /\ q[1] \in allocated /\ q[1] \in Nodes /\ q \in Seq(Nodes)
  BY ListFacts DEF RemoveHead, ListOf
<1>2. Len(q) > 1
  <2>1. \A l \in Nat : l > 0 /\ l # 1 => l > 1
    OBVIOUS
  <2>2. Len(q) # 1
    BY <1>1 DEF RemoveHead, ListOf
  <2> QED
    BY <1>1, <2>1, <2>2, Zenon
<1>3. q # <<>>
  BY <1>1, EmptySeq
<1>4. r \in Seq(Nodes) /\ Len(r) = Len(q) - 1 /\ \A i \in 1..Len(r) : r[i] = q[i + 1]
  BY <1>1, <1>3, HeadTailProperties
<1>5. UNCHANGED <<ps_next, psTail, pvData>> /\ ~owed /\ ~owed'
  BY DEF RemoveHead
<1>6. Fields'
  BY <1>1 DEF RemoveHead, Fields, Reads
<1>7. ASSUME NEW i \in 1..Len(r), NEW j \in 1..Len(r), r[i] = r[j] PROVE i = j
  <2>1. i + 1 \in 1..Len(q) /\ j + 1 \in 1..Len(q) /\ q[i + 1] = q[j + 1]
    BY <1>1, <1>4, <1>7
  <2>2. i + 1 = j + 1
    BY <2>1 DEF ListOf
  <2> QED
    BY <2>2
<1>8. ASSUME NEW i \in 1..Len(r) PROVE r[i] \in allocated'
  <2>1. i + 1 \in 1..Len(q) /\ 1 \in 1..Len(q) /\ i + 1 # 1
    BY <1>1, <1>4
  <2>2. q[i + 1] # q[1] /\ q[i + 1] \in allocated
    BY <2>1 DEF ListOf
  <2> QED
    BY <1>1, <1>4, <2>2 DEF RemoveHead
<1>9. ASSUME NEW i \in 1..(Len(r) - 1) PROVE ps_next'[r[i]] = r[i + 1]
  <2>1. i + 1 \in 1..(Len(q) - 1) /\ i \in 1..Len(r) /\ i + 1 \in 1..Len(r)
    BY <1>1, <1>4
  <2>2. ps_next[q[i + 1]] = q[(i + 1) + 1]
    BY <2>1 DEF ListOf
  <2> QED
    BY <1>4, <1>5, <2>1, <2>2
<1>10. psHead' = r[1]
  <2>1. 1 \in 1..(Len(q) - 1)
    BY <1>1, <1>2
  <2>2. psHead' = ps_next[q[1]] /\ ps_next[q[1]] = q[1 + 1]
    BY <1>1, <2>1 DEF RemoveHead, ListOf
  <2> QED
    BY <1>2, <1>4, <2>1, <2>2
<1>11. psTail' = r[Len(r)] /\ ps_next'[psTail'] = NULL
  <2>1. psTail = q[Len(q)] /\ ps_next[psTail] = NULL
    BY <1>1, <1>5 DEF ListOf
  <2> QED
    BY <1>1, <1>2, <1>4, <1>5, <2>1
<1>12. dwNumNodes' = Len(r) /\ Len(r) # 0
  BY <1>1, <1>2, <1>4 DEF RemoveHead, ListOf
<1> HIDE DEF r
<1>13. ListOf(r)'
  BY <1>4, <1>5, <1>7, <1>8, <1>9, <1>10, <1>11, <1>12 DEF ListOf
<1> QED
  BY <1>1, <1>6, <1>13 DEF r, RemoveHead

LEMMA RemoveTailList ==
  ASSUME InsertFollows, NEW q, Fields, ListOf(q), RemoveTail
  PROVE  Fields' /\ ListOf(Front(q))' /\ Len(q) > 0 /\ got' = pvData[q[Len(q)]]
         /\ allocated' = allocated \ {q[Len(q)]}
<1> DEFINE r == Front(q)
<1>1. Walk(psHead) = q /\ Len(q) > 0 /\ ~owed
  BY WalkList DEF RemoveTail
<1>2. q \in Seq(Nodes) /\ Len(q) \in Nat /\ psHead = q[1] /\ Last(q) = q[Len(q)] /\ psTail = q[Len(q)]
      /\ q[Len(q)] \in Nodes /\ ps_next[psTail] = NULL
  BY <1>1, ListFacts DEF ListOf, Last
<1>3. Len(q) > 1
  <2> SUFFICES ASSUME Len(q) = 1 PROVE FALSE
    BY <1>1, <1>2
  <2> QED
    BY <1>2 DEF RemoveTail
<1>4. r \in Seq(Nodes) /\ Len(r) = Len(q) - 1 /\ \A i \in 1..Len(r) : r[i] = q[i]
  BY <1>2, <1>3 DEF Front
<1>5. /\ got' = pvData[q[Len(q)]] /\ psTail' = Last(r) /\ allocated' = allocated \ {q[Len(q)]}
      /\ Reads(ToSet(q)) /\ owed' = TRUE /\ dwNumNodes' = dwNumNodes - 1
      /\ UNCHANGED <<psHead, ps_next, pvData>>
  BY <1>1, <1>2 DEF RemoveTail
<1>6. Fields'
  <2>1. \A m \in ToSet(q) : m \in allocated
    BY <1>2 DEF ToSet, ListOf
  <2>2. badRead' = FALSE
    BY <1>5, <2>1 DEF Reads, Fields
  <2> QED
    BY <1>2, <1>5, <2>2 DEF Fields
<1>7. \A i, j \in 1..Len(r) : r[i] = r[j] => i = j
  BY <1>2, <1>4 DEF ListOf
<1>8. ASSUME NEW i \in 1..Len(r) PROVE r[i] \in allocated'
  <2>1. i \in 1..Len(q) /\ Len(q) \in 1..Len(q) /\ i # Len(q)
    BY <1>1, <1>2, <1>4
  <2>2. q[i] # q[Len(q)] /\ q[i] \in allocated
    BY <2>1 DEF ListOf
  <2> QED
    BY <1>4, <1>5, <2>2
<1>9. ASSUME NEW i \in 1..Len(r) PROVE ps_next'[r[i]] = q[i + 1]
  <2>1. i \in 1..(Len(q) - 1)
    BY <1>4
  <2> QED
    BY <1>4, <1>5, <2>1 DEF ListOf
<1>10. \A i \in 1..(Len(r) - 1) : ps_next'[r[i]] = r[i + 1]
  <2> SUFFICES ASSUME NEW i \in 1..(Len(r) - 1) PROVE ps_next'[r[i]] = r[i + 1]
    OBVIOUS
  <2>1. i \in 1..Len(r) /\ i + 1 \in 1..Len(r)
    BY <1>2, <1>4
  <2> QED
    BY <1>4, <1>9, <2>1
<1>11. Len(r) \in 1..Len(r) /\ Len(r) # 0 /\ Len(r) + 1 = Len(q) /\ 1 \in 1..Len(r)
  BY <1>2, <1>3, <1>4
<1>12. psTail' = r[Len(r)] /\ ps_next'[psTail'] = q[Len(q)]
  BY <1>5, <1>9, <1>11 DEF Last
<1>13. q[Len(q)] \in Nodes \ allocated' /\ ps_next'[q[Len(q)]] = NULL
  BY <1>2, <1>5
<1>14. psHead' = r[1] /\ dwNumNodes' = Len(r)
  BY <1>2, <1>4, <1>5, <1>11 DEF ListOf
<1> HIDE DEF r
<1>15. ListOf(r)'
  BY <1>4, <1>5, <1>7, <1>8, <1>10, <1>11, <1>12, <1>13, <1>14 DEF ListOf
<1> QED
  BY <1>1, <1>5, <1>6, <1>15 DEF r

LEMMA FlushList ==
  ASSUME NEW q, Fields, ListOf(q), Flush
  PROVE  Fields' /\ ListOf(<<>>)' /\ allocated' = allocated \ ToSet(q) /\ got' = got
<1> DEFINE path == IF psHead = NULL THEN {} ELSE ToSet(Walk(psHead))
<1>1. path = ToSet(q)
  <2>1. CASE psHead = NULL
    <3>1. q \in Seq(Nodes) /\ Len(q) = 0 /\ DOMAIN q = 1..Len(q)
      BY <2>1, ListFacts
    <3> QED
      BY <2>1, <3>1 DEF ToSet
  <2>2. CASE psHead # NULL
    BY <2>2, WalkList DEF Flush
  <2> QED
    BY <2>1, <2>2
<1>2. \A m \in ToSet(q) : m \in allocated
  <2>1. q \in Seq(Nodes)
    BY ListFacts
  <2> QED
    BY <2>1 DEF ToSet, ListOf
<1>3. /\ Reads(path) /\ allocated' = allocated \ path
      /\ psHead' = NULL /\ psTail' = NULL /\ dwNumNodes' = 0 /\ ~owed /\ owed' = owed
      /\ UNCHANGED <<ps_next, pvData, got>>
  BY DEF Flush
<1> HIDE DEF path
<1>4. badRead' = FALSE
  BY <1>1, <1>2, <1>3 DEF Reads, Fields
<1>5. Fields'
  BY <1>3, <1>4 DEF Fields
<1> QED
  BY <1>1, <1>3, <1>5, EmptyList

-----------------------------------------------------------------------------
(* The theorems.                                                           *)

LEMMA ListStep ==
  ASSUME InsertFollows
  PROVE  ListInvariant /\ [Next]_vars => ListInvariant'
<1> SUFFICES ASSUME ListInvariant, [Next]_vars PROVE ListInvariant'
  OBVIOUS
<1>1. PICK q : Fields /\ ListOf(q)
  BY DEF ListInvariant
<1>2. CASE UNCHANGED vars
  BY <1>1, <1>2 DEF vars, ListInvariant, Fields, ListOf
<1>3. ASSUME NEW n \in Nodes, NEW d \in Data, InsertTail(n, d) PROVE ListInvariant'
  BY <1>1, <1>3, InsertTailList DEF ListInvariant
<1>4. ASSUME NEW n \in Nodes, NEW d \in Data, InsertHead(n, d) PROVE ListInvariant'
  BY <1>1, <1>4, InsertHeadList DEF ListInvariant
<1>5. ASSUME NEW n \in Nodes, NEW d \in Data, InsertUnsupported(n, d) PROVE ListInvariant'
  BY <1>1, <1>5, UnsupportedList DEF ListInvariant
<1>6. CASE RemoveFromEmpty
  BY <1>1, <1>6, RemoveFromEmptyList DEF ListInvariant
<1>7. CASE RemoveOnly
  BY <1>1, <1>7, RemoveOnlyList DEF ListInvariant
<1>8. CASE RemoveHead
  BY <1>1, <1>8, RemoveHeadList DEF ListInvariant
<1>9. CASE RemoveTail
  BY <1>1, <1>9, RemoveTailList DEF ListInvariant
<1>10. CASE Flush
  BY <1>1, <1>10, FlushList DEF ListInvariant
<1> QED
  BY <1>2, <1>3, <1>4, <1>5, <1>6, <1>7, <1>8, <1>9, <1>10 DEF Next

LEMMA ListAlways ==
  ASSUME InsertFollows
  PROVE  Spec => []ListInvariant
<1>1. Init => ListInvariant
  BY ListInit
<1>2. ListInvariant /\ [Next]_vars => ListInvariant'
  BY ListStep
<1> QED
  BY <1>1, <1>2, PTL DEF Spec

(* Whatever calls its callers make, the list is well formed: its count     *)
(* never exceeds the nodes there are, and its head and tail are nodes.     *)
THEOREM ListTypes ==
  ASSUME InsertFollows
  PROVE  Spec => []TypeOK
<1>1. ListInvariant => TypeOK
  <2> SUFFICES ASSUME ListInvariant PROVE TypeOK
    OBVIOUS
  <2>1. PICK q : Fields /\ ListOf(q)
    BY DEF ListInvariant
  <2>2. dwNumNodes \in 0 .. Cardinality(Nodes)
    BY <2>1, DistinctFit DEF ListOf
  <2>3. psHead \in Nodes \cup {NULL} /\ psTail \in Nodes \cup {NULL}
    BY <2>1, ListFacts DEF ListOf
  <2> QED
    BY <2>1, <2>2, <2>3 DEF Fields, TypeOK
<1> QED
  BY <1>1, ListAlways, PTL

(* No call of the list reads a node that an earlier call freed, although   *)
(* the tail keeps its pointer to the node that was removed behind it.      *)
THEOREM NoFreedNode ==
  ASSUME InsertFollows
  PROVE  Spec => []NoFreedNodeRead
<1>1. ListInvariant => NoFreedNodeRead
  BY DEF ListInvariant, Fields, NoFreedNodeRead
<1> QED
  BY <1>1, ListAlways, PTL

-----------------------------------------------------------------------------
(* Refinement.                                                             *)

Contents(q) == [i \in DOMAIN q |-> pvData[q[i]]]

LEMMA ContentsOf ==
  ASSUME NEW q, Fields, ListOf(q)
  PROVE  /\ Contents(q) \in Seq(Data \cup {NULL}) /\ Len(Contents(q)) = Len(q)
         /\ \A i \in 1..Len(q) : Contents(q)[i] = pvData[q[i]]
         /\ Contents(q) = <<>> <=> Len(q) = 0
<1>1. q \in Seq(Nodes) /\ Len(q) \in Nat /\ DOMAIN q = 1..Len(q)
  BY ListFacts
<1>2. \A i \in 1..Len(q) : pvData[q[i]] \in Data \cup {NULL}
  BY <1>1 DEF Fields
<1>3. Contents(q) \in Seq(Data \cup {NULL}) /\ Len(Contents(q)) = Len(q)
      /\ \A i \in 1..Len(q) : Contents(q)[i] = pvData[q[i]]
  BY <1>1, <1>2 DEF Contents
<1> QED
  BY <1>3, EmptySeq

LEMMA ContentsNext ==
  ASSUME NEW q, Fields', ListOf(q)'
  PROVE  /\ Contents(q)' \in Seq(Data \cup {NULL}) /\ Len(Contents(q)') = Len(q)
         /\ \A i \in 1..Len(q) : Contents(q)'[i] = pvData'[q[i]]
         /\ q \in Seq(Nodes)
<1>1. q \in Seq(Nodes) /\ Len(q) \in Nat /\ DOMAIN q = 1..Len(q)
  BY DEF ListOf
<1>2. \A i \in 1..Len(q) : pvData'[q[i]] \in Data \cup {NULL}
  BY <1>1 DEF Fields
<1> QED
  BY <1>1, <1>2 DEF Contents

(* What a removal or a refused insertion leaves of the objects.            *)
LEMMA ContentsTail ==
  ASSUME NEW q, Fields, ListOf(q), Len(q) > 0, Fields', ListOf(Tail(q))', pvData' = pvData
  PROVE  Contents(Tail(q))' = Tail(Contents(q)) /\ Head(Contents(q)) = pvData[q[1]]
<1> DEFINE c == Contents(q)
           r == Tail(q)
           e == Contents(r)'
<1>1. c \in Seq(Data \cup {NULL}) /\ Len(c) = Len(q) /\ \A i \in 1..Len(q) : c[i] = pvData[q[i]]
  BY ContentsOf
<1>2. q \in Seq(Nodes) /\ Len(q) \in Nat /\ q # <<>> /\ c # <<>> /\ 1 \in 1..Len(q)
  BY ContentsOf, ListFacts, EmptySeq
<1>3. Len(r) = Len(q) - 1 /\ \A i \in 1..Len(r) : r[i] = q[i + 1] /\ i + 1 \in 1..Len(q)
  BY <1>2, HeadTailProperties
<1>4. Len(Tail(c)) = Len(c) - 1 /\ Tail(c) \in Seq(Data \cup {NULL})
      /\ \A i \in 1..Len(Tail(c)) : Tail(c)[i] = c[i + 1]
  <2> HIDE DEF c
  <2> QED
    BY <1>1, <1>2, HeadTailProperties
<1>5. e \in Seq(Data \cup {NULL}) /\ Len(e) = Len(r) /\ \A i \in 1..Len(r) : e[i] = pvData'[r[i]]
  <2> HIDE DEF r
  <2> QED
    BY ContentsNext DEF r
<1>6. \A i \in 1..Len(e) : e[i] = Tail(c)[i]
  <2> HIDE DEF c, r, e
  <2> SUFFICES ASSUME NEW i \in 1..Len(e) PROVE e[i] = Tail(c)[i]
    OBVIOUS
  <2>1. i \in 1..Len(r) /\ i \in 1..Len(Tail(c))
    BY <1>1, <1>3, <1>4, <1>5
  <2>2. r[i] = q[i + 1] /\ i + 1 \in 1..Len(q) /\ Tail(c)[i] = c[i + 1]
    BY <1>3, <1>4, <2>1
  <2>3. c[i + 1] = pvData[q[i + 1]]
    BY <1>1, <2>2
  <2> QED
    BY <1>5, <2>1, <2>2, <2>3
<1>7. e = Tail(c)
  <2> HIDE DEF c, r, e
  <2> QED
    BY <1>1, <1>3, <1>4, <1>5, <1>6, SeqEqual
<1>8. Head(c) = c[1]
  <2> HIDE DEF c
  <2> QED
    BY <1>1, <1>2
<1> QED
  BY <1>1, <1>2, <1>7, <1>8

LEMMA ContentsFront ==
  ASSUME NEW q, Fields, ListOf(q), Len(q) > 0, Fields', ListOf(Front(q))', pvData' = pvData
  PROVE  Contents(Front(q))' = Front(Contents(q)) /\ Last(Contents(q)) = pvData[q[Len(q)]]
<1> DEFINE c == Contents(q)
           r == Front(q)
           e == Contents(r)'
<1>1. c \in Seq(Data \cup {NULL}) /\ Len(c) = Len(q) /\ \A i \in 1..Len(q) : c[i] = pvData[q[i]]
  BY ContentsOf
<1>2. q \in Seq(Nodes) /\ Len(q) \in Nat /\ Len(q) \in 1..Len(q)
  BY ListFacts
<1>3. Len(r) = Len(q) - 1 /\ \A i \in 1..Len(r) : r[i] = q[i] /\ i \in 1..Len(q)
  <2>1. Len(r) = Len(q) - 1
    <3>1. Len(q) - 1 \in Nat /\ Len(q) - 1 <= Len(q)
      BY <1>2
    <3>2. \A k \in Nat : k <= Len(q) => Len(SubSeq(q, 1, k)) = k
      BY <1>2
    <3> QED
      BY <3>1, <3>2 DEF Front
  <2>2. \A i \in 1..(Len(q) - 1) : r[i] = q[i] /\ i \in 1..Len(q)
    BY <1>2 DEF Front
  <2> QED
    BY <2>1, <2>2
<1>4. Len(Front(c)) = Len(c) - 1 /\ Front(c) \in Seq(Data \cup {NULL})
      /\ \A i \in 1..Len(Front(c)) : Front(c)[i] = c[i]
  <2> HIDE DEF c
  <2> QED
    BY <1>1, <1>2 DEF Front
<1>5. e \in Seq(Data \cup {NULL}) /\ Len(e) = Len(r) /\ \A i \in 1..Len(r) : e[i] = pvData'[r[i]]
  <2> HIDE DEF r
  <2> QED
    BY ContentsNext DEF r
<1>6. \A i \in 1..Len(e) : e[i] = Front(c)[i]
  <2> HIDE DEF c, r, e
  <2> SUFFICES ASSUME NEW i \in 1..Len(e) PROVE e[i] = Front(c)[i]
    OBVIOUS
  <2>1. i \in 1..Len(r) /\ i \in 1..Len(Front(c))
    BY <1>1, <1>3, <1>4, <1>5
  <2>2. r[i] = q[i] /\ i \in 1..Len(q) /\ Front(c)[i] = c[i]
    BY <1>3, <1>4, <2>1
  <2>3. c[i] = pvData[q[i]]
    BY <1>1, <2>2
  <2> QED
    BY <1>5, <2>1, <2>2, <2>3
<1>7. e = Front(c)
  <2> HIDE DEF c, r, e
  <2> QED
    BY <1>1, <1>3, <1>4, <1>5, <1>6, SeqEqual
<1>8. Last(c) = pvData[q[Len(q)]]
  BY <1>1, <1>2 DEF Last
<1> QED
  BY <1>7, <1>8

(* What an insertion makes of them.                                        *)
LEMMA ContentsAppend ==
  ASSUME NEW q, Fields, ListOf(q), NEW n \in Nodes, NEW d \in Data, NewNode(n, d),
         Fields', ListOf(Append(q, n))'
  PROVE  Contents(Append(q, n))' = Append(Contents(q), d)
<1> DEFINE c == Contents(q)
           r == Append(q, n)
           e == Contents(r)'
<1>1. c \in Seq(Data \cup {NULL}) /\ Len(c) = Len(q) /\ \A i \in 1..Len(q) : c[i] = pvData[q[i]]
  BY ContentsOf
<1>2. q \in Seq(Nodes) /\ Len(q) \in Nat /\ \A i \in 1..Len(q) : q[i] # n
  BY ListFacts DEF ListOf, NewNode
<1>3. Len(r) = Len(q) + 1 /\ r[Len(q) + 1] = n /\ \A i \in 1..Len(q) : r[i] = q[i]
  BY <1>2
<1>4. pvData'[n] = d /\ \A i \in 1..Len(q) : pvData'[q[i]] = pvData[q[i]]
  BY <1>2 DEF NewNode, Fields
<1>5. /\ Append(c, d) \in Seq(Data \cup {NULL}) /\ Len(Append(c, d)) = Len(c) + 1
      /\ Append(c, d)[Len(c) + 1] = d /\ \A i \in 1..Len(c) : Append(c, d)[i] = c[i]
  <2> HIDE DEF c
  <2> QED
    BY <1>1
<1>6. e \in Seq(Data \cup {NULL}) /\ Len(e) = Len(r) /\ \A i \in 1..Len(r) : e[i] = pvData'[r[i]]
  <2> HIDE DEF r
  <2> QED
    BY ContentsNext DEF r
<1>7. \A i \in 1..Len(e) : e[i] = Append(c, d)[i]
  <2> HIDE DEF c, r, e
  <2> SUFFICES ASSUME NEW i \in 1..Len(e) PROVE e[i] = Append(c, d)[i]
    OBVIOUS
  <2>1. CASE i = Len(q) + 1
    BY <1>1, <1>2, <1>3, <1>4, <1>5, <1>6, <2>1
  <2>2. CASE i \in 1..Len(q)
    BY <1>1, <1>2, <1>3, <1>4, <1>5, <1>6, <2>2
  <2>3. \A l \in Nat : \A k \in 1..(l + 1) : k = l + 1 \/ k \in 1..l
    OBVIOUS
  <2>4. Len(e) = Len(q) + 1
    BY <1>3, <1>6
  <2> QED
    BY <1>2, <2>1, <2>2, <2>3, <2>4
<1> QED
  <2> HIDE DEF c, r, e
  <2>1. e = Append(c, d)
    BY <1>1, <1>3, <1>5, <1>6, <1>7, SeqEqual
  <2> QED
    BY <2>1 DEF c, r, e

LEMMA ContentsPrepend ==
  ASSUME NEW q, Fields, ListOf(q), NEW n \in Nodes, NEW d \in Data, NewNode(n, d),
         Fields', ListOf(<<n>> \o q)'
  PROVE  Contents(<<n>> \o q)' = <<d>> \o Contents(q)
<1> DEFINE c == Contents(q)
           r == <<n>> \o q
           e == Contents(r)'
           f == <<d>> \o c
<1>1. c \in Seq(Data \cup {NULL}) /\ Len(c) = Len(q) /\ \A i \in 1..Len(q) : c[i] = pvData[q[i]]
  BY ContentsOf
<1>2. q \in Seq(Nodes) /\ Len(q) \in Nat /\ \A i \in 1..Len(q) : q[i] # n
  BY ListFacts DEF ListOf, NewNode
<1>3. Len(r) = Len(q) + 1 /\ r[1] = n /\ \A i \in 1..Len(q) : r[i + 1] = q[i]
  BY <1>2
<1>4. pvData'[n] = d /\ \A i \in 1..Len(q) : pvData'[q[i]] = pvData[q[i]]
  BY <1>2 DEF NewNode, Fields
<1>5. f \in Seq(Data \cup {NULL}) /\ Len(f) = Len(c) + 1 /\ f[1] = d /\ \A i \in 1..Len(c) : f[i + 1] = c[i]
  <2> HIDE DEF c
  <2> QED
    BY <1>1
<1>6. e \in Seq(Data \cup {NULL}) /\ Len(e) = Len(r) /\ \A i \in 1..Len(r) : e[i] = pvData'[r[i]]
  <2> HIDE DEF r
  <2> QED
    BY ContentsNext DEF r
<1>7. \A i \in 1..Len(e) : e[i] = f[i]
  <2> HIDE DEF c, r, e, f
  <2> SUFFICES ASSUME NEW i \in 1..Len(e) PROVE e[i] = f[i]
    OBVIOUS
  <2>1. CASE i = 1
    BY <1>3, <1>4, <1>5, <1>6, <2>1
  <2>2. CASE i # 1
    <3>1. i - 1 \in 1..Len(q) /\ (i - 1) + 1 = i /\ i \in 1..Len(r)
      BY <1>2, <1>3, <1>6, <2>2
    <3>2. r[i] = q[i - 1] /\ f[i] = c[i - 1]
      BY <1>1, <1>3, <1>5, <3>1
    <3> QED
      BY <1>1, <1>4, <1>6, <3>1, <3>2
  <2> QED
    BY <2>1, <2>2
<1> QED
  <2> HIDE DEF c, r, e, f
  <2>1. e = f
    BY <1>1, <1>3, <1>5, <1>6, <1>7, SeqEqual
  <2> QED
    BY <2>1 DEF c, r, e, f

ChainIsList == \A q : Fields /\ ListOf(q) => Chain = q

LEMMA ChainAlways == ChainIsList
BY ChainList DEF ChainIsList

LEMMA ChainNext ==
  ASSUME NEW q, Fields', ListOf(q)'
  PROVE  Chain' = q
<1>1. ChainIsList'
  BY ChainAlways, PTL
<1> QED
  BY <1>1 DEF ChainIsList

LEMMA RefinesFrom ==
  ASSUME NEW q, Fields, ListOf(q), NEW r, Fields', ListOf(r)'
  PROVE  /\ Sequence!Add <=>
              /\ \E d \in Data : Contents(r)' \in {Append(Contents(q), d), <<d>> \o Contents(q)}
              /\ got' = got
         /\ Sequence!TakeEnd <=>
              /\ Contents(q) # <<>>
              /\ \/ got' = Head(Contents(q)) /\ Contents(r)' = Tail(Contents(q))
                 \/ got' = Last(Contents(q)) /\ Contents(r)' = Front(Contents(q))
         /\ Sequence!TakeNothing <=> Contents(q) = <<>> /\ got' = NULL /\ Contents(r)' = Contents(q)
         /\ Sequence!Clear <=> Contents(r)' = <<>> /\ got' = got
         /\ UNCHANGED Sequence!seqVars <=> Contents(r)' = Contents(q) /\ got' = got
<1>1. [i \in DOMAIN Chain |-> pvData[Chain[i]]] = Contents(q)
  BY ChainList DEF Contents
<1>2. [i \in DOMAIN Chain |-> pvData[Chain[i]]]' = Contents(r)'
  BY ChainNext DEF Contents
<1>3. Sequence!Add <=>
              /\ \E d \in Data : Contents(r)' \in {Append(Contents(q), d), <<d>> \o Contents(q)}
              /\ got' = got
  BY <1>1, <1>2 DEF Sequence!Add
<1>4. Sequence!TakeEnd <=>
              /\ Contents(q) # <<>>
              /\ \/ got' = Head(Contents(q)) /\ Contents(r)' = Tail(Contents(q))
                 \/ got' = Last(Contents(q)) /\ Contents(r)' = Front(Contents(q))
  BY <1>1, <1>2 DEF Sequence!TakeEnd, Sequence!Last, Sequence!Front, Last, Front
<1>5. Sequence!TakeNothing <=> Contents(q) = <<>> /\ got' = NULL /\ Contents(r)' = Contents(q)
  BY <1>1, <1>2 DEF Sequence!TakeNothing
<1>6. Sequence!Clear <=> Contents(r)' = <<>> /\ got' = got
  BY <1>1, <1>2 DEF Sequence!Clear
<1>7. UNCHANGED Sequence!seqVars <=> Contents(r)' = Contents(q) /\ got' = got
  BY <1>1, <1>2 DEF Sequence!seqVars
<1> QED
  BY <1>3, <1>4, <1>5, <1>6, <1>7

LEMMA RefinesStep ==
  ASSUME InsertFollows, ListInvariant, [Next]_vars
  PROVE  [Sequence!Add \/ Sequence!TakeEnd \/ Sequence!TakeNothing \/ Sequence!Clear]_Sequence!seqVars
<1>1. PICK q : Fields /\ ListOf(q)
  BY DEF ListInvariant
<1>2. CASE UNCHANGED vars
  <2>1. Fields' /\ ListOf(q)' /\ Contents(q)' = Contents(q) /\ got' = got
    BY <1>1, <1>2 DEF vars, Fields, ListOf, Contents
  <2> QED
    BY <1>1, <2>1, RefinesFrom
<1>3. ASSUME NEW n \in Nodes, NEW d \in Data, InsertTail(n, d) PROVE Sequence!Add
  <2>1. Fields' /\ ListOf(Append(q, n))' /\ NewNode(n, d) /\ got' = got
    BY <1>1, <1>3, InsertTailList DEF InsertTail
  <2>2. Contents(Append(q, n))' = Append(Contents(q), d)
    BY <1>1, <2>1, ContentsAppend
  <2> QED
    BY <1>1, <2>1, <2>2, RefinesFrom
<1>4. ASSUME NEW n \in Nodes, NEW d \in Data, InsertHead(n, d) PROVE Sequence!Add
  <2>1. Fields' /\ ListOf(<<n>> \o q)' /\ NewNode(n, d) /\ got' = got
    BY <1>1, <1>4, InsertHeadList DEF InsertHead
  <2>2. Contents(<<n>> \o q)' = <<d>> \o Contents(q)
    BY <1>1, <2>1, ContentsPrepend
  <2> QED
    BY <1>1, <2>1, <2>2, RefinesFrom
<1>5. ASSUME NEW n \in Nodes, NEW d \in Data, InsertUnsupported(n, d)
      PROVE UNCHANGED Sequence!seqVars
  <2>1. Fields' /\ ListOf(q)' /\ NewNode(n, d) /\ got' = got
    BY <1>1, <1>5, UnsupportedList DEF InsertUnsupported
  <2>2. Contents(q)' = Contents(q)
    <3>1. \A i \in DOMAIN q : q[i] \in Nodes /\ q[i] # n
      <4>1. q \in Seq(Nodes) /\ DOMAIN q = 1..Len(q)
        BY <1>1, ListFacts
      <4> QED
        BY <1>1, <2>1, <4>1 DEF ListOf, NewNode
    <3>2. \A i \in DOMAIN q : pvData'[q[i]] = pvData[q[i]]
      BY <1>1, <2>1, <3>1 DEF NewNode, Fields
    <3> QED
      BY <3>2 DEF Contents
  <2> QED
    BY <1>1, <2>1, <2>2, RefinesFrom
<1>6. CASE RemoveFromEmpty
  <2>1. Fields' /\ ListOf(q)' /\ q = <<>> /\ got' = NULL /\ pvData' = pvData
    BY <1>1, <1>6, RemoveFromEmptyList DEF RemoveFromEmpty
  <2>2. Contents(q) = <<>> /\ Contents(q)' = Contents(q)
    <3>1. Len(q) = 0
      BY <2>1, EmptySeq
    <3> QED
      BY <1>1, <2>1, <3>1, ContentsOf DEF Contents
  <2> QED
    BY <1>1, <2>1, <2>2, RefinesFrom
<1>7. CASE RemoveOnly
  <2>1. Fields' /\ ListOf(Tail(q))' /\ Len(q) = 1 /\ got' = pvData[q[1]] /\ pvData' = pvData
    BY <1>1, <1>7, RemoveOnlyList DEF RemoveOnly
  <2>2. Contents(Tail(q))' = Tail(Contents(q)) /\ Head(Contents(q)) = pvData[q[1]]
    BY <1>1, <2>1, ContentsTail
  <2>3. Contents(q) # <<>>
    BY <1>1, <2>1, ContentsOf
  <2> QED
    BY <1>1, <2>1, <2>2, <2>3, RefinesFrom
<1>8. CASE RemoveHead
  <2>1. Fields' /\ ListOf(Tail(q))' /\ Len(q) > 0 /\ got' = pvData[q[1]] /\ pvData' = pvData
    BY <1>1, <1>8, RemoveHeadList DEF RemoveHead
  <2>2. Contents(Tail(q))' = Tail(Contents(q)) /\ Head(Contents(q)) = pvData[q[1]]
    BY <1>1, <2>1, ContentsTail
  <2>3. Contents(q) # <<>>
    BY <1>1, <2>1, ContentsOf
  <2> QED
    BY <1>1, <2>1, <2>2, <2>3, RefinesFrom
<1>9. CASE RemoveTail
  <2>1. Fields' /\ ListOf(Front(q))' /\ Len(q) > 0 /\ got' = pvData[q[Len(q)]] /\ pvData' = pvData
    BY <1>1, <1>9, RemoveTailList DEF RemoveTail
  <2>2. Contents(Front(q))' = Front(Contents(q)) /\ Last(Contents(q)) = pvData[q[Len(q)]]
    BY <1>1, <2>1, ContentsFront
  <2>3. Contents(q) # <<>>
    BY <1>1, <2>1, ContentsOf
  <2> QED
    BY <1>1, <2>1, <2>2, <2>3, RefinesFrom
<1>10. CASE Flush
  <2>1. Fields' /\ ListOf(<<>>)' /\ got' = got
    BY <1>1, <1>10, FlushList
  <2>2. Contents(<<>>)' = <<>>
    <3>1. Len(<<>>) = 0 /\ Len(Contents(<<>>)') = Len(<<>>)
      BY <2>1, ContentsNext, EmptySeq
    <3>2. Contents(<<>>)' \in Seq(Data \cup {NULL})
      BY <2>1, ContentsNext
    <3> QED
      BY <3>1, <3>2, EmptySeq
  <2> QED
    BY <1>1, <2>1, <2>2, RefinesFrom
<1> QED
  BY <1>2, <1>3, <1>4, <1>5, <1>6, <1>7, <1>8, <1>9, <1>10 DEF Next

(* The nodes and pointers implement the sequence that phOsal_Queue.c takes *)
(* the list for: every call adds or removes the object at one end.         *)
THEOREM SequenceCorrect ==
  ASSUME InsertFollows
  PROVE  Spec => ImplementsSequence
<1>1. Init => Sequence!SeqInit
  <2> SUFFICES ASSUME Init PROVE Sequence!SeqInit
    OBVIOUS
  <2>1. DOMAIN <<>> = {}
    OBVIOUS
  <2>2. Chain = <<>> /\ got = NULL
    BY DEF Init, Chain
  <2> QED
    BY <2>1, <2>2 DEF Sequence!SeqInit
<1>2. Init => ListInvariant
  BY ListInit
<1>3. ListInvariant /\ [Next]_vars => ListInvariant'
  BY ListStep
<1>4. ListInvariant /\ [Next]_vars
        => [Sequence!Add \/ Sequence!TakeEnd \/ Sequence!TakeNothing \/ Sequence!Clear]_Sequence!seqVars
  BY RefinesStep
<1> QED
  BY <1>1, <1>2, <1>3, <1>4, PTL DEF Spec, ImplementsSequence, Sequence!SeqSpec

(* A call frees every node that it takes from the list.                    *)
THEOREM NothingLeaked ==
  ASSUME InsertFollows
  PROVE  Spec => NoNodeLeak
<1>1. ASSUME ListInvariant, [Next]_vars
      PROVE  [ToSet(Chain) \ ToSet(Chain') \subseteq Nodes \ allocated']_vars
  <2>1. PICK q : Fields /\ ListOf(q)
    BY <1>1 DEF ListInvariant
  <2>2. q \in Seq(Nodes) /\ DOMAIN q = 1..Len(q) /\ Len(q) \in Nat /\ Chain = q
    BY <2>1, ListFacts, ChainList
  <2>3. \A i \in 1..Len(q) : q[i] \in Nodes
    BY <2>2
  <2> DEFINE Kept(r) == \A m \in ToSet(q) : m \in Nodes /\ (m \in ToSet(r) \/ m \notin allocated')
  <2>4. ASSUME NEW r, Fields', ListOf(r)', Kept(r)
        PROVE  ToSet(Chain) \ ToSet(Chain') \subseteq Nodes \ allocated'
    BY <2>2, <2>4, ChainNext
  <2>5. CASE UNCHANGED vars
    BY <2>5
  <2>6. ASSUME NEW n \in Nodes, NEW d \in Data, InsertTail(n, d)
        PROVE  ToSet(Chain) \ ToSet(Chain') \subseteq Nodes \ allocated'
    <3>1. Fields' /\ ListOf(Append(q, n))'
      BY <2>1, <2>6, InsertTailList
    <3>2. Kept(Append(q, n))
      <4>1. \A i \in 1..Len(q) : i \in DOMAIN Append(q, n) /\ Append(q, n)[i] = q[i]
        BY <2>2
      <4> QED
        BY <2>2, <2>3, <4>1 DEF ToSet
    <3> QED
      BY <2>4, <3>1, <3>2
  <2>7. ASSUME NEW n \in Nodes, NEW d \in Data, InsertHead(n, d)
        PROVE  ToSet(Chain) \ ToSet(Chain') \subseteq Nodes \ allocated'
    <3>1. Fields' /\ ListOf(<<n>> \o q)'
      BY <2>1, <2>7, InsertHeadList
    <3>2. Kept(<<n>> \o q)
      <4>1. \A i \in 1..Len(q) : i + 1 \in DOMAIN (<<n>> \o q) /\ (<<n>> \o q)[i + 1] = q[i]
        BY <2>2
      <4> QED
        BY <2>2, <2>3, <4>1 DEF ToSet
    <3> QED
      BY <2>4, <3>1, <3>2
  <2>8. CASE RemoveFromEmpty \/ \E n \in Nodes, d \in Data : InsertUnsupported(n, d)
    <3>1. Fields' /\ ListOf(q)'
      BY <2>1, <2>8, RemoveFromEmptyList, UnsupportedList
    <3>2. Kept(q)
      BY <2>2, <2>3 DEF ToSet
    <3> QED
      BY <2>4, <3>1, <3>2
  <2>9. CASE RemoveOnly
    <3>1. Fields' /\ ListOf(Tail(q))' /\ Len(q) = 1 /\ allocated' = allocated \ {q[1]}
      BY <2>1, <2>9, RemoveOnlyList
    <3>2. Kept(Tail(q))
      BY <2>2, <2>3, <3>1 DEF ToSet
    <3> QED
      BY <2>4, <3>1, <3>2
  <2>10. CASE RemoveHead
    <3>1. Fields' /\ ListOf(Tail(q))' /\ Len(q) > 0 /\ allocated' = allocated \ {q[1]}
      BY <2>1, <2>10, RemoveHeadList
    <3>2. Kept(Tail(q))
      <4>1. \A i \in 1..Len(q) : i = 1 \/ (i - 1 \in DOMAIN Tail(q) /\ Tail(q)[i - 1] = q[i])
        <5>1. q # <<>>
          BY <3>1, EmptySeq
        <5>2. DOMAIN Tail(q) = 1..(Len(q) - 1) /\ \A j \in 1..(Len(q) - 1) : Tail(q)[j] = q[j + 1]
          BY <2>2, <5>1
        <5> QED
          BY <2>2, <5>2
      <4> QED
        BY <2>2, <2>3, <3>1, <4>1 DEF ToSet
    <3> QED
      BY <2>4, <3>1, <3>2
  <2>11. CASE RemoveTail
    <3>1. Fields' /\ ListOf(Front(q))' /\ Len(q) > 0 /\ allocated' = allocated \ {q[Len(q)]}
      BY <2>1, <2>11, RemoveTailList
    <3>2. Kept(Front(q))
      <4>1. \A i \in 1..Len(q) : i = Len(q) \/ (i \in DOMAIN Front(q) /\ Front(q)[i] = q[i])
        <5>1. Len(q) - 1 \in Nat /\ Len(q) - 1 <= Len(q)
          BY <2>2, <3>1
        <5>2. \A k \in Nat : k <= Len(q) =>
                 DOMAIN SubSeq(q, 1, k) = 1..k /\ \A i \in 1..k : SubSeq(q, 1, k)[i] = q[i]
          BY <2>2
        <5>3. \A l \in Nat : \A i \in 1..l : i = l \/ i \in 1..(l - 1)
          OBVIOUS
        <5> QED
          BY <2>2, <5>1, <5>2, <5>3 DEF Front
      <4> QED
        BY <2>2, <2>3, <3>1, <4>1 DEF ToSet
    <3> QED
      BY <2>4, <3>1, <3>2
  <2>12. CASE Flush
    <3>1. Fields' /\ ListOf(<<>>)' /\ allocated' = allocated \ ToSet(q)
      BY <2>1, <2>12, FlushList
    <3>2. Kept(<<>>)
      BY <2>2, <2>3, <3>1 DEF ToSet
    <3> QED
      BY <2>4, <3>1, <3>2
  <2> QED
    BY <1>1, <2>5, <2>6, <2>7, <2>8, <2>9, <2>10, <2>11, <2>12 DEF Next
<1> QED
  BY <1>1, ListAlways, PTL DEF Spec, NoNodeLeak

=============================================================================
