--------------------------- MODULE BalancerProofs ---------------------------
(***************************************************************************)
(* What the slice helper and the operators of the hash ring return, for    *)
(* slices of every length, and what the steps the five Balancers share     *)
(* preserve.                                                               *)
(*                                                                         *)
(* The heart of the first part is that ranking the kept positions numbers  *)
(* them 1, 2, ... without gaps: Rank is an injection between finite sets   *)
(* of the same size, hence onto.  The heart of the ring's part is that the *)
(* k-th smallest element exists and is unique.                             *)
(***************************************************************************)
EXTENDS Balancer, ConsistentHash, SequenceTheorems, FiniteSetTheorems, TLAPS

(* The kept positions are finitely many, and each has a rank among them.   *)
LEMMA RankType ==
  ASSUME NEW n \in Nat, NEW keep \in SUBSET (1 .. n)
  PROVE  /\ IsFiniteSet(keep)
         /\ Cardinality(keep) \in Nat
         /\ \A p \in keep : Rank(keep, p) \in 1 .. Cardinality(keep)
<1>1. IsFiniteSet(keep)
  <2>1. IsFiniteSet(1 .. n)
    BY FS_Interval
  <2> QED
    BY <2>1, FS_Subset
<1>2. Cardinality(keep) \in Nat
  BY <1>1, FS_CardinalityType
<1>3. ASSUME NEW p \in keep
      PROVE  Rank(keep, p) \in 1 .. Cardinality(keep)
  <2> DEFINE upto == {q \in keep : q <= p}
  <2>1. upto \subseteq keep /\ p \in upto
    OBVIOUS
  <2>2. IsFiniteSet(upto) /\ Cardinality(upto) <= Cardinality(keep)
    BY <1>1, <2>1, FS_Subset
  <2>3. Cardinality(upto) \in Nat /\ Cardinality(upto) # 0
    BY <2>1, <2>2, FS_CardinalityType, FS_EmptySet
  <2> QED
    BY <1>2, <2>2, <2>3 DEF Rank
<1> QED
  BY <1>1, <1>2, <1>3

(* A later kept position has a greater rank.                               *)
LEMMA RankIncreasing ==
  ASSUME NEW n \in Nat, NEW keep \in SUBSET (1 .. n),
         NEW p \in keep, NEW q \in keep, p < q
  PROVE  Rank(keep, p) < Rank(keep, q)
<1> DEFINE P == {x \in keep : x <= p}
           Q == {x \in keep : x <= q}
<1>1. IsFiniteSet(keep)
  BY RankType
<1>2. Q \subseteq keep /\ P \subseteq Q /\ q \in Q /\ q \notin P
  <2>1. \A x \in keep : x \in Nat
    OBVIOUS
  <2>2. \A x \in keep : x <= p => x <= q
    BY <2>1
  <2>3. ~ (q <= p) /\ q <= q
    BY <2>1
  <2> QED
    BY <2>2, <2>3
<1>3. IsFiniteSet(Q)
  BY <1>1, <1>2, FS_Subset
<1>4. Cardinality(P) <= Cardinality(Q) /\ Cardinality(P) # Cardinality(Q)
  BY <1>2, <1>3, FS_Subset
<1>5. Cardinality(P) \in Nat /\ Cardinality(Q) \in Nat
  BY <1>2, <1>3, FS_Subset, FS_CardinalityType
<1> QED
  BY <1>4, <1>5 DEF Rank

(* Every number up to the count of kept positions is the rank of one.      *)
LEMMA RankOnto ==
  ASSUME NEW n \in Nat, NEW keep \in SUBSET (1 .. n),
         NEW k \in 1 .. Cardinality(keep)
  PROVE  \E p \in keep : Rank(keep, p) = k
<1> DEFINE size == Cardinality(keep)
           rank == [p \in keep |-> Rank(keep, p)]
<1>1. IsFiniteSet(keep) /\ size \in Nat
  BY RankType
<1>2. rank \in [keep -> 1 .. size]
  BY RankType
<1>3. \A p, q \in keep : rank[p] = rank[q] => p = q
  <2> SUFFICES ASSUME NEW p \in keep, NEW q \in keep, rank[p] = rank[q], p # q
               PROVE  FALSE
    OBVIOUS
  <2>1. p < q \/ q < p
    OBVIOUS
  <2>2. Rank(keep, p) < Rank(keep, q) \/ Rank(keep, q) < Rank(keep, p)
    BY <2>1, RankIncreasing
  <2>3. Rank(keep, p) = Rank(keep, q)
    OBVIOUS
  <2>4. Rank(keep, p) \in Nat
    BY <1>1, <1>2
  <2> QED
    BY <2>2, <2>3, <2>4
<1>4. rank \in Injection(keep, 1 .. size)
  BY <1>2, <1>3 DEF Injection, IsInjective
<1>5. IsFiniteSet(1 .. size) /\ Cardinality(1 .. size) = size
  BY <1>1, FS_Interval
<1>6. rank \in Surjection(keep, 1 .. size)
  BY <1>4, <1>5, FS_Injection
<1> QED
  BY <1>6 DEF Surjection

-----------------------------------------------------------------------------
(* The subsequence has one element per kept position, namely the element   *)
(* of s at a kept position, each kept position being used exactly once.    *)
LEMMA SubsequenceAtPositions ==
  ASSUME NEW S, NEW s \in Seq(S), NEW keep \in SUBSET DOMAIN s
  PROVE  \E pos \in [1 .. Cardinality(keep) -> keep] :
           /\ Cardinality(keep) \in Nat
           /\ SubsequenceAt(s, keep) = [k \in 1 .. Cardinality(keep) |-> s[pos[k]]]
           /\ \A j, k \in 1 .. Cardinality(keep) : pos[j] = pos[k] => j = k
           /\ \A p \in keep : \E k \in 1 .. Cardinality(keep) : pos[k] = p
           /\ \A j, k \in 1 .. Cardinality(keep) : j < k => pos[j] < pos[k]
<1> DEFINE size == Cardinality(keep)
           Pos(k) == CHOOSE p \in keep : Rank(keep, p) = k
           pos == [k \in 1 .. size |-> Pos(k)]
<1>1. Len(s) \in Nat /\ keep \in SUBSET (1 .. Len(s))
  BY LenProperties
<1>2. size \in Nat
  BY <1>1, RankType
<1>3. \A k \in 1 .. size : Pos(k) \in keep /\ Rank(keep, Pos(k)) = k
  <2> SUFFICES ASSUME NEW k \in 1 .. size
               PROVE  Pos(k) \in keep /\ Rank(keep, Pos(k)) = k
    OBVIOUS
  <2>1. \E p \in keep : Rank(keep, p) = k
    BY <1>1, RankOnto
  <2> QED
    BY <2>1
<1>4. pos \in [1 .. size -> keep]
  BY <1>3
<1>5. \A j, k \in 1 .. size : pos[j] = pos[k] => j = k
  BY <1>3
<1>6. ASSUME NEW p \in keep
      PROVE  \E k \in 1 .. size : pos[k] = p
  <2> DEFINE k == Rank(keep, p)
  <2>1. k \in 1 .. size
    BY <1>1, RankType
  <2>2. pos[k] \in keep /\ Rank(keep, pos[k]) = Rank(keep, p)
    BY <1>3, <2>1
  <2>3. ~ (pos[k] < p) /\ ~ (p < pos[k])
    <3>1. Rank(keep, p) \in Nat
      BY <2>1, <1>2
    <3>2. pos[k] < p => Rank(keep, pos[k]) < Rank(keep, p)
      BY <1>1, <2>2, RankIncreasing
    <3>3. p < pos[k] => Rank(keep, p) < Rank(keep, pos[k])
      BY <1>1, <2>2, RankIncreasing
    <3> QED
      BY <2>2, <3>1, <3>2, <3>3
  <2>4. pos[k] \in Nat /\ p \in Nat
    BY <1>1, <2>2
  <2>5. pos[k] = p
    BY <2>3, <2>4
  <2> QED
    BY <2>1, <2>5
<1>7. SubsequenceAt(s, keep) = [k \in 1 .. size |-> s[pos[k]]]
  BY DEF SubsequenceAt
<1>8. ASSUME NEW j \in 1 .. size, NEW k \in 1 .. size, j < k
      PROVE  pos[j] < pos[k]
  <2>1. pos[j] \in keep /\ pos[k] \in keep /\ Rank(keep, pos[j]) = j /\ Rank(keep, pos[k]) = k
    BY <1>3
  <2>2. ~ (pos[k] < pos[j])
    <3>1. pos[k] < pos[j] => Rank(keep, pos[k]) < Rank(keep, pos[j])
      BY <1>1, <2>1, RankIncreasing
    <3> QED
      BY <1>2, <1>8, <2>1, <3>1
  <2>3. pos[k] # pos[j]
    BY <1>2, <1>8, <2>1
  <2>4. pos[k] \in Nat /\ pos[j] \in Nat
    BY <1>1, <2>1
  <2> HIDE DEF pos
  <2> QED
    BY <2>2, <2>3, <2>4
<1> QED
  BY <1>2, <1>4, <1>5, <1>6, <1>7, <1>8

(* It is a sequence over the same set, has exactly the elements at kept    *)
(* positions, and repeats none that s does not repeat.                     *)
LEMMA SubsequenceAtProperties ==
  ASSUME NEW S, NEW s \in Seq(S), NEW keep \in SUBSET DOMAIN s
  PROVE  /\ SubsequenceAt(s, keep) \in Seq(S)
         /\ Range(SubsequenceAt(s, keep)) = {s[p] : p \in keep}
         /\ IsInjective(s) => IsInjective(SubsequenceAt(s, keep))
<1> DEFINE size == Cardinality(keep)
           t == SubsequenceAt(s, keep)
<1>1. PICK pos \in [1 .. size -> keep] :
        /\ size \in Nat
        /\ t = [k \in 1 .. size |-> s[pos[k]]]
        /\ \A j, k \in 1 .. size : pos[j] = pos[k] => j = k
        /\ \A p \in keep : \E k \in 1 .. size : pos[k] = p
  BY SubsequenceAtPositions
<1> HIDE DEF size, t
<1>2. s \in [1 .. Len(s) -> S] /\ keep \subseteq 1 .. Len(s) /\ DOMAIN s = 1 .. Len(s)
  BY LenProperties
<1>3. DOMAIN t = 1 .. size /\ \A k \in 1 .. size : t[k] = s[pos[k]] /\ pos[k] \in keep
  BY <1>1
<1>4. t \in Seq(S)
  <2>1. t \in [1 .. size -> S]
    BY <1>1, <1>2
  <2> QED
    BY <1>1, <2>1, SeqDef
<1>5. Range(t) = {s[p] : p \in keep}
  <2>1. Range(t) = {t[k] : k \in 1 .. size}
    BY <1>3 DEF Range
  <2>2. \A k \in 1 .. size : t[k] \in {s[p] : p \in keep}
    BY <1>3
  <2>3. ASSUME NEW p \in keep
        PROVE  s[p] \in {t[k] : k \in 1 .. size}
    <3>1. PICK k \in 1 .. size : pos[k] = p
      BY <1>1
    <3>2. t[k] = s[p]
      BY <1>3, <3>1
    <3> QED
      BY <3>2
  <2> QED
    BY <2>1, <2>2, <2>3
<1>6. IsInjective(s) => IsInjective(t)
  BY <1>1, <1>2, <1>3 DEF IsInjective
<1> QED
  BY <1>4, <1>5, <1>6 DEF t

(* RemoveByValue leaves a slice with the same elements less one, and       *)
(* without repetitions if there were none.                                 *)
THEOREM RemoveByValueProperties ==
  ASSUME NEW S, NEW s \in Seq(S), NEW value
  PROVE  /\ RemoveByValue(s, value) \in Seq(S)
         /\ Range(RemoveByValue(s, value)) = Range(s) \ {value}
         /\ IsInjective(s) => IsInjective(RemoveByValue(s, value))
<1> DEFINE keep == {p \in DOMAIN s : s[p] # value}
<1>1. RemoveByValue(s, value) = SubsequenceAt(s, keep)
  BY DEF RemoveByValue
<1>2. keep \in SUBSET DOMAIN s
  OBVIOUS
<1>3. {s[p] : p \in keep} = Range(s) \ {value}
  BY DEF Range
<1> HIDE DEF keep
<1> QED
  BY <1>1, <1>2, <1>3, SubsequenceAtProperties

-----------------------------------------------------------------------------
(* The hash ring.                                                          *)

\* A slice in ascending order, as sort.Search needs it.
Ascending(s) == \A p, q \in DOMAIN s : p < q => s[p] <= s[q]

(* Leaving positions out keeps the order.                                  *)
LEMMA SubsequenceAtAscending ==
  ASSUME NEW s \in Seq(Nat), NEW keep \in SUBSET DOMAIN s, Ascending(s)
  PROVE  Ascending(SubsequenceAt(s, keep))
<1> DEFINE size == Cardinality(keep)
           t == SubsequenceAt(s, keep)
<1>1. PICK pos \in [1 .. size -> keep] :
        /\ t = [k \in 1 .. size |-> s[pos[k]]]
        /\ \A j, k \in 1 .. size : j < k => pos[j] < pos[k]
  BY SubsequenceAtPositions
<1> HIDE DEF size, t
<1>2. DOMAIN t = 1 .. size /\ \A k \in 1 .. size : t[k] = s[pos[k]] /\ pos[k] \in DOMAIN s
  BY <1>1
<1>3. Ascending(t)
  BY <1>1, <1>2 DEF Ascending
<1> QED
  BY <1>3 DEF t

(* A set of numbers has a least element, and a greatest if it is finite.   *)
LEMMA LeastExists ==
  ASSUME NEW S, S \subseteq Nat, S # {}
  PROVE  \E x \in S : \A y \in S : x <= y
<1>1. \E x \in S : \A y \in S : ~ (<<y, x>> \in OpToRel(<, Nat))
  BY NatLessThanWellFounded, WFMin
<1>2. PICK x \in S : \A y \in S : ~ (y < x)
  BY <1>1 DEF OpToRel
<1> QED
  BY <1>2

(* Induction, for a set in place of a predicate.                           *)
LEMMA SetInduction ==
  ASSUME NEW n \in Nat, NEW P, 0 \in P, \A k \in 1 .. n : k - 1 \in P => k \in P
  PROVE  \A k \in 0 .. n : k \in P
<1> DEFINE missing == {k \in 0 .. n : k \notin P}
<1> SUFFICES ASSUME missing # {} PROVE FALSE
  OBVIOUS
<1>1. missing \subseteq Nat
  OBVIOUS
<1>2. PICK x \in missing : \A y \in missing : x <= y
  BY <1>1, LeastExists
<1>3. x \in 1 .. n
  BY <1>2
<1>4. x - 1 \in 0 .. n /\ ~ (x <= x - 1)
  BY <1>3
<1>5. x - 1 \in P
  BY <1>2, <1>4
<1> QED
  BY <1>2, <1>3, <1>5

\* f has the values of a loop of n steps.
Loop(n, start, step, f) ==
  /\ f[0] = start
  /\ \A k \in 1 .. n : f[k] = step[k][f[k - 1]]

(* A loop over the values of S has such a function, and it stays within S. *)
LEMMA LoopExists ==
  ASSUME NEW n \in Nat, NEW S, NEW start \in S, NEW step \in [1 .. n -> [S -> S]]
  PROVE  \E f \in [0 .. n -> S] : Loop(n, start, step, f)
<1> DEFINE P == {k \in 0 .. n : \E f \in [0 .. n -> S] : Loop(k, start, step, f)}
<1> USE DEF Loop
<1>1. 0 \in P
  <2> DEFINE f == [k \in 0 .. n |-> start]
  <2>1. f \in [0 .. n -> S] /\ Loop(0, start, step, f)
    OBVIOUS
  <2>2. 0 \in 0 .. n
    OBVIOUS
  <2> HIDE DEF f
  <2> QED
    BY <2>1, <2>2
<1>2. ASSUME NEW k \in 1 .. n, k - 1 \in P PROVE k \in P
  <2>1. PICK f \in [0 .. n -> S] : Loop(k - 1, start, step, f)
    BY <1>2
  <2>2. k - 1 \in 0 .. n /\ k \in 0 .. n
    BY <1>2
  <2>3. step[k][f[k - 1]] \in S
    BY <2>2
  <2> DEFINE g == [f EXCEPT ![k] = step[k][f[k - 1]]]
  <2>4. g \in [0 .. n -> S] /\ g[k] = step[k][f[k - 1]]
    BY <2>2, <2>3
  <2>5. \A j \in 0 .. k - 1 : g[j] = f[j]
    BY <2>2
  <2> HIDE DEF g
  <2>6. g[0] = start
    BY <1>2, <2>1, <2>5
  <2>7. ASSUME NEW j \in 1 .. k PROVE g[j] = step[j][g[j - 1]]
    <3>1. j - 1 \in 0 .. k - 1
      BY <1>2
    <3>2. CASE j = k
      BY <2>4, <2>5, <3>1, <3>2
    <3>3. CASE j # k
      <4>1. j \in 1 .. k - 1 /\ j \in 0 .. k - 1
        BY <1>2, <3>3
      <4> QED
        BY <2>1, <2>5, <3>1, <4>1
    <3> QED
      BY <3>2, <3>3
  <2> QED
    BY <2>2, <2>4, <2>6, <2>7
<1> HIDE DEF P, Loop
<1>3. \A k \in 0 .. n : k \in P
  BY <1>1, <1>2, SetInduction
<1> QED
  BY <1>3 DEF P

(* A finite set of numbers has a greatest element.                         *)
LEMMA GreatestExists ==
  ASSUME NEW S, S \subseteq Nat, S # {}, IsFiniteSet(S)
  PROVE  \E x \in S : \A y \in S : y <= x
<1> DEFINE above(x) == {y \in S : y > x}
           counts == {Cardinality(above(x)) : x \in S}
<1>1. \A x \in S : IsFiniteSet(above(x)) /\ Cardinality(above(x)) \in Nat
  BY FS_Subset, FS_CardinalityType
<1>2. counts \subseteq Nat /\ counts # {}
  BY <1>1
<1>3. PICK c \in counts : \A d \in counts : c <= d
  BY <1>2, LeastExists
<1>4. PICK x \in S : c = Cardinality(above(x))
  BY <1>3
<1>5. ASSUME NEW y \in S, ~ (y <= x)
      PROVE  FALSE
  <2>1. y \in above(x) /\ y \notin above(y)
    BY <1>5
  <2>2. above(y) \subseteq above(x)
    <3>1. x \in Nat /\ y \in Nat /\ \A z \in S : z \in Nat
      OBVIOUS
    <3>2. \A z \in S : z > y => z > x
      BY <1>5, <3>1
    <3> QED
      BY <3>2
  <2>3. Cardinality(above(y)) <= Cardinality(above(x))
        /\ Cardinality(above(y)) # Cardinality(above(x))
    BY <1>1, <2>1, <2>2, FS_Subset
  <2>4. c <= Cardinality(above(y))
    BY <1>3
  <2> HIDE DEF above
  <2> QED
    BY <1>1, <1>4, <2>3, <2>4
<1> QED
  BY <1>5

(* Counting the elements of a slice below, and up to, a number.            *)
Below(s, x) == Cardinality({p \in DOMAIN s : s[p] < x})
UpTo(s, x) == Cardinality({p \in DOMAIN s : s[p] <= x})

(* Both counts are numbers within the length, and grow with the bound.     *)
LEMMA CountTypes ==
  ASSUME NEW s \in Seq(Nat), NEW x \in Nat
  PROVE  /\ IsFiniteSet(DOMAIN s) /\ Cardinality(DOMAIN s) = Len(s)
         /\ Below(s, x) \in 0 .. Len(s) /\ UpTo(s, x) \in 0 .. Len(s)
         /\ x \in Range(s) => Below(s, x) < UpTo(s, x)
         /\ \A y \in Nat : x < y => UpTo(s, x) <= Below(s, y)
<1> DEFINE B(z) == {p \in DOMAIN s : s[p] < z}
           U(z) == {p \in DOMAIN s : s[p] <= z}
<1>1. Len(s) \in Nat /\ DOMAIN s = 1 .. Len(s) /\ s \in [1 .. Len(s) -> Nat]
  BY LenProperties
<1>2. IsFiniteSet(DOMAIN s) /\ Cardinality(DOMAIN s) = Len(s)
  <2> DEFINE n == Len(s)
  <2>1. n \in Nat /\ DOMAIN s = 1 .. n
    BY <1>1
  <2> HIDE DEF n
  <2>2. IsFiniteSet(1 .. n) /\ Cardinality(1 .. n) = n
    BY <2>1, FS_Interval
  <2> QED
    BY <2>1, <2>2 DEF n
<1>3. \A z : IsFiniteSet(B(z)) /\ Cardinality(B(z)) \in Nat /\ Cardinality(B(z)) <= Len(s)
           /\ IsFiniteSet(U(z)) /\ Cardinality(U(z)) \in Nat /\ Cardinality(U(z)) <= Len(s)
  <2> TAKE z
  <2>1. B(z) \subseteq DOMAIN s /\ U(z) \subseteq DOMAIN s
    OBVIOUS
  <2> HIDE DEF B, U
  <2> QED
    BY <1>2, <2>1, FS_Subset, FS_CardinalityType
<1>4. ASSUME x \in Range(s)
      PROVE  Cardinality(B(x)) < Cardinality(U(x))
  <2>1. PICK p \in DOMAIN s : s[p] = x
    BY <1>4 DEF Range
  <2>2. p \in U(x) /\ p \notin B(x)
    BY <2>1
  <2>3. B(x) \subseteq U(x)
    BY <1>1
  <2> HIDE DEF B, U
  <2>4. Cardinality(B(x)) <= Cardinality(U(x)) /\ Cardinality(B(x)) # Cardinality(U(x))
    BY <1>3, <2>2, <2>3, FS_Subset
  <2> QED
    BY <1>3, <2>4
<1>5. ASSUME NEW y \in Nat, x < y
      PROVE  Cardinality(U(x)) <= Cardinality(B(y))
  <2>1. U(x) \subseteq B(y)
    BY <1>1, <1>5
  <2> HIDE DEF B, U
  <2> QED
    BY <1>3, <2>1, FS_Subset
<1>6. Below(s, x) = Cardinality(B(x)) /\ UpTo(s, x) = Cardinality(U(x))
      /\ \A y : Below(s, y) = Cardinality(B(y))
  BY DEF Below, UpTo
<1> HIDE DEF B, U
<1>7. Below(s, x) \in 0 .. Len(s) /\ UpTo(s, x) \in 0 .. Len(s)
  BY <1>1, <1>3, <1>6
<1> QED
  BY <1>2, <1>4, <1>5, <1>6, <1>7

(* There is a k-th smallest element: the least one with k elements up to   *)
(* it, because the greatest of those below it would do as well otherwise.  *)
LEMMA KthExists ==
  ASSUME NEW s \in Seq(Nat), NEW k \in DOMAIN s
  PROVE  \E x \in Range(s) : Below(s, x) < k /\ UpTo(s, x) >= k
<1>1. Len(s) \in Nat /\ DOMAIN s = 1 .. Len(s) /\ s \in [1 .. Len(s) -> Nat]
  BY LenProperties
<1>2. Range(s) \subseteq Nat
  BY <1>1 DEF Range
<1>3. ASSUME NEW P \in SUBSET DOMAIN s, P # {}
      PROVE  \E p \in P : \A q \in P : s[q] <= s[p]
  <2> DEFINE S == {s[p] : p \in P}
  <2>1. S \subseteq Nat /\ S # {}
    BY <1>1, <1>3
  <2>2. IsFiniteSet(P)
    <3>1. IsFiniteSet(DOMAIN s)
      BY <1>1, FS_Interval
    <3> QED
      BY <3>1, FS_Subset
  <2>3. IsFiniteSet(S)
    <3> DEFINE f == [p \in P |-> s[p]]
    <3>1. f \in Surjection(P, S)
      BY DEF Surjection
    <3> HIDE DEF S, f
    <3> QED
      BY <2>2, <3>1, FS_Surjection
  <2>4. PICK x \in S : \A y \in S : y <= x
    BY <2>1, <2>3, GreatestExists
  <2> QED
    BY <2>4
<1> DEFINE X == {x \in Range(s) : UpTo(s, x) >= k}
<1>4. X # {}
  <2>1. PICK p \in DOMAIN s : \A q \in DOMAIN s : s[q] <= s[p]
    BY <1>3
  <2>2. {q \in DOMAIN s : s[q] <= s[p]} = DOMAIN s
    BY <2>1
  <2>3. UpTo(s, s[p]) = Len(s)
    BY <1>1, <2>2, CountTypes DEF UpTo
  <2>4. s[p] \in Range(s)
    BY DEF Range
  <2> QED
    BY <1>1, <2>3, <2>4
<1>5. PICK x \in X : \A y \in X : x <= y
  BY <1>2, <1>4, LeastExists
<1>6. ASSUME ~ (Below(s, x) < k)
      PROVE  FALSE
  <2> DEFINE P == {p \in DOMAIN s : s[p] < x}
  <2>1. Below(s, x) \in Nat /\ Below(s, x) >= k
    BY <1>1, <1>2, <1>5, <1>6, CountTypes
  <2>2. P # {}
    <3>1. Cardinality({}) = 0
      BY FS_EmptySet
    <3>2. Cardinality(P) = Below(s, x)
      BY DEF Below
    <3>3. k \in Nat /\ k >= 1
      BY <1>1
    <3>4. Cardinality(P) # Cardinality({})
      BY <2>1, <3>1, <3>2, <3>3
    <3> HIDE DEF P
    <3> QED
      BY <3>4
  <2>3. PICK p \in P : \A q \in P : s[q] <= s[p]
    BY <1>3, <2>2
  <2>4. s[p] \in Nat /\ x \in Nat /\ s[p] < x /\ s[p] \in Range(s)
    BY <1>1, <1>2, <1>5, <2>3 DEF Range
  <2>5. {q \in DOMAIN s : s[q] <= s[p]} = P
    BY <1>1, <2>3, <2>4
  <2>6. UpTo(s, s[p]) = Below(s, x)
    BY <2>5 DEF UpTo, Below
  <2>7. s[p] \in X
    BY <2>1, <2>4, <2>6
  <2> QED
    BY <1>5, <2>4, <2>7
<1> QED
  BY <1>5, <1>6

(* sort.Sort: the same elements, in ascending order.                       *)
LEMMA SortedProperties ==
  ASSUME NEW s \in Seq(Nat)
  PROVE  /\ Sorted(s) \in Seq(Nat)
         /\ Range(Sorted(s)) = Range(s)
         /\ Ascending(Sorted(s))
<1> DEFINE t == Sorted(s)
<1>1. Len(s) \in Nat /\ DOMAIN s = 1 .. Len(s) /\ s \in [1 .. Len(s) -> Nat]
  BY LenProperties
<1>2. Range(s) \subseteq Nat
  BY <1>1 DEF Range
<1>3. DOMAIN t = DOMAIN s /\ t = [k \in DOMAIN s |-> t[k]]
  <2> DEFINE E(k) == CHOOSE x \in Range(s) :
                       /\ Cardinality({p \in DOMAIN s : s[p] < x}) < k
                       /\ Cardinality({p \in DOMAIN s : s[p] <= x}) >= k
  <2>1. t = [k \in DOMAIN s |-> E(k)]
    BY DEF Sorted
  <2> HIDE DEF E, t
  <2> QED
    BY <2>1
<1>4. ASSUME NEW k \in DOMAIN s
      PROVE  t[k] \in Range(s) /\ Below(s, t[k]) < k /\ UpTo(s, t[k]) >= k
  <2>1. t[k] = CHOOSE x \in Range(s) : Below(s, x) < k /\ UpTo(s, x) >= k
    BY DEF Sorted, Below, UpTo
  <2>2. \E x \in Range(s) : Below(s, x) < k /\ UpTo(s, x) >= k
    BY KthExists
  <2> HIDE DEF t
  <2> QED
    BY <2>1, <2>2
<1> HIDE DEF t
<1>5. t \in Seq(Nat)
  <2>1. t \in [1 .. Len(s) -> Nat]
    BY <1>1, <1>2, <1>3, <1>4
  <2> QED
    BY <1>1, <2>1, SeqDef
<1>6. \A x \in Range(s) : x \in Nat /\ Below(s, x) \in Nat /\ UpTo(s, x) \in Nat
  BY <1>1, <1>2, CountTypes
<1>7. Ascending(t)
  <2> SUFFICES ASSUME NEW j \in DOMAIN s, NEW k \in DOMAIN s, j < k, t[k] < t[j]
               PROVE  FALSE
    BY <1>2, <1>3, <1>4 DEF Ascending
  <2>1. UpTo(s, t[k]) <= Below(s, t[j])
    BY <1>4, <1>6, CountTypes
  <2> QED
    BY <1>1, <1>4, <1>6, <2>1
<1>8. ASSUME NEW x \in Range(s)
      PROVE  x \in Range(t)
  <2> DEFINE k == UpTo(s, x)
  <2>1. k \in DOMAIN s /\ Below(s, x) < k
    BY <1>1, <1>6, CountTypes
  <2>2. t[k] \in Range(s) /\ Below(s, t[k]) < k /\ UpTo(s, t[k]) >= k
    BY <1>4, <2>1
  <2> DEFINE y == t[k]
  <2>3. y \in Nat /\ x \in Nat /\ Below(s, y) \in Nat /\ UpTo(s, y) \in Nat
        /\ Below(s, x) \in Nat /\ k \in Nat
    BY <1>6, <2>2
  <2>4. ~ (x < y)
    <3>1. x < y => k <= Below(s, y)
      BY <2>3, CountTypes
    <3> HIDE DEF y, k
    <3> QED
      BY <2>2, <2>3, <3>1 DEF y
  <2>5. ~ (y < x)
    <3>1. y < x => UpTo(s, y) <= Below(s, x)
      BY <2>3, CountTypes
    <3> HIDE DEF y, k
    <3> QED
      BY <2>1, <2>2, <2>3, <3>1 DEF y
  <2>6. t[k] = x
    BY <2>3, <2>4, <2>5
  <2> QED
    BY <1>3, <2>1, <2>6 DEF Range
<1>9. Range(t) \subseteq Range(s)
  BY <1>3, <1>4 DEF Range
<1> QED
  BY <1>5, <1>7, <1>8, <1>9 DEF t

(* The positions clockwise of a hash: those not below it or, when there    *)
(* are none, all of them.                                                  *)
From(positions, hash) ==
  IF {p \in positions : p >= hash} = {} THEN positions ELSE {p \in positions : p >= hash}

(* Clockwise is the least of them, and the only one that is.               *)
LEMMA ClockwiseProperties ==
  ASSUME NEW positions, positions \subseteq Nat, positions # {}, NEW hash \in Nat
  PROVE  /\ Clockwise(positions, hash) \in From(positions, hash)
         /\ Clockwise(positions, hash) \in positions
         /\ \A c \in From(positions, hash) :
              (\A q \in From(positions, hash) : c <= q) => Clockwise(positions, hash) = c
         /\ \A q \in From(positions, hash) : Clockwise(positions, hash) <= q
<1> DEFINE from == From(positions, hash)
           least == CHOOSE p \in from : \A q \in from : p <= q
<1>1. from \subseteq positions /\ from # {}
  BY DEF From
<1>2. from \subseteq Nat
  BY <1>1
<1>3. Clockwise(positions, hash) = least
  BY DEF Clockwise, From
<1> HIDE DEF from
<1>4. \E p \in from : \A q \in from : p <= q
  BY <1>1, <1>2, LeastExists
<1>5. least \in from /\ \A q \in from : least <= q
  BY <1>4
<1>6. ASSUME NEW c \in from, \A q \in from : c <= q PROVE least = c
  <2>1. c <= least /\ least <= c /\ c \in Nat /\ least \in Nat
    BY <1>2, <1>5, <1>6
  <2> HIDE DEF least
  <2> QED
    BY <2>1
<1> HIDE DEF least
<1> QED
  BY <1>1, <1>3, <1>5, <1>6 DEF from

(* sort.Search: everything before the position it finds is below the hash, *)
(* and what is there, unless it is past the end, is not.                   *)
LEMMA SearchProperties ==
  ASSUME NEW numbers \in Seq(Nat), NEW hash \in Nat
  PROVE  /\ Search(numbers, hash) \in 1 .. Len(numbers) + 1
         /\ \A q \in 1 .. Search(numbers, hash) - 1 : numbers[q] < hash
         /\ Search(numbers, hash) <= Len(numbers) => numbers[Search(numbers, hash)] >= hash
<1> DEFINE n == Len(numbers)
           A == {p \in 1 .. n : numbers[p] >= hash}
           Found(p) == /\ \A q \in 1 .. p - 1 : numbers[q] < hash
                       /\ p <= n => numbers[p] >= hash
<1>1. n \in Nat /\ \A p \in 1 .. n : numbers[p] \in Nat
  BY LenProperties, ElementOfSeq
<1> HIDE DEF n
<1>2. \E p \in 1 .. n + 1 : Found(p)
  <2>1. CASE A = {}
    <3>1. \A q \in 1 .. n : numbers[q] < hash
      BY <1>1, <2>1
    <3>2. n + 1 \in 1 .. n + 1 /\ (n + 1) - 1 = n /\ ~ (n + 1 <= n)
      BY <1>1
    <3>3. Found(n + 1)
      BY <3>1, <3>2
    <3> QED
      BY <3>2, <3>3
  <2>2. CASE A # {}
    <3>1. A \subseteq Nat
      BY <1>1
    <3>2. PICK p \in A : \A q \in A : p <= q
      BY <2>2, <3>1, LeastExists
    <3>3. ASSUME NEW q \in 1 .. p - 1 PROVE numbers[q] < hash
      <4>1. q \in 1 .. n /\ ~ (p <= q)
        BY <1>1, <3>2
      <4>2. q \notin A
        BY <3>2, <4>1
      <4> QED
        BY <1>1, <4>1, <4>2
    <3>4. p \in 1 .. n + 1 /\ numbers[p] >= hash
      BY <1>1, <3>2
    <3> QED
      BY <3>3, <3>4
  <2> QED
    BY <2>1, <2>2
<1>3. Search(numbers, hash) = CHOOSE p \in 1 .. n + 1 : Found(p)
  BY DEF Search, n
<1> HIDE DEF Found
<1>4. Search(numbers, hash) \in 1 .. n + 1 /\ Found(Search(numbers, hash))
  BY <1>2, <1>3
<1> QED
  BY <1>4 DEF Found, n

(* GetNode asks for the node at the next position clockwise.               *)
LEMMA GetNodeClockwise ==
  ASSUME NEW ring, ring.numbers \in Seq(Nat), Ascending(ring.numbers),
         ring.numbers # <<>>, NEW hash \in Nat
  PROVE  /\ Range(ring.numbers) \subseteq Nat /\ Range(ring.numbers) # {}
         /\ GetNode(ring, hash) = ring.nodes[Clockwise(Range(ring.numbers), hash)]
<1> DEFINE s == ring.numbers
           n == Len(s)
           found == Search(s, hash)
           p == IF found = n + 1 THEN 1 ELSE found
           P == Range(s)
<1>1. n \in Nat \ {0} /\ DOMAIN s = 1 .. n /\ \A k \in 1 .. n : s[k] \in Nat
  BY LenProperties, ElementOfSeq, EmptySeq
<1>2. /\ found \in 1 .. n + 1
      /\ \A q \in 1 .. found - 1 : s[q] < hash
      /\ found <= n => s[found] >= hash
  BY SearchProperties
<1>3. GetNode(ring, hash) = ring.nodes[s[p]]
  BY DEF GetNode
<1>4. \A j, k \in 1 .. n : j <= k => s[j] <= s[k]
  <2> SUFFICES ASSUME NEW j \in 1 .. n, NEW k \in 1 .. n, j <= k PROVE s[j] <= s[k]
    OBVIOUS
  <2>1. CASE j < k
    BY <1>1, <2>1 DEF Ascending
  <2>2. CASE j = k
    <3>1. s[j] \in Nat
      BY <1>1
    <3> QED
      BY <2>2, <3>1
  <2> QED
    BY <1>1, <2>1, <2>2
<1>9. \A x : x \in P <=> \E k \in 1 .. n : s[k] = x
  BY <1>1 DEF Range
<1> HIDE DEF s, n, found
<1>5. p \in 1 .. n
  BY <1>1, <1>2
<1>6. P \subseteq Nat /\ s[p] \in P
  BY <1>1, <1>5, <1>9
<1>7. s[p] \in From(P, hash) /\ \A q \in From(P, hash) : s[p] <= q
  <2>1. CASE found = n + 1
    <3>1. p = 1 /\ found - 1 = n
      BY <1>1, <2>1
    <3>2. \A k \in 1 .. n : s[k] < hash
      BY <1>2, <3>1
    <3>3. {x \in P : x >= hash} = {}
      BY <1>1, <1>9, <3>2
    <3>4. From(P, hash) = P
      BY <3>3 DEF From
    <3>5. \A k \in 1 .. n : s[1] <= s[k]
      <4>1. 1 \in 1 .. n /\ \A k \in 1 .. n : 1 <= k
        BY <1>1
      <4> QED
        BY <1>4, <4>1
    <3> HIDE DEF P
    <3> QED
      BY <1>6, <1>9, <3>1, <3>4, <3>5
  <2>2. CASE found # n + 1
    <3>1. p = found /\ found \in 1 .. n /\ s[found] >= hash
      BY <1>1, <1>2, <2>2
    <3>2. s[found] \in {x \in P : x >= hash}
      BY <1>6, <3>1
    <3>3. From(P, hash) = {x \in P : x >= hash}
      BY <3>2 DEF From
    <3>4. ASSUME NEW k \in 1 .. n, s[k] >= hash PROVE s[found] <= s[k]
      <4>1. k \notin 1 .. found - 1
        BY <1>1, <1>2, <3>4
      <4>2. found <= k
        BY <1>1, <3>1, <4>1
      <4> QED
        BY <1>4, <3>1, <4>2
    <3>5. \A x \in {y \in P : y >= hash} : s[found] <= x
      BY <1>9, <3>4
    <3> HIDE DEF P
    <3> QED
      BY <3>1, <3>2, <3>3, <3>5
  <2> QED
    BY <2>1, <2>2
<1> HIDE DEF p, P
<1>8. Clockwise(P, hash) = s[p]
  BY <1>6, <1>7, ClockwiseProperties
<1> QED
  BY <1>3, <1>6, <1>8 DEF P, s

(* More positions: either the answer is a new one or it stays.             *)
LEMMA ClockwiseStays ==
  ASSUME NEW few, NEW many, few # {}, few \subseteq many, many \subseteq Nat,
         NEW hash \in Nat, Clockwise(many, hash) \in few
  PROVE  Clockwise(few, hash) = Clockwise(many, hash)
<1> DEFINE c == Clockwise(many, hash)
<1>1. c \in From(many, hash) /\ \A q \in From(many, hash) : c <= q
  BY ClockwiseProperties
<1>2. c \in few
  OBVIOUS
<1> HIDE DEF c
<1>3. c \in From(few, hash) /\ From(few, hash) \subseteq From(many, hash)
  BY <1>1, <1>2 DEF From
<1>4. \A q \in From(few, hash) : c <= q
  BY <1>1, <1>3
<1> QED
  BY <1>3, <1>4, ClockwiseProperties DEF c

(* The two halves of a snapshot are in step.                               *)
RingOK(ring) ==
  /\ ring.numbers \in Seq(Nat) /\ Ascending(ring.numbers)
  /\ Range(ring.numbers) = DOMAIN ring.nodes

(* The empty ring.                                                         *)
LEMMA NewRingOK == RingOK(NewConsistentHash) /\ DOMAIN NewConsistentHash.nodes = {}
<1>1. <<>> \in Seq(Nat) /\ Range(<<>>) = {}
  BY EmptySeq DEF Range
<1>2. Ascending(<<>>)
  BY DEF Ascending
<1> QED
  BY <1>1, <1>2 DEF RingOK, NewConsistentHash

(* AddNode gives the node its positions, those of others included, and     *)
(* leaves the rest of the ring alone.                                      *)
LEMMA AddNodeProperties ==
  ASSUME NEW ring, RingOK(ring), NEW node, NEW hashes \in Seq(Nat)
  PROVE  LET new == AddNode(ring, node, hashes) IN
         /\ RingOK(new)
         /\ DOMAIN new.nodes = DOMAIN ring.nodes \cup Positions(hashes)
         /\ \A h \in DOMAIN new.nodes :
              new.nodes[h] = IF h \in Positions(hashes) THEN node ELSE ring.nodes[h]
<1> DEFINE new == AddNode(ring, node, hashes)
           s == ring.numbers \o hashes
<1>1. DOMAIN new.nodes = DOMAIN ring.nodes \cup Positions(hashes)
  BY DEF AddNode
<1>2. \A h \in DOMAIN new.nodes :
        new.nodes[h] = IF h \in Positions(hashes) THEN node ELSE ring.nodes[h]
  BY DEF AddNode
<1>3. new.numbers = Sorted(s)
  BY DEF AddNode
<1>4. ring.numbers \in Seq(Nat)
  BY DEF RingOK
<1>5. s \in Seq(Nat) /\ Range(s) = Range(ring.numbers) \cup Range(hashes)
  BY <1>4, ConcatProperties, RangeConcatenation
<1>6. /\ new.numbers \in Seq(Nat) /\ Ascending(new.numbers)
      /\ Range(new.numbers) = Range(ring.numbers) \cup Range(hashes)
  BY <1>3, <1>5, SortedProperties
<1>7. Range(new.numbers) = DOMAIN new.nodes
  BY <1>1, <1>6 DEF RingOK, Positions
<1>8. RingOK(new)
  BY <1>6, <1>7 DEF RingOK
<1> QED
  BY <1>1, <1>2, <1>8

(* RemoveNode takes the node's positions off both halves.                  *)
LEMMA RemoveNodeProperties ==
  ASSUME NEW ring, RingOK(ring), NEW hashes
  PROVE  LET new == RemoveNode(ring, hashes) IN
         /\ RingOK(new)
         /\ DOMAIN new.nodes = DOMAIN ring.nodes \ Positions(hashes)
         /\ \A h \in DOMAIN new.nodes : new.nodes[h] = ring.nodes[h]
<1> DEFINE new == RemoveNode(ring, hashes)
           s == ring.numbers
           keep == {p \in DOMAIN s : s[p] \notin Positions(hashes)}
<1>1. DOMAIN new.nodes = DOMAIN ring.nodes \ Positions(hashes)
      /\ \A h \in DOMAIN new.nodes : new.nodes[h] = ring.nodes[h]
  BY DEF RemoveNode, Restrict
<1>2. new.numbers = SubsequenceAt(s, keep)
  BY DEF RemoveNode
<1>3. keep \in SUBSET DOMAIN s /\ {s[p] : p \in keep} = Range(s) \ Positions(hashes)
  BY DEF Range
<1>4. s \in Seq(Nat) /\ Ascending(s) /\ Range(s) = DOMAIN ring.nodes
  BY DEF RingOK
<1> HIDE DEF keep, s
<1>5. /\ new.numbers \in Seq(Nat) /\ Ascending(new.numbers)
      /\ Range(new.numbers) = Range(s) \ Positions(hashes)
  BY <1>2, <1>3, <1>4, SubsequenceAtProperties, SubsequenceAtAscending
<1>6. RingOK(new)
  BY <1>1, <1>4, <1>5 DEF RingOK
<1> QED
  BY <1>1, <1>6

(* GetNode on a snapshot that has positions.                               *)
LEMMA LookupProperties ==
  ASSUME NEW ring, RingOK(ring), DOMAIN ring.nodes # {}, NEW hash \in Nat
  PROVE  /\ DOMAIN ring.nodes \subseteq Nat
         /\ GetNode(ring, hash) = ring.nodes[Clockwise(DOMAIN ring.nodes, hash)]
<1>1. /\ ring.numbers \in Seq(Nat) /\ Ascending(ring.numbers)
      /\ Range(ring.numbers) = DOMAIN ring.nodes
  BY DEF RingOK
<1>2. ring.numbers # <<>>
  BY <1>1 DEF Range
<1> QED
  BY <1>1, <1>2, GetNodeClockwise

-----------------------------------------------------------------------------
(* The Balancers' common steps.                                            *)

(* Every Backend has an entry in serversMap, the last one with its key.    *)
LEMMA EntryOfType ==
  ASSUME NEW b \in Backends
  PROVE  EntryOf(b) \in Backends
<1> DEFINE same == {c \in Backends : Hash[c] = Hash[b]}
           gaps == {N - c : c \in same}
<1>1. gaps \subseteq Nat /\ gaps # {}
  BY BalancerAssumption DEF Backends
<1>2. \E x \in gaps : \A y \in gaps : ~ (<<y, x>> \in OpToRel(<, Nat))
  BY <1>1, NatLessThanWellFounded, WFMin
<1>3. PICK x \in gaps : \A y \in gaps : ~ (y < x)
  BY <1>1, <1>2 DEF OpToRel
<1>4. PICK c \in same : x = N - c
  BY <1>3
<1>5. ASSUME NEW d \in same
      PROVE  d <= c
  <2>1. ~ (N - d < N - c)
    BY <1>3, <1>4
  <2>2. N \in Nat /\ c \in Nat /\ d \in Nat
    BY <1>4, BalancerAssumption DEF Backends
  <2> QED
    BY <2>1, <2>2
<1>6. c \in Backends /\ Hash[c] = Hash[b]
      /\ \A d \in Backends : Hash[d] = Hash[b] => d <= c
  BY <1>4, <1>5
<1> QED
  BY <1>6 DEF EntryOf

(* With distinct keys every Backend has its own entry.                     *)
LEMMA EntryOfDistinct ==
  ASSUME IsInjective(Hash), NEW b \in Backends
  PROVE  EntryOf(b) = b
<1>1. \A c \in Backends : Hash[c] = Hash[b] => c = b
  BY BalancerAssumption DEF IsInjective
<1>2. b <= b
  BY BalancerAssumption DEF Backends
<1> QED
  BY <1>1, <1>2 DEF EntryOf

(* The entries are some of the Backends.                                   *)
LEMMA ServersMapType ==
  /\ serversMap \subseteq Backends
  /\ IsFiniteSet(serversMap)
  /\ Cardinality(serversMap) \in Nat
<1>1. serversMap \subseteq Backends
  BY EntryOfType DEF serversMap
<1>2. IsFiniteSet(Backends)
  BY BalancerAssumption, FS_Interval DEF Backends
<1> QED
  BY <1>1, <1>2, FS_Subset, FS_CardinalityType

-----------------------------------------------------------------------------
(* The constructor's state has the types it should.                        *)
LEMMA NewBalancerType == NewBalancer => BalancerTypeOK
<1> SUFFICES ASSUME NewBalancer PROVE BalancerTypeOK
  OBVIOUS
<1>1. 1 \in Backends
  BY BalancerAssumption DEF Backends
<1>2. DOMAIN stats = {}
  BY DEF NewBalancer
<1>3. /\ phase \in [Requests -> {"idle", "loaded", "proxying", "refused"}]
      /\ picked \in [Requests -> Backends \cup {Nil}]
  BY DEF NewBalancer
<1> QED
  BY <1>1, <1>2, <1>3 DEF NewBalancer, BalancerTypeOK, CheckerLocations

(* The loop variable stays a Backend.                                      *)
LEMMA NextBackendType ==
  ASSUME cur \in Backends, NextBackend
  PROVE  checker' \in CheckerLocations /\ cur' \in Backends
  BY BalancerAssumption DEF NextBackend, Backends, CheckerLocations

(* The steps of the health checker preserve the type invariant.            *)
LEMMA CheckerTypeOK ==
  ASSUME BalancerTypeOK
  PROVE  /\ healthCheckerStep => BalancerTypeOK'
         /\ Probe => BalancerTypeOK'
         /\ \A from, to \in CheckerLocations : CheckerStep(from, to) => BalancerTypeOK'
         /\ StoreIsHostAlive => BalancerTypeOK'
<1> USE DEF BalancerTypeOK, checkerVars, shutdownVars, statsVars, requestVars
<1>1. ASSUME healthCheckerStep PROVE BalancerTypeOK'
  <2>1. checker' \in CheckerLocations /\ cur' \in Backends
    BY <1>1, BalancerAssumption
    DEF healthCheckerStep, SelectTick, SelectStop, LoopHead, CheckerLocations, Backends
  <2> QED
    BY <1>1, <2>1 DEF healthCheckerStep, SelectTick, SelectStop, LoopHead
<1>2. Probe => BalancerTypeOK'
  <2> SUFFICES ASSUME Probe PROVE BalancerTypeOK'
    OBVIOUS
  <2>1. checker' \in CheckerLocations /\ cur' \in Backends
    BY NextBackendType DEF Probe, CheckerLocations
  <2> QED
    BY <2>1 DEF Probe
<1>3. ASSUME NEW from \in CheckerLocations, NEW to \in CheckerLocations,
             CheckerStep(from, to)
      PROVE  BalancerTypeOK'
  BY <1>3 DEF CheckerStep
<1>4. StoreIsHostAlive => BalancerTypeOK'
  <2> SUFFICES ASSUME NEW from, NEW value \in BOOLEAN, StoreFlag(from, value)
               PROVE  BalancerTypeOK'
    BY DEF StoreIsHostAlive
  <2>1. checker' \in CheckerLocations /\ cur' \in Backends
    BY NextBackendType DEF StoreFlag
  <2>2. isHostAlive' \in [Backends -> BOOLEAN]
    BY DEF StoreFlag
  <2> QED
    BY <2>1, <2>2 DEF StoreFlag
<1> QED
  BY <1>1, <1>2, <1>3, <1>4

(* So do the calls of Stats and Shutdown and the changes of a host.        *)
LEMMA CallsTypeOK ==
  ASSUME BalancerTypeOK
  PROVE  /\ StatsCall => BalancerTypeOK'
         /\ ShutdownCall => BalancerTypeOK'
         /\ \A b \in Backends : Flip(b) => BalancerTypeOK'
<1> USE DEF BalancerTypeOK, checkerVars, shutdownVars, statsVars, requestVars
<1>1. ASSUME StatsStart PROVE BalancerTypeOK'
  <2>1. todo' \subseteq Backends
    BY <1>1, ServersMapType DEF StatsStart
  <2>2. DOMAIN stats' \subseteq Nat /\ \A k \in DOMAIN stats' : stats'[k] \in Rows
    BY <1>1, ServersMapType DEF StatsStart, ZeroRow, Rows
  <2> QED
    BY <1>1, <2>1, <2>2 DEF StatsStart
<1>2. ASSUME NEW e \in serversMap, StatsRow(e) PROVE BalancerTypeOK'
  <2>1. e \in Backends
    BY ServersMapType
  <2>2. Row(e) \in Rows
    BY <2>1 DEF Row, Rows
  <2>3. DOMAIN stats' \subseteq Nat /\ \A k \in DOMAIN stats' : stats'[k] \in Rows
    BY <1>2, <2>2 DEF StatsRow
  <2>4. scrape' \in {"idle", "reading", "filled", "panicked"} /\ todo' \subseteq Backends
    BY <1>2 DEF StatsRow
  <2> QED
    BY <1>2, <2>3, <2>4 DEF StatsRow
<1>3. ASSUME StatsReturn PROVE BalancerTypeOK'
  BY <1>3 DEF StatsReturn
<1>4. ShutdownCall => BalancerTypeOK'
  BY ServersMapType
  DEF ShutdownCall, ShutdownStop, ShutdownJoined, ShutdownTimeout, ShutdownClose
<1>5. \A b \in Backends : Flip(b) => BalancerTypeOK'
  BY DEF Flip
<1> QED
  BY <1>1, <1>2, <1>3, <1>4, <1>5 DEF StatsCall

(* And the steps of a request, as long as it picks a Backend.              *)
LEMMA RequestTypeOK ==
  ASSUME BalancerTypeOK, NEW r \in Requests
  PROVE  /\ \A empty \in BOOLEAN : Load(r, empty) => BalancerTypeOK'
         /\ \A b \in Backends : Pick(r, b) => BalancerTypeOK'
         /\ Respond(r) => BalancerTypeOK'
<1> USE DEF BalancerTypeOK, checkerVars, shutdownVars, statsVars
<1>1. ASSUME NEW empty \in BOOLEAN, Load(r, empty) PROVE BalancerTypeOK'
  BY <1>1 DEF Load
<1>2. ASSUME NEW b \in Backends, Pick(r, b) PROVE BalancerTypeOK'
  BY <1>2 DEF Pick
<1>3. ASSUME Respond(r) PROVE BalancerTypeOK'
  BY <1>3 DEF Respond, Nil
<1> QED
  BY <1>1, <1>2, <1>3

-----------------------------------------------------------------------------
(* With distinct keys the entries are the Backends, and a Backend's row is *)
(* its position in the configuration.                                      *)
LEMMA StatsIdxDistinct ==
  ASSUME IsInjective(Hash)
  PROVE  /\ serversMap = Backends
         /\ Cardinality(serversMap) = N
         /\ \A b \in Backends : statsIdx(b) = b - 1
<1>1. serversMap = Backends
  BY EntryOfDistinct DEF serversMap
<1>2. N \in Nat /\ Hash \in [Backends -> Nat]
  BY BalancerAssumption
<1>3. Cardinality(Backends) = N
  BY <1>2, FS_Interval DEF Backends
<1>4. ASSUME NEW b \in Backends
      PROVE  statsIdx(b) = b - 1
  <2> DEFINE S == 1 .. b - 1
             T == {Hash[c] : c \in S}
             f == [c \in S |-> Hash[c]]
  <2>1. b \in Nat /\ 1 <= b /\ S \subseteq Backends
    BY <1>2 DEF Backends
  <2>2. IsFiniteSet(S) /\ Cardinality(S) = b - 1
    BY <2>1, FS_Interval
  <2>3. f \in Surjection(S, T)
    BY DEF Surjection
  <2>4. f \in Injection(S, T)
    BY <1>2, <2>1 DEF Injection, IsInjective
  <2>5. Cardinality(T) = Cardinality(S)
    BY <2>2, <2>3, <2>4, FS_Surjection
  <2> QED
    BY <2>2, <2>5 DEF statsIdx
<1> QED
  BY <1>1, <1>3, <1>4

(* While Stats runs, the rows that have been visited are in their places.  *)
StatsInv ==
  /\ scrape # "panicked"
  /\ scrape \in {"reading", "filled"} =>
       /\ DOMAIN stats = 0 .. N - 1
       /\ \A b \in Backends \ todo : stats[b - 1].proxy = b
  /\ scrape = "filled" => todo = {}

(* No scrape runs when the Balancer is made.                               *)
LEMMA StatsInvInit == NewBalancer => StatsInv
  BY DEF NewBalancer, StatsInv

(* Only the scrape writes its slice.                                       *)
LEMMA StatsInvUnchanged ==
  ASSUME StatsInv, UNCHANGED statsVars
  PROVE  StatsInv'
  BY DEF StatsInv, statsVars

(* With distinct keys, every step of Stats keeps that, in whatever order   *)
(* the map is iterated.                                                    *)
LEMMA StatsInvCall ==
  ASSUME IsInjective(Hash), StatsInv, StatsCall
  PROVE  StatsInv'
<1>1. N \in Nat
  BY BalancerAssumption
<1>2. CASE StatsStart
  <2>1. scrape' = "reading" /\ todo' = Backends /\ DOMAIN stats' = 0 .. N - 1
    BY <1>1, <1>2, StatsIdxDistinct DEF StatsStart
  <2> QED
    BY <2>1 DEF StatsInv
<1>3. ASSUME NEW e \in serversMap, StatsRow(e)
      PROVE  StatsInv'
  <2>1. e \in Backends /\ statsIdx(e) = e - 1 /\ DOMAIN stats = 0 .. N - 1
    BY <1>3, StatsIdxDistinct DEF StatsRow, StatsInv
  <2>2. e - 1 \in DOMAIN stats
    BY <1>1, <2>1 DEF Backends
  <2>3. /\ stats' = [stats EXCEPT ![e - 1] = Row(e)]
        /\ scrape' = (IF todo = {e} THEN "filled" ELSE "reading")
        /\ todo' = todo \ {e}
    BY <1>3, <2>1, <2>2 DEF StatsRow
  <2>4. DOMAIN stats' = 0 .. N - 1
    BY <2>1, <2>3
  <2>5. ASSUME NEW b \in Backends \ todo'
        PROVE  stats'[b - 1].proxy = b
    <3>1. b - 1 \in DOMAIN stats
      BY <1>1, <2>1 DEF Backends
    <3>2. CASE b = e
      BY <2>2, <2>3, <3>2 DEF Row
    <3>3. CASE b # e
      <4>1. b - 1 # e - 1
        BY <2>1, <3>3 DEF Backends
      <4>2. stats'[b - 1] = stats[b - 1]
        BY <2>3, <3>1, <4>1
      <4>3. b \in Backends \ todo
        BY <2>3, <3>3
      <4> QED
        BY <1>3, <4>2, <4>3 DEF StatsInv, StatsRow
    <3> QED
      BY <3>2, <3>3
  <2> QED
    BY <2>3, <2>4, <2>5 DEF StatsInv
<1>4. CASE StatsReturn
  BY <1>4 DEF StatsReturn, StatsInv
<1> QED
  BY <1>2, <1>3, <1>4 DEF StatsCall

(* When Stats returns, every row is there.                                 *)
LEMMA StatsInvComplete == StatsInv => StatsComplete
  BY DEF StatsInv, StatsComplete

=============================================================================
