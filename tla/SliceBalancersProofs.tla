------------------------ MODULE SliceBalancersProofs ------------------------
(***************************************************************************)
(* RoundRobin, WRoundRobin and Random for any number of Backends and       *)
(* requests, and any weights.  What differs between the three is how many  *)
(* slots a Backend has and how a position is chosen, so the invariants are *)
(* shown once, for a slice balancer with any shares that chooses any       *)
(* position, and each of the three is shown to be one.                     *)
(***************************************************************************)
EXTENDS MCSliceBalancers, SliceProofs

-----------------------------------------------------------------------------
(* Counting the slots of a Backend.                                        *)

(* A finite set and one it maps to one-to-one have the same size.          *)
LEMMA SameSize ==
  ASSUME NEW A, NEW B, IsFiniteSet(A), NEW f \in [A -> B],
         \A x, y \in A : f[x] = f[y] => x = y,
         \A z \in B : \E x \in A : f[x] = z
  PROVE  IsFiniteSet(B) /\ Cardinality(B) = Cardinality(A)
<1>1. f \in Surjection(A, B) /\ f \in Injection(A, B)
  BY DEF Surjection, Injection, IsInjective
<1> QED
  BY <1>1, FS_Surjection

(* The positions of an element are finitely many, and none only if the     *)
(* slice does not have it.                                                 *)
LEMMA CountType ==
  ASSUME NEW S, NEW s \in Seq(S), NEW x
  PROVE  /\ IsFiniteSet({p \in DOMAIN s : s[p] = x})
         /\ Count(s, x) \in Nat
         /\ Count(s, x) # 0 <=> x \in Range(s)
<1> DEFINE P == {p \in DOMAIN s : s[p] = x}
<1>1. IsFiniteSet(DOMAIN s)
  <2>1. Len(s) \in Nat /\ DOMAIN s = 1 .. Len(s)
    BY LenProperties
  <2> QED
    BY <2>1, FS_Interval
<1>2. IsFiniteSet(P) /\ Cardinality(P) \in Nat
  BY <1>1, FS_Subset, FS_CardinalityType
<1>3. P # {} <=> x \in Range(s)
  BY DEF Range
<1> HIDE DEF P
<1>4. Cardinality(P) = 0 <=> P = {}
  BY <1>2, FS_EmptySet
<1> QED
  BY <1>2, <1>3, <1>4 DEF P, Count

(* A shuffle has the same elements, each as often.                         *)
LEMMA ShuffleProperties ==
  ASSUME NEW S, NEW s \in Seq(S), NEW t \in Shuffle(s)
  PROVE  /\ t \in Seq(S) /\ Len(t) = Len(s)
         /\ Range(t) = Range(s)
         /\ \A x : Count(t, x) = Count(s, x)
<1>1. Len(s) \in Nat /\ DOMAIN s = 1 .. Len(s) /\ Range(s) \subseteq S
  BY LenProperties, ElementOfSeq DEF Range
<1> DEFINE n == Len(s)
<1>2. /\ t \in [1 .. n -> Range(s)] /\ DOMAIN t = 1 .. n
      /\ \A x \in Range(s) : Count(t, x) = Count(s, x)
  BY <1>1 DEF Shuffle
<1>3. t \in [1 .. n -> S] /\ n \in Nat
  BY <1>1, <1>2
<1> HIDE DEF n
<1>4. t \in Seq(S) /\ Len(t) = n
  BY <1>3, SeqDef, LenProperties
<1>5. \A x : x \in Range(s) <=> x \in Range(t)
  <2> TAKE x
  <2>1. Count(s, x) # 0 <=> x \in Range(s)
    BY CountType
  <2>2. Count(t, x) # 0 <=> x \in Range(t)
    BY <1>4, CountType
  <2>3. x \in Range(t) => x \in Range(s)
    BY <1>2 DEF Range
  <2> QED
    BY <1>2, <2>1, <2>2, <2>3
<1>6. \A x : Count(t, x) = Count(s, x)
  <2> TAKE x
  <2>1. Count(s, x) \in Nat /\ (Count(s, x) # 0 <=> x \in Range(s))
    BY CountType
  <2>2. Count(t, x) \in Nat /\ (Count(t, x) # 0 <=> x \in Range(t))
    BY <1>4, CountType
  <2> QED
    BY <1>2, <1>5, <2>1, <2>2
<1> QED
  BY <1>4, <1>5, <1>6 DEF n

(* Leaving everything in place is one of the shuffles.                     *)
LEMMA ShuffleIdentity ==
  ASSUME NEW S, NEW s \in Seq(S)
  PROVE  s \in Shuffle(s)
<1>1. s \in [DOMAIN s -> Range(s)]
  <2>1. s = [p \in DOMAIN s |-> s[p]]
    BY LenProperties
  <2> QED
    BY <2>1 DEF Range
<1> QED
  BY <1>1 DEF Shuffle

\* What is appended when a Backend with n slots rejoins.
CopyOf(b, n) == [k \in 1 .. n |-> b]

(* Copies count as many as they are.                                       *)
LEMMA CountCopyOf ==
  ASSUME NEW S, NEW b \in S, NEW n \in Nat
  PROVE  /\ CopyOf(b, n) \in Seq(S) /\ Len(CopyOf(b, n)) = n
         /\ \A x : Count(CopyOf(b, n), x) = IF x = b THEN n ELSE 0
<1> DEFINE s == CopyOf(b, n)
<1>1. s \in [1 .. n -> S] /\ DOMAIN s = 1 .. n
  BY DEF CopyOf
<1>2. s \in Seq(S) /\ Len(s) = n
  <2> HIDE DEF s
  <2> QED
    BY <1>1, SeqDef, LenProperties
<1>3. ASSUME NEW x PROVE Count(s, x) = IF x = b THEN n ELSE 0
  <2>1. {p \in DOMAIN s : s[p] = x} = IF x = b THEN 1 .. n ELSE {}
    BY DEF CopyOf
  <2>2. Cardinality(1 .. n) = n /\ Cardinality({}) = 0
    BY FS_Interval, FS_EmptySet
  <2> QED
    BY <2>1, <2>2 DEF Count
<1> QED
  BY <1>2, <1>3

(* A concatenation has the elements of both parts.                         *)
LEMMA CountConcat ==
  ASSUME NEW S, NEW s \in Seq(S), NEW t \in Seq(S)
  PROVE  /\ s \o t \in Seq(S)
         /\ \A x : Count(s \o t, x) = Count(s, x) + Count(t, x)
<1> DEFINE m == Len(s)
           n == Len(t)
           u == s \o t
<1>1. m \in Nat /\ n \in Nat /\ DOMAIN s = 1 .. m /\ DOMAIN t = 1 .. n
  BY LenProperties
<1>2. /\ u \in Seq(S) /\ DOMAIN u = 1 .. m + n
      /\ \A k \in 1 .. m : u[k] = s[k]
      /\ \A k \in 1 .. n : u[m + k] = t[k]
  BY <1>1, ConcatProperties, LenProperties
<1> HIDE DEF m, n, u
<1>3. ASSUME NEW x PROVE Count(u, x) = Count(s, x) + Count(t, x)
  <2> DEFINE A == {p \in DOMAIN s : s[p] = x}
             B == {p \in DOMAIN t : t[p] = x}
             C == {p \in DOMAIN u : u[p] = x /\ p > m}
             shift == [p \in B |-> m + p]
  <2>1. IsFiniteSet(A) /\ IsFiniteSet(B)
    BY CountType
  <2>2. shift \in [B -> C]
    BY <1>1, <1>2
  <2>3. \A p, q \in B : shift[p] = shift[q] => p = q
    BY <1>1
  <2>4. ASSUME NEW q \in C PROVE \E p \in B : shift[p] = q
    <3>1. q - m \in 1 .. n /\ m + (q - m) = q
      BY <1>1, <1>2
    <3>2. q - m \in B
      BY <1>1, <1>2, <3>1
    <3> QED
      BY <3>1, <3>2
  <2>5. {p \in DOMAIN u : u[p] = x} = A \cup C /\ A \cap C = {}
    BY <1>1, <1>2
  <2> HIDE DEF A, B, C, shift
  <2>6. IsFiniteSet(C) /\ Cardinality(C) = Cardinality(B)
    BY <2>1, <2>2, <2>3, <2>4, SameSize
  <2>7. Cardinality(A \cup C) = Cardinality(A) + Cardinality(C)
    <3>1. Cardinality(A) \in Nat /\ Cardinality(C) \in Nat /\ Cardinality({}) = 0
      BY <2>1, <2>6, FS_CardinalityType, FS_EmptySet
    <3>2. Cardinality(A \cup C) = Cardinality(A) + Cardinality(C) - Cardinality(A \cap C)
      BY <2>1, <2>6, FS_Union
    <3>3. Cardinality(A \cap C) = 0
      BY <2>5, <3>1
    <3> QED
      BY <3>1, <3>2, <3>3
  <2> QED
    BY <2>5, <2>6, <2>7 DEF A, B, Count
<1> QED
  BY <1>2, <1>3 DEF u

(* RemoveByValue leaves every other element as often as it was.            *)
LEMMA CountRemoveByValue ==
  ASSUME NEW S, NEW s \in Seq(S), NEW v, NEW x, x # v
  PROVE  Count(RemoveByValue(s, v), x) = Count(s, x)
<1> DEFINE keep == {p \in DOMAIN s : s[p] # v}
           size == Cardinality(keep)
           t == SubsequenceAt(s, keep)
           A == {k \in DOMAIN t : t[k] = x}
           B == {p \in DOMAIN s : s[p] = x}
<1>1. RemoveByValue(s, v) = t
  BY DEF RemoveByValue
<1>2. keep \in SUBSET DOMAIN s /\ B \subseteq keep
  OBVIOUS
<1> HIDE DEF keep
<1>3. PICK pos \in [1 .. size -> keep] :
        /\ size \in Nat
        /\ t = [k \in 1 .. size |-> s[pos[k]]]
        /\ \A j, k \in 1 .. size : pos[j] = pos[k] => j = k
        /\ \A p \in keep : \E k \in 1 .. size : pos[k] = p
  BY <1>2, SubsequenceAtPositions
<1>4. t \in Seq(S)
  BY <1>2, SubsequenceAtProperties
<1>5. DOMAIN t = 1 .. size /\ \A k \in 1 .. size : t[k] = s[pos[k]] /\ pos[k] \in DOMAIN s
  BY <1>2, <1>3
<1> HIDE DEF t, size
<1>6. IsFiniteSet(A)
  BY <1>4, CountType
<1> DEFINE f == [k \in A |-> pos[k]]
<1>7. f \in [A -> B] /\ \A j, k \in A : f[j] = f[k] => j = k
  BY <1>3, <1>5
<1>8. \A p \in B : \E k \in A : f[k] = p
  <2> SUFFICES ASSUME NEW p \in B PROVE \E k \in A : f[k] = p
    OBVIOUS
  <2>1. PICK k \in 1 .. size : pos[k] = p
    BY <1>2, <1>3
  <2>2. k \in A
    BY <1>5, <2>1
  <2> QED
    BY <2>1, <2>2
<1> HIDE DEF A, B, f
<1>9. Cardinality(B) = Cardinality(A)
  BY <1>6, <1>7, <1>8, SameSize
<1> QED
  BY <1>1, <1>9 DEF A, B, Count

(* One slot for each element means no element twice.                       *)
LEMMA CountOne ==
  ASSUME NEW S, NEW s \in Seq(S)
  PROVE  IsInjective(s) <=> \A x \in Range(s) : Count(s, x) = 1
<1>1. ASSUME IsInjective(s), NEW x \in Range(s) PROVE Count(s, x) = 1
  <2>1. PICK p \in DOMAIN s : s[p] = x
    BY <1>1 DEF Range
  <2>2. {q \in DOMAIN s : s[q] = x} = {p}
    BY <1>1, <2>1 DEF IsInjective
  <2> QED
    BY <2>2, FS_Singleton DEF Count
<1>2. ASSUME \A x \in Range(s) : Count(s, x) = 1 PROVE IsInjective(s)
  <2>1. ASSUME NEW p \in DOMAIN s, NEW q \in DOMAIN s, s[p] = s[q] PROVE p = q
    <3> DEFINE P == {k \in DOMAIN s : s[k] = s[p]}
    <3>1. IsFiniteSet(P)
      BY CountType
    <3>2. Cardinality(P) = 1
      BY <1>2 DEF Count, Range
    <3>3. p \in P /\ q \in P
      BY <2>1
    <3> HIDE DEF P
    <3> QED
      BY <3>1, <3>2, <3>3, FS_Singleton
  <2> QED
    BY <2>1 DEF IsInjective
<1> QED
  BY <1>1, <1>2

-----------------------------------------------------------------------------
(* The constructors' slices.                                               *)

\* What the weighted constructor's loop adds for Backend b.
CopiesIfAlive(b) == IF isHostAlive[b] THEN Copies(b) ELSE <<>>

(* It is a slice with the weight of b, or nothing.                         *)
LEMMA CopiesIfAliveType ==
  ASSUME NEW b \in Backends
  PROVE  /\ CopiesIfAlive(b) \in Seq(Backends)
         /\ \A x : Count(CopiesIfAlive(b), x) =
                    IF x = b /\ isHostAlive[b] THEN Weight[b] ELSE 0
<1>1. Weight[b] \in Nat /\ Copies(b) = CopyOf(b, Weight[b])
  BY WRoundRobinAssumption DEF Copies, CopyOf
<1>2. <<>> \in Seq(Backends) /\ \A x : Count(<<>>, x) = 0
  <2>1. \A x : {p \in DOMAIN <<>> : <<>>[p] = x} = {}
    OBVIOUS
  <2> QED
    BY <2>1, EmptySeq, FS_EmptySet DEF Count
<1>3. Copies(b) \in Seq(Backends) /\ \A x : Count(Copies(b), x) = IF x = b THEN Weight[b] ELSE 0
  <2>1. /\ CopyOf(b, Weight[b]) \in Seq(Backends)
        /\ \A x : Count(CopyOf(b, Weight[b]), x) = IF x = b THEN Weight[b] ELSE 0
    BY <1>1, CountCopyOf
  <2> QED
    BY <1>1, <2>1
<1> QED
  BY <1>2, <1>3 DEF CopiesIfAlive

(* What the loop has built after each Backend.                             *)
LEMMA copiesUpToDef ==
  \A b \in 0 .. N :
    /\ copiesUpTo[b] \in Seq(Backends)
    /\ copiesUpTo[b] = IF b = 0 THEN <<>> ELSE copiesUpTo[b - 1] \o CopiesIfAlive(b)
<1> DEFINE S == Seq(Backends)
           step == [b \in 1 .. N |-> [s \in S |-> s \o CopiesIfAlive(b)]]
<1>1. N \in Nat
  BY BalancerAssumption
<1>2. <<>> \in S
  BY EmptySeq
<1>3. \A b \in 1 .. N : \A s \in S : s \o CopiesIfAlive(b) \in S
  BY CopiesIfAliveType, CountConcat DEF Backends
<1>4. step \in [1 .. N -> [S -> S]]
  BY <1>3
<1> HIDE DEF step, S
<1>5. PICK f \in [0 .. N -> S] : Loop(N, <<>>, step, f)
  BY <1>1, <1>2, <1>4, LoopExists
<1>6. ASSUME NEW b \in 0 .. N, b # 0
      PROVE  f[b] = f[b - 1] \o CopiesIfAlive(b)
  <2>1. b \in 1 .. N /\ b - 1 \in 0 .. N
    BY <1>1, <1>6
  <2>2. f[b - 1] \in S
    BY <1>5, <2>1
  <2> QED
    BY <1>5, <2>1, <2>2 DEF step, Loop
<1>7. f = [b \in 0 .. N |-> IF b = 0 THEN <<>> ELSE f[b - 1] \o CopiesIfAlive(b)]
  BY <1>5, <1>6 DEF Loop
<1>8. copiesUpTo =
        [b \in 0 .. N |-> IF b = 0 THEN <<>> ELSE copiesUpTo[b - 1] \o CopiesIfAlive(b)]
      /\ copiesUpTo \in [0 .. N -> S]
  <2> DEFINE Q(g) ==
        g = [b \in 0 .. N |->
              IF b = 0 THEN <<>>
              ELSE g[b - 1] \o (IF isHostAlive[b] THEN Copies(b) ELSE <<>>)]
  <2>1. Q(f)
    BY <1>7 DEF CopiesIfAlive
  <2>2. Q(copiesUpTo)
    BY <2>1 DEF copiesUpTo
  <2>3. copiesUpTo =
          [b \in 0 .. N |-> IF b = 0 THEN <<>> ELSE copiesUpTo[b - 1] \o CopiesIfAlive(b)]
    BY <2>2 DEF CopiesIfAlive
  <2> DEFINE P == {b \in 0 .. N : copiesUpTo[b] \in S}
  <2>4. 0 \in P
    BY <1>1, <1>2, <2>3
  <2>5. ASSUME NEW b \in 1 .. N, b - 1 \in P PROVE b \in P
    <3>1. b \in 0 .. N /\ b # 0
      BY <1>1
    <3>2. copiesUpTo[b] = copiesUpTo[b - 1] \o CopiesIfAlive(b)
      BY <2>3, <3>1
    <3> QED
      BY <1>3, <2>5, <3>1, <3>2
  <2> HIDE DEF P
  <2>6. \A b \in 0 .. N : b \in P
    BY <1>1, <2>4, <2>5, SetInduction
  <2> QED
    BY <2>3, <2>6 DEF P
<1> QED
  BY <1>8 DEF S

\* The slice of the loop after k Backends, counted.
CopiesCounted(k) ==
  \A x \in Backends :
    Count(copiesUpTo[k], x) = IF x <= k /\ isHostAlive[x] THEN Weight[x] ELSE 0

(* The weighted constructor's slice has the Backends that answered, each   *)
(* as often as its weight.                                                 *)
LEMMA AliveCopiesProperties ==
  /\ AliveCopies \in Seq(Backends)
  /\ Range(AliveCopies) = {b \in Backends : isHostAlive[b]}
  /\ \A b \in Range(AliveCopies) : Count(AliveCopies, b) = Weight[b]
<1> DEFINE P == {k \in 0 .. N : CopiesCounted(k)}
<1>1. N \in Nat /\ N \in 0 .. N
  BY BalancerAssumption
<1>2. 0 \in P
  <2>1. copiesUpTo[0] = <<>> /\ 0 \in 0 .. N
    BY <1>1, copiesUpToDef
  <2>2. \A x : Count(<<>>, x) = 0
    <3>1. \A x : {p \in DOMAIN <<>> : <<>>[p] = x} = {}
      OBVIOUS
    <3> QED
      BY <3>1, FS_EmptySet DEF Count
  <2> QED
    BY <2>1, <2>2 DEF CopiesCounted, Backends
<1>3. ASSUME NEW k \in 1 .. N, k - 1 \in P PROVE k \in P
  <2>0. k \in 0 .. N /\ k # 0 /\ k - 1 \in 0 .. N /\ k \in Backends
    BY <1>1 DEF Backends
  <2>1. /\ copiesUpTo[k] = copiesUpTo[k - 1] \o CopiesIfAlive(k)
        /\ copiesUpTo[k - 1] \in Seq(Backends)
    BY <2>0, copiesUpToDef
  <2>2. ASSUME NEW x \in Backends
        PROVE  Count(copiesUpTo[k], x) = IF x <= k /\ isHostAlive[x] THEN Weight[x] ELSE 0
    <3>1. Count(copiesUpTo[k], x) =
            Count(copiesUpTo[k - 1], x) + Count(CopiesIfAlive(k), x)
      BY <2>0, <2>1, CopiesIfAliveType, CountConcat
    <3>2. Count(copiesUpTo[k - 1], x) = IF x <= k - 1 /\ isHostAlive[x] THEN Weight[x] ELSE 0
      BY <1>3 DEF CopiesCounted
    <3>3. Count(CopiesIfAlive(k), x) = IF x = k /\ isHostAlive[k] THEN Weight[k] ELSE 0
      BY <2>0, CopiesIfAliveType
    <3>4. Weight[x] \in Nat /\ (x <= k <=> x <= k - 1 \/ x = k) /\ ~ (k <= k - 1)
      BY <1>3, WRoundRobinAssumption DEF Backends
    <3> QED
      BY <3>1, <3>2, <3>3, <3>4
  <2> QED
    BY <2>0, <2>2 DEF CopiesCounted
<1> HIDE DEF P
<1>4. N \in P
  <2>1. \A k \in 0 .. N : k \in P
    BY <1>1, <1>2, <1>3, SetInduction
  <2> QED
    BY <1>1, <2>1
<1>5. AliveCopies \in Seq(Backends)
  BY <1>1, copiesUpToDef DEF AliveCopies
<1>6. \A x \in Backends : /\ Count(AliveCopies, x) = IF isHostAlive[x] THEN Weight[x] ELSE 0
                          /\ Weight[x] # 0
  BY <1>4, WRoundRobinAssumption DEF P, CopiesCounted, AliveCopies, Backends
<1>7. \A x : Count(AliveCopies, x) # 0 <=> x \in Range(AliveCopies)
  BY <1>5, CountType
<1>8. Range(AliveCopies) \subseteq Backends
  BY <1>5, ElementOfSeq, LenProperties DEF Range
<1> QED
  BY <1>5, <1>6, <1>7, <1>8

-----------------------------------------------------------------------------
(* A slice balancer that gives Backend b share[b] slots and may choose any *)
(* position of the slice a request loaded.                                 *)

\* The shares of the balancers without weights.
OneEach == [b \in Backends |-> 1]

RejoinWith(share) ==
  /\ CheckerStep("rejoin", "markUp")
  /\ servers' \in Shuffle(servers \o CopyOf(EntryOf(cur), share[EntryOf(cur)]))
  /\ UNCHANGED snap

Chooses(r) ==
  \/ LoadServers(r)
  \/ \E p \in DOMAIN snap[r] : PickAt(r, p)
  \/ Respond(r) /\ UNCHANGED sliceVars

Checks(share) ==
  \/ healthCheckerStep /\ UNCHANGED sliceVars
  \/ Probe /\ UNCHANGED sliceVars
  \/ Leave
  \/ RejoinWith(share)
  \/ StoreIsHostAlive /\ UNCHANGED sliceVars

Calling ==
  /\ StatsCall \/ ShutdownCall \/ \E b \in Flaky : Flip(b)
  /\ UNCHANGED sliceVars

coreVars == <<balancerVars, sliceVars>>

Moves(share) ==
  \/ \E r \in Requests : Chooses(r)
  \/ Checks(share)
  \/ Calling
  \/ UNCHANGED coreVars

\* Every Backend in the rotation has its share of the slots.
Shared(share) == \A b \in rotation : Count(servers, b) = share[b]

\* The invariant that needs distinct keys.
SharesInv(share) == SliceTypeInv /\ FlagInv /\ Shared(share)

(* A step of a host, of Stats or of Shutdown changes nothing of requests,  *)
(* of the checker or of flags.                                             *)
LEMMA CallingUnchanged ==
  ASSUME Calling
  PROVE  UNCHANGED <<requestVars, checkerVars, isHostAlive, sliceVars>>
<1>1. CASE StatsCall
  BY <1>1 DEF Calling, StatsCall, StatsStart, StatsRow, StatsReturn
<1>2. CASE ShutdownCall
  BY <1>2 DEF Calling, ShutdownCall, ShutdownStop, ShutdownJoined, ShutdownTimeout,
              ShutdownClose
<1>3. CASE \E b \in Flaky : Flip(b)
  BY <1>3 DEF Calling, Flip
<1> QED
  BY <1>1, <1>2, <1>3 DEF Calling

(* The slice stored for a Backend that rejoins has Backends only.          *)
LEMMA RejoinType ==
  ASSUME SliceTypeInv, NEW share \in [Backends -> Nat \ {0}], RejoinWith(share)
  PROVE  /\ SliceTypeInv'
         /\ \A x : Count(servers', x) =
              Count(servers, x) + IF x = EntryOf(cur) THEN share[EntryOf(cur)] ELSE 0
<1> DEFINE e == EntryOf(cur)
           t == CopyOf(e, share[e])
<1>1. e \in Backends /\ servers \in Seq(Backends)
  BY EntryOfType DEF SliceTypeInv, SliceTypeOK, BalancerTypeOK
<1>2. share[e] \in Nat
  BY <1>1
<1> HIDE DEF e
<1>3. t \in Seq(Backends) /\ \A x : Count(t, x) = IF x = e THEN share[e] ELSE 0
  BY <1>1, <1>2, CountCopyOf
<1> HIDE DEF t
<1>4. servers \o t \in Seq(Backends) /\ \A x : Count(servers \o t, x) = Count(servers, x) + Count(t, x)
  BY <1>1, <1>3, CountConcat
<1>5. servers' \in Shuffle(servers \o t)
  BY DEF RejoinWith, e, t
<1>6. servers' \in Seq(Backends) /\ \A x : Count(servers', x) = Count(servers \o t, x)
  BY <1>4, <1>5, ShuffleProperties
<1>7. BalancerTypeOK'
  BY CheckerTypeOK DEF SliceTypeInv, SliceTypeOK, RejoinWith, CheckerLocations
<1>8. SliceTypeInv'
  BY <1>6, <1>7, StoreServersType DEF RejoinWith, CheckerStep
<1> QED
  BY <1>3, <1>4, <1>6, <1>8 DEF e

(* Every step keeps the types.                                             *)
LEMMA MovesType ==
  ASSUME SliceTypeInv, NEW share \in [Backends -> Nat \ {0}], Moves(share)
  PROVE  SliceTypeInv'
<1>1. CASE UNCHANGED coreVars
  <2>1. UNCHANGED <<sliceVars, requestVars>> /\ BalancerTypeOK'
    BY <1>1 DEF coreVars, balancerVars, checkerVars, shutdownVars, statsVars, requestVars,
                SliceTypeInv, SliceTypeOK, BalancerTypeOK
  <2> QED
    BY <2>1, OtherStepType
<1>2. ASSUME NEW r \in Requests, Chooses(r) PROVE SliceTypeInv'
  BY <1>2, LoadServersType, PickAtType, RespondType DEF Chooses
<1>3. ASSUME healthCheckerStep \/ Probe \/ StoreIsHostAlive, UNCHANGED sliceVars
      PROVE  SliceTypeInv'
  <2>1. BalancerTypeOK'
    BY <1>3, CheckerTypeOK DEF SliceTypeInv, SliceTypeOK
  <2>2. UNCHANGED requestVars
    BY <1>3 DEF healthCheckerStep, SelectTick, SelectStop, LoopHead, Probe,
                StoreIsHostAlive, StoreFlag, requestVars
  <2> QED
    BY <1>3, <2>1, <2>2, OtherStepType
<1>4. CASE Leave
  BY <1>4, LeaveType
<1>5. CASE RejoinWith(share)
  BY <1>5, RejoinType
<1>6. CASE Calling
  <2>1. BalancerTypeOK'
    BY <1>6, CallsTypeOK, BalancerAssumption DEF Calling, SliceTypeInv, SliceTypeOK
  <2> QED
    BY <1>6, <2>1, CallingUnchanged, OtherStepType
<1> QED
  BY <1>1, <1>2, <1>3, <1>4, <1>5, <1>6 DEF Moves, Checks

(* The Backend that rejoins was not in the slice: it gets its share of the *)
(* slots, and no other Backend gains or loses any.                         *)
LEMMA RejoinMoves ==
  ASSUME IsInjective(Hash), NEW share \in [Backends -> Nat \ {0}], SharesInv(share),
         RejoinWith(share)
  PROVE  /\ cur \notin rotation /\ rotation' = rotation \cup {cur}
         /\ SharesInv(share)'
<1> USE DEF SharesInv
<1>1. EntryOf(cur) = cur /\ cur \in Backends /\ servers \in Seq(Backends)
  BY EntryOfDistinct DEF SliceTypeInv, SliceTypeOK, BalancerTypeOK
<1>2. cur \notin rotation
  BY <1>1 DEF FlagInv, FlagMatchesRotation, ActsOnVerdict, BetweenStores, RejoinWith,
              CheckerStep, SliceTypeInv, SliceTypeOK, BalancerTypeOK
<1>3. SliceTypeInv' /\ servers' \in Seq(Backends)
  BY RejoinType DEF SliceTypeInv, SliceTypeOK
<1>4. \A x : Count(servers', x) = Count(servers, x) + IF x = cur THEN share[cur] ELSE 0
  BY <1>1, RejoinType
<1>5. \A x : /\ Count(servers, x) \in Nat
             /\ Count(servers, x) # 0 <=> x \in rotation
             /\ Count(servers', x) # 0 <=> x \in rotation'
  BY <1>1, <1>3, CountType DEF rotation
<1>6. share[cur] \in Nat \ {0}
  BY <1>1
<1>7. \A x : x \in rotation' <=> x \in rotation \/ x = cur
  BY <1>4, <1>5, <1>6
<1>8. Shared(share)'
  <2>1. ASSUME NEW b \in rotation' PROVE Count(servers', b) = share[b]
    <3>1. CASE b = cur
      BY <1>2, <1>4, <1>5, <1>6, <3>1
    <3>2. CASE b # cur
      BY <1>4, <1>5, <1>7, <3>2 DEF Shared
    <3> QED
      BY <3>1, <3>2
  <2> QED
    BY <2>1 DEF Shared
<1>9. FlagInv'
  <2>1. ~ BetweenStores /\ BetweenStores'
    BY DEF RejoinWith, CheckerStep, BetweenStores
  <2>2. ActsOnVerdict'
    BY DEF FlagInv, ActsOnVerdict, RejoinWith, CheckerStep
  <2> QED
    BY <1>2, <1>7, <2>1, <2>2, MoveFlag DEF RejoinWith, CheckerStep, SliceTypeInv, SliceTypeOK
<1> QED
  BY <1>2, <1>3, <1>7, <1>8, <1>9

(* A Backend that leaves loses all its slots, the others none.             *)
LEMMA LeaveShared ==
  ASSUME SliceTypeInv, NEW share, Shared(share), Leave
  PROVE  Shared(share)'
<1> DEFINE e == EntryOf(cur)
<1>1. servers \in Seq(Backends) /\ servers' = RemoveByValue(servers, e)
  BY DEF SliceTypeInv, SliceTypeOK, Leave
<1> HIDE DEF e
<1>2. rotation' = rotation \ {e}
  BY <1>1, RemoveByValueProperties DEF rotation
<1>3. \A x : x # e => Count(servers', x) = Count(servers, x)
  BY <1>1, CountRemoveByValue
<1> QED
  BY <1>2, <1>3 DEF Shared

(* With distinct keys every step keeps flags and slice together, and every *)
(* Backend of the slice at its share.                                      *)
LEMMA MovesShares ==
  ASSUME IsInjective(Hash), NEW share \in [Backends -> Nat \ {0}], SharesInv(share),
         Moves(share)
  PROVE  SharesInv(share)'
<1>0. SliceTypeInv'
  BY MovesType DEF SharesInv
<1> USE DEF SharesInv
<1>1. ASSUME UNCHANGED servers PROVE Shared(share)'
  BY <1>1 DEF Shared, rotation
<1>2. CASE UNCHANGED coreVars
  BY <1>0, <1>1, <1>2, FlagUnchanged DEF coreVars, balancerVars, checkerVars, sliceVars
<1>3. ASSUME NEW r \in Requests, Chooses(r) PROVE SharesInv(share)'
  <2>1. UNCHANGED <<servers, isHostAlive, checker, cur>>
    BY <1>3 DEF Chooses, LoadServers, Load, PickAt, Pick, Respond, checkerVars, sliceVars
  <2> QED
    BY <1>0, <1>1, <2>1, FlagUnchanged
<1>4. ASSUME healthCheckerStep \/ Probe \/ StoreIsHostAlive, UNCHANGED sliceVars
      PROVE  SharesInv(share)'
  <2>1. UNCHANGED servers
    BY <1>4 DEF sliceVars
  <2> QED
    BY <1>0, <1>1, <1>4, <2>1, CheckerStepFlag, ProbeFlag, StoreFlagFlag
    DEF SliceTypeInv, SliceTypeOK
<1>5. CASE Leave
  BY <1>0, <1>5, LeaveFlag, LeaveShared
<1>6. CASE RejoinWith(share)
  BY <1>6, RejoinMoves
<1>7. CASE Calling
  <2>1. UNCHANGED <<servers, isHostAlive, checker, cur>>
    BY <1>7, CallingUnchanged DEF checkerVars, sliceVars
  <2> QED
    BY <1>0, <1>1, <2>1, FlagUnchanged
<1> QED
  BY <1>2, <1>3, <1>4, <1>5, <1>6, <1>7 DEF Moves, Checks

(* A scrape that is under way is disturbed by no step but its own.         *)
LEMMA MovesStats ==
  ASSUME IsInjective(Hash), NEW share, StatsInv, Moves(share)
  PROVE  StatsInv'
<1>1. CASE UNCHANGED coreVars
  BY <1>1, StatsInvUnchanged DEF coreVars, balancerVars
<1>2. ASSUME NEW r \in Requests, Chooses(r) PROVE StatsInv'
  BY <1>2, StatsInvUnchanged DEF Chooses, LoadServers, Load, PickAt, Pick, Respond
<1>3. CASE Checks(share)
  BY <1>3, StatsInvUnchanged
  DEF Checks, healthCheckerStep, SelectTick, SelectStop, LoopHead, Probe, Leave,
      RejoinWith, CheckerStep, StoreIsHostAlive, StoreFlag
<1>4. CASE StatsCall
  BY <1>4, StatsInvCall
<1>5. CASE ShutdownCall \/ \E b \in Flaky : Flip(b)
  BY <1>5, StatsInvUnchanged
  DEF ShutdownCall, ShutdownStop, ShutdownJoined, ShutdownTimeout, ShutdownClose, Flip
<1> QED
  BY <1>1, <1>2, <1>3, <1>4, <1>5 DEF Moves, Calling

(* Every step is one of Rotation's, or changes nothing it speaks of.       *)
LEMMA MovesRefine ==
  ASSUME IsInjective(Hash), NEW share \in [Backends -> Nat \ {0}], SharesInv(share),
         Moves(share)
  PROVE  [Contract!Next]_Contract!vars
<1> USE DEF SharesInv
<1>0. cur \in Backends
  BY DEF SliceTypeInv, SliceTypeOK, BalancerTypeOK
<1>1. CASE UNCHANGED coreVars
  BY <1>1, ContractUnchanged
  DEF coreVars, balancerVars, contractVars, checkerVars, sliceVars, requestVars
<1>2. ASSUME NEW r \in Requests, Chooses(r) PROVE Contract!Next
  <2>1. CASE LoadServers(r)
    BY <2>1, ContractRequest DEF Contract!Next
  <2>2. ASSUME NEW p \in DOMAIN snap[r], PickAt(r, p) PROVE Contract!Next
    <3>1. snap[r][p] \in Backends
      BY ElementOfSeq, LenProperties DEF SliceTypeInv, SliceTypeOK
    <3>2. Contract!Choose(r, snap[r][p])
      BY <2>2, ContractRequest
    <3> QED
      BY <3>1, <3>2 DEF Contract!Next
  <2>3. CASE Respond(r) /\ UNCHANGED sliceVars
    BY <2>3, ContractRequest DEF Contract!Next
  <2> QED
    BY <1>2, <2>1, <2>2, <2>3 DEF Chooses
<1>3. CASE healthCheckerStep /\ UNCHANGED sliceVars
  BY <1>3, ContractChecker
<1>4. CASE Probe /\ UNCHANGED sliceVars
  BY <1>0, <1>4, ContractChecker DEF Contract!Next
<1>5. CASE Leave
  BY <1>0, <1>5, ContractChecker DEF Contract!Next
<1>6. CASE RejoinWith(share)
  <2>1. rotation' = rotation \cup {cur} /\ cur \notin rotation
    BY <1>6, RejoinMoves
  <2>2. verdict = <<cur, TRUE>> /\ verdict' = verdict /\ ~ isHostAlive[cur]
    BY <1>6 DEF RejoinWith, CheckerStep, verdict, FlagInv, ActsOnVerdict
  <2>3. Contract!Move(cur, TRUE)
    BY <1>6, <2>1, <2>2 DEF RejoinWith, CheckerStep, Contract!Move, requestVars
  <2> QED
    BY <1>0, <2>3 DEF Contract!Next
<1>7. CASE StoreIsHostAlive /\ UNCHANGED sliceVars
  BY <1>0, <1>7, ContractChecker DEF Contract!Next
<1>8. CASE (StatsCall \/ ShutdownCall) /\ UNCHANGED sliceVars
  <2>1. UNCHANGED contractVars
    BY <1>8 DEF StatsCall, StatsStart, StatsRow, StatsReturn, ShutdownCall, ShutdownStop,
                ShutdownJoined, ShutdownTimeout, ShutdownClose, contractVars,
                checkerVars, sliceVars, requestVars
  <2> QED
    BY <2>1, ContractUnchanged
<1>9. ASSUME NEW b \in Flaky, Flip(b), UNCHANGED sliceVars PROVE Contract!Next
  <2>1. b \in Backends
    BY BalancerAssumption
  <2>2. Contract!Change(b)
    BY <1>9 DEF Flip, Contract!Change, verdict, rotation, checkerVars, sliceVars, requestVars
  <2> QED
    BY <2>1, <2>2 DEF Contract!Next
<1> QED
  BY <1>1, <1>2, <1>3, <1>4, <1>5, <1>6, <1>7, <1>8, <1>9 DEF Moves, Checks, Calling

-----------------------------------------------------------------------------
(* RoundRobin, WRoundRobin and Random move like this.                      *)

(* What RoundRobin takes from Balancer and SliceBalancer is what is here.     *)
LEMMA SameInRoundRobin ==
  /\ RR!sliceVars = sliceVars /\ RR!AliveServers = AliveServers /\ RR!NewSlice = NewSlice
  /\ \A r : /\ RR!LoadServers(r) = LoadServers(r) /\ RR!Respond(r) = Respond(r)
            /\ \A p : RR!PickAt(r, p) = PickAt(r, p)
  /\ RR!healthCheckerStep = healthCheckerStep /\ RR!Probe = Probe /\ RR!Leave = Leave
  /\ RR!StoreIsHostAlive = StoreIsHostAlive
  /\ \A from, to : RR!CheckerStep(from, to) = CheckerStep(from, to)
  /\ RR!StatsCall = StatsCall /\ RR!ShutdownCall = ShutdownCall
  /\ \A b : RR!Flip(b) = Flip(b) /\ RR!EntryOf(b) = EntryOf(b)
<1> USE DEF RR!checkerVars, checkerVars, RR!shutdownVars, shutdownVars, RR!statsVars, statsVars,
            RR!requestVars, requestVars, RR!Backends, Backends, RR!Nil, Nil
<1>1. \A s : RR!Cardinality(s) = Cardinality(s)
  BY Zenon DEF RR!Cardinality, Cardinality
<1>2. \A s, keep : RR!SubsequenceAt(s, keep) = SubsequenceAt(s, keep)
  BY Zenon DEF RR!SubsequenceAt, SubsequenceAt, RR!Rank, Rank, RR!Cardinality, Cardinality
<1>3. \A s, v : RR!RemoveByValue(s, v) = RemoveByValue(s, v)
  BY <1>2 DEF RR!RemoveByValue, RemoveByValue
<1>4. \A b : RR!EntryOf(b) = EntryOf(b)
  BY DEF RR!EntryOf, EntryOf
<1>5. RR!serversMap = serversMap
  BY <1>4 DEF RR!serversMap, serversMap
<1>6. \A b : RR!statsIdx(b) = statsIdx(b)
  BY <1>1 DEF RR!statsIdx, statsIdx
<1>7. RR!sliceVars = sliceVars /\ RR!AliveServers = AliveServers /\ RR!NewSlice = NewSlice
  <2>1. RR!AliveServers = AliveServers
    BY <1>2 DEF RR!AliveServers, AliveServers
  <2> QED
    BY <2>1 DEF RR!sliceVars, sliceVars, RR!NewSlice, NewSlice, RR!NewBalancer, NewBalancer
<1>8. ASSUME NEW r
      PROVE  /\ RR!LoadServers(r) = LoadServers(r) /\ RR!Respond(r) = Respond(r)
             /\ \A p : RR!PickAt(r, p) = PickAt(r, p)
  <2>1. RR!LoadServers(r) = LoadServers(r)
    BY DEF RR!LoadServers, LoadServers, RR!Load, Load
  <2>2. RR!Respond(r) = Respond(r)
    BY DEF RR!Respond, Respond
  <2>3. \A p : RR!PickAt(r, p) = PickAt(r, p)
    BY DEF RR!PickAt, PickAt, RR!Pick, Pick
  <2> QED
    BY <2>1, <2>2, <2>3
<1>9. RR!healthCheckerStep = healthCheckerStep
  BY DEF RR!healthCheckerStep, healthCheckerStep, RR!SelectTick, SelectTick,
         RR!SelectStop, SelectStop, RR!LoopHead, LoopHead
<1>10. RR!Probe = Probe
  BY <1>4 DEF RR!Probe, Probe, RR!NextBackend, NextBackend
<1>11. \A from, to : RR!CheckerStep(from, to) = CheckerStep(from, to)
  BY DEF RR!CheckerStep, CheckerStep
<1>12. RR!Leave = Leave
  BY <1>3, <1>4, <1>11 DEF RR!Leave, Leave
<1>13. RR!StoreIsHostAlive = StoreIsHostAlive
  BY <1>4 DEF RR!StoreIsHostAlive, StoreIsHostAlive, RR!StoreFlag, StoreFlag,
              RR!NextBackend, NextBackend
<1>14. RR!StatsCall = StatsCall
  <2>1. RR!StatsStart = StatsStart
    BY <1>1, <1>5 DEF RR!StatsStart, StatsStart, RR!ZeroRow, ZeroRow
  <2>2. \A e : RR!StatsRow(e) = StatsRow(e)
    BY <1>6 DEF RR!StatsRow, StatsRow, RR!Row, Row
  <2> QED
    BY <1>5, <2>1, <2>2 DEF RR!StatsCall, StatsCall, RR!StatsReturn, StatsReturn
<1>15. RR!ShutdownCall = ShutdownCall
  BY <1>5 DEF RR!ShutdownCall, ShutdownCall, RR!ShutdownStop, ShutdownStop,
              RR!ShutdownJoined, ShutdownJoined, RR!ShutdownTimeout, ShutdownTimeout,
              RR!ShutdownClose, ShutdownClose, RR!healthCheckerDone, healthCheckerDone
<1>16. \A b : RR!Flip(b) = Flip(b)
  BY DEF RR!Flip, Flip
<1> QED
  BY <1>4, <1>7, <1>8, <1>9, <1>10, <1>11, <1>12, <1>13, <1>14, <1>15, <1>16

(* And so is what Random takes from them.                                   *)
LEMMA SameInRandom ==
  /\ RD!sliceVars = sliceVars /\ RD!AliveServers = AliveServers /\ RD!NewSlice = NewSlice
  /\ \A r : /\ RD!LoadServers(r) = LoadServers(r) /\ RD!Respond(r) = Respond(r)
            /\ \A p : RD!PickAt(r, p) = PickAt(r, p)
  /\ RD!healthCheckerStep = healthCheckerStep /\ RD!Probe = Probe /\ RD!Leave = Leave
  /\ RD!StoreIsHostAlive = StoreIsHostAlive
  /\ \A from, to : RD!CheckerStep(from, to) = CheckerStep(from, to)
  /\ RD!StatsCall = StatsCall /\ RD!ShutdownCall = ShutdownCall
  /\ \A b : RD!Flip(b) = Flip(b) /\ RD!EntryOf(b) = EntryOf(b)
<1> USE DEF RD!checkerVars, checkerVars, RD!shutdownVars, shutdownVars, RD!statsVars, statsVars,
            RD!requestVars, requestVars, RD!Backends, Backends, RD!Nil, Nil
<1>1. \A s : RD!Cardinality(s) = Cardinality(s)
  BY Zenon DEF RD!Cardinality, Cardinality
<1>2. \A s, keep : RD!SubsequenceAt(s, keep) = SubsequenceAt(s, keep)
  BY Zenon DEF RD!SubsequenceAt, SubsequenceAt, RD!Rank, Rank, RD!Cardinality, Cardinality
<1>3. \A s, v : RD!RemoveByValue(s, v) = RemoveByValue(s, v)
  BY <1>2 DEF RD!RemoveByValue, RemoveByValue
<1>4. \A b : RD!EntryOf(b) = EntryOf(b)
  BY DEF RD!EntryOf, EntryOf
<1>5. RD!serversMap = serversMap
  BY <1>4 DEF RD!serversMap, serversMap
<1>6. \A b : RD!statsIdx(b) = statsIdx(b)
  BY <1>1 DEF RD!statsIdx, statsIdx
<1>7. RD!sliceVars = sliceVars /\ RD!AliveServers = AliveServers /\ RD!NewSlice = NewSlice
  <2>1. RD!AliveServers = AliveServers
    BY <1>2 DEF RD!AliveServers, AliveServers
  <2> QED
    BY <2>1 DEF RD!sliceVars, sliceVars, RD!NewSlice, NewSlice, RD!NewBalancer, NewBalancer
<1>8. ASSUME NEW r
      PROVE  /\ RD!LoadServers(r) = LoadServers(r) /\ RD!Respond(r) = Respond(r)
             /\ \A p : RD!PickAt(r, p) = PickAt(r, p)
  <2>1. RD!LoadServers(r) = LoadServers(r)
    BY DEF RD!LoadServers, LoadServers, RD!Load, Load
  <2>2. RD!Respond(r) = Respond(r)
    BY DEF RD!Respond, Respond
  <2>3. \A p : RD!PickAt(r, p) = PickAt(r, p)
    BY DEF RD!PickAt, PickAt, RD!Pick, Pick
  <2> QED
    BY <2>1, <2>2, <2>3
<1>9. RD!healthCheckerStep = healthCheckerStep
  BY DEF RD!healthCheckerStep, healthCheckerStep, RD!SelectTick, SelectTick,
         RD!SelectStop, SelectStop, RD!LoopHead, LoopHead
<1>10. RD!Probe = Probe
  BY <1>4 DEF RD!Probe, Probe, RD!NextBackend, NextBackend
<1>11. \A from, to : RD!CheckerStep(from, to) = CheckerStep(from, to)
  BY DEF RD!CheckerStep, CheckerStep
<1>12. RD!Leave = Leave
  BY <1>3, <1>4, <1>11 DEF RD!Leave, Leave
<1>13. RD!StoreIsHostAlive = StoreIsHostAlive
  BY <1>4 DEF RD!StoreIsHostAlive, StoreIsHostAlive, RD!StoreFlag, StoreFlag,
              RD!NextBackend, NextBackend
<1>14. RD!StatsCall = StatsCall
  <2>1. RD!StatsStart = StatsStart
    BY <1>1, <1>5 DEF RD!StatsStart, StatsStart, RD!ZeroRow, ZeroRow
  <2>2. \A e : RD!StatsRow(e) = StatsRow(e)
    BY <1>6 DEF RD!StatsRow, StatsRow, RD!Row, Row
  <2> QED
    BY <1>5, <2>1, <2>2 DEF RD!StatsCall, StatsCall, RD!StatsReturn, StatsReturn
<1>15. RD!ShutdownCall = ShutdownCall
  BY <1>5 DEF RD!ShutdownCall, ShutdownCall, RD!ShutdownStop, ShutdownStop,
              RD!ShutdownJoined, ShutdownJoined, RD!ShutdownTimeout, ShutdownTimeout,
              RD!ShutdownClose, ShutdownClose, RD!healthCheckerDone, healthCheckerDone
<1>16. \A b : RD!Flip(b) = Flip(b)
  BY DEF RD!Flip, Flip
<1> QED
  BY <1>4, <1>7, <1>8, <1>9, <1>10, <1>11, <1>12, <1>13, <1>14, <1>15, <1>16

TypeInv == SliceTypeInv /\ i \in 0 .. CounterMod - 1

(* A draw gives a valid index of the slice the request loaded, even when a *)
(* shorter or an empty one has been stored since.                          *)
LEMMA DrawIsIndex ==
  ASSUME TypeInv, NEW r \in Requests, phase[r] = "loaded"
  PROVE  /\ Draw \in 0 .. CounterMod - 1
         /\ 1 + (Draw % Len(snap[r])) \in DOMAIN snap[r]
<1>1. Draw \in 0 .. CounterMod - 1
  BY WRoundRobinAssumption DEF Draw, TypeInv
<1>2. snap[r] \in Seq(Backends) /\ snap[r] # <<>>
  BY DEF TypeInv, SliceTypeInv, SliceTypeOK, LoadedNotEmpty
<1>3. Len(snap[r]) \in Nat \ {0} /\ DOMAIN snap[r] = 1 .. Len(snap[r])
  BY <1>2, EmptySeq, LenProperties
<1>4. ASSUME NEW d \in Nat, NEW n \in Nat \ {0}
      PROVE  1 + (d % n) \in 1 .. n
  OBVIOUS
<1>5. Draw \in Nat
  BY <1>1
<1> QED
  BY <1>1, <1>3, <1>4, <1>5

(* Appending a Backend is adding one copy of it and shuffling nothing.     *)
LEMMA AppendIsRejoin ==
  ASSUME SliceTypeInv, CheckerStep("rejoin", "markUp"),
         servers' = Append(servers, EntryOf(cur)), UNCHANGED snap
  PROVE  RejoinWith(OneEach)
<1> DEFINE e == EntryOf(cur)
<1>1. e \in Backends /\ servers \in Seq(Backends)
  BY EntryOfType DEF SliceTypeInv, SliceTypeOK, BalancerTypeOK
<1>2. OneEach[e] = 1
  BY <1>1 DEF OneEach
<1>3. CopyOf(e, 1) = <<e>>
  BY DEF CopyOf
<1>4. Append(servers, e) = servers \o <<e>>
  BY <1>1, AppendIsConcat
<1>5. servers \o <<e>> \in Seq(Backends)
  BY <1>1, ConcatProperties
<1>6. servers \o <<e>> \in Shuffle(servers \o <<e>>)
  BY <1>5, ShuffleIdentity
<1> QED
  BY <1>2, <1>3, <1>4, <1>6 DEF RejoinWith

(* A step of RoundRobin.                                                   *)
LEMMA RoundRobinMoves ==
  ASSUME TypeInv, [RR!Next]_RR!vars
  PROVE  Moves(OneEach) /\ i' \in 0 .. CounterMod - 1
<1> USE SameInRoundRobin DEF RR!sliceVars, sliceVars
<1>1. CASE UNCHANGED RR!vars
  BY <1>1 DEF RR!vars, RR!balancerVars, Moves, coreVars, balancerVars, TypeInv,
     RR!checkerVars, RR!shutdownVars, RR!statsVars, RR!requestVars,
     checkerVars, shutdownVars, statsVars, requestVars
<1>2. ASSUME NEW r \in Requests, RR!Serve(r)
      PROVE  Chooses(r) /\ i' \in 0 .. CounterMod - 1
  <2>1. CASE RR!LoadServers(r) /\ UNCHANGED i
    BY <2>1 DEF Chooses, TypeInv
  <2>2. CASE RR!next(r)
    <3>1. i' = Draw /\ phase[r] = "loaded" /\ PickAt(r, 1 + (Draw % Len(snap[r])))
      BY <2>2 DEF RR!next, RR!Draw, Draw
    <3> QED
      BY <3>1, DrawIsIndex DEF Chooses
  <2>3. CASE RR!Respond(r) /\ UNCHANGED <<RR!sliceVars, i>>
    BY <2>3 DEF Chooses, TypeInv
  <2> QED
    BY <1>2, <2>1, <2>2, <2>3 DEF RR!Serve
<1>3. CASE RR!healthChecker
  BY <1>3 DEF RR!healthChecker, Moves, Checks, TypeInv
<1>4. CASE RR!healthCheck
  <2>1. CASE RR!Rejoin
    <3>1. RejoinWith(OneEach)
      BY <2>1, AppendIsRejoin DEF RR!Rejoin, TypeInv
    <3> QED
      BY <1>4, <3>1 DEF RR!healthCheck, Moves, Checks, TypeInv
  <2>2. CASE ~ RR!Rejoin
    BY <1>4, <2>2 DEF RR!healthCheck, Moves, Checks, TypeInv
  <2> QED
    BY <2>1, <2>2
<1>5. CASE RR!Stats \/ RR!Shutdown \/ RR!Environment
  BY <1>5 DEF RR!Stats, RR!Shutdown, RR!Environment, Moves, Calling, TypeInv
<1> QED
  BY <1>1, <1>2, <1>3, <1>4, <1>5 DEF RR!Next, Moves

(* A step of WRoundRobin.                                                  *)
LEMMA WRoundRobinMoves ==
  ASSUME TypeInv, [Next]_vars
  PROVE  Moves(Weight) /\ i' \in 0 .. CounterMod - 1
<1>1. CASE UNCHANGED vars
  BY <1>1 DEF vars, Moves, coreVars, TypeInv
<1>2. ASSUME NEW r \in Requests, Serve(r)
      PROVE  Chooses(r) /\ i' \in 0 .. CounterMod - 1
  <2>1. CASE LoadServers(r) /\ UNCHANGED i
    BY <2>1 DEF Chooses, TypeInv
  <2>2. CASE next(r)
    BY <2>2, DrawIsIndex DEF next, Chooses
  <2>3. CASE Respond(r) /\ UNCHANGED <<sliceVars, i>>
    BY <2>3 DEF Chooses, TypeInv
  <2> QED
    BY <1>2, <2>1, <2>2, <2>3 DEF Serve
<1>3. CASE healthChecker
  BY <1>3 DEF healthChecker, Moves, Checks, TypeInv
<1>4. CASE healthCheck
  <2>1. \A b : Copies(b) = CopyOf(b, Weight[b])
    BY DEF Copies, CopyOf
  <2>2. Rejoin => RejoinWith(Weight)
    BY <2>1 DEF Rejoin, RejoinWith
  <2> QED
    BY <1>4, <2>2 DEF healthCheck, Moves, Checks, TypeInv
<1>5. CASE Stats \/ Shutdown \/ Environment
  BY <1>5 DEF Stats, Shutdown, Environment, Moves, Calling, TypeInv
<1> QED
  BY <1>1, <1>2, <1>3, <1>4, <1>5 DEF Next, Moves

(* A step of Random, which has no counter.                                 *)
LEMMA RandomMoves ==
  ASSUME TypeInv, RD!Next
  PROVE  Moves(OneEach)
<1> USE SameInRandom DEF RD!sliceVars, sliceVars
<1>1. ASSUME NEW r \in Requests, RD!Serve(r) PROVE Chooses(r)
  BY <1>1 DEF RD!Serve, RD!next, Chooses
<1>2. CASE RD!healthChecker
  BY <1>2 DEF RD!healthChecker, Moves, Checks
<1>3. CASE RD!healthCheck
  <2>1. RD!Rejoin => RejoinWith(OneEach)
    BY AppendIsRejoin DEF RD!Rejoin, TypeInv
  <2> QED
    BY <1>3, <2>1 DEF RD!healthCheck, Moves, Checks
<1>4. CASE RD!Stats \/ RD!Shutdown \/ RD!Environment
  BY <1>4 DEF RD!Stats, RD!Shutdown, RD!Environment, Moves, Calling
<1> QED
  BY <1>1, <1>2, <1>3, <1>4 DEF RD!Next, Moves

-----------------------------------------------------------------------------
(* Round-robin by itself.                                                  *)

(* What the constructor of RoundRobin, or of Random, establishes.          *)
LEMMA AliveServersInv ==
  ASSUME NewSlice, servers = AliveServers
  PROVE  SharesInv(OneEach) /\ StatsInv /\ Contract!Init
<1>1. /\ servers \in Seq(Backends) /\ IsInjective(servers)
      /\ rotation = {b \in Backends : isHostAlive[b]}
  BY AliveServersProperties DEF rotation
<1>2. SliceTypeInv /\ FlagInv
  BY <1>1, NewSliceInv DEF rotation
<1>3. Shared(OneEach)
  <2>1. \A b \in rotation : Count(servers, b) = 1
    BY <1>1, CountOne DEF rotation
  <2> QED
    BY <1>1, <2>1 DEF Shared, OneEach
<1>4. StatsInv
  BY StatsInvInit DEF NewSlice
<1>5. Contract!Init
  BY <1>1, ContractInit DEF rotation
<1> QED
  BY <1>2, <1>3, <1>4, <1>5 DEF SharesInv

(* One slot for each is a share a slice balancer may have.                 *)
LEMMA OneEachType == OneEach \in [Backends -> Nat \ {0}]
  BY DEF OneEach

(* The constructor of RoundRobin.                                          *)
LEMMA NewRoundRobinInv ==
  ASSUME RR!NewRoundRobin
  PROVE  TypeInv /\ SharesInv(OneEach) /\ StatsInv /\ Contract!Init
<1>1. NewSlice /\ servers = AliveServers /\ i = 0
  BY SameInRoundRobin DEF RR!NewRoundRobin
<1> QED
  BY <1>1, AliveServersInv, WRoundRobinAssumption DEF TypeInv, SharesInv

(* RoundRobin keeps its types.                                             *)
LEMMA RoundRobinTypeInv == RR!Spec => []TypeInv
<1>1. RR!NewRoundRobin => TypeInv
  BY NewRoundRobinInv
<1>2. TypeInv /\ [RR!Next]_RR!vars => TypeInv'
  <2> SUFFICES ASSUME TypeInv, [RR!Next]_RR!vars PROVE TypeInv'
    OBVIOUS
  <2>1. Moves(OneEach) /\ i' \in 0 .. CounterMod - 1
    BY RoundRobinMoves
  <2> QED
    BY <2>1, MovesType, OneEachType DEF TypeInv
<1> QED
  BY <1>1, <1>2, PTL DEF RR!Spec

(* With distinct keys it keeps flags and slice together, and one slot for  *)
(* each Backend.                                                           *)
LEMMA RoundRobinSharesInv ==
  ASSUME IsInjective(Hash)
  PROVE  RR!Spec => [](SharesInv(OneEach) /\ StatsInv)
<1>1. RR!NewRoundRobin => SharesInv(OneEach) /\ StatsInv
  BY NewRoundRobinInv
<1>2. TypeInv /\ SharesInv(OneEach) /\ StatsInv /\ [RR!Next]_RR!vars
      => (SharesInv(OneEach) /\ StatsInv)'
  BY RoundRobinMoves, MovesShares, MovesStats, OneEachType
<1> QED
  BY <1>1, <1>2, RoundRobinTypeInv, PTL DEF RR!Spec

(* Whatever the keys, the numbers and the interleaving, the state of       *)
(* RoundRobin is well-typed: no index out of range, no unknown Backend.    *)
THEOREM TypeCorrect == RR!Spec => []RR!TypeOK
<1>1. TypeInv => RR!TypeOK
  BY DEF TypeInv, SliceTypeInv, SliceTypeOK, BalancerTypeOK, Rows, CheckerLocations,
         RR!TypeOK, RR!SliceTypeOK, RR!BalancerTypeOK, RR!Rows, RR!CheckerLocations,
         RR!Backends, Backends, RR!Nil, Nil
<1> QED
  BY <1>1, RoundRobinTypeInv, PTL

(* With distinct keys, no Backend ever has two turns in one sweep of the   *)
(* round-robin counter.                                                    *)
THEOREM OneSlotEach ==
  ASSUME IsInjective(Hash)
  PROVE  RR!Spec => []NoDuplicateServer
<1>1. SharesInv(OneEach) => NoDuplicateServer
  <2> SUFFICES ASSUME SharesInv(OneEach) PROVE NoDuplicateServer
    OBVIOUS
  <2>1. servers \in Seq(Backends) /\ Range(servers) \subseteq Backends
    BY ElementOfSeq, LenProperties DEF SharesInv, SliceTypeInv, SliceTypeOK, Range
  <2>2. \A b \in Range(servers) : Count(servers, b) = 1
    BY <2>1 DEF SharesInv, Shared, OneEach, rotation
  <2>3. IsInjective(servers)
    BY <2>1, <2>2, CountOne
  <2> QED
    BY <2>3 DEF NoDuplicateServer
<1> QED
  BY <1>1, RoundRobinSharesInv, PTL

(* With distinct keys, what Stats reports and where round-robin requests   *)
(* go differ at most on the Backend the health checker is moving then.     *)
THEOREM FlagsFollowRotation ==
  ASSUME IsInjective(Hash)
  PROVE  RR!Spec => []FlagMatchesRotation
<1>1. SharesInv(OneEach) => FlagMatchesRotation
  BY DEF SharesInv, FlagInv
<1> QED
  BY <1>1, RoundRobinSharesInv, PTL

(* With distinct keys, a scrape that runs while the health checker stores  *)
(* flags and other calls run reports every Backend once, in the order of   *)
(* the configuration, and never writes past its slice.                     *)
THEOREM StatsInOrder ==
  ASSUME IsInjective(Hash)
  PROVE  RR!Spec => []StatsComplete
<1> QED
  BY StatsInvComplete, RoundRobinSharesInv, PTL

(* With distinct keys, RoundRobin keeps the contract of every Balancer: a  *)
(* request is refused only if it saw an empty rotation and is otherwise    *)
(* sent to a member of the rotation it saw; a Backend moves only on a      *)
(* contradicting probe of its own.                                         *)
THEOREM RoundRobinIsRotation ==
  ASSUME IsInjective(Hash)
  PROVE  RR!Spec => ImplementsRotation
<1>1. RR!NewRoundRobin => Contract!Init
  BY NewRoundRobinInv
<1>2. TypeInv /\ SharesInv(OneEach) /\ [RR!Next]_RR!vars => [Contract!Next]_Contract!vars
  BY RoundRobinMoves, MovesRefine, OneEachType
<1> QED
  BY <1>1, <1>2, RoundRobinTypeInv, RoundRobinSharesInv, PTL
  DEF RR!Spec, ImplementsRotation, Contract!Spec

-----------------------------------------------------------------------------
(* Whichever of the three Balancers the configuration asks for.            *)

\* Its shares, and flags that follow the slice.
BuiltInv ==
  /\ type = "w-round-robin" => SharesInv(Weight)
  /\ type # "w-round-robin" => SharesInv(OneEach)

(* Weights are shares a slice balancer may have.                           *)
LEMMA WeightType == Weight \in [Backends -> Nat \ {0}]
  BY WRoundRobinAssumption

(* The constructor of WRoundRobin, whatever order its shuffle gives.       *)
LEMMA NewWRoundRobinInv ==
  ASSUME NewWRoundRobin
  PROVE  SharesInv(Weight) /\ StatsInv /\ Contract!Init
<1>1. NewSlice /\ servers \in Shuffle(AliveCopies)
  BY DEF NewWRoundRobin
<1>2. /\ servers \in Seq(Backends) /\ Range(servers) = Range(AliveCopies)
      /\ \A x : Count(servers, x) = Count(AliveCopies, x)
  BY <1>1, AliveCopiesProperties, ShuffleProperties
<1>3. SliceTypeInv /\ FlagInv
  BY <1>1, <1>2, AliveCopiesProperties, NewSliceInv
<1>4. Shared(Weight)
  BY <1>2, AliveCopiesProperties DEF Shared, rotation
<1>5. StatsInv
  BY <1>1, StatsInvInit DEF NewSlice
<1>6. Contract!Init
  BY <1>1, <1>2, AliveCopiesProperties, ContractInit
<1> QED
  BY <1>3, <1>4, <1>5, <1>6 DEF SharesInv

(* What the chosen constructor establishes.                                *)
LEMMA BuildBalancerInv ==
  ASSUME BuildBalancer
  PROVE  TypeInv /\ BuiltInv /\ StatsInv /\ Contract!Init
<1>1. 0 \in 0 .. CounterMod - 1
  BY WRoundRobinAssumption
<1>2. CASE type = "round-robin" /\ RR!NewRoundRobin
  BY <1>2, NewRoundRobinInv DEF BuiltInv
<1>3. CASE type = "w-round-robin" /\ NewWRoundRobin
  <2>1. i = 0
    BY <1>3 DEF NewWRoundRobin
  <2> QED
    BY <1>1, <1>3, <2>1, NewWRoundRobinInv DEF BuiltInv, TypeInv, SharesInv
<1>4. CASE type = "random" /\ RD!NewRandom /\ i = 0
  <2>1. NewSlice /\ servers = AliveServers
    BY <1>4, SameInRandom DEF RD!NewRandom
  <2> QED
    BY <1>1, <1>4, <2>1, AliveServersInv DEF BuiltInv, TypeInv, SharesInv
<1> QED
  BY <1>2, <1>3, <1>4 DEF BuildBalancer

(* Each step is one of the slice balancer with the shares of its kind.     *)
LEMMA BalancerMoves ==
  ASSUME TypeInv, [BalancerStep]_allVars
  PROVE  /\ UNCHANGED type /\ i' \in 0 .. CounterMod - 1
         /\ type = "w-round-robin" => Moves(Weight)
         /\ type # "w-round-robin" => Moves(OneEach)
<1>1. CASE UNCHANGED allVars
  BY <1>1 DEF allVars, vars, Moves, coreVars, TypeInv
<1>2. CASE type = "round-robin" /\ RR!Next /\ UNCHANGED type
  BY <1>2, RoundRobinMoves
<1>3. CASE type = "w-round-robin" /\ Next /\ UNCHANGED type
  BY <1>3, WRoundRobinMoves
<1>4. CASE type = "random" /\ RD!Next /\ UNCHANGED i /\ UNCHANGED type
  BY <1>4, RandomMoves DEF TypeInv
<1> QED
  BY <1>1, <1>2, <1>3, <1>4 DEF BalancerStep

(* The types are kept.                                                     *)
LEMMA BalancerTypeStep == TypeInv /\ [BalancerStep]_allVars => TypeInv'
<1> SUFFICES ASSUME TypeInv, [BalancerStep]_allVars PROVE TypeInv'
  OBVIOUS
<1>1. Moves(Weight) \/ Moves(OneEach)
  BY BalancerMoves
<1>2. SliceTypeInv'
  BY <1>1, MovesType, WeightType, OneEachType DEF TypeInv
<1> QED
  BY <1>2, BalancerMoves DEF TypeInv

(* With distinct keys so are shares, flags and scrapes.                    *)
LEMMA BalancerBuiltStep ==
  ASSUME IsInjective(Hash)
  PROVE  TypeInv /\ BuiltInv /\ StatsInv /\ [BalancerStep]_allVars
         => (BuiltInv /\ StatsInv)' /\ [Contract!Next]_Contract!vars
<1> SUFFICES ASSUME TypeInv, BuiltInv, StatsInv, [BalancerStep]_allVars
             PROVE  (BuiltInv /\ StatsInv)' /\ [Contract!Next]_Contract!vars
  OBVIOUS
<1>1. CASE type = "w-round-robin"
  <2>1. Moves(Weight) /\ SharesInv(Weight) /\ type' = "w-round-robin"
    BY <1>1, BalancerMoves DEF BuiltInv
  <2>2. SharesInv(Weight)' /\ StatsInv' /\ [Contract!Next]_Contract!vars
    BY <2>1, MovesShares, MovesStats, MovesRefine, WeightType
  <2> QED
    BY <2>1, <2>2 DEF BuiltInv
<1>2. CASE type # "w-round-robin"
  <2>1. Moves(OneEach) /\ SharesInv(OneEach) /\ type' # "w-round-robin"
    BY <1>2, BalancerMoves DEF BuiltInv
  <2>2. SharesInv(OneEach)' /\ StatsInv' /\ [Contract!Next]_Contract!vars
    BY <2>1, MovesShares, MovesStats, MovesRefine, OneEachType
  <2> QED
    BY <2>1, <2>2 DEF BuiltInv
<1> QED
  BY <1>1, <1>2

(* Together, of any behaviour.                                             *)
LEMMA BalancerInv ==
  /\ BalancerSpec => []TypeInv
  /\ IsInjective(Hash) => (BalancerSpec => [](BuiltInv /\ StatsInv))
<1>1. BuildBalancer => TypeInv /\ BuiltInv /\ StatsInv
  BY BuildBalancerInv
<1>2. BalancerSpec => []TypeInv
  BY <1>1, BalancerTypeStep, PTL DEF BalancerSpec
<1>3. ASSUME IsInjective(Hash) PROVE BalancerSpec => [](BuiltInv /\ StatsInv)
  <2>1. TypeInv /\ (BuiltInv /\ StatsInv) /\ [BalancerStep]_allVars => (BuiltInv /\ StatsInv)'
    BY <1>3, BalancerBuiltStep
  <2> QED
    BY <1>1, <1>2, <2>1, PTL DEF BalancerSpec
<1> QED
  BY <1>2, <1>3

(* Whatever the keys, the weights and the interleaving, and whatever order *)
(* the shuffles give, no index is out of range and no Backend unknown.     *)
THEOREM SlicesTypeCorrect == BalancerSpec => []TypeOK
<1>1. TypeInv => TypeOK
  BY DEF TypeInv, SliceTypeInv, TypeOK
<1> QED
  BY <1>1, BalancerInv, PTL

(* With distinct keys, every Backend of the slice has as many slots as its *)
(* weight, or one, after any history of leaves, rejoins and shuffles.      *)
THEOREM SharesHold ==
  ASSUME IsInjective(Hash)
  PROVE  BalancerSpec => []SharesKept
<1>1. BuiltInv => SharesKept
  <2> SUFFICES ASSUME BuiltInv, NEW b \in rotation PROVE Count(servers, b) = Share(b)
    BY DEF SharesKept
  <2>1. b \in Backends
    BY ElementOfSeq, LenProperties
    DEF BuiltInv, SharesInv, SliceTypeInv, SliceTypeOK, rotation, Range
  <2> QED
    BY <2>1 DEF BuiltInv, SharesInv, Shared, Share, OneEach
<1>2. BalancerSpec => [](BuiltInv /\ StatsInv)
  BY BalancerInv
<1> QED
  BY <1>1, <1>2, PTL

(* With distinct keys, flags and slice differ at most on the Backend whose *)
(* flag is stored next, and a scrape answers for every Backend in order.   *)
THEOREM SlicesFlagsAndStats ==
  ASSUME IsInjective(Hash)
  PROVE  BalancerSpec => [](FlagMatchesRotation /\ StatsComplete)
<1>1. BuiltInv /\ StatsInv => FlagMatchesRotation /\ StatsComplete
  BY StatsInvComplete DEF BuiltInv, SharesInv, FlagInv
<1>2. BalancerSpec => [](BuiltInv /\ StatsInv)
  BY BalancerInv
<1> QED
  BY <1>1, <1>2, PTL

(* With distinct keys, all three Balancers keep the contract of Rotation.  *)
THEOREM SlicesAreRotations ==
  ASSUME IsInjective(Hash)
  PROVE  BalancerSpec => ImplementsRotation
<1>1. BuildBalancer => Contract!Init
  BY BuildBalancerInv
<1>2. TypeInv /\ (BuiltInv /\ StatsInv) /\ [BalancerStep]_allVars
      => [Contract!Next]_Contract!vars
  BY BalancerBuiltStep
<1>3. BalancerSpec => [](BuiltInv /\ StatsInv)
  BY BalancerInv
<1>4. BalancerSpec => []TypeInv
  BY BalancerInv
<1> QED
  BY <1>1, <1>2, <1>3, <1>4, PTL DEF BalancerSpec, ImplementsRotation, Contract!Spec

-----------------------------------------------------------------------------
(* Whose turn the next draws of a counter are.                             *)

(* Quotient and remainder are determined by what they satisfy.             *)
LEMMA DivUnique ==
  ASSUME NEW n \in Nat \ {0}, NEW q \in Nat, NEW r \in 0 .. n - 1
  PROVE  (n * q + r) % n = r /\ (n * q + r) \div n = q
  OBVIOUS

(* And every number has them.                                              *)
LEMMA ModExists ==
  ASSUME NEW n \in Nat \ {0}, NEW a \in Nat
  PROVE  a \div n \in Nat /\ a % n \in 0 .. n - 1 /\ a = n * (a \div n) + (a % n)
  OBVIOUS

(* One more sweep is n more slots.                                         *)
LEMMA Dist ==
  ASSUME NEW n \in Nat \ {0}, NEW q \in Nat
  PROVE  n * (q + 1) = n * q + n
  OBVIOUS

(* Within a sweep the remainder goes up by one a draw, and wraps once.     *)
LEMMA ModStep ==
  ASSUME NEW n \in Nat \ {0}, NEW c \in Nat, NEW k \in 0 .. n
  PROVE  (c + k) % n = IF (c % n) + k < n THEN (c % n) + k ELSE (c % n) + k - n
<1> DEFINE q == c \div n
           r == c % n
<1>1. q \in Nat /\ r \in 0 .. n - 1 /\ c = n * q + r
  BY ModExists
<1> HIDE DEF q, r
<1>2. CASE r + k < n
  <2>1. r + k \in 0 .. n - 1 /\ c + k = n * q + (r + k)
    BY <1>1, <1>2
  <2>2. (n * q + (r + k)) % n = r + k
    BY <1>1, <2>1, DivUnique
  <2>3. (c + k) % n = r + k
    BY <2>1, <2>2
  <2> QED
    BY <1>2, <2>3 DEF r
<1>3. CASE ~ (r + k < n)
  <2>1. r + k - n \in 0 .. n - 1 /\ c + k = n * (q + 1) + (r + k - n) /\ q + 1 \in Nat
    BY <1>1, <1>3, Dist
  <2>2. (n * (q + 1) + (r + k - n)) % n = r + k - n
    BY <2>1, DivUnique
  <2>3. (c + k) % n = r + k - n
    BY <2>1, <2>2
  <2> QED
    BY <1>3, <2>3 DEF r
<1> QED
  BY <1>2, <1>3

\* The position of the k-th draw from now on, from a slice of n slots with the
\* counter at c, and the Backend there.
Slot(n, c, k) == 1 + ((c + k) % n)
Turn(s, c, k) == s[Slot(Len(s), c, k)]

(* The next n draws take each of n slots once, and the sweep then repeats. *)
LEMMA SlotProperties ==
  ASSUME NEW n \in Nat \ {0}, NEW c \in Nat
  PROVE  /\ \A k \in 0 .. n : Slot(n, c, k) \in 1 .. n
         /\ \A j, k \in 1 .. n : Slot(n, c, j) = Slot(n, c, k) => j = k
         /\ \A p \in 1 .. n : \E k \in 1 .. n : Slot(n, c, k) = p
         /\ \A k \in Nat : Slot(n, c + 1, k) = Slot(n, c, k + 1)
         /\ Slot(n, c, n) = Slot(n, c, 0)
<1> DEFINE r == c % n
<1>1. r \in 0 .. n - 1
  OBVIOUS
<1>2. \A k \in 0 .. n : Slot(n, c, k) = 1 + IF r + k < n THEN r + k ELSE r + k - n
  BY ModStep DEF Slot
<1> HIDE DEF r
<1>3. \A k \in 0 .. n : Slot(n, c, k) \in 1 .. n
  BY <1>1, <1>2
<1>4. \A j, k \in 1 .. n : Slot(n, c, j) = Slot(n, c, k) => j = k
  BY <1>1, <1>2
<1>5. ASSUME NEW p \in 1 .. n PROVE \E k \in 1 .. n : Slot(n, c, k) = p
  <2> DEFINE k == IF p - 1 - r >= 1 THEN p - 1 - r ELSE p - 1 - r + n
  <2>1. k \in 1 .. n
    BY <1>1
  <2>2. Slot(n, c, k) = p
    BY <1>1, <1>2, <2>1
  <2> HIDE DEF k
  <2> QED
    BY <2>1, <2>2
<1>6. \A k \in Nat : Slot(n, c + 1, k) = Slot(n, c, k + 1)
  <2>1. \A k \in Nat : (c + 1) + k = c + (k + 1)
    OBVIOUS
  <2> QED
    BY <2>1 DEF Slot
<1>7. Slot(n, c, n) = Slot(n, c, 0)
  BY <1>1, <1>2
<1> QED
  BY <1>3, <1>4, <1>5, <1>6, <1>7

(* For a slice, then, the draws go over its elements in turn.              *)
LEMMA TurnProperties ==
  ASSUME NEW S, NEW s \in Seq(S), s # <<>>, NEW c \in Nat
  PROVE  /\ Len(s) \in Nat \ {0}
         /\ \A k \in 0 .. Len(s) : Turn(s, c, k) \in Range(s)
         /\ \A b \in Range(s) : \E k \in 1 .. Len(s) : Turn(s, c, k) = b
         /\ IsInjective(s) =>
              \A j, k \in 1 .. Len(s) : Turn(s, c, j) = Turn(s, c, k) => j = k
         /\ \A k \in Nat : Turn(s, c + 1, k) = Turn(s, c, k + 1)
         /\ Turn(s, c, Len(s)) = Turn(s, c, 0)
<1> DEFINE n == Len(s)
<1>1. n \in Nat \ {0} /\ DOMAIN s = 1 .. n
  BY EmptySeq, LenProperties
<1> HIDE DEF n
<1>2. /\ \A k \in 0 .. n : Slot(n, c, k) \in 1 .. n
      /\ \A j, k \in 1 .. n : Slot(n, c, j) = Slot(n, c, k) => j = k
      /\ \A p \in 1 .. n : \E k \in 1 .. n : Slot(n, c, k) = p
      /\ \A k \in Nat : Slot(n, c + 1, k) = Slot(n, c, k + 1)
      /\ Slot(n, c, n) = Slot(n, c, 0)
  BY <1>1, SlotProperties
<1>3. \A k, d : Turn(s, d, k) = s[Slot(n, d, k)]
  BY DEF Turn, n
<1>4. \A k \in 0 .. n : Turn(s, c, k) \in Range(s)
  BY <1>1, <1>2, <1>3 DEF Range
<1>5. ASSUME NEW b \in Range(s) PROVE \E k \in 1 .. n : Turn(s, c, k) = b
  <2>1. PICK p \in 1 .. n : s[p] = b
    BY <1>1 DEF Range
  <2>2. PICK k \in 1 .. n : Slot(n, c, k) = p
    BY <1>2
  <2> QED
    BY <1>3, <2>1, <2>2
<1>6. ASSUME IsInjective(s), NEW j \in 1 .. n, NEW k \in 1 .. n, Turn(s, c, j) = Turn(s, c, k)
      PROVE  j = k
  <2>1. j \in 0 .. n /\ k \in 0 .. n
    BY <1>1
  <2>2. Slot(n, c, j) \in DOMAIN s /\ Slot(n, c, k) \in DOMAIN s
    BY <1>1, <1>2, <2>1
  <2>3. s[Slot(n, c, j)] = s[Slot(n, c, k)]
    BY <1>6 DEF Turn, n
  <2>4. Slot(n, c, j) = Slot(n, c, k)
    BY <1>6, <2>2, <2>3 DEF IsInjective
  <2> QED
    BY <1>2, <2>4
<1>7. \A k \in Nat : Turn(s, c + 1, k) = Turn(s, c, k + 1)
  BY <1>2 DEF Turn, n
<1>8. Turn(s, c, n) = Turn(s, c, 0)
  BY <1>2 DEF Turn, n
<1> QED
  BY <1>1, <1>4, <1>5, <1>6, <1>7, <1>8 DEF n

-----------------------------------------------------------------------------
(* Equal turns.                                                            *)

\* Whether the k-th draw from now will go to one of the last m that had a turn.
Ahead(n, m, k) == IF k > n - m THEN 1 ELSE 0

\* But for the turn the last m have had in the current sweep, the turns t of any
\* two elements of s differ by at most x.
Balanced(s, c, t, x, m) ==
  \A j, k \in 1 .. Len(s) :
    t[Turn(s, c, j)] - Ahead(Len(s), m, j) <= t[Turn(s, c, k)] - Ahead(Len(s), m, k) + x

(* Then they differ by at most one more.                                   *)
LEMMA BalancedEven ==
  ASSUME NEW S, NEW s \in Seq(S), s # <<>>, NEW c \in Nat, NEW t \in [S -> Nat],
         NEW x \in Nat, NEW m \in 0 .. Len(s), Balanced(s, c, t, x, m)
  PROVE  \A b, d \in Range(s) : t[b] <= t[d] + x + 1
<1> SUFFICES ASSUME NEW b \in Range(s), NEW d \in Range(s)
             PROVE  t[b] <= t[d] + x + 1
  OBVIOUS
<1>1. PICK j \in 1 .. Len(s) : Turn(s, c, j) = b
  BY TurnProperties
<1>2. PICK k \in 1 .. Len(s) : Turn(s, c, k) = d
  BY TurnProperties
<1>3. t[b] - Ahead(Len(s), m, j) <= t[d] - Ahead(Len(s), m, k) + x
  BY <1>1, <1>2 DEF Balanced
<1>4. b \in S /\ d \in S
  BY ElementOfSeq, LenProperties DEF Range
<1>5. t[b] \in Nat /\ t[d] \in Nat
  BY <1>4
<1>6. Ahead(Len(s), m, j) \in {0, 1} /\ Ahead(Len(s), m, k) \in {0, 1}
  BY DEF Ahead
<1>7. ASSUME NEW p \in Nat, NEW q \in Nat, NEW v \in {0, 1}, NEW w \in {0, 1},
             p - v <= q - w + x
      PROVE  p <= q + x + 1
  BY <1>7
<1> QED
  BY <1>3, <1>5, <1>6, <1>7

(* A draw that follows the last one.                                       *)
LEMMA BalancedDraw ==
  ASSUME NEW S, NEW s \in Seq(S), s # <<>>, IsInjective(s), NEW c \in Nat,
         NEW t \in [S -> Nat], NEW x \in Nat, NEW m \in 0 .. Len(s),
         Balanced(s, c, t, x, m),
         NEW u, u = [t EXCEPT ![Turn(s, c, 1)] = @ + 1]
  PROVE  \E l \in 0 .. Len(s) : Balanced(s, c + 1, u, x, l)
<1> DEFINE n == Len(s)
           l == IF m = n THEN 1 ELSE m + 1
           f(k) == IF k < n THEN k + 1 ELSE 1
<1>1. n \in Nat \ {0} /\ m \in 0 .. n
  BY TurnProperties
<1>2. \A k \in 0 .. n : Turn(s, c, k) \in S
  BY TurnProperties, ElementOfSeq, LenProperties DEF Range
<1>3. ASSUME NEW k \in 1 .. n
      PROVE  f(k) \in 1 .. n /\ Turn(s, c + 1, k) = Turn(s, c, f(k))
  <2>1. /\ Turn(s, c + 1, k) = Turn(s, c, k + 1)
        /\ Turn(s, c + 1, 0) = Turn(s, c, 0 + 1)
        /\ Turn(s, c + 1, n) = Turn(s, c + 1, 0)
    BY <1>1, TurnProperties
  <2> QED
    BY <1>1, <2>1
<1>4. \A k \in 1 .. n : Turn(s, c, k) = Turn(s, c, 1) => k = 1
  BY <1>1, TurnProperties
<1>5. \A k \in 1 .. n :
        /\ t[Turn(s, c, k)] \in Nat
        /\ u[Turn(s, c, k)] = t[Turn(s, c, k)] + IF k = 1 THEN 1 ELSE 0
  BY <1>1, <1>2, <1>4
<1> HIDE DEF n
<1>6. \A j, k \in 1 .. n :
        t[Turn(s, c, j)] - Ahead(n, m, j) <= t[Turn(s, c, k)] - Ahead(n, m, k) + x
  BY DEF Balanced, n
<1>7. \A k \in 1 .. n :
        Ahead(n, l, k) = Ahead(n, m, f(k)) + (IF f(k) = 1 THEN 1 ELSE 0)
                         - IF m = n THEN 1 ELSE 0
  BY <1>1 DEF Ahead
<1>8. ASSUME NEW j \in 1 .. n, NEW k \in 1 .. n
      PROVE  u[Turn(s, c + 1, j)] - Ahead(n, l, j) <= u[Turn(s, c + 1, k)] - Ahead(n, l, k) + x
  <2>1. PICK a : a = f(j)
    OBVIOUS
  <2>2. PICK b : b = f(k)
    OBVIOUS
  <2>3. a \in 1 .. n /\ b \in 1 .. n
    BY <1>3, <2>1, <2>2
  <2>4. u[Turn(s, c + 1, j)] = t[Turn(s, c, a)] + IF a = 1 THEN 1 ELSE 0
    BY <1>3, <1>5, <2>1, <2>3
  <2>5. u[Turn(s, c + 1, k)] = t[Turn(s, c, b)] + IF b = 1 THEN 1 ELSE 0
    BY <1>3, <1>5, <2>2, <2>3
  <2>6. t[Turn(s, c, a)] - Ahead(n, m, a) <= t[Turn(s, c, b)] - Ahead(n, m, b) + x
    BY <1>6, <2>3
  <2>7. /\ Ahead(n, l, j) = Ahead(n, m, a) + (IF a = 1 THEN 1 ELSE 0) - IF m = n THEN 1 ELSE 0
        /\ Ahead(n, l, k) = Ahead(n, m, b) + (IF b = 1 THEN 1 ELSE 0) - IF m = n THEN 1 ELSE 0
    BY <1>7, <2>1, <2>2
  <2>8. Ahead(n, m, a) \in {0, 1} /\ Ahead(n, m, b) \in {0, 1}
    BY DEF Ahead
  <2>9. t[Turn(s, c, a)] \in Nat /\ t[Turn(s, c, b)] \in Nat
    BY <1>5, <2>3
  <2>10. ASSUME NEW p \in Nat, NEW q \in Nat, NEW v \in {0, 1}, NEW w \in {0, 1},
                NEW y \in {0, 1}, NEW z \in {0, 1}, NEW e \in {0, 1},
                p - v <= q - w + x
         PROVE  (p + y) - (v + y - e) <= (q + z) - (w + z - e) + x
    BY <2>10
  <2>11. PICK y \in {0, 1}, z \in {0, 1}, e \in {0, 1} :
           /\ y = IF a = 1 THEN 1 ELSE 0
           /\ z = IF b = 1 THEN 1 ELSE 0
           /\ e = IF m = n THEN 1 ELSE 0
    OBVIOUS
  <2> HIDE DEF l, f
  <2>12. (t[Turn(s, c, a)] + y) - (Ahead(n, m, a) + y - e)
         <= (t[Turn(s, c, b)] + z) - (Ahead(n, m, b) + z - e) + x
    BY <2>6, <2>8, <2>9, <2>10
  <2> QED
    BY <2>4, <2>5, <2>7, <2>11, <2>12
<1>9. l \in 0 .. n
  BY <1>1
<1> HIDE DEF l
<1>10. Balanced(s, c + 1, u, x, l)
  BY <1>8 DEF Balanced, n
<1> QED
  BY <1>9, <1>10 DEF n

(* A draw that went elsewhere, or a jump of the counter, starts a sweep at *)
(* some other slot, at the cost of one more turn of difference.            *)
LEMMA BalancedStray ==
  ASSUME NEW S, NEW s \in Seq(S), s # <<>>, NEW c \in Nat, NEW t \in [S -> Nat],
         NEW x \in Nat, NEW m \in 0 .. Len(s), Balanced(s, c, t, x, m),
         NEW d \in Nat, NEW y \in Nat, y > x
  PROVE  Balanced(s, d, t, y, 0)
<1>1. \A b, e \in Range(s) : t[b] <= t[e] + x + 1
  BY BalancedEven
<1>2. \A b \in Range(s) : t[b] \in Nat
  BY ElementOfSeq, LenProperties DEF Range
<1>3. Len(s) \in Nat
  BY LenProperties
<1>4. \A k \in 1 .. Len(s) : Turn(s, d, k) \in Range(s) /\ Ahead(Len(s), 0, k) = 0
  <2>1. \A k \in 1 .. Len(s) : k \in 0 .. Len(s)
    BY <1>3
  <2>2. \A k \in 1 .. Len(s) : Turn(s, d, k) \in Range(s)
    BY <2>1, TurnProperties
  <2> QED
    BY <1>3, <2>2 DEF Ahead
<1>5. ASSUME NEW p \in Nat, NEW q \in Nat, p <= q + x + 1
      PROVE  p - 0 <= q - 0 + y
  BY <1>5
<1>6. \A j, k \in 1 .. Len(s) : t[Turn(s, d, j)] - 0 <= t[Turn(s, d, k)] - 0 + y
  BY <1>1, <1>2, <1>4, <1>5
<1> QED
  BY <1>4, <1>6 DEF Balanced

(* A draw of number 0, after the counter has wrapped.                      *)
LEMMA BalancedWrap ==
  ASSUME NEW S, NEW s \in Seq(S), s # <<>>, IsInjective(s), NEW c \in Nat,
         NEW t \in [S -> Nat], NEW x \in Nat, NEW m \in 0 .. Len(s),
         Balanced(s, c, t, x, m),
         NEW u, u = [t EXCEPT ![Turn(s, 0, 0)] = @ + 1]
  PROVE  Balanced(s, 0, u, x + 1, 1)
<1>1. \A b, e \in Range(s) : t[b] <= t[e] + x + 1
  BY BalancedEven
<1>2. \A b \in Range(s) : b \in S /\ t[b] \in Nat
  BY ElementOfSeq, LenProperties DEF Range
<1> DEFINE n == Len(s)
<1>3. n \in Nat \ {0}
  BY TurnProperties
<1>4. \A k \in 1 .. n : Turn(s, 0, k) \in Range(s)
  <2>1. \A k \in 1 .. n : k \in 0 .. n
    BY <1>3
  <2> QED
    BY <2>1, TurnProperties
<1>5. Turn(s, 0, n) = Turn(s, 0, 0)
  BY TurnProperties
<1>6. \A k \in 1 .. n : Turn(s, 0, k) = Turn(s, 0, n) => k = n
  <2>1. n \in 1 .. n
    BY <1>3
  <2> QED
    BY <2>1, TurnProperties
<1> HIDE DEF n
<1>7. ASSUME NEW k \in 1 .. n
      PROVE  u[Turn(s, 0, k)] - Ahead(n, 1, k) = t[Turn(s, 0, k)]
  <2>1. Ahead(n, 1, k) = IF k = n THEN 1 ELSE 0
    BY <1>3 DEF Ahead
  <2>2. u[Turn(s, 0, k)] = IF k = n THEN t[Turn(s, 0, k)] + 1 ELSE t[Turn(s, 0, k)]
    BY <1>2, <1>4, <1>5, <1>6
  <2>3. t[Turn(s, 0, k)] \in Nat
    BY <1>2, <1>4
  <2>4. PICK p \in Nat : p = t[Turn(s, 0, k)]
    BY <2>3
  <2>5. CASE k = n
    BY <2>1, <2>2, <2>4, <2>5
  <2>6. CASE k # n
    BY <2>1, <2>2, <2>4, <2>6
  <2> QED
    BY <2>5, <2>6
<1>8. \A j, k \in 1 .. n : t[Turn(s, 0, j)] <= t[Turn(s, 0, k)] + (x + 1)
  <2>1. ASSUME NEW p \in Nat, NEW q \in Nat, p <= q + x + 1
        PROVE  p <= q + (x + 1)
    BY <2>1
  <2> QED
    BY <1>1, <1>2, <1>4, <2>1
<1> QED
  BY <1>7, <1>8 DEF Balanced, n

(* Nobody has had a turn yet.                                              *)
LEMMA BalancedStart ==
  ASSUME NEW s \in Seq(Backends), s # <<>>, NEW c \in Nat
  PROVE  Balanced(s, c, NoneTaken, 0, 0)
<1>1. Len(s) \in Nat
  BY LenProperties
<1>2. \A k \in 1 .. Len(s) : Turn(s, c, k) \in Backends /\ Ahead(Len(s), 0, k) = 0
  <2>1. \A k \in 1 .. Len(s) : k \in 0 .. Len(s)
    BY <1>1
  <2>2. \A k \in 1 .. Len(s) : Turn(s, c, k) \in Range(s)
    BY <2>1, TurnProperties
  <2>3. Range(s) \subseteq Backends
    BY ElementOfSeq, LenProperties DEF Range
  <2> QED
    BY <1>1, <2>2, <2>3 DEF Ahead
<1>3. \A k \in 1 .. Len(s) : NoneTaken[Turn(s, c, k)] = 0
  BY <1>2 DEF NoneTaken
<1> QED
  BY <1>2, <1>3 DEF Balanced

-----------------------------------------------------------------------------
(* Whole sweeps.                                                           *)

\* The turns of b among the last r draws, r at most the length of the slice.
Had(s, c, r, b) == Cardinality({k \in 1 .. Len(s) : k > Len(s) - r /\ Turn(s, c, k) = b})

(* None at the start of a sweep, one for each of its slots at the end.     *)
LEMMA HadBounds ==
  ASSUME NEW S, NEW s \in Seq(S), s # <<>>, NEW c \in Nat, NEW b
  PROVE  Had(s, c, 0, b) = 0 /\ Had(s, c, Len(s), b) = Count(s, b)
<1> DEFINE n == Len(s)
           A == {k \in 1 .. n : Turn(s, c, k) = b}
           B == {p \in DOMAIN s : s[p] = b}
           f == [k \in A |-> Slot(n, c, k)]
<1>1. n \in Nat \ {0} /\ DOMAIN s = 1 .. n
  BY EmptySeq, LenProperties
<1>2. {k \in 1 .. n : k > n - 0 /\ Turn(s, c, k) = b} = {}
  BY <1>1
<1>3. {k \in 1 .. n : k > n - n /\ Turn(s, c, k) = b} = A
  BY <1>1
<1>4. \A k : Turn(s, c, k) = s[Slot(n, c, k)]
  BY DEF Turn
<1> HIDE DEF n
<1>5. /\ \A k \in 0 .. n : Slot(n, c, k) \in 1 .. n
      /\ \A j, k \in 1 .. n : Slot(n, c, j) = Slot(n, c, k) => j = k
      /\ \A p \in 1 .. n : \E k \in 1 .. n : Slot(n, c, k) = p
  BY <1>1, SlotProperties
<1>6. f \in [A -> B] /\ \A j, k \in A : f[j] = f[k] => j = k
  <2>1. \A k \in A : Slot(n, c, k) \in 1 .. n
    <3>1. \A k \in A : k \in 0 .. n
      BY <1>1
    <3> QED
      BY <1>5, <3>1
  <2>2. \A k \in A : Slot(n, c, k) \in B
    BY <1>1, <1>4, <2>1
  <2> QED
    BY <1>5, <2>2
<1>7. ASSUME NEW p \in B PROVE \E k \in A : f[k] = p
  <2>1. PICK k \in 1 .. n : Slot(n, c, k) = p
    BY <1>1, <1>5
  <2>2. k \in A
    BY <1>4, <2>1
  <2> QED
    BY <2>1, <2>2
<1>8. IsFiniteSet(A)
  <2>1. IsFiniteSet(1 .. n)
    BY <1>1, FS_Interval
  <2> QED
    BY <2>1, FS_Subset
<1> HIDE DEF A, B, f
<1>9. Cardinality(B) = Cardinality(A)
  BY <1>6, <1>7, <1>8, SameSize
<1> QED
  BY <1>2, <1>3, <1>9, FS_EmptySet DEF Had, Count, n, B

(* One more draw gives one more turn, to whose slot it is.                 *)
LEMMA HadDraw ==
  ASSUME NEW S, NEW s \in Seq(S), s # <<>>, NEW c \in Nat, NEW r \in 0 .. Len(s) - 1, NEW b
  PROVE  /\ Had(s, c, r, b) \in Nat
         /\ Had(s, c + 1, r + 1, b) = Had(s, c, r, b) + IF b = Turn(s, c, 1) THEN 1 ELSE 0
<1> DEFINE n == Len(s)
           A == {k \in 1 .. n : k > n - r /\ Turn(s, c, k) = b}
           B == {k \in 1 .. n : k < n /\ k > n - (r + 1) /\ Turn(s, c + 1, k) = b}
           C == {k \in 1 .. n : k > n - (r + 1) /\ Turn(s, c + 1, k) = b}
           f == [k \in A |-> k - 1]
<1>1. n \in Nat \ {0} /\ r \in 0 .. n - 1
  BY TurnProperties
<1>2. /\ \A k \in Nat : Turn(s, c + 1, k) = Turn(s, c, k + 1)
      /\ Turn(s, c + 1, n) = Turn(s, c + 1, 0)
  <2>1. \A k \in Nat : Turn(s, c + 1, k) = Turn(s, c, k + 1)
    BY TurnProperties
  <2>2. PICK e \in Nat : e = c + 1
    OBVIOUS
  <2>3. Turn(s, e, n) = Turn(s, e, 0)
    BY TurnProperties
  <2> QED
    BY <2>1, <2>2, <2>3
<1> HIDE DEF n
<1>3. Turn(s, c + 1, n) = Turn(s, c, 1)
  BY <1>2
<1>4. ASSUME NEW k \in A PROVE k - 1 \in B
  <2>1. k \in 1 .. n /\ k > n - r /\ Turn(s, c, k) = b
    OBVIOUS
  <2>2. k - 1 \in 1 .. n /\ k - 1 < n /\ k - 1 > n - (r + 1) /\ (k - 1) + 1 = k /\ k - 1 \in Nat
    BY <1>1, <2>1
  <2>3. Turn(s, c + 1, k - 1) = b
    BY <1>2, <2>1, <2>2
  <2> QED
    BY <2>2, <2>3
<1>5. ASSUME NEW k \in B PROVE k + 1 \in A /\ f[k + 1] = k
  <2>1. k + 1 \in 1 .. n /\ k + 1 > n - r /\ k \in Nat /\ (k + 1) - 1 = k
    BY <1>1
  <2>2. Turn(s, c, k + 1) = b
    BY <1>2, <2>1
  <2> QED
    BY <2>1, <2>2
<1>6. f \in [A -> B]
  BY <1>4
<1>7. \A j, k \in A : f[j] = f[k] => j = k
  BY <1>1
<1>8. \A k \in B : \E j \in A : f[j] = k
  BY <1>5
<1>9. IsFiniteSet(A) /\ IsFiniteSet(B)
  <2>1. IsFiniteSet(1 .. n)
    BY <1>1, FS_Interval
  <2> QED
    BY <2>1, FS_Subset
<1>10. /\ n \notin B
       /\ C = IF b = Turn(s, c, 1) THEN B \cup {n} ELSE B
  <2>1. n \in 1 .. n /\ n > n - (r + 1) /\ ~ (n < n)
    BY <1>1
  <2>2. \A k \in 1 .. n : k < n \/ k = n
    BY <1>1
  <2> QED
    BY <1>3, <2>1, <2>2
<1>11. Cardinality(A) \in Nat
  BY <1>9, FS_CardinalityType
<1> HIDE DEF A, B, C, f
<1>12. Cardinality(B) = Cardinality(A)
  BY <1>6, <1>7, <1>8, <1>9, SameSize
<1>13. Cardinality(B \cup {n}) = Cardinality(B) + 1
  BY <1>9, <1>10, FS_AddElement
<1>14. Had(s, c, r, b) = Cardinality(A) /\ Had(s, c + 1, r + 1, b) = Cardinality(C)
  BY DEF Had, A, C, n
<1> QED
  BY <1>10, <1>11, <1>12, <1>13, <1>14

\* After d draws every element has had its slots q times and then its turns
\* among the last r.
Swept(s, c, t, d) ==
  \E q \in Nat, r \in 0 .. Len(s) - 1 :
    /\ d = Len(s) * q + r
    /\ \A b \in Range(s) : t[b] = q * Count(s, b) + Had(s, c, r, b)

(* Before the first draw.                                                  *)
LEMMA SweptStart ==
  ASSUME NEW s \in Seq(Backends), s # <<>>, NEW c \in Nat
  PROVE  Swept(s, c, NoneTaken, 0)
<1>1. Len(s) \in Nat \ {0}
  BY TurnProperties
<1>2. \A b \in Range(s) : b \in Backends /\ Count(s, b) \in Nat /\ Had(s, c, 0, b) = 0
  <2>1. \A b \in Range(s) : b \in Backends
    BY ElementOfSeq, LenProperties DEF Range
  <2> QED
    BY <2>1, CountType, HadBounds
<1>3. \A b \in Range(s) : NoneTaken[b] = 0 * Count(s, b) + Had(s, c, 0, b)
  BY <1>2 DEF NoneTaken
<1>4. 0 = Len(s) * 0 + 0 /\ 0 \in 0 .. Len(s) - 1
  BY <1>1
<1> QED
  BY <1>3, <1>4 DEF Swept

(* A draw that follows the last one.                                       *)
LEMMA SweptDraw ==
  ASSUME NEW S, NEW s \in Seq(S), s # <<>>, NEW c \in Nat, NEW t \in [S -> Nat],
         NEW d \in Nat, Swept(s, c, t, d),
         NEW u, u = [t EXCEPT ![Turn(s, c, 1)] = @ + 1]
  PROVE  Swept(s, c + 1, u, d + 1)
<1> DEFINE n == Len(s)
<1>1. n \in Nat \ {0}
  BY TurnProperties
<1>2. PICK q \in Nat, r \in 0 .. n - 1 :
        /\ d = n * q + r
        /\ \A b \in Range(s) : t[b] = q * Count(s, b) + Had(s, c, r, b)
  BY DEF Swept
<1>3. ASSUME NEW b \in Range(s)
      PROVE  /\ u[b] = q * Count(s, b) + Had(s, c + 1, r + 1, b)
             /\ Count(s, b) \in Nat /\ q * Count(s, b) \in Nat
  <2>1. b \in S /\ Count(s, b) \in Nat
    BY ElementOfSeq, LenProperties, CountType DEF Range
  <2>2. PICK p \in Nat : p = q * Count(s, b)
    BY <1>2, <2>1
  <2>3. PICK h \in Nat : h = Had(s, c, r, b)
    BY HadDraw
  <2>4. PICK one \in {0, 1} : one = IF b = Turn(s, c, 1) THEN 1 ELSE 0
    OBVIOUS
  <2>5. Had(s, c + 1, r + 1, b) = h + one
    BY <2>3, <2>4, HadDraw
  <2>6. t[b] = p + h
    BY <1>2, <2>2, <2>3
  <2>7. u[b] = p + h + one
    <3>1. u[b] = IF b = Turn(s, c, 1) THEN t[b] + 1 ELSE t[b]
      BY <2>1
    <3>2. CASE b = Turn(s, c, 1)
      BY <2>4, <2>6, <3>1, <3>2
    <3>3. CASE b # Turn(s, c, 1)
      BY <2>4, <2>6, <3>1, <3>3
    <3> QED
      BY <3>2, <3>3
  <2>8. p + h + one = p + (h + one)
    OBVIOUS
  <2> QED
    BY <2>1, <2>2, <2>5, <2>7, <2>8
<1>4. CASE r + 1 < n
  <2>1. r + 1 \in 0 .. n - 1 /\ d + 1 = n * q + (r + 1)
    BY <1>1, <1>2, <1>4
  <2> QED
    BY <1>2, <1>3, <2>1 DEF Swept
<1>5. CASE ~ (r + 1 < n)
  <2>1. r + 1 = n
    BY <1>1, <1>2, <1>5
  <2>2. d + 1 = n * (q + 1) + 0 /\ q + 1 \in Nat /\ 0 \in 0 .. n - 1
    BY <1>1, <1>2, <2>1
  <2>3. ASSUME NEW b \in Range(s)
        PROVE  u[b] = (q + 1) * Count(s, b) + Had(s, c + 1, 0, b)
    <3>1. Had(s, c + 1, n, b) = Count(s, b) /\ Had(s, c + 1, 0, b) = 0
      BY HadBounds
    <3>2. u[b] = q * Count(s, b) + Count(s, b) /\ Count(s, b) \in Nat
      BY <1>3, <2>1, <3>1
    <3> QED
      BY <3>1, <3>2
  <2> QED
    BY <2>2, <2>3 DEF Swept
<1> QED
  BY <1>4, <1>5

-----------------------------------------------------------------------------
(* The history of the draws.                                               *)

\* A request takes the position that the next number of the counter gives it.
Drawn(r) ==
  /\ phase[r] = "loaded" /\ i' = Draw
  /\ PickAt(r, 1 + (Draw % Len(snap[r])))

(* A step draws a number or leaves the counter alone.                      *)
LEMMA CounterStep ==
  ASSUME TypeInv, [BalancerStep]_allVars
  PROVE  \/ type # "random" /\ \E r \in Requests : Drawn(r)
         \/ i' = i /\ Drawing = {}
<1>1. ASSUME UNCHANGED requestVars PROVE Drawing = {}
  BY <1>1 DEF Drawing, requestVars
<1>2. ASSUME NEW r \in Requests, LoadServers(r) \/ Respond(r) PROVE Drawing = {}
  <2>1. phase[r] # "loaded" /\ \A q \in Requests : q # r => phase'[q] = phase[q]
    BY <1>2 DEF LoadServers, Load, Respond, TypeInv, SliceTypeInv, SliceTypeOK, BalancerTypeOK
  <2> QED
    BY <2>1 DEF Drawing
<1>3. ASSUME healthCheckerStep \/ Probe \/ Leave \/ CheckerStep("rejoin", "markUp")
               \/ StoreIsHostAlive
      PROVE  UNCHANGED requestVars
  BY <1>3 DEF healthCheckerStep, SelectTick, SelectStop, LoopHead, Probe, Leave,
              CheckerStep, StoreIsHostAlive, StoreFlag, requestVars
<1>4. ASSUME StatsCall \/ ShutdownCall \/ \E b \in Flaky : Flip(b)
      PROVE  UNCHANGED requestVars
  BY <1>4 DEF StatsCall, StatsStart, StatsRow, StatsReturn, ShutdownCall, ShutdownStop,
              ShutdownJoined, ShutdownTimeout, ShutdownClose, Flip
<1>5. CASE UNCHANGED allVars
  BY <1>1, <1>5 DEF allVars, vars, balancerVars
<1>6. CASE type = "round-robin" /\ RR!Next
  <2> USE SameInRoundRobin
  <2>1. ASSUME NEW r \in Requests, RR!Serve(r)
        PROVE  Drawn(r) \/ (i' = i /\ Drawing = {})
    <3>1. CASE RR!next(r)
      BY <3>1 DEF RR!next, RR!Draw, Draw, Drawn
    <3>2. CASE ~ RR!next(r)
      BY <1>2, <2>1, <3>2 DEF RR!Serve
    <3> QED
      BY <3>1, <3>2
  <2>2. CASE RR!healthChecker \/ RR!healthCheck
    BY <1>1, <1>3, <2>2 DEF RR!healthChecker, RR!healthCheck, RR!Rejoin
  <2>3. CASE RR!Stats \/ RR!Shutdown \/ RR!Environment
    BY <1>1, <1>4, <2>3 DEF RR!Stats, RR!Shutdown, RR!Environment
  <2> QED
    BY <1>6, <2>1, <2>2, <2>3 DEF RR!Next
<1>7. CASE type = "w-round-robin" /\ Next
  <2>1. ASSUME NEW r \in Requests, Serve(r)
        PROVE  Drawn(r) \/ (i' = i /\ Drawing = {})
    BY <1>2, <2>1 DEF Serve, next, Drawn
  <2>2. CASE healthChecker \/ healthCheck
    BY <1>1, <1>3, <2>2 DEF healthChecker, healthCheck, Rejoin
  <2>3. CASE Stats \/ Shutdown \/ Environment
    BY <1>1, <1>4, <2>3 DEF Stats, Shutdown, Environment
  <2> QED
    BY <1>7, <2>1, <2>2, <2>3 DEF Next
<1>8. CASE type = "random"
  <2>1. Drawing = {}
    BY <1>8 DEF Drawing
  <2>2. i' = i
    BY <1>8 DEF BalancerStep, allVars, vars
  <2> QED
    BY <2>1, <2>2
<1> QED
  BY <1>5, <1>6, <1>7, <1>8 DEF BalancerStep

HistoryType == taken \in [Backends -> Nat] /\ draws \in Nat /\ strays \in Nat

\* What a step may do to the history.
Stored ==
  /\ i' = i /\ taken' = NoneTaken /\ draws' = 0 /\ strays' = 0
NotDrawn ==
  UNCHANGED <<servers, i, taken, draws, strays>>
OwnDraw ==
  /\ UNCHANGED <<servers, strays>> /\ i' = i + 1 /\ draws' = draws + 1
  /\ taken' = [taken EXCEPT ![Turn(servers, i, 1)] = @ + 1]
WrapDraw ==
  /\ UNCHANGED servers /\ i' = 0 /\ draws' = draws + 1 /\ strays' = strays + 1
  /\ taken' = [taken EXCEPT ![Turn(servers, 0, 0)] = @ + 1]
StrayDraw ==
  /\ UNCHANGED <<servers, taken, draws>> /\ i' \in Nat
  /\ strays' \in Nat /\ strays' > strays

(* Nothing else can happen to it, if the counter can hold more than one    *)
(* number.                                                                 *)
LEMMA HistoryStep ==
  ASSUME TypeInv, HistoryType, CounterMod > 1, [HStep]_historyVars
  PROVE  Stored \/ NotDrawn \/ OwnDraw \/ WrapDraw \/ StrayDraw
<1>1. CASE UNCHANGED historyVars
  BY <1>1 DEF historyVars, allVars, vars, sliceVars, NotDrawn
<1> DEFINE ours == {r \in Drawing : snap[r] = servers}
<1>2. CASE HStep
  <2>1. [BalancerStep]_allVars
    BY <1>2 DEF HStep
  <2>2. CASE servers' # servers
    <3>1. ASSUME NEW r \in Requests, Drawn(r) PROVE FALSE
      BY <2>2, <3>1 DEF Drawn, PickAt
    <3>2. i' = i
      BY <2>1, <3>1, CounterStep
    <3> QED
      BY <1>2, <2>2, <3>2 DEF HStep, Stored
  <2>3. CASE servers' = servers
    <3>1. /\ taken' = [b \in Backends |-> taken[b] + Cardinality({r \in ours : picked'[r] = b})]
          /\ draws' = draws + Cardinality(ours)
          /\ strays' = strays + (IF Drawing # ours THEN 1 ELSE 0) + (IF i' < i THEN 1 ELSE 0)
      BY <1>2, <2>3 DEF HStep
    <3>2. CASE i' = i /\ Drawing = {}
      <4>1. ours = {} /\ \A b : {r \in ours : picked'[r] = b} = {}
        BY <3>2
      <4>2. ~ (i' < i)
        BY <3>2 DEF TypeInv
      <4> HIDE DEF ours
      <4>3. Cardinality(ours) = 0 /\ \A b : Cardinality({r \in ours : picked'[r] = b}) = 0
        BY <4>1, FS_EmptySet
      <4>4. draws' = draws /\ strays' = strays
        BY <3>1, <3>2, <4>1, <4>2, <4>3 DEF HistoryType
      <4>5. taken' = taken
        <5>1. taken' = [b \in Backends |-> taken[b] + 0]
          BY <3>1, <4>3
        <5> QED
          BY <5>1 DEF HistoryType
      <4> QED
        BY <2>3, <3>2, <4>4, <4>5 DEF NotDrawn
    <3>3. ASSUME type # "random", NEW r \in Requests, Drawn(r)
          PROVE  OwnDraw \/ WrapDraw \/ StrayDraw
      <4>1. /\ phase[r] = "loaded" /\ phase' = [phase EXCEPT ![r] = "proxying"]
            /\ picked' = [picked EXCEPT ![r] = snap[r][1 + (Draw % Len(snap[r]))]]
            /\ phase \in [Requests -> {"idle", "loaded", "proxying", "refused"}]
            /\ picked \in [Requests -> Backends \cup {Nil}]
        BY <3>3 DEF Drawn, PickAt, Pick, TypeInv, SliceTypeInv, SliceTypeOK, BalancerTypeOK
      <4>2. Drawing = {r} /\ picked'[r] = snap[r][1 + (Draw % Len(snap[r]))]
        BY <3>3, <4>1 DEF Drawing
      <4>3. i' = Draw /\ i \in Nat /\ Draw \in Nat
        BY <3>3, DrawIsIndex, WRoundRobinAssumption DEF Drawn, TypeInv
      <4>4. \/ Draw = i + 1 /\ ~ (Draw < i)
            \/ Draw = 0 /\ Draw < i
        <5>1. i \in 0 .. CounterMod - 1 /\ CounterMod \in Nat
          BY WRoundRobinAssumption DEF TypeInv
        <5>2. CASE i + 1 < CounterMod
          BY <5>1, <5>2 DEF Draw
        <5>3. CASE i + 1 = CounterMod
          BY <5>1, <5>3 DEF Draw
        <5> QED
          BY <5>1, <5>2, <5>3
      <4>5. CASE snap[r] # servers
        <5>1. ours = {}
          BY <4>2, <4>5
        <5>2. Drawing # ours /\ \A b : {q \in ours : picked'[q] = b} = {}
          BY <4>2, <5>1
        <5> HIDE DEF ours
        <5>3. Cardinality(ours) = 0 /\ \A b : Cardinality({q \in ours : picked'[q] = b}) = 0
          BY <5>1, <5>2, FS_EmptySet
        <5>4. draws' = draws /\ strays' \in Nat /\ strays' > strays
          BY <3>1, <5>2, <5>3 DEF HistoryType
        <5>5. taken' = taken
          <6>1. taken' = [b \in Backends |-> taken[b] + 0]
            BY <3>1, <5>3
          <6> QED
            BY <6>1 DEF HistoryType
        <5> QED
          BY <2>3, <4>3, <5>4, <5>5 DEF StrayDraw
      <4>6. CASE snap[r] = servers
        <5> DEFINE d == servers[1 + (Draw % Len(servers))]
        <5>1. ours = {r} /\ Drawing = ours /\ picked'[r] = d
          BY <4>2, <4>6
        <5>2. d \in Backends
          <6>1. 1 + (Draw % Len(servers)) \in DOMAIN servers
            BY <4>1, <4>6, DrawIsIndex
          <6> QED
            BY <6>1, ElementOfSeq, LenProperties DEF TypeInv, SliceTypeInv, SliceTypeOK
        <5> HIDE DEF d, ours
        <5>3. \A b : {q \in ours : picked'[q] = b} = IF b = d THEN {r} ELSE {}
          BY <5>1
        <5>4. /\ Cardinality(ours) = 1
              /\ \A b : Cardinality({q \in ours : picked'[q] = b}) = IF b = d THEN 1 ELSE 0
          <6>1. Cardinality({r}) = 1 /\ Cardinality({}) = 0
            BY FS_EmptySet, FS_Singleton
          <6>2. ASSUME NEW b
                PROVE  Cardinality({q \in ours : picked'[q] = b}) = IF b = d THEN 1 ELSE 0
            <7>1. CASE b = d
              <8>1. {q \in ours : picked'[q] = b} = {r}
                BY <5>3, <7>1
              <8> QED
                BY <6>1, <7>1, <8>1
            <7>2. CASE b # d
              <8>1. {q \in ours : picked'[q] = b} = {}
                BY <5>3, <7>2
              <8> QED
                BY <6>1, <7>2, <8>1
            <7> QED
              BY <7>1, <7>2
          <6> QED
            BY <5>1, <6>1, <6>2
        <5>5. draws' = draws + 1 /\ strays' = strays + IF Draw < i THEN 1 ELSE 0
          BY <3>1, <4>3, <5>1, <5>4 DEF HistoryType
        <5>6. taken' = [taken EXCEPT ![d] = @ + 1]
          <6>1. taken' = [b \in Backends |-> taken[b] + IF b = d THEN 1 ELSE 0]
            BY <3>1, <5>4
          <6>2. \A b \in Backends : taken[b] \in Nat
            BY DEF HistoryType
          <6>3. \A b \in Backends :
                  taken[b] + (IF b = d THEN 1 ELSE 0) = IF b = d THEN taken[d] + 1 ELSE taken[b]
            BY <6>2
          <6> QED
            BY <6>1, <6>3 DEF HistoryType
        <5>7. CASE Draw = i + 1 /\ ~ (Draw < i)
          <6>1. d = Turn(servers, i, 1)
            BY <5>7 DEF d, Turn, Slot
          <6> QED
            BY <2>3, <4>3, <5>5, <5>6, <5>7, <6>1 DEF OwnDraw, HistoryType
        <5>8. CASE Draw = 0 /\ Draw < i
          <6>1. d = Turn(servers, 0, 0)
            <7>1. 0 + 0 = 0
              OBVIOUS
            <7> QED
              BY <5>8, <7>1 DEF d, Turn, Slot
          <6> QED
            BY <2>3, <4>3, <5>5, <5>6, <5>8, <6>1 DEF WrapDraw, HistoryType
        <5> QED
          BY <4>4, <5>7, <5>8
      <4> QED
        BY <4>5, <4>6
    <3> QED
      BY <2>1, <3>2, <3>3, CounterStep
  <2> QED
    BY <2>2, <2>3
<1> QED
  BY <1>1, <1>2

\* The turns of round-robin since the slice was stored, seen from the next draw.
TurnsInv ==
  type = "round-robin" /\ servers # <<>> =>
    \E m \in 0 .. Len(servers) : Balanced(servers, i, taken, strays, m)

\* The draws since then of a counter nothing has disturbed.
SweepInv ==
  strays = 0 /\ servers # <<>> => Swept(servers, i, taken, draws)

HistoryInv == HistoryType /\ TurnsInv /\ SweepInv

(* Nothing has been drawn from a slice that has just been stored.          *)
LEMMA HistoryStart ==
  ASSUME NEW s \in Seq(Backends), NEW c \in Nat
  PROVE  /\ NoneTaken \in [Backends -> Nat]
         /\ s # <<>> => \E m \in 0 .. Len(s) : Balanced(s, c, NoneTaken, 0, m)
         /\ s # <<>> => Swept(s, c, NoneTaken, 0)
<1>1. NoneTaken \in [Backends -> Nat]
  BY DEF NoneTaken
<1>2. 0 \in 0 .. Len(s)
  BY LenProperties
<1> QED
  BY <1>1, <1>2, BalancedStart, SweptStart

(* Every step keeps the history what it should be.                         *)
LEMMA HistoryInvStep ==
  ASSUME CounterMod > 1, TypeInv, BuiltInv, TypeInv', HistoryInv, [HStep]_historyVars
  PROVE  HistoryInv'
<1>0. /\ servers \in Seq(Backends) /\ servers' \in Seq(Backends)
      /\ i \in Nat /\ i' \in Nat /\ type' = type
      /\ taken \in [Backends -> Nat] /\ draws \in Nat /\ strays \in Nat
  <2>1. i \in Nat /\ i' \in Nat
    BY WRoundRobinAssumption DEF TypeInv
  <2>2. type' = type
    BY DEF HStep, BalancerStep, historyVars, allVars
  <2> QED
    BY <2>1, <2>2 DEF TypeInv, SliceTypeInv, SliceTypeOK, HistoryInv, HistoryType
<1>1. ASSUME type = "round-robin" PROVE IsInjective(servers)
  <2>1. Range(servers) \subseteq Backends
    BY <1>0, ElementOfSeq, LenProperties DEF Range
  <2>2. \A b \in Range(servers) : Count(servers, b) = 1
    BY <1>1, <2>1 DEF BuiltInv, SharesInv, Shared, OneEach, rotation
  <2> QED
    BY <1>0, <2>2, CountOne
<1>2. CASE Stored
  BY <1>0, <1>2, HistoryStart DEF Stored, HistoryInv, HistoryType, TurnsInv, SweepInv
<1>3. CASE NotDrawn
  BY <1>0, <1>3 DEF NotDrawn, HistoryInv, HistoryType, TurnsInv, SweepInv
<1>4. ASSUME NEW b,
             taken' = [taken EXCEPT ![b] = @ + 1], draws' = draws + 1,
             strays' = strays \/ strays' = strays + 1
      PROVE  HistoryType'
  <2>1. \A x \in Backends : taken[x] \in Nat /\ taken[x] + 1 \in Nat
    BY <1>0
  <2>2. taken' \in [Backends -> Nat]
    BY <1>0, <1>4, <2>1
  <2> QED
    BY <1>0, <1>4, <2>2 DEF HistoryType
<1>5. CASE OwnDraw
  <2>1. HistoryType'
    BY <1>4, <1>5 DEF OwnDraw
  <2>2. TurnsInv'
    <3> SUFFICES ASSUME type = "round-robin", servers # <<>>
                 PROVE  \E m \in 0 .. Len(servers) : Balanced(servers, i + 1, taken', strays, m)
      BY <1>0, <1>5 DEF TurnsInv, OwnDraw
    <3>1. PICK m \in 0 .. Len(servers) : Balanced(servers, i, taken, strays, m)
      BY DEF HistoryInv, TurnsInv
    <3>2. PICK u : u = taken'
      OBVIOUS
    <3>3. u = [taken EXCEPT ![Turn(servers, i, 1)] = @ + 1]
      BY <1>5, <3>2 DEF OwnDraw
    <3> QED
      BY <1>0, <1>1, <3>1, <3>2, <3>3, BalancedDraw
  <2>3. SweepInv'
    <3> SUFFICES ASSUME strays = 0, servers # <<>>
                 PROVE  Swept(servers, i + 1, taken', draws + 1)
      BY <1>5 DEF SweepInv, OwnDraw
    <3>1. Swept(servers, i, taken, draws)
      BY DEF HistoryInv, SweepInv
    <3>2. PICK u : u = taken'
      OBVIOUS
    <3>3. u = [taken EXCEPT ![Turn(servers, i, 1)] = @ + 1]
      BY <1>5, <3>2 DEF OwnDraw
    <3> QED
      BY <1>0, <3>1, <3>2, <3>3, SweptDraw
  <2> QED
    BY <2>1, <2>2, <2>3 DEF HistoryInv
<1>6. CASE WrapDraw
  <2>1. HistoryType'
    BY <1>4, <1>6 DEF WrapDraw
  <2>2. TurnsInv'
    <3> SUFFICES ASSUME type = "round-robin", servers # <<>>
                 PROVE  \E m \in 0 .. Len(servers) : Balanced(servers, 0, taken', strays + 1, m)
      BY <1>0, <1>6 DEF TurnsInv, WrapDraw
    <3>1. PICK m \in 0 .. Len(servers) : Balanced(servers, i, taken, strays, m)
      BY DEF HistoryInv, TurnsInv
    <3>2. PICK u : u = taken'
      OBVIOUS
    <3>3. u = [taken EXCEPT ![Turn(servers, 0, 0)] = @ + 1]
      BY <1>6, <3>2 DEF WrapDraw
    <3>4. Balanced(servers, 0, u, strays + 1, 1)
      BY <1>0, <1>1, <3>1, <3>3, BalancedWrap
    <3>5. 1 \in 0 .. Len(servers)
      BY <1>0, EmptySeq, LenProperties
    <3> QED
      BY <3>2, <3>4, <3>5
  <2>3. SweepInv'
    BY <1>0, <1>6 DEF SweepInv, WrapDraw
  <2> QED
    BY <2>1, <2>2, <2>3 DEF HistoryInv
<1>7. CASE StrayDraw
  <2>1. HistoryType'
    BY <1>0, <1>7 DEF StrayDraw, HistoryType
  <2>2. TurnsInv'
    <3> SUFFICES ASSUME type = "round-robin", servers # <<>>
                 PROVE  \E m \in 0 .. Len(servers) : Balanced(servers, i', taken, strays', m)
      BY <1>0, <1>7 DEF TurnsInv, StrayDraw
    <3>1. PICK m \in 0 .. Len(servers) : Balanced(servers, i, taken, strays, m)
      BY DEF HistoryInv, TurnsInv
    <3>2. PICK c \in Nat, y \in Nat : c = i' /\ y = strays' /\ y > strays
      BY <1>7 DEF StrayDraw
    <3>3. Balanced(servers, c, taken, y, 0)
      BY <1>0, <3>1, <3>2, BalancedStray
    <3>4. 0 \in 0 .. Len(servers)
      BY <1>0, LenProperties
    <3> QED
      BY <3>2, <3>3, <3>4
  <2>3. SweepInv'
    BY <1>0, <1>7 DEF SweepInv, StrayDraw
  <2> QED
    BY <2>1, <2>2, <2>3 DEF HistoryInv
<1> QED
  BY <1>2, <1>3, <1>5, <1>6, <1>7, HistoryStep DEF HistoryInv

(* The specification with history is the specification, and its history    *)
(* keeps the invariant.                                                    *)
LEMMA HistoryInvariant ==
  ASSUME IsInjective(Hash), CounterMod > 1
  PROVE  HistorySpec => [](TypeInv /\ BuiltInv /\ HistoryInv)
<1>1. HInit => TypeInv /\ BuiltInv /\ StatsInv /\ HistoryInv
  <2> SUFFICES ASSUME HInit PROVE TypeInv /\ BuiltInv /\ StatsInv /\ HistoryInv
    OBVIOUS
  <2>1. TypeInv /\ BuiltInv /\ StatsInv
    BY BuildBalancerInv DEF HInit
  <2>2. servers \in Seq(Backends) /\ i \in Nat
    BY <2>1, WRoundRobinAssumption DEF TypeInv, SliceTypeInv, SliceTypeOK
  <2>3. HistoryInv
    BY <2>2, HistoryStart DEF HInit, HistoryInv, HistoryType, TurnsInv, SweepInv
  <2> QED
    BY <2>1, <2>3
<1>2. TypeInv /\ BuiltInv /\ StatsInv /\ HistoryInv /\ [HStep]_historyVars
      => (TypeInv /\ BuiltInv /\ StatsInv /\ HistoryInv)'
  <2> SUFFICES ASSUME TypeInv, BuiltInv, StatsInv, HistoryInv, [HStep]_historyVars
               PROVE  (TypeInv /\ BuiltInv /\ StatsInv /\ HistoryInv)'
    OBVIOUS
  <2>1. [BalancerStep]_allVars
    BY DEF HStep, historyVars
  <2>2. TypeInv' /\ BuiltInv' /\ StatsInv'
    BY <2>1, BalancerTypeStep, BalancerBuiltStep
  <2>3. HistoryInv'
    BY <2>2, HistoryInvStep
  <2> QED
    BY <2>2, <2>3
<1> QED
  BY <1>1, <1>2, PTL DEF HistorySpec, historyVars

(* With distinct keys and a counter of more than one number, no Backend of *)
(* round-robin is ever more than one turn ahead of another, but for a turn *)
(* for each draw from an older slice and each wrap of the counter, for any *)
(* number of Backends and of requests that draw at the same time.          *)
THEOREM TurnsAreShared ==
  ASSUME IsInjective(Hash), CounterMod > 1
  PROVE  HistorySpec => []TurnsShared
<1>1. TypeInv /\ BuiltInv /\ HistoryInv => TurnsShared
  <2> SUFFICES ASSUME TypeInv, HistoryInv, type = "round-robin",
                      NEW b \in rotation, NEW c \in rotation
               PROVE  taken[b] <= taken[c] + 1 + strays
    BY DEF TurnsShared
  <2>1. /\ servers \in Seq(Backends) /\ i \in Nat
        /\ taken \in [Backends -> Nat] /\ strays \in Nat
    BY WRoundRobinAssumption DEF TypeInv, SliceTypeInv, SliceTypeOK, HistoryInv, HistoryType
  <2>2. servers # <<>>
    BY DEF rotation, Range
  <2>3. PICK m \in 0 .. Len(servers) : Balanced(servers, i, taken, strays, m)
    BY <2>2 DEF HistoryInv, TurnsInv
  <2>4. taken[b] <= taken[c] + strays + 1
    BY <2>1, <2>2, <2>3, BalancedEven DEF rotation
  <2>5. b \in Backends /\ c \in Backends
    BY <2>1, ElementOfSeq, LenProperties DEF rotation, Range
  <2>6. taken[b] \in Nat /\ taken[c] \in Nat
    BY <2>1, <2>5
  <2> QED
    BY <2>1, <2>4, <2>6
<1> QED
  BY <1>1, HistoryInvariant, PTL

(* Under the same conditions, k undisturbed sweeps of the counter draw     *)
(* every Backend exactly k times its share: k times its weight in          *)
(* WRoundRobin, for any weights and any order the shuffle gave.            *)
THEOREM SweepsAreFair ==
  ASSUME IsInjective(Hash), CounterMod > 1
  PROVE  HistorySpec => []SweepHonoursShares
<1>1. TypeInv /\ BuiltInv /\ HistoryInv => SweepHonoursShares
  <2> SUFFICES ASSUME TypeInv, BuiltInv, HistoryInv, strays = 0, servers # <<>>,
                      draws % Len(servers) = 0, NEW b \in rotation
               PROVE  taken[b] = (draws \div Len(servers)) * Share(b)
    BY DEF SweepHonoursShares
  <2> DEFINE n == Len(servers)
  <2>1. servers \in Seq(Backends) /\ i \in Nat
    BY WRoundRobinAssumption DEF TypeInv, SliceTypeInv, SliceTypeOK
  <2>2. n \in Nat \ {0}
    BY <2>1, EmptySeq, LenProperties
  <2>3. PICK q \in Nat, r \in 0 .. n - 1 :
          /\ draws = n * q + r
          /\ \A x \in rotation : taken[x] = q * Count(servers, x) + Had(servers, i, r, x)
    BY DEF HistoryInv, SweepInv, Swept, rotation
  <2>4. (n * q + r) % n = r /\ (n * q + r) \div n = q
    BY <2>2, <2>3, DivUnique
  <2>5. r = 0 /\ draws \div n = q
    BY <2>3, <2>4
  <2>6. Had(servers, i, 0, b) = 0
    BY <2>1, HadBounds
  <2>7. b \in Backends
    BY <2>1, ElementOfSeq, LenProperties DEF rotation, Range
  <2>8. Count(servers, b) = Share(b)
    BY <2>7 DEF BuiltInv, SharesInv, Shared, Share, OneEach
  <2>9. Count(servers, b) \in Nat
    BY <2>1, CountType
  <2>10. taken[b] = q * Count(servers, b) + 0
    BY <2>3, <2>5, <2>6
  <2> HIDE DEF n
  <2>11. q * Count(servers, b) + 0 = q * Count(servers, b)
    BY <2>3, <2>9
  <2> QED
    BY <2>5, <2>8, <2>10, <2>11 DEF n
<1> QED
  BY <1>1, HistoryInvariant, PTL

=============================================================================
