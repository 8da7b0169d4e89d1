---------------------------- MODULE IPHashProofs ----------------------------
(***************************************************************************)
(* IPHash for any number of Backends, virtual nodes, requests and clients. *)
(***************************************************************************)
EXTENDS MCIPHash, BalancerProofs

(* A snapshot of the ring, collisions or not: map and slice agree, and the *)
(* Backend that answers for a position has a virtual node there.           *)
Snapshot(R) ==
  /\ RingOK(R)
  /\ R.nodes \in [DOMAIN R.nodes -> Backends]
  /\ \A h \in DOMAIN R.nodes : h \in Positions(VirtualHash[R.nodes[h]])

\* The Backends on a ring.
OnRing(R) == Range(R.nodes)

\* No Backend on the ring has lost a virtual node.
Whole(R) == DOMAIN R.nodes = UNION {Positions(VirtualHash[b]) : b \in OnRing(R)}

\* No two Backends have virtual nodes at the same position.
NoCollisions ==
  \A b, c \in Backends :
    b # c => Positions(VirtualHash[b]) \cap Positions(VirtualHash[c]) = {}

-----------------------------------------------------------------------------
(* A Backend's virtual nodes are a slice of numbers, at least one.         *)
LEMMA VirtualHashType ==
  ASSUME NEW b \in Backends
  PROVE  /\ VirtualHash[b] \in Seq(Nat)
         /\ Positions(VirtualHash[b]) # {} /\ Positions(VirtualHash[b]) \subseteq Nat
<1>1. VirtualHash[b] \in Seq(Nat) /\ VirtualHash[b] # <<>>
  BY IPHashAssumption
<1>2. Len(VirtualHash[b]) \in Nat \ {0} /\ DOMAIN VirtualHash[b] = 1 .. Len(VirtualHash[b])
  BY <1>1, EmptySeq, LenProperties
<1>3. 1 \in DOMAIN VirtualHash[b]
  BY <1>2
<1>4. \A p \in DOMAIN VirtualHash[b] : VirtualHash[b][p] \in Nat
  BY <1>1, <1>2, ElementOfSeq
<1> QED
  BY <1>1, <1>3, <1>4 DEF Positions, Range

(* The empty ring is a snapshot without Backends.                          *)
LEMMA EmptyRing ==
  /\ Snapshot(NewConsistentHash) /\ Whole(NewConsistentHash)
  /\ OnRing(NewConsistentHash) = {}
<1>1. RingOK(NewConsistentHash) /\ DOMAIN NewConsistentHash.nodes = {}
  BY NewRingOK
<1>2. NewConsistentHash.nodes = <<>>
  BY DEF NewConsistentHash
<1>3. <<>> \in [{} -> Backends]
  OBVIOUS
<1>4. OnRing(NewConsistentHash) = {}
  BY <1>1 DEF OnRing, Range
<1> QED
  BY <1>1, <1>2, <1>3, <1>4 DEF Snapshot, Whole

(* Adding a Backend keeps a snapshot one; without collisions it costs no   *)
(* other Backend a position.                                               *)
LEMMA AddToRing ==
  ASSUME NEW R, Snapshot(R), NEW b \in Backends
  PROVE  LET new == AddNode(R, b, VirtualHash[b]) IN
         /\ Snapshot(new)
         /\ NoCollisions /\ Whole(R) => Whole(new) /\ OnRing(new) = OnRing(R) \cup {b}
<1> DEFINE new == AddNode(R, b, VirtualHash[b])
<1>1. RingOK(R) /\ VirtualHash[b] \in Seq(Nat)
  BY VirtualHashType DEF Snapshot
<1>2. /\ RingOK(new)
      /\ DOMAIN new.nodes = DOMAIN R.nodes \cup Positions(VirtualHash[b])
      /\ \A h \in DOMAIN new.nodes :
           new.nodes[h] = IF h \in Positions(VirtualHash[b]) THEN b ELSE R.nodes[h]
  BY <1>1, AddNodeProperties
<1>3. new.nodes = [h \in DOMAIN new.nodes |-> new.nodes[h]]
  BY DEF AddNode
<1> HIDE DEF new
<1>4. \A h \in DOMAIN new.nodes :
        new.nodes[h] \in Backends /\ h \in Positions(VirtualHash[new.nodes[h]])
  BY <1>2 DEF Snapshot
<1>5. Snapshot(new)
  BY <1>2, <1>3, <1>4 DEF Snapshot
<1>6. ASSUME NoCollisions, Whole(R)
      PROVE  Whole(new) /\ OnRing(new) = OnRing(R) \cup {b}
  <2>1. OnRing(new) \subseteq OnRing(R) \cup {b}
    BY <1>2 DEF OnRing, Range
  <2>2. b \in OnRing(new)
    <3>1. PICK h : h \in Positions(VirtualHash[b])
      BY VirtualHashType
    <3>2. h \in DOMAIN new.nodes /\ new.nodes[h] = b
      BY <1>2, <3>1
    <3> QED
      BY <3>2 DEF OnRing, Range
  <2>3. ASSUME NEW c \in OnRing(R) PROVE c \in OnRing(new)
    <3>1. PICK h \in DOMAIN R.nodes : R.nodes[h] = c
      BY DEF OnRing, Range
    <3>2. c \in Backends /\ h \in Positions(VirtualHash[c])
      BY <3>1 DEF Snapshot
    <3>3. h \in DOMAIN new.nodes /\ new.nodes[h] = c
      BY <1>2, <1>6, <3>1, <3>2 DEF NoCollisions
    <3> QED
      BY <3>3 DEF OnRing, Range
  <2>4. OnRing(new) = OnRing(R) \cup {b}
    BY <2>1, <2>2, <2>3
  <2> QED
    BY <1>2, <1>6, <2>4 DEF Whole
<1> QED
  BY <1>5, <1>6 DEF new

(* Removing one keeps a snapshot one; without collisions it takes that     *)
(* Backend off the ring and no other.                                      *)
LEMMA RemoveFromRing ==
  ASSUME NEW R, Snapshot(R), NEW b \in Backends
  PROVE  LET new == RemoveNode(R, VirtualHash[b]) IN
         /\ Snapshot(new)
         /\ NoCollisions /\ Whole(R) => Whole(new) /\ OnRing(new) = OnRing(R) \ {b}
<1> DEFINE new == RemoveNode(R, VirtualHash[b])
<1>1. /\ RingOK(new)
      /\ DOMAIN new.nodes = DOMAIN R.nodes \ Positions(VirtualHash[b])
      /\ \A h \in DOMAIN new.nodes : new.nodes[h] = R.nodes[h]
  BY RemoveNodeProperties DEF Snapshot
<1>2. new.nodes = [h \in DOMAIN new.nodes |-> new.nodes[h]]
  BY DEF RemoveNode, Restrict
<1> HIDE DEF new
<1>3. \A h \in DOMAIN new.nodes :
        new.nodes[h] \in Backends /\ h \in Positions(VirtualHash[new.nodes[h]])
  BY <1>1 DEF Snapshot
<1>4. Snapshot(new)
  BY <1>1, <1>2, <1>3 DEF Snapshot
<1>5. ASSUME NoCollisions, Whole(R)
      PROVE  Whole(new) /\ OnRing(new) = OnRing(R) \ {b}
  <2>1. ASSUME NEW c \in OnRing(new) PROVE c \in OnRing(R) /\ c # b
    <3>1. PICK h \in DOMAIN new.nodes : new.nodes[h] = c
      BY DEF OnRing, Range
    <3>2. h \in DOMAIN R.nodes /\ R.nodes[h] = c /\ h \notin Positions(VirtualHash[b])
      BY <1>1, <3>1
    <3>3. h \in Positions(VirtualHash[c])
      BY <3>2 DEF Snapshot
    <3> QED
      BY <3>2, <3>3 DEF OnRing, Range
  <2>2. ASSUME NEW c \in OnRing(R), c # b PROVE c \in OnRing(new)
    <3>1. PICK h \in DOMAIN R.nodes : R.nodes[h] = c
      BY DEF OnRing, Range
    <3>2. c \in Backends /\ h \in Positions(VirtualHash[c])
      BY <3>1 DEF Snapshot
    <3>3. h \in DOMAIN new.nodes /\ new.nodes[h] = c
      BY <1>1, <1>5, <2>2, <3>1, <3>2 DEF NoCollisions
    <3> QED
      BY <3>3 DEF OnRing, Range
  <2>3. OnRing(new) = OnRing(R) \ {b}
    BY <2>1, <2>2
  <2>4. OnRing(R) \subseteq Backends
    BY DEF OnRing, Range, Snapshot
  <2>5. \A c \in OnRing(R) \ {b} :
          Positions(VirtualHash[c]) \cap Positions(VirtualHash[b]) = {}
    BY <1>5, <2>4 DEF NoCollisions
  <2>6. DOMAIN R.nodes = UNION {Positions(VirtualHash[c]) : c \in OnRing(R)}
    BY <1>5 DEF Whole
  <2>7. \A h : h \in DOMAIN new.nodes <=>
                 \E c \in OnRing(R) \ {b} : h \in Positions(VirtualHash[c])
    BY <1>1, <2>5, <2>6
  <2>8. DOMAIN new.nodes = UNION {Positions(VirtualHash[c]) : c \in OnRing(R) \ {b}}
    BY <2>7
  <2> QED
    BY <2>3, <2>8 DEF Whole
<1> QED
  BY <1>4, <1>5 DEF new

-----------------------------------------------------------------------------
(* The constructor's loop.                                                 *)

\* The values the loop goes through.
Rings == [nodes : UNION {[D -> Backends] : D \in SUBSET Nat}, numbers : Seq(Nat)]

(* One more Backend on a ring is a ring.                                   *)
LEMMA AddNodeType ==
  ASSUME NEW R \in Rings, NEW b \in Backends
  PROVE  AddNode(R, b, VirtualHash[b]) \in Rings
<1> DEFINE new == AddNode(R, b, VirtualHash[b])
           D   == DOMAIN R.nodes \cup Positions(VirtualHash[b])
           f   == [h \in D |-> IF h \in Positions(VirtualHash[b]) THEN b ELSE R.nodes[h]]
           s   == Sorted(R.numbers \o VirtualHash[b])
<1>1. PICK E \in SUBSET Nat : R.nodes \in [E -> Backends]
  BY DEF Rings
<1>2. D \in SUBSET Nat
  BY <1>1, VirtualHashType
<1>3. f \in [D -> Backends]
  BY <1>1
<1>4. R.numbers \in Seq(Nat) /\ VirtualHash[b] \in Seq(Nat)
  BY VirtualHashType DEF Rings
<1>5. s \in Seq(Nat)
  BY <1>4, ConcatProperties, SortedProperties
<1>6. new = [nodes |-> f, numbers |-> s]
  BY DEF AddNode
<1> HIDE DEF new, f, s, D
<1>7. f \in UNION {[d -> Backends] : d \in SUBSET Nat}
  BY <1>2, <1>3
<1>8. new \in Rings
  BY <1>5, <1>6, <1>7 DEF Rings
<1> QED
  BY <1>8 DEF new

(* What the loop has built after each Backend.                             *)
LEMMA ringUpToDef ==
  \A b \in 0 .. N :
    ringUpTo[b] = IF b = 0 THEN NewConsistentHash
                  ELSE IF isHostAlive[b] THEN AddNode(ringUpTo[b - 1], b, VirtualHash[b])
                  ELSE ringUpTo[b - 1]
<1> DEFINE step == [b \in 1 .. N |->
                     [R \in Rings |->
                       IF isHostAlive[b] THEN AddNode(R, b, VirtualHash[b]) ELSE R]]
<1>1. N \in Nat
  BY BalancerAssumption
<1>2. NewConsistentHash \in Rings
  <2>1. <<>> \in [{} -> Backends] /\ {} \in SUBSET Nat
    OBVIOUS
  <2>2. <<>> \in UNION {[D -> Backends] : D \in SUBSET Nat}
    BY <2>1
  <2> QED
    BY <2>2, EmptySeq DEF NewConsistentHash, Rings
<1>3. step \in [1 .. N -> [Rings -> Rings]]
  BY AddNodeType DEF Backends
<1> HIDE DEF step
<1>4. PICK f \in [0 .. N -> Rings] : Loop(N, NewConsistentHash, step, f)
  BY <1>1, <1>2, <1>3, LoopExists
<1>5. ASSUME NEW b \in 0 .. N, b # 0
      PROVE  f[b] =
               IF isHostAlive[b] THEN AddNode(f[b - 1], b, VirtualHash[b]) ELSE f[b - 1]
  <2>1. b \in 1 .. N /\ b - 1 \in 0 .. N
    BY <1>1, <1>5
  <2>2. f[b - 1] \in Rings
    BY <1>4, <2>1
  <2> QED
    BY <1>4, <2>1, <2>2 DEF step, Loop
<1>6. f = [b \in 0 .. N |->
            IF b = 0 THEN NewConsistentHash
            ELSE IF isHostAlive[b] THEN AddNode(f[b - 1], b, VirtualHash[b])
            ELSE f[b - 1]]
  BY <1>4, <1>5 DEF Loop
<1>7. ringUpTo = [b \in 0 .. N |->
            IF b = 0 THEN NewConsistentHash
            ELSE IF isHostAlive[b] THEN AddNode(ringUpTo[b - 1], b, VirtualHash[b])
            ELSE ringUpTo[b - 1]]
  BY <1>6 DEF ringUpTo
<1> QED
  BY <1>7

(* The constructor's ring: a snapshot and, without collisions, whole, with *)
(* the Backends that answered.                                             *)
LEMMA AliveRingProperties ==
  /\ Snapshot(AliveRing)
  /\ NoCollisions => /\ Whole(AliveRing)
                     /\ OnRing(AliveRing) = {b \in Backends : isHostAlive[b]}
<1> DEFINE Alive(k) == {b \in 1 .. k : isHostAlive[b]}
           P == {k \in 0 .. N :
                   /\ Snapshot(ringUpTo[k])
                   /\ NoCollisions => /\ Whole(ringUpTo[k])
                                      /\ OnRing(ringUpTo[k]) = Alive(k)}
<1>1. N \in Nat
  BY BalancerAssumption
<1>2. 0 \in P
  <2>1. ringUpTo[0] = NewConsistentHash /\ 0 \in 0 .. N
    BY <1>1, ringUpToDef
  <2>2. Alive(0) = {}
    OBVIOUS
  <2> QED
    BY <2>1, <2>2, EmptyRing
<1>3. ASSUME NEW k \in 1 .. N, k - 1 \in P PROVE k \in P
  <2> DEFINE R == ringUpTo[k - 1]
             new == ringUpTo[k]
  <2>1. /\ k \in 0 .. N /\ k # 0 /\ k \in Backends
        /\ new = IF isHostAlive[k] THEN AddNode(R, k, VirtualHash[k]) ELSE R
    BY <1>1, ringUpToDef DEF Backends
  <2>2. /\ Snapshot(R)
        /\ NoCollisions => Whole(R) /\ OnRing(R) = Alive(k - 1)
    BY <1>3
  <2>3. Alive(k) = IF isHostAlive[k] THEN Alive(k - 1) \cup {k} ELSE Alive(k - 1)
    <3>1. \A b \in 1 .. k : b = k \/ b \in 1 .. k - 1
      BY <1>3
    <3>2. k \in 1 .. k /\ \A b \in 1 .. k - 1 : b \in 1 .. k
      BY <1>3
    <3> QED
      BY <3>1, <3>2
  <2> HIDE DEF R, new, Alive
  <2>4. /\ Snapshot(new)
        /\ NoCollisions => Whole(new) /\ OnRing(new) = Alive(k)
    <3>1. CASE isHostAlive[k]
      BY <2>1, <2>2, <2>3, <3>1, AddToRing
    <3>2. CASE ~ isHostAlive[k]
      BY <2>1, <2>2, <2>3, <3>2
    <3> QED
      BY <3>1, <3>2
  <2> QED
    BY <2>1, <2>4 DEF new
<1> HIDE DEF P
<1>4. N \in P
  <2>1. \A k \in 0 .. N : k \in P
    BY <1>1, <1>2, <1>3, SetInduction
  <2> QED
    BY <1>1, <2>1
<1> QED
  BY <1>4 DEF P, AliveRing, Backends

-----------------------------------------------------------------------------
(* A lookup on a snapshot with positions finds the owner of the next one.  *)
LEMMA GetNodeOnRing ==
  ASSUME NEW R, Snapshot(R), R.numbers # <<>>, NEW h \in Nat
  PROVE  LET c == Clockwise(DOMAIN R.nodes, h) IN
         /\ DOMAIN R.nodes \subseteq Nat /\ DOMAIN R.nodes # {}
         /\ c \in DOMAIN R.nodes /\ GetNode(R, h) = R.nodes[c]
         /\ GetNode(R, h) \in OnRing(R)
<1> DEFINE c == Clockwise(DOMAIN R.nodes, h)
<1>1. RingOK(R)
  BY DEF Snapshot
<1>2. DOMAIN R.nodes # {}
  <2>1. R.numbers \in Seq(Nat) /\ Range(R.numbers) = DOMAIN R.nodes
    BY <1>1 DEF RingOK
  <2>2. 1 \in DOMAIN R.numbers
    BY <2>1, EmptySeq, LenProperties
  <2> QED
    BY <2>1, <2>2 DEF Range
<1>3. DOMAIN R.nodes \subseteq Nat /\ GetNode(R, h) = R.nodes[c]
  BY <1>1, <1>2, LookupProperties
<1>4. c \in DOMAIN R.nodes
  BY <1>2, <1>3, ClockwiseProperties
<1>5. GetNode(R, h) \in OnRing(R)
  BY <1>3, <1>4 DEF OnRing, Range
<1> QED
  BY <1>2, <1>3, <1>4, <1>5

(* The slice of a snapshot is empty when no Backend is on the ring.        *)
LEMMA RingEmpty ==
  ASSUME NEW R, Snapshot(R)
  PROVE  OnRing(R) \subseteq Backends /\ (R.numbers = <<>> <=> OnRing(R) = {})
<1>1. R.numbers \in Seq(Nat) /\ Range(R.numbers) = DOMAIN R.nodes
  BY DEF Snapshot, RingOK
<1>2. R.numbers = <<>> => DOMAIN R.nodes = {}
  BY <1>1 DEF Range
<1>3. R.numbers # <<>> => DOMAIN R.nodes # {}
  <2>1. R.numbers # <<>> => 1 \in DOMAIN R.numbers
    BY <1>1, EmptySeq, LenProperties
  <2> QED
    BY <1>1, <2>1 DEF Range
<1>4. DOMAIN R.nodes = {} <=> OnRing(R) = {}
  BY DEF OnRing, Range
<1> QED
  BY <1>2, <1>3, <1>4 DEF OnRing, Range, Snapshot

-----------------------------------------------------------------------------
(* What holds whatever collides: keys, virtual nodes or both.              *)

\* While the health checker acts on a probe, the entry's flag still says the opposite.
VerdictOnEntry ==
  /\ checker \in {"leave", "markDown"} => isHostAlive[EntryOf(cur)]
  /\ checker \in {"rejoin", "markUp"} => ~ isHostAlive[EntryOf(cur)]

aliveBackends == {b \in Backends : isHostAlive[b]}

CountInv == len = Cardinality(aliveBackends) /\ VerdictOnEntry

TypeInv ==
  /\ BalancerTypeOK
  /\ client \in [Requests -> ClientHash]
  /\ DOMAIN snap = Requests
  /\ Snapshot(ring)
  /\ \A r \in Requests :
       Snapshot(snap[r]) /\ (phase[r] = "loaded" => snap[r].numbers # <<>>)

(* The constructor establishes both.                                       *)
LEMMA NewTypeInv == NewIPHash => TypeInv /\ CountInv
<1> SUFFICES ASSUME NewIPHash PROVE TypeInv /\ CountInv
  OBVIOUS
<1>1. BalancerTypeOK
  BY NewBalancerType DEF NewIPHash
<1>2. TypeInv
  BY <1>1, AliveRingProperties, EmptyRing DEF NewIPHash, NewBalancer, TypeInv
<1>3. CountInv
  BY DEF NewIPHash, NewBalancer, CountInv, VerdictOnEntry, aliveBackends
<1> QED
  BY <1>2, <1>3

(* A step of the health checker, Stats, Shutdown or a host.                *)
LEMMA OtherTypeInv ==
  ASSUME TypeInv, BalancerTypeOK', Snapshot(ring'), UNCHANGED <<snap, client, requestVars>>
  PROVE  TypeInv'
  BY DEF TypeInv, requestVars, Snapshot

(* The choice of a request that has loaded a ring: a Backend on that ring. *)
LEMMA getProperties ==
  ASSUME TypeInv, NEW r \in Requests, get(r)
  PROVE  /\ GetNode(snap[r], client[r]) \in OnRing(snap[r])
         /\ GetNode(snap[r], client[r]) \in Backends
<1>1. Snapshot(snap[r]) /\ snap[r].numbers # <<>>
  BY DEF get, TypeInv
<1>2. client[r] \in Nat
  BY IPHashAssumption DEF TypeInv
<1> QED
  BY <1>1, <1>2, GetNodeOnRing, RingEmpty

(* Every step keeps the types.                                             *)
LEMMA TypeInvStep ==
  ASSUME TypeInv, [Next]_vars
  PROVE  TypeInv'
<1>0. BalancerTypeOK /\ cur \in Backends /\ EntryOf(cur) \in Backends
  BY EntryOfType DEF TypeInv, BalancerTypeOK
<1>1. CASE UNCHANGED vars
  BY <1>1 DEF vars, balancerVars, checkerVars, shutdownVars, statsVars, requestVars,
              ringVars, TypeInv, BalancerTypeOK, Snapshot, RingOK
<1>2. ASSUME NEW r \in Requests, LoadRing(r)
      PROVE  TypeInv'
  <2>1. BalancerTypeOK'
    BY <1>0, <1>2, RequestTypeOK DEF LoadRing
  <2>2. PICK h \in ClientHash : client' = [client EXCEPT ![r] = h]
    BY <1>2 DEF LoadRing
  <2>3. /\ snap' = [snap EXCEPT ![r] = ring] /\ ring' = ring
        /\ phase' = [phase EXCEPT ![r] = IF ring.numbers = <<>> THEN "refused" ELSE "loaded"]
    BY <1>2 DEF LoadRing, Load
  <2>4. client' \in [Requests -> ClientHash]
    BY <2>2 DEF TypeInv
  <2>5. ASSUME NEW q \in Requests
        PROVE  Snapshot(snap'[q]) /\ (phase'[q] = "loaded" => snap'[q].numbers # <<>>)
    <3>1. CASE q = r
      <4>1. snap'[q] = ring
        BY <2>3, <3>1 DEF TypeInv
      <4>2. phase'[q] = IF ring.numbers = <<>> THEN "refused" ELSE "loaded"
        BY <2>3, <3>1 DEF TypeInv, BalancerTypeOK
      <4> QED
        BY <4>1, <4>2 DEF TypeInv
    <3>2. CASE q # r
      <4>1. snap'[q] = snap[q] /\ phase'[q] = phase[q]
        BY <2>3, <3>2 DEF TypeInv, BalancerTypeOK
      <4> QED
        BY <4>1 DEF TypeInv
    <3> QED
      BY <3>1, <3>2
  <2>6. DOMAIN snap' = Requests
    BY <2>3 DEF TypeInv
  <2> QED
    BY <2>1, <2>3, <2>4, <2>5, <2>6 DEF TypeInv, Snapshot
<1>3. ASSUME NEW r \in Requests, get(r)
      PROVE  TypeInv'
  <2>1. BalancerTypeOK'
    BY <1>0, <1>3, RequestTypeOK, getProperties DEF get
  <2>2. /\ snap' = [snap EXCEPT ![r] = NewConsistentHash] /\ UNCHANGED <<ring, client>>
        /\ phase' = [phase EXCEPT ![r] = "proxying"]
    BY <1>3 DEF get, Pick
  <2>3. ASSUME NEW q \in Requests
        PROVE  Snapshot(snap'[q]) /\ (phase'[q] = "loaded" => snap'[q].numbers # <<>>)
    <3>1. CASE q = r
      <4>1. snap'[q] = NewConsistentHash /\ phase'[q] = "proxying"
        BY <2>2, <3>1 DEF TypeInv, BalancerTypeOK
      <4> QED
        BY <4>1, EmptyRing
    <3>2. CASE q # r
      <4>1. snap'[q] = snap[q] /\ phase'[q] = phase[q]
        BY <2>2, <3>2 DEF TypeInv, BalancerTypeOK
      <4> QED
        BY <4>1 DEF TypeInv
    <3> QED
      BY <3>1, <3>2
  <2>4. DOMAIN snap' = Requests
    BY <2>2 DEF TypeInv
  <2> QED
    BY <2>1, <2>2, <2>3, <2>4 DEF TypeInv, Snapshot
<1>4. ASSUME NEW r \in Requests, Respond(r), UNCHANGED ringVars
      PROVE  TypeInv'
  <2>1. BalancerTypeOK'
    BY <1>0, <1>4, RequestTypeOK
  <2>2. \A q \in Requests : phase'[q] = "loaded" => phase[q] = "loaded"
    BY <1>0, <1>4 DEF Respond, BalancerTypeOK
  <2> QED
    BY <1>4, <2>1, <2>2 DEF TypeInv, ringVars, Snapshot
<1>5. CASE healthChecker
  <2>1. BalancerTypeOK'
    BY <1>0, <1>5, CheckerTypeOK DEF healthChecker
  <2> QED
    BY <1>5, <2>1, OtherTypeInv
    DEF healthChecker, healthCheckerStep, SelectTick, SelectStop, LoopHead, ringVars, TypeInv
<1>6. CASE Probe /\ UNCHANGED ringVars
  <2>1. BalancerTypeOK'
    BY <1>0, <1>6, CheckerTypeOK
  <2> QED
    BY <1>6, <2>1, OtherTypeInv DEF Probe, ringVars, TypeInv
<1>7. CASE StoreIsHostAlive /\ UNCHANGED <<ring, snap, client>>
  <2>1. BalancerTypeOK'
    BY <1>0, <1>7, CheckerTypeOK
  <2> QED
    BY <1>7, <2>1, OtherTypeInv DEF StoreIsHostAlive, StoreFlag, TypeInv
<1>8. CASE Leave
  <2>1. BalancerTypeOK'
    BY <1>0, <1>8, CheckerTypeOK DEF Leave, CheckerLocations
  <2>2. Snapshot(ring')
    BY <1>0, <1>8, RemoveFromRing DEF Leave, TypeInv
  <2> QED
    BY <1>8, <2>1, <2>2, OtherTypeInv DEF Leave, CheckerStep
<1>9. CASE Rejoin
  <2>1. BalancerTypeOK'
    BY <1>0, <1>9, CheckerTypeOK DEF Rejoin, CheckerLocations
  <2>2. Snapshot(ring')
    BY <1>0, <1>9, AddToRing DEF Rejoin, TypeInv
  <2> QED
    BY <1>9, <2>1, <2>2, OtherTypeInv DEF Rejoin, CheckerStep
<1>10. CASE Stats \/ Shutdown \/ Environment
  <2>1. BalancerTypeOK'
    BY <1>0, <1>10, CallsTypeOK, BalancerAssumption DEF Stats, Shutdown, Environment
  <2>2. UNCHANGED <<ringVars, requestVars>>
    BY <1>10 DEF Stats, StatsCall, StatsStart, StatsRow, StatsReturn, Shutdown,
                 ShutdownCall, ShutdownStop, ShutdownJoined, ShutdownTimeout,
                 ShutdownClose, Environment, Flip, requestVars
  <2> QED
    BY <2>1, <2>2, OtherTypeInv DEF ringVars, TypeInv
<1> QED
  BY <1>1, <1>2, <1>3, <1>4, <1>5, <1>6, <1>7, <1>8, <1>9, <1>10 DEF Next, Serve, healthCheck

(* The checker's own count follows the flags, and a flag is only stored by *)
(* the health check that found it wrong.                                   *)
LEMMA CountInvStep ==
  ASSUME TypeInv, CountInv, [Next]_vars
  PROVE  CountInv'
<1> DEFINE e == EntryOf(cur)
<1>0. cur \in Backends /\ e \in Backends /\ isHostAlive \in [Backends -> BOOLEAN]
  BY EntryOfType DEF TypeInv, BalancerTypeOK
<1>1. CASE UNCHANGED <<isHostAlive, checker, cur, len>>
  BY <1>1 DEF CountInv, VerdictOnEntry, aliveBackends
<1>2. CASE healthCheckerStep /\ UNCHANGED <<isHostAlive, len>>
  BY <1>2 DEF healthCheckerStep, SelectTick, SelectStop, LoopHead, CountInv, VerdictOnEntry,
              aliveBackends
<1>3. CASE Probe /\ UNCHANGED <<isHostAlive, len>>
  BY <1>3 DEF Probe, NextBackend, CountInv, VerdictOnEntry, aliveBackends
<1>4. CASE (Leave \/ Rejoin) /\ UNCHANGED <<isHostAlive, cur, len>>
  BY <1>4 DEF Leave, Rejoin, CheckerStep, CountInv, VerdictOnEntry, aliveBackends
<1>5. CASE StoreIsHostAlive /\ len' = IF checker = "markUp" THEN len + 1 ELSE len - 1
  <2>1. IsFiniteSet(aliveBackends)
    <3>1. IsFiniteSet(Backends) /\ aliveBackends \subseteq Backends
      BY BalancerAssumption, FS_Interval DEF Backends, aliveBackends
    <3> QED
      BY <3>1, FS_Subset
  <2>2. Cardinality(aliveBackends) \in Nat
    BY <2>1, FS_CardinalityType
  <2>3. VerdictOnEntry'
    BY <1>5 DEF StoreIsHostAlive, StoreFlag, NextBackend, VerdictOnEntry
  <2>4. CASE StoreFlag("markDown", FALSE)
    <3>1. isHostAlive[e] /\ len' = len - 1 /\ isHostAlive' = [isHostAlive EXCEPT ![e] = FALSE]
      BY <1>5, <2>4 DEF StoreFlag, CountInv, VerdictOnEntry
    <3> HIDE DEF e
    <3>2. aliveBackends' = aliveBackends \ {e} /\ e \in aliveBackends
      BY <1>0, <3>1 DEF aliveBackends
    <3>3. Cardinality(aliveBackends \ {e}) = Cardinality(aliveBackends) - 1
      BY <2>1, <3>2, FS_RemoveElement
    <3> QED
      BY <2>2, <2>3, <3>1, <3>2, <3>3 DEF CountInv
  <2>5. CASE StoreFlag("markUp", TRUE)
    <3>1. ~ isHostAlive[e] /\ len' = len + 1 /\ isHostAlive' = [isHostAlive EXCEPT ![e] = TRUE]
      BY <1>5, <2>5 DEF StoreFlag, CountInv, VerdictOnEntry
    <3> HIDE DEF e
    <3>2. aliveBackends' = aliveBackends \cup {e} /\ e \notin aliveBackends
      BY <1>0, <3>1 DEF aliveBackends
    <3>3. Cardinality(aliveBackends \cup {e}) = Cardinality(aliveBackends) + 1
      BY <2>1, <3>2, FS_AddElement
    <3> QED
      BY <2>2, <2>3, <3>1, <3>2, <3>3 DEF CountInv
  <2> QED
    BY <1>5, <2>4, <2>5 DEF StoreIsHostAlive
<1>6. CASE UNCHANGED vars
  BY <1>1, <1>6 DEF vars, balancerVars, checkerVars, ringVars
<1>7. ASSUME NEW r \in Requests, Serve(r)
      PROVE  CountInv'
  BY <1>1, <1>7 DEF Serve, LoadRing, Load, get, Pick, Respond, checkerVars, ringVars
<1>8. CASE healthChecker
  BY <1>2, <1>8 DEF healthChecker, healthCheckerStep, SelectTick, SelectStop, LoopHead, ringVars
<1>9. CASE healthCheck
  BY <1>3, <1>4, <1>5, <1>9 DEF healthCheck, Probe, Leave, Rejoin, CheckerStep, ringVars
<1>10. CASE Stats \/ Shutdown \/ Environment
  BY <1>1, <1>10
  DEF Stats, StatsCall, StatsStart, StatsRow, StatsReturn, Shutdown, ShutdownCall, ShutdownStop,
      ShutdownJoined, ShutdownTimeout, ShutdownClose, Environment, Flip, checkerVars, ringVars
<1> QED
  BY <1>6, <1>7, <1>8, <1>9, <1>10 DEF Next

(* Whatever the keys, the hashes and the interleaving, the state is        *)
(* well-typed: every lookup finds a Backend, and the count the checker     *)
(* keeps beside the flags is their number.                                 *)
THEOREM IPHashTypeCorrect == Spec => []TypeOK
<1>1. TypeInv /\ CountInv /\ [Next]_vars => (TypeInv /\ CountInv)'
  BY TypeInvStep, CountInvStep
<1>2. TypeInv /\ CountInv => TypeOK
  <2> SUFFICES ASSUME TypeInv, CountInv PROVE TypeOK
    OBVIOUS
  <2>1. N \in Nat /\ IsFiniteSet(Backends) /\ Cardinality(Backends) = N
    BY BalancerAssumption, FS_Interval DEF Backends
  <2>2. aliveBackends \subseteq Backends
    BY DEF aliveBackends
  <2>3. Cardinality(aliveBackends) \in Nat /\ Cardinality(aliveBackends) <= N
    BY <2>1, <2>2, FS_Subset, FS_CardinalityType
  <2>4. len \in 0 .. N
    BY <2>1, <2>3 DEF CountInv
  <2> QED
    BY <2>4 DEF TypeInv, TypeOK, Snapshot, RingOK
<1> QED
  BY NewTypeInv, <1>1, <1>2, PTL DEF Spec

-----------------------------------------------------------------------------
(* Flags and ring.  Distinct keys and virtual nodes are needed from here   *)
(* on: with a shared key the health check of one Backend moves another     *)
(* one, and a position two Backends share is lost with the first to leave. *)

IInv ==
  /\ TypeInv /\ CountInv
  /\ Whole(ring) /\ \A r \in Requests : Whole(snap[r])
  /\ FlagMatchesRing

(* The constructor's ring has the Backends that answered.                  *)
LEMMA IInvInit == NoCollisions /\ NewIPHash => IInv
<1> SUFFICES ASSUME NoCollisions, NewIPHash PROVE IInv
  OBVIOUS
<1>1. ring = AliveRing /\ OnRing(ring) = aliveBackends
  BY AliveRingProperties DEF NewIPHash, aliveBackends
<1>2. FlagMatchesRing
  BY <1>1 DEF NewIPHash, NewBalancer, FlagMatchesRing, BetweenStores, rotation, OnRing,
              aliveBackends
<1> QED
  BY <1>1, <1>2, NewTypeInv, AliveRingProperties, EmptyRing DEF NewIPHash, IInv

(* The ring changes at the one Backend whose flag is stored next.          *)
LEMMA RingMoves ==
  ASSUME IsInjective(Hash), NoCollisions, IInv
  PROVE  /\ EntryOf(cur) = cur /\ cur \in Backends
         /\ Leave => /\ cur \in rotation /\ rotation' = rotation \ {cur} /\ Whole(ring')
                     /\ checker = "leave" /\ isHostAlive[cur]
         /\ Rejoin => /\ cur \notin rotation /\ rotation' = rotation \cup {cur} /\ Whole(ring')
                      /\ checker = "rejoin" /\ ~ isHostAlive[cur]
<1>1. EntryOf(cur) = cur /\ cur \in Backends /\ isHostAlive \in [Backends -> BOOLEAN]
  BY EntryOfDistinct DEF IInv, TypeInv, BalancerTypeOK
<1>2. Snapshot(ring) /\ Whole(ring)
  BY DEF IInv, TypeInv
<1>3. ASSUME Leave
      PROVE  /\ cur \in rotation /\ rotation' = rotation \ {cur} /\ Whole(ring')
             /\ checker = "leave" /\ isHostAlive[cur]
  <2>1. checker = "leave" /\ isHostAlive[cur] /\ ring' = RemoveNode(ring, VirtualHash[cur])
    BY <1>1, <1>3 DEF Leave, CheckerStep, IInv, CountInv, VerdictOnEntry
  <2>2. cur \in rotation
    BY <1>1, <2>1 DEF IInv, FlagMatchesRing, BetweenStores
  <2>3. Whole(ring') /\ OnRing(ring') = OnRing(ring) \ {cur}
    BY <1>1, <1>2, <2>1, RemoveFromRing
  <2> QED
    BY <2>1, <2>2, <2>3 DEF rotation, OnRing
<1>4. ASSUME Rejoin
      PROVE  /\ cur \notin rotation /\ rotation' = rotation \cup {cur} /\ Whole(ring')
             /\ checker = "rejoin" /\ ~ isHostAlive[cur]
  <2>1. checker = "rejoin" /\ ~ isHostAlive[cur] /\ ring' = AddNode(ring, cur, VirtualHash[cur])
    BY <1>1, <1>4 DEF Rejoin, CheckerStep, IInv, CountInv, VerdictOnEntry
  <2>2. cur \notin rotation
    BY <1>1, <2>1 DEF IInv, FlagMatchesRing, BetweenStores
  <2>3. Whole(ring') /\ OnRing(ring') = OnRing(ring) \cup {cur}
    BY <1>1, <1>2, <2>1, AddToRing
  <2> QED
    BY <2>1, <2>2, <2>3 DEF rotation, OnRing
<1> QED
  BY <1>1, <1>3, <1>4

(* Every step keeps the rings whole and the flags with the rotation.       *)
LEMMA IInvStep ==
  ASSUME IsInjective(Hash), NoCollisions, IInv, [Next]_vars
  PROVE  IInv'
<1>0. /\ TypeInv' /\ CountInv'
      /\ EntryOf(cur) = cur /\ cur \in Backends /\ isHostAlive \in [Backends -> BOOLEAN]
  BY TypeInvStep, CountInvStep, RingMoves DEF IInv, TypeInv, BalancerTypeOK
<1>1. CASE UNCHANGED <<ring, snap, isHostAlive, checker, cur>>
  BY <1>0, <1>1 DEF IInv, FlagMatchesRing, BetweenStores, rotation
<1>2. ASSUME NEW r \in Requests, LoadRing(r) \/ get(r)
      PROVE  IInv'
  <2>1. UNCHANGED <<ring, isHostAlive, checker, cur>>
    BY <1>2 DEF LoadRing, Load, get, Pick, checkerVars
  <2>2. FlagMatchesRing'
    BY <2>1 DEF IInv, FlagMatchesRing, BetweenStores, rotation
  <2>3. \A q \in Requests : snap'[q] \in {snap[q], ring, NewConsistentHash}
    BY <1>2 DEF LoadRing, get, IInv, TypeInv
  <2>4. \A q \in Requests : Whole(snap'[q])
    BY <2>3, EmptyRing DEF IInv
  <2>5. Whole(ring')
    BY <2>1 DEF IInv
  <2> QED
    BY <1>0, <2>2, <2>4, <2>5 DEF IInv, Whole, OnRing
<1>3. CASE healthChecker
  <2>1. ~ BetweenStores /\ ~ BetweenStores' /\ UNCHANGED <<ring, snap, isHostAlive>>
    BY <1>3 DEF healthChecker, healthCheckerStep, SelectTick, SelectStop, LoopHead,
                BetweenStores, ringVars
  <2> QED
    BY <1>0, <2>1 DEF IInv, FlagMatchesRing, rotation
<1>4. CASE Probe /\ UNCHANGED ringVars
  <2>1. ~ BetweenStores /\ ~ BetweenStores' /\ UNCHANGED <<ring, snap, isHostAlive>>
    BY <1>4 DEF Probe, NextBackend, BetweenStores, ringVars
  <2> QED
    BY <1>0, <2>1 DEF IInv, FlagMatchesRing, rotation
<1>5. CASE Leave \/ Rejoin
  <2>1. /\ ~ BetweenStores /\ BetweenStores' /\ UNCHANGED <<snap, isHostAlive, cur>>
        /\ Whole(ring')
        /\ rotation' \in {rotation \ {cur}, rotation \cup {cur}}
        /\ cur \in rotation <=> cur \notin rotation'
    BY <1>5, RingMoves DEF Leave, Rejoin, CheckerStep, BetweenStores
  <2>2. FlagMatchesRing'
    BY <1>0, <2>1 DEF IInv, FlagMatchesRing
  <2> QED
    BY <1>0, <2>1, <2>2 DEF IInv, Whole, OnRing
<1>6. CASE StoreIsHostAlive /\ UNCHANGED <<ring, snap, client>>
  <2>1. BetweenStores /\ ~ BetweenStores' /\ UNCHANGED rotation
    BY <1>6 DEF StoreIsHostAlive, StoreFlag, NextBackend, BetweenStores, rotation
  <2>2. isHostAlive' = [isHostAlive EXCEPT ![cur] = ~ isHostAlive[cur]]
    BY <1>0, <1>6 DEF StoreIsHostAlive, StoreFlag, IInv, CountInv, VerdictOnEntry
  <2>3. FlagMatchesRing'
    BY <1>0, <2>1, <2>2 DEF IInv, FlagMatchesRing
  <2> QED
    BY <1>0, <1>6, <2>3 DEF IInv
<1>7. CASE UNCHANGED vars
  BY <1>1, <1>7 DEF vars, balancerVars, checkerVars, ringVars
<1>8. ASSUME NEW r \in Requests, Respond(r), UNCHANGED ringVars
      PROVE  IInv'
  BY <1>1, <1>8 DEF Respond, checkerVars, ringVars
<1>9. CASE Stats \/ Shutdown \/ Environment
  BY <1>1, <1>9
  DEF Stats, StatsCall, StatsStart, StatsRow, StatsReturn, Shutdown, ShutdownCall, ShutdownStop,
      ShutdownJoined, ShutdownTimeout, ShutdownClose, Environment, Flip, checkerVars, ringVars
<1> QED
  BY <1>2, <1>3, <1>4, <1>5, <1>6, <1>7, <1>8, <1>9 DEF Next, Serve, healthCheck

(* With distinct keys and no collisions, the Backends a request can reach  *)
(* and those Stats reports alive differ at most on the Backend the health  *)
(* checker is moving at that moment.                                       *)
THEOREM RingFollowsFlags ==
  ASSUME IsInjective(Hash), NoCollisions
  PROVE  Spec => []FlagMatchesRing
<1>1. IInv /\ [Next]_vars => IInv'
  BY IInvStep
<1>2. IInv => FlagMatchesRing
  BY DEF IInv
<1> QED
  BY IInvInit, <1>1, <1>2, PTL DEF Spec

(* With distinct keys, a scrape that runs beside the health checker and    *)
(* other calls reports every Backend once, in configuration order.         *)
THEOREM IPHashStatsInOrder ==
  ASSUME IsInjective(Hash)
  PROVE  Spec => []StatsComplete
<1>1. NewIPHash => StatsInv
  BY StatsInvInit DEF NewIPHash
<1>2. StatsInv /\ [Next]_vars => StatsInv'
  <2> SUFFICES ASSUME StatsInv, [Next]_vars PROVE StatsInv'
    OBVIOUS
  <2>1. CASE Stats
    BY <2>1, StatsInvCall DEF Stats
  <2>2. CASE UNCHANGED vars
    BY <2>2, StatsInvUnchanged DEF vars, balancerVars
  <2>3. ASSUME NEW r \in Requests, Serve(r)
        PROVE  StatsInv'
    BY <2>3, StatsInvUnchanged DEF Serve, LoadRing, Load, get, Pick, Respond
  <2>4. CASE healthChecker \/ healthCheck
    BY <2>4, StatsInvUnchanged
    DEF healthChecker, healthCheckerStep, SelectTick, SelectStop, LoopHead, healthCheck, Probe,
        Leave, Rejoin, CheckerStep, StoreIsHostAlive, StoreFlag
  <2>5. CASE Shutdown \/ Environment
    BY <2>5, StatsInvUnchanged
    DEF Shutdown, ShutdownCall, ShutdownStop, ShutdownJoined, ShutdownTimeout,
        ShutdownClose, Environment, Flip
  <2> QED
    BY <2>1, <2>2, <2>3, <2>4, <2>5 DEF Next
<1>3. StatsInv => StatsComplete
  BY StatsInvComplete
<1> QED
  BY <1>1, <1>2, <1>3, PTL DEF Spec

-----------------------------------------------------------------------------
(* Without collisions, a lookup on a whole ring depends on the Backends on *)
(* it alone.                                                               *)
LEMMA LookupIsOwner ==
  ASSUME NoCollisions, NEW R, Snapshot(R), Whole(R), R.numbers # <<>>, NEW h \in Nat
  PROVE  GetNode(R, h) = Owner(OnRing(R), VirtualHash, h)
<1> DEFINE P == DOMAIN R.nodes
           c == Clockwise(P, h)
           b == R.nodes[c]
<1>1. c \in P /\ GetNode(R, h) = b /\ b \in OnRing(R)
  BY GetNodeOnRing
<1>2. b \in Backends /\ c \in Positions(VirtualHash[b])
  BY <1>1 DEF Snapshot
<1>3. OnRing(R) \subseteq Backends
  BY RingEmpty
<1>4. \A m \in OnRing(R) : c \in Positions(VirtualHash[m]) => m = b
  BY <1>2, <1>3 DEF NoCollisions
<1>5. Owner(OnRing(R), VirtualHash, h) =
        CHOOSE m \in OnRing(R) : c \in Positions(VirtualHash[m])
  BY DEF Owner, Whole
<1> HIDE DEF b, c
<1> QED
  BY <1>1, <1>2, <1>4, <1>5

(* Only get takes a request that has loaded a ring to a Backend.           *)
LEMMA getChooses ==
  ASSUME TypeInv, [Next]_vars, NEW r \in Requests, phase[r] = "loaded", phase'[r] = "proxying"
  PROVE  get(r)
<1>0. phase \in [Requests -> {"idle", "loaded", "proxying", "refused"}]
  BY DEF TypeInv, BalancerTypeOK
<1>1. ASSUME NEW q \in Requests, Serve(q)
      PROVE  get(r)
  <2>1. CASE LoadRing(q)
    BY <1>0, <2>1 DEF LoadRing, Load
  <2>2. CASE get(q)
    BY <1>0, <2>2 DEF get, Pick
  <2>3. CASE Respond(q)
    BY <1>0, <2>3 DEF Respond
  <2> QED
    BY <1>1, <2>1, <2>2, <2>3 DEF Serve
<1>2. ASSUME UNCHANGED phase
      PROVE  FALSE
  BY <1>2
<1>3. CASE UNCHANGED vars
  BY <1>2, <1>3 DEF vars, balancerVars, requestVars
<1>4. CASE healthChecker \/ healthCheck
  BY <1>2, <1>4
  DEF healthChecker, healthCheckerStep, SelectTick, SelectStop, LoopHead, healthCheck, Probe,
      Leave, Rejoin, CheckerStep, StoreIsHostAlive, StoreFlag, requestVars
<1>5. CASE Stats \/ Shutdown \/ Environment
  BY <1>2, <1>5
  DEF Stats, StatsCall, StatsStart, StatsRow, StatsReturn, Shutdown, ShutdownCall, ShutdownStop,
      ShutdownJoined, ShutdownTimeout, ShutdownClose, Environment, Flip, requestVars
<1> QED
  BY <1>1, <1>3, <1>4, <1>5 DEF Next

(* With distinct keys and no collisions, a client is sent where its        *)
(* address and the Backends on the ring say, whatever the history of the   *)
(* ring and whatever happened since the request loaded it.                 *)
THEOREM ClientsStay ==
  ASSUME IsInjective(Hash), NoCollisions
  PROVE  Spec => ClientsStick
<1> DEFINE Sticks ==
      \A r \in Requests : phase[r] = "loaded" /\ phase'[r] = "proxying" =>
        picked'[r] = Owner(Range(snap[r].nodes), VirtualHash, client[r])
<1>1. IInv /\ [Next]_vars => IInv'
  BY IInvStep
<1>2. IInv /\ [Next]_vars => [Sticks]_vars
  <2> SUFFICES ASSUME IInv, [Next]_vars, NEW r \in Requests,
                      phase[r] = "loaded", phase'[r] = "proxying"
               PROVE  picked'[r] = Owner(Range(snap[r].nodes), VirtualHash, client[r])
    OBVIOUS
  <2>1. get(r) /\ picked \in [Requests -> Backends \cup {Nil}]
    BY getChooses DEF IInv, TypeInv, BalancerTypeOK
  <2>2. picked'[r] = GetNode(snap[r], client[r])
    BY <2>1 DEF get, Pick
  <2>3. Snapshot(snap[r]) /\ Whole(snap[r]) /\ snap[r].numbers # <<>> /\ client[r] \in Nat
    BY IPHashAssumption DEF IInv, TypeInv
  <2>4. GetNode(snap[r], client[r]) = Owner(OnRing(snap[r]), VirtualHash, client[r])
    BY <2>3, LookupIsOwner
  <2> QED
    BY <2>2, <2>4 DEF OnRing
<1> QED
  BY IInvInit, <1>1, <1>2, PTL DEF Spec, ClientsStick

-----------------------------------------------------------------------------
(* Each step is one of Rotation's, or changes nothing it speaks of.        *)

\* What each request sees of the rotation.
seenBy == [r \in Requests |-> Range(snap[r].nodes)]

(* The three steps of a request are See, Choose and Answer.                *)
LEMMA RingRequest ==
  ASSUME IInv, NEW r \in Requests, Serve(r)
  PROVE  Contract!Next
<1>1. CASE LoadRing(r)
  <2>1. ring.numbers = <<>> <=> rotation = {}
    BY RingEmpty DEF IInv, TypeInv, OnRing, rotation
  <2>2. seenBy' = [seenBy EXCEPT ![r] = rotation]
    BY <1>1 DEF LoadRing, IInv, TypeInv, seenBy, rotation
  <2>3. Contract!See(r)
    BY <1>1, <2>1, <2>2
    DEF LoadRing, Load, Contract!See, verdict, rotation, checkerVars, seenBy
  <2> QED
    BY <2>3 DEF Contract!Next
<1>2. CASE get(r)
  <2> DEFINE b == GetNode(snap[r], client[r])
  <2>1. b \in OnRing(snap[r]) /\ b \in Backends
    BY <1>2, getProperties DEF IInv
  <2>2. Range(NewConsistentHash.nodes) = {}
    BY EmptyRing DEF OnRing
  <2>3. snap' = [snap EXCEPT ![r] = NewConsistentHash] /\ DOMAIN snap = Requests
    BY <1>2 DEF get, IInv, TypeInv
  <2> HIDE DEF b
  <2>4. seenBy' = [seenBy EXCEPT ![r] = {}]
    BY <2>2, <2>3 DEF seenBy
  <2>5. Contract!Choose(r, b)
    BY <1>2, <2>1, <2>4
    DEF get, Pick, Contract!Choose, verdict, rotation, checkerVars, seenBy, OnRing, b
  <2> QED
    BY <2>1, <2>5 DEF Contract!Next
<1>3. CASE Respond(r) /\ UNCHANGED ringVars
  <2>1. Contract!Answer(r)
    BY <1>3 DEF Respond, Contract!Answer, verdict, rotation, checkerVars, ringVars
  <2> QED
    BY <2>1 DEF Contract!Next
<1> QED
  BY <1>1, <1>2, <1>3 DEF Serve

(* The steps of the checker are Contradict, Move, Report or a stutter.     *)
LEMMA RingChecker ==
  ASSUME IsInjective(Hash), NoCollisions, IInv, healthChecker \/ healthCheck
  PROVE  [Contract!Next]_Contract!vars
<1>0. EntryOf(cur) = cur /\ cur \in Backends /\ healthy \in [Backends -> BOOLEAN]
      /\ isHostAlive \in [Backends -> BOOLEAN]
  BY RingMoves DEF IInv, TypeInv, BalancerTypeOK
<1>1. CASE healthChecker
  <2>1. verdict = <<>> /\ verdict' = <<>>
    BY <1>1 DEF healthChecker, healthCheckerStep, SelectTick, SelectStop, LoopHead, verdict
  <2> QED
    BY <1>1, <2>1 DEF healthChecker, healthCheckerStep, SelectTick, SelectStop, LoopHead,
                      Contract!vars, rotation, ringVars, requestVars
<1>2. CASE Probe /\ UNCHANGED ringVars
  <2>1. verdict = <<>>
    BY <1>2 DEF Probe, verdict
  <2>2. CASE healthy[cur] = isHostAlive[cur]
    <3>1. verdict' = <<>>
      BY <1>0, <1>2, <2>2 DEF Probe, NextBackend, verdict
    <3> QED
      BY <1>2, <2>1, <3>1 DEF Probe, Contract!vars, rotation, ringVars, requestVars
  <2>3. CASE healthy[cur] # isHostAlive[cur]
    <3>1. verdict' = <<cur, healthy[cur]>>
      BY <1>0, <1>2, <2>3 DEF Probe, verdict
    <3>2. Contract!Contradict(cur)
      BY <1>2, <2>1, <2>3, <3>1
      DEF Probe, Contract!Contradict, rotation, ringVars, requestVars
    <3> QED
      BY <1>0, <3>2 DEF Contract!Next
  <2> QED
    BY <2>2, <2>3
<1>3. CASE Leave
  <2>1. verdict = <<cur, FALSE>> /\ verdict' = verdict
    BY <1>3 DEF Leave, CheckerStep, verdict
  <2>2. Contract!Move(cur, FALSE)
    BY <1>3, <2>1, RingMoves DEF Leave, CheckerStep, Contract!Move, requestVars
  <2> QED
    BY <1>0, <2>2 DEF Contract!Next
<1>4. CASE Rejoin
  <2>1. verdict = <<cur, TRUE>> /\ verdict' = verdict
    BY <1>4 DEF Rejoin, CheckerStep, verdict
  <2>2. Contract!Move(cur, TRUE)
    BY <1>4, <2>1, RingMoves DEF Rejoin, CheckerStep, Contract!Move, requestVars
  <2> QED
    BY <1>0, <2>2 DEF Contract!Next
<1>5. CASE StoreIsHostAlive /\ UNCHANGED <<ring, snap, client>>
  <2> DEFINE answer == checker = "markUp"
  <2>1. /\ verdict = <<cur, answer>> /\ verdict' = <<>> /\ answer \in BOOLEAN
        /\ isHostAlive[cur] = ~ answer
    BY <1>0, <1>5 DEF StoreIsHostAlive, StoreFlag, NextBackend, verdict, IInv, CountInv,
                      VerdictOnEntry
  <2>2. (cur \in rotation) = answer
    BY <1>0, <1>5, <2>1 DEF StoreIsHostAlive, StoreFlag, IInv, FlagMatchesRing, BetweenStores
  <2>3. isHostAlive' = [isHostAlive EXCEPT ![cur] = answer]
    BY <1>0, <1>5 DEF StoreIsHostAlive, StoreFlag
  <2>4. Contract!Report(cur, answer)
    BY <1>5, <2>1, <2>2, <2>3
    DEF StoreIsHostAlive, StoreFlag, Contract!Report, rotation, requestVars
  <2> QED
    BY <1>0, <2>1, <2>4 DEF Contract!Next
<1> QED
  BY <1>1, <1>2, <1>3, <1>4, <1>5 DEF healthCheck

(* With distinct keys and no collisions, IPHash keeps the contract of      *)
(* every Balancer: a request is refused only if it saw an empty ring, goes *)
(* to a Backend of the ring it saw, and a Backend moves only on a          *)
(* contradicting probe of its own.                                         *)
THEOREM IPHashIsRotation ==
  ASSUME IsInjective(Hash), NoCollisions
  PROVE  Spec => ImplementsRotation
<1>1. NewIPHash => Contract!Init
  <2> SUFFICES ASSUME NewIPHash PROVE Contract!Init
    OBVIOUS
  <2>1. rotation = aliveBackends
    BY AliveRingProperties DEF NewIPHash, rotation, OnRing, aliveBackends
  <2>2. Range(NewConsistentHash.nodes) = {}
    BY EmptyRing DEF OnRing
  <2>3. snap = [r \in Requests |-> NewConsistentHash]
    BY DEF NewIPHash
  <2>4. seenBy = [r \in Requests |-> {}]
    BY <2>2, <2>3 DEF seenBy
  <2> QED
    BY <2>1, <2>4 DEF NewIPHash, NewBalancer, Contract!Init, verdict, seenBy, aliveBackends
<1>2. IInv /\ [Next]_vars => IInv'
  BY IInvStep
<1>3. IInv /\ [Next]_vars => [Contract!Next]_Contract!vars
  <2> SUFFICES ASSUME IInv, [Next]_vars PROVE [Contract!Next]_Contract!vars
    OBVIOUS
  <2>1. CASE UNCHANGED <<healthy, isHostAlive, checker, cur, ring, snap, requestVars>>
    BY <2>1 DEF Contract!vars, verdict, rotation, requestVars
  <2>2. CASE UNCHANGED vars
    BY <2>1, <2>2 DEF vars, balancerVars, checkerVars, ringVars
  <2>3. CASE Stats \/ Shutdown
    BY <2>1, <2>3
    DEF Stats, StatsCall, StatsStart, StatsRow, StatsReturn, Shutdown, ShutdownCall, ShutdownStop,
        ShutdownJoined, ShutdownTimeout, ShutdownClose, checkerVars, ringVars
  <2>4. CASE Environment
    <3>1. PICK b \in Backends : Flip(b)
      BY <2>4, BalancerAssumption DEF Environment
    <3>2. Contract!Change(b)
      BY <2>4, <3>1 DEF Environment, Flip, Contract!Change, verdict, rotation, checkerVars,
                        ringVars, requestVars
    <3> QED
      BY <3>2 DEF Contract!Next
  <2> QED
    BY <2>2, <2>3, <2>4, RingRequest, RingChecker DEF Next
<1> QED
  BY IInvInit, <1>1, <1>2, <1>3, PTL DEF Spec, ImplementsRotation, Contract!Spec

=============================================================================
