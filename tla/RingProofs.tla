----------------------------- MODULE RingProofs -----------------------------
(***************************************************************************)
(* The consistent-hash ring for any Nodes, any number of virtual nodes and *)
(* any hash values, through every history of AddNode and RemoveNode.       *)
(***************************************************************************)
EXTENDS MCConsistentHash, BalancerProofs

(* Every position belongs to a member, which has a virtual node there; and *)
(* without collisions the positions are all those of the members.          *)
RingInv ==
  /\ vh \in [Nodes -> [1 .. Repl -> HashSpace]]
  /\ members \subseteq Nodes
  /\ RingOK(ring)
  /\ \A h \in DOMAIN ring.nodes :
       ring.nodes[h] \in members /\ h \in Positions(vh[ring.nodes[h]])
  /\ Disjoint => DOMAIN ring.nodes = UNION {Positions(vh[m]) : m \in members}

(* A Node's virtual nodes as a slice of hash values.                       *)
LEMMA HashesType ==
  ASSUME RingInv, NEW n \in Nodes
  PROVE  vh[n] \in Seq(Nat) /\ Positions(vh[n]) # {}
<1>1. vh[n] \in [1 .. Repl -> HashSpace]
  BY DEF RingInv
<1>2. Repl \in Nat /\ 1 \in 1 .. Repl /\ HashSpace \subseteq Nat
  BY RingAssumption
<1>3. vh[n] \in [1 .. Repl -> Nat]
  BY <1>1, <1>2
<1>4. vh[n] \in Seq(Nat)
  BY <1>2, <1>3, SeqDef
<1>5. vh[n][1] \in Positions(vh[n])
  BY <1>1, <1>2 DEF Positions, Range
<1> QED
  BY <1>4, <1>5

(* The calls keep the invariant; a position two Nodes share goes to the    *)
(* last one added and is lost when either is removed.                      *)
LEMMA RingInvStep ==
  ASSUME RingInv, [Next]_vars
  PROVE  RingInv'
<1>1. CASE UNCHANGED vars
  BY <1>1 DEF vars, RingInv, Disjoint
<1>2. ASSUME NEW n \in Nodes, Add(n)
      PROVE  RingInv'
  <2>1. ring' = AddNode(ring, n, vh[n]) /\ members' = members \cup {n} /\ vh' = vh
        /\ n \notin members
    BY <1>2 DEF Add
  <2>2. RingOK(ring) /\ vh[n] \in Seq(Nat)
    BY HashesType DEF RingInv
  <2>3. /\ RingOK(ring')
        /\ DOMAIN ring'.nodes = DOMAIN ring.nodes \cup Positions(vh[n])
        /\ \A h \in DOMAIN ring'.nodes :
             ring'.nodes[h] = IF h \in Positions(vh[n]) THEN n ELSE ring.nodes[h]
    BY <2>1, <2>2, AddNodeProperties
  <2>4. \A h \in DOMAIN ring'.nodes :
          ring'.nodes[h] \in members' /\ h \in Positions(vh'[ring'.nodes[h]])
    BY <2>1, <2>3 DEF RingInv
  <2>5. Disjoint' => DOMAIN ring'.nodes = UNION {Positions(vh'[m]) : m \in members'}
    BY <2>1, <2>3 DEF RingInv, Disjoint
  <2> QED
    BY <2>1, <2>3, <2>4, <2>5 DEF RingInv
<1>3. ASSUME NEW n \in Nodes, Remove(n)
      PROVE  RingInv'
  <2>1. ring' = RemoveNode(ring, vh[n]) /\ members' = members \ {n} /\ vh' = vh
        /\ n \in members
    BY <1>3 DEF Remove
  <2>2. /\ RingOK(ring')
        /\ DOMAIN ring'.nodes = DOMAIN ring.nodes \ Positions(vh[n])
        /\ \A h \in DOMAIN ring'.nodes : ring'.nodes[h] = ring.nodes[h]
    BY <2>1, RemoveNodeProperties DEF RingInv
  <2>3. \A h \in DOMAIN ring'.nodes :
          ring'.nodes[h] \in members' /\ h \in Positions(vh'[ring'.nodes[h]])
    BY <2>1, <2>2 DEF RingInv
  <2>4. Disjoint' => DOMAIN ring'.nodes = UNION {Positions(vh'[m]) : m \in members'}
    <3> SUFFICES ASSUME Disjoint
                 PROVE  DOMAIN ring'.nodes = UNION {Positions(vh[m]) : m \in members'}
      BY <2>1 DEF Disjoint
    <3>1. DOMAIN ring.nodes = UNION {Positions(vh[m]) : m \in members}
      BY DEF RingInv
    <3>2. \A m \in members' : m \in members /\ Positions(vh[m]) \cap Positions(vh[n]) = {}
      BY <2>1 DEF RingInv, Disjoint
    <3>3. \A m \in members : m = n \/ m \in members'
      BY <2>1
    <3> QED
      BY <2>2, <3>1, <3>2, <3>3
  <2> QED
    BY <2>1, <2>2, <2>3, <2>4 DEF RingInv
<1> QED
  BY <1>1, <1>2, <1>3 DEF Next

(* The invariant holds from the empty ring on.                             *)
LEMMA RingInvariant == Spec => []RingInv
<1>1. Init => RingInv
  <2> SUFFICES ASSUME Init PROVE RingInv
    OBVIOUS
  <2>1. RingOK(ring) /\ DOMAIN ring.nodes = {} /\ members = {}
    BY NewRingOK DEF Init
  <2> QED
    BY <2>1 DEF Init, RingInv
<1>2. RingInv /\ [Next]_vars => RingInv'
  BY RingInvStep
<1> QED
  BY <1>1, <1>2, PTL DEF Spec

(* Whatever collides and whatever the history, the map and the sorted      *)
(* slice of a snapshot agree, so that a lookup never finds a position      *)
(* without a Node, nor a Node that is not on the ring.                     *)
THEOREM RingStaysConsistent == Spec => []RingConsistent
<1>1. RingInv => RingConsistent
  BY DEF RingInv, RingOK, Ascending, RingConsistent, Range
<1> QED
  BY <1>1, RingInvariant, PTL

-----------------------------------------------------------------------------
(* What a lookup of h finds: the Node at the next position clockwise, and  *)
(* no other Node has that position.                                        *)
LookupAt(h) ==
  LET P == DOMAIN ring.nodes
      c == Clockwise(P, h)
  IN  /\ P \subseteq Nat /\ P # {} /\ h \in Nat
      /\ P = UNION {Positions(vh[m]) : m \in members}
      /\ c \in P /\ GetNode(ring, h) = ring.nodes[c]
      /\ \A m \in Nodes : c \in Positions(vh[m]) => m = ring.nodes[c]

(* A lookup on a ring with members and without collisions.                 *)
LEMMA LookupOnRing ==
  RingInv /\ Disjoint /\ members # {} => \A h \in HashSpace : LookupAt(h)
<1> SUFFICES ASSUME RingInv, Disjoint, members # {}, NEW h \in HashSpace
             PROVE  LookupAt(h)
  OBVIOUS
<1> DEFINE P == DOMAIN ring.nodes
           c == Clockwise(P, h)
<1>1. P = UNION {Positions(vh[m]) : m \in members} /\ h \in Nat /\ RingOK(ring)
  BY RingAssumption DEF RingInv
<1>2. P # {}
  <2>1. PICK m \in members : m \in Nodes
    BY DEF RingInv
  <2>2. Positions(vh[m]) # {} /\ Positions(vh[m]) \subseteq P
    BY <1>1, <2>1, HashesType
  <2> QED
    BY <2>2
<1>3. P \subseteq Nat /\ GetNode(ring, h) = ring.nodes[c]
  BY <1>1, <1>2, LookupProperties
<1>4. c \in P
  BY <1>1, <1>2, <1>3, ClockwiseProperties
<1>5. ring.nodes[c] \in Nodes /\ c \in Positions(vh[ring.nodes[c]])
  BY <1>4 DEF RingInv
<1>6. \A m \in Nodes : c \in Positions(vh[m]) => m = ring.nodes[c]
  BY <1>5 DEF Disjoint
<1> QED
  BY <1>1, <1>2, <1>3, <1>4, <1>6 DEF LookupAt

(* Without collisions, the sorted slice and the binary search with its     *)
(* wrap find the owner of the next position clockwise, however the ring    *)
(* came to have its members.                                               *)
THEOREM LookupCorrect == Spec => []LookupIsClockwise
<1>1. RingInv => LookupIsClockwise
  <2> SUFFICES ASSUME RingInv, Disjoint, members # {}, NEW h \in HashSpace
               PROVE  GetNode(ring, h) = Owner(members, vh, h)
    BY DEF LookupIsClockwise
  <2> DEFINE P == DOMAIN ring.nodes
             c == Clockwise(P, h)
  <2>1. /\ P = UNION {Positions(vh[m]) : m \in members}
        /\ c \in P /\ GetNode(ring, h) = ring.nodes[c]
        /\ \A m \in Nodes : c \in Positions(vh[m]) => m = ring.nodes[c]
    BY LookupOnRing DEF LookupAt
  <2>2. /\ ring.nodes[c] \in members /\ c \in Positions(vh[ring.nodes[c]])
        /\ \A m \in members : m \in Nodes
    BY <2>1 DEF RingInv
  <2>3. Owner(members, vh, h) = CHOOSE m \in members : c \in Positions(vh[m])
    BY <2>1 DEF Owner
  <2> HIDE DEF c, P
  <2> QED
    BY <2>1, <2>2, <2>3
<1> QED
  BY <1>1, RingInvariant, PTL

(* Without collisions, adding or removing a Node moves only clients that   *)
(* go to it or come from it: the property consistent hashing is for.       *)
THEOREM OthersKeepTheirClients == Spec => OnlyItsClientsMove
<1> DEFINE Moves ==
      \A h \in HashSpace :
         Disjoint /\ members # {} /\ members' # {} =>
            LET before == GetNode(ring, h)
                after  == GetNode(ring, h)'
            IN  before # after =>
                    \/ members' = members \ {before}
                    \/ members' = members \cup {after}
<1>0. (RingInv /\ Disjoint /\ members # {} => \A h \in HashSpace : LookupAt(h))'
  BY LookupOnRing, PTL
<1>1. RingInv /\ [Next]_vars => [Moves]_vars
  <2> SUFFICES ASSUME RingInv, Next, NEW h \in HashSpace,
                      Disjoint, members # {}, members' # {}
               PROVE  LET before == GetNode(ring, h)
                          after  == GetNode(ring', h)
                      IN  before # after =>
                            \/ members' = members \ {before}
                            \/ members' = members \cup {after}
    OBVIOUS
  <2> DEFINE P == DOMAIN ring.nodes
             Q == DOMAIN ring'.nodes
             c == Clockwise(P, h)
             d == Clockwise(Q, h)
  <2>1. RingInv' /\ vh' = vh
    BY RingInvStep DEF Next, Add, Remove
  <2>2. Disjoint'
    BY <2>1 DEF Disjoint
  <2>3. /\ P \subseteq Nat /\ P # {} /\ h \in Nat
        /\ c \in P /\ GetNode(ring, h) = ring.nodes[c]
        /\ \A m \in Nodes : c \in Positions(vh[m]) => m = ring.nodes[c]
    BY LookupOnRing DEF LookupAt
  <2>4. /\ Q \subseteq Nat /\ Q # {}
        /\ d \in Q /\ GetNode(ring', h) = ring'.nodes[d]
        /\ \A m \in Nodes : d \in Positions(vh[m]) => m = ring'.nodes[d]
    <3>1. LookupAt(h)'
      BY <1>0, <2>1, <2>2
    <3> QED
      BY <2>1, <3>1 DEF LookupAt
  <2>5. ASSUME NEW n \in Nodes, Add(n)
        PROVE  GetNode(ring, h) # GetNode(ring', h) => GetNode(ring', h) = n
    <3>1. /\ Q = P \cup Positions(vh[n])
          /\ \A p \in Q : ring'.nodes[p] = IF p \in Positions(vh[n]) THEN n ELSE ring.nodes[p]
      BY <2>5, HashesType, AddNodeProperties DEF Add, RingInv
    <3> HIDE DEF P, Q, c, d
    <3>2. CASE d \in Positions(vh[n])
      BY <2>4, <3>2
    <3>3. CASE d \notin Positions(vh[n])
      <4>1. d \in P
        BY <2>4, <3>1, <3>3
      <4>2. c = d
        BY <2>3, <2>4, <3>1, <4>1, ClockwiseStays DEF c, d
      <4> QED
        BY <2>3, <2>4, <3>1, <3>3, <4>2
    <3> QED
      BY <3>2, <3>3
  <2>6. ASSUME NEW n \in Nodes, Remove(n)
        PROVE  GetNode(ring, h) # GetNode(ring', h) => GetNode(ring, h) = n
    <3>1. /\ Q = P \ Positions(vh[n])
          /\ \A p \in Q : ring'.nodes[p] = ring.nodes[p]
      BY <2>6, RemoveNodeProperties DEF Remove, RingInv
    <3> HIDE DEF P, Q, c, d
    <3>2. CASE c \in Positions(vh[n])
      BY <2>3, <3>2
    <3>3. CASE c \notin Positions(vh[n])
      <4>1. c \in Q
        BY <2>3, <3>1, <3>3
      <4>2. c = d
        BY <2>3, <2>4, <3>1, <4>1, ClockwiseStays DEF c, d
      <4> QED
        BY <2>3, <2>4, <3>1, <4>1, <4>2
    <3> QED
      BY <3>2, <3>3
  <2> QED
    BY <2>5, <2>6 DEF Next, Add, Remove
<1> QED
  BY <1>1, RingInvariant, PTL DEF Spec, OnlyItsClientsMove

=============================================================================
