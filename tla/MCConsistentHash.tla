-------------------------- MODULE MCConsistentHash --------------------------
(***************************************************************************)
(* Every history of AddNode and RemoveNode calls over small rings, for     *)
(* every assignment of hash values to virtual nodes.                       *)
(***************************************************************************)
EXTENDS ConsistentHash, TLC

CONSTANTS
    Nodes,      \* Node Ids
    Repl,       \* bound: virtual nodes per Node (the square of N in the code)
    HashSpace   \* bound: the hash values (32 bits in the code)

ASSUME RingAssumption == Repl \in Nat \ {0} /\ HashSpace \subseteq Nat

VARIABLES
    vh,         \* the hash of each virtual node, chosen once
    ring,       \* the snapshot
    members     \* Nodes added and not removed since

vars == <<vh, ring, members>>

NodeSymmetry == Permutations(Nodes)

\* No two Nodes share a hash value.
Disjoint ==
    \A m, n \in Nodes : m # n => Positions(vh[m]) \cap Positions(vh[n]) = {}

Init ==
    /\ vh \in [Nodes -> [1 .. Repl -> HashSpace]]
    /\ ring = NewConsistentHash
    /\ members = {}

Add(n) ==
    /\ n \notin members
    /\ ring' = AddNode(ring, n, vh[n])
    /\ members' = members \cup {n}
    /\ UNCHANGED vh

Remove(n) ==
    /\ n \in members
    /\ ring' = RemoveNode(ring, vh[n])
    /\ members' = members \ {n}
    /\ UNCHANGED vh

Next == \E n \in Nodes : Add(n) \/ Remove(n)

Spec == Init /\ [][Next]_vars

-----------------------------------------------------------------------------
(* The two halves of a snapshot stay in step, collisions or not: numbers   *)
(* is sorted and lists exactly the positions nodes has, and every position *)
(* belongs to a member.  GetNode's nodes[numbers[i]] is never nil.         *)
RingConsistent ==
    /\ Range(ring.numbers) = DOMAIN ring.nodes
    /\ \A p, q \in DOMAIN ring.numbers :
         p < q => ring.numbers[p] <= ring.numbers[q]
    /\ Range(ring.nodes) \subseteq members

(* With disjoint virtual nodes, a lookup depends on who is on the ring and *)
(* not on the history of the ring: it finds the owner of the next position *)
(* clockwise, wrapping at the end.                                         *)
LookupIsClockwise ==
    Disjoint /\ members # {} =>
        \A h \in HashSpace : GetNode(ring, h) = Owner(members, vh, h)

(* With disjoint virtual nodes, a Node that leaves hands over only its own *)
(* clients, and one that rejoins takes clients only for itself.            *)
OnlyItsClientsMove ==
    [][\A h \in HashSpace :
         Disjoint /\ members # {} /\ members' # {} =>
            LET before == GetNode(ring, h)
                after  == GetNode(ring, h)'
            IN  before # after =>
                    \/ members' = members \ {before}
                    \/ members' = members \cup {after}]_vars

=============================================================================
