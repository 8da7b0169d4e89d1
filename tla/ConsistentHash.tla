--------------------------- MODULE ConsistentHash ---------------------------
(***************************************************************************)
(* pkg/consistent/consistent.go: the hash ring as the operators its        *)
(* callers use.  A ring is an immutable snapshot: nodes maps a position to *)
(* the Node that answers for it, numbers is the sorted slice of positions. *)
(* Each operator returns the snapshot that is stored.  A Node comes with   *)
(* hashes, the values hashFunc(virtualNodeKey(node, i)) of its virtual     *)
(* nodes, which are the same at every call.                                *)
(***************************************************************************)
EXTENDS Helper, Functions

\* The set of positions a Node's virtual nodes hash to.
Positions(hashes) == Range(hashes)

NewConsistentHash == [nodes |-> <<>>, numbers |-> <<>>]

\* sort.Sort: the k-th smallest element, equal ones counted apart.
Sorted(s) ==
    [k \in DOMAIN s |->
        CHOOSE x \in Range(s) :
            /\ Cardinality({p \in DOMAIN s : s[p] < x}) < k
            /\ Cardinality({p \in DOMAIN s : s[p] <= x}) >= k]

\* Mutant: the sort is left out.
AddNodeUnsorted(ring, node, hashes) ==
    [nodes |-> [h \in DOMAIN ring.nodes \cup Positions(hashes) |->
                   IF h \in Positions(hashes) THEN node ELSE ring.nodes[h]],
     numbers |-> ring.numbers \o hashes]

\* A position that is taken already is taken over, and listed once more.
AddNode(ring, node, hashes) ==
    [nodes |-> [h \in DOMAIN ring.nodes \cup Positions(hashes) |->
                   IF h \in Positions(hashes) THEN node ELSE ring.nodes[h]],
     numbers |-> Sorted(ring.numbers \o hashes)]

\* Mutants: only the map is cleaned up; only one virtual node is removed.
RemoveNodeFromMap(ring, hashes) ==
    [nodes |-> Restrict(ring.nodes, DOMAIN ring.nodes \ Positions(hashes)),
     numbers |-> ring.numbers]
RemoveNodeOnce(ring, hashes) ==
    LET removed == {hashes[1]} IN
    [nodes |-> Restrict(ring.nodes, DOMAIN ring.nodes \ removed),
     numbers |-> SubsequenceAt(ring.numbers,
                     {p \in DOMAIN ring.numbers : ring.numbers[p] \notin removed})]

\* A position of the Node is dropped whichever Node holds it.
RemoveNode(ring, hashes) ==
    LET removed == Positions(hashes) IN
    [nodes |-> Restrict(ring.nodes, DOMAIN ring.nodes \ removed),
     numbers |-> SubsequenceAt(ring.numbers,
                     {p \in DOMAIN ring.numbers : ring.numbers[p] \notin removed})]

\* Mutant: a position equal to the hash is passed over.
SearchAfter(numbers, hash) ==
    CHOOSE p \in 1 .. Len(numbers) + 1 :
        /\ \A q \in 1 .. p - 1 : numbers[q] <= hash
        /\ p <= Len(numbers) => numbers[p] > hash

\* sort.Search: the first position of numbers not below hash, or one past the end.
Search(numbers, hash) ==
    CHOOSE p \in 1 .. Len(numbers) + 1 :
        /\ \A q \in 1 .. p - 1 : numbers[q] < hash
        /\ p <= Len(numbers) => numbers[p] >= hash

\* Mutant: a plain modulo instead of the ring.
GetNodeModulo(ring, hash) ==
    ring.nodes[ring.numbers[1 + (hash % Len(ring.numbers))]]

\* The caller has checked that the ring is not empty.
GetNode(ring, hash) ==
    LET found == Search(ring.numbers, hash)
        p == IF found = Len(ring.numbers) + 1 THEN 1 ELSE found
    IN  ring.nodes[ring.numbers[p]]

-----------------------------------------------------------------------------
(* The reference: the owner of the first position clockwise of hash, among *)
(* the virtual nodes of the members; virtual[m] are the hashes of m.       *)

Clockwise(positions, hash) ==
    LET ahead == {p \in positions : p >= hash}
        from  == IF ahead = {} THEN positions ELSE ahead
    IN  CHOOSE p \in from : \A q \in from : p <= q

Owner(members, virtual, hash) ==
    LET p == Clockwise(UNION {Positions(virtual[m]) : m \in members}, hash)
    IN  CHOOSE m \in members : p \in Positions(virtual[m])

=============================================================================
