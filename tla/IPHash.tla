------------------------------- MODULE IPHash -------------------------------
(***************************************************************************)
(* core/ip-hash/ip-hash.go: the rotation is a consistent-hash ring behind  *)
(* an atomic pointer, and a request goes to the Backend the ring gives for *)
(* the hash of the client's IP address.                                    *)
(***************************************************************************)
EXTENDS Balancer, ConsistentHash

CONSTANTS
    VirtualHash,    \* the hashes of each Backend's virtual nodes
    ClientHash      \* the hashes of the clients' IP addresses

ASSUME IPHashAssumption ==
    /\ ClientHash \subseteq Nat
    /\ VirtualHash \in [Backends -> Seq(Nat) \ {<<>>}]

VARIABLES
    ring,       \* the snapshot the ring's atomic pointer refers to
    len,        \* the checker's own count of Backends on the ring
    snap,       \* the snapshot each request has loaded and not yet searched
    client      \* the hash of each request's client

ringVars == <<ring, len, snap, client>>
vars == <<balancerVars, ringVars>>

-----------------------------------------------------------------------------
\* The constructor adds the Backends that answered in configuration order.
ringUpTo[b \in 0 .. N] ==
    IF b = 0 THEN NewConsistentHash
    ELSE IF isHostAlive[b] THEN AddNode(ringUpTo[b - 1], b, VirtualHash[b])
    ELSE ringUpTo[b - 1]

AliveRing == ringUpTo[N]

NewIPHash ==
    /\ NewBalancer
    /\ ring = AliveRing
    /\ len = Cardinality({b \in Backends : isHostAlive[b]})
    /\ snap = [r \in Requests |-> NewConsistentHash]
    /\ client \in [Requests -> ClientHash]

LoadRing(r) ==
    /\ Load(r, ring.numbers = <<>>)
    /\ snap' = [snap EXCEPT ![r] = ring]
    /\ \E h \in ClientHash : client' = [client EXCEPT ![r] = h]
    /\ UNCHANGED <<ring, len>>

get(r) ==
    /\ phase[r] = "loaded"
    /\ Pick(r, GetNode(snap[r], client[r]))
    /\ snap' = [snap EXCEPT ![r] = NewConsistentHash]
    /\ UNCHANGED <<ring, len, client>>

Serve(r) == LoadRing(r) \/ get(r) \/ (Respond(r) /\ UNCHANGED ringVars)

Leave ==
    /\ CheckerStep("leave", "markDown")
    /\ ring' = RemoveNode(ring, VirtualHash[EntryOf(cur)])
    /\ UNCHANGED <<len, snap, client>>

Rejoin ==
    /\ CheckerStep("rejoin", "markUp")
    /\ ring' = AddNode(ring, EntryOf(cur), VirtualHash[EntryOf(cur)])
    /\ UNCHANGED <<len, snap, client>>

healthCheck ==
    \/ Probe /\ UNCHANGED ringVars
    \/ Leave
    \/ Rejoin
    \/ /\ StoreIsHostAlive
       /\ len' = IF checker = "markUp" THEN len + 1 ELSE len - 1
       /\ UNCHANGED <<ring, snap, client>>

healthChecker == healthCheckerStep /\ UNCHANGED ringVars

Stats == StatsCall /\ UNCHANGED ringVars

Shutdown == ShutdownCall /\ UNCHANGED ringVars

Environment == (\E b \in Flaky : Flip(b)) /\ UNCHANGED ringVars

Next ==
    /\ scrape # "panicked"
    /\ \/ \E r \in Requests : Serve(r)
       \/ healthChecker
       \/ healthCheck
       \/ Stats
       \/ Shutdown
       \/ Environment

Spec == NewIPHash /\ [][Next]_vars

-----------------------------------------------------------------------------
rotation == Range(ring.nodes)

TypeOK ==
    /\ BalancerTypeOK
    /\ ring.nodes \in [DOMAIN ring.nodes -> Backends]
    /\ ring.numbers \in Seq(Nat)
    /\ len \in 0 .. N
    /\ DOMAIN snap = Requests
    /\ client \in [Requests -> ClientHash]

(* A Backend owns positions of the ring exactly when its flag says alive,  *)
(* except the one whose flag the health checker is about to store.         *)
FlagMatchesRing ==
    \A b \in Backends :
        (b \in rotation) # isHostAlive[b] <=> BetweenStores /\ b = cur

(* The ring balancer keeps the same contract as the slice balancers.       *)
Contract ==
    INSTANCE Rotation WITH
        alive  <- isHostAlive,
        seen   <- [r \in Requests |-> Range(snap[r].nodes)],
        target <- picked

ImplementsRotation == Contract!Spec

=============================================================================
