--------------------------- MODULE SliceBalancer ---------------------------
(***************************************************************************)
(* The Balancers that keep their rotation in a slice behind an atomic      *)
(* pointer: RoundRobin, WRoundRobin, Random and LeastAlgorithm.  A request *)
(* works on the slice it loaded; the health checker, the only writer,      *)
(* stores a fresh slice each time a Backend leaves or rejoins.             *)
(***************************************************************************)
EXTENDS Balancer

VARIABLES
    servers,    \* the slice the atomic pointer refers to
    snap        \* the slice each request has loaded and not yet chosen from

sliceVars == <<servers, snap>>

-----------------------------------------------------------------------------
\* The constructor's loop: the Backends that answered, in configuration order.
AliveServers ==
    SubsequenceAt([b \in Backends |-> b], {b \in Backends : isHostAlive[b]})

NewSlice ==
    /\ NewBalancer
    /\ snap = [r \in Requests |-> <<>>]

\* next: load the pointer; an empty slice is answered with 503.
LoadServers(r) ==
    /\ Load(r, servers = <<>>)
    /\ snap' = [snap EXCEPT ![r] = servers]
    /\ UNCHANGED servers

\* next returns the Backend at some position of the loaded slice.
PickAt(r, p) ==
    /\ Pick(r, snap[r][p])
    /\ snap' = [snap EXCEPT ![r] = <<>>]
    /\ UNCHANGED servers

\* Mutant: remove by the Backend's index in the configuration.
LeaveByIndex ==
    /\ CheckerStep("leave", "markDown")
    /\ servers' = SubsequenceAt(servers, DOMAIN servers \ {cur})
    /\ UNCHANGED snap

\* healthCheck: every copy of the Backend's proxy is left out of the new slice.
Leave ==
    /\ CheckerStep("leave", "markDown")
    /\ servers' = RemoveByValue(servers, EntryOf(cur))
    /\ UNCHANGED snap

-----------------------------------------------------------------------------
SliceTypeOK ==
    /\ BalancerTypeOK
    /\ servers \in Seq(Backends)
    /\ snap \in [Requests -> Seq(Backends)]

rotation == Range(servers)

(* A Backend is in the rotation exactly when its flag says alive, except   *)
(* the one Backend whose flag the health checker is about to store: what   *)
(* Stats reports and where requests go differ on at most that Backend.     *)
FlagMatchesRotation ==
    \A b \in Backends :
        (b \in rotation) # isHostAlive[b] <=> BetweenStores /\ b = cur

(* Outside WRoundRobin a Backend is never in the rotation twice, so the    *)
(* turns of a sweep of a counter are shared equally: probes, leaves and    *)
(* rejoins in any order keep one slot per Backend.                         *)
NoDuplicateServer == IsInjective(servers)

(* Every slice balancer keeps the contract of Rotation: a request is       *)
(* refused only if the rotation it saw was empty, is sent only to a member *)
(* of it, and a Backend moves only on a contradicting probe of its own.    *)
Contract ==
    INSTANCE Rotation WITH
        alive  <- isHostAlive,
        seen   <- [r \in Requests |-> Range(snap[r])],
        target <- picked

ImplementsRotation == Contract!Spec

=============================================================================
