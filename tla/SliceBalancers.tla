--------------------------- MODULE SliceBalancers ---------------------------
(***************************************************************************)
(* core/balancer.go for the Balancers that choose by position: cfg.Type    *)
(* decides which constructor builds the Balancer, and with it which Serve, *)
(* health checker, Stats and Shutdown run for the life of the process.     *)
(***************************************************************************)
EXTENDS WRoundRobin

CONSTANT Types      \* bound: the values of cfg.Type considered

ASSUME TypesAssumption ==
    Types \subseteq {"round-robin", "w-round-robin", "random"}

VARIABLE type       \* the kind of Balancer that was built

RR == INSTANCE RoundRobin
RD == INSTANCE Random

allVars == <<vars, type>>

BuildBalancer ==
    /\ type \in Types
    /\ \/ type = "round-robin" /\ RR!NewRoundRobin
       \/ type = "w-round-robin" /\ NewWRoundRobin
       \/ type = "random" /\ RD!NewRandom /\ i = 0

BalancerStep ==
    /\ \/ type = "round-robin" /\ RR!Next
       \/ type = "w-round-robin" /\ Next
       \/ type = "random" /\ RD!Next /\ UNCHANGED i
    /\ UNCHANGED type

BalancerSpec == BuildBalancer /\ [][BalancerStep]_allVars

-----------------------------------------------------------------------------
\* The slots a Backend is meant to have in the slice.
Share(b) == IF type = "w-round-robin" THEN Weight[b] ELSE 1

(* A Backend in the rotation has exactly the slots that are its share: one *)
(* for each unit of its weight, or just one.  No history of leaves and     *)
(* rejoins makes it gain or lose any, so that equal turns, or a uniform    *)
(* choice of a slot, give every Backend its part of the requests.          *)
SharesKept == \A b \in rotation : Count(servers, b) = Share(b)

=============================================================================
