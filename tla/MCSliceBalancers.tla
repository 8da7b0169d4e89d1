-------------------------- MODULE MCSliceBalancers --------------------------
(* SliceBalancers for TLC, with a history of the draws from the slice.     *)
EXTENDS SliceBalancers, TLC

CONSTANT MaxSweeps      \* bound: sweeps counted since the slice was last stored

VARIABLES
    taken,      \* draws of each Backend from the current slice since it was stored
    draws,      \* all draws from the current slice since it was stored
    strays      \* numbers of the counter that gave the current slice no turn:
                \* drawn by holders of an older slice, or jumped over at a wrap

DistinctKeys == [b \in Backends |-> b]
WeightValues == [b \in Backends |-> IF b = 1 THEN 2 ELSE 1]
RequestSymmetry == Permutations(Requests)

NoneTaken == [b \in Backends |-> 0]

\* Bound: Stats and Shutdown use nothing a request uses, so their steps are not
\* interleaved with those of requests, nor with each other's.
CallsApart ==
    LET scraping == scrape' # "idle"
        stopping == shutdown' \in {"waiting", "closing"}
    IN  /\ scraping \/ stopping => \A r \in Requests : phase'[r] = "idle"
        /\ ~ (scraping /\ stopping)

HInit == BuildBalancer /\ taken = NoneTaken /\ draws = 0 /\ strays = 0

\* The request that draws a number in this step, if one does.
Drawing ==
    {r \in Requests : type # "random" /\ phase[r] = "loaded" /\ phase'[r] = "proxying"}

HStep ==
    /\ BalancerStep
    /\ IF servers' # servers
       THEN taken' = NoneTaken /\ draws' = 0 /\ strays' = 0
       ELSE LET ours == {r \in Drawing : snap[r] = servers} IN
            /\ taken' = [b \in Backends |->
                 taken[b] + Cardinality({r \in ours : picked'[r] = b})]
            /\ draws' = draws + Cardinality(ours)
            /\ strays' = strays + (IF Drawing # ours THEN 1 ELSE 0)
                                + (IF i' < i THEN 1 ELSE 0)

historyVars == <<allVars, taken, draws, strays>>

HistorySpec == HInit /\ [][HStep]_historyVars

HNext == HStep /\ CallsApart /\ draws' <= MaxSweeps * Len(servers)

HSpec == HInit /\ [][HNext]_historyVars

(* After k whole sweeps of a counter over an unchanged slice every Backend *)
(* in it has been drawn exactly k times its share, whatever the order the  *)
(* shuffle gave and however concurrent requests interleave.                *)
SweepHonoursShares ==
    type # "random" /\ strays = 0 /\ servers # <<>> /\ draws % Len(servers) = 0 =>
        \A b \in rotation : taken[b] = (draws \div Len(servers)) * Share(b)

(* At any other moment no round-robin Backend is more than one turn ahead  *)
(* of another, up to one turn for each draw that went to a slice loaded    *)
(* earlier and for each wrap of the counter.                               *)
TurnsShared ==
    type = "round-robin" =>
        \A b, c \in rotation : taken[b] <= taken[c] + 1 + strays

=============================================================================
