------------------------------ MODULE MCIPHash ------------------------------
(* An instance of IPHash for TLC.                                          *)
EXTENDS IPHash, TLC

DistinctKeys == [b \in Backends |-> b]

\* Interleaved positions, two per Backend; the code places N * N of them.
Positions2 == [b \in Backends |-> <<b, b + N>>]

RequestSymmetry == Permutations(Requests)

\* Bound: Stats and Shutdown use nothing a request uses, so their steps are not
\* interleaved with those of requests, nor with each other's.
CallsApart ==
    LET scraping == scrape' # "idle"
        stopping == shutdown' \in {"waiting", "closing"}
    IN  /\ scraping \/ stopping => \A r \in Requests : phase'[r] = "idle"
        /\ ~ (scraping /\ stopping)

MCSpec == NewIPHash /\ [][Next /\ CallsApart]_vars

(* The set of Backends in the rotation a request loaded and its client's   *)
(* address decide where it goes, to the next virtual node clockwise: after *)
(* any history of leaves and rejoins a client is back at the same Backend, *)
(* and one whose Backend did not move stays.                               *)
ClientsStick ==
    [][\A r \in Requests : phase[r] = "loaded" /\ phase'[r] = "proxying" =>
         picked'[r] = Owner(Range(snap[r].nodes), VirtualHash, client[r])]_vars

=============================================================================
