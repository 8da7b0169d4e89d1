---------------------------- MODULE MCLeastTurns ----------------------------
(* LeastAlgorithm for TLC with requests that keep coming: which Backends   *)
(* keep getting some.                                                      *)
EXTENDS LeastAlgorithm, TLC

CONSTANTS
    Usual,      \* the response time each Backend has
    Slow,       \* the response time of the one slow response
    SlowBackend \* the Backend that gives it, once at most

VARIABLE slowLeft   \* whether the slow response is still to come

DistinctKeys == [b \in Backends |-> b]
UsualTimes == [b \in Backends |-> b]

Responses(b) == {Usual[b]} \cup (IF slowLeft /\ b = SlowBackend THEN {Slow} ELSE {})

TInit == NewLeastAlgorithm /\ slowLeft = TRUE

\* Every request sent succeeds.
TNext ==
    /\ Next
    /\ \A r \in Requests : progress'[r] # "failed"
    /\ \/ recentResTime' = recentResTime /\ slowLeft' = slowLeft
       \/ \E b \in Backends : \E micros \in Responses(b) :
            /\ recentResTime'[b] # recentResTime[b]
            /\ recentResTime'[b] = Smoothed(recentResTime[b], micros)
            /\ slowLeft' = (slowLeft /\ micros # Slow)

\* Clients keep sending requests and each request runs to its end.
TSpec ==
    /\ TInit /\ [][TNext]_<<vars, slowLeft>>
    /\ \A r \in Requests : WF_<<vars, slowLeft>>(TNext /\ Serve(r))

(* In an idle pool the least-connection Backends take turns: every one of  *)
(* them is chosen again and again.                                         *)
TiesTakeTurns ==
    \A b \in Backends : []<>(\E r \in Requests : picked[r] = b)

(* One slow response does not turn traffic away for good from a Backend    *)
(* that answers faster than the others otherwise.                          *)
FastBackendKeepsTraffic == []<>(\E r \in Requests : picked[r] = SlowBackend)

=============================================================================
