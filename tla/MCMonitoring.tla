---------------------------- MODULE MCMonitoring ----------------------------
(* An instance of Monitoring for TLC, and the liveness of RoundRobin.      *)
EXTENDS Monitoring

DistinctKeys == [b \in Backends |-> b]
DistinctAddresses == [b \in Backends |-> b]

(* If probes end, a Backend that stays healthy is back in the rotation for *)
(* good and one that stays unhealthy is out of it for good, whatever the   *)
(* others do, unless the Balancer is shut down.                            *)
SettledArePlaced ==
    ProbesEnd => \A b \in Backends :
        /\ <>[]healthy[b] => <>[](b \in rotation /\ isHostAlive[b]) \/ <>stopHealthChecker
        /\ <>[](~ healthy[b]) =>
              <>[](b \notin rotation /\ ~ isHostAlive[b]) \/ <>stopHealthChecker

=============================================================================
