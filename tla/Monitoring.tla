----------------------------- MODULE Monitoring -----------------------------
(***************************************************************************)
(* internal/monitoring: the goroutine that calls Stats every five seconds, *)
(* adds the figures of the process and sets the gauges Prometheus reads.   *)
(* Of a Backend's gauges backend_alive is modelled; all four are set from  *)
(* the same row, under the Backend's address.                              *)
(***************************************************************************)
EXTENDS RoundRobin

CONSTANT Addr           \* the address of each Backend, the label of its gauges

ASSUME MonitoringAssumption == DOMAIN Addr = Backends

VARIABLE backendAlive   \* the gauge of each address: "unset", 0 or 1

monitoringVars == <<vars, backendAlive>>

StartMonitoringServer ==
    /\ NewRoundRobin
    /\ backendAlive = [a \in Range(Addr) |-> "unset"]

\* The loop over the rows sets the gauge of an address once per row.
Gauge(a) ==
    LET rows == {k \in DOMAIN stats : Addr[stats[k].proxy] = a}
        last == CHOOSE k \in rows : \A l \in rows : l <= k
    IN  IF stats[last].isHostAlive THEN "1" ELSE "0"

\* Mutant: a gauge is set when a Backend is up and left alone otherwise.
updateUpOnly ==
    backendAlive' = [a \in Range(Addr) |->
        IF Gauge(a) = "1" THEN "1" ELSE backendAlive[a]]

updatePrometheusMetrics == backendAlive' = [a \in Range(Addr) |-> Gauge(a)]

(* Stats returns its rows to getServerStats.  When a figure of the process *)
(* cannot be had that answers an empty Monitoring: no row, no gauge set.   *)
ScrapeReturns == scrape = "filled" /\ scrape' = "idle"

Scrape ==
    IF ScrapeReturns
    THEN updatePrometheusMetrics \/ UNCHANGED backendAlive
    ELSE UNCHANGED backendAlive

\* The gauges outlive a Shutdown of the Balancer, and so does the goroutine.
MonitoringSpec ==
    /\ StartMonitoringServer /\ [][Next /\ Scrape]_monitoringVars
    /\ WF_vars(CheckerGoesOn) /\ WF_vars(ShutdownGoesOn) /\ WF_vars(Stats)

(* Scrapes that find the figures of the process come again and again.      *)
ScrapesSucceed == []<><<ScrapeReturns /\ updatePrometheusMetrics>>_monitoringVars

(* If probes end and scrapes succeed, the gauges settle on what is true of *)
(* a Backend that settles: not on what a row said that was read before.    *)
GaugesFollow ==
    ProbesEnd /\ ScrapesSucceed => \A b \in Backends :
        /\ <>[]healthy[b] => <>[](backendAlive[Addr[b]] = "1") \/ <>stopHealthChecker
        /\ <>[](~ healthy[b]) => <>[](backendAlive[Addr[b]] = "0") \/ <>stopHealthChecker

=============================================================================
