--------------------------- MODULE LeastAlgorithm ---------------------------
(***************************************************************************)
(* core/least-algorithm/least-algorithm.go: a request scans the slice it   *)
(* loaded and takes the Backend with the fewest pending requests, or the   *)
(* lowest recent response time.  Each Backend's figure is read by its own  *)
(* atomic load, so the scan sees figures of different moments.             *)
(*                                                                         *)
(* Of internal/proxy/proxy.go this module has what the scan depends on:    *)
(* when a request counts as pending, and when and with what its response   *)
(* time enters the moving average.                                         *)
(***************************************************************************)
EXTENDS SliceBalancer

CONSTANTS
    Types,          \* bound: cfg.Type, the configured kinds considered
    CounterMod,     \* the cursor is a uint64: 2^64 in the code
    Middleware,     \* whether the configuration has middlewares
    Samples,        \* bound: response times of successful requests
    FailureSamples  \* bound: max(elapsed, failureResponseTimePenalty) of failed ones

ASSUME LeastAlgorithmAssumption ==
    /\ Types \subseteq {"least-connection", "least-response-time"}
    /\ CounterMod \in Nat \ {0}
    /\ Middleware \in BOOLEAN
    /\ Samples \subseteq Nat \ {0}
    /\ FailureSamples \subseteq Nat \ {0}
    /\ IsFiniteSet(Requests)     \* the server's Concurrency; they are counted

VARIABLES
    nextFunc,       \* the kind of scan, set once by the constructor
    cursor,         \* the shared rotating offset of the least-connection scan
    scan,           \* each request's scan
    progress,       \* each request's place in ReverseProxyHandler
    recentResTime   \* each Backend's moving average, 0 while unmeasured

leastVars == <<cursor, scan, progress, recentResTime>>
vars == <<balancerVars, sliceVars, leastVars, nextFunc>>

\* at is the number of servers visited; best and least what the scan would return.
NoScan == [active |-> FALSE, at |-> 0, offset |-> 0, best |-> Nil, least |-> 0]

-----------------------------------------------------------------------------
(* ProxyClient                                                             *)

\* fasthttp counts a request as pending from the start to the end of Do.
PendingRequests(b) ==
    Cardinality({r \in Requests : picked[r] = b /\ progress[r] = "sent"})

\* responseTimeSmoothing is one fifth; scores are rounded down to integers.
Smoothed(current, micros) ==
    IF current = 0 THEN micros ELSE (micros + 4 * current) \div 5

\* The compare-and-swap that succeeds.
storeRecentResTime(b, micros) ==
    recentResTime' = [recentResTime EXCEPT ![b] = Smoothed(@, micros)]

\* When Do returns the request is pending no more, and its time not yet recorded.
Do(r) ==
    /\ phase[r] = "proxying"
    /\ \/ progress[r] = "start" /\ progress' = [progress EXCEPT ![r] = "sent"]
       \/ /\ progress[r] = "sent"
          /\ \E outcome \in {"ok", "failed"} :
                progress' = [progress EXCEPT ![r] = outcome]
    /\ UNCHANGED <<balancerVars, sliceVars, cursor, scan, recentResTime>>

Finish(r) ==
    /\ Respond(r)
    /\ progress' = [progress EXCEPT ![r] = "start"]
    /\ UNCHANGED <<sliceVars, cursor, scan>>

\* The last step of a request whose time is recorded.
recordResponseTime(r) ==
    /\ progress[r] = "ok"
    /\ \E micros \in Samples : storeRecentResTime(picked[r], micros)
    /\ Finish(r)

\* Mutant: a failure counts with the time it took.
recordFailureElapsed(r) ==
    /\ progress[r] = "failed"
    /\ \E micros \in Samples : storeRecentResTime(picked[r], micros)
    /\ Finish(r)

recordFailure(r) ==
    /\ progress[r] = "failed"
    /\ \E micros \in FailureSamples : storeRecentResTime(picked[r], micros)
    /\ Finish(r)

\* No time is recorded: the 503, or a middleware answered before or after Do.
Unrecorded(r) ==
    /\ phase[r] = "refused" \/ (Middleware /\ progress[r] \in {"start", "ok"})
    /\ Finish(r)
    /\ UNCHANGED recentResTime

ReverseProxyHandler(r) ==
    Do(r) \/ recordResponseTime(r) \/ recordFailure(r) \/ Unrecorded(r)

-----------------------------------------------------------------------------
(* The scans                                                               *)

NewLeastAlgorithm ==
    /\ NewSlice
    /\ servers = AliveServers
    /\ nextFunc \in Types
    /\ cursor = 0
    /\ scan = [r \in Requests |-> NoScan]
    /\ progress = [r \in Requests |-> "start"]
    /\ recentResTime = [b \in Backends |-> 0]

Return(r, b) ==
    /\ Pick(r, b)
    /\ scan' = [scan EXCEPT ![r] = NoScan]
    /\ snap' = [snap EXCEPT ![r] = <<>>]
    /\ UNCHANGED servers

\* Go on after the visit of one server that left best and least as given.
Visited(r, best, least) ==
    IF scan[r].at + 1 = Len(snap[r])
    THEN Return(r, best)
    ELSE /\ scan' = [scan EXCEPT ![r] = [scan[r] EXCEPT !.at = scan[r].at + 1,
                                                         !.best = best, !.least = least]]
         /\ UNCHANGED <<balancerVars, sliceVars>>

\* Mutant: the scan always starts at the first server.
StartAtZero(r) ==
    /\ ~ scan[r].active
    /\ cursor' = (cursor + 1) % CounterMod
    /\ scan' = [scan EXCEPT ![r] = [NoScan EXCEPT !.active = TRUE]]
    /\ UNCHANGED <<balancerVars, sliceVars, progress, recentResTime>>

\* cursor.Add, and the scan starts there: equally loaded Backends take turns.
StartAtCursor(r) ==
    /\ ~ scan[r].active
    /\ cursor' = (cursor + 1) % CounterMod
    /\ scan' = [scan EXCEPT ![r] =
                    [NoScan EXCEPT !.active = TRUE, !.offset = cursor' % Len(snap[r])]]
    /\ UNCHANGED <<balancerVars, sliceVars, progress, recentResTime>>

\* Mutant: the comparison is turned round.
VisitMostPending(r) ==
    /\ scan[r].active
    /\ LET server  == snap[r][1 + ((scan[r].offset + scan[r].at) % Len(snap[r]))]
           pending == PendingRequests(server)
       IN  IF scan[r].at = 0 \/ pending > scan[r].least
           THEN Visited(r, server, pending)
           ELSE Visited(r, scan[r].best, scan[r].least)
    /\ UNCHANGED <<cursor, progress, recentResTime>>

VisitPending(r) ==
    /\ scan[r].active
    /\ LET server  == snap[r][1 + ((scan[r].offset + scan[r].at) % Len(snap[r]))]
           pending == PendingRequests(server)
       IN  IF scan[r].at = 0 \/ pending < scan[r].least
           THEN Visited(r, server, pending)
           ELSE Visited(r, scan[r].best, scan[r].least)
    /\ UNCHANGED <<cursor, progress, recentResTime>>

leastConnectionNext(r) ==
    /\ nextFunc = "least-connection" /\ phase[r] = "loaded"
    /\ StartAtCursor(r) \/ VisitPending(r)

\* The first server's score is read once here and once more by the loop.
StartAtFirst(r) ==
    /\ ~ scan[r].active
    /\ scan' = [scan EXCEPT ![r] =
                    [NoScan EXCEPT !.active = TRUE, !.best = snap[r][1],
                                   !.least = recentResTime[snap[r][1]]]]
    /\ UNCHANGED <<balancerVars, sliceVars, cursor, progress, recentResTime>>

\* Mutant: an unmeasured server is passed over.
VisitMeasured(r) ==
    /\ scan[r].active
    /\ LET server  == snap[r][1 + scan[r].at]
           resTime == recentResTime[server]
       IN  IF resTime # 0 /\ resTime < scan[r].least
           THEN Visited(r, server, resTime)
           ELSE Visited(r, scan[r].best, scan[r].least)
    /\ UNCHANGED <<cursor, progress, recentResTime>>

\* An unmeasured server wins outright.
VisitScore(r) ==
    /\ scan[r].active
    /\ LET server  == snap[r][1 + scan[r].at]
           resTime == recentResTime[server]
       IN  CASE resTime = 0 -> Return(r, server)
             [] resTime # 0 /\ resTime < scan[r].least -> Visited(r, server, resTime)
             [] OTHER -> Visited(r, scan[r].best, scan[r].least)
    /\ UNCHANGED <<cursor, progress, recentResTime>>

leastResponseTimeNext(r) ==
    /\ nextFunc = "least-response-time" /\ phase[r] = "loaded"
    /\ StartAtFirst(r) \/ VisitScore(r)

Serve(r) ==
    \/ LoadServers(r) /\ UNCHANGED leastVars
    \/ leastConnectionNext(r)
    \/ leastResponseTimeNext(r)
    \/ ReverseProxyHandler(r)

-----------------------------------------------------------------------------
ResetRecentResponseTime ==
    /\ CheckerStep("rejoin", "append")
    /\ recentResTime' = [recentResTime EXCEPT ![EntryOf(cur)] = 0]
    /\ UNCHANGED <<sliceVars, cursor, scan, progress>>

Rejoin ==
    /\ CheckerStep("append", "markUp")
    /\ servers' = Append(servers, EntryOf(cur))
    /\ UNCHANGED <<snap, leastVars>>

healthCheck ==
    \/ (Probe \/ StoreIsHostAlive) /\ UNCHANGED <<sliceVars, leastVars>>
    \/ Leave /\ UNCHANGED leastVars
    \/ ResetRecentResponseTime
    \/ Rejoin

healthChecker == healthCheckerStep /\ UNCHANGED <<sliceVars, leastVars>>

Stats == StatsCall /\ UNCHANGED <<sliceVars, leastVars>>

Shutdown == ShutdownCall /\ UNCHANGED <<sliceVars, leastVars>>

Environment == (\E b \in Flaky : Flip(b)) /\ UNCHANGED <<sliceVars, leastVars>>

Next ==
    /\ scrape # "panicked"
    /\ UNCHANGED nextFunc
    /\ \/ \E r \in Requests : Serve(r)
       \/ healthChecker
       \/ healthCheck
       \/ Stats
       \/ Shutdown
       \/ Environment

Spec == NewLeastAlgorithm /\ [][Next]_vars

-----------------------------------------------------------------------------
TypeOK ==
    /\ SliceTypeOK
    /\ nextFunc \in Types
    /\ cursor \in 0 .. CounterMod - 1
    /\ \A r \in Requests :
         /\ scan[r].at \in Nat /\ scan[r].offset \in Nat /\ scan[r].least \in Nat
         /\ scan[r].best \in Backends \cup {Nil}
         /\ scan[r].active => phase[r] = "loaded" /\ scan[r].at < Len(snap[r])
    /\ progress \in [Requests -> {"start", "sent", "ok", "failed"}]
    /\ recentResTime \in [Backends -> Nat]

=============================================================================
