------------------------------ MODULE Balancer ------------------------------
(***************************************************************************)
(* What the five Balancers of core/ have in common, line for line: the map *)
(* from a Backend's key to its entry, the health checker goroutine, the    *)
(* Stats call, the Shutdown call and the life of a request around the      *)
(* choice of a Backend.  The modules that extend this one add the rotation *)
(* itself (a slice or a hash ring), the choice, and the steps by which a   *)
(* Backend leaves and rejoins.                                             *)
(*                                                                         *)
(* Backends are their positions 1..N in the configuration, and a Backend   *)
(* stands for its ProxyClient too: each one is created exactly once.       *)
(***************************************************************************)
EXTENDS Helper, Functions

CONSTANTS
    N,          \* number of configured Backends
    Hash,       \* key of each Backend in serversMap: hashFunc(Url + Itoa(i))
    Requests,   \* concurrent client requests
    Flaky,      \* bound: the Backends whose health check outcome may change
    Calls       \* bound: which of "Stats" and "Shutdown" the environment calls

Backends == 1 .. N

\* Hash is a 32-bit checksum of a concatenation: two Backends may share a key.
ASSUME BalancerAssumption ==
    /\ N \in Nat \ {0}
    /\ Hash \in [Backends -> Nat]
    /\ Flaky \subseteq Backends
    /\ Calls \subseteq {"Stats", "Shutdown"}

Nil == 0        \* no ProxyClient

VARIABLES
    healthy,            \* what a health check of each Backend would answer now
    isHostAlive,        \* the flag of each Backend's entry
    checker,            \* where the health checker goroutine is
    cur,                \* the Backend its loop is at
    stopHealthChecker,  \* whether the stop channel is closed
    shutdown,           \* where the caller of Shutdown is
    closed,             \* entries whose idle connections Shutdown has closed
    scrape,             \* where the caller of Stats is
    todo,               \* entries the Stats loop has still to visit
    stats,              \* the slice Stats is filling
    phase,              \* where each request is
    picked              \* the Backend each request is being proxied to

checkerVars  == <<checker, cur>>
shutdownVars == <<stopHealthChecker, shutdown, closed>>
statsVars    == <<scrape, todo, stats>>
requestVars  == <<phase, picked>>
balancerVars == <<healthy, isHostAlive, checkerVars, shutdownVars, statsVars,
                  requestVars>>

-----------------------------------------------------------------------------
(* serversMap: a later Backend with the same key overwrites the entry.     *)

EntryOf(b) ==
    CHOOSE c \in Backends :
        /\ Hash[c] = Hash[b]
        /\ \A d \in Backends : Hash[d] = Hash[b] => d <= c

serversMap == {EntryOf(b) : b \in Backends}

\* Mutant: read after the insertion.
statsIdxAfterInsert(b) == Cardinality({Hash[c] : c \in 1 .. b})

\* The size of serversMap just before Backend b is inserted.
statsIdx(b) == Cardinality({Hash[c] : c \in 1 .. b - 1})

healthCheckerDone == checker = "returned"

-----------------------------------------------------------------------------
(* The constructor.  It returns nil, and main exits, when no Backend       *)
(* answers; healthy may have changed since the constructor's own probes.   *)

NewBalancer ==
    /\ healthy \in [Backends -> BOOLEAN]
    /\ isHostAlive \in [Backends -> BOOLEAN]
    /\ \A b \in Backends \ Flaky : healthy[b] /\ isHostAlive[b]
    /\ \E b \in Backends : isHostAlive[b]
    /\ checker = "select" /\ cur = 1
    /\ stopHealthChecker = FALSE /\ shutdown = "idle" /\ closed = {}
    /\ scrape = "idle" /\ todo = {} /\ stats = <<>>
    /\ phase = [r \in Requests |-> "idle"]
    /\ picked = [r \in Requests |-> Nil]

\* The Backend's host changes: the answer of http.IsHostAlive (200 or not).
Flip(b) ==
    /\ healthy' = [healthy EXCEPT ![b] = ~ @]
    /\ UNCHANGED <<isHostAlive, checkerVars, shutdownVars, statsVars, requestVars>>

-----------------------------------------------------------------------------
(* healthChecker: the goroutine's select and the loop over the Backends.   *)

\* The ticker fires.  Go's select may take this case with stop closed too.
SelectTick ==
    /\ checker = "select"
    /\ checker' = "loop" /\ cur' = 1
    /\ UNCHANGED <<healthy, isHostAlive, shutdownVars, statsVars, requestVars>>

SelectStop ==
    /\ checker = "select" /\ stopHealthChecker
    /\ checker' = "returned"
    /\ UNCHANGED <<healthy, isHostAlive, cur, shutdownVars, statsVars, requestVars>>

\* Mutant: without the check.
LoopHeadUnchecked ==
    /\ checker = "loop"
    /\ checker' = "probe"
    /\ UNCHANGED <<healthy, isHostAlive, cur, shutdownVars, statsVars, requestVars>>

\* helper.IsClosed before each probe, so that a stop is not delayed by a sweep.
LoopHead ==
    /\ checker = "loop"
    /\ checker' = IF stopHealthChecker THEN "returned" ELSE "probe"
    /\ UNCHANGED <<healthy, isHostAlive, cur, shutdownVars, statsVars, requestVars>>

\* Mutants: the range loop ends one Backend late, or one early.
NextBackendLate ==
    IF cur <= N
    THEN checker' = "loop" /\ cur' = cur + 1
    ELSE checker' = "select" /\ cur' = 1
NextBackendEarly ==
    IF cur < N - 1
    THEN checker' = "loop" /\ cur' = cur + 1
    ELSE checker' = "select" /\ cur' = 1

\* The range loop over the Backends.
NextBackend ==
    IF cur < N
    THEN checker' = "loop" /\ cur' = cur + 1
    ELSE checker' = "select" /\ cur' = 1

\* Mutant: a healthy Backend rejoins whatever its flag says.
ProbeForgetsFlag ==
    /\ checker = "probe"
    /\ IF ~ healthy[cur] /\ ~ isHostAlive[EntryOf(cur)]
       THEN NextBackend
       ELSE checker' = (IF healthy[cur] THEN "rejoin" ELSE "leave") /\ cur' = cur
    /\ UNCHANGED <<healthy, isHostAlive, shutdownVars, statsVars, requestVars>>

(* healthCheck: the probe and the comparison with the entry's flag, which  *)
(* only this goroutine writes.  The rotation is changed at "leave" and     *)
(* "rejoin" by the extending module, before the flag.                      *)
Probe ==
    /\ checker = "probe"
    /\ LET alive == isHostAlive[EntryOf(cur)] IN
       IF healthy[cur] = alive
       THEN NextBackend
       ELSE checker' = (IF alive THEN "leave" ELSE "rejoin") /\ cur' = cur
    /\ UNCHANGED <<healthy, isHostAlive, shutdownVars, statsVars, requestVars>>

\* A step of healthCheck on state of the extending module only.
CheckerStep(from, to) ==
    /\ checker = from
    /\ checker' = to
    /\ UNCHANGED <<healthy, isHostAlive, cur, shutdownVars, statsVars, requestVars>>

\* proxyMap.isHostAlive.Store, the last step of healthCheck.
StoreFlag(from, value) ==
    /\ checker = from
    /\ isHostAlive' = [isHostAlive EXCEPT ![EntryOf(cur)] = value]
    /\ NextBackend
    /\ UNCHANGED <<healthy, shutdownVars, statsVars, requestVars>>

StoreIsHostAlive == StoreFlag("markDown", FALSE) \/ StoreFlag("markUp", TRUE)

healthCheckerStep == SelectTick \/ SelectStop \/ LoopHead

-----------------------------------------------------------------------------
(* Stats: one row per entry, in Go's random map order, each placed at the  *)
(* entry's statsIdx.  An index past the slice panics, and nothing recovers *)
(* a panic of the monitoring server's handler: the process is gone.        *)

ZeroRow == [proxy |-> Nil, isHostAlive |-> FALSE]

StatsStart ==
    /\ "Stats" \in Calls /\ scrape = "idle"
    /\ scrape' = "reading" /\ todo' = serversMap
    /\ stats' = [k \in 0 .. Cardinality(serversMap) - 1 |-> ZeroRow]
    /\ UNCHANGED <<healthy, isHostAlive, checkerVars, shutdownVars, requestVars>>

Row(e) == [proxy |-> e, isHostAlive |-> isHostAlive[e]]

StatsRow(e) ==
    /\ scrape = "reading" /\ e \in todo
    /\ todo' = todo \ {e}
    /\ IF statsIdx(e) \in DOMAIN stats
       THEN /\ stats' = [stats EXCEPT ![statsIdx(e)] = Row(e)]
            /\ scrape' = IF todo = {e} THEN "filled" ELSE "reading"
       ELSE /\ scrape' = "panicked"
            /\ UNCHANGED stats
    /\ UNCHANGED <<healthy, isHostAlive, checkerVars, shutdownVars, requestVars>>

StatsReturn ==
    /\ scrape = "filled"
    /\ scrape' = "idle" /\ stats' = <<>> /\ UNCHANGED todo
    /\ UNCHANGED <<healthy, isHostAlive, checkerVars, shutdownVars, requestVars>>

StatsCall == StatsStart \/ (\E e \in serversMap : StatsRow(e)) \/ StatsReturn

-----------------------------------------------------------------------------
(* Shutdown: close the stop channel once, wait for the checker but at most *)
(* HealthCheckerStopTimeout, then close every entry's connections.         *)

ShutdownStop ==
    /\ "Shutdown" \in Calls /\ shutdown \in {"idle", "returned"}
    /\ stopHealthChecker' = TRUE
    /\ shutdown' = "waiting"
    /\ UNCHANGED <<healthy, isHostAlive, checkerVars, closed, statsVars, requestVars>>

ShutdownJoined ==
    /\ shutdown = "waiting" /\ healthCheckerDone
    /\ shutdown' = "closing"
    /\ UNCHANGED <<healthy, isHostAlive, checkerVars, stopHealthChecker, closed,
                   statsVars, requestVars>>

\* Mutant: wait for the health checker without a limit.
ShutdownNoTimeout == ShutdownJoined

ShutdownTimeout ==
    /\ shutdown = "waiting"
    /\ shutdown' = "closing"
    /\ UNCHANGED <<healthy, isHostAlive, checkerVars, stopHealthChecker, closed,
                   statsVars, requestVars>>

ShutdownClose ==
    /\ shutdown = "closing"
    /\ closed' = closed \cup serversMap
    /\ shutdown' = "returned"
    /\ UNCHANGED <<healthy, isHostAlive, checkerVars, stopHealthChecker, statsVars,
                   requestVars>>

ShutdownCall ==
    ShutdownStop \/ ShutdownJoined \/ ShutdownTimeout \/ ShutdownClose

-----------------------------------------------------------------------------
(* A request around the choice: Serve loads the rotation, answers 503 when *)
(* it is empty, and otherwise proxies to the Backend it chose.             *)

\* Mutant: the length is not looked at.
LoadUnguarded(r, empty) ==
    /\ phase[r] = "idle"
    /\ phase' = [phase EXCEPT ![r] = "loaded"]
    /\ UNCHANGED <<healthy, isHostAlive, checkerVars, shutdownVars, statsVars, picked>>

Load(r, empty) ==
    /\ phase[r] = "idle"
    /\ phase' = [phase EXCEPT ![r] = IF empty THEN "refused" ELSE "loaded"]
    /\ UNCHANGED <<healthy, isHostAlive, checkerVars, shutdownVars, statsVars, picked>>

Pick(r, b) ==
    /\ phase[r] = "loaded"
    /\ phase' = [phase EXCEPT ![r] = "proxying"]
    /\ picked' = [picked EXCEPT ![r] = b]
    /\ UNCHANGED <<healthy, isHostAlive, checkerVars, shutdownVars, statsVars>>

\* ReverseProxyHandler, or NoAliveBackends, has written the response.
Respond(r) ==
    /\ phase[r] \in {"proxying", "refused"}
    /\ phase' = [phase EXCEPT ![r] = "idle"]
    /\ picked' = [picked EXCEPT ![r] = Nil]
    /\ UNCHANGED <<healthy, isHostAlive, checkerVars, shutdownVars, statsVars>>

-----------------------------------------------------------------------------
CheckerLocations ==
    {"select", "loop", "probe", "leave", "markDown", "rejoin", "append", "markUp",
     "returned"}

Rows == [proxy : Backends \cup {Nil}, isHostAlive : BOOLEAN]

BalancerTypeOK ==
    /\ healthy \in [Backends -> BOOLEAN]
    /\ isHostAlive \in [Backends -> BOOLEAN]
    /\ checker \in CheckerLocations
    /\ cur \in Backends
    /\ stopHealthChecker \in BOOLEAN
    /\ shutdown \in {"idle", "waiting", "closing", "returned"}
    /\ closed \subseteq Backends
    /\ scrape \in {"idle", "reading", "filled", "panicked"}
    /\ todo \subseteq Backends
    /\ DOMAIN stats \subseteq Nat
    /\ \A k \in DOMAIN stats : stats[k] \in Rows
    /\ phase \in [Requests -> {"idle", "loaded", "proxying", "refused"}]
    /\ picked \in [Requests -> Backends \cup {Nil}]

\* The health checker has changed the rotation and not yet the flag.
BetweenStores == checker \in {"markDown", "markUp"}

\* The probe outcome the health checker is acting on.
verdict ==
    CASE checker \in {"leave", "markDown"} -> <<cur, FALSE>>
      [] checker \in {"rejoin", "append", "markUp"} -> <<cur, TRUE>>
      [] OTHER -> <<>>

(* Stats answers with one row per configured Backend, in configuration     *)
(* order, whatever order the map is iterated in and whatever the health    *)
(* checker does meanwhile; no row is lost and no index is out of range.    *)
StatsComplete ==
    /\ scrape # "panicked"
    /\ scrape = "filled" =>
         /\ DOMAIN stats = 0 .. N - 1
         /\ \A b \in Backends : stats[b - 1].proxy = b

(* Every probe ends, as the timeouts of the probing HTTP client promise.   *)
ProbesEnd == []<>(checker # "probe")

(* If probes end, the health checker goroutine ends once Shutdown has      *)
(* asked it to: within the sweep it is in, whichever case select takes.    *)
StopEndsChecker == ProbesEnd => (stopHealthChecker ~> healthCheckerDone)

(* Shutdown returns every time it is called, even if a probe hangs.        *)
ShutdownReturns == (shutdown = "waiting") ~> (shutdown = "returned")

=============================================================================
