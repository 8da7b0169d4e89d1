# Divisor: TLA+ models, checks and proofs

Divisor is a layer-7 HTTP load balancer written in Go.  A client request
reaches one listener (fasthttp for HTTP/1.1, net/http for HTTP/2), a *Balancer*
picks a *Backend*, and that Backend's *ProxyClient* forwards the request.  A
health checker goroutine probes every Backend and takes it out of, or back
into, the rotation while requests are being served.  This directory models the
Balancers, the ProxyClient, the two client-facing servers, the configuration,
the monitoring loop and the process around them, checks them with TLC and proves
most of the safety properties with TLAPS for every value of the constants.

## 1. Inventory

| Part | State | Operations | Hard because |
| --- | --- | --- | --- |
| Balancers (`core/*`: round-robin, w-round-robin, random, least-algorithm, ip-hash) | map of entries (proxy, liveness flag, stats index), rotation behind an atomic pointer, shared counter or cursor, stop/done channels | constructor, `Serve`/`next`, `healthChecker`/`healthCheck`, `Stats`, `Shutdown` | no locks: requests work on snapshots, the checker publishes a slice and a flag in two stores, Stats and Shutdown run beside both |
| Ring (`pkg/consistent`) | immutable snapshot: map of positions, sorted slice | `AddNode`, `RemoveNode`, `GetNode` | the two halves must agree; lookups must not depend on history; hash collisions |
| ProxyClient (`internal/proxy/proxy.go`) | request counter, lifetime total and count, moving average of response times, connection pool | `ReverseProxyHandler`, `Stat`, `ResetRecentResponseTime`, `Close` | late answers race the reset on rejoin; compare-and-swap loop; two counters read apart |
| net/http adapter (`internal/proxy/nethttp_adapter.go`) | none | `ServeHTTP`, request conversion | body limits on streamed and length-less bodies, clients that break off, framing of rewritten responses |
| Middleware (`pkg/middleware`) | list of interpreted middlewares | `NewExecutor`, `RunOnRequest`, `RunOnResponse` | early ends and panics inside the chain |
| Configuration (`pkg/config`) | the configuration | `PrepareConfig` and helpers | a check sees what earlier steps rewrote; zero and negative values mean something else to each consumer |
| Process life cycle (`main.go`, `internal/server`) | listener, signal channel, serve-error channel, shutdown goroutine | start, serve, graceful shutdown | signals during startup, a listener that dies, a time limit racing completion, open requests at shutdown |
| Monitoring (`internal/monitoring`) | gauges | periodic scrape, `/stats`, `/metrics` | runs beside everything; gauges keyed by address |
| Helpers, probe client (`pkg/helper`, `pkg/http`) | none | `RemoveByValue`, `IsClosed`, `HashFunc`, `IsHostAlive` | shared by all of the above |

How they interact: `main` prepares the configuration, builds the middlewares and
calls `NewBalancer`, whose constructor probes each Backend once, stores the
rotation and starts the health checker.  The listener calls `Serve` for each
request on its own goroutine; `Serve` calls `next`, then
`ReverseProxyHandler`, which feeds the figures the least algorithms read.
Monitoring calls `Stats` every five seconds and on demand.  On a signal `main`
shuts the listener down and then calls the Balancer's `Shutdown`.

What makes each correct: a request goes to a member of the rotation it saw and
is refused only if that was empty; rotation and reported liveness agree but for
the Backend between its two stores; every Backend keeps its share (one slot, its
weight, its virtual nodes) through any history; settled Backends end up where
they belong; Stats has one row per Backend; Shutdown returns; the least
algorithms pick what they promise up to what changed while they looked; only
configurations the parts can work with are served from; no oversized or partial
body passes for a complete one; a signal always ends the process, and a zero exit
code means that everything was drained.
`PROJECT.json` lists the hazards at their lines with the properties for them.

## 2. Modules

| Module | Models | State and actions |
| --- | --- | --- |
| `Helper` | `helper.RemoveByValue` | operators without recursion, so that they can be proved about |
| `Balancer` | what the five Balancers share line for line | entries (`EntryOf`, `serversMap`, `statsIdx`), the checker's program counter `checker`/`cur`, `Stats` row by row, `Shutdown` step by step, a request's `phase` |
| `SliceBalancer` | the rotation as a slice | `servers` (the atomic pointer), `snap` (what each request loaded), `Leave` |
| `RoundRobin`, `WRoundRobin`, `Random` | one file of `core/` each | the counter `i`, the copies by weight, the shuffle, `next`, `Rejoin` |
| `SliceBalancers` | `NewBalancer` for those three: `cfg.Type` decides which one the process runs | `type`, `BuildBalancer`, `BalancerStep` |
| `LeastAlgorithm` | `least-algorithm.go` and what it uses of `proxy.go` | `cursor`, the scan of each request one Backend at a time, `progress` in the handler, `recentResTime` |
| `ConsistentHash` | `pkg/consistent` | operators on snapshots, without constants, so that what is proved of them serves every user; and `Owner`, the reference they are checked against |
| `IPHash` | `ip-hash.go` | `ring` behind its pointer, `len`, each request's loaded ring and client hash |
| `ProxyClient` | `proxy.go` and the middleware chain of `executor.go` | the four counters, each request's place and locals in `ReverseProxyHandler` (`req`), the loads of `Stat`, the compare-and-swap loop load by load |
| `Monitoring` | the loop of `monitoring.go` and the gauges of `prometheus.go`, composed with RoundRobin | `backendAlive`, set when the Balancer's `Stats` returns its rows |
| `Config` | `config.go`, `NewExecutor` of `executor.go` | operators from the parsed to the prepared configuration; `Documented` and `Usable`, the references they are checked against |
| `Server` | `server.go`, `nethttp_adapter.go`, `ErrorHandler` of `proxy.go` | the listener, the goroutine that serves it, each request (`req`) from its arrival over what is forwarded to what is answered |
| `Divisor` | `main.go`, composed with Config and Server | main's program counter, the Balancer as up or closed, the signal channel, the shutdown goroutine `stopper`, the context's `expired`, the exit code |
| `Rotation` | the contract of `types.IBalancer`, abstractly | a set of Backends, the probe outcome being acted on, what each request saw and where it went |
| `MC*` | instances for TLC | constants, history variables, properties that need them |
| `BalancerProofs`, `SliceProofs` | proofs | lemmas on `RemoveByValue`, `Sorted`, `Search` and the ring's operators, on loops, and on each step the Balancers share; on each step of a slice |
| `SliceBalancersProofs`, `LeastProofs`, `RingProofs`, `IPHashProofs`, `ProxyClientProofs`, `DivisorProofs` | proofs | the theorems on the module each is named for; RoundRobin's are with `SliceBalancers` |

Conventions.  A Backend is its position 1..N in the configuration and stands for
its ProxyClient and ring Node too.  Every atomic load, store or addition of the
code that another goroutine can observe is a step of its own; code between two
of them that touches only local state is merged into the step.  The rotation is
stored before the flag, as in the code (`"leave"` then `"markDown"`, `"rejoin"`
then `"markUp"`; `"append"` exists only in LeastAlgorithm, between the reset of
the score and the store).  `healthy` is what `http.IsHostAlive` would answer; it
may change at any time.  `Hash` gives `hashFunc(Url + Itoa(i))`; it need not be
injective.  A panic of Stats (an index past the slice) stops the model, as it
stops the process.

Abstractions.  Log lines, the row's figures other than proxy and liveness, the
contents of requests and responses, and addresses are left out.  Response times
are natural numbers and the moving average is rounded down (the code has
floating point).  In LeastAlgorithm `storeRecentResTime` is the compare-and-swap
that succeeds; ProxyClient has the loop, and `SamplesBlend` is what justifies the
single step.
fasthttp's `PendingRequests` counts a request between the beginning and the end
of `Do`, as the code in `proxy.go` relies on, and `Do` starts its response afresh.
Server has a response by its status, the size of its body and the length stored in
it, and a request by the length its client declares, what it sends and what goes
wrong; the header and URI conversion of the adapter is left out.  What fasthttp and
net/http do around divisor's code is modelled as that code relies on it: fasthttp
reads a whole request, within its limit, before it calls the handler, and sets the
length of what it writes; net/http streams, answers headers that are too big
itself, and derives the length from the bytes written; both servers' Shutdown
closes the listener and waits for open requests until its context is done.  A
Shutdown that comes before the server's goroutine has called `Serve` finds no
listener: it has nothing to close, and fasthttp starts to serve all the same
(net/http notices); `CloseListener` and `ServeStarts` have this, and the
properties about drained requests are stated for a listener that was closed.
Config has url parts and file contents by class and leaves out the per-connection
limits and the monitoring address, which are filled in alike.  In Monitoring
`backend_alive` stands for the four gauges of a Backend, and the figures of the
process may or may not be had.
ProxyClient has header names by class (listed in `hopHeaders`, connection option,
Content-Length, set by divisor, any other) and responses by status, whose text the
body is, and whether hop-by-hop headers are left in them.  Its numbers do not wrap:
they are 64 bits wide.

## 3. Runs

| Run | Shows |
| --- | --- |
| `slices` | Round-robin, weighted round-robin and random in one run: `SharesKept`, one slot or weight slots each through every history and shuffle; `SweepHonoursShares`, whole sweeps of the counter give each Backend exactly its share; `TurnsShared`, in between no round-robin Backend got more than one turn more than another, plus one for each draw with an older slice and each wrap. `ImplementsRotation`. |
| `rr_live` | Three Backends, two of which change at any time, the monitoring loop and Shutdown: `FlagMatchesRotation`, `NoDuplicateServer`, `StatsComplete`; and the liveness `StopEndsChecker`, `ShutdownReturns`, `SettledArePlaced`, `GaugesFollow`. |
| `ring` | All placements of two virtual nodes each for three Nodes in seven positions, collisions included, and all histories: `RingConsistent`; without collisions also `LookupIsClockwise` and `OnlyItsClientsMove`. |
| `iphash` | `FlagMatchesRing`, `ClientsStick`, `ImplementsRotation`. |
| `least` | Both least algorithms: `LeastLoadedUpToDrift`; `UnmeasuredOrFastest`, `FailingNotPreferred`; `ImplementsRotation`. |
| `lc_turns` | `TiesTakeTurns`. |
| `proxy` | Two requests in one handler, two middlewares that write, fail or panic, Stat and resets: `AverageNotDiluted`, `SamplesBlend`, `MeasuredAreSuccesses` on the counters; `ForwardedHeaders`, `IncrementalInRange` on what the Backend gets; `ErrorsReachClient` on what the client gets; `RequestEnds`. |
| `divisor` | The process over some fifty configuration files, on both servers, with two clients of which one may send anything, signals at any moment and a listener that may die. Startup: `RefusesUndocumented` (exactly the files the rules exclude are refused), `ServesOnlyUsable`. Requests: `BodyLimitHolds`, `WholeBodies`, `AnswersFramed`. The end: `ExitCodeTells`, `BalancerOutlivesRequests`, `SignalEndsProcess`, `DeadListenerEndsProcess`. |
| `rr_collision`, `lrt_rejoin`, `lrt_slow`, `proxy_mwerror` | expected violations, section 4. |

The type invariant is a property of `slices` and `proxy`; in the other modules
`TypeOK` documents the variables and is what the proofs start from.

`ImplementsRotation` is the refinement: `rotation` is the set of Backends in the
slice or on the ring, `alive` the flags, `seen` the members of what a request
loaded, `target` the Backend picked, `verdict` the probe outcome read off the
checker's program counter.

Bounds.  `N` is 2 or 3 Backends: two let the rotation become empty and refill
while another Backend moves, three have a middle element and a choice among the
remaining ones.  Two requests give every overlap of a load, a draw and an
answer; they are symmetric.  `Flaky` names the Backends whose health changes,
`Calls` the calls the environment makes.  `CounterMod` stands for 2^64; in
`slices` it is 7, no multiple of 2 or 3, so that the break in the sequence at a
wrap, which the code has for every length that does not divide 2^64, occurs.
`MaxSweeps` bounds only the draws counted since a slice was stored.  In `slices`
and `iphash` `CallsApart` keeps Stats and Shutdown from interleaving with
requests, with which they share no state; beside the health checker they run
freely, as in `rr_live`.  In `proxy` a behaviour has two requests: enough for
any pair of recordings, a reset and a reader to overlap; two middlewares have an
order, and one is skipped when the other ends the chain.  In `least` the
samples 1, 2 and a penalty of 7 reproduce the order fast < slow < failed and the
mixtures of it; with scores to keep apart, the Backends in `Steady` stay up (one
that leaves and rejoins beside one that stays has every order of reset, record and
scan), without them both are flaky, and `ScoresWhereRead` lets TLC forget the
scores there, which the least-connection scan never reads.  In `rr_live` the first
and the last of three Backends are flaky, so that the slice loses its head, its
tail or both around one that stays.  In `divisor` each file of `Files` differs from
a plain one in one respect, or in the few that interact (weights and number of
Backends; version, certificate and key; middlewares over HTTP/2); the body limit is
1, and `Sends` has bodies below, at and above it, declared or not, cut or stalled;
the second client's plain request gives the shutdown something else to wait for.

Fairness.  `FairSpec` lets the health checker go on unless it is in a probe, and
a Shutdown that has been called go on; both are what the Go scheduler and the
ticker give.  Nothing makes the environment call Shutdown, and nothing makes a
probe end: the properties that need it assume `ProbesEnd`, which the timeouts in
`pkg/http` justify, and `ShutdownReturns` does without.  `TSpec` lets clients
keep sending requests and lets each run to its end.  In `proxy` the handler goes
on by itself outside `Do`, and `Do` ends when a proxy timeout is configured, as
fasthttp promises.  Its retries are bounded there because the requests are: with
endless traffic the compare-and-swap loop guarantees that some request gets
through, not each.  `MonitoringSpec` adds the loop that calls Stats; that the
figures of the process can be had again and again is the hypothesis
`ScrapesSucceed` of `GaugesFollow`.  In `divisor` main and the shutdown goroutine
go on when they can and the timer expires, as scheduler and clock give; nothing
makes a client send the rest of its request, a Backend answer or the server's
goroutine start.  Deadlock is checked in every run.

## 4. What the code does differently from what it says

* `rr_collision`: two Backends may have the same key in `serversMap`
  (`"h:8"` as number 10 and `"h:81"` as number 0 are both `"h:810"`; or the
  checksums are equal).  They then share flag and row, and Stats loses a row or
  indexes past its slice.  The proofs that need distinct keys assume them.
* `lrt_rejoin`: an answer to a request from before the Backend went down may be
  recorded between the reset of its score and its return to the rotation: it
  does not always start unmeasured.
* `lrt_slow`: a score changes only with new samples, so one slow response can
  keep traffic from an otherwise fastest Backend for good.
* `proxy_mwerror`: `middlewareError` keeps every response but the empty 200, and
  after a successful exchange the response is the Backend's; an `OnResponse` error
  is then not visible to the client, where the repository's README promises a 500.
* The repository's README says at line 178 that an invalid `type` "defaults to
  `round-robin`"; `PrepareConfig` refuses it (`config.go:166`), as its test expects.
  `Documented` follows the code and the table of types here, and
  `RefusesUndocumented` holds with it.
* Known limits that no document rules out, and that the models show: the 30 s of the
  graceful shutdown are shorter than the default proxy timeout of 60 s, so one
  hanging Backend can make it fail; a client that breaks off a streamed body makes
  `Do` fail and is recorded as a failure of the Backend; Backends with the same
  address share their gauges; only one of `cert_file` and `key_file` means plain HTTP.
* The ring has the same exposure as `serversMap`: with colliding virtual nodes
  `RemoveNode` drops a position that another Node owns.  `RingConsistent` holds
  nevertheless; the other ring properties are stated for disjoint placements.

## 5. Proofs

The theorems hold for every number of Backends, requests, middlewares and virtual
nodes, for every set of configuration files, and for every value of the constants
the runs bound (`Flaky`, `Calls`, `CounterMod`, `MaxRequests`, ...).  Where a
property reads history variables of an MC module the theorem is about that module's
`HSpec`, with its bounds as arbitrary constants too, and for `MCSliceBalancers` about
`HistorySpec`, which is `HSpec` without its bounds.

| Module | Theorem | Property |
| --- | --- | --- |
| `BalancerProofs` | `RemoveByValueProperties` | what the removal returns, for slices of any length |
| `SliceBalancersProofs` | of RoundRobin: `TypeCorrect`, `FlagsFollowRotation`, `OneSlotEach`, `StatsInOrder` | `TypeOK`, `FlagMatchesRotation`, `NoDuplicateServer`, `StatsComplete` |
| | `RoundRobinIsRotation` | `ImplementsRotation` |
| | of the three: `SlicesTypeCorrect`, `SharesHold`, `SlicesFlagsAndStats` | `TypeOK`, `SharesKept`, `FlagMatchesRotation` and `StatsComplete` |
| | `SlicesAreRotations` | `ImplementsRotation` |
| | `TurnsAreShared`, `SweepsAreFair` | `TurnsShared`, `SweepHonoursShares` |
| `IPHashProofs` | `IPHashTypeCorrect`, `RingFollowsFlags`, `IPHashStatsInOrder` | `TypeOK`, `FlagMatchesRing`, `StatsComplete` |
| | `ClientsStay`, `IPHashIsRotation` | `ClientsStick`, `ImplementsRotation` |
| `LeastProofs` | `LeastTypeCorrect`, `LeastIsRotation` | `TypeOK`, `ImplementsRotation` |
| | `ScoreScanSound`, `ConnectionScanSound`, `FailuresRepel` | `UnmeasuredOrFastest`, `LeastLoadedUpToDrift`, `FailingNotPreferred` |
| `RingProofs` | `RingStaysConsistent`, `LookupCorrect`, `OthersKeepTheirClients` | `RingConsistent`, `LookupIsClockwise`, `OnlyItsClientsMove` |
| `ProxyClientProofs` | `ProxyTypeCorrect`, `HeadersForwarded`, `ErrorsTold` | `TypeOK`, `ForwardedHeaders`, `ErrorsReachClient` |
| | `BlendsLatest`, `AverageSound`, `IncrementalSound`, `AllAccounted` | `SamplesBlend`, `AverageNotDiluted`, `IncrementalInRange`, `MeasuredAreSuccesses` |
| `DivisorProofs` | `DivisorTypeCorrect`, `RefusesExactly`, `ServesUsable` | `TypeOK`, `RefusesUndocumented`, `ServesOnlyUsable` |
| | `BodyLimit`, `BodiesWhole`, `Framing` | `BodyLimitHolds`, `WholeBodies`, `AnswersFramed` |
| | `ExitCode`, `BalancerLast` | `ExitCodeTells`, `BalancerOutlivesRequests` |

Along which argument, and what each inductive invariant adds to the property:

* *Slices.*  `RemoveByValueProperties` rests on `SubsequenceAtPositions`: the k-th
  kept position is unique (`RankIncreasing`) and exists (`RankOnto`, an injection
  between finite sets of the same size being onto).
* *Slice Balancers.*  What differs between the three is a Backend's share of the slots
  and how a position is chosen.  `Moves(share)` is a step of a slice Balancer with any
  shares that picks any position of the loaded slice; the invariants are shown to
  survive it once, and each `Next` to be such a step (`RoundRobinMoves`,
  `WRoundRobinMoves`, `RandomMoves`).  The type invariant needs `LoadedNotEmpty`: a
  request that goes on to draw has loaded a slice with something in it, without which
  the index `Draw % Len` has no type.  `SharesKept` and `FlagMatchesRotation` are not
  inductive: `ActsOnVerdict` is added (while the checker acts on a probe the flag still
  says the opposite), from which the Backend to append is known to be outside the slice
  and the one to remove inside; the rest is counting, of the copies in a slice, in what
  `RemoveByValue` keeps, in a concatenation, and under a shuffle, which is a bijection
  of positions.  With `StatsInv`, the rows a scrape has visited, these make each step
  one of Rotation or a stutter.
* *Turns.*  `HistoryStep` says what a step can do to counter, slice and history: store a
  slice, draw the next number from the current one, wrap, or draw for an older slice.
  `TurnsShared` alone says nothing of who is ahead, so `TurnsInv` says that seen from
  the next draw, the Backends whose turns come last are those that had theirs in this
  sweep: without that one turn, all differ by the strays at most (`Balanced`).  A stray
  moves the sweep's start to any slot at the price of one stray.  `SweepInv` has d draws
  as q sweeps and r turns (`Swept`): q times its slots for each Backend, and one more
  for each of its slots among the last r (`Had`, a cardinality, so that no induction
  over sweeps is needed).
* *IP-hash.*  Every ring, stored or loaded, is a `Snapshot`: its halves agree, and each
  position is a virtual node of its Backend; so every lookup finds a Backend, collisions
  or not.  `len` is the number of flags set only because the checker's verdict differs
  from the flag of the entry it read (`VerdictOnEntry`, which unlike `ActsOnVerdict`
  holds with colliding keys too).  Without collisions no Backend loses a position
  (`Whole`), and the lookup lemma the ring's theorems use makes the answer a function of
  the Backends and the client's hash, which is `ClientsStick`.
* *Constructors.*  What `ringUpTo` and `copiesUpTo` build from any number of Backends is
  shown with `SetInduction`, a least counterexample in a finite interval, and the
  functions exist by `LoopExists`.
* *Least algorithms.*  Each step of a scan starts, advances or ends it (`Starts`,
  `Advances`, `Chooses`); `Scanning` keeps it inside the slice that was loaded, with
  the best so far a member, whatever the checker stores meanwhile.  `ScoresRead`: in
  an undisturbed scan the score held is still its Backend's and the least of those
  visited, none of them 0.  `Drifted` has three inequalities where the property has
  one, because the scan compares a figure it read earlier with one it reads now: the
  figure held against what its Backend has now, against what each visited one has
  now, and those two against each other; the last does not follow from the others
  within one drift.  `OutcomesTell`: a score blended from failures alone exceeds every
  possible response time, one blended from successes alone does not.
* *Ring.*  `Sorted` is shown to be an ascending permutation by counting, `Search` to
  find the first position not below the hash, and both operations to keep map and
  slice in step.  `RingInv` adds that a position's owner has a virtual node there,
  and that without collisions the positions are all those of the members.
* *ProxyClient.*  `Handlers` says of each place in the handler what its locals are
  worth (what was forwarded is right while it is sent, what an error left in the
  response once answered); every step of the handler changes one request's locals
  (`Moves`).  `AverageNotDiluted` needs `Undiluted`: the total pays for every request
  that is counted or about to be, and between the two loads of Stat it pays for the
  count already loaded.  `Accounts` counts the requests in the handler, `Tickets`
  follows a request's number from its addition to its header.
* *Divisor.*  `Types`, `Stages` (what each step of main can rely on: the
  configuration is usable from `"executor"` on, nothing is served before `"select"`),
  `Stopping` (a closed listener admits nobody; the shutdown goroutine is past
  `"drain"` only with no request open or the limit expired) and `Exchanges` (what may
  be true of a request read, forwarded and answered, given the limit).  That
  `PrepareConfig` and the rules of the repository's README agree (`RefusesExactly`) is
  proved for every configuration in `Configs`, check by check.

Assumptions.  On the constants: `BalancerAssumption`, `CounterAssumption`,
`WRoundRobinAssumption` (weights and the counter's size are positive), `TypesAssumption`,
`LeastAlgorithmAssumption` (finitely many requests are open at once), `RingAssumption`
and `IPHashAssumption` (hashes are numbers, a Node has a virtual node), `ProxyClientAssumption` (times are
positive, and there is one), `ConfigAssumption`, `DivisorAssumption` (a file decodes
to a record of the shape of `config.Config`; any strings and numbers in it) and
`DefaultsAreStrings` (which is true of any strings, and which the provers do not know).
In theorems: `IsInjective(Hash)` where keys must be distinct (`rr_collision` shows that
it cannot be dropped from a claim about Stats), and in `FailuresRepel` that every
penalty exceeds every response time, as `failureResponseTimePenalty` does unless a
success takes longer than it.  The ring's theorems on lookups are for disjoint
virtual nodes, as the properties say, and IPHash's on ring, lookups and contract for
`NoCollisions`, the same for its constants: with a collision `RemoveNode` drops another
Node's position (section 4).  Those on turns and sweeps assume `CounterMod > 1`: a
counter of one number draws the same slot for ever without a wrap that shows, and the
code's has 2^64 of them.

What the proofs changed in the models: `Server!ReadAll` had a CASE with overlapping
guards, whose value TLC picked and no prover could know, and is now a sequence of tests
as in the code; the sets of configurations are written out; the operators of
ConsistentHash take the virtual nodes' hashes as a parameter; the loops of the
constructors are named functions (`ringUpTo`, `copiesUpTo`); all draws are counted by a
history variable of their own, `draws`, rather than as a sum over Backends.  No property
turned out to be false.

Only model-checked.  Liveness under fairness (`StopEndsChecker`, `ShutdownReturns`,
`SettledArePlaced`, `GaugesFollow`, `TiesTakeTurns`, `RequestEnds`, `SignalEndsProcess`,
`DeadListenerEndsProcess`) is out of the prover's reach.  Every other property of a
passing run is a theorem.

## 6. Plan

The model covers the parts of the system that carry its logic, and what the runs check
of safety is proved.  Left for whoever extends it: the gauges of Monitoring have only a
liveness property, and no document says what a gauge must not show; the proxy handler
and a Balancer are composed in LeastAlgorithm alone, as far as its choice depends on it.

## 7. Not modelled

The dashboard page, logging, the generated symbol table, mocks, benchmarks and
test servers: no logic of the program.  The HTTP exchanges, the connection pools
and `Close` (fasthttp), the interpreter behind `NewExecutor` (yaegi), the figures of
the process (gopsutil) and the pages of the monitoring server: libraries and I/O.
The adapter's conversion of method, URI, headers and remote address: a copy between
two libraries' types without state.  The probe's own connection handling in
`pkg/http`: its answer is `healthy`, its duration is unbounded here.
