-------------------------- MODULE MCLeastAlgorithm --------------------------
(* Instances of LeastAlgorithm for TLC, and what happens during each scan. *)
EXTENDS LeastAlgorithm, TLC

CONSTANT Steady     \* bound: Backends that stay up in a least-response-time pool

VARIABLES
    drift,      \* least-connection: pending counts changed since each request
                \* loaded the slice, counted up to the number of requests
    stirred,    \* least-response-time: whether a score changed since
    outcomes    \* the same: how requests to each Backend ended since its reset

DistinctKeys == [b \in Backends |-> b]
RequestSymmetry == Permutations(Requests)

history == <<drift, stirred, outcomes>>

ByScore == nextFunc = "least-response-time"

\* Bound: with scores to keep apart, these Backends stay up.
OneFlakyByScore == ByScore => \A b \in Steady : healthy[b]

HInit ==
    /\ NewLeastAlgorithm
    /\ OneFlakyByScore /\ (ByScore => \A b \in Steady : isHostAlive[b])
    /\ drift = [r \in Requests |-> 0]
    /\ stirred = [r \in Requests |-> FALSE]
    /\ outcomes = [b \in Backends |-> {}]

SentOrDone == \E b \in Backends : PendingRequests(b)' # PendingRequests(b)

Choosing(r) == phase[r] = "loaded" /\ phase'[r] = "loaded"

\* How a request to Backend b ends in this step, if one does.
Ended(b) ==
    {progress[r] : r \in {q \in Requests :
        picked[q] = b /\ progress[q] \in {"ok", "failed"} /\ progress'[q] = "start"}}

HNext ==
    /\ Next /\ OneFlakyByScore'
    /\ drift' = [r \in Requests |->
         IF ByScore \/ ~ Choosing(r) THEN 0
         ELSE IF SentOrDone /\ drift[r] < Cardinality(Requests) THEN drift[r] + 1
         ELSE drift[r]]
    /\ stirred' = [r \in Requests |->
         ByScore /\ Choosing(r) /\ (stirred[r] \/ recentResTime' # recentResTime)]
    /\ outcomes' = [b \in Backends |->
         IF ~ ByScore \/ recentResTime'[b] = 0 THEN {} ELSE outcomes[b] \cup Ended(b)]

HSpec == HInit /\ [][HNext]_<<vars, history>>

\* The least-connection scan does not look at scores: states that differ in
\* nothing else are one state to TLC.
ScoresWhereRead ==
    <<balancerVars, sliceVars, cursor, scan, progress, nextFunc, history,
      IF ByScore THEN recentResTime ELSE <<>> >>

Returns(r) == phase[r] = "loaded" /\ phase'[r] = "proxying"

(* The Backend a least-connection scan returns has at that moment no more  *)
(* pending requests than any other of the slice, up to one for each        *)
(* request that was sent or answered while the scan went on.               *)
LeastLoadedUpToDrift ==
    [][\A r \in Requests : ~ ByScore /\ Returns(r) =>
         \A b \in Range(snap[r]) :
            PendingRequests(picked'[r]) <= PendingRequests(b) + drift[r]]_vars

(* A least-response-time scan during which no score changed returns an     *)
(* unmeasured Backend if there is one, and one of the fastest otherwise.   *)
UnmeasuredOrFastest ==
    [][\A r \in Requests : ByScore /\ Returns(r) /\ ~ stirred[r] =>
         LET score == recentResTime[picked'[r]] IN
         score = 0 \/ \A b \in Range(snap[r]) : score <= recentResTime[b] /\ recentResTime[b] # 0]_vars

(* Nor does it return a Backend that has only failed since it was reset    *)
(* while one that has only succeeded is in the slice.                      *)
FailingNotPreferred ==
    [][\A r \in Requests :
         Returns(r) /\ ~ stirred[r] /\ outcomes[picked'[r]] = {"failed"} =>
            \A b \in Range(snap[r]) : outcomes[b] # {"ok"}]_<<vars, history>>

(* A Backend enters the rotation without a score from before it went down. *)
RejoinsUnmeasured ==
    [][\A b \in Backends : b \notin rotation /\ b \in rotation' =>
         recentResTime'[b] = 0]_vars

=============================================================================
