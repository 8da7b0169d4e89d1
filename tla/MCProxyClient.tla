--------------------------- MODULE MCProxyClient ---------------------------
(* An instance of ProxyClient for TLC, with what a request did noted down. *)
EXTENDS ProxyClient

VARIABLES
    ticket,     \* the value each request's own addition gave the counter
    wrote,      \* whether a middleware has written a response for the request
    unmeasured  \* requests that ended with an error

\* A client without special headers, and one that sends and nominates them all.
Clients ==
    {[fields |-> {"Content-Length", "other"}, nominates |-> {}],
     [fields |-> Names, nominates |-> Names \ {"hop"}]}

\* With a body, and empty.
Answers ==
    {[status |-> 200, body |-> "backend", hop |-> TRUE],
     [status |-> 200, body |-> "empty", hop |-> FALSE]}

HInit ==
    /\ NewProxyClient
    /\ ticket = [r \in Requests |-> 0]
    /\ wrote = [r \in Requests |-> FALSE]
    /\ unmeasured = 0

HNext ==
    /\ Next
    /\ ticket' = [r \in Requests |->
         CASE req'[r].incremental = 0 /\ req'[r].at # "preReq" -> 0
           [] req[r].at = "idle" /\ req'[r].at = "preReq" -> totalRequestCount'
           [] OTHER -> ticket[r]]
    /\ wrote' = [r \in Requests |->
         req'[r].at # "idle" /\ (wrote[r] \/ req'[r].res.body = "middleware")]
    /\ unmeasured' = unmeasured +
         Cardinality({r \in Requests : req[r].returned # "nil" /\ req'[r].at = "idle"})

HSpec == HInit /\ [][HNext]_<<vars, ticket, wrote, unmeasured>>

HFairSpec == HSpec /\ Fairness

(* The number in a $incremental header is never below the request's own    *)
(* number nor above the number of requests that have entered, so that a    *)
(* later request never gets a number an earlier, finished one had.         *)
IncrementalInRange ==
    \A r \in Requests : req[r].at \in {"onRequest", "sent"} =>
        ticket[r] <= req[r].incremental /\ req[r].incremental <= totalRequestCount

(* Every request is counted once: as measured if it succeeded, and in the  *)
(* total only if a middleware or the Backend failed it.                    *)
MeasuredAreSuccesses ==
    LET counted == {r \in Requests :
            /\ req[r].at \in {"load", "swap", "answered"}
            /\ req[r].returned = "nil" /\ req[r].serverErr = "nil"}
        open == {r \in Requests \ counted : req[r].at # "idle"}
    IN  totalRequestCount = measuredRequestCount + unmeasured + Cardinality(open)

(* README: an error of OnResponse is returned to the client as a 500 when  *)
(* the middleware wrote no response of its own.                            *)
MiddlewareErrorIs500 ==
    \A r \in Requests :
        req[r].at = "answered" /\ req[r].returned = "middleware" /\ ~ wrote[r] =>
            req[r].res.status = 500

=============================================================================
