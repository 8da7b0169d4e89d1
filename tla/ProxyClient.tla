---------------------------- MODULE ProxyClient ----------------------------
(***************************************************************************)
(* internal/proxy/proxy.go, and of pkg/middleware/executor.go the chain it *)
(* calls: one Backend's ProxyClient, its four counters, and the requests   *)
(* that are in its handler at the same time.  Each atomic operation on a   *)
(* counter is a step, and so is each call of a middleware, because other   *)
(* requests, Stat and the health checker's reset run in between.           *)
(***************************************************************************)
EXTENDS Naturals, FiniteSets

CONSTANTS
    Requests,           \* the goroutines that call the handler
    Middlewares,        \* number of middlewares; 0 when there is no executor
    ProxyTimeout,       \* whether proxy_timeout is above zero
    ClientHeaders,      \* bound: the headers client requests arrive with
    BackendAnswers,     \* bound: the responses of the Backend
    Elapsed,            \* bound: times a request takes
    Penalty,            \* failureResponseTimePenalty
    MaxRequests         \* bound: requests handled in a behaviour

(* Header names by what the code does with them: "hop" stands for each     *)
(* entry of hopHeaders, "option" for a connection option, "other" for a    *)
(* name the code does not mention.  A message has fields, and its          *)
(* Connection header nominates some names.                                 *)
Names == {"hop", "option", "Content-Length", "Host", "X-Forwarded-For", "custom", "other"}
Own == {"Host", "X-Forwarded-For", "custom"}
Statuses == {200, 403, 500, 502, 504}
Bodies == {"empty", "backend", "middleware", "message"}
Responses == [status : Statuses, hop : BOOLEAN, body : Bodies]

ASSUME ProxyClientAssumption ==
    /\ Middlewares \in Nat
    /\ ProxyTimeout \in BOOLEAN
    /\ ClientHeaders \subseteq [fields : SUBSET Names, nominates : SUBSET Names]
    /\ BackendAnswers \subseteq Responses
    /\ Elapsed \subseteq Nat \ {0} /\ Elapsed # {}
    /\ Penalty \in Nat \ {0}
    /\ MaxRequests \in Nat

VARIABLES
    totalRequestCount,      \* requests that entered the handler
    totalResTime,           \* time of all measured requests
    measuredRequestCount,   \* requests whose time is in totalResTime
    recentResTime,          \* the moving average, 0 while unmeasured
    req,                    \* each request's place in the handler and its locals
    stat                    \* the caller of Stat and what it has loaded

lifetime == <<totalResTime, measuredRequestCount>>
counters == <<totalRequestCount, lifetime, recentResTime>>
vars == <<counters, req, stat>>

Fresh == [status |-> 200, body |-> "empty", hop |-> FALSE]   \* a pooled response

\* mw is the middleware to run next, micros the time being recorded, current what
\* storeRecentResTime loaded, returned the error the handler returned.
Idle ==
    [at |-> "idle", header |-> [fields |-> {}, nominates |-> {}], own |-> {},
     incremental |-> 0, mw |-> 0, res |-> Fresh, serverErr |-> "nil", micros |-> 0,
     current |-> 0, returned |-> "nil"]

NoStat == [at |-> "idle", rc |-> 0, measured |-> 0, total |-> 0]

NewProxyClient ==
    /\ totalRequestCount = 0 /\ totalResTime = 0
    /\ measuredRequestCount = 0 /\ recentResTime = 0
    /\ req = [r \in Requests |-> Idle]
    /\ stat = NoStat

Set(r, locals) == req' = [req EXCEPT ![r] = locals]

-----------------------------------------------------------------------------
(* Before the request is sent.                                             *)

Enter(r) ==
    /\ req[r].at = "idle" /\ totalRequestCount < MaxRequests
    /\ totalRequestCount' = totalRequestCount + 1
    /\ \E h \in ClientHeaders : Set(r, [Idle EXCEPT !.at = "preReq", !.header = h])
    /\ UNCHANGED <<lifetime, recentResTime, stat>>

connectionOptions == {"option", "Content-Length"}

delConnectionNominated(q) ==
    LET gone == q.header.nominates \ connectionOptions
    IN  [q EXCEPT !.header.fields = @ \ gone, !.own = @ \ gone]

delHopHeaders(q) == [q EXCEPT !.header.fields = @ \ {"hop"}, !.header.nominates = {}]

\* Host, X-Forwarded-For and the custom headers are divisor's own.
setOwnHeaders(q) == [q EXCEPT !.header.fields = @ \cup Own, !.own = Own]

\* Mutant: the nominated headers go last.
preReqNominatedLast(q) == delHopHeaders(delConnectionNominated(setOwnHeaders(q)))

preReq(q) == setOwnHeaders(delHopHeaders(delConnectionNominated(q)))

\* Mutant: numbers from zero.
setIncrementalFromZero(q) == [q EXCEPT !.incremental = totalRequestCount - 1]

\* $incremental loads the counter, some time after this request added to it.
setIncremental(q) == [q EXCEPT !.incremental = totalRequestCount]

PreReq(r) ==
    /\ req[r].at = "preReq"
    /\ Set(r, [setIncremental(preReq(req[r])) EXCEPT !.at = "onRequest", !.mw = 1])
    /\ UNCHANGED <<counters, stat>>

-----------------------------------------------------------------------------
(* Middlewares.  One may write a response of its own, and may return nil   *)
(* or an error, or panic.                                                  *)

MiddlewareWrites(resp) ==
    {resp, [resp EXCEPT !.status = 403, !.body = "middleware"]}

\* A panic is recovered and becomes an error.
runProtected(result) == IF result = "nil" THEN "nil" ELSE "middleware"

postRes(resp) == [resp EXCEPT !.hop = FALSE]

\* Mutant: the response is left as it is.
middlewareErrorSilent(resp) == resp

\* A response that something was written to is kept.
middlewareError(resp) ==
    IF resp.status # 200 \/ resp.body # "empty" THEN resp
    ELSE [resp EXCEPT !.status = 500, !.body = "message"]

Answered(q, resp, err) == [q EXCEPT !.at = "answered", !.res = resp, !.returned = err]

CallMiddleware(r) ==
    \E resp \in MiddlewareWrites(req[r].res), result \in {"nil", "error", "panic"} :
        Set(r, IF runProtected(result) = "nil"
               THEN [req[r] EXCEPT !.res = resp, !.mw = @ + 1]
               ELSE Answered(req[r], middlewareError(postRes(resp)), "middleware"))

\* Mutant: one call too many.
RunOnPastEnd(r, chain) ==
    /\ req[r].at = chain /\ req[r].mw <= Middlewares + 1
    /\ CallMiddleware(r)
    /\ UNCHANGED <<counters, stat>>

\* The next call of a chain; an error ends the chain and the request.
RunOn(r, chain) ==
    /\ req[r].at = chain /\ req[r].mw <= Middlewares
    /\ CallMiddleware(r)
    /\ UNCHANGED <<counters, stat>>

RunOnRequest(r) == RunOn(r, "onRequest")

RunOnResponse(r) == RunOn(r, "onResponse")

ChainDone(r, chain) == req[r].at = chain /\ req[r].mw > Middlewares

-----------------------------------------------------------------------------
(* The exchange with the Backend, fasthttp's Do.  The request's headers    *)
(* are of no use after it, and its response starts afresh.                 *)

DoStart(r) ==
    /\ ChainDone(r, "onRequest")
    /\ Set(r, [req[r] EXCEPT !.at = "sent"])
    /\ UNCHANGED <<counters, stat>>

\* recordFailure: at least the penalty; a timeout keeps its larger time.
recordFailure(elapsed) == IF elapsed < Penalty THEN Penalty ELSE elapsed

Do(r) ==
    /\ req[r].at = "sent"
    /\ \/ \E resp \in BackendAnswers :
            Set(r, [Idle EXCEPT !.at = "onResponse", !.mw = 1, !.res = resp])
       \/ \E err \in {"timeout", "refused"}, elapsed \in Elapsed :
            /\ err = "timeout" => ProxyTimeout
            /\ Set(r, [Idle EXCEPT !.at = "load", !.serverErr = err,
                                   !.micros = recordFailure(elapsed)])
    /\ UNCHANGED <<counters, stat>>

serverError(resp, err) ==
    [resp EXCEPT !.status = IF err = "timeout" THEN 504 ELSE 502, !.body = "message"]

\* Mutant: the time is recorded on the way out after an error too.
FinishRecordsAll(r) ==
    /\ ChainDone(r, "onResponse")
    /\ \E elapsed \in Elapsed :
         Set(r, [req[r] EXCEPT !.at = "addTotal", !.micros = elapsed, !.res = postRes(@),
                   !.returned = IF req[r].serverErr = "nil" THEN "nil" ELSE "server",
                   !.serverErr = "nil"])
    /\ UNCHANGED <<counters, stat>>

Finish(r) ==
    /\ ChainDone(r, "onResponse")
    /\ \/ /\ req[r].serverErr # "nil"
          /\ Set(r, Answered(req[r], serverError(postRes(req[r].res), req[r].serverErr),
                             "server"))
       \/ /\ req[r].serverErr = "nil"
          /\ \E elapsed \in Elapsed :
               Set(r, [req[r] EXCEPT !.at = "addTotal", !.micros = elapsed,
                                     !.res = postRes(@)])
    /\ UNCHANGED <<counters, stat>>

-----------------------------------------------------------------------------
(* Recording.                                                              *)

AddTime(r, from, to) ==
    /\ req[r].at = from
    /\ totalResTime' = totalResTime + req[r].micros
    /\ Set(r, [req[r] EXCEPT !.at = to])
    /\ UNCHANGED measuredRequestCount

AddCount(r, from, to) ==
    /\ req[r].at = from
    /\ measuredRequestCount' = measuredRequestCount + 1
    /\ Set(r, [req[r] EXCEPT !.at = to])
    /\ UNCHANGED totalResTime

\* Mutant: the count goes before the time.
recordCountFirst(r) ==
    /\ AddCount(r, "addTotal", "addCount") \/ AddTime(r, "addCount", "load")
    /\ UNCHANGED <<totalRequestCount, recentResTime, stat>>

\* Two additions, then storeRecentResTime.
recordResponseTime(r) ==
    /\ AddTime(r, "addTotal", "addCount") \/ AddCount(r, "addCount", "load")
    /\ UNCHANGED <<totalRequestCount, recentResTime, stat>>

\* responseTimeSmoothing is one fifth; rounded down.
Smoothed(old, sample) == IF old = 0 THEN sample ELSE (sample + 4 * old) \div 5

LoadRecent(r) ==
    /\ req[r].at = "load"
    /\ Set(r, [req[r] EXCEPT !.at = "swap", !.current = recentResTime])
    /\ UNCHANGED <<counters, stat>>

\* The swap is made; recordFailure was called before the chain, recordResponseTime
\* at the end.
Swap(r) ==
    /\ req[r].at = "swap"
    /\ recentResTime' = Smoothed(req[r].current, req[r].micros)
    /\ Set(r, [req[r] EXCEPT !.micros = 0, !.current = 0, !.mw = 1,
                 !.at = IF req[r].serverErr # "nil" THEN "onResponse" ELSE "answered"])
    /\ UNCHANGED <<totalRequestCount, lifetime, stat>>

Retry(r) ==
    /\ req[r].at = "swap" /\ req[r].current # recentResTime
    /\ Set(r, [req[r] EXCEPT !.at = "load", !.current = 0])
    /\ UNCHANGED <<counters, stat>>

\* Mutant: a plain store.
CompareAndSwapBlind(r) == Swap(r)

\* Mutant: the loop tries again with the value it has.
CompareAndSwapStale(r) == req[r].current = recentResTime /\ Swap(r)

CompareAndSwap(r) == (req[r].current = recentResTime /\ Swap(r)) \/ Retry(r)

storeRecentResTime(r) == LoadRecent(r) \/ CompareAndSwap(r)

\* The handler has returned; the goroutine is free for another request.
Return(r) == req[r].at = "answered" /\ Set(r, Idle) /\ UNCHANGED <<counters, stat>>

-----------------------------------------------------------------------------
\* What the handler does by itself, once it is called and while it is not in Do.
HandlerGoesOn(r) ==
    \/ PreReq(r) \/ RunOnRequest(r) \/ DoStart(r) \/ RunOnResponse(r) \/ Finish(r)
    \/ recordResponseTime(r) \/ storeRecentResTime(r) \/ Return(r)

ReverseProxyHandler(r) == Enter(r) \/ HandlerGoesOn(r) \/ Do(r)

\* The health checker of least-algorithm, before the Backend rejoins.
ResetRecentResponseTime ==
    recentResTime' = 0 /\ UNCHANGED <<totalRequestCount, lifetime, req, stat>>

\* AvgResponseTime loads the two parts of the average, unless the first is 0.
AvgResponseTime ==
    \/ /\ stat.at = "average"
       /\ stat' = [stat EXCEPT !.measured = measuredRequestCount,
             !.at = IF measuredRequestCount = 0 THEN "filled" ELSE "total"]
    \/ /\ stat.at = "total"
       /\ stat' = [stat EXCEPT !.at = "filled", !.total = totalResTime]

Stat ==
    /\ \/ /\ stat.at = "idle"
          /\ stat' = [stat EXCEPT !.at = "average", !.rc = totalRequestCount]
       \/ AvgResponseTime
       \/ stat.at = "filled" /\ stat' = NoStat
    /\ UNCHANGED <<counters, req>>

Next ==
    \/ \E r \in Requests : ReverseProxyHandler(r)
    \/ ResetRecentResponseTime
    \/ Stat

Spec == NewProxyClient /\ [][Next]_vars

(* Goroutines run; a Do ends when it has a time limit.                     *)
Fairness ==
    \A r \in Requests :
        /\ WF_vars(HandlerGoesOn(r))
        /\ ProxyTimeout => WF_vars(Do(r))

-----------------------------------------------------------------------------
Places == {"idle", "preReq", "onRequest", "sent", "onResponse", "load", "swap",
           "addTotal", "addCount", "answered"}

TypeOK ==
    /\ totalRequestCount \in 0 .. MaxRequests
    /\ totalResTime \in Nat /\ measuredRequestCount \in Nat /\ recentResTime \in Nat
    /\ DOMAIN req = Requests
    /\ \A r \in Requests :
         req[r] \in [at : Places, own : SUBSET Names,
                     header : [fields : SUBSET Names, nominates : SUBSET Names],
                     incremental : 0 .. MaxRequests, mw : 0 .. Middlewares + 1,
                     res : Responses, serverErr : {"nil", "timeout", "refused"},
                     micros : Nat, current : Nat,
                     returned : {"nil", "middleware", "server"}]
    /\ stat \in [at : {"idle", "average", "total", "filled"}, rc : Nat, measured : Nat,
                 total : Nat]

(* The average that Stat reports is never below the fastest time there     *)
(* can be: recordings add the time before they count the request, and      *)
(* readers load the count before the time, so requests in between can only *)
(* raise it.                                                               *)
AverageNotDiluted ==
    stat.at = "filled" => \E fastest \in Elapsed : stat.total >= fastest * stat.measured

(* Each store to the moving average either resets it or blends one sample  *)
(* into the value that was there: no concurrent recording or reset is lost *)
(* under a value computed before it.                                       *)
SamplesBlend ==
    [][recentResTime' # recentResTime =>
         \/ recentResTime' = 0
         \/ \E r \in Requests :
              recentResTime' = Smoothed(recentResTime, req[r].micros)]_vars

(* What reaches the Backend: Host, X-Forwarded-For and custom headers by   *)
(* divisor, even if the client sent or nominated them; and of the client's *)
(* others all but the hop-by-hop ones, listed or nominated, the framing in *)
(* Content-Length being kept whatever is nominated.                        *)
ForwardedHeaders ==
    \A r \in Requests : req[r].at = "sent" =>
        LET fields == req[r].header.fields IN
        /\ Own \subseteq fields \cap req[r].own
        /\ \E h \in ClientHeaders :
             fields \ Own = {n \in h.fields \ (Own \cup {"hop"}) :
                               n \in h.nominates => n \in connectionOptions}

(* A request that the handler ended with an error is never answered with   *)
(* the empty 200 of a fresh response, a timeout is told from a Backend     *)
(* that cannot be reached, and no answer passes hop-by-hop headers on,     *)
(* whichever way out of the handler was taken.                             *)
ErrorsReachClient ==
    \A r \in Requests : req[r].at = "answered" =>
        LET resp == req[r].res
            err  == req[r].returned
        IN  /\ ~ resp.hop
            /\ err # "nil" => resp.status # 200 \/ resp.body # "empty"
            /\ err = "server" => (resp.status = 504 <=> req[r].serverErr = "timeout")

(* A request that was called ends, although the compare-and-swap may have  *)
(* to be tried again, if the exchange with the Backend has a time limit.   *)
RequestEnds ==
    \A r \in Requests : (req[r].at = "preReq") ~> (req[r].at = "answered")

=============================================================================
