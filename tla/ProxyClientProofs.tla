------------------------- MODULE ProxyClientProofs -------------------------
(***************************************************************************)
(* One Backend's ProxyClient for any number of goroutines, middlewares and *)
(* requests, any headers, answers and times.                               *)
(***************************************************************************)
EXTENDS MCProxyClient, FiniteSetTheorems, WellFoundedInduction, NaturalsInduction, TLAPS

Headers == [fields : SUBSET Names, nominates : SUBSET Names]

Locals ==
  [at : Places, own : SUBSET Names, header : Headers,
   incremental : 0 .. MaxRequests, mw : 0 .. Middlewares + 1,
   res : Responses, serverErr : {"nil", "timeout", "refused"},
   micros : Nat, current : Nat, returned : {"nil", "middleware", "server"}]

Forwarded(q) ==
  /\ Own \subseteq q.header.fields \cap q.own
  /\ \E h \in ClientHeaders :
       q.header.fields \ Own = {n \in h.fields \ (Own \cup {"hop"}) :
                                  n \in h.nominates => n \in connectionOptions}

ErrorTold(q) ==
  /\ ~ q.res.hop
  /\ q.returned # "nil" => q.res.status # 200 \/ q.res.body # "empty"
  /\ q.returned = "server" => (q.res.status = 504 <=> q.serverErr = "timeout")
  /\ q.returned = "nil" => q.serverErr = "nil"

\* Being recorded after a successful exchange.
Succeeding(q) ==
  q.at \in {"addTotal", "addCount"} \/ (q.at \in {"load", "swap"} /\ q.serverErr = "nil")

(* What holds of the locals of every request: what was forwarded, that     *)
(* only successes are added to the lifetime average, with a time of        *)
(* theirs, and that their response has no hop-by-hop header any more.      *)
LocalsOK(q) ==
  /\ q \in Locals
  /\ q.at = "preReq" => q.header \in ClientHeaders /\ q.incremental = 0
  /\ q.at \in {"onRequest", "sent"} => Forwarded(q)
  /\ q.at \in {"addTotal", "addCount"} => q.serverErr = "nil"
  /\ q.at = "addTotal" => q.micros \in Elapsed
  /\ Succeeding(q) => ~ q.res.hop
  /\ q.at # "answered" => q.returned = "nil"
  /\ q.at = "answered" => ErrorTold(q)

Handlers == req \in [Requests -> Locals] /\ \A r \in Requests : LocalsOK(req[r])

Counters ==
  /\ totalRequestCount \in 0 .. MaxRequests
  /\ totalResTime \in Nat /\ measuredRequestCount \in Nat /\ recentResTime \in Nat
  /\ stat \in [at : {"idle", "average", "total", "filled"}, rc : Nat, measured : Nat,
               total : Nat]

Inv == Handlers /\ Counters

-----------------------------------------------------------------------------
(* A step of one request keeps the invariant on requests, if its new       *)
(* locals satisfy it.                                                      *)
LEMMA SetKeeps ==
  ASSUME Handlers, NEW r \in Requests, NEW q, LocalsOK(q), Set(r, q)
  PROVE  /\ Handlers'
         /\ req'[r] = q
         /\ \A s \in Requests \ {r} : req'[s] = req[s]
<1>1. q \in Locals
  BY DEF LocalsOK
<1>2. req' \in [Requests -> Locals] /\ req'[r] = q
      /\ \A s \in Requests \ {r} : req'[s] = req[s]
  BY <1>1 DEF Set, Handlers
<1>3. \A s \in Requests : LocalsOK(req'[s])
  BY <1>2 DEF Handlers
<1> QED
  BY <1>2, <1>3 DEF Handlers

(* The locals of a goroutine between two requests, and variations of them. *)
LEMMA IdleLocals ==
  /\ Idle \in Locals
  /\ LocalsOK(Idle)
  /\ \A h \in ClientHeaders : LocalsOK([Idle EXCEPT !.at = "preReq", !.header = h])
  /\ \A resp \in Responses :
       LocalsOK([Idle EXCEPT !.at = "onResponse", !.mw = 1, !.res = resp])
  /\ \A err \in {"timeout", "refused"}, t \in Nat :
       LocalsOK([Idle EXCEPT !.at = "load", !.serverErr = err, !.micros = t])
<1>1. Fresh \in Responses /\ Fresh.hop = FALSE
  BY DEF Fresh, Responses, Statuses, Bodies
<1>2. 0 \in 0 .. MaxRequests /\ 0 \in 0 .. Middlewares + 1 /\ 1 \in 0 .. Middlewares + 1
  BY ProxyClientAssumption
<1>3. Idle \in Locals
  BY <1>1, <1>2 DEF Idle, Locals, Places, Headers
<1>4. Idle.at = "idle" /\ Idle.returned = "nil" /\ Idle.incremental = 0
  BY DEF Idle
<1>5. LocalsOK(Idle)
  BY <1>3, <1>4 DEF LocalsOK, Succeeding
<1>6. ASSUME NEW h \in ClientHeaders
      PROVE  LocalsOK([Idle EXCEPT !.at = "preReq", !.header = h])
  <2> DEFINE q == [Idle EXCEPT !.at = "preReq", !.header = h]
  <2>1. h \in [fields : SUBSET Names, nominates : SUBSET Names]
    BY ProxyClientAssumption
  <2>2. q \in Locals
    BY <1>3, <2>1 DEF Locals, Places, Headers
  <2>3. q.at = "preReq" /\ q.header = h /\ q.returned = "nil" /\ q.incremental = 0
    BY <1>3, <1>4 DEF Locals
  <2> HIDE DEF q
  <2>4. LocalsOK(q)
    BY <2>2, <2>3 DEF LocalsOK, Succeeding
  <2> QED
    BY <2>4 DEF q
<1>7. ASSUME NEW resp \in Responses
      PROVE  LocalsOK([Idle EXCEPT !.at = "onResponse", !.mw = 1, !.res = resp])
  <2> DEFINE q == [Idle EXCEPT !.at = "onResponse", !.mw = 1, !.res = resp]
  <2>1. q \in Locals
    BY <1>2, <1>3 DEF Locals, Places
  <2>2. q.at = "onResponse" /\ q.returned = "nil"
    BY <1>3, <1>4 DEF Locals
  <2> HIDE DEF q
  <2>3. LocalsOK(q)
    BY <2>1, <2>2 DEF LocalsOK, Succeeding
  <2> QED
    BY <2>3 DEF q
<1>8. ASSUME NEW err \in {"timeout", "refused"}, NEW t \in Nat
      PROVE  LocalsOK([Idle EXCEPT !.at = "load", !.serverErr = err, !.micros = t])
  <2> DEFINE q == [Idle EXCEPT !.at = "load", !.serverErr = err, !.micros = t]
  <2>1. q \in Locals
    BY <1>3 DEF Locals, Places
  <2>2. q.at = "load" /\ q.serverErr = err /\ q.returned = "nil"
    BY <1>3, <1>4 DEF Locals
  <2> HIDE DEF q
  <2>3. LocalsOK(q)
    BY <2>1, <2>2 DEF LocalsOK, Succeeding
  <2> QED
    BY <2>3 DEF q
<1> QED
  BY <1>3, <1>5, <1>6, <1>7, <1>8

(* What the two functions that take headers away and the one that sets     *)
(* some do to the fields, and that they do nothing else.                   *)
LEMMA HeaderLocals ==
  ASSUME NEW q \in Locals
  PROVE  /\ LET p == delConnectionNominated(q) IN
            /\ p \in Locals /\ p.returned = q.returned
            /\ p.header.fields = q.header.fields \ (q.header.nominates \ connectionOptions)
         /\ LET p == delHopHeaders(q) IN
            /\ p \in Locals /\ p.returned = q.returned
            /\ p.header.fields = q.header.fields \ {"hop"}
         /\ LET p == setOwnHeaders(q) IN
            /\ p \in Locals /\ p.returned = q.returned
            /\ p.header.fields = q.header.fields \cup Own /\ p.own = Own
<1>1. q.header \in Headers /\ q.own \in SUBSET Names
  BY DEF Locals, Headers
<1>2. LET p == delConnectionNominated(q) IN
      /\ p \in Locals /\ p.returned = q.returned
      /\ p.header.fields = q.header.fields \ (q.header.nominates \ connectionOptions)
  <2> DEFINE gone == q.header.nominates \ connectionOptions
             h == [q.header EXCEPT !.fields = q.header.fields \ gone]
             own == q.own \ gone
  <2>1. h \in Headers /\ h.fields = q.header.fields \ gone /\ own \in SUBSET Names
    BY <1>1 DEF Headers
  <2>2. delConnectionNominated(q) = [q EXCEPT !.header = h, !.own = own]
    BY <1>1 DEF delConnectionNominated, Locals, Headers
  <2> HIDE DEF h, own
  <2> QED
    BY <2>1, <2>2 DEF Locals
<1>3. LET p == delHopHeaders(q) IN
      /\ p \in Locals /\ p.returned = q.returned
      /\ p.header.fields = q.header.fields \ {"hop"}
  <2> DEFINE h == [q.header EXCEPT !.fields = q.header.fields \ {"hop"}, !.nominates = {}]
  <2>1. h \in Headers /\ h.fields = q.header.fields \ {"hop"}
    BY <1>1 DEF Headers
  <2>2. delHopHeaders(q) = [q EXCEPT !.header = h, !.own = q.own]
    BY <1>1 DEF delHopHeaders, Locals, Headers
  <2> HIDE DEF h
  <2> QED
    BY <1>1, <2>1, <2>2 DEF Locals
<1>4. LET p == setOwnHeaders(q) IN
      /\ p \in Locals /\ p.returned = q.returned
      /\ p.header.fields = q.header.fields \cup Own /\ p.own = Own
  <2> DEFINE h == [q.header EXCEPT !.fields = q.header.fields \cup Own]
  <2>1. Own \in SUBSET Names
    BY DEF Own, Names
  <2>2. h \in Headers /\ h.fields = q.header.fields \cup Own
    BY <1>1, <2>1 DEF Headers
  <2>3. setOwnHeaders(q) = [q EXCEPT !.header = h, !.own = Own]
    BY <1>1 DEF setOwnHeaders, Locals, Headers
  <2> HIDE DEF h
  <2> QED
    BY <2>1, <2>2, <2>3 DEF Locals
<1> QED
  BY <1>2, <1>3, <1>4

(* The order of preReq: divisor's own headers are set after everything     *)
(* that is taken away, so no nomination removes them, and what is left of  *)
(* the client's is what may be forwarded.                                  *)
LEMMA PreReqLocals ==
  ASSUME NEW q, LocalsOK(q), q.at = "preReq", totalRequestCount \in 0 .. MaxRequests
  PROVE  LET p == [setIncremental(preReq(q)) EXCEPT !.at = "onRequest", !.mw = 1]
         IN  LocalsOK(p) /\ p.at = "onRequest" /\ p.incremental = totalRequestCount
<1> DEFINE gone == q.header.nominates \ connectionOptions
           a == delConnectionNominated(q)
           b == delHopHeaders(a)
           c == setOwnHeaders(b)
           p == [setIncremental(c) EXCEPT !.at = "onRequest", !.mw = 1]
<1>1. q \in Locals /\ q.header \in ClientHeaders /\ q.returned = "nil"
  BY DEF LocalsOK
<1>2. a \in Locals /\ a.header.fields = q.header.fields \ gone /\ a.returned = "nil"
  BY <1>1, HeaderLocals
<1> HIDE DEF a
<1>3. b \in Locals /\ b.header.fields = a.header.fields \ {"hop"} /\ b.returned = "nil"
  BY <1>2, HeaderLocals
<1> HIDE DEF b
<1>4. /\ c \in Locals /\ c.header.fields = b.header.fields \cup Own /\ c.own = Own
      /\ c.returned = "nil"
  BY <1>3, HeaderLocals
<1> HIDE DEF c
<1>5. 1 \in 0 .. Middlewares + 1
  BY ProxyClientAssumption
<1>6. /\ p \in Locals /\ p.header = c.header /\ p.own = Own /\ p.returned = "nil"
      /\ p.at = "onRequest" /\ p.incremental = totalRequestCount
  BY <1>4, <1>5 DEF setIncremental, Locals, Places
<1> HIDE DEF p
<1>7. /\ Own \subseteq p.header.fields \cap p.own
      /\ p.header.fields \ Own = {n \in q.header.fields \ (Own \cup {"hop"}) :
                                    n \in q.header.nominates => n \in connectionOptions}
  BY <1>2, <1>3, <1>4, <1>6
<1>8. LocalsOK(p)
  BY <1>1, <1>6, <1>7 DEF LocalsOK, Succeeding, Forwarded
<1> QED
  BY <1>6, <1>8 DEF p, c, b, a, preReq

(* What the functions that change a response return.                       *)
LEMMA ResponseTypes ==
  ASSUME NEW x \in Responses
  PROVE  /\ postRes(x) \in Responses
         /\ [x EXCEPT !.status = 403, !.body = "middleware"] \in Responses
         /\ middlewareError(x) \in Responses
         /\ \A err : serverError(x, err) \in Responses
<1>1. postRes(x) \in Responses
  BY DEF postRes, Responses
<1>2. ASSUME NEW status \in Statuses, NEW body \in Bodies
      PROVE  [x EXCEPT !.status = status, !.body = body] \in Responses
  BY DEF Responses
<1>3. [x EXCEPT !.status = 403, !.body = "middleware"] \in Responses
  BY <1>2 DEF Statuses, Bodies
<1>4. middlewareError(x) \in Responses
  BY <1>2 DEF middlewareError, Statuses, Bodies
<1>5. ASSUME NEW err PROVE serverError(x, err) \in Responses
  <2> DEFINE status == IF err = "timeout" THEN 504 ELSE 502
  <2>1. status \in Statuses /\ "message" \in Bodies
    BY DEF Statuses, Bodies
  <2> HIDE DEF status
  <2>2. [x EXCEPT !.status = status, !.body = "message"] \in Responses
    BY <1>2, <2>1
  <2> QED
    BY <2>2 DEF serverError, status
<1> QED
  BY <1>1, <1>3, <1>4, <1>5

(* No answer has a hop-by-hop header, and an error always shows.           *)
LEMMA ResponseValues ==
  ASSUME NEW x \in Responses
  PROVE  /\ ~ postRes(x).hop
         /\ ~ middlewareError(postRes(x)).hop
         /\ \/ middlewareError(postRes(x)).status # 200
            \/ middlewareError(postRes(x)).body # "empty"
         /\ \A err : /\ ~ serverError(postRes(x), err).hop
                     /\ serverError(postRes(x), err).status # 200
                     /\ serverError(postRes(x), err).status = 504 <=> err = "timeout"
<1> DEFINE y == postRes(x)
<1>1. y.hop = FALSE
  BY DEF postRes, Responses
<1>2. y \in Responses
  BY ResponseTypes
<1> HIDE DEF y
<1>3. middlewareError(y).hop = y.hop
  BY <1>2 DEF middlewareError, Responses
<1>4. middlewareError(y).status # 200 \/ middlewareError(y).body # "empty"
  BY <1>2 DEF middlewareError, Responses
<1>5. \A err : serverError(y, err).hop = y.hop
  BY <1>2 DEF serverError, Responses
<1>6. \A err : serverError(y, err).status = IF err = "timeout" THEN 504 ELSE 502
  BY <1>2 DEF serverError, Responses
<1> QED
  BY <1>1, <1>3, <1>4, <1>5, <1>6 DEF y

(* A middleware may write a response of its own, whatever happens next.    *)
LEMMA MiddlewareResponses ==
  ASSUME NEW res \in Responses, NEW resp \in MiddlewareWrites(res)
  PROVE  /\ resp \in Responses
         /\ middlewareError(postRes(resp)) \in Responses
         /\ ~ middlewareError(postRes(resp)).hop
         /\ \/ middlewareError(postRes(resp)).status # 200
            \/ middlewareError(postRes(resp)).body # "empty"
<1>1. resp \in Responses
  <2> DEFINE own == [res EXCEPT !.status = 403, !.body = "middleware"]
  <2>1. resp = res \/ resp = own
    BY DEF MiddlewareWrites
  <2>2. own \in Responses
    BY ResponseTypes
  <2> HIDE DEF own
  <2> QED
    BY <2>1, <2>2
<1>2. postRes(resp) \in Responses
  BY <1>1, ResponseTypes
<1>3. middlewareError(postRes(resp)) \in Responses
  BY <1>2, ResponseTypes
<1> QED
  BY <1>1, <1>3, ResponseValues

(* A chain of middlewares goes on or ends the request with an error.       *)
LEMMA CallMiddlewareLocals ==
  ASSUME Handlers, NEW r \in Requests, req[r].at \in {"onRequest", "onResponse"},
         req[r].mw <= Middlewares, CallMiddleware(r)
  PROVE  \E q : LocalsOK(q) /\ Set(r, q) /\ q.at \in {req[r].at, "answered"}
                /\ q.incremental = req[r].incremental
                /\ (q.at = "answered" => q.returned # "nil")
<1> DEFINE x == req[r]
<1>1. x \in Locals /\ LocalsOK(x)
  BY DEF Handlers
<1>2. PICK resp \in MiddlewareWrites(x.res), result \in {"nil", "error", "panic"} :
        Set(r, IF runProtected(result) = "nil"
               THEN [x EXCEPT !.res = resp, !.mw = @ + 1]
               ELSE Answered(x, middlewareError(postRes(resp)), "middleware"))
  BY DEF CallMiddleware
<1>3. x.res \in Responses /\ x.mw \in 0 .. Middlewares + 1 /\ x.returned = "nil"
  BY <1>1 DEF Locals, LocalsOK
<1>4. resp \in Responses
  BY <1>3, MiddlewareResponses
<1>5. CASE runProtected(result) = "nil"
  <2> DEFINE q == [x EXCEPT !.res = resp, !.mw = @ + 1]
  <2>1. x.mw + 1 \in 0 .. Middlewares + 1
    BY <1>3, ProxyClientAssumption
  <2>2. /\ q \in Locals /\ q.at = x.at /\ q.header = x.header /\ q.own = x.own
        /\ q.returned = "nil" /\ q.incremental = x.incremental
    BY <1>1, <1>3, <1>4, <2>1 DEF Locals
  <2>3. Set(r, q)
    BY <1>2, <1>5
  <2> HIDE DEF q
  <2>4. LocalsOK(q)
    BY <1>1, <2>2 DEF LocalsOK, Succeeding, Forwarded
  <2> QED
    BY <2>2, <2>3, <2>4
<1>6. CASE runProtected(result) # "nil"
  <2> DEFINE m == middlewareError(postRes(resp))
             q == [x EXCEPT !.at = "answered", !.res = m, !.returned = "middleware"]
  <2>1. m \in Responses /\ ~ m.hop /\ (m.status # 200 \/ m.body # "empty")
    BY <1>3, MiddlewareResponses
  <2>2. Set(r, q)
    BY <1>2, <1>6 DEF Answered
  <2> HIDE DEF m
  <2>3. /\ q \in Locals /\ q.at = "answered" /\ q.res = m
        /\ q.returned = "middleware" /\ q.incremental = x.incremental
    BY <1>1, <2>1 DEF Locals, Places
  <2> HIDE DEF q
  <2>4. LocalsOK(q)
    BY <2>1, <2>3 DEF LocalsOK, Succeeding, ErrorTold
  <2> QED
    BY <2>2, <2>3, <2>4
<1> QED
  BY <1>5, <1>6

-----------------------------------------------------------------------------
(* A request in the handler that has not been counted as measured.         *)
Counted(q) ==
  q.at \in {"load", "swap", "answered"} /\ q.returned = "nil" /\ q.serverErr = "nil"

Open(q) == ~ Counted(q) /\ q.at # "idle"

(* The kinds of step of a request, from locals x to locals q, by what they *)
(* do to the counters.                                                     *)
Enters(x, q) ==
  /\ x.at = "idle" /\ q.at = "preReq"
  /\ totalRequestCount < MaxRequests /\ totalRequestCount' = totalRequestCount + 1
  /\ UNCHANGED <<totalResTime, measuredRequestCount>>

AddsTime(x, q) ==
  /\ x.at = "addTotal" /\ q.at = "addCount"
  /\ totalResTime' = totalResTime + x.micros
  /\ UNCHANGED <<totalRequestCount, measuredRequestCount>>

AddsCount(x, q) ==
  /\ x.at = "addCount" /\ q.at = "load" /\ Counted(q)
  /\ measuredRequestCount' = measuredRequestCount + 1
  /\ UNCHANGED <<totalRequestCount, totalResTime>>

Returns(x, q) ==
  /\ x.at = "answered" /\ q = Idle
  /\ UNCHANGED <<totalRequestCount, totalResTime, measuredRequestCount>>

Numbered(x, q) ==
  \/ x.at = "preReq" /\ q.incremental = totalRequestCount
  \/ x.at \in {"onRequest", "sent"} /\ q.incremental = x.incremental

Proceeds(x, q) ==
  /\ x.at \notin {"idle", "addCount"} /\ q.at \notin {"idle", "preReq", "addCount"}
  /\ Open(q) <=> Open(x)
  /\ q.at \in {"onRequest", "sent"} => Numbered(x, q)
  /\ UNCHANGED <<totalRequestCount, totalResTime, measuredRequestCount>>

Moves(x, q) ==
  Enters(x, q) \/ AddsTime(x, q) \/ AddsCount(x, q) \/ Returns(x, q) \/ Proceeds(x, q)

Stepped(r) ==
  /\ \E q : LocalsOK(q) /\ Set(r, q) /\ Moves(req[r], q)
  /\ recentResTime' \in Nat
  /\ stat' = stat

(* Entering the handler and filling in the request's headers.              *)
LEMMA EnterStep ==
  ASSUME Inv, NEW r \in Requests, Enter(r) \/ PreReq(r)
  PROVE  Stepped(r)
<1> DEFINE x == req[r]
<1>1. x \in Locals /\ LocalsOK(x) /\ recentResTime \in Nat
      /\ totalRequestCount \in 0 .. MaxRequests
  BY DEF Inv, Handlers, Counters
<1>2. CASE Enter(r)
  <2>1. PICK h \in ClientHeaders : Set(r, [Idle EXCEPT !.at = "preReq", !.header = h])
    BY <1>2 DEF Enter
  <2> DEFINE q == [Idle EXCEPT !.at = "preReq", !.header = h]
  <2>2. LocalsOK(q)
    BY IdleLocals
  <2>3. q.at = "preReq"
    BY IdleLocals DEF Locals
  <2>4. Set(r, q)
    BY <2>1
  <2> HIDE DEF q
  <2>5. Enters(x, q)
    BY <1>2, <2>3 DEF Enter, Enters, lifetime
  <2>6. recentResTime' \in Nat /\ stat' = stat
    BY <1>1, <1>2 DEF Enter
  <2> QED
    BY <2>2, <2>4, <2>5, <2>6 DEF Stepped, Moves
<1>3. CASE PreReq(r)
  <2> DEFINE q == [setIncremental(preReq(x)) EXCEPT !.at = "onRequest", !.mw = 1]
  <2>1. LocalsOK(q) /\ q.at = "onRequest" /\ q.incremental = totalRequestCount
    BY <1>1, <1>3, PreReqLocals DEF PreReq
  <2>2. Set(r, q) /\ x.at = "preReq"
    BY <1>3 DEF PreReq
  <2> HIDE DEF q
  <2>3. Open(q) /\ Open(x)
    BY <2>1, <2>2 DEF Open, Counted
  <2>4. /\ UNCHANGED <<totalRequestCount, totalResTime, measuredRequestCount>>
        /\ recentResTime' \in Nat /\ stat' = stat
    BY <1>1, <1>3 DEF PreReq, counters, lifetime
  <2>5. Proceeds(x, q)
    BY <2>1, <2>2, <2>3, <2>4 DEF Proceeds, Numbered
  <2> QED
    BY <2>1, <2>2, <2>4, <2>5 DEF Stepped, Moves
<1> QED
  BY <1>2, <1>3

(* Middlewares before and after the exchange.                              *)
LEMMA ChainStep ==
  ASSUME Inv, NEW r \in Requests, RunOnRequest(r) \/ RunOnResponse(r)
  PROVE  Stepped(r)
<1> DEFINE x == req[r]
<1>1. /\ x.at \in {"onRequest", "onResponse"} /\ x.mw <= Middlewares
      /\ CallMiddleware(r) /\ UNCHANGED <<counters, stat>>
  BY DEF RunOnRequest, RunOnResponse, RunOn
<1>2. PICK q : LocalsOK(q) /\ Set(r, q) /\ q.at \in {x.at, "answered"}
                /\ q.incremental = x.incremental
                /\ (q.at = "answered" => q.returned # "nil")
  BY <1>1, CallMiddlewareLocals DEF Inv
<1>3. Open(q) /\ Open(x)
  BY <1>1, <1>2 DEF Open, Counted
<1>4. /\ UNCHANGED <<totalRequestCount, totalResTime, measuredRequestCount>>
      /\ recentResTime' \in Nat /\ stat' = stat
  BY <1>1 DEF counters, lifetime, Inv, Counters
<1>5. Proceeds(x, q)
  BY <1>1, <1>2, <1>3, <1>4 DEF Proceeds, Numbered
<1> QED
  BY <1>2, <1>4, <1>5 DEF Stepped, Moves

(* The exchange with the Backend.                                          *)
LEMMA ExchangeStep ==
  ASSUME Inv, NEW r \in Requests, DoStart(r) \/ Do(r)
  PROVE  Stepped(r)
<1> DEFINE x == req[r]
<1>1. /\ UNCHANGED <<totalRequestCount, totalResTime, measuredRequestCount>>
      /\ recentResTime' \in Nat /\ stat' = stat
  BY DEF DoStart, Do, counters, lifetime, Inv, Counters
<1>2. x \in Locals /\ LocalsOK(x)
  BY DEF Inv, Handlers
<1>3. CASE DoStart(r)
  <2> DEFINE q == [x EXCEPT !.at = "sent"]
  <2>1. x.at = "onRequest" /\ Set(r, q)
    BY <1>3 DEF DoStart, ChainDone
  <2>2. /\ q \in Locals /\ q.at = "sent" /\ q.header = x.header /\ q.own = x.own
        /\ q.incremental = x.incremental /\ q.returned = x.returned
    BY <1>2 DEF Locals, Places
  <2> HIDE DEF q
  <2>3. LocalsOK(q)
    BY <1>2, <2>1, <2>2 DEF LocalsOK, Succeeding, Forwarded
  <2>4. Open(q) /\ Open(x)
    BY <2>1, <2>2 DEF Open, Counted
  <2>5. Proceeds(x, q)
    BY <1>1, <2>1, <2>2, <2>4 DEF Proceeds, Numbered
  <2> QED
    BY <1>1, <2>1, <2>3, <2>5 DEF Stepped, Moves
<1>4. CASE Do(r)
  <2>1. x.at = "sent"
    BY <1>4 DEF Do
  <2>2. Open(x)
    BY <2>1 DEF Open, Counted
  <2>3. ASSUME NEW q, LocalsOK(q), Set(r, q), q.at \in {"onResponse", "load"},
               q.at = "load" => q.serverErr # "nil"
        PROVE  Stepped(r)
    <3>1. Open(q)
      BY <2>3 DEF Open, Counted
    <3>2. Proceeds(x, q)
      BY <1>1, <2>1, <2>2, <2>3, <3>1 DEF Proceeds
    <3> QED
      BY <1>1, <2>3, <3>2 DEF Stepped, Moves
  <2>4. ASSUME NEW resp \in BackendAnswers,
               Set(r, [Idle EXCEPT !.at = "onResponse", !.mw = 1, !.res = resp])
        PROVE  Stepped(r)
    <3> DEFINE q == [Idle EXCEPT !.at = "onResponse", !.mw = 1, !.res = resp]
    <3>1. LocalsOK(q)
      BY IdleLocals, ProxyClientAssumption
    <3>2. q.at = "onResponse"
      BY IdleLocals DEF Locals
    <3>3. Set(r, q)
      BY <2>4
    <3> HIDE DEF q
    <3> QED
      BY <2>3, <3>1, <3>2, <3>3
  <2>5. ASSUME NEW err \in {"timeout", "refused"}, NEW elapsed \in Elapsed,
               Set(r, [Idle EXCEPT !.at = "load", !.serverErr = err,
                                   !.micros = recordFailure(elapsed)])
        PROVE  Stepped(r)
    <3> DEFINE t == recordFailure(elapsed)
               q == [Idle EXCEPT !.at = "load", !.serverErr = err, !.micros = t]
    <3>1. t \in Nat
      BY ProxyClientAssumption DEF recordFailure
    <3>2. Set(r, q)
      BY <2>5
    <3> HIDE DEF t
    <3>3. LocalsOK(q)
      BY <3>1, IdleLocals
    <3>4. q.at = "load" /\ q.serverErr # "nil"
      BY IdleLocals DEF Locals
    <3> HIDE DEF q
    <3> QED
      BY <2>3, <3>2, <3>3, <3>4
  <2> QED
    BY <1>4, <2>4, <2>5 DEF Do
<1> QED
  BY <1>3, <1>4

(* The end of the handler: the Backend's failure becomes the answer, or    *)
(* the time of a success goes on to be recorded.                           *)
LEMMA FinishStep ==
  ASSUME Inv, NEW r \in Requests, Finish(r)
  PROVE  Stepped(r)
<1> DEFINE x == req[r]
<1>1. /\ UNCHANGED <<totalRequestCount, totalResTime, measuredRequestCount>>
      /\ recentResTime' \in Nat /\ stat' = stat
  BY DEF Finish, counters, lifetime, Inv, Counters
<1>2. x \in Locals /\ LocalsOK(x) /\ x.at = "onResponse"
  BY DEF Inv, Handlers, Finish, ChainDone
<1>3. x.res \in Responses /\ x.returned = "nil" /\ Open(x)
  BY <1>2 DEF Locals, LocalsOK, Open, Counted
<1>4. CASE x.serverErr # "nil"
  <2> DEFINE m == serverError(postRes(x.res), x.serverErr)
             q == [x EXCEPT !.at = "answered", !.res = m, !.returned = "server"]
  <2>1. Set(r, q)
    BY <1>4 DEF Finish, Answered
  <2>2. postRes(x.res) \in Responses
    BY <1>3, ResponseTypes
  <2>3. m \in Responses
    BY <2>2, ResponseTypes
  <2>4. ~ m.hop /\ m.status # 200 /\ (m.status = 504 <=> x.serverErr = "timeout")
    BY <1>3, ResponseValues
  <2> HIDE DEF m
  <2>5. q \in Locals
    BY <1>2, <2>3 DEF Locals, Places
  <2>6. /\ q.at = "answered" /\ q.res = m /\ q.returned = "server"
        /\ q.serverErr = x.serverErr
    BY <1>2 DEF Locals
  <2> HIDE DEF q
  <2>7. ErrorTold(q)
    BY <2>4, <2>6 DEF ErrorTold
  <2>8. LocalsOK(q)
    BY <2>5, <2>6, <2>7 DEF LocalsOK, Succeeding
  <2>9. Open(q)
    BY <2>6 DEF Open, Counted
  <2>10. Proceeds(x, q)
    BY <1>1, <1>2, <1>3, <2>6, <2>9 DEF Proceeds
  <2> QED
    BY <1>1, <2>1, <2>8, <2>10 DEF Stepped, Moves
<1>5. CASE x.serverErr = "nil"
  <2>1. PICK elapsed \in Elapsed :
          Set(r, [x EXCEPT !.at = "addTotal", !.micros = elapsed, !.res = postRes(@)])
    BY <1>5 DEF Finish
  <2> DEFINE m == postRes(x.res)
             q == [x EXCEPT !.at = "addTotal", !.micros = elapsed, !.res = m]
  <2>2. Set(r, q)
    BY <2>1
  <2>3. m \in Responses /\ ~ m.hop
    <3>1. m \in Responses
      BY <1>3, ResponseTypes
    <3>2. ~ m.hop
      BY <1>3, ResponseValues
    <3> QED
      BY <3>1, <3>2
  <2>4. elapsed \in Nat
    BY ProxyClientAssumption
  <2> HIDE DEF m
  <2>5. q \in Locals
    BY <1>2, <2>3, <2>4 DEF Locals, Places
  <2>6. /\ q.at = "addTotal" /\ q.res = m /\ q.returned = "nil"
        /\ q.serverErr = "nil" /\ q.micros = elapsed
    BY <1>2, <1>3, <1>5 DEF Locals
  <2> HIDE DEF q
  <2>7. LocalsOK(q)
    BY <2>3, <2>5, <2>6 DEF LocalsOK, Succeeding
  <2>8. Open(q)
    BY <2>6 DEF Open, Counted
  <2>9. Proceeds(x, q)
    BY <1>1, <1>2, <1>3, <2>6, <2>8 DEF Proceeds
  <2> QED
    BY <1>1, <2>2, <2>7, <2>9 DEF Stepped, Moves
<1> QED
  BY <1>4, <1>5

(* The two additions of recordResponseTime.                                *)
LEMMA RecordStep ==
  ASSUME Inv, NEW r \in Requests, recordResponseTime(r)
  PROVE  Stepped(r)
<1> DEFINE x == req[r]
<1>1. totalRequestCount' = totalRequestCount /\ recentResTime' \in Nat /\ stat' = stat
  BY DEF recordResponseTime, Inv, Counters
<1>2. x \in Locals /\ LocalsOK(x)
  BY DEF Inv, Handlers
<1>3. CASE AddTime(r, "addTotal", "addCount")
  <2> DEFINE q == [x EXCEPT !.at = "addCount"]
  <2>1. x.at = "addTotal" /\ Set(r, q)
    BY <1>3 DEF AddTime
  <2>2. /\ q \in Locals /\ q.at = "addCount" /\ q.returned = x.returned
        /\ q.serverErr = x.serverErr /\ q.res = x.res
    BY <1>2 DEF Locals, Places
  <2> HIDE DEF q
  <2>3. LocalsOK(q)
    BY <1>2, <2>1, <2>2 DEF LocalsOK, Succeeding
  <2>4. AddsTime(x, q)
    BY <1>1, <1>3, <2>1, <2>2 DEF AddsTime, AddTime
  <2> QED
    BY <1>1, <2>1, <2>3, <2>4 DEF Stepped, Moves
<1>4. CASE AddCount(r, "addCount", "load")
  <2> DEFINE q == [x EXCEPT !.at = "load"]
  <2>1. x.at = "addCount" /\ Set(r, q)
    BY <1>4 DEF AddCount
  <2>2. /\ q \in Locals /\ q.at = "load" /\ q.returned = x.returned
        /\ q.serverErr = x.serverErr /\ q.res = x.res
    BY <1>2 DEF Locals, Places
  <2> HIDE DEF q
  <2>3. LocalsOK(q) /\ Counted(q)
    BY <1>2, <2>1, <2>2 DEF LocalsOK, Succeeding, Counted
  <2>4. AddsCount(x, q)
    BY <1>1, <1>4, <2>1, <2>2, <2>3 DEF AddsCount, AddCount
  <2> QED
    BY <1>1, <2>1, <2>3, <2>4 DEF Stepped, Moves
<1> QED
  BY <1>3, <1>4 DEF recordResponseTime

(* The moving average stays a natural number.                              *)
LEMMA SmoothedNat ==
  ASSUME NEW old \in Nat, NEW sample \in Nat
  PROVE  Smoothed(old, sample) \in Nat
<1>1. sample + 4 * old \in Nat
  OBVIOUS
<1>2. \A n \in Nat : n \div 5 \in Nat
  OBVIOUS
<1> QED
  BY <1>1, <1>2 DEF Smoothed

(* Blending the sample into the moving average, the handler's last step    *)
(* or, after a failure of the Backend, its last one before the chain.      *)
LEMMA StoreStep ==
  ASSUME Inv, NEW r \in Requests, storeRecentResTime(r)
  PROVE  Stepped(r)
<1> DEFINE x == req[r]
<1>1. x \in Locals /\ LocalsOK(x) /\ recentResTime \in Nat
  BY DEF Inv, Handlers, Counters
<1>2. CASE LoadRecent(r)
  <2> DEFINE q == [x EXCEPT !.at = "swap", !.current = recentResTime]
  <2>1. x.at = "load" /\ Set(r, q)
    BY <1>2 DEF LoadRecent
  <2>2. /\ q \in Locals /\ q.at = "swap" /\ q.returned = x.returned
        /\ q.serverErr = x.serverErr /\ q.res = x.res
    BY <1>1 DEF Locals, Places
  <2> HIDE DEF q
  <2>3. LocalsOK(q)
    BY <1>1, <2>1, <2>2 DEF LocalsOK, Succeeding
  <2>4. Open(q) <=> Open(x)
    BY <2>1, <2>2 DEF Open, Counted
  <2>5. /\ UNCHANGED <<totalRequestCount, totalResTime, measuredRequestCount>>
        /\ recentResTime' \in Nat /\ stat' = stat
    BY <1>1, <1>2 DEF LoadRecent, counters, lifetime
  <2>6. Proceeds(x, q)
    BY <2>1, <2>2, <2>4, <2>5 DEF Proceeds
  <2> QED
    BY <2>1, <2>3, <2>5, <2>6 DEF Stepped, Moves
<1>3. CASE Swap(r)
  <2> DEFINE to == IF x.serverErr # "nil" THEN "onResponse" ELSE "answered"
             q == [x EXCEPT !.micros = 0, !.current = 0, !.mw = 1, !.at = to]
  <2>1. x.at = "swap" /\ Set(r, q)
    BY <1>3 DEF Swap
  <2>2. to \in Places /\ 1 \in 0 .. Middlewares + 1
    BY ProxyClientAssumption DEF Places
  <2>3. /\ x.serverErr # "nil" => to = "onResponse"
        /\ x.serverErr = "nil" => to = "answered"
    OBVIOUS
  <2> HIDE DEF to
  <2>4. /\ q \in Locals /\ q.at = to /\ q.returned = x.returned
        /\ q.serverErr = x.serverErr /\ q.res = x.res
    BY <1>1, <2>2 DEF Locals
  <2> HIDE DEF q
  <2>5. x.returned = "nil"
    BY <1>1, <2>1 DEF LocalsOK
  <2>6. LocalsOK(q)
    <3>1. CASE x.serverErr # "nil"
      BY <2>3, <2>4, <2>5, <3>1 DEF LocalsOK, Succeeding
    <3>2. CASE x.serverErr = "nil"
      <4>1. ~ x.res.hop
        BY <1>1, <2>1, <3>2 DEF LocalsOK, Succeeding
      <4>2. ErrorTold(q)
        BY <2>4, <2>5, <3>2, <4>1 DEF ErrorTold
      <4> QED
        BY <2>3, <2>4, <2>5, <3>2, <4>2 DEF LocalsOK, Succeeding
    <3> QED
      BY <3>1, <3>2
  <2>7. Open(q) <=> Open(x)
    BY <2>1, <2>3, <2>4 DEF Open, Counted
  <2>8. x.current \in Nat /\ x.micros \in Nat
    BY <1>1 DEF Locals
  <2>9. recentResTime' \in Nat
    BY <1>3, <2>8, SmoothedNat DEF Swap
  <2>10. UNCHANGED <<totalRequestCount, totalResTime, measuredRequestCount, stat>>
    BY <1>3 DEF Swap, lifetime
  <2>11. Proceeds(x, q)
    BY <2>1, <2>3, <2>4, <2>7, <2>10 DEF Proceeds
  <2> QED
    BY <2>1, <2>6, <2>9, <2>10, <2>11 DEF Stepped, Moves
<1>4. CASE Retry(r)
  <2> DEFINE q == [x EXCEPT !.at = "load", !.current = 0]
  <2>1. x.at = "swap" /\ Set(r, q)
    BY <1>4 DEF Retry
  <2>2. /\ q \in Locals /\ q.at = "load" /\ q.returned = x.returned
        /\ q.serverErr = x.serverErr /\ q.res = x.res
    BY <1>1 DEF Locals, Places
  <2> HIDE DEF q
  <2>3. LocalsOK(q)
    BY <1>1, <2>1, <2>2 DEF LocalsOK, Succeeding
  <2>4. Open(q) <=> Open(x)
    BY <2>1, <2>2 DEF Open, Counted
  <2>5. /\ UNCHANGED <<totalRequestCount, totalResTime, measuredRequestCount>>
        /\ recentResTime' \in Nat /\ stat' = stat
    BY <1>1, <1>4 DEF Retry, counters, lifetime
  <2>6. Proceeds(x, q)
    BY <2>1, <2>2, <2>4, <2>5 DEF Proceeds
  <2> QED
    BY <2>1, <2>3, <2>5, <2>6 DEF Stepped, Moves
<1> QED
  BY <1>2, <1>3, <1>4 DEF storeRecentResTime, CompareAndSwap

(* Every step of the handler is one of the kinds above.                    *)
LEMMA HandlerStep ==
  ASSUME Inv, NEW r \in Requests, ReverseProxyHandler(r)
  PROVE  Stepped(r)
<1>1. CASE Return(r)
  <2>1. Set(r, Idle) /\ Returns(req[r], Idle)
    BY <1>1 DEF Return, Returns, counters, lifetime
  <2>2. recentResTime' \in Nat /\ stat' = stat
    BY <1>1 DEF Return, counters, Inv, Counters
  <2> QED
    BY <2>1, <2>2, IdleLocals DEF Stepped, Moves
<1> QED
  BY <1>1, EnterStep, ChainStep, ExchangeStep, FinishStep, RecordStep, StoreStep
     DEF ReverseProxyHandler, HandlerGoesOn

-----------------------------------------------------------------------------
(* A request's step in terms of the variables: the others stay.            *)
LEMMA SteppedKeeps ==
  ASSUME Inv, NEW r \in Requests, Stepped(r)
  PROVE  /\ Inv'
         /\ Moves(req[r], req'[r])
         /\ \A s \in Requests \ {r} : req'[s] = req[s]
<1>1. PICK q : LocalsOK(q) /\ Set(r, q) /\ Moves(req[r], q)
  BY DEF Stepped
<1>2. /\ Handlers' /\ req'[r] = q
      /\ \A s \in Requests \ {r} : req'[s] = req[s]
  BY <1>1, SetKeeps DEF Inv
<1>3. req[r].micros \in Nat
  BY DEF Inv, Handlers, Locals
<1>4. /\ totalRequestCount' \in 0 .. MaxRequests /\ totalResTime' \in Nat
      /\ measuredRequestCount' \in Nat
  BY <1>1, <1>3, ProxyClientAssumption
     DEF Inv, Counters, Moves, Enters, AddsTime, AddsCount, Returns, Proceeds
<1>5. Counters'
  BY <1>4 DEF Stepped, Inv, Counters
<1> QED
  BY <1>1, <1>2, <1>5 DEF Inv

(* The invariant holds when the client is made.                            *)
LEMMA Invariant_Init == NewProxyClient => Inv
<1> SUFFICES ASSUME NewProxyClient PROVE Inv
  OBVIOUS
<1>1. req = [r \in Requests |-> Idle]
  BY DEF NewProxyClient
<1>2. Handlers
  BY <1>1, IdleLocals DEF Handlers
<1>3. Counters
  BY ProxyClientAssumption DEF NewProxyClient, Counters, NoStat
<1> QED
  BY <1>2, <1>3 DEF Inv

(* Stat and the health checker's reset leave the requests alone.           *)
LEMMA OthersKeep ==
  ASSUME Inv, ResetRecentResponseTime \/ Stat \/ UNCHANGED vars
  PROVE  /\ Inv'
         /\ req' = req
         /\ UNCHANGED <<totalRequestCount, totalResTime, measuredRequestCount>>
<1>1. req' = req /\ UNCHANGED <<totalRequestCount, totalResTime, measuredRequestCount>>
  BY DEF ResetRecentResponseTime, Stat, vars, counters, lifetime
<1>2. Handlers'
  BY <1>1 DEF Inv, Handlers
<1>3. recentResTime' \in Nat
  BY DEF ResetRecentResponseTime, Stat, vars, counters, Inv, Counters
<1>4. stat' \in [at : {"idle", "average", "total", "filled"}, rc : Nat, measured : Nat,
                 total : Nat]
  <2>1. CASE ResetRecentResponseTime \/ UNCHANGED vars
    BY <2>1 DEF ResetRecentResponseTime, vars, Inv, Counters
  <2>2. CASE Stat
    <3>1. /\ totalRequestCount \in Nat /\ measuredRequestCount \in Nat /\ totalResTime \in Nat
          /\ stat \in [at : {"idle", "average", "total", "filled"}, rc : Nat,
                       measured : Nat, total : Nat]
      BY ProxyClientAssumption DEF Inv, Counters
    <3>2. CASE stat' = [stat EXCEPT !.at = "average", !.rc = totalRequestCount]
      BY <3>1, <3>2
    <3>3. CASE stat' = [stat EXCEPT !.measured = measuredRequestCount,
                          !.at = IF measuredRequestCount = 0 THEN "filled" ELSE "total"]
      BY <3>1, <3>3
    <3>4. CASE stat' = [stat EXCEPT !.at = "filled", !.total = totalResTime]
      BY <3>1, <3>4
    <3>5. CASE stat' = NoStat
      BY <3>5 DEF NoStat
    <3> QED
      BY <2>2, <3>2, <3>3, <3>4, <3>5 DEF Stat, AvgResponseTime
  <2> QED
    BY <2>1, <2>2
<1> QED
  BY <1>1, <1>2, <1>3, <1>4 DEF Inv, Counters

(* Inv is inductive.                                                       *)
LEMMA Invariant_Next == Inv /\ [Next]_vars => Inv'
<1> SUFFICES ASSUME Inv, [Next]_vars PROVE Inv'
  OBVIOUS
<1>1. ASSUME NEW r \in Requests, ReverseProxyHandler(r) PROVE Inv'
  BY <1>1, HandlerStep, SteppedKeeps
<1> QED
  BY <1>1, OthersKeep DEF Next

(* Inv holds in every state, for any Requests and any bound on them.       *)
THEOREM ProxyInvariant == Spec => []Inv
BY Invariant_Init, Invariant_Next, PTL DEF Spec

(* The variables and the locals keep their types: in particular no chain   *)
(* runs past its last middleware and no status is one of nobody's.         *)
THEOREM ProxyTypeCorrect == Spec => []TypeOK
<1>1. Inv => TypeOK
  BY DEF Inv, Handlers, Counters, Locals, Headers, TypeOK
<1> QED
  BY <1>1, ProxyInvariant, PTL

(* What is sent to the Backend has divisor's own headers and no            *)
(* hop-by-hop ones, listed or nominated, however often requests run        *)
(* through middlewares or interleave.                                      *)
THEOREM HeadersForwarded == Spec => []ForwardedHeaders
<1>1. Inv => ForwardedHeaders
  BY DEF Inv, Handlers, LocalsOK, Forwarded, ForwardedHeaders
<1> QED
  BY <1>1, ProxyInvariant, PTL

(* Every error of the handler reaches the client as one, and no answer     *)
(* passes hop-by-hop headers on.                                           *)
THEOREM ErrorsTold == Spec => []ErrorsReachClient
<1>1. Inv => ErrorsReachClient
  BY DEF Inv, Handlers, LocalsOK, ErrorTold, ErrorsReachClient
<1> QED
  BY <1>1, ProxyInvariant, PTL

(* The compare-and-swap loop loses no recording and no reset: whatever is  *)
(* stored was computed from the value it replaces.                         *)
THEOREM BlendsLatest == Spec => SamplesBlend
<1> DEFINE Blend == recentResTime' # recentResTime =>
                      \/ recentResTime' = 0
                      \/ \E r \in Requests :
                           recentResTime' = Smoothed(recentResTime, req[r].micros)
<1>1. [Next]_vars => [Blend]_vars
  <2> SUFFICES ASSUME Next PROVE Blend
    OBVIOUS
  <2>1. CASE ResetRecentResponseTime \/ Stat
    BY <2>1 DEF ResetRecentResponseTime, Stat, counters
  <2>2. ASSUME NEW r \in Requests, ReverseProxyHandler(r), recentResTime' # recentResTime
        PROVE  recentResTime' = Smoothed(recentResTime, req[r].micros)
    <3>1. CASE storeRecentResTime(r)
      BY <2>2, <3>1 DEF storeRecentResTime, LoadRecent, CompareAndSwap, Retry, Swap,
                        counters
    <3>2. CASE Enter(r) \/ PreReq(r) \/ RunOnRequest(r) \/ DoStart(r) \/ RunOnResponse(r)
      BY <2>2, <3>2 DEF Enter, PreReq, RunOnRequest, RunOnResponse, RunOn, DoStart, counters
    <3>3. CASE Finish(r) \/ recordResponseTime(r) \/ Return(r) \/ Do(r)
      BY <2>2, <3>3 DEF Finish, recordResponseTime, Return, Do, counters
    <3> QED
      BY <2>2, <3>1, <3>2, <3>3 DEF ReverseProxyHandler, HandlerGoesOn
  <2> QED
    BY <2>1, <2>2 DEF Next
<1> QED
  BY <1>1, PTL DEF Spec, SamplesBlend

-----------------------------------------------------------------------------
(* The lifetime average.  Fastest is the shortest time a request takes.    *)
Fastest == CHOOSE e \in Elapsed : \A f \in Elapsed : e <= f

\* Requests whose time is added and which are not counted yet.
Adding == {r \in Requests : req[r].at = "addCount"}

(* The time that was added pays for every request that is counted or about *)
(* to be; so it does for the count that a caller of Stat has loaded, since *)
(* the time only grows until it is loaded too.                             *)
Undiluted ==
  /\ IsFiniteSet(Adding)
  /\ totalResTime >= Fastest * (measuredRequestCount + Cardinality(Adding))
  /\ stat.at = "total" => totalResTime >= Fastest * stat.measured
  /\ stat.at = "filled" => stat.total >= Fastest * stat.measured

(* There is a shortest time.                                               *)
LEMMA FastestProperties ==
  Fastest \in Elapsed /\ Fastest \in Nat /\ \A f \in Elapsed : Fastest <= f
<1>1. Elapsed \subseteq Nat /\ Elapsed # {}
  BY ProxyClientAssumption
<1>2. \E e \in Elapsed : \A f \in Elapsed : ~ (<<f, e>> \in OpToRel(<, Nat))
  BY <1>1, NatLessThanWellFounded, WFMin
<1>3. PICK e \in Elapsed : \A f \in Elapsed : ~ (f < e)
  BY <1>1, <1>2 DEF OpToRel
<1>4. \A f \in Elapsed : e <= f
  BY <1>1, <1>3
<1>5. Fastest \in Elapsed /\ \A f \in Elapsed : Fastest <= f
  BY <1>4 DEF Fastest
<1> QED
  BY <1>1, <1>5

(* The products that the average is compared with.                         *)
LEMMA Products ==
  ASSUME NEW m \in Nat, NEW a \in Nat, NEW b \in Nat
  PROVE  /\ m * a \in Nat
         /\ m * (a + b) >= m * a
         /\ m * (a + 1) = m * a + m
<1>1. m * (a + b) = m * a + m * b
  OBVIOUS
<1>2. m * b \in Nat /\ m * a \in Nat
  OBVIOUS
<1> QED
  BY <1>1, <1>2

(* A step of a request: the time is added before the request is counted.   *)
LEMMA UndilutedMoves ==
  ASSUME Inv, Undiluted, NEW r \in Requests, Moves(req[r], req'[r]), stat' = stat,
         \A s \in Requests \ {r} : req'[s] = req[s]
  PROVE  Undiluted'
<1> DEFINE n == Cardinality(Adding)
           k == measuredRequestCount + n
<1>1. n \in Nat /\ IsFiniteSet(Adding)
  BY FS_CardinalityType DEF Undiluted
<1>2. /\ totalResTime \in Nat /\ measuredRequestCount \in Nat /\ stat.measured \in Nat
      /\ Fastest \in Nat
  BY FastestProperties DEF Inv, Counters
<1>3. /\ totalResTime >= Fastest * k
      /\ stat.at = "total" => totalResTime >= Fastest * stat.measured
      /\ stat.at = "filled" => stat.total >= Fastest * stat.measured
  BY DEF Undiluted
<1>4. k \in Nat
  BY <1>1, <1>2
<1>5. CASE AddsTime(req[r], req'[r])
  <2>1. Adding' = Adding \cup {r} /\ r \notin Adding
    BY <1>5 DEF AddsTime, Adding
  <2>2. IsFiniteSet(Adding') /\ Cardinality(Adding') = n + 1
    BY <1>1, <2>1, FS_AddElement
  <2>3. req[r].micros \in Elapsed /\ req[r].micros \in Nat
    BY <1>5, ProxyClientAssumption DEF AddsTime, Inv, Handlers, LocalsOK
  <2>4. Fastest <= req[r].micros
    BY <2>3, FastestProperties
  <2>5. totalResTime' = totalResTime + req[r].micros
        /\ measuredRequestCount' = measuredRequestCount
    BY <1>5 DEF AddsTime
  <2>6. measuredRequestCount' + Cardinality(Adding') = k + 1
    BY <1>1, <1>2, <2>2, <2>5
  <2>7. Fastest * (k + 1) = Fastest * k + Fastest /\ Fastest * k \in Nat
    BY <1>2, <1>4, Products
  <2>8. Fastest * stat.measured \in Nat
    BY <1>2, Products
  <2> HIDE DEF n, k
  <2>9. totalResTime' >= Fastest * (measuredRequestCount' + Cardinality(Adding'))
    BY <1>2, <1>3, <2>3, <2>4, <2>5, <2>6, <2>7
  <2>10. stat.at = "total" => totalResTime' >= Fastest * stat.measured
    BY <1>2, <1>3, <2>3, <2>5, <2>8
  <2> QED
    BY <1>3, <2>2, <2>9, <2>10 DEF Undiluted
<1>6. CASE AddsCount(req[r], req'[r])
  <2>1. Adding' = Adding \ {r} /\ r \in Adding
    BY <1>6 DEF AddsCount, Adding
  <2>2. IsFiniteSet(Adding') /\ Cardinality(Adding') = n - 1
    BY <1>1, <2>1, FS_RemoveElement
  <2>3. totalResTime' = totalResTime /\ measuredRequestCount' = measuredRequestCount + 1
    BY <1>6 DEF AddsCount
  <2>4. measuredRequestCount' + Cardinality(Adding') = k
    BY <1>1, <1>2, <2>2, <2>3
  <2> QED
    BY <1>3, <2>2, <2>3, <2>4 DEF Undiluted
<1>7. CASE Enters(req[r], req'[r]) \/ Returns(req[r], req'[r]) \/ Proceeds(req[r], req'[r])
  <2>1. req[r].at # "addCount" /\ req'[r].at # "addCount"
    BY <1>7 DEF Enters, Returns, Proceeds, Idle
  <2>2. Adding' = Adding
    BY <2>1 DEF Adding
  <2>3. totalResTime' = totalResTime /\ measuredRequestCount' = measuredRequestCount
    BY <1>7 DEF Enters, Returns, Proceeds
  <2> QED
    BY <2>2, <2>3 DEF Undiluted
<1> QED
  BY <1>5, <1>6, <1>7 DEF Moves

(* A step of Stat's caller: the count is loaded before the time.           *)
LEMMA UndilutedStat ==
  ASSUME Inv, Undiluted, Stat
  PROVE  Undiluted'
<1>1. UNCHANGED <<totalResTime, measuredRequestCount>> /\ Adding' = Adding
  BY DEF Stat, counters, lifetime, Adding
<1>2. /\ totalResTime \in Nat /\ measuredRequestCount \in Nat /\ Fastest \in Nat
      /\ stat \in [at : {"idle", "average", "total", "filled"}, rc : Nat, measured : Nat,
                   total : Nat]
      /\ Cardinality(Adding) \in Nat
  BY FastestProperties, FS_CardinalityType DEF Inv, Counters, Undiluted
<1>3. totalResTime >= Fastest * measuredRequestCount
  <2>1. /\ Fastest * measuredRequestCount \in Nat
        /\ Fastest * (measuredRequestCount + Cardinality(Adding))
             >= Fastest * measuredRequestCount
    BY <1>2, Products
  <2>2. Fastest * (measuredRequestCount + Cardinality(Adding)) \in Nat
    BY <1>2, Products
  <2> QED
    BY <1>2, <2>1, <2>2 DEF Undiluted
<1>4. /\ stat'.at = "total" => totalResTime >= Fastest * stat'.measured
      /\ stat'.at = "filled" => stat'.total >= Fastest * stat'.measured
  <2>1. CASE stat' = NoStat
    BY <2>1 DEF NoStat
  <2>2. CASE stat' = [stat EXCEPT !.at = "average", !.rc = totalRequestCount]
    BY <1>2, <2>2
  <2>3. CASE /\ stat' = [stat EXCEPT !.measured = measuredRequestCount,
                            !.at = IF measuredRequestCount = 0 THEN "filled" ELSE "total"]
    <3>1. /\ stat'.measured = measuredRequestCount /\ stat'.total \in Nat
          /\ stat'.at = "filled" => measuredRequestCount = 0
      BY <1>2, <2>3
    <3>2. Fastest * 0 = 0
      BY <1>2
    <3> QED
      BY <1>2, <1>3, <3>1, <3>2
  <2>4. CASE stat.at = "total" /\ stat' = [stat EXCEPT !.at = "filled", !.total = totalResTime]
    <3>1. stat'.at = "filled" /\ stat'.total = totalResTime /\ stat'.measured = stat.measured
      BY <1>2, <2>4
    <3> QED
      BY <2>4, <3>1 DEF Undiluted
  <2> QED
    BY <2>1, <2>2, <2>3, <2>4 DEF Stat, AvgResponseTime
<1> QED
  BY <1>1, <1>4 DEF Undiluted

(* The average that Stat reports is never diluted by requests that are in  *)
(* the middle of being recorded, however many there are.                   *)
THEOREM AverageSound == Spec => []AverageNotDiluted
<1>1. NewProxyClient => Undiluted
  <2> SUFFICES ASSUME NewProxyClient PROVE Undiluted
    OBVIOUS
  <2>1. Adding = {} /\ totalResTime = 0 /\ measuredRequestCount = 0 /\ stat.at = "idle"
    BY DEF NewProxyClient, Adding, Idle, NoStat
  <2>2. IsFiniteSet(Adding) /\ Cardinality(Adding) = 0
    BY <2>1, FS_EmptySet
  <2>3. Fastest * (0 + 0) = 0
    BY FastestProperties
  <2> QED
    BY <2>1, <2>2, <2>3 DEF Undiluted
<1>2. Inv /\ Undiluted /\ [Next]_vars => Undiluted'
  <2> SUFFICES ASSUME Inv, Undiluted, [Next]_vars PROVE Undiluted'
    OBVIOUS
  <2>1. ASSUME NEW r \in Requests, ReverseProxyHandler(r) PROVE Undiluted'
    <3>1. Stepped(r)
      BY <2>1, HandlerStep
    <3>2. stat' = stat
      BY <3>1 DEF Stepped
    <3> QED
      BY <3>1, <3>2, SteppedKeeps, UndilutedMoves
  <2>2. CASE ResetRecentResponseTime \/ UNCHANGED vars
    BY <2>2 DEF ResetRecentResponseTime, vars, counters, lifetime, Undiluted, Adding
  <2> QED
    BY <2>1, <2>2, UndilutedStat DEF Next
<1>3. Undiluted => AverageNotDiluted
  BY FastestProperties DEF Undiluted, AverageNotDiluted
<1> QED
  BY <1>1, <1>2, <1>3, ProxyInvariant, PTL DEF Spec

-----------------------------------------------------------------------------
(* With what the requests did noted down.                                  *)
hvars == <<vars, ticket, wrote, unmeasured>>

(* The notes do not constrain the client.                                  *)
LEMMA NotesHarmless == HSpec => Spec
<1>1. HInit => NewProxyClient
  BY DEF HInit
<1>2. [HNext]_hvars => [Next]_vars
  BY DEF HNext, hvars
<1> QED
  BY <1>1, <1>2, PTL DEF HSpec, Spec, hvars

(* A request's own number is at most what it goes on to put in its header. *)
Tickets ==
  /\ ticket \in [Requests -> Nat]
  /\ \A r \in Requests :
       /\ req[r].at = "preReq" => ticket[r] <= totalRequestCount
       /\ req[r].at \in {"onRequest", "sent"} =>
            ticket[r] <= req[r].incremental /\ req[r].incremental <= totalRequestCount

(* A number is kept, or forgotten, until the next request enters.          *)
LEMMA TicketNotes ==
  ASSUME Inv, Inv', Tickets, HNext
  PROVE  /\ ticket' \in [Requests -> Nat]
         /\ \A r \in Requests :
              \/ req[r].at = "idle" /\ req'[r].at = "preReq"
                 /\ ticket'[r] = totalRequestCount'
              \/ ~ (req[r].at = "idle" /\ req'[r].at = "preReq") /\ ticket'[r] <= ticket[r]
<1> DEFINE new(r) ==
             CASE req'[r].incremental = 0 /\ req'[r].at # "preReq" -> 0
               [] req[r].at = "idle" /\ req'[r].at = "preReq" -> totalRequestCount'
               [] OTHER -> ticket[r]
<1>1. ticket' = [r \in Requests |-> new(r)]
  BY DEF HNext
<1>2. ASSUME NEW r \in Requests
      PROVE  /\ new(r) \in Nat
             /\ \/ req[r].at = "idle" /\ req'[r].at = "preReq" /\ new(r) = totalRequestCount'
                \/ ~ (req[r].at = "idle" /\ req'[r].at = "preReq") /\ new(r) <= ticket[r]
  <2>1. totalRequestCount' \in Nat /\ ticket[r] \in Nat
    BY ProxyClientAssumption DEF Inv, Counters, Tickets
  <2>2. CASE req[r].at = "idle" /\ req'[r].at = "preReq"
    <3>1. new(r) = totalRequestCount'
      BY <2>2
    <3> QED
      BY <2>1, <2>2, <3>1
  <2>3. CASE ~ (req[r].at = "idle" /\ req'[r].at = "preReq")
    <3>1. new(r) = 0 \/ new(r) = ticket[r]
      BY <2>3
    <3> QED
      BY <2>1, <2>3, <3>1
  <2> QED
    BY <2>2, <2>3
<1> HIDE DEF new
<1> QED
  BY <1>1, <1>2

(* The numbers through a step of a request.                                *)
LEMMA TicketsStep ==
  ASSUME Inv, Tickets, HNext
  PROVE  Tickets'
<1>1. Inv'
  BY Invariant_Next DEF HNext
<1>2. /\ totalRequestCount \in Nat /\ totalRequestCount' \in Nat
      /\ \A s \in Requests : ticket[s] \in Nat /\ ticket'[s] \in Nat
                             /\ req[s].incremental \in Nat
      /\ ticket' \in [Requests -> Nat]
  BY <1>1, TicketNotes, ProxyClientAssumption
     DEF Inv, Counters, Handlers, LocalsOK, Locals, Tickets
<1>3. ASSUME NEW s \in Requests, req'[s] = req[s], totalRequestCount' >= totalRequestCount
      PROVE  /\ req'[s].at = "preReq" => ticket'[s] <= totalRequestCount'
             /\ req'[s].at \in {"onRequest", "sent"} =>
                  /\ ticket'[s] <= req'[s].incremental
                  /\ req'[s].incremental <= totalRequestCount'
  <2>1. ticket'[s] <= ticket[s]
    BY <1>1, <1>3, TicketNotes
  <2> QED
    BY <1>2, <1>3, <2>1 DEF Tickets
<1>4. ASSUME NEW r \in Requests, ReverseProxyHandler(r)
      PROVE  Tickets'
  <2>1. /\ Moves(req[r], req'[r])
        /\ \A s \in Requests \ {r} : req'[s] = req[s]
    BY <1>4, HandlerStep, SteppedKeeps
  <2>2. totalRequestCount' >= totalRequestCount
    BY <1>2, <2>1 DEF Moves, Enters, AddsTime, AddsCount, Returns, Proceeds
  <2>3. req'[r].at = "preReq" => ticket'[r] <= totalRequestCount'
    <3> SUFFICES ASSUME req'[r].at = "preReq" PROVE ticket'[r] <= totalRequestCount'
      OBVIOUS
    <3>1. req[r].at = "idle"
      BY <2>1 DEF Moves, Enters, AddsTime, AddsCount, Returns, Proceeds, Idle
    <3>2. ticket'[r] = totalRequestCount'
      BY <1>1, <3>1, TicketNotes
    <3> QED
      BY <1>2, <3>2
  <2>4. req'[r].at \in {"onRequest", "sent"} =>
          /\ ticket'[r] <= req'[r].incremental
          /\ req'[r].incremental <= totalRequestCount'
    <3> SUFFICES ASSUME req'[r].at \in {"onRequest", "sent"}
                 PROVE  /\ ticket'[r] <= req'[r].incremental
                        /\ req'[r].incremental <= totalRequestCount'
      OBVIOUS
    <3>1. Numbered(req[r], req'[r]) /\ totalRequestCount' = totalRequestCount
      BY <2>1 DEF Moves, Enters, AddsTime, AddsCount, Returns, Proceeds, Idle
    <3>2. ticket'[r] <= ticket[r]
      BY <1>1, TicketNotes
    <3>3. CASE req[r].at = "preReq" /\ req'[r].incremental = totalRequestCount
      BY <1>2, <3>1, <3>2, <3>3 DEF Tickets
    <3>4. CASE req[r].at \in {"onRequest", "sent"}
               /\ req'[r].incremental = req[r].incremental
      BY <1>2, <3>1, <3>2, <3>4 DEF Tickets
    <3> QED
      BY <3>1, <3>3, <3>4 DEF Numbered
  <2> QED
    BY <1>2, <1>3, <2>1, <2>2, <2>3, <2>4 DEF Tickets
<1>5. CASE ResetRecentResponseTime \/ Stat
  <2>1. req' = req /\ totalRequestCount' = totalRequestCount
    BY <1>5, OthersKeep
  <2>2. \A s \in Requests : req'[s] = req[s]
    BY <2>1
  <2> QED
    BY <1>2, <1>3, <2>1, <2>2 DEF Tickets
<1> QED
  BY <1>4, <1>5 DEF HNext, Next

(* $incremental never repeats a number that an earlier, finished request   *)
(* had, although it is loaded some time after the request's own addition.  *)
THEOREM IncrementalSound == HSpec => []IncrementalInRange
<1>1. HInit => Tickets
  BY DEF HInit, NewProxyClient, Idle, Tickets
<1>2. Inv /\ Tickets /\ [HNext]_hvars => Tickets'
  <2>1. ASSUME Tickets, UNCHANGED hvars PROVE Tickets'
    BY <2>1 DEF hvars, vars, counters, Tickets
  <2> QED
    BY <2>1, TicketsStep
<1>3. Tickets => IncrementalInRange
  BY DEF Tickets, IncrementalInRange
<1> QED
  BY <1>1, <1>2, <1>3, NotesHarmless, ProxyInvariant, PTL DEF HSpec, hvars

(* The requests that are in the handler and not measured, and the          *)
(* accounts of all that ever entered.                                      *)
InHandler == {r \in Requests : Open(req[r])}

Accounts ==
  /\ IsFiniteSet(InHandler)
  /\ unmeasured \in Nat
  /\ totalRequestCount = measuredRequestCount + unmeasured + Cardinality(InHandler)

Failed == {r \in Requests : req[r].returned # "nil" /\ req'[r].at = "idle"}

(* A step in which no request returns an error changes no other account.   *)
LEMMA NoneFailed ==
  ASSUME unmeasured \in Nat, HNext, Failed = {}
  PROVE  unmeasured' = unmeasured
<1>1. unmeasured' = unmeasured + Cardinality(Failed)
  BY DEF HNext, Failed
<1>2. Cardinality(Failed) = 0
  BY FS_EmptySet
<1> QED
  BY <1>1, <1>2

(* The accounts through a step of a request.                               *)
LEMMA AccountsMoves ==
  ASSUME Inv, Accounts, HNext, NEW r \in Requests, Moves(req[r], req'[r]),
         \A s \in Requests \ {r} : req'[s] = req[s]
  PROVE  Accounts'
<1>1. /\ totalRequestCount \in Nat /\ measuredRequestCount \in Nat
      /\ unmeasured \in Nat
      /\ Cardinality(InHandler) \in Nat /\ IsFiniteSet(InHandler)
      /\ totalRequestCount = measuredRequestCount + unmeasured + Cardinality(InHandler)
  BY ProxyClientAssumption, FS_CardinalityType DEF Inv, Counters, Accounts
<1>2. \A s \in Requests : /\ LocalsOK(req[s])
                          /\ req[s].returned # "nil" => req[s].at = "answered"
  BY DEF Inv, Handlers, LocalsOK
<1>3. Failed \subseteq {r} /\ (r \in Failed => Returns(req[r], req'[r]))
  BY <1>2 DEF Failed, Moves, Enters, AddsTime, AddsCount, Returns, Proceeds
<1>4. CASE Enters(req[r], req'[r])
  <2>1. InHandler' = InHandler \cup {r} /\ r \notin InHandler
    BY <1>4 DEF Enters, InHandler, Open, Counted
  <2>2. IsFiniteSet(InHandler') /\ Cardinality(InHandler') = Cardinality(InHandler) + 1
    BY <1>1, <2>1, FS_AddElement
  <2>3. Failed = {}
    BY <1>3, <1>4 DEF Enters, Failed
  <2>4. unmeasured' = unmeasured
    BY <1>1, <2>3, NoneFailed
  <2> QED
    BY <1>1, <1>4, <2>2, <2>4 DEF Enters, Accounts
<1>5. CASE AddsTime(req[r], req'[r]) \/ Proceeds(req[r], req'[r])
  <2>1. Open(req'[r]) <=> Open(req[r])
    BY <1>5 DEF AddsTime, Proceeds, Open, Counted
  <2>2. InHandler' = InHandler
    BY <2>1 DEF InHandler
  <2>3. Failed = {}
    BY <1>3, <1>5 DEF AddsTime, Proceeds, Failed
  <2>4. unmeasured' = unmeasured
    BY <1>1, <2>3, NoneFailed
  <2> QED
    BY <1>1, <1>5, <2>2, <2>4 DEF AddsTime, Proceeds, Accounts
<1>6. CASE AddsCount(req[r], req'[r])
  <2>1. InHandler' = InHandler \ {r} /\ r \in InHandler
    BY <1>6 DEF AddsCount, InHandler, Open, Counted
  <2>2. IsFiniteSet(InHandler') /\ Cardinality(InHandler') = Cardinality(InHandler) - 1
    BY <1>1, <2>1, FS_RemoveElement
  <2>3. Failed = {}
    BY <1>3, <1>6 DEF AddsCount, Failed
  <2>4. unmeasured' = unmeasured
    BY <1>1, <2>3, NoneFailed
  <2> QED
    BY <1>1, <1>6, <2>2, <2>4 DEF AddsCount, Accounts
<1>7. CASE Returns(req[r], req'[r])
  <2>1. req[r].at = "answered" /\ req'[r].at = "idle" /\ ~ Open(req'[r])
        /\ UNCHANGED <<totalRequestCount, measuredRequestCount>>
    BY <1>7 DEF Returns, Open, Idle
  <2>2. CASE req[r].returned = "nil"
    <3>1. ~ Open(req[r])
      BY <1>2, <2>1, <2>2 DEF LocalsOK, ErrorTold, Open, Counted
    <3>2. InHandler' = InHandler
      BY <2>1, <3>1 DEF InHandler
    <3>3. Failed = {}
      BY <1>3, <2>2 DEF Failed
    <3>4. unmeasured' = unmeasured
      BY <1>1, <3>3, NoneFailed
    <3> QED
      BY <1>1, <2>1, <3>2, <3>4 DEF Accounts
  <2>3. CASE req[r].returned # "nil"
    <3>1. Open(req[r])
      BY <2>1, <2>3 DEF Open, Counted
    <3>2. InHandler' = InHandler \ {r} /\ r \in InHandler
      BY <2>1, <3>1 DEF InHandler
    <3>3. IsFiniteSet(InHandler') /\ Cardinality(InHandler') = Cardinality(InHandler) - 1
      BY <1>1, <3>2, FS_RemoveElement
    <3>4. Failed = {r}
      BY <1>3, <2>1, <2>3 DEF Failed
    <3>5. Cardinality(Failed) = 1
      BY <3>4, FS_Singleton
    <3>6. unmeasured' = unmeasured + 1
      BY <3>5 DEF HNext, Failed
    <3> QED
      BY <1>1, <2>1, <3>3, <3>6 DEF Accounts
  <2> QED
    BY <2>2, <2>3
<1> QED
  BY <1>4, <1>5, <1>6, <1>7 DEF Moves

(* Every request is accounted for exactly once, as measured, failed or     *)
(* still in the handler, at every moment of any interleaving.              *)
THEOREM AllAccounted == HSpec => []MeasuredAreSuccesses
<1>1. HInit => Accounts
  <2> SUFFICES ASSUME HInit PROVE Accounts
    OBVIOUS
  <2>1. InHandler = {}
    BY DEF HInit, NewProxyClient, InHandler, Open, Idle
  <2> QED
    BY <2>1, FS_EmptySet DEF HInit, NewProxyClient, Accounts
<1>2. Inv /\ Accounts /\ [HNext]_hvars => Accounts'
  <2> SUFFICES ASSUME Inv, Accounts, [HNext]_hvars PROVE Accounts'
    OBVIOUS
  <2>1. CASE UNCHANGED hvars
    BY <2>1 DEF hvars, vars, counters, lifetime, Accounts, InHandler
  <2>2. ASSUME HNext, NEW r \in Requests, ReverseProxyHandler(r) PROVE Accounts'
    BY <2>2, HandlerStep, SteppedKeeps, AccountsMoves
  <2>3. CASE HNext /\ (ResetRecentResponseTime \/ Stat)
    <3>1. req' = req /\ UNCHANGED <<totalRequestCount, measuredRequestCount>>
      BY <2>3, OthersKeep
    <3>2. Failed = {}
      BY <3>1 DEF Failed, Inv, Handlers, LocalsOK
    <3>3. unmeasured' = unmeasured
      BY <2>3, <3>2, NoneFailed DEF Accounts
    <3> QED
      BY <3>1, <3>3 DEF Accounts, InHandler
  <2> QED
    BY <2>1, <2>2, <2>3 DEF HNext, Next
<1>3. Accounts => MeasuredAreSuccesses
  <2> DEFINE counted == {r \in Requests :
               /\ req[r].at \in {"load", "swap", "answered"}
               /\ req[r].returned = "nil" /\ req[r].serverErr = "nil"}
  <2>1. InHandler = {r \in Requests \ counted : req[r].at # "idle"}
    BY DEF InHandler, Open, Counted
  <2> QED
    BY <2>1 DEF Accounts, MeasuredAreSuccesses
<1> QED
  BY <1>1, <1>2, <1>3, NotesHarmless, ProxyInvariant, PTL DEF HSpec, hvars

=============================================================================
