------------------------------- MODULE Server -------------------------------
(***************************************************************************)
(* internal/server/server.go and internal/proxy/nethttp_adapter.go: the    *)
(* client-facing listener on either stack, from the arrival of a request   *)
(* to its answer.  fasthttp (HTTP/1.1) reads a whole request before it     *)
(* calls the handler; on net/http (HTTP/2) the adapter decides how much of *)
(* the body it reads itself and what it lets the ProxyClient stream.       *)
(*                                                                         *)
(* A request is what its client sends: the length it declares (-1 for      *)
(* none), the size of the body, whether there is a body to read, and what  *)
(* goes wrong: the headers are too big, the client breaks off after size   *)
(* bytes ("cut") or goes silent ("stall").                                 *)
(***************************************************************************)
EXTENDS Config

CONSTANTS
    Requests,   \* client requests
    Sends       \* bound: what the client of each request may send

Kinds ==
    [declared : Nat \cup {-1}, size : Nat, body : BOOLEAN,
     fault : {"none", "header", "cut", "stall"}]

ASSUME ServerAssumption ==
    /\ DOMAIN Sends = Requests
    /\ \A r \in Requests : \A q \in Sends[r] :
         /\ q \in Kinds
         /\ q.fault = "none" => q.declared \in {-1, q.size}
         /\ q.fault \in {"cut", "stall"} => q.declared = -1 \/ q.size < q.declared
         /\ ~ q.body => q.size = 0 /\ q.declared = 0

VARIABLES
    config,     \* the configuration: as parsed, then as prepared
    listener,   \* "none", "open", or "closed" by Shutdown
    serve,      \* the goroutine that serves: "none", "starting", "serving", "ended"
    serveErr,   \* whether the error that ended it is in the channel
    req         \* each request

serverVars == <<listener, serve, serveErr, req>>

Nothing == [declared |-> 0, size |-> 0, body |-> FALSE, fault |-> "none"]

(* sent is what the client sends; source where the handler gets the body   *)
(* from, length what the Backend is told, got what it gets and whole       *)
(* whether it sees the end of it; res is what the client gets, of which    *)
(* announced is the length and hop a hop-by-hop header.                    *)
NotSent == [source |-> "none", length |-> 0, got |-> 0, whole |-> FALSE]
NoAnswer == [status |-> 0, announced |-> 0, written |-> 0, hop |-> FALSE]
Idle == [at |-> "idle", sent |-> Nothing, fwd |-> NotSent, res |-> NoAnswer]

NoServer ==
    /\ listener = "none" /\ serve = "none" /\ serveErr = FALSE
    /\ req = [r \in Requests |-> Idle]

Http2 == config.server.httpVersion = "http2"
Limit == config.server.maxRequestBodySize

Open == {r \in Requests : req[r].at \in {"reading", "handler"}}

Arrive(r) ==
    /\ listener = "open" /\ serve = "serving" /\ req[r].at = "idle"
    /\ \E q \in Sends[r] : req' = [req EXCEPT ![r] = [Idle EXCEPT !.at = "reading", !.sent = q]]
    /\ UNCHANGED <<config, listener, serve, serveErr>>

-----------------------------------------------------------------------------
(* Answers                                                                 *)

Message(status) == [status |-> status, announced |-> 1, written |-> 1, hop |-> FALSE]

Answer(r, res) ==
    /\ req' = [req EXCEPT ![r].at = "answered", ![r].res = res]
    /\ UNCHANGED <<config, listener, serve, serveErr>>

Handle(r, fwd) ==
    /\ req' = [req EXCEPT ![r].at = "handler", ![r].fwd = fwd]
    /\ UNCHANGED <<config, listener, serve, serveErr>>

writeBodyTooLarge == Message(413)

ErrorHandler(err) ==
    CASE err = "ErrBodyTooLarge" -> Message(413)
      [] err = "ErrSmallBuffer" -> Message(431)
      [] err = "timeout" -> Message(408)
      [] OTHER -> Message(400)

\* How reading the whole body ends when it may have Limit bytes.
ReadAll(q) ==
    IF q.declared > Limit \/ (q.declared = -1 /\ q.size > Limit) THEN "ErrBodyTooLarge"
    ELSE CASE q.fault = "cut" -> "unexpected EOF"
           [] q.fault = "stall" -> "timeout"
           [] OTHER -> "nil"

\* Without a read_timeout the reader of a silent client waits on.
ReadEnds(q) == ReadAll(q) = "timeout" => config.server.readTimeout > 0

-----------------------------------------------------------------------------
(* fasthttp                                                                *)

\* A body that was read whole is sent on with its own length.
ServeConn(r) ==
    LET q == req[r].sent IN
    /\ ~ Http2 /\ req[r].at = "reading"
    /\ \/ q.fault = "header" /\ Answer(r, ErrorHandler("ErrSmallBuffer"))
       \/ /\ q.fault # "header" /\ ReadEnds(q)
          /\ IF ReadAll(q) = "nil"
             THEN Handle(r, [NotSent EXCEPT !.source = "buffer", !.length = q.size])
             ELSE Answer(r, ErrorHandler(ReadAll(q)))

\* fasthttp sets the length of what it writes itself.
WriteResponse(resp) ==
    [status |-> resp.status, announced |-> resp.size, written |-> resp.size,
     hop |-> resp.close]

-----------------------------------------------------------------------------
(* net/http                                                                *)

\* -1 makes fasthttp send the body in chunks.
ConvertNetHTTPRequestToFastHTTPRequest(q, source) ==
    [NotSent EXCEPT
        !.source = IF q.body THEN source ELSE "none",
        !.length = CASE ~ q.body -> 0 [] q.body /\ q.declared <= 0 -> -1 [] OTHER -> q.declared]

RefusedByLength(q) == q.declared > Limit

LengthLess(q) == q.declared < 0 /\ q.body

\* Mutant: a length-less body is streamed like any other.
ServeHTTPStreamsAll(r) ==
    LET q == req[r].sent IN
    \/ RefusedByLength(q) /\ Answer(r, writeBodyTooLarge)
    \/ /\ ~ RefusedByLength(q)
       /\ Handle(r, ConvertNetHTTPRequestToFastHTTPRequest(q, "client"))

\* Mutant: a read error other than the limit is overlooked.
ServeHTTPKeepsPart(r) ==
    LET q == req[r].sent IN
    \/ RefusedByLength(q) /\ Answer(r, writeBodyTooLarge)
    \/ /\ LengthLess(q) /\ ReadEnds(q)
       /\ IF ReadAll(q) = "ErrBodyTooLarge" THEN Answer(r, writeBodyTooLarge)
          ELSE Handle(r, ConvertNetHTTPRequestToFastHTTPRequest(q, "buffer"))
    \/ /\ ~ RefusedByLength(q) /\ ~ LengthLess(q)
       /\ Handle(r, ConvertNetHTTPRequestToFastHTTPRequest(q, "client"))

\* Up to the call of the Balancer.
ServeHTTP(r) ==
    LET q == req[r].sent IN
    \/ RefusedByLength(q) /\ Answer(r, writeBodyTooLarge)
    \/ /\ LengthLess(q) /\ ReadEnds(q)
       /\ CASE ReadAll(q) = "ErrBodyTooLarge" -> Answer(r, writeBodyTooLarge)
            [] ReadAll(q) = "nil" ->
                 Handle(r, ConvertNetHTTPRequestToFastHTTPRequest(q, "buffer"))
            [] OTHER -> Answer(r, Message(400))
    \/ /\ ~ RefusedByLength(q) /\ ~ LengthLess(q)
       /\ Handle(r, ConvertNetHTTPRequestToFastHTTPRequest(q, "client"))

\* net/http answers 431 itself.
ServeNetHttp(r) ==
    /\ Http2 /\ req[r].at = "reading"
    /\ \/ req[r].sent.fault = "header" /\ Answer(r, Message(431))
       \/ req[r].sent.fault # "header" /\ ServeHTTP(r)

\* Mutant: every header is copied.
CopyAllHeaders(resp) ==
    [status |-> resp.status, announced |-> resp.contentLength, written |-> resp.size,
     hop |-> resp.close]

\* The rest of ServeHTTP: hop-by-hop headers and the stored length are dropped.
CopyResponse(resp) ==
    [status |-> resp.status, announced |-> resp.size, written |-> resp.size, hop |-> FALSE]

-----------------------------------------------------------------------------
(* The handler, Balancer.Serve: what ProxyClient leaves in the response.   *)
(* contentLength is the stored one, which SetBody does not touch: it is    *)
(* stale after a middleware's or an error's SetBody.                       *)

BackendResponse == [status |-> 200, size |-> 1, contentLength |-> 1, close |-> FALSE]

Rewritten == [BackendResponse EXCEPT !.size = 2]

Failure(status) == [status |-> status, size |-> 2, contentLength |-> 0, close |-> TRUE]

\* A body the client does not finish makes Do fail and is never whole.
ClientFails(r) == req[r].fwd.source = "client" /\ req[r].sent.fault # "none"

Responses(r, rewriting) ==
    {Failure(502), Failure(503), Failure(504)} \cup
    (IF ClientFails(r) THEN {} ELSE {BackendResponse}) \cup
    (IF rewriting /\ ~ ClientFails(r) THEN {Rewritten} ELSE {})

ServeBalancer(r, rewriting) ==
    /\ req[r].at = "handler"
    /\ \E resp \in Responses(r, rewriting) :
         req' = [req EXCEPT
            ![r].at = "answered",
            ![r].fwd.got = IF resp.status = 503 THEN 0 ELSE req[r].sent.size,
            ![r].fwd.whole = resp.status # 503 /\ ~ ClientFails(r),
            ![r].res = IF Http2 THEN CopyResponse(resp) ELSE WriteResponse(resp)]
    /\ UNCHANGED <<config, listener, serve, serveErr>>

-----------------------------------------------------------------------------
(* The life of the listener                                                *)

\* serveInBackground's goroutine starts to serve, or finds the server shut down.
ServeStarts(down) ==
    /\ serve = "starting"
    /\ serve' = IF down /\ Http2 THEN "ended" ELSE "serving"
    /\ UNCHANGED <<config, listener, serveErr, req>>

\* Serve returns an error other than that of a shutdown.
ServeFails ==
    /\ serve \in {"starting", "serving"} /\ listener = "open"
    /\ serve' = "ended" /\ serveErr' = TRUE
    /\ UNCHANGED <<config, listener, req>>

=============================================================================
