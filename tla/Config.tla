------------------------------- MODULE Config -------------------------------
(***************************************************************************)
(* pkg/config/config.go and the constructor of pkg/middleware/executor.go: *)
(* what happens to the parsed configuration file before anything runs.     *)
(*                                                                         *)
(* A configuration is a record.  Strings are members of small sets with "" *)
(* for unset, numbers and durations are integers with 0 for unset.  A url  *)
(* is a record of its parts, of which text says whether the string is      *)
(* blank or not a URL at all; a file is named by what is in it.            *)
(***************************************************************************)
EXTENDS Integers, Sequences, FiniteSetsExt

CONSTANTS
    DefaultProxyTimeout,        \* 60 s in the code
    DefaultMaxRequestBodySize   \* bound: 4 MiB in the code

ASSUME ConfigAssumption ==
    /\ DefaultProxyTimeout \in Nat \ {0}
    /\ DefaultMaxRequestBodySize \in Nat \ {0}

\* True of any strings: the defaults are of the type of what they stand for.
ASSUME DefaultsAreStrings ==
    {"", "localhost", "http1.1", "80", "round-robin"} \subseteq STRING

(* What the YAML decoder makes of a file: loads is what compiling the code *)
(* of a middleware and calling its New will give.                          *)
Addresses ==
    [text : {"blank", "malformed", "url"}, scheme : STRING, user : STRING, rest : STRING,
     host : STRING, port : STRING]

BackendConfigs == [url : Addresses, weight : Nat, proxyTimeout : Int]

MiddlewareConfigs ==
    [name : STRING, disabled : BOOLEAN, code : STRING, file : STRING,
     loads : {"ok", "nil", "error", "panic"}]

ServerConfigs ==
    [httpVersion : STRING, certFile : {"", "pair", "other", "missing"},
     keyFile : {"", "pair", "other", "missing"}, readTimeout : Int, proxyTimeout : Int,
     maxRequestBodySize : Int]

Configs ==
    [host : STRING, port : STRING, type : STRING, customHeaders : SUBSET STRING,
     middlewares : Seq(MiddlewareConfigs), healthCheckerTime : Int,
     backends : Seq(BackendConfigs), server : ServerConfigs]

DefaultHealthCheckerTime == 30

ValidTypes ==
    {"round-robin", "w-round-robin", "ip-hash", "random", "least-connection",
     "least-response-time"}

ValidCustomHeaders == {"$remote_addr", "$time", "$uuid", "$incremental"}

OrDefault(value, default) == IF value <= 0 THEN default ELSE value

OrHost(host) == IF host = "" THEN "localhost" ELSE host

\* What a chain of early returns answers: checks lists <<failed, error>> in order.
FirstError(checks) ==
    LET failed == {k \in DOMAIN checks : checks[k][1]}
    IN  IF failed = {} THEN "nil" ELSE checks[Min(failed)][2]

-----------------------------------------------------------------------------
urlError(u) ==
    FirstError(<<
        <<u.text = "blank", "ErrBackendUrlEmpty">>,
        <<u.text = "malformed", "ErrBackendUrlInvalid">>,
        <<u.scheme = "https", "ErrBackendUrlHttps">>,
        <<u.scheme \notin {"", "http"}, "ErrBackendUrlScheme">>,
        <<u.user # "", "ErrBackendUrlUserinfo">>,
        <<u.rest \notin {"", "/"}, "ErrBackendUrlNotHostPort">>,
        <<u.host = "", "ErrBackendUrlNoHost">> >>)

\* host:port and nothing else, 80 being the port of http.
normalizeBackendAddress(u) ==
    [u EXCEPT !.scheme = "", !.rest = "", !.port = IF u.port = "" THEN "80" ELSE u.port]

backendError(c, b) ==
    FirstError(<<
        <<urlError(b.url) # "nil", urlError(b.url)>>,
        <<c.type = "w-round-robin" /\ b.weight <= 0, "ErrInvalidWeight">> >>)

\* The per-connection limits, all filled in alike, are left out.
prepareBackends(c) ==
    [err |-> FirstError([k \in DOMAIN c.backends |->
                <<backendError(c, c.backends[k]) # "nil", backendError(c, c.backends[k])>>]),
     cfg |-> [c EXCEPT !.backends = [k \in DOMAIN c.backends |->
                [c.backends[k] EXCEPT !.url = normalizeBackendAddress(@),
                                      !.proxyTimeout = c.server.proxyTimeout]]]]

-----------------------------------------------------------------------------
\* An unset name is not an error; "missing" stands for a directory too.
IsFileExist(file) == file # "missing"

\* tls.LoadX509KeyPair: the two files are a certificate and its key.
LoadX509KeyPair(s) == s.certFile = "pair" /\ s.keyFile = "pair"

UsesTLS(s) == s.certFile # "" /\ s.keyFile # ""

serverConfigError(s) ==
    FirstError(<<
        <<s.httpVersion = "http2" /\ ~ UsesTLS(s), "ErrHttp2WithoutTls">>,
        <<~ IsFileExist(s.certFile), "ErrNotExist">>,
        <<~ IsFileExist(s.keyFile), "ErrNotExist">>,
        <<UsesTLS(s) /\ ~ LoadX509KeyPair(s), "ErrInvalidTLSKeyPair">> >>)

\* Mutant: only an unset proxy_timeout is filled in.
prepareServerZero(s) ==
    [s EXCEPT !.httpVersion = IF @ = "http2" THEN @ ELSE "http1.1",
              !.proxyTimeout = IF @ = 0 THEN DefaultProxyTimeout ELSE @,
              !.maxRequestBodySize = OrDefault(@, DefaultMaxRequestBodySize)]

\* Anything but http2 is HTTP/1.1.  Zero means the default, not unlimited.
prepareServer(s) ==
    [s EXCEPT !.httpVersion = IF @ = "http2" THEN @ ELSE "http1.1",
              !.proxyTimeout = OrDefault(@, DefaultProxyTimeout),
              !.maxRequestBodySize = OrDefault(@, DefaultMaxRequestBodySize)]

middlewareConfigError(mw) ==
    FirstError(<<
        <<mw.name = "", "name is required">>,
        <<~ mw.disabled /\ mw.code = "" /\ mw.file = "", "either code or file">>,
        <<~ mw.disabled /\ mw.code # "" /\ mw.file # "", "both code and file">> >>)

validateMiddlewares(mws) ==
    FirstError([k \in DOMAIN mws |->
        <<middlewareConfigError(mws[k]) # "nil", middlewareConfigError(mws[k])>>])

-----------------------------------------------------------------------------
\* Mutant: the weights are asked for first.
effectiveTypeAsIs(c) == IF c.type = "" THEN "round-robin" ELSE c.type

\* One Backend needs no weights.
effectiveType(c) ==
    CASE c.type = "" -> "round-robin"
      [] c.type = "w-round-robin" /\ Len(c.backends) = 1 -> "round-robin"
      [] OTHER -> c.type

(* The checks of PrepareConfig up to its first error, and the              *)
(* configuration it leaves behind if there is none.                        *)
PrepareConfig(c) ==
    LET filled   == [c EXCEPT !.host = OrHost(@), !.type = effectiveType(c),
                              !.healthCheckerTime = OrDefault(@, DefaultHealthCheckerTime),
                              !.server = prepareServer(@)]
        backends == prepareBackends(filled)
        mws      == validateMiddlewares(c.middlewares)
    IN  [err |-> FirstError(<<
            <<c.backends = <<>>, "ErrAtLeastOneBackend">>,
            <<c.port = "", "ErrInvalidPort">>,
            <<c.type # "" /\ c.type \notin ValidTypes, "invalid type">>,
            <<~ c.customHeaders \subseteq ValidCustomHeaders, "invalid custom header">>,
            <<mws # "nil", mws>>,
            <<serverConfigError(c.server) # "nil", serverConfigError(c.server)>>,
            <<backends.err # "nil", backends.err>> >>),
         cfg |-> backends.cfg]

(* NewExecutor: no executor without middlewares; a disabled one is passed  *)
(* over; a panic of the interpreter counts as its error.  loads says what  *)
(* compiling the code and calling its New gives.                           *)
NewExecutor(mws) ==
    LET failing(mw) == ~ mw.disabled /\
            \/ (mw.code = "") = (mw.file = "")
            \/ ~ IsFileExist(mw.file)
            \/ mw.loads \in {"error", "panic"}
        loaded == {k \in DOMAIN mws : ~ mws[k].disabled /\ mws[k].loads # "nil"}
    IN  CASE mws = <<>> -> [err |-> FALSE, executor |-> "nil", count |-> 0]
          [] \E k \in DOMAIN mws : failing(mws[k]) ->
                [err |-> TRUE, executor |-> "nil", count |-> 0]
          [] OTHER -> [err |-> FALSE, executor |-> "set", count |-> Cardinality(loaded)]

-----------------------------------------------------------------------------
(* What the README promises to start from ("Important Notes" and the       *)
(* tables of options), without an order of checks.  Of the type it says    *)
(* both that one of six is chosen and that an invalid one "defaults to     *)
(* round-robin"; the code and its tests refuse an invalid one.             *)
HostPort(u) ==
    /\ u.text = "url" /\ u.scheme \in {"", "http"} /\ u.user = ""
    /\ u.rest \in {"", "/"} /\ u.host # ""

Documented(c) ==
    LET s == c.server IN
    /\ Len(c.backends) > 0 /\ c.port # ""
    /\ c.type \in ValidTypes \cup {""}
    /\ c.customHeaders \subseteq ValidCustomHeaders
    /\ \A k \in DOMAIN c.middlewares :
         LET mw == c.middlewares[k]
         IN  mw.name # "" /\ (mw.disabled \/ (mw.code # "") # (mw.file # ""))
    /\ {s.certFile, s.keyFile} \subseteq {"", "pair", "other"}
    /\ "" \in {s.certFile, s.keyFile} \/ (s.certFile = "pair" /\ s.keyFile = "pair")
    /\ s.httpVersion = "http2" => "" \notin {s.certFile, s.keyFile}
    /\ \A k \in DOMAIN c.backends :
         /\ HostPort(c.backends[k].url)
         /\ c.type = "w-round-robin" /\ Len(c.backends) > 1 => c.backends[k].weight > 0

(* What the other parts take for granted: a constructor for the type, an   *)
(* address to dial, weights, a deadline for every exchange (fasthttp takes *)
(* 0 for expired), a body limit (the adapter takes 0 for none), a ticker   *)
(* period and a key pair for HTTP/2.                                       *)
Usable(c) ==
    /\ c.type \in ValidTypes
    /\ Len(c.backends) > 0
    /\ c.healthCheckerTime > 0
    /\ c.server.maxRequestBodySize > 0
    /\ UsesTLS(c.server) => LoadX509KeyPair(c.server)
    /\ c.server.httpVersion = "http2" => UsesTLS(c.server)
    /\ \A k \in DOMAIN c.backends :
         LET b == c.backends[k] IN
         /\ b.url.scheme = "" /\ b.url.rest = "" /\ b.url.host # "" /\ b.url.port # ""
         /\ b.proxyTimeout = c.server.proxyTimeout /\ b.proxyTimeout > 0
         /\ c.type = "w-round-robin" => b.weight > 0

=============================================================================
