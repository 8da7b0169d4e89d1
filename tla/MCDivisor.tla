----------------------------- MODULE MCDivisor -----------------------------
(* An instance of Divisor for TLC: files and clients that differ from a    *)
(* plain one in one respect.                                               *)
EXTENDS Divisor

Url == [text |-> "url", scheme |-> "", user |-> "", rest |-> "", host |-> "a", port |-> ""]

Backend(u, w) == [url |-> u, weight |-> w, proxyTimeout |-> 0]

Loads(code, file, loads) ==
    [name |-> "m", disabled |-> FALSE, code |-> code, file |-> file, loads |-> loads]

Plain ==
    [host |-> "", port |-> "8000", type |-> "", customHeaders |-> {}, middlewares |-> <<>>,
     healthCheckerTime |-> 0, backends |-> <<Backend(Url, 0)>>,
     server |-> [httpVersion |-> "", certFile |-> "", keyFile |-> "", readTimeout |-> 0,
                 proxyTimeout |-> 0, maxRequestBodySize |-> 0]]

Urls ==
    {[Url EXCEPT !.text = t] : t \in {"blank", "malformed"}} \cup
    {[Url EXCEPT !.scheme = s] : s \in {"http", "https", "ftp"}} \cup
    {[Url EXCEPT !.rest = p] : p \in {"/", "/path", "?query"}} \cup
    {[Url EXCEPT !.user = "u"], [Url EXCEPT !.host = ""], [Url EXCEPT !.port = "80"]}

Singles == {<<Backend(u, 0)>> : u \in Urls}

Pairs ==
    {<<Backend(Url, v), Backend(u, w)>> :
        u \in {Url, [Url EXCEPT !.host = ""]}, v \in {0, 1}, w \in {0, 1}}

Chains ==
    {<<Loads("go", "", l)>> : l \in {"ok", "nil", "error", "panic"}} \cup
    {<<Loads("", "", "ok")>>, <<Loads("go", "go", "ok")>>, <<Loads("", "missing", "ok")>>,
     <<[Loads("", "", "ok") EXCEPT !.disabled = TRUE], Loads("", "go", "ok")>>,
     <<[Loads("go", "", "ok") EXCEPT !.name = ""]>>}

\* No TLS, one file only, a pair, two files that are no pair, a file that is not there.
KeyFiles ==
    {<<"", "">>, <<"pair", "">>, <<"pair", "pair">>, <<"pair", "other">>, <<"pair", "missing">>,
     <<"missing", "pair">>}

Files1 ==
    {[Plain EXCEPT !.backends = p] : p \in {<<>>} \cup Singles} \cup
    {[Plain EXCEPT !.type = "w-round-robin", !.backends = p] :
        p \in {<<Backend(Url, 0)>>} \cup Pairs} \cup
    {[Plain EXCEPT !.type = t] : t \in {"ip-hash", "roundrobin"}} \cup
    {[Plain EXCEPT !.port = ""], [Plain EXCEPT !.healthCheckerTime = -1]} \cup
    {[Plain EXCEPT !.customHeaders = h] : h \in {{"$uuid", "$time"}, {"$uuid", "host"}}} \cup
    {[Plain EXCEPT !.middlewares = m] : m \in Chains} \cup
    {[Plain EXCEPT !.server.httpVersion = v, !.server.certFile = f[1], !.server.keyFile = f[2]] :
        v \in {"http1", "http2"}, f \in KeyFiles} \cup
    {[Plain EXCEPT !.server.proxyTimeout = t, !.server.maxRequestBodySize = t] :
        t \in {-1, 1}} \cup
    {[Plain EXCEPT !.server.readTimeout = 1]} \cup
    {[Plain EXCEPT !.middlewares = <<Loads("go", "", "ok")>>,
        !.server = [@ EXCEPT !.httpVersion = "http2", !.certFile = "pair",
                             !.keyFile = "pair", !.readTimeout = 1]]}

Sent(d, s, f) == [declared |-> d, size |-> s, body |-> TRUE, fault |-> f]

\* Around a limit of 1.
AllKinds ==
    {Nothing, [Nothing EXCEPT !.fault = "header"]} \cup
    {Sent(0, 0, "none"), Sent(1, 1, "none"), Sent(2, 2, "none")} \cup
    {Sent(-1, s, "none") : s \in 0 .. 2} \cup
    {Sent(d, 0, f) : d \in {-1, 1}, f \in {"cut", "stall"}} \cup
    {Sent(2, 1, "cut"), Sent(-1, 2, "cut"), Sent(-1, 1, "cut")}

Sends2 == [r \in Requests |-> IF r = 1 THEN AllKinds ELSE {Nothing}]

=============================================================================
