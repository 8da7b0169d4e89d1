--------------------------- MODULE DivisorProofs ---------------------------
(***************************************************************************)
(* The process for any configuration file, any number of clients and any   *)
(* of their requests.                                                      *)
(***************************************************************************)
EXTENDS Divisor, FiniteSetTheorems, WellFoundedInduction, NaturalsInduction, TLAPS

(* A chain of early returns lets everything through that fails no check.   *)
LEMMA FirstErrorNil ==
  ASSUME NEW n \in Nat, NEW checks, DOMAIN checks = 1 .. n,
         \A k \in 1 .. n : checks[k][1] => checks[k][2] # "nil"
  PROVE  FirstError(checks) = "nil" <=> \A k \in 1 .. n : ~ checks[k][1]
<1> DEFINE failed == {k \in DOMAIN checks : checks[k][1]}
<1>1. CASE failed = {}
  BY <1>1 DEF FirstError
<1>2. CASE failed # {}
  <2>1. failed \subseteq Nat
    OBVIOUS
  <2>2. \E x \in failed : \A y \in failed : ~ (<<y, x>> \in OpToRel(<, Nat))
    BY <1>2, <2>1, NatLessThanWellFounded, WFMin
  <2>3. PICK x \in failed : \A y \in failed : ~ (y < x)
    BY <2>1, <2>2 DEF OpToRel
  <2>4. \A y \in failed : x <= y
    BY <2>1, <2>3
  <2>5. Min(failed) \in failed
    BY <2>3, <2>4 DEF Min
  <2>6. checks[Min(failed)][1] /\ checks[Min(failed)][2] # "nil"
    BY <2>5
  <2>7. FirstError(checks) = checks[Min(failed)][2]
    BY <1>2 DEF FirstError
  <2> QED
    BY <2>5, <2>6, <2>7
<1> QED
  BY <1>1, <1>2

(* urlError accepts what the README calls a host and a port.               *)
LEMMA UrlAccepted ==
  ASSUME NEW u \in Addresses
  PROVE  urlError(u) = "nil" <=> HostPort(u)
<1> DEFINE checks == <<
        <<u.text = "blank", "ErrBackendUrlEmpty">>,
        <<u.text = "malformed", "ErrBackendUrlInvalid">>,
        <<u.scheme = "https", "ErrBackendUrlHttps">>,
        <<u.scheme \notin {"", "http"}, "ErrBackendUrlScheme">>,
        <<u.user # "", "ErrBackendUrlUserinfo">>,
        <<u.rest \notin {"", "/"}, "ErrBackendUrlNotHostPort">>,
        <<u.host = "", "ErrBackendUrlNoHost">> >>
<1>1. DOMAIN checks = 1 .. 7
  OBVIOUS
<1>2. /\ checks[1][2] # "nil" /\ checks[2][2] # "nil" /\ checks[3][2] # "nil"
      /\ checks[4][2] # "nil" /\ checks[5][2] # "nil" /\ checks[6][2] # "nil"
      /\ checks[7][2] # "nil"
  OBVIOUS
<1>3. urlError(u) = FirstError(checks)
  BY DEF urlError
<1> HIDE DEF checks
<1>4. \A k \in 1 .. 7 : k = 1 \/ k = 2 \/ k = 3 \/ k = 4 \/ k = 5 \/ k = 6 \/ k = 7
  OBVIOUS
<1>5. \A k \in 1 .. 7 : checks[k][1] => checks[k][2] # "nil"
  BY <1>2, <1>4
<1>6. urlError(u) = "nil" <=> \A k \in 1 .. 7 : ~ checks[k][1]
  BY <1>1, <1>3, <1>5, FirstErrorNil
<1>7. (\A k \in 1 .. 7 : ~ checks[k][1]) <=>
        ~ checks[1][1] /\ ~ checks[2][1] /\ ~ checks[3][1] /\ ~ checks[4][1] /\
        ~ checks[5][1] /\ ~ checks[6][1] /\ ~ checks[7][1]
  BY <1>4
<1> QED
  BY <1>6, <1>7 DEF checks, HostPort, Addresses

(* backendError accepts such an address, with a weight where one is used.  *)
LEMMA BackendAccepted ==
  ASSUME NEW c, NEW b, b.url \in Addresses
  PROVE  backendError(c, b) = "nil" <=>
           HostPort(b.url) /\ (c.type = "w-round-robin" => ~ b.weight <= 0)
<1> DEFINE checks == <<
        <<urlError(b.url) # "nil", urlError(b.url)>>,
        <<c.type = "w-round-robin" /\ b.weight <= 0, "ErrInvalidWeight">> >>
<1>1. DOMAIN checks = 1 .. 2
  OBVIOUS
<1>2. (checks[1][1] => checks[1][2] # "nil") /\ checks[2][2] # "nil"
  OBVIOUS
<1>3. backendError(c, b) = FirstError(checks)
  BY DEF backendError
<1> HIDE DEF checks
<1>4. \A k \in 1 .. 2 : k = 1 \/ k = 2
  OBVIOUS
<1>5. \A k \in 1 .. 2 : checks[k][1] => checks[k][2] # "nil"
  BY <1>2, <1>4
<1>6. backendError(c, b) = "nil" <=> \A k \in 1 .. 2 : ~ checks[k][1]
  BY <1>1, <1>3, <1>5, FirstErrorNil
<1>7. (\A k \in 1 .. 2 : ~ checks[k][1]) <=> ~ checks[1][1] /\ ~ checks[2][1]
  BY <1>4
<1> QED
  BY <1>6, <1>7, UrlAccepted DEF checks

(* serverConfigError accepts the documented combinations of certificate,   *)
(* key and protocol.                                                       *)
LEMMA ServerAccepted ==
  ASSUME NEW s \in ServerConfigs
  PROVE  serverConfigError(s) = "nil" <=>
           /\ {s.certFile, s.keyFile} \subseteq {"", "pair", "other"}
           /\ "" \in {s.certFile, s.keyFile} \/ (s.certFile = "pair" /\ s.keyFile = "pair")
           /\ s.httpVersion = "http2" => "" \notin {s.certFile, s.keyFile}
<1> DEFINE checks == <<
        <<s.httpVersion = "http2" /\ ~ UsesTLS(s), "ErrHttp2WithoutTls">>,
        <<~ IsFileExist(s.certFile), "ErrNotExist">>,
        <<~ IsFileExist(s.keyFile), "ErrNotExist">>,
        <<UsesTLS(s) /\ ~ LoadX509KeyPair(s), "ErrInvalidTLSKeyPair">> >>
<1>1. DOMAIN checks = 1 .. 4
  OBVIOUS
<1>2. /\ checks[1][2] # "nil" /\ checks[2][2] # "nil" /\ checks[3][2] # "nil"
      /\ checks[4][2] # "nil"
  OBVIOUS
<1>3. serverConfigError(s) = FirstError(checks)
  BY DEF serverConfigError
<1> HIDE DEF checks
<1>4. \A k \in 1 .. 4 : k = 1 \/ k = 2 \/ k = 3 \/ k = 4
  OBVIOUS
<1>5. \A k \in 1 .. 4 : checks[k][1] => checks[k][2] # "nil"
  BY <1>2, <1>4
<1>6. serverConfigError(s) = "nil" <=> \A k \in 1 .. 4 : ~ checks[k][1]
  BY <1>1, <1>3, <1>5, FirstErrorNil
<1>7. (\A k \in 1 .. 4 : ~ checks[k][1]) <=>
        ~ checks[1][1] /\ ~ checks[2][1] /\ ~ checks[3][1] /\ ~ checks[4][1]
  BY <1>4
<1> QED
  BY <1>6, <1>7 DEF checks, ServerConfigs, UsesTLS, IsFileExist, LoadX509KeyPair

(* middlewareConfigError accepts a name and, unless it is disabled, exactly *)
(* one source of code.                                                     *)
LEMMA MiddlewareAccepted ==
  ASSUME NEW mw
  PROVE  middlewareConfigError(mw) = "nil" <=>
           mw.name # "" /\ (mw.disabled \/ (mw.code # "") # (mw.file # ""))
<1> DEFINE checks == <<
        <<mw.name = "", "name is required">>,
        <<~ mw.disabled /\ mw.code = "" /\ mw.file = "", "either code or file">>,
        <<~ mw.disabled /\ mw.code # "" /\ mw.file # "", "both code and file">> >>
<1>1. DOMAIN checks = 1 .. 3
  OBVIOUS
<1>2. checks[1][2] # "nil" /\ checks[2][2] # "nil" /\ checks[3][2] # "nil"
  OBVIOUS
<1>3. middlewareConfigError(mw) = FirstError(checks)
  BY DEF middlewareConfigError
<1> HIDE DEF checks
<1>4. \A k \in 1 .. 3 : k = 1 \/ k = 2 \/ k = 3
  OBVIOUS
<1>5. \A k \in 1 .. 3 : checks[k][1] => checks[k][2] # "nil"
  BY <1>2, <1>4
<1>6. middlewareConfigError(mw) = "nil" <=> \A k \in 1 .. 3 : ~ checks[k][1]
  BY <1>1, <1>3, <1>5, FirstErrorNil
<1>7. (\A k \in 1 .. 3 : ~ checks[k][1]) <=>
        ~ checks[1][1] /\ ~ checks[2][1] /\ ~ checks[3][1]
  BY <1>4
<1> QED
  BY <1>6, <1>7 DEF checks

(* A loop that returns the first error of an element finds one if there is *)
(* one.                                                                    *)
LEMMA LoopAccepted ==
  ASSUME NEW S, NEW seq \in Seq(S), NEW errors, DOMAIN errors = DOMAIN seq
  PROVE  FirstError([k \in DOMAIN seq |-> <<errors[k] # "nil", errors[k]>>]) = "nil"
           <=> \A k \in DOMAIN seq : errors[k] = "nil"
<1> DEFINE checks == [k \in DOMAIN seq |-> <<errors[k] # "nil", errors[k]>>]
<1>1. DOMAIN checks = 1 .. Len(seq) /\ Len(seq) \in Nat
  OBVIOUS
<1>2. \A k \in 1 .. Len(seq) :
        (checks[k][1] <=> errors[k] # "nil") /\ checks[k][2] = errors[k]
  BY <1>1
<1> HIDE DEF checks
<1>3. FirstError(checks) = "nil" <=> \A k \in 1 .. Len(seq) : ~ checks[k][1]
  BY <1>1, <1>2, FirstErrorNil
<1> QED
  BY <1>1, <1>2, <1>3 DEF checks

(* validateMiddlewares accepts a chain all of whose entries are accepted.  *)
LEMMA MiddlewaresAccepted ==
  ASSUME NEW mws \in Seq(MiddlewareConfigs)
  PROVE  validateMiddlewares(mws) = "nil" <=>
           \A k \in DOMAIN mws :
             LET mw == mws[k]
             IN  mw.name # "" /\ (mw.disabled \/ (mw.code # "") # (mw.file # ""))
<1> DEFINE errors == [k \in DOMAIN mws |-> middlewareConfigError(mws[k])]
<1>1. [k \in DOMAIN mws |->
         <<middlewareConfigError(mws[k]) # "nil", middlewareConfigError(mws[k])>>]
      = [k \in DOMAIN mws |-> <<errors[k] # "nil", errors[k]>>]
  OBVIOUS
<1>2. validateMiddlewares(mws)
      = FirstError([k \in DOMAIN mws |-> <<errors[k] # "nil", errors[k]>>])
  BY <1>1 DEF validateMiddlewares
<1>3. DOMAIN errors = DOMAIN mws
  OBVIOUS
<1>4. \A k \in DOMAIN mws : errors[k] = middlewareConfigError(mws[k])
  OBVIOUS
<1> HIDE DEF errors
<1>5. validateMiddlewares(mws) = "nil" <=> \A k \in DOMAIN mws : errors[k] = "nil"
  BY <1>2, <1>3, LoopAccepted
<1> QED
  BY <1>4, <1>5, MiddlewareAccepted

(* prepareBackends accepts a list all of whose Backends are accepted.      *)
LEMMA BackendsAccepted ==
  ASSUME NEW c \in Configs
  PROVE  prepareBackends(c).err = "nil" <=>
           \A k \in DOMAIN c.backends :
             /\ HostPort(c.backends[k].url)
             /\ c.type = "w-round-robin" => c.backends[k].weight > 0
<1> DEFINE errors == [k \in DOMAIN c.backends |-> backendError(c, c.backends[k])]
<1>1. [k \in DOMAIN c.backends |->
         <<backendError(c, c.backends[k]) # "nil", backendError(c, c.backends[k])>>]
      = [k \in DOMAIN c.backends |-> <<errors[k] # "nil", errors[k]>>]
  OBVIOUS
<1>2. prepareBackends(c).err
      = FirstError([k \in DOMAIN c.backends |-> <<errors[k] # "nil", errors[k]>>])
  BY <1>1 DEF prepareBackends
<1>3. DOMAIN errors = DOMAIN c.backends
  OBVIOUS
<1>4. \A k \in DOMAIN c.backends : errors[k] = backendError(c, c.backends[k])
  OBVIOUS
<1> HIDE DEF errors
<1>5. c.backends \in Seq(BackendConfigs)
  BY DEF Configs
<1>6. prepareBackends(c).err = "nil" <=> \A k \in DOMAIN c.backends : errors[k] = "nil"
  BY <1>2, <1>3, <1>5, LoopAccepted
<1>7. \A k \in DOMAIN c.backends :
        c.backends[k].url \in Addresses /\ c.backends[k].weight \in Int
  <2>1. \A k \in DOMAIN c.backends : c.backends[k] \in BackendConfigs
    BY <1>5
  <2> QED
    BY <2>1 DEF BackendConfigs
<1>8. \A k \in DOMAIN c.backends :
        errors[k] = "nil" <=>
          /\ HostPort(c.backends[k].url)
          /\ c.type = "w-round-robin" => ~ c.backends[k].weight <= 0
  BY <1>4, <1>7, BackendAccepted
<1>9. \A k \in DOMAIN c.backends : c.backends[k].weight > 0 <=> ~ c.backends[k].weight <= 0
  BY <1>7
<1> QED
  BY <1>6, <1>8, <1>9

(* Weights are used where the file asks for them and has two Backends.     *)
LEMMA WeightsUsed ==
  ASSUME NEW c \in Configs, Len(c.backends) > 0
  PROVE  effectiveType(c) = "w-round-robin" <=>
           c.type = "w-round-robin" /\ Len(c.backends) > 1
<1> DEFINE n == Len(c.backends)
<1>1. n \in Nat
  BY DEF Configs
<1>2. effectiveType(c) = IF c.type = "" \/ (c.type = "w-round-robin" /\ n = 1)
                         THEN "round-robin" ELSE c.type
  BY Zenon DEF effectiveType
<1> HIDE DEF n
<1>3. n > 0 => (n > 1 <=> n # 1)
  BY <1>1
<1> QED
  BY <1>2, <1>3 DEF n

-----------------------------------------------------------------------------
(* The configuration PrepareConfig has filled in before it gets to the     *)
(* Backends.                                                               *)
Filled(c) ==
  [c EXCEPT !.host = OrHost(@), !.type = effectiveType(c),
            !.healthCheckerTime = OrDefault(@, DefaultHealthCheckerTime),
            !.server = prepareServer(@)]

(* No value that is filled in with a positive default stays unset.         *)
LEMMA OrDefaultPositive ==
  ASSUME NEW value \in Int, NEW default \in Nat \ {0}
  PROVE  OrDefault(value, default) \in Int /\ OrDefault(value, default) > 0
BY DEF OrDefault

(* Filling in defaults changes neither the Backends nor the files, and     *)
(* leaves a period, a deadline and a body limit.                           *)
LEMMA FilledProperties ==
  ASSUME NEW c \in Configs
  PROVE  /\ Filled(c) \in Configs
         /\ Filled(c).backends = c.backends
         /\ Filled(c).type = effectiveType(c)
         /\ Filled(c).healthCheckerTime > 0
         /\ Filled(c).server = prepareServer(c.server)
         /\ prepareServer(c.server) \in ServerConfigs
         /\ prepareServer(c.server).proxyTimeout > 0
         /\ prepareServer(c.server).maxRequestBodySize > 0
         /\ prepareServer(c.server).certFile = c.server.certFile
         /\ prepareServer(c.server).keyFile = c.server.keyFile
         /\ prepareServer(c.server).httpVersion = "http2" <=> c.server.httpVersion = "http2"
<1>1. c.server \in ServerConfigs /\ c.healthCheckerTime \in Int /\ c.host \in STRING
      /\ c.type \in STRING
  BY DEF Configs
<1>2. /\ prepareServer(c.server) \in ServerConfigs
      /\ prepareServer(c.server).proxyTimeout > 0
      /\ prepareServer(c.server).maxRequestBodySize > 0
      /\ prepareServer(c.server).certFile = c.server.certFile
      /\ prepareServer(c.server).keyFile = c.server.keyFile
      /\ prepareServer(c.server).httpVersion = "http2" <=> c.server.httpVersion = "http2"
  <2> DEFINE s == c.server
  <2>1. s.proxyTimeout \in Int /\ s.maxRequestBodySize \in Int /\ s.httpVersion \in STRING
    BY <1>1 DEF ServerConfigs
  <2>2. /\ OrDefault(s.proxyTimeout, DefaultProxyTimeout) \in Int
        /\ OrDefault(s.proxyTimeout, DefaultProxyTimeout) > 0
    BY <2>1, ConfigAssumption, OrDefaultPositive
  <2>3. /\ OrDefault(s.maxRequestBodySize, DefaultMaxRequestBodySize) \in Int
        /\ OrDefault(s.maxRequestBodySize, DefaultMaxRequestBodySize) > 0
    BY <2>1, ConfigAssumption, OrDefaultPositive
  <2>4. (IF s.httpVersion = "http2" THEN s.httpVersion ELSE "http1.1") \in STRING
    BY <2>1, DefaultsAreStrings
  <2> QED
    BY <1>1, <2>2, <2>3, <2>4 DEF prepareServer, ServerConfigs
<1>3. /\ OrDefault(c.healthCheckerTime, DefaultHealthCheckerTime) \in Int
      /\ OrDefault(c.healthCheckerTime, DefaultHealthCheckerTime) > 0
  BY <1>1, OrDefaultPositive DEF DefaultHealthCheckerTime
<1>4. OrHost(c.host) \in STRING
  BY <1>1, DefaultsAreStrings DEF OrHost
<1>5. effectiveType(c) \in STRING
  BY <1>1, DefaultsAreStrings DEF effectiveType
<1> QED
  BY <1>2, <1>3, <1>4, <1>5 DEF Filled, Configs

(* A prepared Backend has an address to dial and the server's deadline.    *)
LEMMA PreparedBackends ==
  ASSUME NEW c \in Configs
  PROVE  /\ prepareBackends(c).cfg \in Configs
         /\ prepareBackends(c).cfg.type = c.type
         /\ prepareBackends(c).cfg.healthCheckerTime = c.healthCheckerTime
         /\ prepareBackends(c).cfg.server = c.server
         /\ Len(prepareBackends(c).cfg.backends) = Len(c.backends)
         /\ DOMAIN prepareBackends(c).cfg.backends = DOMAIN c.backends
         /\ \A k \in DOMAIN c.backends :
              LET b == prepareBackends(c).cfg.backends[k]
              IN  /\ b.url.scheme = "" /\ b.url.rest = "" /\ b.url.port # ""
                  /\ b.url.host = c.backends[k].url.host
                  /\ b.weight = c.backends[k].weight
                  /\ b.proxyTimeout = c.server.proxyTimeout
<1> DEFINE bs == c.backends
           new(k) == [bs[k] EXCEPT !.url = normalizeBackendAddress(@),
                                   !.proxyTimeout = c.server.proxyTimeout]
           news == [k \in DOMAIN bs |-> new(k)]
<1>1. bs \in Seq(BackendConfigs) /\ c.server.proxyTimeout \in Int
  BY DEF Configs, ServerConfigs
<1>2. ASSUME NEW u \in Addresses
      PROVE  /\ normalizeBackendAddress(u) \in Addresses
             /\ normalizeBackendAddress(u).scheme = "" /\ normalizeBackendAddress(u).rest = ""
             /\ normalizeBackendAddress(u).port # ""
             /\ normalizeBackendAddress(u).host = u.host
  BY DefaultsAreStrings DEF normalizeBackendAddress, Addresses
<1>3. \A k \in DOMAIN bs : bs[k] \in BackendConfigs
  BY <1>1
<1>4. ASSUME NEW k \in DOMAIN bs
      PROVE  /\ new(k) \in BackendConfigs
             /\ new(k).url = normalizeBackendAddress(bs[k].url)
             /\ new(k).weight = bs[k].weight
             /\ new(k).proxyTimeout = c.server.proxyTimeout
             /\ bs[k].url \in Addresses
  BY <1>1, <1>2, <1>3 DEF BackendConfigs
<1> HIDE DEF new
<1>5. DOMAIN bs = 1 .. Len(bs) /\ Len(bs) \in Nat
  BY <1>1
<1>6. news \in Seq(BackendConfigs) /\ Len(news) = Len(bs) /\ DOMAIN news = DOMAIN bs
  BY <1>4, <1>5
<1>7. prepareBackends(c).cfg = [c EXCEPT !.backends = news]
  BY DEF prepareBackends, new
<1>8. \A k \in DOMAIN bs : news[k] = new(k)
  OBVIOUS
<1> HIDE DEF news
<1>9. /\ [c EXCEPT !.backends = news] \in Configs
      /\ [c EXCEPT !.backends = news].backends = news
      /\ [c EXCEPT !.backends = news].type = c.type
      /\ [c EXCEPT !.backends = news].healthCheckerTime = c.healthCheckerTime
      /\ [c EXCEPT !.backends = news].server = c.server
  BY <1>6 DEF Configs
<1>10. \A k \in DOMAIN bs :
         /\ news[k].url.scheme = "" /\ news[k].url.rest = "" /\ news[k].url.port # ""
         /\ news[k].url.host = bs[k].url.host
         /\ news[k].weight = bs[k].weight
         /\ news[k].proxyTimeout = c.server.proxyTimeout
  <2> SUFFICES ASSUME NEW k \in DOMAIN bs
               PROVE  /\ new(k).url.scheme = "" /\ new(k).url.rest = ""
                      /\ new(k).url.port # "" /\ new(k).url.host = bs[k].url.host
                      /\ new(k).weight = bs[k].weight
                      /\ new(k).proxyTimeout = c.server.proxyTimeout
    BY <1>8
  <2> DEFINE u == normalizeBackendAddress(bs[k].url)
  <2>1. u.scheme = "" /\ u.rest = "" /\ u.port # "" /\ u.host = bs[k].url.host
    BY <1>2, <1>4, Zenon
  <2>2. new(k).url = u /\ new(k).weight = bs[k].weight
        /\ new(k).proxyTimeout = c.server.proxyTimeout
    BY <1>4, Zenon
  <2> QED
    BY <2>1, <2>2, Zenon
<1> HIDE DEF bs
<1>11. prepareBackends(c).cfg.backends = news
  BY <1>7, <1>9
<1> QED
  BY <1>6, <1>7, <1>9, <1>10, <1>11, Zenon DEF bs

(* PrepareConfig refuses a file exactly when the README's rules do.        *)
LEMMA PrepareAccepts ==
  ASSUME NEW c \in Configs
  PROVE  PrepareConfig(c).err = "nil" <=> Documented(c)
<1> DEFINE mws == validateMiddlewares(c.middlewares)
           srv == serverConfigError(c.server)
           back == prepareBackends(Filled(c)).err
           checks == <<
            <<c.backends = <<>>, "ErrAtLeastOneBackend">>,
            <<c.port = "", "ErrInvalidPort">>,
            <<c.type # "" /\ c.type \notin ValidTypes, "invalid type">>,
            <<~ c.customHeaders \subseteq ValidCustomHeaders, "invalid custom header">>,
            <<mws # "nil", mws>>,
            <<srv # "nil", srv>>,
            <<back # "nil", back>> >>
<1>1. PrepareConfig(c).err = FirstError(checks)
  BY DEF PrepareConfig, Filled
<1> HIDE DEF mws, srv, back
<1>2. DOMAIN checks = 1 .. 7
  OBVIOUS
<1>3. /\ checks[1][2] # "nil" /\ checks[2][2] # "nil" /\ checks[3][2] # "nil"
      /\ checks[4][2] # "nil" /\ (checks[5][1] => checks[5][2] # "nil")
      /\ (checks[6][1] => checks[6][2] # "nil") /\ (checks[7][1] => checks[7][2] # "nil")
  OBVIOUS
<1>4. checks[1][1] = (c.backends = <<>>) /\ checks[2][1] = (c.port = "")
      /\ checks[3][1] = (c.type # "" /\ c.type \notin ValidTypes)
      /\ checks[4][1] = (~ c.customHeaders \subseteq ValidCustomHeaders)
      /\ checks[5][1] = (mws # "nil") /\ checks[6][1] = (srv # "nil")
      /\ checks[7][1] = (back # "nil")
  OBVIOUS
<1> HIDE DEF checks
<1>5. \A k \in 1 .. 7 : k = 1 \/ k = 2 \/ k = 3 \/ k = 4 \/ k = 5 \/ k = 6 \/ k = 7
  OBVIOUS
<1>6. \A k \in 1 .. 7 : checks[k][1] => checks[k][2] # "nil"
  BY <1>3, <1>5
<1>7. PrepareConfig(c).err = "nil" <=> \A k \in 1 .. 7 : ~ checks[k][1]
  BY <1>1, <1>2, <1>6, FirstErrorNil
<1>8. (\A k \in 1 .. 7 : ~ checks[k][1]) <=>
        ~ checks[1][1] /\ ~ checks[2][1] /\ ~ checks[3][1] /\ ~ checks[4][1] /\
        ~ checks[5][1] /\ ~ checks[6][1] /\ ~ checks[7][1]
  BY <1>5
<1>9. PrepareConfig(c).err = "nil" <=>
        /\ c.backends # <<>> /\ c.port # "" /\ c.type \in ValidTypes \cup {""}
        /\ c.customHeaders \subseteq ValidCustomHeaders
        /\ mws = "nil" /\ srv = "nil" /\ back = "nil"
  BY <1>4, <1>7, <1>8
<1>10. /\ c.middlewares \in Seq(MiddlewareConfigs) /\ c.server \in ServerConfigs
       /\ c.backends \in Seq(BackendConfigs)
  BY DEF Configs
<1>11. c.backends # <<>> <=> Len(c.backends) > 0
  BY <1>10
<1>12. mws = "nil" <=>
         \A k \in DOMAIN c.middlewares :
           LET mw == c.middlewares[k]
           IN  mw.name # "" /\ (mw.disabled \/ (mw.code # "") # (mw.file # ""))
  BY <1>10, MiddlewaresAccepted DEF mws
<1>13. srv = "nil" <=>
         LET s == c.server IN
         /\ {s.certFile, s.keyFile} \subseteq {"", "pair", "other"}
         /\ "" \in {s.certFile, s.keyFile} \/ (s.certFile = "pair" /\ s.keyFile = "pair")
         /\ s.httpVersion = "http2" => "" \notin {s.certFile, s.keyFile}
  BY <1>10, ServerAccepted DEF srv
<1>14. back = "nil" <=>
         \A k \in DOMAIN c.backends :
           /\ HostPort(c.backends[k].url)
           /\ effectiveType(c) = "w-round-robin" => c.backends[k].weight > 0
  BY FilledProperties, BackendsAccepted DEF back
<1>15. Len(c.backends) > 0 =>
         (effectiveType(c) = "w-round-robin" <=>
            c.type = "w-round-robin" /\ Len(c.backends) > 1)
  BY WeightsUsed
<1> QED
  BY <1>9, <1>11, <1>12, <1>13, <1>14, <1>15 DEF Documented

(* What PrepareConfig accepts and fills in is what the other parts take    *)
(* for granted.                                                            *)
LEMMA PrepareUsable ==
  ASSUME NEW c \in Configs, PrepareConfig(c).err = "nil"
  PROVE  PrepareConfig(c).cfg \in Configs /\ Usable(PrepareConfig(c).cfg)
<1> DEFINE f == Filled(c)
           p == prepareBackends(f).cfg
<1>1. PrepareConfig(c).cfg = p
  BY DEF PrepareConfig, Filled
<1>2. Documented(c)
  BY PrepareAccepts
<1>3. /\ f \in Configs /\ f.backends = c.backends /\ f.type = effectiveType(c)
      /\ f.healthCheckerTime > 0
      /\ f.server.proxyTimeout > 0 /\ f.server.maxRequestBodySize > 0
      /\ f.server.certFile = c.server.certFile /\ f.server.keyFile = c.server.keyFile
      /\ f.server.httpVersion = "http2" <=> c.server.httpVersion = "http2"
  BY FilledProperties
<1> HIDE DEF f
<1>4. /\ p \in Configs /\ p.type = f.type /\ p.healthCheckerTime = f.healthCheckerTime
      /\ p.server = f.server /\ Len(p.backends) = Len(f.backends)
      /\ DOMAIN p.backends = DOMAIN f.backends
      /\ \A k \in DOMAIN f.backends :
           LET b == p.backends[k]
           IN  /\ b.url.scheme = "" /\ b.url.rest = "" /\ b.url.port # ""
               /\ b.url.host = f.backends[k].url.host
               /\ b.weight = f.backends[k].weight
               /\ b.proxyTimeout = f.server.proxyTimeout
  BY <1>3, PreparedBackends
<1> HIDE DEF p
<1>5. c.backends \in Seq(BackendConfigs) /\ Len(c.backends) > 0
  BY <1>2 DEF Configs, Documented
<1>6. p.type \in ValidTypes
  BY <1>2, <1>3, <1>4 DEF Documented, effectiveType, ValidTypes
<1>7. p.type = "w-round-robin" => c.type = "w-round-robin" /\ Len(c.backends) > 1
  BY <1>3, <1>4, <1>5, WeightsUsed
<1>8. /\ UsesTLS(p.server) => LoadX509KeyPair(p.server)
      /\ p.server.httpVersion = "http2" => UsesTLS(p.server)
  BY <1>2, <1>3, <1>4 DEF Documented, UsesTLS, LoadX509KeyPair
<1>9. \A k \in DOMAIN p.backends :
        LET b == p.backends[k] IN
        /\ b.url.scheme = "" /\ b.url.rest = "" /\ b.url.host # "" /\ b.url.port # ""
        /\ b.proxyTimeout = p.server.proxyTimeout /\ b.proxyTimeout > 0
        /\ p.type = "w-round-robin" => b.weight > 0
  <2>1. \A k \in DOMAIN c.backends :
          /\ c.backends[k].url.host # ""
          /\ c.type = "w-round-robin" /\ Len(c.backends) > 1 => c.backends[k].weight > 0
    BY <1>2 DEF Documented, HostPort
  <2> QED
    BY <1>3, <1>4, <1>7, <2>1
<1>10. Usable(p)
  BY <1>3, <1>4, <1>5, <1>6, <1>8, <1>9 DEF Usable
<1> QED
  BY <1>1, <1>4, <1>10

-----------------------------------------------------------------------------
(* The inductive invariant                                                 *)

Forwards == [source : {"none", "buffer", "client"}, length : Int, got : Nat, whole : BOOLEAN]

Results == [status : Nat, announced : Nat, written : Nat, hop : BOOLEAN]

RequestStates ==
  [at : {"idle", "reading", "handler", "answered"}, sent : Kinds, fwd : Forwards,
   res : Results]

Types ==
  /\ config \in Configs
  /\ main \in Steps
  /\ executor \in Nat
  /\ balancer \in {"nil", "up", "closed"}
  /\ shutdown \in BOOLEAN /\ signalled \in BOOLEAN /\ expired \in BOOLEAN
  /\ serveErr \in BOOLEAN
  /\ stopper \in {"none", "close", "drain", "balancer", "failed", "done"}
  /\ exit \in {"running", "0", "1", "killed"}
  /\ listener \in {"none", "open", "closed"}
  /\ serve \in {"none", "starting", "serving", "ended"}

\* What each step of main can rely on.
Stages ==
  /\ main \notin {"config", "prepare"} => Usable(config)
  /\ balancer = "nil" <=> main \in {"config", "prepare", "executor", "balancer"}
  /\ main \notin {"select", "shutdown"} => serve = "none" /\ \A r \in Requests : req[r] = Idle
  /\ stopper = "none" <=> main # "shutdown"
  /\ shutdown \/ main = "shutdown" => signalled

\* What the shutdown has done when it is at a step, and what an exit code means.
Stopping ==
  /\ listener = "closed" =>
       serve = "ended" /\ stopper \in {"drain", "balancer", "failed", "done"}
  /\ listener = "closed" /\ stopper \in {"balancer", "done"} => Open = {}
  /\ listener = "closed" /\ stopper = "failed" => expired
  /\ balancer = "closed" <=> stopper = "done"
  /\ exit = "0" => main = "shutdown" /\ stopper = "done"
  /\ exit = "1" /\ main = "shutdown" => stopper = "failed" \/ expired

Large(c, q) ==
  q.declared > c.server.maxRequestBodySize \/ q.size > c.server.maxRequestBodySize

\* 413 is the answer to a body over the limit, and to nothing else.
RightStatus(c, q, status) == q.fault # "header" => (Large(c, q) <=> status = 413)

(* What holds of a request x with configuration c.  In the handler, a body *)
(* is within the limit, whole unless it is still to come from the client,  *)
(* and announced with its length or with none.                             *)
Handled(c, x) ==
  /\ x.sent.fault # "header" /\ ~ Large(c, x.sent)
  /\ x.fwd.got = 0 /\ x.fwd.whole = FALSE
  /\ x.fwd.source # "client" => x.sent.fault = "none"
  /\ x.sent.fault = "none" => x.fwd.length \in {-1, x.sent.size}

Answered(c, x) ==
  /\ x.res.status \in 200 .. 504
  /\ x.fwd.got <= c.server.maxRequestBodySize
  /\ RightStatus(c, x.sent, x.res.status)
  /\ x.fwd.whole => x.sent.fault = "none" /\ x.fwd.length \in {-1, x.fwd.got}
  /\ x.res.announced = x.res.written
  /\ c.server.httpVersion = "http2" => ~ x.res.hop

RequestOK(c, r, x) ==
  /\ x.at = "idle" => x = Idle
  /\ x.at # "idle" => x.sent \in Sends[r]
  /\ x.at = "reading" => x.fwd = NotSent
  /\ x.at \in {"reading", "handler"} => x.res = NoAnswer
  /\ x.at = "handler" => Handled(c, x)
  /\ x.at = "answered" => Answered(c, x)

RequestsOK == \A r \in Requests : RequestOK(config, r, req[r])

Exchanges == req \in [Requests -> RequestStates] /\ RequestsOK

Inv == Types /\ Stages /\ Stopping /\ Exchanges

-----------------------------------------------------------------------------
(* Requests, for a configuration that can be served from                   *)

(* A request that is answered while it is read, with a message of the      *)
(* server's own, is answered correctly if it gets 413 for its size only.   *)
LEMMA AnswerKeeps ==
  ASSUME NEW c \in Configs, Usable(c), NEW r \in Requests,
         NEW x \in RequestStates, RequestOK(c, r, x), x.at = "reading",
         NEW status \in 200 .. 504,
         RightStatus(c, x.sent, status)
  PROVE  LET y == [x EXCEPT !.at = "answered", !.res = Message(status)]
         IN  y \in RequestStates /\ RequestOK(c, r, y)
<1> DEFINE y == [x EXCEPT !.at = "answered", !.res = Message(status)]
<1>1. c.server.maxRequestBodySize \in Int /\ c.server.maxRequestBodySize > 0
  BY DEF Configs, ServerConfigs, Usable
<1>2. x.sent \in Sends[r] /\ x.fwd = NotSent
  BY DEF RequestOK
<1>3. /\ y.at = "answered" /\ y.sent = x.sent /\ y.fwd = x.fwd
      /\ y.res.status = status /\ y.res.announced = y.res.written /\ y.res.hop = FALSE
      /\ y \in RequestStates
  <2>1. /\ Message(status) \in Results /\ Message(status).status = status
        /\ Message(status).announced = Message(status).written
        /\ Message(status).hop = FALSE
    BY DEF Message, Results
  <2> QED
    BY <2>1 DEF RequestStates
<1> HIDE DEF y
<1>4. y.fwd.got = 0 /\ y.fwd.whole = FALSE
  BY <1>2, <1>3 DEF NotSent
<1>5. Answered(c, y)
  BY <1>1, <1>3, <1>4 DEF Answered
<1>6. RequestOK(c, r, y)
  BY <1>2, <1>3, <1>5 DEF RequestOK
<1> QED
  BY <1>3, <1>6 DEF y

(* A request may go to the handler if its body is as the handler relies on. *)
LEMMA HandleKeeps ==
  ASSUME NEW c, NEW r \in Requests,
         NEW x \in RequestStates, RequestOK(c, r, x), x.at = "reading",
         NEW source \in {"none", "buffer", "client"}, NEW length \in Int,
         x.sent.fault # "header", ~ Large(c, x.sent),
         source # "client" => x.sent.fault = "none",
         x.sent.fault = "none" => length \in {-1, x.sent.size}
  PROVE  LET y == [x EXCEPT !.at = "handler",
                            !.fwd = [NotSent EXCEPT !.source = source, !.length = length]]
         IN  y \in RequestStates /\ RequestOK(c, r, y)
<1> DEFINE y == [x EXCEPT !.at = "handler",
                          !.fwd = [NotSent EXCEPT !.source = source, !.length = length]]
<1>1. x.sent \in Sends[r] /\ x.res = NoAnswer
  BY DEF RequestOK
<1>2. /\ y.at = "handler" /\ y.sent = x.sent /\ y.res = x.res
      /\ y.fwd.source = source /\ y.fwd.length = length
      /\ y.fwd.got = 0 /\ y.fwd.whole = FALSE
      /\ y \in RequestStates
  BY DEF RequestStates, Forwards, NotSent
<1> HIDE DEF y
<1>3. Handled(c, y)
  BY <1>2 DEF Handled
<1>4. RequestOK(c, r, y)
  BY <1>1, <1>2, <1>3 DEF RequestOK
<1> QED
  BY <1>2, <1>4 DEF y

\* The Backend gets the body or nothing, and its end only if the client finishes.
Seen(x, got, whole) ==
  /\ got \in {0, x.sent.size} /\ whole \in BOOLEAN
  /\ whole => got = x.sent.size /\ ~ (x.fwd.source = "client" /\ x.sent.fault # "none")

\* What the client gets after the handler.
Framed(c, res) ==
  /\ res \in Results /\ res.status \in {200, 502, 503, 504}
  /\ res.announced = res.written
  /\ c.server.httpVersion = "http2" => ~ res.hop

(* When the handler returns, what the Backend has seen and what the client *)
(* gets are as they should be, however the exchange went.                  *)
LEMMA ServeBalancerKeeps ==
  ASSUME NEW c \in Configs, Usable(c), NEW r \in Requests,
         NEW x \in RequestStates, RequestOK(c, r, x), x.at = "handler",
         NEW got, NEW whole, NEW res, Seen(x, got, whole), Framed(c, res)
  PROVE  LET y == [x EXCEPT !.at = "answered", !.fwd.got = got, !.fwd.whole = whole,
                            !.res = res]
         IN  y \in RequestStates /\ RequestOK(c, r, y)
<1> DEFINE y == [x EXCEPT !.at = "answered", !.fwd.got = got, !.fwd.whole = whole,
                          !.res = res]
<1>1. c.server.maxRequestBodySize \in Int /\ c.server.maxRequestBodySize > 0
  BY DEF Configs, ServerConfigs, Usable
<1>2. x.sent \in Sends[r] /\ Handled(c, x)
  BY DEF RequestOK
<1>3. x.sent \in Kinds /\ x.sent.size \in Nat
  BY DEF RequestStates, Kinds
<1>4. /\ y.at = "answered" /\ y.sent = x.sent /\ y.res = res
      /\ y.fwd.source = x.fwd.source /\ y.fwd.length = x.fwd.length
      /\ y.fwd.got = got /\ y.fwd.whole = whole
      /\ y \in RequestStates
  <2> DEFINE f == [x.fwd EXCEPT !.got = got, !.whole = whole]
  <2>1. x.fwd \in Forwards /\ got \in Nat /\ whole \in BOOLEAN /\ res \in Results
    BY <1>3 DEF RequestStates, Seen, Framed
  <2>2. /\ f.got = got /\ f.whole = whole
        /\ f.source = x.fwd.source /\ f.length = x.fwd.length
    BY <2>1 DEF Forwards
  <2>3. f \in Forwards
    BY <2>1 DEF Forwards
  <2>4. y = [x EXCEPT !.at = "answered", !.fwd = f, !.res = res]
    BY <2>1 DEF RequestStates
  <2> HIDE DEF f, y
  <2> QED
    BY <2>1, <2>2, <2>3, <2>4 DEF RequestStates
<1> HIDE DEF y
<1>5. /\ res.status \in 200 .. 504 /\ res.status # 413 /\ res.announced = res.written
      /\ c.server.httpVersion = "http2" => ~ res.hop
  BY DEF Framed
<1>6. got <= c.server.maxRequestBodySize
  BY <1>1, <1>2, <1>3 DEF Handled, Large, Seen
<1>7. whole => x.sent.fault = "none" /\ x.fwd.length \in {-1, got}
  BY <1>2 DEF Handled, Seen
<1>8. ~ Large(c, x.sent)
  BY <1>2 DEF Handled
<1>9. Answered(c, y)
  BY <1>4, <1>5, <1>6, <1>7, <1>8 DEF Answered, RightStatus
<1>10. RequestOK(c, r, y)
  BY <1>2, <1>4, <1>9 DEF RequestOK
<1> QED
  BY <1>4, <1>10 DEF y

-----------------------------------------------------------------------------
(* The steps of a request                                                  *)

(* A step that changes one request keeps it, if that request is as it      *)
(* should be.                                                              *)
LEMMA Replaced ==
  ASSUME Exchanges, NEW r \in Requests, NEW y \in RequestStates, RequestOK(config, r, y),
         UNCHANGED config, req' = [req EXCEPT ![r] = y]
  PROVE  Exchanges'
<1>1. req' \in [Requests -> RequestStates]
  BY DEF Exchanges
<1>2. \A s \in Requests : req'[s] = IF s = r THEN y ELSE req[s]
  BY DEF Exchanges
<1>3. \A s \in Requests : RequestOK(config', s, req'[s])
  BY <1>2 DEF Exchanges, RequestsOK
<1> QED
  BY <1>1, <1>3 DEF Exchanges, RequestsOK

(* A request that is being read is answered.                               *)
LEMMA AnswerStep ==
  ASSUME config \in Configs, Usable(config), Exchanges,
         NEW r \in Requests, req[r].at = "reading", NEW status \in 200 .. 504,
         RightStatus(config, req[r].sent, status),
         Answer(r, Message(status))
  PROVE  Exchanges'
<1> DEFINE y == [req[r] EXCEPT !.at = "answered", !.res = Message(status)]
<1>1. req[r] \in RequestStates /\ RequestOK(config, r, req[r])
  BY DEF Exchanges, RequestsOK
<1>2. y \in RequestStates /\ RequestOK(config, r, y)
  BY <1>1, AnswerKeeps
<1>3. req' = [req EXCEPT ![r] = y] /\ UNCHANGED config
  <2> DEFINE m == Message(status)
  <2>1. Answer(r, m)
    OBVIOUS
  <2> HIDE DEF m
  <2>2. req' = [req EXCEPT ![r] = [req[r] EXCEPT !.at = "answered", !.res = m]]
    BY <1>1, <2>1 DEF Answer, Exchanges, RequestStates
  <2> QED
    BY <2>1, <2>2 DEF Answer, m
<1> QED
  BY <1>2, <1>3, Replaced

(* A request that is being read goes to the handler.                       *)
LEMMA HandleStep ==
  ASSUME config \in Configs, Exchanges,
         NEW r \in Requests, req[r].at = "reading",
         NEW source \in {"none", "buffer", "client"}, NEW length \in Int,
         req[r].sent.fault # "header", ~ Large(config, req[r].sent),
         source # "client" => req[r].sent.fault = "none",
         req[r].sent.fault = "none" => length \in {-1, req[r].sent.size},
         Handle(r, [NotSent EXCEPT !.source = source, !.length = length])
  PROVE  Exchanges'
<1> DEFINE f == [NotSent EXCEPT !.source = source, !.length = length]
           y == [req[r] EXCEPT !.at = "handler", !.fwd = f]
<1>1. req[r] \in RequestStates /\ RequestOK(config, r, req[r])
  BY DEF Exchanges, RequestsOK
<1>2. y \in RequestStates /\ RequestOK(config, r, y)
  BY <1>1, HandleKeeps
<1>3. req' = [req EXCEPT ![r] = y] /\ UNCHANGED config
  <2> HIDE DEF f
  <2>1. Handle(r, f)
    BY DEF f
  <2> QED
    BY <1>1, <2>1 DEF Handle, Exchanges, RequestStates
<1> QED
  BY <1>2, <1>3, Replaced

(* What a client may send, in one place.                                   *)
LEMMA SentProperties ==
  ASSUME NEW r \in Requests, NEW q \in Sends[r]
  PROVE  /\ q \in Kinds
         /\ q.declared \in Int /\ q.declared >= -1 /\ q.size \in Nat /\ q.body \in BOOLEAN
         /\ q.fault \in {"none", "header", "cut", "stall"}
         /\ q.fault = "none" => q.declared \in {-1, q.size}
         /\ q.fault \in {"cut", "stall"} => q.declared = -1 \/ q.size < q.declared
         /\ ~ q.body => q.size = 0 /\ q.declared = 0
<1>1. /\ q \in Kinds
      /\ q.fault = "none" => q.declared \in {-1, q.size}
      /\ q.fault \in {"cut", "stall"} => q.declared = -1 \/ q.size < q.declared
      /\ ~ q.body => q.size = 0 /\ q.declared = 0
  BY ServerAssumption
<1>2. /\ q.declared \in Int /\ q.declared >= -1 /\ q.size \in Nat /\ q.body \in BOOLEAN
      /\ q.fault \in {"none", "header", "cut", "stall"}
  BY <1>1 DEF Kinds
<1> QED
  BY <1>1, <1>2

(* Reading the whole body fails with ErrBodyTooLarge exactly for a large   *)
(* one, and succeeds only if the client finishes it.                       *)
LEMMA ReadAllProperties ==
  ASSUME config \in Configs, NEW r \in Requests, NEW q \in Sends[r], q.fault # "header"
  PROVE  /\ ReadAll(q) = "ErrBodyTooLarge" <=> Large(config, q)
         /\ ReadAll(q) = "nil" <=> ~ Large(config, q) /\ q.fault = "none"
         /\ ReadAll(q) \in {"ErrBodyTooLarge", "unexpected EOF", "timeout", "nil"}
<1> DEFINE limit == config.server.maxRequestBodySize
           over == q.declared > limit \/ (q.declared = -1 /\ q.size > limit)
           rest == CASE q.fault = "cut" -> "unexpected EOF"
                     [] q.fault = "stall" -> "timeout"
                     [] OTHER -> "nil"
<1>1. limit \in Int
  BY DEF Configs, ServerConfigs
<1>2. ReadAll(q) = IF over THEN "ErrBodyTooLarge" ELSE rest
  BY DEF ReadAll, Limit
<1>3. /\ q.fault = "cut" => rest = "unexpected EOF"
      /\ q.fault = "stall" => rest = "timeout"
      /\ q.fault = "none" => rest = "nil"
  OBVIOUS
<1>4. q.fault \in {"none", "cut", "stall"}
  BY SentProperties
<1> HIDE DEF limit, rest
<1>5. over <=> q.declared > limit \/ q.size > limit
  BY <1>1, <1>4, SentProperties
<1>6. over <=> Large(config, q)
  BY <1>5 DEF Large, limit
<1> HIDE DEF over
<1> QED
  BY <1>2, <1>3, <1>4, <1>6

(* A client opens a request.                                               *)
LEMMA ArriveStep ==
  ASSUME Exchanges, NEW r \in Requests, Arrive(r)
  PROVE  Exchanges'
<1>1. PICK q \in Sends[r] :
        req' = [req EXCEPT ![r] = [Idle EXCEPT !.at = "reading", !.sent = q]]
  BY DEF Arrive
<1> DEFINE y == [Idle EXCEPT !.at = "reading", !.sent = q]
<1>2. q \in Kinds
  BY SentProperties
<1>3. NotSent \in Forwards /\ NoAnswer \in Results
  BY DEF NotSent, NoAnswer, Forwards, Results
<1>4. y.at = "reading" /\ y.sent = q /\ y.fwd = NotSent /\ y.res = NoAnswer
      /\ y \in RequestStates
  BY <1>2, <1>3 DEF Idle, RequestStates
<1> HIDE DEF y
<1>5. RequestOK(config, r, y)
  BY <1>4 DEF RequestOK
<1>6. req' = [req EXCEPT ![r] = y] /\ UNCHANGED config
  BY <1>1 DEF Arrive, y
<1> QED
  BY <1>4, <1>5, <1>6, Replaced

(* fasthttp reads a whole request, and answers or hands over.              *)
LEMMA ServeConnStep ==
  ASSUME config \in Configs, Usable(config), Exchanges,
         NEW r \in Requests, ServeConn(r)
  PROVE  Exchanges'
<1> DEFINE q == req[r].sent
<1>1. req[r].at = "reading"
  BY DEF ServeConn
<1>2. q \in Sends[r]
  BY <1>1 DEF Exchanges, RequestsOK, RequestOK
<1>3. CASE q.fault = "header" /\ Answer(r, ErrorHandler("ErrSmallBuffer"))
  <2>1. Answer(r, Message(431))
    BY <1>3 DEF ErrorHandler
  <2>2. RightStatus(config, q, 431) /\ 431 \in 200 .. 504
    BY <1>3 DEF RightStatus
  <2> QED
    BY <1>1, <2>1, <2>2, AnswerStep
<1>4. CASE q.fault # "header" /\ ReadAll(q) = "nil"
           /\ Handle(r, [NotSent EXCEPT !.source = "buffer", !.length = q.size])
  <2>1. ~ Large(config, q) /\ q.fault = "none"
    BY <1>2, <1>4, ReadAllProperties
  <2>2. q.size \in Int
    BY <1>2, SentProperties
  <2> QED
    BY <1>1, <1>4, <2>1, <2>2, HandleStep
<1>5. CASE q.fault # "header" /\ ReadAll(q) # "nil" /\ Answer(r, ErrorHandler(ReadAll(q)))
  <2>1. CASE ReadAll(q) = "ErrBodyTooLarge"
    <3>1. Answer(r, Message(413))
      BY <1>5, <2>1 DEF ErrorHandler
    <3>2. Large(config, q)
      BY <1>2, <1>5, <2>1, ReadAllProperties
    <3>3. RightStatus(config, q, 413) /\ 413 \in 200 .. 504
      BY <3>2 DEF RightStatus
    <3> QED
      BY <1>1, <3>1, <3>3, AnswerStep
  <2>2. CASE ReadAll(q) = "timeout"
    <3>1. Answer(r, Message(408))
      BY <1>5, <2>2 DEF ErrorHandler
    <3>2. ~ Large(config, q)
      BY <1>2, <1>5, <2>2, ReadAllProperties
    <3>3. RightStatus(config, q, 408) /\ 408 \in 200 .. 504
      BY <3>2 DEF RightStatus
    <3> QED
      BY <1>1, <3>1, <3>3, AnswerStep
  <2>3. CASE ReadAll(q) = "unexpected EOF"
    <3>1. Answer(r, Message(400))
      BY <1>5, <2>3 DEF ErrorHandler
    <3>2. ~ Large(config, q)
      BY <1>2, <1>5, <2>3, ReadAllProperties
    <3>3. RightStatus(config, q, 400) /\ 400 \in 200 .. 504
      BY <3>2 DEF RightStatus
    <3> QED
      BY <1>1, <3>1, <3>3, AnswerStep
  <2> QED
    BY <1>2, <1>5, <2>1, <2>2, <2>3, ReadAllProperties
<1> QED
  BY <1>3, <1>4, <1>5 DEF ServeConn

(* The adapter's fields of the request to the Backend.                     *)
LEMMA ConvertProperties ==
  ASSUME NEW r \in Requests, NEW q \in Sends[r], q.fault # "header",
         NEW source \in {"buffer", "client"}, source = "buffer" => q.fault = "none"
  PROVE  \E from \in {"none", "buffer", "client"}, length \in Int :
           /\ ConvertNetHTTPRequestToFastHTTPRequest(q, source)
              = [NotSent EXCEPT !.source = from, !.length = length]
           /\ from # "client" => q.fault = "none"
           /\ q.fault = "none" => length \in {-1, q.size}
<1> DEFINE from == IF q.body THEN source ELSE "none"
           length == CASE ~ q.body -> 0 [] q.body /\ q.declared <= 0 -> -1
                       [] OTHER -> q.declared
<1>1. /\ ~ q.body => length = 0
      /\ q.body /\ q.declared <= 0 => length = -1
      /\ q.body /\ ~ q.declared <= 0 => length = q.declared
  OBVIOUS
<1> HIDE DEF length
<1>2. q.body \in BOOLEAN /\ length \in Int
  BY <1>1, SentProperties
<1>3. from \in {"none", "buffer", "client"}
  OBVIOUS
<1>4. ~ q.body => q.fault = "none"
  BY SentProperties
<1>5. from # "client" => q.fault = "none"
  BY <1>4
<1>6. q.fault = "none" => length \in {-1, q.size}
  BY <1>1, <1>2, SentProperties
<1>7. ConvertNetHTTPRequestToFastHTTPRequest(q, source)
      = [NotSent EXCEPT !.source = from, !.length = length]
  BY DEF ConvertNetHTTPRequestToFastHTTPRequest, length
<1> QED
  BY <1>2, <1>3, <1>5, <1>6, <1>7

(* net/http and the adapter answer a request or hand it over.              *)
LEMMA ServeNetHttpStep ==
  ASSUME config \in Configs, Usable(config), Exchanges,
         NEW r \in Requests, ServeNetHttp(r)
  PROVE  Exchanges'
<1> DEFINE q == req[r].sent
           converted(source) == ConvertNetHTTPRequestToFastHTTPRequest(q, source)
           limit == config.server.maxRequestBodySize
<1>1. req[r].at = "reading"
  BY DEF ServeNetHttp
<1>2. q \in Sends[r]
  BY <1>1 DEF Exchanges, RequestsOK, RequestOK
<1>3. limit \in Int
  BY DEF Configs, ServerConfigs
<1>4. CASE q.fault = "header" /\ Answer(r, Message(431))
  <2>1. RightStatus(config, q, 431) /\ 431 \in 200 .. 504
    BY <1>4 DEF RightStatus
  <2> QED
    BY <1>1, <1>4, <2>1, AnswerStep
<1>5. CASE q.fault # "header" /\ Large(config, q) /\ Answer(r, writeBodyTooLarge)
  <2>1. RightStatus(config, q, 413) /\ 413 \in 200 .. 504
    BY <1>5 DEF RightStatus
  <2> QED
    BY <1>1, <1>5, <2>1, AnswerStep DEF writeBodyTooLarge
<1>6. CASE q.fault # "header" /\ ~ Large(config, q) /\ Answer(r, Message(400))
  <2>1. RightStatus(config, q, 400) /\ 400 \in 200 .. 504
    BY <1>6 DEF RightStatus
  <2> QED
    BY <1>1, <1>6, <2>1, AnswerStep
<1>7. ASSUME q.fault # "header", ~ Large(config, q),
             NEW source \in {"buffer", "client"}, source = "buffer" => q.fault = "none",
             Handle(r, converted(source))
      PROVE  Exchanges'
  <2>1. PICK from \in {"none", "buffer", "client"}, length \in Int :
          /\ converted(source) = [NotSent EXCEPT !.source = from, !.length = length]
          /\ from # "client" => q.fault = "none"
          /\ q.fault = "none" => length \in {-1, q.size}
    <3> HIDE DEF q
    <3> QED
      BY <1>2, <1>7, ConvertProperties
  <2>2. Handle(r, [NotSent EXCEPT !.source = from, !.length = length])
    BY <1>7, <2>1
  <2> QED
    BY <1>1, <1>7, <2>1, <2>2, HandleStep
<1>8. RefusedByLength(q) => Large(config, q)
  BY DEF RefusedByLength, Large, Limit
<1>9. ~ RefusedByLength(q) /\ ~ LengthLess(q) /\ q.fault # "header" => ~ Large(config, q)
  <2>1. ~ q.declared < 0 => q.declared >= 0
    BY <1>2, SentProperties
  <2> QED
    BY <1>2, <1>3, <2>1, SentProperties DEF RefusedByLength, LengthLess, Large, Limit
<1> HIDE DEF q
<1>10. CASE q.fault # "header" /\ RefusedByLength(q) /\ Answer(r, writeBodyTooLarge)
  BY <1>5, <1>8, <1>10
<1>11. CASE q.fault # "header" /\ LengthLess(q)
            /\ CASE ReadAll(q) = "ErrBodyTooLarge" -> Answer(r, writeBodyTooLarge)
                 [] ReadAll(q) = "nil" -> Handle(r, converted("buffer"))
                 [] OTHER -> Answer(r, Message(400))
  <2>1. /\ ReadAll(q) = "ErrBodyTooLarge" <=> Large(config, q)
        /\ ReadAll(q) = "nil" <=> ~ Large(config, q) /\ q.fault = "none"
    BY <1>2, <1>11, ReadAllProperties
  <2>2. CASE ReadAll(q) = "ErrBodyTooLarge"
    BY <1>5, <1>11, <2>1, <2>2
  <2>3. CASE ReadAll(q) = "nil"
    BY <1>7, <1>11, <2>1, <2>3
  <2>4. CASE ReadAll(q) # "ErrBodyTooLarge" /\ ReadAll(q) # "nil"
    BY <1>6, <1>11, <2>1, <2>4
  <2> QED
    BY <2>2, <2>3, <2>4
<1>12. CASE q.fault # "header" /\ ~ RefusedByLength(q) /\ ~ LengthLess(q)
            /\ Handle(r, converted("client"))
  BY <1>7, <1>9, <1>12
<1>13. \/ q.fault = "header" /\ Answer(r, Message(431))
       \/ q.fault # "header" /\ ServeHTTP(r)
  BY DEF ServeNetHttp, q
<1> QED
  BY <1>4, <1>10, <1>11, <1>12, <1>13 DEF ServeHTTP, q

(* The handler answers a request.                                          *)
LEMMA ServeBalancerStep ==
  ASSUME config \in Configs, Usable(config), Exchanges,
         NEW r \in Requests, NEW rewriting, ServeBalancer(r, rewriting)
  PROVE  Exchanges'
<1>1. req[r] \in RequestStates /\ RequestOK(config, r, req[r]) /\ req[r].at = "handler"
  BY DEF Exchanges, RequestsOK, ServeBalancer
<1>2. PICK resp \in Responses(r, rewriting) :
        req' = [req EXCEPT
            ![r].at = "answered",
            ![r].fwd.got = IF resp.status = 503 THEN 0 ELSE req[r].sent.size,
            ![r].fwd.whole = resp.status # 503 /\ ~ ClientFails(r),
            ![r].res = IF Http2 THEN CopyResponse(resp) ELSE WriteResponse(resp)]
  BY DEF ServeBalancer
<1> DEFINE x == req[r]
           got == IF resp.status = 503 THEN 0 ELSE x.sent.size
           whole == resp.status # 503 /\ ~ ClientFails(r)
           res == IF Http2 THEN CopyResponse(resp) ELSE WriteResponse(resp)
           y == [x EXCEPT !.at = "answered", !.fwd.got = got, !.fwd.whole = whole,
                          !.res = res]
<1>3. /\ resp.status \in {200, 502, 503, 504} /\ resp.size \in Nat /\ resp.close \in BOOLEAN
  <2>1. resp \in {Failure(502), Failure(503), Failure(504), BackendResponse, Rewritten}
    BY DEF Responses
  <2>2. ASSUME NEW code \in {502, 503, 504}
        PROVE  /\ Failure(code).status = code /\ Failure(code).size \in Nat
               /\ Failure(code).close \in BOOLEAN
    BY DEF Failure
  <2>3. BackendResponse.status = 200 /\ BackendResponse.size \in Nat
        /\ BackendResponse.close \in BOOLEAN
    BY DEF BackendResponse
  <2>4. Rewritten.status = 200 /\ Rewritten.size \in Nat /\ Rewritten.close \in BOOLEAN
    BY DEF BackendResponse, Rewritten
  <2> QED
    BY <2>1, <2>2, <2>3, <2>4
<1>4. Framed(config, res)
  BY <1>3 DEF Framed, CopyResponse, WriteResponse, Http2, Results
<1>5. Seen(x, got, whole)
  BY DEF Seen, ClientFails
<1> HIDE DEF got, whole, res
<1>6. y \in RequestStates /\ RequestOK(config, r, y)
  <2>1. x \in RequestStates /\ RequestOK(config, r, x) /\ x.at = "handler"
    BY <1>1
  <2> HIDE DEF x
  <2> QED
    BY <1>4, <1>5, <2>1, ServeBalancerKeeps
<1>7. req' = [req EXCEPT ![r].at = "answered", ![r].fwd.got = got, ![r].fwd.whole = whole,
                         ![r].res = res]
  BY <1>2 DEF got, whole, res
<1>8. req' = [req EXCEPT ![r] = y] /\ UNCHANGED config
  BY <1>1, <1>7 DEF Exchanges, RequestStates, Forwards, ServeBalancer
<1> QED
  BY <1>6, <1>8, Replaced

-----------------------------------------------------------------------------
(* Every step keeps the invariant                                          *)

(* The process starts with nothing running.                                *)
LEMMA Invariant_Init == Init => Inv
<1> SUFFICES ASSUME Init PROVE Inv
  OBVIOUS
<1>1. \A r \in Requests : req[r] = Idle
  BY DEF Init, NoServer
<1>2. Types
  BY DivisorAssumption DEF Init, NoServer, Types, Steps
<1>3. Stages
  BY <1>1 DEF Init, NoServer, Stages
<1>4. Stopping
  BY DEF Init, NoServer, Stopping
<1>5. Idle \in RequestStates /\ Idle.at = "idle"
  BY DEF Idle, RequestStates, Nothing, Kinds, NotSent, NoAnswer, Forwards, Results
<1>6. Exchanges
  BY <1>1, <1>5 DEF Init, NoServer, Exchanges, RequestsOK, RequestOK
<1> QED
  BY <1>2, <1>3, <1>4, <1>6 DEF Inv

(* A step that leaves the configuration and the requests alone.            *)
LEMMA Kept ==
  ASSUME Exchanges, UNCHANGED <<config, req>>
  PROVE  Exchanges' /\ Open' = Open
BY DEF Exchanges, RequestsOK, Open

(* NewExecutor counts the middlewares it has loaded.                       *)
LEMMA ExecutorCount ==
  ASSUME NEW mws \in Seq(MiddlewareConfigs)
  PROVE  NewExecutor(mws).count \in Nat
<1> DEFINE failing(mw) == ~ mw.disabled /\
                \/ (mw.code = "") = (mw.file = "")
                \/ ~ IsFileExist(mw.file)
                \/ mw.loads \in {"error", "panic"}
           fails == \E k \in DOMAIN mws : failing(mws[k])
           loaded == {k \in DOMAIN mws : ~ mws[k].disabled /\ mws[k].loads # "nil"}
<1>1. IsFiniteSet(1 .. Len(mws)) /\ loaded \subseteq 1 .. Len(mws)
  BY FS_Interval
<1>2. Cardinality(loaded) \in Nat
  BY <1>1, FS_Subset, FS_CardinalityType
<1>3. NewExecutor(mws) =
        CASE mws = <<>> -> [err |-> FALSE, executor |-> "nil", count |-> 0]
          [] fails -> [err |-> TRUE, executor |-> "nil", count |-> 0]
          [] OTHER -> [err |-> FALSE, executor |-> "set", count |-> Cardinality(loaded)]
  BY DEF NewExecutor
<1> HIDE DEF fails, loaded
<1>4. CASE mws = <<>>
  <2>1. ~ fails
    BY <1>4 DEF fails
  <2> QED
    BY <1>3, <1>4, <2>1
<1>5. CASE mws # <<>> /\ fails
  BY <1>3, <1>5
<1>6. CASE mws # <<>> /\ ~ fails
  BY <1>2, <1>3, <1>6
<1> QED
  BY <1>4, <1>5, <1>6

(* Startup                                                                 *)
LEMMA Invariant_Startup ==
  ASSUME Inv, exit = "running", Startup
  PROVE  Inv'
<1> USE DEF Inv
<1>1. CASE main = "prepare" /\ Prepare
  <2>1. CASE PrepareConfig(config).err # "nil"
    BY <1>1, <2>1, Kept
       DEF Prepare, Exit, serverVars, Types, Stages, Stopping
  <2>2. CASE PrepareConfig(config).err = "nil"
    <3>1. config' = PrepareConfig(config).cfg /\ Goto("executor") /\ UNCHANGED serverVars
      BY <1>1, <2>2 DEF Prepare
    <3>2. config' \in Configs /\ Usable(config')
      BY <2>2, <3>1, PrepareUsable DEF Types
    <3>3. \A r \in Requests : req'[r] = Idle
      BY <1>1, <3>1 DEF Stages, serverVars
    <3>4. Exchanges'
      BY <3>1, <3>3 DEF Exchanges, RequestsOK, RequestOK, serverVars, Idle
    <3>5. Types'
      BY <3>1, <3>2 DEF Types, Goto, serverVars, Steps
    <3>6. Stages'
      BY <1>1, <3>1, <3>2, <3>3 DEF Stages, Goto, serverVars
    <3>7. Stopping'
      BY <1>1, <3>1 DEF Stages, Stopping, Goto, serverVars
    <3> QED
      BY <3>4, <3>5, <3>6, <3>7
  <2> QED
    BY <2>1, <2>2
<1>2. CASE PrepareMiddlewares
  <2>1. NewExecutor(config.middlewares).count \in Nat
    BY ExecutorCount DEF Types, Configs
  <2>2. Exchanges'
    BY <1>2, Kept DEF PrepareMiddlewares, Exit, serverVars
  <2>3. Types'
    BY <1>2, <2>1 DEF PrepareMiddlewares, Exit, serverVars, Types, Steps
  <2>4. Stages' /\ Stopping'
    BY <1>2 DEF PrepareMiddlewares, Exit, serverVars, Stages, Stopping
  <2> QED
    BY <2>2, <2>3, <2>4
<1>3. CASE ParseConfigFile
  <2>1. Exchanges'
    BY <1>3, Kept DEF ParseConfigFile, Exit, Goto, serverVars
  <2>2. Types'
    BY <1>3 DEF ParseConfigFile, Exit, Goto, serverVars, Types, Steps
  <2>3. Stages' /\ Stopping'
    BY <1>3 DEF ParseConfigFile, Exit, Goto, serverVars, Stages, Stopping
  <2> QED
    BY <2>1, <2>2, <2>3
<1>4. CASE NewBalancer
  <2>1. Exchanges'
    BY <1>4, Kept DEF NewBalancer, Exit, serverVars
  <2>2. Types'
    BY <1>4 DEF NewBalancer, Exit, serverVars, Types, Steps
  <2>3. Stages' /\ Stopping'
    BY <1>4 DEF NewBalancer, Exit, serverVars, Stages, Stopping
  <2> QED
    BY <2>1, <2>2, <2>3
<1>5. CASE Listen
  <2>1. Exchanges'
    BY <1>5, Kept DEF Listen, Exit, serverVars
  <2>2. Types'
    BY <1>5 DEF Listen, Exit, Goto, serverVars, Types, Steps
  <2>3. Stages' /\ Stopping'
    BY <1>5 DEF Listen, Exit, Goto, serverVars, Stages, Stopping
  <2> QED
    BY <2>1, <2>2, <2>3
<1>6. CASE Notify
  <2>1. Exchanges'
    BY <1>6, Kept DEF Notify, serverVars
  <2>2. Types'
    BY <1>6 DEF Notify, Goto, serverVars, Types, Steps
  <2>3. Stages' /\ Stopping'
    BY <1>6 DEF Notify, Goto, serverVars, Stages, Stopping
  <2> QED
    BY <2>1, <2>2, <2>3
<1>7. CASE Start
  <2>1. Exchanges'
    BY <1>7, Kept DEF Start, Exit, serverVars
  <2>2. Types'
    BY <1>7 DEF Start, Exit, Goto, serverVars, Types, Steps
  <2>3. Stages' /\ Stopping'
    BY <1>7 DEF Start, Exit, Goto, serverVars, Stages, Stopping
  <2> QED
    BY <2>1, <2>2, <2>3
<1> QED
  BY <1>1, <1>2, <1>3, <1>4, <1>5, <1>6, <1>7 DEF Startup, Prepare

(* The main select, signals, the shutdown goroutine and its limit          *)
LEMMA Invariant_Shutdown ==
  ASSUME Inv, exit = "running",
         SelectShutdown \/ SelectServeErr \/ AwaitShutdown \/ Shutdown \/ Expire \/ Signal
  PROVE  Inv'
<1> USE DEF Inv
<1>1. CASE SelectShutdown
  <2>1. Exchanges'
    BY <1>1, Kept DEF SelectShutdown, serverVars
  <2>2. Types'
    BY <1>1 DEF SelectShutdown, serverVars, Types, Steps
  <2>3. Stages' /\ Stopping'
    BY <1>1 DEF SelectShutdown, serverVars, Stages, Stopping, Types
  <2> QED
    BY <2>1, <2>2, <2>3
<1>2. CASE SelectServeErr
  <2>1. Exchanges'
    BY <1>2, Kept DEF SelectServeErr, Exit, serverVars
  <2>2. Types'
    BY <1>2 DEF SelectServeErr, Exit, serverVars, Types, Steps
  <2>3. Stages' /\ Stopping'
    BY <1>2, Kept DEF SelectServeErr, Exit, serverVars, Stages, Stopping
  <2> QED
    BY <2>1, <2>2, <2>3
<1>3. CASE AwaitShutdown
  <2>1. Exchanges' /\ Open' = Open
    BY <1>3, Kept DEF AwaitShutdown, Exit, serverVars
  <2>2. Types'
    BY <1>3 DEF AwaitShutdown, Exit, serverVars, Types, Steps
  <2>3. Stages' /\ Stopping'
    BY <1>3, <2>1 DEF AwaitShutdown, Exit, serverVars, Stages, Stopping
  <2> QED
    BY <2>1, <2>2, <2>3
<1>4. CASE CloseListener
  <2>1. Exchanges' /\ Open' = Open
    BY <1>4, Kept DEF CloseListener, serverVars
  <2>2. Types'
    BY <1>4 DEF CloseListener, Stopper, serverVars, Types, Steps
  <2>3. Stages' /\ Stopping'
    BY <1>4, <2>1 DEF CloseListener, Stopper, serverVars, Stages, Stopping
  <2> QED
    BY <2>1, <2>2, <2>3
<1>5. CASE Drain
  <2>1. Exchanges' /\ Open' = Open
    BY <1>5, Kept DEF Drain, serverVars
  <2>2. Types'
    BY <1>5 DEF Drain, Stopper, serverVars, Types, Steps
  <2>3. Stages' /\ Stopping'
    BY <1>5, <2>1 DEF Drain, Stopper, serverVars, Stages, Stopping
  <2> QED
    BY <2>1, <2>2, <2>3
<1>6. CASE ShutdownBalancer
  <2>1. Exchanges' /\ Open' = Open
    BY <1>6, Kept DEF ShutdownBalancer, serverVars
  <2>2. Types'
    BY <1>6 DEF ShutdownBalancer, serverVars, Types, Steps
  <2>3. Stages' /\ Stopping'
    BY <1>6, <2>1 DEF ShutdownBalancer, serverVars, Stages, Stopping
  <2> QED
    BY <2>1, <2>2, <2>3
<1>7. CASE Expire
  <2>1. Exchanges' /\ Open' = Open
    BY <1>7, Kept DEF Expire, serverVars
  <2>2. Types'
    BY <1>7 DEF Expire, serverVars, Types, Steps
  <2>3. Stages' /\ Stopping'
    BY <1>7, <2>1 DEF Expire, serverVars, Stages, Stopping
  <2> QED
    BY <2>1, <2>2, <2>3
<1>8. CASE Signal
  <2>1. Exchanges' /\ Open' = Open
    BY <1>8, Kept DEF Signal, serverVars
  <2>2. Types'
    <3>1. shutdown' \in BOOLEAN /\ exit' \in {"running", "0", "1", "killed"}
      BY <1>8, Zenon DEF Signal, Types
    <3> QED
      BY <1>8, <3>1 DEF Signal, serverVars, Types, Steps
  <2>3. Stages' /\ Stopping'
    BY <1>8, <2>1 DEF Signal, serverVars, Stages, Stopping
  <2> QED
    BY <2>1, <2>2, <2>3
<1> QED
  BY <1>1, <1>2, <1>3, <1>4, <1>5, <1>6, <1>7, <1>8 DEF Shutdown

(* The serving goroutine and the clients                                   *)
LEMMA Invariant_Serving ==
  ASSUME Inv, exit = "running", Serving \/ Clients
  PROVE  Inv'
<1> USE DEF Inv
<1>1. CASE ServeStarts(stopper # "none") /\ UNCHANGED mainVars
  <2>1. Exchanges' /\ Open' = Open
    BY <1>1, Kept DEF ServeStarts
  <2>2. Types'
    BY <1>1 DEF ServeStarts, mainVars, Types, Steps
  <2>3. Stages' /\ Stopping'
    BY <1>1, <2>1 DEF ServeStarts, mainVars, Stages, Stopping, Types
  <2> QED
    BY <2>1, <2>2, <2>3
<1>2. CASE ServeFails /\ UNCHANGED mainVars
  <2>1. Exchanges' /\ Open' = Open
    BY <1>2, Kept DEF ServeFails
  <2>2. Types'
    BY <1>2 DEF ServeFails, mainVars, Types, Steps
  <2>3. Stages' /\ Stopping'
    BY <1>2, <2>1 DEF ServeFails, mainVars, Stages, Stopping, Types
  <2> QED
    BY <2>1, <2>2, <2>3
<1>3. ASSUME NEW r \in Requests, UNCHANGED mainVars,
             Arrive(r) \/ ServeConn(r) \/ ServeNetHttp(r) \/ ServeBalancer(r, executor > 0)
      PROVE  Inv'
  <2>1. UNCHANGED <<config, listener, serve, serveErr>>
    BY <1>3 DEF Arrive, ServeConn, ServeNetHttp, ServeHTTP, ServeBalancer, Answer, Handle
  <2>2. main \in {"select", "shutdown"}
    <3>1. CASE Arrive(r)
      BY <3>1 DEF Arrive, Stages
    <3>2. CASE ServeConn(r) \/ ServeNetHttp(r) \/ ServeBalancer(r, executor > 0)
      <4>1. req[r].at # "idle"
        BY <3>2 DEF ServeConn, ServeNetHttp, ServeBalancer
      <4>2. req[r] # Idle
        BY <4>1 DEF Idle
      <4> QED
        BY <4>2 DEF Stages
    <3> QED
      BY <1>3, <3>1, <3>2
  <2>3. config \in Configs /\ Usable(config)
    BY <2>2 DEF Types, Stages
  <2>4. Exchanges'
    <3>1. CASE Arrive(r)
      BY <3>1, ArriveStep
    <3>2. CASE ServeConn(r)
      BY <2>3, <3>2, ServeConnStep
    <3>3. CASE ServeNetHttp(r)
      BY <2>3, <3>3, ServeNetHttpStep
    <3>4. CASE ServeBalancer(r, executor > 0)
      BY <2>3, <3>4, ServeBalancerStep
    <3> QED
      BY <1>3, <3>1, <3>2, <3>3, <3>4
  <2>5. Types'
    BY <1>3, <2>1 DEF mainVars, Types, Steps
  <2>6. Stages'
    BY <1>3, <2>1, <2>2 DEF mainVars, Stages
  <2>7. listener = "closed" => Open' \subseteq Open
    <3>1. CASE Arrive(r)
      BY <3>1 DEF Arrive
    <3>2. CASE ServeConn(r) \/ ServeNetHttp(r) \/ ServeBalancer(r, executor > 0)
      <4>1. req[r].at \in {"reading", "handler"}
        BY <3>2 DEF ServeConn, ServeNetHttp, ServeBalancer
      <4>2. \A s \in Requests \ {r} : req'[s] = req[s]
        BY <3>2
           DEF ServeConn, ServeNetHttp, ServeHTTP, ServeBalancer, Answer, Handle, Exchanges
      <4> QED
        BY <4>1, <4>2 DEF Open
    <3> QED
      BY <1>3, <3>1, <3>2
  <2>8. Stopping'
    BY <1>3, <2>1, <2>7 DEF mainVars, Stopping
  <2> QED
    BY <2>4, <2>5, <2>6, <2>8
<1> QED
  BY <1>1, <1>2, <1>3 DEF Serving, Clients

(* Every step of the process, and a stuttering step.                       *)
LEMMA Invariant_Next == Inv /\ [Next]_vars => Inv'
<1> SUFFICES ASSUME Inv, [Next]_vars PROVE Inv'
  OBVIOUS
<1>1. CASE exit = "running" /\ (Main \/ Shutdown \/ Expire \/ Signal \/ Serving \/ Clients)
  BY <1>1, Invariant_Startup, Invariant_Shutdown, Invariant_Serving DEF Main
<1>2. CASE UNCHANGED vars
  <2>1. Exchanges' /\ Open' = Open
    BY <1>2, Kept DEF vars, serverVars, Inv
  <2>2. Types' /\ Stages' /\ Stopping'
    BY <1>2, <2>1 DEF vars, serverVars, mainVars, Inv, Types, Stages, Stopping
  <2> QED
    BY <2>1, <2>2 DEF Inv
<1> QED
  BY <1>1, <1>2 DEF Next, Exited

(* The invariant holds in every state of the process.                      *)
THEOREM Invariant == Spec => []Inv
<1>1. Init => Inv
  BY Invariant_Init
<1>2. Inv /\ [Next]_vars => Inv'
  BY Invariant_Next
<1> QED
  BY <1>1, <1>2, PTL DEF Spec

-----------------------------------------------------------------------------
(* Types: main's step, the executor's count, the flags and the state of    *)
(* every request are what the code can hold.                               *)
THEOREM DivisorTypeCorrect == Spec => []TypeOK
<1>1. Inv => TypeOK
  <2> SUFFICES ASSUME Inv PROVE TypeOK
    OBVIOUS
  <2>1. ASSUME NEW r \in Requests
        PROVE  /\ req[r].at \in {"idle", "reading", "handler", "answered"}
               /\ req[r].at # "idle" => req[r].sent \in Sends[r] /\ balancer # "nil"
               /\ req[r].res.status \in (IF req[r].at = "answered" THEN 200 .. 504 ELSE {0})
    <3>1. req[r] \in RequestStates /\ RequestOK(config, r, req[r])
      BY DEF Inv, Exchanges, RequestsOK
    <3>2. req[r].at \in {"idle", "reading", "handler", "answered"}
      BY <3>1 DEF RequestStates
    <3>3. req[r].at # "idle" => req[r] # Idle
      BY DEF Idle
    <3>4. req[r].at # "idle" => balancer # "nil"
      BY <3>3 DEF Inv, Stages
    <3>5. req[r].at = "answered" => req[r].res.status \in 200 .. 504
      BY <3>1 DEF RequestOK, Answered
    <3>6. req[r].at # "answered" => req[r].res = NoAnswer
      BY <3>1, <3>2 DEF RequestOK, Idle
    <3> QED
      BY <3>1, <3>2, <3>4, <3>5, <3>6 DEF RequestOK, NoAnswer
  <2> QED
    BY <2>1 DEF Inv, Types, TypeOK
<1> QED
  BY <1>1, Invariant, PTL

(* PrepareConfig's early returns and defaults leave exactly what the       *)
(* constructors, the dialler, the deadlines and the listener rely on.      *)
THEOREM ServesUsable == Spec => []ServesOnlyUsable
<1>1. Inv => ServesOnlyUsable
  BY DEF Inv, Stages, ServesOnlyUsable
<1> QED
  BY <1>1, Invariant, PTL

(* The limits of fasthttp's server and of the adapter together refuse what *)
(* is too large, and only that, before the handler sees it.                *)
THEOREM BodyLimit == Spec => []BodyLimitHolds
<1>1. Inv => BodyLimitHolds
  BY DEF Inv, Exchanges, RequestsOK, RequestOK, Answered, RightStatus, Large, Limit,
         BodyLimitHolds
<1> QED
  BY <1>1, Invariant, PTL

(* Neither stack lets a Backend take a broken-off body for a complete one. *)
THEOREM BodiesWhole == Spec => []WholeBodies
<1>1. Inv => WholeBodies
  <2> SUFFICES ASSUME Inv, NEW r \in Requests, req[r].fwd.whole
               PROVE  /\ req[r].sent.fault = "none"
                      /\ req[r].fwd.length \in {-1, req[r].fwd.got}
    BY DEF WholeBodies
  <2>1. req[r] \in RequestStates /\ RequestOK(config, r, req[r])
    BY DEF Inv, Exchanges, RequestsOK
  <2>2. ~ NotSent.whole
    BY DEF NotSent
  <2>3. req[r].at = "answered"
    BY <2>1, <2>2 DEF RequestStates, RequestOK, Handled, Idle
  <2> QED
    BY <2>1, <2>3 DEF RequestOK, Answered
<1> QED
  BY <1>1, Invariant, PTL

(* CopyResponse and fasthttp's own writer announce what they write.        *)
THEOREM Framing == Spec => []AnswersFramed
<1>1. Inv => AnswersFramed
  <2> SUFFICES ASSUME Inv, NEW r \in Requests
               PROVE  /\ req[r].res.announced = req[r].res.written
                      /\ Http2 => ~ req[r].res.hop
    BY DEF AnswersFramed
  <2>1. req[r] \in RequestStates /\ RequestOK(config, r, req[r])
    BY DEF Inv, Exchanges, RequestsOK
  <2>2. NoAnswer.announced = NoAnswer.written /\ ~ NoAnswer.hop
    BY DEF NoAnswer
  <2>3. CASE req[r].at = "answered"
    BY <2>1, <2>3 DEF RequestOK, Answered, Http2
  <2>4. CASE req[r].at # "answered"
    <3>1. req[r].res = NoAnswer
      BY <2>1, <2>4 DEF RequestStates, RequestOK, Idle
    <3> QED
      BY <2>2, <3>1
  <2> QED
    BY <2>3, <2>4
<1> QED
  BY <1>1, Invariant, PTL

(* performGracefulShutdown's order of steps and main's last select make    *)
(* the exit code tell what happened, whatever the clients do meanwhile.    *)
THEOREM ExitCode == Spec => []ExitCodeTells
<1>1. Inv => ExitCodeTells
  BY DEF Inv, Types, Stages, Stopping, ExitCodeTells
<1> QED
  BY <1>1, Invariant, PTL

(* The shutdown goroutine drains the server before it closes the Balancer. *)
THEOREM BalancerLast == Spec => []BalancerOutlivesRequests
<1>1. Inv => BalancerOutlivesRequests
  BY DEF Inv, Stopping, BalancerOutlivesRequests
<1> QED
  BY <1>1, Invariant, PTL

(* PrepareConfig's chain of checks stops the process exactly for the files *)
(* the README rules out.                                                   *)
THEOREM RefusesExactly == Spec => RefusesUndocumented
<1> DEFINE A == main = "prepare" /\ exit' # "killed" =>
                  (exit' = "running" <=> Documented(config))
<1>1. Inv /\ [Next]_vars => [A]_vars
  <2> SUFFICES ASSUME Inv, Next, main = "prepare", exit' # "killed", exit = "running"
               PROVE  exit' = "running" <=> Documented(config)
    BY DEF Next, Exited
  <2>1. CASE Main
    <3>1. Prepare
      BY <2>1 DEF Main, Startup, ParseConfigFile, PrepareMiddlewares, NewBalancer, Listen,
                  Notify, Start, SelectShutdown, SelectServeErr, AwaitShutdown
    <3>2. PrepareConfig(config).err = "nil" <=> Documented(config)
      BY PrepareAccepts DEF Inv, Types
    <3> QED
      BY <3>1, <3>2 DEF Prepare, Exit, Goto
  <2>2. ~ (Shutdown \/ Expire)
    BY DEF Inv, Stages, Shutdown, CloseListener, Drain, ShutdownBalancer, Expire
  <2>3. ~ Signal
    BY DEF Signal, Notified
  <2>4. ~ Serving
    BY DEF Inv, Stages, Serving, ServeStarts, ServeFails
  <2>5. ~ Clients
    <3>1. \A r \in Requests : req[r].at = "idle"
      BY DEF Inv, Stages, Idle
    <3>2. serve = "none"
      BY DEF Inv, Stages
    <3> QED
      BY <3>1, <3>2 DEF Clients, Arrive, ServeConn, ServeNetHttp, ServeBalancer
  <2> QED
    BY <2>1, <2>2, <2>3, <2>4, <2>5 DEF Next, Exited
<1> QED
  BY <1>1, Invariant, PTL DEF Spec, RefusesUndocumented

=============================================================================
