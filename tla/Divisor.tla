------------------------------ MODULE Divisor ------------------------------
(***************************************************************************)
(* main.go: the process from its configuration file to its exit code.      *)
(* main starts the parts one after the other, waits for a signal or for    *)
(* the listener to die, and shuts down: a goroutine stops the server and   *)
(* then the Balancer while main waits for it, but at most 30 seconds.      *)
(***************************************************************************)
EXTENDS Server

CONSTANT Files          \* bound: the configurations a file may hold

ASSUME DivisorAssumption == Files \subseteq Configs

VARIABLES
    main,           \* the step main is at
    executor,       \* the middlewares installed, 0 without an executor
    balancer,       \* "nil", "up", or "closed" by its Shutdown
    shutdown,       \* whether a signal is in the channel
    signalled,      \* whether a signal was sent to the process
    stopper,        \* the shutdown goroutine
    expired,        \* whether the shutdown's context is done
    exit            \* "running", or the exit code, or "killed" by a signal

mainVars == <<main, executor, balancer, shutdown, signalled, stopper, expired, exit>>
vars == <<config, serverVars, mainVars>>

Init ==
    /\ config \in Files
    /\ NoServer
    /\ main = "config" /\ executor = 0 /\ balancer = "nil"
    /\ shutdown = FALSE /\ signalled = FALSE
    /\ stopper = "none" /\ expired = FALSE /\ exit = "running"

-----------------------------------------------------------------------------
(* Startup                                                                 *)

\* os.Exit and zap's Fatal: nothing else happens.
Exit(code) ==
    /\ exit' = code
    /\ UNCHANGED <<config, serverVars, main, executor, balancer, shutdown, signalled,
                   stopper, expired>>

Goto(step) ==
    /\ main' = step
    /\ UNCHANGED <<executor, balancer, shutdown, signalled, stopper, expired, exit>>

\* The file may be missing or not be YAML.
ParseConfigFile ==
    /\ main = "config"
    /\ Exit("1") \/ (Goto("prepare") /\ UNCHANGED <<config, serverVars>>)

Prepare ==
    /\ main = "prepare"
    /\ LET prepared == PrepareConfig(config) IN
       IF prepared.err # "nil" THEN Exit("1")
       ELSE Goto("executor") /\ config' = prepared.cfg /\ UNCHANGED serverVars

PrepareMiddlewares ==
    /\ main = "executor"
    /\ LET built == NewExecutor(config.middlewares) IN
       IF built.err THEN Exit("1")
       ELSE /\ main' = "balancer" /\ executor' = built.count
            /\ UNCHANGED <<config, serverVars, balancer, shutdown, signalled, stopper,
                           expired, exit>>

\* The constructor returns nil when no Backend answers its probe.
NewBalancer ==
    /\ main = "balancer"
    /\ \/ Exit("1")
       \/ /\ main' = "listen" /\ balancer' = "up"
          /\ UNCHANGED <<config, serverVars, executor, shutdown, signalled, stopper,
                         expired, exit>>

Listen ==
    /\ main = "listen"
    /\ \/ Exit("1")
       \/ /\ Goto("notify") /\ listener' = "open"
          /\ UNCHANGED <<config, serve, serveErr, req>>

Notify ==
    /\ main = "notify"
    /\ Goto("start") /\ UNCHANGED <<config, serverVars>>

\* server.Start: configuring HTTP/2 may fail.
Start ==
    /\ main = "start"
    /\ \/ Http2 /\ Exit("1")
       \/ /\ Goto("select") /\ serve' = "starting"
          /\ UNCHANGED <<config, listener, serveErr, req>>

-----------------------------------------------------------------------------
(* Signals and the main select                                             *)

Notified == main \in {"start", "select", "shutdown"}

\* Mutant: a channel without a buffer, which Notify does not wait for.
SignalUnbuffered ==
    /\ signalled' = TRUE
    /\ IF Notified
       THEN shutdown' = (shutdown \/ main = "select") /\ UNCHANGED exit
       ELSE exit' = "killed" /\ UNCHANGED shutdown
    /\ UNCHANGED <<config, serverVars, main, executor, balancer, stopper, expired>>

\* The channel holds one signal; later ones are dropped.
Signal ==
    /\ signalled' = TRUE
    /\ IF Notified
       THEN shutdown' = TRUE /\ UNCHANGED exit
       ELSE exit' = "killed" /\ UNCHANGED shutdown
    /\ UNCHANGED <<config, serverVars, main, executor, balancer, stopper, expired>>

SelectShutdown ==
    /\ main = "select" /\ shutdown
    /\ main' = "shutdown" /\ shutdown' = FALSE /\ stopper' = "close"
    /\ UNCHANGED <<config, serverVars, executor, balancer, signalled, expired, exit>>

\* Mutant: a dead listener is only logged.
SelectServeErrLogs ==
    /\ main = "select" /\ serveErr
    /\ serveErr' = FALSE
    /\ UNCHANGED <<config, listener, serve, req, mainVars>>

SelectServeErr == main = "select" /\ serveErr /\ Exit("1")

-----------------------------------------------------------------------------
(* performGracefulShutdown                                                 *)

Stopper(step) ==
    /\ stopper' = step
    /\ UNCHANGED <<main, executor, balancer, shutdown, signalled, expired, exit>>

(* srv.Shutdown closes the listener, which may fail.  A server that has    *)
(* not begun to serve has no listener yet: there is nothing to close and   *)
(* nothing to wait for, and on fasthttp Serve starts all the same.         *)
CloseListener ==
    /\ stopper = "close"
    /\ IF serve = "starting"
       THEN Stopper("balancer") /\ UNCHANGED <<config, serverVars>>
       ELSE \/ Stopper("failed") /\ UNCHANGED <<config, serverVars>>
            \/ /\ Stopper("drain") /\ listener' = "closed" /\ serve' = "ended"
               /\ UNCHANGED <<config, serveErr, req>>

\* Mutant: open requests are not waited for.
DrainNot ==
    /\ stopper = "drain"
    /\ Stopper("balancer") /\ UNCHANGED <<config, serverVars>>

\* And waits for the open requests as long as its context lets it.
Drain ==
    /\ stopper = "drain"
    /\ \/ Open = {} /\ Stopper("balancer")
       \/ expired /\ Stopper("failed")
    /\ UNCHANGED <<config, serverVars>>

ShutdownBalancer ==
    /\ stopper = "balancer"
    /\ stopper' = "done" /\ balancer' = "closed"
    /\ UNCHANGED <<config, serverVars, main, executor, shutdown, signalled, expired, exit>>

Expire ==
    /\ main = "shutdown" /\ ~ expired
    /\ expired' = TRUE
    /\ UNCHANGED <<config, serverVars, main, executor, balancer, shutdown, signalled,
                   stopper, exit>>

\* Mutant: a limit that counts as success.
AwaitShutdownForgives ==
    /\ main = "shutdown"
    /\ \/ (stopper = "done" \/ expired) /\ Exit("0")
       \/ stopper = "failed" /\ Exit("1")

\* The select takes either case when both are ready.
AwaitShutdown ==
    /\ main = "shutdown"
    /\ \/ stopper = "done" /\ Exit("0")
       \/ (stopper = "failed" \/ expired) /\ Exit("1")

-----------------------------------------------------------------------------
Startup ==
    \/ ParseConfigFile \/ Prepare \/ PrepareMiddlewares \/ NewBalancer
    \/ Listen \/ Notify \/ Start

Main == Startup \/ SelectShutdown \/ SelectServeErr \/ AwaitShutdown

Shutdown == CloseListener \/ Drain \/ ShutdownBalancer

Clients ==
    /\ \E r \in Requests :
         Arrive(r) \/ ServeConn(r) \/ ServeNetHttp(r) \/ ServeBalancer(r, executor > 0)
    /\ UNCHANGED mainVars

Serving == (ServeStarts(stopper # "none") \/ ServeFails) /\ UNCHANGED mainVars

Exited == exit # "running" /\ UNCHANGED vars

Next ==
    \/ exit = "running" /\ (Main \/ Shutdown \/ Expire \/ Signal \/ Serving \/ Clients)
    \/ Exited

(* main and the shutdown goroutine go on when they can, and time passes.   *)
(* Nothing makes a client send the rest of its request.                    *)
Spec ==
    /\ Init /\ [][Next]_vars
    /\ WF_vars(exit = "running" /\ Main)
    /\ WF_vars(exit = "running" /\ Shutdown)
    /\ WF_vars(exit = "running" /\ Expire)

-----------------------------------------------------------------------------
Steps ==
    {"config", "prepare", "executor", "balancer", "listen", "notify", "start", "select",
     "shutdown"}

TypeOK ==
    /\ main \in Steps
    /\ executor \in Nat
    /\ balancer \in {"nil", "up", "closed"}
    /\ {shutdown, signalled, expired, serveErr} \subseteq BOOLEAN
    /\ stopper \in {"none", "close", "drain", "balancer", "failed", "done"}
    /\ exit \in {"running", "0", "1", "killed"}
    /\ listener \in {"none", "open", "closed"}
    /\ serve \in {"none", "starting", "serving", "ended"}
    /\ \A r \in Requests :
         /\ req[r].at \in {"idle", "reading", "handler", "answered"}
         /\ req[r].at # "idle" => req[r].sent \in Sends[r] /\ balancer # "nil"
         /\ req[r].res.status \in (IF req[r].at = "answered" THEN 200 .. 504 ELSE {0})

(* PrepareConfig refuses exactly the files the README's rules exclude,     *)
(* whatever the order of its checks and of the defaults it fills in.       *)
RefusesUndocumented ==
    [][main = "prepare" /\ exit' # "killed" =>
         (exit' = "running" <=> Documented(config))]_vars

(* Requests are served only from a configuration the other parts can work  *)
(* with: what PrepareConfig lets through is what they take for granted.    *)
ServesOnlyUsable ==
    main \in {"start", "select", "shutdown"} => Usable(config) /\ balancer # "nil"

(* "Larger bodies get 413 and never reach a backend", on both stacks, and  *)
(* whether the client declares a length or not; and nobody else gets 413.  *)
BodyLimitHolds ==
    \A r \in Requests : req[r].at = "answered" =>
        LET q == req[r].sent
            large == q.declared > Limit \/ q.size > Limit
        IN  /\ req[r].fwd.got <= Limit
            /\ q.fault # "header" => (large <=> req[r].res.status = 413)

(* A Backend takes a body for complete only if the client has finished it, *)
(* and has been told its length or that there is none.                     *)
WholeBodies ==
    \A r \in Requests : req[r].fwd.whole =>
        /\ req[r].sent.fault = "none"
        /\ req[r].fwd.length \in {-1, req[r].fwd.got}

(* The length a client is told is that of the body it gets, although the   *)
(* response may hold the length of another; and no hop-by-hop header goes  *)
(* out over HTTP/2, although error responses set one.                      *)
AnswersFramed ==
    \A r \in Requests :
        /\ req[r].res.announced = req[r].res.written
        /\ Http2 => ~ req[r].res.hop

(* "SIGTERM must drain": exit code 0 after serving means a signal, every   *)
(* request answered and the Balancer shut down; unless the signal came     *)
(* before Serve had begun, when there was no listener to close.  And a     *)
(* shutdown that could close the listener fails only because the limit     *)
(* expired: a request that is still open is not a failure before that.     *)
ExitCodeTells ==
    /\ exit = "0" => /\ signalled /\ balancer = "closed"
                     /\ listener = "closed" => Open = {}
    /\ exit = "1" /\ main = "shutdown" /\ listener = "closed" => expired

(* The Balancer is shut down last: no request that a closed listener let   *)
(* in finds its health checker stopped and its connections closed.         *)
BalancerOutlivesRequests == balancer = "closed" /\ listener = "closed" => Open = {}

(* Every signal ends the process, whenever it comes during startup or      *)
(* serving and whatever the clients do.                                    *)
SignalEndsProcess == signalled ~> exit # "running"

(* "A dead listener is a startup failure the process must not outlive."    *)
DeadListenerEndsProcess == serveErr ~> exit # "running"

=============================================================================
