----------------------------- MODULE RoundRobin -----------------------------
(***************************************************************************)
(* core/round-robin/round-robin.go: requests draw numbers from one shared  *)
(* atomic counter and take that position of the slice they loaded.         *)
(***************************************************************************)
EXTENDS SliceBalancer

CONSTANT CounterMod     \* the counter is a uint64: 2^64 in the code

ASSUME CounterAssumption == CounterMod \in Nat \ {0}

VARIABLE i              \* the counter

vars == <<balancerVars, sliceVars, i>>

-----------------------------------------------------------------------------
NewRoundRobin ==
    /\ NewSlice
    /\ servers = AliveServers
    /\ i = 0

\* atomic.AddUint64 and the index, which is local to the request.
Draw == (i + 1) % CounterMod

\* Mutant: the last slot is never reached.
nextShort(r) ==
    /\ phase[r] = "loaded"
    /\ i' = Draw
    /\ PickAt(r, 1 + (Draw % (IF Len(snap[r]) > 1 THEN Len(snap[r]) - 1 ELSE 1)))

next(r) ==
    /\ phase[r] = "loaded"
    /\ i' = Draw
    /\ PickAt(r, 1 + (Draw % Len(snap[r])))

Serve(r) ==
    \/ LoadServers(r) /\ UNCHANGED i
    \/ next(r)
    \/ Respond(r) /\ UNCHANGED <<sliceVars, i>>

Rejoin ==
    /\ CheckerStep("rejoin", "markUp")
    /\ servers' = Append(servers, EntryOf(cur))
    /\ UNCHANGED snap

healthCheck ==
    /\ \/ Probe /\ UNCHANGED sliceVars
       \/ Leave
       \/ Rejoin
       \/ StoreIsHostAlive /\ UNCHANGED sliceVars
    /\ UNCHANGED i

healthChecker == healthCheckerStep /\ UNCHANGED <<sliceVars, i>>

Stats == StatsCall /\ UNCHANGED <<sliceVars, i>>

Shutdown == ShutdownCall /\ UNCHANGED <<sliceVars, i>>

Environment == (\E b \in Flaky : Flip(b)) /\ UNCHANGED <<sliceVars, i>>

Next ==
    /\ scrape # "panicked"
    /\ \/ \E r \in Requests : Serve(r)
       \/ healthChecker
       \/ healthCheck
       \/ Stats
       \/ Shutdown
       \/ Environment

Spec == NewRoundRobin /\ [][Next]_vars

(* Go runs every goroutine that can run and a ticker keeps firing: the     *)
(* health checker goes on unless its probe hangs, and so does a Shutdown   *)
(* that has been called.                                                   *)
CheckerGoesOn == healthChecker \/ (checker # "probe" /\ healthCheck)

ShutdownGoesOn ==
    /\ ShutdownJoined \/ ShutdownTimeout \/ ShutdownClose
    /\ UNCHANGED <<sliceVars, i>>

FairSpec == Spec /\ WF_vars(CheckerGoesOn) /\ WF_vars(ShutdownGoesOn)

-----------------------------------------------------------------------------
TypeOK == SliceTypeOK /\ i \in 0 .. CounterMod - 1

=============================================================================
