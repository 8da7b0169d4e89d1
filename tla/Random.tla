------------------------------- MODULE Random -------------------------------
(***************************************************************************)
(* core/random/random.go: a request takes any position of the slice.       *)
(***************************************************************************)
EXTENDS SliceBalancer

vars == <<balancerVars, sliceVars>>

-----------------------------------------------------------------------------
NewRandom == NewSlice /\ servers = AliveServers

\* rand.IntN(len(servers))
next(r) == \E p \in DOMAIN snap[r] : PickAt(r, p)

Serve(r) == LoadServers(r) \/ next(r) \/ (Respond(r) /\ UNCHANGED sliceVars)

Rejoin ==
    /\ CheckerStep("rejoin", "markUp")
    /\ servers' = Append(servers, EntryOf(cur))
    /\ UNCHANGED snap

healthCheck ==
    \/ Probe /\ UNCHANGED sliceVars
    \/ Leave
    \/ Rejoin
    \/ StoreIsHostAlive /\ UNCHANGED sliceVars

healthChecker == healthCheckerStep /\ UNCHANGED sliceVars

Stats == StatsCall /\ UNCHANGED sliceVars

Shutdown == ShutdownCall /\ UNCHANGED sliceVars

Environment == (\E b \in Flaky : Flip(b)) /\ UNCHANGED sliceVars

Next ==
    /\ scrape # "panicked"
    /\ \/ \E r \in Requests : Serve(r)
       \/ healthChecker
       \/ healthCheck
       \/ Stats
       \/ Shutdown
       \/ Environment

Spec == NewRandom /\ [][Next]_vars

-----------------------------------------------------------------------------
TypeOK == SliceTypeOK

=============================================================================
