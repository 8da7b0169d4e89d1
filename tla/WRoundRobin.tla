---------------------------- MODULE WRoundRobin ----------------------------
(***************************************************************************)
(* core/w-round-robin/w-round-robin.go: each Backend is in the slice as    *)
(* often as its weight, in an order drawn anew each time one rejoins.      *)
(***************************************************************************)
EXTENDS SliceBalancer

CONSTANTS
    CounterMod,     \* the counter is a uint64: 2^64 in the code
    Weight          \* the weight of each Backend; PrepareConfig refuses 0

ASSUME WRoundRobinAssumption ==
    /\ CounterMod \in Nat \ {0}
    /\ Weight \in [Backends -> Nat \ {0}]

VARIABLE i          \* the counter

vars == <<balancerVars, sliceVars, i>>

-----------------------------------------------------------------------------
Count(s, x) == Cardinality({p \in DOMAIN s : s[p] = x})

\* rand.Shuffle: any arrangement of the same elements.
Shuffle(s) ==
    {t \in [DOMAIN s -> Range(s)] : \A x \in Range(s) : Count(t, x) = Count(s, x)}

Copies(b) == [k \in 1 .. Weight[b] |-> b]

\* The constructor's loop: the copies of the Backends that answered, one
\* Backend after the other.
copiesUpTo[b \in 0 .. N] ==
    IF b = 0 THEN <<>>
    ELSE copiesUpTo[b - 1] \o (IF isHostAlive[b] THEN Copies(b) ELSE <<>>)

\* The constructor's slice before it is shuffled.
AliveCopies == copiesUpTo[N]

NewWRoundRobin ==
    /\ NewSlice
    /\ servers \in Shuffle(AliveCopies)
    /\ i = 0

Draw == (i + 1) % CounterMod

\* Mutant: the last slot is never reached.
nextShort(r) ==
    /\ phase[r] = "loaded"
    /\ i' = Draw
    /\ PickAt(r, 1 + (Draw % (IF Len(snap[r]) > 1 THEN Len(snap[r]) - 1 ELSE 1)))

next(r) ==
    /\ phase[r] = "loaded"
    /\ i' = Draw
    /\ PickAt(r, 1 + (Draw % Len(snap[r])))

Serve(r) ==
    \/ LoadServers(r) /\ UNCHANGED i
    \/ next(r)
    \/ Respond(r) /\ UNCHANGED <<sliceVars, i>>

\* Mutant: one copy, as the unweighted balancer does.
RejoinOnce ==
    /\ CheckerStep("rejoin", "markUp")
    /\ servers' \in Shuffle(Append(servers, EntryOf(cur)))
    /\ UNCHANGED snap

Rejoin ==
    /\ CheckerStep("rejoin", "markUp")
    /\ servers' \in Shuffle(servers \o Copies(EntryOf(cur)))
    /\ UNCHANGED snap

healthCheck ==
    /\ \/ Probe /\ UNCHANGED sliceVars
       \/ Leave
       \/ Rejoin
       \/ StoreIsHostAlive /\ UNCHANGED sliceVars
    /\ UNCHANGED i

healthChecker == healthCheckerStep /\ UNCHANGED <<sliceVars, i>>

Stats == StatsCall /\ UNCHANGED <<sliceVars, i>>

Shutdown == ShutdownCall /\ UNCHANGED <<sliceVars, i>>

Environment == (\E b \in Flaky : Flip(b)) /\ UNCHANGED <<sliceVars, i>>

Next ==
    /\ scrape # "panicked"
    /\ \/ \E r \in Requests : Serve(r)
       \/ healthChecker
       \/ healthCheck
       \/ Stats
       \/ Shutdown
       \/ Environment

Spec == NewWRoundRobin /\ [][Next]_vars

-----------------------------------------------------------------------------
TypeOK == SliceTypeOK /\ i \in 0 .. CounterMod - 1

=============================================================================
