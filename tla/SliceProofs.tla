---------------------------- MODULE SliceProofs ----------------------------
(***************************************************************************)
(* The invariants of the Balancers that keep their rotation in a slice, as *)
(* lemmas about each step they share.                                      *)
(***************************************************************************)
EXTENDS SliceBalancer, BalancerProofs

\* A request only goes on to choose from a slice that has something in it.
LoadedNotEmpty == \A r \in Requests : phase[r] = "loaded" => snap[r] # <<>>

SliceTypeInv == SliceTypeOK /\ LoadedNotEmpty

\* While the health checker acts on a probe, the flag still says the opposite.
ActsOnVerdict ==
    /\ checker \in {"leave", "markDown"} => isHostAlive[cur]
    /\ checker \in {"rejoin", "append", "markUp"} => ~ isHostAlive[cur]

FlagInv == FlagMatchesRotation /\ ActsOnVerdict

-----------------------------------------------------------------------------
(* The constructor's slice has the Backends that answered, once each.      *)
LEMMA AliveServersProperties ==
  /\ AliveServers \in Seq(Backends)
  /\ Range(AliveServers) = {b \in Backends : isHostAlive[b]}
  /\ IsInjective(AliveServers)
<1> DEFINE all  == [b \in Backends |-> b]
           keep == {b \in Backends : isHostAlive[b]}
<1>1. all \in Seq(Backends)
  <2>1. all \in [1 .. N -> Backends] /\ N \in Nat
    BY BalancerAssumption DEF Backends
  <2> QED
    BY <2>1, SeqDef
<1>2. keep \in SUBSET DOMAIN all
  OBVIOUS
<1>3. {all[p] : p \in keep} = keep
  OBVIOUS
<1>4. IsInjective(all)
  BY DEF IsInjective
<1> HIDE DEF all, keep
<1>5. /\ SubsequenceAt(all, keep) \in Seq(Backends)
      /\ Range(SubsequenceAt(all, keep)) = keep
      /\ IsInjective(SubsequenceAt(all, keep))
  BY <1>1, <1>2, <1>3, <1>4, SubsequenceAtProperties
<1> QED
  BY <1>5 DEF all, keep, AliveServers

(* The constructor establishes the invariants.                             *)
LEMMA NewSliceInv ==
  ASSUME NewSlice, servers \in Seq(Backends),
         Range(servers) = {b \in Backends : isHostAlive[b]}
  PROVE  SliceTypeInv /\ FlagInv
<1>1. BalancerTypeOK
  BY NewBalancerType DEF NewSlice
<1>2. SliceTypeOK
  <2>1. <<>> \in Seq(Backends)
    BY EmptySeq
  <2> QED
    BY <1>1, <2>1 DEF NewSlice, SliceTypeOK
<1>3. LoadedNotEmpty
  BY DEF NewSlice, NewBalancer, LoadedNotEmpty
<1>4. FlagInv
  BY <1>1 DEF NewSlice, NewBalancer, FlagInv, FlagMatchesRotation, ActsOnVerdict,
              BetweenStores, rotation, BalancerTypeOK
<1> QED
  BY <1>2, <1>3, <1>4 DEF SliceTypeInv

-----------------------------------------------------------------------------
(* Type correctness.  It needs no assumption on the keys.                  *)

(* A step of the health checker, Stats, Shutdown or a host.                *)
LEMMA OtherStepType ==
  ASSUME SliceTypeInv, BalancerTypeOK', UNCHANGED <<sliceVars, requestVars>>
  PROVE  SliceTypeInv'
  BY DEF SliceTypeInv, SliceTypeOK, LoadedNotEmpty, sliceVars, requestVars

(* Leaving and rejoining store a slice of Backends.                        *)
LEMMA StoreServersType ==
  ASSUME SliceTypeInv, BalancerTypeOK', servers' \in Seq(Backends),
         UNCHANGED <<snap, requestVars>>
  PROVE  SliceTypeInv'
  BY DEF SliceTypeInv, SliceTypeOK, LoadedNotEmpty, requestVars

(* The removal of a Backend keeps the types.                               *)
LEMMA LeaveType ==
  ASSUME SliceTypeInv, Leave
  PROVE  SliceTypeInv'
<1>1. BalancerTypeOK'
  BY CheckerTypeOK DEF SliceTypeInv, SliceTypeOK, Leave, CheckerLocations
<1>2. servers' \in Seq(Backends)
  BY RemoveByValueProperties DEF SliceTypeInv, SliceTypeOK, Leave
<1> QED
  BY <1>1, <1>2, StoreServersType DEF Leave, CheckerStep

(* So does the append of one that rejoins.                                 *)
LEMMA AppendType ==
  ASSUME SliceTypeInv, NEW from \in CheckerLocations, CheckerStep(from, "markUp"),
         servers' = Append(servers, EntryOf(cur)), UNCHANGED snap
  PROVE  SliceTypeInv'
<1>1. BalancerTypeOK'
  BY CheckerTypeOK DEF SliceTypeInv, SliceTypeOK, CheckerLocations
<1>2. EntryOf(cur) \in Backends
  BY EntryOfType DEF SliceTypeInv, SliceTypeOK, BalancerTypeOK
<1>3. servers' \in Seq(Backends)
  BY <1>2, AppendProperties DEF SliceTypeInv, SliceTypeOK
<1> QED
  BY <1>1, <1>3, StoreServersType DEF CheckerStep

(* A request that loads the slice goes on only if it has an element.       *)
LEMMA LoadServersType ==
  ASSUME SliceTypeInv, NEW r \in Requests, LoadServers(r)
  PROVE  SliceTypeInv'
<1>1. BalancerTypeOK'
  BY RequestTypeOK DEF SliceTypeInv, SliceTypeOK, LoadServers
<1>2. servers' \in Seq(Backends) /\ snap' \in [Requests -> Seq(Backends)]
  BY DEF SliceTypeInv, SliceTypeOK, LoadServers
<1>3. LoadedNotEmpty'
  BY DEF SliceTypeInv, SliceTypeOK, BalancerTypeOK, LoadedNotEmpty, LoadServers, Load
<1> QED
  BY <1>1, <1>2, <1>3 DEF SliceTypeInv, SliceTypeOK

(* A position of the loaded slice holds a Backend.                         *)
LEMMA PickAtType ==
  ASSUME SliceTypeInv, NEW r \in Requests, NEW p \in DOMAIN snap[r], PickAt(r, p)
  PROVE  SliceTypeInv'
<1>1. snap[r][p] \in Backends
  BY ElementOfSeq, LenProperties DEF SliceTypeInv, SliceTypeOK
<1>2. BalancerTypeOK'
  BY <1>1, RequestTypeOK DEF SliceTypeInv, SliceTypeOK, PickAt
<1>3. servers' \in Seq(Backends) /\ snap' \in [Requests -> Seq(Backends)]
  <2>1. <<>> \in Seq(Backends)
    BY EmptySeq
  <2> QED
    BY <2>1 DEF SliceTypeInv, SliceTypeOK, PickAt
<1>4. LoadedNotEmpty'
  BY DEF SliceTypeInv, SliceTypeOK, BalancerTypeOK, LoadedNotEmpty, PickAt, Pick
<1> QED
  BY <1>2, <1>3, <1>4 DEF SliceTypeInv, SliceTypeOK

(* An answered request has nothing loaded.                                 *)
LEMMA RespondType ==
  ASSUME SliceTypeInv, NEW r \in Requests, Respond(r), UNCHANGED sliceVars
  PROVE  SliceTypeInv'
<1>1. BalancerTypeOK'
  BY RequestTypeOK DEF SliceTypeInv, SliceTypeOK
<1>2. LoadedNotEmpty'
  BY DEF SliceTypeInv, SliceTypeOK, BalancerTypeOK, LoadedNotEmpty, Respond, sliceVars
<1> QED
  BY <1>1, <1>2 DEF SliceTypeInv, SliceTypeOK, sliceVars

-----------------------------------------------------------------------------
(* Flags and rotation.  Distinct keys are needed from here on: with a      *)
(* shared key the health check of one Backend moves the other one.         *)

(* Steps of requests and of Stats touch neither flags nor rotation.        *)
LEMMA FlagUnchanged ==
  ASSUME FlagInv, UNCHANGED <<servers, isHostAlive, checker, cur>>
  PROVE  FlagInv'
  BY DEF FlagInv, FlagMatchesRotation, ActsOnVerdict, BetweenStores, rotation

(* Between two health checks nothing is pending.                           *)
LEMMA CheckerStepFlag ==
  ASSUME FlagInv, healthCheckerStep, UNCHANGED servers
  PROVE  FlagInv'
<1>1. ~ BetweenStores /\ ~ BetweenStores'
  BY DEF healthCheckerStep, SelectTick, SelectStop, LoopHead, BetweenStores
<1>2. FlagMatchesRotation'
  BY <1>1 DEF FlagInv, FlagMatchesRotation, rotation,
              healthCheckerStep, SelectTick, SelectStop, LoopHead
<1>3. ActsOnVerdict'
  BY DEF ActsOnVerdict, healthCheckerStep, SelectTick, SelectStop, LoopHead
<1> QED
  BY <1>2, <1>3 DEF FlagInv

(* The probe decides on the flag of its own Backend.                       *)
LEMMA ProbeFlag ==
  ASSUME BalancerTypeOK, FlagInv, IsInjective(Hash), Probe, UNCHANGED servers
  PROVE  FlagInv'
<1>1. EntryOf(cur) = cur
  BY EntryOfDistinct DEF BalancerTypeOK
<1>2. ~ BetweenStores /\ ~ BetweenStores'
  BY DEF Probe, NextBackend, BetweenStores
<1>3. FlagMatchesRotation'
  BY <1>2 DEF FlagInv, FlagMatchesRotation, rotation, Probe
<1>4. ActsOnVerdict'
  BY <1>1 DEF ActsOnVerdict, Probe, NextBackend
<1> QED
  BY <1>3, <1>4 DEF FlagInv

(* The rotation changes at the one Backend whose flag is stored next.      *)
LEMMA MoveFlag ==
  ASSUME BalancerTypeOK, FlagInv, ~ BetweenStores, BetweenStores',
         \A b \in Backends : (b \in rotation') # (b \in rotation) <=> b = cur,
         ActsOnVerdict', UNCHANGED <<isHostAlive, cur>>
  PROVE  FlagInv'
  BY DEF FlagInv, FlagMatchesRotation, BalancerTypeOK

(* Leaving moves the Backend being checked, and no other.                  *)
LEMMA LeaveFlag ==
  ASSUME SliceTypeInv, FlagInv, IsInjective(Hash), Leave
  PROVE  FlagInv'
<1>1. EntryOf(cur) = cur /\ cur \in Backends
  BY EntryOfDistinct DEF SliceTypeInv, SliceTypeOK, BalancerTypeOK
<1>2. rotation' = rotation \ {cur}
  BY <1>1, RemoveByValueProperties DEF SliceTypeInv, SliceTypeOK, Leave, rotation
<1>3. ~ BetweenStores /\ BetweenStores'
  BY DEF Leave, CheckerStep, BetweenStores
<1>4. cur \in rotation
  BY <1>1, <1>3 DEF FlagInv, FlagMatchesRotation, ActsOnVerdict, Leave, CheckerStep,
                    SliceTypeInv, SliceTypeOK, BalancerTypeOK
<1>5. ActsOnVerdict'
  BY DEF FlagInv, ActsOnVerdict, Leave, CheckerStep
<1> QED
  BY <1>1, <1>2, <1>3, <1>4, <1>5, MoveFlag
  DEF Leave, CheckerStep, SliceTypeInv, SliceTypeOK

(* The Backend appended was not in the slice: it is added, once.           *)
LEMMA AppendMoves ==
  ASSUME SliceTypeInv, FlagInv, IsInjective(Hash),
         NEW from \in {"rejoin", "append"}, CheckerStep(from, "markUp"),
         servers' = Append(servers, EntryOf(cur))
  PROVE  /\ cur \notin rotation /\ rotation' = rotation \cup {cur}
         /\ IsInjective(servers) => IsInjective(servers')
<1>1. EntryOf(cur) = cur /\ cur \in Backends
  BY EntryOfDistinct DEF SliceTypeInv, SliceTypeOK, BalancerTypeOK
<1>2. cur \notin rotation
  BY <1>1 DEF FlagInv, FlagMatchesRotation, ActsOnVerdict, BetweenStores, CheckerStep,
              SliceTypeInv, SliceTypeOK, BalancerTypeOK
<1> DEFINE n == Len(servers)
<1>3. /\ n \in Nat /\ DOMAIN servers = 1 .. n /\ DOMAIN servers' = 1 .. n + 1
      /\ \A k \in 1 .. n : servers'[k] = servers[k]
      /\ servers'[n + 1] = cur
  BY <1>1, AppendProperties, LenProperties DEF SliceTypeInv, SliceTypeOK
<1> HIDE DEF n
<1>4. \A k \in 1 .. n + 1 : k \in 1 .. n \/ k = n + 1
  BY <1>3
<1>5. n + 1 \in 1 .. n + 1 /\ \A k \in 1 .. n : k \in 1 .. n + 1
  BY <1>3
<1>6. rotation' = rotation \cup {cur}
  BY <1>3, <1>4, <1>5 DEF rotation, Range
<1>7. ASSUME IsInjective(servers) PROVE IsInjective(servers')
  <2>1. \A k \in 1 .. n : servers[k] # cur
    BY <1>2, <1>3 DEF rotation, Range
  <2> QED
    BY <1>3, <1>4, <1>7, <2>1 DEF IsInjective
<1> QED
  BY <1>2, <1>6, <1>7

(* Rejoining moves the Backend being checked, and no other.                *)
LEMMA AppendFlag ==
  ASSUME SliceTypeInv, FlagInv, IsInjective(Hash),
         NEW from \in {"rejoin", "append"}, CheckerStep(from, "markUp"),
         servers' = Append(servers, EntryOf(cur))
  PROVE  FlagInv'
<1>1. cur \notin rotation /\ rotation' = rotation \cup {cur}
  BY AppendMoves
<1>2. ~ BetweenStores /\ BetweenStores'
  BY DEF CheckerStep, BetweenStores
<1>3. ActsOnVerdict'
  BY DEF FlagInv, ActsOnVerdict, CheckerStep
<1> QED
  BY <1>1, <1>2, <1>3, MoveFlag DEF CheckerStep, SliceTypeInv, SliceTypeOK

(* The flag follows, and nothing is pending any more.                      *)
LEMMA StoreFlagFlag ==
  ASSUME BalancerTypeOK, FlagInv, IsInjective(Hash), StoreIsHostAlive,
         UNCHANGED servers
  PROVE  FlagInv'
<1>1. EntryOf(cur) = cur /\ cur \in Backends
  BY EntryOfDistinct DEF BalancerTypeOK
<1>2. BetweenStores /\ ~ BetweenStores'
  BY DEF StoreIsHostAlive, StoreFlag, NextBackend, BetweenStores
<1>3. isHostAlive' = [isHostAlive EXCEPT ![cur] = ~ isHostAlive[cur]]
  BY <1>1 DEF FlagInv, ActsOnVerdict, StoreIsHostAlive, StoreFlag, BalancerTypeOK
<1>4. FlagMatchesRotation'
  BY <1>1, <1>2, <1>3 DEF FlagInv, FlagMatchesRotation, rotation, BalancerTypeOK
<1>5. ActsOnVerdict'
  BY DEF ActsOnVerdict, StoreIsHostAlive, StoreFlag, NextBackend
<1> QED
  BY <1>4, <1>5 DEF FlagInv

-----------------------------------------------------------------------------
(* Each step of a slice balancer is a step of Rotation, or changes nothing *)
(* Rotation speaks of.                                                     *)

contractVars == <<healthy, isHostAlive, checkerVars, sliceVars, requestVars>>

(* What changes none of these is a stutter of Rotation.                    *)
LEMMA ContractUnchanged ==
  ASSUME UNCHANGED contractVars
  PROVE  UNCHANGED Contract!vars
  BY DEF contractVars, checkerVars, sliceVars, requestVars, Contract!vars, verdict, rotation

(* A slice with the live Backends in it is an initial rotation.            *)
LEMMA ContractInit ==
  ASSUME NewSlice, Range(servers) = {b \in Backends : isHostAlive[b]}
  PROVE  Contract!Init
<1>1. Range(<<>>) = {}
  BY DEF Range
<1> QED
  BY <1>1 DEF NewSlice, NewBalancer, Contract!Init, verdict, rotation

(* A request's three steps are See, Choose and Answer.                     *)
LEMMA ContractRequest ==
  ASSUME SliceTypeInv, NEW r \in Requests
  PROVE  /\ LoadServers(r) => Contract!See(r)
         /\ \A p \in DOMAIN snap[r] : PickAt(r, p) => Contract!Choose(r, snap[r][p])
         /\ Respond(r) /\ UNCHANGED sliceVars => Contract!Answer(r)
<1>1. ASSUME LoadServers(r) PROVE Contract!See(r)
  <2>1. servers = <<>> <=> rotation = {}
    <3>1. Len(servers) \in Nat /\ DOMAIN servers = 1 .. Len(servers)
      BY LenProperties DEF SliceTypeInv, SliceTypeOK
    <3>2. servers # <<>> => Len(servers) # 0
      BY EmptySeq DEF SliceTypeInv, SliceTypeOK
    <3>3. servers # <<>> => servers[1] \in rotation
      BY <3>1, <3>2 DEF rotation, Range
    <3>4. servers = <<>> => rotation = {}
      BY DEF rotation, Range
    <3> QED
      BY <3>3, <3>4
  <2>2. [q \in Requests |-> Range(snap[q])]' =
        [[q \in Requests |-> Range(snap[q])] EXCEPT ![r] = rotation]
    BY <1>1 DEF LoadServers, SliceTypeInv, SliceTypeOK, rotation
  <2> QED
    BY <1>1, <2>1, <2>2
    DEF LoadServers, Load, Contract!See, verdict, rotation, checkerVars
<1>2. ASSUME NEW p \in DOMAIN snap[r], PickAt(r, p)
      PROVE  Contract!Choose(r, snap[r][p])
  <2>1. snap[r][p] \in Range(snap[r])
    BY DEF Range
  <2>2. Range(<<>>) = {}
    BY DEF Range
  <2>3. [q \in Requests |-> Range(snap[q])]' =
        [[q \in Requests |-> Range(snap[q])] EXCEPT ![r] = {}]
    BY <1>2, <2>2 DEF PickAt, SliceTypeInv, SliceTypeOK
  <2> QED
    BY <1>2, <2>1, <2>3
    DEF PickAt, Pick, Contract!Choose, verdict, rotation, checkerVars
<1>3. ASSUME Respond(r), UNCHANGED sliceVars
      PROVE  Contract!Answer(r)
  BY <1>3 DEF Respond, Contract!Answer, verdict, rotation, checkerVars, sliceVars
<1> QED
  BY <1>1, <1>2, <1>3

(* The checker's steps are Contradict, Move, Report or a stutter.          *)
LEMMA ContractChecker ==
  ASSUME SliceTypeInv, FlagInv, IsInjective(Hash)
  PROVE  /\ healthCheckerStep /\ UNCHANGED sliceVars => UNCHANGED Contract!vars
         /\ Probe /\ UNCHANGED sliceVars =>
               UNCHANGED Contract!vars \/ Contract!Contradict(cur)
         /\ Leave => Contract!Move(cur, FALSE)
         /\ \A from \in {"rejoin", "append"} :
               /\ CheckerStep(from, "markUp")
               /\ servers' = Append(servers, EntryOf(cur))
               /\ UNCHANGED snap
               => Contract!Move(cur, TRUE)
         /\ StoreIsHostAlive /\ UNCHANGED sliceVars =>
               \E answer \in BOOLEAN : Contract!Report(cur, answer)
<1>1. EntryOf(cur) = cur /\ cur \in Backends
  BY EntryOfDistinct DEF SliceTypeInv, SliceTypeOK, BalancerTypeOK
<1>2. ASSUME healthCheckerStep, UNCHANGED sliceVars
      PROVE  UNCHANGED Contract!vars
  <2>1. verdict = <<>> /\ verdict' = <<>>
    BY <1>2 DEF healthCheckerStep, SelectTick, SelectStop, LoopHead, verdict
  <2> QED
    BY <1>2, <2>1 DEF healthCheckerStep, SelectTick, SelectStop, LoopHead,
                      Contract!vars, rotation, sliceVars, requestVars
<1>3. ASSUME Probe, UNCHANGED sliceVars
      PROVE  UNCHANGED Contract!vars \/ Contract!Contradict(cur)
  <2>1. verdict = <<>>
    BY <1>3 DEF Probe, verdict
  <2>2. CASE healthy[cur] = isHostAlive[cur]
    <3>1. verdict' = <<>>
      BY <1>1, <1>3, <2>2 DEF Probe, NextBackend, verdict
    <3> QED
      BY <1>3, <2>1, <3>1 DEF Probe, Contract!vars, rotation, sliceVars, requestVars
  <2>3. CASE healthy[cur] # isHostAlive[cur]
    <3>1. verdict' = <<cur, healthy[cur]>>
      BY <1>1, <1>3, <2>3 DEF Probe, verdict, SliceTypeInv, SliceTypeOK, BalancerTypeOK
    <3> QED
      BY <1>3, <2>1, <2>3, <3>1
      DEF Probe, Contract!Contradict, rotation, sliceVars, requestVars
  <2> QED
    BY <2>2, <2>3
<1>4. ASSUME Leave PROVE Contract!Move(cur, FALSE)
  <2>1. rotation' = rotation \ {cur}
    BY <1>1, <1>4, RemoveByValueProperties DEF SliceTypeInv, SliceTypeOK, Leave, rotation
  <2>2. verdict = <<cur, FALSE>> /\ verdict' = verdict /\ isHostAlive[cur]
    BY <1>4 DEF Leave, CheckerStep, verdict, FlagInv, ActsOnVerdict
  <2>3. cur \in rotation
    BY <1>1, <1>4, <2>2 DEF Leave, CheckerStep, FlagInv, FlagMatchesRotation, BetweenStores,
       SliceTypeInv, SliceTypeOK, BalancerTypeOK
  <2> QED
    BY <1>4, <2>1, <2>2, <2>3 DEF Leave, CheckerStep, Contract!Move, requestVars
<1>5. ASSUME NEW from \in {"rejoin", "append"}, CheckerStep(from, "markUp"),
             servers' = Append(servers, EntryOf(cur)), UNCHANGED snap
      PROVE  Contract!Move(cur, TRUE)
  <2>1. rotation' = rotation \cup {cur} /\ cur \notin rotation
    BY <1>5, AppendMoves
  <2>2. verdict = <<cur, TRUE>> /\ verdict' = verdict /\ ~ isHostAlive[cur]
    BY <1>5 DEF CheckerStep, verdict, FlagInv, ActsOnVerdict
  <2> QED
    BY <1>5, <2>1, <2>2 DEF CheckerStep, Contract!Move, requestVars
<1>6. ASSUME StoreIsHostAlive, UNCHANGED sliceVars
      PROVE  \E answer \in BOOLEAN : Contract!Report(cur, answer)
  <2> DEFINE answer == checker = "markUp"
  <2>1. /\ verdict = <<cur, answer>> /\ verdict' = <<>> /\ answer \in BOOLEAN
        /\ isHostAlive[cur] = ~ answer
    BY <1>6 DEF StoreIsHostAlive, StoreFlag, NextBackend, verdict, FlagInv, ActsOnVerdict,
       SliceTypeInv, SliceTypeOK, BalancerTypeOK
  <2>2. (cur \in rotation) = answer
    BY <1>1, <1>6, <2>1 DEF StoreIsHostAlive, StoreFlag, FlagInv, FlagMatchesRotation,
       BetweenStores
  <2>3. isHostAlive' = [isHostAlive EXCEPT ![cur] = answer]
    BY <1>1, <1>6 DEF StoreIsHostAlive, StoreFlag
  <2>4. Contract!Report(cur, answer)
    BY <1>6, <2>1, <2>2, <2>3
    DEF StoreIsHostAlive, StoreFlag, Contract!Report, rotation, sliceVars, requestVars
  <2> QED
    BY <2>1, <2>4
<1> QED
  BY <1>2, <1>3, <1>4, <1>5, <1>6

=============================================================================
