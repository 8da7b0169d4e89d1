------------------------------ MODULE Rotation ------------------------------
(***************************************************************************)
(* What every Balancer promises, whatever its algorithm and data           *)
(* structure.  A request sees the rotation once; it is refused (503) if    *)
(* and only if that rotation is empty, and otherwise goes to one of its    *)
(* members.  Backends leave and rejoin one at a time, and only after a     *)
(* probe of that Backend answered so; the reported liveness follows before *)
(* the next Backend moves.                                                 *)
(***************************************************************************)
CONSTANTS Backends, Requests, Nil

VARIABLES
    healthy,    \* what a probe would answer
    verdict,    \* the probe outcome being acted on: <<>> or <<b, answer>>
    rotation,   \* the Backends that receive new requests
    alive,      \* the reported liveness of each Backend
    phase,      \* "idle", "loaded", "proxying" or "refused"
    seen,       \* the rotation a request has seen
    target      \* the Backend a request is sent to, or Nil

vars == <<healthy, verdict, rotation, alive, phase, seen, target>>

Init ==
    /\ healthy \in [Backends -> BOOLEAN]
    /\ alive \in [Backends -> BOOLEAN]
    /\ verdict = <<>>
    /\ rotation = {b \in Backends : alive[b]}
    /\ rotation # {}
    /\ phase = [r \in Requests |-> "idle"]
    /\ seen = [r \in Requests |-> {}]
    /\ target = [r \in Requests |-> Nil]

Change(b) ==
    /\ healthy' = [healthy EXCEPT ![b] = ~ @]
    /\ UNCHANGED <<verdict, rotation, alive, phase, seen, target>>

\* A probe that contradicts the reported liveness is acted on.
Contradict(b) ==
    /\ verdict = <<>>
    /\ healthy[b] # alive[b]
    /\ verdict' = <<b, healthy[b]>>
    /\ UNCHANGED <<healthy, rotation, alive, phase, seen, target>>

Move(b, answer) ==
    /\ verdict = <<b, answer>>
    /\ alive[b] # answer
    /\ rotation' = IF answer THEN rotation \cup {b} ELSE rotation \ {b}
    /\ rotation' # rotation
    /\ UNCHANGED <<healthy, verdict, alive, phase, seen, target>>

Report(b, answer) ==
    /\ verdict = <<b, answer>>
    /\ (b \in rotation) = answer
    /\ alive' = [alive EXCEPT ![b] = answer]
    /\ verdict' = <<>>
    /\ UNCHANGED <<healthy, rotation, phase, seen, target>>

See(r) ==
    /\ phase[r] = "idle"
    /\ phase' = [phase EXCEPT ![r] = IF rotation = {} THEN "refused" ELSE "loaded"]
    /\ seen' = [seen EXCEPT ![r] = rotation]
    /\ UNCHANGED <<healthy, verdict, rotation, alive, target>>

Choose(r, b) ==
    /\ phase[r] = "loaded" /\ b \in seen[r]
    /\ phase' = [phase EXCEPT ![r] = "proxying"]
    /\ seen' = [seen EXCEPT ![r] = {}]
    /\ target' = [target EXCEPT ![r] = b]
    /\ UNCHANGED <<healthy, verdict, rotation, alive>>

Answer(r) ==
    /\ phase[r] \in {"proxying", "refused"}
    /\ phase' = [phase EXCEPT ![r] = "idle"]
    /\ target' = [target EXCEPT ![r] = Nil]
    /\ UNCHANGED <<healthy, verdict, rotation, alive, seen>>

Next ==
    \/ \E b \in Backends :
          \/ Change(b) \/ Contradict(b)
          \/ \E answer \in BOOLEAN : Move(b, answer) \/ Report(b, answer)
    \/ \E r \in Requests :
          See(r) \/ Answer(r) \/ \E b \in Backends : Choose(r, b)

Spec == Init /\ [][Next]_vars

=============================================================================
