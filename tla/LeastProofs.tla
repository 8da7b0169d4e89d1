---------------------------- MODULE LeastProofs ----------------------------
(***************************************************************************)
(* LeastAlgorithm for any number of Backends and requests and any response *)
(* times: both scans keep the contract of Rotation, and each returns what  *)
(* it promises although it reads one figure at a time.                     *)
(***************************************************************************)
EXTENDS MCLeastAlgorithm, SliceProofs

Scans == [active : BOOLEAN, at : Nat, offset : Nat, best : Backends \cup {Nil}, least : Nat]

LeastTypes ==
  /\ SliceTypeInv
  /\ nextFunc \in Types
  /\ cursor \in 0 .. CounterMod - 1
  /\ scan \in [Requests -> Scans]
  /\ progress \in [Requests -> {"start", "sent", "ok", "failed"}]
  /\ recentResTime \in [Backends -> Nat]

(* A scan is inside the slice its request loaded, and what it would return *)
(* is a member of that slice; only a request that has a Backend is on its  *)
(* way through ReverseProxyHandler.                                        *)
Scanning ==
  \A r \in Requests :
    /\ scan[r].active =>
         /\ phase[r] = "loaded"
         /\ scan[r].at < Len(snap[r]) /\ scan[r].offset < Len(snap[r])
         /\ (scan[r].at > 0 \/ ByScore) => scan[r].best \in Range(snap[r])
    /\ phase[r] # "proxying" => progress[r] = "start"
    /\ phase[r] = "proxying" => picked[r] \in Backends

LeastInv == LeastTypes /\ Scanning

-----------------------------------------------------------------------------
(* What the steps of a scan have in common: it starts, goes on, or returns *)
(* a member of the slice.                                                  *)

Starts(r, s) ==
  /\ phase[r] = "loaded" /\ ~ scan[r].active
  /\ s \in Scans /\ s.active /\ s.at = 0 /\ s.offset < Len(snap[r])
  /\ ByScore => s.best \in Range(snap[r])
  /\ scan' = [scan EXCEPT ![r] = s]
  /\ cursor' \in 0 .. CounterMod - 1
  /\ UNCHANGED <<balancerVars, sliceVars, progress, recentResTime>>

Advances(r, b, l) ==
  /\ phase[r] = "loaded" /\ scan[r].active
  /\ b \in Range(snap[r]) /\ l \in Nat
  /\ scan[r].at + 1 < Len(snap[r])
  /\ scan' = [scan EXCEPT ![r] =
                 [scan[r] EXCEPT !.at = scan[r].at + 1, !.best = b, !.least = l]]
  /\ UNCHANGED <<balancerVars, sliceVars, cursor, progress, recentResTime>>

Chooses(r, b) ==
  /\ phase[r] = "loaded" /\ scan[r].active
  /\ b \in Range(snap[r])
  /\ Return(r, b)
  /\ UNCHANGED <<cursor, progress, recentResTime>>

(* Positions counted round a slice are positions of it, and all of them.   *)
LEMMA RoundTheSlice ==
  ASSUME NEW n \in Nat \ {0}
  PROVE  /\ \A k \in Nat : k % n \in 0 .. n - 1
         /\ \A o \in 0 .. n - 1 : \A j \in 1 .. n :
              \E k \in 0 .. n - 1 : 1 + ((o + k) % n) = j
<1>1. \A k \in Nat : k % n \in 0 .. n - 1
  OBVIOUS
<1>2. ASSUME NEW x \in 0 .. n - 1
      PROVE  x % n = x /\ (x + n) % n = x
  OBVIOUS
<1>3. ASSUME NEW o \in 0 .. n - 1, NEW j \in 1 .. n
      PROVE  \E k \in 0 .. n - 1 : 1 + ((o + k) % n) = j
  <2>1. j - 1 \in 0 .. n - 1
    OBVIOUS
  <2>2. CASE o <= j - 1
    <3>1. j - 1 - o \in 0 .. n - 1 /\ o + (j - 1 - o) = j - 1
      BY <2>2
    <3>2. (j - 1) % n = j - 1
      BY <1>2, <2>1
    <3>3. 1 + ((o + (j - 1 - o)) % n) = j
      BY <3>1, <3>2
    <3> QED
      BY <3>1, <3>3
  <2>3. CASE ~ (o <= j - 1)
    <3>1. j - 1 - o + n \in 0 .. n - 1 /\ o + (j - 1 - o + n) = (j - 1) + n
      BY <2>3
    <3>2. 1 + ((j - 1 + n) % n) = j
      BY <1>2, <2>1
    <3> QED
      BY <3>1, <3>2
  <2> QED
    BY <2>2, <2>3
<1> QED
  BY <1>1, <1>3

(* The slice of a request that is about to choose.                         *)
LEMMA LoadedSlice ==
  ASSUME LeastInv, NEW r \in Requests, phase[r] = "loaded"
  PROVE  /\ snap[r] \in Seq(Backends)
         /\ Len(snap[r]) \in Nat \ {0} /\ DOMAIN snap[r] = 1 .. Len(snap[r])
         /\ Range(snap[r]) \subseteq Backends
         /\ \A p \in 1 .. Len(snap[r]) : snap[r][p] \in Range(snap[r])
<1>1. snap[r] \in Seq(Backends) /\ snap[r] # <<>>
  BY DEF LeastInv, LeastTypes, SliceTypeInv, SliceTypeOK, LoadedNotEmpty
<1>2. Len(snap[r]) \in Nat \ {0} /\ DOMAIN snap[r] = 1 .. Len(snap[r])
  BY <1>1, EmptySeq, LenProperties
<1>3. \A p \in 1 .. Len(snap[r]) : snap[r][p] \in Backends
  BY <1>1, <1>2, ElementOfSeq
<1>4. Range(snap[r]) \subseteq Backends
  BY <1>2, <1>3 DEF Range
<1>5. \A p \in 1 .. Len(snap[r]) : snap[r][p] \in Range(snap[r])
  BY <1>2 DEF Range
<1> QED
  BY <1>1, <1>2, <1>4, <1>5

(* The pending requests of a Backend are counted.                          *)
LEMMA PendingType ==
  ASSUME NEW b
  PROVE  /\ PendingRequests(b) \in Nat /\ Cardinality(Requests) \in Nat
         /\ PendingRequests(b) <= Cardinality(Requests)
         /\ IsFiniteSet({r \in Requests : picked[r] = b /\ progress[r] = "sent"})
<1>1. IsFiniteSet(Requests)
  BY LeastAlgorithmAssumption
<1> DEFINE S == {r \in Requests : picked[r] = b /\ progress[r] = "sent"}
<1>2. S \subseteq Requests
  OBVIOUS
<1> HIDE DEF S
<1>3. IsFiniteSet(S) /\ Cardinality(S) <= Cardinality(Requests)
  BY <1>1, <1>2, FS_Subset
<1>4. Cardinality(S) \in Nat /\ Cardinality(Requests) \in Nat
  BY <1>1, <1>3, FS_CardinalityType
<1> QED
  BY <1>3, <1>4 DEF PendingRequests, S

(* A scan that starts.                                                     *)
LEMMA StartedAtCursor ==
  ASSUME NEW o \in Nat
  PROVE  LET s == [NoScan EXCEPT !.active = TRUE, !.offset = o]
         IN  s \in Scans /\ s.active /\ s.at = 0 /\ s.offset = o
<1> DEFINE s == [NoScan EXCEPT !.active = TRUE, !.offset = o]
<1>1. NoScan \in Scans /\ NoScan.at = 0
  BY DEF NoScan, Scans
<1>2. s \in Scans /\ s.at = 0 /\ s.offset = o
  BY <1>1 DEF Scans
<1>3. s.active = TRUE
  BY <1>1 DEF Scans
<1> QED
  BY <1>2, <1>3

(* A scan that starts with the slice's first Backend as the best.          *)
LEMMA StartedAtFirst ==
  ASSUME NEW b \in Backends, NEW l \in Nat
  PROVE  LET s == [NoScan EXCEPT !.active = TRUE, !.best = b, !.least = l]
         IN  /\ s \in Scans /\ s.active /\ s.at = 0 /\ s.offset = 0
             /\ s.best = b /\ s.least = l
<1> DEFINE s == [NoScan EXCEPT !.active = TRUE, !.best = b, !.least = l]
<1>1. NoScan \in Scans /\ NoScan.at = 0 /\ NoScan.offset = 0
  BY DEF NoScan, Scans
<1>2. s \in Scans /\ s.at = 0 /\ s.offset = 0 /\ s.best = b /\ s.least = l
  BY <1>1 DEF Scans
<1>3. s.active = TRUE
  BY <1>1 DEF Scans
<1> QED
  BY <1>2, <1>3

(* After a visit the scan goes on or, at the end of the slice, returns.    *)
LEMMA VisitedCases ==
  ASSUME LeastInv, NEW r \in Requests, phase[r] = "loaded", scan[r].active,
         NEW b \in Range(snap[r]), NEW l \in Nat, Visited(r, b, l),
         UNCHANGED <<cursor, progress, recentResTime>>
  PROVE  \/ Advances(r, b, l)
         \/ Chooses(r, b) /\ scan[r].at + 1 = Len(snap[r])
<1>1. scan[r] \in Scans /\ scan[r].at \in Nat /\ scan[r].at < Len(snap[r])
  BY DEF LeastInv, LeastTypes, Scanning, Scans
<1>2. Len(snap[r]) \in Nat
  BY LoadedSlice
<1>3. CASE scan[r].at + 1 = Len(snap[r])
  BY <1>3 DEF Visited, Chooses
<1>4. CASE scan[r].at + 1 # Len(snap[r])
  <2>1. scan' = [scan EXCEPT ![r] =
                   [scan[r] EXCEPT !.at = scan[r].at + 1, !.best = b, !.least = l]]
    BY <1>4 DEF Visited
  <2>3. scan[r].at + 1 < Len(snap[r])
    BY <1>1, <1>2, <1>4
  <2> QED
    BY <1>4, <2>1, <2>3 DEF Visited, Advances
<1> QED
  BY <1>3, <1>4

Goes(r, b, l) ==
  Advances(r, b, l) \/ (Chooses(r, b) /\ scan[r].at + 1 = Len(snap[r]))

(* The server the least-connection scan visits next, and what the scan     *)
(* would return after that visit.                                          *)
ServerAhead(r) == snap[r][1 + ((scan[r].offset + scan[r].at) % Len(snap[r]))]

PendingVisit(r, b, l) ==
  LET pending == PendingRequests(ServerAhead(r)) IN
  IF scan[r].at = 0 \/ pending < scan[r].least
  THEN b = ServerAhead(r) /\ l = pending
  ELSE b = scan[r].best /\ l = scan[r].least

(* The steps of the least-connection scan.                                 *)
LEMMA ConnectionSteps ==
  ASSUME LeastInv, NEW r \in Requests, leastConnectionNext(r)
  PROVE  /\ phase[r] = "loaded" /\ ~ ByScore
         /\ \/ \E s : Starts(r, s)
            \/ \E b, l : PendingVisit(r, b, l) /\ Goes(r, b, l)
<1>0. phase[r] = "loaded" /\ ~ ByScore /\ scan[r] \in Scans /\ CounterMod \in Nat \ {0}
  BY LeastAlgorithmAssumption DEF leastConnectionNext, ByScore, LeastInv, LeastTypes
<1>1. /\ Len(snap[r]) \in Nat \ {0} /\ Range(snap[r]) \subseteq Backends
      /\ \A p \in 1 .. Len(snap[r]) : snap[r][p] \in Range(snap[r])
  BY <1>0, LoadedSlice
<1>2. CASE StartAtCursor(r)
  <2> DEFINE s == [NoScan EXCEPT !.active = TRUE, !.offset = cursor' % Len(snap[r])]
  <2>1. cursor' \in 0 .. CounterMod - 1
    BY <1>0, <1>2 DEF StartAtCursor, LeastInv, LeastTypes
  <2>2. cursor' % Len(snap[r]) \in 0 .. Len(snap[r]) - 1
    <3>1. cursor' \in Nat
      BY <1>0, <2>1
    <3> QED
      BY <1>1, <3>1, RoundTheSlice
  <2>3. cursor' % Len(snap[r]) \in Nat /\ cursor' % Len(snap[r]) < Len(snap[r])
    BY <1>1, <2>2
  <2>4. s \in Scans /\ s.at = 0 /\ s.offset < Len(snap[r])
    BY <2>3, StartedAtCursor
  <2>5. s.active
    BY <2>3, StartedAtCursor
  <2>6. Starts(r, s)
    BY <1>0, <1>2, <2>1, <2>4, <2>5 DEF StartAtCursor, Starts
  <2> QED
    BY <1>0, <2>6
<1>3. CASE VisitPending(r)
  <2>1. /\ scan[r].active /\ scan[r].at \in Nat /\ scan[r].offset \in Nat
        /\ scan[r].least \in Nat
        /\ scan[r].at # 0 => scan[r].best \in Range(snap[r])
    BY <1>0, <1>3 DEF VisitPending, LeastInv, Scanning, Scans
  <2>2. (scan[r].offset + scan[r].at) % Len(snap[r]) \in 0 .. Len(snap[r]) - 1
    <3>1. scan[r].offset + scan[r].at \in Nat
      BY <2>1
    <3> QED
      BY <1>1, <3>1, RoundTheSlice
  <2>3. ServerAhead(r) \in Range(snap[r])
    BY <1>1, <2>2 DEF ServerAhead
  <2> DEFINE pending == PendingRequests(ServerAhead(r))
  <2>4. pending \in Nat
    BY PendingType
  <2> HIDE DEF pending
  <2>5. CASE scan[r].at = 0 \/ pending < scan[r].least
    <3>1. Visited(r, ServerAhead(r), pending) /\ UNCHANGED <<cursor, progress, recentResTime>>
      BY <1>3, <2>5 DEF VisitPending, ServerAhead, pending
    <3>2. Goes(r, ServerAhead(r), pending)
      BY <1>0, <2>1, <2>3, <2>4, <3>1, VisitedCases DEF Goes
    <3> QED
      BY <1>0, <2>5, <3>2 DEF PendingVisit, pending
  <2>6. CASE ~ (scan[r].at = 0 \/ pending < scan[r].least)
    <3>1. Visited(r, scan[r].best, scan[r].least) /\ UNCHANGED <<cursor, progress, recentResTime>>
      BY <1>3, <2>6 DEF VisitPending, ServerAhead, pending
    <3>2. Goes(r, scan[r].best, scan[r].least)
      BY <1>0, <2>1, <2>6, <3>1, VisitedCases DEF Goes
    <3> QED
      BY <1>0, <2>6, <3>2 DEF PendingVisit, pending
  <2> QED
    BY <2>5, <2>6
<1> QED
  BY <1>2, <1>3 DEF leastConnectionNext

(* The same for the least-response-time scan, if the server it visits has  *)
(* been measured.                                                          *)
ScoreVisit(r, b, l) ==
  LET server  == snap[r][1 + scan[r].at]
      resTime == recentResTime[server]
  IN  /\ resTime # 0
      /\ IF resTime < scan[r].least
         THEN b = server /\ l = resTime
         ELSE b = scan[r].best /\ l = scan[r].least

StartsAtFirst(r, s) ==
  Starts(r, s) /\ s.best = snap[r][1] /\ s.least = recentResTime[snap[r][1]]

(* The steps of the least-response-time scan.                              *)
LEMMA ScoreSteps ==
  ASSUME LeastInv, NEW r \in Requests, leastResponseTimeNext(r)
  PROVE  /\ phase[r] = "loaded" /\ ByScore
         /\ \/ \E s : StartsAtFirst(r, s)
            \/ /\ recentResTime[snap[r][1 + scan[r].at]] = 0
               /\ Chooses(r, snap[r][1 + scan[r].at])
            \/ \E b, l : ScoreVisit(r, b, l) /\ Goes(r, b, l)
<1>0. phase[r] = "loaded" /\ ByScore /\ scan[r] \in Scans
  BY DEF leastResponseTimeNext, ByScore, LeastInv, LeastTypes
<1>1. /\ Len(snap[r]) \in Nat \ {0} /\ Range(snap[r]) \subseteq Backends
      /\ \A p \in 1 .. Len(snap[r]) : snap[r][p] \in Range(snap[r])
  BY <1>0, LoadedSlice
<1>2. CASE StartAtFirst(r)
  <2> DEFINE f == snap[r][1]
             l == recentResTime[f]
             s == [NoScan EXCEPT !.active = TRUE, !.best = f, !.least = l]
  <2>1. f \in Range(snap[r]) /\ f \in Backends /\ l \in Nat
    BY <1>1 DEF LeastInv, LeastTypes
  <2>2. UNCHANGED <<balancerVars, sliceVars, cursor, progress, recentResTime>>
        /\ ~ scan[r].active /\ scan' = [scan EXCEPT ![r] = s]
    BY <1>2 DEF StartAtFirst
  <2> HIDE DEF f, l
  <2>3. s \in Scans /\ s.at = 0 /\ s.offset = 0 /\ s.best = f /\ s.least = l
    BY <2>1, StartedAtFirst
  <2>4. s.offset < Len(snap[r])
    BY <1>1, <2>3
  <2>5. s.active
    BY <2>1, StartedAtFirst
  <2>6. Starts(r, s)
    BY <1>0, <2>1, <2>2, <2>3, <2>4, <2>5 DEF Starts, LeastInv, LeastTypes
  <2> QED
    BY <1>0, <2>3, <2>6 DEF StartsAtFirst, f, l
<1>3. CASE VisitScore(r)
  <2>1. /\ scan[r].active /\ scan[r].at \in Nat /\ scan[r].least \in Nat
        /\ scan[r].at < Len(snap[r]) /\ scan[r].best \in Range(snap[r])
    BY <1>0, <1>3 DEF VisitScore, LeastInv, Scanning, Scans
  <2> DEFINE server  == snap[r][1 + scan[r].at]
             resTime == recentResTime[server]
  <2>2. 1 + scan[r].at \in 1 .. Len(snap[r])
    BY <1>1, <2>1
  <2>3. server \in Range(snap[r]) /\ resTime \in Nat
    BY <1>1, <2>2 DEF LeastInv, LeastTypes
  <2>4. /\ CASE resTime = 0 -> Return(r, server)
             [] resTime # 0 /\ resTime < scan[r].least -> Visited(r, server, resTime)
             [] OTHER -> Visited(r, scan[r].best, scan[r].least)
        /\ UNCHANGED <<cursor, progress, recentResTime>>
    BY <1>3 DEF VisitScore
  <2> HIDE DEF server, resTime
  <2>5. CASE resTime = 0
    <3>1. Return(r, server)
      BY <2>4, <2>5
    <3> QED
      BY <1>0, <2>1, <2>3, <2>4, <2>5, <3>1 DEF Chooses, server, resTime
  <2>6. CASE resTime # 0 /\ resTime < scan[r].least
    <3>1. Visited(r, server, resTime)
      BY <2>4, <2>6
    <3>2. Goes(r, server, resTime)
      BY <1>0, <2>1, <2>3, <2>4, <3>1, VisitedCases DEF Goes
    <3> QED
      BY <1>0, <2>6, <3>2 DEF ScoreVisit, server, resTime
  <2>7. CASE resTime # 0 /\ ~ (resTime < scan[r].least)
    <3>1. Visited(r, scan[r].best, scan[r].least)
      BY <2>4, <2>7
    <3>2. Goes(r, scan[r].best, scan[r].least)
      BY <1>0, <2>1, <2>3, <2>4, <3>1, VisitedCases DEF Goes
    <3> QED
      BY <1>0, <2>7, <3>2 DEF ScoreVisit, server, resTime
  <2> QED
    BY <2>5, <2>6, <2>7
<1> QED
  BY <1>2, <1>3 DEF leastResponseTimeNext

-----------------------------------------------------------------------------
(* Every step keeps LeastInv.                                              *)

(* The steps that leave the requests and their scans alone.                *)
LEMMA OtherStepInv ==
  ASSUME LeastInv, SliceTypeInv', recentResTime' \in [Backends -> Nat],
         UNCHANGED <<phase, picked, snap, cursor, scan, progress, nextFunc>>
  PROVE  LeastInv'
  BY DEF LeastInv, LeastTypes, Scanning, ByScore

(* A step of one request: its own scan and place change, no other's do.    *)
OnlyIts(r) ==
  \A q \in Requests \ {r} :
    /\ phase'[q] = phase[q] /\ picked'[q] = picked[q] /\ snap'[q] = snap[q]
    /\ scan'[q] = scan[q] /\ progress'[q] = progress[q]

(* LeastInv after such a step, given what it says of that request.         *)
LEMMA RequestStepInv ==
  ASSUME LeastInv, NEW r \in Requests, OnlyIts(r),
         SliceTypeInv', UNCHANGED nextFunc,
         cursor' \in 0 .. CounterMod - 1,
         scan' \in [Requests -> Scans],
         progress' \in [Requests -> {"start", "sent", "ok", "failed"}],
         recentResTime' \in [Backends -> Nat],
         scan'[r].active =>
            /\ phase'[r] = "loaded"
            /\ scan'[r].at < Len(snap'[r]) /\ scan'[r].offset < Len(snap'[r])
            /\ (scan'[r].at > 0 \/ ByScore) => scan'[r].best \in Range(snap'[r]),
         phase'[r] # "proxying" => progress'[r] = "start",
         phase'[r] = "proxying" => picked'[r] \in Backends
  PROVE  LeastInv'
<1>1. LeastTypes'
  BY DEF LeastInv, LeastTypes
<1>2. ASSUME NEW q \in Requests
      PROVE  /\ scan'[q].active =>
                  /\ phase'[q] = "loaded"
                  /\ scan'[q].at < Len(snap'[q]) /\ scan'[q].offset < Len(snap'[q])
                  /\ (scan'[q].at > 0 \/ ByScore) => scan'[q].best \in Range(snap'[q])
             /\ phase'[q] # "proxying" => progress'[q] = "start"
             /\ phase'[q] = "proxying" => picked'[q] \in Backends
  <2>1. CASE q = r
    BY <2>1
  <2>2. CASE q # r
    BY <2>2 DEF OnlyIts, LeastInv, Scanning
  <2> QED
    BY <2>1, <2>2
<1>3. Scanning'
  BY <1>2 DEF Scanning, ByScore
<1> QED
  BY <1>1, <1>3 DEF LeastInv

(* What a scan that goes on has become.                                    *)
LEMMA AdvancedScan ==
  ASSUME LeastInv, NEW r \in Requests, NEW b, NEW l, Advances(r, b, l)
  PROVE  /\ scan' \in [Requests -> Scans]
         /\ scan'[r].at = scan[r].at + 1 /\ scan'[r].offset = scan[r].offset
         /\ scan'[r].best = b /\ scan'[r].least = l
         /\ scan[r].at \in Nat /\ b \in Backends /\ l \in Nat
         /\ \A q \in Requests \ {r} : scan'[q] = scan[q]
<1> DEFINE u == scan[r]
           k == scan[r].at + 1
           s == [u EXCEPT !.at = k, !.best = b, !.least = l]
<1>1. /\ scan \in [Requests -> Scans] /\ l \in Nat /\ b \in Range(snap[r])
      /\ phase[r] = "loaded"
  BY DEF Advances, LeastInv, LeastTypes
<1>2. u \in Scans /\ u.at \in Nat /\ b \in Backends
  BY <1>1, LoadedSlice DEF Scans
<1>3. scan' = [scan EXCEPT ![r] = s] /\ k = u.at + 1
  BY DEF Advances
<1>4. u = scan[r]
  OBVIOUS
<1> HIDE DEF u, k
<1>5. k \in Nat
  BY <1>2, <1>3
<1>6. s \in Scans
  BY <1>1, <1>2, <1>5 DEF Scans
<1>7. s.at = k /\ s.best = b /\ s.least = l /\ s.offset = u.offset
  BY <1>1, <1>2, <1>5 DEF Scans
<1> HIDE DEF s
<1> QED
  BY <1>1, <1>2, <1>3, <1>4, <1>6, <1>7

(* A scan that starts or goes on.                                          *)
LEMMA ScanStepInv ==
  ASSUME LeastInv, UNCHANGED nextFunc, NEW r \in Requests,
         (\E s : Starts(r, s)) \/ (\E b, l : Advances(r, b, l))
  PROVE  LeastInv'
<1> DEFINE S == scan'[r]
<1>0. phase[r] = "loaded" /\ UNCHANGED <<balancerVars, sliceVars, progress, recentResTime>>
  BY DEF Starts, Advances
<1>1. PICK s \in Scans :
        /\ scan' = [scan EXCEPT ![r] = s]
        /\ s.at < Len(snap[r]) /\ s.offset < Len(snap[r])
        /\ (s.at > 0 \/ ByScore) => s.best \in Range(snap[r])
  <2>1. ASSUME NEW s, Starts(r, s)
        PROVE  /\ s \in Scans /\ scan' = [scan EXCEPT ![r] = s]
               /\ s.at < Len(snap[r]) /\ s.offset < Len(snap[r])
               /\ (s.at > 0 \/ ByScore) => s.best \in Range(snap[r])
    <3>1. Len(snap[r]) \in Nat \ {0}
      BY <1>0, LoadedSlice
    <3> QED
      BY <2>1, <3>1 DEF Starts
  <2>2. ASSUME NEW b, NEW l, Advances(r, b, l)
        PROVE  /\ scan'[r] \in Scans /\ scan' = [scan EXCEPT ![r] = scan'[r]]
               /\ scan'[r].at < Len(snap[r]) /\ scan'[r].offset < Len(snap[r])
               /\ scan'[r].best \in Range(snap[r])
    <3>1. /\ scan'[r] \in Scans /\ scan'[r].at = scan[r].at + 1
          /\ scan'[r].offset = scan[r].offset /\ scan'[r].best = b
      BY <2>2, AdvancedScan
    <3>2. scan' = [scan EXCEPT ![r] = scan'[r]]
      BY <2>2 DEF Advances, LeastInv, LeastTypes
    <3>3. scan[r].at + 1 < Len(snap[r]) /\ scan[r].offset < Len(snap[r]) /\ b \in Range(snap[r])
      BY <2>2 DEF Advances, LeastInv, Scanning
    <3> QED
      BY <3>1, <3>2, <3>3
  <2> QED
    BY <2>1, <2>2
<1>2. scan' \in [Requests -> Scans] /\ scan'[r] = s
  BY <1>1 DEF LeastInv, LeastTypes
<1>3. cursor' \in 0 .. CounterMod - 1
  BY DEF Starts, Advances, LeastInv, LeastTypes
<1>4. UNCHANGED <<phase, picked, snap>> /\ SliceTypeInv'
  <2>1. UNCHANGED <<sliceVars, requestVars>> /\ BalancerTypeOK'
    BY <1>0 DEF balancerVars, checkerVars, shutdownVars, statsVars, requestVars,
                LeastInv, LeastTypes, SliceTypeInv, SliceTypeOK, BalancerTypeOK
  <2> QED
    BY <2>1, OtherStepType DEF LeastInv, LeastTypes, requestVars, sliceVars
<1>5. OnlyIts(r)
  BY <1>0, <1>1, <1>4 DEF OnlyIts, LeastInv, LeastTypes
<1>6. progress[r] = "start" /\ progress' = progress /\ recentResTime' = recentResTime
  BY <1>0 DEF LeastInv, Scanning
<1> QED
  BY <1>0, <1>1, <1>2, <1>3, <1>4, <1>5, <1>6, RequestStepInv DEF LeastInv, LeastTypes

(* A choice is one at a position of the slice.                             *)
LEMMA ChoosesAt ==
  ASSUME LeastInv, NEW r \in Requests, NEW b, Chooses(r, b)
  PROVE  /\ b \in Backends /\ phase[r] = "loaded"
         /\ \E p \in DOMAIN snap[r] : b = snap[r][p] /\ PickAt(r, p)
<1>1. PICK p \in DOMAIN snap[r] : b = snap[r][p]
  BY DEF Chooses, Range
<1>2. PickAt(r, p)
  BY <1>1 DEF Chooses, Return, PickAt
<1>3. phase[r] = "loaded" /\ b \in Range(snap[r])
  BY DEF Chooses
<1> QED
  BY <1>1, <1>2, <1>3, LoadedSlice

(* The scan returns.                                                       *)
LEMMA ChooseInv ==
  ASSUME LeastInv, UNCHANGED nextFunc, NEW r \in Requests, NEW b, Chooses(r, b)
  PROVE  LeastInv'
<1>1. b \in Backends /\ phase[r] = "loaded" /\ SliceTypeInv'
  BY ChoosesAt, PickAtType DEF LeastInv, LeastTypes
<1>2. /\ phase' = [phase EXCEPT ![r] = "proxying"] /\ picked' = [picked EXCEPT ![r] = b]
      /\ scan' = [scan EXCEPT ![r] = NoScan] /\ snap' = [snap EXCEPT ![r] = <<>>]
      /\ cursor' = cursor /\ progress' = progress /\ recentResTime' = recentResTime
  BY DEF Chooses, Return, Pick
<1>3. NoScan \in Scans /\ ~ NoScan.active
  BY DEF NoScan, Scans
<1>4. /\ phase \in [Requests -> {"idle", "loaded", "proxying", "refused"}]
      /\ picked \in [Requests -> Backends \cup {Nil}]
      /\ snap \in [Requests -> Seq(Backends)]
  BY DEF LeastInv, LeastTypes, SliceTypeInv, SliceTypeOK, BalancerTypeOK
<1>5. scan' \in [Requests -> Scans] /\ ~ scan'[r].active
  BY <1>2, <1>3 DEF LeastInv, LeastTypes
<1>6. phase'[r] = "proxying" /\ picked'[r] \in Backends
  BY <1>1, <1>2, <1>4
<1>7. OnlyIts(r)
  BY <1>2, <1>4 DEF OnlyIts, LeastInv, LeastTypes
<1> QED
  BY <1>1, <1>2, <1>5, <1>6, <1>7, RequestStepInv DEF LeastInv, LeastTypes

(* A request loads the slice.                                              *)
LEMMA LoadInv ==
  ASSUME LeastInv, UNCHANGED nextFunc, NEW r \in Requests, LoadServers(r), UNCHANGED leastVars
  PROVE  LeastInv'
<1>1. SliceTypeInv'
  BY LoadServersType DEF LeastInv, LeastTypes
<1>2. /\ phase[r] = "idle" /\ picked' = picked
      /\ phase' = [phase EXCEPT ![r] = IF servers = <<>> THEN "refused" ELSE "loaded"]
      /\ snap' = [snap EXCEPT ![r] = servers]
      /\ scan' = scan /\ cursor' = cursor /\ progress' = progress
      /\ recentResTime' = recentResTime
  BY DEF LoadServers, Load, leastVars
<1>3. /\ phase \in [Requests -> {"idle", "loaded", "proxying", "refused"}]
      /\ snap \in [Requests -> Seq(Backends)]
  BY DEF LeastInv, LeastTypes, SliceTypeInv, SliceTypeOK, BalancerTypeOK
<1>4. ~ scan[r].active /\ progress[r] = "start" /\ phase'[r] # "proxying"
  BY <1>2, <1>3 DEF LeastInv, Scanning
<1>5. OnlyIts(r)
  BY <1>2, <1>3 DEF OnlyIts
<1> QED
  BY <1>1, <1>2, <1>4, <1>5, RequestStepInv DEF LeastInv, LeastTypes

(* The steps of a request that do not choose leave its scan at rest.       *)
LEMMA HandlerInv ==
  ASSUME LeastInv, UNCHANGED nextFunc, NEW r \in Requests, ReverseProxyHandler(r)
  PROVE  LeastInv'
<1>0. /\ phase \in [Requests -> {"idle", "loaded", "proxying", "refused"}]
      /\ picked \in [Requests -> Backends \cup {Nil}]
      /\ progress \in [Requests -> {"start", "sent", "ok", "failed"}]
  BY DEF LeastInv, LeastTypes, SliceTypeInv, SliceTypeOK, BalancerTypeOK
<1>1. CASE Do(r)
  <2>1. /\ phase[r] = "proxying"
        /\ UNCHANGED <<balancerVars, sliceVars, cursor, scan, recentResTime>>
        /\ \E to \in {"sent", "ok", "failed"} : progress' = [progress EXCEPT ![r] = to]
    BY <1>1 DEF Do
  <2>2. UNCHANGED <<phase, picked, snap, sliceVars, requestVars>> /\ BalancerTypeOK'
    BY <2>1 DEF balancerVars, sliceVars, checkerVars, shutdownVars, statsVars, requestVars,
                LeastInv, LeastTypes, SliceTypeInv, SliceTypeOK, BalancerTypeOK
  <2>3. SliceTypeInv'
    BY <2>2, OtherStepType DEF LeastInv, LeastTypes
  <2>4. progress' \in [Requests -> {"start", "sent", "ok", "failed"}] /\ OnlyIts(r)
    BY <1>0, <2>1, <2>2 DEF OnlyIts
  <2>5. ~ scan[r].active /\ picked[r] \in Backends
    BY <2>1 DEF LeastInv, Scanning
  <2> QED
    BY <2>1, <2>2, <2>3, <2>4, <2>5, RequestStepInv DEF LeastInv, LeastTypes
<1>2. ASSUME Finish(r), recentResTime' \in [Backends -> Nat]
      PROVE  LeastInv'
  <2>1. /\ phase[r] \in {"proxying", "refused"} /\ phase' = [phase EXCEPT ![r] = "idle"]
        /\ picked' = [picked EXCEPT ![r] = Nil]
        /\ progress' = [progress EXCEPT ![r] = "start"]
        /\ UNCHANGED <<sliceVars, cursor, scan>> /\ snap' = snap
    BY <1>2 DEF Finish, Respond, sliceVars
  <2>2. SliceTypeInv'
    BY <1>2, RespondType DEF Finish, LeastInv, LeastTypes
  <2>3. /\ progress' \in [Requests -> {"start", "sent", "ok", "failed"}]
        /\ phase'[r] = "idle" /\ progress'[r] = "start"
    BY <1>0, <2>1
  <2>4. OnlyIts(r)
    BY <1>0, <2>1 DEF OnlyIts
  <2>5. ~ scan[r].active
    BY <2>1 DEF LeastInv, Scanning
  <2> QED
    BY <1>2, <2>1, <2>2, <2>3, <2>4, <2>5, RequestStepInv DEF LeastInv, LeastTypes
<1>3. ASSUME NEW micros \in Nat, NEW b, storeRecentResTime(b, micros)
      PROVE  recentResTime' \in [Backends -> Nat]
  <2>1. \A c \in Nat : Smoothed(c, micros) \in Nat
    BY DEF Smoothed
  <2>2. recentResTime \in [Backends -> Nat]
    BY DEF LeastInv, LeastTypes
  <2> QED
    BY <1>3, <2>1, <2>2 DEF storeRecentResTime
<1>4. Samples \subseteq Nat /\ FailureSamples \subseteq Nat
  BY LeastAlgorithmAssumption
<1>5. CASE recordResponseTime(r)
  BY <1>2, <1>3, <1>4, <1>5 DEF recordResponseTime
<1>6. CASE recordFailure(r)
  BY <1>2, <1>3, <1>4, <1>6 DEF recordFailure
<1>7. CASE Unrecorded(r)
  BY <1>2, <1>7 DEF Unrecorded, LeastInv, LeastTypes
<1> QED
  BY <1>1, <1>5, <1>6, <1>7 DEF ReverseProxyHandler

(* The health checker resets a score only for a Backend that rejoins; its  *)
(* other steps and the calls do not touch what the scans use.              *)
LEMMA CheckerInv ==
  ASSUME LeastInv, UNCHANGED nextFunc,
         healthChecker \/ healthCheck \/ Stats \/ Shutdown \/ Environment
  PROVE  LeastInv'
<1>0. SliceTypeInv /\ SliceTypeOK /\ BalancerTypeOK /\ recentResTime \in [Backends -> Nat]
  BY DEF LeastInv, LeastTypes, SliceTypeInv, SliceTypeOK
<1>1. CASE Leave /\ UNCHANGED leastVars
  <2>1. SliceTypeInv'
    BY <1>0, <1>1, LeaveType
  <2> QED
    BY <1>0, <1>1, <2>1, OtherStepInv DEF Leave, CheckerStep, leastVars, requestVars
<1>2. CASE Rejoin
  <2>1. SliceTypeInv'
    BY <1>0, <1>2, AppendType DEF Rejoin, CheckerLocations
  <2> QED
    BY <1>0, <1>2, <2>1, OtherStepInv DEF Rejoin, CheckerStep, leastVars, requestVars
<1>3. CASE ResetRecentResponseTime
  <2>1. BalancerTypeOK'
    BY <1>0, <1>3, CheckerTypeOK DEF ResetRecentResponseTime, CheckerLocations
  <2>2. SliceTypeInv'
    BY <1>0, <1>3, <2>1, OtherStepType DEF ResetRecentResponseTime, CheckerStep, requestVars
  <2>3. recentResTime' \in [Backends -> Nat]
    BY <1>0, <1>3 DEF ResetRecentResponseTime
  <2> QED
    BY <1>3, <2>2, <2>3, OtherStepInv
    DEF ResetRecentResponseTime, CheckerStep, sliceVars, requestVars
<1>4. ASSUME BalancerTypeOK', UNCHANGED <<requestVars, sliceVars, leastVars>>
      PROVE  LeastInv'
  <2>1. SliceTypeInv'
    BY <1>0, <1>4, OtherStepType
  <2> QED
    BY <1>0, <1>4, <2>1, OtherStepInv DEF leastVars, sliceVars, requestVars
<1>5. CASE healthChecker \/ ((Probe \/ StoreIsHostAlive) /\ UNCHANGED <<sliceVars, leastVars>>)
  <2>1. BalancerTypeOK'
    BY <1>0, <1>5, CheckerTypeOK DEF healthChecker
  <2>2. UNCHANGED <<requestVars, sliceVars, leastVars>>
    BY <1>5 DEF healthChecker, healthCheckerStep, SelectTick, SelectStop, LoopHead, Probe,
                StoreIsHostAlive, StoreFlag
  <2> QED
    BY <1>4, <2>1, <2>2
<1>6. CASE Stats \/ Shutdown \/ Environment
  <2>1. BalancerTypeOK'
    BY <1>0, <1>6, CallsTypeOK, BalancerAssumption DEF Stats, Shutdown, Environment
  <2>2. UNCHANGED <<requestVars, sliceVars, leastVars>>
    BY <1>6 DEF Stats, StatsCall, StatsStart, StatsRow, StatsReturn, Shutdown,
                ShutdownCall, ShutdownStop, ShutdownJoined, ShutdownTimeout,
                ShutdownClose, Environment, Flip
  <2> QED
    BY <1>4, <2>1, <2>2
<1> QED
  BY <1>1, <1>2, <1>3, <1>5, <1>6 DEF healthCheck

(* No step of either scan or of the health checker breaks it.              *)
LEMMA LeastInvStep ==
  ASSUME LeastInv, [Next]_vars
  PROVE  LeastInv'
<1>1. CASE UNCHANGED vars
  BY <1>1 DEF vars, balancerVars, sliceVars, leastVars, requestVars, checkerVars,
              shutdownVars, statsVars, LeastInv, LeastTypes, Scanning, ByScore,
              SliceTypeInv, SliceTypeOK, LoadedNotEmpty, BalancerTypeOK
<1>2. ASSUME Next, NEW r \in Requests, Serve(r)
      PROVE  LeastInv'
  <2>0. UNCHANGED nextFunc
    BY <1>2 DEF Next
  <2>1. CASE LoadServers(r) /\ UNCHANGED leastVars
    BY <2>0, <2>1, LoadInv
  <2>2. ASSUME NEW b, NEW l, Goes(r, b, l) PROVE LeastInv'
    BY <2>0, <2>2, ScanStepInv, ChooseInv DEF Goes
  <2>3. CASE leastConnectionNext(r)
    BY <2>0, <2>2, <2>3, ConnectionSteps, ScanStepInv
  <2>4. CASE leastResponseTimeNext(r)
    BY <2>0, <2>2, <2>4, ScoreSteps, ScanStepInv, ChooseInv DEF StartsAtFirst
  <2>5. CASE ReverseProxyHandler(r)
    BY <2>0, <2>5, HandlerInv
  <2> QED
    BY <1>2, <2>1, <2>3, <2>4, <2>5 DEF Serve
<1> QED
  BY <1>1, <1>2, CheckerInv DEF Next

(* The constructor establishes it.                                         *)
LEMMA LeastInvInit == NewLeastAlgorithm => LeastInv
<1> SUFFICES ASSUME NewLeastAlgorithm PROVE LeastInv
  OBVIOUS
<1>1. SliceTypeInv
  BY AliveServersProperties, NewSliceInv DEF NewLeastAlgorithm
<1>2. NoScan \in Scans /\ ~ NoScan.active
  BY DEF NoScan, Scans
<1>3. 0 \in 0 .. CounterMod - 1
  BY LeastAlgorithmAssumption
<1>4. LeastTypes
  BY <1>1, <1>2, <1>3 DEF NewLeastAlgorithm, LeastTypes
<1>5. Scanning
  BY <1>2 DEF NewLeastAlgorithm, NewSlice, NewBalancer, Scanning
<1> QED
  BY <1>4, <1>5 DEF LeastInv

(* Whatever the scans read, the state is well-typed: a scan never leaves   *)
(* the slice its request loaded, even when a shorter one has been stored.  *)
THEOREM LeastTypeCorrect == Spec => []TypeOK
<1>1. LeastInv => TypeOK
  BY DEF LeastInv, LeastTypes, Scanning, Scans, SliceTypeInv, TypeOK
<1>2. LeastInv /\ [Next]_vars => LeastInv'
  BY LeastInvStep
<1> QED
  BY LeastInvInit, <1>1, <1>2, PTL DEF Spec

-----------------------------------------------------------------------------
(* The contract of Rotation.                                               *)

(* Every step of a request leaves the rotation and the flags alone.        *)
LEMMA ServeUnchanged ==
  ASSUME LeastInv, NEW r \in Requests, Serve(r)
  PROVE  UNCHANGED <<servers, isHostAlive, checker, cur>>
<1>1. CASE LoadServers(r)
  BY <1>1 DEF LoadServers, Load, checkerVars
<1>2. ASSUME \/ \E s : Starts(r, s)
             \/ \E b : Chooses(r, b)
             \/ \E b, l : Goes(r, b, l)
      PROVE  UNCHANGED <<servers, isHostAlive, checker, cur>>
  BY <1>2 DEF Starts, Goes, Advances, Chooses, Return, Pick, balancerVars, sliceVars,
              checkerVars
<1>3. CASE leastConnectionNext(r)
  BY <1>2, <1>3, ConnectionSteps
<1>4. CASE leastResponseTimeNext(r)
  BY <1>2, <1>4, ScoreSteps DEF StartsAtFirst
<1>5. CASE ReverseProxyHandler(r)
  BY <1>5 DEF ReverseProxyHandler, Do, recordResponseTime, recordFailure, Unrecorded,
              Finish, Respond, balancerVars, sliceVars, checkerVars
<1> QED
  BY <1>1, <1>3, <1>4, <1>5 DEF Serve

(* With distinct keys, every step keeps flags and rotation together.       *)
LEMMA LeastFlagStep ==
  ASSUME IsInjective(Hash), LeastInv, FlagInv, [Next]_vars
  PROVE  FlagInv'
<1>0. SliceTypeInv /\ BalancerTypeOK
  BY DEF LeastInv, LeastTypes, SliceTypeInv, SliceTypeOK
<1>1. CASE UNCHANGED vars
  BY <1>1, FlagUnchanged DEF vars, balancerVars, checkerVars, sliceVars
<1>2. ASSUME NEW r \in Requests, Serve(r)
      PROVE  FlagInv'
  BY <1>2, ServeUnchanged, FlagUnchanged
<1>3. CASE healthChecker
  BY <1>3, CheckerStepFlag DEF healthChecker, sliceVars
<1>4. ASSUME Probe, UNCHANGED sliceVars
      PROVE  FlagInv'
  BY <1>0, <1>4, ProbeFlag DEF sliceVars
<1>5. ASSUME StoreIsHostAlive, UNCHANGED sliceVars
      PROVE  FlagInv'
  BY <1>0, <1>5, StoreFlagFlag DEF sliceVars
<1>6. CASE Leave
  BY <1>0, <1>6, LeaveFlag
<1>7. CASE ResetRecentResponseTime
  BY <1>7 DEF ResetRecentResponseTime, CheckerStep, sliceVars, FlagInv, FlagMatchesRotation,
              ActsOnVerdict, BetweenStores, rotation
<1>8. CASE Rejoin
  BY <1>0, <1>8, AppendFlag DEF Rejoin
<1>9. CASE Stats \/ Shutdown \/ Environment
  <2>1. UNCHANGED <<servers, isHostAlive, checker, cur>>
    BY <1>9 DEF Stats, StatsCall, StatsStart, StatsRow, StatsReturn, Shutdown,
                ShutdownCall, ShutdownStop, ShutdownJoined, ShutdownTimeout,
                ShutdownClose, Environment, Flip, checkerVars, sliceVars
  <2> QED
    BY <2>1, FlagUnchanged
<1> QED
  BY <1>1, <1>2, <1>3, <1>4, <1>5, <1>6, <1>7, <1>8, <1>9 DEF Next, healthCheck

(* Each step is one of Rotation's, or changes nothing it speaks of.        *)
LEMMA LeastRefinementStep ==
  ASSUME IsInjective(Hash), LeastInv, FlagInv, [Next]_vars
  PROVE  [Contract!Next]_Contract!vars
<1>0. SliceTypeInv /\ cur \in Backends
  BY DEF LeastInv, LeastTypes, SliceTypeInv, SliceTypeOK, BalancerTypeOK
<1>1. ASSUME UNCHANGED contractVars
      PROVE  [Contract!Next]_Contract!vars
  BY <1>1, ContractUnchanged
<1>2. ASSUME NEW r \in Requests, Serve(r)
      PROVE  [Contract!Next]_Contract!vars
  <2>1. CASE LoadServers(r)
    BY <1>0, <2>1, ContractRequest DEF Contract!Next
  <2>2. ASSUME (\E s : Starts(r, s)) \/ (\E b, l : Advances(r, b, l))
        PROVE  [Contract!Next]_Contract!vars
    <3>1. UNCHANGED contractVars
      BY <2>2 DEF Starts, Advances, balancerVars, contractVars
    <3> QED
      BY <1>1, <3>1
  <2>3. ASSUME NEW b, Chooses(r, b)
        PROVE  [Contract!Next]_Contract!vars
    <3>1. PICK p \in DOMAIN snap[r] : b = snap[r][p] /\ PickAt(r, p)
      BY <2>3, ChoosesAt
    <3>2. b \in Backends
      BY <2>3, ChoosesAt
    <3>3. Contract!Choose(r, b)
      BY <1>0, <3>1, ContractRequest
    <3> QED
      BY <3>2, <3>3 DEF Contract!Next
  <2>4. ASSUME NEW b, NEW l, Goes(r, b, l)
        PROVE  [Contract!Next]_Contract!vars
    BY <2>2, <2>3, <2>4 DEF Goes
  <2>5. CASE leastConnectionNext(r)
    BY <2>2, <2>4, <2>5, ConnectionSteps
  <2>6. CASE leastResponseTimeNext(r)
    BY <2>2, <2>3, <2>4, <2>6, ScoreSteps DEF StartsAtFirst
  <2>7. CASE Do(r)
    <3>1. UNCHANGED contractVars
      BY <2>7 DEF Do, balancerVars, contractVars
    <3> QED
      BY <1>1, <3>1
  <2>8. CASE Finish(r)
    <3>1. Contract!Answer(r)
      BY <1>0, <2>8, ContractRequest DEF Finish
    <3> QED
      BY <3>1 DEF Contract!Next
  <2> QED
    BY <1>2, <2>1, <2>5, <2>6, <2>7, <2>8
    DEF Serve, ReverseProxyHandler, recordResponseTime, recordFailure, Unrecorded
<1>3. CASE healthChecker
  BY <1>0, <1>3, ContractChecker DEF healthChecker
<1>4. ASSUME Probe, UNCHANGED sliceVars
      PROVE  [Contract!Next]_Contract!vars
  BY <1>0, <1>4, ContractChecker DEF Contract!Next
<1>5. ASSUME StoreIsHostAlive, UNCHANGED sliceVars
      PROVE  Contract!Next
  BY <1>0, <1>5, ContractChecker DEF Contract!Next
<1>6. CASE Leave
  BY <1>0, <1>6, ContractChecker DEF Contract!Next
<1>7. CASE ResetRecentResponseTime
  <2>1. verdict' = verdict
    BY <1>7 DEF ResetRecentResponseTime, CheckerStep, verdict
  <2> QED
    BY <1>7, <2>1 DEF ResetRecentResponseTime, CheckerStep, Contract!vars, rotation,
                      sliceVars, requestVars
<1>8. CASE Rejoin
  BY <1>0, <1>8, ContractChecker DEF Contract!Next, Rejoin
<1>9. CASE Stats \/ Shutdown
  <2>1. UNCHANGED contractVars
    BY <1>9 DEF Stats, StatsCall, StatsStart, StatsRow, StatsReturn, Shutdown,
                ShutdownCall, ShutdownStop, ShutdownJoined, ShutdownTimeout,
                ShutdownClose, contractVars, checkerVars, sliceVars, requestVars
  <2> QED
    BY <1>1, <2>1
<1>10. CASE Environment
  <2>1. PICK b \in Backends : Flip(b)
    BY <1>10, BalancerAssumption DEF Environment
  <2>2. Contract!Change(b)
    BY <1>10, <2>1 DEF Environment, Flip, Contract!Change, verdict, rotation,
                      checkerVars, sliceVars, requestVars
  <2> QED
    BY <2>2 DEF Contract!Next
<1>11. CASE UNCHANGED vars
  BY <1>1, <1>11 DEF vars, balancerVars, contractVars
<1> QED
  BY <1>2, <1>3, <1>4, <1>5, <1>6, <1>7, <1>8, <1>9, <1>10, <1>11 DEF Next, healthCheck

(* With distinct keys, both least algorithms keep the contract of every    *)
(* Balancer, although a scan takes many steps and the slice may change     *)
(* under it: a request goes to a member of the rotation it loaded, and is  *)
(* refused only if that was empty.                                         *)
THEOREM LeastIsRotation ==
  ASSUME IsInjective(Hash)
  PROVE  Spec => ImplementsRotation
<1> DEFINE I == LeastInv /\ FlagInv
<1>1. NewLeastAlgorithm => Contract!Init /\ I
  BY AliveServersProperties, ContractInit, NewSliceInv, LeastInvInit DEF NewLeastAlgorithm
<1>2. I /\ [Next]_vars => I'
  BY LeastInvStep, LeastFlagStep
<1>3. I /\ [Next]_vars => [Contract!Next]_Contract!vars
  BY LeastRefinementStep
<1> QED
  BY <1>1, <1>2, <1>3, PTL DEF Spec, ImplementsRotation, Contract!Spec

-----------------------------------------------------------------------------
(* What can happen to one request's scan in a step.                        *)

ScanSteps(r) ==
  \/ /\ ~ ByScore
     /\ \/ \E s : Starts(r, s)
        \/ \E b, l : PendingVisit(r, b, l) /\ Goes(r, b, l)
  \/ /\ ByScore
     /\ \/ \E s : StartsAtFirst(r, s)
        \/ /\ recentResTime[snap[r][1 + scan[r].at]] = 0
           /\ Chooses(r, snap[r][1 + scan[r].at])
        \/ \E b, l : ScoreVisit(r, b, l) /\ Goes(r, b, l)

ScanRests(r) ==
  /\ scan'[r] = scan[r]
  /\ phase[r] = "loaded" => phase'[r] = "loaded" /\ snap'[r] = snap[r]

(* Nothing but its own scan moves it, whatever else happens.               *)
LEMMA StepOfScan ==
  ASSUME LeastInv, [Next]_vars, NEW r \in Requests
  PROVE  ScanSteps(r) \/ ScanRests(r)
<1>0. /\ phase \in [Requests -> {"idle", "loaded", "proxying", "refused"}]
      /\ snap \in [Requests -> Seq(Backends)] /\ scan \in [Requests -> Scans]
  BY DEF LeastInv, LeastTypes, SliceTypeInv, SliceTypeOK, BalancerTypeOK
<1>1. ASSUME UNCHANGED <<phase, snap, scan>>
      PROVE  ScanRests(r)
  BY <1>1 DEF ScanRests
<1>2. ASSUME NEW q \in Requests, Serve(q)
      PROVE  ScanSteps(r) \/ ScanRests(r)
  <2>1. CASE LoadServers(q) /\ UNCHANGED leastVars
    <3>1. /\ phase[q] = "idle" /\ scan' = scan /\ snap' = [snap EXCEPT ![q] = servers]
          /\ phase' = [phase EXCEPT ![q] = IF servers = <<>> THEN "refused" ELSE "loaded"]
      BY <2>1 DEF LoadServers, Load, leastVars
    <3> QED
      BY <1>0, <3>1 DEF ScanRests
  <2>2. ASSUME ScanSteps(q), q # r
        PROVE  ScanRests(r)
    <3>1. ASSUME NEW b, Chooses(q, b) PROVE ScanRests(r)
      <4>1. /\ phase' = [phase EXCEPT ![q] = "proxying"]
            /\ scan' = [scan EXCEPT ![q] = NoScan] /\ snap' = [snap EXCEPT ![q] = <<>>]
        BY <3>1 DEF Chooses, Return, Pick
      <4> QED
        BY <1>0, <2>2, <4>1 DEF ScanRests
    <3>2. ASSUME (\E s : Starts(q, s)) \/ (\E b, l : Advances(q, b, l)) PROVE ScanRests(r)
      <4>1. phase' = phase /\ snap' = snap /\ \E s : scan' = [scan EXCEPT ![q] = s]
        BY <3>2 DEF Starts, Advances, balancerVars, requestVars, sliceVars
      <4> QED
        BY <1>0, <2>2, <4>1 DEF ScanRests
    <3> QED
      BY <2>2, <3>1, <3>2 DEF ScanSteps, StartsAtFirst, Goes
  <2>3. CASE leastConnectionNext(q)
    <3>1. ScanSteps(q)
      BY <2>3, ConnectionSteps DEF ScanSteps
    <3> QED
      BY <2>2, <3>1
  <2>4. CASE leastResponseTimeNext(q)
    <3>1. ScanSteps(q)
      BY <2>4, ScoreSteps DEF ScanSteps
    <3> QED
      BY <2>2, <3>1
  <2>5. CASE ReverseProxyHandler(q)
    <3>1. CASE Do(q)
      BY <1>1, <3>1 DEF Do, balancerVars, requestVars, sliceVars
    <3>2. CASE Finish(q)
      <4>1. /\ phase[q] \in {"proxying", "refused"} /\ snap' = snap /\ scan' = scan
            /\ phase' = [phase EXCEPT ![q] = "idle"]
        BY <3>2 DEF Finish, Respond, sliceVars
      <4> QED
        BY <1>0, <4>1 DEF ScanRests
    <3> QED
      BY <2>5, <3>1, <3>2
      DEF ReverseProxyHandler, recordResponseTime, recordFailure, Unrecorded
  <2> QED
    BY <1>2, <2>1, <2>3, <2>4, <2>5 DEF Serve
<1>3. CASE healthChecker \/ healthCheck \/ Stats \/ Shutdown \/ Environment
  <2>1. UNCHANGED <<phase, snap, scan>>
    BY <1>3 DEF healthChecker, healthCheckerStep, SelectTick, SelectStop, LoopHead,
                healthCheck, Probe, StoreIsHostAlive, StoreFlag, Leave, CheckerStep,
                ResetRecentResponseTime, Rejoin, Stats, StatsCall, StatsStart, StatsRow,
                StatsReturn, Shutdown, ShutdownCall, ShutdownStop, ShutdownJoined,
                ShutdownTimeout, ShutdownClose, Environment, Flip,
                requestVars, sliceVars, leastVars
  <2> QED
    BY <1>1, <2>1
<1>4. CASE UNCHANGED vars
  BY <1>1, <1>4 DEF vars, balancerVars, requestVars, sliceVars, leastVars
<1> QED
  BY <1>2, <1>3, <1>4 DEF Next

-----------------------------------------------------------------------------
(* The least-response-time scan.                                           *)

(* A scan during which no score changed holds a score that is still its    *)
(* Backend's and the least of those it has visited, all of them measured.  *)
ScoresRead ==
  \A r \in Requests :
    ByScore /\ scan[r].active /\ ~ stirred[r] =>
      /\ scan[r].least = recentResTime[scan[r].best]
      /\ \A p \in 1 .. scan[r].at :
           recentResTime[snap[r][p]] # 0 /\ scan[r].least <= recentResTime[snap[r][p]]

(* What the scan would return after one more visit.                        *)
LEMMA ScoreAfterVisit ==
  ASSUME LeastInv, ScoresRead, NEW r \in Requests, ByScore, scan[r].active, ~ stirred[r],
         NEW b, NEW l, ScoreVisit(r, b, l)
  PROVE  /\ l = recentResTime[b]
         /\ \A p \in 1 .. scan[r].at + 1 :
              recentResTime[snap[r][p]] # 0 /\ l <= recentResTime[snap[r][p]]
<1>1. phase[r] = "loaded" /\ scan[r] \in Scans /\ scan[r].at < Len(snap[r])
  BY DEF LeastInv, LeastTypes, Scanning
<1>2. scan[r].at \in Nat /\ scan[r].least \in Nat
  BY <1>1 DEF Scans
<1>3. /\ Len(snap[r]) \in Nat /\ \A p \in 1 .. Len(snap[r]) : snap[r][p] \in Backends
      /\ recentResTime \in [Backends -> Nat]
  BY <1>1, LoadedSlice DEF LeastInv, LeastTypes
<1> DEFINE k == scan[r].at
           x == scan[r].least
           T(p) == recentResTime[snap[r][p]]
<1>4. \A p \in 1 .. k + 1 : T(p) \in Nat
  BY <1>1, <1>2, <1>3
<1>5. x = recentResTime[scan[r].best] /\ \A p \in 1 .. k : T(p) # 0 /\ x <= T(p)
  BY DEF ScoresRead
<1>6. T(k + 1) # 0 /\ l = recentResTime[b] /\ l = (IF T(k + 1) < x THEN T(k + 1) ELSE x)
  <2>1. 1 + k = k + 1
    BY <1>2
  <2> QED
    BY <1>5, <2>1 DEF ScoreVisit
<1>7. k \in Nat /\ x \in Nat
  BY <1>2
<1> HIDE DEF k, x, T
<1>8. \A p \in 1 .. k + 1 : p \in 1 .. k \/ p = k + 1
  BY <1>7
<1>9. ASSUME NEW p \in 1 .. k + 1 PROVE T(p) # 0 /\ l <= T(p)
  <2>1. T(k + 1) \in Nat
    BY <1>4, <1>7
  <2>2. CASE p = k + 1
    BY <1>6, <1>7, <2>1, <2>2
  <2>3. CASE p \in 1 .. k
    BY <1>4, <1>5, <1>6, <1>7, <2>1, <2>3
  <2> QED
    BY <1>8, <2>2, <2>3
<1> QED
  BY <1>6, <1>9 DEF k, T

(* Every step keeps what the scans know.                                   *)
LEMMA ScoresReadStep ==
  ASSUME LeastInv, ScoresRead, [HNext]_<<vars, history>>
  PROVE  ScoresRead'
<1> SUFFICES ASSUME NEW r \in Requests, ByScore', scan'[r].active, ~ stirred'[r]
             PROVE  /\ scan'[r].least = recentResTime'[scan'[r].best]
                    /\ \A p \in 1 .. scan'[r].at :
                         /\ recentResTime'[snap'[r][p]] # 0
                         /\ scan'[r].least <= recentResTime'[snap'[r][p]]
  BY DEF ScoresRead
<1>1. [Next]_vars /\ ByScore
  BY DEF HNext, Next, vars, ByScore
<1>2. LeastInv'
  BY <1>1, LeastInvStep
<1>3. phase'[r] = "loaded"
  BY <1>2 DEF LeastInv, Scanning
<1>4. CASE ScanRests(r)
  <2>1. phase[r] = "loaded" /\ scan[r].active /\ scan'[r] = scan[r] /\ snap'[r] = snap[r]
    BY <1>4 DEF ScanRests, LeastInv, Scanning
  <2>2. ~ stirred[r] /\ recentResTime' = recentResTime
    BY <1>1, <1>3, <2>1 DEF HNext, Choosing, history, vars, leastVars
  <2> QED
    BY <1>1, <2>1, <2>2 DEF ScoresRead
<1>5. CASE ScanSteps(r)
  <2>1. phase[r] = "loaded"
    BY <1>1, <1>5 DEF ScanSteps, StartsAtFirst, Starts, Goes, Advances, Chooses
  <2>2. ~ stirred[r] /\ recentResTime' = recentResTime
    BY <1>1, <1>3, <2>1 DEF HNext, Choosing, history, vars, leastVars
  <2>3. ASSUME NEW b, Chooses(r, b) PROVE FALSE
    <3>1. phase' = [phase EXCEPT ![r] = "proxying"]
      BY <2>3 DEF Chooses, Return, Pick
    <3>2. phase'[r] = "proxying"
      BY <3>1 DEF LeastInv, LeastTypes, SliceTypeInv, SliceTypeOK, BalancerTypeOK
    <3> QED
      BY <1>3, <3>2
  <2>4. ASSUME NEW s, StartsAtFirst(r, s)
        PROVE  /\ scan'[r].least = recentResTime[scan'[r].best]
               /\ scan'[r].at = 0 /\ snap' = snap
    BY <2>4 DEF StartsAtFirst, Starts, sliceVars, LeastInv, LeastTypes
  <2>5. ASSUME NEW b, NEW l, ScoreVisit(r, b, l), Advances(r, b, l)
        PROVE  /\ scan'[r].least = recentResTime[scan'[r].best]
               /\ snap' = snap
               /\ \A p \in 1 .. scan'[r].at :
                    recentResTime[snap[r][p]] # 0 /\ scan'[r].least <= recentResTime[snap[r][p]]
    <3>1. scan'[r].at = scan[r].at + 1 /\ scan'[r].best = b /\ scan'[r].least = l
      BY <2>5, AdvancedScan
    <3>2. scan[r].active /\ snap' = snap
      BY <2>5 DEF Advances, sliceVars
    <3> QED
      BY <1>1, <2>2, <2>5, <3>1, <3>2, ScoreAfterVisit
  <2>6. CASE \E s : StartsAtFirst(r, s)
    BY <2>2, <2>4, <2>6
  <2>7. CASE \E b, l : ScoreVisit(r, b, l) /\ Advances(r, b, l)
    BY <2>2, <2>5, <2>7
  <2> QED
    BY <1>1, <1>5, <2>3, <2>6, <2>7 DEF ScanSteps, Goes
<1> QED
  BY <1>1, <1>4, <1>5, StepOfScan

(* The histories start empty and every scan at rest.                       *)
LEMMA HistoryInit ==
  HInit => LeastInv /\ \A r \in Requests : ~ scan[r].active
<1>1. ~ NoScan.active
  BY DEF NoScan
<1> QED
  BY <1>1, LeastInvInit DEF HInit, NewLeastAlgorithm

(* The scan returns an unmeasured Backend, or has visited all.             *)
LEMMA ScoreReturned ==
  ASSUME LeastInv, ScoresRead, Next, NEW r \in Requests, ByScore, Returns(r), ~ stirred[r]
  PROVE  LET score == recentResTime[picked'[r]] IN
         score = 0 \/ \A b \in Range(snap[r]) :
                         score <= recentResTime[b] /\ recentResTime[b] # 0
<1>0. /\ phase \in [Requests -> {"idle", "loaded", "proxying", "refused"}]
      /\ picked \in [Requests -> Backends \cup {Nil}]
      /\ phase[r] = "loaded" /\ phase'[r] = "proxying"
  BY DEF LeastInv, LeastTypes, SliceTypeInv, SliceTypeOK, BalancerTypeOK, Returns
<1>1. ScanSteps(r)
  BY <1>0, StepOfScan DEF ScanRests
<1>2. ASSUME (\E s : Starts(r, s)) \/ (\E b, l : Advances(r, b, l)) PROVE FALSE
  BY <1>0, <1>2 DEF Starts, Advances, balancerVars, requestVars
<1>3. ASSUME NEW b, Chooses(r, b) PROVE picked'[r] = b /\ scan[r].active
  BY <1>0, <1>3 DEF Chooses, Return, Pick
<1>4. CASE /\ recentResTime[snap[r][1 + scan[r].at]] = 0
           /\ Chooses(r, snap[r][1 + scan[r].at])
  BY <1>3, <1>4
<1>5. ASSUME NEW b, NEW l, ScoreVisit(r, b, l), Chooses(r, b), scan[r].at + 1 = Len(snap[r])
      PROVE  \A c \in Range(snap[r]) :
                recentResTime[picked'[r]] <= recentResTime[c] /\ recentResTime[c] # 0
  <2>1. picked'[r] = b /\ scan[r].active
    BY <1>3, <1>5
  <2>2. /\ l = recentResTime[b]
        /\ \A p \in 1 .. Len(snap[r]) :
             recentResTime[snap[r][p]] # 0 /\ l <= recentResTime[snap[r][p]]
    BY <1>5, <2>1, ScoreAfterVisit
  <2>3. DOMAIN snap[r] = 1 .. Len(snap[r])
    BY <1>0, LoadedSlice
  <2> QED
    BY <2>1, <2>2, <2>3 DEF Range
<1>6. CASE \E b, l : ScoreVisit(r, b, l) /\ Goes(r, b, l)
  BY <1>2, <1>5, <1>6 DEF Goes
<1> QED
  BY <1>1, <1>2, <1>4, <1>6 DEF ScanSteps, StartsAtFirst

(* A least-response-time scan during which no score changed returns an     *)
(* unmeasured Backend or, if it saw none, one of the fastest of the slice, *)
(* for any slice, any scores and any interleaving with other requests.     *)
THEOREM ScoreScanSound == HSpec => UnmeasuredOrFastest
<1> DEFINE I == LeastInv /\ ScoresRead
           A == \A r \in Requests : ByScore /\ Returns(r) /\ ~ stirred[r] =>
                  LET score == recentResTime[picked'[r]] IN
                  score = 0 \/ \A b \in Range(snap[r]) :
                                  score <= recentResTime[b] /\ recentResTime[b] # 0
<1>1. HInit => I
  BY HistoryInit DEF ScoresRead
<1>2. I /\ [HNext]_<<vars, history>> => I'
  <2> SUFFICES ASSUME I, [HNext]_<<vars, history>> PROVE I'
    OBVIOUS
  <2>1. [Next]_vars
    BY DEF HNext
  <2> QED
    BY <2>1, LeastInvStep, ScoresReadStep
<1>3. I /\ [HNext]_<<vars, history>> => [A]_vars
  <2> SUFFICES ASSUME I, HNext PROVE A
    OBVIOUS
  <2>1. Next
    BY DEF HNext
  <2> QED
    BY <2>1, ScoreReturned
<1> QED
  BY <1>1, <1>2, <1>3, PTL DEF HSpec, UnmeasuredOrFastest

-----------------------------------------------------------------------------
(* The least-connection scan.                                              *)

(* A set of requests is counted.                                           *)
LEMMA RequestsCounted ==
  ASSUME NEW S \in SUBSET Requests
  PROVE  /\ IsFiniteSet(S) /\ Cardinality(S) \in Nat /\ Cardinality(Requests) \in Nat
         /\ Cardinality(S) <= Cardinality(Requests)
<1>1. IsFiniteSet(Requests)
  BY LeastAlgorithmAssumption
<1>2. IsFiniteSet(S) /\ Cardinality(S) <= Cardinality(Requests)
  BY <1>1, FS_Subset
<1> QED
  BY <1>1, <1>2, FS_CardinalityType

(* The requests pending at b, before a step and after it.                  *)
Pending(b) == {r \in Requests : picked[r] = b /\ progress[r] = "sent"}

(* The figure the scan reads counts them, and is at most the requests.     *)
LEMMA PendingCounts ==
  ASSUME NEW b
  PROVE  /\ PendingRequests(b) = Cardinality(Pending(b))
         /\ PendingRequests(b)' = Cardinality(Pending(b)')
         /\ PendingRequests(b) \in Nat /\ PendingRequests(b) <= Cardinality(Requests)
         /\ PendingRequests(b)' \in Nat /\ PendingRequests(b)' <= Cardinality(Requests)
         /\ IsFiniteSet(Pending(b)) /\ Cardinality(Requests) \in Nat
<1>1. PendingRequests(b) = Cardinality(Pending(b))
      /\ PendingRequests(b)' = Cardinality(Pending(b)')
  BY DEF PendingRequests, Pending
<1>2. Pending(b) \in SUBSET Requests /\ Pending(b)' \in SUBSET Requests
  BY DEF Pending
<1> QED
  BY <1>1, <1>2, RequestsCounted

(* One step changes the count of at most one Backend, by one.              *)
Shifts(b, c) ==
  /\ PendingRequests(b)' <= PendingRequests(b) + 1
  /\ PendingRequests(b) <= PendingRequests(b)' + 1
  /\ PendingRequests(b)' + PendingRequests(c) <= PendingRequests(c)' + PendingRequests(b) + 1

(* The steps that send no request and end none.                            *)
LEMMA PendingSame ==
  ASSUME \A q \in Requests :
           progress[q] = "sent" \/ progress'[q] = "sent" =>
             progress'[q] = progress[q] /\ picked'[q] = picked[q]
  PROVE  \A b : PendingRequests(b)' = PendingRequests(b)
<1>1. ASSUME NEW b PROVE Pending(b)' = Pending(b)
  BY DEF Pending
<1> QED
  BY <1>1, PendingCounts

(* The start and the end of Do.                                            *)
LEMMA DoShifts ==
  ASSUME LeastInv, NEW r \in Requests, Do(r), NEW b, NEW c
  PROVE  Shifts(b, c)
<1>0. /\ picked' = picked
      /\ progress \in [Requests -> {"start", "sent", "ok", "failed"}]
  BY DEF Do, balancerVars, requestVars, LeastInv, LeastTypes
<1> PICK a : a = picked[r]
  OBVIOUS
<1>1. ASSUME NEW d, d # a PROVE PendingRequests(d)' = PendingRequests(d)
  <2>1. Pending(d)' = Pending(d)
    BY <1>0, <1>1 DEF Do, Pending
  <2> QED
    BY <2>1, PendingCounts
<1>2. ASSUME PendingRequests(a)' \in {PendingRequests(a) + 1, PendingRequests(a) - 1}
      PROVE  Shifts(b, c)
  <2> DEFINE x  == PendingRequests(b)
             x2 == PendingRequests(b)'
             y  == PendingRequests(c)
             y2 == PendingRequests(c)'
  <2>1. x \in Nat /\ x2 \in Nat /\ y \in Nat /\ y2 \in Nat
    BY PendingCounts
  <2>2. x2 \in {x, x + 1, x - 1} /\ y2 \in {y, y + 1, y - 1}
        /\ (x2 = x \/ y2 = y \/ (x2 = y2 /\ x = y))
    <3>1. CASE b = a /\ c = a
      BY <1>2, <3>1
    <3>2. CASE b # a
      BY <1>1, <1>2, <3>2
    <3>3. CASE c # a
      BY <1>1, <1>2, <3>3
    <3> QED
      BY <3>1, <3>2, <3>3
  <2> SUFFICES x2 <= x + 1 /\ x <= x2 + 1 /\ x2 + y <= y2 + x + 1
    BY DEF Shifts
  <2> HIDE DEF x, x2, y, y2
  <2> QED
    BY <2>1, <2>2
<1>3. CASE progress[r] = "start" /\ progress' = [progress EXCEPT ![r] = "sent"]
  <2>1. Pending(a)' = Pending(a) \cup {r} /\ r \notin Pending(a)
    BY <1>0, <1>3 DEF Pending
  <2>2. PendingRequests(a)' = PendingRequests(a) + 1
    BY <2>1, PendingCounts, FS_AddElement
  <2> QED
    BY <1>2, <2>2
<1>4. CASE /\ progress[r] = "sent"
           /\ \E outcome \in {"ok", "failed"} : progress' = [progress EXCEPT ![r] = outcome]
  <2>1. Pending(a)' = Pending(a) \ {r} /\ r \in Pending(a)
    BY <1>0, <1>4 DEF Pending
  <2>2. PendingRequests(a)' = PendingRequests(a) - 1
    BY <2>1, PendingCounts, FS_RemoveElement
  <2> QED
    BY <1>2, <2>2
<1> QED
  BY <1>3, <1>4 DEF Do

(* No other step sends a request or ends one.                              *)
LEMMA PendingShifts ==
  ASSUME LeastInv, [Next]_vars, NEW b, NEW c
  PROVE  Shifts(b, c)
<1>0. /\ picked \in [Requests -> Backends \cup {Nil}]
      /\ progress \in [Requests -> {"start", "sent", "ok", "failed"}]
  BY DEF LeastInv, LeastTypes, SliceTypeInv, SliceTypeOK, BalancerTypeOK
<1>1. ASSUME \A q \in Requests :
               progress[q] = "sent" \/ progress'[q] = "sent" =>
                 progress'[q] = progress[q] /\ picked'[q] = picked[q]
      PROVE  Shifts(b, c)
  <2>1. PendingRequests(b)' = PendingRequests(b) /\ PendingRequests(c)' = PendingRequests(c)
    BY <1>1, PendingSame
  <2> QED
    BY <2>1, PendingCounts DEF Shifts
<1>2. ASSUME NEW r \in Requests, Serve(r)
      PROVE  Shifts(b, c)
  <2>1. CASE LoadServers(r) /\ UNCHANGED leastVars
    BY <1>1, <2>1 DEF LoadServers, Load, leastVars
  <2>2. ASSUME (\E s : Starts(r, s)) \/ (\E d, l : Advances(r, d, l)) PROVE Shifts(b, c)
    BY <1>1, <2>2 DEF Starts, Advances, balancerVars, requestVars
  <2>3. ASSUME NEW d, Chooses(r, d) PROVE Shifts(b, c)
    <3>1. /\ phase[r] = "loaded" /\ picked' = [picked EXCEPT ![r] = d] /\ progress' = progress
      BY <2>3 DEF Chooses, Return, Pick
    <3>2. progress[r] = "start"
      BY <3>1 DEF LeastInv, Scanning
    <3> QED
      BY <1>0, <1>1, <3>1, <3>2
  <2>4. ASSUME ScanSteps(r) PROVE Shifts(b, c)
    BY <2>2, <2>3, <2>4 DEF ScanSteps, StartsAtFirst, Goes
  <2>5. CASE leastConnectionNext(r) \/ leastResponseTimeNext(r)
    <3>1. ScanSteps(r)
      BY <2>5, ConnectionSteps, ScoreSteps DEF ScanSteps
    <3> QED
      BY <2>4, <3>1
  <2>6. CASE Do(r)
    BY <2>6, DoShifts
  <2>7. ASSUME Finish(r), progress[r] # "sent" PROVE Shifts(b, c)
    <3>1. picked' = [picked EXCEPT ![r] = Nil] /\ progress' = [progress EXCEPT ![r] = "start"]
      BY <2>7 DEF Finish, Respond
    <3> QED
      BY <1>0, <1>1, <2>7, <3>1
  <2>8. CASE recordResponseTime(r) \/ recordFailure(r)
    BY <2>7, <2>8 DEF recordResponseTime, recordFailure
  <2>9. CASE Unrecorded(r)
    <3>1. Finish(r) /\ progress[r] # "sent"
      BY <2>9 DEF Unrecorded, LeastInv, Scanning
    <3> QED
      BY <2>7, <3>1
  <2> QED
    BY <1>2, <2>1, <2>5, <2>6, <2>8, <2>9 DEF Serve, ReverseProxyHandler
<1>3. CASE healthChecker \/ healthCheck \/ Stats \/ Shutdown \/ Environment
  <2>1. UNCHANGED <<picked, progress>>
    BY <1>3 DEF healthChecker, healthCheckerStep, SelectTick, SelectStop, LoopHead,
                healthCheck, Probe, StoreIsHostAlive, StoreFlag, Leave, CheckerStep,
                ResetRecentResponseTime, Rejoin, Stats, StatsCall, StatsStart, StatsRow,
                StatsReturn, Shutdown, ShutdownCall, ShutdownStop, ShutdownJoined,
                ShutdownTimeout, ShutdownClose, Environment, Flip,
                requestVars, sliceVars, leastVars
  <2> QED
    BY <1>1, <2>1
<1>4. CASE UNCHANGED vars
  BY <1>1, <1>4 DEF vars, balancerVars, requestVars, sliceVars, leastVars
<1> QED
  BY <1>2, <1>3, <1>4 DEF Next

(* The first n servers of a request's scan.                                *)
ServerAt(r, k) == snap[r][1 + ((scan[r].offset + k) % Len(snap[r]))]
Seen(r, n) == {ServerAt(r, k) : k \in 0 .. n - 1}

(* A scan's best Backend had least requests pending when it was visited,   *)
(* and the others seen no fewer: what is true of the counts now is that up *)
(* to one for each change since.                                           *)
DriftOf(r, best, least, seen) ==
  /\ least <= Cardinality(Requests)
  /\ PendingRequests(best) <= least + drift[r]
  /\ \A c \in seen :
       /\ least <= PendingRequests(c) + drift[r]
       /\ PendingRequests(best) <= PendingRequests(c) + drift[r]

Drifted ==
  /\ drift \in [Requests -> Nat]
  /\ \A r \in Requests, b \in Backends, l \in Nat, seen \in SUBSET Backends :
       /\ ~ ByScore /\ scan[r].active /\ scan[r].at > 0
       /\ b = scan[r].best /\ l = scan[r].least /\ seen = Seen(r, scan[r].at)
       => DriftOf(r, b, l, seen)

(* What a scan has seen are Backends, and in the end those of the slice.   *)
LEMMA SeenProperties ==
  ASSUME LeastInv, NEW r \in Requests, scan[r].active
  PROVE  /\ \A n \in Nat : Seen(r, n) \subseteq Range(snap[r])
         /\ \A n \in Nat : Seen(r, n + 1) = Seen(r, n) \cup {ServerAt(r, n)}
         /\ Range(snap[r]) \subseteq Seen(r, Len(snap[r]))
         /\ Range(snap[r]) \subseteq Backends
<1>1. phase[r] = "loaded" /\ scan[r] \in Scans /\ scan[r].offset < Len(snap[r])
  BY DEF LeastInv, LeastTypes, Scanning
<1>2. /\ Len(snap[r]) \in Nat \ {0} /\ DOMAIN snap[r] = 1 .. Len(snap[r])
      /\ Range(snap[r]) \subseteq Backends
      /\ \A p \in 1 .. Len(snap[r]) : snap[r][p] \in Range(snap[r])
  BY <1>1, LoadedSlice
<1>3. scan[r].offset \in 0 .. Len(snap[r]) - 1
  BY <1>1, <1>2 DEF Scans
<1> DEFINE n == Len(snap[r])
           o == scan[r].offset
<1>4. n \in Nat \ {0} /\ o \in 0 .. n - 1
  BY <1>2, <1>3
<1> HIDE DEF n, o
<1>5. \A k \in Nat : 1 + ((o + k) % n) \in 1 .. n
  <2>1. \A k \in Nat : o + k \in Nat
    BY <1>4
  <2>2. \A k \in Nat : (o + k) % n \in 0 .. n - 1
    BY <1>4, <2>1, RoundTheSlice
  <2> QED
    BY <1>4, <2>2
<1>6. \A k \in Nat : ServerAt(r, k) \in Range(snap[r])
  BY <1>2, <1>5 DEF ServerAt, n, o
<1>7. ASSUME NEW m \in Nat PROVE Seen(r, m) \subseteq Range(snap[r])
  BY <1>6 DEF Seen
<1>8. ASSUME NEW m \in Nat PROVE Seen(r, m + 1) = Seen(r, m) \cup {ServerAt(r, m)}
  <2>1. 0 .. (m + 1) - 1 = (0 .. m - 1) \cup {m}
    OBVIOUS
  <2> QED
    BY <2>1 DEF Seen
<1>9. ASSUME NEW b \in Range(snap[r]) PROVE b \in Seen(r, n)
  <2>1. PICK j \in 1 .. n : b = snap[r][j]
    BY <1>2 DEF Range, n
  <2>2. PICK k \in 0 .. n - 1 : 1 + ((o + k) % n) = j
    BY <1>4, RoundTheSlice
  <2>3. b = ServerAt(r, k)
    BY <2>1, <2>2 DEF ServerAt, n, o
  <2> QED
    BY <2>3 DEF Seen
<1> QED
  BY <1>2, <1>7, <1>8, <1>9 DEF n

(* What the scan would return after one more visit.                        *)
LEMMA DriftAfterVisit ==
  ASSUME LeastInv, Drifted, NEW r \in Requests, ~ ByScore, scan[r].active,
         NEW b, NEW l, PendingVisit(r, b, l)
  PROVE  DriftOf(r, b, l, Seen(r, scan[r].at + 1))
<1> DEFINE at == scan[r].at
           d  == drift[r]
           P(c) == PendingRequests(c)
           new  == ServerAhead(r)
<1>1. at \in Nat /\ scan[r].least \in Nat /\ d \in Nat
  BY DEF LeastInv, LeastTypes, Scans, Drifted
<1>2. \A c : P(c) \in Nat /\ P(c) <= Cardinality(Requests)
  BY PendingCounts
<1>3. Seen(r, at + 1) = Seen(r, at) \cup {new}
  BY <1>1, SeenProperties DEF ServerAt, ServerAhead
<1>4. at = 0 => Seen(r, at) = {}
  BY DEF Seen
<1>5. at # 0 => DriftOf(r, scan[r].best, scan[r].least, Seen(r, at))
  <2> SUFFICES ASSUME at # 0 PROVE DriftOf(r, scan[r].best, scan[r].least, Seen(r, at))
    OBVIOUS
  <2>1. Seen(r, at) \subseteq Backends /\ scan[r].at > 0 /\ Range(snap[r]) \subseteq Backends
    BY <1>1, SeenProperties
  <2>2. scan[r].best \in Backends
    BY <2>1 DEF LeastInv, Scanning
  <2> QED
    BY <1>1, <2>1, <2>2 DEF Drifted
<1>6. IF at = 0 \/ P(new) < scan[r].least
      THEN b = new /\ l = P(new)
      ELSE b = scan[r].best /\ l = scan[r].least
  BY DEF PendingVisit
<1> HIDE DEF at, d, P, new
<1>7. CASE at = 0 \/ P(new) < scan[r].least
  <2>1. b = new /\ l = P(new)
    BY <1>6, <1>7
  <2>2. l <= Cardinality(Requests) /\ P(b) <= l + d
    BY <1>1, <1>2, <2>1
  <2>3. ASSUME NEW c \in Seen(r, at + 1)
        PROVE  l <= P(c) + d /\ P(b) <= P(c) + d
    <3>1. CASE c = new
      BY <1>1, <1>2, <2>1, <3>1
    <3>2. CASE at # 0 /\ c \in Seen(r, at)
      <4>1. scan[r].least <= P(c) + d
        BY <1>5, <3>2 DEF DriftOf, P, d
      <4>2. P(new) < scan[r].least
        BY <1>7, <3>2
      <4> QED
        BY <1>1, <1>2, <2>1, <4>1, <4>2
    <3> QED
      BY <1>3, <1>4, <3>1, <3>2
  <2> QED
    BY <2>2, <2>3 DEF DriftOf, P, d, at
<1>8. CASE ~ (at = 0 \/ P(new) < scan[r].least)
  <2>1. b = scan[r].best /\ l = scan[r].least /\ l <= P(new)
    BY <1>1, <1>2, <1>6, <1>8
  <2>2. l <= Cardinality(Requests) /\ P(b) <= l + d
    BY <1>5, <1>8, <2>1 DEF DriftOf, P, d
  <2>3. ASSUME NEW c \in Seen(r, at + 1)
        PROVE  l <= P(c) + d /\ P(b) <= P(c) + d
    <3>1. CASE c = new
      BY <1>1, <1>2, <2>1, <2>2, <3>1
    <3>2. CASE c \in Seen(r, at)
      BY <1>5, <1>8, <2>1, <3>2 DEF DriftOf, P, d
    <3> QED
      BY <1>3, <3>1, <3>2
  <2> QED
    BY <2>2, <2>3 DEF DriftOf, P, d, at
<1> QED
  BY <1>7, <1>8

(* A step that changes a count is one more drift, until the drift is as    *)
(* large as any count.                                                     *)
LEMMA DriftKept ==
  ASSUME LeastInv, Drifted, HNext, NEW r \in Requests, ~ ByScore, Choosing(r),
         NEW best \in Backends, NEW least \in Nat, NEW seen \in SUBSET Backends,
         DriftOf(r, best, least, seen)
  PROVE  DriftOf(r, best, least, seen)'
<1> DEFINE d  == drift[r]
           d2 == drift'[r]
           M  == Cardinality(Requests)
           P(c) == PendingRequests(c)
           Q(c) == PendingRequests(c)'
<1>1. d2 = (IF SentOrDone /\ d < M THEN d + 1 ELSE d)
  BY DEF HNext
<1>2. d \in Nat /\ M \in Nat
  BY PendingCounts DEF Drifted
<1>3. [Next]_vars
  BY DEF HNext
<1>4. ASSUME NEW b \in Backends, NEW c \in Backends
      PROVE  /\ P(b) \in Nat /\ Q(b) \in Nat /\ Q(b) <= M
             /\ Q(b) <= P(b) + 1 /\ P(b) <= Q(b) + 1 /\ Q(b) + P(c) <= Q(c) + P(b) + 1
             /\ ~ SentOrDone => Q(b) = P(b)
  <2>1. Shifts(b, c)
    BY <1>3, PendingShifts
  <2>2. ~ SentOrDone => Q(b) = P(b)
    BY DEF SentOrDone
  <2> QED
    BY <2>1, <2>2, PendingCounts DEF Shifts
<1>5. least <= M /\ P(best) <= least + d
      /\ \A c \in seen : least <= P(c) + d /\ P(best) <= P(c) + d
  BY DEF DriftOf
<1> HIDE DEF d, d2, M, P, Q
<1>6. Q(best) <= least + d2
  BY <1>1, <1>2, <1>4, <1>5
<1>7. ASSUME NEW c \in seen
      PROVE  least <= Q(c) + d2 /\ Q(best) <= Q(c) + d2
  <2>1. least <= P(c) + d /\ P(best) <= P(c) + d
    BY <1>5
  <2>2. /\ P(c) \in Nat /\ Q(c) \in Nat /\ P(c) <= Q(c) + 1
        /\ P(best) \in Nat /\ Q(best) \in Nat /\ Q(best) <= M
        /\ Q(best) + P(c) <= Q(c) + P(best) + 1
        /\ ~ SentOrDone => Q(c) = P(c) /\ Q(best) = P(best)
    BY <1>4
  <2> QED
    BY <1>1, <1>2, <1>5, <2>1, <2>2
<1> QED
  BY <1>5, <1>6, <1>7 DEF DriftOf, M, Q, d2

(* Every step keeps what the scans know up to the drift.                   *)
LEMMA DriftedStep ==
  ASSUME LeastInv, Drifted, [HNext]_<<vars, history>>
  PROVE  Drifted'
<1>0. [Next]_vars /\ nextFunc' = nextFunc
  BY DEF HNext, Next, vars
<1>1. LeastInv'
  BY <1>0, LeastInvStep
<1>2. drift' \in [Requests -> Nat]
  <2>1. drift \in [Requests -> Nat] /\ Cardinality(Requests) \in Nat
    BY PendingCounts DEF Drifted
  <2>2. CASE HNext
    BY <2>1, <2>2 DEF HNext
  <2> QED
    BY <2>1, <2>2 DEF history
<1> SUFFICES ASSUME NEW r \in Requests, NEW b \in Backends, NEW l \in Nat,
                    NEW seen \in SUBSET Backends,
                    ~ ByScore', scan'[r].active, scan'[r].at > 0,
                    b = scan'[r].best, l = scan'[r].least, seen = Seen(r, scan[r].at)'
             PROVE  DriftOf(r, b, l, seen)'
  BY <1>2 DEF Drifted
<1>3. ~ ByScore /\ phase'[r] = "loaded"
  BY <1>0, <1>1 DEF ByScore, LeastInv, Scanning
<1>4. CASE ScanRests(r)
  <2>1. phase[r] = "loaded" /\ scan'[r] = scan[r] /\ snap'[r] = snap[r]
    BY <1>4 DEF ScanRests, LeastInv, Scanning
  <2>2. seen = Seen(r, scan[r].at)
    BY <2>1 DEF Seen, ServerAt
  <2>3. DriftOf(r, b, l, seen)
    BY <1>3, <2>1, <2>2 DEF Drifted
  <2>4. CASE HNext
    BY <1>3, <2>1, <2>3, <2>4, DriftKept DEF Choosing
  <2>5. CASE UNCHANGED <<vars, history>>
    BY <2>3, <2>5 DEF DriftOf, PendingRequests, vars, history, balancerVars, requestVars,
                      leastVars
  <2> QED
    BY <2>4, <2>5
<1>5. CASE ScanSteps(r)
  <2>1. phase[r] = "loaded"
    BY <1>3, <1>5 DEF ScanSteps, Starts, Goes, Advances, Chooses
  <2>2. ASSUME NEW c, Chooses(r, c) PROVE FALSE
    <3>1. phase' = [phase EXCEPT ![r] = "proxying"]
      BY <2>2 DEF Chooses, Return, Pick
    <3>2. phase'[r] = "proxying"
      BY <3>1 DEF LeastInv, LeastTypes, SliceTypeInv, SliceTypeOK, BalancerTypeOK
    <3> QED
      BY <1>3, <3>2
  <2>3. ASSUME NEW s, Starts(r, s) PROVE FALSE
    <3>1. scan'[r].at = 0
      BY <2>3 DEF Starts, LeastInv, LeastTypes
    <3> QED
      BY <3>1
  <2>4. ASSUME NEW c, NEW m, PendingVisit(r, c, m), Advances(r, c, m)
        PROVE  DriftOf(r, b, l, seen)'
    <3>1. /\ scan'[r].at = scan[r].at + 1 /\ scan'[r].best = c /\ scan'[r].least = m
          /\ scan'[r].offset = scan[r].offset
      BY <2>4, AdvancedScan
    <3>2. scan[r].active /\ snap' = snap
      BY <2>4 DEF Advances, sliceVars
    <3>3. DriftOf(r, c, m, Seen(r, scan[r].at + 1))
      BY <1>3, <2>4, <3>2, DriftAfterVisit
    <3>4. seen = Seen(r, scan[r].at + 1)
      BY <3>1, <3>2 DEF Seen, ServerAt
    <3>5. DriftOf(r, b, l, seen)
      BY <3>1, <3>3, <3>4
    <3>6. CASE HNext
      BY <1>3, <2>1, <3>5, <3>6, DriftKept DEF Choosing
    <3>7. CASE UNCHANGED <<vars, history>>
      BY <3>5, <3>7 DEF DriftOf, PendingRequests, vars, history, balancerVars, requestVars,
                        leastVars
    <3> QED
      BY <3>6, <3>7
  <2> QED
    BY <1>3, <1>5, <2>2, <2>3, <2>4 DEF ScanSteps, Goes
<1> QED
  BY <1>0, <1>4, <1>5, StepOfScan

(* A scan returns only when it has seen the whole slice.                   *)
LEMMA LeastLoadedReturned ==
  ASSUME LeastInv, Drifted, Next, NEW r \in Requests, ~ ByScore, Returns(r)
  PROVE  \A b \in Range(snap[r]) :
            PendingRequests(picked'[r]) <= PendingRequests(b) + drift[r]
<1>0. /\ phase \in [Requests -> {"idle", "loaded", "proxying", "refused"}]
      /\ picked \in [Requests -> Backends \cup {Nil}]
      /\ phase[r] = "loaded" /\ phase'[r] = "proxying"
  BY DEF LeastInv, LeastTypes, SliceTypeInv, SliceTypeOK, BalancerTypeOK, Returns
<1>1. ScanSteps(r)
  BY <1>0, StepOfScan DEF ScanRests
<1>2. ASSUME (\E s : Starts(r, s)) \/ (\E b, l : Advances(r, b, l)) PROVE FALSE
  BY <1>0, <1>2 DEF Starts, Advances, balancerVars, requestVars
<1>3. PICK b, l : PendingVisit(r, b, l) /\ Chooses(r, b) /\ scan[r].at + 1 = Len(snap[r])
  BY <1>1, <1>2 DEF ScanSteps, Goes
<1>4. picked'[r] = b /\ scan[r].active
  BY <1>0, <1>3 DEF Chooses, Return, Pick
<1>5. DriftOf(r, b, l, Seen(r, Len(snap[r])))
  BY <1>3, <1>4, DriftAfterVisit
<1>6. Range(snap[r]) \subseteq Seen(r, Len(snap[r]))
  BY <1>4, SeenProperties
<1> QED
  BY <1>4, <1>5, <1>6 DEF DriftOf

(* The Backend a least-connection scan returns has no more pending         *)
(* requests than any other of its slice, up to one for each that began or  *)
(* ended during the scan: reading the counts one by one costs no more than *)
(* that, for any slice and any number of requests.                         *)
THEOREM ConnectionScanSound == HSpec => LeastLoadedUpToDrift
<1> DEFINE I == LeastInv /\ Drifted
           A == \A r \in Requests : ~ ByScore /\ Returns(r) =>
                  \A b \in Range(snap[r]) :
                     PendingRequests(picked'[r]) <= PendingRequests(b) + drift[r]
<1>1. HInit => I
  BY HistoryInit DEF HInit, Drifted
<1>2. I /\ [HNext]_<<vars, history>> => I'
  <2> SUFFICES ASSUME I, [HNext]_<<vars, history>> PROVE I'
    OBVIOUS
  <2>1. [Next]_vars
    BY DEF HNext
  <2> QED
    BY <2>1, LeastInvStep, DriftedStep
<1>3. I /\ [HNext]_<<vars, history>> => [A]_vars
  <2> SUFFICES ASSUME I, HNext PROVE A
    OBVIOUS
  <2>1. Next
    BY DEF HNext
  <2> QED
    BY <2>1, LeastLoadedReturned
<1> QED
  BY <1>1, <1>2, <1>3, PTL DEF HSpec, LeastLoadedUpToDrift

-----------------------------------------------------------------------------
(* Failures.                                                               *)

(* A score follows the kind of the samples it is blended from.             *)
OutcomesTell ==
  /\ outcomes \in [Backends -> SUBSET {"ok", "failed"}]
  /\ \A b \in Backends :
       /\ IF ByScore THEN outcomes[b] = {} <=> recentResTime[b] = 0 ELSE outcomes[b] = {}
       /\ outcomes[b] = {"failed"} => \A s \in Samples : s < recentResTime[b]
       /\ outcomes[b] = {"ok"} => \E s \in Samples : recentResTime[b] <= s

(* Blending keeps what both values have in common.                         *)
LEMMA SmoothedBounds ==
  ASSUME NEW c \in Nat, NEW m \in Nat \ {0}
  PROVE  /\ Smoothed(c, m) \in Nat \ {0}
         /\ \A s \in Nat : s < m /\ (c = 0 \/ s < c) => s < Smoothed(c, m)
         /\ \A s \in Nat : m <= s /\ c <= s => Smoothed(c, m) <= s
  BY DEF Smoothed

(* The one Backend a request's time is recorded for.                       *)
Records(r, micros) ==
  /\ picked[r] \in Backends /\ Ended(picked[r]) = {progress[r]}
  /\ \/ progress[r] = "ok" /\ micros \in Samples
     \/ progress[r] = "failed" /\ micros \in FailureSamples
  /\ recentResTime' =
       [recentResTime EXCEPT ![picked[r]] = Smoothed(recentResTime[picked[r]], micros)]

(* A score changes when a request ends or its Backend is to rejoin.        *)
LEMMA ScoreMoves ==
  ASSUME LeastInv, [Next]_vars
  PROVE  \/ recentResTime' = recentResTime
         \/ \E r \in Requests, micros \in Nat \ {0} : Records(r, micros)
         \/ \E e \in Backends : recentResTime' = [recentResTime EXCEPT ![e] = 0]
<1>0. progress \in [Requests -> {"start", "sent", "ok", "failed"}]
  BY DEF LeastInv, LeastTypes
<1>1. ASSUME NEW r \in Requests, progress[r] \in {"ok", "failed"}, Finish(r)
      PROVE  picked[r] \in Backends /\ Ended(picked[r]) = {progress[r]}
  <2>1. progress' = [progress EXCEPT ![r] = "start"]
    BY <1>1 DEF Finish
  <2>2. picked[r] \in Backends
    BY <1>1 DEF LeastInv, Scanning
  <2>3. {q \in Requests : /\ picked[q] = picked[r] /\ progress[q] \in {"ok", "failed"}
                          /\ progress'[q] = "start"} = {r}
    BY <1>0, <1>1, <2>1
  <2> QED
    BY <2>2, <2>3 DEF Ended
<1>2. Samples \subseteq Nat \ {0} /\ FailureSamples \subseteq Nat \ {0}
  BY LeastAlgorithmAssumption
<1>3. ASSUME NEW r \in Requests, recordResponseTime(r) \/ recordFailure(r)
      PROVE  \E micros \in Nat \ {0} : Records(r, micros)
  <2>1. progress[r] \in {"ok", "failed"} /\ Finish(r)
    BY <1>3 DEF recordResponseTime, recordFailure
  <2>2. PICK micros \in Nat \ {0} :
          /\ storeRecentResTime(picked[r], micros)
          /\ \/ progress[r] = "ok" /\ micros \in Samples
             \/ progress[r] = "failed" /\ micros \in FailureSamples
    BY <1>2, <1>3 DEF recordResponseTime, recordFailure
  <2> QED
    BY <1>1, <2>1, <2>2 DEF Records, storeRecentResTime
<1>4. ASSUME NEW r \in Requests, Serve(r), ~ recordResponseTime(r), ~ recordFailure(r)
      PROVE  recentResTime' = recentResTime
  <2>1. CASE leastConnectionNext(r) \/ leastResponseTimeNext(r)
    <3>1. ScanSteps(r)
      BY <2>1, ConnectionSteps, ScoreSteps DEF ScanSteps
    <3> QED
      BY <3>1 DEF ScanSteps, StartsAtFirst, Starts, Goes, Advances, Chooses
  <2> QED
    BY <1>4, <2>1 DEF Serve, leastVars, ReverseProxyHandler, Do, Unrecorded
<1>5. CASE ResetRecentResponseTime
  BY <1>5, EntryOfType DEF ResetRecentResponseTime, LeastInv, LeastTypes, SliceTypeInv,
                           SliceTypeOK, BalancerTypeOK
<1>6. CASE \/ healthChecker \/ Stats \/ Shutdown \/ Environment
           \/ (healthCheck /\ ~ ResetRecentResponseTime)
  BY <1>6 DEF healthChecker, Stats, Shutdown, Environment, healthCheck, Rejoin, leastVars
<1>7. CASE UNCHANGED vars
  BY <1>7 DEF vars, leastVars
<1> QED
  BY <1>3, <1>4, <1>5, <1>6, <1>7 DEF Next

(* If no success takes as long as a failure counts, a score tells them     *)
(* apart however the samples follow one another.                           *)
LEMMA OutcomesTellStep ==
  ASSUME \A s \in Samples, f \in FailureSamples : s < f,
         LeastInv, OutcomesTell, [HNext]_<<vars, history>>
  PROVE  OutcomesTell'
<1>0. [Next]_vars /\ (ByScore' <=> ByScore)
  BY DEF HNext, Next, vars, ByScore
<1>1. CASE UNCHANGED <<vars, history>>
  BY <1>1 DEF vars, history, leastVars, OutcomesTell, ByScore
<1>2. CASE HNext
  <2>0. /\ recentResTime \in [Backends -> Nat] /\ recentResTime' \in [Backends -> Nat]
        /\ Samples \subseteq Nat \ {0} /\ FailureSamples \subseteq Nat \ {0}
    BY <1>0, LeastInvStep, LeastAlgorithmAssumption DEF LeastInv, LeastTypes
  <2>1. /\ outcomes' = [b \in Backends |->
             IF ~ ByScore \/ recentResTime'[b] = 0 THEN {} ELSE outcomes[b] \cup Ended(b)]
        /\ \A b : Ended(b) \subseteq {"ok", "failed"}
    BY <1>2 DEF HNext, Ended
  <2>2. outcomes' \in [Backends -> SUBSET {"ok", "failed"}]
    BY <2>1 DEF OutcomesTell
  <2>3. ASSUME NEW b \in Backends
        PROVE  /\ IF ByScore THEN outcomes'[b] = {} <=> recentResTime'[b] = 0
                             ELSE outcomes'[b] = {}
               /\ outcomes'[b] = {"failed"} => \A s \in Samples : s < recentResTime'[b]
               /\ outcomes'[b] = {"ok"} => \E s \in Samples : recentResTime'[b] <= s
    <3>1. CASE ~ ByScore \/ recentResTime'[b] = 0
      BY <2>1, <3>1
    <3>2. CASE ByScore /\ recentResTime'[b] # 0 /\ recentResTime'[b] = recentResTime[b]
      <4>1. outcomes'[b] = outcomes[b] \cup Ended(b) /\ outcomes[b] # {}
        BY <2>1, <3>2 DEF OutcomesTell
      <4>2. outcomes[b] \subseteq {"ok", "failed"}
        BY DEF OutcomesTell
      <4>3. outcomes'[b] # {}
        BY <4>1
      <4>4. outcomes'[b] = {"failed"} => outcomes[b] = {"failed"}
        BY <4>1
      <4>5. outcomes'[b] = {"ok"} => outcomes[b] = {"ok"}
        BY <4>1
      <4> QED
        BY <3>2, <4>3, <4>4, <4>5 DEF OutcomesTell
    <3>3. ASSUME ByScore, recentResTime'[b] # 0, NEW r \in Requests, NEW m \in Nat \ {0},
                 Records(r, m), b = picked[r]
          PROVE  /\ outcomes'[b] # {}
                 /\ outcomes'[b] = {"failed"} => \A s \in Samples : s < recentResTime'[b]
                 /\ outcomes'[b] = {"ok"} => \E s \in Samples : recentResTime'[b] <= s
      <4> DEFINE c == recentResTime[b]
                 t == recentResTime'[b]
      <4>1. c \in Nat /\ t = Smoothed(c, m)
        BY <2>0, <3>3 DEF Records
      <4>2. /\ \A s \in Nat : s < m /\ (c = 0 \/ s < c) => s < t
            /\ \A s \in Nat : m <= s /\ c <= s => t <= s
        BY <4>1, SmoothedBounds
      <4>3. outcomes'[b] = outcomes[b] \cup {progress[r]} /\ outcomes[b] \subseteq {"ok", "failed"}
        BY <2>1, <3>3 DEF Records, OutcomesTell
      <4>4. outcomes[b] = {} <=> c = 0
        BY <3>3 DEF OutcomesTell
      <4>5. ASSUME outcomes'[b] = {"failed"}, NEW s \in Samples
            PROVE  s < t
        <5>1. progress[r] = "failed" /\ (outcomes[b] = {} \/ outcomes[b] = {"failed"})
          BY <4>3, <4>5
        <5>2. m \in FailureSamples /\ s < m /\ s \in Nat
          BY <2>0, <3>3, <5>1 DEF Records
        <5>3. c = 0 \/ s < c
          BY <4>4, <5>1 DEF OutcomesTell
        <5> QED
          BY <4>2, <5>2, <5>3
      <4>6. ASSUME outcomes'[b] = {"ok"}
            PROVE  \E s \in Samples : t <= s
        <5>1. progress[r] = "ok" /\ (outcomes[b] = {} \/ outcomes[b] = {"ok"})
          BY <4>3, <4>6
        <5>2. m \in Samples
          BY <3>3, <5>1 DEF Records
        <5>3. CASE c <= m
          BY <4>2, <5>2, <5>3
        <5>4. CASE ~ (c <= m)
          <6>1. c # 0
            BY <4>1, <5>4
          <6>2. PICK s \in Samples : c <= s
            BY <4>4, <5>1, <6>1 DEF OutcomesTell
          <6>3. s \in Nat /\ m <= s
            BY <2>0, <4>1, <5>4, <6>2
          <6> QED
            BY <4>2, <6>2, <6>3
        <5> QED
          BY <5>3, <5>4
      <4> QED
        BY <4>3, <4>5, <4>6
    <3>4. CASE ByScore /\ recentResTime'[b] # 0 /\ recentResTime'[b] # recentResTime[b]
      <4>1. \E r \in Requests, m \in Nat \ {0} : Records(r, m) /\ b = picked[r]
        BY <1>0, <2>0, <3>4, ScoreMoves DEF Records
      <4> QED
        BY <3>3, <3>4, <4>1
    <3> QED
      BY <3>1, <3>2, <3>4
  <2> QED
    BY <1>0, <2>2, <2>3 DEF OutcomesTell
<1> QED
  BY <1>1, <1>2

(* If no success takes as long as a failure counts (10 s in the code), a   *)
(* Backend that has only failed since it was reset is not returned while   *)
(* one that has only succeeded is in the slice: failing fast does not make *)
(* a Backend attractive.                                                   *)
THEOREM FailuresRepel ==
  ASSUME \A s \in Samples, f \in FailureSamples : s < f
  PROVE  HSpec => FailingNotPreferred
<1> DEFINE I == LeastInv /\ ScoresRead /\ OutcomesTell
           A == \A r \in Requests :
                  Returns(r) /\ ~ stirred[r] /\ outcomes[picked'[r]] = {"failed"} =>
                     \A b \in Range(snap[r]) : outcomes[b] # {"ok"}
<1>1. HInit => I
  <2>1. HInit => OutcomesTell
    BY DEF HInit, NewLeastAlgorithm, OutcomesTell
  <2> QED
    BY <2>1, HistoryInit DEF ScoresRead
<1>2. I /\ [HNext]_<<vars, history>> => I'
  <2> SUFFICES ASSUME I, [HNext]_<<vars, history>> PROVE I'
    OBVIOUS
  <2>1. [Next]_vars
    BY DEF HNext
  <2> QED
    BY <2>1, LeastInvStep, ScoresReadStep, OutcomesTellStep
<1>3. I /\ [HNext]_<<vars, history>> => [A]_<<vars, history>>
  <2> SUFFICES ASSUME I, HNext, NEW r \in Requests, Returns(r), ~ stirred[r],
                      outcomes[picked'[r]] = {"failed"},
                      NEW b \in Range(snap[r]), outcomes[b] = {"ok"}
               PROVE  FALSE
    OBVIOUS
  <2> DEFINE c == picked'[r]
  <2>1. Next /\ [Next]_vars
    BY DEF HNext
  <2>2. c \in Backends
    <3>1. LeastInv'
      BY <2>1, LeastInvStep
    <3> QED
      BY <3>1 DEF LeastInv, Scanning, Returns
  <2>3. b \in Backends
    BY LoadedSlice DEF Returns
  <2>4. ByScore /\ recentResTime[c] # 0
    BY <2>2 DEF OutcomesTell
  <2>5. recentResTime[c] <= recentResTime[b]
    BY <2>1, <2>4, ScoreReturned
  <2>6. PICK s \in Samples : recentResTime[b] <= s
    BY <2>3 DEF OutcomesTell
  <2>7. s < recentResTime[c]
    BY <2>2, <2>6 DEF OutcomesTell
  <2>8. s \in Nat /\ recentResTime[b] \in Nat /\ recentResTime[c] \in Nat
    BY <2>2, <2>3, LeastAlgorithmAssumption DEF LeastInv, LeastTypes
  <2> QED
    BY <2>5, <2>6, <2>7, <2>8
<1> QED
  BY <1>1, <1>2, <1>3, PTL DEF HSpec, FailingNotPreferred

=============================================================================
