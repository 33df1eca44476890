--------------------------- MODULE RotationProofs ---------------------------
(***************************************************************************)
(* For every number of runs, zones, customers and workers, every quota and *)
(* every number of failures: quotas are kept and a ready audience is final.*)
(* Nobody is selected twice in a cycle that nobody joins, and with one pool*)
(* that keeps still the rotation does what RotationCycle promises.         *)
(***************************************************************************)
EXTENDS Rotation, FiniteSetTheorems, TLAPS

-----------------------------------------------------------------------------
(* Ranks and slices. *)

Rank(S, c) == Cardinality({d \in S : d <= c})

(* A rank is a place among the members, and grows with the customer.        *)
LEMMA RankGrows ==
    ASSUME NEW S \in SUBSET Nat, IsFiniteSet(S)
    PROVE  /\ Cardinality(S) \in Nat
           /\ \A c \in S : Rank(S, c) \in 1..Cardinality(S)
           /\ \A c, d \in S : c < d => Rank(S, c) < Rank(S, d)
<1> DEFINE Upto(c) == {d \in S : d <= c}
<1>1. Cardinality(S) \in Nat
    BY FS_CardinalityType
<1>2. \A c \in S : IsFiniteSet(Upto(c)) /\ Cardinality(Upto(c)) \in Nat
                   /\ Cardinality(Upto(c)) <= Cardinality(S)
    <2> TAKE c \in S
    <2>1. Upto(c) \in SUBSET S
        OBVIOUS
    <2> QED
        BY <2>1, FS_Subset, FS_CardinalityType
<1>3. ASSUME NEW c \in S
      PROVE  Cardinality(Upto(c)) # 0
    <2>1. c \in Upto(c)
        OBVIOUS
    <2> HIDE DEF Upto
    <2> QED
        BY <1>2, <2>1, FS_EmptySet
<1>4. ASSUME NEW c \in S, NEW d \in S, c < d
      PROVE  Cardinality(Upto(c)) < Cardinality(Upto(d))
    <2>0. c \in Nat /\ d \in Nat /\ \A x \in S : x \in Nat
        OBVIOUS
    <2>1. Upto(c) \in SUBSET Upto(d) /\ d \in Upto(d) /\ d \notin Upto(c)
        <3>1. ASSUME NEW x \in S, x <= c
              PROVE  x <= d
            BY <1>4, <2>0, <3>1
        <3>2. d <= d /\ ~(d <= c)
            BY <1>4, <2>0
        <3> QED
            BY <3>1, <3>2
    <2> HIDE DEF Upto
    <2>2. Upto(c) # Upto(d)
        BY <2>1
    <2> QED
        BY <1>2, <2>1, <2>2, FS_Subset
<1> QED
    BY <1>1, <1>2, <1>3, <1>4 DEF Rank

(* Every place has its customer: as many places as customers, and no two    *)
(* customers in one.                                                        *)
LEMMA RankOnto ==
    ASSUME NEW S \in SUBSET Nat, IsFiniteSet(S)
    PROVE  [c \in S |-> Rank(S, c)] \in Bijection(S, 1..Cardinality(S))
<1> DEFINE n == Cardinality(S)
           f == [c \in S |-> Rank(S, c)]
<1>1. n \in Nat /\ \A c \in S : Rank(S, c) \in 1..n
    BY RankGrows
<1>2. f \in [S -> 1..n]
    BY <1>1
<1>3. ASSUME NEW c \in S, NEW d \in S, f[c] = f[d]
      PROVE  c = d
    <2>1. c \in Nat /\ d \in Nat /\ Rank(S, c) = Rank(S, d) /\ Rank(S, c) \in Nat
        BY <1>1, <1>3
    <2>2. ~(c < d) /\ ~(d < c)
        BY <2>1, RankGrows
    <2> QED
        BY <2>1, <2>2
<1>4. f \in Injection(S, 1..n)
    BY <1>2, <1>3 DEF Injection, IsInjective
<1>5. IsFiniteSet(1..n) /\ Cardinality(1..n) = n
    BY <1>1, FS_Interval
<1>6. f \in Surjection(S, 1..n)
    BY <1>4, <1>5, FS_Injection
<1> QED
    BY <1>4, <1>6 DEF Bijection

(* Slice with Rank for its name, and where it begins and ends.              *)
LEMMA SliceByRank ==
    ASSUME NEW S, NEW from, NEW n
    PROVE  Slice(S, from, n) = {c \in S : Rank(S, c) > from /\ Rank(S, c) <= from + n}
BY DEF Slice, Rank

Least(m, n) == IF m < n THEN m ELSE n

(* A slice is as long as it was asked for, or goes to the end.              *)
LEMMA SliceSize ==
    ASSUME NEW S \in SUBSET Nat, IsFiniteSet(S), NEW from \in Nat, NEW n \in Nat,
           from <= Cardinality(S)
    PROVE  /\ Slice(S, from, n) \in SUBSET S
           /\ IsFiniteSet(Slice(S, from, n))
           /\ Cardinality(Slice(S, from, n)) = Least(n, Cardinality(S) - from)
<1> DEFINE m == Cardinality(S)
           T == Slice(S, from, n)
           hi == Least(from + n, m)
           f == [c \in S |-> Rank(S, c)]
           g == [c \in T |-> Rank(S, c)]
<1>1. m \in Nat /\ hi \in Nat /\ from <= hi /\ hi <= m
    BY RankGrows DEF Least
<1>2. T \in SUBSET S /\ IsFiniteSet(T)
    BY SliceByRank, FS_Subset
<1>3. \A c \in S : Rank(S, c) \in 1..m
    BY RankGrows
<1>4. \A c \in S : c \in T <=> Rank(S, c) \in (from + 1)..hi
    BY <1>1, <1>3, SliceByRank DEF Least
<1>5. f \in Bijection(S, 1..m)
    BY RankOnto
<1>6. /\ \A c, d \in S : Rank(S, c) = Rank(S, d) => c = d
      /\ \A k \in 1..m : \E c \in S : Rank(S, c) = k
    BY <1>5 DEF Bijection, Injection, IsInjective, Surjection
<1>7. \A k \in (from + 1)..hi : k \in 1..m
    BY <1>1
<1> HIDE DEF T, hi, m
<1>8. g \in [T -> (from + 1)..hi]
    BY <1>2, <1>4
<1>9. g \in Injection(T, (from + 1)..hi)
    BY <1>2, <1>6, <1>8 DEF Injection, IsInjective
<1>10. \A k \in (from + 1)..hi : \E c \in T : g[c] = k
    BY <1>2, <1>4, <1>6, <1>7
<1>11. g \in Surjection(T, (from + 1)..hi)
    BY <1>8, <1>10 DEF Surjection
<1>12. g \in Bijection(T, (from + 1)..hi)
    BY <1>9, <1>11 DEF Bijection
<1>13. Cardinality((from + 1)..hi) = Cardinality(T)
    BY <1>2, <1>12, FS_Bijection DEF ExistsBijection
<1>14. Cardinality((from + 1)..hi) = hi - from
    <2>1. from + 1 \in Int /\ hi \in Int
        BY <1>1
    <2>2. Cardinality((from + 1)..hi) = IF from + 1 > hi THEN 0 ELSE hi - (from + 1) + 1
        BY <2>1, FS_Interval
    <2> QED
        BY <1>1, <2>2
<1> QED
    BY <1>1, <1>2, <1>13, <1>14 DEF T, hi, m, Least

(* It is never longer than it was asked for, wherever it begins.            *)
LEMMA SliceAtMost ==
    ASSUME NEW S \in SUBSET Nat, IsFiniteSet(S), NEW from \in Nat, NEW n \in Nat
    PROVE  Cardinality(Slice(S, from, n)) <= n
<1>1. Cardinality(S) \in Nat
    BY RankGrows
<1>2. CASE from <= Cardinality(S)
    <2>1. Cardinality(Slice(S, from, n)) = Least(n, Cardinality(S) - from)
        BY <1>2, SliceSize
    <2> QED
        BY <1>1, <1>2, <2>1 DEF Least
<1>3. CASE ~(from <= Cardinality(S))
    <2>1. \A c \in S : Rank(S, c) \in Nat /\ Rank(S, c) <= Cardinality(S)
        BY <1>1, RankGrows
    <2>2. \A c \in S : ~(Rank(S, c) > from)
        BY <1>1, <1>3, <2>1
    <2>3. Slice(S, from, n) = {}
        BY <2>2, SliceByRank
    <2> QED
        BY <2>3, FS_EmptySet
<1> QED
    BY <1>2, <1>3

(* One slice after another is one slice.                                    *)
LEMMA SliceJoin ==
    ASSUME NEW S \in SUBSET Nat, IsFiniteSet(S), NEW from \in Nat, NEW n \in Nat,
           from <= Cardinality(S)
    PROVE  /\ Slice(S, 0, Least(from + n, Cardinality(S)))
                = Slice(S, 0, from) \cup Slice(S, from, n)
           /\ Slice(S, 0, from) \cap Slice(S, from, n) = {}
<1>1. Cardinality(S) \in Nat
    BY RankGrows
<1>2. \A c \in S : /\ Rank(S, c) \in Nat /\ Rank(S, c) > 0
                   /\ Rank(S, c) <= Cardinality(S)
    BY <1>1, RankGrows
<1>3. ASSUME NEW c \in S
      PROVE  /\ c \in Slice(S, 0, Least(from + n, Cardinality(S)))
                    <=> Rank(S, c) <= from + n
             /\ c \in Slice(S, 0, from) <=> Rank(S, c) <= from
             /\ c \in Slice(S, from, n) <=> Rank(S, c) > from /\ Rank(S, c) <= from + n
    BY <1>1, <1>2, SliceByRank DEF Least
<1>4. /\ Slice(S, 0, Least(from + n, Cardinality(S))) \subseteq S
      /\ Slice(S, 0, from) \subseteq S /\ Slice(S, from, n) \subseteq S
    BY SliceByRank
<1>5. \A c \in S : Rank(S, c) <= from + n
                      <=> Rank(S, c) <= from \/ (Rank(S, c) > from /\ Rank(S, c) <= from + n)
    BY <1>2
<1>6. \A c \in S : ~(Rank(S, c) <= from /\ Rank(S, c) > from)
    BY <1>2
<1> QED
    BY <1>3, <1>4, <1>5, <1>6

(* The slice that begins a zone anew.                                       *)
LEMMA SliceAnew ==
    ASSUME NEW S \in SUBSET Nat, IsFiniteSet(S), NEW n \in Nat
    PROVE  Slice(S, 0, Least(n, Cardinality(S))) = Slice(S, 0, n)
<1>1. Cardinality(S) \in Nat
    BY RankGrows
<1>2. \A c \in S : Rank(S, c) \in Nat /\ Rank(S, c) <= Cardinality(S)
    BY <1>1, RankGrows
<1>3. \A c \in S : Rank(S, c) <= 0 + Least(n, Cardinality(S)) <=> Rank(S, c) <= 0 + n
    BY <1>1, <1>2 DEF Least
<1> QED
    BY <1>3, SliceByRank

-----------------------------------------------------------------------------
(* Types. *)

(* What the locals of generate_audience are while they are in use.          *)
LocalsOK ==
    \A w \in Workers :
        /\ wpc[w] # "idle" => work[w] \in Runs
        /\ wpc[w] \in {"locking", "locked", "slicing", "committed"} => zone[w] \in Zones

(* A zone of a set of customers is a finite set of customers.               *)
LEMMA ZoneFinite ==
    ASSUME NEW S \in SUBSET Customers, NEW z \in Zones
    PROVE  InZone(S, z) \in SUBSET S /\ InZone(S, z) \in SUBSET Nat
           /\ IsFiniteSet(InZone(S, z)) /\ Cardinality(InZone(S, z)) \in Nat
<1>1. InZone(S, z) \in SUBSET S /\ InZone(S, z) \in SUBSET Customers
    BY DEF InZone
<1>2. IsFiniteSet(InZone(S, z))
    BY <1>1, RotationAssumption, FS_Subset
<1> QED
    BY <1>1, <1>2, RotationAssumption, FS_CardinalityType

(* The customers a rotation chooses from are finitely many. *)
LEMMA EligibleFinite ==
    ASSUME TypeOK, NEW r \in Runs, NEW z \in Zones
    PROVE  Eligible(r, z) \in SUBSET Customers /\ Eligible(r, z) \in SUBSET Nat
           /\ IsFiniteSet(Eligible(r, z)) /\ Cardinality(Eligible(r, z)) \in Nat
BY ZoneFinite DEF Eligible

(* The types hold at the start.                                             *)
LEMMA InitType == Init => TypeOK /\ LocalsOK
BY DEF Init, InZone, TypeOK, LocalsOK, RunStatuses

(* Going back to poll() keeps the types of a worker's locals.               *)
LEMMA QuitType ==
    ASSUME TypeOK, LocalsOK, NEW w \in Workers, Quit(w)
    PROVE  /\ wpc' \in [Workers -> {"idle", "marking", "zones", "locking", "locked",
                                    "slicing", "committed", "done"}]
           /\ work' \in [Workers -> Runs \cup {"none"}]
           /\ todo' \in [Workers -> SUBSET Zones]
           /\ zone' \in [Workers -> Zones \cup {"none"}]
           /\ woff' \in [Workers -> Nat] /\ wtot' \in [Workers -> Nat]
           /\ evicted' \in SUBSET Workers
           /\ LocalsOK'
           /\ \A v \in Workers : wpc'[v] = "slicing" =>
                v # w /\ wpc[v] = "slicing" /\ zone'[v] = zone[v]
BY DEF TypeOK, LocalsOK, Quit, To

(* Every step keeps the types.                                              *)
LEMMA StepType == TypeOK /\ LocalsOK /\ [Next]_vars => TypeOK' /\ LocalsOK'
<1> SUFFICES ASSUME TypeOK, LocalsOK, [Next]_vars
             PROVE  TypeOK' /\ LocalsOK'
    OBVIOUS
<1> USE DEF To
<1>1. ASSUME NEW r \in Runs, CreateRun(r) \/ StartRun(r)
      PROVE  TypeOK' /\ LocalsOK'
    BY <1>1 DEF CreateRun, StartRun, TypeOK, LocalsOK, RunStatuses, queueVars, workerVars,
       histVars, cycleVars
<1>2. ASSUME NEW c \in Customers, ChangePool(c)
      PROVE  TypeOK' /\ LocalsOK'
    BY <1>2 DEF ChangePool, TypeOK, LocalsOK, queueVars, workerVars, cycleVars
<1>3. ASSUME NEW w \in Workers, NEW r \in Runs, Take(w, r)
      PROVE  TypeOK' /\ LocalsOK'
    BY <1>3 DEF Take, TypeOK, LocalsOK, dbVars, queueVars, histVars, cycleVars
<1>4. ASSUME NEW w \in Workers, MarkGenerating(w)
      PROVE  TypeOK' /\ LocalsOK'
    BY <1>4 DEF MarkGenerating, TypeOK, LocalsOK, RunStatuses, queueVars, histVars, cycleVars
<1>5. ASSUME NEW w \in Workers, NEW z \in Zones, SkipZone(w, z) \/ ChooseZone(w, z)
      PROVE  TypeOK' /\ LocalsOK'
    BY <1>5 DEF SkipZone, ChooseZone, TypeOK, LocalsOK, dbVars, queueVars, histVars, cycleVars
<1>6. ASSUME NEW w \in Workers, AcquireLock(w)
      PROVE  TypeOK' /\ LocalsOK'
    BY <1>6 DEF AcquireLock, TypeOK, LocalsOK, dbVars, histVars, cycleVars
<1>7. ASSUME NEW w \in Workers, LockNotAcquired(w)
      PROVE  TypeOK' /\ LocalsOK'
    BY <1>7, QuitType DEF LockNotAcquired, TypeOK, dbVars, histVars, cycleVars
<1>8. ASSUME NEW w \in Workers, ReadOffset(w)
      PROVE  TypeOK' /\ LocalsOK'
    <2>1. work[w] \in Runs /\ zone[w] \in Zones
        BY <1>8 DEF ReadOffset, LocalsOK, TypeOK
    <2>2. offset[zone[w]] \in Nat /\ Cardinality(Eligible(work[w], zone[w])) \in Nat
        BY <2>1, EligibleFinite DEF TypeOK
    <2>3. woff' \in [Workers -> Nat] /\ wtot' \in [Workers -> Nat]
        <3>1. counted'[zone[w]] = Eligible(work[w], zone[w])
            BY <1>8, <2>1 DEF ReadOffset, TypeOK
        <3> QED
            BY <1>8, <2>2, <3>1 DEF ReadOffset, TypeOK
    <2>4. counted' \in [Zones -> SUBSET Customers]
        BY <1>8, <2>1, EligibleFinite DEF ReadOffset, TypeOK
    <2> QED
        BY <1>8, <2>1, <2>3, <2>4, RotationAssumption
        DEF ReadOffset, TypeOK, LocalsOK, queueVars
<1>9. ASSUME NEW w \in Workers, Rotate(w)
      PROVE  TypeOK' /\ LocalsOK'
    <2> DEFINE r == work[w]
               z == zone[w]
               from == IF Wrapped(w) THEN 0 ELSE woff[w]
               new == Slice(Eligible(r, z), from, Quota[r][z])
    <2>1. r \in Runs /\ z \in Zones /\ wpc[w] = "slicing"
        BY <1>9 DEF Rotate, LocalsOK, TypeOK
    <2>2. from \in Nat /\ wtot[w] \in Nat /\ Quota[r][z] \in Nat
        BY <2>1, RotationAssumption DEF TypeOK
    <2>3. new \in SUBSET Customers
        BY <2>1, SliceByRank, EligibleFinite
    <2>4. members' \in [Runs -> SUBSET Customers]
        BY <1>9, <2>1, <2>3 DEF Rotate, TypeOK
    <2>5. offset' \in [Zones -> Nat]
        <3> DEFINE next == from + Quota[r][z]
                   stop == IF next < wtot[w] THEN next ELSE wtot[w]
        <3>1. stop \in Nat
            BY <2>2
        <3>2. offset' = [offset EXCEPT ![z] = stop]
            BY <1>9 DEF Rotate
        <3> HIDE DEF stop
        <3> QED
            BY <3>1, <3>2 DEF TypeOK
    <2>6. picks' \in [Customers -> Nat]
        BY <1>9 DEF Rotate, TypeOK
    <2>7. \A v \in Workers : wpc'[v] = "slicing" => rowLock'[zone'[v]] = v
        BY <1>9, <2>1 DEF Rotate, LocalsOK, TypeOK
    <2>8. rowLock' \in [Zones -> Workers \cup {"free"}]
        BY <1>9 DEF Rotate, TypeOK
    <2>9. /\ wpc' = [wpc EXCEPT ![w] = "committed"]
          /\ woff' = [woff EXCEPT ![w] = 0] /\ wtot' = [wtot EXCEPT ![w] = 0]
          /\ UNCHANGED <<runStatus, snapshot, out, requests, evicted, lock, work, todo, zone,
                         disowned, faults, changes>>
        BY <1>9 DEF Rotate, queueVars
    <2>10. LocalsOK'
        BY <2>1, <2>9 DEF LocalsOK, TypeOK
    <2>11. /\ joined' \in SUBSET Zones
           /\ counted' \in [Zones -> SUBSET Customers] /\ found' \in [Zones -> SUBSET Customers]
        <3>1. Eligible(r, z) \in SUBSET Customers /\ InZone(Customers, z) \in SUBSET Customers
            BY <2>1, EligibleFinite, ZoneFinite
        <3> QED
            BY <1>9, <2>1, <3>1 DEF Rotate, Observe, TypeOK
    <2> HIDE DEF r, z, from, new
    <2> QED
        BY <2>4, <2>5, <2>6, <2>7, <2>8, <2>9, <2>10, <2>11 DEF TypeOK
<1>10. ASSUME NEW w \in Workers, ReleaseLock(w)
       PROVE  TypeOK' /\ LocalsOK'
    BY <1>10 DEF ReleaseLock, TypeOK, LocalsOK, dbVars, histVars, cycleVars
<1>11. ASSUME NEW w \in Workers, FinishRun(w)
       PROVE  TypeOK' /\ LocalsOK'
    <2>1. work[w] \in Runs
        BY <1>11 DEF FinishRun, LocalsOK
    <2>2. members[work[w]] \in SUBSET Customers
        BY <2>1 DEF TypeOK
    <2>3. Cardinality(members[work[w]]) \in Nat
        BY <2>2, RotationAssumption, FS_Subset, FS_CardinalityType
    <2>4. snapshot' \in [Runs -> SUBSET Nat]
        BY <1>11, <2>3 DEF FinishRun, TypeOK
    <2> QED
        BY <1>11, <2>4 DEF FinishRun, TypeOK, LocalsOK, RunStatuses, queueVars,
           histVars, cycleVars
<1>12. ASSUME NEW w \in Workers, CommitEvent(w)
       PROVE  TypeOK' /\ LocalsOK'
    BY <1>12, QuitType DEF CommitEvent, TypeOK, dbVars, histVars, cycleVars
<1>13. CASE OrphanExpires
    BY <1>13 DEF OrphanExpires, TypeOK, LocalsOK, dbVars, workerVars, histVars, cycleVars
<1>14. CASE LockExpires
    BY <1>14 DEF LockExpires, Fault, TypeOK, LocalsOK, dbVars, workerVars, cycleVars
<1>15. ASSUME NEW w \in Workers, Abort(w)
       PROVE  TypeOK' /\ LocalsOK'
    <2>1. Quit(w)
        BY <1>15 DEF Abort
    <2>2. lock' \in Workers \cup {"free", "orphan"}
        BY <1>15 DEF Abort, TypeOK
    <2>3. rowLock' \in [Zones -> Workers \cup {"free"}]
        BY <1>15 DEF Abort, TypeOK
    <2>4. faults' \in Nat
        BY <1>15 DEF Abort, Fault, TypeOK
    <2>5. \A v \in Workers : wpc'[v] = "slicing" => rowLock'[zone'[v]] = v
        BY <1>15, <2>1, QuitType DEF Abort, TypeOK, LocalsOK
    <2> QED
        BY <1>15, <2>1, <2>2, <2>3, <2>4, <2>5, QuitType DEF Abort, TypeOK, cycleVars
<1>16. ASSUME NEW w \in Workers, Evict(w)
       PROVE  TypeOK' /\ LocalsOK'
    BY <1>16 DEF Evict, Fault, TypeOK, LocalsOK, dbVars, workerVars, cycleVars
<1>17. ASSUME NEW r \in Runs, Duplicate(r)
       PROVE  TypeOK' /\ LocalsOK'
    BY <1>17 DEF Duplicate, Fault, TypeOK, LocalsOK, dbVars, workerVars, cycleVars
<1>18. CASE UNCHANGED vars
    BY <1>18 DEF vars, dbVars, queueVars, workerVars, histVars, cycleVars, TypeOK, LocalsOK
<1> QED
    BY <1>1, <1>2, <1>3, <1>4, <1>5, <1>6, <1>7, <1>8, <1>9, <1>10, <1>11, <1>12, <1>13,
       <1>14, <1>15, <1>16, <1>17, <1>18 DEF Next, Worker, Failure

(* Every variable of the rotation keeps its type, and who is about to write *)
(* an offset holds the row it has read it from (rotate_zone).               *)
THEOREM TypeCorrect == Spec => []TypeOK
<1>1. Spec => [](TypeOK /\ LocalsOK)
    BY InitType, StepType, PTL DEF Spec
<1> QED
    BY <1>1, PTL

-----------------------------------------------------------------------------
(* Quotas and finality.  A run whose worker was evicted while at work on it *)
(* may have two workers; of the other runs nothing gets out of order.       *)

Closed == {"READY", "RUNNING"}

(* Who was evicted is at work on a run that is disowned, and only such a    *)
(* run has two workers.                                                     *)
OneWorker ==
    /\ \A w \in evicted : wpc[w] # "idle" /\ work[w] \in disowned
    /\ \A v, w \in Workers :
          v # w /\ wpc[v] # "idle" /\ wpc[w] # "idle" /\ work[v] = work[w] =>
              work[w] \in disowned

(* A closed run has its snapshot and nobody who would still change it; one  *)
(* that is not closed has no snapshot.                                      *)
ClosedIsQuiet ==
    \A r \in Runs \ disowned :
        /\ runStatus[r] \in Closed =>
              /\ snapshot[r] = {Cardinality(members[r])}
              /\ \A w \in Workers : wpc[w] \notin {"idle", "done"} => work[w] # r
        /\ runStatus[r] \notin Closed => snapshot[r] = {}

(* The zone a worker is about to rotate has given the run nobody.           *)
ZoneUntouched ==
    \A w \in Workers :
        wpc[w] \in {"locking", "locked", "slicing"} /\ work[w] \notin disowned =>
            InZone(members[work[w]], zone[w]) = {}

AudienceInv == OneWorker /\ ClosedIsQuiet /\ ZoneUntouched

RotationInv == TypeOK /\ LocalsOK /\ AudienceInv /\ QuotaRespected

(* At the start no run is closed and nobody is at work. *)
LEMMA InitAudience == Init => AudienceInv /\ QuotaRespected
<1> SUFFICES ASSUME Init PROVE AudienceInv /\ QuotaRespected
    OBVIOUS
<1>1. AudienceInv
    BY DEF Init, AudienceInv, OneWorker, ClosedIsQuiet, ZoneUntouched, Closed
<1>2. ASSUME NEW r \in Runs, NEW z \in Zones
      PROVE  Cardinality(InZone(members[r], z)) <= Quota[r][z]
    <2>1. InZone(members[r], z) = {}
        BY DEF Init, InZone
    <2>2. Quota[r][z] \in Nat
        BY RotationAssumption
    <2> QED
        BY <2>1, <2>2, FS_EmptySet
<1> QED
    BY <1>1, <1>2 DEF QuotaRespected

(* A step that leaves the audiences alone keeps the quotas.                 *)
LEMMA SameAudienceKeepsQuota ==
    ASSUME QuotaRespected, members' = members, disowned \subseteq disowned'
    PROVE  QuotaRespected'
BY DEF QuotaRespected, InZone

(* So does one rotation, of a zone that has given the run nobody.           *)
LEMMA RotateKeepsQuota ==
    ASSUME RotationInv, NEW w \in Workers, Rotate(w)
    PROVE  QuotaRespected'
<1> DEFINE p == work[w]
           y == zone[w]
           from == IF Wrapped(w) THEN 0 ELSE woff[w]
           new == Slice(Eligible(p, y), from, Quota[p][y])
<1>1. p \in Runs /\ y \in Zones /\ wpc[w] = "slicing"
    BY DEF Rotate, RotationInv, LocalsOK, TypeOK
<1>2. disowned' = disowned /\ members' = [members EXCEPT ![p] = @ \cup new]
    BY DEF Rotate
<1>3. SUFFICES ASSUME NEW r \in Runs \ disowned, NEW z \in Zones
               PROVE  Cardinality(InZone(members'[r], z)) <= Quota[r][z]
    BY <1>2 DEF QuotaRespected, InZone
<1>4. new \in SUBSET Eligible(p, y)
    BY SliceByRank
<1>5. CASE r = p /\ z = y
    <2>1. InZone(members[p], y) = {}
        BY <1>1, <1>5 DEF RotationInv, AudienceInv, ZoneUntouched
    <2>2. InZone(members'[r], z) = new
        BY <1>1, <1>2, <1>4, <1>5, <2>1 DEF InZone, Eligible, RotationInv, TypeOK
    <2>3. Eligible(p, y) \in SUBSET Nat /\ IsFiniteSet(Eligible(p, y))
        BY <1>1, EligibleFinite DEF RotationInv
    <2>4. from \in Nat /\ Quota[p][y] \in Nat
        BY <1>1, RotationAssumption DEF RotationInv, TypeOK
    <2>5. Cardinality(new) <= Quota[p][y]
        BY <2>3, <2>4, SliceAtMost
    <2> QED
        BY <1>5, <2>2, <2>5
<1>6. CASE ~(r = p /\ z = y)
    <2>1. InZone(members'[r], z) = InZone(members[r], z)
        BY <1>1, <1>2, <1>4, <1>6 DEF InZone, Eligible, RotationInv, TypeOK
    <2> QED
        BY <2>1 DEF RotationInv, QuotaRespected
<1> QED
    BY <1>5, <1>6

(* Every step keeps the order of the audiences.                             *)
LEMMA StepAudience == RotationInv /\ [Next]_vars => AudienceInv'
<1> SUFFICES ASSUME RotationInv, [Next]_vars PROVE AudienceInv'
    OBVIOUS
<1> USE DEF RotationInv, AudienceInv, TypeOK, LocalsOK, OneWorker, ClosedIsQuiet,
            ZoneUntouched, Closed, To
<1>1. ASSUME NEW r \in Runs, CreateRun(r) \/ StartRun(r)
      PROVE  AudienceInv'
    BY <1>1 DEF CreateRun, StartRun, queueVars, workerVars, histVars, InZone
<1>2. ASSUME NEW c \in Customers, ChangePool(c)
      PROVE  AudienceInv'
    BY <1>2 DEF ChangePool, queueVars, workerVars, InZone
<1>3. ASSUME NEW w \in Workers, NEW r \in Runs, Take(w, r)
      PROVE  AudienceInv'
    BY <1>3 DEF Take, dbVars, queueVars, histVars, InZone
<1>4. ASSUME NEW w \in Workers, MarkGenerating(w)
      PROVE  AudienceInv'
    BY <1>4 DEF MarkGenerating, queueVars, histVars, InZone
<1>5. ASSUME NEW w \in Workers, NEW z \in Zones, SkipZone(w, z) \/ ChooseZone(w, z)
      PROVE  AudienceInv'
    BY <1>5 DEF SkipZone, ChooseZone, ZoneProcessed, dbVars, queueVars, histVars, InZone
<1>6. ASSUME NEW w \in Workers, AcquireLock(w)
      PROVE  AudienceInv'
    BY <1>6 DEF AcquireLock, dbVars, histVars, InZone
<1>7. ASSUME NEW w \in Workers, LockNotAcquired(w)
      PROVE  AudienceInv'
    BY <1>7 DEF LockNotAcquired, Quit, dbVars, histVars, InZone
<1>8. ASSUME NEW w \in Workers, ReadOffset(w)
      PROVE  AudienceInv'
    BY <1>8 DEF ReadOffset, queueVars, histVars, InZone
<1>9. ASSUME NEW w \in Workers, Rotate(w)
      PROVE  AudienceInv'
    BY <1>9 DEF Rotate, queueVars, InZone
<1>10. ASSUME NEW w \in Workers, ReleaseLock(w)
       PROVE  AudienceInv'
    BY <1>10 DEF ReleaseLock, dbVars, histVars, InZone
<1>11. ASSUME NEW w \in Workers, FinishRun(w)
       PROVE  AudienceInv'
    BY <1>11 DEF FinishRun, queueVars, histVars, InZone
<1>12. ASSUME NEW w \in Workers, CommitEvent(w)
       PROVE  AudienceInv'
    BY <1>12 DEF CommitEvent, Quit, dbVars, histVars, InZone
<1>13. CASE OrphanExpires
    BY <1>13 DEF OrphanExpires, dbVars, workerVars, histVars, InZone
<1>14. CASE LockExpires
    BY <1>14 DEF LockExpires, Fault, dbVars, workerVars, InZone
<1>15. ASSUME NEW w \in Workers, Abort(w)
       PROVE  AudienceInv'
    BY <1>15 DEF Abort, Quit, Fault, InZone
<1>16. ASSUME NEW w \in Workers, Evict(w)
       PROVE  AudienceInv'
    BY <1>16 DEF Evict, Fault, dbVars, workerVars, InZone
<1>17. ASSUME NEW r \in Runs, Duplicate(r)
       PROVE  AudienceInv'
    BY <1>17 DEF Duplicate, Fault, dbVars, workerVars, InZone
<1>18. CASE UNCHANGED vars
    BY <1>18 DEF vars, dbVars, queueVars, workerVars, histVars, InZone
<1> QED
    BY <1>1, <1>2, <1>3, <1>4, <1>5, <1>6, <1>7, <1>8, <1>9, <1>10, <1>11, <1>12, <1>13,
       <1>14, <1>15, <1>16, <1>17, <1>18 DEF Next, Worker, Failure

(* Every step keeps the quotas.                                             *)
LEMMA StepQuota == RotationInv /\ [Next]_vars => QuotaRespected'
<1> SUFFICES ASSUME RotationInv, [Next]_vars PROVE QuotaRespected'
    OBVIOUS
<1>1. ASSUME NEW w \in Workers, Rotate(w)
      PROVE  QuotaRespected'
    BY <1>1, RotateKeepsQuota
<1>2. CASE ~\E w \in Workers : Rotate(w)
    <2>1. members' = members /\ disowned \subseteq disowned'
        BY <1>2 DEF Next, Worker, Failure, CreateRun, StartRun, ChangePool, Take,
           MarkGenerating, SkipZone, ChooseZone, AcquireLock, LockNotAcquired, ReadOffset,
           ReleaseLock, FinishRun, CommitEvent, OrphanExpires, LockExpires, Abort, Evict,
           Duplicate, vars, dbVars, queueVars, workerVars, histVars, cycleVars
    <2> QED
        BY <2>1, SameAudienceKeepsQuota DEF RotationInv
<1> QED
    BY <1>1, <1>2

(* Types, order and quotas hold together in every state. *)
LEMMA RotationInvariant == Spec => []RotationInv
<1>1. Init => RotationInv
    BY InitType, InitAudience DEF RotationInv
<1>2. RotationInv /\ [Next]_vars => RotationInv'
    BY StepType, StepAudience, StepQuota DEF RotationInv
<1> QED
    BY <1>1, <1>2, PTL DEF Spec

(* No run gets more of a zone than its quota, however often its request is  *)
(* delivered, its workers die and the lock of the base expires              *)
(* (zone_already_processed).                                                *)
THEOREM QuotasKept == Spec => []QuotaRespected
<1>1. RotationInv => QuotaRespected
    BY DEF RotationInv
<1> QED
    BY <1>1, RotationInvariant, PTL

(* What a step may not do to the audience of a closed run.                  *)
LeftAsItIs(r) ==
    r \notin disowned /\ runStatus[r] \in Closed =>
        /\ members'[r] = members[r]
        /\ snapshot[r] = {Cardinality(members[r])}
        /\ runStatus[r] = "RUNNING" => runStatus'[r] = "RUNNING"

(* No step touches the audience of a closed run. *)
LEMMA StepLeavesClosed ==
    RotationInv /\ [Next]_vars => \A r \in Runs : LeftAsItIs(r)
<1> SUFFICES ASSUME RotationInv, [Next]_vars, NEW r \in Runs, r \notin disowned,
                    runStatus[r] \in Closed
             PROVE  /\ members'[r] = members[r]
                    /\ runStatus[r] = "RUNNING" => runStatus'[r] = "RUNNING"
    BY DEF LeftAsItIs, RotationInv, AudienceInv, ClosedIsQuiet
<1>1. \A w \in Workers : wpc[w] \notin {"idle", "done"} => work[w] # r
    BY DEF RotationInv, AudienceInv, ClosedIsQuiet
<1>2. ASSUME NEW w \in Workers, Rotate(w) \/ MarkGenerating(w) \/ FinishRun(w)
      PROVE  members'[r] = members[r] /\ runStatus'[r] = runStatus[r]
    <2>1. work[w] # r
        BY <1>1, <1>2 DEF Rotate, MarkGenerating, FinishRun
    <2> QED
        BY <1>2, <2>1 DEF Rotate, MarkGenerating, FinishRun, RotationInv, TypeOK
<1>3. ASSUME NEW q \in Runs, CreateRun(q) \/ StartRun(q)
      PROVE  /\ members'[r] = members[r]
             /\ runStatus[r] = "RUNNING" => runStatus'[r] = "RUNNING"
    BY <1>3 DEF CreateRun, StartRun, RotationInv, TypeOK
<1>4. CASE /\ ~\E w \in Workers : Rotate(w) \/ MarkGenerating(w) \/ FinishRun(w)
           /\ ~\E q \in Runs : CreateRun(q) \/ StartRun(q)
    <2>1. members' = members /\ runStatus' = runStatus
        BY <1>4 DEF Next, Worker, Failure, ChangePool, Take, SkipZone, ChooseZone, AcquireLock,
           LockNotAcquired, ReadOffset, ReleaseLock, CommitEvent, OrphanExpires, LockExpires,
           Abort, Evict, Duplicate, vars, dbVars, queueVars, workerVars, histVars, cycleVars
    <2> QED
        BY <2>1
<1> QED
    BY <1>2, <1>3, <1>4

(* The audience of a run that is READY or RUNNING is final, and its         *)
(* snapshot counts it, unless a worker was evicted while at work on it      *)
(* (generate_audience).                                                     *)
THEOREM ReadyAudienceIsFinal == Spec => ReadyIsFinal
<1>1. RotationInv /\ [Next]_vars => [\A r \in Runs : LeftAsItIs(r)]_vars
    BY StepLeavesClosed
<1>2. Spec => [][\A r \in Runs : LeftAsItIs(r)]_vars
    BY <1>1, RotationInvariant, PTL DEF Spec
<1>3. (\A r \in Runs : LeftAsItIs(r)) =>
          \A r \in Runs :
             r \notin disowned /\ runStatus[r] \in {"READY", "RUNNING"} =>
                 /\ members'[r] = members[r]
                 /\ snapshot[r] = {Cardinality(members[r])}
                 /\ runStatus[r] = "RUNNING" => runStatus'[r] = "RUNNING"
    BY DEF LeftAsItIs, Closed
<1> QED
    BY <1>2, <1>3, PTL DEF ReadyIsFinal

-----------------------------------------------------------------------------
(* What a cycle gives each customer.  An offset is a number of ranks; the   *)
(* fewer there are to choose from, the lower is the rank of each.           *)

(* Who has fewer to stand among has no higher a rank.                       *)
LEMMA RankShrinks ==
    ASSUME NEW T \in SUBSET Nat, IsFiniteSet(T), NEW S \in SUBSET T, NEW c
    PROVE  Rank(S, c) \in Nat /\ Rank(T, c) \in Nat /\ Rank(S, c) <= Rank(T, c)
<1> DEFINE A == {d \in S : d <= c}
           B == {d \in T : d <= c}
<1>1. A \in SUBSET B /\ B \in SUBSET T
    OBVIOUS
<1>2. IsFiniteSet(B)
    BY <1>1, FS_Subset
<1>3. IsFiniteSet(A) /\ Cardinality(A) <= Cardinality(B)
    BY <1>1, <1>2, FS_Subset
<1>4. Cardinality(A) \in Nat /\ Cardinality(B) \in Nat
    BY <1>2, <1>3, FS_CardinalityType
<1> QED
    BY <1>3, <1>4 DEF Rank

(* A transaction that is open has read the offset that is still there, and  *)
(* its total counts those it has counted.                                   *)
RowRead ==
    \A w \in Workers : wpc[w] = "slicing" =>
        woff[w] = offset[zone[w]] /\ wtot[w] = Cardinality(counted[zone[w]])

(* In a cycle nobody joined, whoever was picked was picked once, and has a  *)
(* rank the offset is past.                                                 *)
PickedByRank ==
    \A c \in Customers : ZoneOf[c] \notin joined =>
        \/ picks[c] = 0
        \/ picks[c] = 1 /\ Rank(found[ZoneOf[c]], c) <= offset[ZoneOf[c]]

(* A step that is no rotation moves no offset and picks nobody; only reading*)
(* the offset leads to a rotation.                                          *)
LEMMA OtherStepsPickNobody ==
    ASSUME RotationInv, [Next]_vars, ~\E w \in Workers : Rotate(w)
    PROVE  /\ offset' = offset /\ picks' = picks /\ members' = members
           /\ found' = found /\ joined' = joined
           /\ \A v \in Workers : wpc'[v] = "slicing" =>
                 \/ /\ wpc[v] = "slicing" /\ zone'[v] = zone[v]
                    /\ woff'[v] = woff[v] /\ wtot'[v] = wtot[v]
                    /\ counted'[zone[v]] = counted[zone[v]]
                 \/ ReadOffset(v)
<1>1. offset' = offset /\ picks' = picks /\ members' = members
      /\ found' = found /\ joined' = joined
    BY DEF Next, Worker, Failure, CreateRun, StartRun, ChangePool, Take, MarkGenerating,
       SkipZone, ChooseZone, AcquireLock, LockNotAcquired, ReadOffset, ReleaseLock, FinishRun,
       CommitEvent, OrphanExpires, LockExpires, Abort, Evict, Duplicate, vars, dbVars,
       queueVars, workerVars, histVars, cycleVars
<1> SUFFICES ASSUME NEW v \in Workers, wpc'[v] = "slicing", ~ReadOffset(v)
             PROVE  /\ wpc[v] = "slicing" /\ zone'[v] = zone[v]
                    /\ woff'[v] = woff[v] /\ wtot'[v] = wtot[v]
                    /\ counted'[zone[v]] = counted[zone[v]]
    BY <1>1
<1> DEFINE Same == /\ wpc[v] = "slicing" /\ zone'[v] = zone[v]
                   /\ woff'[v] = woff[v] /\ wtot'[v] = wtot[v]
                   /\ counted'[zone[v]] = counted[zone[v]]
<1> USE DEF To, RotationInv, TypeOK
<1>2. CASE UNCHANGED workerVars /\ UNCHANGED counted
    BY <1>2 DEF workerVars
<1>3. ASSUME NEW w \in Workers, NEW r \in Runs, Take(w, r)
      PROVE  Same
    BY <1>3 DEF Take, histVars, cycleVars
<1>4. ASSUME NEW w \in Workers, NEW z \in Zones, SkipZone(w, z) \/ ChooseZone(w, z)
      PROVE  Same
    BY <1>4 DEF SkipZone, ChooseZone, histVars, cycleVars
<1>5. ASSUME NEW w \in Workers,
             MarkGenerating(w) \/ AcquireLock(w) \/ ReleaseLock(w) \/ FinishRun(w)
      PROVE  Same
    BY <1>5 DEF MarkGenerating, AcquireLock, ReleaseLock, FinishRun, histVars, cycleVars
<1>6. ASSUME NEW w \in Workers, ReadOffset(w)
      PROVE  Same
    <2>1. w # v /\ wpc[v] = "slicing" /\ zone' = zone
          /\ woff'[v] = woff[v] /\ wtot'[v] = wtot[v]
        BY <1>6 DEF ReadOffset
    <2>2. rowLock[zone[v]] = v /\ rowLock[zone[w]] = "free" /\ v # "free"
        BY <1>6, <2>1, RotationAssumption DEF ReadOffset
    <2>3. counted'[zone[v]] = counted[zone[v]]
        BY <1>6, <2>2 DEF ReadOffset
    <2> QED
        BY <2>1, <2>3
<1>7. ASSUME NEW w \in Workers, LockNotAcquired(w) \/ CommitEvent(w) \/ Abort(w)
      PROVE  Same
    BY <1>7 DEF LockNotAcquired, CommitEvent, Abort, Quit, histVars, cycleVars
<1>8. CASE \/ \E r \in Runs : CreateRun(r) \/ StartRun(r) \/ Duplicate(r)
           \/ \E c \in Customers : ChangePool(c)
           \/ OrphanExpires \/ LockExpires \/ \E w \in Workers : Evict(w)
    BY <1>2, <1>8 DEF CreateRun, StartRun, Duplicate, ChangePool, OrphanExpires, LockExpires,
       Evict, histVars, cycleVars
<1>9. CASE UNCHANGED vars
    BY <1>2, <1>9 DEF vars, histVars, cycleVars
<1> QED
    BY <1>3, <1>4, <1>5, <1>6, <1>7, <1>8, <1>9 DEF Next, Worker, Failure

(* Every step keeps what the open transactions have read.                   *)
LEMMA StepRowRead == RotationInv /\ RowRead /\ [Next]_vars => RowRead'
<1> SUFFICES ASSUME RotationInv, RowRead, [Next]_vars, NEW v \in Workers, wpc'[v] = "slicing"
             PROVE  /\ woff'[v] = offset'[zone'[v]]
                    /\ wtot'[v] = Cardinality(counted'[zone'[v]])
    BY DEF RowRead
<1>1. CASE ReadOffset(v)
    <2>1. work[v] \in Runs /\ zone[v] \in Zones
        BY <1>1 DEF ReadOffset, RotationInv, LocalsOK
    <2> QED
        BY <1>1, <2>1 DEF ReadOffset, RotationInv, TypeOK
<1>2. CASE ~ReadOffset(v) /\ ~\E w \in Workers : Rotate(w)
    <2>1. /\ offset' = offset /\ wpc[v] = "slicing" /\ zone'[v] = zone[v]
          /\ woff'[v] = woff[v] /\ wtot'[v] = wtot[v]
          /\ counted'[zone[v]] = counted[zone[v]]
        BY <1>2, OtherStepsPickNobody
    <2> QED
        BY <2>1 DEF RowRead
<1>3. ASSUME NEW w \in Workers, Rotate(w)
      PROVE  /\ woff'[v] = offset'[zone'[v]]
             /\ wtot'[v] = Cardinality(counted'[zone'[v]])
    <2>1. /\ v # w /\ wpc[v] = "slicing" /\ wpc[w] = "slicing"
          /\ woff'[v] = woff[v] /\ wtot'[v] = wtot[v] /\ zone' = zone
        BY <1>3 DEF Rotate, To, RotationInv, TypeOK
    <2>2. zone[v] # zone[w] /\ zone[v] \in Zones /\ zone[w] \in Zones
        BY <2>1 DEF RotationInv, TypeOK, LocalsOK
    <2>3. offset'[zone[v]] = offset[zone[v]] /\ counted'[zone[v]] = counted[zone[v]]
        BY <1>3, <2>2 DEF Rotate, Observe, RotationInv, TypeOK
    <2> QED
        BY <2>1, <2>3 DEF RowRead
<1> QED
    BY <1>1, <1>2, <1>3

(* What a rotation does in a cycle that stays one nobody joined: it chooses *)
(* from those it has counted, and, unless it begins anew, those are among   *)
(* the ones found before; it leaves the offset past whomever it picks.      *)
LEMMA RotateByRank ==
    ASSUME RotationInv, RowRead, PickedByRank, NEW w \in Workers, Rotate(w),
           NEW c \in Customers, ZoneOf[c] = zone[w], zone[w] \notin joined'
    PROVE  picks'[c] = 0 \/ (picks'[c] = 1 /\ Rank(found'[zone[w]], c) <= offset'[zone[w]])
<1>1. wpc[w] = "slicing" /\ work[w] \in Runs /\ zone[w] \in Zones
    BY DEF Rotate, RotationInv, LocalsOK
<1>a. PICK r \in Runs : r = work[w]
    BY <1>1
<1>b. PICK z \in Zones : z = zone[w]
    BY <1>1
<1> DEFINE q == Quota[r][z]
           from == IF Wrapped(w) THEN 0 ELSE woff[w]
           next == from + q
           pool == Eligible(r, z)
           new == Slice(pool, from, q)
<1>2. q \in Nat /\ woff[w] \in Nat /\ wtot[w] \in Nat /\ from \in Nat
    BY RotationAssumption DEF RotationInv, TypeOK
<1>3. /\ pool \in SUBSET Nat /\ IsFiniteSet(pool) /\ Cardinality(pool) \in Nat
      /\ \A y \in Zones : counted[y] \in SUBSET Nat /\ IsFiniteSet(counted[y])
                          /\ found[y] \in SUBSET Nat /\ IsFiniteSet(found[y])
    <2>1. \A S \in SUBSET Customers : S \in SUBSET Nat /\ IsFiniteSet(S)
        BY RotationAssumption, FS_Subset
    <2>2. \A y \in Zones : counted[y] \in SUBSET Customers /\ found[y] \in SUBSET Customers
        BY DEF RotationInv, TypeOK
    <2> QED
        BY <2>1, <2>2, EligibleFinite DEF RotationInv
<1>4. /\ offset'[z] = IF next < wtot[w] THEN next ELSE wtot[w]
      /\ picks'[c] = (IF Wrapped(w) THEN 0 ELSE picks[c]) + (IF c \in new THEN 1 ELSE 0)
      /\ found'[z] = pool
    BY <1>a, <1>b DEF Rotate, Observe, RotationInv, TypeOK
<1>5. pool \subseteq counted[z] /\ (~Wrapped(w) => z \notin joined /\ counted[z] \subseteq found[z])
    BY <1>a, <1>b DEF Rotate, Observe
<1>6. woff[w] = offset[z] /\ wtot[w] = Cardinality(counted[z])
    BY <1>1, <1>b DEF RowRead
<1>7. Cardinality(pool) <= wtot[w]
    BY <1>3, <1>5, <1>6, FS_Subset
<1>8. c \in new => /\ Rank(pool, c) \in Nat /\ Rank(pool, c) <= Cardinality(pool)
                   /\ Rank(pool, c) > from /\ Rank(pool, c) <= next
    <2>1. c \in new => c \in pool /\ Rank(pool, c) > from /\ Rank(pool, c) <= next
        BY SliceByRank
    <2>2. c \in pool => Rank(pool, c) \in 1..Cardinality(pool)
        BY <1>3, RankGrows
    <2> QED
        BY <1>3, <2>1, <2>2
<1>9. c \in new => Rank(pool, c) <= offset'[z]
    <2> HIDE DEF pool, new, q, from
    <2>1. next \in Nat
        BY <1>2
    <2> HIDE DEF next
    <2> QED
        BY <1>2, <1>3, <1>4, <1>7, <1>8, <2>1
<1> HIDE DEF pool, new
<1>10. CASE Wrapped(w)
    BY <1>4, <1>9, <1>10, <1>b
<1>11. CASE ~Wrapped(w)
    <2>1. from = offset[z] /\ offset[z] \in Nat /\ offset[z] < wtot[w]
        BY <1>2, <1>6, <1>11 DEF Wrapped
    <2>2. offset[z] <= offset'[z]
        BY <1>2, <1>4, <2>1
    <2>3. picks[c] = 0 \/ (picks[c] = 1 /\ Rank(found[z], c) <= offset[z])
        BY <1>5, <1>11, <1>b DEF PickedByRank
    <2>4. Rank(pool, c) \in Nat /\ Rank(found[z], c) \in Nat
          /\ Rank(pool, c) <= Rank(found[z], c)
        <3>1. pool \in SUBSET found[z]
            BY <1>5, <1>11
        <3> QED
            BY <1>3, <3>1, RankShrinks
    <2>5. CASE picks[c] = 0
        BY <1>4, <1>9, <1>11, <1>b, <2>5
    <2>6. CASE picks[c] = 1 /\ Rank(found[z], c) <= offset[z]
        <3>1. Rank(pool, c) <= offset[z]
            BY <2>1, <2>4, <2>6
        <3>2. c \notin new
            BY <1>8, <2>1, <2>4, <3>1
        <3>3. offset'[z] \in Nat
            BY <1>2, <1>4
        <3>4. Rank(pool, c) <= offset'[z]
            BY <2>1, <2>2, <2>4, <3>1, <3>3
        <3> QED
            BY <1>4, <1>11, <1>b, <2>6, <3>2, <3>4
    <2> QED
        BY <2>3, <2>5, <2>6
<1> QED
    BY <1>10, <1>11

(* Every step keeps the picks in keeping with the ranks.                    *)
LEMMA StepPicked == RotationInv /\ RowRead /\ PickedByRank /\ [Next]_vars => PickedByRank'
<1> SUFFICES ASSUME RotationInv, RowRead, PickedByRank, [Next]_vars PROVE PickedByRank'
    OBVIOUS
<1>1. CASE ~\E w \in Workers : Rotate(w)
    <2>1. offset' = offset /\ picks' = picks /\ found' = found /\ joined' = joined
        BY <1>1, OtherStepsPickNobody
    <2> QED
        BY <2>1 DEF PickedByRank, Rank
<1>2. ASSUME NEW w \in Workers, Rotate(w)
      PROVE  PickedByRank'
    <2> SUFFICES ASSUME NEW c \in Customers, ZoneOf[c] \notin joined'
                 PROVE  \/ picks'[c] = 0
                        \/ picks'[c] = 1 /\ Rank(found'[ZoneOf[c]], c) <= offset'[ZoneOf[c]]
        BY DEF PickedByRank, Rank
    <2>1. CASE ZoneOf[c] = zone[w]
        BY <1>2, <2>1, RotateByRank
    <2>2. CASE ZoneOf[c] # zone[w]
        <3>1. ZoneOf[c] \in Zones /\ zone[w] \in Zones /\ work[w] \in Runs
            BY <1>2, RotationAssumption DEF Rotate, RotationInv, LocalsOK
        <3>2. ZoneOf[c] \notin joined /\ found'[ZoneOf[c]] = found[ZoneOf[c]]
              /\ offset'[ZoneOf[c]] = offset[ZoneOf[c]]
            BY <1>2, <2>2, <3>1 DEF Rotate, Observe, RotationInv, TypeOK
        <3>3. picks'[c] = picks[c]
            <4> DEFINE new == Slice(Eligible(work[w], zone[w]),
                                    IF Wrapped(w) THEN 0 ELSE woff[w],
                                    Quota[work[w]][zone[w]])
            <4>1. c \notin new
                BY <2>2, SliceByRank DEF Eligible, InZone
            <4>2. picks'[c] = picks[c] + 0
                BY <1>2, <2>2, <4>1 DEF Rotate
            <4> QED
                BY <4>2 DEF RotationInv, TypeOK
        <3> QED
            BY <3>2, <3>3 DEF PickedByRank
    <2> QED
        BY <2>1, <2>2
<1> QED
    BY <1>1, <1>2

(* In a cycle of a zone that nobody joined, nobody is selected twice,       *)
(* whoever leaves the pool between and during its rotations, whatever       *)
(* workers die and locks expire, and even when a partition is taken from a  *)
(* worker that goes on (rotate_zone).                                       *)
THEOREM NobodySelectedTwice == Spec => []NoDoubleSelect
<1>1. Init => RowRead /\ PickedByRank
    BY DEF Init, RowRead, PickedByRank
<1>2. RotationInv /\ RowRead /\ PickedByRank /\ [Next]_vars => RowRead' /\ PickedByRank'
    BY StepRowRead, StepPicked
<1>3. RotationInv /\ PickedByRank => NoDoubleSelect
    BY DEF PickedByRank, NoDoubleSelect
<1> QED
    BY <1>1, <1>2, <1>3, RotationInvariant, PTL DEF Spec

-----------------------------------------------------------------------------
(* One cycle after another.  The exclusions of the campaigns bar the same   *)
(* customers and no customer comes or goes: then an offset stands for the   *)
(* customers ranked up to it.                                               *)

StandingStill ==
    /\ MaxChanges = 0
    /\ \A p, q \in Runs : Barred[p] = Barred[q]

CyclePool(z) == {c \in InZone(Customers, z) : \A r \in Runs : c \notin Barred[r]}

Used(z) == Slice(CyclePool(z), 0, offset[z])

(* No offset is past the end of its pool, and a transaction that is open has*)
(* read the offset that is still there.                                     *)
CycleInv ==
    /\ out = {}
    /\ \A z \in Zones : offset[z] <= Cardinality(CyclePool(z))
    /\ \A w \in Workers : wpc[w] = "slicing" =>
          woff[w] = offset[zone[w]] /\ wtot[w] = Cardinality(CyclePool(zone[w]))

(* A pool is a finite set of customers. *)
LEMMA PoolFinite ==
    ASSUME NEW z \in Zones
    PROVE  /\ CyclePool(z) \in SUBSET Customers /\ CyclePool(z) \in SUBSET Nat
           /\ IsFiniteSet(CyclePool(z)) /\ Cardinality(CyclePool(z)) \in Nat
<1>1. CyclePool(z) \in SUBSET Customers
    BY DEF CyclePool, InZone
<1>2. IsFiniteSet(CyclePool(z))
    BY <1>1, RotationAssumption, FS_Subset
<1> QED
    BY <1>1, <1>2, RotationAssumption, FS_CardinalityType

(* What a rotation chooses from is the pool. *)
LEMMA PoolIsEligible ==
    ASSUME StandingStill, out = {}, NEW r \in Runs, NEW z \in Zones
    PROVE  Eligible(r, z) = CyclePool(z)
BY DEF StandingStill, Eligible, CyclePool, InZone

(* At the start every offset is at its beginning.                          *)
LEMMA InitCycle == StandingStill /\ Init => CycleInv
<1> SUFFICES ASSUME StandingStill, Init PROVE CycleInv
    OBVIOUS
<1>1. ASSUME NEW z \in Zones
      PROVE  offset[z] <= Cardinality(CyclePool(z))
    BY PoolFinite DEF Init
<1> QED
    BY <1>1 DEF Init, CycleInv

(* What one rotation does to a zone of the cycle: it goes on behind those   *)
(* that are used, or, when all are, begins anew.                            *)
GoesOn(w, r, z, T) ==
    /\ r = work[w] /\ z = zone[w]
    /\ members' = [members EXCEPT ![r] = @ \cup T]
    /\ offset'[z] <= Cardinality(CyclePool(z))
    /\ \A y \in Zones \ {z} : offset'[y] = offset[y]
    /\ \/ /\ offset[z] < Cardinality(CyclePool(z))
          /\ T \cap Used(z) = {}
          /\ Used(z)' = Used(z) \cup T
          /\ Cardinality(T) = Least(Quota[r][z], Cardinality(CyclePool(z)) - offset[z])
       \/ /\ offset[z] = Cardinality(CyclePool(z))
          /\ Used(z)' = T
          /\ Cardinality(T) = Least(Quota[r][z], Cardinality(CyclePool(z)))

(* A rotation does just that.                                               *)
LEMMA RotateGoesOn ==
    ASSUME StandingStill, RotationInv, CycleInv, NEW w \in Workers, Rotate(w)
    PROVE  \E r \in Runs, z \in Zones : \E T \in SUBSET CyclePool(z) : GoesOn(w, r, z, T)
<1>1. wpc[w] = "slicing" /\ work[w] \in Runs /\ zone[w] \in Zones
    BY DEF Rotate, RotationInv, LocalsOK
<1>a. PICK r \in Runs : r = work[w]
    BY <1>1
<1>b. PICK z \in Zones : z = zone[w]
    BY <1>1
<1> DEFINE P == CyclePool(z)
           q == Quota[r][z]
           from == IF Wrapped(w) THEN 0 ELSE woff[w]
           T == Slice(P, from, q)
<1>2. P \in SUBSET Nat /\ IsFiniteSet(P) /\ Cardinality(P) \in Nat /\ q \in Nat
    BY PoolFinite, RotationAssumption
<1>3. Eligible(r, z) = P
    BY PoolIsEligible DEF CycleInv
<1>4. woff[w] = offset[z] /\ wtot[w] = Cardinality(P) /\ offset[z] \in Nat
      /\ offset[z] <= Cardinality(P)
    BY <1>1, <1>b DEF CycleInv, RotationInv, TypeOK
<1>5. /\ members' = [members EXCEPT ![r] = @ \cup T]
      /\ offset' = [offset EXCEPT ![z] = Least(from + q, Cardinality(P))]
    BY <1>3, <1>4, <1>a, <1>b DEF Rotate, Least
<1>6. T \in SUBSET P
    BY SliceByRank
<1>7. /\ offset'[z] = Least(from + q, Cardinality(P))
      /\ \A y \in Zones \ {z} : offset'[y] = offset[y]
    BY <1>5 DEF RotationInv, TypeOK
<1>8. Used(z)' = Slice(P, 0, Least(from + q, Cardinality(P)))
    BY <1>7 DEF Used
<1> HIDE DEF P, q, T, from
<1> WITNESS r \in Runs, z \in Zones
<1>9. CASE Wrapped(w)
    <2>1. from = 0 /\ offset[z] = Cardinality(P)
        BY <1>2, <1>4, <1>9 DEF Wrapped, from
    <2>2. Used(z)' = T
        BY <1>2, <1>8, <2>1, SliceAnew DEF T
    <2>3. Cardinality(T) = Least(q, Cardinality(P))
        BY <1>2, <2>1, SliceSize DEF T
    <2>4. offset'[z] <= Cardinality(P)
        BY <1>2, <1>7, <2>1 DEF Least
    <2>5. T \in SUBSET CyclePool(z)
        BY <1>6 DEF P
    <2> WITNESS T \in SUBSET CyclePool(z)
    <2> QED
        BY <1>a, <1>b, <1>5, <1>7, <2>1, <2>2, <2>3, <2>4 DEF GoesOn, P, q
<1>10. CASE ~Wrapped(w)
    <2>1. from = offset[z] /\ offset[z] < Cardinality(P)
        BY <1>2, <1>4, <1>10 DEF Wrapped, from
    <2>2. Used(z)' = Used(z) \cup T /\ T \cap Used(z) = {}
        BY <1>2, <1>4, <1>8, <2>1, SliceJoin DEF T, Used, P
    <2>3. Cardinality(T) = Least(q, Cardinality(P) - offset[z])
        BY <1>2, <1>4, <2>1, SliceSize DEF T
    <2>4. offset'[z] <= Cardinality(P)
        BY <1>2, <1>4, <1>7, <2>1 DEF Least
    <2>5. T \in SUBSET CyclePool(z)
        BY <1>6 DEF P
    <2> WITNESS T \in SUBSET CyclePool(z)
    <2> QED
        BY <1>a, <1>b, <1>5, <1>7, <2>1, <2>2, <2>3, <2>4 DEF GoesOn, P, q
<1> QED
    BY <1>9, <1>10

(* A pool that stands still does.                                           *)
LEMMA NobodyComesOrGoes ==
    ASSUME StandingStill, RotationInv, [Next]_vars
    PROVE  out' = out
<1>1. ~\E c \in Customers : ChangePool(c)
    BY DEF ChangePool, StandingStill, RotationInv, TypeOK
<1> QED
    BY <1>1 DEF Next, Worker, Failure, CreateRun, StartRun, Take, MarkGenerating, SkipZone,
       ChooseZone, AcquireLock, LockNotAcquired, ReadOffset, Rotate, ReleaseLock, FinishRun,
       CommitEvent, OrphanExpires, LockExpires, Abort, Evict, Duplicate, vars, dbVars,
       queueVars, workerVars, histVars

(* Every step keeps the offsets in keeping with the pool.                   *)
LEMMA StepCycle == StandingStill /\ RotationInv /\ CycleInv /\ [Next]_vars => CycleInv'
<1> SUFFICES ASSUME StandingStill, RotationInv, CycleInv, [Next]_vars PROVE CycleInv'
    OBVIOUS
<1>1. \A z \in Zones : CyclePool(z) = CyclePool(z)' /\ Cardinality(CyclePool(z)) \in Nat
    BY PoolFinite DEF CyclePool, InZone
<1>2. out' = {}
    BY NobodyComesOrGoes DEF CycleInv
<1>3. CASE ~\E w \in Workers : Rotate(w)
    <2>1. offset' = offset
        BY <1>3, OtherStepsPickNobody
    <2>2. ASSUME NEW v \in Workers, wpc'[v] = "slicing"
          PROVE  woff'[v] = offset'[zone'[v]] /\ wtot'[v] = Cardinality(CyclePool(zone'[v]))
        <3>1. CASE ReadOffset(v)
            <4>1. work[v] \in Runs /\ zone[v] \in Zones
                BY <3>1 DEF ReadOffset, RotationInv, LocalsOK
            <4>2. Eligible(work[v], zone[v]) = CyclePool(zone[v])
                BY <4>1, PoolIsEligible DEF CycleInv
            <4> QED
                BY <2>1, <3>1, <4>1, <4>2 DEF ReadOffset, RotationInv, TypeOK
        <3>2. CASE /\ wpc[v] = "slicing" /\ zone'[v] = zone[v]
                   /\ woff'[v] = woff[v] /\ wtot'[v] = wtot[v]
            BY <2>1, <3>2 DEF CycleInv
        <3> QED
            BY <1>3, <2>2, <3>1, <3>2, OtherStepsPickNobody
    <2>3. \A w \in Workers : wpc'[w] = "slicing" => zone'[w] \in Zones
        BY StepType DEF LocalsOK, RotationInv
    <2> QED
        BY <1>1, <1>2, <2>1, <2>2, <2>3 DEF CycleInv
<1>4. ASSUME NEW w \in Workers, Rotate(w)
      PROVE  CycleInv'
    <2>0. PICK r \in Runs, z \in Zones : \E T \in SUBSET CyclePool(z) : GoesOn(w, r, z, T)
        BY <1>4, RotateGoesOn
    <2>1. PICK T \in SUBSET CyclePool(z) : GoesOn(w, r, z, T)
        BY <2>0
    <2>2. \A y \in Zones : offset'[y] <= Cardinality(CyclePool(y))
        BY <2>1 DEF CycleInv, GoesOn
    <2>3. ASSUME NEW v \in Workers, wpc'[v] = "slicing"
          PROVE  woff'[v] = offset'[zone'[v]] /\ wtot'[v] = Cardinality(CyclePool(zone'[v]))
        <3>1. /\ v # w /\ wpc[v] = "slicing" /\ wpc[w] = "slicing"
              /\ woff'[v] = woff[v] /\ wtot'[v] = wtot[v] /\ zone' = zone
            BY <1>4, <2>3 DEF Rotate, To, RotationInv, TypeOK
        <3>2. zone[v] # z /\ zone[v] \in Zones
            BY <2>1, <3>1 DEF RotationInv, TypeOK, LocalsOK, GoesOn
        <3> QED
            BY <2>1, <3>1, <3>2 DEF CycleInv, GoesOn
    <2>4. \A v \in Workers : wpc'[v] = "slicing" => zone'[v] \in Zones
        BY StepType DEF LocalsOK, RotationInv
    <2> QED
        BY <1>1, <1>2, <2>2, <2>3, <2>4 DEF CycleInv
<1> QED
    BY <1>3, <1>4

(* With a pool that keeps still, no offset is past its end.                 *)
LEMMA CycleInvariant ==
    ASSUME StandingStill
    PROVE  Spec => [](RotationInv /\ CycleInv)
<1>1. Init => CycleInv
    BY InitCycle
<1>2. RotationInv /\ CycleInv /\ [Next]_vars => CycleInv'
    BY StepCycle
<1> QED
    BY <1>1, <1>2, RotationInvariant, PTL DEF Spec

-----------------------------------------------------------------------------
(* Every step is a step of RotationCycle, or changes nothing it knows.      *)

OneStandingPool ==
    /\ MaxChanges = 0
    /\ \A r \in Runs : Barred[r] = {}
    /\ "evict" \notin Faults

(* What can give a run anybody of a zone has given it somebody.             *)
Given(r, z) == CyclePool(z) = {} \/ Quota[r][z] = 0 \/ InZone(members[r], z) # {}

(* A worker strikes off its list the zones that have given.                 *)
StruckOffHaveGiven ==
    /\ disowned = {}
    /\ \A w \in Workers :
          /\ wpc[w] \in {"zones", "locking", "locked", "slicing", "committed"} =>
                \A z \in Zones \ todo[w] : Given(work[w], z)
          /\ wpc[w] = "committed" => Given(work[w], zone[w])

RefinementInv == RotationInv /\ CycleInv /\ StruckOffHaveGiven

(* Without exclusions the pool is all of the zone. *)
LEMMA PoolIsStanding ==
    ASSUME OneStandingPool
    PROVE  /\ StandingStill
           /\ \A z \in Zones : CyclePool(z) = InZone(Customers, z)
                               /\ StandingPool[z] = CyclePool(z)
BY DEF OneStandingPool, StandingStill, CyclePool, InZone, StandingPool

(* Audiences only grow.                                                     *)
LEMMA MembersGrow ==
    ASSUME RotationInv, [Next]_vars
    PROVE  \A r \in Runs : members[r] \subseteq members'[r]
<1>1. ASSUME NEW w \in Workers, Rotate(w)
      PROVE  \A r \in Runs : members[r] \subseteq members'[r]
    BY <1>1 DEF Rotate, RotationInv, TypeOK
<1>2. CASE ~\E w \in Workers : Rotate(w)
    <2>1. members' = members
        BY <1>2 DEF Next, Worker, Failure, CreateRun, StartRun, ChangePool, Take,
           MarkGenerating, SkipZone, ChooseZone, AcquireLock, LockNotAcquired, ReadOffset,
           ReleaseLock, FinishRun, CommitEvent, OrphanExpires, LockExpires, Abort, Evict,
           Duplicate, vars, dbVars, queueVars, workerVars, histVars, cycleVars
    <2> QED
        BY <2>1
<1> QED
    BY <1>1, <1>2

(* A rotation gives the run somebody, if the zone has anybody and the quota *)
(* is not zero.                                                             *)
LEMMA RotateGives ==
    ASSUME OneStandingPool, RefinementInv, NEW w \in Workers, Rotate(w)
    PROVE  Given(work[w], zone[w])'
<1>0. StandingStill /\ RotationInv /\ CycleInv
    BY PoolIsStanding DEF RefinementInv
<1>1. PICK r \in Runs, z \in Zones : \E T \in SUBSET CyclePool(z) : GoesOn(w, r, z, T)
    BY <1>0, RotateGoesOn
<1>2. PICK T \in SUBSET CyclePool(z) : GoesOn(w, r, z, T)
    BY <1>1
<1>3. r = work'[w] /\ z = zone'[w]
    BY <1>2 DEF GoesOn, Rotate
<1> SUFFICES ASSUME CyclePool(z) # {}, Quota[r][z] # 0
             PROVE  InZone(members'[r], z) # {}
    BY <1>3 DEF Given, CyclePool, InZone
<1>4. Cardinality(CyclePool(z)) \in Nat \ {0} /\ Quota[r][z] \in Nat \ {0} /\ offset[z] \in Nat
    BY PoolFinite, FS_EmptySet, RotationAssumption DEF RefinementInv, RotationInv, TypeOK
<1>5. Cardinality(T) # 0
    BY <1>2, <1>4 DEF GoesOn, Least
<1>6. T # {}
    BY <1>5, FS_EmptySet
<1>7. T \subseteq members'[r]
    BY <1>2 DEF GoesOn, RefinementInv, RotationInv, TypeOK
<1> QED
    BY <1>2, <1>6, <1>7 DEF InZone, CyclePool

(* Every step keeps the lists of the workers in keeping with what was       *)
(* given.                                                                   *)
LEMMA StepStruckOff ==
    OneStandingPool /\ RefinementInv /\ [Next]_vars => StruckOffHaveGiven'
<1> SUFFICES ASSUME OneStandingPool, RefinementInv, [Next]_vars PROVE StruckOffHaveGiven'
    OBVIOUS
<1> DEFINE GivenAfter(r, z) ==
             CyclePool(z) = {} \/ Quota[r][z] = 0 \/ InZone(members'[r], z) # {}
<1>1. ASSUME NEW r \in Runs, NEW z \in Zones, Given(r, z)
      PROVE  GivenAfter(r, z)
    BY <1>1, MembersGrow DEF Given, CyclePool, InZone, RefinementInv
<1>2. disowned' = {} /\ ~\E w \in Workers : Evict(w)
    <2>1. ~\E w \in Workers : Evict(w)
        BY DEF OneStandingPool, Evict, Fault
    <2>2. ASSUME NEW w \in Workers, Worker(w) PROVE disowned' = disowned
        BY <2>2 DEF Worker, Take, MarkGenerating, SkipZone, ChooseZone, AcquireLock,
           LockNotAcquired, ReadOffset, Rotate, ReleaseLock, FinishRun, CommitEvent, histVars
    <2>3. CASE \/ \E r \in Runs : CreateRun(r) \/ StartRun(r)
               \/ \E c \in Customers : ChangePool(c)
               \/ OrphanExpires \/ Failure \/ UNCHANGED vars
        <3> QED
            BY <2>1, <2>3 DEF RefinementInv, StruckOffHaveGiven, Failure, CreateRun, StartRun,
               ChangePool, OrphanExpires, LockExpires, Abort, Duplicate, vars, histVars
    <2> QED
        BY <2>1, <2>2, <2>3 DEF RefinementInv, StruckOffHaveGiven, Next
<1> DEFINE Looping == {"zones", "locking", "locked", "slicing", "committed"}
           Good(v) == /\ \A z \in Zones \ todo'[v] : GivenAfter(work'[v], z)
                      /\ wpc'[v] = "committed" => GivenAfter(work'[v], zone'[v])
<1> SUFFICES ASSUME NEW v \in Workers, wpc'[v] \in Looping PROVE Good(v)
    BY <1>2 DEF StruckOffHaveGiven, Given, CyclePool, InZone
<1> HIDE DEF GivenAfter
<1>3. ASSUME wpc[v] \in Looping, work'[v] = work[v], todo'[v] = todo[v],
             wpc'[v] = "committed" => wpc[v] = "committed" /\ zone'[v] = zone[v]
      PROVE  Good(v)
    <2>1. work[v] \in Runs /\ (wpc[v] = "committed" => zone[v] \in Zones)
        BY <1>3 DEF RefinementInv, RotationInv, LocalsOK
    <2> QED
        BY <1>1, <1>3, <2>1 DEF RefinementInv, StruckOffHaveGiven
<1> USE DEF To, RefinementInv, RotationInv, TypeOK
<1>4. CASE wpc' = wpc /\ work' = work /\ todo' = todo /\ zone' = zone
    BY <1>3, <1>4
<1>5. ASSUME NEW w \in Workers, NEW r \in Runs, Take(w, r)
      PROVE  Good(v)
    BY <1>3, <1>5 DEF Take
<1>6. ASSUME NEW w \in Workers, MarkGenerating(w)
      PROVE  Good(v)
    <2>1. CASE w = v
        BY <1>6, <2>1 DEF MarkGenerating
    <2>2. CASE w # v
        BY <1>3, <1>6, <2>2 DEF MarkGenerating
    <2> QED
        BY <2>1, <2>2
<1>7. ASSUME NEW w \in Workers, NEW y \in Zones, SkipZone(w, y)
      PROVE  Good(v)
    <2>1. CASE w = v
        <3>1. /\ wpc[v] = "zones" /\ wpc'[v] = "zones" /\ work'[v] = work[v]
              /\ todo'[v] = todo[v] \ {y} /\ work[v] \in Runs
            BY <1>7, <2>1 DEF SkipZone, LocalsOK
        <3>2. Given(work[v], y)
            BY <1>7, <2>1 DEF SkipZone, ZoneProcessed, Given
        <3>3. \A z \in Zones \ todo[v] : Given(work[v], z)
            BY <3>1 DEF StruckOffHaveGiven
        <3>4. \A z \in Zones \ todo'[v] : Given(work[v], z)
            BY <3>1, <3>2, <3>3
        <3> QED
            BY <1>1, <3>1, <3>4
    <2>2. CASE w # v
        BY <1>3, <1>7, <2>2 DEF SkipZone
    <2> QED
        BY <2>1, <2>2
<1>8. ASSUME NEW w \in Workers, NEW y \in Zones, ChooseZone(w, y)
      PROVE  Good(v)
    BY <1>3, <1>8 DEF ChooseZone
<1>9. ASSUME NEW w \in Workers, AcquireLock(w) \/ FinishRun(w) \/ ReadOffset(w)
      PROVE  Good(v)
    BY <1>3, <1>9 DEF AcquireLock, FinishRun, ReadOffset
<1>10. ASSUME NEW w \in Workers, LockNotAcquired(w) \/ CommitEvent(w) \/ Abort(w)
       PROVE  Good(v)
    BY <1>3, <1>10 DEF LockNotAcquired, CommitEvent, Abort, Quit
<1>11. ASSUME NEW w \in Workers, Rotate(w)
       PROVE  Good(v)
    <2>1. CASE w = v
        <3>1. GivenAfter(work'[v], zone'[v])
            BY <1>11, <2>1, RotateGives DEF Given, GivenAfter, CyclePool, InZone
        <3>2. /\ wpc[v] = "slicing" /\ work[v] \in Runs
              /\ work' = work /\ todo' = todo /\ zone' = zone
            BY <1>11, <2>1 DEF Rotate, LocalsOK
        <3>3. \A z \in Zones \ todo[v] : Given(work[v], z)
            BY <3>2 DEF StruckOffHaveGiven
        <3> QED
            BY <1>1, <3>1, <3>2, <3>3
    <2>2. CASE w # v
        BY <1>3, <1>11, <2>2 DEF Rotate
    <2> QED
        BY <2>1, <2>2
<1>12. ASSUME NEW w \in Workers, ReleaseLock(w)
       PROVE  Good(v)
    <2>1. CASE w = v
        <3>1. /\ wpc[v] = "committed" /\ wpc'[v] = "zones" /\ work'[v] = work[v]
              /\ todo'[v] = todo[v] \ {zone[v]} /\ work[v] \in Runs /\ zone[v] \in Zones
            BY <1>12, <2>1 DEF ReleaseLock, LocalsOK
        <3>2. Given(work[v], zone[v]) /\ \A z \in Zones \ todo[v] : Given(work[v], z)
            BY <3>1 DEF StruckOffHaveGiven
        <3>3. \A z \in Zones \ todo'[v] : Given(work[v], z)
            BY <3>1, <3>2
        <3> QED
            BY <1>1, <3>1, <3>3
    <2>2. CASE w # v
        BY <1>3, <1>12, <2>2 DEF ReleaseLock
    <2> QED
        BY <2>1, <2>2
<1>13. CASE \/ \E r \in Runs : CreateRun(r) \/ StartRun(r) \/ Duplicate(r)
            \/ \E c \in Customers : ChangePool(c)
            \/ OrphanExpires \/ LockExpires \/ UNCHANGED vars
    BY <1>4, <1>13 DEF CreateRun, StartRun, Duplicate, ChangePool, OrphanExpires, LockExpires,
       vars, workerVars
<1> QED
    BY <1>2, <1>5, <1>6, <1>7, <1>8, <1>9, <1>10, <1>11, <1>12, <1>13 DEF Next, Worker, Failure

(* What the refinement needs of every state. *)
LEMMA RefinementInvariant ==
    ASSUME OneStandingPool
    PROVE  Spec => []RefinementInv
<1>1. Init => StruckOffHaveGiven
    BY DEF Init, StruckOffHaveGiven
<1>2. RefinementInv /\ [Next]_vars => StruckOffHaveGiven'
    BY StepStruckOff
<1>3. Spec => [](RotationInv /\ CycleInv)
    BY CycleInvariant, PoolIsStanding
<1> QED
    BY <1>1, <1>2, <1>3, PTL DEF Spec, RefinementInv

(* The state RotationCycle sees.                                            *)
AudienceStatus == [r \in Runs |-> IF runStatus[r] \in {"READY", "RUNNING"}
                                  THEN runStatus[r] ELSE "OPEN"]

UsedUp == [z \in Zones |-> Slice(StandingPool[z], 0, offset[z])]

(* RotationCycle counts as Rotation does.                                   *)
LEMMA CycleCounts ==
    ASSUME NEW S
    PROVE  Cycle!Cardinality(S) = Cardinality(S)
BY DEF Cycle!Cardinality, Cardinality

(* The rotation begins where RotationCycle does. *)
LEMMA InitRefines == OneStandingPool /\ Init => Cycle!Init
<1> SUFFICES ASSUME OneStandingPool, Init PROVE Cycle!Init
    OBVIOUS
<1>1. AudienceStatus = [r \in Runs |-> "OPEN"] /\ members = [r \in Runs |-> {}]
    BY DEF Init, AudienceStatus
<1>2. ASSUME NEW z \in Zones
      PROVE  UsedUp[z] = {}
    <2>1. offset[z] = 0 /\ StandingPool[z] = CyclePool(z)
        BY PoolIsStanding DEF Init
    <2>2. \A c \in CyclePool(z) : ~(Rank(CyclePool(z), c) > 0 /\ Rank(CyclePool(z), c) <= 0 + 0)
        BY PoolFinite, RankGrows
    <2>3. Slice(CyclePool(z), 0, 0) = {}
        BY <2>2, SliceByRank
    <2> QED
        BY <2>1, <2>3 DEF UsedUp
<1>3. UsedUp = [z \in Zones |-> {}]
    BY <1>2 DEF UsedUp
<1> QED
    BY <1>1, <1>3 DEF Cycle!Init, AudienceStatus, UsedUp

(* A rotation is a selection.                                               *)
LEMMA RotateSelects ==
    ASSUME OneStandingPool, RefinementInv, NEW w \in Workers, Rotate(w)
    PROVE  \E r \in Runs, z \in Zones : Cycle!Select(r, z)
<1>0. StandingStill /\ RotationInv /\ CycleInv
    BY PoolIsStanding DEF RefinementInv
<1>1. PICK r \in Runs, z \in Zones : \E T \in SUBSET CyclePool(z) : GoesOn(w, r, z, T)
    BY <1>0, RotateGoesOn
<1>2. PICK T \in SUBSET CyclePool(z) : GoesOn(w, r, z, T)
    BY <1>1
<1> DEFINE P == CyclePool(z)
<1>a. /\ r = work[w] /\ z = zone[w]
      /\ members' = [members EXCEPT ![r] = @ \cup T]
      /\ \A y \in Zones \ {z} : offset'[y] = offset[y]
      /\ \/ /\ offset[z] < Cardinality(P)
            /\ T \cap Used(z) = {}
            /\ Used(z)' = Used(z) \cup T
            /\ Cardinality(T) = Least(Quota[r][z], Cardinality(P) - offset[z])
         \/ /\ offset[z] = Cardinality(P)
            /\ Used(z)' = T
            /\ Cardinality(T) = Least(Quota[r][z], Cardinality(P))
    BY <1>2 DEF GoesOn
<1>3. P = StandingPool[z] /\ P = InZone(Customers, z) /\ \A y \in Zones : StandingPool[y] = CyclePool(y)
    BY PoolIsStanding
<1>4. IsFiniteSet(P) /\ Cardinality(P) \in Nat /\ P \in SUBSET Nat
      /\ offset[z] \in Nat /\ offset[z] <= Cardinality(P)
    BY PoolFinite DEF RefinementInv, RotationInv, CycleInv, TypeOK
<1>5. UsedUp[z] = Used(z) /\ UsedUp[z]' = Used(z)'
    BY <1>3 DEF UsedUp, Used, CyclePool, StandingPool, InZone
<1>6. \A y \in Zones \ {z} : UsedUp[y]' = UsedUp[y]
    BY <1>a, <1>3 DEF UsedUp, StandingPool, InZone
<1>7. UsedUp' = [UsedUp EXCEPT ![z] = Used(z)']
    BY <1>5, <1>6 DEF UsedUp
<1>8. AudienceStatus[r] = "OPEN" /\ AudienceStatus' = AudienceStatus
    <2>1. runStatus' = runStatus /\ wpc[w] = "slicing" /\ r \notin disowned
        BY DEF Rotate, RefinementInv, StruckOffHaveGiven
    <2>2. runStatus[r] \notin Closed
        BY <1>a, <2>1 DEF RefinementInv, RotationInv, AudienceInv, ClosedIsQuiet
    <2> QED
        BY <2>1, <2>2 DEF AudienceStatus, Closed
<1>9. members[r] \cap StandingPool[z] = {}
    <2>1. wpc[w] = "slicing" /\ r \notin disowned
        BY DEF Rotate, RefinementInv, StruckOffHaveGiven
    <2>2. InZone(members[r], z) = {}
        BY <1>a, <2>1 DEF RefinementInv, RotationInv, AudienceInv, ZoneUntouched
    <2> QED
        BY <1>3, <2>2 DEF InZone
<1>10. /\ Used(z) \in SUBSET P /\ IsFiniteSet(Used(z)) /\ Cardinality(Used(z)) = offset[z]
    <2>1. /\ Used(z) \in SUBSET P /\ IsFiniteSet(Used(z))
          /\ Cardinality(Used(z)) = Least(offset[z], Cardinality(P) - 0)
        BY <1>4, SliceSize DEF Used
    <2> QED
        BY <1>4, <2>1 DEF Least
<1>11. T \in SUBSET P
    BY <1>2
<1> HIDE DEF P
<1>12. CASE /\ offset[z] < Cardinality(P)
            /\ T \cap Used(z) = {}
            /\ Used(z)' = Used(z) \cup T
            /\ Cardinality(T) = Least(Quota[r][z], Cardinality(P) - offset[z])
    <2>1. Cardinality(P \ Used(z)) = Cardinality(P) - offset[z]
        <3>1. P \cap Used(z) = Used(z)
            BY <1>10
        <3>2. Cardinality(P \ Used(z)) = Cardinality(P) - Cardinality(P \cap Used(z))
            BY <1>4, FS_Difference
        <3> QED
            BY <1>10, <3>1, <3>2
    <2>2. P \ Used(z) # {}
        <3>1. Cardinality(P \ Used(z)) # 0
            BY <1>4, <1>12, <2>1
        <3> QED
            BY <3>1, FS_EmptySet
    <2>3. T \in Cycle!Slices(P \ Used(z), Quota[r][z])
        <3>1. T \in SUBSET (P \ Used(z))
            BY <1>12, <1>11
        <3> QED
            BY <1>12, <2>1, <3>1, CycleCounts DEF Cycle!Slices, Least
    <2>4. /\ members' = [members EXCEPT ![r] = @ \cup T]
          /\ UsedUp' = [UsedUp EXCEPT ![z] = @ \cup T]
        BY <1>a, <1>5, <1>7, <1>12
    <2>5. Cycle!Select(r, z)
        BY <1>3, <1>5, <1>8, <1>9, <2>2, <2>3, <2>4
        DEF Cycle!Select, AudienceStatus, UsedUp
    <2> QED
        BY <2>5
<1>13. CASE /\ offset[z] = Cardinality(P)
            /\ Used(z)' = T
            /\ Cardinality(T) = Least(Quota[r][z], Cardinality(P))
    <2>1. P \subseteq Used(z)
        BY <1>4, <1>10, <1>13, FS_Subset
    <2>2. T \in Cycle!Slices(P, Quota[r][z])
        BY <1>11, <1>13, CycleCounts DEF Cycle!Slices, Least
    <2>3. /\ members' = [members EXCEPT ![r] = @ \cup T]
          /\ UsedUp' = [UsedUp EXCEPT ![z] = T]
        BY <1>a, <1>7, <1>13
    <2>4. Cycle!Select(r, z)
        BY <1>3, <1>5, <1>8, <1>9, <2>1, <2>2, <2>3
        DEF Cycle!Select, AudienceStatus, UsedUp
    <2> QED
        BY <2>4
<1> QED
    BY <1>a, <1>12, <1>13 DEF P

(* Finishing a run closes it.                                               *)
LEMMA FinishCloses ==
    ASSUME OneStandingPool, RefinementInv, NEW w \in Workers, FinishRun(w)
    PROVE  \E r \in Runs : Cycle!Close(r)
<1>1. wpc[w] = "zones" /\ todo[w] = {} /\ work[w] \in Runs
    BY DEF FinishRun, RefinementInv, RotationInv, LocalsOK
<1>2. PICK r \in Runs : r = work[w]
    BY <1>1
<1>3. runStatus[r] \notin Closed
    BY <1>1, <1>2 DEF RefinementInv, StruckOffHaveGiven, RotationInv, AudienceInv, ClosedIsQuiet
<1>4. AudienceStatus[r] = "OPEN"
    BY <1>3 DEF AudienceStatus, Closed
<1>5. AudienceStatus' = [AudienceStatus EXCEPT ![r] = "READY"]
    BY <1>2 DEF FinishRun, AudienceStatus, RefinementInv, RotationInv, TypeOK
<1>6. ASSUME NEW z \in Zones, StandingPool[z] # {}, Quota[r][z] > 0
      PROVE  members[r] \cap StandingPool[z] # {}
    <2>1. Given(r, z)
        BY <1>1, <1>2 DEF RefinementInv, StruckOffHaveGiven
    <2>2. Quota[r][z] # 0
        BY <1>6, RotationAssumption
    <2>3. InZone(members[r], z) # {}
        BY <1>6, <2>1, <2>2, PoolIsStanding DEF Given
    <2>4. members[r] \in SUBSET Customers
        BY DEF RefinementInv, RotationInv, TypeOK
    <2> QED
        BY <2>3, <2>4 DEF InZone, StandingPool
<1>7. UNCHANGED <<members, UsedUp>>
    BY DEF FinishRun, UsedUp, StandingPool, InZone
<1>8. Cycle!Close(r)
    BY <1>4, <1>5, <1>6, <1>7 DEF Cycle!Close, AudienceStatus, UsedUp
<1> QED
    BY <1>8

(* Every step is a step of RotationCycle or changes nothing it knows. *)
LEMMA StepRefines ==
    OneStandingPool /\ RefinementInv /\ [Next]_vars => [Cycle!Next]_(Cycle!vars)
<1> SUFFICES ASSUME OneStandingPool, RefinementInv, [Next]_vars
             PROVE  [Cycle!Next]_(Cycle!vars)
    OBVIOUS
<1>1. ASSUME members' = members, offset' = offset, AudienceStatus' = AudienceStatus
      PROVE  UNCHANGED Cycle!vars
    BY <1>1 DEF Cycle!vars, AudienceStatus, StandingPool, InZone, Slice
<1>2. ASSUME NEW w \in Workers, Rotate(w)
      PROVE  Cycle!Next
    BY <1>2, RotateSelects DEF Cycle!Next
<1>3. ASSUME NEW w \in Workers, FinishRun(w)
      PROVE  Cycle!Next
    BY <1>3, FinishCloses DEF Cycle!Next
<1>4. ASSUME NEW r \in Runs, StartRun(r)
      PROVE  Cycle!Next
    <2>1. AudienceStatus[r] = "READY" /\ AudienceStatus' = [AudienceStatus EXCEPT ![r] = "RUNNING"]
        BY <1>4 DEF StartRun, AudienceStatus, RefinementInv, RotationInv, TypeOK
    <2>2. UNCHANGED <<members, UsedUp>>
        BY <1>4 DEF StartRun, UsedUp, StandingPool, InZone
    <2>3. Cycle!Start(r)
        BY <2>1, <2>2 DEF Cycle!Start, AudienceStatus, UsedUp
    <2> QED
        BY <2>3 DEF Cycle!Next
<1>5. ASSUME NEW r \in Runs, CreateRun(r)
      PROVE  UNCHANGED Cycle!vars
    <2>1. AudienceStatus' = AudienceStatus
        BY <1>5 DEF CreateRun, AudienceStatus, RefinementInv, RotationInv, TypeOK
    <2> QED
        BY <1>1, <1>5, <2>1 DEF CreateRun
<1>6. ASSUME NEW w \in Workers, MarkGenerating(w)
      PROVE  UNCHANGED Cycle!vars
    <2>1. work[w] \in Runs /\ runStatus[work[w]] \notin Closed
        BY <1>6 DEF MarkGenerating, RefinementInv, StruckOffHaveGiven, RotationInv, AudienceInv,
           ClosedIsQuiet, LocalsOK
    <2>2. AudienceStatus' = AudienceStatus
        BY <1>6, <2>1 DEF MarkGenerating, AudienceStatus, Closed, RefinementInv, RotationInv, TypeOK
    <2> QED
        BY <1>1, <1>6, <2>2 DEF MarkGenerating
<1>7. CASE /\ ~\E w \in Workers : Rotate(w) \/ FinishRun(w) \/ MarkGenerating(w)
           /\ ~\E r \in Runs : StartRun(r) \/ CreateRun(r)
    <2>1. members' = members /\ offset' = offset /\ runStatus' = runStatus
        BY <1>7 DEF Next, Worker, Failure, ChangePool, Take, SkipZone, ChooseZone, AcquireLock,
           LockNotAcquired, ReadOffset, ReleaseLock, CommitEvent, OrphanExpires, LockExpires,
           Abort, Evict, Duplicate, vars, dbVars, queueVars, workerVars, histVars, cycleVars
    <2>2. AudienceStatus' = AudienceStatus
        BY <2>1 DEF AudienceStatus
    <2> QED
        BY <1>1, <2>1, <2>2
<1> QED
    BY <1>2, <1>3, <1>4, <1>5, <1>6, <1>7

(* With one pool for all runs that keeps still, and no partition taken from *)
(* a worker that goes on, the rotation does what RotationCycle promises:    *)
(* every run takes of each zone the size of its quota from those not used   *)
(* since the zone last began anew, and a zone begins anew only when all are *)
(* used (generate_audience, rotate_zone).                                   *)
THEOREM RotationImplementsCycle ==
    ASSUME OneStandingPool
    PROVE  Spec => ImplementsCycle
<1>1. Init => Cycle!Init
    BY InitRefines
<1>2. RefinementInv /\ [Next]_vars => [Cycle!Next]_(Cycle!vars)
    BY StepRefines
<1> QED
    BY <1>1, <1>2, RefinementInvariant, PTL DEF Spec, ImplementsCycle, Cycle!Spec
=============================================================================
