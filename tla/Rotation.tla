------------------------------ MODULE Rotation ------------------------------
(***************************************************************************)
(* The generation of the audiences of runs that share a base: the audience *)
(* workers, the rotation of each zone of the base, the Redis lock of the   *)
(* base and the row lock of rotation_state.                                *)
(*                                                                         *)
(* The statements of a transaction of rotate_zone that other processes can *)
(* tell apart are two actions, the locked read of the offset with the      *)
(* count, and the insert of the slice with the new offset; READ COMMITTED  *)
(* lets the pool of eligible customers change in between.  cycle_number    *)
(* and total_eligible_at_cycle_start are written and never read: they are  *)
(* left out.  Customers are numbers, in the order of their MSISDNs.        *)
(***************************************************************************)
EXTENDS Naturals, FiniteSets

CONSTANTS
    Runs,        \* runs whose campaigns use the base
    Zones,       \* zones the campaigns have allocations for
    Customers,   \* members of the current version of the base
    ZoneOf,      \* base_members.territory
    Quota,       \* what _resolve_zone_quotas yields for each run and zone
    Barred,      \* customers the exclusions of a run's campaign bar
    Workers,     \* replicas of worker-audience
    Faults,      \* what may go wrong, a subset of FaultKinds
    \* Bounds of a run of the checker:
    MaxFaults,   \* failures altogether
    MaxChanges   \* changes of DND or subscription state

FaultKinds == {"abort", "expiry", "evict", "duplicate"}

ASSUME RotationAssumption ==
    /\ Customers \subseteq Nat /\ IsFiniteSet(Customers)
    /\ ZoneOf \in [Customers -> Zones]
    /\ Quota \in [Runs -> [Zones -> Nat]]
    /\ Barred \in [Runs -> SUBSET Customers]
    /\ Faults \subseteq FaultKinds
    /\ MaxFaults \in Nat /\ MaxChanges \in Nat
    /\ Workers \cap {"free", "orphan"} = {}

RunStatuses == {"ABSENT", "PENDING", "AUDIENCE_GENERATING", "READY", "RUNNING"}

VARIABLES
    (* Postgres *)
    runStatus,   \* campaign_runs.status
    members,     \* audience_members of each run
    snapshot,    \* total_candidates of the rows of audience_snapshots of each run
    offset,      \* rotation_state.last_offset of each zone of the base
    rowLock,     \* the worker whose transaction holds that row
    out,         \* customers on DND, subscribed or cooling down at present
    (* Kafka and Redis *)
    requests,    \* runs whose audience.generate_requested is not consumed for good
    evicted,     \* workers that have lost their partition and do not know
    lock,        \* the holder of campaign:lock:rotation:{base_id}
    (* worker-audience *)
    wpc, work, todo, zone, woff, wtot,
    (* observation and bounds *)
    picks,       \* selections of each customer since its zone last began anew
    counted,     \* whom the transaction that holds the row of a zone has counted
    found,       \* whom the last rotation of each zone found to choose from
    joined,      \* zones in whose cycle somebody was found who had not been before
    disowned,    \* runs whose worker was evicted while at work on them
    faults, changes

dbVars == <<runStatus, members, snapshot, offset, rowLock, out>>
queueVars == <<requests, evicted, lock>>
workerVars == <<wpc, work, todo, zone, woff, wtot>>
cycleVars == <<picks, counted, found, joined>>
histVars == <<cycleVars, disowned, faults, changes>>
vars == <<dbVars, queueVars, workerVars, histVars>>

InZone(S, z) == {c \in S : ZoneOf[c] = z}

Init ==
    /\ runStatus = [r \in Runs |-> "ABSENT"]
    /\ members = [r \in Runs |-> {}]
    /\ snapshot = [r \in Runs |-> {}]
    /\ offset = [z \in Zones |-> 0]
    /\ rowLock = [z \in Zones |-> "free"]
    /\ out = {}
    /\ requests = {}
    /\ evicted = {}
    /\ lock = "free"
    /\ wpc = [w \in Workers |-> "idle"]
    /\ work = [w \in Workers |-> "none"]
    /\ todo = [w \in Workers |-> {}]
    /\ zone = [w \in Workers |-> "none"]
    /\ woff = [w \in Workers |-> 0]
    /\ wtot = [w \in Workers |-> 0]
    /\ picks = [c \in Customers |-> 0]
    /\ counted = [z \in Zones |-> InZone(Customers, z)]
    /\ found = counted /\ joined = {}
    /\ disowned = {}
    /\ faults = 0 /\ changes = 0

Fault(kind) ==
    /\ kind \in Faults
    /\ faults < MaxFaults
    /\ faults' = faults + 1

-----------------------------------------------------------------------------
(* Operators and the world. *)

CreateRun(r) ==
    /\ runStatus[r] = "ABSENT"
    /\ runStatus' = [runStatus EXCEPT ![r] = "PENDING"]
    /\ requests' = requests \cup {r}
    /\ UNCHANGED <<members, snapshot, offset, rowLock, out, evicted, lock,
                   workerVars, histVars>>

StartRun(r) ==
    /\ runStatus[r] = "READY"
    /\ runStatus' = [runStatus EXCEPT ![r] = "RUNNING"]
    /\ UNCHANGED <<members, snapshot, offset, rowLock, out, queueVars, workerVars, histVars>>

(* A DND list is committed, a subscription begins or ends, a cooldown ends. *)
ChangePool(c) ==
    /\ changes < MaxChanges
    /\ changes' = changes + 1
    /\ out' = IF c \in out THEN out \ {c} ELSE out \cup {c}
    /\ UNCHANGED <<runStatus, members, snapshot, offset, rowLock, queueVars, workerVars,
                   cycleVars, disowned, faults>>

-----------------------------------------------------------------------------
(* generate_audience, as the loop of audience_worker calls it. *)

To(w, pc) == wpc' = [wpc EXCEPT ![w] = pc]

(* The loop goes back to poll(); the locals of generate_audience are gone.  *)
Quit(w) ==
    /\ To(w, "idle")
    /\ evicted' = evicted \ {w}
    /\ work' = [work EXCEPT ![w] = "none"]
    /\ todo' = [todo EXCEPT ![w] = {}]
    /\ zone' = [zone EXCEPT ![w] = "none"]
    /\ woff' = [woff EXCEPT ![w] = 0]
    /\ wtot' = [wtot EXCEPT ![w] = 0]

(* Variant: a repeated request taken for a new one. *)
TakeWhateverStatus(w, r) ==
    /\ wpc[w] = "idle"
    /\ r \in requests
    /\ \A v \in Workers \ evicted : wpc[v] # "idle" => work[v] # r
    /\ work' = [work EXCEPT ![w] = r]
    /\ To(w, "marking")
    /\ UNCHANGED <<dbVars, queueVars, todo, zone, woff, wtot, histVars>>

(* The consumer group gives the event of a run to one worker at a time; a   *)
(* run that is past AUDIENCE_GENERATING is skipped.                         *)
Take(w, r) ==
    /\ wpc[w] = "idle"
    /\ r \in requests
    /\ \A v \in Workers \ evicted : wpc[v] # "idle" => work[v] # r
    /\ work' = [work EXCEPT ![w] = r]
    /\ IF runStatus[r] \in {"PENDING", "AUDIENCE_GENERATING"}
       THEN To(w, "marking") ELSE To(w, "done")
    /\ UNCHANGED <<dbVars, queueVars, todo, zone, woff, wtot, histVars>>

MarkGenerating(w) ==
    /\ wpc[w] = "marking"
    /\ runStatus' = [runStatus EXCEPT ![work[w]] = "AUDIENCE_GENERATING"]
    /\ todo' = [todo EXCEPT ![w] = Zones]
    /\ To(w, "zones")
    /\ UNCHANGED <<members, snapshot, offset, rowLock, out, queueVars, work, zone,
                   woff, wtot, histVars>>

(* Variant: a retry that rotates every zone again. *)
NeverProcessed(r, z) == FALSE

ZoneProcessed(r, z) == InZone(members[r], z) # {}

SkipZone(w, z) ==
    /\ wpc[w] = "zones"
    /\ z \in todo[w]
    /\ ZoneProcessed(work[w], z)
    /\ todo' = [todo EXCEPT ![w] = @ \ {z}]
    /\ UNCHANGED <<dbVars, queueVars, wpc, work, zone, woff, wtot, histVars>>

ChooseZone(w, z) ==
    /\ wpc[w] = "zones"
    /\ z \in todo[w]
    /\ ~ZoneProcessed(work[w], z)
    /\ zone' = [zone EXCEPT ![w] = z]
    /\ To(w, "locking")
    /\ UNCHANGED <<dbVars, queueVars, work, todo, woff, wtot, histVars>>

AcquireLock(w) ==
    /\ wpc[w] = "locking"
    /\ lock = "free"
    /\ lock' = w
    /\ To(w, "locked")
    /\ UNCHANGED <<dbVars, requests, evicted, work, todo, zone, woff, wtot, histVars>>

(* Variant: a busy lock taken for a request that is being served. *)
LockBusyMeansDone(w) ==
    /\ wpc[w] = "locking"
    /\ lock # "free"
    /\ To(w, "done")
    /\ UNCHANGED <<dbVars, queueVars, work, todo, zone, woff, wtot, histVars>>

(* LockNotAcquired: rollback and seek, the event will be taken again. *)
LockNotAcquired(w) ==
    /\ wpc[w] = "locking"
    /\ lock # "free"
    /\ Quit(w)
    /\ UNCHANGED <<dbVars, requests, lock, histVars>>

Eligible(r, z) == InZone(Customers \ (out \cup Barred[r]), z)

(* Variant: the offset read without FOR UPDATE. *)
ReadOffsetUnlocked(w) ==
    /\ wpc[w] = "locked"
    /\ woff' = [woff EXCEPT ![w] = offset[zone[w]]]
    /\ wtot' = [wtot EXCEPT ![w] = Cardinality(Eligible(work[w], zone[w]))]
    /\ To(w, "slicing")
    /\ UNCHANGED <<dbVars, queueVars, work, todo, zone, histVars>>

ReadOffset(w) ==
    /\ wpc[w] = "locked"
    /\ rowLock[zone[w]] = "free"
    /\ rowLock' = [rowLock EXCEPT ![zone[w]] = w]
    /\ woff' = [woff EXCEPT ![w] = offset[zone[w]]]
    /\ counted' = [counted EXCEPT ![zone[w]] = Eligible(work[w], zone[w])]
    /\ wtot' = [wtot EXCEPT ![w] = Cardinality(counted'[zone[w]])]
    /\ To(w, "slicing")
    /\ UNCHANGED <<runStatus, members, snapshot, offset, out, queueVars, work, todo,
                   zone, picks, found, joined, disowned, faults, changes>>

(* The members of S ranked after from and up to from + n. *)
Slice(S, from, n) ==
    {c \in S : LET rn == Cardinality({d \in S : d <= c})
               IN  rn > from /\ rn <= from + n}

(* Variant: a wrap taken one customer late. *)
WrappedLate(w) == woff[w] > wtot[w]

Wrapped(w) == woff[w] >= wtot[w]

(* The transaction of a rotation looks at its pool twice, when it counts and *)
(* when it chooses; a cycle begins with the count of the one that wraps.    *)
Observe(w, pool) ==
    LET z == zone[w]
        grown == \/ ~Wrapped(w) /\ (z \in joined \/ ~(counted[z] \subseteq found[z]))
                 \/ ~(pool \subseteq counted[z])
    IN  /\ joined' = IF grown THEN joined \cup {z} ELSE joined \ {z}
        /\ found' = [found EXCEPT ![z] = pool]
        /\ counted' = [counted EXCEPT ![z] = InZone(Customers, z)]

Rotate(w) ==
    LET r == work[w]
        z == zone[w]
        from == IF Wrapped(w) THEN 0 ELSE woff[w]
        pool == Eligible(r, z)
        new == Slice(pool, from, Quota[r][z])
        next == from + Quota[r][z]
    IN  /\ wpc[w] = "slicing"
        /\ members' = [members EXCEPT ![r] = @ \cup new]
        /\ offset' = [offset EXCEPT ![z] = IF next < wtot[w] THEN next ELSE wtot[w]]
        /\ rowLock' = [rowLock EXCEPT ![z] = "free"]
        /\ picks' = [c \in Customers |->
                        (IF Wrapped(w) /\ ZoneOf[c] = z THEN 0 ELSE picks[c])
                        + (IF c \in new THEN 1 ELSE 0)]
        /\ Observe(w, pool)
        /\ To(w, "committed")
        /\ woff' = [woff EXCEPT ![w] = 0]
        /\ wtot' = [wtot EXCEPT ![w] = 0]
        /\ UNCHANGED <<runStatus, snapshot, out, queueVars, work, todo, zone,
                       disowned, faults, changes>>

(* Leaving distributed_lock: compare and delete. *)
ReleaseLock(w) ==
    /\ wpc[w] = "committed"
    /\ lock' = IF lock = w THEN "free" ELSE lock
    /\ todo' = [todo EXCEPT ![w] = @ \ {zone[w]}]
    /\ zone' = [zone EXCEPT ![w] = "none"]
    /\ To(w, "zones")
    /\ UNCHANGED <<dbVars, requests, evicted, work, woff, wtot, histVars>>

FinishRun(w) ==
    /\ wpc[w] = "zones"
    /\ todo[w] = {}
    /\ snapshot' = [snapshot EXCEPT ![work[w]] =
                        IF @ = {} THEN {Cardinality(members[work[w]])} ELSE @]
    /\ runStatus' = [runStatus EXCEPT ![work[w]] = "READY"]
    /\ To(w, "done")
    /\ UNCHANGED <<members, offset, rowLock, out, queueVars, work, todo, zone, woff, wtot,
                   histVars>>

(* The offset of an evicted worker is no longer its own to commit. *)
CommitEvent(w) ==
    /\ wpc[w] = "done"
    /\ requests' = IF w \in evicted THEN requests ELSE requests \ {work[w]}
    /\ Quit(w)
    /\ UNCHANGED <<dbVars, lock, histVars>>

-----------------------------------------------------------------------------
(* What may go wrong. *)

(* An exception rolls back and releases the lock on the way out; a death    *)
(* rolls back and leaves the lock to its TTL.  The event is taken again.    *)
Abort(w) ==
    /\ wpc[w] # "idle"
    /\ Fault("abort")
    /\ lock' \in (IF lock = w THEN {"free", "orphan"} ELSE {lock})
    /\ rowLock' = [z \in Zones |-> IF rowLock[z] = w THEN "free" ELSE rowLock[z]]
    /\ Quit(w)
    /\ UNCHANGED <<runStatus, members, snapshot, offset, out, requests, cycleVars, disowned,
                   changes>>

OrphanExpires ==
    /\ lock = "orphan"
    /\ lock' = "free"
    /\ UNCHANGED <<dbVars, requests, evicted, workerVars, histVars>>

(* A rotation that takes longer than ttl_seconds. *)
LockExpires ==
    /\ lock \in Workers
    /\ Fault("expiry")
    /\ lock' = "free"
    /\ UNCHANGED <<dbVars, requests, evicted, workerVars, cycleVars, disowned, changes>>

(* The group takes the partition of a worker that is cut off or too slow. *)
Evict(w) ==
    /\ wpc[w] # "idle"
    /\ w \notin evicted
    /\ Fault("evict")
    /\ evicted' = evicted \cup {w}
    /\ disowned' = disowned \cup {work[w]}
    /\ UNCHANGED <<dbVars, requests, lock, workerVars, cycleVars, changes>>

(* The relay publishes a request twice. *)
Duplicate(r) ==
    /\ runStatus[r] # "ABSENT"
    /\ r \notin requests
    /\ Fault("duplicate")
    /\ requests' = requests \cup {r}
    /\ UNCHANGED <<dbVars, evicted, lock, workerVars, cycleVars, disowned, changes>>

-----------------------------------------------------------------------------
Worker(w) ==
    \/ \E r \in Runs : Take(w, r)
    \/ MarkGenerating(w)
    \/ \E z \in Zones : SkipZone(w, z) \/ ChooseZone(w, z)
    \/ AcquireLock(w) \/ LockNotAcquired(w)
    \/ ReadOffset(w) \/ Rotate(w) \/ ReleaseLock(w)
    \/ FinishRun(w) \/ CommitEvent(w)

Failure ==
    \/ LockExpires
    \/ \E w \in Workers : Abort(w) \/ Evict(w)
    \/ \E r \in Runs : Duplicate(r)

Next ==
    \/ \E r \in Runs : CreateRun(r) \/ StartRun(r)
    \/ \E c \in Customers : ChangePool(c)
    \/ \E w \in Workers : Worker(w)
    \/ OrphanExpires
    \/ Failure

Spec == Init /\ [][Next]_vars

(* Workers poll without end and a key with a TTL expires. *)
FairSpec == Spec /\ WF_vars(OrphanExpires) /\ \A w \in Workers : WF_vars(Worker(w))

-----------------------------------------------------------------------------
(* Every variable keeps its type, and who is about to write an offset holds *)
(* the row it has read it from (rotate_zone).                               *)
TypeOK ==
    /\ runStatus \in [Runs -> RunStatuses]
    /\ members \in [Runs -> SUBSET Customers]
    /\ snapshot \in [Runs -> SUBSET Nat]
    /\ offset \in [Zones -> Nat]
    /\ rowLock \in [Zones -> Workers \cup {"free"}]
    /\ out \in SUBSET Customers
    /\ requests \in SUBSET Runs
    /\ evicted \in SUBSET Workers
    /\ lock \in Workers \cup {"free", "orphan"}
    /\ wpc \in [Workers -> {"idle", "marking", "zones", "locking", "locked", "slicing",
                            "committed", "done"}]
    /\ work \in [Workers -> Runs \cup {"none"}]
    /\ todo \in [Workers -> SUBSET Zones]
    /\ zone \in [Workers -> Zones \cup {"none"}]
    /\ woff \in [Workers -> Nat] /\ wtot \in [Workers -> Nat]
    /\ picks \in [Customers -> Nat]
    /\ counted \in [Zones -> SUBSET Customers] /\ found \in [Zones -> SUBSET Customers]
    /\ joined \in SUBSET Zones
    /\ disowned \in SUBSET Runs
    /\ faults \in Nat /\ changes \in Nat
    /\ \A w \in Workers : wpc[w] = "slicing" => rowLock[zone[w]] = w

(* No run gets more of a zone than its quota, although requests are         *)
(* repeated, workers die and locks expire, and other runs have workers that *)
(* were evicted (zone_already_processed).                                   *)
QuotaRespected ==
    \A r \in Runs \ disowned, z \in Zones : Cardinality(InZone(members[r], z)) <= Quota[r][z]

(* The audience an operator sees as READY is final, and its snapshot counts *)
(* it: no step adds to it, and no late worker takes the run back from       *)
(* RUNNING (generate_audience).                                             *)
ReadyIsFinal ==
    [][\A r \in Runs :
          r \notin disowned /\ runStatus[r] \in {"READY", "RUNNING"} =>
              /\ members'[r] = members[r]
              /\ snapshot[r] = {Cardinality(members[r])}
              /\ runStatus[r] = "RUNNING" => runStatus'[r] = "RUNNING"]_vars

(* Nobody is selected twice in a cycle of his zone that nobody joined:      *)
(* customers may leave the pool between and during its rotations, locks     *)
(* expire and workers die.  One who comes back, or who is barred by one     *)
(* campaign and not by the next, does shift the others past the offset      *)
(* (rotate_zone).                                                           *)
NoDoubleSelect == \A c \in Customers : ZoneOf[c] \in joined \/ picks[c] <= 1

(* Every requested audience is generated, whatever the locks (audience_     *)
(* worker).                                                                 *)
AudienceIsGenerated ==
    \A r \in Runs :
        runStatus[r] \in {"PENDING", "AUDIENCE_GENERATING"} ~>
            runStatus[r] \in {"READY", "RUNNING"}

(* With a pool that keeps still, rotation_state.last_offset stands for the  *)
(* customers ranked up to it, and Rotation implements RotationCycle.        *)
StandingPool == [z \in Zones |-> InZone(Customers, z)]

Cycle == INSTANCE RotationCycle WITH
    Pool <- StandingPool,
    status <- [r \in Runs |->
                  IF runStatus[r] \in {"READY", "RUNNING"} THEN runStatus[r] ELSE "OPEN"],
    audience <- members,
    used <- [z \in Zones |-> Slice(StandingPool[z], 0, offset[z])]

(* With one pool for all runs, every step of the workers, with crashes,     *)
(* expired locks and repeated requests, is a step of RotationCycle: nobody  *)
(* is selected twice in a cycle and nobody is passed over.                  *)
ImplementsCycle == Cycle!Spec

=============================================================================
