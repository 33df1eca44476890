---------------------------- MODULE ImportProofs ----------------------------
(***************************************************************************)
(* Proofs about ImportPipeline: its types, that the last commit of a base  *)
(* is its current version, and that it keeps ImportContract, for any       *)
(* imports, files, workers and partitions; and of the laws of what it      *)
(* stages, that the spellings of a number agree, that no line of data is   *)
(* lost and that the preview adds up.                                      *)
(***************************************************************************)
EXTENDS ImportPipeline, IngestLaws, SequenceTheorems, FiniteSetTheorems,
        NaturalsInduction, WellFoundedInduction, TLAPS

Labels == {"idle", "check", "claim", "clear", "copy", "summarize", "commit", "insert",
           "release", "ack"}
Events == [type : {"stage"}, import : Imports]
             \cup [type : {"commit"}, import : Imports, target : Targets]
EventsOf(p) == {e \in Events : PartitionOf[e.import] = p}
Decisions == [type : {"approve", "reject"}, import : Imports]

(* The types of all variables, by where they live.                          *)
RowTypes ==
    /\ status \in [Imports -> Statuses]
    /\ kind \in [Imports -> Kinds] /\ source \in [Imports -> Files]
    /\ summary = [i \in Imports |-> summary[i]]
    /\ staged = [i \in Imports |-> staged[i]]

(* A version, whatever its members.                                         *)
Version(v) ==
    /\ v = [x \in DOMAIN v |-> v[x]]
    /\ {"kind", "target", "current"} \subseteq DOMAIN v
    /\ v.current \in BOOLEAN

CatalogueTypes ==
    /\ Len(catalogue) \in Nat
    /\ catalogue = [n \in 1..Len(catalogue) |-> catalogue[n]]
    /\ \A n \in 1..Len(catalogue) : Version(catalogue[n])
    /\ \A w \in Workers : seen[w] \in 0..Len(catalogue)
    /\ seen = [w \in Workers |-> seen[w]]

QueueTypes ==
    /\ outbox \in Seq(Events)
    /\ topic = [p \in Partitions |-> topic[p]]
    /\ \A p \in Partitions : topic[p] \in Seq(EventsOf(p))

ApiTypes ==
    /\ upload \subseteq Imports
    /\ desk \in [Operators -> Decisions \cup {NoEvent}]
    /\ asked \in [Imports -> SUBSET Targets]

WorkTypes ==
    /\ wpc \in [Workers -> Labels]
    /\ event \in [Workers -> Events \cup {NoEvent}]
    /\ \A w \in Workers : wpc[w] # "idle" => event[w] \in Events
    /\ copied \in [Workers -> Nat]
    /\ fenced \subseteq Workers
    /\ lock \in [Imports -> Workers \cup {"free", "orphan"}]
    /\ owner \in [Partitions -> Workers]
    /\ faults \in 0..MaxFaults /\ faultKinds \in FaultSets

(* A worker that has not lost its partition handles what is first in it,    *)
(* and nobody else acknowledges that.                                       *)
Owned ==
    \A w \in Workers :
        wpc[w] # "idle" /\ w \notin fenced =>
            /\ owner[PartitionOf[event[w].import]] = w
            /\ topic[PartitionOf[event[w].import]] # <<>>

Types == RowTypes /\ CatalogueTypes /\ QueueTypes /\ ApiTypes /\ WorkTypes /\ Owned

-----------------------------------------------------------------------------
(* Appending to a sequence of anything.                                     *)
LEMMA GrowAny ==
    ASSUME NEW n \in Nat, NEW f, f = [k \in 1..n |-> f[k]], NEW x
    PROVE  LET g == Append(f, x)
           IN /\ Len(g) = n + 1 /\ g = [k \in 1..(n + 1) |-> g[k]]
              /\ \A k \in 1..n : g[k] = f[k]
              /\ g[n + 1] = x
<1> DEFINE S == {f[k] : k \in 1..n} \cup {x}
<1>1. f \in [1..n -> S]
    OBVIOUS
<1>2. f \in Seq(S) /\ Len(f) = n
    BY <1>1
<1>3. x \in S
    OBVIOUS
<1> HIDE DEF S
<1>4. Append(f, x) \in Seq(S)
    BY <1>2, <1>3
<1> QED
    BY <1>2, <1>3, <1>4, AppendProperties

(* Events are events, and none of them is nothing.                          *)
LEMMA EventFacts ==
    /\ \A i \in Imports : StageRequested(i) \in Events
    /\ \A i \in Imports, t \in Targets : CommitRequested(i, t) \in Events
    /\ NoEvent \notin Events
    /\ \A e \in Events : e.import \in Imports /\ PartitionOf[e.import] \in Partitions
    /\ \A e \in Events : e.type = "stage" \/ (e.type = "commit" /\ e.target \in Targets)
BY ImportAssumption DEF Events, NoEvent, StageRequested, CommitRequested

(* Decisions are about imports, and none of them is nothing. *)
LEMMA DecisionFacts ==
    /\ \A d \in Decisions : d.type \in {"approve", "reject"} /\ d.import \in Imports
    /\ NoEvent \notin Decisions
    /\ NoEvent.type = "none"
BY DEF Decisions, NoEvent

-----------------------------------------------------------------------------
(* The types hold at first, ... *)
LEMMA TypesInit == Init => Types
<1> SUFFICES ASSUME Init PROVE Types
    OBVIOUS
<1> USE ImportAssumption DEF Init
<1>1. (CHOOSE f \in Files : TRUE) \in Files
    OBVIOUS
<1>2. RowTypes
    BY <1>1 DEF RowTypes, Statuses, Kinds
<1>3. CatalogueTypes
    BY DEF CatalogueTypes
<1>4. QueueTypes
    BY DEF QueueTypes
<1>5. ApiTypes
    BY DEF ApiTypes
<1>6. WorkTypes
    BY DEF WorkTypes, Labels
<1>7. Owned
    BY DEF Owned
<1> QED
    BY <1>2, <1>3, <1>4, <1>5, <1>6, <1>7 DEF Types

(* ... and every step keeps those of the rows, ... *)
LEMMA RowTypesNext == Types /\ [Next]_vars => RowTypes'
<1> SUFFICES ASSUME RowTypes, ApiTypes, [Next]_vars
             PROVE  RowTypes'
    BY DEF Types
<1> USE DEF RowTypes, Statuses, dbVars
<1>1. ASSUME NEW i \in Imports, NEW k \in Kinds, NEW f \in Files, LookUpHash(i, k, f)
      PROVE  RowTypes'
    BY <1>1 DEF LookUpHash
<1>2. ASSUME NEW i \in Imports, CreateImport(i)
      PROVE  RowTypes'
    BY <1>2 DEF CreateImport
<1>3. ASSUME NEW o \in Operators, NEW t \in Targets, Approve(o, t)
      PROVE  RowTypes'
    BY <1>3 DEF Approve
<1>4. ASSUME NEW o \in Operators, Reject(o)
      PROVE  RowTypes'
    BY <1>4 DEF Reject
<1>5. ASSUME NEW w \in Workers, Claim(w)
      PROVE  RowTypes'
    BY <1>5 DEF Claim
<1>6. ASSUME NEW w \in Workers, Clear(w) \/ CopyChunk(w) \/ MarkDuplicateRows(w)
      PROVE  RowTypes'
    BY <1>6 DEF Clear, CopyChunk, MarkDuplicateRows
<1>7. ASSUME NEW w \in Workers, Summarize(w)
      PROVE  RowTypes'
    BY <1>7 DEF Summarize
<1>8. ASSUME NEW w \in Workers, InsertVersion(w)
      PROVE  RowTypes'
    BY <1>8 DEF InsertVersion
<1>9. CASE UNCHANGED dbVars
    BY <1>9
<1> QED
    BY <1>1, <1>2, <1>3, <1>4, <1>5, <1>6, <1>7, <1>8, <1>9
       DEF Next, Api, Worker, Environment, OpenDecision, RetryStaging, RetryCommit, Publish,
           Fetch, Check, OpenCommit, Release, Ack, SeekBack, Crash, OrphanExpires,
           LockExpires, Rebalance, vars
(* The versions a commit finds retired are versions still, and of the same  *)
(* kind and target.                                                         *)
LEMMA RetiredFacts ==
    ASSUME CatalogueTypes, NEW w \in Workers
    PROVE  /\ Retired(w) = [n \in 1..Len(catalogue) |-> Retired(w)[n]]
           /\ \A n \in 1..Len(catalogue) :
                 /\ Version(Retired(w)[n])
                 /\ Retired(w)[n].kind = catalogue[n].kind
                 /\ Retired(w)[n].target = catalogue[n].target
                 /\ Retired(w)[n].current =
                      IF kind[Import(w)] = "BASE" /\ n \in VersionsOf(w) \ Unseen(w)
                      THEN FALSE ELSE catalogue[n].current
<1>1. DOMAIN catalogue = 1..Len(catalogue)
    BY DEF CatalogueTypes
<1>2. Retired(w) = [n \in 1..Len(catalogue) |-> Retired(w)[n]]
    BY <1>1 DEF Retired
<1> SUFFICES ASSUME NEW n \in 1..Len(catalogue)
             PROVE  /\ Version(Retired(w)[n])
                    /\ Retired(w)[n].kind = catalogue[n].kind
                    /\ Retired(w)[n].target = catalogue[n].target
                    /\ Retired(w)[n].current =
                         IF kind[Import(w)] = "BASE" /\ n \in VersionsOf(w) \ Unseen(w)
                         THEN FALSE ELSE catalogue[n].current
    BY <1>2
<1>3. Version(catalogue[n])
    BY DEF CatalogueTypes
<1>4. Retired(w)[n] = IF kind[Import(w)] = "BASE" /\ n \in VersionsOf(w) \ Unseen(w)
                      THEN [catalogue[n] EXCEPT !.current = FALSE] ELSE catalogue[n]
    BY <1>1 DEF Retired
<1> DEFINE v == catalogue[n]
<1>5. LET u == [v EXCEPT !.current = FALSE]
      IN Version(u) /\ u.kind = v.kind /\ u.target = v.target /\ u.current = FALSE
    BY <1>3 DEF Version
<1> HIDE DEF v
<1>6. CASE kind[Import(w)] = "BASE" /\ n \in VersionsOf(w) \ Unseen(w)
    BY <1>4, <1>5, <1>6 DEF v
<1>7. CASE ~(kind[Import(w)] = "BASE" /\ n \in VersionsOf(w) \ Unseen(w))
    BY <1>3, <1>4, <1>7
<1> QED
    BY <1>6, <1>7

(* What a commit makes of the catalogue.                                    *)
LEMMA Inserted ==
    ASSUME CatalogueTypes, NEW w \in Workers, InsertVersion(w)
    PROVE  LET new == catalogue'[Len(catalogue) + 1]
           IN /\ Len(catalogue') = Len(catalogue) + 1
              /\ catalogue' = [n \in 1..(Len(catalogue) + 1) |-> catalogue'[n]]
              /\ \A n \in 1..Len(catalogue) : catalogue'[n] = Retired(w)[n]
              /\ Version(new) /\ new.current = TRUE
              /\ new.kind = kind[Import(w)] /\ new.target = event[w].target
<1> DEFINE new == [kind |-> kind[Import(w)], target |-> event[w].target, source |-> Import(w),
                   current |-> TRUE, members |-> Members(kind[Import(w)], staged[Import(w)])]
<1>1. catalogue' = Append(Retired(w), new)
    BY DEF InsertVersion
<1>2. /\ Version(new) /\ new.current = TRUE
      /\ new.kind = kind[Import(w)] /\ new.target = event[w].target
    BY DEF Version
<1> HIDE DEF new
<1>3. Retired(w) = [n \in 1..Len(catalogue) |-> Retired(w)[n]] /\ Len(catalogue) \in Nat
    BY RetiredFacts DEF CatalogueTypes
<1> DEFINE r == Retired(w)
           m == Len(catalogue)
<1>4. r = [n \in 1..m |-> r[n]] /\ m \in Nat
    BY <1>3
<1> HIDE DEF r, m
<1>5. LET g == Append(r, new)
      IN /\ Len(g) = m + 1 /\ g = [k \in 1..(m + 1) |-> g[k]]
         /\ \A k \in 1..m : g[k] = r[k]
         /\ g[m + 1] = new
    BY <1>4, GrowAny
<1> QED
    BY <1>1, <1>2, <1>5 DEF r, m

(* ... those of the versions, ... *)
LEMMA CatalogueTypesNext == Types /\ [Next]_vars => CatalogueTypes'
<1> SUFFICES ASSUME CatalogueTypes, [Next]_vars
             PROVE  CatalogueTypes'
    BY DEF Types
<1> USE DEF workVars, dbVars
<1>1. ASSUME NEW w \in Workers, InsertVersion(w)
      PROVE  CatalogueTypes'
    <2>1. /\ seen' = seen /\ Len(catalogue') = Len(catalogue) + 1
          /\ catalogue' = [n \in 1..Len(catalogue') |-> catalogue'[n]]
          /\ \A n \in 1..Len(catalogue') : Version(catalogue'[n])
        <3>1. \A n \in 1..(Len(catalogue) + 1) : n \in 1..Len(catalogue) \/ n = Len(catalogue) + 1
            BY DEF CatalogueTypes
        <3> QED
            BY <1>1, <3>1, Inserted, RetiredFacts DEF InsertVersion
    <2>2. Len(catalogue) \in Nat /\ \A v \in Workers : seen[v] \in 0..Len(catalogue)
        BY DEF CatalogueTypes
    <2>3. \A v \in Workers : seen[v] \in 0..(Len(catalogue) + 1)
        BY <2>2
    <2> QED
        BY <2>1, <2>2, <2>3 DEF CatalogueTypes
<1>2. ASSUME NEW w \in Workers, OpenCommit(w)
      PROVE  CatalogueTypes'
    BY <1>2 DEF OpenCommit, CatalogueTypes
<1>3. ASSUME NEW w \in Workers, Ack(w) \/ SeekBack(w) \/ Crash(w)
      PROVE  CatalogueTypes'
    <2>1. Stop(w)
        BY <1>3 DEF Ack, SeekBack, Crash
    <2>2. catalogue' = catalogue /\ seen' = [seen EXCEPT ![w] = 0]
        <3>1. UNCHANGED catalogue
            BY <1>3 DEF Ack, SeekBack, Crash
        <3> QED
            BY <2>1, <3>1 DEF Stop
    <2> QED
        BY <2>2 DEF CatalogueTypes
<1>4. CASE UNCHANGED <<catalogue, seen>>
    BY <1>4 DEF CatalogueTypes
<1> QED
    BY <1>1, <1>2, <1>3, <1>4
       DEF Next, Api, Worker, Environment, LookUpHash, CreateImport, OpenDecision, Approve,
           Reject, RetryStaging, RetryCommit, Publish, Fetch, Check, Claim, Clear, CopyChunk,
           MarkDuplicateRows, Summarize, Release, OrphanExpires, LockExpires, Rebalance, vars

(* ... those of the events under way, ... *)
LEMMA QueueTypesNext == Types /\ [Next]_vars => QueueTypes'
<1> SUFFICES ASSUME Types, [Next]_vars
             PROVE  QueueTypes'
    OBVIOUS
<1> USE DEF workVars, dbVars, apiVars
<1>1. /\ outbox \in Seq(Events) /\ topic = [p \in Partitions |-> topic[p]]
      /\ \A p \in Partitions : topic[p] \in Seq(EventsOf(p))
    BY DEF Types, QueueTypes
<1>2. ASSUME NEW e \in Events, topic' = topic, outbox' = Append(outbox, e)
      PROVE  QueueTypes'
    BY <1>1, <1>2 DEF QueueTypes
<1>3. ASSUME NEW i \in Imports, CreateImport(i) \/ RetryStaging(i)
      PROVE  QueueTypes'
    <2>1. topic' = topic /\ (outbox' = outbox \/ outbox' = Append(outbox, StageRequested(i)))
        BY <1>3 DEF CreateImport, RetryStaging
    <2> QED
        BY <1>1, <1>2, <2>1, EventFacts DEF QueueTypes
<1>4. ASSUME NEW i \in Imports, NEW t \in Targets, RetryCommit(i, t)
      PROVE  QueueTypes'
    BY <1>2, <1>4, EventFacts DEF RetryCommit
<1>5. ASSUME NEW o \in Operators, NEW t \in Targets, Approve(o, t)
      PROVE  QueueTypes'
    <2>1. desk[o].import \in Imports
        BY <1>5, DecisionFacts DEF Approve, Types, ApiTypes
    <2> QED
        BY <1>2, <1>5, <2>1, EventFacts DEF Approve
<1>6. CASE Publish
    <2> DEFINE e == Head(outbox)
               p == PartitionOf[e.import]
    <2>1. /\ outbox # <<>> /\ (outbox' = outbox \/ outbox' = Tail(outbox))
          /\ topic' = [topic EXCEPT ![p] = Append(@, e)]
        BY <1>6 DEF Publish
    <2>2. e \in Events /\ outbox' \in Seq(Events)
        <3>1. e \in Events /\ Tail(outbox) \in Seq(Events)
            BY <1>1, <2>1, HeadTailProperties
        <3> QED
            BY <1>1, <2>1, <3>1
    <2>3. e \in EventsOf(p) /\ p \in Partitions
        BY <2>2, EventFacts DEF EventsOf
    <2> HIDE DEF e, p
    <2>4. Append(topic[p], e) \in Seq(EventsOf(p))
        BY <1>1, <2>3
    <2> QED
        BY <1>1, <2>1, <2>2, <2>4 DEF QueueTypes
<1>7. ASSUME NEW w \in Workers, Ack(w)
      PROVE  QueueTypes'
    <2> DEFINE p == PartitionOf[Import(w)]
    <2>1. outbox' = outbox /\ topic' = IF w \in fenced THEN topic ELSE [topic EXCEPT ![p] = Tail(@)]
        BY <1>7 DEF Ack
    <2>2. event[w] \in Events
        BY <1>7 DEF Ack, Types, WorkTypes
    <2>3. p \in Partitions
        BY <2>2, EventFacts DEF Import
    <2>4. w \notin fenced => topic[p] # <<>>
        BY <1>7 DEF Ack, Types, Owned, Import
    <2> HIDE DEF p
    <2>5. w \notin fenced => Tail(topic[p]) \in Seq(EventsOf(p))
        BY <1>1, <2>3, <2>4
    <2> QED
        BY <1>1, <2>1, <2>5 DEF QueueTypes
<1>8. CASE UNCHANGED <<outbox, topic>>
    BY <1>1, <1>8 DEF QueueTypes
<1> QED
    BY <1>3, <1>4, <1>5, <1>6, <1>7, <1>8
       DEF Next, Api, Worker, Environment, LookUpHash, OpenDecision,
           Reject, Fetch, Check, Claim, Clear, CopyChunk, MarkDuplicateRows, Summarize,
           OpenCommit, InsertVersion, Release, SeekBack, Crash, OrphanExpires, LockExpires,
           Rebalance, vars

(* ... those of uploads and decisions, ... *)
LEMMA ApiTypesNext == Types /\ [Next]_vars => ApiTypes'
<1> SUFFICES ASSUME ApiTypes, [Next]_vars
             PROVE  ApiTypes'
    BY DEF Types
<1> USE DEF apiVars, ApiTypes
<1>1. ASSUME NEW i \in Imports, NEW k \in Kinds, NEW f \in Files, LookUpHash(i, k, f)
      PROVE  ApiTypes'
    BY <1>1 DEF LookUpHash
<1>2. ASSUME NEW i \in Imports, CreateImport(i)
      PROVE  ApiTypes'
    BY <1>2 DEF CreateImport
<1>3. ASSUME NEW i \in Imports, NEW t \in Targets, RetryCommit(i, t)
      PROVE  ApiTypes'
    BY <1>3 DEF RetryCommit
<1>4. ASSUME NEW o \in Operators, NEW i \in Imports, NEW v \in {"approve", "reject"},
             OpenDecision(o, i, v)
      PROVE  ApiTypes'
    <2>1. [type |-> v, import |-> i] \in Decisions
        BY DEF Decisions
    <2> QED
        BY <1>4, <2>1 DEF OpenDecision
<1>5. ASSUME NEW o \in Operators, NEW t \in Targets, Approve(o, t)
      PROVE  ApiTypes'
    BY <1>5 DEF Approve
<1>6. ASSUME NEW o \in Operators, Reject(o)
      PROVE  ApiTypes'
    BY <1>6 DEF Reject
<1>7. CASE UNCHANGED apiVars
    BY <1>7
<1> QED
    BY <1>1, <1>2, <1>3, <1>4, <1>5, <1>6, <1>7
       DEF Next, Api, Worker, Environment, RetryStaging, Publish, Fetch, Check, Claim, Clear,
           CopyChunk, MarkDuplicateRows, Summarize, OpenCommit, InsertVersion, Release, Ack,
           SeekBack, Crash, OrphanExpires, LockExpires, Rebalance, vars
(* A worker that stops has nothing in hand.                                 *)
LEMMA Stops ==
    ASSUME WorkTypes, NEW w \in Workers, Stop(w)
    PROVE  /\ wpc' \in [Workers -> Labels]
           /\ event' \in [Workers -> Events \cup {NoEvent}]
           /\ copied' \in [Workers -> Nat]
           /\ fenced' \subseteq Workers
           /\ \A v \in Workers : wpc'[v] # "idle" =>
                 /\ v # w /\ wpc[v] # "idle" /\ wpc'[v] = wpc[v]
                 /\ event'[v] = event[v] /\ copied'[v] = copied[v]
                 /\ v \in fenced' <=> v \in fenced
<1>1. /\ wpc' = [wpc EXCEPT ![w] = "idle"] /\ event' = [event EXCEPT ![w] = NoEvent]
      /\ copied' = [copied EXCEPT ![w] = 0] /\ fenced' = fenced \ {w}
    BY DEF Stop, Goto
<1>2. /\ wpc \in [Workers -> Labels] /\ event \in [Workers -> Events \cup {NoEvent}]
      /\ copied \in [Workers -> Nat] /\ fenced \subseteq Workers
    BY DEF WorkTypes
<1>3. wpc' \in [Workers -> Labels]
    BY <1>1, <1>2 DEF Labels
<1>4. event' \in [Workers -> Events \cup {NoEvent}]
    BY <1>1, <1>2
<1>5. copied' \in [Workers -> Nat]
    BY <1>1, <1>2
<1> QED
    BY <1>1, <1>2, <1>3, <1>4, <1>5

(* What moves a worker's hand to another event, and what it is then at.     *)
LEMMA WorkTypesNext == Types /\ [Next]_vars => WorkTypes'
<1> SUFFICES ASSUME WorkTypes, QueueTypes, [Next]_vars
             PROVE  WorkTypes'
    BY DEF Types
<1> USE DEF workVars, faultVars, WorkTypes, Labels
<1>1. ASSUME NEW w \in Workers, NEW p \in Partitions, Fetch(w, p)
      PROVE  WorkTypes'
    <2>1. Head(topic[p]) \in EventsOf(p)
        <3>1. topic[p] \in Seq(EventsOf(p)) /\ topic[p] # <<>>
            BY <1>1 DEF QueueTypes, Fetch
        <3> QED
            BY <3>1, HeadTailProperties
    <2>2. Head(topic[p]) \in Events
        BY <2>1 DEF EventsOf
    <2> QED
        BY <1>1, <2>2 DEF Fetch, Goto
<1>2. ASSUME NEW w \in Workers,
             \/ Check(w) \/ Claim(w) \/ MarkDuplicateRows(w) \/ Summarize(w)
             \/ OpenCommit(w) \/ InsertVersion(w)
      PROVE  WorkTypes'
    BY <1>2 DEF Check, Claim, MarkDuplicateRows, Summarize, OpenCommit, InsertVersion, Goto
<1>3. ASSUME NEW w \in Workers, Clear(w) \/ CopyChunk(w)
      PROVE  WorkTypes'
    <2>1. copied \in [Workers -> Nat]
        OBVIOUS
    <2>2. copied' = [copied EXCEPT ![w] = 0] \/ copied' = [copied EXCEPT ![w] = copied[w] + 1]
        BY <1>3, <2>1 DEF Clear, CopyChunk
    <2>3. copied' \in [Workers -> Nat]
        BY <2>1, <2>2
    <2> QED
        BY <1>3, <2>3 DEF Clear, CopyChunk, Goto
<1>4. ASSUME NEW w \in Workers, Release(w)
      PROVE  WorkTypes'
    BY <1>4 DEF Release, Goto, Unlocked
<1>5. ASSUME NEW w \in Workers, Ack(w)
      PROVE  WorkTypes'
    <2>1. Stop(w) /\ UNCHANGED <<lock, owner, faultVars>>
        BY <1>5 DEF Ack
    <2> QED
        BY <2>1, Stops
<1>6. ASSUME NEW w \in Workers, SeekBack(w)
      PROVE  WorkTypes'
    <2>1. Stop(w) /\ lock' = Unlocked(w) /\ owner' = owner
          /\ (UNCHANGED faultVars \/ Fault("exception"))
        BY <1>6 DEF SeekBack
    <2>2. lock' \in [Imports -> Workers \cup {"free", "orphan"}]
        BY <2>1 DEF Unlocked
    <2> QED
        BY <2>1, <2>2, Stops, ImportAssumption DEF Fault
<1>7. ASSUME NEW w \in Workers, Crash(w)
      PROVE  WorkTypes'
    <2>1. Stop(w) /\ owner' = owner /\ Fault("crash")
          /\ lock' = [i \in Imports |-> IF lock[i] = w THEN "orphan" ELSE lock[i]]
        BY <1>7 DEF Crash
    <2>2. lock' \in [Imports -> Workers \cup {"free", "orphan"}]
        BY <2>1
    <2> QED
        BY <2>1, <2>2, Stops, ImportAssumption DEF Fault
<1>8. ASSUME NEW i \in Imports, OrphanExpires(i) \/ LockExpires(i)
      PROVE  WorkTypes'
    BY <1>8, ImportAssumption DEF OrphanExpires, LockExpires, Fault
<1>9. ASSUME NEW p \in Partitions, NEW w \in Workers, Rebalance(p, w)
      PROVE  WorkTypes'
    BY <1>9, ImportAssumption DEF Rebalance, Fault
<1>10. CASE /\ UNCHANGED <<wpc, workVars, lock, owner>>
            /\ \/ UNCHANGED faultVars
               \/ Fault("relay")
               \/ Fault("retry")
    BY <1>10, ImportAssumption DEF Fault
<1> QED
    BY <1>1, <1>2, <1>3, <1>4, <1>5, <1>6, <1>7, <1>8, <1>9, <1>10
       DEF Next, Api, Worker, Environment, LookUpHash, CreateImport, OpenDecision, Approve,
           Reject, RetryStaging, RetryCommit, Publish, vars

(* ... and who owns the event it handles. *)
LEMMA OwnedNext == Types /\ [Next]_vars => Owned'
<1> SUFFICES ASSUME WorkTypes, QueueTypes, Owned, [Next]_vars
             PROVE  Owned'
    BY DEF Types
<1> USE DEF workVars, faultVars
<1>1. ASSUME NEW w \in Workers, NEW p \in Partitions, Fetch(w, p)
      PROVE  Owned'
    <2>1. Head(topic[p]) \in EventsOf(p) /\ topic[p] # <<>>
        <3>1. topic[p] \in Seq(EventsOf(p)) /\ topic[p] # <<>>
            BY <1>1 DEF QueueTypes, Fetch
        <3> QED
            BY <3>1, HeadTailProperties
    <2>2. PartitionOf[Head(topic[p]).import] = p
        BY <2>1 DEF EventsOf
    <2> QED
        BY <1>1, <2>1, <2>2 DEF Fetch, Goto, Owned, WorkTypes
<1>2. ASSUME NEW w \in Workers,
             \/ Check(w) \/ Claim(w) \/ Clear(w) \/ CopyChunk(w) \/ MarkDuplicateRows(w)
             \/ Summarize(w) \/ OpenCommit(w) \/ InsertVersion(w) \/ Release(w)
      PROVE  Owned'
    <2>1. wpc[w] # "idle"
        BY <1>2 DEF Check, Claim, Clear, CopyChunk, MarkDuplicateRows, Summarize, OpenCommit,
                    InsertVersion, Release
    <2>2. UNCHANGED <<event, fenced, owner, topic>> /\ \E l : Goto(w, l) \/ wpc' = wpc
        BY <1>2 DEF Check, Claim, Clear, CopyChunk, MarkDuplicateRows, Summarize, OpenCommit,
                    InsertVersion, Release
    <2> QED
        BY <2>1, <2>2 DEF Owned, Goto, WorkTypes
<1>3. ASSUME NEW w \in Workers, Ack(w)
      PROVE  Owned'
    <2> DEFINE p == PartitionOf[Import(w)]
    <2>1. /\ wpc[w] # "idle" /\ Stop(w) /\ owner' = owner
          /\ topic' = IF w \in fenced THEN topic ELSE [topic EXCEPT ![p] = Tail(@)]
        BY <1>3 DEF Ack
    <2>2. w \notin fenced => owner[p] = w
        BY <2>1 DEF Owned, Import
    <2> HIDE DEF p
    <2> SUFFICES ASSUME NEW v \in Workers, wpc'[v] # "idle", v \notin fenced'
                 PROVE  /\ owner'[PartitionOf[event'[v].import]] = v
                        /\ topic'[PartitionOf[event'[v].import]] # <<>>
        BY DEF Owned
    <2>3. v # w /\ wpc[v] # "idle" /\ event'[v] = event[v] /\ v \notin fenced
        BY <2>1, Stops
    <2>4. /\ owner[PartitionOf[event[v].import]] = v
          /\ topic[PartitionOf[event[v].import]] # <<>>
        BY <2>3 DEF Owned
    <2>5. w \notin fenced => PartitionOf[event[v].import] # p
        BY <2>2, <2>3, <2>4
    <2>6. topic'[PartitionOf[event[v].import]] = topic[PartitionOf[event[v].import]]
        <3>1. PartitionOf[event[v].import] \in Partitions
            BY <2>3, EventFacts DEF WorkTypes
        <3> QED
            BY <2>1, <2>5, <3>1 DEF QueueTypes
    <2> QED
        BY <2>1, <2>3, <2>4, <2>6
<1>4. ASSUME NEW w \in Workers, SeekBack(w) \/ Crash(w)
      PROVE  Owned'
    <2>1. Stop(w) /\ owner' = owner /\ topic' = topic
        BY <1>4 DEF SeekBack, Crash
    <2> QED
        BY <2>1, Stops DEF Owned
<1>5. ASSUME NEW q \in Partitions, NEW w \in Workers, Rebalance(q, w)
      PROVE  Owned'
    <2>1. \A v \in Workers : wpc[v] # "idle" => event[v] \in Events
        BY DEF WorkTypes
    <2>2. UNCHANGED <<wpc, event, topic>> /\ owner' = [owner EXCEPT ![q] = w]
          /\ \A v \in Workers : v \notin fenced' =>
                v \notin fenced /\ (wpc[v] # "idle" => PartitionOf[event[v].import] # q)
        BY <1>5 DEF Rebalance, Import
    <2> QED
        BY <2>1, <2>2, EventFacts DEF Owned, WorkTypes
<1>6. CASE Publish
    <2> DEFINE e == Head(outbox)
               p == PartitionOf[e.import]
    <2>1. /\ outbox # <<>> /\ UNCHANGED <<wpc, event, fenced, owner>>
          /\ topic' = [topic EXCEPT ![p] = Append(@, e)]
        BY <1>6 DEF Publish
    <2>2. e \in Events
        BY <2>1, HeadTailProperties DEF QueueTypes
    <2>3. p \in Partitions /\ e \in EventsOf(p)
        BY <2>2, EventFacts DEF EventsOf
    <2> HIDE DEF p, e
    <2>4. Append(topic[p], e) # <<>>
        <3>1. topic[p] \in Seq(EventsOf(p))
            BY <2>3 DEF QueueTypes
        <3> QED
            BY <2>3, <3>1, AppendProperties
    <2>5. \A q \in Partitions : topic[q] # <<>> => topic'[q] # <<>>
        BY <2>1, <2>3, <2>4 DEF QueueTypes
    <2>6. \A v \in Workers : wpc[v] # "idle" => PartitionOf[event[v].import] \in Partitions
        BY EventFacts DEF WorkTypes
    <2> QED
        BY <2>1, <2>5, <2>6 DEF Owned
<1>7. CASE UNCHANGED <<wpc, event, fenced, owner, topic>>
    BY <1>7 DEF Owned
<1> QED
    BY <1>1, <1>2, <1>3, <1>4, <1>5, <1>6, <1>7
       DEF Next, Api, Worker, Environment, LookUpHash, CreateImport, OpenDecision, Approve,
           Reject, RetryStaging, RetryCommit, OrphanExpires, LockExpires, vars

(* So every step keeps the types. *)
LEMMA TypesNext == Types /\ [Next]_vars => Types'
BY RowTypesNext, CatalogueTypesNext, QueueTypesNext, ApiTypesNext, WorkTypesNext, OwnedNext
   DEF Types

(* The types hold in every state. *)
LEMMA TypesHold == Spec => []Types
BY TypesInit, TypesNext, PTL DEF Spec

(* Statuses, locks, assignments and counters are what they should be, an    *)
(* event in hand is an event, and a commit has not seen versions there are  *)
(* not: the type invariant of the run.                                      *)
THEOREM TypeCorrect == Spec => []TypeOK
<1>1. Types => TypeOK
    BY EventFacts DEF Types, RowTypes, CatalogueTypes, ApiTypes, WorkTypes, TypeOK
<1> QED
    BY <1>1, TypesHold, PTL
-----------------------------------------------------------------------------
(* A commit that conflicts with none it has not seen retires the versions   *)
(* of its base, and is current itself.                                      *)
LEMMA InsertKeepsCurrent ==
    ASSUME CatalogueTypes, LastCommitIsCurrent, NEW w \in Workers, InsertVersion(w)
    PROVE  LastCommitIsCurrent'
<1> DEFINE m == Len(catalogue)
           new == catalogue'[m + 1]
           k == kind[Import(w)]
           t == event[w].target
<1>1. m \in Nat /\ DOMAIN catalogue = 1..m
    BY DEF CatalogueTypes
<1>2. /\ DOMAIN catalogue' = 1..(m + 1)
      /\ new.kind = k /\ new.target = t /\ new.current = TRUE
      /\ \A n \in 1..m : catalogue'[n] = Retired(w)[n]
    BY Inserted
<1>3. \A n \in 1..m :
         /\ catalogue'[n].kind = catalogue[n].kind
         /\ catalogue'[n].target = catalogue[n].target
         /\ catalogue'[n].current = IF k = "BASE" /\ n \in VersionsOf(w) \ Unseen(w)
                                    THEN FALSE ELSE catalogue[n].current
    <2> SUFFICES ASSUME NEW n \in 1..m
                 PROVE  /\ Retired(w)[n].kind = catalogue[n].kind
                        /\ Retired(w)[n].target = catalogue[n].target
                        /\ Retired(w)[n].current =
                             IF kind[Import(w)] = "BASE" /\ n \in VersionsOf(w) \ Unseen(w)
                             THEN FALSE ELSE catalogue[n].current
        BY <1>2
    <2> QED
        BY RetiredFacts
<1>4. \A n \in 1..m :
         catalogue[n].kind = k /\ catalogue[n].target = t =>
            n \in VersionsOf(w) /\ (n \in Unseen(w) => ~catalogue[n].current)
    BY <1>1 DEF VersionsOf, Unseen, InsertVersion, Conflict
<1>5. \A n \in 1..m : n \in VersionsOf(w) => catalogue[n].kind = k /\ catalogue[n].target = t
    BY DEF VersionsOf
<1> HIDE DEF m, new, k, t
<1> SUFFICES ASSUME NEW n \in 1..(m + 1), catalogue'[n].kind = "BASE"
             PROVE  catalogue'[n].current <=>
                      \A l \in 1..(m + 1) :
                          catalogue'[l].kind = "BASE" /\ catalogue'[l].target = catalogue'[n].target
                          => l <= n
    BY <1>2 DEF LastCommitIsCurrent
<1>6. CASE n = m + 1
    BY <1>1, <1>2, <1>6 DEF new
<1>7. CASE n \in 1..m /\ k = "BASE" /\ catalogue[n].target = t
    <2>1. catalogue[n].kind = "BASE"
        BY <1>3, <1>7
    <2>2. ~catalogue'[n].current
        BY <1>3, <1>4, <1>7, <2>1
    <2>3. catalogue'[m + 1].kind = "BASE" /\ catalogue'[m + 1].target = catalogue'[n].target
        BY <1>2, <1>3, <1>7 DEF new
    <2>4. m + 1 \in 1..(m + 1) /\ ~(m + 1 <= n)
        BY <1>1, <1>7
    <2> QED
        BY <2>2, <2>3, <2>4
<1>8. CASE n \in 1..m /\ ~(k = "BASE" /\ catalogue[n].target = t)
    <2>1. catalogue[n].kind = "BASE"
        BY <1>3, <1>8
    <2>2. catalogue'[n].current = catalogue[n].current
        BY <1>3, <1>5, <1>8
    <2>3. catalogue[n].current <=>
             \A l \in 1..m : catalogue[l].kind = "BASE" /\ catalogue[l].target = catalogue[n].target
                             => l <= n
        BY <1>1, <1>8, <2>1 DEF LastCommitIsCurrent
    <2>4. ~(catalogue'[m + 1].kind = "BASE" /\ catalogue'[m + 1].target = catalogue'[n].target)
        BY <1>2, <1>3, <1>8 DEF new
    <2>5. \A l \in 1..(m + 1) : l \in 1..m \/ l = m + 1
        BY <1>1
    <2>6. \A l \in 1..m : l \in 1..(m + 1)
        BY <1>1
    <2> QED
        BY <1>3, <1>8, <2>2, <2>3, <2>4, <2>5, <2>6
<1> QED
    BY <1>1, <1>6, <1>7, <1>8

(* A base never has two current versions, nor loses its current one: the    *)
(* commit made last is current (_commit_base), whoever else commits to the  *)
(* same base at the same time, for any imports, bases and workers.          *)
THEOREM LastCommitStays == Spec => []LastCommitIsCurrent
<1>1. Init => LastCommitIsCurrent
    BY DEF Init, LastCommitIsCurrent
<1>2. Types /\ LastCommitIsCurrent /\ [Next]_vars => LastCommitIsCurrent'
    <2> SUFFICES ASSUME Types, LastCommitIsCurrent, [Next]_vars
                 PROVE  LastCommitIsCurrent'
        OBVIOUS
    <2>1. ASSUME NEW w \in Workers, InsertVersion(w)
          PROVE  LastCommitIsCurrent'
        BY <2>1, InsertKeepsCurrent DEF Types
    <2>2. CASE catalogue' = catalogue
        BY <2>2 DEF LastCommitIsCurrent
    <2> QED
        BY <2>1, <2>2
           DEF Next, Api, Worker, Environment, LookUpHash, CreateImport, OpenDecision, Approve,
               Reject, RetryStaging, RetryCommit, Publish, Fetch, Check, Claim, Clear,
               CopyChunk, MarkDuplicateRows, Summarize, OpenCommit, Release, Ack, SeekBack,
               Crash, OrphanExpires, LockExpires, Rebalance, dbVars, vars
<1> QED
    BY <1>1, <1>2, TypesHold, PTL DEF Spec
-----------------------------------------------------------------------------
(* The refinement of ImportContract.  Two things the model does not exclude *)
(* are excluded here: that the lock of a worker runs out and that a worker  *)
(* goes on without its partition, both in one history, when nothing keeps   *)
(* two workers from one import; and that two operators decide on one import *)
(* at the same time, when the status of the slower overwrites the other's.  *)
OneGuardLeft == \A F \in FaultSets : ~({"expiry", "evict"} \subseteq F)
OneOperator == \A o1, o2 \in Operators : o1 = o2

Working(w) ==
    wpc[w] \in {"check", "claim", "clear", "copy", "summarize", "commit", "insert", "release"}

(* The inductive invariant: whichever guard is left keeps a second worker   *)
(* from an import;                                                          *)
Guarded ==
    /\ "expiry" \notin faultKinds => \A w \in Workers : Working(w) => lock[Import(w)] = w
    /\ "evict" \notin faultKinds => fenced = {}

(* a commit that is asked for, wherever its event is, was approved;         *)
AskedFor == {e \in Events : e.type = "commit" => e.target \in asked[e.import]}
Asked ==
    /\ outbox \in Seq(AskedFor)
    /\ \A p \in Partitions : topic[p] \in Seq(AskedFor)
    /\ \A w \in Workers : wpc[w] # "idle" => event[w] \in AskedFor

(* a worker that stages has copied so much of the file, and a worker that   *)
(* commits does so on an approval;                                          *)
Prefix(x, n) == [k \in 1..n |-> Classify(Rows(x)[k])]
CopiedRows(x, c) == Prefix(x, Smaller(c * ChunkSize, Len(Rows(x))))

Progress(w) ==
    LET i == Import(w)
        f == source[Import(w)]
    IN /\ wpc[w] \in {"clear", "copy", "summarize"} => status[i] = "VALIDATING"
       /\ wpc[w] = "copy" /\ f \in Resolved =>
             copied[w] <= Len(ClassifiedChunks[f]) /\ staged[i] = CopiedRows(Content[f], copied[w])
       /\ wpc[w] = "summarize" => f \in Resolved /\ staged[i] = WholeFile[f]
       /\ wpc[w] \in {"commit", "insert"} => status[i] = "APPROVED" /\ event[w].type = "commit"

(* what is shown or approved is the whole file;                             *)
Shown(i) ==
    status[i] \in {"PREVIEW_READY", "APPROVED"} =>
        source[i] \in Resolved /\ staged[i] = WholeFile[source[i]]

(* and a decision is about an import that is shown, an upload one that is   *)
(* not there yet.                                                           *)
Decided == \A o \in Operators : desk[o] # NoEvent => status[desk[o].import] = "PREVIEW_READY"
Uploading == \A i \in upload : status[i] = "ABSENT"

Staging ==
    /\ \A w \in Workers : wpc[w] # "idle" => Progress(w)
    /\ \A i \in Imports : Shown(i)
    /\ Decided /\ Uploading

-----------------------------------------------------------------------------
ChunksOfFile(x) == [c \in DOMAIN Chunks(x) |-> Classified(Chunks(x)[c])]

(* The chunks of a file, one after the other, are the file.                 *)
LEMMA ChunkFacts ==
    ASSUME NEW x
    PROVE  LET n == Len(Rows(x))
               chunks == ChunksOfFile(x)
           IN /\ n \in Nat /\ Len(chunks) \in Nat
              /\ DOMAIN chunks = 1..Len(chunks)
              /\ Len(chunks) * ChunkSize >= n
              /\ \A c \in 0..(Len(chunks) - 1) :
                    /\ c * ChunkSize < n
                    /\ chunks[c + 1] =
                         Classified(SubSeq(Rows(x), c * ChunkSize + 1,
                                           Smaller((c + 1) * ChunkSize, n)))
<1> DEFINE rows == Rows(x)
           n == Len(rows)
           C == ChunkSize
           m == (n + C - 1) \div C
           chunks == ChunksOfFile(x)
<1>1. C \in Nat \ {0}
    BY IngestAssumption
<1>2. n \in Nat
    BY DEF Rows
<1>3. Chunks(x) = [c \in 1..m |-> SubSeq(rows, (c - 1) * C + 1, Smaller(c * C, n))]
    BY DEF Chunks
<1>4. chunks = [c \in DOMAIN Chunks(x) |-> Classified(Chunks(x)[c])]
    BY DEF ChunksOfFile
<1> HIDE DEF n, C, rows, chunks
<1>5. m \in Nat /\ m * C >= n /\ \A c \in Nat : c < m => c * C < n
    BY <1>1, <1>2
<1> HIDE DEF m
<1>6. chunks = [c \in 1..m |-> Classified(SubSeq(rows, (c - 1) * C + 1, Smaller(c * C, n)))]
    BY <1>3, <1>4
<1>7. Len(chunks) = m
    BY <1>5, <1>6
<1>8. \A c \in 0..(m - 1) :
         /\ c * C < n
         /\ chunks[c + 1] = Classified(SubSeq(rows, c * C + 1, Smaller((c + 1) * C, n)))
    <2> SUFFICES ASSUME NEW c \in 0..(m - 1)
                 PROVE  /\ c * C < n
                        /\ chunks[c + 1] =
                             Classified(SubSeq(rows, c * C + 1, Smaller((c + 1) * C, n)))
        OBVIOUS
    <2>1. c \in Nat /\ c < m /\ c + 1 \in 1..m /\ (c + 1) - 1 = c
        BY <1>5
    <2> QED
        BY <1>5, <1>6, <2>1
<1> QED
    BY <1>2, <1>5, <1>6, <1>7, <1>8 DEF n, C, rows, chunks

(* Before the first chunk nothing is copied, a chunk adds what comes next,  *)
(* and after the last one it is the whole file.                             *)
LEMMA NothingCopied ==
    ASSUME NEW x
    PROVE  CopiedRows(x, 0) = <<>>
<1>1. Len(Rows(x)) \in Nat /\ ChunkSize \in Nat
    BY ChunkFacts, IngestAssumption
<1>2. Smaller(0 * ChunkSize, Len(Rows(x))) = 0
    BY <1>1 DEF Smaller
<1>3. Prefix(x, 0) = <<>>
    BY DEF Prefix
<1> QED
    BY <1>2, <1>3 DEF CopiedRows

(* After the last chunk the whole file is copied. *)
LEMMA AllCopied ==
    ASSUME NEW x
    PROVE  CopiedRows(x, Len(ChunksOfFile(x))) = Classified(Rows(x))
<1> DEFINE n == Len(Rows(x))
           c == Len(ChunksOfFile(x))
<1>1. n \in Nat /\ c \in Nat /\ c * ChunkSize >= n /\ ChunkSize \in Nat
    BY ChunkFacts, IngestAssumption
<1>2. c * ChunkSize \in Nat
    BY <1>1
<1> HIDE DEF c
<1>3. Smaller(c * ChunkSize, n) = n
    BY <1>1, <1>2 DEF Smaller
<1>4. DOMAIN Rows(x) = 1..n
    BY DEF Rows
<1>5. Prefix(x, n) = Classified(Rows(x))
    BY <1>4 DEF Prefix, Classified
<1> QED
    BY <1>3, <1>5 DEF CopiedRows, c

(* A chunk adds what comes next, and is no longer than it may be.           *)
LEMMA ChunkCopied ==
    ASSUME NEW x, NEW c \in Nat, c < Len(ChunksOfFile(x))
    PROVE  /\ CopiedRows(x, c) \o ChunksOfFile(x)[c + 1] = CopiedRows(x, c + 1)
           /\ Len(ChunksOfFile(x)[c + 1]) \in 1..ChunkSize
           /\ \E S : ChunksOfFile(x)[c + 1] \in Seq(S)
<1> DEFINE rows == Rows(x)
           n == Len(rows)
           low == c * ChunkSize
           high == Smaller((c + 1) * ChunkSize, n)
           R == {rows[k] : k \in 1..n}
           S == {Classify(r) : r \in R}
<1>1. /\ n \in Nat /\ ChunkSize \in Nat \ {0} /\ Len(ChunksOfFile(x)) \in Nat
      /\ c \in 0..(Len(ChunksOfFile(x)) - 1)
    BY ChunkFacts, IngestAssumption
<1>2. low < n /\ ChunksOfFile(x)[c + 1] = Classified(SubSeq(rows, low + 1, high))
    BY <1>1, ChunkFacts
<1>3. low \in Nat /\ (c + 1) * ChunkSize = low + ChunkSize
    BY <1>1
<1>4. high \in Nat /\ low <= high /\ high <= n
    BY <1>1, <1>2, <1>3 DEF Smaller
<1>5. Smaller(low, n) = low
    BY <1>2, <1>3 DEF Smaller
<1>6. rows \in [1..n -> R]
    <2>1. DOMAIN rows = 1..n /\ rows = [k \in DOMAIN rows |-> rows[k]]
        BY DEF Rows
    <2> QED
        BY <2>1
<1>7. CopiedRows(x, c) = Prefix(x, low) /\ CopiedRows(x, c + 1) = Prefix(x, high)
    BY <1>5 DEF CopiedRows
<1>8. \A k \in 1..n : rows[k] \in R /\ Classify(rows[k]) \in S
    OBVIOUS
<1>9. Prefix(x, low) = [k \in 1..low |-> Classify(rows[k])]
      /\ Prefix(x, high) = [k \in 1..high |-> Classify(rows[k])]
    BY DEF Prefix
<1> HIDE DEF rows, n, low, high, R, S
<1>10. SubSeq(rows, low + 1, high) = [k \in 1..(high - low) |-> rows[low + k]]
    <2>1. rows \in Seq(R) /\ Len(rows) = n
        BY <1>1, <1>6 DEF n
    <2> QED
        BY <1>3, <1>4, <2>1
<1> DEFINE chunk == Classified(SubSeq(rows, low + 1, high))
<1>11. chunk = [k \in 1..(high - low) |-> Classify(rows[low + k])]
    BY <1>10 DEF Classified
<1>12. chunk \in Seq(S) /\ Len(chunk) = high - low
    <2>1. \A k \in 1..(high - low) : low + k \in 1..n
        BY <1>1, <1>3, <1>4
    <2>2. high - low \in Nat /\ \A k \in 1..(high - low) : Classify(rows[low + k]) \in S
        BY <1>3, <1>4, <1>8, <2>1
    <2>3. chunk \in [1..(high - low) -> S]
        BY <1>11, <2>2
    <2> HIDE DEF chunk
    <2> QED
        BY <2>2, <2>3
<1>13. Prefix(x, low) \in Seq(S) /\ Len(Prefix(x, low)) = low
    <2>1. Prefix(x, low) \in [1..low -> S]
        BY <1>1, <1>2, <1>3, <1>8, <1>9
    <2> QED
        BY <1>3, <2>1
<1>14. Prefix(x, high) \in Seq(S) /\ Len(Prefix(x, high)) = high
    <2>1. Prefix(x, high) \in [1..high -> S]
        BY <1>1, <1>4, <1>8, <1>9
    <2> QED
        BY <1>4, <2>1
<1> HIDE DEF chunk
<1>15. LET s == Prefix(x, low) \o chunk
       IN /\ s \in Seq(S) /\ Len(s) = high
          /\ \A k \in 1..high : s[k] = IF k <= low THEN Prefix(x, low)[k] ELSE chunk[k - low]
    <2> DEFINE p == Prefix(x, low)
    <2>1. p \in Seq(S) /\ Len(p) = low
        BY <1>13
    <2> HIDE DEF p
    <2>2. /\ p \o chunk \in Seq(S) /\ Len(p \o chunk) = Len(p) + Len(chunk)
          /\ \A k \in 1..(Len(p) + Len(chunk)) :
                (p \o chunk)[k] = IF k <= Len(p) THEN p[k] ELSE chunk[k - Len(p)]
        BY <1>12, <2>1, ConcatProperties
    <2>3. low + (high - low) = high
        BY <1>3, <1>4
    <2> QED
        BY <1>12, <2>1, <2>2, <2>3 DEF p
<1>16. \A k \in 1..high : (Prefix(x, low) \o chunk)[k] = Prefix(x, high)[k]
    <2> SUFFICES ASSUME NEW k \in 1..high
                 PROVE  (Prefix(x, low) \o chunk)[k] = Prefix(x, high)[k]
        OBVIOUS
    <2>1. CASE k <= low
        BY <1>3, <1>4, <1>9, <1>15, <2>1
    <2>2. CASE ~(k <= low)
        <3>1. k - low \in 1..(high - low) /\ low + (k - low) = k
            BY <1>3, <1>4, <2>2
        <3> QED
            BY <1>9, <1>11, <1>15, <2>2, <3>1
    <2> QED
        BY <2>1, <2>2
<1>17. Prefix(x, low) \o chunk = Prefix(x, high)
    BY <1>14, <1>15, <1>16, SeqEqual
<1>18. high - low \in 1..ChunkSize
    <2>1. high <= low + ChunkSize /\ low < high
        BY <1>1, <1>2, <1>3 DEF Smaller, high
    <2> QED
        BY <1>1, <1>3, <1>4, <2>1
<1> QED
    BY <1>2, <1>7, <1>12, <1>17, <1>18 DEF chunk

(* For the files of the pipeline the model has them at hand.                *)
LEMMA ChunksOfContent ==
    ASSUME NEW f \in Resolved
    PROVE  ClassifiedChunks[f] = ChunksOfFile(Content[f])
BY DEF ClassifiedChunks, ChunksOfFile

-----------------------------------------------------------------------------
(* Only what goes wrong in a way the history allows takes a lock or a       *)
(* partition away from a worker.                                            *)
LEMMA GuardedNext == Types /\ Guarded /\ [Next]_vars => Guarded'
<1> SUFFICES ASSUME Types, Guarded, [Next]_vars
             PROVE  Guarded'
    OBVIOUS
<1> USE DEF workVars, faultVars, Import
<1>1. /\ wpc \in [Workers -> Labels] /\ event \in [Workers -> Events \cup {NoEvent}]
      /\ lock \in [Imports -> Workers \cup {"free", "orphan"}]
      /\ \A v \in Workers : wpc[v] # "idle" => event[v].import \in Imports
      /\ "free" \notin Workers /\ "orphan" \notin Workers
      /\ WorkTypes
    BY EventFacts, ImportAssumption DEF Types, WorkTypes
<1>2. faultKinds' = faultKinds
    BY DEF Next, Api, Worker, Environment, LookUpHash, CreateImport, OpenDecision, Approve,
           Reject, RetryStaging, RetryCommit, Publish, Fetch, Check, Claim, Clear, CopyChunk,
           MarkDuplicateRows, Summarize, OpenCommit, InsertVersion, Release, Ack, SeekBack,
           Crash, OrphanExpires, LockExpires, Rebalance, Fault, vars
<1>3. \A v \in Workers : Working(v) => wpc[v] # "idle"
    BY DEF Working
<1>4. ASSUME NEW w \in Workers, NEW p \in Partitions, Fetch(w, p)
      PROVE  Guarded'
    <2> DEFINE i == Head(topic[p]).import
    <2>1. /\ lock[i] = "free" /\ lock' = [lock EXCEPT ![i] = w] /\ fenced' = fenced
          /\ event' = [event EXCEPT ![w] = Head(topic[p])]
          /\ wpc' = [wpc EXCEPT ![w] = "check"]
        BY <1>4 DEF Fetch, Goto
    <2>2. i \in Imports
        <3>1. topic[p] \in Seq(EventsOf(p)) /\ topic[p] # <<>>
            BY <1>4 DEF Types, QueueTypes, Fetch
        <3>2. Head(topic[p]) \in EventsOf(p)
            BY <3>1, HeadTailProperties
        <3> QED
            BY <3>2, EventFacts DEF EventsOf
    <2>3. event'[w].import = i
        BY <1>1, <2>1
    <2> HIDE DEF i
    <2>4. lock'[i] = w /\ \A j \in Imports : j # i => lock'[j] = lock[j]
        BY <1>1, <2>1, <2>2
    <2>5. ASSUME NEW v \in Workers, Working(v)', "expiry" \notin faultKinds
          PROVE  lock'[event'[v].import] = v
        <3>1. CASE v = w
            BY <2>3, <2>4, <3>1
        <3>2. CASE v # w
            <4>1. Working(v) /\ event'[v] = event[v]
                BY <1>1, <2>1, <2>5, <3>2 DEF Working
            <4>2. lock[event[v].import] = v /\ event[v].import \in Imports
                BY <1>1, <1>3, <2>5, <4>1 DEF Guarded
            <4> QED
                BY <1>1, <2>1, <2>4, <4>1, <4>2
        <3> QED
            BY <3>1, <3>2
    <2> QED
        BY <1>2, <2>1, <2>5 DEF Guarded
<1>5. ASSUME NEW w \in Workers,
             \/ Check(w) \/ Claim(w) \/ Clear(w) \/ CopyChunk(w) \/ MarkDuplicateRows(w)
             \/ Summarize(w) \/ OpenCommit(w) \/ InsertVersion(w)
      PROVE  Guarded'
    <2>1. Working(w) /\ UNCHANGED <<event, fenced, lock>> /\ \E l : Goto(w, l) \/ wpc' = wpc
        BY <1>5 DEF Check, Claim, Clear, CopyChunk, MarkDuplicateRows, Summarize, OpenCommit,
                    InsertVersion, Working
    <2>2. \A v \in Workers : Working(v)' => Working(v)
        BY <1>1, <2>1 DEF Working, Goto
    <2> QED
        BY <1>2, <2>1, <2>2 DEF Guarded
<1>6. ASSUME NEW w \in Workers, wpc[w] # "idle", fenced' \subseteq fenced,
             \A j \in Imports : lock[j] # w => lock'[j] = lock[j],
             \A v \in Workers : Working(v)' => v # w /\ Working(v) /\ event'[v] = event[v]
      PROVE  Guarded'
    BY <1>1, <1>2, <1>3, <1>6 DEF Guarded
<1>7. \A w \in Workers : \A j \in Imports : lock[j] # w => Unlocked(w)[j] = lock[j]
    BY <1>1 DEF Unlocked
<1>8. ASSUME NEW w \in Workers, Release(w)
      PROVE  Guarded'
    <2>1. wpc[w] = "release" /\ lock' = Unlocked(w) /\ wpc' = [wpc EXCEPT ![w] = "ack"]
          /\ event' = event /\ fenced' = fenced
        BY <1>8 DEF Release, Goto
    <2>2. \A v \in Workers : Working(v)' => v # w /\ Working(v)
        BY <1>1, <2>1 DEF Working
    <2> QED
        BY <1>6, <1>7, <2>1, <2>2
<1>9. ASSUME NEW w \in Workers, Ack(w) \/ SeekBack(w) \/ Crash(w)
      PROVE  Guarded'
    <2>1. wpc[w] # "idle" /\ Stop(w)
        BY <1>9 DEF Ack, SeekBack, Crash
    <2>2. \A v \in Workers : Working(v)' => v # w /\ Working(v) /\ event'[v] = event[v]
        BY <1>1, <2>1, Stops DEF Working
    <2>3. fenced' \subseteq fenced
        BY <2>1 DEF Stop
    <2>4. \A j \in Imports : lock[j] # w => lock'[j] = lock[j]
        BY <1>7, <1>9 DEF Ack, SeekBack, Crash
    <2> QED
        BY <1>6, <2>1, <2>2, <2>3, <2>4
<1>10. ASSUME NEW i \in Imports, OrphanExpires(i)
       PROVE  Guarded'
    <2>1. lock[i] = "orphan" /\ lock' = [lock EXCEPT ![i] = "free"]
          /\ UNCHANGED <<wpc, event, fenced>>
        BY <1>10 DEF OrphanExpires
    <2> QED
        BY <1>1, <1>2, <1>3, <2>1 DEF Guarded, Working
<1>11. ASSUME NEW i \in Imports, LockExpires(i)
       PROVE  Guarded'
    BY <1>2, <1>11 DEF LockExpires, Fault, Guarded
<1>12. ASSUME NEW p \in Partitions, NEW w \in Workers, Rebalance(p, w)
       PROVE  Guarded'
    BY <1>2, <1>12 DEF Rebalance, Fault, Guarded, Working
<1>13. CASE UNCHANGED <<wpc, event, fenced, lock>>
    BY <1>2, <1>13 DEF Guarded, Working
<1> QED
    BY <1>4, <1>5, <1>8, <1>9, <1>10, <1>11, <1>12, <1>13
       DEF Next, Api, Worker, Environment, LookUpHash, CreateImport, OpenDecision, Approve,
           Reject, RetryStaging, RetryCommit, Publish, vars

(* So no two workers are at one import.                                     *)
LEMMA OneWorker ==
    ASSUME Types, Guarded, OneGuardLeft, NEW v \in Workers, NEW w \in Workers,
           Working(v), Working(w), Import(v) = Import(w)
    PROVE  v = w
<1>1. wpc[v] # "idle" /\ wpc[w] # "idle"
    BY DEF Working
<1>2. "expiry" \notin faultKinds \/ "evict" \notin faultKinds
    BY DEF OneGuardLeft, Types, WorkTypes
<1> QED
    BY <1>1, <1>2 DEF Guarded, Types, Owned, Import

-----------------------------------------------------------------------------
(* A sequence of some is a sequence of more. *)
LEMMA SeqMono ==
    ASSUME NEW S, NEW T, S \subseteq T, NEW s \in Seq(S)
    PROVE  s \in Seq(T)
<1>1. s \in [1..Len(s) -> S] /\ Len(s) \in Nat
    OBVIOUS
<1>2. s \in [1..Len(s) -> T]
    BY <1>1
<1> QED
    BY <1>1, <1>2

(* What is asked for stays asked for, and nothing else is.                  *)
LEMMA AskedNext == Types /\ Asked /\ [Next]_vars => Asked'
<1> SUFFICES ASSUME Types, Asked, [Next]_vars
             PROVE  Asked'
    OBVIOUS
<1> USE DEF workVars, dbVars, apiVars, faultVars
<1>1. asked \in [Imports -> SUBSET Targets] /\ wpc \in [Workers -> Labels]
      /\ topic = [p \in Partitions |-> topic[p]]
      /\ event \in [Workers -> Events \cup {NoEvent}] /\ WorkTypes
    BY DEF Types, ApiTypes, WorkTypes, QueueTypes
<1>2. \A i \in Imports : StageRequested(i) \in AskedFor'
    BY EventFacts DEF AskedFor, StageRequested
<1>3. ASSUME AskedFor \subseteq AskedFor',
             outbox' \in Seq(AskedFor'), \A p \in Partitions : topic'[p] \in Seq(AskedFor'),
             \A w \in Workers : wpc'[w] # "idle" => event'[w] \in AskedFor'
      PROVE  Asked'
    BY <1>3 DEF Asked
<1>4. ASSUME AskedFor \subseteq AskedFor'
      PROVE  /\ outbox \in Seq(AskedFor')
             /\ \A p \in Partitions : topic[p] \in Seq(AskedFor')
             /\ \A w \in Workers : wpc[w] # "idle" => event[w] \in AskedFor'
    BY <1>4, SeqMono DEF Asked
<1>5. ASSUME NEW i \in Imports, NEW t \in Targets, asked' = [asked EXCEPT ![i] = @ \cup {t}],
             UNCHANGED <<topic, wpc, event>>, outbox' = Append(outbox, CommitRequested(i, t))
      PROVE  Asked'
    <2>1. AskedFor \subseteq AskedFor'
        BY <1>1, <1>5, EventFacts DEF AskedFor
    <2>2. CommitRequested(i, t) \in AskedFor'
        BY <1>1, <1>5, EventFacts DEF AskedFor, CommitRequested
    <2> QED
        BY <1>4, <1>5, <2>1, <2>2 DEF Asked
<1>6. ASSUME NEW i \in Imports, NEW t \in Targets, RetryCommit(i, t)
      PROVE  Asked'
    BY <1>5, <1>6 DEF RetryCommit
<1>7. ASSUME NEW o \in Operators, NEW t \in Targets, Approve(o, t)
      PROVE  Asked'
    <2>1. desk[o].import \in Imports
        BY <1>7, DecisionFacts DEF Approve, Types, ApiTypes
    <2> QED
        BY <1>5, <1>7, <2>1 DEF Approve
<1>8. asked' = asked => AskedFor' = AskedFor
    BY DEF AskedFor
<1>9. ASSUME NEW i \in Imports, CreateImport(i) \/ RetryStaging(i)
      PROVE  Asked'
    <2>1. /\ UNCHANGED <<asked, topic, wpc, event>>
          /\ outbox' = outbox \/ outbox' = Append(outbox, StageRequested(i))
        BY <1>9 DEF CreateImport, RetryStaging
    <2> QED
        BY <1>2, <1>8, <2>1 DEF Asked
<1>10. CASE Publish
    <2> DEFINE e == Head(outbox)
               p == PartitionOf[e.import]
    <2>1. /\ outbox # <<>> /\ UNCHANGED <<asked, wpc, event>>
          /\ outbox' = outbox \/ outbox' = Tail(outbox)
          /\ topic' = [topic EXCEPT ![p] = Append(@, e)]
        BY <1>10 DEF Publish
    <2>2. e \in AskedFor /\ Tail(outbox) \in Seq(AskedFor)
        BY <2>1, HeadTailProperties DEF Asked
    <2> HIDE DEF e, p
    <2>3. \A q \in Partitions : topic'[q] \in Seq(AskedFor)
        BY <1>1, <2>1, <2>2 DEF Asked
    <2> QED
        BY <1>8, <2>1, <2>2, <2>3 DEF Asked
<1>11. ASSUME NEW w \in Workers, NEW p \in Partitions, Fetch(w, p)
       PROVE  Asked'
    <2>1. /\ UNCHANGED <<asked, topic, outbox>> /\ topic[p] # <<>>
          /\ event' = [event EXCEPT ![w] = Head(topic[p])]
          /\ wpc' = [wpc EXCEPT ![w] = "check"]
        BY <1>11 DEF Fetch, Goto
    <2>2. Head(topic[p]) \in AskedFor
        BY <2>1, HeadTailProperties DEF Asked
    <2> QED
        BY <1>1, <1>8, <2>1, <2>2 DEF Asked
<1>12. ASSUME NEW w \in Workers,
             \/ Check(w) \/ Claim(w) \/ Clear(w) \/ CopyChunk(w) \/ MarkDuplicateRows(w)
             \/ Summarize(w) \/ OpenCommit(w) \/ InsertVersion(w) \/ Release(w)
      PROVE  Asked'
    <2>1. wpc[w] # "idle" /\ UNCHANGED <<asked, event, outbox, topic>>
          /\ \E l : Goto(w, l) \/ wpc' = wpc
        BY <1>12 DEF Check, Claim, Clear, CopyChunk, MarkDuplicateRows, Summarize, OpenCommit,
                     InsertVersion, Release
    <2>2. \A v \in Workers : wpc'[v] # "idle" => wpc[v] # "idle"
        BY <1>1, <2>1 DEF Goto
    <2> QED
        BY <1>8, <2>1, <2>2 DEF Asked
<1>13. ASSUME NEW w \in Workers, Ack(w) \/ SeekBack(w) \/ Crash(w)
       PROVE  Asked'
    <2> DEFINE p == PartitionOf[Import(w)]
    <2>1. /\ wpc[w] # "idle" /\ Stop(w) /\ UNCHANGED <<asked, outbox>>
          /\ topic' = topic \/ (w \notin fenced /\ topic' = [topic EXCEPT ![p] = Tail(@)])
        BY <1>13 DEF Ack, SeekBack, Crash
    <2>2. w \notin fenced => topic[p] # <<>> /\ p \in Partitions
        <3>1. event[w] \in Events
            BY <1>1, <2>1 DEF WorkTypes
        <3>2. p \in Partitions
            BY <3>1, EventFacts DEF Import
        <3> QED
            BY <2>1, <3>2 DEF Types, Owned, Import
    <2> HIDE DEF p
    <2>3. w \notin fenced => Tail(topic[p]) \in Seq(AskedFor)
        BY <2>2, HeadTailProperties DEF Asked
    <2>4. \A q \in Partitions : topic'[q] \in Seq(AskedFor)
        BY <1>1, <2>1, <2>3 DEF Asked
    <2> QED
        <3>1. \A v \in Workers : wpc'[v] # "idle" => wpc[v] # "idle" /\ event'[v] = event[v]
            BY <1>1, <2>1, Stops
        <3> QED
            BY <1>8, <2>1, <2>4, <3>1 DEF Asked
<1>14. CASE UNCHANGED <<asked, outbox, topic, wpc, event>>
    BY <1>8, <1>14 DEF Asked
<1> QED
    BY <1>6, <1>7, <1>9, <1>10, <1>11, <1>12, <1>13, <1>14
       DEF Next, Api, Worker, Environment, LookUpHash, OpenDecision, Reject, OrphanExpires,
           LockExpires, Rebalance, vars
-----------------------------------------------------------------------------
(* A step of a worker at an import leaves every other worker and every      *)
(* other import where they were.                                            *)
LEMMA StepAtImport ==
    ASSUME Types, Guarded, Staging, OneGuardLeft, NEW w \in Workers, Working(w),
           NEW i \in Imports, i = Import(w),
           source' = source, event' = event, upload' = upload, desk' = desk,
           \A v \in Workers \ {w} : wpc'[v] = wpc[v] /\ copied'[v] = copied[v],
           \A j \in Imports \ {i} : status'[j] = status[j] /\ staged'[j] = staged[j],
           status'[i] = status[i] \/ status[i] \in {"IMPORT_CREATED", "VALIDATING", "APPROVED"},
           wpc'[w] # "idle" => Progress(w)',
           Shown(i)'
    PROVE  Staging'
<1>1. /\ \A v \in Workers : wpc[v] # "idle" => Import(v) \in Imports
      /\ \A o \in Operators : desk[o] # NoEvent => desk[o].import \in Imports
      /\ upload \subseteq Imports
    BY EventFacts, DecisionFacts DEF Types, WorkTypes, ApiTypes, Import
<1>2. ASSUME NEW v \in Workers, wpc'[v] # "idle"
      PROVE  Progress(v)'
    <2>1. CASE v = w
        BY <1>2, <2>1
    <2>2. CASE v # w /\ Working(v)
        <3>1. Import(v) # i
            BY <2>2, OneWorker
        <3>2. /\ wpc'[v] = wpc[v] /\ copied'[v] = copied[v] /\ event'[v] = event[v]
              /\ status'[Import(v)] = status[Import(v)] /\ staged'[Import(v)] = staged[Import(v)]
              /\ Progress(v)
            BY <1>1, <1>2, <2>2, <3>1 DEF Staging
        <3> QED
            BY <3>2 DEF Progress, Import
    <2>3. CASE v # w /\ ~Working(v)
        BY <2>3 DEF Progress, Working
    <2> QED
        BY <2>1, <2>2, <2>3
<1>3. ASSUME NEW j \in Imports
      PROVE  Shown(j)'
    BY DEF Shown, Staging
<1>4. Decided'
    BY <1>1 DEF Decided, Staging
<1>5. Uploading'
    BY <1>1 DEF Uploading, Staging
<1> QED
    BY <1>2, <1>3, <1>4, <1>5 DEF Staging

(* A worker that stages, step by step.                                      *)
LEMMA StagingSteps ==
    ASSUME Types, Guarded, Staging, OneGuardLeft, NEW w \in Workers,
           Claim(w) \/ Clear(w) \/ CopyChunk(w) \/ MarkDuplicateRows(w) \/ Summarize(w)
    PROVE  Staging'
<1> USE DEF workVars, dbVars, apiVars
<1>1. /\ Working(w) /\ source' = source /\ event' = event /\ upload' = upload /\ desk' = desk
    BY DEF Claim, Clear, CopyChunk, MarkDuplicateRows, Summarize, Working
<1>2. /\ wpc \in [Workers -> Labels] /\ copied \in [Workers -> Nat]
      /\ status \in [Imports -> Statuses] /\ staged = [j \in Imports |-> staged[j]]
      /\ Import(w) \in Imports
    BY <1>1, EventFacts DEF Types, WorkTypes, RowTypes, Working, Import
<1>3. PICK i \in Imports : i = Import(w)
    BY <1>2
<1>4. PICK f : f = source[i]
    OBVIOUS
<1>5. Import(w) = i /\ event'[w].import = i /\ source[i] = f /\ source'[i] = f
    BY <1>1, <1>3, <1>4 DEF Import
<1>6. Progress(w) /\ Shown(i)
    BY <1>1, <1>2 DEF Staging, Working
<1>7. CASE Claim(w)
    <2>1. /\ staged' = staged /\ copied' = copied
          /\ \A j \in Imports : j # i => status'[j] = status[j]
          /\ \A v \in Workers : v # w => wpc'[v] = wpc[v]
          /\ \/ status[i] \in {"IMPORT_CREATED", "VALIDATING"} /\ status'[i] = "VALIDATING"
                /\ wpc'[w] = "clear"
             \/ status'[i] = status[i] /\ wpc'[w] = "release"
        BY <1>2, <1>5, <1>7 DEF Claim, Goto, Stageable
    <2>2. Progress(w)'
        BY <1>5, <2>1 DEF Progress, Import
    <2>3. Shown(i)'
        BY <1>1, <1>6, <2>1 DEF Shown
    <2> QED
        BY <1>1, <1>2, <1>5, <2>1, <2>2, <2>3, StepAtImport
<1>8. CASE Clear(w)
    <2>1. /\ status' = status /\ status[i] = "VALIDATING"
          /\ \A j \in Imports : j # i => staged'[j] = staged[j]
          /\ staged'[i] = <<>> /\ copied'[w] = 0 /\ wpc'[w] = "copy"
          /\ \A v \in Workers : v # w => wpc'[v] = wpc[v] /\ copied'[v] = copied[v]
        BY <1>2, <1>5, <1>6, <1>8 DEF Clear, Goto, Progress
    <2>2. f \in Resolved => 0 <= Len(ClassifiedChunks[f]) /\ CopiedRows(Content[f], 0) = <<>>
        BY NothingCopied, ChunkFacts, ChunksOfContent
    <2>3. Progress(w)'
        BY <1>5, <2>1, <2>2 DEF Progress, Import
    <2>4. Shown(i)'
        BY <2>1 DEF Shown
    <2> QED
        BY <1>1, <1>2, <1>5, <2>1, <2>3, <2>4, StepAtImport
<1>9. CASE CopyChunk(w)
    <2> DEFINE c == copied[w]
               chunks == ClassifiedChunks[f]
    <2>1. /\ status' = status /\ wpc' = wpc /\ wpc[w] = "copy" /\ f \in Resolved
          /\ c < Len(chunks) /\ copied' = [copied EXCEPT ![w] = c + 1]
          /\ staged' = [staged EXCEPT ![i] = staged[i] \o chunks[c + 1]]
        BY <1>2, <1>5, <1>9 DEF CopyChunk, ChunksOf
    <2>2. status[i] = "VALIDATING" /\ staged[i] = CopiedRows(Content[f], c)
        BY <1>5, <1>6, <2>1 DEF Progress
    <2>3. c \in Nat /\ Len(chunks) \in Nat
        BY <1>2, <2>1, ChunkFacts, ChunksOfContent
    <2>4. staged'[i] = CopiedRows(Content[f], c + 1)
        BY <1>2, <2>1, <2>2, <2>3, ChunkCopied, ChunksOfContent
    <2>5. copied'[w] = c + 1 /\ c + 1 <= Len(chunks)
        BY <1>2, <2>1, <2>3
    <2>6. Progress(w)'
        BY <1>5, <2>1, <2>2, <2>4, <2>5 DEF Progress, Import
    <2>7. Shown(i)'
        BY <2>1, <2>2 DEF Shown
    <2>8. /\ \A j \in Imports : j # i => staged'[j] = staged[j]
          /\ \A v \in Workers : v # w => copied'[v] = copied[v]
        BY <1>2, <2>1
    <2> QED
        BY <1>1, <1>2, <1>5, <2>1, <2>6, <2>7, <2>8, StepAtImport
<1>10. CASE MarkDuplicateRows(w)
    <2>1. /\ status' = status /\ wpc[w] = "copy" /\ f \in Resolved /\ copied' = copied
          /\ copied[w] = Len(ClassifiedChunks[f])
          /\ staged' = [staged EXCEPT ![i] = MarkDuplicates(staged[i])]
          /\ wpc'[w] = "summarize" /\ \A v \in Workers : v # w => wpc'[v] = wpc[v]
        BY <1>2, <1>5, <1>10 DEF MarkDuplicateRows, ChunksOf, Goto
    <2>2. status[i] = "VALIDATING" /\ staged[i] = CopiedRows(Content[f], copied[w])
        BY <1>5, <1>6, <2>1 DEF Progress
    <2>3. staged'[i] = WholeFile[f]
        BY <1>2, <2>1, <2>2, AllCopied, ChunksOfContent DEF WholeFile
    <2>4. Progress(w)'
        BY <1>5, <2>1, <2>2, <2>3 DEF Progress, Import
    <2>5. Shown(i)'
        BY <2>1, <2>2 DEF Shown
    <2>6. \A j \in Imports : j # i => staged'[j] = staged[j]
        BY <1>2, <2>1
    <2> QED
        BY <1>1, <1>2, <1>5, <2>1, <2>4, <2>5, <2>6, StepAtImport
<1>11. CASE Summarize(w)
    <2>1. /\ staged' = staged /\ copied' = copied /\ wpc[w] = "summarize"
          /\ \A j \in Imports : j # i => status'[j] = status[j]
          /\ status'[i] = "PREVIEW_READY" /\ wpc'[w] = "release"
          /\ \A v \in Workers : v # w => wpc'[v] = wpc[v]
        BY <1>2, <1>5, <1>11 DEF Summarize, Goto
    <2>2. status[i] = "VALIDATING" /\ f \in Resolved /\ staged[i] = WholeFile[f]
        BY <1>5, <1>6, <2>1 DEF Progress
    <2>3. Progress(w)'
        BY <2>1 DEF Progress, Import
    <2>4. Shown(i)'
        BY <1>5, <2>1, <2>2 DEF Shown
    <2> QED
        BY <1>1, <1>2, <1>5, <2>1, <2>2, <2>3, <2>4, StepAtImport
<1> QED
    BY <1>7, <1>8, <1>9, <1>10, <1>11

(* A worker that commits, and one that is done.                             *)
LEMMA CommitSteps ==
    ASSUME Types, Guarded, Staging, OneGuardLeft, NEW w \in Workers,
           Check(w) \/ OpenCommit(w) \/ InsertVersion(w) \/ Release(w)
    PROVE  Staging'
<1> USE DEF workVars, dbVars, apiVars
<1>1. /\ Working(w) /\ source' = source /\ event' = event /\ upload' = upload /\ desk' = desk
      /\ staged' = staged /\ copied' = copied
    BY DEF Check, OpenCommit, InsertVersion, Release, Working
<1>2. /\ wpc \in [Workers -> Labels] /\ status \in [Imports -> Statuses]
      /\ Import(w) \in Imports /\ event[w] \in Events
    BY <1>1, EventFacts DEF Types, WorkTypes, RowTypes, Working, Import
<1>3. PICK i \in Imports : i = Import(w)
    BY <1>2
<1>4. PICK f : f = source[i]
    OBVIOUS
<1>5. Import(w) = i /\ event'[w].import = i /\ source[i] = f /\ source'[i] = f
    BY <1>1, <1>3, <1>4 DEF Import
<1>6. Progress(w) /\ Shown(i)
    BY <1>1, <1>2 DEF Staging, Working
<1>7. CASE Check(w)
    <2>1. /\ status' = status /\ \A v \in Workers : v # w => wpc'[v] = wpc[v]
          /\ wpc'[w] \in {"release", "claim", "commit"}
          /\ wpc'[w] = "commit" => status[i] = "APPROVED" /\ event[w].type = "commit"
        BY <1>2, <1>5, <1>7, EventFacts DEF Check, Goto, Expected
    <2>2. Progress(w)'
        BY <1>1, <1>5, <2>1 DEF Progress, Import
    <2>3. Shown(i)'
        BY <1>1, <1>6, <2>1 DEF Shown
    <2> QED
        BY <1>1, <1>2, <1>5, <2>1, <2>2, <2>3, StepAtImport
<1>8. CASE OpenCommit(w) \/ Release(w)
    <2>1. /\ status' = status /\ \A v \in Workers : v # w => wpc'[v] = wpc[v]
          /\ wpc'[w] \in {"insert", "ack"}
          /\ wpc'[w] = "insert" => wpc[w] = "commit"
        BY <1>2, <1>5, <1>8 DEF OpenCommit, Release, Goto
    <2>2. Progress(w)'
        BY <1>1, <1>6, <1>5, <2>1 DEF Progress, Import
    <2>3. Shown(i)'
        BY <1>1, <1>6, <2>1 DEF Shown
    <2> QED
        BY <1>1, <1>2, <1>5, <2>1, <2>2, <2>3, StepAtImport
<1>9. CASE InsertVersion(w)
    <2>1. /\ \A v \in Workers : v # w => wpc'[v] = wpc[v]
          /\ wpc[w] = "insert" /\ wpc'[w] = "release" /\ status'[i] = "READY"
          /\ \A j \in Imports : j # i => status'[j] = status[j]
        BY <1>2, <1>5, <1>9 DEF InsertVersion, Goto
    <2>2. status[i] = "APPROVED"
        BY <1>5, <1>6, <2>1 DEF Progress
    <2>3. Progress(w)'
        BY <2>1 DEF Progress, Import
    <2>4. Shown(i)'
        BY <2>1 DEF Shown
    <2> QED
        BY <1>1, <1>2, <1>5, <2>1, <2>2, <2>3, <2>4, StepAtImport
<1> QED
    BY <1>7, <1>8, <1>9
(* The API and whatever goes wrong.                                         *)
LEMMA ApiSteps ==
    ASSUME Types, Staging, OneOperator,
           \/ \E i \in Imports : CreateImport(i) \/ \E k \in Kinds, f \in Files : LookUpHash(i, k, f)
           \/ \E o \in Operators :
                 \/ \E i \in Imports, v \in {"approve", "reject"} : OpenDecision(o, i, v)
                 \/ Reject(o) \/ \E t \in Targets : Approve(o, t)
    PROVE  Staging'
<1> USE DEF workVars, dbVars, apiVars, Import
<1>1. /\ \A v \in Workers : wpc[v] # "idle" => event[v].import \in Imports
      /\ status \in [Imports -> Statuses] /\ source \in [Imports -> Files]
      /\ desk \in [Operators -> Decisions \cup {NoEvent}]
      /\ upload \subseteq Imports
    BY EventFacts DEF Types, WorkTypes, RowTypes, ApiTypes
<1>2. wpc' = wpc /\ event' = event /\ copied' = copied /\ staged' = staged
    BY DEF CreateImport, LookUpHash, OpenDecision, Reject, Approve
<1>3. ASSUME NEW i \in Imports, NEW k \in Kinds, NEW f \in Files, LookUpHash(i, k, f)
      PROVE  Staging'
    <2>1. /\ status' = status /\ status[i] = "ABSENT" /\ desk' = desk
          /\ upload' = upload \cup {i} /\ source' = [source EXCEPT ![i] = f]
        BY <1>3 DEF LookUpHash
    <2>2. \A j \in Imports : status[j] # "ABSENT" => source'[j] = source[j]
        BY <1>1, <2>1
    <2>3. ASSUME NEW v \in Workers, wpc'[v] # "idle"
          PROVE  Progress(v)'
        <3>1. Progress(v) /\ event[v].import \in Imports
            BY <1>1, <1>2, <2>3 DEF Staging
        <3> QED
            BY <1>2, <2>1, <2>2, <3>1 DEF Progress
    <2>4. ASSUME NEW j \in Imports
          PROVE  Shown(j)'
        BY <1>2, <2>1, <2>2 DEF Shown, Staging
    <2>5. Decided' /\ Uploading'
        BY <2>1 DEF Decided, Uploading, Staging
    <2> QED
        BY <2>3, <2>4, <2>5 DEF Staging
<1>4. ASSUME source' = source,
             \A j \in Imports : \/ status'[j] = status[j]
                                \/ status[j] = "ABSENT" /\ status'[j] = "IMPORT_CREATED"
                                \/ status[j] = "PREVIEW_READY" /\ status'[j] \in {"APPROVED", "REJECTED"}
      PROVE  /\ \A v \in Workers : wpc'[v] # "idle" => Progress(v)'
             /\ \A j \in Imports : Shown(j)'
    <2>1. ASSUME NEW v \in Workers, wpc'[v] # "idle"
          PROVE  Progress(v)'
        <3>1. Progress(v) /\ event[v].import \in Imports
            BY <1>1, <1>2, <2>1 DEF Staging
        <3> QED
            BY <1>2, <1>4, <3>1 DEF Progress
    <2>2. ASSUME NEW j \in Imports
          PROVE  Shown(j)'
        BY <1>2, <1>4 DEF Shown, Staging
    <2> QED
        BY <2>1, <2>2
<1>5. ASSUME NEW i \in Imports, CreateImport(i)
      PROVE  Staging'
    <2>1. /\ i \in upload /\ upload' = upload \ {i} /\ source' = source /\ desk' = desk
          /\ status' = status \/ status' = [status EXCEPT ![i] = "IMPORT_CREATED"]
          /\ status[i] = "ABSENT"
        BY <1>5 DEF CreateImport, Staging, Uploading
    <2>2. Decided' /\ Uploading'
        BY <1>1, <2>1, DecisionFacts DEF Decided, Uploading, Staging
    <2> QED
        BY <1>1, <1>4, <2>1, <2>2 DEF Staging
<1>6. ASSUME NEW o \in Operators, NEW i \in Imports, NEW v \in {"approve", "reject"},
             OpenDecision(o, i, v)
      PROVE  Staging'
    <2>1. /\ status' = status /\ status[i] = "PREVIEW_READY" /\ upload' = upload
          /\ source' = source /\ desk' = [desk EXCEPT ![o] = [type |-> v, import |-> i]]
        BY <1>6 DEF OpenDecision
    <2>2. Decided' /\ Uploading'
        BY <1>1, <2>1 DEF Decided, Uploading, Staging
    <2> QED
        BY <1>4, <2>1, <2>2 DEF Staging
<1>7. ASSUME NEW o \in Operators, Reject(o) \/ \E t \in Targets : Approve(o, t)
      PROVE  Staging'
    <2>1. desk[o] # NoEvent
        BY <1>7, DecisionFacts DEF Reject, Approve
    <2>2. desk[o].import \in Imports
        BY <1>1, <2>1, DecisionFacts
    <2>3. PICK i \in Imports : i = desk[o].import
        BY <2>2
    <2>4. /\ status[i] = "PREVIEW_READY" /\ source' = source /\ upload' = upload
          /\ desk' = [desk EXCEPT ![o] = NoEvent]
          /\ \/ status' = [status EXCEPT ![i] = "APPROVED"]
             \/ status' = [status EXCEPT ![i] = "REJECTED"]
        BY <1>7, <2>1, <2>3 DEF Reject, Approve, Staging, Decided
    <2>5. Decided'
        BY <1>1, <2>4 DEF Decided, OneOperator
    <2>6. Uploading'
        BY <1>1, <2>4 DEF Uploading, Staging
    <2> QED
        BY <1>1, <1>4, <2>4, <2>5, <2>6 DEF Staging
<1> QED
    BY <1>3, <1>5, <1>6, <1>7

(* Every step keeps what is staged, shown and decided. *)
LEMMA StagingNext ==
    Types /\ Guarded /\ Staging /\ OneGuardLeft /\ OneOperator /\ [Next]_vars => Staging'
<1> SUFFICES ASSUME Types, Guarded, Staging, OneGuardLeft, OneOperator, [Next]_vars
             PROVE  Staging'
    OBVIOUS
<1> USE DEF workVars, dbVars, apiVars
<1>1. wpc \in [Workers -> Labels]
    BY DEF Types, WorkTypes
<1>2. ASSUME UNCHANGED <<status, source, staged, desk, upload>>,
             \A v \in Workers :
                \/ /\ wpc[v] # "idle" /\ wpc'[v] = wpc[v]
                   /\ event'[v] = event[v] /\ copied'[v] = copied[v]
                \/ wpc'[v] \in {"idle", "check"}
      PROVE  Staging'
    <2>1. ASSUME NEW v \in Workers, wpc'[v] # "idle"
          PROVE  Progress(v)'
        <3>1. CASE wpc'[v] = "check"
            BY <3>1 DEF Progress
        <3>2. CASE wpc'[v] # "check"
            <4>1. /\ Progress(v) /\ wpc'[v] = wpc[v]
                  /\ event'[v] = event[v] /\ copied'[v] = copied[v]
                BY <1>2, <2>1, <3>2 DEF Staging
            <4> QED
                BY <1>2, <4>1 DEF Progress, Import
        <3> QED
            BY <3>1, <3>2
    <2> QED
        BY <1>2, <2>1 DEF Staging, Shown, Decided, Uploading
<1>3. ASSUME NEW w \in Workers, NEW p \in Partitions, Fetch(w, p)
      PROVE  Staging'
    <2>1. /\ UNCHANGED <<status, source, staged, desk, upload, copied>>
          /\ wpc' = [wpc EXCEPT ![w] = "check"]
          /\ event' = [event EXCEPT ![w] = Head(topic[p])]
        BY <1>3 DEF Fetch, Goto
    <2>2. event \in [Workers -> Events \cup {NoEvent}]
        BY DEF Types, WorkTypes
    <2> QED
        BY <1>1, <1>2, <2>1, <2>2
<1>4. ASSUME NEW w \in Workers, Ack(w) \/ SeekBack(w) \/ Crash(w)
      PROVE  Staging'
    <2>1. Stop(w) /\ UNCHANGED <<status, source, staged, desk, upload>>
        BY <1>4 DEF Ack, SeekBack, Crash
    <2>2. \A v \in Workers : wpc'[v] # "idle" =>
             /\ wpc[v] # "idle" /\ wpc'[v] = wpc[v]
             /\ event'[v] = event[v] /\ copied'[v] = copied[v]
        BY <2>1, Stops DEF Types
    <2> QED
        BY <1>2, <2>1, <2>2
<1>5. CASE UNCHANGED <<status, source, staged, desk, upload, wpc, event, copied>>
    BY <1>2, <1>5
<1> QED
    BY <1>3, <1>4, <1>5, ApiSteps, StagingSteps, CommitSteps
       DEF Next, Api, Worker, Environment, RetryStaging, RetryCommit, Publish, OrphanExpires,
           LockExpires, Rebalance, vars
-----------------------------------------------------------------------------
(* What the contract sees of an import.                                     *)
Phases == [i \in Imports |-> Phase(status[i])]
KindSeen == [i \in Imports |-> IF status[i] = "ABSENT" THEN "none" ELSE kind[i]]
FileSeen == [i \in Imports |-> IF status[i] = "ABSENT" THEN "none" ELSE source[i]]

(* The phase of each status. *)
LEMMA PhaseFacts ==
    /\ Phase("ABSENT") = "absent" /\ Phase("IMPORT_CREATED") = "received"
    /\ Phase("VALIDATING") = "received" /\ Phase("PREVIEW_READY") = "shown"
    /\ Phase("APPROVED") = "approved" /\ Phase("REJECTED") = "rejected"
    /\ Phase("READY") = "live"
BY DEF Phase, Stageable

(* A step that leaves reports, approvals and versions alone, and takes no   *)
(* import to another phase, is none of the contract.                        *)
LEMMA SamePhases ==
    ASSUME UNCHANGED <<summary, asked, catalogue>>,
           \A i \in Imports :
              /\ Phase(status'[i]) = Phase(status[i])
              /\ status'[i] = "ABSENT" <=> status[i] = "ABSENT"
              /\ status[i] # "ABSENT" => kind'[i] = kind[i] /\ source'[i] = source[i]
    PROVE  UNCHANGED Contract!vars
<1>1. Phases' = Phases /\ KindSeen' = KindSeen /\ FileSeen' = FileSeen
    BY DEF Phases, KindSeen, FileSeen
<1> QED
    BY <1>1 DEF Contract!vars, Phases, KindSeen, FileSeen

(* A step that takes one import from one phase to another.                  *)
LEMMA OnePhase ==
    ASSUME Types, NEW i \in Imports, NEW s \in Statuses, s # "ABSENT",
           status' = [status EXCEPT ![i] = s], kind' = kind, source' = source
    PROVE  /\ Phases' = [Phases EXCEPT ![i] = Phase(s)]
           /\ KindSeen' = [KindSeen EXCEPT ![i] = kind[i]]
           /\ FileSeen' = [FileSeen EXCEPT ![i] = source[i]]
           /\ status[i] # "ABSENT" => KindSeen' = KindSeen /\ FileSeen' = FileSeen
<1>1. status \in [Imports -> Statuses]
    BY DEF Types, RowTypes
<1>2. \A j \in Imports : status'[j] = IF j = i THEN s ELSE status[j]
    BY <1>1
<1>3. Phases' = [Phases EXCEPT ![i] = Phase(s)]
    <2>1. \A j \in Imports : Phase(status'[j]) = IF j = i THEN Phase(s) ELSE Phase(status[j])
        BY <1>2
    <2> QED
        BY <2>1 DEF Phases
<1>4. KindSeen' = [KindSeen EXCEPT ![i] = kind[i]]
    BY <1>2 DEF KindSeen
<1>5. FileSeen' = [FileSeen EXCEPT ![i] = source[i]]
    BY <1>2 DEF FileSeen
<1>6. ASSUME status[i] # "ABSENT"
      PROVE  KindSeen' = KindSeen /\ FileSeen' = FileSeen
    BY <1>2, <1>6 DEF KindSeen, FileSeen
<1> QED
    BY <1>3, <1>4, <1>5, <1>6

(* An upload that is the first of its file is received ...                  *)
LEMMA ReceiveStep ==
    ASSUME Types, Staging, NEW i \in Imports, CreateImport(i)
    PROVE  [Contract!Next]_(Contract!vars)
<1> USE DEF dbVars
<1>1. /\ status[i] = "ABSENT" /\ kind[i] \in {"BASE", "DND"} /\ source[i] \in Files
      /\ UNCHANGED <<kind, source, summary, asked, catalogue>>
    BY DEF CreateImport, Staging, Uploading, Types, RowTypes, Kinds
<1>2. CASE Existing(source[i]) # {}
    <2>1. status' = status
        BY <1>2 DEF CreateImport
    <2> QED
        BY <1>1, <2>1, SamePhases
<1>3. CASE Existing(source[i]) = {}
    <2>1. status' = [status EXCEPT ![i] = "IMPORT_CREATED"]
        BY <1>3 DEF CreateImport
    <2>2. /\ Phases' = [Phases EXCEPT ![i] = "received"]
          /\ KindSeen' = [KindSeen EXCEPT ![i] = kind[i]]
          /\ FileSeen' = [FileSeen EXCEPT ![i] = source[i]]
        BY <1>1, <2>1, OnePhase, PhaseFacts DEF Statuses
    <2>3. Phases[i] = "absent"
        BY <1>1, PhaseFacts DEF Phases
    <2>4. \A j \in Imports : FileSeen[j] # source[i]
        BY <1>1, <1>3, ImportAssumption DEF Existing, FileSeen
    <2>5. PICK k \in {"BASE", "DND"}, f \in Files : k = kind[i] /\ f = source[i]
        BY <1>1
    <2>6. Contract!Receive(i, k, f)
        BY <1>1, <2>2, <2>3, <2>4, <2>5 DEF Contract!Receive, Phases, KindSeen, FileSeen
    <2> QED
        BY <2>6 DEF Contract!Next
<1> QED
    BY <1>2, <1>3

(* ... a decision is about what is shown ...                                *)
LEMMA DecideStep ==
    ASSUME Types, Staging, NEW o \in Operators, Reject(o) \/ \E t \in Targets : Approve(o, t)
    PROVE  [Contract!Next]_(Contract!vars)
<1> USE DEF dbVars
<1>1. desk[o] # NoEvent
    BY DecisionFacts DEF Reject, Approve
<1>2. desk[o].import \in Imports
    BY <1>1, DecisionFacts DEF Types, ApiTypes
<1>3. PICK i \in Imports : i = desk[o].import
    BY <1>2
<1>4. status[i] = "PREVIEW_READY"
    BY <1>1, <1>3 DEF Staging, Decided
<1>5. Phases[i] = "shown" /\ asked = [j \in Imports |-> asked[j]]
    BY <1>4, PhaseFacts DEF Phases, Types, ApiTypes
<1>6. CASE Reject(o)
    <2>1. /\ status' = [status EXCEPT ![i] = "REJECTED"]
          /\ UNCHANGED <<kind, source, summary, asked, catalogue>>
        BY <1>3, <1>6 DEF Reject
    <2>2. Phases' = [Phases EXCEPT ![i] = "rejected"] /\ KindSeen' = KindSeen /\ FileSeen' = FileSeen
        BY <1>4, <2>1, OnePhase, PhaseFacts DEF Statuses
    <2>3. Contract!Decide(i, "rejected", i)
        BY <1>5, <2>1, <2>2 DEF Contract!Decide, Phases, KindSeen, FileSeen
    <2> QED
        BY <2>3 DEF Contract!Next
<1>7. ASSUME NEW t \in Targets, Approve(o, t)
      PROVE  [Contract!Next]_(Contract!vars)
    <2>1. /\ status' = [status EXCEPT ![i] = "APPROVED"]
          /\ asked' = [asked EXCEPT ![i] = @ \cup {t}]
          /\ UNCHANGED <<kind, source, summary, catalogue>>
        BY <1>3, <1>7 DEF Approve
    <2>2. Phases' = [Phases EXCEPT ![i] = "approved"] /\ KindSeen' = KindSeen /\ FileSeen' = FileSeen
        BY <1>4, <2>1, OnePhase, PhaseFacts DEF Statuses
    <2>3. Contract!Decide(i, "approved", t)
        BY <1>5, <2>1, <2>2 DEF Contract!Decide, Phases, KindSeen, FileSeen
    <2> QED
        BY <2>3 DEF Contract!Next
<1> QED
    BY <1>6, <1>7

(* ... a commit that is asked for again is one that was approved ...        *)
LEMMA AskAgainStep ==
    ASSUME Types, NEW i \in Imports, NEW t \in Targets, RetryCommit(i, t)
    PROVE  [Contract!Next]_(Contract!vars)
<1>1. /\ status[i] = "APPROVED" /\ asked' = [asked EXCEPT ![i] = @ \cup {t}]
      /\ UNCHANGED <<status, kind, source, summary, catalogue>>
    BY DEF RetryCommit, dbVars
<1>2. Phases[i] = "approved" /\ UNCHANGED <<Phases, KindSeen, FileSeen>>
    BY <1>1, PhaseFacts DEF Phases, KindSeen, FileSeen
<1>3. Contract!AskAgain(i, t)
    BY <1>1, <1>2 DEF Contract!AskAgain, Phases, KindSeen, FileSeen
<1> QED
    BY <1>3 DEF Contract!Next

(* ... what is shown is the whole file ...                                  *)
LEMMA ShowStep ==
    ASSUME Types, Staging, NEW w \in Workers, Summarize(w)
    PROVE  [Contract!Next]_(Contract!vars)
<1> USE DEF dbVars, apiVars
<1>1. wpc[w] = "summarize" /\ Import(w) \in Imports
    BY EventFacts DEF Summarize, Types, WorkTypes, Import
<1>2. PICK i \in Imports : i = Import(w)
    BY <1>1
<1>3. /\ status[i] = "VALIDATING" /\ source[i] \in Resolved
      /\ staged[i] = WholeFile[source[i]]
    BY <1>1, <1>2 DEF Staging, Progress
<1>4. /\ status' = [status EXCEPT ![i] = "PREVIEW_READY"]
      /\ summary' = [summary EXCEPT ![i] = Summary(staged[i])]
      /\ UNCHANGED <<kind, source, asked, catalogue>>
    BY <1>2 DEF Summarize
<1>5. Phases' = [Phases EXCEPT ![i] = "shown"] /\ KindSeen' = KindSeen /\ FileSeen' = FileSeen
    BY <1>3, <1>4, OnePhase, PhaseFacts DEF Statuses
<1>6. Phases[i] = "received" /\ FileSeen[i] = source[i]
    BY <1>3, PhaseFacts DEF Phases, FileSeen
<1>7. Report[FileSeen[i]] = Summary(staged[i])
    BY <1>3, <1>6 DEF Report
<1>8. Contract!Show(i)
    BY <1>4, <1>5, <1>6, <1>7 DEF Contract!Show, Phases, KindSeen, FileSeen
<1> QED
    BY <1>8 DEF Contract!Next
(* ... and a commit is published on an approval, with the rows that were    *)
(* shown, and retires what was current of its base.                         *)
LEMMA PublishStep ==
    ASSUME Types, Staging, Asked, NEW w \in Workers, InsertVersion(w)
    PROVE  [Contract!Next]_(Contract!vars)
<1> USE DEF dbVars, apiVars
<1>1. wpc[w] = "insert" /\ event[w] \in Events /\ Import(w) \in Imports
    BY EventFacts DEF InsertVersion, Types, WorkTypes, Import
<1>2. PICK i \in Imports : i = Import(w)
    BY <1>1
<1>3. /\ status[i] = "APPROVED" /\ event[w].type = "commit"
      /\ source[i] \in Resolved /\ staged[i] = WholeFile[source[i]]
    BY <1>1, <1>2 DEF Staging, Progress, Shown
<1>4. event[w].target \in Targets /\ event[w].target \in asked[i]
    BY <1>1, <1>2, <1>3, EventFacts DEF Asked, AskedFor, Import
<1>5. PICK t \in Targets : t = event[w].target
    BY <1>4
<1>6. PICK k \in Kinds : k = kind[i]
    BY DEF Types, RowTypes
<1> DEFINE new == [kind |-> k, target |-> t, source |-> i, current |-> TRUE,
                   members |-> Members(k, staged[i])]
<1>7. /\ status' = [status EXCEPT ![i] = "READY"] /\ ~Conflict(w)
      /\ catalogue' = Append(Retired(w), new)
      /\ UNCHANGED <<kind, source, summary, asked>>
    BY <1>2, <1>5, <1>6 DEF InsertVersion
<1>8. Phases' = [Phases EXCEPT ![i] = "live"] /\ KindSeen' = KindSeen /\ FileSeen' = FileSeen
    BY <1>3, <1>7, OnePhase, PhaseFacts DEF Statuses
<1>9. Phases[i] = "approved" /\ FileSeen[i] = source[i] /\ KindSeen[i] = k
    BY <1>3, <1>6, PhaseFacts DEF Phases, FileSeen, KindSeen
<1>10. Yield[k][FileSeen[i]] = Members(k, staged[i])
    BY <1>3, <1>9 DEF Yield
<1>11. \A n \in DOMAIN catalogue :
          Retired(w)[n] = IF k = "BASE" /\ n \in Contract!Versions(t, "BASE")
                          THEN [catalogue[n] EXCEPT !.current = FALSE] ELSE catalogue[n]
    <2> SUFFICES ASSUME NEW n \in DOMAIN catalogue
                 PROVE  Retired(w)[n] = IF k = "BASE" /\ n \in Contract!Versions(t, "BASE")
                                        THEN [catalogue[n] EXCEPT !.current = FALSE]
                                        ELSE catalogue[n]
        OBVIOUS
    <2>1. k = "BASE" => (n \in Contract!Versions(t, "BASE") <=> n \in VersionsOf(w))
        BY <1>2, <1>5, <1>6 DEF Contract!Versions, VersionsOf
    <2>2. Retired(w)[n] = IF k = "BASE" /\ n \in VersionsOf(w) \ Unseen(w)
                          THEN [catalogue[n] EXCEPT !.current = FALSE] ELSE catalogue[n]
        BY <1>2, <1>6 DEF Retired
    <2>3. CASE n \in Unseen(w)
        <3>1. Version(catalogue[n])
            BY DEF Types, CatalogueTypes
        <3>2. catalogue[n].current = FALSE
            BY <1>7, <2>3, <3>1 DEF Conflict, Version
        <3> DEFINE v == catalogue[n]
        <3>3. [v EXCEPT !.current = FALSE] = v
            BY <3>1, <3>2 DEF Version
        <3> HIDE DEF v
        <3> QED
            BY <2>1, <2>2, <2>3, <3>3 DEF v
    <2>4. CASE n \notin Unseen(w)
        BY <2>1, <2>2, <2>4
    <2> QED
        BY <2>3, <2>4
<1>12. Retired(w) = [n \in DOMAIN catalogue |->
                        IF k = "BASE" /\ n \in Contract!Versions(t, "BASE")
                        THEN [catalogue[n] EXCEPT !.current = FALSE] ELSE catalogue[n]]
    <2>1. Retired(w) = [n \in DOMAIN catalogue |-> Retired(w)[n]]
        BY DEF Retired
    <2> QED
        BY <1>11, <2>1
<1>13. Contract!Publish(i, t)
    <2>1. KindSeen[i] = "BASE" <=> k = "BASE"
        BY <1>9
    <2>2. new = [kind |-> KindSeen[i], target |-> t, source |-> i, current |-> TRUE,
                 members |-> Yield[KindSeen[i]][FileSeen[i]]]
        BY <1>9, <1>10
    <2>3. catalogue' = Append(
                [n \in DOMAIN catalogue |->
                    IF KindSeen[i] = "BASE" /\ n \in Contract!Versions(t, "BASE")
                    THEN [catalogue[n] EXCEPT !.current = FALSE] ELSE catalogue[n]],
                [kind |-> KindSeen[i], target |-> t, source |-> i, current |-> TRUE,
                 members |-> Yield[KindSeen[i]][FileSeen[i]]])
        BY <1>7, <1>12, <1>9, <2>2
    <2>4. t \in asked[i]
        BY <1>4, <1>5
    <2> QED
        BY <1>7, <1>8, <1>9, <2>3, <2>4 DEF Contract!Publish, Phases, KindSeen, FileSeen
<1> QED
    BY <1>13 DEF Contract!Next

(* Every step is one of the contract, or none to it.                        *)
LEMMA ContractStep ==
    ASSUME Types, Staging, Asked, [Next]_vars
    PROVE  [Contract!Next]_(Contract!vars)
<1> USE DEF dbVars, apiVars
<1>1. ASSUME NEW i \in Imports, NEW k \in Kinds, NEW f \in Files, LookUpHash(i, k, f)
      PROVE  UNCHANGED Contract!vars
    <2>1. /\ status[i] = "ABSENT" /\ UNCHANGED <<status, summary, asked, catalogue>>
          /\ \A j \in Imports : j # i => kind'[j] = kind[j] /\ source'[j] = source[j]
        BY <1>1 DEF LookUpHash, Types, RowTypes
    <2> QED
        BY <2>1, SamePhases
<1>2. ASSUME NEW w \in Workers, Claim(w)
      PROVE  UNCHANGED Contract!vars
    <2>1. /\ UNCHANGED <<summary, asked, catalogue, kind, source>>
          /\ \/ status' = status
             \/ status' = [status EXCEPT ![Import(w)] = "VALIDATING"]
                /\ status[Import(w)] \in {"IMPORT_CREATED", "VALIDATING"}
        BY <1>2 DEF Claim, Stageable
    <2>2. \A j \in Imports : \/ status'[j] = status[j]
                             \/ /\ status[j] \in {"IMPORT_CREATED", "VALIDATING"}
                                /\ status'[j] = "VALIDATING"
        BY <2>1 DEF Types, RowTypes
    <2>3. \A j \in Imports : /\ Phase(status'[j]) = Phase(status[j])
                             /\ status'[j] = "ABSENT" <=> status[j] = "ABSENT"
        BY <2>2, PhaseFacts
    <2> QED
        BY <2>1, <2>3, SamePhases
<1>3. CASE UNCHANGED <<status, kind, source, summary, asked, catalogue>>
    BY <1>3, SamePhases
<1> QED
    BY <1>1, <1>2, <1>3, ReceiveStep, DecideStep, AskAgainStep, ShowStep, PublishStep
       DEF Next, Api, Worker, Environment, OpenDecision, RetryStaging, Publish, Fetch, Check,
           Clear, CopyChunk, MarkDuplicateRows, OpenCommit, Release, Ack, SeekBack, Crash,
           OrphanExpires, LockExpires, Rebalance, workVars, vars

(* The pipeline implements ImportContract: whatever workers are killed,     *)
(* evicted or retried, the preview shows the whole file, only an approval   *)
(* leads to a commit, and a commit happens once, with the rows that were    *)
(* shown (stage_import, commit_import, the API); as long as one of the two  *)
(* guards of an import is left and one operator decides at a time.          *)
THEOREM ImportsImplementContract ==
    ASSUME OneGuardLeft, OneOperator
    PROVE  Spec => ImplementsContract
<1>1. Init => Contract!Init
    <2> SUFFICES ASSUME Init PROVE Contract!Init
        OBVIOUS
    <2>1. /\ Phases = [i \in Imports |-> "absent"]
          /\ KindSeen = [i \in Imports |-> "none"]
          /\ FileSeen = [i \in Imports |-> "none"]
        BY PhaseFacts DEF Init, Phases, KindSeen, FileSeen
    <2> QED
        BY <2>1 DEF Init, Contract!Init, Phases, KindSeen, FileSeen
<1>2. Init => Guarded /\ Asked /\ Staging
    <2> SUFFICES ASSUME Init PROVE Guarded /\ Asked /\ Staging
        OBVIOUS
    <2>1. Guarded
        BY DEF Init, Guarded, Working
    <2>2. Asked
        BY DEF Init, Asked
    <2>3. Staging
        BY DEF Init, Staging, Shown, Decided, Uploading
    <2> QED
        BY <2>1, <2>2, <2>3
<1>3. Types /\ Guarded /\ [Next]_vars => Guarded'
    BY GuardedNext
<1>4. Types /\ Asked /\ [Next]_vars => Asked'
    BY AskedNext
<1>5. Types /\ Guarded /\ Staging /\ [Next]_vars => Staging'
    BY StagingNext
<1>6. Types /\ Staging /\ Asked /\ [Next]_vars => [Contract!Next]_(Contract!vars)
    BY ContractStep
<1> QED
    BY <1>1, <1>2, <1>3, <1>4, <1>5, <1>6, TypesHold, PTL
       DEF Spec, ImplementsContract, Contract!Spec

-----------------------------------------------------------------------------
(* The spellings of a number                                                *)

(* The last digits of a number, which Subscriber takes of a piece.          *)
LastDigits(d) == SubSeq(d, Len(d) - SubscriberLength + 1, Len(d))

(* What Normalize takes for a number is one in canonical form.              *)
LEMMA AcceptedCandidate ==
    ASSUME NEW p, Normalize(p).msisdn # NoNumber
    PROVE  /\ p.digits # <<>> /\ Candidate(p.digits) # NoNumber
           /\ Canonical(Candidate(p.digits))
           /\ Normalize(p) = [msisdn |-> Candidate(p.digits), reason |-> NoReason]
BY DEF Normalize, Rejected

(* What two numbers have behind the same code is the same. *)
LEMMA SameRest ==
    ASSUME NEW u \in Seq(Nat), NEW a \in Seq(Nat), NEW b \in Seq(Nat), u \o a = u \o b
    PROVE  a = b
<1>1. Len(u) \in Nat /\ Len(a) \in Nat /\ Len(b) \in Nat
    BY LenProperties
<1>2. Len(u) + Len(a) = Len(u) + Len(b)
    BY ConcatProperties
<1>3. Len(a) = Len(b)
    BY <1>1, <1>2
<1>4. ASSUME NEW i \in 1..Len(a) PROVE a[i] = b[i]
    <2>1. Len(u) + i \in 1..(Len(u) + Len(a)) /\ ~(Len(u) + i <= Len(u))
          /\ Len(u) + i - Len(u) = i
        BY <1>1
    <2> QED
        BY <1>2, <2>1, ConcatProperties
<1> QED
    BY <1>3, <1>4, SeqEqual

(* Each way to read a number puts the country code before its last digits.  *)
LEMMA CodeAndSubscriber ==
    ASSUME NEW d \in Seq(Nat), Candidate(d) # NoNumber
    PROVE  LastDigits(d) \in Seq(Nat) /\ Candidate(d) = CountryCode \o LastDigits(d)
<1> DEFINE c == Len(CountryCode)
           l == Len(d)
           s == SubscriberLength
<1>1. /\ CountryCode \in Seq(Nat) /\ c \in Nat /\ c > 1 /\ l \in Nat /\ s \in Nat \ {0}
      /\ CountryCode \in [1..c -> Nat] /\ d \in [1..l -> Nat]
    <2>1. CountryCode \in Seq(Nat) /\ c > 1 /\ s \in Nat \ {0}
        BY SeqMonotonic, IngestAssumption
    <2> QED
        BY <2>1, LenProperties
<1>2. \/ IsPrefix(CountryCode, d) /\ l = c + s /\ Candidate(d) = d
      \/ l = s + 1 /\ Candidate(d) = CountryCode \o Tail(d)
      \/ l = s /\ Candidate(d) = CountryCode \o d
    <2>1. c + s # s + 1 /\ c + s # s /\ s + 1 # s
        BY <1>1
    <2>2. CASE IsPrefix(CountryCode, d) /\ l = c + s
        BY <2>1, <2>2 DEF Candidate
    <2>3. CASE IsPrefix(<<0>>, d) /\ l = s + 1
        BY <2>1, <2>3 DEF Candidate
    <2>4. CASE l = s
        BY <2>1, <2>4 DEF Candidate
    <2>5. CASE /\ ~(IsPrefix(CountryCode, d) /\ l = c + s)
               /\ ~(IsPrefix(<<0>>, d) /\ l = s + 1) /\ l # s
        BY <2>5 DEF Candidate
    <2> QED
        BY <2>2, <2>3, <2>4, <2>5
<1>3. l - s + 1 \in 1..(l + 1) /\ l - s \in Nat
    <2>1. c \in Nat /\ l \in Nat /\ s \in Nat /\ s > 0
        BY <1>1
    <2>2. l = c + s \/ l = s + 1 \/ l = s
        BY <1>2
    <2> HIDE DEF c, l, s
    <2> QED
        BY <2>1, <2>2
<1>4. LastDigits(d) \in Seq(Nat)
    <2>1. \A i \in (l - s + 1)..l : d[i] \in Nat
        BY <1>1, <1>3
    <2> QED
        BY <1>1, <2>1, SubSeqProperties DEF LastDigits
<1>5. CASE IsPrefix(CountryCode, d) /\ l = c + s /\ Candidate(d) = d
    <2>1. SubSeq(CountryCode, 1, c) = CountryCode
        BY <1>1, SubSeqFull
    <2>2. SubSeq(d, 1, c) = CountryCode
        BY <1>5, <2>1 DEF IsPrefix
    <2>3. l - s = c /\ 1 \in 1..(l + 1) /\ c \in (1 - 1)..l /\ l \in c..l
        BY <1>1, <1>5
    <2>4. SubSeq(d, 1, c) \o SubSeq(d, c + 1, l) = SubSeq(d, 1, l)
        BY <2>3, ConcatAdjacentSubSeq
    <2>5. SubSeq(d, 1, l) = d
        BY SubSeqFull
    <2> QED
        BY <1>4, <1>5, <2>2, <2>3, <2>4, <2>5 DEF LastDigits
<1>6. CASE l = s + 1 /\ Candidate(d) = CountryCode \o Tail(d)
    <2>1. d # <<>> /\ l - s + 1 = 2
        BY <1>1, <1>6
    <2>2. Tail(d) = SubSeq(d, 2, l)
        BY <2>1, TailIsSubSeq
    <2> QED
        BY <1>4, <1>6, <2>1, <2>2 DEF LastDigits
<1>7. CASE l = s /\ Candidate(d) = CountryCode \o d
    <2>1. l - s + 1 = 1
        BY <1>1, <1>7
    <2>2. LastDigits(d) = d
        BY <2>1, SubSeqFull DEF LastDigits
    <2> QED
        BY <1>4, <1>7, <2>2
<1> QED
    BY <1>2, <1>5, <1>6, <1>7

(* A canonical number is a candidate as it is. *)
LEMMA CanonicalStays ==
    ASSUME NEW m, Canonical(m)
    PROVE  m # <<>> /\ Candidate(m) = m
<1>1. /\ IsPrefix(CountryCode, m) /\ Len(m) = Len(CountryCode) + SubscriberLength
      /\ Len(CountryCode) \in Nat /\ Len(CountryCode) > 1 /\ SubscriberLength \in Nat \ {0}
    BY IngestAssumption, LenProperties DEF Canonical
<1>2. Len(m) # SubscriberLength + 1 /\ Len(m) # SubscriberLength /\ Len(m) # 0
    BY <1>1
<1>3. Candidate(m) = m
    BY <1>1, <1>2 DEF Candidate
<1>4. m # <<>>
    BY <1>2, EmptySeq
<1> QED
    BY <1>3, <1>4

(* In every file, whatever it holds, the accepted spellings of a number are *)
(* the same number, those of two numbers are two, and a canonical number is *)
(* a spelling of itself (SpellingsAgree).                                   *)
THEOREM SpellingsOfOneNumber == FileOK => SpellingsAgree
<1> SUFFICES ASSUME FileOK PROVE SpellingsAgree
    OBVIOUS
<1>1. ASSUME NEW p \in Accepted
      PROVE  /\ p.digits \in Seq(Nat) /\ Subscriber(p) = LastDigits(p.digits)
             /\ Normalize(p).msisdn # NoNumber
    <2>1. PICK n \in DOMAIN file.lines :
              \E k \in DOMAIN file.lines[n] : p \in ToSet(file.lines[n][k])
        BY DEF Accepted, Pieces
    <2>2. PICK k \in DOMAIN file.lines[n] : p \in ToSet(file.lines[n][k])
        BY <2>1
    <2>3. n \in 1..Len(file.lines) /\ file.lines[n] \in Seq(Seq(Piece) \ {<<>>})
        BY LenProperties, ElementOfSeq DEF FileOK
    <2>4. file.lines[n][k] \in Seq(Piece)
        BY <2>3, LenProperties, ElementOfSeq
    <2>5. p \in Piece
        BY <2>2, <2>4, LenProperties, ElementOfSeq DEF ToSet
    <2> QED
        BY <2>5 DEF Piece, Subscriber, LastDigits, Accepted
<1>2. ASSUME NEW p \in Accepted
      PROVE  /\ Canonical(Normalize(p).msisdn)
             /\ Normalize(Digits(Normalize(p).msisdn)) = Normalize(p)
    <2> DEFINE m == Candidate(p.digits)
    <2>1. /\ Canonical(m) /\ m # <<>> /\ m # NoNumber
          /\ Normalize(p) = [msisdn |-> m, reason |-> NoReason]
        BY <1>1, AcceptedCandidate DEF NoNumber
    <2> HIDE DEF m
    <2>2. Candidate(m) = m
        BY <2>1, CanonicalStays
    <2>3. Digits(m).digits = m /\ ~Blank(Digits(m))
        BY <2>1 DEF Digits, Blank
    <2>4. Normalize(Digits(m)) = [msisdn |-> m, reason |-> NoReason]
        BY <2>1, <2>2, <2>3 DEF Normalize
    <2> QED
        BY <2>1, <2>4
<1>3. ASSUME NEW p \in Accepted, NEW q \in Accepted
      PROVE  Normalize(p) = Normalize(q) <=> Subscriber(p) = Subscriber(q)
    <2> DEFINE a == LastDigits(p.digits)
               b == LastDigits(q.digits)
    <2>1. /\ a \in Seq(Nat) /\ Subscriber(p) = a
          /\ Normalize(p) = [msisdn |-> CountryCode \o a, reason |-> NoReason]
        BY <1>1, AcceptedCandidate, CodeAndSubscriber
    <2>2. /\ b \in Seq(Nat) /\ Subscriber(q) = b
          /\ Normalize(q) = [msisdn |-> CountryCode \o b, reason |-> NoReason]
        BY <1>1, AcceptedCandidate, CodeAndSubscriber
    <2> HIDE DEF a, b
    <2>3. CountryCode \in Seq(Nat)
        BY SeqMonotonic, IngestAssumption
    <2>4. CountryCode \o a = CountryCode \o b => a = b
        BY <2>1, <2>2, <2>3, SameRest
    <2>5. /\ Normalize(p).msisdn = CountryCode \o a
          /\ Normalize(q).msisdn = CountryCode \o b
        BY <2>1, <2>2
    <2>6. a = b => Normalize(p) = Normalize(q)
        BY <2>1, <2>2
    <2>7. Normalize(p) = Normalize(q) => a = b
        BY <2>4, <2>5
    <2> QED
        BY <2>1, <2>2, <2>6, <2>7
<1> QED
    BY <1>2, <1>3 DEF SpellingsAgree

-----------------------------------------------------------------------------
(* The lines of data, and what staging makes of them.  First induction: the *)
(* least number outside a set would have a predecessor.                     *)
LEMMA LeastNumber ==
    ASSUME NEW T, T \subseteq Nat, T # {}
    PROVE  \E x \in T : \A y \in T : x <= y
<1> DEFINE R == OpToRel(<, Nat)
<1>1. \E x \in T : \A y \in T : ~ (<<y, x>> \in R)
    <2> HIDE DEF R
    <2>1. IsWellFoundedOn(R, Nat)
        BY NatLessThanWellFounded DEF R
    <2> QED
        BY <2>1, WFMin
<1>2. PICK x \in T : \A y \in T : ~ (<<y, x>> \in R)
    BY <1>1
<1>3. ASSUME NEW y \in T
      PROVE  x <= y
    <2>1. y < x => <<y, x>> \in R
        BY DEF OpToRel
    <2> HIDE DEF R
    <2>2. ~(y < x)
        BY <1>2, <2>1
    <2> QED
        BY <2>2
<1> QED
    BY <1>3

(* So what holds of 0 and of the number after each holds of all.            *)
LEMMA SetInduction ==
    ASSUME NEW S, 0 \in S, \A n \in Nat : n \in S => n + 1 \in S
    PROVE  \A n \in Nat : n \in S
<1> DEFINE T == {n \in Nat : n \notin S}
<1>1. SUFFICES ASSUME T # {} PROVE FALSE
    OBVIOUS
<1>2. PICK x \in T : \A y \in T : x <= y
    BY <1>1, LeastNumber
<1>3. x \in Nat /\ x # 0 /\ x - 1 \in Nat /\ ~(x <= x - 1)
    OBVIOUS
<1>4. x - 1 \in T
    BY <1>3
<1> QED
    BY <1>2, <1>3, <1>4

(* What has been read after a line, by what had been read before it.        *)
FirstLine(x) == IF HasHeader(x) THEN 2 ELSE 1
After(f, x, n) ==
    IF n < FirstLine(x) THEN <<>>
    ELSE IF BlankLine(x.lines[n]) THEN f[n - 1]
    ELSE Append(f[n - 1], [number |-> n, cells |-> x.lines[n]])
Reading(f, x, k) == f = [n \in 0..k |-> After(f, x, n)]

(* A file can be read so, line by line;                                     *)
LEMMA ReadingExists ==
    ASSUME NEW x, NEW k \in Nat
    PROVE  \E f : Reading(f, x, k)
<1> DEFINE S == {j \in Nat : \E f : Reading(f, x, j)}
<1>0. FirstLine(x) \in {1, 2}
    BY DEF FirstLine
<1>1. 0 \in S
    <2> DEFINE f == [n \in 0..0 |-> <<>>]
    <2>1. \A n \in 0..0 : After(f, x, n) = <<>>
        BY <1>0 DEF After
    <2> HIDE DEF f
    <2>2. f = [n \in 0..0 |-> After(f, x, n)]
        BY <2>1 DEF f
    <2> QED
        BY <2>2 DEF Reading
<1>2. ASSUME NEW j \in Nat, j \in S
      PROVE  j + 1 \in S
    <2>1. PICK f : Reading(f, x, j)
        BY <1>2
    <2> DEFINE g == [n \in 0..(j + 1) |-> IF n <= j THEN f[n] ELSE After(f, x, n)]
    <2>2. \A n \in 0..j : g[n] = f[n] /\ f[n] = After(f, x, n)
        BY <2>1 DEF Reading
    <2>3. g[j + 1] = After(f, x, j + 1)
        OBVIOUS
    <2>4. g = [n \in 0..(j + 1) |-> g[n]]
        OBVIOUS
    <2> HIDE DEF g
    <2>5. ASSUME NEW n \in 0..(j + 1)
          PROVE  After(g, x, n) = After(f, x, n)
        <3>1. CASE n < FirstLine(x)
            BY <3>1 DEF After
        <3>2. CASE ~(n < FirstLine(x))
            <4>1. n - 1 \in 0..j
                BY <1>0, <3>2
            <4>2. g[n - 1] = f[n - 1]
                BY <2>2, <4>1
            <4> QED
                BY <3>2, <4>2 DEF After
        <3> QED
            BY <3>1, <3>2
    <2>6. ASSUME NEW n \in 0..(j + 1)
          PROVE  g[n] = After(g, x, n)
        <3>1. n \in 0..j \/ n = j + 1
            OBVIOUS
        <3> QED
            BY <2>2, <2>3, <2>5, <3>1
    <2>7. Reading(g, x, j + 1)
        BY <2>4, <2>6 DEF Reading
    <2> QED
        BY <2>7
<1> HIDE DEF S
<1>3. k \in S
    BY <1>1, <1>2, SetInduction
<1> QED
    BY <1>3 DEF S

(* and the lines of data are what has been read after the last line.        *)
LEMMA DataRead ==
    ASSUME NEW x, Len(x.lines) \in Nat
    PROVE  \E f : Reading(f, x, Len(x.lines)) /\ DataLines(x) = f[Len(x.lines)]
<1> DEFINE Read(f) == f = [n \in 0..Len(x.lines) |->
               IF n < FirstLine(x) THEN <<>>
               ELSE IF BlankLine(x.lines[n]) THEN f[n - 1]
               ELSE Append(f[n - 1], [number |-> n, cells |-> x.lines[n]])]
           read == CHOOSE f : Read(f)
<1>1. \A f : Read(f) <=> Reading(f, x, Len(x.lines))
    BY DEF Reading, After
<1>2. Read(read)
    <2>1. \E f : Read(f)
        BY <1>1, ReadingExists
    <2> HIDE DEF Read
    <2> QED
        BY <2>1
<1>3. DataLines(x) = read[Len(x.lines)]
    BY DEF DataLines, FirstLine
<1> HIDE DEF Read, read
<1> QED
    BY <1>1, <1>2, <1>3

IsData(x, n) == n >= FirstLine(x) /\ ~BlankLine(x.lines[n])
LineRow(x) == [number : 1..Len(x.lines), cells : {x.lines[n] : n \in 1..Len(x.lines)}]
ReadUpTo(d, x, j) ==
    /\ d \in Seq(LineRow(x))
    /\ \A i \in 1..Len(d) :
          /\ d[i].number \in 1..j /\ IsData(x, d[i].number)
          /\ d[i].cells = x.lines[d[i].number]
    /\ \A i, l \in 1..Len(d) : i < l => d[i].number < d[l].number
    /\ \A n \in 1..j : IsData(x, n) => \E i \in 1..Len(d) : d[i].number = n

(* The lines of data are in their order, each once.                         *)
LEMMA DataLinesInOrder ==
    ASSUME NEW x, Len(x.lines) \in Nat
    PROVE  ReadUpTo(DataLines(x), x, Len(x.lines))
<1> DEFINE N == Len(x.lines)
<1>1. PICK f : Reading(f, x, N) /\ DataLines(x) = f[N]
    BY DataRead
<1>2. FirstLine(x) \in {1, 2} /\ N \in Nat
    BY DEF FirstLine
<1> DEFINE S == {j \in Nat : j <= N => ReadUpTo(f[j], x, j)}
<1>3. \A n \in 0..N : f[n] = After(f, x, n)
    BY <1>1 DEF Reading
<1>4. 0 \in S
    <2>1. f[0] = <<>>
        <3>1. 0 \in 0..N /\ 0 < FirstLine(x)
            BY <1>2
        <3>2. f[0] = After(f, x, 0)
            BY <1>3, <3>1
        <3> QED
            BY <3>1, <3>2 DEF After
    <2>2. <<>> \in Seq(LineRow(x)) /\ Len(<<>>) = 0
        OBVIOUS
    <2>3. ReadUpTo(<<>>, x, 0)
        BY <2>2 DEF ReadUpTo
    <2> QED
        BY <2>1, <2>3
<1>5. ASSUME NEW j \in Nat, j \in S, j + 1 <= N
      PROVE  ReadUpTo(f[j + 1], x, j + 1)
    <2> DEFINE d == f[j]
               n == j + 1
    <2>1. ReadUpTo(d, x, j) /\ n \in 1..N /\ f[n] = After(f, x, n) /\ n - 1 = j
        BY <1>2, <1>3, <1>5
    <2>2. /\ d \in Seq(LineRow(x)) /\ Len(d) \in Nat
          /\ \A i \in 1..Len(d) : d[i].number \in 1..j /\ d[i].number < n
        BY <2>1, LenProperties DEF ReadUpTo
    <2> HIDE DEF d
    <2>3. ASSUME NEW m \in 1..n
          PROVE  m \in 1..j \/ m = n
        BY <1>5
    <2>4. \A m \in 1..j : m \in 1..n
        BY <1>5
    <2>5. CASE ~IsData(x, n)
        <3>1. f[n] = IF n < FirstLine(x) THEN <<>> ELSE d
            BY <1>2, <2>1, <2>5 DEF After, IsData, d
        <3>2. CASE n < FirstLine(x)
            <4>1. \A m \in 1..n : ~IsData(x, m)
                BY <1>2, <3>2 DEF IsData
            <4>2. f[n] = <<>> /\ <<>> \in Seq(LineRow(x)) /\ Len(<<>>) = 0
                BY <3>1, <3>2
            <4> QED
                BY <4>1, <4>2 DEF ReadUpTo
        <3>3. CASE ~(n < FirstLine(x))
            <4>1. f[n] = d
                BY <3>1, <3>3
            <4>2. \A m \in 1..n : IsData(x, m) => m \in 1..j
                BY <2>3, <2>5
            <4>3. \A i \in 1..Len(d) : d[i].number \in 1..n
                BY <2>2, <2>4
            <4> QED
                BY <2>1, <4>1, <4>2, <4>3 DEF ReadUpTo
        <3> QED
            BY <3>2, <3>3
    <2>6. CASE IsData(x, n)
        <3> DEFINE row == [number |-> n, cells |-> x.lines[n]]
                   e == Append(d, row)
        <3>1. f[n] = e
            BY <1>2, <2>1, <2>6 DEF After, IsData, d
        <3>2. row \in LineRow(x) /\ row.number = n /\ row.cells = x.lines[n]
            BY <2>1 DEF LineRow
        <3> HIDE DEF row
        <3>3. /\ e \in Seq(LineRow(x)) /\ Len(e) = Len(d) + 1
              /\ \A i \in 1..Len(d) : e[i] = d[i]
              /\ e[Len(d) + 1] = row
            BY <2>2, <3>2, AppendProperties
        <3> HIDE DEF e
        <3>4. \A i \in 1..Len(e) : i \in 1..Len(d) \/ i = Len(e)
            BY <2>2, <3>3
        <3>5. ASSUME NEW i \in 1..Len(e)
              PROVE  /\ e[i].number \in 1..n /\ IsData(x, e[i].number)
                     /\ e[i].cells = x.lines[e[i].number]
            <4>1. CASE i \in 1..Len(d)
                BY <2>1, <2>4, <3>3, <4>1 DEF ReadUpTo
            <4>2. CASE i = Len(e)
                <5>1. n \in 1..n
                    BY <2>1
                <5> QED
                    BY <2>6, <3>2, <3>3, <4>2, <5>1
            <4> QED
                BY <3>4, <4>1, <4>2
        <3>6. ASSUME NEW i \in 1..Len(e), NEW l \in 1..Len(e), i < l
              PROVE  e[i].number < e[l].number
            <4>1. i \in 1..Len(d)
                BY <2>2, <3>3, <3>6
            <4>2. CASE l \in 1..Len(d)
                BY <2>1, <3>3, <3>6, <4>1, <4>2 DEF ReadUpTo
            <4>3. CASE l = Len(e)
                BY <2>2, <3>2, <3>3, <4>1, <4>3
            <4> QED
                BY <3>4, <4>2, <4>3
        <3>7. ASSUME NEW m \in 1..n, IsData(x, m)
              PROVE  \E i \in 1..Len(e) : e[i].number = m
            <4>1. CASE m \in 1..j
                <5>1. PICK i \in 1..Len(d) : d[i].number = m
                    BY <2>1, <3>7, <4>1 DEF ReadUpTo
                <5>2. i \in 1..Len(e)
                    BY <2>2, <3>3
                <5> QED
                    BY <3>3, <5>1, <5>2
            <4>2. CASE m = n
                <5>1. Len(e) \in 1..Len(e)
                    BY <2>2, <3>3
                <5> QED
                    BY <3>2, <3>3, <4>2, <5>1
            <4> QED
                BY <2>3, <4>1, <4>2
        <3> QED
            BY <3>1, <3>3, <3>5, <3>6, <3>7 DEF ReadUpTo
    <2> QED
        BY <2>5, <2>6
<1>6. ASSUME NEW j \in Nat, j \in S
      PROVE  j + 1 \in S
    BY <1>5, <1>6
<1> HIDE DEF S
<1>7. N \in S
    BY <1>2, <1>4, <1>6, SetInduction
<1> QED
    BY <1>1, <1>2, <1>7 DEF S

(* What is counted the same in two ways has as many elements.               *)
LEMMA CountedOnce ==
    ASSUME NEW S, IsFiniteSet(S), NEW T, NEW f \in [S -> T],
           \A a, b \in S : f[a] = f[b] => a = b,
           \A y \in T : \E a \in S : f[a] = y
    PROVE  IsFiniteSet(T) /\ Cardinality(T) = Cardinality(S)
<1>1. f \in Bijection(S, T)
    BY DEF Bijection, Injection, Surjection, IsInjective
<1>2. ExistsBijection(S, T)
    BY <1>1 DEF ExistsBijection
<1> QED
    BY <1>2, FS_Bijection

(* The numbers of the lines a file has.                                     *)
LEMMA LinesNumbered ==
    ASSUME FileOK
    PROVE  /\ Len(file.lines) \in Nat /\ DOMAIN file.lines = 1..Len(file.lines)
           /\ LinesOfData = {n \in 1..Len(file.lines) : IsData(file, n)}
<1>1. Len(file.lines) \in Nat /\ DOMAIN file.lines = 1..Len(file.lines)
    BY LenProperties DEF FileOK
<1>2. ASSUME NEW n \in 1..Len(file.lines)
      PROVE  IsData(file, n) <=> ~BlankLine(file.lines[n]) /\ (HasHeader(file) => n > 1)
    <2>1. CASE HasHeader(file)
        <3>1. n >= 2 <=> n > 1
            BY <1>1
        <3> QED
            BY <2>1, <3>1 DEF IsData, FirstLine
    <2>2. CASE ~HasHeader(file)
        <3>1. n >= 1
            BY <1>1
        <3> QED
            BY <2>2, <3>1 DEF IsData, FirstLine
    <2> QED
        BY <2>1, <2>2
<1> QED
    BY <1>1, <1>2 DEF LinesOfData

(* The rows of a file are its lines of data, in their order.                *)
LEMMA RowsInOrder ==
    ASSUME FileOK
    PROVE  LET rows == Rows(file)
               n == Len(rows)
           IN /\ n \in Nat /\ DOMAIN rows = 1..n
              /\ \A k \in 1..n : rows[k].row_number \in LinesOfData /\ rows[k].row_number \in Nat
              /\ \A j, k \in 1..n : j < k => rows[j].row_number < rows[k].row_number
              /\ \A l \in LinesOfData : \E k \in 1..n : rows[k].row_number = l
<1> DEFINE rows == Rows(file)
           lines == DataLines(file)
           n == Len(lines)
<1>1. ReadUpTo(lines, file, Len(file.lines))
    BY LinesNumbered, DataLinesInOrder
<1>2. n \in Nat
    BY <1>1, LenProperties DEF ReadUpTo
<1>3. DOMAIN rows = 1..n /\ \A k \in 1..n : rows[k].row_number = lines[k].number
    BY DEF Rows, Parse
<1>4. Len(rows) = n
    BY <1>2, <1>3 DEF Rows
<1> HIDE DEF rows, lines, n
<1>5. /\ \A k \in 1..n : lines[k].number \in LinesOfData /\ lines[k].number \in Nat
      /\ \A j, k \in 1..n : j < k => lines[j].number < lines[k].number
      /\ \A l \in LinesOfData : \E k \in 1..n : lines[k].number = l
    BY <1>1, LinesNumbered DEF ReadUpTo, n
<1> QED
    BY <1>2, <1>3, <1>4, <1>5 DEF rows

(* Flattened, the chunks of a file are its rows.                            *)
LEMMA ChunksFlattened ==
    ASSUME NEW x
    PROVE  FlattenSeq(ChunksOfFile(x)) = Classified(Rows(x))
<1> DEFINE chunks == ChunksOfFile(x)
           m == Len(chunks)
           g == [i \in 1..m |-> CopiedRows(x, i)]
           Flat(f) == f = [i \in 1..m |-> IF i = 1 THEN chunks[i] ELSE f[i - 1] \o chunks[i]]
           flatten == CHOOSE f : Flat(f)
<1>1. m \in Nat /\ DOMAIN chunks = 1..m
    BY ChunkFacts
<1>2. CASE m = 0
    <2>1. CopiedRows(x, m) = Classified(Rows(x))
        BY AllCopied
    <2>2. Classified(Rows(x)) = <<>>
        BY <1>2, <2>1, NothingCopied
    <2>3. chunks = <<>>
        BY <1>1, <1>2 DEF ChunksOfFile
    <2> QED
        BY <1>2, <2>2, <2>3 DEF FlattenSeq
<1>3. CASE m # 0
    <2>1. ASSUME NEW i \in 1..m
          PROVE  /\ CopiedRows(x, i) = CopiedRows(x, i - 1) \o chunks[i]
                 /\ i = 1 => CopiedRows(x, i) = chunks[i]
        <3>1. i - 1 \in Nat /\ i - 1 < m /\ (i - 1) + 1 = i
            BY <1>1
        <3> DEFINE c == i - 1
        <3>2. c \in Nat /\ c < m /\ c + 1 = i
            BY <3>1
        <3> HIDE DEF c
        <3>3. CopiedRows(x, c) \o chunks[i] = CopiedRows(x, i) /\ \E S : chunks[i] \in Seq(S)
            BY <3>2, ChunkCopied
        <3>4. ASSUME i = 1
              PROVE  CopiedRows(x, i) = chunks[i]
            <4>1. CopiedRows(x, c) = <<>>
                BY <3>1, <3>4, NothingCopied DEF c
            <4> QED
                BY <3>3, <4>1, ConcatEmptySeq
        <3> QED
            BY <3>3, <3>4 DEF c
    <2> HIDE DEF chunks, m
    <2>2. \A i \in 1..m : i # 1 => i - 1 \in 1..m
        BY <1>1
    <2>3. Flat(g)
        BY <2>1, <2>2
    <2>4. Flat(flatten)
        <3> HIDE DEF g, Flat
        <3> QED
            BY <2>3
    <2>5. FlattenSeq(chunks) = flatten[m]
        BY <1>3 DEF FlattenSeq, m
    <2> HIDE DEF g, flatten
    <2>6. \A i \in 1..m : flatten[i] = IF i = 1 THEN chunks[i] ELSE flatten[i - 1] \o chunks[i]
        BY <2>4
    <2> HIDE DEF Flat
    <2> DEFINE S == {i \in Nat : i \in 1..m => flatten[i] = CopiedRows(x, i)}
    <2>7. 0 \in S
        OBVIOUS
    <2>8. ASSUME NEW i \in Nat, i \in S
          PROVE  i + 1 \in S
        <3> SUFFICES ASSUME i + 1 \in 1..m PROVE flatten[i + 1] = CopiedRows(x, i + 1)
            OBVIOUS
        <3> DEFINE k == i + 1
        <3>1. k \in 1..m /\ k - 1 = i /\ (k # 1 => i \in 1..m)
            BY <1>1, <2>8
        <3>2. k # 1 => flatten[i] = CopiedRows(x, i)
            BY <2>8, <3>1
        <3> HIDE DEF k, S
        <3>3. k = 1 => flatten[k] = CopiedRows(x, k)
            BY <2>1, <2>6, <3>1
        <3>4. ASSUME k # 1
              PROVE  flatten[k] = CopiedRows(x, k)
            <4>1. flatten[k] = flatten[k - 1] \o chunks[k]
                BY <2>6, <3>1, <3>4
            <4>2. CopiedRows(x, k) = CopiedRows(x, k - 1) \o chunks[k]
                BY <2>1, <3>1
            <4> QED
                BY <3>1, <3>2, <3>4, <4>1, <4>2
        <3>5. flatten[k] = CopiedRows(x, k)
            BY <3>3, <3>4
        <3> QED
            BY <3>5 DEF k
    <2> HIDE DEF S
    <2>9. m \in S
        BY <1>1, <2>7, <2>8, SetInduction
    <2>10. flatten[m] = CopiedRows(x, m)
        BY <1>1, <1>3, <2>9 DEF S
    <2> QED
        BY <2>5, <2>10, AllCopied DEF chunks, m
<1> QED
    BY <1>2, <1>3

(* So staging copies the rows, one by one.                                  *)
LEMMA CopiedIsClassified == Copied = Classified(Rows(file))
<1>1. [c \in DOMAIN Chunks(file) |->
          [k \in DOMAIN Chunks(file)[c] |-> Classify(Chunks(file)[c][k])]] = ChunksOfFile(file)
    BY DEF ChunksOfFile, Classified
<1> QED
    BY <1>1, ChunksFlattened DEF Copied

(* No chunk is empty or too long.                                           *)
LEMMA ChunkSizes ==
    ASSUME NEW x, NEW c \in DOMAIN Chunks(x)
    PROVE  Len(Chunks(x)[c]) \in 1..ChunkSize
<1> DEFINE chunk == Chunks(x)[c]
           m == Len(ChunksOfFile(x))
<1>1. DOMAIN ChunksOfFile(x) = DOMAIN Chunks(x) /\ DOMAIN ChunksOfFile(x) = 1..m /\ m \in Nat
    BY ChunkFacts DEF ChunksOfFile
<1>2. ChunksOfFile(x)[c] = Classified(chunk)
    BY DEF ChunksOfFile
<1>3. c - 1 \in Nat /\ c - 1 < m /\ (c - 1) + 1 = c
    BY <1>1
<1> DEFINE b == c - 1
<1>4. b \in Nat /\ b < m /\ b + 1 = c
    BY <1>3
<1> HIDE DEF b
<1>5. /\ Len(ChunksOfFile(x)[c]) \in 1..ChunkSize
      /\ \E S : ChunksOfFile(x)[c] \in Seq(S)
    BY <1>4, ChunkCopied
<1> DEFINE l == Len(Classified(chunk))
<1>6. l \in 1..ChunkSize /\ DOMAIN Classified(chunk) = 1..l
    BY <1>2, <1>5, LenProperties
<1>7. DOMAIN chunk = DOMAIN Classified(chunk)
    BY DEF Classified
<1> HIDE DEF chunk, l
<1>8. DOMAIN chunk = 1..l /\ l \in Nat
    BY <1>6, <1>7, IngestAssumption
<1> DEFINE rows == Rows(x)
           n == Len(rows)
           R == {rows[k] : k \in 1..n}
           low == b * ChunkSize
           high == Smaller(c * ChunkSize, n)
<1>9. rows \in Seq(R) /\ n \in Nat
    <2>1. n \in Nat /\ DOMAIN rows = 1..n /\ rows = [k \in DOMAIN rows |-> rows[k]]
        BY ChunkFacts DEF Rows
    <2>2. rows \in [1..n -> R]
        BY <2>1
    <2> HIDE DEF rows, n, R
    <2>3. rows \in Seq(R)
        BY <2>1, <2>2
    <2> QED
        BY <2>1, <2>3
<1>10. chunk = SubSeq(rows, low + 1, high)
    <2>1. (c - 1) * ChunkSize + 1 = low + 1
        BY DEF b
    <2> QED
        BY <2>1 DEF chunk, Chunks
<1>11. low \in Nat /\ low < n /\ c * ChunkSize = low + ChunkSize /\ ChunkSize \in Nat
    <2>1. ChunkSize \in Nat /\ low < n
        BY <1>1, <1>4, ChunkFacts, IngestAssumption
    <2> QED
        BY <1>4, <2>1
<1> HIDE DEF rows, n, R, low
<1>12. high \in (low + 1 - 1)..n /\ low + 1 \in 1..(n + 1)
    BY <1>9, <1>11 DEF Smaller
<1> HIDE DEF high
<1>13. chunk \in Seq(R)
    BY <1>9, <1>10, <1>12, SubSeqProperties DEF n
<1>14. Len(chunk) = l
    BY <1>8, <1>13, LenProperties
<1> QED
    BY <1>6, <1>14 DEF chunk

(* What staging copies: each line of data once, in its order.               *)
LEMMA CopiedFacts ==
    ASSUME FileOK
    PROVE  LET n == Len(Copied)
               rows == Rows(file)
           IN /\ n \in Nat /\ n = Len(rows) /\ DOMAIN rows = 1..n
              /\ Copied = [k \in 1..n |-> Classify(rows[k])]
              /\ \A k \in 1..n : Copied[k].row_number = rows[k].row_number
<1> DEFINE rows == Rows(file)
           n == Len(rows)
<1>1. n \in Nat /\ DOMAIN rows = 1..n
    BY RowsInOrder
<1> HIDE DEF rows, n
<1>2. Copied = [k \in 1..n |-> Classify(rows[k])]
    BY <1>1, CopiedIsClassified DEF Classified, rows
<1>3. Len(Copied) = n
    BY <1>1, <1>2
<1>4. \A k \in 1..n : Copied[k].row_number = rows[k].row_number
    BY <1>2 DEF Classify
<1> QED
    BY <1>1, <1>2, <1>3, <1>4 DEF rows, n

(* Of every file, and for chunks of any size: each line that carries data   *)
(* is staged once, and under its own number (NoLineLost).                   *)
THEOREM EveryLineIsStaged == FileOK => NoLineLost
<1> SUFFICES ASSUME FileOK PROVE NoLineLost
    OBVIOUS
<1> DEFINE n == Len(Copied)
           number == [k \in 1..n |-> Copied[k].row_number]
<1>1. /\ n \in Nat /\ DOMAIN Copied = 1..n
      /\ \A k \in 1..n : number[k] \in LinesOfData /\ number[k] \in Nat
      /\ \A j, k \in 1..n : j < k => number[j] < number[k]
      /\ \A l \in LinesOfData : \E k \in 1..n : number[k] = l
    <2> DEFINE rows == Rows(file)
    <2>1. /\ n \in Nat /\ n = Len(rows) /\ Copied = [k \in 1..n |-> Classify(rows[k])]
          /\ \A k \in 1..n : Copied[k].row_number = rows[k].row_number
        BY CopiedFacts
    <2>2. /\ \A k \in 1..n : rows[k].row_number \in LinesOfData /\ rows[k].row_number \in Nat
          /\ \A j, k \in 1..n : j < k => rows[j].row_number < rows[k].row_number
          /\ \A l \in LinesOfData : \E k \in 1..n : rows[k].row_number = l
        BY <2>1, RowsInOrder
    <2> HIDE DEF rows, n
    <2>3. \A k \in 1..n : number[k] = rows[k].row_number
        BY <2>1
    <2> HIDE DEF number
    <2> QED
        BY <2>1, <2>2, <2>3
<1>2. Len(Copied) = Cardinality(LinesOfData)
    <2>1. IsFiniteSet(1..n) /\ Cardinality(1..n) = n
        <3> HIDE DEF n
        <3>1. n \in Int /\ 1 \in Int /\ (1 > n => n = 0) /\ n - 1 + 1 = n
            BY <1>1
        <3> QED
            BY <3>1, FS_Interval
    <2>2. number \in [1..n -> LinesOfData]
        BY <1>1
    <2> HIDE DEF number, n
    <2>3. ASSUME NEW j \in 1..n, NEW k \in 1..n, number[j] = number[k]
          PROVE  j = k
        <3>1. j < k \/ k < j \/ j = k
            BY <1>1
        <3>2. ~(number[j] < number[k]) /\ ~(number[k] < number[j])
            BY <1>1, <2>3
        <3> QED
            BY <1>1, <3>1, <3>2
    <2>4. Cardinality(LinesOfData) = Cardinality(1..n)
        BY <1>1, <2>1, <2>2, <2>3, CountedOnce
    <2> QED
        BY <2>1, <2>4 DEF n
<1>3. {Copied[k].row_number : k \in DOMAIN Copied} = LinesOfData
    <2>1. \A k \in 1..n : number[k] = Copied[k].row_number
        OBVIOUS
    <2> HIDE DEF number, n
    <2>2. {number[k] : k \in 1..n} = LinesOfData
        BY <1>1
    <2>3. {Copied[k].row_number : k \in 1..n} = {number[k] : k \in 1..n}
        BY <2>1
    <2> QED
        BY <1>1, <2>2, <2>3
<1>4. \A c \in DOMAIN Chunks(file) : Len(Chunks(file)[c]) \in 1..ChunkSize
    BY ChunkSizes
<1> QED
    BY <1>2, <1>3, <1>4 DEF NoLineLost

(* The parts of a row as it is staged.                                      *)
LEMMA ClassifiedRow ==
    ASSUME NEW r
    PROVE  LET row == Classify(r)
           IN /\ row.status \in {"VALID", "INVALID"}
              /\ row.row_number = r.row_number
              /\ \A s : LET new == [row EXCEPT !.status = s]
                        IN new.status = s /\ new.msisdn = row.msisdn
                           /\ new.row_number = row.row_number
BY DEF Classify

Repeats(rows, k) ==
    /\ k \in Valid(rows)
    /\ \E j \in Valid(rows) : j < k /\ rows[j].msisdn = rows[k].msisdn

(* A row is marked as a duplicate when an earlier one that is valid has the *)
(* same number.                                                             *)
LEMMA MarkedRows ==
    ASSUME FileOK
    PROVE  LET n == Len(Copied)
           IN /\ n \in Nat /\ DOMAIN Staged = 1..n /\ DOMAIN Copied = 1..n
              /\ Len(Staged) = n
              /\ \A k \in 1..n :
                    /\ Copied[k].status \in {"VALID", "INVALID"}
                    /\ Staged[k].status = IF Repeats(Copied, k) THEN "DUPLICATE"
                                          ELSE Copied[k].status
                    /\ Staged[k].msisdn = Copied[k].msisdn
                    /\ Staged[k].row_number = Copied[k].row_number
                    /\ Staged[k].row_number \in Nat
              /\ \A j, k \in 1..n : j < k => Staged[j].row_number < Staged[k].row_number
<1> DEFINE n == Len(Copied)
           rows == Rows(file)
           first(k) == \A j \in Valid(Copied) :
                           Copied[j].msisdn = Copied[k].msisdn =>
                               ~(\/ Copied[j].row_number < Copied[k].row_number
                                 \/ /\ Copied[j].row_number = Copied[k].row_number
                                    /\ j < k)
<1>1. /\ n \in Nat /\ DOMAIN Copied = 1..n /\ n = Len(rows)
      /\ \A k \in 1..n : Copied[k] = Classify(rows[k])
      /\ \A k \in 1..n : Copied[k].row_number = rows[k].row_number
    BY CopiedFacts
<1>2. \A k \in 1..n : rows[k].row_number \in Nat
    BY <1>1, RowsInOrder
<1>3. \A j, k \in 1..n : j < k => rows[j].row_number < rows[k].row_number
    BY <1>1, RowsInOrder
<1>4. Staged = [k \in DOMAIN Copied |->
                   IF k \in Valid(Copied) /\ ~first(k)
                   THEN [Copied[k] EXCEPT !.status = "DUPLICATE"]
                   ELSE Copied[k]]
    BY DEF Staged, MarkDuplicates
<1> HIDE DEF n, rows
<1>5. \A j \in Valid(Copied) : j \in 1..n
    BY <1>1 DEF Valid
<1>6. ASSUME NEW k \in 1..n
      PROVE  k \in Valid(Copied) /\ ~first(k) <=> Repeats(Copied, k)
    <2>1. ASSUME NEW j \in 1..n
          PROVE  (\/ Copied[j].row_number < Copied[k].row_number
                  \/ Copied[j].row_number = Copied[k].row_number /\ j < k) <=> j < k
        <3>1. j < k \/ k < j \/ j = k
            BY <1>1
        <3>2. /\ Copied[j].row_number = rows[j].row_number /\ rows[j].row_number \in Nat
              /\ Copied[k].row_number = rows[k].row_number /\ rows[k].row_number \in Nat
            BY <1>1, <1>2
        <3>3. CASE j < k
            BY <1>3, <3>2, <3>3
        <3>4. CASE k < j
            <4>1. rows[k].row_number < rows[j].row_number /\ ~(j < k)
                BY <1>1, <1>3, <3>4
            <4> QED
                BY <3>2, <4>1
        <3>5. CASE j = k
            BY <1>1, <3>2, <3>5
        <3> QED
            BY <3>1, <3>3, <3>4, <3>5
    <2> QED
        BY <1>5, <2>1 DEF Repeats
<1> HIDE DEF first
<1>7. ASSUME NEW k \in 1..n
      PROVE  /\ Copied[k].status \in {"VALID", "INVALID"}
             /\ Staged[k].status = IF Repeats(Copied, k) THEN "DUPLICATE" ELSE Copied[k].status
             /\ Staged[k].msisdn = Copied[k].msisdn
             /\ Staged[k].row_number = Copied[k].row_number
    <2>1. Staged[k] = IF Repeats(Copied, k) THEN [Copied[k] EXCEPT !.status = "DUPLICATE"]
                      ELSE Copied[k]
        BY <1>1, <1>4, <1>6
    <2>2. /\ Copied[k].status \in {"VALID", "INVALID"}
          /\ LET new == [Copied[k] EXCEPT !.status = "DUPLICATE"]
             IN new.status = "DUPLICATE" /\ new.msisdn = Copied[k].msisdn
                /\ new.row_number = Copied[k].row_number
        BY <1>1, ClassifiedRow
    <2> QED
        BY <2>1, <2>2
<1>8. DOMAIN Staged = 1..n /\ Len(Staged) = n
    BY <1>1, <1>4
<1> QED
    BY <1>1, <1>2, <1>3, <1>7, <1>8 DEF n

(* Of the rows that stay valid no two have the same number, and each number *)
(* that some row had has one.                                               *)
LEMMA OneValidRow ==
    ASSUME FileOK
    PROVE  LET n == Len(Copied)
           IN /\ \A k \in 1..n : k \in Valid(Staged) <=> k \in Valid(Copied) /\ ~Repeats(Copied, k)
              /\ Valid(Staged) \subseteq 1..n /\ Valid(Copied) \subseteq 1..n
              /\ \A j, k \in Valid(Staged) : Staged[j].msisdn = Staged[k].msisdn => j = k
              /\ \A k \in Valid(Copied) : \E j \in Valid(Staged) :
                    j <= k /\ Staged[j].msisdn = Copied[k].msisdn
<1> DEFINE n == Len(Copied)
<1>1. /\ n \in Nat /\ DOMAIN Staged = 1..n /\ DOMAIN Copied = 1..n
      /\ \A k \in 1..n :
            /\ Copied[k].status \in {"VALID", "INVALID"}
            /\ Staged[k].status = IF Repeats(Copied, k) THEN "DUPLICATE" ELSE Copied[k].status
            /\ Staged[k].msisdn = Copied[k].msisdn
    BY MarkedRows
<1> HIDE DEF n
<1>2. Valid(Staged) \subseteq 1..n /\ Valid(Copied) \subseteq 1..n
    BY <1>1 DEF Valid
<1>3. ASSUME NEW k \in 1..n
      PROVE  k \in Valid(Staged) <=> k \in Valid(Copied) /\ ~Repeats(Copied, k)
    <2>1. CASE Repeats(Copied, k)
        BY <1>1, <2>1 DEF Valid
    <2>2. CASE ~Repeats(Copied, k)
        BY <1>1, <2>2 DEF Valid
    <2> QED
        BY <2>1, <2>2
<1>4. ASSUME NEW j \in Valid(Staged), NEW k \in Valid(Staged),
             Staged[j].msisdn = Staged[k].msisdn
      PROVE  ~(j < k)
    <2>1. /\ j \in 1..n /\ k \in 1..n /\ j \in Valid(Copied) /\ k \in Valid(Copied)
          /\ ~Repeats(Copied, k)
        BY <1>2, <1>3
    <2>2. Copied[j].msisdn = Copied[k].msisdn
        BY <1>1, <1>4, <2>1
    <2> QED
        BY <2>1, <2>2 DEF Repeats
<1>5. ASSUME NEW j \in Valid(Staged), NEW k \in Valid(Staged),
             Staged[j].msisdn = Staged[k].msisdn
      PROVE  j = k
    <2>1. j \in 1..n /\ k \in 1..n
        BY <1>2
    <2>2. ~(j < k) /\ ~(k < j)
        BY <1>4, <1>5
    <2> QED
        BY <1>1, <2>1, <2>2
<1>6. ASSUME NEW k \in Valid(Copied)
      PROVE  \E j \in Valid(Staged) : j <= k /\ Staged[j].msisdn = Copied[k].msisdn
    <2> DEFINE T == {j \in Valid(Copied) : Copied[j].msisdn = Copied[k].msisdn}
    <2>1. T \subseteq Nat /\ k \in T
        BY <1>1, <1>2
    <2> HIDE DEF T
    <2>2. PICK j \in T : \A i \in T : j <= i
        BY <2>1, LeastNumber
    <2>3. j \in Valid(Copied) /\ j \in 1..n /\ Copied[j].msisdn = Copied[k].msisdn
        BY <1>2, <2>2 DEF T
    <2>4. ASSUME Repeats(Copied, j)
          PROVE  FALSE
        <3>1. PICK i \in Valid(Copied) : i < j /\ Copied[i].msisdn = Copied[j].msisdn
            BY <2>4 DEF Repeats
        <3>2. i \in T
            BY <2>3, <3>1 DEF T
        <3> QED
            BY <2>1, <2>2, <3>1, <3>2
    <2>5. j \in Valid(Staged) /\ Staged[j].msisdn = Copied[k].msisdn
        BY <1>1, <1>3, <2>3, <2>4
    <2> QED
        BY <2>1, <2>2, <2>5
<1> QED
    BY <1>2, <1>3, <1>5, <1>6 DEF n

(* As many rows as there are in the three parts.                            *)
LEMMA ThreeParts ==
    ASSUME NEW n \in Nat, NEW A, NEW B, NEW C, 1..n = A \cup B \cup C,
           A \cap B = {}, (A \cup B) \cap C = {}
    PROVE  /\ IsFiniteSet(A) /\ IsFiniteSet(B) /\ IsFiniteSet(C)
           /\ n = Cardinality(A) + Cardinality(B) + Cardinality(C)
<1>1. IsFiniteSet(1..n) /\ Cardinality(1..n) = n
    <2>1. n \in Int /\ 1 \in Int /\ (1 > n => n = 0) /\ n - 1 + 1 = n
        OBVIOUS
    <2> QED
        BY <2>1, FS_Interval
<1> DEFINE N == 1..n
           AB == A \cup B
<1>2. N = AB \cup C /\ AB \cap C = {} /\ AB \subseteq N /\ A \subseteq N /\ B \subseteq N
      /\ C \subseteq N
    OBVIOUS
<1>3. IsFiniteSet(N) /\ Cardinality(N) = n
    BY <1>1
<1> HIDE DEF N
<1>4. IsFiniteSet(A) /\ IsFiniteSet(B) /\ IsFiniteSet(C) /\ IsFiniteSet(AB)
    BY <1>2, <1>3, FS_Subset
<1>5. Cardinality(AB) = Cardinality(A) + Cardinality(B) - Cardinality({})
    BY <1>4, FS_Union
<1> HIDE DEF AB
<1>6. Cardinality(N) = Cardinality(AB) + Cardinality(C) - Cardinality({})
    BY <1>2, <1>4, FS_Union
<1>7. /\ Cardinality({}) = 0 /\ Cardinality(A) \in Nat /\ Cardinality(B) \in Nat
      /\ Cardinality(C) \in Nat
    BY <1>4, FS_CardinalityType, FS_EmptySet
<1> QED
    BY <1>3, <1>4, <1>5, <1>6, <1>7

(* Of every file: the preview counts each line of data once, it counts as   *)
(* valid what a commit makes members, a row for every number that is there, *)
(* and of the rows of a number it is the first that stays (PreviewAddsUp).  *)
THEOREM PreviewCounts == FileOK => PreviewAddsUp
<1> SUFFICES ASSUME FileOK PROVE PreviewAddsUp
    OBVIOUS
<1> DEFINE n == Len(Copied)
           With(s) == {k \in DOMAIN Staged : Staged[k].status = s}
           A == With("VALID")
           B == With("INVALID")
           C == With("DUPLICATE")
           member == [k \in A |-> [msisdn |-> Staged[k].msisdn,
                                   territory |-> Zone(Staged[k]), age |-> Age(Staged[k])]]
           number == [k \in A |-> Staged[k].msisdn]
           Numbers == {Copied[k].msisdn : k \in Valid(Copied)}
<1>1. /\ n \in Nat /\ DOMAIN Staged = 1..n /\ Len(Staged) = n
      /\ \A k \in 1..n :
            /\ Copied[k].status \in {"VALID", "INVALID"}
            /\ Staged[k].status = IF Repeats(Copied, k) THEN "DUPLICATE" ELSE Copied[k].status
            /\ Staged[k].msisdn = Copied[k].msisdn /\ Staged[k].row_number \in Nat
    BY MarkedRows
<1>2. \A j, k \in 1..n : j < k => Staged[j].row_number < Staged[k].row_number
    BY MarkedRows
<1>3. Valid(Staged) = A
    BY DEF Valid
<1>4. /\ \A k \in 1..n : k \in A <=> k \in Valid(Copied) /\ ~Repeats(Copied, k)
      /\ A \subseteq 1..n /\ Valid(Copied) \subseteq 1..n
      /\ \A j, k \in A : Staged[j].msisdn = Staged[k].msisdn => j = k
      /\ \A k \in Valid(Copied) : \E j \in A : j <= k /\ Staged[j].msisdn = Copied[k].msisdn
    BY <1>3, OneValidRow
<1> HIDE DEF n
<1>5. /\ IsFiniteSet(A) /\ n = Cardinality(A) + Cardinality(B) + Cardinality(C)
    <2>1. \A k \in 1..n : Staged[k].status \in {"VALID", "INVALID", "DUPLICATE"}
        BY <1>1
    <2>2. 1..n = A \cup B \cup C /\ A \cap B = {} /\ (A \cup B) \cap C = {}
        BY <1>1, <2>1
    <2>3. n \in Nat
        BY <1>1
    <2> HIDE DEF A, B, C
    <2> HIDE DEF n
    <2>4. IsFiniteSet(A) /\ n = Cardinality(A) + Cardinality(B) + Cardinality(C)
        BY SMTT(30), <2>2, <2>3, ThreeParts
    <2> QED
        BY <2>4
<1>6. Cardinality(A) = Cardinality(BaseMembers(Staged))
    <2>1. BaseMembers(Staged) = {member[k] : k \in A}
        BY <1>3 DEF BaseMembers
    <2>2. \A k \in A : member[k].msisdn = Staged[k].msisdn
        OBVIOUS
    <2>3. DOMAIN member = A /\ member = [k \in A |-> member[k]]
        OBVIOUS
    <2> HIDE DEF A, member
    <2>4. member \in [A -> BaseMembers(Staged)]
        BY <2>1, <2>3
    <2>5. \A j, k \in A : member[j] = member[k] => j = k
        BY <1>4, <2>2
    <2>6. \A m \in BaseMembers(Staged) : \E k \in A : member[k] = m
        BY <2>1
    <2> QED
        BY <1>5, <2>4, <2>5, <2>6, CountedOnce
<1>7. Cardinality(A) = Cardinality(Numbers)
    <2>1. ASSUME NEW k \in A
          PROVE  number[k] \in Numbers
        <3>1. k \in 1..n /\ k \in Valid(Copied)
            BY <1>4
        <3> QED
            BY <1>1, <3>1
    <2>2. number \in [A -> Numbers]
        BY <2>1
    <2>3. \A k \in A : number[k] = Staged[k].msisdn
        OBVIOUS
    <2>4. /\ \A m \in Numbers : \E k \in A : Staged[k].msisdn = m
          /\ \A j, k \in A : Staged[j].msisdn = Staged[k].msisdn => j = k
        BY <1>4
    <2> HIDE DEF A, number, Numbers
    <2>5. \A j, k \in A : number[j] = number[k] => j = k
        BY <2>3, <2>4
    <2>6. \A m \in Numbers : \E k \in A : number[k] = m
        BY <2>3, <2>4
    <2> QED
        BY <1>5, <2>2, <2>5, <2>6, CountedOnce
<1>8. ASSUME NEW k \in A, NEW j \in DOMAIN Staged, Staged[j].status = "DUPLICATE",
             Staged[j].msisdn = Staged[k].msisdn
      PROVE  Staged[k].row_number < Staged[j].row_number
    <2>1. j \in 1..n /\ k \in 1..n
        BY <1>1, <1>4
    <2>2. Repeats(Copied, j)
        BY <1>1, <1>8, <2>1
    <2>3. j \in Valid(Copied) /\ j \notin A
        BY <1>4, <2>1, <2>2 DEF Repeats
    <2>4. PICK i \in A : i <= j /\ Staged[i].msisdn = Copied[j].msisdn
        BY <1>4, <2>3
    <2>5. Staged[i].msisdn = Staged[k].msisdn
        BY <1>1, <1>8, <2>1, <2>4
    <2>6. i = k
        BY <1>4, <2>4, <2>5
    <2>7. k < j
        BY <1>1, <2>1, <2>3, <2>4, <2>6
    <2> QED
        BY <1>2, <2>1, <2>7
<1>9. LET s == Summary(Staged)
      IN  /\ s.total = n /\ s.valid = Cardinality(A) /\ s.invalid = Cardinality(B)
          /\ s.duplicate = Cardinality(C)
    BY <1>1 DEF Summary, WithStatus
<1> HIDE DEF n, A, B, C
<1>10. LET s == Summary(Staged)
       IN  /\ s.total = s.valid + s.invalid + s.duplicate
           /\ s.valid = Cardinality(BaseMembers(Staged))
           /\ s.valid = Cardinality({Copied[k].msisdn : k \in Valid(Copied)})
    BY <1>5, <1>6, <1>7, <1>9
<1> QED
    BY <1>3, <1>8, <1>10 DEF PreviewAddsUp
=============================================================================
