---------------------------- MODULE OutboxProofs ----------------------------
(***************************************************************************)
(* For any number of relays, events and failures and any size of a batch:  *)
(* the types, with the locks that keep relays apart, and that what is      *)
(* marked published has arrived; and for a single relay that events arrive *)
(* after those they follow from.                                           *)
(***************************************************************************)
EXTENDS Outbox, FiniteSetTheorems, TLAPS

(* Ids are finitely many numbers.                                          *)
LEMMA IdsNat == Ids \subseteq Nat /\ IsFiniteSet(Ids)
BY OutboxAssumption, FS_Interval DEF Ids

(* What is selected is among what there is, with all that comes before.    *)
LEMMA LeadingRows ==
    ASSUME NEW S \in SUBSET Ids
    PROVE  /\ Leading(S) \subseteq S
           /\ \A e \in Leading(S), d \in S : d <= e => d \in Leading(S)
<1>1. Leading(S) \subseteq S
    BY DEF Leading
<1>2. ASSUME NEW e \in Leading(S), NEW d \in S, d <= e
      PROVE  d \in Leading(S)
    <2> DEFINE D == {x \in S : x <= d}
               E == {x \in S : x <= e}
    <2>1. S \subseteq Nat /\ IsFiniteSet(S)
        BY IdsNat, FS_Subset
    <2>7. e \in Nat /\ d \in Nat /\ \A x \in S : x \in Nat
        BY <1>1, <2>1
    <2>6. D \subseteq E
        <3>1. \A x \in S : x <= d => x <= e
            BY <1>2, <2>7
        <3> QED
            BY <3>1
    <2>2. D \subseteq E /\ IsFiniteSet(E)
        BY <2>1, <2>6, FS_Subset
    <2>3. /\ Cardinality(D) <= Cardinality(E)
          /\ Cardinality(D) \in Nat /\ Cardinality(E) \in Nat /\ IsFiniteSet(D)
        BY <2>2, FS_Subset, FS_CardinalityType
    <2>4. Cardinality(E) <= BATCH_SIZE
        BY DEF Leading
    <2>5. Cardinality(D) <= BATCH_SIZE
        BY <2>3, <2>4, OutboxAssumption
    <2> QED
        BY <2>5 DEF Leading
<1> QED
    BY <1>1, <1>2

-----------------------------------------------------------------------------
(* Types. *)

(* The empty outbox has its types.                                         *)
LEMMA InitType == Init => TypeOK
BY OutboxAssumption, IdsNat DEF Init, TypeOK, Empty

(* Every step keeps the types.                                             *)
LEMMA TypeStep == TypeOK /\ [Next]_vars => TypeOK'
<1> SUFFICES ASSUME TypeOK, [Next]_vars PROVE TypeOK'
    OBVIOUS
<1> USE OutboxAssumption, IdsNat DEF TypeOK
<1>1. CASE WriteEvent
    <2>1. last + 1 \in Ids /\ last + 1 \in 0 .. MaxEvents
        BY <1>1 DEF WriteEvent, Ids
    <2>2. row[last + 1] = "none"
        BY <2>1
    <2>3. \A e \in Ids : row'[e] = IF e = last + 1 THEN "open" ELSE row[e]
        BY <1>1, <2>1 DEF WriteEvent
    <2>4. \A r \in Relays : batch'[r] \subseteq Unpublished'
        BY <1>1, <2>2, <2>3 DEF WriteEvent, relayVars, Unpublished
    <2>5. causes' \in [Ids -> SUBSET Ids]
        BY <1>1, <2>1 DEF WriteEvent, Committed
    <2>6. \A e \in Ids : row'[e] # "none" => e <= last'
        BY <1>1, <2>1, <2>3 DEF WriteEvent
    <2> QED
        BY <1>1, <2>1, <2>4, <2>5, <2>6 DEF WriteEvent, relayVars
<1>2. ASSUME NEW e \in Ids, NEW outcome \in {"unpublished", "aborted"},
             EndTransaction(e, outcome)
      PROVE  TypeOK'
    BY <1>2 DEF EndTransaction, relayVars, Unpublished
<1>3. ASSUME NEW r \in Relays, SelectBatch(r)
      PROVE  TypeOK'
    <2>1. /\ Leading(Unpublished \ Locked) \subseteq Unpublished
          /\ \A s \in Relays : /\ Leading(Unpublished \ Locked) \cap batch[s] = {}
                               /\ batch[s] \cap Leading(Unpublished \ Locked) = {}
        <3>1. Unpublished \ Locked \in SUBSET Ids
            BY DEF Unpublished
        <3>2. Leading(Unpublished \ Locked) \subseteq Unpublished \ Locked
            BY <3>1, LeadingRows
        <3>3. \A s \in Relays : batch[s] \subseteq Locked
            BY DEF Locked
        <3> DEFINE L == Leading(Unpublished \ Locked)
        <3>4. L \subseteq Unpublished /\ L \cap Locked = {}
            BY <3>2
        <3> HIDE DEF L
        <3>5. \A s \in Relays : L \cap batch[s] = {} /\ batch[s] \cap L = {}
            BY <3>3, <3>4
        <3> QED
            BY <3>4, <3>5 DEF L
    <2>2. \A s \in Relays :
              batch'[s] = IF s = r THEN Leading(Unpublished \ Locked) ELSE batch[s]
        BY <1>3 DEF SelectBatch
    <2>3. batch' \in [Relays -> SUBSET Ids] /\ Unpublished' = Unpublished
        BY <1>3, <2>1 DEF SelectBatch, dbVars, Unpublished
    <2>4. \A s \in Relays : batch'[s] \subseteq Unpublished' /\ marked'[s] \subseteq batch'[s]
        <3>1. marked' = marked /\ marked[r] = {}
            BY <1>3 DEF SelectBatch
        <3> QED
            <4>1. \A s \in Relays : s # r => batch[s] \subseteq Unpublished /\ marked[s] \subseteq batch[s]
                OBVIOUS
            <4> HIDE DEF TypeOK
            <4> QED
                BY <2>1, <2>2, <2>3, <3>1, <4>1
    <2>5. \A s, q \in Relays : s # q => batch'[s] \cap batch'[q] = {}
        <3> SUFFICES ASSUME NEW s \in Relays, NEW q \in Relays, s # q
                     PROVE  batch'[s] \cap batch'[q] = {}
            OBVIOUS
        <3>1. CASE s # r /\ q # r
            BY <2>2, <3>1
        <3>2. CASE s = r
            BY <2>1, <2>2, <3>2
        <3>3. CASE q = r
            BY <2>1, <2>2, <3>3
        <3> QED
            BY <3>1, <3>2, <3>3
    <2>6. /\ pc' \in [Relays -> {"idle", "publishing", "flushing"}]
          /\ \A s \in Relays : pc'[s] = "idle" => batch'[s] = {}
        BY <1>3, <2>2 DEF SelectBatch
    <2> QED
        BY <1>3, <2>3, <2>4, <2>5, <2>6 DEF SelectBatch, dbVars
<1>4. ASSUME NEW r \in Relays, NEW e \in Ids,
             Produce(r, e) \/ FlushReturns(r, e) \/ FlushTimesOut(r, e)
      PROVE  TypeOK'
    <2>1. CASE Produce(r, e)
        <3>1. /\ buffer' \in [Relays -> [Ids -> Nat]]
              /\ pc' \in [Relays -> {"idle", "publishing", "flushing"}]
            BY <2>1 DEF Produce
        <3> QED
            BY <2>1, <3>1 DEF Produce, dbVars, Unpublished
    <2>2. CASE FlushReturns(r, e) \/ FlushTimesOut(r, e)
        <3>1. Mark(r, e) /\ IsNext(r, e)
            BY <2>2 DEF FlushReturns, FlushTimesOut
        <3>2. overdue' \in SUBSET Ids
            BY <2>2 DEF FlushReturns, FlushTimesOut
        <3>5. faults' \in Nat
            BY <2>2 DEF FlushReturns, FlushTimesOut, Fault
        <3>3. /\ marked' \in [Relays -> SUBSET Ids]
              /\ \A s \in Relays : marked'[s] \subseteq batch[s]
            BY <3>1 DEF Mark, IsNext
        <3>4. pc' \in [Relays -> {"idle", "publishing", "flushing"}]
            BY <3>1 DEF Mark
        <3> QED
            BY <3>1, <3>2, <3>3, <3>4, <3>5 DEF Mark, dbVars, Unpublished
    <2> QED
        BY <1>4, <2>1, <2>2
<1>5. ASSUME NEW r \in Relays, CommitBatch(r)
      PROVE  TypeOK'
    BY <1>5 DEF CommitBatch, Unpublished
<1>6. ASSUME NEW r \in Relays, BatchFails(r) \/ RelayCrash(r)
      PROVE  TypeOK'
    <2>1. buffer' \in [Relays -> [Ids -> Nat]] /\ faults' \in Nat
        BY <1>6 DEF BatchFails, RelayCrash, Fault, Empty
    <2>2. Abandon(r)
        BY <1>6 DEF BatchFails, RelayCrash
    <2>3. \A s \in Relays : /\ batch'[s] = IF s = r THEN {} ELSE batch[s]
                            /\ marked'[s] = IF s = r THEN {} ELSE marked[s]
        BY <2>2 DEF Abandon
    <2> QED
        BY <2>1, <2>2, <2>3 DEF Abandon, dbVars, Unpublished
<1>7. ASSUME NEW r \in Relays, NEW e \in Ids,
             Deliver(r, e) \/ LoseAnswer(r, e) \/ GiveUp(r, e)
      PROVE  TypeOK'
    <2>1. buffer[r][e] - 1 \in Nat
        BY <1>7 DEF Deliver, LoseAnswer, GiveUp
    <2>2. [buffer EXCEPT ![r][e] = @ - 1] \in [Relays -> [Ids -> Nat]]
        BY <2>1
    <2>5. buffer' \in [Relays -> [Ids -> Nat]]
        BY <1>7, <2>2 DEF Deliver, LoseAnswer, GiveUp
    <2>6. arrived' \in [Ids -> Nat]
        <3>1. arrived' \in {arrived, [arrived EXCEPT ![e] = @ + 1]}
            BY <1>7 DEF Deliver, LoseAnswer, GiveUp
        <3> QED
            BY <3>1
    <2>3. buffer' \in [Relays -> [Ids -> Nat]] /\ arrived' \in [Ids -> Nat]
        BY <2>5, <2>6
    <2>4. faults' \in Nat /\ UNCHANGED <<dbVars, relayVars, overdue>>
        BY <1>7 DEF Deliver, LoseAnswer, GiveUp, Fault
    <2> QED
        BY <2>3, <2>4 DEF dbVars, relayVars, Unpublished
<1>8. CASE UNCHANGED vars
    BY <1>8 DEF vars, dbVars, relayVars, Unpublished
<1> QED
    BY <1>1, <1>2, <1>3, <1>4, <1>5, <1>6, <1>7, <1>8
    DEF Next, Write, Relay, Broker, Failure

(* The state is always of its type (every action of the relay).            *)
THEOREM TypeCorrect == Spec => []TypeOK
BY InitType, TypeStep, PTL DEF Spec

-----------------------------------------------------------------------------
(* What is published has arrived. *)

Seen(e) == arrived[e] > 0 \/ e \in overdue

(* What a relay has marked is seen, and what it waits for is on its way.   *)
MarkedIsSeen == \A r \in Relays : \A e \in marked[r] : Seen(e)

FlushedIsSent ==
    \A r \in Relays, e \in Ids :
        pc[r] = "flushing" /\ IsNext(r, e) => buffer[r][e] > 0 \/ Seen(e)

ArrivalInv == MarkedIsSeen /\ FlushedIsSent /\ PublishedHasArrived

(* At the start nothing is marked and nothing waited for.                  *)
LEMMA InitArrival == Init => ArrivalInv
BY DEF Init, ArrivalInv, MarkedIsSeen, FlushedIsSent, PublishedHasArrived

(* An event that has been seen remains so.                                 *)
LEMMA SeenStays ==
    ASSUME TypeOK, [Next]_vars
    PROVE  \A e \in Ids : Seen(e) => Seen(e)'
<1> USE DEF Seen
<1>1. CASE Write \/ UNCHANGED vars
    BY <1>1 DEF Write, WriteEvent, EndTransaction, vars
<1>2. ASSUME NEW r \in Relays, SelectBatch(r) \/ CommitBatch(r) \/ BatchFails(r) \/ RelayCrash(r)
      PROVE  \A e \in Ids : Seen(e) => Seen(e)'
    BY <1>2 DEF SelectBatch, CommitBatch, BatchFails, RelayCrash, Abandon
<1>3. ASSUME NEW r \in Relays, NEW e \in Ids,
             Produce(r, e) \/ FlushReturns(r, e) \/ FlushTimesOut(r, e) \/ GiveUp(r, e)
      PROVE  \A d \in Ids : Seen(d) => Seen(d)'
    BY <1>3 DEF Produce, FlushReturns, FlushTimesOut, GiveUp, Mark
<1>4. ASSUME NEW r \in Relays, NEW e \in Ids, Deliver(r, e) \/ LoseAnswer(r, e)
      PROVE  \A d \in Ids : Seen(d) => Seen(d)'
    <2>1. arrived' = [arrived EXCEPT ![e] = @ + 1] /\ overdue' = overdue
        BY <1>4 DEF Deliver, LoseAnswer
    <2> QED
        BY <2>1 DEF TypeOK
<1> QED
    BY <1>1, <1>2, <1>3, <1>4 DEF Next, Relay, Broker, Failure

(* A step that moves neither rows nor relays, and takes from a buffer only *)
(* what is seen, keeps the invariant.                                      *)
LEMMA ArrivalKept ==
    ASSUME TypeOK, ArrivalInv, [Next]_vars, UNCHANGED relayVars,
           \A e \in Ids : row'[e] = "published" => row[e] = "published",
           \A r \in Relays, e \in Ids :
               buffer[r][e] > 0 => buffer'[r][e] > 0 \/ Seen(e)'
    PROVE  ArrivalInv'
<1>1. MarkedIsSeen'
    BY SeenStays DEF ArrivalInv, MarkedIsSeen, relayVars, TypeOK
<1>2. FlushedIsSent'
    BY SeenStays DEF ArrivalInv, FlushedIsSent, IsNext, relayVars
<1>3. PublishedHasArrived'
    BY SeenStays DEF ArrivalInv, PublishedHasArrived, Seen
<1> QED
    BY <1>1, <1>2, <1>3 DEF ArrivalInv

(* Every step keeps what is marked among what has arrived.                 *)
LEMMA ArrivalStep == TypeOK /\ ArrivalInv /\ [Next]_vars => ArrivalInv'
<1> SUFFICES ASSUME TypeOK, ArrivalInv, [Next]_vars PROVE ArrivalInv'
    OBVIOUS
<1>1. CASE Write
    <2>1. UNCHANGED <<relayVars, buffer>>
        BY <1>1 DEF Write, WriteEvent, EndTransaction
    <2>2. \A e \in Ids : row'[e] = "published" => row[e] = "published"
        BY <1>1 DEF Write, WriteEvent, EndTransaction, TypeOK
    <2> QED
        BY <2>1, <2>2, ArrivalKept
<1>2. ASSUME NEW r \in Relays, SelectBatch(r)
      PROVE  ArrivalInv'
    <2>1. UNCHANGED <<dbVars, marked, buffer, arrived, overdue>>
        BY <1>2 DEF SelectBatch
    <2>2. \A s \in Relays : s = r => pc'[s] = "publishing"
        BY <1>2 DEF SelectBatch, TypeOK
    <2>3. \A s \in Relays : s # r => pc'[s] = pc[s] /\ batch'[s] = batch[s]
        BY <1>2 DEF SelectBatch, TypeOK
    <2> QED
        BY <2>1, <2>2, <2>3
        DEF dbVars, ArrivalInv, MarkedIsSeen, FlushedIsSent, PublishedHasArrived, Seen, IsNext
<1>3. ASSUME NEW r \in Relays, NEW e \in Ids, Produce(r, e)
      PROVE  ArrivalInv'
    <2>1. UNCHANGED <<dbVars, batch, marked, arrived, overdue>>
        BY <1>3 DEF Produce
    <2>2. /\ buffer'[r][e] > 0
          /\ \A s \in Relays, d \in Ids : buffer'[s][d] >= buffer[s][d]
        BY <1>3 DEF Produce, TypeOK
    <2>3. \A d \in Ids : IsNext(r, d) => d = e
        BY <1>3, IdsNat DEF Produce, IsNext
    <2>4. \A s \in Relays : s # r => pc'[s] = pc[s]
        BY <1>3 DEF Produce, TypeOK
    <2>5. FlushedIsSent'
        <3> SUFFICES ASSUME NEW s \in Relays, NEW d \in Ids, pc'[s] = "flushing", IsNext(s, d)'
                     PROVE  buffer'[s][d] > 0 \/ Seen(d)'
            BY DEF FlushedIsSent
        <3>1. CASE s = r
            BY <2>1, <2>2, <2>3, <3>1 DEF IsNext
        <3>2. CASE s # r
            <4>1. buffer[s][d] > 0 \/ Seen(d)
                BY <2>1, <2>4, <3>2 DEF ArrivalInv, FlushedIsSent, IsNext
            <4>2. buffer[s][d] \in Nat /\ buffer'[s][d] >= buffer[s][d]
                BY <2>2 DEF TypeOK
            <4>3. buffer'[s][d] \in Nat
                BY TypeStep DEF TypeOK
            <4> QED
                BY <2>1, <4>1, <4>2, <4>3 DEF Seen
        <3> QED
            BY <3>1, <3>2
    <2> QED
        BY <2>1, <2>5 DEF dbVars, ArrivalInv, MarkedIsSeen, PublishedHasArrived, Seen
<1>4. ASSUME NEW r \in Relays, NEW e \in Ids, FlushReturns(r, e) \/ FlushTimesOut(r, e)
      PROVE  ArrivalInv'
    <2>1. Mark(r, e)
        BY <1>4 DEF FlushReturns, FlushTimesOut
    <2>2. Seen(e)'
        <3>1. buffer[r][e] > 0 \/ Seen(e)
            BY <1>4 DEF FlushReturns, FlushTimesOut, ArrivalInv, FlushedIsSent
        <3>2. CASE Seen(e)
            BY <3>2, SeenStays
        <3>3. CASE buffer[r][e] > 0 /\ FlushReturns(r, e)
            BY <3>3 DEF FlushReturns, Empty
        <3>4. CASE buffer[r][e] > 0 /\ FlushTimesOut(r, e)
            BY <3>4 DEF FlushTimesOut, Seen
        <3> QED
            BY <1>4, <3>1, <3>2, <3>3, <3>4
    <2>3. MarkedIsSeen'
        BY <2>1, <2>2, SeenStays DEF Mark, ArrivalInv, MarkedIsSeen, TypeOK
    <2>4. FlushedIsSent'
        <3> SUFFICES ASSUME NEW s \in Relays, NEW d \in Ids, pc'[s] = "flushing", IsNext(s, d)'
                     PROVE  buffer'[s][d] > 0 \/ Seen(d)'
            BY DEF FlushedIsSent
        <3>1. s # r /\ pc[s] = "flushing" /\ IsNext(s, d) /\ buffer' = buffer
            BY <2>1 DEF Mark, TypeOK, IsNext
        <3> QED
            BY <3>1, SeenStays DEF ArrivalInv, FlushedIsSent
    <2>5. PublishedHasArrived'
        BY <2>1, SeenStays DEF Mark, dbVars, ArrivalInv, PublishedHasArrived, Seen
    <2> QED
        BY <2>3, <2>4, <2>5 DEF ArrivalInv
<1>5. ASSUME NEW r \in Relays, CommitBatch(r) \/ BatchFails(r) \/ RelayCrash(r)
      PROVE  ArrivalInv'
    <2>1. \A s \in Relays :
              IF s = r THEN pc'[s] = "idle" /\ marked'[s] = {}
              ELSE UNCHANGED <<pc[s], batch[s], marked[s], buffer[s]>>
        BY <1>5 DEF CommitBatch, BatchFails, RelayCrash, Abandon, TypeOK
    <2>2. UNCHANGED <<arrived, overdue>>
        BY <1>5 DEF CommitBatch, BatchFails, RelayCrash, Abandon
    <2>3. \A e \in Ids : row'[e] = "published" => row[e] = "published" \/ e \in marked[r]
        BY <1>5 DEF CommitBatch, BatchFails, RelayCrash, Abandon, dbVars
    <2>4. MarkedIsSeen' /\ FlushedIsSent'
        BY <2>1, <2>2 DEF ArrivalInv, MarkedIsSeen, FlushedIsSent, IsNext, Seen
    <2>5. PublishedHasArrived'
        BY <2>2, <2>3 DEF ArrivalInv, MarkedIsSeen, PublishedHasArrived, Seen
    <2> QED
        BY <2>4, <2>5 DEF ArrivalInv
<1>6. ASSUME NEW r \in Relays, NEW e \in Ids,
             Deliver(r, e) \/ LoseAnswer(r, e) \/ GiveUp(r, e)
      PROVE  ArrivalInv'
    <2>1. UNCHANGED <<dbVars, relayVars>>
        BY <1>6 DEF Deliver, LoseAnswer, GiveUp
    <2>2. \A s \in Relays, d \in Ids :
              s # r \/ d # e => buffer'[s][d] = buffer[s][d]
        BY <1>6 DEF Deliver, LoseAnswer, GiveUp, TypeOK
    <2>3. Seen(e)'
        BY <1>6 DEF Deliver, LoseAnswer, GiveUp, Seen, TypeOK
    <2> QED
        BY <2>1, <2>2, <2>3, ArrivalKept DEF dbVars
<1>7. CASE UNCHANGED vars
    BY <1>7, ArrivalKept DEF vars, dbVars
<1> QED
    BY <1>1, <1>2, <1>3, <1>4, <1>5, <1>6, <1>7
    DEF Next, Relay, Broker, Failure

(* However many relays there are and wherever they fail, a row is marked   *)
(* published only after its event has arrived, unless a flush gave up on   *)
(* it (relay_one_batch, publish).                                          *)
THEOREM MarkedAfterArrival == Spec => []PublishedHasArrived
<1>1. ArrivalInv => PublishedHasArrived
    BY DEF ArrivalInv
<1> QED
    BY <1>1, InitType, TypeStep, InitArrival, ArrivalStep, PTL DEF Spec

-----------------------------------------------------------------------------
(* Causes arrive first, with one relay. *)

OneRelay == \A r, s \in Relays : r = s

Sent(e) == arrived[e] > 0 \/ \E r \in Relays : buffer[r][e] > 0

CausesAreOlder == \A e \in Ids : \A d \in causes[e] : d \in Committed /\ d < e

SentIsCommitted == \A e \in Ids : Sent(e) => e \in Committed

(* A batch leaves none behind that an event of it follows from.            *)
BatchIsClosed ==
    \A r \in Relays, e \in Ids :
        e \in batch[r] => \A d \in causes[e] : d \in Unpublished => d \in batch[r]

SentFollows == \A e \in Ids : Sent(e) => \A d \in causes[e] : Seen(d)

CauseInv == CausesAreOlder /\ SentIsCommitted /\ BatchIsClosed /\ SentFollows

(* At the start there are no events.                                       *)
LEMMA InitCause == Init => CauseInv
<1> SUFFICES ASSUME Init PROVE CauseInv
    OBVIOUS
<1>1. \A e \in Ids : causes[e] = {} /\ ~Sent(e)
    BY DEF Init, Sent, Empty
<1> QED
    BY <1>1 DEF CauseInv, CausesAreOlder, SentIsCommitted, BatchIsClosed, SentFollows

(* A step that writes no row, commits none, selects none and sends nothing *)
(* new keeps the invariant.                                                *)
LEMMA CauseKept ==
    ASSUME TypeOK, CauseInv, [Next]_vars, causes' = causes,
           Committed \subseteq Committed',
           \A e \in Ids : Sent(e)' => Sent(e),
           \A r \in Relays : batch'[r] \in {batch[r], {}},
           Unpublished' \subseteq Unpublished
    PROVE  CauseInv'
<1>1. CausesAreOlder'
    BY DEF CauseInv, CausesAreOlder
<1>2. SentIsCommitted'
    BY DEF CauseInv, SentIsCommitted
<1>3. BatchIsClosed'
    <2> SUFFICES ASSUME NEW r \in Relays, NEW e \in Ids, e \in batch'[r],
                        NEW d \in causes[e], d \in Unpublished'
                 PROVE  d \in batch'[r]
        BY DEF BatchIsClosed
    <2>1. batch'[r] = batch[r]
        OBVIOUS
    <2> QED
        BY <2>1 DEF CauseInv, BatchIsClosed
<1>4. SentFollows'
    BY SeenStays DEF CauseInv, SentFollows, TypeOK
<1> QED
    BY <1>1, <1>2, <1>3, <1>4 DEF CauseInv

(* All that an event follows from has been seen when its turn comes: it is *)
(* published, or marked earlier in the same batch.                         *)
LEMMA NextFollows ==
    ASSUME TypeOK, ArrivalInv, CauseInv, NEW r \in Relays, NEW e \in Ids, IsNext(r, e)
    PROVE  \A d \in causes[e] : Seen(d)
<1> SUFFICES ASSUME NEW d \in causes[e] PROVE Seen(d)
    OBVIOUS
<1>1. d \in Ids /\ d \in Committed /\ d < e /\ e \in Nat /\ d \in Nat
    BY IdsNat DEF CauseInv, CausesAreOlder, Committed
<1>2. CASE row[d] = "published"
    BY <1>1, <1>2 DEF ArrivalInv, PublishedHasArrived, Seen
<1>3. CASE row[d] = "unpublished"
    <2>1. d \in batch[r]
        BY <1>1, <1>3 DEF CauseInv, BatchIsClosed, IsNext, Unpublished
    <2>2. d \in marked[r]
        BY <1>1, <2>1 DEF IsNext
    <2> QED
        BY <2>2 DEF ArrivalInv, MarkedIsSeen
<1> QED
    BY <1>1, <1>2, <1>3 DEF Committed

(* Every step keeps causes ahead of their effects.                         *)
LEMMA CauseStep ==
    ASSUME OneRelay, TypeOK, ArrivalInv, CauseInv, [Next]_vars
    PROVE  CauseInv'
<1>1. CASE WriteEvent
    <2> DEFINE n == last + 1
    <2>1. n \in Ids /\ row[n] = "none" /\ \A e \in Ids : row[e] # "none" => e < n
        BY <1>1, OutboxAssumption, IdsNat DEF WriteEvent, Ids, TypeOK
    <2>2. /\ \A e \in Ids : causes'[e] = IF e = n THEN Committed ELSE causes[e]
          /\ \A e \in Ids : row'[e] = IF e = n THEN "open" ELSE row[e]
        BY <1>1, <2>1 DEF WriteEvent, TypeOK
    <2>3. Committed' = Committed /\ Unpublished' = Unpublished
        BY <2>1, <2>2 DEF Committed, Unpublished
    <2>4. \A e \in Ids : Sent(e)' <=> Sent(e)
        BY <1>1 DEF WriteEvent, Sent
    <2>5. n \notin Committed /\ ~Sent(n)
        BY <2>1 DEF CauseInv, SentIsCommitted, Committed
    <2>6. CausesAreOlder'
        BY <2>1, <2>2, <2>3 DEF CauseInv, CausesAreOlder, Committed
    <2>7. SentIsCommitted'
        BY <2>3, <2>4 DEF CauseInv, SentIsCommitted
    <2>8. BatchIsClosed'
        <3>1. \A r \in Relays : n \notin batch[r] /\ batch'[r] = batch[r]
            BY <1>1, <2>1 DEF WriteEvent, relayVars, TypeOK, Unpublished
        <3> QED
            BY <2>2, <2>3, <3>1 DEF CauseInv, BatchIsClosed
    <2>9. SentFollows'
        <3>1. \A d : Seen(d)' <=> Seen(d)
            BY <1>1 DEF WriteEvent, Seen
        <3> QED
            BY <2>2, <2>4, <2>5, <3>1 DEF CauseInv, SentFollows
    <2> QED
        BY <2>6, <2>7, <2>8, <2>9 DEF CauseInv
<1>2. ASSUME NEW o \in Ids, NEW outcome \in {"unpublished", "aborted"},
             EndTransaction(o, outcome)
      PROVE  CauseInv'
    <2>1. UNCHANGED <<causes, relayVars, buffer, arrived, overdue>>
        BY <1>2 DEF EndTransaction
    <2>2. o \notin Committed /\ Committed \subseteq Committed'
          /\ Unpublished' \subseteq Unpublished \cup {o}
        BY <1>2 DEF EndTransaction, Committed, Unpublished, TypeOK
    <2>3. \A e \in Ids : Sent(e)' <=> Sent(e)
        BY <2>1 DEF Sent
    <2>4. CausesAreOlder' /\ SentIsCommitted'
        BY <2>1, <2>2, <2>3 DEF CauseInv, CausesAreOlder, SentIsCommitted
    <2>5. BatchIsClosed'
        BY <2>1, <2>2 DEF CauseInv, CausesAreOlder, BatchIsClosed, relayVars
    <2>6. SentFollows'
        BY <2>1, <2>3 DEF CauseInv, SentFollows, Seen
    <2> QED
        BY <2>4, <2>5, <2>6 DEF CauseInv
<1>3. ASSUME NEW r \in Relays, SelectBatch(r)
      PROVE  CauseInv'
    <2>1. UNCHANGED <<dbVars, buffer, arrived, overdue>>
        BY <1>3 DEF SelectBatch
    <2>2. Locked = {}
        BY <1>3 DEF SelectBatch, Locked, OneRelay, TypeOK
    <2>3. batch'[r] = Leading(Unpublished)
        BY <1>3, <2>2 DEF SelectBatch, TypeOK
    <2>4. BatchIsClosed'
        <3> SUFFICES ASSUME NEW e \in Ids, e \in Leading(Unpublished),
                            NEW d \in causes[e], d \in Unpublished
                     PROVE  d \in Leading(Unpublished)
            BY <2>1, <2>3 DEF BatchIsClosed, OneRelay, dbVars, Unpublished
        <3>1. d < e /\ d \in Nat /\ e \in Nat /\ Unpublished \in SUBSET Ids
            BY IdsNat DEF CauseInv, CausesAreOlder, Unpublished
        <3> QED
            BY <3>1, LeadingRows
    <2>5. CausesAreOlder' /\ SentIsCommitted' /\ SentFollows'
        BY <2>1 DEF dbVars, CauseInv, CausesAreOlder, SentIsCommitted, SentFollows, Sent,
                    Seen, Committed
    <2> QED
        BY <2>4, <2>5 DEF CauseInv
<1>4. ASSUME NEW r \in Relays, NEW e \in Ids, Produce(r, e)
      PROVE  CauseInv'
    <2>1. UNCHANGED <<dbVars, batch, arrived, overdue>> /\ IsNext(r, e)
        BY <1>4 DEF Produce
    <2>2. \A s \in Relays, d \in Ids : d # e => buffer'[s][d] = buffer[s][d]
        BY <1>4 DEF Produce, TypeOK
    <2>3. \A d \in Ids : Sent(d)' => Sent(d) \/ d = e
        BY <2>1, <2>2 DEF Sent
    <2>4. e \in Committed
        BY <2>1 DEF IsNext, TypeOK, Unpublished, Committed
    <2>5. CausesAreOlder' /\ SentIsCommitted' /\ BatchIsClosed'
        BY <2>1, <2>3, <2>4 DEF dbVars, CauseInv, CausesAreOlder, SentIsCommitted,
                                BatchIsClosed, Committed, Unpublished
    <2>6. SentFollows'
        BY <2>1, <2>3, NextFollows DEF dbVars, CauseInv, SentFollows, Seen
    <2> QED
        BY <2>5, <2>6 DEF CauseInv
<1>5. ASSUME NEW r \in Relays,
             CommitBatch(r) \/ BatchFails(r) \/ RelayCrash(r)
      PROVE  CauseInv'
    <2>1. /\ causes' = causes /\ arrived' = arrived
          /\ \A s \in Relays : batch'[s] \in {batch[s], {}}
        BY <1>5 DEF CommitBatch, BatchFails, RelayCrash, Abandon, dbVars, TypeOK
    <2>2. \A s \in Relays : buffer'[s] \in {buffer[s], Empty}
        BY <1>5 DEF CommitBatch, BatchFails, RelayCrash, TypeOK
    <2>3. \A e \in Ids : Sent(e)' => Sent(e)
        BY <2>1, <2>2 DEF Sent, Empty
    <2>4. Committed \subseteq Committed' /\ Unpublished' \subseteq Unpublished
        BY <1>5 DEF CommitBatch, BatchFails, RelayCrash, Abandon, dbVars, Committed,
                    Unpublished, TypeOK
    <2> QED
        BY <2>1, <2>3, <2>4, CauseKept
<1>6. ASSUME NEW r \in Relays, NEW e \in Ids,
             \/ FlushReturns(r, e) \/ FlushTimesOut(r, e)
             \/ Deliver(r, e) \/ LoseAnswer(r, e) \/ GiveUp(r, e)
      PROVE  CauseInv'
    <2>1. UNCHANGED <<dbVars, batch>>
        BY <1>6 DEF FlushReturns, FlushTimesOut, Mark, Deliver, LoseAnswer, GiveUp, relayVars
    <2>2. \A d \in Ids : Sent(d)' => Sent(d)
        <3>1. CASE FlushReturns(r, e) \/ FlushTimesOut(r, e)
            BY <3>1 DEF FlushReturns, FlushTimesOut, Mark, Sent
        <3>2. CASE Deliver(r, e) \/ LoseAnswer(r, e) \/ GiveUp(r, e)
            <4>1. /\ buffer[r][e] > 0
                  /\ \A d \in Ids : d # e => arrived'[d] = arrived[d]
                  /\ \A s \in Relays, d \in Ids : d # e => buffer'[s][d] = buffer[s][d]
                BY <3>2 DEF Deliver, LoseAnswer, GiveUp, TypeOK
            <4> QED
                BY <4>1 DEF Sent
        <3> QED
            BY <1>6, <3>1, <3>2
    <2> QED
        BY <2>1, <2>2, CauseKept DEF dbVars, Committed, Unpublished
<1>7. CASE UNCHANGED vars
    BY <1>7, CauseKept DEF vars, dbVars, relayVars, Committed, Unpublished, Sent
<1> QED
    BY <1>1, <1>2, <1>3, <1>4, <1>5, <1>6, <1>7
    DEF Next, Write, Relay, Broker, Failure

(* With a single relay, no event arrives ahead of one that was committed   *)
(* before it was written, whatever fails, unless a flush gave up on that   *)
(* one (relay_one_batch: ORDER BY id).                                     *)
THEOREM CausesArriveFirst ==
    ASSUME OneRelay
    PROVE  Spec => []CausesFirst
<1>1. TypeOK /\ ArrivalInv /\ CauseInv /\ [Next]_vars => CauseInv'
    BY CauseStep
<1>2. CauseInv => CausesFirst
    BY DEF CauseInv, SentFollows, Sent, CausesFirst, Seen
<1> QED
    BY <1>1, <1>2, InitType, TypeStep, InitArrival, ArrivalStep, InitCause, PTL DEF Spec
=============================================================================
