------------------------------- MODULE Outbox -------------------------------
(***************************************************************************)
(* The transactional outbox: transactions leave rows in campaign.events,   *)
(* and a relay hands those not yet published to Kafka's producer and marks *)
(* them published.  The producer is a library with a buffer of its own and *)
(* a thread that empties it: produce() puts a message in, flush() waits    *)
(* until the buffer is empty or ten seconds are over, and in either case   *)
(* the relay goes on.  What is still in the buffer then is sent later,     *)
(* given up after some minutes, or lost with the process.                  *)
(***************************************************************************)
EXTENDS Naturals, FiniteSets

CONSTANTS
    Relays,      \* replicas of the relay
    BATCH_SIZE,
    \* Bounds of a run of the checker:
    MaxEvents,   \* rows ever inserted
    MaxFaults    \* crashes, exceptions, flushes in vain and lost answers

ASSUME OutboxAssumption ==
    /\ BATCH_SIZE \in Nat \ {0}
    /\ MaxEvents \in Nat /\ MaxFaults \in Nat

Ids == 1 .. MaxEvents

VARIABLES
    last,      \* the sequence behind events.id
    row,       \* what became of each row
    causes,    \* rows that were committed when this one was inserted
    pc,        \* what each relay is at
    batch,     \* rows its open transaction has selected and locked
    marked,    \* those of them it has set published_at of
    buffer,    \* copies of each event in its producer's buffer
    arrived,   \* copies of each event that the broker has
    overdue,   \* events that were in a buffer when a flush gave up
    faults

dbVars == <<last, row, causes>>
relayVars == <<pc, batch, marked>>
vars == <<dbVars, relayVars, buffer, arrived, overdue, faults>>

Empty == [e \in Ids |-> 0]

Init ==
    /\ last = 0
    /\ row = [e \in Ids |-> "none"]
    /\ causes = [e \in Ids |-> {}]
    /\ pc = [r \in Relays |-> "idle"]
    /\ batch = [r \in Relays |-> {}]
    /\ marked = [r \in Relays |-> {}]
    /\ buffer = [r \in Relays |-> Empty]
    /\ arrived = Empty
    /\ overdue = {}
    /\ faults = 0

Committed == {e \in Ids : row[e] \in {"unpublished", "published"}}

Fault == faults < MaxFaults /\ faults' = faults + 1

-----------------------------------------------------------------------------
(* write_event: the row gets its id now and is seen by others only when the *)
(* transaction around it commits, which may be after those of later rows.   *)
WriteEvent ==
    /\ last < MaxEvents
    /\ last' = last + 1
    /\ row' = [row EXCEPT ![last + 1] = "open"]
    /\ causes' = [causes EXCEPT ![last + 1] = Committed]
    /\ UNCHANGED <<relayVars, buffer, arrived, overdue, faults>>

EndTransaction(e, outcome) ==
    /\ row[e] = "open"
    /\ row' = [row EXCEPT ![e] = outcome]
    /\ UNCHANGED <<last, causes, relayVars, buffer, arrived, overdue, faults>>

-----------------------------------------------------------------------------
(* relay_one_batch. *)

Locked == UNION {batch[r] : r \in Relays}
Unpublished == {e \in Ids : row[e] = "unpublished"}

(* ORDER BY id LIMIT. *)
Leading(S) == {e \in S : Cardinality({d \in S : d <= e}) <= BATCH_SIZE}

(* As if a cursor were kept: rows behind the last published are not looked at. *)
SelectBeyond(r) ==
    LET beyond == {e \in Unpublished \ Locked :
                       \A d \in Ids : row[d] = "published" => d < e}
    IN  /\ pc[r] = "idle"
        /\ beyond # {}
        /\ batch' = [batch EXCEPT ![r] = Leading(beyond)]
        /\ pc' = [pc EXCEPT ![r] = "publishing"]
        /\ UNCHANGED <<dbVars, marked, buffer, arrived, overdue, faults>>

SelectBatch(r) ==
    /\ pc[r] = "idle"
    /\ Unpublished \ Locked # {}
    /\ batch' = [batch EXCEPT ![r] = Leading(Unpublished \ Locked)]
    /\ pc' = [pc EXCEPT ![r] = "publishing"]
    /\ UNCHANGED <<dbVars, marked, buffer, arrived, overdue, faults>>

(* As if the rows came without ORDER BY. *)
IsAnyNext(r, e) == e \in batch[r] \ marked[r]

IsNext(r, e) ==
    /\ e \in batch[r] \ marked[r]
    /\ \A d \in batch[r] \ marked[r] : e <= d

(* publish: produce. *)
Produce(r, e) ==
    /\ pc[r] = "publishing"
    /\ IsNext(r, e)
    /\ buffer' = [buffer EXCEPT ![r][e] = @ + 1]
    /\ pc' = [pc EXCEPT ![r] = "flushing"]
    /\ UNCHANGED <<dbVars, batch, marked, arrived, overdue, faults>>

Mark(r, e) ==
    /\ marked' = [marked EXCEPT ![r] = @ \cup {e}]
    /\ pc' = [pc EXCEPT ![r] = "publishing"]
    /\ UNCHANGED <<dbVars, batch, buffer, arrived>>

(* As if publish were produce without flush. *)
FlushNothing(r, e) ==
    /\ pc[r] = "flushing"
    /\ IsNext(r, e)
    /\ Mark(r, e)
    /\ UNCHANGED <<overdue, faults>>

(* publish: flush; then the row is marked. *)
FlushReturns(r, e) ==
    /\ pc[r] = "flushing"
    /\ IsNext(r, e)
    /\ buffer[r] = Empty
    /\ Mark(r, e)
    /\ UNCHANGED <<overdue, faults>>

(* Ten seconds are over; what flush returns is not looked at.              *)
FlushTimesOut(r, e) ==
    /\ pc[r] = "flushing"
    /\ IsNext(r, e)
    /\ buffer[r] # Empty
    /\ Mark(r, e)
    /\ overdue' = overdue \cup {d \in Ids : buffer[r][d] > 0}
    /\ Fault

CommitBatch(r) ==
    /\ pc[r] = "publishing"
    /\ marked[r] = batch[r]
    /\ row' = [e \in Ids |-> IF e \in batch[r] THEN "published" ELSE row[e]]
    /\ pc' = [pc EXCEPT ![r] = "idle"]
    /\ batch' = [batch EXCEPT ![r] = {}]
    /\ marked' = [marked EXCEPT ![r] = {}]
    /\ UNCHANGED <<last, causes, buffer, arrived, overdue, faults>>

(* The transaction rolls back: its rows are free and unpublished.          *)
Abandon(r) ==
    /\ pc' = [pc EXCEPT ![r] = "idle"]
    /\ batch' = [batch EXCEPT ![r] = {}]
    /\ marked' = [marked EXCEPT ![r] = {}]
    /\ UNCHANGED <<dbVars, arrived, overdue>>

(* A statement fails; the relay rolls back and goes on in a second.        *)
BatchFails(r) ==
    /\ pc[r] = "publishing"
    /\ Fault
    /\ Abandon(r)
    /\ UNCHANGED buffer

(* The process dies, and the buffer with it.                               *)
RelayCrash(r) ==
    /\ Fault
    /\ Abandon(r)
    /\ buffer' = [buffer EXCEPT ![r] = Empty]

-----------------------------------------------------------------------------
(* The producer's thread and the broker.  Several messages in flight may   *)
(* arrive in any order; one whose answer is lost is sent once more.        *)
Deliver(r, e) ==
    /\ buffer[r][e] > 0
    /\ buffer' = [buffer EXCEPT ![r][e] = @ - 1]
    /\ arrived' = [arrived EXCEPT ![e] = @ + 1]
    /\ UNCHANGED <<dbVars, relayVars, overdue, faults>>

LoseAnswer(r, e) ==
    /\ buffer[r][e] > 0
    /\ Fault
    /\ arrived' = [arrived EXCEPT ![e] = @ + 1]
    /\ UNCHANGED <<dbVars, relayVars, buffer, overdue>>

(* message.timeout.ms is longer than a flush waits.                        *)
GiveUp(r, e) ==
    /\ buffer[r][e] > 0
    /\ e \in overdue
    /\ buffer' = [buffer EXCEPT ![r][e] = @ - 1]
    /\ UNCHANGED <<dbVars, relayVars, arrived, overdue, faults>>

-----------------------------------------------------------------------------
Write ==
    \/ WriteEvent
    \/ \E e \in Ids, outcome \in {"unpublished", "aborted"} : EndTransaction(e, outcome)

Relay(r) ==
    \/ SelectBatch(r) \/ CommitBatch(r)
    \/ \E e \in Ids : Produce(r, e) \/ FlushReturns(r, e)

Broker(r) == \E e \in Ids : Deliver(r, e)

Failure(r) ==
    \/ BatchFails(r) \/ RelayCrash(r)
    \/ \E e \in Ids : FlushTimesOut(r, e) \/ LoseAnswer(r, e) \/ GiveUp(r, e)

Next == Write \/ \E r \in Relays : Relay(r) \/ Broker(r) \/ Failure(r)

Spec == Init /\ [][Next]_vars

(* The relay polls without end, and its producer keeps trying to send.     *)
FairSpec == Spec /\ \A r \in Relays : WF_vars(Relay(r)) /\ WF_vars(Broker(r))

-----------------------------------------------------------------------------
(* Types; what is selected is unpublished and locked by one relay at work,  *)
(* and only ids that were drawn have rows (relay_one_batch: FOR UPDATE SKIP *)
(* LOCKED).                                                                 *)
TypeOK ==
    /\ last \in 0 .. MaxEvents
    /\ row \in [Ids -> {"none", "open", "aborted", "unpublished", "published"}]
    /\ \A e \in Ids : row[e] # "none" => e <= last
    /\ causes \in [Ids -> SUBSET Ids]
    /\ pc \in [Relays -> {"idle", "publishing", "flushing"}]
    /\ batch \in [Relays -> SUBSET Ids]
    /\ \A r \in Relays : batch[r] \subseteq Unpublished
    /\ \A r \in Relays : pc[r] = "idle" => batch[r] = {}
    /\ \A r, s \in Relays : r # s => batch[r] \cap batch[s] = {}
    /\ marked \in [Relays -> SUBSET Ids]
    /\ \A r \in Relays : marked[r] \subseteq batch[r]
    /\ buffer \in [Relays -> [Ids -> Nat]]
    /\ arrived \in [Ids -> Nat]
    /\ overdue \in SUBSET Ids
    /\ faults \in Nat

(* A row that says published has been received by the broker, unless a      *)
(* flush gave up on it: neither a crash between publish and commit nor a    *)
(* row that commits after rows with later ids is taken for published        *)
(* (relay_one_batch, publish).                                              *)
PublishedHasArrived ==
    \A e \in Ids : row[e] = "published" /\ e \notin overdue => arrived[e] > 0

(* With one relay, an event does not arrive ahead of an event that was      *)
(* committed before it was written, unless a flush gave up on that one: an  *)
(* outcome is not seen before the start it follows from (relay_one_batch:   *)
(* ORDER BY id, whatever is published again).                               *)
CausesFirst ==
    \A e \in Ids : arrived[e] > 0 =>
        \A d \in causes[e] : arrived[d] > 0 \/ d \in overdue

(* Every event that is committed arrives in the end, though transactions    *)
(* commit out of the order of their ids and relays fail, unless a flush     *)
(* gave up on it (outbox_relay_worker.run).                                 *)
EveryEventArrives ==
    \A e \in Ids : row[e] = "unpublished" ~> (arrived[e] > 0 \/ e \in overdue)
=============================================================================
