------------------------------ MODULE Dispatch ------------------------------
(***************************************************************************)
(* The dispatch of one campaign run: from a READY audience to a run whose  *)
(* messages have all been answered by the Kannel gateway.                  *)
(*                                                                         *)
(* Postgres is the only durable truth; Kafka carries commands that may be  *)
(* repeated or stale.  The processes are the API (operator calls), the     *)
(* scheduler worker, one dispatcher per partition of the dispatch topics,  *)
(* the retry scheduler, the outbox relay and the message-events worker.    *)
(* A database transaction is one action when nothing it waits for is       *)
(* outside the database, and several when it is: the dispatcher holds its  *)
(* claim open across the call to Kannel, a resume publishes to Kafka       *)
(* before it commits, and a stop waits for the rows dispatchers hold.      *)
(*                                                                         *)
(* SUBMITTING is written by a claim and overwritten before that claim's    *)
(* transaction commits, so no other process ever reads it: here it is the  *)
(* dispatcher's program counter, not a value of msgStatus.                 *)
(***************************************************************************)
EXTENDS Naturals, Sequences, FiniteSets

CONSTANTS
    Messages,     \* ids in campaign.messages that the run may materialize
    Partitions,   \* partitions of the campaign.dispatch.<channel> topics
    PartitionOf,  \* the partition the key of a message hashes to
    MaxAttempts,  \* max_attempts of the channel's default_retry_policy
    Faults,       \* the processes that may fail, a subset of FaultKinds
    \* Bounds of a run of the checker:
    MaxStarts,    \* presses of "start"
    MaxPauses,    \* presses of "pause"
    MaxRetries,   \* presses of "retry" on a message
    MaxFaults     \* failures altogether

FaultKinds == {"scheduler", "dispatcher", "exception", "retry", "relay",
               "checker", "resume"}

ASSUME DispatchAssumption ==
    /\ PartitionOf \in [Messages -> Partitions]
    /\ MaxAttempts \in Nat \ {0}
    /\ Faults \subseteq FaultKinds
    /\ MaxStarts \in Nat /\ MaxPauses \in Nat
    /\ MaxRetries \in Nat /\ MaxFaults \in Nat

RunStatuses == {"READY", "RUNNING", "PAUSED", "COMPLETED", "CANCELLED"}
Pending == {"QUEUED", "RETRYING"}   \* NON_TERMINAL_MESSAGE_STATUSES, as committed
Cancellable == {"QUEUED", "RETRYING"}
RetriableOrCancelled == {"DEAD", "FAILED_UNCONFIRMED", "CANCELLED"}   \* a variant
Retriable == {"DEAD", "FAILED_UNCONFIRMED"}
Outcomes == {"SENT", "RETRYING", "DEAD", "FAILED_UNCONFIRMED"}
MessageStatuses == {"ABSENT", "QUEUED", "CANCELLED"} \cup Outcomes

(* What kannel.send makes of the gateway's answer. *)
Answers == {"SENT", "FAILED_PERMANENT", "FAILED_TRANSIENT", "FAILED_UNCONFIRMED"}

Publishers == {"scheduler", "resume", "retry"}

VARIABLES
    (* Postgres *)
    audience,    \* messages the run's audience and staff roster give rise to
    runStatus,   \* campaign_runs.status, as committed
    msgStatus,   \* messages.status, as committed
    attempts,    \* messages.attempt_count, as committed
    outbox,      \* campaign.events rows with published_at IS NULL, by id
    runLock,     \* the API transaction that holds the row of the run
    cancelling,  \* rows the UPDATE of an open stop has in its snapshot
    (* Kafka *)
    topic,       \* lifecycle and outcome events not yet consumed for good
    cmds,        \* per partition, dispatch commands from the committed offset on
    pos,         \* per partition, how many of them the consumer has fetched
    (* processes *)
    dpc,         \* program counter of each dispatcher
    answer,      \* what Kannel answered to the open claim of each dispatcher
    pub,         \* commands a publish loop has selected and not yet produced
    schedEvent,  \* the start event the scheduler worker is handling, 0 if none
    checkPc,     \* program counter of the message-events worker
    checkEvent,  \* the event it is handling
    (* observation and bounds *)
    calls,       \* calls of kannel.send for each message
    retried,     \* manual retries of each message
    starts, pauses, retries, faults

dbVars == <<audience, runStatus, msgStatus, attempts, outbox, runLock, cancelling>>
kafkaVars == <<topic, cmds, pos>>
procVars == <<dpc, answer, pub, schedEvent, checkPc, checkEvent>>
histVars == <<calls, retried, starts, pauses, retries, faults>>
vars == <<dbVars, kafkaVars, procVars, histVars>>

-----------------------------------------------------------------------------
(* Events of the transactional outbox (app.services.outbox.write_event). *)

StartEvent(n) == [type |-> "run.start_requested", n |-> n]
OutcomeEvent(m, n, s) ==
    [type |-> "message.attempt_outcome", msg |-> m, n |-> n, status |-> s]
DeadEvent(m, n) == [type |-> "message.dead_lettered", msg |-> m, n |-> n]
CompletedEvent == [type |-> "run.completed"]
NoEvent == [type |-> "none"]

StartEvents == [type : {"run.start_requested"}, n : Nat]
OutcomeEvents ==
    [type : {"message.attempt_outcome"}, msg : Messages, n : Nat, status : Outcomes]
DeadEvents == [type : {"message.dead_lettered"}, msg : Messages, n : Nat]
Events == StartEvents \cup OutcomeEvents \cup DeadEvents \cup {CompletedEvent}

Init ==
    /\ audience \in SUBSET Messages
    /\ runStatus = "READY"
    /\ msgStatus = [m \in Messages |-> "ABSENT"]
    /\ attempts = [m \in Messages |-> 0]
    /\ outbox = << >>
    /\ runLock = "none"
    /\ cancelling = {}
    /\ topic = {}
    /\ cmds = [p \in Partitions |-> << >>]
    /\ pos = [p \in Partitions |-> 0]
    /\ dpc = [p \in Partitions |-> "poll"]
    /\ answer = [p \in Partitions |-> "none"]
    /\ pub = [w \in Publishers |-> {}]
    /\ schedEvent = 0
    /\ checkPc = "idle"
    /\ checkEvent = NoEvent
    /\ calls = [m \in Messages |-> 0]
    /\ retried = [m \in Messages |-> 0]
    /\ starts = 0 /\ pauses = 0 /\ retries = 0 /\ faults = 0

Queued == {m \in Messages : msgStatus[m] = "QUEUED"}

(* One failure of a process that the model lets fail. *)
Fault(kind) ==
    /\ kind \in Faults
    /\ faults < MaxFaults
    /\ faults' = faults + 1

-----------------------------------------------------------------------------
(* Operator calls: the handlers of /campaign-runs and /messages. *)

(* request_run_start checks the status and writes an event; the run keeps *)
(* its status until the scheduler worker acts, so it can be called twice. *)
RequestStart ==
    /\ runStatus = "READY"
    /\ starts < MaxStarts
    /\ starts' = starts + 1
    /\ outbox' = Append(outbox, StartEvent(starts + 1))
    /\ UNCHANGED <<audience, runStatus, msgStatus, attempts, runLock, cancelling,
                   kafkaVars, procVars, calls, retried, pauses, retries, faults>>

PauseRun ==
    /\ runLock = "none"
    /\ runStatus = "RUNNING"
    /\ pauses < MaxPauses
    /\ pauses' = pauses + 1
    /\ runStatus' = "PAUSED"
    /\ UNCHANGED <<audience, msgStatus, attempts, outbox, runLock, cancelling,
                   kafkaVars, procVars, calls, retried, starts, retries, faults>>

(* resume_run: the status change is made first but commits last; what is *)
(* QUEUED goes to Kafka in between, while others still read PAUSED.       *)
ResumeBegin ==
    /\ runLock = "none"
    /\ runStatus = "PAUSED"
    /\ runLock' = "resume"
    /\ pub' = [pub EXCEPT !["resume"] = Queued]
    /\ UNCHANGED <<audience, runStatus, msgStatus, attempts, outbox, cancelling,
                   kafkaVars, dpc, answer, schedEvent, checkPc, checkEvent, histVars>>

ResumeCommit ==
    /\ runLock = "resume"
    /\ pub["resume"] = {}
    /\ runStatus' = "RUNNING"
    /\ runLock' = "none"
    /\ UNCHANGED <<audience, msgStatus, attempts, outbox, cancelling,
                   kafkaVars, procVars, histVars>>

(* The API process dies before the commit: the run is PAUSED as before. *)
ResumeCrash ==
    /\ runLock = "resume"
    /\ Fault("resume")
    /\ runLock' = "none"
    /\ pub' = [pub EXCEPT !["resume"] = {}]
    /\ UNCHANGED <<audience, runStatus, msgStatus, attempts, outbox, cancelling,
                   kafkaVars, dpc, answer, schedEvent, checkPc, checkEvent,
                   calls, retried, starts, pauses, retries>>

(* stop_run: the run and its messages change in one transaction, whose      *)
(* second UPDATE has to wait for every row a dispatcher holds and then      *)
(* looks at that row again.                                                 *)
StopBegin ==
    /\ runLock = "none"
    /\ runStatus \in {"RUNNING", "PAUSED"}
    /\ runLock' = "stop"
    /\ cancelling' = {m \in Messages : msgStatus[m] \in Cancellable}
    /\ UNCHANGED <<audience, runStatus, msgStatus, attempts, outbox,
                   kafkaVars, procVars, histVars>>

(* The messages whose row a dispatcher's open transaction holds. *)
HeldBy(p) == IF dpc[p] \in {"claimed", "answered"} THEN {cmds[p][pos[p]]} ELSE {}

InFlight == UNION {HeldBy(p) : p \in Partitions}

(* Variant: rows cancelled from the snapshot, whoever holds them. *)
StopCommitBlind ==
    /\ runLock = "stop"
    /\ runStatus' = "CANCELLED"
    /\ msgStatus' = [m \in Messages |->
                        IF m \in cancelling THEN "CANCELLED" ELSE msgStatus[m]]
    /\ runLock' = "none"
    /\ cancelling' = {}
    /\ UNCHANGED <<audience, attempts, outbox, kafkaVars, procVars, histVars>>

StopCommit ==
    /\ runLock = "stop"
    /\ InFlight \cap cancelling = {}
    /\ runStatus' = "CANCELLED"
    /\ msgStatus' = [m \in Messages |->
                        IF m \in cancelling /\ msgStatus[m] \in Cancellable
                        THEN "CANCELLED" ELSE msgStatus[m]]
    /\ runLock' = "none"
    /\ cancelling' = {}
    /\ UNCHANGED <<audience, attempts, outbox, kafkaVars, procVars, histVars>>

(* retry_message looks at the status of the message only, not of its run. *)
ManualRetry(m) ==
    /\ msgStatus[m] \in Retriable
    /\ retries < MaxRetries
    /\ retries' = retries + 1
    /\ retried' = [retried EXCEPT ![m] = @ + 1]
    /\ msgStatus' = [msgStatus EXCEPT ![m] = "RETRYING"]
    /\ UNCHANGED <<audience, runStatus, attempts, outbox, runLock, cancelling,
                   kafkaVars, procVars, calls, starts, pauses, faults>>

-----------------------------------------------------------------------------
(* The outbox relay. *)

RelayEvent ==
    /\ outbox # << >>
    /\ topic' = topic \cup {Head(outbox)}
    /\ outbox' = Tail(outbox)
    /\ UNCHANGED <<audience, runStatus, msgStatus, attempts, runLock, cancelling,
                   cmds, pos, procVars, histVars>>

(* A relay that dies after publishing part of its batch and before its      *)
(* commit: those events stay unpublished rows and will be sent again.       *)
RelayCrash ==
    /\ Fault("relay")
    /\ \E k \in 1..Len(outbox) :
          topic' = topic \cup {outbox[i] : i \in 1..k}
    /\ UNCHANGED <<dbVars, cmds, pos, procVars, calls, retried, starts, pauses, retries>>

-----------------------------------------------------------------------------
(* The publish loops of _publish_queued_messages and of the retry scheduler. *)

Publish(w, m) ==
    /\ m \in pub[w]
    /\ pub' = [pub EXCEPT ![w] = @ \ {m}]
    /\ cmds' = [cmds EXCEPT ![PartitionOf[m]] = Append(@, m)]
    /\ UNCHANGED <<dbVars, topic, pos, dpc, answer, schedEvent, checkPc, checkEvent,
                   histVars>>

-----------------------------------------------------------------------------
(* The scheduler worker: queue_run_messages for each start event. *)

Materialize(n) ==
    /\ schedEvent = 0
    /\ StartEvent(n) \in topic
    /\ runStatus = "READY"
    /\ schedEvent' = n
    /\ runStatus' = "RUNNING"
    /\ msgStatus' = [m \in Messages |->
                        IF m \in audience THEN "QUEUED" ELSE msgStatus[m]]
    /\ pub' = [pub EXCEPT !["scheduler"] = audience]
    /\ UNCHANGED <<audience, attempts, outbox, runLock, cancelling, kafkaVars,
                   dpc, answer, checkPc, checkEvent, histVars>>

(* Variant: a redelivered start taken for done because the run is RUNNING. *)
RunningMeansDone(n) ==
    /\ schedEvent = 0
    /\ StartEvent(n) \in topic
    /\ runStatus = "RUNNING"
    /\ schedEvent' = n
    /\ UNCHANGED <<dbVars, kafkaVars, dpc, answer, pub, checkPc, checkEvent, histVars>>

RepublishRunning(n) ==
    /\ schedEvent = 0
    /\ StartEvent(n) \in topic
    /\ runStatus = "RUNNING"
    /\ schedEvent' = n
    /\ pub' = [pub EXCEPT !["scheduler"] = Queued]
    /\ UNCHANGED <<dbVars, kafkaVars, dpc, answer, checkPc, checkEvent, histVars>>

SkipNotRunnable(n) ==
    /\ schedEvent = 0
    /\ StartEvent(n) \in topic
    /\ runStatus \notin {"READY", "RUNNING"}
    /\ topic' = topic \ {StartEvent(n)}
    /\ UNCHANGED <<dbVars, cmds, pos, procVars, histVars>>

SchedulerDone ==
    /\ schedEvent # 0
    /\ pub["scheduler"] = {}
    /\ topic' = topic \ {StartEvent(schedEvent)}
    /\ schedEvent' = 0
    /\ UNCHANGED <<dbVars, cmds, pos, dpc, answer, pub, checkPc, checkEvent, histVars>>

(* A crash, or an exception and the seek back: the event is delivered again. *)
SchedulerCrash ==
    /\ schedEvent # 0
    /\ Fault("scheduler")
    /\ schedEvent' = 0
    /\ pub' = [pub EXCEPT !["scheduler"] = {}]
    /\ UNCHANGED <<dbVars, kafkaVars, dpc, answer, checkPc, checkEvent,
                   calls, retried, starts, pauses, retries>>

-----------------------------------------------------------------------------
(* A dispatcher: process_dispatch_message inside the loop of dispatch_worker. *)

Current(p) == cmds[p][pos[p]]

(* consumer.commit(msg): the committed offset moves past everything fetched. *)
AdvanceOffset(p) ==
    /\ cmds' = [cmds EXCEPT ![p] = SubSeq(@, pos[p] + 1, Len(@))]
    /\ pos' = [pos EXCEPT ![p] = 0]

Poll(p) ==
    /\ dpc[p] = "poll"
    /\ pos[p] < Len(cmds[p])
    /\ pos' = [pos EXCEPT ![p] = @ + 1]
    /\ dpc' = [dpc EXCEPT ![p] = "handling"]
    /\ UNCHANGED <<dbVars, topic, cmds, answer, pub, schedEvent, checkPc, checkEvent,
                   histVars>>

(* Variant: the timeout handled without the seek. *)
RateLimitedNoSeek(p) ==
    /\ dpc[p] = "handling"
    /\ dpc' = [dpc EXCEPT ![p] = "poll"]
    /\ UNCHANGED <<dbVars, topic, cmds, pos, answer, pub, schedEvent, checkPc,
                   checkEvent, histVars>>

(* acquire_blocking found no slot: TimeoutError, and seek to the same offset. *)
RateLimited(p) ==
    /\ dpc[p] = "handling"
    /\ pos' = [pos EXCEPT ![p] = @ - 1]
    /\ dpc' = [dpc EXCEPT ![p] = "poll"]
    /\ UNCHANGED <<dbVars, topic, cmds, answer, pub, schedEvent, checkPc, checkEvent,
                   histVars>>

(* Variant: a claim that does not ask for QUEUED. *)
ClaimableWhateverStatus(m) == runStatus = "RUNNING"

Claimable(m) == msgStatus[m] = "QUEUED" /\ runStatus = "RUNNING"

Claim(p) ==
    /\ dpc[p] = "handling"
    /\ Claimable(Current(p))
    /\ dpc' = [dpc EXCEPT ![p] = "claimed"]
    /\ UNCHANGED <<dbVars, kafkaVars, answer, pub, schedEvent, checkPc, checkEvent,
                   histVars>>

ClaimSkipped(p) ==
    /\ dpc[p] = "handling"
    /\ ~Claimable(Current(p))
    /\ AdvanceOffset(p)
    /\ dpc' = [dpc EXCEPT ![p] = "poll"]
    /\ UNCHANGED <<dbVars, topic, answer, pub, schedEvent, checkPc, checkEvent, histVars>>

(* Variant: an HTTP client that repeats an ambiguous request by itself. *)
CallKannelTwice(p) ==
    /\ dpc[p] = "claimed"
    /\ answer' = [answer EXCEPT ![p] = "FAILED_UNCONFIRMED"]
    /\ calls' = [calls EXCEPT ![Current(p)] = @ + 2]
    /\ dpc' = [dpc EXCEPT ![p] = "answered"]
    /\ UNCHANGED <<dbVars, kafkaVars, pub, schedEvent, checkPc, checkEvent,
                   retried, starts, pauses, retries, faults>>

(* The HTTP call, made with the claim uncommitted. *)
CallKannel(p) ==
    /\ dpc[p] = "claimed"
    /\ \E a \in Answers : answer' = [answer EXCEPT ![p] = a]
    /\ calls' = [calls EXCEPT ![Current(p)] = @ + 1]
    /\ dpc' = [dpc EXCEPT ![p] = "answered"]
    /\ UNCHANGED <<dbVars, kafkaVars, pub, schedEvent, checkPc, checkEvent,
                   retried, starts, pauses, retries, faults>>

(* Variant: one attempt too many. *)
StatusAfterOneMore(a, n) ==
    IF a = "FAILED_TRANSIENT" THEN (IF n > MaxAttempts THEN "DEAD" ELSE "RETRYING")
    ELSE IF a = "FAILED_PERMANENT" THEN "DEAD" ELSE a

(* The status an answer to the n-th attempt leads to; SENT and              *)
(* FAILED_UNCONFIRMED are the names of both.                                *)
StatusAfter(a, n) ==
    IF a = "FAILED_TRANSIENT" THEN (IF n >= MaxAttempts THEN "DEAD" ELSE "RETRYING")
    ELSE IF a = "FAILED_PERMANENT" THEN "DEAD" ELSE a

(* The rest of the transaction: status, attempt row and events, one commit. *)
RecordOutcome(p) ==
    LET m == Current(p)
        n == attempts[m] + 1
        s == StatusAfter(answer[p], n)
    IN  /\ dpc[p] = "answered"
        /\ attempts' = [attempts EXCEPT ![m] = n]
        /\ msgStatus' = [msgStatus EXCEPT ![m] = s]
        /\ outbox' = outbox \o <<OutcomeEvent(m, n, s)>>
                            \o (IF s = "DEAD" THEN <<DeadEvent(m, n)>> ELSE << >>)
        /\ dpc' = [dpc EXCEPT ![p] = "recorded"]
        /\ answer' = [answer EXCEPT ![p] = "none"]
        /\ UNCHANGED <<audience, runStatus, runLock, cancelling, kafkaVars,
                       pub, schedEvent, checkPc, checkEvent, histVars>>

CommitOffset(p) ==
    /\ dpc[p] = "recorded"
    /\ AdvanceOffset(p)
    /\ dpc' = [dpc EXCEPT ![p] = "poll"]
    /\ UNCHANGED <<dbVars, topic, answer, pub, schedEvent, checkPc, checkEvent, histVars>>

(* Any other exception: rollback, neither seek nor commit, next message. *)
DispatchException(p) ==
    /\ dpc[p] # "poll"
    /\ Fault("exception")
    /\ dpc' = [dpc EXCEPT ![p] = "poll"]
    /\ answer' = [answer EXCEPT ![p] = "none"]
    /\ UNCHANGED <<dbVars, kafkaVars, pub, schedEvent, checkPc, checkEvent,
                   calls, retried, starts, pauses, retries>>

(* The process dies: the open transaction rolls back, and the consumer that *)
(* takes over starts at the committed offset.                               *)
DispatcherCrash(p) ==
    /\ dpc[p] # "poll" \/ pos[p] # 0
    /\ Fault("dispatcher")
    /\ dpc' = [dpc EXCEPT ![p] = "poll"]
    /\ answer' = [answer EXCEPT ![p] = "none"]
    /\ pos' = [pos EXCEPT ![p] = 0]
    /\ UNCHANGED <<dbVars, topic, cmds, pub, schedEvent, checkPc, checkEvent,
                   calls, retried, starts, pauses, retries>>

-----------------------------------------------------------------------------
(* The retry scheduler: one UPDATE takes a batch of due rows and commits;   *)
(* the commands follow.  When a row falls due is left open.                 *)
ClaimDue ==
    /\ pub["retry"] = {}
    /\ \E S \in SUBSET {m \in Messages : msgStatus[m] = "RETRYING"} :
          /\ S # {}
          /\ msgStatus' = [m \in Messages |-> IF m \in S THEN "QUEUED" ELSE msgStatus[m]]
          /\ pub' = [pub EXCEPT !["retry"] = S]
    /\ UNCHANGED <<audience, runStatus, attempts, outbox, runLock, cancelling, kafkaVars,
                   dpc, answer, schedEvent, checkPc, checkEvent, histVars>>

RetrySchedulerCrash ==
    /\ pub["retry"] # {}
    /\ Fault("retry")
    /\ pub' = [pub EXCEPT !["retry"] = {}]
    /\ UNCHANGED <<dbVars, kafkaVars, dpc, answer, schedEvent, checkPc, checkEvent,
                   calls, retried, starts, pauses, retries>>

-----------------------------------------------------------------------------
(* The message-events worker: check_and_complete_run for each terminal      *)
(* outcome.  The count and the UPDATE are two statements under READ         *)
(* COMMITTED: each sees what is committed when it runs.                     *)

(* Variant: an ambiguous outcome not taken for a terminal one. *)
IsConfirmedOutcome(e) ==
    /\ e.type = "message.attempt_outcome"
    /\ e.status \in {"SENT", "DEAD"}

IsTerminalOutcome(e) ==
    /\ e.type = "message.attempt_outcome"
    /\ e.status \in {"SENT", "DEAD", "FAILED_UNCONFIRMED"}

(* Variant: completing at the first terminal outcome. *)
AllSettledUnchecked == TRUE

AllSettled == \A m \in Messages : msgStatus[m] \notin Pending

IgnoreOutcome(e) ==
    /\ checkPc = "idle"
    /\ e.type = "message.attempt_outcome"
    /\ ~IsTerminalOutcome(e) \/ ~AllSettled
    /\ topic' = topic \ {e}
    /\ UNCHANGED <<dbVars, cmds, pos, procVars, histVars>>

CountNonePending(e) ==
    /\ checkPc = "idle"
    /\ IsTerminalOutcome(e)
    /\ AllSettled
    /\ checkPc' = "counted"
    /\ checkEvent' = e
    /\ UNCHANGED <<dbVars, kafkaVars, dpc, answer, pub, schedEvent, histVars>>

(* The UPDATE waits while an API transaction holds the row of the run. *)
CompleteRun ==
    /\ checkPc = "counted"
    /\ runLock = "none"
    /\ runStatus = "RUNNING"
    /\ runStatus' = "COMPLETED"
    /\ outbox' = Append(outbox, CompletedEvent)
    /\ checkPc' = "handled"
    /\ UNCHANGED <<audience, msgStatus, attempts, runLock, cancelling, kafkaVars,
                   dpc, answer, pub, schedEvent, checkEvent, histVars>>

CompleteNothing ==
    /\ checkPc = "counted"
    /\ runLock = "none"
    /\ runStatus # "RUNNING"
    /\ checkPc' = "handled"
    /\ UNCHANGED <<dbVars, kafkaVars, dpc, answer, pub, schedEvent, checkEvent, histVars>>

CheckerDone ==
    /\ checkPc = "handled"
    /\ checkPc' = "idle"
    /\ checkEvent' = NoEvent
    /\ topic' = topic \ {checkEvent}
    /\ UNCHANGED <<dbVars, cmds, pos, dpc, answer, pub, schedEvent, histVars>>

(* A crash, or an exception and the seek back: the event is delivered again. *)
CheckerCrash ==
    /\ checkPc # "idle"
    /\ Fault("checker")
    /\ checkPc' = "idle"
    /\ checkEvent' = NoEvent
    /\ UNCHANGED <<dbVars, kafkaVars, dpc, answer, pub, schedEvent,
                   calls, retried, starts, pauses, retries>>

-----------------------------------------------------------------------------
Operator ==
    \/ RequestStart \/ PauseRun \/ ResumeBegin \/ StopBegin
    \/ \E m \in Messages : ManualRetry(m)

ApiCommit == ResumeCommit \/ StopCommit

Scheduler ==
    \/ \E n \in 1..MaxStarts : Materialize(n) \/ RepublishRunning(n) \/ SkipNotRunnable(n)
    \/ SchedulerDone

Publishing == \E w \in Publishers, m \in Messages : Publish(w, m)

Dispatcher(p) ==
    \/ Poll(p) \/ RateLimited(p) \/ Claim(p) \/ ClaimSkipped(p)
    \/ CallKannel(p) \/ RecordOutcome(p) \/ CommitOffset(p)

Checker ==
    \/ \E e \in topic : IgnoreOutcome(e) \/ CountNonePending(e)
    \/ CompleteRun \/ CompleteNothing \/ CheckerDone

Failure ==
    \/ ResumeCrash \/ RelayCrash \/ SchedulerCrash \/ RetrySchedulerCrash \/ CheckerCrash
    \/ \E p \in Partitions : DispatchException(p) \/ DispatcherCrash(p)

Next ==
    \/ Operator \/ ApiCommit \/ RelayEvent \/ Publishing \/ Scheduler
    \/ ClaimDue \/ Checker \/ Failure
    \/ \E p \in Partitions : Dispatcher(p)

Spec == Init /\ [][Next]_vars

(***************************************************************************)
(* Fairness: every worker is a loop that polls without end, so its steps   *)
(* are weakly fair; an API transaction that has begun ends.  The limiter   *)
(* may refuse a dispatcher any number of times but not for ever, which     *)
(* takes strong fairness of the step behind it.  Operators promise nothing *)
(* and failures are never owed.                                            *)
(***************************************************************************)
Fairness ==
    /\ WF_vars(ApiCommit)
    /\ WF_vars(RelayEvent)
    /\ WF_vars(Scheduler)
    /\ WF_vars(Publishing)
    /\ WF_vars(ClaimDue)
    /\ WF_vars(Checker)
    /\ \A p \in Partitions :
          /\ WF_vars(Poll(p) \/ CallKannel(p) \/ RecordOutcome(p) \/ CommitOffset(p))
          /\ SF_vars(Claim(p) \/ ClaimSkipped(p))

FairSpec == Spec /\ Fairness

-----------------------------------------------------------------------------
DbTypeOK ==
    /\ audience \in SUBSET Messages
    /\ runStatus \in RunStatuses
    /\ msgStatus \in [Messages -> MessageStatuses]
    /\ attempts \in [Messages -> Nat]
    /\ outbox \in Seq(Events)
    /\ runLock \in {"none", "resume", "stop"}
    /\ cancelling \in SUBSET Messages

KafkaTypeOK ==
    /\ topic \in SUBSET Events
    /\ cmds \in [Partitions -> Seq(Messages)]
    /\ pos \in [Partitions -> Nat]

ProcTypeOK ==
    /\ dpc \in [Partitions -> {"poll", "handling", "claimed", "answered", "recorded"}]
    /\ answer \in [Partitions -> Answers \cup {"none"}]
    /\ pub \in [Publishers -> SUBSET Messages]
    /\ schedEvent \in Nat
    /\ checkPc \in {"idle", "counted", "handled"}
    /\ checkEvent \in Events \cup {NoEvent}

HistTypeOK ==
    /\ calls \in [Messages -> Nat]
    /\ retried \in [Messages -> Nat]
    /\ starts \in Nat /\ pauses \in Nat /\ retries \in Nat /\ faults \in Nat

(* A dispatcher that is handling a command has fetched one, and none has    *)
(* fetched more than there are.                                             *)
FetchedOK ==
    \A p \in Partitions :
        /\ pos[p] <= Len(cmds[p])
        /\ dpc[p] # "poll" => pos[p] > 0
        /\ dpc[p] = "answered" <=> answer[p] # "none"

(* Every variable keeps its type, and the fetch positions of the consumers  *)
(* stay within their partitions (dispatch_worker.run).                      *)
TypeOK == DbTypeOK /\ KafkaTypeOK /\ ProcTypeOK /\ HistTypeOK /\ FetchedOK

(* A finished run has no work left: in a COMPLETED or CANCELLED run a       *)
(* message still waits to be sent only if an operator asked for it again.   *)
(* Completion counts and updates in two statements and a stop cancels rows  *)
(* that dispatchers and the retry scheduler are moving (check_and_complete_ *)
(* run, stop_run).                                                          *)
FinishedRunHoldsNoWork ==
    runStatus \in {"COMPLETED", "CANCELLED"} =>
        \A m \in Messages : msgStatus[m] \in Pending => retried[m] > 0

(* The retry budget: however commands are repeated, a message is attempted  *)
(* at most max_attempts times, and once more for each manual retry          *)
(* (process_dispatch_message, retry_message).                               *)
AttemptsBounded ==
    \A m \in Messages : attempts[m] <= MaxAttempts + retried[m]

(* Calls of kannel.send and recorded attempts agree: a call is either       *)
(* recorded, or still in its open transaction, or was lost with a failed    *)
(* one.  Repeated commands alone never cost a customer a second SMS.        *)
Answered(m) ==
    Cardinality({p \in Partitions : dpc[p] = "answered" /\ Current(p) = m})

CallsAccounted ==
    \A m \in Messages :
        /\ calls[m] >= attempts[m] + Answered(m)
        /\ calls[m] <= attempts[m] + Answered(m) + faults

(* What is settled stays so: a SENT or CANCELLED message is never sent      *)
(* again, a DEAD or FAILED_UNCONFIRMED one only when an operator says so.   *)
SettledNeedsOperator ==
    [][\A m \in Messages :
          msgStatus[m] \in {"SENT", "CANCELLED", "DEAD", "FAILED_UNCONFIRMED"} =>
              \/ msgStatus'[m] = msgStatus[m] /\ calls'[m] = calls[m]
              \/ msgStatus[m] \in Retriable /\ retried'[m] = retried[m] + 1]_vars

(* No lost wake-up: a QUEUED message of a RUNNING run has a command that    *)
(* will reach a dispatcher, or somebody who is about to publish one.        *)
HasCommand(m) ==
    \E i \in 1..Len(cmds[PartitionOf[m]]) : cmds[PartitionOf[m]][i] = m

StartPending ==
    \/ \E e \in topic : e.type = "run.start_requested"
    \/ \E i \in 1..Len(outbox) : outbox[i].type = "run.start_requested"

NothingStranded ==
    runStatus = "RUNNING" =>
        \A m \in Queued :
            \/ HasCommand(m)
            \/ \E w \in Publishers : m \in pub[w]
            \/ StartPending

(* No lost completion: once nothing is pending in a RUNNING run, an outcome *)
(* event is still on its way to the message-events worker, which will then  *)
(* find the run finished.                                                   *)
CompletionPending ==
    (runStatus = "RUNNING" /\ audience # {} /\ AllSettled) =>
        \/ checkPc = "counted"
        \/ \E e \in topic : IsTerminalOutcome(e)
        \/ \E i \in 1..Len(outbox) : IsTerminalOutcome(outbox[i])

(* A run that operators leave alone does not sit in RUNNING for ever        *)
(* (message_events_worker): it completes or is stopped.                     *)
RunSettles ==
    (runStatus = "RUNNING" /\ audience # {}) ~> (runStatus # "RUNNING")

-----------------------------------------------------------------------------
(* The run contract, implemented with QUEUED and RETRYING read as WAITING.  *)
Contract == INSTANCE RunContract WITH
    run <- runStatus,
    msg <- [m \in Messages |->
               IF msgStatus[m] \in Pending THEN "WAITING" ELSE msgStatus[m]],
    reopened <- retried

(* Dispatch implements RunContract: with workers, crashes and repeated      *)
(* deliveries, run and messages move only as the contract lets them.        *)
ImplementsContract == Contract!Spec

=============================================================================
