--------------------------- MODULE DispatchProofs ---------------------------
(***************************************************************************)
(* Proofs about Dispatch for every set of messages and partitions, every   *)
(* retry policy, every choice of failing processes and all bounds.         *)
(***************************************************************************)
EXTENDS Dispatch, SequenceTheorems, FiniteSetTheorems, TLAPS

(* The events a handler writes are events. *)
LEMMA EventTypes ==
    /\ \A n \in Nat : StartEvent(n) \in Events
    /\ \A m \in Messages, n \in Nat, s \in Outcomes : OutcomeEvent(m, n, s) \in Events
    /\ \A m \in Messages, n \in Nat : DeadEvent(m, n) \in Events
    /\ CompletedEvent \in Events
BY DEF StartEvent, OutcomeEvent, DeadEvent, Events, StartEvents, OutcomeEvents, DeadEvents

(* An answer leads to an outcome. *)
LEMMA StatusAfterType ==
    ASSUME NEW a \in Answers, NEW n \in Nat
    PROVE  StatusAfter(a, n) \in Outcomes
BY DEF StatusAfter, Outcomes, Answers

(* The command a dispatcher is handling names a message. *)
LEMMA CurrentType ==
    ASSUME TypeOK, NEW p \in Partitions, dpc[p] # "poll"
    PROVE  Current(p) \in Messages
<1>1. pos[p] \in 1..Len(cmds[p]) /\ cmds[p] \in Seq(Messages)
    BY DEF TypeOK, FetchedOK, KafkaTypeOK
<1> QED
    BY <1>1, ElementOfSeq DEF Current

(* Committing an offset leaves a well-typed partition, none of it fetched. *)
LEMMA AdvanceOffsetType ==
    ASSUME TypeOK, NEW p \in Partitions, AdvanceOffset(p)
    PROVE  /\ cmds' \in [Partitions -> Seq(Messages)]
           /\ pos' \in [Partitions -> Nat]
           /\ pos'[p] = 0
           /\ \A q \in Partitions : q # p => cmds'[q] = cmds[q] /\ pos'[q] = pos[q]
<1> DEFINE rest == SubSeq(cmds[p], pos[p] + 1, Len(cmds[p]))
<1>1. cmds[p] \in Seq(Messages) /\ pos[p] \in Nat /\ Len(cmds[p]) \in Nat
    BY DEF TypeOK, KafkaTypeOK
<1>2. rest \in Seq(Messages)
    <2>1. \A i \in pos[p] + 1 .. Len(cmds[p]) : cmds[p][i] \in Messages
        BY <1>1, ElementOfSeq
    <2> QED
        BY <1>1, <2>1, SubSeqProperties
<1>3. cmds' = [cmds EXCEPT ![p] = rest] /\ pos' = [pos EXCEPT ![p] = 0]
    BY DEF AdvanceOffset
<1> QED
    BY <1>2, <1>3 DEF TypeOK, KafkaTypeOK

-----------------------------------------------------------------------------
(* Every action preserves the types; the actions are taken in groups.       *)

(* The handlers of campaign_runs and of the manual retry preserve TypeOK.   *)
LEMMA OperatorType ==
    ASSUME TypeOK, Operator \/ ApiCommit
    PROVE  TypeOK'
<1> USE DEF TypeOK, DbTypeOK, KafkaTypeOK, ProcTypeOK, HistTypeOK, FetchedOK,
            vars, dbVars, kafkaVars, procVars, histVars
<1>1. CASE RequestStart
    <2>1. StartEvent(starts + 1) \in Events
        BY EventTypes
    <2>2. Append(outbox, StartEvent(starts + 1)) \in Seq(Events)
        BY <2>1, AppendProperties
    <2> QED
        BY <1>1, <2>2 DEF RequestStart
<1>2. CASE PauseRun
    BY <1>2 DEF PauseRun, RunStatuses
<1>3. CASE ResumeBegin
    BY <1>3 DEF ResumeBegin, Publishers, Queued
<1>4. CASE StopBegin
    BY <1>4 DEF StopBegin
<1>5. ASSUME NEW m \in Messages, ManualRetry(m)
      PROVE  TypeOK'
    BY <1>5 DEF ManualRetry, MessageStatuses, Outcomes
<1>6. CASE ResumeCommit
    BY <1>6 DEF ResumeCommit, RunStatuses
<1>7. CASE StopCommit
    <2>1. msgStatus' \in [Messages -> MessageStatuses]
        BY <1>7 DEF StopCommit, MessageStatuses
    <2> QED
        BY <1>7, <2>1 DEF StopCommit, RunStatuses
<1> QED
    BY <1>1, <1>2, <1>3, <1>4, <1>5, <1>6, <1>7 DEF Operator, ApiCommit

(* The outbox relay, publishing or failing, preserves TypeOK.               *)
LEMMA RelayType ==
    ASSUME TypeOK, RelayEvent
    PROVE  TypeOK'
<1> USE DEF TypeOK, DbTypeOK, KafkaTypeOK, ProcTypeOK, HistTypeOK, FetchedOK,
            vars, dbVars, kafkaVars, procVars, histVars
<1>1. Head(outbox) \in Events /\ Tail(outbox) \in Seq(Events)
    BY HeadTailProperties DEF RelayEvent
<1> QED
    BY <1>1 DEF RelayEvent

(* publish_batch appends well-typed commands to the partitions of their     *)
(* keys.                                                                    *)
LEMMA PublishType ==
    ASSUME TypeOK, NEW w \in Publishers, NEW m \in Messages, Publish(w, m)
    PROVE  TypeOK'
<1> USE DEF TypeOK, DbTypeOK, KafkaTypeOK, ProcTypeOK, HistTypeOK, FetchedOK,
            vars, dbVars, kafkaVars, procVars, histVars
<1> DEFINE p == PartitionOf[m]
<1>1. p \in Partitions
    BY DispatchAssumption
<1>2. /\ Append(cmds[p], m) \in Seq(Messages)
      /\ Len(Append(cmds[p], m)) = Len(cmds[p]) + 1
    BY <1>1, AppendProperties
<1>3. cmds' = [cmds EXCEPT ![p] = Append(cmds[p], m)]
    BY DEF Publish
<1>4. \A q \in Partitions : Len(cmds[q]) \in Nat
    OBVIOUS
<1>5. ASSUME NEW q \in Partitions
      PROVE  Len(cmds'[q]) >= Len(cmds[q])
    <2>1. cmds'[q] = IF q = p THEN Append(cmds[p], m) ELSE cmds[q]
        BY <1>1, <1>3
    <2> HIDE DEF p
    <2>2. CASE q = p
        BY <2>1, <2>2, <1>2, <1>4
    <2>3. CASE q # p
        BY <2>1, <2>3, <1>4
    <2> QED
        BY <2>2, <2>3
<1>6. cmds' \in [Partitions -> Seq(Messages)]
    BY <1>1, <1>2, <1>3
<1>7. FetchedOK'
    BY <1>4, <1>5, <1>6 DEF Publish
<1> QED
    BY <1>6, <1>7 DEF Publish

(* queue_run_messages, its commit and its failure preserve TypeOK.          *)
LEMMA SchedulerType ==
    ASSUME TypeOK, Scheduler \/ ClaimDue
    PROVE  TypeOK'
<1> USE DEF TypeOK, DbTypeOK, KafkaTypeOK, ProcTypeOK, HistTypeOK, FetchedOK,
            vars, dbVars, kafkaVars, procVars, histVars
<1>1. ASSUME NEW n \in 1..MaxStarts, Materialize(n)
      PROVE  TypeOK'
    <2>1. msgStatus' \in [Messages -> MessageStatuses]
        BY <1>1 DEF Materialize, MessageStatuses
    <2> QED
        BY <1>1, <2>1, DispatchAssumption DEF Materialize, RunStatuses, Publishers
<1>2. ASSUME NEW n \in 1..MaxStarts, RepublishRunning(n)
      PROVE  TypeOK'
    BY <1>2, DispatchAssumption DEF RepublishRunning, Publishers, Queued
<1>3. ASSUME NEW n \in 1..MaxStarts, SkipNotRunnable(n)
      PROVE  TypeOK'
    BY <1>3 DEF SkipNotRunnable
<1>4. CASE SchedulerDone
    BY <1>4 DEF SchedulerDone
<1>5. CASE ClaimDue
    <2>1. PICK S \in SUBSET {m \in Messages : msgStatus[m] = "RETRYING"} :
             /\ msgStatus' = [m \in Messages |-> IF m \in S THEN "QUEUED" ELSE msgStatus[m]]
             /\ pub' = [pub EXCEPT !["retry"] = S]
        BY <1>5 DEF ClaimDue
    <2>2. msgStatus' \in [Messages -> MessageStatuses]
        BY <2>1 DEF MessageStatuses
    <2> QED
        BY <1>5, <2>1, <2>2 DEF ClaimDue, Publishers
<1> QED
    BY <1>1, <1>2, <1>3, <1>4, <1>5 DEF Scheduler


(* Every step of a dispatcher, from poll to commit, preserves TypeOK.       *)
LEMMA DispatcherType ==
    ASSUME TypeOK, NEW p \in Partitions, Dispatcher(p)
    PROVE  TypeOK'
<1> USE DEF TypeOK, DbTypeOK, KafkaTypeOK, ProcTypeOK, HistTypeOK, FetchedOK,
            vars, dbVars, kafkaVars, procVars, histVars
<1>0. \A q \in Partitions : Len(cmds[q]) \in Nat
    OBVIOUS
<1>1. CASE Poll(p)
    <2>1. pos' = [pos EXCEPT ![p] = @ + 1] /\ pos[p] < Len(cmds[p])
        BY <1>1 DEF Poll
    <2>2. dpc' = [dpc EXCEPT ![p] = "handling"] /\ dpc[p] = "poll"
        BY <1>1 DEF Poll
    <2>3. UNCHANGED <<dbVars, topic, cmds, answer, pub, schedEvent, checkPc, checkEvent,
                      histVars>>
        BY <1>1 DEF Poll
    <2>4. FetchedOK'
        BY <1>0, <2>1, <2>2, <2>3
    <2>5. KafkaTypeOK'
        <3>1. pos[p] + 1 \in Nat
            OBVIOUS
        <3>2. pos' \in [Partitions -> Nat]
            BY <2>1, <3>1
        <3> QED
            BY <2>3, <3>2
    <2>6. ProcTypeOK'
        BY <2>2, <2>3
    <2>7. DbTypeOK' /\ HistTypeOK'
        BY <2>3
    <2> QED
        BY <2>4, <2>5, <2>6, <2>7
<1>2. CASE RateLimited(p)
    <2>1. pos' = [pos EXCEPT ![p] = @ - 1] /\ pos[p] > 0
        BY <1>2 DEF RateLimited
    <2>2. dpc' = [dpc EXCEPT ![p] = "poll"] /\ dpc[p] = "handling"
        BY <1>2 DEF RateLimited
    <2>3. UNCHANGED <<dbVars, topic, cmds, answer, pub, schedEvent, checkPc, checkEvent,
                      histVars>>
        BY <1>2 DEF RateLimited
    <2>4. FetchedOK'
        BY <1>0, <2>1, <2>2, <2>3
    <2>5. pos' \in [Partitions -> Nat] /\ KafkaTypeOK'
        <3>1. pos[p] - 1 \in Nat
            BY <2>1
        <3>2. pos' \in [Partitions -> Nat]
            BY <2>1, <3>1
        <3> QED
            BY <2>3, <3>2
    <2>6. ProcTypeOK'
        BY <2>2, <2>3
    <2>7. DbTypeOK' /\ HistTypeOK'
        BY <2>3
    <2> QED
        BY <2>4, <2>5, <2>6, <2>7
<1>3. CASE Claim(p)
    BY <1>3 DEF Claim
<1>4. CASE ClaimSkipped(p) \/ CommitOffset(p)
    <2>1. AdvanceOffset(p) /\ dpc[p] \notin {"poll", "answered"}
        BY <1>4 DEF ClaimSkipped, CommitOffset
    <2>2. /\ cmds' \in [Partitions -> Seq(Messages)]
          /\ pos' \in [Partitions -> Nat]
          /\ pos'[p] = 0
          /\ \A q \in Partitions : q # p => cmds'[q] = cmds[q] /\ pos'[q] = pos[q]
        BY <2>1, AdvanceOffsetType
    <2>3. Len(cmds'[p]) \in Nat
        BY <2>2
    <2>4. dpc' = [dpc EXCEPT ![p] = "poll"] /\ answer' = answer
        BY <1>4 DEF ClaimSkipped, CommitOffset
    <2>5. FetchedOK'
        <3> SUFFICES ASSUME NEW q \in Partitions
                     PROVE  /\ pos'[q] <= Len(cmds'[q])
                            /\ dpc'[q] # "poll" => pos'[q] > 0
                            /\ dpc'[q] = "answered" <=> answer'[q] # "none"
            OBVIOUS
        <3>1. CASE q = p
            BY <2>1, <2>2, <2>3, <2>4, <3>1
        <3>2. CASE q # p
            BY <2>2, <2>4, <3>2
        <3> QED
            BY <3>1, <3>2
    <2> QED
        BY <1>4, <2>2, <2>4, <2>5 DEF ClaimSkipped, CommitOffset
<1>5. CASE CallKannel(p)
    <2>1. PICK a \in Answers : answer' = [answer EXCEPT ![p] = a]
        BY <1>5 DEF CallKannel
    <2>2. Current(p) \in Messages
        BY <1>5, CurrentType DEF CallKannel
    <2>3. dpc' = [dpc EXCEPT ![p] = "answered"] /\ dpc[p] = "claimed"
        BY <1>5 DEF CallKannel
    <2>4. UNCHANGED <<dbVars, kafkaVars, pub, schedEvent, checkPc, checkEvent,
                      retried, starts, pauses, retries, faults>>
        BY <1>5 DEF CallKannel
    <2>5. HistTypeOK'
        BY <1>5, <2>2, <2>4 DEF CallKannel
    <2>6. FetchedOK'
        BY <2>1, <2>3, <2>4 DEF Answers
    <2>7. ProcTypeOK'
        BY <2>1, <2>3, <2>4
    <2>8. DbTypeOK' /\ KafkaTypeOK'
        BY <2>4
    <2> QED
        BY <2>5, <2>6, <2>7, <2>8
<1>6. CASE RecordOutcome(p)
    <2> DEFINE m == Current(p)
               n == attempts[m] + 1
               s == StatusAfter(answer[p], n)
    <2>1. m \in Messages /\ n \in Nat
        <3>1. dpc[p] # "poll"
            BY <1>6 DEF RecordOutcome
        <3>2. m \in Messages
            BY <3>1, CurrentType
        <3> QED
            BY <3>2
    <2>2. answer[p] \in Answers
        BY <1>6 DEF RecordOutcome
    <2>3. s \in Outcomes
        BY <2>1, <2>2, StatusAfterType
    <2>4. outbox' \in Seq(Events)
        <3> DEFINE dead == IF s = "DEAD" THEN <<DeadEvent(m, n)>> ELSE << >>
        <3>1. OutcomeEvent(m, n, s) \in Events /\ DeadEvent(m, n) \in Events
            BY <2>1, <2>3, EventTypes
        <3>2. <<OutcomeEvent(m, n, s)>> \in Seq(Events) /\ dead \in Seq(Events)
            BY <3>1
        <3>3. outbox' = outbox \o <<OutcomeEvent(m, n, s)>> \o dead
            BY <1>6 DEF RecordOutcome
        <3>4. outbox \o <<OutcomeEvent(m, n, s)>> \in Seq(Events)
            BY <3>2, ConcatProperties
        <3> HIDE DEF dead
        <3> QED
            BY <3>2, <3>3, <3>4, ConcatProperties
    <2>5. attempts' = [attempts EXCEPT ![m] = n] /\ msgStatus' = [msgStatus EXCEPT ![m] = s]
        BY <1>6 DEF RecordOutcome
    <2>6. DbTypeOK'
        <3>1. UNCHANGED <<audience, runStatus, runLock, cancelling>>
            BY <1>6 DEF RecordOutcome
        <3> HIDE DEF m, n, s
        <3>2. attempts' \in [Messages -> Nat]
            BY <2>1, <2>5
        <3>3. msgStatus' \in [Messages -> MessageStatuses]
            BY <2>1, <2>3, <2>5 DEF MessageStatuses
        <3> QED
            BY <2>4, <3>1, <3>2, <3>3
    <2>7. dpc' = [dpc EXCEPT ![p] = "recorded"] /\ answer' = [answer EXCEPT ![p] = "none"]
        BY <1>6 DEF RecordOutcome
    <2>8. UNCHANGED <<kafkaVars, pub, schedEvent, checkPc, checkEvent, histVars>>
        BY <1>6 DEF RecordOutcome
    <2>9. (KafkaTypeOK /\ ProcTypeOK /\ HistTypeOK /\ FetchedOK)'
        BY <1>6, <2>7, <2>8 DEF RecordOutcome, Answers
    <2> QED
        BY <2>6, <2>9
<1> QED
    BY <1>1, <1>2, <1>3, <1>4, <1>5, <1>6 DEF Dispatcher

(* The message-events worker preserves TypeOK.                              *)
LEMMA CheckerType ==
    ASSUME TypeOK, Checker
    PROVE  TypeOK'
<1> USE DEF TypeOK, DbTypeOK, KafkaTypeOK, ProcTypeOK, HistTypeOK, FetchedOK,
            vars, dbVars, kafkaVars, procVars, histVars
<1>1. ASSUME NEW e \in topic, IgnoreOutcome(e)
      PROVE  TypeOK'
    BY <1>1 DEF IgnoreOutcome
<1>2. ASSUME NEW e \in topic, CountNonePending(e)
      PROVE  TypeOK'
    BY <1>2 DEF CountNonePending
<1>3. CASE CompleteRun
    <2>1. outbox' \in Seq(Events)
        BY <1>3, EventTypes, AppendProperties DEF CompleteRun
    <2> QED
        BY <1>3, <2>1 DEF CompleteRun, RunStatuses
<1>4. CASE CompleteNothing
    BY <1>4 DEF CompleteNothing
<1>5. CASE CheckerDone
    BY <1>5 DEF CheckerDone
<1> QED
    BY <1>1, <1>2, <1>3, <1>4, <1>5 DEF Checker

(* Every failure of a process preserves TypeOK.                             *)
LEMMA FailureType ==
    ASSUME TypeOK, Failure
    PROVE  TypeOK'
<1> USE DEF TypeOK, DbTypeOK, KafkaTypeOK, ProcTypeOK, HistTypeOK, FetchedOK, Fault,
            vars, dbVars, kafkaVars, procVars, histVars
<1>1. CASE ResumeCrash
    BY <1>1 DEF ResumeCrash, Publishers
<1>2. CASE RelayCrash
    <2>1. PICK k \in 1..Len(outbox) : topic' = topic \cup {outbox[i] : i \in 1..k}
        BY <1>2 DEF RelayCrash
    <2>2. \A i \in 1..k : outbox[i] \in Events
        BY <2>1, ElementOfSeq
    <2>3. topic' \in SUBSET Events
        BY <2>1, <2>2
    <2> QED
        BY <1>2, <2>3 DEF RelayCrash
<1>3. CASE SchedulerCrash
    BY <1>3 DEF SchedulerCrash, Publishers
<1>4. CASE RetrySchedulerCrash
    BY <1>4 DEF RetrySchedulerCrash, Publishers
<1>5. CASE CheckerCrash
    BY <1>5 DEF CheckerCrash
<1>6. ASSUME NEW p \in Partitions, DispatchException(p)
      PROVE  TypeOK'
    <2>1. dpc' = [dpc EXCEPT ![p] = "poll"] /\ answer' = [answer EXCEPT ![p] = "none"]
        BY <1>6 DEF DispatchException
    <2>2. UNCHANGED <<dbVars, kafkaVars, pub, schedEvent, checkPc, checkEvent,
                      calls, retried, starts, pauses, retries>>
        BY <1>6 DEF DispatchException
    <2>3. FetchedOK'
        BY <2>1, <2>2
    <2>4. ProcTypeOK'
        BY <2>1, <2>2
    <2>5. DbTypeOK' /\ KafkaTypeOK'
        BY <2>2
    <2>6. HistTypeOK'
        BY <1>6, <2>2 DEF DispatchException, Fault
    <2> QED
        BY <2>3, <2>4, <2>5, <2>6
<1>7. ASSUME NEW p \in Partitions, DispatcherCrash(p)
      PROVE  TypeOK'
    <2>1. \A q \in Partitions : Len(cmds[q]) \in Nat
        OBVIOUS
    <2>2. pos' = [pos EXCEPT ![p] = 0] /\ dpc' = [dpc EXCEPT ![p] = "poll"]
        BY <1>7 DEF DispatcherCrash
    <2>3. answer' = [answer EXCEPT ![p] = "none"]
        BY <1>7 DEF DispatcherCrash
    <2>4. UNCHANGED <<dbVars, topic, cmds, pub, schedEvent, checkPc, checkEvent,
                      calls, retried, starts, pauses, retries>>
        BY <1>7 DEF DispatcherCrash
    <2>5. FetchedOK'
        BY <2>1, <2>2, <2>3, <2>4 DEF Answers
    <2>6. KafkaTypeOK' /\ DbTypeOK'
        BY <2>2, <2>4
    <2>7. ProcTypeOK' /\ HistTypeOK'
        BY <1>7, <2>2, <2>3, <2>4 DEF DispatcherCrash
    <2> QED
        BY <2>5, <2>6, <2>7
<1> QED
    BY <1>1, <1>2, <1>3, <1>4, <1>5, <1>6, <1>7 DEF Failure

-----------------------------------------------------------------------------
(* The variables of Dispatch keep their types, and no consumer's fetch      *)
(* position leaves its partition.                                           *)
THEOREM TypeCorrect == Spec => []TypeOK
<1>1. Init => TypeOK
    BY EmptySeq DEF Init, TypeOK, DbTypeOK, KafkaTypeOK, ProcTypeOK, HistTypeOK,
           FetchedOK, RunStatuses, MessageStatuses
<1>2. TypeOK /\ [Next]_vars => TypeOK'
    <2> SUFFICES ASSUME TypeOK, [Next]_vars
                 PROVE  TypeOK'
        OBVIOUS
    <2>1. CASE UNCHANGED vars
        BY <2>1 DEF TypeOK, DbTypeOK, KafkaTypeOK, ProcTypeOK, HistTypeOK, FetchedOK,
                    vars, dbVars, kafkaVars, procVars, histVars
    <2> QED
        BY <2>1, OperatorType, RelayType, PublishType, SchedulerType, DispatcherType,
           CheckerType, FailureType
           DEF Next, Publishing
<1> QED
    BY <1>1, <1>2, PTL DEF Spec


-----------------------------------------------------------------------------
(* The inductive invariant.  Its parts:                                     *)

(* commands of a message lie in the partition of its key, so one dispatcher *)
(* handles all of them, one after the other;                                *)
Placed ==
    \A p \in Partitions : \A i \in 1..Len(cmds[p]) : PartitionOf[cmds[p][i]] = p

Holding(p) == dpc[p] \in {"claimed", "answered"}

(* the row a dispatcher holds is committed as QUEUED, and nobody moves it;  *)
HeldIsQueued ==
    \A p \in Partitions : Holding(p) => msgStatus[Current(p)] = "QUEUED"

(* before the start there is nothing but start events;                      *)
ReadyIsBlank ==
    runStatus = "READY" =>
        /\ \A m \in Messages : msgStatus[m] = "ABSENT"
        /\ topic \subseteq StartEvents
        /\ \A i \in 1..Len(outbox) : outbox[i] \in StartEvents
        /\ checkPc = "idle"

(* a message that may still be attempted has an attempt left;               *)
AttemptsLeft ==
    \A m \in Messages :
        /\ attempts[m] <= MaxAttempts + retried[m]
        /\ msgStatus[m] \in Pending \cup {"ABSENT"} => attempts[m] < MaxAttempts + retried[m]

(* a message that waits was reopened, when the run has ended, or has been   *)
(* counted, or is being stopped by a transaction that did not see it.       *)
Reopened(m) == msgStatus[m] \in Pending => retried[m] > 0

OnlyReopenedWait ==
    /\ runStatus \in {"COMPLETED", "CANCELLED"} => \A m \in Messages : Reopened(m)
    /\ checkPc = "counted" => \A m \in Messages : Reopened(m)
    /\ runLock = "stop" =>
          /\ runStatus \in {"RUNNING", "PAUSED"}
          /\ \A m \in Messages : m \in cancelling \/ Reopened(m)

IndInv == TypeOK /\ Placed /\ HeldIsQueued /\ ReadyIsBlank /\ AttemptsLeft /\ OnlyReopenedWait

-----------------------------------------------------------------------------
(* Who moves what: for the variables the invariant speaks of, the actions   *)
(* that may change them.                                                    *)

(* Only the publishers and the dispatchers touch a dispatch topic.          *)
LEMMA CommandsMoveBy ==
    ASSUME [Next]_vars, cmds' # cmds
    PROVE  \/ \E w \in Publishers, m \in Messages : Publish(w, m)
           \/ \E p \in Partitions : ClaimSkipped(p) \/ CommitOffset(p)
<1> USE DEF vars, dbVars, kafkaVars, procVars, histVars
<1>1. CASE Operator \/ ApiCommit
    BY <1>1 DEF Operator, ApiCommit, RequestStart, PauseRun, ResumeBegin, StopBegin,
                ManualRetry, ResumeCommit, StopCommit
<1>2. CASE RelayEvent \/ Scheduler \/ ClaimDue
    BY <1>2 DEF RelayEvent, Scheduler, Materialize, RepublishRunning, SkipNotRunnable,
                SchedulerDone, ClaimDue
<1>3. CASE Checker
    BY <1>3 DEF Checker, IgnoreOutcome, CountNonePending, CompleteRun, CompleteNothing,
                CheckerDone
<1>4. CASE Failure
    BY <1>4 DEF Failure, ResumeCrash, RelayCrash, SchedulerCrash, RetrySchedulerCrash,
                CheckerCrash, DispatchException, DispatcherCrash
<1>5. ASSUME NEW p \in Partitions, Dispatcher(p)
      PROVE  ClaimSkipped(p) \/ CommitOffset(p)
    BY <1>5 DEF Dispatcher, Poll, RateLimited, Claim, CallKannel, RecordOutcome
<1> QED
    BY <1>1, <1>2, <1>3, <1>4, <1>5 DEF Next, Publishing

(* The only steps that change the status of a message.                      *)
LEMMA StatusMovesBy ==
    ASSUME [Next]_vars, msgStatus' # msgStatus
    PROVE  \/ \E m \in Messages : ManualRetry(m)
           \/ StopCommit
           \/ \E n \in 1..MaxStarts : Materialize(n)
           \/ \E p \in Partitions : RecordOutcome(p)
           \/ ClaimDue
<1> USE DEF vars, dbVars, kafkaVars, procVars, histVars
<1>1. CASE Operator \/ ApiCommit
    BY <1>1 DEF Operator, ApiCommit, RequestStart, PauseRun, ResumeBegin, StopBegin,
                ResumeCommit
<1>2. CASE RelayEvent \/ Publishing \/ Scheduler
    BY <1>2 DEF RelayEvent, Publishing, Publish, Scheduler, RepublishRunning,
                SkipNotRunnable, SchedulerDone
<1>3. CASE Checker
    BY <1>3 DEF Checker, IgnoreOutcome, CountNonePending, CompleteRun, CompleteNothing,
                CheckerDone
<1>4. CASE Failure
    BY <1>4 DEF Failure, ResumeCrash, RelayCrash, SchedulerCrash, RetrySchedulerCrash,
                CheckerCrash, DispatchException, DispatcherCrash
<1>5. ASSUME NEW p \in Partitions, Dispatcher(p)
      PROVE  RecordOutcome(p)
    BY <1>5 DEF Dispatcher, Poll, RateLimited, Claim, ClaimSkipped, CallKannel, CommitOffset
<1> QED
    BY <1>1, <1>2, <1>3, <1>4, <1>5 DEF Next

(* Attempts and manual retries are each counted by one action.              *)
LEMMA CountersMoveBy ==
    ASSUME [Next]_vars
    PROVE  /\ attempts' # attempts => \E p \in Partitions : RecordOutcome(p)
           /\ retried' # retried => \E m \in Messages : ManualRetry(m)
<1> USE DEF vars, dbVars, kafkaVars, procVars, histVars
<1>1. CASE Operator \/ ApiCommit
    BY <1>1 DEF Operator, ApiCommit, RequestStart, PauseRun, ResumeBegin, StopBegin,
                ResumeCommit, StopCommit, ManualRetry
<1>2. CASE RelayEvent \/ Publishing \/ Scheduler \/ ClaimDue
    BY <1>2 DEF RelayEvent, Publishing, Publish, Scheduler, Materialize, RepublishRunning,
                SkipNotRunnable, SchedulerDone, ClaimDue
<1>3. CASE Checker
    BY <1>3 DEF Checker, IgnoreOutcome, CountNonePending, CompleteRun, CompleteNothing,
                CheckerDone
<1>4. CASE Failure
    BY <1>4 DEF Failure, ResumeCrash, RelayCrash, SchedulerCrash, RetrySchedulerCrash,
                CheckerCrash, DispatchException, DispatcherCrash
<1>5. ASSUME NEW p \in Partitions, Dispatcher(p)
      PROVE  retried' = retried /\ (attempts' = attempts \/ RecordOutcome(p))
    BY <1>5 DEF Dispatcher, Poll, RateLimited, Claim, ClaimSkipped, CallKannel,
                RecordOutcome, CommitOffset
<1> QED
    BY <1>1, <1>2, <1>3, <1>4, <1>5 DEF Next

-----------------------------------------------------------------------------
(* What is left of a sequence after its first n elements is the rest of it. *)
LEMMA RestOf ==
    ASSUME NEW S, NEW s \in Seq(S), NEW n \in Nat,
           NEW i \in 1..Len(SubSeq(s, n + 1, Len(s)))
    PROVE  /\ n + i \in 1..Len(s)
           /\ SubSeq(s, n + 1, Len(s))[i] = s[n + i]
<1>1. Len(s) \in Nat
    OBVIOUS
<1>2. \A j \in n + 1 .. Len(s) : s[j] \in S
    BY <1>1
<1>3. /\ Len(SubSeq(s, n + 1, Len(s))) =
            IF n + 1 <= Len(s) THEN Len(s) - (n + 1) + 1 ELSE 0
      /\ \A j \in 1 .. Len(s) - (n + 1) + 1 :
            SubSeq(s, n + 1, Len(s))[j] = s[n + 1 + j - 1]
    BY <1>1, <1>2, SubSeqProperties
<1>4. i \in 1 .. Len(s) - (n + 1) + 1
    BY <1>1, <1>3
<1>5. n + 1 + i - 1 = n + i /\ n + i \in 1..Len(s)
    BY <1>1, <1>4
<1>6. SubSeq(s, n + 1, Len(s))[i] = s[n + 1 + i - 1]
    BY ONLY <1>3, <1>4, Zenon
<1> QED
    BY ONLY <1>5, <1>6, Zenon

(* Publishing puts a command where its key says, consuming takes the oldest *)
(* away: neither moves a command to another partition.                      *)
LEMMA PlacedStep ==
    ASSUME TypeOK, Placed, [Next]_vars
    PROVE  Placed'
<1>0. \A p \in Partitions : cmds[p] \in Seq(Messages) /\ Len(cmds[p]) \in Nat
                            /\ pos[p] \in Nat /\ pos[p] <= Len(cmds[p])
    BY DEF TypeOK, KafkaTypeOK, FetchedOK
<1>1. CASE cmds' = cmds
    BY <1>1 DEF Placed
<1>2. ASSUME NEW w \in Publishers, NEW m \in Messages, Publish(w, m)
      PROVE  Placed'
    <2> DEFINE k == PartitionOf[m]
    <2>1. cmds \in [Partitions -> Seq(Messages)] /\ k \in Partitions
        BY DispatchAssumption DEF TypeOK, KafkaTypeOK
    <2>2. cmds' = [cmds EXCEPT ![k] = Append(cmds[k], m)]
        BY <1>2 DEF Publish
    <2>3. SUFFICES ASSUME NEW p \in Partitions, NEW i \in 1..Len(cmds'[p])
                   PROVE  PartitionOf[cmds'[p][i]] = p
        BY DEF Placed
    <2>4. CASE p # k
        BY <2>1, <2>2, <2>3, <2>4 DEF Placed
    <2>5. CASE p = k
        <3>1. cmds'[p] = Append(cmds[p], m)
            BY <2>1, <2>2, <2>5
        <3>2. /\ i \in 1..Len(cmds[p]) => cmds'[p][i] = cmds[p][i]
              /\ i = Len(cmds[p]) + 1 => cmds'[p][i] = m
              /\ Len(cmds'[p]) = Len(cmds[p]) + 1
            BY <1>0, <2>3, <3>1, AppendProperties
        <3>3. i \in 1..Len(cmds[p]) \/ i = Len(cmds[p]) + 1
            BY <1>0, <2>3, <3>2
        <3> QED
            BY <2>5, <3>2, <3>3 DEF Placed
    <2> QED
        BY <2>4, <2>5
<1>3. ASSUME NEW q \in Partitions, ClaimSkipped(q) \/ CommitOffset(q)
      PROVE  Placed'
    <2> DEFINE rest == SubSeq(cmds[q], pos[q] + 1, Len(cmds[q]))
    <2>1. cmds' = [cmds EXCEPT ![q] = rest] /\ cmds \in [Partitions -> Seq(Messages)]
        BY <1>3 DEF ClaimSkipped, CommitOffset, AdvanceOffset, TypeOK, KafkaTypeOK
    <2>2. SUFFICES ASSUME NEW p \in Partitions, NEW i \in 1..Len(cmds'[p])
                   PROVE  PartitionOf[cmds'[p][i]] = p
        BY DEF Placed
    <2>3. CASE p # q
        BY <2>1, <2>2, <2>3 DEF Placed
    <2>4. CASE p = q
        <3>1. cmds'[p] = SubSeq(cmds[p], pos[p] + 1, Len(cmds[p]))
            BY <2>1, <2>4
        <3>2. i \in 1..Len(SubSeq(cmds[p], pos[p] + 1, Len(cmds[p])))
            BY <2>2, <3>1
        <3>3. /\ pos[p] + i \in 1..Len(cmds[p])
              /\ SubSeq(cmds[p], pos[p] + 1, Len(cmds[p]))[i] = cmds[p][pos[p] + i]
            <4>1. cmds[p] \in Seq(Messages) /\ pos[p] \in Nat
                BY <1>0, <2>2
            <4> QED
                BY ONLY <3>2, <4>1, RestOf, Zenon
        <3>4. cmds'[p][i] = cmds[p][pos[p] + i]
            BY <3>1, <3>3
        <3> QED
            BY <2>2, <3>3, <3>4 DEF Placed
    <2> QED
        BY <2>3, <2>4
<1> QED
    BY <1>1, <1>2, <1>3, CommandsMoveBy

(* A row is held from its claim on, and stays the row of the same command.  *)
LEMMA HoldingComesFrom ==
    ASSUME TypeOK, [Next]_vars, NEW p \in Partitions, Holding(p)'
    PROVE  /\ Current(p)' = Current(p)
           /\ Holding(p) \/ Claim(p)
           /\ ~RecordOutcome(p)
<1> USE DEF vars, dbVars, kafkaVars, procVars, histVars, Holding
<1>0. \A q \in Partitions : cmds[q] \in Seq(Messages) /\ Len(cmds[q]) \in Nat
                            /\ pos[q] \in Nat /\ pos[q] <= Len(cmds[q])
    BY DEF TypeOK, KafkaTypeOK, FetchedOK
<1>1. dpc \in [Partitions -> {"poll", "handling", "claimed", "answered", "recorded"}]
      /\ pos \in [Partitions -> Nat] /\ cmds \in [Partitions -> Seq(Messages)]
    BY DEF TypeOK, ProcTypeOK, KafkaTypeOK
<1>2. /\ ~RecordOutcome(p) /\ ~Poll(p) /\ ~RateLimited(p) /\ ~ClaimSkipped(p)
      /\ ~CommitOffset(p) /\ ~DispatchException(p) /\ ~DispatcherCrash(p)
    BY <1>1 DEF RecordOutcome, Poll, RateLimited, ClaimSkipped, CommitOffset,
                DispatchException, DispatcherCrash
<1>3. dpc'[p] = dpc[p] \/ Claim(p) \/ CallKannel(p)
    <2>1. CASE Operator \/ ApiCommit
        BY <2>1 DEF Operator, ApiCommit, RequestStart, PauseRun, ResumeBegin, StopBegin,
                    ManualRetry, ResumeCommit, StopCommit
    <2>2. CASE RelayEvent \/ Publishing \/ Scheduler \/ ClaimDue
        BY <2>2 DEF RelayEvent, Publishing, Publish, Scheduler, Materialize,
                    RepublishRunning, SkipNotRunnable, SchedulerDone, ClaimDue
    <2>3. CASE Checker
        BY <2>3 DEF Checker, IgnoreOutcome, CountNonePending, CompleteRun,
                    CompleteNothing, CheckerDone
    <2>4. CASE Failure
        BY <1>1, <1>2, <2>4 DEF Failure, ResumeCrash, RelayCrash, SchedulerCrash,
           RetrySchedulerCrash, CheckerCrash, DispatchException, DispatcherCrash
    <2>5. ASSUME NEW q \in Partitions, Dispatcher(q)
          PROVE  dpc'[p] = dpc[p] \/ Claim(p) \/ CallKannel(p)
        BY <1>1, <1>2, <2>5 DEF Dispatcher, Poll, RateLimited, Claim, ClaimSkipped,
           CallKannel, RecordOutcome, CommitOffset
    <2> QED
        BY <2>1, <2>2, <2>3, <2>4, <2>5 DEF Next
<1>4. Holding(p) \/ Claim(p)
    BY <1>3 DEF CallKannel
<1>5. pos'[p] = pos[p]
    <2>1. CASE Operator \/ ApiCommit
        BY <2>1 DEF Operator, ApiCommit, RequestStart, PauseRun, ResumeBegin, StopBegin,
                    ManualRetry, ResumeCommit, StopCommit
    <2>2. CASE RelayEvent \/ Publishing \/ Scheduler \/ ClaimDue
        BY <2>2 DEF RelayEvent, Publishing, Publish, Scheduler, Materialize,
                    RepublishRunning, SkipNotRunnable, SchedulerDone, ClaimDue
    <2>3. CASE Checker
        BY <2>3 DEF Checker, IgnoreOutcome, CountNonePending, CompleteRun,
                    CompleteNothing, CheckerDone
    <2>4. CASE Failure
        BY <1>1, <1>2, <2>4 DEF Failure, ResumeCrash, RelayCrash, SchedulerCrash,
           RetrySchedulerCrash, CheckerCrash, DispatchException, DispatcherCrash
    <2>5. ASSUME NEW q \in Partitions, Dispatcher(q)
          PROVE  pos'[p] = pos[p]
        BY <1>1, <1>2, <2>5 DEF Dispatcher, Poll, RateLimited, Claim, ClaimSkipped,
           CallKannel, RecordOutcome, CommitOffset, AdvanceOffset
    <2> QED
        BY <2>1, <2>2, <2>3, <2>4, <2>5 DEF Next
<1>6. cmds'[p][pos[p]] = cmds[p][pos[p]]
    <2>1. pos[p] \in 1..Len(cmds[p])
        BY <1>0, <1>4 DEF Claim, TypeOK, FetchedOK
    <2>2. ASSUME NEW w \in Publishers, NEW m \in Messages, Publish(w, m)
          PROVE  cmds'[p][pos[p]] = cmds[p][pos[p]]
        <3>1. \/ cmds'[p] = cmds[p]
              \/ cmds'[p] = Append(cmds[p], m)
            BY <1>1, <2>2, DispatchAssumption DEF Publish
        <3> QED
            BY <1>0, <2>1, <3>1, AppendProperties
    <2>3. ASSUME NEW q \in Partitions, ClaimSkipped(q) \/ CommitOffset(q)
          PROVE  cmds'[p] = cmds[p]
        BY <1>1, <1>2, <2>3 DEF ClaimSkipped, CommitOffset, AdvanceOffset
    <2> QED
        BY <2>2, <2>3, CommandsMoveBy
<1> QED
    BY <1>2, <1>4, <1>5, <1>6 DEF Current

(* Nobody but its dispatcher moves a held row: a stop waits for it, the     *)
(* retry scheduler and operators look at other statuses, and the commands   *)
(* of another dispatcher are for other messages.                            *)
LEMMA HeldStep ==
    ASSUME TypeOK, Placed, HeldIsQueued, ReadyIsBlank, [Next]_vars
    PROVE  HeldIsQueued'
<1>1. SUFFICES ASSUME NEW p \in Partitions, Holding(p)'
               PROVE  msgStatus'[Current(p)] = "QUEUED"
    BY HoldingComesFrom DEF HeldIsQueued
<1> DEFINE m == Current(p)
<1>2. m \in Messages
    BY <1>1, HoldingComesFrom, CurrentType DEF Holding, Claim
<1>3. msgStatus[m] = "QUEUED"
    BY <1>1, HoldingComesFrom DEF HeldIsQueued, Claim, Claimable
<1>4. PartitionOf[m] = p
    <2>1. dpc[p] # "poll"
        BY <1>1, HoldingComesFrom DEF Holding, Claim
    <2>2. pos[p] \in 1..Len(cmds[p])
        BY <2>1 DEF TypeOK, KafkaTypeOK, FetchedOK
    <2> QED
        BY <2>2 DEF Placed, Current
<1>5. msgStatus \in [Messages -> MessageStatuses]
    BY DEF TypeOK, DbTypeOK
<1>6. CASE msgStatus' = msgStatus
    BY <1>3, <1>6
<1>7. ASSUME NEW o \in Messages, ManualRetry(o)
      PROVE  msgStatus'[m] = "QUEUED"
    BY <1>2, <1>3, <1>5, <1>7 DEF ManualRetry, Retriable
<1>8. CASE StopCommit
    <2>1. ~Claim(p)
        BY <1>1, <1>8 DEF Claim, StopCommit, procVars, Holding, TypeOK, ProcTypeOK
    <2>2. Holding(p)
        BY <1>1, <2>1, HoldingComesFrom
    <2>3. m \in InFlight
        BY <2>2 DEF InFlight, HeldBy, Holding, Current
    <2>4. m \notin cancelling
        BY <1>8, <2>3 DEF StopCommit
    <2> QED
        BY <1>2, <1>3, <1>8, <2>4 DEF StopCommit
<1>9. ASSUME NEW n \in 1..MaxStarts, Materialize(n)
      PROVE  msgStatus'[m] = "QUEUED"
    BY <1>2, <1>3, <1>9 DEF Materialize, ReadyIsBlank
<1>10. ASSUME NEW q \in Partitions, RecordOutcome(q)
       PROVE  msgStatus'[m] = "QUEUED"
    <2>1. q # p
        BY <1>1, <1>10, HoldingComesFrom
    <2>2. dpc[q] # "poll"
        BY <1>10 DEF RecordOutcome
    <2>3. pos[q] \in 1..Len(cmds[q])
        BY <2>2 DEF TypeOK, KafkaTypeOK, FetchedOK
    <2>4. PartitionOf[Current(q)] = q
        BY <2>3 DEF Placed, Current
    <2>5. Current(q) # m
        BY <1>4, <2>1, <2>4
    <2>6. \E s : msgStatus' = [msgStatus EXCEPT ![Current(q)] = s]
        BY <1>10 DEF RecordOutcome
    <2> QED
        BY <1>2, <1>3, <1>5, <2>5, <2>6
<1>11. CASE ClaimDue
    BY <1>2, <1>3, <1>11 DEF ClaimDue
<1> QED
    BY <1>6, <1>7, <1>8, <1>9, <1>10, <1>11, StatusMovesBy

(* What an outcome is recorded for was QUEUED, in a run that was started.   *)
LEMMA RecordedWasQueued ==
    ASSUME TypeOK, HeldIsQueued, NEW p \in Partitions, RecordOutcome(p)
    PROVE  /\ Current(p) \in Messages
           /\ msgStatus[Current(p)] = "QUEUED"
           /\ answer[p] \in Answers
<1>1. dpc[p] = "answered"
    BY DEF RecordOutcome
<1> QED
    BY <1>1, CurrentType DEF HeldIsQueued, Holding, TypeOK, ProcTypeOK, FetchedOK

(* A pending message keeps attempts left: the claim takes one, and the      *)
(* outcome of the last one is DEAD.                                         *)
LEMMA AttemptsStep ==
    ASSUME TypeOK, HeldIsQueued, ReadyIsBlank, AttemptsLeft, [Next]_vars
    PROVE  AttemptsLeft'
<1>1. /\ attempts \in [Messages -> Nat] /\ retried \in [Messages -> Nat]
      /\ msgStatus \in [Messages -> MessageStatuses] /\ MaxAttempts \in Nat \ {0}
    BY DispatchAssumption DEF TypeOK, DbTypeOK, HistTypeOK
<1>2. CASE msgStatus' = msgStatus /\ attempts' = attempts /\ retried' = retried
    BY <1>2 DEF AttemptsLeft
<1>3. ASSUME NEW m \in Messages, ManualRetry(m)
      PROVE  AttemptsLeft'
    <2>1. /\ attempts' = attempts /\ retried' = [retried EXCEPT ![m] = @ + 1]
          /\ msgStatus' = [msgStatus EXCEPT ![m] = "RETRYING"]
        BY <1>3 DEF ManualRetry
    <2> QED
        BY <1>1, <2>1 DEF AttemptsLeft
<1>4. CASE StopCommit
    <2>1. attempts' = attempts /\ retried' = retried
        BY <1>4 DEF StopCommit, histVars
    <2>2. \A m \in Messages : msgStatus'[m] \in {msgStatus[m], "CANCELLED"}
        BY <1>4 DEF StopCommit
    <2> QED
        BY <2>1, <2>2 DEF AttemptsLeft, Pending
<1>5. ASSUME NEW n \in 1..MaxStarts, Materialize(n)
      PROVE  AttemptsLeft'
    <2>1. attempts' = attempts /\ retried' = retried
        BY <1>5 DEF Materialize, histVars
    <2>2. \A m \in Messages : msgStatus[m] = "ABSENT"
        BY <1>5 DEF Materialize, ReadyIsBlank
    <2> QED
        BY <2>1, <2>2 DEF AttemptsLeft
<1>6. ASSUME NEW p \in Partitions, RecordOutcome(p)
      PROVE  AttemptsLeft'
    <2> DEFINE m == Current(p)
               n == attempts[m] + 1
               s == StatusAfter(answer[p], n)
    <2>1. m \in Messages /\ msgStatus[m] = "QUEUED" /\ answer[p] \in Answers
        BY <1>6, RecordedWasQueued
    <2>2. n <= MaxAttempts + retried[m]
        BY <1>1, <2>1 DEF AttemptsLeft, Pending
    <2>3. s \in Pending \cup {"ABSENT"} => n < MaxAttempts
        BY <1>1, <2>1 DEF StatusAfter, Answers, Pending
    <2>4. /\ attempts' = [attempts EXCEPT ![m] = n]
          /\ msgStatus' = [msgStatus EXCEPT ![m] = s]
          /\ retried' = retried
        BY <1>6 DEF RecordOutcome, histVars
    <2>5. n \in Nat /\ retried[m] \in Nat
        BY <1>1, <2>1
    <2> HIDE DEF m, n, s
    <2> QED
        BY <1>1, <2>1, <2>2, <2>3, <2>4, <2>5 DEF AttemptsLeft
<1>7. CASE ClaimDue
    <2>1. attempts' = attempts /\ retried' = retried
        BY <1>7 DEF ClaimDue, histVars
    <2>2. \A m \in Messages : msgStatus'[m] = msgStatus[m] \/ msgStatus[m] = "RETRYING"
        BY <1>7 DEF ClaimDue
    <2> QED
        BY <2>1, <2>2 DEF AttemptsLeft, Pending
<1> QED
    BY <1>2, <1>3, <1>4, <1>5, <1>6, <1>7, StatusMovesBy, CountersMoveBy

(* Until the scheduler worker materializes the run, only start requests are *)
(* written, relayed and dropped.                                            *)
LEMMA BlankStep ==
    ASSUME TypeOK, HeldIsQueued, ReadyIsBlank, [Next]_vars
    PROVE  ReadyIsBlank'
<1> USE DEF vars, dbVars, kafkaVars, procVars, histVars
<1> DEFINE FewerEvents ==
        /\ topic' \subseteq topic \cup {outbox[i] : i \in 1..Len(outbox)}
        /\ \A i \in 1..Len(outbox') : \E j \in 1..Len(outbox) : outbox'[i] = outbox[j]
<1>0. outbox \in Seq(Events) /\ Len(outbox) \in Nat /\ starts \in Nat
    BY DEF TypeOK, DbTypeOK, HistTypeOK
<1>1. ASSUME runStatus' = "READY" => runStatus = "READY" /\ checkPc' = checkPc,
             msgStatus' = msgStatus, FewerEvents
      PROVE  ReadyIsBlank'
    BY <1>1 DEF ReadyIsBlank
<1>2. CASE UNCHANGED vars
    BY <1>2 DEF ReadyIsBlank
<1>3. CASE RequestStart
    <2> DEFINE e == StartEvent(starts + 1)
    <2>1. e \in StartEvents
        BY <1>0 DEF StartEvent, StartEvents
    <2>2. outbox' = Append(outbox, e) /\ e \in Events
        BY <1>3, <2>1 DEF RequestStart, Events
    <2>3. \A i \in 1..Len(outbox') : outbox'[i] = e \/ \E j \in 1..Len(outbox) : outbox'[i] = outbox[j]
        BY <1>0, <2>2, AppendProperties
    <2>4. UNCHANGED <<runStatus, msgStatus, topic, checkPc>>
        BY <1>3 DEF RequestStart
    <2> HIDE DEF e
    <2> QED
        BY <2>1, <2>3, <2>4 DEF ReadyIsBlank
<1>4. CASE PauseRun \/ ResumeBegin \/ ResumeCommit \/ StopBegin
    BY <1>4 DEF PauseRun, ResumeBegin, ResumeCommit, StopBegin, ReadyIsBlank
<1>5. CASE StopCommit
    BY <1>5 DEF StopCommit, ReadyIsBlank
<1>6. ASSUME NEW m \in Messages, ManualRetry(m)
      PROVE  ReadyIsBlank'
    <2>1. runStatus # "READY"
        BY <1>6 DEF ManualRetry, Retriable, ReadyIsBlank
    <2> QED
        BY <1>6, <2>1 DEF ManualRetry, ReadyIsBlank
<1>7. CASE RelayEvent
    <2>1. Head(outbox) = outbox[1] /\ outbox' = Tail(outbox) /\ 1 \in 1..Len(outbox)
        BY <1>0, <1>7, HeadTailProperties DEF RelayEvent
    <2>2. \A i \in 1..Len(outbox') : outbox'[i] = outbox[i + 1] /\ i + 1 \in 1..Len(outbox)
        BY <1>0, <1>7, <2>1, HeadTailProperties DEF RelayEvent
    <2>3. FewerEvents
        BY <1>7, <2>1, <2>2 DEF RelayEvent
    <2> QED
        BY <1>1, <1>7, <2>3 DEF RelayEvent
<1>8. CASE RelayCrash
    <2>1. PICK k \in 1..Len(outbox) : topic' = topic \cup {outbox[i] : i \in 1..k}
        BY <1>8 DEF RelayCrash
    <2>2. \A i \in 1..k : i \in 1..Len(outbox)
        BY <1>0
    <2>3. FewerEvents
        BY <1>8, <2>1, <2>2 DEF RelayCrash
    <2> QED
        BY <1>1, <1>8, <2>3 DEF RelayCrash
<1>9. ASSUME NEW w \in Publishers, NEW m \in Messages, Publish(w, m)
      PROVE  ReadyIsBlank'
    BY <1>9 DEF Publish, ReadyIsBlank
<1>10. CASE Scheduler
    BY <1>10 DEF Scheduler, Materialize, RepublishRunning, SkipNotRunnable, SchedulerDone,
                 ReadyIsBlank
<1>11. CASE ClaimDue
    <2>1. runStatus # "READY"
        BY <1>11 DEF ClaimDue, ReadyIsBlank
    <2> QED
        BY <1>11, <2>1 DEF ClaimDue, ReadyIsBlank
<1>12. CASE Checker
    <2>1. \A e \in topic : runStatus = "READY" => e.type = "run.start_requested"
        BY DEF ReadyIsBlank, StartEvents
    <2>2. ASSUME NEW e \in topic, IgnoreOutcome(e) \/ CountNonePending(e)
          PROVE  ReadyIsBlank'
        BY <2>1, <2>2 DEF IgnoreOutcome, CountNonePending, IsTerminalOutcome, ReadyIsBlank
    <2>3. CASE CompleteRun \/ CompleteNothing \/ CheckerDone
        BY <2>3 DEF CompleteRun, CompleteNothing, CheckerDone, ReadyIsBlank
    <2> QED
        BY <1>12, <2>2, <2>3 DEF Checker
<1>13. CASE ResumeCrash \/ SchedulerCrash \/ RetrySchedulerCrash \/ CheckerCrash
    BY <1>13 DEF ResumeCrash, SchedulerCrash, RetrySchedulerCrash, CheckerCrash, ReadyIsBlank
<1>14. ASSUME NEW p \in Partitions, DispatchException(p) \/ DispatcherCrash(p)
       PROVE  ReadyIsBlank'
    BY <1>14 DEF DispatchException, DispatcherCrash, ReadyIsBlank
<1>15. ASSUME NEW p \in Partitions, RecordOutcome(p)
       PROVE  ReadyIsBlank'
    <2>1. runStatus # "READY"
        BY <1>15, RecordedWasQueued DEF ReadyIsBlank
    <2> QED
        BY <1>15, <2>1 DEF RecordOutcome, ReadyIsBlank
<1>16. ASSUME NEW p \in Partitions, Dispatcher(p), ~RecordOutcome(p)
       PROVE  ReadyIsBlank'
    BY <1>16 DEF Dispatcher, Poll, RateLimited, Claim, ClaimSkipped, CallKannel,
                 CommitOffset, ReadyIsBlank
<1> QED
    BY <1>2, <1>3, <1>4, <1>5, <1>6, <1>7, <1>8, <1>9, <1>10, <1>11, <1>12, <1>13,
       <1>14, <1>15, <1>16 DEF Next, Operator, ApiCommit, Publishing, Failure

(* A finished run gets no new work: what waits in it has been reopened.     *)
LEMMA ReopenedStep ==
    ASSUME TypeOK, HeldIsQueued, ReadyIsBlank, OnlyReopenedWait, [Next]_vars
    PROVE  OnlyReopenedWait'
<1> USE DEF vars, dbVars, kafkaVars, procVars, histVars
<1>0. /\ msgStatus \in [Messages -> MessageStatuses] /\ retried \in [Messages -> Nat]
      /\ runLock \in {"none", "resume", "stop"}
    BY DEF TypeOK, DbTypeOK, HistTypeOK
(* A step that reopens what it makes pending and leaves the run alone.      *)
<1>1. ASSUME UNCHANGED <<runStatus, runLock, cancelling>>,
             checkPc' = "counted" => checkPc = "counted",
             \A m \in Messages : Reopened(m) => Reopened(m)'
      PROVE  OnlyReopenedWait'
    BY <1>1 DEF OnlyReopenedWait
<1>2. CASE UNCHANGED vars
    BY <1>1, <1>2 DEF Reopened
<1>3. CASE RequestStart
    BY <1>1, <1>3 DEF RequestStart, Reopened
<1>4. CASE PauseRun
    BY <1>4 DEF PauseRun, OnlyReopenedWait, Reopened
<1>5. CASE ResumeBegin \/ ResumeCommit \/ ResumeCrash
    BY <1>5 DEF ResumeBegin, ResumeCommit, ResumeCrash, OnlyReopenedWait, Reopened
<1>6. CASE StopBegin
    BY <1>6 DEF StopBegin, OnlyReopenedWait, Reopened, Pending, Cancellable
<1>7. CASE StopCommit
    <2>1. \A m \in Messages : Reopened(m)'
        BY <1>0, <1>7 DEF StopCommit, OnlyReopenedWait, Reopened, Pending, Cancellable
    <2> QED
        BY <1>7, <2>1 DEF StopCommit, OnlyReopenedWait
<1>8. ASSUME NEW o \in Messages, ManualRetry(o)
      PROVE  OnlyReopenedWait'
    <2>1. \A m \in Messages : Reopened(m) => Reopened(m)'
        BY <1>0, <1>8 DEF ManualRetry, Reopened
    <2> QED
        BY <1>1, <1>8, <2>1 DEF ManualRetry
<1>9. CASE RelayEvent \/ Publishing
    BY <1>1, <1>9 DEF RelayEvent, Publishing, Publish, Reopened
<1>10. ASSUME NEW n \in 1..MaxStarts, Materialize(n)
       PROVE  OnlyReopenedWait'
    BY <1>10 DEF Materialize, OnlyReopenedWait, ReadyIsBlank
<1>11. ASSUME NEW n \in 1..MaxStarts,
              RepublishRunning(n) \/ SkipNotRunnable(n)
       PROVE  OnlyReopenedWait'
    BY <1>1, <1>11 DEF RepublishRunning, SkipNotRunnable, Reopened
<1>12. CASE SchedulerDone
    BY <1>1, <1>12 DEF SchedulerDone, Reopened
<1>13. CASE ClaimDue
    <2>1. \A m \in Messages : Reopened(m) => Reopened(m)'
        BY <1>13 DEF ClaimDue, Reopened, Pending
    <2> QED
        BY <1>1, <1>13, <2>1 DEF ClaimDue
<1>14. ASSUME NEW e \in topic, IgnoreOutcome(e)
       PROVE  OnlyReopenedWait'
    BY <1>1, <1>14 DEF IgnoreOutcome, Reopened
<1>15. ASSUME NEW e \in topic, CountNonePending(e)
       PROVE  OnlyReopenedWait'
    BY <1>15 DEF CountNonePending, AllSettled, OnlyReopenedWait, Reopened
<1>16. CASE CompleteRun
    BY <1>16 DEF CompleteRun, OnlyReopenedWait, Reopened
<1>17. CASE CompleteNothing \/ CheckerDone
    BY <1>1, <1>17 DEF CompleteNothing, CheckerDone, Reopened
<1>18. CASE RelayCrash \/ SchedulerCrash \/ RetrySchedulerCrash \/ CheckerCrash
    BY <1>1, <1>18 DEF RelayCrash, SchedulerCrash, RetrySchedulerCrash, CheckerCrash, Reopened
<1>19. ASSUME NEW p \in Partitions, DispatchException(p) \/ DispatcherCrash(p)
       PROVE  OnlyReopenedWait'
    BY <1>1, <1>19 DEF DispatchException, DispatcherCrash, Reopened
<1>20. ASSUME NEW p \in Partitions, RecordOutcome(p)
       PROVE  OnlyReopenedWait'
    <2>1. Current(p) \in Messages /\ msgStatus[Current(p)] \in Pending
        BY <1>20, RecordedWasQueued DEF Pending
    <2>2. retried' = retried /\ \E s : msgStatus' = [msgStatus EXCEPT ![Current(p)] = s]
        BY <1>20 DEF RecordOutcome
    <2>3. \A m \in Messages : Reopened(m) => Reopened(m)'
        BY <1>0, <2>1, <2>2 DEF Reopened
    <2> QED
        BY <1>1, <1>20, <2>3 DEF RecordOutcome
<1>21. ASSUME NEW p \in Partitions, Dispatcher(p), ~RecordOutcome(p)
       PROVE  OnlyReopenedWait'
    BY <1>1, <1>21 DEF Dispatcher, Poll, RateLimited, Claim, ClaimSkipped, CallKannel,
                       CommitOffset, Reopened
<1> QED
    BY <1>2, <1>3, <1>4, <1>5, <1>6, <1>7, <1>8, <1>9, <1>10, <1>11, <1>12, <1>13, <1>14,
       <1>15, <1>16, <1>17, <1>18, <1>19, <1>20, <1>21
       DEF Next, Operator, ApiCommit, Scheduler, Checker, Failure

-----------------------------------------------------------------------------
(* The conjunction of the parts is an inductive invariant of Dispatch; the  *)
(* theorems below are what it is for.                                       *)
THEOREM Invariant == Spec => []IndInv
<1>1. Init => Placed /\ HeldIsQueued /\ ReadyIsBlank /\ AttemptsLeft /\ OnlyReopenedWait
    <2> SUFFICES ASSUME Init
                 PROVE  Placed /\ HeldIsQueued /\ ReadyIsBlank /\ AttemptsLeft
                        /\ OnlyReopenedWait
        OBVIOUS
    <2>1. Placed
        BY DEF Init, Placed
    <2>2. HeldIsQueued /\ ReadyIsBlank /\ OnlyReopenedWait
        BY DEF Init, HeldIsQueued, Holding, ReadyIsBlank, OnlyReopenedWait
    <2>3. AttemptsLeft
        BY DispatchAssumption DEF Init, AttemptsLeft
    <2> QED
        BY <2>1, <2>2, <2>3
<1>2. TypeOK /\ (Placed /\ HeldIsQueued /\ ReadyIsBlank /\ AttemptsLeft /\ OnlyReopenedWait)
         /\ [Next]_vars
      => (Placed /\ HeldIsQueued /\ ReadyIsBlank /\ AttemptsLeft /\ OnlyReopenedWait)'
    BY PlacedStep, HeldStep, BlankStep, AttemptsStep, ReopenedStep
<1> QED
    BY <1>1, <1>2, TypeCorrect, PTL DEF Spec, IndInv

(* The retry budget of process_dispatch_message holds for every policy and  *)
(* however commands are lost, repeated or overtaken: no message is recorded *)
(* as attempted more than max_attempts times, manual retries aside.         *)
THEOREM RetryBudget == Spec => []AttemptsBounded
<1>1. IndInv => AttemptsBounded
    BY DEF IndInv, AttemptsLeft, AttemptsBounded
<1> QED
    BY <1>1, Invariant, PTL

(* Completion and stop leave no work behind, although both read and write   *)
(* messages that other processes are moving: what still waits in a finished *)
(* run has been asked for by an operator.                                   *)
THEOREM FinishedRunIsIdle == Spec => []FinishedRunHoldsNoWork
<1>1. IndInv => FinishedRunHoldsNoWork
    BY DEF IndInv, OnlyReopenedWait, Reopened, FinishedRunHoldsNoWork
<1> QED
    BY <1>1, Invariant, PTL

(* Kannel is called by the step CallKannel of a dispatcher only.            *)
LEMMA CallsMoveBy ==
    ASSUME [Next]_vars, calls' # calls
    PROVE  \E p \in Partitions : CallKannel(p)
<1> USE DEF vars, dbVars, kafkaVars, procVars, histVars
<1>1. CASE Operator \/ ApiCommit
    BY <1>1 DEF Operator, ApiCommit, RequestStart, PauseRun, ResumeBegin, StopBegin,
                ManualRetry, ResumeCommit, StopCommit
<1>2. CASE RelayEvent \/ Publishing \/ Scheduler \/ ClaimDue
    BY <1>2 DEF RelayEvent, Publishing, Publish, Scheduler, Materialize, RepublishRunning,
                SkipNotRunnable, SchedulerDone, ClaimDue
<1>3. CASE Checker
    BY <1>3 DEF Checker, IgnoreOutcome, CountNonePending, CompleteRun, CompleteNothing,
                CheckerDone
<1>4. CASE Failure
    BY <1>4 DEF Failure, ResumeCrash, RelayCrash, SchedulerCrash, RetrySchedulerCrash,
                CheckerCrash, DispatchException, DispatcherCrash
<1>5. ASSUME NEW p \in Partitions, Dispatcher(p)
      PROVE  CallKannel(p)
    BY <1>5 DEF Dispatcher, Poll, RateLimited, Claim, ClaimSkipped, RecordOutcome, CommitOffset
<1> QED
    BY <1>1, <1>2, <1>3, <1>4, <1>5 DEF Next

(* A settled message is never sent again unless an operator retries it:     *)
(* every command for it, old or repeated, finds a row that is not QUEUED.   *)
THEOREM SettledIsFinal == Spec => SettledNeedsOperator
<1>1. IndInv /\ [Next]_vars =>
        [\A m \in Messages :
          msgStatus[m] \in {"SENT", "CANCELLED", "DEAD", "FAILED_UNCONFIRMED"} =>
              \/ msgStatus'[m] = msgStatus[m] /\ calls'[m] = calls[m]
              \/ msgStatus[m] \in Retriable /\ retried'[m] = retried[m] + 1]_vars
    <2> SUFFICES ASSUME IndInv, [Next]_vars, NEW m \in Messages,
                        msgStatus[m] \in {"SENT", "CANCELLED", "DEAD", "FAILED_UNCONFIRMED"},
                        ~(msgStatus[m] \in Retriable /\ retried'[m] = retried[m] + 1)
                 PROVE  msgStatus'[m] = msgStatus[m] /\ calls'[m] = calls[m]
        OBVIOUS
    <2>0. /\ msgStatus \in [Messages -> MessageStatuses] /\ calls \in [Messages -> Nat]
          /\ retried \in [Messages -> Nat]
        BY DEF IndInv, TypeOK, DbTypeOK, HistTypeOK
    <2>1. calls'[m] = calls[m]
        <3>1. ASSUME NEW p \in Partitions, CallKannel(p)
              PROVE  calls'[m] = calls[m]
            <4>1. msgStatus[Current(p)] = "QUEUED"
                BY <3>1 DEF CallKannel, IndInv, HeldIsQueued, Holding
            <4>2. Current(p) # m
                BY <4>1
            <4> QED
                BY <2>0, <3>1, <4>2 DEF CallKannel
        <3> QED
            BY <3>1, CallsMoveBy
    <2>2. ASSUME NEW o \in Messages, ManualRetry(o)
          PROVE  msgStatus'[m] = msgStatus[m]
        <3>1. o # m
            BY <2>0, <2>2 DEF ManualRetry
        <3> QED
            BY <2>0, <2>2, <3>1 DEF ManualRetry
    <2>3. CASE StopCommit
        BY <2>1, <2>3 DEF StopCommit, Cancellable
    <2>4. ASSUME NEW n \in 1..MaxStarts, Materialize(n)
          PROVE  msgStatus'[m] = msgStatus[m]
        BY <2>4 DEF Materialize, IndInv, ReadyIsBlank
    <2>5. ASSUME NEW p \in Partitions, RecordOutcome(p)
          PROVE  msgStatus'[m] = msgStatus[m]
        <3>1. Current(p) # m
            BY <2>5, RecordedWasQueued DEF IndInv
        <3>2. \E s : msgStatus' = [msgStatus EXCEPT ![Current(p)] = s]
            BY <2>5 DEF RecordOutcome
        <3> QED
            BY <2>0, <3>1, <3>2
    <2>6. CASE ClaimDue
        BY <2>1, <2>6 DEF ClaimDue
    <2>7. CASE msgStatus' = msgStatus
        BY <2>1, <2>7
    <2> QED
        BY <2>1, <2>2, <2>3, <2>4, <2>5, <2>6, <2>7, StatusMovesBy
<1> QED
    BY <1>1, Invariant, PTL DEF Spec, SettledNeedsOperator

-----------------------------------------------------------------------------
(* The run contract.  A resume that is under way has not moved the run yet: *)
(* the row of the run is locked until it commits (resume_run).              *)
ResumeOfPaused == runLock = "resume" => runStatus = "PAUSED"

(* The only steps that change the status of the run.                        *)
LEMMA RunMovesBy ==
    ASSUME [Next]_vars, runStatus' # runStatus
    PROVE  \/ PauseRun \/ ResumeCommit \/ StopCommit \/ CompleteRun
           \/ \E n \in 1..MaxStarts : Materialize(n)
<1> USE DEF vars, dbVars, kafkaVars, procVars, histVars
<1>1. CASE Operator \/ ApiCommit
    BY <1>1 DEF Operator, ApiCommit, RequestStart, ResumeBegin, StopBegin, ManualRetry
<1>2. CASE RelayEvent \/ Publishing \/ Scheduler \/ ClaimDue
    BY <1>2 DEF RelayEvent, Publishing, Publish, Scheduler, RepublishRunning,
                SkipNotRunnable, SchedulerDone, ClaimDue
<1>3. CASE Checker
    BY <1>3 DEF Checker, IgnoreOutcome, CountNonePending, CompleteNothing, CheckerDone
<1>4. CASE Failure
    BY <1>4 DEF Failure, ResumeCrash, RelayCrash, SchedulerCrash, RetrySchedulerCrash,
                CheckerCrash, DispatchException, DispatcherCrash
<1>5. ASSUME NEW p \in Partitions, Dispatcher(p)
      PROVE  FALSE
    BY <1>5 DEF Dispatcher, Poll, RateLimited, Claim, ClaimSkipped, CallKannel,
                RecordOutcome, CommitOffset
<1> QED
    BY <1>1, <1>2, <1>3, <1>4, <1>5 DEF Next

(* The row of the run is locked by a resume only from its beginning on.     *)
LEMMA LockMovesBy ==
    ASSUME [Next]_vars, runLock' = "resume"
    PROVE  runLock = "resume" \/ ResumeBegin
<1> USE DEF vars, dbVars, kafkaVars, procVars, histVars
<1>1. CASE Operator \/ ApiCommit
    BY <1>1 DEF Operator, ApiCommit, RequestStart, PauseRun, StopBegin, ManualRetry,
                ResumeCommit, StopCommit
<1>2. CASE RelayEvent \/ Publishing \/ Scheduler \/ ClaimDue
    BY <1>2 DEF RelayEvent, Publishing, Publish, Scheduler, Materialize, RepublishRunning,
                SkipNotRunnable, SchedulerDone, ClaimDue
<1>3. CASE Checker
    BY <1>3 DEF Checker, IgnoreOutcome, CountNonePending, CompleteRun, CompleteNothing,
                CheckerDone
<1>4. CASE Failure
    BY <1>4 DEF Failure, ResumeCrash, RelayCrash, SchedulerCrash, RetrySchedulerCrash,
                CheckerCrash, DispatchException, DispatcherCrash
<1>5. ASSUME NEW p \in Partitions, Dispatcher(p)
      PROVE  runLock = "resume"
    BY <1>5 DEF Dispatcher, Poll, RateLimited, Claim, ClaimSkipped, CallKannel,
                RecordOutcome, CommitOffset
<1> QED
    BY <1>1, <1>2, <1>3, <1>4, <1>5 DEF Next

(* Nobody moves a run whose row a resume has locked.                        *)
LEMMA ResumeStep ==
    ASSUME ResumeOfPaused, [Next]_vars
    PROVE  ResumeOfPaused'
<1>1. SUFFICES ASSUME runLock' = "resume"
               PROVE  runStatus' = "PAUSED"
    BY DEF ResumeOfPaused
<1>2. runStatus = "PAUSED"
    BY <1>1, LockMovesBy DEF ResumeOfPaused, ResumeBegin
<1>3. runStatus' = runStatus \/ PauseRun
    BY <1>1, <1>2, RunMovesBy DEF ResumeCommit, StopCommit, CompleteRun, Materialize
<1> QED
    BY <1>2, <1>3 DEF PauseRun

(* What an operator makes of the statuses of the messages.                  *)
Seen == [m \in Messages |-> IF msgStatus[m] \in Pending THEN "WAITING" ELSE msgStatus[m]]

(* Every step moves run and messages as the contract lets them: a stop may  *)
(* miss only what is being reopened, a completion leaves only such messages *)
(* waiting, and an outcome comes in a live run or after a manual retry.     *)
LEMMA ContractStep ==
    ASSUME IndInv, ResumeOfPaused, [Next]_vars
    PROVE  [Contract!Next]_(Contract!vars)
<1> USE DEF vars, dbVars, kafkaVars, procVars, histVars
<1>0. /\ msgStatus \in [Messages -> MessageStatuses] /\ retried \in [Messages -> Nat]
      /\ runStatus \in RunStatuses
    BY DEF IndInv, TypeOK, DbTypeOK, HistTypeOK
<1>w. Contract!Waiting = {m \in Messages : msgStatus[m] \in Pending}
    BY <1>0 DEF Contract!Waiting, MessageStatuses, Outcomes, Pending
<1>1. CASE UNCHANGED <<runStatus, Seen, retried>>
    BY <1>1 DEF Contract!vars, Seen
<1>2. CASE PauseRun
    BY <1>2 DEF PauseRun, Contract!Next, Contract!Pause
<1>3. CASE ResumeCommit
    BY <1>3 DEF ResumeCommit, ResumeOfPaused, Contract!Next, Contract!Resume
<1>4. CASE StopCommit
    <2> DEFINE missed == {m \in Messages : msgStatus[m] \in Pending /\ m \notin cancelling}
    <2>1. runStatus \in {"RUNNING", "PAUSED"} /\ \A m \in missed : retried[m] > 0
        BY <1>4 DEF StopCommit, IndInv, OnlyReopenedWait, Reopened
    <2>2. Seen' = [m \in Messages |->
                      IF m \in Contract!Waiting \ missed THEN "CANCELLED" ELSE Seen[m]]
        BY <1>0, <1>4, <1>w DEF StopCommit, Seen, Pending, Cancellable
    <2>3. missed \in SUBSET {m \in Contract!Waiting : retried[m] > 0}
        BY <1>w, <2>1
    <2>4. runStatus' = "CANCELLED" /\ retried' = retried
        BY <1>4 DEF StopCommit
    <2> HIDE DEF missed
    <2>5. Contract!Stop
        BY <2>1, <2>2, <2>3, <2>4 DEF Contract!Stop, Seen
    <2> QED
        BY <2>5 DEF Contract!Next
<1>5. CASE CompleteRun
    <2>1. \A m \in Contract!Waiting : retried[m] > 0
        BY <1>5, <1>w DEF CompleteRun, IndInv, OnlyReopenedWait, Reopened
    <2> QED
        BY <1>5, <2>1 DEF CompleteRun, Contract!Next, Contract!Complete
<1>6. ASSUME NEW n \in 1..MaxStarts, Materialize(n)
      PROVE  Contract!Start
    <2>1. \A m \in Messages : msgStatus[m] = "ABSENT"
        BY <1>6 DEF Materialize, IndInv, ReadyIsBlank
    <2>2. Seen' = [m \in Messages |-> IF m \in audience THEN "WAITING" ELSE "ABSENT"]
        BY <1>6, <2>1 DEF Materialize, Seen, Pending
    <2>3. audience \in SUBSET Messages
        BY DEF IndInv, TypeOK, DbTypeOK
    <2> QED
        BY <1>6, <2>2, <2>3 DEF Materialize, Contract!Start, Seen
<1>7. ASSUME NEW m \in Messages, ManualRetry(m)
      PROVE  Contract!Reopen(m)
    <2>1. Seen' = [Seen EXCEPT ![m] = "WAITING"]
        BY <1>0, <1>7 DEF ManualRetry, Seen, Pending
    <2>2. Seen[m] \in {"DEAD", "FAILED_UNCONFIRMED"}
        BY <1>7 DEF ManualRetry, Seen, Retriable, Pending
    <2> QED
        BY <1>7, <2>1, <2>2 DEF ManualRetry, Contract!Reopen, Seen
<1>8. ASSUME NEW p \in Partitions, RecordOutcome(p)
      PROVE  [Contract!Next]_(Contract!vars)
    <2>0. PICK m \in Messages : m = Current(p)
        BY <1>8, RecordedWasQueued DEF IndInv
    <2> DEFINE s == StatusAfter(answer[p], attempts[m] + 1)
    <2>1. msgStatus[m] = "QUEUED" /\ answer[p] \in Answers
        BY <1>8, <2>0, RecordedWasQueued DEF IndInv
    <2>2. msgStatus' = [msgStatus EXCEPT ![m] = s] /\ UNCHANGED <<runStatus, retried>>
        BY <1>8, <2>0 DEF RecordOutcome
    <2>3. s \in {"RETRYING", "SENT", "DEAD", "FAILED_UNCONFIRMED"}
        BY <2>1 DEF StatusAfter, Answers
    <2>4. runStatus \in {"RUNNING", "PAUSED"} \/ retried[m] > 0
        BY <1>0, <2>1 DEF IndInv, ReadyIsBlank, OnlyReopenedWait, Reopened, Pending, RunStatuses
    <2> HIDE DEF s
    <2>5. CASE s = "RETRYING"
        <3>1. Seen' = Seen
            BY <1>0, <2>1, <2>2, <2>5 DEF Seen, Pending
        <3> QED
            BY <1>1, <2>2, <3>1
    <2>6. CASE s # "RETRYING"
        <3>1. Seen' = [Seen EXCEPT ![m] = s] /\ Seen[m] = "WAITING"
            BY <1>0, <2>1, <2>2, <2>3, <2>6 DEF Seen, Pending
        <3>2. Contract!Settle(m)
            BY <2>2, <2>3, <2>4, <2>6, <3>1 DEF Contract!Settle, Seen
        <3> QED
            BY <3>2 DEF Contract!Next
    <2> QED
        BY <2>5, <2>6
<1>9. CASE ClaimDue
    <2>1. Seen' = Seen
        BY <1>0, <1>9 DEF ClaimDue, Seen, Pending
    <2> QED
        BY <1>1, <1>9, <2>1 DEF ClaimDue
<1>10. CASE UNCHANGED <<runStatus, msgStatus, retried>>
    BY <1>1, <1>10 DEF Seen
<1>11. \A n \in 1..MaxStarts : Materialize(n) => Contract!Next
    BY <1>6 DEF Contract!Next
<1>12. \A m \in Messages : ManualRetry(m) => Contract!Next
    BY <1>7 DEF Contract!Next
<1>13. CASE runStatus' # runStatus
    BY <1>2, <1>3, <1>4, <1>5, <1>11, <1>13, RunMovesBy
<1>14. CASE msgStatus' # msgStatus
    BY <1>4, <1>8, <1>9, <1>11, <1>12, <1>14, StatusMovesBy
<1>15. CASE retried' # retried
    BY <1>12, <1>15, CountersMoveBy
<1> QED
    BY <1>10, <1>13, <1>14, <1>15

(* Dispatch implements RunContract: whatever workers, crashes and repeated  *)
(* deliveries do, an operator sees run and messages move only as the        *)
(* contract lets them (dispatch_service, the workers and campaign_runs).    *)
THEOREM DispatchImplementsContract == Spec => ImplementsContract
<1>1. Init => Contract!Init
    BY DEF Init, Contract!Init, Pending
<1>2. Init => ResumeOfPaused
    BY DEF Init, ResumeOfPaused
<1>3. IndInv /\ ResumeOfPaused /\ [Next]_vars => [Contract!Next]_(Contract!vars)
    BY ContractStep
<1>4. ResumeOfPaused /\ [Next]_vars => ResumeOfPaused'
    BY ResumeStep
<1> QED
    BY <1>1, <1>2, <1>3, <1>4, Invariant, PTL DEF Spec, ImplementsContract, Contract!Spec

-----------------------------------------------------------------------------
(* What the gateway was asked.  The transaction that is open for a message, *)
(* with Kannel's answer in it, can only be that of its own partition.       *)
Unrecorded(m) ==
    IF dpc[PartitionOf[m]] = "answered" /\ Current(PartitionOf[m]) = m THEN 1 ELSE 0

(* The command a dispatcher is handling lies in its own partition. *)
LEMMA HeldInItsPartition ==
    ASSUME TypeOK, Placed, NEW p \in Partitions, dpc[p] # "poll"
    PROVE  PartitionOf[Current(p)] = p
<1>1. pos[p] \in 1..Len(cmds[p])
    BY DEF TypeOK, KafkaTypeOK, FetchedOK
<1> QED
    BY <1>1 DEF Placed, Current

(* So at most one transaction holds an answer for a message. *)
LEMMA AnsweredIsUnrecorded ==
    ASSUME TypeOK, Placed, NEW m \in Messages
    PROVE  Answered(m) = Unrecorded(m)
<1> DEFINE k == PartitionOf[m]
           H == {p \in Partitions : dpc[p] = "answered" /\ Current(p) = m}
<1>1. k \in Partitions
    BY DispatchAssumption
<1>2. \A p \in H : p = k
    BY HeldInItsPartition
<1>3. CASE dpc[k] = "answered" /\ Current(k) = m
    <2>1. H = {k}
        BY <1>1, <1>2, <1>3
    <2> QED
        BY <1>3, <2>1, FS_Singleton DEF Answered, Unrecorded
<1>4. CASE ~(dpc[k] = "answered" /\ Current(k) = m)
    <2>1. H = {}
        BY <1>2, <1>4
    <2> QED
        BY <1>4, <2>1, FS_EmptySet DEF Answered, Unrecorded
<1> QED
    BY <1>3, <1>4

(* An answer comes from a call, and is recorded or lost with a failure.     *)
LEMMA AnswersMoveBy ==
    ASSUME TypeOK, [Next]_vars, NEW p \in Partitions
    PROVE  /\ dpc'[p] = "answered" => dpc[p] = "answered" \/ CallKannel(p)
           /\ dpc[p] = "answered" =>
                \/ dpc'[p] = "answered" \/ RecordOutcome(p)
                \/ DispatchException(p) \/ DispatcherCrash(p)
<1> USE DEF vars, dbVars, kafkaVars, procVars, histVars
<1>0. dpc \in [Partitions -> {"poll", "handling", "claimed", "answered", "recorded"}]
    BY DEF TypeOK, ProcTypeOK
<1>1. CASE Operator \/ ApiCommit
    BY <1>1 DEF Operator, ApiCommit, RequestStart, PauseRun, ResumeBegin, StopBegin,
                ManualRetry, ResumeCommit, StopCommit
<1>2. CASE RelayEvent \/ Publishing \/ Scheduler \/ ClaimDue
    BY <1>2 DEF RelayEvent, Publishing, Publish, Scheduler, Materialize, RepublishRunning,
                SkipNotRunnable, SchedulerDone, ClaimDue
<1>3. CASE Checker
    BY <1>3 DEF Checker, IgnoreOutcome, CountNonePending, CompleteRun, CompleteNothing,
                CheckerDone
<1>4. CASE ResumeCrash \/ RelayCrash \/ SchedulerCrash \/ RetrySchedulerCrash \/ CheckerCrash
    BY <1>4 DEF ResumeCrash, RelayCrash, SchedulerCrash, RetrySchedulerCrash, CheckerCrash
<1>5. ASSUME NEW q \in Partitions, DispatchException(q) \/ DispatcherCrash(q)
      PROVE  /\ dpc'[p] # dpc[p] => q = p
             /\ dpc'[p] = "answered" => dpc[p] = "answered"
    BY <1>0, <1>5 DEF DispatchException, DispatcherCrash
<1>6. ASSUME NEW q \in Partitions, Dispatcher(q)
      PROVE  dpc'[p] # dpc[p] => q = p
    BY <1>0, <1>6 DEF Dispatcher, Poll, RateLimited, Claim, ClaimSkipped, CallKannel,
                      RecordOutcome, CommitOffset
<1>7. ASSUME Dispatcher(p)
      PROVE  /\ dpc'[p] = "answered" => CallKannel(p)
             /\ dpc[p] = "answered" => RecordOutcome(p)
    BY <1>0, <1>7 DEF Dispatcher, Poll, RateLimited, Claim, ClaimSkipped, CallKannel,
                      RecordOutcome, CommitOffset
<1> QED
    BY <1>1, <1>2, <1>3, <1>4, <1>5, <1>6, <1>7 DEF Next, Failure

(* Failures are only ever added to.                                         *)
LEMMA FaultsGrow ==
    ASSUME TypeOK, [Next]_vars
    PROVE  faults \in Nat /\ faults' \in {faults, faults + 1}
<1> USE DEF vars, dbVars, kafkaVars, procVars, histVars
<1>0. faults \in Nat
    BY DEF TypeOK, HistTypeOK
<1>1. CASE Operator \/ ApiCommit
    BY <1>0, <1>1 DEF Operator, ApiCommit, RequestStart, PauseRun, ResumeBegin, StopBegin,
                ManualRetry, ResumeCommit, StopCommit
<1>2. CASE RelayEvent \/ Publishing \/ Scheduler \/ ClaimDue
    BY <1>0, <1>2 DEF RelayEvent, Publishing, Publish, Scheduler, Materialize,
                RepublishRunning, SkipNotRunnable, SchedulerDone, ClaimDue
<1>3. CASE Checker
    BY <1>0, <1>3 DEF Checker, IgnoreOutcome, CountNonePending, CompleteRun,
                CompleteNothing, CheckerDone
<1>4. CASE Failure
    BY <1>0, <1>4 DEF Failure, ResumeCrash, RelayCrash, SchedulerCrash,
       RetrySchedulerCrash, CheckerCrash, DispatchException, DispatcherCrash, Fault
<1>5. ASSUME NEW p \in Partitions, Dispatcher(p)
      PROVE  faults' = faults
    BY <1>5 DEF Dispatcher, Poll, RateLimited, Claim, ClaimSkipped, CallKannel,
                RecordOutcome, CommitOffset
<1> QED
    BY <1>0, <1>1, <1>2, <1>3, <1>4, <1>5 DEF Next

(* Calls, attempts and open transactions agree but for what failures lost.  *)
CallsCounted ==
    \A m \in Messages :
        /\ calls[m] >= attempts[m] + Unrecorded(m)
        /\ calls[m] <= attempts[m] + Unrecorded(m) + faults

(* A call opens what its outcome closes; a failure loses one call at most.  *)
LEMMA CallsStep ==
    ASSUME IndInv, CallsCounted, [Next]_vars
    PROVE  CallsCounted'
<1>0. /\ TypeOK /\ Placed /\ calls \in [Messages -> Nat] /\ attempts \in [Messages -> Nat]
      /\ pos \in [Partitions -> Nat] /\ cmds \in [Partitions -> Seq(Messages)]
      /\ dpc \in [Partitions -> {"poll", "handling", "claimed", "answered", "recorded"}]
    BY DEF IndInv, TypeOK, HistTypeOK, DbTypeOK, KafkaTypeOK, ProcTypeOK
<1>1. faults \in Nat /\ faults' \in {faults, faults + 1}
    BY <1>0, FaultsGrow
<1>2. SUFFICES ASSUME NEW m \in Messages
               PROVE  /\ calls'[m] >= attempts'[m] + Unrecorded(m)'
                      /\ calls'[m] <= attempts'[m] + Unrecorded(m)' + faults'
    BY DEF CallsCounted
<1> DEFINE k == PartitionOf[m]
<1>3. /\ k \in Partitions /\ calls[m] \in Nat /\ attempts[m] \in Nat
      /\ calls[m] >= attempts[m] + Unrecorded(m)
      /\ calls[m] <= attempts[m] + Unrecorded(m) + faults
    BY <1>0, DispatchAssumption DEF CallsCounted
<1>4. Unrecorded(m) \in {0, 1} /\ Unrecorded(m)' \in {0, 1}
    BY DEF Unrecorded
<1>5. ASSUME NEW p \in Partitions, CallKannel(p)
      PROVE  /\ attempts' = attempts
             /\ calls'[m] - calls[m] = Unrecorded(m)' - Unrecorded(m)
    <2>1. /\ dpc[p] = "claimed" /\ dpc' = [dpc EXCEPT ![p] = "answered"]
          /\ calls' = [calls EXCEPT ![Current(p)] = @ + 1]
          /\ UNCHANGED <<attempts, cmds, pos>>
        BY <1>5 DEF CallKannel, dbVars, kafkaVars
    <2>2. \A q \in Partitions : Current(q)' = Current(q)
        BY <2>1 DEF Current
    <2>3. PartitionOf[Current(p)] = p
        BY <1>0, <2>1, HeldInItsPartition
    <2>4. CASE Current(p) = m
        <3>1. p = k
            BY <2>3, <2>4
        <3>2. dpc[k] = "claimed" /\ dpc'[k] = "answered" /\ Current(k)' = m
            BY <1>0, <2>1, <2>2, <2>4, <3>1
        <3>3. Unrecorded(m) = 0 /\ Unrecorded(m)' = 1
            BY <3>2 DEF Unrecorded
        <3>4. calls'[m] = calls[m] + 1
            BY <1>0, <2>1, <2>4
        <3> QED
            BY <1>3, <2>1, <3>3, <3>4
    <2>5. CASE Current(p) # m
        <3>1. calls'[m] = calls[m]
            BY <1>0, <2>1, <2>5
        <3>2. Unrecorded(m)' = Unrecorded(m)
            <4>1. CASE p = k
                BY <1>0, <2>1, <2>2, <2>5, <4>1 DEF Unrecorded
            <4>2. CASE p # k
                <5>1. dpc'[k] = dpc[k] /\ Current(k)' = Current(k)
                    BY <1>0, <1>3, <2>1, <2>2, <4>2
                <5> QED
                    BY <5>1 DEF Unrecorded
            <4> QED
                BY <4>1, <4>2
        <3> QED
            BY <1>3, <1>4, <2>1, <3>1, <3>2
    <2> QED
        BY <2>4, <2>5
<1>6. ASSUME NEW p \in Partitions, RecordOutcome(p)
      PROVE  /\ calls' = calls
             /\ attempts'[m] - attempts[m] = Unrecorded(m) - Unrecorded(m)'
    <2>1. /\ dpc[p] = "answered" /\ dpc' = [dpc EXCEPT ![p] = "recorded"]
          /\ attempts' = [attempts EXCEPT ![Current(p)] = attempts[Current(p)] + 1]
          /\ UNCHANGED <<calls, cmds, pos>>
        BY <1>6 DEF RecordOutcome, histVars, kafkaVars
    <2>2. \A q \in Partitions : Current(q)' = Current(q)
        BY <2>1 DEF Current
    <2>3. PartitionOf[Current(p)] = p
        BY <1>0, <2>1, HeldInItsPartition
    <2>4. CASE Current(p) = m
        <3>1. p = k
            BY <2>3, <2>4
        <3>2. dpc[k] = "answered" /\ dpc'[k] = "recorded" /\ Current(k) = m
            BY <1>0, <2>1, <2>4, <3>1
        <3>3. Unrecorded(m) = 1 /\ Unrecorded(m)' = 0
            BY <3>2 DEF Unrecorded
        <3>4. attempts'[m] = attempts[m] + 1
            BY <1>0, <2>1, <2>4
        <3> QED
            BY <1>3, <2>1, <3>3, <3>4
    <2>5. CASE Current(p) # m
        <3>1. attempts'[m] = attempts[m]
            BY <1>0, <2>1, <2>5
        <3>2. Unrecorded(m)' = Unrecorded(m)
            <4>1. CASE p = k
                BY <1>0, <2>1, <2>2, <2>5, <4>1 DEF Unrecorded
            <4>2. CASE p # k
                <5>1. dpc'[k] = dpc[k] /\ Current(k)' = Current(k)
                    BY <1>0, <1>3, <2>1, <2>2, <4>2
                <5> QED
                    BY <5>1 DEF Unrecorded
            <4> QED
                BY <4>1, <4>2
        <3> QED
            BY <1>3, <1>4, <2>1, <3>1, <3>2
    <2> QED
        BY <2>4, <2>5
<1>7. CASE calls' = calls /\ attempts' = attempts
    <2>1. ~CallKannel(k)
        <3>1. ASSUME CallKannel(k)
              PROVE  FALSE
            <4>1. Current(k) \in Messages /\ calls' = [calls EXCEPT ![Current(k)] = @ + 1]
                BY <1>0, <1>3, <3>1, CurrentType DEF CallKannel
            <4>2. calls'[Current(k)] = calls[Current(k)] + 1 /\ calls[Current(k)] \in Nat
                BY <1>0, <4>1
            <4> QED
                BY <1>7, <4>2
        <3> QED
            BY <3>1
    <2>2. ~RecordOutcome(k)
        <3>1. ASSUME RecordOutcome(k)
              PROVE  FALSE
            <4>1. /\ Current(k) \in Messages
                  /\ attempts' = [attempts EXCEPT ![Current(k)] = attempts[Current(k)] + 1]
                BY <1>0, <1>3, <3>1, CurrentType DEF RecordOutcome
            <4>2. /\ attempts'[Current(k)] = attempts[Current(k)] + 1
                  /\ attempts[Current(k)] \in Nat
                BY <1>0, <4>1
            <4> QED
                BY <1>7, <4>2
        <3> QED
            BY <3>1
    <2>3. dpc'[k] = "answered" => dpc[k] = "answered" /\ Current(k)' = Current(k)
        BY <1>0, <1>3, <2>1, AnswersMoveBy, HoldingComesFrom DEF Holding
    <2>4. Unrecorded(m)' <= Unrecorded(m)
        BY <2>3 DEF Unrecorded
    <2>5. CASE Unrecorded(m)' = Unrecorded(m)
        BY <1>1, <1>3, <1>4, <1>7, <2>5
    <2>6. CASE Unrecorded(m)' # Unrecorded(m)
        <3>1. dpc[k] = "answered" /\ dpc'[k] # "answered"
            BY <2>3, <2>6 DEF Unrecorded
        <3>2. DispatchException(k) \/ DispatcherCrash(k)
            BY <1>0, <1>3, <2>2, <3>1, AnswersMoveBy
        <3>3. faults' = faults + 1
            BY <3>2 DEF DispatchException, DispatcherCrash, Fault
        <3> QED
            BY <1>1, <1>3, <1>4, <1>7, <2>4, <2>6, <3>3
    <2> QED
        BY <2>5, <2>6
<1>8. CASE \E p \in Partitions : CallKannel(p)
    <2>1. attempts' = attempts /\ calls'[m] - calls[m] = Unrecorded(m)' - Unrecorded(m)
        BY <1>5, <1>8
    <2>2. calls'[m] \in Nat
        <3>1. PICK p \in Partitions : CallKannel(p)
            BY <1>8
        <3>2. Current(p) \in Messages
            BY <1>0, <3>1, CurrentType DEF CallKannel
        <3> QED
            BY <1>0, <3>1, <3>2 DEF CallKannel
    <2> QED
        BY <1>1, <1>3, <1>4, <2>1, <2>2
<1>9. CASE \E p \in Partitions : RecordOutcome(p)
    <2>1. calls' = calls /\ attempts'[m] - attempts[m] = Unrecorded(m) - Unrecorded(m)'
        BY <1>6, <1>9
    <2>2. attempts'[m] \in Nat
        <3>1. PICK p \in Partitions : RecordOutcome(p)
            BY <1>9
        <3>2. Current(p) \in Messages
            BY <1>0, <3>1, CurrentType DEF RecordOutcome
        <3> QED
            BY <1>0, <3>1, <3>2 DEF RecordOutcome
    <2>3. CASE Unrecorded(m)' = Unrecorded(m)
        <3>1. attempts'[m] = attempts[m]
            BY <1>3, <1>4, <2>1, <2>2, <2>3
        <3> QED
            BY <1>1, <1>3, <1>4, <2>1, <2>3, <3>1
    <2>4. CASE Unrecorded(m)' = 1 /\ Unrecorded(m) = 0
        <3>1. attempts'[m] = attempts[m] - 1
            BY <1>3, <2>1, <2>2, <2>4
        <3> QED
            BY <1>1, <1>3, <2>1, <2>4, <3>1
    <2>5. CASE Unrecorded(m)' = 0 /\ Unrecorded(m) = 1
        <3>1. attempts'[m] = attempts[m] + 1
            BY <1>3, <2>1, <2>2, <2>5
        <3> QED
            BY <1>1, <1>3, <2>1, <2>5, <3>1
    <2> QED
        BY <1>4, <2>3, <2>4, <2>5
<1> QED
    BY <1>7, <1>8, <1>9, CallsMoveBy, CountersMoveBy

(* Every call of kannel.send is recorded as an attempt, or its transaction  *)
(* is open, or a failure took the record with it: repeated commands alone   *)
(* never cost a customer a second SMS (process_dispatch_message).           *)
THEOREM CallsAreAccounted == Spec => []CallsAccounted
<1>1. Init => CallsCounted
    <2> SUFFICES ASSUME Init
                 PROVE  CallsCounted
        OBVIOUS
    <2>1. \A m \in Messages : Unrecorded(m) = 0
        BY DispatchAssumption DEF Init, Unrecorded
    <2> QED
        BY <2>1 DEF Init, CallsCounted
<1>2. IndInv /\ CallsCounted /\ [Next]_vars => CallsCounted'
    BY CallsStep
<1>3. IndInv /\ CallsCounted => CallsAccounted
    BY AnsweredIsUnrecorded DEF IndInv, CallsCounted, CallsAccounted
<1> QED
    BY <1>1, <1>2, <1>3, Invariant, PTL DEF Spec

-----------------------------------------------------------------------------
(* No lost wake-up and no lost completion, for a run that is never paused.  *)
(* (A resume publishes before it commits, and the check of an outcome may   *)
(* find the run PAUSED: with pauses both can be lost, see the README.)      *)
NoPause == MaxPauses = 0

(* A run is then never paused, nor locked by a resume.                      *)
NeverPaused == runStatus # "PAUSED" /\ runLock # "resume"

(* Without presses of "pause" no step pauses the run or begins a resume. *)
LEMMA NeverPausedStep ==
    ASSUME NoPause, TypeOK, NeverPaused, [Next]_vars
    PROVE  NeverPaused'
<1>1. ~PauseRun
    BY DEF NoPause, PauseRun, TypeOK, HistTypeOK
<1>2. runLock' # "resume"
    BY LockMovesBy DEF NeverPaused, ResumeBegin
<1>3. runStatus' # "PAUSED"
    BY <1>1, RunMovesBy DEF NeverPaused, ResumeCommit, StopCommit, CompleteRun, Materialize
<1> QED
    BY <1>2, <1>3 DEF NeverPaused

(* The only steps that change the outbox.                                   *)
LEMMA OutboxMovesBy ==
    ASSUME [Next]_vars, outbox' # outbox
    PROVE  \/ RequestStart \/ RelayEvent \/ CompleteRun
           \/ \E p \in Partitions : RecordOutcome(p)
<1> USE DEF vars, dbVars, kafkaVars, procVars, histVars
<1>1. CASE Operator \/ ApiCommit
    BY <1>1 DEF Operator, ApiCommit, PauseRun, ResumeBegin, StopBegin,
                ManualRetry, ResumeCommit, StopCommit
<1>2. CASE Publishing \/ Scheduler \/ ClaimDue
    BY <1>2 DEF Publishing, Publish, Scheduler, Materialize, RepublishRunning,
                SkipNotRunnable, SchedulerDone, ClaimDue
<1>3. CASE Checker
    BY <1>3 DEF Checker, IgnoreOutcome, CountNonePending, CompleteNothing, CheckerDone
<1>4. CASE Failure
    BY <1>4 DEF Failure, ResumeCrash, RelayCrash, SchedulerCrash, RetrySchedulerCrash,
                CheckerCrash, DispatchException, DispatcherCrash
<1>5. ASSUME NEW p \in Partitions, Dispatcher(p)
      PROVE  RecordOutcome(p) \/ outbox' = outbox
    BY <1>5 DEF Dispatcher, Poll, RateLimited, Claim, ClaimSkipped, CallKannel, CommitOffset
<1> QED
    BY <1>1, <1>2, <1>3, <1>4, <1>5 DEF Next

(* The only steps that change the topic of events.                          *)
LEMMA TopicMovesBy ==
    ASSUME [Next]_vars, topic' # topic
    PROVE  \/ RelayEvent \/ RelayCrash \/ SchedulerDone \/ CheckerDone
           \/ \E n \in 1..MaxStarts : SkipNotRunnable(n)
           \/ \E e \in topic : IgnoreOutcome(e)
<1> USE DEF vars, dbVars, kafkaVars, procVars, histVars
<1>1. CASE Operator \/ ApiCommit
    BY <1>1 DEF Operator, ApiCommit, RequestStart, PauseRun, ResumeBegin, StopBegin,
                ManualRetry, ResumeCommit, StopCommit
<1>2. CASE Publishing \/ Scheduler \/ ClaimDue
    BY <1>2 DEF Publishing, Publish, Scheduler, Materialize, RepublishRunning, ClaimDue
<1>3. CASE Checker
    BY <1>3 DEF Checker, CountNonePending, CompleteRun, CompleteNothing
<1>4. CASE Failure
    BY <1>4 DEF Failure, ResumeCrash, SchedulerCrash, RetrySchedulerCrash,
                CheckerCrash, DispatchException, DispatcherCrash
<1>5. ASSUME NEW p \in Partitions, Dispatcher(p)
      PROVE  topic' = topic
    BY <1>5 DEF Dispatcher, Poll, RateLimited, Claim, ClaimSkipped, CallKannel,
                RecordOutcome, CommitOffset
<1> QED
    BY <1>1, <1>2, <1>3, <1>4, <1>5 DEF Next

(* The only steps that move the message-events worker.                      *)
LEMMA CheckerMovesBy ==
    ASSUME [Next]_vars, <<checkPc, checkEvent>>' # <<checkPc, checkEvent>>
    PROVE  \/ CompleteRun \/ CompleteNothing \/ CheckerDone \/ CheckerCrash
           \/ \E e \in topic : CountNonePending(e)
<1> USE DEF vars, dbVars, kafkaVars, procVars, histVars
<1>1. CASE Operator \/ ApiCommit
    BY <1>1 DEF Operator, ApiCommit, RequestStart, PauseRun, ResumeBegin, StopBegin,
                ManualRetry, ResumeCommit, StopCommit
<1>2. CASE RelayEvent \/ Publishing \/ Scheduler \/ ClaimDue
    BY <1>2 DEF RelayEvent, Publishing, Publish, Scheduler, Materialize, RepublishRunning,
                SkipNotRunnable, SchedulerDone, ClaimDue
<1>3. CASE Checker
    BY <1>3 DEF Checker, IgnoreOutcome
<1>4. CASE Failure
    BY <1>4 DEF Failure, ResumeCrash, RelayCrash, SchedulerCrash, RetrySchedulerCrash,
                DispatchException, DispatcherCrash
<1>5. ASSUME NEW p \in Partitions, Dispatcher(p)
      PROVE  UNCHANGED <<checkPc, checkEvent>>
    BY <1>5 DEF Dispatcher, Poll, RateLimited, Claim, ClaimSkipped, CallKannel,
                RecordOutcome, CommitOffset
<1> QED
    BY <1>1, <1>2, <1>3, <1>4, <1>5 DEF Next

(* Recording an outcome appends its event behind what the outbox holds.     *)
LEMMA OutcomeIsWritten ==
    ASSUME TypeOK, HeldIsQueued, NEW p \in Partitions, RecordOutcome(p)
    PROVE  LET n == attempts[Current(p)] + 1
               e == OutcomeEvent(Current(p), n, StatusAfter(answer[p], n))
           IN  /\ \A i \in 1..Len(outbox) : i \in 1..Len(outbox') /\ outbox'[i] = outbox[i]
               /\ \E i \in 1..Len(outbox') : outbox'[i] = e
<1> DEFINE m == Current(p)
           n == attempts[m] + 1
           s == StatusAfter(answer[p], n)
           e == OutcomeEvent(m, n, s)
           dead == IF s = "DEAD" THEN <<DeadEvent(m, n)>> ELSE << >>
           some == outbox \o <<e>>
<1>1. m \in Messages /\ n \in Nat /\ s \in Outcomes
    <2>1. m \in Messages /\ answer[p] \in Answers
        BY RecordedWasQueued
    <2>2. n \in Nat
        BY <2>1 DEF TypeOK, DbTypeOK
    <2> QED
        BY <2>1, <2>2, StatusAfterType
<1>2. e \in Events /\ DeadEvent(m, n) \in Events
    BY <1>1, EventTypes
<1>3. outbox \in Seq(Events) /\ Len(outbox) \in Nat
    BY DEF TypeOK, DbTypeOK
<1>4. outbox' = some \o dead
    BY DEF RecordOutcome
<1> HIDE DEF m, n, s, e
<1>5. <<e>> \in Seq(Events) /\ dead \in Seq(Events)
    BY <1>2
<1>6. /\ some \in Seq(Events) /\ Len(some) = Len(outbox) + 1
      /\ some[Len(outbox) + 1] = e
      /\ \A i \in 1..Len(outbox) : some[i] = outbox[i]
    BY <1>3, <1>5, ConcatProperties
<1> HIDE DEF some, dead
<1>7. /\ Len(some \o dead) = Len(some) + Len(dead) /\ Len(dead) \in Nat
      /\ \A i \in 1..Len(some) : (some \o dead)[i] = some[i]
    <2>1. Len(dead) \in Nat /\ Len(some) \in Nat
        BY <1>5, <1>6
    <2>2. /\ Len(some \o dead) = Len(some) + Len(dead)
          /\ \A i \in 1 .. Len(some) + Len(dead) :
                (some \o dead)[i] = IF i <= Len(some) THEN some[i] ELSE dead[i - Len(some)]
        BY <1>5, <1>6, ConcatProperties
    <2> QED
        BY <2>1, <2>2
<1>8. \A i \in 1..Len(outbox) : i \in 1..Len(outbox') /\ outbox'[i] = outbox[i]
    BY <1>3, <1>4, <1>6, <1>7
<1>9. Len(outbox) + 1 \in 1..Len(outbox') /\ outbox'[Len(outbox) + 1] = e
    BY <1>3, <1>4, <1>6, <1>7
<1> QED
    BY <1>8, <1>9 DEF m, n, s, e

(* An event that has been written is on its way until its consumer is done  *)
(* with it; publishing it once more changes nothing.                        *)
OnItsWay(e) == e \in topic \/ \E i \in 1..Len(outbox) : outbox[i] = e

(* A written event leaves outbox and topic only through its consumer. *)
LEMMA EventsStay ==
    ASSUME TypeOK, HeldIsQueued, [Next]_vars, NEW e, OnItsWay(e)
    PROVE  \/ OnItsWay(e)'
           \/ \E n \in 1..MaxStarts : SkipNotRunnable(n) /\ e = StartEvent(n)
           \/ SchedulerDone /\ e = StartEvent(schedEvent)
           \/ IgnoreOutcome(e)
           \/ CheckerDone /\ e = checkEvent
<1>0. outbox \in Seq(Events) /\ Len(outbox) \in Nat
    BY DEF TypeOK, DbTypeOK
<1>1. CASE e \in topic
    <2>1. CASE e \in topic'
        BY <2>1 DEF OnItsWay
    <2>2. CASE e \notin topic'
        <3>1. \/ SchedulerDone \/ CheckerDone
              \/ \E n \in 1..MaxStarts : SkipNotRunnable(n)
              \/ \E d \in topic : IgnoreOutcome(d)
            BY <1>1, <2>2, TopicMovesBy DEF RelayEvent, RelayCrash
        <3>2. \A d : topic' = topic \ {d} => e = d
            BY <1>1, <2>2
        <3>3. ASSUME NEW d \in topic, IgnoreOutcome(d)
              PROVE  IgnoreOutcome(e)
            <4>1. e = d
                BY <3>2, <3>3 DEF IgnoreOutcome
            <4>2. UNCHANGED <<dbVars, cmds, pos, procVars, histVars>> /\ topic' = topic \ {d}
                BY <3>3 DEF IgnoreOutcome
            <4> QED
                BY <3>3, <4>1, <4>2 DEF IgnoreOutcome
        <3> QED
            BY <3>1, <3>2, <3>3 DEF SchedulerDone, CheckerDone, SkipNotRunnable
    <2> QED
        BY <2>1, <2>2
<1>2. CASE \E i \in 1..Len(outbox) : outbox[i] = e
    <2>0. PICK i \in 1..Len(outbox) : outbox[i] = e
        BY <1>2
    <2>1. CASE outbox' = outbox
        BY <2>0, <2>1 DEF OnItsWay
    <2>2. ASSUME NEW d \in Events, outbox' = Append(outbox, d)
          PROVE  OnItsWay(e)'
        <3>1. i \in 1..Len(outbox') /\ outbox'[i] = outbox[i]
            BY <1>0, <2>0, <2>2, AppendProperties
        <3> QED
            BY <2>0, <3>1 DEF OnItsWay
    <2>3. CASE RequestStart \/ CompleteRun
        <3>1. StartEvent(starts + 1) \in Events /\ CompletedEvent \in Events
            BY EventTypes DEF TypeOK, HistTypeOK
        <3> QED
            BY <2>2, <2>3, <3>1 DEF RequestStart, CompleteRun
    <2>4. CASE RelayEvent
        <3>1. topic' = topic \cup {Head(outbox)} /\ outbox' = Tail(outbox) /\ outbox # << >>
            BY <2>4 DEF RelayEvent
        <3>2. /\ Head(outbox) = outbox[1] /\ Len(outbox') = Len(outbox) - 1
              /\ \A j \in 1..Len(outbox') : outbox'[j] = outbox[j + 1]
            BY <1>0, <3>1, HeadTailProperties
        <3>3. CASE i = 1
            BY <2>0, <3>1, <3>2, <3>3 DEF OnItsWay
        <3>4. CASE i # 1
            <4>1. i - 1 \in 1..Len(outbox') /\ outbox'[i - 1] = outbox[i]
                BY <1>0, <2>0, <3>2, <3>4
            <4> QED
                BY <2>0, <4>1 DEF OnItsWay
        <3> QED
            BY <3>3, <3>4
    <2>5. ASSUME NEW p \in Partitions, RecordOutcome(p)
          PROVE  OnItsWay(e)'
        <3>1. i \in 1..Len(outbox') /\ outbox'[i] = outbox[i]
            BY <2>0, <2>5, OutcomeIsWritten
        <3> QED
            BY <2>0, <3>1 DEF OnItsWay
    <2> QED
        BY <2>1, <2>3, <2>4, <2>5, OutboxMovesBy
<1> QED
    BY <1>1, <1>2 DEF OnItsWay

(* What the message-events worker has counted for is an outcome that is     *)
(* still in its topic, and it is done only with a run that is over.         *)
CheckedOutcome ==
    /\ checkPc # "idle" => checkEvent \in topic /\ IsTerminalOutcome(checkEvent)
    /\ checkPc = "handled" => runStatus \in {"COMPLETED", "CANCELLED"}

(* The worker of message events holds on to the outcome it handles. *)
LEMMA CheckedStep ==
    ASSUME NeverPaused, IndInv, CheckedOutcome, [Next]_vars
    PROVE  CheckedOutcome'
<1> USE DEF vars, dbVars, kafkaVars, procVars, histVars
<1>0. runStatus \in RunStatuses
    BY DEF IndInv, TypeOK, DbTypeOK
<1>1. checkPc' # "idle" => checkEvent' \in topic' /\ IsTerminalOutcome(checkEvent')
    <2>1. ASSUME <<checkPc, checkEvent>>' = <<checkPc, checkEvent>>, checkPc # "idle"
          PROVE  checkEvent \in topic' /\ IsTerminalOutcome(checkEvent)
        <3>1. checkEvent.type = "message.attempt_outcome" /\ checkEvent \in topic
              /\ IsTerminalOutcome(checkEvent)
            BY <2>1 DEF CheckedOutcome, IsTerminalOutcome
        <3>2. \A n : StartEvent(n).type = "run.start_requested"
            BY DEF StartEvent
        <3>3. \A n : checkEvent # StartEvent(n)
            BY <3>1, <3>2
        <3>4. ~CheckerDone /\ \A e \in topic : ~IgnoreOutcome(e)
            BY <2>1 DEF CheckerDone, IgnoreOutcome
        <3> QED
            BY <3>1, <3>3, <3>4, TopicMovesBy
               DEF RelayEvent, RelayCrash, SchedulerDone, SkipNotRunnable
    <2>2. ASSUME NEW e \in topic, CountNonePending(e)
          PROVE  checkEvent' \in topic' /\ IsTerminalOutcome(checkEvent')
        BY <2>2 DEF CountNonePending
    <2>3. CASE CompleteRun \/ CompleteNothing
        BY <2>3 DEF CompleteRun, CompleteNothing, CheckedOutcome
    <2> QED
        BY <2>1, <2>2, <2>3, CheckerMovesBy DEF CheckerDone, CheckerCrash
<1>2. checkPc' = "handled" => runStatus' \in {"COMPLETED", "CANCELLED"}
    <2>1. CASE CompleteNothing
        <3>1. runStatus # "READY"
            BY <2>1 DEF CompleteNothing, IndInv, ReadyIsBlank
        <3> QED
            BY <1>0, <2>1, <3>1 DEF CompleteNothing, NeverPaused, RunStatuses
    <2>2. CASE CompleteRun
        BY <2>2 DEF CompleteRun
    <2>3. CASE runStatus \in {"COMPLETED", "CANCELLED"}
        BY <2>3, RunMovesBy
           DEF PauseRun, ResumeCommit, StopCommit, CompleteRun, Materialize, NeverPaused
    <2>4. CASE checkPc # "handled"
        BY <2>1, <2>2, <2>4, CheckerMovesBy DEF CountNonePending, CheckerDone, CheckerCrash
    <2> QED
        BY <2>1, <2>2, <2>3, <2>4 DEF CheckedOutcome
<1> QED
    BY <1>1, <1>2 DEF CheckedOutcome

(* No completion is lost: the outcome that settles the last message is      *)
(* written with it, and whoever consumes it finds the run settled.          *)
LEMMA CompletionStep ==
    ASSUME NeverPaused, IndInv, CheckedOutcome, CompletionPending, [Next]_vars
    PROVE  CompletionPending'
<1> USE DEF vars, dbVars, kafkaVars, procVars, histVars
<1>0. /\ msgStatus \in [Messages -> MessageStatuses] /\ audience \in SUBSET Messages
      /\ TypeOK /\ HeldIsQueued
    BY DEF IndInv, TypeOK, DbTypeOK
<1>1. SUFFICES ASSUME runStatus' = "RUNNING", audience' # {}, AllSettled'
               PROVE  \/ checkPc' = "counted"
                      \/ \E e : IsTerminalOutcome(e) /\ OnItsWay(e)'
    BY DEF CompletionPending, OnItsWay
<1>2. ~StopCommit /\ ~CompleteRun
    BY <1>1 DEF StopCommit, CompleteRun
<1>3. \A n \in 1..MaxStarts : ~Materialize(n)
    <2>1. ASSUME NEW n \in 1..MaxStarts, Materialize(n)
          PROVE  FALSE
        <3>1. PICK m \in audience : m \in Messages
            BY <1>0, <1>1, <2>1 DEF Materialize
        <3>2. msgStatus'[m] = "QUEUED"
            BY <2>1, <3>1 DEF Materialize
        <3> QED
            BY <1>1, <3>1, <3>2 DEF AllSettled, Pending
    <2> QED
        BY <2>1
<1>4. runStatus = "RUNNING"
    BY <1>1, <1>2, <1>3, RunMovesBy DEF PauseRun, ResumeCommit, NeverPaused
<1>5. audience' = audience
    <2>1. CASE Operator \/ ApiCommit
        BY <2>1 DEF Operator, ApiCommit, RequestStart, PauseRun, ResumeBegin, StopBegin,
                    ManualRetry, ResumeCommit, StopCommit
    <2>2. CASE RelayEvent \/ Publishing \/ Scheduler \/ ClaimDue
        BY <2>2 DEF RelayEvent, Publishing, Publish, Scheduler, Materialize,
                    RepublishRunning, SkipNotRunnable, SchedulerDone, ClaimDue
    <2>3. CASE Checker
        BY <2>3 DEF Checker, IgnoreOutcome, CountNonePending, CompleteRun,
                    CompleteNothing, CheckerDone
    <2>4. CASE Failure
        BY <2>4 DEF Failure, ResumeCrash, RelayCrash, SchedulerCrash, RetrySchedulerCrash,
                    CheckerCrash, DispatchException, DispatcherCrash
    <2>5. ASSUME NEW p \in Partitions, Dispatcher(p)
          PROVE  audience' = audience
        BY <2>5 DEF Dispatcher, Poll, RateLimited, Claim, ClaimSkipped, CallKannel,
                    RecordOutcome, CommitOffset
    <2> QED
        BY <2>1, <2>2, <2>3, <2>4, <2>5 DEF Next
<1>6. CASE AllSettled
    <2>1. CASE checkPc = "counted"
        <3>1. CASE CheckerCrash
            BY <2>1, <3>1 DEF CheckerCrash, CheckedOutcome, OnItsWay
        <3>2. CASE checkPc' = checkPc
            BY <2>1, <3>2
        <3> QED
            BY <1>2, <1>4, <2>1, <3>1, <3>2, CheckerMovesBy
               DEF CompleteNothing, CheckerDone, CountNonePending
    <2>2. ASSUME NEW e, IsTerminalOutcome(e), OnItsWay(e)
          PROVE  OnItsWay(e)'
        <3>1. \A n : e # StartEvent(n)
            <4>1. e.type = "message.attempt_outcome"
                BY <2>2 DEF IsTerminalOutcome
            <4>2. \A n : StartEvent(n).type = "run.start_requested"
                BY DEF StartEvent
            <4> QED
                BY <4>1, <4>2
        <3>2. ~IgnoreOutcome(e)
            BY <1>6, <2>2 DEF IgnoreOutcome
        <3>3. ~CheckerDone
            BY <1>4 DEF CheckerDone, CheckedOutcome
        <3> QED
            BY <1>0, <2>2, <3>1, <3>2, <3>3, EventsStay
    <2> QED
        BY <1>1, <1>4, <1>5, <1>6, <2>1, <2>2 DEF CompletionPending, OnItsWay
<1>7. CASE ~AllSettled
    <2>1. \A m \in Messages : ~ManualRetry(m)
        <3>1. ASSUME NEW m \in Messages, ManualRetry(m)
              PROVE  FALSE
            <4>1. msgStatus'[m] = "RETRYING"
                BY <1>0, <3>1 DEF ManualRetry
            <4> QED
                BY <1>1, <4>1 DEF AllSettled, Pending
        <3> QED
            BY <3>1
    <2>2. ~ClaimDue
        BY <1>1 DEF ClaimDue, AllSettled, Pending
    <2>3. PICK p \in Partitions : RecordOutcome(p)
        BY <1>1, <1>2, <1>3, <1>7, <2>1, <2>2, StatusMovesBy DEF AllSettled
    <2> DEFINE m == Current(p)
               n == attempts[m] + 1
               s == StatusAfter(answer[p], n)
    <2>4. m \in Messages /\ answer[p] \in Answers
        BY <1>0, <2>3, RecordedWasQueued
    <2>5. msgStatus'[m] = s
        BY <1>0, <2>3, <2>4 DEF RecordOutcome
    <2>6. s \in {"SENT", "DEAD", "FAILED_UNCONFIRMED"}
        BY <1>1, <2>4, <2>5 DEF AllSettled, Pending, StatusAfter, Answers
    <2>7. \E i \in 1..Len(outbox') : outbox'[i] = OutcomeEvent(m, n, s)
        BY <1>0, <2>3, OutcomeIsWritten
    <2> HIDE DEF m, n, s
    <2>8. IsTerminalOutcome(OutcomeEvent(m, n, s))
        BY <2>6 DEF IsTerminalOutcome, OutcomeEvent
    <2> QED
        BY <2>7, <2>8 DEF OnItsWay
<1> QED
    BY <1>6, <1>7

(* A run that nobody pauses is always on its way to completion: once every  *)
(* message has an outcome, an event that will make the message-events       *)
(* worker look has not been consumed for good, whatever fails.              *)
THEOREM CompletionIsNotLost ==
    ASSUME NoPause
    PROVE  Spec => []CompletionPending
<1>1. Init => NeverPaused /\ CheckedOutcome /\ CompletionPending
    BY DEF Init, NeverPaused, CheckedOutcome, CompletionPending
<1>2. TypeOK /\ NeverPaused /\ [Next]_vars => NeverPaused'
    BY NeverPausedStep
<1>3. IndInv /\ NeverPaused /\ CheckedOutcome /\ [Next]_vars => CheckedOutcome'
    BY CheckedStep
<1>4. IndInv /\ NeverPaused /\ CheckedOutcome /\ CompletionPending /\ [Next]_vars
        => CompletionPending'
    BY CompletionStep
<1>5. IndInv => TypeOK
    BY DEF IndInv
<1> QED
    BY <1>1, <1>2, <1>3, <1>4, <1>5, Invariant, PTL DEF Spec

-----------------------------------------------------------------------------
(* What follows the first n elements of a sequence is kept, n places ahead. *)
LEMMA RestKeeps ==
    ASSUME NEW S, NEW s \in Seq(S), NEW n \in Nat, NEW i \in 1..Len(s), i > n
    PROVE  /\ i - n \in 1..Len(SubSeq(s, n + 1, Len(s)))
           /\ SubSeq(s, n + 1, Len(s))[i - n] = s[i]
<1>1. Len(s) \in Nat
    OBVIOUS
<1>2. \A j \in n + 1 .. Len(s) : s[j] \in S
    BY <1>1
<1>3. Len(SubSeq(s, n + 1, Len(s))) =
            IF n + 1 <= Len(s) THEN Len(s) - (n + 1) + 1 ELSE 0
    BY <1>1, <1>2, SubSeqProperties
<1>4. i - n \in 1..Len(SubSeq(s, n + 1, Len(s))) /\ n + (i - n) = i
    BY <1>1, <1>3
<1>5. SubSeq(s, n + 1, Len(s))[i - n] = s[n + (i - n)]
    BY ONLY <1>4, RestOf, n \in Nat, s \in Seq(S), Zenon
<1> QED
    BY <1>4, <1>5

(* No process but its dispatcher and the publishers moves a partition.      *)
LEMMA PartitionMovesBy ==
    ASSUME TypeOK, [Next]_vars, NEW k \in Partitions
    PROVE  \/ cmds'[k] = cmds[k] /\ pos'[k] = pos[k] /\ dpc'[k] = dpc[k]
           \/ \E w \in Publishers, m \in Messages : Publish(w, m)
           \/ Dispatcher(k) \/ DispatchException(k) \/ DispatcherCrash(k)
<1> USE DEF vars, dbVars, kafkaVars, procVars, histVars
<1>0. /\ dpc \in [Partitions -> {"poll", "handling", "claimed", "answered", "recorded"}]
      /\ pos \in [Partitions -> Nat] /\ cmds \in [Partitions -> Seq(Messages)]
    BY DEF TypeOK, ProcTypeOK, KafkaTypeOK
<1>1. CASE Operator \/ ApiCommit
    BY <1>1 DEF Operator, ApiCommit, RequestStart, PauseRun, ResumeBegin, StopBegin,
                ManualRetry, ResumeCommit, StopCommit
<1>2. CASE RelayEvent \/ Scheduler \/ ClaimDue
    BY <1>2 DEF RelayEvent, Scheduler, Materialize, RepublishRunning, SkipNotRunnable,
                SchedulerDone, ClaimDue
<1>3. CASE Checker
    BY <1>3 DEF Checker, IgnoreOutcome, CountNonePending, CompleteRun, CompleteNothing,
                CheckerDone
<1>4. CASE ResumeCrash \/ RelayCrash \/ SchedulerCrash \/ RetrySchedulerCrash \/ CheckerCrash
    BY <1>4 DEF ResumeCrash, RelayCrash, SchedulerCrash, RetrySchedulerCrash, CheckerCrash
<1>5. ASSUME NEW q \in Partitions, DispatchException(q) \/ DispatcherCrash(q), q # k
      PROVE  cmds'[k] = cmds[k] /\ pos'[k] = pos[k] /\ dpc'[k] = dpc[k]
    BY <1>0, <1>5 DEF DispatchException, DispatcherCrash
<1>6. ASSUME NEW q \in Partitions, Dispatcher(q), q # k
      PROVE  cmds'[k] = cmds[k] /\ pos'[k] = pos[k] /\ dpc'[k] = dpc[k]
    BY <1>0, <1>6 DEF Dispatcher, Poll, RateLimited, Claim, ClaimSkipped, CallKannel,
                      RecordOutcome, CommitOffset, AdvanceOffset
<1> QED
    BY <1>1, <1>2, <1>3, <1>4, <1>5, <1>6 DEF Next, Failure, Publishing

(* Publishing adds a command behind the others of its partition.            *)
LEMMA PublishAppends ==
    ASSUME TypeOK, NEW w \in Publishers, NEW m \in Messages, Publish(w, m),
           NEW k \in Partitions
    PROVE  /\ Len(cmds[k]) \in Nat
           /\ \A i \in 1..Len(cmds[k]) : i \in 1..Len(cmds'[k]) /\ cmds'[k][i] = cmds[k][i]
           /\ k = PartitionOf[m] =>
                Len(cmds[k]) + 1 \in 1..Len(cmds'[k]) /\ cmds'[k][Len(cmds[k]) + 1] = m
           /\ pos' = pos /\ dpc' = dpc
<1>1. cmds \in [Partitions -> Seq(Messages)] /\ PartitionOf[m] \in Partitions
    BY DispatchAssumption DEF TypeOK, KafkaTypeOK
<1>2. cmds[k] \in Seq(Messages) /\ Len(cmds[k]) \in Nat
    BY <1>1
<1>3. IF k = PartitionOf[m] THEN cmds'[k] = Append(cmds[k], m) ELSE cmds'[k] = cmds[k]
    BY <1>1 DEF Publish
<1>4. pos' = pos /\ dpc' = dpc
    BY DEF Publish
<1>5. /\ Len(Append(cmds[k], m)) = Len(cmds[k]) + 1
      /\ \A i \in 1..Len(cmds[k]) : Append(cmds[k], m)[i] = cmds[k][i]
      /\ Append(cmds[k], m)[Len(cmds[k]) + 1] = m
    BY <1>2, AppendProperties
<1> QED
    BY <1>2, <1>3, <1>4, <1>5

(* The failures that do strand a message are left out: an unforeseen        *)
(* exception, after which dispatch_worker commits past the command it was   *)
(* handling, and a retry scheduler that dies between its commit and its     *)
(* publishing.                                                              *)
NoStrandingFault == Faults \cap {"exception", "retry"} = {}

(* A dispatcher then fetches one command at a time;                         *)
OneFetched == \A p \in Partitions : pos[p] = IF dpc[p] = "poll" THEN 0 ELSE 1

(* a start is kept in the topic until its commands are published;           *)
StartKept == schedEvent # 0 => StartEvent(schedEvent) \in topic

(* a command lives until its outcome is recorded;                           *)
LiveCommand(m) ==
    \E i \in 1..Len(cmds[PartitionOf[m]]) :
        /\ cmds[PartitionOf[m]][i] = m
        /\ dpc[PartitionOf[m]] = "recorded" => i > pos[PartitionOf[m]]

(* and a message of a running run that is QUEUED has a living command, or   *)
(* somebody about to publish one, or a start that nobody is handling yet.   *)
Awaited ==
    runStatus = "RUNNING" =>
        \A m \in Queued :
            \/ LiveCommand(m)
            \/ \E w \in Publishers : m \in pub[w]
            \/ schedEvent = 0 /\ StartPending

(* A dispatcher fetches one command and is done with it before the next. *)
LEMMA FetchedStep ==
    ASSUME NoStrandingFault, TypeOK, OneFetched, [Next]_vars
    PROVE  OneFetched'
<1>1. SUFFICES ASSUME NEW k \in Partitions
               PROVE  pos'[k] = IF dpc'[k] = "poll" THEN 0 ELSE 1
    BY DEF OneFetched
<1>2. /\ dpc \in [Partitions -> {"poll", "handling", "claimed", "answered", "recorded"}]
      /\ pos \in [Partitions -> Nat] /\ pos[k] = IF dpc[k] = "poll" THEN 0 ELSE 1
    BY DEF TypeOK, ProcTypeOK, KafkaTypeOK, OneFetched
<1>3. ~DispatchException(k)
    BY DEF NoStrandingFault, DispatchException, Fault
<1>4. ASSUME NEW w \in Publishers, NEW m \in Messages, Publish(w, m)
      PROVE  pos' = pos /\ dpc' = dpc
    BY <1>4 DEF Publish
<1>5. CASE Dispatcher(k)
    <2>1. CASE Poll(k)
        BY <1>2, <2>1 DEF Poll
    <2>2. CASE RateLimited(k)
        BY <1>2, <2>2 DEF RateLimited
    <2>3. CASE ClaimSkipped(k) \/ CommitOffset(k)
        BY <1>2, <2>3 DEF ClaimSkipped, CommitOffset, AdvanceOffset
    <2>4. CASE Claim(k) \/ CallKannel(k) \/ RecordOutcome(k)
        BY <1>2, <2>4 DEF Claim, CallKannel, RecordOutcome, kafkaVars
    <2> QED
        BY <1>5, <2>1, <2>2, <2>3, <2>4 DEF Dispatcher
<1>6. CASE DispatcherCrash(k)
    BY <1>2, <1>6 DEF DispatcherCrash
<1> QED
    BY <1>2, <1>3, <1>4, <1>5, <1>6, PartitionMovesBy

(* The only steps that take up or put down a start event.                   *)
LEMMA SchedulerMovesBy ==
    ASSUME [Next]_vars, schedEvent' # schedEvent
    PROVE  \/ \E n \in 1..MaxStarts : Materialize(n) \/ RepublishRunning(n)
           \/ SchedulerDone \/ SchedulerCrash
<1> USE DEF vars, dbVars, kafkaVars, procVars, histVars
<1>1. CASE Operator \/ ApiCommit
    BY <1>1 DEF Operator, ApiCommit, RequestStart, PauseRun, ResumeBegin, StopBegin,
                ManualRetry, ResumeCommit, StopCommit
<1>2. CASE RelayEvent \/ Publishing \/ Scheduler \/ ClaimDue
    BY <1>2 DEF RelayEvent, Publishing, Publish, Scheduler, SkipNotRunnable, ClaimDue
<1>3. CASE Checker
    BY <1>3 DEF Checker, IgnoreOutcome, CountNonePending, CompleteRun, CompleteNothing,
                CheckerDone
<1>4. CASE Failure
    BY <1>4 DEF Failure, ResumeCrash, RelayCrash, RetrySchedulerCrash, CheckerCrash,
                DispatchException, DispatcherCrash
<1>5. ASSUME NEW p \in Partitions, Dispatcher(p)
      PROVE  schedEvent' = schedEvent
    BY <1>5 DEF Dispatcher, Poll, RateLimited, Claim, ClaimSkipped, CallKannel,
                RecordOutcome, CommitOffset
<1> QED
    BY <1>1, <1>2, <1>3, <1>4, <1>5 DEF Next

(* An outcome the message-events worker has done with is not a start.       *)
LEMMA OutcomeIsNoStart ==
    ASSUME CheckedOutcome, NEW e, e.type = "run.start_requested"
    PROVE  ~IgnoreOutcome(e) /\ ~(CheckerDone /\ e = checkEvent)
BY DEF CheckedOutcome, CheckerDone, IgnoreOutcome, IsTerminalOutcome

(* Only the end of its handling takes a start out of the topic. *)
LEMMA StartKeptStep ==
    ASSUME IndInv, CheckedOutcome, StartKept, [Next]_vars
    PROVE  StartKept'
<1>1. SUFFICES ASSUME schedEvent' # 0
               PROVE  StartEvent(schedEvent') \in topic'
    BY DEF StartKept
<1>2. ASSUME NEW n \in 1..MaxStarts, Materialize(n) \/ RepublishRunning(n)
      PROVE  StartEvent(schedEvent') \in topic'
    BY <1>2 DEF Materialize, RepublishRunning, kafkaVars
<1>3. CASE schedEvent' = schedEvent
    <2> DEFINE e == StartEvent(schedEvent)
    <2>1. e \in topic /\ schedEvent # 0 /\ e.type = "run.start_requested"
        BY <1>1, <1>3 DEF StartKept, StartEvent
    <2>2. ~SchedulerDone /\ \A n \in 1..MaxStarts : ~SkipNotRunnable(n)
        BY <1>1, <1>3, <2>1 DEF SchedulerDone, SkipNotRunnable
    <2>3. \A d \in topic : IgnoreOutcome(d) => d # e
        BY <2>1, OutcomeIsNoStart
    <2>4. CheckerDone => checkEvent # e
        BY <2>1, OutcomeIsNoStart
    <2>5. e \in topic'
        BY <2>1, <2>2, <2>3, <2>4, TopicMovesBy
           DEF RelayEvent, RelayCrash, CheckerDone, IgnoreOutcome
    <2> QED
        BY <1>3, <2>5
<1> QED
    BY <1>1, <1>2, <1>3, SchedulerMovesBy DEF SchedulerDone, SchedulerCrash

(* The only steps that take a message from those about to be published.     *)
LEMMA PublishersMoveBy ==
    ASSUME TypeOK, [Next]_vars, NEW w \in Publishers, NEW m \in pub[w], m \notin pub'[w]
    PROVE  \/ Publish(w, m) \/ ResumeBegin \/ ResumeCrash
           \/ SchedulerCrash \/ RetrySchedulerCrash
           \/ \E n \in 1..MaxStarts : Materialize(n) \/ RepublishRunning(n)
<1> USE DEF vars, dbVars, kafkaVars, procVars, histVars
<1>0. pub \in [Publishers -> SUBSET Messages]
    BY DEF TypeOK, ProcTypeOK
<1>1. CASE Operator \/ ApiCommit
    BY <1>1 DEF Operator, ApiCommit, RequestStart, PauseRun, StopBegin, ManualRetry,
                ResumeCommit, StopCommit
<1>2. CASE RelayEvent \/ Scheduler
    BY <1>2 DEF RelayEvent, Scheduler, SkipNotRunnable, SchedulerDone
<1>3. CASE ClaimDue
    <2>1. w # "retry"
        BY <1>3 DEF ClaimDue
    <2> QED
        BY <1>0, <1>3, <2>1 DEF ClaimDue
<1>4. ASSUME NEW v \in Publishers, NEW o \in Messages, Publish(v, o)
      PROVE  Publish(w, m)
    <2>1. pub' = [pub EXCEPT ![v] = @ \ {o}]
        BY <1>4 DEF Publish
    <2>2. v = w /\ o = m
        BY <1>0, <2>1
    <2> QED
        BY <1>4, <2>2
<1>5. CASE Checker
    BY <1>5 DEF Checker, IgnoreOutcome, CountNonePending, CompleteRun, CompleteNothing,
                CheckerDone
<1>6. CASE Failure
    BY <1>6 DEF Failure, RelayCrash, CheckerCrash, DispatchException, DispatcherCrash
<1>7. ASSUME NEW p \in Partitions, Dispatcher(p)
      PROVE  pub' = pub
    BY <1>7 DEF Dispatcher, Poll, RateLimited, Claim, ClaimSkipped, CallKannel,
                RecordOutcome, CommitOffset
<1> QED
    BY <1>1, <1>2, <1>3, <1>4, <1>5, <1>6, <1>7 DEF Next, Publishing

(* A dispatcher gives up the command of a message only with an outcome, or  *)
(* when the message cannot be claimed.                                      *)
LEMMA CommandLives ==
    ASSUME NoStrandingFault, TypeOK, OneFetched, [Next]_vars, runStatus = "RUNNING",
           NEW m \in Messages, msgStatus[m] = "QUEUED", msgStatus'[m] = "QUEUED",
           LiveCommand(m)
    PROVE  LiveCommand(m)'
<1> DEFINE k == PartitionOf[m]
<1>1. k \in Partitions
    BY DispatchAssumption
<1>2. /\ dpc \in [Partitions -> {"poll", "handling", "claimed", "answered", "recorded"}]
      /\ pos \in [Partitions -> Nat] /\ cmds \in [Partitions -> Seq(Messages)]
      /\ pos[k] = IF dpc[k] = "poll" THEN 0 ELSE 1
      /\ msgStatus \in [Messages -> MessageStatuses]
    BY <1>1 DEF TypeOK, ProcTypeOK, KafkaTypeOK, DbTypeOK, OneFetched
<1>3. PICK i \in 1..Len(cmds[k]) : cmds[k][i] = m /\ (dpc[k] = "recorded" => i > pos[k])
    BY DEF LiveCommand
<1>4. CASE cmds'[k] = cmds[k] /\ pos'[k] = pos[k] /\ (dpc'[k] = "recorded" => i > pos[k])
    BY <1>3, <1>4 DEF LiveCommand
<1>5. CASE cmds'[k] = cmds[k] /\ dpc'[k] # "recorded"
    BY <1>3, <1>5 DEF LiveCommand
<1>6. ASSUME NEW w \in Publishers, NEW o \in Messages, Publish(w, o)
      PROVE  LiveCommand(m)'
    <2>1. i \in 1..Len(cmds'[k]) /\ cmds'[k][i] = m /\ pos' = pos /\ dpc' = dpc
        BY <1>1, <1>3, <1>6, PublishAppends
    <2> QED
        BY <1>3, <2>1 DEF LiveCommand
<1>7. ASSUME AdvanceOffset(k), dpc'[k] = "poll", i > pos[k]
      PROVE  LiveCommand(m)'
    <2> DEFINE rest == SubSeq(cmds[k], pos[k] + 1, Len(cmds[k]))
    <2>1. cmds'[k] = rest
        BY <1>1, <1>2, <1>7 DEF AdvanceOffset
    <2>2. cmds[k] \in Seq(Messages) /\ pos[k] \in Nat
        BY <1>1, <1>2
    <2>3. i - pos[k] \in 1..Len(rest) /\ rest[i - pos[k]] = cmds[k][i]
        BY <1>3, <1>7, <2>2, RestKeeps
    <2> HIDE DEF rest
    <2> QED
        BY <1>3, <1>7, <2>1, <2>3 DEF LiveCommand
<1>8. CASE Dispatcher(k)
    <2>1. CASE Poll(k) \/ RateLimited(k) \/ Claim(k) \/ CallKannel(k)
        BY <1>1, <1>2, <1>5, <2>1 DEF Poll, RateLimited, Claim, CallKannel, kafkaVars
    <2>2. CASE RecordOutcome(k)
        <3>1. Current(k) # m
            <4>1. Current(k) \in Messages /\ answer[k] \in Answers /\ attempts[Current(k)] \in Nat
                <5>1. dpc[k] = "answered"
                    BY <2>2 DEF RecordOutcome
                <5> QED
                    BY <1>1, <5>1, CurrentType DEF TypeOK, FetchedOK, ProcTypeOK, DbTypeOK
            <4>2. msgStatus'[Current(k)] \in Outcomes
                BY <1>2, <2>2, <4>1, StatusAfterType DEF RecordOutcome
            <4> QED
                BY <4>2 DEF Outcomes
        <3>2. i > pos[k]
            <4>1. pos[k] = 1
                BY <1>2, <2>2 DEF RecordOutcome
            <4>2. i # 1
                BY <1>3, <3>1, <4>1 DEF Current
            <4> QED
                BY <4>1, <4>2
        <3> QED
            BY <1>4, <2>2, <3>2 DEF RecordOutcome, kafkaVars
    <2>3. CASE ClaimSkipped(k)
        <3>1. Current(k) # m
            BY <2>3 DEF ClaimSkipped, Claimable
        <3>2. i > pos[k]
            BY <1>2, <1>3, <2>3, <3>1 DEF ClaimSkipped, Current
        <3> QED
            BY <1>1, <1>2, <1>7, <2>3, <3>2 DEF ClaimSkipped
    <2>4. CASE CommitOffset(k)
        BY <1>1, <1>2, <1>3, <1>7, <2>4 DEF CommitOffset
    <2> QED
        BY <1>8, <2>1, <2>2, <2>3, <2>4 DEF Dispatcher
<1>9. CASE DispatcherCrash(k)
    BY <1>1, <1>2, <1>5, <1>9 DEF DispatcherCrash
<1>10. ~DispatchException(k)
    BY DEF NoStrandingFault, DispatchException, Fault
<1> QED
    BY <1>1, <1>3, <1>4, <1>6, <1>8, <1>9, <1>10, PartitionMovesBy

(* What waits in a running run stays awaited.                               *)
LEMMA AwaitedStep ==
    ASSUME NoStrandingFault, IndInv, NeverPaused, OneFetched, CheckedOutcome, StartKept,
           Awaited, [Next]_vars
    PROVE  Awaited'
<1>0. /\ TypeOK /\ HeldIsQueued /\ msgStatus \in [Messages -> MessageStatuses]
      /\ pub \in [Publishers -> SUBSET Messages]
    BY DEF IndInv, TypeOK, DbTypeOK, ProcTypeOK
<1>1. SUFFICES ASSUME runStatus' = "RUNNING", NEW m \in Messages, msgStatus'[m] = "QUEUED"
               PROVE  \/ LiveCommand(m)'
                      \/ \E w \in Publishers : m \in pub'[w]
                      \/ schedEvent' = 0 /\ StartPending'
    BY DEF Awaited, Queued
<1>2. ASSUME NEW n \in 1..MaxStarts, Materialize(n)
      PROVE  m \in pub'["scheduler"]
    <2>1. msgStatus[m] = "ABSENT"
        BY <1>2 DEF Materialize, IndInv, ReadyIsBlank
    <2>2. m \in audience
        BY <1>1, <1>2, <2>1 DEF Materialize
    <2> QED
        BY <1>0, <1>2, <2>2 DEF Materialize, Publishers
<1>3. ASSUME NEW n \in 1..MaxStarts, RepublishRunning(n)
      PROVE  m \in pub'["scheduler"]
    BY <1>0, <1>1, <1>3 DEF RepublishRunning, Queued, Publishers, dbVars
<1>4. CASE msgStatus[m] # "QUEUED"
    <2>1. \A o \in Messages : ~ManualRetry(o)
        BY <1>0, <1>1, <1>4 DEF ManualRetry
    <2>2. ~StopCommit
        BY <1>1, <1>4 DEF StopCommit
    <2>3. ASSUME NEW p \in Partitions, RecordOutcome(p)
          PROVE  FALSE
        <3>1. /\ Current(p) \in Messages /\ answer[p] \in Answers
              /\ attempts[Current(p)] \in Nat
            BY <1>0, <2>3, RecordedWasQueued DEF TypeOK, DbTypeOK
        <3>2. msgStatus'[Current(p)] \in Outcomes
            BY <1>0, <2>3, <3>1, StatusAfterType DEF RecordOutcome
        <3>3. Current(p) # m
            BY <1>1, <3>2 DEF Outcomes
        <3>4. \E s : msgStatus' = [msgStatus EXCEPT ![Current(p)] = s]
            BY <2>3 DEF RecordOutcome
        <3> QED
            BY <1>0, <1>1, <1>4, <3>3, <3>4
    <2>4. CASE ClaimDue
        <3>1. PICK S : /\ msgStatus' = [o \in Messages |-> IF o \in S THEN "QUEUED" ELSE msgStatus[o]]
                       /\ pub' = [pub EXCEPT !["retry"] = S]
            BY <2>4 DEF ClaimDue
        <3>2. m \in S
            BY <1>1, <1>4, <3>1
        <3> QED
            BY <1>0, <3>1, <3>2 DEF Publishers
    <2> QED
        BY <1>1, <1>2, <1>4, <2>1, <2>2, <2>3, <2>4, StatusMovesBy DEF Publishers
<1>5. CASE runStatus # "RUNNING"
    BY <1>1, <1>2, <1>5, RunMovesBy
       DEF PauseRun, ResumeCommit, StopCommit, CompleteRun, NeverPaused, Publishers
<1>6. CASE runStatus = "RUNNING" /\ msgStatus[m] = "QUEUED" /\ LiveCommand(m)
    BY <1>0, <1>1, <1>6, CommandLives
<1>7. ASSUME runStatus = "RUNNING", NEW w \in Publishers, m \in pub[w], m \notin pub'[w]
      PROVE  \/ LiveCommand(m)'
             \/ \E v \in Publishers : m \in pub'[v]
             \/ schedEvent' = 0 /\ StartPending'
    <2>1. CASE Publish(w, m)
        <3> DEFINE k == PartitionOf[m]
        <3>1. /\ Len(cmds[k]) \in Nat /\ Len(cmds[k]) + 1 \in 1..Len(cmds'[k])
              /\ cmds'[k][Len(cmds[k]) + 1] = m /\ pos' = pos
            BY <1>0, <2>1, PublishAppends, DispatchAssumption
        <3>2. pos[k] \in Nat /\ pos[k] <= Len(cmds[k])
            BY <1>0, DispatchAssumption DEF TypeOK, KafkaTypeOK, FetchedOK
        <3>3. Len(cmds[k]) + 1 > pos'[k]
            BY <3>1, <3>2
        <3> QED
            BY <3>1, <3>3 DEF LiveCommand
    <2>2. ~ResumeBegin /\ ~ResumeCrash
        BY <1>7 DEF ResumeBegin, ResumeCrash, NeverPaused
    <2>3. CASE SchedulerCrash
        <3>1. schedEvent' = 0 /\ topic' = topic /\ StartEvent(schedEvent) \in topic
            BY <2>3 DEF SchedulerCrash, StartKept, kafkaVars
        <3> QED
            BY <3>1 DEF StartPending, StartEvent
    <2>4. ~RetrySchedulerCrash
        BY DEF NoStrandingFault, RetrySchedulerCrash, Fault
    <2> QED
        BY <1>0, <1>2, <1>3, <1>7, <2>1, <2>2, <2>3, <2>4, PublishersMoveBy DEF Publishers
<1>8. CASE runStatus = "RUNNING" /\ schedEvent = 0 /\ StartPending
    <2>1. PICK e : e.type = "run.start_requested" /\ OnItsWay(e)
        BY <1>8 DEF StartPending, OnItsWay
    <2>2. ~SchedulerDone /\ \A n \in 1..MaxStarts : ~SkipNotRunnable(n)
        BY <1>8 DEF SchedulerDone, SkipNotRunnable
    <2>3. ~IgnoreOutcome(e) /\ ~(CheckerDone /\ e = checkEvent)
        BY <2>1, OutcomeIsNoStart
    <2>4. OnItsWay(e)'
        BY <1>0, <2>1, <2>2, <2>3, EventsStay
    <2>5. StartPending'
        BY <2>1, <2>4 DEF StartPending, OnItsWay
    <2>6. CASE schedEvent' = 0
        BY <2>5, <2>6
    <2>7. CASE schedEvent' # 0
        BY <1>2, <1>3, <1>8, <2>7, SchedulerMovesBy DEF SchedulerDone, SchedulerCrash, Publishers
    <2> QED
        BY <2>6, <2>7
<1> QED
    BY <1>1, <1>4, <1>5, <1>6, <1>7, <1>8 DEF Awaited, Queued

(* No wake-up is lost in a run that is never paused: a QUEUED message has a *)
(* command on its way to a dispatcher, or a publisher or a start that will  *)
(* bring one, wherever scheduler, dispatchers, relay and message-events     *)
(* worker fail (dispatch_service, dispatch_worker, scheduler_worker).       *)
THEOREM NobodyIsStranded ==
    ASSUME NoPause, NoStrandingFault
    PROVE  Spec => []NothingStranded
<1> DEFINE LiveInv == NeverPaused /\ CheckedOutcome /\ OneFetched /\ StartKept /\ Awaited
<1>1. Init => LiveInv
    BY DEF Init, NeverPaused, CheckedOutcome, OneFetched, StartKept, Awaited
<1>2. IndInv /\ LiveInv /\ [Next]_vars => LiveInv'
    <2>1. IndInv => TypeOK
        BY DEF IndInv
    <2> QED
        BY <2>1, NeverPausedStep, CheckedStep, FetchedStep, StartKeptStep, AwaitedStep
<1>3. IndInv /\ LiveInv => NothingStranded
    <2>1. \A m \in Messages : LiveCommand(m) => HasCommand(m)
        BY DEF LiveCommand, HasCommand
    <2> QED
        BY <2>1 DEF Awaited, NothingStranded, Queued
<1> QED
    BY <1>1, <1>2, <1>3, Invariant, PTL DEF Spec

=============================================================================
