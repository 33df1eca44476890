--------------------------- MODULE ImportPipeline ---------------------------
(***************************************************************************)
(* The way of a file of customers, or of numbers not to disturb, into the  *)
(* database: the API takes the upload, the ingestion workers stage it in   *)
(* chunks, an operator approves what the preview shows, and the workers    *)
(* commit the staged rows as a new version of a base or a new DND list.    *)
(*                                                                         *)
(* A transaction is one action, but for that of a commit, whose first      *)
(* statements decide on versions other transactions may add to until it    *)
(* ends.  COMMITTING is overwritten in the transaction that writes it, and *)
(* DETECTED, UPLOADED, STAGED and FAILED are never written: no process     *)
(* reads any of them.  A worker that finds the lock of an import taken     *)
(* seeks back and has changed nothing; it fetches the event again when the *)
(* lock is free.                                                           *)
(***************************************************************************)
EXTENDS Ingest

CONSTANTS
    Imports,      \* uploads and drops of files
    Files,        \* names of contents; file_hash tells two contents apart
    Content,      \* the lines of each
    Targets,      \* base ids and names of DND lists
    Bases,        \* the targets that are rows of campaign.bases
    Partitions,   \* partitions of campaign.import.events
    PartitionOf,  \* where the key of an import hashes to
    Workers,      \* processes of worker-ingestion, of a deployment or two
    FirstOwner,   \* the first assignment of the partitions to them
    Operators,    \* sessions of the API that decide on imports
    FaultSets,    \* the environments: which FaultKinds may go together
    \* Bounds of a run of the checker:
    MaxFaults     \* failures and retries altogether

FaultKinds == {"crash", "exception", "evict", "expiry", "relay", "retry"}
Kinds == {"BASE", "DND"}

ASSUME ImportAssumption ==
    /\ Bases \subseteq Targets
    /\ Files # {} /\ "none" \notin Files
    /\ PartitionOf \in [Imports -> Partitions]
    /\ FirstOwner \in [Partitions -> Workers]
    /\ FaultSets \subseteq SUBSET FaultKinds
    /\ MaxFaults \in Nat
    /\ Workers \cap {"free", "orphan"} = {} /\ Workers # {}

Statuses == {"ABSENT", "IMPORT_CREATED", "VALIDATING", "PREVIEW_READY",
             "APPROVED", "REJECTED", "READY"}
Stageable == {"IMPORT_CREATED", "VALIDATING"}

(* What the loop over the chunks of a file yields. *)
Classified(chunk) == [k \in DOMAIN chunk |-> Classify(chunk[k])]
Resolved == {f \in Files : Resolvable(Content[f])}
ClassifiedChunks ==
    [f \in Resolved |->
        [c \in DOMAIN Chunks(Content[f]) |-> Classified(Chunks(Content[f])[c])]]
Members(k, rows) == IF k = "BASE" THEN BaseMembers(rows) ELSE DndMembers(rows)

VARIABLES
    (* Postgres *)
    status,     \* imports.status
    kind,       \* imports.import_kind
    source,     \* what is at imports.source_path
    summary,    \* total_rows ... zone_distribution, <<>> while NULL
    staged,     \* import_staging_rows of each import
    catalogue,  \* base_versions and dnd_lists with their members, in order of id
    outbox,     \* unpublished rows of campaign.events
    (* the API *)
    upload,     \* an upload that has looked its hash up and not yet inserted
    desk,       \* the decision an operator has opened
    (* Kafka and Redis *)
    topic,      \* per partition, the events from the committed offset on
    owner,      \* the worker a partition is assigned to
    lock,       \* the holder of campaign:lock:import:{id}
    (* worker-ingestion *)
    wpc,        \* where a worker is in handle_event
    event,      \* what it handles
    copied,     \* chunks of the file it has copied
    seen,       \* versions in the snapshot of its open commit
    fenced,     \* workers that have lost the partition of their event
    (* observation and bounds *)
    asked,      \* targets of the commit_requested events of each import
    faultKinds, faults

dbVars == <<status, kind, source, summary, staged, catalogue>>
apiVars == <<upload, desk, asked>>
workVars == <<event, copied, seen, fenced>>
faultVars == <<faultKinds, faults>>
vars == <<dbVars, outbox, apiVars, topic, owner, lock, wpc, workVars, faultVars>>

NoEvent == [type |-> "none"]
StageRequested(i) == [type |-> "stage", import |-> i]
CommitRequested(i, t) == [type |-> "commit", import |-> i, target |-> t]

Init ==
    /\ status = [i \in Imports |-> "ABSENT"]
    /\ kind = [i \in Imports |-> "BASE"]
    /\ source = [i \in Imports |-> CHOOSE f \in Files : TRUE]
    /\ summary = [i \in Imports |-> <<>>]
    /\ staged = [i \in Imports |-> <<>>]
    /\ catalogue = <<>>
    /\ outbox = <<>>
    /\ upload = {}
    /\ desk = [o \in Operators |-> NoEvent]
    /\ topic = [p \in Partitions |-> <<>>]
    /\ owner = FirstOwner
    /\ lock = [i \in Imports |-> "free"]
    /\ wpc = [w \in Workers |-> "idle"]
    /\ event = [w \in Workers |-> NoEvent]
    /\ copied = [w \in Workers |-> 0]
    /\ seen = [w \in Workers |-> 0]
    /\ fenced = {}
    /\ asked = [i \in Imports |-> {}]
    /\ faultKinds \in FaultSets
    /\ faults = 0

Fault(f) ==
    /\ f \in faultKinds
    /\ faults < MaxFaults
    /\ faults' = faults + 1
    /\ UNCHANGED faultKinds

-----------------------------------------------------------------------------
(* The API *)

Existing(f) == {j \in Imports : source[j] = f /\ status[j] # "ABSENT"}

(* The file is on disk and no import has its hash yet. *)
LookUpHash(i, k, f) ==
    /\ status[i] = "ABSENT" /\ i \notin upload
    /\ Existing(f) = {}
    /\ upload' = upload \cup {i}
    /\ kind' = [kind EXCEPT ![i] = k]
    /\ source' = [source EXCEPT ![i] = f]
    /\ UNCHANGED <<status, summary, staged, catalogue, outbox, desk, asked,
                   topic, owner, lock, wpc, workVars, faultVars>>

(* uq_imports_file_hash refuses the slower of two uploads of one file. *)
CreateImport(i) ==
    /\ i \in upload
    /\ upload' = upload \ {i}
    /\ IF Existing(source[i]) = {}
       THEN /\ status' = [status EXCEPT ![i] = "IMPORT_CREATED"]
            /\ outbox' = Append(outbox, StageRequested(i))
       ELSE UNCHANGED <<status, outbox>>
    /\ UNCHANGED <<kind, source, summary, staged, catalogue, desk, asked,
                   topic, owner, lock, wpc, workVars, faultVars>>

(* An UPDATE of the row of an import waits for a commit that has begun. *)
RowFree(i) == \A w \in Workers : ~(wpc[w] = "insert" /\ event[w].import = i)

(* approve_import and reject_import read the status ... *)
OpenDecision(o, i, verdict) ==
    /\ desk[o] = NoEvent
    /\ status[i] = "PREVIEW_READY"
    /\ desk' = [desk EXCEPT ![o] = [type |-> verdict, import |-> i]]
    /\ UNCHANGED <<dbVars, outbox, upload, asked,
                   topic, owner, lock, wpc, workVars, faultVars>>

(* ... and write it later, whatever it is by then. *)
Approve(o, t) ==
    LET i == desk[o].import
    IN  /\ desk[o].type = "approve"
        /\ kind[i] = "BASE" => t \in Bases
        /\ RowFree(i)
        /\ status' = [status EXCEPT ![i] = "APPROVED"]
        /\ outbox' = Append(outbox, CommitRequested(i, t))
        /\ asked' = [asked EXCEPT ![i] = @ \cup {t}]
        /\ desk' = [desk EXCEPT ![o] = NoEvent]
        /\ UNCHANGED <<kind, source, summary, staged, catalogue, upload,
                       topic, owner, lock, wpc, workVars, faultVars>>

Reject(o) ==
    /\ desk[o].type = "reject" /\ RowFree(desk[o].import)
    /\ status' = [status EXCEPT ![desk[o].import] = "REJECTED"]
    /\ desk' = [desk EXCEPT ![o] = NoEvent]
    /\ UNCHANGED <<kind, source, summary, staged, catalogue, outbox, upload, asked,
                   topic, owner, lock, wpc, workVars, faultVars>>

RetryStaging(i) ==
    /\ Fault("retry")
    /\ status[i] \in Stageable
    /\ outbox' = Append(outbox, StageRequested(i))
    /\ UNCHANGED <<dbVars, upload, desk, asked,
                   topic, owner, lock, wpc, workVars>>

(* The target is given anew and is not looked up. *)
RetryCommit(i, t) ==
    /\ Fault("retry")
    /\ status[i] = "APPROVED"
    /\ outbox' = Append(outbox, CommitRequested(i, t))
    /\ asked' = [asked EXCEPT ![i] = @ \cup {t}]
    /\ UNCHANGED <<dbVars, upload, desk, topic, owner, lock, wpc, workVars>>

Api ==
    \/ \E i \in Imports :
        \/ \E k \in Kinds, f \in Files : LookUpHash(i, k, f)
        \/ CreateImport(i)
        \/ RetryStaging(i)
        \/ \E t \in Targets : RetryCommit(i, t)
    \/ \E o \in Operators :
        \/ \E i \in Imports, verdict \in {"approve", "reject"} : OpenDecision(o, i, verdict)
        \/ \E t \in Targets : Approve(o, t)
        \/ Reject(o)

(* The relay; one that dies before it commits publishes the event again. *)
Publish ==
    /\ outbox # <<>>
    /\ LET p == PartitionOf[Head(outbox).import]
       IN  topic' = [topic EXCEPT ![p] = Append(@, Head(outbox))]
    /\ \/ outbox' = Tail(outbox) /\ UNCHANGED faultVars
       \/ Fault("relay") /\ UNCHANGED outbox
    /\ UNCHANGED <<dbVars, apiVars, owner, lock, wpc, workVars>>

-----------------------------------------------------------------------------
(* worker-ingestion *)

Import(w) == event[w].import
Goto(w, label) == wpc' = [wpc EXCEPT ![w] = label]

(* poll, and SET NX of the lock of the import *)
Fetch(w, p) ==
    /\ wpc[w] = "idle" /\ owner[p] = w /\ topic[p] # <<>>
    /\ LET i == Head(topic[p]).import
       IN  /\ lock[i] = "free"
           /\ lock' = [lock EXCEPT ![i] = w]
    /\ event' = [event EXCEPT ![w] = Head(topic[p])]
    /\ Goto(w, "check")
    /\ UNCHANGED <<dbVars, outbox, apiVars, topic, owner, copied, seen, fenced, faultVars>>

(* A variant that takes a file being staged for somebody else's. *)
ExpectedNew(e) == IF e.type = "stage" THEN {"IMPORT_CREATED"} ELSE {"APPROVED"}

(* _should_process *)
Expected(e) == IF e.type = "stage" THEN Stageable ELSE {"APPROVED"}
Check(w) ==
    /\ wpc[w] = "check"
    /\ Goto(w, IF status[Import(w)] \notin Expected(event[w]) THEN "release"
               ELSE IF event[w].type = "stage" THEN "claim" ELSE "commit")
    /\ UNCHANGED <<dbVars, outbox, apiVars, topic, owner, lock, workVars, faultVars>>

(* A variant with a status of the schema that nothing expects. *)
ClaimAsStaged(w) ==
    /\ wpc[w] = "claim" /\ status[Import(w)] \in Stageable
    /\ status' = [status EXCEPT ![Import(w)] = "STAGED"] /\ Goto(w, "clear")
    /\ UNCHANGED <<kind, source, summary, staged, catalogue, outbox, apiVars, topic, owner,
                   lock, workVars, faultVars>>

Claim(w) ==
    /\ wpc[w] = "claim" /\ RowFree(Import(w))
    /\ IF status[Import(w)] \in Stageable
       THEN status' = [status EXCEPT ![Import(w)] = "VALIDATING"] /\ Goto(w, "clear")
       ELSE Goto(w, "release") /\ UNCHANGED status
    /\ UNCHANGED <<kind, source, summary, staged, catalogue, outbox, apiVars, topic, owner, lock,
                   workVars, faultVars>>

(* A variant that appends to what was copied before. *)
ClearNothing(w) ==
    /\ wpc[w] = "clear" /\ Goto(w, "copy")
    /\ UNCHANGED <<dbVars, outbox, apiVars, topic, owner, lock, workVars, faultVars>>

(* What an interrupted attempt has copied is thrown away. *)
Clear(w) ==
    /\ wpc[w] = "clear"
    /\ staged' = [staged EXCEPT ![Import(w)] = <<>>]
    /\ copied' = [copied EXCEPT ![w] = 0]
    /\ Goto(w, "copy")
    /\ UNCHANGED <<status, kind, source, summary, catalogue, outbox, apiVars, topic, owner, lock,
                   event, seen, fenced, faultVars>>

ChunksOf(w) == ClassifiedChunks[source[Import(w)]]

CopyChunk(w) ==
    /\ wpc[w] = "copy" /\ source[Import(w)] \in Resolved
    /\ copied[w] < Len(ChunksOf(w))
    /\ copied' = [copied EXCEPT ![w] = @ + 1]
    /\ staged' = [staged EXCEPT ![Import(w)] = @ \o ChunksOf(w)[copied[w] + 1]]
    /\ UNCHANGED <<status, kind, source, summary, catalogue, outbox, apiVars, topic, owner, lock,
                   wpc, event, seen, fenced, faultVars>>

MarkDuplicateRows(w) ==
    /\ wpc[w] = "copy" /\ source[Import(w)] \in Resolved
    /\ copied[w] = Len(ChunksOf(w))
    /\ staged' = [staged EXCEPT ![Import(w)] = MarkDuplicates(@)]
    /\ Goto(w, "summarize")
    /\ UNCHANGED <<status, kind, source, summary, catalogue, outbox, apiVars, topic, owner, lock,
                   workVars, faultVars>>

(* The status is written whatever it was. *)
Summarize(w) ==
    /\ wpc[w] = "summarize" /\ RowFree(Import(w))
    /\ summary' = [summary EXCEPT ![Import(w)] = Summary(staged[Import(w)])]
    /\ status' = [status EXCEPT ![Import(w)] = "PREVIEW_READY"]
    /\ Goto(w, "release")
    /\ UNCHANGED <<kind, source, staged, catalogue, outbox, apiVars, topic, owner, lock,
                   workVars, faultVars>>

(* UPDATE base_versions, or SELECT MAX(version): the statement sees the    *)
(* versions committed by now.                                              *)
OpenCommit(w) ==
    /\ wpc[w] = "commit" /\ RowFree(Import(w))
    /\ kind[Import(w)] = "BASE" => event[w].target \in Bases
    /\ seen' = [seen EXCEPT ![w] = Len(catalogue)]
    /\ Goto(w, "insert")
    /\ UNCHANGED <<dbVars, outbox, apiVars, topic, owner, lock, event, copied, fenced,
                   faultVars>>

VersionsOf(w) ==
    {n \in DOMAIN catalogue : /\ catalogue[n].kind = kind[Import(w)]
                              /\ catalogue[n].target = event[w].target}
Unseen(w) == {n \in VersionsOf(w) : n > seen[w]}

(* A variant without the unique indexes. *)
Unchecked(w) == FALSE

(* Another transaction has added a current version, or a list of the same  *)
(* number, since: uq_base_versions_current_per_base, UNIQUE (name, version).*)
Conflict(w) == \E n \in Unseen(w) : catalogue[n].current

Retired(w) ==
    [n \in DOMAIN catalogue |->
        IF kind[Import(w)] = "BASE" /\ n \in VersionsOf(w) \ Unseen(w)
        THEN [catalogue[n] EXCEPT !.current = FALSE]
        ELSE catalogue[n]]

InsertVersion(w) ==
    LET i == Import(w)
    IN  /\ wpc[w] = "insert" /\ ~Conflict(w)
        /\ kind[i] = "BASE" => AllCastable(staged[i])
        /\ catalogue' = Append(Retired(w),
                [kind |-> kind[i], target |-> event[w].target, source |-> i,
                 current |-> TRUE, members |-> Members(kind[i], staged[i])])
        /\ status' = [status EXCEPT ![i] = "READY"]
        /\ Goto(w, "release")
        /\ UNCHANGED <<kind, source, summary, staged, outbox, apiVars, topic, owner, lock,
                       workVars, faultVars>>

(* The script deletes the lock if it still is the worker's. *)
Unlocked(w) == [lock EXCEPT ![Import(w)] = IF @ = w THEN "free" ELSE @]

Release(w) ==
    /\ wpc[w] = "release"
    /\ lock' = Unlocked(w)
    /\ Goto(w, "ack")
    /\ UNCHANGED <<dbVars, outbox, apiVars, topic, owner, workVars, faultVars>>

Stop(w) ==
    /\ Goto(w, "idle")
    /\ event' = [event EXCEPT ![w] = NoEvent]
    /\ copied' = [copied EXCEPT ![w] = 0]
    /\ seen' = [seen EXCEPT ![w] = 0]
    /\ fenced' = fenced \ {w}

(* consumer.commit; the coordinator refuses it of a member that has lost   *)
(* the partition.                                                          *)
Ack(w) ==
    /\ wpc[w] = "ack"
    /\ LET p == PartitionOf[Import(w)]
       IN  topic' = IF w \in fenced THEN topic ELSE [topic EXCEPT ![p] = Tail(@)]
    /\ Stop(w)
    /\ UNCHANGED <<dbVars, outbox, apiVars, owner, lock, faultVars>>

(* The exceptions the code's own conditions raise. *)
Raises(w) ==
    \/ wpc[w] = "copy" /\ source[Import(w)] \notin Resolved
    \/ wpc[w] = "commit" /\ kind[Import(w)] = "BASE" /\ event[w].target \notin Bases
    \/ wpc[w] = "insert" /\ Conflict(w)
    \/ /\ wpc[w] = "insert" /\ kind[Import(w)] = "BASE"
       /\ ~AllCastable(staged[Import(w)])

(* except Exception: rollback and seek back to the event *)
SeekBack(w) ==
    /\ wpc[w] # "idle"
    /\ \/ Raises(w) /\ UNCHANGED faultVars
       \/ Fault("exception")
    /\ lock' = Unlocked(w)
    /\ Stop(w)
    /\ UNCHANGED <<dbVars, outbox, apiVars, topic, owner>>

Worker(w) ==
    \/ \E p \in Partitions : Fetch(w, p)
    \/ Check(w) \/ Claim(w) \/ Clear(w) \/ CopyChunk(w) \/ MarkDuplicateRows(w)
    \/ Summarize(w) \/ OpenCommit(w) \/ InsertVersion(w) \/ Release(w) \/ Ack(w)
    \/ SeekBack(w)

-----------------------------------------------------------------------------
(* What may go wrong *)

(* The container is killed: its transaction is rolled back, its lock stays. *)
Crash(w) ==
    /\ wpc[w] # "idle"
    /\ Fault("crash")
    /\ lock' = [i \in Imports |-> IF lock[i] = w THEN "orphan" ELSE lock[i]]
    /\ Stop(w)
    /\ UNCHANGED <<dbVars, outbox, apiVars, topic, owner>>

(* The TTL of a lock nobody will release *)
OrphanExpires(i) ==
    /\ lock[i] = "orphan"
    /\ lock' = [lock EXCEPT ![i] = "free"]
    /\ UNCHANGED <<dbVars, outbox, apiVars, topic, owner, wpc, workVars, faultVars>>

(* The TTL of a lock whose holder is still at work *)
LockExpires(i) ==
    /\ lock[i] \in Workers
    /\ Fault("expiry")
    /\ lock' = [lock EXCEPT ![i] = "free"]
    /\ UNCHANGED <<dbVars, outbox, apiVars, topic, owner, wpc, workVars>>

(* A rebalance: a worker joins, or one has not polled for max.poll.interval.ms. *)
Rebalance(p, w) ==
    /\ owner[p] # w
    /\ Fault("evict")
    /\ owner' = [owner EXCEPT ![p] = w]
    /\ fenced' = fenced \cup
            {v \in Workers : wpc[v] # "idle" /\ PartitionOf[Import(v)] = p}
    /\ UNCHANGED <<dbVars, outbox, apiVars, topic, lock, wpc, event, copied, seen>>

Environment ==
    \/ \E w \in Workers : Crash(w)
    \/ \E i \in Imports : OrphanExpires(i) \/ LockExpires(i)
    \/ \E p \in Partitions, w \in Workers : Rebalance(p, w)

Next == Api \/ Publish \/ (\E w \in Workers : Worker(w)) \/ Environment

Spec == Init /\ [][Next]_vars

(* As long as there is something the relay or a worker can do, or a lock   *)
(* left by a dead worker to run out, some of it is done; nobody has to     *)
(* upload or decide.                                                       *)
Processing ==
    \/ Publish
    \/ \E w \in Workers : Worker(w)
    \/ \E i \in Imports : OrphanExpires(i)

FairSpec == Spec /\ WF_vars(Processing)

-----------------------------------------------------------------------------
(* Properties *)

TypeOK ==
    /\ status \in [Imports -> Statuses]
    /\ kind \in [Imports -> Kinds] /\ source \in [Imports -> Files]
    /\ \A w \in Workers : wpc[w] # "idle" => event[w] # NoEvent
    /\ lock \in [Imports -> Workers \cup {"free", "orphan"}]
    /\ owner \in [Partitions -> Workers]
    /\ upload \subseteq Imports /\ fenced \subseteq Workers
    /\ \A w \in Workers : copied[w] \in Nat /\ seen[w] \in 0..Len(catalogue)
    /\ faults \in 0..MaxFaults

(* Staging a file in one go, as the preview and the commit are to show it. *)
WholeFile ==
    [f \in Resolved |-> MarkDuplicates(Classified(Rows(Content[f])))]
Report == [f \in Resolved |-> Summary(WholeFile[f])]
Yield == [k \in Kinds |-> [f \in Resolved |-> Members(k, WholeFile[f])]]

Phase(s) ==
    CASE s = "ABSENT" -> "absent" [] s \in Stageable -> "received"
      [] s = "PREVIEW_READY" -> "shown" [] s = "APPROVED" -> "approved"
      [] s = "REJECTED" -> "rejected" [] s = "READY" -> "live"

Contract == INSTANCE ImportContract WITH
    phase <- [i \in Imports |-> Phase(status[i])],
    kind <- [i \in Imports |-> IF status[i] = "ABSENT" THEN "none" ELSE kind[i]],
    content <- [i \in Imports |-> IF status[i] = "ABSENT" THEN "none" ELSE source[i]],
    report <- summary

(* However workers are killed, evicted, or retried, every step is one the  *)
(* contract allows: the preview shows the whole file, only an approval     *)
(* leads to a commit, a commit happens once and makes a version of exactly *)
(* the rows that were shown (stage_import, commit_import, the API).        *)
ImplementsContract == Contract!Spec

(* A base never has two current versions, and never loses its current one: *)
(* whoever commits when, the one committed last is current (_commit_base   *)
(* with uq_base_versions_current_per_base).                                *)
LastCommitIsCurrent ==
    \A n \in DOMAIN catalogue :
        catalogue[n].kind = "BASE" =>
            (catalogue[n].current <=>
                \A m \in DOMAIN catalogue :
                    catalogue[m].kind = "BASE" /\ catalogue[m].target = catalogue[n].target
                    => m <= n)

(* Every import is staged in the end, and every approved one committed,    *)
(* however often workers are cut off, unless its file or its target makes  *)
(* the worker raise an exception each time.                                *)
Readable == {f \in Resolved : AllCastable(WholeFile[f])}
Waiting(i) == status[i] \in Stageable \cup {"APPROVED"}
EveryImportGetsOn ==
    \A i \in Imports : (Waiting(i) /\ source[i] \in Readable) ~> ~Waiting(i)
=============================================================================
