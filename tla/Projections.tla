---------------------------- MODULE Projections ----------------------------
(***************************************************************************)
(* The tables derived from other tables, and the statements that derive    *)
(* them: the subscription state of the customers, synchronized from the    *)
(* table of subscribers; the eligibility preview; and the rollup of a run, *)
(* which a worker computes when the run completes and a dashboard computes *)
(* whenever somebody looks.  Each takes several statements, and under READ *)
(* COMMITTED every statement sees what is committed when it begins.        *)
(***************************************************************************)
EXTENDS Integers, FiniteSets, FiniteSetsExt

CONSTANTS
    Customers, Products,
    Lists,        \* DND lists that an import may commit
    Zones, Unspecified,
    Home,         \* base_members.territory of the version that is previewed
    Callers,      \* requests the API serves at the same time
    Workers,      \* analytics workers
    Messages,     \* campaign.messages of the run
    None,
    Scenarios     \* of a run of the checker: what the tables hold at first, and
                  \* how often each thing may happen

ASSUME ProjectionsAssumption ==
    /\ Home \in [Customers -> Zones \cup {Unspecified}]
    /\ Unspecified \notin Zones
    /\ IsFiniteSet(Customers)
    /\ None \notin Lists \cup {"subscribed"}
    /\ Callers \cap Workers = {}
    /\ \A s \in Scenarios :
           /\ s.source \subseteq Customers /\ s.cooling \subseteq Customers
           /\ s.subscribed \in [Products -> [Customers -> {"none", "yes", "no"}]]
           /\ s.budget \in [sync : Nat, subscriber : Nat, preview : Nat, list : Nat,
                            cooldown : Nat, refresh : Nat, run : Nat, fault : Nat]

VARIABLES
    source,      \* subscription.subscribers
    catalog,     \* customer_products
    subscribed,  \* customer_subscription_state: is_subscribed of each row
    dnd,         \* dnd_records that are active, by list
    cooling,     \* customers whose cooldown_until is still ahead
    run,         \* campaign_runs: its status, and whether a check of its
                 \* completion has counted nothing pending
    messages,    \* their status; HELD while a dispatcher's claim is not committed
    rollup,      \* analytics_rollups: what was counted, and when
    topic,       \* run.completed: how many published, how many committed
    job,         \* what each request and each worker is at
    had,         \* the statuses its messages have had since the run completed
    late,        \* a view of the unfinished run was stored after it completed
    budget

actors == Callers \cup Workers
dbVars == <<source, catalog, subscribed, dnd, cooling>>
runVars == <<run, messages, rollup, topic, had, late>>
vars == <<dbVars, runVars, job, budget>>

Idle == [kind |-> "idle"]

(* Any subscription state may be left from earlier syncs, and any cooldown *)
(* from before: nothing in the repository writes cooldown_state.           *)
Init ==
    /\ \E s \in Scenarios :
          /\ source = s.source
          /\ subscribed = s.subscribed
          /\ cooling = s.cooling
          /\ budget = s.budget
    /\ catalog = {p \in Products : \E c \in Customers : subscribed[p][c] # "none"}
    /\ dnd = {}
    /\ run = [status |-> "RUNNING", checked |-> FALSE]
    /\ messages = [m \in Messages |-> "PENDING"]
    /\ rollup = None
    /\ topic = [published |-> 0, committed |-> 0]
    /\ job = [a \in actors |-> Idle]
    /\ had = {} /\ late = FALSE

Spend(thing) ==
    /\ budget[thing] > 0
    /\ budget' = [budget EXCEPT ![thing] = @ - 1]

At(a, kind, step) == job[a].kind = kind /\ job[a].step = step

-----------------------------------------------------------------------------
(* What a preview has begun to count is no longer what is there. *)
Moved(jobs) ==
    [a \in actors |-> IF jobs[a].kind = "preview" THEN [jobs[a] EXCEPT !.still = FALSE]
                                                  ELSE jobs[a]]

(* Customers subscribe and leave in the database of the product. *)
SubscriberChanges(c) ==
    /\ Spend("subscriber")
    /\ source' = IF c \in source THEN source \ {c} ELSE source \cup {c}
    /\ job' = [a \in actors |->
                 IF job[a].kind = "sync"
                 THEN [job[a] EXCEPT !.was[c] = @ \cup {(c \in source')}]
                 ELSE job[a]]
    /\ UNCHANGED <<catalog, subscribed, dnd, cooling, runVars>>

(* An import commits a DND list (commit_dnd_rows). *)
CommitList(l, members) ==
    /\ Spend("list")
    /\ \A r \in dnd : r[1] # l
    /\ dnd' = dnd \cup {<<l, c>> : c \in members}
    /\ job' = Moved(job)
    /\ UNCHANGED <<source, catalog, subscribed, cooling, runVars>>

CooldownEnds(c) ==
    /\ Spend("cooldown")
    /\ c \in cooling
    /\ cooling' = cooling \ {c}
    /\ job' = Moved(job)
    /\ UNCHANGED <<source, catalog, subscribed, dnd, runVars>>

-----------------------------------------------------------------------------
(* POST /subscriptions/sync.  A row a sync has written and not committed   *)
(* holds its lock; draft is what the sync has written.                     *)
Alike(p) == {a \in Callers : job[a].kind = "sync" /\ job[a].step # "audit" /\ job[a].product = p}
Untouched == [c \in Customers |-> "none"]

StartSync(a, p) ==
    /\ Spend("sync")
    /\ job[a] = Idle
    /\ catalog' = catalog \cup {p}
    /\ job' = [b \in actors |->
                 IF b = a
                 THEN [kind |-> "sync", step |-> "read", product |-> p, seen |-> {},
                       draft |-> Untouched, was |-> [c \in Customers |-> {(c \in source)}],
                       alone |-> Alike(p) = {}]
                 ELSE IF b \in Alike(p) THEN [job[b] EXCEPT !.alone = FALSE] ELSE job[b]]
    /\ UNCHANGED <<source, subscribed, dnd, cooling, runVars>>

Free(a, rows) ==
    \A b \in Alike(job[a].product) \ {a} : \A c \in rows : job[b].draft[c] = "none"

(* The row as this transaction sees it. *)
Row(j, c) == IF j.draft[c] = "none" THEN subscribed[j.product][c] ELSE j.draft[c]

(* The INSERT ... SELECT takes its snapshot, and waits for the rows another *)
(* sync holds.                                                              *)
ReadSubscribers(a) ==
    /\ At(a, "sync", "read")
    /\ job' = [job EXCEPT ![a].step = "upsert", ![a].seen = source]
    /\ UNCHANGED <<dbVars, runVars, budget>>

(* As if the conflict were left alone: ON CONFLICT DO NOTHING. *)
UpsertedOnce(j) ==
    [c \in Customers |-> IF c \in j.seen /\ Row(j, c) = "none" THEN "yes" ELSE j.draft[c]]

Upserted(j) == [c \in Customers |-> IF c \in j.seen THEN "yes" ELSE j.draft[c]]

Upsert(a) ==
    /\ At(a, "sync", "upsert")
    /\ Free(a, job[a].seen)
    /\ job' = [job EXCEPT ![a].step = "compare", ![a].draft = Upserted(job[a])]
    /\ UNCHANGED <<dbVars, runVars, budget>>

(* The UPDATE finds its rows in a snapshot of its own; a row that changes   *)
(* while it waits is looked at again, the table of subscribers is not.      *)
Compare(a) ==
    /\ At(a, "sync", "compare")
    /\ job' = [job EXCEPT ![a].step = "flip",
                 ![a].seen = {c \in Customers \ source : Row(job[a], c) = "yes"}]
    /\ UNCHANGED <<dbVars, runVars, budget>>

Flip(a) ==
    /\ At(a, "sync", "flip")
    /\ Free(a, job[a].seen)
    /\ job' = [job EXCEPT ![a].step = "commit",
                 ![a].draft = [c \in Customers |->
                     IF c \in job[a].seen /\ Row(job[a], c) = "yes" THEN "no" ELSE @[c]]]
    /\ UNCHANGED <<dbVars, runVars, budget>>

CommitSync(a) ==
    /\ At(a, "sync", "commit")
    /\ subscribed' = [subscribed EXCEPT ![job[a].product] =
                        [c \in Customers |-> Row(job[a], c)]]
    /\ job' = Moved([job EXCEPT ![a].step = "audit"])
    /\ UNCHANGED <<source, catalog, dnd, cooling, runVars, budget>>

(* The audit entry has a transaction of its own. *)
AuditSync(a) ==
    /\ At(a, "sync", "audit")
    /\ job' = [job EXCEPT ![a] = Idle]
    /\ UNCHANGED <<dbVars, runVars, budget>>

(* A request dies, or is the victim of a deadlock of two syncs. *)
AbandonSync(a) ==
    /\ job[a].kind = "sync"
    /\ job' = [job EXCEPT ![a] = Idle]
    /\ UNCHANGED <<dbVars, runVars, budget>>

-----------------------------------------------------------------------------
(* POST /audience/preview.  A LEFT JOIN makes a row of every match, and one *)
(* of a member without a match.                                             *)
OrNull(matches) == IF matches = {} THEN {None} ELSE matches

DndMatches(c) == {l \in Lists : <<l, c>> \in dnd}

(* As if each product joined by itself: without DISTINCT. *)
SubscriptionOfEach(c, excluded) == {p \in excluded : subscribed[p][c] = "yes"}

Subscription(c, excluded) ==
    IF \E p \in excluded : subscribed[p][c] = "yes" THEN {"subscribed"} ELSE {}

Joined(excluded) ==
    UNION {[customer : {c}, list : OrNull(DndMatches(c)),
            product : OrNull(Subscription(c, excluded)), cooling : {(c \in cooling)}] :
               c \in Customers}

Left(excluded) ==
    {r \in Joined(excluded) : r.list = None /\ r.product = None /\ ~r.cooling}

CountTotals(excluded) ==
    LET rows == Joined(excluded)
        callable == {r \in rows : r.list = None}
    IN [candidates |-> Cardinality(rows),
        dnd |-> Cardinality(rows \ callable),
        subscriber |-> Cardinality({r \in callable : r.product # None}),
        cooldown |-> Cardinality({r \in callable : r.product = None /\ r.cooling}),
        eligible |-> Cardinality(Left(excluded))]

CountZones(excluded) ==
    [z \in {Home[r.customer] : r \in Left(excluded)} |->
        Cardinality({r \in Left(excluded) : Home[r.customer] = z})]

StartPreview(a, excluded) ==
    /\ Spend("preview")
    /\ job[a] = Idle
    /\ job' = [job EXCEPT ![a] =
                 [kind |-> "preview", step |-> "zones", excluded |-> excluded,
                  totals |-> CountTotals(excluded), zones |-> <<>>, still |-> TRUE]]
    /\ UNCHANGED <<dbVars, runVars>>

PreviewZones(a) ==
    /\ At(a, "preview", "zones")
    /\ job' = [job EXCEPT ![a].step = "shown", ![a].zones = CountZones(job[a].excluded)]
    /\ UNCHANGED <<dbVars, runVars, budget>>

EndPreview(a) ==
    /\ At(a, "preview", "shown")
    /\ job' = [job EXCEPT ![a] = Idle]
    /\ UNCHANGED <<dbVars, runVars, budget>>

(* Whom rotate_zone would number in a zone at this moment. *)
Eligible(z, excluded) ==
    {c \in Customers :
        /\ Home[c] = z
        /\ \A l \in Lists : <<l, c>> \notin dnd
        /\ \A p \in excluded : subscribed[p][c] # "yes"
        /\ c \notin cooling}

-----------------------------------------------------------------------------
(* The run, as far as its metrics go.  PENDING stands for the statuses of   *)
(* NON_TERMINAL_MESSAGE_STATUSES that others see, HELD for what an open     *)
(* transaction of a dispatcher has made of one of them, and DEAD for        *)
(* FAILED_UNCONFIRMED too.                                                  *)
Shown(ms) == [m \in Messages |-> IF ms[m] = "HELD" THEN "PENDING" ELSE ms[m]]

Becomes(m, status) ==
    /\ messages' = [messages EXCEPT ![m] = status]
    /\ had' = IF run.status = "COMPLETED" THEN had \cup {Shown(messages')} ELSE had

(* process_dispatch_message up to the call of Kannel, and from there on: an *)
(* outcome, a transient failure, or a crash.                                *)
Claim(m) ==
    /\ Spend("run")
    /\ messages[m] = "PENDING" /\ run.status = "RUNNING"
    /\ Becomes(m, "HELD")
    /\ UNCHANGED <<dbVars, run, rollup, topic, late, job>>

Settle(m) ==
    /\ messages[m] = "HELD"
    /\ \E outcome \in {"SENT", "DEAD", "PENDING"} : Becomes(m, outcome)
    /\ UNCHANGED <<dbVars, run, rollup, topic, late, job, budget>>

(* POST /messages/{message_id}/retry does not ask what became of the run.   *)
RetryMessage(m) ==
    /\ Spend("run")
    /\ messages[m] = "DEAD"
    /\ Becomes(m, "PENDING")
    /\ UNCHANGED <<dbVars, run, rollup, topic, late, job>>

(* check_and_complete_run counts, and updates in another statement: it      *)
(* publishes run.completed if the run is RUNNING by then.  A check of a run *)
(* that is not RUNNING any more comes to nothing and is left out.           *)
CountPending ==
    /\ run.status = "RUNNING"
    /\ \A m \in Messages : messages[m] \notin {"PENDING", "HELD"}
    /\ run' = [run EXCEPT !.checked = TRUE]
    /\ UNCHANGED <<dbVars, messages, rollup, topic, had, late, job, budget>>

Complete ==
    /\ run.checked
    /\ IF run.status = "RUNNING"
       THEN /\ run' = [status |-> "COMPLETED", checked |-> FALSE]
            /\ topic' = [topic EXCEPT !.published = @ + 1]
            /\ had' = {Shown(messages)}
       ELSE /\ run' = [run EXCEPT !.checked = FALSE]
            /\ UNCHANGED <<topic, had>>
    /\ UNCHANGED <<dbVars, messages, rollup, late, job, budget>>

(* It waits for the rows dispatchers hold; it publishes nothing.            *)
StopRun ==
    /\ Spend("run")
    /\ run.status = "RUNNING"
    /\ \A m \in Messages : messages[m] # "HELD"
    /\ run' = [run EXCEPT !.status = "CANCELLED"]
    /\ messages' = [m \in Messages |->
                      IF messages[m] = "PENDING" THEN "CANCELLED" ELSE messages[m]]
    /\ UNCHANGED <<dbVars, rollup, topic, had, late, job>>

(* GET /analytics/runs/{run_id}: what is cached answers for a run that is   *)
(* not RUNNING, unless a refresh is asked for.  The row that was looked up  *)
(* stays in the session.                                                    *)
Rollup(step, found, message) ==
    [kind |-> "rollup", step |-> step, found |-> found, message |-> message,
     status |-> None, counts |-> None, window |-> None]

StartRefresh(a, refresh) ==
    /\ Spend("refresh")
    /\ job[a] = Idle
    /\ rollup = None \/ refresh \/ run.status = "RUNNING"
    /\ job' = [job EXCEPT ![a] = Rollup("run", rollup, 0)]
    /\ UNCHANGED <<dbVars, runVars>>

(* The worker takes the first message not committed; the partition has one  *)
(* owner, but one who has lost it may not have noticed.                     *)
TakeMessage(w) ==
    /\ job[w] = Idle
    /\ topic.committed < topic.published
    /\ \/ \A v \in Workers : job[v] = Idle /\ UNCHANGED budget
       \/ Spend("fault")
    /\ job' = [job EXCEPT ![w] = Rollup("run", None, topic.committed + 1)]
    /\ UNCHANGED <<dbVars, runVars>>

(* compute_core_metrics and compute_and_store_rollup, statement by         *)
(* statement: the run, its messages by status (by zone, channel and        *)
(* demographics they are counted alike, a moment later), the run again for *)
(* the window of the engagement, the rollup there is.                      *)
ReadRun(a) ==
    /\ At(a, "rollup", "run")
    /\ job' = [job EXCEPT ![a].step = "messages", ![a].status = run.status]
    /\ UNCHANGED <<dbVars, runVars, budget>>

CountMessages(a) ==
    /\ At(a, "rollup", "messages")
    /\ job' = [job EXCEPT ![a].step = "window", ![a].counts = Shown(messages)]
    /\ UNCHANGED <<dbVars, runVars, budget>>

ReadWindow(a) ==
    /\ At(a, "rollup", "window")
    /\ job' = [job EXCEPT ![a].step = "load", ![a].window = run.status]
    /\ UNCHANGED <<dbVars, runVars, budget>>

LoadRollup(a) ==
    /\ At(a, "rollup", "load")
    /\ job' = [job EXCEPT ![a].step = "store",
                          ![a].found = IF @ = None THEN rollup ELSE @]
    /\ UNCHANGED <<dbVars, runVars, budget>>

Computed(j) ==
    [core |-> [status |-> j.status, counts |-> j.counts], window |-> j.window]

(* An INSERT where there was no row; otherwise an UPDATE of the columns     *)
(* that are not as they were found.                                         *)
Stored(j) ==
    LET new == Computed(j)
    IN IF j.found = None THEN new
       ELSE [core |-> IF new.core = j.found.core THEN rollup.core ELSE new.core,
             window |-> IF new.window = j.found.window THEN rollup.window ELSE new.window]

Conflict(j) == j.found = None /\ rollup # None

StoreRollup(a) ==
    /\ At(a, "rollup", "store")
    /\ ~Conflict(job[a])
    /\ rollup' = Stored(job[a])
    /\ late' = (late \/ (run.status = "COMPLETED" /\ "RUNNING" \in {job[a].status, job[a].window}))
    /\ job' = [job EXCEPT ![a] = IF a \in Workers THEN [@ EXCEPT !.step = "ack"] ELSE Idle]
    /\ UNCHANGED <<dbVars, run, messages, topic, had, budget>>

CommitMessage(w) ==
    topic' = [topic EXCEPT !.committed = IF job[w].message > @ THEN job[w].message ELSE @]

(* As if a message that could not be handled were committed all the same. *)
GiveUpCommitted(a) ==
    /\ job' = [job EXCEPT ![a] = Idle]
    /\ IF a \in Workers THEN CommitMessage(a) ELSE UNCHANGED topic

(* The request fails; the worker rolls back and seeks to the same message. *)
GiveUp(a) ==
    /\ job' = [job EXCEPT ![a] = Idle]
    /\ UNCHANGED topic

RollupExists(a) ==
    /\ At(a, "rollup", "store")
    /\ Conflict(job[a])
    /\ GiveUp(a)
    /\ UNCHANGED <<dbVars, run, messages, rollup, had, late, budget>>

AckMessage(w) ==
    /\ At(w, "rollup", "ack")
    /\ CommitMessage(w)
    /\ job' = [job EXCEPT ![w] = Idle]
    /\ UNCHANGED <<dbVars, run, messages, rollup, had, late, budget>>

(* A worker dies or its statement fails before the message is committed. *)
FailRollup(a) ==
    /\ Spend("fault")
    /\ job[a].kind = "rollup"
    /\ GiveUp(a)
    /\ UNCHANGED <<dbVars, run, messages, rollup, had, late>>

-----------------------------------------------------------------------------
Synchronize(a) ==
    \/ \E p \in Products : StartSync(a, p)
    \/ ReadSubscribers(a) \/ Upsert(a) \/ Compare(a) \/ Flip(a)
    \/ CommitSync(a) \/ AuditSync(a) \/ AbandonSync(a)

Preview(a) ==
    \/ \E excluded \in SUBSET Products : StartPreview(a, excluded)
    \/ PreviewZones(a) \/ EndPreview(a)

RollUp(a) ==
    ReadRun(a) \/ CountMessages(a) \/ ReadWindow(a) \/ LoadRollup(a)
    \/ StoreRollup(a) \/ RollupExists(a)

Handle(w) == TakeMessage(w) \/ RollUp(w) \/ AckMessage(w)

Proceed ==
    \/ \E m \in Messages : Claim(m) \/ Settle(m) \/ RetryMessage(m)
    \/ CountPending \/ Complete \/ StopRun

Elsewhere ==
    \/ \E c \in Customers : SubscriberChanges(c) \/ CooldownEnds(c)
    \/ \E l \in Lists, members \in SUBSET Customers : CommitList(l, members)
    \/ Proceed

Next ==
    \/ \E a \in Callers : Synchronize(a) \/ Preview(a) \/ RollUp(a)
    \/ \E a \in Callers, refresh \in BOOLEAN : StartRefresh(a, refresh)
    \/ \E w \in Workers : Handle(w)
    \/ \E a \in actors : FailRollup(a)
    \/ Elsewhere

Spec == Init /\ [][Next]_vars

(* A worker goes on polling and handling. *)
FairSpec == Spec /\ \A w \in Workers : WF_vars(Handle(w))

-----------------------------------------------------------------------------
(* A sync tells the truth about a customer who stayed where he was while it *)
(* ran: one who was a subscriber throughout is recorded as one, whatever    *)
(* other syncs do; one who was none throughout is not, unless another sync  *)
(* of the product ran at the same time (sync_subscriptions).                *)
SyncTellsTheTruth ==
    [][\A a \in Callers :
          At(a, "sync", "commit") /\ At(a, "sync", "audit")' =>
              \A c \in Customers :
                  LET is == subscribed'[job[a].product][c]
                  IN /\ job[a].was[c] = {TRUE} => is = "yes"
                     /\ job[a].was[c] = {FALSE} /\ job[a].alone => is # "yes"]_vars

(* A preview of what has not moved promises what rotate_zone will number:   *)
(* the zones add up to final_eligible, each has as many as rotation would   *)
(* find, and nobody is counted twice but a customer on several DND lists    *)
(* (compute_eligibility_preview).                                           *)
PreviewAgrees ==
    \A a \in Callers :
        job[a].kind = "preview" /\ job[a].step = "shown" /\ job[a].still =>
            LET shown == job[a].zones
                totals == job[a].totals
            IN /\ totals.eligible = MapThenSumSet(LAMBDA z : shown[z], DOMAIN shown)
               /\ \A z \in Zones :
                      (IF z \in DOMAIN shown THEN shown[z] ELSE 0) =
                          Cardinality(Eligible(z, job[a].excluded))
               /\ totals.subscriber + totals.cooldown + totals.eligible =
                      Cardinality({c \in Customers : DndMatches(c) = {}})

(* A run that completes gets a rollup of counts it has had since, which are *)
(* its final counts if no message is retried by hand and none was in the    *)
(* hands of a dispatcher, and keeps such a one, whatever crashes,           *)
(* rebalances and conflicting inserts.  Only a view of the run that was     *)
(* begun before it completed and stored after may put one that shows        *)
(* RUNNING in its place (run_rollup, analytics_worker).                     *)
ShowsCompleted(r) ==
    /\ r.core.status = "COMPLETED" /\ r.window = "COMPLETED"
    /\ r.core.counts \in had

ShowsRunning(r) == "RUNNING" \in {r.core.status, r.window}

RollupSettles ==
    run.status = "COMPLETED" ~>
        [](rollup # None /\ (ShowsCompleted(rollup) \/ (late /\ ShowsRunning(rollup))))

=============================================================================
