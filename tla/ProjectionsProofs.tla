-------------------------- MODULE ProjectionsProofs --------------------------
(***************************************************************************)
(* Proofs about Projections: a sync of subscriptions tells the truth and a *)
(* preview agrees with rotation, for any customers, lists, products,       *)
(* requests and workers, and whatever the tables hold at first.  The law   *)
(* of the quotas of a campaign is proved behind them, because it is about  *)
(* sums over zones as well.                                                *)
(***************************************************************************)
EXTENDS Projections, CampaignLaws, FiniteSetTheorems, NaturalsInduction,
        WellFoundedInduction, TLAPS

RowStates == {"none", "yes", "no"}

(* A request that synchronizes, and one or a worker that does anything else.*)
SyncJobs ==
    [kind : {"sync"}, step : {"read", "upsert", "compare", "flip", "commit", "audit"},
     product : Products, seen : SUBSET Customers, draft : [Customers -> RowStates],
     was : [Customers -> SUBSET BOOLEAN], alone : BOOLEAN]

OtherJob(j) ==
    /\ j = [x \in DOMAIN j |-> j[x]]
    /\ "kind" \in DOMAIN j /\ j.kind \in {"idle", "preview", "rollup"}

SyncTypes ==
    /\ source \in SUBSET Customers
    /\ subscribed \in [Products -> [Customers -> RowStates]]
    /\ job = [a \in actors |-> job[a]]
    /\ \A a \in actors : job[a] \in SyncJobs \/ OtherJob(job[a])
    /\ \A w \in Workers : job[w].kind # "sync"

-----------------------------------------------------------------------------
(* The inductive invariant.  Its parts, for a request a that synchronizes:  *)

(* the request has seen what each customer is now;                          *)
Watched(a) == \A c \in Customers : (c \in source) \in job[a].was[c]

(* who has been a subscriber throughout is in what it has read, has been    *)
(* written as one, and is not among those to be flipped;                    *)
Stayed(a) ==
    \A c \in Customers :
        job[a].was[c] = {TRUE} =>
            /\ job[a].step = "upsert" => c \in job[a].seen
            /\ job[a].step \in {"compare", "flip", "commit"} => job[a].draft[c] = "yes"
            /\ job[a].step = "flip" => c \notin job[a].seen

(* who has been none throughout has not been written before the flip, which *)
(* finds him if his row says he is one: nobody else writes it meanwhile;    *)
StayedAway(a) ==
    \A c \in Customers :
        job[a].was[c] = {FALSE} =>
            /\ job[a].step = "upsert" => c \notin job[a].seen
            /\ job[a].step \in {"read", "upsert", "compare", "flip"} => job[a].draft[c] = "none"
            /\ job[a].step = "flip" /\ job[a].alone
                  /\ subscribed[job[a].product][c] = "yes" => c \in job[a].seen
            /\ job[a].step = "commit" /\ job[a].alone => Row(job[a], c) # "yes"

(* and no other sync of its product is open while it is alone.              *)
Alone(a) ==
    job[a].alone /\ job[a].step # "audit" => \A b \in Alike(job[a].product) : b = a

SyncInv ==
    \A a \in Callers :
        job[a].kind = "sync" => Watched(a) /\ Stayed(a) /\ StayedAway(a) /\ Alone(a)

-----------------------------------------------------------------------------
(* Jobs.  A step of another kind than sync stays of another kind.           *)
LEMMA OtherStays ==
    ASSUME NEW j, OtherJob(j), NEW x, x # "kind", NEW v
    PROVE  OtherJob([j EXCEPT ![x] = v])
BY DEF OtherJob

(* It is none.                                                              *)
LEMMA OtherIsNoSync ==
    ASSUME NEW j, OtherJob(j)
    PROVE  j.kind # "sync"
BY DEF OtherJob

(* Nor is one that does nothing a sync. *)
LEMMA IdleIsOther == OtherJob(Idle)
BY DEF OtherJob, Idle

(* The steps of the sync a.                                                 *)
SyncStep(a) == ReadSubscribers(a) \/ Upsert(a) \/ Compare(a) \/ Flip(a) \/ CommitSync(a)

(* Noting that the tables have moved touches no sync.                       *)
LEMMA MovedKeepsSyncs ==
    ASSUME NEW jobs, NEW a \in actors, jobs[a] \in SyncJobs \/ OtherJob(jobs[a])
    PROVE  /\ jobs[a] \in SyncJobs => Moved(jobs)[a] = jobs[a]
           /\ OtherJob(jobs[a]) => OtherJob(Moved(jobs)[a])
<1>1. Moved(jobs)[a] = IF jobs[a].kind = "preview" THEN [jobs[a] EXCEPT !.still = FALSE]
                       ELSE jobs[a]
    BY DEF Moved
<1>2. jobs[a] \in SyncJobs => jobs[a].kind # "preview"
    BY DEF SyncJobs
<1> QED
    BY <1>1, <1>2 DEF OtherJob

(* Previews, rollups and what happens to a run leave the syncs alone.       *)
Quiet ==
    /\ source' = source /\ subscribed' = subscribed
    /\ job' = [a \in actors |-> job'[a]]
    /\ \A a \in actors : /\ job[a] \in SyncJobs => job'[a] = job[a]
                         /\ OtherJob(job[a]) => OtherJob(job'[a])

Elses(b) ==
    \/ Preview(b) \/ RollUp(b) \/ TakeMessage(b) \/ AckMessage(b) \/ FailRollup(b)
    \/ \E refresh \in BOOLEAN : StartRefresh(b, refresh)

(* A preview or a rollup touches neither subscribers, rows nor syncs. *)
LEMMA ElseIsQuiet ==
    ASSUME SyncTypes, NEW b \in actors, Elses(b)
    PROVE  Quiet
<1> USE DEF dbVars, runVars
<1>1. /\ job = [a \in actors |-> job[a]]
      /\ job[b] \in SyncJobs \/ OtherJob(job[b])
    BY DEF SyncTypes
<1>2. source' = source /\ subscribed' = subscribed
    BY DEF Elses, Preview, RollUp, StartPreview, PreviewZones, EndPreview, ReadRun,
           CountMessages, ReadWindow, LoadRollup, StoreRollup, RollupExists, TakeMessage,
           AckMessage, FailRollup, StartRefresh
<1>3. OtherJob(job[b])
    <2>1. job[b] = Idle \/ job[b].kind \in {"preview", "rollup"}
        BY DEF Elses, Preview, RollUp, StartPreview, PreviewZones, EndPreview, ReadRun,
               CountMessages, ReadWindow, LoadRollup, StoreRollup, RollupExists, TakeMessage,
               AckMessage, FailRollup, StartRefresh, At
    <2>2. job[b] \notin SyncJobs
        BY <2>1 DEF SyncJobs, Idle
    <2> QED
        BY <1>1, <2>2
<1>4. ASSUME NEW j, OtherJob(j), job' = [job EXCEPT ![b] = j]
      PROVE  Quiet
    <2>1. \A a \in actors : job'[a] = IF a = b THEN j ELSE job[a]
        BY <1>1, <1>4
    <2>2. job' = [a \in actors |-> job'[a]]
        BY <1>1, <1>4
    <2>3. job[b] \notin SyncJobs
        BY <1>3, OtherIsNoSync DEF SyncJobs
    <2> QED
        BY <1>2, <1>4, <2>1, <2>2, <2>3 DEF Quiet
<1>5. ASSUME NEW x, x # "kind", NEW v, job' = [job EXCEPT ![b] = [job[b] EXCEPT ![x] = v]]
      PROVE  Quiet
    BY <1>3, <1>4, <1>5, OtherStays
<1>6. ASSUME NEW x, x # "kind", NEW v, NEW y, y # "kind", NEW u,
             job' = [job EXCEPT ![b] = [[job[b] EXCEPT ![x] = v] EXCEPT ![y] = u]]
      PROVE  Quiet
    BY <1>3, <1>4, <1>6, OtherStays
<1>7. CASE job' = [job EXCEPT ![b] = Idle]
    BY <1>4, <1>7, IdleIsOther
<1>8. ASSUME NEW excluded \in SUBSET Products, StartPreview(b, excluded)
      PROVE  Quiet
    <2> DEFINE j == [kind |-> "preview", step |-> "zones", excluded |-> excluded,
                     totals |-> CountTotals(excluded), zones |-> <<>>, still |-> TRUE]
    <2>1. job' = [job EXCEPT ![b] = j]
        BY <1>8 DEF StartPreview
    <2>2. OtherJob(j)
        BY DEF OtherJob
    <2> HIDE DEF j
    <2> QED
        BY <1>4, <2>1, <2>2
<1>9. CASE PreviewZones(b)
    <2>1. job' = [job EXCEPT ![b] = [[job[b] EXCEPT !.step = "shown"]
                                       EXCEPT !.zones = CountZones(job[b].excluded)]]
        BY <1>1, <1>9 DEF PreviewZones
    <2> QED
        BY <1>6, <2>1
<1>10. CASE EndPreview(b) \/ AckMessage(b) \/ RollupExists(b) \/ FailRollup(b)
    BY <1>7, <1>10 DEF EndPreview, AckMessage, RollupExists, FailRollup, GiveUp
<1>11. \A step, found, message : OtherJob(Rollup(step, found, message))
    BY DEF OtherJob, Rollup
<1>12. ASSUME NEW refresh \in BOOLEAN, StartRefresh(b, refresh)
       PROVE  Quiet
    <2>1. job' = [job EXCEPT ![b] = Rollup("run", rollup, 0)]
        BY <1>12 DEF StartRefresh
    <2> QED
        BY <1>4, <1>11, <2>1
<1>13. CASE TakeMessage(b)
    <2>1. job' = [job EXCEPT ![b] = Rollup("run", None, topic.committed + 1)]
        BY <1>13 DEF TakeMessage
    <2> QED
        BY <1>4, <1>11, <2>1
<1>14. CASE ReadRun(b)
    <2>1. job' = [job EXCEPT ![b] = [[job[b] EXCEPT !.step = "messages"]
                                       EXCEPT !.status = run.status]]
        BY <1>1, <1>14 DEF ReadRun
    <2> QED
        BY <1>6, <2>1
<1>15. CASE CountMessages(b)
    <2>1. job' = [job EXCEPT ![b] = [[job[b] EXCEPT !.step = "window"]
                                       EXCEPT !.counts = Shown(messages)]]
        BY <1>1, <1>15 DEF CountMessages
    <2> QED
        BY <1>6, <2>1
<1>16. CASE ReadWindow(b)
    <2>1. job' = [job EXCEPT ![b] = [[job[b] EXCEPT !.step = "load"]
                                       EXCEPT !.window = run.status]]
        BY <1>1, <1>16 DEF ReadWindow
    <2> QED
        BY <1>6, <2>1
<1>17. CASE LoadRollup(b)
    <2>1. \E v : job' = [job EXCEPT ![b] = [[job[b] EXCEPT !.step = "store"]
                                              EXCEPT !.found = v]]
        <3> DEFINE v == IF job[b].found = None THEN rollup ELSE job[b].found
        <3>1. job' = [job EXCEPT ![b] = [[job[b] EXCEPT !.step = "store"] EXCEPT !.found = v]]
            BY <1>1, <1>3, <1>17 DEF LoadRollup, OtherJob
        <3> QED
            BY <3>1
    <2> QED
        BY <1>6, <2>1
<1>18. CASE StoreRollup(b)
    <2>1. \/ job' = [job EXCEPT ![b] = [job[b] EXCEPT !.step = "ack"]]
          \/ job' = [job EXCEPT ![b] = Idle]
        BY <1>1, <1>18 DEF StoreRollup
    <2> QED
        BY <1>5, <1>7, <2>1
<1> QED
    BY <1>8, <1>9, <1>10, <1>12, <1>13, <1>14, <1>15, <1>16, <1>17, <1>18
       DEF Elses, Preview, RollUp

(* Whatever else happens but to subscribers, syncs and rows is quiet too.   *)
LEMMA ElsewhereIsQuiet ==
    ASSUME SyncTypes,
           \/ \E c \in Customers : CooldownEnds(c)
           \/ \E l \in Lists, members \in SUBSET Customers : CommitList(l, members)
           \/ Proceed \/ UNCHANGED vars
    PROVE  Quiet
<1> USE DEF dbVars, runVars, vars
<1>1. /\ job = [a \in actors |-> job[a]]
      /\ \A a \in actors : job[a] \in SyncJobs \/ OtherJob(job[a])
    BY DEF SyncTypes
<1>2. source' = source /\ subscribed' = subscribed
    BY DEF CooldownEnds, CommitList, Proceed, Claim, Settle, RetryMessage, CountPending,
           Complete, StopRun
<1>3. CASE job' = job
    BY <1>1, <1>2, <1>3 DEF Quiet
<1>4. CASE job' = Moved(job)
    <2>1. Moved(job) = [a \in actors |-> Moved(job)[a]]
        BY DEF Moved
    <2> QED
        BY <1>1, <1>2, <1>4, <2>1, MovedKeepsSyncs DEF Quiet
<1> QED
    BY <1>3, <1>4 DEF CooldownEnds, CommitList, Proceed, Claim, Settle, RetryMessage,
                        CountPending, Complete, StopRun

-----------------------------------------------------------------------------
(* What a step of a sync does to its job; all other jobs are left alone.    *)
LEMMA SyncMoves ==
    ASSUME SyncTypes, NEW a \in Callers, SyncStep(a)
    PROVE  /\ job[a] \in SyncJobs /\ job'[a] \in SyncJobs
           /\ job' = [b \in actors |-> job'[b]]
           /\ \A b \in actors \ {a} : /\ job[b] \in SyncJobs => job'[b] = job[b]
                                      /\ OtherJob(job[b]) => OtherJob(job'[b])
           /\ source' = source
           /\ /\ job'[a].product = job[a].product /\ job'[a].was = job[a].was
              /\ job'[a].alone = job[a].alone
           /\ ~CommitSync(a) => subscribed' = subscribed
           /\ CommitSync(a) =>
                /\ job[a].step = "commit" /\ job'[a].step = "audit"
                /\ \A p \in Products : p # job[a].product => subscribed'[p] = subscribed[p]
                /\ subscribed'[job[a].product] = [c \in Customers |-> Row(job[a], c)]
                /\ subscribed' \in [Products -> [Customers -> RowStates]]
           /\ ReadSubscribers(a) =>
                /\ job[a].step = "read" /\ job'[a].step = "upsert"
                /\ job'[a].seen = source /\ job'[a].draft = job[a].draft
           /\ Upsert(a) =>
                /\ job[a].step = "upsert" /\ job'[a].step = "compare"
                /\ job'[a].draft = Upserted(job[a])
           /\ Compare(a) =>
                /\ job[a].step = "compare" /\ job'[a].step = "flip"
                /\ job'[a].seen = {c \in Customers \ source : Row(job[a], c) = "yes"}
                /\ job'[a].draft = job[a].draft
           /\ Flip(a) =>
                /\ job[a].step = "flip" /\ job'[a].step = "commit"
                /\ job'[a].draft =
                     [c \in Customers |->
                        IF c \in job[a].seen /\ Row(job[a], c) = "yes"
                        THEN "no" ELSE job[a].draft[c]]
<1> USE DEF dbVars, runVars, At, SyncStep
<1> DEFINE j == job[a]
<1>1. /\ a \in actors /\ job = [b \in actors |-> job[b]] /\ source \in SUBSET Customers
      /\ \A b \in actors : job[b] \in SyncJobs \/ OtherJob(job[b])
      /\ subscribed \in [Products -> [Customers -> RowStates]]
    BY DEF SyncTypes, actors
<1>2. j \in SyncJobs
    BY <1>1 DEF ReadSubscribers, Upsert, Compare, Flip, CommitSync, OtherJob
<1>3. /\ j.product \in Products /\ j.seen \in SUBSET Customers
      /\ j.draft \in [Customers -> RowStates]
    BY <1>2 DEF SyncJobs
<1>4. \A c \in Customers : Row(j, c) \in RowStates
    BY <1>1, <1>3 DEF Row
<1>5. ASSUME NEW k \in SyncJobs, job' = [job EXCEPT ![a] = k]
      PROVE  /\ job'[a] = k
             /\ job' = [b \in actors |-> job'[b]]
             /\ \A b \in actors \ {a} : job'[b] = job[b]
    BY <1>1, <1>5
<1>6. CASE ReadSubscribers(a)
    <2> DEFINE k == [[j EXCEPT !.step = "upsert"] EXCEPT !.seen = source]
    <2>1. job' = [job EXCEPT ![a] = k]
        BY <1>1, <1>6 DEF ReadSubscribers
    <2>2. /\ k \in SyncJobs /\ k.step = "upsert" /\ k.seen = source /\ k.draft = j.draft
          /\ k.product = j.product /\ k.was = j.was /\ k.alone = j.alone
        BY <1>1, <1>2 DEF SyncJobs
    <2> HIDE DEF k
    <2>3. job'[a] = k /\ job' = [b \in actors |-> job'[b]] /\ \A b \in actors \ {a} : job'[b] = job[b]
        BY <1>5, <2>1, <2>2
    <2>4. j.step = "read" /\ source' = source /\ subscribed' = subscribed
        BY <1>6 DEF ReadSubscribers
    <2> QED
        BY <1>2, <2>2, <2>3, <2>4 DEF Upsert, Compare, Flip, CommitSync
<1>7. CASE Upsert(a)
    <2> DEFINE k == [[j EXCEPT !.step = "compare"] EXCEPT !.draft = Upserted(j)]
    <2>1. job' = [job EXCEPT ![a] = k]
        BY <1>1, <1>7 DEF Upsert
    <2>2. Upserted(j) \in [Customers -> RowStates]
        BY <1>3 DEF Upserted, RowStates
    <2>3. /\ k \in SyncJobs /\ k.step = "compare" /\ k.draft = Upserted(j)
          /\ k.product = j.product /\ k.was = j.was /\ k.alone = j.alone
        BY <1>2, <2>2 DEF SyncJobs
    <2> HIDE DEF k
    <2>4. job'[a] = k /\ job' = [b \in actors |-> job'[b]] /\ \A b \in actors \ {a} : job'[b] = job[b]
        BY <1>5, <2>1, <2>3
    <2>5. j.step = "upsert" /\ source' = source /\ subscribed' = subscribed
        BY <1>7 DEF Upsert
    <2> QED
        BY <1>2, <2>3, <2>4, <2>5 DEF ReadSubscribers, Compare, Flip, CommitSync
<1>8. CASE Compare(a)
    <2> DEFINE left == {c \in Customers \ source : Row(j, c) = "yes"}
               k == [[j EXCEPT !.step = "flip"] EXCEPT !.seen = left]
    <2>1. job' = [job EXCEPT ![a] = k]
        BY <1>1, <1>8 DEF Compare
    <2>2. left \in SUBSET Customers
        OBVIOUS
    <2> HIDE DEF left
    <2>3. /\ k \in SyncJobs /\ k.step = "flip" /\ k.seen = left /\ k.draft = j.draft
          /\ k.product = j.product /\ k.was = j.was /\ k.alone = j.alone
        BY <1>2, <2>2 DEF SyncJobs
    <2> HIDE DEF k
    <2>4. job'[a] = k /\ job' = [b \in actors |-> job'[b]] /\ \A b \in actors \ {a} : job'[b] = job[b]
        BY <1>5, <2>1, <2>3
    <2>5. j.step = "compare" /\ source' = source /\ subscribed' = subscribed
        BY <1>8 DEF Compare
    <2> QED
        BY <1>2, <2>3, <2>4, <2>5 DEF ReadSubscribers, Upsert, Flip, CommitSync, left
<1>9. CASE Flip(a)
    <2> DEFINE d == [c \in Customers |->
                        IF c \in j.seen /\ Row(j, c) = "yes" THEN "no" ELSE j.draft[c]]
               k == [[j EXCEPT !.step = "commit"] EXCEPT !.draft = d]
    <2>1. job' = [job EXCEPT ![a] = k]
        BY <1>1, <1>2, <1>9 DEF Flip, SyncJobs
    <2>2. d \in [Customers -> RowStates]
        BY <1>3 DEF RowStates
    <2> HIDE DEF d
    <2>3. /\ k \in SyncJobs /\ k.step = "commit" /\ k.draft = d
          /\ k.product = j.product /\ k.was = j.was /\ k.alone = j.alone
        BY <1>2, <2>2 DEF SyncJobs
    <2> HIDE DEF k
    <2>4. job'[a] = k /\ job' = [b \in actors |-> job'[b]] /\ \A b \in actors \ {a} : job'[b] = job[b]
        BY <1>5, <2>1, <2>3
    <2>5. j.step = "flip" /\ source' = source /\ subscribed' = subscribed
        BY <1>9 DEF Flip
    <2> QED
        BY <1>2, <2>3, <2>4, <2>5 DEF ReadSubscribers, Upsert, Compare, CommitSync, d
<1>10. CASE CommitSync(a)
    <2> DEFINE k == [j EXCEPT !.step = "audit"]
               jobs == [job EXCEPT ![a] = k]
               rows == [c \in Customers |-> Row(j, c)]
    <2>1. /\ job' = Moved(jobs) /\ j.step = "commit" /\ source' = source
          /\ subscribed' = [subscribed EXCEPT ![j.product] = rows]
        BY <1>1, <1>10 DEF CommitSync
    <2>2. /\ k \in SyncJobs /\ k.step = "audit"
          /\ k.product = j.product /\ k.was = j.was /\ k.alone = j.alone
        BY <1>2 DEF SyncJobs
    <2> HIDE DEF k
    <2>3. jobs[a] = k /\ \A b \in actors \ {a} : jobs[b] = job[b]
        BY <1>1
    <2>4. job' = [b \in actors |-> job'[b]]
        BY <2>1 DEF Moved
    <2>5. \A b \in actors : jobs[b] \in SyncJobs \/ OtherJob(jobs[b])
        BY <1>1, <2>2, <2>3
    <2> HIDE DEF jobs
    <2>6. \A b \in actors : /\ jobs[b] \in SyncJobs => job'[b] = jobs[b]
                            /\ OtherJob(jobs[b]) => OtherJob(job'[b])
        BY <2>1, <2>5, MovedKeepsSyncs
    <2>7. rows \in [Customers -> RowStates]
        BY <1>4
    <2>8. /\ \A p \in Products : p # j.product => subscribed'[p] = subscribed[p]
          /\ subscribed'[j.product] = rows
          /\ subscribed' \in [Products -> [Customers -> RowStates]]
        BY <1>1, <1>3, <2>1, <2>7
    <2> QED
        BY <1>1, <1>2, <2>1, <2>2, <2>3, <2>4, <2>6, <2>8
           DEF ReadSubscribers, Upsert, Compare, Flip
<1> QED
    BY <1>6, <1>7, <1>8, <1>9, <1>10
(* What is only quiet keeps all of it.                                      *)
LEMMA QuietKeeps ==
    ASSUME SyncTypes, SyncInv, Quiet
    PROVE  SyncTypes' /\ SyncInv'
<1>1. /\ \A a \in actors : job[a] \in SyncJobs \/ OtherJob(job[a])
      /\ Callers \subseteq actors /\ Workers \subseteq actors
    BY DEF SyncTypes, actors
<1>2. \A a \in actors : job[a].kind = "sync" => job[a] \in SyncJobs
    BY <1>1, OtherIsNoSync
<1>3. \A a \in actors : \/ job[a] \in SyncJobs /\ job'[a] = job[a]
                        \/ OtherJob(job[a]) /\ OtherJob(job'[a])
    BY <1>1 DEF Quiet
<1>4. \A a \in actors : job'[a].kind = "sync" => job[a] \in SyncJobs /\ job'[a] = job[a]
    BY <1>3, OtherIsNoSync
<1>5. \A w \in Workers : job'[w].kind # "sync"
    BY <1>1, <1>4 DEF SyncTypes
<1>6. SyncTypes'
    BY <1>3, <1>5 DEF SyncTypes, Quiet
<1>7. \A p : \A b \in Alike(p)' : b \in Alike(p)
    BY <1>1, <1>4 DEF Alike
<1>8. ASSUME NEW a \in Callers, job'[a].kind = "sync"
      PROVE  (Watched(a) /\ Stayed(a) /\ StayedAway(a) /\ Alone(a))'
    <2>1. /\ job'[a] = job[a] /\ job[a].kind = "sync"
          /\ source' = source /\ subscribed' = subscribed
        BY <1>1, <1>4, <1>8 DEF Quiet
    <2>2. Watched(a) /\ Stayed(a) /\ StayedAway(a) /\ Alone(a)
        BY <2>1 DEF SyncInv
    <2>3. Watched(a)' /\ Stayed(a)'
        BY <2>1, <2>2 DEF Watched, Stayed
    <2>4. StayedAway(a)'
        BY <2>1, <2>2 DEF StayedAway, Row
    <2>5. Alone(a)'
        BY <1>7, <2>1, <2>2 DEF Alone
    <2> QED
        BY <2>3, <2>4, <2>5
<1> QED
    BY <1>6, <1>8 DEF SyncInv

(* A step of a sync keeps what holds of it ...                              *)
LEMMA StepKeepsItsOwn ==
    ASSUME SyncTypes, NEW a \in Callers, SyncStep(a),
           Watched(a), Stayed(a), StayedAway(a)
    PROVE  Watched(a)' /\ Stayed(a)' /\ StayedAway(a)'
<1>1. /\ job[a] \in SyncJobs /\ job'[a] \in SyncJobs /\ source' = source
      /\ job'[a].product = job[a].product /\ job'[a].was = job[a].was
      /\ job'[a].alone = job[a].alone
      /\ ~CommitSync(a) => subscribed' = subscribed
      /\ CommitSync(a) => job'[a].step = "audit"
    BY SyncMoves
<1>2. Watched(a)'
    BY <1>1 DEF Watched
<1>3. /\ job[a].draft \in [Customers -> RowStates]
      /\ job[a].was \in [Customers -> SUBSET BOOLEAN]
    BY <1>1 DEF SyncJobs
<1>4. CASE CommitSync(a)
    BY <1>1, <1>2, <1>4 DEF Stayed, StayedAway
<1>5. CASE ReadSubscribers(a)
    <2>1. /\ job[a].step = "read" /\ job'[a].step = "upsert"
          /\ job'[a].seen = source /\ job'[a].draft = job[a].draft
        BY <1>5, SyncMoves
    <2> QED
        BY <1>1, <1>2, <2>1 DEF Watched, Stayed, StayedAway
<1>6. CASE Upsert(a)
    <2>1. /\ job[a].step = "upsert" /\ job'[a].step = "compare"
          /\ job'[a].draft = Upserted(job[a])
        BY <1>6, SyncMoves
    <2>2. \A c \in Customers : job'[a].draft[c] = IF c \in job[a].seen THEN "yes" ELSE job[a].draft[c]
        BY <2>1 DEF Upserted
    <2> QED
        BY <1>1, <1>2, <2>1, <2>2 DEF Stayed, StayedAway
<1>7. CASE Compare(a)
    <2>1. /\ job[a].step = "compare" /\ job'[a].step = "flip"
          /\ job'[a].seen = {c \in Customers \ source : Row(job[a], c) = "yes"}
          /\ job'[a].draft = job[a].draft /\ subscribed' = subscribed
        BY <1>7, SyncMoves, <1>1 DEF CommitSync, Compare, At
    <2>2. /\ \A c \in Customers : job[a].was[c] = {TRUE} => c \in source
          /\ \A c \in Customers : job[a].was[c] = {FALSE} => c \notin source
        BY DEF Watched
    <2>3. ASSUME NEW c \in Customers, job[a].was[c] = {TRUE}
          PROVE  job[a].draft[c] = "yes" /\ c \notin job'[a].seen
        BY <2>1, <2>2, <2>3 DEF Stayed
    <2>4. Stayed(a)'
        BY <1>1, <2>1, <2>3 DEF Stayed
    <2>5. ASSUME NEW c \in Customers, job[a].was[c] = {FALSE}
          PROVE  /\ job[a].draft[c] = "none"
                 /\ subscribed[job[a].product][c] = "yes" => c \in job'[a].seen
        <3>1. job[a].draft[c] = "none" /\ c \notin source
            BY <2>1, <2>2, <2>5 DEF StayedAway
        <3> QED
            BY <2>1, <3>1 DEF Row
    <2>6. StayedAway(a)'
        BY <1>1, <2>1, <2>5 DEF StayedAway
    <2> QED
        BY <1>2, <2>4, <2>6
<1>8. CASE Flip(a)
    <2>1. /\ job[a].step = "flip" /\ job'[a].step = "commit" /\ subscribed' = subscribed
          /\ job'[a].draft =
               [c \in Customers |->
                  IF c \in job[a].seen /\ Row(job[a], c) = "yes"
                  THEN "no" ELSE job[a].draft[c]]
        BY <1>8, SyncMoves, <1>1 DEF CommitSync, Flip, At
    <2>2. \A c \in Customers :
             job'[a].draft[c] = IF c \in job[a].seen /\ Row(job[a], c) = "yes"
                                THEN "no" ELSE job[a].draft[c]
        BY <2>1
    <2>3. ASSUME NEW c \in Customers, job[a].was[c] = {TRUE}
          PROVE  job'[a].draft[c] = "yes"
        BY <2>1, <2>2, <2>3 DEF Stayed
    <2>4. Stayed(a)'
        BY <1>1, <2>1, <2>3 DEF Stayed
    <2>5. StayedAway(a)'
        BY <1>1, <2>1, <2>2 DEF StayedAway, Row
    <2> QED
        BY <1>2, <2>4, <2>5
<1> QED
    BY <1>4, <1>5, <1>6, <1>7, <1>8 DEF SyncStep

(* ... and of every other: only one that is not alone has rows written      *)
(* under it.                                                                *)
LEMMA StepKeeps ==
    ASSUME SyncTypes, SyncInv, NEW a \in Callers, SyncStep(a)
    PROVE  SyncTypes' /\ SyncInv'
<1>1. /\ Callers \subseteq actors /\ Workers \subseteq actors
      /\ \A b \in actors : job[b] \in SyncJobs \/ OtherJob(job[b])
      /\ source \in SUBSET Customers
      /\ subscribed \in [Products -> [Customers -> RowStates]]
      /\ \A w \in Workers : job[w].kind # "sync"
    BY DEF SyncTypes, actors
<1>2. /\ job[a] \in SyncJobs /\ job'[a] \in SyncJobs /\ source' = source
      /\ job' = [b \in actors |-> job'[b]]
      /\ job'[a].product = job[a].product /\ job'[a].alone = job[a].alone
      /\ ~CommitSync(a) => subscribed' = subscribed
      /\ CommitSync(a) =>
            /\ job[a].step = "commit"
            /\ \A p \in Products : p # job[a].product => subscribed'[p] = subscribed[p]
            /\ subscribed' \in [Products -> [Customers -> RowStates]]
    BY SyncMoves
<1>3. \A b \in actors \ {a} : /\ job[b] \in SyncJobs => job'[b] = job[b]
                              /\ OtherJob(job[b]) => OtherJob(job'[b])
    BY SyncMoves
<1>4. \A b \in actors \ {a} : job'[b].kind = "sync" => job[b] \in SyncJobs /\ job'[b] = job[b]
    BY <1>1, <1>3, OtherIsNoSync
<1>5. job[a].kind = "sync" /\ job[a].product \in Products /\ job[a].step # "audit"
    <2>1. job[a].kind = "sync" /\ job[a].product \in Products
        BY <1>2 DEF SyncJobs
    <2> QED
        BY <2>1 DEF SyncStep, ReadSubscribers, Upsert, Compare, Flip, CommitSync, At
<1>6. SyncTypes'
    <2>1. \A b \in actors : job'[b] \in SyncJobs \/ OtherJob(job'[b])
        BY <1>1, <1>2, <1>3
    <2>2. \A w \in Workers : job'[w].kind # "sync"
        <3> SUFFICES ASSUME NEW w \in Workers, job'[w].kind = "sync"
                     PROVE  FALSE
            OBVIOUS
        <3>1. w # a
            BY <1>1, <1>5
        <3> QED
            BY <1>1, <1>4, <3>1
    <2> QED
        BY <1>1, <1>2, <2>1, <2>2 DEF SyncTypes
<1>7. \A p : \A b \in Alike(p)' : b \in Alike(p)
    BY <1>1, <1>2, <1>4, <1>5 DEF Alike
<1>8. (Watched(a) /\ Stayed(a) /\ StayedAway(a))'
    BY <1>5, StepKeepsItsOwn DEF SyncInv
<1>9. Alone(a)'
    <2>1. Alone(a)
        BY <1>5 DEF SyncInv
    <2> QED
        BY <1>2, <1>5, <1>7, <2>1 DEF Alone
<1>10. ASSUME NEW b \in Callers, b # a, job'[b].kind = "sync"
       PROVE  (Watched(b) /\ Stayed(b) /\ StayedAway(b) /\ Alone(b))'
    <2>1. job[b] \in SyncJobs /\ job'[b] = job[b] /\ job[b].kind = "sync"
        BY <1>1, <1>4, <1>10
    <2>2. Watched(b) /\ Stayed(b) /\ StayedAway(b) /\ Alone(b)
        BY <2>1 DEF SyncInv
    <2>3. Watched(b)' /\ Stayed(b)'
        BY <1>2, <2>1, <2>2 DEF Watched, Stayed
    <2>4. Alone(b)'
        BY <1>7, <2>1, <2>2 DEF Alone
    <2>5. job[b].alone /\ job[b].step # "audit" =>
              subscribed'[job[b].product] = subscribed[job[b].product]
        <3>1. job[b].product \in Products
            BY <2>1 DEF SyncJobs
        <3>2. a \in Alike(job[a].product)
            BY <1>5 DEF Alike
        <3> QED
            BY <1>2, <1>10, <2>2, <3>1, <3>2 DEF Alone
    <2>6. StayedAway(b)'
        BY <2>1, <2>2, <2>5 DEF StayedAway, Row
    <2> QED
        BY <2>3, <2>4, <2>6
<1> QED
    BY <1>6, <1>8, <1>9, <1>10 DEF SyncInv
(* A sync that begins sees each customer as he is and has written nothing;  *)
(* none that is open beside it is alone.                                    *)
LEMMA StartKeeps ==
    ASSUME SyncTypes, SyncInv, NEW a \in Callers, NEW p \in Products, StartSync(a, p)
    PROVE  SyncTypes' /\ SyncInv'
<1> DEFINE was == [c \in Customers |-> {(c \in source)}]
           k == [kind |-> "sync", step |-> "read", product |-> p, seen |-> {},
                 draft |-> Untouched, was |-> was, alone |-> Alike(p) = {}]
<1>1. /\ Callers \subseteq actors /\ Workers \subseteq actors
      /\ \A b \in actors : job[b] \in SyncJobs \/ OtherJob(job[b])
      /\ \A w \in Workers : job[w].kind # "sync"
      /\ Callers \cap Workers = {}
    BY ProjectionsAssumption DEF SyncTypes, actors
<1>2. source' = source /\ subscribed' = subscribed /\ job[a] = Idle
    BY DEF StartSync, dbVars, runVars
<1>3. /\ job' = [b \in actors |-> job'[b]]
      /\ \A b \in actors :
            job'[b] = IF b = a THEN k
                      ELSE IF b \in Alike(p) THEN [job[b] EXCEPT !.alone = FALSE] ELSE job[b]
    BY DEF StartSync
<1>4. was \in [Customers -> SUBSET BOOLEAN]
    OBVIOUS
<1>5. \A c \in Customers : was[c] = {(c \in source)}
    OBVIOUS
<1> HIDE DEF was
<1>6. /\ k \in SyncJobs /\ k.kind = "sync" /\ k.step = "read" /\ k.product = p
      /\ k.draft = Untouched /\ k.was = was /\ k.alone = (Alike(p) = {})
    BY <1>4 DEF SyncJobs, Untouched, RowStates
<1> HIDE DEF k
<1>7. \A b \in actors : job[b].kind = "sync" => job[b] \in SyncJobs
    BY <1>1, OtherIsNoSync
<1>8. \A b \in Alike(p) :
         /\ b \in Callers /\ job[b] \in SyncJobs /\ b # a
         /\ [job[b] EXCEPT !.alone = FALSE] \in SyncJobs
         /\ LET m == [job[b] EXCEPT !.alone = FALSE]
            IN /\ m.kind = job[b].kind /\ m.step = job[b].step /\ m.product = job[b].product
               /\ m.seen = job[b].seen /\ m.draft = job[b].draft /\ m.was = job[b].was
               /\ m.alone = FALSE
    <2> SUFFICES ASSUME NEW b \in Alike(p)
                 PROVE  /\ b \in Callers /\ job[b] \in SyncJobs /\ b # a
                        /\ [job[b] EXCEPT !.alone = FALSE] \in SyncJobs
                        /\ LET m == [job[b] EXCEPT !.alone = FALSE]
                           IN /\ m.kind = job[b].kind /\ m.step = job[b].step
                              /\ m.product = job[b].product /\ m.seen = job[b].seen
                              /\ m.draft = job[b].draft /\ m.was = job[b].was
                              /\ m.alone = FALSE
        OBVIOUS
    <2>1. b \in Callers /\ job[b].kind = "sync"
        BY DEF Alike
    <2>2. job[b] \in SyncJobs /\ b # a
        BY <1>1, <1>2, <1>7, <2>1 DEF Idle
    <2>3. [job[b] EXCEPT !.alone = FALSE] \in SyncJobs
        BY <2>2 DEF SyncJobs
    <2> QED
        BY <2>1, <2>2, <2>3 DEF SyncJobs
<1>9. SyncTypes'
    <2>1. \A b \in actors : job'[b] \in SyncJobs \/ OtherJob(job'[b])
        BY <1>1, <1>3, <1>6, <1>8
    <2>2. \A w \in Workers : job'[w].kind # "sync"
        BY <1>1, <1>3, <1>8
    <2> QED
        BY <1>2, <1>3, <2>1, <2>2 DEF SyncTypes
<1>10. \A b \in actors \ {a} :
          /\ job'[b].kind = job[b].kind
          /\ job[b].kind = "sync" =>
                /\ job'[b].step = job[b].step /\ job'[b].product = job[b].product
                /\ job'[b].seen = job[b].seen /\ job'[b].draft = job[b].draft
                /\ job'[b].was = job[b].was
                /\ job'[b].alone => job[b].alone /\ b \notin Alike(p)
    BY <1>3, <1>8
<1>11. (Watched(a) /\ Stayed(a) /\ StayedAway(a))'
    <2>1. job'[a].was = was /\ job'[a].step = "read" /\ \A c \in Customers : job'[a].draft[c] = "none"
        BY <1>1, <1>3, <1>6 DEF Untouched
    <2>2. ASSUME NEW c \in Customers
          PROVE  (c \in source') \in job'[a].was[c]
        <3> DEFINE here == c \in source'
        <3>1. job'[a].was[c] = {here}
            BY <1>2, <1>5, <2>1
        <3> HIDE DEF here
        <3>2. here \in job'[a].was[c]
            BY <3>1
        <3> QED
            BY <3>2 DEF here
    <2>3. Watched(a)'
        BY <2>2 DEF Watched
    <2>4. \A c \in Customers : job'[a].was[c] = {FALSE} => c \notin source'
        BY <1>2, <1>5, <2>1
    <2> QED
        BY <2>1, <2>3, <2>4 DEF Stayed, StayedAway
<1>12. Alone(a)'
    <2>1. ASSUME NEW b \in Alike(p)', b # a
          PROVE  b \in Alike(p)
        BY <1>1, <1>10, <2>1 DEF Alike
    <2> QED
        BY <1>1, <1>3, <1>6, <2>1 DEF Alone
<1>13. ASSUME NEW b \in Callers, b # a, job'[b].kind = "sync"
       PROVE  (Watched(b) /\ Stayed(b) /\ StayedAway(b) /\ Alone(b))'
    <2>1. /\ job[b].kind = "sync"
          /\ job'[b].step = job[b].step /\ job'[b].product = job[b].product
          /\ job'[b].seen = job[b].seen /\ job'[b].draft = job[b].draft
          /\ job'[b].was = job[b].was
          /\ job'[b].alone => job[b].alone /\ b \notin Alike(p)
        BY <1>1, <1>10, <1>13
    <2>2. Watched(b) /\ Stayed(b) /\ StayedAway(b) /\ Alone(b)
        BY <2>1 DEF SyncInv
    <2>3. Watched(b)' /\ Stayed(b)'
        BY <1>2, <2>1, <2>2 DEF Watched, Stayed
    <2>4. StayedAway(b)'
        <3>1. subscribed' = subscribed
            BY <1>2
        <3>2. \A c \in Customers : Row(job[b], c)' = Row(job[b], c)
            BY <2>1, <3>1 DEF Row
        <3> HIDE DEF Row
        <3> SUFFICES ASSUME NEW c \in Customers, job'[b].was[c] = {FALSE}
                     PROVE  /\ job'[b].step = "upsert" => c \notin job'[b].seen
                            /\ job'[b].step \in {"read", "upsert", "compare", "flip"} =>
                                   job'[b].draft[c] = "none"
                            /\ job'[b].step = "flip" /\ job'[b].alone
                               /\ subscribed'[job'[b].product][c] = "yes" =>
                                   c \in job'[b].seen
                            /\ job'[b].step = "commit" /\ job'[b].alone =>
                                   Row(job[b], c)' # "yes"
            BY DEF StayedAway
        <3>3. job[b].was[c] = {FALSE}
            BY <2>1
        <3>4. /\ job[b].step = "upsert" => c \notin job[b].seen
              /\ job[b].step \in {"read", "upsert", "compare", "flip"} =>
                     job[b].draft[c] = "none"
              /\ job[b].step = "flip" /\ job[b].alone
                 /\ subscribed[job[b].product][c] = "yes" => c \in job[b].seen
              /\ job[b].step = "commit" /\ job[b].alone => Row(job[b], c) # "yes"
            BY <2>2, <3>3 DEF StayedAway
        <3>5. Row(job[b], c)' = Row(job[b], c)
            BY <3>2
        <3> QED
            BY <2>1, <3>1, <3>4, <3>5
    <2>5. ASSUME job'[b].alone, job'[b].step # "audit", NEW d \in Alike(job[b].product)'
          PROVE  d = b
        <3>1. job[b].alone /\ b \notin Alike(p) /\ job[b].step # "audit"
            BY <2>1, <2>5
        <3>2. job[b].product # p
            BY <2>1, <3>1 DEF Alike
        <3>3. d \in Callers /\ job'[d].kind = "sync" /\ job'[d].step # "audit"
              /\ job'[d].product = job[b].product
            BY <2>1, <2>5 DEF Alike
        <3>4. d # a
            BY <1>1, <1>3, <1>6, <3>2, <3>3
        <3>5. d \in Alike(job[b].product)
            BY <1>1, <1>10, <3>3, <3>4 DEF Alike
        <3> QED
            BY <2>2, <3>1, <3>5 DEF Alone
    <2>6. Alone(b)'
        BY <2>5 DEF Alone
    <2> QED
        BY <2>3, <2>4, <2>6
<1> QED
    BY <1>9, <1>11, <1>12, <1>13 DEF SyncInv

(* A sync that ends, done or abandoned, leaves its rows as they are.        *)
LEMMA EndKeeps ==
    ASSUME SyncTypes, SyncInv, NEW a \in Callers, AuditSync(a) \/ AbandonSync(a)
    PROVE  SyncTypes' /\ SyncInv'
<1>1. /\ Callers \subseteq actors /\ Workers \subseteq actors
      /\ job = [b \in actors |-> job[b]]
      /\ \A b \in actors : job[b] \in SyncJobs \/ OtherJob(job[b])
      /\ \A w \in Workers : job[w].kind # "sync"
    BY DEF SyncTypes, actors
<1>2. /\ source' = source /\ subscribed' = subscribed
      /\ job' = [job EXCEPT ![a] = Idle]
    BY DEF AuditSync, AbandonSync, dbVars
<1>3. /\ job' = [b \in actors |-> job'[b]]
      /\ \A b \in actors : job'[b] = IF b = a THEN Idle ELSE job[b]
    BY <1>1, <1>2
<1>4. Idle.kind # "sync"
    BY DEF Idle
<1>5. SyncTypes'
    <2>1. \A b \in actors : job'[b] \in SyncJobs \/ OtherJob(job'[b])
        BY <1>1, <1>3, IdleIsOther
    <2>2. \A w \in Workers : job'[w].kind # "sync"
        BY <1>1, <1>3, <1>4
    <2> QED
        BY <1>2, <1>3, <2>1, <2>2 DEF SyncTypes
<1>6. \A q : \A b \in Alike(q)' : b \in Alike(q)
    BY <1>1, <1>3, <1>4 DEF Alike
<1>7. ASSUME NEW b \in Callers, job'[b].kind = "sync"
      PROVE  (Watched(b) /\ Stayed(b) /\ StayedAway(b) /\ Alone(b))'
    <2>1. job'[b] = job[b] /\ job[b].kind = "sync"
        BY <1>1, <1>3, <1>4, <1>7
    <2>2. Watched(b) /\ Stayed(b) /\ StayedAway(b) /\ Alone(b)
        BY <2>1 DEF SyncInv
    <2>3. Watched(b)' /\ Stayed(b)'
        BY <1>2, <2>1, <2>2 DEF Watched, Stayed
    <2>4. StayedAway(b)'
        BY <1>2, <2>1, <2>2 DEF StayedAway, Row
    <2>5. Alone(b)'
        BY <1>6, <2>1, <2>2 DEF Alone
    <2> QED
        BY <2>3, <2>4, <2>5
<1> QED
    BY <1>5, <1>7 DEF SyncInv

(* A customer who has moved has not stayed; the others are where they were. *)
LEMMA SubscriberKeeps ==
    ASSUME SyncTypes, SyncInv, NEW x \in Customers, SubscriberChanges(x)
    PROVE  SyncTypes' /\ SyncInv'
<1> DEFINE seen(b) == [job[b].was EXCEPT ![x] = @ \cup {(x \in source')}]
<1>1. /\ Callers \subseteq actors /\ Workers \subseteq actors
      /\ source \in SUBSET Customers
      /\ \A b \in actors : job[b] \in SyncJobs \/ OtherJob(job[b])
      /\ \A w \in Workers : job[w].kind # "sync"
    BY DEF SyncTypes, actors
<1>2. /\ subscribed' = subscribed /\ source' \in SUBSET Customers
      /\ \A c \in Customers : (c \in source') <=> IF c = x THEN c \notin source ELSE c \in source
    BY <1>1 DEF SubscriberChanges
<1>3. \A b \in actors : job[b].kind = "sync" => job[b] \in SyncJobs
    BY <1>1, OtherIsNoSync
<1>4. job' = [b \in actors |-> job'[b]]
    BY DEF SubscriberChanges
<1>5. \A b \in actors : job[b].kind # "sync" => job'[b] = job[b]
    BY DEF SubscriberChanges
<1>6. ASSUME NEW b \in actors, job[b].kind = "sync"
      PROVE  /\ job'[b] \in SyncJobs /\ job'[b].kind = "sync"
             /\ job'[b].step = job[b].step /\ job'[b].product = job[b].product
             /\ job'[b].seen = job[b].seen /\ job'[b].draft = job[b].draft
             /\ job'[b].alone = job[b].alone
             /\ job'[b].was = seen(b)
    <2>1. job[b] \in SyncJobs
        BY <1>3, <1>6
    <2>2. job[b].was \in [Customers -> SUBSET BOOLEAN]
        BY <2>1 DEF SyncJobs
    <2>3. job'[b] = [job[b] EXCEPT !.was = seen(b)]
        BY <1>6, <2>1 DEF SubscriberChanges, SyncJobs
    <2>4. seen(b) \in [Customers -> SUBSET BOOLEAN]
        <3> DEFINE here == x \in source'
        <3>1. here \in BOOLEAN
            OBVIOUS
        <3> HIDE DEF here
        <3>2. [job[b].was EXCEPT ![x] = @ \cup {here}] \in [Customers -> SUBSET BOOLEAN]
            BY <2>2, <3>1
        <3> QED
            BY <3>2 DEF here
    <2> HIDE DEF seen
    <2> QED
        BY <2>1, <2>3, <2>4 DEF SyncJobs
<1>7. SyncTypes'
    <2>1. \A b \in actors : job'[b] \in SyncJobs \/ OtherJob(job'[b])
        BY <1>1, <1>5, <1>6, OtherIsNoSync
    <2>2. \A w \in Workers : job'[w].kind # "sync"
        BY <1>1, <1>5
    <2> QED
        BY <1>2, <1>4, <2>1, <2>2 DEF SyncTypes
<1>8. \A q : \A b \in Alike(q)' : b \in Alike(q)
    BY <1>1, <1>5, <1>6 DEF Alike
<1>9. ASSUME NEW b \in Callers, job'[b].kind = "sync"
      PROVE  (Watched(b) /\ Stayed(b) /\ StayedAway(b) /\ Alone(b))'
    <2>1. job[b].kind = "sync" /\ b \in actors
        BY <1>1, <1>5, <1>9
    <2>2. Watched(b) /\ Stayed(b) /\ StayedAway(b) /\ Alone(b)
        BY <2>1 DEF SyncInv
    <2>3. /\ job'[b].step = job[b].step /\ job'[b].product = job[b].product
          /\ job'[b].seen = job[b].seen /\ job'[b].draft = job[b].draft
          /\ job'[b].alone = job[b].alone /\ job'[b].was = seen(b)
        BY <1>6, <2>1
    <2>4. job[b].was \in [Customers -> SUBSET BOOLEAN]
        BY <1>3, <2>1 DEF SyncJobs
    <2>5. /\ \A c \in Customers \ {x} : job'[b].was[c] = job[b].was[c]
          /\ job'[b].was[x] = job[b].was[x] \cup {(x \in source')}
        BY <2>3, <2>4
    <2>6. Watched(b)'
        <3> SUFFICES ASSUME NEW c \in Customers
                     PROVE  (c \in source') \in job'[b].was[c]
            BY DEF Watched
        <3>1. CASE c = x
            <4> DEFINE here == x \in source'
            <4>1. job'[b].was[x] = job[b].was[x] \cup {here}
                BY <2>5
            <4> HIDE DEF here
            <4>2. here \in job'[b].was[x]
                BY <4>1
            <4> QED
                BY <3>1, <4>2 DEF here
        <3>2. CASE c # x
            <4>1. (c \in source') = (c \in source)
                BY <1>2, <3>2
            <4>2. (c \in source) \in job[b].was[c]
                BY <2>2 DEF Watched
            <4> QED
                BY <2>5, <3>2, <4>1, <4>2
        <3> QED
            BY <3>1, <3>2
    <2>7. \A v \in BOOLEAN : \A c \in Customers : job'[b].was[c] = {v} => job[b].was[c] = {v}
        <3> SUFFICES ASSUME NEW v \in BOOLEAN, job'[b].was[x] = {v}
                     PROVE  FALSE
            BY <2>5
        <3>1. (x \in source') = v /\ job[b].was[x] \subseteq {v}
            <4> DEFINE here == x \in source'
            <4>1. job[b].was[x] \cup {here} = {v}
                BY <2>5
            <4> HIDE DEF here
            <4>2. here = v /\ job[b].was[x] \subseteq {v}
                BY <4>1
            <4> QED
                BY <4>2 DEF here
        <3>2. (x \in source) \in job[b].was[x]
            BY <2>2 DEF Watched
        <3>3. (x \in source) = v
            BY <3>1, <3>2
        <3> QED
            BY <1>2, <3>1, <3>3
    <2>8. Stayed(b)'
        BY <2>2, <2>3, <2>7 DEF Stayed
    <2>9. StayedAway(b)'
        <3>1. subscribed' = subscribed
            BY <1>2
        <3>2. \A c \in Customers : job'[b].was[c] = {FALSE} => job[b].was[c] = {FALSE}
            BY <2>7
        <3>3. \A c \in Customers : Row(job[b], c)' = Row(job[b], c)
            BY <2>3, <3>1 DEF Row
        <3>4. SUFFICES ASSUME NEW c \in Customers, job'[b].was[c] = {FALSE}
              PROVE  /\ job'[b].step = "upsert" => c \notin job'[b].seen
                     /\ job'[b].step \in {"read", "upsert", "compare", "flip"}
                           => job'[b].draft[c] = "none"
                     /\ job'[b].step = "flip" /\ job'[b].alone
                           /\ subscribed'[job'[b].product][c] = "yes" => c \in job'[b].seen
                     /\ job'[b].step = "commit" /\ job'[b].alone => Row(job[b], c)' # "yes"
            BY DEF StayedAway
        <3>5. /\ job[b].step = "upsert" => c \notin job[b].seen
              /\ job[b].step \in {"read", "upsert", "compare", "flip"} => job[b].draft[c] = "none"
              /\ job[b].step = "flip" /\ job[b].alone
                    /\ subscribed[job[b].product][c] = "yes" => c \in job[b].seen
              /\ job[b].step = "commit" /\ job[b].alone => Row(job[b], c) # "yes"
            BY <2>2, <3>2, <3>4 DEF StayedAway
        <3> QED
            BY <2>3, <3>1, <3>3, <3>5
    <2>10. Alone(b)'
        BY <1>8, <2>2, <2>3 DEF Alone
    <2> QED
        BY <2>6, <2>8, <2>9, <2>10
<1> QED
    BY <1>7, <1>9 DEF SyncInv

-----------------------------------------------------------------------------
(* At first nobody synchronizes. *)
LEMMA SyncInit == Init => SyncTypes /\ SyncInv
<1> SUFFICES ASSUME Init PROVE SyncTypes /\ SyncInv
    OBVIOUS
<1>1. /\ source \in SUBSET Customers
      /\ subscribed \in [Products -> [Customers -> RowStates]]
    BY ProjectionsAssumption DEF Init, RowStates
<1>2. /\ job = [a \in actors |-> Idle]
      /\ Callers \subseteq actors /\ Workers \subseteq actors
      /\ Idle.kind = "idle"
    BY DEF Init, actors, Idle
<1>3. \A a \in actors : job[a] = Idle
    BY <1>2
<1>4. SyncTypes
    BY <1>1, <1>2, <1>3, IdleIsOther DEF SyncTypes
<1> QED
    BY <1>2, <1>3, <1>4 DEF SyncInv

(* Every step keeps the invariant: of a sync, of the subscribers, of all    *)
(* else.                                                                    *)
LEMMA SyncNext == SyncTypes /\ SyncInv /\ [Next]_vars => SyncTypes' /\ SyncInv'
<1> SUFFICES ASSUME SyncTypes, SyncInv, [Next]_vars
             PROVE  SyncTypes' /\ SyncInv'
    OBVIOUS
<1>1. Callers \subseteq actors /\ Workers \subseteq actors
    BY DEF actors
<1>2. ASSUME NEW a \in Callers, Synchronize(a)
      PROVE  SyncTypes' /\ SyncInv'
    BY <1>2, StartKeeps, StepKeeps, EndKeeps DEF Synchronize, SyncStep
<1>3. ASSUME NEW b \in actors, Elses(b)
      PROVE  SyncTypes' /\ SyncInv'
    BY <1>3, ElseIsQuiet, QuietKeeps
<1>4. CASE Elsewhere \/ UNCHANGED vars
    <2>1. CASE \E c \in Customers : SubscriberChanges(c)
        BY <2>1, SubscriberKeeps
    <2>2. CASE \/ \E c \in Customers : CooldownEnds(c)
               \/ \E l \in Lists, members \in SUBSET Customers : CommitList(l, members)
               \/ Proceed \/ UNCHANGED vars
        BY <2>2, ElsewhereIsQuiet, QuietKeeps
    <2> QED
        BY <1>4, <2>1, <2>2 DEF Elsewhere
<1>5. ASSUME NEW a \in Callers, Preview(a) \/ RollUp(a) \/ \E refresh \in BOOLEAN : StartRefresh(a, refresh)
      PROVE  Elses(a)
    BY <1>5 DEF Elses
<1>6. ASSUME NEW w \in Workers, Handle(w)
      PROVE  Elses(w)
    BY <1>6 DEF Elses, Handle
<1>7. ASSUME NEW b \in actors, FailRollup(b)
      PROVE  Elses(b)
    BY <1>7 DEF Elses
<1> QED
    BY <1>1, <1>2, <1>3, <1>4, <1>5, <1>6, <1>7 DEF Next

(* A sync tells the truth about every customer who stayed where he was      *)
(* (sync_subscriptions): the action property of the run, for all customers, *)
(* products, requests and workers.                                          *)
THEOREM SyncIsTruthful == Spec => SyncTellsTheTruth
<1> DEFINE Truth ==
        \A a \in Callers :
          At(a, "sync", "commit") /\ At(a, "sync", "audit")' =>
              \A c \in Customers :
                  LET is == subscribed'[job[a].product][c]
                  IN /\ job[a].was[c] = {TRUE} => is = "yes"
                     /\ job[a].was[c] = {FALSE} /\ job[a].alone => is # "yes"
<1>1. SyncTypes /\ SyncInv /\ [Next]_vars => [Truth]_vars
    <2> SUFFICES ASSUME SyncTypes, SyncInv, [Next]_vars, NEW a \in Callers,
                        job[a].kind = "sync", job[a].step = "commit",
                        job'[a].kind = "sync", job'[a].step = "audit",
                        NEW c \in Customers
                 PROVE  LET is == subscribed'[job[a].product][c]
                        IN /\ job[a].was[c] = {TRUE} => is = "yes"
                           /\ job[a].was[c] = {FALSE} /\ job[a].alone => is # "yes"
        BY DEF At
    <2>1. /\ Callers \subseteq actors /\ Workers \subseteq actors
          /\ \A b \in actors : job[b] \in SyncJobs \/ OtherJob(job[b])
        BY DEF SyncTypes, actors
    <2>2. job[a] \in SyncJobs
        BY <2>1, OtherIsNoSync
    <2>3. Quiet => FALSE
        BY <2>1, <2>2 DEF Quiet
    <2>4. \A b \in actors : ~Elses(b)
        BY <2>3, ElseIsQuiet
    <2>5. \A b \in Callers : SyncStep(b) => b = a /\ CommitSync(a)
        BY <2>1, <2>2, SyncMoves DEF SyncStep
    <2>6. \A b \in Callers, p \in Products : ~StartSync(b, p)
        <3> SUFFICES ASSUME NEW b \in Callers, NEW p \in Products, StartSync(b, p)
                     PROVE  FALSE
            OBVIOUS
        <3>1. a # b
            BY DEF StartSync, Idle
        <3>2. job'[a] = IF a \in Alike(p) THEN [job[a] EXCEPT !.alone = FALSE] ELSE job[a]
            BY <2>1, <3>1 DEF StartSync
        <3> QED
            BY <2>2, <3>2 DEF SyncJobs
    <2>7. \A b \in Callers : ~(AuditSync(b) \/ AbandonSync(b))
        <3> SUFFICES ASSUME NEW b \in Callers, AuditSync(b) \/ AbandonSync(b)
                     PROVE  FALSE
            OBVIOUS
        <3>1. job'[a] = IF a = b THEN Idle ELSE job[a]
            BY <2>1 DEF AuditSync, AbandonSync, SyncTypes
        <3> QED
            BY <3>1 DEF Idle
    <2>8. \A x \in Customers : ~SubscriberChanges(x)
        <3> SUFFICES ASSUME NEW x \in Customers, SubscriberChanges(x)
                     PROVE  FALSE
            OBVIOUS
        <3>1. job'[a] = [job[a] EXCEPT !.was[x] = @ \cup {(x \in source')}]
            BY <2>1 DEF SubscriberChanges
        <3> QED
            BY <2>2, <3>1 DEF SyncJobs
    <2>9. CommitSync(a)
        BY <2>1, <2>3, <2>4, <2>5, <2>6, <2>7, <2>8, ElsewhereIsQuiet
           DEF Next, Synchronize, SyncStep, Elsewhere, Elses, Handle
    <2>10. subscribed'[job[a].product][c] = Row(job[a], c)
        <3>1. subscribed'[job[a].product] = [d \in Customers |-> Row(job[a], d)]
            BY <2>9, SyncMoves DEF SyncStep
        <3> QED
            BY <3>1
    <2>11. Stayed(a) /\ StayedAway(a)
        BY DEF SyncInv
    <2> QED
        BY <2>10, <2>11 DEF Stayed, StayedAway, Row
<1> HIDE DEF Truth
<1>2. Spec => []([Truth]_vars)
    BY <1>1, SyncInit, SyncNext, PTL DEF Spec
<1> QED
    BY <1>2 DEF SyncTellsTheTruth, Truth

-----------------------------------------------------------------------------
(* The eligibility preview.  First the arithmetic of its counts: the sum    *)
(* over the zones is a fold, which is summed up by induction.  (Induction   *)
(* is by the least number outside a set, WFMin: the theorems that take an   *)
(* operator are of no use to the provers.)                                  *)

(* Induction, for a set of numbers: one that is not in it would have a      *)
(* predecessor that is not in it.                                           *)
LEMMA SetInduction ==
    ASSUME NEW S, 0 \in S, \A n \in Nat : n \in S => n + 1 \in S
    PROVE  \A n \in Nat : n \in S
<1> DEFINE T == {n \in Nat : n \notin S}
           R == OpToRel(<, Nat)
<1>1. SUFFICES ASSUME T # {} PROVE FALSE
    OBVIOUS
<1>2. \E x \in T : \A y \in T : ~ (<<y, x>> \in R)
    <2> HIDE DEF R
    <2>1. IsWellFoundedOn(R, Nat)
        BY NatLessThanWellFounded DEF R
    <2> QED
        BY <1>1, <2>1, WFMin
<1>3. PICK x \in T : \A y \in T : ~ (<<y, x>> \in R)
    BY <1>2
<1>4. x \in Nat /\ x # 0 /\ x - 1 \in Nat /\ x - 1 < x
    OBVIOUS
<1>5. x - 1 \in T
    BY <1>4
<1>6. <<x - 1, x>> \in R
    BY <1>4 DEF OpToRel
<1> QED
    BY <1>3, <1>5, <1>6

(* MapThenSumSet sums up f, one pick after the other.                       *)
Pick(s) == CHOOSE x \in s : TRUE
Sums(g, f, P) == g = [s \in P |-> IF s = {} THEN 0 ELSE f[Pick(s)] + g[s \ {Pick(s)}]]

(* The subsets of D with no more than n elements.                           *)
UpTo(D, n) == {s \in SUBSET D : Cardinality(s) <= n}

(* One element less of a finite set.                                        *)
LEMMA PickIn ==
    ASSUME NEW D, IsFiniteSet(D), NEW s \in SUBSET D, s # {}
    PROVE  /\ Pick(s) \in s /\ s \ {Pick(s)} \in SUBSET D
           /\ IsFiniteSet(s) /\ IsFiniteSet(s \ {Pick(s)})
           /\ Cardinality(s) \in Nat /\ Cardinality(s) > 0
           /\ Cardinality(s \ {Pick(s)}) = Cardinality(s) - 1
<1>1. Pick(s) \in s
    BY DEF Pick
<1>2. IsFiniteSet(s)
    BY FS_Subset
<1> QED
    BY <1>1, <1>2, FS_Subset, FS_CardinalityType, FS_EmptySet, FS_RemoveElement

(* Only the empty set has no more than no elements.                         *)
LEMMA ZeroIsEmpty ==
    ASSUME NEW D, IsFiniteSet(D), NEW s \in UpTo(D, 0)
    PROVE  s = {}
<1>1. s \in SUBSET D /\ Cardinality(s) <= 0
    BY DEF UpTo
<1>2. SUFFICES ASSUME s # {} PROVE FALSE
    OBVIOUS
<1>3. Cardinality(s) \in Nat /\ Cardinality(s) > 0
    BY <1>1, <1>2, PickIn
<1> QED
    BY <1>1, <1>3

(* Without its pick a set has one element less.                             *)
LEMMA PickUpTo ==
    ASSUME NEW D, IsFiniteSet(D), NEW n \in Nat, NEW s \in UpTo(D, n + 1), s # {}
    PROVE  Pick(s) \in s /\ s \in SUBSET D /\ s \ {Pick(s)} \in UpTo(D, n)
<1>1. s \in SUBSET D /\ Cardinality(s) <= n + 1
    BY DEF UpTo
<1>2. /\ Pick(s) \in s
      /\ s \ {Pick(s)} \in SUBSET D /\ Cardinality(s) \in Nat
      /\ Cardinality(s \ {Pick(s)}) = Cardinality(s) - 1
    BY <1>1, PickIn
<1>3. Cardinality(s \ {Pick(s)}) <= n
    BY <1>1, <1>2
<1> QED
    BY <1>1, <1>2, <1>3 DEF UpTo

(* The sums of all subsets of a finite set exist, by induction on how large *)
(* the subsets are.                                                         *)
LEMMA SumsExist ==
    ASSUME NEW D, IsFiniteSet(D), NEW f
    PROVE  \E g : Sums(g, f, SUBSET D)
<1> DEFINE N == {n \in Nat : \E g : Sums(g, f, UpTo(D, n))}
<1>1. 0 \in N
    <2>1. \A s \in UpTo(D, 0) : s = {}
        BY ZeroIsEmpty
    <2>2. Sums([s \in UpTo(D, 0) |-> 0], f, UpTo(D, 0))
        BY <2>1 DEF Sums
    <2> QED
        BY <2>2
<1>2. ASSUME NEW n \in Nat, n \in N PROVE n + 1 \in N
    <2>1. PICK g : Sums(g, f, UpTo(D, n))
        BY <1>2
    <2> DEFINE h == [s \in UpTo(D, n + 1) |-> IF s = {} THEN 0 ELSE f[Pick(s)] + g[s \ {Pick(s)}]]
    <2>2. ASSUME NEW s \in UpTo(D, n + 1), s # {}
          PROVE  s \ {Pick(s)} \in UpTo(D, n)
        BY <2>2, PickUpTo
    <2>3. ASSUME NEW s \in UpTo(D, n)
          PROVE  s \in UpTo(D, n + 1) /\ h[s] = g[s]
        <3>1. s \in UpTo(D, n + 1)
            <4>1. Cardinality(s) \in Nat
                BY FS_Subset, FS_CardinalityType DEF UpTo
            <4> QED
                BY <4>1 DEF UpTo
        <3>2. g[s] = IF s = {} THEN 0 ELSE f[Pick(s)] + g[s \ {Pick(s)}]
            BY <2>1 DEF Sums
        <3> QED
            BY <3>1, <3>2
    <2>4. ASSUME NEW s \in UpTo(D, n + 1)
          PROVE  h[s] = IF s = {} THEN 0 ELSE f[Pick(s)] + h[s \ {Pick(s)}]
        <3> HIDE DEF h
        <3>1. h[s] = IF s = {} THEN 0 ELSE f[Pick(s)] + g[s \ {Pick(s)}]
            BY DEF h
        <3> QED
            BY <3>1, <2>2, <2>3
    <2>5. Sums(h, f, UpTo(D, n + 1))
        <3>1. h = [s \in UpTo(D, n + 1) |-> h[s]]
            OBVIOUS
        <3> HIDE DEF h
        <3> QED
            BY <2>4, <3>1 DEF Sums
    <2> QED
        BY <2>5
<1>3. Cardinality(D) \in Nat /\ Cardinality(D) \in N
    <2>1. Cardinality(D) \in Nat
        BY FS_CardinalityType
    <2> HIDE DEF N
    <2> QED
        BY <1>1, <1>2, <2>1, SetInduction
<1>4. UpTo(D, Cardinality(D)) = SUBSET D
    BY FS_Subset DEF UpTo
<1> QED
    BY <1>3, <1>4

(* What MapThenSumSet comes to for a function.                              *)
SumOf(f, D) == (CHOOSE g : Sums(g, f, SUBSET D))[D]

(* What is apart is counted apart.                                          *)
LEMMA DisjointSum ==
    ASSUME NEW S, IsFiniteSet(S), NEW T, IsFiniteSet(T), \A x \in S : x \notin T
    PROVE  IsFiniteSet(S \cup T) /\ Cardinality(S \cup T) = Cardinality(S) + Cardinality(T)
<1>1. S \cap T = {}
    OBVIOUS
<1>2. Cardinality(S) \in Nat /\ Cardinality(T) \in Nat /\ Cardinality({}) = 0
    BY FS_CardinalityType, FS_EmptySet
<1>3. IsFiniteSet(S \cup T) /\ Cardinality(S \cup T) = Cardinality(S) + Cardinality(T) - Cardinality(S \cap T)
    BY FS_Union
<1>4. Cardinality(S \cap T) = 0
    BY <1>1, <1>2, Zenon
<1> QED
    BY <1>2, <1>3, <1>4

(* How often each value occurs adds up to how many there are, by induction  *)
(* on the number of values.                                                 *)
LEMMA FibersAddUp ==
    ASSUME NEW R, IsFiniteSet(R), NEW h, NEW f, IsFiniteSet(DOMAIN f),
           \A r \in R : h[r] \in DOMAIN f,
           \A z \in DOMAIN f : f[z] = Cardinality({r \in R : h[r] = z})
    PROVE  SumOf(f, DOMAIN f) = Cardinality(R)
<1> DEFINE D == DOMAIN f
           Over(s) == {r \in R : h[r] \in s}
           g == CHOOSE g : Sums(g, f, SUBSET D)
<1>1. Sums(g, f, SUBSET D)
    BY SumsExist
<1> HIDE DEF g
<1> DEFINE N == {n \in Nat : \A s \in UpTo(D, n) : g[s] = Cardinality(Over(s))}
<1>2. \A s \in SUBSET D : g[s] = IF s = {} THEN 0 ELSE f[Pick(s)] + g[s \ {Pick(s)}]
    BY <1>1 DEF Sums
<1> HIDE DEF D
<1>3. 0 \in N
    <2>1. ASSUME NEW s \in UpTo(D, 0) PROVE g[s] = Cardinality(Over(s))
        <3>1. s = {}
            BY ZeroIsEmpty DEF D
        <3>2. Over(s) = {}
            BY <3>1
        <3> QED
            BY <1>2, <3>1, <3>2, FS_EmptySet
    <2> QED
        BY <2>1
<1>4. ASSUME NEW n \in Nat, n \in N PROVE n + 1 \in N
    <2>1. ASSUME NEW s \in UpTo(D, n + 1), s # {}
          PROVE g[s] = Cardinality(Over(s))
        <3> DEFINE x == Pick(s)
                   t == s \ {x}
        <3>1. x \in s /\ s \in SUBSET D /\ t \in UpTo(D, n)
            BY <2>1, PickUpTo DEF D
        <3>2. g[s] = f[x] + g[t] /\ g[t] = Cardinality(Over(t))
            BY <1>2, <1>4, <2>1, <3>1
        <3>3. f[x] = Cardinality(Over({x}))
            <4>1. Over({x}) = {r \in R : h[r] = x}
                OBVIOUS
            <4> QED
                BY <3>1, <4>1 DEF D
        <3> HIDE DEF x, t
        <3>4. Over(s) = Over({x}) \cup Over(t) /\ \A r \in Over({x}) : r \notin Over(t)
            BY <3>1 DEF t
        <3>5. IsFiniteSet(Over({x})) /\ IsFiniteSet(Over(t))
            BY FS_Subset
        <3> HIDE DEF Over
        <3>6. Cardinality(Over({x}) \cup Over(t)) = Cardinality(Over({x})) + Cardinality(Over(t))
            BY <3>4, <3>5, DisjointSum
        <3>7. Cardinality(Over(s)) = Cardinality(Over({x}) \cup Over(t))
            BY <3>4
        <3> QED
            BY <3>2, <3>3, <3>6, <3>7
    <2>2. ASSUME NEW s \in UpTo(D, n + 1), s = {}
          PROVE g[s] = Cardinality(Over(s))
        <3>1. Over(s) = {}
            BY <2>2
        <3> QED
            BY <1>2, <2>2, <3>1, FS_EmptySet
    <2>3. \A s \in UpTo(D, n + 1) : g[s] = Cardinality(Over(s))
        BY <2>1, <2>2
    <2> QED
        BY <2>3
<1>5. Cardinality(D) \in Nat /\ Cardinality(D) \in N /\ D \in UpTo(D, Cardinality(D))
    <2>1. Cardinality(D) \in Nat
        BY FS_CardinalityType DEF D
    <2>2. D \in UpTo(D, Cardinality(D))
        BY <2>1 DEF UpTo
    <2> HIDE DEF N
    <2> QED
        BY <1>3, <1>4, <2>1, <2>2, SetInduction
<1>6. g[D] = Cardinality(Over(D))
    BY <1>5
<1>7. Over(D) = R
    BY DEF D
<1> QED
    BY <1>6, <1>7 DEF D, g, SumOf

-----------------------------------------------------------------------------
(* Members no list keeps from being called, those among them whom an        *)
(* excluded product serves, and the one row each of them is joined into.    *)
Clear == {c \in Customers : DndMatches(c) = {}}
Served(ex) == {c \in Clear : \E p \in ex : subscribed[p][c] = "yes"}
JoinedRow(c, ex) ==
    [customer |-> c, list |-> None,
     product |-> IF \E p \in ex : subscribed[p][c] = "yes" THEN "subscribed" ELSE None,
     cooling |-> (c \in cooling)]
RowsOf(S, ex) == {JoinedRow(c, ex) : c \in S}

(* A member that no list keeps from being called is in one joined row, and  *)
(* only such a member is in a row without a list.                           *)
LEMMA CallableRows ==
    ASSUME NEW ex
    PROVE  {r \in Joined(ex) : r.list = None} = RowsOf(Clear, ex)
<1> DEFINE of(c) == [customer : {c}, list : OrNull(DndMatches(c)),
                     product : OrNull(Subscription(c, ex)), cooling : {(c \in cooling)}]
<1>1. Joined(ex) = UNION {of(c) : c \in Customers}
    BY DEF Joined
<1>2. ASSUME NEW c \in Customers, NEW r \in of(c), r.list = None
      PROVE  c \in Clear /\ r = JoinedRow(c, ex)
    <2>1. DndMatches(c) = {}
        BY <1>2, ProjectionsAssumption DEF OrNull, DndMatches
    <2>2. /\ r = [customer |-> r.customer, list |-> r.list, product |-> r.product, cooling |-> r.cooling]
          /\ r.customer = c /\ r.cooling = (c \in cooling)
          /\ r.product \in OrNull(Subscription(c, ex))
        BY <1>2
    <2>3. r.product = IF \E p \in ex : subscribed[p][c] = "yes" THEN "subscribed" ELSE None
        BY <2>2 DEF OrNull, Subscription
    <2> QED
        BY <1>2, <2>1, <2>2, <2>3 DEF Clear, JoinedRow
<1>3. ASSUME NEW c \in Clear
      PROVE  c \in Customers /\ JoinedRow(c, ex) \in of(c) /\ JoinedRow(c, ex).list = None
    BY DEF Clear, JoinedRow, OrNull, Subscription
<1> HIDE DEF of
<1>4. ASSUME NEW r \in Joined(ex), r.list = None
      PROVE  r \in RowsOf(Clear, ex)
    BY <1>1, <1>2, <1>4 DEF RowsOf
<1>5. ASSUME NEW r \in RowsOf(Clear, ex)
      PROVE  r \in Joined(ex) /\ r.list = None
    BY <1>1, <1>3 DEF RowsOf
<1> QED
    BY <1>4, <1>5

(* There are as many rows as members they are of.                           *)
LEMMA RowsCount ==
    ASSUME NEW ex, NEW S \in SUBSET Customers
    PROVE  /\ IsFiniteSet(RowsOf(S, ex)) /\ IsFiniteSet(S)
           /\ Cardinality(RowsOf(S, ex)) = Cardinality(S)
           /\ Cardinality(S) \in Nat
<1> DEFINE f == [c \in S |-> JoinedRow(c, ex)]
<1>1. IsFiniteSet(S) /\ Cardinality(S) \in Nat
    BY ProjectionsAssumption, FS_Subset, FS_CardinalityType
<1>2. \A c \in S : JoinedRow(c, ex).customer = c
    BY DEF JoinedRow
<1>3. f \in Bijection(S, RowsOf(S, ex))
    BY <1>2 DEF Bijection, Injection, Surjection, IsInjective, RowsOf
<1>4. ExistsBijection(S, RowsOf(S, ex))
    BY <1>3 DEF ExistsBijection
<1> QED
    BY <1>1, <1>4, FS_Bijection

(* What the totals count are members: those an excluded product serves,     *)
(* those who cool down, and those who are left.                             *)
LEMMA TotalsCount ==
    ASSUME NEW ex
    PROVE  /\ CountTotals(ex).subscriber = Cardinality(Served(ex))
           /\ CountTotals(ex).cooldown = Cardinality((Clear \ Served(ex)) \cap cooling)
           /\ CountTotals(ex).eligible = Cardinality((Clear \ Served(ex)) \ cooling)
           /\ Left(ex) = RowsOf((Clear \ Served(ex)) \ cooling, ex)
<1> DEFINE callable == {r \in Joined(ex) : r.list = None}
<1>1. callable = RowsOf(Clear, ex)
    BY CallableRows
<1>2. \A c \in Clear :
         /\ JoinedRow(c, ex).product # None <=> c \in Served(ex)
         /\ JoinedRow(c, ex).cooling <=> c \in cooling
    BY ProjectionsAssumption DEF JoinedRow, Served
<1>3. Served(ex) \subseteq Clear /\ Clear \subseteq Customers
    BY DEF Served, Clear
<1>4. /\ Left(ex) = {r \in callable : r.product = None /\ ~r.cooling}
      /\ CountTotals(ex).subscriber = Cardinality({r \in callable : r.product # None})
      /\ CountTotals(ex).cooldown = Cardinality({r \in callable : r.product = None /\ r.cooling})
      /\ CountTotals(ex).eligible = Cardinality(Left(ex))
    <2>1. Left(ex) = {r \in callable : r.product = None /\ ~r.cooling}
        BY DEF Left
    <2>2. /\ CountTotals(ex).subscriber = Cardinality({r \in callable : r.product # None})
          /\ CountTotals(ex).cooldown = Cardinality({r \in callable : r.product = None /\ r.cooling})
          /\ CountTotals(ex).eligible = Cardinality(Left(ex))
        BY DEF CountTotals
    <2> QED
        BY <2>1, <2>2
<1> HIDE DEF callable
<1>5. {r \in callable : r.product # None} = RowsOf(Served(ex), ex)
    BY <1>1, <1>2, <1>3 DEF RowsOf
<1>6. {r \in callable : r.product = None /\ r.cooling} = RowsOf((Clear \ Served(ex)) \cap cooling, ex)
    BY <1>1, <1>2, <1>3 DEF RowsOf
<1>7. Left(ex) = RowsOf((Clear \ Served(ex)) \ cooling, ex)
    BY <1>1, <1>2, <1>3, <1>4 DEF RowsOf
<1>8. /\ Cardinality(RowsOf(Served(ex), ex)) = Cardinality(Served(ex))
      /\ Cardinality(RowsOf((Clear \ Served(ex)) \cap cooling, ex)) =
             Cardinality((Clear \ Served(ex)) \cap cooling)
      /\ Cardinality(RowsOf((Clear \ Served(ex)) \ cooling, ex)) =
             Cardinality((Clear \ Served(ex)) \ cooling)
    <2>1. /\ Served(ex) \in SUBSET Customers /\ (Clear \ Served(ex)) \cap cooling \in SUBSET Customers
          /\ (Clear \ Served(ex)) \ cooling \in SUBSET Customers
        BY <1>3
    <2> QED
        BY <2>1, RowsCount
<1> QED
    BY <1>4, <1>5, <1>6, <1>7, <1>8

(* The three are all whom no list keeps from being called.                  *)
LEMMA ClearAddUp ==
    ASSUME NEW ex
    PROVE  CountTotals(ex).subscriber + CountTotals(ex).cooldown + CountTotals(ex).eligible
             = Cardinality(Clear)
<1> DEFINE A == Served(ex)
           B == (Clear \ Served(ex)) \cap cooling
           C == (Clear \ Served(ex)) \ cooling
<1>1. A \in SUBSET Customers /\ B \in SUBSET Customers /\ C \in SUBSET Customers /\ A \cup B \in SUBSET Customers
    BY DEF Served, Clear
<1>2. (\A c \in A : c \notin B) /\ (\A c \in A \cup B : c \notin C) /\ (A \cup B) \cup C = Clear
    BY DEF Served
<1>3. /\ CountTotals(ex).subscriber = Cardinality(A) /\ CountTotals(ex).cooldown = Cardinality(B)
      /\ CountTotals(ex).eligible = Cardinality(C)
    BY TotalsCount
<1> HIDE DEF A, B, C
<1>4. IsFiniteSet(A) /\ IsFiniteSet(B) /\ IsFiniteSet(C) /\ IsFiniteSet(A \cup B)
      /\ Cardinality(A) \in Nat /\ Cardinality(B) \in Nat /\ Cardinality(C) \in Nat
    BY <1>1, RowsCount
<1>5. Cardinality(A \cup B) = Cardinality(A) + Cardinality(B)
    BY <1>2, <1>4, DisjointSum
<1>6. Cardinality(Clear) = Cardinality(A \cup B) + Cardinality(C)
    BY <1>2, <1>4, DisjointSum
<1> QED
    BY <1>3, <1>4, <1>5, <1>6

(* The rows left of a zone are those whom rotate_zone would number.         *)
LEMMA ZoneRows ==
    ASSUME NEW ex, NEW z
    PROVE  Cardinality({r \in Left(ex) : Home[r.customer] = z}) = Cardinality(Eligible(z, ex))
<1> DEFINE S == (Clear \ Served(ex)) \ cooling
           Z == {c \in S : Home[c] = z}
<1>1. Left(ex) = RowsOf(S, ex) /\ S \subseteq Customers
    BY TotalsCount DEF Clear
<1>2. \A c \in S : JoinedRow(c, ex).customer = c
    BY DEF JoinedRow
<1>3. Z = Eligible(z, ex)
    <2>1. \A c : DndMatches(c) = {} <=> \A l \in Lists : <<l, c>> \notin dnd
        BY DEF DndMatches
    <2>2. \A c : c \in Z <=> c \in Eligible(z, ex)
        BY <2>1 DEF Clear, Served, Eligible
    <2> HIDE DEF Z
    <2> QED
        BY <2>2
<1> HIDE DEF S
<1>4. {r \in Left(ex) : Home[r.customer] = z} = RowsOf(Z, ex)
    <2>1. \A r : r \in Left(ex) /\ Home[r.customer] = z => r \in RowsOf(Z, ex)
        BY <1>1, <1>2 DEF RowsOf
    <2>2. \A r : r \in RowsOf(Z, ex) => r \in Left(ex) /\ Home[r.customer] = z
        BY <1>1, <1>2 DEF RowsOf
    <2> HIDE DEF Z
    <2> QED
        BY <2>1, <2>2
<1>5. Z \in SUBSET Customers
    BY <1>1
<1> HIDE DEF Z
<1> QED
    BY <1>3, <1>4, <1>5, RowsCount

-----------------------------------------------------------------------------
(* The inductive invariant: a preview that nothing has moved under holds    *)
(* the counts of what there is.                                             *)
PreviewJob(j) ==
    /\ j = [x \in DOMAIN j |-> j[x]]
    /\ {"kind", "step", "excluded", "totals", "zones", "still"} \subseteq DOMAIN j
    /\ j.excluded \in SUBSET Products

Counted(j) ==
    /\ PreviewJob(j)
    /\ \A e \in SUBSET Products :
           j.still /\ j.excluded = e =>
               /\ j.totals = CountTotals(e)
               /\ j.step = "shown" => j.zones = CountZones(e)

PreviewInv ==
    \A a \in actors : job[a].kind = "preview" => Counted(job[a])

(* Tables that stay are counted alike.                                      *)
LEMMA SameCounts ==
    ASSUME subscribed' = subscribed, dnd' = dnd, cooling' = cooling, NEW CONSTANT e
    PROVE  CountTotals(e)' = CountTotals(e) /\ CountZones(e)' = CountZones(e)
BY DEF CountTotals, CountZones, Left, Joined, DndMatches, Subscription

(* A step that neither moves what is counted nor touches a preview.         *)
LEMMA UntouchedKeeps ==
    ASSUME PreviewInv, subscribed' = subscribed, dnd' = dnd, cooling' = cooling,
           \A a \in actors : job'[a].kind = "preview" => job'[a] = job[a]
    PROVE  PreviewInv'
<1> SUFFICES ASSUME NEW a \in actors, job'[a].kind = "preview"
             PROVE  Counted(job[a])'
    BY DEF PreviewInv
<1>1. job'[a] = job[a] /\ Counted(job[a])
    BY DEF PreviewInv
<1>2. PreviewJob(job[a])'
    BY <1>1 DEF Counted, PreviewJob
<1>3. ASSUME NEW e \in SUBSET Products, job'[a].still, job'[a].excluded = e
      PROVE  /\ job'[a].totals = CountTotals(e)'
             /\ job'[a].step = "shown" => job'[a].zones = CountZones(e)'
    <2>1. CountTotals(e)' = CountTotals(e) /\ CountZones(e)' = CountZones(e)
        BY SameCounts
    <2> QED
        BY <1>1, <1>3, <2>1 DEF Counted
<1> QED
    BY <1>2, <1>3 DEF Counted
(* A step that tells every preview it has moved what is counted.            *)
LEMMA DisturbedKeeps ==
    ASSUME \A a \in actors : job'[a].kind = "preview" =>
               PreviewJob(job'[a]) /\ job'[a].still = FALSE
    PROVE  PreviewInv'
<1> SUFFICES ASSUME NEW a \in actors, job'[a].kind = "preview"
             PROVE  Counted(job[a])'
    BY DEF PreviewInv
<1>1. PreviewJob(job[a])'
    BY DEF PreviewJob
<1> QED
    BY <1>1 DEF Counted

(* Moved tells every preview.                                               *)
LEMMA MovedIsDisturbed ==
    ASSUME NEW jobs, NEW a \in actors,
           jobs[a].kind = "preview" => PreviewJob(jobs[a]),
           Moved(jobs)[a].kind = "preview"
    PROVE  PreviewJob(Moved(jobs)[a]) /\ Moved(jobs)[a].still = FALSE
<1>1. Moved(jobs)[a] = IF jobs[a].kind = "preview" THEN [jobs[a] EXCEPT !.still = FALSE]
                       ELSE jobs[a]
    BY DEF Moved
<1>2. jobs[a].kind = "preview"
    BY <1>1
<1> QED
    BY <1>1, <1>2 DEF PreviewJob

(* A job that becomes none of a preview.                                    *)
LEMMA ReplacedKeeps ==
    ASSUME SyncTypes, PreviewInv, subscribed' = subscribed, dnd' = dnd, cooling' = cooling,
           NEW b \in actors, NEW j, job' = [job EXCEPT ![b] = j], j.kind # "preview"
    PROVE  PreviewInv'
<1>1. \A a \in actors : job'[a] = IF a = b THEN j ELSE job[a]
    BY DEF SyncTypes
<1> QED
    BY <1>1, UntouchedKeeps

(* A sync moves what is counted when it commits, and only then.             *)
LEMMA SyncKeepsPreviews ==
    ASSUME SyncTypes, PreviewInv, NEW a \in Callers, Synchronize(a)
    PROVE  PreviewInv'
<1> USE DEF dbVars, runVars
<1>1. /\ a \in actors /\ job = [b \in actors |-> job[b]]
      /\ \A b \in actors : job[b] \in SyncJobs \/ OtherJob(job[b])
    BY DEF SyncTypes, actors
<1>2. CASE \E p \in Products : StartSync(a, p)
    <2>1. PICK p \in Products : StartSync(a, p)
        BY <1>2
    <2>2. \A b \in Alike(p) : b \in actors /\ job[b] \in SyncJobs
        BY <1>1, OtherIsNoSync DEF Alike, actors
    <2>3. \A k \in SyncJobs : [k EXCEPT !.alone = FALSE].kind = "sync"
        BY DEF SyncJobs
    <2>4. \A b \in actors : job'[b].kind = "preview" => job'[b] = job[b]
        BY <2>1, <2>2, <2>3 DEF StartSync
    <2> QED
        BY <2>1, <2>4, UntouchedKeeps DEF StartSync
<1>3. CASE ReadSubscribers(a) \/ Upsert(a) \/ Compare(a) \/ Flip(a)
    <2>1. \A b \in actors \ {a} : job'[b] = job[b]
        BY <1>1, <1>3 DEF ReadSubscribers, Upsert, Compare, Flip
    <2>2. job'[a] \in SyncJobs
        BY <1>3, SyncMoves DEF SyncStep
    <2>3. job'[a].kind = "sync"
        BY <2>2 DEF SyncJobs
    <2> QED
        BY <1>3, <2>1, <2>3, UntouchedKeeps DEF ReadSubscribers, Upsert, Compare, Flip
<1>4. CASE CommitSync(a)
    <2> DEFINE jobs == [job EXCEPT ![a].step = "audit"]
    <2>1. job' = Moved(jobs)
        BY <1>4 DEF CommitSync
    <2>2. \A b \in actors \ {a} : jobs[b] = job[b]
        BY <1>1
    <2>3. job[a] \in SyncJobs
        BY <1>1, <1>4, OtherIsNoSync DEF CommitSync, At
    <2>4. jobs[a].kind = "sync"
        BY <1>1, <2>3 DEF SyncJobs
    <2> HIDE DEF jobs
    <2>5. \A b \in actors : jobs[b].kind = "preview" => PreviewJob(jobs[b])
        BY <2>2, <2>4 DEF PreviewInv, Counted
    <2> QED
        BY <2>1, <2>5, MovedIsDisturbed, DisturbedKeeps
<1>5. CASE AuditSync(a) \/ AbandonSync(a)
    <2>1. job' = [job EXCEPT ![a] = Idle] /\ Idle.kind # "preview"
        BY <1>5 DEF AuditSync, AbandonSync, Idle
    <2> QED
        BY <1>1, <1>5, <2>1, ReplacedKeeps DEF AuditSync, AbandonSync
<1> QED
    BY <1>2, <1>3, <1>4, <1>5 DEF Synchronize

(* A preview counts what is there.                                          *)
LEMMA PreviewKeeps ==
    ASSUME SyncTypes, PreviewInv, NEW a \in actors, Preview(a)
    PROVE  PreviewInv'
<1> USE DEF dbVars, runVars
<1>1. job = [b \in actors |-> job[b]]
    BY DEF SyncTypes
<1>2. ASSUME NEW x \in SUBSET Products, StartPreview(a, x)
      PROVE  PreviewInv'
    <2> DEFINE j == [kind |-> "preview", step |-> "zones", excluded |-> x,
                     totals |-> CountTotals(x), zones |-> <<>>, still |-> TRUE]
    <2>1. job' = [job EXCEPT ![a] = j] /\ subscribed' = subscribed /\ dnd' = dnd /\ cooling' = cooling
        BY <1>2 DEF StartPreview
    <2>2. PICK k : k = j
        OBVIOUS
    <2>3. /\ PreviewJob(k) /\ k.excluded = x /\ k.totals = CountTotals(x) /\ k.step = "zones"
        BY <2>2 DEF PreviewJob
    <2>4. \A b \in actors : job'[b] = IF b = a THEN k ELSE job[b]
        BY <1>1, <2>1, <2>2
    <2> HIDE DEF j
    <2>5. CountTotals(x)' = CountTotals(x)
        BY <2>1, SameCounts
    <2>6. SUFFICES ASSUME NEW b \in actors, job'[b].kind = "preview"
                   PROVE  Counted(job[b])'
        BY DEF PreviewInv
    <2>7. CASE b = a
        <3>1. PreviewJob(job[b])'
            BY <2>3, <2>4, <2>7 DEF PreviewJob
        <3>2. ASSUME NEW e \in SUBSET Products, job'[b].excluded = e
              PROVE  /\ job'[b].totals = CountTotals(e)' /\ job'[b].step = "zones"
            BY <2>3, <2>4, <2>5, <2>7, <3>2
        <3> QED
            BY <3>1, <3>2 DEF Counted
    <2>8. CASE b # a
        <3>1. job'[b] = job[b] /\ Counted(job[b])
            BY <2>4, <2>6, <2>8 DEF PreviewInv
        <3>2. PreviewJob(job[b])'
            BY <3>1 DEF Counted, PreviewJob
        <3>3. \A e \in SUBSET Products :
                 CountTotals(e)' = CountTotals(e) /\ CountZones(e)' = CountZones(e)
            BY <2>1, SameCounts
        <3> QED
            BY <3>1, <3>2, <3>3 DEF Counted
    <2> QED
        BY <2>7, <2>8
<1>3. CASE PreviewZones(a)
    <2>0. job[a].kind = "preview" /\ Counted(job[a])
        BY <1>3 DEF PreviewZones, At, PreviewInv
    <2>1. PICK x \in SUBSET Products : x = job[a].excluded
        BY <2>0 DEF Counted, PreviewJob
    <2>2. PICK k : k = [[job[a] EXCEPT !.step = "shown"] EXCEPT !.zones = CountZones(x)]
        OBVIOUS
    <2>3. job' = [job EXCEPT ![a] = k] /\ subscribed' = subscribed /\ dnd' = dnd /\ cooling' = cooling
        BY <1>1, <1>3, <2>1, <2>2 DEF PreviewZones
    <2>4. \A b \in actors : job'[b] = IF b = a THEN k ELSE job[b]
        BY <1>1, <2>3
    <2>5. /\ PreviewJob(k) /\ k.excluded = x /\ k.zones = CountZones(x)
          /\ k.still = job[a].still /\ k.totals = job[a].totals
        BY <2>0, <2>1, <2>2 DEF Counted, PreviewJob
    <2>6. k.still => k.totals = CountTotals(x)
        BY <2>0, <2>1, <2>5 DEF Counted
    <2>7. SUFFICES ASSUME NEW b \in actors, job'[b].kind = "preview"
                   PROVE  Counted(job[b])'
        BY DEF PreviewInv
    <2>8. \A e \in SUBSET Products :
             CountTotals(e)' = CountTotals(e) /\ CountZones(e)' = CountZones(e)
        BY <2>3, SameCounts
    <2>9. CASE b = a
        <3>1. PreviewJob(job[b])'
            BY <2>4, <2>5, <2>9 DEF PreviewJob
        <3>2. ASSUME NEW e \in SUBSET Products, job'[b].excluded = e, job'[b].still
              PROVE  job'[b].totals = CountTotals(e)' /\ job'[b].zones = CountZones(e)'
            BY <2>4, <2>5, <2>6, <2>8, <2>9, <3>2
        <3> QED
            BY <3>1, <3>2 DEF Counted
    <2>10. CASE b # a
        <3>1. job'[b] = job[b] /\ Counted(job[b])
            BY <2>4, <2>7, <2>10 DEF PreviewInv
        <3>2. PreviewJob(job[b])'
            BY <3>1 DEF Counted, PreviewJob
        <3> QED
            BY <2>8, <3>1, <3>2 DEF Counted
    <2> QED
        BY <2>9, <2>10
<1>4. CASE EndPreview(a)
    <2>1. job' = [job EXCEPT ![a] = Idle] /\ Idle.kind # "preview"
        BY <1>4 DEF EndPreview, Idle
    <2> QED
        BY <1>4, <2>1, ReplacedKeeps DEF EndPreview
<1> QED
    BY <1>2, <1>3, <1>4 DEF Preview
(* A rollup counts something else.                                          *)
LEMMA RollupKeeps ==
    ASSUME SyncTypes, PreviewInv, NEW a \in actors,
           \/ RollUp(a) \/ TakeMessage(a) \/ AckMessage(a) \/ FailRollup(a)
           \/ \E refresh \in BOOLEAN : StartRefresh(a, refresh)
    PROVE  PreviewInv'
<1> USE DEF dbVars, runVars
<1>1. job = [b \in actors |-> job[b]] /\ (job[a] \in SyncJobs \/ OtherJob(job[a]))
    BY DEF SyncTypes
<1>2. subscribed' = subscribed /\ dnd' = dnd /\ cooling' = cooling
    BY DEF RollUp, ReadRun, CountMessages, ReadWindow, LoadRollup, StoreRollup, RollupExists,
           TakeMessage, AckMessage, FailRollup, StartRefresh
<1>3. \A step, found, message : Rollup(step, found, message).kind = "rollup"
    BY DEF Rollup
<1>4. Idle.kind = "idle"
    BY DEF Idle
<1>5. CASE \/ RollupExists(a) \/ TakeMessage(a) \/ AckMessage(a) \/ FailRollup(a)
           \/ \E refresh \in BOOLEAN : StartRefresh(a, refresh)
    <2>1. \E j : job' = [job EXCEPT ![a] = j] /\ j.kind # "preview"
        BY <1>3, <1>4, <1>5 DEF RollupExists, GiveUp, TakeMessage, AckMessage, FailRollup,
                                StartRefresh
    <2> QED
        BY <1>2, <2>1, ReplacedKeeps
<1>6. CASE ReadRun(a) \/ CountMessages(a) \/ ReadWindow(a) \/ LoadRollup(a) \/ StoreRollup(a)
    <2>1. OtherJob(job[a]) /\ job[a].kind = "rollup"
        BY <1>1, <1>6 DEF ReadRun, CountMessages, ReadWindow, LoadRollup, StoreRollup, At, SyncJobs
    <2>2. \A b \in actors \ {a} : job'[b] = job[b]
        BY <1>1, <1>6 DEF ReadRun, CountMessages, ReadWindow, LoadRollup, StoreRollup
    <2>3. job'[a].kind # "preview"
        BY <1>1, <1>4, <1>6, <2>1 DEF ReadRun, CountMessages, ReadWindow, LoadRollup, StoreRollup,
                                 OtherJob
    <2> QED
        BY <1>2, <2>2, <2>3, UntouchedKeeps
<1> QED
    BY <1>5, <1>6 DEF RollUp

(* Lists and cooldowns tell the previews, all else moves nothing of theirs. *)
LEMMA ElsewhereKeeps ==
    ASSUME SyncTypes, PreviewInv, Elsewhere \/ UNCHANGED vars
    PROVE  PreviewInv'
<1> USE DEF dbVars, runVars, vars
<1>1. /\ job = [a \in actors |-> job[a]]
      /\ \A a \in actors : job[a] \in SyncJobs \/ OtherJob(job[a])
    BY DEF SyncTypes
<1>2. CASE \E c \in Customers : SubscriberChanges(c)
    <2>1. PICK c \in Customers : SubscriberChanges(c)
        BY <1>2
    <2>2. ASSUME NEW a \in actors, job[a].kind = "sync", NEW v
          PROVE  [job[a] EXCEPT !.was[c] = v].kind = "sync"
        <3>1. job[a] \in SyncJobs
            BY <1>1, <2>2, OtherIsNoSync
        <3> QED
            BY <3>1 DEF SyncJobs
    <2>3. \A a \in actors : job'[a].kind = "preview" => job'[a] = job[a]
        <3>1. ASSUME NEW a \in actors, job[a].kind = "sync" PROVE job'[a].kind = "sync"
            <4>1. \E v : job'[a] = [job[a] EXCEPT !.was[c] = v]
                <5>1. job'[a] = [job[a] EXCEPT !.was[c] = @ \cup {(c \in source')}]
                    BY <2>1, <3>1 DEF SubscriberChanges
                <5>2. job[a] \in SyncJobs
                    BY <1>1, <3>1, OtherIsNoSync
                <5>3. job'[a] = [job[a] EXCEPT !.was[c] = job[a].was[c] \cup {(c \in source')}]
                    BY <5>1, <5>2 DEF SyncJobs
                <5> QED
                    BY <5>3
            <4> QED
                BY <2>2, <3>1, <4>1
        <3>2. ASSUME NEW a \in actors, job[a].kind # "sync" PROVE job'[a] = job[a]
            BY <2>1, <3>2 DEF SubscriberChanges
        <3> QED
            BY <3>1, <3>2
    <2> QED
        BY <2>1, <2>3, UntouchedKeeps DEF SubscriberChanges
<1>3. CASE \/ \E c \in Customers : CooldownEnds(c)
           \/ \E l \in Lists, members \in SUBSET Customers : CommitList(l, members)
    <2>1. job' = Moved(job)
        BY <1>3 DEF CooldownEnds, CommitList
    <2>2. \A a \in actors : job[a].kind = "preview" => PreviewJob(job[a])
        BY DEF PreviewInv, Counted
    <2> QED
        BY <2>1, <2>2, MovedIsDisturbed, DisturbedKeeps
<1>4. CASE Proceed \/ UNCHANGED vars
    <2>1. subscribed' = subscribed /\ dnd' = dnd /\ cooling' = cooling /\ job' = job
        BY <1>4 DEF Proceed, Claim, Settle, RetryMessage, CountPending, Complete, StopRun
    <2> QED
        BY <2>1, UntouchedKeeps
<1> QED
    BY <1>2, <1>3, <1>4 DEF Elsewhere

(* So every step keeps what has been counted true.                          *)
LEMMA PreviewNext == SyncTypes /\ PreviewInv /\ [Next]_vars => PreviewInv'
<1> SUFFICES ASSUME SyncTypes, PreviewInv, [Next]_vars PROVE PreviewInv'
    OBVIOUS
<1>1. Callers \subseteq actors /\ Workers \subseteq actors
    BY DEF actors
<1> QED
    BY <1>1, SyncKeepsPreviews, PreviewKeeps, RollupKeeps, ElsewhereKeeps DEF Next, Handle

(* At first nobody previews.                                                *)
LEMMA PreviewInit == Init => PreviewInv
BY DEF Init, PreviewInv, Idle, actors

-----------------------------------------------------------------------------
(* The zones of a preview are finitely many, and their counts add up to the *)
(* rows that are left.                                                      *)
LEMMA ZonesAddUp ==
    ASSUME NEW ex
    PROVE  Cardinality(Left(ex)) = SumOf(CountZones(ex), DOMAIN CountZones(ex))
<1> DEFINE R == Left(ex)
           f == CountZones(ex)
           h == [r \in R |-> Home[r.customer]]
<1>1. IsFiniteSet(R)
    <2>1. /\ R = RowsOf((Clear \ Served(ex)) \ cooling, ex)
          /\ (Clear \ Served(ex)) \ cooling \in SUBSET Customers
        BY TotalsCount DEF Clear
    <2> QED
        BY <2>1, RowsCount
<1>2. /\ DOMAIN f = {Home[r.customer] : r \in R}
      /\ \A z \in DOMAIN f : f[z] = Cardinality({r \in R : Home[r.customer] = z})
    BY DEF CountZones
<1> HIDE DEF R, f
<1>3. h \in Surjection(R, DOMAIN f)
    BY <1>2 DEF Surjection
<1>4. IsFiniteSet(DOMAIN f)
    BY <1>1, <1>3, FS_Surjection
<1>5. ASSUME NEW z \in DOMAIN f
      PROVE  f[z] = Cardinality({r \in R : h[r] = z})
    <2>1. {r \in R : h[r] = z} = {r \in R : Home[r.customer] = z}
        OBVIOUS
    <2> QED
        BY <1>2, <2>1
<1>6. \A r \in R : h[r] \in DOMAIN f
    BY <1>2
<1> HIDE DEF h
<1>7. SumOf(f, DOMAIN f) = Cardinality(R)
    BY <1>1, <1>4, <1>5, <1>6, FibersAddUp
<1> QED
    BY <1>7 DEF R, f

(* What a preview has counted of what is there agrees.                      *)
LEMMA CountsAgree ==
    ASSUME NEW ex, NEW totals, totals = CountTotals(ex), NEW shown, shown = CountZones(ex)
    PROVE  /\ totals.eligible = SumOf(shown, DOMAIN shown)
           /\ \A z \in Zones :
                  (IF z \in DOMAIN shown THEN shown[z] ELSE 0) = Cardinality(Eligible(z, ex))
           /\ totals.subscriber + totals.cooldown + totals.eligible =
                  Cardinality({c \in Customers : DndMatches(c) = {}})
<1>1. totals.eligible = SumOf(shown, DOMAIN shown)
    <2>1. totals.eligible = Cardinality(Left(ex))
        BY DEF CountTotals
    <2> QED
        BY <2>1, ZonesAddUp
<1>2. ASSUME NEW z \in Zones
      PROVE  (IF z \in DOMAIN shown THEN shown[z] ELSE 0) = Cardinality(Eligible(z, ex))
    <2>1. Cardinality({r \in Left(ex) : Home[r.customer] = z}) = Cardinality(Eligible(z, ex))
        BY ZoneRows
    <2>2. CASE z \in DOMAIN shown
        BY <2>1, <2>2 DEF CountZones
    <2>3. CASE z \notin DOMAIN shown
        <3>1. {r \in Left(ex) : Home[r.customer] = z} = {}
            BY <2>3 DEF CountZones
        <3> QED
            BY <2>1, <2>3, <3>1, FS_EmptySet
    <2> QED
        BY <2>2, <2>3
<1>3. totals.subscriber + totals.cooldown + totals.eligible =
          Cardinality({c \in Customers : DndMatches(c) = {}})
    BY ClearAddUp DEF Clear
<1> QED
    BY <1>1, <1>2, <1>3

(* A preview of what has not moved agrees with itself and with what         *)
(* rotate_zone would number (compute_eligibility_preview): for any members, *)
(* lists, products and zones.                                               *)
THEOREM PreviewsAgree == Spec => []PreviewAgrees
<1>1. PreviewInv => PreviewAgrees
    <2> SUFFICES ASSUME PreviewInv, NEW a \in Callers, job[a].kind = "preview",
                        job[a].step = "shown", job[a].still
                 PROVE  LET shown == job[a].zones
                            totals == job[a].totals
                        IN /\ totals.eligible = MapThenSumSet(LAMBDA z : shown[z], DOMAIN shown)
                           /\ \A z \in Zones :
                                  (IF z \in DOMAIN shown THEN shown[z] ELSE 0) =
                                      Cardinality(Eligible(z, job[a].excluded))
                           /\ totals.subscriber + totals.cooldown + totals.eligible =
                                  Cardinality({c \in Customers : DndMatches(c) = {}})
        BY DEF PreviewAgrees
    <2>1. Counted(job[a])
        BY DEF PreviewInv, actors
    <2>2. /\ job[a].totals = CountTotals(job[a].excluded)
          /\ job[a].zones = CountZones(job[a].excluded)
        BY <2>1 DEF Counted, PreviewJob
    <2> DEFINE shown == job[a].zones
               totals == job[a].totals
    <2>3. /\ totals.eligible = SumOf(shown, DOMAIN shown)
          /\ \A z \in Zones :
                 (IF z \in DOMAIN shown THEN shown[z] ELSE 0) =
                     Cardinality(Eligible(z, job[a].excluded))
          /\ totals.subscriber + totals.cooldown + totals.eligible =
                 Cardinality({c \in Customers : DndMatches(c) = {}})
        BY <2>2, CountsAgree
    <2>4. SumOf(shown, DOMAIN shown) = MapThenSumSet(LAMBDA z : shown[z], DOMAIN shown)
        BY Zenon DEF SumOf, Sums, Pick, MapThenSumSet, MapThenFoldSet
    <2>5. totals.eligible = MapThenSumSet(LAMBDA z : shown[z], DOMAIN shown)
        BY <2>3, <2>4, Zenon
    <2> HIDE DEF shown, totals
    <2>6. /\ \A z \in Zones :
                 (IF z \in DOMAIN shown THEN shown[z] ELSE 0) =
                     Cardinality(Eligible(z, job[a].excluded))
          /\ totals.subscriber + totals.cooldown + totals.eligible =
                 Cardinality({c \in Customers : DndMatches(c) = {}})
        BY <2>3
    <2> QED
        BY <2>5, <2>6, Zenon DEF shown, totals
<1> QED
    BY <1>1, SyncInit, SyncNext, PreviewInit, PreviewNext, PTL DEF Spec

-----------------------------------------------------------------------------
(* Without one of its elements a set has one element less.                  *)
LEMMA LessUpTo ==
    ASSUME NEW D, IsFiniteSet(D), NEW n \in Nat, NEW s \in UpTo(D, n + 1), NEW x \in s
    PROVE  s \in SUBSET D /\ s \ {x} \in UpTo(D, n)
<1>1. s \in SUBSET D /\ Cardinality(s) <= n + 1 /\ IsFiniteSet(s)
    BY FS_Subset DEF UpTo
<1>2. Cardinality(s) \in Nat /\ Cardinality(s \ {x}) = Cardinality(s) - 1
    BY <1>1, FS_RemoveElement, FS_CardinalityType
<1>3. s \ {x} \in SUBSET D /\ Cardinality(s \ {x}) <= n
    BY <1>1, <1>2
<1> QED
    BY <1>1, <1>3 DEF UpTo

(* A finite set is among its subsets of some size.                          *)
LEMMA SomeSize ==
    ASSUME NEW D, IsFiniteSet(D), NEW s \in SUBSET D
    PROVE  \E n \in Nat : s \in UpTo(D, n)
<1>1. Cardinality(s) \in Nat
    BY FS_Subset, FS_CardinalityType
<1> QED
    BY <1>1 DEF UpTo

(* g sums up f over the subsets of D.                                       *)
SumsOver(g, f, D) == Sums(g, f, SUBSET D)

(* g adds up f over the subsets of D, whichever element comes last.         *)
Adds(g, f, D) ==
    \A s \in SUBSET D : /\ g[s] \in Int
                        /\ s = {} => g[s] = 0
                        /\ \A x \in s : g[s] = f[x] + g[s \ {x}]

(* A sum comes out the same whichever element is added last, by induction   *)
(* on how many there are.                                                   *)
LEMMA SumApart ==
    ASSUME NEW D, IsFiniteSet(D), NEW f, \A x \in D : f[x] \in Int,
           NEW g, SumsOver(g, f, D)
    PROVE  Adds(g, f, D)
<1> DEFINE Apart(s) == /\ g[s] \in Int
                       /\ s = {} => g[s] = 0
                       /\ \A x \in s : g[s] = f[x] + g[s \ {x}]
           N == {n \in Nat : \A s \in UpTo(D, n) : Apart(s)}
<1>1. \A s \in SUBSET D : g[s] = IF s = {} THEN 0 ELSE f[Pick(s)] + g[s \ {Pick(s)}]
    BY DEF SumsOver, Sums
<1>2. 0 \in N
    <2>1. ASSUME NEW s \in UpTo(D, 0) PROVE Apart(s)
        <3>1. s = {}
            BY ZeroIsEmpty
        <3>2. g[s] = 0
            BY <1>1, <3>1
        <3>3. \A x \in s : FALSE
            BY <3>1
        <3> QED
            BY <3>2, <3>3
    <2> QED
        BY <2>1
<1>3. ASSUME NEW n \in Nat, n \in N PROVE n + 1 \in N
    <2>1. ASSUME NEW s \in UpTo(D, n + 1) PROVE Apart(s)
        <3> DEFINE y == Pick(s)
        <3>1. CASE s = {}
            <4>1. g[s] = 0 /\ \A x \in s : FALSE
                BY <1>1, <3>1
            <4> QED
                BY <4>1
        <3>2. CASE s # {}
            <4>1. y \in s /\ s \in SUBSET D /\ s \ {y} \in UpTo(D, n)
                BY <3>2, PickUpTo
            <4>2. g[s] = f[y] + g[s \ {y}] /\ Apart(s \ {y}) /\ f[y] \in Int
                BY <1>1, <1>3, <3>2, <4>1
            <4> HIDE DEF y
            <4>3. ASSUME NEW x \in s PROVE g[s] = f[x] + g[s \ {x}]
                <5>1. CASE x = y
                    BY <4>2, <5>1
                <5>2. CASE x # y
                    <6>1. x \in s \ {y} /\ y \in s \ {x} /\ f[x] \in Int
                        BY <4>1, <5>2
                    <6>2. s \ {x} \in UpTo(D, n)
                        BY LessUpTo
                    <6>3. Apart(s \ {x})
                        BY <1>3, <6>2
                    <6>4. (s \ {y}) \ {x} = (s \ {x}) \ {y}
                        OBVIOUS
                    <6> DEFINE rest == g[(s \ {x}) \ {y}]
                    <6>5. g[s \ {y}] = f[x] + rest /\ g[s \ {x}] = f[y] + rest
                        BY <4>2, <6>1, <6>3, <6>4
                    <6>6. rest \in Int
                        <7>1. s \ {x} \in SUBSET D /\ (s \ {x}) \ {y} \in UpTo(D, n)
                            <8>1. (s \ {x}) \ {y} \in SUBSET D /\ IsFiniteSet(s \ {x}) /\ IsFiniteSet((s \ {x}) \ {y})
                                BY <4>1, FS_Subset
                            <8>2. Cardinality((s \ {x}) \ {y}) <= Cardinality(s \ {x})
                                BY <8>1, FS_Subset
                            <8>3. Cardinality((s \ {x}) \ {y}) \in Nat /\ Cardinality(s \ {x}) \in Nat
                                BY <8>1, FS_CardinalityType
                            <8> QED
                                BY <4>1, <6>2, <8>1, <8>2, <8>3 DEF UpTo
                        <7> QED
                            BY <1>3, <7>1
                    <6> HIDE DEF rest
                    <6> QED
                        BY <4>2, <6>1, <6>5, <6>6
                <5> QED
                    BY <5>1, <5>2
            <4>4. g[s] \in Int
                BY <4>2
            <4> QED
                BY <3>2, <4>3, <4>4
        <3> QED
            BY <3>1, <3>2
    <2> HIDE DEF Apart
    <2> QED
        BY <2>1
<1> HIDE DEF N
<1>4. \A n \in Nat : n \in N
    BY <1>2, <1>3, SetInduction
<1>5. ASSUME NEW s \in SUBSET D PROVE Apart(s)
    <2>1. PICK n \in Nat : s \in UpTo(D, n)
        BY SomeSize
    <2> QED
        BY <1>4, <2>1 DEF N
<1> QED
    BY <1>5 DEF Adds

(* h renames the elements of D, no two alike, and e is of the new names     *)
(* what f is of the old.                                                    *)
Renames(h, D, f, E, e) ==
    /\ \A x \in D : h[x] \in E /\ e[h[x]] = f[x]
    /\ \A x, y \in D : h[x] = h[y] => x = y
    /\ \A z \in E : e[z] \in Int

(* What the elements of D are called by h.                                  *)
NewNames(h, D) == {h[x] : x \in D}

(* A sum comes out the same over other names of its elements.               *)
LEMMA SumRenamed ==
    ASSUME NEW D, IsFiniteSet(D), NEW E, IsFiniteSet(E), NEW f, NEW e, NEW h,
           Renames(h, D, f, E, e),
           NEW g, SumsOver(g, f, D), NEW k, SumsOver(k, e, E)
    PROVE  g[D] = k[NewNames(h, D)]
<1> DEFINE Image(s) == {h[x] : x \in s}
           N == {n \in Nat : \A s \in UpTo(D, n) : g[s] = k[Image(s)]}
<1>1. \A s \in SUBSET D : g[s] = IF s = {} THEN 0 ELSE f[Pick(s)] + g[s \ {Pick(s)}]
    BY DEF SumsOver, Sums
<1>2. \A t \in SUBSET E : (t = {} => k[t] = 0) /\ \A z \in t : k[t] = e[z] + k[t \ {z}]
    <2>1. Adds(k, e, E)
        BY SumApart DEF Renames
    <2> QED
        BY <2>1 DEF Adds
<1>3. 0 \in N
    <2>1. ASSUME NEW s \in UpTo(D, 0) PROVE g[s] = k[Image(s)]
        <3>1. s = {} /\ Image(s) = {}
            BY ZeroIsEmpty
        <3> QED
            BY <1>1, <1>2, <3>1
    <2> QED
        BY <2>1
<1>4. ASSUME NEW n \in Nat, n \in N PROVE n + 1 \in N
    <2>1. ASSUME NEW s \in UpTo(D, n + 1) PROVE g[s] = k[Image(s)]
        <3> DEFINE y == Pick(s)
        <3>1. CASE s = {}
            <4>1. Image(s) = {}
                BY <3>1
            <4> QED
                BY <1>1, <1>2, <3>1, <4>1
        <3>2. CASE s # {}
            <4>1. y \in s /\ s \in SUBSET D /\ s \ {y} \in UpTo(D, n)
                BY <3>2, PickUpTo
            <4>2. g[s] = f[y] + g[s \ {y}] /\ g[s \ {y}] = k[Image(s \ {y})]
                BY <1>1, <1>4, <3>2, <4>1
            <4> HIDE DEF y
            <4>3. Image(s) \in SUBSET E /\ h[y] \in Image(s) /\ Image(s \ {y}) = Image(s) \ {h[y]}
                BY <4>1 DEF Renames
            <4> HIDE DEF Image
            <4>4. k[Image(s)] = e[h[y]] + k[Image(s) \ {h[y]}] /\ e[h[y]] = f[y]
                BY <1>2, <4>1, <4>3 DEF Renames
            <4> QED
                BY <4>2, <4>3, <4>4
        <3> QED
            BY <3>1, <3>2
    <2> HIDE DEF Image
    <2> QED
        BY <2>1
<1> HIDE DEF N
<1>5. \A n \in Nat : n \in N
    BY <1>3, <1>4, SetInduction
<1>6. ASSUME NEW s \in SUBSET D PROVE g[s] = k[Image(s)]
    <2>1. PICK n \in Nat : s \in UpTo(D, n)
        BY SomeSize
    <2> QED
        BY <1>5, <2>1 DEF N
<1> QED
    BY <1>6 DEF NewNames

(* a times each of f is no more than b times that of e.                     *)
Bounded(a, f, b, e, D) == \A x \in D : f[x] \in Int /\ e[x] \in Int /\ a * f[x] <= b * e[x]

(* A bound on each is a bound on their sum.                                 *)
LEMMA SumBounded ==
    ASSUME NEW D, IsFiniteSet(D), NEW f, NEW e, NEW a \in Int, NEW b \in Int,
           Bounded(a, f, b, e, D),
           NEW g, SumsOver(g, f, D), NEW k, SumsOver(k, e, D)
    PROVE  a * g[D] <= b * k[D]
<1> DEFINE N == {n \in Nat : \A s \in UpTo(D, n) : a * g[s] <= b * k[s]}
<1>1. \A s \in SUBSET D : /\ g[s] \in Int /\ k[s] \in Int /\ (s = {} => g[s] = 0 /\ k[s] = 0)
                          /\ \A x \in s : g[s] = f[x] + g[s \ {x}] /\ k[s] = e[x] + k[s \ {x}]
    <2>1. /\ \A x \in D : f[x] \in Int
          /\ \A x \in D : e[x] \in Int
        BY DEF Bounded
    <2>2. Adds(g, f, D) /\ Adds(k, e, D)
        BY <2>1, SumApart
    <2> QED
        BY <2>2 DEF Adds
<1>2. 0 \in N
    <2>1. ASSUME NEW s \in UpTo(D, 0) PROVE a * g[s] <= b * k[s]
        <3>1. s = {} /\ g[s] = 0 /\ k[s] = 0
            BY <1>1, ZeroIsEmpty
        <3> QED
            BY <3>1
    <2> QED
        BY <2>1
<1>3. ASSUME NEW n \in Nat, n \in N PROVE n + 1 \in N
    <2>1. ASSUME NEW s \in UpTo(D, n + 1) PROVE a * g[s] <= b * k[s]
        <3>1. CASE s = {}
            <4>1. g[s] = 0 /\ k[s] = 0
                BY <1>1, <3>1
            <4> QED
                BY <4>1
        <3>2. CASE s # {}
            <4>1. PICK y \in s : TRUE
                BY <3>2
            <4>2. s \in SUBSET D /\ s \ {y} \in UpTo(D, n) /\ s \ {y} \in SUBSET D
                BY <4>1, LessUpTo
            <4> DEFINE p == g[s \ {y}]
                       q == k[s \ {y}]
                       u == f[y]
                       v == e[y]
            <4>3. /\ g[s] = u + p /\ k[s] = v + q /\ u \in Int /\ v \in Int /\ p \in Int /\ q \in Int
                  /\ a * p <= b * q /\ a * u <= b * v
                BY <1>1, <1>3, <4>1, <4>2 DEF Bounded
            <4> HIDE DEF p, q, u, v
            <4>4. a * (u + p) = a * u + a * p /\ b * (v + q) = b * v + b * q
                BY <4>3
            <4> QED
                BY <4>3, <4>4
        <3> QED
            BY <3>1, <3>2
    <2> QED
        BY <2>1
<1> HIDE DEF N
<1>4. \A n \in Nat : n \in N
    BY <1>2, <1>3, SetInduction
<1> QED
    BY <1>4, SomeSize DEF N

(* A finite set of numbers that is not empty has a greatest one.            *)
LEMMA MaxIsIn ==
    ASSUME NEW D, IsFiniteSet(D), D \in SUBSET Int, D # {}
    PROVE  Max(D) \in D
<1> DEFINE Greatest(s) == s # {} => \E x \in s : \A y \in s : x >= y
           N == {n \in Nat : \A s \in UpTo(D, n) : Greatest(s)}
<1>1. 0 \in N
    <2>1. ASSUME NEW s \in UpTo(D, 0) PROVE Greatest(s)
        BY ZeroIsEmpty
    <2> QED
        BY <2>1
<1>2. ASSUME NEW n \in Nat, n \in N PROVE n + 1 \in N
    <2>1. ASSUME NEW s \in UpTo(D, n + 1), s # {}
          PROVE  \E x \in s : \A y \in s : x >= y
        <3>1. PICK p \in s : TRUE
            BY <2>1
        <3>2. s \in SUBSET D /\ s \ {p} \in UpTo(D, n) /\ p \in Int
            BY <3>1, LessUpTo
        <3>3. CASE s \ {p} = {}
            BY <3>1, <3>2, <3>3
        <3>4. CASE s \ {p} # {}
            <4>1. PICK q \in s \ {p} : \A y \in s \ {p} : q >= y
                BY <1>2, <3>2, <3>4
            <4>2. q \in s /\ \A y \in s : y \in Int
                BY <3>2
            <4>3. CASE p >= q
                BY <3>1, <4>1, <4>2, <4>3
            <4>4. CASE q >= p
                BY <3>1, <4>1, <4>2, <4>4
            <4> QED
                BY <3>2, <4>2, <4>3, <4>4
        <3> QED
            BY <3>3, <3>4
    <2> QED
        BY <2>1
<1> HIDE DEF N
<1>3. \A n \in Nat : n \in N
    BY <1>1, <1>2, SetInduction
<1>4. \E x \in D : \A y \in D : x >= y
    BY <1>3, SomeSize DEF N
<1> QED
    BY <1>4 DEF Max

(* A sequence: its domain, and what its elements are.                       *)
LEMMA OfASequence ==
    ASSUME NEW S, NEW s \in Seq(S)
    PROVE  /\ DOMAIN s = 1..Len(s) /\ Len(s) \in Nat /\ (s # <<>> => Len(s) # 0)
           /\ \A k \in DOMAIN s : s[k] \in S
OBVIOUS

(* What the checks of create_campaign let through.                          *)
LEMMA AcceptedForm ==
    ASSUME FormOK, Answer(form) = "CONFIGURED", form.mode = "PERCENT"
    PROVE  /\ form.target \in Nat \ {0} /\ Hundred \in Nat \ {0} /\ Tolerance \in Nat
           /\ form.allocations # <<>> /\ ~(Percentages(form) > Hundred + Tolerance)
           /\ \A k \in DOMAIN form.allocations : form.allocations[k].value \in Nat
           /\ ~(Cardinality(ZonesOf(form)) < Len(form.allocations))
<1>1. form.target \in Int /\ form.allocations \in Seq([zone : Nat, value : Int])
    BY DEF FormOK
<1>2. /\ form.target > 0 /\ form.allocations # <<>> /\ ~(Percentages(form) > Hundred + Tolerance)
      /\ ~\E k \in DOMAIN form.allocations : form.allocations[k].value < 0
      /\ ~(Cardinality(ZonesOf(form)) < Len(form.allocations))
    BY <1>1 DEF Answer
<1>3. Hundred \in Nat \ {0} /\ Tolerance \in Nat
    BY CampaignsAssumption DEF Hundred
<1>4. form.target \in Nat \ {0}
    BY <1>1, <1>2
<1>5. ASSUME NEW k \in DOMAIN form.allocations
      PROVE  form.allocations[k].value \in Nat
    <2>1. form.allocations[k] \in [zone : Nat, value : Int]
        BY <1>1, OfASequence
    <2>2. ~(form.allocations[k].value < 0)
        BY <1>2
    <2> QED
        BY <2>1, <2>2
<1> QED
    BY <1>2, <1>3, <1>4, <1>5

(* Each of its zones is there once, so what a zone asks for is one value.   *)
LEMMA ZonesOnce ==
    ASSUME FormOK, Answer(form) = "CONFIGURED", form.mode = "PERCENT"
    PROVE  /\ IsFiniteSet(DOMAIN form.allocations) /\ IsFiniteSet(ZonesOf(form))
           /\ ZonesOf(form) \in SUBSET Nat /\ LastZone(form) \in ZonesOf(form)
           /\ \A j, k \in DOMAIN form.allocations :
                  form.allocations[j].zone = form.allocations[k].zone => j = k
           /\ \A k \in DOMAIN form.allocations :
                  Value(form, form.allocations[k].zone) = form.allocations[k].value
           /\ \A z \in ZonesOf(form) : Value(form, z) \in Nat
<1> DEFINE D == DOMAIN form.allocations
           Z == ZonesOf(form)
           h == [k \in D |-> form.allocations[k].zone]
<1>1. /\ form.allocations \in Seq([zone : Nat, value : Int]) /\ form.allocations # <<>>
      /\ D = 1..Len(form.allocations) /\ Len(form.allocations) \in Nat \ {0}
      /\ \A k \in D : form.allocations[k].zone \in Nat /\ form.allocations[k].value \in Nat
    <2>1. /\ form.allocations \in Seq([zone : Nat, value : Int]) /\ form.allocations # <<>>
          /\ \A k \in D : form.allocations[k].value \in Nat
        BY AcceptedForm DEF FormOK
    <2>2. D = 1..Len(form.allocations) /\ Len(form.allocations) \in Nat \ {0}
        BY <2>1, OfASequence
    <2>3. \A k \in D : form.allocations[k] \in [zone : Nat, value : Int]
        BY <2>1, OfASequence
    <2> QED
        BY <2>1, <2>2, <2>3
<1>2. Z = {form.allocations[k].zone : k \in D}
    BY DEF ZonesOf
<1> HIDE DEF Z
<1>3. IsFiniteSet(D) /\ Cardinality(D) = Len(form.allocations)
    BY <1>1, FS_Interval
<1> HIDE DEF D
<1>4. h \in Surjection(D, Z)
    BY <1>2 DEF Surjection
<1>5. IsFiniteSet(Z) /\ Cardinality(Z) <= Cardinality(D) /\ Cardinality(Z) \in Nat
    BY <1>3, <1>4, FS_Surjection, FS_CardinalityType
<1>6. Cardinality(Z) = Cardinality(D)
    BY <1>1, <1>3, <1>5, AcceptedForm DEF Z
<1>7. h \in Injection(D, Z)
    BY <1>3, <1>4, <1>5, <1>6, FS_SurjSameCardinalityImpliesInj
<1>8. \A j, k \in D : form.allocations[j].zone = form.allocations[k].zone => j = k
    BY <1>7 DEF Injection, IsInjective
<1>9. ASSUME NEW k \in D
      PROVE  Value(form, form.allocations[k].zone) = form.allocations[k].value
    <2>1. \A j \in D : form.allocations[j].zone = form.allocations[k].zone <=> j = k
        BY <1>8
    <2> QED
        BY <2>1 DEF Value, D
<1>10. Z \in SUBSET Nat /\ Z # {}
    <2>1. 1 \in D
        BY <1>1
    <2> QED
        BY <1>1, <1>2, <2>1
<1>11. \A z \in Z : Value(form, z) \in Nat
    BY <1>1, <1>2, <1>9
<1>12. LastZone(form) \in Z
    BY <1>5, <1>10, MaxIsIn DEF LastZone, Z
<1> QED
    BY <1>3, <1>5, <1>8, <1>9, <1>10, <1>11, <1>12 DEF D, Z

(* What the zones of D get together.                                        *)
SharesOf(short, D) == MapThenSumSet(LAMBDA y : Share(form, short, y), D)
Together(q, D) == MapThenSumSet(LAMBDA z : q[z], D)

(* The percentages of a form are a sum, ...                                 *)
LEMMA PercentagesSum ==
    ASSUME NEW D, D = DOMAIN form.allocations, IsFiniteSet(D),
           NEW f, f = [k \in D |-> form.allocations[k].value]
    PROVE  \E g : SumsOver(g, f, D) /\ Percentages(form) = g[D]
<1> DEFINE R(g) == g = [s \in SUBSET D |-> IF s = {} THEN 0
                            ELSE form.allocations[Pick(s)].value + g[s \ {Pick(s)}]]
           G == CHOOSE g : R(g)
<1>1. Percentages(form) = G[D]
    BY Zenon DEF Percentages, MapThenSumSet, MapThenFoldSet, Pick
<1>2. \A s \in SUBSET D : s # {} => f[Pick(s)] = form.allocations[Pick(s)].value
    BY PickIn
<1>3. \E g : R(g)
    <2>1. PICK g : SumsOver(g, f, D)
        BY SumsExist DEF SumsOver
    <2>2. /\ g = [s \in SUBSET D |-> g[s]]
          /\ \A s \in SUBSET D : g[s] = IF s = {} THEN 0 ELSE f[Pick(s)] + g[s \ {Pick(s)}]
        BY <2>1 DEF SumsOver, Sums
    <2>3. \A s \in SUBSET D : g[s] = IF s = {} THEN 0 ELSE form.allocations[Pick(s)].value + g[s \ {Pick(s)}]
        BY <1>2, <2>2
    <2> HIDE DEF G
    <2>4. R(g)
        BY <2>2, <2>3
    <2> QED
        BY <2>4
<1>4. R(G)
    BY <1>3, Zenon
<1> HIDE DEF G
<1>5. SumsOver(G, f, D)
    BY <1>2, <1>4 DEF SumsOver, Sums
<1> QED
    BY <1>1, <1>5

(* ... what the zones but the last get is one, ...                          *)
LEMMA SharesSum ==
    ASSUME NEW D, IsFiniteSet(D), NEW short,
           NEW f, f = [z \in D |-> Share(form, short, z)]
    PROVE  \E g : SumsOver(g, f, D) /\ SharesOf(short, D) = g[D]
<1> DEFINE R(g) == g = [s \in SUBSET D |-> IF s = {} THEN 0
                            ELSE Share(form, short, Pick(s)) + g[s \ {Pick(s)}]]
           G == CHOOSE g : R(g)
<1>1. SharesOf(short, D) = G[D]
    BY Zenon DEF SharesOf, MapThenSumSet, MapThenFoldSet, Pick
<1>2. \A s \in SUBSET D : s # {} => f[Pick(s)] = Share(form, short, Pick(s))
    BY PickIn
<1>3. \E g : R(g)
    <2>1. PICK g : SumsOver(g, f, D)
        BY SumsExist DEF SumsOver
    <2>2. /\ g = [s \in SUBSET D |-> g[s]]
          /\ \A s \in SUBSET D : g[s] = IF s = {} THEN 0 ELSE f[Pick(s)] + g[s \ {Pick(s)}]
        BY <2>1 DEF SumsOver, Sums
    <2>3. \A s \in SUBSET D : g[s] = IF s = {} THEN 0 ELSE Share(form, short, Pick(s)) + g[s \ {Pick(s)}]
        BY <1>2, <2>2
    <2> HIDE DEF G
    <2>4. R(g)
        BY <2>2, <2>3
    <2> QED
        BY <2>4
<1>4. R(G)
    BY <1>3, Zenon
<1> HIDE DEF G
<1>5. SumsOver(G, f, D)
    BY <1>2, <1>4 DEF SumsOver, Sums
<1> QED
    BY <1>1, <1>5

(* ... and so are the quotas of all.                                        *)
LEMMA QuotasSum ==
    ASSUME NEW D, IsFiniteSet(D), NEW f
    PROVE  \E g : SumsOver(g, f, D) /\ Together(f, D) = g[D]
<1> DEFINE G == CHOOSE g : SumsOver(g, f, D)
<1>1. Together(f, D) = G[D]
    BY Zenon DEF Together, MapThenSumSet, MapThenFoldSet, SumsOver, Sums, Pick
<1>2. SumsOver(G, f, D)
    BY SumsExist DEF SumsOver
<1> HIDE DEF G
<1> QED
    BY <1>1, <1>2

(* A whole part, and one less of a whole.                                   *)
LEMMA WholePart ==
    ASSUME NEW p \in Nat, NEW d \in Nat \ {0}
    PROVE  /\ p \div d \in Nat /\ d * (p \div d) <= p /\ p < d * (p \div d + 1)
           /\ p % d = 0 => d * (p \div d) = p
OBVIOUS

(* What a zone but the last gets is its share less a fraction, or one less. *)
LEMMA ShareBounds ==
    ASSUME FormOK, Answer(form) = "CONFIGURED", form.mode = "PERCENT",
           NEW short \in SUBSET Inexact(form), NEW z \in ZonesOf(form)
    PROVE  /\ Share(form, short, z) \in Int
           /\ Hundred * Share(form, short, z) <= form.target * Value(form, z)
           /\ form.target * Value(form, z) <= Hundred * (Share(form, short, z) + 1)
<1> DEFINE p == form.target * Value(form, z)
           d == Hundred
           q == p \div d
<1>1. p \in Nat /\ d \in Nat \ {0}
    BY AcceptedForm, ZonesOnce
<1>2. z \in short => p % d = 0
    BY DEF Inexact
<1>3. Share(form, short, z) = q - (IF z \in short THEN 1 ELSE 0)
    BY DEF Share
<1> HIDE DEF p, d
<1>4. /\ q \in Nat /\ d * q <= p /\ p < d * (q + 1) /\ d * (q + 1) = d * q + d
      /\ p % d = 0 => d * q = p
    <2>1. q \in Nat /\ d * q <= p /\ p < d * (q + 1) /\ (p % d = 0 => d * q = p)
        BY <1>1, WholePart
    <2> QED
        BY <1>1, <2>1
<1> HIDE DEF q
<1>5. CASE z \in short
    <2>1. Share(form, short, z) = q - 1 /\ d * q = p
        BY <1>2, <1>3, <1>4, <1>5
    <2>2. d * (q - 1) = d * q - d /\ d * ((q - 1) + 1) = d * q
        BY <1>1, <1>4
    <2> QED
        BY <1>1, <1>4, <2>1, <2>2 DEF p, d
<1>6. CASE z \notin short
    <2>1. Share(form, short, z) = q
        BY <1>3, <1>4, <1>6
    <2> QED
        BY <1>1, <1>4, <2>1 DEF p, d
<1> QED
    BY <1>5, <1>6

(* The last zone gets what the others leave of the target.                  *)
LEMMA LastGetsTheRest ==
    ASSUME FormOK, Answer(form) = "CONFIGURED", form.mode = "PERCENT",
           NEW short \in SUBSET Inexact(form), NEW q, q = Quotas(form, short)
    PROVE  /\ Together(q, ZonesOf(form)) = form.target
           /\ q[LastZone(form)] \in Int
           /\ \A z \in ZonesOf(form) \ {LastZone(form)} : q[z] = Share(form, short, z)
           /\ Percentages(form) \in Int
           /\ Hundred * q[LastZone(form)] >= form.target * (Hundred - Percentages(form))
                                               + form.target * Value(form, LastZone(form))
<1> DEFINE A == DOMAIN form.allocations
           Z == ZonesOf(form)
           l == LastZone(form)
           O == Z \ {l}
           v == [z \in Z |-> Value(form, z)]
           a == [k \in A |-> form.allocations[k].value]
           h == [k \in A |-> form.allocations[k].zone]
           o == [z \in O |-> Share(form, short, z)]
           id == [z \in O |-> z]
           t == form.target
<1>1. /\ IsFiniteSet(A) /\ IsFiniteSet(Z) /\ IsFiniteSet(O) /\ l \in Z
      /\ t \in Nat /\ Hundred \in Nat
    BY AcceptedForm, ZonesOnce, FS_Subset
<1>2. /\ \A z \in Z : v[z] = Value(form, z) /\ v[z] \in Int
      /\ \A k \in A : h[k] \in Z /\ v[h[k]] = a[k]
      /\ \A j, k \in A : h[j] = h[k] => j = k
      /\ NewNames(h, A) = Z
    <2>1. Z = {form.allocations[k].zone : k \in A}
        BY DEF ZonesOf
    <2>2. \A k \in A : h[k] = form.allocations[k].zone /\ a[k] = form.allocations[k].value
        OBVIOUS
    <2>3. \A z \in Z : v[z] = Value(form, z) /\ v[z] \in Int
        BY ZonesOnce
    <2>4. \A k \in A : Value(form, form.allocations[k].zone) = form.allocations[k].value
        BY ZonesOnce
    <2>5. \A j, k \in A : form.allocations[j].zone = form.allocations[k].zone => j = k
        BY ZonesOnce
    <2>6. NewNames(h, A) = Z
        BY <2>1 DEF NewNames
    <2> HIDE DEF A, Z, v, a, h
    <2> QED
        BY <2>1, <2>2, <2>3, <2>4, <2>5, <2>6
<1>3. /\ \A z \in O : o[z] = Share(form, short, z) /\ o[z] \in Int
      /\ \A z \in O : Hundred * o[z] <= t * v[z]
    BY ShareBounds
<1>4. PICK ga : SumsOver(ga, a, A) /\ Percentages(form) = ga[A]
    BY <1>1, PercentagesSum
<1>5. PICK gv : SumsOver(gv, v, Z)
    BY <1>1, SumsExist DEF SumsOver
<1>6. PICK gu : SumsOver(gu, v, O)
    BY <1>1, SumsExist DEF SumsOver
<1>7. PICK go : SumsOver(go, o, O)
                /\ SharesOf(short, O) = go[O]
    BY <1>1, SharesSum
<1>8. PICK gq : SumsOver(gq, q, Z) /\ Together(q, Z) = gq[Z]
    BY <1>1, QuotasSum
<1>9. /\ \A z \in O : q[z] = o[z]
      /\ q[l] = t - go[O]
    <2> DEFINE m == SharesOf(short, O)
    <2>1. q = [z \in Z |-> IF form.mode = "ABSOLUTE" THEN Value(form, z) \div Unit
                            ELSE IF z \in O THEN Share(form, short, z) ELSE form.target - m]
        BY Zenon DEF Quotas, SharesOf
    <2>2. m = go[O]
        BY <1>7, Zenon
    <2>3. l \in Z /\ l \notin O /\ \A z \in O : z \in Z /\ o[z] = Share(form, short, z)
        BY <1>1, <1>3
    <2> HIDE DEF m, Z, O, l, o, v, a, h
    <2> QED
        BY <2>1, <2>2, <2>3
<1> HIDE DEF A, Z, O, l, v, a, h, o, t
<1>10. O \in SUBSET Z /\ O = Z \ {l} /\ A \in SUBSET A /\ Z \in SUBSET Z
    BY DEF O
<1>11. /\ ga[A] = gv[Z] /\ gv[Z] \in Int
       /\ gv[Z] = v[l] + gv[O] /\ gv[O] \in Int
    <2>1. Renames(h, A, a, Z, v) /\ \A x \in Z : v[x] \in Int
        BY <1>2 DEF Renames
    <2>2. ga[A] = gv[NewNames(h, A)]
        BY <1>1, <1>2, <1>4, <1>5, <2>1, SumRenamed
    <2>3. Adds(gv, v, Z)
        BY <1>1, <1>5, <2>1, SumApart
    <2> QED
        BY <1>1, <1>2, <1>10, <2>2, <2>3 DEF Adds
<1>12. gu[O] = gv[O] /\ gu[O] \in Int
    <2>1. Renames(id, O, v, Z, v)
        BY <1>2, <1>10 DEF Renames
    <2>2. NewNames(id, O) = O
        BY DEF NewNames
    <2> HIDE DEF id
    <2>3. gu[O] = gv[NewNames(id, O)]
        BY <1>1, <1>5, <1>6, <2>1, SumRenamed
    <2> QED
        BY <1>11, <2>2, <2>3
<1>13. go[O] \in Int
    <2>1. \A x \in O : o[x] \in Int
        BY <1>3
    <2>2. Adds(go, o, O)
        BY <1>1, <1>7, <2>1, SumApart
    <2> QED
        BY <2>2 DEF Adds
<1>14. q[l] \in Int /\ \A x \in Z : q[x] \in Int
    <2>1. q[l] \in Int
        BY <1>1, <1>9, <1>13
    <2>2. \A x \in Z : x \in O \/ x = l
        BY <1>10
    <2>3. \A x \in O : q[x] \in Int
        BY <1>3, <1>9
    <2> QED
        BY <2>1, <2>2, <2>3
<1>15. gq[Z] = t
    <2>1. Renames(id, O, o, Z, q)
        BY <1>9, <1>10, <1>14 DEF Renames
    <2>2. NewNames(id, O) = O
        BY DEF NewNames
    <2> HIDE DEF id
    <2>3. go[O] = gq[NewNames(id, O)]
        BY <1>1, <1>7, <1>8, <2>1, SumRenamed
    <2>4. Adds(gq, q, Z)
        BY <1>1, <1>8, <1>14, SumApart
    <2>5. gq[Z] = q[l] + gq[O]
        BY <1>1, <1>10, <2>4 DEF Adds
    <2>6. gq[O] = go[O]
        BY <2>2, <2>3
    <2> QED
        BY <1>1, <1>9, <1>13, <2>5, <2>6
<1>16. Hundred * go[O] <= t * gu[O]
    <2>1. Bounded(Hundred, o, t, v, O) /\ Hundred \in Int /\ t \in Int
        BY <1>1, <1>2, <1>3, <1>10 DEF Bounded
    <2>2. Hundred * go[O] <= t * gu[O]
        BY <1>1, <1>6, <1>7, <2>1, SumBounded
    <2> QED
        BY <2>2
<1>17. Hundred * q[l] >= t * (Hundred - ga[A]) + t * v[l]
    <2> DEFINE c == Hundred
               x == go[O]
               y == gu[O]
               w == v[l]
    <2>1. /\ c \in Int /\ t \in Int /\ x \in Int /\ y \in Int /\ w \in Int
          /\ c * x <= t * y /\ q[l] = t - x /\ ga[A] = w + y
        BY <1>1, <1>2, <1>9, <1>11, <1>12, <1>13, <1>16
    <2> HIDE DEF c, x, y, w
    <2>2. /\ c * (t - x) = c * t - c * x
          /\ t * (c - (w + y)) = c * t - t * w - t * y
        BY <2>1
    <2>3. c * (t - x) >= t * (c - (w + y)) + t * w
        BY <2>1, <2>2
    <2> QED
        BY <2>1, <2>3 DEF c, w
<1>18. v[l] = Value(form, l) /\ \A z \in O : q[z] = Share(form, short, z)
    BY <1>1, <1>2, <1>3, <1>9
<1>19. Together(q, ZonesOf(form)) = form.target
    BY <1>8, <1>15 DEF Z, t
<1>20. /\ q[LastZone(form)] \in Int
       /\ \A z \in ZonesOf(form) \ {LastZone(form)} : q[z] = Share(form, short, z)
       /\ Percentages(form) \in Int
       /\ Hundred * q[LastZone(form)] >= form.target * (Hundred - Percentages(form))
                                           + form.target * Value(form, LastZone(form))
    BY <1>4, <1>11, <1>14, <1>17, <1>18 DEF O, l, t, Z
<1> QED
    BY <1>19, <1>20

(* The quotas of an accepted form are its daily target, and what its        *)
(* operator has asked for zone by zone (_resolve_zone_quotas): for any      *)
(* zones and any percentages.                                               *)
THEOREM QuotasMeet == FormOK => QuotasMeetTarget
<1> SUFFICES ASSUME FormOK, Answer(form) = "CONFIGURED", form.mode = "PERCENT",
                    NEW short \in SUBSET Inexact(form)
             PROVE  LET quotas == Quotas(form, short)
                        last == LastZone(form)
                        parts(z) == form.target * Value(form, z)
                    IN  /\ MapThenSumSet(LAMBDA z : quotas[z], ZonesOf(form)) = form.target
                        /\ \A z \in ZonesOf(form) \ {last} :
                               Hundred * quotas[z] <= parts(z)
                               /\ parts(z) <= Hundred * (quotas[z] + 1)
                        /\ Percentages(form) <= Hundred => Hundred * quotas[last] >= parts(last)
                        /\ form.target * Tolerance < Hundred => quotas[last] >= 0
    BY DEF QuotasMeetTarget
<1> DEFINE q == Quotas(form, short)
           l == LastZone(form)
           t == form.target
           c == Hundred
           v == Value(form, l)
           p == Percentages(form)
<1>1. /\ Together(q, ZonesOf(form)) = t
      /\ q[l] \in Int /\ p \in Int /\ c * q[l] >= t * (c - p) + t * v
      /\ \A z \in ZonesOf(form) \ {l} : q[z] = Share(form, short, z)
    BY LastGetsTheRest
<1>2. /\ t \in Nat /\ c \in Nat \ {0} /\ v \in Nat /\ Tolerance \in Nat
      /\ ~(p > c + Tolerance)
    BY AcceptedForm, ZonesOnce
<1>3. \A z \in ZonesOf(form) \ {l} : c * q[z] <= t * Value(form, z)
                                     /\ t * Value(form, z) <= c * (q[z] + 1)
    BY <1>1, ShareBounds
<1>4. p <= c => c * q[l] >= t * v
    <2> HIDE DEF q, l, t, c, v, p
    <2> SUFFICES ASSUME p <= c PROVE c * q[l] >= t * v
        OBVIOUS
    <2>1. t * (c - p) >= 0 /\ t * (c - p) \in Int /\ t * v \in Int /\ c * q[l] \in Int
        BY <1>1, <1>2
    <2> QED
        BY <1>1, <2>1
<1>5. t * Tolerance < c => q[l] >= 0
    <2> HIDE DEF q, l, t, c, v, p
    <2> SUFFICES ASSUME t * Tolerance < c, q[l] < 0 PROVE FALSE
        BY <1>1
    <2>1. t * (c - p) >= t * (0 - Tolerance) /\ t * (0 - Tolerance) = 0 - t * Tolerance
        BY <1>1, <1>2
    <2>2. t * v >= 0 /\ t * v \in Int /\ t * (c - p) \in Int /\ t * Tolerance \in Int
        BY <1>1, <1>2
    <2>3. c * q[l] <= c * (-1) /\ c * (-1) = -c /\ c * q[l] \in Int
        BY <1>1, <1>2
    <2> QED
        BY <1>1, <1>2, <2>1, <2>2, <2>3
<1> QED
    BY <1>1, <1>3, <1>4, <1>5, Zenon DEF Together
=============================================================================
