# A TLA+ model of the AfyaCall Campaign Engine

The engine (`src/backend/app`) turns a customer base into daily audiences and
sends each customer an SMS, an IVR call or a doctor's call through the Kannel
gateway. Postgres holds all state that counts; Kafka carries commands and events
that may be repeated; Redis holds locks and rate-limiter keys; one process of
each worker runs in docker-compose. This directory models the parts of it where
several processes, requests, failures and redeliveries meet, model-checks them
with TLC, and proves the main results with TLAPS for every value of the constants.

## Inventory

| Component | State | Operations | What is hard | What makes it correct |
|---|---|---|---|---|
| Run lifecycle (`routers/runs.py`, `dispatch_service.py`) | `campaign_runs.status` | start, pause, resume, stop, complete | operators race with workers; resume publishes before it commits; completion counts and updates in two statements | a finished run holds no work; a run settles; no status but by the contract |
| Dispatch (`dispatch_worker`, `dispatch_service.process_dispatch_message`) | `messages`, `message_attempts`, consumer offsets | poll, claim, call Kannel, record, commit offset | the claim stays open across an HTTP call; offsets are a high-water mark | settled messages stay settled; calls are accounted for; no command is lost |
| Retry scheduler, manual retry | `messages.status`, `next_attempt_at` | claim due rows, publish; reopen | commit before publish; runs that are over | retry budget; a retried message is dispatched |
| Message-events worker | offsets, `campaign_runs.status` | check and complete | the last event is the only trigger | completion is never lost |
| Outbox and relay (`services/outbox.py`, `outbox_relay_worker`, `kafka/producer.py`) | `campaign.events` | write, publish, mark | dies before commit; ids and commits out of order; a flush that times out | every event arrives, after those it follows from |
| Audience generation (`campaign_service.generate_audience`, `audience_worker`) | run status, `audience_members`, `audience_snapshots` | take, mark, per-zone rotation, snapshot, READY | redelivery, retry after a partial run, a late worker | quota per run and zone; READY is final; every audience is generated |
| Rotation (`rotation/engine.py`) | `rotation_state` per base and zone | rotate a zone | shared by runs and campaigns; wrap; a pool that changes | disjoint slices until the cycle ends, nobody passed over |
| Locks (`redis/locks.py`) | one Redis key each | acquire, release, expire | expiry under a live holder | only a guard: correctness must not depend on it |
| Rate limiter (`redis/ratelimit.py`) | two TAT keys, the script cache | try, wait, give up | a clock read before the script runs; Redis restarts; rounding | no more grants than time has room for; a refusal costs nothing |
| Kannel client (`gateways/kannel.py`) | port rotation | send | ambiguous answers | each answer is one of four outcomes |
| Import pipeline (`import_service`, `import_repository`, `ingestion_worker`, `routers/imports.py`) | `imports`, staged rows, `base_versions`, `dnd_records` | upload, drop, stage, approve, reject, commit, retry | status checks without compare-and-swap; lock expiry; cut-off staging | one current version per base; a rejected import is never committed; counts add up |
| Parsers, normalizers, profiles (`app/ingestion`) | none | pure functions of a file | spellings of numbers, headers, glued fields, the last chunk | one number, one customer; no line lost or counted twice |
| Campaign configuration (`routers/campaigns.py`, `_resolve_zone_quotas`) | `campaigns`, allocations | create | rounding; percentages | quotas sum to the daily target; no zone but the last gets more than its share, and the last no less |
| Sessions and OTP (`routers/auth.py`, `otp_service`, `session_service`) | users, OTP rows, session rows | log in, verify, change and reset a password, profile, touch | codes of three purposes; overlapping verifications; idle timeout; addresses that change hands | the second factor is asked for; attempts are bounded; a password is set with its owner's code; sessions end |
| Users and roles (`routers/users.py`, `roles.py`, `rbac.py`) | users, roles | create, change, delete | two administrators at once; counts before deletes | somebody can still administer; no reference dangles; edits are whole |
| Subscription sync (`subscription_service`) | `customer_subscription_state` | upsert, flip, commit | two snapshots; overlapping syncs | says of a customer what he was while it ran |
| Analytics (`app/analytics`, `analytics_worker`) | `analytics_rollups` | roll up on completion, on view | two writers of one row; redelivery; late views; messages retried by hand | the rollup of a completed run is one of its own |
| Eligibility preview (`app/audience`) | none | count | two statements, several joins | promises what rotation will find |
| Audit log, schema | `audit_logs`, constraints | – | refer to users and roles | guards of the models |
| Staff, system configuration, scripts, frontend, deployment | – | – | – | single-row writes or wiring |

How they meet: the API writes Postgres and an outbox row in one transaction; the
relay turns rows into Kafka events; `audience_worker` reacts to
`audience.generate_requested` and makes a run READY; `scheduler_worker` reacts
to `run.start_requested`, materializes messages and publishes one dispatch
command for each; a dispatcher of the channel asks the limiter, claims the row,
calls Kannel and writes the outcome with an outbox row; `message_events_worker`
reacts to outcomes and completes the run; `retry_scheduler_worker` polls
RETRYING rows and publishes them again. Before all that, an upload becomes
`import.stage_requested` and, once approved, `import.commit_requested`, which
`worker-ingestion` turns into staged rows and into versions of a base or a DND
list; after it, `run.completed` has `analytics_worker` store the rollup of the
run. `PROJECT.json` lists the hazards of all
of this line by line.

## Modules

| Module | What it is |
|---|---|
| `RunContract` | abstract: the statuses of one run and its messages as operators see them |
| `Dispatch` | one run from READY to its end: API, scheduler, dispatchers, retry scheduler, relay, message-events worker, with failures |
| `MCDispatch`, `dispatch_*.cfg` | instances of it |
| `DispatchProofs` | types, inductive invariant, every safety property of the dispatch and the refinement of `RunContract` |
| `RotationCycle` | abstract: a zone's pool used up slice by slice, then begun anew |
| `Rotation` | audience workers, rotation of zones, Redis lock, row lock, redelivered requests |
| `MCRotation`, `rotation_*.cfg` | instances of it |
| `RotationProofs` | types, quotas, audiences that are final, nobody selected twice, the refinement of `RotationCycle` |
| `RateLimiter` | `acquire_blocking`, the Lua script, key TTLs, Redis restarts |
| `MCRateLimiter`, `limiter_*.cfg` | instances of it |
| `RateLimiterProofs` | types, the ceiling on grants, refusals that cost nothing |
| `Ingest` | a file as staging sees it: header, columns, rows, chunks, normalization, duplicates, summary, members |
| `Campaigns` | the checks of `create_campaign` and the quotas of the zones |
| `IngestLaws`, `CampaignLaws` | the laws of what the two compute |
| `MCLaws`, `laws.cfg` | files typed line by line and forms filled in zone by zone, against these laws |
| `ImportContract` | abstract: what is shown is the whole file, what is used is what was shown, after an approval and once |
| `ImportPipeline` | API, relay, ingestion workers, locks and partitions; uses `Ingest` for what it stages |
| `MCImport`, `imports.cfg` | an instance of it |
| `ImportProofs` | types, versions, the refinement of `ImportContract`, and the laws of `IngestLaws` |
| `Sessions`, `MCSessions`, `sessions.cfg` | one-time codes, sessions, profiles and passwords |
| `SessionsProofs` | types, second factor, passwords, uses of a code and wrong answers to it |
| `Accounts`, `MCAccounts`, `accounts.cfg` | users, roles, permissions and the log that refers to them |
| `AccountsProofs` | types and the four invariants of `Accounts` |
| `Projections`, `MCProjections`, `projections.cfg` | subscription sync, eligibility preview and rollup, statement by statement |
| `ProjectionsProofs` | what a sync says is so, a preview agrees with itself and with rotation, quotas meet the target |
| `Outbox`, `MCOutbox`, `outbox.cfg` | the outbox, its relay, the producer's buffer and the broker |
| `OutboxProofs` | types, arrival before marking, causes before effects |

### Dispatch and the code

* A transaction that waits for nothing outside the database is one action. Three
  are split: the claim, held open across `kannel.send` (`Claim`, `CallKannel`,
  `RecordOutcome`); a resume, which publishes before it commits (`ResumeBegin`,
  `Publish`, `ResumeCommit`); a stop, whose second UPDATE waits for the rows
  dispatchers hold and then reads them again, as READ COMMITTED does
  (`StopBegin`, `StopCommit`).
* `SUBMITTING` is overwritten before its transaction commits and `CREATED`
  likewise in `queue_run_messages`: no other process ever reads them. The first is
  a dispatcher's program counter, the second does not appear. `SCHEDULED` is
  written nowhere in the code; `READY` stands for `RUNNABLE_STATUSES`.
* `cmds` and `pos` are a partition from its committed offset on and the fetch
  position of its consumer: a commit drops everything fetched, a seek steps back,
  a new consumer starts at 0. Lifecycle and outcome events share a set, `topic`:
  their handlers are insensitive to order, and their consumers seek back on every
  exception. A repeated event is the same element, put back.
* Materialization is one transaction although the code inserts in one statement
  and publishes in batches of 2000; `Publish` takes the commands one by one in any
  order, which covers every cut of the batches. When a RETRYING row falls due is
  left open: `next_attempt_at` is a delay, and any delay is possible.
* The limiter is the choice between `RateLimited` and `Claim`; `RateLimiter` models
  what is behind it. Cooldown rows, the audit log, attempt rows and message texts
  change nothing these properties speak of. Kafka is available:
  a broker that does not answer is in `Outbox`.
* The model has no `FAILED` run: no code path writes one.

### Rotation and the code

* `Take` to `CommitEvent` is one pass of the audience worker's loop. `ReadOffset`
  and `Rotate` are the two halves of `rotate_zone`'s transaction that others can
  tell apart: READ COMMITTED lets the pool change between the count and the
  insert. `rowLock` is the row lock of `rotation_state`, which the insert of a
  new row takes just as `FOR UPDATE` does.
* The zones of a run come in any order; the code goes by zone code, or by the
  order of the rows in ABSOLUTE mode.
* An aborted worker releases the Redis lock if an exception ends it and leaves it
  behind (`orphan`) if it dies. `LockExpires` takes it from a live holder.
  `Evict` gives its partition to another worker without stopping it.
* `Quota` is a constant: `_resolve_zone_quotas` is arithmetic on its own, in
  `Campaigns`. `cycle_number` and `total_eligible_at_cycle_start` are never
  read back.
* `ChangePool` stands for DND commits, subscription syncs and cooldowns that end.
  `ImplementsCycle` is checked where the pool keeps still; what happens otherwise
  is told below.
* Observation variables: how often the present cycle has selected a customer
  (`picks`), whom an open rotation has counted (`counted`), whom the last one found to
  choose from (`found`), and the zones whose cycle somebody has joined (`joined`): who
  is counted or found and was not found, or counted, just before. Campaigns of different
  exclusions share the offset of a base, so whom one bars and the next does not joins
  too. `NoDoubleSelect` is about cycles that nobody joined.

### RateLimiter and the code

* A dispatcher reads its clock (`Stamp`) and has the script run later (`Grant`,
  `Refuse`), so scripts run in any order of stamps. With burst 0 `check` comes
  down to "the stored time is not after the stamp".
* `tostring` keeps 14 digits, ten of which an epoch time spends on seconds:
  what is stored is off by up to half of 0.1 ms. `Stored` is any such value.
* A key that Redis lost or that has expired is one whose time has passed.
  An earlier time, restored from an append-only file without its last second,
  lets through no more than a lost one.
* Observation variables: `Count` picks any grant of a key, keeps its stamp (`since`)
  and counts the grants that follow (`more`). `CeilingHolds` holds them against the
  clock at every moment, so it is about when scripts are granted and not what their
  stamps say; the stamp of the first is all it takes from a dispatcher.

### Ingest, Campaigns and the code

* A cell is what its digits and its other text are: all the code asks of it is
  which digits it holds, whether it holds anything, and whether it is the name of
  a column. `_NON_DIGIT_RE` keeps Unicode digits, of which `ForeignDigit` is
  one; `is_canonical` then refuses them. A glued field is a cell of several pieces.
* `MarkDuplicates` and `Summary` are the SQL of `import_repository` over the rows
  in the order of their ids; `AllCastable` is the one cast of a commit that may
  fail.
* A float product of a percentage that is no binary fraction may fall short of a
  whole number; `Inexact` says for which zones, and the laws quantify over every
  subset of them that does.

### ImportPipeline and the code

* Each transaction of `stage_import` is an action (`Claim`, `Clear`, `CopyChunk`,
  `MarkDuplicateRows`, `Summarize`), since it commits after each. `commit_import`
  is one transaction, cut in two where other transactions may come between the
  statement that looks at the versions there are and the insert the unique
  indexes judge (`OpenCommit`, `InsertVersion`). `RowFree` is the lock on the row
  of the import meanwhile.
* A decision of an operator reads the status (`OpenDecision`) and writes it later
  whatever it has become (`Approve`, `Reject`), as the code does.
* The key of every event is the import, so its events share a partition. A worker
  that lost the partition goes on until its commit is refused (`fenced`).
* `SeekBack` is `except Exception`; `Raises` names what the code itself raises, and
  the fault `exception` any other.

### Sessions and the code

* A request is one action except where it verifies a code: `verify_otp` reads the
  row, compares a slow hash, and writes `attempt_count` back as the number it
  computed (`ReadCode` to one of `Finish`). A right code is consumed without a
  condition, so a code works once for each request that had read it by then.
* `CurrentUser` looks the user up by the address in the token, not by the session,
  as `get_current_user` does. Ages are in ticks and stop one past their limit.
* Observation variables: `wrong` and `uses` of a code, the code a session was
  opened with, the code a password was chosen with.

### Accounts and the code

* `require_action` answers at the start of a request (`Authorize`), and the rest is
  a transaction that commits later with its audit row (`Logs`: the foreign key
  from `audit_logs` to the actor). `update_role` is cut between its DELETE, which
  fixes what it sees, and its INSERTs; `delete_role` between its count and its
  DELETE, which the foreign key of `users.role` then judges.
* An edit of the label alone writes no permissions, but logs those it read
  (`ReadRole`, `Relabel`); it is the one edit SUPER_ADMIN admits.
* `mishap` records the two ways the code leaves open to lose the last manager: a
  request that takes effect after its actor lost the right, and an edit that leaves
  the role of its actor without the right. `torn` records roles whose last edit
  overlapped another. `NoLockout` and `EditsAreWhole` say that nothing else does.
* `Init` is the database after the migrations, without a user; `Bootstrap` makes
  the first one, and `NoLockout` speaks of what follows.

### Projections and the code

* Every statement is an action, because READ COMMITTED gives each a snapshot of
  its own. Rows a sync has written and not committed (`draft`) keep other syncs of
  the product waiting (`Free`); an UPDATE that waited looks at the row again and
  not at the subscribers. A deadlock of two syncs is `AbandonSync`.
* A join makes a row of every match, so `Joined` is a set of such rows, and the
  counts are of rows. `Eligible` is rotation's own query.
* Of what a rollup counts, the run's status and its messages by status stand for the
  core metrics and the status at the second read for the window of the
  engagement. SQLAlchemy writes only columns that differ from what it loaded
  (`Stored`), and `db.get` does not look again (`found`). The messages are counted by
  status, and a moment later by zone, channel and demographics: these later counts are
  left out.
* The messages change as in `Dispatch`, in less detail: a dispatcher holds one until its
  outcome (`Claim`, `Settle`), an operator reopens a dead one whatever became of the
  run (`RetryMessage`), and completion counts in one statement and updates in another
  (`CountPending`, `Complete`). `had` records the statuses the messages have had since
  the run completed; a rollup settles if its counts are one of these.

### Outbox and the code

* A row has its id when it is inserted (`WriteEvent`) and is seen when its
  transaction commits (`EndTransaction`), possibly after rows of later ids.
  `causes` are the rows that were committed by then.
* A relay's transaction is open from `SelectBatch` to `CommitBatch`; each `publish`
  in between is `Produce` and one of `FlushReturns` and `FlushTimesOut`, both of
  which mark the row, since the code does not look at what `flush` returns.
* The producer's buffer is emptied by a thread of its own (`Deliver`), in any
  order, survives a rollback (`BatchFails`) and not the process (`RelayCrash`).
  librdkafka sends again what was not answered (`LoseAnswer`) and drops what it
  could not send for minutes, hence only after a flush gave up (`GiveUp`).
* `Dispatch` and `ImportPipeline` have the relay in one step and a crash that
  publishes part of a batch; this module is what stands behind that step.

## Runs

All twelve runs together take about twenty minutes on two cores. Bounds are in the cfg files
under "Bounds of a run of the checker" of each module. Actions of a fault that a
cfg does not name in `Faults` are disabled there; every fault is named by a run.
Of the type invariants those without proofs are checked here; the others are theorems
(see below).

| Run | Instance | Shows |
|---|---|---|
| `dispatch_operators` | two messages of one partition, one press of each button, all orders | finished runs hold no work, settled messages stay settled, `RunContract` is implemented |
| `dispatch_failures` | one message, two attempts, every button once, any one failure | calls of Kannel are accounted for, the retry budget, `RunContract` |
| `dispatch_live` | two messages, one attempt, start and stop, one failure of scheduler, dispatcher, relay or message-events worker | neither a command nor the completion is lost; the run leaves RUNNING |
| `rotation_cycle` | three runs over three customers (slices of two, so the second is short and the third begins anew), two workers, two faults | `RotationCycle` is implemented; every audience is generated |
| `rotation_two_zones` | two zones, of three customers (quota one) and of one (quota two), two campaigns of which one bars the first customer of each zone, two changes of the pool, one fault: an abort, an expired lock, an eviction or a repeated request | quota per run and zone, READY is final, nobody is selected twice in a cycle that nobody joined |
| `limiter` | an SMS and an IVR dispatcher, four ticks, intervals 2, 3 and 1 (global), TTL 3, a restart of Redis, a failed attempt | no more is granted than time has room for, refusals reserve nothing |
| `laws` | files of up to four lines over fourteen, with or without a profile, chunks of two; forms of up to three allocations, percentages in halves | two spellings agree exactly when the numbers do; no line of data is lost; the preview adds up to what a commit inserts; quotas meet the target |
| `imports` | two imports, two files, each import in its own partition, two workers, one operator, one fault: a crash, an expired lock or a repeated event, or a crash, an exception, an eviction or a retry | `ImportContract` is implemented; the last commit is the current version; every import gets on |
| `sessions` | two users, three addresses, two overlapping verifications, two attempts; up to two codes and sessions, two edits or nine wrong answers | second factor, passwords by their owner's code, bounded attempts, sessions end |
| `accounts` | three users, a system role and another, two actions, two overlapping requests, five altogether | references hold, no lockout, edits of permissions and labels are whole |
| `projections` | two customers, two products; two syncs and two changes of the subscribers, or a sync, a preview, two lists and a cooldown, or a run of one message that two views look at while it is dispatched, completed, stopped or retried by hand; the same with one view, three such steps, two workers and two faults | a sync tells the truth, the preview agrees with rotation, the rollup settles |
| `outbox` | one relay, as deployed; four events, batches of two, two failures | what is marked has arrived; causes arrive first; every event arrives |

Why these bounds are enough. Messages meet only in a partition (one behind the other,
where offsets matter) and in the count of completion: two messages do, and one partition
puts them together, the harder case. The failures that concern one message alone are
checked with one. `dispatch_live` allows one attempt, since a retry only repeats the
path of the first attempt with a new command; what happens to a RETRYING message is in
`dispatch_operators` and `dispatch_failures`, for safety. Two workers are enough for
Rotation because a base has one lock and one row per zone. With quotas of one the cycle
of the larger zone goes on over both runs and is rotated over a pool that has shrunk in
between, or that somebody has joined. The limiter's clock runs long enough for two
grants on each key and for a key to outlive its TTL; `Grain` is 1 in the run, where
rounding has no effect, and arbitrary in the proofs.

In `imports` two imports meet in one base and in one file's hash, which is all they
share; a fault more makes an instance several times as large and none of the
properties concerns the number of faults. One partition each leaves a worker free
to take over the other's. In `sessions` three bounds stand for three questions:
what two codes of different purposes can do together, what addresses that change
hands can, and how many answers one code takes. In `accounts` two requests that
overlap and three before or after them suffice to promote, demote and delete one
another. In `projections` every first content of the tables is tried, since a sync
of many customers is one sync for each but for the locks; of two contents that differ
only in which customer is which, one is tried. In the outbox a batch of
two is full with events left over, and a second failure meets what the first has
left in a buffer or made unpublished again.

The models also show behaviour that no run is kept for. In the dispatch:

* A resume publishes before it commits: a dispatcher quick enough reads PAUSED,
  drops the command, and the message stays QUEUED with nobody to publish it
  (`dispatch_service.py:229`; `NothingStranded` fails once `MaxPauses` is 1).
* The generic `except` of `dispatch_worker.py:95` neither seeks back nor commits;
  the next commit passes over the message, which stays QUEUED
  (`NothingStranded` with the fault `"exception"`). `docs/decisions.md:346` says
  the seek was added everywhere.
* The claim is committed only with the outcome: a dispatcher that dies after it
  called Kannel leaves the row QUEUED, and the command that comes again calls Kannel
  a second time. `docs/architecture.md:219` says it does not. `CallsAccounted` counts
  such calls as lost.
* A retry scheduler that dies between its commit and its publishing leaves QUEUED
  rows that nobody publishes.
* A run whose last outcome is handled while it is PAUSED stays RUNNING after the
  resume: completion is tried only on an outcome event. So does a run that has
  no message at all.
* A manual retry in a finished run is accepted and published, and every
  dispatcher skips it, since the claim asks for a RUNNING run.
* `QuotaRespected` and `ReadyIsFinal` except a run whose worker was evicted while at
  work on it (`disowned`), and fail without the exception: `zone_already_processed`
  is asked before the locks and not again under them, so a worker that lost its
  partition and its successor rotate the zone twice for one run. Such a late worker
  also writes AUDIENCE_GENERATING over RUNNING, because the two updates of
  `generate_audience` have no condition on the status.
* `last_offset` is a rank in a pool computed anew: customers who leave before it make
  the next slice skip some within the cycle, and customers who join before it make it
  repeat some, though `rotation/engine.py:70` says "not-yet-used slice". Without
  its exception for `joined`, `NoDoubleSelect` fails in `rotation_two_zones`: after a
  customer left and came back, and without any change after a run of the campaign that
  bars some and one of the campaign that does not, since a campaign's exclusions belong
  to its pool and the offset to its base.
* A dispatcher asks the script with a time it read before (`ratelimit.py:110`). Scripts
  that are late are granted one upon the other, as many as had their turns in the
  meantime, and not one interval apart: `ratelimit.py:104` promises "strict,
  unconditional pacing". In `limiter` stamps 0 and 1 are granted together at 2 against
  the global limit. How late a script can be is bounded by nothing but the timeouts of
  the client.
* A dispatcher loads the limiter's script once in its life; after a restart of
  Redis that forgot it every later attempt fails (`NoScript`), though
  `ratelimit.py:16` promises no permanent wedge.

* A flush that gives up is taken for one that succeeded: the row is marked published,
  and its event is lost if the relay dies or the broker stays away for minutes
  (`PublishedHasArrived` fails without its exception), though `producer.py:22` says
  that delivery is known to have succeeded. Likewise the commands of `publish_batch`.
* With two relays an event may arrive ahead of one it follows from (`CausesFirst`
  fails with two `Relays`): SKIP LOCKED passes over the rows of a slower one.

In the imports:

* Two operators may approve and reject one import, or approve it for two bases: the
  status is read and written without a compare-and-swap, and with two `Operators`
  `ImplementsContract` fails.
* With an expired lock and an eviction of its holder together, two workers stage
  one file at once, and the rows may be there twice.
* A file that raises each time it is read, a base that does not exist (a retry of a
  commit does not look it up) or an age that is no number is sought back to for
  ever, and the imports behind it in the partition wait. `FAILED` is never written,
  so `retry-staging` never meets it.
* The tolerance of 0.0001 lets percentages exceed 100; with a daily target of a
  million or more the last zone's quota may be -1. ABSOLUTE values are not compared
  with the target. A zone named twice or a negative value is an error 500 from the
  database, not a 400.

Among users, sessions and roles:

* Overlapping verifications overwrite `attempt_count`: with two requests at a time a
  code of two attempts admits more than two wrong answers (`Answers` says how many).
* A right code of another account at `confirm_password_change` is rolled back with
  its attempt, and may be tried again.
* Nothing ends sessions when a password changes or a user is edited;
  `revoke_session` has no caller. A token follows its address: when the address
  changes hands, so does the session.
* Two administrators may demote each other at the same time and leave none, and an
  administrator may take `user:manage` from his own role.
* Two overlapping edits of a role may leave the permissions of both.

In the projections:

* A view of a run begun while it was RUNNING and stored after it completed puts the old
  figures over the new ones. A message of a completed run that is retried by hand, or
  that was reopened between the count and the update of its completion, changes the
  counts, and the rollup of before stays until a view asks for a refresh:
  `RollupSettles` allows any counts the run has had since it completed. A stopped run
  publishes no `run.completed` and gets a rollup only when somebody looks.
* A customer on two DND lists is counted twice among the candidates and the
  excluded. A campaign's `dnd_list_id` is not asked for: every active list excludes.
  No code writes `cooldown_state`.
* Two syncs of one product at a time may record as subscribed a customer who was
  none throughout.

Deadlock is checked in the runs of the limiter and the sessions, where time goes on.
A run that is over, an audience that is generated, imports that are decided and
budgets that are spent leave nothing to do, so the others say `CHECK_DEADLOCK FALSE`.

## Fairness

Every worker is an endless polling loop: weak fairness of its steps. An API
transaction that has begun ends. The limiter may refuse any number of times but
not for ever, which takes strong fairness of the step behind it (claim or skip).
A lock whose holder is dead expires. Operators promise nothing, and failures are
bounded by `MaxFaults` and never owed. `dispatch_live` names the failures it
allows: a failure of the retry scheduler between its commit and its publishing, or
a dispatcher's exception, does strand a message (see above), and so does a resume.

In `ImportPipeline` the relay, the workers and the clocks of locks left behind are one
weakly fair action, `Processing`: something of what they can do is done. No worker is
owed a turn of its own, so `EveryImportGetsOn` depends on none. In `Sessions` only
`Tick` is fair: time passes whatever users do. In `Outbox` each relay polls and each
producer goes on sending: the broker is there again some day. In `Projections` each
analytics worker goes on handling; requests of the API may stop half way.

## What is proved

For every value of the constants (`TLAPS`, no step left open). Each line names the
theorem, the property of a run it states, and the inductive invariant it needs;
TLC has checked the invariants too. No bound is assumed: `MaxStarts`, `MaxFaults`
and the like are arbitrary.

`DispatchProofs`

* `TypeCorrect`, and `Invariant` (`IndInv`): that a finished run holds no work needs
  to know that only reopened messages wait while the checker has counted, or a stop
  has taken its snapshot; that in turn needs to know that a row a dispatcher holds is
  QUEUED (`HeldIsQueued`, because a stop and the retry scheduler leave it alone and a
  key always has one partition, `Placed`), and that there are no messages before the
  start.
* `RetryBudget` (`AttemptsBounded`), from `AttemptsLeft`: a pending message has an
  attempt left. `FinishedRunIsIdle` (`FinishedRunHoldsNoWork`). `SettledIsFinal`
  (`SettledNeedsOperator`), by which steps change a status or call Kannel and from
  which status.
* `DispatchImplementsContract` (`ImplementsContract`): each step of each process is a
  step of `RunContract` or none. It needs `IndInv` and that a resume locks a run that is
  PAUSED (`ResumeOfPaused`).
* `CallsAreAccounted` (`CallsAccounted`): calls are attempts on record, those a failure
  took the record of, and one in hand of a dispatcher that has its answer
  (`CallsCounted`).
* `CompletionIsNotLost` (`CompletionPending`), under `NoPause`: whoever settles the last
  message writes an outcome that is relayed, and a checker that has counted pending
  messages still has its event (`CheckedOutcome`).
* `NobodyIsStranded` (`NothingStranded`), under `NoPause` and `NoStrandingFault`: a
  QUEUED message has a command at or after the position of its consumer, or a
  publisher, or a start nobody handles yet (`LiveCommand`, `Awaited`), because a
  dispatcher commits no offset past a command it is not done with (`OneFetched`) and the
  scheduler keeps its event until it has published (`StartKept`).

`RotationProofs`

* `TypeCorrect` (`TypeOK`).
* `QuotasKept` (`QuotaRespected`), `ReadyAudienceIsFinal` (`ReadyIsFinal`): a run that is
  not disowned has one worker (`OneWorker`), who rotates only zones that have given it
  nobody (`ZoneUntouched`), and none once it is closed (`ClosedIsQuiet`).
* `NobodySelectedTwice` (`NoDoubleSelect`), without a hypothesis: in a cycle nobody
  joined, whoever was picked has a rank among those last found that the offset is past
  (`PickedByRank`). When others leave, ranks only shrink (`RankShrinks`), so those whom a
  rotation ranks behind the offset were not picked before (`StepPicked`), and the row lock
  keeps the offset what an open transaction has read.
* `RotationImplementsCycle` (`ImplementsCycle`), under `OneStandingPool`: an offset
  stands for the customers ranked up to it (`CycleInv`), and a zone that is
  struck off the list of a run has given it somebody (`StruckOffHaveGiven`).

`RateLimiterProofs`

* `TypeCorrect`, `CeilingIsHard` (`CeilingHolds`), `RefusalsAreFree` (`NothingReserved`):
  what a key holds lies between its last stamp plus one interval, less and plus half a
  grain, so each further stamp is that much later (`StampsApart`), and no stamp is ahead
  of the clock.

`ImportProofs`

* `TypeCorrect` (`TypeOK`), with `Owned`: a worker that is not fenced owns the partition
  of its event.
* `LastCommitStays` (`LastCommitIsCurrent`): a commit that finds no conflict has seen
  every version its base has, so the ones it retires are all there are.
* `ImportsImplementContract` (`ImplementsContract`), under `OneGuardLeft` and
  `OneOperator`: one worker at a time is at work on an import (`Guarded`), a worker that
  stages has copied the chunks up to its count (`Progress`), what is shown is the whole
  file (`Shown`), and every commit asked for was approved (`Asked`). The lemmas
  `ChunkCopied` and `AllCopied` say that the chunks of a file, one after the other,
  are the file, for any size of a chunk.
* `SpellingsOfOneNumber` (`SpellingsAgree`): whichever way a number is read, its
  canonical form is the country code before its last digits (`CodeAndSubscriber`). The
  hypothesis `FileOK` says what a file is: lines of cells of pieces.
* `EveryLineIsStaged` (`NoLineLost`), `PreviewCounts` (`PreviewAddsUp`): by induction
  over the lines of a file, what has been read after each are the lines of data up to it,
  in their order (`DataLinesInOrder`); by induction over its chunks, one after the other
  they are its rows (`ChunksFlattened`). So row numbers increase with the order in which
  rows are staged, a row is marked when an earlier one has its number (`MarkedRows`), and
  the least row of a number is the one that stays (`OneValidRow`, `LeastNumber`).

`SessionsProofs`

* `TypeCorrect` (`TypeOK`), with it that no two users ever share an address.
* `SecondFactorUsed` (`SecondFactor`), `PasswordsByOwnCode` (`PasswordByOwnCode`): until
  somebody has signed in with a user's second factor it stays on and no token is made
  out to his address (`FactorStaysOn`), and a request has read a code of the purpose it
  serves (`ReadForItsPurpose`).
* `AttemptsAreBounded` (`AttemptsBounded`). The uses of a code and the requests that have
  read it and not answered are together no more than there are requests at a time
  (`UsesAreBounded`, from `UsesLeft`). The wrong answers to it need more: a request with a
  wrong answer has the attempts left that it read, every other one those that are left
  now (`Left`). Put in a row in any order, the request in place i with m attempts left may
  cause `Added`(i, m) more wrong answers, and with what the code has already taken these
  sum up to no more than `Answers` (`AnswersLeft`, the inductive invariant; for all
  orders, since none survives every step). A wrong answer sets the count of the code to
  one more than its request had read. Taken at the last place of those that go by the
  count of the row (`ChangePlaces`), that request loses one more than all before it can
  gain (`RunningAnswered`, from `AnswersRule`).

`AccountsProofs`

* `TypeCorrect`; `RolesStay` (`RolesInUseExist`) and `AuthorsStay` (`AuthorsRemain`) from
  the foreign keys, which judge at the end what was counted before; `ManagersRemain`
  (`NoLockout`): an actor whose right still holds keeps it, since no request touches its
  own actor and no edit of another role takes it; `LoneEditsAreWhole` (`EditsAreWhole`):
  an edit nobody overlapped has in `erased` every permission its role has.

`ProjectionsProofs`

* `SyncIsTruthful` (`SyncTellsTheTruth`): who was a subscriber throughout is in all a sync
  has read (`Stayed`); who was none throughout has not been written before the flip,
  and the flip finds him if his row calls him one, since nobody else writes the rows of
  the product meanwhile (`StayedAway`, `Alone`).
* `PreviewsAgree` (`PreviewAgrees`): a preview under which nothing has moved holds the
  counts of what is there (`PreviewInv`, from `Counted`), and those add up
  (`CountsAgree`). The sum over the zones (`ZonesAddUp`) is summed up by induction on
  how many zones there are. The library states induction for operators, which the
  provers cannot instantiate; `SetInduction` states it for a set of numbers, which
  they can, from the least number that is not in it.
* `QuotasMeet` (`QuotasMeetTarget`): sums over zones are told apart (`SumApart`), renamed
  (`SumRenamed`) and bounded (`SumBounded`) by the same induction, so the share of the
  last zone is the target less those of the others (`QuotasSum`), and no less than what
  was asked for (`LastGetsTheRest`). The hypothesis `FormOK` says what a form is.

`OutboxProofs`

* `TypeCorrect`; `MarkedAfterArrival` (`PublishedHasArrived`): what a relay waits for is
  in its buffer, arrived or given up on, so what it marks is one of the latter two;
  `CausesArriveFirst` (`CausesFirst`), for a single relay: a batch is closed under
  causes, because LIMIT takes the smallest ids and a cause has a smaller one, so the
  causes of what is published next are marked already.

### What the proofs assume

The assumptions on constants (`DispatchAssumption` and its like) say what a row, a
partition or a limit is; TLC evaluates them. `IsFiniteSet(Threads)` says that the API
serves finitely many requests at a time, `IsFiniteSet(Customers)` that a table has
finitely many rows, `"none" \notin Files` that no file is called like the absence of
one, and `None \notin Lists \cup {"subscribed"}` that no reason to bar a customer is.
Some theorems name a hypothesis of their own, since the code does not have the property
without it, as told above, or, like `FileOK` and `FormOK`, to say what an input is:

* `NoPause`: a resume publishes before it commits, and an outcome may be checked while
  the run is PAUSED.
* `NoStrandingFault`: the `except` of a dispatcher lets the next commit pass over the
  command; a retry scheduler may die between its commit and its publishing.
* `OneStandingPool`: offsets are ranks in a pool computed anew. It keeps the pool still,
  bars nobody, and takes no partition from a worker that goes on, who rotates twice for
  one run.
* `OneGuardLeft`: with an expired lock and an eviction in one history two workers stage
  one import. Either alone is allowed.
* `OneOperator`: no two operators decide at the same time.
* `CausesFirst` asks for one relay, which is what docker-compose starts.

The runs that check the same properties satisfy these hypotheses.

### What is only model-checked

* Liveness: `RunSettles`, `AudienceIsGenerated`, `EveryImportGetsOn`,
  `EverySessionEnds`, `RollupSettles`, `EveryEventArrives`.

Every safety invariant and every action property a run checks is a theorem.

In these modules a set of one Boolean is written in parentheses, `{(c \in S)}`: tlapm
reads `{c \in S}` with nothing behind the set as a set of its own kind and loses the
element.

## Not modelled

Staff notifications and system configuration are single-row writes; `main.py`, the
middleware, the model declarations, `seed.py` and the stub of a worker are wiring;
the frontend and the deployment keep no state of the engine. Of what is modelled,
these parts are left out: listing and reading endpoints, exports, texts of messages
and answers, encodings and quoting of files, hashes and tokens (a code is right or
wrong, a token names its session), partitions of tables. Postgres, Redis and Kafka
are modelled by what the code sees of them.

## Plan

Done: `Dispatch` with `RunContract` and proofs, `Rotation` with `RotationCycle`,
`RateLimiter` with proofs, `Ingest` and `Campaigns` with their laws,
`ImportPipeline` with `ImportContract`, `Sessions`, `Accounts` with proofs,
`Projections`, `Outbox`, and proofs of all of them. Left: the port rotation of the
Kannel client and what it makes of an answer. Out of reach of the prover and left to TLC:
liveness and ENABLED.
