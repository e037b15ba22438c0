# Replay Live: TLA+ models, model checks and proofs

Replay Live re-broadcasts recorded MP4 files to live platforms. A user uploads or
imports a recording, schedules it, and the service plays it in real time to one
or several RTMPS destinations, retries what failed and forgets the stream keys.
There are two deployments of the same idea: a *single host* (`server/service.py`,
SQLite, threads) and a *commercial cloud* (`server/repository.py`, PostgreSQL,
one cloud runtime per attempt, serverless dispatchers).

Contents: [inventory](#1-inventory), [modules](#2-modules-and-how-they-read-the-code),
[runs](#3-runs), [findings](#4-findings-and-observations), [proofs](#5-proofs),
[limits](#6-what-is-not-modelled), [what is left](#7-what-is-left).

## 1. Inventory

| Component | State it keeps | Operations that change it | What is hard, and what makes it correct | Module |
|---|---|---|---|---|
| **Job repository** `server/repository.py` | job rows (state, attempt, progress, lease, token, key), runtime records, media rows, upload reservations, object deletions, idempotency records | create (job, import, batch), claim, heartbeat, finish, cancel, recover, cleanup, runtime cleaned | Calls of users, workers and dispatchers in any order, late or repeated. No overbooking at any instant, admission is a promise, a lost lease never retries, a cancelled job stays cancelled, keys live as long as they are needed, every byte is charged once | `JobRepository`, `CapacitySweep`, `OutputStorage` |
| **Member administration** `server/member_management.py` | enabled flags, session families, audit | suspend, reinstate, revoke sessions | Suspension against admissions, claims and logins; the last administrator | `JobRepository`, `Accounts` |
| **Single-host scheduler** `server/service.py`, `server/media_runtime.py` | job rows in SQLite; in memory: processes, pending transitions, stop requests | scheduler tick, worker thread, create, stop, close, restart | Three threads and failing commits: no orphaned claim, one stream at a time, a stop is the last word | `LocalScheduler` |
| **Public test sessions** `server/public_access.py` | sessions on disk, a Service per session, one shared slot | login, reaper, requests, close, restart | Kills between handing out a session and saving it; sessions with work outlive their expiry | `PublicSessions`, `LocalScheduler` |
| **Production API** `server/production_app.py` | none of its own | the order of presign, reserve, verify, repository call; maintenance | Failure between two calls; leases lost between check and use | `OutputStorage`, `DeviceImports`, `StreamSecrets` |
| **Object stores** `server/storage.py`, `blob_storage.py`, `r2_storage.py` | immutable objects, temporary files | signed PUT, upload, verify, download, delete | Concurrent creators, lost answers, kills: no half of an object is ever found | `LocalObjects`, `RemoteObjects` |
| **Cloud worker** `server/worker.py` | its lease as a local deadline, progress | heartbeat thread, stream, finish | Stops itself before the database gives its slot away; an unanswered completion is repeated safely | `Worker`, `StreamSlot` |
| **Dispatchers** `web/api/dispatch.ts`, `deploy/cloudflare/index.ts`, `web/lib/dispatch-wakeup.ts` | alarms, wakeup version, queue messages | retire runtimes, maintenance, claim up to four, schedule the next wakeup | Lost claim answers, lost wakeups, failing retirements, overlapping ticks | `CloudDispatcher`, `SandboxDispatcher`, `WakeupChain` |
| **Automatic broadcasts** `server/automations.py`, `youtube_live.py` | rules, runs with a lease, platform broadcasts | one step of a run, fail and cancel | A coordinator dies between a commit and its record; a stale one goes on | `Automations` |
| **YouTube channel** `server/youtube_channel.py` | consent flows, the stored grant | start, callback, refresh, disconnect | Overlapping consents and redirects; a grant revoked while it is used | `YouTubeChannel` |
| **Device imports** `server/device_imports.py`, `device_import_worker.py` | tasks, media rows | create, upload, complete, fail, cancel, expire | Two completions, cancellation in between, helpers that vanish | `DeviceImports` |
| **Media sources** `server/media_sources.py` | segments, retry budgets, proxy session | download, retry, rotate, join | Threads that fail, retry in place, share a budget and are joined | `SourceDownload` |
| **Local helper** `server/local_import_daemon.py`, `desktop/helper.py` | local jobs and files, an installed directory, a control file | pair, start, run, remove, sweep; install, start, stop | Removal against the download thread; installers that are killed or compete | `LocalImports`, `DesktopHelper` |
| **Google sessions** `server/google_auth.py`, `server/auth.py` | challenges, families, tokens; cached signing keys | exchange, refresh, logout, purge; key lookup | Single use, rotation races, lock order, withdrawn keys | `Accounts`, `SigningKeys` |
| **Access policy** `server/access_policy.py` | budgets per window, revoked tokens | check, revoke, purge | Counters at window changes, a revocation during a check | `AccessPolicy` |
| **Operations alerts, proxy quota** `server/operations.py`, `proxy_quota.py`, `web/lib/proxy-alerts.ts` | alert outboxes, cooldowns, balance | collect or observe, claim, acknowledge | Overlapping collectors, late polls, repeated delivery, hysteresis | `OperationsOutbox`, `ProxyQuota` |
| **Stream keys** `server/stream_connections.py`, `server/secrets.py`, `stream_targets.py` | encrypted connections and job keys, key ring, lookups | save, admit, rotate, restore | Ciphertexts bound to a row and a key version while deployments differ | `StreamSecrets` |
| **Workload identity** `server/aws_identity.py` | a small cache of exchanged credentials | exchange, sign | Credentials that expire between check and use, shared between requests | `WorkloadCredentials` |
| **Backup, restore, release** `deploy/commercial/ops.py`, `scripts/deploy-production.py` | the whole database; the production alias | backup, restore; stage, promote, put back | Kills between two steps, answers that are lost, other people's releases | `Restore`, `Release` |
| **Platform test** `scripts/platform-live-preview.py` | a pin in the hosts file, its journal | pin, unpin, recover | Kills and the owner's own edits | `LivePin` |
| Validation, transport, presentation: `watch_links.py`, `deploy/cloudflare/storage.ts`, `settings.py`, `telemetry.py`, `web/app` | at most caches | | see [section 6](#6-what-is-not-modelled) | |

**Interactions.** The API, the member administration and the automations call the
repository; every mutating repository method first locks the one row of
`replay_coordination` (`_gate`), so calls are serialised and their *order* is what
varies. Dispatchers call claim, create a cloud runtime and hand it the lease token;
the runtime calls heartbeat, output and finish over HTTP with that token, so each
of these calls can be late, lost, or belong to an attempt that is over. The
dispatcher later lists runtime records and retires the runtimes of ended attempts.
In the single-host deployment the same roles are threads that share memory under
one re-entrant lock and a SQLite file that may refuse any commit.

The hazards of this code, each at its line, with the properties that would catch
it, are listed in `PROJECT.json`.

## 2. Modules and how they read the code

Each component is a module of its own; components do not share variables, and what
one assumes of another is an action of an abstract counterpart in it (jobs that
end in `Automations`, a repository that hands out attempts in the dispatchers).
Every action is a transaction, a guarded block or the stretch between two awaits;
a handler is cut exactly where another actor can come between. The `map` of
`PROJECT.json` ties every definition to its lines.

**Jobs and bytes.** `JobRepository` is the job table with a database clock, one action
per repository method. A lease token is the lease version it was issued with:
tokens are unguessable and unique per claim. Job identifiers are insertion
numbers, which stand for `created`. The platforms differ only in their parameters
and are one kind, `stream`; `local`, `import` and `validate` keep the rules that set
them apart. `legacy` jobs are local ones admitted before outputs had budgets (migration 004),
which the claim fails when one of their outputs would be larger than what the
repository accepts (`Overlarge`, `LongestOutput`); such a job keeps its key, and none of
these has one, since a local destination has no key. A call that raises rolls back and is
a step that does not happen. Byte
and daily quotas can only refuse an admission or skip a candidate: `Create` may
simply not happen, and `Claim(blocked)` skips any set of file-producing jobs.
`CapacitySweep` is `_capacity` as the loop the code runs, checked against the
pointwise bound that `JobRepository.CapacityFor` uses, so the two modules together
cover admission from the loop to the promise. `OutputStorage` is the byte quota:
originals, outputs, held budgets, upload reservations and the deletion outbox,
with an object store in which a signed PUT may start while its authorisation lasts and
land up to `TransferTime` later. An object that lands when no URL of its key works any
more is `belated`, and a `Stray` if no row is charged with it; section 4 says more.

**Execution.** `Worker` is the cloud worker with its heartbeat thread and encoder,
connected to the lease columns by requests that are lost, late or processed after
the worker gave them up; it refines `StreamSlot`, the promise that a tenant's runs
go on air one at a time. `CloudDispatcher` is the Durable Object's alarm pass with
kicks between its awaits, `SandboxDispatcher` the cron tick of the other
deployment with overlapping ticks, which also retires active runtimes past their
deadline though the repository does not let it mark them cleaned, `WakeupChain` the
de-duplicating queue.
`LocalScheduler` is the single host: `tick` is split into its flush and its claim
(two transactions); the worker thread is split at every point where it leaves the
lock. Each transaction may commit or fail; after a failure the database is
unchanged and memory is not, which is where this code is delicate.

**Broadcasts and credentials.** `Automations` cuts a coordinator's step where it
leaves a transaction or calls YouTube; leases expire and coordinators die at each
cut. `YouTubeChannel`, `StreamSecrets`, `SigningKeys` and `WorkloadCredentials`
are the four caches or stores of credentials. Google's answer to a refresh may or may not
name its scopes, and the code looks at them only if it does. Keys are declared,
activated and retired by the operator at any time, in any order: `secrets.py` checks
nothing of it, so the model keeps account of two mistakes, a key made active before every
process holds it (`early`) and one retired while something needs it (`lost`). `Accounts`
models transactions at READ COMMITTED explicitly: a transaction takes its row locks one
after another, reads, and commits what it decided. The removal of logins that are over is
such a transaction too, outside the gate: it locks the rows it finds one after another
in the order of their identifiers and keeps them to its commit, while an update of all of
a member's logins takes them in the order of a scan, which is any. An administrator's
suspension locks the rows of all enabled administrators first. `AccessPolicy` is
one tenant's budgets.

**Imports and computers.** `DeviceImports` runs one transaction or one store call of
a request at a time and lets requests overlap; in `CrashNext` the server may also go down
inside one; `SourceDownload` is one import
through the proxy with its segment threads; `LocalImports`, `DesktopHelper` and
`LivePin` run on computers whose owner or power switch may interfere at any write. In
`LocalImports` a cloud import keeps the identifier the cloud gave it, so it can be started
again while the thread of its predecessor is between its last locked section and its
end (`RemoveDirectory`, `PopCancelled`). In `LivePin` the privileged helper is a process of
its own: it takes its lock some time after it was spawned, works on when its
coordinator is killed, and reads, compares and writes in separate steps, between which the
owner edits the file. An edit is `exposed` if it comes after the last read before a write, or
is a line of the pinned host, which the comparison leaves out. One host is pinned.

**Operations.** In `OperationsOutbox` a collector takes each code in three steps: it locks
the cooldown row, looks for a pending alert, then refreshes it or inserts one, and it
holds its rows to the commit; a courier may acknowledge between any two of them. `ProxyQuota`
abstracts bytes to the five bands the code tells apart. `PublicSessions`, `Restore` and
`Release` may be killed between any two steps. A promotion in `Release` is a request to
the hosting service that lands at any later time or never, whatever the command
answered, and a kill while the report is written leaves it empty (`torn`). The loader of
`Restore` is a process of its own that may outlive the command (`orphaned`).

**MC modules.** `MCJobRepository` and `MCLocalScheduler` define small requests, owners
and views. The others check several components in one run: the components do not
interact, `part` picks once which of them takes steps, and the variables of the
rest stay as they are, so the reachable states are the sum and not the product.
Each part is an instance whose constants are constants of the MC module, so that the
`.cfg` gives every bound and a theorem about the composite holds for every value of
them (the import in `MCStorage`, a second `OutputStorage`, is the exception); `PartsAssumption`
collects what the parts assume of their constants.
`MCHosts`, `MCAccess`, `MCOperations`, `MCChannels` and `MCStorage` EXTEND one of their
components (`Worker`, `Accounts`, `OperationsOutbox`, `Automations`, `OutputStorage`).

## 3. Runs

Times are with two workers.

| Run | What it instantiates | Shows |
|---|---|---|
| `streams` | 2 tenants, 3 jobs, global and tenant cap 2, batches of two, one attempt, clock to 4 | `CapacityReserved`, `AdmittedNeverRefused`, `SuspendedTenantDrains` |
| `retries` | 1 tenant, 2 jobs of kinds stream, local, legacy and import, 3 attempts, tenant cap 1, clock to 10, fair | `LeaseInsideReservation`, `SecretOnlyWhileNeeded`, `CancelIsFinal`, `RuntimeMirrorsJob`, `EnvelopeCoversRetries`, `LostLeaseNeverRetried`, `TerminalIsFinal`, `EveryJobEnds` |
| `local` (1.5 min) | the POC (1 service, 2 jobs, 2 attempts), the same without retries under fairness, the public mode (2 services, shared slot) | `ClaimsHaveWorkers`, `StreamsOneAtATime`, `StopIsFinal`, `ClaimsComeToAnEnd` |
| `storage` (2 min) | an upload with a recording in two attempts, its PUTs under way for up to a unit; an import with its held budget; device imports with three overlapping requests, and with crashes; one key of the file store and of a remote store | `ObjectsAccounted`, `QuotaHolds`, `ImportsAreCharged` (the same of the import, and `AbandonedUploadReleased`), `DeviceImportsSettle`, `ObjectsAreWhole` |
| `hosts` (2 min) | two workers on one slot with instant answers; one worker whose answers and kill take a unit; both dispatchers; the wakeup chain | `LeasesAreHonoured`, `SlowLeasesAreHonoured`, `WakeupsAreKept`, `CleanedStaysDown`, `SharesSlot` (refinement), `WorkIsServed` |
| `computer` (1.5 min) | 3 segments with 2 threads; two tabs of the helper, one tab with a cloud import; two installers, an uninstaller; two launches of the platform test, two kills, an edit of the owner and one that names the host | `DownloadsAreWhole`, `NothingIsLeftBehind`, `InstallationSurvives`, `OwnersFileIsKept` |
| `channels` (3 min) | 2 coordinators and one YouTube run under fairness, 2 runs of the newest recording (the schedule is not stopped during the second); 3 consent flows with 2 callbacks; two instances of the API with 2 key versions (one destination saved per account, one mistake in the rotation) | `BroadcastOnce`, `CredentialsAreLive`, `RunsEndWell` |
| `access` (2.5 min) | 3 administrators, 2 logins, tokens, challenges and concurrent transactions, of which one login or session runs out by age; budgets of 2 and 1 in windows of 3 with waits of 1; two signing keys and a forged one, clock to the age of a cached key; 3 workload tokens | `LoginsAreSingle`, `BudgetsHold`, `CredentialsLapse` |
| `operations` (2 min) | two overlapping ticks; two collectors, a courier and two codes, cooldown 1, retention 2, alerts in 4 instants, of which two get an identifier; 2 sessions with a limit of 1; a release of two roles; two restores; every placement of 3 stored jobs on 4 instants | `AlertsSentOnce`, `NoticesSentOnce`, `AWayBack`, `SweepIsExact` |
| `local_overlap`, `local_lock`, `local_launch` | the POC | **violated**: see section 4 |

**Bounds and why they suffice.** In `streams`, three jobs against caps of two are the
fewest that overbook, a batch of two against one stored job the fewest that exercises
all-or-nothing; a horizon of four fits two envelopes one after the other, so releases and
admissions coincide. In `retries`, two jobs and a tenant cap of one make the second job
wait for the first's envelope to end, and a horizon of ten fits three attempts of two
units with backoffs of one and two, which separates doubling from linear backoff. A lease
of two units renewed at each instant is cut by the end of the reservation in many states.
In `LocalScheduler` two jobs suffice for overlap and for one job blocking the other, and
two attempts for a retry that races a stop; progress is checked with one attempt, because
a retry only repeats the cycle that the property is about. Races of transactions need two
actors, and three only where a third repeats what the first did (device imports: two
completions and a cancellation; accounts: the administrator who suspends, the one who is
suspended, and one who remains). In `Accounts` one account logs in, perhaps several times
(`OneLogsIn`), either its logins are over one after the other or one session runs out
(`FewAreOver`), and administrators act on each other before the first login, from then on
one at a time on the account that logged in (`AdministratorsMeetFirst`): two logins of one
account are what a purge and an update of all of them can contend for. Clocks run just
past the longest delay of the component plus one renewal: past the cooldown and retention
of the outbox, past the window of a budget and the life of a token, up to the age at which
a cached signing key is fetched again. Failures and kills are bounded by one or two, which
puts one at every step, and a second one into the recovery from the first. Deadlock is
checked in `local` (creation, stop and restart are always possible) and not elsewhere:
clocks stop at their horizon, bounded failures run out, and all work may have ended.

`hosts` checks the worker in two timings. With instant answers two workers fit,
which is what the slot is about; with answers and kills of one unit only one does, and
its lease of 4 with a margin of 3 is the least that `LeaseAssumption` admits with
them. The theorems cover every timing, so the second instance is there to show
that what they say is not said of an empty case.

**Fairness.** Nothing is assumed of users, of YouTube or of any particular commit.

* `EveryJobEnds`: time advances and recovery runs again and again. The dispatchers call
  `recover_expired` at the start of each pass (`/internal/runtimes`, `/internal/claim`)
  and schedule the next pass with an alarm set before any other work
  (`deploy/cloudflare/index.ts:88`) or a cron (`web/api/dispatch.ts`).
* `ClaimsComeToAnEnd`: threads are scheduled, FFmpeg ends (the runner's watchdog kills it
  at its timeout), and the flush is tried again after a failed commit (`Service.loop`
  polls and survives exceptions).
* `WorkIsServed`: the platform fires a due alarm and the cron, no request outlives its
  timeout, containers end; strong fairness of the API's answer to `/internal/runtimes`
  says that outages end, which the bound on failures says too.
* `RunsEndWell`: ticks come again and again and jobs end (`EveryJobEnds`), a lease that is
  over is seen to be over.
* `ImportsAreCharged` (`AbandonedUploadReleased`): time advances and maintenance passes
  run whenever `next_wakeup` is due; `DeviceImportsSettle`: maintenance runs and time
  passes; `DownloadsAreWhole`: threads run.

## 4. Findings and observations

The three violated runs are disagreements of `server/service.py` with its own
comment, test name and promise:

* `local_overlap` (`OneStream`): `stop` writes `stopped` if the process is not registered
  yet, and `tick` looks only at registered processes and active rows. A stop between
  claim and registration therefore frees the queue while the first encoder is about
  to start; the next job's encoder runs beside it until the first one's next poll.
  The public mode's semaphore prevents this, and at most one of the two belongs to
  a job that is still wanted (`OneWantedStream`).
* `local_lock` (`CancellationRetained`): "Retain cancellation in memory even if a
  transient DB lock occurs", but for a queued job the request is discarded before the
  transaction commits.
* `local_launch` (`StoppedNeverLaunches`): a stop between the worker's one `should_stop`
  call and `Popen` still launches the encoder.

Other things the models brought out, which no run lists because no line of the
repository promises the contrary or the model has to be told of them:

* A PUT that starts before its authorisation ends may land after its deletion was
  acknowledged (`repository.py:976`); the object is then charged to nobody (`Stray`). The
  run reaches such states; `ChargedOnce` and `WithinQuota` hold of everything else.
* The removal of logins that are over (`google_auth.py:367-375`) and an update of all the
  logins of a member (`member_management.py:148`, `:159`) take the same rows in different
  orders and can wait for each other; PostgreSQL then aborts one of the two, which is
  tried again or answered with 503. `NoDeadlock` says that no other two wait for each
  other.
* An alert that is acknowledged between a collector's look (`operations.py:126`) and its
  write (`:129-131`) is refreshed although it was delivered: nothing is sent for that
  emission until the cooldown is over (`EmissionsAreCarried`).
* A promotion that was given up as failed or timed out (`deploy-production.py:30-37`) may
  land after its role was read back (`:193-200`): the report says `rolled_back` and the
  candidate serves. A kill while the report is written (`:216-219`) leaves an empty file.
* A `pg_restore` that outlives a killed restore (`ops.py:218`) fills the database later;
  the next restore refuses it, or has its own load refused, so only one is ever settled.
* A disconnect does not stop a consent whose redirect is being served: the channel is
  connected afterwards (`youtube_channel.py`). A refreshed token whose answer names no
  scope may lack the live one after a reconnection between the read of the status and of
  the row (`:168`).
* Nothing in `secrets.py` keeps the operator from activating a key that some process does
  not hold yet, or retiring one that is in use; the comment at `secrets.py:83` asks for
  it.
* The thread of a cloud import that has settled removes its directory and its row outside
  the lock (`local_import_daemon.py:198-201`): if the job was removed and the same
  identifier started again meanwhile, they are the new job's. No other job can disturb a
  cloud import (`OvertakenOnlyByItsId`), and none a local one (`JobsAreIsolated`).
* An edit of the hosts file between the helper's last read and its write is lost, and so
  is a line of the pinned host that came after the journal
  (`platform-live-preview.py:156`, `:176-179`). The install of a killed launch may get the
  helpers' lock after the next launch's restore; that launch then claims with the pin in
  place, and its own install is refused for the journal.
* A stretch of a whole window may see a third budget go through: a request opens a window
  at the instant it read before it waited for its row, so a window that is written down
  late is shorter than it looks (`access_policy.py:63`, `:79`). Less the longest wait,
  which is the database's statement timeout, two budgets are the most
  (`TwoBudgetsAtMost`).
* The repository accepts leases from 5 s (`repository.py:712`, `:783`), and the worker's
  margin of 20 s with its reply and kill times wants 14 s at least (`LeaseAssumption`);
  the deployed default is 90 s.
* A cancelled import may surface another thread's error instead of the cancellation
  (`media_sources.py`; compare `tests/test_proxy_delayed_recovery.py:74`).
* `LocalStorage`: a failing request unlinks the object that another request has stored
  under the same key meanwhile.
* The newest recording counts as used once its batch is on record; a coordinator whose
  lease is over can still cancel the jobs of its run (`automations.py:302`).
* A device import whose owner cancels while the server goes down between the commit and
  `clean_media` keeps its reservation until the owner cancels again or retention comes; a
  validation that was admitted can still be cancelled.
* A running helper may lack the key that a second installation wrote
  (`docs/helper-onboarding.md:47`); its removal may overtake its own cleanup.
* One connection that cannot be opened hides the whole list (`stream_connections.py`).
* A restore killed between loading and settling leaves a loaded database that was not
  sanitised; the next restore refuses it because it is not empty.
* The studio remembers only its last unanswered request: editing A to B and back to A
  after a lost answer creates a second job.

## 5. Proofs

The theorems hold for every value of the constants that satisfies the named
hypotheses; TLAPS checks every leaf. An assumption stands in a module when TLC
evaluates it on a run of that module, and is a hypothesis of the theorem otherwise:

| Module | Assumed | Why the code justifies it |
|---|---|---|
| `JobRepositoryProofs` | `CapsAssumption`, `BoundsAssumption`, `TimingAssumption`, `RequestsAssumption`, `PowersAssumption` | ranges of settings and requests; the last is arithmetic of `2^n` that the provers do not know |
| `ComputerProofs`, scheduler | `OwnerAssumption`, `AttemptsAssumption`, `ModeAssumption`; `SharedCapacity` or one owner where the theorem says so | each job has a service; the two deployments |
| `WorkerProofs` | `WorkerAssumption`, `LeaseAssumption` (`Reply + Kill < Margin`, `1 + Reply + Kill < Lease`) | the worker's 20 s margin, its request timeout and its kill; not implied by the repository's own check, see section 4 |
| `DispatcherProofs` | `PartsAssumption` of `MCHosts`: bounds are numbers; the slow worker's times satisfy `LeaseAssumption`; the chain's times are positive, `Bucket <= MaxDelay`, `RetryAfter <= MaxDelay`, finitely many items | constants of `dispatch-wakeup.ts` and `dispatch-queue.ts` |
| `OperationsOutboxProofs` | `CodesNumbered`: codes are numbers, `Retention` is a positive one; `Bounds`: `MaxTime` and `MaxAlerts` are numbers | the numbers stand for the order of the codes in `ORDER BY`; alerts are kept for 30 days; the bounds limit the model |
| the same, other parts | `PartsAssumption` of `MCOperations`: `Budget < Lease` (`ProxyQuota`); positive lifetime and limit, finitely many sessions (`PublicSessions`); the order of a release is not empty; `None` is no snapshot and no restore; rows are finitely many positive numbers | a tick has 25 s and a notice's lease 300 s; settings are validated; the rest says what the model's names stand for |
| `AutomationsProofs` | `MaxRuns \in Nat`; `PartsAssumption` of `MCChannels`: `None` is none of the values, there is a key, slots are a number | |
| `OutputStorageProofs` | `StorageAssumption`: media and jobs have identifiers of their own, sizes and delays are numbers | identifiers are random |
| the same, other parts | `PartsAssumption` of `MCStorage`: `"none"` names no request, there is a task, pieces and kills are numbers | the names and bounds of the model |
| `AccessProofs` | `Parameters` of `Accounts`; `Admins # {}` where an administrator must remain | administrators are accounts, sessions are finite, `MAX_SESSIONS` is a number |
| the same, other parts | `PartsAssumption` of `MCAccess`: `Wait < Window`, `"tenant"` is no user (`AccessPolicy`); forged keys and tokens are not the provider's; lifetimes and times are numbers, URL lifetimes positive, the cache has room for one | the database's statement timeout is 30 s (`tests/test_settings.py:14`, `:74`), the window 60 s; the two buckets' hashes have different prefixes |
| `ComputerProofs`, other parts | `PartsAssumption` of `MCComputer`: at least one segment, thread and rotation, limits are numbers; processes of different kinds have different names | constants of `media_sources.py`; a process is one thing |

**JobRepositoryProofs.** The inductive invariant `IInv` adds to `TypeOK`: rows that were
never inserted have `Init`'s columns (`AbsentRows`), so that an admission starts from a
known row; an unfinished job becomes due after the start of its reservation, which
ends within the modelled time (`Windows`); a running job has an attempt (`Claimed`),
which types the backoff's exponent; `CapacityReserved`, which an admission preserves
by `CapacityFor` and every other action because it only removes jobs from
`Nonterminal` or moves them inside it; and `LeaseInsideReservation`, which makes a
running job count among the reservations of the present instant. `CancelIsFinal`,
`SuspendedTenantDrains` and `SecretOnlyWhileNeeded` are inductive with them.
`AdmittedNeverRefused` follows without an induction of its own: the running jobs and
the candidate all cover the present instant and the candidate is not running, so
the running ones are at most one fewer than the reservations that `CapacityReserved`
bounds by the cap. This is why the claim's checks of the same caps never refuse an
admitted job. `RuntimeMirrorsJob` is a second induction (`Mirror`: no record belongs to
a later attempt than the current one, so a claim opens a fresh record), and so is
`EnvelopeCoversRetries` (`Payable`: what is left of the reservation pays for the
attempts that are left with their doubling backoffs). `LostLeaseNeverRetried` and
`TerminalIsFinal` are action properties from `IInv`.

**WorkerProofs.** What a worker takes for the instant of its lease was granted no earlier
than a reply's way before it (`Leased`, `Answered`), its encoder does not outlive it
by more than the kill takes (`Timely`), a completion it logs is recorded
(`Recorded`), one job of the tenant is active (`OneActive`), and another run gets the
lease meanwhile only at the instant at which the first one's window ends and is
not prepared at that instant (`InTurn`). `WorkersShareSlot` maps each step to a step or a
stutter of `StreamSlot`, which has one publisher.

**DispatcherProofs.** *Durable object*: a pass that ends early leaves an alarm that comes soon
(`PassIsCovered`); what it read of the next wakeup still holds of the announced work
unless a kick came since (`ReadStillHolds`); the container in hand was stopped before
its mark, and never marked before its start (`InHand`). *Sandbox* (`SandboxInv`): what a
tick lists has ended and what it sets up keeps its lease, whatever other ticks do, so a
tick whose list is old can stop only what is over. *Wakeup chain* (`ChainInv`): a
deduplication key whose target is to come belongs to a message that waits for it
(`KeysWait`), so a publication that is swallowed was not needed; what the consumer read of
the next wakeup is no later than anything due except what came since with a message of
its own (`ReadInTime`). `SlowLeasesStayHonoured` is `LeasesStayHonoured` of an instance of
`WorkerProofs` for the second worker.

**OperationsOutboxProofs.** *Alerts*: a row has one holder, who alone has updated it
(`RowsHeldOnce`); locks are taken in ascending order (`LocksAscend`), so a collector that
waits for the highest locked row is not waited for in turn; a claim was due at its
statement (`ClaimsWereDue`), and the row lock carries that, and what the look found
absent, to the commit: couriers only make alerts fewer, and who would insert one needs the
row. What a look found is still in the outbox when it is refreshed, pending or
acknowledged since, because retention is longer than a transaction; this is what
`EmissionsAreCarried` says. *Proxy quota* (`NoticesInv`): a latch was set with its notice
(`Latched`), a tick that is to send or acknowledge holds a lease that outlives it
(`LeasedToOne`, where `Budget < Lease` is needed), and what was delivered without an
excuse was delivered once (`SentAndKnown`). *Public sessions* (`PublicInv`): what a client
was told is in the file, and in memory while the process runs, at every point of a login,
a sweep and a restart (`ToldIsSaved`); what is valid stays within the limit in memory and
on disk. *Release* (`ReleaseInv`): only a role that was touched is to serve its candidate,
now or by a request still under way (`SentRequests`), and it is on record before
(`TouchedOnRecord`); what is put back is what was read before the first promotion
(`ReadBefore`); a role that was read back and serves its candidate nevertheless got it
from a request that landed after. *Restore* (`RestoreInv`): a dump is of the moment of its
snapshot; a restore holds the lock from its look at the destination to its end or to its
own death, and its load, or the one of a loader it left behind, fills only an empty
database (`FillStep`), while nobody has loaded or settled an empty one (`EmptyForAll`).
*Sweep* (`SweepInv`): the visited points are the first in the order of the sort, the
counter is the number of reservations that are open among them (`OpenIn`), and every
instant the pass has left behind has room. The loop takes one point per step, so no
induction over its input is needed: the instants of the window lie between two
neighbouring points, which is where the count is compared.

**AutomationsProofs.** *Broadcasts*: what a coordinator found holds at its place in the
code with or without its lease (`Places`); what it read of its run still holds while it
has the lease (`LeaseIsExclusive`); two coordinators never create the broadcast of one run
(`OneCreator`), though the lease alone does not say so: the row's phase is the second
lock. `RecordingIsFree` keeps recordings apart from selection to record. *Channel*
(`ChannelInv`): a consent flow is taken by one callback, and until it is exchanged nobody
else has it (`FlowsTakenOnce`); what was given up is with no callback and is not stored.
*Stream keys* (`SecretsInv`): the key of every ciphertext, and every key that some process
encrypts with, is declared unless it was retired while it was needed, and in every
process's ring unless it was activated early (`KeysAreHeld`), whatever order a rotation
takes; what the database remembers of a request is its jobs (`JobsAreTheRequests`); each
lookup has its slot.

**AccessProofs.** *Accounts*: the argument is the locking discipline. `Handled` says which
rows a transaction holds at each of its stages and that what it decided is still so;
`Exclusive` that a row has one holder; `Consumed` that a challenge which made a login is
not open. `Frame` is the lemma that carries a decision over the steps of others: whoever
could change what a transaction read needs a row that it holds. For `NoDeadlock` each row
has a `Rank`, and every transaction asks for rows of higher rank than those it holds, but
for the logins among each other. Only a purge and an update of all of a member's logins
hold several of these: the gate admits one such update at a time, purges take theirs in
the order of identifiers, and the cycle of one with the other is the one that `NoDeadlock`
excepts (`PurgeWaits`). *Budgets* (`PolicyInv`): each window keeps to its budget
(`WindowsKeepBudgets`); what an earlier window counted was let through before a later one
was a wait old, and what a later one counted after the earlier one was over
(`WindowsInOrder`), so a stretch of a window less the wait meets two windows at most.
*Signing keys* (`KeysInv`): what is cached was published when the cache was last filled,
by the one request that held the lock. *Workload credentials* (`WorkInv`): a client in use
outlives the URL it signs by the reserve (`CredentialsOutlive`).

**ComputerProofs.** *Scheduler*, `IInv`: an encoder lives only between `Popen` and its end
and is registered only from `on_start` to the thread's last block (`AliveAtWork`); a job
that can be claimed has no worker left, and a retry is pending only while attempts remain
(`Claimability`); an active row has a worker or a pending outcome (`NoOrphan`); with the
shared slot there is one worker at most, and the slot is free exactly when there is none
(`OneWorker`). `OneWantedStreamPerHost` needs a second induction, `Claims`: until a worker
reports, its job is active or was stopped, and one job of a service is active at a time.
So the overlap of finding `local_overlap` never concerns two streams somebody wants.
*Download* (`SourceInv`): the segments with the threads are those after the joined ones
and within the window, a part file starts empty on each connection (`SegmentsSound`),
connections in use and idle ones together keep to the window, and which errors are still
latched where the importing thread is (`Latched`), which decides that an old failure
cannot end a session that was rotated. *Import helper* (`ImportsInv`, `LocalInv`): every
cleanup under the lock only removes rows and marks those it cannot remove yet (`Pruned`),
so that removal, revocation, sweep and close are one argument; the job that runs is the
one in the queue or in the thread, and what a settled thread removes after its last locked
section is its own or of a later job of the same identifier, which only a cloud import
has. *Installer* (`InstallInv`): the staging directory admits one installer to the renames
(`OneSwap`), and what is set aside at each of them is known (`SetAsideOnce`), so that a
kill leaves a whole directory in one of the places `Restored` looks at. *Start and
removal* (`ServingInv`): who listens is who serves, and one that ended took its key with
it. *Pin* (`PinInv`): one coordinator holds the machine's lock, whom the privileged helper
serves waits for it, and a coordinator that will claim a job has seen the journal go,
unless the journal is that of a late install (`CleanBeforeClaims`).

**OutputStorageProofs.** `IInv` says what every key is charged to. A reservation that is
pending is the only row of its key (`PendingKey`); a committed one is the output of its
ended job or the file of its imported media row, with the same bytes, until the deletion
that names it is confirmed (`CommittedKey`); the key of a free reservation has no URL that
still works and no object, but one that landed after the last of its URLs expired
(`FreeKey`), and one of a later attempt was never used. `Deletion` says that a scheduled
deletion waits for the last URL, names no running attempt's upload and only media that are
being deleted, which is why neither a late PUT nor a late confirmation can touch what is
in use; what a confirmation frees and a PUT still under way fills again is belated and
charged to nobody (`Strays`). `ObjectsAccounted` follows key by key. The quota is an
induction of its own on `Used`: its three sums are rewritten as sums over *all* rows
(`TotalOf`), so that a step changes terms and not sets, and a budget that becomes a
reservation, or a reservation that becomes a file, moves bytes between them
(`TotalChange`). `WithinQuota` then sends each object that may exist to the row it is
charged to, no two to the same (`SumInjected`). The sums are the folds of the community
modules, whose recursive functions are unfolded once (`SumSteps`); what the lemmas need of
induction over finite sets comes from the least counterexample (`SmallestSubset`), because
the library's induction theorems cannot be used. *Device imports* (`DeviceInv`, for any
number of overlapping requests): what each request knows at the cut where it waits
(`DRequest`: one that rechecks has a media row, one that validates has seen the object,
one that finishes has an admitted validation) stays true whatever the others do, since
rows and objects only move on (`Keeps`); without a crash, an upload reserved for a
cancelled or failed task has a request at the recheck or at the cleanup (`NoneOrphaned`).
*One key of a store* (`LocalInv`, `RemoteInv`): a file under the key is of a writer at
work, killed or done with a whole one, and a download that reads has a temporary file of
the version head described to it.

The composite properties `LoginsAreSingle`, `BudgetsHold`, `CredentialsLapse`,
`BroadcastOnce`, `CredentialsAreLive`, `AlertsSentOnce`, `NoticesSentOnce`, `AWayBack`,
`SweepIsExact`, `LeasesAreHonoured`, `SlowLeasesAreHonoured`, `WakeupsAreKept`,
`CleanedStaysDown`, `NothingIsLeftBehind`, `InstallationSurvives`, `OwnersFileIsKept` and
`ObjectsAreWhole` are proved whole: the runs check exactly the conjunction that these
modules prove, of the composite's own specification. `ObjectsAccounted` and `QuotaHolds`
are proved of `OutputStorage`. `DownloadsStayWhole` is `DownloadsAreWhole`, and
`DeviceImportsAreConsistent` is `DeviceImportsSettle`, without the promise of an end.

**Only model-checked.** Liveness under fairness, which the provers do not do:
`EveryJobEnds`, `ClaimsComeToAnEnd`, `WorkIsServed`, `RunsEndWell` (its part about an end),
`AbandonedUploadReleased` (in `ImportsAreCharged`), and the parts of `DeviceImportsSettle` and
`DownloadsAreWhole` that promise an end. Of the safety properties:

* `StreamsOneAtATime` as a whole, which compares three configurations of the scheduler at
  once. Its parts are theorems of `ComputerProofs` for every configuration
  (`OneStreamInPublic`, `SlotIsConserved`, `OneWantedStreamPerHost`, and `TypeOK` in
  `Invariance`).
* `ObjectsAccounted` and `QuotaHolds` of the import with its held budget, in
  `ImportsAreCharged`: they are instances of what `OutputStorageProofs` proves for all
  uploads, jobs and imports.

## 6. What is not modelled

* The copy in `LocalStorage.download` (`storage.py:412-424`) and its `put_bytes`, which only tests call.
* Timeouts of single operations: HTTPX bounds one read or write, PostgreSQL one statement.
  In the models `Reply` bounds a whole request and `Wait` the wait of a whole check.
* The limit of 1000 rows of one purge, which a model with two logins does not reach, and
  the removal of expired challenges in the same pass.
* `server/watch_links.py` (resolving and validating URLs), `server/platforms.py`,
  `server/settings.py`: pure functions of their input.
* `deploy/cloudflare/storage.ts`: a gateway that forwards parts of an R2 upload; the store
  behind it is `RemoteObjects`.
* `server/telemetry.py`, logging, metrics and the studio `web/app`: they change no state
  that another part reads. The studio's retry of unanswered requests is an observation in
  section 4.
* In `server/repository.py`: the per-day quota and the count of media per tenant (they can
  only refuse), the replay of a `create` by its idempotency key, event rows, diagnostics,
  and playback positions beyond progress that grows.
* Encryption, signatures and tokens are opaque values with the key they were made with.
  Time is whole units: fractions of a second cannot reorder what the code compares with
  `>=` at the database's own clock.
* The FFmpeg pipeline itself: it starts, runs, ends or is killed.

## 7. What is left

1. The R2 multipart gateway `deploy/cloudflare/storage.ts` as a module over `RemoteObjects`.
